-------------------------------- MODULE Headers --------------------------------
(***************************************************************************)
(* The header arrays of src/shared/http.c.  An array has slots, as many as *)
(* header_count says, and an index behind the last one that is set; an     *)
(* unset slot has null pointers.  A line of a message is a token that says *)
(* whether there is a colon in it, a header line the header itself.        *)
(* (remove_header is called by nobody.)                                    *)
(***************************************************************************)
EXTENDS Integers, Sequences

CONSTANT Unset   \* a slot whose key and value are NULL

INITIAL_HEADER_COUNT == 1

\* Zeroed by memset.
create_headers(count) == [slot |-> [i \in 1 .. count |-> Unset], index |-> 0]

\* Mutant: the array grows when its last slot is taken, not when it is full.
add_headerGrowsEarly(headers, header) ==
  [slot  |-> SubSeq(headers.slot, 1, headers.index) \o <<header>>
             \o IF headers.index + 1 < Len(headers.slot)
                THEN SubSeq(headers.slot, headers.index + 2, Len(headers.slot)) ELSE <<Unset>>,
   index |-> headers.index + 1]

\* The slot behind the last one that is set; an array that is full grows by one.
add_header(headers, header) ==
  [slot  |-> SubSeq(headers.slot, 1, headers.index) \o <<header>>
             \o SubSeq(headers.slot, headers.index + 2, Len(headers.slot)),
   index |-> headers.index + 1]

\* Several calls of it.
add_headers(headers, added) ==
  LET after[i \in 0 .. Len(added)] ==
        IF i = 0 THEN headers ELSE add_header(after[i - 1], added[i])
  IN after[Len(added)]

\* All slots, set or not; strlen wants them set.
serialize_headers(headers) == headers.slot

\* strchr finds a colon.
IsHeader(line) == line.colon

\* One slot for every line, the first line included: if that has a colon it is a
\* header like the others.  Then header_count becomes the number of slots that
\* were set.
deserialize_headers(lines) ==
  LET parsed[i \in 0 .. Len(lines)] ==
        IF i = 0 THEN create_headers(Len(lines))
        ELSE IF IsHeader(lines[i]) THEN add_header(parsed[i - 1], lines[i])
        ELSE parsed[i - 1]
      all == parsed[Len(lines)]
  IN [all EXCEPT !.slot = SubSeq(@, 1, all.index)]

\* The first value of that key, or the null pointer.
find_header_value(headers, key, null) ==
  LET with == {i \in DOMAIN headers.slot : headers.slot[i].key = key} IN
  IF with = {} THEN null
  ELSE headers.slot[CHOOSE i \in with : \A j \in with : i <= j].value
===============================================================================
