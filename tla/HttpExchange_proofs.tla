-------------------------- MODULE HttpExchange_proofs --------------------------
(***************************************************************************)
(* One request and its response, for a resource of any size, any room in   *)
(* the kernels and any buffer that takes a head.                           *)
(***************************************************************************)
EXTENDS HttpExchange, SequenceTheorems, WellFoundedInduction, TLAPS

-------------------------------------------------------------------------------
(* Header arrays.  add_header and the parser are loops; what the array is  *)
(* after each turn is shown by looking at the first turn at which it would *)
(* be something else.                                                      *)

LEMMA LeastNumber ==
  ASSUME NEW T, T \subseteq Nat, T # {}
  PROVE  \E n \in T : \A m \in T : n <= m
<1>1. IsWellFoundedOn({ss \in Nat \X Nat : ss[1] < ss[2]}, Nat)
  BY NatLessThanWellFounded DEF OpToRel
<1>2. PICK n \in T : \A m \in T : ~ (<<m, n>> \in {ss \in Nat \X Nat : ss[1] < ss[2]})
  BY <1>1, WFMin
<1>3. ASSUME NEW m \in T PROVE ~ (m < n)
  <2>1. <<m, n>> \in Nat \X Nat
    OBVIOUS
  <2>2. ~ (<<m, n>>[1] < <<m, n>>[2])
    BY <1>2, <2>1
  <2> QED
    BY <2>2
<1>4. n \in Nat /\ \A m \in T : m \in Nat
  OBVIOUS
<1>5. \A m \in T : n <= m
  BY <1>3, <1>4
<1> QED
  BY <1>5

\* The array with these headers in the first of its count slots.
Filled(set, count) ==
  [slot |-> [i \in 1 .. count |-> IF i <= Len(set) THEN set[i] ELSE Unset], index |-> Len(set)]

LEMMA NoneFilled == \A count : create_headers(count) = Filled(<<>>, count)
<1>1. ASSUME NEW count, NEW i \in 1 .. count PROVE ~ (i <= Len(<<>>))
  OBVIOUS
<1>2. ASSUME NEW count
      PROVE  [i \in 1 .. count |-> Unset]
             = [i \in 1 .. count |-> IF i <= Len(<<>>) THEN <<>>[i] ELSE Unset]
  BY <1>1
<1> QED
  BY <1>2 DEF create_headers, Filled

\* http.c:70-102: the next slot takes the header, and an array that is full has
\* one slot more.
LEMMA OneMore ==
  ASSUME NEW S, NEW set \in Seq(S), NEW count \in Nat, Len(set) <= count, NEW header \in S
  PROVE  add_header(Filled(set, count), header) =
           Filled(Append(set, header), IF Len(set) < count THEN count ELSE count + 1)
<1> DEFINE T == S \cup {Unset}
           slot == [i \in 1 .. count |-> IF i <= Len(set) THEN set[i] ELSE Unset]
           k == Len(set)
           front == SubSeq(slot, 1, k)
           back == SubSeq(slot, k + 2, count)
           new == IF k < count THEN count ELSE count + 1
           longer == Append(set, header)
           all == (front \o <<header>>) \o back
<1>1. /\ slot \in Seq(T) /\ Len(slot) = count /\ k \in Nat /\ k <= count
      /\ \A i \in 1 .. count : slot[i] = IF i <= k THEN set[i] ELSE Unset
  OBVIOUS
<1>2. Len(longer) = k + 1 /\ longer[k + 1] = header /\ \A j \in 1 .. k : longer[j] = set[j]
  OBVIOUS
<1>3. <<header>> \in Seq(T) /\ Len(<<header>>) = 1 /\ <<header>>[1] = header
  OBVIOUS
<1>4. add_header(Filled(set, count), header) = [slot |-> all, index |-> k + 1]
  BY <1>1 DEF add_header, Filled
<1>5. Filled(longer, new) =
        [slot |-> [i \in 1 .. new |-> IF i <= k + 1 THEN longer[i] ELSE Unset], index |-> k + 1]
  BY <1>2 DEF Filled
<1> HIDE DEF slot, k, longer, T
<1>6. /\ front \in Seq(T) /\ Len(front) = k
      /\ \A i \in 1 .. k : front[i] = slot[i]
  <2>1. \A i \in 1 .. k : slot[i] \in T
    BY <1>1, ElementOfSeq
  <2>2. /\ front \in Seq(T) /\ Len(front) = IF 1 <= k THEN k - 1 + 1 ELSE 0
        /\ \A i \in 1 .. k - 1 + 1 : front[i] = slot[1 + i - 1]
    <3>1. 1 \in Int /\ k \in Int
      BY <1>1
    <3> QED
      BY <2>1, <3>1, SubSeqProperties
  <2> HIDE DEF front
  <2> QED
    BY <1>1, <2>2
<1>7. /\ back \in Seq(T) /\ Len(back) = IF k < count THEN count - k - 1 ELSE 0
      /\ \A i \in 1 .. Len(back) : back[i] = slot[k + 1 + i]
  <2>1. \A i \in k + 2 .. count : slot[i] \in T
    BY <1>1, ElementOfSeq
  <2>2. /\ back \in Seq(T) /\ Len(back) = IF k + 2 <= count THEN count - (k + 2) + 1 ELSE 0
        /\ \A i \in 1 .. count - (k + 2) + 1 : back[i] = slot[(k + 2) + i - 1]
    <3>1. k + 2 \in Int /\ count \in Int
      BY <1>1
    <3> QED
      BY <2>1, <3>1, SubSeqProperties
  <2> HIDE DEF back
  <2> QED
    BY <1>1, <2>2
<1> HIDE DEF front, back
<1>8. /\ front \o <<header>> \in Seq(T) /\ Len(front \o <<header>>) = k + 1
      /\ \A i \in 1 .. k + 1 : (front \o <<header>>)[i] = longer[i]
  <2>1. /\ front \o <<header>> \in Seq(T) /\ Len(front \o <<header>>) = k + 1
        /\ \A i \in 1 .. k + 1 :
             (front \o <<header>>)[i] = IF i <= k THEN front[i] ELSE <<header>>[i - k]
    BY <1>3, <1>6, ConcatProperties
  <2>2. ASSUME NEW i \in 1 .. k + 1 PROVE (front \o <<header>>)[i] = longer[i]
    <3>1. CASE i <= k
      BY <1>1, <1>2, <1>6, <2>1, <3>1
    <3>2. CASE ~ (i <= k)
      <4>1. i = k + 1 /\ i - k = 1
        BY <1>1, <3>2
      <4> QED
        BY <1>2, <1>3, <2>1, <4>1, <3>2
    <3> QED
      BY <3>1, <3>2
  <2> QED
    BY <2>1, <2>2
<1>9. /\ all \in Seq(T) /\ Len(all) = new
      /\ \A i \in 1 .. new : all[i] = IF i <= k + 1 THEN longer[i] ELSE Unset
  <2>1. /\ all \in Seq(T) /\ Len(all) = k + 1 + Len(back)
        /\ \A i \in 1 .. k + 1 + Len(back) :
             all[i] = IF i <= k + 1 THEN (front \o <<header>>)[i] ELSE back[i - (k + 1)]
    <3> DEFINE mid == front \o <<header>>
    <3>1. mid \in Seq(T) /\ Len(mid) = k + 1 /\ all = mid \o back
      BY <1>8
    <3> HIDE DEF all, mid
    <3>2. /\ all \in Seq(T) /\ Len(all) = Len(mid) + Len(back)
          /\ \A i \in 1 .. Len(mid) + Len(back) :
               all[i] = IF i <= Len(mid) THEN mid[i] ELSE back[i - Len(mid)]
      BY <1>7, <3>1, ConcatProperties
    <3> QED
      BY <3>1, <3>2 DEF mid
  <2>2. k + 1 + Len(back) = new
    BY <1>1, <1>7
  <2> HIDE DEF all
  <2>3. ASSUME NEW i \in 1 .. new, ~ (i <= k + 1) PROVE all[i] = Unset
    <3>1. i - (k + 1) \in 1 .. Len(back) /\ k + 1 + (i - (k + 1)) = i /\ i \in 1 .. count
          /\ ~ (i <= k)
      BY <1>1, <1>7, <2>2, <2>3
    <3> QED
      BY <1>1, <1>7, <2>1, <2>2, <2>3, <3>1
  <2>4. ASSUME NEW i \in 1 .. new, i <= k + 1 PROVE all[i] = longer[i]
    BY <1>1, <1>8, <2>1, <2>2, <2>4
  <2> HIDE DEF new
  <2> QED
    BY <2>1, <2>2, <2>3, <2>4
<1>10. all = [i \in 1 .. new |-> IF i <= k + 1 THEN longer[i] ELSE Unset]
  <2> HIDE DEF all, new
  <2>1. all = [i \in 1 .. Len(all) |-> all[i]]
    BY <1>9
  <2> QED
    BY <1>9, <2>1
<1>11. Filled(Append(set, header), IF Len(set) < count THEN count ELSE count + 1) = Filled(longer, new)
  BY DEF k, longer
<1> HIDE DEF all, new
<1> QED
  BY <1>4, <1>5, <1>10, <1>11

LEMMA Front ==
  ASSUME NEW S, NEW s \in Seq(S), NEW i \in 0 .. Len(s)
  PROVE  /\ SubSeq(s, 1, i) \in Seq(S) /\ Len(SubSeq(s, 1, i)) = i
         /\ i # 0 => SubSeq(s, 1, i) = Append(SubSeq(s, 1, i - 1), s[i])
         /\ i = 0 => SubSeq(s, 1, i) = <<>>
<1>1. Len(s) \in Nat /\ i \in Int /\ 1 \in Int /\ \A j \in 1 .. i : s[j] \in S
  BY ElementOfSeq
<1>2. SubSeq(s, 1, i) \in Seq(S) /\ Len(SubSeq(s, 1, i)) = i
  BY <1>1, SubSeqProperties
<1>3. ASSUME i # 0 PROVE SubSeq(s, 1, i) = Append(SubSeq(s, 1, i - 1), s[i])
  <2>1. 1 \in 1 .. Len(s) /\ i \in 1 .. Len(s)
    BY <1>1, <1>3
  <2>2. SubSeq(s, 1, i) = SubSeq(s, 1, i - 1) \o <<s[i]>>
    BY <2>1, SubSeqRecursiveSecond
  <2>3. SubSeq(s, 1, i - 1) \in Seq(S)
    <3>1. i - 1 \in Int /\ \A j \in 1 .. i - 1 : s[j] \in S
      BY <1>1
    <3> QED
      BY <1>1, <3>1, SubSeqProperties
  <2>4. s[i] \in S
    BY <2>1, ElementOfSeq
  <2> QED
    BY <2>2, <2>3, <2>4
<1>4. i = 0 => SubSeq(s, 1, i) = <<>>
  BY <1>1, SubSeqEmpty
<1> QED
  BY <1>2, <1>3, <1>4

\* A full array.
Full(set) == [slot |-> set, index |-> Len(set)]

LEMMA FullIsFilled ==
  ASSUME NEW S, NEW set \in Seq(S)
  PROVE  Filled(set, Len(set)) = Full(set)
<1>1. [i \in 1 .. Len(set) |-> IF i <= Len(set) THEN set[i] ELSE Unset] = set
  OBVIOUS
<1> QED
  BY <1>1 DEF Filled, Full

\* server.c:1248-1253: headers that are added one after the other fill the array.
LEMMA Added ==
  ASSUME NEW S, NEW added \in Seq(S), added # <<>>
  PROVE  add_headers(create_headers(INITIAL_HEADER_COUNT), added) = Full(added)
<1> DEFINE n == Len(added)
           first == create_headers(INITIAL_HEADER_COUNT)
           Ok(f) == f = [i \in 0 .. n |->
                          IF i = 0 THEN first ELSE add_header(f[i - 1], added[i])]
           after == CHOOSE f : Ok(f)
           want == [i \in 0 .. n |-> Filled(SubSeq(added, 1, i), IF i = 0 THEN 1 ELSE i)]
<1>1. n \in Nat \ {0}
  BY EmptySeq
<1>2. first = Filled(SubSeq(added, 1, 0), 1)
  <2>1. SubSeq(added, 1, 0) = <<>>
    BY <1>1, Front
  <2> QED
    BY <2>1, NoneFilled DEF INITIAL_HEADER_COUNT
<1>3. ASSUME NEW i \in 1 .. n PROVE want[i] = add_header(want[i - 1], added[i])
  <2> DEFINE set == SubSeq(added, 1, i - 1)
             count == IF i - 1 = 0 THEN 1 ELSE i - 1
  <2>1. i - 1 \in 0 .. Len(added) /\ i \in 0 .. Len(added) /\ i # 0
    BY <1>1
  <2>2. /\ set \in Seq(S) /\ Len(set) = i - 1 /\ SubSeq(added, 1, i) = Append(set, added[i])
        /\ added[i] \in S
    BY <2>1, Front, ElementOfSeq
  <2>3. count \in Nat /\ Len(set) <= count /\ i = IF Len(set) < count THEN count ELSE count + 1
    BY <2>1, <2>2
  <2>4. want[i - 1] = Filled(set, count) /\ want[i] = Filled(SubSeq(added, 1, i), i)
    BY <2>1
  <2> HIDE DEF want, set, count
  <2>5. PICK s, header : s = set /\ header = added[i]
    OBVIOUS
  <2>6. s \in Seq(S) /\ Len(s) <= count /\ count \in Nat /\ header \in S
    BY <2>2, <2>3, <2>5
  <2>7. add_header(Filled(s, count), header) =
          Filled(Append(s, header), IF Len(s) < count THEN count ELSE count + 1)
    BY <2>6, OneMore
  <2>8. want[i] = Filled(Append(s, header), IF Len(s) < count THEN count ELSE count + 1)
    BY <2>2, <2>3, <2>4, <2>5
  <2> QED
    BY <2>4, <2>5, <2>7, <2>8
<1>4. Ok(want)
  <2>1. want = [i \in 0 .. n |-> want[i]]
    OBVIOUS
  <2>2. want[0] = first
    BY <1>1, <1>2
  <2>3. \A i \in 0 .. n : want[i] = IF i = 0 THEN first ELSE add_header(want[i - 1], added[i])
    BY <1>1, <1>3, <2>2
  <2> HIDE DEF want, first, n
  <2> QED
    BY <2>1, <2>3
<1>5. Ok(after)
  <2> HIDE DEF Ok, want
  <2> QED
    BY <1>4
<1>6. \A i \in 0 .. n : after[i] = want[i]
  <2> HIDE DEF after, want, first, n
  <2>1. \A f : Ok(f) => f[0] = first /\ \A i \in 1 .. n : f[i] = add_header(f[i - 1], added[i])
    BY <1>1
  <2> HIDE DEF Ok
  <2> DEFINE Bad == {i \in 0 .. n : after[i] # want[i]}
  <2> SUFFICES ASSUME Bad # {} PROVE FALSE
    OBVIOUS
  <2>2. PICK k : k \in Bad /\ \A m \in Bad : k <= m
    <3>1. Bad \subseteq Nat
      OBVIOUS
    <3> HIDE DEF Bad
    <3> QED
      BY <3>1, LeastNumber
  <2>3. k # 0
    BY <1>4, <1>5, <2>1, <2>2
  <2>4. k - 1 \in 0 .. n /\ k \in 1 .. n /\ k - 1 \notin Bad
    BY <1>1, <2>2, <2>3
  <2> QED
    BY <1>4, <1>5, <2>1, <2>2, <2>4
<1>7. add_headers(create_headers(INITIAL_HEADER_COUNT), added) = after[n]
  BY DEF add_headers
<1>8. want[n] = Filled(SubSeq(added, 1, n), n)
  BY <1>1
<1>9. SubSeq(added, 1, n) = added
  BY SubSeqFull
<1>10. after[n] = want[n]
  <2> HIDE DEF after, want, n
  <2> QED
    BY <1>1, <1>6
<1> HIDE DEF after, want, Ok
<1> QED
  BY <1>7, <1>8, <1>9, <1>10, FullIsFilled

LEMMA SlotsCut ==
  ASSUME NEW slot, NEW count, NEW cut
  PROVE  [[slot |-> slot, index |-> count] EXCEPT !.slot = cut] = [slot |-> cut, index |-> count]
OBVIOUS

\* http.c:178-246: the parser finds the header lines, all of them and in order,
\* and counts the slots it has set; d is 1 if there is a first line that is none.
LEMMA ParsedLines ==
  ASSUME NEW S, NEW set \in Seq(S), NEW d \in {0, 1},
         NEW lines, Len(lines) = Len(set) + d, Len(lines) # 0,
         \A i \in d + 1 .. Len(lines) : lines[i] = set[i - d] /\ IsHeader(lines[i]),
         d = 1 => ~ IsHeader(lines[1])
  PROVE  deserialize_headers(lines) = Full(set)
<1> DEFINE n == Len(lines)
           first == create_headers(n)
           Ok(f) == f = [i \in 0 .. n |->
                          IF i = 0 THEN first
                          ELSE IF IsHeader(lines[i]) THEN add_header(f[i - 1], lines[i])
                          ELSE f[i - 1]]
           parsed == CHOOSE f : Ok(f)
           want == [i \in 0 .. n |-> Filled(SubSeq(set, 1, IF i = 0 THEN 0 ELSE i - d), n)]
<1>1. /\ Len(set) \in Nat /\ n = Len(set) + d /\ n \in Nat \ {0}
      /\ \A i \in d + 1 .. n : lines[i] = set[i - d] /\ IsHeader(lines[i])
      /\ d = 1 => ~ IsHeader(lines[1])
      /\ d \in {0, 1}
  OBVIOUS
<1>2. first = Filled(SubSeq(set, 1, 0), n)
  <2>1. SubSeq(set, 1, 0) = <<>>
    BY <1>1, Front
  <2> QED
    BY <2>1, NoneFilled
<1> HIDE DEF first
<1>3. ASSUME NEW i \in 1 .. n
      PROVE  want[i] = IF IsHeader(lines[i]) THEN add_header(want[i - 1], lines[i]) ELSE want[i - 1]
  <2>1. CASE i = d
    <3>1. d = 1 /\ i = 1 /\ i - d = 0 /\ i - 1 = 0 /\ i # 0
      BY <1>1, <2>1
    <3>2. want[1] = Filled(SubSeq(set, 1, 0), n) /\ want[0] = Filled(SubSeq(set, 1, 0), n)
      BY <1>1, <3>1
    <3> HIDE DEF want
    <3> QED
      BY <1>1, <3>1, <3>2
  <2>2. CASE i # d
    <3> DEFINE k == i - d
               front == SubSeq(set, 1, k - 1)
    <3>1. /\ k \in 1 .. Len(set) /\ k - 1 \in 0 .. Len(set) /\ i \in d + 1 .. n /\ i # 0
          /\ i \in 0 .. n /\ i - 1 \in 0 .. n
          /\ (i - 1 = 0 => k - 1 = 0) /\ (i - 1) - d = k - 1
      BY <1>1, <2>2
    <3>2. /\ front \in Seq(S) /\ Len(front) = k - 1
          /\ SubSeq(set, 1, k) = Append(front, set[k]) /\ set[k] \in S
      BY <3>1, Front, ElementOfSeq
    <3>3. want[i - 1] = Filled(front, n) /\ want[i] = Filled(SubSeq(set, 1, k), n)
      BY <3>1
    <3>4. lines[i] = set[k] /\ IsHeader(lines[i])
      BY <1>1, <3>1
    <3>5. n \in Nat /\ Len(front) < n /\ Len(front) <= n
      BY <1>1, <3>1, <3>2
    <3>6. add_header(Filled(front, n), set[k]) = Filled(Append(front, set[k]), n)
      <4> HIDE DEF front, n, k
      <4> QED
        BY <3>2, <3>5, OneMore
    <3> HIDE DEF want, front, n, k
    <3> QED
      BY <3>2, <3>3, <3>4, <3>6
  <2> QED
    BY <2>1, <2>2
<1>4. Ok(want)
  <2>1. want = [i \in 0 .. n |-> want[i]]
    OBVIOUS
  <2>2. want[0] = first
    BY <1>1, <1>2
  <2>3. \A i \in 0 .. n : want[i] = IF i = 0 THEN first
                                    ELSE IF IsHeader(lines[i]) THEN add_header(want[i - 1], lines[i])
                                    ELSE want[i - 1]
    <3> SUFFICES ASSUME NEW i \in 0 .. n
                 PROVE  want[i] = IF i = 0 THEN first
                                  ELSE IF IsHeader(lines[i]) THEN add_header(want[i - 1], lines[i])
                                  ELSE want[i - 1]
      OBVIOUS
    <3> HIDE DEF want, n
    <3>1. i = 0 \/ i \in 1 .. n
      BY <1>1
    <3> QED
      BY <1>3, <2>2, <3>1
  <2> HIDE DEF want, n
  <2> QED
    BY <2>1, <2>3
<1>5. Ok(parsed)
  <2> HIDE DEF Ok, want
  <2> QED
    BY <1>4
<1>6. \A i \in 0 .. n : parsed[i] = want[i]
  <2> HIDE DEF parsed, want, n
  <2>1. \A f : Ok(f) => /\ f[0] = first
                        /\ \A i \in 1 .. n : f[i] = IF IsHeader(lines[i])
                                                     THEN add_header(f[i - 1], lines[i])
                                                     ELSE f[i - 1]
    <3>1. ASSUME NEW f, Ok(f)
          PROVE  \A i \in 0 .. n : f[i] = IF i = 0 THEN first
                                          ELSE IF IsHeader(lines[i]) THEN add_header(f[i - 1], lines[i])
                                          ELSE f[i - 1]
      BY <3>1, Zenon
    <3>2. 0 \in 0 .. n /\ \A i \in 1 .. n : i \in 0 .. n /\ i # 0
      BY <1>1
    <3> HIDE DEF Ok
    <3> QED
      BY <3>1, <3>2, Zenon
  <2> HIDE DEF Ok
  <2> DEFINE Bad == {i \in 0 .. n : parsed[i] # want[i]}
  <2> SUFFICES ASSUME Bad # {} PROVE FALSE
    OBVIOUS
  <2>2. PICK k : k \in Bad /\ \A m \in Bad : k <= m
    <3>1. Bad \subseteq Nat
      OBVIOUS
    <3> HIDE DEF Bad
    <3> QED
      BY <3>1, LeastNumber
  <2>3. k # 0
    BY <1>4, <1>5, <2>1, <2>2
  <2>4. k - 1 \in 0 .. n /\ k \in 1 .. n /\ k - 1 \notin Bad
    BY <1>1, <2>2, <2>3
  <2> QED
    BY <1>4, <1>5, <2>1, <2>2, <2>4
<1>7. deserialize_headers(lines) =
        [parsed[n] EXCEPT !.slot = SubSeq(@, 1, parsed[n].index)]
  BY DEF deserialize_headers, first
<1>8. want[n] = Filled(set, n)
  <2>1. SubSeq(set, 1, n - d) = set
    <3>1. n - d = Len(set)
      BY <1>1
    <3> QED
      BY <3>1, SubSeqFull
  <2>2. n \in 0 .. n /\ n # 0
    BY <1>1
  <2> HIDE DEF n
  <2>3. want[n] = Filled(SubSeq(set, 1, n - d), n)
    BY <2>2
  <2> QED
    BY <2>1, <2>3
<1>9. [Filled(set, n) EXCEPT !.slot = SubSeq(@, 1, Filled(set, n).index)] =
        [slot |-> SubSeq(Filled(set, n).slot, 1, Len(set)), index |-> Len(set)]
  <2>1. PICK slot : Filled(set, n) = [slot |-> slot, index |-> Len(set)]
    BY DEF Filled
  <2>2. Filled(set, n).slot = slot /\ Filled(set, n).index = Len(set)
    BY <2>1
  <2> HIDE DEF n
  <2>3. PICK count, cut : count = Len(set) /\ cut = SubSeq(slot, 1, count)
    OBVIOUS
  <2>4. [[slot |-> slot, index |-> count] EXCEPT !.slot = cut] = [slot |-> cut, index |-> count]
    BY SlotsCut
  <2> QED
    BY <2>1, <2>2, <2>3, <2>4, Zenon
<1>10. SubSeq(Filled(set, n).slot, 1, Len(set)) = set
  <2> DEFINE slot == Filled(set, n).slot
             front == SubSeq(slot, 1, Len(set))
  <2>1. \A i \in 1 .. Len(set) : slot[i] = set[i] /\ slot[i] \in S
    BY <1>1, ElementOfSeq DEF Filled
  <2> HIDE DEF slot, n
  <2>2. front \in Seq(S) /\ Len(front) = Len(set) /\ \A i \in 1 .. Len(set) : front[i] = slot[i]
    <3>1. 1 \in Int /\ Len(set) \in Int
      BY <1>1
    <3>2. /\ front \in Seq(S) /\ Len(front) = IF 1 <= Len(set) THEN Len(set) - 1 + 1 ELSE 0
          /\ \A i \in 1 .. Len(set) - 1 + 1 : front[i] = slot[1 + i - 1]
      BY <2>1, <3>1, SubSeqProperties
    <3> HIDE DEF front
    <3> QED
      BY <1>1, <3>2
  <2> HIDE DEF front
  <2>3. front = set
    BY <2>1, <2>2, SeqEqual
  <2> QED
    BY <2>3 DEF front, slot
<1> HIDE DEF parsed, want, Ok
<1>11. parsed[n] = Filled(set, n)
  BY <1>1, <1>6, <1>8
<1> QED
  BY <1>7, <1>9, <1>10, <1>11 DEF Full

\* The first line is a header if there is a colon in it.
LEMMA Parsed ==
  ASSUME NEW S, NEW start \in S, NEW set \in Seq(S),
         \A i \in 1 .. Len(set) : IsHeader(set[i])
  PROVE  deserialize_headers(<<start>> \o set) =
           Full(IF IsHeader(start) THEN <<start>> \o set ELSE set)
<1> DEFINE lines == <<start>> \o set
           n == Len(lines)
<1>1. /\ Len(set) \in Nat /\ n = Len(set) + 1 /\ lines \in Seq(S)
      /\ lines[1] = start /\ \A i \in 2 .. n : lines[i] = set[i - 1]
  <2>1. <<start>> \in Seq(S) /\ Len(<<start>>) = 1 /\ <<start>>[1] = start
    OBVIOUS
  <2>2. /\ n = 1 + Len(set) /\ lines \in Seq(S)
        /\ \A i \in 1 .. 1 + Len(set) : lines[i] = IF i <= 1 THEN <<start>>[i] ELSE set[i - 1]
    <3> DEFINE one == <<start>>
    <3> HIDE DEF one
    <3>1. /\ Len(one \o set) = Len(one) + Len(set) /\ one \o set \in Seq(S)
          /\ \A i \in 1 .. Len(one) + Len(set) :
               (one \o set)[i] = IF i <= Len(one) THEN one[i] ELSE set[i - Len(one)]
      BY <2>1, ConcatProperties DEF one
    <3> QED
      BY <2>1, <3>1 DEF one
  <2> HIDE DEF lines
  <2> QED
    BY <2>1, <2>2
<1> HIDE DEF lines
<1>2. CASE IsHeader(start)
  <2>1. /\ Len(lines) = Len(lines) + 0 /\ Len(lines) # 0 /\ 0 # 1
        /\ \A i \in 0 + 1 .. Len(lines) : lines[i] = lines[i - 0] /\ IsHeader(lines[i])
    <3>1. ASSUME NEW i \in 0 + 1 .. Len(lines) PROVE lines[i] = lines[i - 0] /\ IsHeader(lines[i])
      <4>1. i - 0 = i /\ (i = 1 \/ (i \in 2 .. n /\ i - 1 \in 1 .. Len(set)))
        BY <1>1
      <4> QED
        BY <1>1, <1>2, <4>1
    <3> QED
      BY <1>1, <3>1
  <2>2. deserialize_headers(lines) = Full(lines)
    BY <1>1, <2>1, ParsedLines
  <2> QED
    BY <1>2, <2>2 DEF lines
<1>3. CASE ~ IsHeader(start)
  <2>1. /\ Len(lines) = Len(set) + 1 /\ Len(lines) # 0
        /\ \A i \in 1 + 1 .. Len(lines) : lines[i] = set[i - 1] /\ IsHeader(lines[i])
    <3>1. ASSUME NEW i \in 1 + 1 .. Len(lines) PROVE lines[i] = set[i - 1] /\ IsHeader(lines[i])
      <4>1. i \in 2 .. n /\ i - 1 \in 1 .. Len(set)
        BY <1>1
      <4> QED
        BY <1>1, <4>1
    <3> QED
      BY <1>1, <3>1
  <2>2. ~ IsHeader(lines[1])
    BY <1>1, <1>3
  <2>3. deserialize_headers(lines) = Full(set)
    BY <2>1, <2>2, ParsedLines
  <2> QED
    BY <1>3, <2>3 DEF lines
<1> QED
  BY <1>2, <1>3

-------------------------------------------------------------------------------
(* The messages: what each side is sent, as the other serialises it.       *)

FirstLine(side) == IF side = "server" THEN Start(kind, colon) ELSE Start(Status(kind), FALSE)

Lines(side) ==
  IF side = "server" THEN <<Header("Host", 0)>>
  ELSE IF Status(kind) = "200"
  THEN << Header("Content-Type", 0), Header("Content-Length", Len(resource)),
          Header("Connection", 0) >>
  ELSE <<>>

\* What the parser takes for headers.
Found(side) == IF side = "server" /\ colon THEN <<FirstLine(side)>> \o Lines(side) ELSE Lines(side)

HeadTo(side)    == <<FirstLine(side)>> \o Lines(side)
Behind(side)    == IF side = "server" THEN <<>> ELSE resource \o <<Garbage>>
MessageTo(side) == (HeadTo(side) \o <<Blank>>) \o Behind(side)
Size(side)      == IF side = "server" THEN 0 ELSE Len(resource)

\* What does not change.
AskedFor ==
  /\ kind \in Kinds /\ colon \in BOOLEAN /\ resource \in Seq(Tokens) /\ Len(resource) <= MaxBody
  /\ \A i \in 1 .. Len(resource) : resource[i] = Data(i)
  /\ kind \in {"missing", "bad"} => resource = <<>>

LEMMA TokenKinds ==
  /\ Blank \in Tokens /\ Garbage \in Tokens /\ \A k \in 1 .. MaxBody : Data(k) \in Tokens
  /\ Header("Host", 0) \in Tokens /\ Header("Content-Type", 0) \in Tokens
  /\ Header("Connection", 0) \in Tokens
  /\ \A n \in 0 .. MaxBody : Header("Content-Length", n) \in Tokens
  /\ \A k \in Kinds \cup {"200", "400", "404"} : \A c \in BOOLEAN : Start(k, c) \in Tokens
<1> USE ExchangeAssumption DEF Tokens, Kinds
<1>1. 0 \in 0 .. MaxBody /\ \A k \in 1 .. MaxBody : k \in 0 .. MaxBody
  OBVIOUS
<1> QED
  BY <1>1 DEF Token, Blank, Garbage, Data, Header, Start

LEMMA StatusOf ==
  ASSUME AskedFor
  PROVE  /\ Status(kind) \in {"200", "404", "400"}
         /\ Status(kind) = "200" <=> kind \in {"file", "listing"}
BY DEF AskedFor, Kinds, Status

LEMMA LinesOf ==
  ASSUME AskedFor, NEW side \in Sides
  PROVE  /\ FirstLine(side) \in Tokens /\ FirstLine(side) # Blank
         /\ IsHeader(FirstLine(side)) <=> side = "server" /\ colon
         /\ Lines(side) \in Seq(Tokens)
         /\ \A i \in 1 .. Len(Lines(side)) : IsHeader(Lines(side)[i]) /\ Lines(side)[i] # Blank
         /\ Behind(side) \in Seq(Tokens)
         /\ Len(Behind(side)) = IF side = "server" THEN 0 ELSE Size(side) + 1
         /\ Size(side) \in Nat
<1>1. /\ FirstLine(side) \in Tokens /\ FirstLine(side) # Blank
      /\ IsHeader(FirstLine(side)) <=> side = "server" /\ colon
  <2>1. kind \in Kinds /\ colon \in BOOLEAN
    BY DEF AskedFor
  <2>2. \A t : \A c \in BOOLEAN : (IsHeader(Start(t, c)) <=> c) /\ Start(t, c) # Blank
    BY DEF Token, Start, Blank, IsHeader
  <2> QED
    BY <2>1, <2>2, StatusOf, TokenKinds DEF FirstLine
<1>2. /\ Lines(side) \in Seq(Tokens)
      /\ \A i \in 1 .. Len(Lines(side)) : IsHeader(Lines(side)[i]) /\ Lines(side)[i] # Blank
  <2>1. \A key, value : IsHeader(Header(key, value)) /\ Header(key, value) # Blank
    BY DEF Token, Header, Blank, IsHeader
  <2>2. Len(resource) \in 0 .. MaxBody
    BY DEF AskedFor
  <2>3. CASE side = "server"
    <3> DEFINE h == Header("Host", 0)
    <3>1. h \in Tokens /\ IsHeader(h) /\ h # Blank
      BY <2>1, TokenKinds
    <3>2. Lines(side) = <<h>>
      BY <2>3 DEF Lines
    <3> HIDE DEF h
    <3> QED
      BY <3>1, <3>2
  <2>4. CASE side # "server" /\ Status(kind) = "200"
    <3> DEFINE a == Header("Content-Type", 0)
               b == Header("Content-Length", Len(resource))
               c == Header("Connection", 0)
    <3>1. /\ a \in Tokens /\ b \in Tokens /\ c \in Tokens
          /\ IsHeader(a) /\ IsHeader(b) /\ IsHeader(c)
          /\ a # Blank /\ b # Blank /\ c # Blank
      BY <2>1, <2>2, TokenKinds
    <3>2. Lines(side) = <<a, b, c>>
      BY <2>4 DEF Lines
    <3> HIDE DEF a, b, c
    <3> QED
      BY <3>1, <3>2
  <2>5. CASE side # "server" /\ Status(kind) # "200"
    BY <2>5 DEF Lines
  <2> QED
    BY <2>3, <2>4, <2>5
<1>3. /\ Behind(side) \in Seq(Tokens) /\ Size(side) \in Nat
      /\ Len(Behind(side)) = IF side = "server" THEN 0 ELSE Size(side) + 1
  <2>1. resource \in Seq(Tokens) /\ Garbage \in Tokens
    BY TokenKinds DEF AskedFor
  <2>2. /\ <<Garbage>> \in Seq(Tokens) /\ Len(<<Garbage>>) = 1
        /\ resource \o <<Garbage>> \in Seq(Tokens)
        /\ Len(resource \o <<Garbage>>) = Len(resource) + 1
    BY <2>1
  <2> QED
    BY <2>1, <2>2 DEF Behind, Size
<1> QED
  BY <1>1, <1>2, <1>3

\* Where the blank line stands.
LEMMA HeadEnds ==
  ASSUME AskedFor, NEW side \in Sides
  PROVE  /\ HeadTo(side) \in Seq(Tokens) /\ Len(HeadTo(side)) = Len(Lines(side)) + 1
         /\ \A i \in 1 .. Len(HeadTo(side)) : HeadTo(side)[i] # Blank
         /\ MessageTo(side) \in Seq(Tokens)
         /\ Len(MessageTo(side)) = Len(HeadTo(side)) + 1 + Len(Behind(side))
         /\ \A i \in 1 .. Len(HeadTo(side)) : MessageTo(side)[i] = HeadTo(side)[i]
         /\ MessageTo(side)[Len(HeadTo(side)) + 1] = Blank
         /\ \A i \in 1 .. Len(Behind(side)) :
              MessageTo(side)[Len(HeadTo(side)) + 1 + i] = Behind(side)[i]
<1> DEFINE first == <<FirstLine(side)>>
           head == HeadTo(side)
           blank == <<Blank>>
           behind == Behind(side)
           lines == Lines(side)
<1>1. /\ first \in Seq(Tokens) /\ Len(first) = 1 /\ first[1] = FirstLine(side) /\ first[1] # Blank
      /\ blank \in Seq(Tokens) /\ Len(blank) = 1 /\ blank[1] = Blank
      /\ lines \in Seq(Tokens) /\ behind \in Seq(Tokens)
      /\ Len(lines) \in Nat /\ Len(behind) \in Nat
      /\ \A i \in 1 .. Len(lines) : lines[i] # Blank
  BY LinesOf, TokenKinds
<1>2. head = first \o lines /\ MessageTo(side) = (head \o blank) \o behind
  BY DEF HeadTo, MessageTo
<1> HIDE DEF first, head, blank, behind, lines
<1>3. /\ head \in Seq(Tokens) /\ Len(head) = Len(lines) + 1
      /\ \A i \in 1 .. Len(head) : head[i] # Blank
  <2>1. /\ head \in Seq(Tokens) /\ Len(head) = Len(first) + Len(lines)
        /\ \A i \in 1 .. Len(first) + Len(lines) :
             head[i] = IF i <= Len(first) THEN first[i] ELSE lines[i - Len(first)]
    BY <1>1, <1>2, ConcatProperties
  <2>2. ASSUME NEW i \in 1 .. Len(head) PROVE head[i] # Blank
    <3>1. CASE i = 1
      BY <1>1, <2>1, <3>1
    <3>2. CASE i # 1
      <4>1. i - 1 \in 1 .. Len(lines) /\ ~ (i <= 1) /\ i \in 1 .. 1 + Len(lines)
        BY <1>1, <2>1, <3>2
      <4>2. head[i] = lines[i - 1]
        BY <1>1, <2>1, <4>1
      <4> QED
        BY <1>1, <4>1, <4>2
    <3> QED
      BY <3>1, <3>2
  <2> QED
    BY <1>1, <2>1, <2>2
<1> DEFINE mid == head \o blank
           all == MessageTo(side)
<1>4. /\ mid \in Seq(Tokens) /\ Len(mid) = Len(head) + 1
      /\ \A i \in 1 .. Len(head) + 1 : mid[i] = IF i <= Len(head) THEN head[i] ELSE blank[i - Len(head)]
  <2> HIDE DEF mid
  <2>1. /\ mid \in Seq(Tokens) /\ Len(mid) = Len(head) + Len(blank)
        /\ \A i \in 1 .. Len(head) + Len(blank) :
             mid[i] = IF i <= Len(head) THEN head[i] ELSE blank[i - Len(head)]
    BY <1>1, <1>3, ConcatProperties DEF mid
  <2> QED
    BY <1>1, <2>1
<1>10. all = mid \o behind
  BY <1>2
<1> HIDE DEF mid, all
<1>5. /\ all \in Seq(Tokens) /\ Len(all) = Len(mid) + Len(behind)
      /\ \A i \in 1 .. Len(mid) + Len(behind) :
           all[i] = IF i <= Len(mid) THEN mid[i] ELSE behind[i - Len(mid)]
  BY <1>1, <1>4, <1>10, ConcatProperties
<1>6. Len(head) \in Nat
  BY <1>1, <1>3
<1>7. \A i \in 1 .. Len(head) : all[i] = head[i]
  BY <1>1, <1>4, <1>5, <1>6
<1>8. all[Len(head) + 1] = Blank
  <2>1. Len(head) + 1 \in 1 .. Len(head) + 1 /\ ~ (Len(head) + 1 <= Len(head))
        /\ Len(head) + 1 - Len(head) = 1
    BY <1>6
  <2>2. mid[Len(head) + 1] = blank[1]
    BY <1>4, <2>1
  <2> QED
    BY <1>1, <1>4, <1>5, <1>6, <2>2
<1>9. \A i \in 1 .. Len(behind) : all[Len(head) + 1 + i] = behind[i]
  <2> SUFFICES ASSUME NEW i \in 1 .. Len(behind) PROVE all[Len(head) + 1 + i] = behind[i]
    OBVIOUS
  <2>1. /\ Len(head) + 1 + i \in 1 .. Len(mid) + Len(behind) /\ ~ (Len(head) + 1 + i <= Len(mid))
        /\ Len(head) + 1 + i - Len(mid) = i
    BY <1>1, <1>4, <1>6
  <2> QED
    BY <1>5, <2>1
<1> QED
  BY <1>1, <1>3, <1>4, <1>5, <1>7, <1>8, <1>9 DEF all, head, behind, lines

\* http.c:376-409, 701-749: both messages, as they are sent, are those.
LEMMA Serialized ==
  ASSUME AskedFor
  PROVE  /\ serialize_http_request_header(create_http_request(kind, RequestHeaders))
              = MessageTo("server")
         /\ serialize_http_response(Response(kind)) = MessageTo("client")
         /\ RequestHeaders = Full(Lines("server"))
         /\ Status(kind) = "200" => ResponseHeaders(resource) = Full(Lines("client"))
<1>1. RequestHeaders = Full(Lines("server"))
  <2> DEFINE h == Header("Host", 0)
  <2>1. h \in Tokens
    BY TokenKinds
  <2>2. RequestHeaders = add_header(Filled(<<>>, 1), h)
    BY NoneFilled DEF RequestHeaders, INITIAL_HEADER_COUNT
  <2>3. Lines("server") = <<h>>
    BY DEF Lines
  <2> HIDE DEF h
  <2> DEFINE none == <<>>
  <2>4. /\ none \in Seq(Tokens) /\ Len(none) = 0 /\ Append(none, h) = <<h>>
        /\ <<h>> \in Seq(Tokens) /\ Len(<<h>>) = 1
    BY <2>1
  <2>5. add_header(Filled(none, 1), h) = Filled(<<h>>, 1)
    <3> HIDE DEF none
    <3>1. 1 \in Nat /\ Len(none) <= 1 /\ Len(none) < 1
      BY <2>4
    <3>2. add_header(Filled(none, 1), h) =
            Filled(Append(none, h), IF Len(none) < 1 THEN 1 ELSE 1 + 1)
      BY <2>1, <2>4, <3>1, OneMore
    <3> QED
      BY <2>4, <3>1, <3>2
  <2>6. Filled(<<h>>, 1) = Full(<<h>>)
    BY <2>4, FullIsFilled
  <2> QED
    BY <2>2, <2>3, <2>5, <2>6
<1>2. ASSUME Status(kind) = "200" PROVE ResponseHeaders(resource) = Full(Lines("client"))
  <2>1. ResponseHeaders(resource) =
          add_headers(create_headers(INITIAL_HEADER_COUNT), Lines("client"))
    BY <1>2 DEF ResponseHeaders, Lines
  <2>2. Lines("client") \in Seq(Tokens)
    BY LinesOf DEF Sides
  <2>3. Lines("client") # <<>>
    BY <1>2 DEF Lines
  <2> QED
    BY <2>1, <2>2, <2>3, Added
<1>3. serialize_http_request_header(create_http_request(kind, RequestHeaders)) = MessageTo("server")
  <2>1. serialize_http_request_header(create_http_request(kind, RequestHeaders))
        = HeadTo("server") \o <<Blank>>
    BY <1>1 DEF serialize_http_request_header, create_http_request, serialize_headers, Full,
                HeadTo, FirstLine
  <2>2. HeadTo("server") \o <<Blank>> \in Seq(Tokens)
    BY HeadEnds, TokenKinds DEF Sides
  <2>3. MessageTo("server") = (HeadTo("server") \o <<Blank>>) \o <<>>
    BY DEF MessageTo, Behind
  <2> QED
    BY <2>1, <2>2, <2>3, ConcatEmptySeq
<1>4. serialize_http_response(Response(kind)) = MessageTo("client")
  <2>1. /\ Response(kind).start = Start(Status(kind), FALSE) /\ Response(kind).body = resource
        /\ Response(kind).headers.slot = Lines("client")
    <3>1. CASE Status(kind) = "200"
      BY <1>2, <3>1 DEF Response, create_http_response, Full
    <3>2. CASE Status(kind) # "200"
      <4>1. resource = <<>>
        BY <3>2, StatusOf DEF AskedFor, Kinds
      <4>2. create_headers(0).slot = <<>>
        BY DEF create_headers
      <4> QED
        BY <3>2, <4>1, <4>2 DEF Response, create_http_response, Lines
    <3> QED
      BY <3>1, <3>2
  <2> DEFINE mid == HeadTo("client") \o <<Blank>>
             end == <<Garbage>>
  <2>2. serialize_http_response(Response(kind)) = (mid \o resource) \o end
    BY <2>1 DEF serialize_http_response, serialize_headers, HeadTo, FirstLine
  <2>3. MessageTo("client") = mid \o (resource \o end)
    BY DEF MessageTo, Behind
  <2>4. mid \in Seq(Tokens) /\ end \in Seq(Tokens) /\ resource \in Seq(Tokens)
    BY HeadEnds, TokenKinds DEF Sides, AskedFor
  <2> HIDE DEF mid, end
  <2>5. (mid \o resource) \o end = mid \o (resource \o end)
    BY <2>4, ConcatAssociative
  <2> QED
    BY <2>2, <2>3, <2>5, Zenon
<1> QED
  BY <1>1, <1>2, <1>3, <1>4

LEMMA OneAndOne ==
  ASSUME NEW a \in Tokens, NEW b \in Tokens
  PROVE  <<a>> \o <<b>> = <<a, b>>
<1> DEFINE both == <<a>> \o <<b>>
           pair == <<a, b>>
<1>1. both \in Seq(Tokens) /\ Len(both) = 2 /\ both[1] = a /\ both[2] = b
  OBVIOUS
<1>2. pair \in Seq(Tokens) /\ Len(pair) = 2 /\ pair[1] = a /\ pair[2] = b
  OBVIOUS
<1> HIDE DEF both, pair
<1>3. \A i \in 1 .. 2 : i = 1 \/ i = 2
  OBVIOUS
<1>4. both = pair
  BY <1>1, <1>2, <1>3, SeqEqual
<1> QED
  BY <1>4 DEF both, pair

\* http.c:248-259: the length in the headers.
LEMMA LengthFound ==
  ASSUME AskedFor, NEW side \in Sides
  PROVE  find_header_value(Full(Found(side)), "Content-Length", 0) = Size(side)
<1> DEFINE with == {i \in DOMAIN Full(Found(side)).slot :
                      Full(Found(side)).slot[i].key = "Content-Length"}
<1>1. ASSUME with = {}, Size(side) = 0
      PROVE  find_header_value(Full(Found(side)), "Content-Length", 0) = Size(side)
  BY <1>1 DEF find_header_value
<1>2. Full(Found(side)).slot = Found(side)
  BY DEF Full
<1>3. CASE side = "server"
  <2> DEFINE first == FirstLine(side)
             host == Header("Host", 0)
  <2>1. Found(side) = IF colon THEN <<first>> \o <<host>> ELSE <<host>>
    BY <1>3 DEF Found, Lines
  <2>2. first.key # "Content-Length" /\ host.key # "Content-Length"
    BY <1>3 DEF AskedFor, Kinds, FirstLine, Token, Start, Header
  <2> HIDE DEF first, host
  <2>3. with = {}
    <3>1. CASE colon
      <4>1. Found(side) = <<first, host>>
        <5>1. \A a, b \in Tokens : <<a>> \o <<b>> = <<a, b>>
          BY OneAndOne
        <5>2. first \in Tokens /\ host \in Tokens
          BY LinesOf, TokenKinds DEF first, host
        <5>3. Found(side) = <<first>> \o <<host>>
          BY <2>1, <3>1
        <5> QED
          BY <5>1, <5>2, <5>3, Zenon
      <4> QED
        BY <1>2, <2>2, <4>1
    <3>2. CASE ~ colon
      BY <1>2, <2>1, <2>2, <3>2
    <3> QED
      BY <3>1, <3>2
  <2> QED
    BY <1>1, <1>3, <2>3 DEF Size
<1>4. CASE side # "server" /\ Status(kind) # "200"
  <2>1. Found(side) = <<>>
    BY <1>4 DEF Found, Lines
  <2>2. with = {}
    BY <1>2, <2>1
  <2>3. resource = <<>>
    BY <1>4, StatusOf DEF AskedFor, Kinds
  <2>4. Size(side) = 0
    BY <1>4, <2>3 DEF Size
  <2> QED
    BY <1>1, <2>2, <2>4
<1>5. CASE side # "server" /\ Status(kind) = "200"
  <2>1. Found(side) = << Header("Content-Type", 0), Header("Content-Length", Len(resource)),
                         Header("Connection", 0) >>
    BY <1>5 DEF Found, Lines
  <2>2. DOMAIN Found(side) = {1, 2, 3}
    BY <2>1
  <2>3. /\ Found(side)[1].key = "Content-Type" /\ Found(side)[3].key = "Connection"
        /\ Found(side)[2].key = "Content-Length" /\ Found(side)[2].value = Len(resource)
    BY <2>1 DEF Token, Header
  <2>4. with = {2}
    BY <1>2, <2>2, <2>3
  <2>5. find_header_value(Full(Found(side)), "Content-Length", 0) =
          Found(side)[CHOOSE i \in {2} : \A j \in {2} : i <= j].value
    BY <1>2, <2>4 DEF find_header_value
  <2>6. (CHOOSE i \in {2} : \A j \in {2} : i <= j) = 2
    OBVIOUS
  <2> QED
    BY <1>5, <2>3, <2>5, <2>6 DEF Size
<1> QED
  BY <1>3, <1>4, <1>5

\* read_until_double_end_line and the parsers: whatever the reader has of the
\* message, its first blank line is the one behind the head; in front of it are
\* the lines that were sent, behind it is the front of the rest.
LEMMA HeadRead ==
  ASSUME AskedFor, NEW side \in Sides, NEW b \in Seq(Tokens), NEW later \in Seq(Tokens),
         b \o later = MessageTo(side),
         NEW end \in BlankAt(b), \A i \in BlankAt(b) : end <= i
  PROVE  /\ Deserialized(side, SubSeq(b, 1, end - 1)) =
              [start |-> FirstLine(side), headers |-> Full(Found(side))]
         /\ SubSeq(b, end + 1, Len(b)) \in Seq(Tokens)
         /\ Len(SubSeq(b, end + 1, Len(b))) = Len(b) - end
         /\ SubSeq(b, end + 1, Len(b)) \o later = Behind(side)
<1> DEFINE all == MessageTo(side)
           head == HeadTo(side)
           behind == Behind(side)
           k == Len(head)
           rest == SubSeq(b, end + 1, Len(b))
<1>1. /\ all \in Seq(Tokens) /\ head \in Seq(Tokens) /\ behind \in Seq(Tokens)
      /\ k \in Nat /\ Len(behind) \in Nat /\ Len(all) = k + 1 + Len(behind)
      /\ \A i \in 1 .. k : all[i] = head[i] /\ head[i] # Blank
      /\ all[k + 1] = Blank
      /\ \A i \in 1 .. Len(behind) : all[k + 1 + i] = behind[i]
  <2>1. all \in Seq(Tokens) /\ head \in Seq(Tokens) /\ behind \in Seq(Tokens)
    BY HeadEnds, LinesOf, Zenon
  <2>2. /\ Len(all) = k + 1 + Len(behind)
        /\ \A i \in 1 .. k : all[i] = head[i] /\ head[i] # Blank
        /\ all[k + 1] = Blank
        /\ \A i \in 1 .. Len(behind) : all[k + 1 + i] = behind[i]
    BY HeadEnds, Zenon
  <2> HIDE DEF all, head, behind
  <2>3. Len(head) \in Nat /\ Len(behind) \in Nat
    BY <2>1
  <2> HIDE DEF k
  <2>4. k \in Nat
    BY <2>3 DEF k
  <2> QED
    BY <2>1, <2>2, <2>3, <2>4
<1>2. /\ Len(b) \in Nat /\ Len(later) \in Nat /\ Len(all) = Len(b) + Len(later)
      /\ \A i \in 1 .. Len(b) : all[i] = b[i]
      /\ \A i \in 1 .. Len(later) : all[Len(b) + i] = later[i]
  <2>1. /\ Len(b) \in Nat /\ Len(later) \in Nat /\ Len(all) = Len(b) + Len(later)
        /\ \A i \in 1 .. Len(b) + Len(later) :
             all[i] = IF i <= Len(b) THEN b[i] ELSE later[i - Len(b)]
    BY ConcatProperties
  <2> HIDE DEF all
  <2>2. ASSUME NEW i \in 1 .. Len(later) PROVE all[Len(b) + i] = later[i]
    <3>1. /\ Len(b) + i \in 1 .. Len(b) + Len(later) /\ ~ (Len(b) + i <= Len(b))
          /\ Len(b) + i - Len(b) = i
      BY <2>1
    <3> QED
      BY <2>1, <3>1
  <2> QED
    BY <2>1, <2>2
<1>3. end \in 1 .. Len(b) /\ b[end] = Blank
  BY DEF BlankAt
<1> HIDE DEF all, head, behind, k
<1>4. end = k + 1
  <2>1. ~ (end <= k)
    <3> SUFFICES ASSUME end <= k PROVE FALSE
      OBVIOUS
    <3>1. end \in 1 .. k
      BY <1>1, <1>2, <1>3
    <3>2. all[end] # Blank
      BY <1>1, <3>1
    <3>3. all[end] = b[end]
      BY <1>2, <1>3
    <3> QED
      BY <1>3, <3>2, <3>3
  <2>2. k + 1 \in 1 .. Len(b) /\ b[k + 1] = Blank
    BY <1>1, <1>2, <1>3, <2>1
  <2>3. DOMAIN b = 1 .. Len(b)
    OBVIOUS
  <2>4. k + 1 \in BlankAt(b)
    BY <2>2, <2>3 DEF BlankAt
  <2> QED
    BY <1>1, <1>3, <2>1, <2>4
<1>5. SubSeq(b, 1, end - 1) = head
  <2> DEFINE front == SubSeq(b, 1, k)
  <2>1. /\ front \in Seq(Tokens) /\ Len(front) = k /\ \A i \in 1 .. k : front[i] = b[i]
    <3>1. 1 \in Int /\ k \in Int /\ \A i \in 1 .. k : b[i] \in Tokens
      BY <1>1, <1>2, <1>3, <1>4, ElementOfSeq
    <3>2. /\ front \in Seq(Tokens) /\ Len(front) = IF 1 <= k THEN k - 1 + 1 ELSE 0
          /\ \A i \in 1 .. k - 1 + 1 : front[i] = b[1 + i - 1]
      BY <3>1, SubSeqProperties
    <3> HIDE DEF front
    <3> QED
      BY <1>1, <3>2
  <2> HIDE DEF front
  <2>2. ASSUME NEW i \in 1 .. k PROVE front[i] = head[i]
    <3>1. i \in 1 .. Len(b)
      BY <1>1, <1>2, <1>3, <1>4
    <3>2. all[i] = head[i] /\ all[i] = b[i] /\ front[i] = b[i]
      BY <1>1, <1>2, <2>1, <3>1
    <3> QED
      BY <3>2
  <2>3. front = head
    BY <1>1, <2>1, <2>2, SeqEqual DEF k
  <2>4. end - 1 = k
    BY <1>1, <1>4
  <2> QED
    BY <2>3, <2>4 DEF front
<1>6. Deserialized(side, head) = [start |-> FirstLine(side), headers |-> Full(Found(side))]
  <2>1. deserialize_headers(<<FirstLine(side)>> \o Lines(side)) = Full(Found(side))
    <3> DEFINE lines == Lines(side)
    <3>1. /\ FirstLine(side) \in Tokens /\ lines \in Seq(Tokens)
          /\ \A i \in 1 .. Len(lines) : IsHeader(lines[i])
          /\ IsHeader(FirstLine(side)) <=> side = "server" /\ colon
      BY LinesOf
    <3> HIDE DEF lines
    <3>2. deserialize_headers(<<FirstLine(side)>> \o lines) =
            Full(IF IsHeader(FirstLine(side)) THEN <<FirstLine(side)>> \o lines ELSE lines)
      BY <3>1, Parsed
    <3>3. (IF IsHeader(FirstLine(side)) THEN <<FirstLine(side)>> \o lines ELSE lines) = Found(side)
      BY <3>1 DEF Found, lines
    <3> QED
      BY <3>2, <3>3 DEF lines
  <2>2. head[1] = FirstLine(side)
    <3>1. Lines(side) \in Seq(Tokens) /\ FirstLine(side) \in Tokens
      BY LinesOf
    <3> QED
      BY <3>1 DEF head, HeadTo
  <2>3. head = <<FirstLine(side)>> \o Lines(side)
    BY DEF head, HeadTo
  <2> QED
    BY <2>1, <2>2, <2>3
       DEF Deserialized, deserialize_http_request_header, deserialize_http_response_header
<1>7. /\ rest \in Seq(Tokens) /\ Len(rest) = Len(b) - end
      /\ \A i \in 1 .. Len(b) - end : rest[i] = b[end + i]
  <2>1. end + 1 \in Int /\ Len(b) \in Int /\ \A i \in end + 1 .. Len(b) : b[i] \in Tokens
    BY <1>2, <1>3, ElementOfSeq
  <2>2. /\ rest \in Seq(Tokens)
        /\ Len(rest) = IF end + 1 <= Len(b) THEN Len(b) - (end + 1) + 1 ELSE 0
        /\ \A i \in 1 .. Len(b) - (end + 1) + 1 : rest[i] = b[(end + 1) + i - 1]
    BY <2>1, SubSeqProperties
  <2> HIDE DEF rest
  <2> QED
    BY <1>2, <1>3, <2>2
<1>8. rest \o later = behind
  <2> HIDE DEF rest
  <2>1. /\ rest \o later \in Seq(Tokens) /\ Len(rest \o later) = Len(rest) + Len(later)
        /\ \A i \in 1 .. Len(rest) + Len(later) :
             (rest \o later)[i] = IF i <= Len(rest) THEN rest[i] ELSE later[i - Len(rest)]
    BY <1>7, ConcatProperties
  <2>2. Len(rest) + Len(later) = Len(behind) /\ Len(rest) \in Nat
    <3>1. k + 1 + Len(behind) = Len(b) + Len(later)
      BY <1>1, <1>2
    <3> QED
      BY <1>1, <1>2, <1>3, <1>4, <1>7, <3>1
  <2>3. ASSUME NEW i \in 1 .. Len(behind) PROVE (rest \o later)[i] = behind[i]
    <3>1. behind[i] = all[k + 1 + i] /\ i \in 1 .. Len(rest) + Len(later)
      BY <1>1, <2>2
    <3>2. CASE i <= Len(rest)
      <4>1. k + 1 + i = end + i /\ k + 1 + i \in 1 .. Len(b) /\ i \in 1 .. Len(b) - end
        BY <1>1, <1>2, <1>3, <1>4, <1>7, <3>2
      <4>2. all[k + 1 + i] = b[k + 1 + i]
        BY <1>2, <4>1
      <4>3. rest[i] = b[end + i]
        BY <1>7, <4>1
      <4> QED
        BY <2>1, <3>1, <3>2, <4>1, <4>2, <4>3
    <3>3. CASE ~ (i <= Len(rest))
      <4> DEFINE j == i - Len(rest)
      <4>1. j \in 1 .. Len(later) /\ k + 1 + i = Len(b) + j
        BY <1>1, <1>2, <1>3, <1>4, <1>7, <2>2, <3>3
      <4>2. all[Len(b) + j] = later[j]
        BY <1>2, <4>1
      <4>3. (rest \o later)[i] = later[j]
        BY <2>1, <3>1, <3>3
      <4> QED
        BY <3>1, <4>1, <4>2, <4>3
    <3> QED
      BY <3>2, <3>3
  <2> DEFINE whole == rest \o later
  <2>4. whole \in Seq(Tokens) /\ Len(whole) = Len(behind) /\ \A i \in 1 .. Len(whole) : whole[i] = behind[i]
    BY <2>1, <2>2, <2>3
  <2> HIDE DEF whole
  <2>5. whole = behind
    BY <1>1, <2>4, SeqEqual
  <2> QED
    BY <2>5 DEF whole
<1> QED
  BY <1>5, <1>6, <1>7, <1>8 DEF behind

-------------------------------------------------------------------------------
(* The inductive invariant. *)

\* What side has read in b is the front of what it is sent.  Behind it come what
\* is under way, or was lost when the other side closed, and what the other side
\* has left to send.
Coming(side, b, whole) ==
  \E lost \in Seq(Tokens) : /\ side \notin reset => lost = wire[side]
                            /\ b \o (lost \o out[Peer(side)]) = whole

NothingYet(side) == buffer[side] = <<>> /\ wire[side] = <<>> /\ out[Peer(side)] = <<>>

\* A message that side has parsed, with some of its body.
IsMessage(side, m) ==
  /\ m = [start |-> FirstLine(side), headers |-> Full(Found(side)),
          body_length |-> Size(side), body |-> m.body]
  /\ m.body \in Seq(Tokens)

\* The server ended in the middle of the body.
CutShort(body) ==
  /\ "server" \in fin /\ out["server"] # <<>>
  /\ \E n \in 0 .. Len(resource) - 1 : body = Padded(SubSeq(resource, 1, n), Len(resource))

Reading(side) ==
  /\ pc[side] = "head" => NothingYet(side) \/ Coming(side, buffer[side], MessageTo(side))
  /\ pc[side] \in {"body", "got"} =>
       /\ IsMessage(side, message[side])
       /\ Size(side) = 0 => message[side].body = <<>>
       /\ Size(side) > 0 => /\ extra[side] <= Len(message[side].body)
                            /\ Len(message[side].body) <= Size(side) + 1
  /\ pc[side] = "body" /\ Size(side) > 0 => Coming(side, message[side].body, Behind(side))

Saving ==
  pc["client"] = "got" => \/ SubSeq(message["client"].body, 1, Len(resource)) = resource
                          \/ CutShort(message["client"].body)

\* Nothing has been said to the client.
Silent ==
  /\ wire["client"] = <<>> /\ out["server"] = <<>>
  /\ pc["client"] \in {"build", "send", "head", "failed"}
  /\ pc["client"] = "head" => buffer["client"] = <<>>

\* The server speaks when it has the whole request, which is all the client
\* says.
Turns ==
  /\ \A side \in Sides : pc[side] = "send" => out[side] # <<>>
  /\ pc["server"] \notin {"build", "done"}
  /\ pc["client"] = "build" => /\ NothingYet("server") /\ pc["server"] \in {"head", "failed"}
  /\ pc["server"] \in {"body", "got", "send"} => wire["server"] = <<>> /\ out["client"] = <<>>
  /\ \/ pc["client"] \in {"build", "send"}
     \/ pc["server"] \in {"body", "got"}
     \/ pc["server"] = "head" /\ ~ NothingYet("server")
     => Silent

Shape ==
  /\ TypeOK /\ AskedFor
  /\ message = [side \in Sides |-> message[side]]
  /\ fin = Closed
  /\ \A side \in reset : Peer(side) \in fin /\ wire[side] = <<>>

IInv == Shape /\ Turns /\ Saving /\ FileIsResource /\ \A side \in Sides : Reading(side)

-------------------------------------------------------------------------------
(* What the steps keep. *)

LEMMA TwoSides ==
  ASSUME NEW side \in Sides
  PROVE  /\ Peer(side) \in Sides /\ Peer(side) # side /\ Peer(Peer(side)) = side
         /\ \A s \in Sides : s = side \/ s = Peer(side)
         /\ side = "client" => Peer(side) = "server"
         /\ side = "server" => Peer(side) = "client"
BY DEF Sides, Peer

LEMMA SameMessages ==
  ASSUME UNCHANGED asked
  PROVE  /\ AskedFor' = AskedFor
         /\ \A side : /\ FirstLine(side)' = FirstLine(side) /\ Lines(side)' = Lines(side)
                      /\ Found(side)' = Found(side)
                      /\ Behind(side)' = Behind(side) /\ Size(side)' = Size(side)
                      /\ MessageTo(side)' = MessageTo(side)
<1> USE DEF asked
<1>1. AskedFor' = AskedFor
  BY DEF AskedFor
<1>2. ASSUME NEW side
      PROVE  /\ FirstLine(side)' = FirstLine(side) /\ Lines(side)' = Lines(side)
             /\ Found(side)' = Found(side)
             /\ Behind(side)' = Behind(side) /\ Size(side)' = Size(side)
  <2>1. FirstLine(side)' = FirstLine(side)
    BY DEF FirstLine
  <2>2. Lines(side)' = Lines(side)
    BY DEF Lines
  <2>3. Behind(side)' = Behind(side)
    BY DEF Behind
  <2>4. Size(side)' = Size(side)
    BY DEF Size
  <2>5. Found(side)' = Found(side)
    BY <2>1, <2>2 DEF Found
  <2> QED
    BY <2>1, <2>2, <2>3, <2>4, <2>5
<1>3. \A side : MessageTo(side)' = MessageTo(side)
  BY <1>2 DEF MessageTo, HeadTo
<1> QED
  BY <1>1, <1>2, <1>3

\* A side that does nothing itself keeps what it has, if what comes to it does.
LEMMA StillReading ==
  ASSUME NEW side \in Sides, Reading(side), UNCHANGED asked,
         pc'[side] = pc[side], buffer'[side] = buffer[side], message'[side] = message[side],
         extra'[side] = extra[side],
         NothingYet(side) => NothingYet(side)',
         \A b, whole : Coming(side, b, whole) => Coming(side, b, whole)'
  PROVE  Reading(side)'
<1>1. /\ FirstLine(side)' = FirstLine(side) /\ Lines(side)' = Lines(side)
      /\ Found(side)' = Found(side)
      /\ Behind(side)' = Behind(side) /\ Size(side)' = Size(side)
      /\ MessageTo(side)' = MessageTo(side)
  BY SameMessages
<1>2. ASSUME pc'[side] = "head"
      PROVE  NothingYet(side)' \/ Coming(side, buffer[side], MessageTo(side))'
  <2>1. CASE NothingYet(side)
    BY <2>1
  <2>2. CASE Coming(side, buffer[side], MessageTo(side))
    <3> DEFINE b == buffer[side]
               whole == MessageTo(side)
    <3>1. PICK c, w : c = b /\ w = whole
      OBVIOUS
    <3>2. Coming(side, c, w)'
      BY <2>2, <3>1
    <3> QED
      BY <1>1, <3>1, <3>2 DEF Coming
  <2> QED
    BY <1>2, <2>1, <2>2 DEF Reading
<1>3. ASSUME pc'[side] = "body", Size(side)' > 0
      PROVE  Coming(side, message[side].body, Behind(side))'
  <2>1. Coming(side, message[side].body, Behind(side))
    BY <1>1, <1>3 DEF Reading
  <2>2. PICK c, w : c = message[side].body /\ w = Behind(side)
    OBVIOUS
  <2>3. Coming(side, c, w)'
    BY <2>1, <2>2
  <2> QED
    BY <1>1, <2>2, <2>3 DEF Coming
<1>4. IsMessage(side, message[side])' <=> IsMessage(side, message[side])
  BY <1>1 DEF IsMessage
<1> QED
  BY <1>1, <1>2, <1>3, <1>4 DEF Reading

\* What was saved stays what it is: a server that has ended sends nothing more.
LEMMA FileStays ==
  ASSUME FileIsResource, UNCHANGED <<asked, file>>, fin \subseteq fin',
         "server" \in fin => out'["server"] = out["server"]
  PROVE  FileIsResource'
BY DEF FileIsResource, asked

LEMMA SavingStays ==
  ASSUME Saving, UNCHANGED asked, pc'["client"] = "got" => pc["client"] = "got",
         message'["client"] = message["client"], fin \subseteq fin',
         "server" \in fin => out'["server"] = out["server"]
  PROVE  Saving'
BY DEF Saving, CutShort, asked

\* A side ends.
LEMMA LeaveKeeps ==
  ASSUME IInv, NEW side \in Sides, NEW result \in {"failed", "done"}, Leave(side, result),
         result = "done" => side = "client" /\ pc["client"] = "got",
         UNCHANGED <<asked, out, buffer, message, extra>>,
         FileIsResource'
  PROVE  IInv'
<1> DEFINE other == Peer(side)
<1>1. /\ other \in Sides /\ other # side /\ Peer(other) = side
      /\ \A s \in Sides : s = side \/ s = other
  BY TwoSides
<1>2. /\ pc' = [pc EXCEPT ![side] = result] /\ fin' = fin \cup {side}
      /\ IF wire[side] # <<>> THEN reset' = reset \cup {other} /\ wire' = [s \in Sides |-> <<>>]
         ELSE UNCHANGED <<reset, wire>>
  BY DEF Leave, Close
<1>3. Shape /\ TypeOK /\ AskedFor
  BY DEF IInv, Shape
<1> HIDE DEF other
<1>4. /\ pc'[side] = result /\ pc'[other] = pc[other]
      /\ wire' \in [Sides -> Seq(Tokens)] /\ fin' \subseteq Sides /\ reset' \subseteq Sides
      /\ \A s \in Sides : wire'[s] = wire[s] \/ (wire'[s] = <<>> /\ other \in reset')
      /\ \A s \in Sides : wire[s] = <<>> => wire'[s] = <<>>
      /\ reset \subseteq reset' /\ (other \notin reset' => UNCHANGED wire)
  <2>1. CASE wire[side] # <<>>
    <3>1. /\ reset' = reset \cup {other} /\ wire' = [s \in Sides |-> <<>>]
          /\ fin \subseteq Sides /\ reset \subseteq Sides
      BY <1>2, <1>3, <2>1 DEF TypeOK
    <3>2. wire' \in [Sides -> Seq(Tokens)] /\ \A s \in Sides : wire'[s] = <<>>
      BY <3>1
    <3>3. pc'[side] = result /\ pc'[other] = pc[other]
      BY <1>1, <1>2, <1>3 DEF TypeOK
    <3> QED
      BY <1>1, <1>2, <3>1, <3>2, <3>3
  <2>2. CASE wire[side] = <<>>
    BY <1>1, <1>2, <1>3, <2>2 DEF TypeOK
  <2> QED
    BY <2>1, <2>2
<1>5. Shape'
  <2>1. TypeOK'
    BY <1>2, <1>3, <1>4 DEF TypeOK, asked
  <2>2. AskedFor' /\ message' = [s \in Sides |-> message[s]]' /\ fin' = Closed'
    BY <1>1, <1>2, <1>3, SameMessages DEF Shape, Closed, TypeOK
  <2>3. \A s \in reset' : Peer(s) \in fin' /\ wire'[s] = <<>>
    <3>1. \A s \in reset : s \in Sides /\ Peer(s) \in fin /\ wire[s] = <<>>
      BY <1>3 DEF Shape, TypeOK
    <3>2. CASE wire[side] # <<>>
      BY <1>1, <1>2, <3>1, <3>2 DEF Sides
    <3>3. CASE wire[side] = <<>>
      BY <1>1, <1>2, <3>1, <3>3
    <3> QED
      BY <3>2, <3>3
  <2> QED
    BY <2>1, <2>2, <2>3 DEF Shape
<1>6. NothingYet("server") => NothingYet("server")'
  BY <1>4 DEF NothingYet, Sides
<1>7. Turns'
  <2>1. \A s \in Sides : pc'[s] = pc[s] \/ (s = side /\ pc'[s] = result)
    BY <1>1, <1>4
  <2>2. Turns
    BY DEF IInv
  <2>3. "client" \in Sides /\ "server" \in Sides
    BY DEF Sides
  <2>4. ASSUME Silent PROVE Silent'
    BY <1>4, <2>1, <2>3, <2>4 DEF Silent
  <2>5. \A s \in Sides : pc'[s] = "send" => out'[s] # <<>>
    BY <2>1, <2>2 DEF Turns
  <2>6. pc'["server"] \notin {"build", "done"}
    BY <2>1, <2>2, <2>3 DEF Turns
  <2>7. pc'["client"] = "build" => /\ NothingYet("server")' /\ pc'["server"] \in {"head", "failed"}
    BY <1>6, <2>1, <2>2, <2>3 DEF Turns
  <2>8. pc'["server"] \in {"body", "got", "send"} => wire'["server"] = <<>> /\ out'["client"] = <<>>
    BY <1>4, <2>1, <2>2, <2>3 DEF Turns
  <2>9. \/ pc'["client"] \in {"build", "send"}
        \/ pc'["server"] \in {"body", "got"}
        \/ pc'["server"] = "head" /\ ~ NothingYet("server")'
        => Silent
    BY <1>6, <2>1, <2>2, <2>3 DEF Turns
  <2> QED
    BY <2>4, <2>5, <2>6, <2>7, <2>8, <2>9 DEF Turns
<1>8. Saving'
  <2>1. pc'["client"] = "got" => pc["client"] = "got"
    BY <1>1, <1>4 DEF Sides
  <2>2. Saving /\ fin \subseteq fin' /\ message' = message /\ out' = out
    BY <1>2 DEF IInv
  <2> QED
    BY <2>1, <2>2, SavingStays
<1>9. ASSUME NEW s \in Sides PROVE Reading(s)'
  <2>1. CASE s = side
    BY <1>4, <2>1 DEF Reading
  <2>2. CASE s = other
    <3>1. Reading(s) /\ pc'[s] = pc[s]
      BY <1>4, <2>2 DEF IInv
    <3>2. NothingYet(s) => NothingYet(s)'
      BY <1>1, <1>4, <2>2 DEF NothingYet
    <3>3. ASSUME NEW b, NEW whole, Coming(s, b, whole) PROVE Coming(s, b, whole)'
      BY <1>4, <2>2, <3>3 DEF Coming
    <3> QED
      BY <3>1, <3>2, <3>3, StillReading
  <2> QED
    BY <1>1, <2>1, <2>2
<1> QED
  BY <1>5, <1>7, <1>8, <1>9 DEF IInv

LEMMA InitHolds == Init => IInv
<1> SUFFICES ASSUME Init PROVE IInv
  OBVIOUS
<1>1. kind \in Kinds /\ kind \in {"missing", "bad"} => resource = <<>>
  BY DEF Init
<1>2. PICK n \in 0 .. MaxBody : resource = [i \in 1 .. n |-> Data(i)]
  BY DEF Init
<1>3. /\ resource \in Seq(Tokens) /\ Len(resource) <= MaxBody
      /\ \A i \in 1 .. Len(resource) : resource[i] = Data(i)
  <2>1. \A i \in 1 .. n : Data(i) \in Tokens
    BY ExchangeAssumption, TokenKinds
  <2> QED
    BY <1>2, <2>1, ExchangeAssumption
<1>4. AskedFor
  BY <1>1, <1>3 DEF AskedFor, Init
<1>5. Shape
  BY <1>4 DEF Init, Shape, TypeOK, AskedFor, Closed, Sides
<1>6. NothingYet("client") /\ NothingYet("server")
  BY DEF Init, NothingYet, Sides, Peer
<1>7. Turns
  BY <1>6 DEF Init, Turns, Silent, Sides
<1>8. Saving /\ FileIsResource
  BY DEF Init, Saving, FileIsResource, Sides
<1>9. \A side \in Sides : Reading(side)
  BY <1>6 DEF Init, Reading, Sides
<1> QED
  BY <1>5, <1>7, <1>8, <1>9 DEF IInv

LEMMA SendRequestKeeps ==
  ASSUME IInv, SendRequest
  PROVE  IInv'
<1>1. CASE Leave("client", "failed") /\ UNCHANGED out
  <2>1. UNCHANGED <<asked, out, buffer, message, extra, file>>
    BY <1>1 DEF SendRequest
  <2>2. FileIsResource'
    <3>1. fin \subseteq fin'
      BY <1>1 DEF Leave, Close
    <3> QED
      BY <2>1, <3>1, FileStays DEF IInv
  <2>3. "client" \in Sides
    BY DEF Sides
  <2> QED
    BY <1>1, <2>1, <2>2, <2>3, LeaveKeeps
<1>2. CASE pc' = [pc EXCEPT !["client"] = "send"] /\ UNCHANGED stream
  <2>1. /\ pc["client"] = "build" /\ UNCHANGED <<asked, stream, buffer, message, extra, file>>
    BY <1>2 DEF SendRequest
  <2>2. Shape /\ TypeOK /\ AskedFor /\ Turns /\ Saving /\ FileIsResource
    BY DEF IInv, Shape
  <2>3. out' = [out EXCEPT !["client"] = MessageTo("server")]
    <3>1. pc'["client"] = "send"
      BY <1>2, <2>2 DEF TypeOK, Sides
    <3>2. ~ Leave("client", "failed")
      BY <2>2, <3>1 DEF Leave, TypeOK, Sides
    <3> QED
      BY <2>2, <3>2, Serialized DEF SendRequest
  <2>4. NothingYet("server") /\ pc["server"] \in {"head", "failed"} /\ Silent
    BY <2>1, <2>2 DEF Turns
  <2>5. MessageTo("server") \in Seq(Tokens) /\ MessageTo("server") # <<>>
    <3>1. Len(MessageTo("server")) # 0
      BY <2>2, HeadEnds, LinesOf DEF Sides
    <3> QED
      BY <2>2, <3>1, HeadEnds DEF Sides
  <2>6. /\ pc'["client"] = "send" /\ pc'["server"] = pc["server"]
        /\ out'["client"] = MessageTo("server") /\ out'["server"] = out["server"]
        /\ UNCHANGED <<wire, fin, reset>>
    BY <1>2, <2>1, <2>2, <2>3 DEF TypeOK, Sides, stream
  <2>7. Shape'
    <3>1. TypeOK'
      BY <1>2, <2>1, <2>2, <2>3, <2>5 DEF TypeOK, asked, stream
    <3>2. Closed' = Closed
      BY <2>1, <2>6 DEF Closed, Sides
    <3> QED
      BY <2>1, <2>2, <3>1, <3>2, SameMessages DEF Shape, stream
  <2>8. Turns'
    BY <2>1, <2>2, <2>4, <2>5, <2>6 DEF Turns, Silent, Sides
  <2>9. Saving' /\ FileIsResource'
    BY <2>1, <2>2, <2>6, FileStays DEF Saving
  <2>10. Reading("client")'
    BY <2>6 DEF Reading
  <2>11. Reading("server")'
    <3>1. CASE pc["server"] = "failed"
      BY <2>6, <3>1 DEF Reading
    <3>2. CASE pc["server"] = "head"
      <4>1. /\ AskedFor' /\ "server" \in Sides /\ wire'["server"] = <<>>
            /\ out'[Peer("server")] = MessageTo("server")' /\ buffer'["server"] = <<>>
        BY <2>1, <2>2, <2>4, <2>6, SameMessages DEF NothingYet, Sides, Peer
      <4>2. Coming("server", <<>>, MessageTo("server"))'
        <5>1. MessageTo("server")' \in Seq(Tokens) /\ <<>> \in Seq(Tokens)
          BY <2>1, <2>5, SameMessages
        <5>2. <<>> \o (<<>> \o out'[Peer("server")]) = MessageTo("server")'
          BY <4>1, <5>1, ConcatEmptySeq
        <5> QED
          BY <4>1, <5>1, <5>2 DEF Coming
      <4> QED
        BY <2>6, <3>2, <4>1, <4>2 DEF Reading
    <3> QED
      BY <2>4, <3>1, <3>2
  <2> QED
    BY <2>7, <2>8, <2>9, <2>10, <2>11 DEF IInv, Sides
<1> QED
  BY <1>1, <1>2 DEF SendRequest

LEMMA RespondKeeps ==
  ASSUME IInv, Respond
  PROVE  IInv'
<1>1. CASE Leave("server", "failed") /\ UNCHANGED out
  <2>1. UNCHANGED <<asked, out, buffer, message, extra, file>>
    BY <1>1 DEF Respond
  <2>2. FileIsResource'
    <3>1. fin \subseteq fin'
      BY <1>1 DEF Leave, Close
    <3> QED
      BY <2>1, <3>1, FileStays DEF IInv
  <2>3. "server" \in Sides
    BY DEF Sides
  <2> QED
    BY <1>1, <2>1, <2>2, <2>3, LeaveKeeps
<1>2. CASE pc' = [pc EXCEPT !["server"] = "send"] /\ UNCHANGED stream
  <2>1. /\ pc["server"] = "got" /\ UNCHANGED <<asked, stream, buffer, message, extra, file>>
    BY <1>2 DEF Respond
  <2>2. Shape /\ TypeOK /\ AskedFor /\ Turns /\ Saving /\ FileIsResource
    BY DEF IInv, Shape
  <2>3. out' = [out EXCEPT !["server"] = MessageTo("client")]
    <3>1. pc'["server"] = "send"
      BY <1>2, <2>2 DEF TypeOK, Sides
    <3>2. ~ Leave("server", "failed")
      BY <2>2, <3>1 DEF Leave, TypeOK, Sides
    <3>3. message["server"].start.key = kind
      <4>1. IsMessage("server", message["server"])
        BY <2>1 DEF IInv, Reading, Sides
      <4> QED
        BY <4>1 DEF IsMessage, FirstLine, Start, Token
    <3> QED
      BY <2>2, <3>2, <3>3, Serialized DEF Respond
  <2>4. Silent /\ wire["server"] = <<>> /\ out["client"] = <<>>
    BY <2>1, <2>2 DEF Turns
  <2>5. MessageTo("client") \in Seq(Tokens) /\ MessageTo("client") # <<>>
    <3>1. Len(MessageTo("client")) # 0
      BY <2>2, HeadEnds, LinesOf DEF Sides
    <3> QED
      BY <2>2, <3>1, HeadEnds DEF Sides
  <2>6. /\ pc'["server"] = "send" /\ pc'["client"] = pc["client"]
        /\ out'["server"] = MessageTo("client") /\ out'["client"] = out["client"]
        /\ UNCHANGED <<wire, fin, reset>>
    BY <1>2, <2>1, <2>2, <2>3 DEF TypeOK, Sides, stream
  <2>7. Shape'
    <3>1. TypeOK'
      BY <1>2, <2>1, <2>2, <2>3, <2>5 DEF TypeOK, asked, stream
    <3>2. Closed' = Closed
      BY <2>1, <2>6 DEF Closed, Sides
    <3> QED
      BY <2>1, <2>2, <3>1, <3>2, SameMessages DEF Shape, stream
  <2>8. pc["client"] \in {"head", "failed"}
    BY <2>1, <2>2, <2>4 DEF Turns, Silent, Sides
  <2>9. Turns'
    BY <2>1, <2>2, <2>4, <2>5, <2>6, <2>8 DEF Turns, Sides
  <2>10. Saving' /\ FileIsResource'
    <3>1. "server" \notin fin
      BY <2>1, <2>2 DEF Shape, Closed
    <3> QED
      BY <2>1, <2>2, <2>6, <2>8, <3>1, FileStays DEF Saving
  <2>11. Reading("server")'
    BY <2>6 DEF Reading
  <2>12. Reading("client")'
    <3>1. CASE pc["client"] = "failed"
      BY <2>6, <3>1 DEF Reading
    <3>2. CASE pc["client"] = "head"
      <4>1. /\ wire'["client"] = <<>> /\ buffer'["client"] = <<>>
            /\ out'[Peer("client")] = MessageTo("client")'
        BY <2>1, <2>4, <2>6, <3>2, SameMessages DEF Silent, Peer
      <4>2. Coming("client", <<>>, MessageTo("client"))'
        <5>1. MessageTo("client")' \in Seq(Tokens) /\ <<>> \in Seq(Tokens)
          BY <2>1, <2>5, SameMessages
        <5>2. <<>> \o (<<>> \o out'[Peer("client")]) = MessageTo("client")'
          BY <4>1, <5>1, ConcatEmptySeq
        <5> QED
          BY <4>1, <5>1, <5>2 DEF Coming
      <4> QED
        BY <2>6, <3>2, <4>1, <4>2 DEF Reading
    <3> QED
      BY <2>8, <3>1, <3>2
  <2> QED
    BY <2>7, <2>9, <2>10, <2>11, <2>12 DEF IInv, Sides
<1> QED
  BY <1>1, <1>2 DEF Respond

\* What is cut off and what is left.
LEMMA Cut ==
  ASSUME NEW S, NEW s \in Seq(S), NEW n \in 1 .. Len(s)
  PROVE  /\ SubSeq(s, 1, n) \in Seq(S) /\ SubSeq(s, n + 1, Len(s)) \in Seq(S)
         /\ Len(SubSeq(s, 1, n)) = n /\ Len(SubSeq(s, n + 1, Len(s))) = Len(s) - n
         /\ SubSeq(s, 1, n) \o SubSeq(s, n + 1, Len(s)) = s
<1>1. Len(s) \in Nat /\ 1 \in Int /\ n \in Int /\ n + 1 \in Int /\ Len(s) \in Int
  OBVIOUS
<1>2. (\A i \in 1 .. n : s[i] \in S) /\ (\A i \in n + 1 .. Len(s) : s[i] \in S)
  BY <1>1, ElementOfSeq
<1>3. SubSeq(s, 1, n) \in Seq(S) /\ Len(SubSeq(s, 1, n)) = n
  BY <1>1, <1>2, SubSeqProperties
<1>4. /\ SubSeq(s, n + 1, Len(s)) \in Seq(S)
      /\ Len(SubSeq(s, n + 1, Len(s))) = Len(s) - n
  BY <1>1, <1>2, SubSeqProperties
<1>5. SubSeq(s, 1, n) \o SubSeq(s, n + 1, Len(s)) = SubSeq(s, 1, Len(s))
  <2>1. 1 \in 1 .. Len(s) + 1 /\ n \in 1 - 1 .. Len(s) /\ Len(s) \in n .. Len(s)
    BY <1>1
  <2> QED
    BY <2>1, ConcatAdjacentSubSeq
<1>6. SubSeq(s, 1, Len(s)) = s
  BY SubSeqFull
<1> QED
  BY <1>3, <1>4, <1>5, <1>6

LEMMA ConcatThree ==
  ASSUME NEW a \in Seq(Tokens), NEW b \in Seq(Tokens), NEW c \in Seq(Tokens)
  PROVE  a \o b \in Seq(Tokens) /\ (a \o b) \o c = a \o (b \o c)
<1>1. a \o b \in Seq(Tokens)
  BY ConcatProperties
<1>2. (a \o b) \o c = a \o (b \o c)
  BY ConcatAssociative
<1> QED
  BY <1>1, <1>2

LEMMA SendSomeKeeps ==
  ASSUME IInv, NEW side \in Sides, NEW n \in 1 .. Len(out[side]), SendSome(side, n)
  PROVE  IInv'
<1> DEFINE other == Peer(side)
           o == out[side]
           piece == SubSeq(o, 1, n)
           rest == SubSeq(o, n + 1, Len(o))
<1>1. /\ other \in Sides /\ other # side /\ Peer(other) = side
      /\ \A s \in Sides : s = side \/ s = other
      /\ side = "client" => other = "server"
      /\ side = "server" => other = "client"
      /\ side \in {"client", "server"}
  BY TwoSides DEF Sides
<1>2. Shape /\ TypeOK /\ AskedFor /\ Turns /\ Saving /\ FileIsResource /\ \A s \in Sides : Reading(s)
  BY DEF IInv, Shape
<1>3. /\ o \in Seq(Tokens) /\ piece \in Seq(Tokens) /\ rest \in Seq(Tokens) /\ piece \o rest = o
      /\ o # <<>> /\ (n # Len(o) => rest # <<>>) /\ wire[other] \in Seq(Tokens)
  <2>1. o \in Seq(Tokens) /\ wire[other] \in Seq(Tokens)
    BY <1>1, <1>2 DEF TypeOK
  <2> HIDE DEF o
  <2>2. n \in 1 .. Len(o)
    BY DEF o
  <2>3. /\ piece \in Seq(Tokens) /\ rest \in Seq(Tokens) /\ piece \o rest = o
        /\ Len(rest) = Len(o) - n
    BY <2>1, <2>2, Cut
  <2>4. o # <<>>
    BY <2>2
  <2>5. n # Len(o) => rest # <<>>
    <3>1. Len(o) \in Nat /\ n \in 1 .. Len(o) /\ Len(rest) = Len(o) - n
      BY <2>1, <2>2, <2>3
    <3> HIDE DEF rest
    <3>2. ASSUME rest = <<>> PROVE n = Len(o)
      <4>1. Len(rest) = 0
        BY <3>2
      <4> QED
        BY <3>1, <4>1
    <3> QED
      BY <3>2
  <2> HIDE DEF piece, rest
  <2> QED
    BY <2>1, <2>3, <2>4, <2>5
<1>4. /\ pc[side] = "send" /\ UNCHANGED <<asked, fin, reset, extra, file>>
      /\ wire' = [wire EXCEPT ![other] = wire[other] \o piece]
      /\ out' = [out EXCEPT ![side] = rest]
      /\ IF n = Len(o)
         THEN /\ pc' = [pc EXCEPT ![side] = "head"]
              /\ buffer' = [buffer EXCEPT ![side] = <<>>]
              /\ message' = [message EXCEPT ![side] = None]
         ELSE UNCHANGED <<pc, buffer, message>>
  BY <1>1, <1>2 DEF SendSome, TypeOK
<1> HIDE DEF other, piece, rest
<1>5. /\ pc'[other] = pc[other] /\ buffer'[other] = buffer[other] /\ message'[other] = message[other]
      /\ out'[side] = rest /\ out'[other] = out[other]
      /\ wire'[side] = wire[side] /\ wire'[other] = wire[other] \o piece
      /\ \/ pc'[side] = "send" /\ rest # <<>>
         \/ pc'[side] = "head" /\ buffer'[side] = <<>>
  <2>1. message = [s \in Sides |-> message[s]]
    BY <1>2 DEF Shape
  <2>2. CASE n = Len(o)
    BY <1>1, <1>2, <1>3, <1>4, <2>1, <2>2 DEF TypeOK
  <2>3. CASE n # Len(o)
    BY <1>1, <1>2, <1>3, <1>4, <2>1, <2>3 DEF TypeOK
  <2> QED
    BY <2>2, <2>3
<1>6. Shape'
  <2>1. wire[other] \o piece \in Seq(Tokens) /\ <<>> \in Seq(Tokens)
    BY <1>3, ConcatProperties
  <2>2. TypeOK'
    <3>1. wire' \in [Sides -> Seq(Tokens)]
      BY <1>1, <1>2, <1>4, <2>1 DEF TypeOK
    <3>2. out' \in [Sides -> Seq(Tokens)]
      BY <1>2, <1>3, <1>4 DEF TypeOK
    <3>3. /\ pc' \in [Sides -> {"build", "send", "head", "body", "got", "done", "failed"}]
          /\ buffer' \in [Sides -> Seq(Tokens)]
      <4>1. CASE n = Len(o)
        BY <1>2, <1>4, <2>1, <4>1 DEF TypeOK
      <4>2. CASE n # Len(o)
        BY <1>2, <1>4, <4>2 DEF TypeOK
      <4> QED
        BY <4>1, <4>2
    <3> QED
      BY <1>2, <1>4, <3>1, <3>2, <3>3 DEF TypeOK, asked
  <2>3. Closed' = Closed
    BY <1>1, <1>4, <1>5 DEF Closed
  <2>4. message' = [s \in Sides |-> message'[s]]
    BY <1>2, <1>4 DEF Shape
  <2>5. other \notin reset
    BY <1>1, <1>2, <1>4 DEF Shape, Closed
  <2>6. \A s \in reset' : Peer(s) \in fin' /\ wire'[s] = <<>>
    BY <1>1, <1>2, <1>4, <1>5, <2>5 DEF Shape, TypeOK
  <2> QED
    BY <1>2, <1>4, <2>2, <2>3, <2>4, <2>6, SameMessages DEF Shape
<1>7. Turns'
  <2>1. CASE side = "client"
    <3>1. Silent /\ pc["server"] \notin {"body", "got", "send"}
      BY <1>1, <1>2, <1>3, <1>4, <2>1 DEF Turns
    <3>2. Silent'
      BY <1>1, <1>5, <2>1, <3>1 DEF Silent
    <3> QED
      BY <1>1, <1>2, <1>5, <2>1, <3>1, <3>2 DEF Turns
  <2>2. CASE side = "server"
    <3>1. ~ Silent /\ pc["client"] \notin {"build", "send"}
      BY <1>1, <1>2, <1>3, <1>4, <2>2 DEF Turns, Silent
    <3>2. wire["server"] = <<>> /\ out["client"] = <<>>
      BY <1>2, <1>4, <2>2 DEF Turns
    <3>3. pc'["server"] = "head" => NothingYet("server")'
      <4>1. Peer("server") = "client" /\ other = "client"
        BY <1>1, <2>2 DEF Peer
      <4>2. wire'["server"] = <<>> /\ out'["client"] = <<>>
        BY <1>5, <2>2, <3>2, <4>1
      <4>3. pc'["server"] = "head" => buffer'["server"] = <<>>
        BY <1>5, <2>2
      <4> QED
        BY <4>1, <4>2, <4>3 DEF NothingYet
    <3> QED
      BY <1>1, <1>2, <1>5, <2>2, <3>1, <3>2, <3>3 DEF Turns
  <2> QED
    BY <1>1, <2>1, <2>2
<1>8. "server" \in fin => out'["server"] = out["server"]
  BY <1>1, <1>2, <1>4, <1>5 DEF Shape, Closed
<1>9. FileIsResource'
  BY <1>2, <1>4, <1>8, FileStays
<1>10. Saving'
  <2>1. CASE pc'["client"] = "got"
    <3>1. side # "client"
      BY <1>5, <2>1
    <3> QED
      BY <1>1, <1>2, <1>4, <1>5, <1>8, <3>1, SavingStays
  <2>2. CASE pc'["client"] # "got"
    BY <2>2 DEF Saving
  <2> QED
    BY <2>1, <2>2
<1>11. Reading(side)'
  <2>1. CASE pc'[side] = "send"
    BY <2>1 DEF Reading
  <2>2. CASE pc'[side] = "head" /\ buffer'[side] = <<>>
    <3>1. wire[side] = <<>> /\ out[other] = <<>>
      BY <1>1, <1>2, <1>4 DEF Turns, Silent
    <3>2. NothingYet(side)'
      BY <1>5, <2>2, <3>1 DEF NothingYet, other
    <3> QED
      BY <2>2, <3>2 DEF Reading
  <2> QED
    BY <1>5, <2>1, <2>2
<1>12. Reading(other)'
  <2>1. ~ NothingYet(other)
    BY <1>1, <1>3 DEF NothingYet
  <2>2. ASSUME NEW b, NEW whole, Coming(other, b, whole) PROVE Coming(other, b, whole)'
    <3>1. PICK lost \in Seq(Tokens) : /\ other \notin reset => lost = wire[other]
                                      /\ b \o (lost \o o) = whole
      BY <1>1, <2>2 DEF Coming
    <3>2. lost \o piece \in Seq(Tokens) /\ (lost \o piece) \o rest = lost \o o
      <4>1. /\ lost \in Seq(Tokens) /\ piece \in Seq(Tokens) /\ rest \in Seq(Tokens)
            /\ piece \o rest = o
        BY <1>3, <3>1
      <4> HIDE DEF o
      <4>2. lost \o piece \in Seq(Tokens) /\ (lost \o piece) \o rest = lost \o (piece \o rest)
        <5>1. PICK p, r : p = piece /\ r = rest
          OBVIOUS
        <5>2. lost \in Seq(Tokens) /\ p \in Seq(Tokens) /\ r \in Seq(Tokens)
          BY <4>1, <5>1
        <5>3. lost \o p \in Seq(Tokens)
          BY <5>2, ConcatThree
        <5>4. (lost \o p) \o r = lost \o (p \o r)
          BY <5>2, SMTT(30)
        <5> QED
          BY <5>1, <5>3, <5>4
      <4> QED
        BY <4>1, <4>2
    <3>3. /\ other \notin reset' => lost \o piece = wire'[other]
          /\ b \o ((lost \o piece) \o out'[Peer(other)]) = whole
      BY <1>1, <1>4, <1>5, <3>1, <3>2
    <3> QED
      BY <3>2, <3>3 DEF Coming
  <2>3. Reading(other) /\ extra'[other] = extra[other]
    BY <1>1, <1>2, <1>4
  <2> QED
    BY <1>1, <1>4, <1>5, <2>1, <2>2, <2>3, StillReading
<1> QED
  BY <1>1, <1>6, <1>7, <1>9, <1>10, <1>11, <1>12 DEF IInv


\* Some of what is under way is read.
LEMMA Arrived ==
  ASSUME NEW side \in Sides, NEW b \in Seq(Tokens), NEW whole, NEW n \in 1 .. Len(wire[side]),
         TypeOK, Coming(side, b, whole), side \notin reset, UNCHANGED <<out, reset>>,
         wire'[side] = SubSeq(wire[side], n + 1, Len(wire[side])),
         NEW c, c = b \o SubSeq(wire[side], 1, n)
  PROVE  c \in Seq(Tokens) /\ Len(c) = Len(b) + n /\ Coming(side, c, whole)'
<1> DEFINE w == wire[side]
           o == out[Peer(side)]
<1>1. PICK ww, oo : ww = w /\ oo = o
  OBVIOUS
<1>2. ww \in Seq(Tokens) /\ oo \in Seq(Tokens) /\ n \in 1 .. Len(ww)
  BY <1>1, TwoSides DEF TypeOK
<1>3. b \o (ww \o oo) = whole
  BY <1>1 DEF Coming
<1>4. PICK piece, rest : piece = SubSeq(ww, 1, n) /\ rest = SubSeq(ww, n + 1, Len(ww))
  OBVIOUS
<1>5. /\ piece \in Seq(Tokens) /\ rest \in Seq(Tokens) /\ Len(piece) = n
      /\ piece \o rest = ww
  BY <1>2, <1>4, Cut
<1>6. b \o piece \in Seq(Tokens) /\ Len(b \o piece) = Len(b) + n
  BY <1>5, ConcatProperties
<1>7. (b \o piece) \o (rest \o oo) = whole
  <2>0. piece \in Seq(Tokens) /\ rest \in Seq(Tokens) /\ oo \in Seq(Tokens)
    BY <1>2, <1>5
  <2>1. (piece \o rest) \o oo = piece \o (rest \o oo)
    BY <2>0, SMTT(30)
  <2>2. PICK later : later = rest \o oo
    OBVIOUS
  <2>3. later \in Seq(Tokens)
    BY <2>0, <2>2, ConcatThree
  <2>4. (b \o piece) \o later = b \o (piece \o later)
    <3>1. b \in Seq(Tokens) /\ piece \in Seq(Tokens) /\ later \in Seq(Tokens)
      BY <2>0, <2>3
    <3> QED
      BY <3>1, SMTT(30)
  <2> QED
    BY <1>3, <1>5, <2>1, <2>2, <2>4
<1>8. c = b \o piece
  BY <1>1, <1>4
<1>9. rest = wire'[side] /\ oo = out'[Peer(side)]
  BY <1>1, <1>4
<1> QED
  BY <1>5, <1>6, <1>7, <1>8, <1>9 DEF Coming

LEMMA RecvHeadKeeps ==
  ASSUME IInv, NEW side \in Sides, NEW n \in 1 .. Len(wire[side]), RecvHead(side, n)
  PROVE  IInv'
<1> DEFINE other == Peer(side)
<1>1. /\ other \in Sides /\ other # side /\ Peer(other) = side
      /\ \A s \in Sides : s = side \/ s = other
      /\ side = "client" => other = "server"
      /\ side = "server" => other = "client"
      /\ side \in {"client", "server"}
  BY TwoSides DEF Sides
<1>2. Shape /\ TypeOK /\ AskedFor /\ Turns /\ Saving /\ FileIsResource /\ \A s \in Sides : Reading(s)
  BY DEF IInv, Shape
<1>3. /\ pc[side] = "head" /\ side \notin reset
      /\ UNCHANGED <<asked, pc, out, fin, reset, message, extra, file>>
      /\ buffer' = [buffer EXCEPT ![side] = buffer[side] \o SubSeq(wire[side], 1, n)]
      /\ wire' = [wire EXCEPT ![side] = SubSeq(wire[side], n + 1, Len(wire[side]))]
  BY <1>2 DEF RecvHead, TypeOK
<1>4. PICK c, b : c = buffer[side] \o SubSeq(wire[side], 1, n) /\ b = buffer[side]
  OBVIOUS
<1>5. wire[side] # <<>> /\ b \in Seq(Tokens) /\ wire[side] \in Seq(Tokens)
  BY <1>2, <1>4 DEF TypeOK
<1>6. /\ buffer'[side] = c /\ buffer'[other] = buffer[other]
      /\ wire'[side] = SubSeq(wire[side], n + 1, Len(wire[side])) /\ wire'[other] = wire[other]
  BY <1>1, <1>2, <1>3, <1>4 DEF TypeOK
<1> HIDE DEF other
<1>7. ~ NothingYet(side) /\ Coming(side, b, MessageTo(side))
  <2>1. ~ NothingYet(side)
    BY <1>5 DEF NothingYet
  <2>2. NothingYet(side) \/ Coming(side, buffer[side], MessageTo(side))
    BY <1>2, <1>3 DEF Reading
  <2> QED
    BY <1>4, <2>1, <2>2
<1>8. c \in Seq(Tokens) /\ Coming(side, buffer[side], MessageTo(side))'
  <2>1. PICK whole : whole = MessageTo(side)
    OBVIOUS
  <2>2. Coming(side, b, whole) /\ c = b \o SubSeq(wire[side], 1, n)
    BY <1>4, <1>7, <2>1
  <2>3. c \in Seq(Tokens) /\ Coming(side, c, whole)'
    BY <1>2, <1>3, <1>5, <1>6, <2>2, Arrived
  <2>4. MessageTo(side)' = whole
    BY <1>3, <2>1, SameMessages
  <2> QED
    BY <1>6, <2>3, <2>4 DEF Coming
<1>9. Shape'
  <2>1. SubSeq(wire[side], n + 1, Len(wire[side])) \in Seq(Tokens)
    BY <1>5, Cut
  <2>2. buffer' \in [Sides -> Seq(Tokens)] /\ wire' \in [Sides -> Seq(Tokens)]
    BY <1>2, <1>3, <1>4, <1>8, <2>1 DEF TypeOK
  <2>3. TypeOK'
    BY <1>2, <1>3, <2>2 DEF TypeOK, asked
  <2>4. Closed' = Closed
    BY <1>3 DEF Closed
  <2>5. \A s \in reset' : Peer(s) \in fin' /\ wire'[s] = <<>>
    BY <1>1, <1>2, <1>3, <1>6 DEF Shape, TypeOK
  <2> QED
    BY <1>2, <1>3, <2>3, <2>4, <2>5, SameMessages DEF Shape
<1>10. Turns'
  <2>1. CASE side = "client"
    <3>1. ~ Silent
      BY <1>5, <2>1 DEF Silent
    <3>2. NothingYet("server")' <=> NothingYet("server")
      BY <1>1, <1>3, <1>6, <2>1 DEF NothingYet
    <3> QED
      BY <1>1, <1>2, <1>3, <1>6, <2>1, <3>1, <3>2 DEF Turns
  <2>2. CASE side = "server"
    <3>1. Silent
      BY <1>2, <1>3, <1>7, <2>2 DEF Turns
    <3>2. pc["client"] # "build"
      BY <1>2, <1>7, <2>2 DEF Turns
    <3>3. Silent'
      BY <1>1, <1>3, <1>6, <2>2, <3>1 DEF Silent
    <3> QED
      BY <1>1, <1>2, <1>3, <2>2, <3>2, <3>3 DEF Turns
  <2> QED
    BY <1>1, <2>1, <2>2
<1>11. FileIsResource' /\ Saving'
  BY <1>2, <1>3, FileStays, SavingStays
<1>12. Reading(side)'
  BY <1>3, <1>8 DEF Reading
<1>13. Reading(other)'
  <2>1. NothingYet(other) => NothingYet(other)'
    BY <1>1, <1>3, <1>6 DEF NothingYet
  <2>2. ASSUME NEW d, NEW whole, Coming(other, d, whole) PROVE Coming(other, d, whole)'
    BY <1>1, <1>3, <1>6, <2>2 DEF Coming
  <2>3. Reading(other) /\ extra' = extra /\ message' = message /\ pc' = pc
    BY <1>1, <1>2, <1>3
  <2> QED
    BY <1>1, <1>3, <1>6, <2>1, <2>2, <2>3, StillReading
<1> QED
  BY <1>1, <1>9, <1>10, <1>11, <1>12, <1>13 DEF IInv

LEMMA ReceivedHeadKeeps ==
  ASSUME IInv, NEW side \in Sides, ReceivedHead(side)
  PROVE  IInv'
<1> DEFINE other == Peer(side)
<1>1. /\ other \in Sides /\ other # side /\ Peer(other) = side
      /\ \A s \in Sides : s = side \/ s = other
      /\ side = "client" => other = "server"
      /\ side = "server" => other = "client"
      /\ side \in {"client", "server"}
  BY TwoSides DEF Sides
<1>2. Shape /\ TypeOK /\ AskedFor /\ Turns /\ Saving /\ FileIsResource /\ \A s \in Sides : Reading(s)
  BY DEF IInv, Shape
<1>3. PICK end \in BlankAt(buffer[side]) :
        /\ \A i \in BlankAt(buffer[side]) : end <= i
        /\ message' = [message EXCEPT ![side] =
                         Received(Deserialized(side, SubSeq(buffer[side], 1, end - 1)),
                                  SubSeq(buffer[side], end + 1, Len(buffer[side])))]
        /\ extra' = [extra EXCEPT ![side] = Len(buffer[side]) - end]
  BY DEF ReceivedHead
<1>4. /\ pc[side] = "head" /\ pc' = [pc EXCEPT ![side] = "body"]
      /\ UNCHANGED <<asked, out, wire, fin, reset, buffer, file>>
  BY DEF ReceivedHead, stream
<1>5. PICK b, o, whole : b = buffer[side] /\ o = out[other] /\ whole = MessageTo(side)
  OBVIOUS
<1>6. b \in Seq(Tokens) /\ o \in Seq(Tokens) /\ end \in 1 .. Len(b)
  BY <1>1, <1>2, <1>3, <1>5 DEF TypeOK, BlankAt
<1>7. b # <<>> /\ ~ NothingYet(side)
  BY <1>5, <1>6 DEF NothingYet
<1>8. Coming(side, b, whole)
  BY <1>2, <1>4, <1>5, <1>7 DEF Reading
<1>9. PICK lost \in Seq(Tokens) : /\ side \notin reset => lost = wire[side]
                                  /\ b \o (lost \o o) = whole
  BY <1>5, <1>8 DEF Coming
<1>10. PICK later : later = lost \o o
  OBVIOUS
<1>11. later \in Seq(Tokens) /\ Len(later) = Len(lost) + Len(o)
  BY <1>6, <1>9, <1>10, ConcatProperties
<1>12. PICK behind : behind = SubSeq(b, end + 1, Len(b))
  OBVIOUS
<1>13. /\ Deserialized(side, SubSeq(b, 1, end - 1)) =
            [start |-> FirstLine(side), headers |-> Full(Found(side))]
       /\ behind \in Seq(Tokens) /\ Len(behind) = Len(b) - end
       /\ behind \o later = Behind(side)
  <2>1. b \o later = MessageTo(side)
    BY <1>5, <1>9, <1>10
  <2>2. end \in BlankAt(b) /\ \A i \in BlankAt(b) : end <= i
    BY <1>3, <1>5
  <2>3. AskedFor /\ b \in Seq(Tokens) /\ later \in Seq(Tokens)
    BY <1>2, <1>6, <1>11
  <2>4. /\ Deserialized(side, SubSeq(b, 1, end - 1)) =
             [start |-> FirstLine(side), headers |-> Full(Found(side))]
        /\ SubSeq(b, end + 1, Len(b)) \in Seq(Tokens)
        /\ Len(SubSeq(b, end + 1, Len(b))) = Len(b) - end
        /\ SubSeq(b, end + 1, Len(b)) \o later = Behind(side)
    BY <2>1, <2>2, <2>3, HeadRead
  <2> QED
    BY <1>12, <2>4
<1>14. Len(Behind(side)) = Len(behind) + Len(later)
  <2>1. Len(behind \o later) = Len(behind) + Len(later)
    BY <1>11, <1>13, ConcatProperties
  <2> QED
    BY <1>13, <2>1
<1>15. /\ Size(side) \in Nat
       /\ Len(Behind(side)) = IF side = "server" THEN 0 ELSE Size(side) + 1
       /\ side = "server" => Size(side) = 0
  BY <1>2, LinesOf DEF Size
<1>16. /\ message'[side] = [start |-> FirstLine(side), headers |-> Full(Found(side)),
                            body_length |-> Size(side),
                            body |-> IF Size(side) > 0 THEN behind ELSE <<>>]
       /\ extra'[side] = Len(behind) /\ Len(behind) \in Nat
       /\ message'[other] = message[other] /\ extra'[other] = extra[other]
       /\ message' = [s \in Sides |-> message'[s]]
       /\ extra' \in [Sides -> Nat]
  <2>1. message = [s \in Sides |-> message[s]] /\ extra \in [Sides -> Nat]
    BY <1>2 DEF Shape, TypeOK
  <2>2. Len(behind) \in Nat /\ extra' = [extra EXCEPT ![side] = Len(behind)]
    BY <1>3, <1>5, <1>13
  <2>3. extra'[side] = Len(behind) /\ extra'[other] = extra[other] /\ extra' \in [Sides -> Nat]
    BY <1>1, <2>1, <2>2
  <2>4. PICK head : head = [start |-> FirstLine(side), headers |-> Full(Found(side))]
    OBVIOUS
  <2>5. message' = [message EXCEPT ![side] = Received(head, behind)]
    BY <1>3, <1>5, <1>12, <1>13, <2>4
  <2>6. find_header_value(head.headers, "Content-Length", 0) = Size(side)
    BY <1>2, <2>4, LengthFound
  <2>7. Received(head, behind) =
          [start |-> FirstLine(side), headers |-> Full(Found(side)), body_length |-> Size(side),
           body |-> IF Size(side) > 0 THEN behind ELSE <<>>]
    BY <2>4, <2>6 DEF Received
  <2>8. /\ message'[side] = Received(head, behind) /\ message'[other] = message[other]
        /\ message' = [s \in Sides |-> message'[s]]
    BY <1>1, <2>1, <2>5
  <2> QED
    BY <2>2, <2>3, <2>7, <2>8
<1>17. pc'[side] = "body" /\ pc'[other] = pc[other]
  BY <1>1, <1>2, <1>4 DEF TypeOK
<1>18. /\ FirstLine(side)' = FirstLine(side) /\ Lines(side)' = Lines(side)
       /\ Found(side)' = Found(side)
       /\ Behind(side)' = Behind(side) /\ Size(side)' = Size(side)
       /\ AskedFor' = AskedFor
  BY <1>4, SameMessages
<1> HIDE DEF other
<1>19. Shape'
  <2>1. pc' \in [Sides -> {"build", "send", "head", "body", "got", "done", "failed"}]
    BY <1>2, <1>4 DEF TypeOK
  <2>2. TypeOK'
    BY <1>2, <1>4, <1>16, <2>1 DEF TypeOK, asked
  <2>3. Closed' = Closed
    BY <1>1, <1>4, <1>17 DEF Closed
  <2> QED
    BY <1>2, <1>4, <1>16, <1>18, <2>2, <2>3 DEF Shape
<1>20. Turns'
  <2>1. CASE side = "client"
    <3>1. ~ Silent
      BY <1>4, <1>5, <1>7, <2>1 DEF Silent
    <3>2. NothingYet("server")' <=> NothingYet("server")
      BY <1>4 DEF NothingYet
    <3> QED
      BY <1>1, <1>2, <1>4, <1>17, <2>1, <3>1, <3>2 DEF Turns
  <2>2. CASE side = "server"
    <3>1. Silent
      BY <1>2, <1>4, <1>7, <2>2 DEF Turns
    <3>2. pc["client"] # "build"
      BY <1>2, <1>7, <2>2 DEF Turns
    <3>3. Silent'
      BY <1>1, <1>4, <1>17, <2>2, <3>1 DEF Silent
    <3>4. lost = <<>> /\ o = <<>>
      BY <1>6, <1>9, <1>11, <1>13, <1>14, <1>15, <2>2
    <3>5. wire["server"] = <<>> /\ out["client"] = <<>>
      BY <1>1, <1>2, <1>5, <1>9, <2>2, <3>4 DEF Shape
    <3> QED
      BY <1>1, <1>2, <1>4, <1>17, <2>2, <3>2, <3>3, <3>5 DEF Turns
  <2> QED
    BY <1>1, <2>1, <2>2
<1>21. FileIsResource'
  BY <1>2, <1>4, FileStays
<1>22. Saving'
  <2>1. CASE pc'["client"] = "got"
    <3>1. side = "server" /\ other = "client"
      BY <1>1, <1>17, <2>1
    <3> QED
      BY <1>2, <1>4, <1>16, <1>17, <3>1, SavingStays
  <2>2. CASE pc'["client"] # "got"
    BY <2>2 DEF Saving
  <2> QED
    BY <2>1, <2>2
<1>23. Reading(side)'
  <2>1. PICK body : body = IF Size(side) > 0 THEN behind ELSE <<>>
    OBVIOUS
  <2>2. message'[side] = [start |-> FirstLine(side), headers |-> Full(Found(side)),
                          body_length |-> Size(side), body |-> body]
    BY <1>16, <2>1
  <2>3. body \in Seq(Tokens)
    BY <1>13, <2>1
  <2>4. IsMessage(side, message[side])'
    BY <1>18, <2>2, <2>3 DEF IsMessage
  <2>5. message'[side].body = body
    BY <2>2
  <2>6. ASSUME Size(side) > 0
        PROVE  /\ extra'[side] <= Len(body) /\ Len(body) <= Size(side) + 1
               /\ Coming(side, message[side].body, Behind(side))'
    <3>1. body = behind /\ side # "server"
      BY <1>15, <2>1, <2>6
    <3>2. extra'[side] <= Len(body) /\ Len(body) <= Size(side) + 1
      BY <1>11, <1>13, <1>14, <1>15, <1>16, <3>1
    <3>3. behind \o (lost \o o) = Behind(side)' /\ o = out'[Peer(side)]
      BY <1>4, <1>5, <1>10, <1>13, <1>18 DEF other
    <3>4. side \notin reset' => lost = wire'[side]
      BY <1>4, <1>9
    <3> QED
      BY <2>5, <3>1, <3>2, <3>3, <3>4 DEF Coming
  <2>7. Size(side) = 0 => body = <<>>
    BY <2>1
  <2> QED
    BY <1>17, <1>18, <2>4, <2>5, <2>6, <2>7 DEF Reading
<1>24. Reading(other)'
  <2>1. NothingYet(other) => NothingYet(other)'
    BY <1>4 DEF NothingYet
  <2>2. ASSUME NEW d, NEW w, Coming(other, d, w) PROVE Coming(other, d, w)'
    BY <1>4, <2>2 DEF Coming
  <2>3. Reading(other) /\ buffer' = buffer
    BY <1>1, <1>2, <1>4
  <2> QED
    BY <1>1, <1>4, <1>16, <1>17, <2>1, <2>2, <2>3, StillReading
<1> QED
  BY <1>1, <1>19, <1>20, <1>21, <1>22, <1>23, <1>24 DEF IInv

\* Of two fronts of one sequence, the shorter is the front of the longer.
LEMMA ShorterFront ==
  ASSUME NEW S, NEW a \in Seq(S), NEW b \in Seq(S), NEW x \in Seq(S), NEW y \in Seq(S),
         a \o x = b \o y, Len(a) <= Len(b)
  PROVE  SubSeq(b, 1, Len(a)) = a
<1>1. Len(a) \in Nat /\ Len(b) \in Nat /\ a \in Seq(S) /\ b \in Seq(S) /\ x \in Seq(S) /\ y \in Seq(S)
  OBVIOUS
<1>2. /\ \A i \in 1 .. Len(a) : (a \o x)[i] = a[i]
      /\ \A i \in 1 .. Len(b) : (b \o y)[i] = b[i]
  BY <1>1, ConcatProperties
<1>3. \A i \in 1 .. Len(a) : b[i] = a[i] /\ b[i] \in S
  BY <1>1, <1>2, ElementOfSeq
<1>4. PICK front : front = SubSeq(b, 1, Len(a))
  OBVIOUS
<1>5. /\ front \in Seq(S) /\ Len(front) = Len(a)
      /\ \A i \in 1 .. Len(a) : front[i] = b[i]
  <2>1. 1 \in Int /\ Len(a) \in Int /\ \A i \in 1 .. Len(a) : b[i] \in S
    BY <1>1, <1>3
  <2> QED
    BY <1>1, <1>4, <2>1, SubSeqProperties
<1>6. front = a
  BY <1>1, <1>3, <1>5, SeqEqual
<1> QED
  BY <1>4, <1>6

\* http.c, recvall: what the client has of the body.
LEMMA BodyOf ==
  ASSUME AskedFor, TypeOK, NEW body \in Seq(Tokens), Coming("client", body, Behind("client"))
  PROVE  /\ Len(body) >= Len(resource) => SubSeq(body, 1, Len(resource)) = resource
         /\ Len(body) < Len(resource) =>
              /\ body = SubSeq(resource, 1, Len(body))
              /\ wire["client"] = <<>> /\ "client" \notin reset => out["server"] # <<>>
<1>1. PICK o : o = out["server"]
  OBVIOUS
<1>2. o \in Seq(Tokens) /\ resource \in Seq(Tokens) /\ Peer("client") = "server"
  BY <1>1 DEF TypeOK, AskedFor, Sides, Peer
<1>3. PICK lost \in Seq(Tokens) : /\ "client" \notin reset => lost = wire["client"]
                                  /\ body \o (lost \o o) = resource \o <<Garbage>>
  BY <1>1, <1>2 DEF Coming, Behind
<1>4. PICK later, r, last : later = lost \o o /\ r = resource /\ last = <<Garbage>>
  OBVIOUS
<1>5. /\ later \in Seq(Tokens) /\ r \in Seq(Tokens) /\ last \in Seq(Tokens) /\ Len(last) = 1
      /\ Len(later) = Len(lost) + Len(o)
      /\ body \in Seq(Tokens) /\ Len(body) \in Nat /\ Len(r) \in Nat
  <2>1. Garbage \in Tokens
    BY TokenKinds
  <2>2. last \in Seq(Tokens) /\ Len(last) = 1
    BY <1>4, <2>1
  <2>3. later \in Seq(Tokens) /\ Len(later) = Len(lost) + Len(o)
    BY <1>2, <1>3, <1>4, ConcatProperties
  <2> QED
    BY <1>2, <1>4, <2>2, <2>3
<1>6. body \o later = r \o last /\ r \o last = body \o later
  BY <1>3, <1>4
<1>7. Len(body) + Len(later) = Len(r) + 1
  <2>1. Len(body \o later) = Len(body) + Len(later)
    <3>1. body \in Seq(Tokens) /\ later \in Seq(Tokens)
      BY <1>5
    <3> QED
      BY <3>1, ConcatProperties
  <2>2. Len(r \o last) = Len(r) + Len(last)
    <3>1. r \in Seq(Tokens) /\ last \in Seq(Tokens)
      BY <1>5
    <3> QED
      BY <3>1, ConcatProperties
  <2> QED
    BY <1>5, <1>6, <2>1, <2>2
<1>8. ASSUME Len(body) >= Len(r) PROVE SubSeq(body, 1, Len(r)) = r
  <2>1. /\ body \in Seq(Tokens) /\ later \in Seq(Tokens) /\ r \in Seq(Tokens)
        /\ last \in Seq(Tokens) /\ r \o last = body \o later /\ Len(r) <= Len(body)
    BY <1>5, <1>6, <1>8
  <2> QED
    BY <2>1, ShorterFront
<1>9. ASSUME Len(body) < Len(r) PROVE SubSeq(r, 1, Len(body)) = body
  <2>1. /\ body \in Seq(Tokens) /\ later \in Seq(Tokens) /\ r \in Seq(Tokens)
        /\ last \in Seq(Tokens) /\ body \o later = r \o last /\ Len(body) <= Len(r)
    BY <1>5, <1>6, <1>9
  <2> QED
    BY <2>1, ShorterFront
<1>10. Len(body) < Len(r) /\ lost = <<>> => o # <<>>
  BY <1>5, <1>7
<1> QED
  BY <1>1, <1>3, <1>4, <1>8, <1>9, <1>10

\* The body of a parsed message, for the steps that read it.
LEMMA InTheBody ==
  ASSUME IInv, NEW side \in Sides, pc[side] \in {"body", "got"}
  PROVE  /\ message[side].body \in Seq(Tokens) /\ message[side].body_length = Size(side)
         /\ message[side].headers = Full(Found(side)) /\ Size(side) \in Nat
         /\ Size(side) = 0 => message[side].body = <<>>
         /\ side = "server" => Size(side) = 0
         /\ side = "client" => Size(side) = Len(resource)
         /\ pc[side] = "body" /\ Size(side) > 0 =>
              Coming(side, message[side].body, Behind(side))
<1>1. Reading(side) /\ AskedFor /\ IsMessage(side, message[side])
  BY DEF IInv, Shape, Reading
<1>2. Size(side) \in Nat
  BY <1>1, LinesOf
<1>3. message[side].headers = Full(Found(side)) /\ message[side].body_length = Size(side)
  BY <1>1 DEF IsMessage
<1>4. message[side].body \in Seq(Tokens)
  BY <1>1 DEF IsMessage
<1>5. /\ side = "server" => Size(side) = 0
      /\ side = "client" => Size(side) = Len(resource)
  BY DEF Size
<1> QED
  BY <1>1, <1>2, <1>3, <1>4, <1>5 DEF Reading

LEMMA RecvBodyKeeps ==
  ASSUME IInv, NEW side \in Sides, NEW n \in 1 .. Len(wire[side]), RecvBody(side, n)
  PROVE  IInv'
<1> DEFINE other == Peer(side)
<1>1. /\ other \in Sides /\ other # side /\ Peer(other) = side
      /\ \A s \in Sides : s = side \/ s = other
      /\ side = "client" => other = "server"
      /\ side = "server" => other = "client"
      /\ side \in {"client", "server"}
  BY TwoSides DEF Sides
<1>2. Shape /\ TypeOK /\ AskedFor /\ Turns /\ Saving /\ FileIsResource /\ \A s \in Sides : Reading(s)
  BY DEF IInv, Shape
<1>3. /\ pc[side] = "body" /\ side \notin reset
      /\ UNCHANGED <<asked, pc, out, fin, reset, buffer, extra, file>>
      /\ n <= message[side].body_length - Len(message[side].body)
      /\ message' = [message EXCEPT ![side].body = message[side].body \o SubSeq(wire[side], 1, n)]
      /\ wire' = [wire EXCEPT ![side] = SubSeq(wire[side], n + 1, Len(wire[side]))]
  BY <1>2 DEF RecvBody, TypeOK, Shape
<1>4. PICK c, b : c = message[side].body \o SubSeq(wire[side], 1, n) /\ b = message[side].body
  OBVIOUS
<1>5. /\ b \in Seq(Tokens) /\ message[side].body_length = Size(side) /\ Size(side) \in Nat
      /\ Size(side) = 0 => b = <<>>
      /\ side = "server" => Size(side) = 0
      /\ Size(side) > 0 => Coming(side, b, Behind(side))
  BY <1>3, <1>4, InTheBody
<1>6. wire[side] # <<>> /\ wire[side] \in Seq(Tokens) /\ n >= 1 /\ n \in Nat
  BY <1>2 DEF TypeOK
<1>7. Size(side) > 0 /\ side = "client" /\ other = "server" /\ n <= Size(side) - Len(b)
  BY <1>1, <1>3, <1>4, <1>5, <1>6
<1>8. IsMessage(side, message[side])
  BY <1>2, <1>3 DEF Reading
<1>9. PICK m : m = message[side]
  OBVIOUS
<1>10. m = [start |-> FirstLine(side), headers |-> Full(Found(side)),
            body_length |-> Size(side), body |-> b]
  BY <1>4, <1>8, <1>9 DEF IsMessage
<1>11. /\ message'[side] = [start |-> FirstLine(side), headers |-> Full(Found(side)),
                            body_length |-> Size(side), body |-> c]
       /\ message'[other] = message[other]
       /\ message' = [s \in Sides |-> message'[s]]
  <2>1. message = [s \in Sides |-> message[s]]
    BY <1>2 DEF Shape
  <2>2. message' = [message EXCEPT ![side] = [m EXCEPT !.body = c]]
    BY <1>3, <1>4, <1>9
  <2>3. [m EXCEPT !.body = c] =
          [start |-> FirstLine(side), headers |-> Full(Found(side)),
           body_length |-> Size(side), body |-> c]
    BY <1>10
  <2> QED
    BY <1>1, <2>1, <2>2, <2>3
<1>12. wire'[side] = SubSeq(wire[side], n + 1, Len(wire[side])) /\ wire'[other] = wire[other]
  BY <1>1, <1>2, <1>3 DEF TypeOK
<1> HIDE DEF other
<1>13. /\ FirstLine(side)' = FirstLine(side) /\ Lines(side)' = Lines(side)
       /\ Found(side)' = Found(side)
       /\ Behind(side)' = Behind(side) /\ Size(side)' = Size(side) /\ AskedFor' = AskedFor
  BY <1>3, SameMessages
<1>14. c \in Seq(Tokens) /\ Len(c) = Len(b) + n /\ Coming(side, message[side].body, Behind(side))'
  <2>1. PICK whole : whole = Behind(side)
    OBVIOUS
  <2>2. Coming(side, b, whole) /\ c = b \o SubSeq(wire[side], 1, n)
    BY <1>4, <1>5, <1>7, <2>1
  <2>3. c \in Seq(Tokens) /\ Len(c) = Len(b) + n /\ Coming(side, c, whole)'
    <3>1. /\ b \in Seq(Tokens) /\ TypeOK /\ side \notin reset /\ UNCHANGED <<out, reset>>
          /\ wire'[side] = SubSeq(wire[side], n + 1, Len(wire[side]))
      BY <1>2, <1>3, <1>5, <1>12
    <3>2. c \in Seq(Tokens) /\ Coming(side, c, whole)'
      BY <2>2, <3>1, Arrived
    <3>3. Len(c) = Len(b) + n
      BY <2>2, <3>1, Arrived
    <3> QED
      BY <3>2, <3>3
  <2>4. Behind(side)' = whole /\ message'[side].body = c
    BY <1>11, <1>13, <2>1
  <2> QED
    BY <2>3, <2>4 DEF Coming
<1>15. Shape'
  <2>1. SubSeq(wire[side], n + 1, Len(wire[side])) \in Seq(Tokens)
    BY <1>6, Cut
  <2>2. wire' \in [Sides -> Seq(Tokens)]
    BY <1>2, <1>3, <2>1 DEF TypeOK
  <2>3. TypeOK'
    BY <1>2, <1>3, <2>2 DEF TypeOK, asked
  <2>4. Closed' = Closed
    BY <1>3 DEF Closed
  <2>5. \A s \in reset' : Peer(s) \in fin' /\ wire'[s] = <<>>
    BY <1>1, <1>2, <1>3, <1>12 DEF Shape, TypeOK
  <2> QED
    BY <1>2, <1>3, <1>11, <1>13, <2>3, <2>4, <2>5 DEF Shape
<1>16. Turns'
  <2>1. ~ Silent
    BY <1>6, <1>7 DEF Silent
  <2>2. NothingYet("server")' <=> NothingYet("server")
    BY <1>3, <1>7, <1>12 DEF NothingYet
  <2> QED
    BY <1>1, <1>2, <1>3, <1>7, <1>12, <2>1, <2>2 DEF Turns
<1>17. FileIsResource'
  BY <1>2, <1>3, FileStays
<1>18. Saving'
  BY <1>3, <1>7 DEF Saving
<1>19. Reading(side)'
  <2>1. message'[side].body = c
    BY <1>11
  <2>2. IsMessage(side, message[side])'
    BY <1>11, <1>13, <1>14, <2>1 DEF IsMessage
  <2>3. extra[side] <= Len(b) /\ Len(b) \in Nat /\ extra[side] \in Nat
    <3>1. extra[side] <= Len(message[side].body)
      BY <1>2, <1>3, <1>7 DEF Reading
    <3>2. Len(b) \in Nat /\ extra[side] \in Nat
      BY <1>2, <1>5 DEF TypeOK
    <3> QED
      BY <1>4, <3>1, <3>2
  <2>4. extra'[side] <= Len(c) /\ Len(c) <= Size(side) + 1
    <3>1. extra'[side] = extra[side] /\ n <= Size(side) - Len(b) /\ Len(c) = Len(b) + n
      BY <1>3, <1>7, <1>14
    <3>2. n \in Nat /\ Size(side) \in Nat
      BY <1>5, <1>6
    <3> QED
      BY <2>3, <3>1, <3>2
  <2> QED
    <3>1. pc'[side] = "body" /\ Size(side)' > 0 /\ Size(side)' = Size(side) /\ Size(side)' # 0
      BY <1>3, <1>5, <1>7, <1>13
    <3>2. Len(c) <= Size(side)' + 1 /\ extra'[side] <= Len(c)
      BY <2>4, <3>1
    <3> QED
      BY <1>14, <2>1, <2>2, <3>1, <3>2 DEF Reading
<1>20. Reading(other)'
  <2>1. NothingYet(other) => NothingYet(other)'
    BY <1>1, <1>3, <1>12 DEF NothingYet
  <2>2. ASSUME NEW d, NEW w, Coming(other, d, w) PROVE Coming(other, d, w)'
    BY <1>1, <1>3, <1>12, <2>2 DEF Coming
  <2>3. Reading(other) /\ buffer' = buffer /\ extra' = extra /\ pc' = pc
    BY <1>1, <1>2, <1>3
  <2> QED
    BY <1>1, <1>3, <1>11, <2>1, <2>2, <2>3, StillReading
<1> QED
  BY <1>1, <1>15, <1>16, <1>17, <1>18, <1>19, <1>20 DEF IInv

LEMMA ReceivedBodyKeeps ==
  ASSUME IInv, NEW side \in Sides, ReceivedBody(side)
  PROVE  IInv'
<1> DEFINE other == Peer(side)
<1>1. /\ other \in Sides /\ other # side /\ Peer(other) = side
      /\ \A s \in Sides : s = side \/ s = other
      /\ side = "client" => other = "server"
      /\ side = "server" => other = "client"
      /\ side \in {"client", "server"}
  BY TwoSides DEF Sides
<1>2. Shape /\ TypeOK /\ AskedFor /\ Turns /\ Saving /\ FileIsResource /\ \A s \in Sides : Reading(s)
  BY DEF IInv, Shape
<1>3. /\ pc[side] = "body" /\ pc' = [pc EXCEPT ![side] = "got"]
      /\ UNCHANGED <<asked, out, wire, fin, reset, buffer, message, extra, file>>
      /\ Len(message[side].body) >= message[side].body_length
  BY DEF ReceivedBody, stream
<1>4. pc'[side] = "got" /\ pc'[other] = pc[other]
  BY <1>1, <1>2, <1>3 DEF TypeOK
<1> HIDE DEF other
<1>5. /\ FirstLine(side)' = FirstLine(side) /\ Lines(side)' = Lines(side)
      /\ Found(side)' = Found(side)
      /\ Behind(side)' = Behind(side) /\ Size(side)' = Size(side) /\ AskedFor' = AskedFor
  BY <1>3, SameMessages
<1>6. Shape'
  <2>1. pc' \in [Sides -> {"build", "send", "head", "body", "got", "done", "failed"}]
    BY <1>2, <1>3 DEF TypeOK
  <2>2. TypeOK'
    BY <1>2, <1>3, <2>1 DEF TypeOK, asked
  <2>3. Closed' = Closed
    BY <1>1, <1>3, <1>4 DEF Closed
  <2> QED
    BY <1>2, <1>3, <1>5, <2>2, <2>3 DEF Shape
<1>7. Turns'
  <2>1. NothingYet("server")' <=> NothingYet("server")
    BY <1>3 DEF NothingYet
  <2>2. CASE side = "client"
    <3>1. ~ Silent
      BY <1>3, <2>2 DEF Silent
    <3> QED
      BY <1>1, <1>2, <1>3, <1>4, <2>1, <2>2, <3>1 DEF Turns
  <2>3. CASE side = "server"
    <3>1. Silent'
      BY <1>1, <1>2, <1>3, <1>4, <2>3 DEF Turns, Silent
    <3> QED
      BY <1>1, <1>2, <1>3, <1>4, <2>1, <2>3, <3>1 DEF Turns
  <2> QED
    BY <1>1, <2>2, <2>3
<1>8. FileIsResource'
  BY <1>2, <1>3, FileStays
<1>9. Saving'
  <2>1. CASE side = "client"
    <3>1. PICK b : b = message["client"].body
      OBVIOUS
    <3>2. /\ b \in Seq(Tokens) /\ Len(b) >= Len(resource) /\ Len(resource) \in Nat
          /\ Len(resource) = 0 => b = <<>>
          /\ Len(resource) > 0 => Coming("client", b, Behind("client"))
      BY <1>3, <2>1, <3>1, InTheBody
    <3>3. SubSeq(b, 1, Len(resource)) = resource
      <4>1. CASE Len(resource) = 0
        <5>1. resource = <<>> /\ b = <<>>
          BY <1>2, <3>2, <4>1 DEF AskedFor
        <5> QED
          BY <5>1
      <4>2. CASE Len(resource) > 0
        BY <1>2, <3>2, <4>2, BodyOf
      <4> QED
        BY <3>2, <4>1, <4>2
    <3> QED
      BY <1>3, <3>1, <3>3 DEF Saving, asked
  <2>2. CASE side = "server"
    BY <1>1, <1>2, <1>3, <1>4, <2>2, SavingStays
  <2> QED
    BY <1>1, <2>1, <2>2
<1>10. Reading(side)'
  <2>1. IsMessage(side, message[side])' <=> IsMessage(side, message[side])
    BY <1>3, <1>5 DEF IsMessage
  <2> QED
    BY <1>2, <1>3, <1>4, <1>5, <2>1 DEF Reading
<1>11. Reading(other)'
  <2>1. NothingYet(other) => NothingYet(other)'
    BY <1>3 DEF NothingYet
  <2>2. ASSUME NEW d, NEW w, Coming(other, d, w) PROVE Coming(other, d, w)'
    BY <1>3, <2>2 DEF Coming
  <2>3. Reading(other) /\ buffer' = buffer /\ extra' = extra /\ message' = message
    BY <1>1, <1>2, <1>3
  <2> QED
    BY <1>1, <1>3, <1>4, <2>1, <2>2, <2>3, StillReading
<1> QED
  BY <1>1, <1>6, <1>7, <1>8, <1>9, <1>10, <1>11 DEF IInv

\* Reading ends early.  Only the client reads a body, and what it is filled up
\* to is cut short.
LEMMA BodyEndedKeeps ==
  ASSUME IInv, NEW side \in Sides, BodyEnded(side)
  PROVE  IInv'
<1> DEFINE other == Peer(side)
<1>1. /\ other \in Sides /\ other # side /\ Peer(other) = side
      /\ \A s \in Sides : s = side \/ s = other
      /\ side = "client" => other = "server"
      /\ side = "server" => other = "client"
      /\ side \in {"client", "server"}
  BY TwoSides DEF Sides
<1>2. Shape /\ TypeOK /\ AskedFor /\ Turns /\ Saving /\ FileIsResource /\ \A s \in Sides : Reading(s)
  BY DEF IInv, Shape
<1>3. /\ pc[side] = "body" /\ other \in fin /\ wire[side] = <<>> /\ side \notin reset
      /\ Len(message[side].body) < message[side].body_length
      /\ UNCHANGED <<asked, out, buffer, extra, file>>
  BY DEF BodyEnded, AtEnd
<1>4. CASE Len(message[side].body) = extra[side]
  <2>1. Leave(side, "failed") /\ UNCHANGED message
    BY <1>4 DEF BodyEnded
  <2>2. fin \subseteq fin'
    BY <2>1 DEF Leave, Close
  <2>3. FileIsResource'
    BY <1>2, <1>3, <2>2, FileStays
  <2> QED
    BY <1>3, <2>1, <2>3, LeaveKeeps
<1>5. CASE Len(message[side].body) # extra[side]
  <2>1. PICK b, size : b = message[side].body /\ size = Size(side)
    OBVIOUS
  <2>2. /\ message' = [message EXCEPT ![side].body = Padded(b, size)]
        /\ pc' = [pc EXCEPT ![side] = "got"] /\ UNCHANGED <<wire, fin, reset>>
        /\ message[side].body_length = size
    <3>1. message[side].body_length = size
      BY <1>3, <2>1, InTheBody
    <3> QED
      BY <1>5, <2>1, <3>1 DEF BodyEnded, stream
  <2>3. /\ b \in Seq(Tokens) /\ size \in Nat
        /\ side = "server" => size = 0
        /\ side = "client" => size = Len(resource)
        /\ size > 0 => Coming(side, b, Behind(side))
    BY <1>3, <2>1, InTheBody
  <2>4. Len(b) < size /\ Len(b) \in Nat /\ side = "client" /\ other = "server" /\ size = Len(resource)
    BY <1>1, <1>3, <2>1, <2>2, <2>3
  <2>5. PICK padded : padded = Padded(b, size)
    OBVIOUS
  <2>6. padded \in Seq(Tokens) /\ Len(padded) = size
    <3>1. \A i \in 1 .. size : (IF i <= Len(b) THEN b[i] ELSE Garbage) \in Tokens
      BY <2>3, <2>4, TokenKinds, ElementOfSeq
    <3>2. padded = [i \in 1 .. size |-> IF i <= Len(b) THEN b[i] ELSE Garbage]
      BY <2>5 DEF Padded
    <3> QED
      BY <2>3, <3>1, <3>2
  <2>7. CutShort(padded)
    <3>1. b = SubSeq(resource, 1, Len(b)) /\ out["server"] # <<>>
      BY <1>2, <1>3, <2>3, <2>4, BodyOf
    <3>2. Len(b) \in 0 .. Len(resource) - 1
      BY <2>3, <2>4
    <3>3. padded = Padded(SubSeq(resource, 1, Len(b)), Len(resource))
      BY <2>4, <2>5, <3>1
    <3>4. "server" \in fin
      BY <1>3, <2>4
    <3> QED
      BY <3>1, <3>2, <3>3, <3>4 DEF CutShort
  <2>8. /\ message'[side] = [start |-> FirstLine(side), headers |-> Full(Found(side)),
                             body_length |-> size, body |-> padded]
        /\ message'[other] = message[other]
        /\ message' = [s \in Sides |-> message'[s]]
    <3>1. PICK m : m = message[side]
      OBVIOUS
    <3>2. m = [start |-> FirstLine(side), headers |-> Full(Found(side)),
               body_length |-> size, body |-> b]
      BY <1>2, <1>3, <2>1, <3>1 DEF Reading, IsMessage
    <3>3. message = [s \in Sides |-> message[s]]
      BY <1>2 DEF Shape
    <3>4. message' = [message EXCEPT ![side] = [m EXCEPT !.body = padded]]
      BY <2>2, <2>5, <3>1
    <3>5. [m EXCEPT !.body = padded] =
            [start |-> FirstLine(side), headers |-> Full(Found(side)),
             body_length |-> size, body |-> padded]
      BY <3>2
    <3> QED
      BY <1>1, <3>3, <3>4, <3>5
  <2>9. pc'[side] = "got" /\ pc'[other] = pc[other]
    BY <1>1, <1>2, <2>2 DEF TypeOK
  <2> HIDE DEF other
  <2>10. /\ FirstLine(side)' = FirstLine(side) /\ Lines(side)' = Lines(side)
         /\ Found(side)' = Found(side)
         /\ Behind(side)' = Behind(side) /\ Size(side)' = Size(side) /\ AskedFor' = AskedFor
    BY <1>3, SameMessages
  <2>11. Shape'
    <3>1. pc' \in [Sides -> {"build", "send", "head", "body", "got", "done", "failed"}]
      BY <1>2, <2>2 DEF TypeOK
    <3>2. TypeOK'
      BY <1>2, <1>3, <2>2, <3>1 DEF TypeOK, asked
    <3>3. Closed' = Closed
      BY <1>1, <1>3, <2>9 DEF Closed
    <3> QED
      BY <1>2, <1>3, <2>2, <2>8, <2>10, <3>2, <3>3 DEF Shape
  <2>12. Turns'
    <3>1. ~ Silent
      BY <1>3, <2>4 DEF Silent
    <3>2. NothingYet("server")' <=> NothingYet("server")
      BY <1>3, <2>2 DEF NothingYet
    <3> QED
      BY <1>1, <1>2, <1>3, <2>2, <2>4, <2>9, <3>1, <3>2 DEF Turns
  <2>13. FileIsResource'
    BY <1>2, <1>3, <2>2, FileStays
  <2>14. Saving'
    <3>1. CutShort(padded)'
      BY <1>3, <2>2, <2>7 DEF CutShort, asked
    <3>2. message'["client"].body = padded
      BY <2>4, <2>8
    <3> QED
      BY <3>1, <3>2 DEF Saving
  <2>15. Reading(side)'
    <3>1. message'[side].body = padded
      BY <2>8
    <3>2. IsMessage(side, message[side])'
      BY <2>1, <2>6, <2>8, <2>10, <3>1 DEF IsMessage
    <3>3. extra[side] <= Len(message[side].body) /\ extra[side] \in Nat
      <4>1. Size(side) > 0
        BY <2>1, <2>3, <2>4
      <4> QED
        BY <1>2, <1>3, <4>1 DEF Reading, TypeOK
    <3>4. extra'[side] <= Len(padded) /\ Len(padded) <= size + 1
      BY <1>3, <2>1, <2>3, <2>4, <2>6, <3>3
    <3>5. size # 0
      BY <2>3, <2>4
    <3> QED
      BY <2>1, <2>9, <2>10, <3>1, <3>2, <3>4, <3>5 DEF Reading
  <2>16. Reading(other)'
    <3>1. NothingYet(other) => NothingYet(other)'
      BY <1>3, <2>2 DEF NothingYet
    <3>2. ASSUME NEW d, NEW w, Coming(other, d, w) PROVE Coming(other, d, w)'
      BY <1>3, <2>2, <3>2 DEF Coming
    <3>3. Reading(other) /\ buffer' = buffer /\ extra' = extra
      BY <1>1, <1>2, <1>3
    <3> QED
      BY <1>1, <1>3, <2>8, <2>9, <3>1, <3>2, <3>3, StillReading
  <2> QED
    BY <1>1, <2>11, <2>12, <2>13, <2>14, <2>15, <2>16 DEF IInv
<1> QED
  BY <1>4, <1>5

LEMMA SaveFileKeeps ==
  ASSUME IInv, SaveFile
  PROVE  IInv'
<1>1. Shape /\ TypeOK /\ AskedFor /\ Saving /\ FileIsResource /\ "client" \in Sides
  BY DEF IInv, Shape, Sides
<1>2. /\ pc["client"] = "got" /\ Leave("client", "done")
      /\ UNCHANGED <<asked, out, buffer, message, extra>>
  BY DEF SaveFile
<1>3. PICK body : body = message["client"].body
  OBVIOUS
<1>4. body \in Seq(Tokens) /\ message["client"].headers = Full(Found("client"))
  BY <1>1, <1>2, <1>3, InTheBody
<1>5. find_header_value(Full(Found("client")), "Content-Length", 0) = Len(resource)
  BY <1>1, LengthFound DEF Size
<1>6. file' = NoFile \/ file' = SubSeq(body, 1, Len(resource))
  BY <1>3, <1>4, <1>5 DEF SaveFile
<1>7. UNCHANGED <<kind, resource, out>> /\ fin \subseteq fin'
  BY <1>2 DEF asked, Leave, Close
<1>8. FileIsResource'
  <2>1. CASE file' = NoFile
    BY <2>1 DEF FileIsResource
  <2>2. CASE file' = SubSeq(body, 1, Len(resource)) /\ SubSeq(body, 1, Len(resource)) = resource
    BY <1>7, <2>2 DEF FileIsResource
  <2>3. CASE file' = SubSeq(body, 1, Len(resource)) /\ CutShort(body)
    <3>1. PICK n \in 0 .. Len(resource) - 1 : body = Padded(SubSeq(resource, 1, n), Len(resource))
      BY <2>3 DEF CutShort
    <3>2. Len(resource) \in Nat
      BY <1>1 DEF AskedFor
    <3>3. Len(body) = Len(resource)
      BY <1>4, <3>1, <3>2 DEF Padded
    <3>4. file' = body
      BY <1>4, <2>3, <3>3, SubSeqFull
    <3> QED
      BY <1>7, <2>3, <3>1, <3>3, <3>4 DEF CutShort, FileIsResource
  <2> QED
    BY <1>1, <1>2, <1>3, <1>6, <2>1, <2>2, <2>3 DEF Saving
<1> QED
  BY <1>1, <1>2, <1>8, LeaveKeeps

\* A side that fails says nothing and keeps what it has.
LEMMA FailKeeps ==
  ASSUME IInv, NEW side \in Sides, Leave(side, "failed"),
         UNCHANGED <<asked, out, buffer, message, extra, file>>
  PROVE  IInv'
<1>1. fin \subseteq fin'
  BY DEF Leave, Close
<1>2. FileIsResource'
  BY <1>1, FileStays DEF IInv
<1> QED
  BY <1>2, LeaveKeeps

LEMMA StepKeeps ==
  ASSUME IInv, NEW side \in Sides, Step(side)
  PROVE  IInv'
<1>1. CASE \E n \in 1 .. Len(out[side]) : SendSome(side, n)
  BY <1>1, SendSomeKeeps
<1>2. CASE \E n \in 1 .. Len(wire[side]) : RecvHead(side, n)
  BY <1>2, RecvHeadKeeps
<1>3. CASE \E n \in 1 .. Len(wire[side]) : RecvBody(side, n)
  BY <1>3, RecvBodyKeeps
<1>4. CASE ReceivedHead(side)
  BY <1>4, ReceivedHeadKeeps
<1>5. CASE ReceivedBody(side)
  BY <1>5, ReceivedBodyKeeps
<1>6. CASE SendError(side)
  BY <1>6, FailKeeps DEF SendError
<1>7. CASE HeadEnded(side)
  BY <1>7, FailKeeps DEF HeadEnded
<1>8. CASE BodyEnded(side)
  BY <1>8, BodyEndedKeeps
<1>9. CASE RecvError(side)
  BY <1>9, FailKeeps DEF RecvError
<1> QED
  BY <1>1, <1>2, <1>3, <1>4, <1>5, <1>6, <1>7, <1>8, <1>9 DEF Step

LEMMA StutterKeeps ==
  ASSUME IInv, UNCHANGED vars
  PROVE  IInv'
<1> USE DEF vars
<1>1. UNCHANGED asked
  BY DEF asked
<1>2. Shape' /\ FileIsResource'
  <2>1. TypeOK' /\ Closed' = Closed
    BY DEF IInv, Shape, TypeOK, Closed
  <2>2. FileIsResource'
    BY <1>1, FileStays DEF IInv
  <2> QED
    BY <1>1, <2>1, <2>2, SameMessages DEF IInv, Shape
<1>3. Turns'
  BY DEF IInv, Turns, Silent, NothingYet
<1>4. Saving'
  BY <1>1, SavingStays DEF IInv
<1>5. ASSUME NEW side \in Sides PROVE Reading(side)'
  <2>1. NothingYet(side) => NothingYet(side)'
    BY DEF NothingYet
  <2>2. ASSUME NEW b, NEW whole, Coming(side, b, whole) PROVE Coming(side, b, whole)'
    BY <2>2 DEF Coming
  <2>3. Reading(side)
    BY DEF IInv
  <2> QED
    BY <1>1, <2>1, <2>2, <2>3, StillReading
<1> QED
  BY <1>2, <1>3, <1>4, <1>5 DEF IInv

LEMMA Invariance == Spec => []IInv
<1>1. Init => IInv
  BY InitHolds
<1>2. IInv /\ [Next]_vars => IInv'
  <2> SUFFICES ASSUME IInv, [Next]_vars PROVE IInv'
    OBVIOUS
  <2>1. CASE SendRequest
    BY <2>1, SendRequestKeeps
  <2>2. CASE SaveFile
    BY <2>2, SaveFileKeeps
  <2>3. CASE Respond
    BY <2>3, RespondKeeps
  <2>4. ASSUME NEW side \in Sides, Step(side) PROVE IInv'
    BY <2>4, StepKeeps
  <2>5. ASSUME NEW side \in Sides, ReceiveNoMemory(side) PROVE IInv'
    BY <2>5, FailKeeps DEF ReceiveNoMemory
  <2>6. ASSUME NEW side \in Sides, Stops(side) PROVE IInv'
    BY <2>6, FailKeeps DEF Stops
  <2>7. CASE UNCHANGED vars
    BY <2>7, StutterKeeps
  <2> QED
    BY <2>1, <2>2, <2>3, <2>4, <2>5, <2>6, <2>7 DEF Next, Client, Server, Terminated, Sides
<1> QED
  BY <1>1, <1>2, PTL DEF Spec

-------------------------------------------------------------------------------
(* The theorems. *)

\* Type correctness.
THEOREM TypeCorrect == Spec => []TypeOK
<1>1. IInv => TypeOK
  BY DEF IInv, Shape
<1> QED
  BY <1>1, Invariance, PTL

\* http.c:26-246: what a side says has every header it counts, and what it
\* finds in a message is what the other put into it, wherever recv cut the
\* stream, for bodies and buffers of every size.  The server finds the request
\* line as one header more exactly if there is a colon in it.
THEOREM HeadersAreWhole == Spec => []HeadersWhole
<1>1. ASSUME IInv PROVE HeadersWhole
  <2> SUFFICES ASSUME NEW side \in Sides
               PROVE  /\ \A i \in DOMAIN out[side] : out[side][i] # Unset
                      /\ pc[side] \in {"body", "got"} =>
                           LET headers == message[side].headers IN
                           /\ Len(headers.slot) = headers.index
                           /\ serialize_headers(headers) =
                                IF side = "server"
                                THEN (IF colon THEN <<Start(kind, TRUE)>> ELSE <<>>)
                                     \o serialize_headers(RequestHeaders)
                                ELSE IF Status(kind) = "200"
                                THEN serialize_headers(ResponseHeaders(resource)) ELSE <<>>
    BY DEF HeadersWhole
  <2>1. \A i \in DOMAIN out[side] : out[side][i] # Unset
    BY <1>1, UnsetAssumption, ElementOfSeq DEF IInv, Shape, TypeOK
  <2>2. ASSUME pc[side] \in {"body", "got"}
        PROVE  LET headers == message[side].headers IN
               /\ Len(headers.slot) = headers.index
               /\ serialize_headers(headers) =
                    IF side = "server"
                    THEN (IF colon THEN <<Start(kind, TRUE)>> ELSE <<>>)
                         \o serialize_headers(RequestHeaders)
                    ELSE IF Status(kind) = "200"
                    THEN serialize_headers(ResponseHeaders(resource)) ELSE <<>>
    <3>1. message[side].headers = Full(Found(side)) /\ AskedFor
      BY <1>1, <2>2, InTheBody DEF IInv, Shape
    <3>2. Len(Full(Found(side)).slot) = Full(Found(side)).index
      BY DEF Full
    <3>3. ASSUME side = "server"
          PROVE  serialize_headers(Full(Found(side))) =
                   (IF colon THEN <<Start(kind, TRUE)>> ELSE <<>>) \o serialize_headers(RequestHeaders)
      <4> DEFINE lines == Lines(side)
      <4>1. serialize_headers(RequestHeaders) = lines /\ lines \in Seq(Tokens)
        BY <3>1, <3>3, Serialized, LinesOf DEF serialize_headers, Full
      <4>2. serialize_headers(Full(Found(side))) = Found(side) /\ colon \in BOOLEAN
        BY <3>1 DEF serialize_headers, Full, AskedFor
      <4>3. Found(side) = IF colon THEN <<Start(kind, colon)>> \o lines ELSE lines
        BY <3>3 DEF Found, FirstLine
      <4> HIDE DEF lines
      <4>4. <<>> \o lines = lines
        BY <4>1, ConcatEmptySeq
      <4>5. CASE colon
        <5>1. colon = TRUE
          BY <4>2, <4>5
        <5> QED
          BY <4>1, <4>2, <4>3, <5>1
      <4>6. CASE ~ colon
        BY <4>1, <4>2, <4>3, <4>4, <4>6
      <4> QED
        BY <4>5, <4>6
    <3>4. side = "client" /\ Status(kind) = "200" => Full(Found(side)) = ResponseHeaders(resource)
      BY <3>1, Serialized DEF Found
    <3>5. side = "client" /\ Status(kind) # "200" => serialize_headers(Full(Found(side))) = <<>>
      BY DEF serialize_headers, Full, Found, Lines
    <3> QED
      BY <3>1, <3>2, <3>3, <3>4, <3>5 DEF Sides
  <2> QED
    BY <2>1, <2>2
<1> QED
  BY <1>1, Invariance, PTL

\* http.c:909-950: what is read of a body, behind the head and after it, fits
\* into the memory of the body, for every size of a body and of the buffers.
THEOREM BodiesFit == Spec => []BodyFits
<1>1. ASSUME IInv PROVE BodyFits
  <2> SUFFICES ASSUME NEW side \in Sides, pc[side] \in {"body", "got"},
                      message[side].body_length > 0
               PROVE  /\ extra[side] <= message[side].body_length + 1
                      /\ Len(message[side].body) <= message[side].body_length + 1
    BY DEF BodyFits
  <2>1. message[side].body_length = Size(side) /\ Size(side) \in Nat
        /\ message[side].body \in Seq(Tokens)
    BY <1>1, InTheBody
  <2>2. extra[side] <= Len(message[side].body) /\ Len(message[side].body) <= Size(side) + 1
    BY <1>1, <2>1 DEF IInv, Reading
  <2>3. extra[side] \in Nat /\ Len(message[side].body) \in Nat
    BY <1>1, <2>1 DEF IInv, Shape, TypeOK
  <2> QED
    BY <2>1, <2>2, <2>3
<1> QED
  BY <1>1, Invariance, PTL

\* client.c and server.c together: a file that was saved is the resource, or,
\* if the server ended in the middle of the body, a part of it, filled up.
THEOREM FilesAreTheResource == Spec => []FileIsResource
<1>1. IInv => FileIsResource
  BY DEF IInv
<1> QED
  BY <1>1, Invariance, PTL
===============================================================================
