------------------------------ MODULE MCFraming -------------------------------
(* Instances of Framing for TLC, with bytes of two bits, and the formats of  *)
(* Pack over all their values.                                               *)
EXTENDS Framing

TwoPackets == {<<1>>, <<3, 2, 1, 2>>}

\* What pack stores, unpack finds: for every letter and value alone, and for
\* strings, cut or not, between two numbers, so that none leaves the others
\* out of step.  (In formats longer than the program's, and evaluated before
\* anything was sent.)
Strings == {<<>>, <<1>>, <<2, 1, 3>>}
FormatsRoundTrip ==
  sent = <<>> /\ wire = <<>> =>
  /\ \A code \in {"c", "C", "h", "H", "l", "L", "q", "Q", "s"} :
       \A v \in Values(code, Strings) :
         LET item == <<[code |-> code, max |-> 0]>> IN
         unpack(pack(item, <<v>>), item) = <<v>>
  /\ \A max \in 0 .. 4, s \in Strings, v \in Values("h", Strings) :
       LET items == << [code |-> "h", max |-> 0], [code |-> "s", max |-> max],
                       [code |-> "q", max |-> 0] >> IN
       unpack(pack(items, <<v, s, -1 - v>>), items) = <<v, Stored(items[2], s), -1 - v>>
===============================================================================
