---------------------------- MODULE Framing_proofs ----------------------------
(***************************************************************************)
(* Numbers and strings: what unpack finds is what pack stored, for every   *)
(* width of a byte.  The argument goes byte by byte: i is                  *)
(* Base * Shift(i) + Low(i), so the number that is put together from the   *)
(* low bytes of i differs from i by what is left of i after the last       *)
(* shift, and that is 0 or -1 for a number that fits, which is what the    *)
(* conversion to signed undoes.                                            *)
(*                                                                         *)
(* Formats: what pack leaves behind is a chain of the items' bytes, and    *)
(* where unpack stands after i items is what follows the first i links.    *)
(* Both are recursive functions: facts about every i come from the least i *)
(* at which they would fail.                                               *)
(*                                                                         *)
(* Packets: what holds of them over a stream for every set of packets,     *)
(* every room in the kernels and however the bytes are cut.  Everything    *)
(* put into the stream is a chain of serialized packets.  The invariant    *)
(* says where the receiver is in that chain: behind the packets it handed  *)
(* over comes what it has of the next one, then what is under way (or was  *)
(* lost), then what sendall has left.                                      *)
(***************************************************************************)
EXTENDS MCFraming, SequenceTheorems, WellFoundedInduction, TLAPS

-------------------------------------------------------------------------------
(* Numbers and strings, and formats of them. *)

LEMMA BaseIsEven == Base \in Nat /\ Half \in Nat /\ Half > 0 /\ Base = 2 * Half
BY BaseAssumption DEF Half

\* One shift takes one byte off.
LEMMA DivMod ==
  ASSUME NEW i \in Int
  PROVE  /\ Shift(i) \in Int /\ Low(i) \in Int /\ Low(i) >= 0 /\ Low(i) < Base
         /\ i = Base * Shift(i) + Low(i)
BY BaseIsEven DEF Shift, Low

\* u holds a number up to multiples of m.
Holds(i, u, m) == \E t \in Int : i = m * t + u /\ u \in 0 .. m - 1

LEMMA OneByte ==
  ASSUME NEW i \in Int
  PROVE  Holds(i, Low(i), Base)
<1>1. Shift(i) \in Int
  BY DivMod
<1>2. i = Base * Shift(i) + Low(i) /\ Low(i) \in 0 .. Base - 1
  BY DivMod, BaseIsEven
<1> QED
  BY <1>1, <1>2 DEF Holds

\* One more byte behind those of what the shift leaves.
LEMMA OneByteMore ==
  ASSUME NEW i \in Int, NEW m \in Nat, NEW u, Holds(Shift(i), u, m)
  PROVE  Holds(i, u * Base + Low(i), m * Base)
<1>1. PICK t \in Int : Shift(i) = m * t + u /\ u \in 0 .. m - 1
  BY DEF Holds
<1>2. /\ Shift(i) \in Int /\ Low(i) \in Int /\ Low(i) >= 0 /\ Low(i) < Base
      /\ i = Base * Shift(i) + Low(i)
  BY DivMod
<1>3. Base \in Nat /\ u \in Int
  BY BaseIsEven, <1>1
<1>4. i = (m * Base) * t + (u * Base + Low(i))
  <2>1. Base * (m * t + u) = (m * Base) * t + u * Base
    BY <1>3
  <2> QED
    BY <1>1, <1>2, <1>3, <2>1
<1>5. u * Base >= 0 /\ u * Base <= (m - 1) * Base
  BY <1>1, <1>3
<1>6. (m - 1) * Base = m * Base - Base
  BY <1>3
<1>7. u * Base + Low(i) \in 0 .. m * Base - 1
  <2> DEFINE x == u * Base
             y == m * Base
  <2>1. x \in Int /\ y \in Int /\ x >= 0 /\ x <= y - Base
    BY <1>3, <1>5, <1>6
  <2> HIDE DEF x, y
  <2>2. x + Low(i) \in 0 .. y - 1
    BY <1>2, <1>3, <2>1
  <2> QED
    BY <2>2 DEF x, y
<1> QED
  BY <1>4, <1>7 DEF Holds

\* A number without sign that fits is what its bytes hold.
LEMMA UnsignedFits ==
  ASSUME NEW i \in Int, NEW m \in Nat, NEW u, Holds(i, u, m), i \in 0 .. m - 1
  PROVE  u = i
<1>1. PICK t \in Int : i = m * t + u /\ u \in 0 .. m - 1
  BY DEF Holds
<1>2. ASSUME t >= 1 PROVE FALSE
  <2>1. m * t >= m
    BY <1>2
  <2> QED
    BY <1>1, <2>1
<1>3. ASSUME t <= -1 PROVE FALSE
  <2>1. m * t <= -m
    BY <1>3
  <2> QED
    BY <1>1, <2>1
<1>4. t = 0
  BY <1>2, <1>3
<1> QED
  BY <1>1, <1>4

\* A number with a sign is what the conversion makes of its bytes.
LEMMA SignedFits ==
  ASSUME NEW i \in Int, NEW h \in Nat, NEW m, m = 2 * h, NEW u, Holds(i, u, m),
         i \in -h .. h - 1
  PROVE  Signed(u, h) = i
<1>1. PICK t \in Int : i = m * t + u /\ u \in 0 .. m - 1
  BY DEF Holds
<1>2. ASSUME t >= 1 PROVE FALSE
  <2>1. m * t >= m
    BY <1>2
  <2> QED
    BY <1>1, <2>1
<1>3. ASSUME t <= -2 PROVE FALSE
  <2>1. m * t <= m * (-2)
    BY <1>3
  <2> QED
    BY <1>1, <2>1
<1>4. CASE t = 0
  <2>1. u = i
    BY <1>1, <1>4
  <2> QED
    BY <2>1 DEF Signed
<1>5. CASE t = -1
  <2>1. u = i + m
    BY <1>1, <1>5
  <2> QED
    BY <1>1, <2>1 DEF Signed
<1> QED
  BY <1>2, <1>3, <1>4, <1>5

-------------------------------------------------------------------------------
(* The widths of the program's formats. *)

LEMMA TwoBytes ==
  ASSUME NEW i \in Int
  PROVE  Holds(i, unpacku16(packi16(i)), Base * Base)
<1>1. Shift(i) \in Int /\ Base \in Nat
  BY DivMod, BaseIsEven
<1>2. Holds(Shift(i), Low(Shift(i)), Base)
  BY <1>1, OneByte
<1>3. Holds(i, Low(Shift(i)) * Base + Low(i), Base * Base)
  BY <1>1, <1>2, OneByteMore
<1> QED
  BY <1>3 DEF packi16, unpacku16

\* The bytes of a number are those of its halves, one after the other.
LEMMA Halves ==
  ASSUME NEW a \in Int, NEW b \in Int, NEW c \in Int, NEW d \in Int
  PROVE  /\ (<<a, b>> \o <<c, d>>)[1] = a
         /\ (<<a, b>> \o <<c, d>>)[2] = b
         /\ (<<a, b>> \o <<c, d>>)[3] = c
         /\ (<<a, b>> \o <<c, d>>)[4] = d
<1>1. <<a, b>> \in Seq(Int) /\ <<c, d>> \in Seq(Int) /\ Len(<<a, b>>) = 2 /\ Len(<<c, d>>) = 2
  OBVIOUS
<1> QED
  BY <1>1

LEMMA FourBytes ==
  ASSUME NEW i \in Int
  PROVE  Holds(i, unpacku32(packi32(i)), Base * Base * Base * Base)
<1> DEFINE s1 == Shift(i)
           s2 == Shift(s1)
           u2 == unpacku16(packi16(s2))
<1>1. s1 \in Int /\ s2 \in Int /\ Base \in Nat
  BY DivMod, BaseIsEven
<1>2. Holds(s2, u2, Base * Base)
  BY <1>1, TwoBytes
<1> HIDE DEF u2
<1>3. Holds(s1, u2 * Base + Low(s1), Base * Base * Base)
  BY <1>1, <1>2, OneByteMore
<1>4. Holds(i, (u2 * Base + Low(s1)) * Base + Low(i), Base * Base * Base * Base)
  BY <1>1, <1>3, OneByteMore
<1>5. u2 = Low(Shift(s2)) * Base + Low(s2)
  BY DEF u2, unpacku16, packi16
<1>6. Low(Shift(s2)) \in Int /\ Low(s2) \in Int /\ Low(s1) \in Int /\ Low(i) \in Int
  BY <1>1, DivMod
<1>7. packi32(i) = <<Low(Shift(s2)), Low(s2)>> \o <<Low(s1), Low(i)>>
  BY DEF packi32, packi16
<1>8. /\ packi32(i)[1] = Low(Shift(s2)) /\ packi32(i)[2] = Low(s2)
      /\ packi32(i)[3] = Low(s1) /\ packi32(i)[4] = Low(i)
  BY <1>6, <1>7, Halves
<1> QED
  BY <1>4, <1>5, <1>8 DEF unpacku32

LEMMA Longs ==
  ASSUME NEW p \in Seq(Int), NEW q \in Seq(Int), Len(p) = 4, Len(q) = 4
  PROVE  /\ (p \o q)[1] = p[1] /\ (p \o q)[2] = p[2]
         /\ (p \o q)[3] = p[3] /\ (p \o q)[4] = p[4]
         /\ (p \o q)[5] = q[1] /\ (p \o q)[6] = q[2]
         /\ (p \o q)[7] = q[3] /\ (p \o q)[8] = q[4]
<1> DEFINE r == p \o q
<1>1. \A k \in 1 .. Len(p) + Len(q) : r[k] = IF k <= Len(p) THEN p[k] ELSE q[k - Len(p)]
  BY ConcatProperties, Zenon
<1> HIDE DEF r
<1>2. \A k \in 1 .. 8 : r[k] = IF k <= 4 THEN p[k] ELSE q[k - 4]
  BY <1>1
<1>3. r[1] = p[1] /\ r[2] = p[2] /\ r[3] = p[3] /\ r[4] = p[4]
  BY <1>2
<1>4. r[5] = q[1] /\ r[6] = q[2] /\ r[7] = q[3] /\ r[8] = q[4]
  BY <1>2
<1> QED
  BY <1>3, <1>4 DEF r

LEMMA FourLong ==
  ASSUME NEW i \in Int
  PROVE  packi32(i) \in Seq(Int) /\ Len(packi32(i)) = 4
<1> DEFINE s1 == Shift(i)
           s2 == Shift(s1)
           s3 == Shift(s2)
<1>1. s1 \in Int /\ s2 \in Int /\ s3 \in Int
  BY DivMod
<1>2. Low(s3) \in Int /\ Low(s2) \in Int /\ Low(s1) \in Int /\ Low(i) \in Int
  BY <1>1, DivMod
<1>3. /\ <<Low(s3), Low(s2)>> \in Seq(Int) /\ Len(<<Low(s3), Low(s2)>>) = 2
      /\ <<Low(s1), Low(i)>> \in Seq(Int) /\ Len(<<Low(s1), Low(i)>>) = 2
  BY <1>2
<1>4. packi32(i) = <<Low(s3), Low(s2)>> \o <<Low(s1), Low(i)>>
  BY DEF packi32, packi16
<1> HIDE DEF s1, s2, s3
<1> QED
  BY <1>3, <1>4

LEMMA EightBytes ==
  ASSUME NEW i \in Int
  PROVE  Holds(i, unpacku64(packi64(i)),
               Base * Base * Base * Base * Base * Base * Base * Base)
<1> DEFINE s1 == Shift(i)
           s2 == Shift(s1)
           s3 == Shift(s2)
           s4 == Shift(s3)
           p  == packi32(s4)
           q  == packi32(i)
           u4 == unpacku32(p)
<1>1. s1 \in Int /\ s2 \in Int /\ s3 \in Int /\ s4 \in Int /\ Base \in Nat
  BY DivMod, BaseIsEven
<1>2. Holds(s4, u4, Base * Base * Base * Base)
  BY <1>1, FourBytes
<1>3. /\ p \in Seq(Int) /\ Len(p) = 4 /\ q \in Seq(Int) /\ Len(q) = 4
  BY <1>1, FourLong
<1>4. packi64(i) = p \o q
  BY DEF packi64
<1>5. /\ packi64(i)[1] = p[1] /\ packi64(i)[2] = p[2]
      /\ packi64(i)[3] = p[3] /\ packi64(i)[4] = p[4]
      /\ packi64(i)[5] = q[1] /\ packi64(i)[6] = q[2]
      /\ packi64(i)[7] = q[3] /\ packi64(i)[8] = q[4]
  <2> HIDE DEF p, q
  <2>1. /\ (p \o q)[1] = p[1] /\ (p \o q)[2] = p[2]
        /\ (p \o q)[3] = p[3] /\ (p \o q)[4] = p[4]
        /\ (p \o q)[5] = q[1] /\ (p \o q)[6] = q[2]
        /\ (p \o q)[7] = q[3] /\ (p \o q)[8] = q[4]
    BY <1>3, Longs, Zenon
  <2> QED
    BY <1>4, <2>1, Zenon
<1>6. /\ q[1] = Low(s3) /\ q[2] = Low(s2) /\ q[3] = Low(s1) /\ q[4] = Low(i)
  <2>1. Low(s3) \in Int /\ Low(s2) \in Int /\ Low(s1) \in Int /\ Low(i) \in Int
    BY <1>1, DivMod
  <2>2. q = <<Low(s3), Low(s2)>> \o <<Low(s1), Low(i)>>
    BY DEF packi32, packi16
  <2> HIDE DEF q, s1, s2, s3
  <2> QED
    BY <2>1, <2>2, Halves
<1>7. unpacku64(packi64(i)) =
        (((u4 * Base + Low(s3)) * Base + Low(s2)) * Base + Low(s1)) * Base + Low(i)
  <2>1. unpacku32(packi64(i)) = u4
    BY <1>5 DEF unpacku32
  <2> HIDE DEF u4, p, q, s1, s2, s3
  <2> QED
    BY <1>5, <1>6, <2>1 DEF unpacku64
<1> HIDE DEF u4, p, q
<1>8. Holds(s3, u4 * Base + Low(s3), Base * Base * Base * Base * Base)
  BY <1>1, <1>2, OneByteMore
<1>9. Holds(s2, (u4 * Base + Low(s3)) * Base + Low(s2),
            Base * Base * Base * Base * Base * Base)
  BY <1>1, <1>8, OneByteMore
<1>10. Holds(s1, ((u4 * Base + Low(s3)) * Base + Low(s2)) * Base + Low(s1),
             Base * Base * Base * Base * Base * Base * Base)
  BY <1>1, <1>9, OneByteMore
<1>11. Holds(i, (((u4 * Base + Low(s3)) * Base + Low(s2)) * Base + Low(s1)) * Base + Low(i),
             Base * Base * Base * Base * Base * Base * Base * Base)
  BY <1>1, <1>10, OneByteMore
<1> QED
  BY <1>7, <1>11

-------------------------------------------------------------------------------
(* The items of a format. *)

\* The numbers that a letter's bytes can hold.
Fits(code, i) ==
  LET H2 == Half * Base
      H4 == Half * Base * Base * Base
      H8 == Half * Base * Base * Base * Base * Base * Base * Base
  IN CASE code = "c" -> i \in -Half .. Half - 1
       [] code = "C" -> i \in 0 .. Base - 1
       [] code = "h" -> i \in -H2 .. H2 - 1
       [] code = "H" -> i \in 0 .. Base * Base - 1
       [] code = "l" -> i \in -H4 .. H4 - 1
       [] code = "L" -> i \in 0 .. Base * Base * Base * Base - 1
       [] code = "q" -> i \in -H8 .. H8 - 1
       [] code = "Q" -> i \in 0 .. Base * Base * Base * Base * Base * Base * Base * Base - 1

\* Each limit of Signed is half of what the bytes can hold.
LEMMA Widths ==
  /\ Base * Base = 2 * (Half * Base)
  /\ Base * Base * Base * Base = 2 * (Half * Base * Base * Base)
  /\ Base * Base * Base * Base * Base * Base * Base * Base =
       2 * (Half * Base * Base * Base * Base * Base * Base * Base)
  /\ Base * Base \in Nat /\ Half * Base \in Nat
  /\ Base * Base * Base * Base \in Nat /\ Half * Base * Base * Base \in Nat
  /\ Base * Base * Base * Base * Base * Base * Base * Base \in Nat
  /\ Half * Base * Base * Base * Base * Base * Base * Base \in Nat
<1>1. Base \in Nat /\ Half \in Nat /\ Base = 2 * Half
  BY BaseIsEven
<1>2. \A a \in Nat, b \in Nat : (2 * a) * b = 2 * (a * b) /\ a * b \in Nat
  OBVIOUS
<1>3. Base * Base = 2 * (Half * Base) /\ Half * Base \in Nat /\ Base * Base \in Nat
  BY <1>1, <1>2
<1>4. /\ Base * Base * Base = 2 * (Half * Base * Base)
      /\ Half * Base * Base \in Nat /\ Base * Base * Base \in Nat
  BY <1>1, <1>2, <1>3
<1> DEFINE H3 == Half * Base * Base
           B3 == Base * Base * Base
<1> HIDE DEF H3, B3
<1>5. /\ B3 * Base = 2 * (H3 * Base) /\ H3 * Base \in Nat /\ B3 * Base \in Nat
  BY <1>1, <1>2, <1>4 DEF H3, B3
<1> DEFINE H4 == H3 * Base
           B4 == B3 * Base
<1> HIDE DEF H4, B4
<1>6. /\ B4 * Base = 2 * (H4 * Base) /\ H4 * Base \in Nat /\ B4 * Base \in Nat
  BY <1>1, <1>2, <1>5 DEF H4, B4
<1> DEFINE H5 == H4 * Base
           B5 == B4 * Base
<1> HIDE DEF H5, B5
<1>7. /\ B5 * Base = 2 * (H5 * Base) /\ H5 * Base \in Nat /\ B5 * Base \in Nat
  BY <1>1, <1>2, <1>6 DEF H5, B5
<1> DEFINE H6 == H5 * Base
           B6 == B5 * Base
<1> HIDE DEF H6, B6
<1>8. /\ B6 * Base = 2 * (H6 * Base) /\ H6 * Base \in Nat /\ B6 * Base \in Nat
  BY <1>1, <1>2, <1>7 DEF H6, B6
<1> DEFINE H7 == H6 * Base
           B7 == B6 * Base
<1> HIDE DEF H7, B7
<1>9. /\ B7 * Base = 2 * (H7 * Base) /\ H7 * Base \in Nat /\ B7 * Base \in Nat
  BY <1>1, <1>2, <1>8 DEF H7, B7
<1>10. /\ B7 * Base = Base * Base * Base * Base * Base * Base * Base * Base
       /\ H7 * Base = Half * Base * Base * Base * Base * Base * Base * Base
       /\ B3 * Base = Base * Base * Base * Base
       /\ H3 * Base = Half * Base * Base * Base
  BY Zenon DEF B7, B6, B5, B4, B3, H7, H6, H5, H4, H3
<1> QED
  BY <1>3, <1>5, <1>9, <1>10, Zenon

\* pack.c:288-345 and 411-496: what unpack reads of a number that pack stored is
\* that number, for each letter, every number its bytes can hold and bytes of
\* any even number of values.
THEOREM NumbersRoundTrip ==
  ASSUME NEW item,
         item.code \in {"c", "C", "h", "H", "l", "L", "q", "Q"},
         NEW value \in Int, Fits(item.code, value)
  PROVE  UnpackItem(item, PackItem(item.code, value)) = value
<1>1. CASE item.code = "c"
  <2>1. value \in -(Half) .. Half - 1
    BY <1>1 DEF Fits
  <2>2. Holds(value, Low(value), Base)
    BY OneByte
  <2>3. Signed(Low(value), Half) = value
    BY <2>1, <2>2, Widths, BaseIsEven, SignedFits
  <2>4. /\ PackItem(item.code, value) = <<Low(value)>>
        /\ UnpackItem(item, <<Low(value)>>) = Signed(Low(value), Half)
    BY <1>1 DEF PackItem, UnpackItem
  <2> QED
    BY <2>3, <2>4
<1>2. CASE item.code = "C"
  <2>1. value \in 0 .. Base - 1
    BY <1>2 DEF Fits
  <2>2. Holds(value, Low(value), Base)
    BY OneByte
  <2>3. Low(value) = value
    BY <2>1, <2>2, Widths, BaseIsEven, UnsignedFits
  <2>4. /\ PackItem(item.code, value) = <<Low(value)>>
        /\ UnpackItem(item, <<Low(value)>>) = Low(value)
    BY <1>2 DEF PackItem, UnpackItem
  <2> QED
    BY <2>3, <2>4
<1>3. CASE item.code = "h"
  <2>1. value \in -(Half * Base) .. Half * Base - 1
    BY <1>3 DEF Fits
  <2>2. Holds(value, unpacku16(packi16(value)), Base * Base)
    BY TwoBytes
  <2>3. Signed(unpacku16(packi16(value)), Half * Base) = value
    BY <2>1, <2>2, Widths, BaseIsEven, SignedFits
  <2>4. /\ PackItem(item.code, value) = packi16(value)
        /\ UnpackItem(item, packi16(value)) = Signed(unpacku16(packi16(value)), Half * Base)
    BY <1>3 DEF PackItem, UnpackItem, unpacki16
  <2> QED
    BY <2>3, <2>4
<1>4. CASE item.code = "H"
  <2>1. value \in 0 .. Base * Base - 1
    BY <1>4 DEF Fits
  <2>2. Holds(value, unpacku16(packi16(value)), Base * Base)
    BY TwoBytes
  <2>3. unpacku16(packi16(value)) = value
    BY <2>1, <2>2, Widths, BaseIsEven, UnsignedFits
  <2>4. /\ PackItem(item.code, value) = packi16(value)
        /\ UnpackItem(item, packi16(value)) = unpacku16(packi16(value))
    BY <1>4 DEF PackItem, UnpackItem
  <2> QED
    BY <2>3, <2>4
<1>5. CASE item.code = "l"
  <2>1. value \in -(Half * Base * Base * Base) .. Half * Base * Base * Base - 1
    BY <1>5 DEF Fits
  <2>2. Holds(value, unpacku32(packi32(value)), Base * Base * Base * Base)
    BY FourBytes
  <2>3. Signed(unpacku32(packi32(value)), Half * Base * Base * Base) = value
    BY <2>1, <2>2, Widths, BaseIsEven, SignedFits
  <2>4. /\ PackItem(item.code, value) = packi32(value)
        /\ UnpackItem(item, packi32(value)) =
             Signed(unpacku32(packi32(value)), Half * Base * Base * Base)
    BY <1>5 DEF PackItem, UnpackItem, unpacki32
  <2> QED
    BY <2>3, <2>4
<1>6. CASE item.code = "L"
  <2>1. value \in 0 .. Base * Base * Base * Base - 1
    BY <1>6 DEF Fits
  <2>2. Holds(value, unpacku32(packi32(value)), Base * Base * Base * Base)
    BY FourBytes
  <2>3. unpacku32(packi32(value)) = value
    BY <2>1, <2>2, Widths, BaseIsEven, UnsignedFits
  <2>4. /\ PackItem(item.code, value) = packi32(value)
        /\ UnpackItem(item, packi32(value)) = unpacku32(packi32(value))
    BY <1>6 DEF PackItem, UnpackItem
  <2> QED
    BY <2>3, <2>4
<1>7. CASE item.code = "q"
  <2>1. value \in -(Half * Base * Base * Base * Base * Base * Base * Base) ..
         Half * Base * Base * Base * Base * Base * Base * Base - 1
    BY <1>7 DEF Fits
  <2>2. Holds(value, unpacku64(packi64(value)),
         Base * Base * Base * Base * Base * Base * Base * Base)
    BY EightBytes
  <2>3. Signed(unpacku64(packi64(value)),
         Half * Base * Base * Base * Base * Base * Base * Base) = value
    BY <2>1, <2>2, Widths, BaseIsEven, SignedFits
  <2>4. /\ PackItem(item.code, value) = packi64(value)
        /\ UnpackItem(item, packi64(value)) =
             Signed(unpacku64(packi64(value)), Half * Base * Base * Base * Base * Base * Base * Base)
    BY <1>7 DEF PackItem, UnpackItem, unpacki64
  <2> QED
    BY <2>3, <2>4
<1>8. CASE item.code = "Q"
  <2>1. value \in 0 .. Base * Base * Base * Base * Base * Base * Base * Base - 1
    BY <1>8 DEF Fits
  <2>2. Holds(value, unpacku64(packi64(value)),
         Base * Base * Base * Base * Base * Base * Base * Base)
    BY EightBytes
  <2>3. unpacku64(packi64(value)) = value
    BY <2>1, <2>2, Widths, BaseIsEven, UnsignedFits
  <2>4. /\ PackItem(item.code, value) = packi64(value)
        /\ UnpackItem(item, packi64(value)) = unpacku64(packi64(value))
    BY <1>8 DEF PackItem, UnpackItem
  <2> QED
    BY <2>3, <2>4
<1> QED
  BY <1>1, <1>2, <1>3, <1>4, <1>5, <1>6, <1>7, <1>8

\* The characters behind the two bytes of a length.
LEMMA Behind ==
  ASSUME NEW two \in Seq(Int), Len(two) = 2, NEW value \in Seq(Int),
         NEW m \in 0 .. Len(value)
  PROVE  SubSeq(two \o value, 3, 2 + m) = SubSeq(value, 1, m)
<1> DEFINE all == two \o value
<1>1. /\ all \in Seq(Int) /\ Len(all) = 2 + Len(value)
      /\ \A k \in 1 .. Len(two) + Len(value) :
           all[k] = IF k <= Len(two) THEN two[k] ELSE value[k - Len(two)]
  <2>1. /\ all \in Seq(Int) /\ Len(all) = Len(two) + Len(value)
        /\ \A k \in 1 .. Len(two) + Len(value) :
             all[k] = IF k <= Len(two) THEN two[k] ELSE value[k - Len(two)]
    BY ConcatProperties, Zenon
  <2> QED
    BY <2>1
<1> HIDE DEF all
<1>2. \A k \in 1 .. m : all[k + 2] = value[k]
  <2>1. SUFFICES ASSUME NEW k \in 1 .. m PROVE all[k + 2] = value[k]
    OBVIOUS
  <2>2. Len(two) = 2 /\ Len(value) \in Nat /\ k \in Int /\ k >= 1 /\ k <= Len(value)
    OBVIOUS
  <2>3. k + 2 \in 1 .. Len(two) + Len(value) /\ ~ (k + 2 <= Len(two)) /\ (k + 2) - Len(two) = k
    BY <2>2
  <2>4. all[k + 2] = value[(k + 2) - Len(two)]
    BY <1>1, <2>3, Zenon
  <2> QED
    BY <2>3, <2>4
<1>3. SubSeq(all, 3, 2 + m) = [k \in 1 .. m |-> all[k + 2]]
  BY <1>1
<1>4. SubSeq(value, 1, m) = [k \in 1 .. m |-> value[k]]
  OBVIOUS
<1> QED
  BY <1>2, <1>3, <1>4 DEF all

\* pack.c:368-376 and 505-517: a string comes back as it was, or, if it is longer
\* than the number in front of the s, as its first characters, one less than that
\* number, so that they fit with their end.
THEOREM StringsRoundTrip ==
  ASSUME NEW item, item.code = "s", item.max \in Nat,
         NEW value \in Seq(Int), Len(value) < Base * Base
  PROVE  UnpackItem(item, PackItem("s", value)) = Stored(item, value)
<1> DEFINE len == Len(value)
           two == packi16(len)
           cut == IF item.max > 0 /\ len > item.max THEN item.max - 1 ELSE len
<1>1. len \in Int /\ len \in 0 .. Base * Base - 1
  BY Widths
<1>2. unpacku16(two) = len
  <2> HIDE DEF len
  <2>1. Holds(len, unpacku16(two), Base * Base)
    BY <1>1, TwoBytes
  <2> QED
    BY <1>1, <2>1, Widths, UnsignedFits
<1>3. two \in Seq(Int) /\ Len(two) = 2
  <2>1. Low(len) \in Int /\ Low(Shift(len)) \in Int
    BY <1>1, DivMod
  <2> QED
    BY <2>1 DEF packi16
<1>4. unpacku16(two \o value) = len
  <2> HIDE DEF two
  <2>1. \A k \in 1 .. Len(two) + Len(value) :
          (two \o value)[k] = IF k <= Len(two) THEN two[k] ELSE value[k - Len(two)]
    BY <1>3, ConcatProperties, Zenon
  <2> DEFINE all == two \o value
  <2> HIDE DEF all
  <2>2. Len(value) \in Nat
    OBVIOUS
  <2>3. \A k \in 1 .. Len(two) + Len(value) :
          all[k] = IF k <= Len(two) THEN two[k] ELSE value[k - Len(two)]
    BY <2>1 DEF all
  <2>4. all[1] = two[1] /\ all[2] = two[2]
    BY <1>3, <2>2, <2>3
  <2> QED
    BY <1>2, <2>4 DEF unpacku16, all
<1>5. cut \in 0 .. len
  BY <1>1
<1>6. SubSeq(two \o value, 3, 2 + cut) = SubSeq(value, 1, cut)
  <2> HIDE DEF two, cut
  <2> QED
    BY <1>3, <1>5, Behind
<1>7. UnpackItem(item, PackItem("s", value)) = SubSeq(two \o value, 3, 2 + cut)
  <2>1. PackItem("s", value) = two \o value
    BY DEF PackItem
  <2>2. UnpackItem(item, two \o value) = UnpackString(two \o value, item.max)
    BY DEF UnpackItem
  <2>3. UnpackString(two \o value, item.max) = SubSeq(two \o value, 3, 2 + cut)
    BY <1>4 DEF UnpackString
  <2> QED
    BY <2>1, <2>2, <2>3
<1>8. SubSeq(value, 1, cut) = Stored(item, value)
  <2>1. CASE item.max > 0 /\ len > item.max
    BY <2>1 DEF Stored
  <2>2. CASE ~(item.max > 0 /\ len > item.max)
    <3>1. SubSeq(value, 1, len) = value
      OBVIOUS
    <3> QED
      BY <2>2, <3>1 DEF Stored
  <2> QED
    BY <2>1, <2>2
<1> QED
  BY <1>6, <1>7, <1>8

-------------------------------------------------------------------------------
(* Whole formats.  packed and rest are functions over the items of a       *)
(* format; what holds of all their values is shown by looking at the       *)
(* least item for which it would not.                                      *)

LEMMA LeastNumber ==
  ASSUME NEW T, T \subseteq Nat, T # {}
  PROVE  \E n \in T : \A m \in T : n <= m
<1>1. IsWellFoundedOn({ss \in Nat \X Nat : ss[1] < ss[2]}, Nat)
  BY NatLessThanWellFounded DEF OpToRel
<1>2. PICK n \in T : \A m \in T : ~ (<<m, n>> \in {ss \in Nat \X Nat : ss[1] < ss[2]})
  BY <1>1, WFMin
<1>3. ASSUME NEW m \in T PROVE ~ (m < n)
  <2>1. <<m, n>> \in Nat \X Nat
    OBVIOUS
  <2>2. ~ (<<m, n>>[1] < <<m, n>>[2])
    BY <1>2, <2>1
  <2> QED
    BY <2>2
<1>4. n \in Nat /\ \A m \in T : m \in Nat
  OBVIOUS
<1>5. \A m \in T : n <= m
  BY <1>3, <1>4
<1> QED
  BY <1>5

\* f is what comes out when items are put behind each other.
Chain(f, items, n) ==
  f = [i \in 0 .. n |-> IF i = 0 THEN <<>> ELSE f[i - 1] \o items[i]]

\* One item more.
Grown(g, f, longer, n) ==
  /\ Chain(g, longer, n + 1)
  /\ \A i \in 0 .. n : g[i] = f[i]
  /\ g[n + 1] = f[n] \o longer[n + 1]

LEMMA ChainGrows ==
  ASSUME NEW n \in Nat, NEW items, NEW f, Chain(f, items, n),
         NEW longer, \A i \in 1 .. n : longer[i] = items[i]
  PROVE  \E g : Grown(g, f, longer, n)
<1> DEFINE k == n + 1
           g == [i \in 0 .. k |-> IF i = k THEN f[n] \o longer[k] ELSE f[i]]
           G(i) == IF i = 0 THEN <<>> ELSE g[i - 1] \o longer[i]
<1>1. \A i \in 0 .. n : f[i] = IF i = 0 THEN <<>> ELSE f[i - 1] \o items[i]
  BY Zenon DEF Chain
<1>2. \A i \in 0 .. n : g[i] = f[i]
  OBVIOUS
<1>3. g[k] = f[n] \o longer[k]
  OBVIOUS
<1>4. DOMAIN g = 0 .. k /\ g = [i \in 0 .. k |-> g[i]]
  OBVIOUS
<1> HIDE DEF g
<1>5. ASSUME NEW i \in 0 .. k PROVE g[i] = G(i)
  <2>1. CASE i = k
    <3>1. i - 1 = n /\ n \in 0 .. n /\ i # 0
      BY <2>1
    <3>2. g[i - 1] = f[n]
      BY <1>2, <3>1
    <3> QED
      BY <1>3, <2>1, <3>1, <3>2
  <2>2. CASE i # k /\ i # 0
    <3>1. i - 1 \in 0 .. n /\ i \in 0 .. n /\ i \in 1 .. n
      BY <2>2
    <3>2. g[i] = f[i] /\ g[i - 1] = f[i - 1] /\ longer[i] = items[i]
      BY <1>2, <3>1
    <3> QED
      BY <1>1, <2>2, <3>1, <3>2
  <2>3. CASE i = 0
    <3>1. 0 \in 0 .. n
      OBVIOUS
    <3>2. g[0] = <<>>
      BY <1>1, <1>2, <3>1
    <3> QED
      BY <2>3, <3>2
  <2> QED
    BY <2>1, <2>2, <2>3
<1>6. g = [i \in 0 .. k |-> G(i)]
  <2> HIDE DEF G
  <2>1. [i \in 0 .. k |-> g[i]] = [i \in 0 .. k |-> G(i)]
    BY <1>5
  <2> QED
    BY <1>4, <2>1
<1>7. Chain(g, longer, k)
  BY <1>6 DEF Chain
<1> QED
  BY <1>2, <1>3, <1>7 DEF Grown

LEMMA ChainExists ==
  ASSUME NEW n \in Nat, NEW items
  PROVE  \E f : Chain(f, items, n)
<1> DEFINE T == {k \in 0 .. n : ~ \E f : Chain(f, items, k)}
<1>1. SUFFICES ASSUME T # {} PROVE FALSE
  <2>1. n \in 0 .. n
    OBVIOUS
  <2> QED
    BY <1>1, <2>1
<1>2. PICK k \in T : \A m \in T : k <= m
  <2>1. T \subseteq Nat
    OBVIOUS
  <2> HIDE DEF T
  <2> QED
    BY <1>1, <2>1, LeastNumber
<1>3. k \in 0 .. n /\ ~ \E f : Chain(f, items, k)
  BY <1>2
<1>4. CASE k = 0
  <2> DEFINE f == [i \in 0 .. 0 |-> <<>>]
  <2>1. Chain(f, items, 0)
    BY DEF Chain
  <2> QED
    BY <1>3, <1>4, <2>1
<1>5. CASE k # 0
  <2>1. k - 1 \in 0 .. n /\ ~ (k <= k - 1) /\ k - 1 \in Nat /\ (k - 1) + 1 = k
    BY <1>3, <1>5
  <2>2. k - 1 \notin T
    BY <1>2, <2>1
  <2>3. PICK g : Chain(g, items, k - 1)
    BY <2>1, <2>2
  <2>4. \E f : Chain(f, items, (k - 1) + 1)
    <3>1. \A i \in 1 .. k - 1 : items[i] = items[i]
      OBVIOUS
    <3>2. PICK f : Grown(f, g, items, k - 1)
      BY <2>1, <2>3, <3>1, ChainGrows
    <3> QED
      BY <3>2 DEF Grown
  <2> QED
    BY <1>3, <2>1, <2>4
<1> QED
  BY <1>4, <1>5

LEMMA Associative ==
  ASSUME NEW a \in Seq(Int), NEW b \in Seq(Int), NEW c \in Seq(Int)
  PROVE  (a \o b) \o c = a \o (b \o c)
<1>1. (a \o b) \o c \in Seq(Int) /\ a \o (b \o c) \in Seq(Int)
  OBVIOUS
<1>2. /\ Len((a \o b) \o c) = Len(a) + Len(b) + Len(c)
      /\ Len(a \o (b \o c)) = Len(a) + Len(b) + Len(c)
  OBVIOUS
<1>3. ASSUME NEW i \in 1 .. Len(a) + Len(b) + Len(c)
      PROVE  ((a \o b) \o c)[i] = (a \o (b \o c))[i]
  BY SMTT(20)
<1> QED
  BY <1>1, <1>2, <1>3, SeqEqual

\* whole is a and then b.
Splits(whole, a, b) == b \in Seq(Int) /\ whole = a \o b

\* Every part of the chain is a sequence, and the beginning of each longer part.
LEMMA ChainParts ==
  ASSUME NEW n \in Nat, NEW items \in [1 .. n -> Seq(Int)], NEW f, Chain(f, items, n)
  PROVE  /\ \A i \in 0 .. n : f[i] \in Seq(Int)
         /\ \A i \in 0 .. n : \A j \in i .. n : \E more : Splits(f[j], f[i], more)
<1>1. \A i \in 0 .. n : f[i] = IF i = 0 THEN <<>> ELSE f[i - 1] \o items[i]
  BY Zenon DEF Chain
<1>2. ASSUME NEW i \in 0 .. n, f[i] \notin Seq(Int) PROVE FALSE
  <2> DEFINE T == {k \in 0 .. n : f[k] \notin Seq(Int)}
  <2>1. T \subseteq Nat /\ T # {}
    BY <1>2
  <2>2. PICK k \in T : \A m \in T : k <= m
    <3> HIDE DEF T
    <3> QED
      BY <2>1, LeastNumber
  <2>3. k \in 0 .. n /\ f[k] \notin Seq(Int)
    BY <2>2
  <2>4. CASE k = 0
    <3>1. f[0] = <<>> /\ <<>> \in Seq(Int)
      BY <1>1, <2>3, <2>4, EmptySeq
    <3> QED
      BY <2>3, <2>4, <3>1
  <2>5. CASE k # 0
    <3>1. k - 1 \in 0 .. n /\ ~ (k <= k - 1) /\ k \in 1 .. n
      BY <2>3, <2>5
    <3>2. f[k - 1] \in Seq(Int) /\ items[k] \in Seq(Int)
      BY <2>2, <3>1
    <3>3. f[k - 1] \o items[k] \in Seq(Int)
      BY <3>2, ConcatProperties
    <3>4. f[k] = f[k - 1] \o items[k]
      BY <1>1, <2>3, <2>5
    <3> QED
      BY <2>3, <3>3, <3>4
  <2> QED
    BY <2>4, <2>5
<1>3. ASSUME NEW i \in 0 .. n, NEW j \in i .. n PROVE \E more : Splits(f[j], f[i], more)
  <2> DEFINE T == {k \in i .. n : ~ \E more : Splits(f[k], f[i], more)}
  <2>1. SUFFICES ASSUME T # {} PROVE FALSE
    <3>1. j \in T \/ \E more : Splits(f[j], f[i], more)
      OBVIOUS
    <3> HIDE DEF T
    <3> QED
      BY <2>1, <3>1
  <2>2. PICK k \in T : \A m \in T : k <= m
    <3>1. T \subseteq Nat
      OBVIOUS
    <3> HIDE DEF T
    <3> QED
      BY <2>1, <3>1, LeastNumber
  <2>3. k \in i .. n /\ ~ \E more : Splits(f[k], f[i], more)
    BY <2>2
  <2>4. f[i] \in Seq(Int)
    BY <1>2
  <2>5. CASE k = i
    <3>1. <<>> \in Seq(Int) /\ f[i] = f[i] \o <<>>
      BY <2>4, ConcatEmptySeq
    <3> QED
      BY <2>3, <2>5, <3>1 DEF Splits
  <2>6. CASE k # i
    <3>1. k - 1 \in i .. n /\ ~ (k <= k - 1) /\ k \in 1 .. n /\ k # 0 /\ k \in 0 .. n
      BY <2>3, <2>6
    <3>2. PICK more \in Seq(Int) : f[k - 1] = f[i] \o more
      <4>1. \E more : Splits(f[k - 1], f[i], more)
        BY <2>2, <3>1
      <4> QED
        BY <4>1 DEF Splits
    <3>3. items[k] \in Seq(Int)
      BY <3>1
    <3>4. f[k] = (f[i] \o more) \o items[k]
      BY <1>1, <3>1, <3>2
    <3>5. more \o items[k] \in Seq(Int)
      BY <3>3, ConcatProperties
    <3>6. (f[i] \o more) \o items[k] = f[i] \o (more \o items[k])
      BY <2>4, <3>3, Associative
    <3> QED
      BY <2>3, <3>4, <3>5, <3>6 DEF Splits
  <2> QED
    BY <2>5, <2>6
<1> QED
  BY <1>2, <1>3

\* What pack stores of each item.
ItemBytes(format, args) == [i \in 1 .. Len(format) |-> PackItem(format[i].code, args[i])]

LEMMA PackIsChain ==
  ASSUME NEW format, Len(format) \in Nat, NEW args
  PROVE  \E f : /\ Chain(f, ItemBytes(format, args), Len(format))
                /\ pack(format, args) = f[Len(format)]
<1> DEFINE n == Len(format)
           Ok(f) == f = [i \in 0 .. n |->
                          IF i = 0 THEN <<>>
                          ELSE f[i - 1] \o PackItem(format[i].code, args[i])]
           packed == CHOOSE f : Ok(f)
<1>1. ASSUME NEW f PROVE Chain(f, ItemBytes(format, args), n) <=> Ok(f)
  <2>1. \A i \in 0 .. n : i # 0 =>
          ItemBytes(format, args)[i] = PackItem(format[i].code, args[i])
    BY DEF ItemBytes
  <2>2. [i \in 0 .. n |-> IF i = 0 THEN <<>> ELSE f[i - 1] \o ItemBytes(format, args)[i]]
        = [i \in 0 .. n |-> IF i = 0 THEN <<>>
                            ELSE f[i - 1] \o PackItem(format[i].code, args[i])]
    BY <2>1
  <2> QED
    BY <2>2, Zenon DEF Chain
<1>2. \E f : Ok(f)
  BY <1>1, ChainExists
<1>3. Ok(packed)
  <2> HIDE DEF Ok
  <2> QED
    BY <1>2
<1>4. pack(format, args) = packed[n]
  BY DEF pack
<1> QED
  <2> HIDE DEF packed, Ok, n
  <2> QED
    BY <1>1, <1>3, <1>4 DEF n

LEMMA Joined ==
  ASSUME NEW b \in Seq(Int), NEW more \in Seq(Int)
  PROVE  b \o more \in Seq(Int) /\ Len(b \o more) = Len(b) + Len(more)
OBVIOUS

\* The first bytes of a buffer, whatever follows them.
LEMMA Front ==
  ASSUME NEW b \in Seq(Int), NEW more \in Seq(Int)
  PROVE  \A k \in 1 .. Len(b) : (b \o more)[k] = b[k]
OBVIOUS

\* A value that pack and unpack are made for.
Storable(item, value) ==
  \/ /\ item.code \in {"c", "C", "h", "H", "l", "L", "q", "Q"}
     /\ value \in Int /\ Fits(item.code, value)
  \/ /\ item.code = "s" /\ item.max \in Nat
     /\ value \in Seq(Int) /\ Len(value) < Base * Base

\* How many bytes each letter takes.
LEMMA BytesOfItem ==
  ASSUME NEW item, NEW value, Storable(item, value)
  PROVE  LET b == PackItem(item.code, value) IN
         /\ b \in Seq(Int)
         /\ item.code \in {"c", "C"} => Len(b) = 1
         /\ item.code \in {"h", "H"} => Len(b) = 2
         /\ item.code \in {"l", "L"} => Len(b) = 4
         /\ item.code \in {"q", "Q"} => Len(b) = 8
         /\ item.code = "s" => Len(b) = 2 + Len(value) /\ unpacku16(b) = Len(value)
<1> DEFINE b == PackItem(item.code, value)
<1>1. CASE item.code \in {"c", "C"}
  <2>1. value \in Int /\ b = <<Low(value)>>
    BY <1>1 DEF Storable, PackItem
  <2>2. Low(value) \in Int
    BY <2>1, DivMod
  <2>3. b \in Seq(Int) /\ Len(b) = 1
    BY <2>1, <2>2
  <2> QED
    BY <1>1, <2>3
<1>2. CASE item.code \in {"h", "H"}
  <2>1. value \in Int /\ b = <<Low(Shift(value)), Low(value)>>
    BY <1>2 DEF Storable, PackItem, packi16
  <2>2. Low(value) \in Int /\ Low(Shift(value)) \in Int
    BY <2>1, DivMod
  <2>3. b \in Seq(Int) /\ Len(b) = 2
    BY <2>1, <2>2
  <2> QED
    BY <1>2, <2>3
<1>3. CASE item.code \in {"l", "L"}
  <2>1. value \in Int /\ b = packi32(value)
    BY <1>3 DEF Storable, PackItem
  <2>2. b \in Seq(Int) /\ Len(b) = 4
    BY <2>1, FourLong
  <2> QED
    BY <1>3, <2>2
<1>4. CASE item.code \in {"q", "Q"}
  <2> DEFINE high == packi32(Shift(Shift(Shift(Shift(value)))))
  <2>1. value \in Int /\ b = high \o packi32(value)
    BY <1>4 DEF Storable, PackItem, packi64
  <2>2. Shift(Shift(Shift(Shift(value)))) \in Int
    BY <2>1, DivMod
  <2>3. /\ high \in Seq(Int) /\ Len(high) = 4
        /\ packi32(value) \in Seq(Int) /\ Len(packi32(value)) = 4
    BY <2>1, <2>2, FourLong
  <2>4. b \in Seq(Int) /\ Len(b) = 8
    <3>1. high \o packi32(value) \in Seq(Int) /\ Len(high \o packi32(value)) = 8
      <4>1. /\ high \o packi32(value) \in Seq(Int)
            /\ Len(high \o packi32(value)) = Len(high) + Len(packi32(value))
        <5> HIDE DEF high
        <5> QED
          BY <2>3, Joined
      <4>2. Len(high) + Len(packi32(value)) = 8
        <5> HIDE DEF high
        <5> QED
          BY <2>3
      <4> QED
        BY <4>1, <4>2
    <3> QED
      BY <2>1, <3>1
  <2> QED
    BY <1>4, <2>4
<1>5. CASE item.code = "s"
  <2> DEFINE two == packi16(Len(value))
  <2>1. value \in Seq(Int) /\ Len(value) < Base * Base /\ b = two \o value
    BY <1>5 DEF Storable, PackItem
  <2>2. Len(value) \in Int /\ Len(value) \in 0 .. Base * Base - 1
    BY <2>1, Widths
  <2>3. Low(Len(value)) \in Int /\ Low(Shift(Len(value))) \in Int
    BY <2>2, DivMod
  <2>4. two \in Seq(Int) /\ Len(two) = 2
    BY <2>3 DEF packi16
  <2>5. unpacku16(two) = Len(value)
    BY <2>2, TwoBytes, Widths, UnsignedFits
  <2>6. b[1] = two[1] /\ b[2] = two[2] /\ b \in Seq(Int) /\ Len(b) = 2 + Len(value)
    <3> DEFINE all == two \o value
    <3>1. all[1] = two[1] /\ all[2] = two[2] /\ all \in Seq(Int) /\ Len(all) = 2 + Len(value)
      <4> HIDE DEF two
      <4>1. all \in Seq(Int) /\ Len(all) = 2 + Len(value)
        BY <2>1, <2>4, Joined
      <4>2. \A k \in 1 .. Len(two) : all[k] = two[k]
        BY <2>1, <2>4, Front
      <4> QED
        BY <2>4, <4>1, <4>2
    <3> QED
      BY <2>1, <3>1
  <2>7. unpacku16(b) = Len(value)
    BY <2>5, <2>6 DEF unpacku16
  <2> QED
    BY <1>5, <2>6, <2>7
<1> QED
  BY <1>1, <1>2, <1>3, <1>4, <1>5 DEF Storable

\* unpack reads an item that pack stored, whatever follows it, and moves on to
\* what follows.
LEMMA ReadBack ==
  ASSUME NEW item, NEW value, Storable(item, value), NEW more \in Seq(Int)
  PROVE  LET b == PackItem(item.code, value) IN
         /\ UnpackItem(item, b \o more) = Stored(item, value)
         /\ ItemSize(item, b \o more) = Len(b)
<1> DEFINE b == PackItem(item.code, value)
           all == b \o more
<1>1. b \in Seq(Int)
  BY BytesOfItem
<1>2. \A k \in 1 .. Len(b) : all[k] = b[k]
  BY <1>1, Front
<1>3. item.code # "s" => UnpackItem(item, b) = Stored(item, value)
  BY NumbersRoundTrip DEF Storable, Stored
<1>4. CASE item.code \in {"c", "C"}
  <2>1. Len(b) = 1
    BY <1>4, BytesOfItem
  <2>2. all[1] = b[1]
    BY <1>2, <2>1
  <2>3. UnpackItem(item, all) = UnpackItem(item, b) /\ ItemSize(item, all) = 1
    <3> HIDE DEF all, b
    <3> QED
      BY <1>4, <2>2 DEF UnpackItem, ItemSize
  <2> QED
    BY <1>3, <1>4, <2>1, <2>3
<1>5. CASE item.code \in {"h", "H"}
  <2>1. Len(b) = 2
    BY <1>5, BytesOfItem
  <2>2. all[1] = b[1] /\ all[2] = b[2]
    BY <1>2, <2>1
  <2>3. UnpackItem(item, all) = UnpackItem(item, b) /\ ItemSize(item, all) = 2
    <3> HIDE DEF all, b
    <3>1. unpacku16(all) = unpacku16(b)
      BY <2>2 DEF unpacku16
    <3> QED
      BY <1>5, <3>1 DEF UnpackItem, ItemSize, unpacki16
  <2> QED
    BY <1>3, <1>5, <2>1, <2>3
<1>6. CASE item.code \in {"l", "L"}
  <2>1. Len(b) = 4
    BY <1>6, BytesOfItem
  <2>2. all[1] = b[1] /\ all[2] = b[2] /\ all[3] = b[3] /\ all[4] = b[4]
    BY <1>2, <2>1
  <2>3. UnpackItem(item, all) = UnpackItem(item, b) /\ ItemSize(item, all) = 4
    <3> HIDE DEF all, b
    <3>1. unpacku32(all) = unpacku32(b)
      BY <2>2 DEF unpacku32
    <3> QED
      BY <1>6, <3>1 DEF UnpackItem, ItemSize, unpacki32
  <2> QED
    BY <1>3, <1>6, <2>1, <2>3
<1>7. CASE item.code \in {"q", "Q"}
  <2>1. Len(b) = 8
    BY <1>7, BytesOfItem
  <2>2. /\ all[1] = b[1] /\ all[2] = b[2] /\ all[3] = b[3] /\ all[4] = b[4]
        /\ all[5] = b[5] /\ all[6] = b[6] /\ all[7] = b[7] /\ all[8] = b[8]
    BY <1>2, <2>1, SMTT(20)
  <2>3. UnpackItem(item, all) = UnpackItem(item, b) /\ ItemSize(item, all) = 8
    <3> HIDE DEF all, b
    <3>1. unpacku64(all) = unpacku64(b)
      BY <2>2 DEF unpacku64, unpacku32
    <3> QED
      BY <1>7, <3>1 DEF UnpackItem, ItemSize, unpacki64
  <2> QED
    BY <1>3, <1>7, <2>1, <2>3
<1>8. CASE item.code = "s"
  <2>1. /\ value \in Seq(Int) /\ Len(value) < Base * Base /\ item.max \in Nat
        /\ Len(b) = 2 + Len(value) /\ unpacku16(b) = Len(value)
    BY <1>8, BytesOfItem DEF Storable
  <2> DEFINE cut == IF item.max > 0 /\ Len(value) > item.max THEN item.max - 1 ELSE Len(value)
  <2>2. all[1] = b[1] /\ all[2] = b[2]
    BY <1>2, <2>1
  <2>3. unpacku16(all) = Len(value)
    BY <2>1, <2>2 DEF unpacku16
  <2>4. UnpackItem(item, all) = SubSeq(all, 3, 2 + cut)
    <3>1. UnpackItem(item, all) = UnpackString(all, item.max)
      BY <1>8 DEF UnpackItem
    <3> QED
      BY <2>3, <3>1 DEF UnpackString
  <2>5. UnpackItem(item, b) = SubSeq(b, 3, 2 + cut)
    <3>1. UnpackItem(item, b) = UnpackString(b, item.max)
      BY <1>8 DEF UnpackItem
    <3> QED
      BY <2>1, <3>1 DEF UnpackString
  <2>6. UnpackItem(item, b) = Stored(item, value)
    <3>1. UnpackItem(item, PackItem("s", value)) = Stored(item, value)
      BY <1>8, <2>1, StringsRoundTrip
    <3> QED
      BY <1>8, <3>1
  <2>7. SubSeq(all, 3, 2 + cut) = SubSeq(b, 3, 2 + cut)
    <3>1. cut \in 0 .. Len(value)
      BY <2>1
    <3> HIDE DEF all, b, cut
    <3>2. \A k \in 1 .. cut : all[k + 2] = b[k + 2]
      BY <1>2, <2>1, <3>1
    <3>3. SubSeq(all, 3, 2 + cut) = [k \in 1 .. cut |-> all[k + 2]]
      <4>1. cut \in Int /\ (2 + cut) - 3 + 1 = cut
        BY <3>1
      <4> QED
        BY <4>1
    <3>4. SubSeq(b, 3, 2 + cut) = [k \in 1 .. cut |-> b[k + 2]]
      <4>1. cut \in Int /\ (2 + cut) - 3 + 1 = cut
        BY <3>1
      <4> QED
        BY <4>1
    <3> QED
      BY <3>2, <3>3, <3>4
  <2>8. ItemSize(item, all) = Len(b)
    BY <1>8, <2>1, <2>3 DEF ItemSize
  <2> QED
    BY <2>4, <2>5, <2>6, <2>7, <2>8
<1>9. item.code \in {"c", "C", "h", "H", "l", "L", "q", "Q", "s"}
  BY DEF Storable
<1> QED
  BY <1>4, <1>5, <1>6, <1>7, <1>8, <1>9

LEMMA Back ==
  ASSUME NEW b \in Seq(Int), NEW more \in Seq(Int)
  PROVE  \A k \in 1 .. Len(more) : (b \o more)[Len(b) + k] = more[k]
OBVIOUS

LEMMA Beginning ==
  ASSUME NEW b \in Seq(Int), NEW more \in Seq(Int)
  PROVE  Len(b) \in 0 .. Len(b \o more) /\ b = SubSeq(b \o more, 1, Len(b))
<1> DEFINE whole == b \o more
<1>1. whole \in Seq(Int) /\ Len(whole) = Len(b) + Len(more) /\ Len(b) \in Nat /\ Len(more) \in Nat
  BY Joined
<1>2. \A k \in 1 .. Len(b) : whole[k] = b[k]
  BY Front
<1> HIDE DEF whole
<1> DEFINE start == SubSeq(whole, 1, Len(b))
<1>3. start \in Seq(Int) /\ Len(start) = Len(b) /\ \A k \in 1 .. Len(b) : start[k] = whole[k]
  BY <1>1
<1> HIDE DEF start
<1>4. b = start
  BY <1>2, <1>3, SeqEqual
<1> QED
  BY <1>1, <1>4 DEF whole, start

LEMMA CancelLeft ==
  ASSUME NEW a \in Seq(Int), NEW b \in Seq(Int), NEW c \in Seq(Int), a \o b = a \o c
  PROVE  b = c
<1>1. Len(a \o b) = Len(a) + Len(b) /\ Len(a \o c) = Len(a) + Len(c)
  BY Joined
<1>2. Len(b) = Len(c) /\ Len(a) \in Nat /\ Len(b) \in Nat
  BY <1>1
<1>3. ASSUME NEW i \in 1 .. Len(b) PROVE b[i] = c[i]
  <2>1. (a \o b)[Len(a) + i] = b[i]
    BY Back
  <2>2. i \in 1 .. Len(c)
    BY <1>2
  <2>3. (a \o c)[Len(a) + i] = c[i]
    BY <2>2, Back
  <2> QED
    BY <2>1, <2>3
<1> QED
  BY <1>2, <1>3, SeqEqual

LEMMA Remainder ==
  ASSUME NEW a \in Seq(Int), NEW b \in Seq(Int)
  PROVE  SubSeq(a \o b, Len(a) + 1, Len(a \o b)) = b
<1> DEFINE c == a \o b
           d == SubSeq(c, Len(a) + 1, Len(c))
<1>1. c \in Seq(Int) /\ Len(c) = Len(a) + Len(b) /\ Len(a) \in Nat /\ Len(b) \in Nat
  BY Joined
<1>2. \A k \in 1 .. Len(b) : c[Len(a) + k] = b[k]
  OBVIOUS
<1> HIDE DEF c
<1>3. d \in Seq(Int) /\ Len(d) = Len(b) /\ \A k \in 1 .. Len(b) : d[k] = c[Len(a) + k]
  <2>1. \A i \in Len(a) + 1 .. Len(c) : c[i] \in Int
    BY <1>1
  <2>2. Len(a) + 1 \in Int /\ Len(c) \in Int
    BY <1>1
  <2>3. /\ d \in Seq(Int)
        /\ Len(d) = IF Len(a) + 1 <= Len(c) THEN Len(c) - (Len(a) + 1) + 1 ELSE 0
        /\ \A i \in 1 .. Len(c) - (Len(a) + 1) + 1 : d[i] = c[Len(a) + 1 + i - 1]
    BY <2>1, <2>2, SubSeqProperties
  <2>4. Len(c) - (Len(a) + 1) + 1 = Len(b)
    BY <1>1
  <2>5. Len(d) = Len(b)
    BY <1>1, <2>3
  <2>6. ASSUME NEW k \in 1 .. Len(b) PROVE d[k] = c[Len(a) + k]
    <3>1. Len(a) + 1 + k - 1 = Len(a) + k
      BY <1>1
    <3>2. k \in 1 .. Len(c) - (Len(a) + 1) + 1
      BY <2>4
    <3>3. d[k] = c[Len(a) + 1 + k - 1]
      <4> HIDE DEF d
      <4> QED
        BY <2>3, <3>2
    <3> QED
      BY <3>1, <3>3
  <2> QED
    BY <2>3, <2>5, <2>6
<1> HIDE DEF d
<1>4. d = b
  BY <1>2, <1>3, SeqEqual
<1> QED
  BY <1>4 DEF d, c

\* rest of unpack: where buf is before each item.
Skipped(item, b) == SubSeq(b, ItemSize(item, b) + 1, Len(b))

Rest(r, buf, format) ==
  r = [i \in 1 .. Len(format) + 1 |-> IF i = 1 THEN buf ELSE Skipped(format[i - 1], r[i - 1])]

AllStorable(format, args) ==
  /\ Len(format) \in Nat /\ DOMAIN format = 1 .. Len(format)
  /\ \A i \in 1 .. Len(format) : Storable(format[i], args[i])

\* One item: read, and skipped.
LEMMA OneItem ==
  ASSUME NEW format, NEW args, AllStorable(format, args),
         NEW f, Chain(f, ItemBytes(format, args), Len(format)),
         NEW i \in 1 .. Len(format), NEW b, Splits(f[Len(format)], f[i - 1], b)
  PROVE  /\ UnpackItem(format[i], b) = Stored(format[i], args[i])
         /\ Splits(f[Len(format)], f[i], Skipped(format[i], b))
<1> DEFINE n == Len(format)
           items == ItemBytes(format, args)
           bytes == PackItem(format[i].code, args[i])
<1>0. n \in Nat /\ \A k \in 1 .. n : Storable(format[k], args[k])
  BY DEF AllStorable
<1>1. items \in [1 .. n -> Seq(Int)]
  BY <1>0, BytesOfItem DEF ItemBytes
<1>2. items[i] = bytes /\ bytes \in Seq(Int)
  BY <1>0, BytesOfItem DEF ItemBytes
<1>3. /\ \A k \in 0 .. n : f[k] \in Seq(Int)
      /\ \A k \in 0 .. n : \E more : Splits(f[n], f[k], more)
  <2>1. Chain(f, items, n)
    OBVIOUS
  <2> HIDE DEF items, n
  <2>2. /\ \A k \in 0 .. n : f[k] \in Seq(Int)
        /\ \A k \in 0 .. n : \A j \in k .. n : \E more : Splits(f[j], f[k], more)
    BY <1>0, <1>1, <2>1, ChainParts
  <2>3. \A k \in 0 .. n : n \in k .. n
    BY <1>0
  <2> QED
    BY <2>2, <2>3
<1>4. i \in 0 .. n /\ i - 1 \in 0 .. n /\ i # 0
  BY <1>0
<1>5. PICK more \in Seq(Int) : f[n] = f[i] \o more
  <2>1. \E more : Splits(f[n], f[i], more)
    BY <1>3, <1>4
  <2> QED
    BY <2>1 DEF Splits
<1>6. f[i] = f[i - 1] \o bytes
  <2>1. f[i] = IF i = 0 THEN <<>> ELSE f[i - 1] \o items[i]
    BY <1>4, Zenon DEF Chain
  <2> QED
    BY <1>2, <1>4, <2>1
<1>7. f[i - 1] \in Seq(Int) /\ f[i] \in Seq(Int)
  BY <1>3, <1>4
<1> HIDE DEF items, bytes
<1>8. bytes \o more \in Seq(Int)
  BY <1>2, Joined
<1>9. f[n] = f[i - 1] \o (bytes \o more)
  <2>1. (f[i - 1] \o bytes) \o more = f[i - 1] \o (bytes \o more)
    BY <1>2, <1>7, Associative
  <2> QED
    BY <1>5, <1>6, <2>1
<1>10. b = bytes \o more
  <2>1. b \in Seq(Int) /\ f[n] = f[i - 1] \o b
    BY DEF Splits
  <2> QED
    BY <1>7, <1>8, <1>9, <2>1, CancelLeft
<1>11. /\ UnpackItem(format[i], b) = Stored(format[i], args[i])
       /\ ItemSize(format[i], b) = Len(bytes)
  <2>1. Storable(format[i], args[i])
    BY <1>0
  <2> QED
    BY <1>10, <2>1, ReadBack DEF bytes
<1>12. Skipped(format[i], b) = more
  BY <1>2, <1>10, <1>11, Remainder DEF Skipped
<1> QED
  BY <1>5, <1>11, <1>12 DEF Splits

\* pack.c:257-386 and 393-530: every value of a format comes back, however many
\* items it has and whatever their letters; a string that is cut takes no
\* character of the next item with it and leaves none behind.
THEOREM FormatRoundTrips ==
  ASSUME NEW format, NEW args, AllStorable(format, args)
  PROVE  unpack(pack(format, args), format) =
           [i \in 1 .. Len(format) |-> Stored(format[i], args[i])]
<1> DEFINE n == Len(format)
           items == ItemBytes(format, args)
<1>1. /\ n \in Nat /\ DOMAIN format = 1 .. n
      /\ \A i \in 1 .. n : Storable(format[i], args[i])
  BY DEF AllStorable
<1>2. PICK f : Chain(f, items, n) /\ pack(format, args) = f[n]
  BY <1>1, PackIsChain
<1>3. items \in [1 .. n -> Seq(Int)]
  BY <1>1, BytesOfItem DEF ItemBytes
<1>4. /\ \A k \in 0 .. n : f[k] \in Seq(Int)
      /\ \A k \in 0 .. n : \E more : Splits(f[n], f[k], more)
  <2> HIDE DEF items, n
  <2>1. /\ \A k \in 0 .. n : f[k] \in Seq(Int)
        /\ \A k \in 0 .. n : \A j \in k .. n : \E more : Splits(f[j], f[k], more)
    BY <1>1, <1>2, <1>3, ChainParts
  <2>2. \A k \in 0 .. n : n \in k .. n
    BY <1>1
  <2> QED
    BY <2>1, <2>2
<1>5. f[0] = <<>>
  <2>1. 0 \in 0 .. n
    BY <1>1
  <2>2. f[0] = IF 0 = 0 THEN <<>> ELSE f[0 - 1] \o items[0]
    BY <1>2, <2>1, Zenon DEF Chain
  <2> QED
    BY <2>2
<1>6. ASSUME NEW i \in 1 .. n, NEW b, Splits(f[n], f[i - 1], b)
      PROVE  /\ UnpackItem(format[i], b) = Stored(format[i], args[i])
             /\ Splits(f[n], f[i], Skipped(format[i], b))
  <2>1. AllStorable(format, args)
    OBVIOUS
  <2>2. Chain(f, ItemBytes(format, args), Len(format))
    BY <1>2
  <2>3. Splits(f[Len(format)], f[i - 1], b) /\ i \in 1 .. Len(format)
    BY <1>6
  <2> QED
    BY <2>1, <2>2, <2>3, OneItem, Zenon
<1>7. \E r : Rest(r, f[n], format)
  <2> DEFINE W(i) == CHOOSE b : Splits(f[n], f[i - 1], b)
             w == [i \in 1 .. n + 1 |-> W(i)]
  <2>1. ASSUME NEW i \in 1 .. n + 1
        PROVE  Splits(f[n], f[i - 1], W(i))
    <3>1. i - 1 \in 0 .. n
      BY <1>1
    <3>2. \E b : Splits(f[n], f[i - 1], b)
      BY <1>4, <3>1
    <3> QED
      BY <3>2
  <2> HIDE DEF W
  <2>2. \A i \in 1 .. n + 1 : w[i] = W(i)
    OBVIOUS
  <2>3. ASSUME NEW i \in 1 .. n + 1
        PROVE  w[i] = IF i = 1 THEN f[n] ELSE Skipped(format[i - 1], w[i - 1])
    <3>1. CASE i = 1
      <4>1. f[n] \in Seq(Int) /\ f[n] = <<>> \o W(1) /\ W(1) \in Seq(Int)
        <5>1. 1 \in 1 .. n + 1 /\ n \in 0 .. n /\ 1 - 1 = 0
          BY <1>1
        <5> QED
          BY <1>4, <1>5, <2>1, <5>1 DEF Splits
      <4>2. f[n] = W(1)
        BY <4>1, ConcatEmptySeq
      <4> QED
        BY <2>2, <3>1, <4>2
    <3>2. CASE i # 1
      <4> DEFINE j == i - 1
      <4>1. j \in 1 .. n /\ j \in 1 .. n + 1 /\ j \in 0 .. n /\ i - 1 = j
        BY <1>1, <3>2
      <4>2. Splits(f[n], f[j - 1], W(j)) /\ Splits(f[n], f[j], W(i))
        BY <2>1, <4>1
      <4> HIDE DEF j
      <4>3. Splits(f[n], f[j], Skipped(format[j], W(j)))
        BY <1>6, <4>1, <4>2
      <4>4. f[j] \in Seq(Int)
        BY <1>4, <4>1
      <4>5. W(i) = Skipped(format[j], W(j))
        BY <4>2, <4>3, <4>4, CancelLeft DEF Splits
      <4>6. w[j] = W(j) /\ w[i] = W(i)
        BY <2>2, <4>1
      <4> QED
        BY <3>2, <4>1, <4>5, <4>6
    <3> QED
      BY <3>1, <3>2
  <2> DEFINE F(i) == IF i = 1 THEN f[n] ELSE Skipped(format[i - 1], w[i - 1])
  <2>4. w = [i \in 1 .. n + 1 |-> F(i)]
    <3>1. \A i \in 1 .. n + 1 : W(i) = F(i)
      BY <2>2, <2>3
    <3> HIDE DEF F
    <3> QED
      BY <3>1
  <2> HIDE DEF w
  <2>5. Rest(w, f[n], format)
    BY <2>4 DEF Rest
  <2> QED
    BY <2>5
<1>8. ASSUME NEW r, Rest(r, f[n], format), NEW i \in 1 .. n + 1,
             ~ Splits(f[n], f[i - 1], r[i])
      PROVE  FALSE
  <2> DEFINE Good(k) == Splits(f[n], f[k - 1], r[k])
             T == {k \in 1 .. n + 1 : ~ Good(k)}
  <2>1. T \subseteq Nat /\ T # {}
    <3>1. ~ Good(i)
      BY <1>8
    <3> HIDE DEF Good
    <3> QED
      BY <1>1, <3>1
  <2>2. PICK k \in T : \A m \in T : k <= m
    <3> HIDE DEF T
    <3> QED
      BY <2>1, LeastNumber
  <2>3. k \in 1 .. n + 1 /\ ~ Good(k)
    <3> HIDE DEF Good
    <3> QED
      BY <2>2
  <2>4. r[k] = IF k = 1 THEN f[n] ELSE Skipped(format[k - 1], r[k - 1])
    BY <1>8, <2>3, Zenon DEF Rest
  <2>5. CASE k = 1
    <3>1. f[n] \in Seq(Int) /\ r[1] = f[n]
      <4>1. n \in 0 .. n
        BY <1>1
      <4> QED
        BY <1>4, <2>4, <2>5, <4>1
    <3>2. f[n] = <<>> \o r[1]
      BY <3>1, ConcatEmptySeq
    <3>3. f[1 - 1] = <<>>
      BY <1>5
    <3> QED
      BY <2>3, <2>5, <3>1, <3>2, <3>3 DEF Splits
  <2>6. CASE k # 1
    <3> DEFINE j == k - 1
    <3>1. j \in 1 .. n /\ j \in 1 .. n + 1 /\ ~ (k <= j) /\ k - 1 = j
      BY <1>1, <2>3, <2>6
    <3> HIDE DEF j
    <3>2. j \notin T
      BY <2>2, <3>1
    <3>3. Good(j)
      BY <3>1, <3>2
    <3>4. Splits(f[n], f[j], Skipped(format[j], r[j]))
      BY <1>6, <3>1, <3>3
    <3>5. r[k] = Skipped(format[j], r[j])
      BY <2>4, <2>6, <3>1
    <3> QED
      BY <2>3, <3>1, <3>4, <3>5
  <2> QED
    BY <2>5, <2>6
<1>9. PICK r : /\ Rest(r, f[n], format)
               /\ unpack(f[n], format) = [i \in DOMAIN format |-> UnpackItem(format[i], r[i])]
  <2> DEFINE Ok(r) == r = [i \in 1 .. Len(format) + 1 |->
                             IF i = 1 THEN f[n]
                             ELSE LET b == r[i - 1] IN
                                  SubSeq(b, ItemSize(format[i - 1], b) + 1, Len(b))]
             rest == CHOOSE r : Ok(r)
  <2>1. \A r : Rest(r, f[n], format) <=> Ok(r)
    BY DEF Rest, Skipped
  <2>2. Ok(rest)
    <3> HIDE DEF Ok
    <3> QED
      BY <1>7, <2>1
  <2>3. unpack(f[n], format) = [i \in DOMAIN format |-> UnpackItem(format[i], rest[i])]
    BY DEF unpack
  <2> HIDE DEF rest, Ok
  <2> QED
    BY <2>1, <2>2, <2>3
<1>10. ASSUME NEW i \in 1 .. n PROVE UnpackItem(format[i], r[i]) = Stored(format[i], args[i])
  <2>1. i \in 1 .. n + 1
    BY <1>1
  <2>2. Splits(f[n], f[i - 1], r[i])
    BY <1>8, <1>9, <2>1
  <2> QED
    BY <1>6, <2>2
<1> QED
  BY <1>1, <1>2, <1>9, <1>10

-------------------------------------------------------------------------------
(* The bytes of a packet. *)

LEMMA LengthBytes ==
  ASSUME NEW v \in Int
  PROVE  pack(LengthFormat, <<v>>) = packi32(v)
<1> DEFINE format == LengthFormat
           args == <<v>>
           items == ItemBytes(format, args)
<1>1. Len(format) = 1 /\ format[1].code = "l" /\ args[1] = v
  BY DEF LengthFormat
<1>2. PICK f : Chain(f, items, 1) /\ pack(format, args) = f[1]
  <2>1. Len(format) \in Nat
    BY <1>1
  <2>2. \E f : /\ Chain(f, ItemBytes(format, args), Len(format))
               /\ pack(format, args) = f[Len(format)]
    <3> HIDE DEF format, args, items
    <3> QED
      BY <2>1, PackIsChain
  <2> HIDE DEF format, args
  <2> QED
    BY <1>1, <2>2
<1>3. items[1] = packi32(v)
  <2>1. items[1] = PackItem("l", v)
    <3> HIDE DEF format, args
    <3> QED
      BY <1>1 DEF ItemBytes
  <2> QED
    BY <2>1 DEF PackItem
<1> HIDE DEF items
<1>4. f[0] = <<>> /\ f[1] = f[0] \o items[1]
  <2>1. \A i \in 0 .. 1 : f[i] = IF i = 0 THEN <<>> ELSE f[i - 1] \o items[i]
    BY <1>2, Zenon DEF Chain
  <2>2. 0 \in 0 .. 1 /\ 1 \in 0 .. 1 /\ 1 - 1 = 0
    OBVIOUS
  <2>3. f[0] = <<>>
    BY <2>1, <2>2
  <2>4. f[1] = f[1 - 1] \o items[1]
    <3>1. 1 # 0
      OBVIOUS
    <3> QED
      BY <2>1, <2>2, <3>1, Zenon
  <2>5. f[1 - 1] = f[0]
    BY <2>2
  <2>6. f[1] = f[0] \o items[1]
    BY <2>4, <2>5, Zenon
  <2> QED
    BY <2>3, <2>6, Zenon
<1>5. <<>> \o packi32(v) = packi32(v)
  BY FourLong, ConcatEmptySeq
<1> QED
  BY <1>2, <1>3, <1>4, <1>5

LEMMA LengthSizeIsFour == LengthSize = 4
BY LengthBytes, FourLong DEF LengthSize

LEMMA BytesAreInts == Byte \subseteq Int /\ Seq(Byte) \subseteq Seq(Int)
<1>1. Byte \subseteq Int
  BY BaseIsEven DEF Byte
<1>2. ASSUME NEW s \in Seq(Byte) PROVE s \in Seq(Int)
  BY <1>1, SeqMonotonic
<1> QED
  BY <1>1, <1>2

LEMMA LowIsByte ==
  ASSUME NEW i \in Int
  PROVE  packi32(i) \in Seq(Byte)
<1> DEFINE s1 == Shift(i)
           s2 == Shift(s1)
           s3 == Shift(s2)
<1>1. s1 \in Int /\ s2 \in Int /\ s3 \in Int
  BY DivMod
<1>2. \A j \in Int : Low(j) \in Byte
  BY DivMod, BaseIsEven DEF Byte
<1>3. Low(s3) \in Byte /\ Low(s2) \in Byte /\ Low(s1) \in Byte /\ Low(i) \in Byte
  BY <1>1, <1>2
<1>4. <<Low(s3), Low(s2)>> \in Seq(Byte) /\ <<Low(s1), Low(i)>> \in Seq(Byte)
  BY <1>3
<1>5. packi32(i) = <<Low(s3), Low(s2)>> \o <<Low(s1), Low(i)>>
  BY DEF packi32, packi16
<1> HIDE DEF s1, s2, s3
<1> QED
  BY <1>4, <1>5, ConcatProperties

\* A packet in the stream: four bytes that are its length, and its data.
LEMMA Serialized ==
  ASSUME NEW p \in Packets
  PROVE  /\ p \in Seq(Byte) /\ p \in Seq(Int) /\ Len(p) \in Nat \ {0}
         /\ serialize(p) = packi32(Len(p)) \o p
         /\ serialize(p) \in Seq(Byte) /\ serialize(p) \in Seq(Int)
         /\ serialize(p) # <<>> /\ Len(serialize(p)) = 4 + Len(p)
<1>1. p \in Seq(Byte) /\ p # <<>>
  BY FramingAssumption
<1>2. p \in Seq(Int) /\ Len(p) \in Nat \ {0}
  BY <1>1, BytesAreInts, EmptySeq
<1>3. serialize(p) = packi32(Len(p)) \o p
  <2>1. Len(p) \in Int
    BY <1>2
  <2>2. pack(LengthFormat, <<Len(p)>>) = packi32(Len(p))
    BY <2>1, LengthBytes
  <2> QED
    BY <2>2 DEF serialize
<1>4. packi32(Len(p)) \in Seq(Byte) /\ packi32(Len(p)) \in Seq(Int) /\ Len(packi32(Len(p))) = 4
  BY <1>2, LowIsByte, FourLong
<1>5. packi32(Len(p)) \o p \in Seq(Byte)
  BY <1>1, <1>4, ConcatProperties
<1>6. /\ packi32(Len(p)) \o p \in Seq(Int)
      /\ Len(packi32(Len(p)) \o p) = Len(packi32(Len(p))) + Len(p)
  BY <1>2, <1>4, Joined
<1>7. Len(serialize(p)) = 4 + Len(p)
  BY <1>3, <1>4, <1>6
<1>8. serialize(p) # <<>>
  BY <1>2, <1>7
<1> QED
  BY <1>1, <1>2, <1>3, <1>5, <1>6, <1>7, <1>8

\* The length comes back: it is below what four bytes with a sign can hold.
LEMMA LengthReadBack ==
  ASSUME NEW p \in Packets
  PROVE  unpack(packi32(Len(p)), LengthFormat)[1] = Len(p)
<1> DEFINE format == LengthFormat
           args == <<Len(p)>>
<1>1. Len(p) \in Nat /\ Len(p) < Half * Base * Base * Base
  BY FramingAssumption
<1>2. /\ Len(format) = 1 /\ DOMAIN format = 1 .. 1
      /\ format[1] = [code |-> "l", max |-> 0] /\ args[1] = Len(p)
  BY DEF LengthFormat
<1>3. Fits("l", Len(p))
  BY <1>1, Widths DEF Fits
<1>4. AllStorable(format, args)
  <2>1. Storable(format[1], args[1])
    BY <1>1, <1>2, <1>3 DEF Storable
  <2> HIDE DEF format, args
  <2> QED
    BY <1>2, <2>1 DEF AllStorable
<1>5. unpack(pack(format, args), format) = [i \in 1 .. 1 |-> Stored(format[i], args[i])]
  <2> HIDE DEF format, args
  <2> QED
    BY <1>2, <1>4, FormatRoundTrips
<1>6. Stored(format[1], args[1]) = Len(p)
  BY <1>2 DEF Stored
<1>7. pack(format, args) = packi32(Len(p))
  BY <1>1, LengthBytes
<1> HIDE DEF format, args
<1> QED
  BY <1>5, <1>6, <1>7 DEF format

-------------------------------------------------------------------------------
(* The inductive invariant. *)

Bytes(ps) == [i \in 1 .. Len(ps) |-> serialize(ps[i])]

\* The receiver's place in the chain f of all packets.  What is under way has
\* its place there too; when the connection failed it is lost, but had one.
At(f, lost) ==
  /\ Chain(f, Bytes(Begun), Len(Begun))
  /\ lost \in Seq(Int) /\ (~reset => lost = wire)
  /\ Splits(f[Len(Begun)], f[Len(got)], Received \o (lost \o out))

Located == Reading => \E f, lost : At(f, lost)

SenderInv ==
  /\ spc = "idle" => out = <<>>
  /\ spc = "send" => out # <<>>
  /\ fin <=> spc = "over"
  /\ out # <<>> => /\ sending \in Packets /\ Len(sent) < MaxPackets
                   /\ \E done \in Seq(Int) : Splits(serialize(sending), done, out)

ReceiverInv ==
  /\ Reading => /\ Len(got) <= Len(sent) /\ Len(buffer) <= Asked
                /\ \A i \in 1 .. Len(got) : got[i] = sent[i]
  /\ rpc = "data" => Len(got) < Len(Begun) /\ size = Len(Begun[Len(got) + 1])

Types == TypeOK /\ got \in Seq(Seq(Byte)) /\ Len(wire) <= Room

IInv == Types /\ SenderInv /\ ReceiverInv /\ Located

-------------------------------------------------------------------------------
(* Where the receiver is. *)

\* Two ways to cut one sequence at the same place are one.
LEMMA SameCut ==
  ASSUME NEW a \in Seq(Int), NEW b \in Seq(Int), NEW c \in Seq(Int), NEW d \in Seq(Int),
         a \o b = c \o d, Len(a) = Len(c)
  PROVE  a = c /\ b = d
<1>1. ASSUME NEW i \in 1 .. Len(a) PROVE a[i] = c[i]
  <2>1. (a \o b)[i] = a[i]
    BY Front
  <2>2. i \in 1 .. Len(c)
    OBVIOUS
  <2>3. (c \o d)[i] = c[i]
    BY <2>2, Front
  <2> QED
    BY <2>1, <2>3
<1>2. a = c
  BY <1>1, SeqEqual
<1> QED
  BY <1>2, CancelLeft

LEMMA BegunTypes ==
  ASSUME Types, SenderInv
  PROVE  /\ Begun \in Seq(Packets) /\ Len(Begun) \in Nat
         /\ Bytes(Begun) \in [1 .. Len(Begun) -> Seq(Int)]
         /\ \A i \in 1 .. Len(Begun) : Begun[i] \in Packets /\ Bytes(Begun)[i] = serialize(Begun[i])
         /\ \A i \in 1 .. Len(sent) : Begun[i] = sent[i]
         /\ out = <<>> => Len(Begun) = Len(sent)
         /\ out # <<>> => Len(Begun) = Len(sent) + 1 /\ Begun[Len(sent) + 1] = sending
<1>1. sent \in Seq(Packets)
  BY DEF Types, TypeOK
<1>2. CASE out = <<>>
  <2>1. Begun = sent
    BY <1>2 DEF Begun
  <2>2. Len(sent) \in Nat /\ \A i \in 1 .. Len(sent) : sent[i] \in Packets
    BY <1>1
  <2>3. \A i \in 1 .. Len(sent) : serialize(sent[i]) \in Seq(Int)
    BY <2>2, Serialized
  <2>4. /\ Bytes(sent) \in [1 .. Len(sent) -> Seq(Int)]
        /\ \A i \in 1 .. Len(sent) : Bytes(sent)[i] = serialize(sent[i])
    BY <2>3 DEF Bytes
  <2> QED
    BY <1>1, <1>2, <2>1, <2>2, <2>4
<1>3. CASE out # <<>>
  <2>1. Begun = Append(sent, sending) /\ sending \in Packets
    BY <1>3 DEF Begun, SenderInv
  <2>2. /\ Begun \in Seq(Packets) /\ Len(Begun) = Len(sent) + 1
        /\ \A i \in 1 .. Len(sent) : Begun[i] = sent[i]
        /\ Begun[Len(sent) + 1] = sending
    BY <1>1, <2>1, AppendProperties
  <2>3. Len(Begun) \in Nat /\ \A i \in 1 .. Len(Begun) : Begun[i] \in Packets
    BY <2>2
  <2>4. \A i \in 1 .. Len(Begun) : serialize(Begun[i]) \in Seq(Int)
    BY <2>3, Serialized
  <2>5. /\ Bytes(Begun) \in [1 .. Len(Begun) -> Seq(Int)]
        /\ \A i \in 1 .. Len(Begun) : Bytes(Begun)[i] = serialize(Begun[i])
    BY <2>4 DEF Bytes
  <2> QED
    BY <1>3, <2>2, <2>3, <2>5
<1> QED
  BY <1>2, <1>3

\* What is still to come, for the receiver.
ToCome(lost) == Received \o (lost \o out)

LEMMA ToComeTypes ==
  ASSUME Types, NEW lost \in Seq(Int)
  PROVE  /\ Received \in Seq(Int) /\ out \in Seq(Int) /\ lost \o out \in Seq(Int)
         /\ ToCome(lost) \in Seq(Int)
         /\ Len(ToCome(lost)) = Len(Received) + Len(lost) + Len(out)
         /\ rpc # "data" => Len(Received) = Len(buffer)
         /\ rpc = "data" => Len(Received) = 4 + Len(buffer)
         /\ buffer \in Seq(Int) /\ wire \in Seq(Int)
<1>1. buffer \in Seq(Int) /\ out \in Seq(Int) /\ wire \in Seq(Int)
  BY BytesAreInts DEF Types, TypeOK
<1>2. rpc = "data" => Received \in Seq(Int) /\ Len(Received) = 4 + Len(buffer)
  <2>1. size \in Int
    BY DEF Types, TypeOK
  <2>2. /\ pack(LengthFormat, <<size>>) = packi32(size) /\ packi32(size) \in Seq(Int)
        /\ Len(packi32(size)) = 4
    BY <2>1, LengthBytes, FourLong
  <2>3. /\ packi32(size) \o buffer \in Seq(Int)
        /\ Len(packi32(size) \o buffer) = Len(packi32(size)) + Len(buffer)
    BY <1>1, <2>2, Joined
  <2> QED
    BY <2>2, <2>3 DEF Received
<1>3. rpc # "data" => Received = buffer
  BY DEF Received
<1>4. Received \in Seq(Int)
  BY <1>1, <1>2, <1>3
<1>5. lost \o out \in Seq(Int) /\ Len(lost \o out) = Len(lost) + Len(out)
  BY <1>1, Joined
<1>6. /\ ToCome(lost) \in Seq(Int)
      /\ Len(ToCome(lost)) = Len(Received) + Len(lost \o out)
  BY <1>4, <1>5, Joined DEF ToCome
<1>7. Len(Received) \in Nat /\ Len(lost) \in Nat /\ Len(out) \in Nat
  BY <1>1, <1>4
<1> QED
  BY <1>1, <1>2, <1>3, <1>4, <1>5, <1>6, <1>7

\* The receiver's next bytes are those of the first packet it has not handed
\* over, if there is one; a packet that is being sent is the last one.
LEMMA Place ==
  ASSUME Types, SenderInv, NEW f, NEW lost, At(f, lost), Len(got) <= Len(Begun)
  PROVE  /\ f[Len(Begun)] \in Seq(Int) /\ f[Len(got)] \in Seq(Int)
         /\ Len(got) = Len(Begun) => ToCome(lost) = <<>>
         /\ Len(got) < Len(Begun) =>
              /\ f[Len(got) + 1] = f[Len(got)] \o serialize(Begun[Len(got) + 1])
              /\ \E more \in Seq(Int) :
                   /\ ToCome(lost) = serialize(Begun[Len(got) + 1]) \o more
                   /\ f[Len(Begun)] = f[Len(got) + 1] \o more
                   /\ Len(got) + 1 = Len(Begun) => more = <<>>
                   /\ Len(got) + 1 < Len(Begun) /\ out # <<>> => Len(more) >= Len(out)
<1> DEFINE n == Len(Begun)
           g == Len(got)
           items == Bytes(Begun)
           R == ToCome(lost)
<1>1. /\ n \in Nat /\ items \in [1 .. n -> Seq(Int)]
      /\ \A i \in 1 .. n : Begun[i] \in Packets /\ items[i] = serialize(Begun[i])
      /\ out # <<>> => Begun[n] = sending
  <2>1. out # <<>> => n = Len(sent) + 1 /\ Begun[Len(sent) + 1] = sending
    BY BegunTypes
  <2> QED
    BY <2>1, BegunTypes
<1>2. g \in Nat /\ g <= n
  BY DEF Types
<1>3. Chain(f, items, n) /\ R \in Seq(Int) /\ f[n] = f[g] \o R /\ lost \in Seq(Int)
  BY DEF At, Splits, ToCome
<1> HIDE DEF n, g, items, R
<1>4. /\ \A i \in 0 .. n : f[i] \in Seq(Int)
      /\ \A i \in 0 .. n : \A j \in i .. n : \E more : Splits(f[j], f[i], more)
  BY <1>1, <1>3, ChainParts
<1>5. ASSUME NEW i \in 1 .. n PROVE f[i] = f[i - 1] \o serialize(Begun[i])
  <2>1. i \in 0 .. n /\ i # 0
    BY <1>1
  <2>2. f[i] = IF i = 0 THEN <<>> ELSE f[i - 1] \o items[i]
    BY <1>3, <2>1, Zenon DEF Chain
  <2> QED
    BY <1>1, <2>1, <2>2
<1>6. f[n] \in Seq(Int) /\ f[g] \in Seq(Int)
  BY <1>1, <1>2, <1>4
<1>7. ASSUME g = n PROVE R = <<>>
  <2>1. f[n] = f[n] \o R
    BY <1>3, <1>7
  <2>2. Len(f[n] \o R) = Len(f[n]) + Len(R)
    BY <1>3, <1>6, Joined
  <2>3. Len(f[n]) \in Nat /\ Len(R) \in Nat
    BY <1>3, <1>6
  <2>4. Len(R) = 0
    BY <2>1, <2>2, <2>3
  <2> QED
    BY <1>3, <2>4, EmptySeq
<1>8. ASSUME g < n
      PROVE  /\ f[g + 1] = f[g] \o serialize(Begun[g + 1])
             /\ \E more \in Seq(Int) :
                  /\ R = serialize(Begun[g + 1]) \o more
                  /\ f[n] = f[g + 1] \o more
                  /\ g + 1 = n => more = <<>>
                  /\ g + 1 < n /\ out # <<>> => Len(more) >= Len(out)
  <2> DEFINE h == g + 1
             first == serialize(Begun[h])
  <2>1. h \in 1 .. n /\ h \in 0 .. n /\ h - 1 = g /\ n \in h .. n
    BY <1>1, <1>2, <1>8
  <2>2. f[h] = f[g] \o first
    BY <1>5, <2>1
  <2>3. first \in Seq(Int) /\ f[h] \in Seq(Int)
    BY <1>1, <1>4, <2>1, Serialized
  <2>4. PICK more : Splits(f[n], f[h], more)
    BY <1>4, <2>1
  <2>5. more \in Seq(Int) /\ f[n] = f[h] \o more
    BY <2>4 DEF Splits
  <2> HIDE DEF h, first
  <2>6. R = first \o more
    <3>1. (f[g] \o first) \o more = f[g] \o (first \o more)
      BY <1>6, <2>3, <2>5, Associative
    <3>2. f[g] \o R = f[g] \o (first \o more)
      BY <1>3, <2>2, <2>5, <3>1
    <3>3. first \o more \in Seq(Int)
      BY <2>3, <2>5, Joined
    <3> QED
      BY <1>3, <1>6, <3>2, <3>3, CancelLeft
  <2>7. ASSUME h = n PROVE more = <<>>
    <3>1. Len(f[n] \o more) = Len(f[n]) + Len(more)
      BY <1>6, <2>5, Joined
    <3>2. f[n] = f[n] \o more
      BY <2>5, <2>7
    <3>3. Len(f[n]) \in Nat /\ Len(more) \in Nat
      BY <1>6, <2>5
    <3>4. Len(more) = 0
      BY <3>1, <3>2, <3>3
    <3> QED
      BY <2>5, <3>4, EmptySeq
  <2>8. ASSUME h < n, out # <<>> PROVE Len(more) >= Len(out)
    <3> DEFINE k == n - 1
               last == serialize(sending)
    <3>1. k \in h .. n /\ k \in 0 .. n /\ n \in 1 .. n /\ n - 1 = k
      BY <1>1, <2>1, <2>8
    <3>2. f[n] = f[k] \o last /\ sending \in Packets
      BY <1>1, <1>5, <2>8, <3>1 DEF SenderInv
    <3>3. last \in Seq(Int) /\ f[k] \in Seq(Int)
      BY <1>4, <3>1, <3>2, Serialized
    <3>4. PICK between : Splits(f[k], f[h], between)
      BY <1>4, <2>1, <3>1
    <3>5. PICK done \in Seq(Int) : Splits(last, done, out)
      BY <2>8 DEF SenderInv
    <3> HIDE DEF k, last
    <3>6. between \in Seq(Int) /\ f[k] = f[h] \o between
      BY <3>4 DEF Splits
    <3>7. out \in Seq(Int) /\ last = done \o out
      BY <3>5 DEF Splits
    <3>8. Len(f[n]) = Len(f[k]) + Len(last)
      BY <3>2, <3>3, Joined
    <3>9. Len(f[k]) = Len(f[h]) + Len(between)
      BY <2>3, <3>6, Joined
    <3>10. Len(f[n]) = Len(f[h]) + Len(more)
      BY <2>3, <2>5, Joined
    <3>11. Len(last) = Len(done) + Len(out)
      BY <3>7, Joined
    <3>12. /\ Len(f[h]) \in Nat /\ Len(between) \in Nat /\ Len(more) \in Nat
           /\ Len(done) \in Nat /\ Len(out) \in Nat /\ Len(f[k]) \in Nat /\ Len(last) \in Nat
      BY <2>3, <2>5, <3>3, <3>6, <3>7
    <3>13. \A fn, fk, fh, l, b, m, d, o \in Nat :
             fn = fk + l /\ fk = fh + b /\ fn = fh + m /\ l = d + o => m >= o
      OBVIOUS
    <3>14. Len(f[n]) \in Nat
      BY <1>6
    <3> QED
      BY <3>8, <3>9, <3>10, <3>11, <3>12, <3>13, <3>14, Zenon
  <2> QED
    BY <2>2, <2>5, <2>6, <2>7, <2>8 DEF h, first
<1> QED
  BY <1>6, <1>7, <1>8 DEF n, g, R

-------------------------------------------------------------------------------
(* The actions keep the receiver's place. *)

\* The chain stays as it is, and the bytes still to come do.
LEMMA Relocate ==
  ASSUME NEW f, NEW lost, At(f, lost), Begun' = Begun, got' = got,
         NEW lost2 \in Seq(Int), ~reset' => lost2 = wire',
         Received' \o (lost2 \o out') = Received \o (lost \o out),
         Received' \o (lost2 \o out') \in Seq(Int)
  PROVE  Located'
<1> DEFINE toCome == Received \o (lost \o out)
<1>1. Chain(f, Bytes(Begun), Len(Begun)) /\ f[Len(Begun)] = f[Len(got)] \o toCome
  BY DEF At, Splits
<1>2. Received' \o (lost2 \o out') = toCome
  OBVIOUS
<1> HIDE DEF toCome
<1>3. Splits(f[Len(Begun')], f[Len(got')], Received' \o (lost2 \o out'))
  BY <1>1, <1>2 DEF Splits
<1>4. Chain(f, Bytes(Begun'), Len(Begun'))
  BY <1>1
<1>5. At(f, lost2)'
  BY <1>3, <1>4 DEF At, Bytes
<1> QED
  BY <1>5 DEF Located

\* Where nothing of this changes, the place does not.
LEMMA SamePlace ==
  ASSUME Types, Located, Begun' = Begun, got' = got, Received' = Received, out' = out,
         Reading' => Reading, wire' = wire, reset' = reset
  PROVE  Located'
<1>1. CASE Reading
  <2>1. PICK f, lost : At(f, lost)
    BY <1>1 DEF Located
  <2>2. lost \in Seq(Int) /\ (~reset => lost = wire)
    BY <2>1 DEF At
  <2>3. Received \o (lost \o out) \in Seq(Int)
    BY <2>2, ToComeTypes DEF ToCome
  <2> QED
    BY <2>1, <2>2, <2>3, Relocate
<1>2. CASE ~Reading
  BY <1>2 DEF Located
<1> QED
  BY <1>1, <1>2

LEMMA Cut ==
  ASSUME NEW S, NEW s \in Seq(S), NEW n \in 1 .. Len(s)
  PROVE  /\ SubSeq(s, 1, n) \in Seq(S) /\ SubSeq(s, n + 1, Len(s)) \in Seq(S)
         /\ Len(SubSeq(s, 1, n)) = n /\ Len(SubSeq(s, n + 1, Len(s))) = Len(s) - n
         /\ SubSeq(s, 1, n) \o SubSeq(s, n + 1, Len(s)) = s
<1>1. Len(s) \in Nat /\ 1 \in Int /\ n \in Int /\ n + 1 \in Int /\ Len(s) \in Int
  OBVIOUS
<1>2. (\A i \in 1 .. n : s[i] \in S) /\ (\A i \in n + 1 .. Len(s) : s[i] \in S)
  BY <1>1, ElementOfSeq
<1>3. SubSeq(s, 1, n) \in Seq(S) /\ Len(SubSeq(s, 1, n)) = n
  BY <1>1, <1>2, SubSeqProperties
<1>4. /\ SubSeq(s, n + 1, Len(s)) \in Seq(S)
      /\ Len(SubSeq(s, n + 1, Len(s))) = Len(s) - n
  BY <1>1, <1>2, SubSeqProperties
<1>5. SubSeq(s, 1, n) \o SubSeq(s, n + 1, Len(s)) = SubSeq(s, 1, Len(s))
  <2>1. 1 \in 1 .. Len(s) + 1 /\ n \in 1 - 1 .. Len(s) /\ Len(s) \in n .. Len(s)
    BY <1>1
  <2> QED
    BY <2>1, ConcatAdjacentSubSeq
<1>6. SubSeq(s, 1, Len(s)) = s
  BY SubSeqFull
<1> QED
  BY <1>3, <1>4, <1>5, <1>6

LEMMA SendPacketKeeps ==
  ASSUME IInv, NEW p \in Packets, send_simple_packet(p)
  PROVE  IInv'
<1>1. /\ spc = "idle" /\ Len(sent) < MaxPackets /\ spc' = "send"
      /\ out' = serialize(p) /\ sending' = p
      /\ UNCHANGED <<sent, wire, fin, reset, rpc, buffer, size, got>>
  BY DEF send_simple_packet, stream, receiver
<1>2. /\ p \in Seq(Byte) /\ serialize(p) \in Seq(Byte) /\ serialize(p) \in Seq(Int)
      /\ serialize(p) # <<>>
  BY Serialized
<1>3. out = <<>> /\ Begun = sent /\ Begun' = Append(sent, p) /\ sent \in Seq(Packets)
  BY <1>1, <1>2 DEF Begun, IInv, SenderInv, Types, TypeOK
<1>4. /\ Len(sent) \in Nat /\ Append(sent, p) \in Seq(Packets)
      /\ Len(Append(sent, p)) = Len(sent) + 1
      /\ \A i \in 1 .. Len(sent) : Append(sent, p)[i] = sent[i]
      /\ Append(sent, p)[Len(sent) + 1] = p
  BY <1>3, AppendProperties
<1>5. Types'
  BY <1>1, <1>2 DEF IInv, Types, TypeOK
<1>6. SenderInv'
  <2>1. Splits(serialize(p), <<>>, serialize(p)) /\ <<>> \in Seq(Int)
    BY <1>2, ConcatEmptySeq DEF Splits
  <2>2. ~ fin
    BY <1>1 DEF IInv, SenderInv
  <2> QED
    BY <1>1, <1>2, <2>1, <2>2 DEF SenderInv
<1>7. ReceiverInv'
  <2>1. /\ Reading' => /\ Len(got') <= Len(sent') /\ Len(buffer') <= Asked'
                       /\ \A i \in 1 .. Len(got') : got'[i] = sent'[i]
    BY <1>1 DEF IInv, ReceiverInv, Reading, Asked
  <2>2. ASSUME rpc' = "data"
        PROVE  Len(got') < Len(Begun') /\ size' = Len(Begun'[Len(got') + 1])
    <3>1. Len(got) < Len(sent) /\ size = Len(sent[Len(got) + 1])
      BY <1>1, <1>3, <2>2 DEF IInv, ReceiverInv
    <3>2. Len(got) \in Nat
      BY DEF IInv, Types
    <3>3. Len(got) + 1 \in 1 .. Len(sent)
      BY <1>4, <3>1, <3>2
    <3> QED
      BY <1>1, <1>3, <1>4, <3>1, <3>2, <3>3
  <2> QED
    BY <2>1, <2>2 DEF ReceiverInv
<1>8. CASE ~Reading
  BY <1>1, <1>5, <1>6, <1>7, <1>8 DEF IInv, Located, Reading
<1>9. CASE Reading
  <2> DEFINE n == Len(sent)
  <2>1. PICK f, lost : At(f, lost)
    BY <1>9 DEF IInv, Located
  <2>2. /\ Chain(f, Bytes(sent), n)
        /\ lost \in Seq(Int) /\ (~reset => lost = wire)
        /\ Splits(f[n], f[Len(got)], Received \o (lost \o out))
    BY <1>3, <2>1 DEF At
  <2>3. \A i \in 1 .. n : Bytes(Append(sent, p))[i] = Bytes(sent)[i]
    BY <1>4 DEF Bytes
  <2>4. Bytes(Append(sent, p))[n + 1] = serialize(p)
    BY <1>4 DEF Bytes
  <2>5. PICK h : /\ Chain(h, Bytes(Append(sent, p)), n + 1)
                 /\ \A i \in 0 .. n : h[i] = f[i]
                 /\ h[n + 1] = f[n] \o Bytes(Append(sent, p))[n + 1]
    <3>1. n \in Nat
      BY <1>4
    <3> DEFINE longer == Bytes(Append(sent, p))
               items == Bytes(sent)
    <3>2. Chain(f, items, n) /\ \A i \in 1 .. n : longer[i] = items[i]
      BY <2>2, <2>3
    <3> HIDE DEF n, longer, items
    <3>3. PICK g : Grown(g, f, longer, n)
      BY <3>1, <3>2, ChainGrows
    <3> QED
      BY <3>3 DEF longer, Grown
  <2>6. Len(got) \in 0 .. n /\ Len(got) <= Len(Begun)
    BY <1>3, <1>4, <1>9 DEF IInv, Types, ReceiverInv
  <2>7. f[n] \in Seq(Int) /\ f[Len(got)] \in Seq(Int)
    BY <1>3, <2>1, <2>6, Place DEF IInv
  <2>8. Received \in Seq(Int) /\ lost \o out = lost /\ Received \o lost \in Seq(Int)
    <3>1. Received \in Seq(Int)
      BY <2>2, ToComeTypes DEF IInv
    <3>2. lost \o out = lost
      BY <1>3, <2>2, ConcatEmptySeq
    <3> QED
      BY <2>2, <3>1, <3>2, Joined
  <2>9. f[n] = f[Len(got)] \o (Received \o lost)
    BY <2>2, <2>8 DEF Splits
  <2> HIDE DEF n
  <2>10. h[n + 1] = f[Len(got)] \o (Received \o (lost \o serialize(p)))
    <3>1. h[n + 1] = (f[Len(got)] \o (Received \o lost)) \o serialize(p)
      BY <2>4, <2>5, <2>9
    <3>2. (f[Len(got)] \o (Received \o lost)) \o serialize(p)
          = f[Len(got)] \o ((Received \o lost) \o serialize(p))
      BY <1>2, <2>7, <2>8, Associative
    <3>3. (Received \o lost) \o serialize(p) = Received \o (lost \o serialize(p))
      BY <1>2, <2>2, <2>8, Associative
    <3> QED
      BY <3>1, <3>2, <3>3
  <2>11. Received \o (lost \o serialize(p)) \in Seq(Int)
    <3>1. lost \o serialize(p) \in Seq(Int)
      BY <1>2, <2>2, Joined
    <3> QED
      BY <2>8, <3>1, Joined
  <2>12. Received' = Received
    BY <1>1 DEF Received
  <2>13. h[Len(got)] = f[Len(got)]
    BY <2>5, <2>6
  <2>14. Splits(h[n + 1], h[Len(got)], Received \o (lost \o serialize(p)))
    BY <2>10, <2>11, <2>13 DEF Splits
  <2>15. At(h, lost)'
    <3>1. Chain(h, Bytes(Begun'), Len(Begun'))
      BY <1>3, <1>4, <2>5 DEF n
    <3>2. Splits(h[Len(Begun')], h[Len(got')], Received' \o (lost \o out'))
      BY <1>1, <1>3, <1>4, <2>12, <2>14 DEF n
    <3> QED
      BY <1>1, <2>2, <3>1, <3>2 DEF At, Bytes
  <2>16. Located'
    BY <2>15 DEF Located
  <2> QED
    BY <1>5, <1>6, <1>7, <2>16 DEF IInv
<1> QED
  BY <1>8, <1>9

LEMMA SenderEndsKeeps ==
  ASSUME IInv, SendNoMemory \/ SendError \/ SenderStops
  PROVE  IInv'
<1>1. /\ spc' = "over" /\ fin' = TRUE
      /\ UNCHANGED <<out, sending, sent, wire, reset, rpc, buffer, size, got>>
  BY DEF SendNoMemory, SendError, SenderStops, receiver
<1>2. Types'
  BY <1>1 DEF IInv, Types, TypeOK
<1>3. SenderInv'
  BY <1>1 DEF IInv, SenderInv
<1>4. Begun' = Begun /\ Received' = Received /\ (Reading' => Reading)
  BY <1>1 DEF Begun, Received, Reading
<1>5. ReceiverInv'
  BY <1>1, <1>4 DEF IInv, ReceiverInv, Reading, Asked
<1>6. Located'
  BY <1>1, <1>4, SamePlace DEF IInv
<1> QED
  BY <1>2, <1>3, <1>5, <1>6 DEF IInv

\* What sendall has left, and what is under way: the border moves.
LEMMA SendSomeKeeps ==
  ASSUME IInv, NEW n \in 1 .. Len(out), SendSome(n)
  PROVE  IInv'
<1> DEFINE a == SubSeq(out, 1, n)
           b == SubSeq(out, n + 1, Len(out))
<1>1. /\ spc = "send" /\ ~reset /\ Len(wire) + n <= Room
      /\ wire' = wire \o a /\ out' = b
      /\ UNCHANGED <<sending, fin, reset, rpc, buffer, size, got>>
  BY DEF SendSome, receiver
<1>2. IF n = Len(out) THEN spc' = "idle" /\ sent' = Append(sent, sending)
                      ELSE spc' = spc /\ sent' = sent
  BY DEF SendSome
<1>3. /\ out \in Seq(Byte) /\ out \in Seq(Int) /\ out # <<>>
      /\ wire \in Seq(Byte) /\ wire \in Seq(Int) /\ sent \in Seq(Packets)
  BY <1>1, BytesAreInts DEF IInv, Types, TypeOK, SenderInv
<1>4. /\ a \in Seq(Byte) /\ b \in Seq(Byte) /\ Len(a) = n /\ Len(b) = Len(out) - n
      /\ a \o b = out
  BY <1>3, Cut
<1>5. a \in Seq(Int) /\ b \in Seq(Int)
  BY <1>4, BytesAreInts
<1> HIDE DEF a, b
<1>6. sending \in Packets /\ Len(sent) < MaxPackets /\ Len(sent) \in Nat
  BY <1>3 DEF IInv, SenderInv
<1>7. /\ Append(sent, sending) \in Seq(Packets)
      /\ Len(Append(sent, sending)) = Len(sent) + 1
      /\ \A i \in 1 .. Len(sent) : Append(sent, sending)[i] = sent[i]
  BY <1>3, <1>6, AppendProperties
<1>8. n = Len(out) <=> b = <<>>
  <2>1. Len(out) \in Nat
    BY <1>3
  <2>2. b = <<>> <=> Len(b) = 0
    BY <1>4, EmptySeq
  <2> QED
    BY <1>4, <2>1, <2>2
<1>9. Begun' = Begun
  BY <1>1, <1>2, <1>3, <1>8 DEF Begun
<1>10. Types'
  <2>1. wire \o a \in Seq(Byte) /\ Len(wire \o a) = Len(wire) + Len(a)
    BY <1>3, <1>4, ConcatProperties
  <2>2. sent' \in Seq(Packets) /\ Len(sent') <= MaxPackets
    <3>1. MaxPackets \in Nat /\ Len(sent) <= MaxPackets
      BY FramingAssumption DEF IInv, Types, TypeOK
    <3>2. Len(sent) + 1 <= MaxPackets
      BY <1>6, <3>1
    <3> QED
      BY <1>2, <1>3, <1>7, <3>1, <3>2
  <2>3. Len(wire') <= Room
    BY <1>1, <1>4, <2>1
  <2>4. spc' \in {"idle", "send", "over"}
    BY <1>1, <1>2
  <2> QED
    BY <1>1, <1>4, <2>1, <2>2, <2>3, <2>4 DEF IInv, Types, TypeOK
<1>11. SenderInv'
  <2>1. ASSUME out' # <<>>
        PROVE  /\ sending' \in Packets /\ Len(sent') < MaxPackets
               /\ \E done \in Seq(Int) : Splits(serialize(sending'), done, out')
    <3>1. sent' = sent /\ sending' = sending
      BY <1>1, <1>2, <1>8, <2>1
    <3>2. PICK done \in Seq(Int) : serialize(sending) = done \o out
      BY <1>3 DEF IInv, SenderInv, Splits
    <3>3. (done \o a) \o b = done \o (a \o b) /\ done \o a \in Seq(Int)
      BY <1>5, Associative, Joined
    <3>4. Splits(serialize(sending), done \o a, b)
      BY <1>4, <1>5, <3>2, <3>3 DEF Splits
    <3> QED
      BY <1>1, <1>6, <3>1, <3>3, <3>4
  <2>2. /\ spc' = "idle" => out' = <<>>
        /\ spc' = "send" => out' # <<>>
        /\ fin' <=> spc' = "over"
    <3>1. ~ fin
      BY <1>1 DEF IInv, SenderInv
    <3> QED
      BY <1>1, <1>2, <1>8, <3>1
  <2> QED
    BY <2>1, <2>2 DEF SenderInv
<1>12. ReceiverInv'
  <2>1. Reading' => /\ Len(got') <= Len(sent') /\ Len(buffer') <= Asked'
                    /\ \A i \in 1 .. Len(got') : got'[i] = sent'[i]
    <3>1. Reading' => Reading /\ Asked' = Asked
      BY <1>1 DEF Reading, Asked
    <3>2. Len(got) \in Nat
      BY DEF IInv, Types
    <3>3. Reading => /\ Len(got) <= Len(sent)
                     /\ \A i \in 1 .. Len(got) : got[i] = sent[i] /\ i \in 1 .. Len(sent)
      BY <1>6, <3>2 DEF IInv, ReceiverInv
    <3>4. Len(sent') >= Len(sent) /\ \A i \in 1 .. Len(sent) : sent'[i] = sent[i]
      BY <1>2, <1>6, <1>7
    <3>5. Len(sent') \in Nat
      BY <1>2, <1>6, <1>7
    <3>6. Reading' => Len(got') <= Len(sent')
      BY <1>1, <1>6, <3>1, <3>2, <3>3, <3>4, <3>5
    <3>7. Reading' => Len(buffer') <= Asked'
      BY <1>1, <3>1 DEF IInv, ReceiverInv
    <3>8. Reading' => \A i \in 1 .. Len(got') : got'[i] = sent'[i]
      BY <1>1, <3>1, <3>3, <3>4
    <3> QED
      BY <3>6, <3>7, <3>8
  <2>2. rpc' = "data" => Len(got') < Len(Begun') /\ size' = Len(Begun'[Len(got') + 1])
    BY <1>1, <1>9 DEF IInv, ReceiverInv
  <2> QED
    BY <2>1, <2>2 DEF ReceiverInv
<1>13. Located'
  <2>1. CASE ~Reading
    BY <1>1, <2>1 DEF Located, Reading
  <2>2. CASE Reading
    <3>1. PICK f, lost : At(f, lost)
      BY <2>2 DEF IInv, Located
    <3>2. lost = wire
      BY <1>1, <3>1 DEF At
    <3>3. (wire \o a) \o b = wire \o out /\ wire \o a \in Seq(Int)
      BY <1>3, <1>4, <1>5, Associative, Joined, ZenonT(30)
    <3>4. Received' = Received /\ Received \o (wire \o out) \in Seq(Int)
      <4>1. Received' = Received
        BY <1>1 DEF Received
      <4> QED
        BY <1>3, <4>1, ToComeTypes DEF IInv, ToCome
    <3> QED
      BY <1>1, <1>9, <3>1, <3>2, <3>3, <3>4, Relocate
  <2> QED
    BY <2>1, <2>2
<1> QED
  BY <1>10, <1>11, <1>12, <1>13 DEF IInv

LEMMA ResetKeeps ==
  ASSUME IInv, Reset
  PROVE  IInv'
<1>1. /\ reset' = TRUE /\ wire' = <<>>
      /\ UNCHANGED <<fin, spc, out, sending, sent, rpc, buffer, size, got>>
  BY DEF Reset, sender, receiver
<1>2. Types'
  <2>1. <<>> \in Seq(Byte) /\ Len(<<>>) <= Room
    BY FramingAssumption
  <2> QED
    BY <1>1, <2>1 DEF IInv, Types, TypeOK
<1>3. SenderInv' /\ Begun' = Begun /\ Received' = Received /\ (Reading' => Reading)
  BY <1>1 DEF IInv, SenderInv, Begun, Received, Reading
<1>4. ReceiverInv'
  BY <1>1, <1>3 DEF IInv, ReceiverInv, Reading, Asked
<1>5. Located'
  <2>1. CASE ~Reading
    BY <1>3, <2>1 DEF Located
  <2>2. CASE Reading
    <3>1. PICK f, lost : At(f, lost)
      BY <2>2 DEF IInv, Located
    <3>2. lost \in Seq(Int)
      BY <3>1 DEF At
    <3>3. Received \o (lost \o out) \in Seq(Int)
      BY <3>2, ToComeTypes DEF IInv, ToCome
    <3> QED
      BY <1>1, <1>3, <3>1, <3>2, <3>3, Relocate
  <2> QED
    BY <2>1, <2>2
<1> QED
  BY <1>2, <1>3, <1>4, <1>5 DEF IInv

\* What was under way, and what the receiver has: the border moves.
LEMMA RecvSomeKeeps ==
  ASSUME IInv, NEW n \in 1 .. Len(wire), RecvSome(n)
  PROVE  IInv'
<1> DEFINE a == SubSeq(wire, 1, n)
           b == SubSeq(wire, n + 1, Len(wire))
<1>1. /\ Receiving /\ ~reset /\ n \in 1 .. Asked - Len(buffer)
      /\ buffer' = buffer \o a /\ wire' = b
      /\ UNCHANGED <<spc, out, sending, sent, fin, reset, rpc, size, got>>
  BY DEF RecvSome, sender
<1>2. /\ wire \in Seq(Byte) /\ wire \in Seq(Int) /\ buffer \in Seq(Byte) /\ buffer \in Seq(Int)
      /\ out \in Seq(Int) /\ size \in Int
  BY BytesAreInts DEF IInv, Types, TypeOK
<1>3. /\ a \in Seq(Byte) /\ b \in Seq(Byte) /\ Len(a) = n /\ Len(b) = Len(wire) - n
      /\ a \o b = wire
  BY <1>2, Cut
<1>4. a \in Seq(Int) /\ b \in Seq(Int)
  BY <1>3, BytesAreInts
<1> HIDE DEF a, b
<1>5. buffer \o a \in Seq(Byte) /\ Len(buffer \o a) = Len(buffer) + n
  <2>1. buffer \o a \in Seq(Byte) /\ Len(buffer \o a) = Len(buffer) + Len(a)
    BY <1>2, <1>3, ConcatProperties
  <2> QED
    BY <1>3, <2>1
<1>6. Types'
  <2>1. Len(wire') <= Room
    <3>1. Len(wire) \in Nat /\ Room \in Nat /\ Len(wire) <= Room
      BY <1>2, FramingAssumption DEF IInv, Types
    <3> QED
      BY <1>1, <1>3, <3>1
  <2> QED
    BY <1>1, <1>3, <1>5, <2>1 DEF IInv, Types, TypeOK
<1>7. SenderInv' /\ Begun' = Begun /\ Reading /\ Reading'
  BY <1>1 DEF IInv, SenderInv, Begun, Receiving, Reading
<1>8. ReceiverInv'
  <2>1. Asked' = Asked /\ Asked \in Int
    BY <1>1, <1>2, LengthSizeIsFour DEF Asked
  <2>2. Len(buffer') <= Asked'
    BY <1>1, <1>2, <1>5, <2>1
  <2>3. /\ Len(got') <= Len(sent')
        /\ \A i \in 1 .. Len(got') : got'[i] = sent'[i]
        /\ rpc' = "data" => Len(got') < Len(Begun') /\ size' = Len(Begun'[Len(got') + 1])
    BY <1>1, <1>7 DEF IInv, ReceiverInv
  <2> QED
    BY <2>2, <2>3 DEF ReceiverInv
<1>9. Located'
  <2>1. PICK f, lost : At(f, lost)
    BY <1>7 DEF IInv, Located
  <2>2. lost = wire
    BY <1>1, <2>1 DEF At
  <2>3. Received' = Received \o a /\ Received \in Seq(Int)
    <3>1. Received \in Seq(Int)
      BY <1>2, ToComeTypes DEF IInv
    <3>2. CASE rpc = "data"
      <4> DEFINE length == pack(LengthFormat, <<size>>)
      <4>1. length \in Seq(Int)
        BY <1>2, LengthBytes, FourLong
      <4>2. Received = length \o buffer /\ Received' = length \o (buffer \o a)
        BY <1>1, <3>2 DEF Received
      <4> HIDE DEF length
      <4>3. (length \o buffer) \o a = length \o (buffer \o a)
        BY <1>2, <1>4, <4>1, Associative
      <4> QED
        BY <3>1, <4>2, <4>3
    <3>3. CASE rpc # "data"
      BY <1>1, <3>1, <3>3 DEF Received
    <3> QED
      BY <3>2, <3>3
  <2>4. b \o out \in Seq(Int) /\ wire \o out = a \o (b \o out)
    <3>1. (a \o b) \o out = a \o (b \o out)
      BY <1>2, <1>4, Associative, ZenonT(30)
    <3> QED
      BY <1>2, <1>3, <1>4, <3>1, Joined
  <2>5. (Received \o a) \o (b \o out) = Received \o (wire \o out)
    <3>1. (Received \o a) \o (b \o out) = Received \o (a \o (b \o out))
      BY <1>4, <2>3, <2>4, Associative
    <3> QED
      BY <2>4, <3>1
  <2>6. Received \o (wire \o out) \in Seq(Int)
    BY <1>2, ToComeTypes DEF IInv, ToCome
  <2>7. Received' \o (b \o out') = Received \o (lost \o out)
    BY <1>1, <2>2, <2>3, <2>5
  <2>8. Received' \o (b \o out') \in Seq(Int)
    BY <2>2, <2>6, <2>7
  <2> QED
    BY <1>1, <1>4, <1>7, <2>1, <2>7, <2>8, Relocate
<1> QED
  BY <1>6, <1>7, <1>8, <1>9 DEF IInv

LEMMA ReceiverEndsKeeps ==
  ASSUME IInv, RecvError \/ StreamEnded
  PROVE  IInv'
<1>1. /\ rpc' \in {"failed", "ended"}
      /\ UNCHANGED <<spc, out, sending, sent, wire, fin, reset, buffer, size, got>>
  BY DEF RecvError, StreamEnded, sender, stream
<1>2. Types'
  BY <1>1 DEF IInv, Types, TypeOK
<1>3. SenderInv' /\ ReceiverInv' /\ Located'
  BY <1>1 DEF IInv, SenderInv, ReceiverInv, Located, Reading
<1> QED
  BY <1>2, <1>3 DEF IInv

\* Four bytes are there: they are the length of a packet that was sent.
LEMMA LengthIsThere ==
  ASSUME IInv, rpc = "length", Len(buffer) = LengthSize
  PROVE  /\ Len(got) < Len(Begun) /\ Begun[Len(got) + 1] \in Packets
         /\ buffer = packi32(Len(Begun[Len(got) + 1]))
         /\ unpack(buffer, LengthFormat)[1] = Len(Begun[Len(got) + 1])
<1> DEFINE g == Len(got)
           p == Begun[g + 1]
<1>1. PICK f, lost : At(f, lost)
  BY DEF IInv, Located, Reading
<1>2. /\ g \in Nat /\ Len(Begun) \in Nat /\ g <= Len(Begun)
      /\ \A i \in 1 .. Len(Begun) : Begun[i] \in Packets
  <2>1. g \in Nat /\ Len(sent) \in Nat /\ g <= Len(sent)
    BY DEF IInv, Types, TypeOK, ReceiverInv, Reading
  <2>2. /\ Len(Begun) \in Nat /\ (Len(Begun) = Len(sent) \/ Len(Begun) = Len(sent) + 1)
        /\ \A i \in 1 .. Len(Begun) : Begun[i] \in Packets
    BY BegunTypes DEF IInv
  <2> QED
    BY <2>1, <2>2
<1>3. /\ lost \in Seq(Int) /\ out \in Seq(Int) /\ buffer \in Seq(Int) /\ lost \o out \in Seq(Int)
      /\ ToCome(lost) = buffer \o (lost \o out)
      /\ Len(ToCome(lost)) = Len(buffer) + Len(lost) + Len(out)
  <2>1. lost \in Seq(Int)
    BY <1>1 DEF At
  <2>2. Received = buffer
    BY DEF Received
  <2> QED
    BY <2>1, <2>2, ToComeTypes DEF IInv, ToCome
<1>4. ToCome(lost) # <<>>
  <2>1. Len(lost) \in Nat /\ Len(out) \in Nat /\ Len(buffer) = 4
    BY <1>3, LengthSizeIsFour
  <2>2. Len(ToCome(lost)) # 0
    BY <1>3, <2>1
  <2> QED
    BY <2>2, EmptySeq
<1>5. g < Len(Begun) /\ p \in Packets
  <2>1. g # Len(Begun)
    BY <1>1, <1>2, <1>4, Place DEF IInv
  <2>2. g < Len(Begun) /\ g + 1 \in 1 .. Len(Begun)
    BY <1>2, <2>1
  <2> QED
    BY <1>2, <2>2
<1>6. PICK more \in Seq(Int) : ToCome(lost) = serialize(p) \o more
  BY <1>1, <1>2, <1>5, Place DEF IInv
<1> HIDE DEF p
<1>7. /\ p \in Seq(Int) /\ Len(p) \in Int /\ serialize(p) = packi32(Len(p)) \o p
      /\ packi32(Len(p)) \in Seq(Int) /\ Len(packi32(Len(p))) = 4
  <2>1. p \in Seq(Int) /\ Len(p) \in Int /\ serialize(p) = packi32(Len(p)) \o p
    BY <1>5, Serialized
  <2> QED
    BY <2>1, FourLong
<1>8. (packi32(Len(p)) \o p) \o more = packi32(Len(p)) \o (p \o more) /\ p \o more \in Seq(Int)
  BY <1>7, Associative, Joined
<1>9. buffer \o (lost \o out) = packi32(Len(p)) \o (p \o more)
  BY <1>3, <1>6, <1>7, <1>8
<1>10. buffer = packi32(Len(p))
  <2>1. Len(buffer) = Len(packi32(Len(p)))
    BY <1>7, LengthSizeIsFour
  <2> QED
    BY <1>3, <1>7, <1>8, <1>9, <2>1, SameCut
<1>11. unpack(buffer, LengthFormat)[1] = Len(p)
  BY <1>5, <1>10, LengthReadBack
<1> QED
  BY <1>5, <1>10, <1>11 DEF p

LEMMA LengthReceivedKeeps ==
  ASSUME IInv, LengthReceived
  PROVE  IInv'
<1> DEFINE p == Begun[Len(got) + 1]
<1>1. /\ rpc = "length" /\ Len(buffer) = LengthSize
      /\ size' = unpack(buffer, LengthFormat)[1] /\ buffer' = <<>>
      /\ rpc' \in {"data", "failed"}
      /\ UNCHANGED <<spc, out, sending, sent, wire, fin, reset, got>>
  BY DEF LengthReceived, sender, stream
<1>2. Len(got) < Len(Begun) /\ p \in Packets /\ buffer = packi32(Len(p)) /\ size' = Len(p)
  BY <1>1, LengthIsThere
<1> HIDE DEF p
<1>3. Len(p) \in Nat /\ Len(p) \in Int
  BY <1>2, Serialized
<1>4. Types'
  <2>1. <<>> \in Seq(Byte)
    OBVIOUS
  <2>2. size' \in Int /\ rpc' \in {"length", "data", "ended", "failed"}
    BY <1>1, <1>2, <1>3
  <2> QED
    BY <1>1, <2>1, <2>2 DEF IInv, Types, TypeOK
<1>5. SenderInv' /\ Begun' = Begun
  BY <1>1 DEF IInv, SenderInv, Begun
<1>6. ReceiverInv'
  <2>1. rpc' = "data" => Len(got') < Len(Begun') /\ size' = Len(Begun'[Len(got') + 1])
    BY <1>1, <1>2, <1>5 DEF p
  <2>2. Reading' => Len(buffer') <= Asked'
    <3>1. Len(<<>>) = 0
      OBVIOUS
    <3> QED
      BY <1>1, <1>2, <1>3, <3>1 DEF Reading, Asked
  <2>3. Len(got') <= Len(sent') /\ \A i \in 1 .. Len(got') : got'[i] = sent'[i]
    BY <1>1 DEF IInv, ReceiverInv, Reading
  <2> QED
    BY <2>1, <2>2, <2>3 DEF ReceiverInv
<1>7. CASE rpc' = "data"
  <2>1. Received = buffer
    BY <1>1 DEF Received
  <2>2. Received' = buffer
    <3>1. Received' = pack(LengthFormat, <<Len(p)>>) \o <<>>
      BY <1>1, <1>2, <1>7 DEF Received
    <3>2. pack(LengthFormat, <<Len(p)>>) = packi32(Len(p)) /\ packi32(Len(p)) \in Seq(Int)
      BY <1>3, LengthBytes, FourLong
    <3> QED
      BY <1>2, <3>1, <3>2, ConcatEmptySeq
  <2>3. Located'
    BY <1>1, <1>5, <2>1, <2>2, SamePlace DEF IInv, Reading
  <2> QED
    BY <1>4, <1>5, <1>6, <2>3 DEF IInv
<1>8. CASE rpc' = "failed"
  BY <1>4, <1>5, <1>6, <1>8 DEF IInv, Located, Reading
<1> QED
  BY <1>1, <1>7, <1>8

\* As many bytes as were announced are there: they are the packet's, and the
\* sender has sent all of it.
LEMMA DataIsThere ==
  ASSUME IInv, rpc = "data", Len(buffer) = size
  PROVE  /\ Len(got) < Len(sent) /\ sent[Len(got) + 1] \in Packets
         /\ buffer = sent[Len(got) + 1]
         /\ \E f, lost : /\ At(f, lost)
                         /\ Splits(f[Len(Begun)], f[Len(got) + 1], lost \o out)
<1> DEFINE g == Len(got)
           p == Begun[g + 1]
           n == Len(Begun)
<1>1. PICK f, lost : At(f, lost)
  BY DEF IInv, Located, Reading
<1>2. /\ g \in Nat /\ n \in Nat /\ Len(sent) \in Nat /\ g <= Len(sent) /\ g < n /\ g <= n
      /\ size = Len(p)
  BY BegunTypes DEF IInv, Types, TypeOK, ReceiverInv, Reading
<1>3. p \in Packets
  <2>1. g + 1 \in 1 .. n
    BY <1>2
  <2> QED
    BY <2>1, BegunTypes DEF IInv
<1>4. PICK more \in Seq(Int) :
        /\ ToCome(lost) = serialize(p) \o more
        /\ f[n] = f[g + 1] \o more
        /\ g + 1 = n => more = <<>>
  BY <1>1, <1>2, Place DEF IInv
<1> HIDE DEF p, n
<1>6. /\ p \in Seq(Int) /\ Len(p) \in Int /\ serialize(p) = packi32(Len(p)) \o p
      /\ Len(buffer) = Len(p)
  BY <1>2, <1>3, Serialized, SMTT(20)
<1> DEFINE length == packi32(Len(p))
<1>7. length \in Seq(Int)
  BY <1>6, FourLong
<1>8. /\ lost \in Seq(Int) /\ out \in Seq(Int) /\ buffer \in Seq(Int) /\ lost \o out \in Seq(Int)
      /\ ToCome(lost) = (length \o buffer) \o (lost \o out)
  <2>1. lost \in Seq(Int)
    BY <1>1 DEF At
  <2>2. Received = length \o buffer
    BY <1>2, <1>6, LengthBytes DEF Received
  <2> QED
    BY <2>1, <2>2, ToComeTypes DEF IInv, ToCome
<1> HIDE DEF length
<1>9. buffer = p /\ lost \o out = more
  <2>1. (length \o buffer) \o (lost \o out) = length \o (buffer \o (lost \o out))
    BY <1>7, <1>8, Associative
  <2>2. (length \o p) \o more = length \o (p \o more)
    BY <1>6, <1>7, Associative
  <2>3. length \o (buffer \o (lost \o out)) = length \o (p \o more)
    BY <1>4, <1>6, <1>8, <2>1, <2>2 DEF length
  <2>4. buffer \o (lost \o out) \in Seq(Int) /\ p \o more \in Seq(Int)
    BY <1>6, <1>8, Joined
  <2>5. buffer \o (lost \o out) = p \o more
    BY <1>7, <2>3, <2>4, CancelLeft
  <2> QED
    BY <1>6, <1>8, <2>5, SameCut
<1>10. g < Len(sent)
  <2>1. SUFFICES ASSUME g = Len(sent) PROVE FALSE
    BY <1>2, <2>1
  <2>2. out # <<>> /\ n = g + 1
    BY <1>2, <2>1, BegunTypes DEF IInv, n
  <2>3. lost \o out = <<>>
    BY <1>4, <1>9, <2>2
  <2>4. Len(lost \o out) = Len(lost) + Len(out) /\ Len(lost) \in Nat /\ Len(out) \in Nat
    BY <1>8, Joined
  <2>5. Len(out) = 0
    BY <2>3, <2>4
  <2> QED
    BY <1>8, <2>2, <2>5, EmptySeq
<1>11. p = sent[g + 1]
  <2>1. g + 1 \in 1 .. Len(sent)
    BY <1>2, <1>10
  <2> QED
    BY <2>1, BegunTypes DEF IInv, p
<1>12. Splits(f[n], f[g + 1], lost \o out)
  BY <1>4, <1>8, <1>9 DEF Splits
<1> QED
  BY <1>1, <1>3, <1>9, <1>10, <1>11, <1>12 DEF n

LEMMA DataReceivedKeeps ==
  ASSUME IInv, DataReceived
  PROVE  IInv'
<1> DEFINE g == Len(got)
<1>1. /\ rpc = "data" /\ Len(buffer) = size
      /\ got' = Append(got, buffer) /\ rpc' = "length" /\ buffer' = <<>>
      /\ UNCHANGED <<spc, out, sending, sent, wire, fin, reset, size>>
  BY DEF DataReceived, sender, stream
<1>2. /\ g < Len(sent) /\ sent[g + 1] \in Packets /\ buffer = sent[g + 1]
      /\ \E f, lost : /\ At(f, lost)
                      /\ Splits(f[Len(Begun)], f[g + 1], lost \o out)
  BY <1>1, DataIsThere
<1>3. /\ got \in Seq(Seq(Byte)) /\ buffer \in Seq(Byte) /\ sent \in Seq(Packets) /\ size \in Int
      /\ g \in Nat /\ Len(sent) \in Nat
  BY DEF IInv, Types, TypeOK
<1>4. /\ got' \in Seq(Seq(Byte)) /\ Len(got') = g + 1
      /\ \A i \in 1 .. g : got'[i] = got[i]
      /\ got'[g + 1] = buffer
  BY <1>1, <1>3, AppendProperties
<1>5. Types'
  <2>1. <<>> \in Seq(Byte)
    OBVIOUS
  <2> QED
    BY <1>1, <1>4, <2>1 DEF IInv, Types, TypeOK
<1>6. SenderInv' /\ Begun' = Begun
  BY <1>1 DEF IInv, SenderInv, Begun
<1>7. ReceiverInv'
  <2>1. Len(got') <= Len(sent')
    BY <1>1, <1>2, <1>3, <1>4
  <2>2. ASSUME NEW i \in 1 .. Len(got') PROVE got'[i] = sent'[i]
    <3>1. \A j \in 1 .. g : got[j] = sent[j]
      BY <1>1 DEF IInv, ReceiverInv, Reading
    <3>2. i \in 1 .. g \/ i = g + 1
      BY <1>3, <1>4
    <3> QED
      BY <1>1, <1>2, <1>4, <3>1, <3>2
  <2>3. Len(buffer') <= Asked'
    BY <1>1, LengthSizeIsFour DEF Asked, LengthSize
  <2> QED
    BY <1>1, <2>1, <2>2, <2>3 DEF ReceiverInv
<1>8. Located'
  <2>1. PICK f, lost : /\ At(f, lost)
                       /\ Splits(f[Len(Begun)], f[g + 1], lost \o out)
    BY <1>2
  <2>2. lost \o out \in Seq(Int)
    BY <2>1 DEF Splits
  <2>3. Received' \o (lost \o out') = lost \o out
    <3>1. Received' = <<>>
      BY <1>1 DEF Received
    <3> QED
      BY <1>1, <2>2, <3>1, ConcatEmptySeq
  <2>4. Splits(f[Len(Begun')], f[Len(got')], Received' \o (lost \o out'))
    BY <1>4, <1>6, <2>1, <2>3
  <2>5. At(f, lost)'
    BY <1>1, <1>6, <2>1, <2>4 DEF At, Bytes
  <2> QED
    BY <2>5 DEF Located
<1> QED
  BY <1>5, <1>6, <1>7, <1>8 DEF IInv

\* The stream ends, and what sendall did not send is never asked for: the
\* receiver had every packet that was sent whole.
LEMMA EndIsTheEnd ==
  ASSUME IInv, StreamEnded
  PROVE  spc = "over" /\ got = sent
<1> DEFINE g == Len(got)
           n == Len(Begun)
<1>1. /\ Reading /\ Len(buffer) < Asked /\ fin /\ wire = <<>> /\ ~reset
  <2>1. Len(buffer) \in Int
    BY DEF IInv, Types, TypeOK
  <2>2. Asked \in Int
    BY LengthSizeIsFour DEF IInv, Types, TypeOK, Asked
  <2> QED
    BY <2>1, <2>2 DEF StreamEnded, RecvallOver, Reading
<1>2. PICK f, lost : At(f, lost)
  BY <1>1 DEF IInv, Located
<1>3. lost = <<>> /\ lost \in Seq(Int)
  BY <1>1, <1>2 DEF At
<1>4. /\ g \in Nat /\ n \in Nat /\ Len(sent) \in Nat /\ g <= Len(sent)
      /\ out = <<>> => n = Len(sent)
      /\ out # <<>> => n = Len(sent) + 1
  BY <1>1, BegunTypes DEF IInv, Types, TypeOK, ReceiverInv
<1>5. /\ out \in Seq(Int) /\ Len(out) \in Nat /\ Len(Received) \in Nat
      /\ Len(ToCome(lost)) = Len(Received) + Len(out)
  <2>1. Len(lost) = 0 /\ Len(ToCome(lost)) = Len(Received) + Len(lost) + Len(out)
    BY <1>3, ToComeTypes DEF IInv
  <2>2. out \in Seq(Int) /\ Received \in Seq(Int)
    BY <1>3, ToComeTypes DEF IInv
  <2>3. Len(out) \in Nat /\ Len(Received) \in Nat
    BY <2>2
  <2> QED
    BY <2>1, <2>2, <2>3
<1> HIDE DEF n
<1>6. g = Len(sent)
  <2>1. SUFFICES ASSUME g < Len(sent) PROVE FALSE
    BY <1>4
  <2> DEFINE p == Begun[g + 1]
  <2>2. g < n /\ g <= n /\ g + 1 \in 1 .. n /\ (out # <<>> => g + 1 < n)
    BY <1>4, <2>1
  <2>3. p \in Packets
    BY <2>2, BegunTypes DEF IInv, n
  <2>4. PICK more \in Seq(Int) :
          /\ ToCome(lost) = serialize(p) \o more
          /\ g + 1 < n /\ out # <<>> => Len(more) >= Len(out)
    BY <1>2, <2>2, Place DEF IInv, n
  <2>5. rpc = "data" => size = Len(p)
    BY DEF IInv, ReceiverInv
  <2> HIDE DEF p
  <2>6. serialize(p) \in Seq(Int) /\ Len(serialize(p)) = 4 + Len(p) /\ Len(p) \in Nat \ {0}
    BY <2>3, Serialized
  <2>7. Len(Received) < Len(serialize(p))
    <3>1. /\ rpc # "data" => Len(Received) = Len(buffer)
          /\ rpc = "data" => Len(Received) = 4 + Len(buffer)
      BY <1>3, ToComeTypes DEF IInv
    <3>2. Len(buffer) \in Nat
      BY DEF IInv, Types, TypeOK
    <3>3. CASE rpc = "data"
      <4>1. Len(buffer) < Len(p)
        BY <1>1, <2>5, <3>3 DEF Asked
      <4> QED
        BY <2>6, <3>1, <3>2, <3>3, <4>1
    <3>4. CASE rpc # "data"
      <4>1. Len(buffer) < 4
        BY <1>1, <3>4, LengthSizeIsFour DEF Asked, Reading
      <4> QED
        BY <2>6, <3>1, <3>2, <3>4, <4>1
    <3> QED
      BY <3>3, <3>4
  <2>8. Len(ToCome(lost)) = Len(serialize(p)) + Len(more) /\ Len(more) \in Nat
    <3>1. Len(serialize(p) \o more) = Len(serialize(p)) + Len(more)
      BY <2>6, Joined
    <3> QED
      BY <2>4, <3>1
  <2>9. Len(more) >= Len(out)
    <3>1. CASE out = <<>>
      <4>1. Len(out) = 0
        BY <3>1
      <4> QED
        BY <2>8, <4>1
    <3>2. CASE out # <<>>
      BY <2>2, <2>4, <3>2
    <3> QED
      BY <3>1, <3>2
  <2>10. Len(serialize(p)) \in Nat
    BY <2>6
  <2>11. \A r, o, s, m \in Nat : r < s /\ r + o = s + m => ~ (m >= o)
    OBVIOUS
  <2> QED
    BY <1>5, <2>7, <2>8, <2>9, <2>10, <2>11
<1>7. got = sent
  <2>1. \A i \in 1 .. g : got[i] = sent[i]
    BY <1>1 DEF IInv, ReceiverInv
  <2>2. got \in Seq(Seq(Byte)) /\ sent \in Seq(Seq(Byte))
    <3>1. Packets \subseteq Seq(Byte)
      BY FramingAssumption
    <3>2. sent \in Seq(Packets)
      BY DEF IInv, Types, TypeOK
    <3>3. sent \in Seq(Seq(Byte))
      BY <3>1, <3>2, SeqMonotonic
    <3> QED
      BY <3>3 DEF IInv, Types
  <2> QED
    BY <1>6, <2>1, <2>2, SeqEqual
<1>8. spc = "over"
  BY <1>1 DEF IInv, SenderInv
<1> QED
  BY <1>7, <1>8

-------------------------------------------------------------------------------
(* The theorems. *)

LEMMA InitHolds ==
  ASSUME Init
  PROVE  IInv
<1>1. /\ spc = "idle" /\ out = <<>> /\ sending = <<>> /\ sent = <<>> /\ wire = <<>>
      /\ fin = FALSE /\ reset = FALSE /\ rpc = "length" /\ buffer = <<>> /\ size = 0
      /\ got = <<>>
  BY DEF Init
<1>2. Len(<<>>) = 0 /\ <<>> \in Seq(Byte) /\ <<>> \in Seq(Int) /\ <<>> \in Seq(Packets)
      /\ <<>> \in Seq(Seq(Byte)) /\ MaxPackets \in Nat /\ Room \in Nat
  BY FramingAssumption
<1>3. Types
  <2>1. /\ spc \in {"idle", "send", "over"} /\ size \in Int
        /\ rpc \in {"length", "data", "ended", "failed"}
    BY <1>1
  <2>2. fin \in BOOLEAN /\ reset \in BOOLEAN
    BY <1>1, Zenon
  <2>3. /\ out \in Seq(Byte) /\ sending \in Seq(Byte) /\ wire \in Seq(Byte)
        /\ buffer \in Seq(Byte) /\ sent \in Seq(Packets) /\ got \in Seq(Seq(Byte))
    BY <1>1, <1>2
  <2>4. Len(sent) <= MaxPackets /\ Len(wire) <= Room
    <3>1. Len(sent) = 0 /\ Len(wire) = 0
      BY <1>1, <1>2
    <3> QED
      BY <3>1, <1>2
  <2> QED
    BY <2>1, <2>2, <2>3, <2>4, Zenon DEF Types, TypeOK
<1>4. SenderInv
  BY <1>1 DEF SenderInv
<1>5. ReceiverInv
  BY <1>1, <1>2, LengthSizeIsFour DEF ReceiverInv, Asked
<1>6. Located
  <2>1. Begun = <<>> /\ Len(Begun) = 0
    BY <1>1, <1>2 DEF Begun
  <2>2. PICK f : Chain(f, Bytes(Begun), 0)
    BY ChainExists
  <2>3. f[0] = <<>>
    <3>1. \A i \in 0 .. 0 : f[i] = IF i = 0 THEN <<>> ELSE f[i - 1] \o Bytes(Begun)[i]
      BY <2>2, Zenon DEF Chain
    <3> QED
      BY <3>1
  <2>4. Received \o (<<>> \o out) = <<>> /\ <<>> \o <<>> = <<>>
    <3>1. Received = <<>> /\ <<>> \o <<>> = <<>>
      BY <1>1, <1>2, ConcatEmptySeq DEF Received
    <3> QED
      BY <1>1, <3>1
  <2>5. Splits(f[Len(Begun)], f[Len(got)], Received \o (<<>> \o out))
    BY <1>1, <1>2, <2>1, <2>3, <2>4 DEF Splits
  <2>6. At(f, <<>>)
    BY <1>1, <1>2, <2>1, <2>2, <2>5 DEF At
  <2> QED
    BY <2>6 DEF Located
<1> QED
  BY <1>3, <1>4, <1>5, <1>6 DEF IInv

LEMMA StepKeeps ==
  ASSUME IInv, [Next]_vars
  PROVE  IInv'
<1>1. ASSUME NEW p \in Packets, send_simple_packet(p) PROVE IInv'
  BY <1>1, SendPacketKeeps
<1>2. ASSUME SendNoMemory \/ SendError \/ SenderStops PROVE IInv'
  BY <1>2, SenderEndsKeeps
<1>3. ASSUME NEW n \in 1 .. Len(out), SendSome(n) PROVE IInv'
  BY <1>3, SendSomeKeeps
<1>4. ASSUME Reset PROVE IInv'
  BY <1>4, ResetKeeps
<1>5. ASSUME NEW n \in 1 .. Len(wire), RecvSome(n) PROVE IInv'
  BY <1>5, RecvSomeKeeps
<1>6. ASSUME RecvError \/ StreamEnded PROVE IInv'
  BY <1>6, ReceiverEndsKeeps
<1>7. ASSUME LengthReceived PROVE IInv'
  BY <1>7, LengthReceivedKeeps
<1>8. ASSUME DataReceived PROVE IInv'
  BY <1>8, DataReceivedKeeps
<1>9. ASSUME UNCHANGED vars PROVE IInv'
  <2>1. UNCHANGED <<spc, out, sending, wire, fin, reset, rpc, buffer, size, sent, got>>
    BY <1>9 DEF vars
  <2>2. Types' /\ SenderInv' /\ ReceiverInv'
    BY <2>1 DEF IInv, Types, TypeOK, SenderInv, ReceiverInv, Begun, Reading, Asked
  <2>3. Begun' = Begun /\ Received' = Received /\ (Reading' => Reading)
    BY <2>1 DEF Begun, Received, Reading
  <2>4. Located'
    BY <2>1, <2>3, SamePlace DEF IInv
  <2> QED
    BY <2>2, <2>4 DEF IInv
<1> QED
  BY <1>1, <1>2, <1>3, <1>4, <1>5, <1>6, <1>7, <1>8, <1>9 DEF Next, Send, Receive, Terminated

LEMMA Inductive == Spec => []IInv
<1>1. Init => IInv
  BY InitHolds
<1>2. IInv /\ [Next]_vars => IInv'
  BY StepKeeps
<1> QED
  BY <1>1, <1>2, PTL DEF Spec

\* Framing.TypeOK, for every set of packets and every cut of the stream.
THEOREM TypeCorrect == Spec => []TypeOK
<1>1. IInv => TypeOK
  BY DEF IInv, Types
<1> QED
  BY <1>1, Inductive, PTL

\* The bytes of packets are the last link of their chain.
LEMMA StreamIsChain ==
  ASSUME NEW ps, Len(ps) \in Nat
  PROVE  \E f : Chain(f, Bytes(ps), Len(ps)) /\ Stream(ps) = f[Len(ps)]
<1> DEFINE n == Len(ps)
           Ok(f) == f = [i \in 0 .. n |-> IF i = 0 THEN <<>> ELSE f[i - 1] \o serialize(ps[i])]
           put == CHOOSE f : Ok(f)
<1>1. ASSUME NEW f PROVE Chain(f, Bytes(ps), n) <=> Ok(f)
  <2>1. \A i \in 0 .. n : i # 0 => Bytes(ps)[i] = serialize(ps[i])
    BY DEF Bytes
  <2>2. [i \in 0 .. n |-> IF i = 0 THEN <<>> ELSE f[i - 1] \o Bytes(ps)[i]]
        = [i \in 0 .. n |-> IF i = 0 THEN <<>> ELSE f[i - 1] \o serialize(ps[i])]
    BY <2>1
  <2> QED
    BY <2>2, Zenon DEF Chain
<1>2. \E f : Ok(f)
  BY <1>1, ChainExists
<1>3. Ok(put)
  <2> HIDE DEF Ok
  <2> QED
    BY <1>2
<1>4. Stream(ps) = put[n]
  BY DEF Stream
<1> QED
  <2> HIDE DEF put, Ok, n
  <2> QED
    BY <1>1, <1>3, <1>4 DEF n

\* In a chain of more packets they are the link of the last of them.
LEMMA StreamIsLink ==
  ASSUME NEW n \in Nat, NEW items, NEW f, Chain(f, items, n),
         NEW ps, Len(ps) \in 0 .. n, \A i \in 1 .. Len(ps) : items[i] = serialize(ps[i])
  PROVE  Stream(ps) = f[Len(ps)]
<1> DEFINE k == Len(ps)
<1>1. k \in Nat /\ k <= n
  OBVIOUS
<1>2. PICK g : Chain(g, Bytes(ps), k) /\ Stream(ps) = g[k]
  BY <1>1, StreamIsChain
<1>3. \A i \in 0 .. k : g[i] = IF i = 0 THEN <<>> ELSE g[i - 1] \o Bytes(ps)[i]
  BY <1>2, Zenon DEF Chain
<1>4. \A i \in 0 .. n : f[i] = IF i = 0 THEN <<>> ELSE f[i - 1] \o items[i]
  BY Zenon DEF Chain
<1>5. \A i \in 1 .. k : items[i] = Bytes(ps)[i]
  BY DEF Bytes
<1> HIDE DEF k
<1> DEFINE T == {i \in 0 .. k : g[i] # f[i]}
<1>6. SUFFICES ASSUME T # {} PROVE FALSE
  <2>1. k \in 0 .. k
    BY <1>1
  <2>2. T = {} => g[k] = f[k]
    BY <2>1
  <2> QED
    BY <1>2, <1>6, <2>2 DEF k
<1>7. PICK j \in T : \A m \in T : j <= m
  <2>1. T \subseteq Nat
    OBVIOUS
  <2> HIDE DEF T
  <2> QED
    BY <1>6, <2>1, LeastNumber
<1>8. j \in 0 .. k /\ g[j] # f[j] /\ j \in 0 .. n
  BY <1>1, <1>7
<1>9. j # 0
  BY <1>3, <1>4, <1>8
<1>10. j - 1 \in 0 .. k /\ ~ (j <= j - 1) /\ j \in 1 .. k
  BY <1>1, <1>8, <1>9
<1>11. g[j - 1] = f[j - 1]
  BY <1>7, <1>10
<1>12. g[j] = g[j - 1] \o Bytes(ps)[j] /\ f[j] = f[j - 1] \o items[j]
  BY <1>3, <1>4, <1>8, <1>9
<1> QED
  BY <1>5, <1>8, <1>10, <1>11, <1>12

\* common.c:245-289 and 291-357: whatever each send and recv moves, the bytes on
\* their way are those of whole packets, in order, and the length
\* recv_simple_packet works with is that of the very packet the sender
\* announced.
THEOREM StaysInStep == Spec => []InStep
<1>1. IInv => InStep
  <2>1. SUFFICES ASSUME IInv, Reading PROVE InStep
    BY DEF InStep
  <2>2. Types /\ SenderInv
    BY <2>1 DEF IInv
  <2>3. rpc = "data" => Len(got) < Len(Begun) /\ size = Len(Begun[Len(got) + 1])
    BY <2>1 DEF IInv, ReceiverInv
  <2>4. PICK f, lost : At(f, lost)
    BY <2>1 DEF IInv, Located
  <2>5. /\ Chain(f, Bytes(Begun), Len(Begun)) /\ lost \in Seq(Int) /\ (~reset => lost = wire)
        /\ f[Len(Begun)] = f[Len(got)] \o (Received \o (lost \o out))
    BY <2>4 DEF At, Splits
  <2>6. Len(got) \in 0 .. Len(Begun) /\ \A i \in 1 .. Len(got) : Bytes(Begun)[i] = serialize(got[i])
    <3>1. /\ Len(Begun) \in Nat
          /\ \A i \in 1 .. Len(Begun) : Bytes(Begun)[i] = serialize(Begun[i])
          /\ \A i \in 1 .. Len(sent) : Begun[i] = sent[i]
          /\ Len(Begun) = Len(sent) \/ Len(Begun) = Len(sent) + 1
      BY <2>2, BegunTypes
    <3>2. Len(got) \in Nat /\ Len(sent) \in Nat
      BY <2>2 DEF Types, TypeOK
    <3>3. Len(got) <= Len(sent) /\ \A i \in 1 .. Len(got) : got[i] = sent[i]
      BY <2>1 DEF IInv, ReceiverInv
    <3> QED
      BY <3>1, <3>2, <3>3
  <2>7. Len(Begun) \in Nat /\ \A i \in 1 .. Len(Begun) : Bytes(Begun)[i] = serialize(Begun[i])
    BY <2>2, BegunTypes
  <2>8. Stream(got) = f[Len(got)]
    BY <2>5, <2>6, <2>7, StreamIsLink
  <2>9. Stream(Begun) = f[Len(Begun)]
    <3>1. Len(Begun) \in 0 .. Len(Begun)
      BY <2>7
    <3>2. Chain(f, Bytes(Begun), Len(Begun))
      BY <2>5
    <3> QED
      BY <2>7, <3>1, <3>2, StreamIsLink
  <2>10. /\ f[Len(got)] \in Seq(Int)
         /\ Received \in Seq(Int) /\ out \in Seq(Int) /\ lost \o out \in Seq(Int)
    <3>1. Len(got) <= Len(Begun)
      BY <2>6, <2>7
    <3>2. f[Len(got)] \in Seq(Int)
      BY <2>2, <2>4, <3>1, Place
    <3> QED
      BY <2>2, <2>5, <3>2, ToComeTypes
  <2> DEFINE a == Stream(got)
             known == a \o Received
             more == lost \o out
  <2>11. a \in Seq(Int) /\ known \in Seq(Int) /\ more \in Seq(Int) /\ lost \in Seq(Int)
    BY <2>5, <2>8, <2>10, Joined
  <2>12. \A x, y, z \in Seq(Int) : (x \o y) \o z = x \o (y \o z)
    BY Associative
  <2> HIDE DEF a, more
  <2>13. Stream(Begun) = known \o more
    <3>1. (a \o Received) \o more = a \o (Received \o more)
      <4>1. a \in Seq(Int) /\ Received \in Seq(Int) /\ more \in Seq(Int)
        BY <2>10, <2>11
      <4> QED
        BY <4>1, <2>12, Zenon
    <3>2. Stream(Begun) = a \o (Received \o more)
      BY <2>5, <2>8, <2>9 DEF a, more
    <3> QED
      BY <3>1, <3>2
  <2> HIDE DEF known
  <2>14. ASSUME ~reset PROVE (known \o wire) \o out = Stream(Begun)
    <3>1. lost = wire
      BY <2>5, <2>14
    <3>2. (known \o lost) \o out = known \o (lost \o out)
      <4>1. known \in Seq(Int) /\ lost \in Seq(Int) /\ out \in Seq(Int)
        BY <2>10, <2>11
      <4> QED
        BY <4>1, <2>12, Zenon
    <3> QED
      BY <2>13, <3>1, <3>2 DEF more
  <2>15. Len(known) \in 0 .. Len(Stream(Begun)) /\ known = SubSeq(Stream(Begun), 1, Len(known))
    BY <2>11, <2>13, Beginning
  <2>16. \E n \in 0 .. Len(Stream(Begun)) : known = SubSeq(Stream(Begun), 1, n)
    BY <2>15
  <2> QED
    BY <2>3, <2>14, <2>16 DEF InStep, known, a
<1> QED
  BY <1>1, Inductive, PTL

\* common.c:360-448: the stream is a queue of packets.  Each step of the two
\* processes is a step of PacketQueue or leaves its variables alone: what
\* recv_simple_packet returns is the next packet send_simple_packet was given,
\* and it finds the end only behind the last one.
THEOREM ImplementsQueue == Spec => Queue!Spec
<1>1. Init => Queue!Init
  BY DEF Init, Queue!Init, SenderOver, ReceiverOver
<1>2. IInv /\ [Next]_vars => [Queue!Next]_(Queue!vars)
  <2> SUFFICES ASSUME IInv, [Next]_vars PROVE [Queue!Next]_(Queue!vars)
    OBVIOUS
  <2> USE DEF Queue!Next, Queue!vars
  <2>1. ASSUME NEW p \in Packets, send_simple_packet(p) PROVE UNCHANGED Queue!vars
    BY <2>1 DEF send_simple_packet, receiver, SenderOver, ReceiverOver
  <2>2. ASSUME SendNoMemory \/ SendError \/ SenderStops PROVE Queue!Stop
    BY <2>2 DEF SendNoMemory, SendError, SenderStops, receiver, SenderOver, ReceiverOver, Queue!Stop
  <2>3. ASSUME NEW n \in 1 .. Len(out), SendSome(n) PROVE Queue!Next \/ UNCHANGED Queue!vars
    <3>1. spc = "send" /\ UNCHANGED <<rpc, got>>
      BY <2>3 DEF SendSome, receiver
    <3>2. CASE n = Len(out)
      <4>1. spc' = "idle" /\ sent' = Append(sent, sending)
        BY <2>3, <3>2 DEF SendSome
      <4>2. sending \in Packets
        BY <3>1 DEF IInv, SenderInv
      <4>3. Queue!Write(sending)
        BY <3>1, <4>1 DEF Queue!Write, SenderOver, ReceiverOver
      <4> QED
        BY <4>2, <4>3
    <3>3. CASE n # Len(out)
      BY <2>3, <3>1, <3>3 DEF SendSome, SenderOver, ReceiverOver
    <3> QED
      BY <3>2, <3>3
  <2>4. ASSUME Reset PROVE UNCHANGED Queue!vars
    BY <2>4 DEF Reset, sender, receiver, SenderOver, ReceiverOver
  <2>5. ASSUME NEW n \in 1 .. Len(wire), RecvSome(n) PROVE UNCHANGED Queue!vars
    BY <2>5 DEF RecvSome, sender, SenderOver, ReceiverOver
  <2>6. ASSUME RecvError PROVE Queue!Fail
    BY <2>6 DEF RecvError, Receiving, sender, stream, SenderOver, ReceiverOver, Queue!Fail
  <2>7. ASSUME LengthReceived PROVE Queue!Next \/ UNCHANGED Queue!vars
    <3>1. /\ rpc = "length" /\ rpc' \in {"data", "failed"} /\ UNCHANGED <<spc, sent, got>>
      BY <2>7 DEF LengthReceived, sender, stream
    <3>2. CASE rpc' = "failed"
      BY <3>1, <3>2 DEF Queue!Fail, SenderOver, ReceiverOver
    <3>3. CASE rpc' = "data"
      BY <3>1, <3>3 DEF SenderOver, ReceiverOver
    <3> QED
      BY <3>1, <3>2, <3>3
  <2>8. ASSUME DataReceived PROVE Queue!Read
    <3>1. /\ rpc = "data" /\ Len(buffer) = size /\ rpc' = "length"
          /\ got' = Append(got, buffer) /\ UNCHANGED <<spc, sent>>
      BY <2>8 DEF DataReceived, sender, stream
    <3>2. Len(got) < Len(sent) /\ buffer = sent[Len(got) + 1]
      BY <3>1, DataIsThere
    <3> QED
      BY <3>1, <3>2 DEF Queue!Read, SenderOver, ReceiverOver
  <2>9. ASSUME StreamEnded PROVE Queue!End
    <3>1. /\ rpc \in {"length", "data"} /\ rpc' = "ended" /\ UNCHANGED <<spc, sent, got>>
      BY <2>9 DEF StreamEnded, RecvallOver, sender, stream
    <3>2. spc = "over" /\ got = sent
      BY <2>9, EndIsTheEnd
    <3> QED
      BY <3>1, <3>2 DEF Queue!End, SenderOver, ReceiverOver
  <2>10. ASSUME UNCHANGED vars PROVE UNCHANGED Queue!vars
    BY <2>10 DEF vars, SenderOver, ReceiverOver
  <2> QED
    BY <2>1, <2>2, <2>3, <2>4, <2>5, <2>6, <2>7, <2>8, <2>9, <2>10
       DEF Next, Send, Receive, Terminated
<1> QED
  BY <1>1, <1>2, Inductive, PTL DEF Spec, Queue!Spec

-------------------------------------------------------------------------------
(* The formats of MCFraming. *)

\* What fits into four bytes fits into eight.
LEMMA FourFitEight ==
  /\ Half * Base * Base * Base \in Nat
  /\ Half * Base * Base * Base <=
       Half * Base * Base * Base * Base * Base * Base * Base
  /\ Base * Base * Base * Base <=
       Base * Base * Base * Base * Base * Base * Base * Base
<1>1. \A a, b \in Nat : b # 0 => a * b \in Nat /\ a <= a * b
  <2>1. ASSUME NEW a \in Nat, NEW b \in Nat, b # 0 PROVE a * b \in Nat /\ a <= a * b
    <3>1. PICK c \in Nat : b = c + 1
      <4>1. b - 1 \in Nat /\ b = (b - 1) + 1
        BY <2>1
      <4> QED
        BY <4>1
    <3>2. a * b = a * c + a /\ a * c \in Nat
      BY <3>1
    <3> QED
      BY <3>2
  <2> QED
    BY <2>1
<1>2. Base \in Nat /\ Base # 0 /\ Half \in Nat
  BY BaseAssumption, BaseIsEven
<1>3. ASSUME NEW a \in Nat
      PROVE  /\ a * Base * Base * Base \in Nat
             /\ a * Base * Base * Base <= a * Base * Base * Base * Base * Base * Base * Base
  <2> DEFINE a1 == a * Base
             a2 == a1 * Base
             a3 == a2 * Base
             a4 == a3 * Base
             a5 == a4 * Base
             a6 == a5 * Base
             a7 == a6 * Base
  <2>1. a1 \in Nat
    BY <1>1, <1>2
  <2> HIDE DEF a1
  <2>2. a2 \in Nat
    BY <1>1, <1>2, <2>1
  <2> HIDE DEF a2
  <2>3. a3 \in Nat
    BY <1>1, <1>2, <2>2
  <2> HIDE DEF a3
  <2>4. a4 \in Nat /\ a3 <= a4
    BY <1>1, <1>2, <2>3
  <2> HIDE DEF a4
  <2>5. a5 \in Nat /\ a4 <= a5
    BY <1>1, <1>2, <2>4
  <2> HIDE DEF a5
  <2>6. a6 \in Nat /\ a5 <= a6
    BY <1>1, <1>2, <2>5
  <2> HIDE DEF a6
  <2>7. a7 \in Nat /\ a6 <= a7
    BY <1>1, <1>2, <2>6
  <2> HIDE DEF a7
  <2>8. a3 <= a7
    BY <2>3, <2>4, <2>5, <2>6, <2>7
  <2> QED
    BY <2>3, <2>8 DEF a1, a2, a3, a4, a5, a6, a7
<1>4. /\ Half * Base * Base * Base \in Nat
      /\ Half * Base * Base * Base <= Half * Base * Base * Base * Base * Base * Base * Base
  BY <1>2, <1>3
<1>5. Base * Base * Base * Base <= Base * Base * Base * Base * Base * Base * Base * Base
  BY <1>2, <1>3
<1> QED
  BY <1>4, <1>5

\* The values of a letter can be packed with it.
LEMMA ValuesFit ==
  ASSUME NEW code \in {"c", "C", "h", "H", "l", "L", "q", "Q"}, NEW strings,
         NEW v \in Values(code, strings)
  PROVE  v \in Int /\ Fits(code, v)
<1> DEFINE h4 == Half * Base * Base * Base
           h8 == Half * Base * Base * Base * Base * Base * Base * Base
           b4 == Base * Base * Base * Base
           b8 == Base * Base * Base * Base * Base * Base * Base * Base
<1>1. Base \in Nat /\ Half \in Nat /\ Half * Base \in Nat /\ Base * Base \in Nat
  BY BaseAssumption, BaseIsEven
<1>2. h4 \in Nat /\ h8 \in Nat /\ b4 \in Nat /\ b8 \in Nat /\ h4 <= h8 /\ b4 <= b8
  BY <1>1, FourFitEight
<1>3. CASE code = "c"
  BY <1>1, <1>3 DEF Values, Fits
<1>4. CASE code = "C"
  BY <1>1, <1>4 DEF Values, Fits, Byte
<1>5. CASE code = "h"
  BY <1>1, <1>5 DEF Values, Fits
<1>6. CASE code = "H"
  BY <1>1, <1>6 DEF Values, Fits
<1>7. CASE code = "l"
  <2>1. v \in -h4 .. h4 - 1
    BY <1>7 DEF Values
  <2>2. v \in Int
    BY <1>2, <2>1
  <2> QED
    BY <1>7, <2>1, <2>2 DEF Fits
<1>8. CASE code = "L"
  <2>1. v \in 0 .. b4 - 1
    BY <1>8 DEF Values
  <2>2. v \in Int
    BY <1>2, <2>1
  <2> QED
    BY <1>8, <2>1, <2>2 DEF Fits
<1>9. CASE code = "q"
  <2>1. v \in -h4 .. h4 - 1
    BY <1>9 DEF Values
  <2>2. v \in Int /\ v \in -h8 .. h8 - 1
    <3> HIDE DEF h4, h8
    <3> QED
      BY <1>2, <2>1
  <2> QED
    BY <1>9, <2>2 DEF Fits
<1>10. CASE code = "Q"
  <2>1. v \in 0 .. b4 - 1
    BY <1>10 DEF Values
  <2>2. v \in Int /\ v \in 0 .. b8 - 1
    <3> HIDE DEF b4, b8
    <3> QED
      BY <1>2, <2>1
  <2> QED
    BY <1>10, <2>2 DEF Fits
<1> QED
  BY <1>3, <1>4, <1>5, <1>6, <1>7, <1>8, <1>9, <1>10

LEMMA StringsAreShort ==
  ASSUME NEW s \in Strings
  PROVE  s \in Seq(Int) /\ Len(s) < Base * Base
<1>1. s \in Seq(Int) /\ Len(s) <= 3
  <2>1. s = <<>> \/ s = <<1>> \/ s = <<2, 1, 3>>
    BY DEF Strings
  <2>2. <<>> \in Seq(Int) /\ Len(<<>>) = 0
    OBVIOUS
  <2>3. <<1>> \in Seq(Int) /\ Len(<<1>>) = 1
    OBVIOUS
  <2>4. <<2, 1, 3>> \in Seq(Int) /\ Len(<<2, 1, 3>>) = 3
    OBVIOUS
  <2>5. CASE s = <<>>
    BY <2>2, <2>5
  <2>6. CASE s = <<1>>
    BY <2>3, <2>6
  <2>7. CASE s = <<2, 1, 3>>
    BY <2>4, <2>7
  <2> QED
    BY <2>1, <2>5, <2>6, <2>7
<1>2. Base * Base >= 4
  <2>1. \A b \in Nat : b >= 2 => b * b >= 4
    <3>1. ASSUME NEW b \in Nat, b >= 2 PROVE b * b >= 4
      <4>1. PICK c \in Nat : b = c + 2
        <5>1. b - 2 \in Nat /\ b = (b - 2) + 2
          BY <3>1
        <5> QED
          BY <5>1
      <4>2. b * b = c * c + 4 * c + 4 /\ c * c \in Nat
        BY <4>1
      <4> QED
        BY <4>2
    <3> QED
      BY <3>1
  <2>2. Base \in Nat /\ Base >= 2
    BY BaseAssumption, BaseIsEven
  <2> QED
    BY <2>1, <2>2
<1>3. Base * Base \in Nat /\ Len(s) \in Nat
  BY <1>1, BaseAssumption
<1> QED
  BY <1>1, <1>2, <1>3

LEMMA AloneRoundTrips ==
  ASSUME NEW code \in {"c", "C", "h", "H", "l", "L", "q", "Q", "s"},
         NEW v \in Values(code, Strings)
  PROVE  LET item == <<[code |-> code, max |-> 0]>> IN
         unpack(pack(item, <<v>>), item) = <<v>>
<1> DEFINE item == <<[code |-> code, max |-> 0]>>
           args == <<v>>
<1>1. /\ Len(item) = 1 /\ DOMAIN item = 1 .. 1 /\ item[1].code = code /\ item[1].max = 0
      /\ args[1] = v
  OBVIOUS
<1>2. Storable(item[1], args[1])
  <2>1. CASE code = "s"
    <3>1. v \in Strings
      BY <2>1 DEF Values
    <3> QED
      BY <1>1, <2>1, <3>1, StringsAreShort DEF Storable
  <2>2. CASE code # "s"
    <3>1. v \in Int /\ Fits(code, v)
      BY <2>2, ValuesFit
    <3> QED
      BY <1>1, <2>2, <3>1 DEF Storable
  <2> QED
    BY <2>1, <2>2
<1>3. Stored(item[1], args[1]) = v
  BY <1>1 DEF Stored
<1> HIDE DEF item, args
<1>4. AllStorable(item, args)
  BY <1>1, <1>2 DEF AllStorable
<1>5. unpack(pack(item, args), item) = [i \in 1 .. Len(item) |-> Stored(item[i], args[i])]
  BY <1>4, FormatRoundTrips
<1>6. [i \in 1 .. Len(item) |-> Stored(item[i], args[i])] = <<v>>
  BY <1>1, <1>3
<1> QED
  BY <1>5, <1>6 DEF item, args

LEMMA BetweenRoundTrips ==
  ASSUME NEW max \in 0 .. 4, NEW s \in Strings, NEW v \in Values("h", Strings)
  PROVE  LET items == << [code |-> "h", max |-> 0], [code |-> "s", max |-> max],
                         [code |-> "q", max |-> 0] >> IN
         unpack(pack(items, <<v, s, -1 - v>>), items) = <<v, Stored(items[2], s), -1 - v>>
<1> DEFINE items == << [code |-> "h", max |-> 0], [code |-> "s", max |-> max],
                       [code |-> "q", max |-> 0] >>
           args == <<v, s, -1 - v>>
<1>1. /\ Len(items) = 3 /\ DOMAIN items = 1 .. 3
      /\ items[1].code = "h" /\ items[2].code = "s" /\ items[3].code = "q"
      /\ items[2].max = max
      /\ args[1] = v /\ args[2] = s /\ args[3] = -1 - v
  OBVIOUS
<1>2. Storable(items[1], args[1])
  <2>1. v \in Int /\ Fits("h", v)
    BY ValuesFit
  <2> QED
    BY <1>1, <2>1 DEF Storable
<1>3. Storable(items[2], args[2])
  BY <1>1, StringsAreShort DEF Storable
<1>4. Storable(items[3], args[3])
  <2> DEFINE h2 == Half * Base
             h4 == Half * Base * Base * Base
             h8 == Half * Base * Base * Base * Base * Base * Base * Base
  <2>1. h2 \in Nat /\ h8 \in Nat /\ h2 <= h8
    <3>1. Half \in Nat /\ Base \in Nat /\ Base >= 2
      BY BaseAssumption, BaseIsEven
    <3>2. h2 \in Nat /\ h4 \in Nat /\ h4 <= h8 /\ h8 \in Nat
      BY <3>1, FourFitEight
    <3>3. h2 <= h4
      <4>1. \A a, b \in Nat : b >= 2 => a <= a * b /\ a * b \in Nat
        <5>1. ASSUME NEW a \in Nat, NEW b \in Nat, b >= 2 PROVE a <= a * b /\ a * b \in Nat
          <6>1. PICK c \in Nat : b = c + 2
            <7>1. b - 2 \in Nat /\ b = (b - 2) + 2
              BY <5>1
            <7> QED
              BY <7>1
          <6>2. a * b = a * c + a + a /\ a * c \in Nat
            BY <6>1
          <6> QED
            BY <6>2
        <5> QED
          BY <5>1
      <4>2. h2 <= h2 * Base /\ h2 * Base \in Nat
        BY <3>1, <3>2, <4>1
      <4>3. h2 * Base <= h2 * Base * Base
        BY <3>1, <4>1, <4>2
      <4>4. h2 * Base * Base = h4
        OBVIOUS
      <4> HIDE DEF h2, h4
      <4> QED
        BY <3>2, <4>2, <4>3, <4>4
    <3> HIDE DEF h2, h4, h8
    <3> QED
      BY <3>2, <3>3
  <2>2. v \in -h2 .. h2 - 1
    BY DEF Values
  <2>3. -1 - v \in Int /\ -1 - v \in -h8 .. h8 - 1
    <3> HIDE DEF h2, h8
    <3> QED
      BY <2>1, <2>2
  <2>4. Fits("q", -1 - v)
    BY <2>3 DEF Fits
  <2> QED
    BY <1>1, <2>3, <2>4 DEF Storable
<1>5. Stored(items[1], args[1]) = v /\ Stored(items[3], args[3]) = -1 - v
  BY <1>1 DEF Stored
<1> HIDE DEF items, args
<1>6. AllStorable(items, args)
  <2>1. \A i \in 1 .. 3 : i = 1 \/ i = 2 \/ i = 3
    OBVIOUS
  <2> QED
    BY <1>1, <1>2, <1>3, <1>4, <2>1 DEF AllStorable
<1>7. unpack(pack(items, args), items) =
        [i \in 1 .. Len(items) |-> Stored(items[i], args[i])]
  BY <1>6, FormatRoundTrips
<1>8. [i \in 1 .. Len(items) |-> Stored(items[i], args[i])]
        = <<v, Stored(items[2], s), -1 - v>>
  <2> DEFINE a == Stored(items[2], s)
             h == [i \in 1 .. 3 |-> Stored(items[i], args[i])]
  <2>1. h[1] = v /\ h[2] = a /\ h[3] = -1 - v
    BY <1>1, <1>5
  <2>2. h = <<h[1], h[2], h[3]>>
    OBVIOUS
  <2> QED
    BY <1>1, <2>1, <2>2
<1> QED
  BY <1>7, <1>8 DEF items, args

\* For every width of a byte, unpack finds what pack stored: every value of every
\* letter alone, and strings between two numbers, cut or not.
THEOREM FormatsCorrect == Spec => []FormatsRoundTrip
<1>1. FormatsRoundTrip
  BY AloneRoundTrips, BetweenRoundTrips DEF FormatsRoundTrip
<1> QED
  BY <1>1, PTL
===============================================================================
