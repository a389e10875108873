--------------------------------- MODULE Pack ---------------------------------
(***************************************************************************)
(* The integer and string formats of src/shared/pack.c.  A byte is a number *)
(* below Base, which is 256 in the program; the shifts by 8 are divisions   *)
(* by Base, so that the lemmas hold for any width of a byte.  The floating- *)
(* point formats f, d and g are left out: the program uses format l alone.  *)
(***************************************************************************)
EXTENDS Integers, Sequences

CONSTANT Base

ASSUME BaseAssumption == Base \in Nat \ {0} /\ Base % 2 = 0

Byte == 0 .. Base - 1
Half == Base \div 2

\* Mutant: the number is stored as it is.
LowWhole(i) == i

\* i >> 8, and the conversion of i to unsigned char.
Shift(i) == i \div Base
Low(i) == i % Base

packi16(i) == <<Low(Shift(i)), Low(i)>>

packi32(i) == packi16(Shift(Shift(i))) \o packi16(i)
packi64(i) == packi32(Shift(Shift(Shift(Shift(i))))) \o packi32(i)

\* buf[0] << 8 | buf[1], and so on.
unpacku16(buf) == buf[1] * Base + buf[2]
unpacku32(buf) == ((buf[1] * Base + buf[2]) * Base + buf[3]) * Base + buf[4]
unpacku64(buf) ==
  (((unpacku32(buf) * Base + buf[5]) * Base + buf[6]) * Base + buf[7]) * Base + buf[8]

\* Change unsigned numbers to signed: limit is 0x80 with as many bytes behind.
Signed(i2, limit) == IF i2 <= limit - 1 THEN i2 ELSE -1 - (limit + limit - 1 - i2)

unpacki16(buf) == Signed(unpacku16(buf), Half * Base)
unpacki32(buf) == Signed(unpacku32(buf), Half * Base * Base * Base)
unpacki64(buf) ==
  Signed(unpacku64(buf), Half * Base * Base * Base * Base * Base * Base * Base)

-------------------------------------------------------------------------------
(* Format strings.  A format is a sequence of items; max is the number in   *)
(* front of the letter, 0 if there is none, which only unpack looks at.     *)

PackItem(code, value) ==
  CASE code \in {"c", "C"} -> <<Low(value)>>
    [] code \in {"h", "H"} -> packi16(value)
    [] code \in {"l", "L"} -> packi32(value)
    [] code \in {"q", "Q"} -> packi64(value)
    [] code = "s"          -> packi16(Len(value)) \o value

\* What pack leaves in the buffer; the size it returns is the length of it.
pack(format, args) ==
  LET packed[i \in 0 .. Len(format)] ==
        IF i = 0 THEN <<>> ELSE packed[i - 1] \o PackItem(format[i].code, args[i])
  IN packed[Len(format)]

\* Mutant: a string that is cut keeps max characters, and no room for its end.
UnpackStringMax(buf, max) ==
  LET len == unpacku16(buf) IN
  SubSeq(buf, 3, 2 + IF max > 0 /\ len > max THEN max ELSE len)

\* memcpy of count characters; the caller's buffer also takes the '\0'.
UnpackString(buf, max) ==
  LET len == unpacku16(buf) IN
  SubSeq(buf, 3, 2 + IF max > 0 /\ len > max THEN max - 1 ELSE len)

UnpackItem(item, buf) ==
  CASE item.code = "c" -> Signed(buf[1], Half)
    [] item.code = "C" -> buf[1]
    [] item.code = "h" -> unpacki16(buf)
    [] item.code = "H" -> unpacku16(buf)
    [] item.code = "l" -> unpacki32(buf)
    [] item.code = "L" -> unpacku32(buf)
    [] item.code = "q" -> unpacki64(buf)
    [] item.code = "Q" -> unpacku64(buf)
    [] item.code = "s" -> UnpackString(buf, item.max)

\* How far buf moves: a string that is cut is skipped whole.
ItemSize(item, buf) ==
  CASE item.code \in {"c", "C"} -> 1
    [] item.code \in {"h", "H"} -> 2
    [] item.code \in {"l", "L"} -> 4
    [] item.code \in {"q", "Q"} -> 8
    [] item.code = "s" -> 2 + unpacku16(buf)

\* What unpack stores through its pointers.
unpack(buf, format) ==
  LET rest[i \in 1 .. Len(format) + 1] ==
        IF i = 1 THEN buf
        ELSE LET b == rest[i - 1] IN
             SubSeq(b, ItemSize(format[i - 1], b) + 1, Len(b))
  IN [i \in DOMAIN format |-> UnpackItem(format[i], rest[i])]

-------------------------------------------------------------------------------
(* Reference definition. *)

\* The values a letter stands for.
Values(code, strings) ==
  CASE code = "c" -> -Half .. Half - 1
    [] code = "C" -> Byte
    [] code = "h" -> -(Half * Base) .. Half * Base - 1
    [] code = "H" -> 0 .. Base * Base - 1
    [] code \in {"l", "q"} -> -(Half * Base * Base * Base) .. Half * Base * Base * Base - 1
    [] code \in {"L", "Q"} -> 0 .. Base * Base * Base * Base - 1
    [] code = "s" -> strings

\* What should come back: the value, or of a string of more than max characters
\* the first max - 1.  (One of exactly max is kept whole, and its '\0' is written
\* behind the max characters.)
Stored(item, value) ==
  IF item.code = "s" /\ item.max > 0 /\ Len(value) > item.max
  THEN SubSeq(value, 1, item.max - 1)
  ELSE value
===============================================================================
