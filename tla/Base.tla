-------------------------------- MODULE Base --------------------------------
(***************************************************************************)
(* base.h: the types byte_t and word_t, and C's arithmetic and bitwise     *)
(* operators on them.  A byte is the number it holds; where a bit matters  *)
(* it is named by its mask, and a byte is the sum of the masks it has set. *)
(***************************************************************************)
EXTENDS Integers

Byte == 0 .. \hFF
Word == 0 .. \hFFFF

\* Conversion of an int to byte_t and to word_t.
ToByte(n) == n % 256
ToWord(n) == n % 65536

MakeWord(hi, lo) == 256 * hi + lo
High(w) == w \div 256
Low(w)  == w % 256

\* (int8_t) b
Signed(b) == IF b < 128 THEN b ELSE b - 256

-----------------------------------------------------------------------------
Masks == {1, 2, 4, 8, 16, 32, 64, 128}

Bit(x, mask) == (x \div mask) % 2 = 1

BitsOf(x) == {m \in Masks : Bit(x, m)}

ByteOf(S) ==
  LET weight(m) == IF m \in S THEN m ELSE 0
  IN  weight(1)  + weight(2)  + weight(4)  + weight(8)
    + weight(16) + weight(32) + weight(64) + weight(128)

\* C's  x & y,  x | y  and  x ^ y.
And(x, y)    == ByteOf(BitsOf(x) \cap BitsOf(y))
Or(x, y)     == ByteOf(BitsOf(x) \cup BitsOf(y))
Xor(x, y)    == ByteOf((BitsOf(x) \cup BitsOf(y)) \ (BitsOf(x) \cap BitsOf(y)))

\* C's  x | mask  and  x & ~mask  where mask is a single bit.
SetBit(x, mask)   == IF Bit(x, mask) THEN x ELSE x + mask
ClearBit(x, mask) == IF Bit(x, mask) THEN x - mask ELSE x
=============================================================================
