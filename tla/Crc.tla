--------------------------------- MODULE Crc ---------------------------------
(***************************************************************************)
(* The checksums of StarSocketServer.cpp: the tables that STSV_Init makes  *)
(* and the sums over a packet.  A request whose STOS_CRC16 differs is      *)
(* answered by RETRASMIT (ClientChannel: "damaged").  The code shifts in   *)
(* words wider than the sum; what it shifts out never comes back, and is   *)
(* dropped here at once.                                                   *)
(***************************************************************************)
EXTENDS Integers, Sequences, SequencesExt, Bitwise

Byte == 0 .. 255

\* One step of the tables' inner loop, in a register of w bits.
ShiftOut(w, poly, r) ==
  LET shifted == (2 * r) % 2 ^ w
  IN  IF r >= 2 ^ (w - 1) THEN shifted ^^ poly ELSE shifted

TableEntry(w, poly, n) ==
  FoldLeft(LAMBDA r, j : ShiftOut(w, poly, r), n * 2 ^ (w - 8), [j \in 1 .. 8 |-> j])

Poly8 == 7
Poly16 == 40961      \* 0xa001
CRC8Table == [n \in Byte |-> TableEntry(8, Poly8, n)]
CRC16Table == [n \in Byte |-> TableEntry(16, Poly16, n)]

CRC8(data) == FoldLeft(LAMBDA r, b : CRC8Table[r ^^ b], 0, data)

CRC16(data) ==
  FoldLeft(LAMBDA r, b : ((r * 256) % 65536) ^^ CRC16Table[(r \div 256) ^^ b], 0, data)

----------------------------------------------------------------------------
(* What the sums promise.                                                  *)

\* The bits of the bytes, the highest first.
Bits(data) ==
  [i \in 1 .. 8 * Len(data) |-> (data[(i - 1) \div 8 + 1] \div (2 ^ (7 - ((i - 1) % 8)))) % 2]

\* The remainder of the bits, followed by w zeros, divided by x^w + poly.
Remainder(w, poly, bits) ==
  FoldLeft(LAMBDA r, bit : ShiftOut(w, poly, r ^^ (bit * 2 ^ (w - 1))), 0, bits)

SampleByte == {0, 1, 90, 128, 255}
Sample == UNION {[1 .. n -> SampleByte] : n \in 1 .. 2} \cup {<<b>> : b \in Byte}
Zeros(n) == [j \in 1 .. n |-> 0]
XorAll(d, e) == [j \in DOMAIN d |-> d[j] ^^ e[j]]

\* The sums by table are remainders of polynomials.
ASSUME SumIsRemainder ==
  \A d \in Sample : /\ CRC16(d) = Remainder(16, Poly16, Bits(d))
                    /\ CRC8(d) = Remainder(8, Poly8, Bits(d))

\* The sum of two packets' difference is the difference of their sums, so that
\* the next assumption is about any packet of that length.
ASSUME SumIsLinear ==
  \A d, e \in [1 .. 2 -> SampleByte] : CRC16(XorAll(d, e)) = (CRC16(d) ^^ CRC16(e))

\* A packet in which one byte, or two bytes that follow each other, have been
\* damaged has another sum.
ASSUME DamageIsSeen ==
  \A n \in 0 .. 2 : /\ \A b \in Byte \ {0} : CRC16(<<b>> \o Zeros(n)) # 0
                    /\ \A a \in SampleByte \ {0}, b \in SampleByte : CRC16(<<a, b>> \o Zeros(n)) # 0
=============================================================================
