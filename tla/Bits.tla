-------------------------------- MODULE Bits --------------------------------
(***************************************************************************)
(* Bytes and their bits, for the devices whose registers are decoded bit   *)
(* by bit. A byte is a number in 0..255. The operators are written without *)
(* recursion, as sums over the eight bits, so that modules with proofs can *)
(* use them.                                                               *)
(***************************************************************************)
EXTENDS Integers, Sequences

Byte == 0..255

\* 2^k for the exponents a 16-bit machine needs, as a table the provers can look up.
Pow2(k) ==
  <<1, 2, 4, 8, 16, 32, 64, 128, 256, 512, 1024, 2048, 4096, 8192, 16384, 32768, 65536>>[k + 1]

\* Bit k of v is set.
Bit(v, k) == (v \div Pow2(k)) % 2 = 1

BitValue(b, k) == IF b THEN Pow2(k) ELSE 0

\* The bitwise operations, as sums over the bits.
And(a, b) ==
  BitValue(Bit(a, 0) /\ Bit(b, 0), 0) + BitValue(Bit(a, 1) /\ Bit(b, 1), 1)
    + BitValue(Bit(a, 2) /\ Bit(b, 2), 2) + BitValue(Bit(a, 3) /\ Bit(b, 3), 3)
    + BitValue(Bit(a, 4) /\ Bit(b, 4), 4) + BitValue(Bit(a, 5) /\ Bit(b, 5), 5)
    + BitValue(Bit(a, 6) /\ Bit(b, 6), 6) + BitValue(Bit(a, 7) /\ Bit(b, 7), 7)

Or(a, b)  == a + b - And(a, b)
Xor(a, b) == a + b - 2 * And(a, b)
Not(a)    == 255 - a
=============================================================================
