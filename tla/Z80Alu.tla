------------------------------- MODULE Z80Alu -------------------------------
(***************************************************************************)
(* The arithmetic of the Z80 (src/msx/cpu/flags.py and the helpers of      *)
(* src/msx/cpu/opcodes_main.py). The CPU is a record with the fields of    *)
(* Registers and of the Z80 class; an operation returns the CPU after it.  *)
(* Sums and differences are not masked, as in the code: a carry is a       *)
(* result above 255 and a borrow one below 0.                              *)
(***************************************************************************)
EXTENDS Bits, FiniteSets

FlagS == 128
FlagZ == 64
FlagH == 16
FlagPV == 4
FlagN == 2
FlagC == 1

\* The flags a bit set stands for; Y and X are copied together from a byte.
YX(v)     == And(v, 40)
Sign(v)   == IF Bit(v, 7) THEN FlagS ELSE 0
Zero(v)   == IF v = 0 THEN FlagZ ELSE 0
H(b)      == IF b THEN FlagH ELSE 0
PV(b)     == IF b THEN FlagPV ELSE 0
N(b)      == IF b THEN FlagN ELSE 0
C(b)      == IF b THEN FlagC ELSE 0

Parity(v) == Cardinality({k \in 0..7 : Bit(v, k)}) % 2 = 0
Szp(v)    == Sign(v) + Zero(v) + YX(v) + PV(Parity(v))

Carry(s)   == Bit(s.F, 0)
CarryIn(s) == IF Carry(s) THEN 1 ELSE 0

\* F as the ALU writes it: q_next keeps it for a SCF or CCF that follows.
WithF(s, f) == [s EXCEPT !.F = f, !.q_next = f]

\* Bit k of a ^ b ^ r: the carry into bit k of an addition, or the borrow.
Through(a, b, r, k) == Bit(a, k) # (Bit(b, k) # Bit(r, k))

AddFlags(a, b, r) ==
  Sign(r % 256) + Zero(r % 256) + YX(r % 256) + H(Through(a, b, r, 4))
    + PV(Bit(a, 7) = Bit(b, 7) /\ Bit(a, 7) # Bit(r, 7)) + C(r > 255)

\* yx is the result, or the operand of CP.
SubFlags(a, b, r, yx) ==
  Sign(r % 256) + Zero(r % 256) + YX(yx) + H(Through(a, b, r, 4)) + N(TRUE)
    + PV(Bit(a, 7) # Bit(b, 7) /\ Bit(a, 7) # Bit(r, 7)) + C(r < 0)

\* The eight operations on A, in the order of the opcodes.
Alu(s, grp, v) ==
  LET c   == IF grp \in {1, 3} THEN CarryIn(s) ELSE 0
      sum == s.A + v + c
      dif == s.A - v - c
  IN CASE grp \in {0, 1} -> WithF([s EXCEPT !.A = sum % 256], AddFlags(s.A, v, sum))
       [] grp \in {2, 3} -> WithF([s EXCEPT !.A = dif % 256], SubFlags(s.A, v, dif, dif % 256))
       [] grp = 4 -> WithF([s EXCEPT !.A = And(s.A, v)], FlagH + Szp(And(s.A, v)))
       [] grp = 5 -> WithF([s EXCEPT !.A = Xor(s.A, v)], Szp(Xor(s.A, v)))
       [] grp = 6 -> WithF([s EXCEPT !.A = Or(s.A, v)], Szp(Or(s.A, v)))
       [] grp = 7 -> WithF(s, SubFlags(s.A, v, dif, v))

\* INC and DEC keep C. The result is IncDec(v, d).
IncDec(v, d) == (v + d) % 256
Inc8F(s, v) ==
  WithF(s, C(Carry(s)) + Sign(IncDec(v, 1)) + Zero(IncDec(v, 1)) + YX(IncDec(v, 1))
             + H(v % 16 = 15) + PV(v = 127))
Dec8F(s, v) ==
  WithF(s, C(Carry(s)) + N(TRUE) + Sign(IncDec(v, -1)) + Zero(IncDec(v, -1))
             + YX(IncDec(v, -1)) + H(v % 16 = 0) + PV(v = 128))

-----------------------------------------------------------------------------
(* 16 bits. Y and X come from the high byte; MEMPTR is the first operand+1. *)

Sum16(s, pair, a, b) ==
  LET r == a + b IN
  WithF([s EXCEPT ![pair] = r % 65536, !.WZ = (a + 1) % 65536],
        And(s.F, FlagS + FlagZ + FlagPV) + YX((r % 65536) \div 256)
          + H(Through(a, b, r, 12)) + C(r > 65535))

Sign16(v) == IF Bit(v, 15) THEN FlagS ELSE 0

Adc16(s, a, b) ==
  LET r == a + b + CarryIn(s) IN
  WithF([s EXCEPT !.HL = r % 65536, !.WZ = (a + 1) % 65536],
        Sign16(r % 65536) + Zero(r % 65536) + YX((r % 65536) \div 256)
          + H(Through(a, b, r, 12))
          + PV(Bit(a, 15) = Bit(b, 15) /\ Bit(a, 15) # Bit(r, 15)) + C(r > 65535))

\* Mutant: the borrow is not subtracted.
Sbc16NoBorrow(s, a, b) ==
  LET r == a - b IN
  WithF([s EXCEPT !.HL = r % 65536, !.WZ = (a + 1) % 65536],
        Sign16(r % 65536) + Zero(r % 65536) + YX((r % 65536) \div 256)
          + H(Through(a, b, r, 12)) + N(TRUE)
          + PV(Bit(a, 15) # Bit(b, 15) /\ Bit(a, 15) # Bit(r, 15)) + C(r < 0))

Sbc16(s, a, b) ==
  LET r == a - b - CarryIn(s) IN
  WithF([s EXCEPT !.HL = r % 65536, !.WZ = (a + 1) % 65536],
        Sign16(r % 65536) + Zero(r % 65536) + YX((r % 65536) \div 256)
          + H(Through(a, b, r, 12)) + N(TRUE)
          + PV(Bit(a, 15) # Bit(b, 15) /\ Bit(a, 15) # Bit(r, 15)) + C(r < 0))

-----------------------------------------------------------------------------
(* Rotates and shifts: <<result, carry out>> of the eight CB operations.   *)

Shifted(s, op, v) ==
  CASE op = 0 -> <<(v * 2 + (v \div 128)) % 256, Bit(v, 7)>>                        \* RLC
    [] op = 1 -> <<v \div 2 + (v % 2) * 128, Bit(v, 0)>>                            \* RRC
    [] op = 2 -> <<(v * 2 + CarryIn(s)) % 256, Bit(v, 7)>>                          \* RL
    [] op = 3 -> <<v \div 2 + CarryIn(s) * 128, Bit(v, 0)>>                         \* RR
    [] op = 4 -> <<(v * 2) % 256, Bit(v, 7)>>                                       \* SLA
    [] op = 5 -> <<v \div 2 + BitValue(Bit(v, 7), 7), Bit(v, 0)>>                   \* SRA
    [] op = 6 -> <<(v * 2 + 1) % 256, Bit(v, 7)>>                                   \* SLL
    [] op = 7 -> <<v \div 2, Bit(v, 0)>>                                            \* SRL

ShiftF(s, op, v) == WithF(s, Szp(Shifted(s, op, v)[1]) + C(Shifted(s, op, v)[2]))

\* RLCA, RRCA, RLA, RRA keep S, Z and P/V.
ShiftA(s, op) ==
  LET r == Shifted(s, op, s.A) IN
  WithF([s EXCEPT !.A = r[1]], And(s.F, FlagS + FlagZ + FlagPV) + YX(r[1]) + C(r[2]))

\* BIT: Y and X from the register, or from the high byte of MEMPTR.
BitF(s, v, k, yx) ==
  WithF(s, C(Carry(s)) + FlagH + YX(yx) + (IF Bit(v, k) THEN 0 ELSE FlagZ + FlagPV)
             + (IF k = 7 /\ Bit(v, 7) THEN FlagS ELSE 0))

-----------------------------------------------------------------------------
(* The rest of the accumulator's operations.                               *)

Daa(s) ==
  LET high == Carry(s) \/ s.A > 153
      fix  == (IF Bit(s.F, 4) \/ s.A % 16 > 9 THEN 6 ELSE 0) + (IF high THEN 96 ELSE 0)
      a    == (IF Bit(s.F, 1) THEN s.A - fix ELSE s.A + fix) % 256
  IN WithF([s EXCEPT !.A = a], Szp(a) + N(Bit(s.F, 1)) + C(high) + H(Bit(s.A, 4) # Bit(a, 4)))

Cpl(s) ==
  WithF([s EXCEPT !.A = Not(@)],
        And(s.F, FlagS + FlagZ + FlagPV + FlagC) + FlagH + FlagN + YX(Not(s.A)))

\* SCF and CCF take Y and X from (Q ^ F) | A.
ScfYX(s) == YX(Or(Xor(s.q, s.F), s.A))
Scf(s)   == WithF(s, And(s.F, FlagS + FlagZ + FlagPV) + FlagC + ScfYX(s))
Ccf(s)   ==
  WithF(s, And(s.F, FlagS + FlagZ + FlagPV) + H(Carry(s)) + C(~Carry(s)) + ScfYX(s))

Neg(s) == WithF([s EXCEPT !.A = (-s.A) % 256], SubFlags(0, s.A, -s.A, (-s.A) % 256))

-----------------------------------------------------------------------------
(* Block input and output. b is B after its decrement; k the internal sum.  *)

BlockIoFlags(v, b, k) ==
  Sign(b) + Zero(b) + YX(b) + N(Bit(v, 7)) + H(k > 255) + C(k > 255)
    + PV(Parity(Xor(k % 8, b)))

\* A repeating one takes Y and X from its address; with C set the chip steps B
\* once more, and P/V takes the parity of the stepped B.
BlockIoRepeatFlags(f, v, b, pc) ==
  LET step  == IF ~Bit(f, 0) THEN b % 8 ELSE IF Bit(v, 7) THEN (b - 1) % 8 ELSE (b + 1) % 8
      half  == IF ~Bit(f, 0) THEN Bit(f, 4)
               ELSE IF Bit(v, 7) THEN b % 16 = 0 ELSE b % 16 = 15
  IN And(f, FlagS + FlagZ + FlagN + FlagC) + YX(pc \div 256) + H(half)
       + PV(Bit(f, 2) = Parity(step))
=============================================================================
