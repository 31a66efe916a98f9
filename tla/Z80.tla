--------------------------------- MODULE Z80 ---------------------------------
(***************************************************************************)
(* The Z80 (src/msx/cpu/z80.py, registers.py, opcodes_main.py): one step   *)
(* runs one instruction, or accepts an interrupt, or waits in HALT; while  *)
(* the CPU idles, a whole batch of steps is made at once. The bus hooks    *)
(* are a small memory and a byte a port answers.                           *)
(*                                                                         *)
(* An instruction is an operator from the CPU to the CPU after it. The     *)
(* T-states it takes are added to the field t of it, which step() returns. *)
(***************************************************************************)
EXTENDS Z80Alu, Sequences

D == INSTANCE Disasm

CONSTANTS
  Programs,     \* what the machine may start with: records [cpu, mem, fuel, ints, want]
  PortBytes,    \* the bytes a port may answer
  WaitStates,   \* m1_wait_states
  Budgets       \* the T-states left in a line when the machine batches an idle CPU

VARIABLES
  cpu,          \* the fields of Registers and Z80, and t: the T-states of the latest step
  mem,          \* the bytes at the addresses there is memory at
  prog,         \* what it started with
  irq,          \* the interrupt line of the VDP, which the machine copies to int_pending
  fuel,         \* steps left, a bound of the model
  ints          \* changes left of the interrupt lines, a bound of the model

z80Vars == <<cpu, mem, prog, irq, fuel, ints>>

ASSUME Z80Assumption ==
  /\ PortBytes \subseteq Byte
  /\ WaitStates \in Nat
  /\ Budgets \subseteq Nat \ {0}

Word == 0..65535
Lo(v) == v % 256
Hi(v) == v \div 256
Wd(lo, hi) == hi * 256 + lo
Signed(v) == IF v < 128 THEN v ELSE v - 256

-----------------------------------------------------------------------------
(* The bus and the stack. Memory is a field of the CPU while an            *)
(* instruction runs; what is not memory reads 0xFF and ignores writes.     *)

Read(s, a) == IF a \in DOMAIN s.mem THEN s.mem[a] ELSE 255
ReadWord(s, a) == Wd(Read(s, a), Read(s, (a + 1) % 65536))
Write(s, a, v) == IF a \in DOMAIN s.mem THEN [s EXCEPT !.mem[a] = v] ELSE s
WriteWord(s, a, v) == Write(Write(s, a, Lo(v)), (a + 1) % 65536, Hi(v))

\* The operand at PC, and the CPU past n bytes of operand.
Operand(s) == Read(s, s.PC)
OperandWord(s) == ReadWord(s, s.PC)
Past(s, n) == [s EXCEPT !.PC = (@ + n) % 65536]

Push(s, v) ==
  WriteWord([s EXCEPT !.SP = (@ - 2) % 65536], (s.SP - 2) % 65536, v)
Top(s) == ReadWord(s, s.SP)
Popped(s) == [s EXCEPT !.SP = (@ + 2) % 65536]

Took(s, n) == [s EXCEPT !.t = @ + n]

\* Low 7 bits of R count, bit 7 is kept.
Refreshed(s, n) == [s EXCEPT !.R = (@ \div 128) * 128 + ((@ + n) % 128)]

\* _fetch_opcode, after a prefix.
OpcodeFetched(s) == Refreshed(Past(s, 1), 1)

Jump(s, a) == [s EXCEPT !.PC = a, !.WZ = a]

-----------------------------------------------------------------------------
(* Register operands. xy is the pair that stands for HL: "HL", or "IX" or  *)
(* "IY" after a prefix.                                                    *)

PairOf(p, xy) == IF p = 0 THEN "BC" ELSE IF p = 1 THEN "DE" ELSE IF p = 2 THEN xy ELSE "SP"

\* Registers 0 to 5 are the halves of three pairs, 7 is A; 6 is memory.
Get8(s, i, xy) ==
  IF i = 7 THEN s.A
  ELSE IF i % 2 = 0 THEN Hi(s[PairOf(i \div 2, xy)]) ELSE Lo(s[PairOf(i \div 2, xy)])

Set8(s, i, v, xy) ==
  IF i = 7 THEN [s EXCEPT !.A = v]
  ELSE IF i % 2 = 0 THEN [s EXCEPT ![PairOf(i \div 2, xy)] = Wd(Lo(@), v)]
  ELSE [s EXCEPT ![PairOf(i \div 2, xy)] = Wd(v, Hi(@))]

\* The address of operand 6: (HL), or (IX+d) with its displacement fetched and
\* MEMPTR set (_dd_fd_ea).
Address(s, xy) == IF xy = "HL" THEN s.HL ELSE (s[xy] + Signed(Operand(s))) % 65536
Addressed(s, xy) ==
  IF xy = "HL" THEN s ELSE [Past(s, 1) EXCEPT !.WZ = Address(s, xy)]

\* What the displacement adds to the time of an instruction.
IndexTime(xy) == IF xy = "HL" THEN 0 ELSE 8

Condition(s, cc) ==
  LET flag == CASE cc \div 2 = 0 -> 6 [] cc \div 2 = 1 -> 0 [] cc \div 2 = 2 -> 2 [] OTHER -> 7
  IN Bit(s.F, flag) = (cc % 2 = 1)

-----------------------------------------------------------------------------
(* 8-bit groups.                                                           *)

\* LD r,r'. With operand 6 the other register is never a half of the index pair.
LoadRR(s, dst, src, xy) ==
  LET s1 == Addressed(s, xy)
      a  == Address(s, xy)
  IN IF src = 6 THEN Took(Set8(s1, dst, Read(s, a), "HL"), 7 + IndexTime(xy))
     ELSE IF dst = 6 THEN Took(Write(s1, a, Get8(s, src, "HL")), 7 + IndexTime(xy))
     ELSE Took(Set8(s, dst, Get8(s, src, xy), xy), 4)

LoadRN(s, dst, xy) ==
  IF dst = 6
    THEN LET s1 == Addressed(s, xy) IN
         Took(Write(Past(s1, 1), Address(s, xy), Operand(s1)), IF xy = "HL" THEN 10 ELSE 15)
    ELSE Took(Set8(Past(s, 1), dst, Operand(s), xy), 7)

AluR(s, grp, src, xy) ==
  IF src = 6 THEN Took(Alu(Addressed(s, xy), grp, Read(s, Address(s, xy))), 7 + IndexTime(xy))
  ELSE Took(Alu(s, grp, Get8(s, src, xy)), 4)

AluN(s, grp) == Took(Alu(Past(s, 1), grp, Operand(s)), 7)

\* INC and DEC, d = 1 or -1.
IncDecR(s, i, d, xy) ==
  LET a == Address(s, xy)
      v == IF i = 6 THEN Read(s, a) ELSE Get8(s, i, xy)
      f == IF d = 1 THEN Inc8F(s, v) ELSE Dec8F(s, v)
  IN IF i = 6 THEN Took(Write(Addressed(f, xy), a, IncDec(v, d)),
                        11 + (IF xy = "HL" THEN 0 ELSE 8))
     ELSE Took(Set8(f, i, IncDec(v, d), xy), 4)

\* CB: rotate or shift, BIT, RES, SET of v. Result and flags.
CbResult(s, op, v) ==
  LET k == (op \div 8) % 8 IN
  CASE op \div 64 = 0 -> Shifted(s, k, v)[1]
    [] op \div 64 = 2 -> IF Bit(v, k) THEN v - Pow2(k) ELSE v
    [] op \div 64 = 3 -> IF Bit(v, k) THEN v ELSE v + Pow2(k)

ExecuteCb(s) ==
  LET op == Operand(s)
      s1 == OpcodeFetched(s)
      i  == op % 8
      v  == IF i = 6 THEN Read(s, s.HL) ELSE Get8(s, i, "HL")
      f  == IF op \div 64 = 0 THEN ShiftF(s1, (op \div 8) % 8, v) ELSE s1
  IN CASE op \div 64 = 1 /\ i = 6 -> Took(BitF(s1, v, (op \div 8) % 8, Hi(s.WZ)), 12)
       [] op \div 64 = 1 /\ i # 6 -> Took(BitF(s1, v, (op \div 8) % 8, v), 8)
       [] op \div 64 # 1 /\ i = 6 -> Took(Write(f, s.HL, CbResult(s, op, v)), 15)
       [] op \div 64 # 1 /\ i # 6 -> Took(Set8(f, i, CbResult(s, op, v), "HL"), 8)

\* DD CB d op: the last two bytes are no opcode fetches. A register operand gets a
\* copy of what is written.
ExecuteIndexedCb(s, xy) ==
  LET a  == Address(s, xy)
      s1 == Past(Addressed(s, xy), 1)
      op == Read(s, (s.PC + 1) % 65536)
      v  == Read(s, a)
      f  == IF op \div 64 = 0 THEN ShiftF(s1, (op \div 8) % 8, v) ELSE s1
      w  == Write(f, a, CbResult(s, op, v))
  IN IF op \div 64 = 1 THEN Took(BitF(s1, v, (op \div 8) % 8, Hi(a)), 20)
     ELSE Took(IF op % 8 = 6 THEN w ELSE Set8(w, op % 8, CbResult(s, op, v), "HL"), 23)

-----------------------------------------------------------------------------
(* 16-bit groups, jumps and the rest of the first table.                   *)

\* LD A,(BC) and its kind: MEMPTR is the address + 1, or A and its low byte.
LoadA(s, a, n, time) ==
  Took([Past(s, n) EXCEPT !.A = Read(s, a), !.WZ = (a + 1) % 65536], time)
StoreA(s, a, n, time) ==
  Took([Write(Past(s, n), a, s.A) EXCEPT !.WZ = Wd((a + 1) % 256, s.A)], time)

LoadPair(s, pair, time) ==
  Took([Past(s, 2) EXCEPT ![pair] = ReadWord(s, OperandWord(s)),
                          !.WZ = (OperandWord(s) + 1) % 65536], time)
StorePair(s, pair, time) ==
  Took([WriteWord(Past(s, 2), OperandWord(s), s[pair]) EXCEPT
          !.WZ = (OperandWord(s) + 1) % 65536], time)

\* JR e: JR $ is an idle loop the machine may repeat in a batch.
JumpRelative(s, taken, time, missed) ==
  IF taken THEN Took(Jump(s, (s.PC + 1 + Signed(Operand(s))) % 65536), time)
  ELSE Took(Past(s, 1), missed)
JR(s) ==
  [JumpRelative(s, TRUE, 12, 12) EXCEPT !.idle_hint = @ \/ Operand(s) = 254]
DJNZ(s) ==
  LET b == (Hi(s.BC) - 1) % 256 IN
  JumpRelative([s EXCEPT !.BC = Wd(Lo(@), b)], b # 0, 13, 8)

JumpTo(s, taken) ==
  LET s1 == [Past(s, 2) EXCEPT !.WZ = OperandWord(s)] IN
  Took(IF taken THEN Jump(s1, OperandWord(s)) ELSE s1, 10)
Call(s, taken) ==
  LET s1 == [Past(s, 2) EXCEPT !.WZ = OperandWord(s)] IN
  IF taken THEN Took(Jump(Push(s1, s1.PC), OperandWord(s)), 17) ELSE Took(s1, 10)
Return(s) == Jump(Popped(s), Top(s))
Restart(s, a) == Took(Jump(Push(s, s.PC), a), 11)

AF(s) == Wd(s.F, s.A)
PushPair(s, p, xy) == Took(Push(s, IF p = 3 THEN AF(s) ELSE s[PairOf(p, xy)]), 11)
PopPair(s, p, xy) ==
  Took(IF p = 3 THEN [Popped(s) EXCEPT !.A = Hi(Top(s)), !.F = Lo(Top(s))]
       ELSE [Popped(s) EXCEPT ![PairOf(p, xy)] = Top(s)], 10)

ExchangeTop(s, xy) ==
  Took([WriteWord(s, s.SP, s[xy]) EXCEPT ![xy] = Top(s), !.WZ = Top(s)], 19)

Exx(s) ==
  Took([s EXCEPT !.BC = s.BC_, !.DE = s.DE_, !.HL = s.HL_,
                 !.BC_ = s.BC, !.DE_ = s.DE, !.HL_ = s.HL], 4)
ExAf(s) == Took([s EXCEPT !.A = s.A_, !.F = s.F_, !.A_ = s.A, !.F_ = s.F], 4)

\* IN A,(n) and OUT (n),A: the port is A * 256 + n; `out' is what write_port got.
InA(s) ==
  Took([Past(s, 1) EXCEPT !.A = s.port, !.WZ = (Wd(Operand(s), s.A) + 1) % 65536], 11)
OutA(s) ==
  Took([Past(s, 1) EXCEPT !.out = <<Wd(Operand(s), s.A), s.A>>,
                          !.WZ = Wd((Operand(s) + 1) % 256, s.A)], 11)

\* DI and EI; an interrupt waits until after the instruction that follows EI.
DI(s) == Took([s EXCEPT !.iff1 = FALSE, !.iff2 = FALSE], 4)

\* Mutant: EI enables at once.
EIAtOnce(s) == Took([s EXCEPT !.iff1 = TRUE, !.iff2 = TRUE], 4)

EI(s) == Took([s EXCEPT !.iff1 = TRUE, !.iff2 = TRUE, !.ei_pending = TRUE], 4)

Halt(s) == Took([s EXCEPT !.halted = TRUE, !.idle_hint = TRUE], 4)
-----------------------------------------------------------------------------
(* The tables, by the fields of the opcode: op = 64 x + 8 y + z.           *)

AddPair(s, p, xy) == Took(Sum16(s, xy, s[xy], s[PairOf(p, xy)]), 11)
StepPair(s, p, d, xy) == Took([s EXCEPT ![PairOf(p, xy)] = (@ + d) % 65536], 6)

\* The opcodes 0x00 to 0x3F.
ExecuteLow(s, y, z, xy) ==
  CASE z = 0 /\ y = 0 -> Took(s, 4)
    [] z = 0 /\ y = 1 -> ExAf(s)
    [] z = 0 /\ y = 2 -> DJNZ(s)
    [] z = 0 /\ y = 3 -> JR(s)
    [] z = 0 /\ y > 3 -> JumpRelative(s, Condition(s, y - 4), 12, 7)
    [] z = 1 /\ y % 2 = 0 ->
         Took([Past(s, 2) EXCEPT ![PairOf(y \div 2, xy)] = OperandWord(s)], 10)
    [] z = 1 /\ y % 2 = 1 -> AddPair(s, y \div 2, xy)
    [] z = 2 /\ y = 0 -> StoreA(s, s.BC, 0, 7)
    [] z = 2 /\ y = 1 -> LoadA(s, s.BC, 0, 7)
    [] z = 2 /\ y = 2 -> StoreA(s, s.DE, 0, 7)
    [] z = 2 /\ y = 3 -> LoadA(s, s.DE, 0, 7)
    [] z = 2 /\ y = 4 -> StorePair(s, xy, 16)
    [] z = 2 /\ y = 5 -> LoadPair(s, xy, 16)
    [] z = 2 /\ y = 6 -> StoreA(s, OperandWord(s), 2, 13)
    [] z = 2 /\ y = 7 -> LoadA(s, OperandWord(s), 2, 13)
    [] z = 3 -> StepPair(s, y \div 2, IF y % 2 = 0 THEN 1 ELSE -1, xy)
    [] z = 4 -> IncDecR(s, y, 1, xy)
    [] z = 5 -> IncDecR(s, y, -1, xy)
    [] z = 6 -> LoadRN(s, y, xy)
    [] z = 7 /\ y < 4 -> Took(ShiftA(s, y), 4)
    [] z = 7 /\ y = 4 -> Took(Daa(s), 4)
    [] z = 7 /\ y = 5 -> Took(Cpl(s), 4)
    [] z = 7 /\ y = 6 -> Took(Scf(s), 4)
    [] z = 7 /\ y = 7 -> Took(Ccf(s), 4)

\* The opcodes 0xC0 to 0xFF but for the prefixes.
ExecuteHigh(s, y, z, xy) ==
  CASE z = 0 -> IF Condition(s, y) THEN Took(Return(s), 11) ELSE Took(s, 5)
    [] z = 1 /\ y % 2 = 0 -> PopPair(s, y \div 2, xy)
    [] z = 1 /\ y = 1 -> Took(Return(s), 10)
    [] z = 1 /\ y = 3 -> Exx(s)
    [] z = 1 /\ y = 5 -> Took([s EXCEPT !.PC = s[xy]], 4)
    [] z = 1 /\ y = 7 -> Took([s EXCEPT !.SP = s[xy]], 6)
    [] z = 2 -> JumpTo(s, Condition(s, y))
    [] z = 3 /\ y = 0 -> JumpTo(s, TRUE)
    [] z = 3 /\ y = 2 -> OutA(s)
    [] z = 3 /\ y = 3 -> InA(s)
    [] z = 3 /\ y = 4 -> ExchangeTop(s, xy)
    [] z = 3 /\ y = 5 -> Took([s EXCEPT !.DE = s.HL, !.HL = s.DE], 4)
    [] z = 3 /\ y = 6 -> DI(s)
    [] z = 3 /\ y = 7 -> EI(s)
    [] z = 4 -> Call(s, Condition(s, y))
    [] z = 5 /\ y % 2 = 0 -> PushPair(s, y \div 2, xy)
    [] z = 5 /\ y = 1 -> Call(s, TRUE)
    [] z = 6 -> AluN(s, y)
    [] z = 7 -> Restart(s, y * 8)

ExecutePlain(s, op, xy) ==
  LET y == (op \div 8) % 8
      z == op % 8
  IN CASE op < 64 -> ExecuteLow(s, y, z, xy)
       [] op \in 64..127 -> IF op = 118 THEN Halt(s) ELSE LoadRR(s, y, z, xy)
       [] op \in 128..191 -> AluR(s, y, z, xy)
       [] op > 191 -> ExecuteHigh(s, y, z, xy)

-----------------------------------------------------------------------------
(* The ED table.                                                           *)

Mode(y) == IF y % 4 = 3 THEN 2 ELSE IF y % 4 = 2 THEN 1 ELSE 0

LoadAFrom(s, v) ==
  WithF([s EXCEPT !.A = v], C(Carry(s)) + PV(s.iff2) + Sign(v) + Zero(v) + YX(v))

\* IN r,(C); register 6 takes the flags only.
InC(s, y) ==
  LET s1 == WithF([s EXCEPT !.WZ = (s.BC + 1) % 65536], C(Carry(s)) + Szp(s.port)) IN
  Took(IF y = 6 THEN s1 ELSE Set8(s1, y, s.port, "HL"), 12)
OutC(s, y) ==
  Took([s EXCEPT !.out = <<s.BC, IF y = 6 THEN 0 ELSE Get8(s, y, "HL")>>,
                 !.WZ = (s.BC + 1) % 65536], 12)

\* RLD and RRD turn the low nibble of A and the two of (HL).
TurnDigits(s, a, v) ==
  Took(WithF([Write(s, s.HL, v) EXCEPT !.A = a, !.WZ = (s.HL + 1) % 65536],
             C(Carry(s)) + Szp(a)), 18)
RLD(s) ==
  LET v == Read(s, s.HL) IN
  TurnDigits(s, (s.A \div 16) * 16 + v \div 16, (v % 16) * 16 + (s.A % 16))
RRD(s) ==
  LET v == Read(s, s.HL) IN
  TurnDigits(s, (s.A \div 16) * 16 + (v % 16), (s.A % 16) * 16 + v \div 16)

\* A repeating block instruction sets PC back to its prefix.
Back(s) == (s.PC - 2) % 65536

\* Y is bit 1 and X bit 3 of the byte.
BlockYX(v) == BitValue(Bit(v, 1), 5) + BitValue(Bit(v, 3), 3)

\* Mutant: the counter is checked before it is decremented.
BlockLoadTestsFirst(s, d, repeat) ==
  LET v    == Read(s, s.HL)
      bc   == (s.BC - 1) % 65536
      s1   == [Write(s, s.DE, v) EXCEPT !.HL = (@ + d) % 65536, !.DE = (@ + d) % 65536, !.BC = bc]
      keep == And(s.F, FlagS + FlagZ + FlagC) + PV(bc # 0)
  IN IF repeat /\ s.BC # 0
       THEN Took(WithF([s1 EXCEPT !.PC = Back(s), !.WZ = (Back(s) + 2) % 65536],
                       keep + YX(Hi(Back(s)))), 21)
       ELSE Took(WithF(s1, keep + BlockYX((s.A + v) % 256)), 16)

BlockLoad(s, d, repeat) ==
  LET v    == Read(s, s.HL)
      bc   == (s.BC - 1) % 65536
      s1   == [Write(s, s.DE, v) EXCEPT !.HL = (@ + d) % 65536, !.DE = (@ + d) % 65536, !.BC = bc]
      keep == And(s.F, FlagS + FlagZ + FlagC) + PV(bc # 0)
  IN IF repeat /\ bc # 0
       THEN Took(WithF([s1 EXCEPT !.PC = Back(s), !.WZ = (Back(s) + 2) % 65536],
                       keep + YX(Hi(Back(s)))), 21)
       ELSE Took(WithF(s1, keep + BlockYX((s.A + v) % 256)), 16)

BlockCompare(s, d, repeat) ==
  LET v    == Read(s, s.HL)
      r    == s.A - v
      half == Through(s.A, v, r, 4)
      bc   == (s.BC - 1) % 65536
      s1   == [s EXCEPT !.HL = (@ + d) % 65536, !.WZ = (@ + d) % 65536, !.BC = bc]
      keep == C(Carry(s)) + N(TRUE) + Sign(r % 256) + Zero(r % 256) + H(half) + PV(bc # 0)
  IN IF repeat /\ bc # 0 /\ r % 256 # 0
       THEN Took(WithF([s1 EXCEPT !.PC = Back(s), !.WZ = (Back(s) + 2) % 65536],
                       keep + YX(Hi(Back(s)))), 21)
       ELSE Took(WithF(s1, keep + BlockYX((r - (IF half THEN 1 ELSE 0)) % 256)), 16)

\* What follows the transfer of v by a block input or output.
BlockIo(s1, v, k, repeat) ==
  LET b == Hi(s1.BC)
      f == BlockIoFlags(v, b, k)
  IN IF repeat /\ b # 0
       THEN Took(WithF([s1 EXCEPT !.PC = Back(s1), !.WZ = (Back(s1) + 1) % 65536],
                       BlockIoRepeatFlags(f, v, b, Back(s1))), 21)
       ELSE Took(WithF(s1, f), 16)

\* B after the transfer.
FewerB(s) == Wd(Lo(s.BC), (Hi(s.BC) - 1) % 256)

BlockIn(s, d, repeat) ==
  BlockIo([Write(s, s.HL, s.port) EXCEPT !.HL = (@ + d) % 65536, !.BC = FewerB(s),
                                         !.WZ = (s.BC + d) % 65536],
          s.port, s.port + ((Lo(s.BC) + d) % 256), repeat)

BlockOut(s, d, repeat) ==
  LET v  == Read(s, s.HL)
      hl == (s.HL + d) % 65536
  IN BlockIo([s EXCEPT !.HL = hl, !.BC = FewerB(s), !.WZ = (FewerB(s) + d) % 65536,
                       !.out = <<s.BC, v>>],
             v, v + Lo(hl), repeat)

ExecuteBlock(s, y, z) ==
  LET d      == IF y % 2 = 0 THEN 1 ELSE -1
      repeat == y > 5
  IN CASE z = 0 -> BlockLoad(s, d, repeat)
       [] z = 1 -> BlockCompare(s, d, repeat)
       [] z = 2 -> BlockIn(s, d, repeat)
       [] z = 3 -> BlockOut(s, d, repeat)

\* RETN and RETI alike restore IFF1.
ReturnFromInterrupt(s) == Took([Return(s) EXCEPT !.iff1 = s.iff2], 14)

ExecuteEd(s0) ==
  LET op == Operand(s0)
      s  == OpcodeFetched(s0)
      y  == (op \div 8) % 8
      z  == op % 8
      rr == PairOf(y \div 2, "HL")
  IN CASE op \in 64..127 /\ z = 0 -> InC(s, y)
       [] op \in 64..127 /\ z = 1 -> OutC(s, y)
       [] op \in 64..127 /\ z = 2 /\ y % 2 = 0 -> Took(Sbc16(s, s.HL, s[rr]), 15)
       [] op \in 64..127 /\ z = 2 /\ y % 2 = 1 -> Took(Adc16(s, s.HL, s[rr]), 15)
       [] op \in 64..127 /\ z = 3 /\ y % 2 = 0 -> StorePair(s, rr, 20)
       [] op \in 64..127 /\ z = 3 /\ y % 2 = 1 -> LoadPair(s, rr, 20)
       [] op \in 64..127 /\ z = 4 -> Took(Neg(s), 8)
       [] op \in 64..127 /\ z = 5 -> ReturnFromInterrupt(s)
       [] op \in 64..127 /\ z = 6 -> Took([s EXCEPT !.im = Mode(y)], 8)
       [] op = 71 -> Took([s EXCEPT !.I = s.A], 9)
       [] op = 79 -> Took([s EXCEPT !.R = s.A], 9)
       [] op = 87 -> Took(LoadAFrom(s, s.I), 9)
       [] op = 95 -> Took(LoadAFrom(s, s.R), 9)
       [] op = 103 -> RRD(s)
       [] op = 111 -> RLD(s)
       [] op \in 160..191 /\ z < 4 -> ExecuteBlock(s, y, z)
       [] OTHER -> Took(s, 8)

-----------------------------------------------------------------------------
(* Prefixes. A prefix handler adds the wait for the byte after it.         *)

\* The opcodes in which DD and FD turn HL into IX and IY (_DD_FD_DISPATCH).
Indexed ==
  {9, 25, 41, 57} \union (33..38) \union (42..46) \union {52, 53, 54}
    \union {op \in 64..127 : op # 118 /\ {op % 8, (op \div 8) % 8} \intersect {4, 5, 6} # {}}
    \union {op \in 128..191 : op % 8 \in {4, 5, 6}}
    \union {225, 227, 229, 233, 249}

\* _DISPATCH[op]: the prefix chain of DD and FD, which other bytes end.
RECURSIVE Dispatch(_, _)
Dispatch(s, op) ==
  CASE op = 203 -> Took(ExecuteCb(s), WaitStates)
    [] op = 237 -> Took(ExecuteEd(s), WaitStates)
    [] op \in {221, 253} ->
         LET xy == IF op = 221 THEN "IX" ELSE "IY"
             s1 == OpcodeFetched(s)
             o  == Operand(s)
         IN Took(CASE o = 203 -> ExecuteIndexedCb(s1, xy)
                   [] o \in Indexed -> Took(ExecutePlain(s1, o, xy), 4)
                   [] OTHER -> Took(Dispatch([s1 EXCEPT !.q = 0], o), 4),
                 WaitStates)
    [] OTHER -> ExecutePlain(s, op, "HL")

-----------------------------------------------------------------------------
(* step()                                                                  *)

\* The CPU with its memory, about to make a step: the machine has just copied the
\* interrupt line (_run_lines_fast).
Now(in) == [f \in DOMAIN cpu \union {"mem", "port"} |->
              CASE f = "mem" -> mem [] f = "port" -> in [] f = "t" -> 0 [] f = "out" -> <<>>
                [] f = "int_pending" -> irq [] OTHER -> cpu[f]]

\* NMI: IFF2 keeps what RETN restores.
NmiTaken(s) ==
  LET s1 == [s EXCEPT !.nmi_pending = FALSE, !.halted = FALSE, !.idle_hint = FALSE,
                      !.iff2 = s.iff1, !.iff1 = FALSE, !.q_next = 0]
  IN Took(Jump(Push(Refreshed(s1, 1), s.PC), 102), 11)

Accepts(s) == s.int_pending /\ s.iff1 /\ ~s.ei_pending

\* Mutant: IFF1 stays set.
IntTakenEnabled(s) ==
  LET s1 == Refreshed([s EXCEPT !.int_pending = FALSE, !.halted = FALSE, !.idle_hint = FALSE,
                                !.q_next = 0], 1)
  IN IF s.im = 2 THEN Took(Jump(Push(s1, s.PC), ReadWord(s, Wd(255, s.I))), 19)
     ELSE Took(Jump(Push(s1, s.PC), 56), 13)

IntTaken(s) ==
  LET s1 == Refreshed([s EXCEPT !.int_pending = FALSE, !.halted = FALSE, !.idle_hint = FALSE,
                                !.iff1 = FALSE, !.iff2 = FALSE, !.q_next = 0], 1)
  IN IF s.im = 2 THEN Took(Jump(Push(s1, s.PC), ReadWord(s, Wd(255, s.I))), 19)
     ELSE Took(Jump(Push(s1, s.PC), 56), 13)

HaltedNop(s) == Took(Refreshed([s EXCEPT !.ei_pending = FALSE], 1), 4 + WaitStates)

Instruction(s) ==
  LET s1 == Refreshed([s EXCEPT !.ei_pending = FALSE, !.instruction_pc = s.PC, !.q = s.q_next,
                                !.q_next = 0, !.PC = (@ + 1) % 65536], 1)
  IN Took(Dispatch(s1, Read(s, s.PC)), WaitStates)

Stepped(s) ==
  IF s.nmi_pending THEN NmiTaken(s)
  ELSE IF Accepts(s) THEN IntTaken(s)
  ELSE IF s.halted THEN HaltedNop(s)
  ELSE Instruction(s)

-----------------------------------------------------------------------------
(* Idle batches: step_halted_batch and step_idle_batch.                    *)

CeilDiv(a, b) == (a + b - 1) \div b

\* Mutant: one refresh for the whole batch.
HaltedBatchOnce(s, budget) ==
  LET n == CeilDiv(budget, 4 + WaitStates) IN
  Took(Refreshed(s, 1), n * (4 + WaitStates))

HaltedBatch(s, budget) ==
  LET n == CeilDiv(budget, 4 + WaitStates) IN
  Took(Refreshed(s, n), n * (4 + WaitStates))

IdleBatch(s, budget) ==
  LET n == CeilDiv(budget, 12 + WaitStates) IN
  IF s.halted THEN HaltedBatch(s, budget)
  ELSE IF s.PC = s.instruction_pc /\ Read(s, s.PC) = 24 /\ Read(s, (s.PC + 1) % 65536) = 254
    THEN Took([Refreshed(s, n) EXCEPT !.q = 0], n * (12 + WaitStates))
  ELSE Stepped([s EXCEPT !.idle_hint = FALSE])

\* The machine batches only an idle CPU that nothing would interrupt.
MayBatch(s) == s.idle_hint /\ ~s.nmi_pending /\ ~Accepts(s)
-----------------------------------------------------------------------------

Z80Init ==
  /\ prog \in Programs
  /\ cpu = prog.cpu
  /\ mem = prog.mem
  /\ irq = FALSE
  /\ fuel = prog.fuel
  /\ ints = prog.ints

\* The CPU becomes s.
Become(s) ==
  /\ fuel > 0
  /\ fuel' = fuel - 1
  /\ cpu' = [f \in DOMAIN cpu |-> s[f]]
  /\ mem' = s.mem
  /\ UNCHANGED <<prog, irq, ints>>

AcceptNmi == Now(0).nmi_pending /\ Become(NmiTaken(Now(0)))

AcceptInt == ~Now(0).nmi_pending /\ Accepts(Now(0)) /\ Become(IntTaken(Now(0)))

Running(s) == ~s.nmi_pending /\ ~Accepts(s) /\ ~s.halted

WaitHalted ==
  /\ ~Now(0).nmi_pending /\ ~Accepts(Now(0)) /\ cpu.halted
  /\ Become(HaltedNop(Now(0)))

Execute == \E in \in PortBytes : Running(Now(in)) /\ Become(Instruction(Now(in)))

BatchIdle ==
  /\ MayBatch(Now(0))
  /\ \E budget \in Budgets : Become(IdleBatch(Now(0), budget))

\* The VDP raises its line, or the handler reading the status lowers it.
ChangeIrq ==
  /\ ints > 0
  /\ irq' = ~irq
  /\ ints' = ints - 1
  /\ UNCHANGED <<cpu, mem, prog, fuel>>

Z80Next == AcceptNmi \/ AcceptInt \/ WaitHalted \/ Execute \/ BatchIdle \/ ChangeIrq

Z80Spec == Z80Init /\ [][Z80Next]_z80Vars

-----------------------------------------------------------------------------
(* Properties.                                                             *)

\* A program has computed what it must when it halts, whenever interrupts came: in
\* the middle of a block instruction, between an addition and its DAA, in an idle
\* loop, or after an NMI, whose RETN gives back the interrupt flag.
ProgramsCompute ==
  cpu.halted /\ cpu.PC = prog.want.PC =>
    /\ \A f \in DOMAIN prog.want : cpu[f] = prog.want[f]
    /\ \A a \in DOMAIN prog.result : mem[a] = prog.result[a]

\* With the line held, a handler that ends in EI and RET is never entered again
\* before its RET: the stack stays within what one handler and the program use.
HandlersDoNotNest == prog.stack # {} => cpu.SP \in prog.stack

RECURSIVE StepsFor(_, _)
StepsFor(s, budget) ==
  IF s.t >= budget THEN s ELSE StepsFor(Stepped(s), budget)

\* A batch of an idle CPU is the same as single steps until the budget is spent: the
\* same T-states, R, Q and everything else.
IdleBatchIsSteps ==
  MayBatch(Now(0)) /\ (cpu.halted \/ cpu.PC = cpu.instruction_pc) =>
    \A budget \in Budgets : IdleBatch(Now(0), budget) = StepsFor(Now(0), budget)

\* The text of the instruction at PC: prefixes that stand alone are passed over. at is
\* where the rest begins, next the address after it, op its opcode.
RECURSIVE TextAt(_)
TextAt(a) ==
  LET byte == [i \in 0..3 |-> Read(Now(0), (a + i) % 65536)]
      n == D!Size(byte)
  IN IF n = 1 /\ byte[0] \in D!Prefixes THEN TextAt((a + 1) % 65536)
     ELSE [at |-> a, next |-> (a + n) % 65536, shown |-> D!Shown(byte, a), ed |-> byte[0] = 237,
           op |-> IF byte[0] \in {221, 237, 253} THEN byte[1] ELSE byte[0]]

\* Jumps and calls print where they go; returns, RST and JP (HL) go to an address the
\* text does not show; a block instruction may stay.
IsJump(w) ==
  ~w.ed /\ (w.op \in {16, 24, 32, 40, 48, 56, 195, 205} \/ (w.op > 191 /\ w.op % 8 \in {2, 4}))
IsReturn(w) ==
  IF w.ed THEN w.op \in 64..127 /\ w.op % 8 = 5
  ELSE w.op \in {201, 233} \/ (w.op > 191 /\ w.op % 8 \in {0, 7})
IsRepeat(w) == w.ed /\ w.op \in (176..179) \union (184..187)

\* An instruction goes where the disassembler says: past the bytes it lists and every
\* prefix before them, to the address it prints for a jump, or back to a block
\* instruction. A table of the one that disagrees with the other misplaces every line
\* after it, and the step-over breakpoint with them.
GoesWhereShown ==
  [][Execute =>
       LET w == TextAt(cpu.PC) IN
       \/ cpu'.PC = w.next
       \/ IsJump(w) /\ cpu'.PC = w.shown
       \/ IsRepeat(w) /\ cpu'.PC = w.at
       \/ IsReturn(w)]_z80Vars

-----------------------------------------------------------------------------
(* What arithmetic promises, stated on numbers.                            *)

S8(v)  == IF v < 128 THEN v ELSE v - 256
S16(v) == IF v < 32768 THEN v ELSE v - 65536

\* f tells of the exact unsigned result u and signed result i of n values (256 or
\* 65536): borrow or carry, overflow, zero and sign.
Tells(f, u, i, n) ==
  /\ Bit(f, 0) = (u \notin 0..(n - 1))
  /\ Bit(f, 2) = (i \notin (-(n \div 2))..((n \div 2) - 1))
  /\ Bit(f, 6) = (u % n = 0)
  /\ Bit(f, 7) = (u % n >= n \div 2)

\* The operand of an arithmetic instruction on A: a register, memory or a byte.
OperandOfAlu(s, op) ==
  IF op > 191 THEN Read(s, (s.PC + 1) % 65536)
  ELSE IF op % 8 = 6 THEN Read(s, s.HL) ELSE Get8(s, op % 8, "HL")

\* ADD, ADC, SUB, SBC and CP on bytes, and ADC and SBC on words, leave the exact sum
\* or difference modulo the width, and flags that tell of it; the chain of carries
\* through them makes longer numbers right.
ArithmeticIsExact ==
  [][Execute =>
       LET s   == Now(0)
           op  == Read(s, s.PC)
           ed  == Read(s, (s.PC + 1) % 65536)
           grp == (op \div 8) % 8
           v   == OperandOfAlu(s, op)
           c   == CarryIn(s)
           cin == IF grp \in {1, 3} THEN c ELSE 0
           rr  == s[PairOf((ed \div 16) % 4, "HL")]
       IN /\ (op \in 128..191 \/ (op > 191 /\ op % 8 = 6)) /\ grp \in {0, 1} =>
               /\ cpu'.A = (s.A + v + cin) % 256
               /\ Tells(cpu'.F, s.A + v + cin, S8(s.A) + S8(v) + cin, 256)
          /\ (op \in 128..191 \/ (op > 191 /\ op % 8 = 6)) /\ grp \in {2, 3, 7} =>
               /\ cpu'.A = IF grp = 7 THEN s.A ELSE (s.A - v - cin) % 256
               /\ Tells(cpu'.F, s.A - v - cin, S8(s.A) - S8(v) - cin, 256)
          /\ op = 237 /\ ed \in {74, 90, 106, 122} =>
               /\ cpu'.HL = (s.HL + rr + c) % 65536
               /\ Tells(cpu'.F, s.HL + rr + c, S16(s.HL) + S16(rr) + c, 65536)
          /\ op = 237 /\ ed \in {66, 82, 98, 114} =>
               /\ cpu'.HL = (s.HL - rr - c) % 65536
               /\ Tells(cpu'.F, s.HL - rr - c, S16(s.HL) - S16(rr) - c, 65536)]_z80Vars
=============================================================================
