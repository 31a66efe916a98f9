------------------------------- MODULE MCZ80 -------------------------------
EXTENDS Z80, SequencesExt

-----------------------------------------------------------------------------
(* Memory: code from 0, the interrupt handler at 56, data from 64, the     *)
(* stack below 96, the NMI handler at 102, a vector for mode 2 at 255.     *)

MCRam == (0..95) \union (102..103) \union (255..256)

\* PUSH AF; POP AF; EI; RET, and RETN.
Handlers == (56 :> 245) @@ (57 :> 241) @@ (58 :> 251) @@ (59 :> 201)
              @@ (102 :> 237) @@ (103 :> 69) @@ (255 :> 56)

Placed(code, at) == [a \in at..(at + Len(code) - 1) |-> code[a - at + 1]]

MemoryOf(code, data) ==
  Placed(data, 64) @@ Placed(code, 0) @@ Handlers @@ [a \in MCRam |-> 0]

Reset ==
  [A |-> 255, F |-> 255, BC |-> 0, DE |-> 0, HL |-> 0, IX |-> 0, IY |-> 0, SP |-> 96,
   PC |-> 0, I |-> 0, R |-> 0, WZ |-> 0, A_ |-> 0, F_ |-> 0, BC_ |-> 0, DE_ |-> 0, HL_ |-> 0,
   halted |-> FALSE, idle_hint |-> FALSE, iff1 |-> FALSE, iff2 |-> FALSE, im |-> 1,
   int_pending |-> FALSE, nmi_pending |-> FALSE, ei_pending |-> FALSE, q |-> 0, q_next |-> 0,
   instruction_pc |-> 0, t |-> 0, out |-> <<>>]

None == [x \in {} |-> 0]

-----------------------------------------------------------------------------
(* Programs that interrupts may come into, and what they compute.          *)

Interrupted(code, data, start, want, result) ==
  [cpu |-> start, mem |-> MemoryOf(code, data), fuel |-> 24, ints |-> 3,
   want |-> want, result |-> result, stack |-> {92, 94, 96}]

\* EI; LDIR; DI; HALT
BlockCopy ==
  Interrupted(<<251, 237, 176, 243, 118>>, <<7, 8, 9>>,
              [Reset EXCEPT !.HL = 64, !.DE = 72, !.BC = 3],
              [PC |-> 5, HL |-> 67, DE |-> 75, BC |-> 0, iff1 |-> FALSE],
              (72 :> 7) @@ (73 :> 8) @@ (74 :> 9) @@ (75 :> 0))

\* EI; CPIR; DI; HALT in mode 2, through the vector at 255
Search ==
  Interrupted(<<251, 237, 177, 243, 118>>, <<7, 8, 9>>,
              [Reset EXCEPT !.A = 8, !.HL = 64, !.BC = 3, !.im = 2],
              [PC |-> 5, HL |-> 66, BC |-> 1], None)

\* EI; LD A,0x19; ADD A,0x28; DAA; DI; HALT
Decimal ==
  Interrupted(<<251, 62, 25, 198, 40, 39, 243, 118>>, <<>>, Reset, [PC |-> 8, A |-> 71], None)

\* EI; OR A; SBC HL,DE; EXX; SBC HL,DE; DI; HALT, 0x00010000 - 1 with the high word in
\* the second set
LongSubtraction ==
  Interrupted(<<251, 183, 237, 82, 217, 237, 82, 243, 118>>, <<>>,
              [Reset EXCEPT !.HL = 0, !.DE = 1, !.HL_ = 1, !.DE_ = 0],
              [PC |-> 9, HL |-> 0, HL_ |-> 65535], None)

\* EI; CALL 10; DJNZ; DI; HALT; NOP; NOP; ADD A,C; RET, which uses two bytes of stack more
Multiply ==
  [Interrupted(<<251, 205, 10, 0, 16, 251, 243, 118, 0, 0, 129, 201>>, <<>>,
               [Reset EXCEPT !.A = 0, !.BC = 517], [PC |-> 8, A |-> 10, BC |-> 5], None)
     EXCEPT !.stack = {90, 92, 94, 96}]

\* EI; DD; LD IY,0x1234; LD (IY+2),0x55 with IY at data; DI; HALT
Prefixed ==
  Interrupted(<<251, 221, 253, 33, 64, 0, 253, 54, 2, 85, 243, 118>>, <<1, 2, 3>>, Reset,
              [PC |-> 12, IY |-> 64, IX |-> 0], (64 :> 1) @@ (66 :> 85))

\* EI; HALT; DI; HALT, and EI; JR $
WaitForInterrupt ==
  Interrupted(<<251, 118, 243, 118>>, <<>>, Reset, [PC |-> 4, iff2 |-> FALSE], None)
WaitInLoop ==
  Interrupted(<<251, 24, 254>>, <<>>, Reset, [PC |-> 3], None)

\* NOP; HALT with an NMI pending, as a saved state may have it, interrupts enabled.
Nmi ==
  [Interrupted(<<0, 118>>, <<>>,
               [Reset EXCEPT !.nmi_pending = TRUE, !.iff1 = TRUE, !.iff2 = TRUE],
               [PC |-> 2, iff1 |-> TRUE, SP |-> 96], None) EXCEPT !.ints = 0]

-----------------------------------------------------------------------------
(* Every instruction once, on registers at the edges of arithmetic.        *)

\* The bytes that begin an instruction; two operand bytes follow.
Encodings ==
  {<<op>> : op \in 0..255} \union {<<p, op>> : p \in {203, 221, 237, 253}, op \in 0..255}
    \union {<<p, 203, 1, op>> : p \in {221, 253}, op \in 0..255}
    \union {<<221, 253, op>> : op \in {33, 54, 120, 195, 203, 237}}

Edges ==
  {[Reset EXCEPT !.A = 128, !.F = 1, !.BC = 32769, !.DE = 255, !.HL = 65535, !.IX = 64, !.SP = 90],
   [Reset EXCEPT !.A = 127, !.F = 0, !.BC = 32767, !.DE = 66, !.HL = 65, !.IX = 127, !.SP = 32768],
   [Reset EXCEPT !.A = 0, !.F = 65, !.BC = 1, !.DE = 65535, !.HL = 64, !.IY = 65535, !.SP = 1],
   [Reset EXCEPT !.A = 255, !.F = 255, !.BC = 65408, !.DE = 32768, !.HL = 32767, !.IX = 67]}

Once(bytes, start) ==
  [cpu |-> start, mem |-> MemoryOf(bytes \o <<254, 3>>, <<255, 128, 1>>), fuel |-> 1, ints |-> 0,
   want |-> [PC |-> 65536], result |-> None, stack |-> {}]

MCPrograms ==
  {BlockCopy, Search, Decimal, LongSubtraction, Multiply, Prefixed, WaitForInterrupt, WaitInLoop,
   Nmi} \union {Once(bytes, start) : bytes \in Encodings, start \in Edges}
=============================================================================
