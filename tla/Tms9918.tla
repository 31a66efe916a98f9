------------------------------ MODULE Tms9918 ------------------------------
(***************************************************************************)
(* The TMS9918A of an MSX1 (class VDP of src/msx/vdp/vdp.py): its two      *)
(* ports and the interrupt line. Unlike the V9938 it has no latch for the  *)
(* address: both bytes of a control pair go into the pointer at once, also *)
(* when the pair is a register write. VRAM is modelled at a few addresses. *)
(***************************************************************************)
EXTENDS Bits, SequencesExt

CONSTANT TmsJobs      \* what a program does: records [chip, writes, reads,
                      \* frames, fuel]; a write is <<port, byte>>

VARIABLES
  tms,          \* the fields of the chip
  tmsJob,       \* what this program does, with the steps that are left (a bound)
  tmsSnap,      \* the latest save state
  tmsPair       \* history: the control bytes since the last access that ends a pair

tmsVars == <<tms, tmsJob, tmsSnap, tmsPair>>

-----------------------------------------------------------------------------
(* The ports.                                                              *)

TmsVram(t, a) == IF a \in DOMAIN t.vram THEN t.vram[a] ELSE 0
TmsRegMask == <<3, 251, 15, 255, 7, 127, 7, 255>>

\* update_irq: F under IE0.
TmsIrq(t) == [t EXCEPT !.irq = Bit(t.status, 7) /\ Bit(t.regs[1], 5)]

TmsAdvanced(t) == [t EXCEPT !.addr = (@ + 1) % 16384]

\* Mutant: IE0 is looked at only when F rises.
TmsWriteRegisterOnly(t, r, b) == [t EXCEPT !.regs[r] = And(b, TmsRegMask[r + 1])]

TmsWriteRegister(t, r, b) ==
  LET w == [t EXCEPT !.regs[r] = And(b, TmsRegMask[r + 1])]
  IN IF r = 1 THEN TmsIrq(w) ELSE w

TmsHighByte(t, b) == [t EXCEPT !.pending = FALSE, !.addr = (b % 64) * 256 + (@ % 256)]

\* The second byte: a register, or an address with a read ahead unless it is to write.
TmsSecondByte(t, b) ==
  LET w == TmsHighByte(t, b)
      a == (b % 64) * 256 + t.first
  IN CASE b > 127       -> TmsWriteRegister(w, b % 8, t.first)
       [] b \in 64..127 -> [w EXCEPT !.addr = a]
       [] b < 64        -> TmsAdvanced([w EXCEPT !.addr = a, !.readBuf = TmsVram(t, a)])

TmsWriteControl(t, b) ==
  IF t.pending THEN TmsSecondByte(t, b)
  ELSE [t EXCEPT !.first = b, !.pending = TRUE, !.addr = (@ \div 256) * 256 + b]

\* A write refills the read buffer too.
TmsWriteData(t, b) ==
  TmsAdvanced([t EXCEPT !.vram = IF t.addr \in DOMAIN t.vram THEN [@ EXCEPT ![t.addr] = b] ELSE @,
                        !.readBuf = b, !.pending = FALSE])

TmsReadData(t) == TmsAdvanced([t EXCEPT !.readBuf = TmsVram(t, t.addr), !.pending = FALSE])

\* A status read keeps the number of the fifth sprite only.
TmsReadStatus(t) == TmsIrq([t EXCEPT !.status = @ % 32, !.pending = FALSE])

-----------------------------------------------------------------------------
(* The frame, reset and save states.                                       *)

TmsBeginVblank(t) == TmsIrq([t EXCEPT !.status = (@ % 128) + 128])

\* The sprites of a frame leave the fifth sprite with its number and C.
TmsRendered(t, fifth, hit) ==
  LET s == IF fifth THEN And(t.status, 160) + 64 + 9 ELSE t.status
  IN [t EXCEPT !.status = IF hit THEN Or(s, 32) ELSE s]

\* reset() keeps VRAM.
TmsResetChip(t) ==
  [t EXCEPT !.regs = [r \in 0..7 |-> 0], !.status = 0, !.addr = 0, !.first = 0, !.pending = FALSE,
            !.readBuf = 0, !.irq = FALSE]
NewTms(vram) ==
  [vram |-> vram, regs |-> [r \in 0..7 |-> 0], status |-> 0, addr |-> 0, first |-> 0,
   pending |-> FALSE, readBuf |-> 0, irq |-> FALSE]

\* A program starts on a new chip.
ASSUME TmsAssumption ==
  \A j \in TmsJobs :
    /\ {"writes", "fuel"} \subseteq DOMAIN j
    /\ j.chip = NewTms(j.chip.vram)
    /\ j.writes \subseteq {0, 1} \X Byte

\* restore_latch: a save state holds the first byte only while it waits for its pair;
\* the interrupt line is derived.
TmsRestored(s) == TmsIrq([s EXCEPT !.first = IF s.pending THEN @ ELSE 0])

-----------------------------------------------------------------------------
(* A program at the ports, the frame, the host.                            *)

TmsNoPair == [bytes |-> <<>>, done |-> FALSE]
TmsStep == tmsJob.fuel > 0 /\ tmsJob' = [tmsJob EXCEPT !.fuel = @ - 1]

TmsWrite98 ==
  /\ TmsStep
  /\ \E w \in tmsJob.writes : w[1] = 0 /\ tms' = TmsWriteData(tms, w[2])
  /\ tmsPair' = TmsNoPair
  /\ UNCHANGED tmsSnap

TmsWrite99 ==
  /\ TmsStep
  /\ \E w \in tmsJob.writes :
       /\ w[1] = 1 /\ tms' = TmsWriteControl(tms, w[2])
       /\ tmsPair' = IF Len(tmsPair.bytes) = 1
                       THEN [bytes |-> Append(tmsPair.bytes, w[2]), done |-> TRUE]
                       ELSE [bytes |-> <<w[2]>>, done |-> FALSE]
  /\ UNCHANGED tmsSnap

TmsRead ==
  /\ TmsStep
  /\ \/ 0 \in tmsJob.reads /\ tms' = TmsReadData(tms)
     \/ 1 \in tmsJob.reads /\ tms' = TmsReadStatus(tms)
  /\ tmsPair' = TmsNoPair
  /\ UNCHANGED tmsSnap

TmsFrame ==
  /\ TmsStep /\ tmsJob.frames
  /\ \/ tms' = TmsBeginVblank(tms)
     \/ \E fifth, hit \in BOOLEAN : tms' = TmsRendered(tms, fifth, hit)
  /\ UNCHANGED <<tmsSnap, tmsPair>>

TmsSave ==
  /\ TmsStep
  /\ tmsSnap' = [tms |-> tms, pair |-> tmsPair]
  /\ UNCHANGED <<tms, tmsPair>>

TmsLoad ==
  /\ TmsStep /\ tmsSnap # <<>>
  /\ tms' = TmsRestored(tmsSnap.tms) /\ tmsPair' = tmsSnap.pair
  /\ UNCHANGED tmsSnap

TmsReset ==
  /\ TmsStep
  /\ tms' = TmsResetChip(tms) /\ tmsPair' = TmsNoPair
  /\ UNCHANGED tmsSnap

TmsInit ==
  /\ tmsJob \in TmsJobs /\ tms = tmsJob.chip
  /\ tmsSnap = <<>> /\ tmsPair = TmsNoPair

TmsNext == TmsWrite98 \/ TmsWrite99 \/ TmsRead \/ TmsFrame \/ TmsSave \/ TmsLoad \/ TmsReset

-----------------------------------------------------------------------------

\* The interrupt line of the MSX1 chip, which the machine reads before every
\* instruction, is F under IE0 after every write, read, blanking and load.
TmsIrqFollowsFlags ==
  tms.irq <=> And(tms.regs[1], 32) # 0 /\ And(tms.status, 128) # 0

\* After any access but a first control byte, the next two bytes on the control port
\* set the register or the address that they name. A register write moves the address
\* too, to the place that the same two bytes name.
TmsPairLands ==
  LET b1 == tmsPair.bytes[1]
      b2 == tmsPair.bytes[2]
      a  == (b2 % 64) * 256 + b1
  IN tmsPair.done =>
       /\ b2 > 127 => tms.regs[b2 % 8] = And(b1, TmsRegMask[(b2 % 8) + 1])
       /\ tms.addr = IF b2 < 64 THEN (a + 1) % 16384 ELSE a
=============================================================================
