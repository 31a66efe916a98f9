------------------------------- MODULE FmPac -------------------------------
(***************************************************************************)
(* The FM-PAC cartridge (src/msx/fmpac.py): a ROM of four 16 KB banks, an  *)
(* 8 KB battery-backed SRAM that two magic bytes unlock, and the registers *)
(* of the sound chip, also at two I/O ports behind an enable bit. The      *)
(* unlock flag is a copy: it is derived whenever a magic byte may change.  *)
(***************************************************************************)
EXTENDS Bits

CONSTANTS
  FmMagic,     \* the bytes a program writes to the magic registers
  FmBytes,     \* and to the other registers
  FmData       \* the bytes it writes to the SRAM cell that is followed, and to the chip

VARIABLES
  fm,          \* _bank, _enable, _r1ffe, _r1fff, _sram_enabled
  fmSram,      \* one cell of the SRAM below the magic bytes
  fmChip,      \* the latest write that reached the OPLL: its register latch
  fmSnap       \* the latest save state

fmVars == <<fm, fmSram, fmChip, fmSnap>>

\* The places of the window 0x4000-0x7FFF that behave differently.
FmPlaces == {"sram", "magic_lo", "magic_hi", "upper", "opll_addr", "enable", "bank"}

FmSrc(s, at) == [src |-> s, at |-> at]

\* read: the registers come first, then the SRAM, which hides the ROM.
FmView(place) ==
  CASE place = "enable" -> FmSrc("reg", fm.enable)
    [] place = "bank"   -> FmSrc("reg", fm.bank)
    [] ~fm.unlocked /\ place \notin {"enable", "bank"} -> FmSrc("rom", fm.bank)
    [] fm.unlocked /\ place = "sram"     -> FmSrc("sram", fmSram)
    [] fm.unlocked /\ place = "magic_lo" -> FmSrc("reg", fm.lo)
    [] fm.unlocked /\ place = "magic_hi" -> FmSrc("reg", fm.hi)
    [] OTHER            -> FmSrc("open", 255)

IsMagic(lo, hi) == lo = 77 /\ hi = 105          \* 0x4D, 0x69

Protected == Bit(fm.enable, 4)

\* _check_sram_enable
Checked(r) == [r EXCEPT !.unlocked = IsMagic(r.lo, r.hi)]

PowerOnFm == [bank |-> 0, enable |-> 0, lo |-> 0, hi |-> 0, unlocked |-> FALSE]

NoFmSnap == [saved |-> FALSE]

FmInit == fm = PowerOnFm /\ fmSram = 0 /\ fmChip = 0 /\ fmSnap = NoFmSnap

FmWriteMagicLo(v) ==
  /\ ~Protected
  /\ fm' = Checked([fm EXCEPT !.lo = v])
  /\ UNCHANGED <<fmSram, fmChip, fmSnap>>

FmWriteMagicHi(v) ==
  /\ ~Protected
  /\ fm' = Checked([fm EXCEPT !.hi = v])
  /\ UNCHANGED <<fmSram, fmChip, fmSnap>>

\* Setting the write protection clears the magic bytes and so locks the SRAM.
FmWriteEnable(v) ==
  /\ fm' = IF Bit(v, 4) THEN Checked([fm EXCEPT !.enable = And(v, 17), !.lo = 0, !.hi = 0])
           ELSE [fm EXCEPT !.enable = And(v, 17)]
  /\ UNCHANGED <<fmSram, fmChip, fmSnap>>

FmWriteBank(v) ==
  /\ fm' = [fm EXCEPT !.bank = v % 4]
  /\ UNCHANGED <<fmSram, fmChip, fmSnap>>

FmWriteSram(d) ==
  /\ fm.unlocked
  /\ fmSram' = d
  /\ UNCHANGED <<fm, fmChip, fmSnap>>

\* The memory-mapped register is always there, the port only if bit 0 says so.
FmWriteChip(v) ==
  /\ fmChip' = v
  /\ UNCHANGED <<fm, fmSram, fmSnap>>

FmWritePort(v) ==
  /\ Bit(fm.enable, 0)
  /\ fmChip' = v
  /\ UNCHANGED <<fm, fmSram, fmSnap>>

FmReset == fm' = PowerOnFm /\ fmChip' = 0 /\ UNCHANGED <<fmSram, fmSnap>>

\* The unlock flag is not saved.
FmSave ==
  /\ fmSnap' = [saved |-> TRUE, bank |-> fm.bank, enable |-> fm.enable, lo |-> fm.lo,
                hi |-> fm.hi, sram |-> fmSram, chip |-> fmChip,
                seen |-> [p \in FmPlaces |-> FmView(p)]]
  /\ UNCHANGED <<fm, fmSram, fmChip>>

FmRestored(s) ==
  Checked([fm EXCEPT !.bank = s.bank, !.enable = s.enable, !.lo = s.lo, !.hi = s.hi])

FmLoad ==
  /\ fmSnap.saved
  /\ fm' = FmRestored(fmSnap)
  /\ fmSram' = fmSnap.sram
  /\ fmChip' = fmSnap.chip
  /\ UNCHANGED fmSnap

FmNext ==
  \/ \E v \in FmMagic : FmWriteMagicLo(v) \/ FmWriteMagicHi(v)
  \/ \E v \in FmBytes : FmWriteEnable(v) \/ FmWriteBank(v)
  \/ \E d \in FmData : FmWriteSram(d) \/ FmWriteChip(d) \/ FmWritePort(d)
  \/ FmReset \/ FmSave \/ FmLoad

FmSpec == FmInit /\ [][FmNext]_fmVars

-----------------------------------------------------------------------------
(* What the debugger reports for the window (debug_bank). *)
FmDescribed == IF fm.unlocked THEN FmSrc("sram", fmSram) ELSE FmSrc("rom", fm.bank)

\* The unlock flag is what the magic bytes say, and write protection locks the SRAM.
FmLockFollowsMagic ==
  /\ fm.unlocked = IsMagic(fm.lo, fm.hi)
  /\ Protected => ~fm.unlocked

\* A loaded state shows at every place what was there when it was saved.
FmLoadShowsSaved == [][FmLoad => \A p \in FmPlaces : FmView(p)' = fmSnap.seen[p]]_fmVars
=============================================================================
