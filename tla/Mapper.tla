------------------------------- MODULE Mapper -------------------------------
(***************************************************************************)
(* The cartridge in a slot (src/msx/mapper.py): bank registers that choose *)
(* what each window of the address space shows, battery-backed SRAM behind *)
(* a gate, and the copies the code keeps so that a read need not decode    *)
(* the registers: the mirror _flat, the flags _window_is_sram, the windows *)
(* of the SCC.                                                             *)
(*                                                                         *)
(* An address is a 2 KB block of the 64 KB (no decoder is finer) and       *)
(* whether it is the last byte of it (the registers of the Halnote and the *)
(* mode register of the SCC-I are). ROM contents are page numbers, SRAM    *)
(* and cartridge RAM are cells of 2 KB.                                    *)
(***************************************************************************)
EXTENDS Bits, FiniteSets

CONSTANTS
  Kinds,    \* the MapperKinds considered
  Roms,     \* Roms[k]: the ROMs of kind k, [full: whole pages, part: a part of one more]
  Addrs,    \* Addrs[k]: the addresses the program writes to a cartridge of kind k
  Values,   \* Values[k]: the bytes it writes there
  Data,     \* the contents of a cell of SRAM or cartridge RAM
  Blank     \* the one of a new cell

VARIABLES
  kind,     \* the MapperKind
  rom,      \* the ROM in it
  bank,     \* _banks: a register per window (_bank of the R-Type is bank[1])
  flat,     \* _flat: the page each window of the mirror holds (_window_base of the SCC-I)
  sramWin,  \* _window_is_sram
  latch,    \* the other registers and what is derived from them
  mem,      \* sram_image, or the RAM of the SCC-I
  snap      \* the latest save state, and what the cartridge showed then

mapperVars == <<kind, rom, bank, flat, sramWin, latch, mem, snap>>

-----------------------------------------------------------------------------
(* The kinds. *)

AllKinds ==
  {"ascii8", "ascii16", "ascii8_sram2", "ascii8_sram8", "koei_sram32", "game_master2",
   "ascii16_sram2", "ascii16_sram8", "r_type", "konami", "majutsushi", "konami_scc",
   "scc_i_cart", "halnote"}

Ascii8Sram  == {"ascii8_sram2", "ascii8_sram8", "koei_sram32"}
Ascii8      == {"ascii8"} \union Ascii8Sram
Ascii16Sram == {"ascii16_sram2", "ascii16_sram8"}
Ascii16     == {"ascii16"} \union Ascii16Sram
Konami      == {"konami", "majutsushi"}
Wide        == Ascii16 \union {"r_type"}     \* two windows of 16 KB instead of four of 8 KB

\* Cells of SRAM, or of cartridge RAM.
Cells(k) ==
  CASE k \in {"ascii8_sram2", "ascii16_sram2"}                 -> 1
    [] k \in {"ascii8_sram8", "ascii16_sram8", "game_master2"} -> 4
    [] k = "halnote"                                           -> 8
    [] k = "koei_sram32"                                       -> 16
    [] k = "scc_i_cart"                                        -> 32
    [] OTHER                                                   -> 0

\* The windows whose register may select SRAM (_SRAM_PAGES, _is_sram_bank).
SramWindows(k) ==
  CASE k = "koei_sram32"                     -> {0, 2, 3}
    [] k \in Ascii8Sram                      -> {2, 3}
    [] k = "game_master2"                    -> {1, 2, 3}
    [] k \in Ascii16Sram                     -> {0, 1}
    [] OTHER                                 -> {}

ASSUME KindsAssumption ==
  /\ Kinds \subseteq AllKinds
  /\ \A k \in Kinds :
       /\ \A r \in Roms[k] : r.full \in Nat /\ r.part \in BOOLEAN
       /\ \A a \in Addrs[k] : a.block \in 0..31 /\ a.last \in BOOLEAN
       /\ Values[k] \subseteq Byte
       \* HalnoteMapper takes a ROM of 128 pages only
       /\ k = "halnote" => \A r \in Roms[k] : r.full = 128 /\ r.part = FALSE
  /\ Blank \in Data

Windows     == IF kind \in Wide THEN 0..1 ELSE 0..3
Span        == IF kind \in Wide THEN 8 ELSE 4         \* blocks per window
WindowOf(b) == (b - 8) \div Span                      \* for the blocks 8..23
InWindows   == 8..23                                  \* 0x4000-0xBFFF

-----------------------------------------------------------------------------
(* From a register to a page. *)

NumPages == IF rom.full = 0 THEN 1 ELSE rom.full

\* RomBlocks::setRom: a value below the page count selects that page, another
\* one is masked with pages - 1, which is contiguous only for powers of two.
TwoTier(v) == IF v < NumPages THEN v ELSE And(v, NumPages - 1)

FixedBlock == TwoTier(23)                             \* _RTYPE_FIXED_BLOCK

\* What the register of a window stores when v is written to it.
Stored(v) ==
  CASE kind \in Konami     -> IF v < NumPages THEN v ELSE And(v, 31)
    [] kind = "konami_scc" -> TwoTier(v)
    [] kind = "r_type"     -> And(v, IF Bit(v, 4) THEN 23 ELSE 31)
    [] OTHER               -> v

OpenBus == -1

\* A page past the end of the ROM reads as open bus.
PageOrOpen(p) == IF p < rom.full + (IF rom.part THEN 1 ELSE 0) THEN p ELSE OpenBus

\* What _sync_window copies into the mirror for the register value v.
PageOf(v) ==
  CASE kind \in Ascii8 \union Ascii16 -> PageOrOpen(TwoTier(v))
    [] kind = "game_master2"          -> PageOrOpen((v % 16) % NumPages)
    [] kind = "halnote"               -> v % 128
    [] kind = "scc_i_cart"            -> v % 8
    [] OTHER                          -> PageOrOpen(v)

\* _is_sram_bank: the value v selects SRAM in window w.
SelectsSram(w, v) ==
  /\ w \in SramWindows(kind)
  /\ \/ kind \in Ascii8Sram /\ And(v, NumPages) # 0
     \/ kind \in Ascii16Sram /\ v = 16
     \/ kind = "game_master2" /\ Bit(v, 4)

\* _sync_window for the windows ws. A window that turns to SRAM keeps what the
\* mirror held.
Synced(ws, regs) ==
  /\ sramWin' = [w \in Windows |->
                   IF w \in ws THEN SelectsSram(w, regs[w]) ELSE sramWin[w]]
  /\ flat' = [w \in Windows |->
                IF w \in ws /\ ~SelectsSram(w, regs[w]) THEN PageOf(regs[w]) ELSE flat[w]]
-----------------------------------------------------------------------------
(* What a read of a block returns: a place of the ROM, a cell of memory,  *)
(* the sound chip, or nothing.                                             *)

Open        == [src |-> "open", at |-> 0]
Sound       == [src |-> "scc", at |-> 0]
Rom(p, b)   == IF p = OpenBus THEN Open ELSE [src |-> "rom", at |-> p * Span + (b % Span)]
Cell(c)     == [src |-> "mem", at |-> c]

\* _sram_block_mask: the bits of an ASCII8 register that choose an 8 KB block.
SramBlockMask == IF Cells(kind) < 4 THEN 0 ELSE (Cells(kind) \div 4) - 1

\* _sram_offset: the cell an SRAM window shows at block b.
Ascii8Cell(w, b)  == (And(bank[w], SramBlockMask) * 4 + (b % 4)) % Cells(kind)
Ascii16Cell(b)    == (b % 8) % Cells(kind)
Gm2Cell(h, b)     == h * 2 + (b % 2)

Mirror(w, b) == Rom(flat[w], b)

Ascii8View(b) ==
  IF b \notin InWindows THEN Open
  ELSE IF sramWin[WindowOf(b)] THEN Cell(Ascii8Cell(WindowOf(b), b)) ELSE Mirror(WindowOf(b), b)

Ascii16View(b) ==
  IF b \notin InWindows THEN Open
  ELSE IF sramWin[WindowOf(b)] THEN Cell(Ascii16Cell(b)) ELSE Mirror(WindowOf(b), b)

Gm2View(b) ==
  IF b \notin InWindows THEN Open
  ELSE IF sramWin[WindowOf(b)] THEN Cell(Gm2Cell(latch.winHalf[WindowOf(b)], b))
  ELSE Mirror(WindowOf(b), b)

RTypeView(b) == IF b \in InWindows THEN Mirror(WindowOf(b), b) ELSE Open

\* Outside the windows the Konami mappers mirror them: windows 0 and 1 below
\* 0x4000 and windows 2 and 3 above 0xBFFF, the SCC the other way round.
KonamiView(b) ==
  IF b < 8 THEN Mirror(b \div 4, b)
  ELSE IF b > 23 THEN Mirror(b \div 4 - 4, b) ELSE Mirror(WindowOf(b), b)

KonamiSccView(b) ==
  IF latch.scc = 19 /\ b = 19 THEN Sound
  ELSE IF b < 8 THEN Mirror(b \div 4 + 2, b)
  ELSE IF b > 23 THEN Mirror(b \div 4 - 6, b) ELSE Mirror(WindowOf(b), b)

SccICartView(b) ==
  IF b = latch.scc THEN Sound
  ELSE IF b \in InWindows THEN Cell(flat[WindowOf(b)] * 4 + (b % 4)) ELSE Open

\* The dictionary sub-mapper shows 2 KB blocks of the upper half of the ROM.
HalnoteView(b) ==
  IF b < 8 THEN (IF latch.sramOn THEN Cell(b) ELSE Open)
  ELSE IF b > 23 THEN Open
  ELSE IF latch.subOn /\ b \in {14, 15}
         THEN [src |-> "rom", at |-> 64 * 4 + latch.sub[b - 14]]
  ELSE Mirror(WindowOf(b), b)

View(b) ==
  CASE kind \in Ascii8         -> Ascii8View(b)
    [] kind \in Ascii16        -> Ascii16View(b)
    [] kind = "game_master2"   -> Gm2View(b)
    [] kind = "r_type"         -> RTypeView(b)
    [] kind \in Konami         -> KonamiView(b)
    [] kind = "konami_scc"     -> KonamiSccView(b)
    [] kind = "scc_i_cart"     -> SccICartView(b)
    [] kind = "halnote"        -> HalnoteView(b)

-----------------------------------------------------------------------------
(* What the debugger reports (debug_bank, _debug_windows): for each        *)
(* window, and for the halves the Halnote's sub-mapper covers, the place   *)
(* its first block shows.                                                  *)

RomWindow(p, w) == Rom(PageOrOpen(p), 8 + Span * w)

DescribedAscii8(w) ==
  IF sramWin[w] THEN Cell(Ascii8Cell(w, 0)) ELSE RomWindow(TwoTier(bank[w]), w)

DescribedAscii16(w) ==
  IF sramWin[w] THEN Cell(0) ELSE RomWindow(TwoTier(bank[w]), w)

\* Mutant: the half of the latest selection for every window.
DescribedGm2Latest(w) ==
  IF sramWin[w] THEN Cell(latch.half * 2) ELSE RomWindow((bank[w] % 16) % NumPages, w)

DescribedGm2(w) ==
  IF sramWin[w] THEN Cell(latch.winHalf[w] * 2) ELSE RomWindow((bank[w] % 16) % NumPages, w)

DescribedRType(w)     == RomWindow(bank[w], w)
DescribedKonami(w)    == RomWindow(bank[w], w)
DescribedKonamiScc(w) == RomWindow(bank[w], w)
DescribedSccICart(w)  == Cell((bank[w] % 8) * 4)
DescribedHalnote(w)   == RomWindow(bank[w] % 128, w)

Described(w) ==
  CASE kind \in Ascii8         -> DescribedAscii8(w)
    [] kind \in Ascii16        -> DescribedAscii16(w)
    [] kind = "game_master2"   -> DescribedGm2(w)
    [] kind = "r_type"         -> DescribedRType(w)
    [] kind \in Konami         -> DescribedKonami(w)
    [] kind = "konami_scc"     -> DescribedKonamiScc(w)
    [] kind = "scc_i_cart"     -> DescribedSccICart(w)
    [] kind = "halnote"        -> DescribedHalnote(w)

-----------------------------------------------------------------------------
(* Power-on. *)

NoWindow == 32      \* _SCCI_NO_WINDOW, above every address

PowerOnLatch ==
  [half |-> 0, winHalf |-> [w \in 0..3 |-> 0],      \* Game Master 2
   sramOn |-> FALSE,                                \* Game Master 2, Halnote
   sub |-> [i \in 0..1 |-> 0], subOn |-> FALSE,     \* Halnote
   dac |-> 128,                                     \* Hai no Majutsushi
   scc |-> NoWindow,                                \* the block the SCC answers at
   mode |-> 0, ramSeg |-> {}, plus |-> FALSE]       \* SCC-I

PowerOnBanks ==
  CASE kind \in Ascii8 \union Ascii16 -> [w \in Windows |-> 0]
    [] kind = "r_type"                -> [w \in Windows |-> IF w = 0 THEN FixedBlock ELSE 0]
    [] OTHER                          -> [w \in Windows |-> w]

NoSnap == [saved |-> FALSE]

MapperInit ==
  /\ kind \in Kinds
  /\ rom \in Roms[kind]
  /\ bank = PowerOnBanks
  /\ flat = [w \in Windows |-> PageOf(bank[w])]
  /\ sramWin = [w \in Windows |-> FALSE]
  /\ latch = PowerOnLatch
  /\ mem = [c \in 0..(Cells(kind) - 1) |-> Blank]
  /\ snap = NoSnap

-----------------------------------------------------------------------------
(* Writes. A write that no action below covers is ignored by the           *)
(* cartridge.                                                              *)

Unchanged == UNCHANGED <<kind, rom, snap>>

\* Ascii8Mapper.write and Ascii8Sram2Mapper.write: the four 2 KB zones of
\* 0x6000-0x7FFF are the registers; the window is refreshed if the value changed.
SelectAscii8(a, v) ==
  /\ kind \in Ascii8
  /\ a.block \in 12..15
  /\ LET w == a.block - 12 IN
     /\ bank' = [bank EXCEPT ![w] = v]
     /\ Synced(IF v # bank[w] THEN {w} ELSE {}, bank')
  /\ UNCHANGED <<latch, mem>> /\ Unchanged

\* Below 0x6000 and from 0x8000 on, where the register selects SRAM, a write goes there.
StoreAscii8(a, v) ==
  /\ kind \in Ascii8Sram
  /\ a.block \in InWindows \ 12..15
  /\ SelectsSram(WindowOf(a.block), bank[WindowOf(a.block)])
  /\ mem' = [mem EXCEPT ![Ascii8Cell(WindowOf(a.block), a.block)] = v]
  /\ UNCHANGED <<bank, flat, sramWin, latch>> /\ Unchanged

\* 0x6000-0x67FF is the register of window 0, 0x7000-0x77FF that of window 1.
SelectAscii16(a, v) ==
  /\ kind \in Ascii16
  /\ a.block \in {12, 14}
  /\ LET w == IF a.block = 12 THEN 0 ELSE 1 IN
     /\ bank' = [bank EXCEPT ![w] = v]
     /\ Synced(IF v # bank[w] THEN {w} ELSE {}, bank')
  /\ UNCHANGED <<latch, mem>> /\ Unchanged

\* Mutant: window 0 takes writes too.
StoreAscii16Anywhere(a, v) ==
  /\ kind \in Ascii16Sram
  /\ a.block \in InWindows \ {12, 14}
  /\ SelectsSram(1, bank[1])
  /\ mem' = [mem EXCEPT ![Ascii16Cell(a.block)] = v]
  /\ UNCHANGED <<bank, flat, sramWin, latch>> /\ Unchanged

\* SRAM in window 0 is read-only.
StoreAscii16(a, v) ==
  /\ kind \in Ascii16Sram
  /\ a.block \in 16..23
  /\ SelectsSram(1, bank[1])
  /\ mem' = [mem EXCEPT ![Ascii16Cell(a.block)] = v]
  /\ UNCHANGED <<bank, flat, sramWin, latch>> /\ Unchanged

\* The low 4 KB of the windows 1 to 3. Only window 3 sets the write latch; each
\* selection of SRAM chooses a half, for its window and as the latest.
SelectGm2(a, v) ==
  /\ kind = "game_master2"
  /\ a.block \in 12..21 /\ a.block % 4 < 2
  /\ LET w == WindowOf(a.block)
         h == IF Bit(v, 5) THEN 1 ELSE 0
     IN
     /\ bank' = [bank EXCEPT ![w] = v]
     /\ Synced({w}, bank')
     /\ latch' = [latch EXCEPT !.sramOn = IF w = 3 THEN Bit(v, 4) ELSE @,
                               !.half = IF Bit(v, 4) THEN h ELSE @,
                               !.winHalf[w] = IF Bit(v, 4) THEN h ELSE @]
  /\ UNCHANGED mem /\ Unchanged

\* 0xB000-0xBFFF writes to the latest half, whatever window 3 shows.
StoreGm2(a, v) ==
  /\ kind = "game_master2"
  /\ a.block \in {22, 23}
  /\ latch.sramOn
  /\ mem' = [mem EXCEPT ![Gm2Cell(latch.half, a.block)] = v]
  /\ UNCHANGED <<bank, flat, sramWin, latch>> /\ Unchanged

SelectRType(a, v) ==
  /\ kind = "r_type"
  /\ a.block \in 8..15
  /\ bank' = [bank EXCEPT ![1] = Stored(v)]
  /\ Synced(IF Stored(v) # bank[1] THEN {1} ELSE {}, bank')
  /\ UNCHANGED <<latch, mem>> /\ Unchanged

\* Window 0 is fixed; each other window is its own register. Majutsushi has the
\* same registers.
SelectKonami(a, v) ==
  /\ kind \in Konami
  /\ a.block \in 12..23
  /\ LET w == WindowOf(a.block) IN
     /\ bank' = [bank EXCEPT ![w] = Stored(v)]
     /\ Synced(IF Stored(v) # bank[w] THEN {w} ELSE {}, bank')
  /\ UNCHANGED <<latch, mem>> /\ Unchanged

\* Hai no Majutsushi: 0x5000-0x5FFF is the DAC.
WriteDac(a, v) ==
  /\ kind = "majutsushi"
  /\ a.block \in {10, 11}
  /\ latch' = [latch EXCEPT !.dac = v]
  /\ UNCHANGED <<bank, flat, sramWin, mem>> /\ Unchanged

\* The register of a window is the third 2 KB of it. The one of window 2 also
\* turns the SCC on and off, by its low six bits.
SelectKonamiScc(a, v) ==
  /\ kind = "konami_scc"
  /\ a.block \in {10, 14, 18, 22}
  /\ LET w == WindowOf(a.block) IN
     /\ bank' = [bank EXCEPT ![w] = Stored(v)]
     /\ Synced(IF Stored(v) # bank[w] THEN {w} ELSE {}, bank')
     /\ latch' = IF w = 2 THEN [latch EXCEPT !.scc = IF v % 64 = 63 THEN 19 ELSE NoWindow]
                 ELSE latch
  /\ UNCHANGED mem /\ Unchanged

-----------------------------------------------------------------------------
(* The SCC-I cartridge: the mode register and the banks together decide    *)
(* where the sound chip answers and which windows are plain RAM.           *)

\* _sync_scc_window
SccWindow(mode, regs) ==
  CASE Bit(mode, 5) /\ Bit(regs[3], 7)          -> 23
    [] ~Bit(mode, 5) /\ regs[2] % 64 = 63       -> 19
    [] OTHER                                    -> NoWindow

RamSegments(mode) ==
  IF Bit(mode, 4) THEN 0..3
  ELSE {w \in 0..2 : CASE w = 0 -> Bit(mode, 0)
                       [] w = 1 -> Bit(mode, 1)
                       [] w = 2 -> Bit(mode, 2) /\ Bit(mode, 5)}

\* _set_mode_register
WithMode(l, mode, regs) ==
  [l EXCEPT !.mode = mode, !.plus = Bit(mode, 5), !.ramSeg = RamSegments(mode),
            !.scc = SccWindow(mode, regs)]

\* 0xBFFE and 0xBFFF come before everything else.
IsModeRegister(a) == a.block = 23 /\ a.last

SetSccIMode(a, v) ==
  /\ kind = "scc_i_cart"
  /\ IsModeRegister(a)
  /\ latch' = WithMode(latch, v, bank)
  /\ UNCHANGED <<bank, flat, sramWin, mem>> /\ Unchanged

\* A RAM window hides the bank register and, for writes, the SCC.
StoreSccI(a, v) ==
  /\ kind = "scc_i_cart"
  /\ a.block \in InWindows /\ ~IsModeRegister(a)
  /\ WindowOf(a.block) \in latch.ramSeg
  /\ mem' = [mem EXCEPT ![flat[WindowOf(a.block)] * 4 + (a.block % 4)] = v]
  /\ UNCHANGED <<bank, flat, sramWin, latch>> /\ Unchanged

SelectSccI(a, v) ==
  /\ kind = "scc_i_cart"
  /\ a.block \in InWindows /\ ~IsModeRegister(a)
  /\ WindowOf(a.block) \notin latch.ramSeg
  /\ a.block % 4 = 2
  /\ bank' = [bank EXCEPT ![WindowOf(a.block)] = v]
  /\ Synced({WindowOf(a.block)}, bank')
  /\ latch' = [latch EXCEPT !.scc = SccWindow(latch.mode, bank')]
  /\ UNCHANGED mem /\ Unchanged

-----------------------------------------------------------------------------
(* The Halnote: SRAM below 0x4000 behind bit 7 of bank 0, the dictionary   *)
(* sub-mapper over half of window 1 behind bit 7 of bank 1.                *)

StoreHalnote(a, v) ==
  /\ kind = "halnote"
  /\ a.block < 8
  /\ latch.sramOn
  /\ mem' = [mem EXCEPT ![a.block] = v]
  /\ UNCHANGED <<bank, flat, sramWin, latch>> /\ Unchanged

SelectSubBank(a, v) ==
  /\ kind = "halnote"
  /\ a.last /\ a.block \in {14, 15}
  /\ latch' = [latch EXCEPT !.sub[a.block - 14] = v]
  /\ UNCHANGED <<bank, flat, sramWin, mem>> /\ Unchanged

SelectHalnote(a, v) ==
  /\ kind = "halnote"
  /\ a.last /\ a.block \in {9, 13, 17, 21}
  /\ LET w == WindowOf(a.block) IN
     /\ bank' = [bank EXCEPT ![w] = v]
     /\ Synced({w}, bank')
     /\ latch' = [latch EXCEPT !.sramOn = IF w = 0 THEN Bit(v, 7) ELSE @,
                               !.subOn = IF w = 1 THEN Bit(v, 7) ELSE @]
  /\ UNCHANGED mem /\ Unchanged

-----------------------------------------------------------------------------
(* Resets. No memory is touched. The windows are refreshed from the        *)
(* power-on registers.                                                     *)

ResetBanks ==
  /\ bank' = PowerOnBanks
  /\ Synced(IF kind = "r_type" THEN {1} ELSE Windows, bank')
  /\ UNCHANGED mem /\ Unchanged

ResetPlain ==
  /\ kind \in Ascii8 \union Ascii16 \union {"r_type", "konami"}
  /\ ResetBanks /\ UNCHANGED latch

ResetGm2 ==
  /\ kind = "game_master2"
  /\ ResetBanks
  /\ latch' = [latch EXCEPT !.winHalf = PowerOnLatch.winHalf, !.half = 0, !.sramOn = FALSE]

ResetMajutsushi ==
  /\ kind = "majutsushi"
  /\ ResetBanks /\ latch' = [latch EXCEPT !.dac = 128]

ResetKonamiScc ==
  /\ kind = "konami_scc"
  /\ ResetBanks /\ latch' = [latch EXCEPT !.scc = NoWindow]

ResetSccI ==
  /\ kind = "scc_i_cart"
  /\ ResetBanks /\ latch' = WithMode(latch, 0, bank')

\* Mutant: the sub-mapper stays on.
ResetHalnoteKeepingSub ==
  /\ kind = "halnote"
  /\ ResetBanks
  /\ latch' = [latch EXCEPT !.sub = PowerOnLatch.sub, !.sramOn = FALSE]

ResetHalnote ==
  /\ kind = "halnote"
  /\ ResetBanks
  /\ latch' = [latch EXCEPT !.sub = PowerOnLatch.sub, !.sramOn = FALSE, !.subOn = FALSE]

Reset ==
  \/ ResetPlain \/ ResetGm2 \/ ResetMajutsushi \/ ResetKonamiScc \/ ResetSccI \/ ResetHalnote

-----------------------------------------------------------------------------
(* Save states. A snapshot holds the fields the code writes for the kind;  *)
(* `seen' is a history: what the cartridge showed when it was taken.       *)

SavedFields ==
  CASE kind \in {"ascii8", "ascii16", "konami"} -> [banks |-> bank]
    [] kind \in Ascii8Sram \union Ascii16Sram   -> [banks |-> bank, sram |-> mem]
    [] kind = "game_master2" ->
         [banks |-> bank, sram_half |-> latch.half, window_sram_half |-> latch.winHalf,
          sram_enabled |-> latch.sramOn, sram |-> mem]
    [] kind = "r_type"       -> [bank |-> bank[1]]
    [] kind = "majutsushi"   -> [banks |-> bank, last_dac |-> latch.dac]
    [] kind = "konami_scc"   -> [banks |-> bank, scc_mode |-> latch.scc = 19]
    [] kind = "scc_i_cart"   -> [ram |-> mem, banks |-> bank, mode_register |-> latch.mode]
    [] kind = "halnote"      -> [banks |-> bank, subbanks |-> latch.sub, sram |-> mem]

Blocks == 0..31

SaveState ==
  /\ snap' = [saved |-> TRUE, fields |-> SavedFields, seen |-> [b \in Blocks |-> View(b)]]
  /\ UNCHANGED <<kind, rom, bank, flat, sramWin, latch, mem>>

LoadBanks(regs) ==
  /\ snap.saved
  /\ bank' = regs
  /\ Synced(Windows, bank')
  /\ UNCHANGED <<kind, rom, snap>>

LoadPlain ==
  /\ kind \in {"ascii8", "ascii16", "konami"}
  /\ LoadBanks(snap.fields.banks) /\ UNCHANGED <<latch, mem>>

LoadAsciiSram ==
  /\ kind \in Ascii8Sram \union Ascii16Sram
  /\ LoadBanks(snap.fields.banks)
  /\ mem' = snap.fields.sram /\ UNCHANGED latch

LoadGm2 ==
  /\ kind = "game_master2"
  /\ LoadBanks(snap.fields.banks)
  /\ latch' = [latch EXCEPT !.half = snap.fields.sram_half,
                            !.winHalf = snap.fields.window_sram_half,
                            !.sramOn = snap.fields.sram_enabled]
  /\ mem' = snap.fields.sram

LoadRType ==
  /\ kind = "r_type"
  /\ LoadBanks([bank EXCEPT ![1] = snap.fields.bank]) /\ UNCHANGED <<latch, mem>>

LoadMajutsushi ==
  /\ kind = "majutsushi"
  /\ LoadBanks(snap.fields.banks)
  /\ latch' = [latch EXCEPT !.dac = snap.fields.last_dac] /\ UNCHANGED mem

LoadKonamiScc ==
  /\ kind = "konami_scc"
  /\ LoadBanks(snap.fields.banks)
  /\ latch' = [latch EXCEPT !.scc = IF snap.fields.scc_mode THEN 19 ELSE NoWindow]
  /\ UNCHANGED mem

LoadSccI ==
  /\ kind = "scc_i_cart"
  /\ LoadBanks(snap.fields.banks)
  /\ latch' = WithMode(latch, snap.fields.mode_register, bank')
  /\ mem' = snap.fields.ram

\* Mutant: the gates stay as they are.
LoadHalnoteKeepingGates ==
  /\ kind = "halnote"
  /\ LoadBanks(snap.fields.banks)
  /\ latch' = [latch EXCEPT !.sub = snap.fields.subbanks]
  /\ mem' = snap.fields.sram

\* The two gates are not saved but derived from the banks.
LoadHalnote ==
  /\ kind = "halnote"
  /\ LoadBanks(snap.fields.banks)
  /\ latch' = [latch EXCEPT !.sub = snap.fields.subbanks,
                            !.sramOn = Bit(bank'[0], 7), !.subOn = Bit(bank'[1], 7)]
  /\ mem' = snap.fields.sram

LoadState ==
  \/ LoadPlain \/ LoadAsciiSram \/ LoadGm2 \/ LoadRType \/ LoadMajutsushi
  \/ LoadKonamiScc \/ LoadSccI \/ LoadHalnote

-----------------------------------------------------------------------------

Store(a, d) ==
  \/ StoreAscii8(a, d) \/ StoreAscii16(a, d) \/ StoreGm2(a, d) \/ StoreSccI(a, d)
  \/ StoreHalnote(a, d)

Select(a, v) ==
  \/ SelectAscii8(a, v) \/ SelectAscii16(a, v) \/ SelectGm2(a, v) \/ SelectRType(a, v)
  \/ SelectKonami(a, v) \/ WriteDac(a, v) \/ SelectKonamiScc(a, v) \/ SetSccIMode(a, v)
  \/ SelectSccI(a, v) \/ SelectSubBank(a, v) \/ SelectHalnote(a, v)

MapperNext ==
  \/ \E a \in Addrs[kind] : \/ \E v \in Values[kind] : Select(a, v)
                            \/ \E d \in Data : Store(a, d)
  \/ Reset
  \/ SaveState
  \/ LoadState

MapperSpec == MapperInit /\ [][MapperNext]_mapperVars

-----------------------------------------------------------------------------
(* Properties. *)

\* The mirror of a window that is not SRAM holds the page its register selects:
\* no sequence of switches between ROM and SRAM, resets and loads leaves it behind
\* (_flat is written only by _sync_window, and not while the window is SRAM).
MirrorFollowsBanks ==
  \A w \in Windows : ~sramWin[w] => flat[w] = PageOf(bank[w])

\* Every gate the code keeps beside the registers is the one the registers say:
\* the SRAM flags, the write latch and the halves of the Game Master 2, the SCC
\* window and RAM windows of the SCC-I, the two gates of the Halnote.
GatesFollowBanks ==
  /\ \A w \in Windows : sramWin[w] = SelectsSram(w, bank[w])
  /\ kind = "game_master2" =>
       /\ latch.sramOn = sramWin[3]
       /\ \A w \in Windows : sramWin[w] => latch.winHalf[w] = IF Bit(bank[w], 5) THEN 1 ELSE 0
  /\ kind = "scc_i_cart" =>
       /\ latch.scc = SccWindow(latch.mode, bank)
       /\ latch.ramSeg = RamSegments(latch.mode)
       /\ latch.plus = Bit(latch.mode, 5)
  /\ kind = "halnote" =>
       latch.sramOn = Bit(bank[0], 7) /\ latch.subOn = Bit(bank[1], 7)

\* No copy is ever behind its register.
CopiesFollowBanks == MirrorFollowsBanks /\ GatesFollowBanks

\* The debugger's slot view names for each window the place a read of it returns:
\* debug_bank decodes the registers on its own, the reads use the copies.
DescriptionIsRead ==
  /\ \A w \in Windows : View(8 + Span * w) = Described(w)
  /\ kind = "halnote" /\ latch.subOn =>
       \A i \in 0..1 : View(14 + i).at = 64 * 4 + latch.sub[i]

\* Loading a state shows at every address what was there when it was saved,
\* whatever windows, halves and gates were open in between.
LoadShowsSaved ==
  [][LoadState => \A b \in Blocks : View(b)' = snap.seen[b]]_mapperVars

\* A write changes memory only where a read of the same address shows it: what the
\* gates hide cannot be written, and no other cell changes. Two kinds differ as their
\* documentation says: the Game Master 2 writes to the latest half, and a RAM window
\* of the SCC-I takes the writes under the sound chip, not the reads.
StoresWhereShown ==
  [][mem' # mem /\ kind # "game_master2" =>
       \A a \in Addrs[kind], d \in Data :
         Store(a, d) /\ View(a.block) # Sound =>
           /\ View(a.block).src = "mem"
           /\ mem' = [mem EXCEPT ![View(a.block).at] = d]]_mapperVars
=============================================================================
