---------------------------- MODULE Mapper_proofs ----------------------------
(* What TLAPS proves of Mapper, for any ROMs, addresses and values.         *)
EXTENDS Mapper, TLAPS

(***************************************************************************)
(* The inductive invariant. The copies follow the registers in the saved   *)
(* state too, since the Game Master 2 saves its gates beside its banks;    *)
(* the R-Type's first register never changes, since a reset refreshes the  *)
(* other window only.                                                      *)
(***************************************************************************)
IsFun(f, S) == f = [x \in S |-> f[x]]

LatchType ==
  /\ latch = [half |-> latch.half, winHalf |-> latch.winHalf, sramOn |-> latch.sramOn,
              sub |-> latch.sub, subOn |-> latch.subOn, dac |-> latch.dac, scc |-> latch.scc,
              mode |-> latch.mode, ramSeg |-> latch.ramSeg, plus |-> latch.plus]
  /\ IsFun(latch.winHalf, 0..3)

FixedWindow == kind = "r_type" => bank[0] = FixedBlock

\* The half an SRAM register of the Game Master 2 selects.
HalfOf(v) == IF Bit(v, 5) THEN 1 ELSE 0

SnapAgrees ==
  snap.saved =>
    /\ kind # "r_type" => IsFun(snap.fields.banks, Windows)
    /\ kind = "game_master2" =>
         /\ snap.fields.sram_enabled = SelectsSram(3, snap.fields.banks[3])
         /\ IsFun(snap.fields.window_sram_half, 0..3)
         /\ \A w \in Windows : SelectsSram(w, snap.fields.banks[w]) =>
              snap.fields.window_sram_half[w] = HalfOf(snap.fields.banks[w])

-----------------------------------------------------------------------------
(* Registers, mirror and flags, common to all kinds.                       *)

\* What every mapper keeps: its registers, the mirror and the SRAM flags.
Common ==
  /\ kind \in AllKinds
  /\ IsFun(bank, Windows) /\ IsFun(flat, Windows) /\ IsFun(sramWin, Windows)
  /\ MirrorFollowsBanks
  /\ \A w \in Windows : sramWin[w] = SelectsSram(w, bank[w])

\* Refreshing the windows whose register changed keeps mirror and flags current.
LEMMA SyncKeepsCommon ==
  ASSUME Common, NEW ws, UNCHANGED <<kind, rom>>, Synced(ws, bank'), IsFun(bank', Windows),
         \A w \in Windows \ ws : bank'[w] = bank[w]
  PROVE  Common'
<1>1. Windows' = Windows /\ (\A v : PageOf(v)' = PageOf(v))
      /\ (\A w, v : SelectsSram(w, v)' = SelectsSram(w, v))
  BY DEF Windows, PageOf, SelectsSram, PageOrOpen, TwoTier, NumPages
<1>2. IsFun(flat', Windows) /\ IsFun(sramWin', Windows)
  BY DEF Synced, IsFun
<1>3. ASSUME NEW w \in Windows
      PROVE  /\ sramWin'[w] = SelectsSram(w, bank'[w])
             /\ ~sramWin'[w] => flat'[w] = PageOf(bank'[w])
  <2>1. CASE w \in ws
    BY <2>1 DEF Synced
  <2>2. CASE w \notin ws
    BY <2>2 DEF Synced, Common, MirrorFollowsBanks
  <2> QED BY <2>1, <2>2
<1> QED BY <1>1, <1>2, <1>3 DEF Common, MirrorFollowsBanks, IsFun

\* The gates of the kinds that have some.
Gm2Gates ==
  kind = "game_master2" =>
    /\ latch.sramOn = sramWin[3]
    /\ \A w \in Windows : sramWin[w] => latch.winHalf[w] = HalfOf(bank[w])

SccIGates ==
  kind = "scc_i_cart" =>
    /\ latch.scc = SccWindow(latch.mode, bank)
    /\ latch.ramSeg = RamSegments(latch.mode)
    /\ latch.plus = Bit(latch.mode, 5)

HalnoteGates ==
  kind = "halnote" => latch.sramOn = Bit(bank[0], 7) /\ latch.subOn = Bit(bank[1], 7)

MapperInv ==
  /\ Common /\ LatchType /\ FixedWindow /\ SnapAgrees
  /\ Gm2Gates /\ SccIGates /\ HalnoteGates

LEMMA InvGivesCopies == MapperInv => CopiesFollowBanks
BY DEF MapperInv, CopiesFollowBanks, Common, GatesFollowBanks, Gm2Gates, SccIGates,
       HalnoteGates, HalfOf

LEMMA NoGates ==
  ASSUME kind \notin {"game_master2", "scc_i_cart", "halnote"}
  PROVE  Gm2Gates /\ SccIGates /\ HalnoteGates
BY DEF Gm2Gates, SccIGates, HalnoteGates

\* A snapshot that is not taken again agrees as before.
LEMMA SnapKept ==
  ASSUME SnapAgrees, UNCHANGED <<kind, rom, snap>> PROVE SnapAgrees'
BY DEF SnapAgrees, Windows, SelectsSram, NumPages, IsFun, HalfOf

LEMMA FixedKept ==
  ASSUME FixedWindow, UNCHANGED <<kind, rom>>, kind = "r_type" => bank'[0] = bank[0]
  PROVE  FixedWindow'
BY DEF FixedWindow, FixedBlock, TwoTier, NumPages

\* A step that leaves the registers and their copies alone.
LEMMA CommonKept ==
  ASSUME Common, UNCHANGED <<kind, rom, bank, flat, sramWin>> PROVE Common'
<1>1. Synced({}, bank') /\ IsFun(bank', Windows)
  BY DEF Common, Synced, IsFun
<1> QED BY <1>1, SyncKeepsCommon

LEMMA Powers ==
  /\ Pow2(0) = 1 /\ Pow2(1) = 2 /\ Pow2(2) = 4 /\ Pow2(3) = 8
  /\ Pow2(4) = 16 /\ Pow2(5) = 32 /\ Pow2(6) = 64 /\ Pow2(7) = 128
<1>1. Pow2(0) = 1 /\ Pow2(1) = 2
  BY DEF Pow2
<1>2. Pow2(2) = 4 /\ Pow2(3) = 8
  BY DEF Pow2
<1>3. Pow2(4) = 16 /\ Pow2(5) = 32
  BY DEF Pow2
<1>4. Pow2(6) = 64 /\ Pow2(7) = 128
  BY DEF Pow2
<1> QED BY <1>1, <1>2, <1>3, <1>4

LEMMA NoBitOfZero ==
  /\ ~Bit(0, 0) /\ ~Bit(0, 1) /\ ~Bit(0, 2) /\ ~Bit(0, 3)
  /\ ~Bit(0, 4) /\ ~Bit(0, 5) /\ ~Bit(0, 6) /\ ~Bit(0, 7)
BY Powers DEF Bit

LEMMA Booleans ==
  /\ \A v, k : Bit(v, k) \in BOOLEAN
  /\ \A w, v : SelectsSram(w, v) \in BOOLEAN
BY DEF Bit, SelectsSram

LEMMA NoSramAtPowerOn ==
  ASSUME kind \in AllKinds, NEW w \in Windows
  PROVE  /\ ~SelectsSram(w, PowerOnBanks[w]) \/ kind = "r_type"
         /\ kind # "r_type" => ~SelectsSram(w, PowerOnBanks[w])
         /\ \A v : kind \in {"r_type", "konami", "majutsushi", "konami_scc", "scc_i_cart",
                             "halnote", "ascii8", "ascii16"} => ~SelectsSram(w, v)
<1>1. \A n : And(0, n) = 0
  BY NoBitOfZero DEF And, BitValue
<1>2. \A v : kind \in {"r_type", "konami", "majutsushi", "konami_scc", "scc_i_cart",
                       "halnote", "ascii8", "ascii16"} => ~SelectsSram(w, v)
  BY DEF SelectsSram, SramWindows, Ascii8Sram, Ascii16Sram
<1>3. CASE kind \in Ascii8Sram \union Ascii16Sram
  <2>1. PowerOnBanks[w] = 0
    BY <1>3 DEF PowerOnBanks, Ascii8, Ascii16, Ascii8Sram, Ascii16Sram
  <2> QED BY <1>1, <1>3, <2>1 DEF SelectsSram, Ascii8Sram, Ascii16Sram
<1>4. CASE kind = "game_master2"
  <2>1. PowerOnBanks[w] = w /\ w \in 0..3
    BY <1>4 DEF PowerOnBanks, Ascii8, Ascii16, Ascii8Sram, Ascii16Sram, Windows, Wide
  <2>2. ~Bit(w, 4)
    <3>1. w \div 16 = 0
      BY <2>1
    <3> QED BY <3>1, Powers DEF Bit
  <2> QED BY <1>4, <2>1, <2>2 DEF SelectsSram, Ascii8Sram, Ascii16Sram
<1> QED BY <1>2, <1>3, <1>4 DEF AllKinds, Ascii8Sram, Ascii16Sram

-----------------------------------------------------------------------------
(* Power-on and the refreshes of all windows.                              *)

LEMMA PowerOnIs ==
  ASSUME kind \in AllKinds
  PROVE  /\ IsFun(PowerOnBanks, Windows)
         /\ kind = "r_type" => PowerOnBanks[0] = FixedBlock
         /\ kind \in {"game_master2", "scc_i_cart", "halnote"} =>
              \A w \in 0..3 : w \in Windows /\ PowerOnBanks[w] = w
<1>1. CASE kind \in Ascii8 \union Ascii16
  <2>1. kind \notin {"r_type", "game_master2", "scc_i_cart", "halnote"}
    BY <1>1 DEF Ascii8, Ascii16, Ascii8Sram, Ascii16Sram
  <2>2. PowerOnBanks = [w \in Windows |-> 0]
    BY <1>1, <2>1 DEF PowerOnBanks
  <2> QED BY <2>1, <2>2 DEF IsFun
<1>2. CASE kind = "r_type"
  <2>1. kind \notin Ascii8 \union Ascii16
    BY <1>2 DEF Ascii8, Ascii16, Ascii8Sram, Ascii16Sram
  <2>2. PowerOnBanks = [w \in Windows |-> IF w = 0 THEN FixedBlock ELSE 0] /\ 0 \in Windows
    BY <1>2, <2>1 DEF PowerOnBanks, Windows, Wide
  <2> QED BY <1>2, <2>2 DEF IsFun
<1>3. CASE kind \notin Ascii8 \union Ascii16 \union {"r_type"}
  <2>1. PowerOnBanks = [w \in Windows |-> w] /\ Windows = 0..3
    BY <1>3 DEF PowerOnBanks, Windows, Wide
  <2> QED BY <1>3, <2>1 DEF IsFun
<1> QED BY <1>1, <1>2, <1>3

LEMMA MapperInitInv == MapperInit => MapperInv
<1> SUFFICES ASSUME MapperInit PROVE MapperInv
  OBVIOUS
<1>1. kind \in AllKinds
  BY KindsAssumption DEF MapperInit
<1>2. IsFun(bank, Windows) /\ IsFun(flat, Windows) /\ IsFun(sramWin, Windows)
  <2>1. IsFun(bank, Windows)
    BY <1>1, PowerOnIs DEF MapperInit
  <2> QED BY <2>1 DEF MapperInit, IsFun
<1>3. ASSUME NEW w \in Windows
      PROVE  sramWin[w] = SelectsSram(w, bank[w]) /\ flat[w] = PageOf(bank[w])
  <2>1. ~SelectsSram(w, PowerOnBanks[w])
    BY <1>1, NoSramAtPowerOn
  <2> QED BY <2>1, Booleans DEF MapperInit
<1>4. LatchType
  BY DEF MapperInit, LatchType, PowerOnLatch, IsFun
<1>5. FixedWindow
  BY <1>1, PowerOnIs DEF FixedWindow, MapperInit
<1>6. SnapAgrees
  BY DEF SnapAgrees, MapperInit, NoSnap
<1>7. Gm2Gates
  BY DEF Gm2Gates, MapperInit, PowerOnLatch, Windows, Wide, Ascii16, Ascii16Sram
<1>8. SccIGates
  <2> SUFFICES ASSUME kind = "scc_i_cart" PROVE SccIGates
    BY DEF SccIGates
  <2>1. bank[2] = 2 /\ bank[3] = 3
    BY <1>1, PowerOnIs DEF MapperInit
  <2>2. SccWindow(0, bank) = NoWindow
    BY <2>1, NoBitOfZero DEF SccWindow
  <2>3. RamSegments(0) = {}
    <3>1. \A w \in 0..2 : w = 0 \/ w = 1 \/ w = 2
      OBVIOUS
    <3> QED BY <3>1, NoBitOfZero DEF RamSegments
  <2> QED BY <2>2, <2>3, NoBitOfZero, Booleans DEF SccIGates, MapperInit, PowerOnLatch
<1>9. HalnoteGates
  <2> SUFFICES ASSUME kind = "halnote" PROVE HalnoteGates
    BY DEF HalnoteGates
  <2>1. bank[0] = 0 /\ bank[1] = 1
    BY <1>1, PowerOnIs DEF MapperInit
  <2>2. ~Bit(1, 7)
    BY Powers DEF Bit
  <2> QED BY <2>1, <2>2, NoBitOfZero, Booleans DEF HalnoteGates, MapperInit, PowerOnLatch
<1> QED BY <1>1, <1>2, <1>3, <1>4, <1>5, <1>6, <1>7, <1>8, <1>9 DEF MapperInv, Common, MirrorFollowsBanks

\* A step that sets the registers and refreshes the windows ws, the others having
\* kept theirs, and takes no snapshot.
Switched(ws) ==
  /\ UNCHANGED <<kind, rom, snap>>
  /\ Synced(ws, bank')
  /\ IsFun(bank', Windows)
  /\ \A w \in Windows \ ws : bank'[w] = bank[w]
  /\ kind = "r_type" => bank'[0] = bank[0]

LEMMA SwitchKeeps ==
  ASSUME MapperInv, NEW ws, Switched(ws), LatchType', (Gm2Gates /\ SccIGates /\ HalnoteGates)'
  PROVE  MapperInv'
BY SyncKeepsCommon, SnapKept, FixedKept DEF Switched, MapperInv

\* A step that leaves the registers alone.
LEMMA StoreKeeps ==
  ASSUME MapperInv, UNCHANGED <<kind, rom, snap, bank, flat, sramWin>>, LatchType',
         (Gm2Gates /\ SccIGates /\ HalnoteGates)'
  PROVE  MapperInv'
BY CommonKept, SnapKept, FixedKept DEF MapperInv

LEMMA GatesKept ==
  ASSUME Gm2Gates /\ SccIGates /\ HalnoteGates, LatchType,
         UNCHANGED <<kind, rom, bank, sramWin, latch>>
  PROVE  (Gm2Gates /\ SccIGates /\ HalnoteGates)' /\ LatchType'
<1>1. Gm2Gates'
  BY DEF Gm2Gates, HalfOf, Windows
<1>2. SccIGates' /\ HalnoteGates'
  BY DEF SccIGates, HalnoteGates, SccWindow, RamSegments
<1>3. LatchType'
  BY DEF LatchType, IsFun
<1> QED BY <1>1, <1>2, <1>3

LEMMA NoGatesPrimed ==
  ASSUME kind \notin {"game_master2", "scc_i_cart", "halnote"}, kind' = kind
  PROVE  Gm2Gates' /\ SccIGates' /\ HalnoteGates'
BY DEF Gm2Gates, SccIGates, HalnoteGates

-----------------------------------------------------------------------------
(* One lemma per group of actions.                                         *)

\* The mappers whose registers gate nothing but SRAM, and have no latch.
LEMMA SelectPlain ==
  ASSUME MapperInv, NEW a \in Addrs[kind], NEW v,
         SelectAscii8(a, v) \/ SelectAscii16(a, v) \/ SelectRType(a, v) \/ SelectKonami(a, v)
  PROVE  MapperInv'
<1> USE DEF MapperInv
<1>1. CASE SelectAscii8(a, v)
  <2> DEFINE w == a.block - 12
  <2>1. kind \notin {"game_master2", "scc_i_cart", "halnote", "r_type"}
    BY <1>1 DEF SelectAscii8, Ascii8, Ascii8Sram
  <2>2. Switched(IF v # bank[w] THEN {w} ELSE {})
    BY <1>1, <2>1 DEF SelectAscii8, Switched, Unchanged, Common, IsFun
  <2>3. LatchType'
    BY <1>1 DEF SelectAscii8, LatchType, IsFun
  <2>4. kind' = kind
    BY <2>2 DEF Switched
  <2> QED BY <2>1, <2>2, <2>3, <2>4, NoGatesPrimed, SwitchKeeps
<1>2. CASE SelectAscii16(a, v)
  <2> DEFINE w == IF a.block = 12 THEN 0 ELSE 1
  <2>1. kind \notin {"game_master2", "scc_i_cart", "halnote", "r_type"}
    BY <1>2 DEF SelectAscii16, Ascii16, Ascii16Sram
  <2>2. Switched(IF v # bank[w] THEN {w} ELSE {})
    BY <1>2, <2>1 DEF SelectAscii16, Switched, Unchanged, Common, IsFun
  <2>3. LatchType'
    BY <1>2 DEF SelectAscii16, LatchType, IsFun
  <2>4. kind' = kind
    BY <2>2 DEF Switched
  <2> QED BY <2>1, <2>2, <2>3, <2>4, NoGatesPrimed, SwitchKeeps
<1>3. CASE SelectRType(a, v)
  <2>1. kind = "r_type" /\ 0 \in Windows
    BY <1>3 DEF SelectRType, Windows, Wide
  <2>2. Switched(IF Stored(v) # bank[1] THEN {1} ELSE {})
    BY <1>3, <2>1 DEF SelectRType, Switched, Unchanged, Common, IsFun
  <2>3. LatchType'
    BY <1>3 DEF SelectRType, LatchType, IsFun
  <2>4. kind' = kind
    BY <2>2 DEF Switched
  <2> QED BY <2>1, <2>2, <2>3, <2>4, NoGatesPrimed, SwitchKeeps
<1>4. CASE SelectKonami(a, v)
  <2> DEFINE w == WindowOf(a.block)
  <2>1. kind \notin {"game_master2", "scc_i_cart", "halnote", "r_type"}
    BY <1>4 DEF SelectKonami, Konami
  <2>2. Switched(IF Stored(v) # bank[w] THEN {w} ELSE {})
    BY <1>4, <2>1 DEF SelectKonami, Switched, Unchanged, Common, IsFun
  <2>3. LatchType'
    BY <1>4 DEF SelectKonami, LatchType, IsFun
  <2>4. kind' = kind
    BY <2>2 DEF Switched
  <2> QED BY <2>1, <2>2, <2>3, <2>4, NoGatesPrimed, SwitchKeeps
<1> QED BY <1>1, <1>2, <1>3, <1>4

\* What a change of one field leaves of the latch's type.
LEMMA LatchKept ==
  ASSUME LatchType, NEW f,
         latch' = [latch EXCEPT !.scc = f] \/ latch' = [latch EXCEPT !.dac = f]
           \/ (\E i : latch' = [latch EXCEPT !.sub[i] = f])
  PROVE  LatchType'
BY DEF LatchType, IsFun

LEMMA SelectWithChip ==
  ASSUME MapperInv, NEW a \in Addrs[kind], NEW v, WriteDac(a, v) \/ SelectKonamiScc(a, v)
  PROVE  MapperInv'
<1> USE DEF MapperInv
<1>1. CASE WriteDac(a, v)
  <2>1. kind \notin {"game_master2", "scc_i_cart", "halnote"} /\ kind' = kind
    BY <1>1 DEF WriteDac, Unchanged
  <2>2. LatchType'
    BY <1>1, LatchKept DEF WriteDac
  <2>3. UNCHANGED <<kind, rom, snap, bank, flat, sramWin>>
    BY <1>1 DEF WriteDac, Unchanged
  <2> QED BY <2>1, <2>2, <2>3, NoGatesPrimed, StoreKeeps
<1>2. CASE SelectKonamiScc(a, v)
  <2> DEFINE w == WindowOf(a.block)
  <2>1. kind \notin {"game_master2", "scc_i_cart", "halnote", "r_type"} /\ kind' = kind
    BY <1>2 DEF SelectKonamiScc, Unchanged
  <2>2. Switched(IF Stored(v) # bank[w] THEN {w} ELSE {})
    BY <1>2, <2>1 DEF SelectKonamiScc, Switched, Unchanged, Common, IsFun
  <2>3. LatchType'
    <3>1. CASE w = 2
      BY <1>2, <3>1, LatchKept DEF SelectKonamiScc
    <3>2. CASE w # 2
      BY <1>2, <3>2 DEF SelectKonamiScc, LatchType, IsFun
    <3> QED BY <3>1, <3>2
  <2> QED BY <2>1, <2>2, <2>3, NoGatesPrimed, SwitchKeeps
<1> QED BY <1>1, <1>2
LEMMA SelectGm2Keeps ==
  ASSUME MapperInv, NEW a \in Addrs[kind], NEW v, SelectGm2(a, v)
  PROVE  MapperInv'
<1> USE DEF MapperInv
<1> DEFINE w == WindowOf(a.block)
<1>1. /\ kind = "game_master2" /\ kind' = kind
      /\ w \in 1..3 /\ Windows = 0..3 /\ Windows' = 0..3
  <2>1. kind = "game_master2" /\ kind' = kind /\ a.block \in 12..21
    BY DEF SelectGm2, Unchanged
  <2>2. Windows = 0..3 /\ Windows' = 0..3 /\ Span = 4
    BY <2>1 DEF Windows, Wide, Ascii16, Ascii16Sram, Span
  <2>3. w \in 1..3
    BY <2>1, <2>2 DEF WindowOf
  <2> QED BY <2>1, <2>2, <2>3
<1>2. Switched({w})
  BY <1>1 DEF SelectGm2, Switched, Unchanged, Common, IsFun
<1>3. LatchType'
  BY DEF SelectGm2, LatchType, IsFun
<1>4. Common'
  BY <1>2, SyncKeepsCommon DEF Switched
<1>5. \A x, y : SelectsSram(x, y)' = (x \in {1, 2, 3} /\ Bit(y, 4))
  <2>1. SramWindows("game_master2") = {1, 2, 3}
    BY DEF SramWindows, Ascii8Sram, Ascii16Sram
  <2>2. SramWindows(kind') = {1, 2, 3} /\ kind' = "game_master2"
    BY <1>1, <2>1
  <2>3. "game_master2" \notin Ascii8Sram /\ "game_master2" \notin Ascii16Sram
    BY DEF Ascii8Sram, Ascii16Sram
  <2> QED BY <2>2, <2>3, Booleans DEF SelectsSram
<1>6. \A x \in Windows : sramWin'[x] = SelectsSram(x, bank[x])'
  BY <1>1, <1>4 DEF Common
<1>7. bank' = [bank EXCEPT ![w] = v] /\ bank'[w] = v
  BY <1>1 DEF SelectGm2, Common, IsFun
<1>8. latch.sramOn' = sramWin'[3]
  <2>1. CASE w = 3
    <3>1. latch'.sramOn = Bit(v, 4)
      BY <2>1 DEF SelectGm2, LatchType
    <3>2. sramWin'[3] = Bit(bank'[3], 4) /\ bank'[3] = v
      <4>1. SelectsSram(3, bank[3])' = Bit(bank'[3], 4)
        BY <1>5, Booleans
      <4> QED BY <1>1, <1>6, <1>7, <2>1, <4>1
    <3> QED BY <3>1, <3>2
  <2>2. CASE w # 3
    <3>1. sramWin'[3] = sramWin[3] /\ latch.sramOn = sramWin[3]
      BY <1>1, <1>2, <2>2 DEF Switched, Synced, Gm2Gates
    <3> QED BY <3>1, <2>2 DEF SelectGm2, LatchType
  <2> QED BY <2>1, <2>2
<1>9. ASSUME NEW x \in Windows, sramWin'[x] PROVE latch'.winHalf[x] = HalfOf(bank'[x])
  <2>1. x \in 1..3
    <3>1. SelectsSram(x, bank[x])'
      BY <1>1, <1>6, <1>9
    <3>2. SelectsSram(x, bank[x])' = (x \in {1, 2, 3} /\ Bit(bank'[x], 4))
      BY <1>5
    <3>3. x \in {1, 2, 3}
      BY <3>1, <3>2
    <3> QED BY <3>3
  <2>2. latch' = [latch EXCEPT !.sramOn = IF w = 3 THEN Bit(v, 4) ELSE @,
                               !.half = IF Bit(v, 4) THEN HalfOf(v) ELSE @,
                               !.winHalf[w] = IF Bit(v, 4) THEN HalfOf(v) ELSE @]
    BY DEF SelectGm2, HalfOf
  <2>3. latch'.winHalf = [latch.winHalf EXCEPT ![w] = IF Bit(v, 4) THEN HalfOf(v) ELSE @]
    BY <2>2 DEF LatchType
  <2>4. CASE x = w
    <3>1. Bit(v, 4)
      BY <1>5, <1>6, <1>7, <1>9, <2>1, <2>4
    <3> QED BY <1>1, <1>7, <2>3, <2>4, <3>1 DEF LatchType, IsFun
  <2>5. CASE x # w
    <3>1. sramWin[x] /\ bank'[x] = bank[x]
      BY <1>1, <1>2, <1>7, <1>9, <2>5 DEF Switched, Synced
    <3>2. latch'.winHalf[x] = latch.winHalf[x]
      BY <2>3, <2>5 DEF LatchType, IsFun
    <3> QED BY <1>1, <3>1, <3>2 DEF Gm2Gates
  <2> QED BY <2>4, <2>5
<1>10. Gm2Gates'
  BY <1>1, <1>8, <1>9 DEF Gm2Gates, HalfOf
<1>11. SccIGates' /\ HalnoteGates'
  BY <1>1 DEF SccIGates, HalnoteGates
<1> QED BY <1>2, <1>3, <1>10, <1>11, SwitchKeeps

LEMMA SccIKeeps ==
  ASSUME MapperInv, NEW a \in Addrs[kind], NEW v, SetSccIMode(a, v) \/ SelectSccI(a, v)
  PROVE  MapperInv'
<1> USE DEF MapperInv
<1>1. kind = "scc_i_cart" /\ kind' = kind
  BY DEF SetSccIMode, SelectSccI, Unchanged
<1>2. Gm2Gates' /\ HalnoteGates'
  BY <1>1 DEF Gm2Gates, HalnoteGates
<1>3. CASE SetSccIMode(a, v)
  <2>1. latch' = WithMode(latch, v, bank) /\ bank' = bank
    BY <1>3 DEF SetSccIMode
  <2>2. LatchType'
    BY <2>1 DEF WithMode, LatchType, IsFun
  <2>3. /\ latch'.mode = v /\ latch'.scc = SccWindow(v, bank)
        /\ latch'.ramSeg = RamSegments(v) /\ latch'.plus = Bit(v, 5)
    BY <2>1 DEF WithMode, LatchType
  <2>4. SccIGates'
    BY <2>1, <2>3 DEF SccIGates, SccWindow, RamSegments
  <2>5. UNCHANGED <<kind, rom, snap, bank, flat, sramWin>>
    BY <1>3 DEF SetSccIMode, Unchanged
  <2> QED BY <1>2, <2>2, <2>4, <2>5, StoreKeeps
<1>4. CASE SelectSccI(a, v)
  <2> DEFINE w == WindowOf(a.block)
  <2>1. Switched({w})
    BY <1>1, <1>4 DEF SelectSccI, Switched, Unchanged, Common, IsFun
  <2>2. latch' = [latch EXCEPT !.scc = SccWindow(latch.mode, bank')]
    BY <1>4 DEF SelectSccI
  <2>3. LatchType'
    BY <2>2, LatchKept
  <2>4. latch'.mode = latch.mode /\ latch'.scc = SccWindow(latch.mode, bank')
        /\ latch'.ramSeg = latch.ramSeg /\ latch'.plus = latch.plus
    BY <2>2 DEF LatchType
  <2>5. SccIGates'
    BY <1>1, <2>4 DEF SccIGates, SccWindow, RamSegments
  <2> QED BY <1>2, <2>1, <2>3, <2>5, SwitchKeeps
<1> QED BY <1>3, <1>4

LEMMA HalnoteKeeps ==
  ASSUME MapperInv, NEW a \in Addrs[kind], NEW v, SelectSubBank(a, v) \/ SelectHalnote(a, v)
  PROVE  MapperInv'
<1> USE DEF MapperInv
<1>1. kind = "halnote" /\ kind' = kind /\ Windows = 0..3
  BY DEF SelectSubBank, SelectHalnote, Unchanged, Windows, Wide, Ascii16, Ascii16Sram
<1>2. Gm2Gates' /\ SccIGates'
  BY <1>1 DEF Gm2Gates, SccIGates
<1>3. CASE SelectSubBank(a, v)
  <2>1. latch' = [latch EXCEPT !.sub[a.block - 14] = v] /\ bank' = bank
    BY <1>3 DEF SelectSubBank
  <2>2. LatchType'
    BY <2>1, LatchKept
  <2>3. latch'.sramOn = latch.sramOn /\ latch'.subOn = latch.subOn
    BY <2>1 DEF LatchType
  <2>4. HalnoteGates'
    BY <1>1, <2>1, <2>3 DEF HalnoteGates
  <2>5. UNCHANGED <<kind, rom, snap, bank, flat, sramWin>>
    BY <1>3 DEF SelectSubBank, Unchanged
  <2> QED BY <1>2, <2>2, <2>4, <2>5, StoreKeeps
<1>4. CASE SelectHalnote(a, v)
  <2> DEFINE w == WindowOf(a.block)
  <2>1. Switched({w})
    BY <1>1, <1>4 DEF SelectHalnote, Switched, Unchanged, Common, IsFun
  <2>2. latch' = [latch EXCEPT !.sramOn = IF w = 0 THEN Bit(v, 7) ELSE @,
                               !.subOn = IF w = 1 THEN Bit(v, 7) ELSE @]
    BY <1>4 DEF SelectHalnote
  <2>3. LatchType'
    BY <2>2 DEF LatchType, IsFun
  <2>4. bank' = [bank EXCEPT ![w] = v]
    BY <1>4 DEF SelectHalnote
  <2>5. latch'.sramOn = Bit(bank'[0], 7)
    BY <1>1, <2>2, <2>4 DEF LatchType, HalnoteGates, Common, IsFun
  <2>6. latch'.subOn = Bit(bank'[1], 7)
    BY <1>1, <2>2, <2>4 DEF LatchType, HalnoteGates, Common, IsFun
  <2>7. HalnoteGates'
    BY <2>5, <2>6 DEF HalnoteGates
  <2> QED BY <1>2, <2>1, <2>3, <2>7, SwitchKeeps
<1> QED BY <1>3, <1>4

\* Stores leave the registers alone.
LEMMA StoresKeep ==
  ASSUME MapperInv, NEW a \in Addrs[kind], NEW d \in Data, Store(a, d)
  PROVE  MapperInv'
<1>1. UNCHANGED <<kind, rom, snap, bank, flat, sramWin, latch>>
  BY DEF Store, StoreAscii8, StoreAscii16, StoreGm2, StoreSccI, StoreHalnote, Unchanged
<1> QED BY <1>1, GatesKept, StoreKeeps DEF MapperInv
\* A reset refreshes every window, but for the fixed one of the R-Type.
LEMMA ResetSwitches ==
  ASSUME MapperInv, ResetBanks
  PROVE  Switched(IF kind = "r_type" THEN {1} ELSE Windows) /\ bank' = PowerOnBanks
<1> USE DEF MapperInv
<1>1. IsFun(bank', Windows) /\ bank' = PowerOnBanks
      /\ (kind = "r_type" => bank'[0] = FixedBlock)
  BY PowerOnIs DEF ResetBanks, Common
<1>2. kind = "r_type" => bank'[0] = bank[0] /\ Windows = {0, 1}
  <2>1. kind = "r_type" => Windows = 0..1
    BY DEF Windows, Wide
  <2> QED BY <1>1, <2>1 DEF FixedWindow
<1>3. \A w \in Windows \ (IF kind = "r_type" THEN {1} ELSE Windows) : bank'[w] = bank[w]
  BY <1>2
<1>4. UNCHANGED <<kind, rom, snap>> /\ Synced(IF kind = "r_type" THEN {1} ELSE Windows, bank')
  BY DEF ResetBanks, Unchanged
<1> QED BY <1>1, <1>2, <1>3, <1>4 DEF Switched

LEMMA ResetKeeps == ASSUME MapperInv, Reset PROVE MapperInv'
<1> USE DEF MapperInv
<1>1. ResetBanks
  BY DEF Reset, ResetPlain, ResetGm2, ResetMajutsushi, ResetKonamiScc, ResetSccI, ResetHalnote
<1>2. Switched(IF kind = "r_type" THEN {1} ELSE Windows) /\ bank' = PowerOnBanks /\ kind' = kind
  BY <1>1, ResetSwitches DEF Switched
<1>3. Common'
  BY <1>2, SyncKeepsCommon DEF Switched
<1>4. kind \in {"game_master2", "scc_i_cart", "halnote"} => bank'[0] = 0 /\ bank'[1] = 1
                                               /\ bank'[2] = 2 /\ bank'[3] = 3 /\ Windows = 0..3
  <2>1. kind \in {"game_master2", "scc_i_cart", "halnote"} => Windows = 0..3
    BY DEF Windows, Wide, Ascii16, Ascii16Sram
  <2> QED BY <1>2, <2>1, PowerOnIs DEF Common
<1>5. LatchType'
  <2>1. CASE ResetPlain
    BY <2>1 DEF ResetPlain, LatchType
  <2>2. CASE ResetGm2
    BY <2>2 DEF ResetGm2, LatchType, IsFun, PowerOnLatch
  <2>3. CASE ResetMajutsushi
    BY <2>3 DEF ResetMajutsushi, LatchType
  <2>4. CASE ResetKonamiScc
    BY <2>4 DEF ResetKonamiScc, LatchType
  <2>5. CASE ResetSccI
    BY <2>5 DEF ResetSccI, LatchType, WithMode
  <2>6. CASE ResetHalnote
    BY <2>6 DEF ResetHalnote, LatchType
  <2> QED BY <2>1, <2>2, <2>3, <2>4, <2>5, <2>6 DEF Reset
<1>6. Gm2Gates'
  <2> SUFFICES ASSUME kind = "game_master2" PROVE Gm2Gates'
    BY <1>2 DEF Gm2Gates
  <2>1. ResetGm2
    BY DEF Reset, ResetPlain, ResetGm2, ResetMajutsushi, ResetKonamiScc, ResetSccI, ResetHalnote,
           Ascii8, Ascii8Sram, Ascii16, Ascii16Sram
  <2>2. \A w \in Windows : ~SelectsSram(w, PowerOnBanks[w])
    BY NoSramAtPowerOn DEF Common
  <2>3. \A w \in Windows : sramWin'[w] = FALSE
    BY <1>2, <2>2, Booleans DEF Switched, Synced
  <2>4. latch'.sramOn = FALSE
    BY <2>1 DEF ResetGm2, LatchType
  <2>5. Windows' = Windows
    BY <1>2 DEF Windows
  <2>6. 3 \in Windows /\ sramWin'[3] = FALSE
    BY <1>4, <2>3
  <2> QED BY <2>3, <2>4, <2>5, <2>6 DEF Gm2Gates
<1>7. SccIGates'
  <2> SUFFICES ASSUME kind = "scc_i_cart" PROVE SccIGates'
    BY <1>2 DEF SccIGates
  <2>1. ResetSccI
    BY DEF Reset, ResetPlain, ResetGm2, ResetMajutsushi, ResetKonamiScc, ResetSccI, ResetHalnote,
           Ascii8, Ascii8Sram, Ascii16, Ascii16Sram
  <2>2. /\ latch'.mode = 0 /\ latch'.scc = SccWindow(0, bank')
        /\ latch'.ramSeg = RamSegments(0) /\ latch'.plus = Bit(0, 5)
    BY <2>1 DEF ResetSccI, WithMode, LatchType
  <2> QED BY <2>2 DEF SccIGates, SccWindow, RamSegments
<1>8. HalnoteGates'
  <2> SUFFICES ASSUME kind = "halnote" PROVE HalnoteGates'
    BY <1>2 DEF HalnoteGates
  <2>1. ResetHalnote
    BY DEF Reset, ResetPlain, ResetGm2, ResetMajutsushi, ResetKonamiScc, ResetSccI, ResetHalnote,
           Ascii8, Ascii8Sram, Ascii16, Ascii16Sram
  <2>2. latch'.sramOn = FALSE /\ latch'.subOn = FALSE
    BY <2>1 DEF ResetHalnote, LatchType
  <2>3. Bit(0, 7) = FALSE /\ Bit(1, 7) = FALSE
    <3>1. ~Bit(1, 7)
      BY Powers DEF Bit
    <3> QED BY <3>1, NoBitOfZero, Booleans
  <2> QED BY <1>4, <2>2, <2>3 DEF HalnoteGates
<1> QED BY <1>2, <1>5, <1>6, <1>7, <1>8, SwitchKeeps

\* What a snapshot holds of the registers.
LEMMA SavedFieldsAre ==
  ASSUME kind \in AllKinds
  PROVE  /\ kind # "r_type" => SavedFields.banks = bank
         /\ kind = "r_type" => SavedFields.bank = bank[1] /\ 1 \in Windows
         /\ kind = "game_master2" =>
              /\ SavedFields.sram_enabled = latch.sramOn
              /\ SavedFields.window_sram_half = latch.winHalf
         /\ kind = "konami_scc" => SavedFields.scc_mode = (latch.scc = 19)
         /\ kind = "scc_i_cart" => SavedFields.mode_register = latch.mode
         /\ kind = "halnote" => SavedFields.subbanks = latch.sub
<1>1. CASE kind \in {"ascii8", "ascii16", "konami"}
  BY <1>1 DEF SavedFields, Ascii8Sram, Ascii16Sram
<1>2. CASE kind \in Ascii8Sram \union Ascii16Sram
  BY <1>2 DEF SavedFields, Ascii8Sram, Ascii16Sram
<1>3. CASE kind \in {"game_master2", "majutsushi", "konami_scc", "scc_i_cart", "halnote"}
  BY <1>3 DEF SavedFields, Ascii8Sram, Ascii16Sram
<1>4. CASE kind = "r_type"
  BY <1>4 DEF SavedFields, Ascii8Sram, Ascii16Sram, Windows, Wide
<1> QED BY <1>1, <1>2, <1>3, <1>4 DEF AllKinds, Ascii8Sram, Ascii16Sram

LEMMA SaveKeeps == ASSUME MapperInv, SaveState PROVE MapperInv'
<1> USE DEF MapperInv
<1>1. UNCHANGED <<kind, rom, bank, flat, sramWin, latch>> /\ snap'.fields = SavedFields
  BY DEF SaveState
<1>2. Common' /\ FixedWindow' /\ LatchType' /\ (Gm2Gates /\ SccIGates /\ HalnoteGates)'
  BY <1>1, CommonKept, FixedKept, GatesKept
<1>3. kind # "r_type" => SavedFields.banks = bank
  BY SavedFieldsAre DEF Common
<1>4. kind = "game_master2" =>
        /\ SavedFields.sram_enabled = latch.sramOn
        /\ SavedFields.window_sram_half = latch.winHalf
  BY SavedFieldsAre DEF Common
<1>5. kind = "game_master2" => Windows = 0..3
  BY DEF Windows, Wide, Ascii16, Ascii16Sram
<1>6. /\ kind # "r_type" => IsFun(SavedFields.banks, Windows)
      /\ kind = "game_master2" =>
           /\ SavedFields.sram_enabled = SelectsSram(3, SavedFields.banks[3])
           /\ IsFun(SavedFields.window_sram_half, 0..3)
           /\ \A w \in Windows : SelectsSram(w, SavedFields.banks[w]) =>
                SavedFields.window_sram_half[w] = HalfOf(SavedFields.banks[w])
  BY <1>3, <1>4, <1>5 DEF Common, Gm2Gates, LatchType
<1>7. Windows' = Windows /\ (\A w, v : SelectsSram(w, v)' = SelectsSram(w, v))
  BY <1>1 DEF Windows, SelectsSram, NumPages
<1>8. SnapAgrees'
  BY <1>1, <1>6, <1>7 DEF SnapAgrees, HalfOf, IsFun
<1> QED BY <1>2, <1>8
\* A load refreshes every window from the registers it restores.
LEMMA LoadSwitches ==
  ASSUME MapperInv, NEW regs, LoadBanks(regs), IsFun(regs, Windows),
         kind = "r_type" => regs[0] = bank[0]
  PROVE  Switched(Windows) /\ bank' = regs
<1>1. bank' = regs /\ Synced(Windows, bank') /\ UNCHANGED <<kind, rom, snap>>
  BY DEF LoadBanks
<1>2. IsFun(bank', Windows) /\ (kind = "r_type" => bank'[0] = bank[0])
  BY <1>1
<1>3. \A w \in Windows \ Windows : bank'[w] = bank[w]
  OBVIOUS
<1> QED BY <1>1, <1>2, <1>3 DEF Switched

LEMMA LoadKeeps == ASSUME MapperInv, LoadState PROVE MapperInv'
<1> USE DEF MapperInv
<1>1. CASE LoadRType
  <2> DEFINE regs == [bank EXCEPT ![1] = snap.fields.bank]
  <2>1. kind = "r_type" /\ LoadBanks(regs) /\ latch' = latch
    BY <1>1 DEF LoadRType
  <2>2. IsFun(regs, Windows) /\ regs[0] = bank[0]
    BY <2>1 DEF Common, IsFun, Windows, Wide
  <2>3. Switched(Windows)
    BY <2>1, <2>2, LoadSwitches
  <2>4. LatchType' /\ kind' = kind
    BY <2>1, <2>3 DEF LatchType, IsFun, Switched
  <2> QED BY <2>1, <2>3, <2>4, NoGatesPrimed, SwitchKeeps
<1>2. CASE LoadPlain \/ LoadAsciiSram \/ LoadMajutsushi \/ LoadKonamiScc
  <2>1. /\ kind \notin {"game_master2", "scc_i_cart", "halnote", "r_type"}
        /\ LoadBanks(snap.fields.banks)
    BY <1>2 DEF LoadPlain, LoadAsciiSram, LoadMajutsushi, LoadKonamiScc, Ascii8Sram, Ascii16Sram
  <2>2. Switched(Windows)
    BY <2>1, LoadSwitches DEF SnapAgrees, LoadBanks
  <2>3. LatchType'
    BY <1>2, LatchKept DEF LoadPlain, LoadAsciiSram, LoadMajutsushi, LoadKonamiScc, LatchType, IsFun
  <2>4. kind' = kind
    BY <2>2 DEF Switched
  <2> QED BY <2>1, <2>2, <2>3, <2>4, NoGatesPrimed, SwitchKeeps
<1>3. CASE LoadGm2
  <2>1. kind = "game_master2" /\ LoadBanks(snap.fields.banks) /\ snap.saved
    BY <1>3 DEF LoadGm2, LoadBanks
  <2>2. Switched(Windows) /\ bank' = snap.fields.banks /\ kind' = kind
    BY <2>1, LoadSwitches DEF SnapAgrees, Switched
  <2>3. LatchType'
    BY <1>3, <2>1 DEF LoadGm2, LatchType, SnapAgrees, IsFun
  <2>4. latch'.sramOn = snap.fields.sram_enabled /\ latch'.winHalf = snap.fields.window_sram_half
    BY <1>3 DEF LoadGm2, LatchType
  <2>5. Windows = 0..3 /\ Windows' = 0..3
    BY <2>1, <2>2 DEF Windows, Wide, Ascii16, Ascii16Sram
  <2>6. \A w \in Windows : sramWin'[w] = SelectsSram(w, bank'[w])
    BY <2>2 DEF Switched, Synced
  <2>7. Gm2Gates'
    BY <2>1, <2>2, <2>4, <2>5, <2>6 DEF Gm2Gates, SnapAgrees, HalfOf
  <2>8. (SccIGates /\ HalnoteGates)'
    BY <2>1, <2>2 DEF SccIGates, HalnoteGates
  <2> QED BY <2>2, <2>3, <2>7, <2>8, SwitchKeeps
<1>4. CASE LoadSccI
  <2>1. kind = "scc_i_cart" /\ LoadBanks(snap.fields.banks) /\ snap.saved
    BY <1>4 DEF LoadSccI, LoadBanks
  <2>2. Switched(Windows) /\ kind' = kind
    BY <2>1, LoadSwitches DEF SnapAgrees, Switched
  <2>3. latch' = WithMode(latch, snap.fields.mode_register, bank')
    BY <1>4 DEF LoadSccI
  <2>4. LatchType'
    BY <2>3 DEF WithMode, LatchType, IsFun
  <2> DEFINE m == snap.fields.mode_register
  <2>5. /\ latch'.mode = m /\ latch'.scc = SccWindow(m, bank')
        /\ latch'.ramSeg = RamSegments(m) /\ latch'.plus = Bit(m, 5)
    BY <2>3 DEF WithMode, LatchType
  <2>6. SccIGates'
    BY <2>5 DEF SccIGates, SccWindow, RamSegments
  <2>7. (Gm2Gates /\ HalnoteGates)'
    BY <2>1, <2>2 DEF Gm2Gates, HalnoteGates
  <2> QED BY <2>2, <2>4, <2>6, <2>7, SwitchKeeps
<1>5. CASE LoadHalnote
  <2>1. kind = "halnote" /\ LoadBanks(snap.fields.banks) /\ snap.saved
    BY <1>5 DEF LoadHalnote, LoadBanks
  <2>2. Switched(Windows) /\ kind' = kind
    BY <2>1, LoadSwitches DEF SnapAgrees, Switched
  <2>3. LatchType'
    BY <1>5 DEF LoadHalnote, LatchType, IsFun
  <2>4. latch'.sramOn = Bit(bank'[0], 7) /\ latch'.subOn = Bit(bank'[1], 7)
    BY <1>5 DEF LoadHalnote, LatchType
  <2>5. HalnoteGates'
    BY <2>4 DEF HalnoteGates
  <2>6. (Gm2Gates /\ SccIGates)'
    BY <2>1, <2>2 DEF Gm2Gates, SccIGates
  <2> QED BY <2>2, <2>3, <2>5, <2>6, SwitchKeeps
<1> QED BY <1>1, <1>2, <1>3, <1>4, <1>5 DEF LoadState

-----------------------------------------------------------------------------
(* The theorem.                                                            *)

LEMMA MapperStepInv == MapperInv /\ [MapperNext]_mapperVars => MapperInv'
<1> SUFFICES ASSUME MapperInv, [MapperNext]_mapperVars PROVE MapperInv'
  OBVIOUS
<1>1. CASE UNCHANGED mapperVars
  BY <1>1, GatesKept, StoreKeeps DEF mapperVars, MapperInv
<1>2. ASSUME NEW a \in Addrs[kind], NEW v \in Values[kind], Select(a, v) PROVE MapperInv'
  BY <1>2, SelectPlain, SelectWithChip, SelectGm2Keeps, SccIKeeps, HalnoteKeeps DEF Select
<1>3. ASSUME NEW a \in Addrs[kind], NEW d \in Data, Store(a, d) PROVE MapperInv'
  BY <1>3, StoresKeep
<1>4. CASE Reset
  BY <1>4, ResetKeeps
<1>5. CASE SaveState
  BY <1>5, SaveKeeps
<1>6. CASE LoadState
  BY <1>6, LoadKeeps
<1> QED BY <1>1, <1>2, <1>3, <1>4, <1>5, <1>6 DEF MapperNext

\* The strengthened invariant holds of every cartridge, ROM and program.
THEOREM MapperInvariant == MapperSpec => []MapperInv
BY MapperInitInv, MapperStepInv, PTL DEF MapperSpec

\* No sequence of bank switches, stores, resets, saves and loads leaves the mirror,
\* a flag or a gate behind the registers.
THEOREM MapperCopiesFollowBanks == MapperSpec => []CopiesFollowBanks
BY MapperInvariant, InvGivesCopies, PTL

-----------------------------------------------------------------------------
(* What a read returns, without the copies: the view the registers and the *)
(* few other latched fields determine. Every property of the reads follows *)
(* from it.                                                                *)

\* Block b in window w.
Shown(w, b, regs) ==
  IF SelectsSram(w, regs[w])
  THEN Cell(CASE kind \in Ascii8  -> (And(regs[w], SramBlockMask) * 4 + (b % 4)) % Cells(kind)
              [] kind \in Ascii16 -> Ascii16Cell(b)
              [] OTHER            -> Gm2Cell(HalfOf(regs[w]), b))
  ELSE Rom(PageOf(regs[w]), b)

\* The window a Konami mapper shows at b, `below' and `above' for its mirrors.
MirrorWindow(b, below, above) ==
  IF b < 8 THEN b \div 4 + below ELSE IF b > 23 THEN b \div 4 - above ELSE WindowOf(b)

Decoded(b, regs, l) ==
  CASE kind \in Ascii8 \union Ascii16 \union {"game_master2", "r_type"} ->
         IF b \in InWindows THEN Shown(WindowOf(b), b, regs) ELSE Open
    [] kind \in Konami -> Shown(MirrorWindow(b, 0, 4), b, regs)
    [] kind = "konami_scc" ->
         IF l.scc = 19 /\ b = 19 THEN Sound ELSE Shown(MirrorWindow(b, 2, 6), b, regs)
    [] kind = "scc_i_cart" ->
         IF b = l.scc THEN Sound
         ELSE IF b \in InWindows THEN Cell(PageOf(regs[WindowOf(b)]) * 4 + (b % 4)) ELSE Open
    [] kind = "halnote" ->
         IF b < 8 THEN (IF l.sramOn THEN Cell(b) ELSE Open)
         ELSE IF b > 23 THEN Open
         ELSE IF l.subOn /\ b \in {14, 15}
                THEN [src |-> "rom", at |-> 64 * 4 + l.sub[b - 14]]
         ELSE Shown(WindowOf(b), b, regs)

\* The registers and latched fields a load of the snapshot gives.
SavedBanks ==
  IF kind = "r_type" THEN [bank EXCEPT ![1] = snap.fields.bank] ELSE snap.fields.banks

SavedLatch ==
  CASE kind = "konami_scc" -> [scc |-> IF snap.fields.scc_mode THEN 19 ELSE NoWindow]
    [] kind = "scc_i_cart" -> [scc |-> SccWindow(snap.fields.mode_register, snap.fields.banks)]
    [] kind = "halnote"    -> [sub |-> snap.fields.subbanks, sramOn |-> Bit(snap.fields.banks[0], 7),
                               subOn |-> Bit(snap.fields.banks[1], 7)]
    [] OTHER               -> [scc |-> NoWindow]

\* A snapshot holds enough to show again what it saw.
SnapShows ==
  snap.saved => \A b \in Blocks : snap.seen[b] = Decoded(b, SavedBanks, SavedLatch)
LEMMA KindFacts ==
  ASSUME kind \in AllKinds
  PROVE  /\ kind \in Ascii8 => kind \notin Ascii16 /\ kind \notin Konami
              /\ kind \notin {"game_master2", "r_type", "konami_scc", "scc_i_cart", "halnote"}
         /\ kind \in Ascii16 => kind \notin Ascii8 /\ kind \notin Konami
              /\ kind \notin {"game_master2", "r_type", "konami_scc", "scc_i_cart", "halnote"}
         /\ kind \in Konami => kind \notin Ascii8 /\ kind \notin Ascii16
              /\ kind \notin {"game_master2", "r_type", "konami_scc", "scc_i_cart", "halnote"}
         /\ kind \in {"game_master2", "r_type", "konami_scc", "scc_i_cart", "halnote"} =>
              kind \notin Ascii8 /\ kind \notin Ascii16 /\ kind \notin Konami
         /\ \/ kind \in Ascii8 \/ kind \in Ascii16 \/ kind \in Konami
            \/ kind \in {"game_master2", "r_type", "konami_scc", "scc_i_cart", "halnote"}
BY DEF AllKinds, Ascii8, Ascii8Sram, Ascii16, Ascii16Sram, Konami

\* Every block that a mapper shows is in one of its windows.
LEMMA WindowFacts ==
  /\ \A b \in InWindows : WindowOf(b) \in Windows
  /\ kind \notin Wide => \A b \in Blocks : /\ MirrorWindow(b, 0, 4) \in Windows
                                           /\ MirrorWindow(b, 2, 6) \in Windows
<1>1. CASE kind \in Wide
  BY <1>1 DEF InWindows, WindowOf, Windows, Span
<1>2. CASE kind \notin Wide
  <2>1. \A b \in 8..23 : WindowOf(b) \in Windows
    BY <1>2 DEF WindowOf, Windows, Span
  <2> QED BY <1>2, <2>1 DEF InWindows, Blocks, MirrorWindow, Windows
<1> QED BY <1>1, <1>2

\* In a window, the copies show what the registers say.
LEMMA CopiesShow ==
  ASSUME Common, Gm2Gates, NEW w \in Windows, NEW b
  PROVE  /\ kind \in Ascii8 =>
              (IF sramWin[w] THEN Cell(Ascii8Cell(w, b)) ELSE Mirror(w, b)) = Shown(w, b, bank)
         /\ kind \in Ascii16 =>
              (IF sramWin[w] THEN Cell(Ascii16Cell(b)) ELSE Mirror(w, b)) = Shown(w, b, bank)
         /\ kind = "game_master2" =>
              (IF sramWin[w] THEN Cell(Gm2Cell(latch.winHalf[w], b)) ELSE Mirror(w, b))
                = Shown(w, b, bank)
         /\ kind \in Konami \union {"r_type", "konami_scc", "scc_i_cart", "halnote"} =>
              Mirror(w, b) = Shown(w, b, bank) /\ flat[w] = PageOf(bank[w])
<1>1. /\ kind \in AllKinds /\ sramWin[w] = SelectsSram(w, bank[w])
      /\ ~sramWin[w] => flat[w] = PageOf(bank[w])
  BY DEF Common, MirrorFollowsBanks
<1>2. kind \in Konami \union {"r_type", "konami_scc", "scc_i_cart", "halnote"} =>
        ~SelectsSram(w, bank[w])
  BY <1>1, NoSramAtPowerOn DEF Konami
<1>3. CASE kind \in Ascii8
  BY <1>1, <1>3, KindFacts DEF Shown, Mirror, Ascii8Cell
<1>4. CASE kind \in Ascii16
  BY <1>1, <1>4, KindFacts DEF Shown, Mirror
<1>5. CASE kind = "game_master2"
  BY <1>1, <1>5, KindFacts DEF Shown, Mirror, Gm2Gates
<1>6. CASE kind \in Konami \union {"r_type", "konami_scc", "scc_i_cart", "halnote"}
  BY <1>1, <1>2, <1>6, KindFacts DEF Shown, Mirror
<1> QED BY <1>1, <1>3, <1>4, <1>5, <1>6, KindFacts

\* A read returns what the registers say.
LEMMA ViewIsDecoded ==
  ASSUME MapperInv, NEW b \in Blocks
  PROVE  View(b) = Decoded(b, bank, latch)
<1> USE DEF MapperInv
<1>0. kind \in AllKinds
  BY DEF Common
<1>1. CASE kind \in Ascii8
  <2>1. View(b) = Ascii8View(b) BY <1>0, <1>1, KindFacts DEF View
  <2> QED BY <1>0, <1>1, <2>1, KindFacts, WindowFacts, CopiesShow DEF Ascii8View, Decoded
<1>2. CASE kind \in Ascii16
  <2>1. View(b) = Ascii16View(b) BY <1>0, <1>2, KindFacts DEF View
  <2> QED BY <1>0, <1>2, <2>1, KindFacts, WindowFacts, CopiesShow DEF Ascii16View, Decoded
<1>3. CASE kind = "game_master2"
  <2>1. View(b) = Gm2View(b) BY <1>0, <1>3, KindFacts DEF View
  <2> QED BY <1>0, <1>3, <2>1, KindFacts, WindowFacts, CopiesShow DEF Gm2View, Decoded
<1>4. CASE kind = "r_type"
  <2>1. View(b) = RTypeView(b) BY <1>0, <1>4, KindFacts DEF View
  <2> QED BY <1>0, <1>4, <2>1, KindFacts, WindowFacts, CopiesShow DEF RTypeView, Decoded
<1>n. kind \in Konami \union {"konami_scc", "scc_i_cart", "halnote"} => kind \notin Wide
  BY <1>0 DEF Konami, Wide, Ascii16, Ascii16Sram
<1>5. CASE kind \in Konami
  <2>1. View(b) = Mirror(MirrorWindow(b, 0, 4), b)
    BY <1>0, <1>5, KindFacts DEF View, KonamiView, MirrorWindow, Blocks
  <2>2. Decoded(b, bank, latch) = Shown(MirrorWindow(b, 0, 4), b, bank)
    BY <1>0, <1>5, KindFacts DEF Decoded
  <2> QED BY <1>5, <1>n, <2>1, <2>2, WindowFacts, CopiesShow
<1>6. CASE kind = "konami_scc"
  <2>1. View(b) = IF latch.scc = 19 /\ b = 19 THEN Sound ELSE Mirror(MirrorWindow(b, 2, 6), b)
    BY <1>0, <1>6, KindFacts DEF View, KonamiSccView, MirrorWindow, Blocks
  <2>2. Decoded(b, bank, latch)
          = IF latch.scc = 19 /\ b = 19 THEN Sound ELSE Shown(MirrorWindow(b, 2, 6), b, bank)
    BY <1>0, <1>6, KindFacts DEF Decoded
  <2> QED BY <1>6, <1>n, <2>1, <2>2, WindowFacts, CopiesShow
<1>7. CASE kind = "scc_i_cart"
  <2>1. View(b) = SccICartView(b) BY <1>0, <1>7, KindFacts DEF View
  <2> QED BY <1>0, <1>7, <2>1, KindFacts, WindowFacts, CopiesShow DEF SccICartView, Decoded
<1>8. CASE kind = "halnote"
  <2>1. View(b) = HalnoteView(b) BY <1>0, <1>8, KindFacts DEF View
  <2>2. ~(b < 8) /\ ~(b > 23) => b \in InWindows
    BY DEF Blocks, InWindows
  <2> QED BY <1>0, <1>8, <2>1, <2>2, KindFacts, WindowFacts, CopiesShow DEF HalnoteView, Decoded
<1> QED BY <1>0, <1>1, <1>2, <1>3, <1>4, <1>5, <1>6, <1>7, <1>8, KindFacts

-----------------------------------------------------------------------------
(* The debugger's view.                                                    *)

\* The first block of a window.
LEMMA FirstBlock ==
  ASSUME NEW w \in Windows
  PROVE  /\ 8 + Span * w \in InWindows /\ 8 + Span * w \in Blocks
         /\ WindowOf(8 + Span * w) = w
         /\ (8 + Span * w) % Span = 0 /\ (8 + Span * w) % 4 = 0 /\ (8 + Span * w) % 2 = 0
         /\ 8 + Span * w \notin {14, 15, 19, 23, 32}
         /\ kind \in Wide => (8 + Span * w) % 8 = 0
<1>1. CASE kind \in Wide
  <2>1. Span = 8 /\ w \in {0, 1}
    BY <1>1 DEF Span, Windows
  <2> QED BY <1>1, <2>1 DEF InWindows, Blocks, WindowOf
<1>2. CASE kind \notin Wide
  <2>1. Span = 4 /\ w \in {0, 1, 2, 3}
    BY <1>2 DEF Span, Windows
  <2> QED BY <1>2, <2>1 DEF InWindows, Blocks, WindowOf
<1> QED BY <1>1, <1>2

\* The Halnote has all the pages its registers select.
LEMMA HalnotePages ==
  ASSUME kind = "halnote", kind \in Kinds, rom \in Roms[kind], NEW v \in Int
  PROVE  PageOrOpen(v % 128) = v % 128
<1>1. rom.full = 128 /\ rom.part = FALSE
  BY KindsAssumption
<1>2. v % 128 < 128 + (IF rom.part THEN 1 ELSE 0)
  BY <1>1
<1> QED BY <1>1, <1>2 DEF PageOrOpen

\* The cartridge and its ROM are a kind and a ROM considered; the registers hold
\* numbers, in the snapshot too.
RegisterType ==
  /\ kind \in Kinds /\ rom \in Roms[kind]
  /\ \A w \in Windows : bank[w] \in Int
  /\ snap.saved => /\ kind = "r_type" => snap.fields.bank \in Int
                   /\ kind # "r_type" => \A w \in Windows : snap.fields.banks[w] \in Int

LEMMA InvGivesDescription ==
  ASSUME MapperInv, RegisterType
  PROVE  DescriptionIsRead
<1> USE DEF MapperInv
<1>0. kind \in AllKinds
  BY DEF Common
<1>1. ASSUME NEW w \in Windows PROVE View(8 + Span * w) = Described(w)
  <2> DEFINE b == 8 + Span * w
  <2>1. /\ b \in InWindows /\ b \in Blocks /\ WindowOf(b) = w
        /\ b % Span = 0 /\ b % 4 = 0 /\ b % 2 = 0 /\ b \notin {14, 15, 19, 23, 32}
        /\ kind \in Wide => b % 8 = 0
    BY FirstBlock
  <2>2. /\ sramWin[w] = SelectsSram(w, bank[w])
        /\ ~sramWin[w] => flat[w] = PageOf(bank[w])
    BY DEF Common, MirrorFollowsBanks
  <2> HIDE DEF b
  <2>3. CASE kind \in Ascii8
    <3>1. View(b) = Ascii8View(b) /\ Described(w) = DescribedAscii8(w)
      BY <1>0, <2>3, KindFacts DEF View, Described
    <3>2. Ascii8Cell(w, b) = Ascii8Cell(w, 0)
      BY <2>1 DEF Ascii8Cell
    <3>3. ~sramWin[w] => Mirror(w, b) = Rom(PageOrOpen(TwoTier(bank[w])), b)
      BY <1>0, <2>2, <2>3, KindFacts DEF Mirror, PageOf
    <3> QED BY <2>1, <3>1, <3>2, <3>3 DEF Ascii8View, DescribedAscii8, RomWindow, b
  <2>4. CASE kind \in Ascii16
    <3>1. View(b) = Ascii16View(b) /\ Described(w) = DescribedAscii16(w)
      BY <1>0, <2>4, KindFacts DEF View, Described
    <3>2. sramWin[w] => Ascii16Cell(b) = 0
      <4>1. SelectsSram(w, bank[w]) => Cells(kind) \in {1, 4}
        BY <1>0, <2>4, KindFacts DEF SelectsSram, Cells, Ascii16, Ascii16Sram, SramWindows,
           Ascii8Sram, Ascii8
      <4>2. b % 8 = 0
        BY <2>1, <2>4 DEF Wide
      <4> QED BY <2>2, <4>1, <4>2 DEF Ascii16Cell
    <3>3. ~sramWin[w] => Mirror(w, b) = Rom(PageOrOpen(TwoTier(bank[w])), b)
      BY <1>0, <2>2, <2>4, KindFacts DEF Mirror, PageOf
    <3> QED BY <2>1, <3>1, <3>2, <3>3 DEF Ascii16View, DescribedAscii16, RomWindow, b
  <2>5. CASE kind = "game_master2"
    <3>1. View(b) = Gm2View(b) /\ Described(w) = DescribedGm2(w)
      BY <1>0, <2>5, KindFacts DEF View, Described
    <3>2. sramWin[w] => Gm2Cell(latch.winHalf[w], b) = latch.winHalf[w] * 2
      <4>1. sramWin[w] => latch.winHalf[w] \in {0, 1}
        BY <2>5 DEF Gm2Gates, HalfOf
      <4> QED BY <2>1, <4>1 DEF Gm2Cell
    <3>3. ~sramWin[w] => Mirror(w, b) = Rom(PageOrOpen((bank[w] % 16) % NumPages), b)
      BY <1>0, <2>2, <2>5, KindFacts DEF Mirror, PageOf
    <3> QED BY <2>1, <3>1, <3>2, <3>3 DEF Gm2View, DescribedGm2, RomWindow, b
  <2>6. CASE kind \in Konami \union {"r_type", "konami_scc"}
    <3>1. kind \in {"r_type", "konami_scc"} \/ kind \in Konami
      BY <2>6
    <3>2. Mirror(w, b) = RomWindow(bank[w], w)
      <4>1. flat[w] = PageOf(bank[w])
        BY <2>6, CopiesShow
      <4>2. PageOf(bank[w]) = PageOrOpen(bank[w])
        BY <1>0, <2>6, KindFacts DEF PageOf
      <4> QED BY <4>1, <4>2 DEF Mirror, RomWindow, b
    <3>3. Described(w) = RomWindow(bank[w], w)
      BY <1>0, <3>1, KindFacts DEF Described, DescribedRType, DescribedKonami, DescribedKonamiScc
    <3>4. ~(b < 8) /\ ~(b > 23)
      BY <2>1 DEF InWindows
    <3>5. View(b) = Mirror(w, b)
      BY <1>0, <2>1, <3>1, <3>4, KindFacts DEF View, RTypeView, KonamiView, KonamiSccView
    <3> QED BY <3>2, <3>3, <3>5 DEF b
  <2>7. CASE kind = "scc_i_cart"
    <3>1. View(b) = SccICartView(b) /\ Described(w) = DescribedSccICart(w)
      BY <1>0, <2>7, KindFacts DEF View, Described
    <3>2. flat[w] = bank[w] % 8
      BY <1>0, <2>7, CopiesShow, KindFacts DEF PageOf
    <3>3. b # latch.scc
      BY <2>1, <2>7 DEF SccIGates, SccWindow, NoWindow
    <3>4. View(b) = Cell((bank[w] % 8) * 4 + (b % 4))
      BY <2>1, <3>1, <3>2, <3>3 DEF SccICartView
    <3>5. View(b) = Cell((bank[w] % 8) * 4)
      BY <2>1, <3>4 DEF RegisterType
    <3> QED BY <3>1, <3>5 DEF DescribedSccICart, b
  <2>8. CASE kind = "halnote"
    <3>1. View(b) = HalnoteView(b) /\ Described(w) = DescribedHalnote(w)
      BY <1>0, <2>8, KindFacts DEF View, Described
    <3>2. flat[w] = bank[w] % 128
      BY <1>0, <2>8, CopiesShow, KindFacts DEF PageOf
    <3>3. PageOrOpen(bank[w] % 128) = bank[w] % 128
      BY <2>8, HalnotePages DEF RegisterType
    <3>4. ~(b < 8) /\ ~(b > 23) /\ b \notin {14, 15}
      BY <2>1 DEF InWindows
    <3>5. View(b) = Rom(bank[w] % 128, b)
      BY <2>1, <3>1, <3>2, <3>4 DEF HalnoteView, Mirror
    <3> QED BY <3>1, <3>3, <3>5 DEF DescribedHalnote, RomWindow, b
  <2> QED BY <1>0, <2>3, <2>4, <2>5, <2>6, <2>7, <2>8, KindFacts DEF b
<1>2. ASSUME kind = "halnote", latch.subOn, NEW i \in 0..1
      PROVE  View(14 + i).at = 64 * 4 + latch.sub[i]
  <2>1. View(14 + i) = HalnoteView(14 + i)
    BY <1>0, <1>2, KindFacts DEF View
  <2>2. 14 + i \in {14, 15} /\ (14 + i) - 14 = i /\ ~(14 + i < 8) /\ ~(14 + i > 23)
    OBVIOUS
  <2>3. HalnoteView(14 + i) = [src |-> "rom", at |-> 64 * 4 + latch.sub[(14 + i) - 14]]
    BY <1>2, <2>2 DEF HalnoteView
  <2> QED BY <2>1, <2>2, <2>3
<1> QED BY <1>1, <1>2 DEF DescriptionIsRead

-----------------------------------------------------------------------------
(* The registers hold numbers.                                             *)

LEMMA StoredIsInt ==
  ASSUME kind \in Kinds, rom \in Roms[kind], NEW v \in Int
  PROVE  Stored(v) \in Int /\ FixedBlock \in Int
<1>1. NumPages \in Int
  BY KindsAssumption DEF NumPages
<1>2. \A x, y : And(x, y) \in Int
  BY Powers DEF And, BitValue
<1> QED BY <1>1, <1>2 DEF Stored, TwoTier, FixedBlock

\* A step keeps the cartridge, and, but for a save, the snapshot.
LEMMA StepKeepsCartridge ==
  ASSUME [MapperNext]_mapperVars
  PROVE  (SaveState /\ kind' = kind /\ rom' = rom) \/ UNCHANGED <<kind, rom, snap>>
<1>1. ASSUME NEW a, NEW v, Select(a, v) PROVE UNCHANGED <<kind, rom, snap>>
  BY <1>1 DEF Select, SelectAscii8, SelectAscii16, SelectGm2, SelectRType, SelectKonami, WriteDac,
     SelectKonamiScc, SetSccIMode, SelectSccI, SelectSubBank, SelectHalnote, Unchanged
<1>2. ASSUME NEW a, NEW d, Store(a, d) PROVE UNCHANGED <<kind, rom, snap>>
  BY <1>2 DEF Store, StoreAscii8, StoreAscii16, StoreGm2, StoreSccI, StoreHalnote, Unchanged
<1>3. ASSUME Reset PROVE UNCHANGED <<kind, rom, snap>>
  BY <1>3 DEF Reset, ResetPlain, ResetGm2, ResetMajutsushi, ResetKonamiScc, ResetSccI,
     ResetHalnote, ResetBanks, Unchanged
<1>4. ASSUME LoadState PROVE UNCHANGED <<kind, rom, snap>>
  BY <1>4 DEF LoadState, LoadPlain, LoadAsciiSram, LoadGm2, LoadRType, LoadMajutsushi,
     LoadKonamiScc, LoadSccI, LoadHalnote, LoadBanks
<1> QED BY <1>1, <1>2, <1>3, <1>4 DEF MapperNext, mapperVars, SaveState

LEMMA RegistersStep ==
  ASSUME MapperInv, RegisterType, [MapperNext]_mapperVars
  PROVE  RegisterType'
<1> USE DEF MapperInv
<1>0. kind' = kind /\ rom' = rom /\ Windows' = Windows
  BY StepKeepsCartridge DEF Windows, SaveState
<1>1. ASSUME NEW x \in Int, NEW w, bank' = [bank EXCEPT ![w] = x], snap' = snap
      PROVE  RegisterType'
  <2>1. \A u \in Windows : bank'[u] \in Int
    BY <1>1 DEF RegisterType, Common, IsFun
  <2> QED BY <1>0, <1>1, <2>1 DEF RegisterType
<1>2. ASSUME bank' = bank, snap' = snap PROVE RegisterType'
  BY <1>0, <1>2 DEF RegisterType
<1>3. ASSUME NEW a \in Addrs[kind], NEW v \in Values[kind], Select(a, v) PROVE RegisterType'
  <2>1. v \in Int /\ Stored(v) \in Int
    <3>1. Values[kind] \subseteq Byte
      BY KindsAssumption, Zenon DEF RegisterType
    <3>2. v \in Int
      BY <3>1 DEF Byte
    <3> QED BY <3>2, StoredIsInt, Zenon DEF RegisterType
  <2>2. CASE SelectAscii8(a, v)
    BY <1>1, <2>1, <2>2 DEF SelectAscii8, Unchanged
  <2>3. CASE SelectAscii16(a, v)
    BY <1>1, <2>1, <2>3 DEF SelectAscii16, Unchanged
  <2>4. CASE SelectGm2(a, v) \/ SelectSccI(a, v) \/ SelectHalnote(a, v)
    BY <1>1, <2>1, <2>4 DEF SelectGm2, SelectSccI, SelectHalnote, Unchanged
  <2>5. CASE SelectRType(a, v) \/ SelectKonami(a, v) \/ SelectKonamiScc(a, v)
    BY <1>1, <2>1, <2>5 DEF SelectRType, SelectKonami, SelectKonamiScc, Unchanged
  <2>6. CASE WriteDac(a, v) \/ SetSccIMode(a, v) \/ SelectSubBank(a, v)
    BY <1>2, <2>6 DEF WriteDac, SetSccIMode, SelectSubBank, Unchanged
  <2> QED BY <1>3, <2>2, <2>3, <2>4, <2>5, <2>6 DEF Select
<1>4. ASSUME NEW a, NEW d, Store(a, d) PROVE RegisterType'
  BY <1>2, <1>4 DEF Store, StoreAscii8, StoreAscii16, StoreGm2, StoreSccI, StoreHalnote, Unchanged
<1>5. ASSUME Reset PROVE RegisterType'
  <2>1. bank' = PowerOnBanks /\ snap' = snap
    BY <1>5 DEF Reset, ResetPlain, ResetGm2, ResetMajutsushi, ResetKonamiScc, ResetSccI,
       ResetHalnote, ResetBanks, Unchanged
  <2>2. \A w \in Windows : PowerOnBanks[w] \in Int
    <3>1. FixedBlock \in Int /\ \A w \in Windows : w \in Int
      BY StoredIsInt DEF RegisterType, Windows
    <3> QED BY <3>1 DEF PowerOnBanks
  <2> QED BY <1>0, <2>1, <2>2 DEF RegisterType
<1>6. ASSUME SaveState PROVE RegisterType'
  <2>1. bank' = bank /\ snap'.fields = SavedFields
    BY <1>6 DEF SaveState
  <2>2. /\ kind = "r_type" => SavedFields.bank = bank[1] /\ 1 \in Windows
        /\ kind # "r_type" => SavedFields.banks = bank
    BY SavedFieldsAre DEF Common
  <2> QED BY <1>0, <2>1, <2>2 DEF RegisterType
<1>7. ASSUME LoadState PROVE RegisterType'
  <2>1. CASE LoadRType
    BY <1>1, <2>1 DEF LoadRType, LoadBanks, RegisterType
  <2>2. CASE ~LoadRType
    <3>1. kind # "r_type" /\ bank' = snap.fields.banks /\ snap' = snap /\ snap.saved
      BY <1>7, <2>2 DEF LoadState, LoadPlain, LoadAsciiSram, LoadGm2, LoadRType, LoadMajutsushi,
         LoadKonamiScc, LoadSccI, LoadHalnote, LoadBanks, Ascii8Sram, Ascii16Sram
    <3> QED BY <1>0, <3>1 DEF RegisterType
  <2> QED BY <2>1, <2>2
<1>8. CASE UNCHANGED mapperVars
  BY <1>2, <1>8 DEF mapperVars
<1> QED BY <1>3, <1>4, <1>5, <1>6, <1>7, <1>8 DEF MapperNext

LEMMA RegistersInit == MapperInit => RegisterType
<1> SUFFICES ASSUME MapperInit PROVE RegisterType
  OBVIOUS
<1>1. FixedBlock \in Int /\ \A w \in Windows : w \in Int
  BY StoredIsInt DEF MapperInit, Windows
<1> QED BY <1>1 DEF MapperInit, RegisterType, PowerOnBanks, NoSnap

\* The debugger's slot view names, for every cartridge, ROM and program, the place
\* a read of each window returns.
THEOREM MapperDescriptionIsRead == MapperSpec => []DescriptionIsRead
<1>1. MapperInv /\ RegisterType => DescriptionIsRead
  BY InvGivesDescription
<1>2. MapperInv /\ RegisterType /\ [MapperNext]_mapperVars => RegisterType'
  BY RegistersStep
<1> QED BY <1>1, <1>2, RegistersInit, MapperInvariant, PTL DEF MapperSpec

-----------------------------------------------------------------------------
(* Loading.                                                                *)

\* The registers and latched fields that a read depends on.
SameLatch(l, m) ==
  /\ kind \in {"konami_scc", "scc_i_cart"} => (l.scc = 19 <=> m.scc = 19)
  /\ kind = "scc_i_cart" => l.scc = m.scc
  /\ kind = "halnote" => l.sramOn = m.sramOn /\ l.subOn = m.subOn /\ l.sub = m.sub

LEMMA SameView ==
  ASSUME kind \in AllKinds, NEW l, NEW m, SameLatch(l, m), NEW regs, NEW b
  PROVE  Decoded(b, regs, l) = Decoded(b, regs, m)
BY KindFacts DEF Decoded, SameLatch

\* A snapshot taken now would show what a read returns now.
LEMMA SaveShows ==
  ASSUME MapperInv, SaveState, NEW b \in Blocks
  PROVE  snap'.seen[b] = Decoded(b, SavedBanks, SavedLatch)'
<1> USE DEF MapperInv
<1>0. kind \in AllKinds /\ UNCHANGED <<kind, rom, bank, latch>> /\ snap'.fields = SavedFields
  BY DEF Common, SaveState
<1>1. snap'.seen[b] = Decoded(b, bank, latch)
  BY ViewIsDecoded DEF SaveState
<1>2. SavedBanks' = bank
  <2>1. CASE kind = "r_type"
    BY <1>0, <2>1, SavedFieldsAre DEF SavedBanks, Common, IsFun
  <2>2. CASE kind # "r_type"
    BY <1>0, <2>2, SavedFieldsAre DEF SavedBanks
  <2> QED BY <2>1, <2>2
<1>3. SameLatch(latch, SavedLatch')
  <2>1. CASE kind = "konami_scc"
    <3>1. snap'.fields.scc_mode = (latch.scc = 19)
      BY <1>0, <2>1, SavedFieldsAre
    <3>2. SavedLatch' = [scc |-> IF snap'.fields.scc_mode THEN 19 ELSE 32]
      BY <1>0, <2>1 DEF SavedLatch, NoWindow
    <3>3. SavedLatch'.scc = 19 <=> latch.scc = 19
      <4>1. CASE latch.scc = 19
        <5>1. snap'.fields.scc_mode = TRUE
          BY <3>1, <4>1
        <5> QED BY <3>2, <4>1, <5>1
      <4>2. CASE latch.scc # 19
        <5>1. snap'.fields.scc_mode = FALSE
          BY <3>1, <4>2
        <5> QED BY <3>2, <4>2, <5>1
      <4> QED BY <4>1, <4>2
    <3> QED BY <2>1, <3>3 DEF SameLatch
  <2>2. CASE kind = "scc_i_cart"
    BY <1>0, <2>2, SavedFieldsAre DEF SavedLatch, SameLatch, SccIGates, SccWindow
  <2>3. CASE kind = "halnote"
    BY <1>0, <2>3, SavedFieldsAre DEF SavedLatch, SameLatch, HalnoteGates
  <2>4. CASE kind \notin {"konami_scc", "scc_i_cart", "halnote"}
    BY <2>4 DEF SameLatch
  <2> QED BY <2>1, <2>2, <2>3, <2>4
<1>4. Decoded(b, bank, SavedLatch') = Decoded(b, SavedBanks, SavedLatch)'
  BY <1>0, <1>2 DEF Decoded, Shown, SelectsSram, PageOf, PageOrOpen, TwoTier, NumPages, Rom, Span,
     WindowOf, MirrorWindow, SramBlockMask, Ascii16Cell, Gm2Cell, HalfOf
<1> QED BY <1>0, <1>1, <1>3, <1>4, SameView

\* Loading makes the registers those the snapshot decodes to.
LEMMA LoadDecodes ==
  ASSUME MapperInv, LoadState
  PROVE  bank' = SavedBanks /\ SameLatch(latch', SavedLatch)
<1> USE DEF MapperInv
<1>1. CASE kind = "r_type"
  BY <1>1 DEF LoadState, LoadPlain, LoadAsciiSram, LoadGm2, LoadRType, LoadMajutsushi,
     LoadKonamiScc, LoadSccI, LoadHalnote, LoadBanks, SavedBanks, SameLatch, Ascii8Sram, Ascii16Sram
<1>2. CASE kind = "konami_scc"
  <2>1. bank' = snap.fields.banks
        /\ latch' = [latch EXCEPT !.scc = IF snap.fields.scc_mode THEN 19 ELSE NoWindow]
    BY <1>2 DEF LoadState, LoadPlain, LoadAsciiSram, LoadGm2, LoadRType, LoadMajutsushi,
       LoadKonamiScc, LoadSccI, LoadHalnote, LoadBanks, Ascii8Sram, Ascii16Sram
  <2>2. latch'.scc = IF snap.fields.scc_mode THEN 19 ELSE NoWindow
    BY <2>1 DEF LatchType
  <2> QED BY <1>2, <2>1, <2>2 DEF SavedBanks, SavedLatch, SameLatch
<1>3. CASE kind = "scc_i_cart"
  <2>1. bank' = snap.fields.banks
        /\ latch' = WithMode(latch, snap.fields.mode_register, bank')
    BY <1>3 DEF LoadState, LoadPlain, LoadAsciiSram, LoadGm2, LoadRType, LoadMajutsushi,
       LoadKonamiScc, LoadSccI, LoadHalnote, LoadBanks, Ascii8Sram, Ascii16Sram
  <2>2. latch'.scc = SccWindow(snap.fields.mode_register, bank')
    BY <2>1 DEF LatchType, WithMode
  <2> QED BY <1>3, <2>1, <2>2 DEF SavedBanks, SavedLatch, SameLatch
<1>4. CASE kind = "halnote"
  <2>1. bank' = snap.fields.banks
        /\ latch' = [latch EXCEPT !.sub = snap.fields.subbanks,
                                  !.sramOn = Bit(bank'[0], 7), !.subOn = Bit(bank'[1], 7)]
    BY <1>4 DEF LoadState, LoadPlain, LoadAsciiSram, LoadGm2, LoadRType, LoadMajutsushi,
       LoadKonamiScc, LoadSccI, LoadHalnote, LoadBanks, Ascii8Sram, Ascii16Sram
  <2>2. /\ latch'.sub = snap.fields.subbanks
        /\ latch'.sramOn = Bit(bank'[0], 7) /\ latch'.subOn = Bit(bank'[1], 7)
    BY <2>1 DEF LatchType
  <2> QED BY <1>4, <2>1, <2>2 DEF SavedBanks, SavedLatch, SameLatch
<1>5. CASE kind \notin {"r_type", "konami_scc", "scc_i_cart", "halnote"}
  BY <1>5 DEF LoadState, LoadPlain, LoadAsciiSram, LoadGm2, LoadRType, LoadMajutsushi,
     LoadKonamiScc, LoadSccI, LoadHalnote, LoadBanks, SavedBanks, SameLatch
<1> QED BY <1>1, <1>2, <1>3, <1>4, <1>5

\* A step that keeps the snapshot keeps what it decodes to: the first register of
\* the R-Type, which is not saved, never changes.
LEMMA SnapShowsStep ==
  ASSUME MapperInv, SnapShows, [MapperNext]_mapperVars
  PROVE  SnapShows'
<1>1. CASE SaveState
  BY <1>1, SaveShows DEF SnapShows
<1>2. CASE UNCHANGED <<kind, rom, snap>>
  <2>1. kind = "r_type" => bank'[0] = bank[0] /\ Windows = {0, 1}
    <3>1. MapperInv'
      BY MapperStepInv
    <3>2. FixedBlock' = FixedBlock
      BY <1>2 DEF FixedBlock, TwoTier, NumPages
    <3>3. kind = "r_type" => Windows = 0..1
      BY DEF Windows, Wide
    <3> QED BY <1>2, <3>1, <3>2, <3>3 DEF MapperInv, FixedWindow
  <2>2. SavedBanks' = SavedBanks
    <3>1. CASE kind = "r_type"
      <4>1. IsFun(bank, {0, 1}) /\ IsFun(bank', {0, 1})
        <5>1. MapperInv' /\ Windows' = Windows
          BY <1>2, MapperStepInv DEF Windows
        <5> QED BY <2>1, <3>1, <5>1 DEF MapperInv, Common, IsFun
      <4>2. [bank' EXCEPT ![1] = snap.fields.bank] = [bank EXCEPT ![1] = snap.fields.bank]
        <5>1. \A i \in {0, 1} : [bank' EXCEPT ![1] = snap.fields.bank][i]
                                  = [bank EXCEPT ![1] = snap.fields.bank][i]
          BY <2>1, <3>1, <4>1 DEF IsFun
        <5> QED BY <4>1, <5>1 DEF IsFun
      <4> QED BY <1>2, <3>1, <4>2 DEF SavedBanks
    <3>2. CASE kind # "r_type"
      BY <1>2, <3>2 DEF SavedBanks
    <3> QED BY <3>1, <3>2
  <2>3. SavedLatch' = SavedLatch
    BY <1>2 DEF SavedLatch, SccWindow
  <2>4. \A b : Decoded(b, SavedBanks, SavedLatch)' = Decoded(b, SavedBanks, SavedLatch)
    BY <1>2, <2>2, <2>3 DEF Decoded, Shown, SelectsSram, PageOf, PageOrOpen, TwoTier, NumPages,
       Rom, Span, WindowOf, MirrorWindow, SramBlockMask, Ascii16Cell, Gm2Cell, HalfOf
  <2> QED BY <1>2, <2>4 DEF SnapShows
<1>3. SaveState \/ UNCHANGED <<kind, rom, snap>>
  BY StepKeepsCartridge
<1> QED BY <1>1, <1>2, <1>3

ReadsDecoded == \A b \in Blocks : View(b) = Decoded(b, bank, latch)

LEMMA ReadsAfter == MapperInv' => ReadsDecoded'
<1>1. MapperInv => ReadsDecoded
  BY ViewIsDecoded DEF ReadsDecoded
<1> QED BY <1>1, PTL

\* A loaded state shows at every address what the cartridge showed when it was
\* saved, whatever windows, halves and gates were open in between.
THEOREM MapperLoadShowsSaved == MapperSpec => LoadShowsSaved
<1>1. ASSUME MapperInv, SnapShows, LoadState
      PROVE  \A b \in Blocks : View(b)' = snap.seen[b]
  <2> SUFFICES ASSUME NEW b \in Blocks PROVE View(b)' = snap.seen[b]
    OBVIOUS
  <2>1. MapperInv'
    BY <1>1, LoadKeeps
  <2>2. View(b)' = Decoded(b, bank, latch)'
    BY <2>1, ReadsAfter DEF ReadsDecoded
  <2>0. kind' = kind /\ rom' = rom
    BY <1>1, StepKeepsCartridge DEF MapperNext
  <2>3. Decoded(b, bank, latch)' = Decoded(b, bank', latch')
    BY <2>0 DEF Decoded, Shown, SelectsSram, PageOf, PageOrOpen, TwoTier, NumPages,
       Rom, Span, WindowOf, MirrorWindow, SramBlockMask, Ascii16Cell, Gm2Cell, HalfOf
  <2>4. bank' = SavedBanks /\ SameLatch(latch', SavedLatch) /\ kind \in AllKinds
    BY <1>1, LoadDecodes DEF MapperInv, Common
  <2>5. Decoded(b, bank', latch') = Decoded(b, SavedBanks, SavedLatch)
    BY <2>4, SameView
  <2>6. snap.saved
    BY <1>1 DEF LoadState, LoadPlain, LoadAsciiSram, LoadGm2, LoadRType, LoadMajutsushi,
       LoadKonamiScc, LoadSccI, LoadHalnote, LoadBanks
  <2> QED BY <1>1, <2>2, <2>3, <2>5, <2>6 DEF SnapShows
<1>2. MapperInit => SnapShows
  BY DEF MapperInit, SnapShows, NoSnap
<1>3. MapperInv /\ SnapShows /\ [MapperNext]_mapperVars => SnapShows'
  BY SnapShowsStep
<1>4. MapperInv /\ SnapShows /\ [MapperNext]_mapperVars
        => [LoadState => \A b \in Blocks : View(b)' = snap.seen[b]]_mapperVars
  BY <1>1
<1> QED BY <1>2, <1>3, <1>4, MapperInvariant, PTL DEF MapperSpec, LoadShowsSaved

-----------------------------------------------------------------------------
(* Storing.                                                                *)

LEMMA StoreIsShown ==
  ASSUME MapperInv, NEW a \in Addrs[kind], NEW d \in Data, Store(a, d),
         kind # "game_master2", View(a.block) # Sound
  PROVE  /\ View(a.block).src = "mem"
         /\ mem' = [mem EXCEPT ![View(a.block).at] = d]
<1> USE DEF MapperInv
<1>0. kind \in AllKinds
  BY DEF Common
<1> SUFFICES \E c : View(a.block) = Cell(c) /\ mem' = [mem EXCEPT ![c] = d]
  BY DEF Cell
<1>1. CASE StoreAscii8(a, d)
  <2>1. kind \in Ascii8 /\ a.block \in InWindows
    BY <1>1 DEF StoreAscii8, Ascii8
  <2>2. sramWin[WindowOf(a.block)]
    BY <1>1, <2>1, WindowFacts DEF StoreAscii8, Common
  <2>3. View(a.block) = Cell(Ascii8Cell(WindowOf(a.block), a.block))
    BY <1>0, <2>1, <2>2, KindFacts DEF View, Ascii8View
  <2> QED BY <1>1, <2>3 DEF StoreAscii8
<1>2. CASE StoreAscii16(a, d)
  <2>1. /\ kind \in Ascii16 /\ a.block \in InWindows /\ WindowOf(a.block) = 1 /\ 1 \in Windows
        /\ SelectsSram(1, bank[1])
    BY <1>2 DEF StoreAscii16, Ascii16, InWindows, WindowOf, Span, Wide, Windows
  <2>2. sramWin[1]
    BY <2>1 DEF Common
  <2>3. View(a.block) = Cell(Ascii16Cell(a.block))
    BY <1>0, <2>1, <2>2, KindFacts DEF View, Ascii16View
  <2> QED BY <1>2, <2>3 DEF StoreAscii16
<1>3. CASE StoreGm2(a, d)
  BY <1>3 DEF StoreGm2
<1>4. CASE StoreSccI(a, d)
  <2>1. kind = "scc_i_cart" /\ a.block \in InWindows
        /\ mem' = [mem EXCEPT ![flat[WindowOf(a.block)] * 4 + (a.block % 4)] = d]
    BY <1>4 DEF StoreSccI
  <2>2. View(a.block) = SccICartView(a.block)
    BY <1>0, <2>1, KindFacts DEF View
  <2> QED BY <2>1, <2>2 DEF SccICartView
<1>5. CASE StoreHalnote(a, d)
  <2>1. kind = "halnote" /\ a.block < 8 /\ latch.sramOn /\ mem' = [mem EXCEPT ![a.block] = d]
    BY <1>5 DEF StoreHalnote
  <2>2. View(a.block) = HalnoteView(a.block)
    BY <1>0, <2>1, KindFacts DEF View
  <2> QED BY <2>1, <2>2 DEF HalnoteView
<1> QED BY <1>1, <1>2, <1>3, <1>4, <1>5 DEF Store

\* A program's write changes cartridge memory only where a read of the same address
\* shows it, in every cartridge but the two whose documentation says otherwise.
THEOREM MapperStoresWhereShown == MapperSpec => StoresWhereShown
<1>1. MapperInv => [mem' # mem /\ kind # "game_master2" =>
        \A a \in Addrs[kind], d \in Data :
          Store(a, d) /\ View(a.block) # Sound =>
            /\ View(a.block).src = "mem"
            /\ mem' = [mem EXCEPT ![View(a.block).at] = d]]_mapperVars
  BY StoreIsShown
<1> QED BY <1>1, MapperInvariant, PTL DEF StoresWhereShown

=============================================================================
