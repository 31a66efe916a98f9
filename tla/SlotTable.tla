----------------------------- MODULE SlotTable -----------------------------
(***************************************************************************)
(* What the MSX address space promises (docs of src/msx/memory.py's class, *)
(* specified from its routing code): four pages of 16 KB, a primary slot   *)
(* register that selects a slot for each page, a secondary register in     *)
(* each expanded slot, and a table of what every (slot, sub-slot, page)    *)
(* holds. An access reaches what the registers select at that moment.      *)
(* There is no cache here: Slots, which has one, implements this.          *)
(***************************************************************************)
EXTENDS Bits, FiniteSets

CONSTANTS
  Machines,     \* the machines: records of what the loader built, see SlotsAssumption
  Registers,    \* the values a program writes to a slot register, as page -> slot
  SegmentBytes  \* the values it writes to the ports of the RAM mapper

Page == 0..3
Slot == 0..3

ASSUME SlotsAssumption ==
  /\ Registers \subseteq [Page -> Slot]
  /\ SegmentBytes \subseteq Byte
  /\ \A m \in Machines :
       /\ m.expanded \subseteq 1..3            \* the slots with a secondary register
       /\ m.carts \subseteq (1..2) \X Slot     \* the sub-slots that hold a mapper
       /\ m.slot0Ram \in -1..3                 \* the page of the RAM in slot 0, or -1
       /\ m.subRom \in BOOLEAN /\ m.subRomAt \in Slot
       /\ m.fdc \in BOOLEAN /\ m.fdcAt \in Slot
       /\ m.flatAt \in -1..3                   \* the sub-slot of the flat RAM, or -1
       /\ m.segments \in 0..256                \* of the RAM mapper, 0: there is none (_MAX_MAPPER_KB)
       /\ m.topPages \in 0..4                  \* pages of the flat RAM of an MSX1
       \* SlotThreeStrategyIsExclusive, and what the loader refuses
       /\ m.flatAt >= 0 => m.segments = 0 /\ m.topPages = 4
       /\ m.fdc => m.flatAt >= 0 \/ m.segments > 0
       /\ m.subRom => m.subRomAt # m.flatAt
       /\ m.fdc => m.fdcAt # m.flatAt
       \* a sub-slot holds the SUB ROM only if there is one (_Slot3Msx2)
       /\ ~m.subRom => m.subRomAt = 0
       /\ ~m.fdc => m.fdcAt = 0
       \* the machine definitions give slot 0 RAM only where slot 3 has none
       /\ m.slot0Ram >= 0 => m.segments > 0 \/ m.flatAt >= 0 \/ m.topPages = 0
       \* an MSX1 has no secondary register in slot 3 and no MSX2 device in it
       /\ 3 \notin m.expanded => ~m.subRom /\ ~m.fdc /\ m.flatAt = -1 /\ m.segments = 0

VARIABLES
  machine,      \* the machine that was built
  primary,      \* slot_register
  secondary,    \* slot1_sub_slot_reg, slot2_sub_slot_reg, sub_slot_reg
  segs,         \* the banks of the RAM mapper
  access        \* the latest access of the CPU: what it reached

tableVars == <<machine, primary, secondary, segs, access>>

-----------------------------------------------------------------------------

Dev(d, at) == [dev |-> d, at |-> at]
Nothing       == Dev("open", 0)
FdcPage    == 1                    \* 0x4000-0x7FFF, the default nothing overrides

\* The smallest power of two that covers n segments (bit_ceil).
BitCeil(n) == Pow2(CHOOSE k \in 0..8 : n <= Pow2(k) /\ \A j \in 0..(k - 1) : n > Pow2(j))

\* The segment a port value selects: the unused bits are masked, and a value past
\* the last segment is masked again.
Segment(n, v) ==
  LET masked == v % BitCeil(n) IN IF masked >= n THEN And(masked, n - 1) ELSE masked

HasMapperRam(m) == m.segments > 0
HasFlatRam(m)   == m.flatAt >= 0

\* What a sub-slot of slot 3 holds at a page: the SUB ROM in page 0 of its
\* sub-slot, the disk ROM and controller in page 1 of theirs, RAM in the others.
SlotThree(m, ss, page) ==
  IF m.subRom /\ ss = m.subRomAt /\ page = 0 THEN Dev("sub_rom", 0)
  ELSE IF m.fdc /\ ss = m.fdcAt /\ page = FdcPage THEN Dev("fdc", 0)
  ELSE IF HasFlatRam(m) THEN (IF ss = m.flatAt THEN Dev("ram", page) ELSE Nothing)
  ELSE IF (m.subRom /\ ss = m.subRomAt) \/ (ss = 1 /\ ~(m.fdc /\ m.fdcAt = 1)) THEN Nothing
  ELSE IF HasMapperRam(m) THEN Dev("mapper_ram", Segment(m.segments, segs[page]))
  ELSE IF page >= 4 - m.topPages THEN Dev("ram", page) ELSE Nothing

\* The table.
Holds(m, ps, ss, page) ==
  CASE ps = 0      -> IF page = m.slot0Ram THEN Dev("slot0_ram", page) ELSE Dev("rom", page)
    [] ps \in 1..2 -> IF <<ps, ss>> \in m.carts THEN Dev("cart", ps * 4 + ss) ELSE Nothing
    [] ps = 3      -> SlotThree(m, ss, page)

SubSlot(ps, page) == IF ps \in machine.expanded THEN secondary[ps][page] ELSE 0

Selected(page) == Holds(machine, primary[page], SubSlot(primary[page], page), page)

\* A write to a ROM, to an empty place or between devices has no effect.
Ignored     == Dev("ignored", 0)
ReadOnly    == {"rom", "sub_rom", "open"}
Written(d)  == IF d.dev \in ReadOnly THEN Ignored ELSE d

\* 0xFFFF is the secondary register of the slot in page 3, if that is expanded.
RegisterSlot == IF primary[3] \in machine.expanded THEN primary[3] ELSE 0

-----------------------------------------------------------------------------

Zero == [p \in Page |-> 0]

TableInit ==
  /\ machine \in Machines
  /\ primary = Zero
  /\ secondary = [s \in 1..3 |-> Zero]
  /\ segs = Zero
  /\ access = [op |-> "none", page |-> 0, to |-> Nothing]

Performs(op, page, d) == access' = [op |-> op, page |-> page, to |-> d]

TableRead(page) ==
  /\ Performs("read", page, Selected(page))
  /\ UNCHANGED <<machine, primary, secondary, segs>>

TableWrite(page) ==
  /\ Performs("write", page, Written(Selected(page)))
  /\ UNCHANGED <<machine, primary, secondary, segs>>

TableReadTop ==
  /\ Performs("read", 3, IF RegisterSlot # 0 THEN Dev("register", RegisterSlot) ELSE Selected(3))
  /\ UNCHANGED <<machine, primary, secondary, segs>>

TableWriteTop(r) ==
  /\ IF RegisterSlot # 0
       THEN /\ Performs("write", 3, Dev("register", RegisterSlot))
            /\ secondary' = [secondary EXCEPT ![RegisterSlot] = r]
       ELSE Performs("write", 3, Written(Selected(3))) /\ UNCHANGED secondary
  /\ UNCHANGED <<machine, primary, segs>>

TableSelect(r) == primary' = r /\ UNCHANGED <<machine, secondary, segs, access>>

TableSelectSegment(page, v) ==
  /\ HasMapperRam(machine)
  /\ segs' = [segs EXCEPT ![page] = v % BitCeil(machine.segments)]
  /\ UNCHANGED <<machine, primary, secondary, access>>

TableReset ==
  /\ primary' = Zero /\ secondary' = [s \in 1..3 |-> Zero] /\ segs' = Zero
  /\ UNCHANGED <<machine, access>>

\* A loaded state gives the registers the machine has any value.
TableLoad(r, s, v) ==
  /\ primary' = r
  /\ secondary' = [ps \in 1..3 |-> IF ps \in machine.expanded THEN s ELSE secondary[ps]]
  /\ segs' = IF HasMapperRam(machine) THEN [p \in Page |-> v] ELSE segs
  /\ UNCHANGED <<machine, access>>

TableNext ==
  \/ \E page \in Page : TableRead(page) \/ TableWrite(page)
  \/ TableReadTop
  \/ \E r \in Registers : TableWriteTop(r) \/ TableSelect(r)
  \/ \E page \in Page, v \in SegmentBytes : TableSelectSegment(page, v)
  \/ TableReset
  \/ \E r, s \in Registers, v \in SegmentBytes : TableLoad(r, s, v)

TableSpec == TableInit /\ [][TableNext]_tableVars
=============================================================================
