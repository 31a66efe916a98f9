------------------------------- MODULE Slots -------------------------------
(***************************************************************************)
(* The memory bus of src/msx/memory.py with its page-routing cache, the    *)
(* system RAM mapper behind it (src/msx/ram_mapper.py) and the port of the *)
(* PPI that writes the primary slot register (src/msx/ppi.py).             *)
(*                                                                         *)
(* The code does not decode the registers on every access. It keeps, for   *)
(* each page, the routine a read and the routine a write goes to, and the  *)
(* slot whose register answers at 0xFFFF. Every setter marks the cache as  *)
(* invalid, the next access rebuilds it. Reads and writes are resolved by  *)
(* two separate chains of guards.                                          *)
(***************************************************************************)
EXTENDS SlotTable

VARIABLE cache    \* _page_cache_valid, _page_read, _page_write, _page3_intercept_slot

slotVars == <<machine, primary, secondary, segs, access, cache>>

-----------------------------------------------------------------------------
(* The guard chains. A leaf is the routine a page dispatches to: where a   *)
(* routine looks at the address or the segments, it does so at the access. *)

SlotThreeReadDataDriven(page, sub) ==
  IF sub = machine.subRomAt /\ page = 0 /\ machine.subRom THEN "sub_rom"
  ELSE IF sub = machine.fdcAt /\ page = FdcPage /\ machine.fdc THEN "fdc"
  ELSE IF sub = machine.flatAt THEN "flat"
  ELSE "open"

SlotThreeReadLegacy(page, sub) ==
  IF sub = machine.subRomAt /\ machine.subRom /\ page = 0 THEN "sub_rom"
  ELSE IF sub = machine.fdcAt /\ page = FdcPage /\ machine.fdc THEN "fdc"
  ELSE IF sub = machine.subRomAt /\ machine.subRom THEN "open"
  ELSE IF sub = 1 /\ sub # machine.fdcAt /\ sub # machine.subRomAt THEN "open"
  ELSE IF HasMapperRam(machine) THEN "ram_mapper"
  ELSE "msx1_ram"

SlotThreeWriteDataDriven(page, sub) ==
  IF sub = machine.fdcAt /\ page = FdcPage /\ machine.fdc THEN "fdc"
  ELSE IF sub = machine.flatAt THEN "flat"
  ELSE "noop"

SlotThreeWriteLegacy(page, sub) ==
  IF sub = machine.fdcAt /\ page = FdcPage /\ machine.fdc THEN "fdc"
  ELSE IF sub = 1 /\ sub # machine.fdcAt THEN "noop"
  ELSE IF sub = machine.subRomAt /\ machine.subRom THEN "noop"
  ELSE IF HasMapperRam(machine) THEN "ram_mapper"
  ELSE "msx1_ram"

SlotThreeReadLeaf(page) ==
  LET sub == secondary[3][page] IN
  IF HasFlatRam(machine) THEN SlotThreeReadDataDriven(page, sub) ELSE SlotThreeReadLegacy(page, sub)

SlotThreeWriteLeaf(page) ==
  LET sub == secondary[3][page] IN
  IF HasFlatRam(machine) THEN SlotThreeWriteDataDriven(page, sub) ELSE SlotThreeWriteLegacy(page, sub)

\* The sub-slot whose mapper a cartridge slot dispatches to.
CartSub(ps, page) == IF ps \in machine.expanded THEN secondary[ps][page] ELSE 0

Leaf(routine, n) == [routine |-> routine, n |-> n]

CartLeaf(ps, page, absent) ==
  IF <<ps, CartSub(ps, page)>> \in machine.carts THEN Leaf("cart", ps * 4 + CartSub(ps, page))
  ELSE Leaf(absent, 0)

ReadLeaf(page) ==
  CASE primary[page] = 0 -> Leaf(IF page = machine.slot0Ram THEN "slot0_ram" ELSE "rom", 0)
    [] primary[page] = 3 -> Leaf(SlotThreeReadLeaf(page), 0)
    [] OTHER             -> CartLeaf(primary[page], page, "open")

WriteLeaf(page) ==
  CASE primary[page] = 0 -> Leaf(IF page = machine.slot0Ram THEN "slot0_ram" ELSE "noop", 0)
    [] primary[page] = 3 -> Leaf(SlotThreeWriteLeaf(page), 0)
    [] OTHER             -> CartLeaf(primary[page], page, "noop")

Intercept ==
  CASE primary[3] = 3 /\ 3 \in machine.expanded -> 3
    [] primary[3] = 2 /\ 2 \in machine.expanded -> 2
    [] primary[3] = 1 /\ 1 \in machine.expanded -> 1
    [] OTHER                                    -> 0

\* _rebuild_page_cache
Rebuilt ==
  [valid |-> TRUE, read |-> [p \in Page |-> ReadLeaf(p)],
   write |-> [p \in Page |-> WriteLeaf(p)], intercept |-> Intercept]

Invalidated(c) == [c EXCEPT !.valid = FALSE]

-----------------------------------------------------------------------------
(* The routines. *)

\* _msx1_ram_base
TopBase == 4 - machine.topPages

\* RamMapper._phys
MapperRam(page) == Dev("mapper_ram", Segment(machine.segments, segs[page]))

ReadBy(leaf, page) ==
  CASE leaf.routine = "ram_mapper" -> MapperRam(page)
    [] leaf.routine = "msx1_ram"   -> IF page >= TopBase THEN Dev("ram", page) ELSE Nothing
    [] leaf.routine = "flat"       -> Dev("ram", page)
    [] leaf.routine \in {"rom", "slot0_ram"} -> Dev(leaf.routine, page)
    [] OTHER                       -> Dev(leaf.routine, leaf.n)

WriteBy(leaf, page) ==
  CASE leaf.routine = "ram_mapper" -> MapperRam(page)
    [] leaf.routine = "msx1_ram"   -> IF page >= TopBase THEN Dev("ram", page) ELSE Ignored
    [] leaf.routine = "flat"       -> Dev("ram", page)
    [] leaf.routine = "slot0_ram"  -> Dev("slot0_ram", page)
    [] leaf.routine = "noop"       -> Ignored
    [] OTHER                       -> Dev(leaf.routine, leaf.n)

-----------------------------------------------------------------------------

SlotsInit == TableInit /\ cache = Rebuilt

\* What read() and write() use.
Current == IF cache.valid THEN cache ELSE Rebuilt

Read(page) ==
  /\ cache' = Current
  /\ Performs("read", page, ReadBy(Current.read[page], page))
  /\ UNCHANGED <<machine, primary, secondary, segs>>

Write(page) ==
  /\ cache' = Current
  /\ Performs("write", page, WriteBy(Current.write[page], page))
  /\ UNCHANGED <<machine, primary, secondary, segs>>

\* The address 0xFFFF.
ReadTop ==
  /\ cache' = Current
  /\ Performs("read", 3, IF Current.intercept # 0 THEN Dev("register", Current.intercept)
                         ELSE ReadBy(Current.read[3], 3))
  /\ UNCHANGED <<machine, primary, secondary, segs>>

\* set_sub_slot_reg, set_slot1_sub_slot_reg, set_slot2_sub_slot_reg, by the intercept.
WriteRegister(r) ==
  /\ Current.intercept # 0
  /\ secondary' = [secondary EXCEPT ![Current.intercept] = r]
  /\ cache' = Invalidated(Current)
  /\ Performs("write", 3, Dev("register", Current.intercept))
  /\ UNCHANGED <<machine, primary, segs>>

WriteTop(r) ==
  \/ WriteRegister(r)
  \/ Current.intercept = 0 /\ Write(3)

\* Mutant: an assignment that bypasses the setter.
SelectSlotsKeepingCache(r) ==
  /\ primary' = r
  /\ UNCHANGED <<machine, secondary, segs, access, cache>>

\* PPI.write_port, port 0xA8
SelectSlots(r) ==
  /\ primary' = r
  /\ cache' = Invalidated(cache)
  /\ UNCHANGED <<machine, secondary, segs, access>>

\* RamMapper.write_port: the cache holds the routine, which reads the banks.
SelectSegment(page, v) ==
  /\ HasMapperRam(machine)
  /\ segs' = [segs EXCEPT ![page] = v % BitCeil(machine.segments)]
  /\ UNCHANGED <<machine, primary, secondary, access, cache>>

\* Machine.reset
ResetSlots ==
  /\ primary' = Zero
  /\ secondary' = [s \in 1..3 |-> Zero]
  /\ cache' = Invalidated(cache)
  /\ segs' = Zero
  /\ UNCHANGED <<machine, access>>

\* _apply_memory_and_slots: the registers the machine has, and the banks unmasked.
LoadSlots(r, s, v) ==
  /\ primary' = r
  /\ secondary' = [ps \in 1..3 |-> IF ps \in machine.expanded THEN s ELSE secondary[ps]]
  /\ cache' = Invalidated(cache)
  /\ segs' = IF HasMapperRam(machine) THEN [p \in Page |-> v] ELSE segs
  /\ UNCHANGED <<machine, access>>

SlotsNext ==
  \/ \E page \in Page : Read(page) \/ Write(page)
  \/ ReadTop
  \/ \E r \in Registers : WriteTop(r) \/ SelectSlots(r)
  \/ \E page \in Page, v \in SegmentBytes : SelectSegment(page, v)
  \/ ResetSlots
  \/ \E r, s \in Registers, v \in SegmentBytes : LoadSlots(r, s, v)

SlotsSpec == SlotsInit /\ [][SlotsNext]_slotVars

-----------------------------------------------------------------------------
(* The debugger's view (slot_info) and the stack check (main_ram_range).   *)

\* _describe_slot3 for the data-driven layout. The legacy layout is described by
\* the nominal role of each sub-slot, whatever the page.
DescribedSlotThree(sub, page) ==
  IF sub = machine.subRomAt /\ machine.subRom /\ page = 0 THEN "sub_rom"
  ELSE IF sub = machine.fdcAt /\ machine.fdc /\ page = FdcPage THEN "fdc"
  ELSE IF sub = machine.flatAt THEN "ram"
  ELSE "open"

\* RamMapper.debug_bank
DescribedSegment(page) == Segment(machine.segments, segs[page])

\* Mutant: the RAM of slot 0 is forgotten.
MainRamPagesSlotThree == IF HasMapperRam(machine) THEN Page ELSE {p \in Page : p >= TopBase}

\* main_ram_range, in whole pages.
MainRamPages ==
  IF HasMapperRam(machine) THEN Page
  ELSE IF machine.topPages = 0 /\ machine.slot0Ram >= 0 THEN {machine.slot0Ram}
  ELSE {p \in Page : p >= TopBase}

-----------------------------------------------------------------------------
(* Properties. *)

\* A valid cache is the one a rebuild would give now: every change of a register
\* invalidates it (the class has no hook that catches a forgotten invalidation).
CacheIsCurrent == cache.valid => cache = Rebuilt

\* Registers a slot does not have stay 0, so that the decode may read them anyway
\* (the chains for slot 3 use sub_slot_reg on an MSX1 too).
NoRegisterNoValue == \A s \in (1..3) \ machine.expanded : secondary[s] = Zero

\* With the cache, the two chains and the routines, an access reaches what the
\* table holds at the place the registers select, and a read and a write of a
\* writable place the same one.
ImplementsTable == TableSpec

\* The stack check of the debugger takes every page for RAM in which a program can
\* reach some: an access that reached system RAM did so within main_ram_range.
RamIsInMainRange ==
  access.to.dev \in {"ram", "slot0_ram", "mapper_ram"} => access.page \in MainRamPages

\* The slot view names what a read of the page would return: its own decode of the
\* data-driven slot 3 and of the segments agrees with the routing.
SlotViewIsRead ==
  \A p \in Page :
    LET to == ReadBy(ReadLeaf(p), p) IN
    /\ primary[p] = 3 /\ HasFlatRam(machine) => to.dev = DescribedSlotThree(secondary[3][p], p)
    /\ to.dev = "mapper_ram" => to.at = DescribedSegment(p) /\ to.at < machine.segments
=============================================================================
