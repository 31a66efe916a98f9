---------------------------- MODULE Bus_proofs ----------------------------
(***************************************************************************)
(* What TLAPS proves of the slots, for any machines, registers and port    *)
(* values, of the FM-PAC, and of the memory side put together (Bus): each  *)
(* part's theorems hold of every behaviour of the composition, since a     *)
(* part at rest is one of its own initial states and a step of one part is *)
(* a stutter of the others. The proofs of the mappers are in Mapper_proofs.*)
(***************************************************************************)
EXTENDS Bus, Mapper_proofs

-----------------------------------------------------------------------------
(* The slots.                                                              *)

(***************************************************************************)
(* The inductive invariant: the registers have their types, a register the *)
(* machine does not have is 0, a valid cache is the one a rebuild gives.   *)
(* The second part is what lets slot 3 of an MSX1 be decoded by its        *)
(* (absent) secondary register as the table decodes it without one.        *)
(***************************************************************************)
Routines ==
  {"rom", "sub_rom", "fdc", "flat", "ram_mapper", "msx1_ram", "slot0_ram", "cart", "open", "noop"}
Leaves    == [routine : Routines, n : Int]
CacheType == [valid : BOOLEAN, read : [Page -> Leaves], write : [Page -> Leaves], intercept : 0..3]

SlotTypes ==
  /\ machine \in Machines
  /\ primary \in [Page -> Slot]
  /\ secondary \in [1..3 -> [Page -> Slot]]
  /\ cache \in CacheType

SlotsInv == SlotTypes /\ NoRegisterNoValue /\ CacheIsCurrent

-----------------------------------------------------------------------------
(* The registers and the cache.                                            *)

LEMMA ZeroType == Zero \in [Page -> Slot]
BY DEF Zero, Page, Slot

LEMMA CurrentIsRebuilt == CacheIsCurrent => Current = Rebuilt
BY DEF CacheIsCurrent, Current

LEMMA RebuiltType ==
  ASSUME primary \in [Page -> Slot], secondary \in [1..3 -> [Page -> Slot]]
  PROVE  Rebuilt \in CacheType /\ Rebuilt.valid = TRUE
<1>1. ASSUME NEW p \in Page PROVE ReadLeaf(p) \in Leaves /\ WriteLeaf(p) \in Leaves
  <2>1. primary[p] \in 0..3 /\ secondary[3][p] \in 0..3
    BY DEF Page, Slot
  <2>2. SlotThreeReadLeaf(p) \in Routines /\ SlotThreeWriteLeaf(p) \in Routines
    BY DEF Routines, SlotThreeReadLeaf, SlotThreeWriteLeaf, SlotThreeReadDataDriven, SlotThreeReadLegacy,
           SlotThreeWriteDataDriven, SlotThreeWriteLegacy
  <2>3. ASSUME primary[p] \in 1..2 PROVE CartSub(primary[p], p) \in Int
    BY <2>3, <2>1 DEF CartSub, Page, Slot
  <2>4. ASSUME NEW absent \in {"open", "noop"}, primary[p] \in 1..2
        PROVE  CartLeaf(primary[p], p, absent) \in Leaves
    <3>1. primary[p] * 4 + CartSub(primary[p], p) \in Int
      BY <2>3, <2>4
    <3> QED BY <3>1 DEF CartLeaf, Leaf, Leaves, Routines
  <2> QED BY <2>1, <2>2, <2>4 DEF ReadLeaf, WriteLeaf, Leaf, Leaves, Routines
<1>2. Intercept \in 0..3
  BY DEF Intercept
<1> QED BY <1>1, <1>2 DEF Rebuilt, CacheType

LEMMA InvalidatedType ==
  ASSUME NEW c \in CacheType
  PROVE  Invalidated(c) \in CacheType /\ Invalidated(c).valid = FALSE
BY DEF Invalidated, CacheType

LEMMA CurrentType == SlotsInv => Current \in CacheType
BY RebuiltType DEF SlotsInv, SlotTypes, Current

\* The secondary register the chains read is the one of the table.
LEMMA SubSlotIs ==
  ASSUME SlotTypes, NoRegisterNoValue, NEW page \in Page, NEW ps \in 1..3
  PROVE  SubSlot(ps, page) = secondary[ps][page] /\ CartSub(ps, page) = secondary[ps][page]
BY DEF SubSlot, CartSub, NoRegisterNoValue, Zero, SlotTypes

-----------------------------------------------------------------------------
(* The invariant.                                                          *)

LEMMA SlotsInitInv == SlotsInit => SlotsInv
BY ZeroType, RebuiltType DEF SlotsInit, TableInit, SlotsInv, SlotTypes, NoRegisterNoValue, CacheIsCurrent

\* An access leaves the cache as a rebuild gives it, and nothing else changes.
LEMMA AccessKeepsInv ==
  ASSUME SlotsInv, cache' = Current, UNCHANGED <<machine, primary, secondary>>
  PROVE  SlotsInv'
<1>1. Rebuilt' = Rebuilt
  BY DEF Rebuilt, ReadLeaf, WriteLeaf, Intercept, CartLeaf, CartSub, SlotThreeReadLeaf,
         SlotThreeWriteLeaf, SlotThreeReadDataDriven, SlotThreeReadLegacy,
         SlotThreeWriteDataDriven, SlotThreeWriteLegacy
<1>2. cache' = Rebuilt
  BY CurrentIsRebuilt DEF SlotsInv
<1> QED BY <1>1, <1>2, CurrentType DEF SlotsInv, SlotTypes, NoRegisterNoValue, CacheIsCurrent

\* A change of the registers that the machine has invalidates the cache.
LEMMA SetterKeepsInv ==
  ASSUME SlotsInv, NEW c \in CacheType, cache' = Invalidated(c), machine' = machine,
         primary' \in [Page -> Slot], secondary' \in [1..3 -> [Page -> Slot]],
         \A ps \in (1..3) \ machine.expanded : secondary'[ps] = Zero
  PROVE  SlotsInv'
<1>1. Zero' = Zero
  BY DEF Zero
<1> QED BY <1>1, InvalidatedType DEF SlotsInv, SlotTypes, NoRegisterNoValue, CacheIsCurrent

LEMMA SlotsStepInv == SlotsInv /\ [SlotsNext]_slotVars => SlotsInv'
<1> SUFFICES ASSUME SlotsInv, [SlotsNext]_slotVars PROVE SlotsInv'
  OBVIOUS
<1> USE SlotsAssumption
<1>1. ASSUME NEW page \in Page, Read(page) \/ Write(page) PROVE SlotsInv'
  BY <1>1, AccessKeepsInv DEF Read, Write
<1>2. ASSUME ReadTop PROVE SlotsInv'
  BY <1>2, AccessKeepsInv DEF ReadTop
<1>3. ASSUME NEW r \in Registers, WriteTop(r) PROVE SlotsInv'
  <2>1. CASE WriteRegister(r)
    <3>1. Current.intercept \in (1..3) \intersect machine.expanded
      BY <2>1, CurrentIsRebuilt DEF SlotsInv, WriteRegister, Rebuilt, Intercept
    <3>2. secondary' \in [1..3 -> [Page -> Slot]]
      BY <2>1 DEF WriteRegister, SlotsInv, SlotTypes
    <3>3. \A ps \in (1..3) \ machine.expanded : secondary'[ps] = Zero
      BY <2>1, <3>1 DEF WriteRegister, SlotsInv, SlotTypes, NoRegisterNoValue
    <3> QED BY <2>1, <3>2, <3>3, CurrentType, SetterKeepsInv DEF WriteRegister, SlotsInv, SlotTypes
  <2>2. CASE Current.intercept = 0 /\ Write(3)
    BY <2>2, AccessKeepsInv DEF Write
  <2> QED BY <1>3, <2>1, <2>2 DEF WriteTop
<1>4. ASSUME NEW r \in Registers, SelectSlots(r) PROVE SlotsInv'
  BY <1>4, SetterKeepsInv DEF SelectSlots, SlotsInv, SlotTypes, NoRegisterNoValue
<1>5. ASSUME NEW page \in Page, NEW v \in SegmentBytes, SelectSegment(page, v) PROVE SlotsInv'
  <2>1. Rebuilt' = Rebuilt
    BY <1>5 DEF SelectSegment, Rebuilt, ReadLeaf, WriteLeaf, Intercept, CartLeaf, CartSub,
                SlotThreeReadLeaf, SlotThreeWriteLeaf, SlotThreeReadDataDriven,
                SlotThreeReadLegacy, SlotThreeWriteDataDriven, SlotThreeWriteLegacy
  <2> QED BY <1>5, <2>1 DEF SelectSegment, SlotsInv, SlotTypes, NoRegisterNoValue, CacheIsCurrent
<1>6. ASSUME ResetSlots PROVE SlotsInv'
  <2>1. secondary' = [s \in 1..3 |-> Zero]
    BY <1>6 DEF ResetSlots
  <2> QED BY <1>6, <2>1, ZeroType, SetterKeepsInv DEF ResetSlots, SlotsInv, SlotTypes
<1>7. ASSUME NEW r \in Registers, NEW s \in Registers, NEW v \in SegmentBytes, LoadSlots(r, s, v)
      PROVE  SlotsInv'
  <2>1. secondary' = [ps \in 1..3 |-> IF ps \in machine.expanded THEN s ELSE secondary[ps]]
    BY <1>7 DEF LoadSlots
  <2>2. secondary' \in [1..3 -> [Page -> Slot]]
    BY <2>1 DEF SlotsInv, SlotTypes
  <2>3. \A ps \in (1..3) \ machine.expanded : secondary'[ps] = Zero
    BY <2>1 DEF SlotsInv, NoRegisterNoValue
  <2> QED BY <1>7, <2>2, <2>3, SetterKeepsInv DEF LoadSlots, SlotsInv, SlotTypes
<1>8. CASE UNCHANGED slotVars
  <2>1. Rebuilt' = Rebuilt
    BY <1>8 DEF slotVars, Rebuilt, ReadLeaf, WriteLeaf, Intercept, CartLeaf, CartSub,
                SlotThreeReadLeaf, SlotThreeWriteLeaf, SlotThreeReadDataDriven,
                SlotThreeReadLegacy, SlotThreeWriteDataDriven, SlotThreeWriteLegacy
  <2> QED BY <1>8, <2>1 DEF slotVars, SlotsInv, SlotTypes, NoRegisterNoValue, CacheIsCurrent
<1> QED BY <1>1, <1>2, <1>3, <1>4, <1>5, <1>6, <1>7, <1>8 DEF SlotsNext

\* The registers and the cache keep their types, absent registers stay 0, and the
\* cache is never behind the registers: for every machine the loader can build.
THEOREM SlotsInvariant == SlotsSpec => []SlotsInv
BY SlotsInitInv, SlotsStepInv, PTL DEF SlotsSpec

\* A valid routing cache is the one a rebuild would give.
THEOREM SlotsCacheIsCurrent == SlotsSpec => []CacheIsCurrent
BY SlotsInvariant, PTL DEF SlotsInv

-----------------------------------------------------------------------------
(* The refinement: without the cache and the chains, the table.            *)

LEMMA MachineFacts ==
  ASSUME SlotTypes
  PROVE  /\ machine.flatAt \in -1..3 /\ machine.segments \in Nat /\ machine.topPages \in 0..4
         /\ machine.subRom \in BOOLEAN /\ machine.fdc \in BOOLEAN
         /\ machine.subRomAt \in 0..3 /\ machine.fdcAt \in 0..3
         /\ machine.subRom => machine.subRomAt # machine.flatAt
         /\ machine.fdc => machine.fdcAt # machine.flatAt
         /\ ~machine.subRom => machine.subRomAt = 0
         /\ ~machine.fdc => machine.fdcAt = 0
BY SlotsAssumption DEF SlotTypes, Slot

\* The two chains for slot 3 follow the table.
LEMMA SlotThreeIsTable ==
  ASSUME SlotTypes, NEW page \in Page, NEW ss \in Slot, secondary[3][page] = ss
  PROVE  /\ ReadBy(Leaf(SlotThreeReadLeaf(page), 0), page) = SlotThree(machine, ss, page)
         /\ WriteBy(Leaf(SlotThreeWriteLeaf(page), 0), page)
              = Written(SlotThree(machine, ss, page))
<1> USE MachineFacts DEF Page, Slot
<1>1. CASE HasFlatRam(machine)
  <2>1. ReadBy(Leaf(SlotThreeReadLeaf(page), 0), page) = SlotThree(machine, ss, page)
    BY <1>1 DEF ReadBy, Leaf, SlotThreeReadLeaf, SlotThreeReadDataDriven, SlotThree,
                HasFlatRam, Nothing, Dev, FdcPage
  <2>2. WriteBy(Leaf(SlotThreeWriteLeaf(page), 0), page) = Written(SlotThree(machine, ss, page))
    BY <1>1 DEF WriteBy, Leaf, SlotThreeWriteLeaf, SlotThreeWriteDataDriven, SlotThree,
                HasFlatRam, Nothing, Dev, FdcPage, Written, Ignored, ReadOnly
  <2> QED BY <2>1, <2>2
<1>2. CASE ~HasFlatRam(machine)
  <2> DEFINE InLegacy == (machine.subRom => ss # machine.subRomAt)
                         /\ (ss = 1 => machine.fdc /\ machine.fdcAt = 1)
             Ram == IF HasMapperRam(machine) THEN Dev("mapper_ram", Segment(machine.segments, segs[page]))
                    ELSE IF page >= 4 - machine.topPages THEN Dev("ram", page) ELSE Nothing
  <2>0. /\ SlotThreeReadLeaf(page) = SlotThreeReadLegacy(page, ss)
        /\ SlotThreeWriteLeaf(page) = SlotThreeWriteLegacy(page, ss)
    BY <1>2 DEF SlotThreeReadLeaf, SlotThreeWriteLeaf
  <2>1. CASE machine.subRom /\ ss = machine.subRomAt /\ page = 0
    <3>1. SlotThree(machine, ss, page) = Dev("sub_rom", 0)
      BY <2>1 DEF SlotThree
    <3>2. SlotThreeReadLegacy(page, ss) = "sub_rom" /\ SlotThreeWriteLegacy(page, ss) = "noop"
      BY <2>1 DEF SlotThreeReadLegacy, SlotThreeWriteLegacy, FdcPage
    <3> QED BY <2>0, <3>1, <3>2 DEF ReadBy, WriteBy, Leaf, Dev, Written, Ignored, ReadOnly
  <2>2. CASE ~(machine.subRom /\ ss = machine.subRomAt /\ page = 0)
             /\ machine.fdc /\ ss = machine.fdcAt /\ page = FdcPage
    <3>1. SlotThree(machine, ss, page) = Dev("fdc", 0)
      BY <2>2 DEF SlotThree
    <3>2. SlotThreeReadLegacy(page, ss) = "fdc" /\ SlotThreeWriteLegacy(page, ss) = "fdc"
      BY <2>2 DEF SlotThreeReadLegacy, SlotThreeWriteLegacy
    <3> QED BY <2>0, <3>1, <3>2 DEF ReadBy, WriteBy, Leaf, Dev, Written, Ignored, ReadOnly
  <2>3. CASE /\ ~(machine.subRom /\ ss = machine.subRomAt /\ page = 0)
             /\ ~(machine.fdc /\ ss = machine.fdcAt /\ page = FdcPage)
             /\ InLegacy
    <3>1. SlotThree(machine, ss, page) = Ram
      BY <1>2, <2>3 DEF SlotThree
    <3>2. SlotThreeReadLegacy(page, ss) = SlotThreeWriteLegacy(page, ss)
      BY <2>3 DEF SlotThreeReadLegacy, SlotThreeWriteLegacy
    <3>3. SlotThreeReadLegacy(page, ss) = IF HasMapperRam(machine) THEN "ram_mapper" ELSE "msx1_ram"
      BY <2>3 DEF SlotThreeReadLegacy
    <3>4. CASE HasMapperRam(machine)
      BY <2>0, <3>1, <3>2, <3>3, <3>4
      DEF ReadBy, WriteBy, Leaf, Dev, Written, ReadOnly, MapperRam
    <3>5. CASE ~HasMapperRam(machine)
      BY <2>0, <3>1, <3>2, <3>3, <3>5
      DEF ReadBy, WriteBy, Leaf, Dev, Written, Ignored, ReadOnly, TopBase, Nothing
    <3> QED BY <3>4, <3>5
  <2>4. CASE /\ ~(machine.subRom /\ ss = machine.subRomAt /\ page = 0)
             /\ ~(machine.fdc /\ ss = machine.fdcAt /\ page = FdcPage)
             /\ ~InLegacy
    <3>1. (machine.subRom /\ ss = machine.subRomAt) \/ (ss = 1 /\ ~(machine.fdc /\ machine.fdcAt = 1))
      BY <2>4
    <3>3. SlotThree(machine, ss, page) = Nothing
      BY <1>2, <2>4, <3>1 DEF SlotThree
    <3>2. SlotThreeReadLegacy(page, ss) = "open" /\ SlotThreeWriteLegacy(page, ss) = "noop"
      BY <2>4 DEF SlotThreeReadLegacy, SlotThreeWriteLegacy
    <3> QED BY <2>0, <3>2, <3>3 DEF ReadBy, WriteBy, Leaf, Dev, Written, Ignored, ReadOnly, Nothing
  <2> QED BY <2>1, <2>2, <2>3, <2>4
<1> QED BY <1>1, <1>2

LEMMA RoutingIsTable ==
  ASSUME SlotsInv, NEW page \in Page
  PROVE  /\ ReadBy(Rebuilt.read[page], page) = Selected(page)
         /\ WriteBy(Rebuilt.write[page], page) = Written(Selected(page))
<1>1. Rebuilt.read[page] = ReadLeaf(page) /\ Rebuilt.write[page] = WriteLeaf(page)
  BY DEF Rebuilt
<1>2. primary[page] \in 0..3 /\ secondary[3][page] \in Slot
  BY DEF SlotsInv, SlotTypes, Slot
<1>3. CASE primary[page] = 0
  BY <1>1, <1>3 DEF ReadLeaf, WriteLeaf, Leaf, ReadBy, WriteBy, Selected, Holds, Written,
                    Ignored, ReadOnly, Dev
<1>4. CASE primary[page] \in 1..2
  <2>1. SubSlot(primary[page], page) = CartSub(primary[page], page)
    BY <1>4, SubSlotIs DEF SlotsInv
  <2>2. Selected(page)
          = IF <<primary[page], CartSub(primary[page], page)>> \in machine.carts
            THEN Dev("cart", primary[page] * 4 + CartSub(primary[page], page)) ELSE Nothing
    BY <1>4, <2>1 DEF Selected, Holds
  <2>3. ReadLeaf(page) = CartLeaf(primary[page], page, "open")
        /\ WriteLeaf(page) = CartLeaf(primary[page], page, "noop")
    BY <1>4 DEF ReadLeaf, WriteLeaf
  <2> QED BY <1>1, <2>2, <2>3 DEF CartLeaf, Leaf, ReadBy, WriteBy, Written, Ignored, ReadOnly,
                                  Nothing, Dev
<1>5. CASE primary[page] = 3
  <2>1. Selected(page) = SlotThree(machine, secondary[3][page], page)
    BY <1>5, SubSlotIs DEF SlotsInv, Selected, Holds
  <2>2. ReadLeaf(page) = Leaf(SlotThreeReadLeaf(page), 0)
        /\ WriteLeaf(page) = Leaf(SlotThreeWriteLeaf(page), 0)
    BY <1>5 DEF ReadLeaf, WriteLeaf
  <2> QED BY <1>1, <1>2, <2>1, <2>2, SlotThreeIsTable DEF SlotsInv
<1> QED BY <1>2, <1>3, <1>4, <1>5

LEMMA InterceptIsTable == SlotsInv => Rebuilt.intercept = RegisterSlot
<1> SUFFICES ASSUME SlotsInv PROVE Rebuilt.intercept = RegisterSlot
  OBVIOUS
<1>1. primary[3] \in 0..3 /\ machine.expanded \subseteq 1..3
  BY SlotsAssumption DEF SlotsInv, SlotTypes, Slot, Page
<1> QED BY <1>1 DEF Rebuilt, Intercept, RegisterSlot

LEMMA SlotsStepTable == SlotsInv /\ [SlotsNext]_slotVars => [TableNext]_tableVars
<1> SUFFICES ASSUME SlotsInv, [SlotsNext]_slotVars PROVE [TableNext]_tableVars
  OBVIOUS
<1>0. Current = Rebuilt
  BY CurrentIsRebuilt DEF SlotsInv
<1>t. 3 \in Page
  BY DEF Page
<1>1. ASSUME NEW page \in Page, Read(page) PROVE TableNext
  <2>1. TableRead(page)
    BY <1>0, <1>1, RoutingIsTable DEF Read, TableRead
  <2> QED BY <2>1 DEF TableNext
<1>2. ASSUME NEW page \in Page, Write(page) PROVE TableNext
  <2>1. TableWrite(page)
    BY <1>0, <1>2, RoutingIsTable DEF Write, TableWrite
  <2> QED BY <2>1 DEF TableNext
<1>3. ASSUME ReadTop PROVE TableNext
  <2>1. TableReadTop
    BY <1>0, <1>t, <1>3, RoutingIsTable, InterceptIsTable DEF ReadTop, TableReadTop
  <2> QED BY <2>1 DEF TableNext
<1>4. ASSUME NEW r \in Registers, WriteTop(r) PROVE TableNext
  <2>1. TableWriteTop(r)
    BY <1>0, <1>t, <1>4, RoutingIsTable, InterceptIsTable
    DEF WriteTop, WriteRegister, Write, TableWriteTop, Performs
  <2> QED BY <2>1 DEF TableNext
<1>5. ASSUME NEW r \in Registers, SelectSlots(r) PROVE TableNext
  BY <1>5 DEF SelectSlots, TableSelect, TableNext
<1>6. ASSUME NEW page \in Page, NEW v \in SegmentBytes, SelectSegment(page, v) PROVE TableNext
  BY <1>6 DEF SelectSegment, TableSelectSegment, TableNext
<1>7. ASSUME ResetSlots PROVE TableNext
  BY <1>7 DEF ResetSlots, TableReset, TableNext
<1>8. ASSUME NEW r \in Registers, NEW s \in Registers, NEW v \in SegmentBytes, LoadSlots(r, s, v)
      PROVE  TableNext
  BY <1>8 DEF LoadSlots, TableLoad, TableNext
<1>9. CASE UNCHANGED slotVars
  BY <1>9 DEF slotVars, tableVars
<1> QED BY <1>1, <1>2, <1>3, <1>4, <1>5, <1>6, <1>7, <1>8, <1>9 DEF SlotsNext

\* The bus with its cache implements the table: an access reaches what the
\* registers select at that moment, reads and writes alike, on every machine.
THEOREM SlotsImplementTable == SlotsSpec => ImplementsTable
<1>1. SlotsInit => TableInit
  BY DEF SlotsInit
<1> QED BY <1>1, SlotsInvariant, SlotsStepTable, PTL DEF SlotsSpec, TableSpec, ImplementsTable

-----------------------------------------------------------------------------
(* The stack check.                                                        *)

\* Where the table has RAM, main_ram_range has the page.
LEMMA RamPages ==
  ASSUME SlotTypes, NEW ps \in Slot, NEW ss \in Slot, NEW page \in Page,
         Holds(machine, ps, ss, page).dev \in {"ram", "slot0_ram", "mapper_ram"}
  PROVE  page \in MainRamPages
<1> USE MachineFacts DEF Page, Slot
<1>1. machine.flatAt >= 0 => machine.segments = 0 /\ machine.topPages = 4
  BY SlotsAssumption DEF SlotTypes
<1>2. machine.slot0Ram >= 0 => machine.segments > 0 \/ machine.flatAt >= 0 \/ machine.topPages = 0
  BY SlotsAssumption DEF SlotTypes
<1>3. CASE HasMapperRam(machine)
  BY <1>3 DEF MainRamPages
<1>4. CASE ~HasMapperRam(machine) /\ ps = 0
  <2>1. page = machine.slot0Ram
    BY <1>4 DEF Holds, Dev
  <2> QED BY <1>1, <1>2, <1>4, <2>1 DEF MainRamPages, HasMapperRam, TopBase
<1>5. CASE ps \in 1..2
  BY <1>5 DEF Holds, Dev, Nothing
<1>6. CASE ~HasMapperRam(machine) /\ ps = 3
  <2>1. page >= 4 - machine.topPages
    BY <1>1, <1>6 DEF Holds, SlotThree, Dev, Nothing, HasFlatRam
  <2> QED BY <1>6, <2>1 DEF MainRamPages, TopBase
<1> QED BY <1>3, <1>4, <1>5, <1>6

LEMMA SelectedRam ==
  ASSUME SlotsInv, NEW page \in Page,
         Selected(page).dev \in {"ram", "slot0_ram", "mapper_ram"}
  PROVE  page \in MainRamPages
<1>1. primary[page] \in Slot /\ SubSlot(primary[page], page) \in Slot
  BY SlotsAssumption DEF SlotsInv, SlotTypes, SubSlot, Slot
<1> QED BY <1>1, RamPages DEF Selected, SlotsInv

LEMMA SlotsStepRam ==
  SlotsInv /\ RamIsInMainRange /\ [SlotsNext]_slotVars => RamIsInMainRange'
<1> SUFFICES ASSUME SlotsInv, RamIsInMainRange, [SlotsNext]_slotVars PROVE RamIsInMainRange'
  OBVIOUS
<1>1. [TableNext]_tableVars
  BY SlotsStepTable
<1>2. MainRamPages' = MainRamPages
  BY <1>1 DEF TableNext, tableVars, TableRead, TableWrite, TableReadTop, TableWriteTop, TableSelect,
     TableSelectSegment, TableReset, TableLoad, MainRamPages, TopBase
<1>3. ASSUME NEW page \in Page, NEW op, NEW d, Performs(op, page, d),
             d = Selected(page) \/ d = Written(Selected(page)) \/ d.dev = "register"
      PROVE  RamIsInMainRange'
  <2>1. access'.page = page /\ access'.to = d
    BY <1>3 DEF Performs
  <2>2. d.dev \in {"ram", "slot0_ram", "mapper_ram"} => d = Selected(page)
    BY <1>3 DEF Written, Ignored, Dev
  <2> QED BY <1>2, <2>1, <2>2, SelectedRam DEF RamIsInMainRange
<1>4. ASSUME NEW page \in Page, TableRead(page) \/ TableWrite(page) PROVE RamIsInMainRange'
  BY <1>3, <1>4 DEF TableRead, TableWrite
<1>5. ASSUME TableReadTop PROVE RamIsInMainRange'
  <2>1. 3 \in Page
    BY DEF Page
  <2> QED BY <1>3, <1>5, <2>1 DEF TableReadTop, Dev
<1>6. ASSUME NEW r \in Registers, TableWriteTop(r) PROVE RamIsInMainRange'
  <2>1. 3 \in Page
    BY DEF Page
  <2>2. CASE RegisterSlot # 0
    BY <1>3, <1>6, <2>1, <2>2 DEF TableWriteTop, Dev
  <2>3. CASE RegisterSlot = 0
    BY <1>3, <1>6, <2>1, <2>3 DEF TableWriteTop
  <2> QED BY <2>2, <2>3
<1>7. CASE access' = access
  BY <1>2, <1>7 DEF RamIsInMainRange
<1> QED BY <1>1, <1>4, <1>5, <1>6, <1>7
    DEF TableNext, tableVars, TableSelect, TableSelectSegment, TableReset, TableLoad

\* System RAM is only ever reached within main_ram_range, so that the stack check
\* of the debugger takes no stack in RAM for a crash.
THEOREM SlotsRamInMainRange == SlotsSpec => []RamIsInMainRange
<1>1. SlotsInit => RamIsInMainRange
  BY DEF SlotsInit, TableInit, RamIsInMainRange, Nothing, Dev
<1> QED BY <1>1, SlotsInvariant, SlotsStepRam, PTL DEF SlotsSpec
-----------------------------------------------------------------------------
(* The debugger's view. A segment past the end of the RAM is masked into   *)
(* it: the mask of the bits of n - 1 is never more than n - 1.             *)

LEMMA SlotPowers ==
  /\ Pow2(0) = 1 /\ Pow2(1) = 2 /\ Pow2(2) = 4 /\ Pow2(3) = 8 /\ Pow2(4) = 16
  /\ Pow2(5) = 32 /\ Pow2(6) = 64 /\ Pow2(7) = 128 /\ Pow2(8) = 256
<1>1. Pow2(0) = 1 /\ Pow2(1) = 2 /\ Pow2(2) = 4
  BY DEF Pow2
<1>2. Pow2(3) = 8 /\ Pow2(4) = 16 /\ Pow2(5) = 32
  BY DEF Pow2
<1>3. Pow2(6) = 64 /\ Pow2(7) = 128 /\ Pow2(8) = 256
  BY DEF Pow2
<1> QED BY <1>1, <1>2, <1>3

LEMMA BitCeilIs == \A n \in 0..256 : BitCeil(n) \in Nat \ {0}
<1> SUFFICES ASSUME NEW n \in 0..256 PROVE BitCeil(n) \in Nat \ {0}
  OBVIOUS
<1> DEFINE Covers(k) == n <= Pow2(k) /\ \A j \in 0..(k - 1) : n > Pow2(j)
<1>1. \E k \in 0..8 : Covers(k)
  <2>1. CASE n <= 1
    BY <2>1, SlotPowers
  <2>2. CASE n > 1 /\ n <= 2
    BY <2>2, SlotPowers
  <2>3. CASE n > 2 /\ n <= 4
    <3>1. \A j \in 0..1 : n > Pow2(j) BY <2>3, SlotPowers
    <3> QED BY <2>3, <3>1, SlotPowers
  <2>4. CASE n > 4 /\ n <= 8
    <3>1. \A j \in 0..2 : n > Pow2(j) BY <2>4, SlotPowers
    <3> QED BY <2>4, <3>1, SlotPowers
  <2>5. CASE n > 8 /\ n <= 16
    <3>1. \A j \in 0..3 : n > Pow2(j) BY <2>5, SlotPowers
    <3> QED BY <2>5, <3>1, SlotPowers
  <2>6. CASE n > 16 /\ n <= 32
    <3>1. \A j \in 0..4 : n > Pow2(j) BY <2>6, SlotPowers
    <3> QED BY <2>6, <3>1, SlotPowers
  <2>7. CASE n > 32 /\ n <= 64
    <3>1. \A j \in 0..5 : n > Pow2(j) BY <2>7, SlotPowers
    <3> QED BY <2>7, <3>1, SlotPowers
  <2>8. CASE n > 64 /\ n <= 128
    <3>1. \A j \in 0..6 : n > Pow2(j) BY <2>8, SlotPowers
    <3> QED BY <2>8, <3>1, SlotPowers
  <2>9. CASE n > 128
    <3>1. \A j \in 0..7 : n > Pow2(j) BY <2>9, SlotPowers
    <3> QED BY <2>9, <3>1, SlotPowers
  <2> QED BY <2>1, <2>2, <2>3, <2>4, <2>5, <2>6, <2>7, <2>8, <2>9
<1>2. (CHOOSE k \in 0..8 : Covers(k)) \in 0..8
  BY <1>1
<1>3. \A k \in 0..8 : Pow2(k) \in Nat \ {0}
  BY SlotPowers
<1>4. BitCeil(n) = Pow2(CHOOSE k \in 0..8 : Covers(k))
  BY DEF BitCeil
<1> HIDE DEF Covers
<1> QED BY <1>2, <1>3, <1>4

\* A number is its low bit and the double of what is above it.
LEMMA Halves ==
  ASSUME NEW b \in Nat, NEW p \in {1, 2, 4, 8, 16, 32, 64, 128}
  PROVE  /\ b \div p \in Nat /\ b \div (2 * p) \in Nat
         /\ b \div p = 2 * (b \div (2 * p)) + ((b \div p) % 2)
         /\ (b \div p) % 2 \in {0, 1}
<1>1. CASE p = 1 BY <1>1
<1>2. CASE p = 2 BY <1>2
<1>3. CASE p = 4 BY <1>3
<1>4. CASE p = 8 BY <1>4
<1>5. CASE p = 16 BY <1>5
<1>6. CASE p = 32 BY <1>6
<1>7. CASE p = 64 BY <1>7
<1>8. CASE p = 128 BY <1>8
<1> QED BY <1>1, <1>2, <1>3, <1>4, <1>5, <1>6, <1>7, <1>8

\* And(a, b) has no bit that b does not have.
LEMMA AndIsMask ==
  ASSUME NEW a, NEW b \in Nat
  PROVE  And(a, b) \in Nat /\ And(a, b) <= b
<1> DEFINE q(p) == b \div p
           part(k) == BitValue(Bit(a, k) /\ Bit(b, k), k)
<1>1. /\ q(1) = b /\ q(1) = 2 * q(2) + (q(1) % 2) /\ q(2) = 2 * q(4) + (q(2) % 2)
      /\ q(4) = 2 * q(8) + (q(4) % 2) /\ q(8) = 2 * q(16) + (q(8) % 2)
      /\ q(16) = 2 * q(32) + (q(16) % 2) /\ q(32) = 2 * q(64) + (q(32) % 2)
      /\ q(64) = 2 * q(128) + (q(64) % 2) /\ q(128) = 2 * q(256) + (q(128) % 2)
  BY Halves
<1>2. /\ q(1) \in Nat /\ q(2) \in Nat /\ q(4) \in Nat /\ q(8) \in Nat /\ q(16) \in Nat
      /\ q(32) \in Nat /\ q(64) \in Nat /\ q(128) \in Nat /\ q(256) \in Nat
  BY Halves
<1>3. /\ part(0) \in 0..(q(1) % 2) /\ part(1) \in 0..(2 * (q(2) % 2))
      /\ part(2) \in 0..(4 * (q(4) % 2)) /\ part(3) \in 0..(8 * (q(8) % 2))
  <2>1. \A k \in {0, 1, 2, 3} : part(k) = IF Bit(a, k) /\ Bit(b, k) THEN Pow2(k) ELSE 0
    BY DEF BitValue
  <2>2. /\ Bit(b, 0) <=> q(1) % 2 = 1
        /\ Bit(b, 1) <=> q(2) % 2 = 1
        /\ Bit(b, 2) <=> q(4) % 2 = 1
        /\ Bit(b, 3) <=> q(8) % 2 = 1
    BY SlotPowers DEF Bit
  <2>3. q(1) % 2 \in {0, 1} /\ q(2) % 2 \in {0, 1} /\ q(4) % 2 \in {0, 1} /\ q(8) % 2 \in {0, 1}
    BY <1>2
  <2> HIDE DEF q, part
  <2> QED BY <2>1, <2>2, <2>3, SlotPowers
<1>4. /\ part(4) \in 0..(16 * (q(16) % 2)) /\ part(5) \in 0..(32 * (q(32) % 2))
      /\ part(6) \in 0..(64 * (q(64) % 2)) /\ part(7) \in 0..(128 * (q(128) % 2))
  <2>1. \A k \in {4, 5, 6, 7} : part(k) = IF Bit(a, k) /\ Bit(b, k) THEN Pow2(k) ELSE 0
    BY DEF BitValue
  <2>2. /\ Bit(b, 4) <=> q(16) % 2 = 1
        /\ Bit(b, 5) <=> q(32) % 2 = 1
        /\ Bit(b, 6) <=> q(64) % 2 = 1
        /\ Bit(b, 7) <=> q(128) % 2 = 1
    BY SlotPowers DEF Bit
  <2>3. /\ q(16) % 2 \in {0, 1} /\ q(32) % 2 \in {0, 1}
        /\ q(64) % 2 \in {0, 1} /\ q(128) % 2 \in {0, 1}
    BY <1>2
  <2> HIDE DEF q, part
  <2> QED BY <2>1, <2>2, <2>3, SlotPowers
<1>5. And(a, b) = part(0) + part(1) + part(2) + part(3) + part(4) + part(5) + part(6) + part(7)
  BY DEF And
<1> HIDE DEF q, part
<1> QED BY <1>1, <1>2, <1>3, <1>4, <1>5

\* A port value selects a segment the mapper has.
LEMMA SegmentInRam ==
  ASSUME NEW n \in 1..256, NEW v \in Nat
  PROVE  Segment(n, v) < n
<1> DEFINE masked == v % BitCeil(n)
<1>1. masked \in Nat
  BY BitCeilIs
<1>2. And(masked, n - 1) \in Nat /\ And(masked, n - 1) <= n - 1
  BY AndIsMask
<1> QED BY <1>1, <1>2 DEF Segment

SegmentType == segs \in [Page -> Nat]

LEMMA SegmentsInit == SlotsInit => SegmentType
BY DEF SlotsInit, TableInit, SegmentType, Zero

LEMMA SegmentsStep ==
  ASSUME SlotsInv, SegmentType, [SlotsNext]_slotVars
  PROVE  SegmentType'
<1>1. CASE UNCHANGED segs
  BY <1>1 DEF SegmentType
<1>2. ASSUME NEW page \in Page, NEW v \in SegmentBytes, SelectSegment(page, v)
      PROVE  SegmentType'
  <2>0. machine.segments \in 0..256 /\ v \in Nat
    BY SlotsAssumption DEF SlotsInv, SlotTypes, Byte
  <2>1. BitCeil(machine.segments) \in Nat \ {0} /\ v \in Nat
    BY <2>0, BitCeilIs
  <2>2. v % BitCeil(machine.segments) \in Nat
    BY <2>1
  <2> QED BY <1>2, <2>2 DEF SelectSegment, SegmentType
<1>3. CASE ResetSlots
  BY <1>3 DEF ResetSlots, SegmentType, Zero
<1>4. ASSUME NEW r, NEW s, NEW v \in SegmentBytes, LoadSlots(r, s, v)
      PROVE  SegmentType'
  BY <1>4, SlotsAssumption DEF LoadSlots, SegmentType, Byte
<1>5. ASSUME NEW page, Read(page) \/ Write(page) PROVE UNCHANGED segs
  BY <1>5 DEF Read, Write
<1>6. ASSUME NEW r, WriteTop(r) \/ SelectSlots(r) PROVE UNCHANGED segs
  BY <1>6 DEF WriteTop, WriteRegister, Write, SelectSlots
<1> QED BY <1>1, <1>2, <1>3, <1>4, <1>5, <1>6 DEF SlotsNext, slotVars, ReadTop

LEMMA ViewIsRead ==
  ASSUME SlotsInv, SegmentType
  PROVE  SlotViewIsRead
<1> SUFFICES ASSUME NEW p \in Page
             PROVE  LET to == ReadBy(ReadLeaf(p), p) IN
                    /\ primary[p] = 3 /\ HasFlatRam(machine) =>
                         to.dev = DescribedSlotThree(secondary[3][p], p)
                    /\ to.dev = "mapper_ram" =>
                         to.at = DescribedSegment(p) /\ to.at < machine.segments
  BY DEF SlotViewIsRead
<1>1. ASSUME primary[p] = 3, HasFlatRam(machine)
      PROVE  ReadBy(ReadLeaf(p), p).dev = DescribedSlotThree(secondary[3][p], p)
  <2>1. ReadLeaf(p) = Leaf(SlotThreeReadDataDriven(p, secondary[3][p]), 0)
    BY <1>1 DEF ReadLeaf, SlotThreeReadLeaf
  <2> QED BY <2>1 DEF SlotThreeReadDataDriven, DescribedSlotThree, ReadBy, Leaf, Dev
<1>2. ASSUME ReadBy(ReadLeaf(p), p).dev = "mapper_ram"
      PROVE  /\ ReadBy(ReadLeaf(p), p).at = DescribedSegment(p)
             /\ ReadBy(ReadLeaf(p), p).at < machine.segments
  <2>1. ReadLeaf(p).routine = "ram_mapper"
    <3>1. ReadLeaf(p) \in Leaves
      BY RebuiltType DEF SlotsInv, SlotTypes, Rebuilt, CacheType
    <3> QED BY <1>2, <3>1 DEF ReadBy, Dev, Nothing, Leaves, Routines
  <2>2. HasMapperRam(machine)
    <3>1. ReadLeaf(p) = Leaf(SlotThreeReadLeaf(p), 0)
      BY <2>1 DEF ReadLeaf, Leaf, CartLeaf
    <3>2. SlotThreeReadLeaf(p) = "ram_mapper"
      BY <2>1, <3>1 DEF Leaf
    <3> QED BY <3>2 DEF SlotThreeReadLeaf, SlotThreeReadDataDriven, SlotThreeReadLegacy
  <2>3. machine.segments \in 1..256 /\ segs[p] \in Nat
    BY <2>2, SlotsAssumption DEF HasMapperRam, SlotsInv, SlotTypes, SegmentType
  <2>4. ReadBy(ReadLeaf(p), p).at = Segment(machine.segments, segs[p])
    BY <2>1 DEF ReadBy, MapperRam, Dev
  <2> QED BY <2>3, <2>4, SegmentInRam DEF DescribedSegment
<1> QED BY <1>1, <1>2

\* The slot view of the debugger names what a read of the page returns, and the
\* segment it names is one the RAM mapper has, whatever was written to its ports.
THEOREM SlotsViewIsRead == SlotsSpec => []SlotViewIsRead
<1>1. SlotsInv /\ SegmentType => SlotViewIsRead
  BY ViewIsRead
<1>2. SlotsInv /\ SegmentType /\ [SlotsNext]_slotVars => SegmentType'
  BY SegmentsStep
<1> QED BY <1>1, <1>2, SegmentsInit, SlotsInvariant, PTL DEF SlotsSpec

-----------------------------------------------------------------------------
(* The FM-PAC: its unlock flag is a copy of what the magic bytes say, and  *)
(* a snapshot, which does not hold the flag, decodes to what it saw.       *)

FmType ==
  fm = [bank |-> fm.bank, enable |-> fm.enable, lo |-> fm.lo, hi |-> fm.hi,
        unlocked |-> fm.unlocked]

\* What the window shows for the registers r and the cell c.
FmShown(place, r, c) ==
  CASE place = "enable" -> FmSrc("reg", r.enable)
    [] place = "bank"   -> FmSrc("reg", r.bank)
    [] ~IsMagic(r.lo, r.hi) /\ place \notin {"enable", "bank"} -> FmSrc("rom", r.bank)
    [] IsMagic(r.lo, r.hi) /\ place = "sram"     -> FmSrc("sram", c)
    [] IsMagic(r.lo, r.hi) /\ place = "magic_lo" -> FmSrc("reg", r.lo)
    [] IsMagic(r.lo, r.hi) /\ place = "magic_hi" -> FmSrc("reg", r.hi)
    [] OTHER            -> FmSrc("open", 255)

FmSnapShows ==
  fmSnap.saved =>
    /\ Bit(fmSnap.enable, 4) => ~IsMagic(fmSnap.lo, fmSnap.hi)
    /\ \A p \in FmPlaces : fmSnap.seen[p] = FmShown(p, fmSnap, fmSnap.sram)

FmInv == FmType /\ FmLockFollowsMagic /\ FmSnapShows

LEMMA FmViewIsShown ==
  ASSUME FmLockFollowsMagic, NEW p
  PROVE  FmView(p) = FmShown(p, fm, fmSram)
BY DEF FmLockFollowsMagic, FmView, FmShown, IsMagic

\* Without bit 4 of the byte written, the enable register has none.
LEMMA EnableKeepsBit4 ==
  ASSUME NEW v, ~Bit(v, 4)
  PROVE  ~Bit(And(v, 17), 4)
<1>1. /\ ~Bit(17, 1) /\ ~Bit(17, 2) /\ ~Bit(17, 3)
      /\ ~Bit(17, 5) /\ ~Bit(17, 6) /\ ~Bit(17, 7)
  BY Powers DEF Bit
<1>2. And(v, 17) = BitValue(Bit(v, 0) /\ Bit(17, 0), 0) + 0 + 0 + 0 + 0 + 0 + 0 + 0
  BY <1>1 DEF And, BitValue
<1>3. And(v, 17) \in {0, 1}
  BY <1>2, Powers DEF BitValue
<1> QED BY <1>3, Powers DEF Bit

\* The registers after the write protection cleared the magic bytes, and after a load.
LEMMA FmCleared ==
  ASSUME FmType, NEW e
  PROVE  [fm EXCEPT !.enable = e, !.lo = 0, !.hi = 0]
           = [bank |-> fm.bank, enable |-> e, lo |-> 0, hi |-> 0, unlocked |-> fm.unlocked]
<1>1. PICK r1 : r1 = [fm EXCEPT !.enable = e]
  OBVIOUS
<1>2. r1 = [bank |-> fm.bank, enable |-> e, lo |-> fm.lo, hi |-> fm.hi, unlocked |-> fm.unlocked]
  BY <1>1 DEF FmType
<1>3. PICK r2 : r2 = [r1 EXCEPT !.lo = 0]
  OBVIOUS
<1>4. r2 = [bank |-> fm.bank, enable |-> e, lo |-> 0, hi |-> fm.hi, unlocked |-> fm.unlocked]
  BY <1>2, <1>3
<1>5. PICK r3 : r3 = [r2 EXCEPT !.hi = 0]
  OBVIOUS
<1>6. r3 = [bank |-> fm.bank, enable |-> e, lo |-> 0, hi |-> 0, unlocked |-> fm.unlocked]
  BY <1>4, <1>5
<1> QED BY <1>1, <1>3, <1>5, <1>6, Zenon

LEMMA FmReloaded ==
  ASSUME FmType
  PROVE  [fm EXCEPT !.bank = fmSnap.bank, !.enable = fmSnap.enable, !.lo = fmSnap.lo,
                     !.hi = fmSnap.hi]
           = [bank |-> fmSnap.bank, enable |-> fmSnap.enable, lo |-> fmSnap.lo, hi |-> fmSnap.hi,
              unlocked |-> fm.unlocked]
<1>1. PICK b, e, l, h : b = fmSnap.bank /\ e = fmSnap.enable /\ l = fmSnap.lo /\ h = fmSnap.hi
  OBVIOUS
<1>2. PICK r1 : r1 = [fm EXCEPT !.bank = b]
  OBVIOUS
<1>3. r1 = [bank |-> b, enable |-> fm.enable, lo |-> fm.lo, hi |-> fm.hi, unlocked |-> fm.unlocked]
  BY <1>2 DEF FmType
<1>4. PICK r2 : r2 = [r1 EXCEPT !.enable = e]
  OBVIOUS
<1>5. r2 = [bank |-> b, enable |-> e, lo |-> fm.lo, hi |-> fm.hi, unlocked |-> fm.unlocked]
  BY <1>3, <1>4
<1>6. PICK r3 : r3 = [r2 EXCEPT !.lo = l]
  OBVIOUS
<1>7. r3 = [bank |-> b, enable |-> e, lo |-> l, hi |-> fm.hi, unlocked |-> fm.unlocked]
  BY <1>5, <1>6
<1>8. PICK r4 : r4 = [r3 EXCEPT !.hi = h]
  OBVIOUS
<1>9. r4 = [bank |-> b, enable |-> e, lo |-> l, hi |-> h, unlocked |-> fm.unlocked]
  BY <1>7, <1>8
<1>10. [fm EXCEPT !.bank = b, !.enable = e, !.lo = l, !.hi = h] = r4
  BY <1>2, <1>4, <1>6, <1>8, Zenon
<1> QED BY <1>1, <1>9, <1>10, Zenon

LEMMA PowerOnLocked ==
  ASSUME fm = PowerOnFm PROVE FmType /\ FmLockFollowsMagic
<1>1. fm.unlocked = FALSE /\ fm.lo = 0 /\ fm.hi = 0 /\ fm.enable = 0 /\ FmType
  BY DEF PowerOnFm, FmType
<1>2. IsMagic(0, 0) = FALSE /\ ~Protected
  BY <1>1, NoBitOfZero DEF IsMagic, Protected
<1> QED BY <1>1, <1>2 DEF FmLockFollowsMagic

LEMMA FmInitInv == FmInit => FmInv
BY PowerOnLocked DEF FmInit, NoFmSnap, FmInv, FmSnapShows

\* A step that derives the flag again.
LEMMA FmChecked ==
  ASSUME NEW r, r = [bank |-> r.bank, enable |-> r.enable, lo |-> r.lo, hi |-> r.hi,
                     unlocked |-> r.unlocked],
         fm' = Checked(r), Bit(r.enable, 4) => ~IsMagic(r.lo, r.hi)
  PROVE  /\ FmType' /\ FmLockFollowsMagic'
         /\ fm'.bank = r.bank /\ fm'.enable = r.enable /\ fm'.lo = r.lo /\ fm'.hi = r.hi
<1>1. fm' = [bank |-> r.bank, enable |-> r.enable, lo |-> r.lo, hi |-> r.hi,
             unlocked |-> IsMagic(r.lo, r.hi)]
  BY DEF Checked
<1> QED BY <1>1 DEF FmType, FmLockFollowsMagic, Protected

LEMMA FmStepInv == FmInv /\ [FmNext]_fmVars => FmInv'
<1> SUFFICES ASSUME FmInv, [FmNext]_fmVars PROVE FmInv'
  OBVIOUS
<1> USE DEF FmInv
<1>1. ASSUME fmSnap' = fmSnap PROVE FmSnapShows'
  BY <1>1 DEF FmSnapShows, FmShown
<1>2. ASSUME UNCHANGED <<fm, fmSnap>> PROVE FmInv'
  BY <1>1, <1>2 DEF FmType, FmLockFollowsMagic, Protected
<1>3. ASSUME NEW v, FmWriteMagicLo(v) \/ FmWriteMagicHi(v) PROVE FmInv'
  <2>1. CASE FmWriteMagicLo(v)
    <3>1. [fm EXCEPT !.lo = v] = [bank |-> fm.bank, enable |-> fm.enable, lo |-> v, hi |-> fm.hi,
                                  unlocked |-> fm.unlocked]
      BY DEF FmType
    <3> QED BY <1>1, <2>1, <3>1, FmChecked DEF FmWriteMagicLo, Protected
  <2>2. CASE FmWriteMagicHi(v)
    <3>1. [fm EXCEPT !.hi = v] = [bank |-> fm.bank, enable |-> fm.enable, lo |-> fm.lo, hi |-> v,
                                  unlocked |-> fm.unlocked]
      BY DEF FmType
    <3> QED BY <1>1, <2>2, <3>1, FmChecked DEF FmWriteMagicHi, Protected
  <2> QED BY <1>3, <2>1, <2>2
<1>4. ASSUME NEW v, FmWriteEnable(v) PROVE FmInv'
  <2>1. CASE Bit(v, 4)
    <3> DEFINE r == [fm EXCEPT !.enable = And(v, 17), !.lo = 0, !.hi = 0]
    <3>1. r = [bank |-> fm.bank, enable |-> And(v, 17), lo |-> 0, hi |-> 0,
               unlocked |-> fm.unlocked]
      BY FmCleared DEF FmInv
    <3>2. fm' = Checked(r) /\ fmSnap' = fmSnap
      BY <1>4, <2>1 DEF FmWriteEnable
    <3>3. ~IsMagic(r.lo, r.hi)
      BY <3>1 DEF IsMagic
    <3> HIDE DEF r
    <3> QED BY <1>1, <3>1, <3>2, <3>3, FmChecked
  <2>2. CASE ~Bit(v, 4)
    <3>1. fm' = [bank |-> fm.bank, enable |-> And(v, 17), lo |-> fm.lo, hi |-> fm.hi,
                 unlocked |-> fm.unlocked] /\ fmSnap' = fmSnap
      BY <1>4, <2>2 DEF FmWriteEnable, FmType
    <3>2. ~Bit(And(v, 17), 4)
      BY <2>2, EnableKeepsBit4
    <3> QED BY <1>1, <3>1, <3>2 DEF FmType, FmLockFollowsMagic, Protected
  <2> QED BY <2>1, <2>2
<1>5. ASSUME NEW v, FmWriteBank(v) PROVE FmInv'
  <2>1. fm' = [bank |-> v % 4, enable |-> fm.enable, lo |-> fm.lo, hi |-> fm.hi,
               unlocked |-> fm.unlocked] /\ fmSnap' = fmSnap
    BY <1>5 DEF FmWriteBank, FmType
  <2> QED BY <1>1, <2>1 DEF FmType, FmLockFollowsMagic, Protected
<1>6. ASSUME NEW d, FmWriteSram(d) \/ FmWriteChip(d) \/ FmWritePort(d) PROVE FmInv'
  BY <1>2, <1>6 DEF FmWriteSram, FmWriteChip, FmWritePort
<1>7. ASSUME FmReset PROVE FmInv'
  <2>1. fm' = PowerOnFm /\ fmSnap' = fmSnap
    BY <1>7 DEF FmReset
  <2>2. (fm = PowerOnFm)' => FmType' /\ FmLockFollowsMagic'
    BY PowerOnLocked, PTL
  <2> QED BY <1>1, <2>1, <2>2
<1>8. ASSUME FmSave PROVE FmInv'
  <2>1. UNCHANGED <<fm, fmSram>> /\ FmType' /\ FmLockFollowsMagic'
    BY <1>8 DEF FmSave, FmType, FmLockFollowsMagic, Protected
  <2>2. /\ fmSnap'.bank = fm.bank /\ fmSnap'.enable = fm.enable /\ fmSnap'.lo = fm.lo
        /\ fmSnap'.hi = fm.hi /\ fmSnap'.sram = fmSram
        /\ \A p \in FmPlaces : fmSnap'.seen[p] = FmShown(p, fm, fmSram)
    BY <1>8, FmViewIsShown DEF FmSave
  <2>3. \A p : FmShown(p, fmSnap', fmSnap'.sram) = FmShown(p, fm, fmSram)
    BY <2>2 DEF FmShown
  <2>4. Bit(fmSnap'.enable, 4) => ~IsMagic(fmSnap'.lo, fmSnap'.hi)
    BY <2>2 DEF FmLockFollowsMagic, Protected
  <2>5. \A p : FmShown(p, fmSnap, fmSnap.sram)' = FmShown(p, fmSnap', fmSnap'.sram)
    BY DEF FmShown
  <2> QED BY <2>1, <2>2, <2>3, <2>4, <2>5 DEF FmSnapShows
<1>9. ASSUME FmLoad PROVE FmInv'
  <2> DEFINE r == [fm EXCEPT !.bank = fmSnap.bank, !.enable = fmSnap.enable,
                             !.lo = fmSnap.lo, !.hi = fmSnap.hi]
  <2>1. r = [bank |-> fmSnap.bank, enable |-> fmSnap.enable, lo |-> fmSnap.lo, hi |-> fmSnap.hi,
             unlocked |-> fm.unlocked]
    BY FmReloaded, Zenon DEF FmInv
  <2>2. fm' = Checked(r) /\ fmSnap' = fmSnap /\ fmSnap.saved
    BY <1>9 DEF FmLoad, FmRestored
  <2> HIDE DEF r
  <2> QED BY <1>1, <2>1, <2>2, FmChecked DEF FmSnapShows
<1>10. CASE UNCHANGED fmVars
  BY <1>2, <1>10 DEF fmVars
<1> QED BY <1>3, <1>4, <1>5, <1>6, <1>7, <1>8, <1>9, <1>10 DEF FmNext

LEMMA FmInvariant == FmSpec => []FmInv
BY FmInitInv, FmStepInv, PTL DEF FmSpec

LEMMA FmLoadShows ==
  ASSUME FmInv, FmLoad
  PROVE  \A p \in FmPlaces : FmView(p)' = fmSnap.seen[p]
<1> SUFFICES ASSUME NEW p \in FmPlaces PROVE FmView(p)' = fmSnap.seen[p]
  OBVIOUS
<1>1. fmSnap.saved /\ fmSram' = fmSnap.sram
  BY DEF FmLoad
<1>2. fm' = [bank |-> fmSnap.bank, enable |-> fmSnap.enable, lo |-> fmSnap.lo, hi |-> fmSnap.hi,
             unlocked |-> IsMagic(fmSnap.lo, fmSnap.hi)]
  BY DEF FmLoad, FmRestored, Checked, FmInv, FmType
<1>3. FmView(p)' = FmShown(p, fmSnap, fmSnap.sram)
  BY <1>1, <1>2 DEF FmView, FmShown, IsMagic
<1> QED BY <1>1, <1>3 DEF FmInv, FmSnapShows

-----------------------------------------------------------------------------
(* The composition.                                                        *)

LEMMA BusIsParts == BusSpec => MapperSpec /\ SlotsSpec /\ FmSpec
<1>1. BusInit => MapperInit /\ SlotsInit /\ FmInit
  BY DEF BusInit, RestingMapper, RestingSlots
<1>2. [BusNext]_busVars => [MapperNext]_mapperVars
  BY DEF BusNext, busVars
<1>3. [BusNext]_busVars => [SlotsNext]_slotVars
  BY DEF BusNext, busVars
<1>4. [BusNext]_busVars => [FmNext]_fmVars
  BY DEF BusNext, busVars
<1> QED BY <1>1, <1>2, <1>3, <1>4, PTL DEF BusSpec, MapperSpec, SlotsSpec, FmSpec

\* The copies of every cartridge, the routing cache's refinement and the stack check
\* hold of the memory side put together.
THEOREM BusKeepsParts ==
  BusSpec => []CopiesFollowBanks /\ []RamIsInMainRange /\ ImplementsTable
BY BusIsParts, MapperCopiesFollowBanks, SlotsRamInMainRange, SlotsImplementTable, PTL

\* What the debugger reports of a cartridge's windows, of the slots, of the RAM
\* mapper's segments and of the FM-PAC is what a read returns.
THEOREM BusInfoIsRead == BusSpec => []SlotInfoIsRead
<1>1. FmInv => FmDescribed = FmView("sram")
  <2> SUFFICES ASSUME FmInv PROVE FmDescribed = FmView("sram")
    OBVIOUS
  <2>1. CASE fm.unlocked
    <3>1. FmView("sram") = FmSrc("sram", fmSram)
      BY <2>1, Zenon DEF FmView
    <3> QED BY <2>1, <3>1 DEF FmDescribed
  <2>2. CASE ~fm.unlocked
    <3>1. FmView("sram") = FmSrc("rom", fm.bank)
      BY <2>2, Zenon DEF FmView
    <3> QED BY <2>2, <3>1 DEF FmDescribed
  <2> QED BY <2>1, <2>2
<1>2. DescriptionIsRead /\ SlotViewIsRead /\ FmInv => SlotInfoIsRead
  BY <1>1 DEF SlotInfoIsRead
<1> QED BY <1>2, BusIsParts, MapperDescriptionIsRead, SlotsViewIsRead, FmInvariant, PTL

\* Loading a save state shows at every address of a cartridge what was there when it
\* was saved: what the snapshot leaves out is derived from what it holds.
THEOREM BusLoadShowsSaved == BusSpec => LoadShowsWhatWasSaved
<1>1. FmInv => [FmLoad => \A p \in FmPlaces : FmView(p)' = fmSnap.seen[p]]_fmVars
  BY FmLoadShows
<1> QED BY <1>1, BusIsParts, MapperLoadShowsSaved, FmInvariant, PTL
        DEF LoadShowsWhatWasSaved, FmLoadShowsSaved

\* A program's write reaches battery-backed or cartridge memory only where a read of
\* the address shows it.
THEOREM BusStoresWhereShown == BusSpec => StoresOnlyWhereShown
<1>1. [FmNext]_fmVars => [fmSram' # fmSram /\ ~FmLoad => FmView("sram").src = "sram"]_fmVars
  <2> SUFFICES ASSUME FmNext, fmSram' # fmSram, ~FmLoad PROVE FmView("sram").src = "sram"
    BY DEF fmVars
  <2>1. PICK d \in FmData : FmWriteSram(d)
    BY DEF FmNext, FmWriteMagicLo, FmWriteMagicHi, FmWriteEnable, FmWriteBank, FmWriteChip,
       FmWritePort, FmReset, FmSave
  <2>2. FmView("sram") = FmSrc("sram", fmSram)
    <3>1. fm.unlocked
      BY <2>1 DEF FmWriteSram
    <3> QED BY <3>1, Zenon DEF FmView
  <2> QED BY <2>2 DEF FmSrc
<1> QED BY <1>1, BusIsParts, MapperStoresWhereShown, PTL
        DEF StoresOnlyWhereShown, FmSpec
=============================================================================
