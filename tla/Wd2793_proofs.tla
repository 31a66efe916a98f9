--------------------------- MODULE Wd2793_proofs ---------------------------
(* What TLAPS proves of Wd2793, for any drives, disks and sizes.            *)
EXTENDS Wd2793, TLAPS

(***************************************************************************)
(* The inductive invariant. What holds of the controller has to hold of    *)
(* the saved one too, with the disks the save names in place of the disks   *)
(* in the drives: LoadState finds the same disks there, unchanged.          *)
(***************************************************************************)
Agrees(c) == (c.drq <=> c.mode # "IDLE") /\ (c.drq <=> c.busy) /\ (c.drq <=> c.left > 0)

\* The transfer of c was accepted for disk d at version v.
AcceptedFor(c, o, d, v) == c.mode # "IDLE" => d # NoDisk /\ o.disk = d /\ o.version = v

\* It writes the sectors of d that the registers of c address.
WritesAddressed(c, o, d, s) ==
  /\ c.mode = "WRITE" => d \notin Protected /\ o.sectors = SectorAt(d, s, c.track, c.sector)
  /\ c.mode = "WRITE_TRACK" => d \notin Protected /\ o.sectors = TrackAt(d, s, c.track)

OnSavedDrive ==
  IF saved.selected = NoDrive THEN <<NoDisk, 0>> ELSE saved.disks[saved.selected]

SavedAgrees == Agrees(saved.chip)
SavedMedium == AcceptedFor(saved.chip, saved.owner, OnSavedDrive[1], OnSavedDrive[2])
SavedWrites == WritesAddressed(saved.chip, saved.owner, OnSavedDrive[1], saved.side)
SavedChanges ==
  \A d \in Drives : saved.changed[d] \/ saved.seen[d] = saved.disks[d][1]

HandInv == Handshake /\ SavedAgrees
MediumInv ==
  AcceptedFor(chip, owner, InDrive, Identity(InDrive)[2]) /\ SavedMedium
WritesInv == WritesAddressed(chip, owner, InDrive, side) /\ SavedWrites
ChangesInv == ChangeReported /\ SavedChanges
----------------------------------------------------------------------------
(* Type correctness.                                                        *)

LEMMA IdleType == ASSUME NEW c \in ChipType PROVE Idle(c) \in ChipType /\ EndCommand(c) \in ChipType
BY DEF ChipType, Idle, EndCommand

LEMMA SectorType ==
  ASSUME NEW d \in Disks, NEW s \in {0, 1}, NEW t \in Byte, NEW n \in Int
  PROVE  SectorAt(d, s, t, n) \subseteq Mounts \X Int
BY FloppyAssumption DEF SectorAt, Mounts

LEMMA TrackType ==
  ASSUME NEW d \in Disks, NEW s \in {0, 1}, NEW t \in Byte
  PROVE  TrackAt(d, s, t) \subseteq Mounts \X Int
<1>1. \A n \in 1 .. Spt[d] : SectorAt(d, s, t, n) \subseteq Mounts \X Int
  <2>1. 1 .. Spt[d] \subseteq Int
    BY FloppyAssumption
  <2> QED BY <2>1, SectorType
<1> QED BY <1>1 DEF TrackAt

LEMMA InDriveType == TypeOK => InDrive \in Mounts
BY DEF TypeOK, InDrive, Mounts

\* What a command does to the chip and the history.
LEMMA AcceptType ==
  ASSUME TypeOK, HasDisk, NEW mode \in {"READ", "WRITE", "WRITE_TRACK"},
         NEW left \in Nat, NEW sectors \in SUBSET (Mounts \X Int),
         Accept(mode, left, sectors)
  PROVE  chip' \in ChipType /\ owner' \in OwnerType
<1>1. InDrive \in Disks
  BY InDriveType DEF HasDisk, Mounts
<1>2. version[InDrive] \in 0 .. MaxWrites
  BY <1>1 DEF TypeOK
<1>3. chip' \in ChipType
  BY DEF Accept, TypeOK, ChipType
<1>4. owner' \in OwnerType
  BY <1>1, <1>2 DEF Accept, OwnerType, Mounts
<1> QED BY <1>3, <1>4

LEMMA NoTransferType == NoTransfer \in OwnerType
BY FloppyAssumption DEF NoTransfer, OwnerType, Mounts

LEMMA AddressedType == TypeOK /\ HasDisk => Addressed \in SUBSET (Mounts \X Int)
<1> SUFFICES ASSUME TypeOK, HasDisk PROVE Addressed \in SUBSET (Mounts \X Int)
  OBVIOUS
<1>1. InDrive \in Disks
  BY InDriveType DEF HasDisk, Mounts
<1>2. chip.track \in Byte /\ chip.sector \in Int
  BY FloppyAssumption DEF TypeOK, ChipType, Byte
<1> QED BY <1>1, <1>2, SectorType DEF Addressed, TypeOK

LEMMA CommandType == TypeOK /\ SetCommand => chip' \in ChipType /\ owner' \in OwnerType
<1> SUFFICES ASSUME TypeOK, SetCommand PROVE chip' \in ChipType /\ owner' \in OwnerType
  OBVIOUS
<1> USE FloppyAssumption
<1>0. chip \in ChipType
  BY DEF TypeOK
<1>1. CASE Refuse \/ ReadTrack \/ ForceInterrupt
  <2>1. EndCommand(chip) \in ChipType
    BY <1>0, IdleType
  <2>2. \A i \in BOOLEAN : [Idle(chip) EXCEPT !.intrq = i] \in ChipType
    BY <1>0, IdleType DEF ChipType
  <2> QED BY <1>1, <2>1, <2>2, NoTransferType DEF Refuse, ReadTrack, ForceInterrupt
<1>2. CASE HasDisk /\ Accept("READ", SectorSize, Addressed)
  BY <1>2, AcceptType, AddressedType
<1>3. CASE HasDisk /\ Accept("READ", IdSize, NoSector)
  <2>1. NoSector \in SUBSET (Mounts \X Int)
    BY DEF NoSector, Mounts
  <2> QED BY <1>3, <2>1, AcceptType
<1>4. CASE HasDisk /\ Accept("WRITE", SectorSize, Addressed)
  BY <1>4, AcceptType, AddressedType
<1>5. CASE HasDisk /\ Accept("WRITE_TRACK", TrackBytes, TrackAt(InDrive, side, chip.track))
  <2>1. InDrive \in Disks
    BY <1>5, InDriveType DEF HasDisk, Mounts
  <2>2. TrackAt(InDrive, side, chip.track) \in SUBSET (Mounts \X Int)
    BY <1>0, <2>1, TrackType DEF TypeOK, ChipType
  <2> QED BY <1>5, <2>2, AcceptType
<1> QED BY <1>1, <1>2, <1>3, <1>4, <1>5
        DEF SetCommand, ReadSector, ReadAddress, WriteSector, WriteTrack, AcceptsWrites

LEMMA StepsType == ASSUME NEW t \in Byte PROVE Steps(t) \subseteq Byte
BY FloppyAssumption DEF Steps, Byte

\* A byte is taken only of a transfer that has bytes left.
LEMMA TakeByteType ==
  TypeOK /\ Handshake /\ chip.mode # "IDLE" /\ TakeByte =>
    chip' \in ChipType /\ owner' \in OwnerType
<1> SUFFICES ASSUME TypeOK, Handshake, chip.mode # "IDLE", TakeByte, chip.left # 1
             PROVE  chip' \in ChipType
  BY IdleType, NoTransferType DEF TakeByte, TypeOK
<1>1. chip.left \in Nat /\ chip.left > 0
  BY DEF TypeOK, ChipType, Handshake
<1> QED BY <1>1 DEF TakeByte, TypeOK, ChipType

LEMMA SnapshotType == TypeOK => Snapshot \in SavedType
<1> SUFFICES ASSUME TypeOK PROVE Snapshot \in SavedType
  OBVIOUS
<1>1. \A d \in Mounts : Identity(d) \in Mounts \X (0 .. MaxWrites)
  BY FloppyAssumption DEF TypeOK, Identity, Mounts
<1>2. [d \in Drives |-> Identity(disk[d])] \in [Drives -> Mounts \X (0 .. MaxWrites)]
  BY <1>1 DEF TypeOK
<1> QED BY <1>2 DEF TypeOK, Snapshot, SavedType

LEMMA WritesType ==
  TypeOK /\ WriteData => writes' \in 0 .. MaxWrites /\ version' \in [Disks -> 0 .. MaxWrites]
<1> SUFFICES ASSUME TypeOK, WriteData, chip.left = 1, Target # {}
             PROVE  writes' \in 0 .. MaxWrites /\ version' \in [Disks -> 0 .. MaxWrites]
  BY DEF WriteData, TypeOK
<1>1. writes' \in 0 .. MaxWrites
  BY FloppyAssumption DEF WriteData, TypeOK
<1> QED BY <1>1 DEF WriteData, TypeOK

LEMMA TypeInv == TypeOK /\ Handshake /\ [Next]_vars => TypeOK'
<1> SUFFICES ASSUME TypeOK, Handshake, [Next]_vars PROVE TypeOK'
  OBVIOUS
<1> USE FloppyAssumption
<1>0. chip \in ChipType /\ 0 \in Drives
  BY DEF TypeOK, Drives
<1>1. CASE Position
  <2>1. \A t \in {0} \cup Bytes \cup Steps(chip.track) : t \in Byte
    BY <1>0, StepsType DEF ChipType, Byte
  <2>2. \A t \in Byte : [chip EXCEPT !.track = t] \in ChipType
    BY <1>0 DEF ChipType
  <2> PICK t \in {0} \cup Bytes \cup Steps(chip.track) :
         chip' = EndCommand([chip EXCEPT !.track = t])
    BY <1>1 DEF Position
  <2>3. chip' \in ChipType
    BY <2>1, <2>2, IdleType
  <2> QED BY <1>1, <2>3, NoTransferType DEF Position, TypeOK, hostVars
<1>2. CASE SetCommand
  BY <1>2, CommandType DEF SetCommand, TypeOK, hostVars
<1>3. CASE ReadData
  BY <1>3, TakeByteType DEF ReadData, TypeOK, hostVars
<1>4. CASE WriteData
  <2>1. chip' \in ChipType /\ owner' \in OwnerType
    BY <1>4, TakeByteType DEF WriteData
  <2> QED BY <1>4, <2>1, WritesType DEF WriteData, TypeOK, hostVars
<1>5. CASE ReadStatus
  BY <1>0, <1>5 DEF ReadStatus, TypeOK, ChipType, hostVars
<1>6. CASE WriteRegisters
  <2>1. \A b \in Bytes : b \in Byte /\ b % 2 \in {0, 1}
    BY DEF Byte
  <2>2. \A b \in Byte : /\ [chip EXCEPT !.track = b] \in ChipType
                        /\ [chip EXCEPT !.sector = b] \in ChipType
    BY <1>0 DEF ChipType
  <2> PICK b \in Bytes :
         \/ chip' = [chip EXCEPT !.track = b] /\ UNCHANGED <<side, selected>>
         \/ chip' = [chip EXCEPT !.sector = b] /\ UNCHANGED <<side, selected>>
         \/ side' = b % 2 /\ UNCHANGED <<chip, selected>>
    BY <1>6 DEF WriteRegisters
  <2>3. chip' \in ChipType /\ side' \in {0, 1} /\ selected' = selected
    <3>1. CASE chip' = [chip EXCEPT !.track = b] /\ UNCHANGED <<side, selected>>
      BY <2>1, <2>2, <3>1 DEF TypeOK
    <3>2. CASE chip' = [chip EXCEPT !.sector = b] /\ UNCHANGED <<side, selected>>
      BY <2>1, <2>2, <3>2 DEF TypeOK
    <3>3. CASE side' = b % 2 /\ UNCHANGED <<chip, selected>>
      BY <1>0, <2>1, <3>3
    <3> QED BY <3>1, <3>2, <3>3
  <2> QED BY <1>6, <2>3 DEF WriteRegisters, TypeOK, hostVars
<1>7. CASE SelectDrive
  BY <1>7 DEF SelectDrive, TypeOK, hostVars
<1>8. CASE ReadDrive
  BY <1>8 DEF ReadDrive, TypeOK, hostVars
<1>9. CASE Reset
  <2>1. chip' \in ChipType
    BY <1>9 DEF Reset, PowerOnChip, ChipType, Byte
  <2> QED BY <1>0, <1>9, <2>1, NoTransferType DEF Reset, TypeOK, hostVars
<1>10. CASE Swap
  <2> PICK d \in Drives, image \in Mounts :
         /\ disk' = [disk EXCEPT ![d] = image]
         /\ changed' = [changed EXCEPT ![d] = TRUE]
         /\ IF Aborts(d) THEN chip' = Idle(chip) /\ owner' = NoTransfer
                         ELSE UNCHANGED <<chip, owner>>
    BY <1>10 DEF Swap, Mounts, Raised
  <2>1. chip' \in ChipType /\ owner' \in OwnerType
    BY <1>0, IdleType, NoTransferType DEF TypeOK
  <2>2. disk' \in [Drives -> Mounts] /\ changed' \in [Drives -> BOOLEAN]
    BY DEF TypeOK
  <2>3. swaps' \in 0 .. MaxSwaps
    BY <1>10 DEF Swap, TypeOK
  <2> QED BY <1>10, <2>1, <2>2, <2>3 DEF Swap, TypeOK
<1>11. CASE SaveState
  <2>1. saves' \in 0 .. MaxSaves
    BY <1>11 DEF SaveState, TypeOK
  <2> QED BY <1>11, <2>1, SnapshotType DEF SaveState, TypeOK, guestVars
<1>12. CASE LoadState
  BY <1>12 DEF LoadState, TypeOK, SavedType, hostVars
<1>13. CASE UNCHANGED vars
  BY <1>13 DEF vars, TypeOK
<1> QED BY <1>1, <1>2, <1>3, <1>4, <1>5, <1>6, <1>7, <1>8, <1>9, <1>10, <1>11, <1>12, <1>13
        DEF Next, Guest, Host

LEMMA InitType == Init => TypeOK
<1> SUFFICES ASSUME Init PROVE TypeOK
  OBVIOUS
<1> USE FloppyAssumption
<1>1. chip \in ChipType /\ 0 \in Drives
  BY DEF Init, PowerOnChip, ChipType, Byte, Drives
<1>2. disk \in [Drives -> Mounts] /\ version \in [Disks -> 0 .. MaxWrites]
  BY DEF Init, Drives, Mounts
<1>3. \A d \in Mounts : Identity(d) \in Mounts \X (0 .. MaxWrites)
  BY <1>2 DEF Identity, Mounts
<1>4. [d \in Drives |-> Identity(disk[d])] \in [Drives -> Mounts \X (0 .. MaxWrites)]
  BY <1>2, <1>3
<1>5. Snapshot \in SavedType
  BY <1>1, <1>2, <1>4, NoTransferType DEF Init, Snapshot, SavedType
<1> QED BY <1>1, <1>2, <1>5, NoTransferType DEF Init, TypeOK
----------------------------------------------------------------------------
(* The handshake, for every guest.                                          *)

LEMMA IdleAgrees == ASSUME NEW c \in ChipType PROVE Agrees(Idle(c)) /\ Agrees(EndCommand(c))
BY DEF Agrees, ChipType, Idle, EndCommand

\* What the commands do to the chip, whether they are accepted or not.
LEMMA CommandAgrees == TypeOK /\ SetCommand => Agrees(chip')
<1> SUFFICES ASSUME TypeOK, SetCommand PROVE Agrees(chip')
  OBVIOUS
<1>0. chip \in ChipType
  BY DEF TypeOK
<1>1. CASE Refuse \/ ReadTrack
  BY <1>0, <1>1, IdleAgrees DEF Refuse, ReadTrack
<1>2. CASE ForceInterrupt
  <2> PICK i \in BOOLEAN : chip' = [Idle(chip) EXCEPT !.intrq = i]
    BY <1>2 DEF ForceInterrupt
  <2> QED BY <1>0 DEF Agrees, Idle, ChipType
<1>3. ASSUME NEW mode \in {"READ", "WRITE", "WRITE_TRACK"}, NEW left \in Nat \ {0},
             NEW sectors, Accept(mode, left, sectors)
      PROVE  Agrees(chip')
  BY <1>0, <1>3 DEF Accept, Agrees, ChipType
<1> QED BY <1>1, <1>2, <1>3, FloppyAssumption
        DEF SetCommand, ReadSector, ReadAddress, WriteSector, WriteTrack

LEMMA TakeByteAgrees == TypeOK /\ Handshake /\ chip.mode # "IDLE" /\ TakeByte => Agrees(chip')
<1> SUFFICES ASSUME TypeOK, Handshake, chip.mode # "IDLE", TakeByte PROVE Agrees(chip')
  OBVIOUS
<1>0. chip \in ChipType
  BY DEF TypeOK
<1>1. CASE chip.left = 1
  BY <1>0, <1>1, IdleAgrees DEF TakeByte
<1>2. CASE chip.left # 1
  BY <1>0, <1>2 DEF TakeByte, Handshake, Agrees, ChipType
<1> QED BY <1>1, <1>2

LEMMA HandshakeInv == TypeOK /\ HandInv /\ [Next]_vars => HandInv'
<1> SUFFICES ASSUME TypeOK, HandInv, [Next]_vars PROVE HandInv'
  OBVIOUS
<1>0. chip \in ChipType /\ Agrees(chip) /\ Agrees(saved.chip)
  BY DEF TypeOK, HandInv, Handshake, SavedAgrees, Agrees
<1>a. Agrees(chip') /\ Agrees(saved'.chip) => HandInv'
  BY DEF HandInv, Handshake, SavedAgrees, Agrees
<1>1. CASE Position
  <2> PICK t \in {0} \cup Bytes \cup Steps(chip.track) :
         chip' = EndCommand([chip EXCEPT !.track = t])
    BY <1>1 DEF Position
  <2>1. Agrees(chip')
    BY <1>0 DEF Agrees, EndCommand, Idle, ChipType
  <2> QED BY <1>0, <1>1, <1>a, <2>1 DEF Position, hostVars
<1>2. CASE SetCommand
  BY <1>0, <1>2, <1>a, CommandAgrees DEF SetCommand, hostVars
<1>3. CASE ReadData \/ WriteData
  BY <1>0, <1>3, <1>a, TakeByteAgrees DEF ReadData, WriteData, HandInv, hostVars
<1>4. CASE ReadStatus \/ WriteRegisters \/ SelectDrive \/ ReadDrive
  <2>1. saved' = saved
    BY <1>4 DEF ReadStatus, WriteRegisters, SelectDrive, ReadDrive, hostVars
  <2>2. Agrees(chip')
    BY <1>0, <1>4 DEF ReadStatus, WriteRegisters, SelectDrive, ReadDrive, Agrees, ChipType
  <2> QED BY <1>0, <1>a, <2>1, <2>2
<1>5. CASE Reset
  BY <1>0, <1>5, <1>a DEF Reset, PowerOnChip, Agrees, hostVars
<1>6. CASE Swap
  <2>1. saved' = saved /\ chip' \in {chip, Idle(chip)}
    BY <1>6 DEF Swap
  <2> QED BY <1>0, <1>a, <2>1, IdleAgrees
<1>7. CASE SaveState
  BY <1>0, <1>7, <1>a DEF SaveState, Snapshot, guestVars
<1>8. CASE LoadState \/ UNCHANGED vars
  BY <1>0, <1>8, <1>a DEF LoadState, vars, hostVars
<1> QED BY <1>1, <1>2, <1>3, <1>4, <1>5, <1>6, <1>7, <1>8 DEF Next, Guest, Host

LEMMA HandInit == Init => HandInv
BY DEF Init, Snapshot, PowerOnChip, HandInv, Handshake, SavedAgrees, Agrees

\* The invariant of every guest.
LEMMA ChipInvariance == Spec => [](TypeOK /\ HandInv)
<1>1. Init => TypeOK /\ HandInv
  BY InitType, HandInit
<1>2. (TypeOK /\ HandInv) /\ [Next]_vars => (TypeOK /\ HandInv)'
  BY TypeInv, HandshakeInv DEF HandInv
<1> QED BY <1>1, <1>2, PTL DEF Spec

\* Registers, drives and save states keep their types; STEP-OUT stops at track 0.
THEOREM TypeCorrect == Spec => []TypeOK
BY ChipInvariance, PTL

\* Busy, DRQ and the bytes left agree after every access, swap and load
\* (the transfers, abort, apply_state).
THEOREM HandshakeCorrect == Spec => []Handshake
<1>1. HandInv => Handshake
  BY DEF HandInv
<1> QED BY <1>1, ChipInvariance, PTL
----------------------------------------------------------------------------
(* The disk-change signal, for every guest.                                 *)

LEMMA IdentityDisk == \A d : Identity(d)[1] = d
BY DEF Identity

LEMMA LoadedDisks ==
  ASSUME LoadState, NEW d \in Drives PROVE saved.disks[d] = Identity(disk[d])
BY DEF LoadState

LEMMA ChangesStep == TypeOK /\ ChangesInv /\ [Next]_vars => ChangesInv'
<1> SUFFICES ASSUME TypeOK, ChangesInv, [Next]_vars PROVE ChangesInv'
  OBVIOUS
<1> USE DEF ChangesInv, ChangeReported, SavedChanges
<1>1. CASE Position \/ SetCommand \/ ReadData \/ WriteData \/ ReadStatus \/ WriteRegisters
           \/ SelectDrive
  BY <1>1 DEF Position, SetCommand, ReadData, WriteData, ReadStatus, WriteRegisters,
     SelectDrive, hostVars
<1>2. CASE ReadDrive
  BY <1>2 DEF ReadDrive, TypeOK, hostVars
<1>3. CASE Reset
  BY <1>3 DEF Reset, hostVars
<1>4. CASE Swap
  BY <1>4 DEF Swap, Raised, TypeOK
<1>5. CASE SaveState
  <2>1. saved' = Snapshot /\ UNCHANGED <<changed, seen, disk>>
    BY <1>5 DEF SaveState, guestVars
  <2>2. \A d \in Drives : Snapshot.disks[d] = Identity(disk[d])
    BY DEF Snapshot
  <2>3. Snapshot.changed = changed /\ Snapshot.seen = seen
    BY DEF Snapshot
  <2> QED BY <2>1, <2>2, <2>3, IdentityDisk
<1>6. CASE LoadState
  <2>1. \A d \in Drives : saved.disks[d][1] = disk[d]
    BY <1>6, LoadedDisks, IdentityDisk
  <2> QED BY <1>6, <2>1 DEF LoadState, hostVars
<1>7. CASE UNCHANGED vars
  BY <1>7 DEF vars
<1> QED BY <1>1, <1>2, <1>3, <1>4, <1>5, <1>6, <1>7 DEF Next, Guest, Host

LEMMA ChangesInit == Init => ChangesInv
<1> SUFFICES ASSUME Init PROVE ChangesInv
  OBVIOUS
<1>1. \A d \in Drives : Snapshot.disks[d] = Identity(disk[d])
  BY DEF Snapshot
<1>2. Snapshot.seen = seen
  BY DEF Snapshot
<1> QED BY <1>1, <1>2, IdentityDisk DEF Init, ChangesInv, ChangeReported, SavedChanges

\* A guest that reads no change from a drive knows the disk in it (swap raises
\* the signal, a read consumes it, a load restores it).
THEOREM ChangeCorrect == Spec => []ChangeReported
<1>1. TypeOK /\ ChangesInv /\ [Next]_vars => ChangesInv'
  BY ChangesStep
<1>2. ChangesInv => ChangeReported
  BY DEF ChangesInv
<1> QED BY <1>1, <1>2, ChangesInit, TypeCorrect, PTL DEF Spec

----------------------------------------------------------------------------
(* The medium of a transfer, for a guest that leaves the registers alone.   *)

LEMMA MediumForm == MediumInv => SameMedium
BY DEF MediumInv, AcceptedFor, SameMedium, HasDisk, Identity

LEMMA WritesForm == TypeOK /\ MediumInv /\ WritesInv => WritesWhatItAccepted
<1> SUFFICES ASSUME TypeOK, MediumInv, WritesInv, chip.mode \in {"WRITE", "WRITE_TRACK"}
             PROVE  Target = owner.sectors
  BY DEF WritesWhatItAccepted
<1>1. HasDisk /\ ~WriteProtected
  BY MediumForm DEF SameMedium, WritesInv, WritesAddressed, WriteProtected
<1> QED BY <1>1 DEF Target, Addressed, WritesInv, WritesAddressed

\* An idle chip has nothing to keep.
LEMMA IdleKeeps ==
  ASSUME chip' \in ChipType, chip'.mode = "IDLE", saved' = saved, MediumInv, WritesInv
  PROVE  MediumInv' /\ WritesInv'
BY DEF MediumInv, WritesInv, AcceptedFor, WritesAddressed, SavedMedium, SavedWrites, OnSavedDrive

LEMMA IdleMode ==
  ASSUME NEW c \in ChipType PROVE Idle(c).mode = "IDLE" /\ EndCommand(c).mode = "IDLE"
BY DEF ChipType, Idle, EndCommand

\* A transfer keeps its disk while the registers and the disk stay.
LEMMA TransferKeeps ==
  ASSUME chip'.mode = chip.mode, chip'.track = chip.track, chip'.sector = chip.sector,
         UNCHANGED <<side, owner, InDrive, version, saved>>, MediumInv, WritesInv
  PROVE  MediumInv' /\ WritesInv'
BY DEF MediumInv, WritesInv, AcceptedFor, WritesAddressed, SavedMedium, SavedWrites,
   OnSavedDrive, Identity, SectorAt, TrackAt, Lsn

\* The sector that READ SECTOR and WRITE SECTOR address is never mistaken for none.
LEMMA AddressedIsSector == Addressed # NoSector
<1> SUFFICES ASSUME Addressed = NoSector PROVE FALSE
  OBVIOUS
<1>1. <<NoDisk, -1>> \in Addressed
  BY DEF NoSector
<1>2. \E l \in 0 .. NumSectors[InDrive] - 1 : <<NoDisk, -1>> = <<InDrive, l>>
  BY <1>1 DEF Addressed, SectorAt
<1>3. -1 \in 0 .. NumSectors[InDrive] - 1
  BY <1>2
<1> QED BY <1>3

LEMMA CommandKeeps ==
  TypeOK /\ SetCommand /\ MediumInv /\ WritesInv => MediumInv' /\ WritesInv'
<1> SUFFICES ASSUME TypeOK, SetCommand, MediumInv, WritesInv PROVE MediumInv' /\ WritesInv'
  OBVIOUS
<1>0. chip \in ChipType /\ chip' \in ChipType /\ UNCHANGED <<side, selected, version, disk, saved>>
  BY CommandType DEF TypeOK, SetCommand, hostVars
<1>1. UNCHANGED InDrive /\ OnSavedDrive' = OnSavedDrive
  BY <1>0 DEF InDrive, OnSavedDrive
<1>2. CASE Refuse \/ ReadTrack
  BY <1>0, <1>2, IdleMode, IdleKeeps DEF Refuse, ReadTrack
<1>3. CASE ForceInterrupt
  <2> PICK i \in BOOLEAN : chip' = [Idle(chip) EXCEPT !.intrq = i]
    BY <1>3 DEF ForceInterrupt
  <2>1. chip'.mode = "IDLE"
    BY <1>0 DEF Idle, ChipType
  <2> QED BY <1>0, <2>1, IdleKeeps
<1>a. SavedMedium' /\ SavedWrites'
  BY <1>0, <1>1 DEF MediumInv, WritesInv, SavedMedium, SavedWrites, AcceptedFor, WritesAddressed,
     SectorAt, TrackAt, Lsn
<1>4. ASSUME HasDisk, NEW mode \in {"READ", "WRITE", "WRITE_TRACK"}, NEW left, NEW sectors,
             Accept(mode, left, sectors)
      PROVE  MediumInv' /\ chip'.mode = mode /\ owner'.sectors = sectors
  <2>1. owner'.disk = InDrive /\ owner'.version = version[InDrive] /\ owner'.sectors = sectors
    BY <1>4 DEF Accept
  <2>2. chip'.mode = mode
    BY <1>0, <1>4 DEF Accept, ChipType
  <2>3. Identity(InDrive)'[2] = version[InDrive]
    BY <1>0, <1>1, <1>4 DEF Identity, HasDisk
  <2> QED BY <1>1, <1>4, <1>a, <2>1, <2>2, <2>3 DEF MediumInv, AcceptedFor, HasDisk
<1>5. CASE \E left, sectors : HasDisk /\ Accept("READ", left, sectors)
  BY <1>4, <1>5, <1>a DEF WritesInv, WritesAddressed
<1>6. CASE AcceptsWrites /\ Accept("WRITE", SectorSize, Addressed)
  <2>1. MediumInv' /\ chip'.mode = "WRITE" /\ owner'.sectors = Addressed
    BY <1>4, <1>6 DEF AcceptsWrites
  <2>2. chip'.track = chip.track /\ chip'.sector = chip.sector
    BY <1>0, <1>6, AddressedIsSector DEF Accept, ChipType
  <2> QED BY <1>0, <1>1, <1>6, <1>a, <2>1, <2>2
          DEF WritesInv, WritesAddressed, Addressed, AcceptsWrites, WriteProtected, SectorAt, Lsn
<1>7. CASE AcceptsWrites /\ Accept("WRITE_TRACK", TrackBytes, TrackAt(InDrive, side, chip.track))
  <2>1. MediumInv' /\ chip'.mode = "WRITE_TRACK"
        /\ owner'.sectors = TrackAt(InDrive, side, chip.track)
    BY <1>4, <1>7 DEF AcceptsWrites
  <2>2. chip'.track = chip.track
    BY <1>0, <1>7 DEF Accept, ChipType
  <2> QED BY <1>0, <1>1, <1>7, <1>a, <2>1, <2>2
          DEF WritesInv, WritesAddressed, AcceptsWrites, WriteProtected
<1> QED BY <1>2, <1>3, <1>5, <1>6, <1>7
        DEF SetCommand, ReadSector, ReadAddress, WriteSector, WriteTrack

\* The byte taken is not the last one, or the transfer is over.
LEMMA TakeByteKeeps ==
  ASSUME TypeOK, Handshake, chip.mode # "IDLE", TakeByte, MediumInv, WritesInv,
         UNCHANGED <<side, selected, disk, saved>>,
         chip.left # 1 => UNCHANGED version
  PROVE  MediumInv' /\ WritesInv'
<1>0. chip \in ChipType /\ chip' \in ChipType
  BY TakeByteType DEF TypeOK
<1>1. CASE chip.left = 1
  BY <1>0, <1>1, IdleMode, IdleKeeps DEF TakeByte
<1>2. CASE chip.left # 1
  <2>1. UNCHANGED <<InDrive, owner, version>>
    BY <1>2 DEF TakeByte, InDrive
  <2>2. chip'.mode = chip.mode /\ chip'.track = chip.track /\ chip'.sector = chip.sector
    BY <1>0, <1>2 DEF TakeByte, ChipType
  <2> QED BY <2>1, <2>2, TransferKeeps
<1> QED BY <1>1, <1>2

LEMMA SwapKeeps ==
  TypeOK /\ Swap /\ MediumInv /\ WritesInv => MediumInv' /\ WritesInv'
<1> SUFFICES ASSUME TypeOK, Swap, MediumInv, WritesInv PROVE MediumInv' /\ WritesInv'
  OBVIOUS
<1> PICK d \in Drives, image \in Mounts :
       /\ disk' = [disk EXCEPT ![d] = image]
       /\ IF Aborts(d) THEN chip' = Idle(chip) /\ owner' = NoTransfer
                       ELSE UNCHANGED <<chip, owner>>
  BY DEF Swap, Mounts
<1>0. UNCHANGED <<side, selected, version, saved>>
  BY DEF Swap
<1>1. CASE selected = d
  <2>1. chip' = Idle(chip) /\ chip \in ChipType
    BY <1>1 DEF Aborts, TypeOK
  <2> QED BY <1>0, <2>1, IdleType, IdleMode, IdleKeeps
<1>2. CASE selected # d
  <2>1. UNCHANGED <<InDrive, chip, owner>>
    BY <1>0, <1>2 DEF Aborts, InDrive, TypeOK
  <2> QED BY <1>0, <2>1, TransferKeeps
<1> QED BY <1>1, <1>2

\* A save names the disks of the drives, and the guest goes on.
LEMMA SaveKeeps ==
  TypeOK /\ SaveState /\ MediumInv /\ WritesInv => MediumInv' /\ WritesInv'
<1> SUFFICES ASSUME TypeOK, SaveState, MediumInv, WritesInv PROVE MediumInv' /\ WritesInv'
  OBVIOUS
<1>1. saved' = Snapshot /\ UNCHANGED <<chip, side, selected, version, disk, owner>>
  BY DEF SaveState, guestVars
<1>2. UNCHANGED InDrive
  BY <1>1 DEF InDrive
<1>3. Snapshot.chip = chip /\ Snapshot.side = side /\ Snapshot.owner = owner
      /\ Snapshot.selected = selected
      /\ \A d \in Drives : Snapshot.disks[d] = Identity(disk[d])
  BY DEF Snapshot
<1>4. OnSavedDrive' = Identity(InDrive)
  BY <1>1, <1>3 DEF OnSavedDrive, InDrive, Identity, TypeOK
<1>5. SavedMedium' /\ SavedWrites'
  <2>1. OnSavedDrive'[1] = InDrive
    BY <1>4, IdentityDisk
  <2> QED BY <1>1, <1>3, <1>4, <2>1
          DEF MediumInv, WritesInv, SavedMedium, SavedWrites, AcceptedFor, WritesAddressed
<1>6. Identity(InDrive)' = Identity(InDrive)
  BY <1>1, <1>2 DEF Identity
<1> QED BY <1>1, <1>2, <1>5, <1>6 DEF MediumInv, WritesInv, AcceptedFor, WritesAddressed

\* A load finds the disks that the save names.
LEMMA LoadKeeps ==
  TypeOK /\ LoadState /\ MediumInv /\ WritesInv => MediumInv' /\ WritesInv'
<1> SUFFICES ASSUME TypeOK, LoadState, MediumInv, WritesInv PROVE MediumInv' /\ WritesInv'
  OBVIOUS
<1>1. chip' = saved.chip /\ side' = saved.side /\ selected' = saved.selected
      /\ owner' = saved.owner /\ UNCHANGED <<version, disk, saved>>
  BY DEF LoadState, hostVars
<1>2. OnSavedDrive' = OnSavedDrive
  BY <1>1 DEF OnSavedDrive
<1>3. OnSavedDrive = Identity(InDrive)'
  BY <1>1, LoadedDisks DEF OnSavedDrive, InDrive, Identity, TypeOK, SavedType
<1>4. OnSavedDrive[1] = InDrive'
  BY <1>3 DEF Identity
<1> QED BY <1>1, <1>2, <1>3, <1>4
        DEF MediumInv, WritesInv, SavedMedium, SavedWrites, AcceptedFor, WritesAddressed

LEMMA MediumStep ==
  ASSUME Polite
  PROVE  TypeOK /\ HandInv /\ MediumInv /\ WritesInv /\ [Next]_vars => MediumInv' /\ WritesInv'
<1> SUFFICES ASSUME TypeOK, HandInv, MediumInv, WritesInv, [Next]_vars
             PROVE  MediumInv' /\ WritesInv'
  OBVIOUS
<1>0. chip \in ChipType /\ chip' \in ChipType /\ Handshake
  BY TypeInv DEF TypeOK, HandInv
<1>1. CASE Position
  <2>1. chip'.mode = "IDLE" /\ saved' = saved
    BY <1>0, <1>1 DEF Position, EndCommand, Idle, ChipType, hostVars
  <2> QED BY <1>0, <2>1, IdleKeeps
<1>2. CASE SetCommand
  BY <1>2, CommandKeeps
<1>3. CASE ReadData \/ WriteData
  BY <1>0, <1>3, TakeByteKeeps DEF ReadData, WriteData, hostVars
<1>4. CASE ReadStatus \/ ReadDrive
  <2>1. UNCHANGED <<side, selected, disk, version, saved, owner>>
    BY <1>4 DEF ReadStatus, ReadDrive, hostVars
  <2>2. chip'.mode = chip.mode /\ chip'.track = chip.track /\ chip'.sector = chip.sector
    BY <1>0, <1>4 DEF ReadStatus, ReadDrive, ChipType
  <2> QED BY <2>1, <2>2, TransferKeeps DEF InDrive
<1>5. CASE WriteRegisters \/ SelectDrive
  <2>1. chip.mode = "IDLE" /\ saved' = saved
    BY <1>5 DEF WriteRegisters, SelectDrive, MayTouch, hostVars
  <2>2. chip'.mode = "IDLE"
    BY <1>0, <1>5, <2>1 DEF WriteRegisters, SelectDrive, ChipType
  <2> QED BY <1>0, <2>1, <2>2, IdleKeeps
<1>6. CASE Reset
  <2>1. chip'.mode = "IDLE" /\ saved' = saved
    BY <1>6 DEF Reset, PowerOnChip, hostVars
  <2> QED BY <1>0, <2>1, IdleKeeps
<1>7. CASE Swap
  BY <1>7, SwapKeeps
<1>8. CASE SaveState
  BY <1>8, SaveKeeps
<1>9. CASE LoadState
  BY <1>9, LoadKeeps
<1>10. CASE UNCHANGED vars
  BY <1>10, TransferKeeps DEF vars, InDrive
<1> QED BY <1>1, <1>2, <1>3, <1>4, <1>5, <1>6, <1>7, <1>8, <1>9, <1>10 DEF Next, Guest, Host

LEMMA MediumInit == Init => MediumInv /\ WritesInv
<1> SUFFICES ASSUME Init PROVE MediumInv /\ WritesInv
  OBVIOUS
<1>1. chip.mode = "IDLE" /\ saved.chip.mode = "IDLE"
  BY DEF Init, Snapshot, PowerOnChip
<1> QED BY <1>1 DEF MediumInv, WritesInv, SavedMedium, SavedWrites, AcceptedFor, WritesAddressed

LEMMA MediumInvariance ==
  ASSUME Polite PROVE Spec => [](TypeOK /\ MediumInv /\ WritesInv)
<1>1. Init => MediumInv /\ WritesInv
  BY MediumInit
<1>2. TypeOK /\ HandInv /\ MediumInv /\ WritesInv /\ [Next]_vars => MediumInv' /\ WritesInv'
  BY MediumStep
<1> QED BY <1>1, <1>2, ChipInvariance, PTL DEF Spec

\* A transfer stays on the disk it was accepted for, unchanged (FloppyDiskState.swap,
\* DiskDrive.parse_state), for a guest that leaves the registers alone during it.
THEOREM MediumCorrect == ASSUME Polite PROVE Spec => []SameMedium
BY MediumForm, MediumInvariance, PTL

\* ... and a write ends in the sectors that it was accepted for (_write_sector,
\* _write_track, set_data).
THEOREM WriteCorrect == ASSUME Polite PROVE Spec => []WritesWhatItAccepted
BY WritesForm, MediumInvariance, PTL
=============================================================================
