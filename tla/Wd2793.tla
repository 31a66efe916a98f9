------------------------------- MODULE Wd2793 -------------------------------
(***************************************************************************)
(* The floppy interface of the Sony machines: a WD2793 behind the Philips  *)
(* register window, its drives, hot swaps by the host, and save states.    *)
(* The guest accesses the registers in any order; commands run at once,    *)
(* and a transfer then takes one data access per byte.                     *)
(*                                                                         *)
(* Bytes have no values here: a disk has a version, the number of the      *)
(* write that last changed it, a transfer a number of bytes left, and a    *)
(* SEEK goes to any track, as the guest may have put any byte into the     *)
(* data register. Of the status there is BUSY; the register shows DRQ as   *)
(* the line has it (get_status), and nothing here reads the error bits.    *)
(***************************************************************************)
EXTENDS Integers

CONSTANTS
  NumDrives,   \* drives on the machine
  Disks,       \* the images there are
  NoDisk,      \* an empty drive
  Protected,   \* the images the host opened write-protected
  NumSectors,  \* their sizes
  Spt, Sides,  \* their geometries (boot sector or 2DD default)
  RegSize,     \* values of a register: 256
  Bytes,       \* those the guest uses
  SectorSize,  \* bytes of a sector: 512
  IdSize,      \* bytes of a READ ADDRESS: 6
  TrackBytes,  \* bytes a WRITE TRACK takes: 6250
  Polite,      \* TRUE: the guest leaves the registers alone during a transfer
  AtStart,     \* the disks mounted at the start
  MaxWrites,   \* bound on write commands, for TLC
  MaxSwaps,    \* bound on swaps, for TLC
  MaxSaves     \* bound on save states, for TLC

ASSUME FloppyAssumption ==
  /\ NumDrives \in Nat \ {0}
  /\ NoDisk \notin Disks /\ Protected \subseteq Disks
  /\ NumSectors \in [Disks -> Nat \ {0}]
  /\ Spt \in [Disks -> Nat \ {0}] /\ Sides \in [Disks -> {1, 2}]
  /\ RegSize \in Nat \ {0, 1} /\ Bytes \subseteq 0 .. RegSize - 1
  /\ AtStart \in [0 .. NumDrives - 1 -> Disks \cup {NoDisk}]
  /\ SectorSize \in Nat \ {0} /\ IdSize \in Nat \ {0} /\ TrackBytes \in Nat \ {0}
  /\ Polite \in BOOLEAN /\ MaxWrites \in Nat /\ MaxSwaps \in Nat /\ MaxSaves \in Nat

Drives == 0 .. NumDrives - 1
NoDrive == NumDrives
Byte == 0 .. RegSize - 1

VARIABLES
  chip,     \* the WD2793
  side,     \* the selected side, the same for all drives
  selected, \* the drive that drive_reg selects, or NoDrive
  disk,     \* the disk in each drive, or NoDisk
  changed,  \* disk_changed of each drive
  version,  \* the write that last changed each disk
  saved,    \* the last save state
  writes,   \* writes so far
  swaps,    \* swaps so far
  saves,    \* save states so far
  owner,    \* history: what the transfer under way was accepted for
  seen      \* history: the disk the guest knows to be in each drive

guestVars == <<chip, side, selected, changed, owner, seen>>
hostVars == <<disk, swaps, saved, saves>>
vars == <<chip, side, selected, disk, changed, version, saved, writes, swaps, saves, owner, seen>>

PowerOnChip ==
  [track |-> 0, sector |-> 1, busy |-> FALSE, intrq |-> FALSE, drq |-> FALSE,
   mode |-> "IDLE", left |-> 0]

NoTransfer == [disk |-> NoDisk, version |-> 0, sectors |-> {}]

----------------------------------------------------------------------------
(* The drive.                                                               *)

InDrive == IF selected = NoDrive THEN NoDisk ELSE disk[selected]
HasDisk == InDrive # NoDisk
WriteProtected == InDrive \in Protected

Lsn(d, t, s, n) == (t * Sides[d] + s) * Spt[d] + (n - 1)

\* A sector and a track of disk d, as far as the image has them.
SectorAt(d, s, t, n) ==
  {<<d, l>> : l \in {Lsn(d, t, s, n)} \cap (0 .. NumSectors[d] - 1)}
TrackAt(d, s, t) == UNION {SectorAt(d, s, t, n) : n \in 1 .. Spt[d]}
NoSector == {<<NoDisk, -1>>}
Addressed == SectorAt(InDrive, side, chip.track, chip.sector)

----------------------------------------------------------------------------
(* Commands.                                                                *)

\* Mutant: a finished or aborted command stays busy.
IdleKeepingBusy(c) == [c EXCEPT !.mode = "IDLE", !.drq = FALSE, !.left = 0]
Idle(c) ==
  [c EXCEPT !.mode = "IDLE", !.drq = FALSE, !.busy = FALSE, !.left = 0]
EndCommand(c) == [Idle(c) EXCEPT !.intrq = TRUE]

\* STEP-IN wraps, STEP-OUT stops at track 0, STEP does one of the two.
Steps(track) == {(track + 1) % RegSize, IF track = 0 THEN 0 ELSE track - 1}

\* RESTORE, SEEK and the steps: at once, also without a disk.
Position ==
  /\ \E track \in {0} \cup Bytes \cup Steps(chip.track) :
       chip' = EndCommand([chip EXCEPT !.track = track])
  /\ owner' = NoTransfer
  /\ UNCHANGED <<side, selected, changed, version, writes, seen, hostVars>>

\* A command that is refused ends with an error.
Refuse ==
  /\ chip' = EndCommand(chip)
  /\ owner' = NoTransfer

\* One that is accepted asks for its first byte.
Accept(mode, left, sectors) ==
  /\ chip' = [chip EXCEPT !.busy = TRUE, !.intrq = FALSE, !.drq = TRUE,
                          !.mode = mode, !.left = left,
                          !.sector = IF sectors = NoSector THEN chip.track ELSE @]
  /\ owner' = [disk |-> InDrive, version |-> version[InDrive], sectors |-> sectors]

ReadSector ==
  \/ (HasDisk => Addressed = {}) /\ Refuse
  \/ HasDisk /\ Addressed # {} /\ Accept("READ", SectorSize, Addressed)

\* The answer comes from no sector; the sector register gets the track.
ReadAddress ==
  \/ ~HasDisk /\ Refuse
  \/ HasDisk /\ Accept("READ", IdSize, NoSector)

\* Mutant: write protection is found out when the sector is written.
AcceptsAny == HasDisk
AcceptsWrites == HasDisk /\ ~WriteProtected

WriteSector ==
  \/ (AcceptsWrites => Addressed = {}) /\ Refuse
  \/ AcceptsWrites /\ Addressed # {} /\ Accept("WRITE", SectorSize, Addressed)

WriteTrack ==
  \/ ~AcceptsWrites /\ Refuse
  \/ AcceptsWrites /\ Accept("WRITE_TRACK", TrackBytes, TrackAt(InDrive, side, chip.track))

ReadTrack ==
  /\ chip' = EndCommand(chip)
  /\ owner' = NoTransfer

\* The interrupt comes only with the immediate condition.
ForceInterrupt ==
  /\ \E immediate \in BOOLEAN : chip' = [Idle(chip) EXCEPT !.intrq = immediate]
  /\ owner' = NoTransfer

SetCommand ==
  /\ ReadSector \/ ReadAddress \/ WriteSector \/ WriteTrack \/ ReadTrack \/ ForceInterrupt
  /\ UNCHANGED <<side, selected, changed, version, writes, seen, hostVars>>

----------------------------------------------------------------------------
(* The other registers.                                                     *)

\* A byte is taken; the last one ends the command.
TakeByte ==
  IF chip.left = 1 THEN chip' = EndCommand(chip) /\ owner' = NoTransfer
  ELSE chip' = [chip EXCEPT !.left = @ - 1] /\ UNCHANGED owner

\* get_data.
ReadData ==
  /\ chip.mode = "READ"
  /\ TakeByte
  /\ UNCHANGED <<side, selected, changed, version, writes, seen, hostVars>>

\* What the last byte writes: nothing if the drive has no disk or a protected one
\* (DiskDrive.write_sector, format_track).
Target ==
  IF ~HasDisk \/ WriteProtected THEN {}
  ELSE IF chip.mode = "WRITE" THEN Addressed ELSE TrackAt(InDrive, side, chip.track)

\* set_data.
WriteData ==
  /\ chip.mode \in {"WRITE", "WRITE_TRACK"}
  /\ TakeByte
  /\ IF chip.left = 1 /\ Target # {}
     THEN /\ writes < MaxWrites
          /\ writes' = writes + 1
          /\ version' = [version EXCEPT ![InDrive] = writes']
     ELSE UNCHANGED <<version, writes>>
  /\ UNCHANGED <<side, selected, changed, seen, hostVars>>

ReadStatus ==
  /\ chip' = [chip EXCEPT !.intrq = FALSE]
  /\ UNCHANGED <<side, selected, changed, version, writes, owner, seen, hostVars>>

MayTouch == Polite => chip.mode = "IDLE"

WriteRegisters ==
  /\ MayTouch
  /\ \E b \in Bytes :
       \/ chip' = [chip EXCEPT !.track = b] /\ UNCHANGED <<side, selected>>
       \/ chip' = [chip EXCEPT !.sector = b] /\ UNCHANGED <<side, selected>>
       \/ side' = b % 2 /\ UNCHANGED <<chip, selected>>
  /\ UNCHANGED <<changed, version, writes, owner, seen, hostVars>>

\* 0 and 2 select the first drive, 1 the second, 3 none.
SelectDrive ==
  /\ MayTouch
  /\ \E value \in 0 .. 3 :
       LET d == CASE value = 1 -> 1 [] value = 3 -> NoDrive [] OTHER -> 0
       IN  selected' = IF d \in Drives THEN d ELSE NoDrive
  /\ UNCHANGED <<chip, side, changed, version, writes, owner, seen, hostVars>>

\* REG_DRIVE: reports a change of the selected drive's disk once.
ReadDrive ==
  /\ selected \in Drives /\ changed[selected]
  /\ changed' = [changed EXCEPT ![selected] = FALSE]
  /\ seen' = [seen EXCEPT ![selected] = disk[selected]]
  /\ UNCHANGED <<chip, side, selected, version, writes, owner, hostVars>>

\* The guest starts over and reads the disks anew; a change stays to be reported.
Reset ==
  /\ chip' = PowerOnChip
  /\ side' = 0 /\ selected' = 0
  /\ owner' = NoTransfer /\ seen' = disk
  /\ UNCHANGED <<changed, version, writes, hostVars>>

----------------------------------------------------------------------------
(* The host.                                                                *)

\* Mutant: no transfer is aborted.
NeverAborts(d) == FALSE
Aborts(d) == selected = d

\* Every mount makes an image of its own.
EachOnce(mounted) ==
  \A d, e \in Drives : mounted[d] = mounted[e] => d = e \/ mounted[d] = NoDisk

\* Mutant: the change is signalled on the drive the controller has selected.
RaisedOnSelected(d) ==
  [changed EXCEPT ![IF selected = NoDrive THEN d ELSE selected] = TRUE]
Raised(d) == [changed EXCEPT ![d] = TRUE]

\* swap: mount_disk and eject_disk.
Swap ==
  /\ swaps < MaxSwaps
  /\ \E d \in Drives, image \in Disks \cup {NoDisk} :
       /\ disk' = [disk EXCEPT ![d] = image] /\ EachOnce(disk')
       /\ changed' = Raised(d)
       /\ IF Aborts(d)
          THEN chip' = Idle(chip) /\ owner' = NoTransfer
          ELSE UNCHANGED <<chip, owner>>
  /\ swaps' = swaps + 1
  /\ UNCHANGED <<side, selected, version, writes, saved, saves, seen>>

Identity(d) == IF d = NoDisk THEN <<d, 0>> ELSE <<d, version[d]>>

Snapshot ==
  [chip |-> chip, side |-> side, selected |-> selected, changed |-> changed,
   disks |-> [d \in Drives |-> Identity(disk[d])], owner |-> owner, seen |-> seen]

SaveState ==
  /\ saves < MaxSaves /\ saves' = saves + 1
  /\ saved' = Snapshot
  /\ UNCHANGED <<guestVars, version, writes, disk, swaps>>

\* Refused unless every drive has the disk of the save, as it was.
LoadState ==
  /\ saved.disks = [d \in Drives |-> Identity(disk[d])]
  /\ chip' = saved.chip /\ side' = saved.side /\ selected' = saved.selected
  /\ changed' = saved.changed /\ owner' = saved.owner /\ seen' = saved.seen
  /\ UNCHANGED <<version, writes, hostVars>>

----------------------------------------------------------------------------
Init ==
  /\ chip = PowerOnChip /\ side = 0 /\ selected = 0
  /\ disk = AtStart
  /\ changed = [d \in Drives |-> FALSE]
  /\ version = [d \in Disks |-> 0]
  /\ writes = 0 /\ swaps = 0 /\ saves = 0
  /\ owner = NoTransfer /\ seen = disk
  /\ saved = Snapshot

Guest == Position \/ SetCommand \/ ReadData \/ WriteData \/ ReadStatus \/ WriteRegisters
         \/ SelectDrive \/ ReadDrive \/ Reset
Host == Swap \/ SaveState \/ LoadState

Next == Guest \/ Host

Spec == Init /\ [][Next]_vars

----------------------------------------------------------------------------
(* Properties.                                                              *)

ChipType ==
  [track : Byte, sector : Byte, busy : BOOLEAN,
   intrq : BOOLEAN, drq : BOOLEAN, mode : {"IDLE", "READ", "WRITE", "WRITE_TRACK"},
   left : Nat]

Mounts == Disks \cup {NoDisk}
OwnerType ==
  [disk : Mounts, version : 0 .. MaxWrites, sectors : SUBSET (Mounts \X Int)]
SavedType ==
  [chip : ChipType, side : {0, 1}, selected : Drives \cup {NoDrive},
   changed : [Drives -> BOOLEAN], disks : [Drives -> Mounts \X (0 .. MaxWrites)],
   owner : OwnerType, seen : [Drives -> Mounts]]

TypeOK ==
  /\ chip \in ChipType /\ side \in {0, 1} /\ selected \in Drives \cup {NoDrive}
  /\ disk \in [Drives -> Mounts] /\ changed \in [Drives -> BOOLEAN]
  /\ version \in [Disks -> 0 .. MaxWrites] /\ writes \in 0 .. MaxWrites
  /\ swaps \in 0 .. MaxSwaps /\ saves \in 0 .. MaxSaves
  /\ owner \in OwnerType /\ seen \in [Drives -> Mounts]
  /\ saved \in SavedType

\* What a polling guest sees agrees: the controller is busy and asks for data
\* exactly while a transfer has bytes left, so no poll waits for ever.
Handshake ==
  /\ chip.drq <=> chip.mode # "IDLE"
  /\ chip.drq <=> chip.busy
  /\ chip.drq <=> chip.left > 0

\* A transfer goes to or comes from the disk it was accepted for, as it was then,
\* across swaps and loaded states.
SameMedium ==
  chip.mode # "IDLE" =>
    /\ HasDisk /\ owner.disk = InDrive
    /\ owner.version = version[InDrive]

\* A write under way writes what the command was accepted for: its last byte
\* neither fails silently nor goes elsewhere.
WritesWhatItAccepted ==
  chip.mode \in {"WRITE", "WRITE_TRACK"} => Target = owner.sectors

\* A drive that reports no change has the disk the guest knows.
ChangeReported == \A d \in Drives : changed[d] \/ seen[d] = disk[d]

\* Nothing is transferred from or to a disk that is in no drive any more: a swap
\* "aborts any in-progress controller transfer so no buffer keeps referencing the
\* previous disk" (FloppyDiskState.swap).
BufferOfMountedDisk == chip.mode # "IDLE" => \E d \in Drives : disk[d] = owner.disk
=============================================================================
