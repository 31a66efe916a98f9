--------------------------- MODULE WritableMedia ---------------------------
(***************************************************************************)
(* The writable media of a run and their files: SRAM images and floppy     *)
(* disks in the core's memory (a dirty flag each), the host's table of     *)
(* which file is in which drive, and every host path that moves bytes      *)
(* between the two: disk swaps (F6, Shift+F6, the RPC server, the debugger *)
(* prompt), save states, loads and the write-back at exit, with the        *)
(* failures of reading and writing files the code handles.                 *)
(*                                                                         *)
(* The content of a medium or file is the set of guest writes it holds:    *)
(* each write is to a sector or byte of its own and has a fresh number, so *)
(* a lost write shows as a missing number and a save state's SHA1 check is *)
(* set equality.                                                           *)
(***************************************************************************)
EXTENDS Integers, Sequences, FiniteSets

CONSTANTS
  Srams,      \* media ids of the battery-backed images, a set of naturals
  Drives,     \* media ids of the floppy drives; their least is drive A
  DriveA, DriveB,
  DiskFiles,  \* the .dsk files
  SramFile,   \* the file of each SRAM medium
  FddList,    \* the --fdd1 list F6 steps through, a sequence of .dsk files
  Fdd2,       \* the --fdd2 file, or None
  None,       \* no file
  MaxWrites,  \* bound on guest writes, for TLC
  AnyFile     \* FALSE: the host is never asked for a file that is at risk

Media == Srams \cup Drives
AllFiles == DiskFiles \cup {SramFile[s] : s \in Srams}

\* Contents are sets of guest writes; write numbers start at 1.
Contents == SUBSET (1 .. MaxWrites)
NoDisk == {0}    \* an empty drive
Torn == {-1}     \* a file a failed write truncated
NoState == <<>>  \* no save state yet

ASSUME MediaAssumption ==
  /\ Srams \subseteq Nat /\ Drives \subseteq Nat /\ Srams \cap Drives = {}
  /\ \A s \in Srams, d \in Drives : s < d
  /\ DriveA \in Drives /\ DriveA # DriveB    \* a machine may have no drive B
  /\ FddList \in Seq(DiskFiles) /\ Fdd2 \in DiskFiles \cup {None}
  /\ MaxWrites \in Nat /\ AnyFile \in BOOLEAN

\* Each SRAM medium has a file of its own, which is no disk's.
ASSUME SramFileAssumption ==
  \A s \in Srams : /\ SramFile[s] \notin DiskFiles
                   /\ \A t \in Srams : SramFile[s] = SramFile[t] => s = t

ASSUME NoneAssumption == None \notin AllFiles

FirstFile == IF FddList = <<>> THEN None ELSE FddList[1]

\* The file each drive starts with: the first image of the list, and the --fdd2 image.
Given(d) == IF d = DriveA THEN FirstFile ELSE IF d = DriveB THEN Fdd2 ELSE None

\* A command line that gives both drives one file puts that file at risk.
ASSUME GivenAssumption == AnyFile \/ FirstFile # Fdd2 \/ Fdd2 = None

VARIABLES
  data,      \* content of each medium in the core
  dirty,     \* written since it was last persisted
  locked,    \* the image in a drive rejects sector writes
  diskFile,  \* the host's DiskFiles table
  file,      \* content of each file
  index,     \* the frontend's position in FddList
  snap,      \* the latest save state: SRAM contents and disk identities
  written,   \* history: every guest write a file is owed
  writes,    \* how many guest writes there have been
  run        \* "up", "stopping" (the host loop has ended), "exited", "failed"

vars == <<data, dirty, locked, diskFile, file, index, snap, written, writes, run>>

----------------------------------------------------------------------------
(* Writing media back.                                                      *)

Mounted(m) == data[m] # NoDisk
Backing(m) == IF m \in Drives THEN diskFile[m] ELSE SramFile[m]

\* The dirty media of S that have a file, as dirty_media and media_paths give them.
Pending(S) == {m \in S : dirty[m] /\ Mounted(m) /\ Backing(m) # None}

LastOf(ms) == CHOOSE m \in ms : \A n \in ms : n <= m

\* Files and dirty flags after the media `done` were written in id order, and
\* the write that then failed truncated the files `torn`.
FilesAfter(done, torn) ==
  [f \in AllFiles |->
     LET ms == {m \in done : Backing(m) = f}
     IN  IF f \in torn THEN Torn
         ELSE IF ms # {} THEN data[LastOf(ms)] ELSE file[f]]
DirtyAfter(done) == [m \in Media |-> dirty[m] /\ m \notin done]

\* A write that raises OSError leaves the file as it was, or truncated.
TornBy(m) == {{}, {Backing(m)}}

\* persist_dirty_media: the first write that fails raises, and no later medium
\* is written.
PersistAll(S) ==
  /\ file' = FilesAfter(Pending(S), {})
  /\ dirty' = DirtyAfter(Pending(S))
PersistFails(S) ==
  \E m \in Pending(S) : \E torn \in TornBy(m) :
    LET done == {n \in Pending(S) : n < m}
    IN  /\ file' = FilesAfter(done, torn)
        /\ dirty' = DirtyAfter(done)

----------------------------------------------------------------------------
(* swap_disk: read the new file, write a dirty outgoing image back, mount,  *)
(* record the file.                                                         *)

\* A file at risk: it is in another drive, or in this one with unsaved writes.
AtRisk(d, f) == \E e \in Drives : diskFile[e] = f /\ (e # d \/ dirty[e])
Asked(d, f) == AnyFile \/ ~AtRisk(d, f)

\* Mutant: the outgoing image is not written back.
InsertWithoutWriteBack(d, f) ==
  /\ file[f] # Torn
  /\ data' = [data EXCEPT ![d] = file[f]]
  /\ dirty' = [dirty EXCEPT ![d] = FALSE]
  /\ \E wp \in BOOLEAN : locked' = [locked EXCEPT ![d] = wp]
  /\ diskFile' = [diskFile EXCEPT ![d] = f]
  /\ UNCHANGED file

Insert(d, f) ==
  /\ file[f] # Torn
  /\ file' = FilesAfter(Pending({d}), {})
  /\ data' = [data EXCEPT ![d] = file[f]]
  /\ dirty' = [dirty EXCEPT ![d] = FALSE]
  /\ \E wp \in BOOLEAN : locked' = [locked EXCEPT ![d] = wp]
  /\ diskFile' = [diskFile EXCEPT ![d] = f]

\* The image is mounted nowhere: the file cannot be read, or its size is bad
\* (mount_disk refuses it after the write-back), or the write-back fails.
InsertFails(d, f) ==
  /\ \/ UNCHANGED <<file, dirty>>
     \/ /\ file[f] = Torn
        /\ PersistAll({d})
     \/ PersistFails({d})
  /\ UNCHANGED <<data, locked, diskFile>>

\* Mutant: the table keeps the file of an ejected disk.
EjectKeepingFile(d) ==
  /\ file' = FilesAfter(Pending({d}), {})
  /\ data' = [data EXCEPT ![d] = NoDisk]
  /\ dirty' = [dirty EXCEPT ![d] = FALSE]
  /\ locked' = [locked EXCEPT ![d] = FALSE]
  /\ UNCHANGED diskFile

Eject(d) ==
  /\ file' = FilesAfter(Pending({d}), {})
  /\ data' = [data EXCEPT ![d] = NoDisk]
  /\ dirty' = [dirty EXCEPT ![d] = FALSE]
  /\ locked' = [locked EXCEPT ![d] = FALSE]
  /\ diskFile' = [diskFile EXCEPT ![d] = None]

EjectFails(d) ==
  /\ PersistFails({d})
  /\ UNCHANGED <<data, locked, diskFile>>

----------------------------------------------------------------------------
(* The guest.                                                               *)

GuestWrite(m) ==
  /\ run = "up" /\ Mounted(m) /\ writes < MaxWrites
  /\ m \in Drives => ~locked[m]
  /\ writes' = writes + 1
  /\ data' = [data EXCEPT ![m] = @ \cup {writes'}]
  /\ dirty' = [dirty EXCEPT ![m] = TRUE]
  /\ written' = [written EXCEPT ![Backing(m)] = @ \cup {writes'}]
  /\ UNCHANGED <<locked, diskFile, file, index, snap, run>>

----------------------------------------------------------------------------
(* The host's disk operations.                                              *)

\* Position of the next image, wrapping to the first.
NextIndex == (index % Len(FddList)) + 1

\* F6
DiskNext ==
  /\ run = "up" /\ FddList # <<>>
  /\ Asked(DriveA, FddList[NextIndex])
  /\ \/ Insert(DriveA, FddList[NextIndex]) /\ index' = NextIndex
     \/ InsertFails(DriveA, FddList[NextIndex]) /\ UNCHANGED index
  /\ UNCHANGED <<snap, written, writes, run>>

\* Shift+F6. The eject is not guarded: its OSError ends the host loop.
DiskToggleEject ==
  /\ run = "up" /\ FddList # <<>>
  /\ \/ /\ ~Mounted(DriveA) /\ Asked(DriveA, FddList[index])
        /\ \/ Insert(DriveA, FddList[index])
           \/ InsertFails(DriveA, FddList[index])
        /\ UNCHANGED run
     \/ Mounted(DriveA) /\ Eject(DriveA) /\ UNCHANGED run
     \/ Mounted(DriveA) /\ EjectFails(DriveA) /\ run' = "stopping"
  /\ UNCHANGED <<index, snap, written, writes>>

\* fdd.swap of the RPC server and fdd1/fdd2 of the prompt, any drive and file.
FddSwap(d, f) ==
  /\ run = "up" /\ Asked(d, f)
  /\ Insert(d, f) \/ InsertFails(d, f)
  /\ UNCHANGED <<index, snap, written, writes, run>>

\* The RPC server answers an eject's OSError, the prompt does not catch it.
FddEject(d) ==
  /\ run = "up"
  /\ \/ Eject(d) /\ UNCHANGED run
     \/ EjectFails(d) /\ run' \in {"up", "stopping"}
  /\ UNCHANGED <<index, snap, written, writes>>

----------------------------------------------------------------------------
(* Save states: disks first, then the snapshot. SRAM files are not written. *)
(* A failure under F8 ends the host loop, the RPC server answers it.        *)

\* Mutant: the snapshot is taken before the disks are written back.
SaveStateFirst ==
  /\ run = "up"
  /\ snap' = data
  /\ UNCHANGED <<data, dirty, locked, diskFile, file, index, written, writes, run>>

SaveState ==
  /\ run = "up"
  /\ \/ PersistAll(Drives) /\ snap' = data /\ UNCHANGED run
     \/ PersistAll(Drives) /\ UNCHANGED snap /\ run' \in {"up", "stopping"}
     \/ PersistFails(Drives) /\ UNCHANGED snap /\ run' \in {"up", "stopping"}
  /\ UNCHANGED <<data, locked, diskFile, index, written, writes>>

\* Every drive holds a disk of the identity it had at the save.
DisksMatch == \A d \in Drives : snap[d] = data[d]

\* SramImage.restore marks the image dirty when its content changes.
RestoreSilently(m) == FALSE  \* Mutant: a restored image counts as saved.
RestoreDirties(m) == m \in Srams /\ data[m] # snap[m]

LoadState ==
  /\ run = "up" /\ snap # NoState /\ DisksMatch
  /\ data' = [m \in Media |-> IF m \in Srams THEN snap[m] ELSE data[m]]
  /\ dirty' = [m \in Media |-> dirty[m] \/ RestoreDirties(m)]
  /\ written' = [f \in AllFiles |->
       IF \E s \in Srams : SramFile[s] = f
       THEN snap[CHOOSE s \in Srams : SramFile[s] = f] ELSE written[f]]
  /\ UNCHANGED <<locked, diskFile, file, index, snap, writes, run>>

----------------------------------------------------------------------------
(* The life of the process.                                                 *)

Quit ==
  /\ run = "up"
  /\ run' = "stopping"
  /\ UNCHANGED <<data, dirty, locked, diskFile, file, index, snap, written, writes>>

\* Mutant: an error while writing back goes unnoticed.
CleanupSilent ==
  /\ run = "stopping"
  /\ PersistAll(Media) \/ PersistFails(Media)
  /\ run' = "exited"
  /\ UNCHANGED <<data, locked, diskFile, index, snap, written, writes>>

\* The finally clause of main: every dirty medium back to its file.
Cleanup ==
  /\ run = "stopping"
  /\ \/ PersistAll(Media) /\ run' = "exited"
     \/ PersistFails(Media) /\ run' = "failed"
  /\ UNCHANGED <<data, locked, diskFile, index, snap, written, writes>>

\* Media read from their files, clean. SramImage.of makes an image of another size blank.
PoweredOn(d0, df, fs) ==
  /\ df = [d \in Drives |-> Given(d)]
  /\ d0 = [m \in Media |->
             IF m \in Srams
             THEN IF fs[SramFile[m]] = Torn THEN {} ELSE fs[SramFile[m]]
             ELSE IF df[m] = None THEN NoDisk ELSE fs[df[m]]]

\* The next run of the program. What a failed exit did not write is gone.
Start ==
  /\ run \in {"exited", "failed"}
  /\ \A d \in Drives : Given(d) # None => file[Given(d)] # Torn
  /\ PoweredOn(data', diskFile', file)
  /\ dirty' = [m \in Media |-> FALSE]
  /\ \E protected \in SUBSET {d \in Drives : Given(d) # None} : locked' = [d \in Drives |-> d \in protected]
  /\ index' = 1
  /\ written' = [f \in AllFiles |-> IF file[f] = Torn THEN {} ELSE file[f]]
  /\ run' = "up"
  /\ UNCHANGED <<file, snap, writes>>

Init ==
  /\ file = [f \in AllFiles |-> {}]
  /\ diskFile = [d \in Drives |-> Given(d)]
  /\ data = [m \in Media |-> IF m \in Drives /\ diskFile[m] = None THEN NoDisk ELSE {}]
  /\ dirty = [m \in Media |-> FALSE]
  /\ locked = [d \in Drives |-> FALSE]
  /\ index = 1
  /\ snap = NoState
  /\ written = [f \in AllFiles |-> {}]
  /\ writes = 0
  /\ run = "up"

Next ==
  \/ \E m \in Media : GuestWrite(m)
  \/ DiskNext
  \/ DiskToggleEject
  \/ \E d \in Drives, f \in DiskFiles : FddSwap(d, f)
  \/ \E d \in Drives : FddEject(d)
  \/ SaveState
  \/ LoadState
  \/ Quit
  \/ Cleanup
  \/ Start

Spec == Init /\ [][Next]_vars

----------------------------------------------------------------------------
(* Properties.                                                              *)

TypeOK ==
  /\ data \in [Media -> Contents \cup {NoDisk}]
  /\ \A s \in Srams : data[s] \in Contents
  /\ dirty \in [Media -> BOOLEAN]
  /\ locked \in [Drives -> BOOLEAN]
  /\ diskFile \in [Drives -> DiskFiles \cup {None}]
  /\ file \in [AllFiles -> Contents \cup {Torn}]
  /\ index \in Nat \ {0} /\ (FddList # <<>> => index <= Len(FddList))
  /\ snap = NoState \/ ( /\ snap \in [Media -> Contents \cup {NoDisk}]
                      /\ \A s \in Srams : snap[s] \in Contents )
  /\ written \in [AllFiles -> Contents]
  /\ writes \in 0 .. MaxWrites
  /\ run \in {"up", "stopping", "exited", "failed"}

\* What a reader of file f gets of the guest's writes.
OnFile(f) == IF file[f] = Torn THEN {} ELSE file[f]

\* The host's table names a file for exactly the drives that hold an image,
\* whatever swap failed half way: media_paths would otherwise write no disk
\* back, or a write-back would find no bytes.
TableMatchesDrives == \A d \in Drives : Mounted(d) <=> diskFile[d] # None

\* A medium that is not dirty has the content of its file: a swap, a save or an
\* exit may skip it.
CleanMatchesFile ==
  \A m \in Media : Mounted(m) /\ ~dirty[m] => data[m] = OnFile(Backing(m))

\* Every write the guest made to a medium is in the medium's file, or still in
\* the core in an image that will be written to that file.
NoLostUpdate ==
  \A f \in AllFiles :
    \/ OnFile(f) = written[f]
    \/ \E m \in Media : Mounted(m) /\ dirty[m] /\ Backing(m) = f /\ data[m] = written[f]

\* After an exit that reported no error, every file has every write.
CleanExitKeepsAll ==
  run = "exited" => \A f \in AllFiles : OnFile(f) = written[f]

\* The disk identities a save state records are those of the .dsk files on the
\* host's disk, so the state loads again after a restart (save_state writes
\* pending disk writes back first for that).
SaveStateNamesFiles ==
  [][snap' # snap =>
       \A d \in Drives : snap'[d] # NoDisk => file'[diskFile'[d]] = snap'[d]]_vars
=============================================================================
