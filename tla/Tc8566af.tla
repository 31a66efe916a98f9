------------------------------ MODULE Tc8566af ------------------------------
(***************************************************************************)
(* The TC8566AF floppy controller of the FS-A1F (src/msx/fdc/tc8566af.py)  *)
(* with its connection (TC8566AFInterface, src/msx/fdc/interface.py) and   *)
(* the drives it owns (src/msx/fdc/disk_drive.py): a command byte, its     *)
(* parameters, the bytes of a sector and a result, all over one register.  *)
(* A program sends the bytes of a script and follows the main status, as   *)
(* the disk ROM does; the host swaps disks, resets, saves and loads at any *)
(* time. A medium is [wp, spt, sides, data], data its sectors in order.    *)
(***************************************************************************)
EXTENDS Bits, SequencesExt

CONSTANTS
  SectorBytes,   \* the bytes of a sector (512 in the code)
  TcJobs         \* what happens: records [drives, disks, script, events, fuel]

ASSUME SectorBytesAssumption == SectorBytes \in Nat \ {0}

VARIABLES
  tc,            \* the fields of the controller, the drives and the media
  tcJob,         \* the rest of the script, with the host's steps that are left (a bound)
  tcSnap,        \* the latest save state
  asked          \* history: the bytes sent since the controller was idle, the media then

tcVars == <<tc, tcJob, tcSnap, asked>>

-----------------------------------------------------------------------------
(* Drives and media.                                                       *)

None == "none"
HasDisk(t, i) == i < Len(t.drives) /\ t.drives[i + 1].image # None
Medium(t, i)  == t.disks[t.drives[i + 1].image]

\* lsn: the logical sector of a track, a side and a sector counted from 1.
Lsn(m, c, h, r)  == (c * m.sides + h) * m.spt + (r - 1)
HasSector(m, l)  == l \in 0..(Len(m.data) - 1)

\* write_sector and format_track of the drive: nothing without a disk, on a protected
\* one, or outside the image.
Written(t, i, sectors, bytes) ==
  IF ~HasDisk(t, i) \/ Medium(t, i).wp THEN t
  ELSE [t EXCEPT !.disks[t.drives[i + 1].image].data =
                   [s \in DOMAIN @ |-> IF s - 1 \in sectors THEN bytes ELSE @[s]]]
TrackSectors(m, c, h) == {Lsn(m, c, h, r) : r \in 1..m.spt}

-----------------------------------------------------------------------------
(* Phases.                                                                 *)

Abort(t) ==
  [t EXCEPT !.phase = "idle", !.command = 0, !.params = <<>>, !.needed = 0, !.result = <<>>,
            !.exec = <<>>, !.isWrite = FALSE]

Resulting(t, bytes) == [t EXCEPT !.result = bytes, !.phase = "result"]

Abnormal(t, i, st0, st1, ctr) == Resulting(t, <<Or(i + 64, st0), st1, 0>> \o ctr)

\* _start_result_phase: the sector number counted on.
SectorDone(t) ==
  Resulting(t, <<t.selected % 4, 0, 0, t.ctr[1], t.ctr[2], (t.ctr[3] + 1) % 256, t.ctr[4]>>)

DataPhase(t, isWrite, bytes, ctr) ==
  [t EXCEPT !.phase = "execution", !.isWrite = isWrite, !.exec = bytes, !.ctr = ctr]

\* The commands by their low five bits, with the parameters they take.
ParamCount ==
  [c \in {3, 4, 5, 6, 7, 8, 13, 15} |->
     CASE c = 8 -> 0 [] c \in {4, 7} -> 1 [] c \in {3, 15} -> 2 [] c = 13 -> 5 [] c \in {5, 6} -> 8]
Opcode(t) == t.command % 32

\* The drive and head in the first parameter.
Unit(p) == p[1] % 4
HeadOf(p) == (p[1] \div 4) % 2

\* SENSE DEVICE STATUS
SenseDevice(t, p) ==
  LET i == Unit(p)
      ready == IF HasDisk(t, i)
                 THEN 32 + BitValue(Medium(t, i).wp, 6) + BitValue(t.drives[i + 1].track = 0, 4) ELSE 0
  IN Resulting(t, <<i + 4 * HeadOf(p) + ready>>)

\* SEEK and RECALIBRATE: done at once, with or without a disk, and without a result:
\* SENSE INTERRUPT STATUS asks for it. A drive that does not exist is not ready.
Seek(t, p, cylinder) ==
  LET i == Unit(p)
      exists == i < Len(t.drives)
      w == [t EXCEPT !.selected = i, !.phase = "idle",
                     !.lastSt0 = i + 4 * HeadOf(p) + 32 + (IF exists THEN 0 ELSE 8),
                     !.lastPcn = IF exists THEN cylinder ELSE 0]
  IN IF exists THEN [w EXCEPT !.drives[i + 1].track = cylinder] ELSE w

\* The result of a seek is given once.
SenseInterrupt(t) ==
  [Resulting(t, <<t.lastSt0, t.lastPcn>>) EXCEPT !.lastSt0 = 128, !.lastPcn = 0]

\* READ DATA and WRITE DATA: refused without a disk, without the sector, and on a
\* protected one for a write.
SectorCommand(t, p, isWrite) ==
  LET w   == [t EXCEPT !.selected = Unit(p)]
      ctr == SubSeq(p, 2, 5)
      lsn == Lsn(Medium(t, Unit(p)), p[2], p[3], p[4])
  IN IF ~HasDisk(t, Unit(p)) THEN Abnormal(w, Unit(p), 8, 0, ctr)
     ELSE IF isWrite /\ Medium(t, Unit(p)).wp THEN Abnormal(w, Unit(p), 0, 2, ctr)
     ELSE IF ~HasSector(Medium(t, Unit(p)), lsn) THEN Abnormal(w, Unit(p), 0, 4, ctr)
     ELSE IF isWrite THEN [DataPhase(w, TRUE, <<>>, ctr) EXCEPT !.execNeeded = SectorBytes]
     ELSE DataPhase(w, FALSE, Medium(t, Unit(p)).data[lsn + 1], ctr)

\* FORMAT takes a descriptor of four bytes for each sector.
Format(t, p) ==
  LET w   == [t EXCEPT !.selected = Unit(p)]
      ctr == <<0, HeadOf(p), 0, 0>>
  IN IF ~HasDisk(t, Unit(p)) THEN Abnormal(w, Unit(p), 8, 0, ctr)
     ELSE IF Medium(t, Unit(p)).wp THEN Abnormal(w, Unit(p), 0, 2, ctr)
     ELSE [DataPhase(w, TRUE, <<>>, ctr) EXCEPT !.execNeeded = 4 * Max({1, p[3]}), !.fill = p[5]]

Execute(t) ==
  LET p == t.params IN
  CASE Opcode(t) = 3  -> [t EXCEPT !.phase = "idle"]
    [] Opcode(t) = 8  -> SenseInterrupt(t)
    [] Opcode(t) = 4  -> SenseDevice(t, p)
    [] Opcode(t) = 7  -> Seek(t, p, 0)
    [] Opcode(t) = 15 -> Seek(t, p, p[2])
    [] Opcode(t) = 6  -> SectorCommand(t, p, FALSE)
    [] Opcode(t) = 5  -> SectorCommand(t, p, TRUE)
    [] Opcode(t) = 13 -> Format(t, p)

-----------------------------------------------------------------------------
(* The data register, the main status and the control register.            *)

StartCommand(t, b) ==
  LET w == [t EXCEPT !.command = b]
      n == ParamCount[b % 32]
  IN IF b % 32 \notin DOMAIN ParamCount THEN Resulting(w, <<128>>)
     ELSE IF n = 0 THEN Execute([w EXCEPT !.params = <<>>, !.needed = 0])
     ELSE [w EXCEPT !.params = <<>>, !.needed = n, !.phase = "command"]

\* The last byte of a sector writes it, that of a format blanks the track under the
\* head, and both end in a result.
LastByte(t) ==
  LET i == t.selected IN
  IF Opcode(t) = 13
    THEN Resulting(Written(t, i, IF HasDisk(t, i) THEN TrackSectors(Medium(t, i), t.drives[i + 1].track, t.ctr[2])
                                 ELSE {},
                           [b \in 1..SectorBytes |-> t.fill]),
                   <<i % 4, 0, 0, 0, t.ctr[2], 0, 0>>)
  ELSE SectorDone(Written(t, i, IF HasDisk(t, i) THEN {Lsn(Medium(t, i), t.ctr[1], t.ctr[2], t.ctr[3])} ELSE {},
                          t.exec))

WriteDataRegister(t, b) ==
  CASE t.phase = "idle" -> StartCommand(t, b)
    [] t.phase = "command" ->
         LET w == [t EXCEPT !.params = Append(@, b)] IN
         IF Len(w.params) >= t.needed THEN Execute(w) ELSE w
    [] t.phase = "execution" /\ t.isWrite ->
         LET w == [t EXCEPT !.exec = Append(@, b)] IN
         IF Len(w.exec) >= t.execNeeded THEN LastByte(w) ELSE w
    [] OTHER -> t

\* What a read leaves: the buffers hold what was not read yet.
ReadDataRegister(t) ==
  CASE t.phase = "execution" /\ ~t.isWrite /\ t.exec # <<>> ->
         IF Len(t.exec) = 1 THEN SectorDone([t EXCEPT !.exec = <<>>]) ELSE [t EXCEPT !.exec = Tail(@)]
    [] t.phase = "result" /\ t.result # <<>> ->
         [t EXCEPT !.result = Tail(@), !.phase = IF Len(t.result) = 1 THEN "idle" ELSE @]
    [] OTHER -> t

\* The direction in the main status: the program is to read.
ToRead(t) == t.phase = "result" \/ (t.phase = "execution" /\ ~t.isWrite)

\* -FRST = 0 holds the controller in reset.
WriteControl0(t, b) ==
  LET w == [t EXCEPT !.control0 = b] IN IF Bit(b, 2) THEN w ELSE Abort(w)

TcReset(t) == Abort([t EXCEPT !.control0 = 0, !.selected = 0, !.lastSt0 = 128, !.lastPcn = 0])

\* A swap ends a transfer when it is of the first drive, which this controller keeps
\* as its own: the drive of the transfer is not looked at.
\* Mutant: no transfer ends.
SwapOnly(t, i, image) == [t EXCEPT !.drives[i].image = image]
Swapped(t, i, image) ==
  LET w == [t EXCEPT !.drives[i].image = image] IN IF i = 1 THEN Abort(w) ELSE w

-----------------------------------------------------------------------------
(* The program and the host.                                               *)

NewTc(drives, disks) ==
  [drives |-> drives, disks |-> disks, control0 |-> 0, phase |-> "idle", command |-> 0, params |-> <<>>,
   needed |-> 0, result |-> <<>>, exec |-> <<>>, isWrite |-> FALSE, execNeeded |-> 0,
   ctr |-> <<0, 0, 0, 0>>, fill |-> 0, selected |-> 0, lastSt0 |-> 128, lastPcn |-> 0]

\* A program sends bytes, and the disks are images of whole sectors.
ASSUME TcAssumption ==
  \A j \in TcJobs :
    /\ {"drives", "disks", "script", "events", "fuel"} \subseteq DOMAIN j
    /\ j.script \in Seq(Byte)
    /\ j.disks \in [DOMAIN j.disks -> [wp : BOOLEAN, spt : Nat, sides : Nat, data : Seq(Seq(Byte))]]
    /\ j.drives \in Seq([image : {None} \union DOMAIN j.disks, track : Nat])

Media(t) == [i \in DOMAIN t.drives |-> t.drives[i].image]

\* The bytes of a command, and the media in the drives when it began.
Asked(t, sent) ==
  IF t.phase = "idle" THEN [sent |-> <<>>, media |-> Media(t)]
  ELSE [sent |-> sent, media |-> IF tc.phase = "idle" THEN Media(t) ELSE asked.media]

TcProgram ==
  IF ToRead(tc)
    THEN /\ tc' = ReadDataRegister(tc) /\ asked' = Asked(tc', asked.sent)
         /\ UNCHANGED <<tcJob, tcSnap>>
    ELSE /\ tcJob.script # <<>>
         /\ tcJob' = [tcJob EXCEPT !.script = Tail(@)]
         /\ tc' = WriteDataRegister(tc, Head(tcJob.script))
         /\ asked' = Asked(tc', Append(asked.sent, Head(tcJob.script)))
         /\ UNCHANGED tcSnap

TcHost(e) == e \in tcJob.events /\ tcJob.fuel > 0 /\ tcJob' = [tcJob EXCEPT !.fuel = @ - 1]

TcSwap ==
  /\ TcHost("swap")
  /\ \E i \in DOMAIN tc.drives, image \in {None} \union DOMAIN tc.disks :
       /\ \A j \in DOMAIN tc.drives : tc.drives[j].image # image \/ image = None
       /\ tc' = Swapped(tc, i, image)
  /\ asked' = Asked(tc', asked.sent)
  /\ UNCHANGED tcSnap

TcControl ==
  /\ TcHost("control")
  /\ \E b \in {0, 4} : tc' = WriteControl0(tc, b)
  /\ asked' = Asked(tc', asked.sent)
  /\ UNCHANGED tcSnap

TcMachineReset ==
  /\ TcHost("reset")
  /\ tc' = TcReset(tc)
  /\ asked' = Asked(tc', asked.sent)
  /\ UNCHANGED tcSnap

TcSave ==
  /\ TcHost("state")
  /\ tcSnap' = [tc |-> tc, asked |-> asked]
  /\ UNCHANGED <<tc, asked>>

\* A state is loaded only over the disks it was saved with (their contents are
\* compared), and brings back the tracks but not the disks.
Contents(t) == [i \in DOMAIN t.drives |-> IF HasDisk(t, i - 1) THEN Medium(t, i - 1).data ELSE <<>>]
TcLoad ==
  /\ TcHost("state") /\ tcSnap # <<>>
  /\ Contents(tc) = Contents(tcSnap.tc)
  /\ tc' = [tcSnap.tc EXCEPT !.disks = tc.disks,
                             !.drives = [i \in DOMAIN @ |-> [@[i] EXCEPT !.image = tc.drives[i].image]]]
  /\ asked' = [tcSnap.asked EXCEPT !.media = Media(tc)]
  /\ UNCHANGED tcSnap

TcInit ==
  /\ tcJob \in TcJobs
  /\ tc = NewTc(tcJob.drives, tcJob.disks)
  /\ tcSnap = <<>>
  /\ asked = [sent |-> <<>>, media |-> Media(tc)]

TcNext == TcProgram \/ TcSwap \/ TcControl \/ TcMachineReset \/ TcSave \/ TcLoad

-----------------------------------------------------------------------------

\* A disk changes only when the last byte of a command arrives whose bytes were all
\* sent since the controller was idle: WRITE DATA puts its data into the sector that
\* its parameters name, FORMAT its filler into the track of the head, and both into
\* the disk that was in the drive when the command began. Swaps of the second drive
\* are the exception that the code makes (FloppyDiskState.swap looks at the drive the
\* controller keeps, which is always the first).
WrittenAsAsked ==
  \A m \in DOMAIN tc.disks : tc'.disks[m] # tc.disks[m] =>
       LET s == asked'.sent
           i == s[2] % 4
           img == tc.disks[m]
           changed == {l \in DOMAIN img.data : tc'.disks[m].data[l] # img.data[l]}
           track == IF s[1] % 32 = 13 THEN TrackSectors(img, tc.drives[i + 1].track, (s[2] \div 4) % 2) ELSE {}
       IN /\ ~img.wp /\ tc.drives[i + 1].image = m
          /\ i = 0 => asked.media[1] = m
          /\ \/ /\ s[1] % 32 = 5 /\ Len(s) = 9 + SectorBytes
                /\ changed = {Lsn(img, s[3], s[4], s[5]) + 1}
                /\ \A l \in changed : tc'.disks[m].data[l] = SubSeq(s, 10, 9 + SectorBytes)
             \/ /\ s[1] % 32 = 13 /\ Len(s) = 6 + 4 * Max({1, s[4]})
                /\ changed \subseteq {l + 1 : l \in track}
                /\ \A l \in track : l + 1 \in DOMAIN img.data =>
                     tc'.disks[m].data[l + 1] = [b \in 1..SectorBytes |-> s[6]]
=============================================================================
