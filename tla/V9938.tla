------------------------------- MODULE V9938 -------------------------------
(***************************************************************************)
(* The V9938 (src/msx/vdp/v9938.py): the ports with their latches, the     *)
(* registers, the status registers with the interrupt line, the command    *)
(* engine of VdpEngine, and the log from which the renderer                *)
(* (v9938_renderer.py) draws every row with the registers it was shown     *)
(* with.                                                                   *)
(***************************************************************************)
EXTENDS VdpEngine

CONSTANTS
  VdpJobs,      \* what a program does: records [chip, writes, reads, events, fuel]
  TickTimes,    \* the T-states of an instruction, as tick() is told
  FieldLines    \* the raster lines stepped through, in order; the others only move the raster

VARIABLES
  vdp,          \* the fields of the chip
  vdpJob,       \* what this program does, with the steps that are left (a bound)
  vdpSnap,      \* the latest save state
  work,         \* history: the latest command, VRAM then, what was sent and taken
  pair,         \* history: the control bytes since the last access that ends a pair
  rows          \* history: registers and palette at the end of each line of this frame

v9938Vars == <<vdp, vdpJob, vdpSnap, work, pair, rows>>

-----------------------------------------------------------------------------
(* Registers and the interrupt line.                                       *)

\* The bits of R#0 to R#27 that exist.
RegMask ==
  <<126, 127, 127, 255, 63, 255, 63, 255, 251, 191, 7, 3, 255, 255, 7, 15,
    15, 191, 255, 255, 63, 63, 63, 255, 255, 255, 255, 255>>

\* irq_pending: F under IE0, FH under IE1.
IrqPending(v) ==
  \/ Bit(v.regs[1], 5) /\ Bit(v.status, 7)
  \/ Bit(v.regs[0], 4) /\ v.fh

UpdateIrq(v) == [v EXCEPT !.irq = IrqPending(v)]

\* _restart_blink
RestartBlink(v, r13) ==
  [v EXCEPT !.blinkOn = r13 > 15,
            !.blinkCount = IF r13 > 15 /\ r13 % 16 > 0 THEN (r13 \div 16) * 10 ELSE 0]

\* The registers the picture depends on: their changes are logged with the line.
DisplayRegs == (0..13) \union {18, 19, 23}
Changed(v, what, b) == Append(v.changes, [line |-> v.line, what |-> what, value |-> b])

\* The address pointer: a place in a bank of 16 KB, and the bank, which R#14 selects.
Bank == 16384

\* _write_register. Clearing IE1 also clears FH; R#14 moves the address pointer.
WriteRegister(v, r, b) ==
  LET val == And(b, RegMask[r + 1])
      w   == [v EXCEPT !.regs[r] = val,
                       !.changes = IF r \in DisplayRegs THEN Changed(v, <<"reg", r>>, val) ELSE @]
  IN IF r > 27 THEN (IF r \in 32..46 THEN CommandRegister(v, r, b) ELSE v)
     ELSE CASE r = 0  -> UpdateIrq([w EXCEPT !.fh = @ /\ ~(Bit(v.regs[0], 4) /\ ~Bit(val, 4))])
            [] r = 1  -> UpdateIrq(w)
            [] r = 13 -> RestartBlink(w, val)
            [] r = 14 -> [w EXCEPT !.addr = (val % 8) * Bank + (@ % Bank)]
            [] OTHER  -> w

\* _advance_addr: past a 16 KB bank the bitmap modes carry into R#14.
Advanced(v) ==
  LET low == (v.addr + 1) % Bank
      r14 == (v.regs[14] + 1) % 8
  IN IF low = 0 /\ And(v.regs[0], 12) # 0 THEN [v EXCEPT !.regs[14] = r14, !.addr = r14 * Bank]
     ELSE [v EXCEPT !.addr = (@ \div Bank) * Bank + low]

-----------------------------------------------------------------------------
(* The ports.                                                              *)

WriteData(v, b) ==
  Advanced([SetVram(v, v.addr, b) EXCEPT !.readBuf = b, !.pending = FALSE])

ReadData(v) ==
  Advanced([v EXCEPT !.readBuf = Vram(v, v.addr), !.pending = FALSE])

\* _write_control_port: a second byte of 0xC0 and above has no effect.
WriteControl(v, b) ==
  IF ~v.pending THEN [v EXCEPT !.first = b, !.pending = TRUE]
  ELSE LET w == [v EXCEPT !.pending = FALSE]
           a == (v.regs[14] % 8) * Bank + (b % 64) * 256 + v.first
       IN CASE b > 191         -> w
            [] b \in 128..191  -> WriteRegister(w, b % 64, v.first)
            [] b \in 64..127   -> [w EXCEPT !.addr = a]
            [] b < 64          -> Advanced([w EXCEPT !.addr = a, !.readBuf = Vram(v, a)])

\* Two bytes a colour; the first shares its place with the control port.
WritePalette(v, b) ==
  IF ~v.palPending THEN [v EXCEPT !.first = b, !.palPending = TRUE]
  ELSE LET i   == v.regs[16] % 16
           rgb == ((v.first \div 16) % 8) * 64 + (b % 8) * 8 + (v.first % 8)
       IN [v EXCEPT !.palPending = FALSE, !.palette[i] = rgb, !.regs[16] = (i + 1) % 16,
                    !.changes = Changed(v, <<"palette", i>>, rgb)]

\* _write_indirect_register: the pointer goes on from its value before the write.
WriteIndirect(v, b) ==
  LET p == v.regs[17]
      pointer(r17) == IF p > 127 THEN r17 ELSE (r17 \div 64) * 64 + ((p + 1) % 64)
  IN [WriteRegister(v, p % 64, b) EXCEPT !.regs[17] = pointer(@)]

WritePort(v, port, b) ==
  CASE port = 0 -> WriteData(v, b)
    [] port = 1 -> WriteControl(v, b)
    [] port = 2 -> WritePalette(v, b)
    [] port = 3 -> WriteIndirect(v, b)

\* Mutant: only a read of S#0 ends a control pair.
ReadStatusKeepingPair(v) ==
  LET w == [v EXCEPT !.pending = IF v.regs[15] = 0 THEN FALSE ELSE @] IN
  CASE v.regs[15] = 0 -> UpdateIrq([w EXCEPT !.status = @ % 32])
    [] v.regs[15] = 1 -> UpdateIrq([w EXCEPT !.fh = FALSE])
    [] OTHER -> w

\* What a read of S#n changes. Every one of them ends a control pair.
ReadStatus(v) ==
  LET w == [v EXCEPT !.pending = FALSE] IN
  CASE v.regs[15] = 0 -> UpdateIrq([w EXCEPT !.status = @ % 32])
    [] v.regs[15] = 1 -> UpdateIrq([w EXCEPT !.fh = FALSE])
    [] v.regs[15] = 5 -> [w EXCEPT !.collision = <<0, 0>>]
    [] v.regs[15] = 7 -> IF v.active /\ v.code = 10 THEN AdvanceLmcm(w)
                         ELSE IF ~v.active THEN [w EXCEPT !.tr = FALSE] ELSE w
    [] v.regs[15] = 9 -> [w EXCEPT !.bd = FALSE]
    [] OTHER -> w

\* What it returns.
Flag(b, k) == BitValue(b, k)
DisplayHeight(v) == IF Bit(v.regs[9], 7) THEN 212 ELSE 192
StatusByte(v) ==
  CASE v.regs[15] = 0 -> IF Bit(v.status, 6) THEN v.status ELSE (v.status \div 32) * 32 + 31
    [] v.regs[15] = 1 -> Flag(v.fh, 0)
    [] v.regs[15] = 2 -> Flag(v.tr, 7) + Flag(v.line >= DisplayHeight(v), 6)
                           + Flag(v.lineCycle >= 170, 5) + Flag(v.bd, 4) + 12 + Flag(v.eo, 1)
                           + Flag(v.ce, 0)
    [] v.regs[15] = 3 -> v.collision[1] % 256
    [] v.regs[15] = 4 -> 254 + v.collision[1] \div 256
    [] v.regs[15] = 5 -> v.collision[2] % 256
    [] v.regs[15] = 6 -> 252 + Flag(v.eo, 1) + v.collision[2] \div 256
    [] v.regs[15] = 7 -> v.cmd[12]
    [] v.regs[15] = 8 -> v.status8
    [] v.regs[15] = 9 -> Or(v.status9, 254)
    [] OTHER -> 255

ReadPort(v, port) ==
  CASE port = 0 -> ReadData(v) [] port = 1 -> ReadStatus(v) [] OTHER -> v

-----------------------------------------------------------------------------
(* Time, the frame, reset and save states.                                 *)

\* begin_scanline, which follows the cycles of the line: the log starts over at line
\* 0; F at the line of the vertical blanking; FH at the line of R#19 behind the scroll
\* of R#23, and only while IE1 is set.
BeginScanline(v, line) ==
  LET o == IF line = 0
             THEN [v EXCEPT !.startRegs = v.regs, !.startPalette = v.palette, !.changes = <<>>]
             ELSE v
      w == [o EXCEPT !.line = line, !.lineCycle = 0]
      f == IF line = DisplayHeight(v) THEN UpdateIrq([w EXCEPT !.status = (@ % 128) + 128]) ELSE w
  IN IF line = (v.regs[19] - v.regs[23]) % 256 /\ Bit(v.regs[0], 4)
       THEN UpdateIrq([f EXCEPT !.fh = TRUE]) ELSE f

\* tick, which the machine calls only while a command is active; otherwise it
\* counts the cycles of the line itself.
Tick(v, n) ==
  LET w  == [v EXCEPT !.lineCycle = @ + n]
      w1 == IF v.remaining <= 0 THEN w
            ELSE IF v.remaining > n THEN [w EXCEPT !.remaining = @ - n]
            ELSE [Completed(w) EXCEPT !.remaining = v.remaining - n]
  IN IF ~v.active THEN w
     ELSE IF w1.trDelay <= 0 THEN w1
     ELSE [w1 EXCEPT !.trDelay = @ - n, !.tr = @ \/ (w1.trDelay <= n /\ w1.active)]

\* increment_frame, with the blink timer.
IncrementFrame(v) ==
  LET on == ~v.blinkOn
      w  == [v EXCEPT !.odd = ~@]
  IN IF v.blinkCount # 1 THEN [w EXCEPT !.blinkCount = IF @ = 0 THEN 0 ELSE @ - 1]
     ELSE [w EXCEPT !.blinkOn = on,
                    !.blinkCount = (IF on THEN v.regs[13] \div 16 ELSE v.regs[13] % 16) * 10]

\* commit_render_status: the sprites of a frame. F stays; a fifth sprite or a
\* collision is added, the collision with its place. EO is the parity of the frame.
CommitRenderStatus(v, sprite, hit) ==
  LET s == IF sprite THEN And(v.status, 160) + 64 + 5 ELSE v.status IN
  [v EXCEPT !.status = IF hit THEN Or(s, 32) ELSE s, !.eo = v.odd,
            !.collision = IF hit /\ ~Bit(s, 5) THEN <<260, 9>> ELSE @]

DefaultPalette ==
  [i \in 0..15 |-> <<0, 0, 113, 251, 79, 159, 329, 183, 457, 475, 433, 436, 97, 405, 365, 511>>[i + 1]]
PowerOnRegs == [r \in 0..27 |-> IF r = 21 THEN 59 ELSE IF r = 22 THEN 5 ELSE 0]

\* reset() touches neither VRAM nor the size and the geometry of the latest command,
\* nor the log.
ResetChip(v) ==
  [v EXCEPT !.regs = PowerOnRegs, !.status = 0, !.palette = DefaultPalette,
            !.cmd = [i \in 0..14 |-> 0], !.fh = FALSE, !.ce = FALSE, !.tr = FALSE, !.bd = FALSE,
            !.eo = FALSE, !.status8 = 0, !.status9 = 0, !.blinkOn = FALSE, !.blinkCount = 0,
            !.collision = <<0, 0>>, !.remaining = 0, !.active = FALSE, !.code = 0,
            !.transfer = FALSE, !.trDelay = 0, !.x = 0, !.y = 0, !.addr = 0, !.first = 0,
            !.pending = FALSE, !.palPending = FALSE, !.readBuf = 0, !.irq = FALSE, !.line = 0,
            !.lineCycle = 0]

\* The chip as it is built, with the VRAM given.
NewChip(vram) ==
  ResetChip([vram |-> vram, regs |-> PowerOnRegs, cmd |-> [i \in 0..14 |-> 0], status |-> 0,
             palette |-> DefaultPalette, fh |-> FALSE, ce |-> FALSE, tr |-> FALSE, bd |-> FALSE,
             eo |-> FALSE, status8 |-> 0, status9 |-> 0, blinkOn |-> FALSE, blinkCount |-> 0,
             collision |-> <<0, 0>>, remaining |-> 0, active |-> FALSE, code |-> 0,
             transfer |-> FALSE, trDelay |-> 0, log |-> 0, x0 |-> 0, y0 |-> 0, nx |-> 0, ny |-> 0,
             x |-> 0, y |-> 0, xs |-> 1, ys |-> 1, geo |-> Geometry(0), addr |-> 0, first |-> 0,
             pending |-> FALSE, palPending |-> FALSE, readBuf |-> 0, irq |-> FALSE, line |-> 0,
             lineCycle |-> 0, odd |-> FALSE, changes |-> <<>>, startRegs |-> PowerOnRegs,
             startPalette |-> DefaultPalette])

\* A program starts on a chip that was built and then set up at its ports, by whole
\* control pairs; what it writes are bytes at the four ports.
ASSUME VdpAssumption ==
  \A j \in VdpJobs :
    LET v == j.chip IN
    /\ {"writes", "fuel"} \subseteq DOMAIN j /\ j.writes \subseteq (0..3) \X Byte
    /\ {"regs", "status", "fh", "irq", "addr", "first", "pending", "cmd", "code"} \subseteq DOMAIN v
    /\ v.regs \in [0..27 -> Nat] /\ DOMAIN v.cmd = 0..14
    /\ v.status \in Byte /\ v.fh \in BOOLEAN /\ v.first \in Byte
    /\ v.pending = FALSE /\ v.irq = IrqPending(v)

\* Restored by _apply_vdp: everything but the interrupt line, which is derived, and
\* the raster position and the log, which a save state does not hold.
Restored(v, s) ==
  UpdateIrq([s EXCEPT !.line = v.line, !.lineCycle = v.lineCycle, !.irq = v.irq, !.changes = v.changes,
                      !.startRegs = v.startRegs, !.startPalette = v.startPalette])

-----------------------------------------------------------------------------
(* The rows of the picture (v9938_renderer). A change logged at a line is  *)
(* shown from the next line on; without a change the live registers serve. *)

\* Mutant: a change is shown on the line it was logged at.
ShownFromAtOnce(e) == e.line
ShownFrom(e) == e.line + 1

IsAdjust(e) == e.what = <<"reg", 18>>

\* The changes that a row shows, line after line, those of a line in order: of the
\* display adjust or of all else.
ChangesUntil(v, y, adjust) ==
  LET lines == {ShownFrom(e) : e \in Range(v.changes)} \intersect (1..y)
      of(l) == SelectSeq(v.changes, LAMBDA e : IsAdjust(e) = adjust /\ ShownFrom(e) = l)
  IN FoldLeft(LAMBDA seq, l : seq \o of(l), <<>>, SetToSortSeq(lines, LAMBDA a, b : a < b))

\* _build_bands, row by row: the registers and the palette a row is drawn with.
RowState(v, y) ==
  LET apply(s, e) == IF e.what[1] = "palette" THEN [s EXCEPT !.palette[e.what[2]] = e.value]
                     ELSE [s EXCEPT !.regs[e.what[2]] = e.value]
  IN IF v.changes = <<>> THEN [regs |-> v.regs, palette |-> v.palette]
     ELSE FoldLeft(apply, [regs |-> v.startRegs, palette |-> v.startPalette],
                   ChangesUntil(v, y, FALSE))

\* _r18_row_offsets: the display adjust of a row.
RowAdjust(v, y) ==
  LET adjusts == ChangesUntil(v, y, TRUE) IN
  IF adjusts # <<>> THEN Last(adjusts).value
  ELSE IF \E e \in Range(v.changes) : IsAdjust(e) THEN v.startRegs[18] ELSE v.regs[18]

-----------------------------------------------------------------------------
(* History. The work: the command that was started, with its operands and  *)
(* the VRAM as they were, the bytes a transfer was sent (the first one may *)
(* have been loaded before the start) and the dots that were taken.        *)

NoWork == [code |-> 0, loaded |-> FALSE, known |-> FALSE]
Forgotten(w) == [w EXCEPT !.known = FALSE]

\* The register that a write reaches, and the byte for it.
RegisterReached(v, port, b) ==
  IF port = 3 THEN v.regs[17] % 64
  ELSE IF port = 1 /\ v.pending /\ b \in 128..191 THEN b % 64 ELSE -1
ByteSent(v, port, b) == IF port = 1 THEN v.first ELSE b

Transfers == {11, 15}

WorkStarted(v, val) ==
  LET code == IF IsCommandMode(v.regs[0]) THEN val \div 16 ELSE 0
      feeds == code \in Transfers
  IN [code |-> code, known |-> TRUE, o |-> Operands([v EXCEPT !.cmd[14] = val]), geo |-> Geometry(v.regs[0]),
      old |-> v.vram, got |-> <<>>, loaded |-> work.loaded /\ ~feeds,
      sent |-> IF feeds /\ work.loaded THEN <<v.cmd[12]>> ELSE <<>>]

\* A write of VRAM by the CPU, of the arguments or of the staged dot is not the command's.
WorkAfterWrite(v, port, b) ==
  LET r == RegisterReached(v, port, b)
      feeds == work.code \in Transfers /\ v.ce
  IN CASE r = 46 -> WorkStarted(v, ByteSent(v, port, b))
       [] r = 44 /\ feeds -> [work EXCEPT !.sent = Append(@, ByteSent(v, port, b))]
       [] r = 44 /\ ~feeds ->
            [IF work.code = 10 THEN Forgotten(work) ELSE work EXCEPT !.loaded = TRUE]
       [] port = 0 \/ r = 45 -> Forgotten(work)
       [] OTHER -> work

WorkAfterRead(v, port) ==
  IF port = 1 /\ v.regs[15] = 7 /\ work.code = 10 THEN [work EXCEPT !.got = Append(@, StatusByte(v))]
  ELSE work

\* The pair: the bytes so far, whether both are the program's own (the palette port
\* shares the first one), and the pair just completed.
NoPair == [bytes |-> <<>>, own |-> TRUE, done |-> FALSE]
PairAfterWrite(port, b) ==
  CASE port = 0 -> NoPair
    [] port = 1 -> IF Len(pair.bytes) = 1 THEN [pair EXCEPT !.bytes = Append(@, b), !.done = TRUE]
                   ELSE [NoPair EXCEPT !.bytes = <<b>>]
    [] port = 2 -> [pair EXCEPT !.own = FALSE, !.done = FALSE]
    [] port = 3 -> [pair EXCEPT !.done = FALSE]
PairAfterRead(port) == IF port \in {0, 1} THEN NoPair ELSE pair

NoRows == <<>>

-----------------------------------------------------------------------------
(* The machine: a program at the ports, the raster, the host.              *)

VdpStep == vdpJob.fuel > 0 /\ vdpJob' = [vdpJob EXCEPT !.fuel = @ - 1]
VdpEvent(e) == VdpStep /\ e \in vdpJob.events

VdpWrite ==
  /\ VdpStep
  /\ \E w \in vdpJob.writes :
       /\ vdp' = WritePort(vdp, w[1], w[2])
       /\ work' = WorkAfterWrite(vdp, w[1], w[2])
       /\ pair' = PairAfterWrite(w[1], w[2])
  /\ UNCHANGED <<vdpSnap, rows>>

VdpRead ==
  /\ VdpStep
  /\ \E port \in vdpJob.reads :
       /\ vdp' = ReadPort(vdp, port)
       /\ work' = WorkAfterRead(vdp, port)
       /\ pair' = PairAfterRead(port)
  /\ UNCHANGED <<vdpSnap, rows>>

\* Within a line: the T-states of one instruction.
VdpTick ==
  /\ VdpEvent("tick")
  /\ \E n \in TickTimes : vdp' = Tick(vdp, n)
  /\ UNCHANGED <<vdpSnap, work, pair, rows>>

\* The next line of the field; the frame is over after the last.
NextLine ==
  LET later == {i \in DOMAIN FieldLines : FieldLines[i] > vdp.line} IN
  IF rows = NoRows \/ later = {} THEN FieldLines[1]
  ELSE FieldLines[CHOOSE i \in later : \A j \in later : i <= j]

VdpScanline ==
  /\ VdpEvent("line")
  /\ vdp' = BeginScanline(vdp, NextLine)
  /\ rows' = (IF NextLine = 0 THEN <<>> ELSE rows)
               @@ (NextLine :> [regs |-> vdp.regs, palette |-> vdp.palette])
  /\ UNCHANGED <<vdpSnap, work, pair>>

\* The picture, whenever the blanking begins (R#9 moves it), and the frame count.
VdpRender ==
  /\ VdpEvent("frame")
  /\ \E sprite, hit \in BOOLEAN : vdp' = CommitRenderStatus(vdp, sprite, hit)
  /\ UNCHANGED <<vdpSnap, work, pair, rows>>

VdpFrameEnd ==
  /\ VdpEvent("frame")
  /\ vdp' = IncrementFrame(vdp)
  /\ UNCHANGED <<vdpSnap, work, pair, rows>>

VdpSave ==
  /\ VdpEvent("state")
  /\ vdpSnap' = [vdp |-> vdp, work |-> work, pair |-> pair]
  /\ UNCHANGED <<vdp, work, pair, rows>>

VdpLoad ==
  /\ VdpEvent("state") /\ vdpSnap # <<>>
  /\ vdp' = Restored(vdp, vdpSnap.vdp)
  /\ work' = vdpSnap.work /\ pair' = vdpSnap.pair /\ rows' = NoRows
  /\ UNCHANGED vdpSnap

VdpReset ==
  /\ VdpEvent("reset")
  /\ vdp' = ResetChip(vdp)
  /\ work' = NoWork /\ pair' = NoPair /\ rows' = NoRows
  /\ UNCHANGED vdpSnap

V9938Init ==
  /\ vdpJob \in VdpJobs
  /\ vdp = vdpJob.chip /\ vdpSnap = <<>>
  /\ work = [NoWork EXCEPT !.loaded = vdpJob.chip.transfer]
  /\ pair = NoPair /\ rows = NoRows

V9938Next ==
  \/ VdpWrite \/ VdpRead \/ VdpTick \/ VdpScanline \/ VdpRender \/ VdpFrameEnd
  \/ VdpSave \/ VdpLoad \/ VdpReset

V9938Spec == V9938Init /\ [][V9938Next]_v9938Vars

-----------------------------------------------------------------------------

\* The interrupt line, which the machine reads before every instruction without
\* asking the chip, is the one that the flags and their enable bits call for: every
\* write, status read, scanline and load that changes one of them updates it
\* (update_irq).
VdpIrqFollowsFlags ==
  vdp.irq <=> \/ And(vdp.regs[1], 32) # 0 /\ And(vdp.status, 128) # 0
              \/ And(vdp.regs[0], 16) # 0 /\ vdp.fh

\* After any status read or data access, whichever control byte was pending, the next
\* two bytes on port 1 set the register or the address that they name; only a palette
\* byte between them may change the first, whose place it shares.
VdpPairLands ==
  LET b1 == pair.bytes[1]
      b2 == pair.bytes[2]
      r  == b2 % 64
      a  == (b2 % 64) * 256 + b1
  IN pair.done /\ pair.own =>
       /\ b2 \in 128..191 /\ r <= 27 => vdp.regs[r] = And(b1, RegMask[r + 1])
       /\ b2 \in 128..191 /\ r \in 32..46 /\ r # 44 => vdp.cmd[r - 32] = b1
       /\ b2 \in 64..127 => vdp.addr % Bank = a
       /\ b2 < 64 => vdp.addr % Bank = (a + 1) % Bank

\* Every row of a frame is drawn with the registers, the palette and the adjust of
\* the end of its line: the log with its line numbers gives back what the raster saw,
\* though the picture is drawn once, after the last of them.
RowsShowTheirRegisters ==
  \A y \in DOMAIN rows : y < DisplayHeight(vdp) /\ y <= vdp.line =>
    /\ \A r \in DisplayRegs \ {18} : RowState(vdp, y).regs[r] = rows[y].regs[r]
    /\ RowState(vdp, y).palette = rows[y].palette
    /\ RowAdjust(vdp, y) = rows[y].regs[18]

-----------------------------------------------------------------------------
(* What a command covers, without the counts the engine clips: element k   *)
(* of a line is drawn when every origin is on the screen there, and the    *)
(* first one always; a row is, until an upward block is above the top.     *)

\* The high-speed commands draw bytes: a screen with one dot in each.
InBytes(w) == w.code \in {12, 13, 14, 15}
WorkGeometry(w) == IF InBytes(w) THEN [bpl |-> w.geo.bpl, ppb |-> 1, bpp |-> 8] ELSE w.geo
Units(w, x) == IF InBytes(w) THEN x \div w.geo.ppb ELSE x

Sources(w) == w.code \in {9, 10, 13}
XOrigins(w) ==
  {Units(w, x) : x \in (IF w.code = 10 THEN {} ELSE {w.o.dx}) \union (IF Sources(w) THEN {w.o.sx} ELSE {})}
YOrigins(w) ==
  (IF w.code = 10 THEN {} ELSE {w.o.dy})
    \union (IF Sources(w) \/ w.code = 14 THEN {w.o.sy} ELSE {})

Across(w) ==
  LET limit  == DotsPerLine(WorkGeometry(w))
      wanted == IF w.code = 14 \/ Units(w, w.o.nx) = 0 THEN limit ELSE Units(w, w.o.nx)
  IN {k \in 0..(wanted - 1) : k = 0 \/ \A x \in XOrigins(w) : x < limit /\ x + k * w.o.xs \in 0..(limit - 1)}
Down(w) ==
  {k \in 0..((IF w.o.ny = 0 THEN 1024 ELSE w.o.ny) - 1) : \A y \in YOrigins(w) : y + k * w.o.ys >= 0}

InAll(w) == Cardinality(Across(w)) * Cardinality(Down(w))

\* The first n elements of a block from an origin: their places, in order.
Places(w, x, y, n) ==
  LET width == Cardinality(Across(w)) IN
  [e \in 0..(n - 1) |-> <<Units(w, x) + (e % width) * w.o.xs, y + (e \div width) * w.o.ys>>]

\* A dot of a picture, and its place in VRAM.
DotOf(w, vram, place) == Dot([vram |-> vram, geo |-> WorkGeometry(w)], place[1], place[2])
Cell(w, place) ==
  LET g == WorkGeometry(w) IN <<ByteAddr(g, place[1], place[2]), place[1] % g.ppb>>

\* What each of the first n elements puts at its place.
Colours(w, n) ==
  LET from == Places(w, IF w.code = 14 THEN w.o.dx ELSE w.o.sx, w.o.sy, n) IN
  [e \in 0..(n - 1) |->
     CASE w.code \in Transfers -> w.sent[e + 1]
       [] w.code \in {8, 12} -> w.o.clr
       [] w.code \in {9, 13} /\ w.o.srcExt -> 255
       [] w.code = 14 \/ (w.code \in {9, 13} /\ ~w.o.srcExt) -> DotOf(w, w.old, from[e])]

Blended(w, src, dst) ==
  LET m == DotMask(WorkGeometry(w)) IN
  IF InBytes(w) THEN src % m
  ELSE IF w.o.log % 8 > 4 \/ (w.o.log > 7 /\ src % m = 0) THEN dst
  ELSE Logged(w.o.log % 8, src % m, dst, m)

\* The picture with the first n elements drawn: each byte dot by dot.
Drawn(w, n) ==
  LET g       == WorkGeometry(w)
      places  == Places(w, w.o.dx, w.o.dy, n)
      colours == Colours(w, n)
      touched == {e \in 0..(n - 1) : Cell(w, places[e])[1] \in DOMAIN w.old}
      here(a, i) == {e \in touched : Cell(w, places[e]) = <<a, i>>}
      dot(a, i)  == (w.old[a] \div DotWeight(g, i)) % DotMask(g)
      value(a, i) == IF here(a, i) = {} THEN dot(a, i)
                     ELSE Blended(w, colours[CHOOSE e \in here(a, i) : TRUE], dot(a, i))
  IN [a \in DOMAIN w.old |-> FoldFunction(+, 0, [i \in 0..(g.ppb - 1) |-> value(a, i) * DotWeight(g, i)])]

\* A copy that reads what it has drawn depends on its direction.
ReadsItsOwn(w) ==
  LET n    == InAll(w)
      to   == Places(w, w.o.dx, w.o.dy, n)
      from == Places(w, IF w.code = 14 THEN w.o.dx ELSE w.o.sx, w.o.sy, n)
      read == {Cell(w, from[e]) : e \in DOMAIN from}
  IN w.code \in {9, 13, 14} /\ \E e \in DOMAIN to : Cell(w, to[e]) \in read

\* A fill or a copy changes the dots of its rectangle and no others, to the colour or
\* the source it was given: up to the screen edge, the top or the wrap of VRAM, in
\* either direction, in every mode; the count registers of 0, a width that is not
\* whole bytes, and an origin beyond the edge of a 256-dot screen included.
CommandsDrawTheirRectangle ==
  work.known /\ work.code \in {8, 9, 12, 13, 14} /\ ~ReadsItsOwn(work) =>
    vdp.vram = IF work.o.dstExt THEN work.old ELSE Drawn(work, InAll(work))

\* The bytes sent to HMMC and LMMC are drawn in order, one at a time, the one loaded
\* before the start first and never twice, and LMCM gives the dots in order; CE falls
\* with the last element and not before. So it is across other register writes, status
\* reads, time and save states.
TransfersKeepOrder ==
  /\ work.known /\ work.code \in Transfers =>
       /\ Len(work.sent) <= InAll(work)
       /\ vdp.vram = IF work.o.dstExt THEN work.old ELSE Drawn(work, Len(work.sent))
       /\ vdp.ce <=> Len(work.sent) < InAll(work)
  /\ work.known /\ work.code = 10 =>
       /\ LET from == Places(work, work.o.sx, work.o.sy, InAll(work)) IN
          \A k \in 1..Min({Len(work.got), InAll(work)}) :
            work.got[k] = IF work.o.srcExt THEN DotMask(work.geo) - 1 ELSE DotOf(work, work.old, from[k - 1])
       /\ vdp.ce <=> Len(work.got) < InAll(work) - 1
=============================================================================
