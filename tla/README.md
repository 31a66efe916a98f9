# Verification of py-msx-emulator

TLA+ modules for the emulator: the run loop, the files and the threads, whose
correctness depends on the order of things, and the machine itself, the CPU, the
memory bus with its cartridges, the video, floppy and sound chips, the clock and the
input. `PROJECT.json` lists the runs, the code lines behind each definition, the
known hazards and the theorems.

    tlc -config media.cfg MCWritableMedia.tla      # a run
    tlapm WritableMedia_proofs.tla                 # the proofs of a module

## The system

The emulator has a core (`msx/`), which is a deterministic machine without
files, threads or wall clock, and hosts around it: the SDL frontend
(`frontend/`), the debugger prompt and the JSON-RPC server (`host/`), all on
one thread except the socket thread of the RPC server. The host calls the core
through `CoreApi` (`msx/core_api.py`), and one rule covers everything: nothing
runs in the core except inside such a call, and only a signal handler
(`request_break`) enters while one runs.

| Component | State | Operations | Hard behaviour | What makes it correct |
| --- | --- | --- | --- | --- |
| Run loop (`msx/machine.py`) | position in the frame, clock, break settings, stop and resume flags | `step_frame`, `step`, `reset`, `load_state`, the break setters, `request_break` | a frame stops at any instruction and goes on in a later call; a signal at any time; flags that outlive calls | stops leave no trace in the frames; every stop is reported; a resume makes progress; calls return |
| Writable media (`host/media.py`, `msx/sram.py`, `msx/fdc/disk_image.py`) | images with dirty flags in the core, the table of files on the host, save states | swap, eject, save, load, exit, start | four user interfaces over one table; reads and writes of files fail; a load changes images | no guest write is lost; the table and the drives agree; a saved state loads later |
| Floppy controllers (`msx/fdc/`) | registers, transfer mode, buffer, selected drive, disk-changed signals | register reads and writes, disk swap, reset, state load | a swap in a transfer, a drive change in a transfer, the handshake | DRQ, BUSY and mode agree; a transfer stays on its medium; a change is reported |
| RPC server (`host/rpc_server.py`) | request queue, pause flag, pause event and record, breakpoint ids, timed key releases | requests from the socket thread, `drain` and `on_pause` on the emulator thread, `continue_sync` | two threads, timeouts, requests that outlive their answer | a waiter is woken by its own stop only; no answer contradicts the machine |
| Debugger prompt (`host/debugger/`) | none beyond the core's settings | commands | shares the breakpoint set with the RPC server | ids and the core's set agree |
| Z80 (`msx/cpu/`) | registers, HALT, IFF, EI delay, pending interrupts, Q | `step`, `step_idle_batch` | acceptance order of NMI and INT, the EI delay, batches of idle instructions | a batch equals its single steps |
| VDP (`msx/vdp/`) | registers, address latch, status, IRQ flags, command engine | ports, scanlines, `tick` | the latch and the interrupt handler; a command that runs beside the CPU | level interrupts are neither lost nor doubled; the latch recovers |
| Memory, slots, mappers (`msx/memory.py`, `msx/mapper.py`, `msx/ram_mapper.py`, `msx/fmpac.py`) | slot registers, bank registers, SRAM gates | reads, writes | secondary slot register over every page, SRAM enabled by magic bytes | what a page shows is what the registers say |
| Mouse and input (`msx/mouse.py`, `host/input_state.py`, `msx/input.py`, `frontend/sdl2_keyboard.py`) | nibble phase, pending motion; key matrix with shared cells | strobe, reads, motion; press, release | motion is clamped with a carry, a timeout resynchronises; two keys on one cell | no count is lost; no key hangs |
| Snapshots (`msx/state.py`, `msx/snapshot_schema.py`) | none | save, load | a load must be all or nothing | every reachable state can be saved and loads |
| Renderers (`msx/vdp/renderer.py`, `v9938_renderer.py`) | the collision bits, the register log of the frame | one call at the end of a frame | the picture is made after the fact, in bands and passes, sprites over lines that wrap | every line shows what the raster showed |
| Sound (`msx/psg.py`, `scc.py`, `dac.py`, `ppi.py`, `audio_mixer.py`, `opll.py`) | registers, generators, the writes of the frame | ports, mixing at the end of a frame | the frame is replayed from its first write; loads and resets in the middle | a write is heard from its own sample, once |
| Real-time clock (`msx/rtc.py`) | start time, cycles, register blocks | ports, save, load | calendar from cycles over leap years and centuries, writes to digits that are computed, a load in the middle of a second | the clock runs on |
| Disassembler (`host/debugger/disasm.py`) | none | text of an instruction | tables of its own beside the CPU's | it names what the CPU runs |
| Printer, Kanji ROM, trace, configuration, loader, tools | a buffer, a counter, none | once per run, or pure functions | parsing | tests and golden data |

## Order and composition

The modules in the order of importance, with the run that checks each. All of them
are written, checked and, where named, proved.

1. `Frames`, `FrameLoop`: the run loop and what it promises. The CPU and the VDP
   are reduced to their effects on it. Runs `frame`, `frame_rebreak`,
   `frame_vblank`; proofs in `FrameLoop_proofs`.
2. `WritableMedia`: images, files, failures. Runs `media`, `media_remount`;
   proofs in `WritableMedia_proofs`.
3. `PauseBridge`: the two threads of the RPC server. Runs `pause`, `pause_race`;
   proofs in `PauseBridge_proofs`.
4. `Wd2793`: the floppy interface of the Sony machines, swaps and save states.
   Runs `fdc`, `fdc_deselect`; proofs in `Wd2793_proofs`.
5. `SlotTable`, `Slots`, `Mapper`, `FmPac` over `Bits`, composed in `Bus`: what the
   CPU reads and writes. Run `bus`; proofs in `Mapper_proofs` and, for the slots (with the
   refinement of `SlotTable`), the FM-PAC and the composition, `Bus_proofs`.
6. `Z80` over `Z80Alu`, with `Disasm` beside it. Run `cpu`.
7. `V9938` over `VdpEngine`, `Tms9918`, `Sprites`, `Screen`, `Tc8566af`, `Mouse`,
   `Sound`, `Rtc`, `HostInput`, composed in `Chips`. Run `chips`, with its instances
   in `MCPicture`, `MCPorts` and `MCChips`; proofs of the ports of both video chips, the
   mouse, the floppy controller of the FS-A1F, the clock and the host input in
   `Chips_proofs`, with the lemmas of the last two in `Ports_proofs`.

`Bus` and `Chips` compose parts that share no state: the routing of an access decides
which of them it reaches. Their behaviours therefore follow one part each (`focus`,
`chosen`), whose variables alone change; a product of the parts would multiply the
states and show nothing more. Parts that do share state are in one module: the
command engine, the ports and the interrupt line of the V9938, the mapper and its
copies, the PSG and the DACs that are mixed.

Still open: the breakpoint ids of the RPC server, the printer buffer, the OPLL, and
proofs about the CPU, the pictures, the command engine and sound.

## WritableMedia

**State.** `data` and `dirty` are the SRAM and disk images of the core
(`SramImage`, `DskDiskImage`), `locked` the write protection, `diskFile` the
host's `DiskFiles` table, `file` the files, `index` the frontend's place in the
`--fdd1` list, `snap` the latest save state, `run` the life of the process. The
histories `written` and `writes` say which guest writes each file is owed.

A content is the set of the guest writes in it. Every write has its own number,
so losing one is visible, and comparing SHA1s is comparing sets.

**Actions.** `GuestWrite` is `write_sector` or an SRAM write. `Insert`,
`InsertFails`, `Eject`, `EjectFails` are the ways `swap_disk` can end;
`DiskNext` (F6), `DiskToggleEject` (Shift+F6), `FddSwap` and `FddEject` (RPC and
prompt) call it with their own guards and reactions to errors. `PersistAll` and
`PersistFails` are `persist_dirty_media`, which stops at the first error; a
failed write leaves the file as it was or truncated. `SaveState` persists disks
first, then takes the snapshot; `LoadState` requires the disks to match and
makes changed SRAM images dirty. `Quit`, `Cleanup` and `Start` are the end and
the beginning of a run, with the first image of `--fdd1` in drive A and that of
`--fdd2` in drive B (`Given`).

**Checked (`media`).** One SRAM, two drives, two `.dsk` files, three guest
writes: two drives and two files are the least with which a file can be in the
other drive or nowhere; three writes allow one before a swap, one in between and
one after. Drive A starts with the first of a list of both files, drive B with the
second (with an empty drive B in `media_remount`). Deadlock is not checked, because a process that cannot start any more
(its disk image is truncated) really has stopped.

- `TableMatchesDrives`: the table names a file for exactly the drives that hold
  a disk, whatever failed half way.
- `CleanMatchesFile`: an image that is not dirty has the content of its file.
- `NoLostUpdate`: every guest write is in its file or in a dirty image that will
  be written to that file.
- `CleanExitKeepsAll`: an exit without an error has saved everything.
- `SaveStateNamesFiles`: a save state names disks by what is in their files.

`AnyFile = FALSE` excludes the two cases in which the code does lose writes:
asking for a file that is in the other drive (at power-on, `--fdd1` and `--fdd2`
naming one file: `GivenAssumption`), and asking for the file of the
drive itself while it has unsaved writes. The second is the finding of
`media_remount`, found with `AnyFile = TRUE`: `swap_disk` reads the new file
before it writes the old image back.

**Proved** (`WritableMedia_proofs`, for all sets of SRAMs, drives and files, any
list and any number of writes, when `AnyFile` is false): every invariant of the
run and `SaveStateNamesFiles`. The inductive invariant `IInv` adds to `TypeOK` and the checked `TableMatchesDrives` and `CleanMatchesFile`:
`Exclusive` (a disk file is in one drive), `InCore` (a medium in the core holds
every write owed to its file, and only a mounted one is dirty), `OffCore` (a file
that no medium is written to holds every write owed to it), `DisksWhole` (a disk
that is clean has a whole file: the write that tore it left the disk dirty, which
`SaveStateNamesFiles` needs) and `ExitClean` (a clean exit leaves no image dirty). `NoLostUpdate` follows from `InCore`,
`OffCore` and `CleanMatchesFile`. They are needed since a
write-back step only tells what happens to the files of the media it writes:
that no other medium claims the same file is `Exclusive` for disks and
`SramFileAssumption` for SRAMs. That assumption says each SRAM has a file of its
own; the code breaks it when the same ROM is in both slots (the name is the
ROM's SHA1), listed under the hazards.

## Frames and FrameLoop

**State.** The variables carry the names of the fields of `Machine` without
their underscore: `active`, `line`, `total`, `start`, `rendered` and `image`
(`_frame_active` and so on), `brk` for the break settings, `seen` for the crash
conditions already reported, `breakRequest`, `stopPending`, `resumeAfterStop`,
`resumeSkipPc`. `at` says where in `step_frame` / `step` / `run_frame` the call
is, `"host"` between calls. `cycle` is `clock.cycle` counted from the last frame
that was mixed or dropped, `lineCycles` the local of the line loop not yet added
to it.

**Actions.** One per setter; `CallStepFrame` and `CallStep`; `RunFrame` is the
head of `run_frame` up to the first segment; `TakeRequest` and `RunSegment` are
`_run_segment`; `BreakAtPc`, `Instruction`, `StepInstruction` and `EndLine` are
the line loop; `Render` is what happens between the two segments and `Finish`
the end of the frame. `Reset` and `LoadState` come between calls.
`RequestBreak` comes at any time. The code has four versions of the line loop
(fast, traced, debug, and the idle batch); they have the same effects on this
state, and the model has one.

**Checked (`frame`).** Three scanlines of one T-state each with instructions of
one or two (so that an instruction ends a line exactly or runs over it, and a
line can be empty), vertical blanking after the first or the second line, both
VDPs, two addresses, every kind of setting but one at a time, two frames (so
that a frame follows a stopped one). 

- `ImplementsFrames`: under the refinement mapping, the loop implements
  `Frames`, the frame sequence without stops.
- `CyclesAccounted`: clock and frame position agree, across every stop.
- `StopsAreReported`: a call that ends early has a reason, and a call with
  nothing armed does not end early.
- `MotionOncePerFrame`: the mouse gets the motion of one call for each frame.
- `ResumeMakesProgress`: no second stop at the address of the last stop before
  something ran (while the frame lasts, see below).
- `StepKeepsBreaks`: `step` uses up no request and no setting but the frame
  breakpoint.
- `CallsReturn`: every call returns. The specification has weak fairness of
  `RunStep`, the steps of a call: a call is a running Python function, and each
  of its steps is enabled until it is taken. Nothing is assumed of the host.

`frame_rebreak`: the documents say a resume skips the test for the first
instruction, but the end of a frame drops the skip. `frame_vblank`: the
docstring of `run_frame` says that VBlank is raised where the frame is rendered,
but a write of R#9 in the frame moves only the former. Both were seen in the
running program as well.

**Proved** (`FrameLoop_proofs`, for any number of lines and T-states, any
instruction times, any addresses and number of settings): all of the above but
`CallsReturn`, among them the refinement. `IInv` adds to the checked invariants
`Placed` (a frame is active inside a call; `line` is before `end`, and `end` is
`Lines` once the frame is rendered and the line after a split before), `Quiet`
(inside a call there is no output yet and no pending stop), `Fed` (motion is fed
exactly when a frame is begun by `step_frame`) and `Reasons` (a call under way
knows of every reason to stop: whatever is set is in the history `armed`). `Resuming` relates the skip address to the latest stop, for
`ResumeCorrect`.

The assumption `FrameAssumption` says that instructions take time, that there
are lines and that vertical blanking starts at least two lines before the last;
the code has 192 or 212 of 262 or 313.

## PauseBridge

**State.** `sock` and `emu` say where the two threads are, `queue`, `paused`,
`event` and `record` are the request queue, `PauseState.paused`, `_pause_event`
and `_last_pause`; `done` has the requests whose event is set. A stop is its
number, so a record or an answer about an older stop is visible. The histories
`stops`, `resumed` and `told` count the core stops, those when `continue_sync` last
resumed, and those the client has heard of by the notification.

**Actions.** The socket thread: `ReadRequest` queues and `Answer` or
`AnswerTimeout` ends the wait of `_handle_line`; `ReadContinueSync`, `Clear`,
`Resume`, `Wait`, `Wake` and `WaitTimesOut` are the statements of
`_continue_sync`. The emulator thread: `HandleEvents`, `Dispatch`, `Drained`,
`PauseGate` and `Frame` are one iteration of the host loop, `CoreStop`, `Record`,
`SetPaused`, `SetEvent` and `Notify` the statements of `handle_stop` and
`on_pause`, `LeavePrompt` the end of the debugger prompt, which keeps the
emulator thread for as long as a person likes. Each action does what the other
thread can see at once; a request is dispatched in one step, because nothing else
touches what it reads and writes.

**Checked (`pause`).** Five requests and four stops: enough for a request that
times out at the prompt and is executed later, a `continue_sync` after it, another
stop and the same once more.

- `NoLostWakeup`: a `continue_sync` whose machine is paused again is woken.
- `PausedAnswerHolds`: its answer "paused" is true when it is given.
- `AnswersNextStop`: it answers with a stop after its own resumption.
- `Answered`: every request is answered.

`Patient` is the assumption on the client: it sends no `continue_sync` before it
has heard of the stop, nor with a request still queued that timed out. Without it
`AnswersNextStop` fails, which is the finding of `pause_race`: the event is set
after the flag, and a `continue_sync` in between clears an event that is not yet
set.

The 30 seconds of a wait (`TimedOut`) are taken to pass only while a person is at
the prompt; an iteration of the host loop is far shorter. Fairness is weak fairness
of the steps of each thread (`Handle`, `HostLoop`), which run whenever they can, and
of the two timeouts, which `threading` guarantees. The person at the prompt and the
client have none.

**Proved** (`PauseBridge_proofs`, for any number of requests and stops): the three
safety properties above for a patient client, the types, and, for every client,
`RunsOnlyResumed`: no request pauses the machine in the middle of a frame.
The inductive invariant follows the stop through `on_pause`: `Recorded` and
`NotPausedYet` place the record and the flag, `Unheard` says the client cannot know
of a stop before the event is set, so that `StillPaused` holds from the check of a
`continue_sync` to its `Resume` (with `NothingQueued`: no queued request resumes
the machine meanwhile), `Cleared`, `Woken` and `AboutToWake` follow the event from
there to the wake-up.

## Wd2793

**State.** `chip` is the WD2793: registers, BUSY, INTRQ, DRQ, mode, bytes left.
`side` and `selected` are the registers of the Philips window, `disk` and `changed`
the drives, `saved` the latest save state. The data has no values: a disk has the
number of the write that last changed it (its SHA1), a transfer the number of bytes
left. The histories `owner` and `seen` say for which disk, version and sectors the
transfer under way was accepted, and which disks the guest knows of.

**Actions.** The guest does anything in any order: `Position` are the type I
commands, `SetCommand` all others, `ReadData` and `WriteData` the data register,
`WriteRegisters`, `SelectDrive`, `ReadStatus`, `ReadDrive` the rest, `Reset` a
machine reset. The host swaps disks and saves and loads states. A load requires the
disks to be what they were at the save (`DiskDrive.parse_state`).

**Checked (`fdc`).** Two drives, a writable single-sided disk and a protected
double-sided one, of two sectors; registers of one bit (STEP-IN wraps there as it
does at 256); one swap, one write command, one save state, sectors of two bytes.
Two drives are the least with which a swap can be of the drive that is not
selected; a single write tells a disk as it was from a disk as it is.

- `Handshake`: BUSY, DRQ, the mode and the bytes left agree.
- `SameMedium`: a transfer stays on the disk it was accepted for, as it was then.
- `WritesWhatItAccepted`: a write ends in the sectors it was accepted for.
- `ChangeReported`: a drive that reports no change has the disk the guest knows.

`Polite` says the guest leaves the registers and the drive select alone while a
transfer runs; the DISK ROM, which is not part of the repository, is assumed to. A new command or a reset may interrupt a
transfer at any byte all the same. `fdc_deselect` drops the assumption: a disk
whose drive is deselected in a transfer can be swapped under it, since `swap`
looks at the selected drive only.

Not in the model: the error bits (nothing reads them but the guest), the physical
head position, which nothing depends on, and time; commands take none in the code
either. Modelling `SectorAt` showed that a sector number past the end of a track
addresses the next track as long as the image goes on; this is among the hazards.

**Proved** (`Wd2793_proofs`, for any drives, disks, geometries, register and
transfer sizes and bounds): the types and all four invariants, `SameMedium` and
`WritesWhatItAccepted` for a polite guest. The inductive invariants `HandInv`,
`MediumInv`, `WritesInv`, `ChangesInv` say of the saved chip what they say of the
running one, with the disks the save names in place of those in the drives. Type
correctness needs the handshake: a byte is taken only of a transfer that has bytes
left, else the count of bytes left leaves the naturals.

## The memory bus: SlotTable, Slots, Mapper, FmPac, Bus

**State.** `SlotTable` is the abstract machine: a primary register, a secondary one
in each expanded slot, the segments of the RAM mapper, and the place that the latest
access reached. `Slots` adds what `memory.py` keeps to be fast, `cache`: the routine
that a read and a write of each page goes to and the slot whose register answers at
0xFFFF, resolved by two separate chains of guards. `Mapper` has the bank registers of
a cartridge (`bank`) and the copies the code reads from (`flat`, `sramWin` and the
flags in `latch`), `FmPac` the registers, the SRAM lock and the gate of the sound
chip. ROM contents are page numbers, so a wrong page is visible; SRAM is cells of
2 KB, the finest step of any decoder.

**Actions.** `Read`, `Write`, `ReadTop`, `WriteTop` (0xFFFF), `SelectSlots` (port
0xA8), `SelectSegment` (0xFC to 0xFF), `ResetSlots`, `LoadSlots`; for a cartridge a
write at every kind of address its decoder tells apart, save, load, reset.

**Checked (`bus`).** Five machines (a plain MSX1; one with its RAM in slot 0; a RAM
mapper with three segments, not a power of two, and a disk interface; cartridges in
an expanded slot; the FS-A1F's layout) with three values of each slot register, and
all mappers of `MapperKind` with a ROM that is a power of two of pages and one that
is not. Values have each bit that a decoder looks at set and clear.

- `ImplementsTable`: an access reaches what the registers select at that moment,
  whatever was cached, and a read and a write reach the same place.
- `CopiesFollowBanks`: the mirror, the flags and the SCC windows are what a decode of
  the bank registers gives.
- `LoadShowsWhatWasSaved`: the copies are not in a save state; after a load every
  address shows what it showed at the save.
- `StoresOnlyWhereShown`: a write reaches SRAM only where a read would show it.
- `SlotInfoIsRead`: the debugger's `slot_info`, which decodes the registers on its
  own, says what a read returns.
- `RamIsInMainRange`: the stack check's idea of RAM covers the RAM programs reach.

**Proved.** `Bus_proofs`, for every machine layout, register value and number of
segments: `SlotsImplementTable` and `SlotsRamInMainRange`. The inductive invariant
says that a valid cache is what a rebuild would give (`CacheIsCurrent`), which needs
every setter to drop it, and that registers a slot does not have stay 0
(`NoRegisterNoValue`), which the read chain relies on. `SlotsViewIsRead` says the same
of the debugger's view, and that no port value selects a segment the mapper lacks;
its lemmas show what the mask of `ram_mapper.py` does for every count of segments up
to 256 (`host/machine_config.py` allows no more), and need that the segment registers
are naturals (`SegmentType`).

`Mapper_proofs`, for every
ROM size, address and value: `MapperCopiesFollowBanks`. `MapperInv` adds the gates of
the mappers that have one (`Gm2Gates`, `SccIGates`, `HalnoteGates`), the window that
never changes, and that a save state agrees with itself (`SnapAgrees`), without which
a load would not establish the rest. `Decoded` is what a read returns without the
copies, as the bank registers and the few fields beside them say; that `View` equals
it (`ReadsDecoded`) gives `MapperDescriptionIsRead` (the debugger's description) and
`MapperStoresWhereShown`. `SnapShows` says a save state decodes to what was seen when it
was made, hence `MapperLoadShowsSaved`. The Halnote ROM has 128 pages, as the code
requires (`msx/mapper.py:1989`).

`Bus_proofs` also has the FM-PAC (`FmInv`: the unlock flag is what the magic bytes say, and a
save state, which lacks the flag, decodes to what it saw) and the composition.
`BusIsParts` shows that a behaviour of `Bus` is one of each part, since a part at rest
is in one of its initial states and a step of another leaves it alone. With it
`BusKeepsParts`, `BusInfoIsRead`, `BusLoadShowsSaved` and `BusStoresWhereShown` state
every property of the run for the whole bus.

## The CPU: Z80Alu, Z80, Disasm

**State.** `cpu` has the fields of `Registers` and of the `Z80` class under their
names, with `t`, the T-states that the step returned; `mem` the bytes at the addresses
there is memory at; `irq` the interrupt line.

**Actions.** `Execute` is one step: the opcode tables of `opcodes_main.py` with all
prefixes, undocumented opcodes, flags with bits 3 and 5, MEMPTR, Q and R, and the M1
wait. The acceptance of NMI and of the three interrupt modes, HALT, and the batch of
an idle CPU are the others; `irq` rises and falls between any two steps.

**Checked (`cpu`).** Two kinds of programs. Nine short ones (a block copy, a search in
mode 2, decimal adjustment, a 32-bit subtraction over both register sets, a loop with
calls, prefixes, two waits, an NMI) are run with interrupts at every point. And every
opcode of every table is run once on four sets of registers chosen at the edges of
the arithmetic.

- `ProgramsCompute`: the programs end with their result wherever interrupts came in.
- `HandlersDoNotNest`: with the line held, EI; RET does not nest.
- `IdleBatchIsSteps`: a batch equals single steps, in T-states, R, Q and all else,
  for budgets that end inside, at and beyond a repeat.
- `GoesWhereShown`: after an instruction PC is where the disassembler says.
- `ArithmeticIsExact`: sums and differences of 8 and 16 bits and their flags, stated
  on numbers.

The model was compared with the Python on 7,252 single instructions over random
states, and the disassembler on all 65,536 pairs of opcode bytes.

## The chips: V9938, VdpEngine, Tms9918, Sprites, Screen

**State.** `vdp` is the record of the chip's fields, VRAM at a few addresses (the
others read 0), with the register log of the frame. Histories: `work`, the latest
command with VRAM as it was and the bytes sent and taken; `pair`, the control bytes
since the last access that ends a pair; `rows`, the registers and the palette at each
line. `tms` is the chip of an MSX1. `plane` holds the sprite status and the latest
picture, `view` the registers of a background.

**Actions.** `VdpWrite` and `VdpRead` are the ports, with all they reach: registers,
palette, indirect access, commands. `VdpTick` and `VdpScanline` are the time that the
machine gives the chip, `VdpRender` and `VdpFrameEnd` the end of a frame, then save,
load and reset. The frame of a split screen is drawn by `Sprites` as the code does,
sprite after sprite in as few passes as possible, and compared with a raster that goes
line after line; `Screen` has the dot of each background mode.

**Checked (`chips`).**

- `IrqFollowsFlags`: the level of the line is the flags under their enables, after
  every event, on both chips.
- `ControlPairLands`: two bytes on the control port do what they name, whatever
  accesses, resets and loads came before.
- `CommandsDrawAsNamed`: a command changes the dots of its rectangle and no others,
  clipped at each edge, in both directions and every mode; the bytes of a transfer
  reach their dots in order across anything that comes between.
- `PictureFollowsTheRaster`: each row has its own registers, the sprites with
  collision and overflow are the raster's, and the backgrounds that two pieces of
  code can show (both chips, the command engine, 40 and 80 columns, scroll and
  adjust) are the same.

VRAM is given a different value at the corners of the first rows and at the end, where
clipping and wrapping go wrong; a command has a few dots so that each is compared.
Commands with the size 0, which means the most, are among them. The raster has the
five lines at which something happens (`FieldLines`). 1,800 scripts of port accesses,
400 scenes of sprites and 360 screens were compared with the Python.

**Proved** (`Chips_proofs`, for every program of port accesses, all values, any content
of VRAM and any number of steps): `InterruptLineIsTheFlags` and
`PairsSetWhatTheyName`, for both chips. `VdpInv` and `TmsInv` hold the line to be that of
the flags (`VdpChip`, `TmsChip`) and the history of the pair to be the latch
(`VdpPaired`, `TmsPaired`: a first byte waits when the history has one byte, and is that
byte, in the TMS9918A also in the low half of the pointer), of the chip and of its
save state. The lemmas about the command engine show what no step of a command
touches (`Keeps`, `Lasts`): flags, enables, latch, pointer and the registers outside
the engine. The assumptions `VdpAssumption` and `TmsAssumption` say that a behaviour starts with
a chip between two control pairs whose line is right; `NewChipIs` shows it of the chip as
built. What a command draws is a fold over its dots and stays with TLC, as do the
pictures.

## The other chips: Tc8566af, Mouse, Sound, Rtc

`Tc8566af`: `tc` has the fields of the controller, its drives and the media, `asked`
the bytes sent since it was idle. A program sends the bytes of a script and follows
the main status; the host swaps, resets, saves and loads between any two bytes.
`DisksWrittenAsAsked`: a disk changes only at the end of a command whose bytes were
all sent, and as they say, on the disk that was in the drive when it began. Sectors
have two bytes; one drive and two, a protected disk, no disk. The property excepts a
swap of the second drive, which `FloppyDiskState.swap` does not see.
**Proved** (`DisksHoldWhatWasAsked`, for every script of bytes, disks of any geometry, any
size of a sector): `TcInv` says that the bytes sent since the controller was idle are the
command, its parameters so far and its data so far (`ParametersHeard`, `DataHeard`, with
the sector or the track and filler they name), that the first drive has the disk of
that time while a command is under way (a swap ends the command), and that a save state
says as much of itself. `TcAssumption` gives the types: programs send bytes, disks are
images of sectors, drives hold one of them or none.

`Mouse`: phases of a nibble clocked through R15 of the PSG, with the timeout.
`MouseMotionConserved`: what the program assembled and what waits is what the host
moved, over clamping, timeouts and loads. Motion goes beyond what one scan can
carry, and up to the 16-bit limit; a pause comes at every edge of a scan.
**Proved** (`MouseKeepsItsMotion`, for every motion and any program that selects the
mouse's port): `MouseInv` says for each phase what the nibbles read so far are of the
latched counts, which of the counts are already given and which still under way, within
the ranges of the 8- and 16-bit clamps, of the mouse and of its save state.
`MouseAssumption` has the port selection, which the history of the scan depends on.

`Sound`: PSG, SCC, the DACs and the mixer, with `live`, the same chip played tick by
tick as it is written. `FramePlaysItsWrites`: the replay gives the samples and the
generators of `live`. Three samples a frame and two recorded writes (the code
has 4,096) put writes on every sample boundary and at the limit. 150 runs of the PSG
over two frames, 60 each of the SCC, the DAC and the PPI agree with the Python.

`Rtc`: the state is a start time, given once, and the cycles since then; the date is
computed at each read (`Refreshed`), a save state keeps the elapsed cycles.
`TimeRunsOn` compares the digits that a program reads with a calendar that
steps by seconds (`wall`). The start times are one second or one day before each
boundary: leap days of 2000, 2024, 1900 and 2100, 1969 to 1970, 1979, 2079, the years
0 and 9999. Parts of a second pass too, so that a save and a load come within one.
**Proved** (`ClockKeepsTime`, for every start time, number of cycles in a second, bytes
written and length of a behaviour). The inductive invariant `RtcInv` is about numbers,
not dates: `Agrees` says that `wall` is as many seconds from the start as the chip has
elapsed cycles for, and the part of a second that is left over; it holds of the
save state with its own calendar, for without that a load would not establish it.
From there a step is arithmetic. A second later is one number more, or the next day
at midnight (`SecondTicks`), a day later the date has the next number (`NextDay` against
`DaysFromCivil`, at the end of each month, of February in each kind of year, of a
year), and a read turns the number back into the date: `CivilIs` proves
that `CivilFromDays` inverts `DaysFromCivil` on every date that exists, in every year
from 0 on. Its core is `YearOfEraIs`: the three corrections by 1460, 36524 and 146096 find
the year of each of the 146,097 days of an era, which is shown by cases over
centuries and groups of four years. `NoSuchDate` is the other direction of
`check_start`: a day that a month does not have comes back as another date. The 12-hour
digits are decoded to the hour for each of both settings of the bit. The assumption
(`RtcAssumption`) is that the weekday of the start given to `wall` is the one that goes
on from Thursday, 1 January 1970; TLC checks it of the weekdays in `MCPorts`, which are
the calendar's. The days before 29 February of year 0 are no start (see below).

## Host input: HostInput

**State.** `input` has the cells and lines that are pressed (`InputState`) and the
flags of the senders: the keys that `SdlKeyboard` counts and its redirected 0, the
Ctrl combo and the Shift hotkey under way, the ports of the pads with their autofire,
the timed releases of the RPC server. The history `hands` says what is held, and what
each key was pressed for; for the programs, for how many frames more each wants its
cells (`rpc`), and which cells it pressed again too soon (`again`): while a release of
an earlier press was pending that falls due before the new one.

**Actions.** `PressHostKey`, `RepeatHostKey`, `ReleaseHostKey` are the key events
through the whole chain of handlers; `PlugPad`, `UnplugPad`, `MovePad` those of the
pads; `RpcPress`, `RpcRelease`, `RpcPressNamed`, `RpcJoystick` the requests;
`HostFrame` an iteration of the host loop. Actions of the hotkeys other than what they
do to keys are in the other modules.

**Checked (`chips`).** `InputFollowsHands`: the matrix shows the cells of the keys
held, each for what it meant when it was pressed, and a line of a port is down only
while something holds it. Seven keys of the Japanese layout and eight of the
international one in any order, three pads for two ports, a pad with three controls
on shared lines, a pad and two keys (Ctrl and F1) beside a program that presses keys of
its own. A program presses its cells for a time or until it releases them, in any order,
also while releases of the same cell are pending (at most `MaxReleases = 2` are, for one
cell or for two). Each press leaves a release of its own in the list, and the first one
to fall due releases the cell (`rpc_server.py:469-486`), so the property says what that
guarantees: a cell is never down for longer than the last press asked for, and for
less only when it was pressed again too soon. The mutant `RpcPressNamedOnce`, which
schedules no second release, leaves a key down. That a second press is cut short is what
the code does, against `docs/msx_emulator_rpc_spec.md:375` ("auto-release after
duration_ms"); whoever wants the key for the whole time waits until the first release.

**Proved** (`KeysAndPadsShown`, for every set of keys at hand on either layout, any pads,
programs and pending releases, with `AnyKeys = FALSE` as its hypothesis). The property
is not inductive: what a release does follows from flags that it does not mention.
`InputInv` says of the keys (`KeyInv`) that each flag is that of the keys held
(`Flagged`: a Shift hotkey or a Ctrl combo under way is for a key that is held, and
Shift or Ctrl is), what a key that is held can mean (`Understood`), that
`SdlKeyboard` counts exactly the keys that this makes it count (`Counted`: Shift while no
hotkey covers it, Ctrl while no combo does, 0 or the underscore by the redirection), and
that the cells are those of the counted keys, of the combo and of the programs (`Keyed`).
It says of the programs (`ProgramsAre`, with the cells of theirs that are down) that no
cell is down that none wants, that the last press of a cell for a time has its release
pending, and that a cell not pressed again too soon is down and no release of it falls
due before (`ProgramsOk`); and of the pads (`PadOk`) that a line is held by a control
of the pad in its port or by a program, and that autofire runs only for the button of a
pad in a port. Lemmas state what each function changes (`KeyDown`, `KeyUp`, `AllDown`,
`AllUp`, `ComboDown`, `Pressed`, `Released`, `Controlled`, the ports of the pads, the
deadlines), and there is one step for each case of a press and of a release.
The property does not say that a held control is shown: a second control on a line that
the code shares (the D-pad with the stick) may release it.
`InputAssumption` names the controls that are modelled and keeps the sentinels of the
model out of the keys and pads; TLC checks it of the jobs in `MCPorts`.

`AnyKeys = FALSE` leaves out five cases in which the code does not keep it; the first
four were reproduced with the Python:

- the automatic repeat of 0 after Shift was pressed redirects the release, so the
  cell of 0 stays down (`sdl2_keyboard.py:438`);
- the automatic repeat of F1 after Ctrl was pressed starts a combo, whose end
  consumes the release of F1 (`sdl2_frontend.py:393` has no test of `repeat`);
- a combo's cell is shared with the plain key (Ctrl+F1 with HOME): the one
  released first releases the cell;
- two keys on one joystick line (W and Up): the same;
- a program that presses a cell of the keys at hand: its release and the key's undo each
  other, as the docstring of `set_key_state` says (`input_state.py:80`: "It does no
  shared-cell bookkeeping, so callers own their press/release pairing").

## Fairness

Only `FrameLoop` and `PauseBridge` state liveness, and their fairness is given in
their sections. The other modules claim safety: a program may stop at any time, and
in `cpu` and `chips` it does when its steps are used up (`fuel`), which is why these
runs do not check deadlock.

## What is proved and what is only checked

Type invariants are proved with the invariants that need them, and no run spends a
property on one.

| | TLC | TLAPS |
| --- | --- | --- |
| safety of media, run loop, RPC bridge, floppy interfaces | small instances | every instance |
| `ImplementsFrames`, `ImplementsTable` | small instances | every instance |
| `CopiesFollowBanks`, `RamIsInMainRange`, `SlotInfoIsRead`, `LoadShowsWhatWasSaved`, `StoresOnlyWhereShown` | small instances | every instance |
| `IrqFollowsFlags`, `ControlPairLands`, `DisksWrittenAsAsked`, `MouseMotionConserved`, `TimeRunsOn`, `InputFollowsHands` | small instances | every instance |
| `PictureFollowsTheRaster`, `CommandsDrawAsNamed`, `FramePlaysItsWrites` | small instances | |
| `ProgramsCompute`, `HandlersDoNotNest`, `IdleBatchIsSteps`, `GoesWhereShown`, `ArithmeticIsExact` | small instances | |
| `CallsReturn`, `Answered` (liveness) | small instances | out of reach of the prover |
| the five findings | counterexamples | |

Where a constant restricts an instance (`Polite`, `Patient`, `AnyFile`, `AnyKeys`), the
theorem has it as a hypothesis.

What stays with TLC, and why: the pictures, the commands and the sound are folds over
dots, lines and samples; each is compared with a definition of another shape, and that
two folds are equal for every length is an induction over data, which the prover cannot
do. The first four properties of the CPU
are about programs and tables of opcodes that have to be run, the last about the
arithmetic of a module that is recursive. Liveness rests on `ENABLED`. The definitions
concerned were compared with the Python where it says so above.

## Where the code and its documents differ

Seen while modelling. The five that a run shows are the `findings` of `PROJECT.json`;
these have no run:

- The disassembler shows DD C1 and DD C5 (and FD) as POP and PUSH of IX or IY; the CPU
  runs POP BC and PUSH BC.
- About 500 DD/FD prefixes in a row reach Python's recursion limit.
- The acceptance of an interrupt takes 11, 13 or 19 T-states, without the M1 wait that
  other M1 cycles have.
- `step()` uses up the frame breakpoint (`machine.py:969`), against
  `docs/technical-implementation.md:773`.
- A comment of the SCC-I mapper says that bank 4 is mirrored in bank 3; after writes
  in Plus mode it is not.
- PSG writes beyond the 4,096 of a frame are not replayed: an R13 among them does not
  restart the envelope.
- A swap of drive B in a transfer of drive B does not abort it in the TC8566AF, one of
  drive A aborts a transfer of B. FORMAT and WRITE report success for a write the disk
  dropped.
- A sector number past the end of a track, or side 1 of a single-sided disk, addresses
  a sector further on in the image (`disk_drive.py:100`).
- After a load or reset in a frame, a preview shows the old frame's registers until
  the next line 0.
- A frame breakpoint stops with a complete frame, whose picture the frontend drops.
- `_civil_from_days` moves a negative day down before a division that rounds down
  already (`rtc.py:281`), so the 59 dates from 0000-01-01 to 0000-02-28 come back as
  another date and `check_start` refuses them, though its docstring
  (`rtc.py:257`) names year 0. The proof of `CivilIs` needs the exception.
- `cpu.step` and `debugger.pause` send no notification
  (`docs/socket-rpc-mcp.md:91`), and `on_pause` sends its own with a blocking call.

## Not modelled

- OPLL (`opll.py`): its registers are a file of 64 bytes, its synthesis arithmetic over
  large tables without control; the tests compare it with recordings.
- Printer and Kanji ROM: a strobe with a bounded buffer, a counter with a table.
- The breakpoint ids of the RPC server, which number breakpoints for one client.
- RGB output: palettes become numbers; scaling, filters, textures and pacing are left
  out.
- GRAPHIC 7 with M1 set and M3 clear, which no mode of the chip has.
- Parsing and formatting: configuration, machine definitions, prompt commands, JSON,
  the schema of save states (a load's effects are in the module of each device).
- The tools beside the emulator, trace and debug log.
