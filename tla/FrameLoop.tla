----------------------------- MODULE FrameLoop -----------------------------
(***************************************************************************)
(* The run loop of the core: step_frame, step and run_frame of Machine     *)
(* with the break settings, the position of a stopped frame and the flags  *)
(* that carry a stop from one call to the next. The host (frontend,        *)
(* debugger prompt, RPC server) may call any member between two calls;     *)
(* request_break comes at any moment, from a signal handler.               *)
(*                                                                         *)
(* An instruction is its effects on the run loop: T-states, the next PC,   *)
(* SP, whether the CPU sits in a HALT with interrupts off, a watched       *)
(* access, and a write of R#9 that moves the start of vertical blanking.   *)
(***************************************************************************)
EXTENDS Integers, FiniteSets

CONSTANTS
  Lines, FrameCycles, Costs, Splits,
  FirstSplit, \* vblank_start_line at power-on: 192
  Kinds,      \* the VDPs: a subset of {"TMS9918A", "V9938"}
  PCs, SPs,   \* addresses of instructions and values of SP, naturals
  Cpus,       \* the CPU states the guest can be in
  SpRange,    \* the SP values set_sp_range declares valid
  MaxFrames,  \* bound on the frame count, for TLC
  MaxArmed    \* bound on the break settings armed at once, for TLC

PowerOn == [pc |-> 0, sp |-> 0, hung |-> FALSE]

ASSUME FrameAssumption ==
  /\ Lines \in Nat \ {0} /\ FrameCycles \in Nat \ {0}
  /\ Costs \subseteq Nat \ {0} /\ Costs # {}
  /\ Splits \subseteq 0 .. (Lines - 2) /\ FirstSplit \in Splits
  /\ Kinds \subseteq {"TMS9918A", "V9938"}
  /\ PCs \subseteq Nat /\ SPs \subseteq Nat
  /\ Cpus \subseteq [pc : PCs, sp : SPs, hung : BOOLEAN]
  /\ PowerOn \in Cpus
  /\ MaxFrames \in Nat /\ MaxArmed \in Nat

VARIABLES
  cpu,              \* PC, SP and whether it is halted with interrupts off
  kind,             \* the VDP of the machine
  vblankLine,       \* its vblank_start_line
  raised,           \* VBlank was raised in this frame
  frames,           \* the VDP's frame count
  cycle,            \* clock.cycle, counted from the last frame mixed or dropped
  lineCycles,       \* T-states not yet in it
  active, line, total, start, rendered, image,        \* the frame position
  brk,              \* the break settings
  seen,             \* the crash conditions already reported
  breakRequest, stopPending, resumeAfterStop, resumeSkipPc,
  stop,             \* the reason in last_stop()
  at,               \* where the call is; "host" between calls
  call,             \* the current or latest call: "frame" or "step"
  end,              \* the scanline that ends the segment
  skipRender,
  out,              \* the latest frame output
  since,            \* history: what happened since the latest stop
  armed,            \* history: the call had a reason to stop
  fed, stepped      \* history: motions fed to the frame; step() began it

cpuVars == <<cpu, kind, vblankLine, raised>>
position == <<active, line, total, start, rendered, image>>
settings == <<brk, seen>>
resumption == <<resumeAfterStop, resumeSkipPc>>
callVars == <<call, end, skipRender>>
history == <<since, armed, fed, stepped>>
vars == <<cpuVars, frames, cycle, lineCycles, position, settings, breakRequest,
          stopPending, resumption, stop, at, callVars, out, history>>

NoAddr == -1

\* What step_frame returns; run_frame's result and mix while a step runs on.
Output(reason, complete, video, audio) ==
  [reason |-> reason, complete |-> complete, video |-> video, audio |-> audio]
NoOutput == Output("none", FALSE, FALSE, 0)

LineEnd(l) == ((l + 1) * FrameCycles) \div Lines

\* R#9 moves the start of vertical blanking of a V9938 only.
VblankLines(k) == IF k = "V9938" THEN Splits ELSE {FirstSplit}

----------------------------------------------------------------------------
(* Break settings, set between calls. A setter that rejects its argument    *)
(* changes nothing.                                                         *)

Off == [points |-> {}, temp |-> NoAddr, watch |-> FALSE, haltDi |-> FALSE,
        spRange |-> FALSE, stepOut |-> NoAddr, frame |-> NoAddr]

ArmedIn(b) == {c \in DOMAIN Off : b[c] # Off[c]}

\* The settings become b.
Arm(b) ==
  /\ at = "host"
  /\ brk' = b
  /\ Cardinality(ArmedIn(brk')) <= MaxArmed
  /\ UNCHANGED <<cpuVars, frames, cycle, lineCycles, position, breakRequest,
                 stopPending, resumption, stop, at, callVars, out, history>>

SetBreakpoints == \E ps \in SUBSET PCs : Arm([brk EXCEPT !.points = ps]) /\ UNCHANGED seen
SetTempBreakpoint == \E a \in PCs \cup {NoAddr} : Arm([brk EXCEPT !.temp = a]) /\ UNCHANGED seen
SetWatchpoints == \E on \in BOOLEAN : Arm([brk EXCEPT !.watch = on]) /\ UNCHANGED seen
SetStepOut == \E s \in SPs : Arm([brk EXCEPT !.stepOut = s]) /\ UNCHANGED seen
SetFrameBreakpoint ==
  \E f \in 0 .. MaxFrames \cup {NoAddr} : Arm([brk EXCEPT !.frame = f]) /\ UNCHANGED seen
SetBreakHaltDi ==
  \E on \in BOOLEAN : Arm([brk EXCEPT !.haltDi = on]) /\ seen' = [seen EXCEPT !.haltDi = FALSE]
SetSpRange ==
  \E on \in BOOLEAN : Arm([brk EXCEPT !.spRange = on]) /\ seen' = [seen EXCEPT !.sp = FALSE]

\* From a signal handler, at any moment.
RequestBreak ==
  /\ breakRequest' = TRUE /\ armed' = TRUE
  /\ UNCHANGED <<cpuVars, frames, cycle, lineCycles, position, settings, stopPending,
                 resumption, stop, at, callVars, out, since, fed, stepped>>

----------------------------------------------------------------------------
(* The calls of the host.                                                   *)

\* Mutant: the mouse gets motion on every call.
FeedAlways == 1
\* Motions step_frame feeds the mouse: one when it begins a frame.
Feed == IF active THEN 0 ELSE 1

CallStepFrame ==
  /\ at = "host" /\ frames < MaxFrames
  /\ at' = "start" /\ call' = "frame"
  /\ skipRender' \in BOOLEAN
  /\ stop' = "none"
  /\ out' = NoOutput
  /\ fed' = fed + Feed
  /\ armed' = (breakRequest \/ ArmedIn(brk) # {})
  /\ UNCHANGED <<cpuVars, frames, cycle, lineCycles, position, settings, breakRequest,
                 stopPending, resumption, end, since, stepped>>

CallStep ==
  /\ at = "host" /\ frames < MaxFrames
  /\ at' = "start" /\ call' = "step"
  /\ skipRender' = FALSE
  /\ stop' = "none"
  /\ out' = NoOutput
  /\ UNCHANGED <<cpuVars, frames, cycle, lineCycles, position, settings, breakRequest,
                 stopPending, resumption, end, since, armed, fed, stepped>>

\* _drop_frame. What the frame ran is never mixed: the origin of cycle moves.
DropFrame ==
  /\ active' = FALSE /\ image' = FALSE /\ stopPending' = FALSE
  /\ cycle' = 0 /\ raised' = FALSE /\ fed' = 0 /\ stepped' = FALSE
  /\ UNCHANGED <<line, total, start, rendered>>

Reset ==
  /\ at = "host"
  /\ DropFrame
  /\ cpu' = PowerOn
  /\ vblankLine' = FirstSplit
  /\ since' = "dropped"
  /\ UNCHANGED <<kind, frames, lineCycles, settings, breakRequest, resumption, stop,
                 at, callVars, out, armed>>

\* The state of any machine of this configuration.
LoadState ==
  /\ at = "host"
  /\ DropFrame
  /\ cpu' \in Cpus
  /\ vblankLine' \in VblankLines(kind)
  /\ frames' \in 0 .. MaxFrames
  /\ since' = "dropped"
  /\ UNCHANGED <<kind, lineCycles, settings, breakRequest, resumption, stop,
                 at, callVars, out, armed>>

----------------------------------------------------------------------------
(* run_frame.                                                               *)

\* Mutant: a resumed frame starts over.
BeginAlways ==
  /\ line' = 0 /\ total' = 0 /\ start' = cycle /\ rendered' = FALSE /\ image' = FALSE
  /\ raised' = FALSE /\ stepped' = (call = "step")

BeginOrResume ==
  \/ /\ active
     /\ UNCHANGED <<line, total, start, rendered, image, raised, stepped>>
  \/ /\ ~active
     /\ line' = 0 /\ total' = 0 /\ start' = cycle /\ rendered' = FALSE /\ image' = FALSE
     /\ raised' = FALSE /\ stepped' = (call = "step")

\* The breakpoint test the first instruction skips: after a stop or a step,
\* and never while stepping.
SkipAfterStop ==
  /\ resumeSkipPc' = IF call = "frame" /\ (stopPending \/ resumeAfterStop)
                     THEN cpu.pc ELSE resumeSkipPc
  /\ resumeAfterStop' = (resumeAfterStop /\ call = "step")

\* Mutant: the flag of an old stop survives into the next call.
KeepStop == UNCHANGED stopPending
ClearStop == stopPending' = FALSE

RunFrame ==
  /\ at = "start"
  /\ SkipAfterStop
  /\ ClearStop
  /\ active' = TRUE
  /\ BeginOrResume
  /\ \/ line' <= vblankLine /\ at' = "segment" /\ end' = vblankLine + 1
     \/ line' > vblankLine /\ at' = "render" /\ UNCHANGED end
  /\ out' = NoOutput
  /\ UNCHANGED <<cpu, kind, vblankLine, frames, cycle, lineCycles, settings,
                 breakRequest, stop, call, skipRender, since, armed, fed>>

\* The locals of a call end with it.
NoLocals == end' = 0 /\ skipRender' = FALSE

\* Mutant: the T-states of a stopped line never reach the clock.
StopAtUnflushed(reason, n) ==
  /\ stop' = reason
  /\ stopPending' = TRUE
  /\ resumeSkipPc' = NoAddr
  /\ resumeAfterStop' = (resumeAfterStop \/ call = "step")
  /\ lineCycles' = 0 /\ UNCHANGED cycle
  /\ at' = "host" /\ NoLocals
  /\ out' = IF call = "frame" THEN Output(reason, FALSE, FALSE, 0) ELSE NoOutput
  /\ since' = "stopped"

\* The call stops in the frame, after `n` T-states of the line.
StopAt(reason, n) ==
  /\ stop' = reason
  /\ stopPending' = TRUE
  /\ resumeSkipPc' = NoAddr
  /\ resumeAfterStop' = (resumeAfterStop \/ call = "step")
  /\ cycle' = cycle + lineCycles + n /\ lineCycles' = 0
  /\ at' = "host" /\ NoLocals
  /\ out' = IF call = "frame" THEN Output(reason, FALSE, FALSE, 0) ELSE NoOutput
  /\ since' = "stopped"

\* Mutants: a step takes the request; a step waits until it is taken.
RequestedAlways == breakRequest
MayRunUnrequested == ~breakRequest

\* _run_segment: a break request stops before the segment, but not a step.
Requested == call = "frame" /\ breakRequest
MayRun == call = "step" \/ ~breakRequest

TakeRequest ==
  /\ at = "segment" /\ Requested
  /\ breakRequest' = FALSE
  /\ StopAt("requested", 0)
  /\ UNCHANGED <<cpuVars, frames, position, settings, call, armed, fed, stepped>>

RunSegment ==
  /\ at = "segment" /\ MayRun
  /\ at' = "lines"
  /\ UNCHANGED <<cpuVars, frames, cycle, lineCycles, position, settings, breakRequest,
                 stopPending, resumption, stop, callVars, out, history>>

\* Instructions run one by one, or in a batch of the idle CPU when no setting
\* is armed: the run loop sees T-states either way.
Running == at = "lines" /\ total < LineEnd(line)

AtBreakpoint == cpu.pc \in brk.points \/ cpu.pc = brk.temp
\* Mutant: no test is skipped.
StopsAlways(pc) == call = "frame" /\ AtBreakpoint
StopsAtPc(pc) == call = "frame" /\ AtBreakpoint /\ pc # resumeSkipPc

BreakAtPc ==
  /\ Running /\ StopsAtPc(cpu.pc)
  /\ brk' = [brk EXCEPT !.temp = IF @ = cpu.pc THEN NoAddr ELSE @]
  /\ StopAt("breakpoint", 0)
  /\ UNCHANGED <<cpuVars, frames, position, seen, breakRequest, call,
                 armed, fed, stepped>>

\* _post_step_break: the first crash condition that holds and was not yet
\* reported stops; a condition that no longer holds may stop again.
HaltDiHit(c) == brk.haltDi /\ c.hung /\ ~seen.haltDi
SpHit(c) == ~HaltDiHit(c) /\ brk.spRange /\ c.sp \notin SpRange /\ ~seen.sp
StepOutHit(c) ==
  ~HaltDiHit(c) /\ ~SpHit(c) /\ brk.stepOut # NoAddr /\ c.sp > brk.stepOut
PostStepBreak(c) == HaltDiHit(c) \/ SpHit(c) \/ StepOutHit(c)
Seen(c) ==
  [haltDi |-> IF brk.haltDi THEN c.hung ELSE seen.haltDi,
   sp |-> IF brk.spRange /\ ~HaltDiHit(c) THEN c.sp \notin SpRange ELSE seen.sp]

\* What an instruction of n T-states does besides running on or stopping.
Execute(n, c) ==
  /\ Running /\ ~StopsAtPc(cpu.pc)
  /\ cpu' = c
  /\ vblankLine' \in VblankLines(kind)
  /\ total' = total + n
  /\ UNCHANGED <<kind, raised, frames, active, line, start, rendered, image,
                 breakRequest, call, armed, fed, stepped>>

\* The tests after the instruction, in the loop arm for breaks.
Checked(c) ==
  /\ seen' = Seen(c)
  /\ brk' = [brk EXCEPT !.stepOut = IF StepOutHit(c) THEN NoAddr ELSE @]

BreakConditionsActive == ArmedIn(brk) \ {"frame"} # {}

\* A watched access stops after the instruction that made it; a crash condition
\* of the same instruction replaces it as the reason.
Instruction(n, c) ==
  /\ call = "frame"
  /\ Execute(n, c)
  /\ Checked(c)
  /\ \E watched \in BOOLEAN :
       /\ watched => brk.watch
       /\ LET pending == stopPending \/ watched \/ PostStepBreak(c)
              reason == IF PostStepBreak(c) THEN "breakpoint"
                        ELSE IF watched THEN "watchpoint" ELSE stop
          IN  \/ pending /\ StopAt(reason, n)
              \/ /\ ~pending
                 /\ lineCycles' = lineCycles + n
                 /\ resumeSkipPc' = IF BreakConditionsActive /\ cpu.pc = resumeSkipPc
                                    THEN NoAddr ELSE resumeSkipPc
                 /\ since' = "moved"
                 /\ UNCHANGED <<at, end, skipRender, cycle, stop, stopPending,
                                resumeAfterStop, out>>

\* step: one instruction, then the call returns. Only a watched access is a stop.
StepInstruction(n, c) ==
  /\ call = "step"
  /\ Execute(n, c)
  /\ StopAt(stop, n) \/ (brk.watch /\ StopAt("watchpoint", n))
  /\ UNCHANGED settings

\* begin_scanline of the V9938 raises VBlank at the line its registers give now.
EndLine ==
  /\ at = "lines" /\ total >= LineEnd(line)
  /\ cycle' = cycle + lineCycles /\ lineCycles' = 0
  /\ raised' = (raised \/ (kind = "V9938" /\ line = vblankLine))
  /\ line' = line + 1
  /\ at' = IF line' < end THEN "lines" ELSE IF end = Lines THEN "finish" ELSE "render"
  /\ UNCHANGED <<cpu, kind, vblankLine, frames, active, total, start, rendered, image,
                 settings, breakRequest, stopPending, resumption, stop, callVars, out,
                 history>>

\* The render between the segments, once per frame: lines are always left,
\* since vertical blanking starts well above the last.
Render ==
  /\ at = "render"
  /\ \/ /\ ~rendered
        /\ rendered' = TRUE /\ image' = ~skipRender
        /\ raised' = (raised \/ kind = "TMS9918A")
     \/ rendered /\ UNCHANGED <<rendered, image, raised>>
  /\ at' = "segment" /\ end' = Lines
  /\ UNCHANGED <<cpu, kind, vblankLine, frames, cycle, lineCycles, active, line, total,
                 start, settings, breakRequest, stopPending, resumption, stop, call,
                 skipRender, out, history>>

\* The frame is counted and mixed. A step that has run nothing yet goes on.
FrameBreakpointHit == brk.frame # NoAddr /\ frames' = brk.frame

Finish ==
  /\ at = "finish"
  /\ resumeSkipPc' = NoAddr
  /\ active' = FALSE /\ image' = FALSE
  /\ frames' = frames + 1
  /\ cycle' = 0 /\ raised' = FALSE /\ fed' = 0 /\ stepped' = FALSE
  /\ \/ /\ FrameBreakpointHit
        /\ brk' = [brk EXCEPT !.frame = NoAddr]
        /\ stop' = "breakpoint" /\ stopPending' = TRUE
        /\ since' = "stopped"
     \/ /\ ~FrameBreakpointHit
        /\ since' = IF since = "stopped" THEN "crossed" ELSE since
        /\ UNCHANGED <<brk, stop, stopPending>>
  /\ out' = Output(IF stopPending' THEN stop' ELSE "none", TRUE, image, cycle - start)
  /\ at' = IF call = "frame" THEN "host" ELSE "start"
  /\ NoLocals
  /\ UNCHANGED <<cpu, kind, vblankLine, lineCycles, line, total, start, rendered, seen,
                 breakRequest, resumeAfterStop, call, armed>>

----------------------------------------------------------------------------
Init ==
  /\ cpu = PowerOn
  /\ kind \in Kinds
  /\ vblankLine = FirstSplit
  /\ raised = FALSE
  /\ frames = 0 /\ cycle = 0 /\ lineCycles = 0
  /\ active = FALSE /\ line = 0 /\ total = 0 /\ start = 0
  /\ rendered = FALSE /\ image = FALSE
  /\ brk = Off /\ seen = [haltDi |-> FALSE, sp |-> FALSE]
  /\ breakRequest = FALSE /\ stopPending = FALSE
  /\ resumeAfterStop = FALSE /\ resumeSkipPc = NoAddr
  /\ stop = "none" /\ at = "host" /\ call = "none" /\ end = 0 /\ skipRender = FALSE
  /\ out = NoOutput
  /\ since = "moved" /\ armed = FALSE /\ fed = 0 /\ stepped = FALSE

HostStep ==
  \/ SetBreakpoints \/ SetTempBreakpoint \/ SetWatchpoints \/ SetStepOut
  \/ SetFrameBreakpoint \/ SetBreakHaltDi \/ SetSpRange
  \/ CallStepFrame \/ CallStep \/ Reset \/ LoadState

CpuStep ==
  \E n \in Costs, c \in Cpus :
    Instruction(n, c) \/ StepInstruction(n, c)

\* A step of the call that runs.
RunStep ==
  \/ RunFrame \/ TakeRequest \/ RunSegment \/ BreakAtPc
  \/ CpuStep
  \/ EndLine \/ Render \/ Finish

Next == HostStep \/ RequestBreak \/ RunStep

\* A call is a Python function: once called, it goes on.
Spec == Init /\ [][Next]_vars /\ WF_vars(RunStep)

----------------------------------------------------------------------------
(* Properties.                                                              *)

FlagsOK ==
  /\ raised \in BOOLEAN /\ active \in BOOLEAN /\ rendered \in BOOLEAN /\ image \in BOOLEAN
  /\ breakRequest \in BOOLEAN /\ stopPending \in BOOLEAN /\ resumeAfterStop \in BOOLEAN
  /\ skipRender \in BOOLEAN /\ armed \in BOOLEAN /\ stepped \in BOOLEAN

NumbersOK ==
  /\ vblankLine \in Splits /\ frames \in Nat /\ cycle \in Nat /\ lineCycles \in Nat
  /\ line \in 0 .. Lines /\ total \in Nat /\ start \in Nat /\ end \in 0 .. Lines
  /\ resumeSkipPc \in PCs \cup {NoAddr} /\ fed \in Nat

BreakOK ==
  /\ brk \in [points : SUBSET PCs, temp : PCs \cup {NoAddr}, watch : BOOLEAN,
              haltDi : BOOLEAN, spRange : BOOLEAN, stepOut : SPs \cup {NoAddr},
              frame : Nat \cup {NoAddr}]
  /\ seen \in [haltDi : BOOLEAN, sp : BOOLEAN]

StopReasons == {"none", "breakpoint", "watchpoint", "requested"}

CallOK ==
  /\ cpu \in Cpus /\ kind \in Kinds
  /\ stop \in StopReasons
  /\ at \in {"host", "start", "segment", "lines", "render", "finish"}
  /\ call \in {"none", "frame", "step"}
  /\ out \in [reason : StopReasons, complete : BOOLEAN, video : BOOLEAN, audio : Nat]
  /\ since \in {"stopped", "crossed", "dropped", "moved"}

TypeOK == FlagsOK /\ NumbersOK /\ BreakOK /\ CallOK

\* The clock and the frame position agree at every instruction and across every
\* stop: no T-state of a stopped line is lost or counted twice.
CyclesAccounted == active => cycle + lineCycles = start + total

\* A step_frame that comes back before the frame is complete says why, and it
\* stops only when something was armed (docs: with nothing armed, step_frame
\* never stops).
StopsAreReported ==
  at = "host" /\ call = "frame" =>
    /\ out.complete \/ out.reason # "none"
    /\ out.reason # "none" => armed

\* The mouse gets the motion of one step_frame call per frame, however often
\* the frame stops; a frame that a step began gets none.
MotionOncePerFrame == active => fed = (IF stepped THEN 0 ELSE 1)

\* Stops, resumes and steps cannot be told from the frames: the run loop
\* implements the uninterrupted frame sequence.
Uninterrupted == INSTANCE Frames WITH
  line <- IF active THEN line ELSE 0,
  total <- IF active THEN total ELSE 0,
  rendered <- active /\ rendered,
  image <- active /\ image,
  given <- [video |-> out.video, audio |-> out.audio],
  dropped <- since = "dropped"
ImplementsFrames == Uninterrupted!Spec

\* A resume does not stop again at the breakpoint it stopped at, unless the
\* frame ended in between.
ResumeMakesProgress == [][BreakAtPc => since # "stopped"]_vars

\* step() takes no break request and uses up no run-to address, step-out or
\* crash condition, wherever in the frame it runs.
StepKeepsBreaks ==
  [][call = "step" /\ at # "host" =>
       /\ [brk' EXCEPT !.frame = NoAddr] = [brk EXCEPT !.frame = NoAddr]
       /\ seen' = seen
       /\ breakRequest => breakRequest']_vars

\* A call of step_frame or step returns: a step that first completes the frame
\* left at its end goes on to its instruction.
CallsReturn == at # "host" ~> at = "host"

\* docs/technical-implementation.md: a port "skips the breakpoint test for the
\* first instruction after a stop".
FirstInstructionSkipsTest == [][BreakAtPc => since \notin {"stopped", "crossed"}]_vars

\* run_frame's docstring: both VDPs render at the point where they raise VBlank,
\* so the VBlank handler has not touched the frame yet.
RenderBeforeHandler == [][CpuStep => (raised => rendered)]_vars
=============================================================================
