-------------------------- MODULE FrameLoop_proofs --------------------------
(***************************************************************************)
(* Proofs about FrameLoop, for every raster, program, set of break         *)
(* settings and order of host calls: no T-state is lost at a stop, every   *)
(* stop is reported, and the run loop implements the uninterrupted frame   *)
(* sequence of module Frames.                                              *)
(***************************************************************************)
EXTENDS FrameLoop, TLAPS

\* Control points between the start and the end of run_frame.
Inside == {"segment", "lines", "render", "finish"}

\* Where the frame is at each control point.
Placed ==
  /\ at \in Inside => active
  /\ active /\ at # "finish" => line < Lines
  /\ at \in {"segment", "lines"} =>
       /\ line < end
       /\ \/ rendered /\ end = Lines
          \/ \E s \in Splits : end = s + 1
  /\ at = "render" => \E s \in Splits : line > s
  /\ at = "finish" => line = Lines /\ rendered
  /\ at # "lines" => lineCycles = 0

\* Inside run_frame nothing is left of the call before.
Quiet == at \in Inside => out = NoOutput /\ ~stopPending

Fed ==
  /\ at # "host" => call \in {"frame", "step"}
  /\ ~active /\ at = "host" => fed = 0
  /\ ~active /\ at = "start" => fed = (IF call = "frame" THEN 1 ELSE 0)

\* A call under way knows of every reason to stop.
Reasons == at # "host" /\ (breakRequest \/ ArmedIn(brk) # {}) /\ call = "frame" => armed

IInv ==
  /\ TypeOK /\ CyclesAccounted /\ MotionOncePerFrame /\ StopsAreReported
  /\ Placed /\ Quiet /\ Fed /\ Reasons

----------------------------------------------------------------------------
(* Facts the actions share.                                                 *)

LEMMA SplitFacts ==
  /\ Splits \subseteq Nat /\ \A s \in Splits : s + 1 < Lines
  /\ FirstSplit \in Splits
  /\ \A k : VblankLines(k) \subseteq Splits
BY FrameAssumption DEF VblankLines

Outputs == [reason : StopReasons, complete : BOOLEAN, video : BOOLEAN, audio : Nat]

LEMMA NoOutputOK == NoOutput \in Outputs
BY DEF NoOutput, Output, Outputs, StopReasons

\* A setting that is on is one of those armed.
LEMMA ArmedFacts ==
  ASSUME TypeOK
  PROVE  /\ brk.frame # NoAddr => ArmedIn(brk) # {}
         /\ brk.watch => ArmedIn(brk) # {}
         /\ brk.haltDi => ArmedIn(brk) # {}
         /\ brk.spRange => ArmedIn(brk) # {}
         /\ brk.stepOut # NoAddr => ArmedIn(brk) # {}
         /\ brk.points # {} => ArmedIn(brk) # {}
         /\ brk.temp # NoAddr => ArmedIn(brk) # {}
<1>1. /\ brk.frame # NoAddr => "frame" \in ArmedIn(brk)
      /\ brk.stepOut # NoAddr => "stepOut" \in ArmedIn(brk)
      /\ brk.temp # NoAddr => "temp" \in ArmedIn(brk)
  BY DEF ArmedIn, Off
<1>2. /\ brk.watch => "watch" \in ArmedIn(brk)
      /\ brk.haltDi => "haltDi" \in ArmedIn(brk)
      /\ brk.spRange => "spRange" \in ArmedIn(brk)
  BY DEF ArmedIn, Off
<1>3. brk.points # {} => "points" \in ArmedIn(brk)
  BY DEF ArmedIn, Off
<1> QED BY <1>1, <1>2, <1>3

LEMMA InitInv == Init => IInv
<1> SUFFICES ASSUME Init PROVE IInv
  OBVIOUS
<1>1. TypeOK
  <2>1. FlagsOK
    BY DEF Init, FlagsOK
  <2>2. NumbersOK
    BY SplitFacts, FrameAssumption DEF Init, NumbersOK
  <2>3. BreakOK
    BY DEF Init, BreakOK, Off
  <2>4. CallOK
    BY FrameAssumption DEF Init, CallOK, NoOutput, Output, StopReasons
  <2> QED BY <2>1, <2>2, <2>3, <2>4 DEF TypeOK
<1>2. CyclesAccounted /\ MotionOncePerFrame /\ StopsAreReported
  BY DEF Init, CyclesAccounted, MotionOncePerFrame, StopsAreReported
<1>3. Placed /\ Quiet /\ Fed /\ Reasons
  BY DEF Init, Placed, Quiet, Fed, Reasons, Inside
<1> QED BY <1>1, <1>2, <1>3 DEF IInv

\* A setter keeps the invariant when the new setting is of its type.
LEMMA ArmInv ==
  ASSUME IInv, NEW b, Arm(b), BreakOK'
  PROVE  IInv'
<1>1. TypeOK'
  BY DEF Arm, IInv, TypeOK, FlagsOK, NumbersOK, CallOK, cpuVars, position,
     resumption, callVars, history
<1> QED BY <1>1 DEF Arm, IInv, CyclesAccounted, MotionOncePerFrame, StopsAreReported,
           Placed, Quiet, Fed, Reasons, Inside, cpuVars, position, resumption, callVars,
           history

LEMMA SettersInv ==
  ASSUME IInv,
         \/ SetBreakpoints \/ SetTempBreakpoint \/ SetWatchpoints \/ SetStepOut
         \/ SetFrameBreakpoint \/ SetBreakHaltDi \/ SetSpRange
  PROVE  IInv'
<1>1. BreakOK
  BY DEF IInv, TypeOK
<1>2. CASE SetBreakpoints
  <2>1. PICK ps \in SUBSET PCs : Arm([brk EXCEPT !.points = ps]) /\ UNCHANGED seen
    BY <1>2 DEF SetBreakpoints
  <2>2. BreakOK'
    BY <1>1, <2>1 DEF BreakOK, Arm
  <2> QED BY <2>1, <2>2, ArmInv
<1>3. CASE SetTempBreakpoint
  <2>1. PICK a \in PCs \cup {NoAddr} : Arm([brk EXCEPT !.temp = a]) /\ UNCHANGED seen
    BY <1>3 DEF SetTempBreakpoint
  <2>2. BreakOK'
    BY <1>1, <2>1 DEF BreakOK, Arm
  <2> QED BY <2>1, <2>2, ArmInv
<1>4. CASE SetWatchpoints
  <2>1. PICK on \in BOOLEAN : Arm([brk EXCEPT !.watch = on]) /\ UNCHANGED seen
    BY <1>4 DEF SetWatchpoints
  <2>2. BreakOK'
    BY <1>1, <2>1 DEF BreakOK, Arm
  <2> QED BY <2>1, <2>2, ArmInv
<1>5. CASE SetStepOut
  <2>1. PICK s \in SPs : Arm([brk EXCEPT !.stepOut = s]) /\ UNCHANGED seen
    BY <1>5 DEF SetStepOut
  <2>2. BreakOK'
    BY <1>1, <2>1 DEF BreakOK, Arm
  <2> QED BY <2>1, <2>2, ArmInv
<1>6. CASE SetFrameBreakpoint
  <2>1. PICK f \in 0 .. MaxFrames \cup {NoAddr} :
          Arm([brk EXCEPT !.frame = f]) /\ UNCHANGED seen
    BY <1>6 DEF SetFrameBreakpoint
  <2>2. f \in Nat \cup {NoAddr}
    BY <2>1, FrameAssumption
  <2>3. BreakOK'
    BY <1>1, <2>1, <2>2 DEF BreakOK, Arm
  <2> QED BY <2>1, <2>3, ArmInv
<1>7. CASE SetBreakHaltDi
  <2>1. PICK on \in BOOLEAN :
          Arm([brk EXCEPT !.haltDi = on]) /\ seen' = [seen EXCEPT !.haltDi = FALSE]
    BY <1>7 DEF SetBreakHaltDi
  <2>2. BreakOK'
    BY <1>1, <2>1 DEF BreakOK, Arm
  <2> QED BY <2>1, <2>2, ArmInv
<1>8. CASE SetSpRange
  <2>1. PICK on \in BOOLEAN :
          Arm([brk EXCEPT !.spRange = on]) /\ seen' = [seen EXCEPT !.sp = FALSE]
    BY <1>8 DEF SetSpRange
  <2>2. BreakOK'
    BY <1>1, <2>1 DEF BreakOK, Arm
  <2> QED BY <2>1, <2>2, ArmInv
<1> QED BY <1>2, <1>3, <1>4, <1>5, <1>6, <1>7, <1>8

LEMMA RequestBreakInv ==
  ASSUME IInv, RequestBreak
  PROVE  IInv'
<1>1. TypeOK'
  BY DEF RequestBreak, IInv, TypeOK, FlagsOK, NumbersOK, BreakOK, CallOK,
     cpuVars, position, settings, resumption, callVars
<1> QED BY <1>1 DEF RequestBreak, IInv, CyclesAccounted, MotionOncePerFrame,
           StopsAreReported, Placed, Quiet, Fed, Reasons, Inside, cpuVars, position,
           settings, resumption, callVars

\* The calls begin with the position of the last stop.
LEMMA CallInv ==
  ASSUME IInv, CallStepFrame \/ CallStep
  PROVE  IInv'
<1>1. TypeOK'
  <2>1. FlagsOK'
    BY DEF CallStepFrame, CallStep, IInv, TypeOK, FlagsOK, cpuVars, position, resumption
  <2>2. NumbersOK'
    <3>1. Feed \in {0, 1} /\ fed' \in {fed, fed + Feed}
      BY DEF CallStepFrame, CallStep, Feed
    <3>2. fed' \in Nat
      BY <3>1 DEF IInv, TypeOK, NumbersOK
    <3> QED BY <3>2 DEF CallStepFrame, CallStep, IInv, TypeOK, NumbersOK, cpuVars, position,
               resumption
  <2>3. BreakOK'
    BY DEF CallStepFrame, CallStep, IInv, TypeOK, BreakOK, settings
  <2>4. CallOK'
    BY NoOutputOK DEF Outputs, CallStepFrame, CallStep, IInv, TypeOK, CallOK, cpuVars, StopReasons
  <2> QED BY <2>1, <2>2, <2>3, <2>4 DEF TypeOK
<1>2. CyclesAccounted' /\ StopsAreReported' /\ Placed' /\ Quiet'
  BY DEF CallStepFrame, CallStep, IInv, CyclesAccounted, StopsAreReported, Placed, Quiet,
     Inside, cpuVars, position, settings, resumption
<1>3. MotionOncePerFrame' /\ Fed'
  BY DEF CallStepFrame, CallStep, Feed, IInv, TypeOK, NumbersOK, MotionOncePerFrame, Fed,
     position
<1>4. Reasons'
  BY DEF CallStepFrame, CallStep, IInv, Reasons, settings
<1> QED BY <1>1, <1>2, <1>3, <1>4 DEF IInv

LEMMA DropInv ==
  ASSUME IInv, Reset \/ LoadState
  PROVE  IInv'
<1>1. TypeOK'
  <2>1. FlagsOK'
    BY DEF Reset, LoadState, DropFrame, IInv, TypeOK, FlagsOK, resumption, callVars
  <2>2. NumbersOK'
    BY SplitFacts, FrameAssumption DEF Reset, LoadState, DropFrame, IInv, TypeOK, NumbersOK,
       resumption, callVars
  <2>3. BreakOK' /\ CallOK'
    BY FrameAssumption DEF Reset, LoadState, DropFrame, IInv, TypeOK, BreakOK, CallOK,
       settings, callVars
  <2> QED BY <2>1, <2>2, <2>3 DEF TypeOK
<1>2. CyclesAccounted' /\ MotionOncePerFrame' /\ StopsAreReported' /\ Placed' /\ Quiet'
      /\ Fed' /\ Reasons'
  BY DEF Reset, LoadState, DropFrame, IInv, CyclesAccounted, MotionOncePerFrame,
     StopsAreReported, Placed, Quiet, Fed, Reasons, Inside, settings, callVars
<1> QED BY <1>1, <1>2 DEF IInv

----------------------------------------------------------------------------
(* The steps of a call.                                                     *)

LEMMA RunFrameInv ==
  ASSUME IInv, RunFrame
  PROVE  IInv'
<1>1. TypeOK'
  <2>1. FlagsOK'
    BY DEF RunFrame, BeginOrResume, SkipAfterStop, ClearStop, IInv, TypeOK, FlagsOK
  <2>2. cpu.pc \in PCs
    BY FrameAssumption DEF IInv, TypeOK, CallOK
  <2>3. resumeSkipPc' \in PCs \cup {NoAddr}
    BY <2>2 DEF RunFrame, SkipAfterStop, IInv, TypeOK, NumbersOK
  <2>4. /\ line' \in 0 .. Lines /\ total' \in Nat /\ start' \in Nat
        /\ end' \in 0 .. Lines
    BY SplitFacts, FrameAssumption DEF RunFrame, BeginOrResume, IInv, TypeOK, NumbersOK
  <2>5. NumbersOK'
    BY <2>3, <2>4 DEF RunFrame, IInv, TypeOK, NumbersOK
  <2>6. BreakOK' /\ CallOK'
    BY NoOutputOK DEF Outputs, RunFrame, IInv, TypeOK, BreakOK, CallOK, settings
  <2> QED BY <2>1, <2>5, <2>6 DEF TypeOK
<1>2. CyclesAccounted'
  BY DEF RunFrame, BeginOrResume, IInv, TypeOK, NumbersOK, CyclesAccounted, Placed
<1>3. Placed'
  BY SplitFacts, FrameAssumption
     DEF RunFrame, BeginOrResume, IInv, TypeOK, NumbersOK, Placed, Inside
<1>4. StopsAreReported' /\ Quiet'
  BY DEF RunFrame, ClearStop, StopsAreReported, Quiet, Inside
<1>5. MotionOncePerFrame' /\ Fed'
  <2>1. CASE active
    BY <2>1 DEF RunFrame, BeginOrResume, IInv, MotionOncePerFrame, Fed
  <2>2. CASE ~active /\ call = "step"
    BY <2>2 DEF RunFrame, BeginOrResume, IInv, MotionOncePerFrame, Fed
  <2>3. CASE ~active /\ call = "frame"
    BY <2>3 DEF RunFrame, BeginOrResume, IInv, MotionOncePerFrame, Fed
  <2> QED BY <2>1, <2>2, <2>3 DEF RunFrame, IInv, Fed
<1>6. Reasons'
  BY DEF RunFrame, IInv, Reasons, settings
<1> QED BY <1>1, <1>2, <1>3, <1>4, <1>5, <1>6 DEF IInv

\* A stop keeps the invariant, whatever else the instruction before it changed.
LEMMA StopInv ==
  ASSUME IInv, at \in {"segment", "lines"},
         NEW reason \in StopReasons, NEW n \in Nat, StopAt(reason, n),
         call = "frame" => reason # "none" /\ armed,
         total' = total + n, cpu' \in Cpus, vblankLine' \in Splits,
         BreakOK', breakRequest' \in BOOLEAN,
         UNCHANGED <<kind, raised, frames, active, line, start, rendered, image, call,
                     armed, fed, stepped>>
  PROVE  IInv'
<1>1. TypeOK'
  <2>1. FlagsOK'
    BY DEF StopAt, NoLocals, IInv, TypeOK, FlagsOK
  <2>2. cycle' \in Nat /\ total' \in Nat
    BY DEF StopAt, IInv, TypeOK, NumbersOK
  <2>3. NumbersOK'
    BY <2>2, FrameAssumption DEF StopAt, NoLocals, IInv, TypeOK, NumbersOK
  <2>4. Output(reason, FALSE, FALSE, 0) \in Outputs
    BY DEF Output, Outputs
  <2>5. CallOK'
    BY <2>4, NoOutputOK DEF StopAt, IInv, TypeOK, CallOK, Outputs
  <2> QED BY <2>1, <2>3, <2>5 DEF TypeOK
<1>2. CyclesAccounted'
  BY DEF StopAt, IInv, TypeOK, NumbersOK, CyclesAccounted
<1>3. MotionOncePerFrame' /\ Fed'
  BY DEF StopAt, IInv, MotionOncePerFrame, Placed, Inside, Fed
<1>4. StopsAreReported'
  BY DEF StopAt, StopsAreReported, Output
<1>5. Placed'
  BY DEF StopAt, IInv, Placed, Inside
<1>6. Quiet' /\ Reasons'
  BY DEF StopAt, Quiet, Inside, Reasons
<1> QED BY <1>1, <1>2, <1>3, <1>4, <1>5, <1>6 DEF IInv, TypeOK

LEMMA TakeRequestInv ==
  ASSUME IInv, TakeRequest
  PROVE  IInv'
<1>1. armed
  BY DEF TakeRequest, Requested, IInv, Reasons
<1>2. "requested" \in StopReasons /\ 0 \in Nat /\ "requested" # "none"
  BY DEF StopReasons
<1>3. BreakOK' /\ cpu' \in Cpus /\ vblankLine' \in Splits /\ breakRequest' \in BOOLEAN
  BY DEF TakeRequest, IInv, TypeOK, BreakOK, CallOK, NumbersOK, cpuVars, settings
<1>4. total' = total + 0
  BY DEF TakeRequest, position, IInv, TypeOK, NumbersOK
<1> QED BY <1>1, <1>2, <1>3, <1>4, StopInv DEF TakeRequest, cpuVars, position

LEMMA RunSegmentInv ==
  ASSUME IInv, RunSegment
  PROVE  IInv'
<1>1. TypeOK'
  BY DEF RunSegment, IInv, TypeOK, FlagsOK, NumbersOK, BreakOK, CallOK, cpuVars, position,
     settings, resumption, callVars, history
<1> QED BY <1>1 DEF RunSegment, IInv, CyclesAccounted, MotionOncePerFrame, StopsAreReported,
           Placed, Quiet, Fed, Reasons, Inside, cpuVars, position, settings, resumption,
           callVars, history

LEMMA BreakAtPcInv ==
  ASSUME IInv, BreakAtPc
  PROVE  IInv'
<1>1. at = "lines" /\ call = "frame" /\ AtBreakpoint
  BY DEF BreakAtPc, Running, StopsAtPc
<1>2. brk.points # {} \/ brk.temp # NoAddr
  <2>1. cpu.pc \in PCs
    BY FrameAssumption DEF IInv, TypeOK, CallOK
  <2>2. cpu.pc # NoAddr
    BY <2>1, FrameAssumption DEF NoAddr
  <2> QED BY <1>1, <2>2 DEF AtBreakpoint
<1>3. armed
  BY <1>1, <1>2, ArmedFacts DEF IInv, Reasons
<1>4. "breakpoint" \in StopReasons /\ 0 \in Nat /\ "breakpoint" # "none"
  BY DEF StopReasons
<1>5. BreakOK'
  BY DEF BreakAtPc, IInv, TypeOK, BreakOK
<1>6. cpu' \in Cpus /\ vblankLine' \in Splits /\ breakRequest' \in BOOLEAN
  BY DEF BreakAtPc, IInv, TypeOK, CallOK, NumbersOK, FlagsOK, cpuVars
<1>7. total' = total + 0
  BY DEF BreakAtPc, position, IInv, TypeOK, NumbersOK
<1> QED BY <1>1, <1>3, <1>4, <1>5, <1>6, <1>7, StopInv DEF BreakAtPc, cpuVars, position

\* What every instruction does to the typed state.
LEMMA ExecuteFacts ==
  ASSUME IInv, NEW n \in Costs, NEW c \in Cpus, Execute(n, c)
  PROVE  /\ at = "lines" /\ n \in Nat /\ total' = total + n
         /\ cpu' \in Cpus /\ vblankLine' \in Splits /\ breakRequest' \in BOOLEAN
         /\ UNCHANGED <<kind, raised, frames, active, line, start, rendered, image,
                        breakRequest, call, armed, fed, stepped>>
<1>1. vblankLine' \in Splits
  BY SplitFacts DEF Execute
<1>2. n \in Nat
  BY FrameAssumption
<1> QED BY <1>1, <1>2 DEF Execute, Running, IInv, TypeOK, FlagsOK

LEMMA CheckedOK ==
  ASSUME IInv, NEW c \in Cpus, Checked(c)
  PROVE  BreakOK'
<1>1. c.hung \in BOOLEAN
  BY FrameAssumption
<1>2. seen' \in [haltDi : BOOLEAN, sp : BOOLEAN]
  BY <1>1 DEF Checked, Seen, IInv, TypeOK, BreakOK
<1>3. brk' \in [points : SUBSET PCs, temp : PCs \cup {NoAddr}, watch : BOOLEAN,
                haltDi : BOOLEAN, spRange : BOOLEAN, stepOut : SPs \cup {NoAddr},
                frame : Nat \cup {NoAddr}]
  BY DEF Checked, IInv, TypeOK, BreakOK
<1> QED BY <1>2, <1>3 DEF BreakOK

LEMMA InstructionInv ==
  ASSUME IInv, NEW n \in Costs, NEW c \in Cpus, Instruction(n, c)
  PROVE  IInv'
<1>1. call = "frame" /\ Execute(n, c) /\ Checked(c)
  BY DEF Instruction
<1>2. at = "lines" /\ ~stopPending /\ active
  BY <1>1, ExecuteFacts DEF IInv, Quiet, Placed, Inside
<1>3. BreakOK'
  BY <1>1, CheckedOK
<1>4. PostStepBreak(c) => armed
  <2>1. PostStepBreak(c) => brk.haltDi \/ brk.spRange \/ brk.stepOut # NoAddr
    BY DEF PostStepBreak, HaltDiHit, SpHit, StepOutHit
  <2> QED BY <1>1, <1>2, <2>1, ArmedFacts DEF IInv, Reasons
<1>5. brk.watch => armed
  BY <1>1, <1>2, ArmedFacts DEF IInv, Reasons
<1> DEFINE reasonOf(watched) == IF PostStepBreak(c) THEN "breakpoint"
                                ELSE IF watched THEN "watchpoint" ELSE stop
<1>6. CASE \E watched \in BOOLEAN :
             /\ watched => brk.watch
             /\ watched \/ PostStepBreak(c)
             /\ StopAt(reasonOf(watched), n)
  <2>1. PICK watched \in BOOLEAN :
          /\ watched => brk.watch
          /\ watched \/ PostStepBreak(c)
          /\ StopAt(reasonOf(watched), n)
    BY <1>6
  <2>2. reasonOf(watched) \in StopReasons /\ reasonOf(watched) # "none" /\ armed
    BY <1>4, <1>5, <2>1 DEF StopReasons
  <2> HIDE DEF reasonOf
  <2> QED BY <1>1, <1>2, <1>3, <2>1, <2>2, ExecuteFacts, StopInv
<1>7. CASE /\ lineCycles' = lineCycles + n
           /\ resumeSkipPc' \in {resumeSkipPc, NoAddr}
           /\ since' = "moved"
           /\ UNCHANGED <<at, end, skipRender, cycle, stop, stopPending,
                          resumeAfterStop, out>>
  <2>1. FlagsOK'
    BY <1>1, <1>7, ExecuteFacts DEF IInv, TypeOK, FlagsOK
  <2>2. lineCycles' \in Nat /\ total' \in Nat
    BY <1>1, <1>7, ExecuteFacts DEF IInv, TypeOK, NumbersOK
  <2>3. NumbersOK'
    BY <1>1, <1>7, <2>2, ExecuteFacts DEF IInv, TypeOK, NumbersOK
  <2>4. CallOK'
    BY <1>1, <1>7, ExecuteFacts DEF IInv, TypeOK, CallOK
  <2>5. TypeOK'
    BY <1>3, <2>1, <2>3, <2>4 DEF TypeOK
  <2>6. CyclesAccounted'
    <3>1. cycle + lineCycles = start + total
      BY <1>2 DEF IInv, CyclesAccounted
    <3>2. /\ cycle' = cycle /\ lineCycles' = lineCycles + n
          /\ start' = start /\ total' = total + n
      BY <1>1, <1>7, ExecuteFacts
    <3>3. {cycle, lineCycles, start, total, n} \subseteq Nat
      BY <1>1, ExecuteFacts DEF IInv, TypeOK, NumbersOK
    <3>4. cycle' + lineCycles' = start' + total'
      BY <3>1, <3>2, <3>3
    <3> QED BY <3>4 DEF CyclesAccounted
  <2>7. MotionOncePerFrame' /\ Fed' /\ StopsAreReported'
    <3>1. UNCHANGED <<active, fed, stepped, at, call>>
      BY <1>1, <1>7, ExecuteFacts
    <3>2. MotionOncePerFrame'
      BY <3>1 DEF IInv, MotionOncePerFrame
    <3>3. Fed'
      BY <3>1 DEF IInv, Fed
    <3> QED BY <1>2, <3>1, <3>2, <3>3 DEF StopsAreReported
  <2>8. Placed'
    BY <1>1, <1>2, <1>7, ExecuteFacts DEF IInv, Placed, Inside
  <2>9. Quiet'
    BY <1>1, <1>2, <1>7 DEF IInv, Quiet, Inside
  <2>10. Reasons'
    <3>1. ArmedIn(brk') # {} => ArmedIn(brk) # {}
      <4>1. brk' = [brk EXCEPT !.stepOut = brk'.stepOut]
            /\ brk'.stepOut \in {brk.stepOut, NoAddr}
        BY <1>1 DEF Checked, IInv, TypeOK, BreakOK
      <4>2. \A x \in DOMAIN Off : brk'[x] # Off[x] => brk[x] # Off[x]
        BY <4>1 DEF Off, IInv, TypeOK, BreakOK
      <4> QED BY <4>2 DEF ArmedIn
    <3> QED BY <1>1, <1>2, <3>1, ExecuteFacts DEF IInv, Reasons
  <2> QED BY <2>5, <2>6, <2>7, <2>8, <2>9, <2>10 DEF IInv
<1> QED BY <1>2, <1>6, <1>7 DEF Instruction

LEMMA StepInstructionInv ==
  ASSUME IInv, NEW n \in Costs, NEW c \in Cpus, StepInstruction(n, c)
  PROVE  IInv'
<1>1. call = "step" /\ Execute(n, c)
  BY DEF StepInstruction
<1>2. BreakOK'
  BY DEF StepInstruction, settings, IInv, TypeOK, BreakOK
<1>3. PICK reason \in StopReasons : StopAt(reason, n)
  BY DEF StepInstruction, IInv, TypeOK, CallOK, StopReasons
<1> QED BY <1>1, <1>2, <1>3, ExecuteFacts, StopInv

LEMMA EndLineInv ==
  ASSUME IInv, EndLine
  PROVE  IInv'
<1>1. /\ at = "lines" /\ active /\ line < end /\ line' = line + 1
      /\ line \in Nat /\ end \in 0 .. Lines /\ Lines \in Nat
      /\ \/ rendered /\ end = Lines
         \/ \E s \in Splits : end = s + 1 /\ end < Lines
  BY SplitFacts, FrameAssumption DEF EndLine, IInv, TypeOK, NumbersOK, Placed, Inside
<1>2. TypeOK'
  <2>1. FlagsOK'
    BY DEF EndLine, IInv, TypeOK, FlagsOK, resumption, callVars, history
  <2>2. cycle' \in Nat /\ lineCycles' \in Nat /\ line' \in 0 .. Lines
    BY <1>1 DEF EndLine, IInv, TypeOK, NumbersOK
  <2>3. NumbersOK'
    BY <2>2 DEF EndLine, IInv, TypeOK, NumbersOK, resumption, callVars, history
  <2>4. BreakOK' /\ CallOK'
    BY DEF EndLine, IInv, TypeOK, BreakOK, CallOK, settings, callVars, history
  <2> QED BY <2>1, <2>3, <2>4 DEF TypeOK
<1>3. CyclesAccounted'
  BY DEF EndLine, IInv, TypeOK, NumbersOK, CyclesAccounted
<1>4. MotionOncePerFrame' /\ StopsAreReported'
  BY DEF EndLine, IInv, MotionOncePerFrame, StopsAreReported, history, callVars
<1>5. at' \in {"lines", "finish", "render"} /\ lineCycles' = 0
      /\ UNCHANGED <<active, end, rendered>>
  BY DEF EndLine, callVars
<1>6. CASE line' < end
  <2>1. at' = "lines"
    BY <1>6 DEF EndLine
  <2>2. line' < Lines
    BY <1>1, <1>6
  <2> QED BY <1>1, <1>2, <1>3, <1>4, <1>5, <1>6, <2>1, <2>2
          DEF EndLine, IInv, Placed, Quiet, Fed, Reasons, Inside, settings, callVars, history
<1>7. CASE ~(line' < end) /\ end = Lines
  <2>1. at' = "finish" /\ line' = Lines /\ rendered
    BY <1>1, <1>7 DEF EndLine
  <2> QED BY <1>1, <1>2, <1>3, <1>4, <1>5, <2>1
          DEF EndLine, IInv, Placed, Quiet, Fed, Reasons, Inside, settings, callVars, history
<1>8. CASE ~(line' < end) /\ end # Lines
  <2>1. at' = "render" /\ line' < Lines /\ \E s \in Splits : line' > s
    BY <1>1, <1>8, SplitFacts DEF EndLine
  <2> QED BY <1>1, <1>2, <1>3, <1>4, <1>5, <2>1
          DEF EndLine, IInv, Placed, Quiet, Fed, Reasons, Inside, settings, callVars, history
<1> QED BY <1>6, <1>7, <1>8

LEMMA RenderInv ==
  ASSUME IInv, Render
  PROVE  IInv'
<1>1. rendered' = TRUE /\ at' = "segment" /\ end' = Lines
  BY DEF Render, IInv, TypeOK, FlagsOK
<1>2. TypeOK'
  <2>1. FlagsOK'
    BY DEF Render, IInv, TypeOK, FlagsOK, resumption, history
  <2>2. NumbersOK'
    BY <1>1, FrameAssumption DEF Render, IInv, TypeOK, NumbersOK, resumption, history
  <2>3. BreakOK' /\ CallOK'
    BY DEF Render, IInv, TypeOK, BreakOK, CallOK, settings, history
  <2> QED BY <2>1, <2>2, <2>3 DEF TypeOK
<1>3. at = "render" /\ UNCHANGED <<active, line, lineCycles>>
  BY DEF Render
<1>4. Placed'
  BY <1>1, <1>3 DEF IInv, Placed, Inside
<1>5. CyclesAccounted'
  BY DEF Render, IInv, CyclesAccounted
<1>6. MotionOncePerFrame' /\ StopsAreReported'
  BY DEF Render, IInv, MotionOncePerFrame, StopsAreReported, history
<1>7. Quiet' /\ Fed' /\ Reasons'
  BY DEF Render, IInv, Quiet, Fed, Reasons, Placed, Inside, settings, history
<1> QED BY <1>2, <1>4, <1>5, <1>6, <1>7 DEF IInv

LEMMA FinishInv ==
  ASSUME IInv, Finish
  PROVE  IInv'
<1>1. at = "finish" /\ active /\ ~stopPending
  BY DEF Finish, IInv, Placed, Quiet, Inside
<1>2. cycle - start \in Nat
  <2>1. cycle + lineCycles = start + total /\ lineCycles = 0
    BY <1>1 DEF IInv, CyclesAccounted, Placed
  <2>2. {cycle, lineCycles, start, total} \subseteq Nat
    BY DEF IInv, TypeOK, NumbersOK
  <2> QED BY <2>1, <2>2
<1>3. /\ stopPending' \in BOOLEAN /\ stop' \in StopReasons
      /\ stopPending' => brk.frame # NoAddr
      /\ BreakOK'
  <2>1. CASE FrameBreakpointHit /\ brk' = [brk EXCEPT !.frame = NoAddr]
             /\ stop' = "breakpoint" /\ stopPending' = TRUE
    <3>1. BreakOK'
      BY <2>1 DEF Finish, IInv, TypeOK, BreakOK
    <3>2. brk.frame # NoAddr
      BY <2>1 DEF FrameBreakpointHit
    <3>3. stop' \in StopReasons
      BY <2>1 DEF StopReasons
    <3>4. stopPending' \in BOOLEAN
      BY <2>1
    <3> QED BY <3>1, <3>2, <3>3, <3>4
  <2>2. CASE UNCHANGED <<brk, stop, stopPending>>
    <3>1. BreakOK'
      BY <2>2 DEF Finish, IInv, TypeOK, BreakOK
    <3>2. ~stopPending' /\ stopPending' \in BOOLEAN
      BY <1>1, <2>2 DEF IInv, TypeOK, FlagsOK
    <3>3. stop' \in StopReasons
      BY <2>2 DEF IInv, TypeOK, CallOK
    <3> QED BY <3>1, <3>2, <3>3
  <2> QED BY <2>1, <2>2 DEF Finish
<1>4. TypeOK'
  <2>1. FlagsOK'
    BY <1>3 DEF Finish, NoLocals, IInv, TypeOK, FlagsOK
  <2>2. NumbersOK'
    BY FrameAssumption DEF Finish, NoLocals, IInv, TypeOK, NumbersOK
  <2>3. (IF stopPending' THEN stop' ELSE "none") \in StopReasons /\ image \in BOOLEAN
    BY <1>3 DEF StopReasons, IInv, TypeOK, FlagsOK
  <2>4. out' \in Outputs
    BY <1>2, <2>3 DEF Finish, Output, Outputs
  <2>5. CallOK'
    BY <1>3, <2>4 DEF Finish, IInv, TypeOK, CallOK, Outputs
  <2> QED BY <1>3, <2>1, <2>2, <2>5 DEF TypeOK
<1>5. CyclesAccounted' /\ MotionOncePerFrame'
  BY DEF Finish, CyclesAccounted, MotionOncePerFrame
<1>6. Placed' /\ Quiet'
  BY <1>1 DEF Finish, IInv, Placed, Quiet, Inside
<1>7. Fed'
  BY <1>1 DEF Finish, IInv, Fed
<1>8. ArmedIn(brk') # {} => ArmedIn(brk) # {}
  <2>1. ArmedIn(brk') \subseteq ArmedIn(brk)
    BY DEF Finish, ArmedIn, Off, IInv, TypeOK, BreakOK
  <2> QED BY <2>1
<1>9. Reasons'
  BY <1>1, <1>8 DEF Finish, IInv, Reasons
<1>10. StopsAreReported'
  <2>1. out'.complete = TRUE /\ (out'.reason # "none" => stopPending')
    BY DEF Finish, Output
  <2>2. call = "frame" /\ brk.frame # NoAddr => armed
    BY <1>1, ArmedFacts DEF IInv, Reasons
  <2> QED BY <1>3, <2>1, <2>2 DEF Finish, StopsAreReported
<1> QED BY <1>4, <1>5, <1>6, <1>7, <1>9, <1>10 DEF IInv

LEMMA NextInv == IInv /\ [Next]_vars => IInv'
<1> SUFFICES ASSUME IInv, [Next]_vars PROVE IInv'
  OBVIOUS
<1>1. CASE HostStep
  BY <1>1, SettersInv, CallInv, DropInv DEF HostStep
<1>2. CASE RequestBreak
  BY <1>2, RequestBreakInv
<1>3. CASE RunFrame \/ TakeRequest \/ RunSegment \/ BreakAtPc
  BY <1>3, RunFrameInv, TakeRequestInv, RunSegmentInv, BreakAtPcInv
<1>4. CASE CpuStep
  BY <1>4, InstructionInv, StepInstructionInv DEF CpuStep
<1>5. CASE EndLine \/ Render \/ Finish
  BY <1>5, EndLineInv, RenderInv, FinishInv
<1>6. CASE UNCHANGED vars
  BY <1>6 DEF IInv, TypeOK, FlagsOK, NumbersOK, BreakOK, CallOK, CyclesAccounted,
     MotionOncePerFrame, StopsAreReported, Placed, Quiet, Fed, Reasons, Inside,
     vars, cpuVars, position, settings, resumption, callVars, history
<1> QED BY <1>1, <1>2, <1>3, <1>4, <1>5, <1>6 DEF Next, RunStep

----------------------------------------------------------------------------
(* The theorems.                                                            *)

\* The invariant that carries the others holds in every state of the run loop.
THEOREM FrameInvariance == Spec => []IInv
<1>1. Init => IInv
  BY InitInv
<1>2. IInv /\ [Next]_vars => IInv'
  BY NextInv
<1> QED BY <1>1, <1>2, PTL DEF Spec

\* Every variable of the run loop keeps its type.
THEOREM TypeCorrect == Spec => []TypeOK
<1>1. IInv => TypeOK
  BY DEF IInv
<1> QED BY <1>1, FrameInvariance, PTL

\* No T-state of a stopped frame is lost or counted twice (Machine.run_frame's
\* frame_start and frame_total against the clock).
THEOREM ClockCorrect == Spec => []CyclesAccounted
<1>1. IInv => CyclesAccounted
  BY DEF IInv
<1> QED BY <1>1, FrameInvariance, PTL

\* A step_frame that comes back early says why, and only with a setting armed or
\* a break requested.
THEOREM StopsCorrect == Spec => []StopsAreReported
<1>1. IInv => StopsAreReported
  BY DEF IInv
<1> QED BY <1>1, FrameInvariance, PTL

\* The mouse gets one motion per frame, however often it stops.
THEOREM MotionCorrect == Spec => []MotionOncePerFrame
<1>1. IInv => MotionOncePerFrame
  BY DEF IInv
<1> QED BY <1>1, FrameInvariance, PTL

----------------------------------------------------------------------------
(* Resuming: from a stop on, the calls carry the right to pass the           *)
(* breakpoint test at the current PC, until an instruction has run.          *)

Resuming ==
  since = "stopped" =>
    /\ at = "host" => stopPending \/ resumeAfterStop
    /\ at = "start" /\ call = "frame" => stopPending \/ resumeAfterStop
    /\ at \in Inside /\ call = "frame" => resumeSkipPc = cpu.pc

LEMMA ResumingInv == IInv /\ Resuming /\ [Next]_vars => Resuming'
<1> SUFFICES ASSUME IInv, Resuming, [Next]_vars PROVE Resuming'
  OBVIOUS
<1>1. ASSUME NEW b, Arm(b) PROVE Resuming'
  BY <1>1 DEF Arm, Resuming, Inside, cpuVars, resumption, callVars, history
<1>2. CASE HostStep
  <2>1. CASE CallStepFrame \/ CallStep \/ Reset \/ LoadState
    BY <2>1 DEF CallStepFrame, CallStep, Reset, LoadState, DropFrame, Resuming, Inside,
       cpuVars, resumption
  <2> QED BY <1>1, <1>2, <2>1 DEF HostStep, SetBreakpoints, SetTempBreakpoint,
          SetWatchpoints, SetStepOut, SetFrameBreakpoint, SetBreakHaltDi, SetSpRange
<1>3. CASE RequestBreak
  BY <1>3 DEF RequestBreak, Resuming, Inside, cpuVars, resumption, callVars
<1>4. CASE RunFrame
  BY <1>4 DEF RunFrame, SkipAfterStop, Resuming, Inside
<1>5. ASSUME NEW reason, NEW n, StopAt(reason, n) PROVE Resuming'
  BY <1>5 DEF StopAt, Resuming, Inside
<1>6. CASE TakeRequest \/ BreakAtPc
  BY <1>5, <1>6 DEF TakeRequest, BreakAtPc
<1>7. CASE RunSegment
  BY <1>7 DEF RunSegment, Resuming, Inside, cpuVars, resumption, callVars, history
<1>8. CASE CpuStep
  <2>1. ASSUME NEW n \in Costs, NEW c \in Cpus, StepInstruction(n, c) PROVE Resuming'
    BY <1>5, <2>1 DEF StepInstruction
  <2>2. ASSUME NEW n \in Costs, NEW c \in Cpus, Instruction(n, c) PROVE Resuming'
    <3>1. (\E reason : StopAt(reason, n)) \/ since' = "moved"
      BY <2>2 DEF Instruction
    <3> QED BY <1>5, <3>1 DEF Resuming
  <2> QED BY <1>8, <2>1, <2>2 DEF CpuStep
<1>9. CASE EndLine
  BY <1>9 DEF EndLine, Resuming, Inside, resumption, callVars, history
<1>10. CASE Render
  BY <1>10 DEF Render, Resuming, Inside, resumption, history
<1>11. CASE Finish
  BY <1>11 DEF Finish, Resuming, Inside
<1>12. CASE UNCHANGED vars
  BY <1>12 DEF Resuming, Inside, vars, cpuVars, resumption, callVars, history
<1> QED BY <1>2, <1>3, <1>4, <1>6, <1>7, <1>8, <1>9, <1>10, <1>11, <1>12
        DEF Next, RunStep

\* A resumed call never stops again at the breakpoint it stopped at
\* (_resume_skip_pc of Machine).
THEOREM ResumeCorrect == Spec => ResumeMakesProgress
<1>1. Init => Resuming
  BY DEF Init, Resuming
<1>2. IInv /\ Resuming /\ [Next]_vars => Resuming'
  BY ResumingInv
<1>3. IInv /\ Resuming /\ [Next]_vars => [BreakAtPc => since # "stopped"]_vars
  <2> SUFFICES ASSUME Resuming, BreakAtPc PROVE since # "stopped"
    OBVIOUS
  <2>1. at = "lines" /\ call = "frame" /\ cpu.pc # resumeSkipPc
    BY DEF BreakAtPc, Running, StopsAtPc
  <2> QED BY <2>1 DEF Resuming, Inside
<1> QED BY <1>1, <1>2, <1>3, FrameInvariance, PTL DEF Spec, ResumeMakesProgress

\* step() takes no break request and uses up no setting but the frame breakpoint
\* (step_addr in _run_lines_debug).
THEOREM StepCorrect == Spec => StepKeepsBreaks
<1> DEFINE Kept ==
      call = "step" /\ at # "host" =>
        /\ [brk' EXCEPT !.frame = NoAddr] = [brk EXCEPT !.frame = NoAddr]
        /\ seen' = seen
        /\ breakRequest => breakRequest'
<1>1. IInv /\ [Next]_vars => [Kept]_vars
  <2> SUFFICES ASSUME IInv, Next, call = "step", at # "host" PROVE Kept
    OBVIOUS
  <2>1. ~HostStep
    BY DEF HostStep, Arm, SetBreakpoints, SetTempBreakpoint, SetWatchpoints, SetStepOut,
       SetFrameBreakpoint, SetBreakHaltDi, SetSpRange, CallStepFrame, CallStep, Reset,
       LoadState
  <2>2. CASE RequestBreak
    BY <2>2 DEF RequestBreak, settings
  <2>3. ~TakeRequest /\ ~BreakAtPc
    BY DEF TakeRequest, Requested, BreakAtPc, StopsAtPc
  <2>4. CASE RunFrame
    BY <2>4 DEF RunFrame, settings
  <2>5. CASE RunSegment
    BY <2>5 DEF RunSegment, settings
  <2>6. CASE CpuStep
    <3>1. PICK n \in Costs, c \in Cpus : StepInstruction(n, c)
      BY <2>6 DEF CpuStep, Instruction
    <3> QED BY <3>1 DEF StepInstruction, Execute, settings
  <2>7. CASE EndLine
    BY <2>7 DEF EndLine, settings
  <2>8. CASE Render
    BY <2>8 DEF Render, settings
  <2>9. CASE Finish
    <3>1. brk' = brk \/ brk' = [brk EXCEPT !.frame = NoAddr]
      BY <2>9 DEF Finish
    <3>2. [brk' EXCEPT !.frame = NoAddr] = [brk EXCEPT !.frame = NoAddr]
      BY <3>1 DEF IInv, TypeOK, BreakOK
    <3> QED BY <2>9, <3>2 DEF Finish
  <2> QED BY <2>1, <2>2, <2>3, <2>4, <2>5, <2>6, <2>7, <2>8, <2>9 DEF Next, RunStep
<1> QED BY <1>1, FrameInvariance, PTL DEF Spec, StepKeepsBreaks

----------------------------------------------------------------------------
(* The run loop implements the uninterrupted frame sequence.                 *)

Absent == [video |-> FALSE, audio |-> 0]

\* The frame of an output, and what the abstract variables are.
LEMMA Mapped ==
  /\ NoOutput.video = FALSE /\ NoOutput.audio = 0
  /\ \A r, c, v, a : Output(r, c, v, a).video = v /\ Output(r, c, v, a).audio = a
  /\ Uninterrupted!NoFrame = Absent
BY DEF NoOutput, Output, Uninterrupted!NoFrame, Absent

LEMMA InitRefines == Init => Uninterrupted!Init
BY Mapped DEF Init, Uninterrupted!Init, Absent

\* A step that moves only the call, or takes the frame handed out.
LEMMA TakeRefines ==
  ASSUME UNCHANGED frames,
         \/ UNCHANGED <<active, line, total, rendered, image>>
         \/ /\ ~active /\ line' = 0 /\ total' = 0 /\ ~rendered' /\ ~image'
            /\ rendered' \in BOOLEAN /\ image' \in BOOLEAN
         \/ UNCHANGED <<line, total, rendered, image>> /\ active /\ active',
         UNCHANGED out \/ (out'.video = FALSE /\ out'.audio = 0),
         UNCHANGED since \/ since' # "dropped"
  PROVE  Uninterrupted!Take
<1>1. /\ (IF active' THEN line' ELSE 0) = (IF active THEN line ELSE 0)
      /\ (IF active' THEN total' ELSE 0) = (IF active THEN total ELSE 0)
  OBVIOUS
<1>2. (active' /\ rendered') = (active /\ rendered) /\ (active' /\ image') = (active /\ image)
  OBVIOUS
<1> QED BY <1>1, <1>2, Mapped DEF Uninterrupted!Take, Absent

LEMMA StepRefines ==
  IInv /\ [Next]_vars => [Uninterrupted!Next]_(Uninterrupted!framesVars)
<1> SUFFICES ASSUME IInv, [Next]_vars
             PROVE  Uninterrupted!Next \/ UNCHANGED Uninterrupted!framesVars
  OBVIOUS
<1>1. ASSUME NEW b, Arm(b) PROVE Uninterrupted!Take
  BY <1>1, TakeRefines DEF Arm, position, history
<1>2. CASE HostStep
  <2>1. CASE CallStepFrame \/ CallStep
    <3>1. out'.video = FALSE /\ out'.audio = 0
      BY <2>1, Mapped DEF CallStepFrame, CallStep
    <3> QED BY <2>1, <3>1, TakeRefines DEF CallStepFrame, CallStep, position,
            Uninterrupted!Next
  <2>2. CASE Reset \/ LoadState
    <3>1. frames' \in Nat
      BY <2>2, FrameAssumption DEF Reset, LoadState, IInv, TypeOK, NumbersOK
    <3>2. active' = FALSE /\ since' = "dropped" /\ out' = out
      BY <2>2 DEF Reset, LoadState, DropFrame
    <3> QED BY <3>1, <3>2 DEF Uninterrupted!Drop, Uninterrupted!AtStart, Uninterrupted!Next
  <2> QED BY <1>1, <1>2, <2>1, <2>2 DEF HostStep, SetBreakpoints, SetTempBreakpoint,
          SetWatchpoints, SetStepOut, SetFrameBreakpoint, SetBreakHaltDi, SetSpRange,
          Uninterrupted!Next
<1>3. CASE RequestBreak
  BY <1>3, TakeRefines DEF RequestBreak, position, Uninterrupted!Next
<1>4. CASE RunFrame
  <2>1. out'.video = FALSE /\ out'.audio = 0
    BY <1>4, Mapped DEF RunFrame
  <2>2. Uninterrupted!Take
    BY <1>4, <2>1, TakeRefines DEF RunFrame, BeginOrResume
  <2> QED BY <2>2 DEF Uninterrupted!Next
<1>5. ASSUME NEW reason, NEW n, StopAt(reason, n), at \in Inside
      PROVE  /\ out'.video = FALSE /\ out'.audio = 0 /\ since' # "dropped"
             /\ out.video = FALSE /\ out.audio = 0
  <2>1. out = NoOutput
    BY <1>5 DEF IInv, Quiet
  <2>2. out' = NoOutput \/ out' = Output(reason, FALSE, FALSE, 0)
    BY <1>5 DEF StopAt
  <2>3. out'.video = FALSE /\ out'.audio = 0
    BY <2>2 DEF NoOutput, Output
  <2>4. since' # "dropped"
    BY <1>5 DEF StopAt
  <2> QED BY <2>1, <2>3, <2>4, Mapped
<1>6. CASE TakeRequest \/ BreakAtPc
  <2>1. at \in Inside /\ UNCHANGED <<frames, position>> /\ \E r, n : StopAt(r, n)
    BY <1>6 DEF TakeRequest, BreakAtPc, Running, Inside
  <2> QED BY <1>5, <2>1, TakeRefines DEF position, Uninterrupted!Next
<1>7. CASE RunSegment
  BY <1>7, TakeRefines DEF RunSegment, position, history, Uninterrupted!Next
<1>8. ASSUME NEW n \in Costs, NEW c \in Cpus, Instruction(n, c) \/ StepInstruction(n, c)
      PROVE  Uninterrupted!Run
  <2>1. Execute(n, c)
    BY <1>8 DEF Instruction, StepInstruction
  <2>2. /\ active /\ active' /\ line' = line /\ rendered' = rendered /\ image' = image
        /\ frames' = frames /\ total' = total + n /\ at = "lines"
        /\ total < LineEnd(line) /\ line < Lines
    BY <2>1 DEF Execute, Running, IInv, Placed, Inside
  <2>3. rendered \/ \E s \in Splits : line <= s
    BY <2>2, SplitFacts DEF IInv, Placed, TypeOK, NumbersOK
  <2>4. since' # "dropped" /\ out'.video = out.video /\ out'.audio = out.audio
    <3>1. CASE \E reason : StopAt(reason, n)
      BY <1>5, <2>2, <3>1 DEF Inside
    <3>2. CASE since' = "moved" /\ UNCHANGED out
      BY <3>2
    <3> QED BY <1>8, <3>1, <3>2 DEF Instruction, StepInstruction
  <2>5. total < Uninterrupted!LineEnd(line)
    BY <2>2 DEF LineEnd, Uninterrupted!LineEnd
  <2>6. /\ (IF active THEN line ELSE 0) = line /\ (IF active THEN total ELSE 0) = total
        /\ (IF active' THEN line' ELSE 0) = line
        /\ (IF active' THEN total' ELSE 0) = total + n
        /\ (active' /\ rendered') = (active /\ rendered)
        /\ (active' /\ image') = (active /\ image)
    BY <2>2
  <2> QED BY <2>2, <2>3, <2>4, <2>5, <2>6 DEF Uninterrupted!Run
<1>9. CASE EndLine
  <2>1. /\ active /\ active' /\ line' = line + 1 /\ line < Lines
        /\ total >= LineEnd(line) /\ at = "lines"
        /\ UNCHANGED <<total, rendered, image, frames, out, since>>
    BY <1>9 DEF EndLine, IInv, Placed, Inside, history
  <2>2. total >= Uninterrupted!LineEnd(line)
    BY <2>1 DEF LineEnd, Uninterrupted!LineEnd
  <2>3. Uninterrupted!EndLine
    BY <2>1, <2>2 DEF Uninterrupted!EndLine
  <2> QED BY <2>3 DEF Uninterrupted!Next
<1>10. CASE Render
  <2>1. /\ active /\ active' /\ \E s \in Splits : line > s
        /\ UNCHANGED <<line, total, frames, out, since>>
    BY <1>10 DEF Render, IInv, Placed, Inside, history
  <2>2. CASE rendered
    <3>1. UNCHANGED <<rendered, image>>
      BY <1>10, <2>2 DEF Render
    <3> QED BY <2>1, <3>1, TakeRefines DEF Uninterrupted!Next
  <2>3. CASE ~rendered
    <3>1. rendered' = TRUE /\ image' \in BOOLEAN
      BY <1>10, <2>3 DEF Render
    <3>2. (active' /\ image') \in BOOLEAN /\ (active' /\ rendered') = TRUE
      BY <2>1, <3>1
    <3>3. Uninterrupted!Render
      BY <2>1, <2>3, <3>2 DEF Uninterrupted!Render
    <3> QED BY <3>3 DEF Uninterrupted!Next
  <2> QED BY <2>2, <2>3
<1>11. CASE Finish
  <2>1. active /\ line = Lines /\ rendered /\ lineCycles = 0
    BY <1>11 DEF Finish, IInv, Placed, Inside
  <2>2. cycle - start = total
    BY <2>1 DEF IInv, CyclesAccounted, TypeOK, NumbersOK
  <2>3. active' = FALSE /\ frames' = frames + 1 /\ out'.video = image /\ out'.audio = total
    <3>1. \E r, c : out' = Output(r, c, image, cycle - start)
      BY <1>11 DEF Finish
    <3>2. out'.video = image /\ out'.audio = cycle - start
      BY <3>1, Mapped
    <3>3. active' = FALSE /\ frames' = frames + 1
      BY <1>11 DEF Finish
    <3> QED BY <2>2, <3>2, <3>3
  <2>4. (since' = "dropped") \in {since = "dropped", FALSE}
    BY <1>11 DEF Finish
  <2>5. (active /\ image) = image
    BY <2>1 DEF IInv, TypeOK, FlagsOK
  <2>6. Uninterrupted!Complete
    BY <2>1, <2>3, <2>4, <2>5 DEF Uninterrupted!Complete, Uninterrupted!AtStart
  <2> QED BY <2>6 DEF Uninterrupted!Next
<1>12. CASE UNCHANGED vars
  BY <1>12 DEF vars, position, history, Uninterrupted!framesVars
<1> QED BY <1>2, <1>3, <1>4, <1>6, <1>7, <1>8, <1>9, <1>10, <1>11, <1>12
        DEF Next, RunStep, CpuStep, Uninterrupted!Next

\* Breaks, resumes and single steps leave no trace in the frames: the run loop of
\* Machine implements Frames.
THEOREM FramesCorrect == Spec => ImplementsFrames
<1>1. Init => Uninterrupted!Init
  BY InitRefines
<1>2. IInv /\ [Next]_vars => [Uninterrupted!Next]_(Uninterrupted!framesVars)
  BY StepRefines
<1> QED BY <1>1, <1>2, FrameInvariance, PTL DEF Spec, ImplementsFrames, Uninterrupted!Spec
=============================================================================
