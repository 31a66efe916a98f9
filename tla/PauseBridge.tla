---------------------------- MODULE PauseBridge ----------------------------
(***************************************************************************)
(* The two threads of the RPC server. The socket thread reads requests,    *)
(* queues them for the emulator thread and waits for the answer, up to 30  *)
(* seconds; cpu.continue_sync it handles itself: it resumes the machine    *)
(* and waits for the next stop. In each iteration of the host loop the     *)
(* emulator thread handles the events, drains the queue and, unless paused,*)
(* runs a frame; at a core stop it records it, pauses and wakes the waiter,*)
(* one statement at a time.                                                *)
(***************************************************************************)
EXTENDS Integers, Sequences

CONSTANTS
  MaxRequests, \* bound on requests, for TLC
  MaxStops,    \* bound on core stops, for TLC
  Patient      \* TRUE: the client sends no continue_sync too early

ASSUME BridgeAssumption ==
  MaxRequests \in Nat /\ MaxStops \in Nat /\ Patient \in BOOLEAN

VARIABLES
  sock,    \* where the socket thread is
  request, \* the number of the request it handles, or handled last
  queue,   \* requests for the emulator thread: number and kind
  done,    \* the requests whose event is set
  emu,     \* where the emulator thread is
  paused,  \* PauseState.paused
  event,   \* _pause_event
  record,  \* _last_pause: the number of the stop it describes
  stops,   \* history: core stops so far
  resumed, \* history: stops when continue_sync last resumed the machine
  told     \* history: the latest stop the client has heard of

vars == <<sock, request, queue, done, emu, paused, event, record, stops, resumed, told>>

sockVars == <<sock, request, resumed>>
emuVars == <<emu, stops, record>>

\* "status" stands for every request that neither needs nor changes the pause.
Kinds == {"status", "pause", "step", "continue"}

----------------------------------------------------------------------------
(* The socket thread.                                                       *)

Ask(k) ==
  /\ queue' = Append(queue, [id |-> request', kind |-> k])
  /\ UNCHANGED paused

ReadRequest ==
  /\ sock = "read" /\ request < MaxRequests
  /\ request' = request + 1
  /\ \E k \in Kinds : Ask(k)
  /\ sock' = "asked"
  /\ UNCHANGED <<done, emuVars, event, resumed, told>>

Answer ==
  /\ sock = "asked" /\ request \in done
  /\ sock' = "read"
  /\ UNCHANGED <<request, queue, done, emuVars, paused, event, resumed, told>>

\* Mutant: the wait has no timeout.
NoTimeout == FALSE
\* 30 seconds pass only while a person is at the debugger prompt. The request
\* stays in the queue.
TimedOut == emu = "repl"

AnswerTimeout ==
  /\ sock = "asked" /\ TimedOut
  /\ sock' = "read"
  /\ UNCHANGED <<request, queue, done, emuVars, paused, event, resumed, told>>

\* Too early: before the client has heard of the stop that pauses the machine,
\* or while a request that timed out is still queued.
TooEarly == told # stops \/ queue # <<>>

\* _continue_sync: an error unless paused, then clear the event, resume, wait.
ReadContinueSync ==
  /\ sock = "read" /\ request < MaxRequests
  /\ Patient => ~TooEarly
  /\ request' = request + 1
  /\ sock' = IF paused THEN "checked" ELSE "read"
  /\ UNCHANGED <<queue, done, emuVars, paused, event, resumed, told>>

\* Mutant: the event of an old stop stays set.
KeepEvent == UNCHANGED event
ClearEvent == event' = FALSE

Clear ==
  /\ sock = "checked"
  /\ ClearEvent
  /\ sock' = "cleared"
  /\ UNCHANGED <<request, queue, done, emuVars, paused, resumed, told>>

Resume ==
  /\ sock = "cleared"
  /\ paused' = FALSE
  /\ resumed' = stops
  /\ sock' = "resumed"
  /\ UNCHANGED <<request, queue, done, emuVars, event, told>>

Wait ==
  /\ sock = "resumed"
  /\ sock' = "waiting"
  /\ UNCHANGED <<request, queue, done, emuVars, paused, event, resumed, told>>

Wake ==
  /\ sock = "waiting" /\ event
  /\ sock' = "read"
  /\ told' = record
  /\ UNCHANGED <<request, queue, done, emuVars, paused, event, resumed>>

\* Also just after the event was set, since wait reports the timeout then.
WaitTimesOut ==
  /\ sock = "waiting"
  /\ sock' = "read"
  /\ UNCHANGED <<request, queue, done, emuVars, paused, event, resumed, told>>

----------------------------------------------------------------------------
(* The emulator thread.                                                     *)

\* What a request does to the pause: step and continue need it, and a step
\* leaves the machine paused.
Paused(k) == CASE k = "pause" -> TRUE
               [] k = "continue" -> FALSE
               [] OTHER -> paused

\* Ctrl-C in the window opens the prompt, paused or not.
HandleEvents ==
  /\ emu = "events"
  /\ emu' \in {"drain", "repl"}
  /\ UNCHANGED <<sockVars, queue, done, stops, record, paused, event, told>>

\* drain: one request, and when the queue is empty on to the pause gate.
Dispatch ==
  /\ emu = "drain" /\ queue # <<>>
  /\ paused' = Paused(Head(queue).kind)
  /\ done' = done \cup {Head(queue).id}
  /\ queue' = Tail(queue)
  /\ UNCHANGED <<sockVars, emuVars, event, told>>

Drained ==
  /\ emu = "drain" /\ queue = <<>>
  /\ emu' = "gate"
  /\ UNCHANGED <<sockVars, queue, done, stops, record, paused, event, told>>

\* The user may have paused as well.
PauseGate ==
  /\ emu = "gate"
  /\ \/ emu' = "events"
     \/ ~paused /\ emu' = "frame"
  /\ UNCHANGED <<sockVars, queue, done, stops, record, paused, event, told>>

\* A frame ends without a stop, or a break request opens the prompt.
Frame ==
  /\ emu = "frame"
  /\ emu' \in {"events", "repl"}
  /\ UNCHANGED <<sockVars, queue, done, stops, record, paused, event, told>>

LeavePrompt ==
  /\ emu = "repl"
  /\ emu' = "drain"
  /\ UNCHANGED <<sockVars, queue, done, stops, record, paused, event, told>>

CoreStop ==
  /\ emu = "frame" /\ stops < MaxStops
  /\ stops' = stops + 1
  /\ emu' = "stopped"
  /\ UNCHANGED <<sockVars, queue, done, record, paused, event, told>>

\* on_pause: record, pause, wake, notify.

\* Mutant: the waiter is woken before the pause.
WokenEarly == event' = TRUE
NotYetWoken == UNCHANGED event

Record ==
  /\ emu = "stopped"
  /\ record' = stops
  /\ NotYetWoken
  /\ emu' = "recorded"
  /\ UNCHANGED <<sockVars, queue, done, stops, paused, told>>

SetPaused ==
  /\ emu = "recorded"
  /\ paused' = TRUE
  /\ emu' = "pausing"
  /\ UNCHANGED <<sockVars, queue, done, stops, record, event, told>>

\* Mutant: only a thread that waits already is woken.
WakeWaiting == event' = (event \/ sock = "waiting")
WakeWaiter == event' = TRUE

SetEvent ==
  /\ emu = "pausing"
  /\ WakeWaiter
  /\ emu' = "woken"
  /\ UNCHANGED <<sockVars, queue, done, stops, record, paused, told>>

Notify ==
  /\ emu = "woken"
  /\ told' = stops
  /\ emu' = "events"
  /\ UNCHANGED <<sockVars, queue, done, stops, record, paused, event>>

----------------------------------------------------------------------------
Init ==
  /\ sock = "read" /\ request = 0 /\ queue = <<>> /\ done = {}
  /\ emu = "events" /\ paused = FALSE /\ event = FALSE /\ record = 0
  /\ stops = 0 /\ resumed = 0 /\ told = 0

Handle == Answer \/ Clear \/ Resume \/ Wait \/ Wake
Socket == ReadRequest \/ ReadContinueSync \/ Handle \/ AnswerTimeout \/ WaitTimesOut

OnPause == Record \/ SetPaused \/ SetEvent \/ Notify
HostLoop == HandleEvents \/ Dispatch \/ Drained \/ PauseGate \/ Frame \/ OnPause
Emulator == HostLoop \/ LeavePrompt \/ CoreStop

Next == Socket \/ Emulator

\* Both threads run, the timeouts expire; a person may stay at the prompt and
\* a client may send nothing more.
Spec ==
  /\ Init /\ [][Next]_vars
  /\ WF_vars(Handle) /\ WF_vars(HostLoop)
  /\ WF_vars(AnswerTimeout) /\ WF_vars(WaitTimesOut)

----------------------------------------------------------------------------
(* Properties.                                                              *)

TypeOK ==
  /\ sock \in {"read", "asked", "checked", "cleared", "resumed", "waiting"}
  /\ emu \in {"events", "drain", "gate", "frame", "repl",
             "stopped", "recorded", "pausing", "woken"}
  /\ request \in 0 .. MaxRequests
  /\ queue \in Seq([id : 1 .. MaxRequests, kind : Kinds])
  /\ done \subseteq 1 .. MaxRequests
  /\ paused \in BOOLEAN /\ event \in BOOLEAN
  /\ stops \in 0 .. MaxStops
  /\ record \in 0 .. MaxStops /\ resumed \in 0 .. MaxStops /\ told \in 0 .. MaxStops

\* No frame starts or goes on while the machine is paused: no request pauses
\* it under the feet of step_frame.
RunsOnlyResumed == emu = "frame" => ~paused

\* A continue_sync whose machine is paused again has been woken, or the stop
\* that paused it is about to wake it: no stop and no other pause slips past it.
NoLostWakeup ==
  sock \in {"resumed", "waiting"} /\ paused => event \/ emu = "pausing"

\* When continue_sync answers "paused", the machine is.
PausedAnswerHolds == [][Wake => paused]_vars

\* ... and stopped after it was resumed: "Resume and block until the next pause
\* event" (docs/msx_emulator_rpc_spec.md).
AnswersNextStop == [][Wake => record > resumed]_vars

\* Every request is answered, the ones that wait for a person at the prompt too.
Answered == sock # "read" ~> sock = "read"
=============================================================================
