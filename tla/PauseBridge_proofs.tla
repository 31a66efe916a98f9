------------------------ MODULE PauseBridge_proofs ------------------------
(* What TLAPS proves of PauseBridge, for any number of requests and stops.  *)
EXTENDS PauseBridge, SequenceTheorems, TLAPS

(***************************************************************************)
(* The inductive invariant. The wake-up that is set belongs to the stop the *)
(* wait is for, because a client that waits its turn finds the emulator     *)
(* thread past SetEvent and the queue empty, and both stay so until Resume. *)
(***************************************************************************)
InContinue == {"checked", "cleared", "resumed", "waiting"}
Stopping == {"stopped", "recorded", "pausing"}

\* The record describes the last stop from Record on.
Recorded == record = IF emu = "stopped" THEN stops - 1 ELSE stops

\* The machine is not paused before SetPaused.
NotPausedYet == emu \in {"frame", "stopped", "recorded"} => ~paused

\* Neither the resumptions nor the client run ahead of the stops.
Behind == resumed <= stops /\ told <= stops

\* The client has not heard of a stop that has not set the event yet.
Unheard == emu \in Stopping => told < stops

\* No request is pending while continue_sync is under way.
NothingQueued == sock \in InContinue => queue = <<>>

\* Until Resume the machine stays paused, with no stop under way.
StillPaused ==
  sock \in {"checked", "cleared"} => paused /\ emu # "frame" /\ emu \notin Stopping

Cleared == sock = "cleared" => ~event

\* The wait is for a stop after the resumption: one that has woken it ...
Woken ==
  sock \in {"resumed", "waiting"} /\ event =>
    paused /\ emu # "frame" /\ emu \notin Stopping /\ resumed < record

\* ... or one about to.
AboutToWake ==
  /\ emu = "pausing" => paused
  /\ sock \in {"resumed", "waiting"} /\ emu \in Stopping => resumed < stops

IInv ==
  /\ Recorded /\ NotPausedYet /\ Behind /\ Unheard /\ NothingQueued
  /\ StillPaused /\ Cleared /\ Woken /\ AboutToWake /\ NoLostWakeup
----------------------------------------------------------------------------
(* Type correctness.                                                        *)

\* What the steps of drain do to the pause is a flag again.
LEMMA PausedType == ASSUME paused \in BOOLEAN, NEW k PROVE Paused(k) \in BOOLEAN
BY DEF Paused

LEMMA TypeInv == TypeOK /\ [Next]_vars => TypeOK'
<1> SUFFICES ASSUME TypeOK, [Next]_vars PROVE TypeOK'
  OBVIOUS
<1> USE BridgeAssumption
<1>1. CASE ReadRequest
  <2> PICK k \in Kinds : Ask(k)
    BY <1>1 DEF ReadRequest
  <2>1. request' = request + 1 /\ request' \in 1 .. MaxRequests
    BY <1>1 DEF ReadRequest, TypeOK
  <2>2. queue' = Append(queue, [id |-> request', kind |-> k]) /\ UNCHANGED paused
    BY DEF Ask
  <2>3. queue' \in Seq([id : 1 .. MaxRequests, kind : Kinds])
    BY <2>1, <2>2 DEF TypeOK
  <2> QED BY <1>1, <2>1, <2>2, <2>3 DEF ReadRequest, TypeOK, emuVars
<1>2. CASE Dispatch
  <2>1. Head(queue) \in [id : 1 .. MaxRequests, kind : Kinds]
        /\ Tail(queue) \in Seq([id : 1 .. MaxRequests, kind : Kinds])
    BY <1>2, HeadTailProperties DEF Dispatch, TypeOK
  <2>2. paused' \in BOOLEAN
    BY <1>2, PausedType DEF Dispatch, TypeOK
  <2>3. done' \subseteq 1 .. MaxRequests
    BY <1>2, <2>1 DEF Dispatch, TypeOK
  <2> QED BY <1>2, <2>1, <2>2, <2>3 DEF Dispatch, TypeOK, sockVars, emuVars
<1>3. CASE ReadContinueSync
  BY <1>3 DEF ReadContinueSync, TypeOK, emuVars
<1>4. CASE Handle \/ AnswerTimeout \/ WaitTimesOut
  BY <1>4 DEF Handle, Answer, AnswerTimeout, Clear, ClearEvent, Resume, Wait, Wake,
     WaitTimesOut, TypeOK, emuVars
<1>5. CASE HandleEvents \/ Drained \/ PauseGate \/ Frame \/ LeavePrompt
  BY <1>5 DEF HandleEvents, Drained, PauseGate, Frame, LeavePrompt, TypeOK, sockVars
<1>6. CASE CoreStop
  <2>1. stops' \in 0 .. MaxStops
    BY <1>6 DEF CoreStop, TypeOK
  <2> QED BY <1>6, <2>1 DEF CoreStop, TypeOK, sockVars
<1>7. CASE OnPause
  BY <1>7 DEF OnPause, Record, NotYetWoken, SetPaused, SetEvent, WakeWaiter, Notify,
     TypeOK, sockVars
<1>8. CASE UNCHANGED vars
  BY <1>8 DEF vars, TypeOK
<1> QED BY <1>1, <1>2, <1>3, <1>4, <1>5, <1>6, <1>7, <1>8
        DEF Next, Socket, Emulator, HostLoop

LEMMA InitType == Init => TypeOK
<1> SUFFICES ASSUME Init PROVE TypeOK
  OBVIOUS
<1>1. queue \in Seq([id : 1 .. MaxRequests, kind : Kinds])
  BY EmptySeq DEF Init
<1>2. 0 \in 0 .. MaxRequests /\ 0 \in 0 .. MaxStops
  BY BridgeAssumption
<1> QED BY <1>1, <1>2 DEF Init, TypeOK

\* Every variable of the bridge keeps its type.
THEOREM TypeCorrect == Spec => []TypeOK
<1>1. Init => TypeOK
  BY InitType
<1> QED BY <1>1, TypeInv, PTL DEF Spec

----------------------------------------------------------------------------
(* The pause gate, for every client.                                        *)

LEMMA NotPausedYetInv == NotPausedYet /\ [Next]_vars => NotPausedYet'
<1> SUFFICES ASSUME NotPausedYet, [Next]_vars PROVE NotPausedYet'
  OBVIOUS
<1>1. CASE Socket
  BY <1>1 DEF Socket, ReadRequest, Ask, ReadContinueSync, Handle, Answer, AnswerTimeout,
     Clear, Resume, Wait, Wake, WaitTimesOut, NotPausedYet, emuVars
<1>2. CASE Emulator
  BY <1>2 DEF Emulator, HostLoop, HandleEvents, Dispatch, Drained, PauseGate, Frame, OnPause,
     Record, SetPaused, SetEvent, Notify, LeavePrompt, CoreStop, NotPausedYet, emuVars
<1>3. CASE UNCHANGED vars
  BY <1>3 DEF vars, NotPausedYet
<1> QED BY <1>1, <1>2, <1>3 DEF Next

\* No request pauses the machine in the middle of a frame, whatever the client
\* sends (drain runs on the emulator thread, between the frames).
THEOREM GateCorrect == Spec => []RunsOnlyResumed
<1>1. Init => NotPausedYet
  BY DEF Init, NotPausedYet
<1>2. NotPausedYet => RunsOnlyResumed
  BY DEF NotPausedYet, RunsOnlyResumed
<1> QED BY <1>1, <1>2, NotPausedYetInv, PTL DEF Spec

----------------------------------------------------------------------------
(* The wake-up, for a client that waits its turn.                           *)

LEMMA InitInv == Init => IInv
BY DEF Init, IInv, Recorded, NotPausedYet, Behind, Unheard, NothingQueued, StillPaused,
   Cleared, Woken, AboutToWake, NoLostWakeup, InContinue, Stopping

LEMMA NextInv == Patient /\ TypeOK /\ IInv /\ [Next]_vars => IInv'
<1> SUFFICES ASSUME Patient, TypeOK, IInv, [Next]_vars PROVE IInv'
  OBVIOUS
<1> USE DEF IInv, Recorded, Behind, Unheard, NothingQueued, StillPaused, Cleared, Woken,
        AboutToWake, NoLostWakeup, InContinue, Stopping
<1>0. NotPausedYet'
  BY NotPausedYetInv
<1>a. record \in Int /\ stops \in Int /\ resumed \in Int /\ told \in Int
  BY BridgeAssumption DEF TypeOK
<1>1. CASE ReadRequest
  BY <1>0, <1>a, <1>1 DEF ReadRequest, Ask, emuVars
\* A patient client has heard of the last stop: its event is set already.
<1>2. CASE ReadContinueSync
  <2>1. told = stops /\ queue = <<>>
    BY <1>2 DEF ReadContinueSync, TooEarly
  <2>2. paused => emu # "frame" /\ emu \notin Stopping
    BY <1>a, <2>1 DEF NotPausedYet, TypeOK
  <2> QED BY <1>0, <1>a, <1>2, <2>1, <2>2 DEF ReadContinueSync, emuVars
<1>3. CASE Answer \/ AnswerTimeout \/ WaitTimesOut
  BY <1>0, <1>a, <1>3 DEF Answer, AnswerTimeout, WaitTimesOut, emuVars
<1>4. CASE Clear
  BY <1>0, <1>a, <1>4 DEF Clear, ClearEvent, emuVars
<1>5. CASE Resume
  BY <1>0, <1>a, <1>5 DEF Resume, emuVars
<1>6. CASE Wait
  BY <1>0, <1>a, <1>6 DEF Wait, emuVars
<1>7. CASE Wake
  BY <1>0, <1>a, <1>7 DEF Wake, emuVars
\* Nothing is queued while the wait is on, so no request touches the pause.
<1>8. CASE Dispatch
  BY <1>0, <1>a, <1>8 DEF Dispatch, sockVars, emuVars
<1>9. CASE HandleEvents \/ Drained \/ PauseGate \/ Frame \/ LeavePrompt
  BY <1>0, <1>a, <1>9 DEF HandleEvents, Drained, PauseGate, Frame, LeavePrompt, sockVars,
     NotPausedYet
<1>10. CASE CoreStop
  BY <1>0, <1>a, <1>10 DEF CoreStop, sockVars, NotPausedYet
<1>11. CASE Record
  BY <1>0, <1>a, <1>11 DEF Record, NotYetWoken, sockVars, NotPausedYet
<1>12. CASE SetPaused
  BY <1>0, <1>a, <1>12 DEF SetPaused, sockVars, NotPausedYet
<1>13. CASE SetEvent
  BY <1>0, <1>a, <1>13 DEF SetEvent, WakeWaiter, sockVars
<1>14. CASE Notify
  BY <1>0, <1>a, <1>14 DEF Notify, sockVars
<1>15. CASE UNCHANGED vars
  BY <1>0, <1>15 DEF vars
<1> QED BY <1>1, <1>2, <1>3, <1>4, <1>5, <1>6, <1>7, <1>8, <1>9, <1>10, <1>11, <1>12,
           <1>13, <1>14, <1>15
        DEF Next, Socket, Handle, Emulator, HostLoop, OnPause

LEMMA BridgeInvariance == ASSUME Patient PROVE Spec => [](TypeOK /\ IInv)
<1>1. Init => TypeOK /\ IInv
  BY InitInv, InitType
<1>2. (TypeOK /\ IInv) /\ [Next]_vars => (TypeOK /\ IInv)'
  BY TypeInv, NextInv
<1> QED BY <1>1, <1>2, PTL DEF Spec

\* A continue_sync whose machine is paused again is woken (on_pause pauses, then
\* sets the event; continue_sync clears it before it resumes).
THEOREM WakeupCorrect == ASSUME Patient PROVE Spec => []NoLostWakeup
<1>1. IInv => NoLostWakeup
  BY DEF IInv
<1> QED BY <1>1, BridgeInvariance, PTL

\* The answer "paused" of continue_sync is true when it is given.
THEOREM AnswerCorrect == ASSUME Patient PROVE Spec => PausedAnswerHolds
<1>1. TypeOK /\ IInv => [Wake => paused]_vars
  BY DEF IInv, Woken, Wake
<1> QED BY <1>1, BridgeInvariance, PTL DEF PausedAnswerHolds

\* ... and about a stop that came after the resumption.
THEOREM NextStopCorrect == ASSUME Patient PROVE Spec => AnswersNextStop
<1>1. TypeOK /\ IInv => [Wake => record > resumed]_vars
  <2> SUFFICES ASSUME TypeOK, IInv, Wake PROVE record > resumed
    OBVIOUS
  <2>1. resumed < record
    BY DEF IInv, Woken, Wake
  <2> QED BY <2>1, BridgeAssumption DEF TypeOK
<1> QED BY <1>1, BridgeInvariance, PTL DEF AnswersNextStop
=============================================================================
