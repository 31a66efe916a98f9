------------------------------- MODULE Frames -------------------------------
(***************************************************************************)
(* What the core promises about video frames, whatever the host does       *)
(* between its calls: the T-states and scanlines of a frame follow each    *)
(* other without a gap, the frame is rendered once, at the end of its      *)
(* display area, and handed out once, with the sound of exactly its own    *)
(* T-states. Breaks, resumes and single steps do not occur here.           *)
(***************************************************************************)
EXTENDS Integers

CONSTANTS
  Lines,        \* scanlines per frame
  FrameCycles,  \* T-states per frame
  Costs,        \* T-states of an instruction
  Splits        \* the scanlines at which vertical blanking may start

VARIABLES
  line,      \* the scanline that runs
  total,     \* T-states since the frame began
  rendered,  \* the frame has been rendered
  image,     \* ... and an image was wanted
  frames,    \* completed frames
  given,     \* the frame last handed out: its image and its T-states of sound
  dropped    \* a frame was dropped and nothing has run since

framesVars == <<line, total, rendered, image, frames, given, dropped>>

NoFrame == [video |-> FALSE, audio |-> 0]

LineEnd(l) == ((l + 1) * FrameCycles) \div Lines

AtStart == line' = 0 /\ total' = 0 /\ rendered' = FALSE /\ image' = FALSE

\* No instruction of the border runs before the frame is rendered.
Run ==
  /\ line < Lines /\ total < LineEnd(line)
  /\ rendered \/ \E s \in Splits : line <= s
  /\ \E n \in Costs : total' = total + n
  /\ dropped' = FALSE
  /\ UNCHANGED <<line, rendered, image, frames, given>>

EndLine ==
  /\ line < Lines /\ total >= LineEnd(line)
  /\ line' = line + 1
  /\ UNCHANGED <<total, rendered, image, frames, given, dropped>>

Render ==
  /\ ~rendered /\ \E s \in Splits : line > s
  /\ rendered' = TRUE
  /\ image' \in BOOLEAN
  /\ UNCHANGED <<line, total, frames, given, dropped>>

Complete ==
  /\ line = Lines /\ rendered
  /\ frames' = frames + 1
  /\ given' = [video |-> image, audio |-> total]
  /\ dropped' \in {dropped, FALSE}
  /\ AtStart

\* The host has taken the frame.
Take ==
  /\ given' \in {given, NoFrame}
  /\ dropped' \in {dropped, FALSE}
  /\ UNCHANGED <<line, total, rendered, image, frames>>

\* A reset or a state load drops the frame; a load also brings its frame count.
Drop ==
  /\ AtStart /\ dropped' = TRUE
  /\ frames' \in Nat
  /\ given' \in {given, NoFrame}

Init ==
  /\ line = 0 /\ total = 0 /\ rendered = FALSE /\ image = FALSE
  /\ frames = 0 /\ given = NoFrame /\ dropped = FALSE

Next == Run \/ EndLine \/ Render \/ Complete \/ Take \/ Drop

Spec == Init /\ [][Next]_framesVars
=============================================================================
