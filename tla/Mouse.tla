-------------------------------- MODULE Mouse --------------------------------
(***************************************************************************)
(* The MSX mouse on a joystick port (src/msx/mouse.py): eight phases of    *)
(* one nibble each, clocked by pin 8, which the program drives through     *)
(* R15 of the PSG and reads through R14 (src/msx/psg.py). The first four   *)
(* phases carry the motion since the last scan, the other four carry zero, *)
(* by which the BIOS knows a mouse. Time is in CPU cycles between writes.  *)
(***************************************************************************)
EXTENDS Integers, Sequences

CONSTANTS
  Motions,      \* counts <<dx, dy>> that the host adds at a time
  MouseJobs     \* records [port, writes, fuel]: where the mouse is; the bytes that the
                \* program writes to R15 and the cycles before each; the steps of the
                \* host (a bound)

\* A program selects the port that the mouse is on, and a motion is in counts.
ASSUME MouseAssumption ==
  /\ Motions \subseteq Int \X Int
  /\ MouseJobs \subseteq [port : 0..1, writes : Seq(Int \X Nat), fuel : Nat]
  /\ \A j \in MouseJobs : \A i \in DOMAIN j.writes : (j.writes[i][1] \div 64) % 2 = j.port

VARIABLES
  mouseR15,     \* R15 of the PSG: pin 8 of both ports, and the port that R14 shows
  mouse,        \* [phase, x, y, pendX, pendY, status, pin8, age]
  mouseSnap,    \* the latest save state, with the history that goes with it
  scan,         \* history: what the program read in this scan, and the totals
  mouseJob      \* what is left of the program's writes and of the host's steps

mouseVars == <<mouse, mouseR15, mouseSnap, scan, mouseJob>>

-----------------------------------------------------------------------------

Timeout == 5369
MaxDelta == 127
MaxPending == 32767
Buttons == {16, 32}

Clamped(n, most) == CASE n > most -> most [] n < -most -> -most [] OTHER -> n

NewMouse == [phase |-> 7, x |-> 0, y |-> 0, pendX |-> 0, pendY |-> 0, status |-> 48, pin8 |-> 0, age |-> 0]

\* read: a nibble of X or Y by the phase, under the two buttons.
ReadMouse(m) ==
  LET byte == (IF m.phase % 4 < 2 THEN m.x ELSE m.y) % 256
  IN m.status + (IF m.phase % 2 = 0 THEN byte \div 16 ELSE byte % 16)

\* R14 shows the port that bit 6 of R15 selects: the mouse, or a joystick at rest.
\* Bits 4 and 5 of R15 are pin 8 of the two ports, whatever bit 6 selects.
ReadR14(m, r15, port) == 192 + (IF (r15 \div 64) % 2 = port THEN ReadMouse(m) % 64 ELSE 63)
Pin8(r15, port)       == (r15 \div (IF port = 0 THEN 16 ELSE 32)) % 2

\* Mutant: what does not fit in a byte is dropped with it.
LatchedAll(m) ==
  [m EXCEPT !.x = Clamped(m.pendX, MaxDelta), !.y = Clamped(m.pendY, MaxDelta), !.pendX = 0, !.pendY = 0]

\* Leaving the last phase takes a byte of the motion and keeps what does not fit;
\* leaving the fourth clears it for the second half.
Latched(m) ==
  LET x == Clamped(m.pendX, MaxDelta)
      y == Clamped(m.pendY, MaxDelta)
  IN [m EXCEPT !.x = x, !.y = y, !.pendX = @ - x, !.pendY = @ - y]

AdvancePhase(m) ==
  LET w == CASE m.phase = 7 -> Latched(m) [] m.phase = 3 -> [m EXCEPT !.x = 0, !.y = 0] [] OTHER -> m
  IN [w EXCEPT !.phase = (@ + 1) % 8]

\* Any write of R#15 looks at the time since the last one, also without an edge.
Resynced(m) == [m EXCEPT !.phase = IF m.age > Timeout THEN 7 ELSE @, !.age = 0]

\* An even phase ends with a falling edge, an odd one with a rising edge.
WritePin8(m, level) ==
  LET r == Resynced(m)
      w == [r EXCEPT !.pin8 = level]
  IN CASE level = r.pin8      -> r
       [] level = r.phase % 2 -> AdvancePhase(w)
       [] OTHER               -> w

AddMotion(m, dx, dy) ==
  [m EXCEPT !.pendX = Clamped(@ + dx, MaxPending), !.pendY = Clamped(@ + dy, MaxPending)]

SetButton(m, bit, pressed) ==
  [m EXCEPT !.status = @ - (IF (@ \div bit) % 2 = 1 THEN bit ELSE 0) + (IF pressed THEN 0 ELSE bit)]

\* parse_state: the ranges, and no motion in the first three phases of the second half.
MouseParses(m) ==
  /\ m.phase \in 0..7
  /\ {m.x, m.y} \subseteq -MaxDelta..MaxDelta
  /\ {m.pendX, m.pendY} \subseteq -MaxPending..MaxPending
  /\ m.phase \in 4..6 => m.x = 0 /\ m.y = 0
  /\ m.status \in {0, 16, 32, 48} /\ m.pin8 \in 0..1

-----------------------------------------------------------------------------
(* The program clocks pin 8 and reads after every edge; the host moves,    *)
(* presses and saves.                                                      *)

\* The totals count from here on: nothing is under way.
Afresh(m) == [nibbles |-> <<>>, given |-> <<m.pendX, m.pendY>>, read |-> <<0, 0>>]

SignedByte(hi, lo) == IF hi > 7 THEN hi * 16 + lo - 256 ELSE hi * 16 + lo

\* What the program knows after reading phase n + 1 of a scan.
Heard(s, m, r15) ==
  LET n == Append(s.nibbles, ReadR14(m, r15, mouseJob.port) % 16)
  IN CASE m.phase = 3 -> [s EXCEPT !.nibbles = n,
                                   !.read = <<@[1] + SignedByte(n[1], n[2]), @[2] + SignedByte(n[3], n[4])>>]
       [] m.phase = 7 -> [s EXCEPT !.nibbles = <<>>]
       [] OTHER       -> [s EXCEPT !.nibbles = n]

HostStep == mouseJob.fuel > 0 /\ mouseJob' = [mouseJob EXCEPT !.fuel = @ - 1]

\* A timeout inside a scan ends it; the program starts to count again.
MouseWrite ==
  /\ mouseJob.writes # <<>>
  /\ mouseJob' = [mouseJob EXCEPT !.writes = Tail(@)]
  /\ mouseR15' = Head(mouseJob.writes)[1]
  /\ LET m == [mouse EXCEPT !.age = @ + Head(mouseJob.writes)[2]]
         w == WritePin8(m, Pin8(mouseR15', mouseJob.port))
     IN  /\ mouse' = w
         /\ scan' = IF m.age > Timeout /\ scan.nibbles # <<>>
                      THEN IF w.phase = 7 THEN Afresh(w) ELSE Heard(Afresh(Resynced(m)), w, mouseR15')
                      ELSE IF w.phase # m.phase THEN Heard(scan, w, mouseR15') ELSE scan
  /\ UNCHANGED mouseSnap

\* Motion beyond the bound is dropped, and the totals start again.
MouseMove ==
  /\ HostStep
  /\ \E d \in Motions :
       LET m == AddMotion(mouse, d[1], d[2])
       IN /\ mouse' = m
          /\ scan' = IF m.pendX = mouse.pendX + d[1] /\ m.pendY = mouse.pendY + d[2]
                       THEN [scan EXCEPT !.given = <<@[1] + d[1], @[2] + d[2]>>]
                       ELSE [Afresh(m) EXCEPT !.nibbles = scan.nibbles,
                                              !.given = IF Len(scan.nibbles) \in 1..3
                                                          THEN <<m.pendX + mouse.x, m.pendY + mouse.y>> ELSE @]
  /\ UNCHANGED <<mouseSnap, mouseR15>>

MouseButton ==
  /\ HostStep
  /\ \E bit \in Buttons, pressed \in BOOLEAN : mouse' = SetButton(mouse, bit, pressed)
  /\ UNCHANGED <<mouseSnap, mouseR15, scan>>

MouseSave ==
  /\ HostStep
  /\ mouseSnap' = [mouse |-> mouse, r15 |-> mouseR15, scan |-> scan]
  /\ UNCHANGED <<mouse, mouseR15, scan>>

\* A state that does not parse is refused and leaves the mouse as it is.
MouseLoad ==
  /\ HostStep /\ mouseSnap # <<>>
  /\ IF MouseParses(mouseSnap.mouse)
       THEN mouse' = mouseSnap.mouse /\ mouseR15' = mouseSnap.r15 /\ scan' = mouseSnap.scan
       ELSE UNCHANGED <<mouse, mouseR15, scan>>
  /\ UNCHANGED mouseSnap

MouseInit ==
  /\ mouse = NewMouse /\ mouseR15 = 0 /\ scan = Afresh(NewMouse)
  /\ mouseSnap = <<>> /\ mouseJob \in MouseJobs

MouseNext == MouseWrite \/ MouseMove \/ MouseButton \/ MouseSave \/ MouseLoad

-----------------------------------------------------------------------------

\* No motion is lost or counted twice: at the end of every first half what the program
\* has assembled of the nibbles, with what waits for the next scan, is what the host
\* moved, across scans, idle timeouts, large motions, save states and loads. The
\* second half reads zero, and every state of the mouse can be loaded again.
MotionConserved ==
  /\ Len(scan.nibbles) \in {0} \union 4..7 =>
       /\ scan.given[1] = scan.read[1] + mouse.pendX
       /\ scan.given[2] = scan.read[2] + mouse.pendY
  /\ \A i \in 5..Len(scan.nibbles) : scan.nibbles[i] = 0
  /\ MouseParses(mouse)
=============================================================================
