---------------------------- MODULE Chips_proofs ----------------------------
(***************************************************************************)
(* What TLAPS proves of the chips behind the I/O ports (Chips), for every  *)
(* program, every event of the host and every length of a behaviour: that  *)
(* no motion of the mouse is lost, that the interrupt line of both video   *)
(* chips is that of their flags and a pair of control bytes does what it   *)
(* names, that the disks of the FS-A1F hold what a program asked for, that *)
(* the clock runs on as a calendar, and that the keyboard and the joystick *)
(* ports show what the hands hold (these two from Ports_proofs).           *)
(***************************************************************************)
EXTENDS Chips, Ports_proofs, TLAPS

-----------------------------------------------------------------------------
(* A behaviour follows one chip: its steps are that chip's.                *)

LEMMA MouseSteps ==
  ASSUME [ChipsNext]_chipVars
  PROVE  chosen' = chosen /\ (chosen = "mouse" => [MouseNext]_mouseVars)
BY DEF ChipsNext, chipVars

-----------------------------------------------------------------------------
(* The mouse. What a scan holds so far follows from the phase: the nibbles *)
(* of X and Y that were read, and whether the latched byte still counts as *)
(* under way or has been read.                                             *)

Deltas   == -MaxDelta..MaxDelta
Pendings == -MaxPending..MaxPending
Mice ==
  [phase : 0..7, x : Deltas, y : Deltas, pendX : Pendings, pendY : Pendings,
   status : {0, 16, 32, 48}, pin8 : 0..1, age : Int]

Scans == [nibbles : Seq(Int), given : Int \X Int, read : Int \X Int]

\* The motion that the host gave and the program has not assembled yet.
UnderWay(m, s) ==
  /\ m.phase \in 0..2 => /\ s.given[1] = s.read[1] + m.pendX + m.x
                         /\ s.given[2] = s.read[2] + m.pendY + m.y
  /\ m.phase \in 3..7 => /\ s.given[1] = s.read[1] + m.pendX
                         /\ s.given[2] = s.read[2] + m.pendY

\* The phases come round.
NextPhase(phase) == IF phase = 7 THEN 0 ELSE phase + 1

\* The two nibbles of a byte.
HighNibble(n) == (n % 256) \div 16
LowNibble(n)  == (n % 256) % 16

\* The nibbles that the program has heard of the bytes.
HeardSoFar(m, s) ==
  /\ Len(s.nibbles) = NextPhase(m.phase)
  /\ m.phase \in 0..2 => s.nibbles[1] = HighNibble(m.x)
  /\ m.phase \in 1..2 => s.nibbles[2] = LowNibble(m.x)
  /\ m.phase = 2 => s.nibbles[3] = HighNibble(m.y)
  /\ \A i \in 5..Len(s.nibbles) : s.nibbles[i] = 0

Scanning(m, s) ==
  /\ m \in Mice /\ s \in Scans
  /\ m.phase \in 4..6 => m.x = 0 /\ m.y = 0
  /\ UnderWay(m, s)
  /\ HeardSoFar(m, s)

\* What is left of a job still selects the port of the mouse.
Selecting(job) ==
  /\ job \in [port : 0..1, writes : Seq(Int \X Nat), fuel : Int]
  /\ \A i \in DOMAIN job.writes : (job.writes[i][1] \div 64) % 2 = job.port

MouseInv ==
  /\ Scanning(mouse, scan)
  /\ Selecting(mouseJob)
  /\ mouseSnap # <<>> => Scanning(mouseSnap.mouse, mouseSnap.scan)

\* The two ranges by their bounds.
LEMMA RangesAre ==
  /\ \A n : n \in Deltas <=> n \in Int /\ -127 <= n /\ n <= 127
  /\ \A n : n \in Pendings <=> n \in Int /\ -32767 <= n /\ n <= 32767
<1>1. \A most \in Nat : \A n : n \in -most..most <=> n \in Int /\ -most <= n /\ n <= most
  OBVIOUS
<1>2. MaxDelta \in Nat /\ MaxPending \in Nat
  BY DEF MaxDelta, MaxPending
<1>3. \A n : n \in Deltas <=> n \in Int /\ -MaxDelta <= n /\ n <= MaxDelta
  BY <1>1, <1>2 DEF Deltas
<1>4. \A n : n \in Pendings <=> n \in Int /\ -MaxPending <= n /\ n <= MaxPending
  BY <1>1, <1>2 DEF Pendings
<1> QED BY <1>3, <1>4 DEF MaxDelta, MaxPending

LEMMA MiceFields ==
  ASSUME NEW m \in Mice
  PROVE  /\ m.phase \in 0..7 /\ m.x \in Deltas /\ m.y \in Deltas
         /\ m.pendX \in Pendings /\ m.pendY \in Pendings
         /\ m.status \in {0, 16, 32, 48} /\ m.pin8 \in 0..1 /\ m.age \in Int
BY DEF Mice

LEMMA ScanningParses ==
  ASSUME NEW m, NEW s, Scanning(m, s) PROVE MouseParses(m)
<1>1. m \in Mice /\ (m.phase \in 4..6 => m.x = 0 /\ m.y = 0)
  BY DEF Scanning
<1>2. {m.x, m.y} \subseteq Deltas /\ {m.pendX, m.pendY} \subseteq Pendings
  BY <1>1, MiceFields
<1> QED BY <1>1, <1>2, MiceFields DEF MouseParses, Deltas, Pendings

LEMMA ScanningIsConserved ==
  ASSUME Scanning(mouse, scan) PROVE MotionConserved
<1>1. MouseParses(mouse)
  BY ScanningParses
<1>2. mouse.phase \in 0..7 /\ Len(scan.nibbles) = NextPhase(mouse.phase)
  BY MiceFields DEF Scanning, HeardSoFar
<1>3. Len(scan.nibbles) \in {0} \union 4..7 => mouse.phase \in 3..7
  BY <1>2 DEF NextPhase
<1> QED BY <1>1, <1>3 DEF MotionConserved, Scanning, UnderWay, HeardSoFar

LEMMA NibbleRead ==
  ASSUME NEW m \in Mice, NEW r15 \in Int, NEW port, (r15 \div 64) % 2 = port
  PROVE  /\ m.phase \in {0, 4} => ReadR14(m, r15, port) % 16 = HighNibble(m.x)
         /\ m.phase \in {1, 5} => ReadR14(m, r15, port) % 16 = LowNibble(m.x)
         /\ m.phase \in {2, 6} => ReadR14(m, r15, port) % 16 = HighNibble(m.y)
         /\ m.phase \in {3, 7} => ReadR14(m, r15, port) % 16 = LowNibble(m.y)
<1> DEFINE x == m.x % 256
           y == m.y % 256
<1>1. x \in 0..255 /\ y \in 0..255
  BY MiceFields, RangesAre
<1>2. ASSUME NEW n \in 0..15 PROVE (192 + ((m.status + n) % 64)) % 16 = n
  BY <1>2, MiceFields
<1>3. ReadR14(m, r15, port) = 192 + (ReadMouse(m) % 64)
  BY DEF ReadR14
<1>4. CASE m.phase \in {0, 4}
  <2>1. ReadMouse(m) = m.status + (x \div 16)
    BY <1>4 DEF ReadMouse
  <2> HIDE DEF x, y
  <2>2. x \div 16 \in 0..15
    BY <1>1
  <2> QED BY <1>2, <1>3, <1>4, <2>1, <2>2 DEF x, HighNibble, LowNibble
<1>5. CASE m.phase \in {1, 5}
  <2>1. ReadMouse(m) = m.status + (x % 16)
    BY <1>5 DEF ReadMouse
  <2> HIDE DEF x, y
  <2>2. x % 16 \in 0..15
    BY <1>1
  <2> QED BY <1>2, <1>3, <1>5, <2>1, <2>2 DEF x, HighNibble, LowNibble
<1>6. CASE m.phase \in {2, 6}
  <2>1. ReadMouse(m) = m.status + (y \div 16)
    BY <1>6 DEF ReadMouse
  <2> HIDE DEF x, y
  <2>2. y \div 16 \in 0..15
    BY <1>1
  <2> QED BY <1>2, <1>3, <1>6, <2>1, <2>2 DEF y, HighNibble, LowNibble
<1>7. CASE m.phase \in {3, 7}
  <2>1. ReadMouse(m) = m.status + (y % 16)
    BY <1>7 DEF ReadMouse
  <2> HIDE DEF x, y
  <2>2. y % 16 \in 0..15
    BY <1>1
  <2> QED BY <1>2, <1>3, <1>7, <2>1, <2>2 DEF y, HighNibble, LowNibble
<1> QED BY <1>4, <1>5, <1>6, <1>7, MiceFields

\* Two nibbles of a signed byte give the byte back.
LEMMA NibblesMakeByte ==
  ASSUME NEW n \in Deltas
  PROVE  SignedByte(HighNibble(n), LowNibble(n)) = n
BY RangesAre DEF SignedByte, HighNibble, LowNibble

\* What is taken of the motion fits in a byte, and what is left of it is no larger.
LEMMA ClampedIs ==
  /\ \A n \in Pendings : Clamped(n, MaxDelta) \in Deltas /\ n - Clamped(n, MaxDelta) \in Pendings
  /\ \A n \in Int : Clamped(n, MaxPending) \in Pendings
<1>1. ASSUME NEW n \in Int, NEW most \in Nat
      PROVE  /\ n > most => Clamped(n, most) = most
             /\ n < -most => Clamped(n, most) = -most
             /\ ~(n > most) /\ ~(n < -most) => Clamped(n, most) = n
  BY <1>1 DEF Clamped
<1>2. ASSUME NEW n \in Pendings
      PROVE  Clamped(n, MaxDelta) \in Deltas /\ n - Clamped(n, MaxDelta) \in Pendings
  <2>1. /\ n > 127 => Clamped(n, 127) = 127
        /\ n < -127 => Clamped(n, 127) = -127
        /\ ~(n > 127) /\ ~(n < -127) => Clamped(n, 127) = n
    BY <1>1, RangesAre
  <2>2. /\ Clamped(n, 127) \in Int /\ -127 <= Clamped(n, 127) /\ Clamped(n, 127) <= 127
        /\ -32767 <= n - Clamped(n, 127) /\ n - Clamped(n, 127) <= 32767
    BY <2>1, RangesAre
  <2>3. n - Clamped(n, 127) \in Int
    BY <2>2, RangesAre
  <2> QED BY <2>2, <2>3, RangesAre DEF MaxDelta
<1>3. ASSUME NEW n \in Int PROVE Clamped(n, MaxPending) \in Pendings
  <2>1. /\ n > 32767 => Clamped(n, 32767) = 32767
        /\ n < -32767 => Clamped(n, 32767) = -32767
        /\ ~(n > 32767) /\ ~(n < -32767) => Clamped(n, 32767) = n
    BY <1>1
  <2>2. Clamped(n, 32767) \in Int /\ -32767 <= Clamped(n, 32767) /\ Clamped(n, 32767) <= 32767
    BY <2>1
  <2> QED BY <2>2, RangesAre DEF MaxPending
<1> QED BY <1>2, <1>3

\* The operations of the mouse, and what the program hears.

LEMMA MiceReplaced ==
  ASSUME NEW m \in Mice
  PROVE  /\ \A d \in Deltas : [m EXCEPT !.x = d] \in Mice /\ [m EXCEPT !.y = d] \in Mice
         /\ \A p \in Pendings : [m EXCEPT !.pendX = p] \in Mice /\ [m EXCEPT !.pendY = p] \in Mice
         /\ \A k \in 0..7 : [m EXCEPT !.phase = k] \in Mice
         /\ \A l \in 0..1 : [m EXCEPT !.pin8 = l] \in Mice
         /\ \A a \in Int : [m EXCEPT !.age = a] \in Mice
         /\ \A b \in {0, 16, 32, 48} : [m EXCEPT !.status = b] \in Mice
<1>1. \A d \in Deltas : [m EXCEPT !.x = d] \in Mice /\ [m EXCEPT !.y = d] \in Mice
  BY DEF Mice
<1>2. \A p \in Pendings : [m EXCEPT !.pendX = p] \in Mice /\ [m EXCEPT !.pendY = p] \in Mice
  BY DEF Mice
<1>3. \A k \in 0..7 : [m EXCEPT !.phase = k] \in Mice
  BY DEF Mice
<1>4. \A l \in 0..1 : [m EXCEPT !.pin8 = l] \in Mice
  BY DEF Mice
<1>5. \A a \in Int : [m EXCEPT !.age = a] \in Mice
  BY DEF Mice
<1>6. \A b \in {0, 16, 32, 48} : [m EXCEPT !.status = b] \in Mice
  BY DEF Mice
<1> QED BY <1>1, <1>2, <1>3, <1>4, <1>5, <1>6

LEMMA LatchedIs ==
  ASSUME NEW m \in Mice
  PROVE  /\ Latched(m) \in Mice
         /\ Latched(m).phase = m.phase /\ Latched(m).age = m.age
         /\ Latched(m).pendX + Latched(m).x = m.pendX
         /\ Latched(m).pendY + Latched(m).y = m.pendY
<1> DEFINE cx == Clamped(m.pendX, MaxDelta)
           cy == Clamped(m.pendY, MaxDelta)
<1>1. /\ cx \in Deltas /\ m.pendX - cx \in Pendings
      /\ cy \in Deltas /\ m.pendY - cy \in Pendings
  BY MiceFields, ClampedIs
<1>2. Latched(m) = [m EXCEPT !.x = cx, !.y = cy, !.pendX = m.pendX - cx, !.pendY = m.pendY - cy]
  BY DEF Latched
<1> HIDE DEF cx, cy
<1>3. PICK m1 : m1 = [m EXCEPT !.x = cx]
  OBVIOUS
<1>4. PICK m2 : m2 = [m1 EXCEPT !.y = cy]
  OBVIOUS
<1>5. PICK m3 : m3 = [m2 EXCEPT !.pendX = m.pendX - cx]
  OBVIOUS
<1>6. PICK m4 : m4 = [m3 EXCEPT !.pendY = m.pendY - cy]
  OBVIOUS
<1>7. m1 \in Mice /\ m2 \in Mice /\ m3 \in Mice /\ m4 \in Mice
  <2>1. m1 \in Mice
    BY <1>1, <1>3, MiceReplaced
  <2>2. m2 \in Mice
    BY <2>1, <1>1, <1>4, MiceReplaced
  <2>3. m3 \in Mice
    BY <2>2, <1>1, <1>5, MiceReplaced
  <2>4. m4 \in Mice
    BY <2>3, <1>1, <1>6, MiceReplaced
  <2> QED BY <2>1, <2>2, <2>3, <2>4
<1>8. Latched(m) = m4
  BY <1>2, <1>3, <1>4, <1>5, <1>6, Zenon
<1>9. /\ m4.phase = m.phase /\ m4.age = m.age
      /\ m4.x = cx /\ m4.pendX = m.pendX - cx
      /\ m4.y = cy /\ m4.pendY = m.pendY - cy
  BY <1>3, <1>4, <1>5, <1>6, <1>7 DEF Mice
<1>10. m.pendX \in Int /\ cx \in Int /\ m.pendY \in Int /\ cy \in Int
  BY <1>1, MiceFields, RangesAre
<1> QED BY <1>7, <1>8, <1>9, <1>10

\* One phase on: the last phase latches the motion, the fourth clears it.
LEMMA AdvancedIs ==
  ASSUME NEW m \in Mice
  PROVE  LET w == AdvancePhase(m) IN
         /\ w \in Mice /\ w.phase = NextPhase(m.phase) /\ w.age = m.age
         /\ m.phase = 7 => w.pendX + w.x = m.pendX /\ w.pendY + w.y = m.pendY
         /\ m.phase = 3 => w.x = 0 /\ w.y = 0 /\ w.pendX = m.pendX /\ w.pendY = m.pendY
         /\ m.phase \notin {3, 7} =>
              w.x = m.x /\ w.y = m.y /\ w.pendX = m.pendX /\ w.pendY = m.pendY
<1> DEFINE w == AdvancePhase(m)
<1>1. ASSUME NEW n \in Mice, n.phase = m.phase, w = [n EXCEPT !.phase = (n.phase + 1) % 8]
      PROVE  /\ w \in Mice /\ w.phase = NextPhase(m.phase) /\ w.age = n.age
             /\ w.x = n.x /\ w.y = n.y /\ w.pendX = n.pendX /\ w.pendY = n.pendY
  <2>1. (n.phase + 1) % 8 \in 0..7 /\ (n.phase + 1) % 8 = NextPhase(m.phase)
    BY <1>1, MiceFields DEF NextPhase
  <2> QED BY <1>1, <2>1 DEF Mice
<1>2. CASE m.phase = 7
  <2>1. w = [Latched(m) EXCEPT !.phase = (Latched(m).phase + 1) % 8]
    BY <1>2 DEF AdvancePhase
  <2> HIDE DEF w
  <2> QED BY <1>1, <1>2, <2>1, LatchedIs DEF w
<1>3. CASE m.phase = 3
  <2> DEFINE n == [m EXCEPT !.x = 0, !.y = 0]
  <2>0. m.phase # 7
    BY <1>3
  <2>1. w = [n EXCEPT !.phase = (n.phase + 1) % 8]
    BY <1>3, <2>0 DEF AdvancePhase
  <2>2. PICK m1 : m1 = [m EXCEPT !.x = 0]
    OBVIOUS
  <2>3. n = [m1 EXCEPT !.y = 0]
    BY <2>2, Zenon
  <2>4. m1 \in Mice /\ n \in Mice
    <3>1. 0 \in Deltas
      BY RangesAre
    <3>2. m1 \in Mice
      BY <2>2, <3>1, MiceReplaced
    <3> HIDE DEF n
    <3> QED BY <2>3, <3>1, <3>2, MiceReplaced
  <2> HIDE DEF n
  <2>5. /\ n.phase = m.phase /\ n.x = 0 /\ n.y = 0 /\ n.age = m.age
        /\ n.pendX = m.pendX /\ n.pendY = m.pendY
    BY <2>2, <2>3, <2>4 DEF Mice
  <2> HIDE DEF w
  <2> QED BY <1>1, <1>3, <2>1, <2>4, <2>5 DEF w
<1>4. CASE m.phase \notin {3, 7}
  <2>1. w = [m EXCEPT !.phase = (m.phase + 1) % 8]
    BY <1>4 DEF AdvancePhase
  <2> HIDE DEF w
  <2> QED BY <1>1, <1>4, <2>1 DEF w
<1> HIDE DEF w
<1> QED BY <1>2, <1>3, <1>4 DEF w

LEMMA ResyncedIs ==
  ASSUME NEW m \in Mice
  PROVE  /\ Resynced(m) \in Mice /\ Resynced(m).age = 0
         /\ Resynced(m).phase = IF m.age > Timeout THEN 7 ELSE m.phase
         /\ Resynced(m).x = m.x /\ Resynced(m).y = m.y
         /\ Resynced(m).pendX = m.pendX /\ Resynced(m).pendY = m.pendY
<1>1. PICK k \in 0..7 : k = IF m.age > Timeout THEN 7 ELSE m.phase
  BY MiceFields
<1>2. PICK m1 : m1 = [m EXCEPT !.phase = k]
  OBVIOUS
<1>3. PICK m2 : m2 = [m1 EXCEPT !.age = 0]
  OBVIOUS
<1>4. Resynced(m) = m2
  BY <1>1, <1>2, <1>3, Zenon DEF Resynced
<1>5. m1 \in Mice
  BY <1>2, MiceReplaced
<1>6. 0 \in Int /\ m2 \in Mice
  BY <1>3, <1>5 DEF Mice
<1> QED BY <1>1, <1>2, <1>3, <1>4, <1>5, <1>6 DEF Mice

\* A write of R#15 leaves the mouse as resynced, or one phase on.
LEMMA WrittenIs ==
  ASSUME NEW m \in Mice, NEW level \in 0..1
  PROVE  LET w == WritePin8(m, level)
             r == Resynced(m)
         IN /\ w \in Mice
            /\ \/ /\ w.phase = r.phase /\ w.x = m.x /\ w.y = m.y
                  /\ w.pendX = m.pendX /\ w.pendY = m.pendY
               \/ \E n \in Mice :
                    /\ n.phase = r.phase /\ n.x = m.x /\ n.y = m.y
                    /\ n.pendX = m.pendX /\ n.pendY = m.pendY
                    /\ w = AdvancePhase(n)
<1> DEFINE r == Resynced(m)
           n == [r EXCEPT !.pin8 = level]
           w == WritePin8(m, level)
<1>1. r \in Mice /\ r.x = m.x /\ r.y = m.y /\ r.pendX = m.pendX /\ r.pendY = m.pendY
  BY ResyncedIs
<1>2. w = r \/ w = n \/ w = AdvancePhase(n)
  BY DEF WritePin8
<1> HIDE DEF r, w
<1>3. /\ n \in Mice /\ n.phase = r.phase /\ n.x = r.x /\ n.y = r.y
      /\ n.pendX = r.pendX /\ n.pendY = r.pendY
  BY <1>1 DEF Mice
<1> HIDE DEF n
<1>4. AdvancePhase(n) \in Mice
  BY <1>3, AdvancedIs
<1> QED BY <1>1, <1>2, <1>3, <1>4 DEF r, w

\* What a scan holds depends on these fields of the mouse alone.
LEMMA SameScan ==
  ASSUME NEW m, NEW s, Scanning(m, s), NEW n \in Mice, n.phase = m.phase, n.x = m.x, n.y = m.y,
         n.pendX = m.pendX, n.pendY = m.pendY
  PROVE  Scanning(n, s)
BY DEF Scanning, UnderWay, HeardSoFar

\* The program starts to count: nothing is under way.
LEMMA AfreshIs ==
  ASSUME NEW m \in Mice, m.phase = 7, NEW n, n.pendX = m.pendX, n.pendY = m.pendY
  PROVE  Scanning(m, Afresh(n))
<1>1. m.pendX \in Int /\ m.pendY \in Int
  BY MiceFields, RangesAre
<1>2. Afresh(n) = [nibbles |-> <<>>, given |-> <<m.pendX, m.pendY>>, read |-> <<0, 0>>]
  BY DEF Afresh
<1>3. Afresh(n) \in Scans
  BY <1>1, <1>2 DEF Scans
<1>4. UnderWay(m, Afresh(n))
  BY <1>1, <1>2 DEF UnderWay
<1>5. HeardSoFar(m, Afresh(n))
  BY <1>2 DEF HeardSoFar, NextPhase
<1> QED BY <1>3, <1>4, <1>5 DEF Scanning

\* What a phase adds to what was heard.
WithNibble(s, w, r15) == Append(s.nibbles, ReadR14(w, r15, mouseJob.port) % 16)

LEMMA HeardIs ==
  ASSUME NEW s \in Scans, NEW w, NEW r15, WithNibble(s, w, r15) \in Seq(Int)
  PROVE  LET h == Heard(s, w, r15)
             q == WithNibble(s, w, r15)
         IN
         /\ w.phase = 7 => h \in Scans /\ h.nibbles = <<>> /\ h.given = s.given /\ h.read = s.read
         /\ w.phase \notin {3, 7} => h \in Scans /\ h.nibbles = q /\ h.given = s.given /\ h.read = s.read
<1> DEFINE q == WithNibble(s, w, r15)
<1>1. q \in Seq(Int)
  OBVIOUS
<1> HIDE DEF q
<1>2. ASSUME w.phase = 7
      PROVE  LET h == Heard(s, w, r15) IN
             h \in Scans /\ h.nibbles = <<>> /\ h.given = s.given /\ h.read = s.read
  <2>1. Heard(s, w, r15) = [s EXCEPT !.nibbles = <<>>]
    BY <1>2 DEF Heard, WithNibble
  <2>2. <<>> \in Seq(Int)
    OBVIOUS
  <2>3. PICK none \in Seq(Int) : none = <<>>
    BY <2>2
  <2> QED BY <2>1, <2>3 DEF Scans
<1>3. ASSUME w.phase \notin {3, 7}
      PROVE  LET h == Heard(s, w, r15) IN
             h \in Scans /\ h.nibbles = q /\ h.given = s.given /\ h.read = s.read
  <2>1. Heard(s, w, r15) = [s EXCEPT !.nibbles = q]
    BY <1>3 DEF Heard, WithNibble, q
  <2> QED BY <1>1, <2>1 DEF Scans
<1> QED BY <1>2, <1>3 DEF q

LEMMA SumsAre == \A i, j \in Int : i + j \in Int
OBVIOUS

\* The fourth nibble: the program knows both bytes.
LEMMA HeardBytes ==
  ASSUME NEW s \in Scans, NEW w, NEW r15, w.phase = 3,
         NEW q \in Seq(Int), q = WithNibble(s, w, r15),
         NEW x \in Int, x = SignedByte(q[1], q[2]), NEW y \in Int, y = SignedByte(q[3], q[4])
  PROVE  LET h == Heard(s, w, r15) IN
         /\ h \in Scans /\ h.nibbles = q /\ h.given = s.given
         /\ h.read[1] = s.read[1] + x /\ h.read[2] = s.read[2] + y
<1> DEFINE t == [s EXCEPT !.nibbles = q]
<1>1. t \in Scans /\ t.nibbles = q /\ t.given = s.given /\ t.read = s.read
  BY DEF Scans
<1>2. w.phase = 3 /\ w.phase # 7
  OBVIOUS
<1>3. Heard(s, w, r15) =
        [t EXCEPT !.read = <<t.read[1] + SignedByte(q[1], q[2]), t.read[2] + SignedByte(q[3], q[4])>>]
  BY <1>2, Zenon DEF Heard, WithNibble
<1> HIDE DEF t
<1>4. Heard(s, w, r15) = [t EXCEPT !.read = <<s.read[1] + x, s.read[2] + y>>]
  BY <1>1, <1>3
<1>a. s.read \in Int \X Int
  BY DEF Scans
<1>b. s.read[1] \in Int /\ s.read[2] \in Int
  BY <1>a
<1>5. s.read[1] + x \in Int /\ s.read[2] + y \in Int
  BY <1>b, SumsAre, Zenon
<1>6. <<s.read[1] + x, s.read[2] + y>> \in Int \X Int
  BY <1>5
<1>7. PICK r \in Int \X Int : r = <<s.read[1] + x, s.read[2] + y>>
  BY <1>6
<1>8. Heard(s, w, r15) = [t EXCEPT !.read = r]
  BY <1>4, <1>7, Zenon
<1>9. LET h == Heard(s, w, r15) IN h \in Scans /\ h.nibbles = q /\ h.given = s.given /\ h.read = r
  BY <1>1, <1>8 DEF Scans
<1> QED BY <1>7, <1>9

\* A scan goes on by one phase: the program reads the nibble that the phase shows.
LEMMA PhaseGoesOn ==
  ASSUME NEW m \in Mice, NEW s, Scanning(m, s), NEW r15 \in Int, (r15 \div 64) % 2 = mouseJob.port
  PROVE  Scanning(AdvancePhase(m), Heard(s, AdvancePhase(m), r15))
<1> DEFINE w == AdvancePhase(m)
           h == Heard(s, w, r15)
           t == ReadR14(w, r15, mouseJob.port) % 16
           q == Append(s.nibbles, t)
<1>1. w \in Mice /\ w.phase = IF m.phase = 7 THEN 0 ELSE m.phase + 1
  BY AdvancedIs DEF NextPhase
<1>2. /\ m.phase = 7 => w.pendX + w.x = m.pendX /\ w.pendY + w.y = m.pendY
      /\ m.phase = 3 => w.x = 0 /\ w.y = 0 /\ w.pendX = m.pendX /\ w.pendY = m.pendY
      /\ m.phase \notin {3, 7} => w.x = m.x /\ w.y = m.y /\ w.pendX = m.pendX /\ w.pendY = m.pendY
  BY AdvancedIs
<1>3. s \in Scans /\ UnderWay(m, s) /\ HeardSoFar(m, s)
  BY DEF Scanning
<1>4. m.phase \in 4..6 => m.x = 0 /\ m.y = 0
  BY DEF Scanning
<1> HIDE DEF w
<1>5. /\ w.phase \in {0, 4} => t = HighNibble(w.x)
      /\ w.phase \in {1, 5} => t = LowNibble(w.x)
      /\ w.phase \in {2, 6} => t = HighNibble(w.y)
      /\ w.phase \in {3, 7} => t = LowNibble(w.y)
  BY <1>1, NibbleRead
<1> HIDE DEF t
<1>6. m.phase \in 0..7 /\ w.phase \in 0..7
  BY <1>1, MiceFields
<1>7. /\ m.x \in Int /\ m.y \in Int /\ m.pendX \in Int /\ m.pendY \in Int
      /\ w.x \in Int /\ w.y \in Int /\ w.pendX \in Int /\ w.pendY \in Int
  BY <1>1, MiceFields, RangesAre
<1>8. s.given[1] \in Int /\ s.given[2] \in Int /\ s.read[1] \in Int /\ s.read[2] \in Int
  BY <1>3 DEF Scans
<1>9. s.nibbles \in Seq(Int) /\ Len(s.nibbles) = IF m.phase = 7 THEN 0 ELSE m.phase + 1
  BY <1>3 DEF Scans, HeardSoFar, NextPhase
<1>10. t \in Int
  <2>1. \A n \in Int : HighNibble(n) \in Int /\ LowNibble(n) \in Int
    BY DEF HighNibble, LowNibble
  <2> QED BY <1>5, <1>6, <1>7, <2>1
<1>11. /\ q \in Seq(Int) /\ Len(q) = Len(s.nibbles) + 1 /\ q[Len(s.nibbles) + 1] = t
       /\ \A i \in 1..Len(s.nibbles) : q[i] = s.nibbles[i]
  BY <1>9, <1>10
<1>12. q = WithNibble(s, w, r15)
  BY DEF t, WithNibble
<1> HIDE DEF q
<1>13. w.phase = 7 => h \in Scans /\ h.nibbles = <<>> /\ h.given = s.given /\ h.read = s.read
  BY <1>3, <1>11, <1>12, HeardIs
<1>14. w.phase \notin {3, 7} => h \in Scans /\ h.nibbles = q /\ h.given = s.given /\ h.read = s.read
  BY <1>3, <1>11, <1>12, HeardIs
<1>15. ASSUME m.phase = 7
       PROVE  Scanning(w, h)
  <2>1. w.phase = 0 /\ t = HighNibble(w.x) /\ Len(q) = 1 /\ q[1] = t
    BY <1>1, <1>5, <1>9, <1>11, <1>15
  <2>2. h.given = s.given /\ h.read = s.read /\ h.nibbles = q /\ h \in Scans
    BY <1>14, <2>1
  <2>3. s.given[1] = s.read[1] + m.pendX /\ s.given[2] = s.read[2] + m.pendY
    BY <1>3, <1>15 DEF UnderWay
  <2>4. UnderWay(w, h)
    <3>1. h.given[1] = h.read[1] + w.pendX + w.x /\ h.given[2] = h.read[2] + w.pendY + w.y
      BY <1>2, <1>7, <1>8, <1>15, <2>2, <2>3
    <3> QED BY <2>1, <3>1 DEF UnderWay
  <2>5. HeardSoFar(w, h)
    <3>1. \A i \in 5..Len(q) : q[i] = 0
      BY <2>1
    <3>2. Len(q) = NextPhase(w.phase) /\ q[1] = HighNibble(w.x)
      BY <2>1 DEF NextPhase
    <3> QED BY <2>1, <2>2, <3>1, <3>2 DEF HeardSoFar
  <2> QED BY <1>1, <2>1, <2>2, <2>4, <2>5 DEF Scanning
<1>16. ASSUME m.phase \in {0, 1}
       PROVE  Scanning(w, h)
  <2>1. w.phase = m.phase + 1 /\ w.phase \in {1, 2} /\ Len(q) = w.phase + 1
    BY <1>1, <1>9, <1>11, <1>16
  <2>2. h.given = s.given /\ h.read = s.read /\ h.nibbles = q /\ h \in Scans
    BY <1>14, <2>1
  <2>3. w.x = m.x /\ w.y = m.y /\ w.pendX = m.pendX /\ w.pendY = m.pendY
    BY <1>2, <1>16
  <2>4. UnderWay(w, h)
    <3>1. s.given[1] = s.read[1] + m.pendX + m.x /\ s.given[2] = s.read[2] + m.pendY + m.y
      BY <1>3, <1>16 DEF UnderWay
    <3> QED BY <2>1, <2>2, <2>3, <3>1 DEF UnderWay
  <2>5. HeardSoFar(w, h)
    <3>1. q[1] = HighNibble(w.x)
      <4>1. s.nibbles[1] = HighNibble(m.x)
        BY <1>3, <1>16 DEF HeardSoFar
      <4>2. 1 \in 1..Len(s.nibbles)
        BY <1>9, <1>16
      <4> QED BY <1>11, <2>3, <4>1, <4>2
    <3>2. q[2] = LowNibble(w.x)
      <4>1. CASE m.phase = 0
        BY <1>5, <1>9, <1>11, <2>1, <4>1
      <4>2. CASE m.phase = 1
        BY <1>3, <1>9, <1>11, <2>3, <4>2 DEF HeardSoFar
      <4> QED BY <1>16, <4>1, <4>2
    <3>3. w.phase = 2 => q[3] = HighNibble(w.y)
      BY <1>5, <1>9, <1>11, <1>16, <2>1
    <3>4. Len(q) = NextPhase(w.phase) /\ w.phase # 0
      BY <2>1 DEF NextPhase
    <3>5. \A i \in 5..Len(q) : q[i] = 0
      BY <2>1
    <3> QED BY <2>2, <3>1, <3>2, <3>3, <3>4, <3>5 DEF HeardSoFar
  <2> QED BY <1>1, <2>1, <2>2, <2>4, <2>5 DEF Scanning
<1>17. ASSUME m.phase = 2
       PROVE  Scanning(w, h)
  <2>1. w.phase = 3 /\ Len(q) = 4
    BY <1>1, <1>9, <1>11, <1>17
  <2>2. w.y = m.y /\ w.pendX = m.pendX /\ w.pendY = m.pendY
    BY <1>2, <1>17
  <2>3. /\ q[1] = HighNibble(m.x) /\ q[2] = LowNibble(m.x) /\ q[3] = HighNibble(m.y)
    BY <1>3, <1>9, <1>11, <1>17 DEF HeardSoFar
  <2>4. q[4] = LowNibble(m.y)
    BY <1>5, <1>9, <1>11, <1>17, <2>1, <2>2
  <2>5. SignedByte(q[1], q[2]) = m.x /\ SignedByte(q[3], q[4]) = m.y
    BY <2>3, <2>4, MiceFields, NibblesMakeByte
  <2>7. /\ h \in Scans /\ h.nibbles = q /\ h.given = s.given
        /\ h.read[1] = s.read[1] + m.x /\ h.read[2] = s.read[2] + m.y
    <3>1. s \in Scans /\ q \in Seq(Int) /\ m.x \in Int /\ m.y \in Int
      BY <1>3, <1>7, <1>11
    <3>2. m.x = SignedByte(q[1], q[2]) /\ m.y = SignedByte(q[3], q[4])
      BY <2>5
    <3>3. s \in Scans /\ w.phase = 3
      BY <2>1, <3>1
    <3>4. \A p \in Seq(Int), x \in Int, y \in Int :
            p = WithNibble(s, w, r15) /\ x = SignedByte(p[1], p[2]) /\ y = SignedByte(p[3], p[4])
              => /\ Heard(s, w, r15) \in Scans /\ Heard(s, w, r15).nibbles = p
                 /\ Heard(s, w, r15).given = s.given
                 /\ Heard(s, w, r15).read[1] = s.read[1] + x
                 /\ Heard(s, w, r15).read[2] = s.read[2] + y
      BY <3>3, HeardBytes
    <3> HIDE DEF h
    <3>5. h = Heard(s, w, r15)
      BY DEF h
    <3>6. q = WithNibble(s, w, r15)
      BY <1>12
    <3>7. /\ Heard(s, w, r15) \in Scans /\ Heard(s, w, r15).nibbles = q
          /\ Heard(s, w, r15).given = s.given
          /\ Heard(s, w, r15).read[1] = s.read[1] + m.x
          /\ Heard(s, w, r15).read[2] = s.read[2] + m.y
      BY <3>1, <3>2, <3>4, <3>6, ZenonT(30)
    <3> QED BY <3>5, <3>7, Zenon
  <2>9. UnderWay(w, h)
    <3>1. s.given[1] = s.read[1] + m.pendX + m.x /\ s.given[2] = s.read[2] + m.pendY + m.y
      BY <1>3, <1>17 DEF UnderWay
    <3>2. h.given[1] = h.read[1] + w.pendX /\ h.given[2] = h.read[2] + w.pendY
      BY <1>7, <1>8, <2>2, <2>7, <3>1
    <3> QED BY <2>1, <3>2 DEF UnderWay
  <2>10. HeardSoFar(w, h)
    <3>1. \A i \in 5..Len(q) : q[i] = 0
      BY <2>1
    <3>2. Len(q) = NextPhase(w.phase)
      BY <2>1 DEF NextPhase
    <3>3. h.nibbles = q
      BY <2>7
    <3> QED BY <2>1, <3>1, <3>2, <3>3 DEF HeardSoFar
  <2> QED BY <1>1, <2>1, <2>7, <2>9, <2>10 DEF Scanning
<1>18. ASSUME m.phase \in {3, 4, 5}
       PROVE  Scanning(w, h)
  <2>1. w.phase = m.phase + 1 /\ w.phase \in {4, 5, 6} /\ Len(q) = w.phase + 1
    BY <1>1, <1>9, <1>11, <1>18
  <2>2. h.given = s.given /\ h.read = s.read /\ h.nibbles = q /\ h \in Scans
    BY <1>14, <2>1
  <2>3. w.x = 0 /\ w.y = 0 /\ w.pendX = m.pendX /\ w.pendY = m.pendY
    BY <1>2, <1>4, <1>18
  <2>4. t = 0
    <3>1. HighNibble(0) = 0 /\ LowNibble(0) = 0
      BY DEF HighNibble, LowNibble
    <3> QED BY <1>5, <2>1, <2>3, <3>1
  <2>5. UnderWay(w, h)
    <3>1. s.given[1] = s.read[1] + m.pendX /\ s.given[2] = s.read[2] + m.pendY
      BY <1>3, <1>18 DEF UnderWay
    <3> QED BY <2>1, <2>2, <2>3, <3>1 DEF UnderWay
  <2>6. HeardSoFar(w, h)
    <3>1. ASSUME NEW i \in 5..Len(s.nibbles) PROVE q[i] = 0
      <4>1. s.nibbles[i] = 0
        BY <1>3, <3>1 DEF HeardSoFar
      <4>2. i \in 1..Len(s.nibbles)
        BY <1>9, <3>1
      <4> QED BY <1>11, <4>1, <4>2
    <3>2. \A i \in 5..Len(q) : q[i] = 0
      BY <1>9, <1>11, <2>4, <3>1
    <3> QED BY <2>1, <2>2, <3>2 DEF HeardSoFar, NextPhase
  <2> QED BY <1>1, <2>1, <2>2, <2>3, <2>5, <2>6 DEF Scanning
<1>19. ASSUME m.phase = 6
       PROVE  Scanning(w, h)
  <2>1. w.phase = 7 /\ w.pendX = m.pendX /\ w.pendY = m.pendY
    BY <1>1, <1>2, <1>19
  <2>2. h.given = s.given /\ h.read = s.read /\ h.nibbles = <<>> /\ h \in Scans
    BY <1>13, <2>1
  <2>3. UnderWay(w, h)
    <3>1. s.given[1] = s.read[1] + m.pendX /\ s.given[2] = s.read[2] + m.pendY
      BY <1>3, <1>19 DEF UnderWay
    <3> QED BY <2>1, <2>2, <3>1 DEF UnderWay
  <2>4. HeardSoFar(w, h)
    BY <2>1, <2>2 DEF HeardSoFar, NextPhase
  <2> QED BY <1>1, <2>1, <2>2, <2>3, <2>4 DEF Scanning
<1>20. Scanning(w, h)
  BY <1>6, <1>15, <1>16, <1>17, <1>18, <1>19
<1> QED BY <1>20 DEF w, h

-----------------------------------------------------------------------------
(* The steps of the mouse.                                                 *)

LEMMA JobGoesOn ==
  ASSUME NEW job, Selecting(job)
  PROVE  /\ \A n \in Int : Selecting([job EXCEPT !.fuel = n]) /\ [job EXCEPT !.fuel = n].port = job.port
         /\ job.writes # <<>> =>
              /\ Selecting([job EXCEPT !.writes = Tail(job.writes)])
              /\ [job EXCEPT !.writes = Tail(job.writes)].port = job.port
              /\ Head(job.writes) \in Int \X Nat
              /\ (Head(job.writes)[1] \div 64) % 2 = job.port
<1>1. /\ job \in [port : 0..1, writes : Seq(Int \X Nat), fuel : Int]
      /\ \A i \in DOMAIN job.writes : (job.writes[i][1] \div 64) % 2 = job.port
  BY DEF Selecting
<1>2. ASSUME NEW n \in Int
      PROVE  Selecting([job EXCEPT !.fuel = n]) /\ [job EXCEPT !.fuel = n].port = job.port
  <2> DEFINE k == [job EXCEPT !.fuel = n]
  <2>1. /\ k \in [port : 0..1, writes : Seq(Int \X Nat), fuel : Int]
        /\ k.port = job.port /\ k.writes = job.writes
    BY <1>1
  <2> HIDE DEF k
  <2>2. Selecting(k)
    BY <1>1, <2>1 DEF Selecting
  <2> QED BY <2>1, <2>2 DEF k
<1>3. ASSUME job.writes # <<>>
      PROVE  /\ Selecting([job EXCEPT !.writes = Tail(job.writes)])
             /\ [job EXCEPT !.writes = Tail(job.writes)].port = job.port
             /\ Head(job.writes) \in Int \X Nat
             /\ (Head(job.writes)[1] \div 64) % 2 = job.port
  <2>1. PICK ws \in Seq(Int \X Nat) : ws = job.writes
    BY <1>1
  <2>2. ws # <<>> /\ \A i \in 1..Len(ws) : (ws[i][1] \div 64) % 2 = job.port
    BY <1>1, <1>3, <2>1
  <2>3. Tail(ws) \in Seq(Int \X Nat) /\ Len(ws) \in Nat /\ Len(ws) >= 1 /\ Len(Tail(ws)) = Len(ws) - 1
    BY <2>2
  <2>4. Head(ws) = ws[1] /\ \A i \in 1..Len(Tail(ws)) : Tail(ws)[i] = ws[i + 1]
    BY <2>2
  <2>5. ws[1] \in Int \X Nat
    BY <2>3
  <2>6. PICK rest \in Seq(Int \X Nat) : rest = Tail(ws)
    BY <2>3
  <2>7. \A i \in DOMAIN rest : (rest[i][1] \div 64) % 2 = job.port
    <3>1. ASSUME NEW i \in 1..Len(rest) PROVE (rest[i][1] \div 64) % 2 = job.port
      <4>1. i + 1 \in 1..Len(ws) /\ rest[i] = ws[i + 1]
        BY <2>3, <2>4, <2>6
      <4> QED BY <2>2, <4>1
    <3>2. DOMAIN rest = 1..Len(rest)
      OBVIOUS
    <3> QED BY <3>1, <3>2
  <2> DEFINE k == [job EXCEPT !.writes = rest]
  <2>8. /\ k \in [port : 0..1, writes : Seq(Int \X Nat), fuel : Int]
        /\ k.port = job.port /\ k.writes = rest
    BY <1>1
  <2>9. [job EXCEPT !.writes = Tail(job.writes)] = k
    BY <2>1, <2>6
  <2> HIDE DEF k
  <2>10. Selecting(k)
    BY <2>7, <2>8 DEF Selecting
  <2>11. (ws[1][1] \div 64) % 2 = job.port
    BY <2>2, <2>3
  <2> QED BY <2>1, <2>4, <2>5, <2>8, <2>9, <2>10, <2>11
<1> QED BY <1>2, <1>3

\* A write of R#15: a phase is read, a scan starts afresh, or nothing moves.
LEMMA MouseWriteKeeps ==
  ASSUME MouseInv, MouseWrite PROVE MouseInv'
<1>1. Scanning(mouse, scan) /\ Selecting(mouseJob) /\ mouse \in Mice
  BY DEF MouseInv, Scanning
<1>2. PICK c \in Nat, r15 \in Int :
        /\ Head(mouseJob.writes)[2] = c /\ Head(mouseJob.writes)[1] = r15
        /\ (r15 \div 64) % 2 = mouseJob.port
  BY <1>1, JobGoesOn DEF MouseWrite
<1> DEFINE m == [mouse EXCEPT !.age = mouse.age + c]
           level == Pin8(r15, mouseJob.port)
           w == WritePin8(m, level)
           r == Resynced(m)
<1>3. mouseR15' = r15 /\ mouse' = w
  BY <1>2 DEF MouseWrite
<1>4. scan' = IF m.age > Timeout /\ scan.nibbles # <<>>
                THEN IF w.phase = 7 THEN Afresh(w) ELSE Heard(Afresh(r), w, r15)
                ELSE IF w.phase # m.phase THEN Heard(scan, w, r15) ELSE scan
  BY <1>2 DEF MouseWrite
<1>5. Selecting(mouseJob') /\ UNCHANGED mouseSnap
  BY <1>1, JobGoesOn DEF MouseWrite
<1>6. level \in 0..1
  BY DEF Pin8
<1>7. /\ m \in Mice /\ m.phase = mouse.phase /\ m.x = mouse.x /\ m.y = mouse.y
      /\ m.pendX = mouse.pendX /\ m.pendY = mouse.pendY
  <2>1. mouse.age + c \in Int
    BY <1>1, MiceFields
  <2> QED BY <1>1, <2>1 DEF Mice
<1> HIDE DEF m, level
<1>8. Scanning(m, scan)
  BY <1>1, <1>7, SameScan
<1>9. /\ r \in Mice /\ r.phase = (IF m.age > Timeout THEN 7 ELSE m.phase)
      /\ r.pendX = m.pendX /\ r.pendY = m.pendY
  BY <1>7, ResyncedIs
<1>10. /\ w \in Mice
       /\ \/ /\ w.phase = r.phase /\ w.x = m.x /\ w.y = m.y
             /\ w.pendX = m.pendX /\ w.pendY = m.pendY
          \/ \E n \in Mice :
               /\ n.phase = r.phase /\ n.x = m.x /\ n.y = m.y
               /\ n.pendX = m.pendX /\ n.pendY = m.pendY
               /\ w = AdvancePhase(n)
  BY <1>6, <1>7, WrittenIs
<1> HIDE DEF w, r
<1>11. ASSUME m.age > Timeout, scan.nibbles # <<>>
       PROVE  Scanning(w, scan')
  <2>1. r.phase = 7
    BY <1>9, <1>11
  <2>2. CASE w.phase = 7
    <3>1. Scanning(w, Afresh(w))
      BY <1>10, <2>2, AfreshIs
    <3> QED BY <1>4, <1>11, <2>2, <3>1
  <2>3. CASE w.phase # 7
    <3>1. PICK n \in Mice :
            /\ n.phase = 7 /\ n.pendX = r.pendX /\ n.pendY = r.pendY
            /\ w = AdvancePhase(n)
      BY <1>9, <1>10, <2>1, <2>3
    <3>2. Scanning(n, Afresh(r))
      BY <3>1, AfreshIs
    <3>3. Scanning(w, Heard(Afresh(r), w, r15))
      BY <1>2, <3>1, <3>2, PhaseGoesOn
    <3> QED BY <1>4, <1>11, <2>3, <3>3
  <2> QED BY <2>2, <2>3
<1>12. ASSUME ~(m.age > Timeout /\ scan.nibbles # <<>>)
       PROVE  Scanning(w, scan')
  <2>1. r.phase = m.phase
    <3>1. scan.nibbles = <<>> => m.phase = 7
      <4>1. Len(scan.nibbles) = NextPhase(m.phase) /\ m.phase \in 0..7
        BY <1>7, <1>8, MiceFields DEF Scanning, HeardSoFar
      <4> QED BY <4>1 DEF NextPhase
    <3> QED BY <1>9, <1>12, <3>1
  <2>2. CASE w.phase = m.phase
    <3>1. \A n \in Mice : AdvancePhase(n).phase # n.phase
      BY AdvancedIs, MiceFields DEF NextPhase
    <3>2. w.x = m.x /\ w.y = m.y /\ w.pendX = m.pendX /\ w.pendY = m.pendY
      BY <1>10, <2>1, <2>2, <3>1
    <3>3. Scanning(w, scan)
      BY <1>8, <1>10, <2>2, <3>2, SameScan
    <3> QED BY <1>4, <1>12, <2>2, <3>3
  <2>3. CASE w.phase # m.phase
    <3>1. PICK n \in Mice :
            /\ n.phase = m.phase /\ n.x = m.x /\ n.y = m.y
            /\ n.pendX = m.pendX /\ n.pendY = m.pendY
            /\ w = AdvancePhase(n)
      BY <1>10, <2>1, <2>3
    <3>2. Scanning(n, scan)
      BY <1>8, <3>1, SameScan
    <3>3. Scanning(w, Heard(scan, w, r15))
      BY <1>2, <3>1, <3>2, PhaseGoesOn
    <3> QED BY <1>4, <1>12, <2>3, <3>3
  <2> QED BY <2>2, <2>3
<1> QED BY <1>3, <1>5, <1>11, <1>12 DEF MouseInv

\* The host moves the mouse: what does not fit is dropped from the totals too.
LEMMA MouseMoveKeeps ==
  ASSUME MouseInv, MouseMove PROVE MouseInv'
<1>1. Scanning(mouse, scan) /\ Selecting(mouseJob) /\ mouse \in Mice
  BY DEF MouseInv, Scanning
<1>2. Selecting(mouseJob') /\ UNCHANGED mouseSnap
  <2>1. mouseJob.fuel - 1 \in Int
    BY <1>1 DEF Selecting
  <2>2. mouseJob' = [mouseJob EXCEPT !.fuel = mouseJob.fuel - 1] /\ UNCHANGED mouseSnap
    BY DEF MouseMove, HostStep
  <2> QED BY <1>1, <2>1, <2>2, JobGoesOn
<1>3. PICK d \in Motions :
        LET m == AddMotion(mouse, d[1], d[2])
        IN /\ mouse' = m
           /\ scan' = IF m.pendX = mouse.pendX + d[1] /\ m.pendY = mouse.pendY + d[2]
                        THEN [scan EXCEPT !.given = <<@[1] + d[1], @[2] + d[2]>>]
                        ELSE [Afresh(m) EXCEPT !.nibbles = scan.nibbles,
                                               !.given = IF Len(scan.nibbles) \in 1..3
                                                           THEN <<m.pendX + mouse.x, m.pendY + mouse.y>> ELSE @]
  BY Zenon DEF MouseMove
<1>4. d[1] \in Int /\ d[2] \in Int
  BY MouseAssumption
<1> DEFINE m == AddMotion(mouse, d[1], d[2])
<1>5. m \in Mice /\ m.phase = mouse.phase /\ m.x = mouse.x /\ m.y = mouse.y
  <2> DEFINE px == Clamped(mouse.pendX + d[1], MaxPending)
             py == Clamped(mouse.pendY + d[2], MaxPending)
  <2>1. px \in Pendings /\ py \in Pendings
    <3>1. mouse.pendX + d[1] \in Int /\ mouse.pendY + d[2] \in Int
      BY <1>1, <1>4, MiceFields, RangesAre
    <3> QED BY <3>1, ClampedIs
  <2>2. m = [mouse EXCEPT !.pendX = px, !.pendY = py]
    BY DEF AddMotion
  <2> HIDE DEF px, py
  <2>3. PICK m1 : m1 = [mouse EXCEPT !.pendX = px]
    OBVIOUS
  <2>4. m = [m1 EXCEPT !.pendY = py]
    BY <2>2, <2>3, Zenon
  <2>5. m1 \in Mice /\ m1.phase = mouse.phase /\ m1.x = mouse.x /\ m1.y = mouse.y
    BY <1>1, <2>1, <2>3 DEF Mice
  <2> HIDE DEF m
  <2> QED BY <2>1, <2>4, <2>5 DEF Mice
<1>6. mouse' = m
  BY <1>3
<1>7. scan' = IF m.pendX = mouse.pendX + d[1] /\ m.pendY = mouse.pendY + d[2]
                THEN [scan EXCEPT !.given = <<scan.given[1] + d[1], scan.given[2] + d[2]>>]
                ELSE [Afresh(m) EXCEPT !.nibbles = scan.nibbles,
                                       !.given = IF Len(scan.nibbles) \in 1..3
                                                   THEN <<m.pendX + mouse.x, m.pendY + mouse.y>>
                                                   ELSE [Afresh(m) EXCEPT !.nibbles = scan.nibbles].given]
  BY <1>3
<1> HIDE DEF m
<1>8. /\ mouse.phase \in 0..7 /\ mouse.pendX \in Int /\ mouse.pendY \in Int
      /\ m.x \in Int /\ m.y \in Int /\ m.pendX \in Int /\ m.pendY \in Int
  BY <1>1, <1>5, MiceFields, RangesAre
<1>9. /\ scan \in Scans /\ UnderWay(mouse, scan) /\ HeardSoFar(mouse, scan)
      /\ mouse.phase \in 4..6 => mouse.x = 0 /\ mouse.y = 0
  BY <1>1 DEF Scanning
<1>10. /\ scan.given[1] \in Int /\ scan.given[2] \in Int
       /\ scan.read[1] \in Int /\ scan.read[2] \in Int
  BY <1>9 DEF Scans
<1>11. ASSUME NEW s \in Scans, s.nibbles = scan.nibbles, UnderWay(m, s)
       PROVE  Scanning(m, s)
  <2>1. HeardSoFar(m, s)
    BY <1>5, <1>9, <1>11 DEF HeardSoFar
  <2> QED BY <1>5, <1>9, <1>11, <2>1 DEF Scanning
<1>12. ASSUME m.pendX = mouse.pendX + d[1], m.pendY = mouse.pendY + d[2]
       PROVE  Scanning(m, scan')
  <2>1. <<scan.given[1] + d[1], scan.given[2] + d[2]>> \in Int \X Int
    BY <1>4, <1>10
  <2>2. PICK g \in Int \X Int : g = <<scan.given[1] + d[1], scan.given[2] + d[2]>>
    BY <2>1
  <2>3. scan' = [scan EXCEPT !.given = g]
    BY <1>7, <1>12, <2>2
  <2>4. scan' \in Scans /\ scan'.nibbles = scan.nibbles /\ scan'.given = g /\ scan'.read = scan.read
    BY <1>9, <2>3 DEF Scans
  <2>5. scan'.given[1] = scan.given[1] + d[1] /\ scan'.given[2] = scan.given[2] + d[2]
    BY <2>2, <2>4
  <2>6. UnderWay(m, scan')
    <3>1. ASSUME mouse.phase \in 0..2
          PROVE  /\ scan'.given[1] = scan'.read[1] + m.pendX + m.x
                 /\ scan'.given[2] = scan'.read[2] + m.pendY + m.y
      <4>1. /\ scan.given[1] = scan.read[1] + mouse.pendX + mouse.x
            /\ scan.given[2] = scan.read[2] + mouse.pendY + mouse.y
        BY <1>9, <3>1 DEF UnderWay
      <4> QED BY <1>4, <1>5, <1>8, <1>10, <1>12, <2>4, <2>5, <4>1
    <3>2. ASSUME mouse.phase \in 3..7
          PROVE  /\ scan'.given[1] = scan'.read[1] + m.pendX
                 /\ scan'.given[2] = scan'.read[2] + m.pendY
      <4>1. scan.given[1] = scan.read[1] + mouse.pendX /\ scan.given[2] = scan.read[2] + mouse.pendY
        BY <1>9, <3>2 DEF UnderWay
      <4> QED BY <1>4, <1>8, <1>10, <1>12, <2>4, <2>5, <4>1
    <3> QED BY <1>5, <3>1, <3>2 DEF UnderWay
  <2> QED BY <1>11, <2>4, <2>6
<1>13. ASSUME ~(m.pendX = mouse.pendX + d[1] /\ m.pendY = mouse.pendY + d[2])
       PROVE  Scanning(m, scan')
  <2> DEFINE a == [Afresh(m) EXCEPT !.nibbles = scan.nibbles]
  <2>1. /\ Afresh(m) \in Scans /\ Afresh(m).given = <<m.pendX, m.pendY>> /\ Afresh(m).read = <<0, 0>>
    BY <1>8 DEF Afresh, Scans
  <2>2. PICK f \in Scans : f = Afresh(m)
    BY <2>1
  <2>3. a = [f EXCEPT !.nibbles = scan.nibbles]
    BY <2>2
  <2>4. a \in Scans /\ a.nibbles = scan.nibbles /\ a.given = f.given /\ a.read = f.read
    BY <1>9, <2>3 DEF Scans
  <2>5. <<m.pendX + mouse.x, m.pendY + mouse.y>> \in Int \X Int /\ <<m.pendX, m.pendY>> \in Int \X Int
    BY <1>5, <1>8
  <2>6. PICK g \in Int \X Int :
          g = IF Len(scan.nibbles) \in 1..3 THEN <<m.pendX + mouse.x, m.pendY + mouse.y>>
                                            ELSE <<m.pendX, m.pendY>>
    BY <2>5
  <2>7. scan' = [a EXCEPT !.given = IF Len(scan.nibbles) \in 1..3
                                      THEN <<m.pendX + mouse.x, m.pendY + mouse.y>> ELSE a.given]
    BY <1>7, <1>13
  <2> HIDE DEF a
  <2>8. scan' = [a EXCEPT !.given = g]
    BY <2>1, <2>2, <2>4, <2>6, <2>7
  <2>9. scan' \in Scans /\ scan'.nibbles = scan.nibbles /\ scan'.given = g /\ scan'.read = <<0, 0>>
    BY <2>1, <2>2, <2>4, <2>8 DEF Scans
  <2>10. Len(scan.nibbles) \in 1..3 <=> mouse.phase \in 0..2
    <3>1. Len(scan.nibbles) = NextPhase(mouse.phase) /\ mouse.phase \in 0..7
      BY <1>8, <1>9 DEF HeardSoFar
    <3> QED BY <3>1 DEF NextPhase
  <2>11. UnderWay(m, scan')
    <3>1. CASE mouse.phase \in 0..2
      <4>1. scan'.given = <<m.pendX + m.x, m.pendY + m.y>>
        BY <1>5, <2>6, <2>9, <2>10, <3>1
      <4> QED BY <1>5, <1>8, <2>9, <3>1, <4>1 DEF UnderWay
    <3>2. CASE mouse.phase \in 3..7
      <4>1. scan'.given = <<m.pendX, m.pendY>>
        BY <2>6, <2>9, <2>10, <3>2
      <4> QED BY <1>5, <1>8, <2>9, <3>2, <4>1 DEF UnderWay
    <3> QED BY <1>8, <3>1, <3>2
  <2> QED BY <1>11, <2>9, <2>11
<1> QED BY <1>2, <1>6, <1>12, <1>13 DEF MouseInv

\* A button changes the status alone.
LEMMA SetButtonIs ==
  ASSUME NEW m \in Mice, NEW bit \in Buttons, NEW pressed \in BOOLEAN
  PROVE  LET w == SetButton(m, bit, pressed) IN
         w \in Mice /\ w.phase = m.phase /\ w.x = m.x /\ w.y = m.y /\ w.pendX = m.pendX /\ w.pendY = m.pendY
<1> DEFINE b == m.status - (IF (m.status \div bit) % 2 = 1 THEN bit ELSE 0) + (IF pressed THEN 0 ELSE bit)
<1>1. b \in {0, 16, 32, 48}
  BY MiceFields DEF Buttons
<1>2. SetButton(m, bit, pressed) = [m EXCEPT !.status = b]
  BY DEF SetButton
<1> HIDE DEF b
<1> QED BY <1>1, <1>2 DEF Mice

LEMMA HostStepKeeps ==
  ASSUME Selecting(mouseJob), HostStep PROVE Selecting(mouseJob')
<1>1. mouseJob.fuel - 1 \in Int
  BY DEF Selecting
<1>2. mouseJob' = [mouseJob EXCEPT !.fuel = mouseJob.fuel - 1]
  BY DEF HostStep
<1> QED BY <1>1, <1>2, JobGoesOn

LEMMA MouseKeepsInv ==
  ASSUME MouseInv, [MouseNext]_mouseVars PROVE MouseInv'
<1>1. CASE MouseWrite
  BY <1>1, MouseWriteKeeps
<1>2. CASE MouseMove
  BY <1>2, MouseMoveKeeps
<1>3. CASE MouseButton
  <2>1. Scanning(mouse, scan) /\ Selecting(mouseJob) /\ mouse \in Mice
    BY DEF MouseInv, Scanning
  <2>2. PICK bit \in Buttons, pressed \in BOOLEAN : mouse' = SetButton(mouse, bit, pressed)
    BY <1>3 DEF MouseButton
  <2>3. Scanning(mouse', scan)
    BY <2>1, <2>2, SetButtonIs, SameScan
  <2>4. Selecting(mouseJob')
    BY <1>3, <2>1, HostStepKeeps DEF MouseButton
  <2> QED BY <1>3, <2>3, <2>4 DEF MouseInv, MouseButton
<1>4. CASE MouseSave
  <2>1. Selecting(mouseJob')
    BY <1>4, HostStepKeeps DEF MouseSave, MouseInv
  <2>2. mouseSnap'.mouse = mouse /\ mouseSnap'.scan = scan /\ UNCHANGED <<mouse, scan>>
    BY <1>4 DEF MouseSave
  <2> QED BY <2>1, <2>2 DEF MouseInv
<1>5. CASE MouseLoad
  <2>1. Selecting(mouseJob')
    BY <1>5, HostStepKeeps DEF MouseLoad, MouseInv
  <2>2. Scanning(mouseSnap.mouse, mouseSnap.scan)
    BY <1>5 DEF MouseInv, MouseLoad
  <2>3. Scanning(mouse', scan')
    BY <1>5, <2>2 DEF MouseLoad, MouseInv
  <2> QED BY <1>5, <2>1, <2>3 DEF MouseInv, MouseLoad
<1>6. CASE UNCHANGED mouseVars
  BY <1>6 DEF MouseInv, mouseVars
<1> QED BY <1>1, <1>2, <1>3, <1>4, <1>5, <1>6 DEF MouseNext

LEMMA MouseStarts ==
  ASSUME MouseInit PROVE MouseInv
<1>1. mouse \in Mice
  <2>1. 0 \in Deltas /\ 0 \in Pendings
    BY RangesAre
  <2> QED BY <2>1 DEF MouseInit, NewMouse, Mice
<1>2. Scanning(mouse, scan)
  BY <1>1, AfreshIs DEF MouseInit, NewMouse
<1>3. Selecting(mouseJob)
  BY MouseAssumption DEF MouseInit, Selecting
<1> QED BY <1>2, <1>3 DEF MouseInv, MouseInit

-----------------------------------------------------------------------------
(* The video chip of an MSX1: what every access keeps of the interrupt     *)
(* line and of the pair of control bytes.                                  *)

LEMMA TmsSteps ==
  ASSUME [ChipsNext]_chipVars
  PROVE  chosen' = chosen /\ (chosen = "tms" => [TmsNext]_tmsVars)
BY DEF ChipsNext, chipVars

LastPlace == 16383
Places14  == 0..LastPlace

TmsLine(t) == Bit(t.status, 7) /\ Bit(t.regs[1], 5)

TmsShape(t) ==
  /\ DOMAIN t = {"vram", "regs", "status", "addr", "first", "pending", "readBuf", "irq"}
  /\ DOMAIN t.regs = 0..7

TmsChip(t) ==
  /\ TmsShape(t)
  /\ t.status \in Byte /\ t.addr \in Places14 /\ t.first \in Byte /\ t.pending \in BOOLEAN
  /\ t.irq = TmsLine(t)

\* The addresses of 14 bits, by their bounds.
LEMMA Places14Are == \A n : n \in Places14 <=> n \in Int /\ 0 <= n /\ n <= 16383
<1>1. LastPlace \in Nat
  BY DEF LastPlace
<1>2. \A n : n \in Places14 <=> n \in Int /\ 0 <= n /\ n <= LastPlace
  BY <1>1 DEF Places14
<1> QED BY <1>2 DEF LastPlace

\* What a pair of bytes has done.
TmsLanded(t, b1, b2) ==
  LET a == (b2 % 64) * 256 + b1 IN
  /\ b2 > 127 => t.regs[b2 % 8] = And(b1, TmsRegMask[(b2 % 8) + 1])
  /\ t.addr = IF b2 < 64 THEN (a + 1) % 16384 ELSE a

\* The history of the pair is the latch of the chip: the first byte is in the pointer too.
TmsPaired(t, p) ==
  /\ p \in [bytes : Seq(Byte), done : BOOLEAN]
  /\ t.pending <=> Len(p.bytes) = 1
  /\ t.pending => t.first = p.bytes[1] /\ t.addr % 256 = p.bytes[1]
  /\ p.done => Len(p.bytes) = 2 /\ TmsLanded(t, p.bytes[1], p.bytes[2])

TmsInv ==
  /\ TmsChip(tms) /\ TmsPaired(tms, tmsPair)
  /\ "writes" \in DOMAIN tmsJob /\ tmsJob.writes \subseteq {0, 1} \X Byte
  /\ tmsSnap # <<>> => TmsChip(tmsSnap.tms) /\ TmsPaired(tmsSnap.tms, tmsSnap.pair)

\* The bits under an enable or a flag, as the masks of a test name them.
LEMMA MasksAreBits ==
  ASSUME NEW n
  PROVE  /\ And(n, 16) # 0 <=> Bit(n, 4)
         /\ And(n, 32) # 0 <=> Bit(n, 5)
         /\ And(n, 128) # 0 <=> Bit(n, 7)
BY DEF And, BitValue, Bit, Pow2

\* The status after a frame keeps its highest bit and stays a byte.
LEMMA FlagKept ==
  ASSUME NEW n \in Byte
  PROVE  /\ n % 32 \in Byte /\ ~Bit(n % 32, 7)
         /\ (n % 128) + 128 \in Byte /\ Bit((n % 128) + 128, 7)
         /\ And(n, 160) \in {0, 32, 128, 160}
         /\ Bit(And(n, 160), 7) = Bit(n, 7)
         /\ Or(n, 32) \in Byte /\ Bit(Or(n, 32), 7) = Bit(n, 7)
<1>1. n % 32 \in Byte /\ ~Bit(n % 32, 7) /\ (n % 128) + 128 \in Byte /\ Bit((n % 128) + 128, 7)
  BY DEF Byte, Bit, Pow2
<1>2. And(n, 160) = BitValue(Bit(n, 5), 5) + BitValue(Bit(n, 7), 7)
  BY DEF And, BitValue, Bit, Pow2
<1>3. And(n, 32) = BitValue(Bit(n, 5), 5)
  BY DEF And, BitValue, Bit, Pow2
<1>4. And(n, 160) \in {0, 32, 128, 160} /\ Bit(And(n, 160), 7) = Bit(n, 7)
  BY <1>2 DEF BitValue, Bit, Pow2
<1>5. Or(n, 32) \in Byte /\ Bit(Or(n, 32), 7) = Bit(n, 7)
  BY <1>3 DEF Or, BitValue, Bit, Pow2, Byte
<1> QED BY <1>1, <1>4, <1>5

\* update_irq leaves the line as its flag and enable have it.
LEMMA TmsIrqIs ==
  ASSUME NEW t, TmsShape(t), t.status \in Byte, t.addr \in Places14, t.first \in Byte, t.pending \in BOOLEAN
  PROVE  LET w == TmsIrq(t) IN
         /\ TmsChip(w) /\ w.regs = t.regs /\ w.addr = t.addr /\ w.first = t.first /\ w.pending = t.pending
<1> DEFINE w == TmsIrq(t)
<1>1. w = [t EXCEPT !.irq = TmsLine(t)]
  BY DEF TmsIrq, TmsLine
<1> HIDE DEF w
<1>2. /\ DOMAIN w = DOMAIN t /\ w.irq = TmsLine(t) /\ w.regs = t.regs /\ w.status = t.status
      /\ w.addr = t.addr /\ w.first = t.first /\ w.pending = t.pending
  BY <1>1 DEF TmsShape
<1>3. TmsLine(w) = TmsLine(t)
  BY <1>2 DEF TmsLine
<1>4. TmsShape(w)
  BY <1>2 DEF TmsShape
<1> QED BY <1>2, <1>3, <1>4 DEF TmsChip, w

\* What depends neither on the flags nor on the enables keeps the line.
LEMMA TmsSame ==
  ASSUME NEW t, TmsChip(t), NEW w, DOMAIN w = DOMAIN t, DOMAIN w.regs = 0..7, w.regs[1] = t.regs[1],
         w.status = t.status, w.irq = t.irq,
         w.addr \in Places14, w.first \in Byte, w.pending \in BOOLEAN
  PROVE  TmsChip(w)
<1>1. TmsShape(w)
  BY DEF TmsChip, TmsShape
<1>2. TmsLine(w) = TmsLine(t)
  BY DEF TmsLine
<1> QED BY <1>1, <1>2 DEF TmsChip

LEMMA TmsReplaced ==
  ASSUME NEW t, TmsShape(t), NEW ram, NEW a, NEW b, NEW p, NEW n
  PROVE  LET w == [t EXCEPT !.vram = ram, !.addr = a, !.first = b, !.pending = p, !.readBuf = n] IN
         /\ DOMAIN w = DOMAIN t /\ w.regs = t.regs /\ w.status = t.status /\ w.irq = t.irq
         /\ w.addr = a /\ w.first = b /\ w.pending = p
BY DEF TmsShape

LEMMA TmsRegisterIs ==
  ASSUME NEW t, TmsChip(t), NEW r \in 0..7, NEW b
  PROVE  LET w == TmsWriteRegister(t, r, b) IN
         /\ TmsChip(w)
         /\ w.regs[r] = And(b, TmsRegMask[r + 1])
         /\ w.addr = t.addr /\ w.pending = t.pending /\ w.first = t.first
<1> DEFINE m == And(b, TmsRegMask[r + 1])
           u == [t EXCEPT !.regs[r] = m]
           w == TmsWriteRegister(t, r, b)
<1>1. w = IF r = 1 THEN TmsIrq(u) ELSE u
  BY DEF TmsWriteRegister
<1> HIDE DEF m, w
<1>2. /\ DOMAIN u = DOMAIN t /\ DOMAIN u.regs = 0..7 /\ u.regs[r] = m
      /\ u.status = t.status /\ u.addr = t.addr /\ u.pending = t.pending /\ u.first = t.first
      /\ u.irq = t.irq
      /\ r # 1 => u.regs[1] = t.regs[1]
  BY DEF TmsChip, TmsShape
<1> HIDE DEF u
<1>3. t.status \in Byte /\ t.addr \in Places14 /\ t.first \in Byte /\ t.pending \in BOOLEAN
  BY DEF TmsChip
<1>4. CASE r = 1
  <2>1. TmsShape(u)
    BY <1>2 DEF TmsChip, TmsShape
  <2> QED BY <1>1, <1>2, <1>3, <1>4, <2>1, TmsIrqIs DEF w, m
<1>5. CASE r # 1
  <2>1. TmsChip(u)
    BY <1>2, <1>3, <1>5, TmsSame
  <2> QED BY <1>1, <1>2, <1>5, <2>1 DEF w, m
<1> QED BY <1>4, <1>5

\* The pointer goes on, within VRAM.
LEMMA TmsAdvancedIs ==
  ASSUME NEW t, TmsChip(t)
  PROVE  LET w == TmsAdvanced(t) IN
         /\ TmsChip(w) /\ w.addr = (t.addr + 1) % 16384
         /\ w.pending = t.pending /\ w.first = t.first /\ w.regs = t.regs
<1>1. t.addr \in Places14 /\ t.first \in Byte /\ t.pending \in BOOLEAN /\ TmsShape(t)
  BY DEF TmsChip
<1> DEFINE a == (t.addr + 1) % 16384
           w == TmsAdvanced(t)
<1>2. a \in Places14
  BY <1>1, Places14Are
<1>3. w = [t EXCEPT !.addr = a]
  BY DEF TmsAdvanced
<1> HIDE DEF a, w
<1>4. /\ DOMAIN w = DOMAIN t /\ w.regs = t.regs /\ w.status = t.status /\ w.irq = t.irq
      /\ w.addr = a /\ w.first = t.first /\ w.pending = t.pending
  BY <1>1, <1>3 DEF TmsShape
<1>5. TmsChip(w)
  BY <1>1, <1>2, <1>4, TmsSame DEF TmsShape
<1> QED BY <1>4, <1>5 DEF w, a

\* The first byte of a pair waits, in the latch and in the pointer.
LEMMA TmsFirstByteIs ==
  ASSUME NEW t, TmsChip(t), ~t.pending, NEW b \in Byte
  PROVE  LET w == TmsWriteControl(t, b) IN
         TmsChip(w) /\ w.pending /\ w.first = b /\ w.addr % 256 = b
<1> DEFINE a == (t.addr \div 256) * 256 + b
           w == TmsWriteControl(t, b)
<1>1. t.addr \in Places14 /\ TmsShape(t)
  BY DEF TmsChip
<1>2. a \in Places14 /\ a % 256 = b
  <2>1. \A n \in Int : 0 <= n /\ n <= 16383 => 0 <= n \div 256 /\ n \div 256 <= 63
    OBVIOUS
  <2>2. PICK k \in Int : k = t.addr \div 256 /\ 0 <= k /\ k <= 63
    BY <1>1, <2>1, Places14Are
  <2>3. k * 256 + b \in Int /\ 0 <= k * 256 + b /\ k * 256 + b <= 16383 /\ (k * 256 + b) % 256 = b
    BY <2>2 DEF Byte
  <2> QED BY <2>2, <2>3, Places14Are
<1>3. w = [t EXCEPT !.first = b, !.pending = TRUE, !.addr = a]
  BY DEF TmsWriteControl
<1> HIDE DEF a, w
<1>4. /\ DOMAIN w = DOMAIN t /\ w.regs = t.regs /\ w.status = t.status /\ w.irq = t.irq
      /\ w.addr = a /\ w.first = b /\ w.pending = TRUE
  BY <1>1, <1>3 DEF TmsShape
<1>5. TmsChip(w)
  BY <1>1, <1>2, <1>4, TmsSame DEF TmsShape
<1> QED BY <1>2, <1>4, <1>5 DEF w

\* The second byte does what the pair names.
LEMMA TmsSecondByteIs ==
  ASSUME NEW t, TmsChip(t), t.pending, t.addr % 256 = t.first, NEW b \in Byte
  PROVE  LET w == TmsWriteControl(t, b) IN
         TmsChip(w) /\ ~w.pending /\ TmsLanded(w, t.first, b)
<1> DEFINE a == (b % 64) * 256 + t.first
           w == TmsWriteControl(t, b)
<1>1. t.addr \in Places14 /\ TmsShape(t) /\ t.first \in Byte
  BY DEF TmsChip
<1>2. a \in Places14
  <2>1. a \in Int /\ 0 <= a /\ a <= 16383
    BY <1>1 DEF Byte
  <2> QED BY <2>1, Places14Are
<1>3. w = TmsSecondByte(t, b)
  BY DEF TmsWriteControl
<1>4. PICK u : u = TmsHighByte(t, b)
  OBVIOUS
<1>5. ASSUME b > 127, ~(b \in 64..127), ~(b < 64)
      PROVE  w = TmsWriteRegister(u, b % 8, t.first)
  BY <1>3, <1>4, <1>5, Zenon DEF TmsSecondByte
<1>6. ASSUME ~(b > 127), b \in 64..127, ~(b < 64)
      PROVE  w = [u EXCEPT !.addr = a]
  BY <1>3, <1>4, <1>6, Zenon DEF TmsSecondByte
<1>7. ASSUME ~(b > 127), ~(b \in 64..127), b < 64
      PROVE  w = TmsAdvanced([u EXCEPT !.addr = a, !.readBuf = TmsVram(t, a)])
  BY <1>3, <1>4, <1>7, Zenon DEF TmsSecondByte
<1> HIDE DEF w, a
<1>8. /\ DOMAIN u = DOMAIN t /\ u.regs = t.regs /\ u.status = t.status /\ u.irq = t.irq
      /\ u.addr = a /\ u.first = t.first /\ u.pending = FALSE
  <2>1. u = [t EXCEPT !.pending = FALSE, !.addr = (b % 64) * 256 + (@ % 256)]
    BY <1>4 DEF TmsHighByte
  <2> QED BY <1>1, <2>1 DEF TmsShape, a
<1>9. TmsChip(u) /\ TmsShape(u)
  BY <1>1, <1>2, <1>8, TmsSame DEF TmsShape
<1>10. ASSUME NEW n, NEW x, x = [u EXCEPT !.addr = a, !.readBuf = n] \/ x = [u EXCEPT !.addr = a]
       PROVE  TmsChip(x) /\ ~x.pending /\ x.addr = a
  <2>1. /\ DOMAIN x = DOMAIN u /\ x.regs = u.regs /\ x.status = u.status /\ x.irq = u.irq
        /\ x.addr = a /\ x.first = u.first /\ x.pending = FALSE
    BY <1>8, <1>9, <1>10 DEF TmsShape
  <2> QED BY <1>1, <1>2, <1>8, <1>9, <2>1, TmsSame DEF TmsShape
<1>11. b > 127 \/ b \in 64..127 \/ b < 64
  BY DEF Byte
<1>12. CASE b > 127
  <2>1. b % 8 \in 0..7 /\ ~(b < 64) /\ ~(b \in 64..127)
    BY <1>12 DEF Byte
  <2>2. w = TmsWriteRegister(u, b % 8, t.first)
    BY <1>5, <1>12, <2>1
  <2>3. PICK r \in 0..7 : r = b % 8
    BY <2>1
  <2>4. w = TmsWriteRegister(u, r, t.first)
    BY <2>2, <2>3
  <2>5. /\ TmsChip(w) /\ ~w.pending /\ w.addr = a
        /\ w.regs[r] = And(t.first, TmsRegMask[r + 1])
    <3>1. PICK f : f = t.first
      OBVIOUS
    <3>2. /\ TmsChip(TmsWriteRegister(u, r, f))
          /\ TmsWriteRegister(u, r, f).regs[r] = And(f, TmsRegMask[r + 1])
          /\ TmsWriteRegister(u, r, f).addr = u.addr
          /\ TmsWriteRegister(u, r, f).pending = u.pending
      BY <1>9, TmsRegisterIs
    <3> QED BY <1>8, <2>4, <3>1, <3>2, Zenon
  <2>6. w.regs[b % 8] = And(t.first, TmsRegMask[(b % 8) + 1])
    BY <2>3, <2>5
  <2> QED BY <2>1, <2>5, <2>6 DEF TmsLanded, w, a
<1>13. CASE b \in 64..127
  <2>1. ~(b > 127) /\ ~(b < 64)
    BY <1>13
  <2>2. TmsChip(w) /\ ~w.pending /\ w.addr = a
    BY <1>6, <1>10, <1>13, <2>1, Zenon
  <2> QED BY <2>1, <2>2 DEF TmsLanded, w, a
<1>14. CASE b < 64
  <2>1. ~(b > 127) /\ ~(b \in 64..127)
    BY <1>14 DEF Byte
  <2>2. PICK x : x = [u EXCEPT !.addr = a, !.readBuf = TmsVram(t, a)]
    OBVIOUS
  <2>3. TmsChip(x) /\ ~x.pending /\ x.addr = a
    BY <1>10, <2>2, Zenon
  <2>4. w = TmsAdvanced(x)
    BY <1>7, <1>14, <2>1, <2>2, Zenon
  <2>5. TmsChip(w) /\ ~w.pending /\ w.addr = (a + 1) % 16384
    BY <2>3, <2>4, TmsAdvancedIs
  <2> QED BY <1>14, <2>1, <2>5 DEF TmsLanded, w, a
<1> QED BY <1>11, <1>12, <1>13, <1>14

\* Any access of VRAM or of the status ends a pair.
LEMMA TmsAccessIs ==
  ASSUME NEW t, TmsChip(t)
  PROVE  /\ \A b : TmsChip(TmsWriteData(t, b)) /\ ~TmsWriteData(t, b).pending
         /\ TmsChip(TmsReadData(t)) /\ ~TmsReadData(t).pending
         /\ TmsChip(TmsReadStatus(t)) /\ ~TmsReadStatus(t).pending
<1>0. TmsShape(t) /\ t.status \in Byte /\ t.addr \in Places14 /\ t.first \in Byte
  BY DEF TmsChip
<1>1. ASSUME NEW x, NEW d, NEW c,
             \/ x = [t EXCEPT !.vram = d, !.readBuf = c, !.pending = FALSE]
             \/ x = [t EXCEPT !.readBuf = c, !.pending = FALSE]
      PROVE  TmsChip(x) /\ ~x.pending
  <2>1. /\ DOMAIN x = DOMAIN t /\ x.regs = t.regs /\ x.status = t.status /\ x.irq = t.irq
        /\ x.addr = t.addr /\ x.first = t.first /\ x.pending = FALSE
    BY <1>0, <1>1 DEF TmsShape
  <2> QED BY <1>0, <2>1, TmsSame DEF TmsShape
<1>2. ASSUME NEW b PROVE TmsChip(TmsWriteData(t, b)) /\ ~TmsWriteData(t, b).pending
  <2>1. PICK d : d = IF t.addr \in DOMAIN t.vram THEN [t.vram EXCEPT ![t.addr] = b] ELSE t.vram
    OBVIOUS
  <2>2. PICK x : x = [t EXCEPT !.vram = d, !.readBuf = b, !.pending = FALSE]
    OBVIOUS
  <2>3. TmsWriteData(t, b) = TmsAdvanced(x)
    BY <2>1, <2>2, Zenon DEF TmsWriteData
  <2>4. TmsChip(x) /\ ~x.pending
    BY <1>1, <2>2, Zenon
  <2> QED BY <2>3, <2>4, TmsAdvancedIs
<1>3. TmsChip(TmsReadData(t)) /\ ~TmsReadData(t).pending
  <2>1. PICK x : x = [t EXCEPT !.readBuf = TmsVram(t, t.addr), !.pending = FALSE]
    OBVIOUS
  <2>2. TmsReadData(t) = TmsAdvanced(x)
    BY <2>1, Zenon DEF TmsReadData
  <2>3. TmsChip(x) /\ ~x.pending
    BY <1>1, <2>1, Zenon
  <2> QED BY <2>2, <2>3, TmsAdvancedIs
<1>4. TmsChip(TmsReadStatus(t)) /\ ~TmsReadStatus(t).pending
  <2> DEFINE u == [t EXCEPT !.status = t.status % 32, !.pending = FALSE]
  <2>1. TmsReadStatus(t) = TmsIrq(u)
    BY DEF TmsReadStatus
  <2>2. t.status % 32 \in Byte
    BY <1>0, FlagKept
  <2>3. /\ TmsShape(u) /\ u.status = t.status % 32 /\ u.addr = t.addr /\ u.first = t.first
        /\ u.pending = FALSE
    BY <1>0 DEF TmsShape
  <2> HIDE DEF u
  <2> QED BY <1>0, <2>1, <2>2, <2>3, TmsIrqIs
<1> QED BY <1>2, <1>3, <1>4

\* The blanking and the sprites of a frame: the flag rises with the line, and a frame
\* of sprites keeps it; neither touches a pair.
LEMMA TmsFrameIs ==
  ASSUME NEW t, TmsChip(t), NEW w,
         \/ w = TmsBeginVblank(t)
         \/ \E fifth, hit \in BOOLEAN : w = TmsRendered(t, fifth, hit)
  PROVE  /\ TmsChip(w) /\ w.regs = t.regs /\ w.addr = t.addr
         /\ w.first = t.first /\ w.pending = t.pending
<1>1. TmsShape(t) /\ t.status \in Byte /\ t.addr \in Places14 /\ t.first \in Byte /\ t.pending \in BOOLEAN
  BY DEF TmsChip
<1>2. CASE w = TmsBeginVblank(t)
  <2>1. PICK n \in Byte : n = (t.status % 128) + 128
    BY <1>1, FlagKept
  <2>2. PICK u : u = [t EXCEPT !.status = n]
    OBVIOUS
  <2>3. w = TmsIrq(u)
    BY <1>2, <2>1, <2>2, Zenon DEF TmsBeginVblank
  <2>4. /\ TmsShape(u) /\ u.status = n /\ u.addr = t.addr /\ u.first = t.first
        /\ u.pending = t.pending /\ u.regs = t.regs
    BY <1>1, <2>2 DEF TmsShape
  <2> QED BY <1>1, <2>3, <2>4, TmsIrqIs
<1>3. ASSUME NEW fifth \in BOOLEAN, NEW hit \in BOOLEAN, w = TmsRendered(t, fifth, hit)
      PROVE  /\ TmsChip(w) /\ w.regs = t.regs /\ w.addr = t.addr
             /\ w.first = t.first /\ w.pending = t.pending
  <2> DEFINE s == IF fifth THEN And(t.status, 160) + 64 + 9 ELSE t.status
  <2>1. s \in Byte /\ Bit(s, 7) = Bit(t.status, 7)
    <3>1. \A n \in {0, 32, 128, 160} : n + 64 + 9 \in Byte /\ Bit(n + 64 + 9, 7) = Bit(n, 7)
      BY DEF Byte, Bit, Pow2
    <3>2. And(t.status, 160) \in {0, 32, 128, 160} /\ Bit(And(t.status, 160), 7) = Bit(t.status, 7)
      BY <1>1, FlagKept
    <3> QED BY <1>1, <3>1, <3>2
  <2>2. PICK n \in Byte : n = (IF hit THEN Or(s, 32) ELSE s) /\ Bit(n, 7) = Bit(t.status, 7)
    BY <2>1, FlagKept
  <2>3. w = [t EXCEPT !.status = n]
    BY <1>3, <2>2, Zenon DEF TmsRendered
  <2>4. /\ DOMAIN w = DOMAIN t /\ w.status = n /\ w.addr = t.addr /\ w.first = t.first
        /\ w.pending = t.pending /\ w.regs = t.regs /\ w.irq = t.irq
    BY <1>1, <2>3 DEF TmsShape
  <2>5. TmsShape(w) /\ TmsLine(w) = TmsLine(t)
    BY <1>1, <2>2, <2>4 DEF TmsShape, TmsLine
  <2>6. w.irq = TmsLine(w)
    BY <2>4, <2>5 DEF TmsChip
  <2> QED BY <1>1, <2>4, <2>5, <2>6 DEF TmsChip
<1> QED BY <1>2, <1>3

LEMMA TmsNewIs ==
  ASSUME NEW vram PROVE TmsChip(NewTms(vram)) /\ ~NewTms(vram).pending
<1> DEFINE w == NewTms(vram)
<1>1. /\ TmsShape(w) /\ w.status = 0 /\ w.addr = 0 /\ w.first = 0 /\ w.pending = FALSE /\ w.irq = FALSE
  BY DEF NewTms, TmsShape
<1>2. ~Bit(0, 7)
  BY DEF Bit, Pow2
<1> HIDE DEF w
<1>3. w.irq = TmsLine(w)
  BY <1>1, <1>2 DEF TmsLine
<1>4. w.status \in Byte /\ w.addr \in Places14 /\ w.first \in Byte /\ w.pending \in BOOLEAN
  <2>1. 0 \in Places14 /\ 0 \in Byte
    BY Places14Are DEF Byte
  <2> QED BY <1>1, <2>1
<1> QED BY <1>1, <1>3, <1>4 DEF TmsChip, w

LEMMA TmsResetIs ==
  ASSUME NEW t, TmsChip(t) PROVE TmsChip(TmsResetChip(t)) /\ ~TmsResetChip(t).pending
<1> DEFINE w == TmsResetChip(t)
<1>1. TmsShape(t)
  BY DEF TmsChip
<1>2. /\ TmsShape(w) /\ w.status = 0 /\ w.addr = 0 /\ w.first = 0 /\ w.pending = FALSE /\ w.irq = FALSE
  BY <1>1 DEF TmsResetChip, TmsShape
<1>3. ~Bit(0, 7)
  BY DEF Bit, Pow2
<1> HIDE DEF w
<1>4. w.irq = TmsLine(w)
  BY <1>2, <1>3 DEF TmsLine
<1>5. w.status \in Byte /\ w.addr \in Places14 /\ w.first \in Byte /\ w.pending \in BOOLEAN
  <2>1. 0 \in Places14 /\ 0 \in Byte
    BY Places14Are DEF Byte
  <2> QED BY <1>2, <2>1
<1> QED BY <1>2, <1>4, <1>5 DEF TmsChip, w

\* A load gives the pair that was saved.
LEMMA TmsRestoredIs ==
  ASSUME NEW t, TmsChip(t)
  PROVE  LET w == TmsRestored(t) IN
         /\ TmsChip(w) /\ w.regs = t.regs /\ w.addr = t.addr /\ w.pending = t.pending
         /\ t.pending => w.first = t.first
<1>1. TmsShape(t) /\ t.status \in Byte /\ t.addr \in Places14 /\ t.first \in Byte /\ t.pending \in BOOLEAN
  BY DEF TmsChip
<1>2. PICK b \in Byte : b = IF t.pending THEN t.first ELSE 0
  BY <1>1 DEF Byte
<1>3. PICK u : u = [t EXCEPT !.first = b]
  OBVIOUS
<1>4. TmsRestored(t) = TmsIrq(u)
  BY <1>2, <1>3, Zenon DEF TmsRestored
<1>5. /\ TmsShape(u) /\ u.status = t.status /\ u.addr = t.addr /\ u.first = b
      /\ u.pending = t.pending /\ u.regs = t.regs
  BY <1>1, <1>3 DEF TmsShape
<1> QED BY <1>1, <1>2, <1>4, <1>5, TmsIrqIs

\* What the frame, a save or a load leaves of a pair.
LEMMA TmsPairKept ==
  ASSUME NEW t, NEW p, TmsPaired(t, p), NEW w, w.regs = t.regs, w.addr = t.addr,
         w.pending = t.pending, t.pending => w.first = t.first
  PROVE  TmsPaired(w, p)
<1>1. p.done => TmsLanded(w, p.bytes[1], p.bytes[2])
  BY DEF TmsPaired, TmsLanded
<1> QED BY <1>1 DEF TmsPaired

LEMMA TmsNoPairIs ==
  ASSUME NEW t, ~t.pending PROVE TmsPaired(t, TmsNoPair)
BY DEF TmsPaired, TmsNoPair

LEMMA AppendIs ==
  ASSUME NEW S, NEW c \in Seq(S), NEW b \in S
  PROVE  /\ Append(c, b) \in Seq(S) /\ Len(Append(c, b)) = Len(c) + 1
         /\ Append(c, b)[Len(c) + 1] = b
         /\ \A i \in 1..Len(c) : Append(c, b)[i] = c[i]
OBVIOUS

LEMMA TmsWrite99Keeps ==
  ASSUME TmsInv, TmsWrite99 PROVE TmsChip(tms') /\ TmsPaired(tms', tmsPair')
<1>1. PICK b \in Byte :
        /\ tms' = TmsWriteControl(tms, b)
        /\ tmsPair' = IF Len(tmsPair.bytes) = 1
                        THEN [bytes |-> Append(tmsPair.bytes, b), done |-> TRUE]
                        ELSE [bytes |-> <<b>>, done |-> FALSE]
  <2>1. PICK x \in tmsJob.writes :
          /\ x[1] = 1 /\ tms' = TmsWriteControl(tms, x[2])
          /\ tmsPair' = IF Len(tmsPair.bytes) = 1
                          THEN [bytes |-> Append(tmsPair.bytes, x[2]), done |-> TRUE]
                          ELSE [bytes |-> <<x[2]>>, done |-> FALSE]
    BY DEF TmsWrite99
  <2>2. x[2] \in Byte
    BY DEF TmsInv
  <2> QED BY <2>1, <2>2
<1>2. TmsChip(tms) /\ TmsPaired(tms, tmsPair)
  BY DEF TmsInv
<1>3. CASE tms.pending
  <2>1. PICK c \in Seq(Byte) : c = tmsPair.bytes /\ Len(c) = 1 /\ c[1] = tms.first /\ tms.addr % 256 = tms.first
    BY <1>2, <1>3 DEF TmsPaired
  <2>2. TmsChip(tms') /\ ~tms'.pending /\ TmsLanded(tms', tms.first, b)
    BY <1>1, <1>2, <1>3, <2>1, TmsSecondByteIs
  <2>3. PICK d \in Seq(Byte) : d = Append(c, b) /\ Len(d) = 2 /\ d[1] = c[1] /\ d[2] = b
    <3>1. Append(c, b) \in Seq(Byte) /\ Len(Append(c, b)) = Len(c) + 1
      BY AppendIs
    <3>2. Len(c) = 1
      BY <2>1
    <3>3. Append(c, b)[1] = c[1] /\ Append(c, b)[2] = b
      <4>1. Append(c, b)[Len(c) + 1] = b /\ \A i \in 1..Len(c) : Append(c, b)[i] = c[i]
        BY AppendIs
      <4>2. Len(c) + 1 = 2 /\ 1 \in 1..Len(c)
        BY <3>2
      <4> QED BY <4>1, <4>2
    <3>4. Len(Append(c, b)) = 2
      BY <3>1, <3>2
    <3> QED BY <3>1, <3>3, <3>4, Zenon
  <2>4. tmsPair' = [bytes |-> d, done |-> TRUE]
    BY <1>1, <2>1, <2>3
  <2>5. TmsLanded(tms', d[1], d[2])
    BY <2>1, <2>2, <2>3
  <2>6. tmsPair'.bytes = d /\ tmsPair'.done = TRUE /\ tmsPair' \in [bytes : Seq(Byte), done : BOOLEAN]
    BY <2>4
  <2>7. TmsPaired(tms', tmsPair')
    BY <2>2, <2>3, <2>5, <2>6 DEF TmsPaired
  <2> QED BY <2>2, <2>7
<1>4. CASE ~tms.pending
  <2>1. Len(tmsPair.bytes) # 1
    BY <1>2, <1>4 DEF TmsPaired
  <2>2. /\ TmsChip(tms') /\ tms'.pending /\ tms'.first = b /\ tms'.addr % 256 = b
    BY <1>1, <1>2, <1>4, TmsFirstByteIs
  <2>3. PICK d \in Seq(Byte) : d = <<b>> /\ Len(d) = 1 /\ d[1] = b
    <3>1. <<b>> \in Seq(Byte) /\ Len(<<b>>) = 1 /\ <<b>>[1] = b
      OBVIOUS
    <3> QED BY <3>1, Zenon
  <2>4. tmsPair' = [bytes |-> d, done |-> FALSE]
    BY <1>1, <2>1, <2>3
  <2>5. tmsPair'.bytes = d /\ tmsPair'.done = FALSE /\ tmsPair' \in [bytes : Seq(Byte), done : BOOLEAN]
    BY <2>4
  <2>6. TmsPaired(tms', tmsPair')
    BY <2>2, <2>3, <2>5 DEF TmsPaired
  <2> QED BY <2>2, <2>6
<1> QED BY <1>3, <1>4

LEMMA TmsKeepsInv ==
  ASSUME TmsInv, [TmsNext]_tmsVars PROVE TmsInv'
<1> USE DEF TmsInv
<1>1. TmsStep => "writes" \in DOMAIN tmsJob' /\ tmsJob'.writes \subseteq {0, 1} \X Byte
  BY DEF TmsStep
<1>2. ASSUME TmsStep, UNCHANGED tmsSnap, TmsChip(tms'), TmsPaired(tms', tmsPair') PROVE TmsInv'
  BY <1>1, <1>2
<1>3. CASE TmsWrite98
  <2>1. TmsChip(tms') /\ ~tms'.pending
    BY <1>3, TmsAccessIs DEF TmsWrite98
  <2>2. TmsPaired(tms', tmsPair')
    BY <1>3, <2>1, TmsNoPairIs DEF TmsWrite98
  <2> QED BY <1>2, <1>3, <2>1, <2>2 DEF TmsWrite98
<1>4. CASE TmsWrite99
  BY <1>2, <1>4, TmsWrite99Keeps DEF TmsWrite99
<1>5. CASE TmsRead
  <2>1. TmsChip(tms') /\ ~tms'.pending
    BY <1>5, TmsAccessIs DEF TmsRead
  <2>2. TmsPaired(tms', tmsPair')
    BY <1>5, <2>1, TmsNoPairIs DEF TmsRead
  <2> QED BY <1>2, <1>5, <2>1, <2>2 DEF TmsRead
<1>6. CASE TmsFrame
  <2>1. /\ TmsChip(tms') /\ tms'.regs = tms.regs /\ tms'.addr = tms.addr
        /\ tms'.first = tms.first /\ tms'.pending = tms.pending
    BY <1>6, TmsFrameIs DEF TmsFrame
  <2>2. TmsPaired(tms', tmsPair')
    BY <1>6, <2>1, TmsPairKept DEF TmsFrame
  <2> QED BY <1>2, <1>6, <2>1, <2>2 DEF TmsFrame
<1>7. CASE TmsSave
  <2>1. tmsSnap'.tms = tms /\ tmsSnap'.pair = tmsPair /\ UNCHANGED <<tms, tmsPair>>
    BY <1>7 DEF TmsSave
  <2> QED BY <1>1, <1>7, <2>1 DEF TmsSave
<1>8. CASE TmsLoad
  <2>1. TmsChip(tmsSnap.tms) /\ TmsPaired(tmsSnap.tms, tmsSnap.pair)
    BY <1>8 DEF TmsLoad
  <2>2. /\ TmsChip(tms') /\ tms'.regs = tmsSnap.tms.regs /\ tms'.addr = tmsSnap.tms.addr
        /\ tms'.pending = tmsSnap.tms.pending
        /\ tmsSnap.tms.pending => tms'.first = tmsSnap.tms.first
    BY <1>8, <2>1, TmsRestoredIs DEF TmsLoad
  <2>3. TmsPaired(tms', tmsPair')
    BY <1>8, <2>1, <2>2, TmsPairKept DEF TmsLoad
  <2> QED BY <1>2, <1>8, <2>2, <2>3 DEF TmsLoad
<1>9. CASE TmsReset
  <2>1. TmsChip(tms') /\ ~tms'.pending
    BY <1>9, TmsResetIs DEF TmsReset
  <2>2. TmsPaired(tms', tmsPair')
    BY <1>9, <2>1, TmsNoPairIs DEF TmsReset
  <2> QED BY <1>2, <1>9, <2>1, <2>2 DEF TmsReset
<1>10. CASE UNCHANGED tmsVars
  BY <1>10 DEF tmsVars
<1> QED BY <1>3, <1>4, <1>5, <1>6, <1>7, <1>8, <1>9, <1>10 DEF TmsNext

LEMMA TmsStarts ==
  ASSUME TmsInit PROVE TmsInv
<1>1. /\ tmsJob \in TmsJobs /\ tms = tmsJob.chip /\ tmsSnap = <<>> /\ tmsPair = TmsNoPair
  BY DEF TmsInit
<1>2. /\ "writes" \in DOMAIN tmsJob /\ tms = NewTms(tms.vram) /\ tmsJob.writes \subseteq {0, 1} \X Byte
  BY <1>1, TmsAssumption
<1>3. TmsChip(tms) /\ ~tms.pending
  BY <1>2, TmsNewIs
<1> QED BY <1>1, <1>2, <1>3, TmsNoPairIs DEF TmsInv

LEMMA TmsInvIsGood ==
  ASSUME TmsInv PROVE TmsIrqFollowsFlags /\ TmsPairLands
<1>1. TmsChip(tms) /\ TmsPaired(tms, tmsPair)
  BY DEF TmsInv
<1>2. TmsIrqFollowsFlags
  <2>1. tms.irq = TmsLine(tms)
    BY <1>1 DEF TmsChip
  <2> QED BY <2>1, MasksAreBits DEF TmsIrqFollowsFlags, TmsLine
<1>3. TmsPairLands
  BY <1>1 DEF TmsPaired, TmsLanded, TmsPairLands
<1> QED BY <1>2, <1>3

-----------------------------------------------------------------------------
(* The V9938. The command engine changes VRAM, its own fields and, of the  *)
(* command registers, the colour: the line and the pair do not depend on   *)
(* them.                                                                   *)

VdpFields == {"regs", "status", "fh", "irq", "addr", "first", "pending", "cmd", "code"}

VdpShape(v) == VdpFields \subseteq DOMAIN v /\ DOMAIN v.regs = 0..27 /\ DOMAIN v.cmd = 0..14

Keeps(v, w) ==
  /\ DOMAIN w = DOMAIN v /\ w.regs = v.regs /\ w.status = v.status /\ w.fh = v.fh /\ w.irq = v.irq
  /\ w.addr = v.addr /\ w.first = v.first /\ w.pending = v.pending
  /\ DOMAIN w.cmd = DOMAIN v.cmd /\ \A i \in 0..14 : i # 12 => w.cmd[i] = v.cmd[i]

LEMMA KeepsShape ==
  ASSUME NEW v, VdpShape(v), NEW w, Keeps(v, w) PROVE VdpShape(w)
BY DEF VdpShape, Keeps

LEMMA KeepsOn ==
  /\ \A v : Keeps(v, v)
  /\ \A u, v, w : Keeps(u, v) /\ Keeps(v, w) => Keeps(u, w)
BY DEF Keeps

\* The parts of the engine, by the fields that each of them sets.
LEMMA EngineFields ==
  ASSUME NEW v, VdpShape(v), NEW a, NEW b, NEW c, NEW d, NEW e, NEW f, NEW g, NEW h, NEW k, NEW l
  PROVE  /\ Keeps(v, [v EXCEPT !.vram = a])
         /\ Keeps(v, [v EXCEPT !.cmd[12] = a])
         /\ Keeps(v, [v EXCEPT !.status8 = a, !.status9 = b, !.bd = c])
         /\ Keeps(v, [v EXCEPT !.active = a, !.ce = b, !.remaining = c])
         /\ Keeps(v, [v EXCEPT !.active = a, !.code = b, !.ce = c])
         /\ Keeps(v, [v EXCEPT !.active = a, !.remaining = b, !.ce = c, !.x0 = d, !.y0 = e,
                               !.nx = f, !.ny = g, !.x = h, !.y = k, !.xs = l, !.ys = a])
         /\ Keeps(v, [v EXCEPT !.transfer = a, !.tr = b, !.trDelay = c, !.x = d, !.y = e])
         /\ Keeps(v, [v EXCEPT !.trDelay = a, !.tr = b])
         /\ Keeps(v, [v EXCEPT !.x = a, !.y = b])
         /\ Keeps(v, [v EXCEPT !.tr = a])
         /\ Keeps(v, [v EXCEPT !.log = a])
         /\ Keeps(v, [v EXCEPT !.transfer = a])
         /\ Keeps(v, [v EXCEPT !.transfer = a, !.tr = b])
         /\ Keeps(v, [v EXCEPT !.code = a, !.remaining = b])
         /\ Keeps(v, [v EXCEPT !.code = a, !.geo = b, !.active = c, !.trDelay = d, !.ce = e])
<1> USE DEF VdpShape, VdpFields, Keeps
<1>1. Keeps(v, [v EXCEPT !.vram = a])
  OBVIOUS
<1>2. Keeps(v, [v EXCEPT !.cmd[12] = a])
  OBVIOUS
<1>3. Keeps(v, [v EXCEPT !.status8 = a, !.status9 = b, !.bd = c])
  OBVIOUS
<1>4. Keeps(v, [v EXCEPT !.active = a, !.ce = b, !.remaining = c])
  OBVIOUS
<1>5. Keeps(v, [v EXCEPT !.active = a, !.code = b, !.ce = c])
  OBVIOUS
<1>6. Keeps(v, [v EXCEPT !.active = a, !.remaining = b, !.ce = c, !.x0 = d, !.y0 = e,
                         !.nx = f, !.ny = g, !.x = h, !.y = k, !.xs = l, !.ys = a])
  OBVIOUS
<1>7. Keeps(v, [v EXCEPT !.transfer = a, !.tr = b, !.trDelay = c, !.x = d, !.y = e])
  OBVIOUS
<1>8. Keeps(v, [v EXCEPT !.trDelay = a, !.tr = b]) /\ Keeps(v, [v EXCEPT !.x = a, !.y = b])
  OBVIOUS
<1>9. Keeps(v, [v EXCEPT !.tr = a]) /\ Keeps(v, [v EXCEPT !.log = a]) /\ Keeps(v, [v EXCEPT !.transfer = a])
  OBVIOUS
<1>10. Keeps(v, [v EXCEPT !.transfer = a, !.tr = b]) /\ Keeps(v, [v EXCEPT !.code = a, !.remaining = b])
  OBVIOUS
<1>11. Keeps(v, [v EXCEPT !.code = a, !.geo = b, !.active = c, !.trDelay = d, !.ce = e])
  OBVIOUS
<1> HIDE DEF VdpShape, VdpFields, Keeps
<1> QED BY <1>1, <1>2, <1>3, <1>4, <1>5, <1>6, <1>7, <1>8, <1>9, <1>10, <1>11

LEMMA MemoryKeeps ==
  ASSUME NEW v, VdpShape(v)
  PROVE  /\ \A a, b : Keeps(v, SetVram(v, a, b))
         /\ \A x, y, c, l : Keeps(v, DrawDot(v, x, y, c, l))
         /\ \A r : Keeps(v, [v EXCEPT !.vram = r])
<1>1. ASSUME NEW r PROVE Keeps(v, [v EXCEPT !.vram = r])
  BY EngineFields, Zenon
<1>2. ASSUME NEW a, NEW b PROVE Keeps(v, SetVram(v, a, b))
  <2>1. PICK r : r = Stored(v.vram, a, b)
    OBVIOUS
  <2>2. SetVram(v, a, b) = [v EXCEPT !.vram = r]
    BY <2>1, Zenon DEF SetVram
  <2> QED BY <1>1, <2>2
<1>3. ASSUME NEW x, NEW y, NEW c, NEW l PROVE Keeps(v, DrawDot(v, x, y, c, l))
  <2>1. PICK r : r = DotPut(v.vram, v.geo, x, y, c, l)
    OBVIOUS
  <2>2. DrawDot(v, x, y, c, l) = [v EXCEPT !.vram = r]
    BY <2>1, Zenon DEF DrawDot
  <2> QED BY <1>1, <2>2
<1> QED BY <1>1, <1>2, <1>3

LEMMA EndingKeeps ==
  ASSUME NEW v, VdpShape(v)
  PROVE  Keeps(v, Completed(v)) /\ \A n, k : Keeps(v, Timed(v, n, k))
<1>1. Keeps(v, Completed(v))
  BY EngineFields, Zenon DEF Completed
<1>2. ASSUME NEW n, NEW k PROVE Keeps(v, Timed(v, n, k))
  <2>1. PICK r : r = Max({4, n * k})
    OBVIOUS
  <2>2. Timed(v, n, k) = [v EXCEPT !.active = TRUE, !.ce = TRUE, !.remaining = r]
    BY <2>1, Zenon DEF Timed
  <2>3. Keeps(v, [v EXCEPT !.active = TRUE, !.ce = TRUE, !.remaining = r])
    BY EngineFields, Zenon
  <2> QED BY <2>2, <2>3, Zenon
<1> QED BY <1>1, <1>2

LEMMA SinglesKeep ==
  ASSUME NEW v, VdpShape(v), NEW o
  PROVE  Keeps(v, Point(v, o)) /\ Keeps(v, Pset(v, o)) /\ Keeps(v, Srch(v, o)) /\ Keeps(v, Line(v, o))
<1>1. Keeps(v, Point(v, o))
  <2>1. PICK r : r = IF o.srcExt THEN DotMask(v.geo) - 1 ELSE Dot(v, o.sx, o.sy)
    OBVIOUS
  <2>2. Point(v, o) = [v EXCEPT !.cmd[12] = r]
    BY <2>1, Zenon DEF Point
  <2>3. Keeps(v, [v EXCEPT !.cmd[12] = r])
    BY EngineFields, Zenon
  <2> QED BY <2>2, <2>3, Zenon
<1>2. Keeps(v, Pset(v, o))
  BY MemoryKeeps, KeepsOn, Zenon DEF Pset
<1>3. Keeps(v, Srch(v, o))
  <2> DEFINE sw == DotsPerLine(v.geo)
             pixel(x) == IF o.srcExt THEN 255 ELSE Dot(v, x, o.sy)
             hit(x)   == (pixel(x) = o.clr % DotMask(v.geo)) # Bit(v.cmd[13], 1)
             ahead == IF o.sx >= sw THEN {} ELSE IF o.dix THEN 0..o.sx ELSE o.sx..(sw - 1)
             hits  == {x \in ahead : hit(x)}
             at == IF hits # {} THEN (IF o.dix THEN Max(hits) ELSE Min(hits))
                   ELSE IF o.sx >= sw THEN o.sx ELSE IF o.dix THEN -1 ELSE sw
             a == at % 256
             b == 254 + ((at \div 256) % 2)
             c == v.bd \/ hits # {}
  <2>3. Srch(v, o) = [v EXCEPT !.status8 = a, !.status9 = b, !.bd = c]
    BY Zenon DEF Srch
  <2> HIDE DEF a, b, c
  <2>4. Keeps(v, [v EXCEPT !.status8 = a, !.status9 = b, !.bd = c])
    BY EngineFields, Zenon
  <2> QED BY <2>3, <2>4, Zenon
<1>4. Keeps(v, Line(v, o))
  BY MemoryKeeps, Zenon DEF Line
<1> QED BY <1>1, <1>2, <1>3, <1>4

LEMMA BlocksKeep ==
  ASSUME NEW v, VdpShape(v), NEW o
  PROVE  /\ Keeps(v, Lmmv(v, o)) /\ Keeps(v, Lmmm(v, o)) /\ Keeps(v, Hmmv(v, o))
         /\ Keeps(v, Hmmm(v, o)) /\ Keeps(v, Ymmm(v, o))
<1>1. ASSUME NEW r, NEW n, NEW k PROVE Keeps(v, Blit(v, o, r, n, k))
  <2>1. PICK w : w = (IF o.dstExt THEN v ELSE [v EXCEPT !.vram = r])
    OBVIOUS
  <2>2. Blit(v, o, r, n, k) = Timed(w, n, k)
    BY <2>1, Zenon DEF Blit
  <2>3. Keeps(v, w)
    BY <2>1, MemoryKeeps, KeepsOn, Zenon
  <2>4. Keeps(w, Timed(w, n, k))
    BY <2>3, KeepsShape, EndingKeeps
  <2> QED BY <2>2, <2>3, <2>4, KeepsOn
<1> QED BY <1>1, Zenon DEF Lmmv, Lmmm, Hmmv, Hmmm, Ymmm

LEMMA ByteTakenKeeps ==
  ASSUME NEW v, VdpShape(v), NEW b
  PROVE  Keeps(v, TakeByte(v, b)) /\ Keeps(v, FirstByte(v, b)) /\ Keeps(v, ReadyForByte(v))
<1>1. Keeps(v, Accepted(v, b))
  BY MemoryKeeps, KeepsOn, Zenon DEF Accepted
<1>2. ASSUME NEW u, VdpShape(u), NEW n PROVE Keeps(u, MovedTo(u, n))
  <2> DEFINE turn == n >= u.nx
             x == IF turn THEN 0 ELSE n
             y == IF turn THEN u.y + 1 ELSE u.y
             z == [u EXCEPT !.transfer = FALSE, !.tr = FALSE, !.trDelay = 8]
             w == [z EXCEPT !.x = x, !.y = y]
  <2>1. \/ MovedTo(u, n) = w
        \/ MovedTo(u, n) = [Completed(w) EXCEPT !.trDelay = 0, !.tr = TRUE]
    BY Zenon DEF MovedTo
  <2> HIDE DEF turn, x, y
  <2>2. Keeps(u, w)
    <3>1. /\ DOMAIN z = DOMAIN u /\ z.regs = u.regs /\ z.status = u.status /\ z.fh = u.fh /\ z.irq = u.irq
          /\ z.addr = u.addr /\ z.first = u.first /\ z.pending = u.pending /\ z.cmd = u.cmd
      BY <1>2, Zenon DEF VdpShape, VdpFields
    <3> HIDE DEF z
    <3>2. /\ DOMAIN w = DOMAIN z /\ w.regs = z.regs /\ w.status = z.status /\ w.fh = z.fh /\ w.irq = z.irq
          /\ w.addr = z.addr /\ w.first = z.first /\ w.pending = z.pending /\ w.cmd = z.cmd
      BY <1>2, <3>1, Zenon DEF VdpShape, VdpFields
    <3> HIDE DEF w
    <3> QED BY <3>1, <3>2 DEF Keeps
  <2>3. VdpShape(w)
    BY <1>2, <2>2, KeepsShape
  <2> HIDE DEF w
  <2>4. PICK c : c = Completed(w)
    OBVIOUS
  <2>5. Keeps(w, c)
    BY <2>3, <2>4, EndingKeeps
  <2>6. VdpShape(c)
    BY <2>3, <2>5, KeepsShape
  <2>7. Keeps(c, [c EXCEPT !.trDelay = 0, !.tr = TRUE])
    BY <2>6, EngineFields, Zenon
  <2>8. MovedTo(u, n) = w \/ MovedTo(u, n) = [c EXCEPT !.trDelay = 0, !.tr = TRUE]
    BY <2>1, <2>4, Zenon
  <2>9. Keeps(u, c) /\ Keeps(u, [c EXCEPT !.trDelay = 0, !.tr = TRUE])
    BY <2>2, <2>5, <2>7, KeepsOn, Zenon
  <2> QED BY <2>2, <2>8, <2>9, Zenon
<1>3. Keeps(v, TakeByte(v, b))
  <2>1. PICK u : u = Accepted(v, b)
    OBVIOUS
  <2>2. TakeByte(v, b) = MovedTo(u, v.x + (IF v.code = 11 THEN 1 ELSE v.geo.ppb))
    BY <2>1, Zenon DEF TakeByte
  <2>3. Keeps(v, u) /\ VdpShape(u)
    BY <1>1, <2>1, KeepsShape
  <2>4. Keeps(u, TakeByte(v, b))
    BY <1>2, <2>2, <2>3, Zenon
  <2> QED BY <2>3, <2>4, KeepsOn, Zenon
<1>4. Keeps(v, FirstByte(v, b))
  BY <1>3, KeepsOn, Zenon DEF FirstByte
<1>5. Keeps(v, ReadyForByte(v))
  <2>1. Keeps(v, [v EXCEPT !.trDelay = 0, !.tr = TRUE])
    BY EngineFields, Zenon
  <2> QED BY <2>1, KeepsOn, Zenon DEF ReadyForByte
<1> QED BY <1>3, <1>4, <1>5

LEMMA StartedKeeps ==
  ASSUME NEW v, VdpShape(v), NEW o, NEW x, NEW y, NEW nx, NEW ny
  PROVE  Keeps(v, Started(v, o, x, y, nx, ny))
<1>1. PICK a, b : a = o.xs /\ b = o.ys
  OBVIOUS
<1>2. Started(v, o, x, y, nx, ny) =
        [v EXCEPT !.active = TRUE, !.remaining = 0, !.ce = TRUE, !.x0 = x, !.y0 = y, !.nx = nx,
                  !.ny = ny, !.x = 0, !.y = 0, !.xs = a, !.ys = b]
  BY <1>1, Zenon DEF Started
<1>3. Keeps(v, [v EXCEPT !.active = TRUE, !.remaining = 0, !.ce = TRUE, !.x0 = x, !.y0 = y, !.nx = nx,
                         !.ny = ny, !.x = 0, !.y = 0, !.xs = a, !.ys = b])
  BY Zenon DEF Keeps, VdpShape, VdpFields
<1> QED BY <1>2, <1>3, Zenon

LEMMA CpuFeedKeeps ==
  ASSUME NEW v, VdpShape(v), NEW o, NEW code PROVE Keeps(v, CpuFeed(v, o, code))
<1>1. PICK nx, ny, l, c :
        /\ nx = IF code = 15
                  THEN ClipX({Column(v, o.dx)}, o.nx \div v.geo.ppb, o.dix, v.geo.bpl) * v.geo.ppb
                  ELSE ClipX({o.dx}, o.nx, o.dix, DotsPerLine(v.geo))
        /\ ny = ClipY({o.dy}, o.ny, o.diy) /\ l = o.log /\ c = o.clr
  BY Zenon
<1>2. PICK s : s = Started(v, o, o.dx, o.dy, nx, ny)
  OBVIOUS
<1>3. PICK w : w = [s EXCEPT !.log = l]
  OBVIOUS
<1>4. PICK u : u = FirstByte(w, c)
  OBVIOUS
<1>5. CpuFeed(v, o, code) = ReadyForByte(u)
  BY <1>1, <1>2, <1>3, <1>4, Zenon DEF CpuFeed
<1>6. Keeps(v, s) /\ VdpShape(s)
  BY <1>2, StartedKeeps, KeepsShape
<1>7. Keeps(s, w) /\ VdpShape(w)
  BY <1>3, <1>6, EngineFields, KeepsShape, Zenon
<1>8. Keeps(w, u) /\ VdpShape(u)
  BY <1>4, <1>7, ByteTakenKeeps, KeepsShape
<1>9. Keeps(u, ReadyForByte(u))
  BY <1>8, ByteTakenKeeps
<1> QED BY <1>5, <1>6, <1>7, <1>8, <1>9, KeepsOn, Zenon

LEMMA LastDotKeeps ==
  ASSUME NEW v, VdpShape(v), NEW ext
  PROVE  /\ Keeps(v, Staged(v, ext)) /\ VdpShape(Staged(v, ext))
         /\ Keeps(v, IF AtLastDot(Staged(v, ext)) THEN Completed(Staged(v, ext)) ELSE Staged(v, ext))
<1>1. PICK c : c = IF ext THEN DotMask(v.geo) - 1 ELSE Dot(v, CursorX(v), CursorY(v))
  OBVIOUS
<1>2. PICK s : s = Staged(v, ext)
  OBVIOUS
<1>3. s = [v EXCEPT !.cmd[12] = c]
  BY <1>1, <1>2, Zenon DEF Staged
<1>4. Keeps(v, s) /\ VdpShape(s)
  BY <1>3, EngineFields, KeepsShape, Zenon
<1>5. Keeps(s, Completed(s))
  BY <1>4, EndingKeeps
<1>6. Keeps(v, IF AtLastDot(s) THEN Completed(s) ELSE s)
  BY <1>4, <1>5, KeepsOn, Zenon
<1> QED BY <1>2, <1>4, <1>6, Zenon

LEMMA LmcmKeeps ==
  ASSUME NEW v, VdpShape(v), NEW o
  PROVE  Keeps(v, Lmcm(v, o)) /\ Keeps(v, AdvanceLmcm(v))
<1>1. Keeps(v, Lmcm(v, o))
  <2>1. PICK s : s = Started(v, o, o.sx, o.sy, ClipX({o.sx}, o.nx, o.dix, DotsPerLine(v.geo)),
                             ClipY({o.sy}, o.ny, o.diy))
    OBVIOUS
  <2>2. PICK w : w = [s EXCEPT !.tr = TRUE]
    OBVIOUS
  <2>3. Lmcm(v, o) = IF AtLastDot(Staged(w, o.srcExt)) THEN Completed(Staged(w, o.srcExt))
                                                       ELSE Staged(w, o.srcExt)
    BY <2>1, <2>2, Zenon DEF Lmcm
  <2>4. Keeps(v, s) /\ VdpShape(s)
    BY <2>1, StartedKeeps, KeepsShape, Zenon
  <2>5. Keeps(s, w) /\ VdpShape(w)
    BY <2>2, <2>4, EngineFields, KeepsShape, Zenon
  <2> QED BY <2>3, <2>4, <2>5, LastDotKeeps, KeepsOn, Zenon
<1>2. Keeps(v, AdvanceLmcm(v))
  <2> DEFINE turn == v.x + 1 >= v.nx
             x == IF turn THEN 0 ELSE v.x + 1
             y == IF turn THEN v.y + 1 ELSE v.y
             w == [v EXCEPT !.x = x, !.y = y]
             ext == Bit(v.cmd[13], 4)
  <2>1. AdvanceLmcm(v) = IF AtLastDot(Staged(w, ext)) THEN Completed(Staged(w, ext)) ELSE Staged(w, ext)
    BY Zenon DEF AdvanceLmcm
  <2> HIDE DEF turn, x, y, ext
  <2>2. Keeps(v, w)
    BY EngineFields, Zenon
  <2>3. VdpShape(w)
    BY <2>2, KeepsShape
  <2> HIDE DEF w
  <2> QED BY <2>1, <2>2, <2>3, LastDotKeeps, KeepsOn, Zenon
<1> QED BY <1>1, <1>2

LEMMA ExecutedKeeps ==
  ASSUME NEW v, VdpShape(v), v.code \in 0..15, NEW o PROVE Keeps(v, Executed(v, o))
<1>1. PICK s : s = [v EXCEPT !.code = 0, !.remaining = 0]
  OBVIOUS
<1>2. Keeps(v, s)
  BY <1>1, EngineFields, Zenon
<1>3. PICK feed : feed = CpuFeed(v, o, v.code)
  OBVIOUS
<1>4. Keeps(v, feed)
  BY <1>3, CpuFeedKeeps
<1>5. PICK mode \in BOOLEAN : mode = IsCommandMode(v.regs[0])
  BY DEF IsCommandMode, Bit
<1>6. Executed(v, o) =
        CASE v.code < 4 \/ ~mode -> s
          [] v.code = 4 /\ mode -> Point(v, o)
          [] v.code = 5 /\ mode -> Pset(v, o)
          [] v.code = 6 /\ mode -> Srch(v, o)
          [] v.code = 7 /\ mode -> Line(v, o)
          [] v.code = 8 /\ mode -> Lmmv(v, o)
          [] v.code = 9 /\ mode -> Lmmm(v, o)
          [] v.code = 10 /\ mode -> Lmcm(v, o)
          [] v.code \in {11, 15} /\ mode -> feed
          [] v.code = 12 /\ mode -> Hmmv(v, o)
          [] v.code = 13 /\ mode -> Hmmm(v, o)
          [] v.code = 14 /\ mode -> Ymmm(v, o)
  BY <1>1, <1>3, <1>5, Zenon DEF Executed
<1>7. \/ v.code < 4 \/ ~mode
      \/ v.code \in 4..15 /\ mode
  OBVIOUS
<1>8. Executed(v, o) \in {s, Point(v, o), Pset(v, o), Srch(v, o), Line(v, o), Lmmv(v, o), Lmmm(v, o),
                          Lmcm(v, o), feed, Hmmv(v, o), Hmmm(v, o), Ymmm(v, o)}
  BY <1>6, <1>7
<1> QED BY <1>2, <1>4, <1>8, SinglesKeep, BlocksKeep, LmcmKeeps, Zenon

LEMMA DispatchedKeeps ==
  ASSUME NEW v, VdpShape(v), v.cmd[14] \in Byte PROVE Keeps(v, Dispatched(v))
<1>1. v.cmd[14] \div 16 \in 0..15
  BY DEF Byte
<1>2. PICK code, g : code \in 0..15 /\ code = v.cmd[14] \div 16 /\ g = Geometry(v.regs[0])
  BY <1>1
<1>3. PICK w : w = [v EXCEPT !.code = code, !.geo = g, !.active = FALSE, !.trDelay = 0, !.ce = FALSE]
  OBVIOUS
<1>4. Dispatched(v) = Executed(w, Operands(v))
  BY <1>2, <1>3, Zenon DEF Dispatched
<1>5. Keeps(v, w) /\ VdpShape(w)
  <2>1. Keeps(v, [v EXCEPT !.code = code, !.geo = g, !.active = FALSE, !.trDelay = 0, !.ce = FALSE])
    BY EngineFields, Zenon
  <2>2. Keeps(v, w)
    BY <1>3, <2>1, Zenon
  <2> QED BY <2>2, KeepsShape
<1>6. w.code \in 0..15
  BY <1>2, <1>3
<1> QED BY <1>4, <1>5, <1>6, ExecutedKeeps, KeepsOn, Zenon

\* A command register is set, whatever the command that it starts or feeds does after.
LEMMA CommandRegisterIs ==
  ASSUME NEW v, VdpShape(v), NEW i \in 32..46, NEW b \in Byte
  PROVE  LET w == CommandRegister(v, i, b) IN
         /\ VdpShape(w) /\ (i # 44 => w.cmd[i - 32] = b)
         /\ w.regs = v.regs /\ w.status = v.status /\ w.fh = v.fh /\ w.irq = v.irq
         /\ w.addr = v.addr /\ w.first = v.first /\ w.pending = v.pending
<1> DEFINE w == CommandRegister(v, i, b)
<1>1. PICK u : u = [v EXCEPT !.cmd[i - 32] = b]
  OBVIOUS
<1>2. /\ VdpShape(u) /\ u.cmd[i - 32] = b
      /\ u.regs = v.regs /\ u.status = v.status /\ u.fh = v.fh /\ u.irq = v.irq
      /\ u.addr = v.addr /\ u.first = v.first /\ u.pending = v.pending
  BY <1>1 DEF VdpShape, VdpFields
<1>3. ASSUME Keeps(u, w)
      PROVE  /\ VdpShape(w) /\ (i # 44 => w.cmd[i - 32] = b)
             /\ w.regs = v.regs /\ w.status = v.status /\ w.fh = v.fh /\ w.irq = v.irq
             /\ w.addr = v.addr /\ w.first = v.first /\ w.pending = v.pending
  <2>1. VdpShape(w)
    BY <1>2, <1>3, KeepsShape
  <2>2. i # 44 => i - 32 \in 0..14 /\ i - 32 # 12
    OBVIOUS
  <2> HIDE DEF w
  <2> QED BY <1>2, <1>3, <2>1, <2>2 DEF Keeps
<1>4. PICK x : x = [u EXCEPT !.transfer = TRUE]
  OBVIOUS
<1>5. PICK y : y = [u EXCEPT !.transfer = TRUE, !.tr = FALSE]
  OBVIOUS
<1>6. (w = Dispatched(u) /\ i = 46) \/ w \in {u, x, y, TakeByte(x, b)}
  BY <1>1, <1>4, <1>5, Zenon DEF CommandRegister
<1>7. i = 46 => Keeps(u, Dispatched(u))
  BY <1>2, DispatchedKeeps
<1>8. Keeps(u, x) /\ VdpShape(x) /\ Keeps(u, y)
  BY <1>2, <1>4, <1>5, EngineFields, KeepsShape, Zenon
<1>9. Keeps(u, TakeByte(x, b))
  BY <1>8, ByteTakenKeeps, KeepsOn
<1> HIDE DEF w
<1>10. Keeps(u, w)
  BY <1>6, <1>7, <1>8, <1>9, KeepsOn
<1> QED BY <1>3, <1>10 DEF w

-----------------------------------------------------------------------------
(* The line and the pair of the V9938 through every access.                *)

VdpChip(v) ==
  /\ VdpShape(v)
  /\ \A r \in 0..27 : v.regs[r] \in Nat
  /\ v.status \in Byte /\ v.fh \in BOOLEAN /\ v.first \in Byte /\ v.pending \in BOOLEAN
  /\ v.irq = IrqPending(v)

\* What a pair of bytes has done.
VdpLanded(v, b1, b2) ==
  LET r == b2 % 64
      a == (b2 % 64) * 256 + b1
  IN /\ b2 \in 128..191 /\ r <= 27 => v.regs[r] = And(b1, RegMask[r + 1])
     /\ b2 \in 128..191 /\ r \in 32..46 /\ r # 44 => v.cmd[r - 32] = b1
     /\ b2 \in 64..127 => v.addr % Bank = a
     /\ b2 < 64 => v.addr % Bank = (a + 1) % Bank

\* The history of the pair is the latch of the chip, unless the palette took its place.
VdpPaired(v, p) ==
  /\ p \in [bytes : Seq(Byte), own : BOOLEAN, done : BOOLEAN]
  /\ v.pending <=> Len(p.bytes) = 1
  /\ v.pending /\ p.own => v.first = p.bytes[1]
  /\ p.done => Len(p.bytes) = 2
  /\ p.done /\ p.own => VdpLanded(v, p.bytes[1], p.bytes[2])

VdpInv ==
  /\ VdpChip(vdp) /\ VdpPaired(vdp, pair)
  /\ "writes" \in DOMAIN vdpJob /\ vdpJob.writes \subseteq (0..3) \X Byte
  /\ vdpSnap # <<>> => VdpChip(vdpSnap.vdp) /\ VdpPaired(vdpSnap.vdp, vdpSnap.pair)

LEMMA AndIsNat == \A a, b : And(a, b) \in Nat
<1>1. \A x : /\ BitValue(x, 0) \in Nat /\ BitValue(x, 1) \in Nat /\ BitValue(x, 2) \in Nat
             /\ BitValue(x, 3) \in Nat /\ BitValue(x, 4) \in Nat /\ BitValue(x, 5) \in Nat
             /\ BitValue(x, 6) \in Nat /\ BitValue(x, 7) \in Nat
  BY DEF BitValue, Pow2
<1> QED BY <1>1 DEF And

LEMMA IrqIsBoolean == \A v : v.fh \in BOOLEAN => IrqPending(v) \in BOOLEAN
BY DEF IrqPending, Bit

\* update_irq leaves the line as the flags and enables have it.
LEMMA UpdateIrqIs ==
  ASSUME NEW v, VdpShape(v), \A r \in 0..27 : v.regs[r] \in Nat,
         v.status \in Byte, v.fh \in BOOLEAN, v.first \in Byte, v.pending \in BOOLEAN
  PROVE  LET w == UpdateIrq(v) IN
         /\ VdpChip(w) /\ w.regs = v.regs /\ w.cmd = v.cmd /\ w.addr = v.addr
         /\ w.first = v.first /\ w.pending = v.pending
<1> DEFINE w == UpdateIrq(v)
<1>1. PICK i : i = IrqPending(v)
  OBVIOUS
<1>2. w = [v EXCEPT !.irq = i]
  BY <1>1, Zenon DEF UpdateIrq
<1> HIDE DEF w
<1>3. /\ DOMAIN w = DOMAIN v /\ w.irq = i /\ w.regs = v.regs /\ w.status = v.status /\ w.fh = v.fh
      /\ w.cmd = v.cmd /\ w.addr = v.addr /\ w.first = v.first /\ w.pending = v.pending
  BY <1>2 DEF VdpShape, VdpFields
<1>4. IrqPending(w) = IrqPending(v)
  BY <1>3, Zenon DEF IrqPending
<1>5. VdpShape(w)
  BY <1>3 DEF VdpShape
<1> QED BY <1>1, <1>3, <1>4, <1>5 DEF VdpChip, w

\* What depends neither on the flags nor on the enables keeps the line.
LEMMA VdpSame ==
  ASSUME NEW v, VdpChip(v), NEW w, DOMAIN w = DOMAIN v, DOMAIN w.regs = 0..27, DOMAIN w.cmd = 0..14,
         \A r \in 0..27 : w.regs[r] \in Nat, w.regs[0] = v.regs[0], w.regs[1] = v.regs[1],
         w.status = v.status, w.fh = v.fh, w.irq = v.irq, w.first \in Byte, w.pending \in BOOLEAN
  PROVE  VdpChip(w)
<1>1. VdpShape(w)
  BY DEF VdpChip, VdpShape
<1>2. IrqPending(w) = IrqPending(v)
  BY Zenon DEF IrqPending
<1> QED BY <1>1, <1>2 DEF VdpChip

LEMMA KeepsChip ==
  ASSUME NEW v, VdpChip(v), NEW w, Keeps(v, w) PROVE VdpChip(w)
<1>1. DOMAIN w.cmd = 0..14 /\ DOMAIN w.regs = 0..27
  BY DEF Keeps, VdpChip, VdpShape
<1>2. \A r \in 0..27 : w.regs[r] \in Nat
  BY DEF Keeps, VdpChip
<1> QED BY <1>1, <1>2, VdpSame DEF Keeps, VdpChip

\* A register holds what was written to it: but for R#44, which feeds or stages a dot.
RegisterHolds(v, r, b) ==
  /\ r <= 27 => v.regs[r] = And(b, RegMask[r + 1])
  /\ r \in 32..46 /\ r # 44 => v.cmd[r - 32] = b

LEMMA WriteRegisterIs ==
  ASSUME NEW v, VdpChip(v), NEW r \in 0..63, NEW b \in Byte
  PROVE  LET w == WriteRegister(v, r, b) IN
         VdpChip(w) /\ w.first = v.first /\ w.pending = v.pending /\ RegisterHolds(w, r, b)
<1> USE DEF RegisterHolds
<1> DEFINE w == WriteRegister(v, r, b)
           val == And(b, RegMask[r + 1])
           c == IF r \in DisplayRegs THEN Changed(v, <<"reg", r>>, val) ELSE v.changes
           u == [v EXCEPT !.regs[r] = val, !.changes = c]
           f == v.fh /\ ~(Bit(v.regs[0], 4) /\ ~Bit(val, 4))
           x == [u EXCEPT !.fh = u.fh /\ ~(Bit(v.regs[0], 4) /\ ~Bit(val, 4))]
           a == (val % 8) * Bank + (u.addr % Bank)
           s == [u EXCEPT !.addr = a]
<1>0. VdpShape(v) /\ v.status \in Byte /\ v.fh \in BOOLEAN /\ v.first \in Byte /\ v.pending \in BOOLEAN
  BY DEF VdpChip
<1>a. ASSUME r > 27 PROVE w = IF r \in 32..46 THEN CommandRegister(v, r, b) ELSE v
  BY <1>a, Zenon DEF WriteRegister
<1>b. ASSUME ~(r > 27), r = 0, ~(r = 1), ~(r = 13), ~(r = 14) PROVE w = UpdateIrq(x)
  BY <1>b, Zenon DEF WriteRegister
<1>c. ASSUME ~(r > 27), ~(r = 0), r = 1, ~(r = 13), ~(r = 14) PROVE w = UpdateIrq(u)
  BY <1>c, Zenon DEF WriteRegister
<1>d. ASSUME ~(r > 27), ~(r = 0), ~(r = 1), r = 13, ~(r = 14) PROVE w = RestartBlink(u, val)
  BY <1>d, Zenon DEF WriteRegister
<1>e. ASSUME ~(r > 27), ~(r = 0), ~(r = 1), ~(r = 13), r = 14 PROVE w = s
  BY <1>e, Zenon DEF WriteRegister
<1>f. ASSUME ~(r > 27), ~(r = 0), ~(r = 1), ~(r = 13), ~(r = 14) PROVE w = u
  BY <1>f, Zenon DEF WriteRegister
<1> HIDE DEF w, x, s, u
<1>1. CASE r > 27
  <2>1. CASE r \in 32..46
    <3>1. w = CommandRegister(v, r, b)
      BY <1>1, <1>a, <2>1
    <3>2. /\ VdpShape(w) /\ (r # 44 => w.cmd[r - 32] = b)
          /\ w.regs = v.regs /\ w.status = v.status /\ w.fh = v.fh /\ w.irq = v.irq
          /\ w.first = v.first /\ w.pending = v.pending
      BY <1>0, <2>1, <3>1, CommandRegisterIs, Zenon
    <3>3. IrqPending(w) = IrqPending(v)
      BY <3>2, Zenon DEF IrqPending
    <3>4. VdpChip(w)
      <4>1. \A k \in 0..27 : w.regs[k] \in Nat
        BY <3>2 DEF VdpChip
      <4>2. w.status \in Byte /\ w.fh \in BOOLEAN /\ w.first \in Byte /\ w.pending \in BOOLEAN
        BY <1>0, <3>2, Zenon
      <4>3. w.irq = IrqPending(w)
        BY <3>2, <3>3, Zenon DEF VdpChip
      <4>4. VdpShape(w)
        BY <3>2
      <4> QED BY <4>1, <4>2, <4>3, <4>4, Zenon DEF VdpChip
    <3>5. VdpChip(w) /\ w.first = v.first /\ w.pending = v.pending /\ (r # 44 => w.cmd[r - 32] = b)
      BY <3>2, <3>4, Zenon
    <3> QED BY <1>1, <3>5 DEF w
  <2>2. CASE r \notin 32..46
    <3>1. w = v
      BY <1>1, <1>a, <2>2
    <3> QED BY <1>1, <2>2, <3>1 DEF w
  <2> QED BY <2>1, <2>2
<1>2. CASE r \in 0..27
  <2>1. /\ r = 0 => w = UpdateIrq(x)
        /\ r = 1 => w = UpdateIrq(u)
        /\ r = 13 => w = RestartBlink(u, val)
        /\ r = 14 => w = s
        /\ r \notin {0, 1, 13, 14} => w = u
    <3>1. ~(r > 27)
      BY <1>2
    <3> HIDE DEF val
    <3> QED BY <1>b, <1>c, <1>d, <1>e, <1>f, <3>1
  <2>2. val \in Nat
    BY AndIsNat
  <2>3. f \in BOOLEAN
    BY <1>0
  <2> HIDE DEF val, c, a, f
  <2>4. /\ VdpShape(u) /\ DOMAIN u = DOMAIN v /\ u.regs[r] = val
        /\ u.regs = [v.regs EXCEPT ![r] = val] /\ u.cmd = v.cmd
        /\ u.status = v.status /\ u.fh = v.fh /\ u.irq = v.irq
        /\ u.first = v.first /\ u.pending = v.pending
    BY <1>0, <1>2 DEF VdpShape, VdpFields, u
  <2>5. \A k \in 0..27 : u.regs[k] \in Nat
    BY <1>2, <2>2, <2>4 DEF VdpChip, VdpShape
  <2>12. u.status \in Byte /\ u.fh \in BOOLEAN /\ u.first \in Byte /\ u.pending \in BOOLEAN
    BY <1>0, <2>4
  <2>6. r \notin {0, 1} => VdpChip(u)
    <3>1. r \notin {0, 1} => u.regs[0] = v.regs[0] /\ u.regs[1] = v.regs[1]
      BY <1>2, <2>4 DEF VdpChip, VdpShape
    <3>2. DOMAIN u.regs = 0..27 /\ DOMAIN u.cmd = 0..14
      BY <2>4 DEF VdpShape
    <3> QED BY <1>0, <2>4, <2>5, <3>1, <3>2, VdpSame
  <2>7. CASE r = 0
    <3>1. x = [u EXCEPT !.fh = f]
      BY <2>4, Zenon DEF x, f
    <3>2. w = UpdateIrq(x)
      BY <2>1, <2>7
    <3>3. /\ VdpShape(x) /\ x.regs = u.regs /\ x.status = u.status /\ x.fh = f /\ x.first = u.first
          /\ x.pending = u.pending
      BY <2>4, <3>1 DEF VdpShape, VdpFields
    <3>4. VdpChip(w) /\ w.regs = x.regs /\ w.first = x.first /\ w.pending = x.pending
      <4>1. \A k \in 0..27 : x.regs[k] \in Nat
        BY <2>5, <3>3
      <4>2. x.status \in Byte /\ x.fh \in BOOLEAN /\ x.first \in Byte /\ x.pending \in BOOLEAN
        BY <2>3, <2>12, <3>3
      <4>3. /\ VdpChip(UpdateIrq(x)) /\ UpdateIrq(x).regs = x.regs
            /\ UpdateIrq(x).first = x.first /\ UpdateIrq(x).pending = x.pending
        BY <3>3, <4>1, <4>2, UpdateIrqIs
      <4> QED BY <3>2, <4>3, Zenon
    <3>5. VdpChip(w) /\ w.first = v.first /\ w.pending = v.pending /\ w.regs[r] = val
      BY <2>4, <3>3, <3>4, Zenon
    <3> QED BY <1>2, <3>5 DEF w, val
  <2>8. CASE r = 1
    <3>1. w = UpdateIrq(u)
      BY <2>1, <2>8
    <3>2. VdpChip(w) /\ w.regs = u.regs /\ w.first = u.first /\ w.pending = u.pending
      <4>1. /\ VdpChip(UpdateIrq(u)) /\ UpdateIrq(u).regs = u.regs
            /\ UpdateIrq(u).first = u.first /\ UpdateIrq(u).pending = u.pending
        BY <2>4, <2>5, <2>12, UpdateIrqIs
      <4> QED BY <3>1, <4>1, Zenon
    <3>3. VdpChip(w) /\ w.first = v.first /\ w.pending = v.pending /\ w.regs[r] = val
      BY <2>4, <3>2, Zenon
    <3> QED BY <1>2, <3>3 DEF w, val
  <2>9. ASSUME NEW on, NEW n, NEW z, r \notin {0, 1},
               w = [u EXCEPT !.blinkOn = on, !.blinkCount = n] \/ w = [u EXCEPT !.addr = z] \/ w = u
        PROVE  VdpChip(w) /\ w.first = v.first /\ w.pending = v.pending /\ w.regs[r] = val
    <3>1. Keeps(u, w) \/ w = [u EXCEPT !.addr = z]
      BY <2>4, <2>9 DEF Keeps, VdpShape, VdpFields
    <3>2. /\ DOMAIN w = DOMAIN u /\ w.regs = u.regs /\ w.cmd = u.cmd /\ w.status = u.status
          /\ w.fh = u.fh /\ w.irq = u.irq /\ w.first = u.first /\ w.pending = u.pending
      BY <2>4, <2>9 DEF VdpShape, VdpFields
    <3>3. VdpChip(u) /\ DOMAIN u.regs = 0..27 /\ DOMAIN u.cmd = 0..14
      BY <2>6, <2>9 DEF VdpChip, VdpShape
    <3>4. VdpChip(w)
      BY <1>0, <2>4, <2>5, <3>2, <3>3, VdpSame
    <3> QED BY <2>4, <3>2, <3>4
  <2>10. CASE r \notin {0, 1}
    <3>1. w = RestartBlink(u, val) \/ w = [u EXCEPT !.addr = a] \/ w = u
      BY <2>1, <2>10, Zenon DEF s
    <3>2. CASE w = RestartBlink(u, val)
      <4> DEFINE on == val > 15
                 n == IF val > 15 /\ val % 16 > 0 THEN (val \div 16) * 10 ELSE 0
      <4>1. w = [u EXCEPT !.blinkOn = on, !.blinkCount = n]
        BY <3>2, Zenon DEF RestartBlink
      <4> HIDE DEF on, n
      <4>2. VdpChip(w) /\ w.first = v.first /\ w.pending = v.pending /\ w.regs[r] = val
        BY <2>9, <2>10, <4>1, Zenon
      <4> QED BY <1>2, <4>2 DEF w, val
    <3>3. CASE w = [u EXCEPT !.addr = a] \/ w = u
      <4>1. VdpChip(w) /\ w.first = v.first /\ w.pending = v.pending /\ w.regs[r] = val
        BY <2>9, <2>10, <3>3, Zenon
      <4> QED BY <1>2, <4>1 DEF w, val
    <3> QED BY <3>1, <3>2, <3>3
  <2> QED BY <2>7, <2>8, <2>10
<1> QED BY <1>1, <1>2

\* The chip with other fields replaced: neither the line nor the pair depends on them.
LEMMA VdpReplaced ==
  ASSUME NEW v, VdpChip(v), NEW w, DOMAIN w = DOMAIN v, w.regs = v.regs, w.cmd = v.cmd,
         w.status = v.status, w.fh = v.fh, w.irq = v.irq, w.first \in Byte, w.pending \in BOOLEAN
  PROVE  VdpChip(w)
<1>1. DOMAIN w.regs = 0..27 /\ DOMAIN w.cmd = 0..14 /\ \A r \in 0..27 : w.regs[r] \in Nat
  BY DEF VdpChip, VdpShape
<1> QED BY <1>1, VdpSame

LEMMA BankIs == Bank \in Nat \ {0}
BY DEF Bank

\* The pointer goes on, by its place in the bank; a bitmap mode may carry into R#14.
LEMMA AdvancedVdpIs ==
  ASSUME NEW v, VdpChip(v)
  PROVE  LET w == Advanced(v) IN
         /\ VdpChip(w) /\ w.first = v.first /\ w.pending = v.pending
         /\ v.addr \in Nat => w.addr % Bank = (v.addr + 1) % Bank
<1> DEFINE low == (v.addr + 1) % Bank
           r14 == (v.regs[14] + 1) % 8
           far == r14 * Bank
           near == (v.addr \div Bank) * Bank + low
           w == Advanced(v)
<1>1. VdpShape(v) /\ v.regs[14] \in Nat /\ v.first \in Byte /\ v.pending \in BOOLEAN
  BY DEF VdpChip
<1>2. \/ low = 0 /\ w = [v EXCEPT !.regs[14] = r14, !.addr = far]
      \/ w = [v EXCEPT !.addr = near]
  BY Zenon DEF Advanced
<1>3. r14 \in Nat
  BY <1>1
<1>4. low = 0 => far % Bank = low
  BY <1>3, BankIs
<1>5. v.addr \in Nat => near % Bank = low
  <2>1. \A n, l \in Nat : l < Bank => (n * Bank + l) % Bank = l
    BY DEF Bank
  <2>2. v.addr \in Nat => v.addr \div Bank \in Nat /\ low \in Nat /\ low < Bank
    BY DEF Bank
  <2> HIDE DEF low
  <2> QED BY <2>1, <2>2
<1> HIDE DEF w, far, near, r14, low
<1>6. CASE low = 0 /\ w = [v EXCEPT !.regs[14] = r14, !.addr = far]
  <2>1. /\ DOMAIN w = DOMAIN v /\ w.regs = [v.regs EXCEPT ![14] = r14] /\ w.cmd = v.cmd
        /\ w.status = v.status /\ w.fh = v.fh /\ w.irq = v.irq
        /\ w.addr = far /\ w.first = v.first /\ w.pending = v.pending
    BY <1>1, <1>6 DEF VdpShape, VdpFields
  <2>2. /\ DOMAIN w.regs = 0..27 /\ w.regs[0] = v.regs[0] /\ w.regs[1] = v.regs[1]
        /\ \A r \in 0..27 : w.regs[r] \in Nat
    BY <1>3, <2>1 DEF VdpChip, VdpShape
  <2>3. DOMAIN w.cmd = 0..14
    BY <1>1, <2>1 DEF VdpShape
  <2>4. VdpChip(w)
    BY <1>1, <2>1, <2>2, <2>3, VdpSame
  <2> QED BY <1>4, <1>6, <2>1, <2>4 DEF w, low
<1>7. CASE w = [v EXCEPT !.addr = near]
  <2>1. /\ DOMAIN w = DOMAIN v /\ w.regs = v.regs /\ w.cmd = v.cmd
        /\ w.status = v.status /\ w.fh = v.fh /\ w.irq = v.irq
        /\ w.addr = near /\ w.first = v.first /\ w.pending = v.pending
    BY <1>1, <1>7 DEF VdpShape, VdpFields
  <2>2. VdpChip(w)
    BY <1>1, <2>1, VdpReplaced
  <2> QED BY <1>5, <2>1, <2>2 DEF w, low
<1> QED BY <1>2, <1>6, <1>7

\* A data access ends a pair.
LEMMA VdpDataIs ==
  ASSUME NEW v, VdpChip(v)
  PROVE  /\ \A b : VdpChip(WriteData(v, b)) /\ ~WriteData(v, b).pending
         /\ VdpChip(ReadData(v)) /\ ~ReadData(v).pending
<1>1. VdpShape(v) /\ v.first \in Byte
  BY DEF VdpChip
<1>2. ASSUME NEW u, VdpChip(u), NEW b, NEW w, w = [u EXCEPT !.readBuf = b, !.pending = FALSE]
      PROVE  VdpChip(w) /\ ~w.pending
  <2>1. VdpShape(u) /\ u.first \in Byte
    BY <1>2 DEF VdpChip
  <2>2. /\ DOMAIN w = DOMAIN u /\ w.regs = u.regs /\ w.cmd = u.cmd
        /\ w.status = u.status /\ w.fh = u.fh /\ w.irq = u.irq
        /\ w.first = u.first /\ w.pending = FALSE
    BY <1>2, <2>1 DEF VdpShape, VdpFields
  <2> QED BY <1>2, <2>1, <2>2, VdpReplaced
<1>3. ASSUME NEW b PROVE VdpChip(WriteData(v, b)) /\ ~WriteData(v, b).pending
  <2>1. PICK u : u = SetVram(v, v.addr, b)
    OBVIOUS
  <2>2. PICK w : w = [u EXCEPT !.readBuf = b, !.pending = FALSE]
    OBVIOUS
  <2>3. VdpChip(u)
    BY <1>1, <2>1, MemoryKeeps, KeepsChip
  <2>4. VdpChip(w) /\ ~w.pending
    BY <1>2, <2>2, <2>3, Zenon
  <2>5. WriteData(v, b) = Advanced(w)
    BY <2>1, <2>2, Zenon DEF WriteData
  <2> QED BY <2>4, <2>5, AdvancedVdpIs
<1>4. VdpChip(ReadData(v)) /\ ~ReadData(v).pending
  <2>1. PICK b : b = Vram(v, v.addr)
    OBVIOUS
  <2>2. PICK w : w = [v EXCEPT !.readBuf = b, !.pending = FALSE]
    OBVIOUS
  <2>3. VdpChip(w) /\ ~w.pending
    BY <1>2, <2>2, Zenon
  <2>4. ReadData(v) = Advanced(w)
    BY <2>1, <2>2, Zenon DEF ReadData
  <2> QED BY <2>3, <2>4, AdvancedVdpIs
<1> QED BY <1>3, <1>4

LEMMA VdpFirstByteIs ==
  ASSUME NEW v, VdpChip(v), ~v.pending, NEW b \in Byte
  PROVE  LET w == WriteControl(v, b) IN VdpChip(w) /\ w.pending /\ w.first = b
<1> DEFINE w == WriteControl(v, b)
<1>1. VdpShape(v)
  BY DEF VdpChip
<1>2. w = [v EXCEPT !.first = b, !.pending = TRUE]
  BY Zenon DEF WriteControl
<1> HIDE DEF w
<1>3. /\ DOMAIN w = DOMAIN v /\ w.regs = v.regs /\ w.cmd = v.cmd
      /\ w.status = v.status /\ w.fh = v.fh /\ w.irq = v.irq
      /\ w.first = b /\ w.pending = TRUE
  BY <1>1, <1>2 DEF VdpShape, VdpFields
<1>4. VdpChip(w)
  BY <1>3, VdpReplaced
<1> QED BY <1>3, <1>4 DEF w

\* The address that a bank and a pair name, and its place in the bank.
PlaceOf(n, c)      == n * 256 + c
PointerOf(k, n, c) == k * Bank + n * 256 + c

LEMMA PlaceIs ==
  ASSUME NEW k \in Nat, NEW n \in 0..63, NEW c \in Byte
  PROVE  /\ PointerOf(k, n, c) \in Nat /\ PointerOf(k, n, c) % Bank = PlaceOf(n, c)
         /\ (PointerOf(k, n, c) + 1) % Bank = (PlaceOf(n, c) + 1) % Bank
<1>1. PICK m \in Nat : m = n * 256 + c /\ m <= 16383
  BY DEF Byte
<1>2. PICK a \in Nat : a = k * 16384 + m
  OBVIOUS
<1>3. a = k * 16384 + n * 256 + c
  BY <1>1, <1>2 DEF Byte
<1>4. /\ \A i, l \in Nat : l <= 16383 => (i * 16384 + l) % 16384 = l
      /\ \A i, l \in Nat : l <= 16383 => (i * 16384 + l + 1) % 16384 = (l + 1) % 16384
  OBVIOUS
<1>5. a % 16384 = m /\ (a + 1) % 16384 = (m + 1) % 16384
  BY <1>1, <1>2, <1>4
<1> QED BY <1>1, <1>3, <1>5 DEF Bank, PlaceOf, PointerOf

\* The second byte does what the pair names.
LEMMA VdpSecondByteIs ==
  ASSUME NEW v, VdpChip(v), v.pending, NEW b \in Byte
  PROVE  LET w == WriteControl(v, b) IN
         VdpChip(w) /\ ~w.pending /\ VdpLanded(w, v.first, b)
<1> DEFINE u == [v EXCEPT !.pending = FALSE]
           m == (b % 64) * 256 + v.first
           a == (v.regs[14] % 8) * Bank + (b % 64) * 256 + v.first
           n == Vram(v, a)
           w == WriteControl(v, b)
<1>1. VdpShape(v) /\ v.first \in Byte /\ v.regs[14] \in Nat
  BY DEF VdpChip
<1>2. b % 64 \in 0..63
  BY DEF Byte
<1>3. a \in Nat /\ a % Bank = m /\ (a + 1) % Bank = (m + 1) % Bank
  <2>1. PICK k \in Nat : k = v.regs[14] % 8
    BY <1>1
  <2>2. PICK c \in 0..63 : c = b % 64
    BY <1>2
  <2>3. PICK f \in Byte : f = v.first
    BY <1>1
  <2>4. /\ PointerOf(k, c, f) \in Nat /\ PointerOf(k, c, f) % Bank = PlaceOf(c, f)
        /\ (PointerOf(k, c, f) + 1) % Bank = (PlaceOf(c, f) + 1) % Bank
    BY PlaceIs
  <2>5. a = PointerOf(k, c, f) /\ m = PlaceOf(c, f)
    BY <2>1, <2>2, <2>3 DEF PointerOf, PlaceOf
  <2> HIDE DEF a, m
  <2> QED BY <2>4, <2>5
<1>4. ASSUME b > 191, ~(b \in 128..191), ~(b \in 64..127), ~(b < 64) PROVE w = u
  BY <1>4, Zenon DEF WriteControl
<1>5. ASSUME ~(b > 191), b \in 128..191, ~(b \in 64..127), ~(b < 64)
      PROVE  w = WriteRegister(u, b % 64, v.first)
  BY <1>5, ZenonT(30) DEF WriteControl
<1>6. ASSUME ~(b > 191), ~(b \in 128..191), b \in 64..127, ~(b < 64) PROVE w = [u EXCEPT !.addr = a]
  BY <1>6, ZenonT(30) DEF WriteControl
<1>7. ASSUME ~(b > 191), ~(b \in 128..191), ~(b \in 64..127), b < 64
      PROVE  w = Advanced([u EXCEPT !.addr = a, !.readBuf = n])
  BY <1>7, Zenon DEF WriteControl
<1> HIDE DEF u, m, a, n, w
<1>8. /\ DOMAIN u = DOMAIN v /\ u.regs = v.regs /\ u.cmd = v.cmd /\ u.status = v.status
      /\ u.fh = v.fh /\ u.irq = v.irq /\ u.first = v.first /\ u.pending = FALSE
  BY <1>1 DEF VdpShape, VdpFields, u
<1>9. VdpChip(u) /\ VdpShape(u)
  <2>1. VdpChip(u)
    BY <1>1, <1>8, VdpReplaced
  <2> QED BY <2>1 DEF VdpChip
<1>10. ASSUME NEW x, x = [u EXCEPT !.addr = a, !.readBuf = n] \/ x = [u EXCEPT !.addr = a]
       PROVE  VdpChip(x) /\ ~x.pending /\ x.addr = a
  <2>1. /\ DOMAIN x = DOMAIN u /\ x.regs = u.regs /\ x.cmd = u.cmd /\ x.status = u.status
        /\ x.fh = u.fh /\ x.irq = u.irq /\ x.addr = a /\ x.first = u.first /\ x.pending = FALSE
    BY <1>8, <1>9, <1>10 DEF VdpShape, VdpFields
  <2> QED BY <1>1, <1>8, <1>9, <2>1, VdpReplaced
<1>11. CASE b > 191
  <2>1. b \notin 128..191 /\ b \notin 64..127 /\ ~(b < 64)
    BY <1>11 DEF Byte
  <2>2. w = u
    BY <1>4, <1>11, <2>1
  <2> QED BY <1>8, <1>9, <2>1, <2>2 DEF VdpLanded, w
<1>12. CASE b \in 128..191
  <2>1. ~(b > 191) /\ b \notin 64..127 /\ ~(b < 64)
    BY <1>12
  <2>2. PICK r \in 0..63 : r = b % 64
    BY <1>2
  <2>3. w = WriteRegister(u, r, v.first)
    BY <1>5, <1>12, <2>1, <2>2
  <2>4. VdpChip(w) /\ w.pending = u.pending /\ RegisterHolds(w, r, v.first)
    <3>1. PICK c \in Byte : c = v.first
      BY <1>1
    <3>3. /\ VdpChip(WriteRegister(u, r, c)) /\ WriteRegister(u, r, c).pending = u.pending
          /\ RegisterHolds(WriteRegister(u, r, c), r, c)
      BY <1>9, WriteRegisterIs
    <3>4. w = WriteRegister(u, r, c)
      BY <2>3, <3>1
    <3> QED BY <3>1, <3>3, <3>4, Zenon
  <2>5. VdpLanded(w, v.first, b)
    BY <2>1, <2>2, <2>4 DEF VdpLanded, RegisterHolds
  <2> QED BY <1>8, <2>4, <2>5 DEF w
<1>13. CASE b \in 64..127
  <2>1. ~(b > 191) /\ b \notin 128..191 /\ ~(b < 64)
    BY <1>13
  <2>2. w = [u EXCEPT !.addr = a]
    BY <1>6, <1>13, <2>1
  <2>3. VdpChip(w) /\ ~w.pending /\ w.addr = a
    BY <1>10, <2>2
  <2>4. VdpLanded(w, v.first, b)
    BY <1>3, <2>1, <2>3 DEF VdpLanded, m
  <2> QED BY <2>3, <2>4 DEF w
<1>14. CASE b < 64
  <2>1. ~(b > 191) /\ b \notin 128..191 /\ b \notin 64..127
    BY <1>14 DEF Byte
  <2>2. PICK x : x = [u EXCEPT !.addr = a, !.readBuf = n]
    OBVIOUS
  <2>3. VdpChip(x) /\ ~x.pending /\ x.addr = a
    BY <1>10, <2>2
  <2>4. w = Advanced(x)
    BY <1>7, <1>14, <2>1, <2>2
  <2>5. VdpChip(w) /\ ~w.pending /\ w.addr % Bank = (a + 1) % Bank
    BY <1>3, <2>3, <2>4, AdvancedVdpIs
  <2>6. VdpLanded(w, v.first, b)
    BY <1>3, <1>14, <2>1, <2>5 DEF VdpLanded, m
  <2> QED BY <2>5, <2>6 DEF w
<1>15. b > 191 \/ b \in 128..191 \/ b \in 64..127 \/ b < 64
  BY DEF Byte
<1> QED BY <1>11, <1>12, <1>13, <1>14, <1>15

\* A palette byte and a byte through R#17 leave the latch of a pair as it is.
LEMMA WritePaletteIs ==
  ASSUME NEW v, VdpChip(v), NEW b \in Byte
  PROVE  LET w == WritePalette(v, b) IN
         /\ VdpChip(w) /\ w.pending = v.pending
<1> DEFINE i   == v.regs[16] % 16
           j   == (i + 1) % 16
           rgb == ((v.first \div 16) % 8) * 64 + (b % 8) * 8 + (v.first % 8)
           c   == Changed(v, <<"palette", i>>, rgb)
           w   == WritePalette(v, b)
<1>1. VdpShape(v) /\ v.first \in Byte /\ v.pending \in BOOLEAN /\ v.regs[16] \in Nat
  BY DEF VdpChip
<1>2. \/ w = [v EXCEPT !.first = b, !.palPending = TRUE]
      \/ w = [v EXCEPT !.palPending = FALSE, !.palette[i] = rgb, !.regs[16] = j, !.changes = c]
  BY Zenon DEF WritePalette
<1>3. j \in Nat
  BY <1>1
<1> HIDE DEF i, j, rgb, c, w
<1>4. CASE w = [v EXCEPT !.first = b, !.palPending = TRUE]
  <2>1. /\ DOMAIN w = DOMAIN v /\ w.regs = v.regs /\ w.cmd = v.cmd /\ w.status = v.status
        /\ w.fh = v.fh /\ w.irq = v.irq /\ w.first = b /\ w.pending = v.pending
    BY <1>1, <1>4 DEF VdpShape, VdpFields
  <2>2. VdpChip(w)
    BY <1>1, <2>1, VdpReplaced
  <2> QED BY <2>1, <2>2 DEF w
<1>5. CASE w = [v EXCEPT !.palPending = FALSE, !.palette[i] = rgb, !.regs[16] = j, !.changes = c]
  <2>1. /\ DOMAIN w = DOMAIN v /\ w.regs = [v.regs EXCEPT ![16] = j] /\ w.cmd = v.cmd
        /\ w.status = v.status /\ w.fh = v.fh /\ w.irq = v.irq
        /\ w.first = v.first /\ w.pending = v.pending
    BY <1>1, <1>5 DEF VdpShape, VdpFields
  <2>2. /\ DOMAIN w.regs = 0..27 /\ w.regs[0] = v.regs[0] /\ w.regs[1] = v.regs[1]
        /\ \A r \in 0..27 : w.regs[r] \in Nat
    BY <1>3, <2>1 DEF VdpChip, VdpShape
  <2>3. DOMAIN w.cmd = 0..14
    BY <1>1, <2>1 DEF VdpShape
  <2>4. VdpChip(w)
    BY <1>1, <2>1, <2>2, <2>3, VdpSame
  <2> QED BY <2>1, <2>4 DEF w
<1> QED BY <1>2, <1>4, <1>5

LEMMA WriteIndirectIs ==
  ASSUME NEW v, VdpChip(v), NEW b \in Byte
  PROVE  LET w == WriteIndirect(v, b) IN
         /\ VdpChip(w) /\ w.first = v.first /\ w.pending = v.pending
<1>1. v.regs[17] \in Nat
  BY DEF VdpChip
<1>2. PICK r \in 0..63 : r = v.regs[17] % 64
  BY <1>1
<1>3. PICK u : u = WriteRegister(v, r, b)
  OBVIOUS
<1>4. VdpChip(u) /\ u.first = v.first /\ u.pending = v.pending
  BY <1>3, WriteRegisterIs
<1>5. VdpShape(u) /\ u.regs[17] \in Nat /\ u.first \in Byte /\ u.pending \in BOOLEAN
  BY <1>4 DEF VdpChip
<1> DEFINE p == v.regs[17]
           n == IF p > 127 THEN u.regs[17] ELSE (u.regs[17] \div 64) * 64 + ((p + 1) % 64)
           w == WriteIndirect(v, b)
<1>6. w = [u EXCEPT !.regs[17] = n]
  BY <1>2, <1>3, Zenon DEF WriteIndirect
<1>7. n \in Nat
  BY <1>1, <1>5
<1> HIDE DEF w, n
<1>8. /\ DOMAIN w = DOMAIN u /\ w.regs = [u.regs EXCEPT ![17] = n] /\ w.cmd = u.cmd
      /\ w.status = u.status /\ w.fh = u.fh /\ w.irq = u.irq
      /\ w.first = u.first /\ w.pending = u.pending
  BY <1>5, <1>6 DEF VdpShape, VdpFields
<1>9. /\ DOMAIN w.regs = 0..27 /\ w.regs[0] = u.regs[0] /\ w.regs[1] = u.regs[1]
      /\ \A k \in 0..27 : w.regs[k] \in Nat
  BY <1>4, <1>7, <1>8 DEF VdpChip, VdpShape
<1>10. DOMAIN w.cmd = 0..14
  BY <1>5, <1>8 DEF VdpShape
<1>11. VdpChip(w)
  BY <1>4, <1>5, <1>8, <1>9, <1>10, VdpSame
<1> QED BY <1>4, <1>8, <1>11, Zenon DEF w

\* A status read ends a pair, and the reads of S#0 and S#1 lower the line.
LEMMA VdpStatusIs ==
  ASSUME NEW v, VdpChip(v)
  PROVE  VdpChip(ReadStatus(v)) /\ ~ReadStatus(v).pending
<1> DEFINE u == [v EXCEPT !.pending = FALSE]
           n == u.status % 32
           w == ReadStatus(v)
           s == v.regs[15]
<1>1. VdpShape(v) /\ v.first \in Byte /\ v.status \in Byte
  BY DEF VdpChip
<1>2. ASSUME s = 0, ~(s = 1), ~(s = 5), ~(s = 7), ~(s = 9) PROVE w = UpdateIrq([u EXCEPT !.status = n])
  BY <1>2, Zenon DEF ReadStatus
<1>3. ASSUME ~(s = 0), s = 1, ~(s = 5), ~(s = 7), ~(s = 9) PROVE w = UpdateIrq([u EXCEPT !.fh = FALSE])
  BY <1>3, Zenon DEF ReadStatus
<1>4. ASSUME ~(s = 0), ~(s = 1), s = 5, ~(s = 7), ~(s = 9) PROVE w = [u EXCEPT !.collision = <<0, 0>>]
  BY <1>4, Zenon DEF ReadStatus
<1>5. ASSUME ~(s = 0), ~(s = 1), ~(s = 5), s = 7, ~(s = 9)
      PROVE  w = AdvanceLmcm(u) \/ w = [u EXCEPT !.tr = FALSE] \/ w = u
  BY <1>5, Zenon DEF ReadStatus
<1>6. ASSUME ~(s = 0), ~(s = 1), ~(s = 5), ~(s = 7), s = 9 PROVE w = [u EXCEPT !.bd = FALSE]
  BY <1>6, Zenon DEF ReadStatus
<1>7. ASSUME ~(s = 0), ~(s = 1), ~(s = 5), ~(s = 7), ~(s = 9) PROVE w = u
  BY <1>7, Zenon DEF ReadStatus
<1> HIDE DEF u, w, n, s
<1>8. /\ DOMAIN u = DOMAIN v /\ u.regs = v.regs /\ u.cmd = v.cmd /\ u.status = v.status
      /\ u.fh = v.fh /\ u.irq = v.irq /\ u.first = v.first /\ u.pending = FALSE
  BY <1>1 DEF VdpShape, VdpFields, u
<1>9. VdpChip(u) /\ VdpShape(u) /\ \A r \in 0..27 : u.regs[r] \in Nat
  <2>1. VdpChip(u)
    BY <1>1, <1>8, VdpReplaced
  <2> QED BY <2>1 DEF VdpChip
<1>10. ASSUME NEW x, NEW f \in BOOLEAN, NEW m \in Byte, x = [u EXCEPT !.status = m] \/ x = [u EXCEPT !.fh = f]
       PROVE  VdpChip(UpdateIrq(x)) /\ ~UpdateIrq(x).pending
  <2>1. u.status \in Byte /\ u.fh \in BOOLEAN
    BY <1>9 DEF VdpChip
  <2>2. /\ VdpShape(x) /\ x.regs = u.regs /\ x.first = u.first /\ x.pending = FALSE
        /\ x.status \in {m, u.status} /\ x.fh \in {f, u.fh}
    BY <1>8, <1>9, <1>10 DEF VdpShape, VdpFields
  <2>3. x.status \in Byte /\ x.fh \in BOOLEAN /\ x.first \in Byte /\ x.pending \in BOOLEAN
    BY <1>1, <1>8, <2>1, <2>2
  <2>4. \A r \in 0..27 : x.regs[r] \in Nat
    BY <1>9, <2>2
  <2> QED BY <2>2, <2>3, <2>4, UpdateIrqIs
<1>11. ASSUME NEW x, \/ x = [u EXCEPT !.collision = <<0, 0>>] \/ x = [u EXCEPT !.tr = FALSE]
                     \/ x = [u EXCEPT !.bd = FALSE] \/ x = u \/ x = AdvanceLmcm(u)
       PROVE  VdpChip(x) /\ ~x.pending
  <2>1. x # AdvanceLmcm(u) => Keeps(u, x)
    BY <1>9, <1>11 DEF Keeps, VdpShape, VdpFields
  <2>2. Keeps(u, x)
    BY <1>9, <2>1, LmcmKeeps
  <2>3. VdpChip(x)
    BY <1>9, <2>2, KeepsChip
  <2>4. x.pending = FALSE
    BY <1>8, <2>2 DEF Keeps
  <2> QED BY <2>3, <2>4
<1>12. CASE s = 0
  <2>1. n \in Byte
    BY <1>1, <1>8, FlagKept DEF n
  <2>2. w = UpdateIrq([u EXCEPT !.status = n])
    BY <1>2, <1>12
  <2> QED BY <1>10, <2>1, <2>2 DEF w
<1>13. CASE s = 1
  <2>1. w = UpdateIrq([u EXCEPT !.fh = FALSE])
    BY <1>3, <1>13
  <2>2. 0 \in Byte
    BY DEF Byte
  <2> QED BY <1>10, <2>1, <2>2 DEF w
<1>14. CASE s \notin {0, 1}
  <2>1. \/ w = [u EXCEPT !.collision = <<0, 0>>] \/ w = [u EXCEPT !.tr = FALSE]
        \/ w = [u EXCEPT !.bd = FALSE] \/ w = u \/ w = AdvanceLmcm(u)
    BY <1>4, <1>5, <1>6, <1>7, <1>14
  <2> QED BY <1>11, <2>1 DEF w
<1> QED BY <1>12, <1>13, <1>14

\* What a pair has done lasts as long as these.
Lasts(v, w) ==
  /\ w.regs = v.regs /\ w.addr = v.addr /\ w.first = v.first /\ w.pending = v.pending
  /\ \A i \in 0..14 : i # 12 => w.cmd[i] = v.cmd[i]

LEMMA VdpPairKept ==
  ASSUME NEW v, NEW p, VdpPaired(v, p), NEW w, Lasts(v, w) PROVE VdpPaired(w, p)
<1>1. ASSUME NEW b1, NEW b2, VdpLanded(v, b1, b2) PROVE VdpLanded(w, b1, b2)
  <2>1. b2 % 64 \in 32..46 /\ b2 % 64 # 44 => (b2 % 64) - 32 \in 0..14 /\ (b2 % 64) - 32 # 12
    OBVIOUS
  <2> QED BY <1>1, <2>1 DEF VdpLanded, Lasts
<1>2. p.done /\ p.own => VdpLanded(w, p.bytes[1], p.bytes[2])
  BY <1>1, Zenon DEF VdpPaired
<1>3. w.pending = v.pending /\ w.first = v.first
  BY DEF Lasts
<1> QED BY <1>2, <1>3, Zenon DEF VdpPaired

LEMMA KeepsLasts ==
  ASSUME NEW v, NEW w, Keeps(v, w) PROVE Lasts(v, w)
BY DEF Keeps, Lasts

LEMMA TickKeeps ==
  ASSUME NEW v, VdpShape(v), NEW n PROVE Keeps(v, Tick(v, n))
<1> DEFINE c == v.lineCycle + n
           w == [v EXCEPT !.lineCycle = c]
           m == w.remaining - n
           k == v.remaining - n
           w1 == IF v.remaining <= 0 THEN w
                 ELSE IF v.remaining > n THEN [w EXCEPT !.remaining = m]
                 ELSE [Completed(w) EXCEPT !.remaining = k]
           d == w1.trDelay - n
           t == w1.tr \/ (w1.trDelay <= n /\ w1.active)
<1>1. Tick(v, n) = IF ~v.active THEN w ELSE IF w1.trDelay <= 0 THEN w1 ELSE [w1 EXCEPT !.trDelay = d, !.tr = t]
  BY Zenon DEF Tick
<1> HIDE DEF c, m, k, d, t
<1>2. Keeps(v, w)
  BY DEF Keeps, VdpShape, VdpFields
<1>3. VdpShape(w)
  BY <1>2, KeepsShape
<1> HIDE DEF w
<1>4. PICK z : z = Completed(w)
  OBVIOUS
<1>5. Keeps(w, z)
  BY <1>3, <1>4, EndingKeeps
<1>6. VdpShape(z)
  BY <1>3, <1>5, KeepsShape
<1>7. Keeps(z, [z EXCEPT !.remaining = k]) /\ Keeps(w, [w EXCEPT !.remaining = m])
  BY <1>3, <1>6 DEF Keeps, VdpShape, VdpFields
<1>8. w1 = w \/ w1 = [w EXCEPT !.remaining = m] \/ w1 = [z EXCEPT !.remaining = k]
  BY <1>4, Zenon
<1> HIDE DEF w1
<1>9. Keeps(w, w1)
  <2>1. Keeps(w, w) /\ Keeps(w, [z EXCEPT !.remaining = k])
    BY <1>5, <1>7, KeepsOn, Zenon
  <2> QED BY <1>7, <1>8, <2>1, Zenon
<1>10. VdpShape(w1)
  BY <1>3, <1>9, KeepsShape
<1>11. Keeps(w1, [w1 EXCEPT !.trDelay = d, !.tr = t])
  BY <1>10, EngineFields, Zenon
<1>12. Keeps(v, w1)
  BY <1>2, <1>9, KeepsOn, Zenon
<1>13. Keeps(v, [w1 EXCEPT !.trDelay = d, !.tr = t])
  BY <1>11, <1>12, KeepsOn, Zenon
<1> QED BY <1>1, <1>2, <1>12, <1>13, Zenon

LEMMA FrameEndKeeps ==
  ASSUME NEW v, VdpShape(v) PROVE Keeps(v, IncrementFrame(v))
<1> DEFINE odd == ~v.odd
           w == [v EXCEPT !.odd = odd]
           on == ~v.blinkOn
           k == IF w.blinkCount = 0 THEN 0 ELSE w.blinkCount - 1
           m == (IF on THEN v.regs[13] \div 16 ELSE v.regs[13] % 16) * 10
<1>1. \/ IncrementFrame(v) = [w EXCEPT !.blinkCount = k]
      \/ IncrementFrame(v) = [w EXCEPT !.blinkOn = on, !.blinkCount = m]
  BY Zenon DEF IncrementFrame
<1> HIDE DEF odd, on, k, m
<1>2. Keeps(v, [w EXCEPT !.blinkCount = k])
  BY DEF Keeps, VdpShape, VdpFields
<1>3. Keeps(v, [w EXCEPT !.blinkOn = on, !.blinkCount = m])
  BY DEF Keeps, VdpShape, VdpFields
<1> QED BY <1>1, <1>2, <1>3, Zenon

\* A line of the raster raises the flags with the line, and touches no pair.
LEMMA ScanlineIs ==
  ASSUME NEW v, VdpChip(v), NEW line
  PROVE  VdpChip(BeginScanline(v, line)) /\ Lasts(v, BeginScanline(v, line))
<1> DEFINE o == IF line = 0
                  THEN [v EXCEPT !.startRegs = v.regs, !.startPalette = v.palette, !.changes = <<>>]
                  ELSE v
           w == [o EXCEPT !.line = line, !.lineCycle = 0]
           n == (w.status % 128) + 128
           e == [w EXCEPT !.status = n]
           f == IF line = DisplayHeight(v) THEN UpdateIrq(e) ELSE w
           g == [f EXCEPT !.fh = TRUE]
<1>1. BeginScanline(v, line) = UpdateIrq(g) \/ BeginScanline(v, line) = f
  BY Zenon DEF BeginScanline
<1>2. VdpShape(v) /\ v.status \in Byte /\ v.fh \in BOOLEAN /\ v.first \in Byte /\ v.pending \in BOOLEAN
  BY DEF VdpChip
<1>3. Keeps(v, o)
  <2>1. PICK a, b : a = v.regs /\ b = v.palette
    OBVIOUS
  <2>2. Keeps(v, [v EXCEPT !.startRegs = a, !.startPalette = b, !.changes = <<>>])
    BY <1>2 DEF Keeps, VdpShape, VdpFields
  <2> QED BY <2>1, <2>2, KeepsOn, Zenon
<1> HIDE DEF o
<1>4. VdpShape(o)
  BY <1>2, <1>3, KeepsShape
<1>5. Keeps(o, w)
  BY <1>4 DEF Keeps, VdpShape, VdpFields
<1> HIDE DEF w
<1>6. Keeps(v, w) /\ VdpChip(w)
  BY <1>3, <1>5, KeepsOn, KeepsChip
<1>7. VdpShape(w) /\ w.status \in Byte /\ w.fh \in BOOLEAN /\ w.first \in Byte /\ w.pending \in BOOLEAN
  BY <1>6 DEF VdpChip
<1>8. n \in Byte
  BY <1>7, FlagKept
<1> HIDE DEF n
<1>9. ASSUME NEW u, VdpChip(u), NEW x, NEW m \in Byte, x = [u EXCEPT !.status = m] \/ x = [u EXCEPT !.fh = TRUE]
      PROVE  VdpChip(UpdateIrq(x)) /\ Lasts(u, UpdateIrq(x))
  <2>1. VdpShape(u) /\ u.status \in Byte /\ u.fh \in BOOLEAN /\ u.first \in Byte /\ u.pending \in BOOLEAN
        /\ \A r \in 0..27 : u.regs[r] \in Nat
    BY <1>9 DEF VdpChip
  <2>2. /\ VdpShape(x) /\ x.regs = u.regs /\ x.cmd = u.cmd /\ x.addr = u.addr /\ x.first = u.first
        /\ x.pending = u.pending /\ x.status \in {m, u.status} /\ x.fh \in {TRUE, u.fh}
    BY <1>9, <2>1 DEF VdpShape, VdpFields
  <2>3. x.status \in Byte /\ x.fh \in BOOLEAN /\ x.first \in Byte /\ x.pending \in BOOLEAN
    BY <1>9, <2>1, <2>2
  <2>4. \A r \in 0..27 : x.regs[r] \in Nat
    BY <2>1, <2>2
  <2>5. LET y == UpdateIrq(x) IN
        /\ VdpChip(y) /\ y.regs = x.regs /\ y.cmd = x.cmd /\ y.addr = x.addr
        /\ y.first = x.first /\ y.pending = x.pending
    BY <2>2, <2>3, <2>4, UpdateIrqIs
  <2> QED BY <2>2, <2>5, Zenon DEF Lasts
<1>10. VdpChip(f) /\ Lasts(v, f)
  <2>1. VdpChip(UpdateIrq(e)) /\ Lasts(w, UpdateIrq(e))
    BY <1>6, <1>8, <1>9, Zenon
  <2>2. Lasts(v, w)
    BY <1>6, KeepsLasts
  <2> HIDE DEF e
  <2>3. f = w \/ f = UpdateIrq(e)
    OBVIOUS
  <2> HIDE DEF f
  <2> QED BY <1>6, <2>1, <2>2, <2>3, Zenon DEF Lasts
<1> HIDE DEF f
<1>11. VdpChip(UpdateIrq(g)) /\ Lasts(f, UpdateIrq(g))
  BY <1>8, <1>9, <1>10, Zenon
<1> HIDE DEF g
<1> QED BY <1>1, <1>10, <1>11, Zenon DEF Lasts

\* The sprites of a frame keep F, and so the line.
LEMMA CommitIs ==
  ASSUME NEW v, VdpChip(v), NEW sprite \in BOOLEAN, NEW hit \in BOOLEAN
  PROVE  LET w == CommitRenderStatus(v, sprite, hit) IN VdpChip(w) /\ Lasts(v, w)
<1> DEFINE s == IF sprite THEN And(v.status, 160) + 64 + 5 ELSE v.status
           n == IF hit THEN Or(s, 32) ELSE s
           c == IF hit /\ ~Bit(s, 5) THEN <<260, 9>> ELSE v.collision
           e == v.odd
           w == CommitRenderStatus(v, sprite, hit)
<1>1. VdpShape(v) /\ v.status \in Byte /\ v.fh \in BOOLEAN /\ v.first \in Byte /\ v.pending \in BOOLEAN
  BY DEF VdpChip
<1>2. s \in Byte /\ Bit(s, 7) = Bit(v.status, 7)
  <2>1. \A m \in {0, 32, 128, 160} : m + 64 + 5 \in Byte /\ Bit(m + 64 + 5, 7) = Bit(m, 7)
    BY DEF Byte, Bit, Pow2
  <2>2. And(v.status, 160) \in {0, 32, 128, 160} /\ Bit(And(v.status, 160), 7) = Bit(v.status, 7)
    BY <1>1, FlagKept
  <2> QED BY <1>1, <2>1, <2>2
<1>3. w = [v EXCEPT !.status = n, !.eo = e, !.collision = c]
  BY Zenon DEF CommitRenderStatus
<1> HIDE DEF s, w
<1>4. n \in Byte /\ Bit(n, 7) = Bit(v.status, 7)
  BY <1>2, FlagKept
<1> HIDE DEF n, c, e
<1>5. /\ DOMAIN w = DOMAIN v /\ w.regs = v.regs /\ w.cmd = v.cmd /\ w.status = n
      /\ w.fh = v.fh /\ w.irq = v.irq /\ w.addr = v.addr /\ w.first = v.first /\ w.pending = v.pending
  BY <1>1, <1>3 DEF VdpShape, VdpFields
<1>6. IrqPending(w) = IrqPending(v)
  <2>1. Bit(w.status, 7) = Bit(v.status, 7)
    BY <1>4, <1>5
  <2> QED BY <1>5, <2>1, Zenon DEF IrqPending
<1>7. w.irq = IrqPending(w)
  BY <1>5, <1>6, Zenon DEF VdpChip
<1>8. VdpShape(w)
  BY <1>1, <1>5 DEF VdpShape
<1>9. \A r \in 0..27 : w.regs[r] \in Nat
  BY <1>5 DEF VdpChip
<1>10. w.status \in Byte /\ w.fh \in BOOLEAN /\ w.first \in Byte /\ w.pending \in BOOLEAN
  BY <1>1, <1>4, <1>5, Zenon
<1>11. VdpChip(w)
  BY <1>7, <1>8, <1>9, <1>10, Zenon DEF VdpChip
<1> QED BY <1>5, <1>11, Zenon DEF Lasts, w

\* The chip as it is built and as a reset leaves it has no line and no pair.
LEMMA PoweredOnIs ==
  ASSUME NEW w, VdpFields \subseteq DOMAIN w, w.regs = PowerOnRegs, DOMAIN w.cmd = 0..14, w.status = 0,
         w.fh = FALSE, w.irq = FALSE, w.first = 0, w.pending = FALSE
  PROVE  VdpChip(w)
<1>1. DOMAIN w.regs = 0..27 /\ \A r \in 0..27 : w.regs[r] \in Nat
  BY DEF PowerOnRegs
<1>2. 0 \in Byte /\ ~Bit(0, 7)
  BY DEF Byte, Bit, Pow2
<1>3. ~IrqPending(w)
  BY <1>2, Zenon DEF IrqPending
<1>4. IrqPending(w) = FALSE
  <2>1. IrqPending(w) \in BOOLEAN
    <3>1. w.fh \in BOOLEAN
      OBVIOUS
    <3> QED BY <3>1 DEF IrqPending, Bit
  <2> QED BY <1>3, <2>1, Zenon
<1>5. w.irq = IrqPending(w)
  BY <1>4
<1> QED BY <1>1, <1>2, <1>5 DEF VdpChip, VdpShape

LEMMA VdpResetIs ==
  ASSUME NEW v, VdpFields \subseteq DOMAIN v PROVE VdpChip(ResetChip(v)) /\ ~ResetChip(v).pending
<1> DEFINE w == ResetChip(v)
<1>2. /\ VdpFields \subseteq DOMAIN w /\ w.regs = PowerOnRegs /\ DOMAIN w.cmd = 0..14 /\ w.status = 0
      /\ w.fh = FALSE /\ w.irq = FALSE /\ w.first = 0 /\ w.pending = FALSE
  BY Zenon DEF ResetChip, VdpFields
<1> HIDE DEF w
<1>3. VdpChip(w)
  BY <1>2, PoweredOnIs
<1> QED BY <1>2, <1>3 DEF w

\* A load gives the pair that was saved, and the line of the flags that were.
LEMMA VdpRestoredIs ==
  ASSUME NEW v, NEW s, VdpChip(s)
  PROVE  VdpChip(Restored(v, s)) /\ Lasts(s, Restored(v, s))
<1> DEFINE a == v.line
           b == v.lineCycle
           c == v.irq
           d == v.changes
           e == v.startRegs
           f == v.startPalette
           x == [s EXCEPT !.line = a, !.lineCycle = b, !.irq = c, !.changes = d,
                          !.startRegs = e, !.startPalette = f]
<1>1. Restored(v, s) = UpdateIrq(x)
  BY Zenon DEF Restored
<1>2. /\ VdpShape(s) /\ s.status \in Byte /\ s.fh \in BOOLEAN /\ s.first \in Byte /\ s.pending \in BOOLEAN
      /\ \A r \in 0..27 : s.regs[r] \in Nat
  BY DEF VdpChip
<1> HIDE DEF a, b, c, d, e, f
<1>3. /\ VdpShape(x) /\ x.regs = s.regs /\ x.cmd = s.cmd /\ x.addr = s.addr /\ x.first = s.first
      /\ x.pending = s.pending /\ x.status = s.status /\ x.fh = s.fh
  BY <1>2 DEF VdpShape, VdpFields
<1> HIDE DEF x
<1>4. LET y == UpdateIrq(x) IN
      /\ VdpChip(y) /\ y.regs = x.regs /\ y.cmd = x.cmd /\ y.addr = x.addr
      /\ y.first = x.first /\ y.pending = x.pending
  BY <1>2, <1>3, UpdateIrqIs
<1> QED BY <1>1, <1>3, <1>4, Zenon DEF Lasts

LEMMA VdpNoPairIs ==
  ASSUME NEW v, ~v.pending PROVE VdpPaired(v, NoPair)
<1>1. <<>> \in Seq(Byte) /\ Len(<<>>) = 0
  OBVIOUS
<1> QED BY <1>1 DEF VdpPaired, NoPair

LEMMA VdpSteps ==
  ASSUME [ChipsNext]_chipVars
  PROVE  chosen' = chosen /\ (chosen = "v9938" => [V9938Next]_v9938Vars)
BY DEF ChipsNext, chipVars

\* The bytes of the pair after a write of the control port.
LEMMA VdpControlKeeps ==
  ASSUME VdpChip(vdp), VdpPaired(vdp, pair), NEW b \in Byte,
         vdp' = WriteControl(vdp, b), pair' = PairAfterWrite(1, b)
  PROVE  VdpChip(vdp') /\ VdpPaired(vdp', pair')
<1>1. pair' = IF Len(pair.bytes) = 1 THEN [pair EXCEPT !.bytes = Append(@, b), !.done = TRUE]
              ELSE [NoPair EXCEPT !.bytes = <<b>>]
  BY DEF PairAfterWrite
<1>2. CASE vdp.pending
  <2>1. PICK c \in Seq(Byte) : c = pair.bytes /\ Len(c) = 1 /\ (pair.own => c[1] = vdp.first)
    BY <1>2 DEF VdpPaired
  <2>2. VdpChip(vdp') /\ ~vdp'.pending /\ VdpLanded(vdp', vdp.first, b)
    BY <1>2, VdpSecondByteIs
  <2>3. PICK d \in Seq(Byte) : d = Append(c, b) /\ Len(d) = 2 /\ d[1] = c[1] /\ d[2] = b
    <3>1. Append(c, b) \in Seq(Byte) /\ Len(Append(c, b)) = Len(c) + 1
      BY AppendIs
    <3>2. Len(c) = 1
      BY <2>1
    <3>3. Append(c, b)[1] = c[1] /\ Append(c, b)[2] = b
      <4>1. Append(c, b)[Len(c) + 1] = b /\ \A i \in 1..Len(c) : Append(c, b)[i] = c[i]
        BY AppendIs
      <4>2. Len(c) + 1 = 2 /\ 1 \in 1..Len(c)
        BY <3>2
      <4> QED BY <4>1, <4>2
    <3>4. Len(Append(c, b)) = 2
      BY <3>1, <3>2
    <3> QED BY <3>1, <3>3, <3>4, Zenon
  <2>4. pair' = [pair EXCEPT !.bytes = d, !.done = TRUE]
    BY <1>1, <2>1, <2>3
  <2>5. /\ pair'.bytes = d /\ pair'.done = TRUE /\ pair'.own = pair.own
        /\ pair' \in [bytes : Seq(Byte), own : BOOLEAN, done : BOOLEAN]
    BY <2>4 DEF VdpPaired
  <2>6. pair.own => VdpLanded(vdp', d[1], d[2])
    BY <2>1, <2>2, <2>3
  <2>7. VdpPaired(vdp', pair')
    <3>1. vdp'.pending = FALSE /\ Len(pair'.bytes) = 2
      BY <2>2, <2>3, <2>5 DEF VdpChip
    <3>2. vdp'.pending <=> Len(pair'.bytes) = 1
      BY <3>1
    <3>3. pair'.own => VdpLanded(vdp', pair'.bytes[1], pair'.bytes[2])
      BY <2>5, <2>6, Zenon
    <3> QED BY <2>5, <3>1, <3>2, <3>3, Zenon DEF VdpPaired
  <2> QED BY <2>2, <2>7
<1>3. CASE ~vdp.pending
  <2>1. Len(pair.bytes) # 1
    BY <1>3 DEF VdpPaired
  <2>2. VdpChip(vdp') /\ vdp'.pending /\ vdp'.first = b
    BY <1>3, VdpFirstByteIs
  <2>3. PICK d \in Seq(Byte) : d = <<b>> /\ Len(d) = 1 /\ d[1] = b
    <3>1. <<b>> \in Seq(Byte) /\ Len(<<b>>) = 1 /\ <<b>>[1] = b
      OBVIOUS
    <3> QED BY <3>1, Zenon
  <2>4. pair' = [NoPair EXCEPT !.bytes = d]
    BY <1>1, <2>1, <2>3
  <2>5. /\ pair'.bytes = d /\ pair'.done = FALSE
        /\ pair' \in [bytes : Seq(Byte), own : BOOLEAN, done : BOOLEAN]
    BY <2>4 DEF NoPair
  <2>6. VdpPaired(vdp', pair')
    BY <2>2, <2>3, <2>5 DEF VdpPaired
  <2> QED BY <2>2, <2>6
<1> QED BY <1>2, <1>3

LEMMA VdpWriteKeeps ==
  ASSUME VdpInv, VdpWrite PROVE VdpChip(vdp') /\ VdpPaired(vdp', pair')
<1>1. PICK port \in 0..3, b \in Byte : vdp' = WritePort(vdp, port, b) /\ pair' = PairAfterWrite(port, b)
  <2>1. PICK w \in vdpJob.writes : vdp' = WritePort(vdp, w[1], w[2]) /\ pair' = PairAfterWrite(w[1], w[2])
    BY DEF VdpWrite
  <2>2. w[1] \in 0..3 /\ w[2] \in Byte
    BY DEF VdpInv
  <2> QED BY <2>1, <2>2
<1>2. VdpChip(vdp) /\ VdpPaired(vdp, pair)
  BY DEF VdpInv
<1>3. CASE port = 0
  <2>1. vdp' = WriteData(vdp, b) /\ pair' = NoPair
    BY <1>1, <1>3 DEF WritePort, PairAfterWrite
  <2> QED BY <1>2, <2>1, VdpDataIs, VdpNoPairIs
<1>4. CASE port = 1
  <2>1. vdp' = WriteControl(vdp, b) /\ pair' = PairAfterWrite(1, b)
    BY <1>1, <1>4 DEF WritePort
  <2> QED BY <1>2, <2>1, VdpControlKeeps
<1>5. CASE port = 2
  <2>1. vdp' = WritePalette(vdp, b) /\ pair' = [pair EXCEPT !.own = FALSE, !.done = FALSE]
    BY <1>1, <1>5 DEF WritePort, PairAfterWrite
  <2>2. VdpChip(vdp') /\ vdp'.pending = vdp.pending
    BY <1>2, <2>1, WritePaletteIs
  <2>3. VdpPaired(vdp', pair')
    BY <1>2, <2>1, <2>2 DEF VdpPaired
  <2> QED BY <2>2, <2>3
<1>6. CASE port = 3
  <2>1. vdp' = WriteIndirect(vdp, b) /\ pair' = [pair EXCEPT !.done = FALSE]
    BY <1>1, <1>6 DEF WritePort, PairAfterWrite
  <2>2. VdpChip(vdp') /\ vdp'.first = vdp.first /\ vdp'.pending = vdp.pending
    BY <1>2, <2>1, WriteIndirectIs
  <2>3. VdpPaired(vdp', pair')
    BY <1>2, <2>1, <2>2 DEF VdpPaired
  <2> QED BY <2>2, <2>3
<1> QED BY <1>3, <1>4, <1>5, <1>6

LEMMA VdpReadKeeps ==
  ASSUME VdpInv, VdpRead PROVE VdpChip(vdp') /\ VdpPaired(vdp', pair')
<1>1. PICK port : vdp' = ReadPort(vdp, port) /\ pair' = PairAfterRead(port)
  BY DEF VdpRead
<1>2. VdpChip(vdp) /\ VdpPaired(vdp, pair)
  BY DEF VdpInv
<1>3. CASE port = 0
  <2>1. vdp' = ReadData(vdp) /\ pair' = NoPair
    BY <1>1, <1>3 DEF ReadPort, PairAfterRead
  <2> QED BY <1>2, <2>1, VdpDataIs, VdpNoPairIs
<1>4. CASE port = 1
  <2>1. vdp' = ReadStatus(vdp) /\ pair' = NoPair
    BY <1>1, <1>4 DEF ReadPort, PairAfterRead
  <2> QED BY <1>2, <2>1, VdpStatusIs, VdpNoPairIs
<1>5. CASE port \notin {0, 1}
  <2>1. vdp' = vdp /\ pair' = pair
    BY <1>1, <1>5 DEF ReadPort, PairAfterRead
  <2> QED BY <1>2, <2>1
<1> QED BY <1>3, <1>4, <1>5

LEMMA VdpKeepsInv ==
  ASSUME VdpInv, [V9938Next]_v9938Vars PROVE VdpInv'
<1> USE DEF VdpInv
<1>1. VdpStep => "writes" \in DOMAIN vdpJob' /\ vdpJob'.writes \subseteq (0..3) \X Byte
  BY DEF VdpStep
<1>2. ASSUME VdpStep, UNCHANGED vdpSnap, VdpChip(vdp'), VdpPaired(vdp', pair') PROVE VdpInv'
  BY <1>1, <1>2
<1>3. CASE VdpWrite
  BY <1>2, <1>3, VdpWriteKeeps DEF VdpWrite
<1>4. CASE VdpRead
  BY <1>2, <1>4, VdpReadKeeps DEF VdpRead
<1>5. ASSUME VdpStep, UNCHANGED <<vdpSnap, pair>>, VdpChip(vdp'), Lasts(vdp, vdp') PROVE VdpInv'
  <2>1. VdpPaired(vdp', pair')
    BY <1>5, VdpPairKept
  <2> QED BY <1>2, <1>5, <2>1
<1>6. CASE VdpTick
  <2>1. PICK n : vdp' = Tick(vdp, n)
    BY <1>6 DEF VdpTick
  <2>2. Keeps(vdp, vdp')
    BY <2>1, TickKeeps DEF VdpChip
  <2> QED BY <1>5, <1>6, <2>2, KeepsChip, KeepsLasts DEF VdpTick, VdpEvent
<1>7. CASE VdpScanline
  BY <1>5, <1>7, ScanlineIs DEF VdpScanline, VdpEvent
<1>8. CASE VdpRender
  <2>1. PICK sprite \in BOOLEAN, hit \in BOOLEAN : vdp' = CommitRenderStatus(vdp, sprite, hit)
    BY <1>8 DEF VdpRender
  <2> QED BY <1>5, <1>8, <2>1, CommitIs DEF VdpRender, VdpEvent
<1>9. CASE VdpFrameEnd
  <2>1. Keeps(vdp, vdp')
    BY <1>9, FrameEndKeeps DEF VdpFrameEnd, VdpChip
  <2> QED BY <1>5, <1>9, <2>1, KeepsChip, KeepsLasts DEF VdpFrameEnd, VdpEvent
<1>10. CASE VdpSave
  <2>1. vdpSnap'.vdp = vdp /\ vdpSnap'.pair = pair /\ UNCHANGED <<vdp, pair>>
    BY <1>10 DEF VdpSave
  <2> QED BY <1>1, <1>10, <2>1 DEF VdpSave, VdpEvent
<1>11. CASE VdpLoad
  <2>1. VdpChip(vdpSnap.vdp) /\ VdpPaired(vdpSnap.vdp, vdpSnap.pair)
    BY <1>11 DEF VdpLoad
  <2>2. VdpChip(vdp') /\ Lasts(vdpSnap.vdp, vdp')
    BY <1>11, <2>1, VdpRestoredIs DEF VdpLoad
  <2>3. VdpPaired(vdp', pair')
    BY <1>11, <2>1, <2>2, VdpPairKept DEF VdpLoad
  <2> QED BY <1>2, <1>11, <2>2, <2>3 DEF VdpLoad, VdpEvent
<1>12. CASE VdpReset
  <2>1. VdpChip(vdp') /\ ~vdp'.pending
    BY <1>12, VdpResetIs DEF VdpReset, VdpChip, VdpShape
  <2>2. VdpPaired(vdp', pair')
    BY <1>12, <2>1, VdpNoPairIs DEF VdpReset
  <2> QED BY <1>2, <1>12, <2>1, <2>2 DEF VdpReset, VdpEvent
<1>13. CASE UNCHANGED v9938Vars
  BY <1>13 DEF v9938Vars
<1> QED BY <1>3, <1>4, <1>6, <1>7, <1>8, <1>9, <1>10, <1>11, <1>12, <1>13 DEF V9938Next

LEMMA VdpStarts ==
  ASSUME V9938Init PROVE VdpInv
<1>1. /\ vdpJob \in VdpJobs /\ vdp = vdpJob.chip /\ vdpSnap = <<>> /\ pair = NoPair
  BY DEF V9938Init
<1>2. /\ {"writes", "fuel"} \subseteq DOMAIN vdpJob /\ vdpJob.writes \subseteq (0..3) \X Byte
      /\ VdpFields \subseteq DOMAIN vdp /\ vdp.regs \in [0..27 -> Nat] /\ DOMAIN vdp.cmd = 0..14
      /\ vdp.status \in Byte /\ vdp.fh \in BOOLEAN /\ vdp.first \in Byte
      /\ vdp.pending = FALSE /\ vdp.irq = IrqPending(vdp)
  BY <1>1, VdpAssumption DEF VdpFields
<1>3. VdpChip(vdp) /\ ~vdp.pending
  BY <1>2 DEF VdpChip, VdpShape
<1> QED BY <1>1, <1>2, <1>3, VdpNoPairIs DEF VdpInv

LEMMA VdpInvIsGood ==
  ASSUME VdpInv PROVE VdpIrqFollowsFlags /\ VdpPairLands
<1>1. VdpChip(vdp) /\ VdpPaired(vdp, pair)
  BY DEF VdpInv
<1>2. VdpIrqFollowsFlags
  <2>1. vdp.irq = IrqPending(vdp)
    BY <1>1 DEF VdpChip
  <2> QED BY <2>1, MasksAreBits DEF VdpIrqFollowsFlags, IrqPending
<1>3. VdpPairLands
  BY <1>1 DEF VdpPaired, VdpLanded, VdpPairLands
<1> QED BY <1>2, <1>3

\* The chip as it is built is such a chip.
LEMMA NewChipIs ==
  ASSUME NEW vram PROVE VdpChip(NewChip(vram)) /\ ~NewChip(vram).pending
<1>1. PICK u : NewChip(vram) = ResetChip(u) /\ VdpFields \subseteq DOMAIN u
  BY DEF NewChip, VdpFields
<1> QED BY <1>1, VdpResetIs

-----------------------------------------------------------------------------

\* No motion of the mouse is lost or counted twice: what the program has assembled of
\* the nibbles, with what waits for the next scan, is what the host moved, whatever
\* the motions, the edges of pin 8 and the times between them, over idle timeouts,
\* save states and loads (read, advance and the timeout of src/msx/mouse.py).
THEOREM MouseKeepsItsMotion == ChipsSpec => []MouseMotionConserved
<1> DEFINE Inv == chosen = "mouse" => MouseInv
<1>1. ChipsInit => Inv
  BY MouseStarts DEF ChipsInit
<1>2. ASSUME Inv, [ChipsNext]_chipVars PROVE Inv'
  <2>1. chosen' = chosen /\ (chosen = "mouse" => [MouseNext]_mouseVars)
    BY <1>2, MouseSteps
  <2> QED BY <1>2, <2>1, MouseKeepsInv
<1>3. ASSUME Inv PROVE MouseMotionConserved
  BY <1>3, ScanningIsConserved DEF MouseMotionConserved, MouseInv
<1> QED BY <1>1, <1>2, <1>3, PTL DEF ChipsSpec

VideoInv ==
  /\ chosen = "v9938" => VdpInv
  /\ chosen = "tms" => TmsInv

LEMMA VideoInvHolds == ChipsSpec => []VideoInv
<1>1. ChipsInit => VideoInv
  BY VdpStarts, TmsStarts DEF ChipsInit, VideoInv
<1>2. ASSUME VideoInv, [ChipsNext]_chipVars PROVE VideoInv'
  <2>1. /\ chosen' = chosen
        /\ chosen = "v9938" => [V9938Next]_v9938Vars
        /\ chosen = "tms" => [TmsNext]_tmsVars
    BY <1>2, VdpSteps, TmsSteps
  <2> QED BY <1>2, <2>1, VdpKeepsInv, TmsKeepsInv DEF VideoInv
<1> QED BY <1>1, <1>2, PTL DEF ChipsSpec

\* On both video chips the interrupt line is at every instant the one that the flags
\* and their enable bits call for: every write, status read, scanline, blanking, reset
\* and load that changes one of them ends with the line as it must be, and the command
\* engine touches none of them (update_irq in src/msx/vdp/v9938.py and tms9918.py).
THEOREM InterruptLineIsTheFlags == ChipsSpec => []IrqFollowsFlags
<1>1. ASSUME VideoInv PROVE IrqFollowsFlags
  BY <1>1, VdpInvIsGood, TmsInvIsGood DEF VideoInv, IrqFollowsFlags
<1> QED BY <1>1, VideoInvHolds, PTL

\* The two bytes of a control pair, for every pair of bytes, set the register, the
\* command register or the address that they name, whatever came before them, and
\* what they set stays until the next access that may change it: over time, the
\* progress of a command, the frame, and a save and its load (_write_control_port of
\* src/msx/vdp/v9938.py, write_control of tms9918.py).
THEOREM PairsSetWhatTheyName == ChipsSpec => []ControlPairLands
<1>1. ASSUME VideoInv PROVE ControlPairLands
  BY <1>1, VdpInvIsGood, TmsInvIsGood DEF VideoInv, ControlPairLands
<1> QED BY <1>1, VideoInvHolds, PTL

-----------------------------------------------------------------------------
(* The floppy controller of the FS-A1F: the bytes since it was idle are    *)
(* the command, its parameters and its data, which is what reaches a disk. *)

TcFields ==
  {"drives", "disks", "control0", "phase", "command", "params", "needed", "result", "exec", "isWrite",
   "execNeeded", "ctr", "fill", "selected", "lastSt0", "lastPcn"}
TcMedia  == [wp : BOOLEAN, spt : Nat, sides : Nat, data : Seq(Seq(Byte))]
TcPhases == {"idle", "command", "execution", "result"}
TcDrives(disks) == [image : {None} \union DOMAIN disks, track : Nat]

TcShape(t) ==
  /\ TcFields \subseteq DOMAIN t
  /\ t.disks \in [DOMAIN t.disks -> TcMedia]
  /\ t.drives \in Seq(TcDrives(t.disks))
  /\ t.phase \in TcPhases /\ t.isWrite \in BOOLEAN

\* The media stay in their drives.
SameMedia(t, w) ==
  /\ Len(w.drives) = Len(t.drives)
  /\ \A i \in 1..Len(t.drives) : w.drives[i].image = t.drives[i].image

\* The bytes of p are those of s from the k-th on.
Follows(s, k, p) == \A i \in 1..Len(p) : s[k + i] = p[i]

WriteAsked(t, s) ==
  /\ Opcode(t) = 5 /\ Len(s) = 9 + Len(t.exec) /\ t.execNeeded = SectorBytes
  /\ t.ctr[1] = s[3] /\ t.ctr[2] = s[4] /\ t.ctr[3] = s[5] /\ Follows(s, 9, t.exec)

FormatAsked(t, s) ==
  /\ Opcode(t) = 13 /\ Len(s) = 6 + Len(t.exec) /\ t.execNeeded = 4 * Max({1, s[4]})
  /\ t.ctr[2] = (s[2] \div 4) % 2 /\ t.fill = s[6]

\* The parameters so far, or the data so far of a command that writes, are the bytes
\* that were sent.
ParametersHeard(t, s) ==
  /\ t.params \in Seq(Byte) /\ Len(t.params) < t.needed /\ Opcode(t) \in DOMAIN ParamCount
  /\ t.needed = ParamCount[Opcode(t)]
  /\ Len(s) = 1 + Len(t.params) /\ s[1] = t.command /\ Follows(s, 1, t.params)
DataHeard(t, s) ==
  /\ t.exec \in Seq(Byte) /\ t.execNeeded \in Nat /\ Len(t.exec) < t.execNeeded
  /\ s[1] = t.command /\ t.selected = s[2] % 4
  /\ WriteAsked(t, s) \/ FormatAsked(t, s)
TcHeard(t, s) ==
  /\ t.phase = "command" => ParametersHeard(t, s)
  /\ t.phase = "execution" /\ t.isWrite => DataHeard(t, s)

TcState(t, a) ==
  /\ TcShape(t) /\ {"sent", "media"} \subseteq DOMAIN a /\ a.sent \in Seq(Byte) /\ TcHeard(t, a.sent)
  /\ t.phase = "idle" => a.sent = <<>>
FirstDisk(t, a) == t.phase # "idle" /\ Len(t.drives) > 0 => a.media[1] = t.drives[1].image

TcInv ==
  /\ TcState(tc, asked) /\ FirstDisk(tc, asked)
  /\ {"script", "fuel"} \subseteq DOMAIN tcJob /\ tcJob.script \in Seq(Byte)
  /\ tcSnap # <<>> => TcState(tcSnap.tc, tcSnap.asked) /\ Len(tcSnap.tc.drives) = Len(tc.drives)

LEMMA ParamCountIs ==
  /\ DOMAIN ParamCount = {3, 4, 5, 6, 7, 8, 13, 15}
  /\ \A c \in DOMAIN ParamCount : ParamCount[c] \in Nat /\ (ParamCount[c] = 0 <=> c = 8)
  /\ ParamCount[3] = 2 /\ ParamCount[4] = 1 /\ ParamCount[5] = 8 /\ ParamCount[6] = 8
  /\ ParamCount[7] = 1 /\ ParamCount[13] = 5 /\ ParamCount[15] = 2
BY DEF ParamCount

LEMMA BytesAre == \A n \in Byte : n \in Nat /\ n % 4 \in Nat
BY DEF Byte

LEMMA LargerIs == \A n \in Nat : Max({1, n}) \in Nat \ {0}
<1> SUFFICES ASSUME NEW n \in Nat PROVE Max({1, n}) \in Nat \ {0}
  OBVIOUS
<1>1. \E x \in {1, n} : \A y \in {1, n} : x >= y
  OBVIOUS
<1> QED BY <1>1 DEF Max

LEMMA TcSame ==
  ASSUME NEW t, TcShape(t), NEW w, DOMAIN w = DOMAIN t, w.disks = t.disks, w.drives = t.drives,
         w.phase \in TcPhases, w.isWrite \in BOOLEAN
  PROVE  TcShape(w) /\ SameMedia(t, w)
BY DEF TcShape, SameMedia

LEMMA ResultingIs ==
  ASSUME NEW t, TcShape(t), NEW bytes
  PROVE  LET w == Resulting(t, bytes) IN
         /\ TcShape(w) /\ SameMedia(t, w) /\ w.disks = t.disks /\ w.phase = "result"
         /\ \A s : TcHeard(w, s)
<1>1. PICK w : w = [t EXCEPT !.result = bytes, !.phase = "result"]
  OBVIOUS
<1>2. DOMAIN w = DOMAIN t /\ w.disks = t.disks /\ w.drives = t.drives /\ w.phase = "result" /\ w.isWrite = t.isWrite
  BY <1>1 DEF TcShape, TcFields
<1>3. TcShape(w) /\ SameMedia(t, w)
  <2>1. w.phase \in TcPhases /\ w.isWrite \in BOOLEAN
    BY <1>2 DEF TcShape, TcPhases
  <2> QED BY <1>2, <2>1, TcSame
<1>4. Resulting(t, bytes) = w
  BY <1>1, Zenon DEF Resulting
<1> QED BY <1>2, <1>3, <1>4 DEF TcHeard

LEMMA MediumIs ==
  ASSUME NEW t, TcShape(t), NEW i \in Nat, HasDisk(t, i)
  PROVE  /\ i + 1 \in 1..Len(t.drives) /\ t.drives[i + 1].image \in DOMAIN t.disks
         /\ Medium(t, i) \in TcMedia
<1>1. i + 1 \in 1..Len(t.drives) /\ t.drives[i + 1].image # None
  BY DEF HasDisk, TcShape
<1>2. t.drives[i + 1] \in TcDrives(t.disks)
  BY <1>1 DEF TcShape
<1>3. t.drives[i + 1].image \in DOMAIN t.disks
  BY <1>1, <1>2 DEF TcDrives
<1> QED BY <1>1, <1>3 DEF Medium, TcShape

LEMMA SeekIs ==
  ASSUME NEW t, TcShape(t), NEW p \in Seq(Byte), Len(p) > 0, NEW cylinder \in Nat
  PROVE  LET w == Seek(t, p, cylinder) IN
         /\ TcShape(w) /\ SameMedia(t, w) /\ w.disks = t.disks /\ w.phase = "idle"
<1> DEFINE i == Unit(p)
           e == i < Len(t.drives)
           x == i + 4 * HeadOf(p) + 32 + (IF e THEN 0 ELSE 8)
           y == IF e THEN cylinder ELSE 0
           u == [t EXCEPT !.selected = i, !.phase = "idle", !.lastSt0 = x, !.lastPcn = y]
           d == [t.drives[i + 1] EXCEPT !.track = cylinder]
           f == [t.drives EXCEPT ![i + 1] = d]
           w == [u EXCEPT !.drives[i + 1].track = cylinder]
<1>1. i \in Nat
  <2>1. p[1] \in Byte
    OBVIOUS
  <2> QED BY <2>1, BytesAre DEF Unit
<1>2. Seek(t, p, cylinder) = IF e THEN w ELSE u
  BY Zenon DEF Seek
<1> HIDE DEF x, y
<1>3. DOMAIN u = DOMAIN t /\ u.disks = t.disks /\ u.drives = t.drives /\ u.phase = "idle" /\ u.isWrite = t.isWrite
  BY DEF TcShape, TcFields
<1>4. TcShape(u) /\ SameMedia(t, u)
  <2>1. u.phase \in TcPhases /\ u.isWrite \in BOOLEAN
    BY <1>3 DEF TcShape, TcPhases
  <2> QED BY <1>3, <2>1, TcSame
<1>5. ASSUME e PROVE TcShape(w) /\ SameMedia(t, w) /\ w.disks = t.disks /\ w.phase = "idle"
  <2>1. i + 1 \in 1..Len(t.drives)
    BY <1>1, <1>5 DEF TcShape
  <2>2. DOMAIN w = DOMAIN u /\ w.drives = [u.drives EXCEPT ![i + 1] = [u.drives[i + 1] EXCEPT !.track = cylinder]]
        /\ w.disks = u.disks /\ w.phase = u.phase /\ w.isWrite = u.isWrite
    <3> HIDE DEF u
    <3> QED BY <1>4 DEF TcShape, TcFields
  <2>3. w.drives = f
    BY <1>3, <2>2
  <2>4. t.drives[i + 1] \in TcDrives(t.disks)
    BY <2>1 DEF TcShape
  <2>5. d \in TcDrives(t.disks) /\ d.image = t.drives[i + 1].image
    BY <2>4 DEF TcDrives
  <2> HIDE DEF d
  <2>6. f \in Seq(TcDrives(t.disks)) /\ Len(f) = Len(t.drives)
        /\ \A j \in 1..Len(t.drives) : f[j] = IF j = i + 1 THEN d ELSE t.drives[j]
    BY <2>1, <2>5 DEF TcShape
  <2> HIDE DEF f, w, u
  <2>7. w.drives \in Seq(TcDrives(w.disks)) /\ SameMedia(t, w)
    BY <1>3, <2>2, <2>3, <2>5, <2>6 DEF SameMedia
  <2> QED BY <1>3, <1>4, <2>2, <2>7 DEF TcShape
<1> HIDE DEF u, w
<1> QED BY <1>2, <1>3, <1>4, <1>5

\* The first bytes of a command with its parameters.
HeardWhole(t, s) ==
  /\ t.params \in Seq(Byte) /\ Opcode(t) \in DOMAIN ParamCount /\ Len(t.params) = ParamCount[Opcode(t)]
  /\ Len(s) = 1 + Len(t.params) /\ s[1] = t.command /\ Follows(s, 1, t.params)

\* The data of a command begins.
Transferring(t, w, i, bytes, ctr) ==
  /\ TcShape(w) /\ SameMedia(t, w) /\ w.disks = t.disks /\ w.drives = t.drives /\ DOMAIN w = DOMAIN t
  /\ w.phase = "execution" /\ w.exec = bytes /\ w.ctr = ctr /\ w.selected = i /\ w.command = t.command

LEMMA DataPhaseIs ==
  ASSUME NEW t, TcShape(t), NEW i, NEW u, u = [t EXCEPT !.selected = i], NEW bytes, NEW ctr
  PROVE  /\ Transferring(t, DataPhase(u, TRUE, bytes, ctr), i, bytes, ctr) /\ DataPhase(u, TRUE, bytes, ctr).isWrite
         /\ Transferring(t, DataPhase(u, FALSE, bytes, ctr), i, bytes, ctr) /\ ~DataPhase(u, FALSE, bytes, ctr).isWrite
<1>1. ASSUME NEW w, w.phase = "execution", w.isWrite \in BOOLEAN, w.disks = t.disks, w.drives = t.drives,
             DOMAIN w = DOMAIN t, w.exec = bytes, w.ctr = ctr, w.selected = i, w.command = t.command
      PROVE  Transferring(t, w, i, bytes, ctr)
  <2>1. w.phase \in TcPhases
    BY <1>1 DEF TcPhases
  <2>2. TcShape(w) /\ SameMedia(t, w)
    BY <1>1, <2>1, TcSame
  <2> QED BY <1>1, <2>2 DEF Transferring
<1>2. Transferring(t, DataPhase(u, TRUE, bytes, ctr), i, bytes, ctr) /\ DataPhase(u, TRUE, bytes, ctr).isWrite
  <2> DEFINE w == DataPhase(u, TRUE, bytes, ctr)
  <2>1. /\ w.disks = t.disks /\ w.drives = t.drives /\ DOMAIN w = DOMAIN t /\ w.phase = "execution"
        /\ w.isWrite = TRUE /\ w.exec = bytes /\ w.ctr = ctr /\ w.selected = i /\ w.command = t.command
    BY DEF DataPhase, TcShape, TcFields
  <2> HIDE DEF w
  <2>2. Transferring(t, w, i, bytes, ctr) /\ w.isWrite
    BY <1>1, <2>1
  <2> QED BY <2>2 DEF w
<1>3. Transferring(t, DataPhase(u, FALSE, bytes, ctr), i, bytes, ctr) /\ ~DataPhase(u, FALSE, bytes, ctr).isWrite
  <2> DEFINE w == DataPhase(u, FALSE, bytes, ctr)
  <2>1. /\ w.disks = t.disks /\ w.drives = t.drives /\ DOMAIN w = DOMAIN t /\ w.phase = "execution"
        /\ w.isWrite = FALSE /\ w.exec = bytes /\ w.ctr = ctr /\ w.selected = i /\ w.command = t.command
    BY DEF DataPhase, TcShape, TcFields
  <2> HIDE DEF w
  <2>2. Transferring(t, w, i, bytes, ctr) /\ ~w.isWrite
    BY <1>1, <2>1
  <2> QED BY <2>2 DEF w
<1> QED BY <1>2, <1>3

LEMMA SelectedIs ==
  ASSUME NEW t, TcShape(t), NEW i
  PROVE  LET u == [t EXCEPT !.selected = i] IN
         TcShape(u) /\ SameMedia(t, u) /\ u.disks = t.disks
<1> DEFINE u == [t EXCEPT !.selected = i]
<1>1. DOMAIN u = DOMAIN t /\ u.disks = t.disks /\ u.drives = t.drives /\ u.phase = t.phase /\ u.isWrite = t.isWrite
  BY DEF TcShape, TcFields
<1> HIDE DEF u
<1>2. TcShape(u) /\ SameMedia(t, u)
  BY <1>1, TcSame DEF TcShape
<1> QED BY <1>1, <1>2 DEF u

\* What a command that takes its time, or ends at once, leaves.
Asking(t, w, s) ==
  /\ TcShape(w) /\ SameMedia(t, w) /\ w.disks = t.disks /\ w.phase \in TcPhases \ {"command"}
  /\ TcHeard(w, s)

LEMMA AbnormalIs ==
  ASSUME NEW t, TcShape(t), NEW u, NEW j, u = [t EXCEPT !.selected = j], NEW i, NEW a, NEW b, NEW ctr, NEW s
  PROVE  Asking(t, Abnormal(u, i, a, b, ctr), s)
<1>1. TcShape(u) /\ SameMedia(t, u) /\ u.disks = t.disks
  BY SelectedIs
<1>2. PICK bytes : bytes = <<Or(i + 64, a), b, 0>> \o ctr
  OBVIOUS
<1>3. PICK w : w = Resulting(u, bytes)
  OBVIOUS
<1>4. TcShape(w) /\ SameMedia(u, w) /\ w.disks = u.disks /\ w.phase = "result" /\ TcHeard(w, s)
  BY <1>1, <1>3, ResultingIs
<1>5. SameMedia(t, w)
  BY <1>1, <1>4 DEF SameMedia
<1>6. Abnormal(u, i, a, b, ctr) = w
  BY <1>2, <1>3, Zenon DEF Abnormal
<1> QED BY <1>1, <1>4, <1>5, <1>6 DEF Asking, TcPhases

LEMMA SectorParameters ==
  ASSUME NEW p \in Seq(Byte), Len(p) = 8
  PROVE  LET c == SubSeq(p, 2, 5) IN c[1] = p[2] /\ c[2] = p[3] /\ c[3] = p[4]
OBVIOUS

LEMMA SectorCommandIs ==
  ASSUME NEW t, TcShape(t), NEW s \in Seq(Byte), HeardWhole(t, s), Opcode(t) \in {5, 6}
  PROVE  Asking(t, SectorCommand(t, t.params, Opcode(t) = 5), s)
<1> DEFINE p   == t.params
           i   == Unit(p)
           wr  == Opcode(t) = 5
           u   == [t EXCEPT !.selected = i]
           ctr == SubSeq(p, 2, 5)
           lsn == Lsn(Medium(t, i), p[2], p[3], p[4])
           v   == DataPhase(u, TRUE, <<>>, ctr)
           w   == [v EXCEPT !.execNeeded = SectorBytes]
           r   == DataPhase(u, FALSE, Medium(t, i).data[lsn + 1], ctr)
<1>1. p \in Seq(Byte) /\ Len(p) = 8 /\ Len(s) = 9 /\ s[1] = t.command /\ Follows(s, 1, p)
  BY ParamCountIs DEF HeardWhole
<1>2. s[2] = p[1] /\ s[3] = p[2] /\ s[4] = p[3] /\ s[5] = p[4]
  BY <1>1 DEF Follows
<1>3. ctr[1] = p[2] /\ ctr[2] = p[3] /\ ctr[3] = p[4]
  BY <1>1, SectorParameters
<1>a. u = [t EXCEPT !.selected = i] /\ v = DataPhase(u, TRUE, <<>>, ctr)
      /\ r = DataPhase(u, FALSE, Medium(t, i).data[lsn + 1], ctr)
  OBVIOUS
<1> HIDE DEF u, v, r
<1>b. Transferring(t, v, i, <<>>, ctr) /\ v.isWrite
  BY <1>a, DataPhaseIs, Zenon
<1>4. /\ TcShape(v) /\ SameMedia(t, v) /\ v.disks = t.disks /\ v.drives = t.drives /\ DOMAIN v = DOMAIN t
      /\ v.phase = "execution" /\ v.isWrite /\ v.exec = <<>> /\ v.ctr = ctr /\ v.selected = i
      /\ v.command = t.command
  BY <1>b, Zenon DEF Transferring
<1>c. Transferring(t, r, i, Medium(t, i).data[lsn + 1], ctr) /\ ~r.isWrite
  BY <1>a, DataPhaseIs, Zenon
<1>5. TcShape(r) /\ SameMedia(t, r) /\ r.disks = t.disks /\ r.phase = "execution" /\ ~r.isWrite
  BY <1>c, Zenon DEF Transferring
<1>6. Asking(t, r, s)
  BY <1>5 DEF Asking, TcPhases, TcHeard
<1>7. ASSUME wr PROVE Asking(t, w, s)
  <2>1. /\ DOMAIN w = DOMAIN v /\ w.disks = v.disks /\ w.drives = v.drives /\ w.phase = v.phase
        /\ w.isWrite = v.isWrite /\ w.exec = v.exec /\ w.ctr = v.ctr /\ w.selected = v.selected
        /\ w.command = v.command /\ w.execNeeded = SectorBytes
    BY <1>4 DEF TcShape, TcFields
  <2> HIDE DEF w
  <2>2. TcShape(w) /\ SameMedia(v, w)
    BY <1>4, <2>1, TcSame DEF TcShape
  <2>3. SameMedia(t, w)
    BY <1>4, <2>2 DEF SameMedia
  <2>4. w.exec \in Seq(Byte) /\ Len(w.exec) = 0
    BY <1>4, <2>1
  <2>5. w.selected = s[2] % 4
    BY <1>2, <1>4, <2>1 DEF Unit
  <2>6. WriteAsked(w, s)
    BY <1>1, <1>2, <1>3, <1>4, <1>7, <2>1, <2>4 DEF WriteAsked, Opcode, Follows
  <2>7. DataHeard(w, s)
    BY <1>1, <1>4, <2>1, <2>4, <2>5, <2>6, SectorBytesAssumption DEF DataHeard
  <2>8. TcHeard(w, s) /\ w.phase \in TcPhases \ {"command"}
    BY <1>4, <2>1, <2>7 DEF TcHeard, TcPhases
  <2> QED BY <1>4, <2>1, <2>2, <2>3, <2>8 DEF Asking
<1>8. \A a, b : Asking(t, Abnormal(u, i, a, b, ctr), s)
  BY <1>a, AbnormalIs, Zenon
<1>9. SectorCommand(t, p, wr) \in {Abnormal(u, i, 8, 0, ctr), Abnormal(u, i, 0, 2, ctr), Abnormal(u, i, 0, 4, ctr), r}
      \/ (wr /\ SectorCommand(t, p, wr) = w)
  BY Zenon DEF SectorCommand, v, r, u
<1> HIDE DEF w, wr
<1>10. Asking(t, SectorCommand(t, p, wr), s)
  BY <1>6, <1>7, <1>8, <1>9, Zenon
<1> QED BY <1>10 DEF wr

LEMMA FormatIs ==
  ASSUME NEW t, TcShape(t), NEW s \in Seq(Byte), HeardWhole(t, s), Opcode(t) = 13
  PROVE  Asking(t, Format(t, t.params), s)
<1> DEFINE p   == t.params
           i   == Unit(p)
           u   == [t EXCEPT !.selected = i]
           ctr == <<0, HeadOf(p), 0, 0>>
           n   == 4 * Max({1, p[3]})
           f   == p[5]
           v   == DataPhase(u, TRUE, <<>>, ctr)
           w   == [v EXCEPT !.execNeeded = n, !.fill = f]
<1>1. p \in Seq(Byte) /\ Len(p) = 5 /\ Len(s) = 6 /\ s[1] = t.command /\ Follows(s, 1, p)
  BY ParamCountIs DEF HeardWhole
<1>2. s[2] = p[1] /\ s[4] = p[3] /\ s[6] = p[5]
  BY <1>1 DEF Follows
<1>3. n \in Nat /\ n > 0
  <2>1. p[3] \in Nat
    <3>1. p[3] \in Byte
      BY <1>1
    <3> QED BY <3>1, BytesAre
  <2>2. Max({1, p[3]}) \in Nat \ {0}
    BY <2>1, LargerIs
  <2> QED BY <2>2
<1>a. u = [t EXCEPT !.selected = i] /\ v = DataPhase(u, TRUE, <<>>, ctr)
  OBVIOUS
<1> HIDE DEF u, v
<1>b. Transferring(t, v, i, <<>>, ctr) /\ v.isWrite
  BY <1>a, DataPhaseIs, Zenon
<1>4. /\ TcShape(v) /\ SameMedia(t, v) /\ v.disks = t.disks /\ v.drives = t.drives /\ DOMAIN v = DOMAIN t
      /\ v.phase = "execution" /\ v.isWrite /\ v.exec = <<>> /\ v.ctr = ctr /\ v.selected = i
      /\ v.command = t.command
  BY <1>b, Zenon DEF Transferring
<1>5. n = 4 * Max({1, s[4]}) /\ f = s[6]
  BY <1>2
<1>6. Format(t, p) \in {Abnormal(u, i, 8, 0, ctr), Abnormal(u, i, 0, 2, ctr), w}
  BY Zenon DEF Format, u, v
<1> HIDE DEF n, f
<1>7. Asking(t, w, s)
  <2>1. /\ DOMAIN w = DOMAIN v /\ w.disks = v.disks /\ w.drives = v.drives /\ w.phase = v.phase
        /\ w.isWrite = v.isWrite /\ w.exec = v.exec /\ w.ctr = v.ctr /\ w.selected = v.selected
        /\ w.command = v.command /\ w.execNeeded = n /\ w.fill = f
    BY <1>4 DEF TcShape, TcFields
  <2> HIDE DEF w
  <2>2. TcShape(w) /\ SameMedia(v, w)
    BY <1>4, <2>1, TcSame DEF TcShape
  <2>3. SameMedia(t, w)
    BY <1>4, <2>2 DEF SameMedia
  <2>4. w.exec \in Seq(Byte) /\ Len(w.exec) = 0
    BY <1>4, <2>1
  <2>5. w.selected = s[2] % 4 /\ w.ctr[2] = (s[2] \div 4) % 2
    BY <1>2, <1>4, <2>1 DEF Unit, HeadOf
  <2>6. FormatAsked(w, s)
    BY <1>1, <1>4, <1>5, <2>1, <2>4, <2>5 DEF FormatAsked, Opcode
  <2>7. DataHeard(w, s)
    BY <1>1, <1>3, <1>4, <2>1, <2>4, <2>5, <2>6 DEF DataHeard
  <2>8. TcHeard(w, s) /\ w.phase \in TcPhases \ {"command"}
    BY <1>4, <2>1, <2>7 DEF TcHeard, TcPhases
  <2> QED BY <1>4, <2>1, <2>2, <2>3, <2>8 DEF Asking
<1>8. \A a, b : Asking(t, Abnormal(u, i, a, b, ctr), s)
  BY <1>a, AbnormalIs, Zenon
<1> HIDE DEF w, ctr
<1> QED BY <1>6, <1>7, <1>8, Zenon

\* A whole command leaves the media, and what it waits for is what was sent.
LEMMA ExecuteIs ==
  ASSUME NEW t, TcShape(t), NEW s \in Seq(Byte), HeardWhole(t, s)
  PROVE  Asking(t, Execute(t), s)
<1> DEFINE p == t.params
<1>1. Opcode(t) \in {3, 4, 5, 6, 7, 8, 13, 15} /\ p \in Seq(Byte) /\ (Opcode(t) = 15 => Len(p) = 2)
      /\ (Opcode(t) = 7 => Len(p) = 1)
  BY ParamCountIs DEF HeardWhole
<1>2. \A bytes : Asking(t, Resulting(t, bytes), s)
  BY ResultingIs DEF Asking, TcPhases
<1>3. ASSUME NEW w, TcShape(w), SameMedia(t, w), w.disks = t.disks, w.phase = "idle"
      PROVE  Asking(t, w, s)
  BY <1>3 DEF Asking, TcPhases, TcHeard
<1>4. CASE Opcode(t) = 3
  <2> DEFINE w == [t EXCEPT !.phase = "idle"]
  <2>1. DOMAIN w = DOMAIN t /\ w.disks = t.disks /\ w.drives = t.drives /\ w.phase = "idle" /\ w.isWrite = t.isWrite
    BY DEF TcShape, TcFields
  <2>2. Execute(t) = w
    <3>1. Opcode(t) # 8 /\ Opcode(t) # 4 /\ Opcode(t) # 7 /\ Opcode(t) # 15
         /\ Opcode(t) # 6 /\ Opcode(t) # 5 /\ Opcode(t) # 13
      BY <1>4
    <3> QED BY <1>4, <3>1, Zenon DEF Execute
  <2> HIDE DEF w
  <2>3. TcShape(w) /\ SameMedia(t, w)
    <3>1. w.phase \in TcPhases /\ w.isWrite \in BOOLEAN
      BY <2>1 DEF TcShape, TcPhases
    <3> QED BY <2>1, <3>1, TcSame
  <2>4. Asking(t, w, s)
    BY <1>3, <2>1, <2>3
  <2> QED BY <2>2, <2>4
<1>5. CASE Opcode(t) = 8
  <2> DEFINE u == Resulting(t, <<t.lastSt0, t.lastPcn>>)
             w == [u EXCEPT !.lastSt0 = 128, !.lastPcn = 0]
  <2>1. TcShape(u) /\ SameMedia(t, u) /\ u.disks = t.disks /\ u.phase = "result"
    BY ResultingIs
  <2>2. Execute(t) = w
    <3>1. Opcode(t) # 3 /\ Opcode(t) # 4 /\ Opcode(t) # 7 /\ Opcode(t) # 15
         /\ Opcode(t) # 6 /\ Opcode(t) # 5 /\ Opcode(t) # 13
      BY <1>5
    <3> QED BY <1>5, <3>1, Zenon DEF Execute, SenseInterrupt
  <2> HIDE DEF u
  <2>3. DOMAIN w = DOMAIN u /\ w.disks = u.disks /\ w.drives = u.drives /\ w.phase = u.phase /\ w.isWrite = u.isWrite
    BY <2>1 DEF TcShape, TcFields
  <2> HIDE DEF w
  <2>4. TcShape(w) /\ SameMedia(u, w)
    BY <2>1, <2>3, TcSame DEF TcShape
  <2>5. Asking(t, w, s)
    BY <2>1, <2>3, <2>4 DEF Asking, SameMedia, TcPhases, TcHeard
  <2> QED BY <2>2, <2>5
<1>6. CASE Opcode(t) = 4
  <2>1. Opcode(t) # 3 /\ Opcode(t) # 8 /\ Opcode(t) # 7 /\ Opcode(t) # 15
       /\ Opcode(t) # 6 /\ Opcode(t) # 5 /\ Opcode(t) # 13
    BY <1>6
  <2> QED BY <1>2, <1>6, <2>1, Zenon DEF Execute, SenseDevice
<1>7. CASE Opcode(t) = 7
  <2>1. Opcode(t) # 3 /\ Opcode(t) # 8 /\ Opcode(t) # 4 /\ Opcode(t) # 15
       /\ Opcode(t) # 6 /\ Opcode(t) # 5 /\ Opcode(t) # 13
    BY <1>7
  <2>b. Len(p) = 1
    BY <1>1, <1>7, Zenon
  <2>a. Len(p) > 0
    BY <2>b
  <2>2. Asking(t, Seek(t, p, 0), s)
    BY <1>1, <1>3, <2>a, SeekIs
  <2>3. Execute(t) = Seek(t, p, 0)
    BY <1>7, <2>1, Zenon DEF Execute
  <2> QED BY <2>2, <2>3
<1>8. CASE Opcode(t) = 15
  <2>1. Opcode(t) # 3 /\ Opcode(t) # 8 /\ Opcode(t) # 4 /\ Opcode(t) # 7
       /\ Opcode(t) # 6 /\ Opcode(t) # 5 /\ Opcode(t) # 13
    BY <1>8
  <2>b. Len(p) = 2
    BY <1>1, <1>8, Zenon
  <2>c. p \in Seq(Byte)
    BY <1>1
  <2>a. Len(p) > 0 /\ p[2] \in Byte
    BY <2>b, <2>c
  <2>2. p[2] \in Nat
    BY <2>a, BytesAre
  <2>3. Asking(t, Seek(t, p, p[2]), s)
    BY <1>1, <1>3, <2>a, <2>2, SeekIs
  <2>4. Execute(t) = Seek(t, p, p[2])
    BY <1>8, <2>1, Zenon DEF Execute
  <2> QED BY <2>3, <2>4
<1>9. CASE Opcode(t) = 6
  <2>1. Opcode(t) # 3 /\ Opcode(t) # 8 /\ Opcode(t) # 4 /\ Opcode(t) # 7
       /\ Opcode(t) # 15 /\ Opcode(t) # 5
        /\ Opcode(t) # 13 /\ (Opcode(t) = 5) = FALSE /\ Opcode(t) \in {5, 6}
    BY <1>9
  <2>2. Asking(t, SectorCommand(t, p, Opcode(t) = 5), s)
    BY <2>1, SectorCommandIs
  <2>3. Execute(t) = SectorCommand(t, p, FALSE)
    BY <1>9, <2>1, Zenon DEF Execute
  <2> QED BY <2>1, <2>2, <2>3
<1>10. CASE Opcode(t) = 5
  <2>1. Opcode(t) # 3 /\ Opcode(t) # 8 /\ Opcode(t) # 4 /\ Opcode(t) # 7
       /\ Opcode(t) # 15 /\ Opcode(t) # 6
        /\ Opcode(t) # 13 /\ (Opcode(t) = 5) = TRUE /\ Opcode(t) \in {5, 6}
    BY <1>10
  <2>2. Asking(t, SectorCommand(t, p, Opcode(t) = 5), s)
    BY <2>1, SectorCommandIs
  <2>3. Execute(t) = SectorCommand(t, p, TRUE)
    BY <1>10, <2>1, Zenon DEF Execute
  <2> QED BY <2>1, <2>2, <2>3
<1>11. CASE Opcode(t) = 13
  <2>1. Opcode(t) # 3 /\ Opcode(t) # 8 /\ Opcode(t) # 4 /\ Opcode(t) # 7
       /\ Opcode(t) # 15 /\ Opcode(t) # 6
        /\ Opcode(t) # 5
    BY <1>11
  <2>2. Asking(t, Format(t, p), s)
    BY <1>11, FormatIs
  <2>3. Execute(t) = Format(t, p)
    BY <1>11, <2>1, Zenon DEF Execute
  <2> QED BY <2>2, <2>3
<1> QED BY <1>1, <1>4, <1>5, <1>6, <1>7, <1>8, <1>9, <1>10, <1>11

LEMMA AskingIs ==
  ASSUME NEW t, TcShape(t), NEW s, NEW w, DOMAIN w = DOMAIN t, w.disks = t.disks, w.drives = t.drives,
         w.phase \in TcPhases \ {"command"}, w.isWrite \in BOOLEAN, w.phase = "execution" => ~w.isWrite
  PROVE  Asking(t, w, s)
<1>1. TcShape(w) /\ SameMedia(t, w)
  BY TcSame
<1> QED BY <1>1 DEF Asking, TcHeard

LEMMA ReadIs ==
  ASSUME NEW t, TcShape(t), NEW s, ToRead(t)
  PROVE  Asking(t, ReadDataRegister(t), s)
<1> DEFINE u == [t EXCEPT !.exec = <<>>]
           v == [t EXCEPT !.exec = Tail(@)]
           n == IF Len(t.result) = 1 THEN "idle" ELSE "result"
           w == [t EXCEPT !.result = Tail(@), !.phase = IF Len(t.result) = 1 THEN "idle" ELSE @]
           b == <<u.selected % 4, 0, 0, u.ctr[1], u.ctr[2], (u.ctr[3] + 1) % 256, u.ctr[4]>>
<1>0. t.phase \in TcPhases /\ t.isWrite \in BOOLEAN
  BY DEF TcShape
<1>1. ASSUME t.phase = "execution", ~t.isWrite PROVE Asking(t, SectorDone(u), s) /\ Asking(t, v, s)
  <2>1. DOMAIN u = DOMAIN t /\ u.disks = t.disks /\ u.drives = t.drives /\ u.phase = t.phase /\ u.isWrite = t.isWrite
    BY DEF TcShape, TcFields
  <2>2. DOMAIN v = DOMAIN t /\ v.disks = t.disks /\ v.drives = t.drives /\ v.phase = t.phase /\ v.isWrite = t.isWrite
    BY DEF TcShape, TcFields
  <2> HIDE DEF u, v
  <2>3. Asking(t, v, s)
    BY <1>0, <1>1, <2>2, AskingIs DEF TcPhases
  <2>4. TcShape(u) /\ SameMedia(t, u)
    BY <1>0, <2>1, TcSame
  <2>5. PICK x : x = Resulting(u, b)
    OBVIOUS
  <2>6. TcShape(x) /\ SameMedia(u, x) /\ x.disks = u.disks /\ x.phase = "result" /\ TcHeard(x, s)
    BY <2>4, <2>5, ResultingIs
  <2>7. SectorDone(u) = x
    BY <2>5, Zenon DEF SectorDone
  <2>8. Asking(t, x, s)
    BY <2>1, <2>4, <2>6 DEF Asking, SameMedia, TcPhases
  <2> QED BY <2>3, <2>7, <2>8
<1>2. ASSUME t.phase = "result" PROVE Asking(t, w, s)
  <2>1. n \in {"idle", "result"} /\ w = [t EXCEPT !.result = Tail(@), !.phase = n]
    BY <1>2
  <2> HIDE DEF n, w
  <2>2. DOMAIN w = DOMAIN t /\ w.disks = t.disks /\ w.drives = t.drives /\ w.phase = n /\ w.isWrite = t.isWrite
    BY <2>1 DEF TcShape, TcFields
  <2> QED BY <1>0, <2>1, <2>2, AskingIs DEF TcPhases
<1>3. Asking(t, t, s)
  BY <1>0, AskingIs DEF ToRead, TcPhases
<1>4. CASE t.phase = "execution" /\ ~t.isWrite /\ t.exec # <<>>
  <2>1. ReadDataRegister(t) = IF Len(t.exec) = 1 THEN SectorDone(u) ELSE v
    <3>1. ~(t.phase = "result" /\ t.result # <<>>)
      BY <1>4
    <3> QED BY <1>4, <3>1, Zenon DEF ReadDataRegister
  <2> HIDE DEF u, v
  <2> QED BY <1>1, <1>4, <2>1, Zenon
<1>5. CASE t.phase = "result" /\ t.result # <<>>
  <2>1. ReadDataRegister(t) = w
    <3>1. ~(t.phase = "execution" /\ ~t.isWrite /\ t.exec # <<>>)
      BY <1>5
    <3> QED BY <1>5, <3>1, Zenon DEF ReadDataRegister
  <2> HIDE DEF w
  <2> QED BY <1>2, <1>5, <2>1
<1>6. CASE ~(t.phase = "execution" /\ ~t.isWrite /\ t.exec # <<>>) /\ ~(t.phase = "result" /\ t.result # <<>>)
  <2>1. ReadDataRegister(t) = t
    BY <1>6, Zenon DEF ReadDataRegister
  <2> QED BY <1>3, <2>1
<1> QED BY <1>4, <1>5, <1>6, Zenon

\* The sectors of the disk in a drive are written.
Rewritten(t, w, i, sectors, bytes) ==
  \A m \in DOMAIN t.disks : w.disks[m] # t.disks[m] =>
    /\ HasDisk(t, i) /\ m = t.drives[i + 1].image /\ ~t.disks[m].wp
    /\ DOMAIN w.disks[m].data = DOMAIN t.disks[m].data
    /\ \A x \in DOMAIN t.disks[m].data :
         w.disks[m].data[x] = IF x - 1 \in sectors THEN bytes ELSE t.disks[m].data[x]
    /\ \E x \in DOMAIN t.disks[m].data : x - 1 \in sectors /\ w.disks[m].data[x] # t.disks[m].data[x]

\* A step that leaves the media in their drives.
KeepsMedia(t, w) ==
  /\ TcShape(w) /\ SameMedia(t, w) /\ DOMAIN w.disks = DOMAIN t.disks /\ w.phase \in TcPhases

LEMMA RewriteIs ==
  ASSUME NEW S, NEW q \in Seq(S), NEW b \in S, NEW sectors,
         NEW e, e = [x \in DOMAIN q |-> IF x - 1 \in sectors THEN b ELSE q[x]]
  PROVE  /\ e \in Seq(S) /\ DOMAIN e = DOMAIN q
         /\ \A x \in DOMAIN q : e[x] = IF x - 1 \in sectors THEN b ELSE q[x]
         /\ e # q => \E x \in DOMAIN q : x - 1 \in sectors /\ e[x] # q[x]
<1>1. DOMAIN q = 1..Len(q) /\ Len(q) \in Nat /\ \A x \in DOMAIN q : q[x] \in S
  OBVIOUS
<1>2. DOMAIN e = 1..Len(q) /\ \A x \in 1..Len(q) : e[x] \in S /\ e[x] = IF x - 1 \in sectors THEN b ELSE q[x]
  BY <1>1
<1>3. e \in Seq(S) /\ Len(e) = Len(q)
  <2>1. e \in [1..Len(q) -> S]
    BY <1>1, <1>2
  <2> QED BY <1>1, <2>1
<1>4. ASSUME \A x \in DOMAIN q : e[x] = q[x] PROVE e = q
  BY <1>1, <1>2, <1>3, <1>4
<1> QED BY <1>1, <1>2, <1>3, <1>4

LEMMA DiskWritten ==
  ASSUME NEW t, TcShape(t), NEW i \in Nat, NEW sectors, NEW bytes \in Seq(Byte)
  PROVE  LET w == Written(t, i, sectors, bytes) IN
         /\ KeepsMedia(t, w) /\ w.drives = t.drives /\ Rewritten(t, w, i, sectors, bytes)
<1>1. CASE ~HasDisk(t, i) \/ Medium(t, i).wp
  <2>1. Written(t, i, sectors, bytes) = t
    BY <1>1, Zenon DEF Written
  <2>2. KeepsMedia(t, t) /\ Rewritten(t, t, i, sectors, bytes)
    BY DEF KeepsMedia, Rewritten, TcShape, SameMedia
  <2> QED BY <2>1, <2>2
<1>2. CASE HasDisk(t, i) /\ ~Medium(t, i).wp
  <2> DEFINE k == t.drives[i + 1].image
             d == t.disks[k]
             e == [x \in DOMAIN d.data |-> IF x - 1 \in sectors THEN bytes ELSE d.data[x]]
             f == [d EXCEPT !.data = e]
             w == [t EXCEPT !.disks[k].data =
                     [x \in DOMAIN @ |-> IF x - 1 \in sectors THEN bytes ELSE @[x]]]
  <2>1. Written(t, i, sectors, bytes) = w
    BY <1>2, Zenon DEF Written
  <2>2. k \in DOMAIN t.disks /\ d \in TcMedia /\ i + 1 \in 1..Len(t.drives)
    BY <1>2, MediumIs DEF Medium
  <2>3. d.data \in Seq(Seq(Byte))
    BY <2>2 DEF TcMedia
  <2>a. e = [x \in DOMAIN d.data |-> IF x - 1 \in sectors THEN bytes ELSE d.data[x]]
    OBVIOUS
  <2> HIDE DEF e
  <2>4. /\ e \in Seq(Seq(Byte)) /\ DOMAIN e = DOMAIN d.data
        /\ \A x \in DOMAIN d.data : e[x] = IF x - 1 \in sectors THEN bytes ELSE d.data[x]
        /\ e # d.data => \E x \in DOMAIN d.data : x - 1 \in sectors /\ e[x] # d.data[x]
    <3>1. PICK q : q = d.data
      OBVIOUS
    <3>2. PICK S : S = Seq(Byte)
      OBVIOUS
    <3>3. q \in Seq(S) /\ bytes \in S
      BY <2>3, <3>1, <3>2
    <3>4. e = [x \in DOMAIN q |-> IF x - 1 \in sectors THEN bytes ELSE q[x]]
      BY <2>a, <3>1
    <3> HIDE DEF d
    <3>5. /\ e \in Seq(S) /\ DOMAIN e = DOMAIN q
          /\ \A x \in DOMAIN q : e[x] = IF x - 1 \in sectors THEN bytes ELSE q[x]
          /\ e # q => \E x \in DOMAIN q : x - 1 \in sectors /\ e[x] # q[x]
      BY <3>3, <3>4, RewriteIs, SMT
    <3> QED BY <3>1, <3>2, <3>5
  <2>5. w = [t EXCEPT !.disks = [t.disks EXCEPT ![k] = f]]
    BY <2>2, <2>a DEF TcShape, TcFields
  <2> HIDE DEF w
  <2>7. f \in TcMedia /\ f.data = e
    BY <2>2, <2>4, Zenon DEF TcMedia
  <2>8. ~d.wp
    BY <1>2 DEF Medium
  <2> HIDE DEF f
  <2>9. /\ DOMAIN w = DOMAIN t /\ w.disks = [t.disks EXCEPT ![k] = f] /\ w.drives = t.drives
        /\ w.phase = t.phase /\ w.isWrite = t.isWrite
    BY <2>5 DEF TcShape, TcFields
  <2>10. w.disks \in [DOMAIN w.disks -> TcMedia] /\ DOMAIN w.disks = DOMAIN t.disks
         /\ \A m \in DOMAIN t.disks : w.disks[m] = IF m = k THEN f ELSE t.disks[m]
    BY <2>2, <2>7, <2>9 DEF TcShape
  <2>11. w.drives \in Seq(TcDrives(w.disks))
    BY <2>9, <2>10, Zenon DEF TcShape, TcDrives
  <2>12. KeepsMedia(t, w)
    BY <2>9, <2>10, <2>11 DEF KeepsMedia, TcShape, SameMedia
  <2>13. Rewritten(t, w, i, sectors, bytes)
    <3>1. \A m \in DOMAIN t.disks : w.disks[m] # t.disks[m] => m = k
      BY <2>10
    <3>2. w.disks[k] = f /\ w.disks[k].data = e
      BY <2>2, <2>7, <2>10
    <3>3. e = d.data => f = d
      BY <2>2, <2>7 DEF TcMedia, f
    <3> QED BY <1>2, <2>4, <2>8, <3>1, <3>2, <3>3, Zenon DEF Rewritten
  <2> QED BY <2>1, <2>9, <2>12, <2>13
<1> QED BY <1>1, <1>2

\* The disks that a step from t to w changes are as the bytes s of a command ask.
Landed(t, w, s) ==
  \A m \in DOMAIN t.disks : w.disks[m] # t.disks[m] =>
    LET i == s[2] % 4
        img == t.disks[m]
        changed == {l \in DOMAIN img.data : w.disks[m].data[l] # img.data[l]}
        track == IF s[1] % 32 = 13 THEN TrackSectors(img, t.drives[i + 1].track, (s[2] \div 4) % 2) ELSE {}
    IN /\ ~img.wp /\ i + 1 \in 1..Len(t.drives) /\ t.drives[i + 1].image = m
       /\ \/ /\ s[1] % 32 = 5 /\ Len(s) = 9 + SectorBytes
             /\ changed = {Lsn(img, s[3], s[4], s[5]) + 1}
             /\ \A l \in changed : w.disks[m].data[l] = SubSeq(s, 10, 9 + SectorBytes)
          \/ /\ s[1] % 32 = 13 /\ Len(s) = 6 + 4 * Max({1, s[4]})
             /\ changed \subseteq {l + 1 : l \in track}
             /\ \A l \in track : l + 1 \in DOMAIN img.data =>
                  w.disks[m].data[l + 1] = [b \in 1..SectorBytes |-> s[6]]

LEMMA LsnIs ==
  ASSUME NEW m \in TcMedia, NEW c \in Nat, NEW h \in Nat, NEW r \in Nat
  PROVE  Lsn(m, c, h, r) \in Int
<1>1. m.sides \in Nat /\ m.spt \in Nat
  BY DEF TcMedia
<1>2. c * m.sides + h \in Nat
  BY <1>1
<1>3. (c * m.sides + h) * m.spt \in Nat
  BY <1>1, <1>2
<1> QED BY <1>3 DEF Lsn

LEMMA TrackIs ==
  ASSUME NEW m \in TcMedia, NEW c \in Nat, NEW h \in Nat
  PROVE  TrackSectors(m, c, h) \subseteq Int
<1>1. m.spt \in Nat
  BY DEF TcMedia
<1>2. \A r \in 1..m.spt : Lsn(m, c, h, r) \in Int
  BY <1>1, LsnIs
<1> QED BY <1>2, Zenon DEF TrackSectors

LEMMA DataIn ==
  ASSUME NEW m \in TcMedia PROVE m.data \in Seq(Seq(Byte)) /\ DOMAIN m.data \subseteq Int
<1>1. m.data \in Seq(Seq(Byte))
  BY DEF TcMedia
<1> QED BY <1>1

LEMMA SectorLands ==
  ASSUME NEW t, TcShape(t), NEW w, NEW s, NEW l \in Int, NEW bytes, s[2] % 4 \in Nat,
         Rewritten(t, w, s[2] % 4, {l}, bytes), s[1] % 32 = 5, Len(s) = 9 + SectorBytes,
         bytes = SubSeq(s, 10, 9 + SectorBytes),
         HasDisk(t, s[2] % 4) => l = Lsn(Medium(t, s[2] % 4), s[3], s[4], s[5])
  PROVE  Landed(t, w, s)
<1> SUFFICES ASSUME NEW m \in DOMAIN t.disks, w.disks[m] # t.disks[m]
             PROVE  LET i == s[2] % 4
                        img == t.disks[m]
                        changed == {x \in DOMAIN img.data : w.disks[m].data[x] # img.data[x]}
                    IN /\ ~img.wp /\ i + 1 \in 1..Len(t.drives) /\ t.drives[i + 1].image = m
                       /\ changed = {Lsn(img, s[3], s[4], s[5]) + 1}
                       /\ \A x \in changed : w.disks[m].data[x] = SubSeq(s, 10, 9 + SectorBytes)
  BY Zenon DEF Landed
<1> DEFINE i == s[2] % 4
           img == t.disks[m]
           new == w.disks[m].data
<1>1. /\ HasDisk(t, i) /\ m = t.drives[i + 1].image /\ ~img.wp
      /\ \A x \in DOMAIN img.data : new[x] = IF x - 1 \in {l} THEN bytes ELSE img.data[x]
      /\ \E x \in DOMAIN img.data : x - 1 \in {l} /\ new[x] # img.data[x]
  BY Zenon DEF Rewritten
<1>2. i + 1 \in 1..Len(t.drives) /\ img \in TcMedia
  BY <1>1, MediumIs, Zenon DEF Medium
<1>3. DOMAIN img.data \subseteq Int
  BY <1>2, DataIn, Zenon
<1>4. l = Lsn(img, s[3], s[4], s[5])
  BY <1>1, Zenon DEF Medium
<1> HIDE DEF img, new
<1>5. {x \in DOMAIN img.data : new[x] # img.data[x]} = {l + 1}
  <2>1. \A x \in DOMAIN img.data : x - 1 \in {l} <=> x = l + 1
    BY <1>3
  <2>2. \A x \in DOMAIN img.data : new[x] # img.data[x] => x = l + 1
    BY <1>1, <2>1
  <2>3. l + 1 \in DOMAIN img.data /\ new[l + 1] # img.data[l + 1]
    BY <1>1, <2>1
  <2> QED BY <2>2, <2>3
<1>6. \A x \in DOMAIN img.data : new[x] # img.data[x] => new[x] = bytes
  BY <1>1, Zenon
<1> QED BY <1>1, <1>2, <1>4, <1>5, <1>6, Zenon DEF img, new

LEMMA TrackLands ==
  ASSUME NEW t, TcShape(t), NEW w, NEW s, NEW sectors \in SUBSET Int, NEW bytes, s[2] % 4 \in Nat,
         Rewritten(t, w, s[2] % 4, sectors, bytes), s[1] % 32 = 13, Len(s) = 6 + 4 * Max({1, s[4]}),
         bytes = [b \in 1..SectorBytes |-> s[6]],
         HasDisk(t, s[2] % 4) =>
           sectors = TrackSectors(Medium(t, s[2] % 4), t.drives[(s[2] % 4) + 1].track, (s[2] \div 4) % 2)
  PROVE  Landed(t, w, s)
<1> SUFFICES ASSUME NEW m \in DOMAIN t.disks, w.disks[m] # t.disks[m]
             PROVE  LET i == s[2] % 4
                        img == t.disks[m]
                        changed == {x \in DOMAIN img.data : w.disks[m].data[x] # img.data[x]}
                        track == TrackSectors(img, t.drives[i + 1].track, (s[2] \div 4) % 2)
                    IN /\ ~img.wp /\ i + 1 \in 1..Len(t.drives) /\ t.drives[i + 1].image = m
                       /\ changed \subseteq {x + 1 : x \in track}
                       /\ \A x \in track : x + 1 \in DOMAIN img.data =>
                            w.disks[m].data[x + 1] = [b \in 1..SectorBytes |-> s[6]]
  BY Zenon DEF Landed
<1> DEFINE i == s[2] % 4
           img == t.disks[m]
           new == w.disks[m].data
<1>1. /\ HasDisk(t, i) /\ m = t.drives[i + 1].image /\ ~img.wp
      /\ \A x \in DOMAIN img.data : new[x] = IF x - 1 \in sectors THEN bytes ELSE img.data[x]
  BY Zenon DEF Rewritten
<1>2. i + 1 \in 1..Len(t.drives) /\ img \in TcMedia
  BY <1>1, MediumIs, Zenon DEF Medium
<1>3. DOMAIN img.data \subseteq Int
  BY <1>2, DataIn, Zenon
<1>4. sectors = TrackSectors(img, t.drives[i + 1].track, (s[2] \div 4) % 2)
  BY <1>1, Zenon DEF Medium
<1> HIDE DEF img, new
<1>5. {x \in DOMAIN img.data : new[x] # img.data[x]} \subseteq {x + 1 : x \in sectors}
  <2> SUFFICES ASSUME NEW x \in DOMAIN img.data, new[x] # img.data[x] PROVE x \in {y + 1 : y \in sectors}
    OBVIOUS
  <2>1. x \in Int /\ x - 1 \in sectors
    BY <1>1, <1>3, Zenon
  <2>2. x = (x - 1) + 1
    BY <2>1
  <2> QED BY <2>1, <2>2
<1>6. \A x \in sectors : x + 1 \in DOMAIN img.data => new[x + 1] = bytes
  <2> SUFFICES ASSUME NEW x \in sectors, x + 1 \in DOMAIN img.data PROVE new[x + 1] = bytes
    OBVIOUS
  <2>1. (x + 1) - 1 \in sectors
    <3>1. (x + 1) - 1 = x
      OBVIOUS
    <3> QED BY <3>1
  <2> QED BY <1>1, <2>1, Zenon
<1> QED BY <1>1, <1>2, <1>4, <1>5, <1>6, Zenon DEF img, new

LEMMA SentData ==
  ASSUME NEW s \in Seq(Byte), NEW e \in Seq(Byte), NEW n \in Nat, Len(e) = n, Len(s) = 9 + n,
         Follows(s, 9, e)
  PROVE  e = SubSeq(s, 10, 9 + n)
<1>1. SubSeq(s, 10, 9 + n) \in Seq(Byte) /\ Len(SubSeq(s, 10, 9 + n)) = n
      /\ \A k \in 1..n : SubSeq(s, 10, 9 + n)[k] = s[9 + k]
  <2> PICK S : S = Byte
    OBVIOUS
  <2> QED OBVIOUS
<1> QED BY <1>1 DEF Follows

LEMMA FollowsOn ==
  ASSUME NEW S, NEW s \in Seq(S), NEW p \in Seq(S), NEW b \in S, NEW k \in Nat, Follows(s, k, p), Len(s) = k + Len(p)
  PROVE  Follows(Append(s, b), k, Append(p, b))
<1>1. Len(Append(p, b)) = Len(p) + 1 /\ Append(s, b)[k + (Len(p) + 1)] = b /\ Append(p, b)[Len(p) + 1] = b
  <2>1. k + (Len(p) + 1) = Len(s) + 1
    OBVIOUS
  <2> QED BY <2>1, AppendIs
<1>2. \A j \in 1..Len(p) : Append(s, b)[k + j] = s[k + j] /\ Append(p, b)[j] = p[j]
  OBVIOUS
<1>3. \A j \in 1..(Len(p) + 1) : j \in 1..Len(p) \/ j = Len(p) + 1
  OBVIOUS
<1> QED BY <1>1, <1>2, <1>3 DEF Follows

LEMMA WrittenThen ==
  ASSUME NEW t, TcShape(t), NEW u, TcShape(u), SameMedia(t, u), u.disks = t.disks, u.drives = t.drives,
         NEW i \in Nat, NEW sectors, NEW bytes \in Seq(Byte), NEW r, NEW w,
         w = Resulting(Written(u, i, sectors, bytes), r)
  PROVE  KeepsMedia(t, w) /\ w.phase = "result" /\ Rewritten(t, w, i, sectors, bytes)
<1>0. PICK v : v = Written(u, i, sectors, bytes)
  OBVIOUS
<1>1. KeepsMedia(u, v) /\ v.drives = u.drives /\ Rewritten(u, v, i, sectors, bytes)
  BY <1>0, DiskWritten
<1>2. TcShape(w) /\ SameMedia(v, w) /\ w.disks = v.disks /\ w.phase = "result"
  BY <1>0, <1>1, ResultingIs DEF KeepsMedia
<1>3. KeepsMedia(t, w)
  BY <1>1, <1>2 DEF KeepsMedia, SameMedia, TcPhases
<1>4. HasDisk(u, i) <=> HasDisk(t, i)
  BY DEF HasDisk
<1>5. Rewritten(t, w, i, sectors, bytes)
  BY <1>1, <1>2, <1>4 DEF Rewritten
<1> QED BY <1>2, <1>3, <1>5

LEMMA FilledIs ==
  ASSUME NEW S, NEW f \in S, NEW n \in Nat PROVE [k \in 1..n |-> f] \in Seq(S)
OBVIOUS

\* The last byte of the data.
LEMMA LastByteIs ==
  ASSUME NEW t, TcShape(t), NEW s \in Seq(Byte), t.phase = "execution", t.isWrite, DataHeard(t, s),
         NEW b \in Byte, Len(t.exec) + 1 >= t.execNeeded, NEW u, u = [t EXCEPT !.exec = Append(@, b)]
  PROVE  LET w == LastByte(u) IN
         KeepsMedia(t, w) /\ w.phase = "result" /\ Landed(t, w, Append(s, b))
<1> DEFINE z == Append(s, b)
           i == u.selected
<1>1. /\ t.exec \in Seq(Byte) /\ Len(t.exec) + 1 = t.execNeeded /\ s[1] = t.command /\ t.selected = s[2] % 4
      /\ Len(s) > 5 /\ (WriteAsked(t, s) \/ FormatAsked(t, s))
  <2>1. /\ t.exec \in Seq(Byte) /\ t.execNeeded \in Nat /\ Len(t.exec) < t.execNeeded
        /\ s[1] = t.command /\ t.selected = s[2] % 4 /\ (WriteAsked(t, s) \/ FormatAsked(t, s))
    BY Zenon DEF DataHeard
  <2>2. Len(s) = 9 + Len(t.exec) \/ Len(s) = 6 + Len(t.exec)
    BY <2>1, Zenon DEF WriteAsked, FormatAsked
  <2> QED BY <2>1, <2>2
<1>2. z \in Seq(Byte) /\ Len(z) = Len(s) + 1 /\ \A k \in 1..6 : z[k] = s[k]
  BY <1>1, AppendIs
<1>3. /\ DOMAIN u = DOMAIN t /\ u.disks = t.disks /\ u.drives = t.drives /\ u.phase = t.phase
      /\ u.isWrite = t.isWrite /\ u.ctr = t.ctr /\ u.fill = t.fill /\ u.selected = t.selected /\ u.command = t.command
      /\ u.exec = Append(t.exec, b)
  BY DEF TcShape, TcFields
<1> HIDE DEF z
<1>4. i \in Nat /\ i = z[2] % 4 /\ s[2] \in Byte
  <2>1. s[2] \in Byte
    BY <1>1
  <2>2. s[2] % 4 \in Nat
    BY <2>1, BytesAre
  <2> QED BY <1>1, <1>2, <1>3, <2>1, <2>2
<1>5. TcShape(u) /\ SameMedia(t, u)
  BY <1>3, TcSame DEF TcShape
<1>6. HasDisk(u, i) => i + 1 \in 1..Len(t.drives) /\ Medium(u, i) \in TcMedia /\ t.drives[i + 1].track \in Nat
  <2>1. ASSUME HasDisk(u, i) PROVE i + 1 \in 1..Len(t.drives) /\ Medium(u, i) \in TcMedia
    BY <1>4, <1>3, <1>5, <2>1, MediumIs
  <2>2. \A k \in 1..Len(t.drives) : t.drives[k].track \in Nat
    <3>1. \A k \in 1..Len(t.drives) : t.drives[k] \in TcDrives(t.disks)
      BY DEF TcShape
    <3> QED BY <3>1 DEF TcDrives
  <2> QED BY <2>1, <2>2
<1>8. CASE WriteAsked(t, s)
  <2> DEFINE l == Lsn(Medium(u, i), t.ctr[1], t.ctr[2], t.ctr[3])
             sectors == IF HasDisk(u, i) THEN {l} ELSE {}
             bytes == Append(t.exec, b)
             v == Written(u, i, sectors, bytes)
             w == LastByte(u)
  <2>1. Opcode(u) = 5 /\ Opcode(u) # 13 /\ z[1] % 32 = 5
    BY <1>1, <1>2, <1>3, <1>8 DEF WriteAsked, Opcode
  <2>2. bytes \in Seq(Byte) /\ Len(bytes) = SectorBytes /\ Len(z) = 9 + SectorBytes
    BY <1>1, <1>2, <1>8, AppendIs, SectorBytesAssumption DEF WriteAsked
  <2>3. Follows(z, 9, bytes)
    <3>1. Follows(s, 9, t.exec) /\ Len(s) = 9 + Len(t.exec)
      BY <1>8 DEF WriteAsked
    <3> PICK S : S = Byte
      OBVIOUS
    <3>2. s \in Seq(S) /\ t.exec \in Seq(S) /\ b \in S /\ 9 \in Nat
      BY <1>1
    <3> QED BY <3>1, <3>2, FollowsOn DEF z
  <2>4. bytes = SubSeq(z, 10, 9 + SectorBytes)
    BY <1>2, <2>2, <2>3, SentData, SectorBytesAssumption
  <2>5. t.ctr[1] = z[3] /\ t.ctr[2] = z[4] /\ t.ctr[3] = z[5] /\ z[3] \in Nat /\ z[4] \in Nat /\ z[5] \in Nat
    <3>1. z[3] \in Byte /\ z[4] \in Byte /\ z[5] \in Byte
      BY <1>1, <1>2
    <3>2. z[3] \in Nat /\ z[4] \in Nat /\ z[5] \in Nat
      BY <3>1, BytesAre
    <3>3. z[3] = s[3] /\ z[4] = s[4] /\ z[5] = s[5]
      BY <1>2
    <3> QED BY <1>8, <3>2, <3>3 DEF WriteAsked
  <2>6. PICK r : w = Resulting(v, r)
    BY <1>3, <2>1, Zenon DEF LastByte, SectorDone
  <2> HIDE DEF w, v, bytes
  <2>7. KeepsMedia(t, w) /\ w.phase = "result" /\ Rewritten(t, w, i, sectors, bytes)
    <3>0. PICK x : x = u
      OBVIOUS
    <3>1. x.disks = t.disks /\ x.drives = t.drives /\ TcShape(x) /\ SameMedia(t, x) /\ i \in Nat
      BY <1>4, <1>3, <1>5, <3>0
    <3>2. w = Resulting(Written(x, i, sectors, bytes), r)
      BY <2>6, <3>0 DEF v
    <3>3. bytes \in Seq(Byte)
      BY <2>2
    <3> HIDE DEF i, sectors
    <3> QED BY <3>1, <3>2, <3>3, WrittenThen, SMT
  <2>8. (HasDisk(u, i) <=> HasDisk(t, i)) /\ Medium(u, i) = Medium(t, i)
    BY <1>3 DEF HasDisk, Medium
  <2>9. CASE HasDisk(u, i)
    <3>1. l \in Int /\ sectors = {l} /\ l = Lsn(Medium(t, i), z[3], z[4], z[5])
      BY <1>6, <2>5, <2>8, <2>9, LsnIs
    <3> HIDE DEF l, sectors
    <3>2. Landed(t, w, z)
      BY <1>4, <2>1, <2>2, <2>4, <2>7, <3>1, SectorLands
    <3> QED BY <2>7, <3>2 DEF w, z
  <2>10. CASE ~HasDisk(u, i)
    <3>1. Landed(t, w, z)
      BY <2>7, <2>8, <2>10, Zenon DEF Landed, Rewritten
    <3> QED BY <2>7, <3>1 DEF w, z
  <2> QED BY <2>9, <2>10
<1>9. CASE FormatAsked(t, s)
  <2> DEFINE sectors == IF HasDisk(u, i) THEN TrackSectors(Medium(u, i), u.drives[i + 1].track, u.ctr[2]) ELSE {}
             bytes == [k \in 1..SectorBytes |-> u.fill]
             v == Written(u, i, sectors, bytes)
             w == LastByte(u)
  <2>1. Opcode(u) = 13 /\ z[1] % 32 = 13
    BY <1>1, <1>2, <1>3, <1>9 DEF FormatAsked, Opcode
  <2>2. Len(z) = 6 + 4 * Max({1, z[4]}) /\ t.fill = z[6] /\ z[6] \in Byte
    <3>1. z[6] = s[6] /\ z[4] = s[4]
      BY <1>2
    <3>2. z[6] \in Byte
      BY <1>1, <1>2
    <3> QED BY <1>1, <1>2, <1>9, <3>1, <3>2 DEF FormatAsked
  <2>3. bytes \in Seq(Byte) /\ bytes = [k \in 1..SectorBytes |-> z[6]]
    <3>1. u.fill \in Byte /\ u.fill = z[6] /\ SectorBytes \in Nat
      BY <1>3, <2>2, SectorBytesAssumption
    <3> QED BY <3>1, FilledIs
  <2>4. t.ctr[2] = (z[2] \div 4) % 2 /\ t.ctr[2] \in Nat
    <3>1. z[2] = s[2]
      BY <1>2
    <3>2. s[2] \in Nat
      BY <1>4, BytesAre
    <3> QED BY <1>9, <3>1, <3>2 DEF FormatAsked
  <2>6. PICK r : w = Resulting(v, r)
    BY <1>3, <2>1, Zenon DEF LastByte
  <2> HIDE DEF w, v, bytes
  <2>7. KeepsMedia(t, w) /\ w.phase = "result" /\ Rewritten(t, w, i, sectors, bytes)
    <3>0. PICK x : x = u
      OBVIOUS
    <3>1. x.disks = t.disks /\ x.drives = t.drives /\ TcShape(x) /\ SameMedia(t, x) /\ i \in Nat
      BY <1>4, <1>3, <1>5, <3>0
    <3>2. w = Resulting(Written(x, i, sectors, bytes), r)
      BY <2>6, <3>0 DEF v
    <3>3. bytes \in Seq(Byte)
      BY <2>3
    <3> HIDE DEF i, sectors
    <3> QED BY <3>1, <3>2, <3>3, WrittenThen, SMT
  <2>8. (HasDisk(u, i) <=> HasDisk(t, i)) /\ Medium(u, i) = Medium(t, i)
    BY <1>3 DEF HasDisk, Medium
  <2>9. CASE HasDisk(u, i)
    <3>1. sectors \in SUBSET Int
      BY <1>3, <1>6, <2>4, <2>9, TrackIs
    <3>2. sectors = TrackSectors(Medium(t, i), t.drives[i + 1].track, (z[2] \div 4) % 2)
      BY <1>3, <2>4, <2>8, <2>9
    <3> HIDE DEF sectors
    <3>3. Landed(t, w, z)
      BY <1>4, <2>1, <2>2, <2>3, <2>7, <3>1, <3>2, TrackLands
    <3> QED BY <2>7, <3>3 DEF w, z
  <2>10. CASE ~HasDisk(u, i)
    <3>1. Landed(t, w, z)
      BY <2>7, <2>8, <2>10, Zenon DEF Landed, Rewritten
    <3> QED BY <2>7, <3>1 DEF w, z
  <2> QED BY <2>9, <2>10
<1> QED BY <1>1, <1>8, <1>9

\* What a byte of the program may do.
Heeds(t, w, z) ==
  /\ KeepsMedia(t, w) /\ TcHeard(w, z) /\ Landed(t, w, z)
  /\ t.phase = "idle" \/ w.phase = "idle" => w.disks = t.disks

LEMMA Onward ==
  ASSUME NEW t, TcShape(t), NEW z, NEW u, DOMAIN u = DOMAIN t, u.disks = t.disks, u.drives = t.drives,
         u.phase \in TcPhases, u.isWrite \in BOOLEAN
  PROVE  /\ TcShape(u) /\ (TcHeard(u, z) => Heeds(t, u, z))
         /\ \A w : Asking(u, w, z) => Heeds(t, w, z)
<1>1. TcShape(u) /\ SameMedia(t, u)
  BY TcSame
<1>2. \A w : w.disks = t.disks => Landed(t, w, z)
  BY Zenon DEF Landed
<1>3. KeepsMedia(t, u)
  BY <1>1 DEF KeepsMedia
<1>4. \A w : Asking(u, w, z) => KeepsMedia(t, w) /\ TcHeard(w, z) /\ w.disks = t.disks
  <2> SUFFICES ASSUME NEW w, Asking(u, w, z) PROVE KeepsMedia(t, w) /\ TcHeard(w, z) /\ w.disks = t.disks
    BY Zenon
  <2>1. TcShape(w) /\ SameMedia(u, w) /\ w.disks = u.disks /\ w.phase \in TcPhases /\ TcHeard(w, z)
    BY DEF Asking
  <2>2. SameMedia(t, w)
    BY <1>1, <2>1 DEF SameMedia
  <2> QED BY <2>1, <2>2 DEF KeepsMedia
<1> QED BY <1>1, <1>2, <1>3, <1>4, Zenon DEF Heeds

LEMMA StartIs ==
  ASSUME NEW t, TcShape(t), t.phase = "idle", NEW b \in Byte, NEW z \in Seq(Byte), z = <<b>>
  PROVE  Heeds(t, StartCommand(t, b), z)
<1> DEFINE c == b % 32
           n == ParamCount[c]
           w == [t EXCEPT !.command = b]
           u == [w EXCEPT !.params = <<>>, !.needed = 0]
           v == [w EXCEPT !.params = <<>>, !.needed = n, !.phase = "command"]
<1>0. t.isWrite \in BOOLEAN /\ "idle" \in TcPhases /\ "command" \in TcPhases /\ Len(z) = 1 /\ z[1] = b
      /\ <<>> \in Seq(Byte)
  BY DEF TcShape, TcPhases
<1>1. DOMAIN w = DOMAIN t /\ w.disks = t.disks /\ w.drives = t.drives /\ w.phase = "idle" /\ w.isWrite = t.isWrite
      /\ w.command = b
  BY DEF TcShape, TcFields
<1> HIDE DEF w, n
<1>2. TcShape(w)
  BY <1>0, <1>1, Onward
<1>3. StartCommand(t, b) = IF c \notin DOMAIN ParamCount THEN Resulting(w, <<128>>) ELSE IF n = 0 THEN Execute(u) ELSE v
  BY Zenon DEF StartCommand, w, n
<1>4. Heeds(t, Resulting(w, <<128>>), z)
  <2>1. Asking(w, Resulting(w, <<128>>), z)
    BY <1>2, ResultingIs DEF Asking, TcPhases
  <2> QED BY <1>0, <1>1, <2>1, Onward
<1>5. ASSUME c \in DOMAIN ParamCount, n = 0 PROVE Heeds(t, Execute(u), z)
  <2>1. /\ DOMAIN u = DOMAIN t /\ u.disks = t.disks /\ u.drives = t.drives /\ u.phase = "idle"
        /\ u.isWrite = t.isWrite /\ u.command = b /\ u.params = <<>>
    BY <1>1, <1>2 DEF TcShape, TcFields
  <2> HIDE DEF u
  <2>2. TcShape(u)
    BY <1>0, <2>1, Onward
  <2>3. HeardWhole(u, z)
    BY <1>0, <1>5, <2>1 DEF HeardWhole, Opcode, Follows, n
  <2>4. Asking(u, Execute(u), z)
    BY <2>2, <2>3, ExecuteIs
  <2> QED BY <1>0, <2>1, <2>4, Onward
<1>6. ASSUME c \in DOMAIN ParamCount, n # 0 PROVE Heeds(t, v, z)
  <2>1. /\ DOMAIN v = DOMAIN t /\ v.disks = t.disks /\ v.drives = t.drives /\ v.phase = "command"
        /\ v.isWrite = t.isWrite /\ v.command = b /\ v.params = <<>> /\ v.needed = n
    BY <1>1, <1>2 DEF TcShape, TcFields
  <2> HIDE DEF v
  <2>2. n \in Nat /\ n > 0 /\ n = ParamCount[c]
    BY <1>6, ParamCountIs DEF n
  <2>3. ParametersHeard(v, z)
    BY <1>0, <1>6, <2>1, <2>2 DEF ParametersHeard, Opcode, Follows
  <2>4. TcHeard(v, z)
    BY <2>1, <2>3 DEF TcHeard
  <2> QED BY <1>0, <2>1, <2>4, Onward
<1> HIDE DEF u, v, c
<1> QED BY <1>3, <1>4, <1>5, <1>6, Zenon

LEMMA ParameterIs ==
  ASSUME NEW t, TcShape(t), t.phase = "command", NEW s \in Seq(Byte), ParametersHeard(t, s), NEW b \in Byte,
         NEW z \in Seq(Byte), z = Append(s, b), NEW w, w = [t EXCEPT !.params = Append(@, b)]
  PROVE  Heeds(t, IF Len(w.params) >= t.needed THEN Execute(w) ELSE w, z)
<1>1. /\ DOMAIN w = DOMAIN t /\ w.disks = t.disks /\ w.drives = t.drives /\ w.phase = "command"
      /\ w.isWrite = t.isWrite /\ w.command = t.command /\ w.params = Append(t.params, b) /\ w.needed = t.needed
  BY DEF TcShape, TcFields
<1>2. w.isWrite \in BOOLEAN /\ w.phase \in TcPhases
  BY <1>1 DEF TcShape, TcPhases
<1>3. TcShape(w)
  BY <1>1, <1>2, Onward
<1>4. /\ t.params \in Seq(Byte) /\ Len(t.params) < t.needed /\ Opcode(t) \in DOMAIN ParamCount
      /\ t.needed = ParamCount[Opcode(t)] /\ t.needed \in Nat
      /\ Len(s) = 1 + Len(t.params) /\ s[1] = t.command /\ Follows(s, 1, t.params)
  BY ParamCountIs DEF ParametersHeard
<1>5. w.params \in Seq(Byte) /\ Len(w.params) = Len(t.params) + 1
  BY <1>1, <1>4, AppendIs
<1>6. Len(z) = 1 + Len(w.params) /\ z[1] = w.command
  BY <1>1, <1>4, <1>5, AppendIs
<1>7. Follows(z, 1, w.params)
  <2> PICK S : S = Byte
    OBVIOUS
  <2>1. s \in Seq(S) /\ t.params \in Seq(S) /\ b \in S /\ 1 \in Nat
    BY <1>4
  <2> QED BY <1>1, <1>4, <2>1, FollowsOn
<1>8. Opcode(w) = Opcode(t)
  BY <1>1 DEF Opcode
<1>9. ASSUME Len(w.params) >= t.needed PROVE Heeds(t, Execute(w), z)
  <2>1. Len(w.params) = t.needed
    BY <1>4, <1>5, <1>9
  <2>2. HeardWhole(w, z)
    BY <1>4, <1>5, <1>6, <1>7, <1>8, <2>1 DEF HeardWhole
  <2>3. Asking(w, Execute(w), z)
    BY <1>3, <2>2, ExecuteIs
  <2> QED BY <1>1, <1>2, <2>3, Onward
<1>10. ASSUME ~(Len(w.params) >= t.needed) PROVE Heeds(t, w, z)
  <2>1. Len(w.params) < w.needed
    BY <1>1, <1>4, <1>5, <1>10
  <2>2. ParametersHeard(w, z)
    BY <1>1, <1>4, <1>5, <1>6, <1>7, <1>8, <2>1 DEF ParametersHeard
  <2>3. TcHeard(w, z)
    BY <1>1, <2>2 DEF TcHeard
  <2> QED BY <1>1, <1>2, <2>3, Onward
<1> QED BY <1>9, <1>10

LEMMA DataIs ==
  ASSUME NEW t, TcShape(t), t.phase = "execution", t.isWrite, NEW s \in Seq(Byte), DataHeard(t, s),
         NEW b \in Byte, NEW z \in Seq(Byte), z = Append(s, b), NEW w, w = [t EXCEPT !.exec = Append(@, b)]
  PROVE  Heeds(t, IF Len(w.exec) >= t.execNeeded THEN LastByte(w) ELSE w, z)
<1>1. /\ DOMAIN w = DOMAIN t /\ w.disks = t.disks /\ w.drives = t.drives /\ w.phase = "execution"
      /\ w.isWrite = t.isWrite /\ w.command = t.command /\ w.exec = Append(t.exec, b)
      /\ w.execNeeded = t.execNeeded /\ w.ctr = t.ctr /\ w.fill = t.fill /\ w.selected = t.selected
  BY DEF TcShape, TcFields
<1>2. w.isWrite \in BOOLEAN /\ w.phase \in TcPhases
  BY <1>1 DEF TcShape, TcPhases
<1>4. /\ t.exec \in Seq(Byte) /\ t.execNeeded \in Nat /\ Len(t.exec) < t.execNeeded
      /\ s[1] = t.command /\ t.selected = s[2] % 4
      /\ WriteAsked(t, s) \/ FormatAsked(t, s)
  BY DEF DataHeard
<1>5. w.exec \in Seq(Byte) /\ Len(w.exec) = Len(t.exec) + 1
  BY <1>1, <1>4, AppendIs
<1>6. Len(s) > 5 /\ Len(z) = Len(s) + 1 /\ \A k \in 1..6 : z[k] = s[k]
  <2>1. Len(s) = 9 + Len(t.exec) \/ Len(s) = 6 + Len(t.exec)
    BY <1>4, Zenon DEF WriteAsked, FormatAsked
  <2>2. Len(s) > 5
    BY <1>4, <2>1
  <2> QED BY <2>2, AppendIs
<1>7. ASSUME Len(w.exec) >= t.execNeeded PROVE Heeds(t, LastByte(w), z)
  <2>1. Len(t.exec) + 1 >= t.execNeeded
    BY <1>5, <1>7
  <2>2. PICK x : x = LastByte(w)
    OBVIOUS
  <2>3. KeepsMedia(t, x) /\ x.phase = "result" /\ Landed(t, x, z)
    BY <2>1, <2>2, LastByteIs
  <2> QED BY <2>2, <2>3 DEF Heeds, TcHeard
<1>8. ASSUME ~(Len(w.exec) >= t.execNeeded) PROVE Heeds(t, w, z)
  <2>1. Opcode(w) = Opcode(t)
    BY <1>1 DEF Opcode
  <2>2. ASSUME WriteAsked(t, s) PROVE WriteAsked(w, z)
    <3>1. Follows(z, 9, w.exec)
      <4> PICK S : S = Byte
        OBVIOUS
      <4>1. s \in Seq(S) /\ t.exec \in Seq(S) /\ b \in S /\ 9 \in Nat /\ Follows(s, 9, t.exec) /\ Len(s) = 9 + Len(t.exec)
        BY <1>4, <2>2 DEF WriteAsked
      <4> QED BY <1>1, <4>1, FollowsOn
    <3>2. z[3] = s[3] /\ z[4] = s[4] /\ z[5] = s[5]
      BY <1>6
    <3> QED BY <1>1, <1>5, <1>6, <2>1, <2>2, <3>1, <3>2 DEF WriteAsked
  <2>3. ASSUME FormatAsked(t, s) PROVE FormatAsked(w, z)
    <3>1. z[2] = s[2] /\ z[4] = s[4] /\ z[6] = s[6]
      BY <1>6
    <3> QED BY <1>1, <1>5, <1>6, <2>1, <2>3, <3>1 DEF FormatAsked
  <2>4. z[1] = w.command /\ w.selected = z[2] % 4
    BY <1>1, <1>4, <1>6
  <2>a. Len(w.exec) < w.execNeeded /\ w.execNeeded \in Nat
    BY <1>1, <1>4, <1>5, <1>8
  <2>b. WriteAsked(w, z) \/ FormatAsked(w, z)
    BY <1>4, <2>2, <2>3
  <2>5. DataHeard(w, z)
    BY <1>5, <2>4, <2>a, <2>b, Zenon DEF DataHeard
  <2>6. TcHeard(w, z)
    BY <1>1, <2>5 DEF TcHeard
  <2> QED BY <1>1, <1>2, <2>6, Onward
<1> QED BY <1>7, <1>8

LEMMA WriteIs ==
  ASSUME NEW t, TcShape(t), NEW s \in Seq(Byte), TcHeard(t, s), t.phase = "idle" => s = <<>>, ~ToRead(t),
         NEW b \in Byte
  PROVE  Heeds(t, WriteDataRegister(t, b), Append(s, b))
<1>1. PICK z \in Seq(Byte) : z = Append(s, b)
  BY AppendIs
<1>2. t.phase \in {"idle", "command"} \/ (t.phase = "execution" /\ t.isWrite)
  BY DEF ToRead, TcShape, TcPhases
<1>3. CASE t.phase = "idle"
  <2>1. z = <<b>>
    BY <1>1, <1>3
  <2>2. WriteDataRegister(t, b) = StartCommand(t, b)
    <3>1. t.phase # "command" /\ t.phase # "execution"
      BY <1>3
    <3> QED BY <1>3, <3>1, Zenon DEF WriteDataRegister
  <2>3. Heeds(t, StartCommand(t, b), z)
    BY <1>3, <2>1, StartIs
  <2> QED BY <1>1, <2>2, <2>3
<1>4. CASE t.phase = "command"
  <2>1. PICK w : w = [t EXCEPT !.params = Append(@, b)]
    OBVIOUS
  <2>2. ParametersHeard(t, s)
    BY <1>4 DEF TcHeard
  <2>3. WriteDataRegister(t, b) = IF Len(w.params) >= t.needed THEN Execute(w) ELSE w
    <3>1. t.phase # "idle" /\ t.phase # "execution"
      BY <1>4
    <3> QED BY <1>4, <2>1, <3>1, Zenon DEF WriteDataRegister
  <2>4. Heeds(t, IF Len(w.params) >= t.needed THEN Execute(w) ELSE w, z)
    BY <1>1, <1>4, <2>1, <2>2, ParameterIs, Zenon
  <2> QED BY <1>1, <2>3, <2>4, Zenon
<1>5. CASE t.phase = "execution" /\ t.isWrite
  <2>1. PICK w : w = [t EXCEPT !.exec = Append(@, b)]
    OBVIOUS
  <2>2. DataHeard(t, s)
    BY <1>5 DEF TcHeard
  <2>3. WriteDataRegister(t, b) = IF Len(w.exec) >= t.execNeeded THEN LastByte(w) ELSE w
    <3>1. t.phase # "idle" /\ t.phase # "command"
      BY <1>5
    <3> QED BY <1>5, <2>1, <3>1, Zenon DEF WriteDataRegister
  <2>4. Heeds(t, IF Len(w.exec) >= t.execNeeded THEN LastByte(w) ELSE w, z)
    BY <1>1, <1>5, <2>1, <2>2, DataIs, Zenon
  <2> QED BY <1>1, <2>3, <2>4, Zenon
<1> QED BY <1>2, <1>3, <1>4, <1>5

LEMMA AbortIs ==
  ASSUME NEW t, TcShape(t)
  PROVE  LET w == Abort(t) IN
         TcShape(w) /\ w.disks = t.disks /\ w.drives = t.drives /\ w.phase = "idle"
<1> DEFINE w == Abort(t)
<1>1. DOMAIN w = DOMAIN t /\ w.disks = t.disks /\ w.drives = t.drives /\ w.phase = "idle" /\ w.isWrite = FALSE
  BY DEF Abort, TcShape, TcFields
<1> HIDE DEF w
<1>2. TcShape(w)
  BY <1>1, TcSame DEF TcPhases
<1> QED BY <1>1, <1>2 DEF w

LEMMA AskedIs ==
  ASSUME TcInv, NEW w, TcShape(w), NEW z \in Seq(Byte),
         w.phase # "idle" => TcHeard(w, z) /\ Len(w.drives) = Len(tc.drives)
                             /\ (Len(w.drives) > 0 => w.drives[1].image = tc.drives[1].image)
  PROVE  LET a == Asked(w, z) IN
         /\ TcState(w, a) /\ FirstDisk(w, a) /\ (w.phase # "idle" => a.sent = z)
<1>1. CASE w.phase = "idle"
  <2>1. Asked(w, z) = [sent |-> <<>>, media |-> Media(w)]
    BY <1>1, Zenon DEF Asked
  <2>2. TcHeard(w, <<>>)
    BY <1>1 DEF TcHeard
  <2> QED BY <1>1, <2>1, <2>2 DEF TcState, FirstDisk
<1>2. CASE w.phase # "idle"
  <2> DEFINE m == IF tc.phase = "idle" THEN Media(w) ELSE asked.media
  <2>1. Asked(w, z) = [sent |-> z, media |-> m]
    BY <1>2, Zenon DEF Asked
  <2>2. Len(w.drives) > 0 => m[1] = w.drives[1].image
    <3>1. Len(w.drives) > 0 => Media(w)[1] = w.drives[1].image
      BY DEF Media, TcShape
    <3> QED BY <1>2, <3>1 DEF TcInv, FirstDisk
  <2> HIDE DEF m
  <2> QED BY <1>2, <2>1, <2>2 DEF TcState, FirstDisk
<1> QED BY <1>1, <1>2

LEMMA TcProgramIs ==
  ASSUME TcInv, TcProgram PROVE TcInv' /\ WrittenAsAsked
<1> DEFINE s == asked.sent
<1>1. TcShape(tc) /\ s \in Seq(Byte) /\ TcHeard(tc, s) /\ (tc.phase = "idle" => s = <<>>)
  BY DEF TcInv, TcState
<1>2. UNCHANGED tcSnap
  BY DEF TcProgram
<1>3. ASSUME KeepsMedia(tc, tc'), NEW z \in Seq(Byte), TcHeard(tc', z), asked' = Asked(tc', z),
             "script" \in DOMAIN tcJob' /\ "fuel" \in DOMAIN tcJob' /\ tcJob'.script \in Seq(Byte)
      PROVE  TcInv' /\ (tc'.phase # "idle" => asked'.sent = z)
  <2>1. TcShape(tc') /\ Len(tc'.drives) = Len(tc.drives)
        /\ (Len(tc'.drives) > 0 => tc'.drives[1].image = tc.drives[1].image)
    BY <1>1, <1>3 DEF KeepsMedia, SameMedia, TcShape
  <2>2. TcState(tc', asked') /\ FirstDisk(tc', asked') /\ (tc'.phase # "idle" => asked'.sent = z)
    BY <1>3, <2>1, AskedIs
  <2> QED BY <1>2, <1>3, <2>1, <2>2 DEF TcInv
<1>4. CASE ToRead(tc)
  <2>1. tc' = ReadDataRegister(tc) /\ asked' = Asked(tc', s) /\ UNCHANGED tcJob
    BY <1>4 DEF TcProgram
  <2>2. Asking(tc, tc', s)
    BY <1>1, <1>4, <2>1, ReadIs
  <2>3. KeepsMedia(tc, tc') /\ TcHeard(tc', s) /\ tc'.disks = tc.disks
    BY <2>2 DEF Asking, KeepsMedia
  <2>4. WrittenAsAsked
    BY <2>3, Zenon DEF WrittenAsAsked
  <2>5. "script" \in DOMAIN tcJob' /\ "fuel" \in DOMAIN tcJob' /\ tcJob'.script \in Seq(Byte)
    BY <2>1 DEF TcInv
  <2> QED BY <1>1, <1>3, <2>1, <2>3, <2>4, <2>5
<1>5. CASE ~ToRead(tc)
  <2> DEFINE b == Head(tcJob.script)
  <2>1. /\ tcJob.script # <<>> /\ tcJob' = [tcJob EXCEPT !.script = Tail(@)]
        /\ tc' = WriteDataRegister(tc, b) /\ asked' = Asked(tc', Append(s, b))
    BY <1>5 DEF TcProgram
  <2>2. b \in Byte /\ "script" \in DOMAIN tcJob' /\ "fuel" \in DOMAIN tcJob' /\ tcJob'.script \in Seq(Byte)
    BY <2>1 DEF TcInv
  <2> HIDE DEF b
  <2>3. PICK z \in Seq(Byte) : z = Append(s, b)
    BY <1>1, <2>2, AppendIs
  <2>4. Heeds(tc, tc', z)
    BY <1>1, <1>5, <2>1, <2>2, <2>3, WriteIs
  <2>5. TcInv' /\ (tc'.phase # "idle" => asked'.sent = z)
    BY <1>3, <2>1, <2>2, <2>3, <2>4 DEF Heeds
  <2>6. WrittenAsAsked
    <3> SUFFICES ASSUME NEW m \in DOMAIN tc.disks, tc'.disks[m] # tc.disks[m]
                 PROVE  LET y == asked'.sent
                            i == y[2] % 4
                            img == tc.disks[m]
                            changed == {l \in DOMAIN img.data : tc'.disks[m].data[l] # img.data[l]}
                            track == IF y[1] % 32 = 13
                                       THEN TrackSectors(img, tc.drives[i + 1].track, (y[2] \div 4) % 2) ELSE {}
                        IN /\ ~img.wp /\ tc.drives[i + 1].image = m
                           /\ i = 0 => asked.media[1] = m
                           /\ \/ /\ y[1] % 32 = 5 /\ Len(y) = 9 + SectorBytes
                                 /\ changed = {Lsn(img, y[3], y[4], y[5]) + 1}
                                 /\ \A l \in changed : tc'.disks[m].data[l] = SubSeq(y, 10, 9 + SectorBytes)
                              \/ /\ y[1] % 32 = 13 /\ Len(y) = 6 + 4 * Max({1, y[4]})
                                 /\ changed \subseteq {l + 1 : l \in track}
                                 /\ \A l \in track : l + 1 \in DOMAIN img.data =>
                                      tc'.disks[m].data[l + 1] = [x \in 1..SectorBytes |-> y[6]]
      BY Zenon DEF WrittenAsAsked
    <3> DEFINE y == asked'.sent
               i == y[2] % 4
    <3>1. Landed(tc, tc', y) /\ tc'.phase # "idle" /\ tc.phase # "idle"
      <4>1. Landed(tc, tc', z) /\ tc'.phase # "idle" /\ tc.phase # "idle"
        BY <2>4, Zenon DEF Heeds
      <4> QED BY <2>5, <4>1
    <3>2. i = 0 => asked.media[1] = m
      <4>1. i + 1 \in 1..Len(tc.drives) /\ tc.drives[i + 1].image = m
        BY <3>1, Zenon DEF Landed
      <4>3. Len(tc.drives) > 0
        BY <1>1, <4>1 DEF TcShape
      <4> QED BY <3>1, <4>1, <4>3 DEF TcInv, FirstDisk
    <3> QED BY <3>1, <3>2, Zenon DEF Landed
  <2> QED BY <2>5, <2>6
<1> QED BY <1>4, <1>5

\* What the host does changes no disk.
LEMMA TcHostKeeps ==
  ASSUME TcInv, NEW e, TcHost(e), UNCHANGED tcSnap, TcShape(tc'), Len(tc'.drives) = Len(tc.drives),
         tc'.disks = tc.disks, asked' = Asked(tc', asked.sent),
         tc'.phase # "idle" => TcHeard(tc', asked.sent)
                               /\ (Len(tc'.drives) > 0 => tc'.drives[1].image = tc.drives[1].image)
  PROVE  TcInv' /\ WrittenAsAsked
<1>1. asked.sent \in Seq(Byte)
  BY DEF TcInv, TcState
<1>2. TcState(tc', asked') /\ FirstDisk(tc', asked')
  BY <1>1, AskedIs
<1>3. "script" \in DOMAIN tcJob' /\ "fuel" \in DOMAIN tcJob' /\ tcJob'.script = tcJob.script
  BY DEF TcHost, TcInv
<1>4. TcInv'
  BY <1>2, <1>3 DEF TcInv
<1>5. WrittenAsAsked
  BY Zenon DEF WrittenAsAsked
<1> QED BY <1>4, <1>5

LEMMA HeardOn ==
  ASSUME NEW t, NEW w, NEW s, TcHeard(t, s), w.phase = t.phase, w.isWrite = t.isWrite, w.command = t.command,
         w.params = t.params, w.needed = t.needed, w.exec = t.exec, w.execNeeded = t.execNeeded,
         w.ctr = t.ctr, w.fill = t.fill, w.selected = t.selected
  PROVE  TcHeard(w, s)
<1>1. Opcode(w) = Opcode(t)
  BY DEF Opcode
<1>2. ParametersHeard(t, s) => ParametersHeard(w, s)
  BY <1>1 DEF ParametersHeard
<1>3. WriteAsked(t, s) => WriteAsked(w, s)
  BY <1>1 DEF WriteAsked
<1>4. FormatAsked(t, s) => FormatAsked(w, s)
  BY <1>1 DEF FormatAsked
<1>5. DataHeard(t, s) => DataHeard(w, s)
  BY <1>3, <1>4 DEF DataHeard
<1> QED BY <1>2, <1>5 DEF TcHeard

LEMMA TcSwapIs ==
  ASSUME TcInv, TcSwap PROVE TcInv' /\ WrittenAsAsked
<1>1. PICK i \in DOMAIN tc.drives, image \in {None} \union DOMAIN tc.disks : tc' = Swapped(tc, i, image)
  BY DEF TcSwap
<1> DEFINE d == [tc.drives[i] EXCEPT !.image = image]
           w == [tc EXCEPT !.drives[i].image = image]
<1>2. TcShape(tc) /\ TcHeard(tc, asked.sent) /\ i \in 1..Len(tc.drives)
  BY DEF TcInv, TcState, TcShape
<1>3. tc.drives[i] \in TcDrives(tc.disks)
  BY <1>2 DEF TcShape
<1>4. d \in TcDrives(tc.disks)
  BY <1>3 DEF TcDrives
<1>5. w = [tc EXCEPT !.drives = [tc.drives EXCEPT ![i] = d]]
  BY <1>2 DEF TcShape, TcFields
<1> HIDE DEF d, w
<1>6. /\ DOMAIN w = DOMAIN tc /\ w.disks = tc.disks /\ w.drives = [tc.drives EXCEPT ![i] = d]
      /\ w.phase = tc.phase /\ w.isWrite = tc.isWrite /\ w.command = tc.command /\ w.params = tc.params
      /\ w.needed = tc.needed /\ w.exec = tc.exec /\ w.execNeeded = tc.execNeeded /\ w.ctr = tc.ctr
      /\ w.fill = tc.fill /\ w.selected = tc.selected
  BY <1>2, <1>5 DEF TcShape, TcFields
<1>7. w.drives \in Seq(TcDrives(tc.disks)) /\ Len(w.drives) = Len(tc.drives)
      /\ \A j \in 1..Len(tc.drives) : j # i => w.drives[j] = tc.drives[j]
  BY <1>2, <1>4, <1>6 DEF TcShape
<1>8. TcShape(w)
  BY <1>2, <1>6, <1>7 DEF TcShape
<1>9. TcHeard(w, asked.sent)
  BY <1>2, <1>6, HeardOn
<1>10. tc' = IF i = 1 THEN Abort(w) ELSE w
  BY <1>1, Zenon DEF Swapped, w
<1>11. TcShape(tc') /\ tc'.disks = tc.disks /\ tc'.drives = w.drives /\ (i = 1 => tc'.phase = "idle")
  BY <1>6, <1>8, <1>10, AbortIs
<1>12. tc'.phase # "idle" => TcHeard(tc', asked.sent)
         /\ (Len(tc'.drives) > 0 => tc'.drives[1].image = tc.drives[1].image)
  <2> SUFFICES ASSUME tc'.phase # "idle" PROVE TcHeard(tc', asked.sent)
                 /\ (Len(tc'.drives) > 0 => tc'.drives[1].image = tc.drives[1].image)
    OBVIOUS
  <2>1. i # 1 /\ tc' = w
    BY <1>10, <1>11
  <2> QED BY <1>2, <1>7, <1>9, <2>1
<1>13. TcHost("swap") /\ UNCHANGED tcSnap /\ asked' = Asked(tc', asked.sent)
  BY DEF TcSwap
<1> QED BY <1>7, <1>11, <1>12, <1>13, TcHostKeeps

LEMMA TcControlIs ==
  ASSUME TcInv, TcControl PROVE TcInv' /\ WrittenAsAsked
<1>1. PICK b \in {0, 4} : tc' = WriteControl0(tc, b)
  BY DEF TcControl
<1> DEFINE w == [tc EXCEPT !.control0 = b]
<1>2. TcShape(tc) /\ TcHeard(tc, asked.sent) /\ tc.phase \in TcPhases /\ tc.isWrite \in BOOLEAN
  BY DEF TcInv, TcState, TcShape
<1>3. /\ DOMAIN w = DOMAIN tc /\ w.disks = tc.disks /\ w.drives = tc.drives
      /\ w.phase = tc.phase /\ w.isWrite = tc.isWrite /\ w.command = tc.command /\ w.params = tc.params
      /\ w.needed = tc.needed /\ w.exec = tc.exec /\ w.execNeeded = tc.execNeeded /\ w.ctr = tc.ctr
      /\ w.fill = tc.fill /\ w.selected = tc.selected
  BY <1>2 DEF TcShape, TcFields
<1>4. tc' = w \/ tc' = Abort(w)
  BY <1>1, Zenon DEF WriteControl0
<1> HIDE DEF w
<1>5. TcShape(w) /\ TcHeard(w, asked.sent)
  BY <1>2, <1>3, TcSame, HeardOn
<1>6. TcShape(tc') /\ tc'.disks = tc.disks /\ tc'.drives = tc.drives
      /\ (tc'.phase # "idle" => TcHeard(tc', asked.sent))
  BY <1>3, <1>4, <1>5, AbortIs
<1>7. TcHost("control") /\ UNCHANGED tcSnap /\ asked' = Asked(tc', asked.sent)
  BY DEF TcControl
<1> QED BY <1>6, <1>7, TcHostKeeps

LEMMA TcResetIs ==
  ASSUME TcInv, TcMachineReset PROVE TcInv' /\ WrittenAsAsked
<1> DEFINE w == [tc EXCEPT !.control0 = 0, !.selected = 0, !.lastSt0 = 128, !.lastPcn = 0]
<1>1. TcShape(tc) /\ tc.phase \in TcPhases /\ tc.isWrite \in BOOLEAN
  BY DEF TcInv, TcState, TcShape
<1>2. /\ DOMAIN w = DOMAIN tc /\ w.disks = tc.disks /\ w.drives = tc.drives
      /\ w.phase = tc.phase /\ w.isWrite = tc.isWrite
  BY <1>1 DEF TcShape, TcFields
<1>3. tc' = Abort(w)
  BY Zenon DEF TcMachineReset, TcReset
<1> HIDE DEF w
<1>4. TcShape(w)
  BY <1>1, <1>2, TcSame
<1>5. TcShape(tc') /\ tc'.disks = tc.disks /\ tc'.drives = tc.drives /\ tc'.phase = "idle"
  BY <1>2, <1>3, <1>4, AbortIs
<1>6. TcHost("reset") /\ UNCHANGED tcSnap /\ asked' = Asked(tc', asked.sent)
  BY DEF TcMachineReset
<1> QED BY <1>5, <1>6, TcHostKeeps

LEMMA TcSaveIs ==
  ASSUME TcInv, TcSave PROVE TcInv' /\ WrittenAsAsked
<1>1. UNCHANGED <<tc, asked>> /\ tcSnap' = [tc |-> tc, asked |-> asked]
  BY DEF TcSave
<1>2. tcSnap'.tc = tc /\ tcSnap'.asked = asked
  BY <1>1
<1>3. "script" \in DOMAIN tcJob' /\ "fuel" \in DOMAIN tcJob' /\ tcJob'.script = tcJob.script
  BY DEF TcSave, TcHost, TcInv
<1>4. TcInv'
  BY <1>1, <1>2, <1>3 DEF TcInv
<1>5. WrittenAsAsked
  BY <1>1, Zenon DEF WrittenAsAsked
<1> QED BY <1>4, <1>5

\* A loaded controller stands in the middle of its command, over the disks of now.
LEMMA TcLoadIs ==
  ASSUME TcInv, TcLoad PROVE TcInv' /\ WrittenAsAsked
<1> DEFINE t == tcSnap.tc
           f == [i \in DOMAIN t.drives |-> [t.drives[i] EXCEPT !.image = tc.drives[i].image]]
           a == tcSnap.asked
<1>1. /\ TcShape(tc) /\ TcState(t, a) /\ TcShape(t) /\ Len(t.drives) = Len(tc.drives)
      /\ TcHeard(t, a.sent)
  BY DEF TcLoad, TcInv, TcState
<1>2. tc' = [t EXCEPT !.disks = tc.disks, !.drives = f] /\ asked' = [a EXCEPT !.media = Media(tc)]
  BY DEF TcLoad
<1>3. f \in Seq(TcDrives(tc.disks)) /\ Len(f) = Len(tc.drives)
      /\ \A i \in 1..Len(tc.drives) : f[i].image = tc.drives[i].image
  <2>1. DOMAIN t.drives = 1..Len(tc.drives) /\ Len(tc.drives) \in Nat
    BY <1>1 DEF TcShape
  <2>2. \A i \in 1..Len(tc.drives) : tc.drives[i] \in TcDrives(tc.disks) /\ t.drives[i] \in TcDrives(t.disks)
    BY <1>1, <2>1 DEF TcShape
  <2>3. \A i \in 1..Len(tc.drives) :
          [t.drives[i] EXCEPT !.image = tc.drives[i].image] \in TcDrives(tc.disks)
          /\ [t.drives[i] EXCEPT !.image = tc.drives[i].image].image = tc.drives[i].image
    BY <2>2 DEF TcDrives
  <2>4. f \in [1..Len(tc.drives) -> TcDrives(tc.disks)]
    BY <2>1, <2>3
  <2> QED BY <2>1, <2>3, <2>4
<1> HIDE DEF f
<1>4. /\ DOMAIN tc' = DOMAIN t /\ tc'.disks = tc.disks /\ tc'.drives = f
      /\ tc'.phase = t.phase /\ tc'.isWrite = t.isWrite /\ tc'.command = t.command /\ tc'.params = t.params
      /\ tc'.needed = t.needed /\ tc'.exec = t.exec /\ tc'.execNeeded = t.execNeeded /\ tc'.ctr = t.ctr
      /\ tc'.fill = t.fill /\ tc'.selected = t.selected
  BY <1>1, <1>2 DEF TcShape, TcFields
<1>5. TcShape(tc')
  <2>1. tc'.disks \in [DOMAIN tc'.disks -> TcMedia]
    BY <1>1, <1>4 DEF TcShape
  <2>2. tc'.drives \in Seq(TcDrives(tc'.disks))
    BY <1>3, <1>4
  <2> QED BY <1>1, <1>4, <2>1, <2>2 DEF TcShape
<1>6. asked'.sent = a.sent /\ asked'.media = Media(tc) /\ {"sent", "media"} \subseteq DOMAIN asked'
  BY <1>1, <1>2 DEF TcState
<1>7. TcHeard(tc', asked'.sent)
  BY <1>1, <1>4, <1>6, HeardOn
<1>8. TcState(tc', asked')
  BY <1>1, <1>4, <1>5, <1>6, <1>7 DEF TcState
<1>9. FirstDisk(tc', asked')
  <2>1. Len(tc.drives) > 0 => Media(tc)[1] = tc.drives[1].image /\ 1 \in 1..Len(tc.drives)
    BY <1>1 DEF Media, TcShape
  <2> QED BY <1>3, <1>4, <1>6, <2>1 DEF FirstDisk
<1>10. "script" \in DOMAIN tcJob' /\ "fuel" \in DOMAIN tcJob' /\ tcJob'.script = tcJob.script /\ UNCHANGED tcSnap
  BY DEF TcLoad, TcHost, TcInv
<1>11. TcInv'
  BY <1>1, <1>3, <1>4, <1>8, <1>9, <1>10 DEF TcInv
<1>12. WrittenAsAsked
  BY <1>4, Zenon DEF WrittenAsAsked
<1> QED BY <1>11, <1>12

LEMMA TcStepIs ==
  ASSUME TcInv, [TcNext]_tcVars PROVE TcInv' /\ WrittenAsAsked
<1>1. CASE TcNext
  BY <1>1, TcProgramIs, TcSwapIs, TcControlIs, TcResetIs, TcSaveIs, TcLoadIs DEF TcNext
<1>2. CASE UNCHANGED tcVars
  <2>1. WrittenAsAsked
    BY <1>2, Zenon DEF WrittenAsAsked, tcVars
  <2> QED BY <1>2, <2>1 DEF tcVars, TcInv
<1> QED BY <1>1, <1>2

LEMMA TcStarts ==
  ASSUME TcInit PROVE TcInv
<1>1. /\ tcJob \in TcJobs /\ tc = NewTc(tcJob.drives, tcJob.disks) /\ tcSnap = <<>>
      /\ asked = [sent |-> <<>>, media |-> Media(tc)]
  BY DEF TcInit
<1>2. /\ {"script", "fuel"} \subseteq DOMAIN tcJob /\ tcJob.script \in Seq(Byte)
      /\ tcJob.disks \in [DOMAIN tcJob.disks -> TcMedia]
      /\ tcJob.drives \in Seq(TcDrives(tcJob.disks))
  BY <1>1, TcAssumption DEF TcMedia, TcDrives
<1>3. TcShape(tc) /\ tc.phase = "idle"
  BY <1>1, <1>2 DEF NewTc, TcShape, TcFields, TcPhases
<1>4. TcState(tc, asked) /\ FirstDisk(tc, asked)
  BY <1>1, <1>3 DEF TcState, FirstDisk, TcHeard
<1> QED BY <1>1, <1>2, <1>4 DEF TcInv

LEMMA TcSteps ==
  ASSUME [ChipsNext]_chipVars
  PROVE  chosen' = chosen /\ (chosen = "tc8566af" => [TcNext]_tcVars)
BY DEF ChipsNext, chipVars

\* A disk of the FS-A1F changes only when the last byte of a whole command arrives, of
\* which no byte was lost: WRITE DATA puts the bytes it was sent into the one sector
\* that its parameters name, FORMAT its filler into the track under the head, on a disk
\* that is not protected and, for the first drive, that was there when the command
\* began; over swaps, resets, saves and loads between any two bytes
\* (write_data and _complete_format of src/msx/fdc/tc8566af.py).
THEOREM DisksHoldWhatWasAsked == ChipsSpec => DisksWrittenAsAsked
<1> DEFINE Inv == chosen = "tc8566af" => TcInv
<1>1. ChipsInit => Inv
  BY TcStarts DEF ChipsInit
<1>2. ASSUME Inv, [ChipsNext]_chipVars PROVE Inv' /\ (chosen = "tc8566af" => WrittenAsAsked)
  <2>1. chosen' = chosen /\ (chosen = "tc8566af" => [TcNext]_tcVars)
    BY <1>2, TcSteps
  <2> QED BY <1>2, <2>1, TcStepIs
<1> QED BY <1>1, <1>2, PTL DEF ChipsSpec, DisksWrittenAsAsked

-----------------------------------------------------------------------------

LEMMA RtcSteps ==
  ASSUME [ChipsNext]_chipVars
  PROVE  chosen' = chosen /\ (chosen = "rtc" => [RtcNext]_rtcVars)
BY DEF ChipsNext, chipVars

\* The digits that a program reads of the clock are at every time those of a calendar
\* that is stepped by the seconds since the start, in every year from 0 on, with 12 or
\* 24 hours, whatever the program writes into the registers and over every save and
\* load; and the start time of a state is accepted for the last days of a month that
\* exist, for no other (_refresh_time_regs, _encode_hour, apply_state and check_start
\* of src/msx/rtc.py). That the state keeps the elapsed cycles, not the time, is what
\* a load in the middle of a second depends on.
THEOREM ClockKeepsTime == ChipsSpec => []TimeRunsOn
<1> DEFINE Inv == chosen = "rtc" => RtcInv
<1>1. ChipsInit => Inv
  BY RtcInvInit DEF ChipsInit
<1>2. ASSUME Inv, [ChipsNext]_chipVars PROVE Inv'
  <2>1. chosen' = chosen /\ (chosen = "rtc" => [RtcNext]_rtcVars)
    BY <1>2, RtcSteps
  <2> QED BY <1>2, <2>1, RtcKeepsInv
<1>3. ASSUME Inv PROVE TimeRunsOn
  BY <1>3, ShowsTheTime DEF TimeRunsOn
<1> QED BY <1>1, <1>2, <1>3, PTL DEF ChipsSpec

-----------------------------------------------------------------------------

LEMMA InputSteps ==
  ASSUME [ChipsNext]_chipVars
  PROVE  chosen' = chosen /\ (chosen = "input" => [InputNext]_inputVars)
BY DEF ChipsNext, chipVars

\* The keyboard matrix shows the cells of the keys that the host's user and the programs
\* hold, each key for what it meant when it was pressed, and a line of a joystick port is
\* down only while a control of the pad in the port, or a program, holds it: no key hangs
\* after its release and none is lost, in whatever order Shift, Ctrl, hotkeys and combos
\* are pressed and released and programs press, press again and release cells, but for
\* the press that a release of an earlier one, due before, may end (SdlKeyboard of src/frontend/sdl2_keyboard.py, the key events
\* of sdl2_frontend.py, JoystickManager of sdl2_joystick.py, InputState and the input
\* calls of src/host/rpc_server.py), with any number of keys, pads and pending releases.
\* AnyKeys = FALSE leaves out the presses that the code keeps no count of, those that
\* Clear and Apart of HostInput name.
THEOREM KeysAndPadsShown == ASSUME AnyKeys = FALSE PROVE ChipsSpec => []InputFollowsHands
<1> DEFINE Inv == chosen = "input" => InputInv
<1>1. ChipsInit => Inv
  BY InputInvInit DEF ChipsInit
<1>2. ASSUME Inv, [ChipsNext]_chipVars PROVE Inv'
  <2>1. chosen' = chosen /\ (chosen = "input" => [InputNext]_inputVars)
    BY <1>2, InputSteps
  <2> QED BY <1>2, <2>1, InputKeepsInv
<1>3. ASSUME Inv PROVE InputFollowsHands
  BY <1>3, HandsShown DEF InputFollowsHands
<1> QED BY <1>1, <1>2, <1>3, PTL DEF ChipsSpec
=============================================================================
