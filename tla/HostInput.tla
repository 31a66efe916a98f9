------------------------------ MODULE HostInput ------------------------------
(***************************************************************************)
(* The input that the host builds for the machine (src/host/input_state.py): *)
(* the cells of the keyboard matrix and the lines of the joystick ports.   *)
(* The keys of the host reach it through the hotkeys and the Ctrl combos   *)
(* of src/frontend/sdl2_frontend.py and SdlKeyboard (sdl2_keyboard.py),    *)
(* gamepads through JoystickManager (sdl2_joystick.py), and programs       *)
(* through the RPC server (src/host/rpc_server.py).                        *)
(*                                                                         *)
(* A cell is <<row, bit>>, a line <<port, bit>>; the sets hold those that  *)
(* are pressed. Several keys share a cell, one key has several meanings,   *)
(* and which one a release undoes is remembered in flags.                  *)
(***************************************************************************)
EXTENDS Integers, FiniteSets

CONSTANTS
  InputJobs,    \* what is at hand: records [japanese, keys, pads, controls, cells]
  MaxReleases,  \* timed releases pending at a time (a bound)
  AnyKeys       \* TRUE: also what the code gets wrong, see Clear below

VARIABLES
  input,        \* InputState.matrix and its joystick lines, with the flags of the senders
  hands,        \* history: the keys and controls held, what each key was pressed for, and
                \* what the programs want: <<cell, frames left>>, and the cells in again
  inputJob

inputVars == <<input, hands, inputJob>>

\* Sentinels of the code are no keys of the host and 0 is no pad; the controls are
\* those that Controlled knows.
ASSUME InputAssumption ==
  \A j \in InputJobs :
    /\ {"keys", "pads", "controls", "cells", "japanese"} \subseteq DOMAIN j
    /\ {"zero_shift", "none"} \intersect j.keys = {} /\ 0 \notin j.pads
    /\ j.controls \subseteq ({"a", "dpup", "y"} \X {0, 1}) \union ({"axis"} \X Int) \union ({"hat"} \X SUBSET {0, 3})
    /\ j.japanese \in BOOLEAN

-----------------------------------------------------------------------------
(* SdlKeyboard.                                                            *)

Shifts == {"lshift", "rshift"}
Ctrls  == {"lctrl", "rctrl"}

\* KEY_MATRIX_INT and KEY_MATRIX_JP, the keys that the runs use.
CommonMatrix ==
  [lshift |-> <<6, 0>>, rshift |-> <<6, 0>>, lctrl |-> <<6, 1>>, rctrl |-> <<6, 1>>, zero |-> <<0, 0>>,
   f1 |-> <<6, 5>>, f2 |-> <<6, 6>>, home |-> <<8, 1>>, w |-> <<5, 4>>, up |-> <<8, 5>>]
JapaneseMatrix == [zero_shift |-> <<2, 5>>, ro |-> <<2, 5>>]
JoyMap    == [w |-> <<0, 0>>, up |-> <<0, 0>>]

CellOf(k) ==
  CASE k \in DOMAIN CommonMatrix -> {CommonMatrix[k]}
    [] inputJob.japanese /\ k \in DOMAIN JapaneseMatrix -> {JapaneseMatrix[k]}
    [] OTHER -> {}
JoyLine(k) == IF k \in DOMAIN JoyMap THEN {JoyMap[k]} ELSE {}

\* Shift and 0 is the key of the underscore on a Japanese keyboard; the release is
\* told which of the two it was by the flag.
KeyDown(h, key) ==
  LET k == IF key = "zero" /\ h.held \intersect Shifts # {} /\ CellOf("zero_shift") # {}
             THEN "zero_shift" ELSE key
  IN [h EXCEPT !.redirect = @ \/ k # key, !.cells = @ \union CellOf(k), !.kbd = @ \union JoyLine(key),
               !.held = IF CellOf(k) # {} THEN @ \union {k} ELSE @]

\* Mutant: a key releases its cell while another key holds it.
KeyUpAlone(h, key) ==
  LET k == IF key = "zero" /\ h.redirect THEN "zero_shift" ELSE key
  IN [h EXCEPT !.redirect = @ /\ key # "zero", !.held = @ \ {k},
               !.cells = @ \ CellOf(k), !.kbd = @ \ JoyLine(key)]

KeyUp(h, key) ==
  LET k    == IF key = "zero" /\ h.redirect THEN "zero_shift" ELSE key
      held == h.held \ {k}
  IN [h EXCEPT !.redirect = @ /\ key # "zero", !.held = held, !.kbd = @ \ JoyLine(key),
               !.cells = @ \ (CellOf(k) \ UNION {CellOf(other) : other \in held})]

\* The sides of Shift and Ctrl that are among keys, in turn.
DownIf(h, k, keys) == IF k \in keys THEN KeyDown(h, k) ELSE h
UpIf(h, k, keys)   == IF k \in keys THEN KeyUp(h, k) ELSE h
AllDown(h, keys) ==
  DownIf(DownIf(DownIf(DownIf(h, "lshift", keys), "rshift", keys), "lctrl", keys), "rctrl", keys)
AllUp(h, keys) ==
  UpIf(UpIf(UpIf(UpIf(h, "lshift", keys), "rshift", keys), "lctrl", keys), "rctrl", keys)

-----------------------------------------------------------------------------
(* The hotkeys, the Ctrl combos, and the events of the host's keyboard.    *)

NoKey    == "none"
Bindings == {<<k, s>> : k \in {"f6", "f7"}, s \in BOOLEAN}
Fixed    == {"f10"}
CtrlFkeyCells == [f1 |-> <<8, 1>>, f2 |-> <<8, 2>>]

\* release_active.
ComboEnded(h) ==
  [h EXCEPT !.combo = NoKey, !.cells = IF h.combo = NoKey THEN @ ELSE @ \ {CtrlFkeyCells[h.combo]}]

\* _handle_ctrl_combo_keydown: a function key with Ctrl is a cell of its own, Ctrl is
\* released for it, and a second function key means nothing.
ComboDown(h, k) ==
  CASE k \in Ctrls ->
         LET w == [h EXCEPT !.ctrl = @ \union {k}] IN IF h.combo = NoKey THEN KeyDown(w, k) ELSE w
    [] k \in DOMAIN CtrlFkeyCells /\ h.ctrl # {} ->
         IF h.combo # NoKey THEN h
         ELSE [AllUp(h, h.ctrl) EXCEPT !.cells = @ \union {CtrlFkeyCells[k]}, !.combo = k]
    [] OTHER -> KeyDown(h, k)

\* _handle_bound_hotkey_keydown, then _handle_hotkey_keydown, then the combos.
Pressed(h, k, repeat) ==
  CASE k \in Shifts ->
         LET w == [h EXCEPT !.shift = @ \union {k}] IN IF h.active = NoKey THEN KeyDown(w, k) ELSE w
    [] h.ctrl = {} /\ <<k, h.shift # {}>> \in Bindings ->
         IF repeat THEN h
         ELSE [IF h.shift # {} /\ h.active = NoKey THEN [AllUp(h, h.shift) EXCEPT !.active = k] ELSE h
                 EXCEPT !.ffHold = IF k = "f7" /\ h.shift = {} THEN k ELSE @]
    [] k \in Fixed -> h
    [] OTHER       -> ComboDown(h, k)

\* Mutant: the function key of a combo leaves Ctrl released.
ReleasedKeepingCtrlUp(h, k) ==
  CASE k \in Shifts -> KeyUp([h EXCEPT !.shift = @ \ {k}, !.active = IF h.shift \subseteq {k} THEN NoKey ELSE @], k)
    [] h.active = k -> AllDown([h EXCEPT !.active = NoKey], h.shift)
    [] k \in Ctrls  -> LET w == [h EXCEPT !.ctrl = @ \ {k}] IN KeyUp(IF w.ctrl = {} THEN ComboEnded(w) ELSE w, k)
    [] h.combo = k  -> ComboEnded(h)
    [] OTHER        -> KeyUp(h, k)

\* _handle_bound_hotkey_keyup, then _handle_ctrl_combo_keyup. Shift and Ctrl are
\* pressed again for the sides that are still held.
Released(h, k) ==
  LET hold == h.ffHold = k
      f    == IF hold THEN [h EXCEPT !.ffHold = NoKey] ELSE h
  IN CASE k \in Shifts ->
            KeyUp([f EXCEPT !.shift = @ \ {k}, !.active = IF f.shift \subseteq {k} THEN NoKey ELSE @], k)
       [] f.active = k -> AllDown([f EXCEPT !.active = NoKey], f.shift)
       [] hold         -> f
       [] k \in Ctrls  ->
            LET w == [f EXCEPT !.ctrl = @ \ {k}] IN KeyUp(IF w.ctrl = {} THEN ComboEnded(w) ELSE w, k)
       [] f.combo = k  -> AllDown(ComboEnded(f), f.ctrl)
       [] OTHER        -> KeyUp(f, k)

-----------------------------------------------------------------------------
(* JoystickManager and the RPC server.                                     *)

TurboPeriod  == 3
ButtonBit    == [a |-> 4, dpup |-> 0]
TurboBit     == [y |-> 4]
AxisBits     == <<1, 0>>     \* of the vertical axis, below and above the dead zone
HatBits      == {0, 3}

PortOf(h, d) == {p \in {0, 1} : h.slots[p] = d}

OpenDevice(h, d) ==
  IF {p \in {0, 1} : h.slots[p] = 0} = {} THEN h
  ELSE [h EXCEPT !.slots[IF h.slots[0] = 0 THEN 0 ELSE 1] = d]

LinesOf(p) == {p} \X (0..5)

\* Mutant: an unplugged pad leaves its autofire running.
CloseDeviceInFire(h, d) ==
  LET lines == UNION {LinesOf(p) : p \in PortOf(h, d)}
  IN [h EXCEPT !.slots = [p \in {0, 1} |-> IF @[p] = d THEN 0 ELSE @[p]], !.pad = @ \ lines]

CloseDevice(h, d) ==
  LET lines == UNION {LinesOf(p) : p \in PortOf(h, d)}
  IN [h EXCEPT !.slots = [p \in {0, 1} |-> IF @[p] = d THEN 0 ELSE @[p]], !.pad = @ \ lines, !.turbo = @ \ lines]

SetTurbo(h, line, down) ==
  IF down THEN [h EXCEPT !.counter = IF h.turbo = {} THEN 0 ELSE @, !.turbo = @ \union {line}]
  ELSE [h EXCEPT !.turbo = @ \ {line}, !.pad = @ \ {line}]

\* A control of a pad in a port: lines pressed and lines released, the last word counts.
Controlled(h, p, control, value) ==
  CASE control \in DOMAIN ButtonBit ->
         [h EXCEPT !.pad = IF value = 1 THEN @ \union {<<p, ButtonBit[control]>>} ELSE @ \ {<<p, ButtonBit[control]>>}]
    [] control \in DOMAIN TurboBit -> SetTurbo(h, <<p, TurboBit[control]>>, value = 1)
    [] control = "axis" ->
         [h EXCEPT !.pad = (@ \ {<<p, AxisBits[i]>> : i \in 1..2})
                             \union (CASE value < 0 -> {<<p, AxisBits[1]>>} [] value > 0 -> {<<p, AxisBits[2]>>} [] OTHER -> {})]
    [] control = "hat" -> [h EXCEPT !.pad = (@ \ ({p} \X HatBits)) \union ({p} \X value)]

\* tick: autofire is on for one frame of a period. The counter is kept modulo the period.
AutofireTick(h) ==
  IF h.turbo = {} THEN h
  ELSE [h EXCEPT !.pad = IF h.counter = 0 THEN @ \union h.turbo ELSE @ \ h.turbo,
                 !.counter = (@ + 1) % TurboPeriod]

\* _process_key_releases; a release is <<frames left, cell>>. Those that are due only
\* release cells, so their order in the list does not matter.
KeyReleases(h) ==
  LET later == {<<r[1] - 1, r[2]>> : r \in h.releases}
  IN [h EXCEPT !.cells = @ \ {r[2] : r \in {s \in later : s[1] <= 0}}, !.releases = {r \in later : r[1] > 0}]

-----------------------------------------------------------------------------
(* What the keys held ask for. A key means what it meant when it was       *)
(* pressed: its cell, or nothing, and whether it covers Shift or Ctrl.     *)

HeldKeys == DOMAIN hands.meant
Covers(modifiers, keys) == \E k \in keys : hands.meant[k].covers = modifiers
Means(cells) == [cells |-> cells, covers |-> {}]

\* What pressing k means while the other keys are held.
Meaning(k, others) ==
  CASE k \in Shifts \union Ctrls -> Means(CellOf(k))
    [] others \intersect Ctrls = {} /\ <<k, others \intersect Shifts # {}>> \in Bindings ->
         [Means({}) EXCEPT !.covers = IF others \intersect Shifts # {} /\ ~Covers(Shifts, others) THEN Shifts ELSE {}]
    [] k \in Fixed -> Means({})
    [] k \in DOMAIN CtrlFkeyCells /\ others \intersect Ctrls # {} ->
         IF Covers(Ctrls, others) THEN Means({}) ELSE [cells |-> {CtrlFkeyCells[k]}, covers |-> Ctrls]
    [] k = "zero" /\ inputJob.japanese /\ others \intersect Shifts # {} /\ ~Covers(Shifts, others) ->
         Means(CellOf("zero_shift"))
    [] OTHER -> Means(CellOf(k))

\* Releasing the last Shift or Ctrl ends what a key has made of it.
Lapsed(k, modifiers) ==
  LET rest == HeldKeys \ {k} IN
  [o \in rest |-> IF k \in modifiers /\ rest \intersect modifiers = {} /\ hands.meant[o].covers = modifiers
                    THEN Means({}) ELSE hands.meant[o]]

ShownCells ==
  (UNION {hands.meant[k].cells : k \in {o \in HeldKeys : ~\E m \in {Shifts, Ctrls} : o \in m /\ Covers(m, HeldKeys)}})
    \union {r[1] : r \in hands.rpc}
ShownLines == UNION {JoyLine(k) : k \in HeldKeys}

\* The lines that the controls of a pad hold.
HeldLines(p) ==
  IF input.slots[p] = 0 THEN {}
  ELSE {p} \X UNION {c[2] : c \in hands.controls[input.slots[p]]}

-----------------------------------------------------------------------------
(* The host. Clear and Apart are what AnyKeys = FALSE leaves out: two keys *)
(* held on a cell or line that no count is kept of, a program that presses *)
(* the cells of the keys at hand, and an automatic repeat of a key whose   *)
(* meaning has changed since its press.                                    *)

Clear(k) ==
  \/ AnyKeys
  \/ /\ \A o \in HeldKeys : JoyLine(o) \intersect JoyLine(k) = {}
     /\ \A o \in HeldKeys : Meaning(k, HeldKeys).cells \intersect hands.meant[o].cells # {} =>
                          hands.meant[o].covers = {} /\ Meaning(k, HeldKeys).covers = {}

HostCells ==
  (UNION {CellOf(k) : k \in inputJob.keys \union {"zero_shift"}})
    \union {CtrlFkeyCells[k] : k \in inputJob.keys \intersect DOMAIN CtrlFkeyCells}
Apart(cell) == AnyKeys \/ cell \notin HostCells

PressHostKey ==
  \E k \in inputJob.keys \ HeldKeys :
    /\ Clear(k)
    /\ input' = Pressed(input, k, FALSE)
    /\ hands' = [hands EXCEPT !.meant = [o \in HeldKeys \union {k} |-> IF o = k THEN Meaning(k, HeldKeys) ELSE @[o]]]

RepeatHostKey ==
  \E k \in HeldKeys :
    /\ AnyKeys \/ <<k, HeldKeys \intersect Shifts # {}>> \in Bindings \/ Meaning(k, HeldKeys \ {k}) = hands.meant[k]
    /\ input' = Pressed(input, k, TRUE)
    /\ UNCHANGED hands

ReleaseHostKey ==
  \E k \in HeldKeys :
    /\ input' = Released(input, k)
    /\ hands' = [hands EXCEPT !.meant = IF k \in Shifts THEN Lapsed(k, Shifts) ELSE Lapsed(k, Ctrls)]

PlugPad ==
  \E d \in inputJob.pads \ hands.plugged :
    /\ input' = OpenDevice(input, d)
    /\ hands' = [hands EXCEPT !.plugged = @ \union {d}]

UnplugPad ==
  \E d \in hands.plugged :
    /\ input' = CloseDevice(input, d)
    /\ hands' = [hands EXCEPT !.plugged = @ \ {d}, !.controls[d] = {}]

\* A control moves to another value; the pad of a third device is not heard.
Drives(c) ==
  CASE c[1] \in DOMAIN ButtonBit -> IF c[2] = 1 THEN {ButtonBit[c[1]]} ELSE {}
    [] c[1] \in DOMAIN TurboBit  -> IF c[2] = 1 THEN {TurboBit[c[1]]} ELSE {}
    [] c[1] = "axis" -> CASE c[2] < 0 -> {AxisBits[1]} [] c[2] > 0 -> {AxisBits[2]} [] OTHER -> {}
    [] c[1] = "hat"  -> c[2]

MovePad ==
  \E d \in hands.plugged, c \in inputJob.controls :
    /\ \/ PortOf(input, d) = {} /\ input' = input
       \/ \E p \in PortOf(input, d) : input' = Controlled(input, p, c[1], c[2])
    /\ hands' = [hands EXCEPT !.controls[d] = {o \in @ : o[1] # c[1]} \union {<<c[1], Drives(c)>>}]

\* input.press_key, input.release_key, input.press_key_named, in any order: the last
\* press of a cell says how long the program wants it. Nothing takes a pending release
\* back, so one that comes before the time is up ends the press: the cell was pressed
\* again too soon.
UntilReleased == 0
Wanted(cell, frames) == {r \in hands.rpc : r[1] # cell} \union {<<cell, frames>>}
Again(cell, frames) ==
  IF \E r \in input.releases : r[2] = cell /\ (frames = UntilReleased \/ r[1] < frames)
    THEN hands.again \union {cell} ELSE hands.again \ {cell}

RpcPress ==
  \E cell \in inputJob.cells :
    /\ Apart(cell)
    /\ input' = [input EXCEPT !.cells = @ \union {cell}]
    /\ hands' = [hands EXCEPT !.rpc = Wanted(cell, UntilReleased), !.again = Again(cell, UntilReleased)]

RpcRelease ==
  \E cell \in inputJob.cells :
    /\ Apart(cell)
    /\ input' = [input EXCEPT !.cells = @ \ {cell}]
    /\ hands' = [hands EXCEPT !.rpc = {r \in @ : r[1] # cell}]

\* Mutant: a cell with a release pending gets no second one.
RpcPressNamedOnce ==
  \E cell \in inputJob.cells, frames \in 1..2 :
    /\ Apart(cell)
    /\ Cardinality(input.releases) < MaxReleases
    /\ input' = [input EXCEPT !.cells = @ \union {cell},
                              !.releases = IF \E r \in @ : r[2] = cell THEN @ ELSE @ \union {<<frames, cell>>}]
    /\ hands' = [hands EXCEPT !.rpc = Wanted(cell, frames), !.again = Again(cell, frames)]

RpcPressNamed ==
  \E cell \in inputJob.cells, frames \in 1..2 :
    /\ Apart(cell)
    /\ Cardinality(input.releases) < MaxReleases
    /\ input' = [input EXCEPT !.cells = @ \union {cell}, !.releases = @ \union {<<frames, cell>>}]
    /\ hands' = [hands EXCEPT !.rpc = Wanted(cell, frames), !.again = Again(cell, frames)]

\* input.joystick sets every line of a port, input.joystick_release none of them.
RpcJoystick ==
  \E p \in {0, 1}, lines \in {{}, {0, 4}} :
    /\ inputJob.cells # {}
    /\ input' = [input EXCEPT !.pad = (@ \ LinesOf(p)) \union ({p} \X lines)]
    /\ hands' = [hands EXCEPT !.joystick = (@ \ LinesOf(p)) \union ({p} \X lines)]

\* An iteration of the host loop: tick(), then drain().
HostFrame ==
  /\ input' = KeyReleases(AutofireTick(input))
  /\ hands' = [hands EXCEPT !.rpc = {IF r[2] = UntilReleased THEN r ELSE <<r[1], r[2] - 1>> :
                                       r \in {s \in @ : s[2] # 1}}]

InputInit ==
  /\ inputJob \in InputJobs
  /\ input = [cells |-> {}, kbd |-> {}, pad |-> {}, held |-> {}, redirect |-> FALSE,
              ctrl |-> {}, combo |-> NoKey, shift |-> {}, active |-> NoKey, ffHold |-> NoKey,
              slots |-> [p \in {0, 1} |-> 0], turbo |-> {}, counter |-> 0, releases |-> {}]
  /\ hands = [meant |-> [k \in {} |-> Means({})], plugged |-> {}, controls |-> [d \in inputJob.pads |-> {}],
              rpc |-> {}, again |-> {}, joystick |-> {}]

InputNext ==
  /\ UNCHANGED inputJob
  /\ \/ PressHostKey \/ RepeatHostKey \/ ReleaseHostKey
     \/ PlugPad \/ UnplugPad \/ MovePad
     \/ RpcPress \/ RpcRelease \/ RpcPressNamed \/ RpcJoystick
     \/ HostFrame

-----------------------------------------------------------------------------

\* The matrix shows the cells of the keys held, each key for what it meant when it
\* was pressed, in whatever order keys that share cells, combos and hotkeys are pressed
\* and released: no key hangs, and none is lost. A key that a program presses for a
\* time, or until it releases it, is down for just that time, however often it presses
\* the cell: never for longer than the last press asked for, and for less only when a
\* release of an earlier press was pending that falls due before.
KeysAreShown ==
  /\ input.cells \subseteq ShownCells /\ ShownCells \ hands.again \subseteq input.cells
  /\ input.kbd = ShownLines

\* A line of a joystick port is down only while a control of the pad in the port, or a
\* program, holds it: unplugging, autofire and a pad without a port leave none behind.
NothingHangs ==
  \A p \in {0, 1} : input.pad \intersect LinesOf(p) \subseteq HeldLines(p) \union hands.joystick
=============================================================================
