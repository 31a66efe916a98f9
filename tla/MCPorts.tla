------------------------------- MODULE MCPorts -------------------------------
(***************************************************************************)
(* Disks, mouse movements, sounds, start times, keys and pads for the run  *)
(* of the chips.                                                           *)
(***************************************************************************)
EXTENDS Tc8566af, Mouse, Sound, Rtc, HostInput

-----------------------------------------------------------------------------
(* Floppy: disks of few sectors of two bytes, with two sides, with one and *)
(* protected; one drive as in the FS-A1F, and two.                         *)

Disk(wp, sides, sectors, first) ==
  [wp |-> wp, spt |-> 2, sides |-> sides, data |-> [s \in 1..sectors |-> <<first + s, 7>>]]
Disks == [a |-> Disk(FALSE, 2, 8, 10), b |-> Disk(FALSE, 1, 4, 20), p |-> Disk(TRUE, 2, 8, 30)]
DrivesOf(images) == [i \in DOMAIN images |-> [image |-> images[i], track |-> 0]]

ReadOf(unit, c, h, r)        == <<70, unit, c, h, r, 2, 2, 42, 255>>
WriteOf(unit, c, h, r, b, d) == <<69, unit, c, h, r, 2, 2, 42, 255, b, d>>
FormatOf(unit, sc, fill)     == <<77, unit, 2, sc, 42, fill>> \o [i \in 1..(4 * Max({1, sc})) |-> 5]
SeekTo(unit, c)              == <<15, unit, c, 8>>

Scripts ==
  {WriteOf(0, 0, 1, 2, 69, 70) \o ReadOf(0, 0, 1, 2), SeekTo(4, 1) \o FormatOf(4, 1, 229) \o WriteOf(0, 1, 1, 1, 1, 2),
   FormatOf(0, 2, 66), WriteOf(1, 0, 0, 1, 3, 4) \o <<8>>, <<7, 2, 8, 8, 31, 3, 175, 2, 4, 5>> \o WriteOf(0, 3, 0, 1, 9, 9)}
TcJobsOn(images, events) ==
  {[drives |-> DrivesOf(images), disks |-> Disks, script |-> s, events |-> events, fuel |-> 2] : s \in Scripts}
MCTcJobs ==
  TcJobsOn(<<"b", "a">>, {"state", "swap"}) \union TcJobsOn(<<"p", "b">>, {"state", "swap"})
    \union UNION {TcJobsOn(images, {"control", "reset"}) : images \in {<<"a">>, <<"b", "a">>, <<None>>}}

-----------------------------------------------------------------------------
(* A mouse on each port, scanned twice; with a pause before any edge of    *)
(* the first scan; with a level written twice.                             *)

R15(port, level) == 64 * port + (IF port = 0 THEN 16 * level + 32 ELSE 32 * level)
Edge(port, i)    == <<R15(port, i % 2), 100>>
Edges(port, n)   == [i \in 1..n |-> Edge(port, i)]
PausedAt(k)      == [i \in 1..20 |-> IF i = k THEN <<R15(0, i % 2), 5370>> ELSE Edge(0, i)]
Twice ==
  <<<<R15(1, 1), 9>>, <<R15(1, 1), 9>>, <<R15(1, 0), 5300>>, <<R15(1, 0), 5300>>, <<R15(1, 0), 5370>>>>
    \o Edges(1, 8)

MCMotions == {<<-130, 5>>, <<300, 0>>, <<0, -32767>>}
MCMouseJobs ==
  {[port |-> 0, writes |-> Edges(0, 18), fuel |-> 2], [port |-> 1, writes |-> Twice, fuel |-> 3]}
  \union {[port |-> 0, writes |-> PausedAt(k), fuel |-> 2] : k \in {2, 3, 5, 8, 9}}

-----------------------------------------------------------------------------
(* PSG: a tone of every kind of period, noise on one channel, an envelope  *)
(* on another, which the writes turn on, off and around.                   *)

Tuned(r6, r7, r8, r11) ==
  [r \in 0..15 |-> CASE r = 0 -> 1 [] r = 2 -> 7 [] r = 6 -> r6 [] r = 7 -> r7 [] r = 8 -> r8 [] r = 9 -> 15
                     [] r = 11 -> r11 [] r = 13 -> 14 [] OTHER -> 0]
Sounding(regs, psgWrites, clicks, fuel) ==
  [regs |-> regs, psg |-> psgWrites, click |-> clicks, cart |-> {}, scc |-> {}, events |-> {}, fuel |-> fuel]

MCSoundJobs ==
  {Sounding(Tuned(r6, 8, 16, 1), w, {}, IF r6 = 0 THEN 4 ELSE 3) : r6 \in {0, 3}, w \in {{<<13, 9>>, <<13, 15>>}, {<<8, 0>>, <<2, 0>>}, {<<7, 63>>, <<11, 0>>}}}
  \union {[Sounding(Tuned(0, 63, 15, 1), {<<13, 10>>, <<9, 31>>}, {}, 3) EXCEPT !.events = {"state", "reset"}]}
  \union {[Sounding(Tuned(0, 63, 15, 1), {}, {<<170, 128>>, <<171, 14>>, <<171, 15>>}, 3) EXCEPT !.events = {"state"}]}
  \union {[Sounding(Tuned(0, 63, 15, 1), {}, {<<171, 15>>, <<171, 137>>}, 3) EXCEPT !.cart = {0, 255}, !.events = {"reset"}]}
  \union {[Sounding(Tuned(0, 63, 0, 1), {}, {}, 4) EXCEPT !.scc = {<<96, 127>>, <<128, 128>>, <<138, 15>>, <<143, 17>>, <<175, 31>>}]}

-----------------------------------------------------------------------------
(* Clocks that start just before a boundary of the calendar.               *)

Starting(y, m, d, h, weekday, spans) ==
  [start |-> <<y, m, d, h, 59, 59>>, weekday |-> weekday, spans |-> spans,
   writes |-> {<<13, 9>>, <<13, 8>>, <<13, 14>>, <<10, 0>>, <<4, 7>>}, fuel |-> 4]

MCRtcJobs ==
  {Starting(1999, 12, 31, 23, 5, {"seconds"}), Starting(2000, 2, 28, 23, 1, {"days", "cycles"}),
   Starting(1900, 2, 28, 11, 3, {"days"}), Starting(2100, 2, 28, 10, 0, {"days"}), Starting(1969, 12, 31, 23, 3, {"cycles"}),
   Starting(2024, 2, 29, 12, 4, {"seconds", "days"}), Starting(1979, 12, 31, 23, 1, {"days"}),
   Starting(0, 2, 29, 23, 2, {"seconds"}), Starting(9999, 12, 31, 23, 5, {"seconds"}), Starting(2079, 12, 30, 23, 6, {"days"})}

-----------------------------------------------------------------------------
(* Host input: keys that share cells and combos, of both layouts; pads for *)
(* both ports and one too many; a pad and two keys while a program presses *)
(* keys of its own.                                                        *)

Keyboard(japanese, keys) == [japanese |-> japanese, keys |-> keys, pads |-> {}, controls |-> {}, cells |-> {}]
Gamepads(pads, controls) == [Keyboard(FALSE, {}) EXCEPT !.pads = pads, !.controls = controls]
Autofire                 == {"a", "y"} \X {0, 1}
Sticks ==
  ({"dpup"} \X {0, 1}) \union {<<"axis", -1>>, <<"axis", 0>>, <<"axis", 1>>, <<"hat", {}>>, <<"hat", {0, 3}>>}

MCInputJobs ==
  {Keyboard(TRUE, {"lshift", "rshift", "zero", "ro", "f6", "w", "lctrl"}),
   Keyboard(FALSE, {"lctrl", "rctrl", "f1", "f2", "home", "lshift", "f7", "f10"}),
   Gamepads({1, 2, 3}, Autofire), Gamepads({1}, Sticks),
   [Gamepads({1}, {"a"} \X {0, 1}) EXCEPT !.cells = {<<8, 0>>, <<3, 1>>}, !.keys = {"lctrl", "f1"}]}
=============================================================================
