------------------------------ MODULE MCPicture ------------------------------
(***************************************************************************)
(* Scenes of sprites and settings of the screen for the runs of the chips. *)
(***************************************************************************)
EXTENDS Sprites, Screen

-----------------------------------------------------------------------------
(* Patterns with a few dots, at the ends and inside, that overlap.         *)

Pattern8  == [r \in 0..7 |-> CASE r \in {0, 7} -> {0, 7} [] r = 3 -> {0, 2, 3} [] OTHER -> {}]
Pattern16 == [r \in 0..15 |-> CASE r \in {0, 15} -> {0, 15} [] r = 8 -> {7, 8} [] OTHER -> {}]

Sprite(y, x, colour) == [y |-> y, x |-> x, ec |-> FALSE, colour |-> colour, cols |-> Pattern8]
Early(s) == [s EXCEPT !.ec = TRUE]
Large(s) == [s EXCEPT !.cols = Pattern16]

Look(mode) == [mode |-> mode, tms |-> FALSE, size |-> 8, mag |-> FALSE, tp |-> FALSE, shown |-> TRUE]
Band(y0, y1, look) ==
  [y0 |-> y0, y1 |-> y1, vscroll |-> 0, spd |-> FALSE, sat |-> 1, wide |-> FALSE, look |-> look]

Plain(colour) == [ec |-> FALSE, cc |-> FALSE, ic |-> FALSE, colour |-> colour]
Scene(sats, bands) ==
  [sats |-> sats, bands |-> bands, table |-> <<>>, r5 |-> 3, entry |-> Plain(6)]

-----------------------------------------------------------------------------
(* MSX1: five on a line, one of colour 0 among them; the wrap at the       *)
(* bottom; the early clock; magnified and large; the terminator.           *)

TmsLook == [Look(1) EXCEPT !.tms = TRUE]
Crowd  == <<Sprite(10, 20, 3), Sprite(10, 22, 0), Sprite(13, 22, 4), Sprite(10, 27, 5), Sprite(9, 20, 6),
            Sprite(16, 20, 7)>>
Wrapping  == <<Sprite(250, 250, 3), Early(Sprite(252, 30, 4)), Sprite(255, 253, 5), Sprite(189, 0, 6),
            Sprite(253, 253, 8), Sprite(208, 0, 0), Sprite(253, 250, 9)>>
Bigs   == <<Large(Early(Sprite(240, 10, 3))), Large(Sprite(248, 0, 4)), Large(Sprite(170, 240, 5)),
            Large(Sprite(185, 232, 7))>>

TmsScenes ==
  {Scene(<<Crowd>>, <<Band(0, 192, TmsLook)>>), Scene(<<Wrapping>>, <<Band(0, 192, TmsLook)>>),
   Scene(<<Wrapping>>, <<Band(0, 192, [TmsLook EXCEPT !.mag = TRUE])>>),
   Scene(<<Bigs>>, <<Band(0, 192, [TmsLook EXCEPT !.mag = TRUE, !.size = 16])>>)}

-----------------------------------------------------------------------------
(* Mode 1 of the V9938: scrolled in two regions, sprites off in a third,   *)
(* TP, a second attribute table below.                                     *)

Scrolled(b, n) == [b EXCEPT !.vscroll = n]
Split1(look) ==
  <<Scrolled(Band(0, 12, look), 250), Scrolled(Band(12, 16, look), 3), [Band(16, 20, look) EXCEPT !.spd = TRUE],
    Band(20, 212, look)>>
Mode1Scenes ==
  {Scene(<<Crowd>>, Split1(Look(1))), Scene(<<Wrapping>>, Split1([Look(1) EXCEPT !.tp = TRUE])),
   Scene(<<Crowd>>, <<Band(0, 192, [Look(1) EXCEPT !.tp = TRUE])>>),
   Scene(<<Wrapping, Crowd>>, <<Scrolled(Band(0, 14, Look(1)), 20), [Band(14, 212, Look(1)) EXCEPT !.sat = 2]>>),
   Scene(<<Crowd>>, <<Band(0, 212, [Look(1) EXCEPT !.shown = FALSE])>>)}

-----------------------------------------------------------------------------
(* Mode 2: ten on a line, CC in front and behind, IC, entries of one line, *)
(* the colour table gated by R#5, and a width change between two tables.   *)

Ten == [i \in 1..10 |-> Sprite(30 + (i % 2), 40 + 2 * i, 0)] \o <<Sprite(216, 0, 0), Sprite(30, 40, 0)>>
Three == <<Sprite(30, 40, 0), Sprite(30, 40, 0), Sprite(27, 42, 0)>>
CC(c) == [Plain(c) EXCEPT !.cc = TRUE]
IC(c) == [Plain(c) EXCEPT !.ic = TRUE]
Rows(i, e) == [o \in {(i - 1) * 16 + r : r \in 0..7} |-> e]

Coloured(scene, table) == [scene EXCEPT !.table = table]
Mode2Scenes ==
  {Coloured(Scene(<<Three>>, <<Band(0, 212, [Look(2) EXCEPT !.tp = tp])>>), Rows(1, a) @@ Rows(2, b) @@ Rows(3, c)) :
     tp \in BOOLEAN, a \in {Plain(1), CC(2)}, b \in {CC(4), IC(3), Plain(0)}, c \in {Plain(8), CC(8)}}
  \union
  {[Coloured(Scene(<<Ten>>, <<Scrolled(Band(0, 34, Look(2)), 2), Band(34, 212, Look(2))>>),
             Rows(2, CC(1)) @@ (131 :> [Plain(9) EXCEPT !.ec = TRUE]) @@ (3 :> Plain(12))) EXCEPT !.r5 = r5] :
     r5 \in {1, 2, 3}}
  \union
  {Coloured(Scene(<<Three, Ten>>,
                  <<Band(0, 33, Look(2)), [Band(33, 40, Look(2)) EXCEPT !.wide = TRUE, !.sat = 2],
                    [Band(40, 212, Look(2)) EXCEPT !.sat = 2]>>), Rows(3, IC(5)))}

MCSpriteJobs ==
  {[scenes |-> s, fuel |-> 4] : s \in {TmsScenes, Mode1Scenes}} \union {[scenes |-> {s}, fuel |-> 2] : s \in Mode2Scenes}

-----------------------------------------------------------------------------
(* Registers for each mode, with tables in several places, and changes of  *)
(* the bits that move, gate or hide them.                                  *)

MCContent(a) == (a * 37 + (a \div 256) * 91 + (a \div 16384) * 13 + 7) % 256

Modes == {0, 2, 4, 6, 8, 10, 12, 14}
ViewRegs(r0, r1, r2, r3, r4, r7) ==
  [r \in 0..23 |-> CASE r = 0 -> r0 [] r = 1 -> r1 [] r = 2 -> r2 [] r = 3 -> r3 [] r = 4 -> r4 [] r = 7 -> r7
                     [] OTHER -> 0]
ViewWrites == {<<1, 64>>, <<2, 127>>, <<3, 159>>, <<4, 6>>, <<7, 9>>, <<8, 32>>, <<9, 132>>, <<10, 5>>, <<12, 7>>,
               <<18, 215>>, <<23, 60>>, <<23, 201>>}

MCScreenJobs ==
  {[regs |-> ViewRegs(IF r1 = 80 /\ r0 = 12 THEN 14 ELSE r0, r1, r[1], r[2], r[3], 228), writes |-> ViewWrites, fuel |-> IF r1 = 72 \/ r[1] = 4 THEN 1 ELSE 2] :
     r0 \in Modes, r1 \in {64, 72, 80}, r \in {<<4, 255, 3>>, <<104, 128, 36>>}}
MCDotsX == {1, 29, 131, 255, 511}
MCDotsY == {5, 62, 191, 211}
=============================================================================
