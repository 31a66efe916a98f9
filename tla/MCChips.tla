------------------------------- MODULE MCChips -------------------------------
(***************************************************************************)
(* The chips on the jobs of every kind: set-ups with the accesses to follow. *)
(***************************************************************************)
EXTENDS Chips, MCPicture, MCPorts

-----------------------------------------------------------------------------
(* V9938: VRAM at the corners of the first rows and at the end, with a     *)
(* different value in each place.                                          *)

Corner(bpl) ==
  {y * bpl + x : y \in 0..2, x \in {0, 1, bpl - 2, bpl - 1}} \union {131071}
Pattern(addrs) == [a \in addrs |-> (a * 29 + (a \div 128) * 53 + 38) % 256]

After(chip, writes) == FoldLeft(LAMBDA v, w : WritePort(v, w[1], w[2]), chip, writes)

Low(n)  == n % 256
High(n) == n \div 256

Operation(sx, sy, dx, dy, nx, ny, clr, arg) ==
  <<sx % 256, sx \div 256, sy % 256, sy \div 256, dx % 256, dx \div 256, dy % 256, dy \div 256,
    nx % 256, nx \div 256, ny % 256, ny \div 256, clr, arg>>

\* A program's set-up: the mode, R#32 to R#45 through R#17, and R#17 at R#44 to stay.
SetUp(r0, operands) ==
  After(NewChip(Pattern(Corner(Geometry(r0).bpl))),
        <<<<1, r0>>, <<1, 128>>, <<1, 32>>, <<1, 145>>>>
          \o [i \in 1..14 |-> <<3, operands[i]>>] \o <<<<1, 172>>, <<1, 145>>>>)
\* The same without a colour loaded: R#44 is passed over.
Unloaded(r0, operands) ==
  After(NewChip(Pattern(Corner(Geometry(r0).bpl))),
        <<<<1, r0>>, <<1, 128>>, <<1, 32>>, <<1, 145>>>>
          \o [i \in 1..12 |-> <<3, operands[i]>>]
          \o <<<<1, operands[14]>>, <<1, 173>>, <<1, 172>>, <<1, 145>>>>)

Job(chip, writes, reads, events, fuel) ==
  [chip |-> chip, writes |-> writes, reads |-> reads, events |-> events, fuel |-> fuel]
Start(cmr) == {<<1, cmr>>, <<1, 174>>}

BitmapModes == {6, 8, 10, 14}
SideX(r0)   == LET sw == DotsPerLine(Geometry(r0)) IN {1, sw - 3} \union {x \in {256} : sw = 256}
Directions  == {0, 4, 8, 12}

\* Fills: every mode, width, direction, and the operations of LMMV.
Fills ==
  {Job(SetUp(r0, Operation(0, 0, dx, dy, n[1], n[2], 109, arg)), Start(cmr), {}, {}, 2) :
     r0 \in BitmapModes, dx \in {1, 3}, dy \in {0, 1}, n \in {<<1, 2>>, <<5, 1>>}, arg \in Directions,
     cmr \in {192, 128, 132}}
  \union
  {Job(SetUp(r0, Operation(0, 0, dx, 2, n[1], n[2], 109, arg)), Start(cmr), {}, {}, 2) :
     r0 \in BitmapModes, dx \in UNION {SideX(m) : m \in BitmapModes}, n \in {<<5, 3>>, <<0, 1>>, <<9, 0>>},
     arg \in {12, 40}, cmr \in {192, 129, 131}}

\* Copies, from a source near another edge.
Copies ==
  {Job(SetUp(r0, Operation(sx, 2, dx, dy, n[1], n[2], 7, arg)), Start(cmr), {}, {}, 2) :
     r0 \in BitmapModes, sx \in {0, 255}, dx \in {2, 253, 256}, dy \in {1},
     n \in {<<3, 1>>, <<0, 1>>, <<6, 0>>}, arg \in {8, 28}, cmr \in {208, 144, 152, 224}}

\* Points, lines and searches run once.
Singles ==
  {Job(SetUp(r0, Operation(1, 0, 3, 1, n[1], n[2], 9, arg)), Start(cmr), {}, {}, 2) :
     r0 \in {0} \union BitmapModes, n \in {<<3, 1>>, <<2, 2>>}, arg \in {1, 6, 13},
     cmr \in {16, 64, 80, 88, 96, 114}}

\* Transfers of two rows, with time, another register, a save state and a reset
\* between the bytes; with and without a byte loaded before. LMCM with R#46 behind
\* R#17 and S#7 selected.
Transferred ==
  {Job(c, Start(cmr) \union {<<3, 17>>}, {}, {"tick"}, 6) :
     c \in {SetUp(6, Operation(0, 0, 1, 1, 3, 2, 77, 8)), Unloaded(10, Operation(0, 0, 2, 0, 4, 1, 0, 0))},
     cmr \in {240, 176}}
  \union
  {Job(After(Unloaded(6, Operation(0, 0, 255, 0, 2, 3, 0, 0)), <<<<1, cmr>>, <<1, 174>>>>),
       {<<3, 17>>, <<3, 46>>}, {1}, {"state", "reset"}, 5) : cmr \in {240, 178}}
  \union
  {Job(After(SetUp(6, Operation(254, 1, 0, 0, 3, 2, 77, arg)), <<<<1, 7>>, <<1, 143>>, <<1, 174>>, <<1, 145>>>>),
       {<<3, 160>>}, {1}, {"state"}, 8) : arg \in {8, 24}}

\* Control pairs that other accesses come into: registers, addresses of either kind
\* at a bank boundary, a command register, the reserved form, the palette.
Paired ==
  {Job(After(NewChip(Pattern({0, 1, 16383, 16384})), <<<<1, r0>>, <<1, 128>>>>), writes, {0, 1}, {"state"}, 5) :
     r0 \in {0, 8},
     writes \in {{<<1, 255>>, <<1, 63>>, <<1, 143>>, <<0, 9>>}, {<<1, 2>>, <<1, 127>>, <<1, 142>>, <<2, 5>>},
                 {<<1, 33>>, <<1, 145>>, <<1, 192>>, <<3, 7>>}}}

\* Splits of the screen: registers, the palette and the adjust, changed on any line.
Split ==
  {Job(After(NewChip(Pattern({0})), setUp), writes, {}, {"line"}, 7) :
     setUp \in {<<>>, <<<<1, 24>>, <<1, 145>>>>},
     writes \in {{<<1, 7>>, <<1, 146>>}, {<<3, 3>>, <<2, 5>>}}}

\* Interrupts: both enables and flags, at the line of the blanking and another.
Raised ==
  {Job(After(NewChip(Pattern({0})), <<<<1, 1>>, <<1, 147>>, <<1, s>>, <<1, 143>>>>), writes, {1},
       {"line", "frame", "state", "reset"}, 4) :
     s \in {0, 1, 2, 5, 9}, writes \in {{<<1, 16>>, <<1, 128>>}, {<<1, 32>>, <<1, 129>>}}}

MCVdpJobs == Fills \union Copies \union Singles \union Transferred \union Paired \union Split \union Raised
MCTickTimes == {5, 200}
MCFieldLines == <<0, 1, 2, 192, 212>>

-----------------------------------------------------------------------------
(* TMS9918A: address and register pairs, the interrupt enable, and reads   *)
(* between the two bytes.                                                  *)

TmsJob(writes) ==
  [chip |-> NewTms([a \in {0, 1, 16383} |-> 65]), writes |-> writes, reads |-> {0, 1}, frames |-> TRUE, fuel |-> 4]
MCTmsJobs == {TmsJob({<<1, 32>>, <<1, 129>>}), TmsJob({<<1, 255>>, <<1, 127>>, <<1, 63>>, <<0, 9>>})}
=============================================================================
