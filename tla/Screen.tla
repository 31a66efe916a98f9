------------------------------- MODULE Screen -------------------------------
(***************************************************************************)
(* The backgrounds of both chips (src/msx/vdp/renderer.py, the TMS9918A;   *)
(* src/msx/vdp/v9938_renderer.py, the V9938), the display page and the     *)
(* display adjust. The code draws row after row, with loops for each mode; *)
(* here each mode is the colour of the dot at (x, y), as a function of the *)
(* registers and of VRAM, which is a function of the address. The          *)
(* registers never ask for GRAPHIC 7 with M1 and without M3, which is no   *)
(* mode of the chip.                                                       *)
(***************************************************************************)
EXTENDS VdpEngine

CONSTANTS
  Content(_),    \* the byte at an address of VRAM
  ScreenJobs,    \* what a program does: records [regs, writes, fuel]
  DotsX, DotsY   \* the dots looked at

VARIABLES
  view,          \* the registers, the blink period and the parity of the frame
  viewJob        \* what this program does, with the steps that are left (a bound)

screenVars == <<view, viewJob>>

-----------------------------------------------------------------------------
(* The TMS9918A.                                                           *)

Ink(c, zero) == IF c = 0 THEN zero ELSE c
Left(b)      == b \div 16
Right(b)     == b % 16

\* A dot of a pattern row in one of the two colours of a byte.
Dotted(pat, px, colours, zero) ==
  Ink(IF Bit(pat, 7 - px) THEN Left(colours) ELSE Right(colours), zero)

TmsByte(a)       == Content(a % 16384)
Backdrop(r)      == r[7] % 16
TmsTile(r, x, y) == TmsByte((r[2] % 16) * 1024 + (y \div 8) * 32 + (x \div 8))

TmsG1(r, x, y) ==
  LET tile == TmsTile(r, x, y) IN
  Dotted(TmsByte((r[4] % 8) * 2048 + tile * 8 + (y % 8)), x % 8,
         TmsByte(r[3] * 64 + (tile \div 8)), Backdrop(r))

\* An offset with the bits of its thirds, and below them of the colour, ANDed.
Gated(offset, thirds) == And(offset \div 2048, thirds) * 2048 + (offset % 2048)
GatedColour(offset, r3) == And(offset \div 64, r3 % 128) * 64 + (offset % 64)

TmsG2(r, x, y) ==
  LET offset == (y \div 64) * 2048 + TmsTile(r, x, y) * 8 + (y % 8) IN
  Dotted(TmsByte(And(r[4], 4) * 2048 + Gated(offset, r[4] % 4)), x % 8,
         TmsByte(And(r[3], 128) * 64 + GatedColour(offset, r[3])), Backdrop(r))

\* Blocks of 4 by 4: a pair of the eight bytes, by the row of the tile.
TmsMc(r, x, y) ==
  LET pat == TmsByte((r[4] % 8) * 2048 + TmsTile(r, x, y) * 8 + ((y \div 8) % 4) * 2 + ((y % 8) \div 4)) IN
  Ink(IF x % 8 < 4 THEN Left(pat) ELSE Right(pat), Backdrop(r))

\* Forty columns of six dots, with a margin.
TmsText(r, x, y) ==
  LET col  == (x - 8) \div 6
      tile == TmsByte((r[2] % 16) * 1024 + (y \div 8) * 40 + col)
      pat  == TmsByte((r[4] % 8) * 2048 + tile * 8 + (y % 8))
  IN IF x \in 8..247 /\ Bit(pat, 7 - ((x - 8) % 6)) THEN Ink(Left(r[7]), Backdrop(r)) ELSE Backdrop(r)

M1(r) == Bit(r[1], 4)
M2(r) == Bit(r[1], 3)
M3(r) == Bit(r[0], 1)
M4(r) == Bit(r[0], 2)
M5(r) == Bit(r[0], 3)
Shown(r) == Bit(r[1], 6)

TmsPixel(r, x, y) ==
  CASE ~Shown(r) -> Backdrop(r)
    [] Shown(r) /\ M1(r) -> TmsText(r, x, y)
    [] Shown(r) /\ ~M1(r) /\ M3(r) -> TmsG2(r, x, y)
    [] Shown(r) /\ ~M1(r) /\ ~M3(r) /\ M2(r) -> TmsMc(r, x, y)
    [] Shown(r) /\ ~M1(r) /\ ~M3(r) /\ ~M2(r) -> TmsG1(r, x, y)

-----------------------------------------------------------------------------
(* The V9938: tables anywhere in 128 KB, scrolled by R#23 but for text.    *)

VByte(a) == Content(a % 131072)
Colour0(r) == IF Bit(r[8], 5) THEN 0 ELSE Backdrop(r)
ScrolledTo(r, y) == (y + r[23]) % 256
ScreenHeight(r) == IF Bit(r[9], 7) THEN 212 ELSE 192
Is512(r) == (M5(r) /\ ~M4(r)) \/ (M4(r) /\ M1(r) /\ ~M3(r))
ScreenWidth(r) == IF Is512(r) THEN 512 ELSE 256

VTile(r, x, vline) == VByte((r[2] % 128) * 1024 + (vline \div 8) * 32 + (x \div 8))

VG1(r, x, y) ==
  LET vline == ScrolledTo(r, y)
      tile  == VTile(r, x, vline)
  IN Dotted(VByte((r[4] % 64) * 2048 + tile * 8 + (vline % 8)), x % 8,
            VByte((r[10] % 8) * 16384 + r[3] * 64 + (tile \div 8)), Colour0(r))

VG2(r, x, y) ==
  LET vline  == ScrolledTo(r, y)
      offset == (vline \div 64) * 2048 + VTile(r, x, vline) * 8 + (vline % 8)
  IN Dotted(VByte(And(r[4], 60) * 2048 + Gated(offset, r[4] % 4)), x % 8,
            VByte((r[10] % 8) * 16384 + And(r[3], 128) * 64 + GatedColour(offset, r[3])), Colour0(r))

\* Mutant: MULTICOLOR is not scrolled.
VMcUnscrolled(r, x, y) ==
  LET pat == VByte((r[4] % 64) * 2048 + VTile(r, x, y) * 8 + ((y \div 8) % 4) * 2 + ((y % 8) \div 4)) IN
  Ink(IF x % 8 < 4 THEN Left(pat) ELSE Right(pat), Colour0(r))

VMc(r, x, y) ==
  LET vline == ScrolledTo(r, y)
      pat   == VByte((r[4] % 64) * 2048 + VTile(r, x, vline) * 8
                       + ((vline \div 8) % 4) * 2 + ((vline % 8) \div 4))
  IN Ink(IF x % 8 < 4 THEN Left(pat) ELSE Right(pat), Colour0(r))

\* The 26 rows of a tall screen leave the 1 KB of a text; the bits above are ANDed.
TextName(r, index) ==
  ((r[2] \div 4) % 32) * 4096 + And(r[2] % 4, index \div 1024) * 1024 + (index % 1024)

VText(r, x, y) ==
  LET tile == VByte(TextName(r, (y \div 8) * 40 + ((x - 8) \div 6)))
      pat  == VByte((r[4] % 64) * 2048 + tile * 8 + (y % 8))
  IN IF x \in 8..247 /\ Bit(pat, 7 - ((x - 8) % 6)) THEN Ink(Left(r[7]), Colour0(r)) ELSE Backdrop(r)

\* Eighty columns; a bit for each character chooses the colours of R#12 in the ON
\* period of the blink. A blink text colour of 0 shows the blink background.
VText2(r, on, x, y) ==
  LET col   == (x - 16) \div 6
      tile  == VByte(And(r[2], 124) * 1024 + (y \div 8) * 80 + col)
      pat   == VByte((r[4] % 64) * 2048 + tile * 8 + (y % 8))
      attr  == VByte((r[10] % 8) * 16384 + And(r[3], 248) * 64 + (y \div 8) * 10 + (col \div 8))
      blink == on /\ Bit(attr, 7 - (col % 8))
      bg    == IF blink THEN Ink(Right(r[12]), Colour0(r)) ELSE Backdrop(r)
      fg    == IF blink THEN Ink(Left(r[12]), bg) ELSE Ink(Left(r[7]), Colour0(r))
  IN IF x \notin 16..495 THEN Backdrop(r) ELSE IF Bit(pat, 7 - ((x - 16) % 6)) THEN fg ELSE bg

\* _display_page_bits: the even page in the ON period and, with EO, in the first field.
DisplayPage(v, mask) ==
  LET bits == And(v.regs[2], mask) IN
  IF v.on \/ (Bit(v.regs[9], 2) /\ ~v.odd) THEN And(bits, 223) ELSE bits

\* GRAPHIC 4 to 7: two or four dots a byte, or one of eight bits.
VG4(v, x, y) ==
  LET b == VByte(DisplayPage(v, 96) * 1024 + ScrolledTo(v.regs, y) * 128 + (x \div 2)) IN
  Ink(IF x % 2 = 0 THEN Left(b) ELSE Right(b), Colour0(v.regs))

VG6(v, x, y) ==
  LET b == VByte(DisplayPage(v, 32) * 2048 + ScrolledTo(v.regs, y) * 256 + (x \div 2)) IN
  Ink(IF x % 2 = 0 THEN Left(b) ELSE Right(b), Colour0(v.regs))

\* GRAPHIC 5 has a colour 0 for the even dots and one for the odd ones.
Tiled(r, x) == IF x % 2 = 0 THEN (r[7] \div 4) % 4 ELSE r[7] % 4
VG5(v, x, y) ==
  LET b == VByte(DisplayPage(v, 96) * 1024 + ScrolledTo(v.regs, y) * 128 + (x \div 4)) IN
  Ink((b \div Pow2(6 - 2 * (x % 4))) % 4, IF Bit(v.regs[8], 5) THEN 0 ELSE Tiled(v.regs, x))

VG7(v, x, y) == VByte(DisplayPage(v, 32) * 2048 + ScrolledTo(v.regs, y) * 256 + x)

\* _border_pattern
Border(r, x) ==
  IF M5(r) /\ M4(r) THEN r[7] ELSE IF M5(r) /\ ~M3(r) THEN Tiled(r, x) ELSE Backdrop(r)

\* _render_pass_range
VPixel(v, x, y) ==
  LET r == v.regs IN
  CASE ~Shown(r) -> Border(r, x)
    [] Shown(r) /\ M5(r) -> IF M4(r) THEN VG7(v, x, y) ELSE IF M3(r) THEN VG6(v, x, y) ELSE VG5(v, x, y)
    [] Shown(r) /\ ~M5(r) /\ M4(r) ->
         IF M3(r) THEN VG4(v, x, y) ELSE IF M1(r) THEN VText2(r, v.on, x, y) ELSE VG2(r, x, y)
    [] Shown(r) /\ ~M5(r) /\ ~M4(r) ->
         IF M1(r) THEN VText(r, x, y) ELSE IF M3(r) THEN VG2(r, x, y)
         ELSE IF M2(r) THEN VMc(r, x, y) ELSE VG1(r, x, y)

-----------------------------------------------------------------------------
(* The frame: the picture moved by R#18, in 212 rows of output.            *)

\* _r18_offset: 7 is leftmost or top, 8 rightmost or bottom.
Adjusted(nibble) == IF nibble > 7 THEN 16 - nibble ELSE -nibble
AdjustX(r) == Adjusted(r[18] % 16)
AdjustY(r) == Adjusted(r[18] \div 16)

\* _apply_display_adjust and pad_to_output_height: a dot of the output.
Pad(r) == (212 - ScreenHeight(r)) \div 2
Output(v, x, row) ==
  LET r  == v.regs
      sy == row - Pad(r) - AdjustY(r)
      sx == x - AdjustX(r) * (ScreenWidth(r) \div 256)
      inPicture == row - Pad(r) \in 0..(ScreenHeight(r) - 1)
  IN IF inPicture /\ sy \in 0..(ScreenHeight(r) - 1) /\ sx \in 0..(ScreenWidth(r) - 1)
       THEN VPixel(v, sx, sy) ELSE Border(r, x)

\* The MSX1 chip has neither the adjust nor 212 lines.
TmsOutput(r, x, row) == IF row - 10 \in 0..191 THEN TmsPixel(r, x, row - 10) ELSE Backdrop(r)

-----------------------------------------------------------------------------
(* A program, with its registers, and the frames that go by.               *)

ViewStep == viewJob.fuel > 0 /\ viewJob' = [viewJob EXCEPT !.fuel = @ - 1]

WriteViewRegister ==
  /\ ViewStep
  /\ \E w \in viewJob.writes : view' = [view EXCEPT !.regs[w[1]] = w[2]]

ShowFrame ==
  /\ ViewStep
  /\ \E on \in BOOLEAN : view' = [view EXCEPT !.odd = ~@, !.on = on]

ScreenInit ==
  /\ viewJob \in ScreenJobs
  /\ view = [regs |-> viewJob.regs, on |-> FALSE, odd |-> FALSE]

ScreenNext == WriteViewRegister \/ ShowFrame

-----------------------------------------------------------------------------

\* The registers as a program for MSX1 leaves them.
IsMsx1(r) ==
  /\ r[0] \in {0, 2} /\ r[2] < 16 /\ r[4] < 8
  /\ And(r[8], 32) = 0 /\ And(r[9], 128) = 0 /\ r[10] = 0 /\ r[18] = 0 /\ r[23] = 0

\* The dot that the command engine has at a place.
EngineDot(r, x, y) ==
  LET g == Geometry(r[0]) IN (Content(ByteAddr(g, x, y)) \div DotWeight(g, x)) % DotMask(g)

\* The first line of the page shown, as the commands number lines.
ShownPage(v) ==
  LET even == v.on \/ (And(v.regs[9], 4) # 0 /\ ~v.odd)
      page == (v.regs[2] \div 32) % (IF Geometry(v.regs[0]).bpl = 256 THEN 2 ELSE 4)
  IN 256 * (IF even THEN page - (page % 2) ELSE page)

\* The backgrounds of the two chips and the command engine, which are written one
\* beside the other for each mode, agree: (1) what a program for MSX1 sets up looks the
\* same on both chips, border included; (2) a bitmap mode shows the dots where the
\* command engine draws them, of the page that R#2, the blink and the field give;
\* (3) R#23 = n shows line y + n of the picture at line y in every mode but text;
\* (4) the first forty characters of an 80-column text are those of a 40-column text;
\* (5) R#18 moves the picture as a whole, in either direction.
BackgroundsAgree ==
  LET r == view.regs
      shownAt(x, y) == VPixel(view, x, y)
      still == [view EXCEPT !.regs[23] = 0]
      text1 == [view EXCEPT !.regs[0] = 0]
      unmoved == [view EXCEPT !.regs[18] = 0]
  IN \A x \in {d \in DotsX : d < ScreenWidth(r)}, y \in {d \in DotsY : d < ScreenHeight(r)} :
       /\ IsMsx1(r) => Output(view, x, y) = TmsOutput(r, x, y)
       /\ IsCommandMode(r[0]) /\ Shown(r) =>
            LET dot == EngineDot(r, x, ShownPage(view) + ((y + r[23]) % 256)) IN
            shownAt(x, y) = IF dot # 0 \/ Bit(r[8], 5) \/ And(r[0], 12) = 12 THEN dot ELSE Border(r, x)
       /\ ~M1(r) \/ M5(r) \/ (M3(r) /\ M4(r)) => shownAt(x, y) = VPixel(still, x, (y + r[23]) % 256)
       /\ M1(r) /\ M4(r) /\ ~M3(r) /\ ~M5(r) /\ ~view.on /\ r[2] % 4 = 0 /\ y < 8 /\ x \in 16..255 =>
            shownAt(x, y) = VPixel(text1, x - 8, y)
       /\ LET row == y + Pad(r) + AdjustY(r)
              col == x + AdjustX(r) * (ScreenWidth(r) \div 256)
          IN row - Pad(r) \in 0..(ScreenHeight(r) - 1) /\ col \in 0..(ScreenWidth(r) - 1) =>
               Output(view, col, row) = Output(unmoved, x, y + Pad(r))
=============================================================================
