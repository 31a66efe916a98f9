----------------------------- MODULE VdpEngine -----------------------------
(***************************************************************************)
(* The command engine of the V9938 (src/msx/vdp/v9938.py): fills, copies,  *)
(* lines and searches that run as a whole when R#46 is written, and the    *)
(* transfers that go on byte by byte with the CPU.                         *)
(*                                                                         *)
(* A handler of the code is an operator from the chip to the chip after    *)
(* it, so that a port write may reach a register, the register the engine, *)
(* and the engine the VRAM, as the calls do. Addresses and screen geometry *)
(* are those of the chip; VRAM is modelled at a few addresses, the others  *)
(* read 0 and ignore writes.                                               *)
(***************************************************************************)
EXTENDS Bits, SequencesExt

-----------------------------------------------------------------------------
(* VRAM and the geometry of the command engine, fixed when it starts.      *)

Fetched(ram, a)   == IF a \in DOMAIN ram THEN ram[a] ELSE 0
Stored(ram, a, b) == IF a \in DOMAIN ram THEN [ram EXCEPT ![a] = b] ELSE ram

Vram(v, a)       == Fetched(v.vram, a)
SetVram(v, a, b) == [v EXCEPT !.vram = Stored(@, a, b)]

\* _cmd_geometry: GRAPHIC 7, 6, 5 and, for every other mode, 4.
Geometry(r0) ==
  IF Bit(r0, 3) /\ Bit(r0, 2) THEN [bpl |-> 256, ppb |-> 1, bpp |-> 8]
  ELSE IF Bit(r0, 3) /\ Bit(r0, 1) THEN [bpl |-> 256, ppb |-> 2, bpp |-> 4]
  ELSE IF Bit(r0, 3) THEN [bpl |-> 128, ppb |-> 4, bpp |-> 2]
  ELSE [bpl |-> 128, ppb |-> 2, bpp |-> 4]

IsCommandMode(r0) == Bit(r0, 3) \/ (Bit(r0, 2) /\ Bit(r0, 1))

DotsPerLine(g) == g.bpl * g.ppb
DotMask(g) == Pow2(g.bpp)

\* A byte column wraps within its row.
ColumnAddr(g, col, y) == (y * g.bpl + (col % g.bpl)) % 131072
ByteAddr(g, x, y) == ColumnAddr(g, x \div g.ppb, y)

DotWeight(g, x) == Pow2((g.ppb - 1 - (x % g.ppb)) * g.bpp)
DotIn(ram, g, x, y) == (Fetched(ram, ByteAddr(g, x, y)) \div DotWeight(g, x)) % DotMask(g)
Dot(v, x, y) == DotIn(v.vram, v.geo, x, y)

\* _apply_log
Logged(op, src, dst, mask) ==
  CASE op = 0 -> src
    [] op = 1 -> And(src, dst)
    [] op = 2 -> Or(src, dst)
    [] op = 3 -> Xor(src, dst)
    [] op = 4 -> mask - 1 - src

\* _vram_pixel_write: codes 5 to 7 write nothing, bit 3 skips colour 0.
DotPut(ram, g, x, y, colour, log) ==
  LET a   == ByteAddr(g, x, y)
      src == colour % DotMask(g)
      dst == DotIn(ram, g, x, y)
  IN IF log % 8 > 4 \/ (log > 7 /\ src = 0) THEN ram
     ELSE Stored(ram, a, Fetched(ram, a) + (Logged(log % 8, src, dst, DotMask(g)) - dst) * DotWeight(g, x))

DrawDot(v, x, y, colour, log) == [v EXCEPT !.vram = DotPut(@, v.geo, x, y, colour, log)]

-----------------------------------------------------------------------------
(* Commands. Clipping: a line ends at the screen edge, an upward block at  *)
(* the top, and an origin past the right edge gives one element.           *)

\* Mutant: a count that is given is not cut at the edge.
ClipWithoutEdge(origins, n, left, limit) ==
  IF \E x \in origins : x >= limit THEN 1
  ELSE IF n = 0 THEN (IF left THEN Min(origins) + 1 ELSE limit - Max(origins)) ELSE n

\* _clip_nx_dot, _clip_nx_dot_pair and, in byte columns, their byte forms.
ClipX(origins, n, left, limit) ==
  IF \E x \in origins : x >= limit THEN 1
  ELSE Min({IF n = 0 THEN limit ELSE n, IF left THEN Min(origins) + 1 ELSE limit - Max(origins)})

\* _clip_ny, _clip_ny_pair
ClipY(origins, n, up) ==
  LET count == IF n = 0 THEN 1024 ELSE n IN
  IF up THEN Min({count, Min(origins) + 1}) ELSE count

\* The operands in the command registers.
Operand(c, i, high) == c[i] + 256 * (c[i + 1] % high)
Operands(v) ==
  [sx |-> Operand(v.cmd, 0, 2), sy |-> Operand(v.cmd, 2, 4),
   dx |-> Operand(v.cmd, 4, 2), dy |-> Operand(v.cmd, 6, 4),
   nx |-> Operand(v.cmd, 8, 4), ny |-> Operand(v.cmd, 10, 4), clr |-> v.cmd[12],
   dix |-> Bit(v.cmd[13], 2), diy |-> Bit(v.cmd[13], 3),
   xs |-> IF Bit(v.cmd[13], 2) THEN -1 ELSE 1, ys |-> IF Bit(v.cmd[13], 3) THEN -1 ELSE 1,
   srcExt |-> Bit(v.cmd[13], 4), dstExt |-> Bit(v.cmd[13], 5), log |-> v.cmd[14] % 16]

\* The elements <<column, row>> of a block in the order they are drawn, row by row.
\* Those whose address is outside the modelled VRAM do nothing and are left out.
Walked(v, nx, ny, addr) ==
  SelectSeq([i \in 1..(nx * ny) |-> <<(i - 1) % nx, (i - 1) \div nx>>],
            LAMBDA e : addr[e] \in DOMAIN v.vram)

Rectangle(nx, ny) == (0..(nx - 1)) \X (0..(ny - 1))

\* Started with CE, for as long as its elements take.
Timed(v, elements, each) ==
  [v EXCEPT !.active = TRUE, !.ce = TRUE, !.remaining = Max({4, elements * each})]

Completed(v) == [v EXCEPT !.active = FALSE, !.code = 0, !.ce = FALSE]

Point(v, o) ==
  [v EXCEPT !.cmd[12] = IF o.srcExt THEN DotMask(v.geo) - 1 ELSE Dot(v, o.sx, o.sy)]

Pset(v, o) == IF o.dstExt THEN v ELSE DrawDot(v, o.dx, o.dy, o.clr, o.log)

\* The scan stops at a hit, or past the edge.
Srch(v, o) ==
  LET sw    == DotsPerLine(v.geo)
      pixel(x) == IF o.srcExt THEN 255 ELSE Dot(v, x, o.sy)
      hit(x)   == (pixel(x) = o.clr % DotMask(v.geo)) # Bit(v.cmd[13], 1)
      ahead == IF o.sx >= sw THEN {} ELSE IF o.dix THEN 0..o.sx ELSE o.sx..(sw - 1)
      hits  == {x \in ahead : hit(x)}
      x     == IF hits # {} THEN (IF o.dix THEN Max(hits) ELSE Min(hits))
               ELSE IF o.sx >= sw THEN o.sx ELSE IF o.dix THEN -1 ELSE sw
  IN [v EXCEPT !.status8 = x % 256, !.status9 = 254 + ((x \div 256) % 2),
               !.bd = @ \/ hits # {}]

\* Bresenham: the end test comes before the minor step when X is the major axis.
LineStep(o, majY, sw, w) ==
  LET drawn == IF o.dstExt THEN w.ram ELSE DotPut(w.ram, w.geo, w.x, w.y, o.clr, o.log)
      minor == w.err < o.ny
      err   == ((IF minor THEN w.err + o.nx ELSE w.err) - o.ny) % 1024
      last(x) == w.steps = o.nx \/ (x \div sw) % 2 = 1
      x     == IF majY /\ ~minor THEN w.x ELSE w.x + o.xs
      y     == IF majY \/ minor THEN w.y + o.ys ELSE w.y
      done  == IF majY THEN y < 0 \/ last(x) ELSE last(x) \/ y < 0
  IN [ram |-> drawn, geo |-> w.geo, x |-> x, y |-> y, err |-> err, steps |-> w.steps + 1, done |-> done]

LineVram(v, o) ==
  FoldLeft(LAMBDA w, i : IF w.done THEN w ELSE LineStep(o, Bit(v.cmd[13], 0), DotsPerLine(v.geo), w),
           [ram |-> v.vram, geo |-> v.geo, x |-> o.dx, y |-> o.dy, steps |-> 0, done |-> FALSE,
            err |-> IF o.nx = 0 THEN 0 ELSE (o.nx - 1) \div 2],
           [i \in 1..(o.nx + 1) |-> i]).ram
Line(v, o) == [v EXCEPT !.vram = LineVram(v, o)]

\* A block command, which takes its time with the VRAM that it leaves.
Blit(v, o, ram, elements, each) ==
  Timed(IF o.dstExt THEN v ELSE [v EXCEPT !.vram = ram], elements, each)

LmmvVram(v, o, nx, ny) ==
  LET at == [e \in Rectangle(nx, ny) |-> ByteAddr(v.geo, o.dx + e[1] * o.xs, o.dy + e[2] * o.ys)]
      put(m, e) == DotPut(m, v.geo, o.dx + e[1] * o.xs, o.dy + e[2] * o.ys, o.clr, o.log)
  IN FoldLeft(put, v.vram, Walked(v, nx, ny, at))
Lmmv(v, o) ==
  LET nx == ClipX({o.dx}, o.nx, o.dix, DotsPerLine(v.geo))
      ny == ClipY({o.dy}, o.ny, o.diy)
  IN Blit(v, o, LmmvVram(v, o, nx, ny), nx * ny, 21)

LmmmVram(v, o, nx, ny) ==
  LET at == [e \in Rectangle(nx, ny) |-> ByteAddr(v.geo, o.dx + e[1] * o.xs, o.dy + e[2] * o.ys)]
      src(m, e) == IF o.srcExt THEN 255 ELSE DotIn(m, v.geo, o.sx + e[1] * o.xs, o.sy + e[2] * o.ys)
      put(m, e) == DotPut(m, v.geo, o.dx + e[1] * o.xs, o.dy + e[2] * o.ys, src(m, e), o.log)
  IN FoldLeft(put, v.vram, Walked(v, nx, ny, at))
Lmmm(v, o) ==
  LET nx == ClipX({o.sx, o.dx}, o.nx, o.dix, DotsPerLine(v.geo))
      ny == ClipY({o.sy, o.dy}, o.ny, o.diy)
  IN Blit(v, o, LmmmVram(v, o, nx, ny), nx * ny, 30)

\* The high-speed commands count byte columns.
Column(v, x) == x \div v.geo.ppb
ColumnAt(v, x, y, o, e) == ColumnAddr(v.geo, Column(v, x) + e[1] * o.xs, y + e[2] * o.ys)

HmmvVram(v, o, nx, ny) ==
  LET at == [e \in Rectangle(nx, ny) |-> ColumnAt(v, o.dx, o.dy, o, e)]
      put(m, e) == Stored(m, at[e], o.clr)
  IN FoldLeft(put, v.vram, Walked(v, nx, ny, at))
Hmmv(v, o) ==
  LET nx == ClipX({Column(v, o.dx)}, o.nx \div v.geo.ppb, o.dix, v.geo.bpl)
      ny == ClipY({o.dy}, o.ny, o.diy)
  IN Blit(v, o, HmmvVram(v, o, nx, ny), nx * ny, 10)

HmmmVram(v, o, nx, ny) ==
  LET at == [e \in Rectangle(nx, ny) |-> ColumnAt(v, o.dx, o.dy, o, e)]
      put(m, e) == Stored(m, at[e], IF o.srcExt THEN 255 ELSE Fetched(m, ColumnAt(v, o.sx, o.sy, o, e)))
  IN FoldLeft(put, v.vram, Walked(v, nx, ny, at))
Hmmm(v, o) ==
  LET nx == ClipX({Column(v, o.sx), Column(v, o.dx)}, o.nx \div v.geo.ppb, o.dix, v.geo.bpl)
      ny == ClipY({o.sy, o.dy}, o.ny, o.diy)
  IN Blit(v, o, HmmmVram(v, o, nx, ny), nx * ny, 21)

\* A strip from DX to the edge, copied up or down.
YmmmVram(v, o, nx, ny) ==
  LET at == [e \in Rectangle(nx, ny) |-> ColumnAt(v, o.dx, o.dy, o, e)]
      put(m, e) == Stored(m, at[e], Fetched(m, ColumnAt(v, o.dx, o.sy, o, e)))
  IN FoldLeft(put, v.vram, Walked(v, nx, ny, at))
Ymmm(v, o) ==
  LET nx == ClipX({Column(v, o.dx)}, 0, o.dix, v.geo.bpl)
      ny == ClipY({o.sy, o.dy}, o.ny, o.diy)
  IN Blit(v, o, YmmmVram(v, o, nx, ny), nx * ny, 18)

-----------------------------------------------------------------------------
(* Transfers between the CPU and VRAM, an element at a time.               *)

\* The cursor of a transfer starts at an origin.
Started(v, o, x, y, nx, ny) ==
  [v EXCEPT !.active = TRUE, !.remaining = 0, !.ce = TRUE, !.x0 = x, !.y0 = y, !.nx = nx, !.ny = ny,
            !.x = 0, !.y = 0, !.xs = o.xs, !.ys = o.ys]

CursorX(v) == v.x0 + v.x * v.xs
CursorY(v) == v.y0 + v.y * v.ys

\* _cmd_data_write: one byte of the CPU. The byte that completes leaves TR set.
Accepted(v, b) ==
  IF Bit(v.cmd[13], 5) THEN v
  ELSE IF v.code = 11 THEN DrawDot(v, CursorX(v), CursorY(v), b, v.log)
  ELSE SetVram(v, ByteAddr(v.geo, CursorX(v), CursorY(v)), b)

MovedTo(v, next) ==
  LET turn == next >= v.nx
      w    == [v EXCEPT !.transfer = FALSE, !.tr = FALSE, !.trDelay = 8,
                        !.x = IF turn THEN 0 ELSE next, !.y = IF turn THEN @ + 1 ELSE @]
  IN IF turn /\ v.y + 1 >= v.ny THEN [Completed(w) EXCEPT !.trDelay = 0, !.tr = TRUE] ELSE w

TakeByte(v, b) == MovedTo(Accepted(v, b), v.x + (IF v.code = 11 THEN 1 ELSE v.geo.ppb))

\* HMMC and LMMC: a byte that R#44 got before the start is the first one.
FirstByte(v, b) == IF v.transfer THEN TakeByte(v, b) ELSE v
ReadyForByte(v) == IF v.active THEN [v EXCEPT !.trDelay = 0, !.tr = TRUE] ELSE v

CpuFeed(v, o, code) ==
  LET nx == IF code = 15
              THEN ClipX({Column(v, o.dx)}, o.nx \div v.geo.ppb, o.dix, v.geo.bpl) * v.geo.ppb
              ELSE ClipX({o.dx}, o.nx, o.dix, DotsPerLine(v.geo))
      w  == [Started(v, o, o.dx, o.dy, nx, ClipY({o.dy}, o.ny, o.diy)) EXCEPT !.log = o.log]
  IN ReadyForByte(FirstByte(w, o.clr))

\* The dot at the cursor is staged in the colour register.
Staged(v, ext) ==
  [v EXCEPT !.cmd[12] = IF ext THEN DotMask(v.geo) - 1
                        ELSE Dot(v, CursorX(v), CursorY(v))]
AtLastDot(v) == v.x = v.nx - 1 /\ v.y = v.ny - 1

\* LMCM ends when its last dot is staged.
Lmcm(v, o) ==
  LET w == [Started(v, o, o.sx, o.sy, ClipX({o.sx}, o.nx, o.dix, DotsPerLine(v.geo)),
                    ClipY({o.sy}, o.ny, o.diy)) EXCEPT !.tr = TRUE]
      s == Staged(w, o.srcExt)
  IN IF AtLastDot(s) THEN Completed(s) ELSE s

\* _advance_lmcm
AdvanceLmcm(v) ==
  LET turn == v.x + 1 >= v.nx
      s == Staged([v EXCEPT !.x = IF turn THEN 0 ELSE @ + 1, !.y = IF turn THEN @ + 1 ELSE @],
                  Bit(v.cmd[13], 4))
  IN IF AtLastDot(s) THEN Completed(s) ELSE s

\* _dispatch_command: whatever ran is over; STOP, the reserved codes and the modes
\* without commands start nothing.
Executed(v, o) ==
  CASE v.code < 4 \/ ~IsCommandMode(v.regs[0]) -> [v EXCEPT !.code = 0, !.remaining = 0]
    [] v.code = 4 /\ IsCommandMode(v.regs[0]) -> Point(v, o)
    [] v.code = 5 /\ IsCommandMode(v.regs[0]) -> Pset(v, o)
    [] v.code = 6 /\ IsCommandMode(v.regs[0]) -> Srch(v, o)
    [] v.code = 7 /\ IsCommandMode(v.regs[0]) -> Line(v, o)
    [] v.code = 8 /\ IsCommandMode(v.regs[0]) -> Lmmv(v, o)
    [] v.code = 9 /\ IsCommandMode(v.regs[0]) -> Lmmm(v, o)
    [] v.code = 10 /\ IsCommandMode(v.regs[0]) -> Lmcm(v, o)
    [] v.code \in {11, 15} /\ IsCommandMode(v.regs[0]) -> CpuFeed(v, o, v.code)
    [] v.code = 12 /\ IsCommandMode(v.regs[0]) -> Hmmv(v, o)
    [] v.code = 13 /\ IsCommandMode(v.regs[0]) -> Hmmm(v, o)
    [] v.code = 14 /\ IsCommandMode(v.regs[0]) -> Ymmm(v, o)

Dispatched(v) ==
  Executed([v EXCEPT !.code = v.cmd[14] \div 16, !.geo = Geometry(v.regs[0]), !.active = FALSE,
                     !.trDelay = 0, !.ce = FALSE], Operands(v))

\* _write_command_register: R#44 feeds a transfer, or clears TR with no command.
CommandRegister(v, i, b) ==
  LET w == [v EXCEPT !.cmd[i - 32] = b] IN
  IF i = 46 THEN Dispatched(w)
  ELSE IF i # 44 THEN w
  ELSE IF ~v.active THEN [w EXCEPT !.transfer = TRUE, !.tr = FALSE]
  ELSE IF v.code \in {11, 15} THEN TakeByte([w EXCEPT !.transfer = TRUE], b)
  ELSE [w EXCEPT !.transfer = TRUE]
=============================================================================
