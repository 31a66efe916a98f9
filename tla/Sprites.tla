------------------------------ MODULE Sprites ------------------------------
(***************************************************************************)
(* The sprites of a frame (src/msx/vdp/renderer.py for the TMS9918A, the   *)
(* sprite passes of v9938_renderer.py for the V9938). The code draws the   *)
(* sprites one after another, each over all of its lines, with a claim on  *)
(* every dot; the chip does a line after another. A split screen is drawn  *)
(* in as few passes as possible: one for each attribute table in use.      *)
(*                                                                         *)
(* A sprite is [y, x, ec, colour, cols], cols giving the set dots of each  *)
(* row of its pattern. A band of a frame is a range of lines with one set  *)
(* of registers: [y0, y1, vscroll, spd, sat, wide, look], look being the   *)
(* mode, the size, the magnification, TP and the display enable.           *)
(***************************************************************************)
EXTENDS Bits, SequencesExt

CONSTANT SpriteJobs    \* what is rendered: records [scenes, fuel]

VARIABLES
  plane,         \* [status, collision] of the chip, and the picture of the latest frame
  planeJob,      \* the scenes to come, with the steps that are left (a bound)
  rendered       \* history: the latest scene, with the status before it

spriteVars == <<plane, planeJob, rendered>>

-----------------------------------------------------------------------------
(* What a line of a sprite looks like.                                     *)

Limit(look)      == IF look.mode = 2 THEN 8 ELSE 4
Terminator(look) == IF look.mode = 2 THEN 216 ELSE 208
Scale(look)      == IF look.mag THEN 2 ELSE 1
Height(look)     == look.size * Scale(look)
YTop(s)          == (s.y + 1) % 256

\* The sprites before the terminator, at most 32.
Listed(scene, sat, look) ==
  LET list == scene.sats[sat]
      ends == {i \in DOMAIN list : list[i].y = Terminator(look)}
  IN SubSeq(list, 1, Min({32, Len(list)} \union {i - 1 : i \in ends}))

\* The colour table of mode 2: the offset of a sprite line is ANDed with R#5.
ColourEntry(scene, i, row) ==
  LET at == (i - 1) * 16 + row
      offset == (at % 128) + 128 * And(at \div 128, scene.r5) IN
  IF offset \in DOMAIN scene.table THEN scene.table[offset] ELSE scene.entry

LineOf(scene, look, s, i, row) ==
  IF look.mode = 2 THEN ColourEntry(scene, i, row)
  ELSE [ec |-> s.ec, cc |-> FALSE, ic |-> FALSE, colour |-> s.colour]

\* _sprite_row_pixels with the loops of the plotters: the dots on the screen.
Dots(look, s, row, line) ==
  {x \in {s.x - (IF line.ec THEN 32 ELSE 0) + c * Scale(look) + k :
            c \in s.cols[row], k \in 0..(Scale(look) - 1)} : x \in 0..255}

-----------------------------------------------------------------------------
(* A pass over the lines of a segment.                                     *)

\* _sprite_runs: scroll and SPD of the bands, within the lines of the pass.
SpriteRuns(bands, lo, hi) ==
  {[lo |-> Max({b.y0, lo}), hi |-> Min({b.y1, hi}), vscroll |-> b.vscroll, enabled |-> ~b.spd] : b \in bands}

\* Mutant: the part of a sprite that is wrapped to the top is left out.
ScanlinesCut(runs, ytop, height) ==
  UNION {LET base == (ytop - run.vscroll) % 256 IN
         {<<l, (l + run.vscroll - ytop) % 256>> :
            l \in Max({run.lo, base})..(Min({run.hi, base + height}) - 1)} : run \in {r \in runs : r.enabled}}

\* _sprite_scanlines: the lines of a sprite with the rows they show.
Scanlines(runs, ytop, height) ==
  UNION {LET base == (ytop - run.vscroll) % 256
             end  == base + height
             lines == IF end <= 256 THEN Max({run.lo, base})..(Min({run.hi, end}) - 1)
                      ELSE (run.lo..(Min({run.hi, end - 256}) - 1)) \union (Max({run.lo, base})..(run.hi - 1))
         IN {<<l, (l + run.vscroll - ytop) % 256>> : l \in lines} : run \in {r \in runs : r.enabled}}

\* What a row puts on its line: the dots that count for coincidence, and those it
\* shows, with their colour. Colour 0 is shown only with TP; on the TMS9918A it counts
\* for coincidence without being shown. CC sprites show behind another sprite only.
RowPlot(scene, look, p, i, s, line, row) ==
  LET src    == row \div Scale(look)
      entry  == LineOf(scene, look, s, i, src)
      opaque == entry.colour # 0 \/ look.tp
      seen   == ~entry.cc \/ line \in p.cc0
      dots   == {<<line, x>> : x \in Dots(look, s, src, entry)}
  IN [line |-> line, cc |-> entry.cc, colour |-> entry.colour,
      touch |-> IF seen /\ ~entry.cc /\ ~entry.ic /\ (opaque \/ look.tms) THEN dots ELSE {},
      show  |-> IF seen /\ opaque THEN dots ELSE {}]

\* The dots of a sprite over those before: a claim, or the OR of a CC line.
Painted(shown, plots) ==
  LET taken == {t[1] : t \in shown}
      ored(t) == {r \in plots : r.cc /\ t[1] \in r.show}
  IN {<<t[1], IF ored(t) = {} THEN t[2] ELSE Or(t[2], (CHOOSE r \in ored(t) : TRUE).colour)>> : t \in shown}
       \union UNION {{<<d, r.colour>> : d \in r.show \ taken} : r \in plots}

\* One sprite: lines that have as many as they can show leave it out.
PlotSprite(scene, look, p, i, s, lines) ==
  LET kept  == {lr \in lines : p.count[lr[1]] < Limit(look)}
      plots == {RowPlot(scene, look, p, i, s, lr[1], lr[2]) : lr \in kept}
      touch == UNION {r.touch : r \in plots}
      over  == kept # lines
  IN [count   |-> [l \in DOMAIN p.count |-> IF \E lr \in kept : lr[1] = l THEN p.count[l] + 1 ELSE p.count[l]],
      fifth   |-> p.fifth \/ over,
      status  |-> IF over /\ ~p.fifth THEN And(p.status, 160) + 64 + ((i - 1) % 32) ELSE p.status,
      hits    |-> p.hits \union (touch \intersect p.touched),
      touched |-> p.touched \union touch,
      shown   |-> Painted(p.shown, plots),
      cc0     |-> p.cc0 \union {r.line : r \in {q \in plots : ~q.cc}}]

\* _render_sprites, _render_sprites_mode2: sprite after sprite; the first coincidence
\* in raster order gives the coordinates, unless C was already set.
Pass(scene, bands, sat, look, lo, hi, c) ==
  LET list  == Listed(scene, sat, look)
      runs  == SpriteRuns(bands, lo, hi)
      start == [count |-> [l \in 0..(hi - 1) |-> 0], fifth |-> FALSE, status |-> c.status,
                hits |-> {}, touched |-> {}, shown |-> {}, cc0 |-> {}]
      each(p, i) == PlotSprite(scene, look, p, i, list[i], Scanlines(runs, YTop(list[i]), Height(look)))
      p     == FoldLeft(each, start, [i \in 1..Len(list) |-> i])
      first == CHOOSE d \in p.hits : \A e \in p.hits : d[1] < e[1] \/ (d[1] = e[1] /\ d[2] <= e[2])
  IN IF look.mode = 0 \/ ~look.shown THEN c
     ELSE [status    |-> IF p.hits = {} THEN p.status ELSE Or(p.status, 32),
           collision |-> IF p.hits = {} \/ Bit(c.status, 5) \/ look.tms THEN c.collision
                         ELSE <<first[2] + 12, first[1] + 8>>,
           picture   |-> c.picture \union p.shown]

\* The segments of a run of bands of one width (_width_runs, _render_run_sprites): a
\* new one where the attribute table changes, with the registers of its tallest band.
Segments(bands) ==
  LET join(segs, b) ==
        LET last == segs[Len(segs)]
            tall == b.y1 - b.y0
        IN IF segs # <<>> /\ last.sat = b.sat /\ last.wide = b.wide
             THEN [segs EXCEPT ![Len(segs)] =
                     [@ EXCEPT !.y1 = b.y1, !.height = Max({@, tall}), !.look = IF tall > last.height THEN b.look ELSE @]]
           ELSE Append(segs, [y0 |-> b.y0, y1 |-> b.y1, sat |-> b.sat, wide |-> b.wide, look |-> b.look,
                              height |-> tall])
  IN FoldLeft(join, <<>>, bands)

\* One pass for each segment, and the registers and the claims of each are its own.
Rendered(scene, c) ==
  FoldLeft(LAMBDA d, seg : Pass(scene, Range(scene.bands), seg.sat, seg.look, seg.y0, seg.y1, d),
           [c EXCEPT !.picture = {}], Segments(scene.bands))

-----------------------------------------------------------------------------
(* Frames, and the status reads between them.                              *)

SpriteStep == planeJob.fuel > 0 /\ planeJob' = [planeJob EXCEPT !.fuel = @ - 1]

RenderSprites ==
  /\ SpriteStep
  /\ \E scene \in planeJob.scenes :
       /\ plane' = Rendered(scene, plane)
       /\ rendered' = [scene |-> scene, status |-> plane.status, collision |-> plane.collision]

ReadSpriteStatus ==
  /\ SpriteStep
  /\ plane' = [plane EXCEPT !.status = @ % 32]
  /\ rendered' = <<>>

SpritesInit ==
  /\ planeJob \in SpriteJobs
  /\ plane = [status |-> 0, collision |-> <<0, 0>>, picture |-> {}]
  /\ rendered = <<>>

SpritesNext == RenderSprites \/ ReadSpriteStatus

-----------------------------------------------------------------------------
(* The raster: what a line shows, dot by dot.                              *)

BandOf(scene, line) == CHOOSE b \in Range(scene.bands) : line \in b.y0..(b.y1 - 1)

\* A sprite is on a line if its row there is one of its pattern.
RowOn(b, s, line) == (line + b.vscroll - YTop(s)) % 256
OnLine(scene, line) ==
  LET b    == BandOf(scene, line)
      list == Listed(scene, b.sat, b.look)
  IN IF b.spd \/ ~b.look.shown \/ b.look.mode = 0 THEN {}
     ELSE {i \in DOMAIN list : RowOn(b, list[i], line) < Height(b.look)}

\* The chip shows the first four or eight of them, in the order of the list.
Chosen(scene, line) ==
  {i \in OnLine(scene, line) :
     Cardinality({j \in OnLine(scene, line) : j < i}) < Limit(BandOf(scene, line).look)}

\* A sprite on a line, with its entry there and the dots that it covers.
Visible(scene, line) ==
  LET b    == BandOf(scene, line)
      list == Listed(scene, b.sat, b.look)
      src(i)   == RowOn(b, list[i], line) \div Scale(b.look)
      entry(i) == LineOf(scene, b.look, list[i], i, src(i))
  IN {[i |-> i, e |-> entry(i), dots |-> Dots(b.look, list[i], src(i), entry(i)),
       opaque |-> entry(i).colour # 0 \/ b.look.tp, tms |-> b.look.tms] : i \in Chosen(scene, line)}

Enabled(v, all) == ~v.e.cc \/ \E w \in all : w.i < v.i /\ ~w.e.cc

\* The colour of each dot: the foremost sprite there, with the CC ones behind ORed in.
ShownOn(scene, line) ==
  LET all   == Visible(scene, line)
      shown == {v \in all : v.opaque /\ Enabled(v, all)}
      here(x) == {v \in shown : x \in v.dots}
      top(x)  == CHOOSE v \in here(x) : \A w \in here(x) : v.i <= w.i
  IN {<<x, FoldSet(LAMBDA v, c : Or(c, v.e.colour), top(x).e.colour, {v \in here(x) : v.e.cc})>> :
        x \in UNION {v.dots : v \in shown}}

\* The dots that two sprites share.
SharedOn(scene, line) ==
  LET count == {v \in Visible(scene, line) : ~v.e.cc /\ ~v.e.ic /\ (v.opaque \/ v.tms)}
  IN UNION {p[1].dots \intersect p[2].dots : p \in {q \in count \X count : q[1].i < q[2].i}}

DrawnOn(line) == {<<d[1][2], d[2]>> : d \in {e \in plane.picture : e[1][1] = line}}

\* A frame is what the raster shows, line after line: the same dots in the same
\* colours over every split of the screen, scroll and wrap; 5S if a line has more
\* sprites than the chip can show, with the number of one that was left out; C if two
\* sprites share a dot, and the coordinates of the first such dot in raster order,
\* unless C was not read since an earlier one.
SpritesAsTheRaster ==
  rendered # <<>> =>
    LET scene == rendered.scene
        lines == UNION {b.y0..(b.y1 - 1) : b \in Range(scene.bands)}
        left  == [l \in lines |-> OnLine(scene, l) \ Chosen(scene, l)]
        full  == {l \in lines : left[l] # {}}
        hits  == UNION {{<<l, x>> : x \in SharedOn(scene, l)} : l \in lines}
        first == Min({d[1] : d \in hits})
        had   == And(rendered.status, 32) # 0
    IN /\ \A l \in lines : DrawnOn(l) = ShownOn(scene, l)
       /\ And(plane.status, 64) # 0 <=> full # {} \/ And(rendered.status, 64) # 0
       /\ full # {} => \E l \in full : (plane.status % 32) + 1 \in left[l]
       /\ And(plane.status, 32) # 0 <=> hits # {} \/ had
       /\ plane.collision =
            IF hits = {} \/ had \/ scene.bands[1].look.tms THEN rendered.collision
            ELSE <<Min({d[2] : d \in {e \in hits : e[1] = first}}) + 12, first + 8>>
=============================================================================
