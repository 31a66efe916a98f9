------------------------------- MODULE Sound -------------------------------
(***************************************************************************)
(* The sound of a frame (src/msx/psg.py, dac.py, scc.py, audio_mixer.py).  *)
(* The PSG and the DACs are told the cycle of every write and make the     *)
(* samples of the whole frame at its end: the PSG goes back to the state   *)
(* of its first write of the frame and replays them, a DAC holds each      *)
(* level until the next. The SCC plays its last registers for the frame.   *)
(***************************************************************************)
EXTENDS Integers, SequencesExt

CONSTANTS
  SoundJobs,    \* what a program does: records [regs, psg, click, cart, scc, events, fuel]
  Span,         \* cycles of a frame
  Samples,      \* samples of a frame
  MaxEvents     \* writes that a frame records (4,096 in the code)

ASSUME SoundAssumption == Span \in Nat \ {0} /\ Samples \in Nat \ {0} /\ MaxEvents \in Nat \ {0}

VARIABLES
  psg,          \* [regs, gen, events, base]: base is <<>> or the state to go back to
  click, cart,  \* the DACs of the key click and of a cartridge: [level, held, events]
  ppi,          \* [portC, control, bus]
  scc,          \* [waves, freq, vol, enable, chan, frac, plus]
  frameCycle,   \* cycles since the frame began
  soundSnap,    \* the latest save state
  mixed,        \* the latest mix
  live,         \* history: PSG and click played as they are written, without a replay
  soundJob      \* what this program does, with the steps that are left (a bound)

soundVars == <<psg, click, cart, ppi, scc, frameCycle, soundSnap, mixed, live, soundJob>>

-----------------------------------------------------------------------------
(* The generators of the PSG.                                              *)

PsgClock   == 223722
CpuClock   == 3579545
SampleRate == 44100

AtLeast1(n) == IF n < 1 THEN 1 ELSE n
IsSet(n, bit) == (n \div bit) % 2 = 1

VolTable == <<0, 123, 178, 259, 377, 560, 793, 1319, 1555, 2519, 3590, 4581, 6052, 7806, 9898, 12287>>

TonePeriod(r, ch) == AtLeast1((r[2 * ch - 1] % 16) * 256 + r[2 * ch - 2])
NoisePeriod(r)    == AtLeast1(r[6] % 32) * 2
EnvPeriod(r)      == AtLeast1(r[12] * 256 + r[11])

\* Tones and noise are on with 0 in R7; a volume of 16 and more is the envelope's.
ToneOn(r, ch)  == ~IsSet(r[7], <<1, 2, 4>>[ch])
NoiseOn(r, ch) == ~IsSet(r[7], <<8, 16, 32>>[ch])
Enveloped(r, ch) == IsSet(r[7 + ch], 16)

NewTone == [cnt |-> 1, out |-> 0]
NewGen ==
  [tone |-> <<NewTone, NewTone, NewTone>>, noise |-> 1, lfsr |-> 1,
   env |-> 1, step |-> 31, attack |-> 0, alternate |-> FALSE, hold |-> FALSE, holding |-> FALSE, frac |-> 0]

\* R13: the shape, which starts anew with every write.
ResetEnvelope(g, r) ==
  LET up == IF IsSet(r[13], 4) THEN 31 ELSE 0
      continue == IsSet(r[13], 8)
  IN [g EXCEPT !.attack = up, !.hold = ~continue \/ IsSet(r[13], 1),
               !.alternate = IF continue THEN IsSet(r[13], 2) ELSE up # 0,
               !.step = 31, !.holding = FALSE, !.env = EnvPeriod(r)]

\* The square wave over the ticks of a sample, with the ticks that it was high. A
\* counter is at least 1 and so reloads at most once a tick.
Flipped(t, period) ==
  IF t.cnt > t.rem THEN t
  ELSE [cnt |-> period, out |-> 1 - t.out, rem |-> t.rem - t.cnt, high |-> t.high + t.out * t.cnt]
AtEnd(t) == [cnt |-> t.cnt - t.rem, out |-> t.out, high |-> t.high + t.out * t.rem]
Toned(cnt, out, ticks, period) ==
  LET after[k \in 0..ticks] ==
        Flipped(IF k = 0 THEN [cnt |-> cnt, out |-> out, rem |-> ticks, high |-> 0] ELSE after[k - 1], period)
  IN AtEnd(after[ticks])

Shifted17(l) == (l \div 2) + (((l + (l \div 8)) % 2) * 65536)

\* _step_noise: 17 bits, fed back from bits 0 and 3.
Noised(g, period) ==
  IF g.noise > 0 THEN g ELSE [g EXCEPT !.noise = @ + period, !.lfsr = Shifted17(@)]
StepNoise(g, r, ticks) ==
  LET after[k \in 0..ticks] ==
        IF k = 0 THEN [g EXCEPT !.noise = @ - ticks] ELSE Noised(after[k - 1], NoisePeriod(r))
  IN after[ticks]

\* _step_envelope: at the end a shape holds, the other way round if it alternates, or
\* starts again. A held envelope keeps its counter below zero.
Enveloping(g, period) ==
  LET flipped == IF g.alternate THEN 31 - g.attack ELSE g.attack
  IN CASE g.holding \/ g.env > 0 -> g
       [] ~g.holding /\ g.env <= 0 /\ g.step > 0 -> [g EXCEPT !.env = @ + period, !.step = @ - 1]
       [] ~g.holding /\ g.env <= 0 /\ g.step <= 0 ->
            IF g.hold THEN [g EXCEPT !.env = @ + period, !.attack = flipped, !.holding = TRUE]
            ELSE [g EXCEPT !.env = @ + period, !.step = 31, !.attack = flipped]
StepEnvelope(g, r, ticks) ==
  LET after[k \in 0..ticks] ==
        IF k = 0 THEN [g EXCEPT !.env = @ - ticks] ELSE Enveloping(after[k - 1], EnvPeriod(r))
  IN IF g.holding THEN g ELSE after[ticks]

EnvelopeLevel(g) == (IF g.attack = 31 THEN 31 - g.step ELSE g.step) \div 2

-----------------------------------------------------------------------------
(* Samples: noise and envelope run only while a channel uses them.         *)

\* A channel: its volume for the part of the sample that the tone is high, if the
\* noise lets it pass.
ChannelOut(g, r, ch, high, ticks) ==
  LET amp == VolTable[1 + IF Enveloped(r, ch) THEN EnvelopeLevel(g) ELSE r[7 + ch] % 16]
  IN CASE NoiseOn(r, ch) /\ g.lfsr % 2 = 0 -> 0
       [] ToneOn(r, ch) -> (amp * high[ch]) \div ticks
       [] OTHER -> amp

Mixed3(g, r, high, ticks) ==
  Min({32767, ChannelOut(g, r, 1, high, ticks) + ChannelOut(g, r, 2, high, ticks)
                + ChannelOut(g, r, 3, high, ticks)})

AnyNoise(r)    == \E ch \in 1..3 : NoiseOn(r, ch)
AnyEnvelope(r) == \E ch \in 1..3 : Enveloped(r, ch)
Ticks(g)       == (g.frac + PsgClock) \div SampleRate

NoiseAfter(g, r, ticks)    == IF AnyNoise(r) THEN StepNoise(g, r, ticks) ELSE g
EnvelopeAfter(g, r, ticks) == IF AnyEnvelope(r) THEN StepEnvelope(g, r, ticks) ELSE g

TonesAfter(g, r, ticks) ==
  LET Tone(ch) == Toned(g.tone[ch].cnt, g.tone[ch].out, ticks, TonePeriod(r, ch))
  IN <<Tone(1), Tone(2), Tone(3)>>
KeepTones(g, tones) ==
  LET Kept(ch) == [cnt |-> tones[ch].cnt, out |-> tones[ch].out]
  IN [g EXCEPT !.frac = (@ + PsgClock) % SampleRate, !.tone = <<Kept(1), Kept(2), Kept(3)>>]

\* One sample of _render; s has the generators and the samples so far.
Sounded(s, g, r, high, ticks) == [s EXCEPT !.gen = g, !.out = Append(@, Mixed3(g, r, high, ticks))]
TonesSounded(s, r, tones, ticks) ==
  Sounded(s, EnvelopeAfter(NoiseAfter(KeepTones(s.gen, tones), r, ticks), r, ticks), r,
          <<tones[1].high, tones[2].high, tones[3].high>>, ticks)
Sample(s, r) == TonesSounded(s, r, TonesAfter(s.gen, r, Ticks(s.gen)), Ticks(s.gen))

Render(s, r, n) == FoldLeft(LAMBDA t, i : Sample(t, r), s, [i \in 1..n |-> i])

-----------------------------------------------------------------------------
(* The PSG.                                                                *)

NewPsg == [regs |-> [r \in 0..15 |-> 0], gen |-> NewGen, events |-> <<>>, base |-> <<>>]
Discarded(p) == [p EXCEPT !.events = <<>>, !.base = <<>>]

WithRegister(g, regs, reg) == IF reg = 13 THEN ResetEnvelope(g, regs) ELSE g

\* write_port: the first write of a frame keeps what to go back to.
WritePsg(p, cycle, reg, b) ==
  LET regs == [p.regs EXCEPT ![reg] = b]
      recorded == Len(p.events) < MaxEvents
  IN [p EXCEPT !.regs = regs, !.gen = WithRegister(@, regs, reg),
               !.events = IF recorded THEN Append(@, <<cycle, reg, b>>) ELSE @,
               !.base = IF recorded /\ p.events = <<>> THEN [regs |-> p.regs, gen |-> p.gen] ELSE @]

\* Mutant: a write is heard from the sample after the one it falls in.
PositionAfter(cycle, n) == Min({n, 1 + ((cycle * n) \div Span)})

\* The sample of a cycle; a write at the end of the frame comes after the last.
Position(cycle, n) == (cycle * n) \div Span

\* Played with the registers in force, up to n samples.
Filled(s, n) == Render(s, s.regs, n - Len(s.out))

Registered(s, e) ==
  LET regs == [s.regs EXCEPT ![e[2]] = e[3]]
  IN [s EXCEPT !.regs = regs, !.gen = WithRegister(@, regs, e[2])]

Replayed(p, n) ==
  Filled(FoldLeft(LAMBDA s, e : Registered(Filled(s, Position(e[1], n)), e),
                  [gen |-> p.base.gen, out |-> <<>>, regs |-> p.base.regs], p.events), n)

\* generate_samples. The registers are those that the writes left, recorded or not.
Played(p, n) ==
  IF p.events = <<>> \/ p.base = <<>> THEN Filled([gen |-> p.gen, out |-> <<>>, regs |-> p.regs], n)
  ELSE Replayed(p, n)
FrameDone(p, gen) == [p EXCEPT !.gen = gen, !.events = <<>>, !.base = IF p.events = <<>> THEN @ ELSE <<>>]

\* parse_synth_state
PsgParses(g) ==
  /\ \A ch \in 1..3 : g.tone[ch].cnt \in 1..4095 /\ g.tone[ch].out \in 0..1
  /\ g.noise \in 1..62 /\ g.lfsr \in 1..131071
  /\ g.env \in -16..65535 /\ g.step \in 0..31 /\ g.attack \in {0, 31}
  /\ g.frac \in 0..(SampleRate - 1)

-----------------------------------------------------------------------------
(* A DAC keeps the levels of a frame; the key click is bit 7 of Port C.    *)

NewDac(level) == [level |-> level, held |-> level, events |-> <<>>]

WriteDac(d, cycle, level) ==
  IF level = d.level THEN d
  ELSE [d EXCEPT !.level = level, !.events = IF Len(@) < MaxEvents THEN Append(@, <<cycle, level>>) ELSE @]

\* The level of a sample is the last one written by its cycle. The next frame begins
\* with the true level, also if its change was not recorded.
LevelAt(d, cycle) ==
  FoldLeft(LAMBDA level, e : IF e[1] <= cycle THEN e[2] ELSE level, d.held, d.events)
DacOut(d, n) == [i \in 1..n |-> LevelAt(d, ((i - 1) * Span) \div n)]
DacFrame(d)  == [d EXCEPT !.events = <<>>, !.held = IF d.events = <<>> THEN @ ELSE d.level]

ClickLevel(portC) == IF IsSet(portC, 128) THEN 9288 ELSE 0
CartLevel(b)      == (b - 128) * 256

NewPpi == [portC |-> 0, control |-> 155, bus |-> 255]

\* Port 0xAB: a mode word, or one bit of Port C.
ControlledC(c, b) ==
  LET bit == 2 ^ ((b \div 2) % 8)
  IN CASE b > 127 -> c
       [] b % 2 = 1 -> IF IsSet(c, bit) THEN c ELSE c + bit
       [] OTHER -> IF IsSet(c, bit) THEN c - bit ELSE c

PortC(p, port, b) == CASE port = 170 -> b [] port = 171 -> ControlledC(p.portC, b) [] OTHER -> p.portC
WritePpi(p, port, b) ==
  [p EXCEPT !.portC = PortC(p, port, b), !.bus = 255 - b,
            !.control = IF port = 171 /\ b > 127 THEN b ELSE @]

\* A read of Port B, the selected row of the keyboard, leaves its byte on the bus.
ReadPpi(p, port, row) ==
  LET byte == IF port = 169 THEN row ELSE p.portC IN [p EXCEPT !.bus = byte]

-----------------------------------------------------------------------------
(* The SCC: five waves, four in the compatible mode, which writes the      *)
(* fourth to the fifth too.                                                *)

NewScc ==
  [waves |-> [bank \in 1..5 |-> [i \in 0..31 |-> 0]], freq |-> <<0, 0, 0, 0, 0>>, vol |-> <<0, 0, 0, 0, 0>>,
   enable |-> 0, chan |-> [k \in 1..5 |-> [count |-> 0, step |-> 0]], frac |-> 0, plus |-> FALSE]

WriteWave(c, addr, b) ==
  LET bank == 1 + (addr \div 32)
      w == [c EXCEPT !.waves[bank][addr % 32] = b]
  IN IF bank = 4 /\ ~c.plus THEN [w EXCEPT !.waves[5][addr % 32] = b] ELSE w

WriteControls(c, reg, b) ==
  LET ch == 1 + (reg \div 2)
  IN CASE reg \in 10..14 -> [c EXCEPT !.vol[reg - 9] = b % 16]
       [] reg = 15 -> [c EXCEPT !.enable = b % 32]
       [] reg % 2 = 0 -> [c EXCEPT !.freq[ch] = ((@ \div 256) * 256) + b]
       [] OTHER -> [c EXCEPT !.freq[ch] = (@ % 256) + ((b % 16) * 256)]

WriteScc(c, addr, b) ==
  LET waves == IF c.plus THEN 160 ELSE 128
  IN CASE addr < waves -> WriteWave(c, addr, b)
       [] addr >= waves + 32 -> c
       [] OTHER -> WriteControls(c, addr % 16, b)

Signed8(b) == IF b < 128 THEN b ELSE b - 256
Clamped16(n) == IF n > 32767 THEN 32767 ELSE IF n < -32768 THEN -32768 ELSE n

\* All five advance, the enabled ones are heard.
SccAfter(c, ticks) ==
  LET Total(k) == c.chan[k].count + ticks
      Chan(k)  == [count |-> Total(k) % (c.freq[k] + 1),
                   step |-> (c.chan[k].step + (Total(k) \div (c.freq[k] + 1))) % 32]
  IN [c EXCEPT !.frac = (@ + CpuClock) % SampleRate, !.chan = <<Chan(1), Chan(2), Chan(3), Chan(4), Chan(5)>>]

SccLevel(c) ==
  LET Heard(k) == IF IsSet(c.enable, 2 ^ (k - 1)) THEN Signed8(c.waves[k][c.chan[k].step]) * c.vol[k] * 6 ELSE 0
  IN Clamped16(Heard(1) + Heard(2) + Heard(3) + Heard(4) + Heard(5))

SccSounded(s, c) == [scc |-> c, out |-> Append(s.out, SccLevel(c))]
SccSample(s, i) == SccSounded(s, SccAfter(s.scc, (s.scc.frac + CpuClock) \div SampleRate))

SccFrame(c, n) == FoldLeft(SccSample, [scc |-> c, out |-> <<>>], [i \in 1..n |-> i])

SccParses(c) ==
  \A k \in 1..5 : c.freq[k] \in 0..4095 /\ c.chan[k].count \in 0..4095 /\ c.chan[k].step \in 0..31

\* mix_frame
Mix(outs, n) == [i \in 1..n |-> Clamped16(FoldLeft(LAMBDA sum, out : sum + out[i], 0, outs))]

-----------------------------------------------------------------------------
(* The reference: every tick on its own, played up to each write as it is  *)
(* made. A held envelope's counter is not heard.                           *)

OneTick(s, r) ==
  LET g == s.gen
      Tone(ch) == IF g.tone[ch].cnt = 1 THEN [cnt |-> TonePeriod(r, ch), out |-> 1 - g.tone[ch].out]
                  ELSE [g.tone[ch] EXCEPT !.cnt = @ - 1]
      High(ch) == s.high[ch] + g.tone[ch].out
  IN [gen |-> [EnvelopeAfter(NoiseAfter(g, r, 1), r, 1) EXCEPT !.tone = <<Tone(1), Tone(2), Tone(3)>>],
      high |-> <<High(1), High(2), High(3)>>]

TicksSounded(s, r, t, ticks) ==
  Sounded(s, [t.gen EXCEPT !.frac = (@ + PsgClock) % SampleRate], r, t.high, ticks)
TickedSample(s, r) ==
  TicksSounded(s, r, FoldLeft(LAMBDA u, i : OneTick(u, r), [gen |-> s.gen, high |-> <<0, 0, 0>>],
                              [i \in 1..Ticks(s.gen) |-> i]), Ticks(s.gen))

PlayedTo(s, r, pos) == FoldLeft(LAMBDA t, i : TickedSample(t, r), s, [i \in 1..(pos - Len(s.out)) |-> i])

\* Samples whose cycle comes before this one.
SamplesBefore(cycle, n) == Cardinality({i \in 1..n : ((i - 1) * Span) \div n < cycle})
Held(out, level, n) == out \o [i \in 1..(IF n > Len(out) THEN n - Len(out) ELSE 0) |-> level]

Audible(g) == [g EXCEPT !.env = IF g.holding THEN 0 ELSE @]
Fresh(p) == [gen |-> p.gen, out |-> <<>>, click |-> <<>>, whole |-> TRUE]

-----------------------------------------------------------------------------
(* The frame: a program's writes at rising cycles, the mix at its end; a   *)
(* load or a reset gives the frame up.                                     *)

SoundStep == soundJob.fuel > 0 /\ soundJob' = [soundJob EXCEPT !.fuel = @ - 1]
AtLaterCycle == \E c \in frameCycle..Span : frameCycle' = c

\* The reference takes the write too; a frame with more than are recorded is not whole.
LiveAfter(l, regs, reg) ==
  [l EXCEPT !.gen = WithRegister(@, regs, reg), !.whole = @ /\ Len(psg.events) < MaxEvents]

WritePsgRegister ==
  /\ SoundStep /\ AtLaterCycle
  /\ \E w \in soundJob.psg :
       /\ psg' = WritePsg(psg, frameCycle', w[1], w[2])
       /\ live' = LiveAfter(PlayedTo(live, psg.regs, (frameCycle' * Samples) \div Span), psg'.regs, w[1])
  /\ UNCHANGED <<click, cart, ppi, scc, soundSnap, mixed>>

WriteClick ==
  /\ SoundStep /\ AtLaterCycle
  /\ \E w \in soundJob.click :
       /\ ppi' = WritePpi(ppi, w[1], w[2])
       /\ click' = WriteDac(click, frameCycle', ClickLevel(ppi'.portC))
       /\ live' = [live EXCEPT !.click = Held(@, ClickLevel(ppi.portC), SamplesBefore(frameCycle', Samples)),
                               !.whole = @ /\ Len(click.events) < MaxEvents]
  /\ UNCHANGED <<psg, cart, scc, soundSnap, mixed>>

ReadPorts ==
  /\ SoundStep /\ soundJob.click # {}
  /\ \E port \in {169, 170}, row \in {255, 254} : ppi' = ReadPpi(ppi, port, row)
  /\ UNCHANGED <<psg, click, cart, scc, frameCycle, soundSnap, mixed, live>>

WriteCartDac ==
  /\ SoundStep /\ AtLaterCycle
  /\ \E b \in soundJob.cart : cart' = WriteDac(cart, frameCycle', CartLevel(b))
  /\ UNCHANGED <<psg, click, ppi, scc, soundSnap, mixed, live>>

WriteSccRegister ==
  /\ SoundStep
  /\ \/ \E w \in soundJob.scc : scc' = WriteScc(scc, w[1], w[2])
     \/ soundJob.scc # {} /\ scc' = [scc EXCEPT !.plus = ~@]
  /\ UNCHANGED <<psg, click, cart, ppi, frameCycle, soundSnap, mixed, live>>

\* Every source makes its samples, and the frame begins anew.
Mixing(p, c, l) ==
  /\ psg' = FrameDone(psg, p.gen) /\ scc' = c.scc
  /\ click' = DacFrame(click) /\ cart' = DacFrame(cart)
  /\ mixed' = [psg |-> p.out, click |-> DacOut(click, Samples), cart |-> DacOut(cart, Samples),
               sum |-> Mix(<<p.out, c.out, DacOut(cart, Samples), DacOut(click, Samples)>>, Samples),
               heard |-> IF l.whole THEN [psg |-> l.out, click |-> Held(l.click, ClickLevel(ppi.portC), Samples),
                                          gen |-> Audible(l.gen)]
                         ELSE <<>>]
  /\ live' = [gen |-> IF l.whole THEN l.gen ELSE p.gen, out |-> <<>>, click |-> <<>>, whole |-> TRUE]
  /\ frameCycle' = 0

MixFrame ==
  /\ SoundStep
  /\ Mixing(Played(psg, Samples), SccFrame(scc, Samples), PlayedTo(live, psg.regs, Samples))
  /\ UNCHANGED <<ppi, soundSnap>>

\* A save state has the registers and generators, no writes of the frame.
SaveSound ==
  /\ SoundStep /\ "state" \in soundJob.events
  /\ soundSnap' = [regs |-> psg.regs, gen |-> psg.gen, cart |-> cart.level, ppi |-> ppi,
                   scc |-> [scc EXCEPT !.plus = FALSE], plus |-> scc.plus]
  /\ UNCHANGED <<psg, click, cart, ppi, scc, frameCycle, mixed, live>>

LoadSound ==
  /\ SoundStep /\ soundSnap # <<>>
  /\ psg' = Discarded([psg EXCEPT !.regs = soundSnap.regs, !.gen = soundSnap.gen])
  /\ ppi' = soundSnap.ppi /\ click' = NewDac(ClickLevel(ppi'.portC))
  /\ cart' = NewDac(soundSnap.cart)
  /\ scc' = [soundSnap.scc EXCEPT !.plus = soundSnap.plus]
  /\ frameCycle' = 0 /\ live' = Fresh(psg')
  /\ UNCHANGED <<soundSnap, mixed>>

ResetSound ==
  /\ SoundStep /\ "reset" \in soundJob.events
  /\ psg' = NewPsg /\ click' = NewDac(0) /\ cart' = NewDac(0) /\ scc' = NewScc
  /\ ppi' = [NewPpi EXCEPT !.bus = ppi.bus]
  /\ frameCycle' = 0 /\ live' = Fresh(NewPsg)
  /\ UNCHANGED <<soundSnap, mixed>>

SoundInit ==
  /\ soundJob \in SoundJobs
  /\ psg = [NewPsg EXCEPT !.regs = soundJob.regs]
  /\ click = NewDac(0) /\ cart = NewDac(0) /\ ppi = NewPpi /\ scc = NewScc
  /\ frameCycle = 0 /\ soundSnap = <<>> /\ mixed = <<>> /\ live = Fresh(psg)

SoundNext ==
  \/ WritePsgRegister \/ WriteClick \/ ReadPorts \/ WriteCartDac \/ WriteSccRegister
  \/ MixFrame \/ SaveSound \/ LoadSound \/ ResetSound

-----------------------------------------------------------------------------

\* What a frame plays is what the program wrote, each write heard from its own place in
\* the frame, as if every tick were played at its time: the PSG's replay gives the same
\* samples and leaves its generators as they would be, whatever writes, envelope
\* restarts, earlier frames, loads and resets there were, and the click is bit 7 of
\* Port C. Only a frame with more writes than are recorded is excepted; the registers
\* hold the last writes even then. Every state can be loaded again.
SoundFollowsTheWrites ==
  /\ mixed # <<>> /\ mixed.heard # <<>> =>
       mixed.psg = mixed.heard.psg /\ mixed.click = mixed.heard.click
  /\ frameCycle = 0 /\ psg.events = <<>> /\ live.whole => Audible(psg.gen) = Audible(live.gen)
  /\ click.level = ClickLevel(ppi.portC)
  /\ PsgParses(psg.gen) /\ SccParses(scc)
=============================================================================
