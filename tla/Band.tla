-------------------------------- MODULE Band --------------------------------
(***************************************************************************)
(* The band an over is copied through (cat-morse/src/scenario/band.rs) and *)
(* the renderer that turns it into samples (synth.rs).  `band_channel_for` *)
(* draws noise, fading, static and an interfering station from the band's  *)
(* odds; what a chance or a range may give is a choice here.  The renderer *)
(* checks what it is given once more and then fills blocks of any size.    *)
(*                                                                         *)
(* Frequencies, levels and fade periods are in hundredths, because `draw`  *)
(* rounds to tenths.  Times are in half rise times, one sample each; the   *)
(* edges of a mark fall between samples and are kept doubled.              *)
(***************************************************************************)
EXTENDS Integers, Sequences, SequencesExt, FiniteSetsExt

CONSTANTS
    Overs,        \* the operators' signals, each a sequence of signals
    Bands,        \* the BandConditions tried
    Pitches, Rates,
    QrmKeyings,   \* what an interfering station may key
    Blocks        \* sizes of the blocks asked for

Rise    == 2        \* ToneShape::default
Second  == 6        \* the shortest over an interfering station joins
Margin  == 10000    \* PITCH_MARGIN_HZ
RefBandwidth == 50000

VARIABLES
    input,     \* the band, the over, the pitch and the sample rate asked for
    stage,     \* "asked", "refused", "drawn", "unrenderable", "rendering"
    channel,   \* the Channel: signals, noise, qrn, filter
    qrm,       \* the report's interfering station, if any
    marks,     \* the renderer's windows of each signal's marks
    n,         \* samples rendered
    sounding   \* for each sample, the signals heard in it

bandVars == <<input, stage, channel, qrm, marks, n, sounding>>

-----------------------------------------------------------------------------
(* Options are sequences of at most one element. *)
None    == <<>>
Has(o)  == o # None
Get(o)  == o[1]
Is(o, P(_)) == Has(o) => P(Get(o))

\* Keying::total, Keying::truncated
Total(keying) == FoldLeft(LAMBDA acc, s : acc + s.len, 0, keying)
Truncated(keying, max) ==
    LET step(acc, s) == IF acc.t >= max THEN acc
                        ELSE [t |-> acc.t + s.len,
                              out |-> Append(acc.out, [s EXCEPT !.len = Min({@, max - acc.t})])]
        out == FoldLeft(step, [t |-> 0, out |-> <<>>], keying).out
    IN  IF out # <<>> /\ ~Last(out).down THEN Front(out) ELSE out

Signal(keying, pitch, start, level) ==
    [keying |-> keying, pitch |-> pitch, start |-> start, level |-> level, qsb |-> None]

EffectiveStart(s) == Max({s.start, Rise \div 2})
End(s) == EffectiveStart(s) + Total(s.keying) + Rise \div 2

\* Channel::duration, without padding
Latest(signals) == Max({0} \cup {End(signals[i]) : i \in DOMAIN signals})

-----------------------------------------------------------------------------
(* band_channel_for *)

InOrder(r) == r[1] <= r[2]
Odds(p)    == p \in 0..100

\* BandConditions::validate
Valid(b) ==
    /\ Is(b.snr, InOrder)
    /\ Is(b.qsb, LAMBDA q : Odds(q.chance) /\ InOrder(q.depth) /\ q.depth[1] >= 0
                            /\ InOrder(q.period) /\ q.period[1] > 0)
    /\ Is(b.qrn, LAMBDA q : Odds(q.chance) /\ InOrder(q.rate) /\ q.rate[1] >= 0
                            /\ InOrder(q.level) /\ q.decay[1] > 0 /\ InOrder(q.decay))
    /\ Is(b.qrm, LAMBDA q : Odds(q.chance) /\ InOrder(q.offset) /\ q.offset[1] >= 0 /\ InOrder(q.level))
    /\ Is(b.rx, LAMBDA w : w > 0)

Top(rate)     == (rate \div 2) - Margin
Fits(f, rate) == f \in Margin..Top(rate)

\* draw: uniform in the range, rounded to a tenth.
Tenth(x)  == ((x + 5) \div 10) * 10
Draw(r)   == {Tenth(x) : x \in r[1]..r[2]}
Chance(p) == CASE p = 0 -> {FALSE} [] p = 100 -> {TRUE} [] OTHER -> BOOLEAN

\* Fading is drawn for every signal; one that fades already keeps its own.
Faded(s, odds) ==
    IF Has(s.qsb) \/ ~Has(odds) THEN {s}
    ELSE {IF hit THEN [s EXCEPT !.qsb = <<[depth |-> d, period |-> p]>>] ELSE s :
             hit \in Chance(Get(odds).chance), d \in Draw(Get(odds).depth), p \in Draw(Get(odds).period)}

\* The side an interfering station goes to: either, as long as it stays in the
\* passband the decoder accepts.
Offset(pitch, rate, magnitude, below) ==
    LET lo == Fits(pitch - magnitude, rate)
        hi == Fits(pitch + magnitude, rate)
    IN  IF lo /\ (below \/ ~hi) THEN -magnitude ELSE IF hi THEN magnitude ELSE 0

\* The interfering station: from somewhere in the first half of the over, cut
\* off where it ends; nobody if it has no room or nothing left to send.
Interfering(q, pitch, rate, end) ==
    {LET offset == Offset(pitch, rate, mag, below)
         cut    == Truncated(k, end - start)
     IN  IF cut # <<>> /\ offset # 0 THEN <<Signal(cut, pitch + offset, start, level)>> ELSE None :
        mag \in Draw(q.offset), below \in BOOLEAN, k \in QrmKeyings,
        start \in 0..(end \div 2), level \in Draw(q.level)}

DrawnQrm(b, pitch, rate, end) ==
    IF ~Has(b.qrm) THEN {None}
    ELSE UNION {IF hit /\ end >= Second THEN Interfering(Get(b.qrm), pitch, rate, end) ELSE {None} :
                   hit \in Chance(Get(b.qrm).chance)}

DrawnQrn(b) ==
    IF ~Has(b.qrn) THEN {None}
    ELSE UNION {IF hit THEN {<<[rate |-> r, decay |-> d]>> : r \in Draw(Get(b.qrn).rate),
                                d \in Get(b.qrn).decay[1]..Get(b.qrn).decay[2]} ELSE {None} :
                   hit \in Chance(Get(b.qrn).chance)}

Refuse ==
    /\ stage = "asked"
    /\ ~Valid(input.band) \/ ~Fits(input.pitch, input.rate)
    /\ stage' = "refused"
    /\ UNCHANGED <<input, channel, qrm, marks, n, sounding>>

BandChannelFor ==
    /\ stage = "asked" /\ Valid(input.band) /\ Fits(input.pitch, input.rate)
    /\ LET b == input.band
       IN  \E noise \in IF Has(b.snr) THEN {<<x>> : x \in Draw(Get(b.snr))} ELSE {None},
              crash \in DrawnQrn(b),
              q \in DrawnQrm(b, input.pitch, input.rate, Latest(input.over)),
              faded \in {s \in [DOMAIN input.over -> UNION {Faded(input.over[i], b.qsb) : i \in DOMAIN input.over}] :
                            \A i \in DOMAIN s : s[i] \in Faded(input.over[i], b.qsb)} :
              /\ qrm' = q
              /\ channel' = [signals |-> faded \o q, noise |-> noise, qrn |-> crash, filter |-> b.rx]
    /\ stage' = "drawn"
    /\ UNCHANGED <<input, marks, n, sounding>>

-----------------------------------------------------------------------------
(* The renderer *)

\* A mutant of Ramp: the gaps beside a mark are not looked at.
RampOfMark(keying, i) == Min({Rise, keying[i].len})

\* The ramp of mark i: shortened where the mark or a gap beside it is shorter.
Ramp(keying, i) ==
    Min({Rise, keying[i].len} \cup {keying[j].len : j \in {k \in {i - 1, i + 1} \cap DOMAIN keying : ~keying[k].down}})

\* SignalState::new, in doubled time
Windows(s) ==
    LET at[i \in 0..Len(s.keying)] == IF i = 0 THEN EffectiveStart(s) ELSE at[i - 1] + s.keying[i].len
        window(i) == [a |-> (2 * at[i - 1]) - Ramp(s.keying, i), b |-> (2 * at[i - 1]) + Ramp(s.keying, i),
                      c |-> (2 * at[i]) - Ramp(s.keying, i), d |-> (2 * at[i]) + Ramp(s.keying, i)]
        down == SelectSeq([i \in DOMAIN s.keying |-> i], LAMBDA i : s.keying[i].down)
    IN  [k \in DOMAIN down |-> window(down[k])]

CheckFreq(hz) == hz > 0 /\ 2 * hz < input.rate

\* ChannelRenderer::new: what it refuses.
Renderable ==
    /\ \A i \in DOMAIN channel.signals :
          /\ CheckFreq(channel.signals[i].pitch)
          /\ Is(channel.signals[i].qsb, LAMBDA q : q.depth >= 0 /\ q.period # 0)
    /\ Has(channel.noise) => CheckFreq(RefBandwidth)
    /\ Is(channel.qrn, LAMBDA q : q.rate >= 0 /\ q.decay # 0)
    /\ Has(channel.filter) => CheckFreq(input.pitch) /\ Get(channel.filter) > 0

Renderer ==
    /\ stage = "drawn"
    /\ stage' = IF Renderable THEN "rendering" ELSE "unrenderable"
    /\ marks' = IF Renderable THEN [i \in DOMAIN channel.signals |-> Windows(channel.signals[i])] ELSE <<>>
    /\ UNCHANGED <<input, channel, qrm, n, sounding>>

Remaining == Latest(channel.signals) - n

\* SignalState::envelope: the windows behind are passed, the next one decides.
Heard(windows, t) ==
    LET ahead == {k \in DOMAIN windows : 2 * t < windows[k].d}
    IN  ahead # {} /\ 2 * t > windows[Min(ahead)].a

\* ChannelRenderer::fill
Fill(size) ==
    /\ stage = "rendering" /\ Remaining > 0
    /\ LET count == Min({size, Remaining})
       IN  /\ n' = n + count
           /\ sounding' = sounding \o [k \in 1..count |-> {i \in DOMAIN marks : Heard(marks[i], n + k - 1)}]
    /\ UNCHANGED <<input, stage, channel, qrm, marks>>

BandInit ==
    /\ input \in [band : Bands, over : Overs, pitch : Pitches, rate : Rates]
    /\ stage = "asked" /\ n = 0 /\ sounding = <<>> /\ marks = <<>> /\ qrm = None
    /\ channel = [signals |-> <<>>, noise |-> None, qrn |-> None, filter |-> None]

BandNext == Refuse \/ BandChannelFor \/ Renderer \/ \E size \in Blocks : Fill(size)

BandSpec == BandInit /\ [][BandNext]_bandVars

-----------------------------------------------------------------------------
(* Properties. *)

\* A band that band_channel accepts is one the renderer renders, unless a fade
\* period rounds to nothing or half the sample rate is within the bandwidth
\* the noise is stated in (band.rs validate against ChannelRenderer::new).
AcceptedIsRendered ==
    stage = "unrenderable" =>
        \/ Has(input.band.qsb) /\ Get(input.band.qsb).period[1] < 5
        \/ Has(input.band.snr) /\ input.rate <= 2 * RefBandwidth

\* No key clicks: the ramps of a signal's marks are whole, in order, apart, and
\* within the time it has from the first sample to its end; and however the
\* blocks are cut, each sample sounds what is keyed there (synth.rs, Edges and
\* ChannelRenderer).
RampsApart ==
    /\ \A i \in DOMAIN marks : \A k \in DOMAIN marks[i] :
          LET w == marks[i][k]
          IN  /\ 0 <= w.a /\ w.a <= w.b /\ w.b <= w.c /\ w.c <= w.d
              /\ k < Len(marks[i]) => w.d <= marks[i][k + 1].a
              /\ w.d <= 2 * End(channel.signals[i])
    /\ \A t \in DOMAIN sounding :
          sounding[t] = {i \in DOMAIN marks : \E k \in DOMAIN marks[i] :
                            2 * (t - 1) \in (marks[i][k].a + 1)..(marks[i][k].d - 1)}

\* The doc of band_channel: the interfering station is "cut off where the over
\* ends, so it never makes the audio longer".
QrmNeverLonger ==
    stage = "rendering" => Latest(channel.signals) <= Latest(input.over)
=============================================================================
