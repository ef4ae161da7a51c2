---------------------------- MODULE MorseDecoder ----------------------------
(***************************************************************************)
(* The streaming CW decoder (cat-morse/src/decoder.rs): the detector with  *)
(* its warm-up and its debounce, the classifier that turns marks and gaps  *)
(* into letters, and the automatic pitch search that locks on a station,   *)
(* gives it up when it has gone quiet, and replays what it buffered.       *)
(*                                                                         *)
(* Time is counted in envelope hops.  What a hop contributes is which      *)
(* station, if any, is keyed in it (Sounds); the Goertzel bins, noise      *)
(* floor, peaks and thresholds behind that are left out, as is the         *)
(* learning of the sender's speed: the limits between a blip, a dit, a dah *)
(* and a carrier and between the gaps are constants.                       *)
(***************************************************************************)
EXTENDS Integers, Sequences, FiniteSets

CONSTANTS
    Modes,          \* PitchMode: "Fixed" at station "a", or "Auto"
    Stations,       \* stations that may be keyed, at pitches REACQUIRE_HZ apart
    Quiet,          \* a hop with nobody keyed
    WarmupHops,     \* WARMUP_S, in hops
    BufferHops,     \* AUTO_BUFFER_S, in hops
    ReacquireHops,  \* REACQUIRE_S, in hops
    BlockHops,      \* AUTO_BLOCK_S, in hops
    Need,           \* hops a change must hold (debounce)
    BlipBelow,      \* marks shorter than this are noise
    DahFrom,        \* marks from this length on are dahs
    CarrierAbove,   \* marks longer than this are no element at all
    IntraMax,       \* longest gap inside a letter
    WordAbove,      \* gaps longer than this end a word
    MaxHops         \* bound on the stream

VARIABLES
    mode,     \* DecoderConfig::pitch
    dec,      \* the decoder's state
    stream,   \* what has been fed, hop by hop
    ended     \* the input has ended (decode_all's flush)

vars == <<mode, dec, stream, ended>>

NoPitch == "none"
WordSpace == <<>>

\* Detector::new
NewDetector(d, pitch) ==
    [d EXCEPT !.pitch = pitch, !.warm = TRUE, !.warmup = <<>>, !.on = FALSE, !.pending = 0,
              !.pendingAt = 0, !.start = 0, !.lastEnd = -1]

\* Decoder::new
Fresh ==
    [pitch |-> NoPitch, warm |-> FALSE, warmup |-> <<>>, on |-> FALSE, pending |-> 0, pendingAt |-> 0,
     start |-> 0, lastEnd |-> -1, buffer |-> <<>>, total |-> 0, lastActivity |-> 0,
     group |-> <<>>, rejects |-> 0, out |-> <<>>]

\* Classifier::flush_char: the letter formed so far is written.
FlushChar(d) ==
    IF d.group = <<>> THEN d ELSE [d EXCEPT !.out = Append(@, d.group), !.group = <<>>]

\* Classifier::word_space: never first, never twice in a row.
AddWordSpace(d) ==
    IF d.out # <<>> /\ d.out[Len(d.out)] # WordSpace THEN [d EXCEPT !.out = Append(@, WordSpace)] ELSE d

\* Classifier::gap_running and gap_ended.
Gap(d, length) ==
    IF length <= IntraMax THEN d
    ELSE IF length > WordAbove THEN AddWordSpace(FlushChar(d)) ELSE FlushChar(d)

\* Classifier::mark: an element, or a carrier unless two were refused just before.
Mark(d, from, to) ==
    IF to - from > CarrierAbove /\ d.rejects < 2
    THEN [AddWordSpace(FlushChar(d)) EXCEPT !.rejects = @ + 1]
    ELSE [d EXCEPT !.rejects = 0,
                   !.group = Append(@, [dah |-> to - from >= DahFrom, pitch |-> d.pitch, from |-> from, to |-> to])]

\* Decoder::mark_heard: a blip leaves the gap it fell in alone.
MarkHeard(d, from, to) ==
    IF to - from < BlipBelow THEN d
    ELSE LET after == [d EXCEPT !.lastEnd = to]
         IN  Mark(IF d.lastEnd = -1 THEN after ELSE Gap(after, from - d.lastEnd), from, to)

\* Decoder::hop: debounce, edges, activity, and what a running gap proves.
Hop(d, h) ==
    LET raw     == h.sound = d.pitch
        at      == IF d.pending = 0 THEN h.t ELSE d.pendingAt
        changes == raw # d.on /\ d.pending + 1 >= Need
        edged   == IF raw = d.on THEN [d EXCEPT !.pending = 0]
                   ELSE IF changes THEN [d EXCEPT !.on = raw, !.pending = 0, !.pendingAt = at,
                                                  !.start = IF raw THEN at ELSE @]
                   ELSE [d EXCEPT !.pending = @ + 1, !.pendingAt = at]
        active  == IF edged.on THEN [edged EXCEPT !.lastActivity = d.total] ELSE edged
        marked  == IF changes /\ ~raw THEN MarkHeard(active, d.start, at) ELSE active
    IN  IF ~marked.on /\ marked.lastEnd # -1 THEN Gap(marked, h.t - marked.lastEnd) ELSE marked

\* The state after the hops hs, one by one.
HopAll(d, hs) ==
    LET after[i \in 0..Len(hs)] ==
            IF i = 0 THEN d ELSE CHOOSE next \in {Hop(prev, hs[i]) : prev \in {after[i - 1]}} : TRUE
    IN  after[Len(hs)]

\* (A mutant of FinishWarmup: the warm-up is thrown away.)
FinishWarmupDiscarding(d) == [d EXCEPT !.warm = FALSE, !.warmup = <<>>]

\* Decoder::finish_warmup: the buffered hops, replayed.
FinishWarmup(d) ==
    IF ~d.warm THEN d ELSE HopAll([d EXCEPT !.warm = FALSE, !.warmup = <<>>], d.warmup)

\* Decoder::step.
Step(d, h) ==
    IF d.warm
    THEN LET held == [d EXCEPT !.warmup = Append(@, h)]
         IN  IF Len(held.warmup) >= WarmupHops THEN FinishWarmup(held) ELSE held
    ELSE Hop(d, h)

StepAll(d, hs) ==
    LET after[i \in 0..Len(hs)] ==
            IF i = 0 THEN d ELSE CHOOSE next \in {Step(prev, hs[i]) : prev \in {after[i - 1]}} : TRUE
    IN  after[Len(hs)]

\* Decoder::lock_on: the last station's text is finished, and the buffered audio
\* is heard again on the new pitch.
LockOn(d, pitch) ==
    LET left == IF d.pitch = NoPitch THEN d ELSE [AddWordSpace(FlushChar(d)) EXCEPT !.rejects = 0]
    IN  [StepAll(NewDetector(left, pitch), d.buffer) EXCEPT !.lastActivity = d.total]

\* AutoPitch::feed: the audio buffer.
Buffered(d, h) ==
    [d EXCEPT !.buffer = Append(IF Len(@) = BufferHops THEN Tail(@) ELSE @, h)]

\* ... and, at the end of a block, a station that stood out in what is buffered.
Locks(d) ==
    IF d.total % BlockHops # 0 THEN {NoPitch}
    ELSE {NoPitch} \cup ({d.buffer[i].sound : i \in DOMAIN d.buffer} \ {Quiet})

MayReacquire(d, pitch) ==
    /\ pitch # NoPitch /\ pitch # d.pitch
    /\ ~d.on /\ d.total - d.lastActivity > ReacquireHops

Init ==
    /\ mode \in Modes
    /\ dec = IF mode = "Fixed" THEN NewDetector(Fresh, "a") ELSE Fresh
    /\ stream = <<>> /\ ended = FALSE

\* Decoder::feed, of one hop.
Feed ==
    /\ Len(stream) < MaxHops /\ ~ended
    /\ \E s \in Stations \cup {Quiet} :
        LET h == [t |-> Len(stream), sound |-> s]
            d == [dec EXCEPT !.total = @ + 1]
            b == Buffered(d, h)
        IN  /\ stream' = Append(stream, s)
            /\ IF mode = "Fixed" THEN dec' = Step(d, h)
               ELSE \E lock \in Locks(b) :
                      dec' = IF b.pitch = NoPitch
                             THEN IF lock = NoPitch THEN b ELSE LockOn(b, lock)
                             ELSE IF MayReacquire(b, lock) THEN LockOn(b, lock) ELSE Step(b, h)
    /\ UNCHANGED <<mode, ended>>

\* Decoder::flush: a stream that ends in the warm-up, in a mark or in a letter.
Flushed(d) ==
    LET w == FinishWarmup(d)
        m == IF w.on THEN MarkHeard([w EXCEPT !.on = FALSE], w.start, Len(stream)) ELSE w
    IN  FlushChar(m)

Flush ==
    /\ ~ended /\ ended' = TRUE
    /\ dec' = Flushed(dec)
    /\ UNCHANGED <<mode, stream>>

Next == Feed \/ Flush

Spec == Init /\ [][Next]_vars

-----------------------------------------------------------------------------
\* Every element written or being formed.
Elements(d) == UNION {{d.out[i][j] : j \in DOMAIN d.out[i]} : i \in DOMAIN d.out} \cup {d.group[j] : j \in DOMAIN d.group}

ElementCount(d) ==
    LET n[i \in 0..Len(d.out)] == IF i = 0 THEN Len(d.group) ELSE n[i - 1] + Len(d.out[i])
    IN  n[Len(d.out)]

\* Nothing is written twice, however often the decoder gives up one station for
\* another and replays its buffer: no two elements come from the same stretch
\* of the same station's keying.
NothingTwice ==
    /\ ElementCount(dec) = Cardinality(Elements(dec))
    /\ \A e, f \in Elements(dec) : e # f /\ e.pitch = f.pitch => e.to <= f.from \/ f.to <= e.from

\* A mark of the stream: where station "a" is keyed, from the first hop of the
\* run to the first hop after it.
Run(from, to) ==
    /\ \A i \in (from + 1)..to : stream[i] = "a"
    /\ from = 0 \/ stream[from] # "a"
    /\ to = Len(stream) \/ stream[to + 1] # "a"

\* "A station keyed from the very first sample loses nothing": at a fixed pitch,
\* what the decoder has at the end of the input is exactly the marks of the
\* stream that are neither blips nor carriers, wherever the warm-up ended.
NothingLost ==
    mode = "Fixed" /\ ended =>
        LET heard == {<<e.from, e.to>> : e \in Elements(dec)}
            sent == {<<f, t>> \in (0..Len(stream)) \X (0..Len(stream)) :
                        f < t /\ t - f >= BlipBelow /\ t - f <= CarrierAbove /\ Run(f, t)}
        IN  sent \subseteq heard /\ \A x \in heard : Run(x[1], x[2])
=============================================================================
