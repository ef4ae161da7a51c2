---------------------------- MODULE AudioPlayback ---------------------------
(***************************************************************************)
(* Playing audio to a sound card: the bounded queue between an application *)
(* and the driver's output callback, which may never wait for its lock.    *)
(* Samples are numbered as the queue takes them.                           *)
(*                                                                         *)
(* Sources: cat-signal-audio/src/sink.rs, playback.rs.                     *)
(***************************************************************************)
EXTENDS Integers, Sequences, SequencesExt

CONSTANTS
    Cards,           \* [offers, channels, rate]: what an output offers and its own default
    AskedHz,         \* the rate asked for
    QueueCapacity,   \* samples the queue holds
    MaxFrames,       \* frames of one callback
    MaxWrite,        \* samples of one write
    MaxTaken,        \* samples taken in all
    MaxCalls         \* callbacks in all

VARIABLES
    playback,        \* "none", "open", "failed"
    card, outFormat, \* the output, and what it runs at
    lock,            \* who holds the mutex: "free", "write", "clear"
    block,           \* samples of the write under way
    samples, playing, stopped, underruns, busy,
    taken,           \* samples accepted so far
    cleared,         \* samples discarded by clear
    played,          \* samples handed to the card, in order
    calls            \* callbacks made

playVars == <<playback, card, outFormat, lock, block, samples, playing, stopped, underruns, busy, taken, cleared, played, calls>>

cardVars == <<playback, card, outFormat>>

PlayInit ==
    /\ playback = "none" /\ card \in Cards
    /\ outFormat = [rate |-> 0, channels |-> 0, substituted |-> FALSE]
    /\ lock = "free" /\ block = 0 /\ samples = <<>> /\ playing = FALSE /\ stopped = FALSE
    /\ underruns = 0 /\ busy = 0 /\ taken = 0 /\ cleared = 0 /\ played = <<>>
    /\ calls = 0

MinOf(a, b) == IF a < b THEN a ELSE b

\* choose_output: of the offers that cover the rate, the card's own channel
\* count first, then the fewest channels, then the least conversion.
ChooseOutput(offers, channels) ==
    LET rank(o) == (IF o.channels = channels THEN 0 ELSE 1000) + 10 * o.channels + o.rank
        covering == {o \in offers : /\ o.min <= AskedHz /\ o.max >= AskedHz /\ o.channels > 0}
    IN {o \in covering : \A p \in covering : rank(o) <= rank(p)}

Negotiated(c) ==
    LET chosen == ChooseOutput(c.offers, c.channels)
    IN IF chosen # {} THEN [rate |-> AskedHz, channels |-> (CHOOSE o \in chosen : TRUE).channels,
                            substituted |-> FALSE]
       ELSE [rate |-> c.rate, channels |-> c.channels, substituted |-> c.rate # AskedHz]

\* open_named: the queue and the card's stream, which may not start.
OpenPlayback(starts) ==
    /\ playback = "none" /\ playback' = IF starts THEN "open" ELSE "failed"
    /\ outFormat' = IF starts THEN Negotiated(card) ELSE outFormat
    /\ UNCHANGED <<card, lock, block, samples, playing, stopped, underruns, busy, taken, cleared,
                   played, calls>>

\* write: the block is cleaned, then the lock is taken.
WriteBegin(n) ==
    /\ playback = "open" /\ lock = "free" /\ lock' = "write" /\ block' = n /\ taken + n <= MaxTaken
    /\ UNCHANGED <<cardVars, samples, playing, stopped, underruns, busy, taken, cleared, played, calls>>

Room == QueueCapacity - Len(samples)

\* As much as fits is queued; a stopped card takes nothing.
WriteEnd ==
    /\ lock = "write" /\ lock' = "free" /\ block' = 0
    /\ LET n == IF stopped THEN 0 ELSE MinOf(Room, block)
       IN /\ samples' = samples \o [i \in 1..n |-> taken + i] /\ taken' = taken + n
    /\ UNCHANGED <<cardVars, playing, stopped, underruns, busy, cleared, played, calls>>

ClearBegin ==
    /\ lock = "free" /\ samples # <<>> /\ lock' = "clear"
    /\ UNCHANGED <<cardVars, block, samples, playing, stopped, underruns, busy, taken, cleared, played, calls>>

\* clear: what is queued goes, and the silence after it is no underrun.
ClearEnd ==
    /\ lock = "clear" /\ lock' = "free"
    /\ cleared' = cleared + Len(samples) /\ samples' = <<>> /\ playing' = FALSE
    /\ UNCHANGED <<cardVars, block, stopped, underruns, busy, taken, played, calls>>

\* render, for a buffer of that many frames: the lock is only tried; held, the
\* callback is silence and takes nothing.
Render(frames) ==
    /\ playback = "open" /\ calls < MaxCalls /\ calls' = calls + 1
    /\ IF frames = 0 THEN UNCHANGED <<samples, playing, underruns, busy, played>>
       ELSE IF lock # "free"
            THEN busy' = busy + 1 /\ UNCHANGED <<samples, playing, underruns, played>>
            ELSE LET n == MinOf(Len(samples), frames)
                 IN /\ played' = played \o SubSeq(samples, 1, n)
                    /\ samples' = SubSeq(samples, n + 1, Len(samples))
                    /\ playing' = (n = frames)
                    /\ underruns' = underruns + (IF n < frames /\ playing THEN 1 ELSE 0)
                    /\ UNCHANGED busy
    /\ UNCHANGED <<cardVars, lock, block, stopped, taken, cleared>>

\* close, from the card's error callback, which waits for the lock.
Stop ==
    /\ playback = "open" /\ lock = "free" /\ ~stopped /\ stopped' = TRUE
    /\ UNCHANGED <<cardVars, lock, block, samples, playing, underruns, busy, taken, cleared, played, calls>>

PlayNext ==
    \/ (\E starts \in BOOLEAN : OpenPlayback(starts))
    \/ (\E n \in 1..MaxWrite : WriteBegin(n)) \/ WriteEnd
    \/ ClearBegin \/ ClearEnd \/ Stop
    \/ \E frames \in 0..MaxFrames : Render(frames)

-----------------------------------------------------------------------------
(* Properties. *)

\* Every sample accepted is played once, in order, unless it was cleared, and
\* the queue keeps its bound, whoever holds the lock when a callback comes
\* (sink.rs, "accepts what fits and says how much that was").
PlayedAsWritten ==
    /\ \A i, j \in DOMAIN played : i < j => played[i] < played[j]
    /\ taken = Len(played) + Len(samples) + cleared
    /\ Len(samples) <= QueueCapacity

\* An underrun is a callback that ran out partway (sink.rs, "ran out partway",
\* and an end that lands "on a callback boundary" is none).
UnderrunsArePartway ==
    [][underruns' # underruns => Len(played') > Len(played)]_playVars
=============================================================================
