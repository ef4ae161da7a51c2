---------------------------- MODULE AudioCapture ----------------------------
(***************************************************************************)
(* Receive audio from a sound card: the driver's callback and the ring it  *)
(* may never wait on, the reader thread that turns blocks into frames, the *)
(* one-frame slot, the console, and opening and dropping the capture.      *)
(* Samples are numbered as the card delivers them; a sample is two bytes.  *)
(*                                                                         *)
(* Sources: cat-signal-audio/src/ring.rs, stream.rs, capture.rs, dsp.rs.   *)
(***************************************************************************)
EXTENDS Integers, Sequences, SequencesExt, FiniteSets

CONSTANTS
    Devices,       \* [offers, channels, rate]: what a card offers and its own default
    WantedHz,      \* the rate asked for
    Channel,       \* the channel the radio is on
    Capacity,      \* samples the ring holds
    Blocks,        \* the FFT sizes
    MaxPush,       \* samples in one callback
    MaxSamples     \* samples the card delivers

VARIABLES
    capture,       \* "none", "open", "failed", "refused", "dropped"
    device,        \* the card
    format,        \* what is being captured, as reported
    running,       \* whether the card calls back
    pushed,        \* samples delivered
    ring, closed, overruns,
    stop, params,  \* shared with the reader thread
    reader,        \* "none", "top", "reading", "waiting", "ended"
    block, buffer, \* the read_exact under way
    heard,         \* samples decoded, in order
    sequence, frame, ended, dropped,
    collected      \* frames the console has taken

vars == <<capture, device, format, running, pushed, ring, closed, overruns, stop, params,
          reader, block, buffer, heard, sequence, frame, ended, dropped, collected>>
threadVars == <<reader, block, buffer, heard, sequence, frame, ended, dropped>>

NoFrame == 0
BytesPerSample == 2
NoFormat == [rate |-> 0, channels |-> 0, substituted |-> FALSE]

Init ==
    /\ capture = "none" /\ device \in Devices /\ format = NoFormat /\ running = FALSE
    /\ pushed = 0 /\ ring = <<>> /\ closed = "" /\ overruns = 0 /\ stop = FALSE
    /\ params \in Blocks
    /\ reader = "none" /\ block = 0 /\ buffer = <<>> /\ heard = <<>>
    /\ sequence = 0 /\ frame = NoFrame /\ ended = "" /\ dropped = 0 /\ collected = <<>>

-----------------------------------------------------------------------------
(* Opening. *)

\* pick_range: the offers that cover the rate; of those the card's own channel
\* count, then the fewest channels, then the least conversion.
Rank(o, channels) ==
    (IF o.channels = channels THEN 0 ELSE 1000) + 10 * o.channels + o.rank
PickRange(offers, channels) ==
    LET covering == {o \in offers : o.min <= WantedHz /\ o.max >= WantedHz}
    IN {o \in covering : \A p \in covering : Rank(o, channels) <= Rank(p, channels)}

\* The rate asked for where an offer covers it, else the card's own.
Negotiate(d) ==
    LET picked == PickRange(d.offers, d.channels)
    IN IF picked # {}
       THEN LET o == CHOOSE p \in picked : TRUE
            IN [rate |-> WantedHz, channels |-> o.channels, substituted |-> FALSE]
       ELSE [rate |-> d.rate, channels |-> d.channels, substituted |-> d.rate # WantedHz]

\* open_named up to the reader thread, which is spawned before the card is
\* asked to start.
Open ==
    /\ capture = "none"
    /\ LET f == Negotiate(device)
       IN IF Channel >= f.channels
          THEN capture' = "refused" /\ UNCHANGED <<format, reader>>
          ELSE capture' = "starting" /\ format' = f /\ reader' = "top"
    /\ UNCHANGED <<device, running, pushed, ring, closed, overruns, stop, params,
                   block, buffer, heard, sequence, frame, ended, dropped, collected>>

\* build_stream and play.
Start ==
    /\ capture = "starting" /\ capture' = "open" /\ running' = TRUE
    /\ UNCHANGED <<device, format, pushed, ring, closed, overruns, stop, params, threadVars,
                   collected>>

\* Either fails: the stream built before is dropped with the error, the ring's
\* handle with it.
StartFails ==
    /\ capture = "starting" /\ capture' = "failed" /\ stop' = TRUE
    /\ UNCHANGED <<device, format, running, pushed, ring, closed, overruns, params, threadVars,
                   collected>>

-----------------------------------------------------------------------------
(* The driver's thread. *)

SampleBytes(first, n) ==
    [i \in 1..(BytesPerSample * n) |->
        <<first + (i - 1) \div BytesPerSample, (i - 1) % BytesPerSample>>]

\* The oldest bytes a push drops, which is a whole number of samples.
Evicted(wouldBe) == IF wouldBe > BytesPerSample * Capacity
                    THEN wouldBe - BytesPerSample * Capacity ELSE 0

\* PcmRing::push: of a block larger than the ring only the tail, then the
\* oldest goes; nothing after the end.
Push(n) ==
    /\ running /\ pushed + n <= MaxSamples
    /\ IF closed # "" THEN UNCHANGED <<pushed, ring, overruns>>
       ELSE LET skipped == IF n > Capacity THEN n - Capacity ELSE 0
                kept == SampleBytes(pushed + skipped + 1, n - skipped)
                excess == Evicted(Len(ring) + Len(kept))
            IN /\ pushed' = pushed + n
               /\ ring' = SubSeq(ring, excess + 1, Len(ring)) \o kept
               /\ overruns' = overruns + skipped + excess \div BytesPerSample
    /\ UNCHANGED <<capture, device, format, running, closed, stop, params, threadVars, collected>>

Close(reason) == closed' = IF closed = "" THEN reason ELSE closed

\* The card is unplugged, or the sound service stops.
DeviceStops ==
    /\ running /\ running' = FALSE /\ Close("device")
    /\ UNCHANGED <<capture, device, format, pushed, ring, overruns, stop, params, threadVars, collected>>

-----------------------------------------------------------------------------
(* The reader thread. *)

Finish(reason) ==
    /\ reader' = "ended" /\ ended' = IF ended = "" THEN reason ELSE ended
    /\ UNCHANGED <<block, buffer, heard, sequence, frame, dropped>>

\* The top of run's loop: whether to stop, and the block size now wanted.
RunTop ==
    /\ reader = "top"
    /\ IF stop THEN Finish("consumer")
       ELSE /\ reader' = "reading" /\ block' = params /\ buffer' = <<>>
            /\ UNCHANGED <<heard, sequence, frame, ended, dropped>>
    /\ UNCHANGED <<capture, device, format, running, pushed, ring, closed, overruns, stop, params,
                   collected>>

\* One RingReader::read of the read_exact; it waits on an empty open ring, and
\* what is left is read before the end is told.
RunRead ==
    /\ reader = "reading" /\ Len(buffer) < BytesPerSample * block
    /\ ring # <<>> \/ closed # ""
    /\ IF ring # <<>>
       THEN LET want == BytesPerSample * block - Len(buffer)
                n == IF Len(ring) < want THEN Len(ring) ELSE want
            IN /\ buffer' = buffer \o SubSeq(ring, 1, n) /\ ring' = SubSeq(ring, n + 1, Len(ring))
               /\ UNCHANGED <<reader, block, heard, sequence, frame, ended, dropped>>
       ELSE Finish(closed) /\ UNCHANGED ring
    /\ UNCHANGED <<capture, device, format, running, pushed, closed, overruns, stop, params, collected>>

\* pcm::decode pairs the bytes up; a pair of two halves of different samples
\* would be no sample (0).
Decoded(bytes) ==
    [i \in 1..(Len(bytes) \div BytesPerSample) |->
        IF bytes[2 * i - 1][1] = bytes[2 * i][1] /\ bytes[2 * i - 1][2] = 0
        THEN bytes[2 * i][1] ELSE 0]

\* A mutant of Handoff: a frame not taken yet is kept.
HandoffOldest == IF frame = NoFrame THEN sequence + 1 ELSE frame

\* The newest frame wins the slot.
Handoff == sequence + 1

RunProcess ==
    /\ reader = "reading" /\ Len(buffer) = BytesPerSample * block
    /\ heard' = heard \o Decoded(buffer) /\ sequence' = sequence + 1
    /\ frame' = Handoff /\ dropped' = dropped + (IF frame = NoFrame THEN 0 ELSE 1)
    /\ reader' = "top" /\ buffer' = <<>>
    /\ UNCHANGED <<block, ended, capture, device, format, running, pushed, ring, closed,
                   overruns, stop, params, collected>>

Reader == RunTop \/ RunRead \/ RunProcess

-----------------------------------------------------------------------------
(* The console. *)

\* try_next_frame and blocking_next_frame where there is a frame.
NextFrame ==
    /\ capture = "open" /\ frame # NoFrame
    /\ collected' = Append(collected, frame) /\ frame' = NoFrame
    /\ UNCHANGED <<capture, device, format, running, pushed, ring, closed, overruns, stop, params,
                   reader, block, buffer, heard, sequence, ended, dropped>>

\* apply("fft_size"): taken up at the next block.
Apply(b) ==
    /\ capture = "open" /\ params' = b /\ b # params
    /\ UNCHANGED <<capture, device, format, running, pushed, ring, closed, overruns, stop, threadVars,
                   collected>>

\* AudioCapture::drop closes the ring, then the card's stream and the reader's
\* handle go.
DropCapture ==
    /\ capture = "open" /\ capture' = "dropped"
    /\ Close("consumer") /\ running' = FALSE /\ stop' = TRUE
    /\ UNCHANGED <<device, format, pushed, ring, overruns, params, threadVars, collected>>

-----------------------------------------------------------------------------
Next ==
    \/ Open \/ Start \/ StartFails \/ DeviceStops \/ Reader
    \/ \E n \in 1..MaxPush : Push(n)
    \/ NextFrame \/ (\E b \in Blocks : Apply(b)) \/ DropCapture

\* The reader thread runs; the card and the console promise nothing.
Fairness == WF_vars(Reader)

Spec == Init /\ [][Next]_vars /\ Fairness

-----------------------------------------------------------------------------
(* Properties. *)

Increasing(s) == \A i, j \in DOMAIN s : i < j => s[i] < s[j]

\* However the callback and the reader interleave, and whatever the block size
\* is changed to, the byte stream never shifts: what is decoded are samples of
\* the card, in order, and every sample that is neither decoded nor on its way
\* was counted as dropped (ring.rs, "Whole samples, always"; samples_dropped).
AudioAccountedFor ==
    /\ 0 \notin {heard[i] : i \in DOMAIN heard} /\ Increasing(heard)
    /\ pushed = Len(heard) + overruns + (Len(ring) + Len(buffer)) \div BytesPerSample

\* The console's frames never go back in time, and the frames it missed are the
\* ones counted: a gap in the sequence numbers is a dropped frame (stream.rs run).
FramesAccountedFor ==
    /\ Increasing(collected)
    /\ sequence = Len(collected) + dropped + (IF frame = NoFrame THEN 0 ELSE 1)
    /\ frame # NoFrame => frame = sequence

\* What is reported of the card is what it runs at: the rate asked for exactly
\* where an offer has it, and otherwise said to be substituted (capture.rs,
\* CaptureFormat, "every frame reports the rate it was actually sampled at").
FormatIsTrue ==
    capture \in {"open", "dropped"} =>
        /\ Channel < format.channels
        /\ format.substituted <=> format.rate # WantedHz
        /\ \/ \E o \in device.offers : /\ o.min <= format.rate /\ o.max >= format.rate
                                       /\ o.channels = format.channels
           \/ format.rate = device.rate /\ format.channels = device.channels

\* Dropping the capture, or losing the card, ends the reader thread
\* (capture.rs, AudioCapture::drop, "nothing else would ever wake it").
ReaderEnds == (capture = "dropped" \/ closed # "") ~> (reader = "ended")

\* A capture that did not start leaves no reader thread behind (stream.rs, Drop
\* for AudioStream: "a detached thread that ends on its next syscall").
FailedOpenLeavesNothing == (capture = "failed") ~> (reader = "ended")
=============================================================================
