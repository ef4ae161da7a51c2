------------------------------- MODULE RtlSdr -------------------------------
(***************************************************************************)
(* The IF spectrum from an RTL-SDR: a dongle on this machine (a worker     *)
(* thread, a slot for the newest buffer and a condition variable) or an    *)
(* rtl_tcp server (a byte stream), and the pipeline that turns samples     *)
(* into frames.  Samples are numbered; a sample is an I and a Q byte.  The *)
(* transform is represented by which frequency each of its bins holds.     *)
(*                                                                         *)
(* Sources: cat-signal-rtlsdr/src/device.rs, rtl_tcp.rs, open.rs, dsp.rs,  *)
(* lib.rs; cat-signal/src/lib.rs (SpectrumFrame).                          *)
(***************************************************************************)
EXTENDS Integers, Sequences, SequencesExt

CONSTANTS
    Endpoints,     \* "device", "network"
    Rates,         \* sample rates asked for
    FftSizes,      \* transform sizes, even
    Dials,         \* dial positions, Hz
    Trims,         \* trims, Hz
    MaxBuffers,    \* buffers the dongle fills
    MaxSamples,    \* samples the server sends
    MaxSets        \* retunes and settings applied

VARIABLES
    endpoint, rate, inverted,      \* what is opened
    state,         \* "closed", "opening", "open", "refused", "failed"
    worker,        \* "none", "configuring", "reading", "stopping", "ended"
    running, slot, dropped, made,  \* slot: the newest buffer, 0 if none
    reader,        \* next_frame: "idle", "entering", "holding", "asleep", "reading", "got", "failed"
    stream, sent, partial, bytes,  \* the socket, its samples, and the read under way
    heard,         \* samples or buffers processed, in order
    fftSize, dial, trim, sequence, frame,
    sets

vars == <<endpoint, rate, inverted, state, worker, running, slot, dropped, made, reader, stream,
          sent, partial, bytes, heard, fftSize, dial, trim, sequence, frame, sets>>
deviceVars == <<worker, running, slot, dropped, made>>
netVars == <<stream, sent, partial, bytes>>
pipeVars == <<heard, fftSize, dial, trim, sequence, frame>>
fixed == <<endpoint, rate, inverted>>

NoFrame == [center |-> 0, bins |-> <<>>, sequence |-> 0]

Init ==
    /\ endpoint \in Endpoints /\ rate \in Rates /\ inverted \in BOOLEAN
    /\ state = "closed" /\ worker = "none" /\ running = TRUE /\ slot = 0 /\ dropped = 0 /\ made = 0
    /\ reader = "idle" /\ stream = <<>> /\ sent = 0 /\ partial = <<>> /\ bytes = <<>> /\ heard = <<>>
    /\ fftSize \in FftSizes /\ dial = 0 /\ trim = 0 /\ sequence = 0 /\ frame = NoFrame /\ sets = 0

-----------------------------------------------------------------------------
(* Opening. *)

SAMPLE_RATE_BANDS == {<<225001, 300000>>, <<900001, 3200000>>}
IsValidSampleRate(hz) == \E b \in SAMPLE_RATE_BANDS : b[1] <= hz /\ hz <= b[2]

\* open: the rate first, then by what the spec names; the dongle is opened in
\* its worker thread.
Open ==
    /\ state = "closed"
    /\ state' = IF ~IsValidSampleRate(rate) THEN "refused" ELSE "opening"
    /\ worker' = IF state' = "opening" /\ endpoint = "device" THEN "configuring" ELSE worker
    /\ UNCHANGED <<fixed, running, slot, dropped, made, reader, netVars, pipeVars, sets>>

\* The rate, the frequency, the gain mode and the buffer reset all took, and
\* the opener is told.
WorkerOpened ==
    /\ worker = "configuring" /\ worker' = "reading" /\ state' = "open"
    /\ UNCHANGED <<fixed, running, slot, dropped, made, reader, netVars, pipeVars, sets>>

\* One of them failed: the opener is told that, and the thread ends.
WorkerRefused ==
    /\ worker = "configuring" /\ worker' = "ended" /\ state' = "failed" /\ running' = FALSE
    /\ UNCHANGED <<fixed, slot, dropped, made, reader, netVars, pipeVars, sets>>

\* RtlTcpSource::connect: a server whose greeting is a dongle's, or none.
Connect(greets) ==
    /\ state = "opening" /\ endpoint = "network" /\ state' = IF greets THEN "open" ELSE "failed"
    /\ UNCHANGED <<fixed, deviceVars, reader, netVars, pipeVars, sets>>

-----------------------------------------------------------------------------
(* The dongle's worker thread. *)

\* The slot's mutex is free where the reader does not hold it.
Unlocked == reader # "holding"
Woken == IF reader = "asleep" THEN "entering" ELSE reader

\* read_sync gave a buffer: the newest wins, and the reader is woken.
Deliver ==
    /\ worker = "reading" /\ Unlocked /\ made < MaxBuffers
    /\ made' = made + 1 /\ slot' = made + 1
    /\ dropped' = dropped + (IF slot # 0 THEN 1 ELSE 0)
    /\ reader' = Woken
    /\ UNCHANGED <<fixed, state, worker, running, netVars, pipeVars, sets>>

\* read_sync failed: running is cleared, without the mutex ...
ReadFails ==
    /\ worker = "reading" /\ worker' = "stopping" /\ running' = FALSE
    /\ UNCHANGED <<fixed, state, slot, dropped, made, reader, netVars, pipeVars, sets>>

\* ... and every waiter is woken.
NotifyEnd ==
    /\ worker = "stopping" /\ worker' = "ended" /\ reader' = Woken
    /\ UNCHANGED <<fixed, state, running, slot, dropped, made, netVars, pipeVars, sets>>

-----------------------------------------------------------------------------
(* The pipeline. *)

\* What a forward transform of n samples puts in its bins: DC up to the
\* highest frequency, then the lowest up to DC.
Transformed(n) == [i \in 1..n |-> IF i - 1 < n \div 2 THEN i - 1 ELSE i - 1 - n]

RotateLeft(s, k) == SubSeq(s, k + 1, Len(s)) \o SubSeq(s, 1, k)

\* process: the halves are swapped, and a mirrored IF is mirrored back.
Bins(n, mirrored) ==
    LET shifted == RotateLeft(Transformed(n), n \div 2)
    IN IF mirrored THEN Reverse(shifted) ELSE shifted

\* saturating_add_signed.
CenterHz == IF dial + trim < 0 THEN 0 ELSE dial + trim

Process(samples) ==
    /\ heard' = heard \o samples /\ sequence' = sequence + 1
    /\ frame' = [center |-> CenterHz, bins |-> Bins(fftSize, inverted), sequence |-> sequence + 1]
    /\ UNCHANGED <<fftSize, dial, trim>>

-----------------------------------------------------------------------------
(* next_frame over the dongle: RtlSdrDevice::read. *)

NextFrame ==
    /\ state = "open" /\ reader = "idle"
    /\ reader' = IF endpoint = "device" THEN "entering" ELSE "reading"
    /\ bytes' = IF endpoint = "device" THEN bytes ELSE partial
    /\ partial' = IF endpoint = "device" THEN partial ELSE <<>>
    /\ UNCHANGED <<fixed, state, deviceVars, stream, sent, pipeVars, sets>>

\* The loop's body, with the mutex: a buffer is one frame (a transfer is larger
\* than the largest transform); no buffer and no worker is the end.
ReadSlot ==
    /\ reader = "entering"
    /\ IF slot # 0
       THEN reader' = "idle" /\ slot' = 0 /\ Process(<<slot>>)
       ELSE reader' = (IF running THEN "holding" ELSE "failed") /\ UNCHANGED <<slot, pipeVars>>
    /\ UNCHANGED <<fixed, state, worker, running, dropped, made, netVars, sets>>

\* Condvar::wait lets the mutex go and sleeps.
ReadWaits ==
    /\ reader = "holding" /\ reader' = "asleep"
    /\ UNCHANGED <<fixed, state, deviceVars, netVars, pipeVars, sets>>

-----------------------------------------------------------------------------
(* next_frame over rtl_tcp: RtlTcpSource::read. *)

\* The server sends; a read may end anywhere.
ServerSends ==
    /\ state = "open" /\ endpoint = "network" /\ sent < MaxSamples
    /\ sent' = sent + 1 /\ stream' = stream \o << <<sent + 1, "I">>, <<sent + 1, "Q">> >>
    /\ UNCHANGED <<fixed, state, deviceVars, reader, partial, bytes, pipeVars, sets>>

\* A mutant of Needed: the whole request, at every read of it.
NeededWhole == 2 * fftSize

\* Only as much as is still missing.
Needed == 2 * fftSize - Len(bytes)

ReadStream(n) ==
    /\ reader = "reading" /\ Len(bytes) < 2 * fftSize /\ n <= Needed /\ n <= Len(stream)
    /\ bytes' = bytes \o SubSeq(stream, 1, n) /\ stream' = SubSeq(stream, n + 1, Len(stream))
    /\ UNCHANGED <<fixed, state, deviceVars, reader, sent, partial, pipeVars, sets>>

\* The connection ended.
ReadClosed ==
    /\ reader = "reading" /\ Len(bytes) < 2 * fftSize /\ sent = MaxSamples /\ stream = <<>>
    /\ reader' = "failed"
    /\ UNCHANGED <<fixed, state, deviceVars, netVars, pipeVars, sets>>

\* Pairs up to the size of the transform; an I and a Q of different samples
\* are no sample.
Paired(b) ==
    [i \in 1..fftSize |-> IF b[2 * i - 1][2] = "I" /\ b[2 * i][1] = b[2 * i - 1][1]
                          THEN b[2 * i][1] ELSE 0]

\* An odd byte is kept for the next read.
ReadEnough ==
    /\ reader = "reading" /\ Len(bytes) >= 2 * fftSize /\ reader' = "idle"
    /\ partial' = IF Len(bytes) % 2 = 1 THEN <<Last(bytes)>> ELSE <<>>
    /\ bytes' = <<>> /\ Process(Paired(bytes))
    /\ UNCHANGED <<fixed, state, deviceVars, stream, sent, sets>>

-----------------------------------------------------------------------------
(* retune, and apply of the settings that may be written: between two frames. *)

Retune(hz) ==
    /\ state = "open" /\ reader = "idle" /\ sets < MaxSets /\ sets' = sets + 1 /\ dial' = hz
    /\ UNCHANGED <<fixed, state, deviceVars, reader, netVars, heard, fftSize, trim, sequence, frame>>

ApplyTrim(hz) ==
    /\ state = "open" /\ reader = "idle" /\ sets < MaxSets /\ sets' = sets + 1 /\ trim' = hz
    /\ UNCHANGED <<fixed, state, deviceVars, reader, netVars, heard, fftSize, dial, sequence, frame>>

ApplyFftSize(n) ==
    /\ state = "open" /\ reader = "idle" /\ sets < MaxSets /\ sets' = sets + 1 /\ fftSize' = n
    /\ UNCHANGED <<fixed, state, deviceVars, reader, netVars, heard, dial, trim, sequence, frame>>

-----------------------------------------------------------------------------
Next ==
    \/ Open \/ WorkerOpened \/ WorkerRefused \/ (\E g \in BOOLEAN : Connect(g))
    \/ Deliver \/ ReadFails \/ NotifyEnd
    \/ NextFrame \/ ReadSlot \/ ReadWaits
    \/ ServerSends \/ (\E n \in 1..(2 * MaxSamples) : ReadStream(n)) \/ ReadClosed \/ ReadEnough
    \/ (\E hz \in Dials : Retune(hz)) \/ (\E hz \in Trims : ApplyTrim(hz))
    \/ (\E n \in FftSizes : ApplyFftSize(n))

\* The threads run.  Nothing says that the dongle gives another buffer.
Fairness ==
    /\ WF_vars(NotifyEnd) /\ WF_vars(WorkerOpened \/ WorkerRefused)
    /\ WF_vars(ReadSlot) /\ WF_vars(ReadWaits)

Spec == Init /\ [][Next]_vars /\ Fairness

-----------------------------------------------------------------------------
(* Properties. *)

\* Every bin of a frame is where the frame says it is, low frequency first: the
\* frequency it holds is within half a bin of bin_frequency_hz's, whether or not
\* the IF is mirrored and at every size (dsp.rs process; cat-signal lib.rs,
\* "SpectrumFrame::bins is always low-frequency-first").
BinsWhereReported ==
    LET n == Len(frame.bins)
        held(i) == IF inverted THEN - frame.bins[i] ELSE frame.bins[i]
    IN \A i \in 1..n : 2 * held(i) - (2 * (i - 1) + 1 - n) \in -1..1

\* Over a socket no sample is lost or paired with half of another, whatever the
\* reads return and however the transform's size changes (rtl_tcp.rs read, "a
\* slow permanent sample loss"); from a dongle the buffers only move forward, and
\* the ones missing were counted (device.rs, "Newest wins; count what the
\* consumer missed").
SamplesInOrder ==
    IF endpoint = "network"
    THEN \A i \in DOMAIN heard : heard[i] = i
    ELSE /\ \A i, j \in DOMAIN heard : i < j => heard[i] < heard[j]
         /\ made = Len(heard) + dropped + (IF slot # 0 THEN 1 ELSE 0)

\* A reader waiting for a buffer is told when the worker has ended (device.rs:
\* "the end is signalled by `running` going false and `ready` waking every
\* waiter").
ReaderIsTold == (worker = "ended") ~> (reader # "asleep")
=============================================================================
