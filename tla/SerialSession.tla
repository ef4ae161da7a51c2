--------------------------- MODULE SerialSession ---------------------------
(***************************************************************************)
(* One CAT session over a serial port, with time.  `SerialCatSession` runs *)
(* one exchange at a time on a byte stream without message boundaries or   *)
(* request numbers; what keeps an answer with its request is discarding:   *)
(* a drain before the request, a flush of the input on every failed read,  *)
(* and a whole-frame deadline that makes the session fail on its own       *)
(* before the broker cancels it from above.                                *)
(*                                                                         *)
(* The two ports differ: on Linux a cancelled operation is gone, and drain *)
(* reads the line until it is quiet; on Windows a worker thread performs   *)
(* the operations in order, a cancelled one included, and drain is the     *)
(* trait's empty default.                                                  *)
(*                                                                         *)
(* Sources: cat-transport-serial/src/session.rs, io_uring.rs, windows.rs,  *)
(* timeouts.rs; cat-transport-core/src/transport.rs; the caller's timeout  *)
(* in cat-server/src/broker.rs.  One tick is 500 ms.                       *)
(***************************************************************************)
EXTENDS Naturals, Sequences

CONSTANTS
    Backends,      \* the builds looked at, a subset of {"linux", "windows"}
    MaxRequests,   \* requests the caller makes
    MaxNoise,      \* unsolicited frames the radio sends
    MaxFrameLen    \* bytes of the longest frame read (64 in the code)

DrainBudget    == 1    \* BUDGET, 400 ms, within one tick
ReadTimeout    == 4    \* READ_TIMEOUT, 2 s
RequestTimeout == 10   \* DEFAULT_REQUEST_TIMEOUT, 5 s

VARIABLES
    backend,
    phase,     \* where `execute` or `send` is; "idle" between requests
    req, kind, \* the current request and whether it is a query or a set
    spent,     \* ticks since the request began, up to RequestTimeout
    clock,     \* ticks since this phase began
    jobs,      \* the port's operations in progress, the running one first
    stalled,   \* whether writing, with the wait for the port, or flushing took time
    drained,   \* whether the drain has read once
    rx,        \* the port's receive buffer
    frame,     \* the response read so far
    asked,     \* requests the radio has received and not yet looked at
    air,       \* what the radio has sent and the port has not received
    noise      \* unsolicited frames sent

vars == <<backend, phase, req, kind, spent, clock, jobs, stalled, drained, rx,
          frame, asked, air, noise>>

\* A byte: the request it answers (0 for none), whether it ends a frame, and
\* whether it was already received when the current request began.
Byte(r, end) == [of |-> r, end |-> end, old |-> FALSE]
Answer(r)    == <<Byte(r, FALSE), Byte(r, TRUE)>>

\* An operation of the port: what it does, for which request, whether its
\* caller still awaits it, and how long it has run.
Op(op, r) == [op |-> op, req |-> r, mine |-> TRUE, ticks |-> 0]

TypeOK ==
    /\ backend \in Backends
    /\ phase \in {"idle", "drain", "write", "flush", "read"}
    /\ req \in 0..MaxRequests /\ kind \in {"query", "set"}
    /\ spent \in 0..RequestTimeout /\ clock \in Nat
    /\ jobs \in Seq([op : {"read", "write"}, req : 0..MaxRequests,
                     mine : BOOLEAN, ticks : 0..RequestTimeout])
    /\ stalled \in BOOLEAN /\ drained \in BOOLEAN
    /\ \A s \in {rx, frame, air} :
          s \in Seq([of : 0..MaxRequests, end : BOOLEAN, old : BOOLEAN])
    /\ asked \in Seq(1..MaxRequests) /\ noise \in 0..MaxNoise

Init ==
    /\ backend \in Backends
    /\ phase = "idle" /\ req = 0 /\ kind = "query"
    /\ spent = 0 /\ clock = 0 /\ jobs = <<>>
    /\ stalled = FALSE /\ drained = FALSE
    /\ rx = <<>> /\ frame = <<>>
    /\ asked = <<>> /\ air = <<>> /\ noise = 0

-----------------------------------------------------------------------------
(* The session: execute and send. *)

Enter(p) == phase' = p /\ clock' = 0

Issue(op) == jobs' = Append(jobs, Op(op, req'))

\* A mutant of Drains: nothing is discarded before the request.
NeverDrains(k) == FALSE

\* `execute` starts with `drain`, `send` with the write.  The empty drain of
\* the Windows port returns at once.
Drains(k) == k = "query" /\ backend = "linux"

Begin(k) ==
    /\ phase = "idle" /\ req < MaxRequests
    /\ req' = req + 1 /\ kind' = k
    /\ spent' = 0 /\ stalled' = FALSE /\ frame' = <<>> /\ drained' = FALSE
    /\ rx' = [i \in DOMAIN rx |-> [rx[i] EXCEPT !.old = TRUE]]
    /\ IF Drains(k) THEN Enter("drain") /\ UNCHANGED jobs
                    ELSE Enter("write") /\ Issue("write")
    /\ UNCHANGED <<backend, asked, air, noise>>

\* The request ends, with a result or an error; the error paths of the read
\* loop discard what is buffered first.
Finish == Enter("idle") /\ jobs' = Tail(jobs)

\* `drain` on Linux: reads and discards while there is something, at least
\* once, ...
DrainRead ==
    /\ phase = "drain"
    /\ rx' = <<>> /\ drained' = TRUE
    /\ UNCHANGED <<backend, phase, req, kind, spent, clock, jobs, stalled,
                   frame, asked, air, noise>>

\* ... and stops when the line is quiet or its budget is used up.  `execute`
\* goes on to write, `send` returns.
DrainEnd ==
    /\ phase = "drain" /\ drained
    /\ rx = <<>> \/ clock = DrainBudget
    /\ IF kind = "query" THEN Enter("write") /\ jobs' = Append(jobs, Op("write", req))
                         ELSE Enter("idle") /\ UNCHANGED jobs
    /\ UNCHANGED <<backend, req, kind, spent, stalled, drained, rx, frame,
                   asked, air, noise>>

Running(op) == jobs # <<>> /\ Head(jobs).op = op

\* The port has written the request.  On Windows this may be a request whose
\* caller is gone.
WriteDone ==
    /\ Running("write")
    /\ jobs' = Tail(jobs)
    /\ asked' = Append(asked, Head(jobs).req)
    /\ IF Head(jobs).mine
       THEN Enter("flush") /\ stalled' = (clock > 0)
       ELSE UNCHANGED <<phase, clock, stalled>>
    /\ UNCHANGED <<backend, req, kind, spent, drained, rx, frame, air, noise>>

\* WriteTimeout or an I/O error, with the request sent or not: `?` returns
\* without touching the input.
WriteFails ==
    /\ Running("write")
    /\ asked' \in {asked, Append(asked, Head(jobs).req)}
    /\ jobs' = Tail(jobs)
    /\ IF Head(jobs).mine THEN Enter("idle") ELSE UNCHANGED <<phase, clock>>
    /\ UNCHANGED <<backend, req, kind, spent, stalled, drained, rx, frame, air,
                   noise>>

\* `flush` is synchronous: tcdrain or FlushFileBuffers on the caller.  Then
\* `execute` sets the frame deadline and reads, `send` drains.
FlushDone ==
    /\ phase = "flush"
    /\ IF kind = "query"
       THEN Enter("read") /\ jobs' = Append(jobs, Op("read", req))
       ELSE (IF backend = "linux" THEN Enter("drain") ELSE Enter("idle")) /\ UNCHANGED jobs
    /\ UNCHANGED <<backend, req, kind, spent, stalled, drained, rx, frame,
                   asked, air, noise>>

FlushFails ==
    /\ phase = "flush"
    /\ Enter("idle")
    /\ UNCHANGED <<backend, req, kind, spent, jobs, stalled, drained, rx,
                   frame, asked, air, noise>>

\* What the read loop does with the byte it got: the frame is complete, or it
\* is too long, or the deadline has passed, or the next byte is read.
FrameDeadlinePassed == clock >= ReadTimeout

Take(b) ==
    /\ frame' = Append(frame, b)
    /\ IF b.end
       THEN Finish /\ rx' = Tail(rx)
       ELSE IF Len(frame) + 1 >= MaxFrameLen \/ FrameDeadlinePassed
       THEN Finish /\ rx' = <<>>
       ELSE /\ jobs' = Append(Tail(jobs), Op("read", req))
            /\ rx' = Tail(rx)
            /\ UNCHANGED <<phase, clock>>

\* A read returns one byte; the byte of an abandoned read is dropped.
ReadByte ==
    /\ Running("read") /\ rx # <<>>
    /\ IF Head(jobs).mine
       THEN Take(Head(rx))
       ELSE jobs' = Tail(jobs) /\ rx' = Tail(rx) /\ UNCHANGED <<frame, phase, clock>>
    /\ UNCHANGED <<backend, req, kind, spent, stalled, drained, asked, air, noise>>

\* A read fails, by its own timeout or an I/O error: what is buffered is
\* discarded with the error.
ReadFails ==
    /\ Running("read")
    /\ IF Head(jobs).mine
       THEN Finish /\ rx' = <<>>
       ELSE jobs' = Tail(jobs) /\ UNCHANGED <<rx, phase, clock>>
    /\ UNCHANGED <<backend, req, kind, spent, stalled, drained, frame, asked,
                   air, noise>>

\* A read of no bytes ends the frame with what it has.
ReadEof ==
    /\ backend = "linux" /\ Running("read") /\ rx = <<>>
    /\ Finish
    /\ UNCHANGED <<backend, req, kind, spent, stalled, drained, rx, frame,
                   asked, air, noise>>

-----------------------------------------------------------------------------
\* The caller's timeout drops the future where it awaits the port.  On Linux
\* the operation goes with it; the Windows worker carries it out.
Abandon == IF backend = "linux" THEN <<>>
           ELSE [i \in DOMAIN jobs |-> [jobs[i] EXCEPT !.mine = FALSE]]

Cancel ==
    /\ phase \in {"write", "read"} /\ spent = RequestTimeout
    /\ jobs' = Abandon
    /\ Enter("idle")
    /\ UNCHANGED <<backend, req, kind, spent, stalled, drained, rx, frame,
                   asked, air, noise>>

-----------------------------------------------------------------------------
(* The radio: looks at the requests in order, answers or does not (a query  *)
(* it cannot serve, a set, the `?;` it may or may not send), at any time.   *)

RadioAnswers ==
    /\ asked # <<>>
    /\ air' \in {air, air \o Answer(Head(asked))}
    /\ asked' = Tail(asked)
    /\ UNCHANGED <<backend, phase, req, kind, spent, clock, jobs, stalled,
                   drained, rx, frame, noise>>

\* Auto-information, or bytes an adapter kept: a frame without a terminator
\* if the line was cut.
RadioVolunteers ==
    /\ noise < MaxNoise
    /\ noise' = noise + 1
    /\ \E end \in BOOLEAN : air' = air \o <<Byte(0, FALSE), Byte(0, end)>>
    /\ UNCHANGED <<backend, phase, req, kind, spent, clock, jobs, stalled,
                   drained, rx, frame, asked>>

Receive ==
    /\ air # <<>>
    /\ rx' = Append(rx, Head(air)) /\ air' = Tail(air)
    /\ UNCHANGED <<backend, phase, req, kind, spent, clock, jobs, stalled,
                   drained, frame, asked, noise>>

-----------------------------------------------------------------------------
(* Time.  Nothing outlives its own limit: a drain its budget, a read its    *)
(* timeout, a write its deadline, an awaiting caller the request timeout.   *)

WriteTimeout == IF backend = "linux" THEN ReadTimeout ELSE 10
Limit(op)    == IF op = "read" THEN ReadTimeout ELSE WriteTimeout

Tick ==
    /\ phase # "idle" \/ jobs # <<>>
    /\ phase = "drain" => clock < DrainBudget
    /\ jobs # <<>> => Head(jobs).ticks < Limit(Head(jobs).op)
    /\ phase \in {"write", "read"} => spent < RequestTimeout
    /\ spent' = IF phase # "idle" /\ spent < RequestTimeout THEN spent + 1 ELSE spent
    /\ clock' = IF phase \in {"drain", "write", "read"} THEN clock + 1 ELSE clock
    /\ jobs' = IF jobs = <<>> THEN jobs ELSE [jobs EXCEPT ![1].ticks = @ + 1]
    /\ stalled' = (stalled \/ phase = "flush")
    /\ UNCHANGED <<backend, phase, req, kind, drained, rx, frame, asked, air,
                   noise>>

Next ==
    \/ \E k \in {"query", "set"} : Begin(k)
    \/ DrainRead \/ DrainEnd
    \/ WriteDone \/ WriteFails \/ FlushDone \/ FlushFails
    \/ ReadByte \/ ReadFails \/ ReadEof
    \/ Cancel \/ RadioAnswers \/ RadioVolunteers \/ Receive \/ Tick

Spec == Init /\ [][Next]_vars

-----------------------------------------------------------------------------
(* Properties. *)

\* On Linux nothing that was buffered before a request began is read as its
\* answer (session.rs, the drain at the start of execute).
NothingStaleIsRead ==
    backend = "linux" => \A i \in DOMAIN frame : ~frame[i].old

\* The comment of execute, for every port: "a frame that arrives late, or
\* unsolicited, is discarded before it can be mistaken for a reply", taken
\* of frames that had arrived when the request began.
LateFramesDiscarded ==
    \A i \in DOMAIN frame : ~frame[i].old

\* The session fails on its own before the caller cancels it: a request is
\* cancelled while it reads only if writing or flushing it took time
\* (session.rs, the whole-frame deadline).
FailureStaysInside ==
    phase = "read" /\ spent = RequestTimeout => stalled

=============================================================================
