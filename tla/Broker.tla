------------------------------- MODULE Broker -------------------------------
(***************************************************************************)
(* The broker of cat-server: many client tasks or threads share one radio  *)
(* session through a queue served by one ordered worker.  Three things     *)
(* bypass or bend that order, and they are what this module is about:      *)
(*                                                                         *)
(*   - a de-key runs at once, on the caller, against an owned duplicate of *)
(*     the modem lines (the release lines), under a lock the worker's end  *)
(*     also takes;                                                         *)
(*   - a gated handle asks its gate when a frame is submitted, not when    *)
(*     the worker sends it;                                                *)
(*   - a caller may give up on a call, or hang up, while its job is queued *)
(*     or running, and the job runs all the same.                          *)
(*                                                                         *)
(* Sources: cat-server/src/broker.rs, local_channel.rs, release.rs,        *)
(* worker_windows.rs, broker_session.rs, registry.rs.                      *)
(***************************************************************************)
EXTENDS Naturals, Sequences, FiniteSets

CONSTANTS
    Listeners,   \* tasks serving raw CAT clients, each with a gated handle
    Operators,   \* tasks that key and de-key, each with an ungated handle
    Backends,    \* the builds looked at, a subset of {"linux", "windows"}
    MaxCalls,    \* calls one client makes
    MaxArms      \* times the transmit arm is taken

Clients == Listeners \cup Operators

VARIABLES
    backend,   \* which build this is
    queue,     \* the jobs the worker has not taken, oldest first
    worker,    \* what the worker does and the job it does it for
    lines,     \* the release lines: "open", "none" (never offered), "closed"
    lock,      \* the client that runs a release under the lines' lock, or Free
    line,      \* whether the PTT line is asserted
    armed,     \* whether a console holds the transmit arm: what the gate reads
    arms,      \* how many times it was taken
    handles,   \* the clients whose handle is alive
    calls,     \* how many calls each client has made
    wait,      \* what each client awaits
    slot,      \* the reply slot of the call each client awaits
    told       \* the calls that have returned to each client, with a result or None

vars == <<backend, queue, worker, lines, lock, line, armed, arms, handles,
          calls, wait, slot, told>>

Free == "nobody"

\* A job: whose it is, which call of theirs, the work it asks for, and how
\* often the arm had been taken when it was queued.
Work == {"wire", "assert", "release"}
Job  == [client : Clients, call : 1..MaxCalls, work : Work, arm : 0..MaxArms]
NoJob == [client |-> Free, call |-> 0, work |-> "none", arm |-> 0]

TypeOK ==
    /\ backend \in Backends
    /\ queue \in Seq(Job)
    /\ worker \in [at : {"recv", "dispatch", "task", "reply", "ending", "gone"},
                   job : Job \cup {NoJob}]
    /\ lines \in {"open", "none", "closed"}
    /\ lock \in Clients \cup {Free}
    /\ line \in BOOLEAN /\ armed \in BOOLEAN /\ arms \in 0..MaxArms
    /\ handles \subseteq Clients
    /\ calls \in [Clients -> 0..MaxCalls]
    /\ wait \in [Clients -> {"idle", "release", "reply"}]
    /\ slot \in [Clients -> {"empty", "value", "dropped"}]
    /\ told \in [Clients -> SUBSET (1..MaxCalls)]

Idle == [at |-> "recv", job |-> NoJob]

\* `build_with_timeout` takes the session's release lines, if it offers any,
\* before the session moves into the worker.
Init ==
    /\ backend \in Backends
    /\ queue = <<>>
    /\ worker = Idle
    /\ lines \in {"open", "none"}
    /\ lock = Free
    /\ line = FALSE
    /\ armed = FALSE /\ arms = 0
    /\ handles = Clients
    /\ calls = [c \in Clients |-> 0]
    /\ wait = [c \in Clients |-> "idle"]
    /\ slot = [c \in Clients |-> "empty"]
    /\ told = [c \in Clients |-> {}]

-----------------------------------------------------------------------------
(* The calls of a handle. *)

MayCall(c) == c \in handles /\ wait[c] = "idle" /\ calls[c] < MaxCalls

\* The call a client makes now returns to it.
Return(c, n) == told' = [told EXCEPT ![c] = @ \cup {n}]

\* `Sender::send`: a job for a worker that is gone is refused, and the call
\* returns None at once; otherwise it joins the queue and the caller awaits
\* its own reply slot.
ReceiverDropped == worker.at \in {"ending", "gone"}

Enqueue(c, work) ==
    /\ calls' = [calls EXCEPT ![c] = @ + 1]
    /\ IF ReceiverDropped
       THEN /\ Return(c, calls[c] + 1)
            /\ UNCHANGED <<queue, wait, slot>>
       ELSE /\ queue' = Append(queue, [client |-> c, call |-> calls[c] + 1,
                                       work |-> work, arm |-> arms])
            /\ wait' = [wait EXCEPT ![c] = "reply"]
            /\ UNCHANGED <<slot, told>>

\* `submit` on a gated handle: while the gate refuses, the answer is ERR and
\* nothing is queued.
Submit(c) ==
    /\ MayCall(c)
    /\ IF armed
       THEN /\ calls' = [calls EXCEPT ![c] = @ + 1]
            /\ Return(c, calls[c] + 1)
            /\ UNCHANGED <<queue, wait, slot>>
       ELSE Enqueue(c, "wire")
    /\ UNCHANGED <<backend, worker, lines, lock, line, armed, arms, handles>>

\* `submit_task`: keying is ordered with the CAT exchanges.
SubmitTask(c) ==
    /\ MayCall(c)
    /\ Enqueue(c, "assert")
    /\ UNCHANGED <<backend, worker, lines, lock, line, armed, arms, handles>>

\* `release_now_bypassing_queue` with release lines: `try_now` takes the lock
\* and keeps it while the task runs.
TryNow(c) ==
    /\ MayCall(c)
    /\ lines = "open" /\ lock = Free
    /\ lock' = c
    /\ calls' = [calls EXCEPT ![c] = @ + 1]
    /\ wait' = [wait EXCEPT ![c] = "release"]
    /\ UNCHANGED <<backend, queue, worker, lines, line, armed, arms, handles,
                   slot, told>>

\* The task drives the line, or its ioctl fails; either way the lock goes.
RunRelease(c) ==
    /\ wait[c] = "release"
    /\ lock' = Free
    /\ wait' = [wait EXCEPT ![c] = "idle"]
    /\ Return(c, calls[c])
    /\ line' \in {FALSE, line}
    /\ UNCHANGED <<backend, queue, worker, lines, armed, arms, handles, calls,
                   slot>>

\* Without release lines the release is one more job of the queue.
FallBack(c) ==
    /\ MayCall(c)
    /\ lines # "open"
    /\ Enqueue(c, "release")
    /\ UNCHANGED <<backend, worker, lines, lock, line, armed, arms, handles>>

\* The reply slot resolves: a value, or the sender dropped without one.
TakeReply(c) ==
    /\ wait[c] = "reply" /\ slot[c] # "empty"
    /\ wait' = [wait EXCEPT ![c] = "idle"]
    /\ slot' = [slot EXCEPT ![c] = "empty"]
    /\ Return(c, calls[c])
    /\ UNCHANGED <<backend, queue, worker, lines, lock, line, armed, arms,
                   handles, calls>>

\* The caller drops the future it awaits: its own timeout, or a cancelled
\* task.  The job stays where it is.
GiveUp(c) ==
    /\ wait[c] = "reply"
    /\ wait' = [wait EXCEPT ![c] = "idle"]
    /\ slot' = [slot EXCEPT ![c] = "empty"]
    /\ UNCHANGED <<backend, queue, worker, lines, lock, line, armed, arms,
                   handles, calls, told>>

\* The client disconnects: its handle goes, and with it the future it awaits.
\* A release in progress runs to its end first, it is synchronous.
HangUp(c) ==
    /\ c \in handles /\ wait[c] # "release"
    /\ handles' = handles \ {c}
    /\ wait' = [wait EXCEPT ![c] = "idle"]
    /\ slot' = [slot EXCEPT ![c] = "empty"]
    /\ UNCHANGED <<backend, queue, worker, lines, lock, line, armed, arms,
                   calls, told>>

-----------------------------------------------------------------------------
(* The worker. *)

\* `Receiver::recv`: the oldest job.
Recv ==
    /\ worker.at = "recv" /\ queue # <<>>
    /\ worker' = [at |-> IF Head(queue).work = "wire" THEN "dispatch" ELSE "task",
                  job |-> Head(queue)]
    /\ queue' = Tail(queue)
    /\ UNCHANGED <<backend, lines, lock, line, armed, arms, handles, calls,
                   wait, slot, told>>

\* `dispatch` and `outcome_to_wire`: whatever becomes of the request (parse
\* error, response, none, session error, request timeout), bytes come back.
Dispatch ==
    /\ worker.at = "dispatch"
    /\ worker' = [worker EXCEPT !.at = "reply"]
    /\ UNCHANGED <<backend, queue, lines, lock, line, armed, arms, handles,
                   calls, wait, slot, told>>

\* Whether the caller of a job still awaits it.
Awaited(j) == wait[j.client] = "reply" /\ calls[j.client] = j.call

\* `run_task`: the closure drives the session's own lines, or fails.
RunTask ==
    /\ worker.at = "task"
    /\ line' \in {worker.job.work = "assert", line}
    /\ worker' = [worker EXCEPT !.at = "reply"]
    /\ UNCHANGED <<backend, queue, lines, lock, armed, arms, handles, calls,
                   wait, slot, told>>

\* `job.reply.send`: a requester that is gone is not an error.
Reply ==
    /\ worker.at = "reply"
    /\ slot' = IF Awaited(worker.job)
               THEN [slot EXCEPT ![worker.job.client] = "value"]
               ELSE slot
    /\ worker' = Idle
    /\ UNCHANGED <<backend, queue, lines, lock, line, armed, arms, handles,
                   calls, wait, told>>

\* `recv` returns None once every handle is gone and the queue is empty, and
\* `run` returns: the worker is dropped.
Finish ==
    /\ worker.at = "recv" /\ queue = <<>> /\ handles = {}
    /\ worker' = [Idle EXCEPT !.at = "ending"]
    /\ UNCHANGED <<backend, queue, lines, lock, line, armed, arms, handles,
                   calls, wait, slot, told>>

\* A task that panics unwinds the Windows worker thread: the running job's
\* reply is dropped, then the receiver and with it every queued job.  (Under
\* Linux the same panic ends the executor's thread and everything on it.)
DroppedJobs == {queue[i] : i \in DOMAIN queue} \cup {worker.job}

Panic ==
    /\ backend = "windows" /\ worker.at = "task"
    /\ slot' = [c \in Clients |->
                  IF \E j \in DroppedJobs : j.client = c /\ Awaited(j)
                  THEN "dropped" ELSE slot[c]]
    /\ queue' = <<>>
    /\ worker' = [Idle EXCEPT !.at = "ending"]
    /\ UNCHANGED <<backend, lines, lock, line, armed, arms, handles, calls,
                   wait, told>>

\* A mutant of CloseLines: the duplicate is closed without the lock.
CloseLinesUnlocked ==
    /\ worker.at = "ending"
    /\ lines' = IF lines = "open" THEN "closed" ELSE lines
    /\ worker' = [worker EXCEPT !.at = "gone"]
    /\ UNCHANGED <<backend, queue, lock, line, armed, arms, handles, calls,
                   wait, slot, told>>

\* `ReleaseLinesCloser::drop`, the worker's last field: takes the lock, so it
\* waits for a release in progress, and closes the duplicate.
CloseLines ==
    /\ worker.at = "ending" /\ lock = Free
    /\ lines' = IF lines = "open" THEN "closed" ELSE lines
    /\ worker' = [worker EXCEPT !.at = "gone"]
    /\ UNCHANGED <<backend, queue, lock, line, armed, arms, handles, calls,
                   wait, slot, told>>

-----------------------------------------------------------------------------
\* A console takes and gives back the CW transmit arm.
TakeArm ==
    /\ ~armed /\ arms < MaxArms
    /\ armed' = TRUE /\ arms' = arms + 1
    /\ UNCHANGED <<backend, queue, worker, lines, lock, line, handles, calls,
                   wait, slot, told>>

GiveArm ==
    /\ armed /\ armed' = FALSE
    /\ UNCHANGED <<backend, queue, worker, lines, lock, line, arms, handles,
                   calls, wait, slot, told>>

Next ==
    \/ \E c \in Listeners : Submit(c)
    \/ \E c \in Operators : SubmitTask(c) \/ TryNow(c) \/ RunRelease(c) \/ FallBack(c)
    \/ \E c \in Clients : TakeReply(c) \/ GiveUp(c) \/ HangUp(c)
    \/ Recv \/ Dispatch \/ RunTask \/ Reply \/ Finish \/ Panic \/ CloseLines
    \/ TakeArm \/ GiveArm

\* The executor polls every task that is ready: the worker goes on (its
\* exchanges are bounded by the request timeout), a resolved reply is taken
\* and a synchronous release ends.
Fairness ==
    /\ WF_vars(Recv) /\ WF_vars(Dispatch) /\ WF_vars(RunTask) /\ WF_vars(Reply)
    /\ WF_vars(CloseLines)
    /\ \A c \in Clients : WF_vars(TakeReply(c)) /\ WF_vars(RunRelease(c))

Spec == Init /\ [][Next]_vars /\ Fairness

-----------------------------------------------------------------------------
(* Properties. *)

\* Keying is never late: when the line goes up, the caller that asked for it
\* has not been answered yet.  So a caller that awaits its answer before it
\* releases cannot have the release, which overtakes the queue, undone by the
\* very assert it released (broker.rs, submit_task and
\* release_now_bypassing_queue); only an assert its caller gave up on can key
\* afterwards.
KeyedBeforeTold ==
    ~line /\ line' => worker.job.call \notin told[worker.job.client]

\* The gate: while the arm is held, the only frames of a gated handle that
\* reach the session are those queued before it was taken (broker.rs, submit
\* asks the gate when the frame is submitted).
FallsSilent ==
    armed /\ worker.at = "dispatch" => worker.job.arm < arms

\* Closing the release lines never overlaps a release: whoever runs one holds
\* lines that are open (release.rs, the lock the closer also takes).
NoReleaseAfterClose ==
    /\ \A c \in Clients : wait[c] = "release" => lock = c
    /\ lock # Free => lines = "open"

\* Every call that awaits a reply gets one, or None when the worker is gone:
\* nobody waits for a job that no worker will run (broker.rs, submit).
EveryCallReturns ==
    \A c \in Clients : wait[c] = "reply" ~> wait[c] # "reply"
=============================================================================
