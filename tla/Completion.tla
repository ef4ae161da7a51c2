----------------------------- MODULE Completion -----------------------------
(***************************************************************************)
(* The one-shot completion (cat-transport-core/src/completion.rs) between  *)
(* a worker thread and a caller that awaits its answer in block_on         *)
(* (cat-server/src/block_on.rs), with or without the timeout combinator    *)
(* (cat-transport-core/src/timeout.rs).                                    *)
(*                                                                         *)
(* A caller makes Requests requests, one after the other, each over a      *)
(* channel of its own; what is left of an earlier one (its sender in the   *)
(* middle of drop, its timer thread asleep) runs on and may still unpark   *)
(* the caller's thread.  An action is what runs under one mutex, or one    *)
(* park or unpark.                                                         *)
(***************************************************************************)
EXTENDS Naturals

CONSTANTS
    Requests,  \* bound: how many requests the caller makes
    WithTimeout \* the await is wrapped in timeout

ASSUME RequestsAssumption == Requests \in Nat \ {0}
ASSUME TimeoutAssumption == WithTimeout \in BOOLEAN

VARIABLES
    slot,    \* Completion::slot
    waker,   \* Completion::waker holds a waker
    tx,      \* where the sending half is
    sent,    \* send was called
    timer,   \* the timer thread of TimeoutFuture
    late,    \* the deadline has passed
    result,  \* what the await resolved to
    request, \* the request the caller is awaiting
    rx,      \* where the caller is
    token    \* the caller's thread has an unpark token

shared == <<slot, waker>>
sender == <<tx, sent>>
clock == <<timer, late>>
caller == <<result, request, rx>>
vars == <<shared, sender, clock, caller, token>>

Channel == 1..Requests

Init ==
    /\ slot = [c \in Channel |-> "Empty"] /\ waker = [c \in Channel |-> FALSE]
    /\ tx = [c \in Channel |-> "held"] /\ sent = [c \in Channel |-> FALSE]
    /\ timer = [c \in Channel |-> "unstarted"] /\ late = [c \in Channel |-> FALSE]
    /\ result = [c \in Channel |-> "none"] /\ request = 1
    /\ rx = "polling" /\ token = FALSE

-----------------------------------------------------------------------------
(* CompletionTx.  send consumes the sender, so its drop follows; drop on   *)
(* its own is a worker that ends without an answer.                        *)

Send(c) ==
    /\ c <= request /\ tx[c] = "held"
    /\ slot' = [slot EXCEPT ![c] = "Value"]
    /\ sent' = [sent EXCEPT ![c] = TRUE]
    /\ tx' = [tx EXCEPT ![c] = "waking"]
    /\ UNCHANGED <<waker, clock, caller, token>>

WakeIfRegistered(c) ==
    /\ waker' = [waker EXCEPT ![c] = FALSE]
    /\ token' = (token \/ waker[c])

SendWakes(c) ==
    /\ tx[c] = "waking"
    /\ WakeIfRegistered(c)
    /\ tx' = [tx EXCEPT ![c] = "dropping"]
    /\ UNCHANGED <<slot, sent, clock, caller>>

\* Mutant: drop cancels without looking at the slot.
DropAlways(c) ==
    /\ c <= request /\ tx[c] \in {"held", "dropping"}
    /\ slot' = [slot EXCEPT ![c] = "Canceled"]
    /\ tx' = [tx EXCEPT ![c] = "canceling"]
    /\ UNCHANGED <<waker, sent, clock, caller, token>>

Drop(c) ==
    /\ c <= request /\ tx[c] \in {"held", "dropping"}
    /\ \/ slot[c] = "Empty" /\ slot' = [slot EXCEPT ![c] = "Canceled"]
          /\ tx' = [tx EXCEPT ![c] = "canceling"]
       \/ slot[c] # "Empty" /\ slot' = slot /\ tx' = [tx EXCEPT ![c] = "dropped"]
    /\ UNCHANGED <<waker, sent, clock, caller, token>>

DropWakes(c) ==
    /\ tx[c] = "canceling"
    /\ WakeIfRegistered(c)
    /\ tx' = [tx EXCEPT ![c] = "dropped"]
    /\ UNCHANGED <<slot, sent, clock, caller>>

-----------------------------------------------------------------------------
(* The caller: block_on polls, TimeoutFuture::poll polls CompletionRx.     *)

Resolve(r) ==
    /\ result' = [result EXCEPT ![request] = r]
    /\ rx' = "resolved"
    /\ UNCHANGED request

\* The slot is emptied by the look at it, and unlocked before the waker is
\* registered.
Poll ==
    /\ rx = "polling"
    /\ slot' = [slot EXCEPT ![request] = "Empty"]
    /\ \/ slot[request] = "Empty" /\ rx' = "registering" /\ UNCHANGED <<result, request>>
       \/ slot[request] # "Empty" /\ Resolve(slot[request])
    /\ UNCHANGED <<waker, sender, clock, token>>

Register ==
    /\ rx = "registering"
    /\ waker' = [waker EXCEPT ![request] = TRUE]
    /\ rx' = IF WithTimeout THEN "pending" ELSE "parking"
    /\ UNCHANGED <<slot, sender, clock, result, request, token>>

\* The deadline, and the timer thread that is spawned on the first Pending.
CheckDeadline ==
    /\ rx = "pending"
    /\ \/ late[request] /\ Resolve("Elapsed") /\ UNCHANGED timer
       \/ /\ ~late[request] /\ rx' = "parking" /\ UNCHANGED <<result, request>>
          /\ timer' = [timer EXCEPT ![request] = IF @ = "unstarted" THEN "asleep" ELSE @]
    /\ UNCHANGED <<shared, sender, late, token>>

Park ==
    /\ rx = "parking" /\ token
    /\ token' = FALSE
    /\ rx' = "polling"
    /\ UNCHANGED <<shared, sender, clock, result, request>>

NextRequest ==
    /\ rx = "resolved" /\ request < Requests
    /\ request' = request + 1
    /\ rx' = "polling"
    /\ UNCHANGED <<shared, sender, clock, result, token>>

-----------------------------------------------------------------------------
(* Time.  The timer sleeps for what is left of the deadline or longer.     *)

DeadlinePasses(c) ==
    /\ WithTimeout /\ c <= request /\ ~late[c]
    /\ late' = [late EXCEPT ![c] = TRUE]
    /\ UNCHANGED <<shared, sender, timer, caller, token>>

TimerWakes(c) ==
    /\ timer[c] = "asleep" /\ late[c]
    /\ timer' = [timer EXCEPT ![c] = "done"]
    /\ token' = TRUE
    /\ UNCHANGED <<shared, sender, late, caller>>

Next ==
    \/ \E c \in Channel : Send(c) \/ SendWakes(c) \/ Drop(c) \/ DropWakes(c)
    \/ Poll \/ Register \/ CheckDeadline \/ Park \/ NextRequest
    \/ \E c \in Channel : DeadlinePasses(c) \/ TimerWakes(c)

Spec == Init /\ [][Next]_vars

\* Threads run and clocks advance; a worker need never answer.
Fairness ==
    /\ WF_vars(Poll) /\ WF_vars(Register) /\ WF_vars(CheckDeadline) /\ WF_vars(Park)
    /\ \A c \in Channel :
          /\ WF_vars(SendWakes(c)) /\ WF_vars(tx[c] = "dropping" /\ Drop(c)) /\ WF_vars(DropWakes(c))
          /\ WF_vars(DeadlinePasses(c)) /\ WF_vars(TimerWakes(c))

FairSpec == Spec /\ Fairness

-----------------------------------------------------------------------------
(* Properties.                                                             *)

\* Type correctness of the channel, its two halves and the clock.
TypeOK ==
    /\ slot \in [Channel -> {"Empty", "Value", "Canceled"}] /\ waker \in [Channel -> BOOLEAN]
    /\ tx \in [Channel -> {"held", "waking", "dropping", "canceling", "dropped"}]
    /\ sent \in [Channel -> BOOLEAN]
    /\ timer \in [Channel -> {"unstarted", "asleep", "done"}] /\ late \in [Channel -> BOOLEAN]
    /\ result \in [Channel -> {"none", "Value", "Canceled", "Elapsed"}]
    /\ request \in Channel
    /\ rx \in {"polling", "registering", "pending", "parking", "resolved"}
    /\ token \in BOOLEAN

\* The drop that ends send must not turn the answer into a cancellation, wherever
\* the caller is between its look at the slot and its park: an await is told
\* Canceled only by a sender that never sent, and a value only by one that did.
ResultIsTheSenders ==
    \A c \in Channel :
        /\ result[c] = "Value" => sent[c]
        /\ result[c] = "Canceled" => ~sent[c]

\* A wake-up for an earlier request, or a timer that fires early in the caller's
\* eyes, never ends a later one: an await has resolved only if its own sender
\* has spoken or its own deadline has passed, and only the ones asked for.
NotResolvedByOthers ==
    \A c \in Channel :
        /\ result[c] \in {"Value", "Canceled"} => tx[c] # "held"
        /\ result[c] = "Elapsed" => late[c]
        /\ result[c] # "none" <=> c < request \/ (c = request /\ rx = "resolved")

\* timeout: "resolving to Err(Elapsed) if it has not completed by duration": the
\* caller comes back from every request, whatever the worker does.
AlwaysResolves == \A c \in Channel : (c = request) ~> (result[c] # "none")

\* CompletionTx: "if dropped without ever calling send, the paired CompletionRx
\* resolves to Err(Canceled) instead of hanging forever".
AnsweredResolves ==
    \A c \in Channel : (c = request /\ tx[c] = "dropped") ~> (result[c] # "none")
=============================================================================
