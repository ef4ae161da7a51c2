------------------------------ MODULE CwServer ------------------------------
(***************************************************************************)
(* What surrounds the CW supervisor in a server: console threads that ask  *)
(* for an arm and wait for the answer, the pump that runs the supervisor's *)
(* steps and routes its answers, the PTT gate of a rigctl client, keyer    *)
(* speed commands, a poisoned lock, and the end of the server.             *)
(*                                                                         *)
(* The supervisor itself (module CwSupervisor) is reduced to its           *)
(* activities and to one exchange for each thing it does to the radio:     *)
(* read the status, clamp, send, wait until the text is out, stop,         *)
(* restore.  All exchanges, and the rigctl client's PTT, pass the broker's *)
(* queue in order.  On Linux the rigctl task and the end of the server     *)
(* share the pump's thread; on Windows each has its own, and its steps     *)
(* come apart.                                                             *)
(*                                                                         *)
(* Sources: cat-rigctl/src/native_bridge.rs, ptt_gate.rs, lib.rs.          *)
(***************************************************************************)
EXTENDS Naturals, Sequences

CONSTANTS
    Backends,     \* the builds looked at, a subset of {"linux", "windows"}
    Consoles, NoOne,
    MaxTickets    \* arms and disarms asked for

VARIABLES
    backend,
    con,        \* each console's thread: "idle", "waiting", "late", "gone"
    told,       \* the last answer it had: "none", "ok", "err", "timeout"
    asked,      \* what that was about: "arm" or "disarm"
    tickets,    \* the tickets given out: [owner, arm, open], open while someone listens
    waiters,    \* cw_waiters: the tickets still registered
    box,        \* the tickets' reply channels
    arm, act, owner, ticket, thenRestore, plan, outstanding, shutting,
    snap,       \* the clamp has been issued and not been undone
    notices,    \* the supervisor's replies, not taken yet
    poisoned, abortReq, stopped, stopOwed,
    speed,      \* a SetKeyerSpeed: "none", "queued", "write"
    pump,       \* where the pump is
    routing,    \* the notices it routes
    queue,      \* the broker's queue: "pump" and "ptt"
    rig,        \* the rigctl client: "idle", "checked", "sent"
    clamped, keying, ext,   \* the radio
    server, unsettled

supVars == <<arm, act, owner, ticket, thenRestore, plan, outstanding, shutting, snap, notices>>
conVars == <<con, told, asked, tickets, waiters, box>>
poisonVars == <<poisoned, abortReq, stopped, stopOwed>>
pumpVars == <<speed, pump, routing>>
radioVars == <<queue, rig, clamped, keying, ext>>
vars == <<backend, conVars, supVars, poisonVars, pumpVars, radioVars, server, unsettled>>

None == "none"

Init ==
    /\ backend \in Backends
    /\ con = [c \in Consoles |-> "idle"] /\ told = [c \in Consoles |-> None]
    /\ asked = [c \in Consoles |-> None]
    /\ tickets = <<>> /\ waiters = {} /\ box = <<>>
    /\ arm = NoOne /\ act = "Idle" /\ owner = NoOne /\ ticket = 0 /\ thenRestore = FALSE
    /\ plan = <<>> /\ outstanding = None /\ shutting = FALSE /\ snap = FALSE
    /\ notices = <<>>
    /\ poisoned = FALSE /\ abortReq = FALSE /\ stopped = FALSE /\ stopOwed = FALSE
    /\ speed = None /\ pump = "top" /\ routing = <<>>
    /\ queue = <<>> /\ rig = "idle"
    /\ clamped = FALSE /\ keying = FALSE /\ ext = FALSE
    /\ server = "run" /\ unsettled = FALSE

-----------------------------------------------------------------------------
(* The supervisor's requests and queries, reduced. *)

\* A mutant of BlocksExternalPtt: an arm still under way does not count.
BlocksOnceArmed == poisoned \/ arm # NoOne

\* `cw_query`: fails closed on a poisoned lock.
BlocksExternalPtt == poisoned \/ arm # NoOne \/ act # "Idle"
IsLive == poisoned \/ act # "Idle" \/ plan # <<>> \/ outstanding # None
IsSettled == ~poisoned /\ arm = NoOne /\ act = "Idle" /\ plan = <<>> /\ outstanding = None

StartRestore(t) ==
    /\ arm' = NoOne /\ act' = "Restoring" /\ ticket' = t /\ plan' = <<"restore">>
    /\ UNCHANGED <<owner, thenRestore>>

BeginStop(restore, t) ==
    /\ act' = "Stopping" /\ thenRestore' = restore /\ ticket' = t /\ plan' = <<"stop">>
    /\ UNCHANGED <<arm, owner>>

EndArm(t) ==
    \/ act = "Sending" /\ BeginStop(TRUE, t)
    \/ /\ act = "Stopping" /\ thenRestore' = TRUE
       /\ ticket' = IF thenRestore /\ ticket # 0 THEN ticket ELSE t
       /\ UNCHANGED <<arm, act, owner, plan>>
    \/ act = "Idle" /\ StartRestore(t)

\* A refused arm that changed nothing leaves nothing to restore.
RefuseArm ==
    /\ notices' = Append(notices, [ticket |-> ticket, ok |-> FALSE])
    /\ IF snap
       THEN StartRestore(0)
       ELSE /\ act' = "Idle" /\ plan' = <<>>
            /\ UNCHANGED <<arm, owner, ticket, thenRestore>>

SupDisarm(c, t) == arm = c /\ EndArm(t) /\ UNCHANGED <<outstanding, shutting, snap, notices>>

-----------------------------------------------------------------------------
(* The console threads. *)

\* `cw_wait`: the request and its waiter, registered under one lock.
Ask(c, isArm) ==
    /\ con[c] = "idle" /\ ~poisoned /\ Len(tickets) < MaxTickets /\ server # "gone"
    /\ LET t == Len(tickets) + 1
       IN /\ IF isArm
             THEN /\ ~shutting /\ act = "Idle" /\ arm = NoOne
                  /\ act' = "Arming" /\ owner' = c /\ ticket' = t
                  /\ plan' = <<"status", "clamp">>
                  /\ snap' = FALSE /\ UNCHANGED <<arm, thenRestore, outstanding, shutting, notices>>
             ELSE /\ ~(act = "Stopping" /\ thenRestore /\ ticket # 0)
                  /\ SupDisarm(c, t)
          /\ tickets' = Append(tickets, [owner |-> c, arm |-> isArm, open |-> TRUE])
          /\ waiters' = waiters \cup {t} /\ box' = Append(box, None)
    /\ con' = [con EXCEPT ![c] = "waiting"] /\ told' = [told EXCEPT ![c] = None]
    /\ asked' = [asked EXCEPT ![c] = IF isArm THEN "arm" ELSE "disarm"]
    /\ UNCHANGED <<backend, poisonVars, pumpVars, radioVars, server, unsettled>>

\* The ticket a waiting console waits for: its latest.
TicketOf(c) == CHOOSE t \in DOMAIN tickets :
                  /\ tickets[t].owner = c
                  /\ \A u \in DOMAIN tickets : tickets[u].owner = c => u <= t

\* `recv_timeout` has the answer ...
TakeAnswer(c) ==
    /\ con[c] = "waiting" /\ box[TicketOf(c)] # None
    /\ told' = [told EXCEPT ![c] = box[TicketOf(c)]]
    /\ con' = [con EXCEPT ![c] = "idle"]
    /\ tickets' = [tickets EXCEPT ![TicketOf(c)].open = FALSE]
    /\ UNCHANGED <<backend, asked, waiters, box, supVars, poisonVars, pumpVars, radioVars,
                   server, unsettled>>

\* ... or gives up, ...
Expire(c) ==
    /\ con[c] = "waiting" /\ box[TicketOf(c)] = None
    /\ con' = [con EXCEPT ![c] = "late"] /\ told' = [told EXCEPT ![c] = "timeout"]
    /\ UNCHANGED <<backend, asked, tickets, waiters, box, supVars, poisonVars, pumpVars,
                   radioVars, server, unsettled>>

\* ... and only then is the receiver dropped.
DropReceiver(c) ==
    /\ con[c] = "late"
    /\ con' = [con EXCEPT ![c] = "idle"]
    /\ tickets' = [tickets EXCEPT ![TicketOf(c)].open = FALSE]
    /\ UNCHANGED <<backend, told, asked, waiters, box, supVars, poisonVars, pumpVars,
                   radioVars, server, unsettled>>

SendText(c) ==
    /\ con[c] = "idle" /\ ~poisoned /\ arm = c /\ act = "Idle"
    /\ act' = "Sending" /\ plan' = <<"status", "chunk", "drain">>
    /\ UNCHANGED <<arm, owner, ticket, thenRestore, outstanding, shutting, snap, notices>>
    /\ UNCHANGED <<backend, conVars, poisonVars, pumpVars, radioVars, server, unsettled>>

\* AbortCw: flagged for the pump, and tried through a poisoned lock.
AbortCw(c) ==
    /\ con[c] = "idle"
    /\ abortReq' = TRUE /\ stopOwed' = poisoned
    /\ IF act = "Sending"
       THEN BeginStop(FALSE, 0) /\ UNCHANGED <<outstanding, shutting, snap, notices>>
       ELSE UNCHANGED supVars
    /\ UNCHANGED <<backend, conVars, poisoned, stopped, pumpVars, radioVars, server, unsettled>>

\* SetKeyerSpeed: refused while CW is live, else queued.
SetSpeed(c) ==
    /\ con[c] = "idle" /\ speed = None /\ ~BlocksExternalPtt
    /\ speed' = "queued"
    /\ UNCHANGED <<backend, conVars, supVars, poisonVars, pump, routing, radioVars, server, unsettled>>

\* console_detached_as.
Detach(c) ==
    /\ con[c] = "idle"
    /\ con' = [con EXCEPT ![c] = "gone"]
    /\ IF poisoned THEN UNCHANGED supVars
       ELSE \/ act = "Arming" /\ owner = c /\ RefuseArm /\ UNCHANGED <<outstanding, shutting, snap>>
            \/ act # "Arming" /\ SupDisarm(c, 0)
            \/ ~(act = "Arming" /\ owner = c) /\ ~(act # "Arming" /\ arm = c)
               /\ UNCHANGED supVars
    /\ UNCHANGED <<backend, told, asked, tickets, waiters, box, poisonVars, pumpVars,
                   radioVars, server, unsettled>>

\* A console's thread panics while it holds the lock.
Panic(c) ==
    /\ con[c] = "idle" /\ ~poisoned
    /\ con' = [con EXCEPT ![c] = "gone"] /\ poisoned' = TRUE
    /\ UNCHANGED <<backend, told, asked, tickets, waiters, box, supVars, abortReq, stopped,
                   stopOwed, pumpVars, radioVars, server, unsettled>>

-----------------------------------------------------------------------------
(* The pump. *)

\* On Linux the pump ends with the runtime its server ran on.
PumpRuns == server # "gone" /\ ~(backend = "linux" /\ server = "returned")

\* pump_once begins: stop after poison, or clear the abort flag.  The look at
\* the lock and what follows are two steps of the pump.
Top ==
    /\ PumpRuns /\ pump = "top"
    /\ pump' = IF poisoned THEN "poison" ELSE "clear"
    /\ UNCHANGED <<backend, conVars, supVars, poisonVars, speed, routing, radioVars, server, unsettled>>

ClearAbort ==
    /\ PumpRuns /\ pump = "clear"
    /\ abortReq' = FALSE /\ pump' = "drive"
    /\ UNCHANGED <<backend, conVars, supVars, poisoned, stopped, stopOwed, speed, routing,
                   radioVars, server, unsettled>>

\* stop_after_poison: once on noticing, and again for every abort.
StopAfterPoison ==
    /\ PumpRuns /\ pump = "poison"
    /\ abortReq' = FALSE
    /\ IF stopped /\ ~abortReq THEN pump' = "drive" /\ UNCHANGED <<stopped, stopOwed, queue>>
       ELSE /\ stopped' = TRUE /\ stopOwed' = FALSE
            /\ queue' = Append(queue, "stop") /\ pump' = "poisonStop"
    /\ UNCHANGED <<backend, conVars, supVars, poisoned, speed, routing, rig, clamped, keying,
                   ext, server, unsettled>>

\* drive_cw: the next step goes to the radio, ...
NextAction ==
    /\ PumpRuns /\ pump = "drive"
    /\ IF poisoned \/ plan = <<>>
       THEN pump' = "routeEnd" /\ UNCHANGED <<plan, outstanding, snap>>
       ELSE /\ pump' = "routeGo" /\ outstanding' = Head(plan) /\ plan' = Tail(plan)
            /\ snap' = (snap \/ Head(plan) = "clamp")
    /\ routing' = IF poisoned THEN <<>> ELSE notices
    /\ notices' = IF poisoned THEN notices ELSE <<>>
    /\ UNCHANGED <<backend, conVars, arm, act, owner, ticket, thenRestore, shutting,
                   poisonVars, speed, radioVars, server, unsettled>>

\* ... route_cw_notices answers who still listens, and releases an arm nobody
\* listens for, ...
Route ==
    /\ PumpRuns /\ pump \in {"routeGo", "routeEnd", "routeDone"} /\ routing # <<>>
    /\ LET n == Head(routing)
           t == n.ticket
       IN /\ waiters' = waiters \ {t}
          /\ box' = IF t \in waiters /\ tickets[t].open
                    THEN [box EXCEPT ![t] = IF n.ok THEN "ok" ELSE "err"] ELSE box
          /\ IF t \in waiters /\ ~tickets[t].open /\ tickets[t].arm /\ n.ok /\ ~poisoned
                /\ arm = tickets[t].owner
             THEN SupDisarm(tickets[t].owner, 0)
             ELSE UNCHANGED supVars
    /\ routing' = Tail(routing)
    /\ UNCHANGED <<backend, con, told, asked, tickets, poisonVars, speed, pump, radioVars,
                   server, unsettled>>

Routed ==
    /\ PumpRuns /\ routing = <<>>
    /\ \/ pump = "routeGo" /\ pump' = "wire" /\ queue' = Append(queue, outstanding)
       \/ pump = "routeDone" /\ pump' = "drive" /\ UNCHANGED queue
       \/ pump = "routeEnd" /\ pump' = "commands" /\ UNCHANGED queue
    /\ UNCHANGED <<backend, conVars, supVars, poisonVars, speed, routing, rig, clamped, keying,
                   ext, server, unsettled>>

\* ... the broker runs what is first in its queue.  An exchange may fail, and a
\* failed write may still land.
Exchange ==
    /\ queue # <<>> /\ queue' = Tail(queue)
    /\ \/ /\ Head(queue) = "ptt"
          /\ ext' = TRUE /\ rig' = "idle"
          /\ UNCHANGED <<clamped, keying, pump, speed>>
       \/ /\ Head(queue) = "speed"
          /\ speed' = None /\ pump' = "drive"
          /\ UNCHANGED <<clamped, keying, ext, rig>>
       \/ /\ Head(queue) \in {"status", "clamp", "chunk", "drain", "stop", "restore"}
          /\ clamped' \in CASE Head(queue) = "clamp" -> {TRUE}
                            [] Head(queue) = "restore" -> {FALSE, TRUE}
                            [] OTHER -> {clamped}
          /\ keying' \in CASE Head(queue) = "chunk" -> {TRUE, keying}
                           [] Head(queue) = "drain" -> {FALSE}
                           [] Head(queue) = "stop" -> {FALSE, keying}
                           [] OTHER -> {keying}
          /\ pump' = IF pump = "poisonStop" THEN "drive" ELSE "complete"
          /\ UNCHANGED <<ext, rig, speed>>
    /\ UNCHANGED <<backend, conVars, supVars, poisonVars, routing, server, unsettled>>

Reply(ok) == notices' = IF ticket = 0 THEN notices
                        ELSE Append(notices, [ticket |-> ticket, ok |-> ok])

\* complete: what the supervisor makes of the answer.  A step whose activity
\* has been overtaken by a request is only noted.
Complete ==
    /\ PumpRuns /\ pump = "complete"
    /\ pump' = "routeDone0" /\ outstanding' = None
    /\ snap' = (snap /\ ~(~poisoned /\ act = "Restoring" /\ outstanding = "restore" /\ ~clamped))
    /\ IF poisoned THEN UNCHANGED <<arm, act, owner, ticket, thenRestore, plan, notices>>
       ELSE \/ /\ act = "Arming" /\ outstanding = "status" /\ ~ext
               /\ UNCHANGED <<arm, act, owner, ticket, thenRestore, plan, notices>>
            \/ act = "Arming" /\ RefuseArm
            \/ /\ act = "Arming" /\ outstanding = "clamp"
               /\ arm' = owner /\ act' = "Idle" /\ Reply(TRUE)
               /\ UNCHANGED <<owner, ticket, thenRestore, plan>>
            \/ /\ act = "Sending" /\ (outstanding = "chunk" \/ (outstanding = "status" /\ ~ext))
               /\ UNCHANGED <<arm, act, owner, ticket, thenRestore, plan, notices>>
            \/ act = "Sending" /\ BeginStop(FALSE, 0) /\ UNCHANGED notices
            \/ /\ act = "Sending" /\ outstanding = "drain" /\ act' = "Idle"
               /\ UNCHANGED <<arm, owner, ticket, thenRestore, plan, notices>>
            \/ /\ act = "Stopping" /\ outstanding = "stop"
               /\ IF keying THEN plan' = <<"stop">> /\ UNCHANGED <<arm, act, owner, ticket, thenRestore>>
                  ELSE IF thenRestore THEN StartRestore(ticket)
                  ELSE act' = "Idle" /\ UNCHANGED <<arm, owner, ticket, thenRestore, plan>>
               /\ UNCHANGED notices
            \/ /\ act = "Restoring" /\ outstanding = "restore"
               /\ Reply(~clamped) /\ ticket' = 0
               /\ IF clamped THEN plan' = <<"restore">> /\ UNCHANGED act
                  ELSE act' = "Idle" /\ UNCHANGED plan
               /\ UNCHANGED <<arm, owner, thenRestore>>
            \/ /\ \/ act \in {"Idle"}
                  \/ act = "Stopping" /\ outstanding # "stop"
                  \/ act = "Restoring" /\ outstanding # "restore"
               /\ UNCHANGED <<arm, act, owner, ticket, thenRestore, plan, notices>>
    /\ UNCHANGED <<backend, conVars, shutting, poisonVars, speed, routing, radioVars, server, unsettled>>

TakeNotices ==
    /\ PumpRuns /\ pump = "routeDone0"
    /\ pump' = "routeDone"
    /\ routing' = IF poisoned THEN <<>> ELSE notices
    /\ notices' = IF poisoned THEN notices ELSE <<>>
    /\ UNCHANGED <<backend, conVars, arm, act, owner, ticket, thenRestore, plan, outstanding,
                   shutting, snap, poisonVars, speed, radioVars, server, unsettled>>

\* A mutant of Commands: accepted is applied.
CommandsUnchecked ==
    /\ PumpRuns /\ pump = "commands"
    /\ IF speed = "queued"
       THEN speed' = "write" /\ queue' = Append(queue, "speed") /\ pump' = "speed"
       ELSE pump' = "sleep" /\ UNCHANGED <<speed, queue>>
    /\ UNCHANGED <<backend, conVars, supVars, poisonVars, routing, rig, clamped, keying, ext,
                   server, unsettled>>

\* The queued commands: the keyer speed is checked again.  Then the state is
\* read (module StateCache), unless CW is live, and the pump sleeps.
Commands ==
    /\ PumpRuns /\ pump = "commands"
    /\ IF speed = "queued"
       THEN IF BlocksExternalPtt
            THEN speed' = None /\ pump' = "drive" /\ UNCHANGED queue
            ELSE speed' = "write" /\ queue' = Append(queue, "speed") /\ pump' = "speed"
       ELSE pump' = "sleep" /\ UNCHANGED <<speed, queue>>
    /\ UNCHANGED <<backend, conVars, supVars, poisonVars, routing, rig, clamped, keying, ext,
                   server, unsettled>>

\* pump_sleep ends, kicked or not.
Wake ==
    /\ PumpRuns /\ pump = "sleep"
    /\ pump' = "top"
    /\ UNCHANGED <<backend, conVars, supVars, poisonVars, speed, routing, radioVars, server, unsettled>>

-----------------------------------------------------------------------------
(* The rigctl client behind the PTT gate. *)

\* `transmit`: on Linux the look at the supervisor and the submission to the
\* broker are one poll of a task on the pump's thread.
Transmit ==
    /\ rig = "idle" /\ server # "gone" /\ ~BlocksExternalPtt /\ ~ext
    /\ IF backend = "linux" THEN queue' = Append(queue, "ptt") /\ rig' = "sent"
                            ELSE rig' = "checked" /\ UNCHANGED queue
    /\ UNCHANGED <<backend, conVars, supVars, poisonVars, pumpVars, clamped, keying, ext,
                   server, unsettled>>

SubmitPtt ==
    /\ rig = "checked"
    /\ queue' = Append(queue, "ptt") /\ rig' = "sent"
    /\ UNCHANGED <<backend, conVars, supVars, poisonVars, pumpVars, clamped, keying, ext,
                   server, unsettled>>

\* `receive` is always let through.
Receive ==
    /\ rig = "idle" /\ ext
    /\ ext' = FALSE
    /\ UNCHANGED <<backend, conVars, supVars, poisonVars, pumpVars, queue, rig, clamped,
                   keying, server, unsettled>>

-----------------------------------------------------------------------------
(* The end of the server. *)

\* A listener or the stop handle ended: settle_cw and settle_cw_blocking.
Settle ==
    /\ server = "run"
    /\ IF IsSettled
       THEN server' = "returned" /\ UNCHANGED supVars
       ELSE /\ server' = "settling"
            /\ IF poisoned THEN UNCHANGED supVars
               ELSE /\ shutting' = TRUE /\ UNCHANGED <<outstanding, snap>>
                    /\ \/ act = "Arming" /\ RefuseArm
                       \/ act # "Arming" /\ arm # NoOne /\ EndArm(0) /\ UNCHANGED notices
                       \/ act # "Arming" /\ arm = NoOne
                          /\ UNCHANGED <<arm, act, owner, ticket, thenRestore, plan, notices>>
    /\ UNCHANGED <<backend, conVars, poisonVars, pumpVars, radioVars, unsettled>>

\* Settled, or CW_SHUTDOWN_TIMEOUT has passed and that is reported.
Return ==
    /\ server = "settling"
    /\ server' = "returned" /\ unsettled' = ~IsSettled
    /\ UNCHANGED <<backend, conVars, supVars, poisonVars, pumpVars, radioVars>>

ConsoleNext ==
    \E c \in Consoles :
        \/ \E isArm \in BOOLEAN : Ask(c, isArm)
        \/ TakeAnswer(c) \/ Expire(c) \/ DropReceiver(c)
        \/ SendText(c) \/ AbortCw(c) \/ SetSpeed(c) \/ Detach(c) \/ Panic(c)
PumpNext ==
    \/ Top \/ ClearAbort \/ StopAfterPoison \/ NextAction \/ Route \/ Routed
    \/ Complete \/ TakeNotices \/ Commands \/ Wake
Next ==
    \/ ConsoleNext \/ PumpNext \/ Exchange
    \/ Transmit \/ SubmitPtt \/ Receive \/ Settle \/ Return

Fairness == WF_vars(PumpNext) /\ WF_vars(Exchange)
Spec == Init /\ [][Next]_vars /\ Fairness

-----------------------------------------------------------------------------
(* Properties. *)

\* An external client never has the radio keyed while a console is armed
\* (ptt_gate.rs, "transmit is refused and never reaches the radio").
GateHoldsAlways == arm # NoOne => ~ext

\* It does hold where the look at the supervisor and the submission are one
\* step: what was let through before the arm is in the broker's queue before
\* the arm's first exchange, which then sees the radio transmit
\* (ptt_gate.rs transmit, the Linux build).
GateHolds == backend = "linux" => GateHoldsAlways

\* A keyer speed never changes once the arm has read it: what was queued
\* before the arm is looked at again (native_bridge.rs, pump_once).
SpeedFixedUnderArm ==
    speed = "write" /\ speed' # "write" =>
        arm = NoOne /\ (act = "Arming" => plan = <<"status", "clamp">>)

\* A server that returns has restored the radio or said that it has not
\* (lib.rs run_with_native, settle_cw).  On Windows the console threads and the
\* pump outlive `run_with_native`, and an arm granted then is nobody's to undo.
ReturnedRestored ==
    backend = "linux" /\ server = "returned" /\ ~unsettled => ~clamped /\ ~keying

\* Behind a poisoned lock every abort still stops the keyer (native_bridge.rs,
\* stop_after_poison and AbortCw).
AbortStopsAfterPoison == (stopOwed /\ PumpRuns) ~> (~stopOwed \/ ~PumpRuns)

\* An arm whose console stopped waiting is released: none is held, with
\* nothing left to route, by a console that was told its arm failed
\* (native_bridge.rs route_cw_notices).
AbandonedArmReleased ==
    pump = "sleep" /\ notices = <<>> /\ arm # NoOne /\ ~poisoned =>
        ~(told[arm] = "timeout" /\ asked[arm] = "arm")
=============================================================================
