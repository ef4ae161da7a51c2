---------------------------- MODULE CwSupervisor ----------------------------
(***************************************************************************)
(* The CW transmit supervisor of the native bridge                         *)
(* (cat-rigctl/src/native_bridge/cw.rs), driven by the pump against one    *)
(* radio.                                                                  *)
(*                                                                         *)
(* A request (arm, send, abort, disarm, detached, shutdown) only changes   *)
(* the plan; next_action hands the radio one step, the radio answers it in *)
(* its own time, and complete applies the answer.  Requests arrive between *)
(* any two of those three, because the bridge holds the supervisor's lock  *)
(* only inside each call.  next_action's loop is one action per turn;      *)
(* turning says that its call, and with it the lock, is not over.          *)
(*                                                                         *)
(* Instants are modelled by what is left of them.  keyed counts down to    *)
(* keyed_until and on past it as far as the pacing margin; the watchdog,   *)
(* the idle limit, the ID interval and the two retry instants are Booleans *)
(* that some later step sets.  Speeds and texts are abstracted to the      *)
(* chunks they are cut into and to whether they fit the key-down cap.      *)
(***************************************************************************)
EXTENDS Integers, Sequences

CONSTANTS
    Consoles,      \* the attached consoles
    NoOne,         \* no console
    Tickets,       \* tickets for deferred replies
    NoTicket,      \* no ticket
    Jobs,          \* job numbers
    NoJob,         \* no job
    Powers,        \* raw transmit-power settings
    LowPower,      \* TxGateCapability::low_power_raw, the clamp
    BreakIns,      \* break-in settings
    BreakInWanted, \* the break-in setting CW text needs
    NeedsBreakIn,  \* CwSendText::requires_break_in is Some
    DrainOnly,     \* CwSendText::abort: DrainOnly (else RadioStop)
    BufferFlag,    \* CwSendText::pacing: BufferFlag
    PacingMargin,  \* CwConfig::pacing_margin
    ChunkTime,     \* the longest estimate of one chunk (the drain bound)
    MaxText,       \* bound: chunks of operator text planned at once
    MaxId,         \* bound: chunks of the station ID
    MaxChunks,     \* bound: chunks of a re-cut plan
    LostWrites,    \* writes that may land although they are reported failed
    DeafWrites,    \* writes that may be reported done although they did not land
    PanelMoves     \* the operator may turn the power knob, once

NoValue == -1
Margin == PacingMargin

WriteKinds == {"SetPower", "SetBreakIn", "Send", "Stop"}

ASSUME NoOneAssumption == NoOne \notin Consoles
ASSUME NoTicketAssumption == NoTicket \notin Tickets
ASSUME NoJobAssumption == NoJob \notin Jobs
ASSUME PowerAssumption == Powers \subseteq Nat /\ LowPower \in Powers
ASSUME BreakInAssumption == BreakIns \subseteq Nat /\ BreakInWanted \in BreakIns
ASSUME KeyerAssumption ==
    NeedsBreakIn \in BOOLEAN /\ DrainOnly \in BOOLEAN /\ BufferFlag \in BOOLEAN
ASSUME TimeAssumption == PacingMargin \in Nat /\ ChunkTime \in Nat \ {0}
ASSUME BoundAssumption ==
    MaxText \in Nat \ {0} /\ MaxId \in Nat \ {0} /\ MaxChunks \in Nat
ASSUME FaultAssumption ==
    /\ LostWrites \subseteq WriteKinds
    /\ DeafWrites \subseteq WriteKinds
    /\ PanelMoves \in BOOLEAN

VARIABLES
    arm, idFirst, idDue, idle,          \* Arm: owner, id_first, last_id and last_activity
    act,                                \* Activity's variant
    owner,                              \* Arming::owner
    ticket,                             \* the ticket of Arming, After::Restore or Restoring
    stay,                               \* Stopping::then is StayArmed
    job, hasId, leadId, idSent, inRadio, overdue, \* Job, and whether its deadline has passed
    retry,                              \* Restoring::retry_at
    plan, outstanding, readyWait,
    snapPower, snapBreakIn, powerChanged, breakInChanged, \* Snapshot
    keyed, shutting, idOwed,
    turning,                            \* next_action is running
    open,                               \* tickets without a CwNotice::Reply
    live,                               \* jobs without a CwNotice::JobEnded
    stopSent                            \* the stop of the job being stopped was handed over

VARIABLES
    answer,  \* the radio's answer to outstanding, until complete takes it
    power,   \* the radio's power setting
    breakIn, \* the radio's break-in setting
    air,     \* how much longer the radio keys what it holds
    orig,    \* the settings the operator left the radio at
    turned,  \* the operator has turned the power knob since
    owing    \* text has been keyed that no completed ID has followed

armVars == <<arm, idFirst, idDue, idle>>
jobVars == <<hasId, leadId, idSent, inRadio, overdue>>
snapVars == <<snapPower, snapBreakIn, powerChanged, breakInChanged>>
actVars == <<act, owner, ticket, stay, job, retry, stopSent>>
supVars == <<armVars, jobVars, snapVars, actVars, plan, readyWait, idOwed>>
radio == <<power, breakIn, air, orig, turned, owing>>
vars == <<supVars, outstanding, keyed, shutting, turning, open, live, answer, radio>>

-----------------------------------------------------------------------------
(* Steps: Step, Chunk and Step::action.  val is the setting written or     *)
(* wanted, the margin of a wait, or what a chunk means for the station ID. *)

Plain == 0   \* a chunk that leaves no ID unfinished
Unid == 1    \* a chunk handed over before its job's ID is complete
EndsId == 2  \* Chunk::ends_id

StepKinds ==
    WriteKinds \cup {"None", "Status", "SnapPower", "SnapBreakIn", "VerifyPower",
                     "VerifyBreakIn", "PowerAtMost", "WaitReady", "WaitKeyed", "CheckSpeed"}

Step(k, v) == [kind |-> k, val |-> v]
NoStep == Step("None", 0)

\* The radio's answers, CwOutcome.  Every "unexpected answer" is treated as
\* Failed by complete, so it is Failed here.
InCw == 0
NotCw == 1
OnAir == 2
NoAnswer == [kind |-> "None", val |-> 0]
Failed == [kind |-> "Failed", val |-> 0]
Done == [kind |-> "Done", val |-> 0]

-----------------------------------------------------------------------------
(* The supervisor's private methods.  wire is self.outstanding at the time *)
(* of the call, which complete has already taken.                          *)

ClearSnap ==
    /\ snapPower' = NoValue /\ snapBreakIn' = NoValue
    /\ powerChanged' = FALSE /\ breakInChanged' = FALSE

\* Only what was changed is written back, and every write is read back.
RestoreWrites ==
    (IF powerChanged /\ snapPower # NoValue
     THEN <<Step("SetPower", snapPower), Step("VerifyPower", snapPower)>>
     ELSE <<>>)
    \o (IF breakInChanged /\ snapBreakIn # NoValue
        THEN <<Step("SetBreakIn", snapBreakIn), Step("VerifyBreakIn", snapBreakIn)>>
        ELSE <<>>)

PlanRestore == plan' = <<Step("WaitKeyed", Margin)>> \o RestoreWrites

StartRestore(t) ==
    /\ PlanRestore
    /\ arm' = NoOne /\ idFirst' = FALSE /\ idDue' = FALSE /\ idle' = FALSE
    /\ act' = "Restoring" /\ ticket' = t /\ retry' = "none"
    /\ owner' = NoOne /\ job' = NoJob /\ stay' = FALSE /\ stopSent' = FALSE /\ readyWait' = FALSE
    /\ UNCHANGED <<jobVars, snapVars, idOwed>>

\* The Job is gone: what only a running job has is forgotten.
DropJob ==
    /\ hasId' = FALSE /\ leadId' = FALSE /\ idSent' = FALSE /\ inRadio' = FALSE
    /\ overdue' = FALSE

\* Mutant: a chunk still on the wire does not count as keyed.
AnythingKeyedForgetsWire(wire) == inRadio

AnythingKeyed(wire) == inRadio \/ wire.kind = "Send"

\* st: TRUE is After::StayArmed, FALSE is After::Restore(_, t).
BeginStop(st, t, wire) ==
    \/ /\ act = "Sending"
       /\ LET cut == hasId /\ ~idSent
          IN  /\ idFirst' = (idFirst \/ cut)
              /\ idOwed' = IF cut /\ AnythingKeyed(wire) THEN arm ELSE idOwed
       /\ plan' = <<Step("Stop", 0), Step("WaitKeyed", Margin)>>
       /\ act' = "Stopping" /\ stay' = st /\ ticket' = t
       /\ stopSent' = FALSE /\ readyWait' = FALSE
       /\ DropJob
       /\ UNCHANGED <<arm, idDue, idle, snapVars, owner, job, retry>>
    \/ act # "Sending" /\ st /\ UNCHANGED supVars
    \/ act # "Sending" /\ ~st /\ StartRestore(t)

EndArm(t) ==
    \/ act = "Sending" /\ BeginStop(FALSE, t, outstanding)
    \/ /\ act = "Stopping"
       /\ stay' = FALSE
       /\ ticket' = IF stay \/ ticket = NoTicket THEN t ELSE ticket
       /\ UNCHANGED <<armVars, jobVars, snapVars, act, owner, job, retry, stopSent,
                      plan, readyWait, idOwed>>
    \/ act = "Idle" /\ StartRestore(t)
    \/ act \in {"Arming", "Restoring"} /\ UNCHANGED supVars

Reply == open' = open \ {ticket}

\* Mutant: a refused arm leaves the clamp on the radio.
RefuseArmKeepsClamp ==
    /\ Reply
    /\ ClearSnap
    /\ plan' = <<>> /\ act' = "Idle" /\ owner' = NoOne /\ ticket' = NoTicket
    /\ UNCHANGED <<armVars, jobVars, stay, job, retry, stopSent, readyWait, idOwed>>

RefuseArm ==
    /\ Reply
    /\ \/ (powerChanged \/ breakInChanged) /\ StartRestore(NoTicket)
       \/ /\ ~(powerChanged \/ breakInChanged)
          /\ ClearSnap
          /\ plan' = <<>> /\ act' = "Idle" /\ owner' = NoOne /\ ticket' = NoTicket
          /\ UNCHANGED <<armVars, jobVars, stay, job, retry, stopSent, readyWait, idOwed>>

\* Mutant: a stop that fails is tried again until it works.
FailStoppingRetries ==
    /\ plan' = <<Step("Stop", 0), Step("WaitKeyed", Margin)>>
    /\ readyWait' = FALSE
    /\ UNCHANGED <<armVars, jobVars, snapVars, actVars, idOwed, open>>

FailStopping ==
    /\ plan' = <<Step("WaitKeyed", Margin)>>
    /\ readyWait' = FALSE
    /\ UNCHANGED <<armVars, jobVars, snapVars, actVars, idOwed, open>>

\* Mutant: a failed restore answers the disarm and keeps its ticket.
FailRestoringKeepsTicket ==
    /\ Reply
    /\ retry' = "waiting" /\ plan' = <<>>
    /\ UNCHANGED <<armVars, jobVars, snapVars, act, owner, ticket, stay, job, stopSent,
                   readyWait, idOwed>>

FailRestoring ==
    /\ Reply
    /\ retry' = "waiting" /\ ticket' = NoTicket /\ plan' = <<>>
    /\ UNCHANGED <<armVars, jobVars, snapVars, act, owner, stay, job, stopSent,
                   readyWait, idOwed>>

Fail ==
    \/ act = "Idle" /\ UNCHANGED <<supVars, open>>
    \/ act = "Arming" /\ RefuseArm
    \/ act = "Sending" /\ BeginStop(TRUE, NoTicket, NoStep) /\ UNCHANGED open
    \/ act = "Stopping" /\ FailStopping
    \/ act = "Restoring" /\ FailRestoring

\* The chunks of a send: operator text, and the ID on chunks of its own.
Chunks(text, id, lead) ==
    LET idChunks == [i \in 1..id |-> IF i = id THEN EndsId ELSE Unid]
        textChunks == [i \in 1..text |-> IF id = 0 \/ lead THEN Plain ELSE Unid]
    IN  IF lead THEN idChunks \o textChunks ELSE textChunks \o idChunks

\* Mutant: the next chunk goes a moment before the last has keyed.
PacedEarly(chunk) ==
    <<Step("WaitKeyed", -1)>>
    \o (IF BufferFlag THEN <<Step("WaitReady", 0)>> ELSE <<>>)
    \o (IF DrainOnly THEN <<Step("CheckSpeed", 0)>> ELSE <<>>)
    \o <<Step("Send", chunk)>>

\* What goes before a chunk, and the chunk.
Paced(chunk) ==
    <<Step("WaitKeyed", 0)>>
    \o (IF BufferFlag THEN <<Step("WaitReady", 0)>> ELSE <<>>)
    \o (IF DrainOnly THEN <<Step("CheckSpeed", 0)>> ELSE <<>>)
    \o <<Step("Send", chunk)>>

PacedLen == 2 + (IF BufferFlag THEN 1 ELSE 0) + (IF DrainOnly THEN 1 ELSE 0)

PacedPlan(chunks) ==
    [i \in 1..(Len(chunks) * PacedLen) |->
        Paced(chunks[((i - 1) \div PacedLen) + 1])[((i - 1) % PacedLen) + 1]]
    \o <<Step("WaitKeyed", Margin)>>

PlanChunks(text, id) == plan' = plan \o PacedPlan(Chunks(text, id, leadId))

\* The chunks still to send when a speed check completes: the plan is then the
\* chunk the check was for, the paced chunks after it and the final wait.
ChunksLeft ==
    [k \in 1..(((Len(plan) - 2) \div PacedLen) + 1) |-> plan[(k - 1) * PacedLen + 1].val]

\* Re-cut what is left at a new speed, each chunk into as many as parts
\* pieces; the first goes at once, its waits having been met.
Replan(parts) ==
    LET pieces == [i \in 1..(Len(ChunksLeft) * parts) |->
                      LET whole == ChunksLeft[((i - 1) \div parts) + 1]
                      IN  IF whole = EndsId /\ i % parts # 0 THEN Unid ELSE whole]
        paced == PacedPlan(pieces)
    IN  plan' = SubSeq(paced, PacedLen, Len(paced))

\* late: the deadline, counted from the start of the job, has passed already.
SetWatchdog(late) == overdue' = late

OnStatusArming(reading) ==
    \/ reading = InCw /\ UNCHANGED <<supVars, open>>
    \/ reading # InCw /\ RefuseArm

\* fits: the estimate at the speed read is within the key-down cap.
OnStatusSending(reading, fits) ==
    \/ /\ reading = InCw /\ fits
       /\ \E text \in 1..MaxText, id \in 1..MaxId : PlanChunks(text, IF hasId THEN id ELSE 0)
       /\ \E late \in BOOLEAN : SetWatchdog(late)
       /\ UNCHANGED <<armVars, snapVars, actVars, hasId, leadId, idSent, inRadio,
                      readyWait, idOwed, open>>
    \/ /\ ~(reading = InCw /\ fits)
       /\ BeginStop(TRUE, NoTicket, NoStep)
       /\ UNCHANGED open

OnStatus(reading) ==
    \/ act = "Arming" /\ OnStatusArming(reading)
    \/ act = "Sending" /\ \E fits \in BOOLEAN : OnStatusSending(reading, fits)
    \/ act \notin {"Arming", "Sending"} /\ UNCHANGED <<supVars, open>>

\* same: the speed is the one the plan was cut for.
OnSpeed(reading) ==
    /\ UNCHANGED open
    /\ \E same, fits \in BOOLEAN :
         \/ (act # "Sending" \/ (reading # NotCw /\ same)) /\ UNCHANGED supVars
         \/ /\ act = "Sending" /\ (reading = NotCw \/ (~same /\ ~fits))
            /\ BeginStop(TRUE, NoTicket, NoStep)
         \/ /\ act = "Sending" /\ reading # NotCw /\ ~same /\ fits
            /\ \E parts \in {1, 2} :
                  /\ parts = 1 \/ Len(ChunksLeft) * parts <= MaxChunks
                  /\ Replan(parts)
            /\ SetWatchdog(FALSE)
            /\ UNCHANGED <<armVars, snapVars, actVars, hasId, leadId, idSent, inRadio,
                           readyWait, idOwed>>

Max0(n) == IF n > 0 THEN n ELSE 0

\* Mutant: a chunk that completes after its job was stopped is not counted.
CountKeyedWhileSending ==
    keyed' = IF act = "Sending" THEN Max0(keyed) + ChunkTime ELSE keyed

\* Keyed after whatever the radio already holds.
CountKeyed == keyed' = Max0(keyed) + ChunkTime

OnSent(chunk) ==
    /\ CountKeyed
    /\ LET mine == act = "Sending"
           ended == mine /\ chunk = EndsId
       IN  /\ inRadio' = (mine \/ inRadio)
           /\ idSent' = (ended \/ idSent)
           /\ idOwed' = IF ended THEN NoOne ELSE idOwed
           /\ idDue' = (~ended /\ idDue)
           /\ idFirst' = (~ended /\ idFirst)
    /\ UNCHANGED <<arm, idle, hasId, leadId, overdue, snapVars, actVars, plan, readyWait, open>>

EndJob == live' = live \ {job}

\* Every write in the plan was read back and matched.
Restored ==
    /\ Reply
    /\ ClearSnap
    /\ act' = "Idle" /\ ticket' = NoTicket
    /\ UNCHANGED <<armVars, jobVars, owner, stay, job, retry, stopSent, plan, readyWait, idOwed,
                   live>>

Armed ==
    /\ Reply
    /\ arm' = owner /\ idDue' = TRUE /\ idFirst' = FALSE /\ idle' = FALSE
    /\ act' = "Idle" /\ owner' = NoOne /\ ticket' = NoTicket
    /\ UNCHANGED <<jobVars, snapVars, stay, job, retry, stopSent, plan, readyWait, idOwed, live>>

\* The plan has run out.  more: there may be more to do.
Finish(more) ==
    \/ act = "Idle" /\ ~more /\ UNCHANGED <<supVars, open, live>>
    \/ act = "Arming" /\ ~more /\ Armed
    \/ /\ act = "Sending" /\ more
       /\ EndJob
       /\ act' = "Idle" /\ job' = NoJob /\ idle' = FALSE
       /\ DropJob
       /\ UNCHANGED <<arm, idFirst, idDue, snapVars, owner, ticket, stay, retry, stopSent,
                      plan, readyWait, idOwed, open>>
    \/ /\ act = "Stopping" /\ stay /\ more
       /\ EndJob
       /\ act' = "Idle" /\ job' = NoJob /\ idle' = FALSE /\ stay' = FALSE /\ stopSent' = FALSE
       /\ UNCHANGED <<arm, idFirst, idDue, jobVars, snapVars, owner, ticket, retry,
                      plan, readyWait, idOwed, open>>
    \/ act = "Stopping" /\ ~stay /\ more /\ EndJob /\ StartRestore(ticket) /\ UNCHANGED open
    \/ act = "Restoring" /\ retry = "waiting" /\ ~more /\ UNCHANGED <<supVars, open, live>>
    \/ /\ act = "Restoring" /\ retry = "due" /\ more
       /\ retry' = "none"
       /\ PlanRestore
       /\ UNCHANGED <<armVars, jobVars, snapVars, act, owner, ticket, stay, job, stopSent,
                      readyWait, idOwed, open, live>>
    \/ act = "Restoring" /\ retry = "none" /\ ~more /\ Restored

CheckTimers ==
    \/ act = "Sending" /\ overdue /\ BeginStop(FALSE, NoTicket, NoStep)
    \/ act = "Idle" /\ arm # NoOne /\ idle /\ StartRestore(NoTicket)
    \/ /\ ~(act = "Sending" /\ overdue) /\ ~(act = "Idle" /\ arm # NoOne /\ idle)
       /\ UNCHANGED supVars

\* An arm's plan without setting the break-in, which is its last two steps.
WithoutBreakIn(p) ==
    IF p # <<>> /\ p[Len(p)].kind = "VerifyBreakIn" THEN SubSeq(p, 1, Len(p) - 2) ELSE p

\* Mutant: the clamp is written and not read back.
ArmPlanUnverified ==
    <<Step("Status", 0), Step("SnapPower", 0)>>
    \o (IF NeedsBreakIn THEN <<Step("SnapBreakIn", 0)>> ELSE <<>>)
    \o <<Step("SetPower", LowPower)>>
    \o (IF NeedsBreakIn
        THEN <<Step("SetBreakIn", BreakInWanted), Step("VerifyBreakIn", BreakInWanted)>>
        ELSE <<>>)

ArmPlan ==
    <<Step("Status", 0), Step("SnapPower", 0)>>
    \o (IF NeedsBreakIn THEN <<Step("SnapBreakIn", 0)>> ELSE <<>>)
    \o <<Step("SetPower", LowPower), Step("VerifyPower", LowPower)>>
    \o (IF NeedsBreakIn
        THEN <<Step("SetBreakIn", BreakInWanted), Step("VerifyBreakIn", BreakInWanted)>>
        ELSE <<>>)

SendPlan == <<Step("Status", 0), Step("PowerAtMost", LowPower)>>

BlocksExternalPtt == arm # NoOne \/ act # "Idle"
IsLive == act # "Idle" \/ plan # <<>> \/ outstanding # NoStep
IsSettled == arm = NoOne /\ ~IsLive

-----------------------------------------------------------------------------
(* Requests.  A refused request changes nothing and is not an action.      *)

Request == ~turning /\ UNCHANGED <<outstanding, keyed, turning, answer, radio>>

Arm(c) ==
    /\ Request
    /\ ~shutting
    /\ act \notin {"Restoring", "Arming"}
    /\ arm = NoOne
    /\ ClearSnap
    /\ \E t \in Tickets \ open : ticket' = t /\ open' = open \cup {t}
    /\ plan' = ArmPlan /\ act' = "Arming" /\ owner' = c
    /\ UNCHANGED <<armVars, jobVars, stay, job, retry, stopSent, readyWait, idOwed,
                   shutting, live>>

Send(c) ==
    /\ Request
    /\ arm = c
    /\ act = "Idle"
    /\ \E j \in Jobs \ live : job' = j /\ live' = live \cup {j}
    /\ plan' = SendPlan /\ act' = "Sending" /\ idle' = FALSE
    /\ hasId' = idDue /\ leadId' = (idDue /\ idFirst) /\ idSent' = FALSE /\ inRadio' = FALSE
    /\ overdue' = FALSE
    /\ UNCHANGED <<arm, idFirst, idDue, snapVars, owner, ticket, stay, retry, stopSent,
                   readyWait, idOwed, shutting, open>>

Abort ==
    /\ Request
    /\ act = "Sending"
    /\ BeginStop(TRUE, NoTicket, outstanding)
    /\ UNCHANGED <<shutting, open, live>>

Disarm(c) ==
    /\ Request
    /\ arm = c
    /\ ~(act = "Stopping" /\ ~stay /\ ticket # NoTicket)
    /\ \E t \in Tickets \ open : EndArm(t) /\ open' = open \cup {t}
    /\ UNCHANGED <<shutting, live>>

Detached(c) ==
    /\ Request
    /\ \/ act = "Arming" /\ owner = c /\ RefuseArm
       \/ act # "Arming" /\ arm = c /\ EndArm(NoTicket) /\ UNCHANGED open
    /\ UNCHANGED <<shutting, live>>

\* Mutant: a shutdown lets an arm in progress finish.
ShutdownForgetsArming ==
    /\ Request
    /\ shutting' = TRUE
    /\ \/ arm # NoOne /\ EndArm(NoTicket) /\ UNCHANGED open
       \/ arm = NoOne /\ UNCHANGED <<supVars, open>>
    /\ UNCHANGED live

Shutdown ==
    /\ Request
    /\ shutting' = TRUE
    /\ \/ act = "Arming" /\ RefuseArm
       \/ act # "Arming" /\ arm # NoOne /\ EndArm(NoTicket) /\ UNCHANGED open
       \/ act # "Arming" /\ arm = NoOne /\ UNCHANGED <<supVars, open>>
    /\ UNCHANGED live

-----------------------------------------------------------------------------
(* next_action: the timers, then turns of its loop until one returns.  The *)
(* loop's limit of 64 turns is out of reach: no more than four follow each *)
(* other.                                                                  *)

Call == UNCHANGED <<keyed, shutting, answer, radio>>

NextAction ==
    /\ Call
    /\ ~turning /\ outstanding = NoStep
    /\ turning' = TRUE
    /\ CheckTimers
    /\ UNCHANGED <<outstanding, open, live>>

TurnFinish ==
    /\ Call
    /\ turning /\ plan = <<>>
    /\ \E more \in BOOLEAN : Finish(more) /\ turning' = more
    /\ UNCHANGED outstanding

\* A step that has to wait ends the call.
Waits(step) ==
    \/ step.kind = "WaitKeyed" /\ keyed + step.val > 0
    \/ step.kind = "WaitReady" /\ readyWait

TurnWait ==
    /\ Call
    /\ turning /\ plan # <<>> /\ Waits(Head(plan))
    /\ turning' = FALSE
    /\ UNCHANGED <<supVars, outstanding, open, live>>

TurnWaited ==
    /\ Call
    /\ turning /\ plan # <<>> /\ Head(plan).kind = "WaitKeyed" /\ ~Waits(Head(plan))
    /\ plan' = Tail(plan)
    /\ UNCHANGED <<armVars, jobVars, snapVars, actVars, readyWait, idOwed,
                   turning, outstanding, open, live>>

\* A write counts as a change from here on, whether or not it turns out to land.
TurnIssue ==
    /\ Call
    /\ turning /\ plan # <<>> /\ Head(plan).kind # "WaitKeyed" /\ ~Waits(Head(plan))
    /\ plan' = Tail(plan)
    /\ outstanding' = Head(plan)
    /\ powerChanged' = (powerChanged \/ Head(plan).kind = "SetPower")
    /\ breakInChanged' = (breakInChanged \/ Head(plan).kind = "SetBreakIn")
    /\ stopSent' = (stopSent \/ Head(plan).kind = "Stop")
    /\ turning' = FALSE
    /\ UNCHANGED <<armVars, jobVars, snapPower, snapBreakIn, act, owner, ticket, stay, job, retry,
                   readyWait, idOwed, open, live>>

-----------------------------------------------------------------------------
(* complete: one action for each answer.                                   *)

Takes(kinds) ==
    /\ answer # NoAnswer /\ outstanding.kind \in kinds
    /\ answer' = NoAnswer /\ outstanding' = NoStep
    /\ UNCHANGED <<shutting, turning, live, radio>>

CompleteFailed == Takes(StepKinds) /\ answer = Failed /\ Fail /\ UNCHANGED keyed

Completes(kinds) == Takes(kinds) /\ answer # Failed

CompleteStatus == Completes({"Status"}) /\ OnStatus(answer.val) /\ UNCHANGED keyed

CompleteSpeed == Completes({"CheckSpeed"}) /\ OnSpeed(answer.val) /\ UNCHANGED keyed

CompleteSnapPower ==
    /\ Completes({"SnapPower"})
    /\ snapPower' = answer.val
    /\ UNCHANGED <<armVars, jobVars, snapBreakIn, powerChanged, breakInChanged, actVars,
                   plan, readyWait, idOwed, keyed, open>>

CompleteSnapBreakIn ==
    /\ Completes({"SnapBreakIn"})
    /\ snapBreakIn' = answer.val
    /\ plan' = IF answer.val = BreakInWanted THEN WithoutBreakIn(plan) ELSE plan
    /\ UNCHANGED <<armVars, jobVars, snapPower, powerChanged, breakInChanged, actVars,
                   readyWait, idOwed, keyed, open>>

CompleteVerify ==
    /\ Completes({"VerifyPower", "VerifyBreakIn"})
    /\ \/ answer.val = outstanding.val /\ UNCHANGED <<supVars, open>>
       \/ answer.val # outstanding.val /\ Fail
    /\ UNCHANGED keyed

CompletePowerAtMost ==
    /\ Completes({"PowerAtMost"})
    /\ \/ answer.val <= outstanding.val /\ UNCHANGED supVars
       \/ answer.val > outstanding.val /\ BeginStop(FALSE, NoTicket, NoStep)
    /\ UNCHANGED <<keyed, open>>

\* A keyer with a real stop is silent now.
CompleteStop ==
    /\ Completes({"Stop"})
    /\ keyed' = IF DrainOnly THEN keyed ELSE -Margin
    /\ UNCHANGED <<supVars, open>>

CompleteSet == Completes({"SetPower", "SetBreakIn"}) /\ UNCHANGED <<supVars, keyed, open>>

CompleteReady ==
    /\ Completes({"WaitReady"})
    /\ \/ answer.val = 1 /\ UNCHANGED <<plan, readyWait>>
       \/ answer.val # 1 /\ plan' = <<outstanding>> \o plan /\ readyWait' = TRUE
    /\ UNCHANGED <<armVars, jobVars, snapVars, actVars, idOwed, keyed, open>>

CompleteSend == Completes({"Send"}) /\ OnSent(outstanding.val)

-----------------------------------------------------------------------------
(* The radio, external: what NativeCw does to it and what it answers.      *)

supState == <<supVars, outstanding, keyed, shutting, turning, open, live>>

Reads(kinds, v) == outstanding.kind \in kinds /\ answer' = [kind |-> "Read", val |-> v]

\* A read is answered truthfully.
RadioReads ==
    /\ answer = NoAnswer
    /\ \/ \E r \in {InCw, NotCw, OnAir} : Reads({"Status", "CheckSpeed"}, r)
       \/ Reads({"SnapPower", "VerifyPower", "PowerAtMost"}, power)
       \/ Reads({"SnapBreakIn", "VerifyBreakIn"}, breakIn)
       \/ \E ready \in {0, 1} : Reads({"WaitReady"}, ready)
    /\ UNCHANGED <<supState, radio>>

\* What a write that reaches the radio does.
Lands(step) ==
    /\ power' = IF step.kind = "SetPower" THEN step.val ELSE power
    /\ breakIn' = IF step.kind = "SetBreakIn" THEN step.val ELSE breakIn
    /\ \/ step.kind = "Send" /\ \E d \in 1..ChunkTime : air' = air + d
       \/ step.kind = "Stop" /\ ~DrainOnly /\ air' = 0
       \/ ~(step.kind = "Send") /\ ~(step.kind = "Stop" /\ ~DrainOnly) /\ air' = air
    /\ owing' = IF step.kind = "Send" /\ step.val # Plain THEN step.val = Unid ELSE owing
    /\ UNCHANGED <<orig, turned>>

RadioWrites ==
    /\ answer = NoAnswer
    /\ outstanding.kind \in WriteKinds
    /\ Lands(outstanding)
    /\ answer' = Done
    /\ UNCHANGED supState

\* A write that lands and whose acknowledgement is lost.
RadioLosesAck ==
    /\ answer = NoAnswer
    /\ outstanding.kind \in LostWrites
    /\ Lands(outstanding)
    /\ answer' = Failed
    /\ UNCHANGED supState

\* A write the radio ignores: a CAT set is not acknowledged, so it counts as done.
RadioIgnores ==
    /\ answer = NoAnswer
    /\ outstanding.kind \in DeafWrites
    /\ answer' = Done
    /\ UNCHANGED <<supState, radio>>

RadioFails ==
    /\ answer = NoAnswer
    /\ outstanding # NoStep
    /\ answer' = Failed
    /\ UNCHANGED <<supState, radio>>

\* The operator turns the power knob on the front panel.
PanelPower ==
    /\ PanelMoves /\ ~turned
    /\ turned' = TRUE
    /\ power' \in Powers \ {power}
    /\ UNCHANGED <<supState, answer, breakIn, air, orig, owing>>

-----------------------------------------------------------------------------
(* Time.                                                                   *)

Clock == ~turning /\ UNCHANGED <<arm, idFirst, act, owner, ticket, stay, job, stopSent, hasId, leadId,
                                 idSent, inRadio, snapVars, plan, idOwed, outstanding, shutting,
                                 turning, open, live, answer, power, breakIn, orig, turned, owing>>

Tick ==
    /\ Clock
    /\ air > 0 \/ keyed > -Margin
    /\ air' = Max0(air - 1)
    /\ keyed' = IF keyed > -Margin THEN keyed - 1 ELSE keyed
    /\ UNCHANGED <<overdue, idle, idDue, retry, readyWait>>

\* One of the instants the supervisor compares with now goes by.
WatchdogPasses ==
    /\ Clock
    /\ act = "Sending" /\ ~overdue /\ overdue' = TRUE
    /\ UNCHANGED <<air, keyed, idle, idDue, retry, readyWait>>

IdlePasses ==
    /\ Clock
    /\ act = "Idle" /\ arm # NoOne /\ ~idle /\ idle' = TRUE
    /\ UNCHANGED <<air, keyed, overdue, idDue, retry, readyWait>>

IdIntervalPasses ==
    /\ Clock
    /\ arm # NoOne /\ ~idDue /\ idDue' = TRUE
    /\ UNCHANGED <<air, keyed, overdue, idle, retry, readyWait>>

RetryPasses ==
    /\ Clock
    /\ retry = "waiting" /\ retry' = "due"
    /\ UNCHANGED <<air, keyed, overdue, idle, idDue, readyWait>>

ReadyRetryPasses ==
    /\ Clock
    /\ readyWait /\ readyWait' = FALSE
    /\ UNCHANGED <<air, keyed, overdue, idle, idDue, retry>>

-----------------------------------------------------------------------------
Init ==
    /\ arm = NoOne /\ idFirst = FALSE /\ idDue = FALSE /\ idle = FALSE
    /\ act = "Idle" /\ owner = NoOne /\ ticket = NoTicket /\ stay = FALSE
    /\ job = NoJob /\ hasId = FALSE /\ leadId = FALSE /\ idSent = FALSE /\ inRadio = FALSE
    /\ overdue = FALSE /\ retry = "none"
    /\ plan = <<>> /\ outstanding = NoStep /\ readyWait = FALSE
    /\ snapPower = NoValue /\ snapBreakIn = NoValue
    /\ powerChanged = FALSE /\ breakInChanged = FALSE
    /\ keyed = -Margin /\ shutting = FALSE /\ idOwed = NoOne
    /\ turning = FALSE /\ open = {} /\ live = {} /\ stopSent = FALSE
    /\ answer = NoAnswer
    /\ power \in Powers /\ breakIn \in BreakIns
    /\ air = 0
    /\ orig = [power |-> power, breakIn |-> breakIn]
    /\ turned = FALSE /\ owing = FALSE

Requests == Abort \/ Shutdown \/ \E c \in Consoles : Arm(c) \/ Send(c) \/ Disarm(c) \/ Detached(c)
Turns == TurnFinish \/ TurnWait \/ TurnWaited \/ TurnIssue
Complete ==
    \/ CompleteFailed \/ CompleteStatus \/ CompleteSpeed \/ CompleteSnapPower
    \/ CompleteSnapBreakIn \/ CompleteVerify \/ CompletePowerAtMost \/ CompleteStop
    \/ CompleteSet \/ CompleteReady \/ CompleteSend
Radio ==
    RadioReads \/ RadioWrites \/ RadioLosesAck \/ RadioIgnores \/ RadioFails \/ PanelPower
Time ==
    Tick \/ WatchdogPasses \/ IdlePasses \/ IdIntervalPasses \/ RetryPasses \/ ReadyRetryPasses

Next == Requests \/ NextAction \/ Turns \/ Complete \/ Radio \/ Time

Spec == Init /\ [][Next]_vars

\* The pump thread runs for as long as the bridge does (NativeShared::pump), an
\* exchange always ends in an answer or a timeout, and clocks advance.  A radio
\* that is asked the same thing again and again answers it some of the time, and
\* a keyer asked again and again for buffer space has some in the end.
Answers(k) == outstanding.kind = k /\ (RadioReads \/ RadioWrites)
SaysReady == outstanding.kind = "WaitReady" /\ RadioReads /\ answer'.val = 1

Fairness ==
    /\ WF_vars(NextAction) /\ WF_vars(Turns) /\ WF_vars(Complete)
    /\ WF_vars(RadioReads \/ RadioWrites \/ RadioIgnores \/ RadioFails)
    /\ \A k \in {"SetPower", "VerifyPower", "SetBreakIn", "VerifyBreakIn"} : SF_vars(Answers(k))
    /\ SF_vars(SaysReady)
    /\ SF_vars(Tick) /\ SF_vars(WatchdogPasses) /\ SF_vars(RetryPasses) /\ SF_vars(ReadyRetryPasses)

FairSpec == Spec /\ Fairness

-----------------------------------------------------------------------------
(* Properties.                                                             *)

StepType == [kind : StepKinds, val : Int]

\* What Activity and Arm hold exists only in the activities that have it.
Coherent ==
    /\ keyed >= -Margin
    /\ act = "Arming" <=> owner # NoOne
    /\ act \in {"Arming", "Restoring"} => arm = NoOne
    /\ act \in {"Sending", "Stopping"} => arm # NoOne
    /\ act \in {"Sending", "Stopping"} <=> job # NoJob
    /\ retry # "none" => act = "Restoring"
    /\ turning => outstanding = NoStep

\* Type correctness of the supervisor and of the radio.
TypeOK ==
    /\ arm \in Consoles \cup {NoOne} /\ owner \in Consoles \cup {NoOne}
    /\ idOwed \in Consoles \cup {NoOne}
    /\ idFirst \in BOOLEAN /\ idDue \in BOOLEAN /\ idle \in BOOLEAN
    /\ act \in {"Idle", "Arming", "Sending", "Stopping", "Restoring"}
    /\ ticket \in Tickets \cup {NoTicket} /\ open \subseteq Tickets
    /\ stay \in BOOLEAN /\ stopSent \in BOOLEAN
    /\ job \in Jobs \cup {NoJob} /\ live \subseteq Jobs
    /\ hasId \in BOOLEAN /\ leadId \in BOOLEAN /\ idSent \in BOOLEAN /\ inRadio \in BOOLEAN
    /\ overdue \in BOOLEAN /\ retry \in {"none", "waiting", "due"} /\ readyWait \in BOOLEAN
    /\ plan \in Seq(StepType) /\ outstanding \in StepType
    /\ snapPower \in Powers \cup {NoValue} /\ snapBreakIn \in BreakIns \cup {NoValue}
    /\ powerChanged \in BOOLEAN /\ breakInChanged \in BOOLEAN
    /\ keyed \in Int /\ shutting \in BOOLEAN /\ turning \in BOOLEAN
    /\ Coherent
    /\ answer \in [kind : {"None", "Failed", "Done", "Read"}, val : Int]
    /\ power \in Powers
    /\ breakIn \in BreakIns
    /\ air \in Nat
    /\ orig \in [power : Powers, breakIn : BreakIns]
    /\ turned \in BOOLEAN
    /\ owing \in BOOLEAN

\* plan_restore: "Never raise power under text the radio may still be keying."
\* No power write above the clamp is on the wire while the radio keys text,
\* whatever was aborted, disarmed, timed out or failed before it.
NeverRaisedUnderText ==
    outstanding.kind = "SetPower" /\ outstanding.val > LowPower => air = 0

\* What the arm is for: as long as nobody turns the knob, text is keyed only
\* at or below the clamped power, including what a keyer is still draining
\* after its job, its arm or its console is gone.
KeysOnlyClamped == air > 0 /\ ~turned => power <= LowPower

\* finish_arming grants an arm only on a radio that is clamped and has the
\* break-in it needs, and keeps it so until the arm is gone.
ArmedIsClamped ==
    arm # NoOne /\ ~turned =>
        power = LowPower /\ (NeedsBreakIn => breakIn = BreakInWanted)

\* While a console is armed the power is clamped, and nothing is keyed above the
\* clamp unless somebody turns the knob (finish_arming, push_chunk, plan_restore).
ClampedWhileArmed == ArmedIsClamped /\ KeysOnlyClamped

\* blocks_external_ptt: "from the moment an arm is asked for until its restore
\* has been verified".  When the block is off the radio is at the operator's
\* own settings, after any failed, half-done or interrupted arm.
PttFreeMeansRestored ==
    ~BlocksExternalPtt /\ ~turned => power = orig.power /\ breakIn = orig.breakIn

\* arm and disarm promise a Reply for their ticket: the only unanswered ticket
\* is the one the current activity holds, and that one is unanswered.
TicketsHeld == ~turned => open = {ticket} \ {NoTicket}

\* send promises its job an end: the only job without a JobEnded is the one
\* being sent or stopped.
JobsHeld == ~turned => live = {job} \ {NoJob}

\* Whoever waits for the supervisor is known to it: an open ticket and a live job
\* are exactly the ones it still has to answer (its CwNotices).
WaitersAreHeld == TypeOK /\ TicketsHeld /\ JobsHeld

\* begin_stop: "If anything was keyed, the ID is owed until it is sent."  Once
\* no send runs and no chunk is on the wire, text keyed without its ID is
\* recorded in id_owed, across aborts, disarms and later arms.
IdOwedUntilSent ==
    owing /\ act # "Sending" /\ outstanding.kind # "Send" => idOwed # NoOne

\* plan_chunks: "the radio never holds more than one -- the drain bound".
DrainBounded == air <= ChunkTime

\* Every job send accepted ends, with a radio that fails every exchange of it, a
\* keyer that is busy for as long as it likes and an abort at any point.
JobEnds == \A j \in Jobs : j \in live ~> j \notin live

\* shutdown: "Poll is_settled to know when the radio is back".  The poll ends,
\* and from then on the radio is at the operator's settings for good.
ShutdownSettles ==
    shutting ~> [](IsSettled /\ power = orig.power /\ breakIn = orig.breakIn)

\* A disarm or an arm is answered, however often the restore has to be retried.
TicketsAnswered == \A t \in Tickets : t \in open ~> t \notin open

\* Every job comes to an end and every arm or disarm asked for is answered, whatever
\* writes are lost on the way (CwSupervisor::next_action, complete).
AskedIsAnswered == JobEnds /\ TicketsAnswered

-----------------------------------------------------------------------------
(* What the source's comments say and the code does not do in every case.  *)

\* "An abort replaces the plan with a stop, so the stop is the very next thing
\* on the wire": until it has been handed over, the plan of a stopping job
\* still holds the stop.
StopNotDropped ==
    act = "Stopping" /\ ~stopSent => \E i \in DOMAIN plan : plan[i].kind = "Stop"
=============================================================================
