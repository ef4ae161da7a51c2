------------------------------ MODULE MCExchange ------------------------------
(***************************************************************************)
(* What goes between the radio and those who talk to it, each link on an   *)
(* instance of its own: UDP with the constants of the .cfg (two addresses  *)
(* whose sessions restart) and with a cache too small for two requests,    *)
(* the local serial session, what the framing and the command tables make  *)
(* of a frame, the broker's lines, and CW served to a console.  They share *)
(* no state: one of them runs; the others stay in an initial state or have *)
(* none.                                                                   *)
(***************************************************************************)
EXTENDS UdpExchange, TLC

VARIABLES
    which,   \* the part that runs
    evict_session, evict_nextId, evict_waiting, evict_completed, evict_requests, evict_replies,
    evict_task, evict_answer, evict_order, evict_responses, evict_peerIds, evict_runs,
    evict_outcome, evict_got,
    serial_backend, serial_phase, req, kind, spent, clock, jobs, stalled, drained, serial_rx,
    serial_frame, serial_asked, air, noise,
    format, echo, table, value, cat_phase, cat_frame, routed, wire, cat_rx, result,
    broker_backend, broker_queue, worker, lines, lock, line, armed, arms, handles, calls, wait,
    slot, broker_told,
    cw_backend, con, cw_told, cw_asked, tickets, waiters, box, arm, act, owner, ticket,
    thenRestore, plan, outstanding, shutting, snap, notices, poisoned, abortReq, stopped,
    stopOwed, speed, pump, routing, cw_queue, rig, clamped, keying, ext, server, unsettled

Evict == INSTANCE UdpExchange WITH
    Addrs <- {"a"}, Sids <- {"s"}, MaxRequests <- 2, Capacity <- 1,
    session <- evict_session, nextId <- evict_nextId, waiting <- evict_waiting, completed <-
    evict_completed, requests <- evict_requests, replies <- evict_replies, task <- evict_task,
    answer <- evict_answer, order <- evict_order, responses <- evict_responses, peerIds <-
    evict_peerIds, runs <- evict_runs, outcome <- evict_outcome, got <- evict_got

Serial == INSTANCE SerialSession WITH
    Backends <- {"linux", "windows"}, MaxRequests <- 2, MaxNoise <- 1, MaxFrameLen <- 3,
    backend <- serial_backend, phase <- serial_phase, rx <- serial_rx, frame <- serial_frame,
    asked <- serial_asked

Cat == INSTANCE CatCommands WITH
    Formats <- {"ascii", "civ"}, Echoes <- {FALSE}, Values <- {0, 96, 2507},
    phase <- cat_phase, frame <- cat_frame, rx <- cat_rx

Broker == INSTANCE Broker WITH
    Listeners <- {"l"}, Operators <- {"o"}, Backends <- {"linux", "windows"}, MaxCalls <- 2,
    MaxArms <- 1,
    backend <- broker_backend, queue <- broker_queue, told <- broker_told

Cw == INSTANCE CwServer WITH
    Backends <- {"linux", "windows"}, Consoles <- {"c"}, NoOne <- "none", MaxTickets <- 2,
    backend <- cw_backend, told <- cw_told, asked <- cw_asked, queue <- cw_queue

evictVars ==
    <<evict_session, evict_nextId, evict_waiting, evict_completed, evict_requests,
      evict_replies, evict_task, evict_answer, evict_order, evict_responses, evict_peerIds,
      evict_runs, evict_outcome, evict_got>>
serialVars ==
    <<serial_backend, serial_phase, req, kind, spent, clock, jobs, stalled, drained, serial_rx,
      serial_frame, serial_asked, air, noise>>
catVars ==
    <<format, echo, table, value, cat_phase, cat_frame, routed, wire, cat_rx, result>>
brokerVars ==
    <<broker_backend, broker_queue, worker, lines, lock, line, armed, arms, handles, calls,
      wait, slot, broker_told>>
cwVars ==
    <<cw_backend, con, cw_told, cw_asked, tickets, waiters, box, arm, act, owner, ticket,
      thenRestore, plan, outstanding, shutting, snap, notices, poisoned, abortReq, stopped,
      stopOwed, speed, pump, routing, cw_queue, rig, clamped, keying, ext, server, unsettled>>

Parts == {"peers", "evict", "serial", "cat", "broker", "cw"}

\* A part that does not run has no state.
Off == "off"

SumInit ==
    /\ which \in Parts
    /\ Init
    /\ Evict!Init
    /\ IF which = "serial" THEN Serial!Init ELSE (serial_backend = "linux") /\ Serial!Init
    /\ IF which = "cat" THEN Cat!Init
       ELSE format = Off /\ echo = Off /\ table = Off /\ value = Off /\ cat_phase = Off /\ cat_frame
            = Off /\ routed = Off /\ wire = Off /\ cat_rx = Off /\ result = Off
    /\ IF which = "broker" THEN Broker!Init
       ELSE broker_backend = Off /\ broker_queue = Off /\ worker = Off /\ lines = Off /\ lock = Off
            /\ line = Off /\ armed = Off /\ arms = Off /\ handles = Off /\ calls = Off
            /\ wait = Off /\ slot = Off /\ broker_told = Off
    /\ IF which = "cw" THEN Cw!Init
       ELSE cw_backend = Off /\ con = Off /\ cw_told = Off /\ cw_asked = Off /\ tickets = Off /\
            waiters = Off /\ box = Off /\ arm = Off /\ act = Off /\ owner = Off /\
            ticket = Off /\ thenRestore = Off /\ plan = Off /\ outstanding = Off /\
            shutting = Off /\ snap = Off /\ notices = Off /\ poisoned = Off /\ abortReq
            = Off /\ stopped = Off /\ stopOwed = Off /\ speed = Off /\ pump = Off /\
            routing = Off /\ cw_queue = Off /\ rig = Off /\ clamped = Off /\ keying =
            Off /\ ext = Off /\ server = Off /\ unsettled = Off

SumNext ==
    /\ UNCHANGED which
    /\ IF which = "peers" THEN Next ELSE UNCHANGED vars
    /\ IF which = "evict" THEN Evict!Next ELSE UNCHANGED evictVars
    /\ IF which = "serial" THEN Serial!Next ELSE UNCHANGED serialVars
    /\ IF which = "cat" THEN Cat!Next ELSE UNCHANGED catVars
    /\ IF which = "broker" THEN Broker!Next ELSE UNCHANGED brokerVars
    /\ IF which = "cw" THEN Cw!Next ELSE UNCHANGED cwVars

sumVars == <<
    which, vars, evictVars, serialVars, catVars, brokerVars, cwVars >>

SumSpec == SumInit /\ [][SumNext]_sumVars

UdpSymmetry == Permutations(Addrs) \cup Permutations(Sids)

\* One exchange takes nothing of another: a serial one never reads what arrived before
\* it, and one that fails leaves nothing behind (SerialCatSession::execute); a UDP call
\* is completed once also when the server has forgotten its answer, and the cache that
\* forgot it still agrees with its queue (UdpCatSession::execute, DedupCache::insert).
ExchangesStayApart ==
    /\ which = "serial" => Serial!NothingStaleIsRead /\ Serial!FailureStaysInside
    /\ which = "evict" => Evict!CompletedOnce /\ Evict!CacheConsistent

\* A command routed by the table reaches the radio as it was written, its answer is
\* read to the last byte, and the value read out is the value reported.
CatMeansTheSame ==
    which = "cat" => Cat!ForwardedMeansTheSame /\ Cat!NothingLeftUnread /\ Cat!ValueAsReported

\* Once the arm is taken the broker's line falls silent but for what was queued
\* before, no release line is driven after the lines were closed, and the line never
\* goes up for a caller that has been answered (broker.rs submit, release.rs).
LinesFallSilent ==
    /\ [](which = "broker" => Broker!FallsSilent /\ Broker!NoReleaseAfterClose)
    /\ [][which = "broker" => Broker!KeyedBeforeTold]_sumVars

\* On Linux no external client has the radio keyed while a console is armed, the
\* keyer's speed does not change under the arm, and the server returns with the radio
\* restored or says that it is not (ptt_gate.rs transmit, native_bridge.rs pump_once,
\* lib.rs settle_cw).
GateHolds ==
    /\ [](which = "cw" => Cw!GateHolds /\ Cw!ReturnedRestored)
    /\ [][which = "cw" => Cw!SpeedFixedUnderArm]_sumVars
=============================================================================
