------------------------------ MODULE MCService ------------------------------
(***************************************************************************)
(* The server and what talks to it, each on a small instance: the command  *)
(* queue of the state bridge, the broker, a rigctl connection, the server  *)
(* run itself, a native console link, CW served to a console, an audio     *)
(* capture, and the console.  They share no state: one of them runs, the   *)
(* others stay in an initial state.                                        *)
(***************************************************************************)
EXTENDS Integers

VARIABLES
    which,   \* the part that runs
    queue_radio, known, cached, age, assumed, generation, op, stage, ok, sets, skipped,
    queue_queue, cmd, queue_told, queue_phase, batch, results, queue_asked, sample, pollGen,
    pollAge, writer, order, applied, deaf, unseen, pollUnseen, seenAge, pollSeenAge,
    broker_backend, broker_queue, worker, lines, lock, broker_line, armed, arms, handles,
    broker_calls, wait, broker_slot, broker_told,
    rigctl_radio, rigctl_wire, buf, pc, rigctl_line, reply, rigctl_calls, back, rigctl_asked,
    waiting, got, hung,
    platform, ports, native, toBind, serving, run_pump, run_stopped, stopSeen, run_ended,
    run_cw, shutdown, run_phase, outcome,
    front, want, servesCw, offersDevices, version, newest, hostHas, attached, srv, session,
    unread, command, lastSent, up, down, cli, capCw, commands, inbox, link_slot, sinks,
    link_dropped, sent, answers, seen,
    cw_backend, con, cw_told, cw_asked, tickets, waiters, box, arm, act, owner, ticket,
    thenRestore, plan, outstanding, shutting, snap, notices, poisoned, abortReq, cw_stopped,
    stopOwed, speed, cw_pump, routing, cw_queue, rig, clamped, keying, ext, server, unsettled,
    capture_capture, device, format, running, pushed, ring, closed, overruns, stop, params,
    reader, block, buffer, heard, sequence, frame, capture_ended, capture_dropped, collected,
    console_link, made, alive, host, console_wire, events, dial, console_cw, offer, pending,
    changes

\* A radio with tuning steps, RIT and XIT, and one with a filter and none of them.
RigctlRadios == {
    [hz |-> 30, steps |-> <<10, 100>>, filters |-> <<>>, rit |-> 99, xit |-> 99],
    [hz |-> 30, steps |-> <<>>, filters |-> <<500>>, rit |-> 0, xit |-> 0] }

\* A card that runs at its own rate.
SoundCard == [offers |-> {[channels |-> 2, min |-> 44, max |-> 44, rank |-> 0]}, channels |-> 2, rate |-> 44]

Queue == INSTANCE StateCache WITH
    Clients <- {}, Pump <- "pump", Cmds <- {"x", "y", "z"}, Other <- "other",
    Fields <- {"freq", "split"}, Values <- {"v"}, NoValue <- "none", MaxSets <- 0,
    PanelMoves <- FALSE, DeafSets <- FALSE, LostAcks <- FALSE, ReadsFail <- FALSE,
    TimePasses <- FALSE,
    radio <- queue_radio, queue <- queue_queue, told <- queue_told, phase <- queue_phase, asked
    <- queue_asked

Broker == INSTANCE Broker WITH
    Listeners <- {"l"}, Operators <- {"o"}, Backends <- {"linux", "windows"}, MaxCalls <- 1,
    MaxArms <- 1,
    backend <- broker_backend, queue <- broker_queue, line <- broker_line, calls <-
    broker_calls, slot <- broker_slot, told <- broker_told

Rigctl == INSTANCE Rigctl WITH
    Commands <- {"f", "s", "F", "T", "bareF", "blank", "dump", "v", "q", "flood", "i"},
    Radios <- RigctlRadios, MaxLine <- 3, MaxCommands <- 2,
    radio <- rigctl_radio, wire <- rigctl_wire, line <- rigctl_line, calls <- rigctl_calls,
    asked <- rigctl_asked

Run == INSTANCE ServerRun WITH
    Platforms <- {"linux"},
    pump <- run_pump, stopped <- run_stopped, ended <- run_ended, cw <- run_cw, phase <-
    run_phase

Link == INSTANCE NativeLink WITH
    Fronts <- {"Connection", "Client"}, Streams <- {"spectrum"},
    Kinds <- {"ReadState", "AbortCw"}, MaxCommands <- 1, MaxVersions <- 1, MaxFrames <- 1,
    WireFrames <- 1,
    slot <- link_slot, dropped <- link_dropped

Cw == INSTANCE CwServer WITH
    Backends <- {"linux"}, Consoles <- {"c", "d"}, NoOne <- "none", MaxTickets <- 0,
    backend <- cw_backend, told <- cw_told, asked <- cw_asked, stopped <- cw_stopped, pump <-
    cw_pump, queue <- cw_queue

Capture == INSTANCE AudioCapture WITH
    Devices <- {SoundCard}, WantedHz <- 48, Channel <- 1, Capacity <- 2, Blocks <- {1},
    MaxPush <- 2, MaxSamples <- 2,
    capture <- capture_capture, ended <- capture_ended, dropped <- capture_dropped

Console == INSTANCE Console WITH
    Dials <- {1, 2}, MaxConnections <- 2, MaxChanges <- 2, MaxWire <- 2, MaxQueued <- 2,
    link <- console_link, wire <- console_wire, cw <- console_cw

queueVars ==
    <<queue_radio, known, cached, age, assumed, generation, op, stage, ok, sets, skipped,
      queue_queue, cmd, queue_told, queue_phase, batch, results, queue_asked, sample, pollGen,
      pollAge, writer, order, applied, deaf, unseen, pollUnseen, seenAge, pollSeenAge>>
brokerVars ==
    <<broker_backend, broker_queue, worker, lines, lock, broker_line, armed, arms, handles,
      broker_calls, wait, broker_slot, broker_told>>
rigctlVars ==
    <<rigctl_radio, rigctl_wire, buf, pc, rigctl_line, reply, rigctl_calls, back, rigctl_asked,
      waiting, got, hung>>
runVars ==
    <<platform, ports, native, toBind, serving, run_pump, run_stopped, stopSeen, run_ended,
      run_cw, shutdown, run_phase, outcome>>
linkVars ==
    <<front, want, servesCw, offersDevices, version, newest, hostHas, attached, srv, session,
      unread, command, lastSent, up, down, cli, capCw, commands, inbox, link_slot, sinks,
      link_dropped, sent, answers, seen>>
cwVars ==
    <<cw_backend, con, cw_told, cw_asked, tickets, waiters, box, arm, act, owner, ticket,
      thenRestore, plan, outstanding, shutting, snap, notices, poisoned, abortReq, cw_stopped,
      stopOwed, speed, cw_pump, routing, cw_queue, rig, clamped, keying, ext, server, unsettled>>
captureVars ==
    <<capture_capture, device, format, running, pushed, ring, closed, overruns, stop, params,
      reader, block, buffer, heard, sequence, frame, capture_ended, capture_dropped, collected>>
consoleVars ==
    <<console_link, made, alive, host, console_wire, events, dial, console_cw, offer, pending,
      changes>>

Parts == {"queue", "broker", "rigctl", "run", "link", "cw", "capture", "console"}

SumInit ==
    /\ which \in Parts
    /\ Queue!Init
    /\ IF which = "broker" THEN Broker!Init ELSE (broker_backend = "linux" /\ lines = "none") /\ Broker!Init
    /\ IF which = "rigctl" THEN Rigctl!Init ELSE (rigctl_radio = CHOOSE r \in RigctlRadios : TRUE) /\ Rigctl!Init
    /\ IF which = "run" THEN Run!RunInit ELSE (ports = {} /\ native = FALSE) /\ Run!RunInit
    /\ IF which = "link" THEN Link!Init ELSE (front = "Client" /\ want = {} /\ servesCw = FALSE /\ offersDevices = FALSE) /\ Link!Init
    /\ Cw!Init
    /\ IF which = "capture" THEN Capture!Init ELSE (device = SoundCard) /\ Capture!Init
    /\ Console!ConsoleInit

SumNext ==
    /\ UNCHANGED which
    /\ IF which = "queue" THEN Queue!Next ELSE UNCHANGED queueVars
    /\ IF which = "broker" THEN Broker!Next ELSE UNCHANGED brokerVars
    /\ IF which = "rigctl" THEN Rigctl!Next ELSE UNCHANGED rigctlVars
    /\ IF which = "run" THEN Run!RunNext ELSE UNCHANGED runVars
    /\ IF which = "link" THEN Link!Next ELSE UNCHANGED linkVars
    /\ IF which = "cw" THEN Cw!Next ELSE UNCHANGED cwVars
    /\ IF which = "capture" THEN Capture!Next ELSE UNCHANGED captureVars
    /\ IF which = "console" THEN Console!ConsoleNext ELSE UNCHANGED consoleVars

sumVars == <<
    which, queueVars, brokerVars, rigctlVars, runVars, linkVars, cwVars, captureVars,
    consoleVars >>

SumSpec == SumInit /\ [][SumNext]_sumVars

\* A queued command that a later one for the same control replaced is answered
\* Superseded and never reaches the radio, and the others reach it in the order they
\* were queued, with the queue and the cache well formed throughout (native_bridge.rs
\* enqueue, take_queued).
LastInWins ==
    which = "queue" => Queue!TypeOK /\ Queue!SupersededNeverApplied /\ Queue!AppliedInOrder

\* A rigctl client that counts reply lines stays in step with the server, and a set
\* that reached the radio is not sent again (protocol.rs).
RigctlInStep == which = "rigctl" => Rigctl!RepliesInStep /\ Rigctl!SetsNeverRetried

\* The server returns with no radio left armed (run, on Linux).
ReturnedUnarmed == which = "run" => Run!ReturnedUnarmed

\* Whoever asked the server for something is answered, and what was told to stop
\* stops: queued commands, broker calls, rigctl lines and the stop itself; a console
\* that hangs up is detached, an abort after a poisoned supervisor stops the keyer, the
\* reader thread of a capture that is dropped or loses its card ends, and a console's
\* dial catches up with the host's.
EveryoneIsAnswered ==
    /\ which = "queue" /\ Queue!Fairness => Queue!EveryCommandAnswered
    /\ which = "broker" /\ Broker!Fairness => Broker!EveryCallReturns
    /\ which = "rigctl" /\ Rigctl!Fairness => Rigctl!CommandAnswered
    /\ which = "run" /\ Run!RunFairness => Run!StopReturns
    /\ which = "link" /\ Link!Fairness => Link!HangUpDetaches
    /\ which = "cw" /\ Cw!Fairness => Cw!AbortStopsAfterPoison
    /\ which = "capture" /\ Capture!Fairness => Capture!ReaderEnds
    /\ which = "console" /\ Console!ConsoleFairness => Console!DialCatchesUp
=============================================================================
