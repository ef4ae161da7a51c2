----------------------------- MODULE ServerRun -----------------------------
(***************************************************************************)
(* cat_rigctl::run and run_with_native (cat-rigctl/src/lib.rs), both        *)
(* builds: the listeners are bound in the build's order, each serves from   *)
(* then on, the pump starts, and the call waits for the first end of a      *)
(* listener or for the stop handle, settles CW and returns.                 *)
(*                                                                          *)
(* A console reaches the pump as soon as its listener serves: the CW arm    *)
(* it may take is here one variable, its whole life is in CwServer.         *)
(***************************************************************************)
EXTENDS Integers, Sequences, FiniteSets, SequencesExt

CONSTANTS
    Platforms   \* of "linux", "windows"

VARIABLES
    platform,
    ports,      \* ServerConfig: the listeners asked for
    native,     \* the caller passed a NativeShared
    toBind,     \* listeners still to be bound, in order
    serving,    \* listeners that serve
    pump,       \* the pump runs
    stopped,    \* StopHandle
    stopSeen,   \* the stop task has looked since
    ended,      \* listeners whose serve returned, with an error
    cw,         \* "idle", "armed"
    shutdown,   \* the shutdown latch: no arm any more
    phase,      \* "binding", "waiting", "settling", "returned"
    outcome     \* what was returned: "none", "ok", "bind", "nothing asked", "listener"

runVars == <<platform, ports, native, toBind, serving, pump, stopped, stopSeen, ended, cw, shutdown, phase, outcome>>

Listeners == {"tcp", "udp", "rigctl", "console"}

\* The order the ports are bound in.
BindOrder == IF platform = "linux" THEN <<"tcp", "udp", "rigctl", "console">> ELSE <<"console", "tcp", "udp", "rigctl">>

\* What the wait ends on: on Linux the console listener is a thread outside `tasks`.
Watched == (IF platform = "linux" THEN serving \ {"console"} ELSE serving) \cup {"stop"}

ServingConsoles == native /\ "console" \in ports

RunInit ==
    /\ platform \in Platforms /\ ports \in SUBSET Listeners /\ native \in BOOLEAN
    /\ toBind = SelectSeq(BindOrder, LAMBDA l : IF l = "console" THEN ServingConsoles ELSE l \in ports)
    /\ serving = {} /\ ended = {} /\ cw = "idle" /\ shutdown = FALSE /\ stopped = FALSE /\ stopSeen = FALSE
    /\ pump = (platform = "windows" /\ ServingConsoles)
    /\ phase = "binding" /\ outcome = "none"

\* One port is bound and its listener started, or the bind fails and `?` returns.
Bind ==
    /\ phase = "binding" /\ toBind # <<>>
    /\ \/ /\ serving' = serving \cup {Head(toBind)} /\ toBind' = Tail(toBind)
          /\ UNCHANGED <<phase, outcome>>
       \/ /\ phase' = "returned" /\ outcome' = "bind"
          /\ UNCHANGED <<serving, toBind>>
    /\ UNCHANGED <<platform, ports, native, pump, stopped, stopSeen, ended, cw, shutdown>>

\* All are bound: the Linux pump is spawned, then the wait, or the refusal of nothing to do.
Bound ==
    /\ phase = "binding" /\ toBind = <<>>
    /\ pump' = ServingConsoles
    /\ IF serving = {} THEN phase' = "returned" /\ outcome' = "nothing asked"
       ELSE phase' = "waiting" /\ UNCHANGED outcome
    /\ UNCHANGED <<platform, ports, native, toBind, serving, stopped, stopSeen, ended, cw, shutdown>>

\* A console arms and disarms through the pump.
ConsoleArms ==
    /\ "console" \in serving \ ended /\ pump /\ cw = "idle" /\ ~shutdown
    /\ cw' = "armed"
    /\ UNCHANGED <<platform, ports, native, toBind, serving, pump, stopped, stopSeen, ended, shutdown, phase, outcome>>

Disarms ==
    /\ cw = "armed" /\ cw' = "idle"
    /\ UNCHANGED <<platform, ports, native, toBind, serving, pump, stopped, stopSeen, ended, shutdown, phase, outcome>>

\* A listener's accept or receive fails for good.
ListenerFails ==
    /\ \E l \in serving \ ended : ended' = ended \cup {l}
    /\ UNCHANGED <<platform, ports, native, toBind, serving, pump, stopped, stopSeen, cw, shutdown, phase, outcome>>

\* StopHandle::stop, at any time, and the task that polls it.
Stop ==
    /\ ~stopped /\ stopped' = TRUE
    /\ UNCHANGED <<platform, ports, native, toBind, serving, pump, stopSeen, ended, cw, shutdown, phase, outcome>>

PollStop ==
    /\ phase = "waiting" /\ stopped /\ ~stopSeen
    /\ stopSeen' = TRUE
    /\ UNCHANGED <<platform, ports, native, toBind, serving, pump, stopped, ended, cw, shutdown, phase, outcome>>

\* select_all, done_rx.recv: the first of the watched to end ends the wait.
FirstEnds ==
    /\ phase = "waiting"
    /\ \/ "stop" \in Watched /\ stopSeen /\ outcome' = "ok"
       \/ Watched \cap ended # {} /\ outcome' = "listener"
    /\ phase' = "settling"
    /\ UNCHANGED <<platform, ports, native, toBind, serving, pump, stopped, stopSeen, ended, cw, shutdown>>

\* Mutant of Settle: the latch is set and the call returns without waiting.
SettleNoWait ==
    /\ phase = "settling" /\ phase' = "returned" /\ shutdown' = TRUE
    /\ UNCHANGED <<platform, ports, native, toBind, serving, pump, stopped, stopSeen, ended, cw, outcome>>

\* settle_cw, settle_cw_blocking: stop, restore, return.
Settle ==
    /\ phase = "settling" /\ phase' = "returned"
    /\ shutdown' = TRUE /\ cw' = "idle"
    /\ UNCHANGED <<platform, ports, native, toBind, serving, pump, stopped, stopSeen, ended, outcome>>

RunNext ==
    Bind \/ Bound \/ ConsoleArms \/ Disarms \/ ListenerFails \/ Stop \/ PollStop \/ FirstEnds \/ Settle

RunFairness == WF_runVars(Bind \/ Bound) /\ WF_runVars(PollStop) /\ WF_runVars(FirstEnds) /\ WF_runVars(Settle)

RunSpec == RunInit /\ [][RunNext]_runVars /\ RunFairness

-----------------------------------------------------------------------------
\* "The server is ending. Stop any CW send and restore the radio before
\* returning, so no radio repo has to remember to": however the call returns,
\* a port that cannot be bound included, no console's arm outlives it.
ReturnedUnarmed == phase = "returned" => cw = "idle"

\* A stop ends the server, whichever listeners it has and whatever has become
\* of them.
StopReturns == stopped ~> (phase = "returned")

\* "run until one of them fails": a listener that fails ends the server.
ListenerFailureEnds == (ended # {}) ~> (phase = "returned")
=============================================================================
