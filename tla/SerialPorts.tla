---------------------------- MODULE SerialPorts ----------------------------
(***************************************************************************)
(* Opening, configuring and closing a serial port on the two platforms.    *)
(* Both start from the settings the device already has and must end with   *)
(* the ones `SerialConfig` asks for, whatever was set before; both leave   *)
(* DTR, which is the PTT line on many stations, as the configuration says; *)
(* and the Windows port closes its handle only when its worker thread,     *)
(* which reads and writes through it, has ended.                           *)
(*                                                                         *)
(* Sources: cat-transport-serial/src/io_uring.rs, windows.rs, config.rs,   *)
(* baud.rs.                                                                *)
(***************************************************************************)
EXTENDS Naturals, Sequences

CONSTANTS
    Rates, DataBits, StopBits,   \* the values tried for the fields
    MaxOps                       \* operations queued at the Windows worker

VARIABLES
    backend,   \* "linux" or "windows"
    device,    \* "tty", or "pty" which has no modem lines
    config,    \* the SerialConfig asked for
    before,    \* the settings found on the device
    stage,     \* how far open has come: "closed", "opened", "configured", "open", "failed", "dropping"
    flags,     \* the settings of the device, as the platform names them
    dtr,       \* the DTR line
    handle,    \* whether the handle is open
    sender,    \* whether the worker's request channel has its sender
    ops,       \* requests queued at the worker
    worker     \* "none", "recv", "io", "gone"

vars == <<backend, device, config, before, stage, flags, dtr, handle, sender,
          ops, worker>>

SupportedBaudRates == {1200, 2400, 4800, 9600, 19200, 38400, 57600, 115200, 230400}

Config == [baud : Rates, data : DataBits, stop : StopBits,
           parity : {"none", "even", "odd"},
           flow : {"none", "software", "hardware"}, dtr : BOOLEAN]

-----------------------------------------------------------------------------
(* The platforms' settings: a set of named flags. *)

LinuxFlags   == {"CS5", "CS6", "CS7", "CS8", "CSTOPB", "PARENB", "PARODD",
                 "CRTSCTS", "IXON", "IXOFF"}
WindowsFlags == {"BITS5", "BITS6", "BITS7", "BITS8", "TWOSTOPBITS", "fParity",
                 "EVENPARITY", "ODDPARITY", "fOutxCtsFlow", "RtsHandshake",
                 "fInX", "fOutX"}

\* What a device may be found with: each bit on or off on its own, except
\* that one character size and at most one parity is set.
Found(b) == IF b = "linux"
    THEN {{"CS8"}, {"CS5", "CSTOPB", "PARENB", "PARODD", "CRTSCTS"},
          {"CS7", "PARENB", "IXON", "IXOFF"}}
    ELSE {{"BITS8"}, {"BITS5", "TWOSTOPBITS", "fParity", "ODDPARITY",
                      "fOutxCtsFlow", "RtsHandshake"},
          {"BITS7", "fParity", "EVENPARITY", "fInX", "fOutX"}}

If(cond, f) == IF cond THEN f ELSE {}

\* `configure_termios`: cfmakeraw, then each field clears and sets its bits.
MakeRaw(f) == (f \ {"CS5", "CS6", "CS7", "PARENB", "IXON"}) \cup {"CS8"}

\* A mutant of ParityFlags: even parity does not clear what odd has set.
ParityFlagsKeepsOdd(f, c) ==
    IF c.parity = "none" THEN f \ {"PARENB", "PARODD"}
    ELSE f \cup {"PARENB"} \cup If(c.parity = "odd", {"PARODD"})

ParityFlags(f, c) ==
    (f \ {"PARENB", "PARODD"}) \cup
    If(c.parity # "none", {"PARENB"}) \cup If(c.parity = "odd", {"PARODD"})

ConfigureTermios(f, c) ==
    LET raw   == MakeRaw(f)
        sized == (raw \ {"CS5", "CS6", "CS7", "CS8"}) \cup
                 (CASE c.data = 5 -> {"CS5"} [] c.data = 6 -> {"CS6"}
                    [] c.data = 7 -> {"CS7"} [] OTHER -> {"CS8"})
        stops == IF c.stop >= 2 THEN sized \cup {"CSTOPB"} ELSE sized \ {"CSTOPB"}
    IN  (ParityFlags(stops, c) \ {"CRTSCTS", "IXON", "IXOFF"}) \cup
        If(c.flow = "hardware", {"CRTSCTS"}) \cup If(c.flow = "software", {"IXON", "IXOFF"})

\* `configure_dcb`: GetCommState, the fields of the DCB, SetCommState.
ConfigureDcb(f, c) ==
    LET rest == f \ (WindowsFlags \ {"BITS5", "BITS6", "BITS7", "BITS8"})
        size == CASE c.data = 5 -> {"BITS5"} [] c.data = 6 -> {"BITS6"}
                  [] c.data = 7 -> {"BITS7"} [] OTHER -> {"BITS8"}
    IN  (rest \ {"BITS5", "BITS6", "BITS7", "BITS8"}) \cup size \cup
        If(c.stop >= 2, {"TWOSTOPBITS"}) \cup
        (CASE c.parity = "none" -> {} [] c.parity = "even" -> {"fParity", "EVENPARITY"}
           [] c.parity = "odd" -> {"fParity", "ODDPARITY"}) \cup
        (CASE c.flow = "none" -> {} [] c.flow = "hardware" -> {"fOutxCtsFlow", "RtsHandshake"}
           [] c.flow = "software" -> {"fInX", "fOutX"})

-----------------------------------------------------------------------------
TypeOK ==
    /\ backend \in {"linux", "windows"} /\ device \in {"tty", "pty"}
    /\ config \in Config
    /\ flags \subseteq LinuxFlags \cup WindowsFlags
    /\ stage \in {"closed", "opened", "configured", "open", "failed", "dropping"}
    /\ dtr \in BOOLEAN /\ handle \in BOOLEAN /\ sender \in BOOLEAN
    /\ ops \in 0..MaxOps /\ worker \in {"none", "recv", "io", "gone"}

Init ==
    /\ backend \in {"linux", "windows"}
    /\ device \in IF backend = "linux" THEN {"tty", "pty"} ELSE {"tty"}
    /\ config \in Config
    /\ before \in Found(backend)
    /\ stage = "closed" /\ flags = before /\ dtr = FALSE
    /\ handle = FALSE /\ sender = FALSE /\ ops = 0 /\ worker = "none"

\* `OpenOptions::open` or `CreateFileW`.  Linux raises DTR on open.
OpenDevice ==
    /\ stage = "closed"
    /\ \/ /\ stage' = "opened" /\ handle' = TRUE
          /\ dtr' = (backend = "linux" /\ device = "tty")
       \/ stage' = "failed" /\ UNCHANGED <<handle, dtr>>
    /\ UNCHANGED <<backend, device, config, before, flags, sender, ops, worker>>

\* The configuration is applied, or is refused: an unsupported rate, or a
\* call that fails.  On failure the handle is closed.  DTR_CONTROL_ENABLE
\* raises DTR on Windows.
Configure ==
    /\ stage = "opened"
    /\ \/ /\ config.baud \in SupportedBaudRates
          /\ stage' = "configured"
          /\ flags' = IF backend = "linux" THEN ConfigureTermios(flags, config)
                                           ELSE ConfigureDcb(flags, config)
          /\ dtr' = (dtr \/ backend = "windows")
          /\ UNCHANGED handle
       \/ stage' = "failed" /\ handle' = FALSE /\ dtr' = FALSE /\ UNCHANGED flags
    /\ UNCHANGED <<backend, device, config, before, sender, ops, worker>>

\* `set_dtr(config.initial_dtr)`; a device without lines ignores it.
DriveDtr(now) == IF device = "tty" THEN config.dtr ELSE now

\* The worker thread is spawned (Windows) and the lines are driven to the
\* configured state.
FinishOpen ==
    /\ stage = "configured"
    /\ stage' = "open" /\ dtr' = DriveDtr(dtr)
    /\ IF backend = "windows" THEN sender' = TRUE /\ worker' = "recv"
                              ELSE UNCHANGED <<sender, worker>>
    /\ UNCHANGED <<backend, device, config, before, flags, handle, ops>>

\* `read` and `write` on Windows queue a request; its caller may be gone by
\* the time the worker runs it.
RequestIo ==
    /\ stage = "open" /\ backend = "windows" /\ ops < MaxOps
    /\ ops' = ops + 1
    /\ UNCHANGED <<backend, device, config, before, stage, flags, dtr, handle,
                   sender, worker>>

\* `worker_loop`: runs the requests in order, and ends when there is none and
\* the sender is gone.
WorkerRecv ==
    /\ worker = "recv"
    /\ \/ ops > 0 /\ ops' = ops - 1 /\ worker' = "io"
       \/ ops = 0 /\ ~sender /\ worker' = "gone" /\ UNCHANGED ops
    /\ UNCHANGED <<backend, device, config, before, stage, flags, dtr, handle,
                   sender>>

WorkerReplies ==
    /\ worker = "io" /\ worker' = "recv"
    /\ UNCHANGED <<backend, device, config, before, stage, flags, dtr, handle,
                   sender, ops>>

\* `Drop`: the sender goes first, ...
DropSender ==
    /\ stage = "open"
    /\ stage' = "dropping" /\ sender' = FALSE
    /\ UNCHANGED <<backend, device, config, before, flags, dtr, handle, ops, worker>>

\* ... then the worker is joined, then the handle is closed.
CloseHandle ==
    /\ stage = "dropping" /\ handle
    /\ worker \in {"none", "gone"}
    /\ handle' = FALSE
    /\ UNCHANGED <<backend, device, config, before, stage, flags, dtr, sender,
                   ops, worker>>

Next ==
    \/ OpenDevice \/ Configure \/ FinishOpen \/ RequestIo
    \/ WorkerRecv \/ WorkerReplies \/ DropSender \/ CloseHandle

\* The worker's calls have their own timeouts, and a join waits for nothing
\* but the worker.
Fairness == WF_vars(WorkerRecv) /\ WF_vars(WorkerReplies) /\ WF_vars(CloseHandle)

Spec == Init /\ [][Next]_vars /\ Fairness

-----------------------------------------------------------------------------
(* Properties. *)

\* What the settings of each platform mean.
Meaning ==
    IF backend = "linux"
    THEN [data |-> CASE "CS5" \in flags -> 5 [] "CS6" \in flags -> 6
                     [] "CS7" \in flags -> 7 [] OTHER -> 8,
          stop |-> IF "CSTOPB" \in flags THEN 2 ELSE 1,
          parity |-> IF "PARENB" \notin flags THEN "none"
                     ELSE IF "PARODD" \in flags THEN "odd" ELSE "even",
          flow |-> <<"CRTSCTS" \in flags, {"IXON", "IXOFF"} \subseteq flags>>]
    ELSE [data |-> CASE "BITS5" \in flags -> 5 [] "BITS6" \in flags -> 6
                     [] "BITS7" \in flags -> 7 [] OTHER -> 8,
          stop |-> IF "TWOSTOPBITS" \in flags THEN 2 ELSE 1,
          parity |-> IF "fParity" \notin flags THEN "none"
                     ELSE IF "ODDPARITY" \in flags THEN "odd" ELSE "even",
          flow |-> <<"fOutxCtsFlow" \in flags, {"fInX", "fOutX"} \subseteq flags>>]

\* An open port has the settings asked for, on either platform and whatever
\* it was found with, and DTR is where the configuration says (io_uring.rs
\* configure_termios, windows.rs configure_dcb, and open on both).
OpenedAsConfigured ==
    stage = "open" =>
        /\ Meaning = [data |-> IF config.data \in 5..7 THEN config.data ELSE 8,
                      stop |-> IF config.stop >= 2 THEN 2 ELSE 1,
                      parity |-> config.parity,
                      flow |-> <<config.flow = "hardware", config.flow = "software">>]
        /\ config.baud \in SupportedBaudRates
        /\ dtr = (config.dtr /\ device = "tty")

\* The handle is never closed under the worker (windows.rs, Drop).
NoIoOnClosedHandle == worker \in {"recv", "io"} => handle

\* Dropping a port ends: the worker sees that the sender is gone and the join
\* returns (windows.rs, Drop).
DropEnds == stage = "dropping" ~> ~handle
=============================================================================
