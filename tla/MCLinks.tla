------------------------------- MODULE MCLinks -------------------------------
(***************************************************************************)
(* The links below a CAT session, each on a small instance: the completion *)
(* every Windows worker answers through (Completion, with the constants of *)
(* the .cfg), the TCP transport, the Telnet codec and the RFC 2217 port    *)
(* that speaks it, the local serial ports and the diagnostics that probe a *)
(* radio through them.  They share no state: one of them runs, the others  *)
(* stay in an initial state.                                               *)
(***************************************************************************)
EXTENDS Completion

VARIABLES
    which,   \* the part that runs
    tcp_backend, req, awaiting, cancels, jobs, tcp_at, tcp_got, tcp_up, tcp_down, open, srv,
    serving, active,
    said, rest, decoder, heard,
    port, rfc2217_up, rfc2217_down, issued, saw, reader, inbox, waiter, closed, modem,
    modemSeen, radioSent, rfc2217_got, peer, levels, changes,
    serial_backend, device, config, before, stage, flags, dtr, handle, serial_sender, ops,
    worker,
    table, probes_at, waiting, requests, owed, unread, outcomes

\* Data, an escaped byte, a negotiation, port settings, and what the codec rejects.
WireSaid == {
    [kind |-> "data", bytes |-> <<59>>], [kind |-> "data", bytes |-> <<255, 240>>],
    [kind |-> "negotiate", verb |-> 253, option |-> 0],
    [kind |-> "com", command |-> 1, params |-> <<0, 0, 255, 240>>],
    [kind |-> "com", command |-> 5, params |-> <<8>>],
    [kind |-> "other", option |-> 24, body |-> <<255>>], [kind |-> "broken"] }

\* Tables of three commands: a plain query, a selector read, a set that only looks
\* like a read, and a query the definition does not call readable.
Form(lo, hi, reads) == [min |-> lo, max |-> hi, selector |-> reads]
ProbeDefs == {
    [query |-> {Form(0, 0, FALSE)}, set |-> {Form(11, 11, FALSE)}, readable |-> TRUE],
    [query |-> {}, set |-> {Form(1, 1, TRUE)}, readable |-> TRUE],
    [query |-> {}, set |-> {Form(1, 1, FALSE)}, readable |-> TRUE],
    [query |-> {Form(0, 0, FALSE)}, set |-> {}, readable |-> FALSE] }
ProbeTables == {<<a, b, c>> : a, b, c \in ProbeDefs}

Tcp == INSTANCE TcpExchange WITH
    Backends <- {"linux", "windows"}, MaxRequests <- 3, MaxCancels <- 2,
    backend <- tcp_backend, at <- tcp_at, got <- tcp_got, up <- tcp_up, down <- tcp_down

Codec == INSTANCE Telnet WITH
    Said <- WireSaid, MaxSaid <- 2

Port == INSTANCE Rfc2217 WITH
    DataBytes <- {59}, MaxWrites <- 2, MaxRadio <- 1, MaxLines <- 1, Lines <- {"CTS"},
    up <- rfc2217_up, down <- rfc2217_down, got <- rfc2217_got

Serial == INSTANCE SerialPorts WITH
    Rates <- {9600, 9601}, DataBits <- 4..9, StopBits <- 0..3, MaxOps <- 2,
    backend <- serial_backend, sender <- serial_sender

Probes == INSTANCE Diagnostics WITH
    Tables <- ProbeTables,
    at <- probes_at

tcpVars ==
    <<tcp_backend, req, awaiting, cancels, jobs, tcp_at, tcp_got, tcp_up, tcp_down, open, srv,
      serving, active>>
telnetVars ==
    <<said, rest, decoder, heard>>
rfc2217Vars ==
    <<port, rfc2217_up, rfc2217_down, issued, saw, reader, inbox, waiter, closed, modem,
      modemSeen, radioSent, rfc2217_got, peer, levels, changes>>
serialVars ==
    <<serial_backend, device, config, before, stage, flags, dtr, handle, serial_sender, ops,
      worker>>
probesVars ==
    <<table, probes_at, waiting, requests, owed, unread, outcomes>>

Parts == {"completion", "tcp", "telnet", "rfc2217", "serial", "probes"}

SumInit ==
    /\ which \in Parts
    /\ Init
    /\ IF which = "tcp" THEN Tcp!Init ELSE (tcp_backend = "linux") /\ Tcp!Init
    /\ IF which = "telnet" THEN Codec!Init ELSE (said = <<>>) /\ Codec!Init
    /\ IF which = "rfc2217" THEN Port!Init ELSE (levels = {}) /\ Port!Init
    /\ IF which = "serial" THEN Serial!Init ELSE (serial_backend = "windows" /\ before = {"BITS8"}
                             /\ config = [baud |-> 9600, data |-> 8, stop |-> 1, parity |-> "none",
                                          flow |-> "none", dtr |-> FALSE]) /\ Serial!Init
    /\ IF which = "probes" THEN Probes!DiagnosticsInit ELSE (table = CHOOSE t \in ProbeTables : TRUE) /\ Probes!DiagnosticsInit

SumNext ==
    /\ UNCHANGED which
    /\ IF which = "completion" THEN Next ELSE UNCHANGED vars
    /\ IF which = "tcp" THEN Tcp!Next ELSE UNCHANGED tcpVars
    /\ IF which = "telnet" THEN Codec!Next ELSE UNCHANGED telnetVars
    /\ IF which = "rfc2217" THEN Port!Next ELSE UNCHANGED rfc2217Vars
    /\ IF which = "serial" THEN Serial!Next ELSE UNCHANGED serialVars
    /\ IF which = "probes" THEN Probes!DiagnosticsNext ELSE UNCHANGED probesVars

sumVars == <<
    which, vars, tcpVars, telnetVars, rfc2217Vars, serialVars, probesVars >>

SumSpec == SumInit /\ [][SumNext]_sumVars

\* Whoever waits is woken by its own answer: a wake-up that belongs to an earlier
\* request resolves nothing (Completion), and a TCP answer belongs to the request whose
\* caller is given it, although frames carry no number (TcpCatSession::execute).
WokenByItsOwn == NotResolvedByOthers /\ (which = "tcp" => Tcp!TcpAnswersItsOwn)

\* What one end of an RFC 2217 connection says the other hears: the decoder yields
\* the events sent however the bytes are cut, and the far port sees the settings,
\* lines and data in the order the near one issued them.
FarEndHears ==
    /\ which = "telnet" => Codec!HeardAsSaid
    /\ which = "rfc2217" => Port!FarPortFollows

\* A local port that opened has the configured framing whatever the device was left
\* in, and no worker touches a handle that was closed.
PortsAreAsConfigured ==
    which = "serial" => Serial!OpenedAsConfigured /\ Serial!NoIoOnClosedHandle

\* The diagnostics engine never probes with a form that sets, and what waits when a
\* probe reads arrived during that probe.
ProbesReadTheirOwn == which = "probes" => Probes!ProbesReadTheirOwn

\* Whoever waits is released: every completion resolves, every TCP execute returns and
\* a hang-up unregisters the peer, an RFC 2217 port hears all that was sent and its
\* drop reaches the far end, a dropped serial port closes its handle, and a
\* diagnostics report reaches the end of the table.
EveryExchangeEnds ==
    /\ which = "completion" /\ Fairness => AlwaysResolves
    /\ which = "tcp" /\ Tcp!Fairness => Tcp!ExecuteEnds /\ Tcp!HangUpUnregisters
    /\ which = "rfc2217" /\ Port!Fairness => Port!PortComesToRest /\ Port!DropReachesPeer
    /\ which = "serial" /\ Serial!Fairness => Serial!DropEnds
    /\ which = "probes" /\ Probes!DiagnosticsFairness => Probes!ReportCompletes
=============================================================================
