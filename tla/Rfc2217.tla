------------------------------ MODULE Rfc2217 -------------------------------
(***************************************************************************)
(* A serial port at the far end of a TCP connection: Rfc2217Port with its  *)
(* reader thread and its release lines, and Rfc2217Peer at the device      *)
(* server.  Every write holds the writer's lock and is one step.  The wire *)
(* carries decoded events: that bytes cut anywhere decode to the events    *)
(* sent is the subject of Telnet.                                          *)
(*                                                                         *)
(* Sources: cat-transport-rfc2217/src/port.rs, server.rs.                  *)
(***************************************************************************)
EXTENDS Integers, Sequences, SequencesExt

CONSTANTS
    DataBytes,     \* the bytes of CAT traffic
    MaxWrites,     \* CAT bytes and line changes of the client
    MaxRadio,      \* CAT bytes of the radio
    MaxLines,      \* changes of the modem lines
    Lines          \* the modem lines a client is told of

VARIABLES
    port,          \* "new", "open", "dropped"
    up, down,      \* the two directions of the socket
    issued, saw,   \* what the client did to the port, and what the device server saw of it
    reader,        \* the reader thread
    inbox, waiter, \* received bytes, and a suspended `read`: "none", "waiting", "woken"
    closed,
    modem, modemSeen,   \* the lines last notified
    radioSent, got,     \* what the radio sent, and what `read` returned
    peer,          \* Rfc2217Peer
    levels, changes

netVars == <<up, down>>
readVars == <<reader, inbox, waiter, closed, modem, modemSeen, got>>
peerVars == <<saw, peer, radioSent, levels, changes>>
vars == <<port, netVars, issued, readVars, peerVars>>

Init ==
    /\ port = "new" /\ up = <<>> /\ down = <<>> /\ issued = <<>> /\ saw = <<>>
    /\ reader = "none" /\ inbox = <<>> /\ waiter = "none" /\ closed = FALSE
    /\ modem = {} /\ modemSeen = FALSE /\ radioSent = <<>> /\ got = <<>>
    /\ peer = [dtr |-> FALSE, rts |-> TRUE, mask |-> {}, told |-> FALSE,
               last |-> {}, open |-> TRUE]
    /\ levels \in SUBSET Lines /\ changes = 0

-----------------------------------------------------------------------------
(* The client's port. *)

Event(kind, a, b) == [kind |-> kind, a |-> a, b |-> b, lines |-> {}]
DataEvent(b) == Event("data", b, "")
Negotiation(verb, option) == Event("negotiate", verb, option)
ComPort(command, value) == Event("com", command, value)
ModemLines(command, lines) == [ComPort(command, "lines") EXCEPT !.lines = lines]
Supported == {"BINARY", "COM_PORT"}

\* A mutant of Opening: the lines are left as the last client had them.
OpeningInherits ==
    <<Negotiation("WILL", "COM_PORT"), ComPort("SET_BAUDRATE", "set"),
      ModemLines("SET_MODEMSTATE_MASK", Lines)>>

\* The opening exchange: options, settings, flow control, and the lines last,
\* each said explicitly.  Suppress-go-ahead goes as binary does, and the data
\* size, parity and stop bits go as the baud rate does: one of each is kept.
Opening ==
    <<Negotiation("WILL", "BINARY"), Negotiation("DO", "BINARY"),
      Negotiation("WILL", "COM_PORT"),
      ComPort("SET_BAUDRATE", "set"),
      ComPort("SET_CONTROL", "FLOW_NONE"),
      ComPort("SET_CONTROL", "DTR_OFF"), ComPort("SET_CONTROL", "RTS_ON"),
      ModemLines("SET_MODEMSTATE_MASK", Lines)>>

\* connect: the reader is started, the opening sent, and the caller waits for
\* the first notification, or for 500 ms (Settled).
Connect ==
    /\ port = "new" /\ port' = "settling" /\ reader' = "run"
    /\ up' = Opening
    /\ issued' = <<<<"dtr", FALSE>>, <<"rts", TRUE>>>>
    /\ UNCHANGED <<down, inbox, waiter, closed, modem, modemSeen, got, peerVars>>

Settled ==
    /\ port = "settling" /\ port' = "open"
    /\ UNCHANGED <<netVars, issued, readVars, peerVars>>

Issue(what, event) ==
    /\ port = "open" /\ peer.open /\ Len(issued) < MaxWrites + 2
    /\ up' = Append(up, event) /\ issued' = Append(issued, what)
    /\ UNCHANGED <<port, down, readVars, peerVars>>
WriteByte(b) == Issue(<<"data", b>>, DataEvent(b))

\* set_dtr of the port or of its release lines, which share the writer.
SetDtr(on) == Issue(<<"dtr", on>>, ComPort("SET_CONTROL", IF on THEN "DTR_ON" ELSE "DTR_OFF"))

Shutdown == Event("shutdown", "", "")

\* Dropping the port shuts the socket down both ways, though the reader thread
\* still holds it.
DropPort ==
    /\ port = "open" /\ port' = "dropped"
    /\ up' = Append(up, Shutdown) /\ down' = <<Shutdown>>
    /\ UNCHANGED <<issued, readVars, peerVars>>

\* Transport::read: what is there, or the end of the link, or a place to be
\* woken, registered under the lock.
ReadPort ==
    /\ port = "open" /\ waiter \in {"none", "woken"}
    /\ \/ inbox # <<>> /\ got' = got \o inbox /\ inbox' = <<>> /\ waiter' = "none"
       \/ inbox = <<>> /\ ~closed /\ waiter' = "waiting" /\ UNCHANGED <<got, inbox>>
    /\ UNCHANGED <<port, netVars, issued, reader, closed, modem, modemSeen, peerVars>>

-----------------------------------------------------------------------------
(* The reader thread. *)

\* answer_negotiation: only what is not supported is answered, with a refusal.
Reply(e) ==
    CASE e.kind = "negotiate" /\ e.a = "DO" /\ e.b \notin Supported -> <<Negotiation("WONT", e.b)>>
      [] e.kind = "negotiate" /\ e.a = "WILL" /\ e.b \notin Supported -> <<Negotiation("DONT", e.b)>>
      [] OTHER -> <<>>

\* A mutant of Woken: nobody is told of the bytes.
WokenAtTheEnd(arrived) == waiter

\* The waiter is taken and told once bytes have been put in the inbox.
Woken(arrived) == IF waiter = "waiting" /\ arrived THEN "woken" ELSE waiter

Store(e) == modem' = e.lines /\ modemSeen' = TRUE

\* reader_loop: one event.
ReadSocket ==
    /\ reader = "run" /\ down # <<>> /\ Head(down) # Shutdown
    /\ LET e == Head(down)
           bytes == IF e.kind = "data" THEN <<e.a>> ELSE <<>>
       IN /\ inbox' = inbox \o bytes /\ waiter' = Woken(bytes # <<>>)
          /\ IF e.kind = "com" /\ e.a = "NOTIFY_MODEMSTATE"
             THEN Store(e) ELSE UNCHANGED <<modem, modemSeen>>
          /\ up' = up \o Reply(e)
    /\ down' = Tail(down)
    /\ UNCHANGED <<port, issued, reader, closed, got, peerVars>>

\* The end of the link wakes a suspended read too.
ReadEnd ==
    /\ reader = "run" /\ down # <<>> /\ Head(down) = Shutdown
    /\ reader' = "ended" /\ closed' = TRUE /\ waiter' = IF waiter = "waiting" THEN "woken" ELSE waiter
    /\ UNCHANGED <<port, netVars, issued, inbox, modem, modemSeen, got, peerVars>>

-----------------------------------------------------------------------------
(* The device server. *)

\* What the host program acts on: data, and the lines.
Seen(e) ==
    CASE e.kind = "data" -> <<<<"data", e.a>>>>
      [] e.kind = "com" /\ e.b = "DTR_ON" -> <<<<"dtr", TRUE>>>>
      [] e.kind = "com" /\ e.b = "DTR_OFF" -> <<<<"dtr", FALSE>>>>
      [] e.kind = "com" /\ e.b = "RTS_ON" -> <<<<"rts", TRUE>>>>
      [] OTHER -> <<>>

\* Settings and lines are confirmed with what was set; flow control with none.
Confirmation(e) ==
    CASE e.kind = "negotiate" /\ e.a = "WILL" ->
           <<Negotiation(IF e.b \in Supported THEN "DO" ELSE "DONT", e.b)>>
      [] e.kind = "negotiate" /\ e.a = "DO" ->
           <<Negotiation(IF e.b \in Supported THEN "WILL" ELSE "WONT", e.b)>>
      [] e.kind = "com" -> <<ComPort("confirmed", e.b)>>
      [] OTHER -> <<>>

\* handle_com_port's changes to the peer.
Handled(e) ==
    CASE e.kind = "com" /\ e.b \in {"DTR_ON", "DTR_OFF"} -> [peer EXCEPT !.dtr = (e.b = "DTR_ON")]
      [] e.kind = "com" /\ e.b = "RTS_ON" -> [peer EXCEPT !.rts = TRUE]
      [] e.kind = "com" /\ e.a = "SET_MODEMSTATE_MASK" -> [peer EXCEPT !.mask = e.lines]
      [] e = Shutdown -> [peer EXCEPT !.open = FALSE]
      [] OTHER -> peer

\* Rfc2217Peer::push: one event; nothing reaches a client that has shut down.
PeerReads ==
    /\ up # <<>> /\ peer.open
    /\ up' = Tail(up) /\ saw' = saw \o Seen(Head(up)) /\ peer' = Handled(Head(up))
    /\ down' = IF port = "dropped" THEN down ELSE down \o Confirmation(Head(up))
    /\ UNCHANGED <<port, issued, readVars, radioSent, levels, changes>>

\* modem_state: announced to who asked for it, the first time always and then
\* when a line asked for has changed.
News == peer.mask # {} /\ (~peer.told \/ peer.last \cap peer.mask # levels \cap peer.mask)

Notify ==
    /\ peer.open /\ port \in {"settling", "open"} /\ News
    /\ down' = Append(down, ModemLines("NOTIFY_MODEMSTATE", levels \cap peer.mask))
    /\ peer' = [peer EXCEPT !.told = TRUE, !.last = levels \cap peer.mask]
    /\ UNCHANGED <<port, up, issued, readVars, saw, radioSent, levels, changes>>

LineChanges(l) ==
    /\ changes < MaxLines /\ changes' = changes + 1
    /\ levels' = IF l \in levels THEN levels \ {l} ELSE levels \cup {l}
    /\ UNCHANGED <<port, netVars, issued, readVars, saw, peer, radioSent>>

RadioSends(b) ==
    /\ port \in {"settling", "open"} /\ peer.open /\ Len(radioSent) < MaxRadio
    /\ radioSent' = Append(radioSent, b) /\ down' = Append(down, DataEvent(b))
    /\ UNCHANGED <<port, up, issued, readVars, saw, peer, levels, changes>>

-----------------------------------------------------------------------------
Client == ReadPort \/ (\E b \in DataBytes : WriteByte(b)) \/ (\E on \in BOOLEAN : SetDtr(on))
          \/ DropPort \/ Connect \/ Settled
Reader == ReadEnd \/ ReadSocket
Peer == Notify \/ PeerReads
Next ==
    \/ Client \/ Reader \/ Peer
    \/ \E l \in Lines : LineChanges(l)
    \/ \E b \in DataBytes : RadioSends(b)

\* The reader thread and the device server run; a woken read is polled.
Fairness == WF_vars(Reader) /\ WF_vars(Notify) /\ WF_vars(PeerReads) /\ WF_vars(ReadPort)
Spec == Init /\ [][Next]_vars /\ Fairness

-----------------------------------------------------------------------------
(* Properties. *)

\* However the bytes are cut and escaped, the port at the far end sees what was
\* done to it in the order it was done: a key-down never overtakes or splits the
\* CAT bytes, and no line moves that nobody moved (port.rs write_raw, codec.rs).
FarPortFollows == IsPrefix(saw, issued)

\* A port left alone comes to rest with the far end: the two peers stop
\* negotiating, the lines read as the far end has them, all lines low included,
\* and no byte the radio sent lies in the inbox of a suspended read (port.rs,
\* answer_negotiation, "Line state is a cache", and read's "cannot leave this
\* task asleep with data waiting").
PortComesToRest ==
    <>[](port \in {"settling", "open"} =>
            /\ up = <<>> /\ down = <<>>
            /\ modemSeen /\ modem = levels
            /\ port = "open" => got = radioSent)

\* Dropping the port ends the reader thread and reaches the device server
\* (port.rs, Drop).
DropReachesPeer == (port = "dropped") ~> (reader = "ended" /\ ~peer.open)
=============================================================================
