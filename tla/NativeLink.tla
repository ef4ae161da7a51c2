----------------------------- MODULE NativeLink -----------------------------
(***************************************************************************)
(* One console's connection to a native-protocol server: the server's      *)
(* thread with its session, the radio's host behind it, and the client in  *)
(* its two shapes: `Connection`, which waits for each reply, and `Client`, *)
(* whose thread sends what is queued and hands on what arrives.            *)
(*                                                                         *)
(* A frame is one element of the wire.  A command is its kind and its fit, *)
(* how it compares with the capabilities: "ok", "absent" from them,        *)
(* "outside" their range or "forbidden".  The radio's state is a version.  *)
(*                                                                         *)
(* Sources: cat-native/src/server.rs, client.rs, lib.rs.                   *)
(***************************************************************************)
EXTENDS Naturals, Sequences

CONSTANTS
    Fronts,        \* a subset of {"Client", "Connection"}
    Streams,       \* the streams a host has, a subset of {"spectrum", "audio"}
    Kinds,         \* the commands an operator gives, a subset of DOMAIN Fits
    MaxCommands,   \* messages a client sends after its hello
    MaxVersions,   \* changes of the radio's state
    MaxFrames,     \* pictures of each stream
    WireFrames     \* pictures the link holds before a write waits

VARIABLES
    front, want,               \* the client's shape, and the streams it asks for
    servesCw, offersDevices,   \* the host
    version, newest, hostHas,  \*   its state, its newest pictures, what it was asked to apply
    attached,                  \* the host counts this console
    srv,                       \* the server thread: "accept", "read", "apply", "gone"
    session,                   \* NativeSession
    unread, command, lastSent, \* pending, the command being applied, last_sequence
    up, down,                  \* the two directions of the socket
    cli,                       \* the client's thread or caller
    capCw,                     \* the Welcome carried CW
    commands, inbox, slot, sinks, dropped,
    sent, answers,             \* what went out, in order, and what came back
    seen                       \* the newest picture a console was given

hostVars == <<servesCw, offersDevices, version, newest, hostHas, attached>>
srvVars == <<srv, session, unread, command, lastSent>>
cliVars == <<cli, capCw, commands, inbox, slot, sinks, dropped, sent, answers, seen>>
vars == <<front, want, hostVars, srvVars, up, down, cliVars>>

NoCommand == [kind |-> "none", fit |-> "ok", id |-> 0, asOf |-> 0]

\* What `validate` and `validate_cw` can say of each command.
Fits == [SetFrequency |-> {"ok", "absent", "outside"}, Retune |-> {"ok", "outside"},
         SetMode |-> {"ok", "absent"}, SetSplit |-> {"ok", "absent"},
         SetMemoryChannel |-> {"ok", "absent", "outside"},
         SetFilterWidth |-> {"ok", "absent", "outside"},
         SetIfShift |-> {"ok", "absent", "outside"}, ReadMeter |-> {"ok", "absent"},
         ReadState |-> {"ok"}, ReadDevices |-> {"ok"}, AttachDevice |-> {"ok"},
         AbortCw |-> {"ok"}, DisarmCw |-> {"ok", "absent"},
         SetKeyerSpeed |-> {"ok", "absent", "outside"},
         ArmCwTransmit |-> {"ok", "absent", "forbidden", "outside"},
         SendCwText |-> {"ok", "absent", "outside"}, Ping |-> {"ok"}]
CwKinds == {"DisarmCw", "SetKeyerSpeed", "ArmCwTransmit", "SendCwText"}
Reads == {"ReadState", "ReadMeter", "ReadDevices", "Ping"}

Init ==
    /\ front \in Fronts /\ want \in SUBSET Streams
    /\ servesCw \in BOOLEAN /\ offersDevices \in (IF "ReadDevices" \in Kinds THEN BOOLEAN ELSE {FALSE})
    /\ version = 0 /\ newest = [s \in Streams |-> 0] /\ hostHas = {}
    /\ attached = FALSE
    /\ srv = "accept"
    /\ session = [handshaken |-> FALSE, wants |-> {}, serves |-> FALSE, state |-> 0]
    /\ unread = <<>> /\ command = NoCommand /\ lastSent = [s \in Streams |-> 0]
    /\ up = <<>> /\ down = <<>>
    /\ cli = "connect" /\ capCw = FALSE
    /\ commands = <<>> /\ inbox = <<>> /\ slot = [s \in Streams |-> 0]
    /\ sinks = 0 /\ dropped = FALSE
    /\ sent = <<>> /\ answers = <<>> /\ seen = [s \in Streams |-> 0]

Closed(end) == end \in {"gone", "failed"}

-----------------------------------------------------------------------------
(* The host. *)

RadioChanges ==
    /\ version < MaxVersions /\ version' = version + 1
    /\ UNCHANGED <<front, want, servesCw, offersDevices, newest, hostHas, attached, srvVars,
                   up, down, cliVars>>

Capture(s) ==
    /\ newest[s] < MaxFrames /\ newest' = [newest EXCEPT ![s] = @ + 1]
    /\ UNCHANGED <<front, want, servesCw, offersDevices, version, hostHas, attached, srvVars,
                   up, down, cliVars>>

\* The pump opts in to CW in its first cycle, which may be after a console came.
ServesCwNow ==
    /\ ~servesCw /\ servesCw' = TRUE
    /\ UNCHANGED <<front, want, offersDevices, version, newest, hostHas, attached, srvVars,
                   up, down, cliVars>>

-----------------------------------------------------------------------------
(* The server's thread. *)

Accept ==
    /\ srv = "accept" /\ up # <<>>
    /\ srv' = "read" /\ attached' = TRUE
    /\ session' = [session EXCEPT !.serves = servesCw]
    /\ UNCHANGED <<front, want, servesCw, offersDevices, version, newest, hostHas, unread,
                   command, lastSent, up, down, cliVars>>

\* The thread ends, however it ends: the guard detaches the console.
Gone == srv' = "gone" /\ attached' = FALSE

\* A read brings what has arrived; a closed socket ends the thread, and one
\* closed with something still unread may end it before that is read.
Read ==
    /\ srv = "read" /\ unread = <<>>
    /\ \/ up # <<>> /\ unread' = up /\ up' = <<>> /\ UNCHANGED <<srv, attached>>
       \/ Closed(cli) /\ Gone /\ UNCHANGED <<unread, up>>
    /\ UNCHANGED <<front, want, servesCw, offersDevices, version, newest, hostHas, session,
                   command, lastSent, down, cliVars>>

Control(m, r) == [kind |-> "control", id |-> m.id, reply |-> r, state |-> session'.state]

\* write_control: to a client that has gone a write may fail.
Write(frame) ==
    \/ down' = Append(down, frame) /\ srv' = "read" /\ UNCHANGED attached
    \/ Closed(cli) /\ Gone /\ UNCHANGED down

Validate(m) ==
    CASE m.kind \in CwKinds /\ ~session'.serves -> "Unsupported"
      [] m.fit = "absent" -> "Unsupported"
      [] m.fit = "outside" -> "OutOfRange"
      [] m.fit = "forbidden" -> "Forbidden"
      [] OTHER -> "Ok"

\* NativeSession::handle of an accepted command.  A meter may have no reading.
Answers(m) ==
    CASE m.kind = "Ping" -> {"Pong"}
      [] m.kind = "ReadState" -> {"State"}
      [] m.kind = "ReadMeter" -> {"Meter", "NotReady"}
      [] m.kind = "ReadDevices" -> IF offersDevices THEN {"Devices"} ELSE {"Unsupported"}
      [] OTHER -> {"Ack"}

ReachesHost(m) == m.kind \notin Reads /\ (m.kind = "AbortCw" => session'.serves)

\* A mutant of Refresh: the state is what it was at the handshake.
RefreshOnce == session' = [session EXCEPT !.serves = servesCw]

\* Before each message the session is told what the host says now.
Refresh == session' = [session EXCEPT !.serves = servesCw, !.state = version]

Hello(m) ==
    /\ session' = [session EXCEPT !.serves = servesCw, !.state = version,
                                  !.handshaken = @ \/ m.ok,
                                  !.wants = IF m.ok THEN m.wants ELSE @]
    /\ Write([kind |-> "welcome", ok |-> m.ok, cw |-> servesCw])
    /\ UNCHANGED <<command, hostHas>>

\* One message: answered by the session, or handed to the host.
Handle ==
    /\ srv = "read" /\ unread # <<>>
    /\ unread' = Tail(unread)
    /\ LET m == Head(unread)
       IN \/ m.kind = "Hello" /\ Hello(m)
          \/ /\ m.kind # "Hello" /\ Refresh
             /\ IF ~session.handshaken
                THEN Write(Control(m, "NotReady")) /\ UNCHANGED command
                ELSE IF Validate(m) # "Ok"
                THEN Write(Control(m, Validate(m))) /\ UNCHANGED command
                ELSE IF ReachesHost(m)
                THEN srv' = "apply" /\ command' = m /\ UNCHANGED <<down, attached>>
                ELSE (\E r \in Answers(m) : Write(Control(m, r))) /\ UNCHANGED command
             /\ UNCHANGED hostHas
    /\ UNCHANGED <<front, want, servesCw, offersDevices, version, newest, lastSent, up, cliVars>>

\* apply_as: it may take as long as the radio does, and it may refuse.
Apply ==
    /\ srv = "apply"
    /\ \E accepted \in BOOLEAN :
          /\ hostHas' = hostHas \cup {[id |-> command.id, accepted |-> accepted]}
          /\ Write([kind |-> "control", id |-> command.id, state |-> session.state,
                    reply |-> IF accepted THEN "Ack" ELSE "Refused"])
    /\ command' = NoCommand
    /\ UNCHANGED <<front, want, servesCw, offersDevices, version, newest, session, unread,
                   lastSent, up, cliVars>>

Pictures == SelectSeq(down, LAMBDA f : f.kind \notin {"control", "welcome"})

\* A stream's newest picture goes out when this client asked for the stream and
\* has not had it.
Due(s) == s \in session.wants /\ newest[s] # lastSent[s]

Push(s) ==
    /\ srv = "read" /\ unread = <<>> /\ Due(s) /\ Len(Pictures) < WireFrames
    /\ lastSent' = [lastSent EXCEPT ![s] = newest[s]]
    /\ Write([kind |-> s, seq |-> newest[s]])
    /\ UNCHANGED <<front, want, servesCw, offersDevices, version, newest, hostHas, session,
                   unread, command, up, cliVars>>

-----------------------------------------------------------------------------
(* The client. *)

\* The handshake: connect and send Hello ...
Connect ==
    /\ cli = "connect"
    /\ up' = <<[kind |-> "Hello", ok |-> TRUE, wants |-> want]>>
    /\ cli' = "hello"
    /\ UNCHANGED <<front, want, hostVars, srvVars, down, capCw, commands, inbox, slot,
                   sinks, dropped, sent, answers, seen>>

\* ... and read until its answer is there, or until the deadline.
Welcomed ==
    /\ cli = "hello"
    /\ \/ /\ down # <<>> /\ Head(down).kind = "welcome" /\ Head(down).ok
          /\ capCw' = Head(down).cw /\ down' = Tail(down)
          /\ cli' = IF front = "Client" THEN "send" ELSE "idle"
       \/ cli' = "failed" /\ UNCHANGED <<capCw, down>>
    /\ UNCHANGED <<front, want, hostVars, srvVars, up, commands, inbox, slot, sinks,
                   dropped, sent, answers, seen>>

\* Decode every frame of what a read brought: replies queue, a picture takes the
\* place of the one before it.
NewestOf(s, old) ==
    LET of == SelectSeq(down, LAMBDA f : f.kind = s)
    IN IF of = <<>> THEN old ELSE of[Len(of)].seq
Replies == SelectSeq(down, LAMBDA f : f.kind = "control")
TakePictures == slot' = [s \in Streams |-> NewestOf(s, slot[s])]

Message(k, f) == [kind |-> k, fit |-> f, id |-> Len(sent) + Len(commands) + 1, asOf |-> version]

\* The operator's command through Client::send or a CommandSink.
QueueCommand(k, f) ==
    /\ front = "Client" /\ (~dropped \/ sinks > 0) /\ cli \in {"send", "poll"}
    /\ Len(sent) + Len(commands) < MaxCommands
    /\ commands' = Append(commands, Message(k, f))
    /\ UNCHANGED <<front, want, hostVars, srvVars, up, down, cli, capCw, inbox, slot,
                   sinks, dropped, sent, answers, seen>>

\* The client's thread: one queued command goes out, ...
SendQueued ==
    /\ cli = "send"
    /\ \/ /\ commands # <<>>
          /\ \/ /\ up' = Append(up, Head(commands)) /\ sent' = Append(sent, Head(commands))
                /\ commands' = Tail(commands) /\ cli' = "poll"
             \/ srv = "gone" /\ cli' = "gone" /\ UNCHANGED <<up, sent, commands>>
       \/ /\ commands = <<>> /\ cli' = IF dropped /\ sinks = 0 THEN "gone" ELSE "poll"
          /\ UNCHANGED <<up, sent, commands>>
    /\ UNCHANGED <<front, want, hostVars, srvVars, down, capCw, inbox, slot, sinks, dropped,
                   answers, seen>>

\* ... and what has arrived is handed on: pictures to the slot, replies to the
\* channel.  A channel nobody holds ends the thread.
Poll ==
    /\ cli = "poll"
    /\ \/ /\ down # <<>> /\ TakePictures /\ down' = <<>>
          /\ IF dropped /\ Replies # <<>> THEN cli' = "gone" /\ UNCHANGED answers
                                         ELSE cli' = "send" /\ answers' = answers \o Replies
       \/ /\ down = <<>> /\ cli' = IF srv = "gone" THEN "gone" ELSE "send"
          /\ UNCHANGED <<slot, down, answers>>
    /\ UNCHANGED <<front, want, hostVars, srvVars, up, capCw, commands, inbox, sinks, dropped,
                   sent, seen>>

\* The drawing thread takes the newest picture.
TakePicture(s) ==
    /\ slot[s] # 0
    /\ seen' = [seen EXCEPT ![s] = slot[s]] /\ slot' = [slot EXCEPT ![s] = 0]
    /\ UNCHANGED <<front, want, hostVars, srvVars, up, down, cli, capCw, commands, inbox,
                   sinks, dropped, sent, answers>>

CloneSink ==
    /\ front = "Client" /\ ~dropped /\ sinks = 0 /\ cli \in {"send", "poll"}
    /\ sinks' = 1
    /\ UNCHANGED <<front, want, hostVars, srvVars, up, down, cli, capCw, commands, inbox,
                   slot, dropped, sent, answers, seen>>
DropSink ==
    /\ sinks = 1 /\ sinks' = 0
    /\ UNCHANGED <<front, want, hostVars, srvVars, up, down, cli, capCw, commands, inbox,
                   slot, dropped, sent, answers, seen>>
DropClient ==
    /\ ~dropped /\ cli \in {"send", "poll", "idle"}
    /\ dropped' = TRUE /\ cli' = IF front = "Connection" THEN "gone" ELSE cli
    /\ UNCHANGED <<front, want, hostVars, srvVars, up, down, capCw, commands, inbox, 
                   slot, sinks, sent, answers, seen>>

\* Connection: a CW call is not made of a server whose Welcome carried no CW;
\* abort_cw then succeeds, the others are refused.
Unasked(k) == ~capCw /\ (k = "AbortCw" \/ k \in CwKinds)
Request(k, f) ==
    /\ cli = "idle" /\ front = "Connection" /\ Len(sent) < MaxCommands
    /\ sent' = Append(sent, Message(k, f))
    /\ IF Unasked(k)
       THEN /\ answers' = Append(answers, [kind |-> "local", id |-> Len(sent) + 1, state |-> version,
                                   reply |-> IF k = "AbortCw" THEN "Ack" ELSE "Unsupported"])
            /\ UNCHANGED <<up, cli>>
       ELSE up' = Append(up, Message(k, f)) /\ cli' = "await" /\ UNCHANGED answers
    /\ UNCHANGED <<front, want, hostVars, srvVars, down, capCw, commands, inbox, slot,
                   sinks, dropped, seen>>

\* read_control.
Await ==
    /\ cli = "await"
    /\ \/ /\ inbox # <<>> /\ answers' = Append(answers, Head(inbox)) /\ inbox' = Tail(inbox)
          /\ cli' = "idle" /\ UNCHANGED <<slot, down>>
       \/ /\ inbox = <<>> /\ down # <<>> /\ TakePictures /\ down' = <<>> /\ inbox' = Replies
          /\ UNCHANGED <<cli, answers>>
       \/ inbox = <<>> /\ down = <<>> /\ srv = "gone" /\ cli' = "failed"
          /\ UNCHANGED <<inbox, slot, down, answers>>
    /\ UNCHANGED <<front, want, hostVars, srvVars, up, capCw, commands, sinks, dropped,
                   sent, seen>>

-----------------------------------------------------------------------------
Server == Accept \/ Read \/ Handle \/ Apply
ClientThread == SendQueued \/ Poll
Operator ==
    \/ \E k \in Kinds : \E f \in Fits[k] : QueueCommand(k, f) \/ Request(k, f)
    \/ CloneSink \/ DropSink \/ DropClient
Next ==
    \/ RadioChanges \/ ServesCwNow \/ Server \/ ClientThread \/ Operator
    \/ Connect \/ Welcomed \/ Await
    \/ \E s \in Streams : Capture(s) \/ Push(s) \/ TakePicture(s)

\* Threads run; the host's `apply` returns (module StateCache, APPLY_TIMEOUT).
Fairness == WF_vars(Server) /\ WF_vars(ClientThread) /\ WF_vars(Connect) /\ WF_vars(Welcomed)
Spec == Init /\ [][Next]_vars /\ Fairness

-----------------------------------------------------------------------------
(* Properties. *)

\* Replies carry no number: the i-th one handed to the caller answers the i-th
\* command, whatever pictures came between them (client.rs, drain_frames).
RepliesInOrder == \A i \in DOMAIN answers : answers[i].id = sent[i].id

\* What the console is told of a command is what the host did with it: an Ack
\* is the host's, and a command that was refused as impossible never reached
\* the radio (server.rs, serve_one).
ToldWhatHappened ==
    \A i \in DOMAIN answers :
        LET ofIt == {h \in hostHas : h.id = answers[i].id}
        IN /\ answers[i].kind = "control" /\ sent[i].kind \notin Reads \cup {"AbortCw"} =>
                 (answers[i].reply = "Ack" <=> \E h \in ofIt : h.accepted)
           /\ answers[i].reply \in {"Unsupported", "OutOfRange", "Forbidden"} => ofIt = {}

\* A state that is read is not older than the question (server.rs, "a read is
\* answered from now").
StateAsOfNow ==
    \A i \in DOMAIN answers :
        answers[i].reply = "State" => answers[i].state >= sent[i].asOf

\* A picture is shown once and never after a newer one (server.rs
\* last_sequence, client.rs latest_spectrum).
PicturesAdvance ==
    \A s \in Streams : seen'[s] # seen[s] \/ slot'[s] = slot[s] \/ slot'[s] > seen[s]

\* A console that went is detached, and with it what it held is released
\* (server.rs, the guard in serve).
HangUpDetaches == (attached /\ Closed(cli)) ~> ~attached

\* "an abort sent then must still reach it" (server.rs:390): an abort the console
\* was told has succeeded was handed to the host, if the host serves CW.
AbortReachesHost ==
    \A i \in DOMAIN answers :
        sent[i].kind = "AbortCw" /\ answers[i].reply = "Ack" /\ servesCw =>
            \E h \in hostHas : h.id = sent[i].id

\* "Dropping the Client closes the connection, which ends the thread"
\* (client.rs, Client).
DropEndsThread == (dropped /\ front = "Client") ~> Closed(cli)
=============================================================================
