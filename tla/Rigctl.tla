------------------------------- MODULE Rigctl -------------------------------
(***************************************************************************)
(* The rigctld listener (cat-rigctl/src/protocol.rs, rigctl.rs and         *)
(* rigctl_windows.rs): bytes arrive in pieces, are split into lines, each  *)
(* line is dispatched to the radio and its reply written back, over a      *)
(* radio whose calls may fail.                                             *)
(*                                                                         *)
(* The client is Hamlib's, as protocol.rs describes it: it sends a command *)
(* and reads the lines that command's reply has, \dump_state's with its    *)
(* lists up to their all-zero rows.  It is external.  A line of a reply is *)
(* a number; a command is the symbols it is sent as.                       *)
(***************************************************************************)
EXTENDS Integers, Sequences, FiniteSets, FiniteSetsExt

CONSTANTS
    Commands,     \* commands the client sends
    Radios,       \* what RigctlRadio::capabilities publishes
    MaxLine,      \* MAX_LINE_LEN, in symbols
    MaxCommands   \* bound on the commands of a connection

VARIABLES
    radio,    \* the radio's description
    wire,     \* symbols on their way to the server
    buf,      \* LineSplitter::buf
    pc,       \* the connection: "read", "dispatch", "write", "closed"
    line,     \* the line being handled
    reply,    \* its reply, not yet written
    calls,    \* radio calls: the command they serve, what they do, whether they succeeded
    back,     \* reply lines on their way to the client
    asked,    \* commands sent
    waiting,  \* the command the client awaits the reply of; "": none
    got,      \* the reply lines it has read of it
    hung      \* the client is gone

clientVars == <<asked, waiting, got, hung>>
vars == <<radio, wire, buf, pc, line, reply, calls, back, clientVars>>

NL == "NL"
RPRT_OK == 7000
RPRT_ERR == 7001

\* dump_state_from_capabilities: an empty list gets its placeholder.
Rows(list, placeholder) == (IF list = <<>> THEN <<placeholder>> ELSE list) \o <<0>>

\* dump_state, dump_state_text
DumpState ==
    <<0, 0, 0>> \o <<radio.hz, 0>> \o <<radio.hz, 0>> \o Rows(radio.steps, 10) \o Rows(radio.filters, 2400)
    \o <<radio.rit, 0, radio.xit, 0, 0, 0>> \o <<0, 0, 0, 0, 0, 0>>

Reads == {"f", "m", "s", "j", "z", "t"}
Sets  == {"F", "M", "S", "T"}

\* The reply of a read that succeeded.
Answer(cmd) == CASE cmd \in {"m", "s"} -> <<1, 0>> [] OTHER -> <<1>>

Call(cmd, ok) == [of |-> asked, what |-> cmd, ok |-> ok]

\* read_twice!
ReadTwice(cmd) ==
    {[calls |-> <<Call(cmd, TRUE)>>, reply |-> Answer(cmd)],
     [calls |-> <<Call(cmd, FALSE), Call(cmd, TRUE)>>, reply |-> Answer(cmd)],
     [calls |-> <<Call(cmd, FALSE), Call(cmd, FALSE)>>, reply |-> <<RPRT_ERR>>]}

\* Mutant of SetOnce: a set that fails is tried again, as a read is.
SetTwice(cmd) ==
    {[calls |-> <<Call(cmd, TRUE)>>, reply |-> <<RPRT_OK>>],
     [calls |-> <<Call(cmd, FALSE), Call(cmd, TRUE)>>, reply |-> <<RPRT_OK>>]}

\* A set, tried once.
SetOnce(cmd) ==
    {[calls |-> <<Call(cmd, TRUE)>>, reply |-> <<RPRT_OK>>],
     [calls |-> <<Call(cmd, FALSE)>>, reply |-> <<RPRT_ERR>>]}

\* dispatch: what a line leads to.  A set without its argument is refused.
Outcomes(l) ==
    LET cmd == l[1]
    IN  IF cmd \in Reads THEN ReadTwice(cmd)
        ELSE IF cmd \in Sets /\ Len(l) > 1 THEN SetOnce(cmd)
        ELSE {[calls |-> <<>>, reply |-> IF cmd = "v" THEN <<1>> ELSE IF cmd = "dump" THEN DumpState ELSE <<RPRT_ERR>>]}

\* How the client sends a command; "flood" never ends its line.
Encoded(cmd) ==
    CASE cmd \in Sets -> <<cmd, "argument", NL>> [] cmd = "bareF" -> <<"F", NL>>
      [] cmd = "blank" -> <<NL>> [] cmd = "flood" -> [k \in 1..(MaxLine + 1) |-> "x"] [] OTHER -> <<cmd, NL>>

\* The place of the last of \dump_state's four all-zero rows, 0 before it has come.
ListsEnd(lines) ==
    LET zeros == {k \in 4..Len(lines) : lines[k] = 0}
        fourth == {k \in zeros : Cardinality({j \in zeros : j <= k}) = 4}
    IN  IF fourth = {} THEN 0 ELSE Min(fourth)

\* netrigctl: the whole reply has been read.
Complete(cmd, lines) ==
    CASE lines = <<RPRT_ERR>> -> TRUE
      [] cmd \in {"m", "s"} -> Len(lines) = 2
      [] cmd = "dump" -> ListsEnd(lines) # 0 /\ Len(lines) = ListsEnd(lines) + 12
      [] OTHER -> Len(lines) = 1

Init ==
    /\ radio \in Radios
    /\ wire = <<>> /\ buf = <<>> /\ pc = "read" /\ line = <<>> /\ reply = <<>> /\ calls = <<>> /\ back = <<>>
    /\ asked = 0 /\ waiting = "" /\ got = <<>> /\ hung = FALSE

\* The client sends a command; a blank line has no reply to wait for.
Ask ==
    /\ waiting = "" /\ ~hung /\ asked < MaxCommands
    /\ \E c \in Commands : wire' = wire \o Encoded(c) /\ waiting' = IF c = "blank" THEN "" ELSE c
    /\ asked' = asked + 1 /\ got' = <<>>
    /\ UNCHANGED <<radio, buf, pc, line, reply, calls, back, hung>>

\* ... reads a line ...
Hear ==
    /\ back # <<>> /\ ~hung
    /\ got' = Append(got, Head(back)) /\ back' = Tail(back)
    /\ waiting' = IF waiting # "" /\ Complete(waiting, [k \in DOMAIN got' |-> got'[k].value]) THEN "" ELSE waiting
    /\ UNCHANGED <<radio, wire, buf, pc, line, reply, calls, asked, hung>>

\* ... sees the connection closed, or goes, in the middle of a line or not.
SeeClose ==
    /\ pc = "closed" /\ back = <<>> /\ ~hung
    /\ hung' = TRUE /\ waiting' = ""
    /\ UNCHANGED <<radio, wire, buf, pc, line, reply, calls, back, asked, got>>

HangUp ==
    /\ ~hung /\ hung' = TRUE /\ waiting' = ""
    /\ \E n \in 0..Len(wire) : wire' = SubSeq(wire, 1, n)
    /\ UNCHANGED <<radio, buf, pc, line, reply, calls, back, asked, got>>

HasLine == \E k \in DOMAIN buf : buf[k] = NL

\* LineSplitter::try_take_line, then handle_connection's look at the line.
TakeLine ==
    /\ pc = "read" /\ HasLine
    /\ LET end == Min({k \in DOMAIN buf : buf[k] = NL})
       IN  /\ line' = SubSeq(buf, 1, end - 1)
           /\ buf' = SubSeq(buf, end + 1, Len(buf))
    /\ pc' = IF line' = <<>> THEN "read" ELSE IF line' = <<"q">> THEN "closed" ELSE "dispatch"
    /\ UNCHANGED <<radio, wire, reply, calls, back, clientVars>>

\* read_line: too much without a line end.
OverLimit ==
    /\ pc = "read" /\ ~HasLine /\ Len(buf) > MaxLine
    /\ pc' = "closed"
    /\ UNCHANGED <<radio, wire, buf, line, reply, calls, back, clientVars>>

\* read_line: some of what has arrived.
Feed ==
    /\ pc = "read" /\ ~HasLine /\ Len(buf) <= MaxLine /\ wire # <<>>
    /\ \E n \in 1..Len(wire) :
          /\ buf' = buf \o SubSeq(wire, 1, n)
          /\ wire' = SubSeq(wire, n + 1, Len(wire))
    /\ UNCHANGED <<radio, pc, line, reply, calls, back, clientVars>>

\* read_line at the end of the stream: what is left is a last line.
EndOfStream ==
    /\ pc = "read" /\ ~HasLine /\ Len(buf) <= MaxLine /\ wire = <<>> /\ hung
    /\ IF buf = <<>> \/ buf = <<"q">> THEN pc' = "closed" /\ UNCHANGED <<line, buf>>
       ELSE pc' = "dispatch" /\ line' = buf /\ buf' = <<>>
    /\ UNCHANGED <<radio, wire, reply, calls, back, clientVars>>

Dispatch ==
    /\ pc = "dispatch"
    /\ \E o \in Outcomes(line) : calls' = calls \o o.calls /\ reply' = o.reply
    /\ pc' = "write"
    /\ UNCHANGED <<radio, wire, buf, line, back, clientVars>>

\* The reply is written; to a client that has gone the write may fail.
Write ==
    /\ pc = "write"
    /\ \/ pc' = "read" /\ back' = back \o [k \in DOMAIN reply |-> [of |-> asked, value |-> reply[k]]]
       \/ hung /\ pc' = "closed" /\ UNCHANGED back
    /\ reply' = <<>>
    /\ UNCHANGED <<radio, wire, buf, line, calls, clientVars>>

Server == TakeLine \/ OverLimit \/ Feed \/ EndOfStream \/ Dispatch \/ Write

Next == Ask \/ Hear \/ SeeClose \/ HangUp \/ Server

Fairness == WF_vars(Server) /\ WF_vars(Hear) /\ WF_vars(SeeClose)

Spec == Init /\ [][Next]_vars /\ Fairness

-----------------------------------------------------------------------------
\* Every command gets a reply of the length its client reads, or an error, or
\* the end of the connection: \dump_state short of a line, or a two-line answer
\* of one, leaves Hamlib blocked for ever (ADR 0005).
CommandAnswered == (waiting # "") ~> (waiting = "")

\* ... and never a line more: what the client reads belongs to the command it is
\* waiting on, so replies stay in step with commands.
RepliesInStep ==
    /\ \A k \in DOMAIN got : got[k].of = asked
    /\ waiting = "" /\ ~hung => back = <<>>

\* A set reaches the radio at most once however it fails, and a read at most
\* twice and the second time only after a failure: a retried T 1 "could key a
\* transmitter whose first key already landed".
SetsNeverRetried ==
    \A j, k \in DOMAIN calls :
        j < k /\ calls[j].of = calls[k].of => /\ calls[k].what \in Reads /\ ~calls[j].ok
                                              /\ k = j + 1

\* \dump_state's tail is "max RIT/XIT/IF-shift (Hz), announces bitmask": a
\* client finds the radio's limits in the lines that carry them.
TailInOrder ==
    LET lines == [k \in DOMAIN got |-> got[k].value]
        tail  == ListsEnd(lines)
    IN  tail # 0 /\ Len(lines) >= tail + 3 =>
            lines[tail + 1] = radio.rit /\ lines[tail + 2] = radio.xit /\ lines[tail + 3] = 0
=============================================================================
