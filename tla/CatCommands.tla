---------------------------- MODULE CatCommands ----------------------------
(***************************************************************************)
(* One CAT request on its way through the server: the broker parses the    *)
(* frame against the radio's command table, decides whether it is a read   *)
(* or a write, and has the client encode it again for the radio, whose     *)
(* answer the session cuts out of the byte stream.  Two wire formats: the  *)
(* ASCII line of Kenwood and Yaesu, and Icom's CI-V, whose frames carry    *)
(* addresses and whose bus echoes what is written to it.                   *)
(*                                                                         *)
(* Bytes are numbers.  The table holds three codes, two of which share     *)
(* their first byte on CI-V.  Init chooses the legal widths of one among   *)
(* all well-formed definitions; the others are plain levels.  The radio is *)
(* external: it knows its commands by the longest code and answers reads   *)
(* with packed BCD.                                                        *)
(*                                                                         *)
(* Sources: cat-framework/src/cat.rs, wire_format.rs, civ.rs;              *)
(* cat-client/src/client.rs; cat-server/src/broker.rs.                     *)
(***************************************************************************)
EXTENDS Naturals, Sequences, FiniteSets, SequencesExt

CONSTANTS
    Formats,   \* the wire formats looked at, a subset of {"ascii", "civ"}
    Echoes,    \* whether the bus echoes, a subset of BOOLEAN
    Values     \* what the radio may report

VARIABLES format, echo, table, value,   \* fixed: the installation
          phase,    \* "idle", "parse", "radio", "read", "done"
          frame,    \* the request as the client of the server sent it
          routed,   \* what the broker made of it
          wire,     \* what it wrote to the radio
          rx,       \* bytes on their way to the session
          result    \* what the request came to

vars == <<format, echo, table, value, phase, frame, routed, wire, rx, result>>

PREAMBLE == 254
END      == 253
OK       == 251
NG       == 250
Radio      == 136   \* 0x88
Controller == 224   \* 0xE0
Other      == 148   \* another radio on the bus
Semi       == 59

None == [kind |-> "none"]

-----------------------------------------------------------------------------
(* Packed BCD. *)

Pow100(n) == IF n = 0 THEN 1 ELSE IF n = 1 THEN 100 ELSE 10000

Pair(v) == ((v \div 10) % 10) * 16 + (v % 10)

\* `encode_bcd`: the least significant pair first, digits above dropped.
EncodeBcd(v, n) == [i \in 1..n |-> Pair(v \div Pow100(i - 1))]
EncodeBcdBe(v, n) == Reverse(EncodeBcd(v, n))

IsBcd(bs) == \A i \in DOMAIN bs : bs[i] \div 16 <= 9 /\ bs[i] % 16 <= 9

\* `decode_bcd_be` and `decode_bcd`: a nibble above 9 gives nothing.
DecodeBcdBe(bs) ==
    IF ~IsBcd(bs) THEN None
    ELSE [kind |-> "value",
          value |-> FoldLeft(LAMBDA acc, b : acc * 100 + (b \div 16) * 10 + (b % 16), 0, bs)]

-----------------------------------------------------------------------------
(* The table. *)

\* A command's legal widths, and what it is documented to be good for.
Definition == [query : SUBSET {0, 1}, set : SUBSET {1, 2}, selector : SUBSET {1, 2},
               action : SUBSET {0}, readable : BOOLEAN, writable : BOOLEAN]

Supports(d, op, len) ==
    len \in CASE op = "Query" -> d.query [] op = "Set" -> d.set [] op = "Action" -> d.action

IsSelectorRead(d, len) == len \in d.set /\ len \in d.selector

\* A table that says what its radio does: widths of reads and writes are
\* distinct, and the two flags agree with them.
WellFormed(d) ==
    /\ d.selector \subseteq d.set
    /\ d.query \cap d.set = {} /\ d.query \cap d.action = {}
    /\ d.readable <=> (d.query # {} \/ d.selector # {})
    /\ d.writable <=> (d.set \ d.selector # {} \/ d.action # {})

Codes(f) == IF f = "ascii" THEN {<<77, 68>>, <<83, 77>>, <<65, 71>>}
                           ELSE {<<21>>, <<21, 2>>, <<20>>}
Level == [query |-> {0}, set |-> {2}, selector |-> {}, action |-> {},
          readable |-> TRUE, writable |-> TRUE]

-----------------------------------------------------------------------------
(* The wire formats. *)

\* `parse_envelope`: FE FE to from payload FD, with at least one payload byte.
ParseEnvelope(f) ==
    IF Len(f) >= 6 /\ f[1] = PREAMBLE /\ f[2] = PREAMBLE /\ Last(f) = END
    THEN [kind |-> "envelope", to |-> f[3], from |-> f[4], payload |-> SubSeq(f, 5, Len(f) - 1)]
    ELSE None

IsForUs(f) ==
    LET env == ParseEnvelope(f)
    IN env # None /\ env.to = Controller /\ env.from = Radio

Failure(kind) == [kind |-> kind]
Found(code, params) == [kind |-> "found", code |-> code, params |-> params]

\* A mutant of FindCommandCiv: the bare command shadows its sub-commands.
FindCommandCivBare(f) ==
    LET env == ParseEnvelope(f)
    IN IF env = None THEN Failure("InvalidSyntax")
       ELSE LET bare == SubSeq(env.payload, 1, 1)
            IN IF bare \in DOMAIN table THEN Found(bare, Tail(env.payload))
               ELSE IF Len(env.payload) > 1 /\ SubSeq(env.payload, 1, 2) \in DOMAIN table
               THEN Found(SubSeq(env.payload, 1, 2), SubSeq(env.payload, 3, Len(env.payload)))
               ELSE Failure("UnknownCommand")

\* The sub-commanded code first; the addresses are not looked at.
FindCommandCiv(f) ==
    LET env == ParseEnvelope(f)
    IN IF env = None THEN Failure("InvalidSyntax")
       ELSE IF Len(env.payload) > 1 /\ SubSeq(env.payload, 1, 2) \in DOMAIN table
       THEN Found(SubSeq(env.payload, 1, 2), SubSeq(env.payload, 3, Len(env.payload)))
       ELSE IF SubSeq(env.payload, 1, 1) \in DOMAIN table
       THEN Found(SubSeq(env.payload, 1, 1), Tail(env.payload))
       ELSE Failure("UnknownCommand")

FindCommandAscii(f) ==
    IF f = <<>> \/ Last(f) # Semi THEN Failure("MissingTerminator")
    ELSE IF Len(f) < 3 THEN Failure("InvalidSyntax")
    ELSE IF SubSeq(f, 1, 2) \in DOMAIN table
    THEN Found(SubSeq(f, 1, 2), SubSeq(f, 3, Len(f) - 1))
    ELSE Failure("UnknownCommand")

FindCommand(f) == IF format = "ascii" THEN FindCommandAscii(f) ELSE FindCommandCiv(f)

Addressed(to, from, payload) == <<PREAMBLE, PREAMBLE, to, from>> \o payload \o <<END>>

EncodeRequest(code, params) ==
    IF format = "ascii" THEN code \o params \o <<Semi>>
                        ELSE Addressed(Radio, Controller, code \o params)
EncodeResponse(code, params) ==
    IF format = "ascii" THEN code \o params \o <<Semi>>
                        ELSE Addressed(Controller, Radio, code \o params)
EncodeOk == Addressed(Controller, Radio, <<OK>>)

FrameComplete(buf) == Last(buf) = IF format = "ascii" THEN Semi ELSE END

\* `CommandTable::parse`: query at the width presented, then action, then set.
Parse(f) ==
    LET found == FindCommand(f)
    IN IF found.kind # "found" THEN found
       ELSE LET d == table[found.code]
                len == Len(found.params)
                As(op) == [kind |-> "request", op |-> op, code |-> found.code,
                           params |-> found.params]
            IN IF Supports(d, "Query", len) THEN As("Query")
               ELSE IF len = 0 /\ Supports(d, "Action", 0) THEN As("Action")
               ELSE IF Supports(d, "Set", len) THEN As("Set")
               ELSE Failure(IF len = 0 THEN "UnsupportedOperation" ELSE "InvalidParameterWidth")

\* `ProtocolErrorKind::from`: the category a parse error is reported under.
ErrorKind(kind) ==
    CASE kind = "InvalidParameterWidth" -> "InvalidParameter"
      [] kind \in {"MissingTerminator", "InvalidSyntax"} -> "InvalidSyntax"
      [] OTHER -> kind

-----------------------------------------------------------------------------
(* The broker and the client. *)

\* `dispatch`: whether a parsed request is a read.
IsRead(r) ==
    \/ r.op = "Query"
    \/ r.op = "Set" /\ IsSelectorRead(table[r.code], Len(r.params))
    \/ r.op = "Set" /\ ~table[r.code].writable /\ table[r.code].readable

Routeless(r) == r.op = "Set" /\ ~IsRead(r) /\ ~table[r.code].writable

\* `validate_code` and the capability check of `query_with_bytes` and `set`.
Permitted(r) ==
    /\ r.code \in DOMAIN table
    /\ IF IsRead(r) THEN table[r.code].readable ELSE table[r.code].writable

Init ==
    /\ format \in Formats
    /\ echo \in (IF format = "civ" THEN Echoes ELSE {FALSE})
    /\ \E varied \in Codes(format), d \in {d \in Definition : WellFormed(d)} :
          table = [c \in Codes(format) |-> IF c = varied THEN d ELSE Level]
    /\ value \in Values
    /\ phase = "idle" /\ frame = <<>> /\ routed = None /\ wire = <<>>
    /\ rx = <<>> /\ result = None

Params == {<<>>, <<2>>, <<2, 7>>, <<1, 2, 7>>}
\* Frames a client sends: commands with any parameters, addressed to this or
\* another radio, and what is no frame: cut off, or without its code.
Requests ==
    LET payloads == {c \o p : c \in Codes(format) \cup {<<90, 90>>}, p \in Params}
        whole == IF format = "ascii" THEN {x \o <<Semi>> : x \in payloads}
                 ELSE {Addressed(to, Controller, x) : to \in {Radio, Other}, x \in payloads}
    IN whole \cup {Front(x) : x \in whole}
             \cup IF format = "ascii" THEN {<<Semi>>} ELSE {Addressed(Radio, Controller, <<>>)}

Arrive ==
    /\ phase = "idle"
    /\ frame' \in Requests
    /\ phase' = "parse"
    /\ UNCHANGED <<format, echo, table, value, routed, wire, rx, result>>

\* `dispatch`, with the client's `query_with_bytes` or `set` up to the write.
Dispatch ==
    /\ phase = "parse"
    /\ LET r == Parse(frame)
       IN IF r.kind # "request" \/ Routeless(r) \/ ~Permitted(r)
          THEN /\ result' = Failure(IF r.kind # "request" THEN ErrorKind(r.kind)
                                    ELSE IF Routeless(r) THEN "UnsupportedOperation"
                                    ELSE "NotPermitted")
               /\ phase' = "done"
               /\ UNCHANGED <<routed, wire, rx>>
          ELSE /\ routed' = r
               /\ wire' = EncodeRequest(r.code, r.params)
               /\ rx' = IF echo THEN wire' ELSE <<>>
               /\ phase' = "radio"
               /\ UNCHANGED result
    /\ UNCHANGED <<format, echo, table, value, frame>>

\* External: what the radio makes of a frame.  The longest of its codes that
\* the payload starts with is the command.
RadioCommand ==
    LET payload == IF format = "ascii" THEN Front(wire) ELSE ParseEnvelope(wire).payload
        mine == {c \in Codes(format) : IsPrefix(c, payload)}
        code == CHOOSE c \in mine : \A e \in mine : Len(e) <= Len(c)
    IN [code |-> code, params |-> SubSeq(payload, Len(code) + 1, Len(payload))]

\* External: a read is answered with what was asked and the value; a write is
\* taken silently, or acknowledged on CI-V.
RadioTakes ==
    /\ phase = "radio"
    /\ LET c == RadioCommand
           d == table[c.code]
           reads == Len(c.params) \in d.query \cup d.selector
       IN rx' = rx \o (IF reads THEN EncodeResponse(c.code, c.params \o EncodeBcdBe(value, 2))
                       ELSE IF format = "civ" THEN EncodeOk ELSE <<>>)
    /\ IF IsRead(routed) THEN phase' = "read" /\ UNCHANGED result
       ELSE phase' = "done" /\ result' = [kind |-> "sent"]
    /\ UNCHANGED <<format, echo, table, value, frame, routed, wire>>

\* The session reads up to the end of a frame, and so `execute_query_bytes`
\* has its response.
ReadAnswer ==
    /\ phase = "read"
    /\ \E n \in 1..Len(rx) :
          /\ FrameComplete(SubSeq(rx, 1, n))
          /\ \A k \in 1..(n - 1) : ~FrameComplete(SubSeq(rx, 1, k))
          /\ result' = [kind |-> "answer", bytes |-> SubSeq(rx, 1, n)]
          /\ rx' = SubSeq(rx, n + 1, Len(rx))
    /\ phase' = "done"
    /\ UNCHANGED <<format, echo, table, value, frame, routed, wire>>

Next == Arrive \/ Dispatch \/ RadioTakes \/ ReadAnswer

Spec == Init /\ [][Next]_vars

-----------------------------------------------------------------------------
(* Properties. *)

\* What the broker parsed, the client encoded and the radio understands are
\* one command with one set of parameters: decoding and encoding again loses
\* and shifts nothing, sub-commands included (civ.rs find_command, "Sub-
\* commanded first").
ForwardedMeansTheSame ==
    wire # <<>> => RadioCommand = [code |-> routed.code, params |-> routed.params]

\* Nothing is left on an ASCII line after a request: what the radio answers
\* is awaited and what is awaited is answered, for every well-formed table,
\* selector reads in set shape included (broker.rs dispatch, is_read).
NothingLeftUnread ==
    format = "ascii" =>
        /\ phase = "done" => rx = <<>>
        /\ phase = "read" => rx # <<>>

\* A value read back is the radio's value: BCD never contains an end of
\* frame, and is decoded in the order it was written (civ.rs frame_complete,
\* decode_bcd_be).
ValueAsReported ==
    result.kind = "answer" /\ ~echo /\ format = "civ" =>
        LET payload == ParseEnvelope(result.bytes).payload
        IN DecodeBcdBe(SubSeq(payload, Len(payload) - 1, Len(payload)))
              = [kind |-> "value", value |-> value]

\* The answer to a query is not the query come back from the bus (civ.rs,
\* "Discarding an echo is not optional cleanup").
EchoIsNotTheAnswer == result.kind = "answer" => format = "ascii" \/ IsForUs(result.bytes)
=============================================================================
