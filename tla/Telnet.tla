------------------------------- MODULE Telnet -------------------------------
(***************************************************************************)
(* The RFC 2217 wire: Telnet framing and the Com Port Control Option as    *)
(* bytes, and the decoder that is fed whatever each read happens to bring. *)
(*                                                                         *)
(* Source: cat-transport-rfc2217/src/codec.rs.                             *)
(***************************************************************************)
EXTENDS Integers, Sequences, SequencesExt

CONSTANTS
    Said,       \* the things either end may say
    MaxSaid     \* how many are said on the connection

VARIABLES
    said,       \* what is said, in order
    rest,       \* the bytes of it still on the wire
    decoder,
    heard       \* the events decoded, data byte by byte

vars == <<said, rest, decoder, heard>>

IAC == 255
SE == 240
SB == 250
WILL == 251
WONT == 252
DO == 253
DONT == 254
OptComPort == 44
SetControl == 5

\* What op makes of base and the members of s, one after the other, each result
\* computed once.
After(op(_, _), base, s) ==
    LET after[i \in 0..Len(s)] ==
          IF i = 0 THEN base
          ELSE CHOOSE next \in {op(acc, s[i]) : acc \in {after[i - 1]}} : TRUE
    IN after[Len(s)]

\* Every IAC is doubled, in data and in parameters.
Escape(bytes) == FlattenSeq([i \in DOMAIN bytes |->
                    IF bytes[i] = IAC THEN <<IAC, IAC>> ELSE <<bytes[i]>>])

EncodeData(data) == Escape(data)
Negotiate(verb, option) == <<IAC, verb, option>>
ComPort(command, params) ==
    <<IAC, SB, OptComPort, command>> \o Escape(params) \o <<IAC, SE>>

-----------------------------------------------------------------------------
(* The decoder. *)

NewDecoder == [state |-> "Data", verb |-> 0, option |-> 0, body |-> <<>>, data |-> <<>>]

DataEvent(bytes) == [kind |-> "data", bytes |-> bytes]
FlushData(dec, out) == IF dec.data = <<>> THEN out ELSE Append(out, DataEvent(dec.data))

\* A finished subnegotiation.  An empty Com Port body says nothing.
Finished(dec) ==
    IF dec.option # OptComPort
    THEN <<[kind |-> "other", option |-> dec.option, body |-> dec.body]>>
    ELSE IF dec.body = <<>> THEN <<>>
    ELSE <<[kind |-> "com", command |-> Head(dec.body), params |-> Tail(dec.body)]>>

Step(acc, b) ==
    LET dec == acc.dec
        to(s) == [acc EXCEPT !.dec.state = s]
    IN CASE dec.state = "Data" ->
              IF b = IAC THEN to("Iac") ELSE [acc EXCEPT !.dec.data = Append(@, b)]
         [] dec.state = "Iac" ->
              CASE b = IAC -> [to("Data") EXCEPT !.dec.data = Append(@, IAC)]
                [] b \in {WILL, WONT, DO, DONT} -> [to("Verb") EXCEPT !.dec.verb = b]
                [] b = SB -> to("SubOption")
                [] OTHER -> to("Data")
         [] dec.state = "Verb" ->
              [to("Data") EXCEPT
                 !.out = Append(FlushData(dec, @),
                                [kind |-> "negotiate", verb |-> dec.verb, option |-> b]),
                 !.dec.data = <<>>]
         [] dec.state = "SubOption" ->
              [to("SubBody") EXCEPT !.dec.option = b, !.dec.body = <<>>]
         [] dec.state = "SubBody" ->
              IF b = IAC THEN to("SubIac") ELSE [acc EXCEPT !.dec.body = Append(@, b)]
         [] dec.state = "SubIac" ->
              CASE b = IAC -> [to("SubBody") EXCEPT !.dec.body = Append(@, IAC)]
                [] b = SE -> [to("Data") EXCEPT !.out = FlushData(dec, @) \o Finished(dec),
                                                !.dec.data = <<>>, !.dec.body = <<>>]
                [] OTHER -> [to("Data") EXCEPT !.dec.body = <<>>]

Decode(dec, bytes) == After(Step, [dec |-> dec, out |-> <<>>], bytes)

\* One read's bytes: the events they complete, and where the decoder stands.
Push(dec, bytes) ==
    LET end == Decode(dec, bytes)
    IN [dec |-> [end.dec EXCEPT !.data = <<>>], out |-> FlushData(end.dec, end.out)]

-----------------------------------------------------------------------------
(* The connection: reads of any size. *)

\* The encoders, by what they are asked to send; "broken" is a subnegotiation
\* cut short by a command.
Encode(x) ==
    CASE x.kind = "data" -> EncodeData(x.bytes)
      [] x.kind = "negotiate" -> Negotiate(x.verb, x.option)
      [] x.kind = "com" -> ComPort(x.command, x.params)
      [] x.kind = "other" -> <<IAC, SB, x.option>> \o Escape(x.body) \o <<IAC, SE>>
      [] x.kind = "broken" -> <<IAC, SB, OptComPort, SetControl, IAC, DO>>

\* Events with their data byte by byte, as the tests' `flatten` compares them.
Flatten(events) ==
    FlattenSeq([i \in DOMAIN events |->
        IF events[i].kind = "data"
        THEN [j \in DOMAIN events[i].bytes |-> DataEvent(<<events[i].bytes[j]>>)]
        ELSE IF events[i].kind = "broken" THEN <<>> ELSE <<events[i]>>])

Init ==
    /\ said \in BoundedSeq(Said, MaxSaid)
    /\ rest = FlattenSeq([i \in DOMAIN said |-> Encode(said[i])])
    /\ decoder = NewDecoder /\ heard = <<>>

Read(n) ==
    /\ \E r \in {Push(decoder, SubSeq(rest, 1, n))} :
         decoder' = r.dec /\ heard' = heard \o Flatten(r.out)
    /\ rest' = SubSeq(rest, n + 1, Len(rest))
    /\ UNCHANGED said

Next == \E n \in 1..Len(rest) : Read(n)
Spec == Init /\ [][Next]_vars

\* However the reads cut the bytes, and whatever bytes are in the data and the
\* parameters, the other end hears what was said, in order, and all of it once
\* everything has come; a broken subnegotiation swallows nothing of what follows
\* (codec.rs, Decoder: "Feeding the same total byte sequence in different
\* chunkings always produces the same events").
HeardAsSaid ==
    /\ IsPrefix(heard, Flatten(said))
    /\ rest = <<>> => heard = Flatten(said)
=============================================================================
