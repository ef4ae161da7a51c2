---------------------------- MODULE Diagnostics ----------------------------
(***************************************************************************)
(* The diagnostics engine (cat-diagnostics/src/engine.rs): it probes every  *)
(* command of a table in order, through a CatClient (cat-client) over a     *)
(* session that discards what is waiting before it sends, and gives every   *)
(* probe a bounded wait.  The radio may answer a probe late or never.       *)
(***************************************************************************)
EXTENDS Integers, Sequences, FiniteSets

CONSTANTS Tables   \* command tables: sequences of definitions

VARIABLES table,      \* the table under test
          at,         \* the definition being probed, from 1
          waiting,    \* the probe has been sent and not been answered
          requests,   \* history: what each definition's probe sent
          owed,       \* requests the radio has yet to answer, perhaps never
          unread,     \* answers that have arrived and nobody has read
          outcomes    \* DiagnosticReport::outcomes

diagnosticsVars == <<table, at, waiting, requests, owed, unread, outcomes>>

(* A definition: its query forms and set forms, with their widths, and whether it is declared readable. *)
HasQuery(def) == \E f \in def.query : f.min = 0 /\ f.max = 0

SelectorReads(def) == {f \in def.set : f.selector}

(* choose_probe: the query form, else a selector read; never a guess at a value to write. *)
ChooseProbe(def) ==
    CASE HasQuery(def) -> "query"
      [] ~HasQuery(def) /\ SelectorReads(def) # {} -> "selector"
      [] OTHER -> "none"

(* CommandDefinition::is_readable, which CatClient::query_with_param checks first. *)
IsReadable(def) == def.readable

DiagnosticsInit ==
    /\ table \in Tables
    /\ at = 1 /\ waiting = FALSE
    /\ requests = <<>> /\ owed = {} /\ unread = <<>> /\ outcomes = <<>>

Idle == ~waiting /\ at <= Len(table)

Record(result, response) ==
    /\ outcomes' = Append(outcomes, [id |-> at, result |-> result, response |-> response])
    /\ at' = at + 1
    /\ waiting' = FALSE

(* A definition with no read form is skipped; the client refuses one that is not readable. *)
Skip ==
    /\ Idle
    /\ \/ ChooseProbe(table[at]) = "none" /\ Record("Skipped", 0)
       \/ ChooseProbe(table[at]) # "none" /\ ~IsReadable(table[at]) /\ Record("Failure", 0)
    /\ requests' = Append(requests, "none")
    /\ UNCHANGED <<table, owed, unread>>

(* What waits to be read when a request goes out: nothing, the session has drained it. *)
Undrained == unread

Drained == <<>>

(* query_with_param: the session drains, then the request is on the wire. *)
Probe ==
    /\ Idle
    /\ ChooseProbe(table[at]) # "none"
    /\ IsReadable(table[at])
    /\ waiting' = TRUE
    /\ requests' = Append(requests, ChooseProbe(table[at]))
    /\ owed' = owed \cup {at}
    /\ unread' = Drained
    /\ UNCHANGED <<table, at, outcomes>>

(* The radio answers a request, in its own time: with a reading, or with its error reply. *)
RadioAnswers(request, ok) ==
    /\ request \in owed
    /\ owed' = owed \ {request}
    /\ unread' = Append(unread, [of |-> request, ok |-> ok, during |-> IF waiting THEN at ELSE 0])
    /\ UNCHANGED <<table, at, waiting, requests, outcomes>>

(* execute_query_bytes: the first answer to arrive is this exchange's. *)
ReadAnswer ==
    /\ waiting /\ unread # <<>>
    /\ Record(IF Head(unread).ok THEN "Success" ELSE "Failure", Head(unread).of)
    /\ unread' = Tail(unread)
    /\ UNCHANGED <<table, requests, owed>>

(* with_probe_timeout gives up; the session may also fail of itself. *)
GiveUpProbe(result) ==
    /\ waiting
    /\ Record(result, 0)
    /\ UNCHANGED <<table, requests, owed, unread>>

DiagnosticsNext ==
    \/ Skip
    \/ Probe
    \/ \E request \in 1 .. 4, ok \in BOOLEAN : RadioAnswers(request, ok)
    \/ ReadAnswer
    \/ \E result \in {"Timeout", "Failure"} : GiveUpProbe(result)

DiagnosticsFairness ==
    /\ WF_diagnosticsVars(Skip)
    /\ WF_diagnosticsVars(Probe)
    /\ WF_diagnosticsVars(GiveUpProbe("Timeout"))

DiagnosticsSpec == DiagnosticsInit /\ [][DiagnosticsNext]_diagnosticsVars /\ DiagnosticsFairness

-----------------------------------------------------------------------------
(* A run of diagnostics never writes to the radio, and an answer to an earlier probe that was     *)
(* there before a probe went out is never reported as that probe's (choose_probe, query_with_param *)
(* over a session that drains): one that is reported for another command came in during its probe. *)
ProbesReadTheirOwn ==
    /\ \A i \in DOMAIN requests : requests[i] # "write"
    /\ \A i \in DOMAIN outcomes : outcomes[i].id = i
    /\ (waiting /\ unread # <<>>) => Head(unread).during = at

(* "The radio answered within the configured timeout": a Success carries this command's answer. *)
SuccessIsItsOwn ==
    \A i \in DOMAIN outcomes : outcomes[i].result = "Success" => outcomes[i].response = i

(* Every definition gets its outcome, whatever the radio does (with_probe_timeout). *)
ReportCompletes == <>(Len(outcomes) = Len(table))
=============================================================================
