----------------------------- MODULE RemoteCall -----------------------------
(***************************************************************************)
(* What a remote CAT session promises its caller, whatever the transport:  *)
(* CatSession::execute (cat-transport-core/src/session.rs) returns an      *)
(* answer that the radio gave to this very request, or an error.  It does  *)
(* not promise how often the radio was asked.                              *)
(***************************************************************************)
EXTENDS Naturals, Sequences

CONSTANT Calls  \* the requests callers may make

VARIABLES
    state,  \* how far each call has come, for its caller
    runs,   \* the calls the radio has executed, in order
    got     \* which of the runs answered the call, 0 for none

callVars == <<state, runs, got>>

Init ==
    /\ state = [c \in Calls |-> "unasked"]
    /\ runs = <<>>
    /\ got = [c \in Calls |-> 0]

Ask(c) ==
    /\ state[c] = "unasked"
    /\ state' = [state EXCEPT ![c] = "pending"]
    /\ UNCHANGED <<runs, got>>

\* The radio may be asked late and again, but never for what nobody asked.
Run(c) ==
    /\ state[c] # "unasked"
    /\ runs' = Append(runs, c)
    /\ UNCHANGED <<state, got>>

Return(c) ==
    /\ state[c] = "pending"
    /\ \E n \in DOMAIN runs : runs[n] = c /\ got' = [got EXCEPT ![c] = n]
    /\ state' = [state EXCEPT ![c] = "returned"]
    /\ UNCHANGED runs

GiveUp(c) ==
    /\ state[c] = "pending"
    /\ state' = [state EXCEPT ![c] = "failed"]
    /\ UNCHANGED <<runs, got>>

Next == \E c \in Calls : Ask(c) \/ Run(c) \/ Return(c) \/ GiveUp(c)

Spec == Init /\ [][Next]_callVars
=============================================================================
