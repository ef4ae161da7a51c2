----------------------------- MODULE UdpExchange -----------------------------
(***************************************************************************)
(* CAT over UDP: the client session (cat-transport-udp/src/session.rs, and *)
(* windows.rs with the same exchange on a worker thread) and the server's  *)
(* listener with its answer cache (cat-server/src/udp.rs, udp_windows.rs,  *)
(* dedup.rs).                                                              *)
(*                                                                         *)
(* The network loses, delays, duplicates and reorders: a datagram that was *)
(* sent may arrive at any later time, up to Copies times for a request and *)
(* without limit for a reply, or never.  The client itself sends every     *)
(* request once.  A datagram that fails decode_envelope, or comes from     *)
(* another address, is dropped by either side and changes nothing.         *)
(***************************************************************************)
EXTENDS Naturals, Sequences

CONSTANTS
    Addrs,       \* client socket addresses
    Sids,        \* session ids; random_session_id never repeats one here
    NoSid,
    MaxRequests, \* bound: requests of one session
    Copies,      \* bound: arrivals of one request datagram
    Capacity,    \* DEDUP_CACHE_CAPACITY of the server
    ClientCapacity \* DEDUP_CACHE_CAPACITY of the client

ASSUME SidAssumption == NoSid \notin Sids
ASSUME BoundAssumption == MaxRequests \in Nat \ {0} /\ Copies \in Nat \ {0}
ASSUME CapacityAssumption == Capacity \in Nat \ {0} /\ ClientCapacity \in Nat \ {0}

Rid == 1..MaxRequests
Key == Addrs \X Sids \X Rid
Task == Key \X (1..Copies)

VARIABLES
    session,   \* session_id of the client at each address
    nextId,    \* next_request_id
    waiting,   \* execute is in its receive loop
    completed, \* the client's RequestIdCache
    requests,  \* request datagrams that were sent
    replies,   \* reply datagrams that were sent: key and answer
    task,      \* handle_datagram's tasks, one per arrival
    answer,    \* what submit returned to a task
    order,     \* DedupCache::order
    responses, \* DedupCache::responses, as a set of key and answer
    peerIds,   \* peer_ids: the addresses registered so far, in ClientId order
    runs,      \* the requests the radio has executed
    outcome,   \* what execute returned, for each request
    got        \* the answer it returned

client == <<session, nextId, waiting, completed, outcome, got>>
cache == <<order, responses>>
vars == <<client, requests, replies, task, answer, cache, peerIds, runs>>

Init ==
    /\ session = [a \in Addrs |-> NoSid] /\ nextId = [a \in Addrs |-> 0]
    /\ waiting = [a \in Addrs |-> FALSE] /\ completed = [a \in Addrs |-> <<>>]
    /\ requests = {} /\ replies = {}
    /\ task = [t \in Task |-> "unborn"] /\ answer = [t \in Task |-> 0]
    /\ order = <<>> /\ responses = {} /\ peerIds = <<>>
    /\ runs = <<>>
    /\ outcome = [k \in Key |-> "unasked"] /\ got = [k \in Key |-> 0]

Current(a) == <<a, session[a], nextId[a]>>

-----------------------------------------------------------------------------
(* The client.                                                             *)

\* A new session at an address, the first or after a restart: the request ids
\* start again, and what the old session waited for is given up.
NewSession(a) ==
    /\ \E s \in Sids \ {session[b] : b \in Addrs} :
          /\ \A k \in Key : k[2] = s => outcome[k] = "unasked"
          /\ session' = [session EXCEPT ![a] = s]
    /\ nextId' = [nextId EXCEPT ![a] = 0]
    /\ waiting' = [waiting EXCEPT ![a] = FALSE]
    /\ completed' = [completed EXCEPT ![a] = <<>>]
    /\ outcome' = IF waiting[a] THEN [outcome EXCEPT ![Current(a)] = "failed"] ELSE outcome
    /\ UNCHANGED <<got, requests, replies, task, answer, cache, peerIds, runs>>

\* execute up to its receive loop.
SendRequest(a) ==
    /\ session[a] # NoSid /\ ~waiting[a] /\ nextId[a] < MaxRequests
    /\ LET k == <<a, session[a], nextId[a] + 1>>
       IN  /\ nextId' = [nextId EXCEPT ![a] = @ + 1]
           /\ requests' = requests \cup {k}
           /\ outcome' = [outcome EXCEPT ![k] = "pending"]
    /\ waiting' = [waiting EXCEPT ![a] = TRUE]
    /\ UNCHANGED <<session, completed, got, replies, task, answer, cache, peerIds, runs>>

\* The payload is too large or send_to fails: the id is used up all the same.
SendFails(a) ==
    /\ session[a] # NoSid /\ ~waiting[a] /\ nextId[a] < MaxRequests
    /\ nextId' = [nextId EXCEPT ![a] = @ + 1]
    /\ UNCHANGED <<session, waiting, completed, outcome, got, requests, replies, task, answer,
                   cache, peerIds, runs>>

\* Mutant: the oldest id is evicted one entry too late.
RememberCompletedLate(a) ==
    completed' = [completed EXCEPT ![a] =
                    Append(IF Len(@) > ClientCapacity THEN Tail(@) ELSE @, nextId[a])]

RememberCompleted(a) ==
    completed' = [completed EXCEPT ![a] =
                    Append(IF Len(@) >= ClientCapacity THEN Tail(@) ELSE @, nextId[a])]

\* The filters on a reply that reached the client's address.
Matches(a, m) == m[1] = Current(a)

\* A reply that passes; any other is dropped and the loop goes on.
Receive(a) ==
    /\ waiting[a]
    /\ \E m \in replies :
          /\ Matches(a, m)
          /\ got' = [got EXCEPT ![Current(a)] = m[2]]
    /\ outcome' = [outcome EXCEPT ![Current(a)] = "returned"]
    /\ RememberCompleted(a)
    /\ waiting' = [waiting EXCEPT ![a] = FALSE]
    /\ UNCHANGED <<session, nextId, requests, replies, task, answer, cache, peerIds, runs>>

\* The fixed deadline, or an I/O error from recv_from.
GiveUp(a) ==
    /\ waiting[a]
    /\ outcome' = [outcome EXCEPT ![Current(a)] = "failed"]
    /\ waiting' = [waiting EXCEPT ![a] = FALSE]
    /\ UNCHANGED <<session, nextId, completed, got, requests, replies, task, answer,
                   cache, peerIds, runs>>

-----------------------------------------------------------------------------
(* The server.                                                             *)

Cached(k) == {m \in responses : m[1] = k}

\* Mutant: the key leaves the session out.
CachedAnySession(k) == {m \in responses : m[1][1] = k[1] /\ m[1][3] = k[3]}

\* The key is (peer_addr, session_id, request_id).
Lookup(k) == Cached(k)

Registered == {peerIds[i] : i \in DOMAIN peerIds}

\* serve spawns a task, which looks into the cache and, if the answer is not
\* there, queues the request with the broker.
Arrive(t) ==
    /\ t[1] \in requests /\ task[t] = "unborn"
    /\ \A i \in 1..(t[2] - 1) : task[<<t[1], i>>] # "unborn"
    /\ \/ /\ Lookup(t[1]) # {}
          /\ replies' = replies \cup {<<t[1], m[2]>> : m \in Lookup(t[1])}
          /\ task' = [task EXCEPT ![t] = "done"]
          /\ UNCHANGED peerIds
       \/ /\ Lookup(t[1]) = {}
          /\ peerIds' = IF t[1][1] \in Registered THEN peerIds ELSE Append(peerIds, t[1][1])
          /\ task' = [task EXCEPT ![t] = "submitted"]
          /\ UNCHANGED replies
    /\ UNCHANGED <<client, requests, answer, cache, runs>>

\* The broker runs the request and answers, with the radio's answer or an
\* error text; run n's answer is n.
Execute(t) ==
    /\ task[t] = "submitted"
    /\ runs' = Append(runs, t[1])
    /\ answer' = [answer EXCEPT ![t] = Len(runs) + 1]
    /\ task' = [task EXCEPT ![t] = "answered"]
    /\ UNCHANGED <<client, requests, replies, cache, peerIds>>

\* The broker is gone, before or after it ran the request.
BrokerGone(t) ==
    /\ task[t] \in {"submitted", "answered"}
    /\ task' = [task EXCEPT ![t] = "done"]
    /\ UNCHANGED <<client, requests, replies, answer, cache, peerIds, runs>>

\* Mutant: the oldest answer is evicted one entry too early.
InsertEvictsEarly(k, v) ==
    LET full == Cached(k) = {} /\ order # <<>> /\ Len(order) + 1 >= Capacity
    IN  /\ order' = IF Cached(k) # {} THEN order
                    ELSE Append(IF full THEN Tail(order) ELSE order, k)
        /\ responses' = {m \in responses : m[1] # k /\ (full => m[1] # Head(order))}
                        \cup {<<k, v>>}

\* DedupCache::insert.
Insert(k, v) ==
    LET full == Cached(k) = {} /\ Len(order) >= Capacity
    IN  /\ order' = IF Cached(k) # {} THEN order
                    ELSE Append(IF full THEN Tail(order) ELSE order, k)
        /\ responses' = {m \in responses : m[1] # k /\ (full => m[1] # Head(order))}
                        \cup {<<k, v>>}

\* A reply that is lost on the way is one that no Receive takes.
Answer(t) ==
    /\ task[t] = "answered"
    /\ Insert(t[1], answer[t])
    /\ replies' = replies \cup {<<t[1], answer[t]>>}
    /\ task' = [task EXCEPT ![t] = "done"]
    /\ UNCHANGED <<client, requests, answer, peerIds, runs>>

Next ==
    \/ \E a \in Addrs : NewSession(a) \/ SendRequest(a) \/ SendFails(a) \/ Receive(a) \/ GiveUp(a)
    \/ \E t \in Task : Arrive(t) \/ Execute(t) \/ BrokerGone(t) \/ Answer(t)

Spec == Init /\ [][Next]_vars

-----------------------------------------------------------------------------
(* Properties.                                                             *)

\* Type correctness of client, network and server.
TypeOK ==
    /\ session \in [Addrs -> Sids \cup {NoSid}] /\ nextId \in [Addrs -> 0..MaxRequests]
    /\ waiting \in [Addrs -> BOOLEAN] /\ completed \in [Addrs -> Seq(Rid)]
    /\ requests \subseteq Key /\ replies \subseteq Key \X Nat
    /\ task \in [Task -> {"unborn", "submitted", "answered", "done"}] /\ answer \in [Task -> Nat]
    /\ order \in Seq(Key) /\ responses \subseteq Key \X Nat /\ peerIds \in Seq(Addrs)
    /\ runs \in Seq(Key)
    /\ outcome \in [Key -> {"unasked", "pending", "returned", "failed"}] /\ got \in [Key -> Nat]

\* DedupCache: the queue that decides evictions and the map that answers agree,
\* also when two tasks of one request insert the same key, and stay in bounds.
CacheConsistent ==
    /\ \A i, j \in DOMAIN order : order[i] = order[j] => i = j
    /\ {order[i] : i \in DOMAIN order} = {m[1] : m \in responses}
    /\ \A m, n \in responses : m[1] = n[1] => m = n
    /\ Len(order) <= Capacity

\* What CatSession::execute promises: the answer a caller gets was given by the
\* radio to this very request, across late and repeated replies, restarts that
\* reuse the request ids and answers taken from the cache.
Remote == INSTANCE RemoteCall WITH Calls <- Key, state <- outcome, runs <- runs, got <- got
AnswersItsOwn == Remote!Spec

\* A request is completed once: the client's cache lists rising ids, none of
\* them the one it waits for.
CompletedOnce ==
    \A a \in Addrs :
        /\ \A i \in 1..(Len(completed[a]) - 1) : completed[a][i] < completed[a][i + 1]
        /\ Len(completed[a]) <= ClientCapacity
        /\ \A i \in DOMAIN completed[a] : waiting[a] => completed[a][i] < nextId[a]

\* serve: "a duplicate incoming request must be answered from a cache without
\* re-executing it".  With room in the cache a copy that arrives after its request
\* was answered is never queued for the radio again.
AnsweredIsNotRun ==
    [][\A t \in Task : task[t] = "unborn" /\ task'[t] = "submitted"
                        => \A m \in replies : m[1] # t[1]]_vars

\* No call of a session is completed twice, by a duplicated reply or a late one; the
\* server's answer cache keeps its map and its queue the same; and while there is room
\* in it no request that was answered is run again (UdpCatSession::execute, DedupCache,
\* serve).
CompletedAtMostOnce == [](CompletedOnce /\ CacheConsistent) /\ AnsweredIsNotRun

\* The same sentence for a duplicate that comes while the first is at the radio.
NeverRunTwice == \A m, n \in DOMAIN runs : runs[m] = runs[n] => m = n
=============================================================================
