-------------------------- MODULE UdpExchangeProofs --------------------------
(***************************************************************************)
(* The UDP exchange implements RemoteCall, for any number of clients,      *)
(* sessions, requests and copies, and for any cache size; its cache keeps  *)
(* its parts in step; and with room in it nothing is done twice once it    *)
(* has been answered.                                                      *)
(***************************************************************************)
EXTENDS UdpExchange, SequenceTheorems, FiniteSetTheorems, TLAPS

Types ==
    /\ session \in [Addrs -> Sids \cup {NoSid}] /\ nextId \in [Addrs -> 0..MaxRequests]
    /\ waiting \in [Addrs -> BOOLEAN]
    /\ requests \subseteq Key /\ replies \subseteq Key \X Nat /\ responses \subseteq Key \X Nat
    /\ task \in [Task -> {"unborn", "submitted", "answered", "done"}] /\ answer \in [Task -> Nat]
    /\ runs \in Seq(Key)
    /\ outcome \in [Key -> {"unasked", "pending", "returned", "failed"}] /\ got \in [Key -> Nat]

\* v is an answer that the radio gave to k.
GivenTo(k, v) == v \in DOMAIN runs /\ runs[v] = k

\* What is on the network, in a task or in the cache was asked for, and answers
\* the request whose key it carries.
Genuine ==
    /\ \A k \in requests : outcome[k] # "unasked"
    /\ \A t \in Task : task[t] # "unborn" => t[1] \in requests
    /\ \A t \in Task : task[t] = "answered" => GivenTo(t[1], answer[t])
    /\ \A m \in replies : GivenTo(m[1], m[2])
    /\ \A m \in responses : GivenTo(m[1], m[2])

\* A client waits for the request it asked for last, and has yet to ask for the
\* ones above it.
Asking ==
    \A a \in Addrs :
        /\ waiting[a] => session[a] # NoSid /\ nextId[a] > 0 /\ outcome[Current(a)] = "pending"
        /\ \A k \in Key : k[1] = a /\ k[2] = session[a] /\ k[3] > nextId[a] => outcome[k] = "unasked"

Inv == Types /\ Genuine /\ Asking

LEMMA InitOK == Init => Inv
  <1> SUFFICES ASSUME Init PROVE Inv
    OBVIOUS
  <1>1. Types
    BY EmptySeq, BoundAssumption DEF Init, Types
  <1>2. Genuine
    BY Zenon DEF Init, Genuine
  <1>3. Asking
    BY Zenon DEF Init, Asking
  <1> QED BY <1>1, <1>2, <1>3, Zenon DEF Inv

LEMMA CurrentIsKey ==
  ASSUME Inv, NEW a \in Addrs, waiting[a]
  PROVE  Current(a) \in Key /\ outcome[Current(a)] = "pending"
  BY BoundAssumption DEF Inv, Types, Asking, Current, Key, Rid

\* What a step of the network, the server or the clock leaves to the client.
LEMMA ServerKeeps ==
  ASSUME Inv, UNCHANGED <<client, requests>>
  PROVE  Asking'
  BY Zenon DEF Inv, Asking, client, Current

LEMMA SendRequestOK ==
  ASSUME Inv, NEW a \in Addrs, SendRequest(a)
  PROVE  Inv' /\ Remote!Next
  <1> DEFINE k == <<a, session[a], nextId[a] + 1>>
  <1>1. k \in Key /\ outcome[k] = "unasked"
    <2>1. k \in Key
      BY BoundAssumption DEF SendRequest, Inv, Types, Key, Rid
    <2>2. k[1] = a /\ k[2] = session[a] /\ k[3] > nextId[a]
      BY DEF Inv, Types
    <2> QED BY <2>1, <2>2, Zenon DEF Inv, Asking
  <1>2. /\ outcome' = [outcome EXCEPT ![k] = "pending"] /\ requests' = requests \cup {k}
        /\ nextId' = [nextId EXCEPT ![a] = @ + 1] /\ waiting' = [waiting EXCEPT ![a] = TRUE]
        /\ UNCHANGED <<session, got, replies, task, answer, responses, runs>>
    BY Zenon DEF SendRequest, cache
  <1> HIDE DEF k
  <1>3. Types'
    BY <1>1, <1>2, BoundAssumption DEF Inv, Types, SendRequest
  <1>4. Genuine'
    BY <1>1, <1>2, Zenon DEF Inv, Types, Genuine, GivenTo
  <1>5. Asking'
    <2> SUFFICES ASSUME NEW b \in Addrs
                 PROVE  /\ waiting'[b] => session'[b] # NoSid /\ nextId'[b] > 0 /\ outcome'[Current(b)'] = "pending"
                        /\ \A j \in Key : j[1] = b /\ j[2] = session'[b] /\ j[3] > nextId'[b] => outcome'[j] = "unasked"
      BY Zenon DEF Asking
    <2>1. CASE b = a
      <3>1. Current(a)' = k /\ nextId'[a] > 0 /\ session'[a] # NoSid
        BY <1>2 DEF Current, k, Inv, Types, SendRequest
      <3>2. ASSUME NEW j \in Key, j[1] = a, j[2] = session[a], j[3] > nextId[a] + 1
            PROVE  outcome'[j] = "unasked"
        <4>1. j # k
          BY <3>2 DEF k, Inv, Types
        <4>2. j[3] > nextId[a]
          BY <3>2 DEF Inv, Types, Key, Rid
        <4> QED BY <1>1, <1>2, <3>2, <4>1, <4>2, Zenon DEF Inv, Types, Asking
      <3> QED BY <1>1, <1>2, <2>1, <3>1, <3>2, Zenon DEF Inv, Types
    <2>2. CASE b # a
      <3>1. Current(b)' = Current(b) /\ Current(b) # k
        BY <1>2, <2>2, Zenon DEF Current, k, Inv, Types
      <3>2. ASSUME NEW j \in Key, j[1] = b
            PROVE  outcome'[j] = outcome[j]
        BY <1>1, <1>2, <2>2, <3>2 DEF k, Inv, Types
      <3>3. waiting[b] => outcome'[Current(b)] = "pending"
        BY <1>1, <1>2, <3>1, CurrentIsKey, Zenon DEF Inv, Types
      <3> QED BY <1>2, <2>2, <3>1, <3>2, <3>3 DEF Inv, Types, Asking
    <2> QED BY <2>1, <2>2, Zenon
  <1>6. Remote!Ask(k)
    BY <1>1, <1>2, Zenon DEF Remote!Ask
  <1> QED BY <1>1, <1>3, <1>4, <1>5, <1>6, Zenon DEF Inv, Remote!Next

\* The end of a wait: the current request returns or is given up.
LEMMA WaitEnds ==
  ASSUME Inv, NEW a \in Addrs, waiting[a], NEW o \in {"returned", "failed"},
         outcome' = [outcome EXCEPT ![Current(a)] = o],
         waiting' = [waiting EXCEPT ![a] = FALSE], got' \in [Key -> Nat],
         UNCHANGED <<session, nextId, requests, replies, task, answer, responses, runs>>
  PROVE  Inv'
  <1>1. Current(a) \in Key /\ outcome[Current(a)] = "pending"
    BY CurrentIsKey, Zenon
  <1>2. Types'
    BY <1>1, Zenon DEF Inv, Types
  <1>3. Genuine'
    BY <1>1, Zenon DEF Inv, Types, Genuine, GivenTo
  <1>4. Asking'
    <2>1. ASSUME NEW b \in Addrs, waiting'[b]
          PROVE  session'[b] # NoSid /\ nextId'[b] > 0 /\ outcome'[Current(b)'] = "pending"
      <3>1. b # a /\ waiting[b]
        BY <2>1, Zenon DEF Inv, Types
      <3>2. Current(b)' = Current(b) /\ Current(b) # Current(a) /\ Current(b) \in Key
        BY <3>1, CurrentIsKey, Zenon DEF Current
      <3> QED BY <1>1, <3>1, <3>2 DEF Inv, Types, Asking
    <2>2. ASSUME NEW b \in Addrs, NEW k \in Key, k[1] = b, k[2] = session[b], k[3] > nextId[b]
          PROVE  outcome'[k] = "unasked"
      BY <1>1, <2>2 DEF Inv, Types, Asking
    <2> QED BY <2>1, <2>2, Zenon DEF Asking
  <1> QED BY <1>2, <1>3, <1>4, Zenon DEF Inv

LEMMA ReceiveOK ==
  ASSUME Inv, NEW a \in Addrs, Receive(a)
  PROVE  Inv' /\ Remote!Next
  <1>1. Current(a) \in Key /\ outcome[Current(a)] = "pending"
    BY CurrentIsKey, Zenon DEF Receive
  <1>2. PICK m \in replies : Matches(a, m) /\ got' = [got EXCEPT ![Current(a)] = m[2]]
    BY Zenon DEF Receive
  <1>3. m[2] \in DOMAIN runs /\ runs[m[2]] = Current(a) /\ m[2] \in Nat
    BY <1>2, Zenon DEF Inv, Types, Genuine, GivenTo, Matches
  <1>4. Inv'
    <2>1. got' \in [Key -> Nat]
      BY <1>1, <1>2, <1>3, Zenon DEF Inv, Types
    <2> QED BY <2>1, WaitEnds, Zenon DEF Receive, cache
  <1>5. Remote!Return(Current(a))
    BY <1>1, <1>2, <1>3, Zenon DEF Receive, Remote!Return
  <1> QED BY <1>1, <1>4, <1>5, Zenon DEF Remote!Next

LEMMA GiveUpOK ==
  ASSUME Inv, NEW a \in Addrs, GiveUp(a)
  PROVE  Inv' /\ Remote!Next
  <1>1. Current(a) \in Key /\ outcome[Current(a)] = "pending"
    BY CurrentIsKey, Zenon DEF GiveUp
  <1>2. Inv'
    BY WaitEnds, Zenon DEF GiveUp, cache, Inv, Types
  <1>3. Remote!GiveUp(Current(a))
    BY <1>1, Zenon DEF GiveUp, Remote!GiveUp
  <1> QED BY <1>1, <1>2, <1>3, Zenon DEF Remote!Next

LEMMA NewSessionOK ==
  ASSUME Inv, NEW a \in Addrs, NewSession(a)
  PROVE  Inv' /\ [Remote!Next]_(Remote!callVars)
  <1>1. PICK s \in Sids : /\ \A k \in Key : k[2] = s => outcome[k] = "unasked"
                          /\ session' = [session EXCEPT ![a] = s]
    BY Zenon DEF NewSession
  <1>2. /\ nextId' = [nextId EXCEPT ![a] = 0] /\ waiting' = [waiting EXCEPT ![a] = FALSE]
        /\ UNCHANGED <<got, requests, replies, task, answer, responses, runs>>
    BY Zenon DEF NewSession, cache
  <1>3. waiting[a] => Current(a) \in Key /\ outcome[Current(a)] = "pending"
    BY CurrentIsKey, Zenon
  <1>4. /\ waiting[a] => outcome' = [outcome EXCEPT ![Current(a)] = "failed"]
        /\ ~waiting[a] => outcome' = outcome
    BY Zenon DEF NewSession
  <1>5. /\ outcome' \in [Key -> {"unasked", "pending", "returned", "failed"}]
        /\ \A k \in Key : outcome[k] = "unasked" <=> outcome'[k] = "unasked"
        /\ \A k \in Key : k[1] # a => outcome'[k] = outcome[k]
    <2>1. CASE waiting[a]
      <3>1. \A k \in Key : k # Current(a) => outcome'[k] = outcome[k]
        BY <2>1, <1>3, <1>4, Zenon DEF Inv, Types
      <3>2. outcome'[Current(a)] = "failed" /\ Current(a)[1] = a
        BY <2>1, <1>3, <1>4, Zenon DEF Inv, Types, Current
      <3>3. outcome' \in [Key -> {"unasked", "pending", "returned", "failed"}]
        BY <2>1, <1>3, <1>4, Zenon DEF Inv, Types
      <3> QED BY <2>1, <1>3, <3>1, <3>2, <3>3, Zenon
    <2>2. CASE ~waiting[a]
      BY <2>2, <1>4, Zenon DEF Inv, Types
    <2> QED BY <2>1, <2>2, Zenon
  <1>6. Types'
    BY <1>1, <1>2, <1>5, BoundAssumption DEF Inv, Types
  <1>7. Genuine'
    BY <1>2, <1>5, Zenon DEF Inv, Types, Genuine, GivenTo
  <1>8. Asking'
    <2> SUFFICES ASSUME NEW b \in Addrs
                 PROVE  /\ waiting'[b] => session'[b] # NoSid /\ nextId'[b] > 0 /\ outcome'[Current(b)'] = "pending"
                        /\ \A j \in Key : j[1] = b /\ j[2] = session'[b] /\ j[3] > nextId'[b] => outcome'[j] = "unasked"
      BY Zenon DEF Asking
    <2>1. CASE b = a
      BY <2>1, <1>1, <1>2, <1>5, Zenon DEF Inv, Types
    <2>2. CASE b # a
      <3>1. Current(b)' = Current(b) /\ waiting'[b] = waiting[b] /\ session'[b] = session[b] /\ nextId'[b] = nextId[b]
        BY <2>2, <1>1, <1>2, Zenon DEF Inv, Types, Current
      <3>2. waiting[b] => Current(b) \in Key /\ Current(b)[1] # a
        BY <2>2, CurrentIsKey, Zenon DEF Current
      <3> QED BY <3>1, <3>2, <1>5 DEF Inv, Types, Asking
    <2> QED BY <2>1, <2>2, Zenon
  <1>9. [Remote!Next]_(Remote!callVars)
    <2>1. CASE waiting[a]
      <3>1. Remote!GiveUp(Current(a))
        BY <2>1, <1>2, <1>3, <1>4, Zenon DEF Remote!GiveUp
      <3> QED BY <2>1, <1>3, <3>1, Zenon DEF Remote!Next
    <2>2. CASE ~waiting[a]
      BY <2>2, <1>2, <1>4, Zenon DEF Remote!callVars
    <2> QED BY <2>1, <2>2, Zenon
  <1> QED BY <1>6, <1>7, <1>8, <1>9, Zenon DEF Inv

LEMMA SendFailsOK ==
  ASSUME Inv, NEW a \in Addrs, SendFails(a)
  PROVE  Inv' /\ UNCHANGED Remote!callVars
  <1>1. /\ nextId' = [nextId EXCEPT ![a] = @ + 1]
        /\ ~waiting[a] /\ nextId[a] < MaxRequests
        /\ UNCHANGED <<session, waiting, outcome, got, requests, replies, task, answer, responses, runs>>
    BY Zenon DEF SendFails, cache
  <1>2. Types'
    BY <1>1, BoundAssumption DEF Inv, Types
  <1>3. Genuine'
    BY <1>1, Zenon DEF Inv, Genuine, GivenTo
  <1>4. Asking'
    <2>1. ASSUME NEW b \in Addrs, waiting[b]
          PROVE  Current(b)' = Current(b) /\ nextId'[b] = nextId[b]
      BY <2>1, <1>1, Zenon DEF Inv, Types, Current
    <2>2. ASSUME NEW b \in Addrs, NEW j \in Key, j[3] > nextId'[b]
          PROVE  j[3] > nextId[b]
      BY <2>2, <1>1 DEF Inv, Types, Key, Rid
    <2> QED BY <1>1, <2>1, <2>2 DEF Inv, Asking
  <1> QED BY <1>1, <1>2, <1>3, <1>4, Zenon DEF Inv, Remote!callVars

LEMMA ArriveOK ==
  ASSUME Inv, NEW t \in Task, Arrive(t)
  PROVE  Inv' /\ UNCHANGED Remote!callVars
  <1>1. Asking'
    BY ServerKeeps, Zenon DEF Arrive
  <1>2. /\ replies' \subseteq replies \cup {<<t[1], m[2]>> : m \in Lookup(t[1])}
        /\ \E s \in {"done", "submitted"} : task' = [task EXCEPT ![t] = s]
        /\ t[1] \in requests
        /\ UNCHANGED <<session, nextId, waiting, outcome, got, requests, answer, responses, runs>>
    BY Zenon DEF Arrive, client, cache
  <1>3. \A m \in Lookup(t[1]) : m \in responses /\ m[1] = t[1] /\ m[2] \in Nat
    BY Zenon DEF Lookup, Cached, Inv, Types
  <1>4. t[1] \in Key
    BY Zenon DEF Task
  <1>5. Types'
    <2>1. replies' \subseteq Key \X Nat
      BY <1>2, <1>3, <1>4 DEF Inv, Types
    <2> QED BY <1>2, <2>1, Zenon DEF Inv, Types
  <1>6. Genuine'
    <2>1. \A m \in replies' : GivenTo(m[1], m[2])
      BY <1>2, <1>3 DEF Inv, Genuine
    <2> QED BY <1>2, <2>1, Zenon DEF Inv, Types, Genuine, GivenTo
  <1> QED BY <1>1, <1>2, <1>5, <1>6, Zenon DEF Inv, Remote!callVars

LEMMA ExecuteOK ==
  ASSUME Inv, NEW t \in Task, Execute(t)
  PROVE  Inv' /\ Remote!Next
  <1>1. Asking'
    BY ServerKeeps, Zenon DEF Execute
  <1>2. /\ runs' = Append(runs, t[1]) /\ answer' = [answer EXCEPT ![t] = Len(runs) + 1]
        /\ task' = [task EXCEPT ![t] = "answered"] /\ task[t] = "submitted"
        /\ UNCHANGED <<session, nextId, waiting, outcome, got, requests, replies, responses>>
    BY Zenon DEF Execute, client, cache
  <1>3. t[1] \in Key /\ t[1] \in requests
    BY <1>2, Zenon DEF Task, Inv, Genuine
  <1>4. /\ runs' \in Seq(Key) /\ DOMAIN runs' = 1..(Len(runs) + 1) /\ runs'[Len(runs) + 1] = t[1]
        /\ DOMAIN runs = 1..Len(runs) /\ Len(runs) \in Nat
        /\ \A i \in DOMAIN runs : runs'[i] = runs[i]
    BY <1>2, <1>3, AppendProperties DEF Inv, Types
  <1>5. \A k, v : GivenTo(k, v) => GivenTo(k, v)'
    BY <1>4 DEF GivenTo
  <1>6. Types'
    BY <1>2, <1>4 DEF Inv, Types
  <1>7. Genuine'
    <2>1. ASSUME NEW u \in Task, task'[u] = "answered"
          PROVE  GivenTo(u[1], answer[u])'
      <3>1. CASE u = t
        BY <3>1, <1>2, <1>4 DEF Inv, Types, GivenTo
      <3>2. CASE u # t
        <4>1. task[u] = "answered" /\ answer'[u] = answer[u]
          BY <2>1, <3>2, <1>2, Zenon DEF Inv, Types
        <4>2. GivenTo(u[1], answer[u])
          BY <4>1, Zenon DEF Inv, Genuine
        <4> QED BY <4>1, <4>2, <1>4 DEF GivenTo
      <3> QED BY <3>1, <3>2, Zenon
    <2>2. (\A m \in replies : GivenTo(m[1], m[2]))' /\ (\A m \in responses : GivenTo(m[1], m[2]))'
      BY <1>2, <1>5, Zenon DEF Inv, Genuine
    <2>3. (\A k \in requests : outcome[k] # "unasked")' /\ (\A u \in Task : task[u] # "unborn" => u[1] \in requests)'
      BY <1>2, <1>3, Zenon DEF Inv, Types, Genuine
    <2> QED BY <2>1, <2>2, <2>3, Zenon DEF Genuine
  <1>8. Remote!Run(t[1])
    BY <1>2, <1>3, Zenon DEF Remote!Run, Inv, Genuine
  <1> QED BY <1>1, <1>3, <1>6, <1>7, <1>8, Zenon DEF Inv, Remote!Next

LEMMA BrokerGoneOK ==
  ASSUME Inv, NEW t \in Task, BrokerGone(t)
  PROVE  Inv' /\ UNCHANGED Remote!callVars
  <1>1. Asking'
    BY ServerKeeps, Zenon DEF BrokerGone
  <1>2. /\ task[t] # "unborn" /\ task' = [task EXCEPT ![t] = "done"]
        /\ UNCHANGED <<session, nextId, waiting, outcome, got, requests, replies, answer, responses, runs>>
    BY Zenon DEF BrokerGone, client, cache
  <1>3. Types' /\ Genuine'
    BY <1>2, Zenon DEF Inv, Types, Genuine, GivenTo
  <1> QED BY <1>1, <1>2, <1>3, Zenon DEF Inv, Remote!callVars

LEMMA AnswerOK ==
  ASSUME Inv, NEW t \in Task, Answer(t)
  PROVE  Inv' /\ UNCHANGED Remote!callVars
  <1>1. Asking'
    BY ServerKeeps, Zenon DEF Answer
  <1>2. /\ task[t] = "answered" /\ task' = [task EXCEPT ![t] = "done"]
        /\ replies' = replies \cup {<<t[1], answer[t]>>}
        /\ responses' \subseteq responses \cup {<<t[1], answer[t]>>}
        /\ UNCHANGED <<session, nextId, waiting, outcome, got, requests, answer, runs>>
    BY Zenon DEF Answer, client, Insert
  <1>3. t[1] \in Key /\ answer[t] \in Nat /\ GivenTo(t[1], answer[t])
    BY <1>2, Zenon DEF Task, Inv, Types, Genuine
  <1>4. Types'
    BY <1>2, <1>3 DEF Inv, Types
  <1>5. Genuine'
    <2>1. \A m \in replies' \cup responses' : GivenTo(m[1], m[2])
      BY <1>2, <1>3 DEF Inv, Genuine
    <2> QED BY <1>2, <2>1, Zenon DEF Inv, Types, Genuine, GivenTo
  <1> QED BY <1>1, <1>2, <1>4, <1>5, Zenon DEF Inv, Remote!callVars

LEMMA StepOK == Inv /\ [Next]_vars => Inv' /\ [Remote!Next]_(Remote!callVars)
  <1> SUFFICES ASSUME Inv, [Next]_vars PROVE Inv' /\ [Remote!Next]_(Remote!callVars)
    OBVIOUS
  <1>1. ASSUME NEW a \in Addrs, NewSession(a) \/ SendRequest(a) \/ SendFails(a) \/ Receive(a) \/ GiveUp(a)
        PROVE  Inv' /\ [Remote!Next]_(Remote!callVars)
    BY <1>1, NewSessionOK, SendRequestOK, SendFailsOK, ReceiveOK, GiveUpOK, Zenon
  <1>2. ASSUME NEW t \in Task, Arrive(t) \/ Execute(t) \/ BrokerGone(t) \/ Answer(t)
        PROVE  Inv' /\ [Remote!Next]_(Remote!callVars)
    BY <1>2, ArriveOK, ExecuteOK, BrokerGoneOK, AnswerOK, Zenon
  <1>3. CASE UNCHANGED vars
    <2>1. UNCHANGED <<session, nextId, waiting, outcome, got, requests, replies, task, answer, responses, runs>>
      BY <1>3, Zenon DEF vars, client, cache
    <2> QED BY <2>1, Zenon DEF Inv, Types, Genuine, GivenTo, Asking, Current, Remote!callVars
  <1> QED BY <1>1, <1>2, <1>3, Zenon DEF Next

\* UdpSession::execute keeps the promise of CatSession::execute: an answer that
\* it returns is the radio's answer to that very request, whatever the network
\* repeats or delays, however often clients restart, and whatever the cache
\* evicts.
THEOREM ImplementsRemoteCall == Spec => AnswersItsOwn
  <1>1. Init => Remote!Init
    BY Zenon DEF Init, Remote!Init
  <1> QED BY <1>1, InitOK, StepOK, PTL DEF Spec, AnswersItsOwn, Remote!Spec

-----------------------------------------------------------------------------
(* The answer cache.                                                       *)

CacheTypes == order \in Seq(Key) /\ responses \subseteq Key \X Nat

\* The keys in the queue.
Queued == {order[i] : i \in DOMAIN order}

LEMMA InsertConsistent ==
  ASSUME CacheTypes, CacheConsistent, NEW k \in Key, NEW v \in Nat, Insert(k, v)
  PROVE  CacheTypes' /\ CacheConsistent'
  <1>1. CASE Cached(k) # {}
    <2>1. order' = order /\ responses' = {m \in responses : m[1] # k} \cup {<<k, v>>}
      BY <1>1, Zenon DEF Insert
    <2>2. PICK old \in responses : old[1] = k
      BY <1>1, Zenon DEF Cached
    <2>3. {m[1] : m \in responses'} = {m[1] : m \in responses}
      <3>1. \A m \in responses' : \E n \in responses : m[1] = n[1]
        BY <2>1, <2>2
      <3>2. \A n \in responses : \E m \in responses' : m[1] = n[1]
        <4> SUFFICES ASSUME NEW n \in responses PROVE \E m \in responses' : m[1] = n[1]
          OBVIOUS
        <4>1. CASE n[1] = k
          <5>1. <<k, v>> \in responses' /\ <<k, v>>[1] = k
            BY <2>1, Zenon
          <5> QED BY <4>1, <5>1, Zenon
        <4>2. CASE n[1] # k
          BY <4>2, <2>1, Zenon
        <4> QED BY <4>1, <4>2, Zenon
      <3> QED BY <3>1, <3>2, Zenon
    <2>4. \A m, n \in responses' : m[1] = n[1] => m = n
      BY <2>1 DEF CacheConsistent
    <2>5. responses' \subseteq Key \X Nat
      BY <2>1 DEF CacheTypes
    <2>6. CacheTypes'
      BY <2>1, <2>5, Zenon DEF CacheTypes
    <2>7. {order'[i] : i \in DOMAIN order'} = {m[1] : m \in responses'}
      BY <2>1, <2>3, Zenon DEF CacheConsistent
    <2> QED BY <2>1, <2>4, <2>6, <2>7, Zenon DEF CacheConsistent
  <1>2. CASE Cached(k) = {}
    <2> DEFINE kept == IF Len(order) >= Capacity THEN Tail(order) ELSE order
    <2>1. /\ order' = Append(kept, k)
          /\ responses' = {m \in responses : Len(order) >= Capacity => m[1] # Head(order)} \cup {<<k, v>>}
      BY <1>2, Zenon DEF Insert, Cached
    <2>2. \A i \in DOMAIN order : order[i] # k
      BY <1>2 DEF CacheConsistent, Cached
    <2>3. /\ kept \in Seq(Key) /\ Len(kept) < Capacity /\ k \notin {kept[i] : i \in DOMAIN kept}
          /\ \A i, j \in DOMAIN kept : kept[i] = kept[j] => i = j
          /\ {kept[i] : i \in DOMAIN kept} =
                {m[1] : m \in {n \in responses : Len(order) >= Capacity => n[1] # Head(order)}}
      <3>1. CASE Len(order) >= Capacity
        <4>1. order # <<>> /\ Len(order) \in Nat /\ DOMAIN order = 1..Len(order) /\ Len(order) <= Capacity
          BY <3>1, CapacityAssumption, LenProperties, EmptySeq DEF CacheTypes, CacheConsistent
        <4>2. /\ kept \in Seq(Key) /\ Len(kept) = Len(order) - 1 /\ DOMAIN kept = 1..(Len(order) - 1)
              /\ \A i \in DOMAIN kept : i + 1 \in DOMAIN order /\ kept[i] = order[i + 1]
          BY <3>1, <4>1, HeadTailProperties, LenProperties DEF CacheTypes
        <4> HIDE DEF kept
        <4>3. Head(order) = order[1] /\ 1 \in DOMAIN order
          BY <4>1, HeadTailProperties DEF CacheTypes
        <4>4. {kept[i] : i \in DOMAIN kept} = Queued \ {order[1]}
          <5>1. \A i \in DOMAIN kept : order[i + 1] \in Queued /\ order[i + 1] # order[1]
            BY <4>1, <4>2, <4>3 DEF CacheConsistent, Queued
          <5>2. ASSUME NEW i \in DOMAIN order, i # 1
                PROVE  i - 1 \in DOMAIN kept /\ kept[i - 1] = order[i]
            BY <4>1, <4>2, <5>2
          <5>3. \A i \in DOMAIN kept : kept[i] \in Queued \ {order[1]}
            BY <4>2, <5>1, Zenon
          <5>4. \A q \in Queued \ {order[1]} : \E i \in DOMAIN kept : kept[i] = q
            BY <5>2, Zenon DEF Queued
          <5> QED BY <5>3, <5>4
        <4>5. Queued = {m[1] : m \in responses}
          BY Zenon DEF CacheConsistent, Queued
        <4>6. {m[1] : m \in {n \in responses : n[1] # Head(order)}} = Queued \ {order[1]}
          BY <4>3, <4>5, Zenon
        <4>7. \A i, j \in DOMAIN kept : kept[i] = kept[j] => i = j
          BY <4>1, <4>2 DEF CacheConsistent
        <4>8. k \notin Queued
          BY <2>2, Zenon DEF Queued
        <4>9. {n \in responses : Len(order) >= Capacity => n[1] # Head(order)} =
                 {n \in responses : n[1] # Head(order)}
          BY <3>1, Zenon
        <4>10. Len(kept) < Capacity
          BY <4>1, <4>2, CapacityAssumption
        <4>11. k \notin {kept[i] : i \in DOMAIN kept}
          BY <4>4, <4>8, Zenon
        <4> QED BY <4>2, <4>4, <4>6, <4>7, <4>9, <4>10, <4>11, Zenon
      <3>2. CASE ~(Len(order) >= Capacity)
        <4>1. Len(order) < Capacity
          BY <3>2, CapacityAssumption, LenProperties DEF CacheTypes
        <4>2. {n \in responses : Len(order) >= Capacity => n[1] # Head(order)} = responses
          BY <3>2, Zenon
        <4> HIDE DEF kept
        <4>3. kept = order
          BY <3>2, Zenon DEF kept
        <4>4. kept \in Seq(Key) /\ Len(kept) < Capacity
          BY <4>1, <4>3, Zenon DEF CacheTypes
        <4>5. k \notin {kept[i] : i \in DOMAIN kept} /\ \A i, j \in DOMAIN kept : kept[i] = kept[j] => i = j
          BY <2>2, <4>3, Zenon DEF CacheConsistent
        <4>6. {kept[i] : i \in DOMAIN kept} = {m[1] : m \in responses}
          BY <4>3, Zenon DEF CacheConsistent
        <4> QED BY <4>2, <4>4, <4>5, <4>6, Zenon
      <3> QED BY <3>1, <3>2, Zenon
    <2> HIDE DEF kept
    <2>4. /\ order' \in Seq(Key) /\ Len(order') = Len(kept) + 1 /\ DOMAIN order' = 1..(Len(kept) + 1)
          /\ DOMAIN kept = 1..Len(kept) /\ Len(kept) \in Nat
          /\ order'[Len(kept) + 1] = k /\ \A i \in DOMAIN kept : order'[i] = kept[i]
      BY <2>1, <2>3, AppendProperties, LenProperties
    <2>5. \A i, j \in DOMAIN order' : order'[i] = order'[j] => i = j
      BY <2>3, <2>4
    <2>6. {order'[i] : i \in DOMAIN order'} = {kept[i] : i \in DOMAIN kept} \cup {k}
      BY <2>3, <2>4
    <2>7. {m[1] : m \in responses'} =
             {m[1] : m \in {n \in responses : Len(order) >= Capacity => n[1] # Head(order)}} \cup {k}
      <3> DEFINE old == {n \in responses : Len(order) >= Capacity => n[1] # Head(order)}
      <3>1. responses' = old \cup {<<k, v>>}
        BY <2>1, Zenon
      <3>2. <<k, v>>[1] = k
        OBVIOUS
      <3> HIDE DEF old
      <3>3. {m[1] : m \in responses'} = {m[1] : m \in old} \cup {k}
        BY <3>1, <3>2, Zenon
      <3> QED BY <3>3, Zenon DEF old
    <2>8. \A m, n \in responses' : m[1] = n[1] => m = n
      <3>1. \A m \in responses : m[1] # k
        BY <1>2, Zenon DEF Cached
      <3> QED BY <2>1, <3>1 DEF CacheConsistent
    <2>9. Len(order') <= Capacity
      BY <2>3, <2>4, CapacityAssumption
    <2>10. responses' \subseteq Key \X Nat
      BY <2>1 DEF CacheTypes
    <2> QED BY <2>3, <2>4, <2>5, <2>6, <2>7, <2>8, <2>9, <2>10, Zenon DEF CacheTypes, CacheConsistent
  <1> QED BY <1>1, <1>2, Zenon

LEMMA CacheStepOK ==
  ASSUME Inv, CacheTypes, CacheConsistent, [Next]_vars
  PROVE  CacheTypes' /\ CacheConsistent'
  <1>1. ASSUME NEW t \in Task, Answer(t) PROVE CacheTypes' /\ CacheConsistent'
    <2>1. t[1] \in Key /\ answer[t] \in Nat
      BY Zenon DEF Task, Inv, Types
    <2> QED BY <1>1, <2>1, InsertConsistent, Zenon DEF Answer
  <1>2. CASE UNCHANGED cache
    BY <1>2, Zenon DEF cache, CacheTypes, CacheConsistent
  <1>3. UNCHANGED cache \/ \E t \in Task : Answer(t)
    BY Zenon DEF Next, vars, NewSession, SendRequest, SendFails, Receive, GiveUp, Arrive, Execute, BrokerGone
  <1> QED BY <1>1, <1>2, <1>3, Zenon

\* DedupCache keeps its queue and its map in step for every capacity: a key is
\* queued once however many tasks insert it, and what is evicted from one is
\* evicted from the other.
THEOREM CacheStaysConsistent == Spec => []CacheConsistent
  <1>1. Init => CacheTypes /\ CacheConsistent
    BY EmptySeq, CapacityAssumption DEF Init, CacheTypes, CacheConsistent
  <1>2. Inv /\ CacheTypes /\ CacheConsistent /\ [Next]_vars => (CacheTypes /\ CacheConsistent)'
    BY CacheStepOK, Zenon
  <1> QED BY <1>1, <1>2, InitOK, StepOK, PTL DEF Spec

-----------------------------------------------------------------------------
(* The requests a client has completed.                                    *)

\* Ids that rise, no more of them than the client's cache holds.
Rising(c) ==
    /\ c \in Seq(Rid) /\ Len(c) <= ClientCapacity
    /\ \A i \in 1..(Len(c) - 1) : c[i] < c[i + 1]

DoneInv ==
    /\ completed \in [Addrs -> Seq(Rid)]
    /\ \A a \in Addrs :
        /\ Rising(completed[a])
        /\ \A i \in DOMAIN completed[a] :
              completed[a][i] <= nextId[a] /\ (waiting[a] => completed[a][i] < nextId[a])

\* RequestIdCache's push keeps the ids rising and the cache in bounds.
LEMMA PushRises ==
  ASSUME NEW c, Rising(c), NEW n \in Rid, \A i \in DOMAIN c : c[i] < n,
         NEW d, d = Append(IF Len(c) >= ClientCapacity THEN Tail(c) ELSE c, n)
  PROVE  Rising(d) /\ \A i \in DOMAIN d : d[i] <= n
  <1> DEFINE kept == IF Len(c) >= ClientCapacity THEN Tail(c) ELSE c
  <1>1. c \in Seq(Rid) /\ Len(c) \in Nat /\ DOMAIN c = 1..Len(c) /\ Rid \subseteq Nat /\ n \in Nat
    BY LenProperties DEF Rising, Rid
  <1>2. /\ kept \in Seq(Rid) /\ Len(kept) \in Nat /\ Len(kept) < ClientCapacity
        /\ \A i \in 1..Len(kept) : kept[i] \in Nat /\ kept[i] < n
        /\ \A i \in 1..(Len(kept) - 1) : kept[i] < kept[i + 1]
    <2>1. CASE Len(c) >= ClientCapacity
      <3>1. c # <<>>
        BY <1>1, <2>1, CapacityAssumption
      <3>2. /\ kept \in Seq(Rid) /\ Len(kept) = Len(c) - 1
            /\ \A i \in 1..Len(kept) : i + 1 \in 1..Len(c) /\ kept[i] = c[i + 1]
        BY <1>1, <2>1, <3>1, HeadTailProperties
      <3>3. \A i \in 1..Len(c) : c[i] \in Nat
        BY <1>1, ElementOfSeq, Zenon
      <3> HIDE DEF kept
      <3>4. Len(kept) \in Nat /\ Len(kept) < ClientCapacity
        BY <1>1, <2>1, <3>2, CapacityAssumption DEF Rising
      <3>5. \A i \in 1..Len(kept) : kept[i] \in Nat /\ kept[i] < n
        BY <1>1, <3>2, <3>3, Zenon
      <3>6. ASSUME NEW i \in 1..(Len(kept) - 1)
            PROVE  kept[i] < kept[i + 1]
        <4>1. /\ i \in 1..Len(kept) /\ i + 1 \in 1..Len(kept)
              /\ i + 1 \in 1..(Len(c) - 1)
          BY <1>1, <3>2, <3>4
        <4> QED BY <3>2, <4>1, Zenon DEF Rising
      <3> QED BY <3>2, <3>4, <3>5, <3>6, Zenon
    <2>2. CASE ~(Len(c) >= ClientCapacity)
      <3>1. \A i \in 1..Len(c) : c[i] \in Nat
        BY <1>1, ElementOfSeq, Zenon
      <3> QED BY <1>1, <2>2, <3>1, CapacityAssumption DEF Rising
    <2> QED BY <2>1, <2>2, Zenon
  <1> HIDE DEF kept
  <1>3. d = Append(kept, n)
    BY Zenon DEF kept
  <1>4. /\ d \in Seq(Rid) /\ Len(d) = Len(kept) + 1 /\ DOMAIN d = 1..(Len(kept) + 1)
        /\ d[Len(kept) + 1] = n /\ \A i \in 1..Len(kept) : d[i] = kept[i]
    <2>1. kept \in Seq(Rid) /\ n \in Rid
      BY <1>2, Zenon
    <2>2. /\ d \in Seq(Rid) /\ Len(d) = Len(kept) + 1
          /\ d[Len(kept) + 1] = n /\ \A i \in 1..Len(kept) : d[i] = kept[i]
      <3>1. /\ Append(kept, n) \in Seq(Rid) /\ Len(Append(kept, n)) = Len(kept) + 1
            /\ Append(kept, n)[Len(kept) + 1] = n /\ \A i \in 1..Len(kept) : Append(kept, n)[i] = kept[i]
        <4>1. Append(kept, n) \in Seq(Rid)
          BY <2>1
        <4>2. Len(Append(kept, n)) = Len(kept) + 1
          BY <2>1
        <4>3. Append(kept, n)[Len(kept) + 1] = n
          BY <2>1
        <4>4. \A i \in 1..Len(kept) : Append(kept, n)[i] = kept[i]
          BY <2>1
        <4> QED BY <4>1, <4>2, <4>3, <4>4, Zenon
      <3> QED BY <1>3, <3>1, Zenon
    <2>3. DOMAIN d = 1..Len(d)
      BY <2>2, LenProperties, Zenon
    <2> QED BY <2>2, <2>3, Zenon
  <1>5. Len(d) <= ClientCapacity
    BY <1>2, <1>4, CapacityAssumption
  <1>6. ASSUME NEW i \in 1..(Len(d) - 1)
        PROVE  d[i] < d[i + 1]
    <2>1. i \in 1..Len(kept) /\ (i = Len(kept) \/ (i \in 1..(Len(kept) - 1) /\ i + 1 \in 1..Len(kept)))
      BY <1>2, <1>4
    <2> QED BY <1>2, <1>4, <2>1, Zenon
  <1>7. ASSUME NEW i \in DOMAIN d
        PROVE  d[i] <= n
    <2>1. CASE i \in 1..Len(kept)
      <3>1. d[i] \in Nat /\ d[i] < n
        BY <1>2, <1>4, <2>1, Zenon
      <3> QED BY <1>1, <3>1
    <2>2. CASE i = Len(kept) + 1
      <3>1. d[i] = n
        BY <1>4, <2>2, Zenon
      <3> QED BY <1>1, <3>1
    <2> QED BY <1>2, <1>4, <2>1, <2>2
  <1> QED BY <1>4, <1>5, <1>6, <1>7, Zenon DEF Rising

LEMMA DoneStepOK ==
  ASSUME Inv, DoneInv, [Next]_vars
  PROVE  DoneInv'
  <1>1. ASSUME NEW a \in Addrs, Receive(a) PROVE DoneInv'
    <2> DEFINE c == completed[a]
               d == Append(IF Len(c) >= ClientCapacity THEN Tail(c) ELSE c, nextId[a])
    <2>1. /\ completed' = [completed EXCEPT ![a] = d] /\ UNCHANGED nextId /\ waiting[a]
          /\ waiting' = [waiting EXCEPT ![a] = FALSE]
      BY <1>1, Zenon DEF Receive, RememberCompleted
    <2>2. nextId[a] \in Rid
      BY <2>1, CurrentIsKey, Zenon DEF Current, Key
    <2>3. Rising(d) /\ \A i \in DOMAIN d : d[i] <= nextId[a]
      <3>1. Rising(c) /\ \A i \in DOMAIN c : c[i] < nextId[a]
        BY <2>1, Zenon DEF DoneInv
      <3> HIDE DEF c
      <3> QED BY <2>2, <3>1, PushRises, Zenon
    <2> HIDE DEF d
    <2>4. completed' \in [Addrs -> Seq(Rid)]
      BY <2>1, <2>3, Zenon DEF DoneInv, Rising
    <2>5. ASSUME NEW b \in Addrs, b # a
          PROVE  completed'[b] = completed[b] /\ waiting'[b] = waiting[b]
      BY <2>1, <2>5, Zenon DEF DoneInv, Inv, Types
    <2>6. completed'[a] = d /\ waiting'[a] = FALSE
      BY <2>1, Zenon DEF DoneInv, Inv, Types
    <2> QED BY <2>1, <2>3, <2>4, <2>5, <2>6, Zenon DEF DoneInv, Rising
  <1>2. ASSUME NEW a \in Addrs, NewSession(a) PROVE DoneInv'
    <2>1. /\ completed' = [completed EXCEPT ![a] = <<>>] /\ nextId' = [nextId EXCEPT ![a] = 0]
          /\ waiting' = [waiting EXCEPT ![a] = FALSE]
      BY <1>2, Zenon DEF NewSession
    <2>2. Rising(<<>>) /\ DOMAIN <<>> = {}
      BY CapacityAssumption, EmptySeq DEF Rising
    <2>3. completed' \in [Addrs -> Seq(Rid)]
      BY <2>1, EmptySeq, Zenon DEF DoneInv
    <2>4. ASSUME NEW b \in Addrs, b # a
          PROVE  completed'[b] = completed[b] /\ waiting'[b] = waiting[b] /\ nextId'[b] = nextId[b]
      BY <2>1, <2>4, Zenon DEF DoneInv, Inv, Types
    <2>5. completed'[a] = <<>>
      BY <2>1, Zenon DEF DoneInv
    <2> QED BY <2>2, <2>3, <2>4, <2>5, Zenon DEF DoneInv, Rising
  <1>3. ASSUME NEW a \in Addrs, SendRequest(a) \/ SendFails(a) \/ GiveUp(a) PROVE DoneInv'
    <2>1. UNCHANGED completed
      BY <1>3, Zenon DEF SendRequest, SendFails, GiveUp
    <2>2. ASSUME NEW b \in Addrs
          PROVE  /\ nextId[b] \in Nat /\ nextId'[b] \in Nat /\ nextId'[b] >= nextId[b]
                 /\ waiting'[b] => nextId'[b] > nextId[b] \/ (waiting[b] /\ nextId'[b] = nextId[b])
      BY <1>3 DEF SendRequest, SendFails, GiveUp, Inv, Types
    <2>3. \A b \in Addrs : \A i \in DOMAIN completed[b] : completed[b][i] \in Nat
      <3>1. Rid \subseteq Nat
        BY DEF Rid
      <3> QED BY <3>1, ElementOfSeq, LenProperties, Zenon DEF DoneInv, Rising
    <2>4. \A b \in Addrs : \A i \in DOMAIN completed[b] :
             completed[b][i] <= nextId'[b] /\ (waiting'[b] => completed[b][i] < nextId'[b])
      BY <2>2, <2>3 DEF DoneInv
    <2> QED BY <2>1, <2>4, Zenon DEF DoneInv, Rising
  <1>4. CASE UNCHANGED <<completed, nextId, waiting>>
    BY <1>4, Zenon DEF DoneInv, Rising
  <1>5. ASSUME NEW t \in Task, Arrive(t) \/ Execute(t) \/ BrokerGone(t) \/ Answer(t)
        PROVE  UNCHANGED <<completed, nextId, waiting>>
    BY <1>5, Zenon DEF Arrive, Execute, BrokerGone, Answer, client
  <1> QED BY <1>1, <1>2, <1>3, <1>4, <1>5, Zenon DEF Next, vars, client

-----------------------------------------------------------------------------
(* A cache with room for the requests of every session.                    *)

\* A session id belongs to one address, and so does every request made under it.
Apart ==
    /\ \A a, b \in Addrs : session[a] = session[b] /\ session[a] # NoSid => a = b
    /\ \A k \in requests : \A a \in Addrs : k[2] = session[a] => k[1] = a
    /\ \A k, l \in requests : k[2] = l[2] => k[1] = l[1]

LEMMA ApartStepOK ==
  ASSUME Inv, Apart, [Next]_vars
  PROVE  Apart'
  <1>1. ASSUME NEW a \in Addrs, NewSession(a) PROVE Apart'
    <2>1. PICK s \in Sids \ {session[b] : b \in Addrs} :
             /\ \A k \in Key : k[2] = s => outcome[k] = "unasked"
             /\ session' = [session EXCEPT ![a] = s]
      BY <1>1, Zenon DEF NewSession
    <2>2. UNCHANGED requests
      BY <1>1, Zenon DEF NewSession
    <2>3. \A k \in requests : k[2] # s
      BY <2>1, Zenon DEF Inv, Types, Genuine
    <2>4. session'[a] = s /\ \A b \in Addrs : b # a => session'[b] = session[b] /\ session[b] # s
      BY <2>1, Zenon DEF Inv, Types
    <2>5. ASSUME NEW b \in Addrs, NEW c \in Addrs, session'[b] = session'[c], session'[b] # NoSid
          PROVE  b = c
      <3>1. CASE b # a /\ c # a
        BY <2>4, <2>5, <3>1 DEF Apart
      <3>2. CASE b = a \/ c = a
        BY <2>4, <2>5, <3>2, Zenon
      <3> QED BY <3>1, <3>2, Zenon
    <2>6. ASSUME NEW k \in requests, NEW b \in Addrs, k[2] = session'[b]
          PROVE  k[1] = b
      <3>1. b # a
        BY <2>3, <2>4, <2>6, Zenon
      <3> QED BY <2>4, <2>6, <3>1 DEF Apart
    <2> QED BY <2>2, <2>5, <2>6, Zenon DEF Apart
  <1>2. ASSUME NEW a \in Addrs, SendRequest(a) PROVE Apart'
    <2> DEFINE k == <<a, session[a], nextId[a] + 1>>
    <2>1. requests' = requests \cup {k} /\ UNCHANGED session /\ session[a] # NoSid
      BY <1>2, Zenon DEF SendRequest
    <2>2. k[1] = a /\ k[2] = session[a]
      OBVIOUS
    <2> HIDE DEF k
    <2>3. \A l \in requests : l[2] = k[2] => l[1] = k[1]
      BY <2>2, Zenon DEF Apart
    <2>4. \A b \in Addrs : session[b] = k[2] => b = k[1]
      BY <2>1, <2>2, Zenon DEF Apart
    <2> QED BY <2>1, <2>3, <2>4, Zenon DEF Apart
  <1>3. CASE UNCHANGED <<session, requests>>
    BY <1>3, Zenon DEF Apart
  <1>4. ASSUME NEW a \in Addrs, SendFails(a) \/ Receive(a) \/ GiveUp(a)
        PROVE  UNCHANGED <<session, requests>>
    BY <1>4, Zenon DEF SendFails, Receive, GiveUp
  <1>5. ASSUME NEW t \in Task, Arrive(t) \/ Execute(t) \/ BrokerGone(t) \/ Answer(t)
        PROVE  UNCHANGED <<session, requests>>
    BY <1>5, Zenon DEF Arrive, Execute, BrokerGone, Answer, client
  <1> QED BY <1>1, <1>2, <1>3, <1>4, <1>5, Zenon DEF Next, vars, client

\* What was answered and not evicted is in the cache.
Answered ==
    /\ \A m \in responses : m[1] \in requests
    /\ \A m \in replies : Cached(m[1]) # {}

\* There is room for an answer that is not in the cache yet: the queue holds
\* other requests only, and there are no more than Capacity.
LEMMA Room ==
  ASSUME IsFiniteSet(Sids), Cardinality(Sids) * MaxRequests <= Capacity,
         Inv, CacheTypes, CacheConsistent, Apart, Answered,
         NEW k \in requests, Cached(k) = {}
  PROVE  Len(order) < Capacity
  <1> DEFINE S == Sids \X Rid
             T == S \ {<<k[2], k[3]>>}
             f == [i \in 1..Len(order) |-> <<order[i][2], order[i][3]>>]
  <1>1. requests \subseteq Key /\ k \in Key
    BY Zenon DEF Inv, Types
  <1>2. Len(order) \in Nat /\ DOMAIN order = 1..Len(order)
    BY LenProperties, Zenon DEF CacheTypes
  <1>3. ASSUME NEW i \in 1..Len(order) PROVE order[i] \in requests /\ order[i] # k
    <2>1. order[i] \in {order[j] : j \in DOMAIN order}
      BY <1>2, Zenon
    <2>2. order[i] \in {m[1] : m \in responses}
      BY <2>1, Zenon DEF CacheConsistent
    <2>3. PICK m \in responses : order[i] = m[1]
      BY <2>2, Zenon
    <2> QED BY <2>3, Zenon DEF Answered, Cached
  <1>4. \A x, y \in requests : x[2] = y[2] /\ x[3] = y[3] => x = y
    BY <1>1 DEF Apart, Key
  <1>5. \A x \in requests : <<x[2], x[3]>> \in S
    BY <1>1, Zenon DEF Key
  <1>6. IsFiniteSet(S) /\ Cardinality(S) \in Nat /\ Cardinality(S) <= Capacity
    <2>1. IsFiniteSet(Rid) /\ Cardinality(Rid) = MaxRequests
      BY FS_Interval, BoundAssumption DEF Rid
    <2> QED BY <2>1, FS_Product, FS_CardinalityType, Zenon
  <1> HIDE DEF S
  <1>7. f \in Injection(1..Len(order), T)
    <2>1. f \in [1..Len(order) -> T]
      BY <1>3, <1>4, <1>5, Zenon
    <2>2. \A i, j \in 1..Len(order) : f[i] = f[j] => i = j
      BY <1>2, <1>3, <1>4, Zenon DEF CacheConsistent
    <2> QED BY <2>1, <2>2, Zenon DEF Injection, IsInjective
  <1> HIDE DEF f
  <1>8. IsFiniteSet(T) /\ Cardinality(T) = Cardinality(S) - 1
    BY <1>5, <1>6, FS_RemoveElement, Zenon
  <1> HIDE DEF T
  <1>9. Cardinality(1..Len(order)) <= Cardinality(T)
    BY <1>7, <1>8, FS_Injection, Zenon
  <1>10. Cardinality(1..Len(order)) = Len(order)
    <2>1. 1 \in Int /\ Len(order) \in Int
      BY <1>2
    <2>2. Cardinality(1..Len(order)) = IF 1 > Len(order) THEN 0 ELSE Len(order) - 1 + 1
      BY <2>1, FS_Interval, Zenon
    <2> QED BY <1>2, <2>2
  <1> QED BY <1>2, <1>6, <1>8, <1>9, <1>10, CapacityAssumption

LEMMA AnsweredStepOK ==
  ASSUME IsFiniteSet(Sids), Cardinality(Sids) * MaxRequests <= Capacity,
         Inv, CacheTypes, CacheConsistent, Apart, Answered, [Next]_vars
  PROVE  Answered'
  <1>1. ASSUME NEW t \in Task, Answer(t) PROVE Answered'
    <2> DEFINE k == t[1]
               v == answer[t]
    <2>1. k \in requests /\ UNCHANGED requests /\ replies' = replies \cup {<<k, v>>}
      BY <1>1, Zenon DEF Answer, Inv, Genuine
    <2>2. responses' = {m \in responses : m[1] # k} \cup {<<k, v>>}
      <3> DEFINE full == Cached(k) = {} /\ Len(order) >= Capacity
      <3>1. ~full
        <4>1. Len(order) \in Nat
          BY LenProperties, Zenon DEF CacheTypes
        <4>2. CASE Cached(k) = {}
          <5>1. Len(order) < Capacity
            BY <2>1, <4>2, Room, Zenon
          <5> QED BY <4>1, <5>1, CapacityAssumption
        <4> QED BY <4>2, Zenon
      <3>2. responses' = {m \in responses : m[1] # k /\ (full => m[1] # Head(order))} \cup {<<k, v>>}
        BY <1>1, Zenon DEF Answer, Insert
      <3> HIDE DEF full
      <3> QED BY <3>1, <3>2, Zenon
    <2>3. <<k, v>> \in responses' /\ <<k, v>>[1] = k
      BY <2>2, Zenon
    <2> HIDE DEF k, v
    <2>4. \A m \in responses' : m[1] \in requests'
      BY <2>1, <2>2, <2>3, Zenon DEF Answered
    <2>5. ASSUME NEW m \in replies' PROVE \E n \in responses' : n[1] = m[1]
      <3>1. CASE m[1] = k
        BY <2>3, <3>1, Zenon
      <3>2. CASE m[1] # k
        <4>1. m \in replies
          BY <2>1, <2>3, <3>2, Zenon
        <4>2. PICK n \in responses : n[1] = m[1]
          BY <4>1, Zenon DEF Answered, Cached
        <4>3. n \in responses'
          BY <2>2, <3>2, <4>2, Zenon
        <4> QED BY <4>2, <4>3, Zenon
      <3> QED BY <3>1, <3>2, Zenon
    <2> QED BY <2>4, <2>5, Zenon DEF Answered, Cached
  <1>2. ASSUME NEW t \in Task, Arrive(t) PROVE Answered'
    <2>1. UNCHANGED <<requests, responses>>
      BY <1>2, Zenon DEF Arrive, cache
    <2>2. ASSUME NEW m \in replies' \ replies PROVE Cached(m[1]) # {}
      <3>1. PICK n \in Cached(t[1]) : m = <<t[1], n[2]>>
        BY <1>2, <2>2, Zenon DEF Arrive, Lookup
      <3>2. m[1] = t[1]
        BY <3>1, Zenon
      <3> QED BY <3>1, <3>2, Zenon
    <2> QED BY <2>1, <2>2, Zenon DEF Answered, Cached
  <1>3. CASE UNCHANGED <<replies, responses>> /\ requests \subseteq requests'
    BY <1>3, Zenon DEF Answered, Cached
  <1>4. ASSUME NEW a \in Addrs, NewSession(a) \/ SendRequest(a) \/ SendFails(a) \/ Receive(a) \/ GiveUp(a)
        PROVE  UNCHANGED <<replies, responses>> /\ requests \subseteq requests'
    BY <1>4, Zenon DEF NewSession, SendRequest, SendFails, Receive, GiveUp, cache
  <1>5. ASSUME NEW t \in Task, Execute(t) \/ BrokerGone(t)
        PROVE  UNCHANGED <<replies, responses>> /\ requests \subseteq requests'
    BY <1>5, Zenon DEF Execute, BrokerGone, cache
  <1> QED BY <1>1, <1>2, <1>3, <1>4, <1>5, Zenon DEF Next, vars, cache

\* No call of a session is completed twice, and DedupCache keeps its queue and
\* its map in step; and as long as it has room for every request of every
\* session, serve answers a copy of an answered request from it and never hands
\* it to the radio again, whatever the network repeats or delays and however
\* often clients restart.
THEOREM CallsCompleteOnce ==
  ASSUME IsFiniteSet(Sids), Cardinality(Sids) * MaxRequests <= Capacity
  PROVE  Spec => CompletedAtMostOnce
  <1> DEFINE All == Inv /\ DoneInv /\ CacheTypes /\ CacheConsistent /\ Apart /\ Answered
             NotRun == \A t \in Task : task[t] = "unborn" /\ task'[t] = "submitted"
                                         => \A m \in replies : m[1] # t[1]
  <1>1. Init => All
    <2> SUFFICES ASSUME Init PROVE All
      OBVIOUS
    <2>1. CacheTypes /\ CacheConsistent
      BY EmptySeq, CapacityAssumption DEF Init, CacheTypes, CacheConsistent
    <2>2. Rising(<<>>) /\ DOMAIN <<>> = {} /\ <<>> \in Seq(Rid)
      BY CapacityAssumption, EmptySeq DEF Rising
    <2>3. DoneInv
      BY <2>2, Zenon DEF Init, DoneInv
    <2>4. Apart /\ Answered
      BY Zenon DEF Init, Apart, Answered
    <2> QED BY <2>1, <2>3, <2>4, InitOK, Zenon
  <1>2. All /\ [Next]_vars => All'
    BY StepOK, DoneStepOK, CacheStepOK, ApartStepOK, AnsweredStepOK, Zenon
  <1>3. All => CompletedOnce /\ CacheConsistent
    BY Zenon DEF DoneInv, Rising, CompletedOnce
  <1>4. All /\ [Next]_vars => [NotRun]_vars
    <2> SUFFICES ASSUME All, [Next]_vars, NEW t \in Task, task[t] = "unborn", task'[t] = "submitted"
                 PROVE  \A m \in replies : m[1] # t[1]
      BY Zenon
    <2>1. Arrive(t)
      <3>1. ASSUME NEW u \in Task, Arrive(u) PROVE u = t
        BY <3>1, Zenon DEF Arrive, Inv, Types
      <3>2. ASSUME NEW u \in Task, Execute(u) \/ BrokerGone(u) \/ Answer(u) PROVE FALSE
        BY <3>2, Zenon DEF Execute, BrokerGone, Answer, Inv, Types
      <3>3. ~(UNCHANGED task)
        BY Zenon
      <3>4. ASSUME NEW a \in Addrs, NewSession(a) \/ SendRequest(a) \/ SendFails(a) \/ Receive(a) \/ GiveUp(a)
            PROVE  UNCHANGED task
        BY <3>4, Zenon DEF NewSession, SendRequest, SendFails, Receive, GiveUp
      <3> QED BY <3>1, <3>2, <3>3, <3>4, Zenon DEF Next, vars
    <2>2. Cached(t[1]) = {}
      BY <2>1, Zenon DEF Arrive, Lookup, Inv, Types
    <2> QED BY <2>2, Zenon DEF Answered
  <1> HIDE DEF All
  <1> QED BY <1>1, <1>2, <1>3, <1>4, PTL DEF Spec, CompletedAtMostOnce, AnsweredIsNotRun
=============================================================================
