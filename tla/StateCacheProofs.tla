-------------------------- MODULE StateCacheProofs --------------------------
(***************************************************************************)
(* For any number of rigctl clients, queued commands, fields and values,   *)
(* and with every fault of the radio: what the cache says of the radio is  *)
(* so, and a set that is skipped as redundant finds the radio there.       *)
(***************************************************************************)
EXTENDS StateCache, TLAPS

\* What a task has asked for, and a poll that has read, or still asks for, every
\* field, unless a read has failed.
AskInv ==
    /\ DOMAIN radio = Fields /\ DOMAIN cached = Fields
    /\ DOMAIN op = Tasks /\ stage \in [Tasks -> {"none", "queued", "landed", "ended"}]
    /\ ok \in [Tasks -> BOOLEAN]
    /\ known \in BOOLEAN /\ assumed \in BOOLEAN /\ skipped \in Seq(Commands)
    /\ \A c \in Clients : stage[c] # "none" => op[c] \in Commands
    /\ DOMAIN sample \subseteq Fields /\ (phase # "poll" => sample = Unread)
    /\ phase = "poll" /\ stage[Pump] # "none" => op[Pump].field \in asked
    /\ phase = "poll" => /\ asked \subseteq Fields \cup {Levels}
                         /\ \/ Fields \subseteq asked \cup DOMAIN sample
                            \/ sample = Unread /\ asked = {Levels}
    /\ phase = "poll" /\ stage[Pump] \in {"landed", "ended"} /\ ok[Pump] =>
          op[Pump].field \in {Levels} \cup DOMAIN sample

\* One exchange is on the wire, and one has ended and not been resumed from.
WireInv ==
    /\ \A t, u \in Tasks : stage[t] = "landed" /\ stage[u] = "landed" => t = u
    /\ \A t, u \in Tasks : stage[t] = "ended" /\ stage[u] = "ended" => t = u

\* An acknowledged set of f that the cache has yet to hear of.
Owed(c, f) == stage[c] \in {"landed", "ended"} /\ ok[c] /\ op[c].field = f
Pending(f) == \E c \in Clients : Owed(c, f)

\* What the cache, and a poll that no set has raced, know of the radio.
TruthInv ==
    /\ known /\ ~assumed => \A f \in Fields \ unseen : cached[f] = radio[f] \/ Pending(f)
    /\ known => \A f \in Patched \ (unseen \cup deaf) : cached[f] = radio[f] \/ Pending(f)
    /\ phase = "poll" /\ pollGen = generation =>
          \A f \in DOMAIN sample \ pollUnseen : sample[f] = radio[f] \/ Pending(f)

\* What the cache is about to be patched with is so, unless another set is on
\* the wire by then; and a poll that is about to be published has seen what
\* happened to the set on the wire.
PatchInv ==
    \A c \in Clients, f \in Fields : Owed(c, f) =>
        /\ \/ f \in unseen \cup deaf \/ radio[f] = op[c].val
           \/ stage[c] = "ended" /\ \E d \in Clients : stage[d] = "landed" /\ Owed(d, f)
        /\ phase = "poll" /\ stage[Pump] = "ended" =>
              f \in pollUnseen \cup deaf \/ radio[f] = op[c].val

AgeInv ==
    /\ age \in Fresh..Old /\ seenAge \in Fresh..Old /\ pollAge \in Fresh..Old /\ pollSeenAge \in Fresh..Old
    /\ known => age >= seenAge
    /\ pollAge >= pollSeenAge
    /\ generation \in Nat /\ pollGen \in Nat /\ pollGen <= generation

\* The inductive invariant behind CacheIsTrue and SkipIsSafe.
CacheInv == AskInv /\ WireInv /\ TruthInv /\ PatchInv /\ AgeInv

-----------------------------------------------------------------------------
(* Frames: what most steps leave alone.                                    *)

\* No exchange of a client lands, ends or is resumed from.
SetsStill ==
    \A c \in Clients : stage[c] \in {"landed", "ended"} \/ stage'[c] \in {"landed", "ended"} =>
        stage'[c] = stage[c] /\ op'[c] = op[c] /\ ok'[c] = ok[c]

CacheStill == UNCHANGED <<radio, known, cached, assumed, generation, deaf, unseen>>

\* The poll goes on with what it has read, or with nothing.
PollStill ==
    /\ phase' = "poll" => \/ sample' = Unread
                          \/ phase = "poll" /\ UNCHANGED <<sample, pollUnseen, pollGen>>
    /\ phase' = "poll" /\ stage'[Pump] = "ended" =>
          phase = "poll" /\ stage[Pump] = "ended" /\ UNCHANGED pollUnseen

LEMMA PumpIsNoClient == Pump \in Tasks /\ Pump \notin Clients /\ \A c \in Clients : c \in Tasks /\ c # Pump
  BY ClientAssumption, Zenon DEF Tasks

LEMMA NoneRead == DOMAIN Unread = {}
  BY DEF Unread

LEMMA OwedKept ==
  ASSUME SetsStill
  PROVE  /\ \A c \in Clients : \A f : Owed(c, f)' <=> Owed(c, f)
         /\ \A f : Pending(f)' <=> Pending(f)
  BY Zenon DEF SetsStill, Owed, Pending

LEMMA TruthKept ==
  ASSUME TruthInv, PatchInv, SetsStill, CacheStill, PollStill
  PROVE  TruthInv' /\ PatchInv'
  <1>1. TruthInv'
    BY OwedKept, NoneRead, Zenon DEF TruthInv, CacheStill, PollStill
  <1>2. PatchInv'
    <2> SUFFICES ASSUME NEW c \in Clients, NEW f \in Fields, Owed(c, f)'
                 PROVE  /\ \/ f \in unseen' \cup deaf' \/ radio'[f] = op'[c].val
                           \/ stage'[c] = "ended" /\ \E d \in Clients : stage'[d] = "landed" /\ Owed(d, f)'
                        /\ phase' = "poll" /\ stage'[Pump] = "ended" =>
                              f \in pollUnseen' \cup deaf' \/ radio'[f] = op'[c].val
      BY Zenon DEF PatchInv
    <2>1. Owed(c, f) /\ stage'[c] = stage[c] /\ op'[c] = op[c]
      BY OwedKept, Zenon DEF Owed, SetsStill
    <2>2. \A d \in Clients : stage[d] = "landed" /\ Owed(d, f) => stage'[d] = "landed" /\ Owed(d, f)'
      BY OwedKept, Zenon DEF SetsStill
    <2> QED BY <2>1, <2>2, Zenon DEF PatchInv, CacheStill, PollStill
  <1> QED BY <1>1, <1>2, Zenon
\* Nothing happens to the radio, to an exchange or to what is read.
Settled == UNCHANGED <<radio, cacheVars, exchange, pollVars, deaf, unseen, pollUnseen, seenAge>>

LEMMA SettledOK ==
  ASSUME CacheInv, Settled, skipped' \in Seq(Commands), phase' = phase \/ (phase # "poll" /\ phase' # "poll")
  PROVE  CacheInv'
  <1>1. AskInv' /\ WireInv' /\ AgeInv'
    BY Zenon DEF CacheInv, AskInv, WireInv, AgeInv, Settled, cacheVars, exchange, pollVars
  <1>2. SetsStill /\ CacheStill /\ PollStill
    BY Zenon DEF Settled, SetsStill, CacheStill, PollStill, cacheVars, exchange, pollVars
  <1> QED BY <1>1, <1>2, TruthKept, Zenon DEF CacheInv

-----------------------------------------------------------------------------
(* The rigctl clients.                                                     *)

LEMMA SkipSetOK ==
  ASSUME CacheInv, NEW c \in Clients, NEW f \in Fields, NEW v \in Values, SkipSet(c, f, v)
  PROVE  CacheInv'
  <1>1. skipped' = Append(skipped, [field |-> f, val |-> v]) /\ Settled /\ phase' = phase
    BY Zenon DEF SkipSet, idleNow, Settled
  <1>2. skipped' \in Seq(Commands)
    BY <1>1 DEF CacheInv, AskInv, Commands
  <1> QED BY <1>1, <1>2, SettledOK, Zenon

LEMMA StartSetOK ==
  ASSUME CacheInv, NEW c \in Clients, NEW f \in Fields, NEW v \in Values, StartSet(c, f, v)
  PROVE  CacheInv'
  <1>1. c \in Tasks /\ c # Pump /\ Pump \in Tasks
    BY PumpIsNoClient, Zenon
  <1>2. /\ stage[c] = "none" /\ stage' = [stage EXCEPT ![c] = "queued"] /\ op' = [op EXCEPT ![c] = [field |-> f, val |-> v]]
        /\ UNCHANGED <<ok, radio, cacheVars, skipped, phase, pollVars, deaf, unseen, pollUnseen, seenAge>>
    BY Zenon DEF StartSet, Ask, idleNow
  <1>3. /\ \A t \in Tasks : stage'[t] = IF t = c THEN "queued" ELSE stage[t]
        /\ stage' \in [Tasks -> {"none", "queued", "landed", "ended"}]
    BY <1>2, Zenon DEF CacheInv, AskInv
  <1>4. DOMAIN op' = Tasks /\ \A t \in Tasks : op'[t] = IF t = c THEN [field |-> f, val |-> v] ELSE op[t]
    BY <1>2, Zenon DEF CacheInv, AskInv
  <1>5. AskInv'
    BY <1>1, <1>2, <1>3, <1>4, PumpIsNoClient, Zenon DEF CacheInv, AskInv, Commands, cacheVars, pollVars
  <1>6. SetsStill
    BY <1>2, <1>3, <1>4, PumpIsNoClient, Zenon DEF SetsStill
  <1>7. TruthInv' /\ PatchInv'
    BY <1>1, <1>2, <1>3, <1>6, TruthKept, Zenon DEF CacheInv, CacheStill, PollStill, cacheVars, pollVars
  <1>8. WireInv' /\ AgeInv'
    BY <1>2, <1>3, Zenon DEF CacheInv, WireInv, AgeInv, cacheVars, pollVars
  <1> QED BY <1>5, <1>7, <1>8, Zenon DEF CacheInv

\* The task t resumes.
LEMMA ResumesOK ==
  ASSUME CacheInv, NEW t \in Tasks, Resumes(t)
  PROVE  /\ \A u \in Tasks : stage'[u] = IF u = t THEN "none" ELSE stage[u]
         /\ \A u \in Tasks : u # t => op'[u] = op[u] /\ ok'[u] = ok[u]
         /\ DOMAIN op' = Tasks /\ stage' \in [Tasks -> {"none", "queued", "landed", "ended"}]
         /\ ok' \in [Tasks -> BOOLEAN]
         /\ stage[t] = "ended" /\ \A u \in Tasks \ {t} : stage[u] # "ended"
         /\ WireInv'
  <1> USE DEF Resumes, CacheInv
  <1>1. /\ \A u \in Tasks : stage'[u] = IF u = t THEN "none" ELSE stage[u]
        /\ \A u \in Tasks : u # t => op'[u] = op[u] /\ ok'[u] = ok[u]
        /\ DOMAIN op' = Tasks /\ stage' \in [Tasks -> {"none", "queued", "landed", "ended"}]
        /\ ok' \in [Tasks -> BOOLEAN]
    BY Zenon DEF AskInv
  <1>2. stage[t] = "ended" /\ \A u \in Tasks \ {t} : stage[u] # "ended"
    BY Zenon DEF WireInv
  <1>3. WireInv'
    BY <1>1 DEF WireInv
  <1> QED BY <1>1, <1>2, <1>3, Zenon

\* The cache hears of a set: what it is patched with is so, or is known not to
\* be, or the next set is on the wire.
LEMMA FinishSetOK ==
  ASSUME CacheInv, NEW c \in Clients, FinishSet(c)
  PROVE  CacheInv'
  <1> DEFINE g == op[c].field
  <1>1. Resumes(c) /\ UNCHANGED <<radio, phase, pollVars, deaf, unseen, pollUnseen, seenAge, skipped>>
    BY Zenon DEF FinishSet, idleNow
  <1>2. c \in Tasks /\ c # Pump /\ Pump \in Tasks
    BY PumpIsNoClient, Zenon
  <1>3. /\ \A u \in Tasks : stage'[u] = IF u = c THEN "none" ELSE stage[u]
        /\ \A u \in Tasks : u # c => op'[u] = op[u] /\ ok'[u] = ok[u]
        /\ DOMAIN op' = Tasks /\ stage' \in [Tasks -> {"none", "queued", "landed", "ended"}]
        /\ ok' \in [Tasks -> BOOLEAN]
        /\ stage[c] = "ended" /\ \A u \in Tasks \ {c} : stage[u] # "ended"
        /\ WireInv'
    BY <1>1, <1>2, ResumesOK, Zenon
  <1>4. \/ ok[c] /\ PatchState(op[c].field, op[c].val)
        \/ ~ok[c] /\ UNCHANGED cacheVars
    BY Zenon DEF FinishSet
  <1>5. DOMAIN cached' = Fields /\ known' \in BOOLEAN /\ assumed' \in BOOLEAN
    BY <1>4, Zenon DEF CacheInv, AskInv, PatchState, cacheVars
  <1>6. AskInv'
    BY <1>1, <1>2, <1>3, <1>5, PumpIsNoClient, Zenon DEF CacheInv, AskInv, pollVars
  <1>7. AgeInv'
    BY <1>1, <1>4 DEF CacheInv, AgeInv, PatchState, cacheVars, pollVars
  <1>8. /\ \A d \in Clients : \A f : Owed(d, f)' <=> d # c /\ Owed(d, f)
        /\ \A d \in Clients : d # c => stage'[d] = stage[d] /\ op'[d] = op[d]
    BY <1>3, PumpIsNoClient, Zenon DEF Owed
  <1>9. PatchInv'
    <2> SUFFICES ASSUME NEW d \in Clients, NEW f \in Fields, Owed(d, f)'
                 PROVE  /\ \/ f \in unseen' \cup deaf' \/ radio'[f] = op'[d].val
                           \/ stage'[d] = "ended" /\ \E e \in Clients : stage'[e] = "landed" /\ Owed(e, f)'
                        /\ phase' = "poll" /\ stage'[Pump] = "ended" =>
                              f \in pollUnseen' \cup deaf' \/ radio'[f] = op'[d].val
      BY Zenon DEF PatchInv
    <2>1. Owed(d, f) /\ d # c /\ op'[d] = op[d] /\ stage[d] # "ended"
      BY <1>3, <1>8, PumpIsNoClient, Zenon
    <2> QED BY <1>1, <1>2, <1>3, <2>1 DEF CacheInv, PatchInv
  <1>10. CASE ~ok[c]
    <2>1. \A f : Pending(f)' <=> Pending(f)
      BY <1>8, <1>10, Zenon DEF Pending, Owed
    <2>2. TruthInv'
      BY <1>1, <1>4, <1>10, <2>1 DEF CacheInv, TruthInv, cacheVars, pollVars
    <2> QED BY <1>3, <1>6, <1>7, <1>9, <2>2, Zenon DEF CacheInv
  <1>11. CASE ok[c]
    <2>1. PatchState(g, op[c].val) /\ g \in Fields /\ Owed(c, g)
      BY <1>2, <1>3, <1>4, <1>11, Zenon DEF CacheInv, AskInv, Commands, Owed
    <2>2. assumed' = TRUE /\ known' = known /\ generation' = generation + 1 /\ pollGen' = pollGen
      BY <1>1, <2>1, Zenon DEF PatchState, pollVars
    <2>3. pollGen' # generation'
      BY <2>2 DEF CacheInv, AgeInv
    <2>4. \A f : f # g => (Pending(f)' <=> Pending(f))
      BY <1>8, Zenon DEF Pending, Owed
    <2>5. ASSUME known, NEW f \in Patched \ (unseen \cup deaf) PROVE cached'[f] = radio[f] \/ Pending(f)'
      <3>1. f \in Fields
        BY Zenon DEF Patched
      <3>2. CASE f # g
        <4>1. cached'[f] = cached[f]
          BY <2>1, <3>1, <3>2, Zenon DEF PatchState, CacheInv, AskInv
        <4> QED BY <2>4, <2>5, <3>2, <4>1, Zenon DEF CacheInv, TruthInv
      <3>3. CASE f = g
        <4>1. cached'[f] = op[c].val
          BY <2>1, <2>5, <3>1, <3>3, Zenon DEF PatchState, CacheInv, AskInv
        <4>2. \/ radio[f] = op[c].val
              \/ \E d \in Clients : stage[d] = "landed" /\ Owed(d, f)
          BY <2>1, <2>5, <3>1, <3>3, Zenon DEF CacheInv, PatchInv
        <4>3. ASSUME NEW d \in Clients, stage[d] = "landed", Owed(d, f) PROVE Pending(f)'
          BY <1>3, <1>8, <4>3, Zenon DEF Pending
        <4> QED BY <4>1, <4>2, <4>3, Zenon
      <3> QED BY <3>2, <3>3, Zenon
    <2>6. TruthInv'
      BY <1>1, <2>2, <2>3, <2>5, Zenon DEF TruthInv
    <2> QED BY <1>3, <1>6, <1>7, <1>9, <2>6, Zenon DEF CacheInv
  <1> QED BY <1>3, <1>10, <1>11, <1>2, Zenon DEF CacheInv, AskInv
-----------------------------------------------------------------------------
(* The consoles and the pump.                                              *)

LEMMA EnqueueOK ==
  ASSUME CacheInv, NEW c \in Cmds, NEW o \in Commands, Enqueue(c, o)
  PROVE  CacheInv'
  <1>1. Settled /\ UNCHANGED <<phase, skipped>>
    BY Zenon DEF Enqueue, idleNow, Settled
  <1> QED BY <1>1, SettledOK, Zenon DEF CacheInv, AskInv

LEMMA TakeQueuedOK ==
  ASSUME CacheInv, TakeQueued
  PROVE  CacheInv'
  <1>1. Settled /\ phase # "poll" /\ phase' # "poll" /\ UNCHANGED skipped
    BY Zenon DEF TakeQueued, Settled
  <1> QED BY <1>1, SettledOK, Zenon DEF CacheInv, AskInv

\* The pump asks for o.
LEMMA PumpAsksOK ==
  ASSUME CacheInv, NEW o, Ask(Pump, o), phase = "poll" => o.field \in asked,
         UNCHANGED <<idleNow, cacheVars, skipped>>
  PROVE  CacheInv'
  <1>1. /\ stage' = [stage EXCEPT ![Pump] = "queued"] /\ op' = [op EXCEPT ![Pump] = o]
        /\ UNCHANGED <<ok, radio, cacheVars, skipped, phase, pollVars, deaf, unseen, pollUnseen, seenAge>>
    BY Zenon DEF Ask, idleNow
  <1>2. /\ \A t \in Tasks : stage'[t] = IF t = Pump THEN "queued" ELSE stage[t]
        /\ stage' \in [Tasks -> {"none", "queued", "landed", "ended"}]
    BY <1>1, Zenon DEF CacheInv, AskInv
  <1>3. DOMAIN op' = Tasks /\ \A t \in Tasks : op'[t] = IF t = Pump THEN o ELSE op[t]
    BY <1>1, Zenon DEF CacheInv, AskInv
  <1>4. AskInv'
    BY <1>1, <1>2, <1>3, PumpIsNoClient, Zenon DEF CacheInv, AskInv, cacheVars, pollVars
  <1>5. SetsStill
    BY <1>1, <1>2, <1>3, PumpIsNoClient, Zenon DEF SetsStill
  <1>6. TruthInv' /\ PatchInv'
    BY <1>1, <1>2, <1>5, TruthKept, PumpIsNoClient, Zenon DEF CacheInv, CacheStill, PollStill, cacheVars, pollVars
  <1>7. WireInv' /\ AgeInv'
    BY <1>1, <1>2 DEF CacheInv, WireInv, AgeInv, cacheVars, pollVars
  <1> QED BY <1>4, <1>6, <1>7, Zenon DEF CacheInv

LEMMA PumpStill ==
  ASSUME CacheInv, Resumes(Pump)
  PROVE  SetsStill /\ stage'[Pump] = "none" /\ \A c \in Clients : stage'[c] = stage[c] /\ op'[c] = op[c]
  BY ResumesOK, PumpIsNoClient, Zenon DEF SetsStill

LEMMA FinishApplyOK ==
  ASSUME CacheInv, FinishApply
  PROVE  CacheInv'
  <1>1. /\ phase = "apply" /\ Resumes(Pump)
        /\ UNCHANGED <<radio, cacheVars, skipped, phase, pollVars, deaf, unseen, pollUnseen, seenAge>>
    BY Zenon DEF FinishApply
  <1>2. AskInv' /\ WireInv'
    BY <1>1, ResumesOK, PumpStill, PumpIsNoClient, Zenon DEF CacheInv, AskInv, cacheVars, pollVars
  <1>3. TruthInv' /\ PatchInv'
    BY <1>1, PumpStill, TruthKept, Zenon DEF CacheInv, CacheStill, PollStill, cacheVars, pollVars
  <1>4. AgeInv'
    BY <1>1, Zenon DEF CacheInv, AgeInv, cacheVars, pollVars
  <1> QED BY <1>2, <1>3, <1>4, Zenon DEF CacheInv

LEMMA StartPollOK ==
  ASSUME CacheInv, StartPoll
  PROVE  CacheInv'
  <1>1. /\ phase # "poll" /\ phase' = "poll" /\ stage[Pump] = "none"
        /\ pollGen' = generation /\ pollAge' = Fresh /\ pollSeenAge' = Fresh
        /\ asked' \in {Fields, Fields \cup {Levels}}
        /\ UNCHANGED <<radio, cacheVars, exchange, skipped, sample, deaf, unseen, pollUnseen, seenAge>>
    BY Zenon DEF StartPoll
  <1>2. asked' \subseteq Fields \cup {Levels} /\ Fields \subseteq asked'
    BY <1>1, Zenon
  <1>3. AskInv' /\ WireInv'
    BY <1>1, <1>2, Zenon DEF CacheInv, AskInv, WireInv, cacheVars, exchange
  <1>4. SetsStill /\ CacheStill
    BY <1>1, Zenon DEF SetsStill, CacheStill, cacheVars, exchange
  <1>5. sample' = Unread
    BY <1>1, Zenon DEF CacheInv, AskInv
  <1>6. TruthInv' /\ PatchInv'
    BY <1>1, <1>4, <1>5, TruthKept, Zenon DEF CacheInv, PollStill, exchange
  <1>7. AgeInv'
    BY <1>1 DEF CacheInv, AgeInv, cacheVars, Fresh, Old
  <1> QED BY <1>3, <1>6, <1>7, Zenon DEF CacheInv

\* What the replies leave of a poll.
LEMMA RepliesOK ==
  ASSUME Replies
  PROVE  /\ phase' = "rest" /\ sample' = Unread /\ DOMAIN sample' = {} /\ pollUnseen' = {} /\ PollStill
         /\ pollGen' = 0 /\ pollAge' = 0 /\ pollSeenAge' = 0
  <1>1. /\ phase' = "rest" /\ sample' = Unread /\ DOMAIN sample' = {} /\ pollUnseen' = {}
        /\ pollGen' = 0 /\ pollAge' = 0 /\ pollSeenAge' = 0
    BY NoneRead, Zenon DEF Replies, Fresh
  <1> QED BY <1>1, Zenon DEF PollStill

LEMMA RepliesAge ==
  ASSUME AgeInv, Replies, UNCHANGED <<known, age, seenAge, generation>>
  PROVE  AgeInv'
  <1>1. pollGen' = 0 /\ pollAge' = 0 /\ pollSeenAge' = 0
    BY RepliesOK, Zenon
  <1> QED BY <1>1 DEF AgeInv, Fresh, Old

LEMMA NoPollOK ==
  ASSUME CacheInv, NoPoll
  PROVE  CacheInv'
  <1>1. Replies /\ UNCHANGED <<radio, cacheVars, exchange, skipped, deaf, unseen, seenAge>>
    BY Zenon DEF NoPoll
  <1>2. AskInv' /\ WireInv'
    BY <1>1, RepliesOK, Zenon DEF CacheInv, AskInv, WireInv, cacheVars, exchange
  <1>3. TruthInv' /\ PatchInv'
    BY <1>1, RepliesOK, TruthKept, Zenon DEF CacheInv, SetsStill, CacheStill, cacheVars, exchange
  <1>4. AgeInv'
    BY <1>1, RepliesAge, Zenon DEF CacheInv, cacheVars
  <1> QED BY <1>2, <1>3, <1>4, Zenon DEF CacheInv

LEMMA StartReadOK ==
  ASSUME CacheInv, StartRead
  PROVE  CacheInv'
  <1>1. PICK f \in asked : Ask(Pump, [field |-> f, val |-> NoValue])
    BY Zenon DEF StartRead
  <1>2. UNCHANGED <<idleNow, cacheVars, skipped>>
    BY Zenon DEF StartRead
  <1> QED BY <1>1, <1>2, PumpAsksOK, Zenon

LEMMA StartApplyOK ==
  ASSUME CacheInv, StartApply
  PROVE  CacheInv'
  <1>1. Ask(Pump, cmd[Head(batch)]) /\ phase # "poll" /\ UNCHANGED <<idleNow, cacheVars, skipped>>
    BY Zenon DEF StartApply
  <1> QED BY <1>1, PumpAsksOK, Zenon

LEMMA LevelsIsNoField == Levels \notin Fields
  BY FieldAssumption, Zenon DEF Levels

\* A poll is published only if no set was patched in since it began, so that
\* what it read of a field is so, or the field's set is still to be heard of.
LEMMA FinishReadOK ==
  ASSUME CacheInv, FinishRead
  PROVE  CacheInv'
  <1> DEFINE rest == IF ok[Pump] THEN asked \ {op[Pump].field} ELSE asked \cap {Levels}
             read == IF ok[Pump] THEN sample ELSE Unread
  <1>1. /\ phase = "poll" /\ Resumes(Pump) /\ UNCHANGED <<radio, skipped>>
        /\ \/ /\ rest # {}
              /\ asked' = rest /\ sample' = read
              /\ UNCHANGED <<cacheVars, deaf, unseen, seenAge, phase, pollGen, pollAge, pollSeenAge, pollUnseen>>
           \/ rest = {} /\ read # Unread /\ PublishState(read) /\ Replies
           \/ rest = {} /\ read = Unread /\ Replies /\ UNCHANGED <<cacheVars, deaf, unseen, seenAge>>
    BY Zenon DEF FinishRead
  <1>2. /\ WireInv' /\ SetsStill /\ stage'[Pump] = "none" /\ stage[Pump] = "ended"
        /\ \A u \in Clients : stage'[u] = stage[u] /\ op'[u] = op[u] /\ stage[u] # "ended"
        /\ DOMAIN op' = Tasks /\ stage' \in [Tasks -> {"none", "queued", "landed", "ended"}]
        /\ ok' \in [Tasks -> BOOLEAN]
    BY <1>1, ResumesOK, PumpStill, PumpIsNoClient, Zenon
  <1>3. ok[Pump] \in BOOLEAN
    BY PumpIsNoClient, Zenon DEF CacheInv, AskInv
  <1>4. CASE rest # {} /\ asked' = rest
    <2>1. sample' = read /\ UNCHANGED <<cacheVars, deaf, unseen, seenAge, phase, pollGen, pollAge, pollSeenAge, pollUnseen>>
      BY <1>1, <1>4, Zenon DEF Replies
    <2>2. DOMAIN sample' \subseteq Fields /\ asked' \subseteq Fields \cup {Levels}
      BY <1>1, <1>4, <2>1, NoneRead, Zenon DEF CacheInv, AskInv
    <2>3. Fields \subseteq asked' \cup DOMAIN sample' \/ (sample' = Unread /\ asked' = {Levels})
      <3>1. CASE ok[Pump]
        BY <1>1, <1>2, <1>4, <2>1, <3>1, LevelsIsNoField, Zenon DEF CacheInv, AskInv
      <3>2. CASE ~ok[Pump]
        BY <1>4, <2>1, <3>2, Zenon
      <3> QED BY <1>3, <3>1, <3>2, Zenon
    <2>4. AskInv'
      BY <1>1, <1>2, <2>1, <2>2, <2>3, Zenon DEF CacheInv, AskInv, cacheVars
    <2>5. TruthInv' /\ PatchInv'
      BY <1>1, <1>2, <2>1, TruthKept, Zenon DEF CacheInv, CacheStill, PollStill, cacheVars
    <2>6. AgeInv'
      BY <2>1, Zenon DEF CacheInv, AgeInv, cacheVars
    <2> QED BY <1>2, <2>4, <2>5, <2>6, Zenon DEF CacheInv
  <1>5. CASE Replies /\ UNCHANGED <<cacheVars, deaf, unseen, seenAge>>
    <2>1. AskInv'
      BY <1>1, <1>2, <1>5, RepliesOK, Zenon DEF CacheInv, AskInv, cacheVars
    <2>2. TruthInv' /\ PatchInv'
      BY <1>1, <1>2, <1>5, RepliesOK, TruthKept, Zenon DEF CacheInv, CacheStill, cacheVars
    <2>3. AgeInv'
      BY <1>5, RepliesAge, Zenon DEF CacheInv, cacheVars
    <2> QED BY <1>2, <2>1, <2>2, <2>3, Zenon DEF CacheInv
  <1>6. CASE rest = {} /\ read # Unread /\ PublishState(read) /\ Replies /\ generation = pollGen
    <2>1. ok[Pump] /\ sample # Unread /\ read = sample
      BY <1>6, Zenon
    <2>2. /\ known' = TRUE /\ cached' = sample /\ age' = pollAge /\ assumed' = FALSE
          /\ deaf' = {f \in deaf : Underway(f)} /\ unseen' = pollUnseen /\ seenAge' = pollSeenAge
          /\ generation' = generation
      BY <1>6, <2>1, Zenon DEF PublishState, cacheVars
    <2>3. DOMAIN sample = Fields
      <3>1. Fields \subseteq {op[Pump].field} \cup DOMAIN sample
        BY <1>1, <1>6, <2>1, Zenon DEF CacheInv, AskInv
      <3>2. op[Pump].field \in {Levels} \cup DOMAIN sample
        BY <1>1, <1>2, <2>1, Zenon DEF CacheInv, AskInv
      <3> QED BY <3>1, <3>2, LevelsIsNoField, Zenon DEF CacheInv, AskInv
    <2>4. AskInv'
      BY <1>1, <1>2, <1>6, <2>2, <2>3, RepliesOK, Zenon DEF CacheInv, AskInv
    <2>5. \A f : Pending(f)' <=> Pending(f)
      BY <1>2, OwedKept, Zenon
    <2>6. \A f \in Fields \ unseen' : cached'[f] = radio'[f] \/ Pending(f)'
      BY <1>1, <1>6, <2>2, <2>3, <2>5, Zenon DEF CacheInv, TruthInv
    <2>7. TruthInv'
      BY <1>6, <2>6, RepliesOK, Zenon DEF TruthInv, Patched
    <2>8. PatchInv'
      <3> SUFFICES ASSUME NEW c \in Clients, NEW f \in Fields, Owed(c, f)'
                   PROVE  f \in unseen' \cup deaf' \/ radio'[f] = op'[c].val
        BY <1>6, RepliesOK, Zenon DEF PatchInv
      <3>1. Owed(c, f) /\ op'[c] = op[c]
        BY <1>2, OwedKept, Zenon
      <3>2. f \in pollUnseen \cup deaf \/ radio[f] = op[c].val
        BY <1>1, <1>2, <3>1, Zenon DEF CacheInv, PatchInv
      <3>3. Underway(f)
        BY <3>1, Zenon DEF Owed, Underway
      <3> QED BY <1>1, <2>2, <3>1, <3>2, <3>3, Zenon
    <2>9. AgeInv'
      <3>1. pollGen' = 0 /\ pollAge' = 0 /\ pollSeenAge' = 0
        BY <1>6, RepliesOK, Zenon
      <3> QED BY <2>2, <3>1 DEF CacheInv, AgeInv, Fresh, Old
    <2> QED BY <1>2, <2>4, <2>7, <2>8, <2>9, Zenon DEF CacheInv
  <1> QED BY <1>1, <1>4, <1>5, <1>6, Zenon DEF PublishState
-----------------------------------------------------------------------------
(* The radio, the wire and time.                                           *)

\* A set lands: what it changes is owed to the cache, or was done behind its back.
LEMMA LandSetOK ==
  ASSUME CacheInv, NEW t \in Tasks, LandSet(t)
  PROVE  CacheInv'
  <1> DEFINE f == op[t].field
             behind(good, taken) == taken /\ (t = Pump \/ ~good)
  <1>1. PICK good \in BOOLEAN, taken \in BOOLEAN :
          /\ ok' = [ok EXCEPT ![t] = good]
          /\ radio' = IF taken THEN [radio EXCEPT ![f] = op[t].val] ELSE radio
          /\ deaf' = IF ~good THEN deaf ELSE IF taken THEN deaf \ {f} ELSE deaf \cup {f}
          /\ unseen' = IF behind(good, taken) THEN unseen \cup {f} ELSE unseen
          /\ pollUnseen' = IF behind(good, taken) /\ phase = "poll" THEN pollUnseen \cup {f} ELSE pollUnseen
    BY Zenon DEF LandSet
  <1>2. /\ stage[t] = "queued" /\ (t = Pump => phase = "apply") /\ stage' = [stage EXCEPT ![t] = "landed"]
        /\ \A u \in Tasks : stage[u] # "landed"
        /\ UNCHANGED <<cacheVars, op, skipped, phase, pollVars, seenAge>>
    BY Zenon DEF LandSet, IsSet, OnWire
  <1>3. /\ \A u \in Tasks : stage'[u] = IF u = t THEN "landed" ELSE stage[u]
        /\ \A u \in Tasks : ok'[u] = IF u = t THEN good ELSE ok[u]
        /\ stage' \in [Tasks -> {"none", "queued", "landed", "ended"}] /\ ok' \in [Tasks -> BOOLEAN]
    BY <1>1, <1>2, Zenon DEF CacheInv, AskInv
  <1>4. /\ \A g \in Fields : radio'[g] = IF taken /\ g = f THEN op[t].val ELSE radio[g]
        /\ DOMAIN radio' = Fields
    BY <1>1, Zenon DEF CacheInv, AskInv
  <1>5. AskInv'
    BY <1>2, <1>3, <1>4, PumpIsNoClient, Zenon DEF CacheInv, AskInv, cacheVars, pollVars
  <1>6. WireInv'
    BY <1>2, <1>3, Zenon DEF CacheInv, WireInv
  <1>7. AgeInv'
    BY <1>2, Zenon DEF CacheInv, AgeInv, cacheVars, pollVars
  <1>8. \A d \in Clients : \A g : Owed(d, g)' <=> IF d = t THEN good /\ g = f ELSE Owed(d, g)
    BY <1>2, <1>3, PumpIsNoClient, Zenon DEF Owed
  <1>9. \A g : Pending(g) => Pending(g)'
    BY <1>2, <1>8, Zenon DEF Pending, Owed
  <1>10. ASSUME taken, good, t # Pump PROVE Pending(f)' /\ t \in Clients
    <2>1. t \in Clients
      BY <1>10, Zenon DEF Tasks
    <2>2. Owed(t, f)'
      BY <1>2, <1>3, <1>10, <2>1, Zenon DEF Owed
    <2> QED BY <2>1, <2>2, Zenon DEF Pending
  <1>11. TruthInv'
    <2> USE DEF behind
    <2>1. (known /\ ~assumed => \A g \in Fields \ unseen : cached[g] = radio[g] \/ Pending(g))'
      BY <1>1, <1>2, <1>4, <1>9, <1>10, Zenon DEF CacheInv, TruthInv, cacheVars
    <2>2. (known => \A g \in Patched \ (unseen \cup deaf) : cached[g] = radio[g] \/ Pending(g))'
      BY <1>1, <1>2, <1>4, <1>9, <1>10, Zenon DEF CacheInv, TruthInv, cacheVars, Patched
    <2>3. (phase = "poll" /\ pollGen = generation =>
             \A g \in DOMAIN sample \ pollUnseen : sample[g] = radio[g] \/ Pending(g))'
      BY <1>1, <1>2, <1>4, <1>9, <1>10, Zenon DEF CacheInv, TruthInv, AskInv, cacheVars, pollVars
    <2> QED BY <2>1, <2>2, <2>3, Zenon DEF TruthInv
  <1>12. PatchInv'
    <2> SUFFICES ASSUME NEW d \in Clients, NEW g \in Fields, Owed(d, g)'
                 PROVE  /\ \/ g \in unseen' \cup deaf' \/ radio'[g] = op'[d].val
                           \/ stage'[d] = "ended" /\ \E e \in Clients : stage'[e] = "landed" /\ Owed(e, g)'
                        /\ phase' = "poll" /\ stage'[Pump] = "ended" =>
                              g \in pollUnseen' \cup deaf' \/ radio'[g] = op'[d].val
      BY Zenon DEF PatchInv
    <2>1. CASE d = t
      <3>1. good /\ g = f /\ op'[d] = op[t]
        BY <1>2, <1>8, <2>1, Zenon
      <3>2. radio'[g] = op'[d].val \/ g \in deaf'
        BY <1>1, <1>4, <3>1, Zenon
      <3> QED BY <3>2, Zenon
    <2>2. CASE d # t
      <3>1. Owed(d, g) /\ op'[d] = op[d] /\ stage[d] = "ended" /\ stage'[d] = "ended"
        BY <1>2, <1>3, <1>8, <2>2, PumpIsNoClient, Zenon DEF Owed
      <3>2. g \in unseen \cup deaf \/ radio[g] = op[d].val
        BY <1>2, <3>1, PumpIsNoClient, Zenon DEF CacheInv, PatchInv
      <3>3. ~(phase' = "poll" /\ stage'[Pump] = "ended")
        BY <1>2, <1>3, <3>1, PumpIsNoClient, Zenon DEF CacheInv, WireInv
      <3>4. CASE g # f
        BY <1>1, <1>4, <3>1, <3>2, <3>3, <3>4, Zenon
      <3>5. CASE g = f /\ taken /\ good /\ t # Pump
        <4>1. stage'[t] = "landed" /\ Owed(t, g)' /\ t \in Clients
          BY <1>3, <1>8, <1>10, <3>5, Zenon
        <4> QED BY <3>1, <3>3, <4>1, Zenon
      <3>6. CASE g = f /\ ~(taken /\ good /\ t # Pump)
        BY <1>1, <1>4, <3>1, <3>2, <3>3, <3>6, Zenon
      <3> QED BY <3>4, <3>5, <3>6, Zenon
    <2> QED BY <2>1, <2>2, Zenon
  <1> QED BY <1>5, <1>6, <1>7, <1>11, <1>12, Zenon DEF CacheInv

LEMMA LandReadOK ==
  ASSUME CacheInv, LandRead
  PROVE  CacheInv'
  <1> DEFINE f == op[Pump].field
  <1>1. /\ stage[Pump] = "queued" /\ phase = "poll" /\ stage' = [stage EXCEPT ![Pump] = "landed"]
        /\ \A u \in Tasks : stage[u] # "landed"
        /\ UNCHANGED <<radio, cacheVars, op, skipped, phase, asked, pollGen, pollAge, deaf, unseen, seenAge>>
    BY Zenon DEF LandRead, OnWire
  <1>2. \/ /\ ok' = [ok EXCEPT ![Pump] = TRUE]
           /\ sample' = IF f = Levels THEN sample
                        ELSE [g \in {f} \cup DOMAIN sample |-> IF g = f THEN radio[f] ELSE sample[g]]
           /\ pollUnseen' = pollUnseen \ {f}
           /\ pollSeenAge' = IF sample = Unread THEN Fresh ELSE pollSeenAge
        \/ f # Levels /\ ok' = [ok EXCEPT ![Pump] = FALSE] /\ UNCHANGED <<sample, pollUnseen, pollSeenAge>>
    BY Zenon DEF LandRead
  <1>3. /\ \A u \in Tasks : stage'[u] = IF u = Pump THEN "landed" ELSE stage[u]
        /\ \A u \in Tasks \ {Pump} : ok'[u] = ok[u]
        /\ stage' \in [Tasks -> {"none", "queued", "landed", "ended"}] /\ ok' \in [Tasks -> BOOLEAN]
    BY <1>1, <1>2, Zenon DEF CacheInv, AskInv
  <1>4. f \in asked /\ asked \subseteq Fields \cup {Levels}
    BY <1>1, Zenon DEF CacheInv, AskInv
  <1>5. /\ DOMAIN sample' \subseteq Fields /\ DOMAIN sample \subseteq DOMAIN sample'
        /\ ok'[Pump] => f \in {Levels} \cup DOMAIN sample'
    BY <1>2, <1>4, PumpIsNoClient DEF CacheInv, AskInv
  <1>6. Fields \subseteq asked \cup DOMAIN sample' \/ (sample' = Unread /\ asked = {Levels})
    <2>1. CASE Fields \subseteq asked \cup DOMAIN sample
      BY <1>5, <2>1, Zenon
    <2>2. CASE sample = Unread /\ asked = {Levels}
      BY <1>2, <1>4, <2>2, Zenon
    <2> QED BY <1>1, <2>1, <2>2, Zenon DEF CacheInv, AskInv
  <1>7. AskInv'
    BY <1>1, <1>3, <1>4, <1>5, <1>6, PumpIsNoClient, Zenon DEF CacheInv, AskInv, cacheVars
  <1>8. WireInv'
    BY <1>1, <1>3, Zenon DEF CacheInv, WireInv
  <1>9. AgeInv'
    <2>1. pollSeenAge' = pollSeenAge \/ pollSeenAge' = Fresh
      BY <1>2, Zenon
    <2> QED BY <1>1, <2>1 DEF CacheInv, AgeInv, cacheVars, Fresh, Old
  <1>10. SetsStill
    BY <1>1, <1>3, PumpIsNoClient, Zenon DEF SetsStill
  <1>11. TruthInv'
    <2>1. \A g : Pending(g)' <=> Pending(g)
      BY <1>10, OwedKept, Zenon
    <2>2. ASSUME pollGen = generation, NEW g \in DOMAIN sample' \ pollUnseen'
          PROVE  sample'[g] = radio[g] \/ Pending(g)
      <3>1. CASE sample'[g] = radio[g]
        BY <3>1, Zenon
      <3>2. CASE g \in DOMAIN sample /\ sample'[g] = sample[g] /\ g \notin pollUnseen
        BY <1>1, <2>2, <3>2, Zenon DEF CacheInv, TruthInv
      <3>3. CASE f = Levels
        BY <1>2, <1>4, <2>2, <3>2, <3>3, LevelsIsNoField, Zenon DEF CacheInv, AskInv
      <3>4. CASE f # Levels
        BY <1>2, <2>2, <3>1, <3>2, <3>4, Zenon
      <3> QED BY <3>3, <3>4, Zenon
    <2> QED BY <1>1, <2>1, <2>2, Zenon DEF CacheInv, TruthInv, cacheVars
  <1>12. PatchInv'
    <2>1. \A c \in Clients : \A g : Owed(c, g)' <=> Owed(c, g)
      BY <1>10, OwedKept, Zenon
    <2>2. stage'[Pump] # "ended" /\ \A c \in Clients : stage'[c] = stage[c]
      BY <1>3, PumpIsNoClient, Zenon
    <2> QED BY <1>1, <2>1, <2>2 DEF CacheInv, PatchInv
  <1> QED BY <1>7, <1>8, <1>9, <1>11, <1>12, Zenon DEF CacheInv

\* A set that ends is the only one on the wire; so is a read.
LEMMA EndExchangeOK ==
  ASSUME CacheInv, NEW t \in Tasks, EndExchange(t)
  PROVE  CacheInv'
  <1>1. /\ stage[t] = "landed" /\ \A u \in Tasks : stage[u] # "ended"
        /\ stage' = [stage EXCEPT ![t] = "ended"]
        /\ UNCHANGED <<radio, cacheVars, op, ok, skipped, phase, pollVars, deaf, unseen, pollUnseen, seenAge>>
    BY Zenon DEF EndExchange
  <1>2. /\ \A u \in Tasks : stage'[u] = IF u = t THEN "ended" ELSE stage[u]
        /\ stage' \in [Tasks -> {"none", "queued", "landed", "ended"}]
    BY <1>1, Zenon DEF CacheInv, AskInv
  <1>3. AskInv'
    BY <1>1, <1>2, PumpIsNoClient, Zenon DEF CacheInv, AskInv, cacheVars, pollVars
  <1>4. WireInv'
    BY <1>1, <1>2, Zenon DEF CacheInv, WireInv
  <1>5. AgeInv'
    BY <1>1, Zenon DEF CacheInv, AgeInv, cacheVars, pollVars
  <1>6. \A c \in Clients : \A g : Owed(c, g)' <=> Owed(c, g)
    BY <1>1, <1>2, PumpIsNoClient, Zenon DEF Owed
  <1>7. \A g : Pending(g)' <=> Pending(g)
    BY <1>6, Zenon DEF Pending
  <1>8. TruthInv'
    BY <1>1, <1>7, Zenon DEF CacheInv, TruthInv, cacheVars, pollVars
  <1>9. PatchInv'
    <2> SUFFICES ASSUME NEW c \in Clients, NEW g \in Fields, Owed(c, g)
                 PROVE  /\ g \in unseen \cup deaf \/ radio[g] = op[c].val
                        /\ ~(phase = "poll" /\ stage'[Pump] = "ended")
      BY <1>1, <1>6, Zenon DEF PatchInv
    <2>1. stage[c] = "landed" /\ c = t
      BY <1>1, PumpIsNoClient, Zenon DEF Owed, CacheInv, WireInv
    <2> QED BY <1>1, <1>2, <2>1, PumpIsNoClient, Zenon DEF CacheInv, PatchInv
  <1> QED BY <1>3, <1>4, <1>5, <1>8, <1>9, Zenon DEF CacheInv

LEMMA PanelOK ==
  ASSUME CacheInv, NEW f \in Fields, NEW v \in Values, Panel(f, v)
  PROVE  CacheInv'
  <1>1. /\ radio' = [radio EXCEPT ![f] = v] /\ unseen' = unseen \cup {f}
        /\ pollUnseen' = IF phase = "poll" THEN pollUnseen \cup {f} ELSE pollUnseen
        /\ UNCHANGED <<cacheVars, exchange, skipped, phase, pollVars, deaf, seenAge>>
    BY Zenon DEF Panel
  <1>2. \A g \in Fields : radio'[g] = IF g = f THEN v ELSE radio[g]
    BY <1>1, Zenon DEF CacheInv, AskInv
  <1>3. AskInv' /\ WireInv' /\ AgeInv'
    BY <1>1, Zenon DEF CacheInv, AskInv, WireInv, AgeInv, cacheVars, pollVars, exchange
  <1>4. /\ \A c \in Clients : \A g : Owed(c, g)' <=> Owed(c, g)
        /\ \A g : Pending(g)' <=> Pending(g)
    BY <1>1, Zenon DEF Owed, Pending, exchange
  <1>5. TruthInv'
    BY <1>1, <1>2, <1>4, Zenon DEF CacheInv, TruthInv, AskInv, cacheVars, pollVars, Patched
  <1>6. PatchInv'
    BY <1>1, <1>2, <1>4, Zenon DEF CacheInv, PatchInv, exchange
  <1> QED BY <1>3, <1>5, <1>6, Zenon DEF CacheInv

LEMMA TickOK ==
  ASSUME CacheInv, Tick
  PROVE  CacheInv'
  <1>1. /\ age' = Older(age) /\ seenAge' = Older(seenAge)
        /\ \/ pollAge' = Older(pollAge) /\ pollSeenAge' = Older(pollSeenAge)
           \/ UNCHANGED <<pollAge, pollSeenAge>>
        /\ UNCHANGED <<radio, known, cached, assumed, generation, exchange, skipped, phase, asked, sample,
                       pollGen, deaf, unseen, pollUnseen>>
    BY Zenon DEF Tick
  <1>2. AskInv' /\ WireInv'
    BY <1>1, Zenon DEF CacheInv, AskInv, WireInv, exchange
  <1>3. TruthInv' /\ PatchInv'
    BY <1>1, TruthKept, Zenon DEF CacheInv, SetsStill, CacheStill, PollStill, exchange
  <1>4. \A a \in Fresh..Old, b \in Fresh..Old :
          Older(a) \in Fresh..Old /\ (a >= b => Older(a) >= Older(b))
    BY DEF Older, Fresh, Old
  <1>5. AgeInv'
    BY <1>1, <1>4, Zenon DEF CacheInv, AgeInv
  <1> QED BY <1>2, <1>3, <1>5, Zenon DEF CacheInv

-----------------------------------------------------------------------------
(* The results.                                                            *)

LEMMA CacheInitOK == Init => CacheInv
  <1> SUFFICES ASSUME Init PROVE CacheInv
    OBVIOUS
  <1>1. AskInv
    <2>1. DOMAIN radio = Fields /\ skipped \in Seq(Commands)
      BY DEF Init
    <2> QED BY <2>1, NoneRead, PumpIsNoClient, Zenon DEF Init, AskInv
  <1>4. WireInv
    BY Zenon DEF Init, WireInv
  <1>2. TruthInv /\ PatchInv
    BY PumpIsNoClient, Zenon DEF Init, TruthInv, PatchInv, Owed
  <1>3. AgeInv
    BY DEF Init, AgeInv, Fresh, Old
  <1> QED BY <1>1, <1>2, <1>3, <1>4, Zenon DEF CacheInv

LEMMA CacheStepOK == CacheInv /\ [Next]_vars => CacheInv'
  <1> SUFFICES ASSUME CacheInv, [Next]_vars PROVE CacheInv'
    OBVIOUS
  <1>1. CASE UNCHANGED vars
    BY <1>1, SettledOK, Zenon DEF CacheInv, AskInv, Settled, vars
  <1>2. CASE \E c \in Clients : FinishSet(c) \/ \E f \in Fields, v \in Values : SkipSet(c, f, v) \/ StartSet(c, f, v)
    BY <1>2, FinishSetOK, SkipSetOK, StartSetOK, Zenon
  <1>3. CASE \E c \in Cmds, o \in Commands : Enqueue(c, o)
    BY <1>3, EnqueueOK, Zenon
  <1>4. CASE PumpStep
    BY <1>4, TakeQueuedOK, StartApplyOK, FinishApplyOK, StartPollOK, NoPollOK, StartReadOK, FinishReadOK, Zenon DEF PumpStep
  <1>5. CASE Broker
    BY <1>5, LandReadOK, LandSetOK, EndExchangeOK, Zenon DEF Broker
  <1>6. CASE \E f \in Fields, v \in Values : Panel(f, v)
    BY <1>6, PanelOK, Zenon
  <1> QED BY <1>1, <1>2, <1>3, <1>4, <1>5, <1>6, TickOK, Zenon DEF Next

LEMMA PendingIsUnderway == \A f : Pending(f) => Underway(f)
  BY Zenon DEF Pending, Owed, Underway

\* Cache::assumed, generation and taken, for any number of clients and commands
\* and every fault: what counts as measured is what the radio is set to, a set
\* that was acknowledged reads back, and no reading is certified younger than
\* its oldest part.
THEOREM CacheTellsTheTruth == Spec => []CacheIsTrue
  <1>1. CacheInv => CacheIsTrue
    BY PendingIsUnderway, Zenon DEF CacheInv, TruthInv, AgeInv, CacheIsTrue, MeasuredIsTrue, MeasuredState, ReadBack,
       RecentState, FreshnessHonest
  <1> QED BY <1>1, CacheInitOK, CacheStepOK, PTL DEF Spec

\* Cached::set_frequency's shortcut: a set answered without asking the radio finds
\* the radio there already, or a set of the dial that is still under way, unless
\* the dial was changed behind the cache's back.
THEOREM SkipsAreSafe == Spec => SkipIsSafe
  <1> DEFINE Safe == Len(skipped') > Len(skipped) /\ "freq" \notin unseen =>
                       radio["freq"] = skipped'[Len(skipped')].val \/ Underway("freq")
  <1>1. ASSUME CacheInv, [Next]_vars PROVE [Safe]_vars
    <2>1. skipped \in Seq(Commands)
      BY <1>1, Zenon DEF CacheInv, AskInv
    <2>2. CASE skipped' = skipped
      BY <2>1, <2>2
    <2>3. ASSUME NEW c \in Clients, NEW f \in Fields, NEW v \in Values, SkipSet(c, f, v) PROVE Safe
      <3>1. f = "freq" /\ known /\ ~assumed /\ cached[f] = v /\ skipped' = Append(skipped, [field |-> f, val |-> v])
        BY <2>3, Zenon DEF SkipSet, Redundant, MeasuredState
      <3>2. [field |-> f, val |-> v] \in Commands
        BY Zenon DEF Commands
      <3>3. skipped'[Len(skipped')] = [field |-> f, val |-> v]
        BY <2>1, <3>1, <3>2
      <3>4. f \notin unseen => cached[f] = radio[f] \/ Pending(f)
        BY <1>1, <3>1, Zenon DEF CacheInv, TruthInv
      <3> QED BY <3>1, <3>3, <3>4, PendingIsUnderway
    <2>4. skipped' = skipped \/ \E c \in Clients, f \in Fields, v \in Values : SkipSet(c, f, v)
      BY <1>1, Zenon DEF Next, vars, FinishSet, StartSet, Enqueue, PumpStep, Broker, TakeQueued, StartApply, FinishApply,
         StartPoll, NoPoll, StartRead, FinishRead, LandRead, LandSet, EndExchange, Panel, Tick
    <2> QED BY <2>2, <2>3, <2>4, Zenon
  <1> QED BY <1>1, CacheInitOK, CacheStepOK, PTL DEF Spec, SkipIsSafe
=============================================================================
