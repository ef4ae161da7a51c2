----------------------------- MODULE StateCache -----------------------------
(***************************************************************************)
(* The cached radio state of the native bridge: the pump that fills it and *)
(* applies the consoles' queued sets (cat-rigctl/src/native_bridge.rs), and *)
(* the rigctl clients that read it and write through it                    *)
(* (cat-rigctl/src/cached.rs).                                             *)
(*                                                                         *)
(* Clients and the pump are tasks on one thread; each talks to the radio   *)
(* through the broker, one exchange at a time.  An exchange is asked for,  *)
(* takes effect at the radio (landed), ends, and then its task resumes; a  *)
(* task resumes before the next exchange can end, because the broker's     *)
(* worker has to yield for that.  A poll is several exchanges.  What the   *)
(* supervisor does in between (drive_cw) does not touch the cache.         *)
(***************************************************************************)
EXTENDS Integers, Sequences, TLC

CONSTANTS
    Clients,    \* rigctl clients
    Pump,       \* the pump's task
    Cmds,       \* the commands consoles queue
    Other,      \* whoever else changed a field
    Fields,     \* the fields of a RadioState, of {"freq", "split", "mode"}
    Values,     \* what a field can be set to
    NoValue,
    MaxSets,    \* bound: sets of all the rigctl clients, and moves at the panel
    PanelMoves, \* somebody may change the radio at its front panel
    DeafSets,   \* the radio may acknowledge a set it does not take
    LostAcks,   \* a set may land and be reported failed
    ReadsFail,  \* a poll may fail, or be left out because CW is live
    TimePasses  \* readings may grow old

\* One field of each kind that Cached tells apart: the dial, which is patched and
\* compared, split, which is patched, and the mode, which is neither.
Patched == Fields \cap {"freq", "split"}

ASSUME ClientAssumption == Pump \notin Clients /\ Other \notin Cmds
ASSUME FieldAssumption ==
    Fields # {} /\ Fields \subseteq {"freq", "split", "mode"} /\ NoValue \notin Values
ASSUME BoundAssumption == MaxSets \in Nat
ASSUME FaultAssumption == {PanelMoves, DeafSets, LostAcks, ReadsFail, TimePasses} \subseteq BOOLEAN

Tasks == Clients \cup {Pump}
Levels == "levels"    \* the exchanges of levels and settings, at the end of a poll
NoOp == [field |-> "none", val |-> NoValue]
Unread == <<>>

\* Ages: at most FRESH_ENOUGH_TO_SKIP, at most MAX_READ_AGE, older.
Fresh == 0
Recent == 1
Old == 2

VARIABLES
    radio,      \* the radio's settings
    known, cached, age, assumed, generation,  \* Cache: state, taken, assumed, generation
    op,         \* the set or the read a task has asked the broker for
    stage,      \* how far that exchange has come
    ok,         \* how it ends
    sets,       \* sets that rigctl clients have made, and moves at the panel
    skipped,    \* sets that were answered without asking the radio
    queue,      \* the consoles' commands, first in first out
    cmd,        \* what each command sets
    told,       \* what its console has been told, or will be
    phase,      \* pump_once: resting, applying, polling
    batch,      \* take_queued, less what has been applied
    results,    \* what has been applied: the replies owed
    asked,      \* what the poll still has to read
    sample,     \* what it has read
    pollGen, pollAge  \* generation and taken_at

\* What the properties speak of.
VARIABLES
    writer,     \* the command that changed a field last, or Other
    order,      \* the commands in the order they were queued
    applied,    \* the commands in the order they reached the radio
    deaf,       \* fields whose last set was acknowledged and not taken
    unseen,     \* fields changed behind the cache's back since they were read
    pollUnseen, \* the same, for the poll
    seenAge, pollSeenAge \* time since the oldest reading was made

cacheVars == <<known, cached, age, assumed, generation>>
exchange == <<op, stage, ok>>
consoleVars == <<queue, cmd, told, order>>
pollVars == <<asked, sample, pollGen, pollAge, pollSeenAge>>
vars == <<radio, cacheVars, exchange, sets, skipped, consoleVars, phase, batch, results, pollVars,
          writer, applied, deaf, unseen, pollUnseen, seenAge>>

Init ==
    /\ radio \in [Fields -> Values]
    /\ known = FALSE /\ cached = radio /\ age = Old /\ assumed = FALSE /\ generation = 0
    /\ op = [t \in Tasks |-> NoOp] /\ stage = [t \in Tasks |-> "none"]
    /\ ok = [t \in Tasks |-> FALSE]
    /\ sets = 0 /\ skipped = <<>>
    /\ queue = <<>> /\ cmd = [c \in Cmds |-> NoOp] /\ told = [c \in Cmds |-> "nothing"]
    /\ phase = "rest" /\ batch = <<>> /\ results = <<>>
    /\ asked = {} /\ sample = Unread /\ pollGen = 0 /\ pollAge = Fresh
    /\ writer = [f \in Fields |-> Other] /\ order = <<>> /\ applied = <<>>
    /\ deaf = {} /\ unseen = {} /\ pollUnseen = {} /\ seenAge = Fresh /\ pollSeenAge = Fresh

-----------------------------------------------------------------------------
\* A set of f that has reached the radio and not yet the cache.
Underway(f) == \E c \in Clients : stage[c] \in {"landed", "ended"} /\ op[c].field = f

(* NativeShared's cache.                                                   *)

\* patch_state, with the change Cached makes for a set of f.
PatchState(f, v) ==
    /\ generation' = generation + 1 /\ assumed' = TRUE
    /\ cached' = IF known /\ f \in Patched THEN [cached EXCEPT ![f] = v] ELSE cached
    /\ UNCHANGED <<known, age>>

RecentState == known /\ age <= Recent
MeasuredState(maxAge) == known /\ ~assumed /\ age <= maxAge

\* Mutant: a poll that raced a set is published.
PublishRaced(read) ==
    /\ known' = TRUE /\ cached' = read /\ age' = pollAge /\ assumed' = FALSE
    /\ deaf' = {f \in deaf : Underway(f)} /\ unseen' = pollUnseen /\ seenAge' = pollSeenAge
    /\ UNCHANGED generation

\* publish_state of a reading that did not fail.
PublishState(read) ==
    \/ /\ generation = pollGen
       /\ known' = TRUE /\ cached' = read /\ age' = pollAge /\ assumed' = FALSE
       /\ deaf' = {f \in deaf : Underway(f)} /\ unseen' = pollUnseen /\ seenAge' = pollSeenAge
       /\ UNCHANGED generation
    \/ generation # pollGen /\ UNCHANGED <<cacheVars, deaf, unseen, seenAge>>

-----------------------------------------------------------------------------
(* Exchanges, one at a time: the broker, as its sessions use it.           *)

Ask(t, o) ==
    /\ stage[t] = "none"
    /\ op' = [op EXCEPT ![t] = o] /\ stage' = [stage EXCEPT ![t] = "queued"]
    /\ UNCHANGED ok

OnWire == \E t \in Tasks : stage[t] = "landed"

IsSet(t) == t # Pump \/ phase = "apply"

\* The set takes effect.  A set that is reported failed and lands all the same is
\* one more change the cache knows nothing of.
LandSet(t) ==
    /\ stage[t] = "queued" /\ ~OnWire /\ IsSet(t)
    /\ stage' = [stage EXCEPT ![t] = "landed"]
    /\ \E good, taken \in BOOLEAN :
          /\ ~good => (taken => LostAcks)
          /\ good => (taken \/ DeafSets)
          /\ ok' = [ok EXCEPT ![t] = good]
          /\ LET f == op[t].field
                 behind == taken /\ (t = Pump \/ ~good)
             IN  /\ radio' = IF taken THEN [radio EXCEPT ![f] = op[t].val] ELSE radio
                 /\ writer' = IF ~taken THEN writer
                              ELSE [writer EXCEPT ![f] = IF t = Pump THEN Head(batch) ELSE Other]
                 /\ deaf' = IF ~good THEN deaf ELSE IF taken THEN deaf \ {f} ELSE deaf \cup {f}
                 /\ applied' = IF t = Pump THEN Append(applied, Head(batch)) ELSE applied
                 /\ unseen' = IF behind THEN unseen \cup {f} ELSE unseen
                 /\ pollUnseen' = IF behind /\ phase = "poll" THEN pollUnseen \cup {f} ELSE pollUnseen
    /\ UNCHANGED <<cacheVars, op, sets, skipped, consoleVars, phase, batch, results, pollVars, seenAge>>

\* A read of the poll is answered, or not.
LandRead ==
    /\ stage[Pump] = "queued" /\ ~OnWire /\ phase = "poll"
    /\ stage' = [stage EXCEPT ![Pump] = "landed"]
    /\ LET f == op[Pump].field
       IN  \/ /\ ok' = [ok EXCEPT ![Pump] = TRUE]
              /\ sample' = IF f = Levels THEN sample
                         ELSE [g \in {f} \cup DOMAIN sample |-> IF g = f THEN radio[f] ELSE sample[g]]
              /\ pollUnseen' = pollUnseen \ {f}
              /\ pollSeenAge' = IF sample = Unread THEN Fresh ELSE pollSeenAge
           \/ /\ ReadsFail /\ f # Levels
              /\ ok' = [ok EXCEPT ![Pump] = FALSE]
              /\ UNCHANGED <<sample, pollUnseen, pollSeenAge>>
    /\ UNCHANGED <<radio, cacheVars, op, sets, skipped, consoleVars, phase, batch, results, asked,
                   pollGen, pollAge, writer, applied, deaf, unseen, seenAge>>

\* The worker sends the reply; the task it wakes resumes before another ends.
EndExchange(t) ==
    /\ stage[t] = "landed" /\ \A u \in Tasks : stage[u] # "ended"
    /\ stage' = [stage EXCEPT ![t] = "ended"]
    /\ UNCHANGED <<radio, cacheVars, op, ok, sets, skipped, consoleVars, phase, batch, results,
                   pollVars, writer, applied, deaf, unseen, pollUnseen, seenAge>>

Resumes(t) ==
    /\ stage[t] = "ended"
    /\ stage' = [stage EXCEPT ![t] = "none"] /\ op' = [op EXCEPT ![t] = NoOp]
    /\ ok' = [ok EXCEPT ![t] = FALSE]

-----------------------------------------------------------------------------
(* Cached: a rigctl client's set.  Its reads change nothing.               *)

idleNow == <<radio, phase, batch, results, pollVars, writer, applied, deaf, unseen, pollUnseen, seenAge>>

\* Mutant: the cache need not be measured for a set to be skipped.
RedundantAssumed(f, v) == f = "freq" /\ known /\ age <= Fresh /\ cached[f] = v

Redundant(f, v) == f = "freq" /\ MeasuredState(Fresh) /\ cached[f] = v

SkipSet(c, f, v) ==
    /\ stage[c] = "none" /\ sets < MaxSets
    /\ Redundant(f, v)
    /\ skipped' = Append(skipped, [field |-> f, val |-> v])
    /\ sets' = sets + 1
    /\ UNCHANGED <<idleNow, cacheVars, exchange, consoleVars>>

StartSet(c, f, v) ==
    /\ sets < MaxSets
    /\ ~Redundant(f, v)
    /\ Ask(c, [field |-> f, val |-> v])
    /\ sets' = sets + 1
    /\ UNCHANGED <<idleNow, cacheVars, skipped, consoleVars>>

\* The set came back: the cache is patched only if it was acknowledged.
FinishSet(c) ==
    /\ Resumes(c)
    /\ \/ ok[c] /\ PatchState(op[c].field, op[c].val)
       \/ ~ok[c] /\ UNCHANGED cacheVars
    /\ UNCHANGED <<idleNow, sets, skipped, consoleVars>>

-----------------------------------------------------------------------------
(* The consoles' command queue.                                            *)

\* Slot::of.  A console's reads are answered from the cache and never queued.
SlotOf(c) == cmd[c].field

\* Mutant: the set that is replaced is answered and stays in the queue.
KeptWith(o) == queue

\* What enqueue keeps of the queue when it adds a command for o.
Kept(o) == SelectSeq(queue, LAMBDA c : SlotOf(c) # o.field)

Push(c, kept) == queue' = Append(kept, c)

InQueue(c) == \E i \in DOMAIN queue : queue[i] = c

\* Mutant: the set that is replaced is dropped without an answer.
EnqueueDrops(c, o) ==
    /\ cmd[c] = NoOp
    /\ cmd' = [cmd EXCEPT ![c] = o]
    /\ Push(c, Kept(o))
    /\ order' = Append(order, c)
    /\ UNCHANGED <<idleNow, cacheVars, exchange, sets, skipped, told>>

\* enqueue.  A console that gives up after APPLY_TIMEOUT leaves its command queued.
Enqueue(c, o) ==
    /\ cmd[c] = NoOp
    /\ cmd' = [cmd EXCEPT ![c] = o]
    /\ told' = [d \in Cmds |-> IF InQueue(d) /\ SlotOf(d) = o.field
                               THEN "superseded" ELSE told[d]]
    /\ Push(c, Kept(o))
    /\ order' = Append(order, c)
    /\ UNCHANGED <<idleNow, cacheVars, exchange, sets, skipped>>

Commands == [field : Fields, val : Values]

-----------------------------------------------------------------------------
(* pump_once.                                                              *)

TakeQueued ==
    /\ phase = "rest"
    /\ batch' = queue /\ queue' = <<>> /\ phase' = "apply"
    /\ UNCHANGED <<radio, cacheVars, exchange, sets, skipped, cmd, told, order, results, pollVars,
                   writer, applied, deaf, unseen, pollUnseen, seenAge>>

StartApply ==
    /\ phase = "apply" /\ batch # <<>>
    /\ Ask(Pump, cmd[Head(batch)])
    /\ UNCHANGED <<idleNow, cacheVars, sets, skipped, consoleVars>>

FinishApply ==
    /\ phase = "apply" /\ Resumes(Pump)
    /\ results' = Append(results, <<Head(batch), ok[Pump]>>)
    /\ batch' = Tail(batch)
    /\ UNCHANGED <<radio, cacheVars, sets, skipped, consoleVars, phase, pollVars, writer,
                   applied, deaf, unseen, pollUnseen, seenAge>>

\* The replies, and the end of the cycle.
Replies ==
    /\ told' = [c \in Cmds |->
                  IF \E i \in DOMAIN results : results[i] = <<c, TRUE>> THEN "ok"
                  ELSE IF \E i \in DOMAIN results : results[i] = <<c, FALSE>> THEN "failed"
                  ELSE told[c]]
    /\ results' = <<>> /\ phase' = "rest"
    /\ asked' = {} /\ sample' = Unread /\ pollGen' = 0 /\ pollAge' = Fresh /\ pollSeenAge' = Fresh
    /\ pollUnseen' = {}

StartPoll ==
    /\ phase = "apply" /\ batch = <<>> /\ stage[Pump] = "none"
    /\ phase' = "poll"
    /\ pollGen' = generation /\ pollAge' = Fresh /\ pollSeenAge' = Fresh
    /\ asked' \in {Fields, Fields \cup {Levels}}
    /\ UNCHANGED <<radio, cacheVars, exchange, sets, skipped, consoleVars, batch, results, sample,
                   writer, applied, deaf, unseen, pollUnseen, seenAge>>

\* CW is live: the link is its own, and there is no poll this time.
NoPoll ==
    /\ phase = "apply" /\ batch = <<>> /\ stage[Pump] = "none" /\ ReadsFail
    /\ Replies
    /\ UNCHANGED <<radio, cacheVars, exchange, sets, skipped, queue, cmd, order, batch,
                   writer, applied, deaf, unseen, seenAge>>

StartRead ==
    /\ phase = "poll"
    /\ \E f \in asked :
          /\ f = Levels => asked = {Levels}
          /\ Ask(Pump, [field |-> f, val |-> NoValue])
    /\ UNCHANGED <<idleNow, cacheVars, sets, skipped, consoleVars>>

\* A read came back.  One that failed leaves only levels and settings to be read,
\* and nothing to file.  What the poll has read is filed before any other task runs.
FinishRead ==
    /\ phase = "poll" /\ Resumes(Pump)
    /\ LET rest == IF ok[Pump] THEN asked \ {op[Pump].field} ELSE asked \cap {Levels}
           read == IF ok[Pump] THEN sample ELSE Unread
       IN  \/ /\ rest # {}
              /\ asked' = rest /\ sample' = read
              /\ UNCHANGED <<cacheVars, deaf, unseen, seenAge, told, results, phase, pollGen,
                             pollAge, pollSeenAge, pollUnseen>>
           \/ rest = {} /\ read # Unread /\ PublishState(read) /\ Replies
           \/ rest = {} /\ read = Unread /\ Replies /\ UNCHANGED <<cacheVars, deaf, unseen, seenAge>>
    /\ UNCHANGED <<radio, sets, skipped, queue, cmd, order, batch, writer, applied>>

-----------------------------------------------------------------------------
(* The front panel, external, and time.                                    *)

Panel(f, v) ==
    /\ PanelMoves /\ sets < MaxSets /\ radio[f] # v
    /\ sets' = sets + 1
    /\ radio' = [radio EXCEPT ![f] = v]
    /\ writer' = [writer EXCEPT ![f] = Other]
    /\ unseen' = unseen \cup {f}
    /\ pollUnseen' = IF phase = "poll" THEN pollUnseen \cup {f} ELSE pollUnseen
    /\ UNCHANGED <<cacheVars, exchange, skipped, consoleVars, phase, batch, results, pollVars,
                   applied, deaf, seenAge>>

Older(a) == IF a = Old THEN Old ELSE a + 1

Tick ==
    /\ TimePasses
    /\ age # Old \/ (phase = "poll" /\ pollAge # Old)
    /\ age' = Older(age) /\ seenAge' = Older(seenAge)
    /\ IF phase = "poll" THEN pollAge' = Older(pollAge) /\ pollSeenAge' = Older(pollSeenAge)
       ELSE UNCHANGED <<pollAge, pollSeenAge>>
    /\ UNCHANGED <<radio, known, cached, assumed, generation, exchange, sets, skipped, consoleVars,
                   phase, batch, results, asked, sample, pollGen, writer, applied, deaf, unseen,
                   pollUnseen>>

PumpStep == TakeQueued \/ StartApply \/ FinishApply \/ StartPoll \/ NoPoll \/ StartRead \/ FinishRead
Broker == LandRead \/ \E t \in Tasks : LandSet(t) \/ EndExchange(t)

Next ==
    \/ \E c \in Clients : FinishSet(c) \/ \E f \in Fields, v \in Values : SkipSet(c, f, v) \/ StartSet(c, f, v)
    \/ \E c \in Cmds, o \in Commands : Enqueue(c, o)
    \/ PumpStep \/ Broker
    \/ \E f \in Fields, v \in Values : Panel(f, v)
    \/ Tick

Spec == Init /\ [][Next]_vars

\* The pump's task loops for as long as the server runs, and an exchange ends in an
\* answer or in the broker's timeout.
Fairness ==
    /\ WF_vars(PumpStep) /\ WF_vars(LandRead) /\ \A t \in Tasks : WF_vars(LandSet(t)) /\ WF_vars(EndExchange(t))
    /\ \A c \in Clients : WF_vars(FinishSet(c))

FairSpec == Spec /\ Fairness

-----------------------------------------------------------------------------
(* Properties.                                                             *)

\* Type correctness of cache, queue, exchanges and pump; what one turn of the pump
\* gathers it leaves behind for no other.
TypeOK ==
    /\ radio \in [Fields -> Values] /\ cached \in [Fields -> Values]
    /\ DOMAIN sample \subseteq Fields /\ \A f \in DOMAIN sample : sample[f] \in Values
    /\ known \in BOOLEAN /\ assumed \in BOOLEAN /\ generation \in Nat /\ pollGen \in Nat
    /\ {age, pollAge, seenAge, pollSeenAge} \subseteq Fresh..Old
    /\ DOMAIN op = Tasks /\ stage \in [Tasks -> {"none", "queued", "landed", "ended"}]
    /\ ok \in [Tasks -> BOOLEAN] /\ sets \in 0..MaxSets
    /\ \A s \in {queue, batch, order, applied} : s \in Seq(Cmds)
    /\ results \in Seq(Cmds \X BOOLEAN)
    /\ cmd \in [Cmds -> Commands \cup {NoOp}]
    /\ told \in [Cmds -> {"nothing", "ok", "failed", "superseded"}]
    /\ phase \in {"rest", "apply", "poll"} /\ asked \subseteq Fields \cup {Levels}
    /\ writer \in [Fields -> Cmds \cup {Other}]
    /\ phase = "rest" => batch = <<>> /\ results = <<>> /\ stage[Pump] = "none"
    /\ asked # {} <=> phase = "poll"
    /\ deaf \subseteq Fields /\ unseen \subseteq Fields /\ pollUnseen \subseteq Fields

\* Cache::assumed and Cache::generation: what counts as measured is what the radio
\* is set to, except for changes nobody reported to the cache.  This is what a
\* set is skipped on, and what the mode is read from.
MeasuredIsTrue ==
    MeasuredState(Old) => \A f \in Fields \ unseen : cached[f] = radio[f] \/ Underway(f)

\* Cache::generation: "a client told RPRT 0 reads back the frequency it just
\* replaced" does not happen.  The last acknowledged set of a patched field is
\* in the cache until a poll finds something else at the radio.
ReadBack ==
    RecentState => \A f \in Patched \ (unseen \cup deaf) : cached[f] = radio[f] \/ Underway(f)

\* Cache::assumed: "the one that could recover the radio" is not "swallowed as
\* redundant".  A set answered without asking the radio finds the radio there
\* already, unless it was changed behind the cache's back.
SkipIsSafe ==
    [][Len(skipped') > Len(skipped) /\ "freq" \notin unseen =>
         radio["freq"] = skipped'[Len(skipped')].val \/ Underway("freq")]_vars

\* Cache::taken: "when the radio was asked, not when the answer was filed".  A
\* reading is never certified younger than its oldest part.
FreshnessHonest == known => age >= seenAge

\* What the cache says of the radio is so: a measured value is the radio's, a set that
\* was acknowledged reads back, and no reading is certified younger than its oldest
\* part, for every order of sets, polls and faults (Cache of native_bridge.rs).
CacheIsTrue == MeasuredIsTrue /\ ReadBack /\ FreshnessHonest

\* SUPERSEDED: "the radio was never asked".  A console told so can rely on it, and
\* a set the pump has taken is not recalled.
SupersededNeverApplied ==
    \A c \in Cmds : told[c] = "superseded" =>
        /\ \A i \in DOMAIN applied : applied[i] # c
        /\ \A i \in DOMAIN batch : batch[i] # c
        /\ ~InQueue(c)

\* enqueue and take_queued: commands reach the radio in the order they were queued,
\* across cycles and whatever was replaced in between, so that of two sets of one
\* control the later stays, and a retune and a set of the dial are not swapped.
AppliedInOrder ==
    \A i, j \in DOMAIN applied : i < j =>
        \E m, n \in DOMAIN order : m < n /\ order[m] = applied[i] /\ order[n] = applied[j]

\* enqueue: "Answer it rather than dropping it on the floor".  Every queued command
\* is answered, whatever other commands, polls and clients do.
EveryCommandAnswered == \A c \in Cmds : cmd[c] # NoOp ~> told[c] # "nothing"

-----------------------------------------------------------------------------
(* What the source's comments say and the code does not do in every case.  *)

\* pump_once: "by the time apply returns, a read is already correct".
ReadAfterApply ==
    \A f \in Fields : writer[f] # Other /\ told[writer[f]] = "ok" /\ RecentState
        => cached[f] = cmd[writer[f]].val

\* Clients, commands and values are only ever compared with each other.
Symmetry == Permutations(Clients) \cup Permutations(Cmds) \cup Permutations(Values)
=============================================================================
