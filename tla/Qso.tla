-------------------------------- MODULE Qso --------------------------------
(***************************************************************************)
(* The script builders of cat-morse's practice scenarios                   *)
(* (cat-morse/src/scenario/qso.rs): who is put on the air, and who says    *)
(* what in which order.  An over is who sends it, to whom, what it asks    *)
(* for, what it tells, what it uses of what the other side told, and       *)
(* whether it starts over the previous one.  Wording, speeds and pauses    *)
(* are left out; every draw of the generator is a choice.                  *)
(***************************************************************************)
EXTENDS Integers, Sequences, FiniteSets, FiniteSetsExt

CONSTANTS
    Calls,       \* the base calls each entity can issue
    Own,         \* the operator's own entity
    MyBase,      \* the operator's own base call
    RareOnes,    \* entities random_rare can draw
    Kinds,       \* the scenario kinds generated
    MaxCallers,  \* bound on the callers of a pileup (the code allows 12)
    MaxContacts  \* bound on the contacts of a contest (the code makes 3 to 5)

VARIABLES
    kind,      \* ScenarioKind
    stage,     \* where the builder is
    stations,  \* Builder::stations: the call and the entity of each
    avoid,     \* Builder::avoid; 0 is None
    tx,        \* Builder::tx, the overs
    todo,      \* the rest of the contact being scripted
    waiting,   \* stations of the pileup not yet worked
    count,     \* contacts or callers to go, then how many the DX works first
    worked     \* contacts the DX has made

vars == <<kind, stage, stations, avoid, tx, todo, waiting, count, worked>>

You == 0
Entities == DOMAIN Calls

Over(from, to, asks, tells, uses) ==
    [from |-> from, to |-> to, asks |-> asks, tells |-> tells, uses |-> uses, with |-> FALSE]
Ask(from, to, what) == Over(from, to, what, {}, {})
Tell(from, to, what, using) == Over(from, to, {}, what, using)

\* rag_chew, after the station is placed: each element is the ways the next part may go.
RagChew(t) == <<
    { <<Tell(t, You, {"call"}, {})>>, <<Tell(t, You, {"call"}, {}), Tell(t, You, {"call"}, {})>> },
    { <<Tell(You, t, {"call"}, {"call"}), Tell(t, You, {"rst", "name", "qth"}, {"call"})>> },
    { <<>>, <<Ask(You, t, {"name", "qth"}), Tell(t, You, {"name", "qth"}, {"call"})>> },
    { <<Tell(You, t, {"rst", "name", "qth"}, {"name"}), Tell(t, You, {"rig", "wx"}, {"name"})>> },
    { <<>>, <<Ask(You, t, {"rig"}), Tell(t, You, {"rig"}, {"call"})>> },
    { <<Tell(You, t, {"rig", "wx"}, {"name"}), Tell(t, You, {"73"}, {"name"}), Tell(You, t, {"73"}, {"call"})>> } >>

\* contest, one contact.
Contest(t) == <<
    { <<Tell(t, You, {"call"}, {}), Tell(You, t, {"call"}, {})>> },
    { <<>>, <<Ask(t, You, {"call"}), Tell(You, t, {"call"}, {})>> },
    { <<Tell(t, You, {"rst", "number"}, {"call"})>> },
    { <<>>, <<Ask(You, t, {"rst", "number"}), Tell(t, You, {"rst", "number"}, {})>> },
    { <<Tell(You, t, {"rst", "number"}, {})>> },
    { <<>>, <<Ask(t, You, {"number"}), Tell(You, t, {"number"}, {})>> },
    { <<Tell(t, You, {"73"}, {})>> } >>

\* pota.
Pota(t) == <<
    { <<Tell(t, You, {"call"}, {})>>, <<Tell(t, You, {"call", "park"}, {})>> },
    { <<Tell(You, t, {"call"}, {})>> },
    { <<>>, <<Ask(t, You, {"call"}), Tell(You, t, {"call"}, {})>> },
    { <<Tell(t, You, {"rst", "state"}, {"call"}), Tell(You, t, {"rst", "state"}, {})>> },
    { <<>>, <<Ask(t, You, {"state"}), Tell(You, t, {"state"}, {})>> },
    { <<>>, <<Ask(You, t, {"park"}), Tell(t, You, {"park"}, {})>> },
    { <<Tell(t, You, {"73"}, {})>> } >>

\* sota: the summit is asked for unless it was sent, and sometimes even then.
SotaAsk(t) == <<Ask(You, t, {"summit"}), Tell(t, You, {"summit"}, {})>>
Sota(t) == <<
    { <<Tell(t, You, {"call"}, {}), Tell(You, t, {"call"}, {})>> },
    { <<>>, <<Ask(t, You, {"call"}), Tell(You, t, {"call"}, {})>> },
    { <<Tell(t, You, {"rst", "state"}, {"call"}), Tell(You, t, {"rst", "state"}, {})>> \o SotaAsk(t) }
      \cup { <<Tell(t, You, {"rst", "state", "summit"}, {"call"}), Tell(You, t, {"rst", "state"}, {})>> \o r :
                r \in {<<>>, SotaAsk(t)} },
    { <<Tell(t, You, {"73"}, {})>> } >>

Contact(t) ==
    CASE kind = "RagChew" -> RagChew(t) [] kind = "Contest" -> Contest(t)
      [] kind = "Pota" -> Pota(t) [] kind = "Sota" -> Sota(t)

\* fresh_call: calls of an entity whose base is neither mine nor on the air.
Fresh(e) == Calls[e] \ ({MyBase} \cup {stations[i].call : i \in DOMAIN stations})

\* place's loop: a home with no call left gives way to another, not the
\* operator's own entity nor the one avoided.
Placed(e) ==
    IF Fresh(e) # {} THEN {[call |-> c, entity |-> e] : c \in Fresh(e)}
    ELSE UNION {{[call |-> c, entity |-> f] : c \in Fresh(f)} : f \in Entities \ {Own, avoid}}

Place(homes) == \E e \in homes : \E s \in Placed(e) : stations' = Append(stations, s)

Init ==
    /\ kind \in Kinds /\ stage = "place" /\ stations = <<>> /\ avoid = 0 /\ tx = <<>>
    /\ todo = <<>> /\ waiting = {} /\ worked = 0
    /\ count \in IF kind \in {"DxPileup", "DxChase"} THEN 1..MaxCallers
                 ELSE IF kind = "Contest" THEN 1..MaxContacts ELSE {1}

\* The station of the next contact, local or DX, or where the activation is.
PlaceStation ==
    /\ stage = "place" /\ kind \in {"RagChew", "Contest", "Pota", "Sota"} /\ count > 0
    /\ Place(Entities)
    /\ todo' = Contact(Len(stations) + 1) /\ stage' = "script" /\ count' = count - 1
    /\ UNCHANGED <<kind, avoid, tx, waiting, worked>>

Script ==
    /\ stage = "script" /\ todo # <<>>
    /\ \E part \in Head(todo) : tx' = tx \o part
    /\ todo' = Tail(todo)
    /\ stage' = IF Len(todo) > 1 THEN "script" ELSE IF count > 0 THEN "place" ELSE "done"
    /\ UNCHANGED <<kind, stations, avoid, waiting, count, worked>>

\* chase: the rare station first; from then on its entity is avoided.
PlaceDx ==
    /\ stage = "place" /\ kind = "DxChase" /\ stations = <<>>
    /\ \E e \in RareOnes \ {Own} :
          /\ \E s \in Placed(e) : stations' = Append(stations, s)
          /\ avoid' = e
    /\ UNCHANGED <<kind, stage, tx, todo, waiting, count, worked>>

\* A caller of the pileup: never the operator's own entity when the operator is
\* the DX, never the DX's when it is chased.
PlaceCaller ==
    /\ stage = "place" /\ count > 0
    /\ \/ kind = "DxPileup" /\ Place(Entities \ {Own})
       \/ kind = "DxChase" /\ stations # <<>> /\ Place(Entities \ {avoid})
    /\ waiting' = waiting \cup {Len(stations) + 1}
    /\ count' = count - 1
    /\ UNCHANGED <<kind, stage, avoid, tx, todo, worked>>

\* The operator's CQ.
PileupCq ==
    /\ stage = "place" /\ kind = "DxPileup" /\ count = 0
    /\ tx' = <<Tell(You, You, {"call"}, {})>> /\ stage' = "round"
    /\ UNCHANGED <<kind, stations, avoid, todo, waiting, count, worked>>

\* The DX's CQ; how many it works before the operator is drawn then.
ChaseCq ==
    /\ stage = "place" /\ kind = "DxChase" /\ count = 0 /\ stations # <<>>
    /\ tx' = <<Tell(1, You, {"call"}, {})>> /\ stage' = "round"
    /\ count' \in 1..Min({Cardinality(waiting), 3})
    /\ UNCHANGED <<kind, stations, avoid, todo, waiting, worked>>

\* all_call: everyone waiting, in the order they joined, over one another; the
\* operator, when there, after them.
AllCall(to, you) ==
    LET n == Cardinality(waiting)
        nth(k) == CHOOSE i \in waiting : Cardinality({j \in waiting : j <= i}) = k
    IN  [k \in 1..n |-> [Tell(nth(k), to, {"call"}, {}) EXCEPT !.with = k > 1]]
            \o (IF you THEN <<Tell(You, to, {"call"}, {})>> ELSE <<>>)

Maybe(overs) == {<<>>, overs}

\* pileup: a round; one of those waiting is worked.
PileupRound ==
    /\ stage = "round" /\ kind = "DxPileup" /\ waiting # {}
    /\ \E t \in waiting :
        LET partial == <<Ask(You, t, {"call"}), Tell(t, You, {"call"}, {})>>
            again   == <<Ask(You, t, {"rst", "number"}), Tell(t, You, {"rst", "number"}, {})>>
        IN  /\ \E p \in IF Cardinality(waiting) > 4 THEN {partial} ELSE Maybe(partial), r \in Maybe(again) :
                  tx' = tx \o AllCall(You, FALSE) \o p
                           \o <<Tell(You, t, {"rst", "number"}, {"call"}), Tell(t, You, {"rst", "number"}, {})>>
                           \o r \o <<Tell(You, You, {"73"}, {})>>
            /\ waiting' = waiting \ {t}
    /\ stage' = IF waiting' = {} THEN "done" ELSE "round"
    /\ UNCHANGED <<kind, stations, avoid, todo, count, worked>>

\* (A mutant of ChaseRound: a worked station keeps calling.)
ChaseRoundKeeping ==
    /\ stage = "round" /\ kind = "DxChase" /\ worked # count /\ waiting # {}
    /\ \E t \in waiting :
          tx' = tx \o AllCall(1, TRUE)
                   \o <<Tell(1, t, {"rst"}, {"call"}), Tell(t, 1, {"rst"}, {}), Tell(1, You, {"73"}, {})>>
    /\ worked' = worked + 1
    /\ UNCHANGED <<kind, stage, stations, avoid, todo, waiting, count>>

\* chase: a round in which the DX works somebody else.
ChaseRound ==
    /\ stage = "round" /\ kind = "DxChase" /\ worked # count /\ waiting # {}
    /\ \E t \in waiting :
          /\ tx' = tx \o AllCall(1, TRUE)
                      \o <<Tell(1, t, {"rst"}, {"call"}), Tell(t, 1, {"rst"}, {}), Tell(1, You, {"73"}, {})>>
          /\ waiting' = waiting \ {t}
    /\ worked' = worked + 1
    /\ UNCHANGED <<kind, stage, stations, avoid, todo, count>>

\* chase: the round in which it works the operator.
ChaseEnds ==
    /\ stage = "round" /\ kind = "DxChase" /\ (worked = count \/ waiting = {})
    /\ \E p \in Maybe(<<Ask(1, You, {"call"}), Tell(You, 1, {"call"}, {})>>) :
          tx' = tx \o AllCall(1, TRUE) \o p
                   \o <<Tell(1, You, {"rst"}, {"call"}), Tell(You, 1, {"rst"}, {}), Tell(1, You, {"73"}, {})>>
    /\ stage' = "done"
    /\ UNCHANGED <<kind, stations, avoid, todo, waiting, count, worked>>

Next ==
    \/ PlaceStation \/ Script \/ PlaceDx \/ PlaceCaller \/ PileupCq \/ ChaseCq
    \/ PileupRound \/ ChaseRound \/ ChaseEnds

Spec == Init /\ [][Next]_vars

\* Every request in a script (AGN?, QRZ?, PSE RPT, REF?, half a callsign) is
\* answered at once, by the station asked, with what was asked for; and no over
\* uses a call or a name the other side has not sent before it.
OversFollow ==
    \A k \in DOMAIN tx :
        /\ tx[k].asks # {} => /\ k < Len(tx)
                              /\ tx[k + 1].from = tx[k].to /\ tx[k + 1].to = tx[k].from
                              /\ tx[k].asks \subseteq tx[k + 1].tells
        /\ \A what \in tx[k].uses :
              \E j \in 1..(k - 1) : /\ what \in tx[j].tells /\ tx[j].from = tx[k].to
                                    /\ tx[j].to \in {tx[k].from, You}

\* How often `from` gives `to` a report that was not asked for again.
Reports(from, to) ==
    Cardinality({k \in DOMAIN tx : /\ tx[k].from = from /\ tx[k].to = to /\ "rst" \in tx[k].tells
                                   /\ k > 1 => tx[k - 1].asks = {}})

\* A pileup works every caller exactly once, and a chase ends with the operator
\* worked exactly once, after at least one other and never one of them twice.
WorkedOnce ==
    stage = "done" =>
        /\ kind = "DxPileup" => \A i \in DOMAIN stations : Reports(You, i) = 1 /\ Reports(i, You) = 1
        /\ kind = "DxChase" => /\ Reports(1, You) = 1 /\ Reports(You, 1) = 1
                               /\ \A i \in 2..Len(stations) : Reports(1, i) = Reports(i, 1) /\ Reports(1, i) <= 1
                               /\ \E i \in 2..Len(stations) : Reports(1, i) = 1

\* No two stations of a script share a base call, and none has the operator's:
\* fresh_call's comparison covers every station placed before.
CallsDistinct ==
    \A i \in DOMAIN stations : /\ stations[i].call # MyBase
                               /\ \A j \in DOMAIN stations : i # j => stations[i].call # stations[j].call

\* "From here on no station, even a fallback, is the DX's countryman": nobody in
\* the pileup comes from the entity the chased station is in.
NoCountryman ==
    kind = "DxChase" => \A i \in 2..Len(stations) : stations[i].entity # stations[1].entity
=============================================================================
