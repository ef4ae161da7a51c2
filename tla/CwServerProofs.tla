--------------------------- MODULE CwServerProofs ---------------------------
(***************************************************************************)
(* The PTT gate, the keyer speed and the end of the server around the CW   *)
(* supervisor, for any number of consoles and requests: on Linux no        *)
(* external client has the radio keyed under an arm and a server that      *)
(* returns has restored the radio or says that it has not; on either build *)
(* a keyer speed does not change under the arm.                            *)
(***************************************************************************)
EXTENDS CwServer, SequenceTheorems, TLAPS

-----------------------------------------------------------------------------
(* The inductive invariant.                                                *)

Steps == {"status", "clamp", "chunk", "drain", "stop", "restore"}
Activities == {"Idle", "Arming", "Sending", "Stopping", "Restoring"}
Places == {"top", "clear", "poison", "poisonStop", "drive", "routeGo", "routeEnd", "routeDone",
           "routeDone0", "wire", "complete", "commands", "speed", "sleep"}

Types ==
    /\ act \in Activities /\ outstanding \in Steps \cup {None} /\ pump \in Places
    /\ rig \in {"idle", "checked", "sent"} /\ speed \in {None, "queued", "write"}
    /\ poisoned \in BOOLEAN /\ snap \in BOOLEAN /\ unsettled \in BOOLEAN
    /\ clamped \in BOOLEAN /\ keying \in BOOLEAN /\ ext \in BOOLEAN

\* Where the pump is while a step of the supervisor, a speed command or the stop of a
\* poisoned supervisor is on its way.
PumpInv ==
    /\ outstanding # None <=> pump \in {"routeGo", "wire", "complete"}
    /\ speed = "write" <=> pump = "speed"
    /\ pump \in {"poison", "poisonStop"} => poisoned

\* The broker's queue holds the pump's exchange, the client's PTT, both or neither.
HasItem == pump \in {"wire", "poisonStop", "speed"}
Item == IF pump = "wire" THEN outstanding ELSE IF pump = "poisonStop" THEN "stop" ELSE "speed"
QueueInv ==
    \/ ~HasItem /\ rig # "sent" /\ queue = <<>>
    \/ ~HasItem /\ rig = "sent" /\ queue = <<"ptt">>
    \/ HasItem /\ rig # "sent" /\ queue = <<Item>>
    \/ HasItem /\ rig = "sent" /\ (queue = <<Item, "ptt">> \/ queue = <<"ptt", Item>>)

\* What each activity has planned and under way, also after a request overtook it, and
\* what it may have done to the radio.
Fresh == plan = <<"status", "clamp">> /\ outstanding \in {None, "status"} /\ ~snap
Looked == plan = <<"clamp">> /\ outstanding \in {None, "status"} /\ ~snap
Clamping == plan = <<>> /\ outstanding = "clamp" /\ snap
ActInv ==
    /\ arm # NoOne \/ act = "Restoring" => snap
    /\ act = "Idle" =>
          /\ plan = <<>> /\ outstanding \in {None, "status"} /\ ~keying
          /\ IF arm = NoOne THEN ~snap ELSE outstanding = None
    /\ act = "Arming" => arm = NoOne /\ owner # NoOne /\ ~keying /\ (Fresh \/ Looked \/ Clamping)
    /\ act = "Sending" =>
          /\ arm # NoOne /\ outstanding \in {None, "status", "chunk", "drain"}
          /\ plan \in {<<"status", "chunk", "drain">>, <<"chunk", "drain">>, <<"drain">>, <<>>}
          /\ outstanding = "drain" => plan = <<>> /\ (pump = "complete" => ~keying)
    /\ act = "Stopping" =>
          /\ arm # NoOne
          /\ \/ plan = <<"stop">> /\ outstanding \in {None, "status", "chunk", "drain"}
             \/ plan = <<>> /\ outstanding = "stop"
    /\ act = "Restoring" =>
          /\ arm = NoOne /\ ~keying
          /\ \/ plan = <<"restore">> /\ outstanding \in {None, "status", "clamp"}
             \/ plan = <<>> /\ outstanding = "restore"

\* The gate.  An external PTT that was let through before an arm is in the broker's queue
\* before the arm's status, so the status finds it; from then on there is none.
Quiet == ~ext /\ rig = "idle"
GateInv ==
    /\ rig # "checked"
    /\ arm # NoOne => Quiet
    /\ act = "Arming" /\ ~poisoned =>
          /\ plan = <<>> \/ (Looked /\ outstanding = None) => Quiet
          /\ Looked /\ outstanding = "status" =>
                /\ pump = "wire" => queue # <<"status", "ptt">>
                /\ pump = "complete" => rig = "idle"

\* A speed is written before the arm has read anything.
SpeedInv ==
    pump = "speed" => arm = NoOne /\ (act = "Idle" \/ (act = "Arming" /\ plan = <<"status", "clamp">> /\ ~snap))

\* A clamp is undone by a restore only, and nothing more comes from a server that has
\* returned.
RestInv ==
    /\ clamped \/ outstanding \in {"clamp", "restore"} => snap
    /\ backend = "linux" /\ server = "returned" /\ ~unsettled =>
          ~clamped /\ ~keying /\ pump \notin {"wire", "poisonStop"}

\* Who waits has a ticket, and a ticket is a console's.
Ticket == [owner : Consoles, arm : BOOLEAN, open : BOOLEAN]
TicketInv == tickets \in Seq(Ticket) /\ waiters \subseteq 1..Len(tickets)

ServerInv ==
    /\ Types /\ PumpInv /\ QueueInv /\ TicketInv /\ SpeedInv /\ RestInv
    /\ ~poisoned => ActInv
    /\ backend = "linux" => GateInv

-----------------------------------------------------------------------------
(* Plans and the broker's queue.                                           *)

\* The plans the supervisor makes differ, and which step of each is next.
LEMMA Plans ==
    /\ <<"status", "clamp">> # <<>> /\ <<"clamp">> # <<>> /\ <<"stop">> # <<>> /\ <<"restore">> # <<>>
    /\ <<"status", "clamp">> # <<"clamp">>
    /\ Head(<<"status", "clamp">>) = "status" /\ Tail(<<"status", "clamp">>) = <<"clamp">>
    /\ Head(<<"clamp">>) = "clamp" /\ Tail(<<"clamp">>) = <<>>
    /\ Head(<<"stop">>) = "stop" /\ Tail(<<"stop">>) = <<>>
    /\ Head(<<"restore">>) = "restore" /\ Tail(<<"restore">>) = <<>>
    /\ Head(<<"status", "chunk", "drain">>) = "status" /\ Tail(<<"status", "chunk", "drain">>) = <<"chunk", "drain">>
    /\ Head(<<"chunk", "drain">>) = "chunk" /\ Tail(<<"chunk", "drain">>) = <<"drain">>
    /\ Head(<<"drain">>) = "drain" /\ Tail(<<"drain">>) = <<>>
  OBVIOUS

\* What joins a queue of at most one, and what leaves one of at most two.
LEMMA Queues ==
    ASSUME NEW a, NEW b
    PROVE  /\ Append(<<>>, a) = <<a>> /\ Append(<<a>>, b) = <<a, b>>
           /\ <<a>> # <<>> /\ <<a, b>> # <<>>
           /\ Head(<<a>>) = a /\ Tail(<<a>>) = <<>>
           /\ Head(<<a, b>>) = a /\ Tail(<<a, b>>) = <<b>>
  <1>1. Append(<<>>, a) = <<a>>
    OBVIOUS
  <1>2. Append(<<a>>, b) = <<a, b>>
    <2>1. <<a>> \in Seq({a, b}) /\ Len(<<a>>) = 1 /\ <<a>>[1] = a
      OBVIOUS
    <2>2. Append(<<a>>, b) \in Seq({a, b}) /\ Len(Append(<<a>>, b)) = 2
      BY <2>1, AppendProperties
    <2>3. Append(<<a>>, b)[1] = a /\ Append(<<a>>, b)[2] = b
      BY <2>1, AppendProperties
    <2>4. <<a, b>> \in Seq({a, b}) /\ Len(<<a, b>>) = 2 /\ <<a, b>>[1] = a /\ <<a, b>>[2] = b
      OBVIOUS
    <2>5. \A i \in 1..Len(Append(<<a>>, b)) : Append(<<a>>, b)[i] = <<a, b>>[i]
      BY <2>2, <2>3, <2>4
    <2> QED
      BY <2>2, <2>4, <2>5, SeqEqual, Zenon
  <1>3. <<a>> # <<>> /\ <<a, b>> # <<>>
    OBVIOUS
  <1>4. Head(<<a>>) = a /\ Head(<<a, b>>) = a
    OBVIOUS
  <1>5. Tail(<<a>>) = <<>>
    OBVIOUS
  <1>6. Tail(<<a, b>>) = <<b>>
    OBVIOUS
  <1> QED
    BY <1>1, <1>2, <1>3, <1>4, <1>5, <1>6, Zenon

\* Where a PTT is not behind the arm's status.
LEMMA Behind ==
    /\ <<>> # <<"status", "ptt">>
    /\ \A x : <<x>> # <<"status", "ptt">> /\ <<"ptt", x>> # <<"status", "ptt">>
  OBVIOUS

-----------------------------------------------------------------------------
(* The parts of the invariant that hold whatever the supervisor does.      *)

\* No request of a console, no notice and no end of the server moves the pump or reaches
\* the radio: they change the supervisor only.
Aside == UNCHANGED <<backend, outstanding, poisoned, pump, queue, rig, clamped, keying, ext>>

LEMMA AsideActions ==
    ASSUME NEW c \in Consoles,
           \/ \E isArm \in BOOLEAN : Ask(c, isArm)
           \/ TakeAnswer(c) \/ Expire(c) \/ DropReceiver(c)
           \/ SendText(c) \/ AbortCw(c) \/ SetSpeed(c) \/ Detach(c)
    PROVE  /\ Aside /\ UNCHANGED <<server, unsettled>>
           /\ speed' = speed \/ (speed = None /\ speed' = "queued")
           /\ act' \in Activities \/ act' = act
           /\ snap' = snap \/ snap' = FALSE
  <1>1. ASSUME NEW isArm \in BOOLEAN, Ask(c, isArm)
        PROVE  /\ Aside /\ UNCHANGED <<server, unsettled, speed>>
               /\ act' \in Activities \/ act' = act
               /\ snap' = snap \/ snap' = FALSE
    BY <1>1, Zenon DEF Ask, Aside, SupDisarm, EndArm, BeginStop, StartRestore, poisonVars, pumpVars, radioVars, Activities
  <1>2. CASE TakeAnswer(c) \/ Expire(c) \/ DropReceiver(c)
    BY <1>2, Zenon DEF TakeAnswer, Expire, DropReceiver, Aside, supVars, poisonVars, pumpVars, radioVars
  <1>3. CASE SendText(c) \/ AbortCw(c)
    BY <1>3, Zenon DEF SendText, AbortCw, BeginStop, Aside, supVars, poisonVars, pumpVars, radioVars, Activities
  <1>4. CASE SetSpeed(c)
    BY <1>4, Zenon DEF SetSpeed, Aside, supVars, poisonVars, radioVars
  <1>5. CASE Detach(c)
    BY <1>5, Zenon DEF Detach, RefuseArm, SupDisarm, EndArm, BeginStop, StartRestore, Aside, supVars, poisonVars,
                pumpVars, radioVars, Activities
  <1> QED
    BY <1>1, <1>2, <1>3, <1>4, <1>5, Zenon

\* One exchange of the broker: the client's PTT, the keyer speed, or a step.
LEMMA Exchanged ==
    ASSUME Types, PumpInv, QueueInv, Exchange
    PROVE  /\ UNCHANGED <<backend, supVars, poisonVars, routing, server, unsettled>>
           /\ \/ /\ Head(queue) = "ptt" /\ rig = "sent" /\ rig' = "idle" /\ ext' = TRUE
                 /\ UNCHANGED <<clamped, keying, pump, speed>>
                 /\ IF HasItem THEN queue' = <<Item>> ELSE queue' = <<>>
              \/ /\ pump = "speed" /\ Head(queue) = "speed" /\ pump' = "drive" /\ speed' = None
                 /\ UNCHANGED <<clamped, keying, ext, rig>>
                 /\ IF rig = "sent" THEN queue' = <<"ptt">> ELSE queue' = <<>>
              \/ /\ pump = "poisonStop" /\ Head(queue) = "stop" /\ pump' = "drive"
                 /\ clamped' = clamped /\ keying' \in {FALSE, keying}
                 /\ UNCHANGED <<ext, rig, speed>>
                 /\ IF rig = "sent" THEN queue' = <<"ptt">> ELSE queue' = <<>>
              \/ /\ pump = "wire" /\ Head(queue) = outstanding /\ pump' = "complete"
                 /\ clamped' \in CASE outstanding = "clamp" -> {TRUE}
                                   [] outstanding = "restore" -> {FALSE, TRUE}
                                   [] OTHER -> {clamped}
                 /\ keying' \in CASE outstanding = "chunk" -> {TRUE, keying}
                                  [] outstanding = "drain" -> {FALSE}
                                  [] outstanding = "stop" -> {FALSE, keying}
                                  [] OTHER -> {keying}
                 /\ UNCHANGED <<ext, rig, speed>>
                 /\ rig = "sent" => queue = <<outstanding, "ptt">>
                 /\ IF rig = "sent" THEN queue' = <<"ptt">> ELSE queue' = <<>>
  <1>1. queue # <<>> /\ queue' = Tail(queue)
    BY Zenon DEF Exchange
  <1>2. /\ Head(<<"ptt">>) = "ptt" /\ Tail(<<"ptt">>) = <<>>
        /\ Head(<<Item>>) = Item /\ Tail(<<Item>>) = <<>>
        /\ Head(<<"ptt", Item>>) = "ptt" /\ Tail(<<"ptt", Item>>) = <<Item>>
        /\ Head(<<Item, "ptt">>) = Item /\ Tail(<<Item, "ptt">>) = <<"ptt">>
    BY Queues, Zenon
  <1>3. HasItem => Item # "ptt"
    BY Zenon DEF HasItem, Item, Types, Steps, PumpInv, None
  <1>4. CASE Head(queue) = "ptt"
    <2>1. rig = "sent" /\ (IF HasItem THEN queue = <<"ptt", Item>> ELSE queue = <<"ptt">>)
      BY <1>1, <1>3, <1>4, <1>2, Zenon DEF QueueInv
    <2>2. IF HasItem THEN queue' = <<Item>> ELSE queue' = <<>>
      BY <1>1, <1>2, <2>1, Zenon
    <2> QED
      BY <1>4, <2>1, <2>2, Zenon DEF Exchange, supVars, poisonVars
  <1>5. CASE Head(queue) # "ptt"
    <2>1. HasItem /\ (IF rig = "sent" THEN queue = <<Item, "ptt">> ELSE queue = <<Item>>)
      BY <1>1, <1>5, <1>2, Zenon DEF QueueInv
    <2>2. Head(queue) = Item /\ (IF rig = "sent" THEN queue' = <<"ptt">> ELSE queue' = <<>>)
      BY <1>1, <1>2, <2>1, Zenon
    <2>3. pump = "wire" /\ rig = "sent" => queue = <<outstanding, "ptt">>
      BY <2>1, Zenon DEF Item
    <2>4. CASE pump = "speed"
      BY <1>5, <2>2, <2>4, Zenon DEF Exchange, Item, supVars, poisonVars
    <2>5. CASE pump = "poisonStop"
      BY <1>5, <2>2, <2>5, Zenon DEF Exchange, Item, supVars, poisonVars
    <2>6. CASE pump = "wire"
      <3>1. Head(queue) = outstanding /\ outstanding \in Steps
        BY <2>2, <2>6, Zenon DEF Item, PumpInv, Types
      <3> QED
        BY <1>5, <2>2, <2>3, <2>6, <3>1, Zenon DEF Exchange, supVars, poisonVars, Steps
    <2> QED
      BY <2>1, <2>4, <2>5, <2>6, Zenon DEF HasItem
  <1> QED
    BY <1>4, <1>5, Zenon

\* The pump's place, the step under way and the broker's queue agree.
LEMMA WireStep ==
    ASSUME ServerInv, Next
    PROVE  Types' /\ PumpInv' /\ QueueInv'
  <1>0. Types /\ PumpInv /\ QueueInv
    BY Zenon DEF ServerInv
  <1>1. ASSUME Aside, act' \in Activities \/ act' = act, snap' = snap \/ snap' = FALSE,
               speed' = speed \/ (speed = None /\ speed' = "queued"), unsettled' \in BOOLEAN
        PROVE  Types' /\ PumpInv' /\ QueueInv'
    <2>1. Types'
      BY <1>0, <1>1, ZenonT(40) DEF Aside, Types
    <2>2. PumpInv'
      BY <1>0, <1>1, Zenon DEF Aside, PumpInv, None
    <2>3. QueueInv'
      BY <1>0, <1>1, Zenon DEF Aside, QueueInv, HasItem, Item
    <2> QED
      BY <2>1, <2>2, <2>3, Zenon
  <1>2. ASSUME NEW c \in Consoles,
               \/ \E isArm \in BOOLEAN : Ask(c, isArm)
               \/ TakeAnswer(c) \/ Expire(c) \/ DropReceiver(c)
               \/ SendText(c) \/ AbortCw(c) \/ SetSpeed(c) \/ Detach(c)
        PROVE  Types' /\ PumpInv' /\ QueueInv'
    <2>1. /\ Aside /\ UNCHANGED <<server, unsettled>>
          /\ speed' = speed \/ (speed = None /\ speed' = "queued")
          /\ act' \in Activities \/ act' = act
          /\ snap' = snap \/ snap' = FALSE
      BY <1>2, AsideActions, Zenon
    <2> QED
      BY <1>0, <1>1, <2>1, Zenon DEF Types
  <1>3. ASSUME NEW c \in Consoles, Panic(c) PROVE Types' /\ PumpInv' /\ QueueInv'
    <2>1. poisoned' = TRUE
          /\ UNCHANGED <<backend, act, outstanding, snap, pump, speed, queue, rig, clamped, keying, ext, unsettled>>
      BY <1>3, Zenon DEF Panic, supVars, pumpVars, radioVars
    <2> QED
      BY <1>0, <2>1 DEF Types, PumpInv, QueueInv, HasItem, Item
  <1>4. CASE Route \/ Settle \/ Return
    <2>1. Aside /\ UNCHANGED <<speed, snap>>
      BY <1>4, Zenon DEF Route, Settle, Return, SupDisarm, RefuseArm, EndArm, BeginStop, StartRestore, Aside, supVars,
                  poisonVars, pumpVars, radioVars
    <2>2. act' \in Activities \/ act' = act
      BY <1>4, Zenon DEF Route, Settle, Return, SupDisarm, RefuseArm, EndArm, BeginStop, StartRestore, supVars, Activities
    <2>3. unsettled' \in BOOLEAN
      BY <1>0, <1>4, Zenon DEF Route, Settle, Return, Types
    <2> QED
      BY <1>1, <2>1, <2>2, <2>3, Zenon
  <1>5. CASE Top \/ ClearAbort \/ TakeNotices \/ Wake
    <2>1. /\ UNCHANGED <<act, outstanding, poisoned, snap, speed, queue, rig, clamped, keying, ext, unsettled>>
          /\ \/ pump = "top" /\ pump' = IF poisoned THEN "poison" ELSE "clear"
             \/ pump = "clear" /\ pump' = "drive"
             \/ pump = "routeDone0" /\ pump' = "routeDone"
             \/ pump = "sleep" /\ pump' = "top"
      BY <1>5, Zenon DEF Top, ClearAbort, TakeNotices, Wake, supVars, poisonVars, radioVars
    <2>2. Types'
      BY <1>0, <2>1 DEF Types, Places
    <2>3. PumpInv'
      BY <1>0, <2>1, Zenon DEF PumpInv
    <2>4. QueueInv'
      BY <1>0, <2>1, Zenon DEF QueueInv, HasItem
    <2> QED
      BY <2>2, <2>3, <2>4, Zenon
  <1>6. CASE StopAfterPoison
    <2>1. /\ UNCHANGED <<act, outstanding, poisoned, snap, speed, rig, clamped, keying, ext, unsettled>>
          /\ pump = "poison"
          /\ \/ pump' = "drive" /\ queue' = queue
             \/ pump' = "poisonStop" /\ queue' = Append(queue, "stop")
      BY <1>6, Zenon DEF StopAfterPoison, supVars
    <2>2. Types' /\ PumpInv'
      BY <1>0, <2>1, Zenon DEF Types, Places, PumpInv
    <2>3. queue = <<>> \/ queue = <<"ptt">>
      BY <1>0, <2>1, Zenon DEF QueueInv, HasItem
    <2>4. QueueInv'
      BY <1>0, <2>1, <2>3, Queues, ZenonT(40) DEF QueueInv, HasItem, Item
    <2> QED
      BY <2>2, <2>4, Zenon
  <1>7. CASE NextAction
    <2>1. /\ UNCHANGED <<act, poisoned, speed, queue, rig, clamped, keying, ext, unsettled>>
          /\ pump = "drive"
          /\ \/ pump' = "routeEnd" /\ UNCHANGED <<outstanding, snap>>
             \/ pump' = "routeGo" /\ outstanding' = Head(plan) /\ ~poisoned /\ plan # <<>> /\ snap' \in BOOLEAN
      BY <1>7, Zenon DEF NextAction, radioVars, poisonVars
    <2>2. ~poisoned /\ plan # <<>> => Head(plan) \in Steps
      BY <1>0, Plans, Zenon DEF ServerInv, ActInv, Types, Activities, Fresh, Looked, Clamping, Steps
    <2>3. Types'
      BY <1>0, <2>1, <2>2 DEF Types, Places
    <2>4. PumpInv'
      BY <1>0, <2>1, <2>2, Zenon DEF PumpInv, Steps, None
    <2>5. QueueInv'
      BY <1>0, <2>1, Zenon DEF QueueInv, HasItem, Item
    <2> QED
      BY <2>3, <2>4, <2>5, Zenon
  <1>8. CASE Routed
    <2>1. /\ UNCHANGED <<act, outstanding, poisoned, snap, speed, rig, clamped, keying, ext, unsettled>>
          /\ \/ pump = "routeGo" /\ pump' = "wire" /\ queue' = Append(queue, outstanding)
             \/ pump = "routeDone" /\ pump' = "drive" /\ queue' = queue
             \/ pump = "routeEnd" /\ pump' = "commands" /\ queue' = queue
      BY <1>8, Zenon DEF Routed, supVars, poisonVars
    <2>2. Types' /\ PumpInv'
      BY <1>0, <2>1 DEF Types, Places, PumpInv
    <2>3. queue = <<>> \/ queue = <<"ptt">>
      BY <1>0, <2>1, Zenon DEF QueueInv, HasItem
    <2>4. QueueInv'
      BY <1>0, <2>1, <2>3, Queues, ZenonT(40) DEF QueueInv, HasItem, Item
    <2> QED
      BY <2>2, <2>4, Zenon
  <1>9. CASE Exchange
    <2>1. CASE HasItem' /\ rig = "sent" /\ rig' = "idle" /\ ext' = TRUE /\ queue' = <<Item>>
               /\ UNCHANGED <<act, outstanding, poisoned, snap, clamped, keying, pump, speed, unsettled>>
      BY <1>0, <2>1, Zenon DEF Types, PumpInv, QueueInv, HasItem, Item
    <2>2. CASE ~HasItem' /\ rig = "sent" /\ rig' = "idle" /\ ext' = TRUE /\ queue' = <<>>
               /\ UNCHANGED <<act, outstanding, poisoned, snap, clamped, keying, pump, speed, unsettled>>
      BY <1>0, <2>2, ZenonT(40) DEF Types, PumpInv, QueueInv
    <2>3. CASE /\ ~HasItem' /\ rig' = rig /\ ext' = ext /\ clamped' \in BOOLEAN /\ keying' \in BOOLEAN
               /\ IF rig = "sent" THEN queue' = <<"ptt">> ELSE queue' = <<>>
               /\ UNCHANGED <<act, outstanding, poisoned, snap, unsettled>>
               /\ \/ pump = "wire" /\ pump' = "complete" /\ speed' = speed
                  \/ pump = "poisonStop" /\ pump' = "drive" /\ speed' = speed
                  \/ pump = "speed" /\ pump' = "drive" /\ speed' = None
      <3>1. Types' /\ PumpInv'
        BY <1>0, <2>3, Zenon DEF Types, PumpInv, Places, None
      <3>2. QueueInv'
        BY <2>3, Zenon DEF QueueInv
      <3> QED
        BY <3>1, <3>2, Zenon
    <2> QED
      BY <1>0, <1>9, <2>1, <2>2, <2>3, Exchanged, ZenonT(40) DEF HasItem, supVars, poisonVars, Types
  <1>10. CASE Complete
    <2>1. /\ UNCHANGED <<poisoned, speed, queue, rig, clamped, keying, ext, unsettled>>
          /\ pump = "complete" /\ pump' = "routeDone0" /\ outstanding' = None /\ snap' \in BOOLEAN
      BY <1>10, Zenon DEF Complete, poisonVars, radioVars
    <2>2. act' \in Activities
      BY <1>0, <1>10, Zenon DEF Complete, RefuseArm, BeginStop, StartRestore, Types, Activities
    <2>3. Types'
      BY <1>0, <2>1, <2>2, Zenon DEF Types, Places
    <2>4. PumpInv' /\ QueueInv'
      BY <1>0, <2>1, Zenon DEF PumpInv, QueueInv, HasItem, Item
    <2> QED
      BY <2>3, <2>4, Zenon
  <1>11. CASE Commands
    <2>1. /\ UNCHANGED <<act, outstanding, poisoned, snap, rig, clamped, keying, ext, unsettled>>
          /\ pump = "commands"
          /\ \/ pump' = "drive" /\ queue' = queue /\ speed' = None
             \/ pump' = "speed" /\ queue' = Append(queue, "speed") /\ speed' = "write"
             \/ pump' = "sleep" /\ queue' = queue /\ speed' = speed
      BY <1>11, Zenon DEF Commands, supVars, poisonVars
    <2>2. Types' /\ PumpInv'
      BY <1>0, <2>1 DEF Types, Places, PumpInv, None
    <2>3. queue = <<>> \/ queue = <<"ptt">>
      BY <1>0, <2>1, Zenon DEF QueueInv, HasItem
    <2>4. QueueInv'
      BY <1>0, <2>1, <2>3, Queues, ZenonT(40) DEF QueueInv, HasItem, Item
    <2> QED
      BY <2>2, <2>4, Zenon
  <1>12. CASE Transmit \/ SubmitPtt \/ Receive
    <2>1. /\ UNCHANGED <<act, outstanding, poisoned, snap, speed, pump, clamped, keying, unsettled>>
          /\ \/ rig \in {"idle", "checked"} /\ rig' = "sent" /\ queue' = Append(queue, "ptt") /\ ext' = ext
             \/ rig \in {"idle", "checked"} /\ rig' \in {"idle", "checked"} /\ queue' = queue /\ ext' \in {ext, FALSE}
      BY <1>12, Zenon DEF Transmit, SubmitPtt, Receive, supVars, poisonVars, pumpVars
    <2>2. Types' /\ PumpInv'
      <3>1. rig' \in {"idle", "checked", "sent"} /\ ext' \in BOOLEAN
        BY <1>0, <2>1, Zenon DEF Types
      <3> QED
        BY <1>0, <2>1, <3>1, ZenonT(40) DEF Types, PumpInv
    <2>3. CASE HasItem
      <3>1. HasItem' /\ Item' = Item
        BY <2>1, <2>3, Zenon DEF HasItem, Item
      <3>2. queue = <<Item>>
        BY <1>0, <2>1, <2>3, Zenon DEF QueueInv
      <3>3. Append(queue, "ptt") = <<Item, "ptt">>
        BY <3>2, Queues, Zenon
      <3>4. QueueInv'
        BY <2>1, <3>1, <3>2, <3>3, Zenon DEF QueueInv
      <3> QED
        BY <2>2, <3>4, Zenon
    <2>4. CASE ~HasItem
      <3>1. ~HasItem'
        BY <2>1, <2>4, Zenon DEF HasItem
      <3>2. queue = <<>>
        BY <1>0, <2>1, <2>4, Zenon DEF QueueInv
      <3>3. Append(queue, "ptt") = <<"ptt">>
        BY <3>2, Queues, Zenon
      <3>4. QueueInv'
        BY <2>1, <3>1, <3>2, <3>3, Zenon DEF QueueInv
      <3> QED
        BY <2>2, <3>4, Zenon
    <2> QED
      BY <2>3, <2>4, Zenon
  <1> QED
    BY <1>2, <1>3, <1>4, <1>5, <1>6, <1>7, <1>8, <1>9, <1>10, <1>11, <1>12, Zenon DEF Next, ConsoleNext, PumpNext

-----------------------------------------------------------------------------
(* The supervisor's activities.                                            *)

\* A notice is routed to a console.
LEMMA OwnersAreConsoles ==
    ASSUME TicketInv
    PROVE  \A t \in waiters : tickets[t].owner \in Consoles
  <1>1. \A t \in waiters : tickets[t] \in Ticket
    BY ElementOfSeq, Zenon DEF TicketInv
  <1> QED
    BY <1>1, Zenon DEF Ticket

\* Only a console's request makes a ticket, and giving up changes who listens only.
LEMMA TicketStep ==
    ASSUME TicketInv, Next
    PROVE  TicketInv'
  <1>1. ASSUME NEW c \in Consoles, NEW isArm \in BOOLEAN, Ask(c, isArm) PROVE TicketInv'
    <2> DEFINE new == [owner |-> c, arm |-> isArm, open |-> TRUE]
    <2>1. new \in Ticket /\ tickets' = Append(tickets, new) /\ waiters' = waiters \cup {Len(tickets) + 1}
      BY <1>1, Zenon DEF Ask, Ticket
    <2>2. tickets' \in Seq(Ticket) /\ Len(tickets') = Len(tickets) + 1 /\ Len(tickets) \in Nat
      BY <2>1, AppendProperties, LenProperties, Zenon DEF TicketInv
    <2>3. ASSUME NEW t \in waiters' PROVE t \in 1..Len(tickets')
      BY <2>1, <2>2, <2>3 DEF TicketInv
    <2> QED
      BY <2>2, <2>3, Zenon DEF TicketInv
  <1>2. ASSUME NEW c \in Consoles, TakeAnswer(c) \/ DropReceiver(c) PROVE TicketInv'
    <2> DEFINE x == TicketOf(c)
    <2>1. tickets' = [tickets EXCEPT ![x] = [tickets[x] EXCEPT !.open = FALSE]] /\ waiters' = waiters
      BY <1>2, Zenon DEF TakeAnswer, DropReceiver
    <2>2. tickets \in [1..Len(tickets) -> Ticket] /\ Len(tickets) \in Nat
      BY LenProperties, SeqDef, Zenon DEF TicketInv
    <2>3. \A i \in 1..Len(tickets) : [tickets[i] EXCEPT !.open = FALSE] \in Ticket
      BY <2>2, Zenon DEF Ticket
    <2> HIDE DEF x
    <2>4. tickets' \in [1..Len(tickets) -> Ticket]
      BY <2>1, <2>2, <2>3, Zenon
    <2>5. tickets' \in Seq(Ticket) /\ Len(tickets') = Len(tickets)
      BY <2>2, <2>4
    <2> QED
      BY <2>1, <2>5, Zenon DEF TicketInv
  <1>3. ASSUME UNCHANGED tickets, waiters' \subseteq waiters PROVE TicketInv'
    BY <1>3, Zenon DEF TicketInv
  <1>4. ASSUME NEW c \in Consoles, Expire(c) \/ SendText(c) \/ AbortCw(c) \/ SetSpeed(c) \/ Detach(c) \/ Panic(c)
        PROVE  TicketInv'
    BY <1>3, <1>4, Zenon DEF Expire, SendText, AbortCw, SetSpeed, Detach, Panic, conVars
  <1>5. CASE PumpNext
    BY <1>3, <1>5, Zenon DEF PumpNext, Top, ClearAbort, StopAfterPoison, NextAction, Route, Routed, Complete, TakeNotices,
       Commands, Wake, conVars
  <1>6. CASE Exchange \/ Transmit \/ SubmitPtt \/ Receive \/ Settle \/ Return
    BY <1>3, <1>6, Zenon DEF Exchange, Transmit, SubmitPtt, Receive, Settle, Return, conVars
  <1> QED
    BY <1>1, <1>2, <1>4, <1>5, <1>6, Zenon DEF Next, ConsoleNext

\* What the broker and the pump do aside from the supervisor leaves its activity alone.
LEMMA ActStill ==
    ASSUME ActInv, UNCHANGED <<arm, act, owner, plan, outstanding, snap, keying>>, pump' = pump \/ pump' # "complete"
    PROVE  ActInv'
  BY Zenon DEF ActInv, Fresh, Looked, Clamping

\* EndArm begins a stop, marks one or begins the restore.
LEMMA EndArmStep ==
    ASSUME ActInv, arm # NoOne, NEW t, EndArm(t), UNCHANGED <<outstanding, snap, keying, pump>>
    PROVE  ActInv'
  <1>1. CASE act = "Sending"
    <2>1. act' = "Stopping" /\ plan' = <<"stop">> /\ arm' = arm
      BY <1>1, Zenon DEF EndArm, BeginStop
    <2> QED
      BY <1>1, <2>1, Zenon DEF ActInv
  <1>2. CASE act = "Stopping"
    <2>1. UNCHANGED <<arm, act, plan>>
      BY <1>2, Zenon DEF EndArm
    <2> QED
      BY <1>2, <2>1, Zenon DEF ActInv
  <1>3. CASE act = "Idle"
    <2>1. act' = "Restoring" /\ plan' = <<"restore">> /\ arm' = NoOne
      BY <1>3, Zenon DEF EndArm, StartRestore
    <2> QED
      BY <1>3, <2>1, Zenon DEF ActInv, None
  <1> QED
    BY <1>1, <1>2, <1>3, Zenon DEF EndArm

\* A refused arm is restored if its clamp was issued, and forgotten otherwise.
LEMMA RefuseArmStep ==
    ASSUME ActInv, act = "Arming", RefuseArm, snap \in BOOLEAN, outstanding' \in {outstanding, None},
           UNCHANGED <<snap, keying>>
    PROVE  ActInv'
  <1>0. arm = NoOne /\ ~keying /\ (Fresh \/ Looked \/ Clamping)
    BY Zenon DEF ActInv
  <1>1. CASE snap
    <2>1. act' = "Restoring" /\ plan' = <<"restore">> /\ arm' = NoOne
      BY <1>1, Zenon DEF RefuseArm, StartRestore
    <2>2. outstanding' \in {None, "status", "clamp"}
      BY <1>0, Zenon DEF Fresh, Looked, Clamping
    <2> QED
      BY <1>0, <1>1, <2>1, <2>2, Zenon DEF ActInv
  <1>2. CASE ~snap
    <2>1. act' = "Idle" /\ plan' = <<>> /\ arm' = arm
      BY <1>2, Zenon DEF RefuseArm
    <2>2. outstanding' \in {None, "status"}
      BY <1>0, <1>2, Zenon DEF Fresh, Looked, Clamping
    <2> QED
      BY <1>0, <1>2, <2>1, <2>2, Zenon DEF ActInv
  <1> QED
    BY <1>1, <1>2, Zenon

\* What a console asks for.
LEMMA ActConsole ==
    ASSUME NoOne \notin Consoles, Types, ActInv, ~poisoned, NEW c \in Consoles,
           \/ \E isArm \in BOOLEAN : Ask(c, isArm)
           \/ TakeAnswer(c) \/ Expire(c) \/ DropReceiver(c)
           \/ SendText(c) \/ AbortCw(c) \/ SetSpeed(c) \/ Detach(c) \/ Panic(c)
    PROVE  ActInv'
  <1>1. ASSUME NEW isArm \in BOOLEAN, Ask(c, isArm) PROVE ActInv'
    <2>0. UNCHANGED <<pump, keying, outstanding>>
      BY <1>1, Zenon DEF Ask, SupDisarm, pumpVars, radioVars
    <2>1. CASE isArm
      <3>1. /\ act = "Idle" /\ arm = NoOne /\ act' = "Arming" /\ plan' = <<"status", "clamp">>
            /\ snap' = FALSE /\ arm' = arm /\ owner' = c
        BY <1>1, <2>1, Zenon DEF Ask
      <3> QED
        BY <2>0, <3>1, Zenon DEF ActInv, Fresh
    <2>2. CASE ~isArm
      <3>1. EndArm(Len(tickets) + 1) /\ snap' = snap /\ arm # NoOne
        BY <1>1, <2>2, Zenon DEF Ask, SupDisarm
      <3> QED
        BY <2>0, <3>1, EndArmStep, Zenon
    <2> QED
      BY <2>1, <2>2, Zenon
  <1>2. CASE TakeAnswer(c) \/ Expire(c) \/ DropReceiver(c) \/ SetSpeed(c) \/ Panic(c)
    <2>1. UNCHANGED <<arm, act, owner, plan, outstanding, snap, keying, pump>>
      BY <1>2, Zenon DEF TakeAnswer, Expire, DropReceiver, SetSpeed, Panic, supVars, pumpVars, radioVars
    <2> QED
      BY <2>1, ActStill, Zenon
  <1>3. CASE SendText(c)
    <2>1. /\ act = "Idle" /\ arm = c /\ act' = "Sending" /\ plan' = <<"status", "chunk", "drain">>
          /\ UNCHANGED <<arm, outstanding, snap, keying, pump>>
      BY <1>3, Zenon DEF SendText, pumpVars, radioVars
    <2>2. outstanding = None /\ arm # NoOne
      BY <2>1, Zenon DEF ActInv
    <2> QED
      BY <2>1, <2>2, Zenon DEF ActInv, None
  <1>4. CASE AbortCw(c)
    <2>1. UNCHANGED <<outstanding, snap, keying, pump>>
      BY <1>4, Zenon DEF AbortCw, supVars, pumpVars, radioVars
    <2>2. CASE act = "Sending"
      <3>1. act' = "Stopping" /\ plan' = <<"stop">> /\ arm' = arm
        BY <1>4, <2>2, Zenon DEF AbortCw, BeginStop
      <3> QED
        BY <2>1, <2>2, <3>1, Zenon DEF ActInv
    <2>3. CASE act # "Sending"
      <3>1. UNCHANGED <<arm, act, owner, plan>>
        BY <1>4, <2>3, Zenon DEF AbortCw, supVars
      <3> QED
        BY <2>1, <3>1, ActStill, Zenon
    <2> QED
      BY <2>2, <2>3, Zenon
  <1>5. CASE Detach(c)
    <2>1. UNCHANGED <<outstanding, snap, keying, pump>>
      BY <1>5, Zenon DEF Detach, SupDisarm, supVars, pumpVars, radioVars
    <2>2. \/ act = "Arming" /\ RefuseArm
          \/ EndArm(0) /\ arm # NoOne
          \/ UNCHANGED <<arm, act, owner, plan>>
      BY <1>5, Zenon DEF Detach, SupDisarm, supVars
    <2> QED
      BY <2>1, <2>2, ActStill, EndArmStep, RefuseArmStep, Zenon DEF Types
  <1> QED
    BY <1>1, <1>2, <1>3, <1>4, <1>5, Zenon

\* What the supervisor makes of an answer.
LEMMA ActComplete ==
    ASSUME Types, PumpInv, ActInv, ~poisoned, clamped => snap, Complete
    PROVE  ActInv'
  <1>0. /\ outstanding' = None /\ pump = "complete" /\ pump' = "routeDone0" /\ keying' = keying
        /\ snap' = (snap /\ ~(act = "Restoring" /\ outstanding = "restore" /\ ~clamped))
        /\ outstanding # None
    BY Zenon DEF Complete, radioVars, PumpInv
  <1>1. CASE act = "Idle"
    <2>1. UNCHANGED <<arm, act, plan>>
      BY <1>1, Zenon DEF Complete
    <2> QED
      BY <1>0, <1>1, <2>1, Zenon DEF ActInv, Types
  <1>2. CASE act = "Arming"
    <2>1. snap' = snap
      BY <1>0, <1>2, Zenon DEF Types
    <2>2. \/ RefuseArm
          \/ outstanding = "status" /\ UNCHANGED <<arm, act, owner, plan>>
          \/ outstanding = "clamp" /\ act' = "Idle" /\ plan' = plan /\ arm' = owner
      BY <1>2, Zenon DEF Complete
    <2>3. CASE RefuseArm
      BY <1>0, <1>2, <2>1, <2>3, RefuseArmStep, Zenon DEF Types
    <2>4. CASE outstanding = "status" /\ UNCHANGED <<arm, act, owner, plan>>
      BY <1>0, <1>2, <2>1, <2>4, Zenon DEF ActInv, Fresh, Looked, Clamping
    <2>5. CASE outstanding = "clamp" /\ act' = "Idle" /\ plan' = plan /\ arm' = owner
      <3>1. Clamping /\ ~keying /\ owner # NoOne
        BY <1>2, <2>5, Zenon DEF ActInv, Fresh, Looked, None
      <3> QED
        BY <1>0, <2>5, <3>1, Zenon DEF ActInv, Clamping
    <2> QED
      BY <2>2, <2>3, <2>4, <2>5, Zenon
  <1>3. CASE act = "Sending"
    <2>1. snap' = snap /\ arm # NoOne
      BY <1>0, <1>3, Zenon DEF Types, ActInv
    <2>2. /\ arm' = arm
          /\ \/ act' = act /\ plan' = plan
             \/ act' = "Stopping" /\ plan' = <<"stop">>
             \/ act' = "Idle" /\ plan' = plan /\ outstanding = "drain"
      BY <1>3, Zenon DEF Complete, BeginStop
    <2>3. CASE act' = "Idle"
      BY <1>0, <1>3, <2>1, <2>2, <2>3, Zenon DEF ActInv
    <2>4. CASE act' = "Stopping"
      BY <1>0, <1>3, <2>1, <2>2, <2>4, Zenon DEF ActInv
    <2>5. CASE act' = act
      BY <1>0, <1>3, <2>1, <2>2, <2>5, Zenon DEF ActInv, None
    <2> QED
      BY <2>2, <2>3, <2>4, <2>5, Zenon
  <1>4. CASE act = "Stopping"
    <2>1. CASE outstanding = "stop"
      <3>1. \/ arm' = arm /\ act' = act /\ plan' = <<"stop">>
            \/ arm' = NoOne /\ act' = "Restoring" /\ plan' = <<"restore">> /\ ~keying
            \/ arm' = arm /\ act' = "Idle" /\ plan' = plan /\ ~keying
        BY <1>4, <2>1, Zenon DEF Complete, StartRestore
      <3>2. arm # NoOne /\ plan = <<>>
        BY <1>4, <2>1, Zenon DEF ActInv, None
      <3> QED
        BY <1>0, <1>4, <3>1, <3>2, Zenon DEF ActInv
    <2>2. CASE outstanding # "stop"
      <3>1. UNCHANGED <<arm, act, plan>>
        BY <1>4, <2>2, Zenon DEF Complete
      <3> QED
        BY <1>0, <1>4, <2>2, <3>1, Zenon DEF ActInv
    <2> QED
      BY <2>1, <2>2, Zenon
  <1>5. CASE act = "Restoring"
    <2>0. arm = NoOne /\ ~keying
      BY <1>5, Zenon DEF ActInv
    <2>1. CASE outstanding = "restore"
      <3>1. \/ arm' = arm /\ act' = act /\ plan' = <<"restore">> /\ clamped
            \/ arm' = arm /\ act' = "Idle" /\ plan' = plan /\ ~clamped
        BY <1>5, <2>1, Zenon DEF Complete
      <3>2. plan = <<>>
        BY <1>5, <2>1, Zenon DEF ActInv, None
      <3> QED
        BY <1>0, <1>5, <2>0, <2>1, <3>1, <3>2, Zenon DEF ActInv
    <2>2. CASE outstanding # "restore"
      <3>1. UNCHANGED <<arm, act, plan>>
        BY <1>5, <2>2, Zenon DEF Complete
      <3> QED
        BY <1>0, <1>5, <2>0, <2>2, <3>1, Zenon DEF ActInv
    <2> QED
      BY <2>1, <2>2, Zenon
  <1> QED
    BY <1>1, <1>2, <1>3, <1>4, <1>5, Zenon DEF Types, Activities

\* The next step leaves the plan.
LEMMA ActNext ==
    ASSUME Types, PumpInv, ActInv, ~poisoned, NextAction
    PROVE  ActInv'
  <1>0. outstanding = None /\ UNCHANGED <<arm, act, owner, keying>> /\ pump' # "complete"
    BY Zenon DEF NextAction, radioVars, PumpInv
  <1>1. CASE plan = <<>>
    <2>1. UNCHANGED <<plan, outstanding, snap>>
      BY <1>1, Zenon DEF NextAction
    <2> QED
      BY <1>0, <2>1, ActStill, Zenon
  <1>2. CASE plan # <<>>
    <2>1. outstanding' = Head(plan) /\ plan' = Tail(plan) /\ snap' = (snap \/ Head(plan) = "clamp")
      BY <1>2, Zenon DEF NextAction
    <2>2. snap => snap'
      BY <2>1, Zenon
    <2>3. CASE act = "Arming"
      <3>1. Fresh \/ Looked
        BY <1>0, <2>3, Zenon DEF ActInv, Clamping, None
      <3>2. CASE Fresh
        <4>1. plan' = <<"clamp">> /\ outstanding' = "status" /\ snap' = snap
          BY <2>1, <3>2, Plans, Zenon DEF Fresh, Types
        <4> QED
          BY <1>0, <2>3, <3>2, <4>1, Zenon DEF ActInv, Looked, Fresh
      <3>3. CASE Looked
        <4>1. plan' = <<>> /\ outstanding' = "clamp" /\ snap'
          BY <2>1, <3>3, Plans, Zenon DEF Looked
        <4> QED
          BY <1>0, <2>3, <4>1, Zenon DEF ActInv, Clamping
      <3> QED
        BY <3>1, <3>2, <3>3, Zenon
    <2>4. CASE act = "Sending"
      <3>1. /\ outstanding' \in {"status", "chunk", "drain"}
            /\ plan' \in {<<"chunk", "drain">>, <<"drain">>, <<>>}
            /\ outstanding' = "drain" => plan' = <<>>
        BY <1>2, <2>1, <2>4, Plans, Zenon DEF ActInv
      <3> QED
        BY <1>0, <2>4, <2>2, <3>1, Zenon DEF ActInv
    <2>5. CASE act = "Stopping"
      <3>1. outstanding' = "stop" /\ plan' = <<>>
        BY <1>2, <2>1, <2>5, Plans, Zenon DEF ActInv
      <3> QED
        BY <1>0, <2>5, <2>2, <3>1, Zenon DEF ActInv
    <2>6. CASE act = "Restoring"
      <3>1. outstanding' = "restore" /\ plan' = <<>>
        BY <1>2, <2>1, <2>6, Plans, Zenon DEF ActInv
      <3> QED
        BY <1>0, <2>6, <2>2, <3>1, Zenon DEF ActInv
    <2>7. act # "Idle"
      BY <1>2, Zenon DEF ActInv
    <2> QED
      BY <2>3, <2>4, <2>5, <2>6, <2>7, Zenon DEF Types, Activities
  <1> QED
    BY <1>1, <1>2, Zenon

\* Each activity goes on as planned while the lock is not poisoned.
LEMMA ActStep ==
    ASSUME NoOne \notin Consoles, ServerInv, Next, ~poisoned
    PROVE  ActInv'
  <1>0. Types /\ PumpInv /\ QueueInv /\ TicketInv /\ ActInv /\ (clamped => snap)
    BY Zenon DEF ServerInv, RestInv
  <1>1. CASE ConsoleNext
    BY <1>0, <1>1, ActConsole, Zenon DEF ConsoleNext
  <1>2. CASE NextAction
    BY <1>0, <1>2, ActNext, Zenon
  <1>3. CASE Complete
    BY <1>0, <1>3, ActComplete, Zenon
  <1>4. CASE Route \/ Settle
    <2>1. UNCHANGED <<outstanding, snap, keying, pump>>
      BY <1>4, Zenon DEF Route, Settle, SupDisarm, supVars, pumpVars, radioVars
    <2>2. \/ act = "Arming" /\ RefuseArm
          \/ EndArm(0) /\ arm # NoOne
          \/ UNCHANGED <<arm, act, owner, plan>>
      BY <1>0, <1>4, OwnersAreConsoles, Zenon DEF Route, Settle, SupDisarm, supVars
    <2> QED
      BY <1>0, <2>1, <2>2, ActStill, EndArmStep, RefuseArmStep, Zenon DEF Types
  <1>5. CASE \/ Top \/ ClearAbort \/ StopAfterPoison \/ Routed \/ TakeNotices \/ Commands \/ Wake
             \/ Transmit \/ SubmitPtt \/ Receive \/ Return
    <2>1. UNCHANGED <<arm, act, owner, plan, outstanding, snap, keying>>
      BY <1>5, Zenon DEF Top, ClearAbort, StopAfterPoison, Routed, TakeNotices, Commands, Wake, Transmit, SubmitPtt,
         Receive, Return, supVars, radioVars
    <2>2. pump' = pump \/ pump' # "complete"
      BY <1>5, Zenon DEF Top, ClearAbort, StopAfterPoison, Routed, TakeNotices, Commands, Wake, Transmit, SubmitPtt,
         Receive, Return, pumpVars
    <2> QED
      BY <1>0, <2>1, <2>2, ActStill, Zenon
  <1>6. CASE Exchange
    <2>1. UNCHANGED <<arm, act, owner, plan, outstanding, snap>>
      BY <1>6, Zenon DEF Exchange, supVars
    <2>2. \/ keying' = keying /\ pump' # "complete"
          \/ keying' = keying /\ pump' = pump
          \/ /\ pump = "wire" /\ pump' = "complete"
             /\ keying' \in CASE outstanding = "chunk" -> {TRUE, keying}
                              [] outstanding = "drain" -> {FALSE}
                              [] outstanding = "stop" -> {FALSE, keying}
                              [] OTHER -> {keying}
      BY <1>0, <1>6, Exchanged, Zenon DEF PumpInv
    <2>3. CASE keying' = keying /\ (pump' # "complete" \/ pump' = pump)
      BY <1>0, <2>1, <2>3, ActStill, Zenon
    <2>4. CASE keying' \in CASE outstanding = "chunk" -> {TRUE, keying}
                             [] outstanding = "drain" -> {FALSE}
                             [] outstanding = "stop" -> {FALSE, keying}
                             [] OTHER -> {keying}
      <3>1. ~keying /\ outstanding # "chunk" => ~keying'
        BY <1>0, <2>4, Zenon DEF Types, Steps
      <3>2. outstanding = "drain" => ~keying'
        BY <2>4, Zenon
      <3> QED
        BY <1>0, <2>1, <3>1, <3>2, Zenon DEF ActInv, Fresh, Looked, Clamping, None
    <2> QED
      BY <2>2, <2>3, <2>4, Zenon
  <1> QED
    BY <1>1, <1>2, <1>3, <1>4, <1>5, <1>6, Zenon DEF Next, PumpNext

-----------------------------------------------------------------------------
(* The speed, the end of the server and the gate.                          *)

\* The speed is on its way to the radio only while no arm has read it.
LEMMA SpeedStep ==
    ASSUME NoOne \notin Consoles, ServerInv, Next
    PROVE  SpeedInv'
  <1> SUFFICES ASSUME pump' = "speed"
               PROVE  arm' = NoOne /\ (act' = "Idle" \/ (act' = "Arming" /\ plan' = <<"status", "clamp">> /\ ~snap'))
    BY Zenon DEF SpeedInv
  <1> DEFINE Goal == arm' = NoOne /\ (act' = "Idle" \/ (act' = "Arming" /\ plan' = <<"status", "clamp">> /\ ~snap'))
  <1>1. CASE pump # "speed"
    <2>1. Commands
      BY <1>1, Exchanged, ZenonT(40) DEF ServerInv, Next, ConsoleNext, PumpNext, Ask, TakeAnswer, Expire, DropReceiver, SendText,
         AbortCw, SetSpeed, Detach, Panic, Top, ClearAbort, StopAfterPoison, NextAction, Route, Routed, Complete,
         TakeNotices, Wake, Transmit, SubmitPtt, Receive, Settle, Return, pumpVars
    <2>2. ~BlocksExternalPtt /\ UNCHANGED <<arm, act>>
      BY <1>1, <2>1, Zenon DEF Commands, supVars
    <2> QED
      BY <2>2, Zenon DEF BlocksExternalPtt
  <1>2. CASE pump = "speed"
    <2>0. arm = NoOne /\ (act = "Idle" \/ (act = "Arming" /\ plan = <<"status", "clamp">> /\ ~snap))
      BY <1>2, Zenon DEF ServerInv, SpeedInv
    <2>1. ASSUME NEW c \in Consoles, NEW isArm \in BOOLEAN, Ask(c, isArm) PROVE Goal
      BY <2>0, <2>1, Zenon DEF Ask, SupDisarm
    <2>2. ASSUME UNCHANGED <<arm, act, plan, snap>> PROVE Goal
      BY <2>0, <2>2, Zenon
    <2>3. ASSUME NEW c \in Consoles, TakeAnswer(c) \/ Expire(c) \/ DropReceiver(c) \/ SetSpeed(c) \/ Panic(c)
          PROVE  Goal
      BY <2>2, <2>3, Zenon DEF TakeAnswer, Expire, DropReceiver, SetSpeed, Panic, supVars
    <2>4. ASSUME NEW c \in Consoles, SendText(c) \/ AbortCw(c) PROVE Goal
      BY <2>0, <2>2, <2>4, Zenon DEF SendText, AbortCw, supVars
    <2>5. ASSUME NEW c \in Consoles, Detach(c) PROVE Goal
      BY <2>0, <2>2, <2>5, Zenon DEF Detach, RefuseArm, SupDisarm, supVars
    <2>6. CASE Settle
      BY <2>0, <2>2, <2>6, Zenon DEF Settle, RefuseArm, supVars
    <2>7. CASE Exchange \/ Transmit \/ SubmitPtt \/ Receive \/ Return
      BY <2>2, <2>7, Zenon DEF Exchange, Transmit, SubmitPtt, Receive, Return, supVars
    <2>8. ~PumpNext
      BY <1>2, Zenon DEF PumpNext, Top, ClearAbort, StopAfterPoison, NextAction, Route, Routed, Complete, TakeNotices,
         Commands, Wake
    <2> QED
      BY <2>1, <2>3, <2>4, <2>5, <2>6, <2>7, <2>8, Zenon DEF Next, ConsoleNext
  <1> QED
    BY <1>1, <1>2, Zenon

\* A settled supervisor has restored the radio.
LEMMA SettledIsRestored ==
    ASSUME ServerInv, IsSettled
    PROVE  ~clamped /\ ~keying /\ pump \notin {"wire", "poisonStop"}
  BY Zenon DEF ServerInv, ActInv, RestInv, PumpInv, IsSettled

\* The clamp is remembered until it is undone, and a server that has returned does
\* nothing more to the radio.
LEMMA RestStep ==
    ASSUME ServerInv, Next
    PROVE  RestInv'
  <1>0. Types /\ PumpInv /\ QueueInv /\ RestInv
    BY Zenon DEF ServerInv
  <1>1. clamped' \/ outstanding' \in {"clamp", "restore"} => snap'
    <2>1. ASSUME NEW c \in Consoles, NEW isArm \in BOOLEAN, Ask(c, isArm)
          PROVE  clamped' \/ outstanding' \in {"clamp", "restore"} => snap'
      <3>1. UNCHANGED <<clamped, outstanding>> /\ ~poisoned
        BY <2>1, Zenon DEF Ask, SupDisarm, radioVars
      <3>2. snap' = snap \/ (act = "Idle" /\ arm = NoOne)
        BY <2>1, Zenon DEF Ask, SupDisarm
      <3>3. act = "Idle" /\ arm = NoOne => ~snap
        BY <3>1, Zenon DEF ServerInv, ActInv
      <3> QED
        BY <1>0, <3>1, <3>2, <3>3, Zenon DEF RestInv
    <2>2. ASSUME UNCHANGED <<clamped, outstanding, snap>>
          PROVE  clamped' \/ outstanding' \in {"clamp", "restore"} => snap'
      BY <1>0, <2>2, Zenon DEF RestInv
    <2>3. ASSUME NEW c \in Consoles,
                 TakeAnswer(c) \/ Expire(c) \/ DropReceiver(c) \/ SendText(c) \/ AbortCw(c) \/ SetSpeed(c)
                 \/ Detach(c) \/ Panic(c)
          PROVE  clamped' \/ outstanding' \in {"clamp", "restore"} => snap'
      BY <2>2, <2>3, Zenon DEF TakeAnswer, Expire, DropReceiver, SendText, AbortCw, SetSpeed, Detach, Panic, SupDisarm,
         supVars, radioVars
    <2>4. CASE \/ Top \/ ClearAbort \/ StopAfterPoison \/ Route \/ Routed \/ TakeNotices \/ Commands \/ Wake
               \/ Transmit \/ SubmitPtt \/ Receive \/ Settle \/ Return
      BY <2>2, <2>4, Zenon DEF Top, ClearAbort, StopAfterPoison, Route, Routed, TakeNotices, Commands, Wake, Transmit,
         SubmitPtt, Receive, Settle, Return, SupDisarm, supVars, radioVars
    <2>5. CASE NextAction
      <3>1. clamped' = clamped
        BY <2>5, Zenon DEF NextAction, radioVars
      <3>2. CASE poisoned \/ plan = <<>>
        BY <2>2, <2>5, <3>1, <3>2, Zenon DEF NextAction
      <3>3. CASE ~(poisoned \/ plan = <<>>)
        <4>1. outstanding' = Head(plan) /\ snap' = (snap \/ Head(plan) = "clamp")
          BY <2>5, <3>3, Zenon DEF NextAction
        <4>2. Head(plan) = "restore" => snap
          BY <1>0, <3>3, Plans, Zenon DEF ServerInv, ActInv, Types, Activities, Fresh, Looked, Clamping
        <4> QED
          BY <1>0, <3>1, <4>1, <4>2, Zenon DEF RestInv
      <3> QED
        BY <3>2, <3>3, Zenon
    <2>6. CASE Complete
      <3>1. clamped' = clamped /\ outstanding' = None /\ (snap /\ clamped => snap')
        BY <2>6, Zenon DEF Complete, radioVars
      <3> QED
        BY <1>0, <3>1, Zenon DEF RestInv, None
    <2>7. CASE Exchange
      <3>1. UNCHANGED <<outstanding, snap>>
        BY <2>7, Zenon DEF Exchange, supVars
      <3>2. clamped' = clamped \/ outstanding \in {"clamp", "restore"}
        BY <1>0, <2>7, Exchanged, Zenon
      <3> QED
        BY <1>0, <3>1, <3>2, Zenon DEF RestInv
    <2> QED
      BY <2>1, <2>3, <2>4, <2>5, <2>6, <2>7, Zenon DEF Next, ConsoleNext, PumpNext
  <1>2. ASSUME backend' = "linux", server' = "returned", ~unsettled'
        PROVE  ~clamped' /\ ~keying' /\ pump' \notin {"wire", "poisonStop"}
    <2>1. CASE Settle \/ Return
      <3>1. UNCHANGED <<clamped, keying, pump, backend>>
        BY <2>1, Zenon DEF Settle, Return, pumpVars, radioVars
      <3>2. IsSettled
        BY <1>2, <2>1, Zenon DEF Settle, Return
      <3> QED
        BY <3>1, <3>2, SettledIsRestored, Zenon
    <2>2. CASE ~(Settle \/ Return)
      <3>1. UNCHANGED <<backend, server, unsettled>>
        BY <2>2, ZenonT(40) DEF Next, ConsoleNext, PumpNext, Ask, TakeAnswer, Expire, DropReceiver, SendText,
           AbortCw, SetSpeed, Detach, Panic, Top, ClearAbort, StopAfterPoison, NextAction, Route, Routed, Complete,
           TakeNotices, Commands, Wake, Transmit, SubmitPtt, Receive, Exchange
      <3>2. ~clamped /\ ~keying /\ pump \notin {"wire", "poisonStop"} /\ ~PumpRuns
        BY <1>0, <1>2, <3>1, Zenon DEF RestInv, PumpRuns
      <3>3. ~PumpNext
        BY <3>2, Zenon DEF PumpNext, Top, ClearAbort, StopAfterPoison, NextAction, Route, Routed, Complete, TakeNotices,
           Commands, Wake
      <3>4. CASE Exchange
        <4>1. UNCHANGED <<clamped, keying>> /\ (pump' = pump \/ pump' = "drive")
          BY <1>0, <3>2, <3>4, Exchanged, Zenon
        <4> QED
          BY <3>2, <4>1, Zenon
      <3>5. CASE ConsoleNext \/ Transmit \/ SubmitPtt \/ Receive
        <4>1. UNCHANGED <<clamped, keying, pump>>
          BY <3>5, ZenonT(40) DEF ConsoleNext, Ask, TakeAnswer, Expire, DropReceiver, SendText, AbortCw, SetSpeed, Detach,
             Panic, Transmit, SubmitPtt, Receive, pumpVars, radioVars
        <4> QED
          BY <3>2, <4>1, Zenon
      <3> QED
        BY <2>2, <3>3, <3>4, <3>5, Zenon DEF Next
    <2> QED
      BY <2>1, <2>2, Zenon
  <1> QED
    BY <1>1, <1>2, Zenon DEF RestInv

\* An external PTT is let through on a free supervisor only, and the arm's status comes
\* behind it.
LEMMA GateStep ==
    ASSUME ServerInv, Next, backend = "linux"
    PROVE  GateInv'
  <1>0. Types /\ PumpInv /\ QueueInv /\ GateInv /\ (~poisoned => ActInv)
    BY Zenon DEF ServerInv
  <1> DEFINE Watched == <<arm, act, plan, outstanding, snap, pump, queue>>
  <1>1. ASSUME UNCHANGED Watched, poisoned' = poisoned, rig' = rig, ext' = ext \/ ~ext'
        PROVE  GateInv'
    BY <1>0, <1>1 DEF GateInv, Quiet, Looked
  <1>2. ASSUME act' # "Arming", UNCHANGED <<rig, ext>>, arm' = arm \/ arm' = NoOne
        PROVE  GateInv'
    BY <1>0, <1>2, Zenon DEF GateInv, Quiet
  <1>3. ASSUME NEW c \in Consoles, NEW isArm \in BOOLEAN, Ask(c, isArm) PROVE GateInv'
    <2>0. UNCHANGED <<rig, ext>>
      BY <1>3, Zenon DEF Ask, radioVars
    <2>1. CASE isArm
      <3>1. plan' = <<"status", "clamp">> /\ arm' = NoOne
        BY <1>3, <2>1, Zenon DEF Ask
      <3>2. ~Looked' /\ plan' # <<>>
        BY <3>1, Plans, Zenon DEF Looked
      <3> QED
        BY <1>0, <2>0, <3>1, <3>2, Zenon DEF GateInv
    <2>2. CASE ~isArm
      <3>1. act' # "Arming" /\ (arm' = arm \/ arm' = NoOne)
        BY <1>3, <2>2, Zenon DEF Ask, SupDisarm, EndArm, BeginStop, StartRestore
      <3> QED
        BY <1>2, <2>0, <3>1, Zenon
    <2> QED
      BY <2>1, <2>2, Zenon
  <1>4. ASSUME NEW c \in Consoles, TakeAnswer(c) \/ Expire(c) \/ DropReceiver(c) \/ SetSpeed(c) PROVE GateInv'
    BY <1>0, <1>1, <1>4, Zenon DEF TakeAnswer, Expire, DropReceiver, SetSpeed, supVars, poisonVars, pumpVars, radioVars, Types
  <1>5. ASSUME NEW c \in Consoles, Panic(c) PROVE GateInv'
    <2>1. poisoned' /\ UNCHANGED <<arm, rig, ext>>
      BY <1>5, Zenon DEF Panic, supVars, radioVars
    <2> QED
      BY <1>0, <2>1, Zenon DEF GateInv, Quiet
  <1>6. ASSUME NEW c \in Consoles, SendText(c) \/ AbortCw(c) \/ Detach(c) PROVE GateInv'
    <2>1. UNCHANGED <<outstanding, snap, pump, queue, rig, ext, poisoned>>
      BY <1>6, Zenon DEF SendText, AbortCw, Detach, SupDisarm, supVars, poisonVars, pumpVars, radioVars
    <2>2. \/ UNCHANGED <<arm, act, plan>>
          \/ act' # "Arming" /\ (arm' = arm \/ arm' = NoOne)
      BY <1>6, Zenon DEF SendText, AbortCw, Detach, SupDisarm, RefuseArm, EndArm, BeginStop, StartRestore, supVars
    <2> QED
      BY <1>0, <1>1, <1>2, <2>1, <2>2, Zenon DEF Types
  <1>7. CASE Route \/ Settle
    <2>1. UNCHANGED <<outstanding, snap, pump, queue, rig, ext, poisoned>>
      BY <1>7, Zenon DEF Route, Settle, SupDisarm, supVars, poisonVars, pumpVars, radioVars
    <2>2. \/ UNCHANGED <<arm, act, plan>>
          \/ act' # "Arming" /\ (arm' = arm \/ arm' = NoOne)
      BY <1>7, Zenon DEF Route, Settle, SupDisarm, RefuseArm, EndArm, BeginStop, StartRestore, supVars
    <2> QED
      BY <1>0, <1>1, <1>2, <2>1, <2>2, Zenon DEF Types
  <1>8. ASSUME UNCHANGED <<arm, act, plan, outstanding, snap, poisoned, rig, ext>>, pump' \notin {"wire", "complete"}
        PROVE  GateInv'
    BY <1>0, <1>8, Zenon DEF GateInv, Quiet, Looked
  <1>9. CASE Top \/ ClearAbort \/ StopAfterPoison \/ TakeNotices \/ Commands \/ Wake
    <2>1. UNCHANGED <<arm, act, plan, outstanding, snap, poisoned, rig, ext>> /\ pump' \notin {"wire", "complete"}
      BY <1>9, Zenon DEF Top, ClearAbort, StopAfterPoison, TakeNotices, Commands, Wake, supVars, poisonVars, radioVars
    <2> QED
      BY <1>8, <2>1, Zenon
  <1>10. CASE NextAction
    <2>1. UNCHANGED <<arm, act, poisoned, rig, ext>> /\ pump' \notin {"wire", "complete"}
      BY <1>10, Zenon DEF NextAction, poisonVars, radioVars
    <2>2. CASE poisoned \/ plan = <<>>
      <3>1. UNCHANGED <<plan, outstanding, snap>>
        BY <1>10, <2>2, Zenon DEF NextAction
      <3> QED
        BY <1>8, <2>1, <3>1, Zenon
    <2>3. CASE ~poisoned /\ plan # <<>> /\ act = "Arming"
      <3>1. outstanding = None /\ outstanding' = Head(plan) /\ plan' = Tail(plan)
        BY <1>0, <1>10, <2>3, Zenon DEF NextAction, PumpInv
      <3>2. Fresh \/ Looked
        BY <1>0, <2>3, Zenon DEF ActInv, Clamping
      <3>3. CASE Fresh
        <4>1. plan' = <<"clamp">> /\ outstanding' = "status"
          BY <3>1, <3>3, Plans, Zenon DEF Fresh
        <4> QED
          BY <1>0, <2>1, <4>1, Plans, Zenon DEF GateInv, Quiet, Looked, None
      <3>4. CASE Looked
        <4>1. Quiet
          BY <1>0, <2>3, <3>1, <3>4, Zenon DEF GateInv
        <4> QED
          BY <1>0, <2>1, <4>1, Zenon DEF GateInv, Quiet
      <3> QED
        BY <3>2, <3>3, <3>4, Zenon
    <2>4. CASE act # "Arming"
      BY <1>2, <2>1, <2>4, Zenon
    <2> QED
      BY <2>2, <2>3, <2>4, Zenon
  <1>11. CASE Routed
    <2>1. UNCHANGED <<arm, act, plan, outstanding, snap, poisoned, rig, ext>>
      BY <1>11, Zenon DEF Routed, supVars, poisonVars
    <2>2. CASE pump' = "wire"
      <3>1. pump = "routeGo" /\ queue' = Append(queue, outstanding)
        BY <1>11, <2>2, Zenon DEF Routed
      <3>2. queue = <<>> \/ queue = <<"ptt">>
        BY <1>0, <3>1, Zenon DEF QueueInv, HasItem
      <3>3. Append(<<>>, outstanding) = <<outstanding>> /\ Append(<<"ptt">>, outstanding) = <<"ptt", outstanding>>
        BY Queues, Zenon
      <3>4. queue' # <<"status", "ptt">>
        BY <3>1, <3>2, <3>3, Behind, Zenon
      <3> QED
        BY <1>0, <2>1, <2>2, <3>4, Zenon DEF GateInv, Quiet, Looked
    <2>3. CASE pump' # "wire"
      <3>1. pump' # "complete"
        BY <1>11, Zenon DEF Routed
      <3> QED
        BY <1>8, <2>1, <2>3, <3>1, Zenon
    <2> QED
      BY <2>2, <2>3, Zenon
  <1>12. CASE Complete
    <2>1. UNCHANGED <<poisoned, rig, ext>> /\ outstanding' = None /\ pump' = "routeDone0" /\ pump = "complete"
      BY <1>12, Zenon DEF Complete, poisonVars, radioVars
    <2>2. CASE poisoned
      <3>1. arm' = arm
        BY <1>12, <2>2, Zenon DEF Complete
      <3> QED
        BY <1>0, <2>1, <2>2, <3>1, Zenon DEF GateInv, Quiet
    <2>3. CASE ~poisoned /\ act # "Arming"
      <3>1. act' # "Arming" /\ (arm' = arm \/ arm' = NoOne)
        BY <1>12, <2>3, Zenon DEF Complete, BeginStop, StartRestore
      <3> QED
        BY <1>2, <2>1, <3>1, Zenon
    <2>4. CASE ~poisoned /\ act = "Arming"
      <3>1. \/ RefuseArm
            \/ outstanding = "status" /\ ~ext /\ UNCHANGED <<arm, act, plan>>
            \/ outstanding = "clamp" /\ act' = "Idle"
        BY <1>12, <2>4, Zenon DEF Complete
      <3>2. CASE RefuseArm
        BY <1>2, <2>1, <3>2, Zenon DEF RefuseArm, StartRestore
      <3>3. CASE outstanding = "status" /\ ~ext /\ UNCHANGED <<arm, act, plan>>
        <4>1. snap' = snap /\ arm = NoOne
          BY <1>0, <1>12, <2>4, Zenon DEF Complete, Types, ActInv
        <4>2. Looked => rig = "idle"
          BY <1>0, <2>1, <2>4, <3>3, Zenon DEF GateInv
        <4>3. plan # <<>>
          BY <1>0, <2>4, <3>3, Plans, Zenon DEF ActInv, Fresh, Looked, Clamping
        <4>4. Looked' => Looked
          BY <3>3, <4>1, Zenon DEF Looked
        <4> QED
          BY <1>0, <2>1, <3>3, <4>1, <4>2, <4>3, <4>4, Zenon DEF GateInv, Quiet, None
      <3>4. CASE outstanding = "clamp" /\ act' = "Idle"
        <4>1. plan = <<>>
          BY <1>0, <2>4, <3>4, Zenon DEF ActInv, Fresh, Looked, Clamping, None
        <4>2. Quiet
          BY <1>0, <2>4, <4>1, Zenon DEF GateInv
        <4> QED
          BY <1>0, <2>1, <3>4, <4>2, Zenon DEF GateInv, Quiet
      <3> QED
        BY <3>1, <3>2, <3>3, <3>4, Zenon
    <2> QED
      BY <2>2, <2>3, <2>4, Zenon
  <1>13. CASE Exchange
    <2>0. UNCHANGED <<arm, act, plan, outstanding, snap, poisoned>>
      BY <1>13, Zenon DEF Exchange, supVars, poisonVars
    <2>1. CASE /\ rig = "sent" /\ rig' = "idle" /\ pump' = pump
               /\ IF HasItem THEN queue' = <<Item>> ELSE queue' = <<>>
      <3>1. ~Quiet
        BY <2>1, Zenon DEF Quiet
      <3>2. queue' # <<"status", "ptt">>
        BY <2>1, Behind, Zenon
      <3> QED
        BY <1>0, <2>0, <2>1, <3>1, <3>2, Zenon DEF GateInv, Looked
    <2>2. CASE pump' = "drive" /\ UNCHANGED <<rig, ext>>
      BY <1>8, <2>0, <2>2, Zenon
    <2>3. CASE /\ pump = "wire" /\ pump' = "complete" /\ UNCHANGED <<rig, ext>>
               /\ rig = "sent" => queue = <<outstanding, "ptt">>
      <3>1. act = "Arming" /\ ~poisoned /\ Looked /\ outstanding = "status" => rig = "idle"
        BY <1>0, <2>3, Zenon DEF GateInv, Types
      <3> QED
        BY <1>0, <2>0, <2>3, <3>1, Zenon DEF GateInv, Quiet, Looked
    <2> QED
      BY <1>0, <1>13, <2>1, <2>2, <2>3, Exchanged, Zenon
  <1>14. CASE Transmit
    <2>1. arm = NoOne /\ act = "Idle" /\ rig' = "sent" /\ UNCHANGED <<arm, act>>
      BY <1>14, Zenon DEF Transmit, BlocksExternalPtt, supVars
    <2> QED
      BY <2>1, Zenon DEF GateInv
  <1>15. CASE SubmitPtt
    BY <1>0, <1>15, Zenon DEF GateInv, SubmitPtt
  <1>16. CASE Receive \/ Return
    BY <1>0, <1>1, <1>16, Zenon DEF Receive, Return, supVars, poisonVars, pumpVars, radioVars, Types
  <1> QED
    BY <1>3, <1>4, <1>5, <1>6, <1>7, <1>9, <1>10, <1>11, <1>12, <1>13, <1>14, <1>15, <1>16, Zenon
    DEF Next, ConsoleNext, PumpNext

-----------------------------------------------------------------------------
\* The invariant holds at first.
LEMMA ServerInit ==
    ASSUME Init
    PROVE  ServerInv
  <1>1. Types /\ PumpInv /\ QueueInv
    BY Zenon DEF Init, Types, Activities, Places, PumpInv, QueueInv, HasItem, None
  <1>2. TicketInv
    BY EmptySeq, Zenon DEF Init, TicketInv
  <1>3. SpeedInv /\ RestInv
    BY Zenon DEF Init, SpeedInv, RestInv, None
  <1>4. ActInv /\ GateInv
    BY Zenon DEF Init, ActInv, GateInv, None
  <1> QED
    BY <1>1, <1>2, <1>3, <1>4, Zenon DEF ServerInv

\* ... and every step keeps it.
LEMMA ServerStep ==
    ASSUME NoOne \notin Consoles, ServerInv, [Next]_vars
    PROVE  ServerInv'
  <1>1. CASE Next
    <2>1. Types' /\ PumpInv' /\ QueueInv' /\ TicketInv' /\ SpeedInv' /\ RestInv'
      BY <1>1, WireStep, TicketStep, SpeedStep, RestStep, Zenon DEF ServerInv
    <2>2. ~poisoned' => ~poisoned
      BY <1>1, ZenonT(40) DEF ServerInv, Types, Next, ConsoleNext, PumpNext, Ask, TakeAnswer, Expire, DropReceiver, SendText,
         AbortCw, SetSpeed, Detach, Panic, Top, ClearAbort, StopAfterPoison, NextAction, Route, Routed, Complete,
         TakeNotices, Commands, Wake, Transmit, SubmitPtt, Receive, Exchange, Settle, Return, poisonVars
    <2>3. backend' = backend
      BY <1>1, ZenonT(40) DEF Next, ConsoleNext, PumpNext, Ask, TakeAnswer, Expire, DropReceiver, SendText,
         AbortCw, SetSpeed, Detach, Panic, Top, ClearAbort, StopAfterPoison, NextAction, Route, Routed, Complete,
         TakeNotices, Commands, Wake, Transmit, SubmitPtt, Receive, Exchange, Settle, Return
    <2>4. ~poisoned' => ActInv'
      BY <1>1, <2>2, ActStep, Zenon
    <2>5. backend' = "linux" => GateInv'
      BY <1>1, <2>3, GateStep, Zenon
    <2> QED
      BY <2>1, <2>4, <2>5, Zenon DEF ServerInv
  <1>2. CASE UNCHANGED vars
    <2>1. /\ UNCHANGED <<backend, arm, act, owner, plan, outstanding, snap, poisoned, speed, pump, queue, rig>>
          /\ UNCHANGED <<clamped, keying, ext, server, unsettled, tickets, waiters>>
      BY <1>2, Zenon DEF vars, conVars, supVars, poisonVars, pumpVars, radioVars
    <2>2. Types' /\ PumpInv' /\ TicketInv' /\ SpeedInv' /\ RestInv'
      BY <2>1, ZenonT(40) DEF ServerInv, Types, PumpInv, TicketInv, SpeedInv, RestInv
    <2>3. QueueInv'
      BY <2>1, Zenon DEF ServerInv, QueueInv, HasItem, Item
    <2>4. ~poisoned' => ActInv'
      BY <2>1, ActStill, Zenon DEF ServerInv
    <2>5. backend' = "linux" => GateInv'
      BY <2>1, Zenon DEF ServerInv, GateInv, Quiet, Looked
    <2> QED
      BY <2>2, <2>3, <2>4, <2>5, Zenon DEF ServerInv
  <1> QED
    BY <1>1, <1>2, Zenon

\* For any number of consoles and requests: on Linux no external client has the radio
\* keyed while a console is armed, whichever of them came first (GatedPtt::transmit), and a
\* server that returns has restored the radio or says that it has not (run_with_native,
\* settle_cw); on either build a keyer speed that was accepted before an arm is not
\* written under it (pump_once).
THEOREM ServerKeepsItsGate ==
    ASSUME NoOne \notin Consoles
    PROVE  Spec => [](GateHolds /\ ReturnedRestored) /\ [][SpeedFixedUnderArm]_vars
  <1>1. Init => ServerInv
    BY ServerInit, Zenon
  <1>2. ServerInv /\ [Next]_vars => ServerInv'
    BY ServerStep, Zenon
  <1>3. ServerInv => GateHolds /\ ReturnedRestored
    BY Zenon DEF ServerInv, GateInv, RestInv, Quiet, GateHolds, GateHoldsAlways, ReturnedRestored
  <1>4. ServerInv => [SpeedFixedUnderArm]_vars
    BY Zenon DEF ServerInv, PumpInv, SpeedInv, SpeedFixedUnderArm
  <1> QED
    BY <1>1, <1>2, <1>3, <1>4, PTL DEF Spec
=============================================================================
