-------------------------- MODULE CompletionProofs --------------------------
(***************************************************************************)
(* An await over Completion resolves to what its own sender did, for any   *)
(* number of requests, with and without a deadline.                        *)
(***************************************************************************)
EXTENDS Completion, TLAPS

\* Which awaits are over, and what an unresolved channel remembers: a value that
\* was sent is in the slot until the await that takes it is resolved by it.
ChannelInv ==
    /\ TypeOK
    /\ NotResolvedByOthers
    /\ \A c \in Channel :
          /\ c > request => tx[c] = "held" /\ timer[c] = "unstarted"
          /\ tx[c] = "held" => ~sent[c] /\ slot[c] = "Empty"
          /\ tx[c] = "waking" => sent[c]
          /\ sent[c] /\ result[c] = "none" => slot[c] = "Value"
          /\ slot[c] = "Value" => sent[c]
          /\ result[c] = "Value" => sent[c]
          /\ result[c] = "Canceled" => ~sent[c]

LEMMA InitOK == Init => ChannelInv
  <1> SUFFICES ASSUME Init PROVE ChannelInv
    OBVIOUS
  <1>1. TypeOK
    <2>1. request \in Channel
      BY RequestsAssumption DEF Init, Channel
    <2> QED BY <2>1, Zenon DEF Init, TypeOK
  <1> QED BY <1>1, RequestsAssumption DEF Init, ChannelInv, NotResolvedByOthers, Channel

LEMMA SenderOK ==
  ASSUME ChannelInv, NEW c \in Channel, Send(c) \/ SendWakes(c) \/ Drop(c) \/ DropWakes(c)
  PROVE  ChannelInv'
  <1> USE DEF ChannelInv, TypeOK, NotResolvedByOthers, Channel, shared, sender, clock, caller
  <1>1. CASE Send(c)
    BY <1>1 DEF Send
  <1>2. CASE SendWakes(c)
    BY <1>2 DEF SendWakes, WakeIfRegistered
  <1>3. CASE Drop(c)
    <2>1. tx' \in [Channel -> {"held", "waking", "dropping", "canceling", "dropped"}]
      BY <1>3 DEF Drop
    <2>2. slot' \in [Channel -> {"Empty", "Value", "Canceled"}]
      BY <1>3 DEF Drop
    <2>3. tx'[c] \in {"canceling", "dropped"} /\ \A d \in Channel \ {c} : tx'[d] = tx[d] /\ slot'[d] = slot[d]
      <3>1. CASE slot[c] = "Empty"
        BY <1>3, <3>1, ZenonT(30) DEF Drop
      <3>2. CASE slot[c] # "Empty"
        BY <1>3, <3>2, ZenonT(30) DEF Drop
      <3> QED BY <3>1, <3>2
    <2>4. slot'[c] = slot[c] \/ (slot[c] = "Empty" /\ slot'[c] = "Canceled")
      BY <1>3, Zenon DEF Drop
    <2>5. UNCHANGED <<waker, sent, clock, caller, token>> /\ c <= request
      BY <1>3 DEF Drop
    <2> QED BY <2>1, <2>2, <2>3, <2>4, <2>5
  <1>4. CASE DropWakes(c)
    BY <1>4 DEF DropWakes, WakeIfRegistered
  <1> QED BY <1>1, <1>2, <1>3, <1>4

LEMMA CallerOK ==
  ASSUME ChannelInv, Poll \/ Register \/ CheckDeadline \/ Park \/ NextRequest
  PROVE  ChannelInv'
  <1> USE RequestsAssumption DEF ChannelInv, TypeOK, NotResolvedByOthers, Channel, shared, sender, clock, caller
  <1>1. CASE Poll
    BY <1>1 DEF Poll, Resolve
  <1>2. CASE Register
    BY <1>2 DEF Register
  <1>3. CASE CheckDeadline
    <2>1. CASE late[request]
      BY <1>3, <2>1 DEF CheckDeadline, Resolve
    <2>2. CASE ~late[request]
      <3>1. TypeOK'
        BY <1>3, <2>2 DEF CheckDeadline
      <3> QED BY <1>3, <2>2, <3>1 DEF CheckDeadline
    <2> QED BY <2>1, <2>2
  <1>4. CASE Park
    BY <1>4, Zenon DEF Park
  <1>5. CASE NextRequest
    BY <1>5 DEF NextRequest
  <1> QED BY <1>1, <1>2, <1>3, <1>4, <1>5

LEMMA ClockOK ==
  ASSUME ChannelInv, NEW c \in Channel, DeadlinePasses(c) \/ TimerWakes(c)
  PROVE  ChannelInv'
  <1> USE DEF ChannelInv, TypeOK, NotResolvedByOthers, Channel, shared, sender, clock, caller
  <1>1. CASE DeadlinePasses(c)
    BY <1>1 DEF DeadlinePasses
  <1>2. CASE TimerWakes(c)
    BY <1>2 DEF TimerWakes
  <1> QED BY <1>1, <1>2

LEMMA ChannelInvHolds == Spec => []ChannelInv
  <1>1. ChannelInv /\ [Next]_vars => ChannelInv'
    <2> SUFFICES ASSUME ChannelInv, [Next]_vars PROVE ChannelInv'
      OBVIOUS
    <2>1. CASE UNCHANGED vars
      BY <2>1 DEF vars, shared, sender, clock, caller, ChannelInv, TypeOK, NotResolvedByOthers
    <2> QED BY <2>1, SenderOK, CallerOK, ClockOK DEF Next
  <1> QED BY <1>1, InitOK, PTL DEF Spec

\* The drop that follows send (CompletionTx::drop) never cancels an await whose
\* value was sent, and no await sees a value nobody sent.
THEOREM AwaitTellsTheTruth == Spec => []ResultIsTheSenders
  <1>1. ChannelInv => ResultIsTheSenders
    BY DEF ChannelInv, ResultIsTheSenders
  <1> QED BY <1>1, ChannelInvHolds, PTL

\* A wake-up left over from an earlier request or its timer (TimeoutFuture::poll)
\* never resolves a later one.
THEOREM StaleWakesAreHarmless == Spec => []NotResolvedByOthers
  <1>1. ChannelInv => NotResolvedByOthers
    BY DEF ChannelInv
  <1> QED BY <1>1, ChannelInvHolds, PTL
=============================================================================
