------------------------ MODULE CwSupervisorProofs ------------------------
(***************************************************************************)
(* What all the proofs about CwSupervisor rest on: what its plans look     *)
(* like, for every keyer and every length of text (the steps each method   *)
(* plans, and where in a cut message the speed checks stand), the parts of *)
(* its type invariant, and what the radio holds and answers.  Then type    *)
(* correctness, for every set of consoles, tickets, jobs and settings; and *)
(* a restore that does not raise the power while the radio keys.           *)
(***************************************************************************)
EXTENDS CwSupervisor, SequenceTheorems, TLAPS

\* The steps each activity plans.
ArmStep ==
    [kind : {"Status", "SnapPower", "SnapBreakIn"}, val : Int]
    \cup {Step("SetPower", LowPower), Step("VerifyPower", LowPower)}
    \cup {Step("SetBreakIn", BreakInWanted), Step("VerifyBreakIn", BreakInWanted)}
JobStep ==
    [kind : {"Status", "WaitReady", "CheckSpeed", "Send"}, val : Int]
    \cup [kind : {"WaitKeyed"}, val : Nat] \cup {Step("PowerAtMost", LowPower)}
StopStep == [kind : {"Stop", "WaitKeyed", "WaitReady"}, val : Int]
RestoreStep ==
    [kind : {"SetPower", "VerifyPower"}, val : Powers]
    \cup [kind : {"SetBreakIn", "VerifyBreakIn"}, val : BreakIns]
    \cup {Step("WaitKeyed", Margin)}

\* How many steps follow the speed check of a chunk: the chunk, the paced
\* chunks after it and the final wait.
Spaced(m) == \E n \in Nat : m = n * PacedLen + 2

\* The plan of a send: the status comes once, before any speed check, and
\* every speed check is where Replan looks for its chunks.
JobPlan(p) ==
    /\ p \in Seq(JobStep)
    /\ \A i \in 1..Len(p) : p[i].kind = "CheckSpeed" => Spaced(Len(p) - i)
    /\ \A i, j \in 1..Len(p) :
          p[i].kind = "Status" /\ p[j].kind \in {"Status", "CheckSpeed"} => i = j

-----------------------------------------------------------------------------
(* The plans the methods build.                                            *)

LEMMA MarginType == Margin \in Nat /\ -Margin \in Int /\ -Margin <= 0
  BY TimeAssumption DEF Margin

LEMMA StepSets ==
  /\ ArmStep \subseteq StepType /\ JobStep \subseteq StepType
  /\ StopStep \subseteq StepType /\ RestoreStep \subseteq StepType
  /\ NoStep \in StepType
  <1> USE DEF StepType, StepKinds, WriteKinds, Step
  <1>1. ArmStep \subseteq StepType
    BY PowerAssumption, BreakInAssumption DEF ArmStep
  <1>2. JobStep \subseteq StepType
    BY PowerAssumption DEF JobStep
  <1>3. StopStep \subseteq StepType
    BY Zenon DEF StopStep
  <1>4. RestoreStep \subseteq StepType
    <2>1. Powers \subseteq Int /\ BreakIns \subseteq Int /\ Margin \in Int
      BY PowerAssumption, BreakInAssumption, MarginType
    <2>2. /\ [kind : {"SetPower", "VerifyPower"}, val : Powers] \subseteq StepType
          /\ [kind : {"SetBreakIn", "VerifyBreakIn"}, val : BreakIns] \subseteq StepType
      BY <2>1, Zenon
    <2>3. Step("WaitKeyed", Margin) \in StepType
      BY <2>1, Zenon
    <2> QED BY <2>2, <2>3, Zenon DEF RestoreStep
  <1>5. NoStep \in StepType
    BY DEF NoStep
  <1> QED BY <1>1, <1>2, <1>3, <1>4, <1>5, Zenon

LEMMA PlanTypes ==
  ASSUME NEW p, NEW S, S \in {ArmStep, JobStep, StopStep, RestoreStep}, p \in Seq(S)
  PROVE  p \in Seq(StepType)
  BY StepSets, SeqMonotonic, Zenon

LEMMA Pair ==
  ASSUME NEW S, NEW a \in S, NEW b \in S
  PROVE  <<a, b>> \in Seq(S)
  OBVIOUS

LEMMA One ==
  ASSUME NEW S, NEW a \in S
  PROVE  <<a>> \in Seq(S)
  OBVIOUS

\* The snapshot's settings are the radio's.
SnapType ==
    /\ snapPower \in Powers \cup {NoValue} /\ snapBreakIn \in BreakIns \cup {NoValue}
    /\ powerChanged \in BOOLEAN /\ breakInChanged \in BOOLEAN

LEMMA RestorePlanType ==
  ASSUME SnapType
  PROVE  <<Step("WaitKeyed", Margin)>> \o RestoreWrites \in Seq(RestoreStep)
  <1> DEFINE P == IF powerChanged /\ snapPower # NoValue
                  THEN <<Step("SetPower", snapPower), Step("VerifyPower", snapPower)>>
                  ELSE <<>>
             B == IF breakInChanged /\ snapBreakIn # NoValue
                  THEN <<Step("SetBreakIn", snapBreakIn), Step("VerifyBreakIn", snapBreakIn)>>
                  ELSE <<>>
  <1>1. snapPower # NoValue => /\ Step("SetPower", snapPower) \in RestoreStep
                               /\ Step("VerifyPower", snapPower) \in RestoreStep
    BY Zenon DEF SnapType, Step, RestoreStep
  <1>2. snapBreakIn # NoValue => /\ Step("SetBreakIn", snapBreakIn) \in RestoreStep
                                 /\ Step("VerifyBreakIn", snapBreakIn) \in RestoreStep
    BY Zenon DEF SnapType, Step, RestoreStep
  <1>3. P \in Seq(RestoreStep)
    BY <1>1, Pair, EmptySeq, Zenon
  <1>4. B \in Seq(RestoreStep)
    BY <1>2, Pair, EmptySeq, Zenon
  <1>5. P \o B \in Seq(RestoreStep)
    BY <1>3, <1>4, ConcatProperties, Zenon
  <1>6. <<Step("WaitKeyed", Margin)>> \in Seq(RestoreStep)
    BY One, Zenon DEF RestoreStep
  <1>7. <<Step("WaitKeyed", Margin)>> \o (P \o B) \in Seq(RestoreStep)
    BY <1>5, <1>6, ConcatProperties, Zenon
  <1> QED BY <1>7, Zenon DEF RestoreWrites

LEMMA ArmPlanType == ArmPlan \in Seq(ArmStep)
  <1>1. /\ Step("Status", 0) \in ArmStep /\ Step("SnapPower", 0) \in ArmStep
        /\ Step("SnapBreakIn", 0) \in ArmStep /\ Step("SetPower", LowPower) \in ArmStep
        /\ Step("VerifyPower", LowPower) \in ArmStep
        /\ Step("SetBreakIn", BreakInWanted) \in ArmStep
        /\ Step("VerifyBreakIn", BreakInWanted) \in ArmStep
    BY PowerAssumption, BreakInAssumption DEF ArmStep, Step
  <1> DEFINE A == <<Step("Status", 0), Step("SnapPower", 0)>>
             B == IF NeedsBreakIn THEN <<Step("SnapBreakIn", 0)>> ELSE <<>>
             C == <<Step("SetPower", LowPower), Step("VerifyPower", LowPower)>>
             D == IF NeedsBreakIn
                  THEN <<Step("SetBreakIn", BreakInWanted), Step("VerifyBreakIn", BreakInWanted)>>
                  ELSE <<>>
  <1>2. A \in Seq(ArmStep) /\ C \in Seq(ArmStep)
    BY <1>1, Pair, Zenon
  <1>3. B \in Seq(ArmStep)
    BY <1>1, One, EmptySeq, Zenon
  <1>4. D \in Seq(ArmStep)
    BY <1>1, Pair, EmptySeq, Zenon
  <1> HIDE DEF A, B, C, D
  <1>5. A \o B \o C \o D \in Seq(ArmStep)
    BY <1>2, <1>3, <1>4, ConcatProperties, Zenon
  <1> QED BY <1>5, Zenon DEF ArmPlan, A, B, C, D

LEMMA SendPlanType == JobPlan(SendPlan)
  <1>1. Step("Status", 0) \in JobStep /\ Step("PowerAtMost", LowPower) \in JobStep
    BY PowerAssumption DEF JobStep, Step
  <1>2. SendPlan \in Seq(JobStep) /\ Len(SendPlan) = 2
        /\ SendPlan[1].kind = "Status" /\ SendPlan[2].kind = "PowerAtMost"
    BY <1>1, Pair, Zenon DEF SendPlan, Step
  <1> QED BY <1>2 DEF JobPlan

LEMMA WithoutBreakInType ==
  ASSUME NEW S, NEW p \in Seq(S)
  PROVE  /\ WithoutBreakIn(p) \in Seq(S)
         /\ WithoutBreakIn(p) # <<>> => p # <<>> /\ Head(WithoutBreakIn(p)) = Head(p)
  BY DEF WithoutBreakIn

LEMMA PacedLenValue == PacedLen \in {2, 3, 4}
  BY KeyerAssumption DEF PacedLen

\* Where the i-th step of a paced plan is: its chunk and its place before it.
LEMMA Places ==
  ASSUME NEW L \in {2, 3, 4}, NEW n \in Nat, NEW i \in 1..(n * L),
         NEW q \in Int, q = (i - 1) \div L, NEW r \in Int, r = (i - 1) % L
  PROVE  q + 1 \in 1..n /\ r + 1 \in 1..L /\ i = q * L + r + 1
  <1>1. CASE L = 2
    BY <1>1
  <1>2. CASE L = 3
    BY <1>2
  <1>3. CASE L = 4
    BY <1>3
  <1> QED BY <1>1, <1>2, <1>3, Zenon

LEMMA Snoc ==
  ASSUME NEW S, NEW s \in Seq(S), NEW n \in Nat, Len(s) = n, NEW a \in S
  PROVE  /\ s \o <<a>> \in Seq(S) /\ Len(s \o <<a>>) = n + 1 /\ (s \o <<a>>)[n + 1] = a
         /\ \A i \in 1..n : (s \o <<a>>)[i] = s[i]
  OBVIOUS

LEMMA Singles2 ==
  ASSUME NEW S, NEW a \in S, NEW b \in S
  PROVE  LET s == <<a>> \o <<b>> IN s \in Seq(S) /\ Len(s) = 2 /\ s[1] = a /\ s[2] = b
  OBVIOUS

LEMMA PacedType ==
  ASSUME NEW c \in Int
  PROVE  /\ Paced(c) \in Seq(JobStep) /\ Len(Paced(c)) = PacedLen
         /\ \A k \in 1..PacedLen : /\ Paced(c)[k].kind # "Status"
                                   /\ Paced(c)[k].kind = "CheckSpeed" => k = PacedLen - 1
  <1> DEFINE K == Step("WaitKeyed", 0)
             R == Step("WaitReady", 0)
             C == Step("CheckSpeed", 0)
             D == Step("Send", c)
             p == Paced(c)
  <1>1. K \in JobStep /\ R \in JobStep /\ C \in JobStep /\ D \in JobStep
    BY DEF JobStep, Step
  <1>2. K.kind = "WaitKeyed" /\ R.kind = "WaitReady" /\ C.kind = "CheckSpeed" /\ D.kind = "Send"
    BY Zenon DEF Step
  <1>3. p = <<K>> \o (IF BufferFlag THEN <<R>> ELSE <<>>)
                  \o (IF DrainOnly THEN <<C>> ELSE <<>>) \o <<D>>
    BY Zenon DEF Paced
  <1> HIDE DEF K, R, C, D, p
  <1>4. <<K>> \o <<>> = <<K>> /\ (<<K>> \o <<R>>) \o <<>> = <<K>> \o <<R>>
    BY <1>1, Singles2, One, ConcatEmptySeq
  <1>5. CASE BufferFlag /\ DrainOnly
    <2>1. p = <<K>> \o <<R>> \o <<C>> \o <<D>> /\ PacedLen = 4
      BY <1>3, <1>5 DEF PacedLen
    <2>2. LET s == <<K>> \o <<R>> \o <<C>> \o <<D>>
          IN  s \in Seq(JobStep) /\ Len(s) = 4 /\ s[1] = K /\ s[2] = R /\ s[3] = C /\ s[4] = D
      BY <1>1
    <2>3. p \in Seq(JobStep) /\ Len(p) = 4 /\ p[1] = K /\ p[2] = R /\ p[3] = C /\ p[4] = D
      BY <2>1, <2>2, Zenon
    <2> QED BY <1>2, <2>1, <2>3 DEF p
  <1>6. CASE BufferFlag /\ ~DrainOnly
    <2>1. p = <<K>> \o <<R>> \o <<D>> /\ PacedLen = 3
      BY <1>3, <1>4, <1>6 DEF PacedLen
    <2>2. LET s == <<K>> \o <<R>> \o <<D>>
          IN  s \in Seq(JobStep) /\ Len(s) = 3 /\ s[1] = K /\ s[2] = R /\ s[3] = D
      BY <1>1
    <2>3. p \in Seq(JobStep) /\ Len(p) = 3 /\ p[1] = K /\ p[2] = R /\ p[3] = D
      BY <2>1, <2>2, Zenon
    <2> QED BY <1>2, <2>1, <2>3 DEF p
  <1>7. CASE ~BufferFlag /\ DrainOnly
    <2>1. p = <<K>> \o <<C>> \o <<D>> /\ PacedLen = 3
      BY <1>3, <1>4, <1>7 DEF PacedLen
    <2>2. LET s == <<K>> \o <<C>> \o <<D>>
          IN  s \in Seq(JobStep) /\ Len(s) = 3 /\ s[1] = K /\ s[2] = C /\ s[3] = D
      BY <1>1
    <2>3. p \in Seq(JobStep) /\ Len(p) = 3 /\ p[1] = K /\ p[2] = C /\ p[3] = D
      BY <2>1, <2>2, Zenon
    <2> QED BY <1>2, <2>1, <2>3 DEF p
  <1>8. CASE ~BufferFlag /\ ~DrainOnly
    <2>1. p = <<K>> \o <<D>> /\ PacedLen = 2
      BY <1>3, <1>4, <1>8 DEF PacedLen
    <2>2. LET s == <<K>> \o <<D>>
          IN  s \in Seq(JobStep) /\ Len(s) = 2 /\ s[1] = K /\ s[2] = D
      BY <1>1
    <2>3. p \in Seq(JobStep) /\ Len(p) = 2 /\ p[1] = K /\ p[2] = D
      BY <2>1, <2>2, Zenon
    <2> QED BY <1>2, <2>1, <2>3 DEF p
  <1> QED BY <1>5, <1>6, <1>7, <1>8, Zenon

\* A plan has no status in it, and its speed checks where they belong.
Cut(p) ==
    /\ p \in Seq(JobStep)
    /\ \A i \in 1..Len(p) : /\ p[i].kind # "Status"
                            /\ p[i].kind = "CheckSpeed" => Spaced(Len(p) - i)

LEMMA PacedPlanType ==
  ASSUME NEW cs \in Seq(Int)
  PROVE  Cut(PacedPlan(cs)) /\ Len(PacedPlan(cs)) = Len(cs) * PacedLen + 1
  <1> DEFINE L == PacedLen
             n == Len(cs)
             body == [i \in 1..(n * L) |-> Paced(cs[((i - 1) \div L) + 1])[((i - 1) % L) + 1]]
             w == Step("WaitKeyed", Margin)
  <1>1. L \in {2, 3, 4} /\ n \in Nat /\ n * L \in Nat
    <2>1. L \in {2, 3, 4} /\ n \in Nat
      BY PacedLenValue
    <2> HIDE DEF L, n
    <2> QED BY <2>1
  <1>2. \A i \in 1..(n * L) :
          /\ body[i] \in JobStep /\ body[i].kind # "Status"
          /\ body[i].kind = "CheckSpeed" => Spaced(n * L + 1 - i)
    <2> TAKE i \in 1..(n * L)
    <2> DEFINE q == (i - 1) \div L
               r == (i - 1) % L
               k == r + 1
    <2>1. q \in Int /\ q + 1 \in 1..n /\ k \in 1..L /\ i = q * L + k
      <3> HIDE DEF L, n
      <3>1. q \in Int /\ r \in Int
        BY <1>1
      <3>2. q = (i - 1) \div L /\ r = (i - 1) % L
        OBVIOUS
      <3> HIDE DEF q, r
      <3>3. q + 1 \in 1..n /\ r + 1 \in 1..L /\ i = q * L + r + 1
        BY <1>1, <3>1, <3>2, Places
      <3> QED BY <1>1, <3>1, <3>3
    <2>2. body[i] = Paced(cs[q + 1])[k]
      OBVIOUS
    <2>3. cs[q + 1] \in Int
      BY <2>1
    <2> HIDE DEF q, k, body
    <2> DEFINE P == Paced(cs[q + 1])
    <2>a. /\ P \in Seq(JobStep) /\ Len(P) = L
          /\ \A m \in 1..L : P[m].kind # "Status" /\ (P[m].kind = "CheckSpeed" => m = L - 1)
      BY <2>3, PacedType, Zenon
    <2> HIDE DEF P, L
    <2>b. body[i] = P[k]
      BY <2>2, Zenon DEF P
    <2>4. body[i] \in JobStep /\ body[i].kind # "Status" /\ (body[i].kind = "CheckSpeed" => k = L - 1)
      BY <1>1, <2>1, <2>a, <2>b
    <2>5. ASSUME k = L - 1
          PROVE  Spaced(n * L + 1 - i)
      <3>1. q \in Int /\ n - q - 1 \in Nat
        BY <1>1, <2>1
      <3>2. n * L + 1 - i = (n - q - 1) * L + 2
        <4> HIDE DEF L, n
        <4>1. CASE L = 2
          BY <1>1, <2>1, <2>5, <3>1, <4>1
        <4>2. CASE L = 3
          BY <1>1, <2>1, <2>5, <3>1, <4>2
        <4>3. CASE L = 4
          BY <1>1, <2>1, <2>5, <3>1, <4>3
        <4> QED BY <1>1, <4>1, <4>2, <4>3, Zenon
      <3> QED BY <3>1, <3>2, Zenon DEF Spaced, L
    <2> QED BY <2>4, <2>5, Zenon
  <1>3. w \in JobStep /\ w.kind = "WaitKeyed"
    BY MarginType, Zenon DEF JobStep, Step
  <1>4. PacedPlan(cs) = body \o <<w>>
    BY Zenon DEF PacedPlan
  <1>5. body \in Seq(JobStep) /\ Len(body) = n * L
    <2>1. body \in [1..(n * L) -> JobStep]
      <3>1. \A i \in 1..(n * L) : body[i] \in JobStep
        BY <1>2, Zenon
      <3> QED BY <3>1, Zenon
    <2> HIDE DEF body, L, n
    <2> QED BY <1>1, <2>1
  <1> HIDE DEF body, w, L, n
  <1>6. /\ body \o <<w>> \in Seq(JobStep) /\ Len(body \o <<w>>) = n * L + 1
        /\ \A i \in 1..(n * L) : (body \o <<w>>)[i] = body[i]
        /\ (body \o <<w>>)[n * L + 1] = w
    BY <1>1, <1>3, <1>5, Snoc
  <1>7. \A i \in 1..(n * L + 1) : i \in 1..(n * L) \/ i = n * L + 1
    BY <1>1
  <1>8. Len(PacedPlan(cs)) = n * L + 1
    BY <1>4, <1>6, Zenon
  <1> DEFINE p == PacedPlan(cs)
  <1>9. ASSUME NEW i \in 1..Len(p)
        PROVE  p[i].kind # "Status" /\ (p[i].kind = "CheckSpeed" => Spaced(Len(p) - i))
    <2>1. CASE i \in 1..(n * L)
      <3>1. p[i] = body[i] /\ Len(p) = n * L + 1
        BY <1>4, <1>6, <1>8, <2>1, Zenon
      <3> HIDE DEF p
      <3>2. Len(p) - i = n * L + 1 - i
        BY <1>1, <3>1
      <3> QED BY <1>2, <2>1, <3>1, <3>2, Zenon
    <2>2. CASE i = n * L + 1
      BY <1>3, <1>4, <1>6, <2>2, Zenon
    <2> QED BY <1>7, <1>8, <2>1, <2>2, Zenon
  <1>10. Cut(PacedPlan(cs))
    BY <1>4, <1>6, <1>9, Zenon DEF Cut
  <1> QED BY <1>8, <1>10, Zenon DEF L, n

LEMMA CutIsJobPlan == \A p : Cut(p) => JobPlan(p)
  BY Zenon DEF Cut, JobPlan

LEMMA CutSuffix ==
  ASSUME NEW p, Cut(p), NEW m \in 1..Len(p)
  PROVE  Cut(SubSeq(p, m, Len(p)))
  <1> DEFINE z == SubSeq(p, m, Len(p))
  <1>1. p \in Seq(JobStep) /\ Len(p) \in Nat
    BY DEF Cut
  <1>2. /\ z \in Seq(JobStep) /\ Len(z) = Len(p) - m + 1
        /\ \A i \in 1..Len(z) : z[i] = p[m + i - 1]
    BY <1>1
  <1> HIDE DEF z
  <1>3. ASSUME NEW i \in 1..Len(z)
        PROVE  z[i].kind # "Status" /\ (z[i].kind = "CheckSpeed" => Spaced(Len(z) - i))
    <2> DEFINE k == m + i - 1
    <2>1. k \in 1..Len(p) /\ Len(z) - i = Len(p) - k /\ z[i] = p[k]
      BY <1>1, <1>2
    <2> HIDE DEF k
    <2> QED BY <2>1, Zenon DEF Cut
  <1>4. Cut(z)
    BY <1>2, <1>3, Zenon DEF Cut
  <1> QED BY <1>4, Zenon DEF z

LEMMA JobPlanTail ==
  ASSUME NEW p, JobPlan(p), p # <<>>
  PROVE  /\ JobPlan(Tail(p)) /\ Head(p) \in JobStep
         /\ Head(p).kind = "CheckSpeed" => Spaced(Len(Tail(p)))
         /\ Head(p).kind = "Status" =>
               \A i \in 1..Len(Tail(p)) : Tail(p)[i].kind \notin {"Status", "CheckSpeed"}
  <1> DEFINE z == Tail(p)
  <1>1. p \in Seq(JobStep) /\ Len(p) \in Nat /\ Len(p) > 0
    BY DEF JobPlan
  <1>2. /\ z \in Seq(JobStep) /\ Len(z) = Len(p) - 1
        /\ \A i \in 1..Len(z) : z[i] = p[i + 1]
        /\ Head(p) = p[1] /\ Head(p) \in JobStep
    BY <1>1
  <1> HIDE DEF z
  <1>3. \A i \in 1..Len(z) : i + 1 \in 1..Len(p) /\ Len(z) - i = Len(p) - (i + 1)
    BY <1>1, <1>2
  <1>4. \A i \in 1..Len(z) : z[i].kind = "CheckSpeed" => Spaced(Len(z) - i)
    BY <1>2, <1>3, Zenon DEF JobPlan
  <1>5. \A i, j \in 1..Len(z) :
           z[i].kind = "Status" /\ z[j].kind \in {"Status", "CheckSpeed"} => i = j
    <2> TAKE i, j \in 1..Len(z)
    <2> HAVE z[i].kind = "Status" /\ z[j].kind \in {"Status", "CheckSpeed"}
    <2>1. i + 1 \in 1..Len(p) /\ j + 1 \in 1..Len(p) /\ z[i] = p[i + 1] /\ z[j] = p[j + 1]
      BY <1>2, <1>3, Zenon
    <2>2. i + 1 = j + 1
      BY <2>1, Zenon DEF JobPlan
    <2> QED BY <1>1, <1>2, <2>2
  <1>6. 1 \in 1..Len(p) /\ Len(p) - 1 = Len(z)
    BY <1>1, <1>2
  <1>7. Head(p).kind = "CheckSpeed" => Spaced(Len(z))
    <2>1. Head(p).kind = "CheckSpeed" => Spaced(Len(p) - 1)
      BY <1>2, <1>6, Zenon DEF JobPlan
    <2> QED BY <1>6, <2>1, Zenon
  <1>8. Head(p).kind = "Status" => \A i \in 1..Len(z) : z[i].kind \notin {"Status", "CheckSpeed"}
    <2> HAVE Head(p).kind = "Status"
    <2> TAKE i \in 1..Len(z)
    <2>1. i + 1 \in 1..Len(p) /\ z[i] = p[i + 1] /\ i + 1 # 1
      BY <1>2, <1>3
    <2> QED BY <1>2, <1>6, <2>1, Zenon DEF JobPlan
  <1>9. JobPlan(z)
    BY <1>2, <1>4, <1>5, Zenon DEF JobPlan
  <1> QED BY <1>2, <1>7, <1>8, <1>9, Zenon DEF z

LEMMA JobPlanPush ==
  ASSUME NEW p, JobPlan(p), NEW x \in JobStep, x.kind = "WaitReady"
  PROVE  JobPlan(<<x>> \o p)
  <1> DEFINE z == <<x>> \o p
  <1>1. p \in Seq(JobStep) /\ Len(p) \in Nat
    BY DEF JobPlan
  <1>2. /\ z \in Seq(JobStep) /\ Len(z) = Len(p) + 1 /\ z[1] = x
        /\ \A i \in 2..Len(z) : z[i] = p[i - 1]
    BY <1>1
  <1> HIDE DEF z
  <1>3. \A i \in 1..Len(z) : z[i].kind \in {"Status", "CheckSpeed"} =>
           i - 1 \in 1..Len(p) /\ Len(z) - i = Len(p) - (i - 1) /\ z[i] = p[i - 1]
    BY <1>1, <1>2
  <1>4. \A i \in 1..Len(z) : z[i].kind = "CheckSpeed" => Spaced(Len(z) - i)
    BY <1>3, Zenon DEF JobPlan
  <1>5. \A i, j \in 1..Len(z) :
           z[i].kind = "Status" /\ z[j].kind \in {"Status", "CheckSpeed"} => i = j
    <2> TAKE i, j \in 1..Len(z)
    <2> HAVE z[i].kind = "Status" /\ z[j].kind \in {"Status", "CheckSpeed"}
    <2>1. i - 1 = j - 1
      BY <1>3, Zenon DEF JobPlan
    <2> QED BY <1>1, <1>2, <2>1
  <1>6. JobPlan(z)
    BY <1>2, <1>4, <1>5, Zenon DEF JobPlan
  <1> QED BY <1>6, Zenon DEF z

LEMMA JobPlanAppend ==
  ASSUME NEW p \in Seq(JobStep), NEW c, Cut(c),
         \A i \in 1..Len(p) : p[i].kind \notin {"Status", "CheckSpeed"}
  PROVE  JobPlan(p \o c)
  <1> DEFINE z == p \o c
  <1>1. c \in Seq(JobStep) /\ Len(c) \in Nat /\ Len(p) \in Nat
    BY DEF Cut
  <1>2. /\ z \in Seq(JobStep) /\ Len(z) = Len(p) + Len(c)
        /\ \A i \in 1..Len(z) : z[i] = IF i <= Len(p) THEN p[i] ELSE c[i - Len(p)]
    BY <1>1
  <1> HIDE DEF z
  <1>3. ASSUME NEW i \in 1..Len(z)
        PROVE  z[i].kind # "Status" /\ (z[i].kind = "CheckSpeed" => Spaced(Len(z) - i))
    <2>1. CASE i <= Len(p)
      BY <1>1, <1>2, <2>1
    <2>2. CASE ~(i <= Len(p))
      <3> DEFINE k == i - Len(p)
      <3>1. k \in 1..Len(c) /\ z[i] = c[k] /\ Len(z) - i = Len(c) - k
        BY <1>1, <1>2, <2>2
      <3> HIDE DEF k
      <3> QED BY <3>1, Zenon DEF Cut
    <2> QED BY <2>1, <2>2, Zenon
  <1>4. Cut(z)
    BY <1>2, <1>3, Zenon DEF Cut
  <1> QED BY <1>4, CutIsJobPlan, Zenon DEF z

LEMMA ChunksType ==
  ASSUME NEW text \in Nat, NEW id \in Nat, NEW lead \in BOOLEAN
  PROVE  Chunks(text, id, lead) \in Seq(Int)
  <1> DEFINE I == [i \in 1..id |-> IF i = id THEN EndsId ELSE Unid]
             T == [i \in 1..text |-> IF id = 0 \/ lead THEN Plain ELSE Unid]
  <1>1. I \in Seq(Int) /\ T \in Seq(Int)
    BY DEF EndsId, Unid, Plain
  <1> HIDE DEF I, T
  <1>2. I \o T \in Seq(Int) /\ T \o I \in Seq(Int)
    BY <1>1, ConcatProperties, Zenon
  <1> QED BY <1>2, Zenon DEF Chunks, I, T

LEMMA ChunksLeftType ==
  ASSUME plan \in Seq(JobStep), Spaced(Len(plan))
  PROVE  ChunksLeft \in Seq(Int) /\ Len(ChunksLeft) \in Nat \ {0}
  <1> DEFINE L == PacedLen
             q == (Len(plan) - 2) \div L
  <1>1. L \in {2, 3, 4}
    BY PacedLenValue, Zenon
  <1>2. PICK n \in Nat : Len(plan) = n * L + 2
    BY Zenon DEF Spaced
  <1> HIDE DEF L
  <1>3. q = n
    <2>1. Len(plan) - 2 = n * L
      BY <1>1, <1>2
    <2>2. CASE L = 2
      BY <2>1, <2>2
    <2>3. CASE L = 3
      BY <2>1, <2>3
    <2>4. CASE L = 4
      BY <2>1, <2>4
    <2> QED BY <1>1, <2>2, <2>3, <2>4, Zenon
  <1> HIDE DEF q
  <1>4. \A k \in 1..(n + 1) : (k - 1) * L + 1 \in 1..Len(plan)
    <2>1. CASE L = 2
      BY <1>2, <2>1
    <2>2. CASE L = 3
      BY <1>2, <2>2
    <2>3. CASE L = 4
      BY <1>2, <2>3
    <2> QED BY <1>1, <2>1, <2>2, <2>3, Zenon
  <1>5. \A k \in 1..(n + 1) : plan[(k - 1) * L + 1].val \in Int
    <2> TAKE k \in 1..(n + 1)
    <2> DEFINE m == (k - 1) * L + 1
    <2>1. m \in 1..Len(plan)
      BY <1>4, Zenon
    <2> HIDE DEF m
    <2>2. plan[m] \in JobStep
      BY <2>1
    <2>3. plan[m].val \in Int
      BY <2>2, PowerAssumption DEF JobStep, Step
    <2> QED BY <2>3, Zenon DEF m
  <1>6. ChunksLeft = [k \in 1..(n + 1) |-> plan[(k - 1) * L + 1].val]
    BY <1>3, Zenon DEF ChunksLeft, L, q
  <1> DEFINE f == [k \in 1..(n + 1) |-> plan[(k - 1) * L + 1].val]
  <1>7. f \in [1..(n + 1) -> Int]
    BY <1>5, Zenon
  <1> HIDE DEF f
  <1>8. f \in Seq(Int) /\ Len(f) = n + 1
    BY <1>7
  <1> QED BY <1>6, <1>8 DEF f

LEMMA ReplanPlan ==
  ASSUME plan \in Seq(JobStep), Spaced(Len(plan)), NEW parts \in {1, 2}, Replan(parts)
  PROVE  JobPlan(plan')
  <1> DEFINE C == ChunksLeft
             n == Len(C)
             pieces == [i \in 1..(n * parts) |->
                          LET whole == C[((i - 1) \div parts) + 1]
                          IN  IF whole = EndsId /\ i % parts # 0 THEN Unid ELSE whole]
             paced == PacedPlan(pieces)
  <1>1. C \in Seq(Int) /\ n \in Nat \ {0}
    BY ChunksLeftType, Zenon
  <1>2. plan' = SubSeq(paced, PacedLen, Len(paced))
    BY Zenon DEF Replan
  <1> HIDE DEF C, n
  <1>3. \A i \in 1..(n * parts) : (i - 1) \div parts + 1 \in 1..n
    <2>1. CASE parts = 1
      BY <1>1, <2>1
    <2>2. CASE parts = 2
      BY <1>1, <2>2
    <2> QED BY <2>1, <2>2, Zenon
  <1>4. \A i \in 1..(n * parts) : C[(i - 1) \div parts + 1] \in Int
    BY <1>1, <1>3 DEF n
  <1>5. pieces \in [1..(n * parts) -> Int]
    BY <1>4 DEF Unid
  <1> HIDE DEF pieces, paced
  <1>6. n * parts \in Nat \ {0}
    BY <1>1
  <1>7. pieces \in Seq(Int) /\ Len(pieces) = n * parts
    BY <1>5, <1>6
  <1>8. Cut(paced) /\ Len(paced) = Len(pieces) * PacedLen + 1
    BY <1>7, PacedPlanType, Zenon DEF paced
  <1>9. PacedLen \in 1..Len(paced)
    <2> DEFINE m == Len(pieces)
               L == PacedLen
    <2>1. m \in Nat \ {0} /\ L \in {2, 3, 4} /\ Len(paced) = m * L + 1
      BY <1>6, <1>7, <1>8, PacedLenValue, Zenon
    <2> HIDE DEF m, L
    <2>2. L \in 1..(m * L + 1)
      BY <2>1
    <2> QED BY <2>1, <2>2, Zenon DEF L
  <1> QED BY <1>2, <1>8, <1>9, CutSuffix, CutIsJobPlan, Zenon

LEMMA PlanChunksPlan ==
  ASSUME plan \in Seq(JobStep), leadId \in BOOLEAN, NEW text \in Nat, NEW id \in Nat,
         \A i \in 1..Len(plan) : plan[i].kind \notin {"Status", "CheckSpeed"},
         PlanChunks(text, id)
  PROVE  JobPlan(plan')
  <1> DEFINE c == Chunks(text, id, leadId)
  <1>1. c \in Seq(Int)
    BY ChunksType, Zenon
  <1>2. plan' = plan \o PacedPlan(c)
    BY Zenon DEF PlanChunks
  <1> HIDE DEF c
  <1>3. Cut(PacedPlan(c))
    BY <1>1, PacedPlanType, Zenon
  <1> QED BY <1>2, <1>3, JobPlanAppend, Zenon

-----------------------------------------------------------------------------
\* The plan holds only what its activity put there.
PlanInv ==
    /\ act = "Idle" => plan = <<>>
    /\ act = "Arming" => plan \in Seq(ArmStep)
    /\ act = "Sending" => JobPlan(plan)
    /\ act = "Stopping" => plan \in Seq(StopStep)
    /\ act = "Restoring" => plan \in Seq(RestoreStep)

\* What may be on the wire in each activity, stale steps included.
OutInv ==
    /\ outstanding \in ArmStep \cup JobStep \cup StopStep \cup RestoreStep \cup {NoStep}
    /\ outstanding.kind # "WaitKeyed"
    /\ act # "Restoring" => outstanding \in ArmStep \cup JobStep \cup StopStep \cup {NoStep}
    /\ act \in {"Idle", "Arming", "Restoring"} => outstanding.kind \notin {"Send", "WaitReady"}
    /\ act = "Idle" /\ arm # NoOne => outstanding = NoStep
    /\ act = "Sending" /\ outstanding.kind = "CheckSpeed" => Spaced(Len(plan))
    /\ act = "Sending" /\ outstanding.kind = "Status" =>
          \A i \in 1..Len(plan) : plan[i].kind \notin {"Status", "CheckSpeed"}

\* An answer belongs to the step on the wire.
AnswerInv ==
    /\ answer # NoAnswer => outstanding # NoStep
    /\ outstanding.kind = "SnapPower" =>
          answer \in {NoAnswer, Failed} \cup [kind : {"Read"}, val : Powers]
    /\ outstanding.kind = "SnapBreakIn" =>
          answer \in {NoAnswer, Failed} \cup [kind : {"Read"}, val : BreakIns]

\* The inductive invariant behind TypeOK.
TypeInv == TypeOK /\ PlanInv /\ OutInv /\ AnswerInv

(* The private methods keep the supervisor's own state well formed.        *)

\* The part of TypeInv that is about supVars alone.
ArmType ==
    /\ arm \in Consoles \cup {NoOne} /\ idOwed \in Consoles \cup {NoOne}
    /\ idFirst \in BOOLEAN /\ idDue \in BOOLEAN /\ idle \in BOOLEAN
JobType ==
    /\ hasId \in BOOLEAN /\ leadId \in BOOLEAN /\ idSent \in BOOLEAN /\ inRadio \in BOOLEAN
    /\ overdue \in BOOLEAN
ActType ==
    /\ act \in {"Idle", "Arming", "Sending", "Stopping", "Restoring"}
    /\ owner \in Consoles \cup {NoOne}
    /\ ticket \in Tickets \cup {NoTicket}
    /\ stay \in BOOLEAN /\ stopSent \in BOOLEAN
    /\ job \in Jobs \cup {NoJob}
    /\ retry \in {"none", "waiting", "due"} /\ readyWait \in BOOLEAN
SupType == ArmType /\ JobType /\ ActType /\ SnapType
SupShape ==
    /\ act = "Arming" <=> owner # NoOne
    /\ act \in {"Arming", "Restoring"} => arm = NoOne
    /\ act \in {"Sending", "Stopping"} => arm # NoOne
    /\ act \in {"Sending", "Stopping"} <=> job # NoJob
    /\ retry # "none" => act = "Restoring"
SupInv == SupType /\ SupShape /\ PlanInv

\* The part of TypeOK about everything else.
RestType ==
    /\ open \subseteq Tickets /\ live \subseteq Jobs
    /\ outstanding \in StepType
    /\ keyed \in Int /\ keyed >= -Margin /\ shutting \in BOOLEAN /\ turning \in BOOLEAN
    /\ turning => outstanding = NoStep
    /\ answer \in [kind : {"None", "Failed", "Done", "Read"}, val : Int]
    /\ power \in Powers
    /\ breakIn \in BreakIns
    /\ air \in Nat
    /\ orig \in [power : Powers, breakIn : BreakIns]
    /\ turned \in BOOLEAN
    /\ owing \in BOOLEAN

LEMMA Kept ==
  /\ UNCHANGED <<armVars, idOwed>> /\ ArmType => ArmType'
  /\ UNCHANGED jobVars /\ JobType => JobType'
  /\ UNCHANGED snapVars /\ SnapType => SnapType'
  /\ UNCHANGED <<actVars, readyWait>> /\ ActType => ActType'
  <1>1. UNCHANGED <<armVars, idOwed>> /\ ArmType => ArmType'
    BY Zenon DEF armVars, ArmType
  <1>2. UNCHANGED jobVars /\ JobType => JobType'
    BY Zenon DEF jobVars, JobType
  <1>3. UNCHANGED snapVars /\ SnapType => SnapType'
    BY Zenon DEF snapVars, SnapType
  <1>4. UNCHANGED <<actVars, readyWait>> /\ ActType => ActType'
    BY Zenon DEF actVars, ActType
  <1> QED BY <1>1, <1>2, <1>3, <1>4, Zenon

LEMMA PlanInvType ==
  ASSUME SupType, PlanInv
  PROVE  plan \in Seq(StepType)
  BY PlanTypes, EmptySeq, Zenon DEF SupType, ActType, PlanInv, JobPlan

LEMMA TypeParts == TypeInv <=> SupInv /\ RestType /\ OutInv /\ AnswerInv
  BY PlanInvType, Zenon DEF TypeInv, TypeOK, Coherent, SupInv, SupType, ArmType, JobType, ActType, SnapType,
                     SupShape, RestType

LEMMA TypePartsNext == TypeInv' <=> (SupInv /\ RestType /\ OutInv /\ AnswerInv)'
  BY TypeParts, PTL

LEMMA StartRestoreOK ==
  ASSUME SupInv, NEW t \in Tickets \cup {NoTicket}, StartRestore(t)
  PROVE  SupInv' /\ act' = "Restoring" /\ plan' # <<>> /\ Head(plan').kind = "WaitKeyed"
  <1>1. plan' = <<Step("WaitKeyed", Margin)>> \o RestoreWrites
    BY Zenon DEF StartRestore, PlanRestore
  <1>2. plan' \in Seq(RestoreStep)
    BY <1>1, RestorePlanType, Zenon DEF SupInv, SupType
  <1>3. PlanInv'
    BY <1>2, Zenon DEF PlanInv, StartRestore
  <1>4. SupType' /\ SupShape'
    <2>1. JobType' /\ SnapType'
      BY Kept, Zenon DEF SupInv, SupType, StartRestore
    <2>2. ArmType' /\ ActType'
      BY Zenon DEF SupInv, SupType, ArmType, ActType, StartRestore
    <2>3. SupShape'
      BY Zenon DEF SupShape, StartRestore
    <2> QED BY <2>1, <2>2, <2>3, Zenon DEF SupType
  <1>5. plan' # <<>> /\ Head(plan').kind = "WaitKeyed"
    <2> DEFINE w == Step("WaitKeyed", Margin)
               r == RestoreWrites
    <2>1. w.kind = "WaitKeyed"
      BY Zenon DEF Step
    <2>2. plan' = <<w>> \o r
      BY <1>1, Zenon
    <2> HIDE DEF w, r
    <2> QED BY <1>2, <2>1, <2>2
  <1> QED BY <1>3, <1>4, <1>5, Zenon DEF SupInv, StartRestore

\* A restore that has not got past its wait.
Waiting == act = "Restoring" => plan = <<>> \/ Head(plan).kind = "WaitKeyed"

LEMMA Stutters == UNCHANGED supVars /\ SupInv => SupInv' /\ UNCHANGED <<act, arm, plan>>
  <1> SUFFICES ASSUME UNCHANGED supVars, SupInv PROVE SupInv' /\ UNCHANGED <<act, arm, plan>>
    OBVIOUS
  <1> USE DEF supVars, armVars, actVars
  <1>1. SupType' /\ SupShape'
    BY Kept, Zenon DEF SupInv, SupType, SupShape
  <1>2. PlanInv'
    BY Zenon DEF SupInv, PlanInv
  <1> QED BY <1>1, <1>2, Zenon DEF SupInv

(* Each action keeps TypeInv.                                              *)

LEMMA NoStepKind == NoStep.kind = "None" /\ NoStep \in StepType
  BY StepSets, Zenon DEF NoStep, Step

\* A change of activity under a step that stays on the wire.
LEMMA OutKept ==
  ASSUME OutInv, outstanding' = outstanding,
         \/ UNCHANGED <<act, arm, plan>>
         \/ act = "Sending" /\ act' = "Stopping"
         \/ act \in {"Idle", "Arming"} /\ act' = "Restoring"
         \/ act = "Arming" /\ act' = "Idle" /\ arm' = NoOne
         \/ act = "Idle" /\ act' = "Arming"
         \/ outstanding = NoStep
  PROVE  OutInv'
  <1>1. CASE outstanding = NoStep
    BY <1>1, NoStepKind, Zenon DEF OutInv
  <1>2. CASE UNCHANGED <<act, arm, plan>>
    BY <1>2, Zenon DEF OutInv
  <1>3. CASE act = "Sending" /\ act' = "Stopping"
    BY <1>3, Zenon DEF OutInv
  <1>4. CASE act \in {"Idle", "Arming"} /\ act' = "Restoring"
    BY <1>4, Zenon DEF OutInv
  <1>5. CASE act = "Arming" /\ act' = "Idle" /\ arm' = NoOne
    BY <1>5, Zenon DEF OutInv
  <1>6. CASE act = "Idle" /\ act' = "Arming"
    BY <1>6, Zenon DEF OutInv
  <1> QED BY <1>1, <1>2, <1>3, <1>4, <1>5, <1>6, Zenon

LEMMA SupStateKeeps ==
  ASSUME TypeInv, UNCHANGED supState
  PROVE  /\ SupInv' /\ OutInv'
         /\ UNCHANGED <<act, plan, arm, outstanding, keyed, shutting, turning, open, live>>
  <1>1. SupInv /\ OutInv
    BY TypeParts, Zenon
  <1>2. UNCHANGED supVars /\ UNCHANGED <<outstanding, keyed, shutting, turning, open, live>>
    BY Zenon DEF supState
  <1>3. SupInv' /\ UNCHANGED <<act, arm, plan>>
    BY <1>1, <1>2, Stutters, Zenon
  <1>4. OutInv'
    BY <1>1, <1>2, <1>3, OutKept, Zenon
  <1> QED BY <1>2, <1>3, <1>4, Zenon

\* The radio keys no longer than the supervisor's estimate, a chunk whose
\* completion is on its way apart, and a stop that worked has silenced it; once
\* a restore is past its wait the radio is silent.
AirInv ==
    /\ air <= Max0(keyed) + (IF outstanding.kind = "Send" /\ answer = Done THEN ChunkTime ELSE 0)
    /\ outstanding.kind = "Stop" =>
          answer \in {NoAnswer, Failed} \/ (answer = Done /\ (~DrainOnly => air = 0))
    /\ act = "Restoring" /\ plan # <<>> /\ Head(plan).kind # "WaitKeyed" => air = 0
    /\ act = "Restoring" /\ outstanding.kind = "SetPower" /\ outstanding.val > LowPower => air = 0
(* The keying estimate bounds what the radio keys.                         *)

LEMMA AnswerKinds == NoAnswer # Done /\ Failed # Done /\ NoAnswer # Failed
  BY Zenon DEF NoAnswer, Done, Failed

\* Only a restore writes power above the clamp.
LEMMA RaisesInRestore ==
  ASSUME TypeInv, outstanding.kind = "SetPower", outstanding.val > LowPower
  PROVE  act = "Restoring"
  <1>1. OutInv
    BY TypeParts, Zenon
  <1>2. CASE outstanding \in ArmStep
    BY <1>2, PowerAssumption DEF ArmStep, Step
  <1>3. CASE outstanding \in JobStep \cup StopStep \cup {NoStep}
    BY <1>3, NoStepKind DEF JobStep, StopStep, Step
  <1> QED BY <1>1, <1>2, <1>3, Zenon DEF OutInv

-----------------------------------------------------------------------------
LEMMA StopPlanType == <<Step("Stop", 0), Step("WaitKeyed", Margin)>> \in Seq(StopStep)
                      /\ <<Step("WaitKeyed", Margin)>> \in Seq(StopStep)
  <1>1. Step("Stop", 0) \in StopStep /\ Step("WaitKeyed", Margin) \in StopStep
    BY MarginType DEF StopStep, Step
  <1> QED BY <1>1, Pair, One, Zenon

LEMMA BeginStopOK ==
  ASSUME SupInv, NEW st \in BOOLEAN, NEW t \in Tickets \cup {NoTicket}, NEW wire,
         BeginStop(st, t, wire)
  PROVE  /\ SupInv'
         /\ \/ UNCHANGED <<act, arm, plan>>
            \/ act = "Sending" /\ act' = "Stopping"
            \/ act # "Sending" /\ ~st /\ act' = "Restoring" /\ Waiting'
  <1>1. CASE act = "Sending"
    <2>1. /\ plan' = <<Step("Stop", 0), Step("WaitKeyed", Margin)>>
          /\ act' = "Stopping" /\ stay' = st /\ ticket' = t
          /\ stopSent' = FALSE /\ readyWait' = FALSE
          /\ idOwed' \in {arm, idOwed} /\ idFirst' \in BOOLEAN
          /\ DropJob
          /\ UNCHANGED <<arm, idDue, idle, snapVars, owner, job, retry>>
      BY <1>1, Zenon DEF BeginStop
    <2>a. SnapType' /\ JobType' /\ ArmType' /\ ActType'
      BY <2>1, Kept, ZenonT(30) DEF SupInv, SupType, ArmType, ActType, JobType, DropJob
    <2>2. SupType' /\ SupShape'
      BY <1>1, <2>1, <2>a, Zenon DEF SupInv, SupType, SupShape
    <2>3. PlanInv'
      BY <2>1, StopPlanType, Zenon DEF PlanInv
    <2> QED BY <1>1, <2>1, <2>2, <2>3, Zenon DEF SupInv
  <1>2. CASE act # "Sending" /\ st
    BY <1>2, Stutters, Zenon DEF BeginStop
  <1>3. CASE act # "Sending" /\ ~st
    <2>1. StartRestore(t)
      BY <1>3, Zenon DEF BeginStop
    <2> QED BY <1>3, <2>1, StartRestoreOK, Zenon DEF Waiting
  <1> QED BY <1>1, <1>2, <1>3, Zenon

LEMMA EndArmOK ==
  ASSUME SupInv, NEW t \in Tickets \cup {NoTicket}, EndArm(t)
  PROVE  /\ SupInv'
         /\ \/ UNCHANGED <<act, arm, plan>>
            \/ act = "Sending" /\ act' = "Stopping"
            \/ act = "Idle" /\ act' = "Restoring" /\ Waiting'
  <1>1. CASE act = "Sending"
    <2>1. BeginStop(FALSE, t, outstanding)
      BY <1>1, Zenon DEF EndArm
    <2> QED BY <1>1, <2>1, BeginStopOK, Zenon
  <1>2. CASE act = "Stopping"
    <2>1. /\ stay' = FALSE /\ ticket' \in {t, ticket}
          /\ UNCHANGED <<armVars, jobVars, snapVars, act, owner, job, retry, stopSent,
                         plan, readyWait, idOwed>>
      BY <1>2, Zenon DEF EndArm
    <2>a. SupType'
      BY <2>1, Kept, Zenon DEF SupInv, SupType, ActType
    <2>2. SupType' /\ SupShape'
      BY <2>1, <2>a, Zenon DEF SupInv, SupShape, armVars
    <2>3. PlanInv'
      BY <2>1, Zenon DEF SupInv, PlanInv
    <2> QED BY <2>1, <2>2, <2>3, Zenon DEF SupInv, armVars
  <1>3. CASE act = "Idle"
    <2>1. StartRestore(t)
      BY <1>3, Zenon DEF EndArm
    <2> QED BY <1>3, <2>1, StartRestoreOK, Zenon DEF Waiting
  <1>4. CASE act \in {"Arming", "Restoring"}
    BY <1>4, Stutters, Zenon DEF EndArm
  <1> QED BY <1>1, <1>2, <1>3, <1>4, Zenon DEF SupInv, SupType, ActType

LEMMA RefuseArmOK ==
  ASSUME SupInv, act = "Arming", RefuseArm
  PROVE  SupInv' /\ arm' = NoOne /\ act' \in {"Idle", "Restoring"} /\ Waiting'
  <1>1. CASE powerChanged \/ breakInChanged
    <2>1. StartRestore(NoTicket)
      BY <1>1, Zenon DEF RefuseArm
    <2> QED BY <2>1, StartRestoreOK, Zenon DEF Waiting, StartRestore
  <1>2. CASE ~(powerChanged \/ breakInChanged)
    <2>1. /\ ClearSnap
          /\ plan' = <<>> /\ act' = "Idle" /\ owner' = NoOne /\ ticket' = NoTicket
          /\ UNCHANGED <<armVars, jobVars, stay, job, retry, stopSent, readyWait, idOwed>>
      BY <1>2, Zenon DEF RefuseArm
    <2>a. SupType'
      BY <2>1, Kept, Zenon DEF SupInv, SupType, SnapType, ActType, ClearSnap
    <2>2. SupType' /\ SupShape' /\ arm' = NoOne
      BY <2>1, <2>a, Zenon DEF SupInv, SupShape, armVars
    <2>3. PlanInv'
      BY <2>1, Zenon DEF PlanInv
    <2> QED BY <2>1, <2>2, <2>3, Zenon DEF SupInv, Waiting
  <1> QED BY <1>1, <1>2, Zenon

LEMMA FailOK ==
  ASSUME SupInv, open \subseteq Tickets, Fail
  PROVE  /\ SupInv' /\ open' \subseteq Tickets
         /\ UNCHANGED <<act, plan>> \/ Waiting'
  <1>1. CASE act = "Idle"
    BY <1>1, Stutters, Zenon DEF Fail
  <1>2. CASE act = "Arming"
    BY <1>2, RefuseArmOK, Zenon DEF Fail, RefuseArm, Reply
  <1>3. CASE act = "Sending"
    <2>1. BeginStop(TRUE, NoTicket, NoStep) /\ open' = open
      BY <1>3, Zenon DEF Fail
    <2> QED BY <1>3, <2>1, BeginStopOK, Zenon DEF Waiting
  <1>4. CASE act = "Stopping"
    <2>1. FailStopping
      BY <1>4, Zenon DEF Fail
    <2>a. SupType'
      BY <2>1, Kept, Zenon DEF FailStopping, SupInv, SupType, ActType, actVars
    <2>2. SupType' /\ SupShape' /\ open' = open /\ act' = act
      BY <2>1, <2>a, Zenon DEF FailStopping, SupInv, SupShape, armVars, actVars
    <2>3. PlanInv'
      BY <1>4, <2>1, <2>2, StopPlanType, Zenon DEF PlanInv, FailStopping
    <2> QED BY <1>4, <2>2, <2>3, Zenon DEF SupInv, Waiting
  <1>5. CASE act = "Restoring"
    <2>1. FailRestoring
      BY <1>5, Zenon DEF Fail
    <2>2. SupType' /\ SupShape' /\ open' \subseteq Tickets /\ act' = act /\ plan' = <<>>
      BY <1>5, <2>1, Kept, Zenon DEF FailRestoring, Reply, SupInv, SupType, ActType, SupShape, armVars
    <2>3. PlanInv'
      BY <1>5, <2>2, EmptySeq, Zenon DEF PlanInv
    <2> QED BY <2>2, <2>3, Zenon DEF SupInv, Waiting
  <1> QED BY <1>1, <1>2, <1>3, <1>4, <1>5, Zenon DEF SupInv, SupType, ActType

-----------------------------------------------------------------------------
LEMMA OutNone == outstanding = NoStep => OutInv
  BY NoStepKind, Zenon DEF OutInv

LEMMA RequestKeeps ==
  ASSUME Request, RestType, AnswerInv,
         open' \subseteq Tickets, live' \subseteq Jobs, shutting' \in BOOLEAN
  PROVE  RestType' /\ AnswerInv'
  BY Zenon DEF Request, RestType, AnswerInv, radio

LEMMA ArmOK ==
  ASSUME TypeInv, NEW c \in Consoles, Arm(c)
  PROVE  TypeInv'
  <1>1. SupInv /\ RestType /\ OutInv /\ AnswerInv
    BY TypeParts, Zenon
  <1>2. act = "Idle"
    BY <1>1, Zenon DEF Arm, SupInv, SupType, ActType, SupShape
  <1>3. SupType'
    <2>1. ArmType' /\ JobType'
      BY <1>1, Kept, Zenon DEF Arm, SupInv, SupType
    <2>2. ActType' /\ SnapType'
      BY <1>1, Zenon DEF Arm, SupInv, SupType, ActType, SnapType, ClearSnap
    <2> QED BY <2>1, <2>2, Zenon DEF SupType
  <1>4. SupShape'
    BY <1>1, <1>2, NoOneAssumption, Zenon DEF Arm, SupInv, SupShape, armVars
  <1>5. PlanInv'
    BY ArmPlanType, Zenon DEF Arm, PlanInv
  <1>6. OutInv'
    BY <1>1, <1>2, OutKept, Zenon DEF Arm, Request
  <1>7. RestType' /\ AnswerInv'
    BY <1>1, RequestKeeps, Zenon DEF Arm, RestType
  <1> QED BY <1>3, <1>4, <1>5, <1>6, <1>7, TypePartsNext, Zenon DEF SupInv

LEMMA SendOK ==
  ASSUME TypeInv, NEW c \in Consoles, Send(c)
  PROVE  TypeInv'
  <1>1. SupInv /\ RestType /\ OutInv /\ AnswerInv
    BY TypeParts, Zenon
  <1>2. SupType'
    <2>1. SnapType'
      BY <1>1, Kept, Zenon DEF Send, SupInv, SupType
    <2>2. ArmType' /\ ActType'
      BY <1>1, ZenonT(30) DEF Send, SupInv, SupType, ArmType, ActType
    <2>3. JobType'
      BY <1>1, Zenon DEF Send, SupInv, SupType, ArmType, JobType
    <2> QED BY <2>1, <2>2, <2>3, Zenon DEF SupType
  <1>3. SupShape'
    BY <1>1, NoOneAssumption, NoJobAssumption, Zenon DEF Send, SupInv, SupShape
  <1>4. PlanInv'
    BY SendPlanType, Zenon DEF Send, PlanInv
  <1>5. outstanding = NoStep
    BY <1>1, NoOneAssumption, Zenon DEF Send, OutInv
  <1>6. OutInv'
    BY <1>1, <1>5, OutKept, Zenon DEF Send, Request
  <1>7. RestType' /\ AnswerInv'
    BY <1>1, RequestKeeps, Zenon DEF Send, RestType
  <1> QED BY <1>2, <1>3, <1>4, <1>6, <1>7, TypePartsNext, Zenon DEF SupInv

LEMMA AbortOK ==
  ASSUME TypeInv, Abort
  PROVE  TypeInv'
  <1>1. SupInv /\ RestType /\ OutInv /\ AnswerInv
    BY TypeParts, Zenon
  <1>2. SupInv' /\ act' = "Stopping"
    BY <1>1, BeginStopOK, Zenon DEF Abort, BeginStop
  <1>3. OutInv'
    BY <1>1, <1>2, OutKept, Zenon DEF Abort, Request
  <1>4. RestType' /\ AnswerInv'
    BY <1>1, RequestKeeps, Zenon DEF Abort, RestType
  <1> QED BY <1>2, <1>3, <1>4, TypePartsNext, Zenon

LEMMA DisarmOK ==
  ASSUME TypeInv, NEW c \in Consoles, Disarm(c)
  PROVE  TypeInv'
  <1>1. SupInv /\ RestType /\ OutInv /\ AnswerInv
    BY TypeParts, Zenon
  <1>2. PICK t \in Tickets \ open : EndArm(t) /\ open' = open \cup {t}
    BY Zenon DEF Disarm
  <1>3. SupInv' /\ OutInv'
    BY <1>1, <1>2, EndArmOK, OutKept, Zenon DEF Disarm, Request
  <1>4. RestType' /\ AnswerInv'
    BY <1>1, <1>2, RequestKeeps, Zenon DEF Disarm, RestType
  <1> QED BY <1>3, <1>4, TypePartsNext, Zenon

LEMMA DetachedOK ==
  ASSUME TypeInv, NEW c \in Consoles, Detached(c)
  PROVE  TypeInv'
  <1>1. SupInv /\ RestType /\ OutInv /\ AnswerInv
    BY TypeParts, Zenon
  <1>2. open' \subseteq Tickets
    BY <1>1, Zenon DEF Detached, RefuseArm, Reply, RestType
  <1>3. SupInv' /\ OutInv'
    <2>1. CASE act = "Arming" /\ RefuseArm
      BY <1>1, <2>1, RefuseArmOK, OutKept, Zenon DEF Detached, Request
    <2>2. CASE EndArm(NoTicket)
      BY <1>1, <2>2, EndArmOK, OutKept, Zenon DEF Detached, Request
    <2> QED BY <2>1, <2>2, Zenon DEF Detached
  <1>4. RestType' /\ AnswerInv'
    BY <1>1, <1>2, RequestKeeps, Zenon DEF Detached, RestType
  <1> QED BY <1>3, <1>4, TypePartsNext, Zenon

LEMMA ShutdownOK ==
  ASSUME TypeInv, Shutdown
  PROVE  TypeInv'
  <1>1. SupInv /\ RestType /\ OutInv /\ AnswerInv
    BY TypeParts, Zenon
  <1>2. open' \subseteq Tickets
    BY <1>1, Zenon DEF Shutdown, RefuseArm, Reply, RestType
  <1>3. SupInv' /\ OutInv'
    <2>1. CASE act = "Arming" /\ RefuseArm
      BY <1>1, <2>1, RefuseArmOK, OutKept, Zenon DEF Shutdown, Request
    <2>2. CASE EndArm(NoTicket)
      BY <1>1, <2>2, EndArmOK, OutKept, Zenon DEF Shutdown, Request
    <2>3. CASE UNCHANGED supVars
      BY <1>1, <2>3, Stutters, OutKept, Zenon DEF Shutdown, Request
    <2> QED BY <2>1, <2>2, <2>3, Zenon DEF Shutdown
  <1>4. RestType' /\ AnswerInv'
    BY <1>1, <1>2, RequestKeeps, Zenon DEF Shutdown, RestType
  <1> QED BY <1>3, <1>4, TypePartsNext, Zenon

LEMMA NextActionOK ==
  ASSUME TypeInv, NextAction
  PROVE  TypeInv'
  <1>1. SupInv /\ RestType /\ OutInv /\ AnswerInv
    BY TypeParts, Zenon
  <1>2. SupInv'
    <2>1. CASE BeginStop(FALSE, NoTicket, NoStep)
      BY <1>1, <2>1, BeginStopOK, ZenonT(30)
    <2>2. CASE StartRestore(NoTicket)
      BY <1>1, <2>2, StartRestoreOK, Zenon
    <2>3. CASE UNCHANGED supVars
      BY <1>1, <2>3, Stutters, Zenon
    <2> QED BY <2>1, <2>2, <2>3, Zenon DEF NextAction, CheckTimers
  <1>3. OutInv'
    BY <1>1, OutKept, Zenon DEF NextAction
  <1>4. RestType' /\ AnswerInv'
    BY <1>1, Zenon DEF NextAction, Call, RestType, AnswerInv, radio
  <1> QED BY <1>2, <1>3, <1>4, TypePartsNext, Zenon

\* A turn of next_action's loop that hands nothing over.
LEMMA TurnKeeps ==
  ASSUME Call, RestType, OutInv, AnswerInv, turning, outstanding' = outstanding,
         open' \subseteq Tickets, live' \subseteq Jobs, turning' \in BOOLEAN
  PROVE  RestType' /\ OutInv' /\ AnswerInv'
  <1>1. outstanding = NoStep
    BY Zenon DEF RestType
  <1>2. OutInv'
    BY <1>1, OutKept, Zenon
  <1> QED BY <1>1, <1>2, Zenon DEF Call, RestType, AnswerInv, radio

LEMMA FinishOK ==
  ASSUME SupInv, NEW more \in BOOLEAN, open \subseteq Tickets, live \subseteq Jobs, plan = <<>>,
         Finish(more)
  PROVE  SupInv' /\ open' \subseteq Tickets /\ live' \subseteq Jobs /\ Waiting'
  <1>1. CASE UNCHANGED <<supVars, open, live>>
    BY <1>1, Stutters, Zenon DEF Waiting
  <1>2. CASE act = "Arming" /\ Armed
    <2>1. SupType'
      <3>1. JobType' /\ SnapType'
        BY <1>2, Kept, Zenon DEF Armed, SupInv, SupType
      <3>2. ArmType' /\ ActType'
        BY <1>2, Zenon DEF Armed, SupInv, SupType, ArmType, ActType
      <3> QED BY <3>1, <3>2, Zenon DEF SupType
    <2>2. SupShape'
      BY <1>2, Zenon DEF Armed, SupInv, SupShape
    <2>3. PlanInv' /\ act' = "Idle"
      BY <1>2, Zenon DEF Armed, PlanInv
    <2> QED BY <1>2, <2>1, <2>2, <2>3, Zenon DEF SupInv, Armed, Reply, Waiting
  <1>3. CASE /\ act = "Sending"
             /\ EndJob
             /\ act' = "Idle" /\ job' = NoJob /\ idle' = FALSE
             /\ DropJob
             /\ UNCHANGED <<arm, idFirst, idDue, snapVars, owner, ticket, stay, retry, stopSent,
                            plan, readyWait, idOwed, open>>
    <2>1. SupType'
      <3>1. SnapType'
        BY <1>3, Kept, Zenon DEF SupInv, SupType
      <3>2. ArmType' /\ ActType'
        BY <1>3, ZenonT(30) DEF SupInv, SupType, ArmType, ActType
      <3>3. JobType'
        BY <1>3, Zenon DEF JobType, DropJob
      <3> QED BY <3>1, <3>2, <3>3, Zenon DEF SupType
    <2>2. SupShape'
      BY <1>3, Zenon DEF SupInv, SupShape
    <2>3. PlanInv'
      BY <1>3, Zenon DEF PlanInv
    <2> QED BY <1>3, <2>1, <2>2, <2>3, Zenon DEF SupInv, EndJob, Waiting
  <1>4. CASE /\ act = "Stopping" /\ EndJob
             /\ act' = "Idle" /\ job' = NoJob /\ idle' = FALSE /\ stay' = FALSE /\ stopSent' = FALSE
             /\ UNCHANGED <<arm, idFirst, idDue, jobVars, snapVars, owner, ticket, retry,
                            plan, readyWait, idOwed, open>>
    <2>1. SupType'
      <3>1. SnapType' /\ JobType'
        BY <1>4, Kept, Zenon DEF SupInv, SupType
      <3>2. ArmType' /\ ActType'
        BY <1>4, Zenon DEF SupInv, SupType, ArmType, ActType
      <3> QED BY <3>1, <3>2, Zenon DEF SupType
    <2>2. SupShape'
      BY <1>4, Zenon DEF SupInv, SupShape
    <2>3. PlanInv'
      BY <1>4, Zenon DEF PlanInv
    <2> QED BY <1>4, <2>1, <2>2, <2>3, Zenon DEF SupInv, EndJob, Waiting
  <1>5. CASE EndJob /\ StartRestore(ticket) /\ open' = open
    BY <1>5, StartRestoreOK, Zenon DEF SupInv, SupType, ActType, EndJob, Waiting
  <1>6. CASE /\ act = "Restoring"
             /\ retry' = "none" /\ PlanRestore
             /\ UNCHANGED <<armVars, jobVars, snapVars, act, owner, ticket, stay, job, stopSent,
                            readyWait, idOwed, open, live>>
    <2>1. SupType'
      BY <1>6, Kept, Zenon DEF SupInv, SupType, ActType
    <2>2. SupShape'
      BY <1>6, Zenon DEF SupInv, SupShape, armVars
    <2>3. plan' = <<Step("WaitKeyed", Margin)>> \o RestoreWrites
      BY <1>6, Zenon DEF PlanRestore
    <2>4. plan' \in Seq(RestoreStep)
      BY <2>3, RestorePlanType, Zenon DEF SupInv, SupType
    <2>5. PlanInv'
      BY <1>6, <2>4, Zenon DEF PlanInv
    <2>6. Waiting'
      <3> DEFINE w == Step("WaitKeyed", Margin)
                 r == RestoreWrites
      <3>1. w.kind = "WaitKeyed" /\ plan' = <<w>> \o r
        BY <2>3, Zenon DEF Step
      <3> HIDE DEF w, r
      <3>2. Head(plan').kind = "WaitKeyed"
        BY <2>4, <3>1
      <3> QED BY <3>2, Zenon DEF Waiting
    <2> QED BY <1>6, <2>1, <2>2, <2>5, <2>6, Zenon DEF SupInv
  <1>7. CASE act = "Restoring" /\ retry = "none" /\ Restored
    <2>1. SupType'
      <3>1. JobType' /\ ArmType'
        BY <1>7, Kept, Zenon DEF Restored, SupInv, SupType
      <3>2. SnapType' /\ ActType'
        BY <1>7, Zenon DEF Restored, SupInv, SupType, SnapType, ActType, ClearSnap
      <3> QED BY <3>1, <3>2, Zenon DEF SupType
    <2>2. SupShape'
      BY <1>7, Zenon DEF Restored, SupInv, SupShape, armVars
    <2>3. PlanInv' /\ act' = "Idle"
      BY <1>7, Zenon DEF Restored, PlanInv
    <2> QED BY <1>7, <2>1, <2>2, <2>3, Zenon DEF SupInv, Restored, Reply, Waiting
  <1> QED BY <1>1, <1>2, <1>3, <1>4, <1>5, <1>6, <1>7, Zenon DEF Finish

LEMMA TurnFinishOK ==
  ASSUME TypeInv, TurnFinish
  PROVE  TypeInv' /\ Waiting'
  <1>1. SupInv /\ RestType /\ OutInv /\ AnswerInv
    BY TypeParts, Zenon
  <1>2. PICK more \in BOOLEAN : Finish(more) /\ turning' = more
    BY Zenon DEF TurnFinish
  <1>3. SupInv' /\ open' \subseteq Tickets /\ live' \subseteq Jobs /\ Waiting'
    BY <1>1, <1>2, FinishOK, Zenon DEF TurnFinish, RestType
  <1>4. RestType' /\ OutInv' /\ AnswerInv'
    BY <1>1, <1>2, <1>3, TurnKeeps, Zenon DEF TurnFinish
  <1> QED BY <1>3, <1>4, TypePartsNext, Zenon

LEMMA TurnWaitOK ==
  ASSUME TypeInv, TurnWait
  PROVE  TypeInv'
  <1>1. SupInv /\ RestType /\ OutInv /\ AnswerInv
    BY TypeParts, Zenon
  <1>2. SupInv'
    BY <1>1, Stutters, Zenon DEF TurnWait
  <1>3. RestType' /\ OutInv' /\ AnswerInv'
    BY <1>1, TurnKeeps, Zenon DEF TurnWait, RestType
  <1> QED BY <1>2, <1>3, TypePartsNext, Zenon

\* Taking the first step off the plan.
LEMMA PlanTail ==
  ASSUME ActType, PlanInv, plan # <<>>, plan' = Tail(plan), act' = act
  PROVE  /\ PlanInv'
         /\ Head(plan) \in ArmStep \cup JobStep \cup StopStep \cup RestoreStep
         /\ act # "Restoring" => Head(plan) \in ArmStep \cup JobStep \cup StopStep
         /\ act \in {"Arming", "Restoring"} => Head(plan).kind \notin {"Send", "WaitReady"}
         /\ act \in {"Arming", "Sending", "Stopping", "Restoring"}
         /\ act = "Sending" /\ Head(plan).kind = "CheckSpeed" => Spaced(Len(plan'))
         /\ act = "Sending" /\ Head(plan).kind = "Status" =>
               \A i \in 1..Len(plan') : plan'[i].kind \notin {"Status", "CheckSpeed"}
  <1>1. CASE act = "Arming"
    <2>1. Head(plan) \in ArmStep /\ Tail(plan) \in Seq(ArmStep)
      BY <1>1 DEF PlanInv
    <2>2. Head(plan).kind \notin {"Send", "WaitReady"}
      BY <2>1 DEF ArmStep, Step
    <2> QED BY <1>1, <2>1, <2>2, Zenon DEF PlanInv
  <1>2. CASE act = "Sending"
    <2>1. JobPlan(plan)
      BY <1>2, Zenon DEF PlanInv
    <2> QED BY <1>2, <2>1, JobPlanTail, Zenon DEF PlanInv
  <1>3. CASE act = "Stopping"
    <2>1. Head(plan) \in StopStep /\ Tail(plan) \in Seq(StopStep)
      BY <1>3 DEF PlanInv
    <2> QED BY <1>3, <2>1, Zenon DEF PlanInv
  <1>4. CASE act = "Restoring"
    <2>1. Head(plan) \in RestoreStep /\ Tail(plan) \in Seq(RestoreStep)
      BY <1>4 DEF PlanInv
    <2>2. Head(plan).kind \notin {"Send", "WaitReady"}
      BY <2>1 DEF RestoreStep, Step
    <2> QED BY <1>4, <2>1, <2>2, Zenon DEF PlanInv
  <1> QED BY <1>1, <1>2, <1>3, <1>4, Zenon DEF PlanInv, ActType

LEMMA TurnWaitedOK ==
  ASSUME TypeInv, TurnWaited
  PROVE  TypeInv'
  <1>1. SupInv /\ RestType /\ OutInv /\ AnswerInv
    BY TypeParts, Zenon
  <1>2. SupType' /\ act' = act
    BY <1>1, Kept, Zenon DEF TurnWaited, SupInv, SupType, actVars
  <1>3. SupShape'
    BY <1>1, Zenon DEF TurnWaited, SupInv, SupShape, actVars, armVars
  <1>4. PlanInv'
    BY <1>1, <1>2, PlanTail, Zenon DEF TurnWaited, SupInv, SupType
  <1>5. RestType' /\ OutInv' /\ AnswerInv'
    BY <1>1, TurnKeeps, Zenon DEF TurnWaited, RestType
  <1> QED BY <1>2, <1>3, <1>4, <1>5, TypePartsNext, Zenon DEF SupInv

LEMMA TurnIssueOK ==
  ASSUME TypeInv, TurnIssue
  PROVE  TypeInv'
  <1>1. SupInv /\ RestType /\ OutInv /\ AnswerInv
    BY TypeParts, Zenon
  <1>2. SupType' /\ act' = act /\ arm' = arm
    <2>1. ArmType' /\ JobType'
      BY <1>1, Kept, Zenon DEF TurnIssue, SupInv, SupType
    <2>2. ActType'
      BY <1>1, Zenon DEF TurnIssue, SupInv, SupType, ActType
    <2>3. SnapType'
      BY <1>1, Zenon DEF TurnIssue, SupInv, SupType, SnapType
    <2> QED BY <2>1, <2>2, <2>3, Zenon DEF SupType, TurnIssue, armVars
  <1>3. SupShape'
    BY <1>1, Zenon DEF TurnIssue, SupInv, SupShape, armVars
  <1>4. /\ PlanInv'
        /\ outstanding' \in ArmStep \cup JobStep \cup StopStep \cup RestoreStep
        /\ act # "Restoring" => outstanding' \in ArmStep \cup JobStep \cup StopStep
        /\ act \in {"Arming", "Restoring"} => outstanding'.kind \notin {"Send", "WaitReady"}
        /\ act \in {"Arming", "Sending", "Stopping", "Restoring"}
        /\ act = "Sending" /\ outstanding'.kind = "CheckSpeed" => Spaced(Len(plan'))
        /\ act = "Sending" /\ outstanding'.kind = "Status" =>
              \A i \in 1..Len(plan') : plan'[i].kind \notin {"Status", "CheckSpeed"}
    BY <1>1, <1>2, PlanTail, Zenon DEF TurnIssue, SupInv, SupType
  <1>5. OutInv'
    BY <1>2, <1>4, Zenon DEF OutInv, TurnIssue
  <1>6. outstanding' \in StepType
    BY <1>4, StepSets, Zenon
  <1>7. outstanding = NoStep /\ answer = NoAnswer /\ answer' = NoAnswer
    BY <1>1, ZenonT(30) DEF TurnIssue, Call, RestType, AnswerInv
  <1>8. RestType'
    BY <1>1, <1>6, ZenonT(30) DEF TurnIssue, Call, RestType, radio
  <1>9. AnswerInv'
    BY <1>7, Zenon DEF AnswerInv
  <1> QED BY <1>2, <1>3, <1>4, <1>5, <1>8, <1>9, TypePartsNext, Zenon DEF SupInv

LEMMA NoAnswerType == NoAnswer \in [kind : {"None", "Failed", "Done", "Read"}, val : Int]
  BY DEF NoAnswer

\* An answer that has been taken leaves the wire free.
LEMMA TakesKeeps ==
  ASSUME NEW kinds, Takes(kinds), TypeInv, SupInv', keyed' \in Int, keyed' >= -Margin,
         open' \subseteq Tickets
  PROVE  TypeInv'
  <1>1. RestType
    BY TypeParts, Zenon
  <1>2. OutInv'
    BY NoStepKind, Zenon DEF OutInv, Takes
  <1>3. RestType'
    BY <1>1, NoStepKind, NoAnswerType, Zenon DEF RestType, Takes, radio
  <1>4. AnswerInv'
    BY NoStepKind, Zenon DEF AnswerInv, Takes
  <1> QED BY <1>2, <1>3, <1>4, TypePartsNext, Zenon

LEMMA CompleteFailedOK ==
  ASSUME TypeInv, CompleteFailed
  PROVE  TypeInv' /\ (UNCHANGED <<act, plan>> \/ Waiting')
  <1>1. SupInv /\ RestType
    BY TypeParts, Zenon
  <1>2. SupInv' /\ open' \subseteq Tickets /\ (UNCHANGED <<act, plan>> \/ Waiting')
    BY <1>1, FailOK, Zenon DEF CompleteFailed, RestType
  <1> QED BY <1>1, <1>2, TakesKeeps, Zenon DEF CompleteFailed, RestType

LEMMA CompleteStatusOK ==
  ASSUME TypeInv, CompleteStatus
  PROVE  TypeInv' /\ (UNCHANGED <<act, plan>> \/ Waiting')
  <1>1. SupInv /\ RestType /\ OutInv
    BY TypeParts, Zenon
  <1> DEFINE r == answer.val
  <1>2. CASE act = "Arming" /\ OnStatusArming(r)
    <2>1. SupInv' /\ open' \subseteq Tickets /\ (UNCHANGED <<act, plan>> \/ Waiting')
      BY <1>1, <1>2, Stutters, RefuseArmOK, Zenon DEF OnStatusArming, RefuseArm, Reply, RestType
    <2> QED BY <1>1, <2>1, TakesKeeps, Zenon DEF CompleteStatus, Completes, RestType
  <1>3. CASE act = "Sending" /\ \E fits \in BOOLEAN : OnStatusSending(r, fits)
    <2>1. PICK fits \in BOOLEAN : OnStatusSending(r, fits)
      BY <1>3, Zenon
    <2>2. CASE ~(r = InCw /\ fits)
      <3>1. SupInv' /\ open' = open /\ (UNCHANGED <<act, plan>> \/ Waiting')
        BY <1>1, <1>3, <2>1, <2>2, BeginStopOK, Zenon DEF OnStatusSending, Waiting
      <3> QED BY <1>1, <3>1, TakesKeeps, Zenon DEF CompleteStatus, Completes, RestType
    <2>3. CASE r = InCw /\ fits
      <3>1. PICK text \in 1..MaxText, id \in 1..MaxId :
               PlanChunks(text, IF hasId THEN id ELSE 0)
        BY <2>1, <2>3, Zenon DEF OnStatusSending
      <3>2. overdue' \in BOOLEAN
            /\ UNCHANGED <<armVars, snapVars, actVars, hasId, leadId, idSent, inRadio,
                           readyWait, idOwed, open>>
        BY <2>1, <2>3, Zenon DEF OnStatusSending, SetWatchdog
      <3>3. text \in Nat /\ (IF hasId THEN id ELSE 0) \in Nat
        BY BoundAssumption
      <3>4. /\ plan \in Seq(JobStep) /\ leadId \in BOOLEAN
            /\ \A i \in 1..Len(plan) : plan[i].kind \notin {"Status", "CheckSpeed"}
        BY <1>1, <1>3, Zenon DEF SupInv, SupType, JobType, PlanInv, JobPlan, OutInv, CompleteStatus,
                          Completes, Takes
      <3>5. JobPlan(plan')
        BY <3>1, <3>3, <3>4, PlanChunksPlan, Zenon
      <3>6. SupType'
        <4>1. ArmType' /\ SnapType' /\ ActType'
          BY <1>1, <3>2, Kept, Zenon DEF SupInv, SupType
        <4>2. JobType'
          BY <1>1, <3>2, Zenon DEF SupInv, SupType, JobType
        <4> QED BY <4>1, <4>2, Zenon DEF SupType
      <3>7. SupShape' /\ act' = act
        BY <1>1, <3>2, Zenon DEF SupInv, SupShape, actVars, armVars
      <3>8. PlanInv'
        BY <1>3, <3>5, <3>7, Zenon DEF PlanInv
      <3>9. SupInv' /\ open' = open /\ Waiting'
        BY <1>3, <3>2, <3>6, <3>7, <3>8, Zenon DEF SupInv, Waiting
      <3> QED BY <1>1, <3>9, TakesKeeps, Zenon DEF CompleteStatus, Completes, RestType
    <2> QED BY <2>2, <2>3, Zenon
  <1>4. CASE UNCHANGED <<supVars, open>>
    BY <1>1, <1>4, Stutters, TakesKeeps, Zenon DEF CompleteStatus, Completes, RestType
  <1> QED BY <1>2, <1>3, <1>4, Zenon DEF CompleteStatus, OnStatus

LEMMA CompleteSpeedOK ==
  ASSUME TypeInv, CompleteSpeed
  PROVE  TypeInv' /\ (UNCHANGED <<act, plan>> \/ Waiting')
  <1>1. SupInv /\ RestType /\ OutInv
    BY TypeParts, Zenon
  <1>2. open' = open
    BY Zenon DEF CompleteSpeed, OnSpeed
  <1>3. CASE UNCHANGED supVars
    BY <1>1, <1>2, <1>3, Stutters, TakesKeeps, Zenon DEF CompleteSpeed, Completes, RestType
  <1>4. CASE act = "Sending" /\ BeginStop(TRUE, NoTicket, NoStep)
    <2>1. SupInv' /\ (UNCHANGED <<act, plan>> \/ Waiting')
      BY <1>1, <1>4, BeginStopOK, Zenon DEF Waiting
    <2> QED BY <1>1, <1>2, <2>1, TakesKeeps, Zenon DEF CompleteSpeed, Completes, RestType
  <1>5. CASE /\ act = "Sending"
             /\ \E parts \in {1, 2} : Replan(parts)
             /\ SetWatchdog(FALSE)
             /\ UNCHANGED <<armVars, snapVars, actVars, hasId, leadId, idSent, inRadio,
                            readyWait, idOwed>>
    <2>1. plan \in Seq(JobStep) /\ Spaced(Len(plan))
      BY <1>1, <1>5, Zenon DEF SupInv, PlanInv, JobPlan, OutInv, CompleteSpeed, Completes, Takes
    <2>2. JobPlan(plan')
      BY <1>5, <2>1, ReplanPlan, Zenon
    <2>3. SupType'
      <3>1. ArmType' /\ SnapType' /\ ActType'
        BY <1>1, <1>5, Kept, Zenon DEF SupInv, SupType
      <3>2. JobType'
        BY <1>1, <1>5, Zenon DEF SupInv, SupType, JobType, SetWatchdog
      <3> QED BY <3>1, <3>2, Zenon DEF SupType
    <2>4. SupShape' /\ act' = act
      BY <1>1, <1>5, Zenon DEF SupInv, SupShape, actVars, armVars
    <2>5. PlanInv'
      BY <1>5, <2>2, <2>4, Zenon DEF PlanInv
    <2>6. SupInv' /\ Waiting'
      BY <1>5, <2>3, <2>4, <2>5, Zenon DEF SupInv, Waiting
    <2> QED BY <1>1, <1>2, <2>6, TakesKeeps, Zenon DEF CompleteSpeed, Completes, RestType
  <1> QED BY <1>3, <1>4, <1>5, Zenon DEF CompleteSpeed, OnSpeed

LEMMA CompleteSnapPowerOK ==
  ASSUME TypeInv, CompleteSnapPower
  PROVE  TypeInv'
  <1>1. SupInv /\ RestType /\ AnswerInv
    BY TypeParts, Zenon
  <1>2. snapPower' \in Powers
    BY <1>1, Zenon DEF CompleteSnapPower, Completes, Takes, AnswerInv
  <1>3. SupType'
    <2>1. ArmType' /\ JobType' /\ ActType'
      BY <1>1, Kept, Zenon DEF CompleteSnapPower, SupInv, SupType
    <2>2. SnapType'
      BY <1>1, <1>2, Zenon DEF CompleteSnapPower, SupInv, SupType, SnapType
    <2> QED BY <2>1, <2>2, Zenon DEF SupType
  <1>4. SupShape' /\ PlanInv'
    BY <1>1, Zenon DEF CompleteSnapPower, SupInv, SupShape, PlanInv, actVars, armVars
  <1> QED BY <1>1, <1>3, <1>4, TakesKeeps, Zenon DEF SupInv, CompleteSnapPower, Completes, RestType

\* Steps of a send or a stop are no break-in steps.
LEMMA WithoutBreakInPlan ==
  ASSUME ActType, PlanInv, act' = act, plan' \in {plan, WithoutBreakIn(plan)}
  PROVE  PlanInv' /\ (plan' # <<>> => plan # <<>> /\ Head(plan') = Head(plan))
  <1>1. CASE plan' = plan
    BY <1>1, Zenon DEF PlanInv
  <1>2. CASE plan' = WithoutBreakIn(plan)
    <2>1. CASE act = "Idle"
      BY <1>2, <2>1, Zenon DEF PlanInv, WithoutBreakIn
    <2>2. CASE act = "Arming"
      BY <1>2, <2>2, WithoutBreakInType, Zenon DEF PlanInv
    <2>3. CASE act = "Restoring"
      BY <1>2, <2>3, WithoutBreakInType, Zenon DEF PlanInv
    <2>4. ASSUME NEW S, plan \in Seq(S), \A x \in S : x.kind # "VerifyBreakIn"
          PROVE  plan' = plan
      BY <1>2, <2>4 DEF WithoutBreakIn
    <2>5. CASE act = "Sending"
      <3>1. plan \in Seq(JobStep) /\ \A x \in JobStep : x.kind # "VerifyBreakIn"
        BY <2>5 DEF PlanInv, JobPlan, JobStep, Step
      <3>2. plan' = plan
        BY <2>4, <3>1, Zenon
      <3> QED BY <2>5, <3>2, Zenon DEF PlanInv
    <2>6. CASE act = "Stopping"
      <3>1. plan \in Seq(StopStep) /\ \A x \in StopStep : x.kind # "VerifyBreakIn"
        BY <2>6, Zenon DEF PlanInv, StopStep
      <3>2. plan' = plan
        BY <2>4, <3>1, Zenon
      <3> QED BY <2>6, <3>2, Zenon DEF PlanInv
    <2> QED BY <2>1, <2>2, <2>3, <2>5, <2>6, Zenon DEF ActType
  <1> QED BY <1>1, <1>2, Zenon

LEMMA CompleteSnapBreakInOK ==
  ASSUME TypeInv, CompleteSnapBreakIn
  PROVE  TypeInv' /\ act' = act /\ (plan' # <<>> => plan # <<>> /\ Head(plan') = Head(plan))
  <1>1. SupInv /\ RestType /\ AnswerInv
    BY TypeParts, Zenon
  <1>2. snapBreakIn' \in BreakIns
    BY <1>1, Zenon DEF CompleteSnapBreakIn, Completes, Takes, AnswerInv
  <1>3. SupType' /\ act' = act
    <2>1. ArmType' /\ JobType' /\ ActType'
      BY <1>1, Kept, Zenon DEF CompleteSnapBreakIn, SupInv, SupType
    <2>2. SnapType'
      BY <1>1, <1>2, Zenon DEF CompleteSnapBreakIn, SupInv, SupType, SnapType
    <2> QED BY <2>1, <2>2, Zenon DEF SupType, CompleteSnapBreakIn, actVars
  <1>4. SupShape'
    BY <1>1, Zenon DEF CompleteSnapBreakIn, SupInv, SupShape, actVars, armVars
  <1>5. PlanInv' /\ (plan' # <<>> => plan # <<>> /\ Head(plan') = Head(plan))
    BY <1>1, <1>3, WithoutBreakInPlan, Zenon DEF CompleteSnapBreakIn, SupInv, SupType
  <1> QED BY <1>1, <1>3, <1>4, <1>5, TakesKeeps, Zenon DEF SupInv, CompleteSnapBreakIn, Completes, RestType

LEMMA CompleteVerifyOK ==
  ASSUME TypeInv, CompleteVerify
  PROVE  TypeInv' /\ (UNCHANGED <<act, plan>> \/ Waiting')
  <1>1. SupInv /\ RestType
    BY TypeParts, Zenon
  <1>2. SupInv' /\ open' \subseteq Tickets /\ (UNCHANGED <<act, plan>> \/ Waiting')
    BY <1>1, Stutters, FailOK, Zenon DEF CompleteVerify, RestType
  <1> QED BY <1>1, <1>2, TakesKeeps, Zenon DEF CompleteVerify, Completes, RestType

LEMMA CompletePowerAtMostOK ==
  ASSUME TypeInv, CompletePowerAtMost
  PROVE  TypeInv' /\ (UNCHANGED <<act, plan>> \/ Waiting')
  <1>1. SupInv /\ RestType
    BY TypeParts, Zenon
  <1>2. SupInv' /\ (UNCHANGED <<act, plan>> \/ Waiting')
    <2>1. CASE UNCHANGED supVars
      BY <1>1, <2>1, Stutters, Zenon
    <2>2. CASE BeginStop(FALSE, NoTicket, NoStep)
      BY <1>1, <2>2, BeginStopOK, Zenon DEF Waiting
    <2> QED BY <2>1, <2>2, Zenon DEF CompletePowerAtMost
  <1> QED BY <1>1, <1>2, TakesKeeps, Zenon DEF CompletePowerAtMost, Completes, RestType

LEMMA CompleteStopOK ==
  ASSUME TypeInv, CompleteStop
  PROVE  TypeInv'
  <1>1. SupInv /\ RestType
    BY TypeParts, Zenon
  <1>2. SupInv' /\ keyed' \in Int /\ keyed' >= -Margin /\ open' = open
    BY <1>1, Stutters, MarginType DEF CompleteStop, RestType
  <1> QED BY <1>1, <1>2, TakesKeeps, Zenon DEF CompleteStop, Completes, RestType

LEMMA CompleteSetOK ==
  ASSUME TypeInv, CompleteSet
  PROVE  TypeInv'
  <1>1. SupInv /\ RestType
    BY TypeParts, Zenon
  <1> QED BY <1>1, Stutters, TakesKeeps, Zenon DEF CompleteSet, Completes, RestType

LEMMA CompleteReadyOK ==
  ASSUME TypeInv, CompleteReady
  PROVE  TypeInv' /\ act' = act /\ act \in {"Sending", "Stopping"}
  <1>1. SupInv /\ RestType /\ OutInv
    BY TypeParts, Zenon
  <1>2. outstanding.kind = "WaitReady" /\ act \in {"Sending", "Stopping"} /\ act' = act
    BY <1>1, Zenon DEF CompleteReady, Completes, Takes, OutInv, SupInv, SupType, ActType, actVars
  <1>3. outstanding \in JobStep /\ outstanding \in StopStep
    BY <1>1, <1>2, Zenon DEF RestType, StepType, JobStep, StopStep
  <1>4. SupType'
    <2>1. ArmType' /\ JobType' /\ SnapType'
      BY <1>1, Kept, Zenon DEF CompleteReady, SupInv, SupType
    <2>2. ActType'
      BY <1>1, Zenon DEF CompleteReady, SupInv, SupType, ActType, actVars
    <2> QED BY <2>1, <2>2, Zenon DEF SupType
  <1>5. SupShape'
    BY <1>1, Zenon DEF CompleteReady, SupInv, SupShape, actVars, armVars
  <1>6. plan' \in {plan, <<outstanding>> \o plan}
    BY Zenon DEF CompleteReady
  <1>7. PlanInv'
    <2>1. CASE act = "Sending"
      BY <1>1, <1>2, <1>3, <1>6, <2>1, JobPlanPush, Zenon DEF SupInv, PlanInv
    <2>2. CASE act = "Stopping"
      <3>1. plan \in Seq(StopStep)
        BY <1>1, <2>2, Zenon DEF SupInv, PlanInv
      <3>2. <<outstanding>> \o plan \in Seq(StopStep)
        BY <1>3, <3>1, One, ConcatProperties, Zenon
      <3> QED BY <1>2, <1>6, <2>2, <3>1, <3>2, Zenon DEF PlanInv
    <2> QED BY <1>2, <2>1, <2>2, Zenon
  <1>8. SupInv'
    BY <1>4, <1>5, <1>7, Zenon DEF SupInv
  <1> QED BY <1>1, <1>2, <1>8, TakesKeeps, Zenon DEF CompleteReady, Completes, RestType

LEMMA CompleteSendOK ==
  ASSUME TypeInv, CompleteSend
  PROVE  TypeInv' /\ UNCHANGED <<act, plan>>
  <1>1. SupInv /\ RestType
    BY TypeParts, Zenon
  <1>2. SupType' /\ UNCHANGED <<act, plan>>
    <2>1. SnapType'
      BY <1>1, Kept, Zenon DEF CompleteSend, OnSent, SupInv, SupType
    <2>2. ActType' /\ ArmType'
      BY <1>1 DEF CompleteSend, OnSent, SupInv, SupType, ActType, ArmType, actVars
    <2>3. JobType'
      BY <1>1, Zenon DEF CompleteSend, OnSent, SupInv, SupType, JobType
    <2> QED BY <2>1, <2>2, <2>3, Zenon DEF SupType, CompleteSend, OnSent, actVars
  <1>3. SupShape' /\ PlanInv'
    BY <1>1, Zenon DEF CompleteSend, OnSent, SupInv, SupShape, PlanInv, actVars
  <1>4. keyed' \in Int /\ keyed' >= -Margin /\ open' = open
    BY <1>1, MarginType, TimeAssumption, SMTT(30) DEF CompleteSend, OnSent, CountKeyed, Max0, RestType
  <1> QED BY <1>1, <1>2, <1>3, <1>4, TakesKeeps, Zenon DEF SupInv, CompleteSend, Completes, RestType

LEMMA WireKinds == \A x \in StepType : x.kind # "None" => x # NoStep
  BY NoStepKind, Zenon

LEMMA RadioReadsOK ==
  ASSUME TypeInv, RadioReads
  PROVE  TypeInv'
  <1>1. RestType /\ AnswerInv
    BY TypeParts, Zenon
  <1>2. /\ SupInv' /\ OutInv'
        /\ UNCHANGED <<act, plan, arm, outstanding, keyed, shutting, turning, open, live>>
    BY SupStateKeeps, Zenon DEF RadioReads
  <1>3. /\ answer' \in [kind : {"None", "Failed", "Done", "Read"}, val : Int]
        /\ outstanding # NoStep
        /\ outstanding.kind = "SnapPower" => answer' \in [kind : {"Read"}, val : Powers]
        /\ outstanding.kind = "SnapBreakIn" => answer' \in [kind : {"Read"}, val : BreakIns]
    BY <1>1, NoStepKind, PowerAssumption, BreakInAssumption, SMTT(30)
    DEF RadioReads, Reads, RestType, InCw, NotCw, OnAir
  <1>4. RestType'
    BY <1>1, <1>2, <1>3, Zenon DEF RestType, RadioReads, radio
  <1>5. AnswerInv'
    BY <1>2, <1>3, Zenon DEF AnswerInv
  <1> QED BY <1>2, <1>4, <1>5, TypePartsNext, Zenon

\* What a write needs to keep the radio's settings in range.
LEMMA WriteValues ==
  ASSUME OutInv
  PROVE  /\ outstanding.kind = "SetPower" => outstanding.val \in Powers
         /\ outstanding.kind = "SetBreakIn" => outstanding.val \in BreakIns
  BY PowerAssumption, BreakInAssumption, NoStepKind, SMTT(30)
  DEF OutInv, ArmStep, JobStep, StopStep, RestoreStep, Step

LEMMA LandsOK ==
  ASSUME RestType, OutInv, Lands(outstanding)
  PROVE  /\ power' \in Powers /\ breakIn' \in BreakIns /\ air' \in Nat
         /\ owing' \in BOOLEAN /\ UNCHANGED <<orig, turned>>
  <1>1. power' \in Powers /\ breakIn' \in BreakIns /\ UNCHANGED <<orig, turned>>
    BY WriteValues, Zenon DEF Lands, RestType
  <1>2. air' \in Nat
    BY TimeAssumption DEF Lands, RestType
  <1>3. owing' \in BOOLEAN
    BY Zenon DEF Lands, RestType
  <1> QED BY <1>1, <1>2, <1>3, Zenon

\* An answer to a write, Done or Failed.
LEMMA AnsweredOK ==
  ASSUME TypeInv, UNCHANGED supState, answer' \in {Done, Failed},
         outstanding # NoStep, answer' = Done => outstanding.kind \in WriteKinds,
         power' \in Powers, breakIn' \in BreakIns, air' \in Nat, owing' \in BOOLEAN,
         UNCHANGED <<orig, turned>>
  PROVE  TypeInv'
  <1>1. RestType
    BY TypeParts, Zenon
  <1>2. /\ SupInv' /\ OutInv'
        /\ UNCHANGED <<act, plan, arm, outstanding, keyed, shutting, turning, open, live>>
    BY SupStateKeeps, Zenon
  <1>3. answer' \in [kind : {"None", "Failed", "Done", "Read"}, val : Int]
    BY DEF Done, Failed
  <1>4. RestType'
    BY <1>1, <1>2, <1>3, Zenon DEF RestType
  <1>5. AnswerInv'
    BY <1>2, Zenon DEF AnswerInv, WriteKinds
  <1> QED BY <1>2, <1>4, <1>5, TypePartsNext, Zenon

LEMMA RadioAnswersOK ==
  ASSUME TypeInv, RadioWrites \/ RadioLosesAck \/ RadioIgnores \/ RadioFails
  PROVE  TypeInv'
  <1>1. RestType /\ OutInv
    BY TypeParts, Zenon
  <1>2. LostWrites \subseteq WriteKinds /\ DeafWrites \subseteq WriteKinds
    BY FaultAssumption, Zenon
  <1>3. outstanding.kind \in WriteKinds => outstanding # NoStep
    BY NoStepKind, Zenon DEF WriteKinds
  <1>4. CASE RadioWrites
    BY <1>1, <1>3, <1>4, LandsOK, AnsweredOK, Zenon DEF RadioWrites
  <1>5. CASE RadioLosesAck
    BY <1>1, <1>2, <1>3, <1>5, LandsOK, AnsweredOK, Zenon DEF RadioLosesAck
  <1>6. CASE RadioIgnores
    BY <1>1, <1>2, <1>3, <1>6, AnsweredOK, Zenon DEF RadioIgnores, radio, RestType
  <1>7. CASE RadioFails
    BY <1>1, <1>7, AnsweredOK, Zenon DEF RadioFails, radio, RestType, Done, Failed
  <1> QED BY <1>4, <1>5, <1>6, <1>7, Zenon

LEMMA PanelPowerOK ==
  ASSUME TypeInv, PanelPower
  PROVE  TypeInv'
  <1>1. RestType /\ AnswerInv
    BY TypeParts, Zenon
  <1>2. /\ SupInv' /\ OutInv'
        /\ UNCHANGED <<act, plan, arm, outstanding, keyed, shutting, turning, open, live>>
    BY SupStateKeeps, Zenon DEF PanelPower
  <1>3. RestType'
    BY <1>1, <1>2, Zenon DEF RestType, PanelPower
  <1>4. AnswerInv'
    BY <1>1, <1>2, Zenon DEF AnswerInv, PanelPower
  <1> QED BY <1>2, <1>3, <1>4, TypePartsNext, Zenon

LEMMA TimeOK ==
  ASSUME TypeInv, Time
  PROVE  TypeInv' /\ UNCHANGED <<act, plan, arm, outstanding, answer>>
  <1>1. SupInv /\ RestType /\ OutInv /\ AnswerInv
    BY TypeParts, Zenon
  <1>2. Clock
    BY Zenon DEF Time, Tick, WatchdogPasses, IdlePasses, IdIntervalPasses, RetryPasses, ReadyRetryPasses
  <1>3. /\ overdue' \in {overdue, TRUE} /\ idle' \in {idle, TRUE} /\ idDue' \in {idDue, TRUE}
        /\ retry' = retry \/ (retry = "waiting" /\ retry' = "due")
        /\ readyWait' \in {readyWait, FALSE}
    BY ZenonT(30) DEF Time, Tick, WatchdogPasses, IdlePasses, IdIntervalPasses, RetryPasses, ReadyRetryPasses
  <1>4. keyed' \in Int /\ keyed' >= -Margin /\ air' \in Nat
    BY <1>1, MarginType, SMTT(30)
    DEF Time, Tick, WatchdogPasses, IdlePasses, IdIntervalPasses, RetryPasses, ReadyRetryPasses,
        RestType, Max0
  <1>5. UNCHANGED <<act, plan, arm, outstanding, answer>>
    BY <1>2, Zenon DEF Clock
  <1>6. SupType'
    <2>1. ArmType'
      BY <1>1, <1>2, <1>3, Zenon DEF Clock, SupInv, SupType, ArmType
    <2>2. JobType'
      BY <1>1, <1>2, <1>3, Zenon DEF Clock, SupInv, SupType, JobType
    <2>3. ActType'
      BY <1>1, <1>2, <1>3, Zenon DEF Clock, SupInv, SupType, ActType
    <2>4. SnapType'
      BY <1>1, <1>2, Kept, Zenon DEF Clock, SupInv, SupType
    <2> QED BY <2>1, <2>2, <2>3, <2>4, Zenon DEF SupType
  <1>7. SupShape'
    BY <1>1, <1>2, <1>3, Zenon DEF Clock, SupInv, SupShape
  <1>8. PlanInv'
    BY <1>1, <1>5, Zenon DEF SupInv, PlanInv
  <1>9. OutInv' /\ AnswerInv'
    BY <1>1, <1>5, OutKept, Zenon DEF AnswerInv
  <1>10. RestType'
    BY <1>1, <1>2, <1>4, Zenon DEF RestType, Clock
  <1> QED BY <1>5, <1>6, <1>7, <1>8, <1>9, <1>10, TypePartsNext, Zenon DEF SupInv

LEMMA StutterOK ==
  ASSUME TypeInv, UNCHANGED vars
  PROVE  TypeInv'
  <1>1. UNCHANGED supState /\ UNCHANGED <<answer, radio>>
    BY Zenon DEF vars, supState
  <1>2. RestType /\ AnswerInv
    BY TypeParts, Zenon
  <1>3. /\ SupInv' /\ OutInv'
        /\ UNCHANGED <<act, plan, arm, outstanding, keyed, shutting, turning, open, live>>
    BY <1>1, SupStateKeeps, Zenon
  <1>4. RestType' /\ AnswerInv'
    BY <1>1, <1>2, <1>3, Zenon DEF RestType, AnswerInv, radio
  <1> QED BY <1>3, <1>4, TypePartsNext, Zenon

LEMMA InitOK == Init => TypeInv
  <1> SUFFICES ASSUME Init PROVE TypeInv
    OBVIOUS
  <1>1. SupType
    BY ZenonT(30) DEF Init, SupType, ArmType, JobType, ActType, SnapType
  <1>2. SupShape /\ PlanInv
    BY Zenon DEF Init, SupShape, PlanInv
  <1>3. OutInv /\ AnswerInv
    BY OutNone, NoStepKind, Zenon DEF Init, AnswerInv
  <1>4. RestType
    <2>1. orig \in [power : Powers, breakIn : BreakIns]
      BY Zenon DEF Init
    <2>2. outstanding \in StepType /\ answer \in [kind : {"None", "Failed", "Done", "Read"}, val : Int]
      BY NoStepKind, NoAnswerType, Zenon DEF Init
    <2>3. keyed \in Int /\ keyed >= -Margin
      BY MarginType DEF Init
    <2>4. open \subseteq Tickets /\ live \subseteq Jobs
      BY Zenon DEF Init
    <2> QED BY <2>1, <2>2, <2>3, <2>4, ZenonT(30) DEF Init, RestType
  <1> QED BY <1>1, <1>2, <1>3, <1>4, TypeParts, Zenon DEF SupInv

LEMMA StepOK == TypeInv /\ [Next]_vars => TypeInv'
  <1> SUFFICES ASSUME TypeInv, [Next]_vars PROVE TypeInv'
    OBVIOUS
  <1>1. CASE Requests
    BY <1>1, ArmOK, SendOK, AbortOK, DisarmOK, DetachedOK, ShutdownOK, Zenon DEF Requests
  <1>2. CASE NextAction \/ Turns
    BY <1>2, NextActionOK, TurnFinishOK, TurnWaitOK, TurnWaitedOK, TurnIssueOK, Zenon DEF Turns
  <1>3. CASE Complete
    BY <1>3, Zenon, CompleteFailedOK, CompleteStatusOK, CompleteSpeedOK, CompleteSnapPowerOK,
       CompleteSnapBreakInOK, CompleteVerifyOK, CompletePowerAtMostOK, CompleteStopOK,
       CompleteSetOK, CompleteReadyOK, CompleteSendOK DEF Complete
  <1>4. CASE Radio
    BY <1>4, RadioReadsOK, RadioAnswersOK, PanelPowerOK, Zenon DEF Radio
  <1>5. CASE Time
    BY <1>5, TimeOK, Zenon
  <1>6. CASE UNCHANGED vars
    BY <1>6, StutterOK, Zenon
  <1> QED BY <1>1, <1>2, <1>3, <1>4, <1>5, <1>6, Zenon DEF Next

\* The supervisor's and the radio's state stay within their types, and what
\* Activity, Arm and the plan hold stays consistent, through every request,
\* answer, failure and timer of cw.rs.
THEOREM TypeCorrect == Spec => []TypeOK
  <1>1. TypeInv => TypeOK
    BY Zenon DEF TypeInv
  <1> QED BY InitOK, StepOK, <1>1, PTL DEF Spec


-----------------------------------------------------------------------------
LEMMA AirKept ==
  ASSUME TypeInv, AirInv, UNCHANGED <<outstanding, keyed, answer, air>>,
         UNCHANGED <<act, plan>> \/ Waiting'
  PROVE  AirInv'
  <1>1. CASE act = "Restoring"
    BY <1>1, Zenon DEF AirInv, Waiting
  <1>2. CASE act # "Restoring"
    BY <1>2, RaisesInRestore, Zenon DEF AirInv, Waiting
  <1> QED BY <1>1, <1>2, Zenon

LEMMA RequestAir ==
  ASSUME TypeInv, AirInv, Requests
  PROVE  AirInv'
  <1>1. SupInv
    BY TypeParts, Zenon
  <1>2. UNCHANGED <<outstanding, keyed, answer, air>>
    BY Zenon DEF Requests, Arm, Send, Abort, Disarm, Detached, Shutdown, Request, radio
  <1>3. UNCHANGED <<act, plan>> \/ Waiting'
    <2>1. ASSUME NEW c \in Consoles, Arm(c) \/ Send(c) PROVE Waiting'
      BY <2>1, Zenon DEF Arm, Send, Waiting
    <2>2. CASE Abort
      BY <2>2, Zenon DEF Abort, BeginStop, Waiting
    <2>3. ASSUME NEW t \in Tickets \cup {NoTicket}, EndArm(t)
          PROVE  UNCHANGED <<act, plan>> \/ Waiting'
      BY <1>1, <2>3, EndArmOK, Zenon DEF Waiting
    <2>4. act = "Arming" /\ RefuseArm => Waiting'
      BY <1>1, RefuseArmOK, Zenon
    <2>5. ASSUME NEW c \in Consoles, Disarm(c) PROVE UNCHANGED <<act, plan>> \/ Waiting'
      BY <2>3, <2>5, Zenon DEF Disarm
    <2>6. ASSUME NEW c \in Consoles, Detached(c) PROVE UNCHANGED <<act, plan>> \/ Waiting'
      BY <2>3, <2>4, <2>6, Zenon DEF Detached
    <2>7. CASE Shutdown
      BY <1>1, <2>3, <2>4, <2>7, Stutters, Zenon DEF Shutdown
    <2> QED BY <2>1, <2>2, <2>5, <2>6, <2>7, Zenon DEF Requests
  <1> QED BY <1>2, <1>3, AirKept, Zenon

LEMMA TurnAir ==
  ASSUME TypeInv, AirInv, NextAction \/ Turns
  PROVE  AirInv'
  <1>1. SupInv /\ RestType /\ AnswerInv
    BY TypeParts, Zenon
  <1>2. CASE NextAction
    <2>1. UNCHANGED <<act, plan>> \/ Waiting'
      <3>1. CASE BeginStop(FALSE, NoTicket, NoStep)
        BY <1>1, <3>1, BeginStopOK, ZenonT(30) DEF Waiting
      <3>2. CASE StartRestore(NoTicket)
        BY <1>1, <3>2, StartRestoreOK, Zenon DEF Waiting
      <3>3. CASE UNCHANGED supVars
        BY <1>1, <3>3, Stutters, Zenon
      <3> QED BY <1>2, <3>1, <3>2, <3>3, Zenon DEF NextAction, CheckTimers
    <2> QED BY <1>2, <2>1, AirKept, Zenon DEF NextAction, Call, radio
  <1>3. CASE TurnFinish
    BY <1>3, TurnFinishOK, AirKept, Zenon DEF TurnFinish, Call, radio
  <1>4. CASE TurnWait
    BY <1>1, <1>4, Stutters, AirKept, Zenon DEF TurnWait, Call, radio
  <1>5. CASE TurnWaited
    <2>1. UNCHANGED <<act, outstanding, keyed, answer, air>>
      BY <1>5, Zenon DEF TurnWaited, Call, radio, actVars
    <2>2. outstanding = NoStep /\ outstanding.kind = "None"
      BY <1>1, <1>5, NoStepKind, Zenon DEF TurnWaited, RestType
    <2>3. act = "Restoring" => air = 0
      <3>1. act = "Restoring" => Head(plan) \in RestoreStep
        BY <1>1, <1>5 DEF TurnWaited, SupInv, PlanInv
      <3>2. act = "Restoring" => Head(plan).val = Margin
        <4>1. Head(plan).kind = "WaitKeyed"
          BY <1>5, Zenon DEF TurnWaited
        <4>2. \A s \in RestoreStep : s.kind = "WaitKeyed" => s.val = Margin
          BY DEF RestoreStep, Step
        <4> QED BY <3>1, <4>1, <4>2, Zenon
      <3>3. act = "Restoring" => keyed <= 0
        BY <1>1, <1>5, <3>2, MarginType DEF TurnWaited, Waits, RestType
      <3> QED BY <1>1, <2>2, <3>3 DEF AirInv, Max0, RestType
    <2> QED BY <2>1, <2>2, <2>3, Zenon DEF AirInv
  <1>6. CASE TurnIssue
    <2>1. UNCHANGED <<act, keyed, answer, air>> /\ outstanding' = Head(plan) /\ plan' = Tail(plan)
      BY <1>6, Zenon DEF TurnIssue, Call, radio
    <2>2. outstanding = NoStep /\ outstanding.kind = "None" /\ answer = NoAnswer
      BY <1>1, <1>6, NoStepKind, Zenon DEF TurnIssue, RestType, AnswerInv
    <2>3. act = "Restoring" => air = 0
      BY <1>6, Zenon DEF TurnIssue, AirInv
    <2> QED BY <2>1, <2>2, <2>3, AnswerKinds, Zenon DEF AirInv
  <1> QED BY <1>2, <1>3, <1>4, <1>5, <1>6, Zenon DEF Turns

\* An answer that is taken, other than a chunk's or a stop's.
LEMMA TakesAir ==
  ASSUME TypeInv, AirInv, NEW kinds, Takes(kinds), answer = Failed \/ outstanding.kind # "Send",
         keyed' = keyed,
         \/ UNCHANGED <<act, plan>> \/ Waiting'
         \/ act' = act /\ (plan' # <<>> => plan # <<>> /\ Head(plan') = Head(plan))
  PROVE  AirInv'
  <1>1. outstanding' = NoStep /\ outstanding'.kind = "None" /\ UNCHANGED air
    BY NoStepKind, Zenon DEF Takes, radio
  <1>2. air <= Max0(keyed)
    <2>1. ~(outstanding.kind = "Send" /\ answer = Done)
      BY AnswerKinds, Zenon
    <2>2. RestType
      BY TypeParts, Zenon
    <2> QED BY <2>1, <2>2, SMTT(30) DEF AirInv, Max0, RestType
  <1>3. RestType
    BY TypeParts, Zenon
  <1>4. (act = "Restoring" /\ plan # <<>> /\ Head(plan).kind # "WaitKeyed" => air = 0)'
    BY <1>1, Zenon DEF AirInv, Waiting
  <1> QED BY <1>1, <1>2, <1>3, <1>4, SMTT(30) DEF AirInv, Max0, RestType

\* Nothing outstanding, and the estimate covers what is keyed.
LEMMA CoveredAir ==
  ASSUME AirInv, RestType', UNCHANGED <<act, plan, air>>, outstanding'.kind = "None",
         air' <= Max0(keyed')
  PROVE  AirInv'
  <1>1. (air <= Max0(keyed) + (IF outstanding.kind = "Send" /\ answer = Done THEN ChunkTime ELSE 0))'
    <2>1. Max0(keyed') \in Int
      BY DEF Max0, RestType
    <2>2. ~(outstanding'.kind = "Send" /\ answer' = Done)
      OBVIOUS
    <2> QED BY <2>1, <2>2
  <1>2. (act = "Restoring" /\ plan # <<>> /\ Head(plan).kind # "WaitKeyed" => air = 0)'
    BY Zenon DEF AirInv
  <1> QED BY <1>1, <1>2, Zenon DEF AirInv

LEMMA CompleteAir ==
  ASSUME TypeInv, AirInv, Complete
  PROVE  AirInv'
  <1>1. SupInv /\ RestType
    BY TypeParts, Zenon
  <1>2. CASE CompleteFailed
    BY <1>2, CompleteFailedOK, TakesAir, Zenon DEF CompleteFailed
  <1>3. CASE CompleteStatus
    BY <1>3, CompleteStatusOK, TakesAir, Zenon DEF CompleteStatus, Completes, Takes
  <1>4. CASE CompleteSpeed
    BY <1>4, CompleteSpeedOK, TakesAir, Zenon DEF CompleteSpeed, Completes, Takes
  <1>5. CASE CompleteSnapPower
    BY <1>5, TakesAir, Zenon DEF CompleteSnapPower, Completes, Takes, actVars
  <1>6. CASE CompleteSnapBreakIn
    BY <1>6, CompleteSnapBreakInOK, TakesAir, Zenon DEF CompleteSnapBreakIn, Completes, Takes
  <1>7. CASE CompleteVerify
    BY <1>7, CompleteVerifyOK, TakesAir, Zenon DEF CompleteVerify, Completes, Takes
  <1>8. CASE CompletePowerAtMost
    BY <1>8, CompletePowerAtMostOK, TakesAir, Zenon DEF CompletePowerAtMost, Completes, Takes
  <1>9. CASE CompleteSet
    BY <1>1, <1>9, Stutters, TakesAir, Zenon DEF CompleteSet, Completes, Takes
  <1>10. CASE CompleteReady
    BY <1>10, CompleteReadyOK, TakesAir, Zenon DEF CompleteReady, Completes, Takes, Waiting
  <1>11. CASE CompleteStop
    <2>1. UNCHANGED <<act, plan, air>> /\ outstanding' = NoStep /\ outstanding'.kind = "None"
      BY <1>1, <1>11, Stutters, NoStepKind, Zenon DEF CompleteStop, Completes, Takes, radio
    <2>2. outstanding.kind = "Stop" /\ answer # NoAnswer /\ answer # Failed
      BY <1>11, Zenon DEF CompleteStop, Completes, Takes
    <2>3. CASE DrainOnly
      BY <1>11, <2>1, <2>2, <2>3, Zenon DEF CompleteStop, AirInv
    <2>4. CASE ~DrainOnly
      <3>1. air = 0
        BY <2>2, <2>4, Zenon DEF AirInv
      <3>2. air' <= Max0(keyed')
        BY <1>11, <2>1, <2>4, <3>1, MarginType DEF CompleteStop, Max0
      <3>3. RestType'
        BY CompleteStopOK, <1>11, TypePartsNext, Zenon
      <3> QED BY <2>1, <3>2, <3>3, CoveredAir, Zenon
    <2> QED BY <2>3, <2>4, Zenon
  <1>12. CASE CompleteSend
    <2>1. UNCHANGED <<act, plan, air>> /\ outstanding' = NoStep /\ outstanding'.kind = "None"
      BY <1>12, CompleteSendOK, NoStepKind, Zenon DEF CompleteSend, Completes, Takes, radio
    <2>2. air' <= Max0(keyed')
      <3>1. keyed' = Max0(keyed) + ChunkTime
        BY <1>12, Zenon DEF CompleteSend, OnSent, CountKeyed
      <3>2. Max0(keyed) \in Nat /\ air \in Int /\ ChunkTime \in Nat
        BY <1>1, TimeAssumption DEF Max0, RestType
      <3>3. air <= Max0(keyed) + ChunkTime
        <4>1. CASE outstanding.kind = "Send" /\ answer = Done
          BY <4>1, Zenon DEF AirInv
        <4>2. CASE ~(outstanding.kind = "Send" /\ answer = Done)
          BY <3>2, <4>2 DEF AirInv
        <4> QED BY <4>1, <4>2, Zenon
      <3>4. keyed' \in Nat /\ Max0(keyed') = keyed'
        BY <3>1, <3>2 DEF Max0
      <3> QED BY <2>1, <3>1, <3>3, <3>4, Zenon
    <2>3. RestType'
      BY CompleteSendOK, <1>12, TypePartsNext, Zenon
    <2> QED BY <2>1, <2>2, <2>3, CoveredAir, Zenon
  <1> QED BY <1>2, <1>3, <1>4, <1>5, <1>6, <1>7, <1>8, <1>9, <1>10, <1>11, <1>12, Zenon DEF Complete

LEMMA RadioAir ==
  ASSUME TypeInv, AirInv, "Send" \notin LostWrites, "Stop" \notin DeafWrites, Radio
  PROVE  AirInv'
  <1>1. RestType /\ OutInv
    BY TypeParts, Zenon
  <1>2. UNCHANGED <<act, plan, outstanding, keyed>>
    BY SupStateKeeps, ZenonT(30) DEF Radio, RadioReads, RadioWrites, RadioLosesAck, RadioIgnores, RadioFails,
       PanelPower, supState, supVars, actVars
  <1>3. CASE RadioReads
    BY <1>1, <1>2, <1>3, AnswerKinds, ZenonT(30) DEF RadioReads, Reads, AirInv, radio, Max0, RestType, Done
  <1>4. CASE RadioFails \/ PanelPower
    BY <1>1, <1>2, <1>4, AnswerKinds, Zenon DEF RadioFails, PanelPower, AirInv, radio, Max0, RestType
  <1>5. CASE RadioIgnores
    BY <1>1, <1>2, <1>5, AnswerKinds, TimeAssumption, SMTT(30) DEF RadioIgnores, AirInv, radio, Max0, RestType
  <1>6. CASE RadioLosesAck
    <2>1. air' = air \/ air' = 0
      BY <1>6, Zenon DEF RadioLosesAck, Lands
    <2> QED BY <1>1, <1>2, <1>6, <2>1, AnswerKinds, SMTT(30) DEF RadioLosesAck, AirInv, Max0, RestType
  <1>7. CASE RadioWrites
    <2>1. answer = NoAnswer /\ answer' = Done
      BY <1>7, Zenon DEF RadioWrites
    <2>2. CASE outstanding.kind = "Send"
      <3>1. act # "Restoring"
        BY <1>1, <2>2, NoStepKind, ZenonT(30) DEF OutInv, RestoreStep, Step
      <3>2. air' <= air + ChunkTime
        BY <1>1, <1>7, <2>2, TimeAssumption, SMTT(30) DEF RadioWrites, Lands, RestType
      <3>3. air <= Max0(keyed)
        BY <1>1, <2>1, AnswerKinds DEF AirInv, Max0, RestType
      <3>4. air' <= Max0(keyed') + ChunkTime
        <4>1. air' \in Nat
          BY <1>1, <1>7, <2>2, TimeAssumption DEF RadioWrites, Lands, RestType
        <4> QED BY <1>1, <1>2, <3>2, <3>3, <4>1, TimeAssumption DEF Max0, RestType
      <3> QED BY <1>2, <2>1, <2>2, <3>1, <3>4, Zenon DEF AirInv
    <2>3. CASE outstanding.kind # "Send"
      <3>1. air' = air \/ air' = 0
        BY <1>7, <2>3, Zenon DEF RadioWrites, Lands
      <3>2. outstanding.kind = "Stop" /\ ~DrainOnly => air' = 0
        BY <1>7, Zenon DEF RadioWrites, Lands
      <3> QED BY <1>1, <1>2, <2>1, <2>3, <3>1, <3>2, AnswerKinds, SMTT(30) DEF AirInv, Max0, RestType
    <2> QED BY <2>2, <2>3, Zenon
  <1> QED BY <1>3, <1>4, <1>5, <1>6, <1>7, Zenon DEF Radio

LEMMA TimeAir ==
  ASSUME TypeInv, AirInv, Time
  PROVE  AirInv'
  <1>1. RestType
    BY TypeParts, Zenon
  <1>2. UNCHANGED <<act, plan, outstanding, answer>>
    BY TimeOK, Zenon
  <1>3. CASE Tick
    BY <1>1, <1>2, <1>3, MarginType, TimeAssumption, SMTT(30) DEF Tick, AirInv, Max0, RestType
  <1>4. CASE ~Tick
    <2>1. UNCHANGED <<keyed, air>>
      BY <1>4, Zenon DEF Time, WatchdogPasses, IdlePasses, IdIntervalPasses, RetryPasses, ReadyRetryPasses
    <2> QED BY <1>2, <2>1, AirKept, Zenon
  <1> QED BY <1>3, <1>4, Zenon

LEMMA AirInitOK == Init => AirInv
  <1> SUFFICES ASSUME Init PROVE AirInv
    OBVIOUS
  <1>1. air = 0 /\ plan = <<>> /\ outstanding.kind = "None" /\ keyed \in Int
    BY NoStepKind, MarginType, Zenon DEF Init
  <1> QED BY <1>1 DEF AirInv, Max0

LEMMA AirStepOK ==
  ASSUME "Send" \notin LostWrites, "Stop" \notin DeafWrites
  PROVE  TypeInv /\ AirInv /\ [Next]_vars => AirInv'
  <1> SUFFICES ASSUME TypeInv, AirInv, [Next]_vars PROVE AirInv'
    OBVIOUS
  <1>1. CASE UNCHANGED vars
    BY <1>1, AirKept, Zenon DEF vars, supVars, actVars, radio
  <1> QED BY <1>1, RequestAir, TurnAir, CompleteAir, RadioAir, TimeAir, Zenon DEF Next

\* plan_restore never raises the power under text: with every console, job,
\* plan length and margin, as long as a chunk reported failed was not keyed and
\* a stop reported done was obeyed.  The first is needed because fail does
\* not count a chunk that failed.
THEOREM RestoreWaits ==
  ASSUME "Send" \notin LostWrites, "Stop" \notin DeafWrites
  PROVE  Spec => []NeverRaisedUnderText
  <1>1. Init => TypeInv /\ AirInv
    BY InitOK, AirInitOK, Zenon
  <1>2. TypeInv /\ AirInv /\ [Next]_vars => (TypeInv /\ AirInv)'
    BY StepOK, AirStepOK, Zenon
  <1>3. TypeInv /\ AirInv => NeverRaisedUnderText
    BY RaisesInRestore, Zenon DEF AirInv, NeverRaisedUnderText
  <1> QED BY <1>1, <1>2, <1>3, PTL DEF Spec
=============================================================================
