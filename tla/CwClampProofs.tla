-------------------------- MODULE CwClampProofs --------------------------
(***************************************************************************)
(* An arm clamps the radio and its end puts the operator's settings back:  *)
(* the clamp holds for as long as a console is armed, the settings are the *)
(* operator's whenever the supervisor lets external PTT through, and       *)
(* everyone who waits for it is known to it.                               *)
(***************************************************************************)
EXTENDS CwSupervisorProofs

Snaps == {"SnapPower", "SnapBreakIn"}
Sets == {"SetPower", "SetBreakIn"}

Has(p, k) == \E i \in 1..Len(p) : p[i].kind = k

\* Every l in the plan comes after a k.
Before(p, k, l) ==
    \A i \in 1..Len(p) : p[i].kind = l => \E j \in 1..Len(p) : j < i /\ p[j].kind = k

\* The order of an arm's steps: a setting is snapshot before it is written,
\* and the break-in is set in the last two steps.
ArmOrder(p) ==
    /\ \A i, j \in 1..Len(p) : p[i].kind \in Sets /\ p[j].kind \in Snaps => j < i
    /\ \A i \in 1..Len(p) : p[i].kind = "VerifyBreakIn" => i = Len(p)
    /\ \A i \in 1..Len(p) :
          p[i].kind = "VerifyPower" /\ p[Len(p)].kind = "VerifyBreakIn" => i <= Len(p) - 2

\* What the steps of an arm leave behind: nothing is written that was not
\* snapshot first, what is written counts as changed, and a snapshot read that
\* outlived its arm comes back before anything is written.
ArmInv ==
    /\ act = "Arming" =>
          /\ ArmOrder(plan)
          /\ Before(plan, "SnapPower", "SetPower") \/ outstanding.kind = "SnapPower"
             \/ snapPower # NoValue
          /\ Before(plan, "SnapBreakIn", "SetBreakIn") \/ outstanding.kind = "SnapBreakIn"
             \/ snapBreakIn # NoValue
          /\ powerChanged \/ breakInChanged => \A i \in 1..Len(plan) : plan[i].kind \notin Snaps
    /\ act = "Restoring" =>
          \A i \in 1..Len(plan) : /\ plan[i].kind = "SetPower" => powerChanged
                                  /\ plan[i].kind = "SetBreakIn" => breakInChanged
    /\ arm # NoOne => outstanding \in JobStep \cup StopStep \cup {NoStep}
    /\ outstanding.kind = "PowerAtMost" => act \in {"Sending", "Stopping"}
    /\ outstanding.kind \in Snaps => ~powerChanged /\ ~breakInChanged /\ act # "Restoring"
    /\ outstanding.kind = "SetPower" => powerChanged
    /\ outstanding.kind = "SetBreakIn" => breakInChanged
    /\ act = "Idle" /\ arm = NoOne => ~powerChanged /\ ~breakInChanged
    /\ powerChanged => snapPower # NoValue
    /\ breakInChanged => snapBreakIn # NoValue

\* An answer is what its kind says.
SaysInv ==
    /\ answer \in {NoAnswer, Failed, Done} \cup [kind : {"Read"}, val : Int]
    /\ answer = Done => outstanding.kind \in WriteKinds
    /\ answer.kind = "Read" => outstanding.kind \notin WriteKinds

\* The power: the operator's until it is changed, the clamp from the moment an
\* arm has read it back, and the operator's again once a restore has.
PowerInv ==
    ~turned =>
    /\ answer.kind = "Read" /\ outstanding.kind \in {"SnapPower", "VerifyPower", "PowerAtMost"} =>
          answer.val = power
    /\ ~powerChanged => power = orig.power
    /\ snapPower # NoValue => snapPower = orig.power
    /\ act = "Arming" =>
          Has(plan, "VerifyPower") \/ outstanding.kind = "VerifyPower" \/ power = LowPower
    /\ arm # NoOne => power = LowPower
    /\ act = "Restoring" =>
          /\ \A i \in 1..Len(plan) :
                plan[i].kind \in {"SetPower", "VerifyPower"} => plan[i].val = orig.power
          /\ \/ ~powerChanged \/ retry # "none" \/ Has(plan, "VerifyPower")
             \/ outstanding = Step("VerifyPower", orig.power)
             \/ power = orig.power /\ (outstanding.kind = "SetPower" => outstanding.val = orig.power)

\* The same for the break-in, of an arm that needs it.
BreakInInv ==
    /\ answer.kind = "Read" /\ outstanding.kind \in {"SnapBreakIn", "VerifyBreakIn"} =>
          answer.val = breakIn
    /\ ~breakInChanged => breakIn = orig.breakIn
    /\ snapBreakIn # NoValue => snapBreakIn = orig.breakIn
    /\ act = "Arming" /\ NeedsBreakIn =>
          Has(plan, "VerifyBreakIn") \/ outstanding.kind = "VerifyBreakIn" \/ breakIn = BreakInWanted
    /\ arm # NoOne /\ NeedsBreakIn => breakIn = BreakInWanted
    /\ act = "Restoring" =>
          /\ \A i \in 1..Len(plan) :
                plan[i].kind \in {"SetBreakIn", "VerifyBreakIn"} => plan[i].val = orig.breakIn
          /\ \/ ~breakInChanged \/ retry # "none" \/ Has(plan, "VerifyBreakIn")
             \/ outstanding = Step("VerifyBreakIn", orig.breakIn)
             \/ breakIn = orig.breakIn /\ (outstanding.kind = "SetBreakIn" => outstanding.val = orig.breakIn)

SettingInv == ArmInv /\ SaysInv /\ PowerInv /\ BreakInInv

-----------------------------------------------------------------------------
(* The plans of an arm and of a restore.                                   *)

\* Two steps, or none.
LEMMA Couple ==
  ASSUME NEW S, NEW a \in S, NEW b \in S, NEW yes \in BOOLEAN
  PROVE  LET s == IF yes THEN <<a, b>> ELSE <<>>
         IN  /\ s \in Seq(S) /\ Len(s) = (IF yes THEN 2 ELSE 0)
             /\ yes => s[1] = a /\ s[2] = b
  OBVIOUS

LEMMA ArmPlanOrder ==
  /\ ArmOrder(ArmPlan)
  /\ Before(ArmPlan, "SnapPower", "SetPower") /\ Before(ArmPlan, "SnapBreakIn", "SetBreakIn")
  /\ Has(ArmPlan, "VerifyPower") /\ (NeedsBreakIn => Has(ArmPlan, "VerifyBreakIn"))
  <1> DEFINE s1 == Step("Status", 0)
             s2 == Step("SnapPower", 0)
             s3 == Step("SnapBreakIn", 0)
             s4 == Step("SetPower", LowPower)
             s5 == Step("VerifyPower", LowPower)
             s6 == Step("SetBreakIn", BreakInWanted)
             s7 == Step("VerifyBreakIn", BreakInWanted)
             A == <<s1, s2>>
             B == IF NeedsBreakIn THEN <<s3>> ELSE <<>>
             C == <<s4, s5>>
             D == IF NeedsBreakIn THEN <<s6, s7>> ELSE <<>>
             AB == A \o B
             ABC == AB \o C
             p == ArmPlan
  <1>1. /\ s1 \in ArmStep /\ s2 \in ArmStep /\ s3 \in ArmStep /\ s4 \in ArmStep
        /\ s5 \in ArmStep /\ s6 \in ArmStep /\ s7 \in ArmStep
    BY PowerAssumption, BreakInAssumption DEF ArmStep, Step
  <1>2. /\ s1.kind = "Status" /\ s2.kind = "SnapPower" /\ s3.kind = "SnapBreakIn"
        /\ s4.kind = "SetPower" /\ s5.kind = "VerifyPower"
        /\ s6.kind = "SetBreakIn" /\ s7.kind = "VerifyBreakIn"
    BY Zenon DEF Step
  <1>3. p = ABC \o D
    BY Zenon DEF ArmPlan
  <1> HIDE DEF s1, s2, s3, s4, s5, s6, s7, p
  <1>4. /\ A \in Seq(ArmStep) /\ Len(A) = 2 /\ A[1] = s1 /\ A[2] = s2
        /\ C \in Seq(ArmStep) /\ Len(C) = 2 /\ C[1] = s4 /\ C[2] = s5
    BY <1>1
  <1>5. D \in Seq(ArmStep) /\ Len(D) = (IF NeedsBreakIn THEN 2 ELSE 0) /\ (NeedsBreakIn => D[1] = s6 /\ D[2] = s7)
    BY <1>1, KeyerAssumption, Couple, Zenon
  <1>6. B \in Seq(ArmStep) /\ Len(B) = (IF NeedsBreakIn THEN 1 ELSE 0) /\ (NeedsBreakIn => B[1] = s3)
    BY <1>1, KeyerAssumption
  <1> HIDE DEF A, B, C, D
  <1>7. /\ AB \in Seq(ArmStep) /\ Len(AB) = Len(A) + Len(B)
        /\ \A i \in 1..Len(A) : AB[i] = A[i]
        /\ \A i \in 1..Len(B) : AB[Len(A) + i] = B[i]
    <2>1. A \in Seq(ArmStep) /\ B \in Seq(ArmStep)
      BY <1>4, <1>6, Zenon
    <2> QED BY <2>1
  <1> HIDE DEF AB
  <1>8. /\ ABC \in Seq(ArmStep) /\ Len(ABC) = Len(AB) + Len(C)
        /\ \A i \in 1..Len(AB) : ABC[i] = AB[i]
        /\ \A i \in 1..Len(C) : ABC[Len(AB) + i] = C[i]
    <2>1. AB \in Seq(ArmStep) /\ C \in Seq(ArmStep)
      BY <1>4, <1>7, Zenon
    <2> QED BY <2>1
  <1> HIDE DEF ABC
  <1>9. /\ p \in Seq(ArmStep) /\ Len(p) = Len(ABC) + Len(D)
        /\ \A i \in 1..Len(ABC) : p[i] = ABC[i]
        /\ \A i \in 1..Len(D) : p[Len(ABC) + i] = D[i]
    <2>1. ABC \in Seq(ArmStep) /\ D \in Seq(ArmStep)
      BY <1>5, <1>8, Zenon
    <2> QED BY <1>3, <2>1
  <1>10. CASE NeedsBreakIn
    <2>1. Len(A) = 2 /\ Len(B) = 1 /\ Len(C) = 2 /\ Len(D) = 2 /\ Len(AB) = 3 /\ Len(ABC) = 5 /\ Len(p) = 7
      BY <1>4, <1>5, <1>6, <1>7, <1>8, <1>9, <1>10
    <2>2. AB[1] = s1 /\ AB[2] = s2 /\ AB[3] = s3
      BY <1>4, <1>6, <1>7, <1>10, <2>1
    <2>3. ABC[1] = s1 /\ ABC[2] = s2 /\ ABC[3] = s3 /\ ABC[4] = s4 /\ ABC[5] = s5
      BY <1>4, <1>8, <2>1, <2>2
    <2>4. p[1] = s1 /\ p[2] = s2 /\ p[3] = s3 /\ p[4] = s4 /\ p[5] = s5 /\ p[6] = s6 /\ p[7] = s7
      BY <1>5, <1>9, <1>10, <2>1, <2>3
    <2>5. 1..Len(p) = {1, 2, 3, 4, 5, 6, 7}
      BY <2>1
    <2> QED BY <1>2, <2>1, <2>4, <2>5 DEF ArmOrder, Before, Has, Sets, Snaps, p
  <1>11. CASE ~NeedsBreakIn
    <2>1. Len(A) = 2 /\ Len(B) = 0 /\ Len(C) = 2 /\ Len(D) = 0 /\ Len(AB) = 2 /\ Len(ABC) = 4 /\ Len(p) = 4
      BY <1>4, <1>5, <1>6, <1>7, <1>8, <1>9, <1>11
    <2>2. AB[1] = s1 /\ AB[2] = s2
      BY <1>4, <1>7, <2>1
    <2>3. ABC[1] = s1 /\ ABC[2] = s2 /\ ABC[3] = s4 /\ ABC[4] = s5
      BY <1>4, <1>8, <2>1, <2>2
    <2>4. p[1] = s1 /\ p[2] = s2 /\ p[3] = s4 /\ p[4] = s5
      BY <1>9, <2>1, <2>3
    <2>5. 1..Len(p) = {1, 2, 3, 4}
      BY <2>1
    <2> QED BY <1>2, <1>11, <2>1, <2>4, <2>5 DEF ArmOrder, Before, Has, Sets, Snaps, p
  <1> QED BY <1>10, <1>11, Zenon

LEMMA TailAt ==
  ASSUME NEW S, NEW p \in Seq(S), p # <<>>
  PROVE  /\ Len(p) \in Nat /\ Len(p) >= 1 /\ Len(Tail(p)) = Len(p) - 1 /\ Head(p) = p[1]
         /\ \A i \in 1..Len(Tail(p)) : Tail(p)[i] = p[i + 1] /\ i + 1 \in 1..Len(p)
  OBVIOUS

\* A step found in the plan is its head or is found in the rest.
LEMMA HasTail ==
  ASSUME NEW S, NEW p \in Seq(S), p # <<>>, NEW k
  PROVE  Has(p, k) <=> Head(p).kind = k \/ Has(Tail(p), k)
  <1> DEFINE z == Tail(p)
  <1>1. /\ Len(p) \in Nat /\ Len(p) >= 1 /\ Len(z) = Len(p) - 1 /\ Head(p) = p[1]
        /\ \A i \in 1..Len(z) : z[i] = p[i + 1] /\ i + 1 \in 1..Len(p)
    BY TailAt, Zenon
  <1> HIDE DEF z
  <1>2. \A i \in 1..Len(p) : i = 1 \/ (i - 1 \in 1..Len(z) /\ p[i] = z[i - 1])
    BY <1>1
  <1>3. 1 \in 1..Len(p)
    BY <1>1
  <1> QED BY <1>1, <1>2, <1>3 DEF Has, z

LEMMA BeforeTail ==
  ASSUME NEW S, NEW p \in Seq(S), p # <<>>, NEW k, NEW l, Before(p, k, l), Head(p).kind # k
  PROVE  Before(Tail(p), k, l)
  <1> DEFINE z == Tail(p)
  <1>1. /\ Len(p) \in Nat /\ Len(p) >= 1 /\ Len(z) = Len(p) - 1 /\ Head(p) = p[1]
        /\ \A i \in 1..Len(z) : z[i] = p[i + 1] /\ i + 1 \in 1..Len(p)
    BY TailAt, Zenon
  <1> HIDE DEF z
  <1>2. ASSUME NEW i \in 1..Len(z), z[i].kind = l
        PROVE  \E j \in 1..Len(z) : j < i /\ z[j].kind = k
    <2>1. PICK j \in 1..Len(p) : j < i + 1 /\ p[j].kind = k
      BY <1>1, <1>2, Zenon DEF Before
    <2>2. j # 1
      BY <1>1, <2>1, Zenon
    <2>3. j - 1 \in 1..Len(z) /\ j - 1 < i /\ z[j - 1] = p[j]
      BY <1>1, <2>1, <2>2
    <2> QED BY <2>1, <2>3, Zenon
  <1> QED BY <1>2, Zenon DEF Before, z

LEMMA ArmOrderTail ==
  ASSUME NEW S, NEW p \in Seq(S), p # <<>>, ArmOrder(p)
  PROVE  /\ ArmOrder(Tail(p))
         /\ Head(p).kind \in Sets => \A i \in 1..Len(Tail(p)) : Tail(p)[i].kind \notin Snaps
  <1> DEFINE z == Tail(p)
             n == Len(z)
  <1>1. /\ n \in Nat /\ Len(p) = n + 1 /\ Head(p) = p[1] /\ 1 \in 1..Len(p)
        /\ \A i \in 1..n : z[i] = p[i + 1] /\ i + 1 \in 1..Len(p)
    BY TailAt
  <1> HIDE DEF z, n
  <1>2. \A i, j \in 1..n : z[i].kind \in Sets /\ z[j].kind \in Snaps => j < i
    <2> TAKE i, j \in 1..n
    <2> HAVE z[i].kind \in Sets /\ z[j].kind \in Snaps
    <2>1. j + 1 < i + 1
      BY <1>1, Zenon DEF ArmOrder
    <2> QED BY <1>1, <2>1
  <1>3. \A i \in 1..n : z[i].kind = "VerifyBreakIn" => i = n
    <2> TAKE i \in 1..n
    <2> HAVE z[i].kind = "VerifyBreakIn"
    <2>1. i + 1 = n + 1
      BY <1>1, Zenon DEF ArmOrder
    <2> QED BY <1>1, <2>1
  <1>4. \A i \in 1..n : z[i].kind = "VerifyPower" /\ z[n].kind = "VerifyBreakIn" => i <= n - 2
    <2> TAKE i \in 1..n
    <2> HAVE z[i].kind = "VerifyPower" /\ z[n].kind = "VerifyBreakIn"
    <2>1. n \in 1..n
      BY <1>1
    <2>2. p[i + 1].kind = "VerifyPower" /\ p[Len(p)].kind = "VerifyBreakIn" /\ i + 1 \in 1..Len(p)
      BY <1>1, <2>1, Zenon
    <2>3. i + 1 <= Len(p) - 2
      BY <2>2, Zenon DEF ArmOrder
    <2> QED BY <1>1, <2>3
  <1>5. ASSUME Head(p).kind \in Sets, NEW i \in 1..n PROVE z[i].kind \notin Snaps
    <2>1. ~(i + 1 < 1) /\ i + 1 \in 1..Len(p) /\ z[i] = p[i + 1]
      BY <1>1
    <2> QED BY <1>1, <1>5, <2>1, Zenon DEF ArmOrder
  <1>6. ArmOrder(z)
    BY <1>2, <1>3, <1>4, Zenon DEF ArmOrder, n
  <1> QED BY <1>5, <1>6, Zenon DEF z, n

\* Leaving the break-in out of an arm takes nothing else from it.
LEMMA Cutting ==
  ASSUME NEW S, NEW p \in Seq(S), ArmOrder(p)
  PROVE  LET z == WithoutBreakIn(p)
         IN  /\ ArmOrder(z)
             /\ \A k, l : Before(p, k, l) => Before(z, k, l)
             /\ Has(p, "VerifyPower") => Has(z, "VerifyPower")
             /\ \A i \in 1..Len(z) : i \in 1..Len(p) /\ z[i] = p[i]
  <1> DEFINE z == WithoutBreakIn(p)
  <1>1. CASE ~(p # <<>> /\ p[Len(p)].kind = "VerifyBreakIn")
    <2>1. z = p
      BY <1>1, Zenon DEF WithoutBreakIn
    <2> QED BY <2>1, Zenon
  <1>2. CASE p # <<>> /\ p[Len(p)].kind = "VerifyBreakIn"
    <2>1. z = SubSeq(p, 1, Len(p) - 2) /\ Len(p) \in Nat /\ Len(p) >= 1
      BY <1>2 DEF WithoutBreakIn
    <2>2. Len(z) \in Nat /\ (Len(z) = Len(p) - 2 \/ (Len(p) = 1 /\ Len(z) = 0))
      <3>1. Len(p) \in Nat
        BY <2>1, Zenon
      <3>2. Len(SubSeq(p, 1, Len(p) - 2)) = IF 1 <= Len(p) - 2 THEN (Len(p) - 2) - 1 + 1 ELSE 0
        BY <3>1
      <3>3. Len(p) >= 1
        BY <2>1, Zenon
      <3> HIDE DEF z
      <3>4. Len(z) = IF 1 <= Len(p) - 2 THEN (Len(p) - 2) - 1 + 1 ELSE 0
        BY <2>1, <3>2, Zenon
      <3>5. \A n, m : /\ n \in Nat /\ n >= 1
                      /\ m = (IF 1 <= n - 2 THEN (n - 2) - 1 + 1 ELSE 0)
                      => m \in Nat /\ (m = n - 2 \/ (n = 1 /\ m = 0))
        OBVIOUS
      <3> QED BY <3>1, <3>3, <3>4, <3>5, Zenon
    <2>3. \A i \in 1..Len(z) : i \in 1..Len(p) /\ z[i] = p[i] /\ i <= Len(p) - 2
      BY <2>1
    <2>4. \A i \in 1..Len(p) : i <= Len(p) - 2 => i \in 1..Len(z)
      BY <2>1, <2>2
    <2> HIDE DEF z
    <2>5. \A i \in 1..Len(z) : z[i].kind # "VerifyBreakIn"
      BY <2>1, <2>3 DEF ArmOrder
    <2>6. ArmOrder(z)
      <3>1. \A i, j \in 1..Len(z) : z[i].kind \in Sets /\ z[j].kind \in Snaps => j < i
        BY <2>3, Zenon DEF ArmOrder
      <3>2. \A i \in 1..Len(z) : z[i].kind = "VerifyPower" => z[Len(z)].kind # "VerifyBreakIn"
        BY <2>2, <2>5
      <3> QED BY <2>5, <3>1, <3>2, Zenon DEF ArmOrder
    <2>7. ASSUME NEW k, NEW l, Before(p, k, l) PROVE Before(z, k, l)
      <3>1. ASSUME NEW i \in 1..Len(z), z[i].kind = l
            PROVE  \E j \in 1..Len(z) : j < i /\ z[j].kind = k
        <4>1. PICK j \in 1..Len(p) : j < i /\ p[j].kind = k
          BY <2>3, <2>7, <3>1, Zenon DEF Before
        <4>2. j \in 1..Len(z)
          BY <2>1, <2>3, <2>4, <4>1
        <4> QED BY <2>3, <4>1, <4>2, Zenon
      <3> QED BY <3>1, Zenon DEF Before
    <2>8. Has(p, "VerifyPower") => Has(z, "VerifyPower")
      BY <1>2, <2>3, <2>4, Zenon DEF Has, ArmOrder
    <2> QED BY <2>3, <2>6, <2>7, <2>8, Zenon DEF z
  <1> QED BY <1>1, <1>2, Zenon

\* A restore writes back what was changed, as it was snapshot.
LEMMA RestorePlanHas ==
  ASSUME SnapType, NEW p, p = <<Step("WaitKeyed", Margin)>> \o RestoreWrites
  PROVE  /\ \A i \in 1..Len(p) :
               /\ p[i].kind \in {"SetPower", "VerifyPower"} =>
                     powerChanged /\ snapPower # NoValue /\ p[i].val = snapPower
               /\ p[i].kind \in {"SetBreakIn", "VerifyBreakIn"} =>
                     breakInChanged /\ snapBreakIn # NoValue /\ p[i].val = snapBreakIn
         /\ powerChanged /\ snapPower # NoValue => Has(p, "VerifyPower")
         /\ breakInChanged /\ snapBreakIn # NoValue => Has(p, "VerifyBreakIn")
  <1> DEFINE w == Step("WaitKeyed", Margin)
             a == Step("SetPower", snapPower)
             b == Step("VerifyPower", snapPower)
             c == Step("SetBreakIn", snapBreakIn)
             d == Step("VerifyBreakIn", snapBreakIn)
             P == powerChanged /\ snapPower # NoValue
             B == breakInChanged /\ snapBreakIn # NoValue
             W == <<w>>
             X == IF P THEN <<a, b>> ELSE <<>>
             Y == IF B THEN <<c, d>> ELSE <<>>
             XY == X \o Y
  <1>1. p = W \o XY
    BY Zenon DEF RestoreWrites
  <1>2. /\ w.kind = "WaitKeyed" /\ a.kind = "SetPower" /\ b.kind = "VerifyPower"
        /\ c.kind = "SetBreakIn" /\ d.kind = "VerifyBreakIn"
        /\ a.val = snapPower /\ b.val = snapPower /\ c.val = snapBreakIn /\ d.val = snapBreakIn
        /\ w \in StepType /\ a \in StepType /\ b \in StepType /\ c \in StepType /\ d \in StepType
    BY MarginType, PowerAssumption, BreakInAssumption
    DEF Step, StepType, StepKinds, WriteKinds, SnapType, NoValue
  <1>3. P \in BOOLEAN /\ B \in BOOLEAN
    BY Zenon DEF SnapType
  <1> HIDE DEF w, a, b, c, d
  <1>4. W \in Seq(StepType) /\ Len(W) = 1 /\ W[1] = w
    BY <1>2
  <1>5. X \in Seq(StepType) /\ Len(X) = (IF P THEN 2 ELSE 0) /\ (P => X[1] = a /\ X[2] = b)
    BY <1>2, <1>3, Couple, Zenon
  <1>6. Y \in Seq(StepType) /\ Len(Y) = (IF B THEN 2 ELSE 0) /\ (B => Y[1] = c /\ Y[2] = d)
    BY <1>2, <1>3, Couple, Zenon
  <1> HIDE DEF W, X, Y
  <1>7. /\ XY \in Seq(StepType) /\ Len(XY) = Len(X) + Len(Y)
        /\ \A i \in 1..Len(X) : XY[i] = X[i]
        /\ \A i \in 1..Len(Y) : XY[Len(X) + i] = Y[i]
    <2>1. X \in Seq(StepType) /\ Y \in Seq(StepType)
      BY <1>5, <1>6, Zenon
    <2> QED BY <2>1
  <1> HIDE DEF XY
  <1>13. /\ Len(p) = Len(W) + Len(XY)
         /\ \A i \in 1..Len(W) : p[i] = W[i]
         /\ \A i \in 1..Len(XY) : p[Len(W) + i] = XY[i]
    <2>1. W \in Seq(StepType) /\ XY \in Seq(StepType)
      BY <1>4, <1>7, Zenon
    <2>2. /\ Len(W \o XY) = Len(W) + Len(XY)
          /\ \A i \in 1..Len(W) : (W \o XY)[i] = W[i]
          /\ \A i \in 1..Len(XY) : (W \o XY)[Len(W) + i] = XY[i]
      BY <2>1
    <2> QED BY <1>1, <2>2, Zenon
  <1>8. /\ Len(p) = 1 + Len(XY) /\ p[1] = w
        /\ \A i \in 1..Len(XY) : p[1 + i] = XY[i]
    BY <1>4, <1>13
  <1>9. CASE P /\ B
    <2>1. Len(p) = 5 /\ p[2] = a /\ p[3] = b /\ p[4] = c /\ p[5] = d
      BY <1>5, <1>6, <1>7, <1>8, <1>9
    <2>2. 1..Len(p) = {1, 2, 3, 4, 5}
      BY <2>1
    <2> QED BY <1>2, <1>8, <1>9, <2>1, <2>2 DEF Has
  <1>10. CASE P /\ ~B
    <2>1. Len(p) = 3 /\ p[2] = a /\ p[3] = b
      BY <1>5, <1>6, <1>7, <1>8, <1>10
    <2>2. 1..Len(p) = {1, 2, 3}
      BY <2>1
    <2> QED BY <1>2, <1>8, <1>10, <2>1, <2>2, Zenon DEF Has
  <1>11. CASE ~P /\ B
    <2>1. Len(p) = 3 /\ p[2] = c /\ p[3] = d
      BY <1>5, <1>6, <1>7, <1>8, <1>11
    <2>2. 1..Len(p) = {1, 2, 3}
      BY <2>1
    <2> QED BY <1>2, <1>8, <1>11, <2>1, <2>2, Zenon DEF Has
  <1>12. CASE ~P /\ ~B
    <2>1. Len(p) = 1
      BY <1>5, <1>6, <1>7, <1>8, <1>12
    <2>2. 1..Len(p) = {1}
      BY <2>1
    <2> QED BY <1>2, <1>8, <1>12, <2>2, Zenon DEF Has
  <1> QED BY <1>9, <1>10, <1>11, <1>12, Zenon
-----------------------------------------------------------------------------
(* How the actions move the settings.                                      *)

PlanKept ==
    /\ UNCHANGED <<act, arm, plan, snapPower, snapBreakIn, powerChanged, breakInChanged>>
    /\ (retry # "none") <=> (retry' # "none")
RadioKept == UNCHANGED <<power, breakIn, orig, turned>>
WireKept == UNCHANGED <<outstanding, answer>>
WireTaken == outstanding' = NoStep /\ answer' = NoAnswer

LEMMA Kinds ==
  /\ NoStep.kind = "None" /\ NoAnswer.kind = "None" /\ Failed.kind = "Failed" /\ Done.kind = "Done"
  BY Zenon DEF NoStep, Step, NoAnswer, Failed, Done

LEMMA NothingHas == ASSUME NEW k PROVE ~Has(<<>>, k)
  BY DEF Has

\* What a step of each set can be.
LEMMA StepFacts ==
  /\ \A x \in ArmStep :
        /\ x.kind \in {"Status", "SnapPower", "SnapBreakIn", "SetPower", "VerifyPower",
                       "SetBreakIn", "VerifyBreakIn"}
        /\ x.kind \in {"SetPower", "VerifyPower"} => x.val = LowPower
        /\ x.kind \in {"SetBreakIn", "VerifyBreakIn"} => x.val = BreakInWanted
  /\ \A x \in JobStep \cup StopStep \cup {NoStep} :
        /\ x.kind \in {"Status", "WaitReady", "CheckSpeed", "Send", "WaitKeyed", "PowerAtMost",
                       "Stop", "None"}
        /\ x.kind = "PowerAtMost" => x.val = LowPower
  /\ \A x \in RestoreStep :
        /\ x.kind \in {"SetPower", "VerifyPower", "SetBreakIn", "VerifyBreakIn", "WaitKeyed"}
        /\ x.kind \in {"SetPower", "VerifyPower"} => x.val \in Powers
  <1>1. \A x \in ArmStep :
        /\ x.kind \in {"Status", "SnapPower", "SnapBreakIn", "SetPower", "VerifyPower",
                       "SetBreakIn", "VerifyBreakIn"}
        /\ x.kind \in {"SetPower", "VerifyPower"} => x.val = LowPower
        /\ x.kind \in {"SetBreakIn", "VerifyBreakIn"} => x.val = BreakInWanted
    BY DEF ArmStep, Step
  <1>2. \A x \in JobStep \cup StopStep \cup {NoStep} :
        /\ x.kind \in {"Status", "WaitReady", "CheckSpeed", "Send", "WaitKeyed", "PowerAtMost",
                       "Stop", "None"}
        /\ x.kind = "PowerAtMost" => x.val = LowPower
    BY DEF JobStep, StopStep, NoStep, Step
  <1>3. \A x \in RestoreStep :
        /\ x.kind \in {"SetPower", "VerifyPower", "SetBreakIn", "VerifyBreakIn", "WaitKeyed"}
        /\ x.kind \in {"SetPower", "VerifyPower"} => x.val \in Powers
    BY DEF RestoreStep, Step
  <1> QED BY <1>1, <1>2, <1>3, Zenon

\* Nothing that matters to the settings happens.
LEMMA SettingKept ==
  ASSUME SettingInv, PlanKept, RadioKept, WireKept
  PROVE  SettingInv'
  <1> USE DEF PlanKept, RadioKept, WireKept
  <1>1. ArmInv'
    BY Zenon DEF SettingInv, ArmInv, ArmOrder, Before
  <1>2. SaysInv'
    BY Zenon DEF SettingInv, SaysInv
  <1>3. PowerInv'
    BY Zenon DEF SettingInv, PowerInv, Has
  <1>4. BreakInInv'
    BY Zenon DEF SettingInv, BreakInInv, Has
  <1> QED BY <1>1, <1>2, <1>3, <1>4, Zenon DEF SettingInv

LEMMA SaysTaken == WireTaken => SaysInv'
  BY Kinds, Zenon DEF WireTaken, SaysInv, WriteKinds

\* An answer is taken and the plan goes on.
LEMMA SettingTaken ==
  ASSUME SettingInv, OutInv, PlanKept, RadioKept, WireTaken,
         act = "Arming" => outstanding.kind \notin Snaps,
         ~turned /\ outstanding.kind = "VerifyPower" /\ act \in {"Arming", "Restoring"} => power = outstanding.val,
         outstanding.kind = "VerifyBreakIn" /\ act \in {"Arming", "Restoring"} => breakIn = outstanding.val
  PROVE  SettingInv'
  <1> USE DEF PlanKept, RadioKept, WireTaken
  <1>1. outstanding'.kind = "None" /\ answer'.kind = "None"
    BY Kinds, Zenon
  <1>2. outstanding' \in JobStep \cup StopStep \cup {NoStep}
    OBVIOUS
  <1>3. ArmInv'
    BY <1>1, <1>2 DEF SettingInv, ArmInv, ArmOrder, Before, Snaps
  <1>4. act = "Arming" =>
           /\ outstanding.kind = "VerifyPower" => outstanding.val = LowPower
           /\ outstanding.kind = "VerifyBreakIn" => outstanding.val = BreakInWanted
    BY StepFacts, Zenon DEF OutInv
  <1>5. \A v : /\ Step("VerifyPower", v).kind = "VerifyPower" /\ Step("VerifyPower", v).val = v
               /\ Step("VerifyBreakIn", v).kind = "VerifyBreakIn" /\ Step("VerifyBreakIn", v).val = v
    BY Zenon DEF Step
  <1>6. PowerInv'
    BY <1>1, <1>4, <1>5 DEF SettingInv, PowerInv, Has
  <1>7. BreakInInv'
    BY <1>1, <1>4, <1>5 DEF SettingInv, BreakInInv, Has
  <1> QED BY <1>3, <1>6, <1>7, SaysTaken, Zenon DEF SettingInv

\* An arm is held, and the supervisor sends, stops or idles.
LEMMA SettingArmed ==
  ASSUME SettingInv, RadioKept, WireKept \/ WireTaken,
         arm # NoOne, act \in {"Idle", "Sending", "Stopping"},
         arm' = arm, act' \in {"Idle", "Sending", "Stopping"}, UNCHANGED snapVars,
         act' = "Idle" => outstanding' = NoStep
  PROVE  SettingInv'
  <1> USE DEF RadioKept, WireKept, WireTaken, snapVars
  <1>1. outstanding \in JobStep \cup StopStep \cup {NoStep}
    BY Zenon DEF SettingInv, ArmInv
  <1>2. outstanding' \in JobStep \cup StopStep \cup {NoStep}
    BY <1>1, Zenon
  <1>3. outstanding'.kind \notin Snaps \cup Sets \cup {"SnapPower", "VerifyPower", "SnapBreakIn", "VerifyBreakIn"}
    BY <1>2, StepFacts, Zenon DEF Snaps, Sets
  <1>4. act' = "Idle" => outstanding'.kind # "PowerAtMost"
    BY Kinds, Zenon
  <1>5. ArmInv'
    BY <1>2, <1>3, <1>4, Zenon DEF SettingInv, ArmInv, Sets
  <1>6. SaysInv'
    BY SaysTaken, Zenon DEF SettingInv, SaysInv
  <1>7. PowerInv'
    BY <1>3, Kinds, Zenon DEF SettingInv, PowerInv
  <1>8. BreakInInv'
    BY <1>3, Zenon DEF SettingInv, BreakInInv
  <1> QED BY <1>5, <1>6, <1>7, <1>8, Zenon DEF SettingInv

\* A restore begins, with or without an arm to end.
LEMMA SettingRestore ==
  ASSUME SettingInv, SnapType, RadioKept, WireKept \/ WireTaken,
         NEW t, StartRestore(t),
         arm # NoOne \/ (act = "Arming" /\ (powerChanged \/ breakInChanged)),
         act \in {"Idle", "Arming"} \/ outstanding' = NoStep
  PROVE  SettingInv'
  <1> USE DEF RadioKept, WireKept, WireTaken
  <1>1. /\ act' = "Restoring" /\ arm' = NoOne /\ retry' = "none"
        /\ UNCHANGED <<snapPower, snapBreakIn, powerChanged, breakInChanged>>
        /\ plan' = <<Step("WaitKeyed", Margin)>> \o RestoreWrites
    BY Zenon DEF StartRestore, PlanRestore, snapVars
  <1>2. outstanding.kind \notin Snaps
    <2>1. CASE arm # NoOne
      BY <2>1, StepFacts, Zenon DEF SettingInv, ArmInv, Snaps
    <2>2. CASE act = "Arming" /\ (powerChanged \/ breakInChanged)
      BY <2>2, Zenon DEF SettingInv, ArmInv
    <2> QED BY <2>1, <2>2, Zenon
  <1>3. outstanding'.kind \notin Snaps \cup {"PowerAtMost"}
    BY <1>2, Kinds, Zenon DEF SettingInv, ArmInv, Snaps
  <1>5. SaysInv'
    BY SaysTaken, Zenon DEF SettingInv, SaysInv
  <1> DEFINE p == plan'
  <1>6. /\ \A i \in 1..Len(p) :
               /\ p[i].kind \in {"SetPower", "VerifyPower"} =>
                     powerChanged /\ snapPower # NoValue /\ p[i].val = snapPower
               /\ p[i].kind \in {"SetBreakIn", "VerifyBreakIn"} =>
                     breakInChanged /\ snapBreakIn # NoValue /\ p[i].val = snapBreakIn
        /\ powerChanged /\ snapPower # NoValue => Has(p, "VerifyPower")
        /\ breakInChanged /\ snapBreakIn # NoValue => Has(p, "VerifyBreakIn")
    BY <1>1, RestorePlanHas, Zenon
  <1>4. ArmInv'
    BY <1>1, <1>3, <1>6, Kinds, Zenon DEF SettingInv, ArmInv
  <1>7. /\ powerChanged => snapPower # NoValue
        /\ breakInChanged => snapBreakIn # NoValue
    BY Zenon DEF SettingInv, ArmInv
  <1>8. PowerInv'
    <2>1. SUFFICES ASSUME ~turned PROVE PowerInv'
      BY Zenon DEF PowerInv
    <2>2. /\ ~powerChanged => power = orig.power
          /\ snapPower # NoValue => snapPower = orig.power
          /\ (answer.kind = "Read" /\ outstanding.kind \in {"SnapPower", "VerifyPower", "PowerAtMost"} =>
                  answer.val = power)
      BY <2>1, Zenon DEF SettingInv, PowerInv
    <2>3. powerChanged => Has(p, "VerifyPower")
      BY <1>6, <1>7, Zenon
    <2>4. \A i \in 1..Len(p) : p[i].kind \in {"SetPower", "VerifyPower"} => p[i].val = orig.power
      BY <1>6, <2>2, Zenon
    <2> QED BY <1>1, <2>2, <2>3, <2>4, Kinds, Zenon DEF PowerInv, Has
  <1>9. BreakInInv'
    <2>2. /\ ~breakInChanged => breakIn = orig.breakIn
          /\ snapBreakIn # NoValue => snapBreakIn = orig.breakIn
          /\ (answer.kind = "Read" /\ outstanding.kind \in {"SnapBreakIn", "VerifyBreakIn"} =>
                  answer.val = breakIn)
      BY Zenon DEF SettingInv, BreakInInv
    <2>3. breakInChanged => Has(p, "VerifyBreakIn")
      BY <1>6, <1>7, Zenon
    <2>4. \A i \in 1..Len(p) : p[i].kind \in {"SetBreakIn", "VerifyBreakIn"} => p[i].val = orig.breakIn
      BY <1>6, <2>2, Zenon
    <2> QED BY <1>1, <2>2, <2>3, <2>4, Kinds, Zenon DEF BreakInInv, Has
  <1> QED BY <1>4, <1>5, <1>8, <1>9, Zenon DEF SettingInv
\* A refused arm that wrote nothing.
LEMMA SettingRefused ==
  ASSUME SettingInv, RadioKept, WireKept \/ WireTaken,
         act = "Arming", ~powerChanged, ~breakInChanged, ClearSnap,
         act' = "Idle", arm' = NoOne, plan' = <<>>
  PROVE  SettingInv'
  <1> USE DEF RadioKept, WireKept, WireTaken, ClearSnap
  <1>1. outstanding'.kind # "SetPower" /\ outstanding'.kind # "SetBreakIn" /\ outstanding'.kind # "PowerAtMost"
    BY Kinds, Zenon DEF SettingInv, ArmInv
  <1>2. ArmInv'
    BY <1>1, Kinds, Zenon DEF SettingInv, ArmInv, Snaps
  <1>3. SaysInv'
    BY SaysTaken, Zenon DEF SettingInv, SaysInv
  <1>4. PowerInv'
    BY <1>1, Kinds, Zenon DEF SettingInv, PowerInv
  <1>5. BreakInInv'
    BY <1>1, Kinds, Zenon DEF SettingInv, BreakInInv
  <1> QED BY <1>2, <1>3, <1>4, <1>5, Zenon DEF SettingInv

\* A restore that has written and read back everything.
LEMMA SettingRestored ==
  ASSUME SettingInv, RadioKept, WireKept, outstanding = NoStep,
         act = "Restoring", arm = NoOne, retry = "none", plan = <<>>, ClearSnap,
         act' = "Idle", arm' = arm, plan' = plan
  PROVE  SettingInv'
  <1> USE DEF RadioKept, WireKept, ClearSnap
  <1>1. outstanding.kind = "None" /\ ~Has(plan, "VerifyPower") /\ ~Has(plan, "VerifyBreakIn")
    BY Kinds, NothingHas, Zenon
  <1>2. \A v : outstanding # Step("VerifyPower", v) /\ outstanding # Step("VerifyBreakIn", v)
    BY <1>1 DEF Step
  <1>3. ~turned => power = orig.power
    BY <1>1, <1>2, Zenon DEF SettingInv, PowerInv
  <1>4. breakIn = orig.breakIn
    BY <1>1, <1>2, Zenon DEF SettingInv, BreakInInv
  <1>5. ArmInv'
    BY <1>1, Zenon DEF ArmInv, Snaps
  <1>6. SaysInv'
    BY Zenon DEF SettingInv, SaysInv
  <1>7. PowerInv' /\ BreakInInv'
    BY <1>1, <1>3, <1>4, Zenon DEF PowerInv, BreakInInv
  <1> QED BY <1>5, <1>6, <1>7, Zenon DEF SettingInv

\* An arm whose last step was done.
LEMMA SettingGranted ==
  ASSUME SettingInv, RadioKept, WireKept, outstanding = NoStep,
         act = "Arming", plan = <<>>, UNCHANGED snapVars, act' = "Idle", arm' # NoOne, plan' = plan
  PROVE  SettingInv'
  <1> USE DEF RadioKept, WireKept, snapVars
  <1>1. outstanding.kind = "None" /\ ~Has(plan, "VerifyPower") /\ ~Has(plan, "VerifyBreakIn")
    BY Kinds, NothingHas, Zenon
  <1>2. ArmInv'
    BY <1>1, Zenon DEF SettingInv, ArmInv, Snaps
  <1>3. SaysInv'
    BY Zenon DEF SettingInv, SaysInv
  <1>4. PowerInv'
    BY <1>1, Zenon DEF SettingInv, PowerInv
  <1>5. BreakInInv'
    BY <1>1, Zenon DEF SettingInv, BreakInInv
  <1> QED BY <1>2, <1>3, <1>4, <1>5, Zenon DEF SettingInv

\* An arm begins, whatever an earlier one left on the wire.
LEMMA SettingArm ==
  ASSUME SettingInv, RadioKept, WireKept, act = "Idle", arm = NoOne, ClearSnap,
         act' = "Arming", arm' = arm, plan' = ArmPlan
  PROVE  SettingInv'
  <1> USE DEF RadioKept, WireKept, ClearSnap
  <1>1. /\ ~powerChanged /\ ~breakInChanged
        /\ outstanding.kind # "SetPower" /\ outstanding.kind # "SetBreakIn" /\ outstanding.kind # "PowerAtMost"
    BY Zenon DEF SettingInv, ArmInv
  <1>2. /\ ArmOrder(plan')
        /\ Before(plan', "SnapPower", "SetPower") /\ Before(plan', "SnapBreakIn", "SetBreakIn")
        /\ Has(plan', "VerifyPower") /\ (NeedsBreakIn => Has(plan', "VerifyBreakIn"))
    BY ArmPlanOrder, Zenon
  <1>3. ArmInv'
    BY <1>1, <1>2, Zenon DEF ArmInv
  <1>4. SaysInv'
    BY Zenon DEF SettingInv, SaysInv
  <1>5. PowerInv'
    BY <1>1, <1>2, Zenon DEF SettingInv, PowerInv
  <1>6. BreakInInv'
    BY <1>1, <1>2, Zenon DEF SettingInv, BreakInInv
  <1> QED BY <1>3, <1>4, <1>5, <1>6, Zenon DEF SettingInv

\* A restore that failed waits to be tried again,
LEMMA SettingRetries ==
  ASSUME SettingInv, RadioKept, WireTaken, act = "Restoring", arm = NoOne,
         UNCHANGED <<act, arm, snapVars>>, retry' # "none", plan' = <<>>
  PROVE  SettingInv'
  <1> USE DEF RadioKept, WireTaken, snapVars
  <1>1. outstanding'.kind = "None" /\ answer'.kind = "None"
    BY Kinds, Zenon
  <1>2. ArmInv'
    BY <1>1 DEF SettingInv, ArmInv, Snaps
  <1>3. PowerInv'
    BY <1>1 DEF SettingInv, PowerInv
  <1>4. BreakInInv'
    BY <1>1 DEF SettingInv, BreakInInv
  <1> QED BY <1>2, <1>3, <1>4, SaysTaken, Zenon DEF SettingInv

\* and when it is due starts over.
LEMMA SettingRetry ==
  ASSUME SettingInv, SnapType, RadioKept, WireKept, outstanding = NoStep, act = "Restoring", arm = NoOne,
         UNCHANGED <<act, arm, snapVars>>, PlanRestore
  PROVE  SettingInv'
  <1> USE DEF RadioKept, WireKept, snapVars
  <1>1. outstanding.kind = "None"
    BY Kinds, Zenon
  <1>3. SaysInv'
    BY Zenon DEF SettingInv, SaysInv
  <1> DEFINE p == plan'
  <1>4. /\ \A i \in 1..Len(p) :
               /\ p[i].kind \in {"SetPower", "VerifyPower"} =>
                     powerChanged /\ snapPower # NoValue /\ p[i].val = snapPower
               /\ p[i].kind \in {"SetBreakIn", "VerifyBreakIn"} =>
                     breakInChanged /\ snapBreakIn # NoValue /\ p[i].val = snapBreakIn
        /\ powerChanged /\ snapPower # NoValue => Has(p, "VerifyPower")
        /\ breakInChanged /\ snapBreakIn # NoValue => Has(p, "VerifyBreakIn")
    BY RestorePlanHas, Zenon DEF PlanRestore
  <1>2. ArmInv'
    BY <1>1, <1>4, Zenon DEF SettingInv, ArmInv, Snaps
  <1>5. /\ powerChanged => snapPower # NoValue
        /\ breakInChanged => snapBreakIn # NoValue
    BY Zenon DEF SettingInv, ArmInv
  <1>6. PowerInv'
    <2>1. SUFFICES ASSUME ~turned PROVE PowerInv'
      BY Zenon DEF PowerInv
    <2>2. /\ ~powerChanged => power = orig.power
          /\ snapPower # NoValue => snapPower = orig.power
      BY <2>1, Zenon DEF SettingInv, PowerInv
    <2>3. powerChanged => Has(p, "VerifyPower")
      BY <1>4, <1>5, Zenon
    <2>4. \A i \in 1..Len(p) : p[i].kind \in {"SetPower", "VerifyPower"} => p[i].val = orig.power
      BY <1>4, <2>2, Zenon
    <2> QED BY <1>1, <2>2, <2>3, <2>4, Zenon DEF PowerInv, Has
  <1>7. BreakInInv'
    <2>1. /\ ~breakInChanged => breakIn = orig.breakIn
          /\ snapBreakIn # NoValue => snapBreakIn = orig.breakIn
      BY Zenon DEF SettingInv, BreakInInv
    <2>2. breakInChanged => Has(p, "VerifyBreakIn")
      BY <1>4, <1>5, Zenon
    <2>3. \A i \in 1..Len(p) : p[i].kind \in {"SetBreakIn", "VerifyBreakIn"} => p[i].val = orig.breakIn
      BY <1>4, <2>1, Zenon
    <2> QED BY <1>1, <2>1, <2>2, <2>3, Zenon DEF BreakInInv, Has
  <1> QED BY <1>2, <1>3, <1>6, <1>7, Zenon DEF SettingInv
\* A job's step is waited for or handed over.
LEMMA SettingJobTail ==
  ASSUME SettingInv, RadioKept, answer = NoAnswer, answer' = answer, outstanding = NoStep,
         arm # NoOne, act \in {"Sending", "Stopping"}, UNCHANGED <<act, arm, snapVars>>,
         outstanding' \in JobStep \cup StopStep \cup {NoStep}
  PROVE  SettingInv'
  <1> USE DEF RadioKept, snapVars
  <1>1. outstanding'.kind \notin Snaps \cup Sets \cup {"SnapPower", "VerifyPower", "SnapBreakIn", "VerifyBreakIn"}
    BY StepFacts, Zenon DEF Snaps, Sets
  <1>2. answer'.kind = "None"
    BY Kinds, Zenon
  <1>3. ArmInv'
    BY <1>1, Zenon DEF SettingInv, ArmInv, Sets
  <1>4. SaysInv'
    BY <1>2, Kinds, Zenon DEF SaysInv
  <1>5. PowerInv'
    BY <1>1, <1>2, Zenon DEF SettingInv, PowerInv
  <1>6. BreakInInv'
    BY <1>1, <1>2, Zenon DEF SettingInv, BreakInInv
  <1> QED BY <1>3, <1>4, <1>5, <1>6, Zenon DEF SettingInv

HandsOver ==
    /\ outstanding' = Head(plan)
    /\ powerChanged' = (powerChanged \/ Head(plan).kind = "SetPower")
    /\ breakInChanged' = (breakInChanged \/ Head(plan).kind = "SetBreakIn")

\* An arm's step is handed over: what it writes was snapshot.
LEMMA SettingArmTail ==
  ASSUME SettingInv, SnapType, RadioKept, answer = NoAnswer, answer' = answer, outstanding = NoStep,
         arm = NoOne, act = "Arming", plan \in Seq(ArmStep), plan # <<>>,
         plan' = Tail(plan), UNCHANGED <<act, arm, snapPower, snapBreakIn>>, HandsOver
  PROVE  SettingInv'
  <1> USE DEF RadioKept, HandsOver
  <1> DEFINE h == Head(plan)
             z == Tail(plan)
             n == Len(z)
  <1>1. h \in ArmStep
    OBVIOUS
  <1>2. /\ n \in Nat /\ Len(plan) = n + 1 /\ h = plan[1] /\ 1 \in 1..Len(plan)
        /\ \A i \in 1..n : z[i] = plan[i + 1] /\ i + 1 \in 1..Len(plan)
    BY TailAt
  <1>3. /\ outstanding.kind = "None" /\ answer'.kind = "None"
        /\ outstanding' = h /\ plan' = z
    BY Kinds, Zenon
  <1>4. /\ ArmOrder(z)
        /\ h.kind \in Sets => \A i \in 1..n : z[i].kind \notin Snaps
    BY ArmOrderTail, Zenon DEF SettingInv, ArmInv
  <1>5. /\ Before(z, "SnapPower", "SetPower") \/ h.kind = "SnapPower" \/ snapPower # NoValue
        /\ Before(z, "SnapBreakIn", "SetBreakIn") \/ h.kind = "SnapBreakIn" \/ snapBreakIn # NoValue
    BY <1>3, BeforeTail, Zenon DEF SettingInv, ArmInv
  <1>6. /\ h.kind = "SetPower" => snapPower # NoValue
        /\ h.kind = "SetBreakIn" => snapBreakIn # NoValue
    BY <1>2, <1>3 DEF SettingInv, ArmInv, Before
  <1>7. powerChanged' \/ breakInChanged' =>
           h.kind \notin Snaps /\ \A i \in 1..n : z[i].kind \notin Snaps
    <2>1. CASE h.kind \in Sets
      BY <1>4, <2>1, Zenon DEF Sets, Snaps
    <2>2. CASE h.kind \notin Sets
      <3>1. powerChanged' = powerChanged /\ breakInChanged' = breakInChanged
        BY <2>2, Zenon DEF SnapType, Sets
      <3>2. powerChanged \/ breakInChanged => \A i \in 1..Len(plan) : plan[i].kind \notin Snaps
        BY Zenon DEF SettingInv, ArmInv
      <3> HIDE DEF z, n, h
      <3> QED BY <1>2, <3>1, <3>2
    <2> QED BY <2>1, <2>2, Zenon
  <1>8. /\ Has(plan, "VerifyPower") => h.kind = "VerifyPower" \/ Has(z, "VerifyPower")
        /\ Has(plan, "VerifyBreakIn") => h.kind = "VerifyBreakIn" \/ Has(z, "VerifyBreakIn")
    BY HasTail, Zenon
  <1>9. h.kind # "PowerAtMost"
    BY <1>1, StepFacts, Zenon
  <1>14. /\ ~powerChanged' => ~powerChanged
         /\ ~breakInChanged' => ~breakInChanged
    BY Zenon DEF SnapType
  <1> HIDE DEF h, z, n, HandsOver
  <1>10. ArmInv'
    <2>1. /\ powerChanged' => snapPower # NoValue
          /\ breakInChanged' => snapBreakIn # NoValue
      BY <1>6, Zenon DEF SettingInv, ArmInv, SnapType, h, HandsOver
    <2>2. /\ h.kind = "SetPower" => powerChanged'
          /\ h.kind = "SetBreakIn" => breakInChanged'
      BY Zenon DEF h, HandsOver
    <2> QED BY <1>3, <1>4, <1>5, <1>7, <1>9, <2>1, <2>2, Zenon DEF ArmInv, n
  <1>11. SaysInv'
    BY Kinds, Zenon DEF SaysInv
  <1>12. PowerInv'
    BY <1>3, <1>8, <1>14, Zenon DEF SettingInv, PowerInv
  <1>13. BreakInInv'
    BY <1>3, <1>8, <1>14, Zenon DEF SettingInv, BreakInInv
  <1> QED BY <1>10, <1>11, <1>12, <1>13, Zenon DEF SettingInv

\* A restore's step is waited for or handed over.
LEMMA SettingRestoreTail ==
  ASSUME SettingInv, SnapType, RadioKept, answer = NoAnswer, answer' = answer, outstanding = NoStep,
         arm = NoOne, act = "Restoring", plan \in Seq(RestoreStep), plan # <<>>,
         plan' = Tail(plan), UNCHANGED <<act, arm, snapPower, snapBreakIn, retry>>,
         \/ Head(plan).kind = "WaitKeyed" /\ UNCHANGED <<outstanding, powerChanged, breakInChanged>>
         \/ HandsOver
  PROVE  SettingInv'
  <1> USE DEF RadioKept, HandsOver
  <1> DEFINE h == Head(plan)
             z == Tail(plan)
             n == Len(z)
  <1>1. h \in RestoreStep
    OBVIOUS
  <1>2. /\ n \in Nat /\ Len(plan) = n + 1 /\ h = plan[1] /\ 1 \in 1..Len(plan)
        /\ \A i \in 1..n : z[i] = plan[i + 1] /\ i + 1 \in 1..Len(plan)
    BY TailAt
  <1>3. /\ outstanding.kind = "None" /\ answer'.kind = "None" /\ plan' = z
        /\ \A v : outstanding # Step("VerifyPower", v) /\ outstanding # Step("VerifyBreakIn", v)
    BY Kinds DEF Step
  <1>4. /\ Has(plan, "VerifyPower") => h.kind = "VerifyPower" \/ Has(z, "VerifyPower")
        /\ Has(plan, "VerifyBreakIn") => h.kind = "VerifyBreakIn" \/ Has(z, "VerifyBreakIn")
    BY HasTail, Zenon
  <1>5. h.kind \notin Snaps \cup {"PowerAtMost"}
    BY <1>1, StepFacts, Zenon DEF Snaps
  <1>6. h.kind = "VerifyPower" => h = Step("VerifyPower", h.val)
    BY <1>1 DEF RestoreStep, Step
  <1>7. h.kind = "VerifyBreakIn" => h = Step("VerifyBreakIn", h.val)
    BY <1>1 DEF RestoreStep, Step
  <1> HIDE DEF h, z, n
  <1>14. \A i \in 1..Len(plan) : /\ plan[i].kind = "SetPower" => powerChanged
                                 /\ plan[i].kind = "SetBreakIn" => breakInChanged
    BY Zenon DEF SettingInv, ArmInv
  <1>15. /\ h.kind = "SetPower" => powerChanged
         /\ h.kind = "SetBreakIn" => breakInChanged
    BY <1>2, <1>14, Zenon
  <1>8. UNCHANGED <<powerChanged, breakInChanged>>
    BY <1>15, Zenon DEF SnapType, h
  <1>9. outstanding' = h \/ (outstanding' = outstanding /\ h.kind = "WaitKeyed")
    BY Zenon DEF h
  <1>10. ArmInv'
    <2>1. \A i \in 1..n : /\ z[i].kind = "SetPower" => powerChanged
                          /\ z[i].kind = "SetBreakIn" => breakInChanged
      BY <1>2, <1>14, Zenon
    <2> QED BY <1>3, <1>5, <1>8, <1>9, <1>15, <2>1, Zenon DEF SettingInv, ArmInv, Snaps, n
  <1>11. SaysInv'
    BY Kinds, Zenon DEF SaysInv
  <1>12. PowerInv'
    <2>1. SUFFICES ASSUME ~turned PROVE PowerInv'
      BY Zenon DEF PowerInv
    <2>2. /\ \A i \in 1..n : z[i].kind \in {"SetPower", "VerifyPower"} => z[i].val = orig.power
          /\ h.kind \in {"SetPower", "VerifyPower"} => h.val = orig.power
      BY <1>2, <2>1, Zenon DEF SettingInv, PowerInv
    <2>3. ~powerChanged \/ retry # "none" \/ Has(plan, "VerifyPower") \/ power = orig.power
      BY <1>3, <2>1, Zenon DEF SettingInv, PowerInv
    <2>4. \/ ~powerChanged \/ retry # "none" \/ Has(z, "VerifyPower")
          \/ outstanding' = Step("VerifyPower", orig.power)
          \/ power = orig.power /\ (outstanding'.kind = "SetPower" => outstanding'.val = orig.power)
      BY <1>3, <1>4, <1>6, <1>9, <2>2, <2>3, Zenon
    <2>5. /\ ~powerChanged => power = orig.power
          /\ snapPower # NoValue => snapPower = orig.power
      BY <2>1, Zenon DEF SettingInv, PowerInv
    <2> QED BY <1>3, <1>8, <2>2, <2>4, <2>5, Zenon DEF PowerInv, n
  <1>13. BreakInInv'
    <2>2. /\ \A i \in 1..n : z[i].kind \in {"SetBreakIn", "VerifyBreakIn"} => z[i].val = orig.breakIn
          /\ h.kind \in {"SetBreakIn", "VerifyBreakIn"} => h.val = orig.breakIn
      BY <1>2, Zenon DEF SettingInv, BreakInInv
    <2>3. ~breakInChanged \/ retry # "none" \/ Has(plan, "VerifyBreakIn") \/ breakIn = orig.breakIn
      BY <1>3, Zenon DEF SettingInv, BreakInInv
    <2>4. \/ ~breakInChanged \/ retry # "none" \/ Has(z, "VerifyBreakIn")
          \/ outstanding' = Step("VerifyBreakIn", orig.breakIn)
          \/ breakIn = orig.breakIn /\ (outstanding'.kind = "SetBreakIn" => outstanding'.val = orig.breakIn)
      BY <1>3, <1>4, <1>7, <1>9, <2>2, <2>3, Zenon
    <2>5. /\ ~breakInChanged => breakIn = orig.breakIn
          /\ snapBreakIn # NoValue => snapBreakIn = orig.breakIn
      BY Zenon DEF SettingInv, BreakInInv
    <2> QED BY <1>3, <1>8, <2>2, <2>4, <2>5, Zenon DEF BreakInInv, n
  <1> QED BY <1>10, <1>11, <1>12, <1>13, Zenon DEF SettingInv
\* A snapshot is read: before anything is written, so it is the operator's.
LEMMA SnapPowerSetting ==
  ASSUME TypeInv, SettingInv, CompleteSnapPower
  PROVE  SettingInv'
  <1> USE DEF RadioKept, WireTaken
  <1>1. SupInv /\ OutInv /\ AnswerInv
    BY TypeParts, Zenon
  <1>2. /\ RadioKept /\ WireTaken /\ UNCHANGED <<act, arm, plan, retry, snapBreakIn, powerChanged, breakInChanged>>
        /\ outstanding.kind = "SnapPower" /\ answer # NoAnswer /\ answer # Failed /\ snapPower' = answer.val
    BY Zenon DEF CompleteSnapPower, Completes, Takes, radio, armVars, actVars
  <1>3. answer.kind = "Read" /\ answer.val \in Powers
    BY <1>1, <1>2, Zenon DEF AnswerInv
  <1>4. ~powerChanged /\ ~breakInChanged /\ act # "Restoring" /\ arm = NoOne
    BY <1>2, StepFacts, Zenon DEF SettingInv, ArmInv, Snaps
  <1>5. snapPower' # NoValue
    BY <1>2, <1>3, PowerAssumption DEF NoValue
  <1>6. ~turned => snapPower' = orig.power
    BY <1>2, <1>3, <1>4, Zenon DEF SettingInv, PowerInv
  <1>7. outstanding'.kind = "None" /\ answer'.kind = "None"
    BY <1>2, Kinds, Zenon
  <1>8. ArmInv'
    BY <1>2, <1>4, <1>5, <1>7, Zenon DEF SettingInv, ArmInv, ArmOrder, Before, Snaps
  <1>9. PowerInv'
    BY <1>2, <1>4, <1>6, <1>7, Zenon DEF SettingInv, PowerInv, Has
  <1>10. BreakInInv'
    BY <1>2, <1>4, <1>7, Zenon DEF SettingInv, BreakInInv, Has
  <1> QED BY <1>2, <1>8, <1>9, <1>10, SaysTaken, Zenon DEF SettingInv

LEMMA SnapBreakInSetting ==
  ASSUME TypeInv, SettingInv, CompleteSnapBreakIn
  PROVE  SettingInv'
  <1> USE DEF RadioKept, WireTaken
  <1>1. SupInv /\ OutInv /\ AnswerInv
    BY TypeParts, Zenon
  <1>2. /\ RadioKept /\ WireTaken /\ UNCHANGED <<act, arm, retry, snapPower, powerChanged, breakInChanged>>
        /\ outstanding.kind = "SnapBreakIn" /\ answer # NoAnswer /\ answer # Failed /\ snapBreakIn' = answer.val
    BY Zenon DEF CompleteSnapBreakIn, Completes, Takes, radio, armVars, actVars
  <1>3. answer.kind = "Read" /\ answer.val \in BreakIns
    BY <1>1, <1>2, Zenon DEF AnswerInv
  <1>4. ~powerChanged /\ ~breakInChanged /\ act # "Restoring" /\ arm = NoOne
    BY <1>2, StepFacts, Zenon DEF SettingInv, ArmInv, Snaps
  <1>5. snapBreakIn' # NoValue
    BY <1>2, <1>3, BreakInAssumption DEF NoValue
  <1>6. answer.val = breakIn /\ breakIn = orig.breakIn
    BY <1>2, <1>3, <1>4, Zenon DEF SettingInv, BreakInInv
  <1>7. outstanding'.kind = "None" /\ answer'.kind = "None"
    BY <1>2, Kinds, Zenon
  <1>8. act \in {"Idle", "Arming"}
    BY <1>1, <1>4, Zenon DEF SupInv, SupType, ActType, SupShape
  <1>9. act = "Arming" =>
           /\ ArmOrder(plan')
           /\ Before(plan', "SnapPower", "SetPower") \/ snapPower # NoValue
           /\ Has(plan, "VerifyPower") => Has(plan', "VerifyPower")
           /\ Has(plan', "VerifyBreakIn") \/ ~Has(plan, "VerifyBreakIn") \/ breakIn = BreakInWanted
    <2>1. SUFFICES ASSUME act = "Arming"
                   PROVE  /\ ArmOrder(plan')
                          /\ Before(plan', "SnapPower", "SetPower") \/ snapPower # NoValue
                          /\ Has(plan, "VerifyPower") => Has(plan', "VerifyPower")
                          /\ Has(plan', "VerifyBreakIn") \/ ~Has(plan, "VerifyBreakIn") \/ breakIn = BreakInWanted
      OBVIOUS
    <2>2. /\ ArmOrder(plan) /\ plan \in Seq(ArmStep)
          /\ Before(plan, "SnapPower", "SetPower") \/ snapPower # NoValue
      BY <1>1, <1>2, <2>1, Zenon DEF SettingInv, ArmInv, SupInv, PlanInv
    <2>3. CASE answer.val = BreakInWanted
      <3>1. plan' = WithoutBreakIn(plan)
        BY <2>3, Zenon DEF CompleteSnapBreakIn
      <3>2. /\ ArmOrder(plan')
            /\ Before(plan, "SnapPower", "SetPower") => Before(plan', "SnapPower", "SetPower")
            /\ Has(plan, "VerifyPower") => Has(plan', "VerifyPower")
        BY <2>2, <3>1, Cutting, Zenon
      <3> QED BY <1>6, <2>2, <2>3, <3>2, Zenon
    <2>4. CASE answer.val # BreakInWanted
      <3>1. plan' = plan
        BY <2>4, Zenon DEF CompleteSnapBreakIn
      <3> QED BY <2>2, <3>1, Zenon
    <2> QED BY <2>3, <2>4, Zenon
  <1>10. ArmInv'
    BY <1>2, <1>4, <1>5, <1>7, <1>8, <1>9, Zenon DEF SettingInv, ArmInv, Snaps
  <1>11. PowerInv'
    BY <1>2, <1>4, <1>7, <1>8, <1>9, Zenon DEF SettingInv, PowerInv
  <1>12. BreakInInv'
    BY <1>2, <1>4, <1>6, <1>7, <1>8, <1>9, Zenon DEF SettingInv, BreakInInv
  <1> QED BY <1>2, <1>10, <1>11, <1>12, SaysTaken, Zenon DEF SettingInv

\* The radio answers: truthfully when it is read.
LEMMA ReadsSetting ==
  ASSUME TypeInv, SettingInv, RadioReads
  PROVE  SettingInv'
  <1>1. RestType
    BY TypeParts, Zenon
  <1>2. /\ UNCHANGED <<act, arm, plan, retry, snapPower, snapBreakIn, powerChanged, breakInChanged, outstanding>>
        /\ UNCHANGED <<power, breakIn, orig, turned>>
    BY Zenon DEF RadioReads, supState, supVars, armVars, actVars, snapVars, radio
  <1>3. /\ answer' \in [kind : {"Read"}, val : Int] /\ answer'.kind = "Read"
        /\ outstanding.kind \in {"SnapPower", "VerifyPower", "PowerAtMost"} => answer'.val = power
        /\ outstanding.kind \in {"SnapBreakIn", "VerifyBreakIn"} => answer'.val = breakIn
        /\ outstanding.kind \notin WriteKinds
    BY <1>1, PowerAssumption, BreakInAssumption
    DEF RadioReads, Reads, RestType, WriteKinds, InCw, NotCw, OnAir
  <1>4. ArmInv'
    BY <1>2, Zenon DEF SettingInv, ArmInv, ArmOrder, Before
  <1>5. SaysInv'
    BY <1>2, <1>3, Kinds, Zenon DEF SaysInv
  <1>6. PowerInv'
    BY <1>2, <1>3, Zenon DEF SettingInv, PowerInv, Has
  <1>7. BreakInInv'
    BY <1>2, <1>3, Zenon DEF SettingInv, BreakInInv, Has
  <1> QED BY <1>4, <1>5, <1>6, <1>7, Zenon DEF SettingInv

\* A write lands, is lost or fails, or somebody turns the knob.
LEMMA WritesSetting ==
  ASSUME TypeInv, SettingInv, RadioWrites \/ RadioLosesAck \/ RadioIgnores \/ RadioFails \/ PanelPower
  PROVE  SettingInv'
  <1>1. RestType /\ OutInv
    BY TypeParts, Zenon
  <1>2. UNCHANGED <<act, arm, plan, retry, snapPower, snapBreakIn, powerChanged, breakInChanged, outstanding, orig>>
    BY Zenon DEF RadioWrites, RadioLosesAck, RadioIgnores, RadioFails, PanelPower, Lands, supState, supVars, armVars,
       actVars, snapVars, radio
  <1>3. ArmInv'
    BY <1>2 DEF SettingInv, ArmInv, ArmOrder, Before
  <1>4. CASE PanelPower
    <2>1. turned' /\ UNCHANGED <<answer, breakIn>>
      BY <1>4, Zenon DEF PanelPower
    <2>2. SaysInv'
      BY <1>2, <2>1, Zenon DEF SettingInv, SaysInv
    <2>3. PowerInv'
      BY <2>1, Zenon DEF PowerInv
    <2>4. BreakInInv'
      BY <1>2, <2>1, Zenon DEF SettingInv, BreakInInv, Has
    <2> QED BY <1>3, <2>2, <2>3, <2>4, Zenon DEF SettingInv
  <1>5. CASE RadioWrites \/ RadioLosesAck \/ RadioIgnores \/ RadioFails
    <2>1. /\ answer' \in {Done, Failed} /\ turned' = turned
          /\ answer' = Done => outstanding.kind \in WriteKinds
      BY <1>5, FaultAssumption, AnswerKinds, Zenon DEF RadioWrites, RadioLosesAck, RadioIgnores, RadioFails, Lands, radio
    <2>2. answer'.kind # "Read"
      BY <2>1, Kinds, Zenon
    <2>3. /\ power' = power \/ (outstanding.kind = "SetPower" /\ power' = outstanding.val)
          /\ breakIn' = breakIn \/ (outstanding.kind = "SetBreakIn" /\ breakIn' = outstanding.val)
      BY <1>5, Zenon DEF RadioWrites, RadioLosesAck, RadioIgnores, RadioFails, Lands, radio
    <2>4. SaysInv'
      BY <1>2, <2>1, <2>2, Zenon DEF SaysInv
    <2>5. act = "Arming" => /\ outstanding.kind = "SetPower" => outstanding.val = LowPower
                            /\ outstanding.kind = "SetBreakIn" => outstanding.val = BreakInWanted
      BY <1>1, StepFacts, Zenon DEF OutInv
    <2>6. arm # NoOne => outstanding.kind \notin {"SetPower", "SetBreakIn"}
      BY StepFacts, Zenon DEF SettingInv, ArmInv
    <2>7. /\ outstanding.kind = "SetPower" => powerChanged
          /\ outstanding.kind = "SetBreakIn" => breakInChanged
      BY Zenon DEF SettingInv, ArmInv
    <2>8. \A v : outstanding = Step("VerifyPower", v) => outstanding.kind = "VerifyPower"
      BY DEF Step
    <2>9. \A v : outstanding = Step("VerifyBreakIn", v) => outstanding.kind = "VerifyBreakIn"
      BY DEF Step
    <2>10. PowerInv'
      BY <1>2, <2>1, <2>2, <2>3, <2>5, <2>6, <2>7, <2>8, Zenon DEF SettingInv, PowerInv, Has
    <2>11. BreakInInv'
      BY <1>2, <2>1, <2>2, <2>3, <2>5, <2>6, <2>7, <2>9, Zenon DEF SettingInv, BreakInInv, Has
    <2> QED BY <1>3, <2>4, <2>10, <2>11, Zenon DEF SettingInv
  <1> QED BY <1>4, <1>5, Zenon
-----------------------------------------------------------------------------
(* Every action is one of these moves.                                     *)

LEMMA SupKept == UNCHANGED supVars => PlanKept
  BY Zenon DEF supVars, armVars, actVars, snapVars, PlanKept

LEMMA StopSetting ==
  ASSUME TypeInv, SettingInv, RadioKept, WireKept \/ WireTaken, act = "Sending",
         NEW st, NEW t, NEW wire, BeginStop(st, t, wire)
  PROVE  SettingInv'
  <1>1. arm # NoOne
    BY TypeParts, Zenon DEF SupInv, SupShape
  <1>2. arm' = arm /\ act' = "Stopping" /\ UNCHANGED snapVars
    BY Zenon DEF BeginStop
  <1> QED BY <1>1, <1>2, SettingArmed, Zenon

LEMMA EndArmSetting ==
  ASSUME TypeInv, SettingInv, RadioKept, WireKept, arm # NoOne, NEW t, EndArm(t)
  PROVE  SettingInv'
  <1>1. SupInv
    BY TypeParts, Zenon
  <1>2. CASE act = "Sending"
    BY <1>2, StopSetting, Zenon DEF EndArm
  <1>3. CASE act = "Stopping"
    BY <1>3, SettingKept, Zenon DEF EndArm, armVars, snapVars, PlanKept
  <1>4. CASE act = "Idle"
    BY <1>1, <1>4, SettingRestore, Zenon DEF EndArm, SupInv, SupType
  <1> QED BY <1>1, <1>2, <1>3, <1>4, Zenon DEF SupInv, SupShape, SupType, ActType

LEMMA RefuseSetting ==
  ASSUME TypeInv, SettingInv, RadioKept, WireKept \/ WireTaken, act = "Arming", RefuseArm
  PROVE  SettingInv'
  <1>1. SupInv /\ arm = NoOne
    BY TypeParts, Zenon DEF SupInv, SupShape
  <1>2. CASE powerChanged \/ breakInChanged
    BY <1>1, <1>2, SettingRestore, Zenon DEF RefuseArm, SupInv, SupType
  <1>3. CASE ~powerChanged /\ ~breakInChanged
    BY <1>1, <1>3, SettingRefused, Zenon DEF RefuseArm, armVars
  <1> QED BY <1>2, <1>3, Zenon

LEMMA FailSetting ==
  ASSUME TypeInv, SettingInv, RadioKept, WireTaken, Fail
  PROVE  SettingInv'
  <1>1. SupInv /\ OutInv
    BY TypeParts, Zenon
  <1>2. CASE act = "Idle"
    BY <1>1, <1>2, SupKept, SettingTaken, Zenon DEF Fail
  <1>3. CASE act = "Arming"
    BY <1>3, RefuseSetting, Zenon DEF Fail
  <1>4. CASE act = "Sending"
    BY <1>4, StopSetting, Zenon DEF Fail
  <1>5. CASE act = "Stopping"
    <2>1. UNCHANGED <<arm, act, snapVars>>
      BY <1>5, Zenon DEF Fail, FailStopping, armVars, actVars
    <2> QED BY <1>1, <1>5, <2>1, SettingArmed, Zenon DEF SupInv, SupShape
  <1>6. CASE act = "Restoring"
    <2>1. UNCHANGED <<arm, act, snapVars>> /\ retry' # "none" /\ plan' = <<>>
      BY <1>6, Zenon DEF Fail, FailRestoring, armVars
    <2> QED BY <1>1, <1>6, <2>1, SettingRetries, Zenon DEF SupInv, SupShape
  <1> QED BY <1>1, <1>2, <1>3, <1>4, <1>5, <1>6, Zenon DEF SupInv, SupType, ActType

LEMMA RequestSetting ==
  ASSUME TypeInv, SettingInv, Requests
  PROVE  SettingInv'
  <1>1. SupInv
    BY TypeParts, Zenon
  <1>2. RadioKept /\ WireKept
    BY Zenon DEF Requests, Arm, Send, Abort, Disarm, Detached, Shutdown, Request, radio, RadioKept, WireKept
  <1>3. ASSUME NEW c \in Consoles, Arm(c) PROVE SettingInv'
    <2>1. act = "Idle" /\ arm = NoOne
      BY <1>1, <1>3, Zenon DEF Arm, SupInv, SupShape, SupType, ActType
    <2> QED BY <1>2, <1>3, <2>1, SettingArm, Zenon DEF Arm, armVars
  <1>4. ASSUME NEW c \in Consoles, Send(c) PROVE SettingInv'
    <2>1. arm # NoOne
      BY <1>4, NoOneAssumption, Zenon DEF Send
    <2> QED BY <1>2, <1>4, <2>1, SettingArmed, Zenon DEF Send
  <1>5. CASE Abort
    BY <1>2, <1>5, StopSetting, Zenon DEF Abort
  <1>6. ASSUME NEW c \in Consoles, Disarm(c) PROVE SettingInv'
    BY <1>2, <1>6, NoOneAssumption, EndArmSetting, Zenon DEF Disarm
  <1>7. ASSUME NEW c \in Consoles, Detached(c) PROVE SettingInv'
    BY <1>2, <1>7, NoOneAssumption, EndArmSetting, RefuseSetting, Zenon DEF Detached
  <1>8. CASE Shutdown
    BY <1>2, <1>8, EndArmSetting, RefuseSetting, SupKept, SettingKept, Zenon DEF Shutdown
  <1> QED BY <1>3, <1>4, <1>5, <1>6, <1>7, <1>8, Zenon DEF Requests

LEMMA NextActionSetting ==
  ASSUME TypeInv, SettingInv, NextAction
  PROVE  SettingInv'
  <1>1. SupInv /\ RadioKept /\ WireKept
    BY TypeParts, Zenon DEF NextAction, Call, radio, RadioKept, WireKept
  <1>2. CASE act = "Sending" /\ BeginStop(FALSE, NoTicket, NoStep)
    BY <1>1, <1>2, StopSetting, Zenon
  <1>3. CASE act = "Idle" /\ arm # NoOne /\ StartRestore(NoTicket)
    BY <1>1, <1>3, SettingRestore, Zenon DEF SupInv, SupType
  <1>4. CASE UNCHANGED supVars
    BY <1>1, <1>4, SupKept, SettingKept, Zenon
  <1> QED BY <1>2, <1>3, <1>4, Zenon DEF NextAction, CheckTimers

LEMMA TurnFinishSetting ==
  ASSUME TypeInv, SettingInv, TurnFinish
  PROVE  SettingInv'
  <1>1. /\ SupInv /\ RadioKept /\ WireKept /\ plan = <<>> /\ outstanding = NoStep
    BY TypeParts, Zenon DEF TurnFinish, Call, radio, RadioKept, WireKept, RestType
  <1>2. PICK more \in BOOLEAN : Finish(more)
    BY Zenon DEF TurnFinish
  <1>3. SnapType /\ ActType /\ SupShape
    BY <1>1, Zenon DEF SupInv, SupType
  <1>4. CASE UNCHANGED supVars
    BY <1>1, <1>4, SupKept, SettingKept, Zenon
  <1>5. CASE act = "Arming" /\ Armed
    <2>1. /\ UNCHANGED snapVars /\ act' = "Idle" /\ arm' # NoOne /\ plan' = plan
      BY <1>3, <1>5, Zenon DEF Armed, SupShape
    <2> QED BY <1>1, <1>5, <2>1, SettingGranted, Zenon
  <1>6. CASE act \in {"Sending", "Stopping"} /\ act' = "Idle" /\ arm' = arm /\ UNCHANGED snapVars
    BY <1>1, <1>3, <1>6, SettingArmed, Zenon DEF SupShape, WireKept
  <1>7. CASE act = "Stopping" /\ StartRestore(ticket)
    BY <1>1, <1>3, <1>7, SettingRestore, Zenon DEF SupShape, WireKept
  <1>8. CASE act = "Restoring" /\ PlanRestore /\ UNCHANGED <<act, arm, snapVars>>
    BY <1>1, <1>3, <1>8, SettingRetry, Zenon DEF SupShape
  <1>9. CASE act = "Restoring" /\ retry = "none" /\ Restored
    <2>1. ClearSnap /\ act' = "Idle" /\ arm' = arm /\ plan' = plan
      BY <1>9, Zenon DEF Restored, armVars
    <2> QED BY <1>1, <1>3, <1>9, <2>1, SettingRestored, Zenon DEF SupShape
  <1> QED BY <1>2, <1>4, <1>5, <1>6, <1>7, <1>8, <1>9, Zenon DEF Finish, armVars
LEMMA TurnSetting ==
  ASSUME TypeInv, SettingInv, TurnWait \/ TurnWaited \/ TurnIssue
  PROVE  SettingInv'
  <1>1. SupInv /\ RestType /\ AnswerInv
    BY TypeParts, Zenon
  <1>2. RadioKept /\ UNCHANGED answer /\ outstanding = NoStep /\ answer = NoAnswer
    BY <1>1, Zenon DEF TurnWait, TurnWaited, TurnIssue, Call, radio, RadioKept, RestType, AnswerInv
  <1>3. SnapType /\ ActType /\ SupShape /\ PlanInv
    BY <1>1, Zenon DEF SupInv, SupType
  <1>4. CASE TurnWait
    BY <1>2, <1>4, SupKept, SettingKept, Zenon DEF TurnWait, WireKept
  <1>5. CASE TurnWaited \/ TurnIssue
    <2>1. /\ plan # <<>> /\ plan' = Tail(plan) /\ UNCHANGED <<act, arm, snapPower, snapBreakIn, retry>>
          /\ \/ Head(plan).kind = "WaitKeyed" /\ UNCHANGED <<outstanding, powerChanged, breakInChanged>>
             \/ HandsOver
      BY <1>5, Zenon DEF TurnWaited, TurnIssue, HandsOver, armVars, snapVars, actVars
    <2>2. CASE act = "Arming"
      <3>1. plan \in Seq(ArmStep) /\ arm = NoOne
        BY <1>3, <2>2, Zenon DEF PlanInv, SupShape
      <3>2. Head(plan) \in ArmStep
        BY <2>1, <3>1
      <3>3. HandsOver
        BY <2>1, <3>2, StepFacts, Zenon
      <3> QED BY <1>2, <1>3, <2>1, <2>2, <3>1, <3>3, SettingArmTail, Zenon
    <2>3. CASE act = "Restoring"
      <3>1. plan \in Seq(RestoreStep) /\ arm = NoOne
        BY <1>3, <2>3, Zenon DEF PlanInv, SupShape
      <3> QED BY <1>2, <1>3, <2>1, <2>3, <3>1, SettingRestoreTail, Zenon
    <2>4. CASE act \in {"Sending", "Stopping"}
      <3>1. arm # NoOne
        BY <1>3, <2>4, Zenon DEF SupShape
      <3>2. Head(plan) \in JobStep \cup StopStep
        <4>1. CASE act = "Sending"
          BY <1>3, <2>1, <4>1 DEF PlanInv, JobPlan
        <4>2. CASE act = "Stopping"
          BY <1>3, <2>1, <4>2 DEF PlanInv
        <4> QED BY <2>4, <4>1, <4>2, Zenon
      <3>3. Head(plan).kind \notin {"SetPower", "SetBreakIn"}
        BY <3>2, StepFacts, Zenon
      <3>4. UNCHANGED snapVars /\ outstanding' \in JobStep \cup StopStep \cup {NoStep}
        BY <1>2, <1>3, <2>1, <3>2, <3>3, Zenon DEF HandsOver, SnapType, snapVars
      <3> QED BY <1>2, <2>1, <2>4, <3>1, <3>4, SettingJobTail, Zenon
    <2>5. act # "Idle"
      BY <1>3, <2>1, Zenon DEF PlanInv
    <2> QED BY <1>3, <2>2, <2>3, <2>4, <2>5, Zenon DEF ActType
  <1> QED BY <1>4, <1>5, Zenon

LEMMA CompleteSetting ==
  ASSUME TypeInv, SettingInv, Complete
  PROVE  SettingInv'
  <1>1. SupInv /\ OutInv /\ RestType /\ AnswerInv
    BY TypeParts, Zenon
  <1>2. SupShape /\ ActType /\ SnapType
    BY <1>1, Zenon DEF SupInv, SupType
  <1>3. RadioKept /\ WireTaken
    BY Zenon DEF Complete, CompleteFailed, CompleteStatus, CompleteSpeed, CompleteSnapPower, CompleteSnapBreakIn,
       CompleteVerify, CompletePowerAtMost, CompleteStop, CompleteSet, CompleteReady, CompleteSend, Completes,
       Takes, radio, RadioKept, WireTaken
  <1>4. CASE CompleteFailed
    BY <1>3, <1>4, FailSetting, Zenon DEF CompleteFailed
  <1>5. CASE CompleteStatus
    <2>1. outstanding.kind = "Status" /\ OnStatus(answer.val)
      BY <1>5, Zenon DEF CompleteStatus, Completes, Takes
    <2>2. CASE UNCHANGED supVars
      BY <1>1, <1>3, <2>1, <2>2, SupKept, SettingTaken, Zenon DEF Snaps
    <2>3. CASE act = "Arming" /\ RefuseArm
      BY <1>3, <2>3, RefuseSetting, Zenon
    <2>4. CASE act = "Sending" /\ BeginStop(TRUE, NoTicket, NoStep)
      BY <1>3, <2>4, StopSetting, Zenon
    <2>5. CASE act = "Sending" /\ UNCHANGED <<act, arm, snapVars>>
      BY <1>2, <1>3, <2>5, SettingArmed, Zenon DEF SupShape
    <2> QED BY <2>1, <2>2, <2>3, <2>4, <2>5, Zenon DEF OnStatus, OnStatusArming, OnStatusSending, armVars, actVars
  <1>6. CASE CompleteSpeed
    <2>1. outstanding.kind = "CheckSpeed" /\ OnSpeed(answer.val)
      BY <1>6, Zenon DEF CompleteSpeed, Completes, Takes
    <2>2. CASE UNCHANGED supVars
      BY <1>1, <1>3, <2>1, <2>2, SupKept, SettingTaken, Zenon DEF Snaps
    <2>3. CASE act = "Sending" /\ BeginStop(TRUE, NoTicket, NoStep)
      BY <1>3, <2>3, StopSetting, Zenon
    <2>4. CASE act = "Sending" /\ UNCHANGED <<act, arm, snapVars>>
      BY <1>2, <1>3, <2>4, SettingArmed, Zenon DEF SupShape
    <2> QED BY <2>1, <2>2, <2>3, <2>4, Zenon DEF OnSpeed, armVars, actVars
  <1>7. CASE CompleteVerify
    <2>1. outstanding.kind \in {"VerifyPower", "VerifyBreakIn"} /\ answer # NoAnswer /\ answer # Failed
      BY <1>7, Zenon DEF CompleteVerify, Completes, Takes
    <2>2. answer.kind = "Read"
      BY <2>1, Zenon DEF SettingInv, SaysInv, WriteKinds
    <2>3. /\ ~turned /\ outstanding.kind = "VerifyPower" => answer.val = power
          /\ outstanding.kind = "VerifyBreakIn" => answer.val = breakIn
      BY <2>2, Zenon DEF SettingInv, PowerInv, BreakInInv
    <2>4. CASE answer.val = outstanding.val /\ UNCHANGED supVars
      BY <1>1, <1>3, <2>1, <2>3, <2>4, SupKept, SettingTaken, Zenon DEF Snaps
    <2>5. CASE Fail
      BY <1>3, <2>5, FailSetting, Zenon
    <2> QED BY <1>7, <2>4, <2>5, Zenon DEF CompleteVerify
  <1>8. CASE CompletePowerAtMost
    <2>1. outstanding.kind = "PowerAtMost" /\ act \in {"Sending", "Stopping"}
      BY <1>8, Zenon DEF CompletePowerAtMost, Completes, Takes, SettingInv, ArmInv
    <2>2. CASE UNCHANGED supVars
      BY <1>1, <1>3, <2>1, <2>2, SupKept, SettingTaken, Zenon DEF Snaps
    <2>3. CASE act = "Sending" /\ BeginStop(FALSE, NoTicket, NoStep)
      BY <1>3, <2>3, StopSetting, Zenon
    <2>4. CASE act = "Stopping" /\ StartRestore(NoTicket)
      BY <1>2, <1>3, <2>4, SettingRestore, Zenon DEF SupShape, WireTaken
    <2> QED BY <1>8, <2>1, <2>2, <2>3, <2>4, Zenon DEF CompletePowerAtMost, BeginStop
  <1>9. CASE CompleteStop \/ CompleteSet
    <2>1. outstanding.kind \in {"Stop", "SetPower", "SetBreakIn"} /\ UNCHANGED supVars
      BY <1>9, Zenon DEF CompleteStop, CompleteSet, Completes, Takes
    <2> QED BY <1>1, <1>3, <2>1, SupKept, SettingTaken, Zenon DEF Snaps
  <1>10. CASE CompleteReady \/ CompleteSend
    <2>1. outstanding.kind \in {"Send", "WaitReady"} /\ UNCHANGED <<act, arm, snapVars>>
      BY <1>10, Zenon DEF CompleteReady, CompleteSend, OnSent, Completes, Takes, armVars, actVars
    <2>2. act \in {"Sending", "Stopping"}
      BY <1>1, <1>2, <2>1, Zenon DEF OutInv, ActType
    <2> QED BY <1>2, <1>3, <2>1, <2>2, SettingArmed, Zenon DEF SupShape
  <1> QED BY <1>4, <1>5, <1>6, <1>7, <1>8, <1>9, <1>10, SnapPowerSetting, SnapBreakInSetting, Zenon DEF Complete

LEMMA SettingInitOK == Init => SettingInv
  <1> SUFFICES ASSUME Init PROVE SettingInv
    OBVIOUS
  <1>1. /\ act = "Idle" /\ arm = NoOne /\ outstanding.kind = "None" /\ answer.kind = "None"
        /\ ~powerChanged /\ ~breakInChanged /\ snapPower = NoValue /\ snapBreakIn = NoValue
        /\ power = orig.power /\ breakIn = orig.breakIn
    BY Kinds, Zenon DEF Init
  <1>2. ArmInv
    BY <1>1, Zenon DEF ArmInv, Snaps
  <1>3. SaysInv
    BY <1>1, Kinds, Zenon DEF SaysInv, Init
  <1>4. PowerInv /\ BreakInInv
    BY <1>1, Zenon DEF PowerInv, BreakInInv
  <1> QED BY <1>2, <1>3, <1>4, Zenon DEF SettingInv

LEMMA SettingStepOK == TypeInv /\ SettingInv /\ [Next]_vars => SettingInv'
  <1> SUFFICES ASSUME TypeInv, SettingInv, [Next]_vars PROVE SettingInv'
    OBVIOUS
  <1>1. CASE UNCHANGED vars
    BY <1>1, SupKept, SettingKept, Zenon DEF vars, radio, RadioKept, WireKept
  <1>2. CASE Time
    <2>1. RadioKept /\ WireKept
      BY <1>2, Zenon DEF Time, Tick, WatchdogPasses, IdlePasses, IdIntervalPasses, RetryPasses, ReadyRetryPasses, Clock,
         RadioKept, WireKept
    <2>2. PlanKept
      BY <1>2, Zenon DEF Time, Tick, WatchdogPasses, IdlePasses, IdIntervalPasses, RetryPasses, ReadyRetryPasses, Clock,
         PlanKept, snapVars
    <2> QED BY <2>1, <2>2, SettingKept, Zenon
  <1>3. CASE Radio
    BY <1>3, ReadsSetting, WritesSetting, Zenon DEF Radio
  <1> QED BY <1>1, <1>2, <1>3, RequestSetting, NextActionSetting, TurnFinishSetting, TurnSetting, CompleteSetting, Zenon
      DEF Next, Turns
-----------------------------------------------------------------------------
(* Who waits for the supervisor.                                           *)

\* A ticket is held only by what answers it, and nothing else is open.
HeldInv ==
    /\ stay => act = "Stopping"
    /\ act \in {"Idle", "Sending"} \/ stay => ticket = NoTicket
    /\ TicketsHeld /\ JobsHeld

Held == UNCHANGED <<stay, act, ticket, job, open, live, turned>>

LEMMA HeldKept == HeldInv /\ Held => HeldInv'
  BY DEF HeldInv, Held, TicketsHeld, JobsHeld

LEMMA StartRestoreHeld ==
  ASSUME HeldInv, NEW t, StartRestore(t), turned' = turned,
         ~turned => open' = {t} \ {NoTicket} /\ live' = {}
  PROVE  HeldInv'
  <1>1. act' = "Restoring" /\ ticket' = t /\ job' = NoJob /\ stay' = FALSE
    BY Zenon DEF StartRestore
  <1> QED BY <1>1, Zenon DEF HeldInv, TicketsHeld, JobsHeld

\* A stop of a running job keeps the job, and takes the ticket of what asked for it.
LEMMA StopHeld ==
  ASSUME HeldInv, act = "Sending", NEW st \in BOOLEAN, NEW t, NEW wire, BeginStop(st, t, wire),
         UNCHANGED <<live, turned>>, st => t = NoTicket,
         \/ t = NoTicket /\ open' = open
         \/ t # NoTicket /\ open' = open \cup {t}
  PROVE  HeldInv'
  <1>1. act' = "Stopping" /\ ticket' = t /\ job' = job /\ stay' = st
    BY Zenon DEF BeginStop
  <1>2. ~turned => open = {}
    BY Zenon DEF HeldInv, TicketsHeld
  <1>3. ~turned => open' = {t} \ {NoTicket}
    BY <1>2, Zenon
  <1> QED BY <1>1, <1>3, Zenon DEF HeldInv, TicketsHeld, JobsHeld

LEMMA EndArmHeld ==
  ASSUME SupInv, HeldInv, arm # NoOne, NEW t, EndArm(t), UNCHANGED <<live, turned>>,
         \/ t = NoTicket /\ open' = open
         \/ t # NoTicket /\ open' = open \cup {t} /\ ~(act = "Stopping" /\ ~stay /\ ticket # NoTicket)
  PROVE  HeldInv'
  <1>1. CASE act = "Sending"
    BY <1>1, StopHeld, Zenon DEF EndArm
  <1>2. CASE act = "Stopping"
    <2>1. UNCHANGED <<act, job>> /\ stay' = FALSE
          /\ ticket' = (IF stay \/ ticket = NoTicket THEN t ELSE ticket)
      BY <1>2, Zenon DEF EndArm
    <2>2. CASE t = NoTicket
      <3>1. ticket' = ticket
        BY <2>1, <2>2, Zenon DEF HeldInv
      <3> QED BY <1>2, <2>1, <2>2, <3>1, Zenon DEF HeldInv, TicketsHeld, JobsHeld
    <2>3. CASE t # NoTicket
      <3>1. ticket = NoTicket /\ ticket' = t
        BY <1>2, <2>1, <2>3, Zenon DEF HeldInv, SupInv, SupType, ActType
      <3>2. ~turned => open' = {t}
        BY <2>3, <3>1, Zenon DEF HeldInv, TicketsHeld
      <3> QED BY <1>2, <2>1, <2>3, <3>1, <3>2 DEF HeldInv, TicketsHeld, JobsHeld
    <2> QED BY <2>2, <2>3, Zenon
  <1>3. CASE act = "Idle"
    <2>1. job = NoJob /\ ticket = NoTicket
      BY <1>3, Zenon DEF HeldInv, SupInv, SupShape
    <2>2. ~turned => open' = {t} \ {NoTicket} /\ live' = {}
      BY <2>1, Zenon DEF HeldInv, TicketsHeld, JobsHeld
    <2> QED BY <1>3, <2>2, StartRestoreHeld, Zenon DEF EndArm
  <1> QED BY <1>1, <1>2, <1>3, Zenon DEF SupInv, SupShape, SupType, ActType

LEMMA RefuseHeld ==
  ASSUME SupInv, HeldInv, act = "Arming", RefuseArm, UNCHANGED <<live, turned>>
  PROVE  HeldInv'
  <1>1. job = NoJob /\ ~stay
    BY Zenon DEF HeldInv, SupInv, SupShape, SupType, ActType
  <1>2. ~turned => open' = {} /\ live' = {}
    BY <1>1, Zenon DEF HeldInv, TicketsHeld, JobsHeld, RefuseArm, Reply
  <1>3. CASE StartRestore(NoTicket)
    BY <1>2, <1>3, StartRestoreHeld, Zenon
  <1>4. CASE act' = "Idle" /\ ticket' = NoTicket /\ UNCHANGED <<stay, job>>
    BY <1>1, <1>2, <1>4, Zenon DEF HeldInv, TicketsHeld, JobsHeld
  <1> QED BY <1>3, <1>4, Zenon DEF RefuseArm

LEMMA FailHeld ==
  ASSUME SupInv, HeldInv, Fail, UNCHANGED <<live, turned>>
  PROVE  HeldInv'
  <1>1. CASE act = "Idle"
    BY <1>1, HeldKept, Zenon DEF Fail, supVars, actVars, Held
  <1>2. CASE act = "Arming"
    BY <1>2, RefuseHeld, Zenon DEF Fail
  <1>3. CASE act = "Sending"
    BY <1>3, StopHeld, Zenon DEF Fail
  <1>4. CASE act = "Stopping"
    BY <1>4, HeldKept, Zenon DEF Fail, FailStopping, actVars, Held
  <1>5. CASE act = "Restoring"
    <2>1. UNCHANGED <<act, stay, job>> /\ ticket' = NoTicket /\ open' = open \ {ticket}
      BY <1>5, Zenon DEF Fail, FailRestoring, Reply
    <2> QED BY <1>5, <2>1, Zenon DEF HeldInv, TicketsHeld, JobsHeld
  <1> QED BY <1>1, <1>2, <1>3, <1>4, <1>5, Zenon DEF SupInv, SupType, ActType

LEMMA RequestHeld ==
  ASSUME TypeInv, HeldInv, Requests
  PROVE  HeldInv'
  <1>1. SupInv
    BY TypeParts, Zenon
  <1>2. turned' = turned
    BY Zenon DEF Requests, Arm, Send, Abort, Disarm, Detached, Shutdown, Request, radio
  <1>3. ASSUME NEW c \in Consoles, Arm(c) PROVE HeldInv'
    <2>1. act = "Idle" /\ job = NoJob
      BY <1>1, <1>3, Zenon DEF Arm, SupInv, SupShape, SupType, ActType
    <2>2. PICK t \in Tickets \ open : ticket' = t /\ open' = open \cup {t}
      BY <1>3, Zenon DEF Arm
    <2>3. act' = "Arming" /\ UNCHANGED <<stay, job, live>>
      BY <1>3, Zenon DEF Arm
    <2>4. ~turned => open = {}
      BY <2>1, Zenon DEF HeldInv, TicketsHeld
    <2>5. ~turned => open' = {t} \ {NoTicket}
      BY <2>2, <2>4, NoTicketAssumption, Zenon
    <2> QED BY <1>2, <2>1, <2>2, <2>3, <2>5, Zenon DEF HeldInv, TicketsHeld, JobsHeld
  <1>4. ASSUME NEW c \in Consoles, Send(c) PROVE HeldInv'
    <2>1. act = "Idle" /\ job = NoJob
      BY <1>1, <1>4, Zenon DEF Send, SupInv, SupShape
    <2>2. PICK j \in Jobs \ live : job' = j /\ live' = live \cup {j}
      BY <1>4, Zenon DEF Send
    <2>3. act' = "Sending" /\ UNCHANGED <<stay, ticket, open>>
      BY <1>4, Zenon DEF Send
    <2>4. ~turned => live = {}
      BY <2>1, Zenon DEF HeldInv, JobsHeld
    <2>5. ~turned => live' = {j} \ {NoJob}
      BY <2>2, <2>4, NoJobAssumption, Zenon
    <2> QED BY <1>2, <2>1, <2>2, <2>3, <2>5, Zenon DEF HeldInv, TicketsHeld, JobsHeld
  <1>5. CASE Abort
    BY <1>2, <1>5, StopHeld, Zenon DEF Abort
  <1>6. ASSUME NEW c \in Consoles, Disarm(c) PROVE HeldInv'
    <2>1. PICK t \in Tickets \ open : EndArm(t) /\ open' = open \cup {t}
      BY <1>6, Zenon DEF Disarm
    <2>2. t # NoTicket /\ arm # NoOne /\ live' = live
      BY <1>6, NoTicketAssumption, NoOneAssumption, Zenon DEF Disarm
    <2> QED BY <1>1, <1>2, <1>6, <2>1, <2>2, EndArmHeld, Zenon DEF Disarm
  <1>7. ASSUME NEW c \in Consoles, Detached(c) PROVE HeldInv'
    BY <1>1, <1>2, <1>7, NoOneAssumption, EndArmHeld, RefuseHeld, Zenon DEF Detached
  <1>8. CASE Shutdown
    <2>1. CASE UNCHANGED <<supVars, open>>
      BY <1>2, <1>8, <2>1, HeldKept, Zenon DEF Shutdown, supVars, actVars, Held
    <2> QED BY <1>1, <1>2, <1>8, <2>1, EndArmHeld, RefuseHeld, Zenon DEF Shutdown
  <1> QED BY <1>3, <1>4, <1>5, <1>6, <1>7, <1>8, Zenon DEF Requests
LEMMA TurnHeld ==
  ASSUME TypeInv, HeldInv, NextAction \/ Turns
  PROVE  HeldInv'
  <1>1. SupInv
    BY TypeParts, Zenon
  <1>2. turned' = turned
    BY Zenon DEF NextAction, Turns, TurnFinish, TurnWait, TurnWaited, TurnIssue, Call, radio
  <1>3. CASE NextAction
    <2>1. UNCHANGED <<open, live>>
      BY <1>3, Zenon DEF NextAction
    <2>2. CASE act = "Sending" /\ BeginStop(FALSE, NoTicket, NoStep)
      BY <1>2, <2>1, <2>2, StopHeld, Zenon
    <2>3. CASE act = "Idle" /\ StartRestore(NoTicket)
      <3>1. job = NoJob /\ ticket = NoTicket
        BY <1>1, <2>3, Zenon DEF HeldInv, SupInv, SupShape
      <3>2. ~turned => open' = {NoTicket} \ {NoTicket} /\ live' = {}
        BY <2>1, <3>1, Zenon DEF HeldInv, TicketsHeld, JobsHeld
      <3> QED BY <1>2, <2>3, <3>2, StartRestoreHeld, Zenon
    <2>4. CASE UNCHANGED supVars
      BY <1>2, <2>1, <2>4, HeldKept, Zenon DEF supVars, actVars, Held
    <2> QED BY <1>3, <2>2, <2>3, <2>4, Zenon DEF NextAction, CheckTimers
  <1>4. CASE TurnWait \/ TurnWaited \/ TurnIssue
    BY <1>2, <1>4, HeldKept, Zenon DEF TurnWait, TurnWaited, TurnIssue, supVars, actVars, Held
  <1>5. CASE TurnFinish
    <2>1. PICK more \in BOOLEAN : Finish(more)
      BY <1>5, Zenon DEF TurnFinish
    <2>2. CASE UNCHANGED <<supVars, open, live>>
      BY <1>2, <2>2, HeldKept, Zenon DEF supVars, actVars, Held
    <2>3. CASE (act = "Arming" /\ Armed) \/ (act = "Restoring" /\ Restored)
      <3>1. /\ act' = "Idle" /\ ticket' = NoTicket /\ open' = open \ {ticket} /\ UNCHANGED <<stay, job, live>>
        BY <2>3, Zenon DEF Armed, Restored, Reply
      <3>2. ~stay /\ job = NoJob
        BY <1>1, <2>3, Zenon DEF HeldInv, SupInv, SupShape, SupType, ActType
      <3>3. ~turned => open' = {} /\ live' = {}
        BY <3>1, <3>2, Zenon DEF HeldInv, TicketsHeld, JobsHeld
      <3> QED BY <1>2, <3>1, <3>2, <3>3, Zenon DEF HeldInv, TicketsHeld, JobsHeld
    <2>4. CASE /\ \/ act = "Sending" /\ stay' = stay
                  \/ act = "Stopping" /\ stay /\ stay' = FALSE
               /\ EndJob /\ act' = "Idle" /\ job' = NoJob /\ UNCHANGED <<ticket, open>>
      <3>1. ticket = NoTicket /\ stay' = FALSE
        BY <1>1, <2>4, Zenon DEF HeldInv, SupInv, SupType, ActType
      <3>2. ~turned => open' = {} /\ live' = {}
        BY <2>4, <3>1, Zenon DEF HeldInv, TicketsHeld, JobsHeld, EndJob
      <3> QED BY <1>2, <2>4, <3>1, <3>2, Zenon DEF HeldInv, TicketsHeld, JobsHeld
    <2>5. CASE act = "Stopping" /\ EndJob /\ StartRestore(ticket) /\ UNCHANGED open
      <3>1. ~turned => open' = {ticket} \ {NoTicket} /\ live' = {}
        BY <2>5, Zenon DEF HeldInv, TicketsHeld, JobsHeld, EndJob
      <3> QED BY <1>2, <2>5, <3>1, StartRestoreHeld, Zenon
    <2>6. CASE UNCHANGED <<stay, act, ticket, job, open, live>>
      BY <1>2, <2>6, HeldKept, Zenon DEF Held
    <2>7. CASE act = "Sending"
      BY <2>1, <2>4, <2>7, Zenon DEF Finish
    <2>8. CASE act = "Stopping"
      BY <2>1, <2>4, <2>5, <2>8, Zenon DEF Finish
    <2>9. CASE act = "Restoring"
      BY <2>1, <2>2, <2>3, <2>6, <2>9, Zenon DEF Finish
    <2>10. CASE act \in {"Idle", "Arming"}
      BY <2>1, <2>2, <2>3, <2>10, Zenon DEF Finish
    <2> QED BY <1>1, <2>7, <2>8, <2>9, <2>10, Zenon DEF SupInv, SupType, ActType
  <1> QED BY <1>3, <1>4, <1>5, Zenon DEF Turns

LEMMA CompleteHeld ==
  ASSUME TypeInv, SettingInv, HeldInv, Complete
  PROVE  HeldInv'
  <1>1. SupInv
    BY TypeParts, Zenon
  <1>2. UNCHANGED <<live, turned>>
    BY Zenon DEF Complete, CompleteFailed, CompleteStatus, CompleteSpeed, CompleteSnapPower, CompleteSnapBreakIn,
       CompleteVerify, CompletePowerAtMost, CompleteStop, CompleteSet, CompleteReady, CompleteSend, Completes,
       Takes, radio
  <1>3. CASE CompleteFailed
    BY <1>1, <1>2, <1>3, FailHeld, Zenon DEF CompleteFailed
  <1>4. CASE CompleteVerify
    <2>1. CASE UNCHANGED <<supVars, open>>
      BY <1>2, <2>1, HeldKept, Zenon DEF supVars, actVars, Held
    <2> QED BY <1>1, <1>2, <1>4, <2>1, FailHeld, Zenon DEF CompleteVerify
  <1>5. CASE CompleteStatus
    <2>1. CASE UNCHANGED <<actVars, open>>
      BY <1>2, <2>1, HeldKept, Zenon DEF actVars, Held
    <2>2. CASE act = "Arming" /\ RefuseArm
      BY <1>1, <1>2, <2>2, RefuseHeld, Zenon
    <2>3. CASE act = "Sending" /\ BeginStop(TRUE, NoTicket, NoStep) /\ UNCHANGED open
      BY <1>2, <2>3, StopHeld, Zenon
    <2> QED BY <1>5, <2>1, <2>2, <2>3, Zenon
        DEF CompleteStatus, OnStatus, OnStatusArming, OnStatusSending, supVars
  <1>6. CASE CompleteSpeed
    <2>1. CASE UNCHANGED <<actVars, open>>
      BY <1>2, <2>1, HeldKept, Zenon DEF actVars, Held
    <2>2. CASE act = "Sending" /\ BeginStop(TRUE, NoTicket, NoStep) /\ UNCHANGED open
      BY <1>2, <2>2, StopHeld, Zenon
    <2> QED BY <1>6, <2>1, <2>2, Zenon DEF CompleteSpeed, OnSpeed, supVars
  <1>7. CASE CompletePowerAtMost
    <2>1. /\ outstanding.kind = "PowerAtMost" /\ answer # NoAnswer /\ answer # Failed /\ open' = open
          /\ act \in {"Sending", "Stopping"}
      BY <1>7, Zenon DEF CompletePowerAtMost, Completes, Takes, SettingInv, ArmInv
    <2>2. CASE UNCHANGED supVars
      BY <1>2, <2>1, <2>2, HeldKept, Zenon DEF supVars, actVars, Held
    <2>3. CASE act = "Sending" /\ BeginStop(FALSE, NoTicket, NoStep)
      BY <1>2, <2>1, <2>3, StopHeld, Zenon
    <2>4. CASE act = "Stopping" /\ answer.val > outstanding.val /\ StartRestore(NoTicket)
      <3>1. arm # NoOne
        BY <1>1, <2>4, Zenon DEF SupInv, SupShape
      <3>2. outstanding.val = LowPower
        BY <2>1, <3>1, StepFacts, Zenon DEF SettingInv, ArmInv
      <3>3. answer.kind = "Read"
        BY <2>1, Zenon DEF SettingInv, SaysInv, WriteKinds
      <3>4. ~turned => answer.val = LowPower
        BY <2>1, <3>1, <3>3, Zenon DEF SettingInv, PowerInv
      <3>5. turned
        BY <2>4, <3>2, <3>4, PowerAssumption
      <3> QED BY <1>2, <2>4, <3>5, StartRestoreHeld, Zenon
    <2> QED BY <1>7, <2>1, <2>2, <2>3, <2>4, Zenon DEF CompletePowerAtMost, BeginStop
  <1>8. CASE CompleteSnapPower \/ CompleteSnapBreakIn \/ CompleteStop \/ CompleteSet \/ CompleteReady \/ CompleteSend
    BY <1>2, <1>8, HeldKept, Zenon DEF CompleteSnapPower, CompleteSnapBreakIn, CompleteStop, CompleteSet, CompleteReady,
       CompleteSend, OnSent, supVars, actVars, Held
  <1> QED BY <1>3, <1>4, <1>5, <1>6, <1>7, <1>8, Zenon DEF Complete

LEMMA HeldInitOK == Init => HeldInv
  BY Zenon DEF Init, HeldInv, TicketsHeld, JobsHeld

LEMMA HeldStepOK == TypeInv /\ SettingInv /\ HeldInv /\ [Next]_vars => HeldInv'
  <1> SUFFICES ASSUME TypeInv, SettingInv, HeldInv, [Next]_vars PROVE HeldInv'
    OBVIOUS
  <1>1. CASE UNCHANGED vars
    BY <1>1, HeldKept, Zenon DEF vars, supVars, actVars, radio, Held
  <1>2. CASE Time
    BY <1>2, HeldKept, Zenon DEF Time, Tick, WatchdogPasses, IdlePasses, IdIntervalPasses, RetryPasses, ReadyRetryPasses,
       Clock, Held
  <1>3. CASE PanelPower
    BY <1>3, Zenon DEF PanelPower, supState, supVars, actVars, HeldInv, TicketsHeld, JobsHeld
  <1>4. CASE Radio /\ ~PanelPower
    BY <1>4, HeldKept, Zenon DEF Radio, RadioReads, RadioWrites, RadioLosesAck, RadioIgnores, RadioFails, Lands,
       supState, supVars, actVars, radio, Held
  <1> QED BY <1>1, <1>2, <1>3, <1>4, RequestHeld, TurnHeld, CompleteHeld, Zenon DEF Next
-----------------------------------------------------------------------------
(* What is keyed is keyed at the clamped power.                            *)

\* Once no arm is held and none is being taken back, and once a restore has
\* written everything, the radio is silent.
SilentInv ==
    /\ arm = NoOne /\ act \in {"Idle", "Arming"} => air = 0
    /\ act = "Restoring" /\ retry = "none" /\ plan = <<>> => air = 0
    /\ KeysOnlyClamped

\* The supervisor moves: the radio keys what it keyed.
LEMMA SilentMoves ==
  ASSUME SilentInv, UNCHANGED <<air, power, turned>>,
         (arm' = NoOne /\ act' \in {"Idle", "Arming"}) =>
            \/ arm = NoOne /\ act \in {"Idle", "Arming"}
            \/ act = "Restoring" /\ retry = "none" /\ plan = <<>>,
         (act' = "Restoring" /\ retry' = "none" /\ plan' = <<>>) =>
            air = 0 \/ (act = "Restoring" /\ retry = "none" /\ plan = <<>>)
  PROVE  SilentInv'
  BY Zenon DEF SilentInv, KeysOnlyClamped

LEMMA SilentKept ==
  ASSUME SilentInv, UNCHANGED <<air, power, turned, arm, act>>, plan' = plan,
         (retry' = "none") <=> (retry = "none")
  PROVE  SilentInv'
  BY SilentMoves, Zenon

\* A restore begins with the wait, so it does not begin silent by assumption.
LEMMA RestoreSilent ==
  ASSUME SupInv, SilentInv, UNCHANGED <<air, power, turned>>, NEW t \in Tickets \cup {NoTicket}, StartRestore(t)
  PROVE  SilentInv'
  BY StartRestoreOK, SilentMoves, Zenon

LEMMA StopSilent ==
  ASSUME SilentInv, UNCHANGED <<air, power, turned>>, act = "Sending", NEW st, NEW t, NEW wire,
         BeginStop(st, t, wire)
  PROVE  SilentInv'
  BY SilentMoves, Zenon DEF BeginStop

LEMMA EndArmSilent ==
  ASSUME SupInv, SilentInv, UNCHANGED <<air, power, turned>>, NEW t \in Tickets \cup {NoTicket}, EndArm(t)
  PROVE  SilentInv'
  <1>1. CASE act = "Sending"
    BY <1>1, StopSilent, Zenon DEF EndArm
  <1>2. CASE act = "Idle"
    BY <1>2, RestoreSilent, Zenon DEF EndArm
  <1>3. CASE UNCHANGED <<arm, act, plan, retry>>
    BY <1>3, SilentKept, Zenon
  <1>4. CASE act \in {"Stopping", "Arming", "Restoring"}
    BY <1>3, <1>4, Zenon DEF EndArm, armVars, supVars, actVars
  <1> QED BY <1>1, <1>2, <1>4, Zenon DEF SupInv, SupType, ActType

LEMMA RefuseSilent ==
  ASSUME SupInv, SilentInv, UNCHANGED <<air, power, turned>>, act = "Arming", RefuseArm
  PROVE  SilentInv'
  <1>1. arm = NoOne
    BY Zenon DEF SupInv, SupShape
  <1>2. CASE StartRestore(NoTicket)
    BY <1>2, RestoreSilent, Zenon
  <1>3. CASE act' = "Idle"
    BY <1>1, <1>3, SilentMoves, Zenon
  <1> QED BY <1>2, <1>3, Zenon DEF RefuseArm

LEMMA FailSilent ==
  ASSUME SupInv, SilentInv, UNCHANGED <<air, power, turned>>, Fail
  PROVE  SilentInv'
  <1>1. CASE act = "Idle"
    BY <1>1, SilentKept, Zenon DEF Fail, supVars, armVars, actVars
  <1>2. CASE act = "Arming"
    BY <1>2, RefuseSilent, Zenon DEF Fail
  <1>3. CASE act = "Sending"
    BY <1>3, StopSilent, Zenon DEF Fail
  <1>4. CASE act \in {"Stopping", "Restoring"}
    <2>1. act' = act /\ (act = "Restoring" => retry' # "none")
      BY <1>4, Zenon DEF Fail, FailStopping, FailRestoring, actVars
    <2> QED BY <1>4, <2>1, SilentMoves, Zenon
  <1> QED BY <1>1, <1>2, <1>3, <1>4, Zenon DEF SupInv, SupType, ActType

LEMMA RequestSilent ==
  ASSUME TypeInv, SilentInv, Requests
  PROVE  SilentInv'
  <1>1. SupInv
    BY TypeParts, Zenon
  <1>2. UNCHANGED <<air, power, turned>>
    BY Zenon DEF Requests, Arm, Send, Abort, Disarm, Detached, Shutdown, Request, radio
  <1>3. ASSUME NEW c \in Consoles, Arm(c) PROVE SilentInv'
    <2>1. act = "Idle" /\ arm = NoOne /\ act' = "Arming"
      BY <1>1, <1>3, Zenon DEF Arm, SupInv, SupShape, SupType, ActType
    <2> QED BY <1>2, <2>1, SilentMoves, Zenon
  <1>4. ASSUME NEW c \in Consoles, Send(c) PROVE SilentInv'
    BY <1>2, <1>4, SilentMoves, Zenon DEF Send
  <1>5. CASE Abort
    BY <1>2, <1>5, StopSilent, Zenon DEF Abort
  <1>6. ASSUME NEW c \in Consoles, Disarm(c) PROVE SilentInv'
    BY <1>1, <1>2, <1>6, EndArmSilent, Zenon DEF Disarm
  <1>7. ASSUME NEW c \in Consoles, Detached(c) PROVE SilentInv'
    BY <1>1, <1>2, <1>7, EndArmSilent, RefuseSilent, Zenon DEF Detached
  <1>8. CASE Shutdown
    <2>1. CASE UNCHANGED <<supVars, open>>
      BY <1>2, <2>1, SilentKept, Zenon DEF supVars, armVars, actVars
    <2> QED BY <1>1, <1>2, <1>8, <2>1, EndArmSilent, RefuseSilent, Zenon DEF Shutdown
  <1> QED BY <1>3, <1>4, <1>5, <1>6, <1>7, <1>8, Zenon DEF Requests

\* A step of the plan is waited for or handed over: a restore gets past its wait
\* only when the radio is silent.
LEMMA TurnSilent ==
  ASSUME TypeInv, AirInv, SilentInv, NextAction \/ Turns
  PROVE  SilentInv'
  <1>1. SupInv /\ RestType
    BY TypeParts, Zenon
  <1>2. UNCHANGED <<air, power, turned>>
    BY Zenon DEF NextAction, Turns, TurnFinish, TurnWait, TurnWaited, TurnIssue, Call, radio
  <1>3. CASE NextAction
    <2>1. CASE act = "Sending" /\ BeginStop(FALSE, NoTicket, NoStep)
      BY <1>2, <2>1, StopSilent, Zenon
    <2>2. CASE StartRestore(NoTicket)
      BY <1>1, <1>2, <2>2, RestoreSilent, Zenon
    <2>3. CASE UNCHANGED supVars
      BY <1>2, <2>3, SilentKept, Zenon DEF supVars, armVars, actVars
    <2> QED BY <1>3, <2>1, <2>2, <2>3, Zenon DEF NextAction, CheckTimers
  <1>4. CASE TurnWait
    BY <1>2, <1>4, SilentKept, Zenon DEF TurnWait, supVars, armVars, actVars
  <1>5. CASE TurnWaited \/ TurnIssue
    <2>1. UNCHANGED <<arm, act, retry>> /\ plan # <<>>
      BY <1>5, Zenon DEF TurnWaited, TurnIssue, armVars, actVars
    <2>2. act = "Restoring" => air = 0
      <3>1. CASE Head(plan).kind # "WaitKeyed"
        BY <2>1, <3>1, Zenon DEF AirInv
      <3>2. CASE act = "Restoring" /\ Head(plan).kind = "WaitKeyed"
        <4>1. Head(plan) \in RestoreStep
          BY <1>1, <2>1, <3>2 DEF SupInv, PlanInv
        <4>2. \A x \in RestoreStep : x.kind = "WaitKeyed" => x.val = Margin
          BY DEF RestoreStep, Step
        <4>3. keyed + Margin <= 0
          BY <1>1, <1>5, <3>2, <4>1, <4>2, MarginType DEF TurnWaited, TurnIssue, Waits, RestType
        <4>4. outstanding.kind = "None"
          BY <1>1, <1>5, NoStepKind, Zenon DEF TurnWaited, TurnIssue, RestType
        <4> QED BY <1>1, <4>3, <4>4, MarginType DEF AirInv, Max0, RestType
      <3> QED BY <3>1, <3>2, Zenon
    <2> QED BY <1>2, <2>1, <2>2, SilentMoves, Zenon
  <1>6. CASE TurnFinish
    <2>1. PICK more \in BOOLEAN : Finish(more)
      BY <1>6, Zenon DEF TurnFinish
    <2>2. plan = <<>>
      BY <1>6, Zenon DEF TurnFinish
    <2>3. CASE UNCHANGED <<supVars, open, live>>
      BY <1>2, <2>3, SilentKept, Zenon DEF supVars, armVars, actVars
    <2>4. CASE act = "Arming" /\ Armed
      BY <1>1, <1>2, <2>4, SilentMoves, Zenon DEF Armed, SupInv, SupShape
    <2>5. CASE act \in {"Sending", "Stopping"} /\ act' = "Idle" /\ arm' = arm
      BY <1>1, <1>2, <2>5, SilentMoves, Zenon DEF SupInv, SupShape
    <2>6. CASE StartRestore(ticket)
      BY <1>1, <1>2, <2>6, RestoreSilent, Zenon DEF SupInv, SupType, ActType
    <2>7. CASE act = "Restoring" /\ act' = act /\ plan' # <<>>
      BY <1>2, <2>7, SilentMoves, Zenon
    <2>8. CASE act = "Restoring" /\ retry = "none" /\ Restored
      BY <1>2, <2>2, <2>8, SilentMoves, Zenon DEF Restored
    <2>9. PlanRestore => plan' # <<>>
      <3> DEFINE w == Step("WaitKeyed", Margin)
                 r == RestoreWrites
      <3>1. PlanRestore => plan' = <<w>> \o r
        BY Zenon DEF PlanRestore
      <3>2. <<w>> \o r \in Seq(RestoreStep)
        BY <1>1, RestorePlanType, Zenon DEF SupInv, SupType
      <3> HIDE DEF w, r
      <3> QED BY <3>1, <3>2
    <2>10. CASE act = "Sending"
      BY <2>1, <2>5, <2>10, Zenon DEF Finish
    <2>11. CASE act = "Stopping"
      BY <2>1, <2>5, <2>6, <2>11, Zenon DEF Finish
    <2>12. CASE act = "Restoring"
      BY <2>1, <2>3, <2>7, <2>8, <2>9, <2>12, Zenon DEF Finish
    <2>13. CASE act \in {"Idle", "Arming"}
      BY <2>1, <2>3, <2>4, <2>13, Zenon DEF Finish
    <2> QED BY <1>1, <2>10, <2>11, <2>12, <2>13, Zenon DEF SupInv, SupType, ActType
  <1> QED BY <1>3, <1>4, <1>5, <1>6, Zenon DEF Turns

LEMMA CompleteSilent ==
  ASSUME TypeInv, SettingInv, SilentInv, Complete
  PROVE  SilentInv'
  <1>1. SupInv /\ OutInv
    BY TypeParts, Zenon
  <1>2. SupShape
    BY <1>1, Zenon DEF SupInv
  <1>3. UNCHANGED <<air, power, turned>>
    BY Zenon DEF Complete, CompleteFailed, CompleteStatus, CompleteSpeed, CompleteSnapPower, CompleteSnapBreakIn,
       CompleteVerify, CompletePowerAtMost, CompleteStop, CompleteSet, CompleteReady, CompleteSend, Completes,
       Takes, radio
  <1>4. CASE UNCHANGED supVars
    BY <1>3, <1>4, SilentKept, Zenon DEF supVars, armVars, actVars
  <1>5. CASE act \in {"Arming", "Sending", "Stopping"} /\ UNCHANGED <<act, arm>>
    BY <1>2, <1>3, <1>5, SilentMoves, Zenon DEF SupShape
  <1>6. CASE Fail
    BY <1>1, <1>3, <1>6, FailSilent, Zenon
  <1>7. CASE CompleteStatus
    <2>1. CASE act = "Arming" /\ RefuseArm
      BY <1>1, <1>3, <2>1, RefuseSilent, Zenon
    <2>2. CASE act = "Sending" /\ BeginStop(TRUE, NoTicket, NoStep)
      BY <1>3, <2>2, StopSilent, Zenon
    <2> QED BY <1>4, <1>5, <1>7, <2>1, <2>2, Zenon DEF CompleteStatus, OnStatus, OnStatusArming, OnStatusSending,
            armVars, actVars
  <1>8. CASE CompleteSpeed
    <2>1. CASE act = "Sending" /\ BeginStop(TRUE, NoTicket, NoStep)
      BY <1>3, <2>1, StopSilent, Zenon
    <2> QED BY <1>4, <1>5, <1>8, <2>1, Zenon DEF CompleteSpeed, OnSpeed, armVars, actVars
  <1>9. CASE CompletePowerAtMost
    <2>1. act \in {"Sending", "Stopping"}
      BY <1>9, Zenon DEF CompletePowerAtMost, Completes, Takes, SettingInv, ArmInv
    <2>2. CASE act = "Sending" /\ BeginStop(FALSE, NoTicket, NoStep)
      BY <1>3, <2>2, StopSilent, Zenon
    <2>3. CASE act = "Stopping" /\ StartRestore(NoTicket)
      BY <1>1, <1>3, <2>3, RestoreSilent, Zenon
    <2> QED BY <1>4, <1>9, <2>1, <2>2, <2>3, Zenon DEF CompletePowerAtMost, BeginStop
  <1>10. CASE CompleteSnapPower
    BY <1>3, <1>10, SilentKept, Zenon DEF CompleteSnapPower, armVars, actVars
  <1>11. CASE CompleteSnapBreakIn
    <2>1. act # "Restoring" /\ UNCHANGED <<act, arm>>
      BY <1>11, Zenon DEF CompleteSnapBreakIn, Completes, Takes, SettingInv, ArmInv, Snaps, armVars, actVars
    <2> QED BY <1>3, <2>1, SilentMoves, Zenon
  <1>12. CASE CompleteReady \/ CompleteSend
    <2>1. outstanding.kind \in {"Send", "WaitReady"} /\ UNCHANGED <<act, arm>>
      BY <1>12, Zenon DEF CompleteReady, CompleteSend, OnSent, Completes, Takes, armVars, actVars
    <2>2. act \in {"Sending", "Stopping"}
      BY <1>1, <2>1, Zenon DEF OutInv, SupInv, SupType, ActType
    <2> QED BY <1>5, <2>1, <2>2, Zenon
  <1> QED BY <1>4, <1>6, <1>7, <1>8, <1>9, <1>10, <1>11, <1>12, Zenon DEF Complete, CompleteFailed, CompleteVerify,
          CompleteStop, CompleteSet

LEMMA RadioSilent ==
  ASSUME TypeInv, AirInv, SettingInv, SilentInv, "Send" \notin LostWrites, Radio
  PROVE  SilentInv'
  <1>1. RestType /\ OutInv /\ SupInv
    BY TypeParts, Zenon
  <1>2. UNCHANGED <<act, arm, plan, retry>>
    BY SupStateKeeps, ZenonT(30) DEF Radio, RadioReads, RadioWrites, RadioLosesAck, RadioIgnores, RadioFails,
       PanelPower, supState, supVars, armVars, actVars
  <1>3. CASE UNCHANGED radio
    BY <1>2, <1>3, SilentKept, Zenon DEF radio
  <1>4. CASE PanelPower
    BY <1>2, <1>4, Zenon DEF PanelPower, SilentInv, KeysOnlyClamped
  <1>5. CASE Lands(outstanding) /\ outstanding.kind = "Send"
    <2>1. act \in {"Sending", "Stopping"}
      BY <1>1, <1>5, Zenon DEF OutInv, SupInv, SupType, ActType
    <2>2. arm # NoOne
      BY <1>1, <2>1, Zenon DEF SupInv, SupShape
    <2>3. ~turned' => power' = LowPower
      BY <1>5, <2>2, Zenon DEF Lands, SettingInv, PowerInv
    <2> QED BY <1>2, <2>1, <2>3, PowerAssumption DEF SilentInv, KeysOnlyClamped
  <1>6. CASE Lands(outstanding) /\ outstanding.kind # "Send"
    <2>1. air' = 0 \/ (air' = air /\ turned' = turned)
      BY <1>6, Zenon DEF Lands
    <2>2. air > 0 => power' = power \/ power' <= LowPower
      <3>1. CASE outstanding.kind = "SetPower" /\ outstanding.val > LowPower
        BY <1>1, <3>1, RaisesInRestore DEF AirInv, RestType
      <3>2. CASE ~(outstanding.kind = "SetPower" /\ outstanding.val > LowPower)
        <4>1. outstanding.val \in Int /\ LowPower \in Int
          BY <1>1, PowerAssumption DEF RestType, StepType
        <4> QED BY <1>6, <3>2, <4>1 DEF Lands
      <3> QED BY <3>1, <3>2, Zenon
    <2> QED BY <1>2, <2>1, <2>2 DEF SilentInv, KeysOnlyClamped
  <1> QED BY <1>3, <1>4, <1>5, <1>6, Zenon DEF Radio, RadioReads, RadioWrites, RadioLosesAck, RadioIgnores, RadioFails

LEMMA TimeSilent ==
  ASSUME TypeInv, SilentInv, Time
  PROVE  SilentInv'
  <1>1. UNCHANGED <<act, arm, plan, power, turned>>
    BY Zenon DEF Time, Tick, WatchdogPasses, IdlePasses, IdIntervalPasses, RetryPasses, ReadyRetryPasses, Clock
  <1>2. retry' = retry \/ (retry # "none" /\ retry' # "none")
    BY Zenon DEF Time, Tick, WatchdogPasses, IdlePasses, IdIntervalPasses, RetryPasses, ReadyRetryPasses
  <1>3. CASE Tick
    <2>1. air \in Nat /\ air' = Max0(air - 1)
      BY <1>3, TypeParts, Zenon DEF Tick, RestType
    <2>2. (air = 0 => air' = 0) /\ (air' > 0 => air > 0)
      BY <2>1 DEF Max0
    <2> QED BY <1>1, <1>2, <2>2, Zenon DEF SilentInv, KeysOnlyClamped
  <1>4. CASE ~Tick
    <2>1. UNCHANGED air
      BY <1>4, Zenon DEF Time, WatchdogPasses, IdlePasses, IdIntervalPasses, RetryPasses, ReadyRetryPasses
    <2> QED BY <1>1, <1>2, <2>1, SilentKept, Zenon
  <1> QED BY <1>3, <1>4, Zenon

LEMMA SilentInitOK == Init => SilentInv
  BY DEF Init, SilentInv, KeysOnlyClamped

LEMMA SilentStepOK ==
  ASSUME "Send" \notin LostWrites
  PROVE  TypeInv /\ AirInv /\ SettingInv /\ SilentInv /\ [Next]_vars => SilentInv'
  <1> SUFFICES ASSUME TypeInv, AirInv, SettingInv, SilentInv, [Next]_vars PROVE SilentInv'
    OBVIOUS
  <1>1. CASE UNCHANGED vars
    BY <1>1, SilentKept, Zenon DEF vars, supVars, armVars, actVars, radio
  <1> QED BY <1>1, RequestSilent, TurnSilent, CompleteSilent, RadioSilent, TimeSilent, Zenon DEF Next

-----------------------------------------------------------------------------
(* What the arm and the restore promise.                                   *)

\* finish_arming grants an arm only on a radio that has been read back clamped
\* and with its break-in, and nothing the supervisor does, on any schedule of
\* requests, failures, lost writes and restarts of a restore, unclamps it while
\* the arm lasts.  Nothing is assumed of the radio.
THEOREM ArmHoldsTheClamp == Spec => []ArmedIsClamped
  <1>1. Init => TypeInv /\ SettingInv
    BY InitOK, SettingInitOK, Zenon
  <1>2. TypeInv /\ SettingInv /\ [Next]_vars => (TypeInv /\ SettingInv)'
    BY StepOK, SettingStepOK, Zenon
  <1>3. SettingInv => ArmedIsClamped
    BY Zenon DEF SettingInv, PowerInv, BreakInInv, ArmedIsClamped
  <1> QED BY <1>1, <1>2, <1>3, PTL DEF Spec

\* Nothing is keyed above the clamp either, not even what a keyer drains after
\* its arm is gone, as long as a chunk reported failed was not keyed and a stop
\* reported done was obeyed.
THEOREM TextIsClamped ==
  ASSUME "Send" \notin LostWrites, "Stop" \notin DeafWrites
  PROVE  Spec => []ClampedWhileArmed
  <1> DEFINE Inv == TypeInv /\ AirInv /\ SettingInv /\ SilentInv
  <1>1. Init => Inv
    BY InitOK, AirInitOK, SettingInitOK, SilentInitOK, Zenon
  <1>2. Inv /\ [Next]_vars => Inv'
    BY StepOK, AirStepOK, SettingStepOK, SilentStepOK, Zenon
  <1>3. Inv => ClampedWhileArmed
    BY Zenon DEF SettingInv, PowerInv, BreakInInv, SilentInv, ArmedIsClamped, ClampedWhileArmed
  <1> HIDE DEF Inv
  <1> QED BY <1>1, <1>2, <1>3, PTL DEF Spec

\* blocks_external_ptt lets the operator's own PTT through only on a radio that
\* is back at the operator's settings, whichever steps of the arm, the job and
\* the restore failed before.  Nothing is assumed of the radio: finish_restoring
\* believes what it reads back, not what it wrote.
THEOREM PttWaitsForTheRestore == Spec => []PttFreeMeansRestored
  <1>1. Init => TypeInv /\ SettingInv
    BY InitOK, SettingInitOK, Zenon
  <1>2. TypeInv /\ SettingInv /\ [Next]_vars => (TypeInv /\ SettingInv)'
    BY StepOK, SettingStepOK, Zenon
  <1>3. SettingInv => PttFreeMeansRestored
    BY Zenon DEF SettingInv, ArmInv, PowerInv, BreakInInv, PttFreeMeansRestored, BlocksExternalPtt
  <1> QED BY <1>1, <1>2, <1>3, PTL DEF Spec

\* No ticket of arm or disarm and no job of send is forgotten or answered twice:
\* the open ones are exactly the ones the current activity will answer, until
\* the power knob is turned.
THEOREM NobodyIsForgotten == Spec => []WaitersAreHeld
  <1>1. Init => TypeInv /\ SettingInv /\ HeldInv
    BY InitOK, SettingInitOK, HeldInitOK, Zenon
  <1>2. TypeInv /\ SettingInv /\ HeldInv /\ [Next]_vars => (TypeInv /\ SettingInv /\ HeldInv)'
    BY StepOK, SettingStepOK, HeldStepOK, Zenon
  <1>3. TypeInv /\ HeldInv => WaitersAreHeld
    BY Zenon DEF TypeInv, HeldInv, WaitersAreHeld
  <1> QED BY <1>1, <1>2, <1>3, PTL DEF Spec
=============================================================================
