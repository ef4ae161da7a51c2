--------------------------- MODULE CwDrainProofs ---------------------------
(***************************************************************************)
(* The pacing of a send in CwSupervisor: the radio holds one chunk at a    *)
(* time, and what it keyed without its ID stays owed.                      *)
(***************************************************************************)
EXTENDS CwSupervisorProofs

\* Where the waits and the chunk of a paced chunk stand.
LEMMA PacedShape ==
  ASSUME NEW c \in Int
  PROVE  /\ Paced(c)[1].kind = "WaitKeyed" /\ Paced(c)[PacedLen] = Step("Send", c)
         /\ \A k \in 2..(PacedLen - 1) : Paced(c)[k].kind \in {"WaitReady", "CheckSpeed"}
  <1> DEFINE K == Step("WaitKeyed", 0)
             R == Step("WaitReady", 0)
             C == Step("CheckSpeed", 0)
             D == Step("Send", c)
             p == Paced(c)
  <1>1. K \in JobStep /\ R \in JobStep /\ C \in JobStep /\ D \in JobStep
    BY DEF JobStep, Step
  <1>2. K.kind = "WaitKeyed" /\ R.kind = "WaitReady" /\ C.kind = "CheckSpeed" /\ D = Step("Send", c)
    BY Zenon DEF Step
  <1>3. p = <<K>> \o (IF BufferFlag THEN <<R>> ELSE <<>>)
                  \o (IF DrainOnly THEN <<C>> ELSE <<>>) \o <<D>>
    BY Zenon DEF Paced
  <1> HIDE DEF K, R, C, D, p
  <1>4. <<K>> \o <<>> = <<K>> /\ (<<K>> \o <<R>>) \o <<>> = <<K>> \o <<R>>
    BY <1>1, Singles2, One, ConcatEmptySeq
  <1>5. CASE BufferFlag /\ DrainOnly
    <2>1. p = <<K>> \o <<R>> \o <<C>> \o <<D>> /\ PacedLen = 4
      BY <1>3, <1>5 DEF PacedLen
    <2>2. LET s == <<K>> \o <<R>> \o <<C>> \o <<D>> IN s[1] = K /\ s[2] = R /\ s[3] = C /\ s[4] = D
      BY <1>1
    <2>3. p[1] = K /\ p[2] = R /\ p[3] = C /\ p[4] = D
      BY <2>1, <2>2, Zenon
    <2> QED BY <1>2, <2>1, <2>3 DEF p
  <1>6. CASE BufferFlag /\ ~DrainOnly
    <2>1. p = <<K>> \o <<R>> \o <<D>> /\ PacedLen = 3
      BY <1>3, <1>4, <1>6 DEF PacedLen
    <2>2. LET s == <<K>> \o <<R>> \o <<D>> IN s[1] = K /\ s[2] = R /\ s[3] = D
      BY <1>1
    <2>3. p[1] = K /\ p[2] = R /\ p[3] = D
      BY <2>1, <2>2, Zenon
    <2> QED BY <1>2, <2>1, <2>3 DEF p
  <1>7. CASE ~BufferFlag /\ DrainOnly
    <2>1. p = <<K>> \o <<C>> \o <<D>> /\ PacedLen = 3
      BY <1>3, <1>4, <1>7 DEF PacedLen
    <2>2. LET s == <<K>> \o <<C>> \o <<D>> IN s[1] = K /\ s[2] = C /\ s[3] = D
      BY <1>1
    <2>3. p[1] = K /\ p[2] = C /\ p[3] = D
      BY <2>1, <2>2, Zenon
    <2> QED BY <1>2, <2>1, <2>3 DEF p
  <1>8. CASE ~BufferFlag /\ ~DrainOnly
    <2>1. p = <<K>> \o <<D>> /\ PacedLen = 2
      BY <1>3, <1>4, <1>8 DEF PacedLen
    <2>2. LET s == <<K>> \o <<D>> IN s[1] = K /\ s[2] = D
      BY <1>1
    <2>3. p[1] = K /\ p[2] = D
      BY <2>1, <2>2, Zenon
    <2> QED BY <1>2, <2>1, <2>3 DEF p
  <1> QED BY <1>5, <1>6, <1>7, <1>8, Zenon

\* The place that chunk q gives its k-th step.
LEMMA Indices ==
  ASSUME NEW L \in {2, 3, 4}, NEW n \in Nat, NEW q \in 1..n, NEW k \in 1..L,
         NEW i \in Int, i = (q - 1) * L + k
  PROVE  i \in 1..(n * L) /\ (i - 1) \div L = q - 1 /\ (i - 1) % L = k - 1
  <1>1. CASE L = 2
    BY <1>1
  <1>2. CASE L = 3
    BY <1>2
  <1>3. CASE L = 4
    BY <1>3
  <1> QED BY <1>1, <1>2, <1>3, Zenon

\* A paced plan, step by step: chunk q's steps follow chunk (q - 1)'s, and the
\* final wait follows the last chunk.
LEMMA PacedPlanAt ==
  ASSUME NEW cs \in Seq(Int)
  PROVE  /\ \A q \in 1..Len(cs), k \in 1..PacedLen :
               PacedPlan(cs)[(q - 1) * PacedLen + k] = Paced(cs[q])[k]
         /\ PacedPlan(cs)[Len(cs) * PacedLen + 1] = Step("WaitKeyed", Margin)
  <1> DEFINE L == PacedLen
             n == Len(cs)
             body == [i \in 1..(n * L) |-> Paced(cs[((i - 1) \div L) + 1])[((i - 1) % L) + 1]]
             w == Step("WaitKeyed", Margin)
  <1>1. L \in {2, 3, 4} /\ n \in Nat /\ n * L \in Nat
    <2>1. L \in {2, 3, 4} /\ n \in Nat
      BY PacedLenValue
    <2> HIDE DEF L, n
    <2> QED BY <2>1
  <1>2. PacedPlan(cs) = body \o <<w>>
    BY Zenon DEF PacedPlan
  <1>3. \A q \in 1..n, k \in 1..L : (q - 1) * L + k \in 1..(n * L) /\ body[(q - 1) * L + k] = Paced(cs[q])[k]
    <2> TAKE q \in 1..n, k \in 1..L
    <2> DEFINE i == (q - 1) * L + k
    <2>1. i \in Int /\ i = (q - 1) * L + k
      <3> HIDE DEF L, n
      <3> QED BY <1>1
    <2>2. i \in 1..(n * L) /\ (i - 1) \div L = q - 1 /\ (i - 1) % L = k - 1
      <3> HIDE DEF L, n, i
      <3> QED BY <1>1, <2>1, Indices
    <2>3. body[i] = Paced(cs[((i - 1) \div L) + 1])[((i - 1) % L) + 1]
      BY <2>2, Zenon
    <2>4. (q - 1) + 1 = q /\ (k - 1) + 1 = k
      <3> HIDE DEF L, n
      <3> QED BY <1>1
    <2> HIDE DEF body, i, L, n
    <2> QED BY <2>2, <2>3, <2>4, Zenon DEF i
  <1>4. \E S : body \in Seq(S) /\ w \in S
    <2> DEFINE S == {body[i] : i \in 1..(n * L)} \cup {w}
    <2>1. body \in [1..(n * L) -> S]
      OBVIOUS
    <2> HIDE DEF body, S, L, n, w
    <2>2. body \in Seq(S)
      BY <1>1, <2>1
    <2>3. w \in S
      BY Zenon DEF S
    <2> QED BY <2>2, <2>3, Zenon
  <1>5. Len(body) = n * L
    <2> HIDE DEF L, n
    <2>1. DOMAIN body = 1..(n * L)
      OBVIOUS
    <2> HIDE DEF body
    <2> QED BY <1>1, <1>4, <2>1
  <1> HIDE DEF body, w, L, n
  <1>6. /\ \A i \in 1..(n * L) : (body \o <<w>>)[i] = body[i]
        /\ (body \o <<w>>)[n * L + 1] = w
    <2>1. PICK S : body \in Seq(S) /\ w \in S
      BY <1>4, Zenon
    <2> DEFINE m == n * L
    <2>2. m \in Nat /\ Len(body) = m
      BY <1>1, <1>5, Zenon
    <2> HIDE DEF m
    <2>3. (\A i \in 1..m : (body \o <<w>>)[i] = body[i]) /\ (body \o <<w>>)[m + 1] = w
      BY <2>1, <2>2, Snoc
    <2> QED BY <2>3, Zenon DEF m
  <1>7. \A q \in 1..n, k \in 1..L : PacedPlan(cs)[(q - 1) * L + k] = Paced(cs[q])[k]
    BY <1>2, <1>3, <1>6, Zenon
  <1> QED BY <1>2, <1>6, <1>7, Zenon DEF L, n, w

\* Every step of a paced plan but the last is of one of its chunks.
LEMMA PacedPlaces ==
  ASSUME NEW cs \in Seq(Int), NEW i \in 1..Len(PacedPlan(cs))
  PROVE  \/ i = Len(cs) * PacedLen + 1
         \/ \E q \in 1..Len(cs), k \in 1..PacedLen : i = (q - 1) * PacedLen + k
  <1> DEFINE L == PacedLen
             n == Len(cs)
             r == (i - 1) % L
             q == (i - 1) \div L
  <1>1. L \in {2, 3, 4} /\ n \in Nat /\ i \in 1..(n * L + 1)
    BY PacedLenValue, PacedPlanType
  <1> HIDE DEF L, n
  <1>2. CASE i \in 1..(n * L)
    <2>1. q \in Int /\ r \in Int
      BY <1>1
    <2>2. q = (i - 1) \div L /\ r = (i - 1) % L
      OBVIOUS
    <2> HIDE DEF q, r
    <2>3. q + 1 \in 1..n /\ r + 1 \in 1..L /\ i = q * L + r + 1
      BY <1>1, <1>2, <2>1, <2>2, Places
    <2>4. i = ((q + 1) - 1) * L + (r + 1)
      BY <1>1, <2>1, <2>3
    <2> QED BY <2>3, <2>4, Zenon DEF L, n
  <1>3. CASE i = n * L + 1
    BY <1>3, Zenon DEF L, n
  <1> QED BY <1>1, <1>2, <1>3

-----------------------------------------------------------------------------
(* One chunk at a time.                                                    *)

\* What push_chunk puts between a chunk's wait and the chunk.
Chain == {"WaitReady", "CheckSpeed", "Send"}

\* A chunk and its checks come after the wait for the chunk before.
Chained(p) ==
    \A i \in 2..Len(p) :
        p[i].kind \in Chain => p[i - 1].kind \in {"WaitKeyed", "WaitReady", "CheckSpeed"}

\* Whatever has been checked for a chunk, and the chunk itself, finds the radio
\* silent.
DrainInv ==
    /\ act = "Sending" =>
          /\ Chained(plan)
          /\ plan # <<>> /\ Head(plan).kind \in Chain => air = 0
          /\ plan # <<>> /\ outstanding.kind = "Send" => Head(plan).kind \notin Chain
          /\ outstanding.kind \in {"WaitReady", "CheckSpeed"} => air = 0
          /\ outstanding.kind # "SnapBreakIn"
    /\ outstanding.kind = "Send" /\ answer = NoAnswer => air = 0
    /\ air <= ChunkTime

LEMMA PacedPlanChained ==
  ASSUME NEW cs \in Seq(Int)
  PROVE  Chained(PacedPlan(cs)) /\ PacedPlan(cs)[1].kind = "WaitKeyed"
  <1> DEFINE L == PacedLen
             n == Len(cs)
             p == PacedPlan(cs)
  <1>1. L \in {2, 3, 4} /\ n \in Nat /\ Len(p) = n * L + 1
    BY PacedLenValue, PacedPlanType
  <1>2. \A q \in 1..n : cs[q] \in Int
    OBVIOUS
  <1>3. \A q \in 1..n, k \in 1..L : p[(q - 1) * L + k] = Paced(cs[q])[k]
    BY PacedPlanAt, Zenon
  <1>4. p[n * L + 1].kind = "WaitKeyed"
    BY PacedPlanAt DEF Step
  <1>5. \A i \in 1..Len(p) : i = n * L + 1 \/ \E q \in 1..n, k \in 1..L : i = (q - 1) * L + k
    BY PacedPlaces, Zenon
  <1>6. \A q \in 1..n : /\ Paced(cs[q])[1].kind = "WaitKeyed"
                        /\ \A k \in 2..(L - 1) : Paced(cs[q])[k].kind \in {"WaitReady", "CheckSpeed"}
    BY <1>2, PacedShape, Zenon
  <1> HIDE DEF L, n, p
  <1>7. ASSUME NEW i \in 2..Len(p), p[i].kind \in Chain
        PROVE  p[i - 1].kind \in {"WaitKeyed", "WaitReady", "CheckSpeed"}
    <2>1. i # n * L + 1 /\ i \in 1..Len(p)
      BY <1>1, <1>4, <1>7 DEF Chain
    <2>2. PICK q \in 1..n, k \in 1..L : i = (q - 1) * L + k
      BY <1>5, <2>1, Zenon
    <2>3. k # 1
      BY <1>3, <1>6, <1>7, <2>2, Zenon DEF Chain
    <2>4. k - 1 \in 1..L /\ i - 1 = (q - 1) * L + (k - 1) /\ (k - 1 = 1 \/ k - 1 \in 2..(L - 1))
      BY <1>1, <2>2, <2>3
    <2>5. p[i - 1] = Paced(cs[q])[k - 1]
      BY <1>3, <2>4, Zenon
    <2> QED BY <1>6, <2>4, <2>5, Zenon
  <1>8. p[1].kind = "WaitKeyed"
    <2>1. CASE n = 0
      BY <1>1, <1>4, <2>1
    <2>2. CASE n # 0
      <3>1. 1 \in 1..n /\ 1 \in 1..L /\ (1 - 1) * L + 1 = 1
        BY <1>1, <2>2
      <3> QED BY <1>3, <1>6, <3>1
    <2> QED BY <2>1, <2>2, Zenon
  <1> QED BY <1>7, <1>8, Zenon DEF Chained, p
LEMMA ChainedTail ==
  ASSUME NEW p \in Seq(JobStep), Chained(p), p # <<>>
  PROVE  /\ Chained(Tail(p))
         /\ Tail(p) # <<>> /\ Head(Tail(p)).kind \in Chain =>
               Head(p).kind \in {"WaitKeyed", "WaitReady", "CheckSpeed"}
  <1> DEFINE z == Tail(p)
  <1>1. Len(p) \in Nat /\ Len(p) > 0
    OBVIOUS
  <1>2. /\ z \in Seq(JobStep) /\ Len(z) = Len(p) - 1 /\ Head(p) = p[1]
        /\ \A i \in 1..Len(z) : z[i] = p[i + 1]
    BY <1>1
  <1>3. z # <<>> => Head(z) = z[1] /\ Len(z) > 0
    BY <1>2
  <1> HIDE DEF z
  <1>4. ASSUME NEW i \in 2..Len(z), z[i].kind \in Chain
        PROVE  z[i - 1].kind \in {"WaitKeyed", "WaitReady", "CheckSpeed"}
    <2>1. i + 1 \in 2..Len(p) /\ z[i] = p[i + 1] /\ z[i - 1] = p[(i + 1) - 1]
      BY <1>1, <1>2
    <2> QED BY <1>4, <2>1, Zenon DEF Chained
  <1>5. ASSUME z # <<>>, Head(z).kind \in Chain
        PROVE  Head(p).kind \in {"WaitKeyed", "WaitReady", "CheckSpeed"}
    <2>1. 2 \in 2..Len(p) /\ Head(z) = p[2] /\ Head(p) = p[2 - 1]
      BY <1>1, <1>2, <1>3, <1>5
    <2> QED BY <1>5, <2>1, Zenon DEF Chained
  <1>6. Chained(z)
    BY <1>4, Zenon DEF Chained
  <1> QED BY <1>5, <1>6, Zenon DEF z

LEMMA ChainedPush ==
  ASSUME NEW p \in Seq(JobStep), Chained(p), NEW x \in JobStep, x.kind = "WaitReady"
  PROVE  Chained(<<x>> \o p)
  <1> DEFINE z == <<x>> \o p
  <1>1. /\ z \in Seq(JobStep) /\ Len(z) = Len(p) + 1 /\ z[1] = x /\ Len(p) \in Nat
        /\ \A i \in 2..Len(z) : z[i] = p[i - 1]
    OBVIOUS
  <1> HIDE DEF z
  <1>2. ASSUME NEW i \in 2..Len(z), z[i].kind \in Chain
        PROVE  z[i - 1].kind \in {"WaitKeyed", "WaitReady", "CheckSpeed"}
    <2>1. CASE i = 2
      BY <1>1, <2>1
    <2>2. CASE i # 2
      <3> DEFINE k == i - 1
      <3>1. k \in 2..Len(p) /\ k \in 2..Len(z) /\ z[i] = p[k]
        BY <1>1, <2>2
      <3>2. z[k] = p[k - 1]
        BY <1>1, <3>1, Zenon
      <3> HIDE DEF k
      <3>3. z[k].kind \in {"WaitKeyed", "WaitReady", "CheckSpeed"}
        BY <1>2, <3>1, <3>2, Zenon DEF Chained
      <3> QED BY <3>3, Zenon DEF k
    <2> QED BY <2>1, <2>2, Zenon
  <1>3. Chained(z)
    BY <1>2, Zenon DEF Chained
  <1> QED BY <1>3, Zenon DEF z

LEMMA ChainedAppend ==
  ASSUME NEW p \in Seq(JobStep), NEW c \in Seq(JobStep), Chained(p), Chained(c), c[1].kind = "WaitKeyed",
         c # <<>>
  PROVE  /\ Chained(p \o c) /\ p \o c # <<>>
         /\ Head(p \o c) = IF p = <<>> THEN c[1] ELSE Head(p)
  <1> DEFINE z == p \o c
  <1>1. /\ z \in Seq(JobStep) /\ Len(z) = Len(p) + Len(c) /\ Len(p) \in Nat /\ Len(c) \in Nat /\ Len(c) > 0
        /\ \A i \in 1..Len(z) : z[i] = IF i <= Len(p) THEN p[i] ELSE c[i - Len(p)]
    OBVIOUS
  <1>2. z # <<>> /\ Head(z) = z[1] /\ (p # <<>> => Head(p) = p[1] /\ Len(p) > 0) /\ (p = <<>> => Len(p) = 0)
    BY <1>1
  <1> HIDE DEF z
  <1>3. ASSUME NEW i \in 2..Len(z), z[i].kind \in Chain
        PROVE  z[i - 1].kind \in {"WaitKeyed", "WaitReady", "CheckSpeed"}
    <2>1. CASE i <= Len(p)
      <3>1. i \in 2..Len(p) /\ i \in 1..Len(z) /\ i - 1 \in 1..Len(z) /\ i - 1 <= Len(p)
        BY <1>1, <2>1
      <3>2. z[i] = p[i] /\ z[i - 1] = p[i - 1]
        BY <1>1, <2>1, <3>1, Zenon
      <3> QED BY <1>3, <3>1, <3>2, Zenon DEF Chained
    <2>2. CASE i = Len(p) + 1
      <3>1. z[i] = c[1]
        BY <1>1, <2>2
      <3> QED BY <1>3, <3>1, Zenon DEF Chain
    <2>3. CASE i > Len(p) + 1
      <3> DEFINE k == i - Len(p)
      <3>1. /\ k \in 2..Len(c) /\ i \in 1..Len(z) /\ i - 1 \in 1..Len(z)
            /\ ~(i <= Len(p)) /\ ~(i - 1 <= Len(p)) /\ (i - 1) - Len(p) = k - 1
        BY <1>1, <2>3
      <3>2. z[i] = c[k] /\ z[i - 1] = c[k - 1]
        BY <1>1, <3>1, Zenon
      <3> HIDE DEF k
      <3> QED BY <1>3, <3>1, <3>2, Zenon DEF Chained
    <2> QED BY <1>1, <2>1, <2>2, <2>3
  <1>4. Chained(z)
    BY <1>3, Zenon DEF Chained
  <1>5. Head(z) = IF p = <<>> THEN c[1] ELSE Head(p)
    BY <1>1, <1>2
  <1> QED BY <1>2, <1>4, <1>5, Zenon DEF z

LEMMA ChainedSuffix ==
  ASSUME NEW p \in Seq(JobStep), Chained(p), NEW m \in 1..Len(p)
  PROVE  Chained(SubSeq(p, m, Len(p)))
  <1> DEFINE z == SubSeq(p, m, Len(p))
  <1>1. /\ Len(z) = Len(p) - m + 1 /\ Len(p) \in Nat
        /\ \A i \in 1..Len(z) : z[i] = p[m + i - 1]
    OBVIOUS
  <1> HIDE DEF z
  <1>2. ASSUME NEW i \in 2..Len(z), z[i].kind \in Chain
        PROVE  z[i - 1].kind \in {"WaitKeyed", "WaitReady", "CheckSpeed"}
    <2> DEFINE k == m + i - 1
    <2>1. k \in 2..Len(p) /\ z[i] = p[k] /\ z[i - 1] = p[k - 1]
      BY <1>1
    <2> HIDE DEF k
    <2> QED BY <1>2, <2>1, Zenon DEF Chained
  <1>3. Chained(z)
    BY <1>2, Zenon DEF Chained
  <1> QED BY <1>3, Zenon DEF z

\* What a re-cut keeps: the chunks left are recounted, the rest is paced anew.
Pieces(parts) ==
    [i \in 1..(Len(ChunksLeft) * parts) |->
        LET whole == ChunksLeft[((i - 1) \div parts) + 1]
        IN  IF whole = EndsId /\ i % parts # 0 THEN Unid ELSE whole]

LEMMA PiecesType ==
  ASSUME plan \in Seq(JobStep), Spaced(Len(plan)), NEW parts \in {1, 2}
  PROVE  /\ Pieces(parts) \in Seq(Int) /\ Len(Pieces(parts)) = Len(ChunksLeft) * parts
         /\ Len(Pieces(parts)) \in Nat \ {0}
         /\ PacedLen \in 1..Len(PacedPlan(Pieces(parts)))
         /\ PacedPlan(Pieces(parts)) \in Seq(JobStep)
  <1> DEFINE C == ChunksLeft
             n == Len(C)
             pieces == [i \in 1..(n * parts) |->
                          LET whole == C[((i - 1) \div parts) + 1]
                          IN  IF whole = EndsId /\ i % parts # 0 THEN Unid ELSE whole]
  <1>1. C \in Seq(Int) /\ n \in Nat \ {0}
    BY ChunksLeftType, Zenon
  <1>2. pieces = Pieces(parts)
    BY Zenon DEF Pieces
  <1> HIDE DEF C, n
  <1>3. \A i \in 1..(n * parts) : (i - 1) \div parts + 1 \in 1..n
    <2>1. CASE parts = 1
      BY <1>1, <2>1
    <2>2. CASE parts = 2
      BY <1>1, <2>2
    <2> QED BY <2>1, <2>2, Zenon
  <1>4. \A i \in 1..(n * parts) : C[(i - 1) \div parts + 1] \in Int
    BY <1>1, <1>3 DEF n
  <1>5. pieces \in [1..(n * parts) -> Int]
    BY <1>4 DEF Unid
  <1> HIDE DEF pieces
  <1>6. n * parts \in Nat \ {0}
    BY <1>1
  <1>7. pieces \in Seq(Int) /\ Len(pieces) = n * parts
    BY <1>5, <1>6
  <1> DEFINE paced == PacedPlan(pieces)
  <1>8. Cut(paced) /\ Len(paced) = Len(pieces) * PacedLen + 1
    BY <1>7, PacedPlanType, Zenon
  <1> HIDE DEF paced
  <1>9. PacedLen \in 1..Len(paced)
    <2> DEFINE m == Len(pieces)
               L == PacedLen
    <2>1. m \in Nat \ {0} /\ L \in {2, 3, 4} /\ Len(paced) = m * L + 1
      BY <1>6, <1>7, <1>8, PacedLenValue, Zenon
    <2> HIDE DEF m, L
    <2>2. L \in 1..(m * L + 1)
      BY <2>1
    <2> QED BY <2>1, <2>2, Zenon DEF L
  <1>10. paced \in Seq(JobStep)
    BY <1>8, Zenon DEF Cut
  <1> QED BY <1>2, <1>6, <1>7, <1>9, <1>10, Zenon DEF C, n, paced

LEMMA ReplanChained ==
  ASSUME plan \in Seq(JobStep), Spaced(Len(plan)), NEW parts \in {1, 2}, Replan(parts)
  PROVE  Chained(plan')
  <1> DEFINE paced == PacedPlan(Pieces(parts))
  <1>1. plan' = SubSeq(paced, PacedLen, Len(paced))
    BY Zenon DEF Replan, Pieces
  <1>2. paced \in Seq(JobStep) /\ PacedLen \in 1..Len(paced) /\ Chained(paced)
    BY PiecesType, PacedPlanChained, Zenon
  <1> HIDE DEF paced
  <1> QED BY <1>1, <1>2, ChainedSuffix, Zenon

LEMMA PlanChunksChained ==
  ASSUME plan \in Seq(JobStep), Chained(plan), leadId \in BOOLEAN, NEW text \in Nat, NEW id \in Nat,
         PlanChunks(text, id)
  PROVE  Chained(plan') /\ plan' # <<>> /\ (Head(plan').kind \in Chain => plan # <<>> /\ Head(plan).kind \in Chain)
  <1> DEFINE c == PacedPlan(Chunks(text, id, leadId))
  <1>1. Chunks(text, id, leadId) \in Seq(Int)
    BY ChunksType, Zenon
  <1>2. c \in Seq(JobStep) /\ Chained(c) /\ c[1].kind = "WaitKeyed" /\ Len(c) # 0
    <2>1. Len(c) = Len(Chunks(text, id, leadId)) * PacedLen + 1
      BY <1>1, PacedPlanType, Zenon
    <2>2. Len(Chunks(text, id, leadId)) \in Nat /\ PacedLen \in {2, 3, 4}
      BY <1>1, PacedLenValue
    <2> DEFINE m == Len(Chunks(text, id, leadId))
               L == PacedLen
    <2>3. m * L + 1 # 0
      <3>1. m \in Nat /\ L \in {2, 3, 4}
        BY <2>2, Zenon
      <3> HIDE DEF m, L
      <3> QED BY <3>1
    <2> HIDE DEF c
    <2>4. Len(c) # 0
      BY <2>1, <2>3, Zenon
    <2> QED BY <1>1, <2>4, PacedPlanType, PacedPlanChained, Zenon DEF Cut, c
  <1>3. plan' = plan \o c
    BY Zenon DEF PlanChunks
  <1> HIDE DEF c
  <1>4. c # <<>>
    BY <1>2
  <1>5. /\ Chained(plan \o c) /\ plan \o c # <<>>
        /\ Head(plan \o c) = IF plan = <<>> THEN c[1] ELSE Head(plan)
    BY <1>2, <1>4, ChainedAppend, Zenon
  <1> QED BY <1>2, <1>3, <1>5, Zenon DEF Chain
-----------------------------------------------------------------------------
(* What the supervisor's methods do to the job.                            *)

\* The job stays as it is.
Still == UNCHANGED <<act, arm, plan, hasId, idSent, inRadio, idOwed>>

\* There is none, before and after.
Off == act # "Sending" /\ act' # "Sending" /\ idOwed' = idOwed

\* begin_stop ends it.
Quits(wire) ==
    /\ act = "Sending" /\ act' = "Stopping"
    /\ idOwed' = IF hasId /\ ~idSent /\ AnythingKeyed(wire) THEN arm ELSE idOwed

\* It has nothing left to send.
RunsOut == act = "Sending" /\ plan = <<>> /\ act' = "Idle" /\ idOwed' = idOwed

LEMMA SupStill == UNCHANGED supVars => Still
  BY Zenon DEF supVars, armVars, jobVars, actVars, Still

LEMMA RestoreOff ==
  ASSUME act # "Sending", NEW t, StartRestore(t)
  PROVE  Off
  BY Zenon DEF StartRestore, Off

LEMMA StopMoves ==
  ASSUME NEW st, NEW t, NEW wire, BeginStop(st, t, wire)
  PROVE  (Still /\ act # "Sending") \/ Off \/ Quits(wire)
  <1>1. CASE act = "Sending"
    BY <1>1, Zenon DEF BeginStop, Quits
  <1>2. CASE act # "Sending"
    BY <1>2, SupStill, RestoreOff, Zenon DEF BeginStop
  <1> QED BY <1>1, <1>2, Zenon

LEMMA EndArmMoves ==
  ASSUME NEW t, EndArm(t)
  PROVE  Still \/ Off \/ Quits(outstanding)
  <1>1. CASE act = "Sending"
    BY <1>1, StopMoves, Zenon DEF EndArm
  <1>2. CASE act # "Sending"
    <2>1. CASE StartRestore(t)
      BY <1>2, <2>1, RestoreOff, Zenon
    <2>2. CASE UNCHANGED supVars
      BY <2>2, SupStill, Zenon
    <2> QED BY <1>2, <2>1, <2>2, Zenon DEF EndArm, Off
  <1> QED BY <1>1, <1>2, Zenon

LEMMA RefuseOff ==
  ASSUME act = "Arming", RefuseArm
  PROVE  Off
  BY RestoreOff, Zenon DEF RefuseArm, Off

LEMMA FailMoves ==
  ASSUME Fail
  PROVE  (Still /\ act # "Sending") \/ Off \/ Quits(NoStep)
  <1>1. CASE act = "Idle" /\ UNCHANGED supVars
    BY <1>1, SupStill, Zenon
  <1>2. CASE act = "Arming" /\ RefuseArm
    BY <1>2, RefuseOff, Zenon
  <1>3. CASE act = "Sending" /\ BeginStop(TRUE, NoTicket, NoStep)
    BY <1>3, StopMoves, Zenon
  <1>4. CASE act \in {"Stopping", "Restoring"} /\ (FailStopping \/ FailRestoring)
    BY <1>4, Zenon DEF FailStopping, FailRestoring, Off, actVars
  <1> QED BY <1>1, <1>2, <1>3, <1>4, Zenon DEF Fail

LEMMA RequestMoves ==
  ASSUME TypeInv, Requests
  PROVE  /\ UNCHANGED <<outstanding, keyed, answer, air, owing>>
         /\ (\E c \in Consoles : Send(c)) \/ Still \/ Off \/ Quits(outstanding)
  <1>1. UNCHANGED <<outstanding, keyed, answer, air, owing>>
    BY Zenon DEF Requests, Arm, Send, Abort, Disarm, Detached, Shutdown, Request, radio
  <1>2. ASSUME NEW c \in Consoles, Arm(c) PROVE Still \/ Off
    BY <1>2, TypeParts, Zenon DEF Arm, Off, SupInv, SupShape
  <1>3. CASE Abort
    BY <1>1, <1>3, StopMoves, Zenon DEF Abort
  <1>4. ASSUME NEW c \in Consoles, Disarm(c) PROVE Still \/ Off \/ Quits(outstanding)
    BY <1>4, EndArmMoves, Zenon DEF Disarm
  <1>5. ASSUME NEW c \in Consoles, Detached(c) PROVE Still \/ Off \/ Quits(outstanding)
    BY <1>5, EndArmMoves, RefuseOff, Zenon DEF Detached
  <1>6. CASE Shutdown
    <2>1. CASE UNCHANGED supVars
      BY <1>1, <2>1, SupStill, Zenon
    <2>2. CASE act = "Arming" /\ RefuseArm
      BY <1>1, <2>2, RefuseOff, Zenon
    <2>3. CASE EndArm(NoTicket)
      BY <1>1, <2>3, EndArmMoves, Zenon
    <2> QED BY <1>6, <2>1, <2>2, <2>3, Zenon DEF Shutdown
  <1> QED BY <1>1, <1>2, <1>3, <1>4, <1>5, <1>6 DEF Requests

LEMMA FinishMoves ==
  ASSUME NEW more, Finish(more), plan = <<>>
  PROVE  Still \/ Off \/ RunsOut
  <1>1. CASE UNCHANGED <<supVars, open, live>>
    BY <1>1, SupStill, Zenon
  <1>2. CASE act = "Arming" /\ Armed
    BY <1>2, Zenon DEF Armed, Off
  <1>3. CASE act = "Sending"
    BY <1>3, Zenon DEF Finish, RunsOut
  <1>4. CASE act = "Stopping"
    BY <1>4, RestoreOff, Zenon DEF Finish, Off
  <1>5. CASE act = "Restoring" /\ retry = "due" /\ idOwed' = idOwed /\ act' = act
    BY <1>5, Zenon DEF Off
  <1>6. CASE act = "Restoring" /\ Restored
    BY <1>6, Zenon DEF Restored, Off
  <1> QED BY <1>1, <1>2, <1>3, <1>4, <1>5, <1>6, Zenon DEF Finish

LEMMA TurnMoves ==
  ASSUME TypeInv, NextAction \/ TurnFinish \/ TurnWait
  PROVE  /\ UNCHANGED <<outstanding, keyed, answer, air, owing>> /\ outstanding = NoStep
         /\ Still \/ Off \/ Quits(NoStep) \/ RunsOut
  <1>1. UNCHANGED <<outstanding, keyed, answer, air, owing>>
    BY Zenon DEF NextAction, TurnFinish, TurnWait, Call, radio
  <1>2. outstanding = NoStep
    BY TypeParts, Zenon DEF NextAction, TurnFinish, TurnWait, RestType
  <1>3. CASE NextAction
    <2>1. CASE BeginStop(FALSE, NoTicket, NoStep)
      BY <1>1, <1>2, <2>1, StopMoves, Zenon
    <2>2. CASE act = "Idle" /\ StartRestore(NoTicket)
      BY <1>1, <1>2, <2>2, RestoreOff, Zenon
    <2>3. CASE UNCHANGED supVars
      BY <1>1, <1>2, <2>3, SupStill, Zenon
    <2> QED BY <1>3, <2>1, <2>2, <2>3, Zenon DEF NextAction, CheckTimers
  <1>4. CASE TurnFinish
    BY <1>1, <1>2, <1>4, FinishMoves, Zenon DEF TurnFinish
  <1>5. CASE TurnWait
    BY <1>1, <1>2, <1>5, SupStill, Zenon DEF TurnWait
  <1> QED BY <1>1, <1>2, <1>3, <1>4, <1>5, Zenon

\* What is cut when the status comes in, and re-cut when the speed has changed.
Cuts ==
    /\ act = "Sending" /\ outstanding.kind = "Status"
    /\ \E text \in 1..MaxText, id \in 1..MaxId : PlanChunks(text, IF hasId THEN id ELSE 0)
    /\ UNCHANGED <<act, arm, hasId, leadId, idSent, inRadio, idOwed>>
Recuts ==
    /\ act = "Sending" /\ outstanding.kind = "CheckSpeed"
    /\ \E parts \in {1, 2} : Replan(parts)
    /\ UNCHANGED <<act, arm, hasId, leadId, idSent, inRadio, idOwed>>

LEMMA CompleteMoves ==
  ASSUME act = "Sending" => outstanding.kind # "SnapBreakIn", Complete
  PROVE  /\ outstanding' = NoStep /\ answer' = NoAnswer /\ answer # NoAnswer /\ UNCHANGED <<air, owing>>
         /\ \/ /\ answer = Failed \/ outstanding.kind # "Send"
               /\ \/ Still /\ (act # "Sending" \/ outstanding.kind \notin {"Status", "Send"})
                  \/ Off \/ Quits(NoStep)
            \/ Cuts \/ Recuts \/ CompleteReady \/ CompleteSend
  <1>1. outstanding' = NoStep /\ answer' = NoAnswer /\ answer # NoAnswer /\ UNCHANGED <<air, owing>>
    BY Zenon DEF Complete, CompleteFailed, CompleteStatus, CompleteSpeed, CompleteSnapPower, CompleteSnapBreakIn,
       CompleteVerify, CompletePowerAtMost, CompleteStop, CompleteSet, CompleteReady, CompleteSend, Completes,
       Takes, radio
  <1>2. CASE CompleteFailed
    BY <1>1, <1>2, FailMoves, Zenon DEF CompleteFailed
  <1>3. CASE CompleteStatus
    <2>1. outstanding.kind = "Status" /\ OnStatus(answer.val)
      BY <1>3, Zenon DEF CompleteStatus, Completes, Takes
    <2>2. CASE act # "Sending" /\ UNCHANGED supVars
      BY <1>1, <2>1, <2>2, SupStill, Zenon
    <2>3. CASE act = "Arming" /\ RefuseArm
      BY <1>1, <2>1, <2>3, RefuseOff, Zenon
    <2>4. CASE act = "Sending" /\ BeginStop(TRUE, NoTicket, NoStep)
      BY <1>1, <2>1, <2>4, StopMoves, Zenon
    <2>5. CASE Cuts
      BY <1>1, <2>5, Zenon
    <2> QED BY <2>1, <2>2, <2>3, <2>4, <2>5, Zenon DEF OnStatus, OnStatusArming, OnStatusSending, armVars, actVars, Cuts
  <1>4. CASE CompleteSpeed
    <2>1. outstanding.kind = "CheckSpeed" /\ OnSpeed(answer.val)
      BY <1>4, Zenon DEF CompleteSpeed, Completes, Takes
    <2>2. CASE UNCHANGED supVars
      BY <1>1, <2>1, <2>2, SupStill, Zenon
    <2>3. CASE act = "Sending" /\ BeginStop(TRUE, NoTicket, NoStep)
      BY <1>1, <2>1, <2>3, StopMoves, Zenon
    <2>4. CASE Recuts
      BY <1>1, <2>4, Zenon
    <2> QED BY <2>1, <2>2, <2>3, <2>4, Zenon DEF OnSpeed, armVars, actVars, Recuts
  <1>5. CASE CompleteSnapPower \/ CompleteSnapBreakIn
    <2>1. outstanding.kind \in {"SnapPower", "SnapBreakIn"} /\ UNCHANGED <<act, arm, idOwed>>
          /\ UNCHANGED <<hasId, idSent, inRadio>> /\ (plan' = plan \/ outstanding.kind = "SnapBreakIn")
      BY <1>5, Zenon DEF CompleteSnapPower, CompleteSnapBreakIn, Completes, Takes, actVars, armVars, jobVars
    <2> QED BY <1>1, <2>1, Zenon DEF Still, Off
  <1>6. CASE CompleteVerify
    <2>1. outstanding.kind \notin {"Status", "Send"}
      BY <1>6, Zenon DEF CompleteVerify, Completes, Takes
    <2> QED BY <1>1, <1>6, <2>1, SupStill, FailMoves, Zenon DEF CompleteVerify
  <1>7. CASE CompletePowerAtMost
    <2>1. outstanding.kind \notin {"Status", "Send"}
      BY <1>7, Zenon DEF CompletePowerAtMost, Completes, Takes
    <2> QED BY <1>1, <1>7, <2>1, SupStill, StopMoves, Zenon DEF CompletePowerAtMost
  <1>8. CASE CompleteStop \/ CompleteSet
    <2>1. outstanding.kind \notin {"Status", "Send"} /\ UNCHANGED supVars
      BY <1>8, Zenon DEF CompleteStop, CompleteSet, Completes, Takes
    <2> QED BY <1>1, <2>1, SupStill, Zenon
  <1> QED BY <1>1, <1>2, <1>3, <1>4, <1>5, <1>6, <1>7, <1>8, Zenon DEF Complete
-----------------------------------------------------------------------------
(* The drain bound.                                                        *)

LEMMA DrainMoves ==
  ASSUME DrainInv, air' = air,
         UNCHANGED <<outstanding, answer>> \/ outstanding' = NoStep,
         act' = "Sending" => /\ Chained(plan')
                             /\ plan' # <<>> /\ Head(plan').kind \in Chain => air = 0
                             /\ outstanding'.kind \notin {"SnapBreakIn", "WaitReady", "CheckSpeed", "Send"}
  PROVE  DrainInv'
  BY NoStepKind, Zenon DEF DrainInv

LEMMA DrainKept ==
  ASSUME DrainInv, air' = air, UNCHANGED <<outstanding, answer>> \/ outstanding' = NoStep,
         Still \/ Off \/ RunsOut \/ \E wire : Quits(wire)
  PROVE  DrainInv'
  <1>1. act' = "Sending" => act = "Sending" /\ plan' = plan
    BY Zenon DEF Still, Off, RunsOut, Quits
  <1> QED BY <1>1, NoStepKind, Zenon DEF DrainInv

LEMMA SendChained == Chained(SendPlan) /\ SendPlan # <<>> /\ Head(SendPlan).kind \notin Chain
  <1>1. /\ SendPlan \in Seq(JobStep) /\ Len(SendPlan) = 2 /\ Head(SendPlan).kind = "Status"
        /\ SendPlan[1].kind = "Status" /\ SendPlan[2].kind = "PowerAtMost" /\ SendPlan # <<>>
    BY SendPlanType DEF JobPlan, SendPlan, Step
  <1> QED BY <1>1 DEF Chained, Chain

LEMMA RequestDrain ==
  ASSUME TypeInv, DrainInv, Requests
  PROVE  DrainInv'
  <1>1. ASSUME NEW c \in Consoles, Send(c) PROVE DrainInv'
    <2>1. act = "Idle" /\ arm # NoOne /\ plan' = SendPlan
      BY <1>1, NoOneAssumption, Zenon DEF Send
    <2>2. outstanding = NoStep
      BY <2>1, TypeParts, Zenon DEF OutInv
    <2> QED BY <2>1, <2>2, RequestMoves, SendChained, DrainMoves, NoStepKind, Zenon
  <1> QED BY <1>1, RequestMoves, DrainKept, Zenon

\* Only a running send has chunks planned.
LEMMA IssuedOutside ==
  ASSUME SupInv, plan # <<>>, act # "Sending"
  PROVE  Head(plan).kind # "Send"
  <1>1. CASE act = "Arming"
    BY <1>1 DEF SupInv, PlanInv, ArmStep, Step
  <1>2. CASE act = "Stopping"
    <2>1. Head(plan) \in StopStep
      BY <1>2 DEF SupInv, PlanInv
    <2>2. \A x \in StopStep : x.kind # "Send"
      BY Zenon DEF StopStep
    <2> QED BY <2>1, <2>2, Zenon
  <1>3. CASE act = "Restoring"
    BY <1>3 DEF SupInv, PlanInv, RestoreStep, Step
  <1>4. act # "Idle"
    BY Zenon DEF SupInv, PlanInv
  <1> QED BY <1>1, <1>2, <1>3, <1>4, Zenon DEF SupInv, SupType, ActType

LEMMA TurnDrain ==
  ASSUME TypeInv, AirInv, DrainInv, NextAction \/ Turns
  PROVE  DrainInv'
  <1>1. CASE NextAction \/ TurnFinish \/ TurnWait
    BY <1>1, TurnMoves, DrainKept, Zenon
  <1>2. CASE TurnWaited \/ TurnIssue
    <2>1. SupInv /\ RestType /\ AnswerInv
      BY TypeParts, Zenon
    <2>2. /\ outstanding = NoStep /\ outstanding.kind = "None" /\ answer = NoAnswer
      BY <1>2, <2>1, NoStepKind, Zenon DEF TurnWaited, TurnIssue, RestType, AnswerInv
    <2>3. UNCHANGED <<act, air, answer>> /\ plan # <<>> /\ plan' = Tail(plan)
      BY <1>2, Zenon DEF TurnWaited, TurnIssue, Call, radio, actVars
    <2>4. act = "Sending" =>
            /\ plan \in Seq(JobStep) /\ Head(plan) \in JobStep /\ Chained(plan) /\ Chained(plan')
            /\ plan' # <<>> /\ Head(plan').kind \in Chain =>
                  Head(plan).kind \in {"WaitKeyed", "WaitReady", "CheckSpeed"}
      BY <2>1, <2>3, ChainedTail DEF SupInv, PlanInv, JobPlan, DrainInv
    <2>5. act = "Sending" /\ Head(plan).kind = "WaitKeyed" => air = 0
      <3> HAVE act = "Sending" /\ Head(plan).kind = "WaitKeyed"
      <3>1. Head(plan).val \in Nat
        BY <2>4 DEF JobStep, Step
      <3>2. keyed + Head(plan).val <= 0
        BY <1>2, <2>1, <3>1 DEF TurnWaited, TurnIssue, Waits, RestType
      <3>3. keyed <= 0
        BY <2>1, <3>1, <3>2 DEF RestType
      <3> QED BY <2>1, <2>2, <3>3 DEF AirInv, Max0, RestType
    <2>6. act = "Sending" /\ Head(plan).kind \in Chain => air = 0
      BY <2>3, Zenon DEF DrainInv
    <2>7. act = "Sending" /\ plan' # <<>> /\ Head(plan').kind \in Chain => air = 0
      BY <2>4, <2>5, <2>6, Zenon DEF Chain
    <2>8. CASE TurnWaited
      BY <2>2, <2>3, <2>4, <2>7, <2>8, DrainMoves, Zenon DEF TurnWaited
    <2>9. CASE TurnIssue
      <3>1. outstanding' = Head(plan)
        BY <2>9, Zenon DEF TurnIssue
      <3>2. act # "Sending" => Head(plan).kind # "Send"
        BY <2>1, <2>3, IssuedOutside, Zenon
      <3>3. act = "Sending" => Head(plan).kind # "SnapBreakIn"
        BY <2>4 DEF JobStep, Step
      <3> QED BY <2>1, <2>2, <2>3, <2>4, <2>6, <2>7, <3>1, <3>2, <3>3, Zenon
              DEF DrainInv, Chain
    <2> QED BY <1>2, <2>8, <2>9, Zenon
  <1> QED BY <1>1, <1>2, Zenon DEF Turns

LEMMA CompleteDrain ==
  ASSUME TypeInv, DrainInv, Complete
  PROVE  DrainInv'
  <1>1. SupInv /\ OutInv
    BY TypeParts, Zenon
  <1>2. outstanding' = NoStep /\ air' = air /\ outstanding'.kind \notin {"SnapBreakIn", "WaitReady", "CheckSpeed", "Send"}
    BY CompleteMoves, NoStepKind, Zenon DEF DrainInv
  <1>3. act = "Sending" => plan \in Seq(JobStep) /\ Chained(plan)
    BY <1>1, Zenon DEF SupInv, PlanInv, JobPlan, DrainInv
  <1>4. CASE Still \/ Off \/ Quits(NoStep)
    BY <1>2, <1>4, DrainKept, Zenon
  <1>5. CASE Cuts
    <2>1. PICK text \in 1..MaxText, id \in 1..MaxId : PlanChunks(text, IF hasId THEN id ELSE 0)
      BY <1>5, Zenon DEF Cuts
    <2>2. text \in Nat /\ (IF hasId THEN id ELSE 0) \in Nat /\ leadId \in BOOLEAN
      BY <1>1, BoundAssumption DEF SupInv, SupType, JobType
    <2>3. Chained(plan') /\ plan' # <<>> /\ (Head(plan').kind \in Chain => plan # <<>> /\ Head(plan).kind \in Chain)
      BY <1>3, <1>5, <2>1, <2>2, PlanChunksChained, Zenon DEF Cuts
    <2> QED BY <1>2, <1>5, <2>3, DrainMoves, Zenon DEF Cuts, DrainInv
  <1>6. CASE Recuts
    <2>1. PICK parts \in {1, 2} : Replan(parts)
      BY <1>6, Zenon DEF Recuts
    <2>2. Spaced(Len(plan)) /\ air = 0
      BY <1>1, <1>6, Zenon DEF Recuts, OutInv, DrainInv
    <2>3. Chained(plan')
      BY <1>3, <1>6, <2>1, <2>2, ReplanChained, Zenon DEF Recuts
    <2> QED BY <1>2, <2>2, <2>3, DrainMoves, Zenon
  <1>7. CASE CompleteReady
    <2>1. outstanding.kind = "WaitReady" /\ act' = act /\ (plan' = plan \/ plan' = <<outstanding>> \o plan)
      BY <1>7, Zenon DEF CompleteReady, Completes, Takes, actVars
    <2>2. act = "Sending" => air = 0
      BY <2>1, Zenon DEF DrainInv
    <2>3. act = "Sending" => outstanding \in JobStep
      BY <1>1, <2>1, NoStepKind DEF OutInv, ArmStep, JobStep, StopStep, Step
    <2>4. act = "Sending" => Chained(<<outstanding>> \o plan)
      BY <1>3, <2>1, <2>3, ChainedPush, Zenon
    <2> QED BY <1>2, <1>3, <2>1, <2>2, <2>4, DrainMoves, Zenon
  <1>8. CASE CompleteSend
    <2>1. UNCHANGED <<act, plan>>
      BY <1>8, Zenon DEF CompleteSend, OnSent, actVars
    <2> QED BY <1>2, <2>1, DrainMoves, Zenon DEF DrainInv
  <1> QED BY <1>4, <1>5, <1>6, <1>7, <1>8, CompleteMoves, Zenon DEF DrainInv

LEMMA RadioDrain ==
  ASSUME TypeInv, DrainInv, "Send" \notin LostWrites, Radio
  PROVE  DrainInv'
  <1>1. RestType
    BY TypeParts, Zenon
  <1>2. UNCHANGED <<act, plan, outstanding>>
    BY SupStateKeeps, ZenonT(30) DEF Radio, RadioReads, RadioWrites, RadioLosesAck, RadioIgnores, RadioFails,
       PanelPower, supState, supVars, actVars
  <1>3. ChunkTime \in Nat /\ air \in Nat
    BY <1>1, TimeAssumption, Zenon DEF RestType
  <1>4. CASE air' = air /\ (answer' = answer \/ answer' # NoAnswer)
    BY <1>2, <1>4, Zenon DEF DrainInv
  <1>5. CASE Lands(outstanding) /\ answer' # NoAnswer /\ answer = NoAnswer
    <2>1. CASE outstanding.kind = "Send"
      <3>1. air = 0
        BY <1>5, <2>1, Zenon DEF DrainInv
      <3>2. PICK d \in 1..ChunkTime : air' = air + d
        BY <1>5, <2>1, Zenon DEF Lands
      <3>3. air' <= ChunkTime
        BY <1>3, <3>1, <3>2
      <3> QED BY <1>2, <1>5, <2>1, <3>3, Zenon DEF DrainInv
    <2>2. CASE outstanding.kind # "Send"
      <3>1. air' = air \/ air' = 0
        BY <1>5, <2>2, Zenon DEF Lands
      <3> QED BY <1>2, <1>3, <1>5, <3>1 DEF DrainInv
    <2> QED BY <2>1, <2>2, Zenon
  <1>6. CASE RadioReads \/ RadioIgnores \/ RadioFails
    BY <1>4, <1>6, AnswerKinds, Zenon DEF RadioReads, Reads, RadioIgnores, RadioFails, radio, NoAnswer, Done, Failed
  <1>7. CASE PanelPower
    BY <1>4, <1>7, Zenon DEF PanelPower
  <1>8. CASE RadioWrites \/ RadioLosesAck
    BY <1>5, <1>8, AnswerKinds, Zenon DEF RadioWrites, RadioLosesAck
  <1> QED BY <1>6, <1>7, <1>8, Zenon DEF Radio

LEMMA TimeDrain ==
  ASSUME TypeInv, DrainInv, Time
  PROVE  DrainInv'
  <1>1. UNCHANGED <<act, plan, outstanding, answer>>
    BY Zenon DEF Time, Tick, WatchdogPasses, IdlePasses, IdIntervalPasses, RetryPasses, ReadyRetryPasses, Clock
  <1>2. air' = air \/ (air' = Max0(air - 1) /\ air \in Nat)
    BY TypeParts, Zenon DEF Time, Tick, WatchdogPasses, IdlePasses, IdIntervalPasses, RetryPasses, ReadyRetryPasses, RestType
  <1>3. air' = air \/ (air' <= air /\ (air = 0 => air' = 0))
    BY <1>2 DEF Max0
  <1>4. ChunkTime \in Nat /\ air \in Nat /\ air' \in Int
    BY <1>2, TypeParts, TimeAssumption DEF RestType, Max0
  <1> QED BY <1>1, <1>3, <1>4 DEF DrainInv

LEMMA DrainInitOK == Init => DrainInv
  <1> SUFFICES ASSUME Init PROVE DrainInv
    OBVIOUS
  <1>1. air = 0 /\ act = "Idle" /\ ChunkTime \in Nat
    BY TimeAssumption, Zenon DEF Init
  <1> QED BY <1>1 DEF DrainInv

LEMMA DrainStepOK ==
  ASSUME "Send" \notin LostWrites
  PROVE  TypeInv /\ AirInv /\ DrainInv /\ [Next]_vars => DrainInv'
  <1> SUFFICES ASSUME TypeInv, AirInv, DrainInv, [Next]_vars PROVE DrainInv'
    OBVIOUS
  <1>1. CASE UNCHANGED vars
    BY <1>1, SupStill, DrainKept, Zenon DEF vars, radio
  <1> QED BY <1>1, RequestDrain, TurnDrain, CompleteDrain, RadioDrain, TimeDrain, Zenon DEF Next

-----------------------------------------------------------------------------
(* The ID that is owed.                                                    *)

\* A chunk that leaves the ID unfinished or finishes it, and the latter.
Owes(x) == x.kind = "Send" /\ x.val # Plain
Last(x) == x.kind = "Send" /\ x.val = EndsId

\* How many steps follow a chunk.
Slot(m) == \E n \in Nat : m = n * PacedLen + 1

\* A send's plan holds chunks where Replan looks for them and nowhere else, and
\* no part of the ID after the chunk that ends it.
IdPlan(p) ==
    /\ \A i \in 1..Len(p) : p[i].kind = "Send" => Slot(Len(p) - i) /\ p[i].val \in {Plain, Unid, EndsId}
    /\ \A i \in 1..Len(p) : Slot(Len(p) - i) => p[i].kind \in {"Send", "PowerAtMost", "Status"}
    /\ \A i, j \in 1..Len(p) : Last(p[i]) /\ Owes(p[j]) => j <= i
    /\ \A i, j \in 1..Len(p) :
          p[i].kind \in {"Status", "PowerAtMost"} /\ p[j].kind = "CheckSpeed" => i < j

\* A running send that has to give its ID still has the chunk that ends it ahead.
JobIdInv ==
    /\ IdPlan(plan)
    /\ \A i \in 1..Len(plan) : Owes(plan[i]) => hasId /\ ~idSent
    /\ Owes(outstanding) => hasId /\ ~idSent
    /\ Last(outstanding) => \A i \in 1..Len(plan) : ~Owes(plan[i])
    /\ \A i \in 1..Len(plan) :
          plan[i].kind = "Status" => plan = SendPlan /\ ~idSent /\ outstanding = NoStep
    /\ outstanding.kind = "Status" => plan = <<Step("PowerAtMost", LowPower)>> /\ ~idSent
    /\ outstanding.kind # "SnapBreakIn"
    /\ hasId /\ ~idSent =>
          \/ \E i \in 1..Len(plan) : plan[i].kind = "Status" \/ Last(plan[i])
          \/ outstanding.kind = "Status" \/ Last(outstanding)
    /\ outstanding.kind = "CheckSpeed" => \A i \in 1..Len(plan) : plan[i].kind \notin {"Status", "PowerAtMost"}
    /\ outstanding.kind = "WaitReady" => ~Slot(Len(plan))
    /\ owing => \/ idOwed # NoOne
                \/ hasId /\ ~idSent /\ (inRadio \/ (outstanding.kind = "Send" /\ answer = Done))

IdInv ==
    /\ act = "Sending" => JobIdInv
    /\ Last(outstanding) /\ answer \notin {NoAnswer, Failed} => ~owing
    /\ act # "Sending" /\ (owing \/ outstanding = Step("Send", Unid)) => idOwed # NoOne
    /\ outstanding.kind = "Send" => outstanding.val \in {Plain, Unid, EndsId}
\* What is left of a plan after its first steps.
LEMMA IdPlanSuffix ==
  ASSUME NEW p \in Seq(JobStep), IdPlan(p), NEW z \in Seq(JobStep), NEW m \in Nat,
         Len(z) = Len(p) - m, \A i \in 1..Len(z) : z[i] = p[i + m]
  PROVE  IdPlan(z)
  <1>1. Len(p) \in Nat /\ Len(z) \in Nat
    OBVIOUS
  <1>2. \A i \in 1..Len(z) : i + m \in 1..Len(p) /\ Len(z) - i = Len(p) - (i + m)
    BY <1>1
  <1>3. \A i \in 1..Len(z) : z[i].kind = "Send" => Slot(Len(z) - i) /\ z[i].val \in {Plain, Unid, EndsId}
    BY <1>2, Zenon DEF IdPlan
  <1>4. \A i \in 1..Len(z) : Slot(Len(z) - i) => z[i].kind \in {"Send", "PowerAtMost", "Status"}
    BY <1>2, Zenon DEF IdPlan
  <1>5. \A i, j \in 1..Len(z) : Last(z[i]) /\ Owes(z[j]) => j <= i
    <2> TAKE i, j \in 1..Len(z)
    <2> HAVE Last(z[i]) /\ Owes(z[j])
    <2>1. j + m <= i + m
      BY <1>2, Zenon DEF IdPlan
    <2> QED BY <1>1, <2>1
  <1>6. \A i, j \in 1..Len(z) :
          z[i].kind \in {"Status", "PowerAtMost"} /\ z[j].kind = "CheckSpeed" => i < j
    <2> TAKE i, j \in 1..Len(z)
    <2> HAVE z[i].kind \in {"Status", "PowerAtMost"} /\ z[j].kind = "CheckSpeed"
    <2>1. i + m < j + m
      BY <1>2, Zenon DEF IdPlan
    <2> QED BY <1>1, <2>1
  <1> QED BY <1>3, <1>4, <1>5, <1>6, Zenon DEF IdPlan

LEMMA IdPlanTail ==
  ASSUME NEW p \in Seq(JobStep), IdPlan(p), p # <<>>
  PROVE  /\ IdPlan(Tail(p)) /\ Tail(p) \in Seq(JobStep) /\ Head(p) = p[1] /\ 1 \in 1..Len(p)
         /\ Len(Tail(p)) = Len(p) - 1
         /\ \A i \in 1..Len(Tail(p)) : i + 1 \in 1..Len(p) /\ Tail(p)[i] = p[i + 1]
         /\ Last(Head(p)) => \A i \in 1..Len(Tail(p)) : ~Owes(Tail(p)[i])
         /\ Head(p).kind = "CheckSpeed" =>
               \A i \in 1..Len(Tail(p)) : Tail(p)[i].kind \notin {"Status", "PowerAtMost"}
         /\ Head(p).kind = "WaitReady" => ~Slot(Len(Tail(p)))
         /\ Head(p).kind = "Send" => Head(p).val \in {Plain, Unid, EndsId}
  <1> DEFINE z == Tail(p)
  <1>1. Len(p) \in Nat /\ Len(p) > 0
    OBVIOUS
  <1>2. /\ z \in Seq(JobStep) /\ Len(z) = Len(p) - 1 /\ Head(p) = p[1]
        /\ \A i \in 1..Len(z) : z[i] = p[i + 1]
    BY <1>1
  <1> HIDE DEF z
  <1>3. IdPlan(z)
    BY <1>2, IdPlanSuffix, Zenon
  <1>4. 1 \in 1..Len(p) /\ \A i \in 1..Len(z) : i + 1 \in 1..Len(p) /\ ~(i + 1 <= 1) /\ ~(i + 1 < 1)
    BY <1>1, <1>2
  <1>5. Last(Head(p)) => \A i \in 1..Len(z) : ~Owes(z[i])
    BY <1>2, <1>4, Zenon DEF IdPlan
  <1>6. Head(p).kind = "CheckSpeed" => \A i \in 1..Len(z) : z[i].kind \notin {"Status", "PowerAtMost"}
    BY <1>2, <1>4, Zenon DEF IdPlan
  <1>7. Head(p).kind = "WaitReady" => ~Slot(Len(z))
    BY <1>2, <1>4, Zenon DEF IdPlan
  <1>8. Head(p).kind = "Send" => Head(p).val \in {Plain, Unid, EndsId}
    BY <1>2, <1>4, Zenon DEF IdPlan
  <1> QED BY <1>2, <1>3, <1>4, <1>5, <1>6, <1>7, <1>8, Zenon DEF z

\* A step that is not a chunk and not in a chunk's place goes in front.
LEMMA IdPlanPush ==
  ASSUME NEW p \in Seq(JobStep), IdPlan(p), NEW x \in JobStep,
         \/ x.kind = "WaitReady" /\ ~Slot(Len(p))
         \/ x.kind = "PowerAtMost"
  PROVE  IdPlan(<<x>> \o p)
  <1> DEFINE z == <<x>> \o p
  <1>1. /\ z \in Seq(JobStep) /\ Len(z) = Len(p) + 1 /\ z[1] = x /\ Len(p) \in Nat
        /\ \A i \in 2..Len(z) : z[i] = p[i - 1]
    OBVIOUS
  <1> HIDE DEF z
  <1>2. \A i \in 1..Len(z) : i = 1 \/ (i \in 2..Len(z) /\ i - 1 \in 1..Len(p) /\ Len(z) - i = Len(p) - (i - 1))
    BY <1>1
  <1>3. Len(z) - 1 = Len(p)
    BY <1>1
  <1>4. \A i \in 1..Len(z) : z[i].kind = "Send" => Slot(Len(z) - i) /\ z[i].val \in {Plain, Unid, EndsId}
    BY <1>1, <1>2, Zenon DEF IdPlan
  <1>5. \A i \in 1..Len(z) : Slot(Len(z) - i) => z[i].kind \in {"Send", "PowerAtMost", "Status"}
    BY <1>1, <1>2, <1>3, Zenon DEF IdPlan
  <1>6. \A i, j \in 1..Len(z) : Last(z[i]) /\ Owes(z[j]) => j <= i
    <2> TAKE i, j \in 1..Len(z)
    <2> HAVE Last(z[i]) /\ Owes(z[j])
    <2>1. i # 1 /\ j # 1
      BY <1>1, Zenon DEF Last, Owes
    <2>2. i - 1 \in 1..Len(p) /\ j - 1 \in 1..Len(p) /\ z[i] = p[i - 1] /\ z[j] = p[j - 1]
      BY <1>1, <1>2, <2>1, Zenon
    <2>3. j - 1 <= i - 1
      BY <2>2, Zenon DEF IdPlan
    <2> QED BY <1>1, <2>3
  <1>7. \A i, j \in 1..Len(z) :
          z[i].kind \in {"Status", "PowerAtMost"} /\ z[j].kind = "CheckSpeed" => i < j
    <2> TAKE i, j \in 1..Len(z)
    <2> HAVE z[i].kind \in {"Status", "PowerAtMost"} /\ z[j].kind = "CheckSpeed"
    <2>1. j # 1
      BY <1>1, Zenon
    <2>2. CASE i = 1
      BY <1>1, <2>1, <2>2
    <2>3. CASE i # 1
      <3>1. i - 1 \in 1..Len(p) /\ j - 1 \in 1..Len(p) /\ z[i] = p[i - 1] /\ z[j] = p[j - 1]
        BY <1>1, <1>2, <2>1, <2>3, Zenon
      <3>2. i - 1 < j - 1
        BY <3>1, Zenon DEF IdPlan
      <3> QED BY <1>1, <3>2
    <2> QED BY <2>2, <2>3, Zenon
  <1>8. IdPlan(z)
    BY <1>4, <1>5, <1>6, <1>7, Zenon DEF IdPlan
  <1> QED BY <1>8, Zenon DEF z

\* Chunks that give no part of the ID after the one that ends it.
Ordered(cs) ==
    /\ \A q \in 1..Len(cs) : cs[q] \in {Plain, Unid, EndsId}
    /\ \A q, k \in 1..Len(cs) : cs[q] = EndsId /\ cs[k] # Plain => k <= q

\* How far a step is from the end: only a chunk itself is a whole number of
\* paced chunks, and the final wait, away from it.
LEMMA FromTheEnd ==
  ASSUME NEW L \in {2, 3, 4}, NEW n \in Nat, NEW q \in 1..n, NEW k \in 1..L
  PROVE  (\E m \in Nat : (n * L + 1) - ((q - 1) * L + k) = m * L + 1) <=> k = L
  <1>1. ASSUME k = L
        PROVE  n - q \in Nat /\ (n * L + 1) - ((q - 1) * L + k) = (n - q) * L + 1
    <2>1. CASE L = 2
      BY <1>1, <2>1
    <2>2. CASE L = 3
      BY <1>1, <2>2
    <2>3. CASE L = 4
      BY <1>1, <2>3
    <2> QED BY <2>1, <2>2, <2>3, Zenon
  <1>2. ASSUME NEW m \in Nat, (n * L + 1) - ((q - 1) * L + k) = m * L + 1
        PROVE  k = L
    <2>1. CASE L = 2
      BY <1>2, <2>1
    <2>2. CASE L = 3
      BY <1>2, <2>2
    <2>3. CASE L = 4
      BY <1>2, <2>3
    <2> QED BY <2>1, <2>2, <2>3, Zenon
  <1> QED BY <1>1, <1>2, Zenon
\* The chunks of a paced plan, and that they are in their places.
LEMMA PacedSends ==
  ASSUME NEW cs \in Seq(Int)
  PROVE  LET L == PacedLen
             p == PacedPlan(cs)
         IN  /\ \A q \in 1..Len(cs) : (q - 1) * L + L \in 1..Len(p) /\ p[(q - 1) * L + L] = Step("Send", cs[q])
             /\ \A i \in 1..Len(p) : p[i].kind = "Send" =>
                   \E q \in 1..Len(cs) : i = (q - 1) * L + L /\ p[i] = Step("Send", cs[q])
             /\ \A i \in 1..Len(p) : Slot(Len(p) - i) <=> p[i].kind = "Send"
             /\ \A i \in 1..Len(p) : p[i].kind \notin {"Status", "PowerAtMost"}
  <1> DEFINE L == PacedLen
             n == Len(cs)
             p == PacedPlan(cs)
  <1>1. L \in {2, 3, 4} /\ n \in Nat /\ Len(p) = n * L + 1
    BY PacedLenValue, PacedPlanType
  <1>2. \A q \in 1..n : cs[q] \in Int
    OBVIOUS
  <1>3. \A q \in 1..n, k \in 1..L : p[(q - 1) * L + k] = Paced(cs[q])[k]
    BY PacedPlanAt, Zenon
  <1>4. p[n * L + 1].kind = "WaitKeyed"
    BY PacedPlanAt DEF Step
  <1>5. \A i \in 1..Len(p) : i = n * L + 1 \/ \E q \in 1..n, k \in 1..L : i = (q - 1) * L + k
    BY PacedPlaces, Zenon
  <1>6. \A q \in 1..n : /\ Paced(cs[q])[1].kind = "WaitKeyed" /\ Paced(cs[q])[L] = Step("Send", cs[q])
                        /\ \A k \in 2..(L - 1) : Paced(cs[q])[k].kind \in {"WaitReady", "CheckSpeed"}
    BY <1>2, PacedShape, Zenon
  <1>7. \A m : Slot(m) <=> \E b \in Nat : m = b * L + 1
    BY Zenon DEF Slot
  <1> HIDE DEF L, n, p
  <1>8. \A q \in 1..n, k \in 1..L : (q - 1) * L + k \in 1..Len(p)
    <2> TAKE q \in 1..n, k \in 1..L
    <2>1. (q - 1) * L + k \in Int
      BY <1>1
    <2>2. (q - 1) * L + k \in 1..(n * L)
      BY <1>1, <2>1, Indices
    <2> QED BY <1>1, <2>2
  <1>9. \A q \in 1..n, k \in 1..L : k = 1 \/ k = L \/ k \in 2..(L - 1)
    BY <1>1
  <1>10. \A q \in 1..n, k \in 1..L :
           /\ p[(q - 1) * L + k].kind = "Send" <=> k = L
           /\ p[(q - 1) * L + k].kind \notin {"Status", "PowerAtMost"}
    <2> TAKE q \in 1..n, k \in 1..L
    <2>1. p[(q - 1) * L + k] = Paced(cs[q])[k] /\ Step("Send", cs[q]).kind = "Send" /\ L # 1
      BY <1>1, <1>3 DEF Step
    <2>2. CASE k = 1
      BY <1>6, <2>1, <2>2, Zenon
    <2>3. CASE k = L
      BY <1>6, <2>1, <2>3, Zenon
    <2>4. CASE k \in 2..(L - 1)
      <3>1. k # L
        BY <1>1, <2>4
      <3> QED BY <1>6, <2>1, <2>4, <3>1, Zenon
    <2> QED BY <1>9, <2>2, <2>3, <2>4, Zenon
  <1>11. \A q \in 1..n : (q - 1) * L + L \in 1..Len(p) /\ p[(q - 1) * L + L] = Step("Send", cs[q])
    <2>1. L \in 1..L
      BY <1>1
    <2> QED BY <1>3, <1>6, <1>8, <2>1, Zenon
  <1>12. ASSUME NEW i \in 1..Len(p)
         PROVE  /\ p[i].kind = "Send" => \E q \in 1..n : i = (q - 1) * L + L /\ p[i] = Step("Send", cs[q])
                /\ Slot(Len(p) - i) <=> p[i].kind = "Send"
                /\ p[i].kind \notin {"Status", "PowerAtMost"}
    <2>1. CASE i = n * L + 1
      <3>1. Len(p) - i = 0 /\ ~\E b \in Nat : 0 = b * L + 1
        BY <1>1, <2>1
      <3> QED BY <1>4, <1>7, <2>1, <3>1, Zenon
    <2>2. CASE \E q \in 1..n, k \in 1..L : i = (q - 1) * L + k
      <3>1. PICK q \in 1..n, k \in 1..L : i = (q - 1) * L + k
        BY <2>2, Zenon
      <3>2. Slot(Len(p) - i) <=> k = L
        <4>1. Len(p) - i = (n * L + 1) - ((q - 1) * L + k)
          BY <1>1, <3>1, Zenon
        <4>2. (\E m \in Nat : (n * L + 1) - ((q - 1) * L + k) = m * L + 1) <=> k = L
          BY <1>1, FromTheEnd, Zenon
        <4> QED BY <1>7, <4>1, <4>2, Zenon
      <3> QED BY <1>10, <1>11, <3>1, <3>2, Zenon
    <2> QED BY <1>5, <2>1, <2>2, Zenon
  <1> QED BY <1>11, <1>12, Zenon DEF L, n, p

LEMMA PacedIds ==
  ASSUME NEW cs \in Seq(Int), Ordered(cs)
  PROVE  IdPlan(PacedPlan(cs))
  <1> DEFINE L == PacedLen
             n == Len(cs)
             p == PacedPlan(cs)
  <1>1. L \in {2, 3, 4} /\ n \in Nat
    BY PacedLenValue
  <1>2. /\ \A i \in 1..Len(p) : p[i].kind = "Send" =>
              \E q \in 1..n : i = (q - 1) * L + L /\ p[i] = Step("Send", cs[q])
        /\ \A i \in 1..Len(p) : Slot(Len(p) - i) <=> p[i].kind = "Send"
        /\ \A i \in 1..Len(p) : p[i].kind \notin {"Status", "PowerAtMost"}
    BY PacedSends, Zenon
  <1>3. \A q \in 1..n : Step("Send", cs[q]).val = cs[q] /\ cs[q] \in {Plain, Unid, EndsId}
    BY Zenon DEF Ordered, Step
  <1>4. \A q, k \in 1..n : cs[q] = EndsId /\ cs[k] # Plain => k <= q
    BY Zenon DEF Ordered
  <1> HIDE DEF L, n, p
  <1>5. \A i \in 1..Len(p) : p[i].kind = "Send" => Slot(Len(p) - i) /\ p[i].val \in {Plain, Unid, EndsId}
    BY <1>2, <1>3, Zenon
  <1>6. \A i, j \in 1..Len(p) : Last(p[i]) /\ Owes(p[j]) => j <= i
    <2> TAKE i, j \in 1..Len(p)
    <2> HAVE Last(p[i]) /\ Owes(p[j])
    <2>1. PICK q \in 1..n : i = (q - 1) * L + L /\ p[i] = Step("Send", cs[q])
      BY <1>2, Zenon DEF Last
    <2>2. PICK k \in 1..n : j = (k - 1) * L + L /\ p[j] = Step("Send", cs[k])
      BY <1>2, Zenon DEF Owes
    <2>3. k <= q
      BY <1>3, <1>4, <2>1, <2>2, Zenon DEF Last, Owes
    <2> QED BY <1>1, <2>1, <2>2, <2>3
  <1>7. IdPlan(p)
    BY <1>2, <1>5, <1>6, Zenon DEF IdPlan
  <1> QED BY <1>7, Zenon DEF p

\* cut gives the ID on chunks of its own, all of it, and marks its last one.
LEMMA ChunksIds ==
  ASSUME NEW text \in Nat, NEW id \in Nat, NEW lead \in BOOLEAN
  PROVE  LET cs == Chunks(text, id, lead)
         IN  /\ cs \in Seq(Int) /\ Ordered(cs)
             /\ id = 0 => \A q \in 1..Len(cs) : cs[q] = Plain
             /\ id # 0 => \E q \in 1..Len(cs) : cs[q] = EndsId
  <1> DEFINE I == [i \in 1..id |-> IF i = id THEN EndsId ELSE Unid]
             T == [i \in 1..text |-> IF id = 0 \/ lead THEN Plain ELSE Unid]
  <1>1. I \in Seq(Int) /\ T \in Seq(Int) /\ Len(I) = id /\ Len(T) = text
    BY DEF EndsId, Unid, Plain
  <1>2. /\ \A i \in 1..id : I[i] = IF i = id THEN EndsId ELSE Unid
        /\ \A i \in 1..text : T[i] = IF id = 0 \/ lead THEN Plain ELSE Unid
    OBVIOUS
  <1>3. Chunks(text, id, lead) = IF lead THEN I \o T ELSE T \o I
    BY Zenon DEF Chunks
  <1> HIDE DEF I, T
  <1>4. /\ I \o T \in Seq(Int) /\ Len(I \o T) = id + text
        /\ \A i \in 1..(id + text) : (I \o T)[i] = IF i <= id THEN I[i] ELSE T[i - id]
        /\ T \o I \in Seq(Int) /\ Len(T \o I) = text + id
        /\ \A i \in 1..(text + id) : (T \o I)[i] = IF i <= text THEN T[i] ELSE I[i - text]
    <2>1. I \in Seq(Int) /\ T \in Seq(Int)
      BY <1>1, Zenon
    <2>2. /\ I \o T \in Seq(Int) /\ Len(I \o T) = Len(I) + Len(T)
          /\ \A i \in 1..(Len(I) + Len(T)) : (I \o T)[i] = IF i <= Len(I) THEN I[i] ELSE T[i - Len(I)]
      BY <2>1
    <2>3. /\ T \o I \in Seq(Int) /\ Len(T \o I) = Len(T) + Len(I)
          /\ \A i \in 1..(Len(T) + Len(I)) : (T \o I)[i] = IF i <= Len(T) THEN T[i] ELSE I[i - Len(T)]
      BY <2>1
    <2> QED BY <1>1, <2>2, <2>3, Zenon
  <1>5. Plain = 0 /\ Unid = 1 /\ EndsId = 2
    BY Zenon DEF Plain, Unid, EndsId
  <1>6. CASE lead
    <2> DEFINE cs == I \o T
    <2>1. \A i \in 1..Len(cs) : cs[i] = IF i < id THEN Unid ELSE IF i = id THEN EndsId ELSE Plain
      <3> TAKE i \in 1..Len(cs)
      <3>a. i \in 1..(id + text) /\ cs[i] = IF i <= id THEN I[i] ELSE T[i - id]
        BY <1>4, Zenon
      <3> HIDE DEF cs
      <3>1. CASE i <= id
        BY <1>2, <3>a, <3>1
      <3>2. CASE ~(i <= id)
        <4>1. i - id \in 1..text /\ cs[i] = T[i - id]
          BY <3>a, <3>2
        <4> QED BY <1>2, <1>6, <3>2, <4>1
      <3> QED BY <3>1, <3>2, Zenon
    <2>2. Len(cs) = id + text /\ cs \in Seq(Int)
      BY <1>4, Zenon
    <2> HIDE DEF cs
    <2>3. Ordered(cs)
      BY <1>5, <2>1, <2>2 DEF Ordered
    <2>4. id = 0 => \A q \in 1..Len(cs) : cs[q] = Plain
      BY <2>1
    <2>5. id # 0 => id \in 1..Len(cs) /\ cs[id] = EndsId
      BY <2>1, <2>2
    <2> QED BY <1>3, <1>6, <2>2, <2>3, <2>4, <2>5, Zenon DEF cs
  <1>7. CASE ~lead
    <2> DEFINE cs == T \o I
    <2>1. \A i \in 1..Len(cs) : cs[i] = IF id = 0 THEN Plain ELSE IF i = text + id THEN EndsId ELSE Unid
      <3> TAKE i \in 1..Len(cs)
      <3>a. i \in 1..(text + id) /\ cs[i] = IF i <= text THEN T[i] ELSE I[i - text]
        BY <1>4, Zenon
      <3> HIDE DEF cs
      <3>1. CASE i <= text
        BY <1>2, <1>7, <3>a, <3>1
      <3>2. CASE ~(i <= text)
        <4>1. i - text \in 1..id /\ cs[i] = I[i - text]
          BY <3>a, <3>2
        <4> QED BY <1>2, <3>2, <4>1
      <3> QED BY <3>1, <3>2, Zenon
    <2>2. Len(cs) = text + id /\ cs \in Seq(Int)
      BY <1>4, Zenon
    <2> HIDE DEF cs
    <2>3. Ordered(cs)
      BY <1>5, <2>1, <2>2 DEF Ordered
    <2>4. id = 0 => \A q \in 1..Len(cs) : cs[q] = Plain
      BY <2>1, Zenon
    <2>5. id # 0 => text + id \in 1..Len(cs) /\ cs[text + id] = EndsId
      BY <2>1, <2>2
    <2> QED BY <1>3, <1>7, <2>2, <2>3, <2>4, <2>5, Zenon DEF cs
  <1> QED BY <1>6, <1>7, Zenon
\* Where Replan looks for the k-th chunk left, there is a chunk, and it looks at
\* every chunk.
LEMMA LeftPlaces ==
  ASSUME NEW L \in {2, 3, 4}, NEW n \in Nat
  PROVE  /\ \A k \in 1..(n + 1) : /\ (k - 1) * L + 1 \in 1..(n * L + 2) /\ (n + 1) - k \in Nat
                                  /\ (n * L + 2) - ((k - 1) * L + 1) = ((n + 1) - k) * L + 1
         /\ \A i \in 1..(n * L + 2), m \in Nat :
               (n * L + 2) - i = m * L + 1 => (n + 1) - m \in 1..(n + 1) /\ i = ((n + 1) - m - 1) * L + 1
  <1>1. CASE L = 2
    BY <1>1
  <1>2. CASE L = 3
    BY <1>2
  <1>3. CASE L = 4
    BY <1>3
  <1> QED BY <1>1, <1>2, <1>3, Zenon

LEMMA LeftIds ==
  ASSUME plan \in Seq(JobStep), Spaced(Len(plan)), IdPlan(plan),
         \A i \in 1..Len(plan) : plan[i].kind \notin {"Status", "PowerAtMost"}
  PROVE  /\ ChunksLeft \in Seq(Int) /\ Len(ChunksLeft) \in Nat \ {0} /\ Ordered(ChunksLeft)
         /\ \A k \in 1..Len(ChunksLeft) :
               \E i \in 1..Len(plan) : plan[i].kind = "Send" /\ plan[i].val = ChunksLeft[k]
         /\ \A i \in 1..Len(plan) : plan[i].kind = "Send" =>
               \E k \in 1..Len(ChunksLeft) : plan[i].val = ChunksLeft[k]
  <1> DEFINE L == PacedLen
             q == (Len(plan) - 2) \div L
  <1>1. L \in {2, 3, 4}
    BY PacedLenValue, Zenon
  <1>2. PICK n \in Nat : Len(plan) = n * L + 2
    BY Zenon DEF Spaced
  <1>3. \A m : Slot(m) <=> \E b \in Nat : m = b * L + 1
    BY Zenon DEF Slot
  <1> HIDE DEF L
  <1>4. q = n
    <2>1. Len(plan) - 2 = n * L
      BY <1>1, <1>2
    <2>2. CASE L = 2
      BY <2>1, <2>2
    <2>3. CASE L = 3
      BY <2>1, <2>3
    <2>4. CASE L = 4
      BY <2>1, <2>4
    <2> QED BY <1>1, <2>2, <2>3, <2>4, Zenon
  <1> HIDE DEF q
  <1> DEFINE f == [k \in 1..(n + 1) |-> plan[(k - 1) * L + 1].val]
             C == ChunksLeft
  <1>5. C = f
    BY <1>4, Zenon DEF ChunksLeft, L, q
  <1>6. C \in Seq(Int) /\ Len(C) \in Nat \ {0} /\ DOMAIN C = 1..(n + 1)
    BY <1>5, ChunksLeftType, Zenon
  <1>7. \A k \in 1..(n + 1) : C[k] = plan[(k - 1) * L + 1].val
    BY <1>5, Zenon
  <1> HIDE DEF f, C
  <1>8. Len(C) = n + 1
    BY <1>6
  <1>9. /\ \A k \in 1..(n + 1) : /\ (k - 1) * L + 1 \in 1..(n * L + 2) /\ (n + 1) - k \in Nat
                                 /\ (n * L + 2) - ((k - 1) * L + 1) = ((n + 1) - k) * L + 1
        /\ \A i \in 1..(n * L + 2), m \in Nat :
              (n * L + 2) - i = m * L + 1 => (n + 1) - m \in 1..(n + 1) /\ i = ((n + 1) - m - 1) * L + 1
    BY <1>1, LeftPlaces, Zenon
  <1>10. \A k \in 1..(n + 1) : (k - 1) * L + 1 \in 1..Len(plan) /\ plan[(k - 1) * L + 1].kind = "Send"
    <2> TAKE k \in 1..(n + 1)
    <2> DEFINE i == (k - 1) * L + 1
    <2>1. i \in 1..Len(plan) /\ Len(plan) - i = ((n + 1) - k) * L + 1 /\ (n + 1) - k \in Nat
      BY <1>2, <1>9, Zenon
    <2> HIDE DEF i
    <2>2. Slot(Len(plan) - i)
      BY <1>3, <2>1, Zenon
    <2>3. plan[i].kind = "Send"
      BY <2>1, <2>2, Zenon DEF IdPlan
    <2> QED BY <2>1, <2>3, Zenon DEF i
  <1>11. \A i \in 1..Len(plan) : plan[i].kind = "Send" => \E k \in 1..(n + 1) : i = (k - 1) * L + 1
    <2> TAKE i \in 1..Len(plan)
    <2> HAVE plan[i].kind = "Send"
    <2>1. PICK m \in Nat : Len(plan) - i = m * L + 1
      BY <1>3, Zenon DEF IdPlan
    <2>2. (n + 1) - m \in 1..(n + 1) /\ i = ((n + 1) - m - 1) * L + 1
      BY <1>2, <1>9, <2>1
    <2> QED BY <2>2, Zenon
  <1>12. \A k \in 1..(n + 1) : C[k] \in {Plain, Unid, EndsId}
    BY <1>7, <1>10, Zenon DEF IdPlan
  <1>13. \A k, j \in 1..(n + 1) : C[k] = EndsId /\ C[j] # Plain => j <= k
    <2> TAKE k, j \in 1..(n + 1)
    <2> HAVE C[k] = EndsId /\ C[j] # Plain
    <2>1. (j - 1) * L + 1 <= (k - 1) * L + 1
      BY <1>7, <1>10, Zenon DEF IdPlan, Last, Owes
    <2>2. CASE L = 2
      BY <2>1, <2>2
    <2>3. CASE L = 3
      BY <2>1, <2>3
    <2>4. CASE L = 4
      BY <2>1, <2>4
    <2> QED BY <1>1, <2>2, <2>3, <2>4, Zenon
  <1>14. Ordered(C)
    BY <1>8, <1>12, <1>13, Zenon DEF Ordered
  <1> QED BY <1>6, <1>7, <1>8, <1>10, <1>11, <1>14, Zenon DEF C

LEMMA Parts ==
  ASSUME NEW parts \in {1, 2}, NEW n \in Nat
  PROVE  /\ \A i \in 1..(n * parts) : /\ (i - 1) \div parts + 1 \in 1..n
                                      /\ i <= ((i - 1) \div parts + 1) * parts
                                      /\ i % parts = 0 => i = ((i - 1) \div parts + 1) * parts
         /\ \A k \in 1..n : /\ k * parts \in 1..(n * parts) /\ (k * parts) % parts = 0
                            /\ (k * parts - 1) \div parts + 1 = k
         /\ \A k, j \in 1..n : k <= j => k * parts <= j * parts
  <1>1. CASE parts = 1
    BY <1>1
  <1>2. CASE parts = 2
    BY <1>2
  <1> QED BY <1>1, <1>2, Zenon

\* A chunk that is cut in two ends the ID with its second half.
LEMMA PiecesIds ==
  ASSUME plan \in Seq(JobStep), Spaced(Len(plan)), Ordered(ChunksLeft), NEW parts \in {1, 2}
  PROVE  /\ Ordered(Pieces(parts))
         /\ \A i \in 1..Len(Pieces(parts)) : Pieces(parts)[i] # Plain =>
               \E k \in 1..Len(ChunksLeft) : ChunksLeft[k] # Plain
         /\ \A k \in 1..Len(ChunksLeft) : ChunksLeft[k] = EndsId =>
               \E i \in 1..Len(Pieces(parts)) : Pieces(parts)[i] = EndsId
  <1> DEFINE C == ChunksLeft
             n == Len(C)
             P == Pieces(parts)
             w(i) == (i - 1) \div parts + 1
  <1>1. n \in Nat /\ Len(P) = n * parts
    BY ChunksLeftType, PiecesType, Zenon
  <1>2. \A i \in 1..(n * parts) : P[i] = IF C[w(i)] = EndsId /\ i % parts # 0 THEN Unid ELSE C[w(i)]
    BY Zenon DEF Pieces
  <1> HIDE DEF C, n, P
  <1>3. /\ \A i \in 1..(n * parts) : /\ w(i) \in 1..n /\ i <= w(i) * parts
                                     /\ i % parts = 0 => i = w(i) * parts
        /\ \A k \in 1..n : k * parts \in 1..(n * parts) /\ (k * parts) % parts = 0 /\ w(k * parts) = k
        /\ \A k, j \in 1..n : k <= j => k * parts <= j * parts
    BY <1>1, Parts, Zenon
  <1>4. /\ \A k \in 1..n : C[k] \in {Plain, Unid, EndsId}
        /\ \A k, j \in 1..n : C[k] = EndsId /\ C[j] # Plain => j <= k
    BY Zenon DEF Ordered, C, n
  <1>5. Plain = 0 /\ Unid = 1 /\ EndsId = 2
    BY Zenon DEF Plain, Unid, EndsId
  <1>w. \A i \in 1..(n * parts) : w(i) \in Int
    BY <1>3
  <1> HIDE DEF w
  <1>6. \A i \in 1..(n * parts) : /\ P[i] \in {Plain, Unid, EndsId}
                                  /\ P[i] # Plain => C[w(i)] # Plain
                                  /\ P[i] = EndsId => C[w(i)] = EndsId /\ i % parts = 0
    BY <1>2, <1>3, <1>4, <1>5
  <1>7. \A i, j \in 1..(n * parts) : P[i] = EndsId /\ P[j] # Plain => j <= i
    <2> TAKE i, j \in 1..(n * parts)
    <2> HAVE P[i] = EndsId /\ P[j] # Plain
    <2>1. w(j) <= w(i) /\ w(i) \in 1..n /\ w(j) \in 1..n
      BY <1>3, <1>4, <1>6, Zenon
    <2>2. j <= w(j) * parts /\ w(j) * parts <= w(i) * parts /\ i = w(i) * parts
      BY <1>3, <1>6, <2>1, Zenon
    <2>3. j \in Int /\ i \in Int /\ w(j) * parts \in Int
      BY <2>1
    <2> QED BY <2>2, <2>3
  <1>8. \A k \in 1..n : C[k] = EndsId => P[k * parts] = EndsId
    BY <1>2, <1>3, Zenon
  <1>9. Ordered(P)
    BY <1>1, <1>6, <1>7, Zenon DEF Ordered
  <1> QED BY <1>1, <1>3, <1>6, <1>8, <1>9, Zenon DEF C, n, P

LEMMA ReplanIds ==
  ASSUME plan \in Seq(JobStep), Spaced(Len(plan)), IdPlan(plan), NEW parts \in {1, 2}, Replan(parts),
         \A i \in 1..Len(plan) : plan[i].kind \notin {"Status", "PowerAtMost"}
  PROVE  /\ IdPlan(plan')
         /\ \A i \in 1..Len(plan') : plan'[i].kind # "Status"
         /\ (\E i \in 1..Len(plan') : Owes(plan'[i])) => \E i \in 1..Len(plan) : Owes(plan[i])
         /\ (\E i \in 1..Len(plan) : Last(plan[i])) => \E i \in 1..Len(plan') : Last(plan'[i])
  <1> DEFINE P == Pieces(parts)
             p == PacedPlan(P)
             L == PacedLen
             z == SubSeq(p, L, Len(p))
  <1>1. plan' = z
    BY Zenon DEF Replan, Pieces
  <1>2. /\ P \in Seq(Int) /\ p \in Seq(JobStep) /\ L \in 1..Len(p)
        /\ L \in {2, 3, 4} /\ Ordered(P) /\ IdPlan(p)
    BY LeftIds, PiecesIds, PiecesType, PacedIds, PacedLenValue, Zenon
  <1>3. /\ \A q \in 1..Len(P) : (q - 1) * L + L \in 1..Len(p) /\ p[(q - 1) * L + L] = Step("Send", P[q])
        /\ \A i \in 1..Len(p) : p[i].kind = "Send" =>
              \E q \in 1..Len(P) : i = (q - 1) * L + L /\ p[i] = Step("Send", P[q])
        /\ \A i \in 1..Len(p) : p[i].kind \notin {"Status", "PowerAtMost"}
    BY <1>2, PacedSends, Zenon
  <1>4. \A v : Step("Send", v).kind = "Send" /\ Step("Send", v).val = v
    BY Zenon DEF Step
  <1>5. /\ \A i \in 1..Len(P) : P[i] # Plain => \E k \in 1..Len(ChunksLeft) : ChunksLeft[k] # Plain
        /\ \A k \in 1..Len(ChunksLeft) : ChunksLeft[k] = EndsId => \E i \in 1..Len(P) : P[i] = EndsId
    BY LeftIds, PiecesIds, Zenon
  <1> HIDE DEF P, p, L
  <1>6. /\ z \in Seq(JobStep) /\ Len(z) = Len(p) - L + 1 /\ \A i \in 1..Len(z) : z[i] = p[L + i - 1]
        /\ Len(p) \in Nat
    BY <1>2
  <1> HIDE DEF z
  <1>7. /\ L - 1 \in Nat /\ Len(z) = Len(p) - (L - 1)
        /\ \A i \in 1..Len(z) : i + (L - 1) \in 1..Len(p) /\ z[i] = p[i + (L - 1)]
    BY <1>2, <1>6
  <1>8. IdPlan(z)
    BY <1>2, <1>6, <1>7, IdPlanSuffix, Zenon
  <1>9. \A i \in 1..Len(z) : z[i].kind # "Status"
    BY <1>3, <1>7, Zenon
  <1>10. ASSUME NEW i \in 1..Len(z), Owes(z[i])
         PROVE  \E j \in 1..Len(plan) : Owes(plan[j])
    <2>1. PICK q \in 1..Len(P) : z[i] = Step("Send", P[q])
      BY <1>3, <1>7, <1>10 DEF Owes
    <2>2. P[q] # Plain
      BY <1>4, <1>10, <2>1, Zenon DEF Owes
    <2>3. PICK k \in 1..Len(ChunksLeft) : ChunksLeft[k] # Plain
      BY <1>5, <2>2, Zenon
    <2> QED BY <2>3, LeftIds, Zenon DEF Owes
  <1>11. ASSUME NEW i \in 1..Len(plan), Last(plan[i])
         PROVE  \E j \in 1..Len(z) : Last(z[j])
    <2>1. PICK k \in 1..Len(ChunksLeft) : ChunksLeft[k] = EndsId
      BY <1>11, LeftIds, Zenon DEF Last
    <2>2. PICK q \in 1..Len(P) : P[q] = EndsId
      BY <1>5, <2>1, Zenon
    <2> DEFINE j == (q - 1) * L + 1
    <2>3. j + (L - 1) = (q - 1) * L + L /\ j \in Int /\ j >= 1
      <3>1. q \in Int /\ q >= 1
        BY <1>2
      <3>2. L \in {2, 3, 4}
        BY PacedLenValue DEF L
      <3> HIDE DEF L, P
      <3> DEFINE r == (q - 1) * L
      <3>3. r \in Nat
        <4>1. (q - 1) * 2 \in Nat /\ (q - 1) * 3 \in Nat /\ (q - 1) * 4 \in Nat
          BY <3>1
        <4> QED BY <3>2, <4>1, Zenon
      <3> HIDE DEF r
      <3>4. (r + 1) + (L - 1) = r + L /\ r + 1 \in Int /\ r + 1 >= 1
        BY <3>2, <3>3
      <3> QED BY <3>4, Zenon DEF r
    <2>4. j \in 1..Len(z)
      <3>1. j + (L - 1) \in 1..Len(p)
        BY <1>3, <2>3, Zenon
      <3> HIDE DEF j
      <3>2. Len(z) = Len(p) - (L - 1) /\ L \in Nat /\ Len(p) \in Nat
        BY <1>2, <1>6, <1>7
      <3> QED BY <2>3, <3>1, <3>2
    <2>5. z[j] = Step("Send", EndsId)
      BY <1>3, <1>7, <2>2, <2>3, <2>4, Zenon
    <2> HIDE DEF j
    <2> QED BY <1>4, <2>4, <2>5, Zenon DEF Last
  <1> QED BY <1>1, <1>8, <1>9, <1>10, <1>11, Zenon
LEMMA ChunkKinds == Plain # Unid /\ Plain # EndsId /\ Unid # EndsId
  BY DEF Plain, Unid, EndsId

LEMMA NothingOwes == ~Owes(NoStep) /\ ~Last(NoStep) /\ NoStep # Step("Send", Unid) /\ NoStep.kind = "None"
  BY Zenon DEF NoStep, Step, Owes, Last

\* The wire keeps its step: requests, and turns that issue nothing.
LEMMA IdKept ==
  ASSUME TypeInv, IdInv, UNCHANGED <<outstanding, answer, owing>>,
         Still \/ Off \/ Quits(outstanding) \/ (outstanding = NoStep /\ RunsOut)
  PROVE  IdInv'
  <1>1. CASE Still
    BY <1>1 DEF Still, IdInv, JobIdInv
  <1>2. CASE Off
    BY <1>2, Zenon DEF Off, IdInv
  <1>3. CASE Quits(outstanding)
    <2>1. arm # NoOne
      BY <1>3, TypeParts, Zenon DEF Quits, SupInv, SupShape
    <2>2. outstanding = Step("Send", Unid) => Owes(outstanding) /\ outstanding.kind = "Send"
      BY ChunkKinds DEF Owes, Step
    <2>3. owing \/ outstanding = Step("Send", Unid) => idOwed' # NoOne
      BY <1>3, <2>1, <2>2, Zenon DEF Quits, IdInv, JobIdInv, AnythingKeyed
    <2> QED BY <1>3, <2>3, Zenon DEF Quits, IdInv
  <1>4. CASE outstanding = NoStep /\ RunsOut
    <2>1. owing => idOwed # NoOne
      <3>1. plan = <<>> /\ Len(plan) = 0
        BY <1>4, Zenon DEF RunsOut
      <3>2. ~(hasId /\ ~idSent)
        BY <1>4, <3>1, NothingOwes DEF RunsOut, IdInv, JobIdInv
      <3> QED BY <1>4, <3>2, Zenon DEF RunsOut, IdInv, JobIdInv
    <2> QED BY <1>4, <2>1, NothingOwes, Zenon DEF RunsOut, IdInv
  <1> QED BY <1>1, <1>2, <1>3, <1>4, Zenon

LEMMA SendIds ==
  /\ IdPlan(SendPlan) /\ SendPlan \in Seq(JobStep) /\ Len(SendPlan) = 2
  /\ SendPlan[1].kind = "Status" /\ SendPlan[2].kind = "PowerAtMost"
  <1>1. /\ SendPlan \in Seq(JobStep) /\ Len(SendPlan) = 2
        /\ SendPlan[1].kind = "Status" /\ SendPlan[2].kind = "PowerAtMost"
    BY SendPlanType, Zenon DEF JobPlan, SendPlan, Step
  <1>2. ~Slot(2 - 2)
    BY PacedLenValue DEF Slot
  <1>3. IdPlan(SendPlan)
    BY <1>1, <1>2 DEF IdPlan, Last, Owes
  <1> QED BY <1>1, <1>3, Zenon

LEMMA RequestIds ==
  ASSUME TypeInv, IdInv, Requests
  PROVE  IdInv'
  <1>1. ASSUME NEW c \in Consoles, Send(c) PROVE IdInv'
    <2>1. /\ act = "Idle" /\ arm # NoOne /\ plan' = SendPlan /\ idSent' = FALSE /\ idOwed' = idOwed
          /\ act' = "Sending"
      BY <1>1, NoOneAssumption, Zenon DEF Send
    <2>2. outstanding = NoStep
      BY <2>1, TypeParts, Zenon DEF OutInv
    <2>3. UNCHANGED <<outstanding, answer, owing>>
      BY RequestMoves, Zenon
    <2>4. \A i \in 1..Len(SendPlan) : ~Owes(SendPlan[i])
      BY SendIds DEF Owes
    <2>5. owing => idOwed # NoOne
      BY <2>1, Zenon DEF IdInv
    <2>6. 1 \in 1..Len(SendPlan)
      BY SendIds
    <2>7. JobIdInv'
      BY <2>1, <2>2, <2>3, <2>4, <2>5, <2>6, SendIds, NothingOwes, Zenon DEF JobIdInv
    <2> QED BY <2>1, <2>2, <2>3, <2>7, NothingOwes, Zenon DEF IdInv
  <1> QED BY <1>1, RequestMoves, IdKept, Zenon

LEMMA TurnIds ==
  ASSUME TypeInv, IdInv, NextAction \/ Turns
  PROVE  IdInv'
  <1>1. CASE NextAction \/ TurnFinish \/ TurnWait
    BY <1>1, TurnMoves, IdKept, Zenon
  <1>2. CASE TurnWaited \/ TurnIssue
    <2>1. SupInv /\ RestType /\ AnswerInv
      BY TypeParts, Zenon
    <2>2. outstanding = NoStep /\ outstanding.kind = "None" /\ answer = NoAnswer
      BY <1>2, <2>1, NoStepKind, Zenon DEF TurnWaited, TurnIssue, RestType, AnswerInv
    <2>3. UNCHANGED <<act, answer, owing, idOwed, hasId, idSent, inRadio>> /\ plan # <<>> /\ plan' = Tail(plan)
      BY <1>2, Zenon DEF TurnWaited, TurnIssue, Call, radio, actVars, jobVars
    <2>4. outstanding' = IF TurnWaited THEN NoStep ELSE Head(plan)
      BY <1>2, <2>2, Zenon DEF TurnWaited, TurnIssue
    <2>5. TurnWaited => Head(plan).kind = "WaitKeyed"
      BY Zenon DEF TurnWaited
    <2>6. CASE act = "Sending"
      <3>1. plan \in Seq(JobStep) /\ IdPlan(plan) /\ JobIdInv
        BY <2>1, <2>6, Zenon DEF SupInv, PlanInv, JobPlan, IdInv, JobIdInv
      <3> DEFINE z == Tail(plan)
                 h == Head(plan)
      <3>2. /\ IdPlan(z) /\ h = plan[1] /\ 1 \in 1..Len(plan)
            /\ Len(z) = Len(plan) - 1 /\ \A i \in 1..Len(z) : i + 1 \in 1..Len(plan) /\ z[i] = plan[i + 1]
            /\ Last(h) => \A i \in 1..Len(z) : ~Owes(z[i])
            /\ h.kind = "CheckSpeed" => \A i \in 1..Len(z) : z[i].kind \notin {"Status", "PowerAtMost"}
            /\ h.kind = "WaitReady" => ~Slot(Len(z))
            /\ h.kind = "Send" => h.val \in {Plain, Unid, EndsId}
        BY <2>3, <3>1, IdPlanTail, Zenon
      <3>3. h \in JobStep
        BY <3>1, <3>2
      <3>4. h.kind # "SnapBreakIn"
        BY <3>3 DEF JobStep, Step
      <3>5. Len(plan) \in Nat
        BY <3>1
      <3> HIDE DEF z, h
      <3>6. \A i \in 1..Len(z) : z[i].kind # "Status"
        <4> SUFFICES ASSUME NEW i \in 1..Len(z), z[i].kind = "Status" PROVE FALSE
          OBVIOUS
        <4>1. plan[i + 1].kind = "Status" /\ i + 1 \in 1..Len(plan)
          BY <3>2, Zenon
        <4>2. plan = SendPlan
          BY <3>1, <4>1, Zenon DEF JobIdInv
        <4>3. i + 1 = 2
          BY <4>1, <4>2, SendIds
        <4> QED BY <4>1, <4>2, <4>3, SendIds, Zenon
      <3>7. h.kind = "Status" => z = <<Step("PowerAtMost", LowPower)>> /\ ~idSent
        <4> HAVE h.kind = "Status"
        <4>1. plan = SendPlan /\ ~idSent
          BY <3>1, <3>2, Zenon DEF JobIdInv
        <4>2. Tail(SendPlan) = <<Step("PowerAtMost", LowPower)>>
          BY DEF SendPlan
        <4> QED BY <4>1, <4>2, Zenon DEF z
      <3>8. \A i \in 1..Len(z) : Owes(z[i]) => hasId /\ ~idSent
        BY <3>1, <3>2, Zenon DEF JobIdInv
      <3>9. Owes(h) => hasId /\ ~idSent
        BY <3>1, <3>2, Zenon DEF JobIdInv
      <3>10. hasId /\ ~idSent => h.kind = "Status" \/ Last(h) \/ \E i \in 1..Len(z) : Last(z[i])
        <4> HAVE hasId /\ ~idSent
        <4>1. PICK i \in 1..Len(plan) : plan[i].kind = "Status" \/ Last(plan[i])
          BY <2>2, <3>1, NothingOwes, Zenon DEF JobIdInv
        <4>2. CASE i = 1
          BY <3>2, <4>1, <4>2, Zenon
        <4>3. CASE i # 1
          <5>1. i - 1 \in 1..Len(z) /\ z[i - 1] = plan[i]
            <6>1. i - 1 \in 1..Len(z) /\ (i - 1) + 1 = i
              BY <3>2, <3>5, <4>3
            <6> QED BY <3>2, <6>1, Zenon
          <5> QED BY <3>6, <4>1, <5>1, Zenon
        <4> QED BY <4>2, <4>3, Zenon
      <3>11. owing => idOwed # NoOne \/ (hasId /\ ~idSent /\ inRadio)
        BY <2>2, <3>1, Zenon DEF JobIdInv
      <3>12. (outstanding' = h /\ h.kind # "WaitKeyed") \/ (outstanding' = NoStep /\ h.kind = "WaitKeyed")
        BY <1>2, <2>4, <2>5, Zenon DEF h, TurnIssue
      <3>13. plan' = z
        BY <2>3, Zenon DEF z
      <3>14. CASE outstanding' = h
        <4>1. JobIdInv'
          BY <2>3, <3>2, <3>4, <3>6, <3>7, <3>8, <3>9, <3>10, <3>11, <3>13, <3>14, Zenon DEF JobIdInv
        <4> QED BY <2>2, <2>3, <2>6, <3>2, <3>14, <4>1, AnswerKinds, Zenon DEF IdInv
      <3>15. CASE outstanding' = NoStep /\ h.kind = "WaitKeyed"
        <4>1. ~Last(h)
          BY <3>15, Zenon DEF Last
        <4>2. JobIdInv'
          BY <2>3, <3>2, <3>6, <3>8, <3>10, <3>11, <3>13, <3>15, <4>1, NothingOwes, Zenon DEF JobIdInv
        <4> QED BY <2>2, <2>3, <2>6, <3>15, <4>2, NothingOwes, Zenon DEF IdInv
      <3> QED BY <3>12, <3>14, <3>15, Zenon
    <2>7. CASE act # "Sending"
      <3>1. TurnIssue => Head(plan).kind # "Send"
        BY <2>1, <2>3, <2>7, IssuedOutside, Zenon
      <3>2. outstanding'.kind # "Send" /\ outstanding' # Step("Send", Unid)
        BY <1>2, <2>4, <2>5, <3>1, NothingOwes DEF Step
      <3> QED BY <2>2, <2>3, <2>7, <3>2, Zenon DEF IdInv, Last
    <2> QED BY <2>6, <2>7, Zenon
  <1> QED BY <1>1, <1>2, Zenon DEF Turns
\* The step comes back and the plan stands.
LEMMA IdTaken ==
  ASSUME TypeInv, IdInv, outstanding' = NoStep, answer' = NoAnswer, owing' = owing,
         answer = Failed \/ outstanding.kind # "Send",
         \/ Still /\ (act # "Sending" \/ outstanding.kind \notin {"Status", "Send"})
         \/ Off \/ Quits(NoStep)
  PROVE  IdInv'
  <1>1. act # "Sending" /\ owing => idOwed # NoOne
    BY Zenon DEF IdInv
  <1>2. act = "Sending" /\ owing => idOwed # NoOne \/ (hasId /\ ~idSent /\ inRadio)
    BY AnswerKinds, Zenon DEF IdInv, JobIdInv
  <1>3. CASE Still /\ act = "Sending"
    <2>1. ~Last(outstanding) /\ outstanding.kind # "Status" /\ JobIdInv
      BY <1>3, Zenon DEF Last, Still, Off, Quits, IdInv
    <2>2. JobIdInv'
      BY <1>2, <1>3, <2>1, NothingOwes, Zenon DEF JobIdInv, Still
    <2> QED BY <1>3, <2>2, NothingOwes, Zenon DEF IdInv, Still
  <1>4. CASE (Still /\ act # "Sending") \/ Off
    BY <1>1, <1>4, NothingOwes, Zenon DEF IdInv, Still, Off
  <1>5. CASE Quits(NoStep)
    <2>1. arm # NoOne
      BY <1>5, TypeParts, Zenon DEF Quits, SupInv, SupShape
    <2>2. owing => idOwed' # NoOne
      BY <1>2, <1>5, <2>1, Zenon DEF Quits, AnythingKeyed
    <2> QED BY <1>5, <2>2, NothingOwes, Zenon DEF Quits, IdInv
  <1> QED BY <1>3, <1>4, <1>5, Zenon

\* read_status lets the send go on: its chunks are planned.
LEMMA CutIds ==
  ASSUME TypeInv, IdInv, Cuts, outstanding' = NoStep, answer' = NoAnswer, UNCHANGED owing
  PROVE  IdInv'
  <1>1. PICK text \in 1..MaxText, id \in 1..MaxId : PlanChunks(text, IF hasId THEN id ELSE 0)
    BY Zenon DEF Cuts
  <1> DEFINE k == IF hasId THEN id ELSE 0
             cs == Chunks(text, k, leadId)
             p == PacedPlan(cs)
             x == Step("PowerAtMost", LowPower)
             z == <<x>> \o p
  <1>2. text \in Nat /\ k \in Nat /\ leadId \in BOOLEAN /\ (hasId <=> k # 0)
    BY TypeParts, BoundAssumption DEF SupInv, SupType, JobType
  <1>3. /\ cs \in Seq(Int) /\ Ordered(cs)
        /\ k = 0 => \A q \in 1..Len(cs) : cs[q] = Plain
        /\ k # 0 => \E q \in 1..Len(cs) : cs[q] = EndsId
    BY <1>2, ChunksIds, Zenon
  <1>4. JobIdInv /\ plan = <<x>> /\ ~idSent /\ act = "Sending"
    BY Zenon DEF Cuts, IdInv, JobIdInv
  <1>5. plan' = z
    BY <1>1, <1>4, Zenon DEF PlanChunks
  <1> HIDE DEF k, cs
  <1>6. p \in Seq(JobStep) /\ IdPlan(p)
    BY <1>3, PacedIds, PacedPlanType, Zenon DEF Cut, JobPlan
  <1>7. x \in JobStep /\ x.kind = "PowerAtMost"
    BY Zenon DEF JobStep, Step
  <1>8. /\ \A q \in 1..Len(cs) : \E i \in 1..Len(p) : p[i] = Step("Send", cs[q])
        /\ \A i \in 1..Len(p) : p[i].kind = "Send" => \E q \in 1..Len(cs) : p[i] = Step("Send", cs[q])
        /\ \A i \in 1..Len(p) : p[i].kind \notin {"Status", "PowerAtMost"}
    BY <1>3, PacedSends, Zenon
  <1> HIDE DEF p, x
  <1>9. /\ IdPlan(z) /\ Len(z) = Len(p) + 1 /\ z[1] = x /\ Len(p) \in Nat
        /\ \A i \in 1..Len(p) : i + 1 \in 1..Len(z) /\ z[i + 1] = p[i]
        /\ \A i \in 1..Len(z) : i # 1 => i - 1 \in 1..Len(p) /\ z[i] = p[i - 1]
    <2>1. Len(z) = Len(p) + 1 /\ z[1] = x /\ Len(p) \in Nat
      BY <1>6, <1>7
    <2>2. /\ \A i \in 1..Len(p) : i + 1 \in 1..Len(z) /\ z[i + 1] = p[i]
          /\ \A i \in 1..Len(z) : i # 1 => i - 1 \in 1..Len(p) /\ z[i] = p[i - 1]
      BY <1>6, <1>7
    <2>3. IdPlan(z)
      BY <1>6, <1>7, IdPlanPush, Zenon
    <2> QED BY <2>1, <2>2, <2>3, Zenon
  <1> HIDE DEF z
  <1>10. \A c : Step("Send", c).kind = "Send" /\ Step("Send", c).val = c
    BY Zenon DEF Step
  <1>11. \A i \in 1..Len(z) : Owes(z[i]) => hasId
    <2> SUFFICES ASSUME NEW i \in 1..Len(z), Owes(z[i]) PROVE hasId
      OBVIOUS
    <2>1. i # 1
      BY <1>7, <1>9, Zenon DEF Owes
    <2>2. i - 1 \in 1..Len(p) /\ z[i] = p[i - 1]
      BY <1>9, <2>1, Zenon
    <2>3. PICK q \in 1..Len(cs) : z[i] = Step("Send", cs[q])
      BY <1>8, <2>2, Zenon DEF Owes
    <2>4. cs[q] # Plain
      BY <1>10, <2>3, Zenon DEF Owes
    <2> QED BY <1>2, <1>3, <2>4, Zenon
  <1>12. \A i \in 1..Len(z) : z[i].kind # "Status"
    BY <1>7, <1>8, <1>9, Zenon
  <1>13. hasId => \E i \in 1..Len(z) : Last(z[i])
    <2> HAVE hasId
    <2>1. PICK q \in 1..Len(cs) : cs[q] = EndsId
      BY <1>2, <1>3, Zenon
    <2>2. PICK i \in 1..Len(p) : p[i] = Step("Send", cs[q])
      BY <1>8, Zenon
    <2>3. i + 1 \in 1..Len(z) /\ z[i + 1] = Step("Send", EndsId)
      BY <1>9, <2>1, <2>2, Zenon
    <2> QED BY <1>10, <2>3, Zenon DEF Last
  <1>14. owing => idOwed # NoOne \/ (hasId /\ ~idSent /\ inRadio)
    BY <1>4, Zenon DEF JobIdInv, Cuts
  <1>15. UNCHANGED <<act, hasId, idSent, inRadio, idOwed>>
    BY Zenon DEF Cuts
  <1>16. JobIdInv'
    BY <1>4, <1>5, <1>9, <1>11, <1>12, <1>13, <1>14, <1>15, NothingOwes, Zenon DEF JobIdInv
  <1> QED BY <1>4, <1>15, <1>16, NothingOwes, Zenon DEF IdInv

\* A speed check re-cuts what is left.
LEMMA RecutIds ==
  ASSUME TypeInv, IdInv, Recuts, outstanding' = NoStep, answer' = NoAnswer, UNCHANGED owing
  PROVE  IdInv'
  <1>1. PICK parts \in {1, 2} : Replan(parts)
    BY Zenon DEF Recuts
  <1>2. /\ JobIdInv /\ act = "Sending" /\ outstanding.kind = "CheckSpeed"
        /\ UNCHANGED <<act, hasId, idSent, inRadio, idOwed>>
    BY Zenon DEF Recuts, IdInv
  <1>3. plan \in Seq(JobStep) /\ Spaced(Len(plan))
    BY <1>2, TypeParts, Zenon DEF SupInv, PlanInv, JobPlan, OutInv
  <1>4. IdPlan(plan) /\ \A i \in 1..Len(plan) : plan[i].kind \notin {"Status", "PowerAtMost"}
    BY <1>2, Zenon DEF JobIdInv
  <1>5. /\ IdPlan(plan')
        /\ \A i \in 1..Len(plan') : plan'[i].kind # "Status"
        /\ (\E i \in 1..Len(plan') : Owes(plan'[i])) => \E i \in 1..Len(plan) : Owes(plan[i])
        /\ (\E i \in 1..Len(plan) : Last(plan[i])) => \E i \in 1..Len(plan') : Last(plan'[i])
    BY <1>1, <1>3, <1>4, ReplanIds, Zenon
  <1>6. \A i \in 1..Len(plan') : Owes(plan'[i]) => hasId /\ ~idSent
    BY <1>2, <1>5, Zenon DEF JobIdInv
  <1>7. hasId /\ ~idSent => \E i \in 1..Len(plan') : Last(plan'[i])
    BY <1>2, <1>4, <1>5, Zenon DEF JobIdInv, Last
  <1>8. owing => idOwed # NoOne \/ (hasId /\ ~idSent /\ inRadio)
    BY <1>2, Zenon DEF JobIdInv
  <1>9. JobIdInv'
    BY <1>2, <1>5, <1>6, <1>7, <1>8, NothingOwes, Zenon DEF JobIdInv
  <1> QED BY <1>2, <1>9, NothingOwes, Zenon DEF IdInv
LEMMA ReadyIds ==
  ASSUME TypeInv, IdInv, CompleteReady, outstanding' = NoStep, answer' = NoAnswer, UNCHANGED owing
  PROVE  IdInv'
  <1>1. /\ outstanding.kind = "WaitReady" /\ UNCHANGED <<act, hasId, idSent, inRadio, idOwed>>
        /\ plan' = plan \/ plan' = <<outstanding>> \o plan
    BY Zenon DEF CompleteReady, Completes, Takes, actVars, jobVars
  <1>2. CASE act # "Sending"
    BY <1>1, <1>2, NothingOwes, Zenon DEF IdInv
  <1>3. CASE act = "Sending"
    <2>1. JobIdInv /\ ~Owes(outstanding) /\ ~Last(outstanding)
      BY <1>1, <1>3, Zenon DEF IdInv, Owes, Last
    <2>2. plan \in Seq(JobStep) /\ outstanding \in JobStep
      <3>1. JobPlan(plan) /\ outstanding \in ArmStep \cup JobStep \cup StopStep \cup {NoStep}
        BY <1>3, TypeParts, Zenon DEF SupInv, PlanInv, OutInv
      <3>2. \A s \in ArmStep \cup {NoStep} : s.kind # "WaitReady"
        BY NoStepKind DEF ArmStep, Step
      <3>3. \A s \in StopStep : s.kind = "WaitReady" => s \in JobStep
        BY DEF StopStep, JobStep
      <3> QED BY <1>1, <3>1, <3>2, <3>3, Zenon DEF JobPlan
    <2> DEFINE w == outstanding
               z == <<w>> \o plan
    <2> HIDE DEF w
    <2>3. w.kind = "WaitReady" /\ ~Owes(w) /\ w \in JobStep
      BY <1>1, <2>1, <2>2, Zenon DEF w
    <2>4. IdPlan(z)
      BY <2>1, <2>2, <2>3, IdPlanPush, Zenon DEF JobIdInv, w
    <2>5. /\ Len(plan) \in Nat
          /\ \A i \in 1..Len(plan) : i + 1 \in 1..Len(z) /\ z[i + 1] = plan[i]
          /\ \A i \in 1..Len(z) : i # 1 => i - 1 \in 1..Len(plan) /\ z[i] = plan[i - 1]
          /\ z[1] = w
      BY <2>2, <2>3
    <2> HIDE DEF z
    <2>6. \A i \in 1..Len(plan) : plan[i].kind # "Status"
      BY <1>1, <2>1, NoStepKind, Zenon DEF JobIdInv
    <2>7. plan' = plan \/ plan' = z
      BY <1>1, Zenon DEF z, w
    <2>8. owing => idOwed # NoOne \/ (hasId /\ ~idSent /\ inRadio)
      BY <1>1, <2>1, Zenon DEF JobIdInv
    <2>9. \A i \in 1..Len(z) : (Owes(z[i]) => hasId /\ ~idSent) /\ z[i].kind # "Status"
      <3> SUFFICES ASSUME NEW i \in 1..Len(z) PROVE (Owes(z[i]) => hasId /\ ~idSent) /\ z[i].kind # "Status"
        OBVIOUS
      <3>1. CASE i = 1
        BY <2>3, <2>5, <3>1, Zenon
      <3>2. CASE i # 1
        <4>1. i - 1 \in 1..Len(plan) /\ z[i] = plan[i - 1]
          BY <2>5, <3>2, Zenon
        <4> QED BY <2>1, <2>6, <4>1, Zenon DEF JobIdInv
      <3> QED BY <3>1, <3>2, Zenon
    <2>10. hasId /\ ~idSent => \E i \in 1..Len(plan) : Last(plan[i])
      BY <1>1, <2>1, <2>6, Zenon DEF JobIdInv
    <2>11. hasId /\ ~idSent => \E i \in 1..Len(z) : Last(z[i])
      BY <2>5, <2>10, Zenon
    <2>12. CASE plan' = plan
      <3>1. JobIdInv'
        BY <1>1, <2>1, <2>6, <2>8, <2>10, <2>12, NothingOwes, Zenon DEF JobIdInv
      <3> QED BY <1>1, <1>3, <3>1, NothingOwes, Zenon DEF IdInv
    <2>13. CASE plan' = z
      <3>1. JobIdInv'
        BY <1>1, <2>4, <2>8, <2>9, <2>11, <2>13, NothingOwes, Zenon DEF JobIdInv
      <3> QED BY <1>1, <1>3, <3>1, NothingOwes, Zenon DEF IdInv
    <2> QED BY <2>7, <2>12, <2>13, Zenon
  <1> QED BY <1>2, <1>3, Zenon

\* on_sent: a chunk is with the radio; the one that ends the ID settles it.
LEMMA SentIds ==
  ASSUME TypeInv, IdInv, CompleteSend, outstanding' = NoStep, answer' = NoAnswer, UNCHANGED owing
  PROVE  IdInv'
  <1>1. outstanding.kind = "Send" /\ answer \notin {NoAnswer, Failed} /\ OnSent(outstanding.val)
    BY Zenon DEF CompleteSend, Completes, Takes
  <1>2. UNCHANGED <<act, hasId, plan>>
    BY <1>1, Zenon DEF OnSent, actVars
  <1>3. CASE act # "Sending"
    BY <1>1, <1>2, <1>3, NothingOwes, Zenon DEF OnSent, IdInv
  <1>4. CASE act = "Sending"
    <2>1. JobIdInv
      BY <1>4, Zenon DEF IdInv
    <2>2. \A i \in 1..Len(plan) : plan[i].kind # "Status"
      BY <1>1, <2>1, NoStepKind, Zenon DEF JobIdInv
    <2>3. CASE outstanding.val = EndsId
      <3>1. Last(outstanding) /\ Owes(outstanding)
        BY <1>1, <2>3, ChunkKinds, Zenon DEF Last, Owes
      <3>2. ~owing /\ \A i \in 1..Len(plan) : ~Owes(plan[i])
        BY <1>1, <2>1, <3>1, Zenon DEF IdInv, JobIdInv
      <3>3. idSent' = TRUE
        BY <1>1, <1>4, <2>3, Zenon DEF OnSent
      <3>4. JobIdInv'
        BY <1>2, <2>1, <2>2, <3>2, <3>3, NothingOwes, Zenon DEF JobIdInv
      <3> QED BY <1>2, <1>4, <3>4, NothingOwes, Zenon DEF IdInv
    <2>4. CASE outstanding.val # EndsId
      <3>1. ~Last(outstanding)
        BY <2>4, Zenon DEF Last
      <3>2. inRadio' = TRUE /\ idSent' = idSent /\ idOwed' = idOwed
        BY <1>1, <1>4, <2>4, TypeParts, Zenon DEF OnSent, SupInv, SupType, JobType
      <3>3. owing => idOwed # NoOne \/ (hasId /\ ~idSent)
        BY <2>1, Zenon DEF JobIdInv
      <3>4. hasId /\ ~idSent => \E i \in 1..Len(plan) : Last(plan[i])
        BY <1>1, <2>1, <2>2, <3>1, Zenon DEF JobIdInv
      <3>5. JobIdInv'
        BY <1>2, <2>1, <2>2, <3>2, <3>3, <3>4, NothingOwes, Zenon DEF JobIdInv
      <3> QED BY <1>2, <1>4, <3>5, NothingOwes, Zenon DEF IdInv
    <2> QED BY <2>3, <2>4, Zenon
  <1> QED BY <1>3, <1>4, Zenon

LEMMA CompleteIds ==
  ASSUME TypeInv, IdInv, Complete
  PROVE  IdInv'
  <1>1. act = "Sending" => outstanding.kind # "SnapBreakIn"
    BY Zenon DEF IdInv, JobIdInv
  <1> QED BY <1>1, CompleteMoves, IdTaken, CutIds, RecutIds, ReadyIds, SentIds, Zenon

\* Only a chunk that lands changes what is owed to the air.
LEMMA RadioIds ==
  ASSUME TypeInv, IdInv, "Send" \notin LostWrites, "Send" \notin DeafWrites, Radio
  PROVE  IdInv'
  <1>1. UNCHANGED <<act, plan, outstanding, hasId, idSent, inRadio, idOwed>>
    BY SupStateKeeps, ZenonT(30) DEF Radio, RadioReads, RadioWrites, RadioLosesAck, RadioIgnores, RadioFails,
       PanelPower, supState, supVars, actVars, jobVars
  <1>2. CASE owing' = owing /\ (answer' = answer \/ (answer = NoAnswer /\ (outstanding.kind # "Send" \/ answer' = Failed)))
    <2>1. (Last(outstanding) /\ answer \notin {NoAnswer, Failed} => ~owing)'
      BY <1>1, <1>2, Zenon DEF IdInv, Last
    <2>2. act = "Sending" => JobIdInv'
      <3> HAVE act = "Sending"
      <3>1. owing => idOwed # NoOne \/ (hasId /\ ~idSent /\ (inRadio \/ (outstanding.kind = "Send" /\ answer' = Done)))
        BY <1>2, AnswerKinds, Zenon DEF IdInv, JobIdInv
      <3> QED BY <1>1, <1>2, <3>1, Zenon DEF IdInv, JobIdInv
    <2> QED BY <1>1, <1>2, <2>1, <2>2, Zenon DEF IdInv
  <1>3. CASE Lands(outstanding) /\ answer' = Done /\ outstanding.kind = "Send"
    <2>1. /\ owing' = IF outstanding.val # Plain THEN outstanding.val = Unid ELSE owing
          /\ outstanding.val \in {Plain, Unid, EndsId}
      BY <1>3, Zenon DEF Lands, IdInv
    <2>2. Last(outstanding) => ~owing'
      BY <2>1, ChunkKinds, Zenon DEF Last
    <2>3. CASE act # "Sending"
      <3>1. outstanding.val = Unid => outstanding = Step("Send", Unid)
        BY <1>3, TypeParts, StepSets, Zenon DEF OutInv, StepType, Step
      <3>2. owing' => idOwed # NoOne
        BY <2>1, <2>3, <3>1, Zenon DEF IdInv
      <3> QED BY <1>1, <2>2, <2>3, <3>2, Zenon DEF IdInv
    <2>4. CASE act = "Sending"
      <3>1. owing' => idOwed # NoOne \/ (hasId /\ ~idSent)
        BY <1>3, <2>1, <2>4, Zenon DEF IdInv, JobIdInv, Owes
      <3>2. JobIdInv'
        BY <1>1, <1>3, <2>4, <3>1, Zenon DEF IdInv, JobIdInv
      <3> QED BY <1>1, <2>2, <2>4, <3>2, Zenon DEF IdInv
    <2> QED BY <2>3, <2>4, Zenon
  <1>4. CASE RadioReads \/ RadioFails \/ RadioIgnores
    BY <1>2, <1>4, Zenon DEF RadioReads, Reads, RadioIgnores, RadioFails, radio
  <1>5. CASE PanelPower
    BY <1>2, <1>5, Zenon DEF PanelPower
  <1>6. CASE RadioWrites \/ RadioLosesAck
    <2>1. Lands(outstanding) /\ answer = NoAnswer /\ (outstanding.kind = "Send" => answer' = Done)
      BY <1>6, Zenon DEF RadioWrites, RadioLosesAck
    <2>2. CASE outstanding.kind # "Send"
      BY <1>2, <2>1, <2>2, Zenon DEF Lands
    <2> QED BY <1>3, <2>1, <2>2, Zenon
  <1> QED BY <1>4, <1>5, <1>6, Zenon DEF Radio

LEMMA TimeIds ==
  ASSUME IdInv, Time
  PROVE  IdInv'
  <1>1. UNCHANGED <<act, plan, outstanding, answer, hasId, idSent, inRadio, idOwed, owing>>
    BY Zenon DEF Time, Tick, WatchdogPasses, IdlePasses, IdIntervalPasses, RetryPasses, ReadyRetryPasses, Clock
  <1> QED BY <1>1 DEF IdInv, JobIdInv

LEMMA IdInitOK == Init => IdInv
  <1> SUFFICES ASSUME Init PROVE IdInv
    OBVIOUS
  <1>1. act = "Idle" /\ outstanding = NoStep /\ ~owing
    BY Zenon DEF Init
  <1> QED BY <1>1, NothingOwes, Zenon DEF IdInv

LEMMA IdStepOK ==
  ASSUME "Send" \notin LostWrites, "Send" \notin DeafWrites
  PROVE  TypeInv /\ IdInv /\ [Next]_vars => IdInv'
  <1> SUFFICES ASSUME TypeInv, IdInv, [Next]_vars PROVE IdInv'
    OBVIOUS
  <1>1. CASE UNCHANGED vars
    BY <1>1, SupStill, IdKept, Zenon DEF vars, radio
  <1> QED BY <1>1, RequestIds, TurnIds, CompleteIds, RadioIds, TimeIds, Zenon DEF Next

-----------------------------------------------------------------------------
(* What the pacing of a send promises.                                     *)

\* push_chunk's wait is enough: for every length of text, every keyer and every
\* re-cut, the radio never holds more than one chunk, as long as a chunk
\* reported failed was not keyed and a stop reported done was obeyed.
THEOREM OneChunkAtATime ==
  ASSUME "Send" \notin LostWrites, "Stop" \notin DeafWrites
  PROVE  Spec => []DrainBounded
  <1>1. Init => TypeInv /\ AirInv /\ DrainInv
    BY InitOK, AirInitOK, DrainInitOK, Zenon
  <1>2. TypeInv /\ AirInv /\ DrainInv /\ [Next]_vars => (TypeInv /\ AirInv /\ DrainInv)'
    BY StepOK, AirStepOK, DrainStepOK, Zenon
  <1>3. DrainInv => DrainBounded
    BY Zenon DEF DrainInv, DrainBounded
  <1> QED BY <1>1, <1>2, <1>3, PTL DEF Spec

\* begin_stop's record: whatever was keyed of a send before its ID was complete
\* stays recorded in id_owed once the send is over, for every length of text
\* and ID, every keyer and every re-cut, through aborts, disarms, failed writes
\* and later arms, as long as a chunk's answer says whether it was keyed.
THEOREM IdStaysOwed ==
  ASSUME "Send" \notin LostWrites, "Send" \notin DeafWrites
  PROVE  Spec => []IdOwedUntilSent
  <1>1. Init => TypeInv /\ IdInv
    BY InitOK, IdInitOK, Zenon
  <1>2. TypeInv /\ IdInv /\ [Next]_vars => (TypeInv /\ IdInv)'
    BY StepOK, IdStepOK, Zenon
  <1>3. IdInv => IdOwedUntilSent
    BY Zenon DEF IdInv, IdOwedUntilSent
  <1> QED BY <1>1, <1>2, <1>3, PTL DEF Spec
=============================================================================
