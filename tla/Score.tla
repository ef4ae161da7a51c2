------------------------------- MODULE Score -------------------------------
(***************************************************************************)
(* Scoring copied text (cat-morse/src/score.rs): the minimum-edit          *)
(* alignment of one copy with what was sent and the units its insertions   *)
(* are charged to, and the order-free scoring of a pileup, whose calls are *)
(* paired with the copied words by the Hungarian algorithm, run here step  *)
(* by step, or greedily when there are too many.                           *)
(***************************************************************************)
EXTENDS MorseCodec

CONSTANTS
    Sent,        \* sequences of units an expected item may be
    Copied,      \* sequences of units a copied word may be
    MaxItems,    \* bound on the expected items
    MaxWords,    \* bound on the copied words
    OptimalMax,  \* UNORDERED_OPTIMAL_MAX
    Inf          \* i64::MAX / 4: more than any cost

VARIABLES
    items,   \* expected items, prepared
    words,   \* copied words, prepared
    cost,    \* the padded cost matrix
    phase,   \* "row", "scan", "augment", "done"
    row,     \* hungarian's i
    u, v,    \* the potentials of the rows and the columns
    p,       \* the row each column is assigned to; 0: none.  p[0] is the row being placed
    way,     \* the column each column was reached from
    minv,    \* the slack of each column
    used,    \* columns of the tree
    j0,      \* the column reached
    assign   \* the column of each row, at the end

hungarianVars == <<row, u, v, p, way, minv, used, j0>>
vars == <<items, words, cost, phase, hungarianVars, assign>>

\* prepare, with the default options.
Prepare(units) == [i \in DOMAIN units |-> Canonical(units[i])]

Differ(a, b) == IF a = b THEN 0 ELSE 1

\* align_units: the table of distances.
Distances(e, c) ==
    LET d[i \in 0..Len(e), j \in 0..Len(c)] ==
            IF i = 0 THEN j ELSE IF j = 0 THEN i
            ELSE Min({d[i - 1, j - 1] + Differ(e[i], c[j]), d[i - 1, j] + 1, d[i, j - 1] + 1})
    IN  [x \in (0..Len(e)) \X (0..Len(c)) |-> d[x[1], x[2]]]

\* ... and the way back through it: diagonal, then deletion, then insertion.
Trace(e, c) ==
    LET d == Distances(e, c)
        back[i \in 0..Len(e), j \in 0..Len(c)] ==
            IF i = 0 /\ j = 0 THEN <<>>
            ELSE IF i > 0 /\ j > 0 /\ d[i, j] = d[i - 1, j - 1] + Differ(e[i], c[j])
            THEN Append(back[i - 1, j - 1], IF e[i] = c[j] THEN "match" ELSE "sub")
            ELSE IF i > 0 /\ d[i, j] = d[i - 1, j] + 1
            THEN Append(back[i - 1, j], "del")
            ELSE Append(back[i, j - 1], "ins")
    IN  back[Len(e), Len(c)]

\* The index of the sent unit an op consumes: how many ops up to it do.
SentAt(ops, k) == Cardinality({q \in 1..k : ops[q] # "ins"})

\* attribute_insertions: a neighbouring substitution, else the unit before, else after; 0: none.
ChargedTo(ops, k) ==
    LET before == {q \in 1..(k - 1) : ops[q] # "ins"}
        after  == {q \in (k + 1)..Len(ops) : ops[q] # "ins"}
    IN  IF before # {} /\ ops[Max(before)] = "sub" THEN SentAt(ops, Max(before))
        ELSE IF after # {} /\ ops[Min(after)] = "sub" THEN SentAt(ops, Min(after))
        ELSE IF before # {} THEN SentAt(ops, Max(before))
        ELSE IF after # {} THEN SentAt(ops, Min(after))
        ELSE 0

\* Alignment::score, the errors.
Errors(e, c) == LET ops == Trace(e, c) IN Cardinality({k \in DOMAIN ops : ops[k] # "match"})

Plausible(e, c) == 2 * Errors(e, c) <= Len(e)

N == Len(items)
M == Len(words)
Size == N + M

\* align_unordered: the padded cost matrix, 1-based.
CostMatrix(i, j) ==
    IF i <= N /\ j <= M
    THEN IF Plausible(items[i], words[j]) THEN Errors(items[i], words[j]) ELSE Len(items[i]) + Len(words[j])
    ELSE IF i <= N THEN Len(items[i])
    ELSE IF j <= M THEN Len(words[j])
    ELSE 0

\* greedy_assign: cheapest plausible pair first, ties by item and then by word.
Worth == {x \in (1..N) \X (1..M) : cost[x] < Len(items[x[1]]) + Len(words[x[2]])}
Earlier(x, y) ==
    \/ cost[x] < cost[y]
    \/ cost[x] = cost[y] /\ (x[1] < y[1] \/ (x[1] = y[1] /\ x[2] <= y[2]))
Greedy ==
    LET pairs == SetToSortSeq(Worth, Earlier)
        taken[k \in 0..Len(pairs)] ==
            IF k = 0 THEN {}
            ELSE IF \E x \in taken[k - 1] : x[1] = pairs[k][1] \/ x[2] = pairs[k][2]
                 THEN taken[k - 1] ELSE taken[k - 1] \cup {pairs[k]}
        chosen == taken[Len(pairs)]
    IN  [i \in 1..N |-> IF \E x \in chosen : x[1] = i THEN (CHOOSE x \in chosen : x[1] = i)[2] ELSE M + i]

Init ==
    /\ items \in UNION {[1..n -> {Prepare(s) : s \in Sent}] : n \in 1..MaxItems}
    /\ words \in UNION {[1..n -> {Prepare(s) : s \in Copied}] : n \in 0..MaxWords}
    /\ cost = [x \in (1..Size) \X (1..Size) |-> CostMatrix(x[1], x[2])]
    /\ phase = "row" /\ row = 1
    /\ u = [i \in 0..Size |-> 0] /\ v = [j \in 0..Size |-> 0]
    /\ p = [j \in 0..Size |-> 0] /\ way = [j \in 0..Size |-> 0]
    /\ minv = [j \in 0..Size |-> Inf] /\ used = {} /\ j0 = 0
    /\ assign = <<>>

\* Too many for the optimal assignment.
AssignGreedily ==
    /\ phase = "row" /\ row = 1 /\ Size > OptimalMax
    /\ assign' = Greedy /\ phase' = "done"
    /\ UNCHANGED <<items, words, cost, hungarianVars>>

\* hungarian: the next row is placed.
StartRow ==
    /\ phase = "row" /\ Size <= OptimalMax /\ row <= Size
    /\ p' = [p EXCEPT ![0] = row]
    /\ j0' = 0 /\ used' = {} /\ minv' = [j \in 0..Size |-> Inf]
    /\ phase' = "scan"
    /\ UNCHANGED <<items, words, cost, row, u, v, way, assign>>

\* Mutant of Scan: the slacks are not lowered with the potentials.
ScanStaleSlack ==
    /\ phase = "scan"
    /\ LET tree   == used \cup {j0}
           i0     == p[j0]
           free   == (1..Size) \ tree
           cur    == [j \in free |-> cost[i0, j] - u[i0] - v[j]]
           slack  == [j \in 0..Size |-> IF j \in free /\ cur[j] < minv[j] THEN cur[j] ELSE minv[j]]
           delta  == Min({slack[j] : j \in free})
           nearest == Min({j \in free : slack[j] = delta})
       IN  /\ used' = tree
           /\ way' = [j \in 0..Size |-> IF j \in free /\ cur[j] < minv[j] THEN j0 ELSE way[j]]
           /\ u' = [i \in 0..Size |-> IF \E j \in tree : p[j] = i THEN u[i] + delta ELSE u[i]]
           /\ v' = [j \in 0..Size |-> IF j \in tree THEN v[j] - delta ELSE v[j]]
           /\ minv' = slack
           /\ j0' = nearest
           /\ phase' = IF p[nearest] = 0 THEN "augment" ELSE "scan"
    /\ UNCHANGED <<items, words, cost, row, p, assign>>

\* One pass of its inner loop: slacks, the nearest column, the potentials.
Scan ==
    /\ phase = "scan"
    /\ LET tree   == used \cup {j0}
           i0     == p[j0]
           free   == (1..Size) \ tree
           cur    == [j \in free |-> cost[i0, j] - u[i0] - v[j]]
           slack  == [j \in 0..Size |-> IF j \in free /\ cur[j] < minv[j] THEN cur[j] ELSE minv[j]]
           delta  == Min({slack[j] : j \in free})
           nearest == Min({j \in free : slack[j] = delta})
       IN  /\ used' = tree
           /\ way' = [j \in 0..Size |-> IF j \in free /\ cur[j] < minv[j] THEN j0 ELSE way[j]]
           /\ u' = [i \in 0..Size |-> IF \E j \in tree : p[j] = i THEN u[i] + delta ELSE u[i]]
           /\ v' = [j \in 0..Size |-> IF j \in tree THEN v[j] - delta ELSE v[j]]
           /\ minv' = [j \in 0..Size |-> IF j \in tree THEN slack[j] ELSE slack[j] - delta]
           /\ j0' = nearest
           /\ phase' = IF p[nearest] = 0 THEN "augment" ELSE "scan"
    /\ UNCHANGED <<items, words, cost, row, p, assign>>

\* One step back along the path that was found.
Augment ==
    /\ phase = "augment"
    /\ p' = [p EXCEPT ![j0] = p[way[j0]]]
    /\ j0' = way[j0]
    /\ IF j0' = 0 THEN phase' = "row" /\ row' = row + 1 ELSE UNCHANGED <<phase, row>>
    /\ UNCHANGED <<items, words, cost, u, v, way, minv, used, assign>>

Finish ==
    /\ phase = "row" /\ Size <= OptimalMax /\ row > Size
    /\ assign' = [i \in 1..Size |-> CHOOSE j \in 1..Size : p[j] = i]
    /\ phase' = "done"
    /\ UNCHANGED <<items, words, cost, hungarianVars>>

Next == AssignGreedily \/ StartRow \/ Scan \/ Augment \/ Finish

Spec == Init /\ [][Next]_vars /\ WF_vars(Next)

\* The pairs align_unordered reports as matched.
Matched == {i \in 1..N : assign[i] <= M /\ Plausible(items[i], words[assign[i]])}

\* UnorderedAlignment::score, the errors of every item and every extra word.
TotalErrors ==
    MapThenSumSet(LAMBDA i : IF i \in Matched THEN Errors(items[i], words[assign[i]]) ELSE Len(items[i]), 1..N)
    + MapThenSumSet(LAMBDA j : IF \E i \in Matched : assign[i] = j THEN 0 ELSE Len(words[j]), 1..M)

-----------------------------------------------------------------------------
\* Ways of pairing positions of a and b in increasing order.
Monotone(a, b) ==
    {S \in SUBSET ((1..Len(a)) \X (1..Len(b))) :
        \A x, y \in S : x # y => (x[1] < y[1] /\ x[2] < y[2]) \/ (y[1] < x[1] /\ y[2] < x[2])}
FewestEdits(a, b) ==
    Min({Len(a) + Len(b) - 2 * Cardinality(S) + Cardinality({x \in S : a[x[1]] # b[x[2]]}) : S \in Monotone(a, b)})

\* An alignment has the fewest errors any reading of the copy has, and every
\* unit copied too many is charged to a unit that was sent, if one was.
AlignmentIsMinimal ==
    phase = "row" /\ row = 1 =>
        \A i \in 1..N, j \in 1..M :
            LET ops == Trace(items[i], words[j])
            IN  /\ Errors(items[i], words[j]) = FewestEdits(items[i], words[j])
                /\ \A k \in DOMAIN ops : ops[k] = "ins" => ChargedTo(ops, k) \in 1..Len(items[i])

\* Ways of pairing items with words, each at most once, every pair plausible.
Pairings ==
    {S \in SUBSET ((1..N) \X (1..M)) :
        /\ \A x \in S : Plausible(items[x[1]], words[x[2]])
        /\ \A x, y \in S : x # y => x[1] # y[1] /\ x[2] # y[2]}
ErrorsOf(S) ==
    MapThenSumSet(LAMBDA x : Errors(items[x[1]], words[x[2]]), S)
    + MapThenSumSet(LAMBDA i : IF \E x \in S : x[1] = i THEN 0 ELSE Len(items[i]), 1..N)
    + MapThenSumSet(LAMBDA j : IF \E x \in S : x[2] = j THEN 0 ELSE Len(words[j]), 1..M)

\* Order-free scoring gives "the minimum total error": no other pairing of the
\* calls sent with the words copied charges the operator less.
TotalIsMinimum ==
    phase = "done" /\ Size <= OptimalMax => TotalErrors = Min({ErrorsOf(S) : S \in Pairings})

\* The potentials of the Hungarian algorithm stay below the costs of every row
\* placed so far, and meet them where a row is assigned: what makes the
\* assignment it ends with a cheapest one.
PotentialsFeasible ==
    phase # "done" =>
        /\ \A i \in 1..Min({row, Size}), j \in 1..Size : u[i] + v[j] <= cost[i, j]
        /\ phase # "augment" => \A j \in 1..Size : p[j] # 0 => u[p[j]] + v[j] = cost[p[j], j]

=============================================================================
