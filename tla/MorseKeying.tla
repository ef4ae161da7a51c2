---------------------------- MODULE MorseKeying ----------------------------
(***************************************************************************)
(* Keying text (cat-morse/src/timing.rs): tokens become alternating key    *)
(* down and key up stretches, in dots, sent by a perfect fist.  Farnsworth *)
(* spacing is the pair of gaps it comes to.  The text is typed one         *)
(* character at a time, so that every prefix of a text is a text too.      *)
(***************************************************************************)
EXTENDS MorseCodec

CONSTANTS
    Typed,      \* characters of the texts
    MaxTyped,   \* bound on a text's length
    Dash,       \* Fist::perfect's dash_ratio
    LetterGap,  \* Speed::letter_gap, in dots
    WordGap     \* Speed::word_gap, in dots

VARIABLE text

\* Keying::push
PushSegment(segments, down, duration) ==
    IF duration = 0 THEN segments
    ELSE IF segments # <<>> /\ Last(segments).down = down
    THEN [segments EXCEPT ![Len(segments)].duration = @ + duration]
    ELSE Append(segments, [down |-> down, duration |-> duration])

\* One element of a group and the gap before it.
PushElement(segments, first, element) ==
    PushSegment(IF first THEN segments ELSE PushSegment(segments, FALSE, 1),
                TRUE, IF element = "." THEN 1 ELSE Dash)

\* Mutant of KeyToken: the gap owed is not cleared by the token it precedes.
KeyTokenGapKept(s, token) ==
    IF token = WordSpace
    THEN IF s.segments = <<>> THEN s ELSE [s EXCEPT !.gap = WordGap]
    ELSE LET group == Pattern(token)
             start == IF s.segments = <<>> THEN <<>>
                      ELSE PushSegment(s.segments, FALSE, IF s.gap # 0 THEN s.gap ELSE LetterGap)
         IN  IF group = "" THEN s
             ELSE [s EXCEPT !.segments = Through(LAMBDA acc, k : PushElement(acc, k = 1, SubSeq(group, k, k)),
                                                  start, [k \in 1..Len(group) |-> k])]

\* One token: the gap owed before it, then its elements.
KeyToken(s, token) ==
    IF token = WordSpace
    THEN IF s.segments = <<>> THEN s ELSE [s EXCEPT !.gap = WordGap]
    ELSE LET group == Pattern(token)
             start == IF s.segments = <<>> THEN <<>>
                      ELSE PushSegment(s.segments, FALSE, IF s.gap # 0 THEN s.gap ELSE LetterGap)
         IN  IF group = "" THEN s
             ELSE [segments |-> Through(LAMBDA acc, k : PushElement(acc, k = 1, SubSeq(group, k, k)),
                                         start, [k \in 1..Len(group) |-> k]),
                   gap |-> 0]

\* key
Key(tokens) == Through(KeyToken, [segments |-> <<>>, gap |-> 0], tokens).segments

Total(segments) ==
    LET upTo[k \in 0..Len(segments)] == IF k = 0 THEN 0 ELSE upTo[k - 1] + segments[k].duration
    IN  upTo[Len(segments)]

\* What of the segments starts before `max`, the last of them cut to end there: segments
\* alternate, so that pushing them one by one never joins two.
Before(segments, max) ==
    LET start(k) == Total(SubSeq(segments, 1, k - 1))
    IN  [k \in 1..Cardinality({k \in DOMAIN segments : start(k) < max}) |->
            [segments[k] EXCEPT !.duration = Min({@, max - start(k)})]]

DropSilence(segments) == IF segments # <<>> /\ ~Last(segments).down THEN Front(segments) ELSE segments

\* Keying::truncated
Truncated(segments, max) == DropSilence(Before(segments, max))

KeyingInit == text = <<>>

Type(ch) == Len(text) < MaxTyped /\ text' = Append(text, ch)

KeyingNext == \E ch \in Typed : Type(ch)

-----------------------------------------------------------------------------
\* Reading a keying back: the groups between gaps of a letter or more, and the
\* word spaces between gaps of a word.
Heard(segments) ==
    LET gaps == SetToSortSeq({k \in DOMAIN segments : ~segments[k].down /\ segments[k].duration >= LetterGap}, <)
        letter(j) == SubSeq(segments, IF j = 1 THEN 1 ELSE gaps[j - 1] + 1,
                                      IF j > Len(gaps) THEN Len(segments) ELSE gaps[j] - 1)
        element(s) == IF ~s.down THEN "" ELSE IF s.duration = 1 THEN "." ELSE "-"
        group(j) == Through(LAMBDA acc, s : acc \o element(s), "", letter(j))
        wordEnds(j) == j <= Len(gaps) /\ segments[gaps[j]].duration >= WordGap
        read(j) == <<DecodeGroupWith(group(j), "Prosigns")>> \o (IF wordEnds(j) THEN <<WordSpace>> ELSE <<>>)
    IN  IF segments = <<>> THEN <<>> ELSE FlattenSeq([j \in 1..(Len(gaps) + 1) |-> read(j)])

\* What is keyed reads back as what was written, a shared pattern as its
\* prosign, from the first mark to the last with no silence at either end.
KeyedAsWritten ==
    LET t == Tokenize(text)
    IN  t.error = "" =>
            LET keyed == Key(t.out)
            IN  /\ Heard(keyed) = [k \in DOMAIN t.out |-> Canonical(t.out[k])]
                /\ keyed # <<>> => keyed[1].down /\ Last(keyed).down

\* Text that encodes is tokenized the same whether it is sent or typed as copy:
\* an operator who types exactly what was sent is never charged an error.
CopyReadsAsSent == Tokenize(text).error = "" => TokenizeCopy(text) = Tokenize(text).out

\* A keying alternates, has no empty stretch, and cut short at any time it is no
\* longer than that, ends in a mark, and continues with what was cut off.
CutIsAPrefix ==
    LET t == Tokenize(text)
        keyed == Key(t.out)
    IN  t.error = "" =>
            \A max \in 0..Total(keyed) :
                LET cut == Truncated(keyed, max)
                IN  /\ Total(cut) <= max
                    /\ \A k \in DOMAIN cut : cut[k].duration > 0 /\ (cut[k].down <=> k % 2 = 1)
                    /\ cut # <<>> => Last(cut).down
                    /\ \A k \in 1..(Len(cut) - 1) : cut[k] = keyed[k]
                    /\ Total(cut) < max => ~keyed[Len(cut) + 1].down
=============================================================================
