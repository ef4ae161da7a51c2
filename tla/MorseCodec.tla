----------------------------- MODULE MorseCodec -----------------------------
(***************************************************************************)
(* The Morse table and its readings (cat-morse/src/codec.rs): text to      *)
(* tokens, tokens to element groups and back.  A text is a sequence of     *)
(* one-character strings; a token is a character, a prosign "<XX>" or the  *)
(* word space; an element group is a string of dots and dashes.            *)
(***************************************************************************)
EXTENDS Integers, Sequences, FiniteSets, FiniteSetsExt, SequencesExt

WordSpace == " "

TEXT_TABLE ==
    <<<<"A", ".-">>, <<"B", "-...">>, <<"C", "-.-.">>, <<"D", "-..">>, <<"E", ".">>, <<"F", "..-.">>,
       <<"G", "--.">>, <<"H", "....">>, <<"I", "..">>, <<"J", ".---">>, <<"K", "-.-">>,
       <<"L", ".-..">>, <<"M", "--">>, <<"N", "-.">>, <<"O", "---">>, <<"P", ".--.">>,
       <<"Q", "--.-">>, <<"R", ".-.">>, <<"S", "...">>, <<"T", "-">>, <<"U", "..-">>,
       <<"V", "...-">>, <<"W", ".--">>, <<"X", "-..-">>, <<"Y", "-.--">>, <<"Z", "--..">>,
       <<"0", "-----">>, <<"1", ".----">>, <<"2", "..---">>, <<"3", "...--">>, <<"4", "....-">>,
       <<"5", ".....">>, <<"6", "-....">>, <<"7", "--...">>, <<"8", "---..">>, <<"9", "----.">>,
       <<".", ".-.-.-">>, <<",", "--..--">>, <<"?", "..--..">>, <<"/", "-..-.">>, <<"=", "-...-">>,
       <<"-", "-....-">>, <<"'", ".----.">>, <<":", "---...">>, <<"\"", ".-..-.">>,
       <<"(", "-.--.">>, <<")", "-.--.-">>, <<"@", ".--.-.">>, <<"+", ".-.-.">>, <<"!", "-.-.--">>,
       <<"&", ".-...">>, <<"<AR>", ".-.-.">>, <<"<SK>", "...-.-">>, <<"<BT>", "-...-">>,
       <<"<KN>", "-.--.">>, <<"<AS>", ".-...">>, <<"<HH>", "........">>, <<"<SOS>", "...---...">> >>

Table == ToSet(TEXT_TABLE)

Prosigns == {"<AR>", "<SK>", "<BT>", "<KN>", "<AS>", "<HH>", "<SOS>"}

SHARED_PATTERNS == {<<"<BT>", "=">>, <<"<AR>", "+">>, <<"<KN>", "(">>, <<"<AS>", "&">>}

\* A loop over a sequence: what Step, started from `start`, leaves after the last item.
Through(Step(_, _), start, seq) ==
    LET after[k \in 0..Len(seq)] ==
            IF k = 0 THEN start
            ELSE CHOOSE next \in {Step(s, seq[k]) : s \in {after[k - 1]}} : TRUE
    IN  after[Len(seq)]

\* to_ascii_uppercase, of the lower-case letters the model types.
Upper(ch) == CASE ch = "b" -> "B" [] ch = "t" -> "T" [] OTHER -> ch

\* pattern: "" when the token has none.
Pattern(token) ==
    LET rows == {row \in Table : row[1] = token} IN IF rows = {} THEN "" ELSE (CHOOSE row \in rows : TRUE)[2]

\* canonical
Canonical(token) ==
    LET shared == {pair \in SHARED_PATTERNS : pair[2] = token}
    IN  IF shared = {} THEN token ELSE (CHOOSE pair \in shared : TRUE)[1]

\* decode_group_with: the wanted form of a shared pattern; "": no entry.
DecodeGroupWith(elements, style) ==
    LET rows   == {k \in DOMAIN TEXT_TABLE : TEXT_TABLE[k][2] = elements}
        wanted == {k \in rows : (TEXT_TABLE[k][1] \in Prosigns) <=> (style = "Prosigns")}
    IN  IF rows = {} THEN ""
        ELSE TEXT_TABLE[IF wanted # {} THEN Min(wanted) ELSE Min(rows)][1]

\* Prosign::from_name, of the characters between the brackets; "": no such prosign.
FromName(chars) ==
    LET name == "<" \o Through(LAMBDA acc, ch : acc \o Upper(ch), "", chars) \o ">"
    IN  IF name \in Prosigns THEN name ELSE ""

\* Where the bracket opened at i closes; 0: nowhere.
CloseOf(text, i) ==
    LET closes == {k \in (i + 1)..Len(text) : text[k] = ">"} IN IF closes = {} THEN 0 ELSE Min(closes)

\* What one step of either tokenizer leaves: the position, the tokens, a pending space, an error.
Started == [at |-> 1, out |-> <<>>, pending |-> FALSE, error |-> ""]
Failed(s, error) == [s EXCEPT !.error = error]
Skip(s) == [s EXCEPT !.at = @ + 1, !.pending = s.out # <<>>]
Take(s, token, next) ==
    [s EXCEPT !.at = next, !.pending = FALSE,
              !.out = @ \o (IF s.pending THEN <<WordSpace, token>> ELSE <<token>>)]

\* tokenize, one character or one bracketed name.
TokenizeStep(text, s) ==
    LET ch == text[s.at] close == CloseOf(text, s.at)
    IN  IF ch = " " THEN Skip(s)
        ELSE IF ch = "<"
        THEN IF close = 0 THEN Failed(s, "UnterminatedProsign")
             ELSE LET name == FromName(SubSeq(text, s.at + 1, close - 1))
                  IN  IF name = "" THEN Failed(s, "UnknownProsign") ELSE Take(s, name, close + 1)
        ELSE IF Pattern(Upper(ch)) = "" THEN Failed(s, "UnknownChar")
        ELSE Take(s, Upper(ch), s.at + 1)

\* score::tokenize_copy, which never fails.
TokenizeCopyStep(text, s) ==
    LET ch == text[s.at] close == CloseOf(text, s.at)
        name == IF ch = "<" /\ close # 0 THEN FromName(SubSeq(text, s.at + 1, close - 1)) ELSE ""
    IN  IF ch = " " THEN Skip(s)
        ELSE IF name # "" THEN Take(s, name, close + 1)
        ELSE Take(s, Upper(ch), s.at + 1)

\* Either tokenizer run over the text.
Run(Step(_, _), text) ==
    Through(LAMBDA s, ch : IF s.error # "" \/ s.at > Len(text) THEN s ELSE Step(text, s), Started, text)

Tokenize(text) == Run(TokenizeStep, text)
TokenizeCopy(text) == Run(TokenizeCopyStep, text).out
=============================================================================
