------------------------------ MODULE Operator ------------------------------
(***************************************************************************)
(* What an operator can ask of a radio from a console: the `:` command line *)
(* (cat-ui/src/command.rs), the quick bar (quick.rs, app.rs), the tabs      *)
(* (workspace.rs), the keys of the terminal console (handle_key) and its    *)
(* device picker (devices.rs); and the server's own check of the commands   *)
(* that come out of them (NativeSession::validate).                         *)
(*                                                                         *)
(* A typed line is a verb and an argument: Missing, a word, or the number   *)
(* it reads as, in hertz where a decimal point made it megahertz.           *)
(***************************************************************************)
EXTENDS Integers, Sequences, FiniteSets, SequencesExt

CONSTANTS Radios,       \* capabilities: what CapabilitiesWire says of a radio
          Verbs,        \* first words of a line
          Numbers,      \* arguments that are numbers
          ModeWords,    \* arguments that are words, modes among them
          Offers,       \* device lists: sequences of numbers of devices
          Nudge,        \* what the shift buttons add and subtract
          MaxRefreshes  \* bound on device lists taken

VARIABLES caps,         \* the connected radio's capabilities
          tab,          \* ConsoleView::tab
          typing,       \* ConsoleView::command is open
          readout,      \* the quick bar's mode, shift, width and split
          devices,      \* ConsoleView::devices: how many each list holds
          cursor,       \* Selection::index, from 0
          refreshes,
          outcome       \* what the last key, click or line came to

operatorVars == <<caps, tab, typing, readout, devices, cursor, refreshes, outcome>>

Missing == [kind |-> "missing", n |-> 0, word |-> ""]
Number(k) == [kind |-> "number", n |-> k, word |-> ""]
Word(w) == [kind |-> "word", n |-> 0, word |-> w]
Args == {Missing} \cup {Number(k) : k \in Numbers} \cup {Word(w) : w \in ModeWords}

Command(name, value) == [name |-> name, value |-> value]
Radio(name, value) == [kind |-> "Radio", command |-> Command(name, value)]
Refused(why) == [kind |-> why, command |-> Command("none", 0)]

None == -99   \* a capability the radio does not have, a value nobody has read

Within(k, range) == range[1] <= k /\ k <= range[2]
Abs(k) == IF k < 0 THEN -k ELSE k
Clamp(k, lo, hi) == IF k < lo THEN lo ELSE IF k > hi THEN hi ELSE k

(* NativeSession::validate, for the commands a console of this kind sends. *)
Validate(radio, command) ==
    CASE command.name = "SetFrequency" -> Within(command.value, radio.rx)
      [] command.name = "Retune" -> Within(command.value, radio.rx)
      [] command.name = "SetMode" -> Contains(radio.modes, command.value)
      [] command.name = "SetSplit" -> radio.split
      [] command.name = "SetMemoryChannel" ->
            radio.memory # <<>> /\ Within(command.value, radio.memory)
      [] command.name = "SetFilterWidth" -> Contains(radio.widths, command.value)
      [] command.name = "SetIfShift" -> radio.shift # None /\ Abs(command.value) <= radio.shift

(* The defect of bounding the shift above only. *)
ClampShiftAbove(hz, limit) == IF hz > limit THEN limit ELSE hz

(* quick::clamp_shift *)
ClampShift(hz, limit) == Clamp(hz, -Abs(limit), Abs(limit))

(* parse_frequency: a negative one is no frequency, as a u64 or in megahertz. *)
Frequency(name, arg) ==
    CASE arg.kind = "missing" -> Refused("MissingArgument")
      [] arg.kind = "number" /\ arg.n >= 0 -> Radio(name, arg.n)
      [] OTHER -> Refused("BadArgument")

ParseMode(radio, arg) ==
    CASE arg.kind = "missing" -> Refused("MissingArgument")
      [] arg.kind = "word" /\ Contains(radio.modes, arg.word) -> Radio("SetMode", arg.word)
      [] OTHER -> Refused("Unsupported")

ParseMemory(radio, arg) ==
    CASE radio.memory = <<>> -> Refused("Unsupported")
      [] radio.memory # <<>> /\ arg.kind = "missing" -> Refused("MissingArgument")
      [] radio.memory # <<>> /\ arg.kind # "missing" /\ (arg.kind = "word" \/ arg.n < 0) ->
            Refused("BadArgument")
      [] OTHER -> IF Within(arg.n, radio.memory) THEN Radio("SetMemoryChannel", arg.n)
                  ELSE Refused("Unsupported")

ParseShift(radio, arg) ==
    CASE radio.shift = None -> Refused("Unsupported")
      [] radio.shift # None /\ arg.kind = "missing" -> Refused("MissingArgument")
      [] radio.shift # None /\ arg.kind = "word" -> Refused("BadArgument")
      [] OTHER -> Radio("SetIfShift", ClampShift(arg.n, radio.shift))

ParseSplit(radio, arg) ==
    IF ~radio.split THEN Refused("Unsupported")
    ELSE Radio("SetSplit", IF arg = Word("off") \/ arg = Number(0) THEN 0 ELSE 1)

(* command::parse, by verb; a line of digits selects a tab. *)
Parse(radio, verb, arg) ==
    CASE verb = "quit" -> Refused("Quit")
      [] verb = "freq" -> Frequency("SetFrequency", arg)
      [] verb = "tune" -> Frequency("Retune", arg)
      [] verb = "mode" -> ParseMode(radio, arg)
      [] verb = "mem" -> ParseMemory(radio, arg)
      [] verb = "shift" -> ParseShift(radio, arg)
      [] verb = "split" -> ParseSplit(radio, arg)
      [] verb = "2" -> Refused("SelectTab")
      [] OTHER -> Refused("UnknownVerb")

(* workspace::tabs and tab_for_digit *)
Tabs(radio) ==
    (IF radio.signal THEN <<"Spectrum">> ELSE <<>>)
      \o (IF radio.memory # <<>> THEN <<"Memory">> ELSE <<>>)
      \o (IF radio.menu THEN <<"Menu">> ELSE <<>>)
      \o <<"Source">>

TabForDigit(radio, digit) ==
    IF digit \in 1 .. Len(Tabs(radio)) THEN Tabs(radio)[digit] ELSE tab

(* quick::controls *)
Controls(radio) ==
    { c \in {"Mode", "FilterWidth", "IfShift", "Notch", "Split"} :
        CASE c = "Mode" -> radio.modes # <<>>
          [] c = "FilterWidth" -> radio.widths # <<>>
          [] c = "IfShift" -> radio.shift # None
          [] c = "Notch" -> radio.notch
          [] c = "Split" -> radio.split }

(* quick::next_mode: the one after, wrapping; the first while none is known. *)
NextMode(radio, current) ==
    LET at == SelectInSeq(radio.modes, LAMBDA m : m = current)
    IN  radio.modes[IF at = 0 THEN 1 ELSE (at % Len(radio.modes)) + 1]

(* Selection::choices, move_by and current: one cursor over every list. *)
Pickable == FoldLeft(LAMBDA sum, k : sum + k, 0, devices)

Moved(delta) == IF Pickable = 0 THEN 0 ELSE Clamp(cursor + delta, 0, Pickable - 1)

Nothing == Refused("Consumed")

(* ConsoleView::for_capabilities *)
OperatorInit ==
    /\ caps \in Radios
    /\ tab = Tabs(caps)[1] /\ typing = FALSE
    /\ readout = [mode |-> "", shift |-> 0, split |-> FALSE]
    /\ devices = <<>> /\ cursor = 0 /\ refreshes = 0
    /\ outcome = Nothing

(* handle_key: `:` opens the line, escape closes it, a digit names a tab or falls through. *)
OpenLine ==
    /\ ~typing
    /\ typing' = TRUE /\ outcome' = Nothing
    /\ UNCHANGED <<caps, tab, readout, devices, cursor, refreshes>>

CloseLine ==
    /\ typing
    /\ typing' = FALSE /\ outcome' = Nothing
    /\ UNCHANGED <<caps, tab, readout, devices, cursor, refreshes>>

SubmitLine(verb, arg) ==
    /\ typing
    /\ typing' = FALSE
    /\ outcome' = Parse(caps, verb, arg)
    /\ tab' = IF outcome'.kind = "SelectTab" THEN TabForDigit(caps, 2) ELSE tab
    /\ UNCHANGED <<caps, readout, devices, cursor, refreshes>>

Digit(n) ==
    /\ ~typing
    /\ tab' = TabForDigit(caps, n)
    /\ outcome' = IF n \in 1 .. Len(Tabs(caps)) THEN Nothing ELSE Refused("Passthrough")
    /\ UNCHANGED <<caps, typing, readout, devices, cursor, refreshes>>

(* The SOURCE tab's arrows, enter and refresh. *)
MoveCursor(delta) ==
    /\ ~typing /\ tab = "Source"
    /\ cursor' = Moved(delta) /\ outcome' = Nothing
    /\ UNCHANGED <<caps, tab, typing, readout, devices, refreshes>>

Pick ==
    /\ ~typing /\ tab = "Source"
    /\ outcome' = IF cursor < Pickable THEN Refused("Attach") ELSE Refused("NothingToAttach")
    /\ UNCHANGED <<caps, tab, typing, readout, devices, cursor, refreshes>>

Refreshed(offer) ==
    /\ refreshes < MaxRefreshes
    /\ refreshes' = refreshes + 1
    /\ devices' = offer /\ outcome' = Nothing
    /\ UNCHANGED <<caps, tab, typing, readout, cursor>>

(* App::quick_bar: what a click on each control sends. *)
ClickMode ==
    /\ "Mode" \in Controls(caps)
    /\ readout' = [readout EXCEPT !.mode = NextMode(caps, readout.mode)]
    /\ outcome' = Radio("SetMode", readout'.mode)
    /\ UNCHANGED <<caps, tab, typing, devices, cursor, refreshes>>

ClickWidth ==
    /\ "FilterWidth" \in Controls(caps)
    /\ \E i \in DOMAIN caps.widths : outcome' = Radio("SetFilterWidth", caps.widths[i])
    /\ UNCHANGED <<caps, tab, typing, readout, devices, cursor, refreshes>>

ClickShift(delta) ==
    /\ "IfShift" \in Controls(caps)
    /\ readout' = [readout EXCEPT !.shift = ClampShift(@ + delta, caps.shift)]
    /\ outcome' = Radio("SetIfShift", readout'.shift)
    /\ UNCHANGED <<caps, tab, typing, devices, cursor, refreshes>>

ClickSplit ==
    /\ "Split" \in Controls(caps)
    /\ readout' = [readout EXCEPT !.split = ~@]
    /\ outcome' = Radio("SetSplit", IF readout'.split THEN 1 ELSE 0)
    /\ UNCHANGED <<caps, tab, typing, devices, cursor, refreshes>>

OperatorNext ==
    \/ OpenLine
    \/ CloseLine
    \/ \E verb \in Verbs, arg \in Args : SubmitLine(verb, arg)
    \/ \E n \in 0 .. 5 : Digit(n)
    \/ \E delta \in {-1, 1} : MoveCursor(delta)
    \/ Pick
    \/ \E offer \in Offers : Refreshed(offer)
    \/ ClickMode
    \/ ClickWidth
    \/ \E delta \in {-Nudge, Nudge} : ClickShift(delta)
    \/ ClickSplit

OperatorSpec == OperatorInit /\ [][OperatorNext]_operatorVars

-----------------------------------------------------------------------------
(* The console gives the server's own answer (command::parse, quick_bar against                  *)
(* NativeSession::validate): whatever a typed line or a click sends, the server accepts, a       *)
(* frequency outside the radio's range apart; what a line is refused as unsupported, no value of *)
(* that verb's argument would have been accepted for; and the open tab is one the radio has.     *)
ConsoleAgreesWithServer ==
    /\ outcome.kind = "Radio" =>
         \/ Validate(caps, outcome.command)
         \/ outcome.command.name \in {"SetFrequency", "Retune"} /\ ~Within(outcome.command.value, caps.rx)
    /\ \A verb \in Verbs, arg \in Args :
         Parse(caps, verb, arg).kind = "Unsupported" =>
           \A name \in (CASE verb = "mode" -> {"SetMode"} [] verb = "mem" -> {"SetMemoryChannel"}
                          [] verb = "shift" -> {"SetIfShift"} [] verb = "split" -> {"SetSplit"}) :
              ~Validate(caps, Command(name, IF verb = "mode" THEN arg.word ELSE arg.n))
    /\ Contains(Tabs(caps), tab)
=============================================================================
