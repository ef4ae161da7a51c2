------------------------------- MODULE Lanes -------------------------------
(***************************************************************************)
(* The console's lanes (cat-ui/src/lanes.rs), built from what one station   *)
(* has wired (cat-framework/src/installation.rs).                           *)
(*                                                                         *)
(* The slow lane holds the commands in flight.  Its caller resolves one     *)
(* when the radio answers, when it times out, and again when the answer     *)
(* comes after all; `asked` keeps, for every command begun, its control and *)
(* the outcome it was first resolved with ("none" while nobody has).        *)
(***************************************************************************)
EXTENDS Integers, Sequences, FiniteSets, SequencesExt

CONSTANTS Controls,     \* the controls a command can target
          Stations,     \* installations: sequences of installed sources
          Taps,         \* whether the radio model provides an IF tap point
          Readings,     \* raw meter readings
          HistoryLens,  \* readings a CatLane keeps per meter
          MaxCommands,  \* bound on commands begun
          MaxReadings   \* bound on meter readings

VARIABLES station,      \* Installation::sources the console was built for
          tap,          \* RadioCapabilities::signal is an IF tap point
          in_flight,    \* CatLane::in_flight
          next_token,
          last_outcome, \* per control, "none" where there is none
          asked,        \* history: per token, its control and first outcome
          settled,      \* history: tokens in the order they were resolved
          history_len,
          meter_history,
          read,         \* history: every reading recorded
          selected      \* AudioLane::selected, from 0

catVars == <<in_flight, next_token, last_outcome, asked, settled>>
meterVars == <<history_len, meter_history, read>>
lanesVars == <<station, tap, catVars, meterVars, selected>>

Outcomes == {"Confirmed", "Rejected", "Clamped"}

(* SignalCapability and InstalledSource: what a source can drive, where its audio is from. *)
IsBandPanorama(source) == source.capability \in {"NativeScope", "IfTap", "DirectSdr"}

ReflectsRadioDsp(source) == source.origin = "RadioOutput"

(* The defect of offering every source as audio. *)
AudioSourcesAll(sources) == sources

AudioSources(sources) == SelectSeq(sources, LAMBDA s : s.capability = "AudioDerived")

BandPanorama(sources) == SelectInSeq(sources, IsBandPanorama)

(* Session: whether to draw a waterfall, or to say where a tap would go. *)
HasPanorama == BandPanorama(station) # 0

PanoramaPossibleButAbsent == tap /\ ~HasPanorama

(* AudioLane::new: the radio's own audio, else the first choice there is. *)
DefaultSelected(choices) ==
    LET at == SelectInSeq(choices, ReflectsRadioDsp)
    IN  IF at = 0 THEN 0 ELSE at - 1

Offered == AudioSources(station)

(* AudioLane::state and SpectrumLane::state: a lane exists even where nothing is wired. *)
AudioState == IF selected < Len(Offered) THEN Offered[selected + 1].state ELSE "Absent"

SpectrumState == IF HasPanorama THEN station[BandPanorama(station)].state ELSE "Absent"

ShowsRadioDsp == selected < Len(Offered) /\ ReflectsRadioDsp(Offered[selected + 1])

(* ConsoleState::for_installation *)
LanesInit ==
    /\ station \in Stations /\ tap \in Taps
    /\ in_flight = <<>> /\ next_token = 0
    /\ last_outcome = [c \in Controls |-> "none"]
    /\ asked = <<>> /\ settled = <<>>
    /\ history_len \in HistoryLens /\ meter_history = <<>> /\ read = <<>>
    /\ selected = DefaultSelected(AudioSources(station))

Begin(control) ==
    /\ next_token < MaxCommands
    /\ next_token' = next_token + 1
    /\ in_flight' = Append(in_flight, [token |-> next_token', control |-> control])
    /\ asked' = Append(asked, [control |-> control, outcome |-> "none"])
    /\ UNCHANGED <<station, tap, last_outcome, settled, meterVars, selected>>

(* Which command a resolution is for: the one with its token, or none. *)
Position(token) == SelectInSeq(in_flight, LAMBDA p : p.token = token)

(* CatLane::resolve: a token not in flight is ignored. *)
Resolve(token, outcome) ==
    LET at == Position(token)
    IN  /\ in_flight' = IF at = 0 THEN in_flight ELSE RemoveAt(in_flight, at)
        /\ last_outcome' = IF at = 0 THEN last_outcome
                           ELSE [last_outcome EXCEPT ![in_flight[at].control] = outcome]

(* The radio's answer, a timeout's, a duplicate of it, or an answer after the timeout. *)
Answer(token, outcome) ==
    /\ token \in 1 .. next_token
    /\ Resolve(token, outcome)
    /\ IF asked[token].outcome = "none"
       THEN /\ asked' = [asked EXCEPT ![token].outcome = outcome]
            /\ settled' = Append(settled, token)
       ELSE UNCHANGED <<asked, settled>>
    /\ UNCHANGED <<station, tap, next_token, meterVars, selected>>

IsPending(control) == \E i \in DOMAIN in_flight : in_flight[i].control = control

(* CatLane::set_meter, for one meter: the history drops its oldest reading when over length. *)
SetMeter(raw) ==
    LET longer == Append(meter_history, raw)
    IN  /\ Len(read) < MaxReadings
        /\ read' = Append(read, raw)
        /\ meter_history' = CASE history_len = 0 -> meter_history
                              [] Len(longer) > history_len -> Tail(longer)
                              [] OTHER -> longer
        /\ UNCHANGED <<station, tap, catVars, history_len, selected>>

(* AudioLane::select: an index out of range leaves the selection alone. *)
Select(index) ==
    /\ index < Len(Offered)
    /\ selected' = index
    /\ UNCHANGED <<station, tap, catVars, meterVars>>

Cycle ==
    /\ Offered # <<>>
    /\ selected' = (selected + 1) % Len(Offered)
    /\ UNCHANGED <<station, tap, catVars, meterVars>>

LanesNext ==
    \/ \E control \in Controls : Begin(control)
    \/ \E token \in 1 .. MaxCommands, outcome \in Outcomes : Answer(token, outcome)
    \/ \E raw \in Readings : SetMeter(raw)
    \/ \E index \in 0 .. 3 : Select(index)
    \/ Cycle

LanesSpec == LanesInit /\ [][LanesNext]_lanesVars

-----------------------------------------------------------------------------
(* A control is waiting exactly while a command of its own is unanswered, and what it says ended   *)
(* it is what the last of its own commands to be settled was settled with: duplicates, answers     *)
(* after a timeout and answers out of order never settle another control (CatLane::resolve).       *)
SettlesItsOwn ==
    \A c \in Controls :
      LET own == SelectSeq(settled, LAMBDA t : asked[t].control = c)
      IN  /\ IsPending(c) = \E t \in DOMAIN asked : asked[t].control = c /\ asked[t].outcome = "none"
          /\ last_outcome[c] = IF own = <<>> THEN "none" ELSE asked[Last(own)].outcome

(* Whatever the operator selects, the filter passband is drawn only over the radio's own audio,    *)
(* a lane is absent exactly where the station has no source for it (AudioLane, band_panorama), and *)
(* the trend trace is the tail of what the radio reported, in order (CatLane::set_meter).          *)
LanesAreTrue ==
    /\ ShowsRadioDsp =>
         \E i \in DOMAIN station :
            /\ station[i].capability = "AudioDerived" /\ station[i].origin = "RadioOutput"
            /\ AudioState = station[i].state
    /\ (AudioState = "Absent") = (\A i \in DOMAIN station : station[i].capability # "AudioDerived")
    /\ (SpectrumState = "Absent") = (\A i \in DOMAIN station : ~IsBandPanorama(station[i]))
    /\ PanoramaPossibleButAbsent => SpectrumState = "Absent"
    /\ meter_history = SubSeq(read, Len(read) - Len(meter_history) + 1, Len(read))
=============================================================================
