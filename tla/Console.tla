------------------------------ MODULE Console ------------------------------
(***************************************************************************)
(* The graphical console's session with a radio's host (cat-ui-egui): the  *)
(* link, the readout with its three-valued fields, the CW state, and the   *)
(* host's offer of devices, as Console::draw works them: pump drains what  *)
(* the client thread queued, poll_state asks, and the operator's controls  *)
(* send.  A value on the screen carries the connection it was read on.     *)
(*                                                                         *)
(* The client thread may end between the pump of a draw and a control of   *)
(* the same draw, so pump, poll and controls are actions of their own.     *)
(***************************************************************************)
EXTENDS Integers, SequencesExt

CONSTANTS
    Dials,            \* where a dial may stand
    MaxConnections,   \* bound: connections
    MaxChanges,       \* bound: operator commands and turns of the knob
    MaxWire,          \* bound: requests unanswered when another is sent
    MaxQueued         \* bound: events waiting when another is queued

VARIABLES
    link,        \* Console.link: the connection that is up, 0 when Down
    made,        \* connections made so far
    alive,       \* the client thread still runs
    host,        \* the radio's host: its dial, and whether it offers devices
    wire,        \* requests sent and not answered, in order
    events,      \* what the client thread queued for the console
    dial,        \* Console.readout.vfo_a_hz
    cw,          \* Console.cw: the connection it was read on, 0 for None
    offer,       \* Console.devices
    pending,     \* Console.devices_pending
    changes      \* operator commands and turns of the knob so far

consoleVars == <<link, made, alive, host, wire, events, dial, cw, offer, pending, changes>>

Unknown == [is |-> "Unknown", value |-> 0, of |-> 0]
Pending(value) == [is |-> "Pending", value |-> value, of |-> link]
Known(value) == [is |-> "Known", value |-> value, of |-> link]
Unasked == [is |-> "Unasked", of |-> 0]
NotOffered == [is |-> "NotOffered", of |-> link]
Listed == [is |-> "Listed", of |-> link]

ConsoleInit ==
    /\ link = 0 /\ made = 0 /\ alive = FALSE
    /\ host = [dial |-> CHOOSE d \in Dials : TRUE, offers |-> FALSE]
    /\ wire = <<>> /\ events = <<>>
    /\ dial = Unknown /\ cw = 0 /\ offer = Unasked /\ pending = FALSE
    /\ changes = 0

----------------------------------------------------------------------------
(* connect, and the client thread *)

\* Console::connect: the new client replaces the link and nothing else.  The
\* button is drawn only while the link is down.
Connect ==
    /\ link = 0 /\ made < MaxConnections
    /\ made' = made + 1 /\ link' = made + 1
    /\ alive' = TRUE
    /\ host' \in [dial : Dials, offers : BOOLEAN]
    /\ wire' = <<>> /\ events' = <<>>
    /\ UNCHANGED <<dial, cw, offer, pending, changes>>

\* The connection ends: the thread queues its last event and stops, and a
\* send from then on fails.
ThreadEnds ==
    /\ link # 0 /\ alive
    /\ alive' = FALSE /\ wire' = <<>>
    /\ events' = Append(events, [is |-> "Disconnected", dial |-> 0])
    /\ UNCHANGED <<link, made, host, dial, cw, offer, pending, changes>>

\* The host answers the oldest request, in order.  It may refuse a command
\* with Unsupported, which is also how it declines ReadDevices.
Answers(request) ==
    CASE request.is = "ReadState" -> {"State"}
      [] request.is = "ReadDevices" -> IF host.offers THEN {"Devices"} ELSE {"Unsupported"}
      [] OTHER -> {"Ack", "Unsupported"}

Answer ==
    /\ alive /\ wire # <<>> /\ Len(events) < MaxQueued
    /\ \E answer \in Answers(Head(wire)) :
          LET tuned == Head(wire).is = "Retune" /\ answer = "Ack"
              at == IF tuned THEN Head(wire).dial ELSE host.dial
          IN  /\ host' = [host EXCEPT !.dial = at]
              /\ events' = Append(events, [is |-> answer, dial |-> at])
    /\ wire' = Tail(wire)
    /\ UNCHANGED <<link, made, alive, dial, cw, offer, pending, changes>>

\* Somebody turns the knob at the radio.
Knob ==
    /\ link # 0 /\ changes < MaxChanges
    /\ changes' = changes + 1
    /\ \E d \in Dials : host' = [host EXCEPT !.dial = d]
    /\ UNCHANGED <<link, made, alive, wire, events, dial, cw, offer, pending>>

----------------------------------------------------------------------------
(* Console::pump *)

Lost == \E i \in DOMAIN events : events[i].is = "Disconnected"
States == SelectSeq(events, LAMBDA e : e.is = "State")

\* What the drain says of the devices: the last word of it.  An Unsupported
\* counts as the answer if one was awaited when the drain began.
Words == SelectSeq(events,
             LAMBDA e : e.is = "Devices" \/ (e.is = "Unsupported" /\ pending))
Offered == IF Last(Words).is = "Devices" THEN Listed ELSE NotOffered

\* Field::confirm: what the radio reports wins over what was asked.
Confirm(value) == Known(value)

\* Console::on_link_lost; cw is not among what it forgets.
OnLinkLost ==
    /\ link' = 0
    /\ offer' = Unasked /\ pending' = FALSE
    /\ dial' = Unknown

Drain ==
    /\ dial' = IF States = <<>> THEN dial ELSE Confirm(Last(States).dial)
    /\ offer' = IF Words = <<>> THEN offer ELSE Offered
    /\ pending' = (pending /\ Words = <<>>)
    /\ UNCHANGED link

Pump ==
    /\ link # 0 /\ events # <<>>
    /\ cw' = IF States = <<>> THEN cw ELSE link
    /\ IF Lost THEN OnLinkLost ELSE Drain
    /\ events' = <<>>
    /\ UNCHANGED <<made, alive, host, wire, changes>>

----------------------------------------------------------------------------
(* poll_state, ask_for_devices, refresh_devices *)

\* The requests one poll sends, and whether it leaves the devices awaited.
Asks(asked, awaited) == ~awaited /\ asked.is = "Unasked" /\ alive

Sent(requests) ==
    wire' = IF alive THEN wire \o requests ELSE wire

ReadState == [is |-> "ReadState", dial |-> 0]
ReadDevices == [is |-> "ReadDevices", dial |-> 0]

PollState ==
    /\ link # 0 /\ Len(wire) < MaxWire
    /\ Sent(<<ReadState>> \o (IF Asks(offer, pending) THEN <<ReadDevices>> ELSE <<>>))
    /\ pending' = (pending \/ Asks(offer, pending))
    /\ UNCHANGED <<link, made, alive, host, events, dial, cw, offer, changes>>

RefreshDevices ==
    /\ link # 0 /\ changes < MaxChanges /\ Len(wire) < MaxWire
    /\ changes' = changes + 1
    /\ offer' = Unasked
    /\ Sent(<<ReadDevices>>)
    /\ pending' = alive
    /\ UNCHANGED <<link, made, alive, host, events, dial, cw>>

----------------------------------------------------------------------------
(* The operator's controls: Console::send *)

\* A send that fails takes the link down, and only that.
Send(request) ==
    /\ Sent(<<request>>)
    /\ link' = IF alive THEN link ELSE 0

\* A click on the waterfall, a band button or the command line: the request
\* is noted on the readout and sent.
Tune ==
    /\ link # 0 /\ changes < MaxChanges /\ Len(wire) < MaxWire
    /\ changes' = changes + 1
    /\ \E d \in Dials :
          /\ dial' = Pending(d)
          /\ Send([is |-> "Retune", dial |-> d])
    /\ UNCHANGED <<made, alive, host, events, cw, offer, pending>>

\* A device of the list is clicked.
Attach ==
    /\ link # 0 /\ changes < MaxChanges /\ Len(wire) < MaxWire
    /\ offer.is = "Listed"
    /\ changes' = changes + 1
    /\ Send([is |-> "AttachDevice", dial |-> 0])
    /\ UNCHANGED <<made, alive, host, events, dial, cw, offer, pending>>

ConsoleNext ==
    \/ Connect \/ ThreadEnds \/ Answer \/ Knob
    \/ Pump \/ PollState \/ RefreshDevices \/ Tune \/ Attach

\* The console is drawn some thirty times a second, each draw pumps and polls,
\* and a host that is connected answers.
ConsoleFairness ==
    /\ WF_consoleVars(Pump)
    /\ WF_consoleVars(PollState)
    /\ WF_consoleVars(Answer)

ConsoleSpec == ConsoleInit /\ [][ConsoleNext]_consoleVars /\ ConsoleFairness

----------------------------------------------------------------------------
(* On a link that stays up the dial comes to read what the radio is tuned  *)
(* to and stays there: no request is left pending, whether the host took   *)
(* it, refused it or was turned by hand meanwhile (readout::Field).        *)
DialCatchesUp ==
    <>[](link # 0) => <>[](dial.is = "Known" /\ dial.value = host.dial)

(* The devices on the SOURCE tab are those of the host the console is      *)
(* connected to (on_link_lost: "Keeping the old list would show one host's *)
(* hardware while talking to another").                                    *)
OfferIsTheHosts ==
    (link # 0 /\ offer.is # "Unasked") => offer.of = link
=============================================================================
