------------------------------ MODULE MCStation ------------------------------
(***************************************************************************)
(* The rest of the station, each part on an instance of its own: a console *)
(* link, the sound card and the SDR, the Morse practice suite (callsigns,  *)
(* scripts, bands, keying, decoding and scoring) and the displays of the   *)
(* console.  They share no state: one of them runs, and the others have    *)
(* none.                                                                   *)
(***************************************************************************)
EXTENDS Callsign

VARIABLES
    which,   \* the part that runs
    front, want, servesCw, offersDevices, version, newest, hostHas, attached, srv, session,
    unread, command, lastSent, up, down, cli, capCw, commands, inbox, link_slot, sinks,
    link_dropped, link_sent, answers, seen,
    capture_capture, device, format, capture_running, pushed, ring, closed, overruns, stop,
    params, capture_reader, capture_block, buffer, capture_heard, capture_sequence,
    capture_frame, capture_ended, capture_dropped, collected,
    playback_playback, card, outFormat, lock, playback_block, samples, playing, stopped,
    underruns, busy, taken, cleared, played, calls,
    endpoint, rate, inverted, state, worker, sdr_running, sdr_slot, sdr_dropped, made,
    sdr_reader, sdr_stream, sdr_sent, partial, bytes, sdr_heard, fftSize, dial, trim,
    sdr_sequence, sdr_frame, sets,
    kind, qso_stage, stations, avoid, qso_tx, todo, waiting, count, worked,
    mode, dec, decoder_stream, decoder_ended,
    text,
    score_items, score_words, score_cost, score_phase, score_row, score_u, score_v, score_p,
    score_way, score_minv, score_used, score_j0, score_assign,
    history, frames, retune, clicks, pixels, head, filled, generation, rebuilds, texture,
    uploaded, uploadedRebuilds, picture,
    tree, density, screen, placements, layout_tab, layout_tx,
    input, band_stage, channel, qrm, marks, band_n, sounding,
    scrollback, evicted, trace_sequence, live, peak, updated, trace_heard,
    station, tap, in_flight, next_token, last_outcome, asked, settled, history_len,
    meter_history, read, selected,
    caps, operator_tab, typing, readout, devices, cursor, refreshes, outcome

-----------------------------------------------------------------------------
(* The instances the parts are checked on: sound cards, base calls for     *)
(* scripts, layouts, the bands and overs that are rendered, installations  *)
(* and radios.                                                             *)

\* Sound cards: what each offers, and its own default.
Offer(channels, min, max, rank) == [channels |-> channels, min |-> min, max |-> max, rank |-> rank]
Card(i) ==
    << [offers |-> {Offer(1, 44, 48, 1), Offer(2, 44, 48, 0)}, channels |-> 2, rate |-> 44],
       [offers |-> {Offer(2, 44, 44, 0)}, channels |-> 2, rate |-> 44],
       [offers |-> {Offer(1, 32, 96, 0)}, channels |-> 2, rate |-> 44] >>[i]
Cards == {Card(i) : i \in 1..3}

\* Base calls of three imagined entities.
BaseCalls == <<{"w1", "w2", "me"}, {"hq"}, {"x1", "x2"}>>

\* Layouts of three rows, with every way of sizing them.
Size(is, n) == [is |-> is, n |-> n]
Panel(k) == [is |-> "Panel", kind |-> k]
Split(direction, children) == [is |-> "Split", direction |-> direction, children |-> children]
Child(size, node) == [size |-> size, node |-> node]
PublishedLayouts ==
    LET sizes   == {Size("Fixed", 2), Size("Min", 4), Size("Fill", 2), Size("Natural", 0)}
        middles == {Panel("Spectrum"),
                    Split("Columns", <<Child(Size("Fixed", 2), Panel("AfFft")),
                                       Child(Size("Fill", 1), Panel("Spectrum"))>>)}
    IN  {Split("Rows", <<Child(s[1], Panel("MeterRail")), Child(s[2], middle), Child(s[3], Panel("Workspace"))>>) :
            s \in sizes \X sizes \X sizes, middle \in middles}

\* Bands with each kind of impairment, at its edges, and the overs heard on them.
Down(len) == [down |-> TRUE, len |-> len]
Up(len) == [down |-> FALSE, len |-> len]
Clear == [snr |-> <<>>, qsb |-> <<>>, qrn |-> <<>>, qrm |-> <<>>, rx |-> <<>>]
Qsb(chance, lo, hi) == <<[chance |-> chance, depth |-> <<0, 10>>, period |-> <<lo, hi>>]>>
Qrn(decay) == <<[chance |-> 100, rate |-> <<0, 0>>, level |-> <<0, 0>>, decay |-> <<decay, 2>>]>>
Qrm(lo) == <<[chance |-> 50, offset |-> <<lo, lo + 10>>, level |-> <<0, 0>>]>>
Bands == {
    Clear,
    [Clear EXCEPT !.qsb = Qsb(50, 4, 8), !.rx = <<50000>>],
    [Clear EXCEPT !.snr = <<<<190, 200>>>>, !.qsb = Qsb(100, 0, 30)],
    [Clear EXCEPT !.snr = <<<<20, 10>>>>],
    [Clear EXCEPT !.qrn = Qrn(0)],
    [Clear EXCEPT !.qrn = Qrn(1), !.snr = <<<<20, 20>>>>],
    [Clear EXCEPT !.qrm = Qrm(0)],
    [Clear EXCEPT !.qrm = Qrm(30000), !.qsb = Qsb(50, 10, 20)] }
Keyed(keying, start, qsb) == [keying |-> keying, pitch |-> 30000, start |-> start, level |-> 0, qsb |-> qsb]
Overs == {
    <<Keyed(<<Down(3), Up(1), Down(1), Up(2), Down(1)>>, 0, <<>>)>>,
    <<Keyed(<<Down(2)>>, 1, <<>>)>>,
    <<Keyed(<<Down(2), Up(1), Down(3)>>, 3, <<>>), Keyed(<<Down(1)>>, 0, <<[depth |-> 10, period |-> 10]>>)>> }

\* What is installed beside the radio, and radios with and without the optional controls.
Source(capability, s, origin) == [capability |-> capability, state |-> s, origin |-> origin]
Installations == {
    <<Source("IfTap", "Configured", "none")>>,
    <<Source("AudioDerived", "Streaming", "TapDemodulated"), Source("IfTap", "Streaming", "none"),
      Source("AudioDerived", "Configured", "RadioOutput")>> }
NoShift == -99
OperatorRadios == {
    [rx |-> <<5, 600>>, modes |-> <<"LSB", "CW">>, split |-> TRUE, memory |-> <<0, 3>>, menu |-> TRUE,
     widths |-> <<>>, shift |-> 11, notch |-> FALSE, signal |-> TRUE],
    [rx |-> <<5, 600>>, modes |-> <<"CW">>, split |-> FALSE, memory |-> <<>>, menu |-> FALSE,
     widths |-> <<5, 24>>, shift |-> NoShift, notch |-> TRUE, signal |-> FALSE] }

\* Stations are placed in every entity there is.
EveryEntity == DOMAIN Entities

Link == INSTANCE NativeLink WITH
    Fronts <- {"Connection", "Client"}, Streams <- {"spectrum"}, Kinds <- {"ReadState", "Retune"},
    MaxCommands <- 2, MaxVersions <- 1, MaxFrames <- 1, WireFrames <- 1,
    slot <- link_slot, dropped <- link_dropped, sent <- link_sent

Capture == INSTANCE AudioCapture WITH
    Devices <- Cards, WantedHz <- 48, Channel <- 1, Capacity <- 3, Blocks <- {1, 2}, MaxPush <- 4,
    MaxSamples <- 6,
    capture <- capture_capture, running <- capture_running, reader <- capture_reader, block <-
    capture_block, heard <- capture_heard, sequence <- capture_sequence, frame <- capture_frame,
    ended <- capture_ended, dropped <- capture_dropped

Playback == INSTANCE AudioPlayback WITH
    Cards <- {Card(1), Card(2)}, AskedHz <- 48, QueueCapacity <- 3, MaxFrames <- 2, MaxWrite <- 4,
    MaxTaken <- 5, MaxCalls <- 5,
    playback <- playback_playback, block <- playback_block

Sdr == INSTANCE RtlSdr WITH
    Endpoints <- {"device", "network"}, Rates <- {240000, 300001}, FftSizes <- {2, 4},
    Dials <- {3}, Trims <- {-5}, MaxBuffers <- 4, MaxSamples <- 8, MaxSets <- 2,
    running <- sdr_running, slot <- sdr_slot, dropped <- sdr_dropped, reader <- sdr_reader,
    stream <- sdr_stream, sent <- sdr_sent, heard <- sdr_heard, sequence <- sdr_sequence, frame
    <- sdr_frame

Qso == INSTANCE Qso WITH
    Calls <- BaseCalls, Own <- 1, MyBase <- "me", RareOnes <- {2, 3},
    Kinds <- {"RagChew", "Contest", "Pota", "Sota", "DxPileup", "DxChase"}, MaxCallers <- 3,
    MaxContacts <- 2,
    stage <- qso_stage, tx <- qso_tx

Decoder == INSTANCE MorseDecoder WITH
    Modes <- {"Fixed", "Auto"}, Stations <- {"a", "b"}, Quiet <- "-", WarmupHops <- 2,
    BufferHops <- 4, ReacquireHops <- 4, BlockHops <- 1, Need <- 1, BlipBelow <- 1, DahFrom <- 2,
    CarrierAbove <- 3, IntraMax <- 1, WordAbove <- 2, MaxHops <- 8,
    stream <- decoder_stream, ended <- decoder_ended

Keying == INSTANCE MorseKeying WITH
    Typed <- {"B", "t", "=", " ", "<", ">", "~"}, MaxTyped <- 4, Dash <- 3, LetterGap <- 3,
    WordGap <- 7

Score == INSTANCE Score WITH
    Sent <- {<<"A">>, <<"=", "A">>, <<"A", "B">>, <<"B", "A", "<BT>">>},
    Copied <- {<<"A">>, <<"B">>, <<"<BT>", "A">>, <<"A", "A">>}, MaxItems <- 2, MaxWords <- 3,
    OptimalMax <- 4, Inf <- 1000,
    items <- score_items, words <- score_words, cost <- score_cost, phase <- score_phase, row <-
    score_row, u <- score_u, v <- score_v, p <- score_p, way <- score_way, minv <- score_minv,
    used <- score_used, j0 <- score_j0, assign <- score_assign

Fall == INSTANCE Waterfall WITH
    Height <- 3, Duration <- 2, MaxFrames <- 6, MaxRetunes <- 2

Panels == INSTANCE Layout WITH
    Trees <- PublishedLayouts, Densities <- {1, 3}, Widths <- {5}, Heights <- {2, 3, 5, 8},
    tab <- layout_tab, tx <- layout_tx

Band == INSTANCE Band WITH
    Overs <- Overs, Bands <- Bands, Pitches <- {9999, 10000, 40000},
    Rates <- {90000, 100000, 200000}, QrmKeyings <- {<<Down(1), Up(1), Down(3)>>, <<Down(6)>>},
    Blocks <- {2, 5},
    stage <- band_stage, n <- band_n

Trace == INSTANCE Trace WITH
    Centers <- {0, 2},
    Spectra <- {<<>>, <<2, 0, 0>>, <<0, 3, 1>>, <<0, 0, 0, 0, 2>>, <<1, 0, 3, 0, 1>>},
    TraceWidths <- {3, 7}, Falls <- {0, 1}, Capacity <- 2, MaxFrames <- 3,
    sequence <- trace_sequence, heard <- trace_heard

Lanes == INSTANCE Lanes WITH
    Controls <- {"Mode", "Vfo"}, Stations <- Installations, Taps <- {TRUE}, Readings <- {7, 9},
    HistoryLens <- {1}, MaxCommands <- 3, MaxReadings <- 2

Operator == INSTANCE Operator WITH
    Radios <- OperatorRadios,
    Verbs <- {"quit", "freq", "tune", "mode", "mem", "shift", "split", "2", "what"},
    Numbers <- {-20, 0, 4}, ModeWords <- {"CW", "C4FM", "off"}, Offers <- {<<1, 0, 2>>, <<1>>},
    Nudge <- 10, MaxRefreshes <- 2,
    tab <- operator_tab

linkVars ==
    <<front, want, servesCw, offersDevices, version, newest, hostHas, attached, srv, session,
      unread, command, lastSent, up, down, cli, capCw, commands, inbox, link_slot, sinks,
      link_dropped, link_sent, answers, seen>>
captureVars ==
    <<capture_capture, device, format, capture_running, pushed, ring, closed, overruns, stop,
      params, capture_reader, capture_block, buffer, capture_heard, capture_sequence,
      capture_frame, capture_ended, capture_dropped, collected>>
playbackVars ==
    <<playback_playback, card, outFormat, lock, playback_block, samples, playing, stopped,
      underruns, busy, taken, cleared, played, calls>>
sdrVars ==
    <<endpoint, rate, inverted, state, worker, sdr_running, sdr_slot, sdr_dropped, made,
      sdr_reader, sdr_stream, sdr_sent, partial, bytes, sdr_heard, fftSize, dial, trim,
      sdr_sequence, sdr_frame, sets>>
callsignVars ==
    <<home, call, licence>>
qsoVars ==
    <<kind, qso_stage, stations, avoid, qso_tx, todo, waiting, count, worked>>
decoderVars ==
    <<mode, dec, decoder_stream, decoder_ended>>
keyingVars ==
    <<text>>
scoreVars ==
    <<score_items, score_words, score_cost, score_phase, score_row, score_u, score_v, score_p,
      score_way, score_minv, score_used, score_j0, score_assign>>
waterfallVars ==
    <<history, frames, retune, clicks, pixels, head, filled, generation, rebuilds, texture,
      uploaded, uploadedRebuilds, picture>>
layoutVars ==
    <<tree, density, screen, placements, layout_tab, layout_tx>>
bandVars ==
    <<input, band_stage, channel, qrm, marks, band_n, sounding>>
traceVars ==
    <<scrollback, evicted, trace_sequence, live, peak, updated, trace_heard>>
lanesVars ==
    <<station, tap, in_flight, next_token, last_outcome, asked, settled, history_len,
      meter_history, read, selected>>
operatorVars ==
    <<caps, operator_tab, typing, readout, devices, cursor, refreshes, outcome>>

Parts == {"link", "capture", "playback", "sdr", "callsign", "qso", "decoder", "keying", "score", "waterfall", "layout", "band", "trace", "lanes", "operator"}

\* A part that does not run has no state.
Off == "off"

SumInit ==
    /\ which \in Parts
    /\ IF which = "link" THEN Link!Init
       ELSE front = Off /\ want = Off /\ servesCw = Off /\ offersDevices = Off /\ version = Off /\
            newest = Off /\ hostHas = Off /\ attached = Off /\ srv = Off /\ session =
            Off /\ unread = Off /\ command = Off /\ lastSent = Off /\ up = Off /\ down =
            Off /\ cli = Off /\ capCw = Off /\ commands = Off /\ inbox = Off /\
            link_slot = Off /\ sinks = Off /\ link_dropped = Off /\ link_sent = Off /\
            answers = Off /\ seen = Off
    /\ IF which = "capture" THEN Capture!Init
       ELSE capture_capture = Off /\ device = Off /\ format = Off /\ capture_running = Off /\ pushed
            = Off /\ ring = Off /\ closed = Off /\ overruns = Off /\ stop = Off /\
            params = Off /\ capture_reader = Off /\ capture_block = Off /\ buffer = Off
            /\ capture_heard = Off /\ capture_sequence = Off /\ capture_frame = Off /\
            capture_ended = Off /\ capture_dropped = Off /\ collected = Off
    /\ IF which = "playback" THEN Playback!PlayInit
       ELSE playback_playback = Off /\ card = Off /\ outFormat = Off /\ lock = Off /\ playback_block
            = Off /\ samples = Off /\ playing = Off /\ stopped = Off /\ underruns = Off
            /\ busy = Off /\ taken = Off /\ cleared = Off /\ played = Off /\ calls = Off
    /\ IF which = "sdr" THEN Sdr!Init
       ELSE endpoint = Off /\ rate = Off /\ inverted = Off /\ state = Off /\ worker = Off /\
            sdr_running = Off /\ sdr_slot = Off /\ sdr_dropped = Off /\ made = Off /\
            sdr_reader = Off /\ sdr_stream = Off /\ sdr_sent = Off /\ partial = Off /\
            bytes = Off /\ sdr_heard = Off /\ fftSize = Off /\ dial = Off /\ trim = Off
            /\ sdr_sequence = Off /\ sdr_frame = Off /\ sets = Off
    /\ IF which = "callsign" THEN Init
       ELSE home = Off /\ call = Off /\ licence = Off
    /\ IF which = "qso" THEN Qso!Init
       ELSE kind = Off /\ qso_stage = Off /\ stations = Off /\ avoid = Off /\ qso_tx = Off /\ todo =
            Off /\ waiting = Off /\ count = Off /\ worked = Off
    /\ IF which = "decoder" THEN Decoder!Init
       ELSE mode = Off /\ dec = Off /\ decoder_stream = Off /\ decoder_ended = Off
    /\ IF which = "keying" THEN Keying!KeyingInit
       ELSE text = Off
    /\ IF which = "score" THEN Score!Init
       ELSE score_items = Off /\ score_words = Off /\ score_cost = Off /\ score_phase = Off /\
            score_row = Off /\ score_u = Off /\ score_v = Off /\ score_p = Off /\
            score_way = Off /\ score_minv = Off /\ score_used = Off /\ score_j0 = Off /\
            score_assign = Off
    /\ IF which = "waterfall" THEN Fall!FallInit
       ELSE history = Off /\ frames = Off /\ retune = Off /\ clicks = Off /\ pixels = Off /\ head =
            Off /\ filled = Off /\ generation = Off /\ rebuilds = Off /\ texture = Off
            /\ uploaded = Off /\ uploadedRebuilds = Off /\ picture = Off
    /\ IF which = "layout" THEN Panels!LayoutInit
       ELSE tree = Off /\ density = Off /\ screen = Off /\ placements = Off /\ layout_tab = Off /\
            layout_tx = Off
    /\ IF which = "band" THEN Band!BandInit
       ELSE input = Off /\ band_stage = Off /\ channel = Off /\ qrm = Off /\ marks = Off /\ band_n =
            Off /\ sounding = Off
    /\ IF which = "trace" THEN Trace!TraceInit
       ELSE scrollback = Off /\ evicted = Off /\ trace_sequence = Off /\ live = Off /\ peak = Off /\
            updated = Off /\ trace_heard = Off
    /\ IF which = "lanes" THEN Lanes!LanesInit
       ELSE station = Off /\ tap = Off /\ in_flight = Off /\ next_token = Off /\ last_outcome = Off
            /\ asked = Off /\ settled = Off /\ history_len = Off /\ meter_history = Off
            /\ read = Off /\ selected = Off
    /\ IF which = "operator" THEN Operator!OperatorInit
       ELSE caps = Off /\ operator_tab = Off /\ typing = Off /\ readout = Off /\ devices = Off /\
            cursor = Off /\ refreshes = Off /\ outcome = Off

SumNext ==
    /\ UNCHANGED which
    /\ IF which = "link" THEN Link!Next ELSE UNCHANGED linkVars
    /\ IF which = "capture" THEN Capture!Next ELSE UNCHANGED captureVars
    /\ IF which = "playback" THEN Playback!PlayNext ELSE UNCHANGED playbackVars
    /\ IF which = "sdr" THEN Sdr!Next ELSE UNCHANGED sdrVars
    /\ IF which = "callsign" THEN Next ELSE UNCHANGED callsignVars
    /\ IF which = "qso" THEN Qso!Next ELSE UNCHANGED qsoVars
    /\ IF which = "decoder" THEN Decoder!Next ELSE UNCHANGED decoderVars
    /\ IF which = "keying" THEN Keying!KeyingNext ELSE UNCHANGED keyingVars
    /\ IF which = "score" THEN Score!Next ELSE UNCHANGED scoreVars
    /\ IF which = "waterfall" THEN Fall!FallNext ELSE UNCHANGED waterfallVars
    /\ IF which = "layout" THEN Panels!LayoutNext ELSE UNCHANGED layoutVars
    /\ IF which = "band" THEN Band!BandNext ELSE UNCHANGED bandVars
    /\ IF which = "trace" THEN Trace!TraceNext ELSE UNCHANGED traceVars
    /\ IF which = "lanes" THEN Lanes!LanesNext ELSE UNCHANGED lanesVars
    /\ IF which = "operator" THEN Operator!OperatorNext ELSE UNCHANGED operatorVars

sumVars == <<
    which, linkVars, captureVars, playbackVars, sdrVars, callsignVars, qsoVars, decoderVars,
    keyingVars, scoreVars, waterfallVars, layoutVars, bandVars, traceVars, lanesVars,
    operatorVars >>

SumSpec == SumInit /\ [][SumNext]_sumVars

\* A console is told what the host did with its own command, a state it reads is no
\* older than its question, and no picture is shown after a newer one (native
\* server.rs serve_one, client.rs drain_frames and latest_spectrum).
ConsoleToldTheTruth ==
    /\ [](which = "link" => Link!RepliesInOrder /\ Link!ToldWhatHappened /\ Link!StateAsOfNow)
    /\ [][which = "link" => Link!PicturesAdvance]_sumVars

\* No sample of sound is lost uncounted, repeated or split: between the card and the
\* reader thread (ring.rs, stream.rs), and between a writer and the card (sink.rs);
\* and what is said of the card is what it runs at (capture.rs).
SoundAccountedFor ==
    /\ which = "capture" => Capture!AudioAccountedFor /\ Capture!FramesAccountedFor /\ Capture!FormatIsTrue
    /\ which = "playback" => Playback!PlayedAsWritten

\* A spectrum's bins are where the frame says, and no sample is lost uncounted or
\* paired with half of another (dsp.rs process, rtl_tcp.rs read, device.rs).
SpectrumIsTrue == which = "sdr" => Sdr!BinsWhereReported /\ Sdr!SamplesInOrder

\* A generated call says where its station is and who is licensed for it, and only
\* draws that belong to another entity are redrawn (callsign.rs station_call,
\* home_of, call_from).
CallsFitTheirStations ==
    which = "callsign" =>
        HomeAsSent /\ BaseIsLicence /\ OnlyCarveOutsRedrawn

\* A generated script is one that could be on the air: every request is answered,
\* nothing is used before it was sent, everybody is worked once and no two stations
\* share a call (qso.rs).
ScriptsMakeSense == which = "qso" => Qso!OversFollow /\ Qso!WorkedOnce /\ Qso!CallsDistinct /\ Qso!NoCountryman

\* The decoder writes nothing twice and, at a fixed pitch, loses nothing that was
\* keyed, across warm-up and changes of station (decoder.rs).
DecodedAsKeyed == which = "decoder" => Decoder!NothingTwice /\ Decoder!NothingLost

\* What is keyed reads back as what was written, what is copied exactly is charged
\* nothing, and a keying cut short is a prefix of it (timing.rs, codec.rs).
KeyedAsWritten ==
    which = "keying" => Keying!KeyedAsWritten /\ Keying!CopyReadsAsSent /\ Keying!CutIsAPrefix

\* Scoring charges the fewest errors any reading of the copy has, in order and out of
\* order (score.rs align, hungarian).
ChargedTheMinimum ==
    which = "score" => Score!AlignmentIsMinimal /\ Score!TotalIsMinimum /\ Score!PotentialsFeasible

\* The waterfall on the screen shows the frames kept, none missing or repeated, once
\* its uploads have caught up (app.rs waterfall_upload_plan).
NoRowLost == which = "waterfall" => Fall!NoRowLost

\* No cell of the terminal is drawn by two panels, none outside it, and none is left
\* out where the layout can fill it (cat-layout solve, draw_layout).
PanelsTile == which = "layout" => Panels!PanelsTile

\* A band that is accepted can be rendered, and it is rendered without key clicks
\* however the blocks are cut (band.rs validate, synth.rs).
BandIsRendered == which = "band" => Band!AcceptedIsRendered /\ Band!RampsApart

\* The spectrum display hides no signal, keeps one frequency axis for all its rows,
\* and holds only peaks that were heard (spectrum_map.rs, spectrum_trace.rs).
DisplayIsTrue == which = "trace" => Trace!NoSignalHidden /\ Trace!RowsAlign /\ Trace!PeakWasHeard

\* An answer settles its own command and no other, and a console's lanes claim no
\* source the station does not have (lanes.rs).
LanesAreTrue == which = "lanes" => Lanes!SettlesItsOwn /\ Lanes!LanesAreTrue

\* Whatever a line or a click sends the server accepts, and what the console refuses
\* the server would refuse (command.rs parse, validate).
ConsoleAgreesWithServer == which = "operator" => Operator!ConsoleAgreesWithServer
=============================================================================
