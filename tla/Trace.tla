------------------------------- MODULE Trace -------------------------------
(***************************************************************************)
(* The scrollback of a spectrum lane (cat-ui/src/spectrum.rs), how a row of *)
(* it is projected onto display columns (spectrum_map.rs) and the live      *)
(* trace with its peak hold above the fall (spectrum_trace.rs).             *)
(*                                                                         *)
(* Frequencies are counted in bins: a frame whose centre is `center` has    *)
(* its bin b at center + b, and its span is its number of bins.  A level is *)
(* the 0.0-1.0 intensity of a bin, 0 the noise floor.                       *)
(***************************************************************************)
EXTENDS Integers, Sequences, FiniteSets, SequencesExt

CONSTANTS Centers,      \* centres a frame can have: where the dial may be
          Spectra,      \* a frame's bins: sequences of levels
          TraceWidths,  \* display widths, in columns
          Falls,        \* how far a peak falls between two frames
          Capacity,     \* the scrollback's capacity
          MaxFrames     \* bound on the frames that arrive

VARIABLES scrollback,   \* SpectrumHistory::frames, newest first
          evicted,      \* SpectrumHistory::dropped
          sequence,     \* the number of the newest frame
          live, peak,   \* Trace::live and Trace::peak
          updated,      \* Trace::updated is set
          heard         \* history: the rows the peak hold has seen

traceVars == <<scrollback, evicted, sequence, live, peak, updated, heard>>

NoData == -1

(* column_bins: the half-open range of bins, from 0, a column stands for. *)
ColumnBins(bins, column, width) ==
    LET first == (column * bins) \div width
        after == ((column + 1) * bins) \div width
        lo == IF first > bins - 1 THEN bins - 1 ELSE first
        hi == IF after > lo + 1 THEN after ELSE lo + 1
    IN  IF bins = 0 \/ width = 0 THEN {} ELSE lo .. (IF hi < bins THEN hi ELSE bins) - 1

(* bin_for_column: the strongest of them, the last where several are. *)
BinForColumn(bins, column, width) ==
    LET covered == ColumnBins(Len(bins), column, width)
    IN  IF covered = {} THEN NoData
        ELSE CHOOSE b \in covered :
                \A other \in covered : \/ bins[other + 1] < bins[b + 1]
                                       \/ bins[other + 1] = bins[b + 1] /\ other <= b

(* f64::round of num / den, half away from zero. *)
Rounded(num, den) ==
    IF num >= 0 THEN (2 * num + den) \div (2 * den) ELSE -((den - 2 * num) \div (2 * den))

(* projection_offset: how many columns to the right of the reference a frame lies. *)
ProjectionOffset(frame, reference, width) ==
    IF reference.bins = <<>> \/ width = 0 THEN 0
    ELSE Rounded((frame.center - reference.center) * width, Len(reference.bins))

(* sample_column: the bin of `frame` shown in a column of the axis of `reference`, or NoData. *)
SampleColumn(frame, reference, column, width) ==
    LET src == column - ProjectionOffset(frame, reference, width)
    IN  IF frame.bins = <<>> \/ src < 0 \/ src >= width THEN NoData
        ELSE BinForColumn(frame.bins, src, width)

LevelAt(frame, reference, column, width) ==
    LET bin == SampleColumn(frame, reference, column, width)
    IN  IF bin = NoData THEN NoData ELSE frame.bins[bin + 1]

(* SpectrumHistory::new promotes a capacity of zero to one. *)
Kept == IF Capacity = 0 THEN 1 ELSE Capacity

(* SpectrumHistory::push *)
Scrolled(frame) ==
    <<frame>> \o IF Len(scrollback) = Kept THEN Front(scrollback) ELSE scrollback

TraceInit ==
    /\ scrollback = <<>> /\ evicted = 0 /\ sequence = 0
    /\ live = <<>> /\ peak = <<>> /\ updated = FALSE /\ heard = <<>>

PeakAfterForgetting(held, value, fall) ==
    IF held = NoData \/ value >= held THEN value
    ELSE IF held - fall > 0 THEN held - fall ELSE NoData

(* One column's peak after a row: taken at once where louder, else falling. *)
PeakAfter(held, value, fall) ==
    IF held = NoData \/ value >= held THEN value
    ELSE IF value # NoData THEN (IF held - fall > value THEN held - fall ELSE value)
    ELSE IF held - fall > 0 THEN held - fall ELSE NoData

(* Trace::push_at.  A resize starts anew; the first row after a start falls the whole height. *)
PushTrace(frame, width, fall) ==
    LET resized == Len(live) # width
        row == [c \in 1 .. width |-> LevelAt(frame, frame, c - 1, width)]
        held == IF resized THEN [c \in 1 .. width |-> NoData] ELSE peak
        falls == IF resized \/ ~updated THEN 100 ELSE fall
    IN  /\ live' = row
        /\ peak' = [c \in 1 .. width |-> PeakAfter(held[c], row[c], falls)]
        /\ updated' = TRUE
        /\ heard' = (IF resized THEN <<>> ELSE heard) \o <<[frame |-> frame, width |-> width]>>

(* A frame arrives, `lost` of them having been dropped on the way. *)
Frame(center, bins, width, fall, lost) ==
    LET frame == [sequence |-> sequence + lost + 1, center |-> center, bins |-> bins]
    IN  /\ sequence + lost < MaxFrames
        /\ sequence' = frame.sequence
        /\ scrollback' = Scrolled(frame)
        /\ evicted' = evicted + IF Len(scrollback) = Kept THEN 1 ELSE 0
        /\ PushTrace(frame, width, fall)

(* Trace::clear, on a click that retunes. *)
ClearTrace ==
    /\ updated
    /\ live' = [c \in DOMAIN live |-> NoData]
    /\ peak' = [c \in DOMAIN peak |-> NoData]
    /\ updated' = FALSE /\ heard' = <<>>
    /\ UNCHANGED <<scrollback, evicted, sequence>>

(* SpectrumHistory::clear, when the source changes. *)
ClearHistory ==
    /\ scrollback # <<>>
    /\ scrollback' = <<>>
    /\ UNCHANGED <<evicted, sequence, live, peak, updated, heard>>

TraceNext ==
    \/ \E center \in Centers, bins \in Spectra, width \in TraceWidths, fall \in Falls, lost \in 0 .. 1 :
           Frame(center, bins, width, fall, lost)
    \/ ClearTrace
    \/ ClearHistory

TraceSpec == TraceInit /\ [][TraceNext]_traceVars

-----------------------------------------------------------------------------
(* No signal is hidden by the display (column_bins, bin_for_column): whatever the width, a bin of *)
(* the newest frame is no louder than the loudest column that stands for it, and the trace's      *)
(* columns stand for every bin there is.                                                          *)
NoSignalHidden ==
    updated =>
      LET bins == heard[Len(heard)].frame.bins
          width == Len(live)
      IN  \A b \in 1 .. Len(bins) :
            \E c \in 1 .. width :
               /\ b - 1 \in (((c - 1) * Len(bins)) \div width - 1) .. ((c * Len(bins)) \div width)
               /\ live[c] >= bins[b]

(* The fall's frequency axis is true for every row (projection_offset, sample_column): the bin an *)
(* older row shows in a column lies within one column's width of the frequency that column has on *)
(* the newest row's axis, however the dial moved in between.                                      *)
RowsAlign ==
    \A i \in DOMAIN scrollback, width \in TraceWidths :
      \A c \in 0 .. width - 1 :
        LET row == scrollback[i]
            newest == scrollback[1]
            bin == SampleColumn(row, newest, c, width)
        IN  (bin # NoData /\ Len(row.bins) = Len(newest.bins)) =>
              LET off == (row.center + bin - newest.center) * width - c * Len(newest.bins)
              IN  -Len(newest.bins) - width <= off /\ off <= 2 * Len(newest.bins) + width

(* The peak hold is what was heard (Trace::push_at): a column's peak is at least its live level,  *)
(* at most the loudest row since the trace was last cleared or resized, and never a level from    *)
(* other columns.                                                                                *)
PeakWasHeard ==
    \A c \in DOMAIN peak :
      /\ live[c] <= peak[c]
      /\ peak[c] # NoData =>
           \E i \in DOMAIN heard :
              LevelAt(heard[i].frame, heard[i].frame, c - 1, heard[i].width) >= peak[c]

(* A held peak is over the frequency it was heard at (begin_retune clears the hold so as not to   *)
(* "draw a signal above a part of the band it was never in").                                     *)
PeakWhereHeard ==
    \A c \in DOMAIN peak :
      peak[c] > 0 =>
        \E i \in DOMAIN heard :
           /\ heard[i].frame.center = heard[Len(heard)].frame.center
           /\ LevelAt(heard[i].frame, heard[i].frame, c - 1, heard[i].width) >= peak[c]
=============================================================================
