----------------------------- MODULE Waterfall -----------------------------
(***************************************************************************)
(* The waterfall of the graphical console (cat-ui-egui): a ring of rows    *)
(* that a spectrum frame scrolls by one and that a retune redraws from the *)
(* history, and the copy of that ring on the GPU, brought up to date by a  *)
(* throttled upload and put the right way up by the two texture bands the  *)
(* draw call paints.  A row is the number of the frame it was painted      *)
(* from, 0 for a row nothing was painted on; the projection of a frame     *)
(* onto an axis and its colours are left out.                              *)
(*                                                                         *)
(* One egui draw is one step: Console::pump takes the newest frame if one  *)
(* arrived, and the spectrum panel is painted if its tab is in view.       *)
(***************************************************************************)
EXTENDS Integers, SequencesExt

CONSTANTS
    Height,        \* rows of the image and of its texture
    Duration,      \* how long a camera move lasts, in draw intervals
    MaxFrames,     \* bound: spectrum frames the host sends
    MaxRetunes     \* bound: clicks that tune

VARIABLES
    history,       \* Console.history: the frames kept, newest first
    frames,        \* how many frames have arrived
    retune,        \* Console.retune: elapsed time of the move, or NotMoving
    clicks,        \* clicks so far
    pixels,        \* WaterfallImage.pixels, a row at a time
    head,          \* WaterfallImage.head
    filled,        \* WaterfallImage.rows_filled
    generation,    \* WaterfallImage.generation
    rebuilds,      \* WaterfallImage.rebuilds
    texture,       \* Console.waterfall_texture: the rows on the GPU
    uploaded,      \* Console.waterfall_uploaded, or Never
    uploadedRebuilds,  \* Console.waterfall_rebuilds, or Never
    picture        \* what the panel last showed, top row first (<<>>: nothing)

image == <<pixels, head, filled, generation, rebuilds>>
gpu == <<texture, uploaded, uploadedRebuilds>>
fallVars == <<history, frames, retune, clicks, image, gpu, picture>>

RowsOf == 0 .. Height - 1
Blank == [r \in RowsOf |-> 0]
NotMoving == -1
Never == -1
NoTexture == <<>>

FallInit ==
    /\ history = <<>> /\ frames = 0
    /\ retune = NotMoving /\ clicks = 0
    /\ pixels = Blank /\ head = 0 /\ filled = 0
    /\ generation = 0 /\ rebuilds = 0
    /\ texture = NoTexture /\ uploaded = Never /\ uploadedRebuilds = Never
    /\ picture = <<>>

----------------------------------------------------------------------------
(* WaterfallImage *)

\* A frame becomes the newest row, one above the last modulo the height; the
\* first row of all goes to row 0.
PushHead == IF filled = 0 THEN 0 ELSE (head + Height - 1) % Height

Push(frame) ==
    /\ generation' = generation + 1
    /\ head' = PushHead
    /\ pixels' = [pixels EXCEPT ![PushHead] = frame]
    /\ filled' = IF filled < Height THEN filled + 1 ELSE Height
    /\ UNCHANGED rebuilds

\* Every row is painted again from the history, the newest on row 0.  The
\* landing of a move does it twice (rebuild_onto, then rebuild, which counts
\* itself and calls rebuild_onto again unless there is no frame).
Rebuild(kept, times) ==
    /\ generation' = generation + times
    /\ rebuilds' = rebuilds + times
    /\ head' = 0
    /\ pixels' = [r \in RowsOf |-> IF r < Len(kept) THEN kept[r + 1] ELSE 0]
    /\ filled' = IF Len(kept) < Height THEN Len(kept) ELSE Height

----------------------------------------------------------------------------
(* Console::advance_waterfall *)

\* The history keeps as many frames as the image has rows.
Kept(arrived) ==
    IF arrived
    THEN LET all == <<frames + 1>> \o history
         IN  SubSeq(all, 1, IF Len(all) < Height THEN Len(all) ELSE Height)
    ELSE history

\* While the view travels the whole image is redrawn on every draw; landing
\* redraws it once more on the newest frame's own axis.
Travel(dt) ==
    LET elapsed == retune + dt
        done == elapsed >= Duration
        again == IF history' = <<>> THEN 1 ELSE 2
    IN  /\ retune # NotMoving
        /\ retune' = IF done THEN NotMoving ELSE elapsed
        /\ Rebuild(history', IF done THEN 1 + again ELSE 1)

\* Otherwise a frame is one new row and the picture scrolls; a draw that saw
\* no frame pushes nothing.
Scroll(arrived) ==
    /\ retune = NotMoving
    /\ IF arrived THEN Push(Head(history')) ELSE UNCHANGED image
    /\ UNCHANGED retune

AdvanceWaterfall(arrived, dt) ==
    /\ arrived => frames < MaxFrames
    /\ history' = Kept(arrived)
    /\ frames' = frames + (IF arrived THEN 1 ELSE 0)
    /\ Travel(dt) \/ Scroll(arrived)

----------------------------------------------------------------------------
(* The upload and the picture: Console::spectrum *)

\* (mutant) Only the newest row goes up, whatever was pushed in between.
UploadPlanNewest(gen, reb, top) ==
    CASE texture = NoTexture \/ uploadedRebuilds # reb -> RowsOf
      [] gen = uploaded -> {}
      [] OTHER -> {top}

\* waterfall_upload_plan, as the set of texture rows to write.  Every row
\* pushed since the last upload is owed, in at most two runs: from head down
\* to the end of the ring, and on from its start.
UploadPlan(gen, reb, top) ==
    LET pending == gen - uploaded
        firstRun == IF pending < Height - top THEN pending ELSE Height - top
    IN  CASE texture = NoTexture \/ uploadedRebuilds # reb -> RowsOf
          [] pending >= Height -> RowsOf
          [] OTHER -> (top .. top + firstRun - 1) \cup (0 .. pending - firstRun - 1)

\* An upload happens when the image has changed and the interval is over,
\* and always when there is no texture yet.
Uploads(due) == (uploaded # generation' /\ due) \/ texture = NoTexture

Upload ==
    LET owed == UploadPlan(generation', rebuilds', head')
    IN  /\ texture' = [r \in RowsOf |-> IF r \in owed THEN pixels'[r] ELSE texture[r]]
        /\ uploaded' = generation'
        /\ uploadedRebuilds' = rebuilds'

\* ring_bands: texture rows top..end fill the upper part of the panel, rows
\* 0..top-1 the lower one.
Bands(top) ==
    IF top = 0
    THEN << [from |-> 0, count |-> Height] >>
    ELSE << [from |-> top, count |-> Height - top], [from |-> 0, count |-> top] >>

BandRows(rows, band) == [i \in 1 .. band.count |-> rows[band.from + i - 1]]

Shown(rows, top) == FlattenSeq([b \in DOMAIN Bands(top) |-> BandRows(rows, Bands(top)[b])])

\* The panel is painted only while its tab is in view and a frame has ever
\* arrived; the bands are those of the image's head, uploaded or not.
Paint(due) ==
    /\ history' # <<>>
    /\ IF Uploads(due) THEN Upload ELSE UNCHANGED gpu
    /\ picture' = Shown(texture', head')

Hidden(visible) ==
    /\ ~visible \/ history' = <<>>
    /\ UNCHANGED <<gpu, picture>>

\* One draw of the console.
Draw(arrived, visible, due, dt) ==
    /\ AdvanceWaterfall(arrived, dt)
    /\ (visible /\ Paint(due)) \/ Hidden(visible)
    /\ UNCHANGED clicks

\* A click on the picture starts a camera move, over again if one is running.
BeginRetune ==
    /\ clicks < MaxRetunes /\ picture # <<>>
    /\ clicks' = clicks + 1
    /\ retune' = 0
    /\ UNCHANGED <<history, frames, image, gpu, picture>>

FallNext ==
    \/ \E arrived, visible, due \in BOOLEAN, dt \in 1 .. Duration :
          Draw(arrived, visible, due, dt)
    \/ BeginRetune

FallSpec == FallInit /\ [][FallNext]_fallVars

----------------------------------------------------------------------------
(* Once an upload has brought the texture up to date, the bands on the     *)
(* screen show the frames the console kept, newest at the top and none     *)
(* missing or repeated, whatever was pushed or redrawn while uploads were  *)
(* throttled or the tab was hidden (waterfall_upload_plan: "Every row      *)
(* pushed since the last upload is owed, not just the newest").            *)
NoRowLost ==
    (texture # NoTexture /\ uploaded = generation) =>
        \A r \in 1 .. Height :
            Shown(texture, head)[r] = IF r <= Len(history) THEN history[r] ELSE 0

(* A draw that skips its upload leaves the picture of the last one: what   *)
(* the panel shows is always some run of consecutive frames, newest at the *)
(* top ("The throttle only coalesces: a draw that skips the upload leaves  *)
(* its row owed").                                                         *)
PictureInOrder ==
    \A r \in 1 .. Len(picture) - 1 :
        \/ picture[r + 1] = 0
        \/ picture[r] = picture[r + 1] + 1
=============================================================================
