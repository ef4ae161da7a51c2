\* A radio without a stop (DrainOnly) that needs break-in.
CONSTANTS
    Consoles = {c1, c2}
    NoOne = NoOne
    Tickets = {t1, t2}
    NoTicket = NoTicket
    Jobs = {j1, j2}
    NoJob = NoJob
    Powers = {1, 2}
    LowPower = 1
    BreakIns = {0, 1}
    BreakInWanted = 1
    NeedsBreakIn = TRUE
    DrainOnly = TRUE
    BufferFlag = FALSE
    PacingMargin = 1
    ChunkTime = 2
    MaxText = 2
    MaxId = 2
    MaxChunks = 4
    LostWrites = {"SetPower", "SetBreakIn", "Stop"}
    DeafWrites = {"SetPower", "SetBreakIn"}
    PanelMoves = TRUE
SPECIFICATION Spec
SYMMETRY ConsoleSymmetry
INVARIANTS
    NeverRaisedUnderText
    ClampedWhileArmed
    PttFreeMeansRestored
    WaitersAreHeld
    IdOwedUntilSent
    DrainBounded
