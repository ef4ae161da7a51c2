\* An exchange in flight at an abort fails.
CONSTANTS
    Consoles = {c1, c2}
    NoOne = NoOne
    Tickets = {t1, t2}
    NoTicket = NoTicket
    Jobs = {j1, j2}
    NoJob = NoJob
    Powers = {1, 2}
    LowPower = 1
    BreakIns = {0, 1}
    BreakInWanted = 1
    NeedsBreakIn = TRUE
    DrainOnly = TRUE
    BufferFlag = FALSE
    PacingMargin = 1
    ChunkTime = 2
    MaxText = 2
    MaxId = 1
    MaxChunks = 2
    LostWrites = {"SetPower", "SetBreakIn", "Stop"}
    DeafWrites = {"SetPower", "SetBreakIn"}
    PanelMoves = FALSE
SPECIFICATION Spec
INVARIANT StopNotDropped
