\* Liveness: one console, a keyer with a stop and a buffer flag, one chunk of text and
\* one of ID, fair pump and radio.
CONSTANTS
    Consoles = {c1}
    NoOne = NoOne
    Tickets = {t1}
    NoTicket = NoTicket
    Jobs = {j1}
    NoJob = NoJob
    Powers = {1, 2}
    LowPower = 1
    BreakIns = {0, 1}
    BreakInWanted = 1
    NeedsBreakIn = TRUE
    DrainOnly = FALSE
    BufferFlag = TRUE
    PacingMargin = 1
    ChunkTime = 1
    MaxText = 1
    MaxId = 1
    MaxChunks = 0
    LostWrites = {"SetPower", "SetBreakIn", "Stop"}
    DeafWrites = {"SetPower", "SetBreakIn"}
    PanelMoves = FALSE
SPECIFICATION FairSpec
PROPERTIES
    
    ShutdownSettles

