\* Two rigctl clients and a queued command against polls of the dial, with every fault,
\* while readings grow old.
CONSTANTS
    Clients = {a, b}
    Pump = Pump
    Cmds = {x}
    Other = Other
    Fields = {"freq"}
    Values = {v, w}
    NoValue = NoValue
    MaxSets = 2
    PanelMoves = TRUE
    DeafSets = TRUE
    LostAcks = TRUE
    ReadsFail = TRUE
    TimePasses = TRUE
SPECIFICATION Spec
SYMMETRY Symmetry
INVARIANT CacheIsTrue
PROPERTY SkipIsSafe
