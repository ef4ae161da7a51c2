\* A command applied in a cycle whose poll fails or is left out.
CONSTANTS
    Clients = {a}
    Pump = Pump
    Cmds = {x}
    Other = Other
    Fields = {"freq"}
    Values = {v, w}
    NoValue = NoValue
    MaxSets = 1
    PanelMoves = FALSE
    DeafSets = FALSE
    LostAcks = FALSE
    ReadsFail = TRUE
    TimePasses = FALSE
SPECIFICATION Spec
INVARIANT ReadAfterApply
