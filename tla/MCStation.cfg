SPECIFICATION SumSpec
CHECK_DEADLOCK FALSE
CONSTANTS
    FirstLetters = {"K", "A"}
    OtherLetters = {"A"}
    Countries <- EveryEntity
    Visitors = {257, 117}
INVARIANTS
    SoundAccountedFor
    SpectrumIsTrue
    CallsFitTheirStations
    ScriptsMakeSense
    
    KeyedAsWritten
    ChargedTheMinimum
    NoRowLost
    PanelsTile
    BandIsRendered
    
    LanesAreTrue
    ConsoleAgreesWithServer
 
