SPECIFICATION FairSpec
CONSTANTS
    Keys = {k1, k2}
    NoKey = NoKey
    Workers = {w1}
    Gui = gui
    MaxEvents = 3
    MaxPins = 2
    MaxMoves = 4
CHECK_DEADLOCK FALSE
INVARIANTS
    TypeOK
    FlagMeansPin
PROPERTIES
    ImplementsKeyGuard
    RemovalLowersFlag
    PinToKeyShown
