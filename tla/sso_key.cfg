SPECIFICATION Spec
CONSTANTS
    w1 = w1
    w2 = w2
    Workers = {w1, w2}
    Gui = gui
    Requests <- UkeyRequests
    MaxTgt = 3
    MaxRows = 3
    MaxRemovals = 1
    Faults = {"restart"}
SYMMETRY Symmetry
INVARIANTS
    TypeOK
    SignatureOverlap
    DuplicatesBounded
PROPERTIES
    NoLoginWithoutKey
    ImplementsKeyGuard
