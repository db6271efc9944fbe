SPECIFICATION Spec
CONSTANTS
    w1 = w1
    w2 = w2
    Workers = {w1}
    Gui = gui
    Requests <- UkeyRequests
    MaxTgt = 1
    MaxRows = 1
    MaxRemovals = 1
    Faults = {}
PROPERTIES
    KeyNotExistMeansNoKey
