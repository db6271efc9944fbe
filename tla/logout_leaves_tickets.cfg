SPECIFICATION Spec
CONSTANTS
    w1 = w1
    w2 = w2
    Workers = {w1}
    Gui = gui
    Requests <- PinRequests
    MaxTgt = 2
    MaxRows = 2
    MaxRemovals = 1
    Faults = {}
PROPERTIES
    LogoutEndsSession
