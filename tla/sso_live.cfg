SPECIFICATION FairSpec
CONSTANTS
    w1 = w1
    w2 = w2
    Workers = {w1}
    Gui = gui
    Requests <- KeyRequests
    MaxTgt = 2
    MaxRows = 2
    MaxRemovals = 1
    Faults = {"expiry"}
INVARIANTS
    ErrorNamesFailedPhase
PROPERTIES
    EndedTicketSticks
    Answered
    RemovalLogsOut
