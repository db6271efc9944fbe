SPECIFICATION Spec
CONSTANTS
    w1 = w1
    w2 = w2
    Workers = {w1, w2}
    Gui = gui
    Requests <- PinRequests
    MaxTgt = 2
    MaxRows = 2
    MaxRemovals = 0
    Faults = {"http", "sql", "nullData", "expiry", "restart"}
SYMMETRY Symmetry
INVARIANTS
    TicketOfRequest
PROPERTIES
    ForgottenOnlyAfterRevoke
    ImplementsTicketStore
