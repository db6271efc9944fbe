SPECIFICATION Spec
CONSTANTS
    Procs = {p1, p2}
    Nobody = Nobody
    MaxCrashes = 1
    SlowCreator = FALSE
PROPERTIES
    CrashedBlockDeleted
