SPECIFICATION Spec
CONSTANTS
    Procs = {p1, p2}
    Nobody = Nobody
    MaxCrashes = 0
    SlowCreator = TRUE
PROPERTIES
    StartMeansNoPrimary
