SPECIFICATION HFairSpec
CONSTANTS
    Procs = {p1, p2}
    Nobody = Nobody
    MaxCrashes = 3
    SlowCreator = FALSE
INVARIANTS
    HTypeOK
    LivePrimaryRecorded
    TornOnlyByCrash
    LockNotLost
    NothingLeftUnread
    LeadsToPrimary
PROPERTIES
    ImplementsElection
    LaunchSettles
    Announced
    EndedIsForgotten
