SPECIFICATION FairSpec
CONSTANTS
    Threads = {t1, t2}
    Jobs = {c1, c2, c3}
    NoJob = NoJob
    Ports = {3150, 3151}
    NoPort = 0
    Addrs = {"host"}
    NoAddr = "null"
    SavedPort = 3150
    SavedAddr = "host"
    KeepAlive = 1
    MaxConfirms = 2
    MaxFaults = 1
INVARIANTS
    TypeOK
    StopAssert
    WakeUpsSuffice
    ConfigLags
PROPERTIES
    ImplementsConnService
    AcceptedClosed
    ConfigTakesEffect
    DeathExplained
