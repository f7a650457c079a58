SPECIFICATION FairSpec
CONSTANTS
    CommandTimeout = 4
    ShutdownTimeout = 3
    Margin = 2
    ForcedReaping = 1
    UseRcon = TRUE
    ForeignServers = TRUE
INVARIANTS
    StopWithinBudgets
    WatchdogPatient
    CleanStop
PROPERTIES
    GraceHonoured
    ShutdownReturns
