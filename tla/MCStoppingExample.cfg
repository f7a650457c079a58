SPECIFICATION Spec
CONSTANTS
    CommandTimeout = 2
    ShutdownTimeout = 6
    Margin = 2
    ForcedReaping = 1
    UseRcon = TRUE
    ForeignServers = FALSE
INVARIANT
    CleanupFitsWatchdog
