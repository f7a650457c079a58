SPECIFICATION Spec
CONSTANTS
    CommandTimeout = 1
    ShutdownTimeout = 2
    Margin = 2
    ForcedReaping = 1
    UseRcon = TRUE
    ForeignServers = TRUE
INVARIANT
    OnlyOwnServerStopped
