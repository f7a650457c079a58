SPECIFICATION FairSpec
CONSTANTS
    Servers = {s1, s2}
    Connections = {k1, k2, k3}
    MaxConnections = 2
    Watcher = Watcher
INVARIANTS
    PermitsExact
    NothingLeftRunning
    ExactReport
PROPERTIES
    HandlersGoneBeforeStop
    FailureStopsDaemon
