SPECIFICATION FairSpec
CONSTANTS
    Clients = {c1, c2}
    NoObservation = NoObservation
    MaxLogins = 4
    RconConfigured = TRUE
INVARIANTS
    AssertionsHold
    ProcessOwnership
    BackoffRespected
PROPERTIES
    StaleNeverCurrent
    ImplementsNapServer
    ShutdownCompletes
    DemandServed
