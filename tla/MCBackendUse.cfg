SPECIFICATION FairSpec
CONSTANTS
    Clients = {c1, c2}
    IdleTimeout = 2
    MaxCycles = 2
INVARIANTS
    GateConsistent
    CountMatchesSessions
PROPERTIES
    NoStopUnderUse
    IdleLongEnough
    LeaseWaitEnds
    StatusDoesNotKeepAwake
