SPECIFICATION LingeringSpec
CONSTANTS
    Clients = {c1, c2}
    IdleTimeout = 1
    MaxCycles = 2
PROPERTIES
    LeaseWaitEnds
