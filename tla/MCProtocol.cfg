SPECIFICATION Spec
CONSTANTS
    G = 3
    Groups = 3
    Top = 2
    LengthGroups = 2
    StringUnits = 4
    NameUnits = 1
    PortBytes = 1
    UuidBytes = 2
    StampBytes = 1
    MaxLength = 6
    Limit = 2
INVARIANTS
    HandshakeExact
    LoginStartExact
    VarIntRoundTrip
    FramesExact
CHECK_DEADLOCK FALSE
