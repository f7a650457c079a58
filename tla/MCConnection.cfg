SPECIFICATION Spec
CONSTANTS
    G = 8
    Groups = 3
    Top = 2
    LengthGroups = 2
    StringUnits = 4
    NameUnits = 1
    PortBytes = 1
    UuidBytes = 1
    StampBytes = 1
    Streams <- MCStreams
    Versions <- MCVersions
    MaxHandshake = 6
    MaxLoginStart = 4
    MaxStatus = 3
    HandshakeTimeout = 2
    ProxyConnectTimeout = 4
    Attempt = 2
    Pause = 1
INVARIANTS
    TypeOK
    WakeEarned
    RightAnswer
    TurnedAwayAsked
    Verbatim
    InTime
PROPERTY
    Released
