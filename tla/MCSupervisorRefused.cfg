SPECIFICATION Spec
CONSTANTS
    Clients = {c1, c2}
    NoObservation = NoObservation
    MaxLogins = 3
    RconConfigured = TRUE
PROPERTY
    LoginWakesStoppedBackend
