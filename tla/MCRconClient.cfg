SPECIFICATION Spec
CONSTANTS
    MaxId = 3
    MaxParts = 2
    Counts = {0, 1}
    Unknown = Unknown
INVARIANTS
    FreshAnswer
    WholeAnswer
    LoggedInFirst
