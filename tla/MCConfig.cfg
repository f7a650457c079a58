SPECIFICATION Spec
CONSTANTS
    Servers = {1, 2, 3}
    BadIds = {3}
    MaxPermits = 1
    Documents <- MCDocuments
    Environments <- MCEnvironments
    Margin = 2
    MaxDuration = 10
    MaxTimer = 6
    DualStack = TRUE
INVARIANTS
    NoProxyLoop
    OneServerPerDirectory
    ListenersApart
