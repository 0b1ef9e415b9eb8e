SPECIFICATION Spec
CONSTANTS
    h1 = h1
    h2 = h2
    p1 = p1
    p2 = p2
    Handlers = {p1, p2}
    Hosts = {h1}
    SeedApps <- OneFull
    IndexerKinds = {"cardigann"}
    AppLevels = {"fullSync"}
    BaseUrlMoves = FALSE
    HumanWhileBusy = FALSE
    FaultKinds = {}
    MaxIndexers = 1
    MaxApps = 2
    MaxRequests = 2
    MaxFaults = 0
    MaxEdits = 0
INVARIANT DoomedAreListed
CHECK_DEADLOCK FALSE
