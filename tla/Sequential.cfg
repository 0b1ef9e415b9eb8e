SPECIFICATION FairSpec
CONSTANTS
    h1 = h1
    h2 = h2
    p1 = p1
    p2 = p2
    Handlers = {p1}
    Hosts = {h1, h2}
    SeedApps <- OneFull
    IndexerKinds = {"cardigann", "torznab"}
    AppLevels = {"disabled", "addOnly", "fullSync"}
    BaseUrlMoves = FALSE
    HumanWhileBusy = FALSE
    FaultKinds = {"refused"}
    MaxIndexers = 2
    MaxApps = 2
    MaxRequests = 4
    MaxFaults = 1
    MaxEdits = 1
INVARIANT EveryEntryIsMapped
PROPERTIES SyncReportIsHonest RemovalLeavesNothing RequestsComplete
CHECK_DEADLOCK FALSE
