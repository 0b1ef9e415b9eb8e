SPECIFICATION Spec
CONSTANTS
    h1 = h1
    h2 = h2
    p1 = p1
    p2 = p2
    Handlers = {p1, p2}
    Hosts = {h1}
    SeedApps <- OneFull
    IndexerKinds = {"cardigann"}
    AppLevels = {"addOnly", "fullSync"}
    BaseUrlMoves = FALSE
    HumanWhileBusy = TRUE
    FaultKinds = {"refused", "lost", "db", "gone"}
    MaxIndexers = 2
    MaxApps = 2
    MaxRequests = 3
    MaxFaults = 1
    MaxEdits = 1
SYMMETRY HandlerSymmetry
INVARIANTS MappingReferencesLiveRows MappingNamesOwnEntry
PROPERTIES OnlyFullSyncTouchesEntries EntriesTouchedByOwner
CHECK_DEADLOCK FALSE
