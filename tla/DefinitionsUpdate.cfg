SPECIFICATION FairSpec
CONSTANTS
    a = a
    b = b
    r1 = r1
    r2 = r2
    Ids = {a, b}
    Readers = {r1, r2}
    Releases <- Changing
    AutoUpdate = {TRUE, FALSE}
    IoFaults <- EveryStep
    MaxFaults = 2
PROPERTIES CacheEntriesStable LiveComesBack LastReleaseLands
CHECK_DEADLOCK FALSE
INVARIANTS LiveNeverPartial RunKeepsACopy
