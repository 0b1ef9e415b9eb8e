SPECIFICATION Spec
CONSTANTS
    a = a
    b = b
    r1 = r1
    r2 = r2
    Ids = {a, b}
    Readers = {r1}
    Releases <- Same
    AutoUpdate = {TRUE}
    IoFaults = {}
    MaxFaults = 0
INVARIANT CacheFollowsLive
