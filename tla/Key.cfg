SPECIFICATION FairSpec
CONSTANTS
    p1 = p1
    p2 = p2
    k1 = k1
    k2 = k2
    None = None
    Services = {p1, p2}
    Requests = {2}
    Keys = {k1, k2}
    MaxRotations = 1
    MaxFaults = 2
INVARIANT OneKey
PROPERTIES CallsReturn ImplementsCell
