SPECIFICATION Spec
CONSTANTS
    a = a
    b = b
    r1 = r1
    r2 = r2
    Ids = {a, b}
    Readers = {}
    Releases <- Same
    AutoUpdate = {TRUE}
    IoFaults = {"swap"}
    MaxFaults = 1
INVARIANT FailedRunKeepsSet
