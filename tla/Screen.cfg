SPECIFICATION Spec
CONSTANTS
    Screens = {"indexers", "applications"}
    MaxId = 1
    Texts = {t1}
    Secrets = {s1}
    Keys = {k1, k2}
    Blank = Blank
    Absent = Absent
    NoKey = NoKey
    Untouched = Untouched
    MaxCalls = 2
    MaxTrouble = 1
SYMMETRY Alike
INVARIANTS AckedWritesAreShown FormSavesItsOwn DraftHoldsNoStoredSecret
PROPERTY FreshKeyKept
CHECK_DEADLOCK FALSE
