SPECIFICATION Spec
CONSTANTS
    Screens = {"indexers"}
    MaxId = 1
    Texts = {t1}
    Secrets = {s1, s2}
    Keys = {k1}
    Blank = Blank
    Absent = Absent
    NoKey = NoKey
    Untouched = Untouched
    MaxCalls = 2
    MaxTrouble = 0
PROPERTY BlankKeepsStored
CHECK_DEADLOCK FALSE
