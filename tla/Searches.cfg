SPECIFICATION Spec
CONSTANTS
    s1 = s1
    s2 = s2
    Searches = {s1, s2}
    Pages = 2
    Setups <- Explored
    Sessions = {1, 2, 3, 4, 5, 6, 7}
    NoSession = 0
    MaxTrouble = 1
INVARIANTS OkIsComplete OneLoginPerPage CalmSearchHeals RacingSearchesHeal
