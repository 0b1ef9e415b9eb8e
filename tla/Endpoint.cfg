SPECIFICATION FairEndpoint
CONSTANTS
    s1 = s1
    s2 = s2
    f1 = f1
    Searches = {s1, s2}
    Feeds = {f1}
    Listing <- Listings
    Unknown = Unknown
    Pages = 1
    Setups <- Accounts
    Sessions = {1, 2, 3, 4, 5, 6, 7}
    NoSession = 0
    MaxTrouble = 1
INVARIANT AnswerIsRanked
PROPERTIES AnswerIsHonest AskIsAnswered SearchEnds
