SPECIFICATION FairSpec
CONSTANTS
    s1 = s1
    s2 = s2
    Sessions = {s1, s2}
    NoSession = NoSession
    MaxFrames = 2
INVARIANTS
    MemorySafe
    NothingLeaks
    IsValidMeansOpen
