\* Two messages of one to three parts; each is sent up to twice.
SPECIFICATION FairSpec
CONSTANTS
    m1 = m1
    m2 = m2
    Msgs = {m1, m2}
    Contents <- MCContents
    MaxRef = 2
    MaxParts = 3
    MaxSends = 2
    None = None
INVARIANTS
    PartsAreContent
    OpenIsAwaited
    AllPartsAnswered
PROPERTIES
    ToldOnce
    LongAnswered
CHECK_DEADLOCK FALSE
