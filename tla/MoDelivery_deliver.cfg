\* Messages from the SMSC to their receivers, with failures and a restart.
SPECIFICATION FairSpec
CONSTANTS
    s1 = s1
    h1 = h1
    h2 = h2
    p1 = p1
    p2 = p2
    Shorts = {s1}
    Long = Long
    Parts = 2
    HttpDlrs = {h1, h2}
    SmppDlrs = {p1, p2}
    Routes <- MCRoutes
    Scenes <- MCScenes
    DlrId = DlrId
    None = None
    MaxRetries = 1
    MaxTakes = 2
    MaxRestarts = 1
INVARIANTS
    IInv
    WaitingHasTimer
    RetriesBounded
    OneTaker
PROPERTIES
    DoneIsFinal
    MessageSettles
CHECK_DEADLOCK FALSE
