\* A server answers 404.
SPECIFICATION Spec
CONSTANTS
    s1 = s1
    h1 = h1
    h2 = h2
    p1 = p1
    p2 = p2
    Shorts = {s1}
    Long = Long
    Parts = 2
    HttpDlrs = {h1, h2}
    SmppDlrs = {p1, p2}
    Routes <- MCRoutes
    Scenes <- MCShortScene
    DlrId = DlrId
    None = None
    MaxRetries = 1
    MaxTakes = 2
    MaxRestarts = 0
INVARIANT NotFoundIsFinal
CHECK_DEADLOCK FALSE
