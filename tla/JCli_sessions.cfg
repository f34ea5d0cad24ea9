\* Two connections, six lines, two failing writes or starts.
SPECIFICATION JFairSpec
CONSTANTS
    u1 = u1
    u2 = u2
    n1 = n1
    g1 = g1
    f1 = f1
    s1 = s1
    s2 = s2
    Uids = {u1, u2}
    Usernames = {n1}
    Gids = {g1}
    Orders = {0, 1}
    Entries <- MCEntries
    Balances = {0, 1}
    Unreadable = Unreadable
    MaxCalls = 6
    MaxFaults = 2
    MaxRestarts = 0
    Conns = {c1, c2}
    Fids = {f1}
    Cids = {s1, s2}
    HttpCids = {h1}
    SystemIds = {}
    Scripts = {p1}
    None = None
    Profile <- MCProfile
    Uses <- MCUses
PROPERTIES
    AddedUserHasGroup
    UpdateRestarts
