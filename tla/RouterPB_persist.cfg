\* Two users' worth of names, one group, four calls, a failing write, a restart.
SPECIFICATION FairSpec
CONSTANTS
    Uids = {u1, u2}
    Usernames = {n1}
    Gids = {g1}
    Orders = {0, 1}
    Entries <- MCEntries
    Balances = {0, 1}
    Unreadable = Unreadable
    MaxCalls = 4
    MaxFaults = 1
    MaxRestarts = 1
INVARIANTS
    IInv
    TableFlags
PROPERTIES
    LoadRestores
    ChargeReachesDisk
