\* Two users and two connections, every order of calls.
SPECIFICATION FairSpec
CONSTANTS
    u1 = u1
    u2 = u2
    n1 = n1
    n2 = n2
    Sessions = {s1, s2}
    Accounts <- MCAccounts
    Quotas = {1, None}
    None = None
INVARIANTS
    IInv
    CountsMatch
PROPERTIES
    BindWithinQuota
    BanEmpties
CHECK_DEADLOCK FALSE
