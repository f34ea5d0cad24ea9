\* A short and a long message, two calls of the administrator.
SPECIFICATION FairSpec
CONSTANTS
    m1 = m1
    m2 = m2
    o1 = o1
    o2 = o2
    Msgs = {m1, m2}
    Parts <- MCParts
    Objs = {o1, o2}
    None = None
    Rate = 2
    Quotas <- MCQuotas
    Settings = {None, 3}
    Updates <- MCUpdates
    MaxAdmin = 2
INVARIANTS
    IInv
    RefusedIsFree
    PaidInFull
PROPERTIES
    ImplementsAccount
    BillsSettle
CHECK_DEADLOCK FALSE
