\* Two messages in flight, billed in two instalments.
SPECIFICATION Spec
CONSTANTS
    m1 = m1
    m2 = m2
    o1 = o1
    o2 = o2
    Msgs = {m1, m2}
    Parts <- MCShort
    Objs = {o1, o2}
    None = None
    Rate = 2
    Quotas <- MCAsync
    Settings = {None, 3}
    Updates <- MCUpdates
    MaxAdmin = 0
INVARIANTS
    RequirementsCoverBill
CHECK_DEADLOCK FALSE
