\* A username that goes from one uid to another.
SPECIFICATION Spec
CONSTANTS
    u1 = u1
    u2 = u2
    n1 = n1
    n2 = n2
    Sessions = {s1, s2, s3}
    Accounts <- MCPassedOn
    Quotas = {1}
    None = None
PROPERTY MaximumBound
CHECK_DEADLOCK FALSE
