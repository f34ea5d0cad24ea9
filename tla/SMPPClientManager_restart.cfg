\* Two messages, a connector that is started twice.
SPECIFICATION Spec
CONSTANTS
    m1 = m1
    m2 = m2
    l1 = l1
    l2 = l2
    Msgs = {m1, m2}
    Listeners = {l1}
    Nobody = Nobody
    RetriableErrors = {"ESME_RTHROTTLED"}
    RetrialCount <- MCRetrialCount
    RetrialDelay <- MCRetrialDelay
    NotReadyDelay = 30
    MaxRetrials = 3
    MaxCalls = 2
    MaxStarts = 2
SYMMETRY Symmetry
INVARIANTS
    IInv
    RetriesBounded
PROPERTIES
    SettledIsFinal
    TimersGiveMessagesBack
CHECK_DEADLOCK FALSE
