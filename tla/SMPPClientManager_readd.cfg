\* One message, a connector that is removed and added again, a fair reactor.
SPECIFICATION FairSpec
CONSTANTS
    m1 = m1
    m2 = m2
    l1 = l1
    l2 = l2
    Msgs = {m1}
    Listeners = {l1, l2}
    Nobody = Nobody
    RetriableErrors = {"ESME_RTHROTTLED", "ESME_RSYSERR"}
    RetrialCount <- MCRetrialCounts
    RetrialDelay <- MCRetrialDelays
    NotReadyDelay = 30
    MaxRetrials = 2
    MaxCalls = 1
    MaxStarts = 1
INVARIANTS
    NoStrandedDelivery
    ConsumerIsListenedTo
PROPERTIES
    EveryDeliverySettles
CHECK_DEADLOCK FALSE
