\* Two responses that share a message-id and one receipt, fair.
SPECIFICATION FairSpec
CONSTANTS
    m1 = m1
    r1 = r1
    r2 = r2
    d1 = d1
    Msgs = {m1}
    Dlrs = {r1, r2, d1}
    KindOf <- MCKinds
    MsgOf <- MCMsgOf
    Requests = {"none", "http1", "http2", "http3", "all", "failure"}
    MaxRetries = 2
    ReceiptOnResp = TRUE
    Nothing = Nothing
INVARIANTS
    IInv
    TerminalAfterAccept
    AckedIsThrown
    LookedUpMaxRetries
PROPERTIES
    SettledDlrIsFinal
    EveryDlrSettles
CHECK_DEADLOCK FALSE
