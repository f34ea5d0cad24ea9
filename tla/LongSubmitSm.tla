---------------------------- MODULE LongSubmitSm ----------------------------
(***************************************************************************)
(* Long messages on their way out.  SMPPOperationFactory cuts a message    *)
(* into parts that carry a reference number                                *)
(* (protocols/smpp/operations.py); SMPPClientProtocol sends the parts and  *)
(* makes one answer of theirs (protocols/smpp/protocol.py), for which the  *)
(* connector's listener waits and which decides whether the message is     *)
(* sent again (managers/listeners.py).  The outbound transactions of       *)
(* single PDUs are the SMPP library's.                                     *)
(***************************************************************************)
EXTENDS Integers, FiniteSets, FiniteSetsExt

CONSTANTS
    Msgs,           \* messages
    Contents,       \* message -> what it may be: coding and length in bytes
    MaxRef,         \* the last reference number, 255
    MaxParts,       \* long_content_max_parts
    MaxSends,       \* bound: times a message is sent
    None

ASSUME SubmitConstants ==
    /\ MaxRef \in Nat \ {0} /\ MaxParts \in Nat \ {0, 1} /\ MaxSends \in Nat \ {0}
    /\ \A m \in Msgs : \A c \in Contents[m] : c.bits \in {7, 8, 16} /\ c.len \in Nat /\ c # None
    /\ None \notin [msg : Msgs, nack_count : Int]

VARIABLES
    lastLongMsgRefNum,  \* of the factory
    content,            \* message -> its content, None before it is submitted
    ref,                \* message -> its reference number, 0 for none
    req,                \* message -> what the listener knows of it
    sends,              \* message -> how often it was sent
    outbound,           \* open outbound transactions, one for each part sent
    longSubmitSmTxns,   \* reference number -> transaction, or None
    connectionCorrupted,
    answered            \* history: parts of the last sending that were answered

vars == <<lastLongMsgRefNum, content, ref, req, sends, outbound, longSubmitSmTxns,
          connectionCorrupted, answered>>
factory == <<lastLongMsgRefNum, content, ref>>

Refs == 1 .. MaxRef

Init ==
    /\ lastLongMsgRefNum = 0
    /\ content = [m \in Msgs |-> None]
    /\ ref = [m \in Msgs |-> 0]
    /\ req = [m \in Msgs |-> "none"]
    /\ sends = [m \in Msgs |-> 0]
    /\ outbound = {}
    /\ longSubmitSmTxns = [r \in Refs |-> None]
    /\ connectionCorrupted = FALSE
    /\ answered = [m \in Msgs |-> {}]

-----------------------------------------------------------------------------
(* SMPPOperationFactory. *)

maxSmLength(bits) == CASE bits = 8 -> 140 [] bits = 16 -> 70 [] OTHER -> 160
slicedMaxSmLength(bits) == CASE bits = 8 -> 134 [] bits = 16 -> 67 [] OTHER -> 153

\* Bytes of a character of the coding, as the slices count them.
Width(bits) == IF bits = 16 THEN 2 ELSE 1

\* len / 2 may end in a half, which counts.
IsLong(c) == c.len > maxSmLength(c.bits) * Width(c.bits)

CeilDiv(a, b) == (a + b - 1) \div b

\* Mutant: a last part that is not full is left out.
FullSegments(c) ==
    IF ~IsLong(c) THEN 1
    ELSE Min({MaxParts, c.len \div (slicedMaxSmLength(c.bits) * Width(c.bits))})

total_segments(c) ==
    IF ~IsLong(c) THEN 1
    ELSE Min({MaxParts, CeilDiv(c.len, slicedMaxSmLength(c.bits) * Width(c.bits))})

\* The bytes of part k, as Python slices them: up to the end of the message.
Slice(c, k) ==
    LET w == slicedMaxSmLength(c.bits) * Width(c.bits)
    IN IF IsLong(c) THEN (w * (k - 1) + 1) .. Min({w * k, c.len}) ELSE 1 .. c.len

Segments(m) == 1 .. total_segments(content[m])

\* 255 is followed by 1.
claimLongMsgRefNum ==
    (IF lastLongMsgRefNum >= MaxRef THEN 0 ELSE lastLongMsgRefNum) + 1

\* A message is made and put in the connector's queue.
SubmitSM(m) ==
    /\ req[m] = "none"
    /\ \E c \in Contents[m] :
          /\ content' = [content EXCEPT ![m] = c]
          /\ IF IsLong(c)
             THEN /\ lastLongMsgRefNum' = claimLongMsgRefNum
                  /\ ref' = [ref EXCEPT ![m] = claimLongMsgRefNum]
             ELSE UNCHANGED <<lastLongMsgRefNum, ref>>
    /\ req' = [req EXCEPT ![m] = "queued"]
    /\ UNCHANGED <<sends, outbound, longSubmitSmTxns, connectionCorrupted, answered>>

\* The factory is the HTTP API's, and serves the messages of all connectors.
ClaimedElsewhere ==
    /\ lastLongMsgRefNum' = claimLongMsgRefNum
    /\ UNCHANGED <<content, ref, req, sends, outbound, longSubmitSmTxns, connectionCorrupted,
                   answered>>

-----------------------------------------------------------------------------
(* SMPPClientProtocol. *)

Part(m, k) == [msg |-> m, send |-> sends[m] + 1, part |-> k]

\* Mutant: one answer too few is waited for.
OneTooFew(m) == [msg |-> m, nack_count |-> Cardinality(Segments(m)) - 1]

\* A transaction waits for the answers of all parts.
startLongSubmitSmTransaction(m) == [msg |-> m, nack_count |-> Cardinality(Segments(m))]

\* The parts are sent.  The first one is sent before it is known whether the
\* reference number is free; if it is not, the others are not sent and the
\* listener puts the message back for later.
doSendRequest(m) ==
    /\ req[m] = "queued" /\ sends[m] < MaxSends /\ ~connectionCorrupted
    /\ sends' = [sends EXCEPT ![m] = @ + 1]
    /\ answered' = [answered EXCEPT ![m] = {}]
    /\ \/ /\ ~IsLong(content[m])
          /\ outbound' = outbound \cup {Part(m, 1)}
          /\ req' = [req EXCEPT ![m] = "sent"]
          /\ UNCHANGED longSubmitSmTxns
       \/ /\ IsLong(content[m]) /\ longSubmitSmTxns[ref[m]] = None
          /\ outbound' = outbound \cup {Part(m, k) : k \in Segments(m)}
          /\ longSubmitSmTxns' = [longSubmitSmTxns EXCEPT ![ref[m]] = startLongSubmitSmTransaction(m)]
          /\ req' = [req EXCEPT ![m] = "sent"]
       \/ /\ IsLong(content[m]) /\ longSubmitSmTxns[ref[m]] # None
          /\ outbound' = outbound \cup {Part(m, 1)}
          /\ req' = [req EXCEPT ![m] = "requeued"]
          /\ UNCHANGED longSubmitSmTxns
    /\ UNCHANGED <<factory, connectionCorrupted>>

\* On a corrupted connection the request raises, and the listener rejects
\* the message.
RefusedRequest(m) ==
    /\ req[m] = "queued" /\ sends[m] < MaxSends /\ connectionCorrupted
    /\ req' = [req EXCEPT ![m] = "rejected"]
    /\ UNCHANGED <<factory, sends, outbound, longSubmitSmTxns, connectionCorrupted, answered>>

closeLongSubmitSmTransaction(r) == [longSubmitSmTxns EXCEPT ![r] = None]

\* Mutant: the transaction stays open after its last answer.
LeftOpen(r, status) ==
    LET txn == longSubmitSmTxns[r] IN
    \/ txn = None /\ UNCHANGED <<longSubmitSmTxns, req>>
    \/ /\ txn # None
       /\ longSubmitSmTxns' = [longSubmitSmTxns EXCEPT ![r].nack_count = @ - 1]
       /\ req' = IF txn.nack_count <= 1 THEN [req EXCEPT ![txn.msg] = status] ELSE req

\* The answer to a part counts for the transaction that has its reference
\* number; the last one answers the request.  A response to no transaction
\* raises in the callback, which is logged.
endLongSubmitSmTransaction(r, status) ==
    LET txn == longSubmitSmTxns[r] IN
    \/ txn = None /\ UNCHANGED <<longSubmitSmTxns, req>>
    \/ /\ txn # None /\ txn.nack_count > 1
       /\ longSubmitSmTxns' = [longSubmitSmTxns EXCEPT ![r].nack_count = @ - 1]
       /\ UNCHANGED req
    \/ /\ txn # None /\ txn.nack_count <= 1
       /\ longSubmitSmTxns' = closeLongSubmitSmTransaction(r)
       /\ req' = [req EXCEPT ![txn.msg] = status]

\* A submit_sm_resp, whatever its status, ends the part's transaction.
endOutboundTransaction(t, status) ==
    /\ t \in outbound
    /\ outbound' = outbound \ {t}
    /\ answered' = IF t.send = sends[t.msg]
                   THEN [answered EXCEPT ![t.msg] = @ \cup {t.part}] ELSE answered
    /\ IF IsLong(content[t.msg])
       THEN endLongSubmitSmTransaction(ref[t.msg], status)
       ELSE /\ req' = [req EXCEPT ![t.msg] = status]
            /\ UNCHANGED longSubmitSmTxns
    /\ UNCHANGED <<factory, sends, connectionCorrupted>>

\* The end of a connection fails the requests that have a PDU among out, and the
\* long messages, and the listener rejects them.
FailRequests(out) ==
    /\ req' = [m \in Msgs |->
                 IF \/ \E r \in Refs : longSubmitSmTxns[r] # None /\ longSubmitSmTxns[r].msg = m
                    \/ /\ content[m] # None /\ ~IsLong(content[m])
                       /\ \E t \in out : t.msg = m
                 THEN "rejected" ELSE req[m]]
    /\ outbound' = {}
    /\ longSubmitSmTxns' = [r \in Refs |-> None]
    /\ UNCHANGED <<factory, sends, answered>>

\* A generic_nack is no submit_sm_resp: errback is called with two arguments,
\* which raises.  The PDU is left without an answer, and the error, raised to the
\* transport, ends the connection.
GenericNackReceived(t) ==
    /\ t \in outbound
    /\ FailRequests(outbound \ {t})
    /\ UNCHANGED connectionCorrupted

\* The library's timer of one PDU.  endLongSubmitSmTransactionErr raises
\* again for a part, which is logged.  The timers of the parts after the
\* first are set after the one of the transaction.
onResponseTimeout(t) ==
    /\ t \in outbound
    /\ t.part > 1 /\ t.send = sends[t.msg] => req[t.msg] # "sent"
    /\ outbound' = outbound \ {t}
    /\ req' = IF IsLong(content[t.msg]) THEN req ELSE [req EXCEPT ![t.msg] = "requeued"]
    /\ UNCHANGED <<factory, sends, longSubmitSmTxns, connectionCorrupted, answered>>

\* Mutant: the request is not told.
TimeoutUntold(r) ==
    /\ longSubmitSmTxns[r] # None
    /\ ~\E t \in outbound : t.msg = longSubmitSmTxns[r].msg /\ t.part = 1
    /\ longSubmitSmTxns' = closeLongSubmitSmTransaction(r)
    /\ UNCHANGED <<factory, req, sends, outbound, connectionCorrupted, answered>>

\* The listener puts a message that timed out back for later.
onLongSubmitSmTransactionTimeout(r) ==
    /\ longSubmitSmTxns[r] # None
    /\ ~\E t \in outbound : t.msg = longSubmitSmTxns[r].msg /\ t.part = 1
    /\ req' = [req EXCEPT ![longSubmitSmTxns[r].msg] = "requeued"]
    /\ longSubmitSmTxns' = closeLongSubmitSmTransaction(r)
    /\ UNCHANGED <<factory, sends, outbound, connectionCorrupted, answered>>

\* cancelLongSubmitSmTransactions, with the library's part of
\* cancelOutboundTransactions, on a connection found corrupted or lost.
cancelOutboundTransactions ==
    /\ ~connectionCorrupted
    /\ connectionCorrupted' \in BOOLEAN
    /\ FailRequests(outbound)

\* The factory connects again, with a new protocol.
Reconnect ==
    /\ connectionCorrupted
    /\ connectionCorrupted' = FALSE
    /\ UNCHANGED <<factory, req, sends, outbound, longSubmitSmTxns, answered>>

\* The listener's timer gives the message back, or its answer was an error
\* that is tried again.  The timers of the parts fire together with the one of
\* the transaction, so that by then those of a sending that timed out have fired.
Requeue(m) ==
    /\ req[m] \in {"requeued", "error"} /\ sends[m] < MaxSends
    /\ req[m] = "requeued" => \A t \in outbound : t.msg = m /\ t.send = sends[m] => t.part = 1
    /\ req' = [req EXCEPT ![m] = "queued"]
    /\ UNCHANGED <<factory, sends, outbound, longSubmitSmTxns, connectionCorrupted, answered>>

Response == \E t \in outbound : \/ \E status \in {"ok", "error"} : endOutboundTransaction(t, status)
                                \/ GenericNackReceived(t)

Next ==
    \/ \E m \in Msgs : SubmitSM(m) \/ doSendRequest(m) \/ RefusedRequest(m) \/ Requeue(m)
    \/ ClaimedElsewhere
    \/ Response
    \/ \E t \in outbound : onResponseTimeout(t)
    \/ \E r \in Refs : onLongSubmitSmTransactionTimeout(r)
    \/ cancelOutboundTransactions
    \/ Reconnect

Spec == Init /\ [][Next]_vars

\* Timers fire.
Fairness ==
    /\ WF_vars(\E t \in outbound : onResponseTimeout(t))
    /\ \A r \in Refs : WF_vars(onLongSubmitSmTransactionTimeout(r))

FairSpec == Spec /\ Fairness

-----------------------------------------------------------------------------
(* Properties. *)

\* The parts sent are the message, from its first byte to its last or to the
\* most that long_content_max_parts parts hold: no byte is in two parts,
\* none is left out, and no part is empty or too long to be sent with its
\* header (SMPPOperationFactory.SubmitSM).
PartsAreContent ==
    \A m \in Msgs : content[m] # None =>
        LET c == content[m]  w == slicedMaxSmLength(c.bits) * Width(c.bits) IN
        /\ \A k \in Segments(m) : c.len > 0 => Slice(c, k) # {}
        /\ \A k, l \in Segments(m) : k # l => Slice(c, k) \cap Slice(c, l) = {}
        /\ UNION {Slice(c, k) : k \in Segments(m)} =
               1 .. (IF IsLong(c) THEN Min({c.len, MaxParts * w}) ELSE c.len)
        /\ IsLong(c) => \A k \in Segments(m) :
               Cardinality(Slice(c, k)) + 6 <= maxSmLength(c.bits) * Width(c.bits)

\* The listener waits for a long message exactly while its transaction is
\* open, in one place: an answer, a time-out or a cancellation is told once
\* (closeLongSubmitSmTransaction and its three callers).
OpenIsAwaited ==
    \A m \in Msgs : content[m] # None /\ IsLong(content[m]) =>
        /\ req[m] = "sent" <=> longSubmitSmTxns[ref[m]] # None
                               /\ longSubmitSmTxns[ref[m]].msg = m
        /\ \A r \in Refs : longSubmitSmTxns[r] # None /\ longSubmitSmTxns[r].msg = m => r = ref[m]

Shared(m) == \E n \in Msgs \ {m} : ref[n] = ref[m]

\* A long message that was answered had every part answered, in this sending,
\* when no other message on the connector had its reference number
\* (endLongSubmitSmTransaction).
AllPartsAnswered ==
    \A m \in Msgs : req[m] \in {"ok", "error"} /\ ~(IsLong(content[m]) /\ Shared(m))
                       => answered[m] = Segments(m)

\* The listener is told of an answer only while it waits for one, and never of
\* anything for a message that it has acknowledged or rejected: late answers, timers
\* and the end of the connection do not reach a request that is over, also when
\* messages share a reference number (closeLongSubmitSmTransaction).
ToldOnce ==
    [][\A m \in Msgs :
          req'[m] # req[m] =>
              /\ req[m] \notin {"ok", "rejected"}
              /\ req'[m] \in {"ok", "error"} => req[m] = "sent"]_vars

\* A request for a long message is answered in the end, even when the answers
\* of some parts never come or are nacks (onLongSubmitSmTransactionTimeout,
\* cancelLongSubmitSmTransactions).
LongAnswered ==
    \A m \in Msgs : (req[m] = "sent" /\ IsLong(content[m])) ~> req[m] # "sent"
=============================================================================
