----------------------------- MODULE DLRLookup -----------------------------
(***************************************************************************)
(* jasmin/managers/dlr.py: DLRLookup consumes the contents that            *)
(* SMPPClientSMListener publishes for every submit_sm_resp and for every   *)
(* receipt of the SMSC, finds the receipt request in Redis and publishes   *)
(* the receipt to a thrower.                                               *)
(*                                                                         *)
(* The consumer has no prefetch limit, so any number of lookups are in     *)
(* progress, each suspended in one Redis request.  The requests go through *)
(* a pool of connections, so they are executed in any order: at the step   *)
(* that handles the reply, or when the reply is lost.                      *)
(*                                                                         *)
(* Left out: the branches for a malformed map (DLRMapError, Exception),    *)
(* which no writer of the maps produces, and the loss of the AMQP link.    *)
(***************************************************************************)
EXTENDS Naturals

CONSTANTS
    Msgs,         \* submitted messages; the SMSC gives each of them one id
    Dlrs,         \* DLR contents
    KindOf,       \* the routing key of a content: "submit_sm_resp" or "deliver_sm"
    MsgOf,        \* the message a content is about
    Requests,     \* receipts a sender asks for, see AllRequests
    MaxRetries,   \* config.dlr_lookup_max_retries
    ReceiptOnResp,\* config.smpp_receipt_on_success_submit_sm_resp
    Nothing       \* not a content

Kinds == {"submit_sm_resp", "deliver_sm"}

\* httpN: dlr_level N through the HTTP API.  all, failure: the values of
\* registered_delivery of the SMPP server API.
AllRequests == {"none", "http1", "http2", "http3", "all", "failure"}

ASSUME LookupConstants ==
    /\ KindOf \in [Dlrs -> Kinds]
    /\ MsgOf \in [Dlrs -> Msgs]
    /\ Requests \subseteq AllRequests
    /\ MaxRetries \in Nat
    /\ ReceiptOnResp \in BOOLEAN
    /\ Nothing \notin Dlrs

VARIABLES
    submission,      \* "new", "queued" or, after the final response, "done"
    accepted,        \* messages answered with ESME_ROK
    request,         \* the receipt asked for
    hmsetPending,    \* messages whose dlr:<msgid> map is still to be written
    dlrMap,          \* messages with a dlr:<msgid> map in Redis
    queueMsgid,      \* messages with a queue-msgid:<smpp_msgid> map in Redis
    step,            \* where each content is
    status,          \* its body
    requeue_timers,  \* self.requeue_timers, Nothing for a missing key
    lookup_retrials, \* self.lookup_retrials, 0 for a missing key
    lookups,         \* history: lookups of each content
    thrown           \* history: contents published to a thrower, with their level

redisVars == <<hmsetPending, dlrMap, queueMsgid>>
senderVars == <<submission, accepted, request>>
vars == <<senderVars, redisVars, step, status, requeue_timers, lookup_retrials, lookups, thrown>>

\* UNDELIV stands for all final states but DELIVRD, ENROUTE for all states that are
\* neither final nor a success.
Success == {"ACCEPTD", "DELIVRD"}
Final == {"DELIVRD", "UNDELIV"}
RespStatuses == {"ESME_ROK", "error"}
ReceiptStatuses == Success \cup Final \cup {"ENROUTE"}

\* "get" and "get2": suspended in hgetall; "delete": in the removal of the dlr
\* map; "hmset" and "expire": in writing the queue-msgid map and in setting its
\* expiry; "parked": left to a timer.
Suspended == {"get", "get2", "delete", "hmset", "expire"}
Steps == {"none", "ready", "parked", "acked", "rejected"} \cup Suspended
Levels == {"1", "2", "smpps"}

\* Timers and counters are kept by message-id: the queue id for a response, the
\* id given by the SMSC for a receipt.
Keys == Kinds \X Msgs
Key(d) == <<KindOf[d], MsgOf[d]>>

Init ==
    /\ submission = [m \in Msgs |-> "new"]
    /\ accepted = {}
    /\ request \in [Msgs -> Requests]
    /\ hmsetPending = {}
    /\ dlrMap = {}
    /\ queueMsgid = {}
    /\ step = [d \in Dlrs |-> "none"]
    /\ status = [d \in Dlrs |-> "none"]
    /\ requeue_timers = [k \in Keys |-> Nothing]
    /\ lookup_retrials = [k \in Keys |-> 0]
    /\ lookups = [d \in Dlrs |-> 0]
    /\ thrown = {}

-----------------------------------------------------------------------------
(* The sender, the listener and the SMSC *)

\* The message is published before its map is written, and nothing waits for the
\* write, which is skipped when Redis is not connected.
perspective_submit_sm(m) ==
    /\ submission[m] = "new"
    /\ submission' = [submission EXCEPT ![m] = "queued"]
    /\ \/ request[m] # "none" /\ hmsetPending' = hmsetPending \cup {m}
       \/ UNCHANGED hmsetPending
    /\ UNCHANGED <<accepted, request, dlrMap, queueMsgid, step, status, requeue_timers,
                   lookup_retrials, lookups, thrown>>

\* The hmset is executed, or fails and is not tried again.
DlrMapWritten(m) ==
    /\ m \in hmsetPending
    /\ hmsetPending' = hmsetPending \ {m}
    /\ dlrMap' \in {dlrMap, dlrMap \cup {m}}
    /\ UNCHANGED <<senderVars, queueMsgid, step, status, requeue_timers, lookup_retrials,
                   lookups, thrown>>

\* The maps of a message expire, each on its own.
MapExpires(m) ==
    /\ \/ m \in dlrMap /\ dlrMap' = dlrMap \ {m} /\ UNCHANGED queueMsgid
       \/ m \in queueMsgid /\ queueMsgid' = queueMsgid \ {m} /\ UNCHANGED dlrMap
    /\ UNCHANGED <<senderVars, hmsetPending, step, status, requeue_timers, lookup_retrials,
                   lookups, thrown>>

\* Every submit_sm_resp is published, also that of a message to be retried.
submit_sm_resp_event(d) ==
    LET m == MsgOf[d]
    IN  /\ KindOf[d] = "submit_sm_resp"
        /\ step[d] = "none"
        /\ submission[m] = "queued"
        /\ \E s \in RespStatuses, retried \in BOOLEAN :
              /\ retried => s = "error"
              /\ status' = [status EXCEPT ![d] = s]
              /\ submission' = [submission EXCEPT ![m] = IF retried THEN @ ELSE "done"]
              /\ accepted' = IF s = "ESME_ROK" THEN accepted \cup {m} ELSE accepted
        /\ step' = [step EXCEPT ![d] = "ready"]
        /\ UNCHANGED <<request, redisVars, requeue_timers, lookup_retrials, lookups, thrown>>

\* The SMSC sends a receipt for a message it has been given, at any time.
deliver_sm_event(d) ==
    /\ KindOf[d] = "deliver_sm"
    /\ step[d] = "none"
    /\ submission[MsgOf[d]] # "new"
    /\ \E s \in ReceiptStatuses : status' = [status EXCEPT ![d] = s]
    /\ step' = [step EXCEPT ![d] = "ready"]
    /\ UNCHANGED <<senderVars, redisVars, requeue_timers, lookup_retrials, lookups, thrown>>

-----------------------------------------------------------------------------
(* The methods of DLRLookup the callbacks are built from *)

\* Mutant: the timer stays active.
NotCancelled(k) == requeue_timers' = requeue_timers

clearRequeueTimer(k) == requeue_timers' = [requeue_timers EXCEPT ![k] = Nothing]

\* rejectMessage(message) and ackMessage(message)
Settled(d, s) ==
    /\ step' = [step EXCEPT ![d] = s]
    /\ lookup_retrials' = [lookup_retrials EXCEPT ![Key(d)] = 0]
    /\ clearRequeueTimer(Key(d))

rejectMessage(d) == Settled(d, "rejected")
ackMessage(d) == Settled(d, "acked")

\* A timer found under the message-id is reset, whichever content it requeues.
rejectAndRequeueMessage(d) ==
    /\ step' = [step EXCEPT ![d] = "parked"]
    /\ requeue_timers' = [requeue_timers EXCEPT ![Key(d)] = IF @ = Nothing THEN d ELSE @]
    /\ UNCHANGED lookup_retrials

\* Mutant: one lookup too many.
RetryOnceMore(d) ==
    IF lookup_retrials[Key(d)] > 0 /\ lookup_retrials[Key(d)] =< MaxRetries
    THEN rejectAndRequeueMessage(d)
    ELSE rejectMessage(d)

\* The handlers of RedisError and, for receipts, of DLRMapNotFound.
RetryOrReject(d) ==
    IF lookup_retrials[Key(d)] > 0 /\ lookup_retrials[Key(d)] < MaxRetries
    THEN rejectAndRequeueMessage(d)
    ELSE rejectMessage(d)

Continue(d, s) ==
    /\ step' = [step EXCEPT ![d] = s]
    /\ UNCHANGED <<requeue_timers, lookup_retrials>>

\* Mutant: the content is not given back.
FiresWithoutReject(k) ==
    /\ requeue_timers[k] # Nothing
    /\ clearRequeueTimer(k)
    /\ UNCHANGED <<step, senderVars, redisVars, status, lookup_retrials, lookups, thrown>>

RequeueTimerFires(k) ==
    /\ requeue_timers[k] # Nothing
    /\ step' = [step EXCEPT ![requeue_timers[k]] = "ready"]
    /\ clearRequeueTimer(k)
    /\ UNCHANGED <<senderVars, redisVars, status, lookup_retrials, lookups, thrown>>

dlr_callback_dispatcher(d) ==
    /\ step[d] = "ready"
    /\ step' = [step EXCEPT ![d] = "get"]
    /\ lookup_retrials' = [lookup_retrials EXCEPT ![Key(d)] = @ + 1]
    /\ lookups' = [lookups EXCEPT ![d] = @ + 1]
    /\ UNCHANGED <<senderVars, redisVars, status, requeue_timers, thrown>>

\* Any Redis request may fail with a ConnectionError, and a write may have been
\* executed all the same.
RedisFails(d) ==
    /\ step[d] \in Suspended
    /\ RetryOrReject(d)
    /\ \/ UNCHANGED <<dlrMap, queueMsgid>>
       \/ step[d] = "hmset" /\ queueMsgid' = queueMsgid \cup {MsgOf[d]} /\ UNCHANGED dlrMap
       \/ step[d] = "delete" /\ dlrMap' = dlrMap \ {MsgOf[d]} /\ UNCHANGED queueMsgid
    /\ UNCHANGED <<senderVars, hmsetPending, status, lookups, thrown>>

-----------------------------------------------------------------------------
(* submit_sm_resp_dlr_callback *)

\* Is a receipt published for a response, and at which level?
RespThrown(r, s) ==
    CASE r \in {"http1", "http3"} -> {"1"}
      [] r \in {"all", "failure"} /\ s = "ESME_ROK" /\ ReceiptOnResp -> {"smpps"}
      [] r = "failure" /\ s # "ESME_ROK" -> {"smpps"}
      [] OTHER -> {}

RespRemovesMap(r, s) == r = "http1" \/ (r = "http3" /\ s # "ESME_ROK")

\* Mutant: the id is mapped whatever the response.
MapsAnyId(r, s) == r \notin {"none", "http1"}

RespMapsId(r, s) == r \notin {"none", "http1"} /\ s = "ESME_ROK"

submit_sm_resp_dlr_callback(d) ==
    LET m == MsgOf[d]
        r == request[m]
    IN  /\ KindOf[d] = "submit_sm_resp"
        /\ step[d] = "get"
        /\ IF m \notin dlrMap
           THEN rejectMessage(d) /\ UNCHANGED thrown
           ELSE /\ thrown' = thrown \cup ({d} \X RespThrown(r, status[d]))
                /\ IF RespRemovesMap(r, status[d]) THEN Continue(d, "delete")
                   ELSE IF RespMapsId(r, status[d]) THEN Continue(d, "hmset")
                   ELSE ackMessage(d)
        /\ UNCHANGED <<senderVars, redisVars, status, lookups>>

QueueMsgidMapped(d) ==
    /\ step[d] = "hmset"
    /\ queueMsgid' = queueMsgid \cup {MsgOf[d]}
    /\ Continue(d, "expire")
    /\ UNCHANGED <<senderVars, hmsetPending, dlrMap, status, lookups, thrown>>

QueueMsgidExpirySet(d) ==
    /\ step[d] = "expire"
    /\ ackMessage(d)
    /\ UNCHANGED <<senderVars, redisVars, status, lookups, thrown>>

DlrMapRemoved(d) ==
    /\ step[d] = "delete"
    /\ dlrMap' = dlrMap \ {MsgOf[d]}
    /\ ackMessage(d)
    /\ UNCHANGED <<senderVars, hmsetPending, queueMsgid, status, lookups, thrown>>

-----------------------------------------------------------------------------
(* deliver_sm_dlr_callback *)

ReceiptThrown(r, s) ==
    CASE r \in {"http2", "http3"} -> {"2"}
      [] r = "all" -> {"smpps"}
      [] r = "failure" /\ s \notin Success -> {"smpps"}
      [] OTHER -> {}

deliver_sm_dlr_callback(d) ==
    /\ KindOf[d] = "deliver_sm"
    /\ step[d] = "get"
    /\ IF MsgOf[d] \in queueMsgid THEN Continue(d, "get2") ELSE RetryOrReject(d)
    /\ UNCHANGED <<senderVars, redisVars, status, lookups, thrown>>

\* Mutant: a final receipt removes the map and is not published.
RemoveFirst(d) ==
    /\ step[d] = "get2"
    /\ IF MsgOf[d] \notin dlrMap THEN RetryOrReject(d) ELSE Continue(d, "delete")
    /\ UNCHANGED <<senderVars, redisVars, status, lookups, thrown>>

ReceiptMapFetched(d) ==
    LET levels == ReceiptThrown(request[MsgOf[d]], status[d])
    IN  /\ step[d] = "get2"
        /\ IF MsgOf[d] \notin dlrMap
           THEN RetryOrReject(d) /\ UNCHANGED thrown
           ELSE /\ thrown' = thrown \cup ({d} \X levels)
                /\ IF levels # {} /\ status[d] \in Final THEN Continue(d, "delete")
                   ELSE ackMessage(d)
        /\ UNCHANGED <<senderVars, redisVars, status, lookups>>

-----------------------------------------------------------------------------
\* A reply of Redis, or its failure.
Reply(d) ==
    \/ submit_sm_resp_dlr_callback(d)
    \/ QueueMsgidMapped(d)
    \/ QueueMsgidExpirySet(d)
    \/ DlrMapRemoved(d)
    \/ deliver_sm_dlr_callback(d)
    \/ ReceiptMapFetched(d)
    \/ RedisFails(d)

Next ==
    \/ \E m \in Msgs : perspective_submit_sm(m) \/ DlrMapWritten(m) \/ MapExpires(m)
    \/ \E d \in Dlrs :
          \/ submit_sm_resp_event(d)
          \/ deliver_sm_event(d)
          \/ dlr_callback_dispatcher(d)
          \/ Reply(d)
    \/ \E k \in Keys : RequeueTimerFires(k)

(***************************************************************************)
(* Redis answers or the connection fails, the broker delivers what is in   *)
(* the queue, and the reactor fires its timers.                            *)
(***************************************************************************)
Fairness ==
    /\ \A d \in Dlrs : WF_vars(dlr_callback_dispatcher(d)) /\ WF_vars(Reply(d))
    /\ \A k \in Keys : WF_vars(RequeueTimerFires(k))

Spec == Init /\ [][Next]_vars
FairSpec == Spec /\ Fairness

-----------------------------------------------------------------------------
(* Properties *)

\* The shape of the state.
TypeOK ==
    /\ submission \in [Msgs -> {"new", "queued", "done"}]
    /\ accepted \subseteq Msgs
    /\ request \in [Msgs -> AllRequests]
    /\ hmsetPending \subseteq Msgs
    /\ dlrMap \subseteq Msgs
    /\ queueMsgid \subseteq Msgs
    /\ step \in [Dlrs -> Steps]
    /\ status \in [Dlrs -> RespStatuses \cup ReceiptStatuses \cup {"none"}]
    /\ requeue_timers \in [Keys -> Dlrs \cup {Nothing}]
    /\ lookup_retrials \in [Keys -> Nat]
    /\ lookups \in [Dlrs -> Nat]
    /\ thrown \subseteq Dlrs \X Levels

\* A requeue timer belongs to a content that is parked and has that message-id,
\* also when several contents share the id: a timer never requeues a content that
\* was settled or is being looked up.
TimerHoldsItsDlr ==
    \A k \in Keys : requeue_timers[k] # Nothing =>
        step[requeue_timers[k]] = "parked" /\ Key(requeue_timers[k]) = k

\* A terminal receipt is published only for a message that the SMSC accepted, of
\* a sender who asked for terminal receipts, however the lookups of its responses
\* and receipts interleave and fail.
TerminalAfterAccept ==
    \A d \in Dlrs : KindOf[d] = "deliver_sm" /\ (\E l \in Levels : <<d, l>> \in thrown) =>
        MsgOf[d] \in accepted /\ request[MsgOf[d]] \notin {"none", "http1"}

\* What a content owes the sender: the SMSC level and the terminal level that a
\* dlr-level names, and, if smpp_receipt_on_success_submit_sm_resp is set, a receipt
\* to a sender of the SMPP server API "whenever a submit_sm_resp is received for a
\* message he sent and requested receipt for it" (misc/config/jasmin.cfg:280).
Owed(d) ==
    LET r == request[MsgOf[d]]
    IN  IF KindOf[d] = "submit_sm_resp"
        THEN {l \in Levels : \/ l = "1" /\ r \in {"http1", "http3"}
                             \/ l = "smpps" /\ r \in {"all", "failure"} /\ ReceiptOnResp}
        ELSE {l \in Levels : \/ l = "2" /\ r \in {"http2", "http3"}
                             \/ l = "smpps" /\ r = "all"
                             \/ l = "smpps" /\ r = "failure" /\ status[d] \notin Success}

\* The one content that the code acknowledges and does not serve, against that
\* line of jasmin.cfg: an error response to a sender who asked for all receipts
\* (dlr.py:278-281).
LeftOut(d) ==
    /\ KindOf[d] = "submit_sm_resp" /\ status[d] # "ESME_ROK"
    /\ request[MsgOf[d]] = "all"
Due(d) == {l \in Owed(d) : ~LeftOut(d)}

\* A content that was acknowledged has reached the throwers its sender asked for,
\* through any failures and retries of its lookup and of the other contents of its
\* message: but for that error response, nothing is acknowledged unserved.
AckedIsThrown ==
    \A d \in Dlrs : step[d] = "acked" => {d} \X Due(d) \subseteq thrown

\* What the lookups suspended after the first reply rest on: the id of a message is
\* mapped, or about to be, only after its ESME_ROK and for a sender who asked for
\* terminal receipts, and a lookup that is past its publication has published.
WantsTerminal(m) == m \in accepted /\ request[m] \notin {"none", "http1"}

LookupsInProgress ==
    /\ \A m \in queueMsgid : WantsTerminal(m)
    /\ \A d \in Dlrs :
          /\ KindOf[d] = "submit_sm_resp" /\ status[d] = "ESME_ROK" => MsgOf[d] \in accepted
          /\ step[d] = "get2" => KindOf[d] = "deliver_sm" /\ WantsTerminal(MsgOf[d])
          /\ step[d] = "hmset" => WantsTerminal(MsgOf[d])
          /\ step[d] = "none" => status[d] = "none" /\ \A l \in Levels : <<d, l>> \notin thrown
          /\ step[d] \in {"delete", "hmset", "expire", "acked"} =>
                \A l \in Due(d) : <<d, l>> \in thrown

\* The inductive invariant.
IInv == TypeOK /\ TimerHoldsItsDlr /\ TerminalAfterAccept /\ LookupsInProgress

\* The contents with whose message-id no other one was published so far.
Unshared == {d \in Dlrs : \A e \in Dlrs : Key(d) = Key(e) /\ step[e] # "none" => d = e}

\* A receipt is given up only after dlr_lookup_max_retries lookups, and no content
\* is looked up more often than that, unless it shares its message-id, and with
\* it the counter, with another one.
LookedUpMaxRetries ==
    \A d \in Unshared :
        /\ KindOf[d] = "deliver_sm" /\ step[d] = "rejected" => lookups[d] >= MaxRetries
        /\ lookups[d] =< MaxRetries \/ lookups[d] =< 1

\* Timer and counter of a message-id belong to the one content that has it: it is
\* parked with a timer, and the counter says how often it was looked up.
Own(d) ==
    /\ step[d] = "parked" => requeue_timers[Key(d)] = d
    /\ KindOf[d] = "deliver_sm" /\ step[d] = "rejected" => lookups[d] >= MaxRetries
    /\ lookups[d] =< MaxRetries \/ lookups[d] =< 1
    /\ step[d] \notin {"acked", "rejected"} => lookup_retrials[Key(d)] = lookups[d]
    /\ step[d] \in {"none", "ready", "parked"} => lookups[d] = 0 \/ lookups[d] < MaxRetries
    /\ step[d] \in Suspended => lookups[d] > 0
    /\ step[d] = "parked" => lookups[d] > 0

\* The inductive invariant of the contents that share no message-id.
UnsharedInv == IInv /\ \A d \in Unshared : Own(d)

\* A content that was acknowledged or rejected is not moved, looked up or published
\* again: not by a late timer, nor by another content of its message-id, with which it
\* shares the timer (clearRequeueTimer, rejectAndRequeueMessage).
SettledDlrIsFinal ==
    [][\A d \in Dlrs : step[d] \in {"acked", "rejected"} =>
          /\ step'[d] = step[d] /\ lookups'[d] = lookups[d]
          /\ \A l \in Levels : <<d, l>> \in thrown' => <<d, l>> \in thrown]_vars

\* Every content whose message-id is its own is acknowledged or rejected in the
\* end: from some moment on none is waiting, parked or being looked up.  Of two that
\* share it, one may be left without a timer (dlr.py:99-108).
EveryDlrSettles ==
    <>[](\A d \in Unshared : step[d] \in {"none", "acked", "rejected"})

=============================================================================
