---------------------------- MODULE SMListener ----------------------------
(***************************************************************************)
(* The MT half of jasmin/managers/listeners.py: what SMPPClientSMListener  *)
(* does with the messages consumed from the broker queue submit.sm.<cid>.  *)
(*                                                                         *)
(* A connector that is removed and added again gets a new listener object, *)
(* while timers and callbacks of the old one live on in the reactor.       *)
(* Every field of the class is therefore indexed by the listener object.   *)
(*                                                                         *)
(* The broker holds the queue, hands out one unacknowledged delivery per   *)
(* consumer (basic_qos(prefetch_count=1)) and is external to the code, as  *)
(* is the local queue of the AMQP client on which the listeners call get().*)
(***************************************************************************)
EXTENDS Naturals, FiniteSets

CONSTANTS
    Msgs,             \* message-ids ever published to submit.sm.<cid>
    Listeners,        \* SMPPClientSMListener objects ever created for <cid>
    Nobody,           \* neither a listener nor a message
    RetriableErrors,  \* the keys of config.submit_error_retrial
    RetrialCount,     \* submit_error_retrial[error]['count']
    RetrialDelay,     \* submit_error_retrial[error]['delay'], 0 is falsy
    NotReadyDelay,    \* config.submit_retrial_delay_smppc_not_ready
    MaxRetrials       \* bound: deliveries of one message to one listener

ASSUME ListenerConstants ==
    /\ Nobody \notin Listeners \cup Msgs
    /\ RetrialCount \in [RetriableErrors -> Nat]
    /\ RetrialDelay \in [RetriableErrors -> Nat]
    /\ {"ESME_ROK", "other", "none"} \cap RetriableErrors = {}
    /\ NotReadyDelay \in Nat
    /\ MaxRetrials \in Nat

VARIABLES
    state,            \* where each message is: see MsgStates
    holder,           \* the listener that an unacknowledged delivery is with
    outstanding,      \* the delivery that uses up the prefetch of the consumer
    consuming,        \* the broker has a consumer SMPPClientFactory-<cid>
    getters,          \* pending get() calls of each listener on the local queue
    submit_sm_q,      \* the listener's submit_sm_q is not None
    submit_retrials,  \* self.submit_retrials, 0 for a missing key
    rejectTimers,     \* the keys of self.rejectTimers
    active,           \* the keys whose reject timer is still to fire
    session,          \* the SMPP session of the listener's SMPPClientFactory
    errRetries,       \* history: requeues made for each retriable error
    final             \* history: the status a message was acknowledged with

queueVars == <<state, holder, outstanding>>
timerVars == <<rejectTimers, active>>
historyVars == <<errRetries, final>>
listenerVars == <<queueVars, timerVars, historyVars, consuming, getters,
                  submit_sm_q, submit_retrials, session>>

(***************************************************************************)
(* "paused": submit_sm_callback sleeps in the QoS pause.  "sent": it waits *)
(* for the submit_sm_resp.  "parked": it has returned and left the message *)
(* unacknowledged, for a reject timer to requeue.  "unanswered": it waits  *)
(* for a response that nothing in the program will ever give it.           *)
(*                                                                         *)
(* "dialing": connecting and binding on behalf of startService, which still*)
(* waits for the outcome.  "redialing": the same behind its back.          *)
(***************************************************************************)
Unacked == {"paused", "sent", "parked", "unanswered"}
Settled == {"acked", "discarded"}
MsgStates == {"new", "ready"} \cup Unacked \cup Settled
Sessions == {"down", "dialing", "redialing", "bound", "closing"}
Statuses == {"ESME_ROK", "other"} \cup RetriableErrors

ListenerInit ==
    /\ state = [m \in Msgs |-> "new"]
    /\ holder = [m \in Msgs |-> Nobody]
    /\ outstanding = Nobody
    /\ consuming = FALSE
    /\ getters = [l \in Listeners |-> 0]
    /\ submit_sm_q = [l \in Listeners |-> FALSE]
    /\ submit_retrials = [l \in Listeners |-> [m \in Msgs |-> 0]]
    /\ rejectTimers = [l \in Listeners |-> {}]
    /\ active = [l \in Listeners |-> {}]
    /\ session = [l \in Listeners |-> "down"]
    /\ errRetries = [l \in Listeners |-> [m \in Msgs |-> [e \in RetriableErrors |-> 0]]]
    /\ final = [m \in Msgs |-> "none"]

-----------------------------------------------------------------------------
(* The methods the handlers are built from. *)

\* The broker takes the delivery of m back and moves m to state s.
Settle(m, s) ==
    /\ state' = [state EXCEPT ![m] = s]
    /\ holder' = [holder EXCEPT ![m] = Nobody]
    /\ outstanding' = IF outstanding = m THEN Nobody ELSE outstanding

rejectMessage(m, requeue) == Settle(m, IF requeue THEN "ready" ELSE "discarded")

ackMessage(m) == Settle(m, "acked")

clearRejectTimer(l, m) ==
    /\ rejectTimers' = [rejectTimers EXCEPT ![l] = @ \ {m}]
    /\ active' = [active EXCEPT ![l] = IF m \in rejectTimers[l] THEN @ \ {m} ELSE @]

\* Mutant: a timer already kept under this msgid is taken to be still pending.
RequeueOnOldTimer(l, m, delay) ==
    IF delay = 0
    THEN rejectMessage(m, TRUE) /\ UNCHANGED timerVars
    ELSE /\ rejectTimers' = [rejectTimers EXCEPT ![l] = @ \cup {m}]
         /\ active' = [active EXCEPT ![l] = IF m \in rejectTimers[l] THEN @ ELSE @ \cup {m}]
         /\ state' = [state EXCEPT ![m] = "parked"]
         /\ UNCHANGED <<holder, outstanding>>

\* The new timer replaces the one kept under the same msgid, which is cancelled.
rejectAndRequeueMessage(l, m, delay) ==
    IF delay = 0
    THEN rejectMessage(m, TRUE) /\ UNCHANGED timerVars
    ELSE /\ rejectTimers' = [rejectTimers EXCEPT ![l] = @ \cup {m}]
         /\ active' = [active EXCEPT ![l] = @ \cup {m}]
         /\ state' = [state EXCEPT ![m] = "parked"]
         /\ UNCHANGED <<holder, outstanding>>

\* delay=True: the timer is set whatever the connector's requeue_delay is.
RequeueDelay == 1

-----------------------------------------------------------------------------
(* submit_sm_callback *)

\* Mutant: the callback does not arm the next get().
CallbackOnce(l, m) ==
    /\ consuming
    /\ outstanding = Nobody
    /\ state[m] = "ready"
    /\ getters[l] > 0
    /\ submit_sm_q[l]
    /\ submit_retrials[l][m] < MaxRetrials
    /\ state' = [state EXCEPT ![m] = "paused"]
    /\ holder' = [holder EXCEPT ![m] = l]
    /\ outstanding' = m
    /\ getters' = [getters EXCEPT ![l] = @ - 1]
    /\ submit_retrials' = [submit_retrials EXCEPT ![l][m] = @ + 1]
    /\ UNCHANGED <<timerVars, historyVars, consuming, submit_sm_q, session>>

\* Mutant: each delivery starts the count anew.
CallbackRecounts(l, m) ==
    /\ consuming
    /\ outstanding = Nobody
    /\ state[m] = "ready"
    /\ getters[l] > 0
    /\ submit_sm_q[l]
    /\ submit_retrials[l][m] < MaxRetrials
    /\ state' = [state EXCEPT ![m] = "paused"]
    /\ holder' = [holder EXCEPT ![m] = l]
    /\ outstanding' = m
    /\ submit_retrials' = [submit_retrials EXCEPT ![l][m] = 1]
    /\ UNCHANGED <<timerVars, historyVars, consuming, getters, submit_sm_q, session>>

\* The broker delivers m and the local queue fires a pending get() of l: the
\* listener arms the next get() and counts the delivery.
submit_sm_callback(l, m) ==
    /\ consuming
    /\ outstanding = Nobody
    /\ state[m] = "ready"
    /\ getters[l] > 0
    /\ submit_sm_q[l]
    /\ submit_retrials[l][m] < MaxRetrials
    /\ state' = [state EXCEPT ![m] = "paused"]
    /\ holder' = [holder EXCEPT ![m] = l]
    /\ outstanding' = m
    /\ submit_retrials' = [submit_retrials EXCEPT ![l][m] = @ + 1]
    /\ UNCHANGED <<timerVars, historyVars, consuming, getters, submit_sm_q, session>>

\* The get() belongs to a listener whose submit_sm_q was reset to None: arming
\* the next get() raises, and the catch-all handler rejects the message.
CallbackWithoutQueue(l, m) ==
    /\ consuming
    /\ outstanding = Nobody
    /\ state[m] = "ready"
    /\ getters[l] > 0
    /\ ~submit_sm_q[l]
    /\ getters' = [getters EXCEPT ![l] = @ - 1]
    /\ rejectMessage(m, FALSE)
    /\ UNCHANGED <<timerVars, historyVars, consuming, submit_sm_q, submit_retrials, session>>

\* After the QoS pause: not a SubmitSM, expired in the queue, or TLVs that the
\* connector's rules refuse.
DiscardUnfit(m) ==
    /\ state[m] = "paused"
    /\ rejectMessage(m, FALSE)
    /\ UNCHANGED <<timerVars, historyVars, consuming, getters, submit_sm_q,
                   submit_retrials, session>>

\* After the QoS pause: the SMPP client is not connected or not bound.  The age
\* of the message decides whether it is discarded or requeued.
NotReady(m) ==
    /\ state[m] = "paused"
    /\ session[holder[m]] # "bound"
    /\ \/ rejectMessage(m, FALSE) /\ UNCHANGED timerVars
       \/ rejectAndRequeueMessage(holder[m], m, NotReadyDelay)
    /\ UNCHANGED <<historyVars, consuming, getters, submit_sm_q, submit_retrials, session>>

SendSubmitSm(m) ==
    /\ state[m] = "paused"
    /\ session[holder[m]] = "bound"
    /\ state' = [state EXCEPT ![m] = "sent"]
    /\ UNCHANGED <<holder, outstanding, timerVars, historyVars, consuming, getters,
                   submit_sm_q, submit_retrials, session>>

\* sendDataRequest raises LongSubmitSmTransactionError: the reference number of
\* this long message is still in use by another one.
LongSubmitSmBusy(m) ==
    /\ state[m] = "paused"
    /\ session[holder[m]] = "bound"
    /\ rejectAndRequeueMessage(holder[m], m, RequeueDelay)
    /\ UNCHANGED <<historyVars, consuming, getters, submit_sm_q, submit_retrials, session>>

\* No submit_sm_resp within the response timer: SMPPRequestTimoutError.
RequestTimeout(m) ==
    /\ state[m] = "sent"
    /\ rejectAndRequeueMessage(holder[m], m, RequeueDelay)
    /\ UNCHANGED <<historyVars, consuming, getters, submit_sm_q, submit_retrials, session>>

-----------------------------------------------------------------------------
(* submit_sm_resp_event *)

MustRetry(l, m, status) ==
    /\ status \in RetriableErrors
    /\ submit_retrials[l][m] < RetrialCount[status]

RespRetried(l, m, status) ==
    /\ MustRetry(l, m, status)
    /\ rejectAndRequeueMessage(l, m, RetrialDelay[status])
    /\ errRetries' = [errRetries EXCEPT ![l][m][status] = @ + 1]
    /\ UNCHANGED <<submit_retrials, final>>

\* The retrial counter is dropped, except for an error that is never retried.
RespFinal(l, m, status) ==
    /\ ~MustRetry(l, m, status)
    /\ submit_retrials' = IF status = "other" THEN submit_retrials
                          ELSE [submit_retrials EXCEPT ![l][m] = 0]
    /\ clearRejectTimer(l, m)
    /\ ackMessage(m)
    /\ final' = [final EXCEPT ![m] = status]
    /\ UNCHANGED errRetries

submit_sm_resp_event(m, status) ==
    /\ state[m] = "sent"
    /\ session[holder[m]] \in {"bound", "closing"}
    /\ \/ RespRetried(holder[m], m, status)
       \/ RespFinal(holder[m], m, status)
    /\ UNCHANGED <<consuming, getters, submit_sm_q, session>>

-----------------------------------------------------------------------------
\* The reactor calls rejectMessage(message, requeue=1); the key stays behind.
RejectTimerFires(l, m) ==
    /\ m \in active[l]
    /\ active' = [active EXCEPT ![l] = @ \ {m}]
    /\ rejectMessage(m, TRUE)
    /\ UNCHANGED <<rejectTimers, historyVars, consuming, getters, submit_sm_q,
                   submit_retrials, session>>

\* submit_sm_callback resumes after the pause, whatever it finds.
Resume(m) ==
    \/ DiscardUnfit(m)
    \/ NotReady(m)
    \/ SendSubmitSm(m)
    \/ LongSubmitSmBusy(m)

\* A request ends at the latest when its response timer fires, unless the
\* timer was cancelled: see SMPPClientManager!InvalidResponse.
EndRequest(m) ==
    \/ RequestTimeout(m)
    \/ \E status \in Statuses : submit_sm_resp_event(m, status)

ListenerNext ==
    \/ \E l \in Listeners, m \in Msgs :
          \/ submit_sm_callback(l, m)
          \/ CallbackWithoutQueue(l, m)
          \/ RejectTimerFires(l, m)
    \/ \E m \in Msgs : Resume(m) \/ EndRequest(m)

=============================================================================
