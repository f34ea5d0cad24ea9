---------------------- MODULE SMPPClientManagerProofs ----------------------
(***************************************************************************)
(* Proofs about SMPPClientManager for every number of messages, listeners, *)
(* retrial counts, delays and bounds.                                      *)
(***************************************************************************)
EXTENDS SMPPClientManager, TLAPS

-----------------------------------------------------------------------------
(* Type correctness *)

\* Connector is one of the listeners when there is a connector.
LEMMA ConnectorType ==
    ASSUME TypeOK, HasConnector
    PROVE  Connector \in Listeners
BY DEF TypeOK, HasConnector, Connector

\* The oldest suspended call is about one of the listeners.
LEMMA CallType ==
    ASSUME TypeOK, calls # <<>>
    PROVE  /\ Head(calls).lst \in Listeners
           /\ Head(calls) \in Calls
           /\ Tail(calls) \in Seq(Calls)
<1>1. calls \in Seq(Calls)
  BY DEF TypeOK
<1>2. Head(calls) \in Calls /\ Tail(calls) \in Seq(Calls)
  BY <1>1
<1>3. Head(calls).lst \in Listeners
  BY <1>2 DEF Calls
<1> QED BY <1>2, <1>3

\* A call record is well formed.
LEMMA CallRecord ==
    ASSUME NEW step \in CallSteps, NEW l \in Listeners
    PROVE  Call(step, l) \in Calls
BY DEF Call, Calls

\* Suspending one more call keeps the type of the queue of calls.
LEMMA AppendCall ==
    ASSUME TypeOK, NEW c \in Calls
    PROVE  Append(calls, c) \in Seq(Calls)
BY DEF TypeOK

\* Replacing one value of a set-valued function keeps its type.
LEMMA ExceptSubset ==
    ASSUME NEW S, NEW T, NEW f \in [S -> SUBSET T], NEW x \in S, NEW v \in SUBSET T
    PROVE  [f EXCEPT ![x] = v] \in [S -> SUBSET T]
OBVIOUS

\* Taking a delivery back keeps the types.
LEMMA SettleType ==
    ASSUME TypeOK, NEW m \in Msgs, NEW s \in MsgStates, Settle(m, s)
    PROVE  /\ state' \in [Msgs -> MsgStates]
           /\ holder' \in [Msgs -> Listeners \cup {Nobody}]
           /\ outstanding' \in Msgs \cup {Nobody}
BY DEF TypeOK, Settle

\* rejectAndRequeueMessage keeps the types, with and without a delay.
LEMMA RequeueType ==
    ASSUME TypeOK, NEW l \in Listeners, NEW m \in Msgs, NEW delay \in Nat,
           rejectAndRequeueMessage(l, m, delay)
    PROVE  /\ state' \in [Msgs -> MsgStates]
           /\ holder' \in [Msgs -> Listeners \cup {Nobody}]
           /\ outstanding' \in Msgs \cup {Nobody}
           /\ rejectTimers' \in [Listeners -> SUBSET Msgs]
           /\ active' \in [Listeners -> SUBSET Msgs]
<1>1. CASE delay = 0
  <2>1. Settle(m, "ready") /\ UNCHANGED timerVars
    BY <1>1 DEF rejectAndRequeueMessage, rejectMessage
  <2>2. "ready" \in MsgStates
    BY DEF MsgStates
  <2> QED BY <2>1, <2>2, SettleType, Zenon DEF timerVars, TypeOK
<1>2. CASE delay # 0
  <2>1. state' \in [Msgs -> MsgStates]
    BY <1>2, Zenon DEF rejectAndRequeueMessage, MsgStates, Unacked, TypeOK
  <2>2. rejectTimers' \in [Listeners -> SUBSET Msgs]
    <3>1. rejectTimers[l] \cup {m} \in SUBSET Msgs /\ rejectTimers \in [Listeners -> SUBSET Msgs]
      BY DEF TypeOK
    <3>2. rejectTimers' = [rejectTimers EXCEPT ![l] = rejectTimers[l] \cup {m}]
      BY <1>2 DEF rejectAndRequeueMessage
    <3> QED BY <3>1, <3>2, ExceptSubset
  <2>3. active' \in [Listeners -> SUBSET Msgs]
    <3>1. active[l] \cup {m} \in SUBSET Msgs /\ active \in [Listeners -> SUBSET Msgs]
      BY DEF TypeOK
    <3>2. active' = [active EXCEPT ![l] = active[l] \cup {m}]
      BY <1>2 DEF rejectAndRequeueMessage
    <3> QED BY <3>1, <3>2, ExceptSubset
  <2> QED BY <1>2, <2>1, <2>2, <2>3 DEF rejectAndRequeueMessage, TypeOK
<1> QED BY <1>1, <1>2

\* Stopping the SMPP service keeps the types.
LEMMA StopType ==
    ASSUME TypeOK, NEW l \in Listeners, stopService(l)
    PROVE  /\ running' \in [Listeners -> BOOLEAN]
           /\ session' \in [Listeners -> Sessions]
<1>1. AfterStop(session[l]) \subseteq Sessions
  BY DEF TypeOK, AfterStop, Dialing, Sessions
<1> QED BY <1>1 DEF TypeOK, stopService

\* What perspective_connector_stop does behind its basic_cancel keeps the types.
LEMMA StopRestType ==
    ASSUME TypeOK, NEW l \in Listeners, StopRest(l)
    PROVE  /\ state' \in [Msgs -> MsgStates]
           /\ holder' \in [Msgs -> Listeners \cup {Nobody}]
           /\ outstanding' \in Msgs \cup {Nobody}
           /\ rejectTimers' \in [Listeners -> SUBSET Msgs]
           /\ active' \in [Listeners -> SUBSET Msgs]
           /\ submit_sm_q' \in [Listeners -> BOOLEAN]
           /\ running' \in [Listeners -> BOOLEAN]
           /\ session' \in [Listeners -> Sessions]
<1>1. CASE running[l]
  <2> USE <1>1 DEF StopRest, StopRunning
  <2>1. state' \in [Msgs -> MsgStates]
    BY DEF TypeOK, MsgStates
  <2>2. holder' \in [Msgs -> Listeners \cup {Nobody}] /\ outstanding' \in Msgs \cup {Nobody}
    BY DEF TypeOK
  <2>3. rejectTimers' \in [Listeners -> SUBSET Msgs]
    BY Zenon DEF TypeOK
  <2>4. active' \in [Listeners -> SUBSET Msgs]
    <3>1. /\ active[l] \ (active[l] \cap rejectTimers[l]) \in SUBSET Msgs
          /\ active \in [Listeners -> SUBSET Msgs]
      BY DEF TypeOK
    <3>2. active' = [active EXCEPT ![l] = active[l] \ (active[l] \cap rejectTimers[l])]
      OBVIOUS
    <3> QED BY <3>1, <3>2, ExceptSubset
  <2>5. submit_sm_q' \in [Listeners -> BOOLEAN]
    BY Zenon DEF TypeOK
  <2>6. stopService(l)
    OBVIOUS
  <2> QED BY <2>1, <2>2, <2>3, <2>4, <2>5, <2>6, StopType
<1>2. CASE ~running[l]
  BY <1>2 DEF StopRest, TypeOK, queueVars, timerVars
<1> QED BY <1>1, <1>2

\* The retrial configuration gives a natural delay for every retriable error.
LEMMA DelayType ==
    /\ RequeueDelay \in Nat
    /\ NotReadyDelay \in Nat
    /\ \A e \in RetriableErrors : RetrialDelay[e] \in Nat /\ RetrialCount[e] \in Nat
BY ListenerConstants DEF RequeueDelay

\* Every step of the listener keeps the types.
LEMMA ListenerTypeStep ==
    ASSUME TypeOK, ListenerNext, UNCHANGED managerVars,
           \A m \in Msgs : state[m] \in Unacked => holder[m] \in Listeners
    PROVE  TypeOK'
<1> USE DelayType
<1>a. ASSUME NEW m \in Msgs, NEW s \in {"discarded", "ready", "acked"}, Settle(m, s)
      PROVE  /\ state' \in [Msgs -> MsgStates]
             /\ holder' \in [Msgs -> Listeners \cup {Nobody}]
             /\ outstanding' \in Msgs \cup {Nobody}
  <2>1. s \in MsgStates
    BY DEF MsgStates, Settled
  <2> QED BY <1>a, <2>1, SettleType
<1>1. ASSUME NEW l \in Listeners, NEW m \in Msgs, submit_sm_callback(l, m)
      PROVE  TypeOK'
  <2>1. /\ state' \in [Msgs -> MsgStates]
        /\ holder' \in [Msgs -> Listeners \cup {Nobody}]
        /\ outstanding' \in Msgs \cup {Nobody}
    BY <1>1 DEF TypeOK, submit_sm_callback, MsgStates, Unacked
  <2>2. submit_retrials' \in [Listeners -> [Msgs -> Nat]]
    BY <1>1 DEF TypeOK, submit_sm_callback
  <2> QED BY <1>1, <2>1, <2>2
          DEF TypeOK, submit_sm_callback, managerVars, timerVars, historyVars
<1>2. ASSUME NEW l \in Listeners, NEW m \in Msgs, CallbackWithoutQueue(l, m)
      PROVE  TypeOK'
  <2>1. Settle(m, "discarded")
    BY <1>2 DEF CallbackWithoutQueue, rejectMessage
  <2>2. getters' \in [Listeners -> Nat]
    BY <1>2 DEF CallbackWithoutQueue, TypeOK
  <2> QED BY <1>2, <1>a, <2>1, <2>2
          DEF TypeOK, CallbackWithoutQueue, managerVars, timerVars, historyVars
<1>3. ASSUME NEW l \in Listeners, NEW m \in Msgs, RejectTimerFires(l, m)
      PROVE  TypeOK'
  <2>1. Settle(m, "ready")
    BY <1>3 DEF RejectTimerFires, rejectMessage
  <2>2. active' \in [Listeners -> SUBSET Msgs]
    <3>1. active[l] \ {m} \in SUBSET Msgs /\ active \in [Listeners -> SUBSET Msgs]
      BY DEF TypeOK
    <3>2. active' = [active EXCEPT ![l] = active[l] \ {m}]
      BY <1>3 DEF RejectTimerFires
    <3> QED BY <3>1, <3>2, ExceptSubset
  <2> QED BY <1>3, <1>a, <2>1, <2>2
          DEF TypeOK, RejectTimerFires, managerVars, historyVars
<1>4. ASSUME NEW m \in Msgs, Resume(m)
      PROVE  TypeOK'
  <2>1. CASE DiscardUnfit(m)
    <3>1. Settle(m, "discarded")
      BY <2>1 DEF DiscardUnfit, rejectMessage
    <3> QED BY <1>a, <2>1, <3>1
            DEF TypeOK, DiscardUnfit, managerVars, timerVars, historyVars
  <2>2. CASE NotReady(m)
    <3>1. holder[m] \in Listeners
      BY <2>2 DEF NotReady, Unacked
    <3>2. CASE rejectMessage(m, FALSE) /\ UNCHANGED timerVars
      <4>1. Settle(m, "discarded")
        BY <3>2 DEF rejectMessage
      <4> QED BY <1>a, <2>2, <3>2, <4>1
              DEF TypeOK, NotReady, managerVars, timerVars, historyVars
    <3>3. CASE rejectAndRequeueMessage(holder[m], m, NotReadyDelay)
      BY <2>2, <3>1, <3>3, RequeueType, Zenon
      DEF TypeOK, NotReady, managerVars, historyVars
    <3> QED BY <2>2, <3>2, <3>3, Zenon DEF NotReady
  <2>3. CASE SendSubmitSm(m)
    <3>1. state' \in [Msgs -> MsgStates]
      BY <2>3, Zenon DEF TypeOK, SendSubmitSm, MsgStates, Unacked
    <3> QED BY <2>3, <3>1 DEF TypeOK, SendSubmitSm, managerVars, timerVars, historyVars
  <2>4. CASE LongSubmitSmBusy(m)
    <3>1. holder[m] \in Listeners
      BY <2>4 DEF LongSubmitSmBusy, Unacked
    <3> QED BY <2>4, <3>1, RequeueType, Zenon
            DEF TypeOK, LongSubmitSmBusy, managerVars, historyVars
  <2> QED BY <1>4, <2>1, <2>2, <2>3, <2>4 DEF Resume
<1>5. ASSUME NEW m \in Msgs, RequestTimeout(m)
      PROVE  TypeOK'
  <2>1. holder[m] \in Listeners
    BY <1>5 DEF RequestTimeout, Unacked
  <2> QED BY <1>5, <2>1, RequeueType, Zenon DEF TypeOK, RequestTimeout, managerVars, historyVars
<1>6. ASSUME NEW m \in Msgs, NEW status \in Statuses, submit_sm_resp_event(m, status)
      PROVE  TypeOK'
  <2>1. PICK l \in Listeners : l = holder[m]
    BY <1>6 DEF submit_sm_resp_event, Unacked
  <2>2. CASE RespRetried(l, m, status)
    <3>1. status \in RetriableErrors /\ RetrialDelay[status] \in Nat
      BY <2>2 DEF RespRetried, MustRetry
    <3>2. errRetries' \in [Listeners -> [Msgs -> [RetriableErrors -> Nat]]]
      BY <2>2, <3>1 DEF RespRetried, TypeOK
    <3> QED BY <1>6, <2>2, <3>1, <3>2, RequeueType, Zenon
            DEF TypeOK, submit_sm_resp_event, RespRetried, managerVars
  <2>3. CASE RespFinal(l, m, status)
    <3>1. Settle(m, "acked")
      BY <2>3 DEF RespFinal, ackMessage
    <3>2. submit_retrials' \in [Listeners -> [Msgs -> Nat]]
      BY <2>3 DEF RespFinal, TypeOK
    <3>3. rejectTimers' \in [Listeners -> SUBSET Msgs]
      <4>1. /\ rejectTimers[l] \ {m} \in SUBSET Msgs
            /\ rejectTimers \in [Listeners -> SUBSET Msgs]
        BY DEF TypeOK
      <4>2. rejectTimers' = [rejectTimers EXCEPT ![l] = rejectTimers[l] \ {m}]
        BY <2>3 DEF RespFinal, clearRejectTimer
      <4> QED BY <4>1, <4>2, ExceptSubset
    <3>4. active' \in [Listeners -> SUBSET Msgs]
      <4> DEFINE left == IF m \in rejectTimers[l] THEN active[l] \ {m} ELSE active[l]
      <4>1. left \in SUBSET Msgs /\ active \in [Listeners -> SUBSET Msgs]
        BY DEF TypeOK
      <4>2. active' = [active EXCEPT ![l] = left]
        BY <2>3 DEF RespFinal, clearRejectTimer
      <4> HIDE DEF left
      <4> QED BY <4>1, <4>2, ExceptSubset
    <3>5. final' \in [Msgs -> Statuses \cup {"none"}]
      BY <2>3 DEF RespFinal, TypeOK
    <3> QED BY <1>6, <1>a, <2>3, <3>1, <3>2, <3>3, <3>4, <3>5, Zenon
            DEF TypeOK, submit_sm_resp_event, RespFinal, managerVars
  <2> QED BY <1>6, <2>1, <2>2, <2>3 DEF submit_sm_resp_event
<1> QED BY <1>1, <1>2, <1>3, <1>4, <1>5, <1>6 DEF ListenerNext, EndRequest

\* A session that is lost, and a response of the wrong type, take the connection
\* of a listener down and leave none or one of its requests unanswered.
LEMMA LostCases ==
    ASSUME \A m \in Msgs : state[m] \in Unacked => holder[m] \in Listeners,
           \/ \E l \in Listeners : SessionLost(l)
           \/ \E m \in Msgs : InvalidResponse(m)
    PROVE  \E l \in Listeners, u \in SUBSET Msgs :
              (\A m \in u : state[m] = "sent") /\ ConnectionLost(l, u)
<1>1. ASSUME NEW l \in Listeners, SessionLost(l)
      PROVE  ConnectionLost(l, {}) /\ {} \in SUBSET Msgs /\ \A m \in {} : state[m] = "sent"
  BY <1>1 DEF SessionLost
<1>2. ASSUME NEW m \in Msgs, InvalidResponse(m)
      PROVE  /\ holder[m] \in Listeners /\ ConnectionLost(holder[m], {m})
             /\ {m} \in SUBSET Msgs /\ \A n \in {m} : state[n] = "sent"
  BY <1>2, Zenon DEF InvalidResponse, Unacked
<1> QED BY <1>1, <1>2, Zenon

\* Every step of the manager and of the SMPP service keeps the types.
LEMMA ManagerTypeStep ==
    ASSUME TypeOK, ManagerNext, \A m \in Msgs : state[m] \in Unacked => holder[m] \in Listeners
    PROVE  TypeOK'
<1> USE DEF queueVars, timerVars, historyVars
<1>1. ASSUME NEW l \in Listeners, AddCheck(l)
      PROVE  TypeOK'
  <2>1. Call("add", l) \in Calls
    BY CallRecord DEF CallSteps
  <2>2. calls' \in Seq(Calls) /\ created' \subseteq Listeners
    BY <1>1, <2>1 DEF AddCheck, TypeOK
  <2> QED BY <1>1, <2>2 DEF AddCheck, TypeOK, listenerVars
<1>2. ASSUME NEW l \in Listeners, SessionBound(l) \/ DialFails(l)
      PROVE  TypeOK'
  <2>1. session' \in [Listeners -> Sessions]
    BY <1>2, Zenon DEF SessionBound, DialFails, Disconnected, TypeOK, Sessions
  <2> QED BY <1>2, <2>1, Zenon DEF SessionBound, DialFails, TypeOK, managerVars
<1>3. ASSUME NEW l \in Listeners, StartServiceErr(l)
      PROVE  TypeOK'
  BY <1>3 DEF StartServiceErr, TypeOK, Sessions
<1>4a. ASSUME NEW l \in Listeners, NEW u \in SUBSET Msgs,
              \A m \in u : state[m] = "sent", ConnectionLost(l, u)
       PROVE  TypeOK'
  <2>1. session' \in [Listeners -> Sessions]
    BY <1>4a DEF ConnectionLost, Disconnected, TypeOK, Sessions
  <2>2. state' \in [Msgs -> MsgStates]
    BY <1>4a DEF ConnectionLost, TypeOK, MsgStates, Unacked, Settled
  <2>3. holder' \in [Msgs -> Listeners \cup {Nobody}] /\ outstanding' \in Msgs \cup {Nobody}
    BY <1>4a DEF ConnectionLost, TypeOK
  <2> QED BY <1>4a, <2>1, <2>2, <2>3 DEF ConnectionLost, TypeOK, managerVars
<1>4. ASSUME (\E l \in Listeners : SessionLost(l)) \/ (\E m \in Msgs : InvalidResponse(m))
      PROVE  TypeOK'
  BY <1>4, <1>4a, LostCases
<1>0. CASE AddRoundTrip
  <2>1. calls' \in Seq(Calls)
    BY <1>0, CallType DEF AddRoundTrip
  <2> QED BY <1>0, <2>1 DEF AddRoundTrip, TypeOK, listenerVars
<1>5. CASE AddDone
  <2>1. connectors' \in Seq(Listeners) /\ calls' \in Seq(Calls)
    BY <1>5, CallType DEF AddDone, TypeOK
  <2> QED BY <1>5, <2>1 DEF AddDone, TypeOK, listenerVars
<1>6. CASE StartCall
  <2> DEFINE step == IF consumer_tag[Connector] THEN "start.cancel" ELSE "start.consume"
  <2>1. Connector \in Listeners
    BY <1>6, ConnectorType, Zenon DEF StartCall
  <2>2. Call(step, Connector) \in Calls
    BY <2>1, CallRecord DEF CallSteps
  <2>3. calls' = Append(calls, Call(step, Connector))
    BY <1>6, Zenon DEF StartCall
  <2> HIDE DEF step
  <2>4. calls' \in Seq(Calls)
    BY <2>2, <2>3 DEF TypeOK
  <2>5. startCounter' \in [Listeners -> Nat] /\ running' \in [Listeners -> BOOLEAN]
    BY <1>6, <2>1 DEF StartCall, TypeOK
  <2>6. session' \in [Listeners -> Sessions]
    BY <1>6, <2>1 DEF StartCall, TypeOK, Sessions
  <2> QED BY <1>6, <2>4, <2>5, <2>6 DEF StartCall, TypeOK
<1>7. CASE StartCancelled
  <2>1. Head(calls).lst \in Listeners /\ Tail(calls) \in Seq(Calls)
    BY <1>7, CallType, Zenon DEF StartCancelled
  <2>2. Call("start.consume", Head(calls).lst) \in Calls
    BY <2>1, CallRecord DEF CallSteps
  <2>3. calls' \in Seq(Calls)
    BY <1>7, <2>1, <2>2 DEF StartCancelled
  <2> QED BY <1>7, <2>3, Zenon DEF StartCancelled, TypeOK
<1>8. CASE StartConsumed
  <2>1. PICK l \in Listeners : l = Head(calls).lst
    BY <1>8, CallType DEF StartConsumed
  <2>2. calls' \in Seq(Calls)
    BY <1>8, CallType DEF StartConsumed
  <2>3. CASE consuming
    BY <1>8, <2>2, <2>3, Zenon DEF StartConsumed, TypeOK
  <2>4. CASE ~consuming
    <3>1. /\ getters' = [getters EXCEPT ![l] = @ + 1]
          /\ submit_sm_q' = [submit_sm_q EXCEPT ![l] = TRUE]
          /\ consumer_tag' = [consumer_tag EXCEPT ![l] = TRUE]
          /\ consuming' = TRUE /\ outstanding' = Nobody
      BY <1>8, <2>1, <2>4, Zenon DEF StartConsumed
    <3>2. getters' \in [Listeners -> Nat]
      <4>1. getters \in [Listeners -> Nat]
        BY Zenon DEF TypeOK
      <4> QED BY <3>1, <4>1
    <3>3. submit_sm_q' \in [Listeners -> BOOLEAN] /\ consumer_tag' \in [Listeners -> BOOLEAN]
      <4>1. submit_sm_q \in [Listeners -> BOOLEAN] /\ consumer_tag \in [Listeners -> BOOLEAN]
        BY Zenon DEF TypeOK
      <4> QED BY <3>1, <4>1
    <3> QED BY <1>8, <2>2, <3>1, <3>2, <3>3, Zenon DEF StartConsumed, TypeOK
  <2> QED BY <2>3, <2>4
<1>9. CASE StopCall
  <2>1. Connector \in Listeners
    BY <1>9, ConnectorType DEF StopCall
  <2>2. CASE consumer_tag[Connector]
    <3>1. Call("stop", Connector) \in Calls
      BY <2>1, CallRecord DEF CallSteps
    <3>2. calls' \in Seq(Calls)
      BY <1>9, <2>2, <3>1, AppendCall, Zenon DEF StopCall
    <3> QED BY <1>9, <2>2, <3>2 DEF StopCall, TypeOK
  <2>3. CASE ~consumer_tag[Connector]
    <3>1. StopRest(Connector) /\ UNCHANGED calls
      BY <1>9, <2>3, Zenon DEF StopCall
    <3> QED BY <1>9, <2>1, <3>1, StopRestType, Zenon DEF StopCall, TypeOK
  <2> QED BY <2>2, <2>3
<1>10. CASE StopCancelled
  <2>1. PICK l \in Listeners : l = Head(calls).lst
    BY <1>10, CallType DEF StopCancelled
  <2>2. calls' \in Seq(Calls)
    BY <1>10, CallType DEF StopCancelled
  <2>3. consuming' \in BOOLEAN /\ consumer_tag' \in [Listeners -> BOOLEAN]
    BY <1>10, Zenon DEF StopCancelled, Cancelled, TypeOK
  <2>4. StopRest(l)
    BY <1>10, <2>1 DEF StopCancelled
  <2> QED BY <1>10, <2>2, <2>3, <2>4, StopRestType, Zenon DEF StopCancelled, TypeOK
<1>11. CASE RemoveCall
  <2>1. Connector \in Listeners /\ Tail(connectors) \in Seq(Listeners)
    BY <1>11, ConnectorType DEF RemoveCall, HasConnector, TypeOK
  <2>2. running' \in [Listeners -> BOOLEAN] /\ session' \in [Listeners -> Sessions]
    BY <1>11, <2>1, StopType, Zenon DEF RemoveCall, TypeOK
  <2>3. Call("remove", Connector) \in Calls
    BY <2>1, CallRecord DEF CallSteps
  <2>4. calls' \in Seq(Calls) /\ connectors' \in Seq(Listeners)
    <3>1. Append(calls, Call("remove", Connector)) \in Seq(Calls)
      BY <2>3, AppendCall
    <3>2. calls \in Seq(Calls) /\ connectors \in Seq(Listeners)
      BY DEF TypeOK
    <3> QED BY <1>11, <2>1, <3>1, <3>2, Zenon DEF RemoveCall
  <2> QED BY <1>11, <2>2, <2>4, Zenon DEF RemoveCall, TypeOK
<1>12. CASE RemoveCancelled
  <2>1. PICK l \in Listeners : l = Head(calls).lst
    BY <1>12, CallType, Zenon DEF RemoveCancelled
  <2>2. calls' \in Seq(Calls)
    BY <1>12, CallType, Zenon DEF RemoveCancelled
  <2>3. connectors' \in Seq(Listeners)
    BY <1>12 DEF RemoveCancelled, HasConnector, TypeOK
  <2>4. consuming' \in BOOLEAN /\ consumer_tag' \in [Listeners -> BOOLEAN]
    BY <1>12, Zenon DEF RemoveCancelled, Cancelled, TypeOK
  <2>5. StopRest(l)
    BY <1>12, <2>1, Zenon DEF RemoveCancelled
  <2> QED BY <1>12, <2>2, <2>3, <2>4, <2>5, StopRestType, Zenon DEF RemoveCancelled, TypeOK
<1>13. ASSUME NEW m \in Msgs, Submit(m)
       PROVE  TypeOK'
  <2>1. state' \in [Msgs -> MsgStates]
    BY <1>13 DEF Submit, TypeOK, MsgStates
  <2> QED BY <1>13, <2>1, Zenon DEF Submit, TypeOK, managerVars
<1> QED BY <1>0, <1>1, <1>2, <1>3, <1>4, <1>5, <1>6, <1>7, <1>8, <1>9, <1>10, <1>11, <1>12, <1>13
        DEF ManagerNext

-----------------------------------------------------------------------------
(* Deliveries and their timers *)

\* Settling m keeps DeliveryInv when no timer for m is left behind.
LEMMA SettleDelivery ==
    ASSUME TypeOK, DeliveryInv, NEW m \in Msgs, NEW s \in {"ready", "acked", "discarded"},
           Settle(m, s),
           \A l \in Listeners : /\ active'[l] = active[l] \ {m}
                                /\ active'[l] \subseteq rejectTimers'[l]
    PROVE  DeliveryInv'
<1>1. s \notin Unacked
  BY DEF Unacked
<1>2. /\ state'[m] = s
      /\ \A n \in Msgs \ {m} : state'[n] = state[n] /\ holder'[n] = holder[n]
  BY Zenon DEF Settle, TypeOK
<1>3. \A n \in Msgs : state'[n] \in Unacked => holder'[n] \in Listeners
  BY <1>1, <1>2 DEF DeliveryInv
<1>4. NoStrandedDelivery'
  BY <1>1, <1>2 DEF DeliveryInv, NoStrandedDelivery, Unacked
<1>5. TimerHoldsItsDelivery'
  <2>1. ASSUME NEW l \in Listeners, NEW n \in active'[l]
        PROVE  state'[n] = "parked" /\ holder'[n] = l
    <3>1. n \in active[l] /\ n # m
      OBVIOUS
    <3>2. n \in Msgs /\ state[n] = "parked" /\ holder[n] = l
      BY <3>1, Zenon DEF TypeOK, DeliveryInv, TimerHoldsItsDelivery
    <3> QED BY <1>2, <3>1, <3>2
  <2> QED BY <2>1, Zenon DEF TimerHoldsItsDelivery
<1> QED BY <1>3, <1>4, <1>5, Zenon DEF DeliveryInv

\* A message that is not parked has no timer.
LEMMA NoTimer ==
    ASSUME DeliveryInv, NEW m \in Msgs, state[m] # "parked"
    PROVE  \A l \in Listeners : m \notin active[l]
BY DEF DeliveryInv, TimerHoldsItsDelivery

\* Settling a message that is not parked, without touching the timers.
LEMMA SettleUnparked ==
    ASSUME TypeOK, DeliveryInv, NEW m \in Msgs, NEW s \in {"ready", "acked", "discarded"},
           Settle(m, s), state[m] # "parked", UNCHANGED timerVars
    PROVE  DeliveryInv'
<1>1. \A l \in Listeners : active'[l] = active[l] \ {m} /\ active'[l] \subseteq rejectTimers'[l]
  BY NoTimer DEF timerVars, DeliveryInv
<1> QED BY <1>1, SettleDelivery, Zenon

\* rejectAndRequeueMessage keeps DeliveryInv for a delivery in progress.
LEMMA RequeueDelivery ==
    ASSUME TypeOK, DeliveryInv, NEW m \in Msgs, state[m] \in {"paused", "sent"},
           NEW delay \in Nat, rejectAndRequeueMessage(holder[m], m, delay)
    PROVE  DeliveryInv'
<1>1. PICK l \in Listeners : l = holder[m]
  BY DEF DeliveryInv, Unacked
<1>2. CASE delay = 0
  <2>1. Settle(m, "ready") /\ UNCHANGED timerVars
    BY <1>2 DEF rejectAndRequeueMessage, rejectMessage
  <2> QED BY <2>1, SettleUnparked
<1>3. CASE delay # 0
  <2>1. /\ rejectTimers' = [rejectTimers EXCEPT ![l] = @ \cup {m}]
        /\ active' = [active EXCEPT ![l] = @ \cup {m}]
        /\ state' = [state EXCEPT ![m] = "parked"]
        /\ holder' = holder
    BY <1>1, <1>3 DEF rejectAndRequeueMessage
  <2>2. \A k \in Listeners : active'[k] \subseteq rejectTimers'[k]
    BY <2>1 DEF DeliveryInv, TypeOK
  <2>3. \A n \in Msgs : state'[n] \in Unacked => holder'[n] \in Listeners
    BY <1>1, <2>1 DEF DeliveryInv, TypeOK
  <2>4. NoStrandedDelivery'
    BY <1>1, <2>1 DEF DeliveryInv, NoStrandedDelivery, TypeOK
  <2>5. TimerHoldsItsDelivery'
    BY <1>1, <2>1, NoTimer DEF DeliveryInv, TimerHoldsItsDelivery, TypeOK
  <2> QED BY <2>2, <2>3, <2>4, <2>5, Zenon DEF DeliveryInv
<1> QED BY <1>2, <1>3

\* Every step of the listener keeps DeliveryInv.
LEMMA ListenerDeliveryStep ==
    ASSUME TypeOK, DeliveryInv, ListenerNext
    PROVE  DeliveryInv'
<1> USE DelayType
<1>1. ASSUME NEW l \in Listeners, NEW m \in Msgs, submit_sm_callback(l, m)
      PROVE  DeliveryInv'
  <2>1. /\ state[m] = "ready" /\ state' = [state EXCEPT ![m] = "paused"]
        /\ holder' = [holder EXCEPT ![m] = l]
        /\ active' = active /\ rejectTimers' = rejectTimers
    BY <1>1 DEF submit_sm_callback, timerVars
  <2>2. \A n \in Msgs : state'[n] \in Unacked => holder'[n] \in Listeners
    BY <2>1, Zenon DEF DeliveryInv, TypeOK
  <2>3. NoStrandedDelivery'
    BY <2>1 DEF DeliveryInv, NoStrandedDelivery, TypeOK
  <2>4. TimerHoldsItsDelivery'
    <3>1. ASSUME NEW k \in Listeners, NEW n \in active[k]
          PROVE  state'[n] = "parked" /\ holder'[n] = k
      <4>1. n \in Msgs /\ n # m
        BY <2>1, NoTimer, Zenon DEF TypeOK
      <4>2. state[n] = "parked" /\ holder[n] = k
        BY Zenon DEF DeliveryInv, TimerHoldsItsDelivery
      <4> QED BY <2>1, <4>1, <4>2, Zenon DEF TypeOK
    <3> QED BY <2>1, <3>1, Zenon DEF TimerHoldsItsDelivery
  <2> QED BY <2>1, <2>2, <2>3, <2>4, Zenon DEF DeliveryInv
<1>2. ASSUME NEW l \in Listeners, NEW m \in Msgs, CallbackWithoutQueue(l, m)
      PROVE  DeliveryInv'
  BY <1>2, SettleUnparked, Zenon DEF CallbackWithoutQueue, rejectMessage
<1>3. ASSUME NEW l \in Listeners, NEW m \in Msgs, RejectTimerFires(l, m)
      PROVE  DeliveryInv'
  <2>1. Settle(m, "ready")
    BY <1>3 DEF RejectTimerFires, rejectMessage
  <2>2. \A k \in Listeners \ {l} : m \notin active[k]
    BY <1>3 DEF RejectTimerFires, DeliveryInv, TimerHoldsItsDelivery
  <2>3. active' = [active EXCEPT ![l] = @ \ {m}] /\ rejectTimers' = rejectTimers
    BY <1>3 DEF RejectTimerFires
  <2>4. ASSUME NEW k \in Listeners PROVE active'[k] = active[k] \ {m}
    <3>1. active'[k] = IF k = l THEN active[l] \ {m} ELSE active[k]
      BY <2>3 DEF TypeOK
    <3>. QED BY <2>2, <3>1
  <2>5. ASSUME NEW k \in Listeners PROVE active'[k] \subseteq rejectTimers'[k]
    <3>1. active[k] \subseteq rejectTimers[k]
      BY DEF DeliveryInv, TypeOK
    <3>. QED BY <2>3, <2>4, <3>1
  <2> QED BY <2>1, <2>4, <2>5, SettleDelivery, Zenon
<1>4. ASSUME NEW m \in Msgs, Resume(m)
      PROVE  DeliveryInv'
  <2>1. CASE DiscardUnfit(m)
    BY <2>1, SettleUnparked DEF DiscardUnfit, rejectMessage
  <2>2. CASE NotReady(m)
    <3>1. CASE rejectMessage(m, FALSE) /\ UNCHANGED timerVars
      BY <2>2, <3>1, SettleUnparked DEF NotReady, rejectMessage
    <3>2. CASE rejectAndRequeueMessage(holder[m], m, NotReadyDelay)
      BY <2>2, <3>2, RequeueDelivery DEF NotReady
    <3> QED BY <2>2, <3>1, <3>2, Zenon DEF NotReady
  <2>3. CASE SendSubmitSm(m)
    <3>1. /\ state[m] = "paused" /\ state' = [state EXCEPT ![m] = "sent"]
          /\ UNCHANGED <<holder, rejectTimers, active>>
      BY <2>3 DEF SendSubmitSm, timerVars
    <3>2. \A n \in Msgs : state'[n] \in Unacked => holder'[n] \in Listeners
      BY <3>1 DEF DeliveryInv, TypeOK, Unacked
    <3>3. NoStrandedDelivery'
      BY <3>1 DEF DeliveryInv, NoStrandedDelivery, TypeOK
    <3>4. TimerHoldsItsDelivery'
      BY <3>1, NoTimer, Zenon DEF DeliveryInv, TimerHoldsItsDelivery, TypeOK
    <3> QED BY <3>1, <3>2, <3>3, <3>4 DEF DeliveryInv
  <2>4. CASE LongSubmitSmBusy(m)
    BY <2>4, RequeueDelivery DEF LongSubmitSmBusy
  <2> QED BY <1>4, <2>1, <2>2, <2>3, <2>4 DEF Resume
<1>5. ASSUME NEW m \in Msgs, RequestTimeout(m)
      PROVE  DeliveryInv'
  BY <1>5, RequeueDelivery DEF RequestTimeout
<1>6. ASSUME NEW m \in Msgs, NEW status \in Statuses, submit_sm_resp_event(m, status)
      PROVE  DeliveryInv'
  <2>1. PICK l \in Listeners : l = holder[m]
    BY <1>6, Zenon DEF submit_sm_resp_event, Unacked, DeliveryInv
  <2>2. state[m] = "sent"
    BY <1>6, Zenon DEF submit_sm_resp_event
  <2>3. CASE RespRetried(l, m, status)
    BY <2>1, <2>2, <2>3, RequeueDelivery DEF RespRetried, MustRetry
  <2>4. CASE RespFinal(l, m, status)
    <3>1. /\ Settle(m, "acked")
          /\ rejectTimers' = [rejectTimers EXCEPT ![l] = @ \ {m}]
          /\ active' = [active EXCEPT ![l] = IF m \in rejectTimers[l] THEN @ \ {m} ELSE @]
      BY <2>4 DEF RespFinal, ackMessage, clearRejectTimer
    <3>2. \A k \in Listeners : m \notin active[k]
      BY <2>2, NoTimer
    <3>3. \A k \in Listeners : active'[k] = active[k] \ {m} /\ active'[k] \subseteq rejectTimers'[k]
      BY <3>1, <3>2, Zenon DEF DeliveryInv, TypeOK
    <3> QED BY <3>1, <3>3, SettleDelivery
  <2> QED BY <1>6, <2>1, <2>3, <2>4 DEF submit_sm_resp_event
<1> QED BY <1>1, <1>2, <1>3, <1>4, <1>5, <1>6, Zenon DEF ListenerNext, EndRequest

\* What perspective_connector_stop does behind the cancel: a message either
\* keeps its place, or was parked with l and is back in the queue.
LEMMA StopRestEffect ==
    ASSUME TypeOK, DeliveryInv, NEW l \in Listeners, StopRest(l)
    PROVE  /\ \A m \in Msgs :
                 \/ state'[m] = state[m] /\ holder'[m] = holder[m]
                 \/ m \in active[l] /\ state'[m] = "ready" /\ m \notin active'[l]
           /\ \A m \in active[l] : m \notin active'[l] => state'[m] = "ready"
           /\ active'[l] = active[l] \/ active'[l] = {}
           /\ active'[l] \subseteq rejectTimers'[l]
           /\ \A k \in Listeners \ {l} :
                 active'[k] = active[k] /\ rejectTimers'[k] = rejectTimers[k]
<1>1. CASE running[l]
  <2>1. active[l] \cap rejectTimers[l] = active[l]
    BY DEF DeliveryInv
  <2>2. /\ state' = [m \in Msgs |-> IF m \in active[l] THEN "ready" ELSE state[m]]
        /\ holder' = [m \in Msgs |-> IF m \in active[l] THEN Nobody ELSE holder[m]]
        /\ rejectTimers' = [rejectTimers EXCEPT ![l] = {}]
        /\ active' = [active EXCEPT ![l] = @ \ active[l]]
    BY <1>1, <2>1, Zenon DEF StopRest, StopRunning
  <2> QED BY <2>2 DEF TypeOK
<1>2. CASE ~running[l]
  BY <1>2 DEF StopRest, queueVars, timerVars, DeliveryInv
<1> QED BY <1>1, <1>2, Zenon

\* Stopping a connector keeps DeliveryInv.
LEMMA StopRestDelivery ==
    ASSUME TypeOK, DeliveryInv, NEW l \in Listeners, StopRest(l)
    PROVE  DeliveryInv'
<1>1. \A m \in Msgs : state'[m] \in Unacked => holder'[m] \in Listeners
  BY StopRestEffect, Zenon DEF DeliveryInv, Unacked
<1>2. \A k \in Listeners : active'[k] \subseteq rejectTimers'[k]
  BY StopRestEffect, Zenon DEF DeliveryInv
<1>3. NoStrandedDelivery'
  <2> SUFFICES ASSUME NEW m \in Msgs, state'[m] = "parked"
               PROVE  \E k \in Listeners : m \in active'[k]
    BY DEF NoStrandedDelivery
  <2>1. state[m] = "parked"
    BY StopRestEffect
  <2>2. PICK k \in Listeners : m \in active[k]
    BY <2>1 DEF DeliveryInv, NoStrandedDelivery
  <2> QED BY <2>2, StopRestEffect, Zenon
<1>4. TimerHoldsItsDelivery'
  <2> SUFFICES ASSUME NEW k \in Listeners, NEW m \in active'[k]
               PROVE  state'[m] = "parked" /\ holder'[m] = k
    BY DEF TimerHoldsItsDelivery
  <2>1. m \in active[k] /\ m \in Msgs
    BY StopRestEffect, Zenon DEF TypeOK
  <2>2. state[m] = "parked" /\ holder[m] = k
    BY <2>1 DEF DeliveryInv, TimerHoldsItsDelivery
  <2>3. ~(m \in active[l] /\ m \notin active'[l])
    BY <2>2 DEF DeliveryInv, TimerHoldsItsDelivery
  <2> QED BY <2>2, <2>1, <2>3, StopRestEffect
<1> QED BY <1>1, <1>2, <1>3, <1>4, Zenon DEF DeliveryInv

\* DeliveryInv speaks of nothing but the queue and the timers.
LEMMA DeliveryFrame ==
    ASSUME DeliveryInv, UNCHANGED <<state, holder, rejectTimers, active>>
    PROVE  DeliveryInv'
BY Zenon DEF DeliveryInv, NoStrandedDelivery, TimerHoldsItsDelivery

\* What a lost connection does: a message keeps its place, or its request fails,
\* or nobody will answer it.
LEMMA ConnectionLostEffect ==
    ASSUME TypeOK, NEW l \in Listeners, NEW u \in SUBSET Msgs,
           \A m \in u : state[m] = "sent", ConnectionLost(l, u)
    PROVE  \A m \in Msgs :
              \/ state'[m] = state[m] /\ holder'[m] = holder[m]
              \/ state[m] = "sent" /\ state'[m] = "discarded" /\ holder[m] = l
              \/ state[m] = "sent" /\ state'[m] = "unanswered" /\ holder'[m] = holder[m]
BY DEF ConnectionLost, TypeOK

\* Every step of the manager and of the SMPP service keeps DeliveryInv.
LEMMA ManagerDeliveryStep ==
    ASSUME TypeOK, DeliveryInv, ManagerNext
    PROVE  DeliveryInv'
<1> USE DEF queueVars, timerVars
<1>1. ASSUME NEW l \in Listeners, AddCheck(l)
      PROVE  DeliveryInv'
  BY <1>1, DeliveryFrame DEF AddCheck, listenerVars
<1>2. ASSUME NEW l \in Listeners, SessionBound(l) \/ DialFails(l)
      PROVE  DeliveryInv'
  BY <1>2, DeliveryFrame DEF SessionBound, DialFails
<1>3. ASSUME NEW l \in Listeners, StartServiceErr(l)
      PROVE  DeliveryInv'
  BY <1>3, DeliveryFrame DEF StartServiceErr
<1>4a. ASSUME NEW l \in Listeners, NEW u \in SUBSET Msgs,
              \A m \in u : state[m] = "sent", ConnectionLost(l, u)
       PROVE  DeliveryInv'
  <2>1. rejectTimers' = rejectTimers /\ active' = active
    BY <1>4a, Zenon DEF ConnectionLost
  <2>2. \A m \in Msgs : state'[m] \in Unacked => holder'[m] \in Listeners
    BY <1>4a, ConnectionLostEffect DEF DeliveryInv, Unacked
  <2>3. NoStrandedDelivery'
    BY <1>4a, <2>1, ConnectionLostEffect DEF DeliveryInv, NoStrandedDelivery
  <2>4. TimerHoldsItsDelivery'
    <3> SUFFICES ASSUME NEW k \in Listeners, NEW m \in active[k]
                 PROVE  state'[m] = "parked" /\ holder'[m] = k
      BY <2>1 DEF TimerHoldsItsDelivery
    <3>1. m \in Msgs /\ state[m] = "parked" /\ holder[m] = k
      BY DEF DeliveryInv, TimerHoldsItsDelivery, TypeOK
    <3> QED BY <1>4a, <3>1, ConnectionLostEffect
  <2> QED BY <2>1, <2>2, <2>3, <2>4 DEF DeliveryInv
<1>4. ASSUME (\E l \in Listeners : SessionLost(l)) \/ (\E m \in Msgs : InvalidResponse(m))
      PROVE  DeliveryInv'
  BY <1>4, <1>4a, LostCases, Zenon DEF DeliveryInv
<1>5. CASE AddRoundTrip \/ AddDone
  BY <1>5, DeliveryFrame DEF AddRoundTrip, AddDone, listenerVars
<1>6. CASE StartCall
  BY <1>6, DeliveryFrame DEF StartCall
<1>7. CASE StartCancelled
  BY <1>7, DeliveryFrame DEF StartCancelled
<1>8. CASE StartConsumed
  BY <1>8, DeliveryFrame DEF StartConsumed
<1>9. CASE StopCall
  <2>1. CASE consumer_tag[Connector]
    BY <1>9, <2>1, DeliveryFrame DEF StopCall
  <2>2. CASE ~consumer_tag[Connector]
    BY <1>9, <2>2, ConnectorType, StopRestDelivery DEF StopCall
  <2> QED BY <2>1, <2>2
<1>10. CASE StopCancelled
  BY <1>10, CallType, StopRestDelivery DEF StopCancelled
<1>11. CASE RemoveCall
  BY <1>11, DeliveryFrame DEF RemoveCall
<1>12. CASE RemoveCancelled
  BY <1>12, CallType, StopRestDelivery DEF RemoveCancelled
<1>13. ASSUME NEW m \in Msgs, Submit(m)
       PROVE  DeliveryInv'
  <2>1. /\ state[m] = "new" /\ state' = [state EXCEPT ![m] = "ready"]
        /\ UNCHANGED <<holder, rejectTimers, active>>
    BY <1>13 DEF Submit
  <2>2. \A n \in Msgs : state'[n] \in Unacked => holder'[n] \in Listeners
    BY <2>1 DEF DeliveryInv, TypeOK, Unacked
  <2>3. NoStrandedDelivery'
    BY <2>1 DEF DeliveryInv, NoStrandedDelivery, TypeOK
  <2>4. TimerHoldsItsDelivery'
    BY <2>1, NoTimer DEF DeliveryInv, TimerHoldsItsDelivery, TypeOK
  <2> QED BY <2>1, <2>2, <2>3, <2>4 DEF DeliveryInv
<1> QED BY <1>1, <1>2, <1>3, <1>4, <1>5, <1>6, <1>7, <1>8, <1>9, <1>10, <1>11, <1>12, <1>13
        DEF ManagerNext

-----------------------------------------------------------------------------
(* Retrial counters *)

\* Counting one more between two bounds.
LEMMA OneMore ==
    ASSUME NEW x \in Nat, NEW y \in Nat, NEW z \in Nat, x < y, y < z
    PROVE  x + 1 < z /\ x + 1 =< y
OBVIOUS

\* A message moves only forward: nowhere, out of the system, back to the queue,
\* or on with the same holder.
Forward(m) ==
    \/ state'[m] = state[m] /\ holder'[m] = holder[m]
    \/ state'[m] \in Settled
    \/ state'[m] = "ready" /\ state[m] \notin Settled
    \/ /\ state[m] \in {"paused", "sent"}
       /\ state'[m] \in {"sent", "parked", "unanswered"}
       /\ holder'[m] = holder[m]

\* A step that leaves the counters alone and moves every message forward keeps
\* RetrialInv.
LEMMA RetrialFrame ==
    ASSUME TypeOK, RetrialInv, UNCHANGED <<submit_retrials, errRetries>>,
           \A m \in Msgs : Forward(m)
    PROVE  RetrialInv'
<1> SUFFICES ASSUME NEW l \in Listeners, NEW m \in Msgs
             PROVE  /\ state'[m] \in Unacked /\ holder'[m] = l => submit_retrials[l][m] > 0
                    /\ \A e \in RetriableErrors :
                          /\ errRetries[l][m][e] > 0 => errRetries[l][m][e] < RetrialCount[e]
                          /\ state'[m] \notin Settled
                                => errRetries[l][m][e] =< submit_retrials[l][m]
                          /\ state'[m] \in {"paused", "sent"} /\ holder'[m] = l
                                => errRetries[l][m][e] < submit_retrials[l][m]
  BY Zenon DEF RetrialInv
<1>1. Forward(m)
  OBVIOUS
<1> QED BY <1>1, Zenon DEF RetrialInv, Forward, Unacked, Settled

\* Taking a delivery back moves one message forward and no other.
LEMMA SettleForward ==
    ASSUME TypeOK, NEW m \in Msgs, NEW s \in {"ready", "acked", "discarded"}, Settle(m, s),
           state[m] \notin Settled
    PROVE  \A n \in Msgs : Forward(n)
BY Zenon DEF Settle, Forward, TypeOK, Settled

\* rejectAndRequeueMessage moves one message forward and no other.
LEMMA RequeueForward ==
    ASSUME TypeOK, NEW m \in Msgs, state[m] \in {"paused", "sent"}, NEW delay \in Nat,
           rejectAndRequeueMessage(holder[m], m, delay)
    PROVE  \A n \in Msgs : Forward(n)
<1>1. CASE delay = 0
  BY <1>1, SettleForward, Zenon DEF rejectAndRequeueMessage, rejectMessage, Settled
<1>2. CASE delay # 0
  BY <1>2 DEF rejectAndRequeueMessage, Forward, TypeOK
<1> QED BY <1>1, <1>2

\* Every step of the listener keeps RetrialInv.
LEMMA ListenerRetrialStep ==
    ASSUME TypeOK, DeliveryInv, RetrialInv, ListenerNext
    PROVE  RetrialInv'
<1> USE DelayType
<1>1. ASSUME NEW l \in Listeners, NEW m \in Msgs, submit_sm_callback(l, m)
      PROVE  RetrialInv'
  <2>1. /\ state[m] = "ready"
        /\ state' = [state EXCEPT ![m] = "paused"]
        /\ holder' = [holder EXCEPT ![m] = l]
        /\ submit_retrials' = [submit_retrials EXCEPT ![l][m] = @ + 1]
        /\ errRetries' = errRetries
    BY <1>1 DEF submit_sm_callback, historyVars
  <2> SUFFICES ASSUME NEW k \in Listeners, NEW n \in Msgs
               PROVE  /\ state'[n] \in Unacked /\ holder'[n] = k => submit_retrials'[k][n] > 0
                      /\ \A e \in RetriableErrors :
                            /\ errRetries[k][n][e] > 0 => errRetries[k][n][e] < RetrialCount[e]
                            /\ state'[n] \notin Settled
                                  => errRetries[k][n][e] =< submit_retrials'[k][n]
                            /\ state'[n] \in {"paused", "sent"} /\ holder'[n] = k
                                  => errRetries[k][n][e] < submit_retrials'[k][n]
    BY <2>1, Zenon DEF RetrialInv
  <2>2. CASE n # m
    <3>1. state'[n] = state[n] /\ holder'[n] = holder[n]
          /\ submit_retrials'[k][n] = submit_retrials[k][n]
      BY <2>1, <2>2, Zenon DEF TypeOK
    <3> QED BY <3>1, Zenon DEF RetrialInv
  <2>3. CASE n = m
    <3>1. state'[m] = "paused" /\ holder'[m] = l
      BY <2>1, Zenon DEF TypeOK
    <3>2. \A e \in RetriableErrors :
             /\ errRetries[k][m][e] \in Nat
             /\ errRetries[k][m][e] =< submit_retrials[k][m]
             /\ errRetries[k][m][e] > 0 => errRetries[k][m][e] < RetrialCount[e]
      <4>1. state[m] \notin Settled
        BY <2>1 DEF Settled
      <4>2. \A e \in RetriableErrors : errRetries[k][m][e] \in Nat
        <5>1. errRetries \in [Listeners -> [Msgs -> [RetriableErrors -> Nat]]]
          BY DEF TypeOK
        <5>2. errRetries[k][m] \in [RetriableErrors -> Nat]
          BY <5>1
        <5> QED BY <5>2
      <4> QED BY <4>1, <4>2, Zenon DEF RetrialInv
    <3>3. CASE k = l
      <4>1. submit_retrials'[l][m] = submit_retrials[l][m] + 1 /\ submit_retrials[l][m] \in Nat
        BY <2>1, Zenon DEF TypeOK
      <4>2. submit_retrials'[k][n] > 0
        BY <2>3, <3>3, <4>1
      <4>3. ASSUME NEW e \in RetriableErrors
            PROVE  /\ errRetries[k][n][e] > 0 => errRetries[k][n][e] < RetrialCount[e]
                   /\ errRetries[k][n][e] < submit_retrials'[k][n]
                   /\ errRetries[k][n][e] =< submit_retrials'[k][n]
        <5>1. PICK a, b, c : a = errRetries[k][n][e] /\ b = submit_retrials[l][m] /\ c = RetrialCount[e]
          BY Zenon
        <5>2. a \in Nat /\ a =< b /\ (a > 0 => a < c)
          BY <2>3, <3>2, <3>3, <5>1, Zenon
        <5>3. b \in Nat /\ submit_retrials'[k][n] = b + 1
          BY <2>3, <3>3, <4>1, <5>1, Zenon
        <5>4. a < b + 1 /\ a =< b + 1
          BY <5>2, <5>3
        <5> QED BY <5>1, <5>2, <5>3, <5>4, Zenon
      <4> QED BY <4>2, <4>3
    <3>4. CASE k # l
      <4>1. submit_retrials'[k][m] = submit_retrials[k][m]
        BY <2>1, <3>4, Zenon DEF TypeOK
      <4> QED BY <2>3, <3>1, <3>2, <3>4, <4>1, Zenon
    <3> QED BY <3>3, <3>4, Zenon
  <2> QED BY <2>2, <2>3, Zenon
<1>2. ASSUME NEW l \in Listeners, NEW m \in Msgs, CallbackWithoutQueue(l, m)
      PROVE  RetrialInv'
  BY <1>2, SettleForward, RetrialFrame, Zenon
  DEF CallbackWithoutQueue, rejectMessage, historyVars, Settled
<1>3. ASSUME NEW l \in Listeners, NEW m \in Msgs, RejectTimerFires(l, m)
      PROVE  RetrialInv'
  <2>1. state[m] = "parked"
    BY <1>3, Zenon DEF RejectTimerFires, DeliveryInv, TimerHoldsItsDelivery
  <2> QED BY <1>3, <2>1, SettleForward, RetrialFrame, Zenon
          DEF RejectTimerFires, rejectMessage, historyVars, Settled
<1>4. ASSUME NEW m \in Msgs, Resume(m)
      PROVE  RetrialInv'
  <2>1. CASE DiscardUnfit(m)
    BY <2>1, SettleForward, RetrialFrame, Zenon DEF DiscardUnfit, rejectMessage, historyVars, Settled
  <2>2. CASE NotReady(m)
    <3>1. CASE rejectMessage(m, FALSE)
      BY <2>2, <3>1, SettleForward, RetrialFrame, Zenon DEF NotReady, rejectMessage, historyVars, Settled
    <3>2. CASE rejectAndRequeueMessage(holder[m], m, NotReadyDelay)
      BY <2>2, <3>2, RequeueForward, RetrialFrame, Zenon DEF NotReady, historyVars
    <3> QED BY <2>2, <3>1, <3>2, Zenon DEF NotReady
  <2>3. CASE SendSubmitSm(m)
    <3>1. \A n \in Msgs : Forward(n)
      BY <2>3, Zenon DEF SendSubmitSm, Forward, TypeOK
    <3> QED BY <2>3, <3>1, RetrialFrame, Zenon DEF SendSubmitSm, historyVars
  <2>4. CASE LongSubmitSmBusy(m)
    BY <2>4, RequeueForward, RetrialFrame, Zenon DEF LongSubmitSmBusy, historyVars
  <2> QED BY <1>4, <2>1, <2>2, <2>3, <2>4 DEF Resume
<1>5. ASSUME NEW m \in Msgs, RequestTimeout(m)
      PROVE  RetrialInv'
  BY <1>5, RequeueForward, RetrialFrame, Zenon DEF RequestTimeout, historyVars
<1>6. ASSUME NEW m \in Msgs, NEW status \in Statuses, submit_sm_resp_event(m, status)
      PROVE  RetrialInv'
  <2>1. PICK l \in Listeners : l = holder[m]
    BY <1>6, Zenon DEF submit_sm_resp_event, Unacked, DeliveryInv
  <2>2. state[m] = "sent"
    BY <1>6 DEF submit_sm_resp_event
  <2>3. CASE RespRetried(l, m, status)
    <3>1. /\ status \in RetriableErrors
          /\ submit_retrials[l][m] < RetrialCount[status]
          /\ errRetries' = [errRetries EXCEPT ![l][m][status] = @ + 1]
          /\ submit_retrials' = submit_retrials
      BY <2>3 DEF RespRetried, MustRetry
    <3>2. /\ \A n \in Msgs : Forward(n)
          /\ state'[m] \in {"ready", "parked"}
          /\ \A n \in Msgs \ {m} : state'[n] = state[n] /\ holder'[n] = holder[n]
      <4>1. rejectAndRequeueMessage(holder[m], m, RetrialDelay[status])
        BY <2>1, <2>3 DEF RespRetried
      <4>2. \A n \in Msgs : Forward(n)
        BY <2>2, <3>1, <4>1, RequeueForward
      <4> QED BY <4>1, <4>2
              DEF rejectAndRequeueMessage, rejectMessage, Settle, TypeOK
    <3> SUFFICES ASSUME NEW k \in Listeners, NEW n \in Msgs
                 PROVE  /\ state'[n] \in Unacked /\ holder'[n] = k => submit_retrials[k][n] > 0
                        /\ \A e \in RetriableErrors :
                              /\ errRetries'[k][n][e] > 0
                                    => errRetries'[k][n][e] < RetrialCount[e]
                              /\ state'[n] \notin Settled
                                    => errRetries'[k][n][e] =< submit_retrials[k][n]
                              /\ state'[n] \in {"paused", "sent"} /\ holder'[n] = k
                                    => errRetries'[k][n][e] < submit_retrials[k][n]
      BY <3>1, Zenon DEF RetrialInv
    <3>3. state'[n] \in Unacked /\ holder'[n] = k => submit_retrials[k][n] > 0
      <4>1. Forward(n)
        BY <3>2
      <4> QED BY <2>2, <4>1, Zenon DEF RetrialInv, Forward, Unacked, Settled
    <3>4. ASSUME NEW e \in RetriableErrors
          PROVE  /\ errRetries'[k][n][e] > 0 => errRetries'[k][n][e] < RetrialCount[e]
                 /\ state'[n] \notin Settled => errRetries'[k][n][e] =< submit_retrials[k][n]
                 /\ state'[n] \in {"paused", "sent"} /\ holder'[n] = k
                       => errRetries'[k][n][e] < submit_retrials[k][n]
      <4>1. CASE k = l /\ n = m /\ e = status
        <5>1. errRetries'[k][n][e] = errRetries[l][m][status] + 1
          BY <3>1, <4>1 DEF TypeOK
        <5>2. /\ errRetries[l][m][status] < submit_retrials[l][m]
              /\ errRetries[l][m][status] \in Nat /\ submit_retrials[l][m] \in Nat
              /\ RetrialCount[status] \in Nat
          <6>1. errRetries[l][m][status] < submit_retrials[l][m]
            BY <2>1, <2>2, <3>1 DEF RetrialInv
          <6>2. errRetries[l][m][status] \in Nat
            BY <3>1 DEF TypeOK
          <6>3. submit_retrials[l][m] \in Nat
            BY Zenon DEF TypeOK
          <6>4. RetrialCount[status] \in Nat
            BY <3>1, ListenerConstants
          <6> QED BY <6>1, <6>2, <6>3, <6>4, Zenon
        <5>3. PICK x \in Nat : x = errRetries[l][m][status]
          BY <5>2, Zenon
        <5>4. PICK y \in Nat : y = submit_retrials[l][m]
          BY <5>2, Zenon
        <5>5. PICK z \in Nat : z = RetrialCount[status]
          BY <5>2, Zenon
        <5>6. x < y /\ y < z
          BY <3>1, <5>2, <5>3, <5>4, <5>5, Zenon
        <5>7. x + 1 < z /\ x + 1 =< y
          BY <5>3, <5>4, <5>5, <5>6, OneMore, Zenon
        <5>8. state'[n] \notin {"paused", "sent"}
          BY <3>2, <4>1, Zenon
        <5> QED BY <4>1, <5>1, <5>3, <5>4, <5>5, <5>7, <5>8, Zenon
      <4>2. CASE ~(k = l /\ n = m /\ e = status)
        <5>1. errRetries'[k][n][e] = errRetries[k][n][e]
          BY SMTT(30), <3>1, <4>2 DEF TypeOK
        <5>2. CASE n = m
          <6>1. state'[n] \in {"ready", "parked"} /\ state[n] = "sent"
            BY <2>2, <3>2, <5>2, Zenon
          <6> QED BY <5>1, <6>1, Zenon DEF RetrialInv, Settled
        <5>3. CASE n # m
          <6>1. state'[n] = state[n] /\ holder'[n] = holder[n]
            BY <3>2, <5>3, Zenon
          <6> QED BY <5>1, <6>1, Zenon DEF RetrialInv
        <5> QED BY <5>2, <5>3, Zenon
      <4> QED BY <4>1, <4>2, Zenon
    <3> QED BY <3>3, <3>4, Zenon
  <2>4. CASE RespFinal(l, m, status)
    <3>1. /\ state'[m] = "acked"
          /\ errRetries' = errRetries
          /\ \A n \in Msgs \ {m} : state'[n] = state[n] /\ holder'[n] = holder[n]
      BY <2>4, Zenon DEF RespFinal, ackMessage, Settle, TypeOK
    <3>2. \A k \in Listeners, n \in Msgs \ {m} : submit_retrials'[k][n] = submit_retrials[k][n]
      BY <2>4, Zenon DEF RespFinal, TypeOK
    <3> SUFFICES ASSUME NEW k \in Listeners, NEW n \in Msgs
                 PROVE  /\ state'[n] \in Unacked /\ holder'[n] = k => submit_retrials'[k][n] > 0
                        /\ \A e \in RetriableErrors :
                              /\ errRetries[k][n][e] > 0 => errRetries[k][n][e] < RetrialCount[e]
                              /\ state'[n] \notin Settled
                                    => errRetries[k][n][e] =< submit_retrials'[k][n]
                              /\ state'[n] \in {"paused", "sent"} /\ holder'[n] = k
                                    => errRetries[k][n][e] < submit_retrials'[k][n]
      BY <3>1, Zenon DEF RetrialInv
    <3>3. CASE n = m
      BY <3>1, <3>3, Zenon DEF RetrialInv, Unacked, Settled
    <3>4. CASE n # m
      <4>1. state'[n] = state[n] /\ holder'[n] = holder[n]
            /\ submit_retrials'[k][n] = submit_retrials[k][n]
        BY <3>1, <3>2, <3>4, Zenon
      <4> QED BY <4>1, Zenon DEF RetrialInv
    <3> QED BY <3>3, <3>4, Zenon
  <2> QED BY <1>6, <2>1, <2>3, <2>4, Zenon DEF submit_sm_resp_event
<1> QED BY <1>1, <1>2, <1>3, <1>4, <1>5, <1>6, Zenon DEF ListenerNext, EndRequest

\* Every step of the manager and of the SMPP service keeps RetrialInv.
LEMMA ManagerRetrialStep ==
    ASSUME TypeOK, DeliveryInv, RetrialInv, ManagerNext
    PROVE  RetrialInv'
<1> USE DEF queueVars, historyVars
<1>a. ASSUME NEW l \in Listeners, StopRest(l)
      PROVE  \A m \in Msgs : Forward(m)
  <2> TAKE m \in Msgs
  <2>1. CASE m \in active[l] /\ state'[m] = "ready"
    <3>1. state[m] = "parked"
      BY <2>1, Zenon DEF DeliveryInv, TimerHoldsItsDelivery
    <3> QED BY <2>1, <3>1, Zenon DEF Forward, Settled
  <2>2. CASE state'[m] = state[m] /\ holder'[m] = holder[m]
    BY <2>2, Zenon DEF Forward
  <2> QED BY <1>a, <2>1, <2>2, StopRestEffect, Zenon
<1>b. ASSUME UNCHANGED <<state, holder>>
      PROVE  \A m \in Msgs : Forward(m)
  BY <1>b DEF Forward
<1>1. ASSUME NEW l \in Listeners, AddCheck(l)
      PROVE  RetrialInv'
  BY <1>1, <1>b, RetrialFrame DEF AddCheck, listenerVars
<1>2. ASSUME NEW l \in Listeners, SessionBound(l) \/ DialFails(l)
      PROVE  RetrialInv'
  BY <1>2, <1>b, RetrialFrame DEF SessionBound, DialFails
<1>3. ASSUME NEW l \in Listeners, StartServiceErr(l)
      PROVE  RetrialInv'
  BY <1>3, <1>b, RetrialFrame DEF StartServiceErr
<1>4a. ASSUME NEW l \in Listeners, NEW u \in SUBSET Msgs,
              \A m \in u : state[m] = "sent", ConnectionLost(l, u)
       PROVE  RetrialInv'
  <2>1. \A m \in Msgs : Forward(m)
    BY <1>4a, ConnectionLostEffect, Zenon DEF Forward, Settled
  <2> QED BY <1>4a, <2>1, RetrialFrame, Zenon DEF ConnectionLost
<1>4. ASSUME (\E l \in Listeners : SessionLost(l)) \/ (\E m \in Msgs : InvalidResponse(m))
      PROVE  RetrialInv'
  BY <1>4, <1>4a, LostCases, Zenon DEF DeliveryInv
<1>5. CASE AddRoundTrip \/ AddDone
  BY <1>5, <1>b, RetrialFrame DEF AddRoundTrip, AddDone, listenerVars
<1>6. CASE StartCall
  BY <1>6, <1>b, RetrialFrame DEF StartCall
<1>7. CASE StartCancelled
  BY <1>7, <1>b, RetrialFrame DEF StartCancelled
<1>8. CASE StartConsumed
  BY <1>8, <1>b, RetrialFrame DEF StartConsumed
<1>9. CASE StopCall
  <2>1. CASE consumer_tag[Connector]
    BY <1>9, <1>b, <2>1, RetrialFrame DEF StopCall
  <2>2. CASE ~consumer_tag[Connector]
    BY <1>9, <1>a, <2>2, ConnectorType, RetrialFrame DEF StopCall
  <2> QED BY <2>1, <2>2
<1>10. CASE StopCancelled
  BY <1>10, <1>a, CallType, RetrialFrame DEF StopCancelled
<1>11. CASE RemoveCall
  BY <1>11, <1>b, RetrialFrame DEF RemoveCall
<1>12. CASE RemoveCancelled
  BY <1>12, <1>a, CallType, RetrialFrame DEF RemoveCancelled
<1>13. ASSUME NEW m \in Msgs, Submit(m)
       PROVE  RetrialInv'
  <2>1. \A n \in Msgs : Forward(n)
    BY <1>13 DEF Submit, Forward, TypeOK, Settled
  <2> QED BY <1>13, <2>1, RetrialFrame DEF Submit
<1> QED BY <1>1, <1>2, <1>3, <1>4, <1>5, <1>6, <1>7, <1>8, <1>9, <1>10, <1>11, <1>12, <1>13
        DEF ManagerNext

-----------------------------------------------------------------------------
(* The consumer *)

\* Every step keeps ConsumerInv.
LEMMA ConsumerStep ==
    ASSUME TypeOK, ConsumerInv, ManagerNext \/ (ListenerNext /\ UNCHANGED managerVars)
    PROVE  ConsumerInv'
<1> USE DEF queueVars, timerVars, historyVars
<1>a. ASSUME UNCHANGED <<consuming, consumer_tag, getters, submit_sm_q>>
      PROVE  ConsumerInv'
  BY <1>a, Zenon DEF ConsumerInv
<1>b. ASSUME consuming' = FALSE
      PROVE  ConsumerInv'
  BY <1>b, Zenon DEF ConsumerInv
<1>1. CASE ListenerNext /\ UNCHANGED managerVars
  <2>1. ASSUME NEW l \in Listeners, NEW m \in Msgs, CallbackWithoutQueue(l, m)
        PROVE  ConsumerInv'
    <3> SUFFICES ASSUME consuming
                 PROVE  ConsumerInv'
      BY <1>b, <2>1 DEF CallbackWithoutQueue, TypeOK
    <3>1. PICK k \in Listeners : consumer_tag[k] /\ getters[k] > 0 /\ submit_sm_q[k]
      BY DEF ConsumerInv
    <3>2. k # l /\ getters'[k] = getters[k]
      BY <2>1, <3>1 DEF CallbackWithoutQueue, TypeOK
    <3> QED BY <1>1, <2>1, <3>1, <3>2 DEF CallbackWithoutQueue, ConsumerInv, managerVars
  <2>2. ASSUME NEW l \in Listeners, NEW m \in Msgs,
               submit_sm_callback(l, m) \/ RejectTimerFires(l, m)
        PROVE  ConsumerInv'
    BY <1>1, <1>a, <2>2, Zenon DEF submit_sm_callback, RejectTimerFires, managerVars
  <2>3. ASSUME NEW m \in Msgs, Resume(m) \/ EndRequest(m)
        PROVE  ConsumerInv'
    BY <1>1, <1>a, <2>3, Zenon
    DEF Resume, EndRequest, DiscardUnfit, NotReady, SendSubmitSm, LongSubmitSmBusy,
        RequestTimeout, submit_sm_resp_event, managerVars
  <2> QED BY <1>1, <2>1, <2>2, <2>3 DEF ListenerNext
<1>2. ASSUME NEW l \in Listeners,
             \/ AddCheck(l) \/ SessionBound(l) \/ StartServiceErr(l) \/ DialFails(l)
             \/ SessionLost(l)
      PROVE  ConsumerInv'
  BY <1>a, <1>2, Zenon
  DEF AddCheck, SessionBound, StartServiceErr, DialFails, SessionLost, ConnectionLost,
      listenerVars, managerVars
<1>3. CASE AddRoundTrip \/ AddDone \/ StartCall \/ RemoveCall \/ (\E m \in Msgs : Submit(m))
  BY <1>a, <1>3, Zenon DEF AddRoundTrip, AddDone, StartCall, RemoveCall, Submit, listenerVars, managerVars
<1>7. ASSUME NEW m \in Msgs, InvalidResponse(m)
      PROVE  ConsumerInv'
  BY <1>a, <1>7, Zenon DEF InvalidResponse, ConnectionLost, managerVars
<1>4. CASE StartCancelled \/ StopCancelled \/ RemoveCancelled
  BY <1>b, <1>4, Zenon DEF StartCancelled, StopCancelled, RemoveCancelled, Cancelled
<1>5. CASE StartConsumed
  <2>1. CASE consuming
    BY <1>5, <1>a, <2>1, Zenon DEF StartConsumed
  <2>2. CASE ~consuming
    <3>1. PICK l \in Listeners : l = Head(calls).lst
      BY <1>5, CallType, Zenon DEF StartConsumed
    <3>2. /\ getters' = [getters EXCEPT ![l] = @ + 1]
          /\ submit_sm_q' = [submit_sm_q EXCEPT ![l] = TRUE]
          /\ consumer_tag' = [consumer_tag EXCEPT ![l] = TRUE]
      BY <1>5, <2>2, <3>1, Zenon DEF StartConsumed
    <3>3. getters'[l] > 0 /\ submit_sm_q'[l] /\ consumer_tag'[l]
      BY <3>2 DEF TypeOK
    <3> QED BY <3>3, Zenon DEF ConsumerInv
  <2> QED BY <2>1, <2>2
<1>6. CASE StopCall
  <2>1. UNCHANGED <<consuming, getters, consumer_tag>>
    BY <1>6 DEF StopCall
  <2>2. CASE consumer_tag[Connector]
    BY <1>6, <1>a, <2>2 DEF StopCall
  <2>3. CASE ~consumer_tag[Connector]
    <3>1. Connector \in Listeners /\ StopRest(Connector)
      BY <1>6, <2>3, ConnectorType DEF StopCall
    <3>2. \A k \in Listeners : k # Connector => submit_sm_q'[k] = submit_sm_q[k]
      BY <3>1, Zenon DEF StopRest, StopRunning, TypeOK
    <3> QED BY <2>1, <2>3, <3>2 DEF ConsumerInv
  <2> QED BY <2>2, <2>3
<1> QED BY <1>1, <1>2, <1>3, <1>4, <1>5, <1>6, <1>7 DEF ManagerNext

-----------------------------------------------------------------------------
(* Theorems *)

\* The initial states satisfy the inductive invariant.
LEMMA InitInv == Init => IInv
<1> SUFFICES ASSUME Init PROVE IInv
  OBVIOUS
<1> USE DEF Init, ListenerInit
<1>1. TypeOK
  <2>1. rejectTimers \in [Listeners -> SUBSET Msgs] /\ active \in [Listeners -> SUBSET Msgs]
    OBVIOUS
  <2>2. errRetries \in [Listeners -> [Msgs -> [RetriableErrors -> Nat]]]
    OBVIOUS
  <2>3. connectors \in Seq(Listeners) /\ calls \in Seq(Calls)
    OBVIOUS
  <2> QED BY <2>1, <2>2, <2>3, Zenon DEF TypeOK, MsgStates, Sessions
<1>2. DeliveryInv
  BY DEF DeliveryInv, NoStrandedDelivery, TimerHoldsItsDelivery, Unacked
<1>3. RetrialInv
  BY DEF RetrialInv, Unacked
<1>4. ConsumerInv
  BY DEF ConsumerInv
<1> QED BY <1>1, <1>2, <1>3, <1>4 DEF IInv

\* Every step, and every stuttering step, keeps the inductive invariant.
LEMMA NextInv == IInv /\ [Next]_vars => IInv'
<1> SUFFICES ASSUME IInv, [Next]_vars PROVE IInv'
  OBVIOUS
<1> USE DEF IInv
<1>1. CASE ManagerNext
  <2>1. \A m \in Msgs : state[m] \in Unacked => holder[m] \in Listeners
    BY DEF DeliveryInv
  <2> QED BY <1>1, <2>1, ManagerTypeStep, ManagerDeliveryStep, ManagerRetrialStep, ConsumerStep
<1>2. CASE ListenerNext /\ UNCHANGED managerVars
  <2>1. \A m \in Msgs : state[m] \in Unacked => holder[m] \in Listeners
    BY DEF DeliveryInv
  <2> QED BY <1>2, <2>1, ListenerTypeStep, ListenerDeliveryStep, ListenerRetrialStep,
             ConsumerStep
<1>3. CASE UNCHANGED vars
  BY <1>3, Zenon DEF vars, listenerVars, managerVars, queueVars, timerVars, historyVars, TypeOK,
              DeliveryInv, NoStrandedDelivery, TimerHoldsItsDelivery, RetrialInv, ConsumerInv
<1> QED BY <1>1, <1>2, <1>3 DEF Next

\* The inductive invariant holds in every reachable state.
THEOREM Invariance == Spec => []IInv
BY InitInv, NextInv, PTL DEF Spec

\* The model is type correct.
THEOREM TypeCorrect == Spec => []TypeOK
<1>1. IInv => TypeOK
  BY DEF IInv
<1> QED BY <1>1, Invariance, PTL

\* No delivery is left behind by submit_sm_callback without a timer to requeue it.
THEOREM NeverStranded == Spec => []NoStrandedDelivery
<1>1. IInv => NoStrandedDelivery
  BY DEF IInv, DeliveryInv
<1> QED BY <1>1, Invariance, PTL

\* A reject timer that is still to fire belongs to the delivery its listener holds.
THEOREM TimersAreCurrent == Spec => []TimerHoldsItsDelivery
<1>1. IInv => TimerHoldsItsDelivery
  BY DEF IInv, DeliveryInv
<1> QED BY <1>1, Invariance, PTL

\* submit_sm_resp_event finds the retrial counter of every message it handles.
THEOREM RetrialsAreTracked == Spec => []RetrialsTracked
<1>1. IInv => RetrialsTracked
  BY Zenon DEF IInv, DeliveryInv, RetrialInv, RetrialsTracked, Unacked
<1> QED BY <1>1, Invariance, PTL

\* The requeues made for one error stay below its count in submit_error_retrial.
THEOREM RetriesAreBounded == Spec => []RetriesBounded
<1>1. IInv => RetriesBounded
  BY Zenon DEF IInv, RetrialInv, RetriesBounded
<1> QED BY <1>1, Invariance, PTL

\* A consumer of the queue always has a listener that waits for its deliveries.
THEOREM NoDarkHole == Spec => []ConsumerIsListenedTo
<1>1. IInv => ConsumerIsListenedTo
  BY DEF IInv, ConsumerInv, ConsumerIsListenedTo
<1> QED BY <1>1, Invariance, PTL

\* One step of the listener never moves a settled message, and takes a timer away
\* only by putting its message back into the queue.
LEMMA ListenerStepEffect ==
    ASSUME TypeOK, DeliveryInv, ListenerNext
    PROVE  /\ \A m \in Msgs : state[m] \in Settled => state'[m] = state[m]
           /\ \A l \in Listeners : \A m \in active[l] : m \notin active'[l] => state'[m] = "ready"
<1> DEFINE Goal == /\ \A m \in Msgs : state[m] \in Settled => state'[m] = state[m]
                   /\ \A l \in Listeners : \A m \in active[l] :
                         m \notin active'[l] => state'[m] = "ready"
<1> SUFFICES Goal
  OBVIOUS
<1>a. ASSUME NEW m \in Msgs, state[m] \notin Settled,
             \A n \in Msgs \ {m} : state'[n] = state[n],
             \A l \in Listeners : active[l] \subseteq active'[l]
      PROVE  Goal
  BY <1>a
<1>b. ASSUME NEW m \in Msgs, NEW s, Settle(m, s)
      PROVE  \A n \in Msgs \ {m} : state'[n] = state[n]
  BY <1>b DEF Settle, TypeOK
<1>c. ASSUME NEW m \in Msgs, state[m] \in {"paused", "sent"}, NEW delay \in Nat,
             rejectAndRequeueMessage(holder[m], m, delay)
      PROVE  Goal
  <2>1. holder[m] \in Listeners
    BY <1>c DEF DeliveryInv, Unacked
  <2>2. /\ \A n \in Msgs \ {m} : state'[n] = state[n]
        /\ \A l \in Listeners : active[l] \subseteq active'[l]
    <3>1. CASE delay = 0
      BY <1>b, <1>c, <3>1 DEF rejectAndRequeueMessage, rejectMessage, timerVars
    <3>2. CASE delay # 0
      <4>1. state' = [state EXCEPT ![m] = "parked"]
        BY <1>c, <3>2 DEF rejectAndRequeueMessage
      <4>2. active' = [active EXCEPT ![holder[m]] = active[holder[m]] \cup {m}]
        BY <1>c, <3>2 DEF rejectAndRequeueMessage
      <4> QED BY <2>1, <4>1, <4>2 DEF TypeOK
    <3> QED BY <3>1, <3>2
  <2>3. state[m] \notin Settled
    BY <1>c DEF Settled
  <2> QED BY <1>a, <2>2, <2>3
<1> HIDE DEF Goal
<1>1. ASSUME NEW l \in Listeners, NEW m \in Msgs, submit_sm_callback(l, m)
      PROVE  Goal
  BY <1>1, <1>a, Zenon DEF submit_sm_callback, timerVars, Settled, TypeOK
<1>2. ASSUME NEW l \in Listeners, NEW m \in Msgs, CallbackWithoutQueue(l, m)
      PROVE  Goal
  BY <1>2, <1>a, <1>b, Zenon DEF CallbackWithoutQueue, rejectMessage, timerVars, Settled
<1>3. ASSUME NEW l \in Listeners, NEW m \in Msgs, RejectTimerFires(l, m)
      PROVE  Goal
  <2>1. state[m] = "parked"
    BY <1>3, Zenon DEF RejectTimerFires, DeliveryInv, TimerHoldsItsDelivery
  <2>2. state' = [state EXCEPT ![m] = "ready"] /\ active' = [active EXCEPT ![l] = @ \ {m}]
    BY <1>3 DEF RejectTimerFires, rejectMessage, Settle
  <2> QED BY <2>1, <2>2 DEF Goal, Settled, TypeOK
<1>4. ASSUME NEW m \in Msgs, Resume(m)
      PROVE  Goal
  <2>1. CASE DiscardUnfit(m)
    BY <1>a, <1>b, <2>1, Zenon DEF DiscardUnfit, rejectMessage, timerVars, Settled
  <2>2. CASE NotReady(m)
    <3>1. CASE rejectMessage(m, FALSE) /\ UNCHANGED timerVars
      BY <1>a, <1>b, <2>2, <3>1, Zenon DEF NotReady, rejectMessage, timerVars, Settled
    <3>2. CASE rejectAndRequeueMessage(holder[m], m, NotReadyDelay)
      BY <1>c, <2>2, <3>2, DelayType DEF NotReady
    <3> QED BY <2>2, <3>1, <3>2, Zenon DEF NotReady
  <2>3. CASE SendSubmitSm(m)
    BY <1>a, <2>3, Zenon DEF SendSubmitSm, timerVars, Settled, TypeOK
  <2>4. CASE LongSubmitSmBusy(m)
    BY <1>c, <2>4, DelayType, Zenon DEF LongSubmitSmBusy
  <2> QED BY <1>4, <2>1, <2>2, <2>3, <2>4 DEF Resume
<1>5. ASSUME NEW m \in Msgs, RequestTimeout(m)
      PROVE  Goal
  BY <1>5, <1>c, DelayType DEF RequestTimeout
<1>6. ASSUME NEW m \in Msgs, NEW status \in Statuses, submit_sm_resp_event(m, status)
      PROVE  Goal
  <2>1. state[m] = "sent" /\ state[m] \notin Settled
    BY <1>6 DEF submit_sm_resp_event, Settled
  <2>2. CASE RespRetried(holder[m], m, status)
    BY <1>c, <2>1, <2>2, DelayType DEF RespRetried, MustRetry
  <2>3. CASE RespFinal(holder[m], m, status)
    <3>1. \A n \in Msgs \ {m} : state'[n] = state[n]
      BY <1>b, <2>3 DEF RespFinal, ackMessage
    <3>2. \A l \in Listeners : m \notin active[l]
      BY <2>1, NoTimer
    <3>3. \A l \in Listeners : active[l] \subseteq active'[l]
      BY <2>3, <3>2, Zenon DEF RespFinal, clearRejectTimer, TypeOK
    <3> QED BY <1>a, <2>1, <3>1, <3>3
  <2> QED BY <1>6, <2>2, <2>3 DEF submit_sm_resp_event
<1> QED BY <1>1, <1>2, <1>3, <1>4, <1>5, <1>6 DEF ListenerNext, EndRequest

\* The same of one step of the manager and of the SMPP service.
LEMMA ManagerStepEffect ==
    ASSUME TypeOK, DeliveryInv, ManagerNext
    PROVE  /\ \A m \in Msgs : state[m] \in Settled => state'[m] = state[m]
           /\ \A l \in Listeners : \A m \in active[l] : m \notin active'[l] => state'[m] = "ready"
<1> USE DEF queueVars, timerVars
<1> DEFINE Goal == /\ \A m \in Msgs : state[m] \in Settled => state'[m] = state[m]
                   /\ \A l \in Listeners : \A m \in active[l] :
                         m \notin active'[l] => state'[m] = "ready"
<1> SUFFICES Goal
  OBVIOUS
<1>a. ASSUME NEW l \in Listeners, StopRest(l)
      PROVE  Goal
  <2>1. \A m \in active[l] : state[m] \notin Settled
    BY Zenon DEF DeliveryInv, TimerHoldsItsDelivery, Settled
  <2> QED BY <1>a, <2>1, StopRestEffect, Zenon
<1>b. ASSUME UNCHANGED <<state, active>>
      PROVE  Goal
  BY <1>b
<1>e. ASSUME NEW l \in Listeners, NEW u \in SUBSET Msgs,
             \A m \in u : state[m] = "sent", ConnectionLost(l, u)
      PROVE  Goal
  <2>1. active' = active
    BY <1>e, Zenon DEF ConnectionLost
  <2> QED BY <1>e, <2>1, ConnectionLostEffect DEF Settled
<1>d. ASSUME NEW m \in Msgs, Submit(m)
      PROVE  Goal
  BY <1>d DEF Submit, Settled, TypeOK
<1> HIDE DEF Goal
<1>c. ASSUME (\E l \in Listeners : SessionLost(l)) \/ (\E m \in Msgs : InvalidResponse(m))
      PROVE  Goal
  BY <1>c, <1>e, LostCases, Zenon DEF DeliveryInv
<1>1. ASSUME NEW l \in Listeners,
             AddCheck(l) \/ SessionBound(l) \/ StartServiceErr(l) \/ DialFails(l)
      PROVE  Goal
  BY <1>1, <1>b DEF AddCheck, SessionBound, StartServiceErr, DialFails, listenerVars
<1>2. CASE \/ AddRoundTrip \/ AddDone \/ StartCall \/ StartCancelled \/ StartConsumed
           \/ RemoveCall
  BY <1>2, <1>b, Zenon DEF AddRoundTrip, AddDone, StartCall, StartCancelled, StartConsumed, RemoveCall, listenerVars
<1>3. CASE StopCall
  <2>1. CASE consumer_tag[Connector]
    BY <1>3, <1>b, <2>1 DEF StopCall
  <2>2. CASE ~consumer_tag[Connector]
    BY <1>3, <1>a, <2>2, ConnectorType DEF StopCall
  <2> QED BY <2>1, <2>2
<1>4. CASE StopCancelled \/ RemoveCancelled
  BY <1>4, <1>a, CallType DEF StopCancelled, RemoveCancelled
<1> QED BY <1>1, <1>2, <1>3, <1>4, <1>c, <1>d DEF ManagerNext

\* Both of one step of the system.
LEMMA StepEffect ==
    ASSUME IInv, [Next]_vars
    PROVE  /\ \A m \in Msgs : state[m] \in Settled => state'[m] = state[m]
           /\ \A l \in Listeners : \A m \in active[l] : m \notin active'[l] => state'[m] = "ready"
<1>1. CASE Next
  BY <1>1, ListenerStepEffect, ManagerStepEffect, Zenon DEF Next, IInv
<1>2. CASE UNCHANGED vars
  BY <1>2 DEF vars, listenerVars, queueVars, timerVars
<1> QED BY <1>1, <1>2

\* No late timer or response moves a message that was acknowledged or discarded.
THEOREM SettledStaysSettled == Spec => SettledIsFinal
<1>1. IInv /\ [Next]_vars => [\A m \in Msgs : state[m] \in Settled => state'[m] = state[m]]_vars
  BY StepEffect
<1> QED BY <1>1, Invariance, PTL DEF Spec, SettledIsFinal

\* A reject timer goes away only by giving its message back to the queue.
THEOREM TimersGiveBack == Spec => TimersGiveMessagesBack
<1>1. IInv /\ [Next]_vars => [\A l \in Listeners : \A m \in active[l] :
                                m \notin active'[l] => state'[m] = "ready"]_vars
  BY StepEffect
<1> QED BY <1>1, Invariance, PTL DEF Spec, TimersGiveMessagesBack

=============================================================================
