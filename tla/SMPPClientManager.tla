------------------------- MODULE SMPPClientManager -------------------------
(***************************************************************************)
(* jasmin/managers/clients.py for one connector id <cid>: SMPPClientManager*)
(* PB adds, starts, stops and removes the connector while its listener     *)
(* (module SMListener) works on the queue, and the SMPP service of         *)
(* jasmin/protocols/smpp/services.py goes up and down with it.             *)
(*                                                                         *)
(* Each perspective_* method is an inlineCallbacks coroutine.  It runs     *)
(* without interruption up to an AMQP round trip, and any other handler    *)
(* runs while the round trip is pending.  The broker answers the requests  *)
(* of the channel in order, so the suspended calls form a queue.           *)
(***************************************************************************)
EXTENDS SMListener, Sequences

CONSTANTS
    MaxCalls,   \* bound: perspective_* calls suspended at a time
    MaxStarts   \* bound: starts of one connector

ASSUME ManagerConstants ==
    /\ MaxCalls \in Nat
    /\ MaxStarts \in Nat

VARIABLES
    connectors,    \* self.connectors, as far as it concerns <cid>
    created,       \* listeners that exist
    running,       \* connector['service'].running
    startCounter,  \* connector['service'].startCounter
    consumer_tag,  \* connector['consumer_tag'] is not None
    calls          \* suspended perspective_* calls, oldest AMQP request first

managerVars == <<connectors, created, running, startCounter, consumer_tag, calls>>
vars == <<listenerVars, managerVars>>

CallSteps == {"add", "start.cancel", "start.consume", "stop", "remove"}
Calls == [step : CallSteps, lst : Listeners]

Init ==
    /\ ListenerInit
    /\ connectors = <<>>
    /\ created = {}
    /\ running = [l \in Listeners |-> FALSE]
    /\ startCounter = [l \in Listeners |-> 0]
    /\ consumer_tag = [l \in Listeners |-> FALSE]
    /\ calls = <<>>

Call(step, l) == [step |-> step, lst |-> l]

\* getConnector(cid): the first entry with this id.
HasConnector == connectors # <<>>
Connector == Head(connectors)

-----------------------------------------------------------------------------
(* SMPPClientService and the session it drives. *)

Dialing == {"dialing", "redialing"}

\* stopService: a bound session unbinds once its requests are finished.  A TCP
\* connection attempt in flight is not aborted, a reconnect timer is.
AfterStop(s) ==
    CASE s = "bound"   -> {"closing"}
      [] s \in Dialing -> {s, "down"}
      [] OTHER         -> {s}

stopService(l) ==
    /\ running' = [running EXCEPT ![l] = FALSE]
    /\ \E s \in AfterStop(session[l]) : session' = [session EXCEPT ![l] = s]

\* Where a session goes without a connection: a reconnect timer is set if the
\* configuration asks for it, unless the service was stopped.
Disconnected(l) ==
    \E s \in {"down"} \cup (IF running[l] THEN {"redialing"} ELSE {}) :
        session' = [session EXCEPT ![l] = s]

SessionBound(l) ==
    /\ session[l] \in Dialing
    /\ session' = [session EXCEPT ![l] = "bound"]
    /\ UNCHANGED <<queueVars, timerVars, historyVars, consuming, getters, submit_sm_q,
                   submit_retrials, managerVars>>

\* The first connection fails for good, or its bind times out: _startServiceErr
\* stops the service, and nothing else.
StartServiceErr(l) ==
    /\ session[l] = "dialing"
    /\ session' = [session EXCEPT ![l] = "down"]
    /\ running' = [running EXCEPT ![l] = FALSE]
    /\ UNCHANGED <<queueVars, timerVars, historyVars, consuming, getters, submit_sm_q,
                   submit_retrials, connectors, created, startCounter, consumer_tag, calls>>

\* The bind is refused, which bindFailed does not report to startService, or a
\* reconnection fails, which nobody waits for: the service goes on running.
DialFails(l) ==
    /\ session[l] \in Dialing
    /\ Disconnected(l)
    /\ UNCHANGED <<queueVars, timerVars, historyVars, consuming, getters, submit_sm_q,
                   submit_retrials, managerVars>>

\* The connection goes down.  The requests that wait for a response fail with
\* it, and the catch-all handler of submit_sm_callback rejects their messages
\* without requeuing them.  A request of unanswered was closed before, so that
\* nothing fails it any more.
ConnectionLost(l, unanswered) ==
    LET failed == {m \in Msgs \ unanswered : state[m] = "sent" /\ holder[m] = l}
    IN  /\ session[l] \in {"bound", "closing"}
        /\ Disconnected(l)
        /\ state' = [m \in Msgs |-> IF m \in failed THEN "discarded"
                                    ELSE IF m \in unanswered THEN "unanswered" ELSE state[m]]
        /\ holder' = [m \in Msgs |-> IF m \in failed THEN Nobody ELSE holder[m]]
        /\ outstanding' = IF outstanding \in failed THEN Nobody ELSE outstanding
        /\ UNCHANGED <<timerVars, historyVars, consuming, getters, submit_sm_q,
                       submit_retrials, managerVars>>

\* By an unbind or by a failure.
SessionLost(l) == ConnectionLost(l, {})

\* The SMSC answers a short submit_sm with a PDU of another type, a generic_nack
\* say.  The transaction is closed, its timer cancelled, and the errback with
\* two arguments raises: submit_sm_callback waits for ever, and the exception
\* takes the connection down.
InvalidResponse(m) ==
    /\ state[m] = "sent"
    /\ ConnectionLost(holder[m], {m})

-----------------------------------------------------------------------------
(* perspective_connector_add: the check and the append are apart. *)

AddCheck(l) ==
    /\ ~HasConnector
    /\ l \notin created
    /\ Len(calls) < MaxCalls
    /\ created' = created \cup {l}
    /\ calls' = Append(calls, Call("add", l))
    /\ UNCHANGED <<listenerVars, connectors, running, startCounter, consumer_tag>>

\* A round trip before the last one (basic_qos, exchange_declare,
\* named_queue_declare, queue_bind): the next request queues up behind the others.
AddRoundTrip ==
    /\ calls # <<>>
    /\ Head(calls).step = "add"
    /\ calls' = Append(Tail(calls), Head(calls))
    /\ UNCHANGED <<listenerVars, connectors, created, running, startCounter, consumer_tag>>

AddDone ==
    /\ calls # <<>>
    /\ Head(calls).step = "add"
    /\ connectors' = Append(connectors, Head(calls).lst)
    /\ calls' = Tail(calls)
    /\ UNCHANGED <<listenerVars, created, running, startCounter, consumer_tag>>

-----------------------------------------------------------------------------
(* perspective_connector_start *)

StartCall ==
    LET l == Connector
    IN  /\ HasConnector
        /\ ~running[l]
        /\ session[l] \in {"down"} \cup Dialing
        /\ Len(calls) < MaxCalls
        /\ startCounter[l] < MaxStarts
        /\ running' = [running EXCEPT ![l] = TRUE]
        /\ startCounter' = [startCounter EXCEPT ![l] = @ + 1]
        /\ session' = [session EXCEPT ![l] = "dialing"]
        /\ calls' = Append(calls, Call(IF consumer_tag[l] THEN "start.cancel"
                                       ELSE "start.consume", l))
        /\ UNCHANGED <<queueVars, timerVars, historyVars, consuming, getters, submit_sm_q,
                       submit_retrials, connectors, created, consumer_tag>>

StartCancelled ==
    /\ calls # <<>>
    /\ Head(calls).step = "start.cancel"
    /\ consuming' = FALSE
    /\ calls' = Append(Tail(calls), Call("start.consume", Head(calls).lst))
    /\ UNCHANGED <<queueVars, timerVars, historyVars, getters, submit_sm_q, submit_retrials,
                   session, connectors, created, running, startCounter, consumer_tag>>

\* A consumer tag already in use is refused, and the call returns False with the
\* service running.  Otherwise the new consumer starts with its own prefetch.
StartConsumed ==
    LET l == Head(calls).lst
    IN  /\ calls # <<>>
        /\ Head(calls).step = "start.consume"
        /\ calls' = Tail(calls)
        /\ IF consuming
           THEN UNCHANGED <<consuming, outstanding, getters, submit_sm_q, consumer_tag>>
           ELSE /\ consuming' = TRUE
                /\ outstanding' = Nobody
                /\ getters' = [getters EXCEPT ![l] = @ + 1]
                /\ submit_sm_q' = [submit_sm_q EXCEPT ![l] = TRUE]
                /\ consumer_tag' = [consumer_tag EXCEPT ![l] = TRUE]
        /\ UNCHANGED <<state, holder, timerVars, historyVars, submit_retrials, session,
                       connectors, created, running, startCounter>>

-----------------------------------------------------------------------------
(* perspective_connector_stop and perspective_connector_remove *)

\* Mutant: the parked messages are requeued and their timers left running.
StopKeepsTimers(l) ==
    LET parked == active[l] \cap rejectTimers[l]
    IN  /\ state' = [m \in Msgs |-> IF m \in parked THEN "ready" ELSE state[m]]
        /\ holder' = [m \in Msgs |-> IF m \in parked THEN Nobody ELSE holder[m]]
        /\ outstanding' = IF outstanding \in parked THEN Nobody ELSE outstanding
        /\ rejectTimers' = [rejectTimers EXCEPT ![l] = {}]
        /\ submit_sm_q' = [submit_sm_q EXCEPT ![l] = FALSE]
        /\ UNCHANGED active
        /\ stopService(l)

\* Mutant: the timers are cancelled and the parked messages left where they are.
StopDropsTimers(l) ==
    /\ rejectTimers' = [rejectTimers EXCEPT ![l] = {}]
    /\ active' = [active EXCEPT ![l] = @ \ rejectTimers[l]]
    /\ submit_sm_q' = [submit_sm_q EXCEPT ![l] = FALSE]
    /\ UNCHANGED queueVars
    /\ stopService(l)

\* The rest of perspective_connector_stop, behind the basic_cancel: the parked
\* messages are requeued at once, and their timers cancelled.
StopRunning(l) ==
    LET parked == active[l] \cap rejectTimers[l]
    IN  /\ state' = [m \in Msgs |-> IF m \in parked THEN "ready" ELSE state[m]]
        /\ holder' = [m \in Msgs |-> IF m \in parked THEN Nobody ELSE holder[m]]
        /\ outstanding' = IF outstanding \in parked THEN Nobody ELSE outstanding
        /\ rejectTimers' = [rejectTimers EXCEPT ![l] = {}]
        /\ active' = [active EXCEPT ![l] = @ \ parked]
        /\ submit_sm_q' = [submit_sm_q EXCEPT ![l] = FALSE]
        /\ stopService(l)

StopRest(l) ==
    IF running[l]
    THEN StopRunning(l)
    ELSE UNCHANGED <<queueVars, timerVars, submit_sm_q, running, session>>

StopCall ==
    /\ HasConnector
    /\ IF consumer_tag[Connector]
       THEN /\ Len(calls) < MaxCalls
            /\ calls' = Append(calls, Call("stop", Connector))
            /\ UNCHANGED <<queueVars, timerVars, submit_sm_q, running, session>>
       ELSE StopRest(Connector) /\ UNCHANGED calls
    /\ UNCHANGED <<historyVars, consuming, getters, submit_retrials, connectors, created,
                   startCounter, consumer_tag>>

\* Mutant: the tag is forgotten and the consumer left in place.
CleanedUp(l) ==
    /\ consumer_tag' = [consumer_tag EXCEPT ![l] = FALSE]
    /\ UNCHANGED consuming

Cancelled(l) ==
    /\ consuming' = FALSE
    /\ consumer_tag' = [consumer_tag EXCEPT ![l] = FALSE]

StopCancelled ==
    /\ calls # <<>>
    /\ Head(calls).step = "stop"
    /\ Cancelled(Head(calls).lst)
    /\ StopRest(Head(calls).lst)
    /\ calls' = Tail(calls)
    /\ UNCHANGED <<historyVars, getters, submit_retrials, connectors, created, startCounter>>

\* The service is stopped first, so that perspective_connector_stop, called
\* next, finds it stopped and leaves the parked messages to their timers.
RemoveCall ==
    /\ HasConnector
    /\ IF running[Connector] THEN stopService(Connector) ELSE UNCHANGED <<running, session>>
    /\ IF consumer_tag[Connector]
       THEN /\ Len(calls) < MaxCalls
            /\ calls' = Append(calls, Call("remove", Connector))
            /\ UNCHANGED connectors
       ELSE connectors' = Tail(connectors) /\ UNCHANGED calls
    /\ UNCHANGED <<queueVars, timerVars, historyVars, consuming, getters, submit_sm_q,
                   submit_retrials, created, startCounter, consumer_tag>>

\* delConnector(cid) deletes the first entry with this id, if there is one.
RemoveCancelled ==
    /\ calls # <<>>
    /\ Head(calls).step = "remove"
    /\ Cancelled(Head(calls).lst)
    /\ StopRest(Head(calls).lst)
    /\ connectors' = IF HasConnector THEN Tail(connectors) ELSE connectors
    /\ calls' = Tail(calls)
    /\ UNCHANGED <<historyVars, getters, submit_retrials, created, startCounter>>

-----------------------------------------------------------------------------
\* perspective_submit_sm publishes to submit.sm.<cid>.
Submit(m) ==
    /\ HasConnector
    /\ state[m] = "new"
    /\ state' = [state EXCEPT ![m] = "ready"]
    /\ UNCHANGED <<holder, outstanding, timerVars, historyVars, consuming, getters,
                   submit_sm_q, submit_retrials, session, managerVars>>

ManagerNext ==
    \/ \E l \in Listeners :
          \/ AddCheck(l) \/ SessionBound(l) \/ StartServiceErr(l) \/ DialFails(l)
          \/ SessionLost(l)
    \/ AddRoundTrip \/ AddDone \/ StartCall \/ StartCancelled \/ StartConsumed
    \/ StopCall \/ StopCancelled \/ RemoveCall \/ RemoveCancelled
    \/ \E m \in Msgs : Submit(m) \/ InvalidResponse(m)

Next == ManagerNext \/ (ListenerNext /\ UNCHANGED managerVars)

(***************************************************************************)
(* The reactor runs every callback that is due: the pause of a callback    *)
(* ends, the response timer of an open request fires, a reject timer fires.*)
(* Nothing is assumed of the SMSC, of the operator or of the broker.       *)
(***************************************************************************)
Fairness ==
    /\ \A m \in Msgs : WF_vars(Resume(m) /\ UNCHANGED managerVars)
    /\ \A m \in Msgs : WF_vars(EndRequest(m) /\ UNCHANGED managerVars)
    /\ \A l \in Listeners, m \in Msgs :
          WF_vars(RejectTimerFires(l, m) /\ UNCHANGED managerVars)

Spec == Init /\ [][Next]_vars
FairSpec == Spec /\ Fairness

-----------------------------------------------------------------------------
(* Properties *)

\* The shape of the state.
TypeOK ==
    /\ state \in [Msgs -> MsgStates]
    /\ holder \in [Msgs -> Listeners \cup {Nobody}]
    /\ outstanding \in Msgs \cup {Nobody}
    /\ consuming \in BOOLEAN
    /\ getters \in [Listeners -> Nat]
    /\ submit_sm_q \in [Listeners -> BOOLEAN]
    /\ submit_retrials \in [Listeners -> [Msgs -> Nat]]
    /\ rejectTimers \in [Listeners -> SUBSET Msgs]
    /\ active \in [Listeners -> SUBSET Msgs]
    /\ session \in [Listeners -> Sessions]
    /\ errRetries \in [Listeners -> [Msgs -> [RetriableErrors -> Nat]]]
    /\ final \in [Msgs -> Statuses \cup {"none"}]
    /\ connectors \in Seq(Listeners)
    /\ created \subseteq Listeners
    /\ running \in [Listeners -> BOOLEAN]
    /\ startCounter \in [Listeners -> Nat]
    /\ consumer_tag \in [Listeners -> BOOLEAN]
    /\ calls \in Seq(Calls)

\* A delivery that submit_sm_callback left unacknowledged always has a reject
\* timer still to fire, whichever start, stop or removal of the connector came
\* in between: no message is left in the hands of nobody, holding the prefetch
\* slot of its consumer.
NoStrandedDelivery ==
    \A m \in Msgs : state[m] = "parked" => \E l \in Listeners : m \in active[l]

\* A pending reject timer belongs to the delivery that its listener still holds:
\* when it fires it never rejects a message that was acknowledged, requeued or
\* delivered again meanwhile (a second settlement of a delivery tag closes the
\* AMQP channel), and no two listeners have a timer for one message.
TimerHoldsItsDelivery ==
    \A l \in Listeners : \A m \in active[l] : state[m] = "parked" /\ holder[m] = l

\* When a submit_sm_resp arrives its msgid is in submit_retrials of the listener
\* that sent the message: the lookups and the del in submit_sm_resp_event never
\* raise a KeyError, which would skip the ack.
RetrialsTracked ==
    \A m \in Msgs : state[m] = "sent" => submit_retrials[holder[m]][m] > 0

\* A listener requeues a message for one and the same error fewer times than the
\* count of submit_error_retrial, whatever other requeues come in between: the
\* first sending is counted too (listeners.py:381).  misc/config/jasmin.cfg:224
\* promises one more, "submit_sm retrial will be executed 'count' times"; this
\* is the bound of the code.
RetriesBounded ==
    \A l \in Listeners, m \in Msgs, e \in RetriableErrors :
        errRetries[l][m][e] > 0 => errRetries[l][m][e] < RetrialCount[e]

\* While the broker has a consumer for the queue, a listener that can handle a
\* message waits on the local queue: deliveries do not pile up unread (the
\* "dark hole" of clients.py:369-370).
ConsumerIsListenedTo ==
    consuming => \E l \in Listeners : getters[l] > 0 /\ submit_sm_q[l]

\* A message acknowledged or discarded stays so: no late timer or response puts
\* it back into the queue to be sent again.
SettledIsFinal ==
    [][\A m \in Msgs : state[m] \in Settled => state'[m] = state[m]]_vars

\* A reject timer goes away only by giving its message back to the queue.
\* Stopping the connector must requeue the messages of the timers it clears
\* ("to avoid loosing messages after clearing timers", clients.py:440).
TimersGiveMessagesBack ==
    [][\A l \in Listeners : \A m \in active[l] :
          m \notin active'[l] => state'[m] = "ready"]_vars

\* Every delivery ends: the message is acknowledged, discarded or back in the
\* queue, however often the connector is stopped, removed and started, and
\* whatever the SMSC does but one thing: a response of another type leaves the
\* delivery unacknowledged for good (protocol.py:141-146).
EveryDeliverySettles ==
    \A m \in Msgs :
        state[m] \in Unacked ~> state[m] \notin Unacked \/ state[m] = "unanswered"

(* The inductive invariant behind the properties above. *)

\* Every unacknowledged delivery is with a listener, and a message is parked
\* exactly when its holder has a timer for it, kept under its msgid.
DeliveryInv ==
    /\ \A m \in Msgs : state[m] \in Unacked => holder[m] \in Listeners
    /\ \A l \in Listeners : active[l] \subseteq rejectTimers[l]
    /\ NoStrandedDelivery
    /\ TimerHoldsItsDelivery

\* A delivery is counted before it is sent, so the retries made for an error
\* stay behind the deliveries counted, until the message is settled.
RetrialInv ==
    \A l \in Listeners, m \in Msgs :
        /\ state[m] \in Unacked /\ holder[m] = l => submit_retrials[l][m] > 0
        /\ \A e \in RetriableErrors :
              /\ errRetries[l][m][e] > 0 => errRetries[l][m][e] < RetrialCount[e]
              /\ state[m] \notin Settled => errRetries[l][m][e] =< submit_retrials[l][m]
              /\ state[m] \in {"paused", "sent"} /\ holder[m] = l
                    => errRetries[l][m][e] < submit_retrials[l][m]

\* The consumer was started by a connector that still has its tag.
ConsumerInv ==
    consuming => \E l \in Listeners : consumer_tag[l] /\ getters[l] > 0 /\ submit_sm_q[l]

IInv == TypeOK /\ DeliveryInv /\ RetrialInv /\ ConsumerInv

=============================================================================
