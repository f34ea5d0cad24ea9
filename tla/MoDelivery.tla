----------------------------- MODULE MoDelivery -----------------------------
(***************************************************************************)
(* The way of a message from an SMSC to its receiver: the connector's      *)
(* listener takes the PDU, intercepts it, puts long messages together and  *)
(* publishes (managers/listeners.py); the router chooses the connectors    *)
(* (routing/router.py); the throwers deliver to an HTTP server or a bound  *)
(* SMPP client, try again, or give up (routing/throwers.py).  Delivery     *)
(* receipts enter at the throwers.  Between them are broker queues with    *)
(* manual acknowledgement: what is not settled when the process ends comes *)
(* back.                                                                   *)
(***************************************************************************)
EXTENDS Integers, FiniteSets

CONSTANTS
    Shorts,         \* messages of one PDU
    Long,           \* a long message, once put together
    Parts,          \* how many PDUs it comes in
    HttpDlrs,       \* receipts for an HTTP server
    SmppDlrs,       \* receipts for an SMPP client
    DlrId,          \* the message-id of the receipts, which are of one message
    Routes,         \* what routing may choose: type, route type, connectors
    Scenes,         \* what is on its way together: messages, and parts left in
                    \* Redis of an earlier message with the same reference
    None,
    MaxRetries,     \* max_retries of the throwers
    MaxRestarts,    \* bound: restarts
    MaxTakes        \* bound: how often a message reaches a receiver

Dlrs == HttpDlrs \cup SmppDlrs
PartsOfLong == {<<Long, k>> : k \in 1 .. Parts}
Items == Shorts \cup PartsOfLong \cup {Long} \cup Dlrs

ASSUME DeliveryConstants ==
    /\ Parts \in Nat \ {0, 1} /\ MaxRetries \in Nat /\ MaxRestarts \in Nat /\ MaxTakes \in Nat
    /\ Long \notin Shorts \cup PartsOfLong \cup Dlrs
    /\ Dlrs \cap (Shorts \cup PartsOfLong) = {} /\ HttpDlrs \cap SmppDlrs = {}
    /\ Shorts \cap PartsOfLong = {}
    /\ DlrId \notin Items /\ None \notin Items /\ None \notin Routes
    /\ \A scene \in Scenes : /\ scene.msgs \subseteq Shorts \cup PartsOfLong \cup Dlrs
                              /\ scene.old \subseteq 1 .. Parts
    /\ \A r \in Routes : /\ r.type \in {"http", "smpps"} /\ r.n \in Nat \ {0}
                         /\ r.mode = "simple" => r.n = 1

\* message-id, the key of the throwers' timers and retrials.
msgid(i) == IF i \in Dlrs THEN DlrId ELSE i
Ids == {msgid(i) : i \in Items}

VARIABLES
    stage,      \* where each message is
    hash,       \* the longDeliverSm hash in Redis: the numbers of the parts in it
    ttl,        \* the hash has an expiry
    fresh,      \* parts whose HSET made a new field
    route,      \* the route a message was given
    dc,         \* the connector it is being thrown to, by position
    requeueTimers,      \* message-id -> the message its timer gives back
    throwing_retrials,  \* message-id -> count, 0 for no entry
    tries,      \* history: throws of a message since the process started
    reached,    \* messages whose receiver took the throw under way
    takes,      \* history: how often a message was taken
    unheard,    \* history: how often the thrower did not hear of it
    notFound,   \* history: messages an HTTP server answered 404 to
    restarts

\* The receipt's headers name the one receiver it is for.
DlrRoute(t) == [type |-> t, mode |-> "simple", n |-> 1]

redis == <<hash, ttl, fresh>>
memory == <<requeueTimers, throwing_retrials>>
history == <<tries, reached, takes, unheard, notFound>>
vars == <<stage, redis, route, dc, memory, history, restarts>>

Init ==
    /\ \E scene \in Scenes :
          /\ stage = [i \in Items |-> IF i \notin scene.msgs THEN "none"
                                      ELSE IF i \in Dlrs THEN "throwerq" ELSE "smsc"]
          /\ hash = scene.old /\ ttl = (scene.old # {})
    /\ fresh = {}
    /\ route = [i \in Items |-> IF i \in Dlrs
                                THEN DlrRoute(IF i \in HttpDlrs THEN "http" ELSE "smpps")
                                ELSE None]
    /\ dc = [i \in Items |-> 0]
    /\ requeueTimers = [m \in Ids |-> None]
    /\ throwing_retrials = [m \in Ids |-> 0]
    /\ tries = [i \in Items |-> 0]
    /\ reached = {}
    /\ takes = [i \in Items |-> 0] /\ unheard = [i \in Items |-> 0]
    /\ notFound = {}
    /\ restarts = 0

To(i, s) == stage' = [stage EXCEPT ![i] = s]

-----------------------------------------------------------------------------
(* The listener of the connector. *)

\* With an interceptor for it, the message waits for the script; without a
\* connection to the interceptor's process it is refused.
deliver_sm_event_interceptor(i) ==
    /\ stage[i] = "smsc"
    /\ \E next \in {"script", "refused", "received"} : To(i, next)
    /\ UNCHANGED <<redis, route, dc, memory, history, restarts>>

\* The script returns the message, or a status to refuse it with, or fails.
ScriptReturns(i) ==
    /\ stage[i] = "script"
    /\ \E next \in {"refused", "received"} : To(i, next)
    /\ UNCHANGED <<redis, route, dc, memory, history, restarts>>

\* A short message is published.  A part is first stored under its number,
\* over what is there; the message is refused if Redis does not answer, and
\* accepted and lost if there is no client of Redis.
deliver_sm_event_post_interception(i) ==
    /\ stage[i] = "received"
    /\ \/ i \in Shorts /\ To(i, "routerq") /\ UNCHANGED redis
       \/ /\ i \in PartsOfLong
          /\ hash' = hash \cup {i[2]}
          /\ fresh' = IF i[2] \in hash THEN fresh \ {i} ELSE fresh \cup {i}
          /\ \E next \in {"stored", "refused"} : To(i, next)
          /\ UNCHANGED ttl
       \/ /\ i \in PartsOfLong
          /\ \E next \in {"refused", "lost"} : To(i, next)
          /\ UNCHANGED redis
    /\ UNCHANGED <<route, dc, memory, history, restarts>>

\* The last part puts the message together, when all parts are there.
ConcatNow(k) == k = Parts /\ Cardinality(hash) = Parts

\* A part whose field was there already is not looked at further.  The whole
\* message is published first, then the part, flagged will_be_concatenated.
concatDeliverSMs(i) ==
    /\ stage[i] = "stored"
    /\ stage' = [stage EXCEPT ![i] = "routerq",
                              ![Long] = IF i \in fresh /\ ConcatNow(i[2]) THEN "routerq" ELSE @]
    /\ ttl' = (ttl \/ (i \in fresh /\ hash # {}))
    /\ UNCHANGED <<hash, fresh, route, dc, memory, history, restarts>>

\* EXPIRE: the hash goes 300 seconds after it was last set.
Expire ==
    /\ ttl
    /\ ttl' = FALSE /\ hash' = {}
    /\ UNCHANGED <<stage, fresh, route, dc, memory, history, restarts>>

-----------------------------------------------------------------------------
(* The router. *)

\* Only HTTP takes the message put together, only SMPP the parts.
Unroutable(i, r) ==
    \/ i = Long /\ r.type # "http"
    \/ i \in PartsOfLong /\ r.type = "http"

\* No route, or one that does not take the message: it is rejected.
\* Otherwise it is acknowledged.
deliver_sm_callback(i) ==
    /\ stage[i] = "routerq"
    /\ \/ To(i, "rejected") /\ UNCHANGED route
       \/ \E r \in Routes :
             /\ ~Unroutable(i, r)
             /\ route' = [route EXCEPT ![i] = r]
             /\ To(i, "routed")
    /\ UNCHANGED <<redis, dc, memory, history, restarts>>

\* ... and, once acknowledged, published for the thrower.
PublishRouted(i) ==
    /\ stage[i] = "routed"
    /\ To(i, "throwerq")
    /\ UNCHANGED <<redis, route, dc, memory, history, restarts>>

-----------------------------------------------------------------------------
(* The throwers. *)

incThrowingRetrials(i) == [throwing_retrials EXCEPT ![msgid(i)] = @ + 1]
delThrowingRetrials(i) == [throwing_retrials EXCEPT ![msgid(i)] = 0]
clearRequeueTimer(m) == [requeueTimers EXCEPT ![m] = None]

\* The thrower takes a message: it counts the try, asks for the next message
\* and clears the timer of this message-id.  smpp_dlr_callback looks for the
\* timer under the encoded message-id, where there is none.
throwing_callback(i) ==
    /\ stage[i] = "throwerq"
    /\ To(i, "throwing")
    /\ throwing_retrials' = incThrowingRetrials(i)
    /\ requeueTimers' = IF i \in SmppDlrs THEN requeueTimers ELSE clearRequeueTimer(msgid(i))
    /\ dc' = [dc EXCEPT ![i] = 1]
    /\ tries' = [tries EXCEPT ![i] = @ + 1]
    /\ UNCHANGED <<redis, route, reached, takes, unheard, notFound, restarts>>

ackMessage(i) ==
    /\ To(i, "delivered")
    /\ throwing_retrials' = delThrowingRetrials(i)
    /\ UNCHANGED requeueTimers

\* Mutant: the count stays behind.
RejectUncleared(i) == To(i, "rejected") /\ UNCHANGED memory

rejectMessage(i) ==
    /\ To(i, "rejected")
    /\ throwing_retrials' = delThrowingRetrials(i)
    /\ UNCHANGED requeueTimers

\* Mutant: the old timer is cleared after the new one is set.
SetThenClear(i) ==
    /\ To(i, "waiting")
    /\ requeueTimers' = clearRequeueTimer(msgid(i))
    /\ UNCHANGED throwing_retrials

\* A timer of the same message-id is cancelled, whichever message it is for.
rejectAndRequeueMessage(i) ==
    /\ To(i, "waiting")
    /\ requeueTimers' = [requeueTimers EXCEPT ![msgid(i)] = i]
    /\ UNCHANGED throwing_retrials

\* Mutant: the timer fires more than once.
FiresAgain(m) ==
    /\ requeueTimers[m] # None
    /\ To(requeueTimers[m], "throwerq")
    /\ UNCHANGED <<redis, route, dc, memory, history, restarts>>

\* The timer's call: rejectMessage with requeue=1.
TimerFires(m) ==
    /\ requeueTimers[m] # None
    /\ To(requeueTimers[m], "throwerq")
    /\ requeueTimers' = clearRequeueTimer(m)
    /\ UNCHANGED <<redis, route, dc, throwing_retrials, history, restarts>>

\* Mutant: one try more.
RetryOnceMore(i, outcome) ==
    /\ outcome # "unset"
    /\ throwing_retrials[msgid(i)] <= MaxRetries + 1

\* noRetryErrors holds '404' and is compared with str(e), the whole text of
\* the error, so that no error is in it.
Retried(i, outcome) ==
    /\ outcome # "unset"
    /\ throwing_retrials[msgid(i)] <= MaxRetries

\* Mutant: the loop goes on after a connector took the message.
GoesOn(i, outcome) == route[i].mode = "failover" /\ dc[i] < route[i].n

\* A failover route turns to its next connector.
NextConnector(i, outcome) ==
    /\ outcome # "ok"
    /\ route[i].mode = "failover"
    /\ dc[i] < route[i].n

\* The receiver takes the message that is being thrown to it.  One that comes to
\* it after the thrower's time-out counts as taken before that.
ReceiverTakes(i) ==
    /\ stage[i] = "throwing" /\ i \notin reached /\ takes[i] < MaxTakes
    /\ reached' = reached \cup {i}
    /\ takes' = [takes EXCEPT ![i] = @ + 1]
    /\ UNCHANGED <<stage, redis, route, dc, memory, tries, unheard, notFound, restarts>>

\* The thrower hears of a message taken only by its acknowledgement.
Hears(i, outcome) ==
    /\ IF i \in reached THEN outcome \in {"ok", "failed"} ELSE outcome # "ok"
    /\ reached' = reached \ {i}
    /\ unheard' = IF i \in reached /\ outcome # "ok" THEN [unheard EXCEPT ![i] = @ + 1] ELSE unheard
    /\ notFound' = IF outcome = "404" THEN notFound \cup {i} ELSE notFound
    /\ UNCHANGED takes

\* What becomes of a message with one receiver.
Settle(i, outcome) ==
    \/ outcome = "ok" /\ ackMessage(i)
    \/ outcome # "ok" /\ Retried(i, outcome) /\ rejectAndRequeueMessage(i)
    \/ outcome # "ok" /\ ~Retried(i, outcome) /\ rejectMessage(i)

\* One turn of the loop over the connectors of the route.  After the last
\* connector of a failover route nothing is said to the broker.
Iterate(i, outcome) ==
    \/ /\ NextConnector(i, outcome)
       /\ dc' = [dc EXCEPT ![i] = @ + 1]
       /\ UNCHANGED <<stage, memory>>
    \/ /\ ~NextConnector(i, outcome) /\ UNCHANGED dc
       /\ IF outcome # "ok" /\ route[i].mode = "failover"
          THEN To(i, "open") /\ UNCHANGED memory
          ELSE Settle(i, outcome)

\* The server acknowledges; or it cannot be reached, does not answer in time,
\* answers with an error or without the acknowledgement; or answers 404.
HttpOutcomes == {"ok", "failed", "404"}

\* The client answers; or it is not bound, has no connection to deliver on,
\* answers with an error or not in time; or no SMPP server is set yet.
SmppOutcomes == {"ok", "failed", "unset"}

\* The throws of a message are counted until it is done with.
Forgets(i) == tries' = IF stage'[i] \in {"delivered", "rejected"} THEN [tries EXCEPT ![i] = 0] ELSE tries

\* A PDU in which no content is found is rejected before the loop.
NoContent(i) ==
    /\ i \in Shorts /\ tries[i] = 1 /\ dc[i] = 1 /\ i \notin reached
    /\ rejectMessage(i)
    /\ UNCHANGED <<dc, reached, takes, unheard, notFound>>

http_deliver_sm_callback(i) ==
    /\ stage[i] = "throwing" /\ i \notin Dlrs /\ route[i].type = "http"
    /\ \/ NoContent(i)
       \/ \E outcome \in HttpOutcomes : Hears(i, outcome) /\ Iterate(i, outcome)
    /\ Forgets(i)
    /\ UNCHANGED <<redis, route, restarts>>

smpp_deliver_sm_callback(i) ==
    /\ stage[i] = "throwing" /\ i \notin Dlrs /\ route[i].type = "smpps"
    /\ \E outcome \in SmppOutcomes : Hears(i, outcome) /\ Iterate(i, outcome)
    /\ Forgets(i)
    /\ UNCHANGED <<redis, route, restarts>>

http_dlr_callback(i) ==
    /\ stage[i] = "throwing" /\ i \in HttpDlrs
    /\ \E outcome \in HttpOutcomes : Hears(i, outcome) /\ Settle(i, outcome)
    /\ Forgets(i)
    /\ UNCHANGED <<redis, route, dc, restarts>>

smpp_dlr_callback(i) ==
    /\ stage[i] = "throwing" /\ i \in SmppDlrs
    /\ \E outcome \in SmppOutcomes : Hears(i, outcome) /\ Settle(i, outcome)
    /\ Forgets(i)
    /\ UNCHANGED <<redis, route, dc, restarts>>

\* The process ends and starts again: the SMSC sends again what it had no
\* answer to, the broker what was not settled; a message acknowledged and
\* not yet published is gone.
AfterRestart(s) ==
    CASE s \in {"script", "received", "stored"} -> "smsc"
      [] s = "routed" -> "lost"
      [] s \in {"throwing", "waiting", "open"} -> "throwerq"
      [] OTHER -> s

Restart ==
    /\ restarts < MaxRestarts
    /\ restarts' = restarts + 1
    /\ stage' = [i \in Items |-> AfterRestart(stage[i])]
    /\ requeueTimers' = [m \in Ids |-> None]
    /\ throwing_retrials' = [m \in Ids |-> 0]
    /\ tries' = [i \in Items |-> 0]
    /\ notFound' = {}
    /\ reached' = {}
    /\ unheard' = [i \in Items |-> IF i \in reached THEN unheard[i] + 1 ELSE unheard[i]]
    /\ UNCHANGED <<redis, route, dc, takes>>

Progress(i) ==
    \/ deliver_sm_event_interceptor(i)
    \/ ScriptReturns(i)
    \/ deliver_sm_event_post_interception(i)
    \/ concatDeliverSMs(i)
    \/ deliver_sm_callback(i)
    \/ PublishRouted(i)
    \/ throwing_callback(i)
    \/ http_deliver_sm_callback(i)
    \/ smpp_deliver_sm_callback(i)
    \/ http_dlr_callback(i)
    \/ smpp_dlr_callback(i)

Next ==
    \/ \E i \in Items : Progress(i) \/ ReceiverTakes(i)
    \/ \E m \in Ids : TimerFires(m)
    \/ Expire
    \/ Restart

Spec == Init /\ [][Next]_vars

\* The reactor runs every callback, the broker delivers, scripts and
\* receivers answer or time out, and timers fire.
Fairness ==
    /\ \A i \in Items : WF_vars(Progress(i))
    /\ \A m \in Ids : WF_vars(TimerFires(m))

FairSpec == Spec /\ Fairness

-----------------------------------------------------------------------------
(* Properties. *)

OwnId(i) == i \notin Dlrs

\* A message that waits for its next try is the one its timer gives back
\* (rejectAndRequeueMessage, clearRequeueTimer): nothing else will, before a
\* restart.  Receipts of one message share the timer and are left out.
WaitingHasTimer ==
    \A i \in Items : OwnId(i) => (stage[i] = "waiting" <=> requeueTimers[msgid(i)] = i)

\* A message is thrown once and then at most max_retries times again; a
\* message the thrower is done with leaves no count behind (throwing_callback,
\* ackMessage, rejectMessage).
RetriesBounded ==
    \A i \in Items : OwnId(i) =>
        /\ tries[i] <= MaxRetries + 1
        /\ throwing_retrials[msgid(i)] = tries[i]

\* Over retries, failover and restarts, a message is taken again only when the
\* thrower did not hear of it the time before: no acknowledgement came in time, or
\* the process ended between the acknowledgement and the basic_ack.  The one it
\* heard of is the last (the break in the loops over the connectors).
OneTaker ==
    \A i \in Items :
        takes[i] = unheard[i] + (IF i \in reached \/ stage[i] = "delivered" THEN 1 ELSE 0)

\* An HTTP server gets a long message once, put together, and an SMPP client
\* its parts (deliver_sm_callback on concatenated and will_be_concatenated).
FormFits ==
    \A i \in Items : takes[i] > 0 =>
        /\ i = Long => route[i].type = "http"
        /\ i \in PartsOfLong => route[i].type = "smpps"

Stages == {"none", "smsc", "script", "refused", "received", "stored", "routerq", "routed",
           "throwerq", "throwing", "waiting", "open", "delivered", "rejected", "lost"}

TypeOK ==
    /\ stage \in [Items -> Stages]
    /\ hash \subseteq 1 .. Parts /\ fresh \subseteq PartsOfLong
    /\ route \in [Items -> Routes \cup {None, DlrRoute("http"), DlrRoute("smpps")}]
    /\ dc \in [Items -> Nat]
    /\ requeueTimers \in [Ids -> Items \cup {None}]
    /\ throwing_retrials \in [Ids -> Nat]
    /\ tries \in [Items -> Nat]
    /\ reached \subseteq Items /\ takes \in [Items -> Nat] /\ unheard \in [Items -> Nat]
    /\ restarts \in Nat

\* The inductive invariant: the properties, and what they rest on at the stages
\* between.  A message is counted only by the throwers, one that will be thrown
\* again has a try left, and one that was routed is on a route that takes it.
Routed == {"routed", "throwerq", "throwing", "waiting", "open", "delivered"}
Untried == {"none", "smsc", "script", "refused", "received", "stored", "routerq", "routed"}

ItemInv(i) ==
    /\ i \in reached => stage[i] = "throwing"
    /\ takes[i] = unheard[i] + (IF i \in reached \/ stage[i] = "delivered" THEN 1 ELSE 0)
    /\ OwnId(i) =>
          /\ stage[i] = "waiting" => requeueTimers[i] = i
          /\ tries[i] <= MaxRetries + 1
          /\ throwing_retrials[i] = tries[i]
          /\ stage[i] \in Untried => tries[i] = 0 /\ takes[i] = 0
          /\ stage[i] \in {"throwerq", "waiting"} => tries[i] <= MaxRetries
          /\ stage[i] \in Routed \/ takes[i] > 0 => route[i] \in Routes /\ ~Unroutable(i, route[i])

\* A timer is for a message of its message-id, and that message waits.
TimerInv ==
    \A m \in Ids : requeueTimers[m] # None =>
        msgid(requeueTimers[m]) = m /\ stage[requeueTimers[m]] = "waiting"

Stored(k) == stage[<<Long, k>>] \notin {"none", "smsc", "script", "received", "refused"}

\* The last part puts the message together, once.
ConcatInv == ~Stored(Parts) \/ stage[<<Long, Parts>>] = "stored" => stage[Long] = "none"

IInv == TypeOK /\ TimerInv /\ ConcatInv /\ \A i \in Items : ItemInv(i)

\* Every message the SMSC sent is refused, or delivered, or given up in the end,
\* unless the process ended between acknowledging and publishing it, there is no
\* client of Redis, or every connector of a failover route failed (Iterate).
MessageSettles ==
    <>[](\A i \in Items : OwnId(i) =>
            stage[i] \in {"none", "refused", "delivered", "rejected", "lost", "open"})

Done == {"refused", "delivered", "rejected", "lost"}

\* A message that was refused to the SMSC, delivered, rejected, or lost between two
\* queues is not moved or taken again: not by a late timer of its message-id, which
\* receipts share, nor by another part or a restart (ackMessage, rejectMessage,
\* clearRequeueTimer).
DoneIsFinal ==
    [][\A n \in Items : stage[n] \in Done => stage'[n] = stage[n] /\ takes'[n] = takes[n]]_vars

-----------------------------------------------------------------------------
(* What the repository says and the code does not do. *)

\* "When receiving a 404 error, no further retries shall be made":
\* a message a server answered 404 to is not thrown to it again (Retried).
NotFoundIsFinal ==
    \A i \in notFound : route[i].mode = "simple" => tries[i] <= 1 /\ stage[i] # "waiting"
=============================================================================
