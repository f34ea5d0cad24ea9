------------------------------ MODULE Billing ------------------------------
(***************************************************************************)
(* The quotas of one user (routing/jasminApi.py) and everything that takes *)
(* from them: the HTTP send endpoint and the SMPP server's submit_sm event *)
(* charge the router's user before they hand a message to the SMPP client  *)
(* manager; the listener publishes a bill request when the SMSC has        *)
(* acknowledged the message, and the router charges the rest.              *)
(*                                                                         *)
(* The router holds User objects.  An administrator replaces the object of *)
(* a user by adding the user again, so a request that was suspended in the *)
(* interceptor, or an SMPP session bound earlier, may still refer to the   *)
(* old one.  The SMPP path even works on a pickled copy of the user after  *)
(* an interception.  Amounts are in a unit that makes every share of the   *)
(* rate a whole number.                                                    *)
(***************************************************************************)
EXTENDS Integers

CONSTANTS
    Msgs,       \* messages that clients send for this user
    Parts,      \* submit_sm PDUs of each message
    Objs,       \* User objects ever made for this uid
    None,       \* Python's None
    Rate,       \* the rate of the route, the same for all
    Quotas,     \* quotas that an administrator gives a new user
    Settings,   \* values that an administrator sets the balance to
    Updates,    \* differences that an administrator adds to the balance
    MaxAdmin    \* bound: calls of the administrator

Amounts == Int \cup {None}

\* The quotas of a MtMessagingCredential.  whole: the balance is an int, not a
\* float; percent is early_decrement_balance_percent.
QuotaRecords == [balance : Amounts, whole : BOOLEAN, submit_sm_count : Amounts,
                 percent : 1 .. 100 \cup {None}]

\* A request holds the object itself, or a copy of its quotas.
Holds == [obj : Objs, copied : BOOLEAN, quota : QuotaRecords]

ASSUME BillingConstants ==
    /\ Parts \in [Msgs -> Nat \ {0}]
    /\ Rate \in Nat
    /\ None \notin Int \cup Objs /\ None \notin Holds
    /\ Quotas \subseteq QuotaRecords
    /\ Settings \subseteq Nat \cup {None}
    /\ Updates \subseteq Int
    /\ MaxAdmin \in Nat

\* What a message costs at most.
Price == [m \in Msgs |-> Rate * Parts[m]]

VARIABLES
    quota,      \* the quotas of each User object
    live,       \* the object that RouterPB.users holds for the uid, or None
    bound,      \* proto.user of the SMPP session, or None
    made,       \* User objects made so far
    req,        \* where each message is: see ReqStates
    held,       \* the user a suspended request goes on with
    due,        \* what the bill of a submitted message leaves for submit_sm_resp
    billq,      \* the bill request of each message: see BillStates
    admin,      \* calls of the administrator so far
    paid,       \* history: what was taken for each message
    refusal     \* history: why a message was refused

vars == <<quota, live, bound, made, req, held, due, billq, admin, paid, refusal>>
userVars == <<quota, live, bound, made, admin>>

ReqStates == {"new", "valid", "http", "smpps", "queued", "acked", "failed", "refused"}
BillStates == {"none", "queued", "acked", "rejected", "unsettled", "lost"}
Refusals == {"none", "early", "charging", "stale", "submit"}

\* The quotas that a suspended request goes on with.
View(h) == IF h.copied THEN h.quota ELSE quota[h.obj]

Init ==
    /\ \E q \in Quotas : quota = [o \in Objs |-> q]
    /\ \E o \in Objs : live = o /\ made = {o}
    /\ bound = None
    /\ req = [m \in Msgs |-> "new"]
    /\ held = [m \in Msgs |-> None]
    /\ due = [m \in Msgs |-> 0]
    /\ billq = [m \in Msgs |-> "none"]
    /\ admin = 0
    /\ paid = [m \in Msgs |-> 0]
    /\ refusal = [m \in Msgs |-> "none"]

-----------------------------------------------------------------------------
(* The bill of a route, and the charge. *)

\* Mutant: the whole rate is billed with the submit_sm_resp too.
BilledTwice(q) ==
    LET rated == Rate > 0 /\ q.balance # None
        early == IF q.percent = None THEN Rate ELSE (Rate * q.percent) \div 100
    IN  [submit_sm |-> IF rated THEN early ELSE 0,
         submit_sm_resp |-> IF rated THEN Rate ELSE 0,
         decrement |-> IF q.submit_sm_count # None THEN 1 ELSE 0]

\* Route.getBillFor(user).
getBillFor(q) ==
    LET rated == Rate > 0 /\ q.balance # None
        early == IF q.percent = None THEN Rate ELSE (Rate * q.percent) \div 100
    IN  [submit_sm |-> IF rated THEN early ELSE 0,
         submit_sm_resp |-> IF rated THEN Rate - early ELSE 0,
         decrement |-> IF q.submit_sm_count # None THEN 1 ELSE 0]

\* The charging_requirements: the quotas of the request's user cover the bill.
Requirements(q, bill, n) ==
    /\ q.balance # None /\ bill.submit_sm + bill.submit_sm_resp > 0
          => (bill.submit_sm + bill.submit_sm_resp) * n =< q.balance
    /\ q.submit_sm_count # None => bill.decrement * n =< q.submit_sm_count

Charge(ok, take, count) == [ok |-> ok, take |-> take, count |-> count]

\* Mutant: the requirements are trusted and the balance not looked at again.
ChargesUnchecked(q, n) ==
    LET bill == getBillFor(q)
        now == bill.submit_sm * n
        count == bill.decrement * n
    IN  IF ~Requirements(q, bill, n) THEN Charge(FALSE, 0, 0)
        ELSE IF live = None THEN Charge(now = 0 /\ count = 0, 0, 0)
        ELSE Charge(TRUE, IF quota[live].balance = None THEN 0 ELSE now,
                    IF quota[live].submit_sm_count = None THEN 0 ELSE count)

\* Mutant: the requirements are not looked at.
ChargesUnasked(q, n) ==
    LET bill == getBillFor(q)
        now == bill.submit_sm * n
        count == bill.decrement * n
        lq == quota[live]
        pays == now > 0 /\ lq.balance # None
        counts == count > 0 /\ lq.submit_sm_count # None
    IN  IF live = None THEN Charge(now = 0 /\ count = 0, 0, 0)
        ELSE IF pays /\ (lq.balance < now \/ lq.whole) THEN Charge(FALSE, 0, 0)
        ELSE IF counts /\ lq.submit_sm_count < count
             THEN Charge(FALSE, IF pays THEN now ELSE 0, 0)
        ELSE Charge(TRUE, IF pays THEN now ELSE 0, IF counts THEN count ELSE 0)

\* RouterPB.chargeUserForSubmitSms: the requirements were computed from the
\* request's user, the charge is made to the router's.  A user that is gone
\* raises as soon as there is something to charge; so does a float taken from an
\* int balance.  The balance is charged before the count is found too low.
chargeUserForSubmitSms(q, n) ==
    LET bill == getBillFor(q)
        now == bill.submit_sm * n
        count == bill.decrement * n
        lq == quota[live]
        pays == now > 0 /\ lq.balance # None
        counts == count > 0 /\ lq.submit_sm_count # None
    IN  IF ~Requirements(q, bill, n) THEN Charge(FALSE, 0, 0)
        ELSE IF live = None THEN Charge(now = 0 /\ count = 0, 0, 0)
        ELSE IF pays /\ (lq.balance < now \/ lq.whole) THEN Charge(FALSE, 0, 0)
        ELSE IF counts /\ lq.submit_sm_count < count
             THEN Charge(FALSE, IF pays THEN now ELSE 0, 0)
        ELSE Charge(TRUE, IF pays THEN now ELSE 0, IF counts THEN count ELSE 0)

Minus(a, d) == IF d = 0 THEN a ELSE a - d

Deduct(take, count) ==
    quota' = IF live = None THEN quota
             ELSE [quota EXCEPT ![live].balance = Minus(@, take),
                                ![live].submit_sm_count = Minus(@, count)]

-----------------------------------------------------------------------------
(* Send.route_routable and SMPPServerFactory.submit_sm_post_interception,    *)
(* behind the interception.                                                  *)

Refuse(m, why) ==
    /\ req' = [req EXCEPT ![m] = "refused"]
    /\ refusal' = [refusal EXCEPT ![m] = why]
    /\ UNCHANGED <<due, billq>>

\* Mutant: the rest of the bill is not multiplied by the number of parts.
SubmittedOnePart(m, q) ==
    /\ req' = [req EXCEPT ![m] = "queued"]
    /\ due' = [due EXCEPT ![m] = getBillFor(q).submit_sm_resp]
    /\ UNCHANGED <<refusal, billq>>

\* perspective_submit_sm publishes the message with its bill.
Submitted(m, q) ==
    /\ req' = [req EXCEPT ![m] = "queued"]
    /\ due' = [due EXCEPT ![m] = getBillFor(q).submit_sm_resp * Parts[m]]
    /\ UNCHANGED <<refusal, billq>>

\* No route, no bound connector on a failover route, a script that refuses, or a
\* user faster than the throughput allows: nothing has been charged.
RefusedEarly(m) ==
    /\ Refuse(m, "early")
    /\ UNCHANGED <<quota, paid>>

\* Charged, and then handed to the client manager, which refuses a connector it
\* does not know and any message while the broker is not connected.
ChargeAndSubmit(m, q) ==
    LET c == chargeUserForSubmitSms(q, Parts[m])
    IN  /\ Deduct(c.take, c.count)
        /\ paid' = [paid EXCEPT ![m] = @ + c.take]
        /\ IF c.ok
           THEN Submitted(m, q) \/ Refuse(m, "submit")
           ELSE Refuse(m, IF live # None /\ q = quota[live] THEN "charging" ELSE "stale")

Route(m, q) ==
    /\ RefusedEarly(m) \/ ChargeAndSubmit(m, q)
    /\ held' = [held EXCEPT ![m] = None]
    /\ UNCHANGED <<live, bound, made, admin>>

Suspend(m, s, h) ==
    /\ req' = [req EXCEPT ![m] = s]
    /\ held' = [held EXCEPT ![m] = h]
    /\ UNCHANGED <<userVars, due, billq, paid, refusal>>

\* HTTP: the arguments are validated, and route_routable is left to the reactor.
render_POST(m) ==
    /\ req[m] = "new"
    /\ \/ req' = [req EXCEPT ![m] = "valid"] /\ UNCHANGED <<refusal, due, billq>>
       \/ Refuse(m, "early")
    /\ UNCHANGED <<userVars, held, paid>>

\* HTTP: the user is authenticated, and there is no interceptor.
Send(m) ==
    /\ req[m] = "valid"
    /\ live # None
    /\ Route(m, quota[live])

\* HTTP: the script runs in the interceptor, and the user stays the same object.
SendIntercepted(m) ==
    /\ req[m] = "valid"
    /\ live # None
    /\ Suspend(m, "http", [obj |-> live, copied |-> FALSE, quota |-> quota[live]])

\* HTTP: authentication fails.
SendUnauthenticated(m) ==
    /\ req[m] = "valid"
    /\ live = None
    /\ RefusedEarly(m)
    /\ UNCHANGED <<live, bound, made, admin, held>>

\* SMPP: the user is the object of the bind, whatever happened to it since.
SubmitSm(m) ==
    /\ req[m] = "new"
    /\ Parts[m] = 1
    /\ bound # None
    /\ Route(m, quota[bound])

\* SMPP: the routable comes back from the interceptor with a copy of the user.
SubmitSmIntercepted(m) ==
    /\ req[m] = "new"
    /\ Parts[m] = 1
    /\ bound # None
    /\ Suspend(m, "smpps", [obj |-> bound, copied |-> TRUE, quota |-> quota[bound]])

ScriptReturns(m) ==
    /\ req[m] \in {"http", "smpps"}
    /\ Route(m, View(held[m]))

-----------------------------------------------------------------------------
(* The rest of the bill. *)

\* submit_sm_resp_event with ESME_ROK: the message is acknowledged, and then the
\* bill request published, unless the broker is not connected any more.
submit_sm_resp_event(m) ==
    /\ req[m] = "queued"
    /\ req' = [req EXCEPT ![m] = "acked"]
    /\ \E s \in {"queued", "lost"} :
          billq' = [billq EXCEPT ![m] = IF due[m] > 0 THEN s ELSE "none"]
    /\ UNCHANGED <<userVars, held, due, paid, refusal>>

\* The message is discarded, or given up on an error: nobody bills the rest.
GivenUp(m) ==
    /\ req[m] = "queued"
    /\ req' = [req EXCEPT ![m] = "failed"]
    /\ UNCHANGED <<userVars, held, due, billq, paid, refusal>>

\* Mutant: a bill that the balance does not cover is left unacknowledged.
BillUncovered(m) ==
    /\ billq[m] = "queued"
    /\ IF live = None THEN billq' = [billq EXCEPT ![m] = "rejected"] /\ UNCHANGED <<quota, paid>>
       ELSE IF quota[live].balance = None \/ quota[live].whole \/ quota[live].balance < due[m]
       THEN billq' = [billq EXCEPT ![m] = "unsettled"] /\ UNCHANGED <<quota, paid>>
       ELSE /\ Deduct(due[m], 0)
            /\ paid' = [paid EXCEPT ![m] = @ + due[m]]
            /\ billq' = [billq EXCEPT ![m] = "acked"]
    /\ UNCHANGED <<live, bound, made, admin, req, held, due, refusal>>

\* RouterPB.bill_request_submit_sm_resp_callback.  A request for a user whose
\* balance is unlimited by now is neither acknowledged nor rejected; nor is one
\* whose charge raises, because the balance is an int.
bill_request_submit_sm_resp_callback(m) ==
    /\ billq[m] = "queued"
    /\ LET lq == quota[live]
           settle(s) == billq' = [billq EXCEPT ![m] = s]
       IN  IF live = None \/ (lq.balance # None /\ lq.balance < due[m])
           THEN settle("rejected") /\ UNCHANGED <<quota, paid>>
           ELSE IF lq.balance = None \/ lq.whole
           THEN settle("unsettled") /\ UNCHANGED <<quota, paid>>
           ELSE /\ Deduct(due[m], 0)
                /\ paid' = [paid EXCEPT ![m] = @ + due[m]]
                /\ settle("acked")
    /\ UNCHANGED <<live, bound, made, admin, req, held, due, refusal>>

-----------------------------------------------------------------------------
(* The administrator, and the SMPP session. *)

AdminCall ==
    /\ admin < MaxAdmin
    /\ admin' = admin + 1
    /\ UNCHANGED <<req, held, due, billq, paid, refusal>>

\* perspective_user_add replaces the object that is there.
perspective_user_add(o, q) ==
    /\ o \notin made
    /\ made' = made \cup {o}
    /\ quota' = [quota EXCEPT ![o] = q]
    /\ live' = o
    /\ UNCHANGED bound
    /\ AdminCall

perspective_user_remove ==
    /\ live # None
    /\ live' = None
    /\ UNCHANGED <<quota, bound, made>>
    /\ AdminCall

\* MtMessagingCredential.setQuota takes None or what is not negative.
perspective_user_set_quota(v, whole) ==
    /\ live # None
    /\ quota' = [quota EXCEPT ![live].balance = v, ![live].whole = whole]
    /\ UNCHANGED <<live, bound, made>>
    /\ AdminCall

\* CredentialGeneric.updateQuota: an unlimited balance starts from zero, and a
\* float is not added to an int.  Nothing checks the result.
perspective_user_update_quota(d, whole) ==
    /\ live # None
    /\ ~(quota[live].balance # None /\ quota[live].whole /\ ~whole)
    /\ quota' = [quota EXCEPT ![live].balance = (IF @ = None THEN 0 ELSE @) + d,
                              ![live].whole = whole /\ (@ \/ quota[live].balance = None)]
    /\ UNCHANGED <<live, bound, made>>
    /\ AdminCall

\* SMPPServerProtocol.doBindRequest takes the user that the login returns.
Bind ==
    /\ live # None
    /\ bound # live
    /\ bound' = live
    /\ UNCHANGED <<quota, live, made, admin, req, held, due, billq, paid, refusal>>

AdminNext ==
    \/ \E o \in Objs, q \in Quotas : perspective_user_add(o, q)
    \/ perspective_user_remove
    \/ \E v \in Settings, whole \in BOOLEAN : perspective_user_set_quota(v, whole)
    \/ \E d \in Updates, whole \in BOOLEAN : perspective_user_update_quota(d, whole)

MsgNext(m) ==
    \/ render_POST(m) \/ Send(m) \/ SendIntercepted(m) \/ SendUnauthenticated(m)
    \/ SubmitSm(m) \/ SubmitSmIntercepted(m) \/ ScriptReturns(m)
    \/ submit_sm_resp_event(m) \/ GivenUp(m)
    \/ bill_request_submit_sm_resp_callback(m)

Next == AdminNext \/ Bind \/ \E m \in Msgs : MsgNext(m)

Spec == Init /\ [][Next]_vars

\* The broker delivers what is in the bill queue, which has no prefetch limit.
Fairness == \A m \in Msgs : WF_vars(bill_request_submit_sm_resp_callback(m))
FairSpec == Spec /\ Fairness

-----------------------------------------------------------------------------
(* Properties *)

\* The shape of the state.
TypeOK ==
    /\ quota \in [Objs -> QuotaRecords]
    /\ live \in Objs \cup {None}
    /\ bound \in Objs \cup {None}
    /\ made \subseteq Objs
    /\ req \in [Msgs -> ReqStates]
    /\ held \in [Msgs -> Holds \cup {None}]
    /\ due \in [Msgs -> Nat]
    /\ billq \in [Msgs -> BillStates]
    /\ admin \in Nat
    /\ paid \in [Msgs -> Nat]
    /\ refusal \in [Msgs -> Refusals]

\* The account of the router's user, as the documentation of billing sees it.
A == INSTANCE Account WITH balance <- IF live = None THEN None ELSE quota[live].balance

\* Every step that moves the balance is a payment, within the price of its message
\* and never below zero, or a call of an administrator: also for requests that
\* checked the quotas of another User object or of a copy, and for the second
\* instalment that bill_request_submit_sm_resp_callback takes.
ImplementsAccount == A!Spec

\* chargeUserForSubmitSms takes nothing for a message that it refuses, as long as
\* the request looked at the quotas that are charged: the balance is taken before
\* the count is checked, and only the requirements keep the two together.
RefusedIsFree == \A m \in Msgs : refusal[m] = "charging" => paid[m] = 0

\* If nobody touches the user, a message that the SMSC acknowledged and whose bill
\* request is settled has cost its price, over both instalments, or nothing where
\* the balance is unlimited.
PaidInFull ==
    admin = 0 => \A m \in Msgs :
        req[m] = "acked" /\ billq[m] \in {"none", "acked"}
            => paid[m] = IF quota[live].balance = None THEN 0 ELSE Price[m]

\* A bill request is acknowledged or rejected in the end, if the balance is always
\* a limited float; the callback does neither for an unlimited or an int balance.
BillsSettle ==
    [](live # None => quota[live].balance # None /\ ~quota[live].whole)
        => \A m \in Msgs : billq[m] = "queued" ~> billq[m] \in {"acked", "rejected"}

(* The invariant behind ImplementsAccount. *)

\* What was taken for a message and what is still to be billed for it stay within
\* its price; nothing is taken before the charge or for a refusal of the charge,
\* and nothing billed before the response.
InstalmentInv(m) ==
    /\ paid[m] + (IF req[m] = "queued" \/ billq[m] = "queued" THEN due[m] ELSE 0)
          =< Price[m]
    /\ req[m] \in {"new", "valid", "http", "smpps"} => paid[m] = 0
    /\ req[m] # "acked" => billq[m] = "none"
    /\ req[m] \in {"http", "smpps"} => held[m] # None
    /\ refusal[m] = "charging" => req[m] = "refused" /\ paid[m] = 0

IInv == TypeOK /\ \A m \in Msgs : InstalmentInv(m)

(* A statement of a comment that the code breaks. *)

\* "Ensure user have enough balance to pay submit_sm and submit_sm_resp"
\* (send.py:327): while nobody touches the user, the bill request of a message that
\* met the charging requirements is not rejected.
RequirementsCoverBill == admin = 0 => \A m \in Msgs : billq[m] # "rejected"

=============================================================================
