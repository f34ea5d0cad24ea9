--------------------------- MODULE BillingProofs ---------------------------
(***************************************************************************)
(* Proofs about Billing, for any number of messages, parts, User objects   *)
(* and calls of the administrator: the inductive invariant IInv, that a    *)
(* refusal is free, that billing implements Account, and that both         *)
(* instalments of an undisturbed message are its price.                    *)
(***************************************************************************)
EXTENDS Billing, TLAPS

-----------------------------------------------------------------------------
(* Arithmetic. *)

\* A share of at most a hundred hundredths is not more than the whole.
LEMMA Share ==
    ASSUME NEW X \in Nat, NEW R \in Nat, X =< 100 * R
    PROVE  X \div 100 \in 0 .. R
  OBVIOUS

\* The two instalments of n parts are not more than the price of n parts.
LEMMA Instalments ==
    ASSUME NEW a \in Nat, NEW b \in Nat, NEW r \in Nat, NEW n \in Nat, a + b =< r
    PROVE  a * n \in Nat /\ b * n \in Nat /\ a * n + b * n =< r * n
  <1>1. a * n \in Nat /\ b * n \in Nat
    OBVIOUS
  <1>2. PICK c \in Nat : r = a + b + c
    <2>1. r - (a + b) \in Nat /\ r = a + b + (r - (a + b))
      OBVIOUS
    <2>. QED BY <2>1, Zenon
  <1>3. r * n = a * n + b * n + c * n /\ c * n \in Nat
    BY <1>2
  <1>. QED BY <1>1, <1>3

-----------------------------------------------------------------------------
(* The bill and the charge. *)

\* The two amounts of getBillFor are never negative, and together the rate of the
\* route, or nothing where the balance is unlimited.
LEMMA BillIsShared ==
    ASSUME NEW q \in QuotaRecords
    PROVE  /\ getBillFor(q).submit_sm \in Nat
           /\ getBillFor(q).submit_sm_resp \in Nat
           /\ getBillFor(q).decrement \in {0, 1}
           /\ getBillFor(q).submit_sm + getBillFor(q).submit_sm_resp =< Rate
           /\ getBillFor(q).submit_sm + getBillFor(q).submit_sm_resp = IF q.balance = None THEN 0 ELSE Rate
  <1>. DEFINE early == IF q.percent = None THEN Rate ELSE (Rate * q.percent) \div 100
  <1>1. early \in 0 .. Rate
    <2>1. CASE q.percent = None
      BY <2>1, BillingConstants
    <2>2. CASE q.percent # None
      <3>1. q.percent \in 1 .. 100 /\ Rate \in Nat
        BY <2>2, BillingConstants, Zenon DEF QuotaRecords
      <3>2. Rate * q.percent \in Nat /\ Rate * q.percent =< 100 * Rate
        <4>1. PICK p \in 1 .. 100 : p = q.percent
          BY <3>1, Zenon
        <4>2. Rate * p \in Nat /\ Rate * p =< 100 * Rate
          BY <3>1, SMTT(30)
        <4>. QED BY <4>1, <4>2, Zenon
      <3>. QED BY <2>2, <3>1, <3>2, Share, Zenon
    <2>. QED BY <2>1, <2>2, Zenon
  <1>2. Rate \in Nat
    BY BillingConstants, Zenon
  <1>3. /\ getBillFor(q).submit_sm = IF Rate > 0 /\ q.balance # None THEN early ELSE 0
        /\ getBillFor(q).submit_sm_resp = IF Rate > 0 /\ q.balance # None THEN Rate - early ELSE 0
        /\ getBillFor(q).decrement = IF q.submit_sm_count # None THEN 1 ELSE 0
    BY Zenon DEF getBillFor
  <1>. HIDE DEF early
  <1>. QED BY <1>1, <1>2, <1>3

\* chargeUserForSubmitSms takes nothing or the first instalment, and only what the
\* balance of the router's user covers; it counts only where there is a count; and
\* if the request saw the quotas that are charged, it takes nothing when it refuses.
\* When it lets the message pass, a limited balance has paid the first instalment.
LEMMA ChargeIsCovered ==
    ASSUME TypeOK, NEW q \in QuotaRecords, NEW n \in Nat \ {0},
           NEW c, c = chargeUserForSubmitSms(q, n)
    PROVE  /\ c.take \in {0, getBillFor(q).submit_sm * n}
           /\ c.count \in Nat
           /\ c.take > 0 => live # None /\ quota[live].balance \in Int /\ c.take =< quota[live].balance
           /\ c.count > 0 => live # None /\ quota[live].submit_sm_count \in Int
           /\ ~c.ok /\ live # None /\ q = quota[live] => c.take = 0
           /\ c.ok /\ live # None /\ quota[live].balance # None
                 => c.take = getBillFor(q).submit_sm * n
           /\ live # None /\ quota[live].balance = None => c.take = 0
  <1>. DEFINE now == getBillFor(q).submit_sm * n
              count == getBillFor(q).decrement * n
              sum == (getBillFor(q).submit_sm + getBillFor(q).submit_sm_resp) * n
  <1>1. /\ getBillFor(q).submit_sm \in Nat
        /\ getBillFor(q).submit_sm_resp \in Nat
        /\ getBillFor(q).decrement \in {0, 1}
    BY BillIsShared, Zenon
  <1>2. now \in Nat
    <2>1. PICK a \in Nat : a = getBillFor(q).submit_sm
      BY <1>1, Zenon
    <2>2. a * n \in Nat
      OBVIOUS
    <2>. QED BY <2>1, <2>2, Zenon
  <1>3. count \in {0, n}
    BY <1>1
  <1>4. live # None => quota[live] \in QuotaRecords
    BY Zenon DEF TypeOK
  <1>5. live # None => /\ quota[live].balance \in Int \cup {None}
                       /\ quota[live].submit_sm_count \in Int \cup {None}
    BY <1>4, Zenon DEF QuotaRecords, Amounts
  <1>6. None \notin Int
    BY BillingConstants, Zenon
  <1>7. q.submit_sm_count # None /\ Requirements(q, getBillFor(q), n) => count =< q.submit_sm_count
    BY Zenon DEF Requirements
  <1>. DEFINE lq == quota[live]
              pays == now > 0 /\ lq.balance # None
              counts == count > 0 /\ lq.submit_sm_count # None
  <1>8. c = IF ~Requirements(q, getBillFor(q), n) THEN Charge(FALSE, 0, 0)
            ELSE IF live = None THEN Charge(now = 0 /\ count = 0, 0, 0)
            ELSE IF pays /\ (lq.balance < now \/ lq.whole) THEN Charge(FALSE, 0, 0)
            ELSE IF counts /\ lq.submit_sm_count < count
                 THEN Charge(FALSE, IF pays THEN now ELSE 0, 0)
            ELSE Charge(TRUE, IF pays THEN now ELSE 0, IF counts THEN count ELSE 0)
    BY Zenon DEF chargeUserForSubmitSms
  <1>. HIDE DEF now, count
  <1>10. CASE ~Requirements(q, getBillFor(q), n)
    <2>1. c.ok = FALSE /\ c.take = 0 /\ c.count = 0
      BY <1>8, <1>10 DEF Charge
    <2>. QED BY <2>1
  <1>11. CASE Requirements(q, getBillFor(q), n) /\ live = None
    <2>1. c.take = 0 /\ c.count = 0
      BY <1>8, <1>11 DEF Charge
    <2>. QED BY <2>1, <1>11
  <1>12. CASE Requirements(q, getBillFor(q), n) /\ live # None
    <2>1. CASE pays /\ (lq.balance < now \/ lq.whole)
      <3>1. c.ok = FALSE /\ c.take = 0 /\ c.count = 0
        BY <1>8, <1>12, <2>1 DEF Charge
      <3>. QED BY <3>1
    <2>2. CASE ~(pays /\ (lq.balance < now \/ lq.whole)) /\ counts /\ lq.submit_sm_count < count
      <3>1. c = Charge(FALSE, IF pays THEN now ELSE 0, 0)
        BY <1>8, <1>12, <2>2, Zenon
      <3>2. c.ok = FALSE /\ c.take = (IF pays THEN now ELSE 0) /\ c.count = 0
        BY <3>1 DEF Charge
      <3>3. q # quota[live]
        BY <1>2, <1>3, <1>5, <1>6, <1>7, <1>12, <2>2
      <3>. QED BY <1>2, <1>5, <1>6, <1>12, <2>2, <3>2, <3>3 DEF now
    <2>3. CASE ~(pays /\ (lq.balance < now \/ lq.whole)) /\ ~(counts /\ lq.submit_sm_count < count)
      <3>1. c = Charge(TRUE, IF pays THEN now ELSE 0, IF counts THEN count ELSE 0)
        BY <1>8, <1>12, <2>3, Zenon
      <3>2. c.ok = TRUE /\ c.take = (IF pays THEN now ELSE 0) /\ c.count = (IF counts THEN count ELSE 0)
        BY <3>1 DEF Charge
      <3>. QED BY <1>2, <1>3, <1>5, <1>6, <1>12, <2>3, <3>2 DEF now
    <2>. QED BY <2>1, <2>2, <2>3, Zenon
  <1>. QED BY <1>10, <1>11, <1>12, Zenon

\* What Deduct leaves is a quota again, and the balance is lower by what was taken.
LEMMA DeductKeepsQuotas ==
    ASSUME TypeOK, NEW t \in Nat, NEW k \in Nat, Deduct(t, k),
           t > 0 => live # None /\ quota[live].balance \in Int,
           k > 0 => live # None /\ quota[live].submit_sm_count \in Int
    PROVE  /\ quota' \in [Objs -> QuotaRecords]
           /\ t > 0 => quota'[live].balance = quota[live].balance - t
           /\ t = 0 /\ live # None => quota'[live].balance = quota[live].balance
           /\ live # None => (quota'[live].balance = None <=> quota[live].balance = None)
  <1>1. CASE live = None
    BY <1>1, Zenon DEF Deduct, TypeOK
  <1>2. CASE live # None
    <2>1. live \in Objs /\ quota \in [Objs -> QuotaRecords]
      BY <1>2, Zenon DEF TypeOK
    <2>2. PICK q \in QuotaRecords : q = quota[live]
      BY <2>1, Zenon
    <2>3. PICK b, w, k2, p : /\ q = [balance |-> b, whole |-> w, submit_sm_count |-> k2, percent |-> p]
                             /\ b \in Amounts /\ w \in BOOLEAN /\ k2 \in Amounts /\ p \in 1 .. 100 \cup {None}
      <3>1. q = [balance |-> q.balance, whole |-> q.whole, submit_sm_count |-> q.submit_sm_count,
                 percent |-> q.percent]
        BY Zenon DEF QuotaRecords
      <3>. QED BY <3>1 DEF QuotaRecords
    <2>4. Minus(b, t) \in Amounts /\ Minus(k2, k) \in Amounts
      BY <2>2, <2>3 DEF Minus, Amounts
    <2>5. PICK r : r = [balance |-> Minus(b, t), whole |-> w, submit_sm_count |-> Minus(k2, k), percent |-> p]
      BY Zenon
    <2>6. r \in QuotaRecords
      BY <2>3, <2>4, <2>5, Zenon DEF QuotaRecords
    <2>7. quota' = [quota EXCEPT ![live] = r]
      <3>1. PICK r1 : r1 = [balance |-> Minus(b, t), whole |-> w, submit_sm_count |-> k2, percent |-> p]
        BY Zenon
      <3>2. PICK quota1 : quota1 = [quota EXCEPT ![live].balance = Minus(@, t)]
        BY Zenon
      <3>3. quota1 = [quota EXCEPT ![live] = r1]
        <4>1. [q EXCEPT !.balance = Minus(@, t)] = r1
          BY <2>3, <3>1
        <4>. QED BY <2>2, <3>2, <4>1, Zenon
      <3>4. quota' = [quota1 EXCEPT ![live].submit_sm_count = Minus(@, k)]
        BY <1>2, <3>2, Zenon DEF Deduct
      <3>5. quota1[live] = r1
        BY <2>1, <3>3, Zenon
      <3>6. [r1 EXCEPT !.submit_sm_count = Minus(@, k)] = r
        BY <2>5, <3>1
      <3>7. quota' = [quota1 EXCEPT ![live] = r]
        BY <3>4, <3>5, <3>6, Zenon
      <3>. QED BY <2>1, <3>3, <3>7, Zenon
    <2>8. quota' \in [Objs -> QuotaRecords] /\ quota'[live] = r
      BY <2>1, <2>6, <2>7, Zenon
    <2>9. r.balance = Minus(b, t) /\ quota[live].balance = b
      BY <2>2, <2>3, <2>5
    <2>10. Minus(b, t) = None <=> b = None
      BY <2>3, <2>9, BillingConstants DEF Minus, Amounts
    <2>. QED BY <2>8, <2>9, <2>10 DEF Minus
  <1>. QED BY <1>1, <1>2, Zenon

-----------------------------------------------------------------------------
(* What a request does behind the interception. *)

\* The balance of the account.
AccountBalance == IF live = None THEN None ELSE quota[live].balance

LEMMA BalanceType == TypeOK => AccountBalance \in Int \cup {None}
  BY Zenon DEF TypeOK, AccountBalance, QuotaRecords, Amounts

\* t is taken at once and d left for the bill request; why is the refusal.
RouteEffect(m, t, d, why) ==
    /\ t \in Nat /\ d \in Nat /\ t + d =< Price[m]
    /\ paid' = [paid EXCEPT ![m] = @ + t]
    /\ quota' \in [Objs -> QuotaRecords]
    /\ t > 0 => /\ live # None /\ quota[live].balance \in Int /\ t =< quota[live].balance
                /\ quota'[live].balance = quota[live].balance - t
    /\ t = 0 => UNCHANGED AccountBalance
    /\ \/ /\ req' = [req EXCEPT ![m] = "queued"]
          /\ due' = [due EXCEPT ![m] = d]
          /\ UNCHANGED refusal
       \/ /\ req' = [req EXCEPT ![m] = "refused"]
          /\ refusal' = [refusal EXCEPT ![m] = why]
          /\ why \in Refusals /\ (why = "charging" => t = 0)
          /\ UNCHANGED due
    /\ held' = [held EXCEPT ![m] = None]
    /\ UNCHANGED <<live, bound, made, admin, billq>>

\* Whatever quotas the request looked at, Route takes the first instalment from
\* the router's user or nothing, and leaves the second one to be billed.
LEMMA RouteHasEffect ==
    ASSUME TypeOK, NEW m \in Msgs, NEW q \in QuotaRecords, Route(m, q)
    PROVE  \E t, d, why : RouteEffect(m, t, d, why)
  <1>1. /\ Rate \in Nat /\ Parts[m] \in Nat \ {0} /\ Price[m] = Rate * Parts[m]
        /\ Rate * Parts[m] \in Nat
    <2>1. PICK r, n \in Nat : r = Rate /\ n = Parts[m]
      BY BillingConstants, Zenon
    <2>2. r * n \in Nat
      OBVIOUS
    <2>. QED BY <2>1, <2>2, BillingConstants, Zenon DEF Price
  <1>2. /\ held' = [held EXCEPT ![m] = None]
        /\ UNCHANGED <<live, bound, made, admin>>
    BY Zenon DEF Route
  <1>3. CASE RefusedEarly(m)
    <2>1. paid' = [paid EXCEPT ![m] = @ + 0]
      <3>1. paid \in [Msgs -> Nat] /\ paid' = paid
        BY <1>3, Zenon DEF RefusedEarly, TypeOK
      <3>2. paid[m] + 0 = paid[m]
        BY <3>1
      <3>. QED BY <3>1, <3>2, Zenon
    <2>2. quota' \in [Objs -> QuotaRecords] /\ UNCHANGED AccountBalance
      BY <1>2, <1>3, Zenon DEF RefusedEarly, TypeOK, AccountBalance
    <2>3. 0 \in Nat /\ 0 + 0 =< Price[m] /\ ~(0 > 0)
      BY <1>1
    <2>4. /\ Refuse(m, "early") /\ "early" \in Refusals /\ "early" # "charging"
      BY <1>3, Zenon DEF RefusedEarly, Refusals
    <2>5. RouteEffect(m, 0, 0, "early")
      BY <1>2, <2>1, <2>2, <2>3, <2>4, Zenon DEF RouteEffect, Refuse
    <2>. QED BY <2>5, Zenon
  <1>4. CASE ChargeAndSubmit(m, q)
    <2>1. PICK c : c = chargeUserForSubmitSms(q, Parts[m])
      BY Zenon
    <2>2. /\ c.take \in {0, getBillFor(q).submit_sm * Parts[m]}
          /\ c.count \in Nat
          /\ c.take > 0 => live # None /\ quota[live].balance \in Int /\ c.take =< quota[live].balance
          /\ c.count > 0 => live # None /\ quota[live].submit_sm_count \in Int
          /\ ~c.ok /\ live # None /\ q = quota[live] => c.take = 0
      BY <1>1, <2>1, ChargeIsCovered, Zenon
    <2>3. /\ Deduct(c.take, c.count)
          /\ paid' = [paid EXCEPT ![m] = @ + c.take]
          /\ IF c.ok THEN Submitted(m, q) \/ Refuse(m, "submit")
             ELSE Refuse(m, IF live # None /\ q = quota[live] THEN "charging" ELSE "stale")
      BY <1>4, <2>1, Zenon DEF ChargeAndSubmit
    <2>4. PICK s, d, r, n \in Nat : /\ s = getBillFor(q).submit_sm /\ d = getBillFor(q).submit_sm_resp
                                   /\ r = Rate /\ n = Parts[m] /\ s + d =< r
      BY <1>1, BillIsShared, Zenon
    <2>5. s * n \in Nat /\ d * n \in Nat /\ s * n + d * n =< r * n
      BY <2>4, Instalments, Zenon
    <2>6. c.take \in Nat /\ c.take + d * n =< Price[m]
      <3>1. c.take \in {0, s * n} /\ Price[m] = r * n /\ r * n \in Nat
        BY <1>1, <2>2, <2>4, Zenon
      <3>. QED BY <3>1, <2>5
    <2>7. /\ quota' \in [Objs -> QuotaRecords]
          /\ c.take > 0 => quota'[live].balance = quota[live].balance - c.take
          /\ c.take = 0 => UNCHANGED AccountBalance
      <3>1. /\ quota' \in [Objs -> QuotaRecords]
            /\ c.take > 0 => quota'[live].balance = quota[live].balance - c.take
            /\ c.take = 0 /\ live # None => quota'[live].balance = quota[live].balance
        BY <2>2, <2>3, <2>6, DeductKeepsQuotas, Zenon
      <3>. QED BY <1>2, <3>1, Zenon DEF AccountBalance
    <2>8. CASE Submitted(m, q)
      <3>1. due' = [due EXCEPT ![m] = d * n]
        BY <2>4, <2>8, Zenon DEF Submitted
      <3>2. RouteEffect(m, c.take, d * n, "none")
        BY <1>2, <2>2, <2>3, <2>5, <2>6, <2>7, <2>8, <3>1, Zenon DEF RouteEffect, Submitted
      <3>. QED BY <3>2, Zenon
    <2>9. CASE Refuse(m, "submit")
      <3>1. RouteEffect(m, c.take, d * n, "submit")
        BY <1>2, <2>2, <2>3, <2>5, <2>6, <2>7, <2>9, Zenon DEF RouteEffect, Refuse, Refusals
      <3>. QED BY <3>1, Zenon
    <2>10. CASE ~c.ok
      <3>1. CASE live # None /\ q = quota[live]
        <4>1. Refuse(m, "charging") /\ c.take = 0
          BY <2>2, <2>3, <2>10, <3>1, Zenon
        <4>2. RouteEffect(m, c.take, d * n, "charging")
          BY <1>2, <2>2, <2>3, <2>5, <2>6, <2>7, <4>1, Zenon DEF RouteEffect, Refuse, Refusals
        <4>. QED BY <4>2, Zenon
      <3>2. CASE ~(live # None /\ q = quota[live])
        <4>1. Refuse(m, "stale")
          BY <2>3, <2>10, <3>2, Zenon
        <4>2. RouteEffect(m, c.take, d * n, "stale")
          BY <1>2, <2>2, <2>3, <2>5, <2>6, <2>7, <4>1, Zenon DEF RouteEffect, Refuse, Refusals
        <4>. QED BY <4>2, Zenon
      <3>. QED BY <3>1, <3>2, Zenon
    <2>. QED BY <2>3, <2>8, <2>9, <2>10, Zenon
  <1>. QED BY <1>3, <1>4, Zenon DEF Route

-----------------------------------------------------------------------------
(* The inductive invariant. *)

\* A step of one message leaves what is recorded for the others alone.
OnlyMoves(m) ==
    \A n \in Msgs \ {m} :
        /\ req'[n] = req[n] /\ held'[n] = held[n] /\ due'[n] = due[n]
        /\ billq'[n] = billq[n] /\ paid'[n] = paid[n] /\ refusal'[n] = refusal[n]

LEMMA OthersKeepInv ==
    ASSUME IInv, NEW m \in Msgs, OnlyMoves(m), TypeOK', InstalmentInv(m)'
    PROVE  IInv'
  <1>1. ASSUME NEW n \in Msgs PROVE InstalmentInv(n)'
    <2>1. CASE n = m
      BY <2>1, Zenon
    <2>2. CASE n # m
      BY <2>2, Zenon DEF OnlyMoves, IInv, InstalmentInv
    <2>. QED BY <2>1, <2>2, Zenon
  <1>. QED BY <1>1, Zenon DEF IInv

LEMMA PriceIsNat == \A m \in Msgs : Price[m] \in Nat
  <1>1. ASSUME NEW m \in Msgs PROVE Price[m] \in Nat
    <2>1. PICK r, n \in Nat : r = Rate /\ n = Parts[m]
      BY BillingConstants, Zenon
    <2>2. r * n \in Nat
      OBVIOUS
    <2>. QED BY <2>1, <2>2, BillingConstants, Zenon DEF Price
  <1>. QED BY <1>1, Zenon

\* The users change, the messages do not.
LEMMA UsersOnly ==
    ASSUME IInv, UNCHANGED <<req, held, due, billq, paid, refusal>>,
           quota' \in [Objs -> QuotaRecords], live' \in Objs \cup {None},
           bound' \in Objs \cup {None}, made' \subseteq Objs, admin' \in Nat
    PROVE  IInv'
  <1>1. TypeOK'
    BY Zenon DEF IInv, TypeOK
  <1>2. ASSUME NEW m \in Msgs PROVE InstalmentInv(m)'
    BY Zenon DEF IInv, InstalmentInv
  <1>. QED BY <1>1, <1>2, Zenon DEF IInv

LEMMA InitIInv == Init => IInv
  <1>. SUFFICES ASSUME Init PROVE IInv
    BY Zenon
  <1>1. TypeOK
    BY BillingConstants, Zenon DEF Init, TypeOK, ReqStates, BillStates, Refusals
  <1>2. ASSUME NEW m \in Msgs PROVE InstalmentInv(m)
    BY PriceIsNat DEF Init, InstalmentInv
  <1>. QED BY <1>1, <1>2, Zenon DEF IInv

\* A request that is routed pays at most its first instalment.
LEMMA RouteKeepsIInv ==
    ASSUME IInv, NEW m \in Msgs, NEW q \in QuotaRecords, Route(m, q),
           req[m] \in {"new", "valid", "http", "smpps"}
    PROVE  IInv'
  <1>1. TypeOK /\ paid[m] = 0 /\ billq[m] = "none" /\ refusal[m] # "charging"
    BY Zenon DEF IInv, InstalmentInv
  <1>2. PICK t, d, why : RouteEffect(m, t, d, why)
    BY <1>1, RouteHasEffect, Zenon
  <1>3. t \in Nat /\ d \in Nat /\ t + d =< Price[m] /\ t =< Price[m] /\ Price[m] \in Nat
    BY <1>2, PriceIsNat DEF RouteEffect
  <1>4. paid' \in [Msgs -> Nat] /\ paid'[m] = t
    <2>1. paid \in [Msgs -> Nat] /\ paid' = [paid EXCEPT ![m] = @ + t]
      BY <1>1, <1>2, Zenon DEF RouteEffect, TypeOK
    <2>2. paid[m] + t \in Nat /\ paid[m] + t = t
      BY <1>1, <1>3
    <2>. QED BY <2>1, <2>2, Zenon
  <1>5. /\ TypeOK'
        /\ OnlyMoves(m)
        /\ held'[m] = None /\ billq'[m] = "none"
    BY <1>1, <1>2, <1>3, <1>4 DEF RouteEffect, TypeOK, OnlyMoves, ReqStates
  <1>6. \/ req'[m] = "queued" /\ due'[m] = d /\ refusal'[m] # "charging"
        \/ req'[m] = "refused" /\ (refusal'[m] = "charging" => t = 0)
    BY <1>1, <1>2, Zenon DEF RouteEffect, TypeOK
  <1>7. InstalmentInv(m)'
    <2>1. Price' = Price
      BY Zenon DEF Price
    <2>2. paid'[m] + (IF req'[m] = "queued" \/ billq'[m] = "queued" THEN due'[m] ELSE 0) =< Price[m]
      <3>1. CASE req'[m] = "queued" /\ due'[m] = d
        BY <1>3, <1>4, <3>1, Zenon
      <3>2. CASE req'[m] = "refused"
        BY <1>3, <1>4, <1>5, <3>2
      <3>. QED BY <1>6, <3>1, <3>2, Zenon
    <2>. QED BY <1>4, <1>5, <1>6, <2>1, <2>2, Zenon DEF InstalmentInv
  <1>. QED BY <1>5, <1>7, OthersKeepInv, Zenon

\* A suspended request holds an object or a copy, and nothing else changes.
LEMMA SuspendKeepsIInv ==
    ASSUME IInv, NEW m \in Msgs, NEW s \in {"http", "smpps"}, NEW h \in Holds, Suspend(m, s, h),
           req[m] \in {"new", "valid"}
    PROVE  IInv'
  <1>1. h # None
    BY BillingConstants, Zenon
  <1>2. TypeOK' /\ OnlyMoves(m)
    BY Zenon DEF IInv, TypeOK, Suspend, userVars, ReqStates, OnlyMoves
  <1>3. InstalmentInv(m)'
    BY <1>1, Zenon DEF IInv, TypeOK, InstalmentInv, Suspend, userVars, Price
  <1>. QED BY <1>2, <1>3, OthersKeepInv, Zenon

\* What chargeUserForSubmitSms or the bill request looks at is a quota record.
LEMMA ViewIsQuota ==
    ASSUME TypeOK, NEW h \in Holds
    PROVE  View(h) \in QuotaRecords
  BY Zenon DEF View, Holds, TypeOK

\* The second instalment is what the first one left.
LEMMA BillKeepsIInv ==
    ASSUME IInv, NEW m \in Msgs, bill_request_submit_sm_resp_callback(m)
    PROVE  /\ IInv'
           /\ \/ UNCHANGED <<paid, quota>>
              \/ /\ due[m] \in Nat /\ live # None
                 /\ quota[live].balance \in Int /\ due[m] =< quota[live].balance
                 /\ due[m] > 0 => quota'[live].balance = quota[live].balance - due[m]
                 /\ due[m] = 0 => quota'[live].balance = quota[live].balance
                 /\ paid' = [paid EXCEPT ![m] = @ + due[m]]
  <1>1. /\ TypeOK /\ req[m] = "acked" /\ billq[m] = "queued" /\ refusal[m] # "charging"
        /\ due[m] \in Nat /\ paid[m] \in Nat /\ paid[m] + due[m] =< Price[m] /\ Price[m] \in Nat
    BY PriceIsNat, Zenon DEF IInv, TypeOK, InstalmentInv, bill_request_submit_sm_resp_callback
  <1>2. UNCHANGED <<live, bound, made, admin, req, held, due, refusal>>
    BY Zenon DEF bill_request_submit_sm_resp_callback
  <1>3. \/ /\ \E s \in {"rejected", "unsettled"} : billq' = [billq EXCEPT ![m] = s]
           /\ UNCHANGED <<quota, paid>>
        \/ /\ live # None /\ quota[live].balance # None /\ ~(quota[live].balance < due[m])
           /\ Deduct(due[m], 0)
           /\ paid' = [paid EXCEPT ![m] = @ + due[m]]
           /\ billq' = [billq EXCEPT ![m] = "acked"]
    BY Zenon DEF bill_request_submit_sm_resp_callback
  <1>4. CASE /\ \E s \in {"rejected", "unsettled"} : billq' = [billq EXCEPT ![m] = s]
             /\ UNCHANGED <<quota, paid>>
    <2>1. TypeOK' /\ OnlyMoves(m)
      BY <1>1, <1>2, <1>4, Zenon DEF TypeOK, BillStates, OnlyMoves
    <2>2. billq'[m] # "queued" /\ paid'[m] = paid[m] /\ req'[m] = "acked" /\ refusal'[m] # "charging"
      BY <1>1, <1>2, <1>4, Zenon DEF TypeOK
    <2>3. InstalmentInv(m)'
      BY <1>1, <2>2 DEF InstalmentInv, Price
    <2>. QED BY <1>4, <2>1, <2>3, OthersKeepInv, Zenon
  <1>5. CASE /\ live # None /\ quota[live].balance # None /\ ~(quota[live].balance < due[m])
             /\ Deduct(due[m], 0)
             /\ paid' = [paid EXCEPT ![m] = @ + due[m]]
             /\ billq' = [billq EXCEPT ![m] = "acked"]
    <2>1. live \in Objs /\ quota[live].balance \in Int /\ due[m] =< quota[live].balance
      BY <1>1, <1>5 DEF TypeOK, QuotaRecords, Amounts
    <2>2. /\ quota' \in [Objs -> QuotaRecords]
          /\ due[m] > 0 => quota'[live].balance = quota[live].balance - due[m]
          /\ due[m] = 0 => quota'[live].balance = quota[live].balance
      BY <1>1, <1>5, <2>1, DeductKeepsQuotas
    <2>3. paid' \in [Msgs -> Nat] /\ paid'[m] = paid[m] + due[m]
      <3>1. paid[m] + due[m] \in Nat
        BY <1>1
      <3>. QED BY <1>1, <1>5, <3>1, Zenon DEF TypeOK
    <2>4. TypeOK' /\ OnlyMoves(m)
      BY <1>1, <1>2, <1>5, <2>2, <2>3, Zenon DEF TypeOK, BillStates, OnlyMoves
    <2>5. billq'[m] = "acked" /\ req'[m] = "acked" /\ refusal'[m] # "charging"
      BY <1>1, <1>2, <1>5, Zenon DEF TypeOK
    <2>6. InstalmentInv(m)'
      <3>1. paid'[m] + 0 =< Price[m]
        BY <1>1, <2>3
      <3>. QED BY <2>5, <3>1, Zenon DEF InstalmentInv, Price
    <2>. QED BY <1>1, <1>5, <2>1, <2>2, <2>4, <2>6, OthersKeepInv, Zenon
  <1>. QED BY <1>3, <1>4, <1>5, Zenon

\* A step of a message takes money from the router's user, or none at all.
Payment(m) ==
    \E t \in Nat :
        /\ UNCHANGED admin
        /\ paid' = [paid EXCEPT ![m] = @ + t]
        /\ t = 0 => UNCHANGED AccountBalance
        /\ t > 0 => /\ live # None /\ live' = live
                    /\ quota[live].balance \in Int /\ t =< quota[live].balance
                    /\ quota'[live].balance = quota[live].balance - t

\* Neither the account nor what was taken for a message changes.
NoMoneyMoves == UNCHANGED <<paid, admin, AccountBalance>>

LEMMA RoutePays ==
    ASSUME IInv, NEW m \in Msgs, NEW q \in QuotaRecords, Route(m, q)
    PROVE  Payment(m)
  <1>1. PICK t, d, why : RouteEffect(m, t, d, why)
    BY RouteHasEffect, Zenon DEF IInv
  <1>. QED BY <1>1, Zenon DEF RouteEffect, Payment

\* One step per action of a message.
LEMMA MsgStep ==
    ASSUME IInv, NEW m \in Msgs, MsgNext(m)
    PROVE  IInv' /\ (NoMoneyMoves \/ Payment(m))
  <1>0. TypeOK /\ InstalmentInv(m)
    BY Zenon DEF IInv
  <1>1. CASE render_POST(m)
    <2>1. TypeOK' /\ OnlyMoves(m)
      BY <1>0, <1>1, Zenon DEF render_POST, Refuse, TypeOK, userVars, ReqStates, Refusals, OnlyMoves
    <2>a. NoMoneyMoves
      BY <1>1, Zenon DEF render_POST, userVars, NoMoneyMoves, AccountBalance
    <2>2. InstalmentInv(m)'
      BY <1>0, <1>1, Zenon DEF render_POST, Refuse, TypeOK, userVars, InstalmentInv, Price
    <2>. QED BY <2>1, <2>2, <2>a, OthersKeepInv, Zenon
  <1>2. CASE Send(m)
    <2>1. quota[live] \in QuotaRecords /\ Route(m, quota[live]) /\ req[m] = "valid"
      BY <1>0, <1>2, Zenon DEF Send, TypeOK
    <2>. QED BY <2>1, RouteKeepsIInv, RoutePays, Zenon
  <1>3. CASE SendIntercepted(m)
    <2>1. PICK h \in Holds : Suspend(m, "http", h)
      BY <1>0, <1>3, Zenon DEF SendIntercepted, TypeOK, Holds
    <2>. QED BY <1>3, <2>1, SuspendKeepsIInv, Zenon DEF SendIntercepted, Suspend, userVars, NoMoneyMoves, AccountBalance
  <1>4. CASE SendUnauthenticated(m)
    <2>1. TypeOK' /\ OnlyMoves(m)
      BY <1>0, <1>4, Zenon DEF SendUnauthenticated, RefusedEarly, Refuse, TypeOK, ReqStates, Refusals, OnlyMoves
    <2>a. NoMoneyMoves
      BY <1>4, Zenon DEF SendUnauthenticated, RefusedEarly, NoMoneyMoves, AccountBalance
    <2>2. InstalmentInv(m)'
      BY <1>0, <1>4, Zenon DEF SendUnauthenticated, RefusedEarly, Refuse, TypeOK, InstalmentInv, Price
    <2>. QED BY <2>1, <2>2, <2>a, OthersKeepInv, Zenon
  <1>5. CASE SubmitSm(m)
    <2>1. quota[bound] \in QuotaRecords /\ Route(m, quota[bound]) /\ req[m] = "new"
      BY <1>0, <1>5, Zenon DEF SubmitSm, TypeOK
    <2>. QED BY <2>1, RouteKeepsIInv, RoutePays, Zenon
  <1>6. CASE SubmitSmIntercepted(m)
    <2>1. PICK h \in Holds : Suspend(m, "smpps", h)
      BY <1>0, <1>6, Zenon DEF SubmitSmIntercepted, TypeOK, Holds
    <2>. QED BY <1>6, <2>1, SuspendKeepsIInv, Zenon DEF SubmitSmIntercepted, Suspend, userVars, NoMoneyMoves, AccountBalance
  <1>7. CASE ScriptReturns(m)
    <2>1. held[m] \in Holds
      BY <1>0, <1>7, Zenon DEF ScriptReturns, TypeOK, InstalmentInv
    <2>2. View(held[m]) \in QuotaRecords
      BY <1>0, <2>1, ViewIsQuota, Zenon
    <2>3. Route(m, View(held[m])) /\ req[m] \in {"new", "valid", "http", "smpps"}
      BY <1>7, Zenon DEF ScriptReturns
    <2>. QED BY <2>2, <2>3, RouteKeepsIInv, RoutePays, Zenon
  <1>8. CASE submit_sm_resp_event(m)
    <2>1. TypeOK' /\ OnlyMoves(m)
      BY <1>0, <1>8, Zenon DEF submit_sm_resp_event, TypeOK, userVars, ReqStates, BillStates, OnlyMoves
    <2>a. NoMoneyMoves
      BY <1>8, Zenon DEF submit_sm_resp_event, userVars, NoMoneyMoves, AccountBalance
    <2>2. InstalmentInv(m)'
      <3>1. paid[m] \in Nat /\ due[m] \in Nat /\ Price[m] \in Nat /\ paid[m] + due[m] =< Price[m]
        BY <1>0, <1>8, PriceIsNat, Zenon DEF submit_sm_resp_event, TypeOK, InstalmentInv
      <3>2. paid[m] + 0 =< Price[m]
        BY <3>1
      <3>3. /\ req'[m] = "acked" /\ due'[m] = due[m] /\ paid'[m] = paid[m]
            /\ refusal'[m] # "charging"
        BY <1>0, <1>8, Zenon DEF submit_sm_resp_event, TypeOK, userVars, InstalmentInv
      <3>. QED BY <3>1, <3>2, <3>3, Zenon DEF InstalmentInv, Price
    <2>. QED BY <2>1, <2>2, <2>a, OthersKeepInv, Zenon
  <1>9. CASE GivenUp(m)
    <2>1. TypeOK' /\ OnlyMoves(m)
      BY <1>0, <1>9, Zenon DEF GivenUp, TypeOK, userVars, ReqStates, OnlyMoves
    <2>a. NoMoneyMoves
      BY <1>9, Zenon DEF GivenUp, userVars, NoMoneyMoves, AccountBalance
    <2>2. InstalmentInv(m)'
      <3>1. paid[m] \in Nat /\ due[m] \in Nat /\ Price[m] \in Nat /\ paid[m] + due[m] =< Price[m]
        BY <1>0, <1>9, PriceIsNat, Zenon DEF GivenUp, TypeOK, InstalmentInv
      <3>2. paid[m] + 0 =< Price[m]
        BY <3>1
      <3>3. /\ req'[m] = "failed" /\ paid'[m] = paid[m] /\ billq'[m] = "none"
            /\ refusal'[m] # "charging"
        BY <1>0, <1>9, Zenon DEF GivenUp, TypeOK, userVars, InstalmentInv
      <3>. QED BY <3>2, <3>3, Zenon DEF InstalmentInv, Price
    <2>. QED BY <2>1, <2>2, <2>a, OthersKeepInv, Zenon
  <1>10. CASE bill_request_submit_sm_resp_callback(m)
    <2>1. live' = live /\ admin' = admin
      BY <1>10, Zenon DEF bill_request_submit_sm_resp_callback
    <2>. QED BY <1>10, <2>1, BillKeepsIInv, Zenon DEF Payment, NoMoneyMoves, AccountBalance
  <1>. QED BY <1>1, <1>2, <1>3, <1>4, <1>5, <1>6, <1>7, <1>8, <1>9, <1>10, Zenon DEF MsgNext

\* The administrator may move the balance, but takes nothing for a message.
AdminMoves == admin' = admin + 1 /\ UNCHANGED paid

\* One step per call of the administrator; the bind moves no money.
LEMMA AdminStep ==
    ASSUME IInv, AdminNext \/ Bind
    PROVE  IInv' /\ (AdminMoves \/ NoMoneyMoves)
  <1>0. TypeOK
    BY Zenon DEF IInv
  <1>a. ASSUME AdminCall PROVE admin' \in Nat /\ AdminMoves /\ UNCHANGED <<req, held, due, billq, paid, refusal>>
    BY <1>0, <1>a DEF AdminCall, AdminMoves, TypeOK
  <1>1. ASSUME NEW o \in Objs, NEW q \in Quotas, perspective_user_add(o, q)
        PROVE  IInv' /\ AdminMoves
    <2>1. AdminCall
      BY <1>1, Zenon DEF perspective_user_add
    <2>2. /\ quota' \in [Objs -> QuotaRecords] /\ live' \in Objs \cup {None}
          /\ bound' \in Objs \cup {None} /\ made' \subseteq Objs
      BY <1>0, <1>1, BillingConstants, Zenon DEF perspective_user_add, TypeOK
    <2>. QED BY <1>a, <2>1, <2>2, UsersOnly, Zenon
  <1>2. CASE perspective_user_remove
    <2>1. AdminCall
      BY <1>2, Zenon DEF perspective_user_remove
    <2>2. /\ quota' \in [Objs -> QuotaRecords] /\ live' \in Objs \cup {None}
          /\ bound' \in Objs \cup {None} /\ made' \subseteq Objs
      BY <1>0, <1>2, Zenon DEF perspective_user_remove, TypeOK
    <2>. QED BY <1>a, <2>1, <2>2, UsersOnly, Zenon
  <1>3. ASSUME NEW v \in Settings, NEW w \in BOOLEAN, perspective_user_set_quota(v, w)
        PROVE  IInv' /\ AdminMoves
    <2>1. AdminCall /\ live \in Objs /\ v \in Amounts
      BY <1>0, <1>3, BillingConstants DEF perspective_user_set_quota, TypeOK, Amounts
    <2>2. PICK r : r = [quota[live] EXCEPT !.balance = v, !.whole = w]
      BY Zenon
    <2>3. r \in QuotaRecords
      <3>1. quota[live] \in QuotaRecords
        BY <1>0, <2>1, Zenon DEF TypeOK
      <3>. QED BY <2>1, <2>2, <3>1, Zenon DEF QuotaRecords
    <2>4. quota' = [quota EXCEPT ![live] = r]
      BY <1>0, <1>3, <2>1, <2>2, Zenon DEF perspective_user_set_quota, TypeOK, QuotaRecords
    <2>5. /\ quota' \in [Objs -> QuotaRecords] /\ live' \in Objs \cup {None}
          /\ bound' \in Objs \cup {None} /\ made' \subseteq Objs
      BY <1>0, <1>3, <2>1, <2>3, <2>4, Zenon DEF perspective_user_set_quota, TypeOK
    <2>. QED BY <1>a, <2>1, <2>5, UsersOnly, Zenon
  <1>4. ASSUME NEW d \in Updates, NEW w \in BOOLEAN, perspective_user_update_quota(d, w)
        PROVE  IInv' /\ AdminMoves
    <2>1. AdminCall /\ live \in Objs /\ d \in Int /\ quota[live] \in QuotaRecords
      BY <1>0, <1>4, BillingConstants, Zenon DEF perspective_user_update_quota, TypeOK
    <2>2. PICK v \in Amounts, x \in BOOLEAN :
            /\ v = (IF quota[live].balance = None THEN 0 ELSE quota[live].balance) + d
            /\ x = (w /\ (quota[live].whole \/ quota[live].balance = None))
      <3>1. quota[live].balance \in Int \cup {None}
        BY <2>1, Zenon DEF QuotaRecords, Amounts
      <3>2. (IF quota[live].balance = None THEN 0 ELSE quota[live].balance) + d \in Int
        BY <2>1, <3>1
      <3>. QED BY <3>2, Zenon DEF Amounts
    <2>4. PICK r : r = [quota[live] EXCEPT !.balance = v, !.whole = x]
      BY Zenon
    <2>5. r \in QuotaRecords
      BY <2>1, <2>2, <2>4, Zenon DEF QuotaRecords
    <2>6. quota' = [quota EXCEPT ![live] = r]
      BY <1>0, <1>4, <2>1, <2>2, <2>4, Zenon DEF perspective_user_update_quota, TypeOK, QuotaRecords
    <2>7. /\ quota' \in [Objs -> QuotaRecords] /\ live' \in Objs \cup {None}
          /\ bound' \in Objs \cup {None} /\ made' \subseteq Objs
      <3>1. quota' \in [Objs -> QuotaRecords]
        BY <1>0, <2>1, <2>5, <2>6, Zenon DEF TypeOK
      <3>2. UNCHANGED <<live, bound, made>>
        BY <1>4, Zenon DEF perspective_user_update_quota
      <3>. QED BY <1>0, <3>1, <3>2, Zenon DEF TypeOK
    <2>. QED BY <1>a, <2>1, <2>7, UsersOnly, Zenon
  <1>5. CASE Bind
    <2>1. /\ quota' \in [Objs -> QuotaRecords] /\ live' \in Objs \cup {None}
          /\ bound' \in Objs \cup {None} /\ made' \subseteq Objs /\ admin' \in Nat
          /\ UNCHANGED <<req, held, due, billq, paid, refusal>>
      BY <1>0, <1>5, Zenon DEF Bind, TypeOK
    <2>2. NoMoneyMoves
      BY <1>5, Zenon DEF Bind, NoMoneyMoves, AccountBalance
    <2>. QED BY <2>1, <2>2, UsersOnly, Zenon
  <1>. QED BY <1>1, <1>2, <1>3, <1>4, <1>5, Zenon DEF AdminNext

LEMMA Step ==
    ASSUME IInv, [Next]_vars
    PROVE  IInv' /\ (AdminMoves \/ NoMoneyMoves \/ \E m \in Msgs : Payment(m))
  <1>1. CASE AdminNext \/ Bind
    BY <1>1, AdminStep, Zenon
  <1>2. ASSUME NEW m \in Msgs, MsgNext(m)
        PROVE  IInv' /\ (AdminMoves \/ NoMoneyMoves \/ \E n \in Msgs : Payment(n))
    BY <1>2, MsgStep, Zenon
  <1>3. CASE UNCHANGED vars
    <2>1. UNCHANGED <<quota, live, bound, made, req, held, due, billq, admin, paid, refusal>>
      BY <1>3, Zenon DEF vars
    <2>2. NoMoneyMoves
      BY <2>1, Zenon DEF NoMoneyMoves, AccountBalance
    <2>. QED BY <2>1, <2>2, UsersOnly, Zenon DEF IInv, TypeOK
  <1>. QED BY <1>1, <1>2, <1>3, Zenon DEF Next

\* IInv is an invariant: over every interleaving of requests, bill requests and
\* administrators, what chargeUserForSubmitSms and the bill request take for a
\* message, and what is still to be billed for it, are within its price.
THEOREM BillingInvariance == Spec => []IInv
  <1>1. IInv /\ [Next]_vars => IInv'
    BY Step, Zenon
  <1>. QED BY InitIInv, <1>1, PTL DEF Spec

\* chargeUserForSubmitSms takes nothing for a message that it refuses, if the
\* request looked at the quotas that are charged.
THEOREM RefusalsAreFree == Spec => []RefusedIsFree
  <1>1. IInv => RefusedIsFree
    BY Zenon DEF IInv, InstalmentInv, RefusedIsFree
  <1>. QED BY BillingInvariance, <1>1, PTL

-----------------------------------------------------------------------------
(* The refinement. *)

\* A payment of something is a payment from the account.
LEMMA PaymentIsPay ==
    ASSUME IInv, IInv', NEW m \in Msgs, Payment(m)
    PROVE  NoMoneyMoves \/ A!Pay(m)
  <1>1. PICK t \in Nat :
          /\ UNCHANGED admin
          /\ t = 0 => UNCHANGED AccountBalance
          /\ paid' = [paid EXCEPT ![m] = @ + t]
          /\ t > 0 => /\ live # None /\ live' = live
                      /\ quota[live].balance \in Int /\ t =< quota[live].balance
                      /\ quota'[live].balance = quota[live].balance - t
    BY Zenon DEF Payment
  <1>2. paid \in [Msgs -> Nat] /\ paid[m] \in Nat
    BY Zenon DEF IInv, TypeOK
  <1>3. CASE t = 0
    <2>1. paid[m] + t = paid[m]
      BY <1>2, <1>3
    <2>2. UNCHANGED paid
      BY <1>1, <1>2, <2>1, Zenon
    <2>. QED BY <1>1, <1>3, <2>2, Zenon DEF NoMoneyMoves
  <1>4. CASE t > 0
    <2>1. PICK b, c : b = AccountBalance /\ c = AccountBalance'
      BY Zenon
    <2>2. b \in Int /\ t =< b /\ c = b - t
      BY <1>1, <1>4, <2>1, Zenon DEF AccountBalance
    <2>3. b # None
      BY <2>2, BillingConstants, Zenon
    <2>4. c \in 0 .. (b - 1) /\ b - c = t
      BY <1>4, <2>2
    <2>5. paid' = [paid EXCEPT ![m] = @ + (b - c)]
      BY <1>1, <2>4, Zenon
    <2>6. paid'[m] =< Price[m]
      <3>1. /\ paid'[m] \in Nat /\ Price[m] \in Nat /\ due'[m] \in Nat
            /\ paid'[m] + (IF req'[m] = "queued" \/ billq'[m] = "queued" THEN due'[m] ELSE 0) =< Price[m]
        BY PriceIsNat, Zenon DEF IInv, TypeOK, InstalmentInv, Price
      <3>. QED BY <3>1
    <2>. QED BY <1>1, <2>1, <2>3, <2>4, <2>5, <2>6, Zenon DEF A!Pay, AccountBalance
  <1>. QED BY <1>1, <1>3, <1>4

LEMMA InitImplements == Init => A!Init
  <1>. SUFFICES ASSUME Init PROVE A!Init
    BY Zenon
  <1>1. AccountBalance \in Int \cup {None}
    BY InitIInv, BalanceType, Zenon DEF IInv
  <1>. QED BY <1>1, Zenon DEF A!Init, AccountBalance, Init

LEMMA StepImplements ==
    ASSUME IInv, [Next]_vars
    PROVE  [A!Next]_<<AccountBalance, paid, admin>>
  <1>1. IInv' /\ (AdminMoves \/ NoMoneyMoves \/ \E m \in Msgs : Payment(m))
    BY Step, Zenon
  <1>2. CASE AdminMoves
    <2>1. AccountBalance' \in Int \cup {None}
      BY <1>1, Zenon DEF IInv, TypeOK, AccountBalance, QuotaRecords, Amounts
    <2>. QED BY <1>2, <2>1, Zenon DEF A!Next, A!Administer, AccountBalance, AdminMoves
  <1>3. CASE NoMoneyMoves
    BY <1>3, Zenon DEF NoMoneyMoves
  <1>4. ASSUME NEW m \in Msgs, A!Pay(m) PROVE A!Next
    BY <1>4, Zenon DEF A!Next
  <1>. QED BY <1>1, <1>2, <1>3, <1>4, PaymentIsPay, Zenon

\* Billing implements the prepaid account: for any number of messages, parts and
\* User objects, a step of chargeUserForSubmitSms or of the bill request that moves
\* the balance takes the difference for one message, within its price and what the
\* balance holds, and only the administrator moves the balance otherwise.
THEOREM BillingImplementsAccount == Spec => ImplementsAccount
  <1>1. IInv /\ [Next]_vars => [A!Next]_<<AccountBalance, paid, admin>>
    BY StepImplements, Zenon
  <1>2. Spec => A!Spec
    BY InitImplements, BillingInvariance, <1>1, PTL DEF Spec, A!Spec, AccountBalance
  <1>. QED BY <1>2, Zenon DEF ImplementsAccount

-----------------------------------------------------------------------------
(* Both instalments are the price, while nobody touches the user. *)

\* What a message costs the router's user.
Owed(m) == IF quota[live].balance = None THEN 0 ELSE Price[m]

\* Before the bill request is settled, the first instalment and what is due are
\* the price; afterwards what was taken is.
AddsUp(m) ==
    /\ req[m] = "queued" \/ billq[m] = "queued" => paid[m] + due[m] = Owed(m)
    /\ req[m] = "acked" /\ billq[m] \in {"none", "acked"} => paid[m] = Owed(m)

\* A balance is limited for the request exactly when it is for the router.
SameLimit(q) == q.balance = None <=> quota[live].balance = None

\* The request holds the router's user, or a copy that is limited like it.
HoldsTheUser(h) == h.obj = live /\ (h.copied => SameLimit(h.quota))

\* Without the administrator there is one User object: sessions and requests hold
\* it or a copy of its quotas.
UntouchedInv ==
    admin = 0 =>
        /\ live \in Objs
        /\ bound \in {live, None}
        /\ \A m \in Msgs : held[m] # None => HoldsTheUser(held[m])
        /\ \A m \in Msgs : AddsUp(m)

\* The two instalments of n parts are the price of n parts.
LEMMA InstalmentsAddUp ==
    ASSUME NEW a \in Nat, NEW b \in Nat, NEW n \in Nat
    PROVE  a * n + b * n = (a + b) * n /\ a * n \in Nat /\ b * n \in Nat
  OBVIOUS

\* Route keeps the limit of the balance, and a message that it submits has paid
\* its first instalment and carries the second.
LEMMA RouteAddsUp ==
    ASSUME TypeOK, NEW m \in Msgs, NEW q \in QuotaRecords, Route(m, q),
           live \in Objs, SameLimit(q), paid[m] = 0
    PROVE  /\ quota'[live].balance = None <=> quota[live].balance = None
           /\ req'[m] = "refused" \/ (req'[m] = "queued" /\ paid'[m] + due'[m] = Owed(m))
  <1>1. live # None
    BY BillingConstants, Zenon
  <1>2. CASE RefusedEarly(m)
    BY <1>2, Zenon DEF RefusedEarly, Refuse, TypeOK
  <1>3. CASE ChargeAndSubmit(m, q)
    <2>1. PICK c : c = chargeUserForSubmitSms(q, Parts[m])
      BY Zenon
    <2>2. PICK s, d, r, n \in Nat :
            /\ s = getBillFor(q).submit_sm /\ d = getBillFor(q).submit_sm_resp
            /\ r = Rate /\ n = Parts[m] /\ n # 0
            /\ s + d = IF q.balance = None THEN 0 ELSE r
      BY BillIsShared, BillingConstants, Zenon
    <2>3. /\ c.take \in {0, s * n} /\ c.count \in Nat
          /\ c.take > 0 => live # None /\ quota[live].balance \in Int
          /\ c.count > 0 => live # None /\ quota[live].submit_sm_count \in Int
          /\ c.ok /\ quota[live].balance # None => c.take = s * n
          /\ quota[live].balance = None => c.take = 0
      BY <1>1, <2>1, <2>2, ChargeIsCovered, Zenon
    <2>4. s * n + d * n = (s + d) * n /\ s * n \in Nat /\ d * n \in Nat
      BY InstalmentsAddUp
    <2>5. /\ Deduct(c.take, c.count)
          /\ paid' = [paid EXCEPT ![m] = @ + c.take]
          /\ IF c.ok THEN Submitted(m, q) \/ Refuse(m, "submit")
             ELSE Refuse(m, IF live # None /\ q = quota[live] THEN "charging" ELSE "stale")
      BY <1>3, <2>1, Zenon DEF ChargeAndSubmit
    <2>6. c.take \in Nat
      BY <2>3, <2>4
    <2>7. quota'[live].balance = None <=> quota[live].balance = None
      BY <1>1, <2>3, <2>5, <2>6, DeductKeepsQuotas, Zenon
    <2>8. CASE \E why : Refuse(m, why)
      BY <2>7, <2>8, Zenon DEF Refuse, TypeOK
    <2>9. CASE c.ok /\ Submitted(m, q)
      <3>1. req'[m] = "queued" /\ due'[m] = d * n /\ paid'[m] = c.take
        <4>1. req'[m] = "queued" /\ due'[m] = d * n
          BY <2>2, <2>9, Zenon DEF Submitted, TypeOK
        <4>2. paid'[m] = 0 + c.take
          BY <2>5, Zenon DEF TypeOK
        <4>. QED BY <2>6, <4>1, <4>2
      <3>2. Price[m] = r * n
        BY <2>2, Zenon DEF Price
      <3>3. CASE quota[live].balance = None
        <4>1. s + d = 0 /\ c.take = 0
          BY <2>2, <2>3, <3>3, Zenon DEF SameLimit
        <4>2. d = 0
          BY <4>1
        <4>. QED BY <2>7, <3>1, <3>3, <4>1, <4>2 DEF Owed
      <3>4. CASE quota[live].balance # None
        <4>1. s + d = r /\ c.take = s * n
          BY <2>2, <2>3, <2>9, <3>4, Zenon DEF SameLimit
        <4>. QED BY <2>4, <2>7, <3>1, <3>2, <3>4, <4>1, Zenon DEF Owed
      <3>. QED BY <3>3, <3>4, Zenon
    <2>. QED BY <2>5, <2>8, <2>9, Zenon
  <1>. QED BY <1>2, <1>3, Zenon DEF Route

\* A step of a message leaves the other messages and the User objects in place.
LEMMA MsgMoves ==
    ASSUME TypeOK, NEW m \in Msgs, MsgNext(m), InstalmentInv(m)
    PROVE  OnlyMoves(m) /\ UNCHANGED <<admin, live, bound>>
  <1>1. ASSUME NEW q \in QuotaRecords, Route(m, q)
        PROVE  OnlyMoves(m) /\ UNCHANGED <<admin, live, bound>>
    <2>1. PICK t, d, why : RouteEffect(m, t, d, why)
      BY <1>1, RouteHasEffect, Zenon
    <2>. QED BY <2>1, Zenon DEF RouteEffect, TypeOK, OnlyMoves
  <1>2. CASE render_POST(m) \/ SendUnauthenticated(m)
    BY <1>2, Zenon DEF render_POST, SendUnauthenticated, RefusedEarly, Refuse, userVars, TypeOK, OnlyMoves
  <1>3. CASE SendIntercepted(m) \/ SubmitSmIntercepted(m)
    BY <1>3, Zenon DEF SendIntercepted, SubmitSmIntercepted, Suspend, userVars, TypeOK, OnlyMoves
  <1>4. CASE Send(m) \/ SubmitSm(m)
    BY <1>1, <1>4, Zenon DEF Send, SubmitSm, TypeOK
  <1>5. CASE ScriptReturns(m)
    <2>1. held[m] \in Holds
      BY <1>5, Zenon DEF ScriptReturns, TypeOK, InstalmentInv
    <2>. QED BY <1>1, <1>5, <2>1, ViewIsQuota, Zenon DEF ScriptReturns
  <1>6. CASE submit_sm_resp_event(m) \/ GivenUp(m)
    BY <1>6, Zenon DEF submit_sm_resp_event, GivenUp, userVars, TypeOK, OnlyMoves
  <1>7. CASE bill_request_submit_sm_resp_callback(m)
    <2>1. /\ UNCHANGED <<live, bound, admin, req, held, due, refusal>>
          /\ \E s : billq' = [billq EXCEPT ![m] = s]
          /\ UNCHANGED paid \/ paid' = [paid EXCEPT ![m] = @ + due[m]]
      BY <1>7, Zenon DEF bill_request_submit_sm_resp_callback
    <2>. QED BY <2>1, Zenon DEF TypeOK, OnlyMoves
  <1>. QED BY <1>2, <1>3, <1>4, <1>5, <1>6, <1>7, Zenon DEF MsgNext

\* What a step of one message has to keep.
LEMMA OthersAddUp ==
    ASSUME IInv, UntouchedInv, NEW m \in Msgs, admin = 0, OnlyMoves(m),
           UNCHANGED <<admin, live, bound>>,
           quota'[live].balance = None <=> quota[live].balance = None,
           held'[m] # None => /\ held'[m].obj = live
                              /\ held'[m].copied => SameLimit(held'[m].quota),
           AddsUp(m)'
    PROVE  UntouchedInv'
  <1>1. ASSUME NEW n \in Msgs, held'[n] # None
        PROVE  HoldsTheUser(held[n])'
    <2>1. held'[n].obj = live /\ (held'[n].copied => SameLimit(held'[n].quota))
      BY <1>1, Zenon DEF UntouchedInv, OnlyMoves, HoldsTheUser
    <2>. QED BY <2>1, Zenon DEF HoldsTheUser, SameLimit
  <1>2. ASSUME NEW n \in Msgs
        PROVE  AddsUp(n)'
    <2>1. CASE n = m
      BY <2>1, Zenon
    <2>2. CASE n # m
      <3>1. Owed(n)' = Owed(n)
        BY Zenon DEF Owed, Price
      <3>. QED BY <2>2, <3>1, Zenon DEF UntouchedInv, OnlyMoves, AddsUp
    <2>. QED BY <2>1, <2>2, Zenon
  <1>. QED BY <1>1, <1>2, Zenon DEF UntouchedInv

\* A request is routed with the quotas of the router's user, or with a copy that
\* is limited like it.
LEMMA RouteKeepsSum ==
    ASSUME IInv, UntouchedInv, admin = 0, NEW m \in Msgs, MsgNext(m),
           NEW q \in QuotaRecords, Route(m, q), SameLimit(q),
           req[m] \in {"new", "valid", "http", "smpps"}
    PROVE  UntouchedInv'
  <1>1. TypeOK /\ InstalmentInv(m) /\ paid[m] = 0 /\ billq[m] = "none" /\ live \in Objs
    BY Zenon DEF IInv, InstalmentInv, UntouchedInv
  <1>2. OnlyMoves(m) /\ UNCHANGED <<admin, live, bound>>
    BY <1>1, MsgMoves, Zenon
  <1>3. /\ quota'[live].balance = None <=> quota[live].balance = None
        /\ req'[m] = "refused" \/ (req'[m] = "queued" /\ paid'[m] + due'[m] = Owed(m))
    BY <1>1, RouteAddsUp, Zenon
  <1>4. held'[m] = None /\ billq'[m] = "none"
    <2>1. PICK t, d, why : RouteEffect(m, t, d, why)
      BY <1>1, RouteHasEffect, Zenon
    <2>. QED BY <1>1, <2>1, Zenon DEF RouteEffect, TypeOK
  <1>5. AddsUp(m)'
    <2>1. Owed(m)' = Owed(m)
      BY <1>2, <1>3, Zenon DEF Owed, Price
    <2>. QED BY <1>3, <1>4, <2>1, Zenon DEF AddsUp
  <1>. QED BY <1>2, <1>3, <1>4, <1>5, OthersAddUp, Zenon

\* One step per action of a message.
LEMMA MsgKeepsSum ==
    ASSUME IInv, UntouchedInv, admin = 0, NEW m \in Msgs, MsgNext(m)
    PROVE  UntouchedInv'
  <1>0. /\ TypeOK /\ InstalmentInv(m) /\ live \in Objs /\ live # None /\ bound \in {live, None}
        /\ AddsUp(m) /\ (held[m] # None => HoldsTheUser(held[m]))
        /\ paid[m] \in Nat /\ due[m] \in Nat
    BY BillingConstants, Zenon DEF IInv, TypeOK, UntouchedInv
  <1>a. OnlyMoves(m) /\ UNCHANGED <<admin, live, bound>>
    BY <1>0, MsgMoves, Zenon
  <1>1. CASE render_POST(m) \/ SendUnauthenticated(m)
    <2>1. UNCHANGED <<quota, held, billq>> /\ req'[m] \in {"valid", "refused"} /\ billq[m] = "none"
      BY <1>0, <1>1, Zenon DEF render_POST, SendUnauthenticated, RefusedEarly, Refuse, userVars, TypeOK, InstalmentInv
    <2>2. AddsUp(m)'
      BY <2>1, Zenon DEF AddsUp
    <2>. QED BY <1>0, <1>a, <2>1, <2>2, OthersAddUp, Zenon DEF HoldsTheUser
  <1>2. CASE Send(m)
    <2>1. quota[live] \in QuotaRecords /\ SameLimit(quota[live])
      BY <1>0, Zenon DEF TypeOK, SameLimit
    <2>. QED BY <1>2, <2>1, RouteKeepsSum, Zenon DEF Send
  <1>3. CASE SubmitSm(m)
    <2>1. bound = live /\ quota[live] \in QuotaRecords /\ SameLimit(quota[live])
      BY <1>0, <1>3, Zenon DEF SubmitSm, TypeOK, SameLimit
    <2>. QED BY <1>3, <2>1, RouteKeepsSum, Zenon DEF SubmitSm
  <1>4. CASE ScriptReturns(m)
    <2>1. held[m] \in Holds /\ HoldsTheUser(held[m])
      BY <1>0, <1>4, Zenon DEF ScriptReturns, TypeOK, InstalmentInv
    <2>2. View(held[m]) \in QuotaRecords /\ SameLimit(View(held[m]))
      BY <1>0, <2>1, ViewIsQuota, Zenon DEF HoldsTheUser, View, SameLimit
    <2>. QED BY <1>4, <2>2, RouteKeepsSum, Zenon DEF ScriptReturns
  <1>5. CASE SendIntercepted(m) \/ SubmitSmIntercepted(m)
    <2>1. PICK b \in BOOLEAN, s \in {"http", "smpps"} :
            Suspend(m, s, [obj |-> live, copied |-> b, quota |-> quota[live]])
      BY <1>0, <1>5, Zenon DEF SendIntercepted, SubmitSmIntercepted
    <2>2. /\ UNCHANGED <<quota, billq>> /\ req'[m] = s
          /\ held'[m] = [obj |-> live, copied |-> b, quota |-> quota[live]]
      BY <1>0, <2>1, Zenon DEF Suspend, userVars, TypeOK
    <2>3. held'[m].obj = live /\ SameLimit(held'[m].quota)
      BY <2>2 DEF SameLimit
    <2>4. billq[m] = "none"
      BY <1>0, <1>5, Zenon DEF SendIntercepted, SubmitSmIntercepted, InstalmentInv
    <2>5. AddsUp(m)'
      BY <2>2, <2>4, Zenon DEF AddsUp
    <2>. QED BY <1>a, <2>2, <2>3, <2>5, OthersAddUp, Zenon
  <1>6. CASE submit_sm_resp_event(m)
    <2>1. /\ UNCHANGED <<quota, held, due, paid>> /\ req[m] = "queued" /\ req'[m] = "acked"
          /\ billq'[m] \in (IF due[m] > 0 THEN {"queued", "lost"} ELSE {"none"})
      BY <1>0, <1>6, Zenon DEF submit_sm_resp_event, userVars, TypeOK
    <2>2. Owed(m)' = Owed(m) /\ paid[m] + due[m] = Owed(m)
      BY <1>0, <1>a, <2>1, Zenon DEF Owed, Price, AddsUp
    <2>3. due[m] = 0 => paid[m] = Owed(m)
      BY <1>0, <2>2
    <2>4. AddsUp(m)'
      BY <1>0, <2>1, <2>2, <2>3 DEF AddsUp
    <2>. QED BY <1>0, <1>a, <2>1, <2>4, OthersAddUp, Zenon DEF HoldsTheUser
  <1>7. CASE GivenUp(m)
    <2>1. UNCHANGED <<quota, held, billq>> /\ req'[m] = "failed" /\ billq[m] = "none"
      BY <1>0, <1>7, Zenon DEF GivenUp, userVars, TypeOK, InstalmentInv
    <2>2. AddsUp(m)'
      BY <2>1, Zenon DEF AddsUp
    <2>. QED BY <1>0, <1>a, <2>1, <2>2, OthersAddUp, Zenon DEF HoldsTheUser
  <1>8. CASE bill_request_submit_sm_resp_callback(m)
    <2>0. UNCHANGED <<req, held, due>> /\ req[m] = "acked" /\ paid[m] + due[m] = Owed(m)
      BY <1>0, <1>8, Zenon DEF bill_request_submit_sm_resp_callback, InstalmentInv, AddsUp
    <2>1. CASE UNCHANGED <<quota, paid>> /\ billq'[m] \in {"rejected", "unsettled"}
      <3>1. AddsUp(m)'
        BY <2>0, <2>1, Zenon DEF AddsUp
      <3>. QED BY <1>0, <1>a, <2>0, <2>1, <3>1, OthersAddUp, Zenon DEF HoldsTheUser
    <2>2. CASE /\ Deduct(due[m], 0) /\ paid' = [paid EXCEPT ![m] = @ + due[m]]
               /\ billq'[m] = "acked" /\ quota[live].balance # None
      <3>1. quota[live].balance \in Int
        BY <1>0, <2>2, Zenon DEF TypeOK, QuotaRecords, Amounts
      <3>2. quota'[live].balance = None <=> quota[live].balance = None
        BY <1>0, <2>2, <3>1, DeductKeepsQuotas
      <3>3. paid'[m] = Owed(m) /\ Owed(m)' = Owed(m)
        <4>1. paid'[m] = paid[m] + due[m]
          BY <1>0, <2>2, Zenon DEF TypeOK
        <4>. QED BY <1>a, <2>0, <3>2, <4>1, Zenon DEF Owed, Price
      <3>4. AddsUp(m)'
        BY <2>0, <2>2, <3>3, Zenon DEF AddsUp
      <3>. QED BY <1>0, <1>a, <2>0, <3>2, <3>4, OthersAddUp, Zenon DEF HoldsTheUser
    <2>. QED BY <1>0, <1>8, <2>1, <2>2, Zenon DEF bill_request_submit_sm_resp_callback, TypeOK
  <1>. QED BY <1>1, <1>2, <1>3, <1>4, <1>5, <1>6, <1>7, <1>8, Zenon DEF MsgNext

LEMMA StepKeepsSum ==
    ASSUME IInv, UntouchedInv, [Next]_vars
    PROVE  UntouchedInv'
  <1>1. CASE AdminNext
    <2>1. admin \in Nat /\ admin' = admin + 1
      BY <1>1, Zenon DEF AdminNext, perspective_user_add, perspective_user_remove, perspective_user_set_quota,
                  perspective_user_update_quota, AdminCall, IInv, TypeOK
    <2>2. admin' # 0
      BY <2>1
    <2>. QED BY <2>2, Zenon DEF UntouchedInv
  <1>2. CASE Bind
    <2>1. bound' = live /\ UNCHANGED <<quota, live, admin, req, held, due, billq, paid>>
      BY <1>2, Zenon DEF Bind
    <2>. QED BY <2>1, Zenon DEF UntouchedInv, HoldsTheUser, SameLimit, AddsUp, Owed, Price
  <1>3. ASSUME NEW m \in Msgs, MsgNext(m)
        PROVE  UntouchedInv'
    <2>1. CASE admin = 0
      BY <1>3, <2>1, MsgKeepsSum, Zenon
    <2>2. CASE admin # 0
      <3>1. admin' = admin
        BY <1>3, MsgMoves, Zenon DEF IInv
      <3>. QED BY <2>2, <3>1, Zenon DEF UntouchedInv
    <2>. QED BY <2>1, <2>2, Zenon
  <1>4. CASE UNCHANGED vars
    BY <1>4, Zenon DEF vars, UntouchedInv, HoldsTheUser, SameLimit, AddsUp, Owed, Price
  <1>. QED BY <1>1, <1>2, <1>3, <1>4, Zenon DEF Next

LEMMA InitUntouched == Init => UntouchedInv
  <1>. SUFFICES ASSUME Init PROVE UntouchedInv
    BY Zenon
  <1>1. live \in Objs /\ bound = None
    BY Zenon DEF Init
  <1>2. \A m \in Msgs : held[m] = None /\ req[m] = "new" /\ billq[m] = "none"
    BY Zenon DEF Init
  <1>. QED BY <1>1, <1>2, Zenon DEF UntouchedInv, AddsUp

\* A message that the SMSC acknowledged and whose bill request is settled has cost
\* its price over both instalments, or nothing where the balance is unlimited, for
\* any rate, share and number of parts: what getBillFor leaves for the response is
\* what chargeUserForSubmitSms did not take, also for a copy of the user.
THEOREM InstalmentsArePrice == Spec => []PaidInFull
  <1>1. Init => UntouchedInv
    BY InitUntouched, Zenon
  <1>2. IInv /\ UntouchedInv /\ [Next]_vars => UntouchedInv'
    BY StepKeepsSum, Zenon
  <1>3. UntouchedInv => PaidInFull
    BY Zenon DEF UntouchedInv, AddsUp, Owed, PaidInFull
  <1>. QED BY BillingInvariance, <1>1, <1>2, <1>3, PTL DEF Spec

-----------------------------------------------------------------------------
(* A bill request is rejected only after another message was charged. *)

\* Nothing was taken for another message.
Alone(m) == \A n \in Msgs : n # m => paid[n] = 0

\* The balance of the router's user covers what is still to be billed.
Covered(m) == due[m] = 0 \/ (quota[live].balance # None /\ due[m] =< quota[live].balance)

\* A suspended request still sees the balance of the router's user, and what it
\* leaves to be billed is covered; only what is more than nothing is billed.
AloneInv(m) ==
    /\ req[m] \in {"http", "smpps"} => View(held[m]).balance = quota[live].balance
    /\ req[m] = "queued" \/ billq[m] = "queued" => Covered(m)
    /\ billq[m] = "queued" => due[m] # 0
    /\ billq[m] # "rejected"

CoveredInv == admin = 0 => \A m \in Msgs : Alone(m) => AloneInv(m)

\* While nobody touches the user, the bill request of a message that met the
\* charging requirements is rejected only if something was taken for another
\* message (bill_request_submit_sm_resp_callback).
CoveredIfAlone == admin = 0 => \A m \in Msgs : billq[m] = "rejected" => ~Alone(m)

\* chargeUserForSubmitSms lets a message pass only if the quotas that the request
\* saw cover both instalments.
LEMMA PassedIsRequired ==
    ASSUME NEW q, NEW n, chargeUserForSubmitSms(q, n).ok
    PROVE  Requirements(q, getBillFor(q), n)
  <1>1. CASE ~Requirements(q, getBillFor(q), n)
    <2>1. chargeUserForSubmitSms(q, n) = Charge(FALSE, 0, 0)
      BY <1>1, Zenon DEF chargeUserForSubmitSms
    <2>2. Charge(FALSE, 0, 0).ok = FALSE
      BY DEF Charge
    <2>. QED BY <2>1, <2>2, Zenon
  <1>. QED BY <1>1, Zenon

\* If the request saw the balance that is charged, what the charge leaves covers
\* the second instalment.
LEMMA RouteCovers ==
    ASSUME TypeOK, NEW m \in Msgs, NEW q \in QuotaRecords, Route(m, q),
           live \in Objs, q.balance = quota[live].balance
    PROVE  req'[m] = "refused" \/ (req'[m] = "queued" /\ Covered(m)')
  <1>1. live # None /\ live' = live
    BY BillingConstants, Zenon DEF Route
  <1>2. CASE RefusedEarly(m)
    BY <1>2, Zenon DEF RefusedEarly, Refuse, TypeOK
  <1>3. CASE ChargeAndSubmit(m, q)
    <2>1. PICK c : c = chargeUserForSubmitSms(q, Parts[m])
      BY Zenon
    <2>2. PICK s, d, r, n \in Nat :
            /\ s = getBillFor(q).submit_sm /\ d = getBillFor(q).submit_sm_resp
            /\ r = Rate /\ n = Parts[m] /\ n # 0
            /\ s + d = IF q.balance = None THEN 0 ELSE r
      BY BillIsShared, BillingConstants, Zenon
    <2>3. /\ c.take \in {0, s * n} /\ c.count \in Nat
          /\ c.take > 0 => live # None /\ quota[live].balance \in Int
          /\ c.count > 0 => live # None /\ quota[live].submit_sm_count \in Int
          /\ c.ok /\ quota[live].balance # None => c.take = s * n
      BY <1>1, <2>1, <2>2, ChargeIsCovered, Zenon
    <2>4. s * n + d * n = (s + d) * n /\ s * n \in Nat /\ d * n \in Nat
      BY InstalmentsAddUp
    <2>5. /\ Deduct(c.take, c.count)
          /\ IF c.ok THEN Submitted(m, q) \/ Refuse(m, "submit")
             ELSE Refuse(m, IF live # None /\ q = quota[live] THEN "charging" ELSE "stale")
      BY <1>3, <2>1, Zenon DEF ChargeAndSubmit
    <2>6. c.take \in Nat
      BY <2>3, <2>4
    <2>7. /\ c.take > 0 => quota'[live].balance = quota[live].balance - c.take
          /\ c.take = 0 => quota'[live].balance = quota[live].balance
      BY <1>1, <2>3, <2>5, <2>6, DeductKeepsQuotas, Zenon
    <2>8. CASE \E why : Refuse(m, why)
      BY <2>8, Zenon DEF Refuse, TypeOK
    <2>9. CASE c.ok /\ Submitted(m, q)
      <3>1. req'[m] = "queued" /\ due'[m] = d * n
        BY <2>2, <2>9, Zenon DEF Submitted, TypeOK
      <3>2. CASE d = 0
        <4>1. d * n = 0
          BY <3>2
        <4>. QED BY <3>1, <4>1, Zenon DEF Covered
      <3>3. CASE d # 0
        <4>1. s + d > 0
          BY <3>3
        <4>2. q.balance # None /\ c.take = s * n
          <5>1. s + d # 0
            BY <4>1
          <5>. QED BY <2>2, <2>3, <2>9, <5>1, Zenon
        <4>3. (s + d) * n =< quota[live].balance
          BY <2>1, <2>2, <2>9, <4>1, <4>2, PassedIsRequired, Zenon DEF Requirements
        <4>4. PICK b \in Int : b = quota[live].balance
          BY <1>1, <4>2, Zenon DEF TypeOK, QuotaRecords, Amounts
        <4>5. quota'[live].balance = b - c.take
          BY <2>6, <2>7, <4>4
        <4>6. d * n =< b - c.take /\ b - c.take \in Int
          BY <2>4, <2>6, <4>2, <4>3, <4>4
        <4>7. quota'[live].balance # None
          BY <4>5, <4>6, BillingConstants, Zenon
        <4>. QED BY <1>1, <3>1, <4>5, <4>6, <4>7, Zenon DEF Covered
      <3>. QED BY <3>2, <3>3, Zenon
    <2>. QED BY <2>5, <2>8, <2>9, Zenon
  <1>. QED BY <1>2, <1>3, Zenon DEF Route

\* A step of one message keeps the cover of the others: it takes nothing, or they
\* are not alone any more.
LEMMA OthersCovered ==
    ASSUME IInv, UntouchedInv, CoveredInv, admin = 0, NEW m \in Msgs, MsgNext(m),
           Alone(m) => AloneInv(m)'
    PROVE  CoveredInv'
  <1>0. /\ TypeOK /\ live \in Objs /\ live # None /\ InstalmentInv(m)
        /\ \A n \in Msgs : Alone(n) => AloneInv(n)
        /\ \A n \in Msgs : held[n] # None => HoldsTheUser(held[n])
    BY BillingConstants, Zenon DEF IInv, UntouchedInv, CoveredInv
  <1>1. OnlyMoves(m) /\ UNCHANGED <<admin, live, bound>>
    BY <1>0, MsgMoves, Zenon
  <1>2. ASSUME NEW n \in Msgs, n # m, Alone(n)'
        PROVE  AloneInv(n)'
    <2>1. paid[m] \in Nat /\ paid'[m] = 0
      BY <1>0, <1>2, Zenon DEF Alone, TypeOK
    <2>2. paid[m] = 0 /\ quota'[live].balance = quota[live].balance
      <3>1. CASE NoMoneyMoves
        BY <1>0, <1>1, <2>1, <3>1, Zenon DEF NoMoneyMoves, AccountBalance
      <3>2. CASE Payment(m)
        <4>1. PICK t \in Nat : paid'[m] = paid[m] + t /\ (t = 0 => UNCHANGED AccountBalance)
          BY <1>0, <3>2, Zenon DEF Payment, TypeOK
        <4>2. t = 0 /\ paid[m] = 0
          BY <2>1, <4>1
        <4>. QED BY <1>0, <1>1, <4>1, <4>2, Zenon DEF AccountBalance
      <3>. QED BY <3>1, <3>2, MsgStep, Zenon
    <2>3. Alone(n)
      BY <1>1, <1>2, <2>2, Zenon DEF Alone, OnlyMoves
    <2>4. /\ AloneInv(n) /\ req'[n] = req[n] /\ billq'[n] = billq[n]
          /\ due'[n] = due[n] /\ held'[n] = held[n]
      BY <1>0, <1>1, <1>2, <2>3, Zenon DEF OnlyMoves
    <2>5. req[n] \in {"http", "smpps"} => View(held[n])'.balance = View(held[n]).balance
      <3>. SUFFICES ASSUME req[n] \in {"http", "smpps"}
                    PROVE  View(held[n])'.balance = View(held[n]).balance
        BY Zenon
      <3>1. held[n].obj = live
        BY <1>0, Zenon DEF IInv, InstalmentInv, HoldsTheUser
      <3>. QED BY <2>2, <2>4, <3>1, Zenon DEF View
    <2>. QED BY <1>1, <2>2, <2>4, <2>5, Zenon DEF AloneInv, Covered
  <1>3. Alone(m)' => Alone(m)
    BY <1>1, Zenon DEF Alone, OnlyMoves
  <1>. QED BY <1>2, <1>3, Zenon DEF CoveredInv

\* One step per action of a message.
LEMMA MsgKeepsCover ==
    ASSUME IInv, UntouchedInv, CoveredInv, admin = 0, NEW m \in Msgs, MsgNext(m)
    PROVE  CoveredInv'
  <1>. SUFFICES ASSUME Alone(m) PROVE AloneInv(m)'
    BY OthersCovered, Zenon
  <1>0. /\ TypeOK /\ InstalmentInv(m) /\ live \in Objs /\ live # None /\ bound \in {live, None}
        /\ AloneInv(m)
    BY BillingConstants, Zenon DEF IInv, UntouchedInv, CoveredInv
  <1>a. ASSUME NEW q \in QuotaRecords, Route(m, q), q.balance = quota[live].balance,
               req[m] \in {"new", "valid", "http", "smpps"}
        PROVE  AloneInv(m)'
    <2>1. PICK t, d, why : RouteEffect(m, t, d, why)
      BY <1>0, <1>a, RouteHasEffect, Zenon
    <2>2. billq'[m] = "none"
      BY <1>0, <1>a, <2>1, Zenon DEF RouteEffect, InstalmentInv
    <2>. QED BY <1>0, <1>a, <2>2, RouteCovers, Zenon DEF AloneInv
  <1>1. CASE render_POST(m) \/ SendUnauthenticated(m)
    <2>1. req'[m] \in {"valid", "refused"} /\ billq'[m] = "none"
      BY <1>0, <1>1, Zenon DEF render_POST, SendUnauthenticated, RefusedEarly, Refuse, TypeOK, InstalmentInv
    <2>. QED BY <2>1, Zenon DEF AloneInv
  <1>2. CASE Send(m) \/ SubmitSm(m)
    BY <1>0, <1>2, <1>a, Zenon DEF Send, SubmitSm, TypeOK
  <1>3. CASE ScriptReturns(m)
    <2>1. held[m] \in Holds
      BY <1>0, <1>3, Zenon DEF ScriptReturns, TypeOK, InstalmentInv
    <2>. QED BY <1>0, <1>3, <1>a, <2>1, ViewIsQuota, Zenon DEF ScriptReturns, AloneInv
  <1>4. CASE SendIntercepted(m) \/ SubmitSmIntercepted(m)
    <2>1. PICK b \in BOOLEAN, s \in {"http", "smpps"} :
            Suspend(m, s, [obj |-> live, copied |-> b, quota |-> quota[live]])
      BY <1>0, <1>4, Zenon DEF SendIntercepted, SubmitSmIntercepted
    <2>2. /\ UNCHANGED <<quota, live, billq>> /\ req'[m] = s
          /\ held'[m] = [obj |-> live, copied |-> b, quota |-> quota[live]]
      BY <1>0, <2>1, Zenon DEF Suspend, userVars, TypeOK
    <2>3. held'[m].obj = live /\ held'[m].quota = quota[live]
      BY <2>2
    <2>4. View(held[m])' = quota[live]
      BY <2>2, <2>3, Zenon DEF View
    <2>5. billq[m] = "none"
      BY <1>0, <1>4, Zenon DEF SendIntercepted, SubmitSmIntercepted, InstalmentInv
    <2>. QED BY <2>2, <2>4, <2>5, Zenon DEF AloneInv
  <1>5. CASE submit_sm_resp_event(m)
    <2>1. /\ UNCHANGED <<quota, live, due>> /\ req[m] = "queued" /\ req'[m] = "acked"
          /\ billq'[m] \in {"queued", "lost", "none"}
          /\ due[m] \in Nat /\ (billq'[m] = "queued" => due[m] > 0)
      BY <1>0, <1>5, Zenon DEF submit_sm_resp_event, userVars, TypeOK
    <2>2. billq'[m] = "queued" => due[m] # 0
      BY <2>1
    <2>. QED BY <1>0, <2>1, <2>2, Zenon DEF AloneInv, Covered
  <1>6. CASE GivenUp(m)
    <2>1. req'[m] = "failed" /\ billq'[m] = "none"
      BY <1>0, <1>6, Zenon DEF GivenUp, TypeOK, InstalmentInv
    <2>. QED BY <2>1, Zenon DEF AloneInv
  <1>7. CASE bill_request_submit_sm_resp_callback(m)
    <2>1. /\ billq[m] = "queued" /\ req[m] = "acked" /\ req'[m] = "acked" /\ due[m] \in Nat /\ due[m] # 0
          /\ Covered(m)
      BY <1>0, <1>7, Zenon DEF bill_request_submit_sm_resp_callback, InstalmentInv, AloneInv, TypeOK
    <2>2. ~(quota[live].balance # None /\ quota[live].balance < due[m])
      <3>1. quota[live].balance # None => quota[live].balance \in Int
        BY <1>0, Zenon DEF TypeOK, QuotaRecords, Amounts
      <3>. QED BY <2>1, <3>1 DEF Covered
    <2>3. billq'[m] \in {"unsettled", "acked"}
      BY <1>0, <1>7, <2>2, Zenon DEF bill_request_submit_sm_resp_callback, TypeOK
    <2>. QED BY <2>1, <2>3, Zenon DEF AloneInv
  <1>. QED BY <1>1, <1>2, <1>3, <1>4, <1>5, <1>6, <1>7, Zenon DEF MsgNext

LEMMA StepKeepsCover ==
    ASSUME IInv, UntouchedInv, CoveredInv, [Next]_vars
    PROVE  CoveredInv'
  <1>1. CASE AdminNext
    <2>1. admin \in Nat /\ admin' = admin + 1
      BY <1>1, Zenon DEF AdminNext, perspective_user_add, perspective_user_remove, perspective_user_set_quota,
                  perspective_user_update_quota, AdminCall, IInv, TypeOK
    <2>2. admin' # 0
      BY <2>1
    <2>. QED BY <2>2, Zenon DEF CoveredInv
  <1>2. CASE Bind
    <2>1. UNCHANGED <<quota, live, admin, req, held, due, billq, paid>>
      BY <1>2, Zenon DEF Bind
    <2>. QED BY <2>1, Zenon DEF CoveredInv, Alone, AloneInv, Covered, View
  <1>3. ASSUME NEW m \in Msgs, MsgNext(m)
        PROVE  CoveredInv'
    <2>1. CASE admin = 0
      BY <1>3, <2>1, MsgKeepsCover, Zenon
    <2>2. CASE admin # 0
      <3>1. admin' = admin
        BY <1>3, MsgMoves, Zenon DEF IInv
      <3>. QED BY <2>2, <3>1, Zenon DEF CoveredInv
    <2>. QED BY <2>1, <2>2, Zenon
  <1>4. CASE UNCHANGED vars
    BY <1>4, Zenon DEF vars, CoveredInv, Alone, AloneInv, Covered, View
  <1>. QED BY <1>1, <1>2, <1>3, <1>4, Zenon DEF Next

\* What the comment at send.py:327 says holds for a message that has the user to
\* itself, for any quotas, rate and number of parts: its bill request is rejected
\* only if the router took something for another message, also when the request
\* was suspended in the interceptor or went on with a copy of the user.
THEOREM RejectedOnlyForAnother == Spec => []CoveredIfAlone
  <1>1. Init => UntouchedInv /\ CoveredInv
    <2>. SUFFICES ASSUME Init PROVE UntouchedInv /\ CoveredInv
      BY Zenon
    <2>1. \A m \in Msgs : req[m] = "new" /\ billq[m] = "none"
      BY Zenon DEF Init
    <2>. QED BY <2>1, InitUntouched, Zenon DEF CoveredInv, AloneInv
  <1>2. IInv /\ UntouchedInv /\ CoveredInv /\ [Next]_vars => (UntouchedInv /\ CoveredInv)'
    BY StepKeepsSum, StepKeepsCover, Zenon
  <1>3. CoveredInv => CoveredIfAlone
    BY Zenon DEF CoveredInv, AloneInv, CoveredIfAlone
  <1>. QED BY BillingInvariance, <1>1, <1>2, <1>3, PTL DEF Spec

=============================================================================
