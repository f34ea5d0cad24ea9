-------------------------- MODULE MoDeliveryProofs --------------------------
(***************************************************************************)
(* Proofs about MoDelivery, for any messages, routes, number of parts and  *)
(* of retries: the inductive invariant IInv, and the safety properties     *)
(* that follow from it.                                                    *)
(***************************************************************************)
EXTENDS MoDelivery, TLAPS

-----------------------------------------------------------------------------
(* Messages and their ids. *)

\* A message other than a receipt has its own message-id.
LEMMA OwnIds ==
    /\ \A i \in Items : OwnId(i) => msgid(i) = i /\ i \in Ids
    /\ \A i \in Items : msgid(i) \in Ids
    /\ \A i \in Dlrs : msgid(i) = DlrId /\ DlrId \notin Items
    /\ Long \in Items /\ OwnId(Long)
    /\ \A i \in PartsOfLong : i \in Items /\ OwnId(i) /\ i # Long
    /\ \A i \in Shorts : i \in Items /\ i # Long
  BY DeliveryConstants DEF OwnId, msgid, Ids, Items

LEMMA PartOfNumber ==
    /\ \A k \in 1 .. Parts : <<Long, k>> \in PartsOfLong
    /\ \A i \in PartsOfLong : i[2] \in 1 .. Parts /\ i = <<Long, i[2]>>
    /\ Parts \in 1 .. Parts
  BY DeliveryConstants DEF PartsOfLong

LEMMA ShortIsNoPart == \A i \in Shorts : i \notin PartsOfLong
  BY DeliveryConstants

-----------------------------------------------------------------------------
(* Steps that take messages as far as the throwers. *)

\* Message i moves on before it is thrown for the first time.
Advances(i) ==
    /\ stage[i] \in Untried
    /\ stage'[i] \in Untried \cup {"rejected", "throwerq", "lost"}
    /\ OwnId(i) /\ stage'[i] \in Routed => route'[i] \in Routes /\ ~Unroutable(i, route'[i])

StaysPut(i) == stage'[i] = stage[i] /\ route'[i] = route[i]

LEMMA AdvanceKeeps ==
    ASSUME IInv, \A i \in Items : StaysPut(i) \/ Advances(i),
           UNCHANGED <<memory, history>>
    PROVE  TimerInv' /\ \A i \in Items : ItemInv(i)'
  <1>1. UNCHANGED <<requeueTimers, throwing_retrials, tries, reached, takes, unheard>>
    BY DEF memory, history
  <1>2. TimerInv'
    BY <1>1 DEF IInv, TypeOK, TimerInv, StaysPut, Advances, Untried
  <1>3. ASSUME NEW i \in Items PROVE ItemInv(i)'
    <2>1. CASE StaysPut(i)
      BY <1>1, <2>1 DEF IInv, ItemInv, StaysPut
    <2>2. CASE Advances(i)
      <3>1. ItemInv(i) /\ stage[i] # "delivered" /\ stage[i] # "waiting" /\ stage[i] # "rejected"
            /\ stage'[i] # "delivered" /\ stage'[i] # "waiting" /\ i \notin reached
            /\ (OwnId(i) => tries[i] = 0 /\ takes[i] = 0)
        BY <2>2 DEF IInv, ItemInv, Advances, Untried
      <3>2. 0 <= MaxRetries
        BY DeliveryConstants
      <3>. QED BY <1>1, <2>2, <3>1, <3>2 DEF ItemInv, Advances
    <2>. QED BY <2>1, <2>2
  <1>. QED BY <1>2, <1>3

-----------------------------------------------------------------------------
(* The throwers. *)

\* A step of one message leaves the others alone; receipts may share a timer.
OnlyMoves(i) ==
    \A n \in Items \ {i} :
        /\ stage'[n] = stage[n] /\ route'[n] = route[n]
        /\ tries'[n] = tries[n] /\ takes'[n] = takes[n] /\ unheard'[n] = unheard[n]
        /\ n \in reached' <=> n \in reached
        /\ OwnId(n) => /\ requeueTimers'[n] = requeueTimers[n]
                       /\ throwing_retrials'[n] = throwing_retrials[n]

LEMMA OthersKeep ==
    ASSUME IInv, NEW i \in Items, OnlyMoves(i), ItemInv(i)'
    PROVE  \A n \in Items : ItemInv(n)'
  <1>1. ASSUME NEW n \in Items, n # i PROVE ItemInv(n)'
    BY <1>1 DEF OnlyMoves, IInv, ItemInv
  <1>. QED BY <1>1

\* The entry of a message-id is not the one of another message.
LEMMA OtherIds ==
    ASSUME NEW i \in Items, NEW n \in Items, n # i, OwnId(n)
    PROVE  n \in Ids /\ n # msgid(i) /\ msgid(i) \in Ids
  BY OwnIds DEF OwnId, msgid

LEMMA ThrowKeeps ==
    ASSUME IInv, NEW i \in Items, throwing_callback(i)
    PROVE  TimerInv' /\ \A n \in Items : ItemInv(n)'
  <1>1. /\ TypeOK /\ ItemInv(i) /\ stage[i] = "throwerq"
        /\ stage' = [stage EXCEPT ![i] = "throwing"]
        /\ UNCHANGED <<route, reached, takes, unheard>>
    BY DEF IInv, ItemInv, throwing_callback, To
  <1>2. /\ throwing_retrials' = [throwing_retrials EXCEPT ![msgid(i)] = @ + 1]
        /\ tries' = [tries EXCEPT ![i] = @ + 1]
        /\ \/ requeueTimers' = requeueTimers
           \/ requeueTimers' = [requeueTimers EXCEPT ![msgid(i)] = None]
    BY DEF throwing_callback, incThrowingRetrials, clearRequeueTimer
  <1>3. TimerInv'
    <2>1. ASSUME NEW m \in Ids, requeueTimers'[m] # None
          PROVE  requeueTimers'[m] = requeueTimers[m]
      BY <1>1, <1>2, <2>1 DEF TypeOK
    <2>2. ASSUME NEW m \in Ids, requeueTimers[m] # None
          PROVE  /\ requeueTimers[m] \in Items /\ msgid(requeueTimers[m]) = m
                 /\ stage'[requeueTimers[m]] = "waiting"
      BY <1>1, <2>2 DEF TypeOK, IInv, TimerInv
    <2>. QED BY <2>1, <2>2 DEF TimerInv
  <1>4. OnlyMoves(i)
    <2>1. ASSUME NEW n \in Items, n # i
          PROVE  stage'[n] = stage[n] /\ route'[n] = route[n] /\ tries'[n] = tries[n]
      BY <1>1, <1>2, <2>1 DEF TypeOK
    <2>2. ASSUME NEW n \in Items, n # i, OwnId(n)
          PROVE  requeueTimers'[n] = requeueTimers[n] /\ throwing_retrials'[n] = throwing_retrials[n]
      BY <1>1, <1>2, <2>2, OtherIds DEF TypeOK
    <2>. QED BY <1>1, <2>1, <2>2 DEF OnlyMoves
  <1>5. ItemInv(i)'
    <2>1. /\ stage'[i] = "throwing" /\ route'[i] = route[i] /\ i \notin reached /\ i \notin reached'
          /\ takes'[i] = unheard'[i] + 0
      BY <1>1 DEF TypeOK, ItemInv
    <2>2. ASSUME OwnId(i)
          PROVE  /\ tries[i] \in Nat /\ tries[i] <= MaxRetries /\ throwing_retrials[i] = tries[i]
                 /\ tries'[i] = tries[i] + 1 /\ throwing_retrials'[i] = throwing_retrials[i] + 1
                 /\ route[i] \in Routes /\ ~Unroutable(i, route[i])
      BY <1>1, <1>2, <2>2, OwnIds DEF TypeOK, ItemInv, Routed
    <2>3. ASSUME OwnId(i)
          PROVE  tries'[i] <= MaxRetries + 1 /\ throwing_retrials'[i] = tries'[i]
      BY <2>2, <2>3, DeliveryConstants
    <2>. QED BY <2>1, <2>2, <2>3 DEF ItemInv, Untried
  <1>. QED BY <1>3, <1>4, <1>5, OthersKeep

\* What the thrower hears at the end of a throw: heard is 1 for an acknowledgement.
Heard(i, heard) ==
    /\ stage[i] = "throwing" /\ reached' = reached \ {i} /\ takes' = takes
    /\ unheard' \in [Items -> Nat] /\ \A n \in Items \ {i} : unheard'[n] = unheard[n]
    /\ takes[i] = unheard'[i] + heard
    /\ Forgets(i) /\ UNCHANGED route

LEMMA HearsOf ==
    ASSUME IInv, NEW i \in Items, NEW outcome, stage[i] = "throwing", Hears(i, outcome),
           Forgets(i), UNCHANGED route
    PROVE  Heard(i, IF outcome = "ok" THEN 1 ELSE 0)
  <1>1. /\ unheard \in [Items -> Nat] /\ takes[i] \in Nat
        /\ takes[i] = unheard[i] + (IF i \in reached THEN 1 ELSE 0)
    BY DEF IInv, TypeOK, ItemInv
  <1>2. unheard' \in [Items -> Nat] /\ \A n \in Items \ {i} : unheard'[n] = unheard[n]
    BY <1>1 DEF Hears
  <1>3. takes[i] = unheard'[i] + (IF outcome = "ok" THEN 1 ELSE 0)
    <2>1. CASE outcome = "ok"
      BY <1>1, <2>1 DEF Hears
    <2>2. CASE outcome # "ok"
      BY <1>1, <2>2 DEF Hears
    <2>. QED BY <2>1, <2>2
  <1>. QED BY <1>2, <1>3, Zenon DEF Hears, Heard

\* What a message that is being thrown is like.
LEMMA BeingThrown ==
    ASSUME IInv, NEW i \in Items, stage[i] = "throwing"
    PROVE  /\ TypeOK /\ msgid(i) \in Ids /\ i # None
           /\ OwnId(i) => /\ msgid(i) = i /\ i \in Ids /\ tries[i] \in Nat
                          /\ throwing_retrials[i] = tries[i] /\ tries[i] <= MaxRetries + 1
                          /\ route[i] \in Routes /\ ~Unroutable(i, route[i])
           /\ \A m \in Ids : requeueTimers[m] # None =>
                 /\ requeueTimers[m] \in Items /\ msgid(requeueTimers[m]) = m
                 /\ stage[requeueTimers[m]] = "waiting" /\ requeueTimers[m] # i
  <1>1. TypeOK /\ ItemInv(i) /\ msgid(i) \in Ids /\ i # None
    BY OwnIds, DeliveryConstants DEF IInv
  <1>2. ASSUME OwnId(i)
        PROVE  /\ msgid(i) = i /\ i \in Ids /\ tries[i] \in Nat /\ throwing_retrials[i] = tries[i]
               /\ tries[i] <= MaxRetries + 1
               /\ route[i] \in Routes /\ ~Unroutable(i, route[i])
    BY <1>1, <1>2, OwnIds DEF TypeOK, ItemInv, Routed
  <1>3. ASSUME NEW m \in Ids, requeueTimers[m] # None
        PROVE  /\ requeueTimers[m] \in Items /\ msgid(requeueTimers[m]) = m
               /\ stage[requeueTimers[m]] = "waiting" /\ requeueTimers[m] # i
    BY <1>1, <1>3 DEF TypeOK, IInv, TimerInv
  <1>. QED BY <1>1, <1>2, <1>3, Zenon

\* A message is done with: nothing of it is left in memory.
LEMMA DoneKeeps ==
    ASSUME IInv, NEW i \in Items, NEW s \in {"delivered", "rejected"}, To(i, s),
           Heard(i, IF s = "delivered" THEN 1 ELSE 0),
           throwing_retrials' = delThrowingRetrials(i), UNCHANGED requeueTimers
    PROVE  TimerInv' /\ \A n \in Items : ItemInv(n)'
  <1>1. TypeOK /\ stage[i] = "throwing"
    BY DEF IInv, Heard
  <1>2. /\ stage' = [stage EXCEPT ![i] = s]
        /\ throwing_retrials' = [throwing_retrials EXCEPT ![msgid(i)] = 0]
        /\ tries' = [tries EXCEPT ![i] = 0]
        /\ reached' = reached \ {i} /\ takes' = takes /\ route' = route
        /\ \A n \in Items \ {i} : unheard'[n] = unheard[n]
    <2>1. stage' = [stage EXCEPT ![i] = s] /\ stage'[i] = s
      BY <1>1 DEF To, TypeOK
    <2>. QED BY <2>1 DEF delThrowingRetrials, Heard, Forgets
  <1>3. TimerInv'
    BY <1>1, <1>2, BeingThrown DEF TimerInv, TypeOK
  <1>4. OnlyMoves(i)
    BY <1>1, <1>2, BeingThrown, OtherIds DEF OnlyMoves, TypeOK
  <1>5. ItemInv(i)'
    <2>1. stage'[i] = s /\ i \notin reached' /\ tries'[i] = 0 /\ 0 <= MaxRetries + 1
      BY <1>1, <1>2, DeliveryConstants DEF TypeOK
    <2>2. takes'[i] = unheard'[i] + (IF stage'[i] = "delivered" THEN 1 ELSE 0)
      BY <1>2, <2>1, Zenon DEF Heard
    <2>3. OwnId(i) => /\ throwing_retrials'[i] = 0
                      /\ route'[i] \in Routes /\ ~Unroutable(i, route'[i])
      BY <1>1, <1>2, BeingThrown DEF TypeOK
    <2>. QED BY <2>1, <2>2, <2>3 DEF ItemInv, Untried
  <1>. QED BY <1>3, <1>4, <1>5, OthersKeep

\* It waits for its next try.
LEMMA RequeueKeeps ==
    ASSUME IInv, NEW i \in Items, Heard(i, 0), rejectAndRequeueMessage(i),
           throwing_retrials[msgid(i)] <= MaxRetries
    PROVE  TimerInv' /\ \A n \in Items : ItemInv(n)'
  <1>1. TypeOK /\ stage[i] = "throwing"
    BY DEF IInv, Heard
  <1>2. /\ stage' = [stage EXCEPT ![i] = "waiting"]
        /\ requeueTimers' = [requeueTimers EXCEPT ![msgid(i)] = i]
        /\ reached' = reached \ {i}
        /\ UNCHANGED <<throwing_retrials, takes, route, tries>>
        /\ \A n \in Items \ {i} : unheard'[n] = unheard[n]
    <2>1. stage' = [stage EXCEPT ![i] = "waiting"] /\ stage'[i] = "waiting"
      BY <1>1 DEF To, TypeOK, rejectAndRequeueMessage
    <2>. QED BY <2>1 DEF rejectAndRequeueMessage, Heard, Forgets
  <1>3. TimerInv'
    <2>1. ASSUME NEW m \in Ids, requeueTimers'[m] # None
          PROVE  msgid(requeueTimers'[m]) = m /\ stage'[requeueTimers'[m]] = "waiting"
      <3>1. CASE m = msgid(i)
        BY <1>1, <1>2, <3>1, BeingThrown DEF TypeOK
      <3>2. CASE m # msgid(i)
        <4>1. requeueTimers'[m] = requeueTimers[m]
          BY <1>1, <1>2, <3>2 DEF TypeOK
        <4>. QED BY <1>1, <1>2, <2>1, <4>1, BeingThrown DEF TypeOK
      <3>. QED BY <3>1, <3>2
    <2>. QED BY <2>1 DEF TimerInv
  <1>4. OnlyMoves(i)
    BY <1>1, <1>2, BeingThrown, OtherIds DEF OnlyMoves, TypeOK
  <1>5. ItemInv(i)'
    <2>1. stage'[i] = "waiting" /\ i \notin reached'
      BY <1>1, <1>2 DEF TypeOK
    <2>2. takes'[i] = unheard'[i] + 0
      BY <1>2, Zenon DEF Heard
    <2>3. OwnId(i) => /\ throwing_retrials'[i] = tries'[i] /\ tries'[i] <= MaxRetries
                      /\ tries'[i] <= MaxRetries + 1 /\ requeueTimers'[i] = i
                      /\ route'[i] \in Routes /\ ~Unroutable(i, route'[i])
      BY <1>1, <1>2, BeingThrown DEF TypeOK
    <2>. QED BY <2>1, <2>2, <2>3 DEF ItemInv, Untried
  <1>. QED BY <1>3, <1>4, <1>5, OthersKeep

\* A throw that ends.
LEMMA SettleKeeps ==
    ASSUME IInv, NEW i \in Items, NEW outcome, Settle(i, outcome),
           Heard(i, IF outcome = "ok" THEN 1 ELSE 0)
    PROVE  TimerInv' /\ \A n \in Items : ItemInv(n)'
  <1>1. CASE outcome = "ok" /\ ackMessage(i)
    BY <1>1, DoneKeeps DEF ackMessage
  <1>2. CASE outcome # "ok" /\ rejectMessage(i)
    BY <1>2, DoneKeeps DEF rejectMessage
  <1>3. CASE outcome # "ok" /\ Retried(i, outcome) /\ rejectAndRequeueMessage(i)
    BY <1>3, RequeueKeeps DEF Retried
  <1>. QED BY <1>1, <1>2, <1>3 DEF Settle

\* One turn of the loop over the connectors.
LEMMA IterateKeeps ==
    ASSUME IInv, NEW i \in Items, NEW outcome, Iterate(i, outcome),
           Heard(i, IF outcome = "ok" THEN 1 ELSE 0)
    PROVE  TimerInv' /\ \A n \in Items : ItemInv(n)'
  <1>0. TypeOK /\ ItemInv(i) /\ stage[i] = "throwing"
    BY DEF IInv, Heard
  <1>1. CASE outcome # "ok" /\ UNCHANGED memory /\ \E s \in {"throwing", "open"} : To(i, s)
    <2>1. PICK s \in {"throwing", "open"} : To(i, s)
      BY <1>1
    <2>2. /\ stage' = [stage EXCEPT ![i] = s] /\ reached' = reached \ {i}
          /\ UNCHANGED <<requeueTimers, throwing_retrials, takes, tries, route>>
          /\ \A n \in Items \ {i} : unheard'[n] = unheard[n]
          /\ takes'[i] = unheard'[i] + 0
      <3>1. stage' = [stage EXCEPT ![i] = s] /\ stage'[i] = s
        BY <1>0, <2>1 DEF To, TypeOK
      <3>2. UNCHANGED tries
        BY <3>1 DEF Heard, Forgets
      <3>. QED BY <1>1, <3>1, <3>2, Zenon DEF Heard, memory
    <2>3. TimerInv'
      BY <1>0, <2>2, BeingThrown DEF TimerInv, TypeOK
    <2>4. OnlyMoves(i)
      BY <1>0, <2>2 DEF OnlyMoves, TypeOK
    <2>5. ItemInv(i)'
      <3>1. stage'[i] = s /\ i \notin reached'
        BY <1>0, <2>2 DEF TypeOK
      <3>. QED BY <1>0, <2>2, <3>1 DEF ItemInv, Untried, Routed
    <2>. QED BY <2>3, <2>4, <2>5, OthersKeep
  <1>2. CASE Settle(i, outcome)
    BY <1>2, SettleKeeps
  <1>3. CASE NextConnector(i, outcome) /\ UNCHANGED <<stage, memory>>
    <2>1. stage' = [stage EXCEPT ![i] = "throwing"]
      BY <1>0, <1>3 DEF TypeOK
    <2>. QED BY <1>1, <1>3, <2>1, Zenon DEF NextConnector, To
  <1>. QED BY <1>1, <1>2, <1>3 DEF Iterate

\* The receiver takes a message.
LEMMA TakeKeeps ==
    ASSUME IInv, NEW i \in Items, ReceiverTakes(i)
    PROVE  IInv'
  <1>1. /\ stage[i] = "throwing" /\ i \notin reached /\ reached' = reached \cup {i}
        /\ takes' = [takes EXCEPT ![i] = @ + 1]
        /\ UNCHANGED <<stage, hash, fresh, route, dc, requeueTimers, throwing_retrials, tries, unheard,
                       restarts>>
    BY DEF ReceiverTakes, redis, memory
  <1>2. TypeOK /\ ItemInv(i) /\ takes'[i] = takes[i] + 1
    BY <1>1 DEF IInv, TypeOK
  <1>3. TypeOK'
    BY <1>1, <1>2 DEF TypeOK
  <1>4. TimerInv' /\ ConcatInv'
    BY <1>1 DEF IInv, TimerInv, ConcatInv, Stored
  <1>5. OnlyMoves(i)
    BY <1>1, <1>2 DEF OnlyMoves, TypeOK
  <1>6. ItemInv(i)'
    <2>1. takes'[i] = unheard'[i] + 1 /\ i \in reached' /\ stage'[i] = "throwing"
      <3>1. takes[i] = unheard[i] + 0 /\ unheard[i] \in Nat
        BY <1>1, <1>2 DEF ItemInv, TypeOK
      <3>. QED BY <1>1, <1>2, <3>1
    <2>. QED BY <1>1, <1>2, <2>1 DEF ItemInv, Untried, Routed
  <1>. QED BY <1>3, <1>4, <1>5, <1>6, OthersKeep DEF IInv

\* The timer gives back the message that waits for it.
LEMMA TimerKeeps ==
    ASSUME IInv, NEW m \in Ids, TimerFires(m)
    PROVE  TimerInv' /\ \A n \in Items : ItemInv(n)'
  <1>1. PICK j \in Items : /\ j = requeueTimers[m] /\ msgid(j) = m /\ stage[j] = "waiting"
    BY DEF TimerFires, IInv, TypeOK, TimerInv
  <1>2. TypeOK /\ ItemInv(j)
    BY <1>1 DEF IInv
  <1>3. /\ stage' = [stage EXCEPT ![j] = "throwerq"]
        /\ requeueTimers' = [requeueTimers EXCEPT ![m] = None]
        /\ UNCHANGED <<route, throwing_retrials, tries, reached, takes, unheard>>
    BY <1>1 DEF TimerFires, To, clearRequeueTimer, history
  <1>4. TimerInv'
    <2>1. ASSUME NEW k \in Ids, requeueTimers'[k] # None
          PROVE  msgid(requeueTimers'[k]) = k /\ stage'[requeueTimers'[k]] = "waiting"
      <3>1. k # m /\ requeueTimers'[k] = requeueTimers[k]
        BY <1>2, <1>3, <2>1 DEF TypeOK
      <3>2. /\ requeueTimers[k] \in Items /\ msgid(requeueTimers[k]) = k
            /\ stage[requeueTimers[k]] = "waiting" /\ requeueTimers[k] # j
        BY <1>1, <1>2, <2>1, <3>1 DEF IInv, TimerInv, TypeOK
      <3>. QED BY <1>2, <1>3, <3>1, <3>2 DEF TypeOK
    <2>. QED BY <2>1 DEF TimerInv
  <1>5. OnlyMoves(j)
    BY <1>1, <1>2, <1>3, OtherIds DEF OnlyMoves, TypeOK
  <1>6. ItemInv(j)'
    <2>1. stage'[j] = "throwerq"
      BY <1>2, <1>3 DEF TypeOK
    <2>. QED BY <1>1, <1>2, <1>3, <2>1 DEF ItemInv, Untried, Routed
  <1>. QED BY <1>4, <1>5, <1>6, OthersKeep

\* After a restart nothing waits and nothing is counted.
LEMMA RestartKeeps ==
    ASSUME IInv, Restart
    PROVE  TimerInv' /\ \A n \in Items : ItemInv(n)'
  <1>1. TimerInv'
    BY DEF Restart, TimerInv
  <1>2. ASSUME NEW i \in Items PROVE ItemInv(i)'
    <2>1. /\ stage'[i] = AfterRestart(stage[i]) /\ stage[i] \in Stages /\ ItemInv(i)
          /\ tries'[i] = 0 /\ route'[i] = route[i] /\ i \notin reached'
      BY DEF Restart, IInv, TypeOK
    <2>2. OwnId(i) => throwing_retrials'[i] = 0
      BY OwnIds DEF Restart
    <2>3. /\ stage'[i] # "waiting"
          /\ stage'[i] = "delivered" <=> stage[i] = "delivered"
          /\ stage'[i] \in Routed => stage[i] \in Routed
          /\ stage'[i] \in Untried => stage[i] \in Untried
      BY <2>1 DEF AfterRestart, Stages, Routed, Untried
    <2>4. 0 <= MaxRetries /\ 0 <= MaxRetries + 1
      BY DeliveryConstants
    <2>5. takes'[i] = takes[i] /\ takes'[i] = unheard'[i] + (IF stage'[i] = "delivered" THEN 1 ELSE 0)
      <3>1. /\ unheard[i] \in Nat /\ takes' = takes
            /\ unheard'[i] = IF i \in reached THEN unheard[i] + 1 ELSE unheard[i]
        BY DEF Restart, IInv, TypeOK
      <3>2. i \in reached => stage'[i] # "delivered"
        BY <2>1, <2>3 DEF ItemInv
      <3>. QED BY <2>1, <2>3, <3>1, <3>2 DEF ItemInv
    <2>. QED BY <2>1, <2>2, <2>3, <2>4, <2>5, Zenon DEF ItemInv
  <1>. QED BY <1>1, <1>2

-----------------------------------------------------------------------------
(* Long messages. *)

NotStored == {"none", "smsc", "script", "received", "refused"}

\* A message is not taken back from being stored.
SameSide(i, s) ==
    /\ stage[i] # "none" /\ stage[i] # "stored" /\ s # "stored"
    /\ s \in NotStored => stage[i] \in NotStored

LEMMA MoveKeepsConcat ==
    ASSUME IInv, NEW i \in Items, NEW s, To(i, s), SameSide(i, s), UNCHANGED hash
    PROVE  ConcatInv'
  <1>1. stage \in [Items -> Stages] /\ stage' = [stage EXCEPT ![i] = s]
    BY DEF IInv, TypeOK, To
  <1>2. /\ Stored(Parts) => Stored(Parts)'
        /\ stage'[<<Long, Parts>>] = "stored" => stage[<<Long, Parts>>] = "stored"
    BY <1>1, PartOfNumber, OwnIds DEF Stored, SameSide, NotStored
  <1>3. stage[Long] = "none" => stage'[Long] = "none"
    BY <1>1, OwnIds DEF SameSide
  <1>. QED BY <1>2, <1>3, Zenon DEF IInv, ConcatInv

\* Storing a part puts it, and nothing else, in its place.
LEMMA StoreKeepsConcat ==
    ASSUME IInv, NEW i \in PartsOfLong, NEW s, To(i, s), stage[i] = "received",
           hash' = hash \cup {i[2]}
    PROVE  ConcatInv'
  <1>1. stage \in [Items -> Stages] /\ stage' = [stage EXCEPT ![i] = s]
    BY DEF IInv, TypeOK, To
  <1>2. i \in Items /\ i # Long /\ i[2] \in 1 .. Parts /\ i = <<Long, i[2]>>
    BY OwnIds, PartOfNumber
  <1>3. ASSUME NEW k \in 1 .. Parts, k # i[2]
        PROVE  stage'[<<Long, k>>] = stage[<<Long, k>>]
    BY <1>1, <1>2, <1>3, PartOfNumber, OwnIds
  <1>4. stage'[Long] = stage[Long]
    BY <1>1, <1>2, OwnIds
  <1>5. ~Stored(Parts)' \/ stage'[<<Long, Parts>>] = "stored" => stage[Long] = "none"
    <2>1. CASE i[2] = Parts
      BY <1>2, <2>1 DEF IInv, ConcatInv, Stored
    <2>2. CASE i[2] # Parts
      BY <1>3, <2>2, PartOfNumber DEF IInv, ConcatInv, Stored
    <2>. QED BY <2>1, <2>2
  <1>. QED BY <1>4, <1>5 DEF ConcatInv

\* The last part publishes the whole message, and does so once.
LEMMA ConcatMoves ==
    ASSUME IInv, NEW i \in Items, concatDeliverSMs(i)
    PROVE  /\ stage[i] = "stored" /\ stage'[i] = "routerq"
           /\ \A n \in Items \ {i, Long} : stage'[n] = stage[n]
           /\ i # Long /\ stage'[Long] # stage[Long] =>
                 /\ i = <<Long, Parts>> /\ ConcatNow(Parts)
                 /\ stage[Long] = "none" /\ stage'[Long] = "routerq"
  <1>1. stage \in [Items -> Stages] /\ Long \in Items /\ fresh \subseteq PartsOfLong
    BY OwnIds DEF IInv, TypeOK
  <1>2. stage[i] = "stored" /\ stage'[i] = "routerq" /\ \A n \in Items \ {i, Long} : stage'[n] = stage[n]
    BY <1>1 DEF concatDeliverSMs
  <1>3. ASSUME i # Long, stage'[Long] # stage[Long]
        PROVE  /\ i = <<Long, Parts>> /\ ConcatNow(Parts)
               /\ stage[Long] = "none" /\ stage'[Long] = "routerq"
    <2>1. i \in fresh /\ ConcatNow(i[2]) /\ stage'[Long] = "routerq"
      BY <1>1, <1>3 DEF concatDeliverSMs
    <2>2. i = <<Long, Parts>>
      <3>1. i = <<Long, i[2]>> /\ i[2] = Parts
        BY <1>1, <2>1, PartOfNumber DEF ConcatNow
      <3>. QED BY <3>1
    <2>3. ConcatNow(Parts)
      BY <2>1, <2>2
    <2>. QED BY <1>2, <2>1, <2>2, <2>3 DEF IInv, ConcatInv
  <1>. QED BY <1>2, <1>3

LEMMA ConcatKeeps ==
    ASSUME IInv, NEW i \in Items, concatDeliverSMs(i)
    PROVE  TimerInv' /\ (\A n \in Items : ItemInv(n)') /\ ConcatInv'
  <1>1. UNCHANGED <<route, memory, history, hash>>
    BY DEF concatDeliverSMs
  <1>2. Advances(i)
    BY ConcatMoves DEF Advances, Untried, Routed
  <1>3. ASSUME NEW n \in Items, n # i PROVE StaysPut(n) \/ Advances(n)
    <2>1. CASE n = Long /\ stage'[Long] # stage[Long]
      BY <1>3, <2>1, ConcatMoves DEF Advances, Untried, Routed
    <2>2. CASE n # Long \/ stage'[Long] = stage[Long]
      BY <1>1, <1>3, <2>2, ConcatMoves DEF StaysPut
    <2>. QED BY <2>1, <2>2
  <1>4. TimerInv' /\ \A n \in Items : ItemInv(n)'
    BY <1>1, <1>2, <1>3, AdvanceKeeps
  <1>5. ASSUME NEW k \in 1 .. Parts
        PROVE  /\ Stored(k)' <=> Stored(k)
               /\ i # <<Long, k>> => stage'[<<Long, k>>] = stage[<<Long, k>>]
    <2>1. <<Long, k>> \in Items /\ <<Long, k>> # Long
      BY PartOfNumber, OwnIds
    <2>. QED BY <2>1, ConcatMoves DEF Stored
  <1>6. ASSUME ~Stored(Parts)' \/ stage'[<<Long, Parts>>] = "stored"
        PROVE  stage'[Long] = "none"
    <2>1. i # <<Long, Parts>>
      BY <1>6, ConcatMoves DEF Stored
    <2>2. ~Stored(Parts) \/ stage[<<Long, Parts>>] = "stored"
      BY <1>5, <1>6, <2>1, PartOfNumber
    <2>3. stage[Long] = "none"
      BY <2>2 DEF IInv, ConcatInv
    <2>. QED BY <2>1, <2>3, ConcatMoves
  <1>. QED BY <1>4, <1>6 DEF ConcatInv

LEMMA RestartKeepsConcat ==
    ASSUME IInv, Restart
    PROVE  ConcatInv'
  <1>1. /\ \A n \in Items : stage[n] \in Stages /\ stage'[n] = AfterRestart(stage[n])
        /\ hash' = hash
    BY DEF IInv, TypeOK, Restart, redis
  <1>2. ASSUME NEW k \in 1 .. Parts
        PROVE  /\ Stored(k)' => Stored(k)
               /\ ~Stored(k)' \/ stage'[<<Long, k>>] = "stored" => ~Stored(k) \/ stage[<<Long, k>>] = "stored"
    <2>1. <<Long, k>> \in Items
      BY PartOfNumber, OwnIds
    <2>. QED BY <1>1, <2>1 DEF Stored, AfterRestart, Stages
  <1>3. stage[Long] = "none" => stage'[Long] = "none"
    BY <1>1, OwnIds DEF AfterRestart
  <1>. QED BY <1>2, <1>3, PartOfNumber, Zenon DEF IInv, ConcatInv

-----------------------------------------------------------------------------
(* The inductive invariant. *)

\* A message that only moves on, before the throwers.
LEMMA MoveOn ==
    ASSUME IInv, NEW i \in Items, NEW s \in Stages, To(i, s), SameSide(i, s),
           stage[i] \in Untried, s \in Untried \cup {"rejected", "throwerq", "lost"},
           OwnId(i) /\ s \in Routed => route'[i] \in Routes /\ ~Unroutable(i, route'[i]),
           \/ UNCHANGED route
           \/ \E r \in Routes : route' = [route EXCEPT ![i] = r],
           UNCHANGED <<redis, dc, memory, history, restarts>>
    PROVE  IInv'
  <1>1. TypeOK /\ stage' = [stage EXCEPT ![i] = s]
    BY DEF IInv, To
  <1>2. TypeOK'
    BY <1>1 DEF TypeOK, redis, memory, history
  <1>3. ASSUME NEW n \in Items PROVE StaysPut(n) \/ Advances(n)
    <2>1. CASE n = i
      BY <1>1, <2>1 DEF Advances, TypeOK
    <2>2. CASE n # i
      BY <1>1, <2>2 DEF StaysPut, TypeOK
    <2>. QED BY <2>1, <2>2, Zenon
  <1>4. ConcatInv'
    BY MoveKeepsConcat, Zenon DEF redis
  <1>. QED BY <1>2, <1>3, <1>4, AdvanceKeeps DEF IInv

\* The end of a throw, and of a turn of the loop.
LEMMA ThrowEnds ==
    ASSUME IInv, NEW i \in Items, NEW outcome,
           Heard(i, IF outcome = "ok" THEN 1 ELSE 0),
           \/ Settle(i, outcome) /\ UNCHANGED dc
           \/ Iterate(i, outcome),
           UNCHANGED <<redis, restarts>>
    PROVE  IInv'
  <1>0. TypeOK /\ msgid(i) \in Ids /\ stage[i] = "throwing"
    BY OwnIds DEF IInv, Heard
  <1>1. TimerInv' /\ \A n \in Items : ItemInv(n)'
    BY SettleKeeps, IterateKeeps
  <1>2. \/ UNCHANGED <<stage, memory>>
        \/ To(i, "open") /\ UNCHANGED memory
        \/ Settle(i, outcome)
    BY DEF Iterate
  <1>3. /\ reached' \subseteq Items /\ takes' \in [Items -> Nat] /\ unheard' \in [Items -> Nat]
        /\ tries' \in [Items -> Nat] /\ route' = route
    BY <1>0 DEF Heard, Forgets, TypeOK
  <1>4. dc' \in [Items -> Nat]
    BY <1>0 DEF Iterate, TypeOK
  <1>5. /\ UNCHANGED stage \/ \E s \in {"open", "delivered", "waiting", "rejected"} : To(i, s)
        /\ requeueTimers' \in [Ids -> Items \cup {None}]
        /\ throwing_retrials' \in [Ids -> Nat]
    BY <1>0, <1>2 DEF TypeOK, memory, Settle, ackMessage, rejectMessage, rejectAndRequeueMessage,
                      delThrowingRetrials
  <1>6. stage' \in [Items -> Stages]
    BY <1>0, <1>5 DEF TypeOK, To, Stages
  <1>7. TypeOK'
    BY <1>0, <1>3, <1>4, <1>5, <1>6 DEF TypeOK, redis
  <1>8. ConcatInv'
    <2>1. CASE UNCHANGED stage
      BY <2>1 DEF IInv, ConcatInv, Stored, redis
    <2>2. ASSUME NEW s \in {"open", "delivered", "waiting", "rejected"}, To(i, s) PROVE ConcatInv'
      BY <1>0, <2>2, MoveKeepsConcat DEF SameSide, NotStored, redis
    <2>. QED BY <1>5, <2>1, <2>2
  <1>. QED BY <1>1, <1>7, <1>8 DEF IInv

LEMMA NoContentKeeps ==
    ASSUME IInv, NEW i \in Items, stage[i] = "throwing", NoContent(i), Forgets(i),
           UNCHANGED <<redis, route, restarts>>
    PROVE  IInv'
  <1>1. /\ unheard \in [Items -> Nat] /\ takes[i] \in Nat /\ i \notin reached
        /\ takes[i] = unheard[i] + 0
    BY DEF IInv, TypeOK, ItemInv, NoContent
  <1>2. Heard(i, 0) /\ UNCHANGED dc
    BY <1>1 DEF NoContent, Heard
  <1>3. TimerInv' /\ \A n \in Items : ItemInv(n)'
    BY <1>2, DoneKeeps DEF NoContent, rejectMessage
  <1>4. TypeOK /\ msgid(i) \in Ids /\ To(i, "rejected")
    BY OwnIds DEF IInv, NoContent, rejectMessage
  <1>5. TypeOK'
    BY <1>2, <1>4 DEF NoContent, rejectMessage, delThrowingRetrials, Forgets, TypeOK, To, Stages, redis
  <1>6. ConcatInv'
    BY <1>4, MoveKeepsConcat DEF SameSide, NotStored, redis
  <1>. QED BY <1>3, <1>5, <1>6 DEF IInv

LEMMA InitIInv == Init => IInv
  <1>. SUFFICES ASSUME Init PROVE IInv
    OBVIOUS
  <1>0. PICK scene \in Scenes :
          /\ stage = [i \in Items |-> IF i \notin scene.msgs THEN "none"
                                      ELSE IF i \in Dlrs THEN "throwerq" ELSE "smsc"]
          /\ hash = scene.old
    BY Zenon DEF Init
  <1>1. TypeOK
    BY <1>0, DeliveryConstants, Zenon DEF Init, TypeOK, Stages
  <1>2. TimerInv
    BY Zenon DEF Init, TimerInv
  <1>3. ASSUME NEW i \in Items PROVE ItemInv(i)
    <2>1. /\ takes[i] = 0 /\ unheard[i] = 0 /\ i \notin reached /\ tries[i] = 0
          /\ stage[i] \in {"none", "smsc", "throwerq"}
      BY <1>0 DEF Init
    <2>2. OwnId(i) => throwing_retrials[i] = 0 /\ stage[i] \in {"none", "smsc"}
      BY <1>0, OwnIds DEF Init, OwnId
    <2>3. 0 <= MaxRetries /\ 0 <= MaxRetries + 1
      BY DeliveryConstants
    <2>4. takes[i] = unheard[i] + (IF i \in reached \/ stage[i] = "delivered" THEN 1 ELSE 0)
      BY <2>1
    <2>5. /\ OwnId(i) => stage[i] \notin {"throwerq", "waiting"}
          /\ OwnId(i) => ~(stage[i] \in Routed \/ takes[i] > 0)
      BY <2>1, <2>2 DEF Routed
    <2>. QED BY <2>1, <2>2, <2>3, <2>4, <2>5, Zenon DEF ItemInv
  <1>4. ConcatInv
    <2>1. stage[Long] = "none"
      BY <1>0, OwnIds, DeliveryConstants DEF OwnId
    <2>. QED BY <2>1 DEF ConcatInv
  <1>. QED BY <1>1, <1>2, <1>3, <1>4 DEF IInv

\* One step per action of a message.
LEMMA ProgressKeeps ==
    ASSUME IInv, NEW i \in Items, Progress(i)
    PROVE  IInv'
  <1>0. TypeOK /\ ItemInv(i) /\ msgid(i) \in Ids
    BY OwnIds DEF IInv
  <1>1. CASE deliver_sm_event_interceptor(i)
    <2>1. PICK s \in {"script", "refused", "received"} : To(i, s)
      BY <1>1 DEF deliver_sm_event_interceptor
    <2>. QED BY <1>1, <2>1, MoveOn
             DEF deliver_sm_event_interceptor, SameSide, NotStored, Untried, Routed, Stages
  <1>2. CASE ScriptReturns(i)
    <2>1. PICK s \in {"refused", "received"} : To(i, s)
      BY <1>2 DEF ScriptReturns
    <2>. QED BY <1>2, <2>1, MoveOn DEF ScriptReturns, SameSide, NotStored, Untried, Routed, Stages
  <1>3. CASE deliver_sm_event_post_interception(i)
    <2>0. stage[i] = "received" /\ UNCHANGED <<route, dc, memory, history, restarts>>
      BY <1>3, Zenon DEF deliver_sm_event_post_interception
    <2>1. CASE i \in Shorts /\ To(i, "routerq") /\ UNCHANGED redis
      <3>1. /\ stage \in [Items -> Stages] /\ stage' = [stage EXCEPT ![i] = "routerq"]
            /\ UNCHANGED <<hash, fresh>>
        BY <1>0, <2>1 DEF TypeOK, To, redis
      <3>2. TypeOK'
        BY <1>0, <2>0, <3>1 DEF TypeOK, Stages, memory, history
      <3>3. ASSUME NEW n \in Items PROVE StaysPut(n) \/ Advances(n)
        BY <2>0, <3>1 DEF StaysPut, Advances, Untried, Routed
      <3>4. ASSUME NEW k \in 1 .. Parts
            PROVE  (Stored(k)' => Stored(k)) /\ (i = <<Long, k>> \/ stage'[<<Long, k>>] = stage[<<Long, k>>])
        <4>1. <<Long, k>> \in Items /\ <<Long, k>> # i
          BY <2>1, PartOfNumber, OwnIds, ShortIsNoPart
        <4>. QED BY <3>1, <4>1 DEF Stored
      <3>5. ConcatInv'
        BY <1>0, <2>1, <3>1, <3>4, PartOfNumber, OwnIds, ShortIsNoPart DEF IInv, TypeOK, ConcatInv, Stored
      <3>. QED BY <2>0, <3>2, <3>3, <3>5, AdvanceKeeps DEF IInv
    <2>2. CASE /\ i \in PartsOfLong
               /\ hash' = hash \cup {i[2]}
               /\ fresh' = IF i[2] \in hash THEN fresh \ {i} ELSE fresh \cup {i}
               /\ \E next \in {"stored", "refused"} : To(i, next)
      <3>1. PICK s \in {"stored", "refused"} : To(i, s)
        BY <2>2
      <3>2. stage \in [Items -> Stages] /\ stage' = [stage EXCEPT ![i] = s]
        BY <1>0, <3>1 DEF TypeOK, To
      <3>3. hash' \subseteq 1 .. Parts /\ fresh' \subseteq PartsOfLong
        BY <1>0, <2>2, PartOfNumber, Zenon DEF TypeOK
      <3>4. TypeOK'
        BY <1>0, <2>0, <3>2, <3>3 DEF TypeOK, Stages, memory, history
      <3>5. ASSUME NEW n \in Items PROVE StaysPut(n) \/ Advances(n)
        BY <2>0, <3>2 DEF StaysPut, Advances, Untried, Routed
      <3>6. ConcatInv'
        BY <2>0, <2>2, <3>1, StoreKeepsConcat
      <3>. QED BY <2>0, <3>4, <3>5, <3>6, AdvanceKeeps DEF IInv
    <2>3. ASSUME NEW s \in {"refused", "lost"}, To(i, s), UNCHANGED redis PROVE IInv'
      BY <2>0, <2>3, MoveOn DEF SameSide, NotStored, Untried, Routed, Stages
    <2>. QED BY <1>3, <2>1, <2>2, <2>3, Zenon DEF deliver_sm_event_post_interception
  <1>4. CASE concatDeliverSMs(i)
    <2>1. TypeOK'
      BY <1>0, <1>4, OwnIds DEF concatDeliverSMs, TypeOK, Stages, memory, history
    <2>. QED BY <1>4, <2>1, ConcatKeeps DEF IInv
  <1>5. CASE deliver_sm_callback(i)
    <2>0. stage[i] = "routerq" /\ UNCHANGED <<redis, dc, memory, history, restarts>>
      BY <1>5 DEF deliver_sm_callback
    <2>1. CASE To(i, "rejected") /\ UNCHANGED route
      BY <2>0, <2>1, MoveOn DEF SameSide, NotStored, Untried, Routed, Stages
    <2>2. ASSUME NEW r \in Routes, ~Unroutable(i, r), route' = [route EXCEPT ![i] = r], To(i, "routed")
          PROVE  IInv'
      <3>1. route'[i] = r
        BY <1>0, <2>2 DEF TypeOK
      <3>. QED BY <2>0, <2>2, <3>1, MoveOn, Zenon DEF SameSide, NotStored, Untried, Routed, Stages
    <2>. QED BY <1>5, <2>1, <2>2 DEF deliver_sm_callback
  <1>6. CASE PublishRouted(i)
    <2>1. OwnId(i) => route[i] \in Routes /\ ~Unroutable(i, route[i])
      BY <1>0, <1>6, Zenon DEF PublishRouted, ItemInv, Routed
    <2>. QED BY <1>6, <2>1, MoveOn DEF PublishRouted, SameSide, NotStored, Untried, Routed, Stages
  <1>7. CASE throwing_callback(i)
    <2>1. /\ stage[i] = "throwerq" /\ To(i, "throwing") /\ UNCHANGED <<redis, route, reached, takes, unheard, restarts>>
          /\ tries' = [tries EXCEPT ![i] = @ + 1] /\ dc' = [dc EXCEPT ![i] = 1]
          /\ throwing_retrials' = [throwing_retrials EXCEPT ![msgid(i)] = @ + 1]
      BY <1>7 DEF throwing_callback, incThrowingRetrials
    <2>2. requeueTimers' \in [Ids -> Items \cup {None}]
      BY <1>0, <1>7 DEF throwing_callback, clearRequeueTimer, TypeOK
    <2>3. throwing_retrials' \in [Ids -> Nat] /\ tries' \in [Items -> Nat]
      BY <1>0, <2>1 DEF TypeOK
    <2>4. TypeOK'
      BY <1>0, <2>1, <2>2, <2>3 DEF TypeOK, To, Stages, redis
    <2>5. ConcatInv'
      BY <2>1, MoveKeepsConcat DEF SameSide, NotStored, redis
    <2>. QED BY <1>7, <2>4, <2>5, ThrowKeeps DEF IInv
  <1>8. ASSUME NEW outcome, stage[i] = "throwing", Hears(i, outcome), Forgets(i),
               \/ Settle(i, outcome) /\ UNCHANGED dc
               \/ Iterate(i, outcome),
               UNCHANGED <<redis, route, restarts>>
        PROVE  IInv'
    BY <1>8, HearsOf, ThrowEnds
  <1>9. CASE http_deliver_sm_callback(i)
    BY <1>8, <1>9, NoContentKeeps, Zenon DEF http_deliver_sm_callback
  <1>10. CASE smpp_deliver_sm_callback(i)
    BY <1>8, <1>10, Zenon DEF smpp_deliver_sm_callback
  <1>11. CASE http_dlr_callback(i)
    BY <1>8, <1>11 DEF http_dlr_callback
  <1>12. CASE smpp_dlr_callback(i)
    BY <1>8, <1>12 DEF smpp_dlr_callback
  <1>. QED BY <1>1, <1>2, <1>3, <1>4, <1>5, <1>6, <1>7, <1>9, <1>10, <1>11, <1>12 DEF Progress

LEMMA NextKeeps ==
    ASSUME IInv, [Next]_vars
    PROVE  IInv'
  <1>0. TypeOK
    BY DEF IInv
  <1>1. ASSUME NEW i \in Items, Progress(i) \/ ReceiverTakes(i) PROVE IInv'
    BY <1>1, ProgressKeeps, TakeKeeps
  <1>2. ASSUME NEW m \in Ids, TimerFires(m) PROVE IInv'
    <2>1. PICK j \in Items : j = requeueTimers[m] /\ stage[j] = "waiting"
      BY <1>2 DEF TimerFires, IInv, TypeOK, TimerInv
    <2>2. To(j, "throwerq") /\ requeueTimers' = [requeueTimers EXCEPT ![m] = None]
          /\ UNCHANGED <<redis, route, dc, throwing_retrials, history, restarts>>
      BY <1>2, <2>1 DEF TimerFires, clearRequeueTimer
    <2>3. TypeOK'
      BY <1>0, <2>2 DEF TypeOK, To, Stages, redis, history
    <2>4. ConcatInv'
      BY <2>1, <2>2, MoveKeepsConcat DEF SameSide, NotStored, redis
    <2>. QED BY <1>2, <2>3, <2>4, TimerKeeps DEF IInv
  <1>3. CASE Expire
    <2>1. hash' = {} /\ UNCHANGED <<stage, fresh, route, dc, memory, history, restarts>>
      BY <1>3 DEF Expire
    <2>2. TypeOK'
      BY <1>0, <2>1 DEF TypeOK, memory, history
    <2>3. ConcatInv'
      BY <2>1, Zenon DEF IInv, ConcatInv, Stored
    <2>4. ASSUME NEW i \in Items PROVE StaysPut(i)
      BY <2>1 DEF StaysPut
    <2>. QED BY <2>1, <2>2, <2>3, <2>4, AdvanceKeeps DEF IInv
  <1>4. CASE Restart
    <2>1. ASSUME NEW s \in Stages PROVE AfterRestart(s) \in Stages
      BY DEF AfterRestart, Stages
    <2>2. TypeOK'
      BY <1>0, <1>4, <2>1 DEF Restart, TypeOK, redis
    <2>. QED BY <1>4, <2>2, RestartKeeps, RestartKeepsConcat DEF IInv
  <1>5. CASE UNCHANGED vars
    <2>1. UNCHANGED <<stage, hash, fresh, route, dc, memory, history, restarts>>
      BY <1>5 DEF vars, redis
    <2>2. TypeOK' /\ ConcatInv'
      BY <1>0, <2>1 DEF TypeOK, memory, history, IInv, ConcatInv, Stored
    <2>3. ASSUME NEW i \in Items PROVE StaysPut(i)
      BY <2>1 DEF StaysPut
    <2>. QED BY <2>1, <2>2, <2>3, AdvanceKeeps DEF IInv
  <1>. QED BY <1>1, <1>2, <1>3, <1>4, <1>5 DEF Next

\* IInv is an invariant of the listener, the router and the throwers together,
\* with any number of messages in flight and any number of restarts.
THEOREM DeliveryInvariance == Spec => []IInv
  <1>1. IInv /\ [Next]_vars => IInv'
    BY NextKeeps
  <1>. QED BY InitIInv, <1>1, PTL DEF Spec

-----------------------------------------------------------------------------
(* What follows. *)

\* rejectAndRequeueMessage and clearRequeueTimer: a message waits for its next
\* try exactly as long as the timer of its message-id is for it.
THEOREM WaitingIsTimed == Spec => []WaitingHasTimer
  <1>1. IInv => WaitingHasTimer
    <2>. SUFFICES ASSUME IInv, NEW i \in Items, OwnId(i)
                  PROVE  stage[i] = "waiting" <=> requeueTimers[msgid(i)] = i
      BY DEF WaitingHasTimer
    <2>1. msgid(i) = i /\ i \in Ids /\ i # None
      BY OwnIds, DeliveryConstants
    <2>2. stage[i] = "waiting" => requeueTimers[i] = i
      BY Zenon DEF IInv, ItemInv
    <2>3. requeueTimers[i] = i => stage[i] = "waiting"
      BY <2>1, Zenon DEF IInv, TimerInv
    <2>. QED BY <2>1, <2>2, <2>3, Zenon
  <1>. QED BY DeliveryInvariance, <1>1, PTL

\* throwing_callback, ackMessage and rejectMessage: a message is thrown at most
\* max_retries times more, and no count stays behind.
THEOREM RetriesAreBounded == Spec => []RetriesBounded
  <1>1. IInv => RetriesBounded
    BY OwnIds, Zenon DEF IInv, ItemInv, RetriesBounded
  <1>. QED BY DeliveryInvariance, <1>1, PTL

\* The loops over the connectors of a route: over retries, failover, late answers
\* and restarts, a message is taken once more than the thrower did not hear of it
\* if it is delivered, and never after that.
THEOREM TakenOnce == Spec => []OneTaker
  <1>1. IInv => OneTaker
    BY DEF IInv, ItemInv, OneTaker
  <1>. QED BY DeliveryInvariance, <1>1, PTL

\* deliver_sm_callback: an HTTP server gets a long message put together, an SMPP
\* client its parts, whatever the route.
THEOREM TakenInForm == Spec => []FormFits
  <1>1. IInv => FormFits
    <2>. SUFFICES ASSUME IInv, NEW i \in Items, takes[i] > 0
                  PROVE  /\ i = Long => route[i].type = "http"
                         /\ i \in PartsOfLong => route[i].type = "smpps"
      BY Zenon DEF FormFits
    <2>1. OwnId(i) => route[i] \in Routes /\ ~Unroutable(i, route[i])
      BY Zenon DEF IInv, ItemInv, Routed
    <2>. QED BY <2>1, OwnIds, DeliveryConstants, Zenon DEF Unroutable
  <1>. QED BY DeliveryInvariance, <1>1, PTL

-----------------------------------------------------------------------------
(* What is done with stays so. *)

LEMMA MovesAreOfUndone ==
    ASSUME IInv, [Next]_vars, NEW n \in Items, stage[n] \in Done
    PROVE  stage'[n] = stage[n] /\ takes'[n] = takes[n]
  <1>0. stage \in [Items -> Stages] /\ takes \in [Items -> Nat] /\ Long \in Items
    BY OwnIds DEF IInv, TypeOK
  <1>1. ASSUME NEW i \in Items, NEW s, To(i, s), stage[i] \notin Done PROVE stage'[n] = stage[n]
    BY <1>0, <1>1 DEF To
  <1>2. ASSUME NEW i \in Items, stage[i] = "throwing", NEW outcome, Hears(i, outcome),
               Settle(i, outcome) \/ Iterate(i, outcome)
        PROVE  stage'[n] = stage[n] /\ takes'[n] = takes[n]
    <2>1. stage[i] \notin Done
      BY <1>2 DEF Done
    <2>2. stage'[n] = stage[n]
      BY <1>1, <1>2, <2>1, Zenon DEF Iterate, Settle, ackMessage, rejectMessage, rejectAndRequeueMessage
    <2>3. takes'[n] = takes[n]
      BY <1>0, <1>2, <2>1 DEF Hears
    <2>. QED BY <2>2, <2>3
  <1>3. ASSUME NEW i \in Items, Progress(i) PROVE stage'[n] = stage[n] /\ takes'[n] = takes[n]
    <2>1. CASE deliver_sm_event_interceptor(i) \/ ScriptReturns(i)
      BY <1>1, <2>1, Zenon DEF deliver_sm_event_interceptor, ScriptReturns, history, Done
    <2>2. CASE deliver_sm_event_post_interception(i)
      BY <1>1, <2>2 DEF deliver_sm_event_post_interception, history, Done
    <2>3. CASE deliver_sm_callback(i) \/ PublishRouted(i) \/ throwing_callback(i)
      BY <1>1, <2>3, Zenon DEF deliver_sm_callback, PublishRouted, throwing_callback, history, Done
    <2>4. CASE \/ http_deliver_sm_callback(i) \/ smpp_deliver_sm_callback(i)
               \/ http_dlr_callback(i) \/ smpp_dlr_callback(i)
      <3>1. ASSUME NoContent(i), stage[i] = "throwing" PROVE stage'[n] = stage[n] /\ takes'[n] = takes[n]
        BY <1>1, <3>1, Zenon DEF NoContent, rejectMessage, Done
      <3>. QED BY <1>2, <2>4, <3>1, Zenon
              DEF http_deliver_sm_callback, smpp_deliver_sm_callback, http_dlr_callback, smpp_dlr_callback
    <2>5. CASE concatDeliverSMs(i)
      <3>1. stage[i] = "stored" /\ UNCHANGED takes
        BY <2>5, Zenon DEF concatDeliverSMs, history
      <3>2. n # i
        BY <3>1 DEF Done
      <3>3. n = Long => stage'[n] = stage[n]
        BY <2>5, <3>2, ConcatMoves DEF Done
      <3>. QED BY <2>5, <3>1, <3>2, <3>3, ConcatMoves, Zenon
    <2>. QED BY <1>3, <2>1, <2>2, <2>3, <2>4, <2>5, Zenon DEF Progress
  <1>4. ASSUME NEW m \in Ids, TimerFires(m) PROVE stage'[n] = stage[n] /\ takes'[n] = takes[n]
    <2>1. PICK j \in Items : j = requeueTimers[m] /\ stage[j] = "waiting"
      BY <1>4 DEF TimerFires, IInv, TypeOK, TimerInv
    <2>. QED BY <1>1, <1>4, <2>1 DEF TimerFires, history, Done
  <1>5. CASE Restart
    BY <1>0, <1>5 DEF Restart, AfterRestart, Done
  <1>6. CASE Expire \/ UNCHANGED vars
    BY <1>6 DEF Expire, vars, history
  <1>7. ASSUME NEW i \in Items, ReceiverTakes(i) PROVE stage'[n] = stage[n] /\ takes'[n] = takes[n]
    BY <1>0, <1>7 DEF ReceiverTakes, Done
  <1>. QED BY <1>3, <1>4, <1>5, <1>6, <1>7, Zenon DEF Next

\* ackMessage, rejectMessage, rejectAndRequeueMessage: nothing that was settled is
\* taken up again; a requeue timer that fires late finds no message that another
\* callback has settled, and no part makes a whole message twice.
THEOREM DoneStaysDone == Spec => DoneIsFinal
  <1>1. IInv /\ [Next]_vars =>
          [\A n \in Items : stage[n] \in Done => stage'[n] = stage[n] /\ takes'[n] = takes[n]]_vars
    BY MovesAreOfUndone
  <1>. QED BY DeliveryInvariance, <1>1, PTL DEF Spec, DoneIsFinal

=============================================================================
