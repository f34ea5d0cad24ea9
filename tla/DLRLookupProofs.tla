--------------------------- MODULE DLRLookupProofs ---------------------------
(***************************************************************************)
(* Proofs that the properties of DLRLookup hold for every set of messages  *)
(* and contents, any requests and any number of retries.                   *)
(***************************************************************************)
EXTENDS DLRLookup, TLAPS

USE LookupConstants

-----------------------------------------------------------------------------
(* Lemmas about the operators *)

\* One more lookup after fewer than M.
LEMMA OneMore ==
  ASSUME NEW n \in Nat, NEW M \in Nat, n = 0 \/ n < M
  PROVE  n + 1 > 0 /\ (n + 1 =< M \/ n + 1 =< 1)
  OBVIOUS

\* A count below its limit is within it.
LEMMA BelowIsWithin ==
  ASSUME NEW n \in Nat, NEW M \in Nat, n < M
  PROVE  n =< M
  OBVIOUS

\* A count is below a limit or not.
LEMMA BelowOrNot ==
  ASSUME NEW n \in Nat, NEW M \in Nat
  PROVE  n < M \/ n >= M
  OBVIOUS

\* A content's key is a key.
LEMMA KeyType == \A d \in Dlrs : Key(d) \in Keys
  BY DEF Key, Keys

\* Receipts of responses have a known level.
LEMMA RespThrownType == \A r \in AllRequests : \A s : RespThrown(r, s) \subseteq Levels
  BY DEF RespThrown, Levels, AllRequests

\* Terminal receipts have a known level.
LEMMA ReceiptThrownType == \A r \in AllRequests : \A s : ReceiptThrown(r, s) \subseteq Levels
  BY DEF ReceiptThrown, Levels, AllRequests

\* What is due for a response is thrown.
LEMMA DueOfResp ==
  ASSUME NEW d \in Dlrs, KindOf[d] = "submit_sm_resp", request[MsgOf[d]] \in AllRequests
  PROVE  Due(d) \subseteq RespThrown(request[MsgOf[d]], status[d])
<1> DEFINE r == request[MsgOf[d]]
           s == status[d]
<1>1. CASE r \in {"http1", "http3"}
  <2>1. RespThrown(r, s) = {"1"}
    BY <1>1 DEF RespThrown
  <2> QED BY <1>1, <2>1 DEF Due, Owed
<1>2. CASE r \in {"all", "failure"} /\ ReceiptOnResp
  <2>1. s = "ESME_ROK" \/ r = "failure" => RespThrown(r, s) = {"smpps"}
    BY <1>2 DEF RespThrown
  <2>2. Due(d) \subseteq {"smpps"} /\ (r = "all" /\ s # "ESME_ROK" => Due(d) = {})
    BY <1>2 DEF Due, Owed, LeftOut
  <2> QED BY <1>2, <2>1, <2>2
<1>3. CASE r \notin {"http1", "http3"} /\ ~(r \in {"all", "failure"} /\ ReceiptOnResp)
  <2>1. Due(d) = {}
    BY <1>3 DEF Due, Owed
  <2> QED BY <2>1
<1> QED BY <1>1, <1>2, <1>3

\* What is due for a receipt is thrown.
LEMMA DueOfReceipt ==
  ASSUME NEW d \in Dlrs, KindOf[d] = "deliver_sm", request[MsgOf[d]] \in AllRequests
  PROVE  Due(d) \subseteq ReceiptThrown(request[MsgOf[d]], status[d])
<1> DEFINE r == request[MsgOf[d]]
           s == status[d]
<1>1. CASE r \in {"http2", "http3"}
  <2>1. ReceiptThrown(r, s) = {"2"}
    BY <1>1 DEF ReceiptThrown
  <2> QED BY <1>1, <2>1 DEF Due, Owed
<1>2. CASE r = "all" \/ (r = "failure" /\ s \notin Success)
  <2>1. ReceiptThrown(r, s) = {"smpps"}
    BY <1>2 DEF ReceiptThrown
  <2> QED BY <1>2, <2>1 DEF Due, Owed
<1>3. CASE r \notin {"http2", "http3", "all"} /\ ~(r = "failure" /\ s \notin Success)
  <2>1. Due(d) = {}
    BY <1>3 DEF Due, Owed
  <2> QED BY <2>1
<1> QED BY <1>1, <1>2, <1>3

\* How a lookup may leave its step: it is settled, parked under a timer, or goes on
\* to another request.  This is all that the properties need of the timers.
Moves(d, S) ==
    /\ \E s \in S : step' = [step EXCEPT ![d] = s]
    /\ lookup_retrials' \in [Keys -> Nat]
    /\ \/ requeue_timers' = requeue_timers
       \/ requeue_timers' = [requeue_timers EXCEPT ![Key(d)] = Nothing]
       \/ /\ requeue_timers' = [requeue_timers EXCEPT ![Key(d)] = d]
          /\ step' = [step EXCEPT ![d] = "parked"]

\* Settling a content moves it.
LEMMA SettledMoves ==
  ASSUME TypeOK, NEW d \in Dlrs, NEW s, Settled(d, s)
  PROVE  Moves(d, {s})
  BY KeyType DEF Settled, clearRequeueTimer, Moves, TypeOK

\* Acknowledging and rejecting a content move it.
LEMMA AckMoves ==
  ASSUME TypeOK, NEW d \in Dlrs
  PROVE  /\ ackMessage(d) => Moves(d, {"acked"})
         /\ rejectMessage(d) => Moves(d, {"rejected"})
  BY SettledMoves DEF ackMessage, rejectMessage

\* So does going on with another request.
LEMMA ContinueMoves ==
  ASSUME TypeOK, NEW d \in Dlrs, NEW s, Continue(d, s)
  PROVE  Moves(d, {s})
  BY DEF Continue, Moves, TypeOK

\* A failed lookup is parked or rejected.
LEMMA RetryMoves ==
  ASSUME TypeOK, NEW d \in Dlrs, RetryOrReject(d)
  PROVE  Moves(d, {"parked", "rejected"})
<1>1. CASE rejectAndRequeueMessage(d)
  <2>1. step' = [step EXCEPT ![d] = "parked"]
    BY <1>1 DEF rejectAndRequeueMessage
  <2>2. lookup_retrials' \in [Keys -> Nat]
    BY <1>1 DEF rejectAndRequeueMessage, TypeOK
  <2>3. \/ requeue_timers' = requeue_timers
        \/ requeue_timers' = [requeue_timers EXCEPT ![Key(d)] = d]
    BY <1>1, KeyType, Zenon DEF rejectAndRequeueMessage, TypeOK
  <2> QED BY <2>1, <2>2, <2>3 DEF Moves
<1>2. CASE rejectMessage(d)
  BY <1>2, AckMoves DEF Moves
<1> QED BY <1>1, <1>2 DEF RetryOrReject

\* A step that moves one content keeps the types of the step and of the timers.
LEMMA MovesType ==
  ASSUME TypeOK, NEW d \in Dlrs, NEW S \in SUBSET Steps, Moves(d, S)
  PROVE  /\ step' \in [Dlrs -> Steps]
         /\ requeue_timers' \in [Keys -> Dlrs \cup {Nothing}]
         /\ lookup_retrials' \in [Keys -> Nat]
<1>1. step' \in [Dlrs -> Steps]
  BY DEF Moves, TypeOK
<1>2. requeue_timers' \in [Keys -> Dlrs \cup {Nothing}]
  BY KeyType DEF Moves, TypeOK
<1> QED BY <1>1, <1>2 DEF Moves

\* A content that is not parked owns no timer, so moving it leaves every timer with
\* a parked content.
LEMMA MovesKeepTimers ==
  ASSUME TypeOK, TimerHoldsItsDlr, NEW d \in Dlrs, step[d] # "parked",
         NEW S \in SUBSET Steps, Moves(d, S)
  PROVE  TimerHoldsItsDlr'
<1> SUFFICES ASSUME NEW k \in Keys, requeue_timers'[k] # Nothing
             PROVE  step'[requeue_timers'[k]] = "parked" /\ Key(requeue_timers'[k]) = k
  BY DEF TimerHoldsItsDlr, Key
<1>0. step \in [Dlrs -> Steps] /\ requeue_timers \in [Keys -> Dlrs \cup {Nothing}]
      /\ Key(d) \in Keys
  BY KeyType DEF TypeOK
<1>1. PICK s \in S : step' = [step EXCEPT ![d] = s]
  BY Zenon DEF Moves
<1>2. CASE requeue_timers'[k] = requeue_timers[k]
  <2>1. step[requeue_timers[k]] = "parked" /\ Key(requeue_timers[k]) = k /\ requeue_timers[k] \in Dlrs
    BY <1>0, <1>2 DEF TimerHoldsItsDlr
  <2> QED BY <2>1, <1>0, <1>1, <1>2
<1>3. CASE k = Key(d) /\ requeue_timers' = [requeue_timers EXCEPT ![Key(d)] = d]
               /\ step' = [step EXCEPT ![d] = "parked"]
  BY <1>0, <1>3
<1>4. requeue_timers'[k] = requeue_timers[k]
      \/ (k = Key(d) /\ requeue_timers' = [requeue_timers EXCEPT ![Key(d)] = d]
          /\ step' = [step EXCEPT ![d] = "parked"])
  BY <1>0 DEF Moves
<1> QED BY <1>2, <1>3, <1>4

\* What a step of one lookup must show to keep the lookups in progress consistent:
\* only its own content and the queue-msgid maps are in question.
LEMMA LookupEffect ==
  ASSUME TypeOK, LookupsInProgress, TerminalAfterAccept,
         NEW d \in Dlrs, NEW s, NEW L \in SUBSET Levels,
         step' = [step EXCEPT ![d] = s], s # "none",
         thrown' = thrown \cup ({d} \X L),
         UNCHANGED <<senderVars, status>>,
         \A m \in queueMsgid' : WantsTerminal(m),
         L # {} /\ KindOf[d] = "deliver_sm" => WantsTerminal(MsgOf[d]),
         s = "get2" => KindOf[d] = "deliver_sm" /\ WantsTerminal(MsgOf[d]),
         s = "hmset" => WantsTerminal(MsgOf[d]),
         s \in {"delete", "hmset", "expire", "acked"} =>
            \A l \in Due(d) : l \in L \/ <<d, l>> \in thrown
  PROVE  LookupsInProgress' /\ TerminalAfterAccept'
<1> USE DEF senderVars
<1>1. /\ \A m : WantsTerminal(m)' <=> WantsTerminal(m)
      /\ \A e \in Dlrs : Due(e)' = Due(e)
  BY DEF WantsTerminal, Due, Owed, LeftOut
<1>2. \A e \in Dlrs : \A l : <<e, l>> \in thrown' <=> (<<e, l>> \in thrown \/ (e = d /\ l \in L))
  OBVIOUS
<1>3. step \in [Dlrs -> Steps]
  BY DEF TypeOK
<1>4. \A e \in Dlrs : step'[e] = IF e = d THEN s ELSE step[e]
  BY <1>3
<1>5. ASSUME NEW e \in Dlrs
      PROVE  /\ KindOf[e] = "submit_sm_resp" /\ status'[e] = "ESME_ROK" => MsgOf[e] \in accepted'
             /\ step'[e] = "get2" => KindOf[e] = "deliver_sm" /\ WantsTerminal(MsgOf[e])'
             /\ step'[e] = "hmset" => WantsTerminal(MsgOf[e])'
             /\ step'[e] = "none" => status'[e] = "none" /\ \A l \in Levels : <<e, l>> \notin thrown'
             /\ step'[e] \in {"delete", "hmset", "expire", "acked"} =>
                   \A l \in Due(e)' : <<e, l>> \in thrown'
  <2>1. CASE e = d
    BY <2>1, <1>1, <1>2, <1>4 DEF LookupsInProgress
  <2>2. CASE e # d
    BY <2>2, <1>1, <1>2, <1>4 DEF LookupsInProgress
  <2> QED BY <2>1, <2>2
<1>6. LookupsInProgress'
  BY <1>1, <1>5 DEF LookupsInProgress
<1>7. ASSUME NEW e \in Dlrs, KindOf[e] = "deliver_sm", NEW l \in Levels, <<e, l>> \in thrown'
      PROVE  WantsTerminal(MsgOf[e])
  <2>1. CASE <<e, l>> \in thrown
    BY <2>1, <1>7 DEF TerminalAfterAccept, WantsTerminal
  <2>2. CASE e = d /\ l \in L
    BY <2>2, <1>7
  <2> QED BY <1>2, <1>7, <2>1, <2>2
<1>8. TerminalAfterAccept'
  BY <1>7 DEF TerminalAfterAccept, WantsTerminal
<1> QED BY <1>6, <1>8

-----------------------------------------------------------------------------
(* The inductive invariant *)

\* No content is known to DLRLookup at first.
LEMMA InitInv == Init => IInv
<1> SUFFICES ASSUME Init PROVE IInv
  OBVIOUS
<1>1. TypeOK
  BY DEF Init, TypeOK, Steps, Keys
<1>2. TimerHoldsItsDlr /\ TerminalAfterAccept
  BY DEF Init, TimerHoldsItsDlr, TerminalAfterAccept
<1>3. LookupsInProgress
  BY DEF Init, LookupsInProgress
<1> QED BY <1>1, <1>2, <1>3 DEF IInv

\* A step of the lookup of d that moves it to one of S and publishes it at the levels L.
LookupMoves(d, S, L) ==
    /\ S \in SUBSET (Steps \ {"none"})
    /\ L \in SUBSET Levels
    /\ step[d] # "parked"
    /\ Moves(d, S)
    /\ thrown' = thrown \cup ({d} \X L)
    /\ UNCHANGED <<senderVars, status>>
    /\ hmsetPending' \subseteq Msgs /\ dlrMap' \subseteq Msgs /\ queueMsgid' \subseteq Msgs
    /\ lookups' \in [Dlrs -> Nat]
    /\ \A m \in queueMsgid' : WantsTerminal(m)
    /\ L # {} /\ KindOf[d] = "deliver_sm" => WantsTerminal(MsgOf[d])
    /\ "get2" \in S => KindOf[d] = "deliver_sm" /\ WantsTerminal(MsgOf[d])
    /\ "hmset" \in S => WantsTerminal(MsgOf[d])
    /\ (\E s \in S : s \in {"delete", "hmset", "expire", "acked"}) =>
          \A l \in Due(d) : l \in L \/ <<d, l>> \in thrown

\* Such a step keeps the invariant.
LEMMA LookupStep ==
  ASSUME IInv, NEW d \in Dlrs, NEW S, NEW L, LookupMoves(d, S, L)
  PROVE  IInv'
<1> USE DEF LookupMoves
<1>1. PICK s \in S : step' = [step EXCEPT ![d] = s]
  BY Zenon DEF Moves
<1>2. LookupsInProgress' /\ TerminalAfterAccept'
  BY <1>1, LookupEffect, Zenon DEF IInv
<1>3. S \in SUBSET Steps
  OBVIOUS
<1>4. TimerHoldsItsDlr'
  BY <1>3, MovesKeepTimers DEF IInv
<1>5. TypeOK'
  <2>1. /\ step' \in [Dlrs -> Steps]
        /\ requeue_timers' \in [Keys -> Dlrs \cup {Nothing}]
        /\ lookup_retrials' \in [Keys -> Nat]
    BY <1>3, MovesType DEF IInv
  <2>2. thrown' \subseteq Dlrs \X Levels
    BY DEF IInv, TypeOK
  <2> QED BY <2>1, <2>2 DEF IInv, TypeOK, senderVars
<1> QED BY <1>2, <1>4, <1>5 DEF IInv

\* The replies of Redis and their failures keep the invariant.
LEMMA ReplyInv ==
  ASSUME IInv, NEW d \in Dlrs, Reply(d)
  PROVE  IInv'
<1> USE DEF redisVars
<1>0. /\ TypeOK /\ LookupsInProgress
      /\ MsgOf[d] \in Msgs /\ request[MsgOf[d]] \in AllRequests
      /\ thrown = thrown \cup ({d} \X {})
  BY DEF IInv, TypeOK
<1>t. /\ hmsetPending \subseteq Msgs /\ dlrMap \subseteq Msgs /\ queueMsgid \subseteq Msgs
      /\ lookups \in [Dlrs -> Nat]
      /\ \A m \in queueMsgid : WantsTerminal(m)
  BY <1>0 DEF TypeOK, LookupsInProgress
<1>s. {"acked", "rejected", "parked", "get2", "delete", "hmset", "expire"} \subseteq Steps \ {"none"}
  BY DEF Steps, Suspended
<1>1. CASE submit_sm_resp_dlr_callback(d)
  <2> DEFINE r == request[MsgOf[d]]
  <2>0. /\ KindOf[d] = "submit_sm_resp" /\ step[d] # "parked" /\ UNCHANGED <<senderVars, redisVars, status, lookups>>
    BY <1>1, Zenon DEF submit_sm_resp_dlr_callback
  <2>1. CASE MsgOf[d] \notin dlrMap
    <3>1. Moves(d, {"rejected"}) /\ thrown' = thrown \cup ({d} \X {})
      BY <1>0, <1>1, <2>1, AckMoves DEF submit_sm_resp_dlr_callback
    <3>q. LookupMoves(d, {"rejected"}, {})
      BY <3>1, <2>0, <1>t, <1>s DEF LookupMoves
    <3> QED BY <3>q, LookupStep
  <2>2. CASE MsgOf[d] \in dlrMap
    <3> DEFINE L == RespThrown(r, status[d])
    <3>1. L \in SUBSET Levels /\ thrown' = thrown \cup ({d} \X L) /\ Due(d) \subseteq L
      BY <1>0, <1>1, <2>0, <2>2, DueOfResp, RespThrownType DEF submit_sm_resp_dlr_callback
    <3>2. KindOf[d] # "deliver_sm"
      BY <2>0
    <3> HIDE DEF L
    <3>3. CASE Continue(d, "delete")
      <4>q. LookupMoves(d, {"delete"}, L)
        BY <3>1, <3>2, <3>3, <2>0, <1>0, <1>t, <1>s, ContinueMoves DEF LookupMoves
      <4> QED BY <4>q, LookupStep
    <3>4. CASE RespMapsId(r, status[d]) /\ Continue(d, "hmset")
      <4>1. WantsTerminal(MsgOf[d])
        BY <3>4, <2>0, <1>0 DEF RespMapsId, WantsTerminal, LookupsInProgress
      <4>q. LookupMoves(d, {"hmset"}, L)
        BY <4>1, <3>1, <3>2, <3>4, <2>0, <1>0, <1>t, <1>s, ContinueMoves DEF LookupMoves
      <4> QED BY <4>q, LookupStep
    <3>5. CASE ackMessage(d)
      <4>q. LookupMoves(d, {"acked"}, L)
        BY <3>1, <3>2, <3>5, <2>0, <1>0, <1>t, <1>s, AckMoves DEF LookupMoves
      <4> QED BY <4>q, LookupStep
    <3> QED BY <1>1, <2>2, <3>3, <3>4, <3>5 DEF submit_sm_resp_dlr_callback
  <2> QED BY <2>1, <2>2
<1>2. CASE QueueMsgidMapped(d)
  <2>1. /\ step[d] = "hmset" /\ UNCHANGED <<senderVars, hmsetPending, dlrMap, status, lookups, thrown>>
        /\ queueMsgid' = queueMsgid \cup {MsgOf[d]} /\ Continue(d, "expire")
    BY <1>2 DEF QueueMsgidMapped
  <2>2. WantsTerminal(MsgOf[d]) /\ \A l \in Due(d) : <<d, l>> \in thrown
    BY <2>1, <1>0 DEF LookupsInProgress
  <2>3. queueMsgid' \subseteq Msgs /\ (\A m \in queueMsgid' : WantsTerminal(m))
        /\ thrown' = thrown \cup ({d} \X {})
    BY <2>1, <2>2, <1>0, <1>t
  <2>q. LookupMoves(d, {"expire"}, {})
    BY <2>1, <2>2, <2>3, <1>0, <1>t, <1>s, ContinueMoves, Zenon DEF LookupMoves
  <2> QED BY <2>q, LookupStep
<1>3. CASE QueueMsgidExpirySet(d)
  <2>1. /\ step[d] = "expire" /\ UNCHANGED <<senderVars, redisVars, status, lookups, thrown>>
        /\ Moves(d, {"acked"})
    BY <1>0, <1>3, AckMoves DEF QueueMsgidExpirySet
  <2>2. (\A l \in Due(d) : <<d, l>> \in thrown) /\ thrown' = thrown \cup ({d} \X {})
    BY <2>1, <1>0 DEF LookupsInProgress
  <2>q. LookupMoves(d, {"acked"}, {})
    BY <2>1, <2>2, <1>t, <1>s DEF LookupMoves
  <2> QED BY <2>q, LookupStep
<1>4. CASE DlrMapRemoved(d)
  <2>1. /\ step[d] = "delete" /\ UNCHANGED <<senderVars, hmsetPending, queueMsgid, status, lookups, thrown>>
        /\ dlrMap' = dlrMap \ {MsgOf[d]} /\ Moves(d, {"acked"})
    BY <1>0, <1>4, AckMoves DEF DlrMapRemoved
  <2>2. (\A l \in Due(d) : <<d, l>> \in thrown) /\ thrown' = thrown \cup ({d} \X {})
        /\ dlrMap' \subseteq Msgs
    BY <2>1, <1>0, <1>t DEF LookupsInProgress
  <2>q. LookupMoves(d, {"acked"}, {})
    BY <2>1, <2>2, <1>t, <1>s DEF LookupMoves
  <2> QED BY <2>q, LookupStep
<1>5. CASE deliver_sm_dlr_callback(d)
  <2>1. /\ step[d] # "parked" /\ UNCHANGED <<senderVars, redisVars, status, lookups, thrown>>
        /\ KindOf[d] = "deliver_sm" /\ thrown' = thrown \cup ({d} \X {})
    BY <1>0, <1>5 DEF deliver_sm_dlr_callback
  <2>2. CASE MsgOf[d] \in queueMsgid /\ Continue(d, "get2")
    <3>q. LookupMoves(d, {"get2"}, {})
      BY <2>1, <2>2, <1>0, <1>t, <1>s, ContinueMoves DEF LookupMoves
    <3> QED BY <3>q, LookupStep
  <2>3. CASE RetryOrReject(d)
    <3>q. LookupMoves(d, {"parked", "rejected"}, {})
      BY <2>1, <2>3, <1>0, <1>t, <1>s, RetryMoves DEF LookupMoves
    <3> QED BY <3>q, LookupStep
  <2> QED BY <1>5, <2>2, <2>3 DEF deliver_sm_dlr_callback
<1>6. CASE ReceiptMapFetched(d)
  <2>1. /\ step[d] = "get2" /\ UNCHANGED <<senderVars, redisVars, status, lookups>>
        /\ KindOf[d] = "deliver_sm" /\ WantsTerminal(MsgOf[d])
    BY <1>0, <1>6 DEF ReceiptMapFetched, LookupsInProgress
  <2>2. CASE MsgOf[d] \notin dlrMap
    <3>1. Moves(d, {"parked", "rejected"}) /\ thrown' = thrown \cup ({d} \X {})
      BY <1>0, <1>6, <2>2, RetryMoves DEF ReceiptMapFetched
    <3>q. LookupMoves(d, {"parked", "rejected"}, {})
      BY <3>1, <2>1, <1>t, <1>s DEF LookupMoves
    <3> QED BY <3>q, LookupStep
  <2>3. CASE MsgOf[d] \in dlrMap
    <3> DEFINE L == ReceiptThrown(request[MsgOf[d]], status[d])
    <3>1. L \in SUBSET Levels /\ thrown' = thrown \cup ({d} \X L) /\ Due(d) \subseteq L
      BY <1>0, <1>6, <2>1, <2>3, DueOfReceipt, ReceiptThrownType DEF ReceiptMapFetched
    <3>2. Continue(d, "delete") \/ ackMessage(d)
      BY <1>6, <2>3 DEF ReceiptMapFetched
    <3> HIDE DEF L
    <3>3. CASE Continue(d, "delete")
      <4>q. LookupMoves(d, {"delete"}, L)
        BY <3>1, <3>3, <2>1, <1>0, <1>t, <1>s, ContinueMoves DEF LookupMoves
      <4> QED BY <4>q, LookupStep
    <3>4. CASE ackMessage(d)
      <4>q. LookupMoves(d, {"acked"}, L)
        BY <3>1, <3>4, <2>1, <1>0, <1>t, <1>s, AckMoves DEF LookupMoves
      <4> QED BY <4>q, LookupStep
    <3> QED BY <3>2, <3>3, <3>4
  <2> QED BY <2>2, <2>3
<1>7. CASE RedisFails(d)
  <2>1. /\ step[d] # "parked" /\ UNCHANGED <<senderVars, hmsetPending, status, lookups, thrown>>
        /\ Moves(d, {"parked", "rejected"}) /\ thrown' = thrown \cup ({d} \X {})
    BY <1>0, <1>7, RetryMoves DEF RedisFails, Suspended
  <2>2. dlrMap' \subseteq Msgs /\ queueMsgid' \subseteq Msgs
    BY <1>0, <1>t, <1>7 DEF RedisFails
  <2>3. \A m \in queueMsgid' : WantsTerminal(m)
    BY <1>0, <1>7 DEF RedisFails, LookupsInProgress
  <2>q. LookupMoves(d, {"parked", "rejected"}, {})
    BY <2>1, <2>2, <2>3, <1>t, <1>s DEF LookupMoves
  <2> QED BY <2>q, LookupStep
<1> QED BY <1>1, <1>2, <1>3, <1>4, <1>5, <1>6, <1>7 DEF Reply

\* What the sender, the SMSC and the timers do keeps the invariant.
LEMMA OtherInv ==
  ASSUME IInv,
         \/ \E m \in Msgs : perspective_submit_sm(m) \/ DlrMapWritten(m) \/ MapExpires(m)
         \/ \E d \in Dlrs : submit_sm_resp_event(d) \/ deliver_sm_event(d)
                            \/ dlr_callback_dispatcher(d)
         \/ \E k \in Keys : RequeueTimerFires(k)
  PROVE  IInv'
<1> USE DEF redisVars, senderVars
<1>0. TypeOK /\ TimerHoldsItsDlr /\ TerminalAfterAccept /\ LookupsInProgress
  BY DEF IInv
<1>1. ASSUME NEW m \in Msgs, perspective_submit_sm(m) \/ DlrMapWritten(m) \/ MapExpires(m)
      PROVE  IInv'
  <2>1. /\ UNCHANGED <<accepted, request, step, status, requeue_timers, lookup_retrials, lookups, thrown>>
        /\ queueMsgid' \subseteq queueMsgid
        /\ hmsetPending' \subseteq Msgs /\ dlrMap' \subseteq Msgs
    BY <1>0, <1>1 DEF perspective_submit_sm, DlrMapWritten, MapExpires, TypeOK
  <2>2. submission' \in [Msgs -> {"new", "queued", "done"}]
    BY <1>0, <1>1 DEF perspective_submit_sm, DlrMapWritten, MapExpires, TypeOK
  <2>3. TypeOK'
    BY <1>0, <2>1, <2>2 DEF TypeOK
  <2>4. TimerHoldsItsDlr' /\ TerminalAfterAccept'
    BY <1>0, <2>1 DEF TimerHoldsItsDlr, TerminalAfterAccept, Key
  <2>5. LookupsInProgress'
    BY <1>0, <2>1, Zenon DEF LookupsInProgress, WantsTerminal, Due, Owed, LeftOut
  <2> QED BY <2>3, <2>4, <2>5 DEF IInv
<1>2. ASSUME NEW d \in Dlrs, submit_sm_resp_event(d) \/ deliver_sm_event(d)
      PROVE  IInv'
  <2>1. PICK s \in RespStatuses \cup ReceiptStatuses :
            /\ status' = [status EXCEPT ![d] = s]
            /\ KindOf[d] = "submit_sm_resp" /\ s = "ESME_ROK" => MsgOf[d] \in accepted'
            /\ accepted' \subseteq Msgs /\ accepted \subseteq accepted'
    BY <1>0, <1>2 DEF submit_sm_resp_event, deliver_sm_event, TypeOK
  <2>2. /\ UNCHANGED <<request, redisVars, requeue_timers, lookup_retrials, lookups, thrown>>
        /\ step[d] = "none" /\ step' = [step EXCEPT ![d] = "ready"]
    BY <1>2 DEF submit_sm_resp_event, deliver_sm_event
  <2>3. submission' \in [Msgs -> {"new", "queued", "done"}]
    BY <1>0, <1>2 DEF submit_sm_resp_event, deliver_sm_event, TypeOK
  <2>4. step' \in [Dlrs -> Steps] /\ status' \in [Dlrs -> RespStatuses \cup ReceiptStatuses \cup {"none"}]
    BY <1>0, <2>1, <2>2 DEF TypeOK, Steps
  <2>5. TypeOK'
    BY <1>0, <2>1, <2>2, <2>3, <2>4, Zenon DEF TypeOK
  <2>6. TimerHoldsItsDlr' /\ TerminalAfterAccept'
    BY <1>0, <2>1, <2>2, Zenon DEF TimerHoldsItsDlr, TerminalAfterAccept, TypeOK, Key
  <2>7. \A e \in Dlrs : e # d => step'[e] = step[e] /\ status'[e] = status[e]
    BY <1>0, <2>1, <2>2 DEF TypeOK
  <2>8. step'[d] = "ready" /\ status'[d] = s
    BY <1>0, <2>1, <2>2 DEF TypeOK
  <2>9. \A m : WantsTerminal(m) => WantsTerminal(m)'
    BY <2>1, <2>2 DEF WantsTerminal
  <2>10. \A e \in Dlrs : e # d => Due(e)' = Due(e)
    <3> SUFFICES ASSUME NEW e \in Dlrs, e # d PROVE Due(e)' = Due(e)
      OBVIOUS
    <3>1. request' = request /\ status'[e] = status[e]
      BY <2>2, <2>7
    <3> QED BY <3>1, Zenon DEF Due, Owed, LeftOut
  <2>11. ASSUME NEW e \in Dlrs
         PROVE  /\ KindOf[e] = "submit_sm_resp" /\ status'[e] = "ESME_ROK" => MsgOf[e] \in accepted'
                /\ step'[e] = "get2" => KindOf[e] = "deliver_sm" /\ WantsTerminal(MsgOf[e])'
                /\ step'[e] = "hmset" => WantsTerminal(MsgOf[e])'
                /\ step'[e] = "none" => status'[e] = "none" /\ \A l \in Levels : <<e, l>> \notin thrown'
                /\ step'[e] \in {"delete", "hmset", "expire", "acked"} =>
                      \A l \in Due(e)' : <<e, l>> \in thrown'
    <3>1. CASE e = d
      BY <3>1, <2>1, <2>8
    <3>2. CASE e # d
      BY <3>2, <1>0, <2>1, <2>2, <2>7, <2>9, <2>10 DEF LookupsInProgress
    <3> QED BY <3>1, <3>2, Zenon
  <2>12. LookupsInProgress'
    BY <1>0, <2>2, <2>9, <2>11, Zenon DEF LookupsInProgress
  <2> QED BY <2>5, <2>6, <2>12 DEF IInv
<1>3. ASSUME NEW d \in Dlrs, dlr_callback_dispatcher(d)
      PROVE  IInv'
  <2>1. Moves(d, {"get"}) /\ step[d] # "parked"
    BY <1>0, <1>3, KeyType DEF dlr_callback_dispatcher, Moves, TypeOK
  <2>2. lookups' \in [Dlrs -> Nat] /\ thrown' = thrown \cup ({d} \X {})
    BY <1>0, <1>3 DEF dlr_callback_dispatcher, TypeOK
  <2>3. LookupMoves(d, {"get"}, {})
    BY <1>0, <1>3, <2>1, <2>2
    DEF dlr_callback_dispatcher, LookupMoves, TypeOK, LookupsInProgress, Steps, Suspended
  <2> QED BY <2>3, LookupStep
<1>4. ASSUME NEW k \in Keys, RequeueTimerFires(k)
      PROVE  IInv'
  <2> DEFINE d == requeue_timers[k]
  <2>1. d \in Dlrs /\ step[d] = "parked" /\ Key(d) = k
    BY <1>0, <1>4 DEF RequeueTimerFires, TypeOK, TimerHoldsItsDlr
  <2>2. /\ step' = [step EXCEPT ![d] = "ready"]
        /\ requeue_timers' = [requeue_timers EXCEPT ![k] = Nothing]
        /\ UNCHANGED <<senderVars, redisVars, status, lookup_retrials, lookups, thrown>>
    BY <1>4 DEF RequeueTimerFires, clearRequeueTimer
  <2> HIDE DEF d
  <2>3. TypeOK'
    BY <1>0, <2>1, <2>2 DEF TypeOK, Steps
  <2>4. TimerHoldsItsDlr'
    BY <1>0, <2>1, <2>2 DEF TimerHoldsItsDlr, TypeOK, Key
  <2>5. /\ \A e \in Dlrs : step'[e] # step[e] => step'[e] = "ready"
        /\ \A e \in Dlrs : step'[e] = "none" => step[e] = "none"
    BY <1>0, <2>1, <2>2 DEF TypeOK
  <2>6. LookupsInProgress' /\ TerminalAfterAccept'
    <3>1. TerminalAfterAccept'
      BY <1>0, <2>2 DEF TerminalAfterAccept
    <3>2. /\ \A m : WantsTerminal(m)' <=> WantsTerminal(m)
          /\ \A e \in Dlrs : Due(e)' = Due(e)
      BY <2>2 DEF WantsTerminal, Due, Owed, LeftOut
    <3>3. LookupsInProgress'
      BY <1>0, <2>2, <2>5, <3>2 DEF LookupsInProgress
    <3> QED BY <3>1, <3>3
  <2> QED BY <2>3, <2>4, <2>6 DEF IInv
<1> QED BY <1>1, <1>2, <1>3, <1>4

\* IInv is inductive.
LEMMA NextInv == IInv /\ [Next]_vars => IInv'
<1> SUFFICES ASSUME IInv, [Next]_vars PROVE IInv'
  OBVIOUS
<1>1. CASE Next
  BY <1>1, ReplyInv, OtherInv DEF Next
<1>2. CASE UNCHANGED vars
  BY <1>2, Zenon DEF vars, senderVars, redisVars, IInv, TypeOK, TimerHoldsItsDlr, TerminalAfterAccept,
     LookupsInProgress, WantsTerminal, Due, Owed, LeftOut, Key
<1> QED BY <1>1, <1>2

\* The invariant holds in every state of every behaviour.
THEOREM LookupInvariance == Spec => []IInv
  BY InitInv, NextInv, PTL DEF Spec

\* The state keeps its shape.
THEOREM LookupTypeCorrect == Spec => []TypeOK
<1>1. IInv => TypeOK
  BY DEF IInv
<1> QED BY <1>1, LookupInvariance, PTL

\* A requeue timer never requeues a content that was settled or is being looked up.
THEOREM LookupTimersAreCurrent == Spec => []TimerHoldsItsDlr
<1>1. IInv => TimerHoldsItsDlr
  BY DEF IInv
<1> QED BY <1>1, LookupInvariance, PTL

\* A terminal receipt is published only for a message the SMSC accepted, to a sender
\* who asked for it.
THEOREM NoReceiptBeforeAccept == Spec => []TerminalAfterAccept
<1>1. IInv => TerminalAfterAccept
  BY DEF IInv
<1> QED BY <1>1, LookupInvariance, PTL

\* Nothing is acknowledged unserved.
THEOREM AcknowledgedIsServed == Spec => []AckedIsThrown
<1>1. ASSUME IInv, NEW d \in Dlrs, step[d] = "acked", NEW l \in Due(d)
      PROVE  <<d, l>> \in thrown
  BY <1>1, Zenon DEF IInv, LookupsInProgress
<1>2. IInv => AckedIsThrown
  BY <1>1 DEF AckedIsThrown
<1> QED BY <1>2, LookupInvariance, PTL

-----------------------------------------------------------------------------
(* Contents that share their message-id with no other one *)

\* The state of a content and of its key are as they were.
SameOwn(e) ==
    /\ step'[e] = step[e]
    /\ lookups'[e] = lookups[e]
    /\ requeue_timers'[Key(e)] = requeue_timers[Key(e)]
    /\ lookup_retrials'[Key(e)] = lookup_retrials[Key(e)]

\* A content that was left alone keeps its part.
LEMMA SameKeepsOwn ==
  ASSUME NEW e \in Unshared, SameOwn(e), Own(e)
  PROVE  Own(e)'
  BY Zenon DEF SameOwn, Own, Key

\* Settling, parking and going on concern one content and its key only.
LEMMA OthersAreLeftAlone ==
  ASSUME TypeOK, NEW d \in Dlrs, NEW e \in Unshared, e # d, step[d] # "none",
         UNCHANGED lookups,
         \/ \E s : Settled(d, s) \/ Continue(d, s)
         \/ rejectAndRequeueMessage(d)
  PROVE  SameOwn(e)
<1>1. e \in Dlrs /\ Key(e) # Key(d) /\ Key(e) \in Keys /\ Key(d) \in Keys
  BY KeyType DEF Unshared
<1>2. CASE \E s : Settled(d, s) \/ Continue(d, s)
  BY <1>1, <1>2 DEF Settled, Continue, clearRequeueTimer, SameOwn, TypeOK
<1>3. CASE rejectAndRequeueMessage(d)
  <2>1. step'[e] = step[e] /\ lookup_retrials' = lookup_retrials
    BY <1>3 DEF rejectAndRequeueMessage, TypeOK
  <2>2. requeue_timers'[Key(e)] = requeue_timers[Key(e)]
    BY <1>1, <1>3 DEF rejectAndRequeueMessage, TypeOK
  <2> QED BY <2>1, <2>2, Zenon DEF SameOwn
<1> QED BY <1>2, <1>3

\* A lookup that failed is parked with a timer of its own, or was the last one.
LEMMA RetryOwn ==
  ASSUME IInv, NEW d \in Unshared, Own(d), step[d] \in Suspended, UNCHANGED lookups,
         RetryOrReject(d)
  PROVE  Own(d)'
<1> d \in Dlrs
  BY DEF Unshared
<1>0. /\ TypeOK /\ TimerHoldsItsDlr /\ Key(d) \in Keys
      /\ lookups[d] \in Nat /\ lookup_retrials[Key(d)] = lookups[d] /\ lookups[d] > 0
      /\ lookups[d] =< MaxRetries \/ lookups[d] =< 1
  BY KeyType DEF IInv, TypeOK, Own, Suspended
<1>1. CASE lookups[d] < MaxRetries /\ rejectAndRequeueMessage(d)
  <2>1. requeue_timers[Key(d)] = Nothing
    <3> SUFFICES ASSUME requeue_timers[Key(d)] # Nothing PROVE FALSE
      BY Zenon
    <3> DEFINE e == requeue_timers[Key(d)]
    <3>1. e \in Dlrs /\ step[e] = "parked" /\ Key(e) = Key(d)
      BY <1>0 DEF TypeOK, TimerHoldsItsDlr
    <3>2. e = d
      BY <3>1, Zenon DEF Unshared, TypeOK
    <3> QED BY <3>1, <3>2, Zenon DEF Suspended
  <2>2. step'[d] = "parked" /\ lookup_retrials' = lookup_retrials
    BY <1>0, <1>1 DEF rejectAndRequeueMessage, TypeOK
  <2>3. requeue_timers'[Key(d)] = d
    BY <1>0, <1>1, <2>1 DEF rejectAndRequeueMessage, TypeOK
  <2>4. /\ lookups'[d] > 0 /\ lookups'[d] =< MaxRetries /\ lookups'[d] < MaxRetries
        /\ lookup_retrials'[Key(d)] = lookups'[d]
    <3>1. lookups[d] =< MaxRetries
      BY <1>0, <1>1, BelowIsWithin, Zenon
    <3>2. lookups'[d] = lookups[d] /\ lookup_retrials'[Key(d)] = lookup_retrials[Key(d)]
      BY <2>2, Zenon
    <3> QED BY <1>0, <1>1, <3>1, <3>2, Zenon
  <2>5. step'[d] \notin Suspended /\ step'[d] # "rejected"
    BY <2>2, Zenon DEF Suspended
  <2> QED BY <2>2, <2>3, <2>4, <2>5, Zenon DEF Own, Key
<1>2. CASE lookups[d] >= MaxRetries /\ rejectMessage(d)
  <2>1. step'[d] = "rejected"
    BY <1>0, <1>2 DEF rejectMessage, Settled, TypeOK
  <2>2. lookups'[d] = lookups[d] /\ step'[d] \notin Suspended
    BY <2>1 DEF Suspended
  <2>3. lookups'[d] >= MaxRetries /\ (lookups'[d] =< MaxRetries \/ lookups'[d] =< 1)
    BY <1>0, <1>2, <2>2
  <2> QED BY <2>1, <2>2, <2>3, Zenon DEF Own
<1>3. lookups[d] < MaxRetries \/ lookups[d] >= MaxRetries
  BY <1>0, BelowOrNot, LookupConstants, Zenon
<1>4. \/ lookups[d] < MaxRetries /\ rejectAndRequeueMessage(d)
      \/ lookups[d] >= MaxRetries /\ rejectMessage(d)
  <2>1. CASE lookups[d] < MaxRetries
    BY <1>0, <2>1 DEF RetryOrReject
  <2>2. CASE lookups[d] >= MaxRetries
    <3>1. ~(lookup_retrials[Key(d)] < MaxRetries)
      BY <1>0, <2>2
    <3> QED BY <2>2, <3>1 DEF RetryOrReject
  <2> QED BY <1>3, <2>1, <2>2
<1> QED BY <1>1, <1>2, <1>4, Zenon

\* A lookup that goes on, is acknowledged, or is the rejected lookup of a response.
LEMMA ForwardOwn ==
  ASSUME IInv, NEW d \in Dlrs, Own(d), step[d] \in Suspended, UNCHANGED lookups,
         \/ ackMessage(d)
         \/ KindOf[d] # "deliver_sm" /\ rejectMessage(d)
         \/ \E s \in Suspended : Continue(d, s)
  PROVE  Own(d)'
<1>0. /\ TypeOK /\ lookup_retrials[Key(d)] = lookups[d] /\ lookups[d] > 0
      /\ lookups[d] =< MaxRetries \/ lookups[d] =< 1
  BY DEF IInv, Own, Suspended
<1>1. CASE ackMessage(d)
  <2>1. step'[d] = "acked"
    BY <1>0, <1>1 DEF ackMessage, Settled, TypeOK
  <2> QED BY <1>0, <2>1, Zenon DEF Own, Suspended
<1>2. CASE KindOf[d] # "deliver_sm" /\ rejectMessage(d)
  <2>1. step'[d] = "rejected"
    BY <1>0, <1>2 DEF rejectMessage, Settled, TypeOK
  <2> QED BY <1>0, <1>2, <2>1, Zenon DEF Own, Suspended
<1>3. CASE \E s \in Suspended : Continue(d, s)
  <2>1. step'[d] \in Suspended /\ lookup_retrials' = lookup_retrials
    BY <1>0, <1>3 DEF Continue, TypeOK
  <2> QED BY <1>0, <2>1, Zenon DEF Own, Suspended, Key
<1> QED BY <1>1, <1>2, <1>3

\* A reply keeps UnsharedInv.
LEMMA ReplyUnshared ==
  ASSUME IInv, NEW d \in Dlrs, Reply(d), \A e \in Unshared : Own(e)
  PROVE  \A e \in Unshared : Own(e)'
<1>1. step[d] \in Suspended /\ UNCHANGED lookups
  BY Zenon DEF Reply, submit_sm_resp_dlr_callback, QueueMsgidMapped, QueueMsgidExpirySet,
     DlrMapRemoved, deliver_sm_dlr_callback, ReceiptMapFetched, RedisFails, Suspended
<1>2. \/ RetryOrReject(d)
      \/ ackMessage(d)
      \/ KindOf[d] # "deliver_sm" /\ rejectMessage(d)
      \/ \E s \in Suspended : Continue(d, s)
  BY Zenon DEF Reply, submit_sm_resp_dlr_callback, QueueMsgidMapped, QueueMsgidExpirySet,
     DlrMapRemoved, deliver_sm_dlr_callback, ReceiptMapFetched, RedisFails, Suspended
<1>3. d \in Unshared => Own(d)'
  BY <1>1, <1>2, RetryOwn, ForwardOwn
<1>4. \/ \E s : Settled(d, s) \/ Continue(d, s)
      \/ rejectAndRequeueMessage(d)
  BY <1>2 DEF RetryOrReject, ackMessage, rejectMessage
<1>5. ASSUME NEW e \in Unshared, e # d
      PROVE  Own(e)'
  <2>1. SameOwn(e)
    BY <1>1, <1>4, <1>5, OthersAreLeftAlone DEF IInv, Suspended
  <2> QED BY <2>1, SameKeepsOwn
<1> QED BY <1>3, <1>5

\* So does everything else that happens to a content.
LEMMA OtherUnshared ==
  ASSUME IInv, \A e \in Unshared : Own(e),
         \/ \E m \in Msgs : perspective_submit_sm(m) \/ DlrMapWritten(m) \/ MapExpires(m)
         \/ \E d \in Dlrs : submit_sm_resp_event(d) \/ deliver_sm_event(d)
                            \/ dlr_callback_dispatcher(d)
         \/ \E k \in Keys : RequeueTimerFires(k)
  PROVE  \A e \in Unshared : Own(e)'
<1>0. TypeOK /\ TimerHoldsItsDlr /\ Unshared \subseteq Dlrs
  BY DEF IInv, Unshared
<1>1. ASSUME NEW m \in Msgs, perspective_submit_sm(m) \/ DlrMapWritten(m) \/ MapExpires(m)
      PROVE  \A e \in Unshared : Own(e)'
  <2>1. \A e \in Unshared : SameOwn(e)
    BY <1>1, Zenon DEF perspective_submit_sm, DlrMapWritten, MapExpires, SameOwn
  <2> QED BY <2>1, SameKeepsOwn
<1>2. ASSUME NEW d \in Dlrs, submit_sm_resp_event(d) \/ deliver_sm_event(d)
      PROVE  \A e \in Unshared : Own(e)'
  <2>1. /\ step[d] = "none" /\ step' = [step EXCEPT ![d] = "ready"]
        /\ UNCHANGED <<requeue_timers, lookup_retrials, lookups>>
    BY <1>2, Zenon DEF submit_sm_resp_event, deliver_sm_event
  <2>2. \A e \in Unshared : e # d => SameOwn(e)
    BY <1>0, <2>1 DEF SameOwn, TypeOK
  <2>3. step'[d] = "ready"
    BY <1>0, <2>1 DEF TypeOK
  <2>4. Own(d) => Own(d)'
    BY <2>1, <2>3, Zenon DEF Own, Key, Suspended
  <2> QED BY <2>2, <2>4, SameKeepsOwn
<1>3. ASSUME NEW d \in Dlrs, dlr_callback_dispatcher(d)
      PROVE  \A e \in Unshared : Own(e)'
  <2>1. /\ step[d] = "ready" /\ step' = [step EXCEPT ![d] = "get"]
        /\ lookup_retrials' = [lookup_retrials EXCEPT ![Key(d)] = @ + 1]
        /\ lookups' = [lookups EXCEPT ![d] = @ + 1]
        /\ UNCHANGED requeue_timers
    BY <1>3 DEF dlr_callback_dispatcher
  <2>2. \A e \in Unshared : e # d => SameOwn(e)
    BY <1>0, <2>1, KeyType DEF SameOwn, TypeOK, Unshared
  <2>3. ASSUME Own(d)
        PROVE  Own(d)'
    <3>1. /\ step'[d] = "get" /\ lookups'[d] = lookups[d] + 1
          /\ lookup_retrials'[Key(d)] = lookup_retrials[Key(d)] + 1
          /\ lookups[d] \in Nat /\ lookup_retrials[Key(d)] = lookups[d]
          /\ lookups[d] = 0 \/ lookups[d] < MaxRetries
      BY <1>0, <2>1, <2>3, KeyType DEF TypeOK, Own
    <3>2. /\ lookups'[d] > 0 /\ lookup_retrials'[Key(d)] = lookups'[d]
          /\ lookups'[d] =< MaxRetries \/ lookups'[d] =< 1
      <4>1. lookups[d] \in Nat /\ MaxRetries \in Nat /\ (lookups[d] = 0 \/ lookups[d] < MaxRetries)
        BY <3>1, Zenon
      <4>2. lookups[d] + 1 > 0 /\ (lookups[d] + 1 =< MaxRetries \/ lookups[d] + 1 =< 1)
        BY <4>1, OneMore
      <4>3. lookup_retrials'[Key(d)] = lookups[d] + 1 /\ lookups'[d] = lookups[d] + 1
        BY <3>1, Zenon
      <4> QED BY <4>2, <4>3, Zenon
    <3> QED BY <3>1, <3>2, Zenon DEF Own, Key
  <2> QED BY <2>2, <2>3, SameKeepsOwn
<1>4. ASSUME NEW k \in Keys, RequeueTimerFires(k)
      PROVE  \A e \in Unshared : Own(e)'
  <2>1. PICK d \in Dlrs : d = requeue_timers[k] /\ step[d] = "parked" /\ Key(d) = k
    BY <1>0, <1>4 DEF RequeueTimerFires, TypeOK, TimerHoldsItsDlr
  <2>2. /\ step' = [step EXCEPT ![d] = "ready"]
        /\ requeue_timers' = [requeue_timers EXCEPT ![k] = Nothing]
        /\ UNCHANGED <<lookup_retrials, lookups>>
    BY <1>4, <2>1 DEF RequeueTimerFires, clearRequeueTimer
  <2>3. \A e \in Unshared : e # d => SameOwn(e)
    BY <1>0, <2>1, <2>2, KeyType DEF SameOwn, TypeOK, Unshared
  <2>4. step'[d] = "ready"
    BY <1>0, <2>1, <2>2 DEF TypeOK
  <2>5. Own(d) => Own(d)'
    BY <2>1, <2>2, <2>4, Zenon DEF Own, Key, Suspended
  <2> QED BY <2>1, <2>3, <2>5, SameKeepsOwn, Zenon
<1> QED BY <1>1, <1>2, <1>3, <1>4

\* A content that was published stays so: Unshared never grows.
LEMMA UnsharedShrinks ==
  ASSUME IInv, [Next]_vars
  PROVE  Unshared' \subseteq Unshared
<1>0. TypeOK /\ TimerHoldsItsDlr
  BY DEF IInv
<1>1. ASSUME NEW e \in Dlrs, Reply(e) PROVE \E s \in Steps \ {"none"} : step' = [step EXCEPT ![e] = s]
  <2>1. \/ RetryOrReject(e) \/ ackMessage(e) \/ rejectMessage(e)
        \/ \E s \in Suspended : Continue(e, s)
    BY <1>1, Zenon DEF Reply, submit_sm_resp_dlr_callback, QueueMsgidMapped, QueueMsgidExpirySet,
       DlrMapRemoved, deliver_sm_dlr_callback, ReceiptMapFetched, RedisFails, Suspended
  <2>2. \/ ackMessage(e) \/ rejectMessage(e) \/ rejectAndRequeueMessage(e)
        \/ \E s \in Suspended : Continue(e, s)
    BY <2>1 DEF RetryOrReject
  <2>3. \E s \in Suspended \cup {"acked", "rejected", "parked"} : step' = [step EXCEPT ![e] = s]
    BY <2>2, Zenon DEF ackMessage, rejectMessage, Settled, rejectAndRequeueMessage, Continue
  <2> QED BY <2>3, Zenon DEF Steps, Suspended
<1>2. ASSUME NEW e \in Dlrs, submit_sm_resp_event(e) \/ deliver_sm_event(e) \/ dlr_callback_dispatcher(e)
      PROVE  \E s \in Steps \ {"none"} : step' = [step EXCEPT ![e] = s]
  <2>1. step' = [step EXCEPT ![e] = "ready"] \/ step' = [step EXCEPT ![e] = "get"]
    BY <1>2, Zenon DEF submit_sm_resp_event, deliver_sm_event, dlr_callback_dispatcher
  <2> QED BY <2>1 DEF Steps, Suspended
<1>3. ASSUME NEW k \in Keys, RequeueTimerFires(k)
      PROVE  \E e \in Dlrs : step' = [step EXCEPT ![e] = "ready"]
  BY <1>0, <1>3, Zenon DEF RequeueTimerFires, TypeOK
<1>4. ASSUME NEW m \in Msgs, perspective_submit_sm(m) \/ DlrMapWritten(m) \/ MapExpires(m)
      PROVE  step' = step
  BY <1>4, Zenon DEF perspective_submit_sm, DlrMapWritten, MapExpires
<1>5. step' = step \/ \E e \in Dlrs : \E s \in Steps \ {"none"} : step' = [step EXCEPT ![e] = s]
  <2>1. "ready" \in Steps \ {"none"}
    BY DEF Steps
  <2>2. CASE Next
    BY <1>1, <1>2, <1>3, <1>4, <2>1, <2>2, Zenon DEF Next
  <2>3. CASE UNCHANGED vars
    BY <2>3 DEF vars
  <2> QED BY <2>2, <2>3
<1>6. \A e \in Dlrs : step[e] # "none" => step'[e] # "none"
  BY <1>0, <1>5 DEF TypeOK
<1> QED BY <1>6, Zenon DEF Unshared, Key

\* UnsharedInv holds in every state, whatever ids the other contents share.
THEOREM UnsharedInvariance == Spec => []UnsharedInv
<1>1. Init => UnsharedInv
  <2> SUFFICES ASSUME Init PROVE UnsharedInv
    OBVIOUS
  <2>1. \A d \in Dlrs : Own(d)
    BY KeyType DEF Init, Own, Suspended
  <2> QED BY <2>1, InitInv DEF UnsharedInv, Unshared
<1>2. UnsharedInv /\ [Next]_vars => UnsharedInv'
  <2> SUFFICES ASSUME UnsharedInv, [Next]_vars PROVE UnsharedInv'
    OBVIOUS
  <2>1. IInv /\ (\A d \in Unshared : Own(d)) /\ IInv'
    BY NextInv DEF UnsharedInv
  <2>2. Unshared' \subseteq Unshared
    BY <2>1, UnsharedShrinks
  <2>3. \A e \in Unshared : Own(e)'
    <3>1. CASE Next
      BY <2>1, <3>1, ReplyUnshared, OtherUnshared DEF Next
    <3>2. CASE UNCHANGED vars
      <4>1. \A e \in Dlrs : SameOwn(e)
        BY <3>2 DEF vars, SameOwn
      <4> QED BY <2>1, <4>1, SameKeepsOwn, Zenon DEF Unshared
    <3> QED BY <3>1, <3>2
  <2> QED BY <2>1, <2>2, <2>3, Zenon DEF UnsharedInv
<1> QED BY <1>1, <1>2, PTL DEF Spec

\* A receipt that shares its message-id with no other one is looked up dlr_lookup_max_retries times
\* before it is given up, and no more.
THEOREM RetriesAreExact == Spec => []LookedUpMaxRetries
<1>1. UnsharedInv => LookedUpMaxRetries
  BY DEF UnsharedInv, Own, LookedUpMaxRetries
<1> QED BY <1>1, UnsharedInvariance, PTL

------------------------------------------------------------------------------
(* What is settled stays so. *)

\* A step does nothing to content d.
LeavesAlone(d) ==
    /\ step'[d] = step[d] /\ lookups'[d] = lookups[d]
    /\ \A l \in Levels : <<d, l>> \in thrown' => <<d, l>> \in thrown

LEMMA SettledIsLeftAlone ==
  ASSUME IInv, [Next]_vars, NEW d \in Dlrs, step[d] \in {"acked", "rejected"}
  PROVE  LeavesAlone(d)
<1>0. TypeOK /\ TimerHoldsItsDlr /\ step \in [Dlrs -> Steps] /\ lookups \in [Dlrs -> Nat]
  BY DEF IInv, TypeOK
<1>1. ASSUME NEW e \in Dlrs, Reply(e) PROVE LeavesAlone(d)
  <2>1. step[e] \in Suspended /\ UNCHANGED lookups
    BY <1>1, Zenon DEF Reply, submit_sm_resp_dlr_callback, QueueMsgidMapped, QueueMsgidExpirySet,
       DlrMapRemoved, deliver_sm_dlr_callback, ReceiptMapFetched, RedisFails, Suspended
  <2>2. d # e
    BY <2>1 DEF Suspended
  <2>3. \/ RetryOrReject(e) \/ ackMessage(e) \/ rejectMessage(e)
        \/ \E s : Continue(e, s)
    BY <1>1, Zenon DEF Reply, submit_sm_resp_dlr_callback, QueueMsgidMapped, QueueMsgidExpirySet,
       DlrMapRemoved, deliver_sm_dlr_callback, ReceiptMapFetched, RedisFails
  <2>4. \E s : step' = [step EXCEPT ![e] = s]
    BY <2>3 DEF RetryOrReject, ackMessage, rejectMessage, Settled, Continue, rejectAndRequeueMessage
  <2>5. \E L : thrown' = thrown \cup ({e} \X L)
    <3>1. thrown = thrown \cup ({e} \X {})
      OBVIOUS
    <3>2. UNCHANGED thrown \/ \E L : thrown' = thrown \cup ({e} \X L)
      BY <1>1, Zenon DEF Reply, submit_sm_resp_dlr_callback, QueueMsgidMapped, QueueMsgidExpirySet,
         DlrMapRemoved, deliver_sm_dlr_callback, ReceiptMapFetched, RedisFails
    <3> QED BY <3>1, <3>2, Zenon
  <2>6. step'[d] = step[d]
    BY <1>0, <2>2, <2>4
  <2>7. \A l \in Levels : <<d, l>> \in thrown' => <<d, l>> \in thrown
    BY <2>2, <2>5
  <2> QED BY <2>1, <2>6, <2>7, Zenon DEF LeavesAlone
<1>2. ASSUME NEW e \in Dlrs, submit_sm_resp_event(e) \/ deliver_sm_event(e) \/ dlr_callback_dispatcher(e)
      PROVE  LeavesAlone(d)
  <2>1. d # e
    BY <1>2, Zenon DEF submit_sm_resp_event, deliver_sm_event, dlr_callback_dispatcher
  <2>2. /\ \E s : step' = [step EXCEPT ![e] = s]
        /\ lookups' = lookups \/ lookups' = [lookups EXCEPT ![e] = @ + 1]
        /\ UNCHANGED thrown
    BY <1>2 DEF submit_sm_resp_event, deliver_sm_event, dlr_callback_dispatcher
  <2> QED BY <1>0, <2>1, <2>2 DEF LeavesAlone
<1>3. ASSUME NEW k \in Keys, RequeueTimerFires(k) PROVE LeavesAlone(d)
  <2>0. requeue_timers[k] \in Dlrs /\ step[requeue_timers[k]] = "parked"
    BY <1>0, <1>3, Zenon DEF RequeueTimerFires, TypeOK, TimerHoldsItsDlr
  <2>1. PICK e \in Dlrs : e = requeue_timers[k] /\ step[e] = "parked"
    BY <2>0, Zenon
  <2>2. step' = [step EXCEPT ![e] = "ready"] /\ UNCHANGED <<lookups, thrown>>
    BY <1>3, <2>1 DEF RequeueTimerFires
  <2> QED BY <1>0, <2>1, <2>2 DEF LeavesAlone
<1>4. ASSUME NEW m \in Msgs, perspective_submit_sm(m) \/ DlrMapWritten(m) \/ MapExpires(m)
      PROVE  LeavesAlone(d)
  BY <1>4, Zenon DEF perspective_submit_sm, DlrMapWritten, MapExpires, LeavesAlone
<1>5. CASE UNCHANGED vars
  BY <1>5 DEF vars, LeavesAlone
<1> QED BY <1>1, <1>2, <1>3, <1>4, <1>5 DEF Next

\* RequeueTimerFires, rejectAndRequeueMessage: contents of one message-id share a
\* timer, and still no timer gives back a content that ackMessage or rejectMessage
\* has settled, so that none is published after it was settled.
THEOREM SettledDlrStays == Spec => SettledDlrIsFinal
<1>1. IInv /\ [Next]_vars =>
        [\A d \in Dlrs : step[d] \in {"acked", "rejected"} =>
            /\ step'[d] = step[d] /\ lookups'[d] = lookups[d]
            /\ \A l \in Levels : <<d, l>> \in thrown' => <<d, l>> \in thrown]_vars
  BY SettledIsLeftAlone, Zenon DEF LeavesAlone
<1> QED BY <1>1, LookupInvariance, PTL DEF Spec, SettledDlrIsFinal

=============================================================================
