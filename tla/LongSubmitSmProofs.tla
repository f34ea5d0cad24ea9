------------------------- MODULE LongSubmitSmProofs -------------------------
(***************************************************************************)
(* Proofs about LongSubmitSm, for any messages, contents and range of      *)
(* reference numbers: a long message is waited for exactly while its       *)
(* transaction is open, messages that share a number included; its parts   *)
(* are its content; and what counts as answered had every part answered.   *)
(***************************************************************************)
EXTENDS LongSubmitSm, FiniteSetTheorems, TLAPS

Txns == [msg : Msgs, nack_count : Int]
Long(m) == content[m] # None /\ IsLong(content[m])

\* Types, and what was sent has been submitted.
Shape ==
    /\ lastLongMsgRefNum \in 0 .. MaxRef
    /\ content = [m \in Msgs |-> content[m]]
    /\ ref \in [Msgs -> 0 .. MaxRef]
    /\ req = [m \in Msgs |-> req[m]]
    /\ longSubmitSmTxns \in [Refs -> Txns \cup {None}]
    /\ \A t \in outbound : t.msg \in Msgs /\ content[t.msg] # None
    /\ \A m \in Msgs : Long(m) => ref[m] \in Refs
    /\ \A m \in Msgs : content[m] = None => req[m] = "none"
    /\ \A m \in Msgs : content[m] \in Contents[m] \cup {None}

\* An open transaction is that of its message, and is waited for.
TxnInv(r) ==
    longSubmitSmTxns[r] # None =>
        LET m == longSubmitSmTxns[r].msg
        IN  Long(m) /\ ref[m] = r /\ req[m] = "sent"

\* A long message that is waited for has an open transaction.
MsgInv(m) ==
    Long(m) /\ req[m] = "sent" =>
        longSubmitSmTxns[ref[m]] # None /\ longSubmitSmTxns[ref[m]].msg = m

AwaitInv == Shape /\ (\A r \in Refs : TxnInv(r)) /\ (\A m \in Msgs : MsgInv(m))

LEMMA InitAwait == Init => AwaitInv
  BY SubmitConstants DEF Init, AwaitInv, Shape, TxnInv, MsgInv, Long, Refs

\* 255 is followed by 1: a reference number is never 0.
LEMMA ClaimedIsRef == Shape => claimLongMsgRefNum \in Refs
  BY SubmitConstants DEF Shape, claimLongMsgRefNum, Refs

\* A message other than a long one in flight changes its standing.
LEMMA ReqOnly ==
    ASSUME AwaitInv, NEW m \in Msgs, NEW s, req' = [req EXCEPT ![m] = s],
           content[m] # None, ~Long(m) \/ (req[m] # "sent" /\ s # "sent"),
           UNCHANGED <<factory, longSubmitSmTxns>>,
           \A t \in outbound' : t \in outbound \/ t.msg = m
    PROVE  AwaitInv'
  <1>1. /\ UNCHANGED <<lastLongMsgRefNum, content, ref>>
        /\ \A n \in Msgs : req'[n] = IF n = m THEN s ELSE req[n]
    BY DEF factory, AwaitInv, Shape
  <1>2. Shape'
    BY <1>1 DEF AwaitInv, Shape, Long
  <1>3. ASSUME NEW r \in Refs PROVE TxnInv(r)'
    BY <1>1 DEF AwaitInv, Shape, TxnInv, Long, Txns
  <1>4. ASSUME NEW n \in Msgs PROVE MsgInv(n)'
    BY <1>1 DEF AwaitInv, MsgInv, Long
  <1>. QED BY <1>2, <1>3, <1>4 DEF AwaitInv

\* A transaction is closed, and its message told.
LEMMA CloseTold ==
    ASSUME AwaitInv, NEW r \in Refs, NEW s, s # "sent", longSubmitSmTxns[r] # None,
           longSubmitSmTxns' = closeLongSubmitSmTransaction(r),
           req' = [req EXCEPT ![longSubmitSmTxns[r].msg] = s],
           UNCHANGED factory, outbound' \subseteq outbound
    PROVE  AwaitInv'
  <1>1. PICK m \in Msgs : m = longSubmitSmTxns[r].msg
    BY DEF AwaitInv, Shape, Txns
  <1>2. /\ UNCHANGED <<lastLongMsgRefNum, content, ref>>
        /\ \A n \in Msgs : req'[n] = IF n = m THEN s ELSE req[n]
        /\ \A q \in Refs : longSubmitSmTxns'[q] = IF q = r THEN None ELSE longSubmitSmTxns[q]
    BY <1>1 DEF factory, AwaitInv, Shape, closeLongSubmitSmTransaction
  <1>3. Long(m) /\ ref[m] = r
    BY <1>1 DEF AwaitInv, TxnInv
  <1>4. Shape'
    BY <1>1, <1>2, <1>3, Zenon DEF AwaitInv, Shape, Long, closeLongSubmitSmTransaction
  <1>5. ASSUME NEW q \in Refs PROVE TxnInv(q)'
    BY <1>2, <1>3 DEF AwaitInv, Shape, TxnInv, Long, Txns
  <1>6. ASSUME NEW n \in Msgs PROVE MsgInv(n)'
    BY <1>1, <1>2, <1>3 DEF AwaitInv, Shape, MsgInv, Long
  <1>. QED BY <1>4, <1>5, <1>6 DEF AwaitInv

\* A message has a finite number of parts.
LEMMA SegmentsCounted ==
    ASSUME NEW m \in Msgs, content[m] \in Contents[m]
    PROVE  IsFiniteSet(Segments(m)) /\ Cardinality(Segments(m)) \in Int
  <1>1. PICK c : c = content[m] /\ c.bits \in {7, 8, 16} /\ c.len \in Nat
    BY SubmitConstants
  <1>2. PICK w \in {134, 153} : w = slicedMaxSmLength(c.bits) * Width(c.bits)
    BY <1>1 DEF slicedMaxSmLength, Width
  <1>3. PICK d \in Int : d = CeilDiv(c.len, w)
    BY <1>1, <1>2 DEF CeilDiv
  <1>4. Min({MaxParts, d}) \in Int
    <2>1. MaxParts \in Int
      BY SubmitConstants
    <2>2. \E x \in {MaxParts, d} : \A y \in {MaxParts, d} : x =< y
      BY <1>3, <2>1
    <2>3. Min({MaxParts, d}) \in {MaxParts, d}
      BY <2>2 DEF Min
    <2>. QED BY <1>3, <2>1, <2>3
  <1>5. total_segments(c) \in Int
    BY <1>2, <1>3, <1>4 DEF total_segments
  <1>6. PICK k \in Int : Segments(m) = 1 .. k
    BY <1>1, <1>5 DEF Segments
  <1>7. IsFiniteSet(1 .. k) /\ Cardinality(1 .. k) = IF 1 > k THEN 0 ELSE k - 1 + 1
    BY FS_Interval
  <1>. QED BY <1>6, <1>7

LEMMA SubmitKeeps ==
    ASSUME AwaitInv, NEW m \in Msgs, SubmitSM(m)
    PROVE  AwaitInv'
  <1>1. PICK c \in Contents[m] :
          /\ content' = [content EXCEPT ![m] = c]
          /\ IF IsLong(c)
             THEN /\ lastLongMsgRefNum' = claimLongMsgRefNum
                  /\ ref' = [ref EXCEPT ![m] = claimLongMsgRefNum]
             ELSE UNCHANGED <<lastLongMsgRefNum, ref>>
    BY Zenon DEF SubmitSM
  <1>2. /\ req[m] = "none" /\ req' = [req EXCEPT ![m] = "queued"]
        /\ UNCHANGED <<outbound, longSubmitSmTxns>> /\ c # None
    BY SubmitConstants DEF SubmitSM
  <1>3. claimLongMsgRefNum \in Refs /\ Refs \subseteq 0 .. MaxRef
    BY ClaimedIsRef DEF AwaitInv, Refs
  <1>4. /\ \A n \in Msgs \ {m} : content'[n] = content[n] /\ req'[n] = req[n] /\ ref'[n] = ref[n]
        /\ content'[m] = c /\ req'[m] = "queued"
        /\ IsLong(c) => ref'[m] = claimLongMsgRefNum
    BY <1>1, <1>2 DEF AwaitInv, Shape
  <1>5. Shape'
    <2>1. ref' \in [Msgs -> 0 .. MaxRef] /\ lastLongMsgRefNum' \in 0 .. MaxRef
      BY <1>1, <1>3 DEF AwaitInv, Shape
    <2>2. \A n \in Msgs : Long(n)' => ref'[n] \in Refs
      BY <1>3, <1>4 DEF AwaitInv, Shape, Long
    <2>3. \A n \in Msgs : content'[n] = None => req'[n] = "none"
      BY <1>2, <1>4 DEF AwaitInv, Shape
    <2>. QED BY <1>1, <1>2, <2>1, <2>2, <2>3, Zenon DEF AwaitInv, Shape
  <1>6. ASSUME NEW r \in Refs PROVE TxnInv(r)'
    <2>1. CASE longSubmitSmTxns[r] = None
      BY <1>2, <2>1 DEF TxnInv
    <2>2. CASE longSubmitSmTxns[r] # None
      <3>1. PICK n \in Msgs : n = longSubmitSmTxns[r].msg
        BY <2>2 DEF AwaitInv, Shape, Txns
      <3>2. Long(n) /\ ref[n] = r /\ req[n] = "sent"
        BY <2>2, <3>1 DEF AwaitInv, TxnInv
      <3>. QED BY <1>2, <1>4, <3>1, <3>2 DEF TxnInv, Long
    <2>. QED BY <2>1, <2>2
  <1>7. ASSUME NEW n \in Msgs PROVE MsgInv(n)'
    BY <1>2, <1>4 DEF AwaitInv, MsgInv, Long
  <1>. QED BY <1>5, <1>6, <1>7 DEF AwaitInv

LEMMA SendKeeps ==
    ASSUME AwaitInv, NEW m \in Msgs, doSendRequest(m)
    PROVE  AwaitInv'
  <1>0. req[m] = "queued" /\ content[m] # None /\ UNCHANGED factory
    BY DEF AwaitInv, Shape, doSendRequest
  <1>1. CASE /\ ~IsLong(content[m])
             /\ outbound' = outbound \cup {Part(m, 1)}
             /\ req' = [req EXCEPT ![m] = "sent"]
             /\ UNCHANGED longSubmitSmTxns
    <2>1. \A t \in outbound' : t \in outbound \/ t.msg = m
      BY <1>1 DEF Part
    <2>. QED BY <1>0, <1>1, <2>1, ReqOnly, Zenon DEF Long
  <1>2. CASE /\ IsLong(content[m]) /\ longSubmitSmTxns[ref[m]] # None
             /\ outbound' = outbound \cup {Part(m, 1)}
             /\ req' = [req EXCEPT ![m] = "requeued"]
             /\ UNCHANGED longSubmitSmTxns
    <2>1. \A t \in outbound' : t \in outbound \/ t.msg = m
      BY <1>2 DEF Part
    <2>. QED BY <1>0, <1>2, <2>1, ReqOnly, Zenon
  <1>3. CASE /\ IsLong(content[m]) /\ longSubmitSmTxns[ref[m]] = None
             /\ outbound' = outbound \cup {Part(m, k) : k \in Segments(m)}
             /\ longSubmitSmTxns' = [longSubmitSmTxns EXCEPT ![ref[m]] = startLongSubmitSmTransaction(m)]
             /\ req' = [req EXCEPT ![m] = "sent"]
    <2>1. PICK txn : txn = startLongSubmitSmTransaction(m)
      OBVIOUS
    <2>2. txn \in Txns /\ txn # None /\ txn.msg = m
      <3>1. Cardinality(Segments(m)) \in Int
        BY <1>0, SegmentsCounted DEF AwaitInv, Shape
      <3>. QED BY <2>1, <3>1, SubmitConstants DEF startLongSubmitSmTransaction, Txns
    <2>3. Long(m) /\ ref[m] \in Refs
      BY <1>0, <1>3 DEF AwaitInv, Shape, Long
    <2>4. /\ UNCHANGED <<lastLongMsgRefNum, content, ref>>
          /\ \A n \in Msgs : req'[n] = IF n = m THEN "sent" ELSE req[n]
          /\ \A q \in Refs : longSubmitSmTxns'[q] = IF q = ref[m] THEN txn ELSE longSubmitSmTxns[q]
      BY <1>0, <1>3, <2>1 DEF factory, AwaitInv, Shape
    <2>5. \A t \in outbound' : t.msg \in Msgs /\ content[t.msg] # None
      BY <1>0, <1>3 DEF Part, AwaitInv, Shape
    <2>6. Shape'
      BY <1>0, <1>3, <2>1, <2>2, <2>4, <2>5 DEF AwaitInv, Shape, Long
    <2>7. ASSUME NEW q \in Refs PROVE TxnInv(q)'
      <3>1. CASE q = ref[m]
        BY <2>2, <2>3, <2>4, <3>1 DEF TxnInv, Long
      <3>2. CASE q # ref[m] /\ longSubmitSmTxns[q] # None
        <4>1. PICK n \in Msgs : n = longSubmitSmTxns[q].msg
          BY <3>2 DEF AwaitInv, Shape, Txns
        <4>. QED BY <2>4, <3>2, <4>1 DEF AwaitInv, TxnInv, Long
      <3>3. CASE q # ref[m] /\ longSubmitSmTxns[q] = None
        BY <2>4, <3>3 DEF TxnInv
      <3>. QED BY <3>1, <3>2, <3>3
    <2>8. ASSUME NEW n \in Msgs PROVE MsgInv(n)'
      <3>1. CASE n = m
        BY <2>2, <2>3, <2>4, <3>1 DEF MsgInv
      <3>2. CASE n # m
        BY <1>3, <2>3, <2>4, <3>2 DEF AwaitInv, Shape, MsgInv, Long
      <3>. QED BY <3>1, <3>2
    <2>. QED BY <2>6, <2>7, <2>8 DEF AwaitInv
  <1>. QED BY <1>1, <1>2, <1>3 DEF doSendRequest

\* Steps that leave messages and transactions alone.
LEMMA NothingTold ==
    ASSUME AwaitInv, UNCHANGED <<content, ref, req, longSubmitSmTxns>>,
           lastLongMsgRefNum' \in 0 .. MaxRef, outbound' \subseteq outbound
    PROVE  AwaitInv'
  <1>1. Shape'
    BY DEF AwaitInv, Shape, Long
  <1>2. ASSUME NEW r \in Refs PROVE TxnInv(r)'
    BY DEF AwaitInv, TxnInv, Long
  <1>3. ASSUME NEW m \in Msgs PROVE MsgInv(m)'
    BY DEF AwaitInv, MsgInv, Long
  <1>. QED BY <1>1, <1>2, <1>3 DEF AwaitInv

\* An answer that is not the last one only counts down.
LEMMA CountDown ==
    ASSUME AwaitInv, NEW r \in Refs, longSubmitSmTxns[r] # None,
           longSubmitSmTxns' = [longSubmitSmTxns EXCEPT ![r].nack_count = @ - 1],
           UNCHANGED <<factory, req>>, outbound' \subseteq outbound
    PROVE  AwaitInv'
  <1>1. longSubmitSmTxns[r] \in Txns
    BY DEF AwaitInv, Shape
  <1>2. PICK txn : txn = [longSubmitSmTxns[r] EXCEPT !.nack_count = @ - 1]
    BY Zenon
  <1>3. txn \in Txns /\ txn.msg = longSubmitSmTxns[r].msg
    BY <1>1, <1>2 DEF Txns
  <1>4. /\ longSubmitSmTxns' \in [Refs -> Txns \cup {None}]
        /\ \A q \in Refs : longSubmitSmTxns'[q] = IF q = r THEN txn ELSE longSubmitSmTxns[q]
    BY <1>2, <1>3 DEF AwaitInv, Shape
  <1>5. txn # None
    BY <1>3, SubmitConstants DEF Txns
  <1>6. UNCHANGED <<lastLongMsgRefNum, content, ref>>
    BY DEF factory
  <1>7. Shape'
    BY <1>4, <1>6 DEF AwaitInv, Shape, Long
  <1>8. ASSUME NEW q \in Refs PROVE TxnInv(q)'
    BY <1>3, <1>4, <1>5, <1>6 DEF AwaitInv, TxnInv, Long
  <1>9. ASSUME NEW m \in Msgs PROVE MsgInv(m)'
    BY <1>3, <1>4, <1>5, <1>6 DEF AwaitInv, Shape, MsgInv, Long
  <1>. QED BY <1>7, <1>8, <1>9 DEF AwaitInv

\* The answer to a part or to a short message.
LEMMA AnswerKeeps ==
    ASSUME AwaitInv, NEW t \in outbound, NEW status \in {"ok", "error"}, endOutboundTransaction(t, status)
    PROVE  AwaitInv'
  <1>0. t.msg \in Msgs /\ content[t.msg] # None /\ outbound' \subseteq outbound /\ UNCHANGED factory
    BY DEF AwaitInv, Shape, endOutboundTransaction
  <1>1. CASE ~IsLong(content[t.msg])
    <2>1. req' = [req EXCEPT ![t.msg] = status] /\ UNCHANGED longSubmitSmTxns
      BY <1>1 DEF endOutboundTransaction
    <2>. QED BY <1>0, <1>1, <2>1, ReqOnly, Zenon DEF Long
  <1>2. CASE IsLong(content[t.msg])
    <2>1. PICK r \in Refs : r = ref[t.msg]
      BY <1>0, <1>2 DEF AwaitInv, Shape, Long
    <2>2. endLongSubmitSmTransaction(r, status)
      BY <1>2, <2>1 DEF endOutboundTransaction
    <2>3. CASE UNCHANGED <<longSubmitSmTxns, req>>
      BY <1>0, <2>3, NothingTold DEF factory, AwaitInv, Shape
    <2>4. CASE /\ longSubmitSmTxns[r] # None
               /\ longSubmitSmTxns' = [longSubmitSmTxns EXCEPT ![r].nack_count = @ - 1]
               /\ UNCHANGED req
      BY <1>0, <2>4, CountDown, Zenon
    <2>5. CASE /\ longSubmitSmTxns[r] # None
               /\ longSubmitSmTxns' = closeLongSubmitSmTransaction(r)
               /\ req' = [req EXCEPT ![longSubmitSmTxns[r].msg] = status]
      BY <1>0, <2>5, CloseTold, Zenon
    <2>. QED BY <2>2, <2>3, <2>4, <2>5 DEF endLongSubmitSmTransaction
  <1>. QED BY <1>1, <1>2

\* The end of a connection: everyone who waits is told.
LEMMA CancelKeeps ==
    ASSUME AwaitInv, NEW out, FailRequests(out)
    PROVE  AwaitInv'
  <1>1. /\ UNCHANGED <<lastLongMsgRefNum, content, ref>> /\ outbound' = {}
        /\ longSubmitSmTxns' = [r \in Refs |-> None]
    BY DEF FailRequests, factory
  <1>2. ASSUME NEW m \in Msgs
        PROVE  /\ req'[m] \in {"rejected", req[m]}
               /\ (\E r \in Refs : longSubmitSmTxns[r] # None /\ longSubmitSmTxns[r].msg = m) => req'[m] = "rejected"
               /\ content[m] = None => req'[m] = req[m]
    <2>1. req'[m] = IF \/ \E r \in Refs : longSubmitSmTxns[r] # None /\ longSubmitSmTxns[r].msg = m
                       \/ /\ content[m] # None /\ ~IsLong(content[m])
                          /\ \E t \in out : t.msg = m
                    THEN "rejected" ELSE req[m]
      BY DEF FailRequests
    <2>2. ASSUME NEW r \in Refs, longSubmitSmTxns[r] # None, longSubmitSmTxns[r].msg = m
          PROVE  content[m] # None
      BY <2>2 DEF AwaitInv, TxnInv, Long
    <2>. QED BY <2>1, <2>2
  <1>3. req' = [m \in Msgs |-> req'[m]]
    BY DEF FailRequests
  <1>4. Shape'
    BY <1>1, <1>2, <1>3 DEF AwaitInv, Shape, Long
  <1>5. ASSUME NEW r \in Refs PROVE TxnInv(r)'
    BY <1>1 DEF TxnInv
  <1>6. ASSUME NEW m \in Msgs PROVE MsgInv(m)'
    <2>1. ASSUME Long(m), req[m] = "sent" PROVE req'[m] = "rejected"
      BY <1>2, <2>1 DEF AwaitInv, Shape, MsgInv
    <2>. QED BY <1>1, <1>2, <2>1 DEF MsgInv, Long
  <1>. QED BY <1>4, <1>5, <1>6 DEF AwaitInv

LEMMA NextKeepsAwait ==
    ASSUME AwaitInv, [Next]_vars
    PROVE  AwaitInv'
  <1>0. Shape
    BY DEF AwaitInv
  <1>1. ASSUME NEW m \in Msgs, RefusedRequest(m) PROVE AwaitInv'
    <2>1. /\ req[m] = "queued" /\ req' = [req EXCEPT ![m] = "rejected"] /\ content[m] # None
          /\ UNCHANGED <<factory, longSubmitSmTxns, outbound>>
      BY <1>0, <1>1 DEF RefusedRequest, Shape
    <2>. QED BY <2>1, ReqOnly, Zenon
  <1>2. ASSUME NEW m \in Msgs, Requeue(m) PROVE AwaitInv'
    <2>1. /\ req[m] \in {"requeued", "error"} /\ req' = [req EXCEPT ![m] = "queued"] /\ content[m] # None
          /\ UNCHANGED <<factory, longSubmitSmTxns, outbound>>
      BY <1>0, <1>2 DEF Requeue, Shape
    <2>. QED BY <2>1, ReqOnly, Zenon
  <1>3. CASE ClaimedElsewhere
    <2>1. claimLongMsgRefNum \in 0 .. MaxRef
      BY <1>0, ClaimedIsRef DEF Refs
    <2>. QED BY <1>3, <2>1, NothingTold DEF ClaimedElsewhere
  <1>4. ASSUME NEW t \in outbound, GenericNackReceived(t) PROVE AwaitInv'
    BY <1>4, CancelKeeps DEF GenericNackReceived
  <1>5. ASSUME NEW t \in outbound, onResponseTimeout(t) PROVE AwaitInv'
    <2>1. t.msg \in Msgs /\ content[t.msg] # None /\ outbound' \subseteq outbound
          /\ UNCHANGED <<factory, longSubmitSmTxns>>
      BY <1>0, <1>5 DEF onResponseTimeout, Shape
    <2>2. CASE IsLong(content[t.msg])
      BY <1>0, <1>5, <2>1, <2>2, NothingTold DEF onResponseTimeout, factory, Shape
    <2>3. CASE ~IsLong(content[t.msg])
      BY <1>5, <2>1, <2>3, ReqOnly, Zenon DEF onResponseTimeout, Long
    <2>. QED BY <2>2, <2>3
  <1>6. ASSUME NEW r \in Refs, onLongSubmitSmTransactionTimeout(r) PROVE AwaitInv'
    BY <1>6, CloseTold, Zenon DEF onLongSubmitSmTransactionTimeout
  <1>7. CASE Reconnect \/ UNCHANGED vars
    BY <1>0, <1>7, NothingTold DEF Reconnect, vars, factory, Shape
  <1>8. CASE Response
    BY <1>4, <1>8, AnswerKeeps DEF Response
  <1>9. CASE cancelOutboundTransactions
    BY <1>9, CancelKeeps DEF cancelOutboundTransactions
  <1>. QED BY <1>1, <1>2, <1>3, <1>5, <1>6, <1>7, <1>8, <1>9, SubmitKeeps, SendKeeps DEF Next

\* The listener waits for a long message exactly while its transaction is open:
\* the three callers of closeLongSubmitSmTransaction tell each message once, also
\* when two messages have one reference number.
THEOREM AwaitedIsOpen == Spec => []OpenIsAwaited
  <1>1. AwaitInv /\ [Next]_vars => AwaitInv'
    BY NextKeepsAwait
  <1>2. AwaitInv => OpenIsAwaited
    <2>. SUFFICES ASSUME AwaitInv, NEW m \in Msgs, Long(m)
                  PROVE  /\ req[m] = "sent" <=> longSubmitSmTxns[ref[m]] # None
                                                /\ longSubmitSmTxns[ref[m]].msg = m
                         /\ \A r \in Refs : longSubmitSmTxns[r] # None /\ longSubmitSmTxns[r].msg = m => r = ref[m]
      BY DEF OpenIsAwaited, Long
    <2>. QED BY DEF AwaitInv, Shape, TxnInv, MsgInv
  <1>. QED BY InitAwait, <1>1, <1>2, PTL DEF Spec

-----------------------------------------------------------------------------
(* The parts of a message, for every length. *)

LEMMA MinOfTwo ==
    ASSUME NEW a \in Int, NEW b \in Int
    PROVE  Min({a, b}) = IF a =< b THEN a ELSE b
  <1>1. \E x \in {a, b} : \A y \in {a, b} : x =< y
    OBVIOUS
  <1>2. Min({a, b}) \in {a, b} /\ \A y \in {a, b} : Min({a, b}) =< y
    BY <1>1 DEF Min
  <1>. QED BY <1>2

\* Rounding up.
LEMMA Ceiling ==
    ASSUME NEW len \in Nat \ {0}, NEW w \in {134, 153}
    PROVE  \E d \in Nat \ {0} : d = CeilDiv(len, w) /\ len =< w * d /\ w * (d - 1) < len
  <1>1. CASE w = 134
    BY <1>1 DEF CeilDiv
  <1>2. CASE w = 153
    BY <1>2 DEF CeilDiv
  <1>. QED BY <1>1, <1>2

\* The first and the last byte of a full slice.
Lo(w, k) == w * (k - 1) + 1
Hi(w, k) == w * k

\* d slices are needed, and n are made, because there may be no more than P.
Cut(len, w, P, n, d) ==
    len =< w * d /\ w * (d - 1) < len /\ n = IF P =< d THEN P ELSE d

\* The slices follow each other without a gap, and none of them is empty.
Sliced(len, w, P, n) ==
    /\ \A k \in 1 .. n : /\ Lo(w, k) \in Nat \ {0} /\ Hi(w, k) \in Nat
                         /\ Hi(w, k) = Lo(w, k) + w - 1
                         /\ Lo(w, k) =< len /\ Hi(w, k) =< Hi(w, P)
    /\ \A k, l \in 1 .. n : k < l => Hi(w, k) < Lo(w, l)
    /\ \A x \in 1 .. len : x =< Hi(w, P) => \E k \in 1 .. n : Lo(w, k) =< x /\ x =< Hi(w, k)

LEMMA Slicing ==
    ASSUME NEW len \in Nat \ {0}, NEW w \in {134, 153}, NEW P \in Nat \ {0}, NEW n \in Nat \ {0},
           NEW d \in Nat \ {0}, Cut(len, w, P, n, d)
    PROVE  Sliced(len, w, P, n)
  <1>0. len =< w * d /\ w * (d - 1) < len /\ n =< d /\ n =< P /\ n \in {d, P}
    BY DEF Cut
  <1>1. CASE w = 134
    <2>1. \A k \in 1 .. n : /\ Lo(w, k) \in Nat \ {0} /\ Hi(w, k) \in Nat
                            /\ Hi(w, k) = Lo(w, k) + w - 1
                            /\ Lo(w, k) =< len /\ Hi(w, k) =< Hi(w, P)
      BY <1>0, <1>1 DEF Lo, Hi
    <2>2. \A k, l \in 1 .. n : k < l => Hi(w, k) < Lo(w, l)
      BY <1>1 DEF Lo, Hi
    <2>3. ASSUME NEW x \in 1 .. len, x =< Hi(w, P)
          PROVE  \E k \in 1 .. n : Lo(w, k) =< x /\ x =< Hi(w, k)
      <3>1. PICK k \in Nat \ {0} : x =< w * k /\ w * (k - 1) < x
        <4>1. x \in Nat \ {0}
          OBVIOUS
        <4>. QED BY <4>1, Ceiling, Zenon
      <3>2. k =< d /\ k =< P
        BY <1>0, <1>1, <2>3, <3>1 DEF Hi
      <3>3. k \in 1 .. n /\ Lo(w, k) =< x /\ x =< Hi(w, k)
        BY <1>0, <1>1, <3>1, <3>2 DEF Lo, Hi
      <3>. QED BY <3>3
    <2>. QED BY <2>1, <2>2, <2>3 DEF Sliced
  <1>2. CASE w = 153
    <2>1. \A k \in 1 .. n : /\ Lo(w, k) \in Nat \ {0} /\ Hi(w, k) \in Nat
                            /\ Hi(w, k) = Lo(w, k) + w - 1
                            /\ Lo(w, k) =< len /\ Hi(w, k) =< Hi(w, P)
      BY <1>0, <1>2 DEF Lo, Hi
    <2>2. \A k, l \in 1 .. n : k < l => Hi(w, k) < Lo(w, l)
      BY <1>2 DEF Lo, Hi
    <2>3. ASSUME NEW x \in 1 .. len, x =< Hi(w, P)
          PROVE  \E k \in 1 .. n : Lo(w, k) =< x /\ x =< Hi(w, k)
      <3>1. PICK k \in Nat \ {0} : x =< w * k /\ w * (k - 1) < x
        <4>1. x \in Nat \ {0}
          OBVIOUS
        <4>. QED BY <4>1, Ceiling, Zenon
      <3>2. k =< d /\ k =< P
        BY <1>0, <1>2, <2>3, <3>1 DEF Hi
      <3>3. k \in 1 .. n /\ Lo(w, k) =< x /\ x =< Hi(w, k)
        BY <1>0, <1>2, <3>1, <3>2 DEF Lo, Hi
      <3>. QED BY <3>3
    <2>. QED BY <2>1, <2>2, <2>3 DEF Sliced
  <1>. QED BY <1>1, <1>2

\* What PartsAreContent says of one content, in n parts of at most w bytes.
Whole(c, w, n) ==
    /\ \A k \in 1 .. n : c.len > 0 => Slice(c, k) # {}
    /\ \A k, l \in 1 .. n : k # l => Slice(c, k) \cap Slice(c, l) = {}
    /\ UNION {Slice(c, k) : k \in 1 .. n} =
           1 .. (IF IsLong(c) THEN Min({c.len, MaxParts * w}) ELSE c.len)
    /\ IsLong(c) => \A k \in 1 .. n :
           Cardinality(Slice(c, k)) + 6 <= maxSmLength(c.bits) * Width(c.bits)

SliceWidth(c) == slicedMaxSmLength(c.bits) * Width(c.bits)

LEMMA ShortIsWhole ==
    ASSUME NEW c, c.len \in Nat, ~IsLong(c)
    PROVE  Whole(c, SliceWidth(c), total_segments(c))
  <1>1. total_segments(c) = 1 /\ 1 .. total_segments(c) = {1}
    BY DEF total_segments
  <1>2. \A k \in {1} : Slice(c, k) = 1 .. c.len
    BY DEF Slice
  <1>3. c.len > 0 => 1 .. c.len # {}
    OBVIOUS
  <1>. QED BY <1>1, <1>2, <1>3 DEF Whole

LEMMA LongIsWhole ==
    ASSUME NEW c, c.len \in Nat, c.bits \in {7, 8, 16}, IsLong(c)
    PROVE  Whole(c, SliceWidth(c), total_segments(c))
  <1>1. PICK w \in {134, 153} :
          /\ w = slicedMaxSmLength(c.bits) * Width(c.bits)
          /\ w + 6 <= maxSmLength(c.bits) * Width(c.bits)
          /\ maxSmLength(c.bits) * Width(c.bits) \in Nat
          /\ c.len > w
    BY DEF slicedMaxSmLength, maxSmLength, Width, IsLong
  <1>2. PICK len \in Nat \ {0} : len = c.len
    BY <1>1
  <1>3. PICK d \in Nat \ {0} : d = CeilDiv(len, w) /\ len =< w * d /\ w * (d - 1) < len
    BY Ceiling
  <1>4. PICK n \in Nat \ {0} : n = IF MaxParts =< d THEN MaxParts ELSE d
    BY SubmitConstants
  <1>5. MaxParts \in Nat \ {0}
    BY SubmitConstants
  <1>6. total_segments(c) = n
    <2>1. Min({MaxParts, d}) = n
      BY <1>4, <1>5, MinOfTwo
    <2>. QED BY <1>1, <1>2, <1>3, <2>1 DEF total_segments
  <1>7. /\ \A k \in 1 .. n : /\ Lo(w, k) \in Nat \ {0} /\ Hi(w, k) \in Nat
                             /\ Hi(w, k) = Lo(w, k) + w - 1
                             /\ Lo(w, k) =< len /\ Hi(w, k) =< Hi(w, MaxParts)
        /\ \A k, l \in 1 .. n : k < l => Hi(w, k) < Lo(w, l)
        /\ \A x \in 1 .. len : x =< Hi(w, MaxParts) => \E k \in 1 .. n : Lo(w, k) =< x /\ x =< Hi(w, k)
    <2>1. Cut(len, w, MaxParts, n, d)
      BY <1>3, <1>4 DEF Cut
    <2>2. Sliced(len, w, MaxParts, n)
      BY <1>5, <2>1, Slicing
    <2>. QED BY <2>2 DEF Sliced
  <1>8. ASSUME NEW k \in 1 .. n
        PROVE  /\ Slice(c, k) = Lo(w, k) .. (IF Hi(w, k) =< len THEN Hi(w, k) ELSE len)
               /\ \A x : x \in Slice(c, k) <=> x \in Int /\ Lo(w, k) =< x /\ x =< Hi(w, k) /\ x =< len
    <2>1. Slice(c, k) = Lo(w, k) .. Min({Hi(w, k), len})
      BY <1>1, <1>2 DEF Slice, Lo, Hi
    <2>2. Min({Hi(w, k), len}) = IF Hi(w, k) =< len THEN Hi(w, k) ELSE len
      BY <1>7, MinOfTwo
    <2>3. PICK a, h \in Nat : a = Lo(w, k) /\ h = Hi(w, k)
      BY <1>7
    <2>4. \A x : x \in a .. (IF h =< len THEN h ELSE len) <=> x \in Int /\ a =< x /\ x =< h /\ x =< len
      OBVIOUS
    <2>. QED BY <2>1, <2>2, <2>3, <2>4, Zenon
  <1>9. \A k \in 1 .. n : Slice(c, k) # {}
    <2>1. ASSUME NEW k \in 1 .. n PROVE Lo(w, k) \in Slice(c, k)
      BY <1>7, <1>8
    <2>. QED BY <2>1
  <1>10. ASSUME NEW k \in 1 .. n, NEW l \in 1 .. n, k < l PROVE Slice(c, k) \cap Slice(c, l) = {}
    <2>1. ASSUME NEW x, x \in Slice(c, k), x \in Slice(c, l) PROVE FALSE
      <3>1. x \in Int /\ x =< Hi(w, k) /\ Lo(w, l) =< x
        BY <1>8, <2>1
      <3>2. Hi(w, k) < Lo(w, l) /\ Hi(w, k) \in Nat /\ Lo(w, l) \in Nat
        BY <1>7, <1>10
      <3>. QED BY <3>1, <3>2
    <2>. QED BY <2>1
  <1>11. \A k, l \in 1 .. n : k # l => Slice(c, k) \cap Slice(c, l) = {}
    <2>1. ASSUME NEW k \in 1 .. n, NEW l \in 1 .. n, k # l PROVE Slice(c, k) \cap Slice(c, l) = {}
      <3>1. k < l \/ l < k
        BY <2>1
      <3>. QED BY <1>10, <3>1
    <2>. QED BY <2>1
  <1>12. UNION {Slice(c, k) : k \in 1 .. n} = 1 .. Min({len, MaxParts * w})
    <2>1. PICK p \in Nat : p = Hi(w, MaxParts) /\ p = MaxParts * w
      <3>1. w * MaxParts \in Nat /\ w * MaxParts = MaxParts * w
        BY <1>5
      <3>. QED BY <3>1 DEF Hi
    <2>2. Min({len, p}) = IF len =< p THEN len ELSE p
      BY MinOfTwo
    <2>3. ASSUME NEW k \in 1 .. n, NEW x \in Slice(c, k) PROVE x \in 1 .. Min({len, p})
      <3>1. x \in Int /\ Lo(w, k) =< x /\ x =< Hi(w, k) /\ x =< len
        BY <1>8, <2>3
      <3>2. Lo(w, k) \in Nat \ {0} /\ Hi(w, k) \in Nat /\ Hi(w, k) =< p
        BY <1>7, <2>1
      <3>. QED BY <2>2, <3>1, <3>2
    <2>4. ASSUME NEW x \in 1 .. Min({len, p}) PROVE \E k \in 1 .. n : x \in Slice(c, k)
      <3>1. x \in 1 .. len /\ x =< p
        BY <2>2
      <3>2. PICK k \in 1 .. n : Lo(w, k) =< x /\ x =< Hi(w, k)
        BY <1>7, <2>1, <3>1
      <3>3. x \in Slice(c, k)
        BY <1>7, <1>8, <3>1, <3>2
      <3>. QED BY <3>3
    <2>5. UNION {Slice(c, k) : k \in 1 .. n} = 1 .. Min({len, p})
      BY <2>3, <2>4
    <2>. QED BY <2>1, <2>5, Zenon
  <1>13. ASSUME NEW k \in 1 .. n PROVE Cardinality(Slice(c, k)) + 6 <= maxSmLength(c.bits) * Width(c.bits)
    <2>1. PICK a, h \in Nat : a = Lo(w, k) /\ h = (IF Hi(w, k) =< len THEN Hi(w, k) ELSE len)
      BY <1>7
    <2>2. Cardinality(a .. h) = IF a > h THEN 0 ELSE h - a + 1
      BY FS_Interval
    <2>3. h =< a + w - 1
      BY <1>7, <2>1
    <2>4. Cardinality(a .. h) \in Nat /\ Cardinality(a .. h) =< w
      BY <2>2, <2>3
    <2>5. Cardinality(Slice(c, k)) = Cardinality(a .. h)
      BY <1>8, <2>1
    <2>. QED BY <1>1, <2>4, <2>5
  <1>14. Whole(c, w, n)
    BY <1>2, <1>9, <1>11, <1>12, <1>13, Zenon DEF Whole
  <1>. QED BY <1>1, <1>6, <1>14 DEF SliceWidth

\* SMPPOperationFactory.SubmitSM cuts a message of any length into parts that are
\* the message again, or as much of it as long_content_max_parts parts hold.
THEOREM PartsMakeContent == Spec => []PartsAreContent
  <1>1. AwaitInv /\ [Next]_vars => AwaitInv'
    BY NextKeepsAwait
  <1>2. AwaitInv => PartsAreContent
    <2>1. ASSUME AwaitInv, NEW m \in Msgs, content[m] # None
          PROVE  Whole(content[m], SliceWidth(content[m]), total_segments(content[m]))
      <3>1. content[m].bits \in {7, 8, 16} /\ content[m].len \in Nat
        BY <2>1, SubmitConstants DEF AwaitInv, Shape
      <3>. QED BY <3>1, ShortIsWhole, LongIsWhole
    <2>. QED BY <2>1, Zenon DEF PartsAreContent, Whole, SliceWidth, Segments
  <1>. QED BY InitAwait, <1>1, <1>2, PTL DEF Spec

-----------------------------------------------------------------------------
(* The answers of the parts. *)

Clear(m) == \A t \in outbound : t.msg # m
Alone(m) == Long(m) => ~Shared(m)

\* The standing of a message whose reference number is its own.  While it is
\* waited for, only unanswered parts of this sending are out, and a long
\* message's transaction counts the parts without an answer; a message that
\* is queued again has nothing left on the connection.
StandInv(m) ==
    /\ req[m] \in {"none", "queued", "rejected"} => Clear(m)
    /\ req[m] = "requeued" =>
          \A t \in outbound : t.msg = m => Long(m) /\ t.part # 1 /\ t.send = sends[m]
    /\ req[m] \in {"ok", "error"} => Clear(m) /\ answered[m] = Segments(m)
    /\ req[m] = "sent" =>
          /\ answered[m] \subseteq Segments(m)
          /\ \A t \in outbound : t.msg = m => /\ t.send = sends[m]
                                              /\ t.part \in Segments(m) \ answered[m]
    /\ req[m] = "sent" /\ Long(m) =>
          longSubmitSmTxns[ref[m]].nack_count = Cardinality(Segments(m) \ answered[m])

\* A message that was not submitted has no reference number, so that a number
\* that is shared once stays shared.
PartInv(m) ==
    /\ req[m] \in {"none", "queued", "rejected", "requeued", "ok", "error", "sent"}
    /\ req[m] = "none" => content[m] = None /\ ref[m] = 0
    /\ Alone(m) => StandInv(m)

PartShape ==
    /\ sends \in [Msgs -> Int]
    /\ answered = [m \in Msgs |-> answered[m]]
    /\ outbound \subseteq [msg : Msgs, send : Int, part : Int]

AnswerInv == AwaitInv /\ PartShape /\ \A m \in Msgs : PartInv(m)

LEMMA InitAnswer == Init => AnswerInv
  <1>. SUFFICES ASSUME Init PROVE AnswerInv
    OBVIOUS
  <1>1. AwaitInv
    BY InitAwait
  <1>2. PartShape
    BY DEF Init, PartShape
  <1>3. ASSUME NEW m \in Msgs PROVE PartInv(m)
    BY DEF Init, PartInv, StandInv, Clear
  <1>. QED BY <1>1, <1>2, <1>3 DEF AnswerInv

\* A message that a step leaves alone, but for answers that are lost.
LEMMA LeftAlone ==
    ASSUME NEW m \in Msgs, PartInv(m), Alone(m)' => Alone(m),
           content'[m] = content[m], ref'[m] = ref[m], req'[m] = req[m],
           sends'[m] = sends[m], answered'[m] = answered[m],
           Alone(m) /\ Long(m) /\ req[m] = "sent" => longSubmitSmTxns'[ref[m]] = longSubmitSmTxns[ref[m]],
           \A t \in outbound' : t.msg = m => t \in outbound
    PROVE  PartInv(m)'
  <1>1. Long(m)' <=> Long(m)
    BY DEF Long
  <1>2. Segments(m)' = Segments(m)
    BY DEF Segments
  <1>3. Clear(m) => Clear(m)'
    BY DEF Clear
  <1>4. Alone(m)' => StandInv(m)'
    BY <1>1, <1>2, <1>3 DEF PartInv, StandInv
  <1>. QED BY <1>4 DEF PartInv

\* The numbers stay as they are.
LEMMA SameAlone ==
    ASSUME UNCHANGED factory, NEW m \in Msgs
    PROVE  /\ Alone(m)' <=> Alone(m)
           /\ Long(m)' <=> Long(m)
           /\ Segments(m)' = Segments(m)
           /\ content'[m] = content[m] /\ ref'[m] = ref[m]
  BY DEF factory, Alone, Long, Shared, Segments

\* A transaction under the number of a message that has it alone is its own.
LEMMA OwnTransaction ==
    ASSUME AwaitInv, NEW m \in Msgs, Long(m), Alone(m), longSubmitSmTxns[ref[m]] # None
    PROVE  longSubmitSmTxns[ref[m]].msg = m /\ req[m] = "sent"
  <1>1. PICK r \in Refs : r = ref[m]
    BY DEF AwaitInv, Shape
  <1>2. PICK n \in Msgs : n = longSubmitSmTxns[r].msg
    BY <1>1 DEF AwaitInv, Shape, Txns
  <1>3. ref[n] = r /\ req[n] = "sent"
    BY <1>1, <1>2 DEF AwaitInv, TxnInv
  <1>. QED BY <1>1, <1>2, <1>3 DEF Alone, Shared

LEMMA SubmitStands ==
    ASSUME AnswerInv, NEW m \in Msgs, SubmitSM(m)
    PROVE  PartShape' /\ \A n \in Msgs : PartInv(n)'
  <1>1. PICK c \in Contents[m] :
          /\ content' = [content EXCEPT ![m] = c]
          /\ \/ IsLong(c) /\ ref' = [ref EXCEPT ![m] = claimLongMsgRefNum]
             \/ ~IsLong(c) /\ ref' = ref
    BY Zenon DEF SubmitSM
  <1>2. /\ req[m] = "none" /\ req' = [req EXCEPT ![m] = "queued"]
        /\ UNCHANGED <<sends, outbound, longSubmitSmTxns, answered>>
    BY DEF SubmitSM
  <1>3. claimLongMsgRefNum \in Refs
    BY ClaimedIsRef DEF AnswerInv, AwaitInv
  <1>4. content[m] = None /\ ref[m] = 0
    BY <1>2 DEF AnswerInv, PartInv
  <1>5. \A n \in Msgs \ {m} : content'[n] = content[n] /\ req'[n] = req[n] /\ ref'[n] = ref[n]
    BY <1>1, <1>2 DEF AnswerInv, AwaitInv, Shape
  <1>6. req'[m] = "queued" /\ Clear(m)'
    <2>1. \A t \in outbound : t.msg # m
      BY <1>4 DEF AnswerInv, AwaitInv, Shape
    <2>. QED BY <1>2, <2>1 DEF Clear, AnswerInv, AwaitInv, Shape
  <1>7. PartInv(m)'
    BY <1>6 DEF PartInv, StandInv
  <1>8. ASSUME NEW n \in Msgs \ {m} PROVE PartInv(n)'
    <2>1. Alone(n)' => Alone(n)
      <3>. SUFFICES ASSUME Long(n), NEW q \in Msgs \ {n}, ref[q] = ref[n]
                    PROVE  Long(n)' /\ ref'[q] = ref'[n]
        BY DEF Alone, Shared
      <3>1. ref[n] \in Refs
        BY DEF AnswerInv, AwaitInv, Shape
      <3>2. q # m
        BY <1>4, <3>1 DEF Refs
      <3>. QED BY <1>5, <3>2 DEF Long
    <2>. QED BY <1>2, <1>5, <2>1, LeftAlone DEF AnswerInv
  <1>. QED BY <1>2, <1>7, <1>8 DEF AnswerInv, PartShape

\* Only message m is touched, and messages that share a number.
LEMMA OneTouched ==
    ASSUME AnswerInv, NEW m \in Msgs, UNCHANGED factory, PartInv(m)',
           \A n \in Msgs \ {m} : /\ req'[n] = req[n] \/ (~Alone(n) /\ req'[n] \in {"requeued", "ok", "error"})
                                 /\ sends'[n] = sends[n] /\ answered'[n] = answered[n],
           \A r \in Refs \ {ref[m]} : longSubmitSmTxns'[r] = longSubmitSmTxns[r],
           UNCHANGED longSubmitSmTxns \/ Long(m),
           \A t \in outbound' : t \in outbound \/ t.msg = m
    PROVE  \A n \in Msgs : PartInv(n)'
  <1>1. ASSUME NEW n \in Msgs \ {m} PROVE PartInv(n)'
    <2>1. ASSUME Alone(n), Long(n)
          PROVE  longSubmitSmTxns'[ref[n]] = longSubmitSmTxns[ref[n]]
      <3>1. ref[n] \in Refs /\ ref[n] # ref[m]
        BY <2>1 DEF AnswerInv, AwaitInv, Shape, Alone, Shared
      <3>. QED BY <3>1
    <2>2. CASE req'[n] = req[n]
      BY <2>1, <2>2, SameAlone, LeftAlone, Zenon DEF AnswerInv
    <2>3. CASE ~Alone(n) /\ req'[n] \in {"requeued", "ok", "error"}
      BY <2>3, SameAlone DEF PartInv
    <2>. QED BY <2>2, <2>3
  <1>. QED BY <1>1

LEMMA SendStands ==
    ASSUME AnswerInv, NEW m \in Msgs, doSendRequest(m)
    PROVE  PartShape' /\ \A n \in Msgs : PartInv(n)'
  <1>0. /\ req[m] = "queued" /\ UNCHANGED factory /\ content[m] # None
        /\ sends' = [sends EXCEPT ![m] = @ + 1] /\ answered' = [answered EXCEPT ![m] = {}]
    BY DEF doSendRequest, AnswerInv, AwaitInv, Shape
  <1>1. /\ sends'[m] = sends[m] + 1 /\ answered'[m] = {}
        /\ \A n \in Msgs \ {m} : sends'[n] = sends[n] /\ answered'[n] = answered[n]
        /\ sends' \in [Msgs -> Int] /\ answered' = [n \in Msgs |-> answered'[n]]
    <2>1. sends \in [Msgs -> Int] /\ answered = [n \in Msgs |-> answered[n]]
      BY DEF AnswerInv, PartShape
    <2>2. sends'[m] = sends[m] + 1 /\ sends' \in [Msgs -> Int]
      BY <1>0, <2>1
    <2>3. answered'[m] = {} /\ answered' = [n \in Msgs |-> answered'[n]]
      BY <1>0, <2>1, Zenon
    <2>. QED BY <1>0, <2>1, <2>2, <2>3
  <1>2. Alone(m) => Clear(m)
    BY <1>0, Zenon DEF AnswerInv, PartInv, StandInv
  <1>3. \A k : /\ Part(m, k).msg = m /\ Part(m, k).send = sends'[m] /\ Part(m, k).part = k
               /\ k \in Int => Part(m, k) \in [msg : Msgs, send : Int, part : Int]
    BY <1>1 DEF Part, AnswerInv, PartShape
  <1>4. CASE /\ ~IsLong(content[m])
             /\ outbound' = outbound \cup {Part(m, 1)}
             /\ req' = [req EXCEPT ![m] = "sent"]
             /\ UNCHANGED longSubmitSmTxns
    <2>1. Segments(m)' = {1} /\ ~Long(m)'
      <3>1. Segments(m) = 1 .. 1 /\ ~Long(m)
        BY <1>4 DEF Long, Segments, total_segments
      <3>. QED BY <1>0, <3>1, SameAlone
    <2>2. req'[m] = "sent" /\ \A n \in Msgs \ {m} : req'[n] = req[n]
      BY <1>4 DEF AnswerInv, AwaitInv, Shape
    <2>3. ASSUME NEW t \in outbound', t.msg = m, Alone(m) PROVE t = Part(m, 1)
      BY <1>2, <1>4, <2>3 DEF Clear
    <2>4. PartInv(m)'
      BY <1>0, <1>1, <1>3, <2>1, <2>2, <2>3, SameAlone DEF PartInv, StandInv
    <2>. QED BY <1>0, <1>1, <1>3, <1>4, <2>2, <2>4, OneTouched DEF AnswerInv, PartShape
  <1>5. CASE /\ IsLong(content[m]) /\ longSubmitSmTxns[ref[m]] = None
             /\ outbound' = outbound \cup {Part(m, k) : k \in Segments(m)}
             /\ longSubmitSmTxns' = [longSubmitSmTxns EXCEPT ![ref[m]] = startLongSubmitSmTransaction(m)]
             /\ req' = [req EXCEPT ![m] = "sent"]
    <2>1. Long(m) /\ ref[m] \in Refs
      BY <1>0, <1>5 DEF Long, AnswerInv, AwaitInv, Shape
    <2>2. req'[m] = "sent" /\ \A n \in Msgs \ {m} : req'[n] = req[n]
      BY <1>5 DEF AnswerInv, AwaitInv, Shape
    <2>3. /\ \A r \in Refs \ {ref[m]} : longSubmitSmTxns'[r] = longSubmitSmTxns[r]
          /\ longSubmitSmTxns'[ref[m]].nack_count = Cardinality(Segments(m))
      BY <1>5, <2>1 DEF AnswerInv, AwaitInv, Shape, startLongSubmitSmTransaction
    <2>4. ASSUME NEW t \in outbound', t.msg = m, Alone(m)
          PROVE  t.send = sends'[m] /\ t.part \in Segments(m)
      <3>1. PICK k \in Segments(m) : t = Part(m, k)
        BY <1>2, <1>5, <2>4 DEF Clear
      <3>. QED BY <1>3, <3>1
    <2>5. Segments(m) \ {} = Segments(m)
      OBVIOUS
    <2>6. StandInv(m)' \/ ~Alone(m)
      BY <1>0, <1>1, <2>2, <2>3, <2>4, <2>5, SameAlone, Zenon DEF StandInv
    <2>7. PartInv(m)'
      BY <1>0, <2>2, <2>6, SameAlone, Zenon DEF PartInv
    <2>8. Segments(m) \subseteq Int
      BY DEF Segments
    <2>9. \A t \in outbound' : t \in outbound \/ (t.msg = m /\ t \in [msg : Msgs, send : Int, part : Int])
      BY <1>3, <1>5, <2>8
    <2>10. PartShape'
      BY <1>1, <2>9 DEF AnswerInv, PartShape
    <2>. QED BY <1>0, <1>1, <2>1, <2>2, <2>3, <2>7, <2>9, <2>10, OneTouched
  <1>6. CASE /\ IsLong(content[m]) /\ longSubmitSmTxns[ref[m]] # None
             /\ outbound' = outbound \cup {Part(m, 1)}
             /\ req' = [req EXCEPT ![m] = "requeued"]
             /\ UNCHANGED longSubmitSmTxns
    <2>1. Long(m) /\ ~Alone(m)
      BY <1>0, <1>6, OwnTransaction, Zenon DEF Long, AnswerInv
    <2>2. req'[m] = "requeued" /\ \A n \in Msgs \ {m} : req'[n] = req[n]
      BY <1>6 DEF AnswerInv, AwaitInv, Shape
    <2>3. PartInv(m)'
      BY <1>0, <2>1, <2>2, SameAlone DEF PartInv
    <2>. QED BY <1>0, <1>1, <1>3, <1>6, <2>2, <2>3, OneTouched DEF AnswerInv, PartShape
  <1>. QED BY <1>4, <1>5, <1>6 DEF doSendRequest

\* The listener refuses a message, or puts it back in its queue.
LEMMA QueueStands ==
    ASSUME AnswerInv, NEW m \in Msgs, RefusedRequest(m) \/ Requeue(m)
    PROVE  PartShape' /\ \A n \in Msgs : PartInv(n)'
  <1>1. /\ UNCHANGED <<factory, sends, outbound, longSubmitSmTxns, answered>>
        /\ \A n \in Msgs \ {m} : req'[n] = req[n]
    BY DEF RefusedRequest, Requeue, AnswerInv, AwaitInv, Shape
  <1>2. req'[m] \in {"queued", "rejected"}
    BY DEF RefusedRequest, Requeue, AnswerInv, AwaitInv, Shape
  <1>3. Alone(m) => Clear(m)
    <2>1. CASE RefusedRequest(m)
      BY <2>1, Zenon DEF RefusedRequest, AnswerInv, PartInv, StandInv
    <2>2. CASE Requeue(m)
      BY <2>2, Zenon DEF Requeue, AnswerInv, PartInv, StandInv, Clear
    <2>. QED BY <2>1, <2>2
  <1>4. PartInv(m)'
    BY <1>1, <1>2, <1>3, SameAlone, Zenon DEF PartInv, StandInv, Clear
  <1>. QED BY <1>1, <1>4, OneTouched DEF AnswerInv, PartShape

\* One part of each number is out of one sending.
LEMMA OneOfEach ==
    ASSUME PartShape, NEW t \in outbound, NEW u \in outbound,
           t.msg = u.msg, t.send = u.send, t.part = u.part
    PROVE  t = u
  BY DEF PartShape

\* What is out of a message that has its number alone is waited for, or timed out.
LEMMA OutIsWaited ==
    ASSUME AnswerInv, NEW t \in outbound, Alone(t.msg)
    PROVE  /\ req[t.msg] \in {"sent", "requeued"}
           /\ req[t.msg] = "requeued" => Long(t.msg)
  <1>1. PICK m \in Msgs : m = t.msg
    BY DEF AnswerInv, AwaitInv, Shape
  <1>. QED BY <1>1, Zenon DEF AnswerInv, PartInv, StandInv, Clear

\* The parts that wait after the answer of part t of m, the parts a answered then.
Lessened(m, t, a) ==
    LET w == Cardinality(Segments(m) \ answered[m]) IN
    /\ t.send = sends[m] /\ a \subseteq Segments(m)
    /\ \A u \in outbound \ {t} : u.msg = m => u.send = sends[m] /\ u.part \in Segments(m) \ a
    /\ w \in Nat \ {0}
    /\ Cardinality(Segments(m) \ a) = w - 1
    /\ w = 1 => a = Segments(m)

LEMMA OneLess ==
    ASSUME AnswerInv, NEW m \in Msgs, NEW t \in outbound, t.msg = m, Alone(m), req[m] = "sent",
           NEW a, a = answered[m] \cup {t.part}
    PROVE  Lessened(m, t, a)
  <1>2. content[m] \in Contents[m]
    BY DEF AnswerInv, AwaitInv, Shape
  <1>3. PICK W : W = Segments(m) \ answered[m]
    BY Zenon
  <1>4. IsFiniteSet(W)
    BY <1>2, <1>3, SegmentsCounted, FS_Subset
  <1>5. /\ answered[m] \subseteq Segments(m)
        /\ \A u \in outbound : u.msg = m => u.send = sends[m] /\ u.part \in W
    BY <1>3, Zenon DEF AnswerInv, PartInv, StandInv
  <1>6. t.part \in W /\ Segments(m) \ a = W \ {t.part} /\ a \subseteq Segments(m)
    BY <1>3, <1>5
  <1>7. Cardinality(W) \in Nat /\ Cardinality(W \ {t.part}) = Cardinality(W) - 1
    BY <1>4, <1>6, FS_CardinalityType, FS_RemoveElement
  <1>8. Cardinality(W) # 0
    BY <1>4, <1>6, FS_EmptySet
  <1>9. ASSUME NEW u \in outbound \ {t}, u.msg = m PROVE u.part \in Segments(m) \ a
    BY <1>5, <1>6, <1>9, OneOfEach DEF AnswerInv
  <1>10. Cardinality(W) = 1 => a = Segments(m)
    <2>. SUFFICES ASSUME Cardinality(W) = 1 PROVE W \ {t.part} = {}
      BY <1>6
    <2>1. IsFiniteSet(W \ {t.part}) /\ Cardinality(W \ {t.part}) = 0
      BY <1>4, <1>6, <1>7, FS_RemoveElement
    <2>. QED BY <2>1, FS_EmptySet
  <1>. QED BY <1>3, <1>5, <1>6, <1>7, <1>8, <1>9, <1>10, Zenon DEF Lessened

\* The answer to a part, or to a short message.
LEMMA AnswerStands ==
    ASSUME AnswerInv, NEW t \in outbound, NEW status \in {"ok", "error"}, endOutboundTransaction(t, status)
    PROVE  PartShape' /\ \A n \in Msgs : PartInv(n)'
  <1>0. PICK m \in Msgs : m = t.msg
    BY DEF AnswerInv, AwaitInv, Shape
  <1>1. /\ content[m] # None /\ req[m] # "none" /\ UNCHANGED <<factory, sends>> /\ outbound' = outbound \ {t}
        /\ answered' = IF t.send = sends[m]
                       THEN [answered EXCEPT ![m] = answered[m] \cup {t.part}] ELSE answered
    BY <1>0 DEF AnswerInv, AwaitInv, Shape, PartInv, endOutboundTransaction
  <1>2. /\ answered' = [n \in Msgs |-> answered'[n]]
        /\ \A n \in Msgs \ {m} : answered'[n] = answered[n]
        /\ t.send = sends[m] => answered'[m] = answered[m] \cup {t.part}
    BY <1>1, Zenon DEF AnswerInv, PartShape
  <1>3. PartShape'
    BY <1>1, <1>2 DEF AnswerInv, PartShape
  <1>4. CASE ~IsLong(content[m])
    <2>1. req' = [req EXCEPT ![m] = status] /\ UNCHANGED longSubmitSmTxns
      BY <1>0, <1>4, Zenon DEF endOutboundTransaction
    <2>2. req'[m] = status /\ \A n \in Msgs \ {m} : req'[n] = req[n]
      BY <2>1 DEF AnswerInv, AwaitInv, Shape
    <2>3. ~Long(m) /\ Alone(m) /\ req[m] = "sent"
      BY <1>0, <1>4, OutIsWaited DEF Long, Alone
    <2>4. Segments(m) = {1}
      <3>1. Segments(m) = 1 .. 1
        BY <1>4 DEF Segments, total_segments
      <3>. QED BY <3>1
    <2>5. answered[m] \subseteq {1} /\ \A u \in outbound : u.msg = m => u.send = sends[m] /\ u.part = 1
      BY <2>3, <2>4, Zenon DEF AnswerInv, PartInv, StandInv
    <2>6. answered'[m] = Segments(m) /\ Clear(m)'
      BY <1>0, <1>1, <1>2, <2>4, <2>5, OneOfEach DEF AnswerInv, Clear
    <2>7. PartInv(m)'
      BY <1>1, <2>2, <2>6, SameAlone, Zenon DEF PartInv, StandInv
    <2>. QED BY <1>1, <1>2, <1>3, <2>1, <2>2, <2>7, OneTouched
  <1>5. CASE IsLong(content[m])
    <2>1. PICK r \in Refs : r = ref[m]
      BY <1>1, <1>5 DEF AnswerInv, AwaitInv, Shape, Long
    <2>2. endLongSubmitSmTransaction(r, status) /\ Long(m)
      BY <1>0, <1>1, <1>5, <2>1, Zenon DEF endOutboundTransaction, Long
    <2>3. \A q \in Refs \ {r} : longSubmitSmTxns'[q] = longSubmitSmTxns[q]
      BY <2>1, <2>2 DEF endLongSubmitSmTransaction, closeLongSubmitSmTransaction, AnswerInv, AwaitInv, Shape
    <2>4. ASSUME NEW n \in Msgs
          PROVE  \/ req'[n] = req[n]
                 \/ longSubmitSmTxns[r] # None /\ longSubmitSmTxns[r].msg = n /\ req'[n] = status
      BY <2>2 DEF endLongSubmitSmTransaction, AnswerInv, AwaitInv, Shape
    <2>5. ASSUME NEW n \in Msgs, longSubmitSmTxns[r] # None, longSubmitSmTxns[r].msg = n, n # m
          PROVE  ~Alone(n) /\ ~Alone(m)
      <3>1. Long(n) /\ ref[n] = r
        BY <2>5 DEF AnswerInv, AwaitInv, TxnInv
      <3>. QED BY <2>1, <2>2, <2>5, <3>1 DEF Alone, Shared
    <2>6. ASSUME Alone(m), req[m] = "requeued" PROVE StandInv(m)'
      <3>1. longSubmitSmTxns[r] = None
        BY <2>1, <2>2, <2>6, OwnTransaction DEF AnswerInv
      <3>2. req'[m] = "requeued"
        BY <2>2, <2>6, <3>1 DEF endLongSubmitSmTransaction
      <3>3. \A u \in outbound : u.msg = m => u.part # 1 /\ u.send = sends[m]
        BY <2>6, Zenon DEF AnswerInv, PartInv, StandInv
      <3>. QED BY <1>1, <2>2, <3>2, <3>3, SameAlone, Zenon DEF StandInv
    <2>7. ASSUME Alone(m), req[m] = "sent" PROVE StandInv(m)'
      <3>1. PICK txn \in Txns : txn = longSubmitSmTxns[r] /\ txn # None /\ txn.msg = m
        BY <2>1, <2>2, <2>7 DEF AnswerInv, AwaitInv, Shape, MsgInv
      <3>2. txn.nack_count = Cardinality(Segments(m) \ answered[m])
        BY <2>1, <2>2, <2>7, <3>1, Zenon DEF AnswerInv, PartInv, StandInv
      <3>3. PICK a : a = answered[m] \cup {t.part}
        BY Zenon
      <3>4. /\ t.send = sends[m] /\ a \subseteq Segments(m)
            /\ \A u \in outbound \ {t} : u.msg = m => u.send = sends[m] /\ u.part \in Segments(m) \ a
            /\ txn.nack_count \in Nat \ {0}
            /\ Cardinality(Segments(m) \ a) = txn.nack_count - 1
            /\ txn.nack_count = 1 => a = Segments(m)
        <4>1. Lessened(m, t, a)
          BY <1>0, <2>7, <3>3, OneLess
        <4>. QED BY <3>2, <4>1 DEF Lessened
      <3>5. answered'[m] = a
        BY <1>2, <3>3, <3>4
      <3>6. CASE txn.nack_count > 1
        <4>1. req'[m] = "sent" /\ longSubmitSmTxns'[r].nack_count = txn.nack_count - 1
          <5>1. UNCHANGED req /\ longSubmitSmTxns' = [longSubmitSmTxns EXCEPT ![r].nack_count = @ - 1]
            BY <2>2, <3>1, <3>4, <3>6 DEF endLongSubmitSmTransaction
          <5>2. longSubmitSmTxns'[r] = [txn EXCEPT !.nack_count = @ - 1]
            BY <3>1, <5>1 DEF AnswerInv, AwaitInv, Shape
          <5>. QED BY <2>7, <5>1, <5>2 DEF Txns
        <4>. QED BY <1>1, <2>1, <3>4, <3>5, <4>1, SameAlone, Zenon DEF StandInv
      <3>7. CASE txn.nack_count <= 1
        <4>1. req'[m] = status
          <5>1. req' = [req EXCEPT ![m] = status]
            BY <2>2, <3>1, <3>4, <3>7 DEF endLongSubmitSmTransaction
          <5>. QED BY <5>1 DEF AnswerInv, AwaitInv, Shape
        <4>2. a = Segments(m) /\ \A u \in outbound \ {t} : u.msg # m
          BY <3>4, <3>7
        <4>. QED BY <1>1, <3>5, <4>1, <4>2, SameAlone, Zenon DEF StandInv, Clear
      <3>8. txn.nack_count > 1 \/ txn.nack_count <= 1
        <4>1. PICK k \in Nat : k = txn.nack_count
          BY <3>4, Zenon
        <4>2. k > 1 \/ k <= 1
          OBVIOUS
        <4>. QED BY <4>1, <4>2, Zenon
      <3>. QED BY <3>6, <3>7, <3>8, Zenon
    <2>8. PartInv(m)'
      <3>1. req'[m] \in {req[m], status}
        BY <2>4
      <3>2. Alone(m) => StandInv(m)'
        BY <1>0, <2>6, <2>7, OutIsWaited
      <3>. QED BY <1>1, <3>1, <3>2, SameAlone, Zenon DEF PartInv, AnswerInv
    <2>. QED BY <1>1, <1>2, <1>3, <2>1, <2>2, <2>3, <2>4, <2>5, <2>8, OneTouched
  <1>. QED BY <1>4, <1>5

\* Steps that tell nothing to the listener: at most an answer is lost.
LEMMA NothingAnswered ==
    ASSUME AnswerInv, UNCHANGED <<content, ref, req, sends, longSubmitSmTxns, answered>>,
           outbound' \subseteq outbound
    PROVE  PartShape' /\ \A n \in Msgs : PartInv(n)'
  <1>1. ASSUME NEW n \in Msgs PROVE PartInv(n)'
    <2>1. Alone(n)' => Alone(n)
      BY DEF Alone, Long, Shared
    <2>. QED BY <2>1, LeftAlone, Zenon DEF AnswerInv
  <1>. QED BY <1>1 DEF AnswerInv, PartShape

\* The timer of one PDU: a part is only forgotten, a short message is put back.
LEMMA TimeoutStands ==
    ASSUME AnswerInv, NEW t \in outbound, onResponseTimeout(t)
    PROVE  PartShape' /\ \A n \in Msgs : PartInv(n)'
  <1>0. PICK m \in Msgs : m = t.msg /\ content[m] # None
    BY DEF AnswerInv, AwaitInv, Shape
  <1>1. UNCHANGED <<factory, sends, longSubmitSmTxns, answered>> /\ outbound' = outbound \ {t}
    BY DEF onResponseTimeout
  <1>2. CASE IsLong(content[m])
    <2>1. UNCHANGED req
      BY <1>0, <1>2 DEF onResponseTimeout
    <2>. QED BY <1>1, <2>1, NothingAnswered DEF factory
  <1>3. CASE ~IsLong(content[m])
    <2>1. req'[m] = "requeued" /\ \A n \in Msgs \ {m} : req'[n] = req[n]
      BY <1>0, <1>3 DEF onResponseTimeout, AnswerInv, AwaitInv, Shape
    <2>2. Alone(m) /\ req[m] = "sent"
      BY <1>0, <1>3, OutIsWaited DEF Long, Alone
    <2>3. Segments(m) = {1}
      <3>1. Segments(m) = 1 .. 1
        BY <1>3 DEF Segments, total_segments
      <3>. QED BY <3>1
    <2>4. \A u \in outbound : u.msg = m => u.send = sends[m] /\ u.part = 1
      <3>1. \A u \in outbound : u.msg = m => u.send = sends[m] /\ u.part \in Segments(m)
        BY <2>2, Zenon DEF AnswerInv, PartInv, StandInv
      <3>. QED BY <2>3, <3>1, Zenon
    <2>5. Clear(m)'
      BY <1>0, <1>1, <2>4, OneOfEach DEF AnswerInv, Clear
    <2>6. PartInv(m)'
      BY <1>0, <1>1, <2>1, <2>5, Zenon DEF PartInv, StandInv, Clear
    <2>. QED BY <1>1, <2>1, <2>6, OneTouched DEF AnswerInv, PartShape
  <1>. QED BY <1>2, <1>3

\* The timer of a transaction: its first part is out no more.
LEMMA LongTimeoutStands ==
    ASSUME AnswerInv, NEW r \in Refs, onLongSubmitSmTransactionTimeout(r)
    PROVE  PartShape' /\ \A n \in Msgs : PartInv(n)'
  <1>1. /\ UNCHANGED <<factory, sends, outbound, answered>> /\ longSubmitSmTxns[r] # None
        /\ longSubmitSmTxns' = closeLongSubmitSmTransaction(r)
    BY Zenon DEF onLongSubmitSmTransactionTimeout
  <1>2. PICK m \in Msgs : m = longSubmitSmTxns[r].msg
    BY <1>1 DEF AnswerInv, AwaitInv, Shape, Txns
  <1>3. Long(m) /\ ref[m] = r
    BY <1>1, <1>2 DEF AnswerInv, AwaitInv, TxnInv
  <1>4. req'[m] = "requeued" /\ \A n \in Msgs \ {m} : req'[n] = req[n]
    BY <1>2 DEF onLongSubmitSmTransactionTimeout, AnswerInv, AwaitInv, Shape
  <1>5. \A q \in Refs \ {r} : longSubmitSmTxns'[q] = longSubmitSmTxns[q]
    BY <1>1 DEF closeLongSubmitSmTransaction, AnswerInv, AwaitInv, Shape
  <1>6. \A t \in outbound : t.msg = m => t.part # 1
    BY <1>2 DEF onLongSubmitSmTransactionTimeout
  <1>7. req[m] = "sent"
    BY <1>1, <1>2 DEF AnswerInv, AwaitInv, TxnInv
  <1>8. Alone(m) => \A t \in outbound : t.msg = m => t.send = sends[m]
    BY <1>7, Zenon DEF AnswerInv, PartInv, StandInv
  <1>9. PartInv(m)'
    BY <1>1, <1>3, <1>4, <1>6, <1>8, SameAlone, Zenon DEF PartInv, StandInv
  <1>. QED BY <1>1, <1>3, <1>4, <1>5, <1>9, OneTouched DEF AnswerInv, PartShape

\* The end of a connection leaves nothing out.
LEMMA CancelStands ==
    ASSUME AnswerInv, NEW out, FailRequests(out)
    PROVE  PartShape' /\ \A n \in Msgs : PartInv(n)'
  <1>1. UNCHANGED <<factory, sends, answered>> /\ outbound' = {}
    BY DEF FailRequests
  <1>2. ASSUME NEW m \in Msgs PROVE PartInv(m)'
    <2>1. Clear(m)' /\ \A t \in outbound' : FALSE
      BY <1>1 DEF Clear
    <2>2. req'[m] \in {"rejected", req[m]}
      BY DEF FailRequests
    <2>3. CASE req'[m] = "rejected"
      BY <2>1, <2>3, Zenon DEF PartInv, StandInv
    <2>4. CASE req'[m] = req[m]
      <3>1. ASSUME Long(m), req[m] = "sent" PROVE req'[m] = "rejected"
        <4>1. ref[m] \in Refs /\ longSubmitSmTxns[ref[m]] # None /\ longSubmitSmTxns[ref[m]].msg = m
          BY <3>1 DEF AnswerInv, AwaitInv, Shape, MsgInv
        <4>. QED BY <4>1 DEF FailRequests
      <3>2. PartInv(m)
        BY DEF AnswerInv
      <3>3. ~(Long(m) /\ req[m] = "sent")
        BY <2>4, <3>1
      <3>4. Alone(m) => StandInv(m)'
        BY <1>1, <2>1, <2>4, <3>2, <3>3, SameAlone, Zenon DEF PartInv, StandInv
      <3>. QED BY <1>1, <2>4, <3>2, <3>4, SameAlone, Zenon DEF PartInv
    <2>. QED BY <2>2, <2>3, <2>4
  <1>. QED BY <1>1, <1>2 DEF AnswerInv, PartShape

LEMMA NextKeepsAnswer ==
    ASSUME AnswerInv, [Next]_vars
    PROVE  AnswerInv'
  <1>0. AwaitInv'
    BY NextKeepsAwait DEF AnswerInv
  <1>. DEFINE Stands == PartShape' /\ \A n \in Msgs : PartInv(n)'
  <1>. SUFFICES Stands
    BY <1>0 DEF AnswerInv
  <1>1. ASSUME NEW t \in outbound, GenericNackReceived(t) PROVE Stands
    BY <1>1, CancelStands DEF GenericNackReceived
  <1>2. CASE ClaimedElsewhere
    BY <1>2, NothingAnswered DEF ClaimedElsewhere
  <1>3. CASE Reconnect \/ UNCHANGED vars
    BY <1>3, NothingAnswered DEF Reconnect, vars, factory
  <1>4. CASE Response
    BY <1>1, <1>4, AnswerStands DEF Response
  <1>5. CASE cancelOutboundTransactions
    BY <1>5, CancelStands DEF cancelOutboundTransactions
  <1>. QED BY <1>2, <1>3, <1>4, <1>5, SubmitStands, SendStands, QueueStands, TimeoutStands,
              LongTimeoutStands DEF Next

\* A message the listener takes for answered had every part of that sending
\* answered, as long as no other message on the connector had its reference
\* number: a late answer, a nack or a time-out of an earlier sending is never
\* counted for the next (endLongSubmitSmTransaction).
THEOREM AnsweredInFull == Spec => []AllPartsAnswered
  <1>1. AnswerInv /\ [Next]_vars => AnswerInv'
    BY NextKeepsAnswer
  <1>2. AnswerInv => AllPartsAnswered
    <2>. SUFFICES ASSUME AnswerInv, NEW m \in Msgs, req[m] \in {"ok", "error"},
                         ~(IsLong(content[m]) /\ Shared(m))
                  PROVE  answered[m] = Segments(m)
      BY DEF AllPartsAnswered
    <2>1. Alone(m)
      BY DEF Alone, Long
    <2>. QED BY <2>1, Zenon DEF AnswerInv, PartInv, StandInv
  <1>. QED BY InitAnswer, <1>1, <1>2, PTL DEF Spec

-----------------------------------------------------------------------------
(* A request is answered once. *)

Told(m) ==
    req'[m] # req[m] =>
        /\ req[m] \notin {"ok", "rejected"}
        /\ req'[m] \in {"ok", "error"} => req[m] = "sent"

LEMMA TellIsOfWaiting ==
    ASSUME AnswerInv, [Next]_vars, NEW m \in Msgs
    PROVE  Told(m)
  <1>0. /\ AwaitInv /\ req = [n \in Msgs |-> req[n]]
        /\ longSubmitSmTxns \in [Refs -> Txns \cup {None}]
    BY DEF AnswerInv, AwaitInv, Shape
  <1>1. ASSUME NEW n \in Msgs, req[n] = "sent", NEW s, req' = [req EXCEPT ![n] = s] PROVE Told(m)
    BY <1>0, <1>1 DEF Told
  <1>2. ASSUME NEW n \in Msgs, NEW s \in {"queued", "sent", "requeued", "rejected"},
               req[n] \notin {"ok", "rejected"}, req' = [req EXCEPT ![n] = s]
        PROVE  Told(m)
    BY <1>0, <1>2 DEF Told
  <1>3. ASSUME UNCHANGED req PROVE Told(m)
    BY <1>3 DEF Told
  <1>4. ASSUME NEW r \in Refs, longSubmitSmTxns[r] # None
        PROVE  longSubmitSmTxns[r].msg \in Msgs /\ req[longSubmitSmTxns[r].msg] = "sent"
    BY <1>0, <1>4 DEF AwaitInv, TxnInv, Txns
  <1>5. ASSUME NEW t \in outbound
        PROVE  /\ t.msg \in Msgs /\ content[t.msg] # None
               /\ ~IsLong(content[t.msg]) => req[t.msg] = "sent"
               /\ IsLong(content[t.msg]) => ref[t.msg] \in Refs
    <2>1. t.msg \in Msgs /\ content[t.msg] # None
      BY DEF AnswerInv, AwaitInv, Shape
    <2>2. ~IsLong(content[t.msg]) => Alone(t.msg) /\ ~Long(t.msg)
      BY DEF Alone, Long
    <2>3. IsLong(content[t.msg]) => ref[t.msg] \in Refs
      BY <1>0, <2>1 DEF AwaitInv, Shape, Long
    <2>. QED BY <2>1, <2>2, <2>3, OutIsWaited, Zenon
  <1>6. ASSUME NEW n \in Msgs, SubmitSM(n) \/ doSendRequest(n) \/ RefusedRequest(n) \/ Requeue(n)
        PROVE  Told(m)
    <2>1. /\ req[n] \notin {"ok", "rejected"}
          /\ \E s \in {"queued", "sent", "requeued", "rejected"} : req' = [req EXCEPT ![n] = s]
      BY <1>6 DEF SubmitSM, doSendRequest, RefusedRequest, Requeue
    <2>2. PICK s \in {"queued", "sent", "requeued", "rejected"} : req' = [req EXCEPT ![n] = s]
      BY <2>1, Zenon
    <2>. QED BY <1>2, <2>1, <2>2, Zenon
  <1>7. ASSUME NEW t \in outbound, NEW status, endOutboundTransaction(t, status) PROVE Told(m)
    <2>1. CASE ~IsLong(content[t.msg])
      BY <1>1, <1>5, <1>7, <2>1, Zenon DEF endOutboundTransaction
    <2>2. CASE IsLong(content[t.msg])
      <3>1. PICK r \in Refs : r = ref[t.msg]
        BY <1>5, <2>2
      <3>2. endLongSubmitSmTransaction(r, status)
        BY <1>7, <2>2, <3>1, Zenon DEF endOutboundTransaction
      <3>3. \/ UNCHANGED req
            \/ longSubmitSmTxns[r] # None /\ req' = [req EXCEPT ![longSubmitSmTxns[r].msg] = status]
        BY <3>2 DEF endLongSubmitSmTransaction
      <3>. QED BY <1>1, <1>3, <1>4, <3>3, Zenon
    <2>. QED BY <2>1, <2>2
  <1>8. ASSUME NEW t \in outbound, onResponseTimeout(t) PROVE Told(m)
    BY <1>1, <1>3, <1>5, <1>8 DEF onResponseTimeout
  <1>9. ASSUME NEW r \in Refs, onLongSubmitSmTransactionTimeout(r) PROVE Told(m)
    BY <1>1, <1>4, <1>9, Zenon DEF onLongSubmitSmTransactionTimeout
  <1>10. ASSUME NEW out \in SUBSET outbound, FailRequests(out) PROVE Told(m)
    <2>1. \/ req'[m] = req[m]
          \/ /\ req'[m] = "rejected"
             /\ \/ \E r \in Refs : longSubmitSmTxns[r] # None /\ longSubmitSmTxns[r].msg = m
                \/ ~IsLong(content[m]) /\ \E t \in outbound : t.msg = m
      BY <1>10 DEF FailRequests
    <2>. QED BY <1>4, <1>5, <2>1 DEF Told
  <1>11. CASE ClaimedElsewhere \/ Reconnect \/ UNCHANGED vars
    BY <1>3, <1>11 DEF ClaimedElsewhere, Reconnect, vars
  <1>12. ASSUME NEW t \in outbound, GenericNackReceived(t) PROVE Told(m)
    BY <1>10, <1>12 DEF GenericNackReceived
  <1>13. CASE cancelOutboundTransactions
    BY <1>10, <1>13 DEF cancelOutboundTransactions
  <1>. QED BY <1>6, <1>7, <1>8, <1>9, <1>11, <1>12, <1>13 DEF Next, Response

\* endLongSubmitSmTransaction, onResponseTimeout, cancelOutboundTransactions: a late
\* answer, a time-out or a cancellation never reaches a request that is over, also
\* when messages share a reference number and were sent several times.
THEOREM AnsweredOnce == Spec => ToldOnce
  <1>1. AnswerInv /\ [Next]_vars => AnswerInv'
    BY NextKeepsAnswer
  <1>2. AnswerInv /\ [Next]_vars =>
          [\A m \in Msgs :
              req'[m] # req[m] =>
                  /\ req[m] \notin {"ok", "rejected"}
                  /\ req'[m] \in {"ok", "error"} => req[m] = "sent"]_vars
    BY TellIsOfWaiting DEF Told
  <1>. QED BY InitAnswer, <1>1, <1>2, PTL DEF Spec, ToldOnce

=============================================================================
