-------------------------- MODULE SmppServerProofs --------------------------
(***************************************************************************)
(* Theorems about the sessions of the SMPP server, for any connections,    *)
(* accounts and quotas.                                                    *)
(***************************************************************************)
EXTENDS SmppServer, TLAPS, FiniteSetTheorems, SequenceTheorems, WellFoundedInduction

-----------------------------------------------------------------------------
(* Searching the list of users. *)

\* A set of natural numbers has its minimum as a member.
LEMMA MinIsMember ==
    ASSUME NEW S, S \subseteq Nat, S # {}
    PROVE  Min(S) \in S
<1>1. ASSUME NEW y \in Nat, NEW z \in Nat, y < z PROVE <<y, z>> \in OpToRel(<, Nat)
  <2>1. <<y, z>> \in Nat \X Nat /\ <<y, z>>[1] = y /\ <<y, z>>[2] = z
      OBVIOUS
  <2>2. QED
      BY <2>1, <1>1, Zenon DEF OpToRel
<1>2. \E x \in S : \A y \in S : ~(<<y, x>> \in OpToRel(<, Nat))
    BY NatLessThanWellFounded, WFMin, Zenon
<1>3. \E R : /\ \A y, z \in Nat : y < z => <<y, z>> \in R
             /\ \E x \in S : \A y \in S : ~(<<y, x>> \in R)
    BY <1>1, <1>2, Zenon
<1>4. PICK R : /\ \A y, z \in Nat : y < z => <<y, z>> \in R
               /\ \E x \in S : \A y \in S : ~(<<y, x>> \in R)
    BY <1>3
<1>5. PICK x \in S : \A y \in S : ~(<<y, x>> \in R)
    BY <1>4
<1>6. ASSUME NEW y \in S PROVE x =< y
  <2>1. y \in Nat /\ x \in Nat
      OBVIOUS
  <2>2. ~(y < x)
      BY <1>4, <1>5, <2>1, Zenon
  <2>3. QED
      BY <2>1, <2>2
<1>7. QED
    BY <1>6, Zenon DEF Min

\* getUser, UserNamed and UserLike find a place of the list, or 0.
LEMMA FoundInUsers ==
    ASSUME NEW S, users \in Seq(S)
    PROVE  /\ \A uid : getUser(uid) \in 0 .. Len(users)
           /\ \A n : UserNamed(n) \in 0 .. Len(users)
           /\ \A a : UserLike(a) \in 0 .. Len(users)
<1>1. Len(users) \in Nat
    BY LenProperties
<1>2. ASSUME NEW T, T \subseteq 1 .. Len(users), T # {} PROVE Min(T) \in 1 .. Len(users)
  <2>1. T \subseteq Nat
      BY <1>1, <1>2
  <2>2. QED
      BY <2>1, <1>2, MinIsMember, Zenon
<1>3. ASSUME NEW uid PROVE getUser(uid) \in 0 .. Len(users)
  <2> DEFINE T == {i \in 1 .. Len(users) : users[i].uid = uid}
  <2>1. getUser(uid) = IF T # {} THEN Min(T) ELSE 0
      BY DEF getUser, SelectInSeq
  <2> HIDE DEF T
  <2>2. T \subseteq 1 .. Len(users)
      BY DEF T
  <2>3. T # {} => Min(T) \in 1 .. Len(users)
      BY <1>2, <2>2, Zenon
  <2>4. QED
      BY <1>1, <2>1, <2>3
<1>4. ASSUME NEW n PROVE UserNamed(n) \in 0 .. Len(users)
  <2> DEFINE T == {i \in 1 .. Len(users) : users[i].name = n}
  <2>1. UserNamed(n) = IF T # {} THEN Min(T) ELSE 0
      BY DEF UserNamed, SelectInSeq
  <2> HIDE DEF T
  <2>2. T \subseteq 1 .. Len(users)
      BY DEF T
  <2>3. T # {} => Min(T) \in 1 .. Len(users)
      BY <1>2, <2>2, Zenon
  <2>4. QED
      BY <1>1, <2>1, <2>3
<1>5. ASSUME NEW a PROVE UserLike(a) \in 0 .. Len(users)
  <2> DEFINE T == {i \in 1 .. Len(users) : users[i].uid = a.uid \/ users[i].name = a.name}
  <2>1. UserLike(a) = IF T # {} THEN Min(T) ELSE 0
      BY DEF UserLike, SelectInSeq
  <2> HIDE DEF T
  <2>2. T \subseteq 1 .. Len(users)
      BY DEF T
  <2>3. T # {} => Min(T) \in 1 .. Len(users)
      BY <1>2, <2>2, Zenon
  <2>4. QED
      BY <1>1, <2>1, <2>3
<1>6. QED
    BY <1>3, <1>4, <1>5

\* The first user with the username of user i is one of the list.
LEMMA NamedIsFound ==
    ASSUME NEW S, users \in Seq(S), NEW i \in 1 .. Len(users)
    PROVE  /\ UserNamed(users[i].name) \in 1 .. Len(users)
           /\ users[UserNamed(users[i].name)].name = users[i].name
<1> DEFINE T == {j \in 1 .. Len(users) : users[j].name = users[i].name}
<1>1. UserNamed(users[i].name) = IF T # {} THEN Min(T) ELSE 0
    BY DEF UserNamed, SelectInSeq
<1>2. i \in T /\ T \subseteq Nat
    BY LenProperties
<1>3. UserNamed(users[i].name) \in T
  <2> HIDE DEF T
  <2>1. Min(T) \in T
      BY <1>2, MinIsMember, Zenon
  <2>2. QED
      BY <1>1, <1>2, <2>1
<1>4. QED
    BY <1>3

\* Taking an element out leaves a sequence of the same elements.
LEMMA RemoveAtType ==
    ASSUME NEW S, NEW q \in Seq(S), NEW i \in 1 .. Len(q)
    PROVE  RemoveAt(q, i) \in Seq(S)
<1>1. Len(q) \in Nat /\ \A j \in 1 .. Len(q) : q[j] \in S
    BY LenProperties
<1>2. SubSeq(q, 1, i - 1) \in Seq(S)
    BY <1>1, SubSeqProperties
<1>3. SubSeq(q, i + 1, Len(q)) \in Seq(S)
    BY <1>1, SubSeqProperties
<1>4. QED
    BY <1>2, <1>3, ConcatProperties DEF RemoveAt

-----------------------------------------------------------------------------
(* The invariant. *)

\* What IInv says of the sessions and their managers.
SessionInv ==
    /\ session \in [Sessions -> SessionRecords]
    /\ bound_connections \in [Names -> Managers \cup {None}]
    /\ ManagersHaveSessions
    /\ \A s \in Sessions : session[s].state \in {"bound", "unbinding"} <=> session[s].name # None

LEMMA InitIInv == Init => IInv
<1> SUFFICES ASSUME Init PROVE IInv
    OBVIOUS
<1>1. TypeOK
  <2>1. users \in Seq(UserRecords)
      BY EmptySeq DEF Init
  <2>2. session \in [Sessions -> SessionRecords]
      BY DEF Init, Closed, SessionRecords
  <2>3. QED
      BY <2>1, <2>2 DEF Init, TypeOK
<1>2. \A s \in Sessions : session[s].state = "closed" /\ session[s].name = None
    BY DEF Init, Closed
<1>3. ManagersHaveSessions
  <2>1. ASSUME NEW n \in Names PROVE bound_connections[n] = None /\ SessionsOf(n) = {}
      BY <1>2, ServerConstants DEF Init, SessionsOf
  <2>2. QED
      BY <2>1 DEF ManagersHaveSessions, BoundSystemIds, Bindings
<1>4. QED
    BY <1>1, <1>2, <1>3 DEF IInv

\* What an administrator's call leaves of the list of users.
LEMMA UsersTyped ==
    ASSUME TypeOK, Next
    PROVE  users' \in Seq(UserRecords) /\ cnx' \in [Uids -> Uids] /\ banned' \subseteq Names
<1> USE DEF TypeOK
<1>1. /\ \A uid : getUser(uid) \in 0 .. Len(users)
      /\ \A a : UserLike(a) \in 0 .. Len(users)
    BY FoundInUsers
<1>2. Len(users) \in Nat /\ DOMAIN users = 1 .. Len(users)
    BY LenProperties
<1>3. \A i \in 1 .. Len(users) : users[i] \in UserRecords
    BY ElementOfSeq
<1>4. ASSUME NEW a \in Accounts, NEW q \in Quotas, perspective_user_add(a, q)
      PROVE  users' \in Seq(UserRecords) /\ cnx' \in [Uids -> Uids] /\ banned' \subseteq Names
  <2> DEFINE user == [uid |-> a.uid, name |-> a.name, enabled |-> TRUE, bind |-> TRUE,
                      max_bindings |-> q]
             rest == IF UserLike(a) = 0 THEN users ELSE RemoveAt(users, UserLike(a))
  <2>1. a.uid \in Uids /\ a.name \in Names
      BY DEF Uids, Names
  <2>2. user \in UserRecords
    <3>1. a = [uid |-> a.uid, name |-> a.name]
        BY ServerConstants
    <3>2. QED
        BY <2>1, <3>1 DEF UserRecords
  <2>3. rest \in Seq(UserRecords)
    <3>1. CASE UserLike(a) = 0
        BY <3>1
    <3>2. CASE UserLike(a) # 0
      <4>1. UserLike(a) \in 1 .. Len(users)
          BY <1>1, <1>2, <3>2
      <4>2. QED
          BY <3>2, <4>1, RemoveAtType
    <3>3. QED
        BY <3>1, <3>2
  <2>4. users' = Append(rest, user) /\ banned' = banned \ {a.name}
      BY <1>4 DEF perspective_user_add
  <2> HIDE DEF rest, user
  <2>5. users' \in Seq(UserRecords)
      BY <2>2, <2>3, <2>4, AppendProperties
  <2>6. cnx' \in [Uids -> Uids]
    <3>1. CASE UserLike(a) = 0
        BY <1>4, <3>1 DEF perspective_user_add
    <3>2. CASE UserLike(a) # 0
      <4>1. users[UserLike(a)].uid \in Uids
        <5>1. UserLike(a) \in 1 .. Len(users)
            BY <1>1, <1>2, <3>2
        <5>2. QED
            BY <1>3, <5>1, Zenon DEF UserRecords
      <4>2. cnx' = [cnx EXCEPT ![a.uid] = cnx[users[UserLike(a)].uid]]
          BY <1>4, <3>2 DEF perspective_user_add
      <4>3. QED
          BY <4>1, <4>2, Zenon
    <3>3. QED
        BY <3>1, <3>2
  <2>7. QED
      BY <2>4, <2>5, <2>6
<1>5. ASSUME NEW uid, NEW i, i = getUser(uid), i # 0
      PROVE  i \in 1 .. Len(users) /\ users[i] \in UserRecords
    BY <1>1, <1>2, <1>3, <1>5
<1>6. ASSUME NEW uid \in Uids, perspective_user_remove(uid)
      PROVE  users' \in Seq(UserRecords) /\ cnx' \in [Uids -> Uids] /\ banned' \subseteq Names
  <2>1. getUser(uid) \in 1 .. Len(users)
      BY <1>5, <1>6 DEF perspective_user_remove
  <2>2. users' = RemoveAt(users, getUser(uid)) /\ banned' \subseteq banned /\ cnx' = cnx
      BY <1>6 DEF perspective_user_remove
  <2>3. QED
      BY <2>1, <2>2, RemoveAtType
<1>7. ASSUME NEW i \in 1 .. Len(users), NEW e \in UserRecords, users' = [users EXCEPT ![i] = e]
      PROVE  users' \in Seq(UserRecords)
    BY <1>7, ExceptSeq
<1>8. ASSUME NEW uid \in Uids, NEW b \in BOOLEAN, SetEnabled(uid, b)
      PROVE  users' \in Seq(UserRecords) /\ cnx' \in [Uids -> Uids] /\ banned' \subseteq Names
  <2> DEFINE i == getUser(uid)
  <2>1. i \in 1 .. Len(users) /\ users[i] \in UserRecords
      BY <1>5, <1>8 DEF SetEnabled
  <2>2. users' = [users EXCEPT ![i] = [users[i] EXCEPT !.enabled = b]] /\ cnx' = cnx /\ banned' = banned
      BY <1>8 DEF SetEnabled
  <2> HIDE DEF i
  <2>3. [users[i] EXCEPT !.enabled = b] \in UserRecords
      BY <2>1, Zenon DEF UserRecords
  <2>4. QED
      BY <1>7, <2>1, <2>2, <2>3
<1>9. ASSUME NEW uid \in Uids, NEW b \in BOOLEAN, NEW q \in Quotas, update_session(uid, b, q)
      PROVE  users' \in Seq(UserRecords) /\ cnx' \in [Uids -> Uids] /\ banned' \subseteq Names
  <2> DEFINE i == getUser(uid)
  <2>1. i \in 1 .. Len(users) /\ users[i] \in UserRecords
      BY <1>5, <1>9 DEF update_session
  <2>2. users' = [users EXCEPT ![i] = [users[i] EXCEPT !.bind = b, !.max_bindings = q]]
      BY <1>9, <2>1, <1>2, Zenon DEF update_session
  <2>3. cnx' = cnx /\ banned' \subseteq banned
      BY <1>9 DEF update_session
  <2> HIDE DEF i
  <2>4. [users[i] EXCEPT !.bind = b, !.max_bindings = q] \in UserRecords
      BY <2>1, Zenon DEF UserRecords
  <2>5. QED
      BY <1>7, <2>1, <2>2, <2>3, <2>4
<1>10. ASSUME NEW uid \in Uids, NEW ban \in BOOLEAN, unbindAndRemoveGateway(uid, ban)
       PROVE  users' \in Seq(UserRecords) /\ cnx' \in [Uids -> Uids] /\ banned' \subseteq Names
  <2> DEFINE i == getUser(uid)
  <2>1. i \in 1 .. Len(users) /\ users[i] \in UserRecords
      BY <1>5, <1>10 DEF unbindAndRemoveGateway
  <2>2. users' = users \/ users' = [users EXCEPT ![i] = [users[i] EXCEPT !.bind = FALSE]]
      BY <1>10 DEF unbindAndRemoveGateway
  <2>3. cnx' = cnx /\ (banned' = banned \/ banned' = banned \cup {users[i].name})
      BY <1>10 DEF unbindAndRemoveGateway
  <2> HIDE DEF i
  <2>4. [users[i] EXCEPT !.bind = FALSE] \in UserRecords /\ users[i].name \in Names
      BY <2>1, Zenon DEF UserRecords
  <2>5. QED
      BY <1>7, <2>1, <2>2, <2>3, <2>4, Zenon
<1>11. ASSUME UNCHANGED userVars
       PROVE  users' \in Seq(UserRecords) /\ cnx' \in [Uids -> Uids] /\ banned' \subseteq Names
    BY <1>11 DEF userVars
<1>12. ASSUME NEW s \in Sessions,
              \/ connectionMade(s) \/ onPDURequest_unbind(s) \/ connectionLost(s)
              \/ \E i \in DOMAIN users, type \in Types : doBindRequest(s, i, type)
       PROVE  UNCHANGED userVars
    BY <1>12, Zenon DEF connectionMade, onPDURequest_unbind, connectionLost, doBindRequest
<1>13. QED
    BY <1>4, <1>6, <1>8, <1>9, <1>10, <1>11, <1>12 DEF Next

\* Sessions that unbind stay with their manager until the connection is lost.
LEMMA UnboundKeeps ==
    ASSUME SessionInv, NEW ss \in SUBSET Sessions, \A s \in ss : session[s].name # None,
           session' = Unbound(ss), UNCHANGED bound_connections
    PROVE  SessionInv'
<1> USE DEF SessionInv
<1>1. \A s \in Sessions : session'[s] = IF s \in ss THEN [session[s] EXCEPT !.state = "unbinding"]
                                                   ELSE session[s]
    BY DEF Unbound
<1>2. ASSUME NEW s \in Sessions
      PROVE  /\ session'[s] \in SessionRecords
             /\ session'[s].name = session[s].name
             /\ session'[s].state \in {"bound", "unbinding"} <=> session'[s].name # None
  <2>1. session[s] \in SessionRecords
      OBVIOUS
  <2>2. CASE s \in ss
    <3>1. session'[s] = [session[s] EXCEPT !.state = "unbinding"] /\ session[s].name # None
        BY <1>1, <2>2
    <3>2. QED
        BY <2>1, <3>1 DEF SessionRecords
  <2>3. CASE s \notin ss
      BY <1>1, <2>1, <2>3, Zenon
  <2>4. QED
      BY <2>2, <2>3
<1>3. session' \in [Sessions -> SessionRecords]
    BY <1>2 DEF Unbound
<1>4. \A n \in Names : SessionsOf(n)' = SessionsOf(n) /\ Bindings(n)' = Bindings(n)
    BY <1>2 DEF SessionsOf, Bindings
<1>5. ManagersHaveSessions'
    BY <1>4 DEF ManagersHaveSessions, BoundSystemIds
<1>6. QED
    BY <1>2, <1>3, <1>5

\* One session changes its username; the others, and other usernames, keep theirs.
LEMMA SessionsElsewhere ==
    ASSUME SessionInv, NEW s \in Sessions, NEW e \in SessionRecords,
           session' = [session EXCEPT ![s] = e]
    PROVE  /\ session' \in [Sessions -> SessionRecords]
           /\ \A n \in Names : SessionsOf(n)' = IF e.name = n THEN SessionsOf(n) \cup {s}
                                                            ELSE SessionsOf(n) \ {s}
           /\ (e.state \in {"bound", "unbinding"} <=> e.name # None) =>
                 \A r \in Sessions : session'[r].state \in {"bound", "unbinding"} <=> session'[r].name # None
<1>1. \A r \in Sessions : session'[r] = IF r = s THEN e ELSE session[r]
    BY DEF SessionInv
<1>2. QED
    BY <1>1 DEF SessionInv, SessionsOf

LEMMA MadeKeeps ==
    ASSUME SessionInv, NEW s \in Sessions, connectionMade(s)
    PROVE  SessionInv'
<1> DEFINE e == [session[s] EXCEPT !.state = "open"]
<1>1. session[s] \in SessionRecords /\ session[s].state = "closed" /\ session[s].name = None
    BY DEF SessionInv, connectionMade
<1>2. e \in SessionRecords /\ e.state = "open" /\ e.name = None
    BY <1>1 DEF SessionRecords
<1>3. session' = [session EXCEPT ![s] = e] /\ UNCHANGED bound_connections
    BY DEF connectionMade
<1> HIDE DEF e
<1>4. \A n \in Names : SessionsOf(n)' = SessionsOf(n) /\ Bindings(n)' = Bindings(n)
    BY <1>1, <1>2, <1>3, SessionsElsewhere, ServerConstants DEF SessionsOf, Bindings
<1>5. ManagersHaveSessions'
    BY <1>3, <1>4 DEF SessionInv, ManagersHaveSessions, BoundSystemIds
<1>6. QED
    BY <1>2, <1>3, <1>5, SessionsElsewhere DEF SessionInv

\* The manager of a username after one more session.
LEMMA AddedManager ==
    ASSUME SessionInv, NEW s \in Sessions, NEW n \in Names, NEW uid \in Uids
    PROVE  /\ addBoundConnection(s, n, uid) \in Managers
           /\ addBoundConnection(s, n, uid).bindings = Bindings(n) \cup {s}
           /\ addBoundConnection(s, n, uid).uid =
                 IF bound_connections[n] = None THEN uid ELSE bound_connections[n].uid
<1>1. CASE bound_connections[n] = None
    BY <1>1 DEF addBoundConnection, Bindings, Managers
<1>2. CASE bound_connections[n] # None
  <2>1. bound_connections[n] \in Managers
      BY <1>2 DEF SessionInv
  <2>2. QED
      BY <1>2, <2>1 DEF addBoundConnection, Bindings, Managers
<1>3. QED
    BY <1>1, <1>2

\* A manager is not None.
LEMMA ManagerIsSome == \A m \in Managers : m # None
BY ServerConstants DEF Managers

\* What a bind does, in the terms of the lemmas.
LEMMA BindEffect ==
    ASSUME TypeOK, NEW s \in Sessions, NEW i \in DOMAIN users, NEW type \in Types,
           doBindRequest(s, i, type)
    PROVE  \E n \in Names, uid \in Uids :
              /\ n = users[i].name /\ uid = users[UserNamed(n)].uid
              /\ users[UserNamed(n)].name = n
              /\ UserNamed(n) \in DOMAIN users
              /\ session[s].state = "open"
              /\ session' = [session EXCEPT ![s] = [state |-> "bound", name |-> n, uid |-> uid,
                                                    type |-> type]]
              /\ bound_connections' = [bound_connections EXCEPT ![n] = addBoundConnection(s, n, uid)]
              /\ addBinding(cnx[addBoundConnection(s, n, uid).uid], s, type)
<1>1. DOMAIN users = 1 .. Len(users) /\ \A j \in 1 .. Len(users) : users[j] \in UserRecords
    BY LenProperties, ElementOfSeq DEF TypeOK
<1>2. UserNamed(users[i].name) \in 1 .. Len(users) /\ users[UserNamed(users[i].name)].name = users[i].name
    BY <1>1, NamedIsFound DEF TypeOK
<1>3. users[i].name \in Names /\ users[UserNamed(users[i].name)].uid \in Uids
    BY <1>1, <1>2, Zenon DEF UserRecords
<1>4. QED
    BY <1>1, <1>2, <1>3, Zenon DEF doBindRequest

LEMMA BindKeeps ==
    ASSUME TypeOK, SessionInv, NEW s \in Sessions, NEW i \in DOMAIN users, NEW type \in Types,
           doBindRequest(s, i, type)
    PROVE  SessionInv'
<1>1. PICK n \in Names, uid \in Uids :
          /\ session[s].state = "open"
          /\ session' = [session EXCEPT ![s] = [state |-> "bound", name |-> n, uid |-> uid,
                                                type |-> type]]
          /\ bound_connections' = [bound_connections EXCEPT ![n] = addBoundConnection(s, n, uid)]
    BY BindEffect
<1> DEFINE e == [state |-> "bound", name |-> n, uid |-> uid, type |-> type]
           manager == addBoundConnection(s, n, uid)
<1>2. e \in SessionRecords /\ e.name = n /\ e.state = "bound" /\ n # None
    BY ServerConstants DEF SessionRecords
<1>3. manager \in Managers /\ manager.bindings = Bindings(n) \cup {s} /\ manager # None
    BY AddedManager, ManagerIsSome
<1>4. session' = [session EXCEPT ![s] = e] /\ bound_connections' = [bound_connections EXCEPT ![n] = manager]
    BY <1>1
<1> HIDE DEF e, manager
<1>5. \A m \in Names : s \notin SessionsOf(m)
    BY <1>1, ServerConstants DEF SessionInv, SessionsOf
<1>6. ASSUME NEW m \in Names
      PROVE  SessionsOf(m)' = IF m = n THEN SessionsOf(n) \cup {s} ELSE SessionsOf(m)
  <2>1. SessionsOf(m)' = IF e.name = m THEN SessionsOf(m) \cup {s} ELSE SessionsOf(m) \ {s}
      BY <1>2, <1>4, SessionsElsewhere, Zenon
  <2>2. SessionsOf(m) \ {s} = SessionsOf(m)
      BY <1>5
  <2>3. QED
      BY <1>2, <2>1, <2>2
<1>7. bound_connections' \in [Names -> Managers \cup {None}]
    BY <1>3, <1>4 DEF SessionInv
<1>8. \A m \in Names : bound_connections'[m] = IF m = n THEN manager ELSE bound_connections[m]
    BY <1>4 DEF SessionInv
<1>9. ASSUME NEW m \in Names
      PROVE  /\ m \in BoundSystemIds' <=> SessionsOf(m)' # {}
             /\ Bindings(m)' = SessionsOf(m)'
  <2>1. Bindings(m) = SessionsOf(m) /\ (m \in BoundSystemIds <=> SessionsOf(m) # {})
      BY DEF SessionInv, ManagersHaveSessions
  <2>2. CASE m = n
      BY <1>3, <1>6, <1>8, <2>1, <2>2, Zenon DEF Bindings, BoundSystemIds
  <2>3. CASE m # n
      BY <1>6, <1>8, <2>1, <2>3 DEF Bindings, BoundSystemIds
  <2>4. QED
      BY <2>2, <2>3
<1>10. ManagersHaveSessions'
    BY <1>9 DEF ManagersHaveSessions
<1>11. QED
    BY <1>2, <1>4, <1>7, <1>10, SessionsElsewhere DEF SessionInv

\* What the loss of a connection does to the managers: nothing when the session
\* had no username, else its manager loses it, and goes with the last one.
LEMMA LostKeeps ==
    ASSUME SessionInv, NEW s \in Sessions, connectionLost(s)
    PROVE  SessionInv'
<1>1. Closed \in SessionRecords /\ Closed.name = None /\ Closed.state = "closed"
    BY DEF Closed, SessionRecords
<1>2. session' = [session EXCEPT ![s] = Closed] /\ removeConnection(s)
    BY DEF connectionLost
<1> HIDE DEF Closed
<1>3. ASSUME NEW m \in Names PROVE SessionsOf(m)' = SessionsOf(m) \ {s}
    BY <1>1, <1>2, SessionsElsewhere, ServerConstants, Zenon
<1>4. session[s] \in SessionRecords
    BY DEF SessionInv
<1>5. ASSUME NEW m \in Names
      PROVE  Bindings(m) = SessionsOf(m) /\ (bound_connections[m] # None <=> SessionsOf(m) # {})
    BY DEF SessionInv, ManagersHaveSessions, BoundSystemIds
<1>6. CASE session[s].name = None
  <2>1. bound_connections' = bound_connections
      BY <1>2, <1>6 DEF removeConnection
  <2>2. ASSUME NEW m \in Names PROVE SessionsOf(m)' = SessionsOf(m)
      BY <1>3, <1>6, ServerConstants DEF SessionsOf
  <2>3. ManagersHaveSessions'
      BY <1>5, <2>1, <2>2 DEF ManagersHaveSessions, BoundSystemIds, Bindings
  <2>4. QED
      BY <1>1, <1>2, <2>1, <2>3, SessionsElsewhere DEF SessionInv
<1>7. CASE session[s].name # None
  <2> DEFINE n == session[s].name
             manager == bound_connections[n]
             left == manager.bindings \ {s}
             after == IF left = {} THEN None ELSE [manager EXCEPT !.bindings = left]
  <2>1. n \in Names /\ s \in SessionsOf(n)
      BY <1>4, <1>7 DEF SessionRecords, SessionsOf
  <2>2. manager \in Managers /\ manager # None /\ manager.bindings = SessionsOf(n)
      BY <1>5, <2>1 DEF SessionInv, Bindings
  <2>3. bound_connections' = [bound_connections EXCEPT ![n] = after]
      BY <1>2, <1>7 DEF removeConnection
  <2>4. /\ left = {} => after = None
        /\ left # {} => after \in Managers /\ after.bindings = left
      BY <2>2 DEF Managers
  <2>5. left = SessionsOf(n) \ {s}
      BY <2>2
  <2> HIDE DEF n, manager, left, after
  <2>6. bound_connections' \in [Names -> Managers \cup {None}]
      BY <2>3, <2>4, Zenon DEF SessionInv
  <2>7. \A m \in Names : bound_connections'[m] = IF m = n THEN after ELSE bound_connections[m]
      BY <2>3 DEF SessionInv
  <2>8. ASSUME NEW m \in Names
        PROVE  /\ m \in BoundSystemIds' <=> SessionsOf(m)' # {}
               /\ Bindings(m)' = SessionsOf(m)'
    <3>1. CASE m = n
        BY <1>3, <2>4, <2>5, <2>7, <3>1, ManagerIsSome DEF Bindings, BoundSystemIds
    <3>2. CASE m # n
      <4>1. s \notin SessionsOf(m)
          BY <3>2 DEF SessionsOf, n
      <4>2. SessionsOf(m)' = SessionsOf(m)
          BY <1>3, <4>1
      <4>3. QED
          BY <1>5, <2>7, <3>2, <4>2 DEF Bindings, BoundSystemIds
    <3>3. QED
        BY <3>1, <3>2
  <2>9. ManagersHaveSessions'
      BY <2>8 DEF ManagersHaveSessions
  <2>10. QED
      BY <1>1, <1>2, <2>6, <2>9, SessionsElsewhere DEF SessionInv
<1>8. QED
    BY <1>6, <1>7

StatusTyped == count \in [Uids -> [Types -> Int]] /\ bound_peer_ips \in [Uids -> SUBSET Sessions]

\* Binds and losses count in numbers.
LEMMA BindCounts ==
    ASSUME TypeOK, SessionInv, NEW s \in Sessions, NEW i \in DOMAIN users, NEW type \in Types,
           doBindRequest(s, i, type)
    PROVE  StatusTyped'
<1>1. PICK n \in Names, uid \in Uids : addBinding(cnx[addBoundConnection(s, n, uid).uid], s, type)
    BY BindEffect
<1>2. PICK o \in Uids : addBinding(o, s, type)
  <2>1. addBoundConnection(s, n, uid).uid \in Uids
      BY AddedManager DEF Managers
  <2>2. QED
      BY <1>1, <2>1 DEF TypeOK
<1>3. count' \in [Uids -> [Types -> Int]]
    BY <1>2 DEF addBinding, TypeOK
<1>4. bound_peer_ips' \in [Uids -> SUBSET Sessions]
    BY <1>2 DEF addBinding, TypeOK
<1>5. QED
    BY <1>3, <1>4 DEF StatusTyped

LEMMA LostCounts ==
    ASSUME TypeOK, SessionInv, NEW s \in Sessions, connectionLost(s)
    PROVE  StatusTyped'
<1>1. CASE session[s].name = None
    BY <1>1 DEF connectionLost, removeConnection, statusVars, StatusTyped, TypeOK
<1>2. CASE session[s].name # None
  <2>1. removeBinding(cnx[bound_connections[session[s].name].uid], s, session[s].type)
      BY <1>2 DEF connectionLost, removeConnection
  <2>2. PICK o, type : removeBinding(o, s, type)
      BY <2>1
  <2>3. count' = [count EXCEPT ![o][type] = @ - 1]
      BY <2>2 DEF removeBinding
  <2>4. count' \in [Uids -> [Types -> Int]]
    <3> DEFINE c == [count[o] EXCEPT ![type] = count[o][type] - 1]
    <3>1. count' = [count EXCEPT ![o] = c]
        BY <2>3
    <3>2. CASE o \in Uids
      <4>1. count[o] \in [Types -> Int]
          BY <3>2 DEF TypeOK
      <4>2. c \in [Types -> Int]
        <5>1. CASE type \in Types
            BY <4>1, <5>1
        <5>2. CASE type \notin Types
          <6>1. c = count[o]
              BY <4>1, <5>2
          <6>2. QED
              BY <4>1, <6>1, Zenon
        <5>3. QED
            BY <5>1, <5>2
      <4> HIDE DEF c
      <4>3. QED
          BY <3>1, <4>2, Zenon DEF TypeOK
    <3>3. CASE o \notin Uids
      <4> HIDE DEF c
      <4>1. count' = count
          BY <3>1, <3>3 DEF TypeOK
      <4>2. QED
          BY <4>1 DEF TypeOK
    <3>4. QED
        BY <3>2, <3>3
  <2>5. bound_peer_ips' \in [Uids -> SUBSET Sessions]
      BY <2>2, Zenon DEF removeBinding, TypeOK
  <2>6. QED
      BY <2>4, <2>5 DEF StatusTyped
<1>3. QED
    BY <1>1, <1>2

LEMMA IInvParts ==
    IInv <=> /\ users \in Seq(UserRecords) /\ cnx \in [Uids -> Uids] /\ banned \subseteq Names
             /\ SessionInv /\ StatusTyped
BY DEF IInv, TypeOK, SessionInv, StatusTyped

LEMMA IInvParts2 ==
    IInv' <=> /\ users' \in Seq(UserRecords) /\ cnx' \in [Uids -> Uids] /\ banned' \subseteq Names
              /\ SessionInv' /\ StatusTyped'
BY DEF IInv, TypeOK, SessionInv, StatusTyped

LEMMA NextIInv == IInv /\ [Next]_vars => IInv'
<1> SUFFICES ASSUME IInv, [Next]_vars PROVE IInv'
    OBVIOUS
<1>1. TypeOK /\ SessionInv /\ StatusTyped
    BY IInvParts DEF IInv
<1>2. CASE Next
  <2>1. users' \in Seq(UserRecords) /\ cnx' \in [Uids -> Uids] /\ banned' \subseteq Names
      BY <1>1, <1>2, UsersTyped
  <2>2. ASSUME UNCHANGED <<statusVars, session, bound_connections>> PROVE SessionInv' /\ StatusTyped'
      BY <1>1, <2>2 DEF statusVars, SessionInv, StatusTyped, ManagersHaveSessions, BoundSystemIds,
                        SessionsOf, Bindings
  <2>3. ASSUME NEW a \in Accounts, NEW q \in Quotas, perspective_user_add(a, q)
        PROVE  SessionInv' /\ StatusTyped'
      BY <2>2, <2>3 DEF perspective_user_add
  <2>4. ASSUME NEW uid \in Uids, perspective_user_remove(uid) PROVE SessionInv' /\ StatusTyped'
      BY <2>2, <2>4 DEF perspective_user_remove
  <2>5. ASSUME NEW uid \in Uids, NEW b \in BOOLEAN, SetEnabled(uid, b)
        PROVE  SessionInv' /\ StatusTyped'
      BY <2>2, <2>5 DEF SetEnabled
  <2>6. ASSUME NEW uid \in Uids, NEW b \in BOOLEAN, NEW q \in Quotas, update_session(uid, b, q)
        PROVE  SessionInv' /\ StatusTyped'
      BY <2>2, <2>6 DEF update_session
  <2>7. ASSUME NEW uid \in Uids, NEW ban \in BOOLEAN, unbindAndRemoveGateway(uid, ban)
        PROVE  SessionInv' /\ StatusTyped'
    <3> DEFINE i == getUser(uid)
    <3>1. i # 0 /\ session' = Unbound(Bindings(users[i].name))
          /\ UNCHANGED <<statusVars, bound_connections>>
        BY <2>7 DEF unbindAndRemoveGateway
    <3>2. i \in 1 .. Len(users)
        BY <1>1, <3>1, FoundInUsers, LenProperties DEF TypeOK
    <3> HIDE DEF i
    <3>3. users[i].name \in Names
      <4>1. users[i] \in UserRecords
          BY <1>1, <3>2, ElementOfSeq DEF TypeOK
      <4>2. QED
          BY <4>1 DEF UserRecords
    <3>4. Bindings(users[i].name) = SessionsOf(users[i].name)
        BY <1>1, <3>3 DEF SessionInv, ManagersHaveSessions
    <3>5. /\ SessionsOf(users[i].name) \in SUBSET Sessions
          /\ \A s \in SessionsOf(users[i].name) : session[s].name # None
        BY <3>3, ServerConstants DEF SessionsOf
    <3>6. SessionInv'
        BY <1>1, <3>1, <3>4, <3>5, UnboundKeeps
    <3>7. QED
        BY <1>1, <3>1, <3>6 DEF statusVars, StatusTyped
  <2>8. ASSUME NEW s \in Sessions, connectionMade(s) PROVE SessionInv' /\ StatusTyped'
    <3>1. SessionInv'
        BY <1>1, <2>8, MadeKeeps
    <3>2. QED
        BY <1>1, <2>8, <3>1 DEF connectionMade, statusVars, StatusTyped
  <2>9. ASSUME NEW s \in Sessions, onPDURequest_unbind(s) PROVE SessionInv' /\ StatusTyped'
    <3>1. session[s].name # None
        BY <1>1, <2>9 DEF SessionInv, onPDURequest_unbind
    <3>2. SessionInv'
        BY <1>1, <2>9, <3>1, UnboundKeeps DEF onPDURequest_unbind
    <3>3. QED
        BY <1>1, <2>9, <3>2 DEF onPDURequest_unbind, statusVars, StatusTyped
  <2>10. ASSUME NEW s \in Sessions, connectionLost(s) PROVE SessionInv' /\ StatusTyped'
      BY <1>1, <2>10, LostKeeps, LostCounts
  <2>11. ASSUME NEW s \in Sessions, NEW i \in DOMAIN users, NEW type \in Types,
                doBindRequest(s, i, type)
         PROVE  SessionInv' /\ StatusTyped'
      BY <1>1, <2>11, BindKeeps, BindCounts
  <2>12. SessionInv' /\ StatusTyped'
      BY <1>2, <2>3, <2>4, <2>5, <2>6, <2>7, <2>8, <2>9, <2>10, <2>11 DEF Next
  <2>13. QED
      BY <2>1, <2>12, IInvParts2
<1>3. CASE UNCHANGED vars
    BY <1>3 DEF vars, IInv, TypeOK, ManagersHaveSessions, BoundSystemIds, SessionsOf, Bindings
<1>4. QED
    BY <1>2, <1>3

\* The invariant holds in every reachable state of the SMPP server, also where a
\* username passes from one uid to another.
THEOREM ServerInvariance == Spec => []IInv
<1>1. QED
    BY InitIInv, NextIInv, PTL DEF Spec

\* A username has a bind manager exactly while it has sessions, and the manager
\* has exactly those (addBoundConnection, removeConnection).
THEOREM SessionsAreManaged == Spec => []ManagersHaveSessions
<1>1. IInv => ManagersHaveSessions
    BY DEF IInv
<1>2. QED
    BY <1>1, ServerInvariance, PTL

-----------------------------------------------------------------------------
(* The counts, where usernames and uids go together one to one. *)

OneName == \A a, b \in Accounts : a.uid = b.uid <=> a.name = b.name

OfType(n, t) == {s \in SessionsOf(n) : session[s].type = t}

\* Every CnxStatus stays with its uid and every manager with the uid of its
\* username; a bound session has a bind type.
AccountInv ==
    /\ \A u \in Uids : cnx[u] = u
    /\ \A n \in Names : bound_connections[n] # None =>
          [uid |-> bound_connections[n].uid, name |-> n] \in Accounts
    /\ \A s \in Sessions : session[s].name # None => session[s].type \in Types

\* The CnxStatus of an account counts the sessions of its username.
CountInv ==
    \A a \in Accounts :
        /\ bound_peer_ips[a.uid] = SessionsOf(a.name)
        /\ \A t \in Types : count[a.uid][t] = Cardinality(OfType(a.name, t))

LEMMA InitCounts == Init => AccountInv /\ CountInv
<1> SUFFICES ASSUME Init PROVE AccountInv /\ CountInv
    OBVIOUS
<1>1. \A a \in Accounts : a.uid \in Uids /\ a.name \in Names
    BY DEF Uids, Names
<1>2. \A s \in Sessions : session[s].name = None
    BY DEF Init, Closed
<1>3. \A n \in Names : SessionsOf(n) = {} /\ \A t : OfType(n, t) = {}
    BY <1>2, ServerConstants DEF SessionsOf, OfType
<1>4. AccountInv
    BY <1>2 DEF Init, AccountInv
<1>5. CountInv
    BY <1>1, <1>3, FS_EmptySet, Zenon DEF Init, CountInv
<1>6. QED
    BY <1>4, <1>5

\* A session is of finitely many, and so are those of a username and a type.
LEMMA OfTypeFinite == \A n, t : IsFiniteSet(OfType(n, t))
<1>1. ASSUME NEW n, NEW t PROVE IsFiniteSet(OfType(n, t))
  <2>1. OfType(n, t) \subseteq Sessions
      BY DEF OfType, SessionsOf
  <2>2. QED
      BY <2>1, FS_Subset, ServerConstants
<1>2. QED
    BY <1>1

\* What neither binds nor loses a session keeps the counts.
LEMMA CountsKept ==
    ASSUME AccountInv, CountInv, UNCHANGED <<statusVars, bound_connections>>,
           \A u \in Uids : cnx'[u] = cnx[u],
           \A s \in Sessions : session'[s].name = session[s].name /\ session'[s].type = session[s].type
    PROVE  AccountInv' /\ CountInv'
<1>1. AccountInv'
    BY DEF AccountInv
<1>2. \A n, t : SessionsOf(n)' = SessionsOf(n) /\ OfType(n, t)' = OfType(n, t)
    BY DEF SessionsOf, OfType
<1>3. CountInv'
    BY <1>2 DEF CountInv, statusVars
<1>4. QED
    BY <1>1, <1>3

\* Adding a user hands on a CnxStatus that is the user's own already.
LEMMA LikeIsSame ==
    ASSUME OneName, TypeOK, NEW a \in Accounts, UserLike(a) # 0
    PROVE  UserLike(a) \in 1 .. Len(users) /\ users[UserLike(a)].uid = a.uid
<1> DEFINE T == {i \in 1 .. Len(users) : users[i].uid = a.uid \/ users[i].name = a.name}
<1>1. UserLike(a) = IF T # {} THEN Min(T) ELSE 0
    BY DEF UserLike, SelectInSeq
<1>2. T \subseteq Nat
    BY LenProperties DEF TypeOK
<1>3. UserLike(a) \in T
  <2> HIDE DEF T
  <2>1. QED
      BY <1>1, <1>2, MinIsMember, Zenon
<1>4. PICK i \in 1 .. Len(users) : i = UserLike(a) /\ (users[i].uid = a.uid \/ users[i].name = a.name)
    BY <1>3
<1>5. users[i] \in UserRecords
    BY ElementOfSeq DEF TypeOK
<1>6. users[i].uid = a.uid
  <2>1. PICK b \in Accounts : b.uid = users[i].uid /\ b.name = users[i].name
      BY <1>5 DEF UserRecords
  <2>2. QED
      BY <1>4, <2>1 DEF OneName
<1>7. QED
    BY <1>4, <1>6

LEMMA BindCountsSession ==
    ASSUME OneName, IInv, AccountInv, CountInv, NEW s \in Sessions, NEW i \in DOMAIN users,
           NEW type \in Types, doBindRequest(s, i, type)
    PROVE  AccountInv' /\ CountInv'
<1>1. TypeOK /\ SessionInv
    BY IInvParts DEF IInv
<1>2. PICK n \in Names, uid \in Uids :
          /\ uid = users[UserNamed(n)].uid /\ users[UserNamed(n)].name = n
          /\ UserNamed(n) \in DOMAIN users
          /\ session[s].state = "open"
          /\ session' = [session EXCEPT ![s] = [state |-> "bound", name |-> n, uid |-> uid,
                                                type |-> type]]
          /\ bound_connections' = [bound_connections EXCEPT ![n] = addBoundConnection(s, n, uid)]
          /\ addBinding(cnx[addBoundConnection(s, n, uid).uid], s, type)
    BY <1>1, BindEffect, Zenon
<1>3. [uid |-> uid, name |-> n] \in Accounts
  <2>1. users[UserNamed(n)] \in UserRecords
      BY <1>1, <1>2, ElementOfSeq, LenProperties DEF TypeOK
  <2>2. QED
      BY <1>2, <2>1 DEF UserRecords
<1>4. addBoundConnection(s, n, uid).uid = uid
  <2>1. CASE bound_connections[n] = None
      BY <1>1, <2>1, AddedManager
  <2>2. CASE bound_connections[n] # None
    <3>1. [uid |-> bound_connections[n].uid, name |-> n] \in Accounts
        BY <2>2 DEF AccountInv
    <3>2. bound_connections[n].uid = uid
        BY <1>3, <3>1 DEF OneName
    <3>3. QED
        BY <1>1, <2>2, <3>2, AddedManager
  <2>3. QED
      BY <2>1, <2>2
<1>5. addBinding(uid, s, type)
    BY <1>2, <1>4 DEF AccountInv
<1>6. \A a \in Accounts : a.uid \in Uids /\ a.name \in Names /\ (a.uid = uid <=> a.name = n)
    BY <1>3 DEF OneName, Uids, Names
<1>7. \A r \in Sessions : session'[r] = IF r = s THEN [state |-> "bound", name |-> n, uid |-> uid,
                                                       type |-> type]
                                      ELSE session[r]
    BY <1>1, <1>2, Zenon DEF SessionInv
<1>8. session[s].name = None
    BY <1>1, <1>2 DEF SessionInv
<1>9. ASSUME NEW m \in Names
      PROVE  /\ SessionsOf(m)' = IF m = n THEN SessionsOf(m) \cup {s} ELSE SessionsOf(m)
             /\ \A t : OfType(m, t)' = IF m = n /\ t = type THEN OfType(m, t) \cup {s} ELSE OfType(m, t)
             /\ \A t : s \notin OfType(m, t)
  <2>1. s \notin SessionsOf(m) /\ \A t : s \notin OfType(m, t)
      BY <1>8, ServerConstants, Zenon DEF SessionsOf, OfType
  <2>2. ASSUME NEW r \in Sessions
        PROVE  /\ session'[r].name = IF r = s THEN n ELSE session[r].name
               /\ session'[r].type = IF r = s THEN type ELSE session[r].type
      BY <1>7
  <2>3. SessionsOf(m)' = IF m = n THEN SessionsOf(m) \cup {s} ELSE SessionsOf(m)
      BY <2>1, <2>2 DEF SessionsOf
  <2>4. ASSUME NEW t
        PROVE  OfType(m, t)' = IF m = n /\ t = type THEN OfType(m, t) \cup {s} ELSE OfType(m, t)
      BY <2>1, <2>2 DEF OfType, SessionsOf
  <2>5. QED
      BY <2>1, <2>3, <2>4, Zenon
<1>10. AccountInv'
  <2>1. \A m \in Names : bound_connections'[m] =
            IF m = n THEN addBoundConnection(s, n, uid) ELSE bound_connections[m]
      BY <1>1, <1>2, Zenon DEF SessionInv
  <2>2. cnx' = cnx
      BY Zenon DEF doBindRequest, userVars
  <2>3. \A m \in Names : bound_connections'[m] # None =>
            [uid |-> bound_connections'[m].uid, name |-> m] \in Accounts
    <3>1. ASSUME NEW m \in Names, bound_connections'[m] # None
          PROVE  [uid |-> bound_connections'[m].uid, name |-> m] \in Accounts
      <4>1. CASE m = n
        <5>1. bound_connections'[m].uid = uid
            BY <1>4, <2>1, <4>1, Zenon
        <5>2. QED
            BY <1>3, <4>1, <5>1, Zenon
      <4>2. CASE m # n
        <5>1. bound_connections'[m] = bound_connections[m]
            BY <2>1, <4>2, Zenon
        <5>2. QED
            BY <3>1, <5>1, Zenon DEF AccountInv
      <4>3. QED
          BY <4>1, <4>2, Zenon
    <3>2. QED
        BY <3>1, Zenon
  <2>4. \A r \in Sessions : session'[r].name # None => session'[r].type \in Types
      BY <1>7 DEF AccountInv
  <2>5. QED
      BY <2>2, <2>3, <2>4 DEF AccountInv
<1>11. ASSUME NEW a \in Accounts PROVE bound_peer_ips'[a.uid] = SessionsOf(a.name)'
  <2>1. bound_peer_ips'[a.uid] = IF a.uid = uid THEN bound_peer_ips[a.uid] \cup {s} ELSE bound_peer_ips[a.uid]
      BY <1>1, <1>5, <1>6, Zenon DEF addBinding, TypeOK
  <2>2. bound_peer_ips[a.uid] = SessionsOf(a.name)
      BY DEF CountInv
  <2>3. QED
      BY <1>6, <1>9, <2>1, <2>2, Zenon
<1>12. ASSUME NEW a \in Accounts, NEW t \in Types
       PROVE  count'[a.uid][t] = Cardinality(OfType(a.name, t)')
  <2>1. count'[a.uid][t] = IF a.uid = uid /\ t = type THEN count[a.uid][t] + 1 ELSE count[a.uid][t]
      BY <1>1, <1>5, <1>6 DEF addBinding, TypeOK
  <2>2. count[a.uid][t] = Cardinality(OfType(a.name, t))
      BY DEF CountInv
  <2>3. CASE a.uid = uid /\ t = type
    <3>1. OfType(a.name, t)' = OfType(a.name, t) \cup {s} /\ s \notin OfType(a.name, t)
        BY <1>6, <1>9, <2>3
    <3>2. Cardinality(OfType(a.name, t) \cup {s}) = Cardinality(OfType(a.name, t)) + 1
        BY <3>1, OfTypeFinite, FS_AddElement, Zenon
    <3>3. QED
        BY <2>1, <2>2, <2>3, <3>1, <3>2
  <2>4. CASE ~(a.uid = uid /\ t = type)
    <3>1. OfType(a.name, t)' = OfType(a.name, t)
        BY <1>6, <1>9, <2>4
    <3>2. QED
        BY <2>1, <2>2, <2>4, <3>1
  <2>5. QED
      BY <2>3, <2>4
<1>13. QED
    BY <1>10, <1>11, <1>12 DEF CountInv

LEMMA LossUncountsSession ==
    ASSUME OneName, IInv, AccountInv, CountInv, NEW s \in Sessions, connectionLost(s)
    PROVE  AccountInv' /\ CountInv'
<1>1. TypeOK /\ SessionInv /\ session[s] \in SessionRecords
    BY IInvParts DEF IInv, SessionInv
<1>2. \A r \in Sessions : session'[r] = IF r = s THEN Closed ELSE session[r]
    BY <1>1 DEF SessionInv, connectionLost
<1>3. Closed.name = None /\ Closed.type = None
    BY DEF Closed
<1>4. CASE session[s].name = None
  <2>1. UNCHANGED <<statusVars, bound_connections>> /\ cnx' = cnx
      BY <1>4 DEF connectionLost, removeConnection, userVars
  <2>2. ASSUME NEW m \in Names
        PROVE  SessionsOf(m)' = SessionsOf(m) /\ \A t : OfType(m, t)' = OfType(m, t)
      BY <1>2, <1>3, <1>4, ServerConstants DEF SessionsOf, OfType
  <2>3. AccountInv'
      BY <1>2, <1>3, <2>1 DEF AccountInv
  <2>4. \A a \in Accounts : a.name \in Names
      BY DEF Names
  <2>5. CountInv'
      BY <2>1, <2>2, <2>4 DEF CountInv, statusVars
  <2>6. QED
      BY <2>3, <2>5
<1>5. CASE session[s].name # None
  <2>1. PICK n \in Names : n = session[s].name
      BY <1>1, <1>5 DEF SessionRecords
  <2>2. PICK type \in Types : type = session[s].type
      BY <1>5 DEF AccountInv
  <2>3. s \in SessionsOf(n) /\ s \in OfType(n, type)
      BY <2>1, <2>2 DEF SessionsOf, OfType
  <2>4. bound_connections[n] # None
      BY <1>1, <2>3 DEF SessionInv, ManagersHaveSessions, BoundSystemIds
  <2>5. PICK uid \in Uids : uid = bound_connections[n].uid /\ [uid |-> uid, name |-> n] \in Accounts
      BY <1>1, <2>4 DEF AccountInv, SessionInv, Managers
  <2>6. removeBinding(uid, s, type)
      BY <1>5, <2>1, <2>2, <2>5 DEF connectionLost, removeConnection, AccountInv
  <2>7. \A a \in Accounts : a.uid \in Uids /\ a.name \in Names /\ (a.uid = uid <=> a.name = n)
      BY <2>5 DEF OneName, Uids, Names
  <2>8. ASSUME NEW m \in Names
        PROVE  /\ SessionsOf(m)' = IF m = n THEN SessionsOf(m) \ {s} ELSE SessionsOf(m)
               /\ \A t : OfType(m, t)' = IF m = n /\ t = type THEN OfType(m, t) \ {s} ELSE OfType(m, t)
      BY <1>2, <1>3, <2>1, <2>2, ServerConstants DEF SessionsOf, OfType
  <2>9. AccountInv'
    <3>1. cnx' = cnx
        BY DEF connectionLost, userVars
    <3>2. ASSUME NEW m \in Names
          PROVE  bound_connections'[m] = None \/ bound_connections'[m] = bound_connections[m]
                 \/ (m = n /\ bound_connections'[m].uid = uid)
      <4> DEFINE left == bound_connections[n].bindings \ {s}
                 after == IF left = {} THEN None ELSE [bound_connections[n] EXCEPT !.bindings = left]
      <4>1. bound_connections' = [bound_connections EXCEPT ![n] = after]
          BY <1>5, <2>1, Zenon DEF connectionLost, removeConnection
      <4>2. bound_connections[n] \in Managers
          BY <1>1, <2>4 DEF SessionInv
      <4>3. after = None \/ after.uid = uid
          BY <2>5, <4>2 DEF Managers
      <4> HIDE DEF after
      <4>4. bound_connections'[m] = IF m = n THEN after ELSE bound_connections[m]
          BY <1>1, <4>1 DEF SessionInv
      <4>5. QED
          BY <4>3, <4>4
    <3>3. \A m \in Names : bound_connections'[m] # None =>
              [uid |-> bound_connections'[m].uid, name |-> m] \in Accounts
        BY <2>5, <3>2, Zenon DEF AccountInv
    <3>4. \A r \in Sessions : session'[r].name # None => session'[r].type \in Types
        BY <1>2, <1>3 DEF AccountInv
    <3>5. QED
        BY <3>1, <3>3, <3>4 DEF AccountInv
  <2>10. ASSUME NEW a \in Accounts PROVE bound_peer_ips'[a.uid] = SessionsOf(a.name)'
    <3>1. bound_peer_ips'[a.uid] = IF a.uid = uid THEN bound_peer_ips[a.uid] \ {s} ELSE bound_peer_ips[a.uid]
        BY <1>1, <2>6, <2>7, Zenon DEF removeBinding, TypeOK
    <3>2. bound_peer_ips[a.uid] = SessionsOf(a.name)
        BY DEF CountInv
    <3>3. QED
        BY <2>7, <2>8, <3>1, <3>2, Zenon
  <2>11. ASSUME NEW a \in Accounts, NEW t \in Types
         PROVE  count'[a.uid][t] = Cardinality(OfType(a.name, t)')
    <3>1. count'[a.uid][t] = IF a.uid = uid /\ t = type THEN count[a.uid][t] - 1 ELSE count[a.uid][t]
        BY <1>1, <2>6, <2>7 DEF removeBinding, TypeOK
    <3>2. count[a.uid][t] = Cardinality(OfType(a.name, t))
        BY DEF CountInv
    <3>3. CASE a.uid = uid /\ t = type
      <4>1. OfType(a.name, t)' = OfType(a.name, t) \ {s} /\ s \in OfType(a.name, t)
          BY <2>3, <2>7, <2>8, <3>3
      <4>2. Cardinality(OfType(a.name, t) \ {s}) = Cardinality(OfType(a.name, t)) - 1
          BY <4>1, OfTypeFinite, FS_RemoveElement, Zenon
      <4>3. QED
          BY <3>1, <3>2, <3>3, <4>1, <4>2, Zenon
    <3>4. CASE ~(a.uid = uid /\ t = type)
      <4>1. OfType(a.name, t)' = OfType(a.name, t)
          BY <2>7, <2>8, <3>4
      <4>2. QED
          BY <3>1, <3>2, <3>4, <4>1
    <3>5. QED
        BY <3>3, <3>4, Zenon
  <2>12. QED
      BY <2>9, <2>10, <2>11 DEF CountInv
<1>6. QED
    BY <1>4, <1>5

LEMMA NextCounts ==
    ASSUME OneName, IInv, AccountInv, CountInv, [Next]_vars
    PROVE  AccountInv' /\ CountInv'
<1>1. TypeOK
    BY DEF IInv
<1>2. ASSUME UNCHANGED <<statusVars, session, bound_connections>>, \A u \in Uids : cnx'[u] = cnx[u]
      PROVE  AccountInv' /\ CountInv'
    BY <1>2, CountsKept
<1>3. ASSUME NEW a \in Accounts, NEW q \in Quotas, perspective_user_add(a, q)
      PROVE  AccountInv' /\ CountInv'
  <2>1. \A u \in Uids : cnx'[u] = cnx[u]
    <3>1. CASE UserLike(a) = 0
        BY <1>3, <3>1 DEF perspective_user_add
    <3>2. CASE UserLike(a) # 0
      <4>1. cnx' = [cnx EXCEPT ![a.uid] = cnx[users[UserLike(a)].uid]]
          BY <1>3, <3>2 DEF perspective_user_add
      <4>2. users[UserLike(a)].uid = a.uid
          BY <1>1, <3>2, LikeIsSame
      <4>3. QED
          BY <1>1, <4>1, <4>2 DEF TypeOK
    <3>3. QED
        BY <3>1, <3>2
  <2>2. QED
      BY <1>2, <1>3, <2>1 DEF perspective_user_add
<1>4. ASSUME NEW uid, \/ perspective_user_remove(uid)
                      \/ \E b \in BOOLEAN : SetEnabled(uid, b)
                      \/ \E b \in BOOLEAN, q \in Quotas : update_session(uid, b, q)
      PROVE  AccountInv' /\ CountInv'
    BY <1>2, <1>4, Zenon DEF perspective_user_remove, SetEnabled, update_session
<1>5. ASSUME NEW ss, session' = Unbound(ss), UNCHANGED <<cnx, statusVars, bound_connections>>
      PROVE  AccountInv' /\ CountInv'
  <2>1. \A s \in Sessions : session[s] \in SessionRecords
      BY <1>1 DEF TypeOK
  <2>2. \A s \in Sessions : session'[s].name = session[s].name /\ session'[s].type = session[s].type
      BY <1>5, <2>1 DEF Unbound, SessionRecords
  <2>3. QED
      BY <1>5, <2>2, CountsKept
<1>6. ASSUME NEW uid, NEW ban, unbindAndRemoveGateway(uid, ban)
      PROVE  AccountInv' /\ CountInv'
    BY <1>5, <1>6 DEF unbindAndRemoveGateway
<1>7. ASSUME NEW s \in Sessions, connectionMade(s)
      PROVE  AccountInv' /\ CountInv'
  <2>1. \A r \in Sessions : session[r] \in SessionRecords
      BY <1>1 DEF TypeOK
  <2>2. \A r \in Sessions : session'[r] = IF r = s THEN [session[s] EXCEPT !.state = "open"] ELSE session[r]
      BY <1>1, <1>7 DEF TypeOK, connectionMade
  <2>3. \A r \in Sessions : session'[r].name = session[r].name /\ session'[r].type = session[r].type
      BY <2>1, <2>2 DEF SessionRecords
  <2>4. QED
      BY <1>7, <2>3, CountsKept DEF connectionMade, userVars
<1>8. ASSUME NEW s \in Sessions, onPDURequest_unbind(s)
      PROVE  AccountInv' /\ CountInv'
    BY <1>5, <1>8 DEF onPDURequest_unbind, userVars
<1>9. ASSUME NEW s \in Sessions, connectionLost(s)
      PROVE  AccountInv' /\ CountInv'
    BY <1>9, LossUncountsSession
<1>10. ASSUME NEW s \in Sessions, NEW i \in DOMAIN users, NEW type \in Types, doBindRequest(s, i, type)
       PROVE  AccountInv' /\ CountInv'
    BY <1>10, BindCountsSession
<1>11. CASE Next
    BY <1>3, <1>4, <1>6, <1>7, <1>8, <1>9, <1>10, <1>11 DEF Next
<1>12. CASE UNCHANGED vars
  <2>1. UNCHANGED <<statusVars, session, bound_connections, cnx>>
      BY <1>12 DEF vars, statusVars
  <2>2. QED
      BY <1>2, <2>1
<1>13. QED
    BY <1>11, <1>12

\* What the counts of the accounts say of CountsMatch.
LEMMA CountsMatchFollows ==
    ASSUME OneName, IInv, AccountInv, CountInv
    PROVE  CountsMatch
<1>1. SessionInv
    BY IInvParts
<1>2. ASSUME NEW o \in Uids, NEW counted,
             counted = UNION {Bindings(n) : n \in {m \in BoundSystemIds : cnx[bound_connections[m].uid] = o}}
      PROVE  /\ bound_peer_ips[o] = counted
             /\ \A t \in Types : count[o][t] = Cardinality({s \in counted : session[s].type = t})
  <2>1. PICK a \in Accounts : a.uid = o
      BY DEF Uids
  <2>2. a.name \in Names
      BY DEF Names
  <2>3. ASSUME NEW m \in Names, bound_connections[m] # None
        PROVE  cnx[bound_connections[m].uid] = o <=> m = a.name
    <3>1. bound_connections[m].uid \in Uids
        BY <1>1, <2>3 DEF SessionInv, Managers
    <3>2. [uid |-> bound_connections[m].uid, name |-> m] \in Accounts
        BY <2>3 DEF AccountInv
    <3>3. cnx[bound_connections[m].uid] = bound_connections[m].uid
        BY <3>1 DEF AccountInv
    <3>4. bound_connections[m].uid = a.uid <=> m = a.name
        BY <3>2 DEF OneName
    <3>5. QED
        BY <2>1, <3>3, <3>4
  <2>4. Bindings(a.name) = SessionsOf(a.name) /\ (a.name \in BoundSystemIds <=> SessionsOf(a.name) # {})
      BY <1>1, <2>2 DEF SessionInv, ManagersHaveSessions
  <2>5. {m \in BoundSystemIds : cnx[bound_connections[m].uid] = o} = BoundSystemIds \cap {a.name}
      BY <2>3 DEF BoundSystemIds
  <2>6. counted = SessionsOf(a.name)
    <3>1. CASE a.name \in BoundSystemIds
        BY <1>2, <2>4, <2>5, <3>1
    <3>2. CASE a.name \notin BoundSystemIds
        BY <1>2, <2>4, <2>5, <3>2
    <3>3. QED
        BY <3>1, <3>2
  <2>7. \A t : {s \in counted : session[s].type = t} = OfType(a.name, t)
      BY <2>6 DEF OfType
  <2>8. QED
      BY <2>1, <2>6, <2>7, Zenon DEF CountInv
<1>3. QED
    BY <1>2, Zenon DEF CountsMatch

\* Where usernames and uids go together one to one, the counts and the roster that
\* canOpenNewConnection and the statistics look at are those of the sessions
\* that are bound (SMPPBindManager).
THEOREM CountsAreSessions == OneName => (Spec => []CountsMatch)
<1> SUFFICES ASSUME OneName PROVE Spec => []CountsMatch
    OBVIOUS
<1>1. Init => IInv /\ AccountInv /\ CountInv
    BY InitIInv, InitCounts
<1>2. IInv /\ AccountInv /\ CountInv /\ [Next]_vars => (IInv /\ AccountInv /\ CountInv)'
    BY NextIInv, NextCounts
<1>3. IInv /\ AccountInv /\ CountInv => CountsMatch
    BY CountsMatchFollows
<1>4. QED
    BY <1>1, <1>2, <1>3, PTL DEF Spec

\* The cardinality of a disjoint union.
LEMMA DisjointUnion ==
    ASSUME NEW S, NEW T, IsFiniteSet(S), IsFiniteSet(T), S \cap T = {}
    PROVE  IsFiniteSet(S \cup T) /\ Cardinality(S \cup T) = Cardinality(S) + Cardinality(T)
<1>1. Cardinality(S \cap T) = 0
    BY FS_EmptySet
<1>2. Cardinality(S \cup T) = Cardinality(S) + Cardinality(T) - 0 /\ IsFiniteSet(S \cup T)
    BY <1>1, FS_Union
<1>3. Cardinality(S) \in Nat /\ Cardinality(T) \in Nat
    BY FS_CardinalityType
<1>4. QED
    BY <1>2, <1>3

\* The sessions of a username are those of its three bind types.
LEMMA SumOfTypes ==
    ASSUME AccountInv, NEW n \in Names
    PROVE  /\ IsFiniteSet(SessionsOf(n)) /\ Cardinality(SessionsOf(n)) \in Nat
           /\ Cardinality(SessionsOf(n)) = Cardinality(OfType(n, "bind_transmitter"))
                 + Cardinality(OfType(n, "bind_receiver")) + Cardinality(OfType(n, "bind_transceiver"))
<1> DEFINE A == OfType(n, "bind_transmitter")
           B == OfType(n, "bind_receiver")
           C == OfType(n, "bind_transceiver")
<1>1. IsFiniteSet(A) /\ IsFiniteSet(B) /\ IsFiniteSet(C)
    BY OfTypeFinite
<1>2. A \cap B = {} /\ (A \cup B) \cap C = {}
    BY DEF OfType
<1>3. SessionsOf(n) = (A \cup B) \cup C
  <2>1. \A s \in SessionsOf(n) : session[s].type \in Types
      BY ServerConstants DEF SessionsOf, AccountInv
  <2>2. QED
      BY <2>1 DEF OfType, Types
<1> HIDE DEF A, B, C
<1>4. IsFiniteSet(A \cup B) /\ Cardinality(A \cup B) = Cardinality(A) + Cardinality(B)
    BY <1>1, <1>2, DisjointUnion
<1>5. IsFiniteSet((A \cup B) \cup C)
      /\ Cardinality((A \cup B) \cup C) = Cardinality(A \cup B) + Cardinality(C)
    BY <1>1, <1>2, <1>4, DisjointUnion
<1>6. Cardinality(SessionsOf(n)) \in Nat
    BY <1>3, <1>5, FS_CardinalityType
<1>7. QED
    BY <1>3, <1>4, <1>5, <1>6 DEF A, B, C

\* A connection that was open gets a username only by its own bind.
LEMMA OnlyABindNames ==
    ASSUME IInv, [Next]_vars, NEW s \in Sessions, NEW n \in Names,
           session[s].state = "open", session'[s].name = n
    PROVE  \E i \in DOMAIN users, type \in Types : doBindRequest(s, i, type)
<1>1. session[s].name = None /\ n # None /\ session \in [Sessions -> SessionRecords]
    BY ServerConstants DEF IInv, TypeOK
<1>2. session'[s] # session[s]
    BY <1>1
<1>3. session'[s].name # session[s].name
    BY <1>1
<1>4. ASSUME NEW r \in Sessions, NEW e, session' = [session EXCEPT ![r] = e]
      PROVE  r = s /\ e.name = n
    BY <1>1, <1>2, <1>4
<1>5. ASSUME NEW ss, session' = Unbound(ss) PROVE FALSE
  <2>1. session[s] \in SessionRecords
      BY <1>1
  <2>2. QED
      BY <1>3, <1>5, <2>1 DEF Unbound, SessionRecords
<1>6. ASSUME NEW r \in Sessions, connectionMade(r) PROVE FALSE
    BY <1>1, <1>4, <1>6 DEF connectionMade, SessionRecords
<1>7. ASSUME NEW r \in Sessions, connectionLost(r) PROVE FALSE
    BY <1>1, <1>4, <1>7 DEF connectionLost, Closed
<1>8. ASSUME NEW r \in Sessions, NEW i \in DOMAIN users, NEW type \in Types, doBindRequest(r, i, type)
      PROVE  r = s
    BY <1>4, <1>8, Zenon DEF doBindRequest
<1>9. ASSUME NEW a, NEW q, perspective_user_add(a, q) PROVE FALSE
    BY <1>2, <1>9 DEF perspective_user_add
<1>10. ASSUME NEW uid, \/ perspective_user_remove(uid)
                       \/ \E b \in BOOLEAN : SetEnabled(uid, b)
                       \/ \E b \in BOOLEAN, q \in Quotas : update_session(uid, b, q)
       PROVE  FALSE
    BY <1>2, <1>10, Zenon DEF perspective_user_remove, SetEnabled, update_session
<1>11. ASSUME NEW uid, NEW ban, unbindAndRemoveGateway(uid, ban) PROVE FALSE
    BY <1>5, <1>11 DEF unbindAndRemoveGateway
<1>12. ASSUME NEW r \in Sessions, onPDURequest_unbind(r) PROVE FALSE
    BY <1>5, <1>12 DEF onPDURequest_unbind
<1>13. Next
    BY <1>2 DEF vars
<1>14. QED
    BY <1>6, <1>7, <1>8, <1>9, <1>10, <1>11, <1>12, <1>13, Zenon DEF Next

\* What canOpenNewConnection looks at is the number of the username's sessions.
LEMMA CountedSessions ==
    ASSUME AccountInv, CountInv, NEW a \in Accounts
    PROVE  BindCount(a.uid) = Cardinality(SessionsOf(a.name))
<1>1. a.uid \in Uids /\ a.name \in Names
    BY DEF Uids, Names
<1>2. cnx[a.uid] = a.uid
    BY <1>1 DEF AccountInv
<1>3. \A t \in Types : count[a.uid][t] = Cardinality(OfType(a.name, t))
    BY DEF CountInv
<1>4. BindCount(a.uid) = count[a.uid]["bind_transmitter"] + count[a.uid]["bind_receiver"]
                         + count[a.uid]["bind_transceiver"]
    BY <1>2 DEF BindCount
<1>5. BindCount(a.uid) = Cardinality(OfType(a.name, "bind_transmitter"))
          + Cardinality(OfType(a.name, "bind_receiver")) + Cardinality(OfType(a.name, "bind_transceiver"))
    BY <1>3, <1>4 DEF Types
<1>6. QED
    BY <1>1, <1>5, SumOfTypes

LEMMA UserFields ==
    ASSUME NEW u \in UserRecords
    PROVE  /\ u.max_bindings # None => u.max_bindings \in Nat
           /\ \E a \in Accounts : a.uid = u.uid /\ a.name = u.name
<1>1. u.max_bindings \in Quotas /\ [uid |-> u.uid, name |-> u.name] \in Accounts
    BY DEF UserRecords
<1>2. QED
    BY <1>1, ServerConstants, Zenon

\* The session that is bound, with the name it asks for.
LEMMA BoundSession ==
    ASSUME TypeOK, NEW s \in Sessions, NEW i \in DOMAIN users, NEW type \in Types,
           doBindRequest(s, i, type), NEW n \in Names, n = users[i].name
    PROVE  \E uid \in Uids :
              /\ uid = users[UserNamed(n)].uid
              /\ users[UserNamed(n)].name = n /\ UserNamed(n) \in DOMAIN users
              /\ session' = [session EXCEPT ![s] = [state |-> "bound", name |-> n, uid |-> uid,
                                                    type |-> type]]
<1>1. DOMAIN users = 1 .. Len(users) /\ \A j \in 1 .. Len(users) : users[j] \in UserRecords
    BY LenProperties, ElementOfSeq DEF TypeOK
<1>2. UserNamed(n) \in 1 .. Len(users) /\ users[UserNamed(n)].name = n
    BY <1>1, NamedIsFound DEF TypeOK
<1>3. users[UserNamed(n)].uid \in Uids
    BY <1>1, <1>2, Zenon DEF UserRecords
<1>4. QED
    BY <1>1, <1>2, <1>3, Zenon DEF doBindRequest

\* The bind that is let in is counted below the quota.
LEMMA BindIsWithin ==
    ASSUME OneName, IInv, AccountInv, CountInv, NEW s \in Sessions, NEW i \in DOMAIN users,
           NEW type \in Types, doBindRequest(s, i, type),
           NEW n \in Names, n = users[i].name, users[UserNamed(n)].max_bindings # None
    PROVE  Cardinality(SessionsOf(n)') =< users[UserNamed(n)].max_bindings
<1>1. TypeOK /\ SessionInv
    BY IInvParts DEF IInv
<1>2. PICK uid \in Uids :
          /\ uid = users[UserNamed(n)].uid
          /\ users[UserNamed(n)].name = n /\ UserNamed(n) \in DOMAIN users
          /\ session' = [session EXCEPT ![s] = [state |-> "bound", name |-> n, uid |-> uid,
                                                type |-> type]]
    BY <1>1, BoundSession
<1> DEFINE quota == users[UserNamed(n)].max_bindings
<1>3. users[UserNamed(n)] \in UserRecords
    BY <1>1, <1>2, ElementOfSeq, LenProperties, Zenon DEF TypeOK
<1>4. quota \in Nat
    BY <1>3, UserFields, Zenon
<1>5. BindCount(uid) < quota
    BY <1>2, Zenon DEF doBindRequest, canOpenNewConnection
<1> HIDE DEF quota
<1>6. PICK a \in Accounts : a.uid = uid /\ a.name = n
  <2>1. users[UserNamed(n)].uid = uid /\ users[UserNamed(n)].name = n
      BY <1>2
  <2>2. \E a \in Accounts : a.uid = users[UserNamed(n)].uid /\ a.name = users[UserNamed(n)].name
      BY <1>3, UserFields, Zenon
  <2> QED BY <2>1, <2>2, Zenon
<1>7. BindCount(uid) = Cardinality(SessionsOf(n))
    BY <1>6, CountedSessions
<1>8. SessionsOf(n)' \subseteq SessionsOf(n) \cup {s}
    BY <1>1, <1>2, Zenon DEF SessionInv, SessionsOf
<1>9. Cardinality(SessionsOf(n)') =< Cardinality(SessionsOf(n)) + 1
  <2>1. IsFiniteSet(SessionsOf(n)) /\ Cardinality(SessionsOf(n)) \in Nat
      BY SumOfTypes
  <2>2. IsFiniteSet(SessionsOf(n) \cup {s})
        /\ Cardinality(SessionsOf(n) \cup {s}) =< Cardinality(SessionsOf(n)) + 1
    <3>1. /\ IsFiniteSet(SessionsOf(n) \cup {s})
          /\ Cardinality(SessionsOf(n) \cup {s}) =
                IF s \in SessionsOf(n) THEN Cardinality(SessionsOf(n)) ELSE Cardinality(SessionsOf(n)) + 1
        BY <2>1, FS_AddElement, Zenon
    <3>2. QED
        BY <2>1, <3>1
  <2>3. Cardinality(SessionsOf(n)') =< Cardinality(SessionsOf(n) \cup {s})
      BY <1>8, <2>2, FS_Subset
  <2>4. IsFiniteSet(SessionsOf(n)')
      BY <1>8, <2>2, FS_Subset
  <2>5. Cardinality(SessionsOf(n)') \in Nat /\ Cardinality(SessionsOf(n) \cup {s}) \in Nat
      BY <2>2, <2>4, FS_CardinalityType
  <2>6. QED
      BY <2>1, <2>2, <2>3, <2>5
<1>10. Cardinality(SessionsOf(n)) \in Nat /\ Cardinality(SessionsOf(n)') \in Nat
  <2>1. IsFiniteSet(SessionsOf(n) \cup {s})
      BY SumOfTypes, FS_AddElement
  <2>2. QED
      BY <1>8, <2>1, SumOfTypes, FS_Subset, FS_CardinalityType
<1>11. Cardinality(SessionsOf(n)') =< quota
    BY <1>4, <1>5, <1>7, <1>9, <1>10
<1>12. QED
    BY <1>11 DEF quota

\* Where usernames and uids go together one to one, no bind brings a username above the
\* max_bindings of its user (canOpenNewConnection).
THEOREM BindsStayWithinQuota == OneName => (Spec => BindWithinQuota)
<1> SUFFICES ASSUME OneName PROVE Spec => BindWithinQuota
    OBVIOUS
<1> DEFINE Within == \A s \in Sessions, n \in Names :
              session[s].state = "open" /\ session'[s].name = n =>
                  LET quota == users[UserNamed(n)].max_bindings
                  IN  quota # None => Cardinality(Bindings(n)') =< quota
<1>1. Init => IInv /\ AccountInv /\ CountInv
    BY InitIInv, InitCounts
<1>2. IInv /\ AccountInv /\ CountInv /\ [Next]_vars => (IInv /\ AccountInv /\ CountInv)'
    BY NextIInv, NextCounts
<1>3. IInv /\ AccountInv /\ CountInv /\ [Next]_vars => [Within]_vars
  <2> SUFFICES ASSUME IInv, AccountInv, CountInv, [Next]_vars, NEW s \in Sessions, NEW n \in Names,
                      session[s].state = "open", session'[s].name = n,
                      users[UserNamed(n)].max_bindings # None
               PROVE  Cardinality(Bindings(n)') =< users[UserNamed(n)].max_bindings
      OBVIOUS
  <2>1. PICK i \in DOMAIN users, type \in Types : doBindRequest(s, i, type)
      BY OnlyABindNames
  <2>2. users[i].name = n
    <3>1. session' = [session EXCEPT ![s] = [state |-> "bound", name |-> users[i].name,
                          uid |-> users[UserNamed(users[i].name)].uid, type |-> type]]
        BY <2>1, Zenon DEF doBindRequest
    <3>2. QED
        BY <3>1, Zenon DEF IInv, TypeOK
  <2>3. Cardinality(SessionsOf(n)') =< users[UserNamed(n)].max_bindings
      BY <2>1, <2>2, BindIsWithin
  <2>4. Bindings(n)' = SessionsOf(n)'
    <3>1. IInv'
        BY NextIInv
    <3>2. QED
        BY <3>1 DEF IInv, ManagersHaveSessions
  <2>5. QED
      BY <2>3, <2>4
<1>4. QED
    BY <1>1, <1>2, <1>3, PTL DEF Spec, BindWithinQuota

-----------------------------------------------------------------------------
(* The list of users, and the maximum of bound connections. *)

\* A uid stands for one user: perspective_user_add finds the one to replace.
UniqueUsers == \A i, j \in DOMAIN users : users[i].uid = users[j].uid => i = j

\* The place in q of what is at place j once the element at place i is gone.
Before(i, j) == IF j < i THEN j ELSE j + 1

\* A list without one of its elements, element by element.
LEMMA RemovedElements ==
    ASSUME NEW S, NEW q \in Seq(S), NEW i \in 1 .. Len(q)
    PROVE  /\ \A j \in DOMAIN RemoveAt(q, i) :
                 /\ RemoveAt(q, i)[j] = q[Before(i, j)]
                 /\ Before(i, j) \in 1 .. Len(q) /\ Before(i, j) # i
           /\ \A j, k \in DOMAIN RemoveAt(q, i) : Before(i, j) = Before(i, k) => j = k
<1>1. Len(q) \in Nat /\ \A j \in 1 .. Len(q) : q[j] \in S
    BY LenProperties
<1>2. PICK a : a = SubSeq(q, 1, i - 1)
    BY Zenon
<1>3. PICK b : b = SubSeq(q, i + 1, Len(q))
    BY Zenon
<1>4. a \in Seq(S) /\ Len(a) = i - 1 /\ \A j \in 1 .. i - 1 : a[j] = q[j]
    BY <1>1, <1>2, SubSeqProperties
<1>5. b \in Seq(S) /\ Len(b) = Len(q) - i /\ \A j \in 1 .. Len(q) - i : b[j] = q[i + j]
    BY <1>1, <1>3, SubSeqProperties
<1>6. RemoveAt(q, i) = a \o b
    BY <1>2, <1>3, Zenon DEF RemoveAt
<1>7. /\ a \o b \in Seq(S) /\ Len(a \o b) = Len(a) + Len(b)
      /\ \A j \in 1 .. Len(a) + Len(b) : (a \o b)[j] = IF j =< Len(a) THEN a[j] ELSE b[j - Len(a)]
    BY <1>4, <1>5, ConcatProperties, Zenon
<1>8. Len(a) + Len(b) = Len(q) - 1 /\ DOMAIN (a \o b) = 1 .. Len(q) - 1
  <2>1. Len(a) + Len(b) = Len(q) - 1
      BY <1>1, <1>4, <1>5
  <2>2. QED
      BY <1>7, <2>1, LenProperties
<1>9. ASSUME NEW j \in 1 .. Len(q) - 1
      PROVE  (a \o b)[j] = q[Before(i, j)] /\ Before(i, j) \in 1 .. Len(q) /\ Before(i, j) # i
  <2>1. CASE j < i
    <3>1. j \in 1 .. i - 1 /\ j =< Len(a) /\ j \in 1 .. Len(a) + Len(b) /\ Before(i, j) = j
          /\ j \in 1 .. Len(q) /\ j # i
        BY <1>1, <1>4, <1>8, <2>1 DEF Before
    <3>2. (a \o b)[j] = a[j] /\ a[j] = q[j]
        BY <1>4, <1>7, <3>1, Zenon
    <3>3. QED
        BY <3>1, <3>2, Zenon
  <2>2. CASE ~(j < i)
    <3>1. /\ ~(j =< Len(a)) /\ j \in 1 .. Len(a) + Len(b) /\ Before(i, j) = j + 1
          /\ j - Len(a) \in 1 .. Len(q) - i /\ i + (j - Len(a)) = j + 1
          /\ j + 1 \in 1 .. Len(q) /\ j + 1 # i
      <4>1. PICK n \in Nat : n = Len(q)
          BY <1>1, Zenon
      <4>2. PICK k \in Int : k = Len(a)
          BY <1>4
      <4>3. j \in 1 .. n - 1 /\ i \in 1 .. n /\ k = i - 1 /\ k + Len(b) = n - 1
          BY <1>4, <1>8, <4>1, <4>2, Zenon
      <4>4. /\ ~(j =< k) /\ j \in 1 .. n - 1 /\ j - k \in 1 .. n - i /\ i + (j - k) = j + 1
            /\ j + 1 \in 1 .. n /\ j + 1 # i
          BY <2>2, <4>3
      <4>5. Before(i, j) = j + 1
          BY <2>2, Zenon DEF Before
      <4>6. QED
          BY <1>8, <4>1, <4>2, <4>4, <4>5, Zenon
    <3>2. (a \o b)[j] = b[j - Len(a)] /\ b[j - Len(a)] = q[i + (j - Len(a))]
        BY <1>5, <1>7, <3>1, Zenon
    <3>3. QED
        BY <3>1, <3>2, Zenon
  <2>3. QED
      BY <2>1, <2>2, Zenon
<1>10. ASSUME NEW j \in 1 .. Len(q) - 1, NEW k \in 1 .. Len(q) - 1, Before(i, j) = Before(i, k)
       PROVE  j = k
    BY <1>1, <1>10 DEF Before
<1>11. QED
    BY <1>6, <1>8, <1>9, <1>10, Zenon

\* The users that are left, and one more at the end.
LEMMA RemoveKeepsUnique ==
    ASSUME UniqueUsers, NEW S, users \in Seq(S), NEW i \in 1 .. Len(users)
    PROVE  /\ \A j, k \in DOMAIN RemoveAt(users, i) :
                 RemoveAt(users, i)[j].uid = RemoveAt(users, i)[k].uid => j = k
           /\ \A j \in DOMAIN RemoveAt(users, i) : RemoveAt(users, i)[j].uid # users[i].uid
<1>1. DOMAIN users = 1 .. Len(users)
    BY LenProperties
<1>2. /\ \A j \in DOMAIN RemoveAt(users, i) :
            /\ RemoveAt(users, i)[j] = users[Before(i, j)]
            /\ Before(i, j) \in 1 .. Len(users) /\ Before(i, j) # i
      /\ \A j, k \in DOMAIN RemoveAt(users, i) : Before(i, j) = Before(i, k) => j = k
    BY RemovedElements, Zenon
<1>3. ASSUME NEW j \in DOMAIN RemoveAt(users, i), NEW k \in DOMAIN RemoveAt(users, i),
             RemoveAt(users, i)[j].uid = RemoveAt(users, i)[k].uid
      PROVE  j = k
  <2>1. Before(i, j) = Before(i, k)
      BY <1>1, <1>2, <1>3, Zenon DEF UniqueUsers
  <2>2. QED
      BY <1>2, <2>1, Zenon
<1>4. ASSUME NEW j \in DOMAIN RemoveAt(users, i)
      PROVE  RemoveAt(users, i)[j].uid # users[i].uid
    BY <1>1, <1>2, Zenon DEF UniqueUsers
<1>5. QED
    BY <1>3, <1>4, Zenon

LEMMA AppendKeepsUnique ==
    ASSUME NEW S, NEW q \in Seq(S), NEW u \in S, users' = Append(q, u),
           \A j, k \in DOMAIN q : q[j].uid = q[k].uid => j = k,
           \A j \in DOMAIN q : q[j].uid # u.uid
    PROVE  UniqueUsers'
<1>1. Len(q) \in Nat /\ DOMAIN q = 1 .. Len(q)
    BY LenProperties
<1>2. /\ DOMAIN users' = 1 .. Len(q) + 1 /\ users'[Len(q) + 1] = u
      /\ \A j \in 1 .. Len(q) : users'[j] = q[j]
  <2>1. users' \in Seq(S) /\ Len(users') = Len(q) + 1
      BY AppendProperties
  <2>2. DOMAIN users' = 1 .. Len(users')
      BY <2>1, LenProperties
  <2>3. QED
      BY <2>1, <2>2, AppendProperties
<1>3. \A j \in DOMAIN users' : j \in DOMAIN q \/ j = Len(q) + 1
    BY <1>1, <1>2
<1>4. ASSUME NEW j \in DOMAIN users', NEW k \in DOMAIN users', users'[j].uid = users'[k].uid
      PROVE  j = k
  <2>1. CASE j \in DOMAIN q /\ k \in DOMAIN q
      BY <1>1, <1>2, <1>4, <2>1, Zenon
  <2>2. CASE j \in DOMAIN q /\ k = Len(q) + 1
      BY <1>1, <1>2, <1>4, <2>2, Zenon
  <2>3. CASE k \in DOMAIN q /\ j = Len(q) + 1
      BY <1>1, <1>2, <1>4, <2>3, Zenon
  <2>4. QED
      BY <1>3, <2>1, <2>2, <2>3, Zenon
<1>5. QED
    BY <1>4, Zenon DEF UniqueUsers

\* A user whose uid nobody has is not found.
LEMMA NotFoundIsNew ==
    ASSUME TypeOK, NEW a, UserLike(a) = 0
    PROVE  \A j \in DOMAIN users : users[j].uid # a.uid
<1> DEFINE T == {i \in 1 .. Len(users) : users[i].uid = a.uid \/ users[i].name = a.name}
<1>1. UserLike(a) = IF T # {} THEN Min(T) ELSE 0
    BY DEF UserLike, SelectInSeq
<1>2. T \subseteq Nat /\ 0 \notin T /\ DOMAIN users = 1 .. Len(users)
    BY LenProperties DEF TypeOK
<1>3. T = {}
  <2> HIDE DEF T
  <2>1. QED
      BY <1>1, <1>2, MinIsMember, Zenon
<1>4. QED
    BY <1>2, <1>3

\* perspective_user_add replaces the user that has the uid, and an administrator's
\* other calls leave the uids alone.
LEMMA NextUnique ==
    ASSUME OneName, TypeOK, UniqueUsers, [Next]_vars
    PROVE  UniqueUsers'
<1>1. /\ Len(users) \in Nat /\ DOMAIN users = 1 .. Len(users) /\ users \in Seq(UserRecords)
      /\ \A i \in DOMAIN users : users[i] \in UserRecords
    BY LenProperties, ElementOfSeq DEF TypeOK
<1>2. ASSUME NEW uid, getUser(uid) # 0 PROVE getUser(uid) \in 1 .. Len(users)
    BY <1>1, <1>2, FoundInUsers
<1>3. ASSUME NEW i \in 1 .. Len(users), NEW e, users' = [users EXCEPT ![i] = e], e.uid = users[i].uid
      PROVE  UniqueUsers'
  <2>1. DOMAIN users' = DOMAIN users /\ \A j \in DOMAIN users : users'[j].uid = users[j].uid
      BY <1>1, <1>3, Zenon
  <2>2. QED
      BY <2>1, Zenon DEF UniqueUsers
<1>4. ASSUME NEW a \in Accounts, NEW q \in Quotas, perspective_user_add(a, q) PROVE UniqueUsers'
  <2>1. PICK rest : rest = IF UserLike(a) = 0 THEN users ELSE RemoveAt(users, UserLike(a))
      BY Zenon
  <2>2. PICK user : user = [uid |-> a.uid, name |-> a.name, enabled |-> TRUE, bind |-> TRUE,
                            max_bindings |-> q]
      BY Zenon
  <2>3. users' = Append(rest, user) /\ user.uid = a.uid
      BY <1>4, <2>1, <2>2 DEF perspective_user_add
  <2>4. /\ rest \in Seq(UserRecords)
        /\ \A j, k \in DOMAIN rest : rest[j].uid = rest[k].uid => j = k
        /\ \A j \in DOMAIN rest : rest[j].uid # user.uid
    <3>1. CASE UserLike(a) = 0
        BY <1>1, <2>1, <2>3, <3>1, NotFoundIsNew, Zenon DEF UniqueUsers
    <3>2. CASE UserLike(a) # 0
      <4>1. UserLike(a) \in 1 .. Len(users) /\ users[UserLike(a)].uid = a.uid
          BY <3>2, LikeIsSame, Zenon
      <4>2. rest = RemoveAt(users, UserLike(a))
          BY <2>1, <3>2, Zenon
      <4>3. rest \in Seq(UserRecords)
          BY <1>1, <4>1, <4>2, RemoveAtType, Zenon
      <4>4. /\ \A j, k \in DOMAIN rest : rest[j].uid = rest[k].uid => j = k
            /\ \A j \in DOMAIN rest : rest[j].uid # users[UserLike(a)].uid
          BY <1>1, <4>1, <4>2, RemoveKeepsUnique, Zenon
      <4>5. QED
          BY <2>3, <4>1, <4>3, <4>4, Zenon
    <3>3. QED
        BY <3>1, <3>2, Zenon
  <2>5. user \in UserRecords
    <3>1. a.uid \in Uids /\ a.name \in Names
        BY DEF Uids, Names
    <3>2. a = [uid |-> a.uid, name |-> a.name]
        BY ServerConstants
    <3>3. QED
        BY <2>2, <3>1, <3>2 DEF UserRecords
  <2>6. QED
      BY <2>3, <2>4, <2>5, AppendKeepsUnique, Zenon
<1>5. ASSUME NEW uid \in Uids, perspective_user_remove(uid) PROVE UniqueUsers'
  <2>1. users' = RemoveAt(users, getUser(uid)) /\ getUser(uid) \in 1 .. Len(users)
      BY <1>2, <1>5, Zenon DEF perspective_user_remove
  <2>2. \A j, k \in DOMAIN users' : users'[j].uid = users'[k].uid => j = k
      BY <1>1, <2>1, RemoveKeepsUnique, Zenon
  <2>3. QED
      BY <2>2, Zenon DEF UniqueUsers
<1>6. ASSUME NEW uid \in Uids, NEW b \in BOOLEAN, SetEnabled(uid, b) PROVE UniqueUsers'
  <2>1. PICK i \in 1 .. Len(users) : users' = [users EXCEPT ![i] = [users[i] EXCEPT !.enabled = b]]
    <3>1. getUser(uid) \in 1 .. Len(users)
        BY <1>2, <1>6, Zenon DEF SetEnabled
    <3>2. QED
        BY <1>6, <3>1, Zenon DEF SetEnabled
  <2>2. [users[i] EXCEPT !.enabled = b].uid = users[i].uid
      BY <1>1, Zenon DEF UserRecords
  <2>3. QED
      BY <1>3, <2>1, <2>2, Zenon
<1>7. ASSUME NEW uid \in Uids, NEW b \in BOOLEAN, NEW q \in Quotas, update_session(uid, b, q)
      PROVE  UniqueUsers'
  <2>1. PICK i \in 1 .. Len(users) :
            users' = [users EXCEPT ![i] = [users[i] EXCEPT !.bind = b, !.max_bindings = q]]
    <3>1. getUser(uid) \in 1 .. Len(users)
        BY <1>2, <1>7, Zenon DEF update_session
    <3>2. QED
        BY <1>1, <1>7, <3>1, Zenon DEF update_session
  <2>2. [users[i] EXCEPT !.bind = b, !.max_bindings = q].uid = users[i].uid
      BY <1>1, Zenon DEF UserRecords
  <2>3. QED
      BY <1>3, <2>1, <2>2, Zenon
<1>8. ASSUME NEW uid \in Uids, NEW ban \in BOOLEAN, unbindAndRemoveGateway(uid, ban)
      PROVE  UniqueUsers'
  <2>1. PICK i \in 1 .. Len(users) :
            users' = users \/ users' = [users EXCEPT ![i] = [users[i] EXCEPT !.bind = FALSE]]
    <3>1. getUser(uid) \in 1 .. Len(users)
        BY <1>2, <1>8, Zenon DEF unbindAndRemoveGateway
    <3>2. QED
        BY <1>8, <3>1, Zenon DEF unbindAndRemoveGateway
  <2>2. [users[i] EXCEPT !.bind = FALSE].uid = users[i].uid
      BY <1>1, Zenon DEF UserRecords
  <2>3. users' = users => UniqueUsers'
      BY Zenon DEF UniqueUsers
  <2>4. QED
      BY <1>3, <2>1, <2>2, <2>3, Zenon
<1>9. ASSUME UNCHANGED users PROVE UniqueUsers'
    BY <1>9, Zenon DEF UniqueUsers
<1>10. ASSUME NEW s \in Sessions,
              \/ connectionMade(s) \/ onPDURequest_unbind(s) \/ connectionLost(s)
              \/ \E i \in DOMAIN users, type \in Types : doBindRequest(s, i, type)
       PROVE  UNCHANGED users
    BY <1>10, Zenon DEF connectionMade, onPDURequest_unbind, connectionLost, doBindRequest, userVars
<1>11. CASE UNCHANGED vars
    BY <1>9, <1>11 DEF vars
<1>12. QED
    BY <1>4, <1>5, <1>6, <1>7, <1>8, <1>9, <1>10, <1>11 DEF Next

\* Where usernames and uids go together one to one, no uid has two users in the list,
\* whatever is added, replaced, changed and removed (perspective_user_add).
LEMMA UsersAreUnique == OneName => (Spec => []UniqueUsers)
<1> SUFFICES ASSUME OneName PROVE Spec => []UniqueUsers
    OBVIOUS
<1>1. Init => UniqueUsers
    BY DEF Init, UniqueUsers
<1>2. IInv /\ UniqueUsers /\ [Next]_vars => UniqueUsers'
    BY NextUnique DEF IInv
<1>3. QED
    BY <1>1, <1>2, ServerInvariance, PTL DEF Spec

\* A session has the uid of its username's account from its bind on, and none before.
SessionUids ==
    \A s \in Sessions :
        /\ session[s].name = None => session[s].uid = None
        /\ session[s].name # None => [uid |-> session[s].uid, name |-> session[s].name] \in Accounts

LEMMA NextSessionUids ==
    ASSUME IInv, SessionUids, [Next]_vars
    PROVE  SessionUids'
<1>1. TypeOK /\ session \in [Sessions -> SessionRecords]
    BY DEF IInv, TypeOK
<1>2. ASSUME \A s \in Sessions : session'[s].name = session[s].name /\ session'[s].uid = session[s].uid
      PROVE  SessionUids'
    BY <1>2, Zenon DEF SessionUids
<1>3. ASSUME NEW ss, session' = Unbound(ss) PROVE SessionUids'
  <2>1. \A s \in Sessions : session[s] \in SessionRecords
      BY <1>1
  <2>2. \A s \in Sessions : session'[s].name = session[s].name /\ session'[s].uid = session[s].uid
      BY <1>3, <2>1 DEF Unbound, SessionRecords
  <2>3. QED
      BY <1>2, <2>2
<1>4. ASSUME NEW s \in Sessions, NEW e, session' = [session EXCEPT ![s] = e],
             \/ e.name = None /\ e.uid = None
             \/ e.name # None /\ [uid |-> e.uid, name |-> e.name] \in Accounts
      PROVE  SessionUids'
  <2>1. session'[s] = e /\ \A r \in Sessions \ {s} : session'[r] = session[r]
      BY <1>1, <1>4
  <2>2. QED
      BY <1>4, <2>1, Zenon DEF SessionUids
<1>5. ASSUME NEW s \in Sessions, connectionMade(s) PROVE SessionUids'
  <2>1. \A r \in Sessions : session[r] \in SessionRecords
      BY <1>1
  <2>2. \A r \in Sessions : session'[r] = IF r = s THEN [session[s] EXCEPT !.state = "open"] ELSE session[r]
      BY <1>1, <1>5 DEF connectionMade
  <2>3. \A r \in Sessions : session'[r].name = session[r].name /\ session'[r].uid = session[r].uid
      BY <2>1, <2>2 DEF SessionRecords
  <2>4. QED
      BY <1>2, <2>3
<1>6. ASSUME NEW s \in Sessions, connectionLost(s) PROVE SessionUids'
  <2>1. session' = [session EXCEPT ![s] = Closed] /\ Closed.name = None /\ Closed.uid = None
      BY <1>6 DEF connectionLost, Closed
  <2>2. QED
      BY <1>4, <2>1, Zenon
<1>7. ASSUME NEW s \in Sessions, NEW i \in DOMAIN users, NEW type \in Types, doBindRequest(s, i, type)
      PROVE  SessionUids'
  <2>1. users[i] \in UserRecords
      BY <1>1, ElementOfSeq, LenProperties DEF TypeOK
  <2>2. users[i].name \in Names /\ users[i].name # None
      BY <2>1, ServerConstants DEF UserRecords
  <2>3. PICK uid \in Uids :
            /\ uid = users[UserNamed(users[i].name)].uid
            /\ users[UserNamed(users[i].name)].name = users[i].name
            /\ UserNamed(users[i].name) \in DOMAIN users
            /\ session' = [session EXCEPT ![s] = [state |-> "bound", name |-> users[i].name, uid |-> uid,
                                                  type |-> type]]
      BY <1>1, <1>7, <2>2, BoundSession
  <2>4. users[UserNamed(users[i].name)] \in UserRecords
      BY <1>1, <2>3, ElementOfSeq, LenProperties, Zenon DEF TypeOK
  <2>5. [uid |-> uid, name |-> users[i].name] \in Accounts
    <3>1. [uid |-> users[UserNamed(users[i].name)].uid, name |-> users[UserNamed(users[i].name)].name]
             \in Accounts
        BY <2>4, Zenon DEF UserRecords
    <3>2. QED
        BY <2>3, <3>1, Zenon
  <2>6. PICK e : e = [state |-> "bound", name |-> users[i].name, uid |-> uid, type |-> type]
      BY Zenon
  <2>7. e.name = users[i].name /\ e.uid = uid
      BY <2>6
  <2>8. session' = [session EXCEPT ![s] = e] /\ [uid |-> e.uid, name |-> e.name] \in Accounts
        /\ e.name # None
      BY <2>2, <2>3, <2>5, <2>6, <2>7, Zenon
  <2>9. QED
      BY <1>4, <2>8, Zenon
<1>8. ASSUME UNCHANGED session PROVE SessionUids'
    BY <1>2, <1>8
<1>9. ASSUME NEW a, NEW q, perspective_user_add(a, q) PROVE SessionUids'
    BY <1>8, <1>9 DEF perspective_user_add
<1>10. ASSUME NEW uid, \/ perspective_user_remove(uid)
                       \/ \E b \in BOOLEAN : SetEnabled(uid, b)
                       \/ \E b \in BOOLEAN, q \in Quotas : update_session(uid, b, q)
       PROVE  SessionUids'
    BY <1>8, <1>10, Zenon DEF perspective_user_remove, SetEnabled, update_session
<1>11. ASSUME NEW uid, NEW ban, unbindAndRemoveGateway(uid, ban) PROVE SessionUids'
    BY <1>3, <1>11 DEF unbindAndRemoveGateway
<1>12. ASSUME NEW s \in Sessions, onPDURequest_unbind(s) PROVE SessionUids'
    BY <1>3, <1>12 DEF onPDURequest_unbind
<1>13. CASE UNCHANGED vars
    BY <1>8, <1>13 DEF vars
<1>14. QED
    BY <1>5, <1>6, <1>7, <1>9, <1>10, <1>11, <1>12, <1>13 DEF Next

\* A bind as seen from the user's uid: the sessions of the uid are those of the
\* username, and the user is the one that canOpenNewConnection looked at.
LEMMA BindIsWithinMaximum ==
    ASSUME OneName, IInv, AccountInv, CountInv, UniqueUsers, SessionUids, SessionUids', [Next]_vars,
           NEW s \in Sessions, NEW i \in DOMAIN users,
           session[s].state = "open", session'[s].uid = users[i].uid, users[i].max_bindings # None
    PROVE  Cardinality({r \in Sessions : session'[r].uid = users[i].uid}) =< users[i].max_bindings
<1>1. TypeOK /\ users[i] \in UserRecords
    BY ElementOfSeq, LenProperties DEF IInv, TypeOK
<1>2. users[i].uid \in Uids /\ users[i].uid # None
    BY <1>1, ServerConstants, Zenon DEF UserRecords
<1>3. PICK a \in Accounts : a.uid = users[i].uid /\ a.name = users[i].name
    BY <1>1, UserFields
<1>4. ASSUME NEW r \in Sessions, session'[r].uid = users[i].uid PROVE session'[r].name = a.name
  <2>1. [uid |-> session'[r].uid, name |-> session'[r].name] \in Accounts
      BY <1>2, <1>4, Zenon DEF SessionUids
  <2>2. PICK b \in Accounts : b = [uid |-> session'[r].uid, name |-> session'[r].name]
      BY <2>1, Zenon
  <2>3. b.uid = session'[r].uid /\ b.name = session'[r].name
      BY <2>2
  <2>4. QED
      BY <1>3, <1>4, <2>3, Zenon DEF OneName
<1>5. a.name \in Names /\ session'[s].name = a.name
    BY <1>4 DEF Names
<1>6. PICK j \in DOMAIN users, type \in Types : doBindRequest(s, j, type)
    BY <1>5, OnlyABindNames
<1>7. users[j].name = a.name
  <2>1. session' = [session EXCEPT ![s] = [state |-> "bound", name |-> users[j].name,
                        uid |-> users[UserNamed(users[j].name)].uid, type |-> type]]
      BY <1>6, Zenon DEF doBindRequest
  <2>2. QED
      BY <1>1, <1>5, <2>1, Zenon DEF TypeOK
<1>8. PICK uid \in Uids :
          /\ uid = users[UserNamed(a.name)].uid /\ UserNamed(a.name) \in DOMAIN users
          /\ session' = [session EXCEPT ![s] = [state |-> "bound", name |-> a.name, uid |-> uid,
                                                type |-> type]]
  <2>1. PICK n \in Names : n = a.name
      BY <1>5, Zenon
  <2>2. \E uid \in Uids :
            /\ uid = users[UserNamed(n)].uid
            /\ users[UserNamed(n)].name = n /\ UserNamed(n) \in DOMAIN users
            /\ session' = [session EXCEPT ![s] = [state |-> "bound", name |-> n, uid |-> uid,
                                                  type |-> type]]
    <3>1. n = users[j].name
        BY <1>7, <2>1, Zenon
    <3>2. QED
        BY <1>1, <1>6, <3>1, BoundSession
  <2>3. QED
      BY <2>1, <2>2, Zenon
<1>9. UserNamed(a.name) = i
  <2>1. session'[s].uid = uid
      BY <1>1, <1>8 DEF TypeOK
  <2>2. QED
      BY <1>8, <2>1, Zenon DEF UniqueUsers
<1>10. Cardinality(SessionsOf(a.name)') =< users[i].max_bindings
    BY <1>5, <1>6, <1>7, <1>9, BindIsWithin
<1>11. {r \in Sessions : session'[r].uid = users[i].uid} \subseteq SessionsOf(a.name)'
    BY <1>4 DEF SessionsOf
<1>12. IsFiniteSet(SessionsOf(a.name)')
  <2>1. SessionsOf(a.name)' \subseteq Sessions
      BY DEF SessionsOf
  <2>2. QED
      BY <2>1, FS_Subset, ServerConstants
<1>13. PICK A, B : A = {r \in Sessions : session'[r].uid = users[i].uid} /\ B = SessionsOf(a.name)'
    BY Zenon
<1>14. /\ Cardinality(A) =< Cardinality(B) /\ Cardinality(A) \in Nat /\ Cardinality(B) \in Nat
    BY <1>11, <1>12, <1>13, FS_Subset, FS_CardinalityType
<1>15. users[i].max_bindings \in Nat
    BY <1>1, UserFields
<1>16. Cardinality(A) =< users[i].max_bindings
    BY <1>10, <1>13, <1>14, <1>15
<1>17. QED
    BY <1>13, <1>16, Zenon

\* Where usernames and uids go together one to one, what the documentation says of
\* max_bindings is true: no bind brings the sessions bound as a user above it.  The
\* violation needs a username that passes from one uid to another.
THEOREM MaximumHoldsForOneName == OneName => (Spec => MaximumBound)
<1> SUFFICES ASSUME OneName PROVE Spec => MaximumBound
    OBVIOUS
<1> DEFINE Within ==
        \A s \in Sessions, i \in DOMAIN users :
            session[s].state = "open" /\ session'[s].uid = users[i].uid /\ users[i].max_bindings # None =>
                Cardinality({r \in Sessions : session'[r].uid = users[i].uid}) =< users[i].max_bindings
           All == IInv /\ AccountInv /\ CountInv /\ UniqueUsers /\ SessionUids
<1>1. Init => All
  <2>1. Init => SessionUids
      BY DEF Init, Closed, SessionUids
  <2>2. Init => UniqueUsers
      BY DEF Init, UniqueUsers
  <2>3. QED
      BY <2>1, <2>2, InitIInv, InitCounts
<1>2. All /\ [Next]_vars => All'
    BY NextIInv, NextCounts, NextUnique, NextSessionUids DEF IInv
<1>3. All /\ [Next]_vars => [Within]_vars
    BY NextSessionUids, BindIsWithinMaximum
<1>4. QED
    BY <1>1, <1>2, <1>3, PTL DEF Spec, MaximumBound

=============================================================================
