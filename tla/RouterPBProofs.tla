--------------------------- MODULE RouterPBProofs ---------------------------
(***************************************************************************)
(* Proofs about the tables of RouterPB, its users and groups, and their    *)
(* files, for any orders, entries, users and groups, and any number of     *)
(* calls, failing writes and restarts.                                     *)
(***************************************************************************)
EXTENDS RouterPB, TLAPS, FiniteSetTheorems, SequenceTheorems, WellFoundedInduction

\* Order 0 is for a default entry, and a default entry for order 0.
Ordered(f) == \A o \in DOMAIN f : (o = 0) <=> (f[o].kind = "default")

\* What a table, its file and its flags have to do with each other.
TableInv(t) ==
    /\ Ordered(table[t])
    /\ disk[t] # Unreadable => Ordered(disk[t])
    /\ synced[t] /\ persistenceState[t] => disk[t] \in {table[t], Unreadable}

Shape ==
    /\ table = [t \in RoutesAndInterceptors |-> table[t]]
    /\ disk = [s \in Scopes |-> disk[s]]
    /\ persistenceState \in [Scopes -> BOOLEAN]
    /\ synced \in [Scopes -> BOOLEAN]

TablesInv == Shape /\ \A t \in RoutesAndInterceptors : TableInv(t)

LEMMA InitTables == Init => TablesInv
  <1>. SUFFICES ASSUME Init PROVE TablesInv
    BY Zenon
  <1>1. Shape
    BY Zenon DEF Init, Shape
  <1>2. ASSUME NEW t \in RoutesAndInterceptors PROVE TableInv(t)
    <2>1. table[t] = << >> /\ disk[t] = Unreadable
      BY <1>2, Zenon DEF Init, Scopes
    <2>2. DOMAIN << >> = {}
      OBVIOUS
    <2>. QED BY <2>1, <2>2, Zenon DEF TableInv, Ordered
  <1>. QED BY <1>1, <1>2, Zenon DEF TablesInv

-----------------------------------------------------------------------------
(* Calls. *)

\* Calls that are not about a table leave the tables and their flags alone.
LEMMA OtherCalls ==
    ASSUME TablesInv, UNCHANGED <<table, disk, synced>>,
           \/ UNCHANGED persistenceState
           \/ Pending("users")
           \/ Pending("groups")
    PROVE  TablesInv'
  <1>1. Shape'
    BY Zenon DEF TablesInv, Shape, Pending
  <1>2. ASSUME NEW t \in RoutesAndInterceptors PROVE TableInv(t)'
    <2>1. persistenceState'[t] = persistenceState[t]
      BY <1>2, Zenon DEF TablesInv, Shape, Pending, Scopes, RoutesAndInterceptors
    <2>. QED BY <2>1, Zenon DEF TablesInv, TableInv
  <1>. QED BY <1>1, <1>2, Zenon DEF TablesInv

\* A call that changes a table takes its flag down.
LEMMA TableCall ==
    ASSUME TablesInv, NEW t \in RoutesAndInterceptors, NEW value, Holds(t, value), Ordered(value)
    PROVE  TablesInv'
  <1>1. /\ table' = [table EXCEPT ![t] = value]
        /\ persistenceState' = [persistenceState EXCEPT ![t] = FALSE]
        /\ UNCHANGED <<disk, synced>>
    BY Zenon DEF Holds, Pending, saved
  <1>2. Shape'
    BY <1>1, Zenon DEF TablesInv, Shape, Scopes
  <1>3. ASSUME NEW s \in RoutesAndInterceptors PROVE TableInv(s)'
    <2>1. CASE s = t
      <3>1. table'[s] = value /\ ~persistenceState'[s]
        BY <1>1, <2>1, Zenon DEF TablesInv, Shape, Scopes
      <3>. QED BY <1>1, <3>1, Zenon DEF TablesInv, TableInv
    <2>2. CASE s # t
      <3>1. table'[s] = table[s] /\ persistenceState'[s] = persistenceState[s]
        BY <1>1, <2>2, Zenon DEF TablesInv, Shape, Scopes
      <3>. QED BY <1>1, <3>1, Zenon DEF TablesInv, TableInv
    <2>. QED BY <2>1, <2>2, Zenon
  <1>. QED BY <1>2, <1>3, Zenon DEF TablesInv

LEMMA AddsIsOrdered ==
    ASSUME TablesInv, NEW t \in RoutesAndInterceptors, NEW e, NEW o, Adds(t, e, o)
    PROVE  TablesInv'
  <1>1. PICK value : value = [x \in DOMAIN table[t] \cup {o} |-> IF x = o THEN e ELSE table[t][x]]
    BY Zenon
  <1>2. Ordered(value)
    BY <1>1, Zenon DEF Adds, Ordered, TablesInv, TableInv
  <1>. QED BY <1>1, <1>2, TableCall, Zenon DEF Adds

LEMMA RemovesIsOrdered ==
    ASSUME TablesInv, NEW t \in RoutesAndInterceptors, NEW o, Removes(t, o)
    PROVE  TablesInv'
  <1>1. PICK value : value = [x \in DOMAIN table[t] \ {o} |-> table[t][x]]
    BY Zenon
  <1>2. Ordered(value)
    BY <1>1, Zenon DEF Ordered, TablesInv, TableInv
  <1>. QED BY <1>1, <1>2, TableCall, Zenon DEF Removes

LEMMA FlushIsOrdered ==
    ASSUME TablesInv, NEW t \in RoutesAndInterceptors, Holds(t, << >>)
    PROVE  TablesInv'
  <1>1. Ordered(<< >>)
    BY DEF Ordered
  <1>. QED BY <1>1, TableCall, Zenon

-----------------------------------------------------------------------------
(* Files. *)

\* A write that is cut off, or that fails for some scopes, leaves the tables as
\* they are and every file with its table, with nothing or as it was.
LEMMA WriteKeeps ==
    ASSUME TablesInv, NEW ok, NEW cut, NEW us, Write(ok, cut, us)
    PROVE  TablesInv'
  <1>1. /\ disk' = [s \in Scopes |-> IF s \in ok THEN Image(s)
                                    ELSE IF s \in cut THEN Unreadable ELSE disk[s]]
        /\ persistenceState' = [s \in Scopes |-> s \in ok \/ persistenceState[s]]
        /\ synced' = [s \in Scopes |-> s \in ok \/ synced[s]]
        /\ UNCHANGED table
    BY Zenon DEF Write
  <1>2. Shape'
    BY <1>1, Zenon DEF TablesInv, Shape
  <1>3. ASSUME NEW t \in RoutesAndInterceptors PROVE TableInv(t)'
    <2>1. t \in Scopes /\ Image(t) = table[t]
      BY <1>3, Zenon DEF Scopes, RoutesAndInterceptors, Image
    <2>2. /\ disk'[t] = IF t \in ok THEN table[t] ELSE IF t \in cut THEN Unreadable ELSE disk[t]
          /\ persistenceState'[t] <=> t \in ok \/ persistenceState[t]
          /\ synced'[t] <=> t \in ok \/ synced[t]
      BY <1>1, <2>1, Zenon
    <2>. QED BY <1>1, <2>2, Zenon DEF TablesInv, TableInv
  <1>. QED BY <1>2, <1>3, Zenon DEF TablesInv

\* The scopes of done are loaded.
Loads(done) ==
    /\ \A s \in done : disk[s] # Unreadable
    /\ groups' = IF "groups" \in done THEN disk["groups"] ELSE groups
    /\ users' = LoadedUsers(done)
    /\ table' = [t \in RoutesAndInterceptors |-> IF t \in done THEN disk[t] ELSE table[t]]
    /\ persistenceState' = [s \in Scopes |-> s \in done \/ persistenceState[s]]
    /\ synced' = [s \in Scopes |-> s \in done \/ synced[s]]
    /\ UNCHANGED disk

LEMMA LoadIsLoads ==
    ASSUME NEW scope, perspective_load(scope)
    PROVE  (\E done : Loads(done)) /\ UNCHANGED <<cnx, timer, faults>>
  <1>1. PICK todo : todo = IF scope = "all" THEN LoadOrder ELSE <<scope>>
    BY Zenon
  <1>2. PICK done : done = {todo[i] : i \in {k \in DOMAIN todo :
                                        \A j \in 1 .. k : disk[todo[j]] # Unreadable}}
    BY Zenon
  <1>3. DOMAIN todo \subseteq Nat \ {0}
    BY <1>1 DEF LoadOrder
  <1>4. \A s \in done : disk[s] # Unreadable
    BY <1>2, <1>3
  <1>5. Loads(done)
    BY <1>1, <1>2, <1>4, Zenon DEF perspective_load, Loads
  <1>. QED BY <1>5, Zenon DEF perspective_load

\* A load takes a table as the file has it, or not at all.
LEMMA LoadKeeps ==
    ASSUME TablesInv, NEW done, Loads(done)
    PROVE  TablesInv'
  <1>1. Shape'
    BY Zenon DEF Loads, TablesInv, Shape
  <1>2. ASSUME NEW t \in RoutesAndInterceptors PROVE TableInv(t)'
    <2>1. t \in Scopes
      BY <1>2, Zenon DEF Scopes
    <2>2. /\ table'[t] = IF t \in done THEN disk[t] ELSE table[t]
          /\ persistenceState'[t] <=> t \in done \/ persistenceState[t]
          /\ synced'[t] <=> t \in done \/ synced[t]
          /\ UNCHANGED disk /\ \A s \in done : disk[s] # Unreadable
      BY <2>1, Zenon DEF Loads
    <2>. QED BY <2>2, Zenon DEF TablesInv, TableInv
  <1>. QED BY <1>1, <1>2, Zenon DEF TablesInv

LEMMA RestartKeeps ==
    ASSUME TablesInv, Restart
    PROVE  TablesInv'
  <1>1. Shape'
    BY Zenon DEF Restart, TablesInv, Shape
  <1>2. ASSUME NEW t \in RoutesAndInterceptors PROVE TableInv(t)'
    <2>1. table'[t] = << >> /\ disk'[t] = disk[t] /\ ~synced'[t]
      BY <1>2, Zenon DEF Restart, Scopes
    <2>2. Ordered(<< >>)
      BY DEF Ordered
    <2>. QED BY <2>1, <2>2, Zenon DEF TablesInv, TableInv
  <1>. QED BY <1>1, <1>2, Zenon DEF TablesInv

-----------------------------------------------------------------------------
(* The inductive invariant. *)

\* A call about users or groups.
Elsewhere ==
    /\ UNCHANGED <<table, saved>>
    /\ UNCHANGED persistenceState \/ Pending("users") \/ Pending("groups")

LEMMA UserCallsElsewhere == UserCalls => Elsewhere
  <1>0. ASSUME NEW uid, NEW u, Becomes(uid, u) PROVE UNCHANGED <<table, saved>>
    BY <1>0, Zenon DEF Becomes
  <1>1. ASSUME NEW u, perspective_user_add(u) PROVE Elsewhere
    BY <1>1, Zenon DEF perspective_user_add, Elsewhere
  <1>2. ASSUME NEW uid, perspective_user_enable(uid) PROVE Elsewhere
    BY <1>0, <1>2, Zenon DEF perspective_user_enable, Elsewhere
  <1>3. ASSUME NEW uid, perspective_user_disable(uid) PROVE Elsewhere
    BY <1>0, <1>3, Zenon DEF perspective_user_disable, Elsewhere
  <1>4. ASSUME NEW uid, perspective_user_remove(uid) PROVE Elsewhere
    BY <1>4, Zenon DEF perspective_user_remove, Elsewhere
  <1>5. ASSUME NEW uid, NEW b, perspective_user_set_quota(uid, b) PROVE Elsewhere
    BY <1>0, <1>5, Zenon DEF perspective_user_set_quota, Elsewhere
  <1>6. ASSUME NEW uid, NEW d, updateQuota(uid, d) PROVE UNCHANGED <<table, saved>>
    BY <1>0, <1>6, Zenon DEF updateQuota
  <1>7. ASSUME NEW uid, perspective_user_update_quota(uid, 1) \/ charge(uid) PROVE Elsewhere
    BY <1>6, <1>7, Zenon DEF perspective_user_update_quota, charge, Elsewhere
  <1>8. perspective_user_remove_all => Elsewhere
    BY Zenon DEF perspective_user_remove_all, Elsewhere
  <1>. QED BY <1>1, <1>2, <1>3, <1>4, <1>5, <1>7, <1>8, Zenon DEF UserCalls

LEMMA GroupCallsElsewhere == GroupCalls => Elsewhere
  <1>1. ASSUME NEW gid, perspective_group_add(gid) PROVE Elsewhere
    BY <1>1, Zenon DEF perspective_group_add, Elsewhere
  <1>2. ASSUME NEW gid, perspective_group_enable(gid) PROVE Elsewhere
    BY <1>2, Zenon DEF perspective_group_enable, Elsewhere
  <1>3. ASSUME NEW gid, perspective_group_disable(gid) PROVE Elsewhere
    BY <1>3, Zenon DEF perspective_group_disable, Elsewhere
  <1>4. ASSUME NEW gid, perspective_group_remove(gid) PROVE Elsewhere
    BY <1>4, Zenon DEF perspective_group_remove, Elsewhere
  <1>5. perspective_group_remove_all => Elsewhere
    BY Zenon DEF perspective_group_remove_all, Elsewhere
  <1>. QED BY <1>1, <1>2, <1>3, <1>4, <1>5, Zenon DEF GroupCalls

LEMMA UserCallsKeep ==
    ASSUME TablesInv, UserCalls \/ GroupCalls
    PROVE  TablesInv'
  <1>1. Elsewhere
    BY UserCallsElsewhere, GroupCallsElsewhere, Zenon
  <1>. QED BY <1>1, OtherCalls, Zenon DEF Elsewhere, saved

LEMMA TableCallsKeep ==
    ASSUME TablesInv, TableCalls
    PROVE  TablesInv'
  <1>1. PICK t \in RoutesAndInterceptors :
          \/ \E e, o : Adds(t, e, o)
          \/ \E o : Removes(t, o)
          \/ Holds(t, << >>)
    BY Zenon DEF TableCalls, RoutesAndInterceptors, perspective_mtinterceptor_add, perspective_mointerceptor_add,
           perspective_mtroute_add, perspective_moroute_add, perspective_mointerceptor_remove,
           perspective_mtinterceptor_remove, perspective_moroute_remove, perspective_mtroute_remove,
           perspective_mtinterceptor_flush, perspective_mointerceptor_flush,
           perspective_mtroute_flush, perspective_moroute_flush
  <1>. QED BY <1>1, AddsIsOrdered, RemovesIsOrdered, FlushIsOrdered, Zenon

LEMMA FileCallsKeep ==
    ASSUME TablesInv, FileCalls
    PROVE  TablesInv'
  <1>1. ASSUME NEW scope \in Scopes \cup {"all"}, perspective_persist(scope) PROVE TablesInv'
    <2>1. PICK ok, cut : Write(ok, cut, users)
      BY <1>1, Zenon DEF perspective_persist
    <2>. QED BY <2>1, WriteKeeps, Zenon
  <1>. QED BY <1>1, LoadIsLoads, LoadKeeps, Zenon DEF FileCalls

LEMMA NextKeepsTables ==
    ASSUME TablesInv, [Next]_vars
    PROVE  TablesInv'
  <1>1. CASE persistenceTimerExpired
    <2>1. \/ UNCHANGED <<table, persistenceState, disk, synced>>
          \/ \E ok, cut, us : Write(ok, cut, us)
      BY <1>1, Zenon DEF persistenceTimerExpired, config, saved
    <2>. QED BY <2>1, OtherCalls, WriteKeeps, Zenon
  <1>2. CASE UNCHANGED vars
    BY <1>2, OtherCalls, Zenon DEF vars, config, saved
  <1>. QED BY <1>1, <1>2, UserCallsKeep, TableCallsKeep, FileCallsKeep, RestartKeeps, Zenon DEF Next

\* The tables, their files and their flags belong together, over every sequence
\* of calls, failing writes and restarts.
THEOREM TablesInvariance == Spec => []TablesInv
  <1>1. TablesInv /\ [Next]_vars => TablesInv'
    BY NextKeepsTables, Zenon
  <1>. QED BY InitTables, <1>1, PTL DEF Spec

\* perspective_is_persisted tells the truth about a table that was saved or
\* loaded by this process, unless a later write was cut off.
THEOREM FlagsAreTrue == Spec => []TableFlags
  <1>1. TablesInv => TableFlags
    BY Zenon DEF TablesInv, TableInv, TableFlags
  <1>. QED BY TablesInvariance, <1>1, PTL

-----------------------------------------------------------------------------
(* Lists, as groups and users are kept in them. *)

\* A set of natural numbers that is not empty has a smallest member.
LEMMA SmallestOf ==
    ASSUME NEW S, S \subseteq Nat, S # {}
    PROVE  \E x \in S : \A y \in S : x =< y
  <1>1. ASSUME NEW y \in Nat, NEW z \in Nat, y < z PROVE <<y, z>> \in OpToRel(<, Nat)
    <2>1. <<y, z>> \in Nat \X Nat /\ <<y, z>>[1] = y /\ <<y, z>>[2] = z
      BY Zenon
    <2>. QED BY <1>1, <2>1, Zenon DEF OpToRel
  <1>2. \E x \in S : \A y \in S : ~(<<y, x>> \in OpToRel(<, Nat))
    BY NatLessThanWellFounded, WFMin, Zenon
  <1>3. PICK x \in S : \A y \in S : ~(<<y, x>> \in OpToRel(<, Nat))
    BY <1>2, Zenon
  <1>4. ASSUME NEW y \in S PROVE x =< y
    <2>1. ~(y < x)
      BY <1>1, <1>3, Zenon
    <2>. QED BY <2>1
  <1>. QED BY <1>4, Zenon

\* The first place of a list that a search finds.
LEMMA FirstFound ==
    ASSUME NEW S, S \subseteq Nat, S # {}
    PROVE  Min(S) \in S
  BY SmallestOf, Zenon DEF Min

LEMMA FoundGroup ==
    ASSUME NEW S, groups \in Seq(S), NEW gid
    PROVE  /\ getGroup(gid) # 0 => getGroup(gid) \in 1 .. Len(groups) /\ groups[getGroup(gid)].gid = gid
           /\ getGroup(gid) = 0 => \A i \in 1 .. Len(groups) : groups[i].gid # gid
  <1>. DEFINE T == {i \in 1 .. Len(groups) : groups[i].gid = gid}
  <1>1. getGroup(gid) = IF T # {} THEN Min(T) ELSE 0
    BY Zenon DEF getGroup, SelectInSeq
  <1>2. T \subseteq Nat /\ 0 \notin T
    BY LenProperties
  <1>. HIDE DEF T
  <1>3. T # {} => Min(T) \in T
    BY <1>2, FirstFound, Zenon
  <1>4. getGroup(gid) # 0 => getGroup(gid) \in T
    BY <1>1, <1>3, Zenon
  <1>5. getGroup(gid) = 0 => T = {}
    BY <1>1, <1>2, <1>3, Zenon
  <1>. QED BY <1>4, <1>5, Zenon DEF T

LEMMA FirstOfUsers ==
    ASSUME NEW S, users \in Seq(S), NEW T, T \subseteq 1 .. Len(users), T # {}
    PROVE  Min(T) \in 1 .. Len(users)
  <1>1. T \subseteq Nat
    BY LenProperties
  <1>. QED BY <1>1, FirstFound, Zenon

LEMMA FoundUser ==
    ASSUME NEW S, users \in Seq(S), NEW uid, getUser(uid) # 0
    PROVE  getUser(uid) \in 1 .. Len(users)
  <1>. DEFINE T == {i \in 1 .. Len(users) : users[i].uid = uid}
  <1>1. getUser(uid) = IF T # {} THEN Min(T) ELSE 0
    BY Zenon DEF getUser, SelectInSeq
  <1>2. T \subseteq 1 .. Len(users)
    BY Zenon
  <1>. HIDE DEF T
  <1>. QED BY <1>1, <1>2, FirstOfUsers, Zenon

\* perspective_user_add replaces the first user it finds, if any.
LEMMA UserAdded ==
    ASSUME NEW S, users \in Seq(S), NEW u, perspective_user_add(u)
    PROVE  \E old :
              /\ old # 0 => old \in 1 .. Len(users)
              /\ users' = Append(IF old = 0 THEN users ELSE RemoveAt(users, old), u)
              /\ cnx' = IF old = 0 THEN cnx ELSE [cnx EXCEPT ![u.uid] = cnx[users[old].uid]]
              /\ UNCHANGED <<groups, timer>>
  <1>. DEFINE T == {i \in 1 .. Len(users) : users[i].uid = u.uid \/ users[i].username = u.username}
              old == IF T # {} THEN Min(T) ELSE 0
  <1>1. /\ users' = Append(IF old = 0 THEN users ELSE RemoveAt(users, old), u)
        /\ cnx' = IF old = 0 THEN cnx ELSE [cnx EXCEPT ![u.uid] = cnx[users[old].uid]]
        /\ UNCHANGED <<groups, timer>>
    BY Zenon DEF perspective_user_add, SelectInSeq
  <1>2. T \subseteq 1 .. Len(users)
    BY Zenon
  <1>3. old # 0 => old \in 1 .. Len(users)
    <2>. HIDE DEF T
    <2>. QED BY <1>2, FirstOfUsers, Zenon
  <1>. HIDE DEF old
  <1>. QED BY <1>1, <1>3, Zenon

\* A list without one of its elements, element by element.
LEMMA Removed ==
    ASSUME NEW S, NEW q \in Seq(S), NEW i \in 1 .. Len(q)
    PROVE  /\ RemoveAt(q, i) \in Seq(S)
           /\ Len(RemoveAt(q, i)) = Len(q) - 1
           /\ \A j \in 1 .. Len(q) - 1 : RemoveAt(q, i)[j] = IF j < i THEN q[j] ELSE q[j + 1]
  <1>1. Len(q) \in Nat /\ \A j \in 1 .. Len(q) : q[j] \in S
    BY LenProperties, Zenon
  <1>2. /\ SubSeq(q, 1, i - 1) \in Seq(S) /\ Len(SubSeq(q, 1, i - 1)) = i - 1
        /\ \A j \in 1 .. i - 1 : SubSeq(q, 1, i - 1)[j] = q[j]
    BY <1>1, SubSeqProperties
  <1>3. /\ SubSeq(q, i + 1, Len(q)) \in Seq(S) /\ Len(SubSeq(q, i + 1, Len(q))) = Len(q) - i
        /\ \A j \in 1 .. Len(q) - i : SubSeq(q, i + 1, Len(q))[j] = q[i + j]
    BY <1>1, SubSeqProperties
  <1>4. PICK a, b \in Seq(S) : a = SubSeq(q, 1, i - 1) /\ b = SubSeq(q, i + 1, Len(q))
    BY <1>2, <1>3, Zenon
  <1>5. RemoveAt(q, i) = a \o b
    BY <1>4, Zenon DEF RemoveAt
  <1>6. /\ a \o b \in Seq(S) /\ Len(a \o b) = Len(a) + Len(b)
        /\ \A j \in 1 .. Len(a) + Len(b) : (a \o b)[j] = IF j =< Len(a) THEN a[j] ELSE b[j - Len(a)]
    BY ConcatProperties, Zenon
  <1>7. Len(a) = i - 1 /\ Len(b) = Len(q) - i
    BY <1>2, <1>3, <1>4, Zenon
  <1>8. ASSUME NEW j \in 1 .. Len(q) - 1 PROVE (a \o b)[j] = IF j < i THEN q[j] ELSE q[j + 1]
    <2>1. CASE j < i
      <3>1. j \in 1 .. i - 1 /\ j =< Len(a) /\ j \in 1 .. Len(a) + Len(b)
        BY <1>1, <1>7, <2>1
      <3>2. (a \o b)[j] = a[j]
        BY <1>6, <3>1, Zenon
      <3>3. a[j] = q[j]
        BY <1>2, <1>4, <3>1, Zenon
      <3>. QED BY <2>1, <3>2, <3>3, Zenon
    <2>2. CASE ~(j < i)
      <3>1. (a \o b)[j] = b[j - (i - 1)]
        BY <1>1, <1>6, <1>7, <2>2
      <3>2. j - (i - 1) \in 1 .. Len(q) - i /\ i + (j - (i - 1)) = j + 1
        BY <1>1, <2>2
      <3>3. b[j - (i - 1)] = q[i + (j - (i - 1))]
        BY <1>3, <1>4, <3>2, Zenon
      <3>. QED BY <2>2, <3>1, <3>2, <3>3, Zenon
    <2>. QED BY <2>1, <2>2, Zenon
  <1>9. Len(a \o b) = Len(q) - 1
    BY <1>1, <1>6, <1>7
  <1>. QED BY <1>5, <1>6, <1>8, <1>9, Zenon

\* The list that UsersOutside builds, as far as place n.
Kept(us, gids, f, i) ==
    IF i = 0 THEN << >> ELSE IF us[i].gid \in gids THEN f[i - 1] ELSE Append(f[i - 1], us[i])
Sieves(us, gids, n, f) == f = [i \in 0 .. n |-> Kept(us, gids, f, i)]

\* There is such a list for every place: otherwise there would be a first place
\* without one, and the list of the place before could be carried on.
LEMMA SieveExists ==
    ASSUME NEW us, NEW gids, NEW n \in Nat
    PROVE  \E f : Sieves(us, gids, n, f)
  <1>. DEFINE T == {k \in Nat : ~\E f : Sieves(us, gids, k, f)}
  <1>. SUFFICES ASSUME T # {} PROVE FALSE
    BY Zenon
  <1>1. T \subseteq Nat
    BY Zenon
  <1>2. PICK k \in T : \A l \in T : k =< l
    <2>. HIDE DEF T
    <2>. QED BY <1>1, SmallestOf, Zenon
  <1>3. k # 0
    <2>1. Sieves(us, gids, 0, [i \in 0 .. 0 |-> << >>])
      BY DEF Sieves, Kept
    <2>. QED BY <2>1, Zenon
  <1>4. k - 1 \in Nat /\ k - 1 \notin T
    BY <1>2, <1>3
  <1>5. PICK f : Sieves(us, gids, k - 1, f)
    BY <1>4, Zenon
  <1>6. PICK g : g = [i \in 0 .. k |-> IF i = k THEN Kept(us, gids, f, k) ELSE f[i]]
    BY Zenon
  <1>7. ASSUME NEW i \in 0 .. k PROVE g[i] = Kept(us, gids, g, i)
    <2>1. i # 0 => i - 1 \in 0 .. k - 1 /\ g[i - 1] = f[i - 1]
      BY <1>6
    <2>2. Kept(us, gids, g, i) = Kept(us, gids, f, i)
      BY <2>1, Zenon DEF Kept
    <2>3. i # k => f[i] = Kept(us, gids, f, i)
      BY <1>5 DEF Sieves
    <2>. QED BY <1>6, <2>2, <2>3, Zenon
  <1>8. Sieves(us, gids, k, g)
    BY <1>6, <1>7, Zenon DEF Sieves
  <1>. QED BY <1>2, <1>8, Zenon

\* The users that are left are users.
LEMMA OutsideType ==
    ASSUME NEW S, users \in Seq(S), NEW gids
    PROVE  UsersOutside(gids) \in Seq(S)
  <1>0. Len(users) \in Nat /\ \A i \in 1 .. Len(users) : users[i] \in S
    BY LenProperties, Zenon
  <1>1. PICK f : f = CHOOSE h : Sieves(users, gids, Len(users), h)
    BY Zenon
  <1>2. UsersOutside(gids) = f[Len(users)]
    BY <1>1, Zenon DEF UsersOutside, Sieves, Kept
  <1>3. Sieves(users, gids, Len(users), f)
    BY <1>0, <1>1, SieveExists, Zenon
  <1>4. \A i \in 0 .. Len(users) : f[i] = Kept(users, gids, f, i)
    BY <1>3, Zenon DEF Sieves
  <1>. DEFINE T == {i \in 0 .. Len(users) : f[i] \notin Seq(S)}
  <1>5. T = {}
    <2>. SUFFICES ASSUME T # {} PROVE FALSE
      BY Zenon
    <2>1. T \subseteq Nat
      BY <1>0
    <2>2. PICK k \in T : \A l \in T : k =< l
      <3>. HIDE DEF T
      <3>. QED BY <2>1, SmallestOf, Zenon
    <2>3. k # 0
      BY <1>4, EmptySeq, Zenon DEF Kept
    <2>4. k \in 1 .. Len(users) /\ k - 1 \in 0 .. Len(users) /\ f[k - 1] \in Seq(S)
      BY <1>0, <2>2, <2>3
    <2>5. f[k] \in {f[k - 1], Append(f[k - 1], users[k])}
      BY <1>4, <2>3, Zenon DEF Kept
    <2>6. Append(f[k - 1], users[k]) \in Seq(S)
      BY <1>0, <2>4, AppendProperties, Zenon
    <2>. QED BY <2>4, <2>5, <2>6, Zenon
  <1>. QED BY <1>0, <1>2, <1>5

-----------------------------------------------------------------------------
(* Users and groups. *)

\* IInv in parts, and what else is needed: a file of users has no marks.
GroupInv ==
    /\ groups \in Seq(GroupRecords) /\ UniqueGids(groups)
    /\ disk["groups"] # Unreadable => disk["groups"] \in Seq(GroupRecords) /\ UniqueGids(disk["groups"])

UserInv ==
    /\ users \in Seq(UserRecords)
    /\ disk["users"] # Unreadable => disk["users"] \in Seq(UserRecords) /\ Settled(disk["users"]) = disk["users"]

TableTyped ==
    /\ table \in [RoutesAndInterceptors -> TableValues]
    /\ \A t \in RoutesAndInterceptors : disk[t] \in TableValues \cup {Unreadable}

CountersTyped ==
    /\ timer \in BOOLEAN
    /\ calls \in 0 .. MaxCalls /\ faults \in 0 .. MaxFaults /\ restarts \in 0 .. MaxRestarts

ListInv ==
    /\ Shape /\ GroupInv /\ UserInv /\ TableTyped /\ CountersTyped
    /\ cnx \in [Uids -> Uids]

LEMMA ListIsIInv == ListInv => IInv
  BY Zenon DEF ListInv, Shape, GroupInv, UserInv, TableTyped, CountersTyped, IInv

LEMMA EmptyTable == << >> \in TableValues
  <1>1. << >> \in [{} -> Entries]
    OBVIOUS
  <1>. QED BY <1>1, Zenon DEF TableValues

LEMMA EmptyLists ==
    /\ << >> \in Seq(GroupRecords) /\ UniqueGids(<< >>)
    /\ << >> \in Seq(UserRecords)
  BY EmptySeq DEF UniqueGids

LEMMA InitLists == Init => ListInv
  <1>. SUFFICES ASSUME Init PROVE ListInv
    BY Zenon
  <1>1. Shape
    BY Zenon DEF Init, Shape
  <1>2. GroupInv /\ UserInv
    BY EmptyLists, Zenon DEF Init, GroupInv, UserInv, Scopes
  <1>3. TableTyped
    BY EmptyTable, Zenon DEF Init, TableTyped, Scopes
  <1>4. CountersTyped
    BY RouterConstants DEF Init, CountersTyped
  <1>. QED BY <1>1, <1>2, <1>3, <1>4, Zenon DEF Init, ListInv

\* A user that is found is changed.
LEMMA BecomesTyped ==
    ASSUME users \in Seq(UserRecords), NEW uid, NEW u \in UserRecords, Becomes(uid, u)
    PROVE  users' \in Seq(UserRecords)
  <1>1. getUser(uid) \in 1 .. Len(users)
    BY FoundUser, Zenon DEF Becomes
  <1>. QED BY <1>1, ExceptSeq, Zenon DEF Becomes

LEMMA FoundIsUser ==
    ASSUME users \in Seq(UserRecords), NEW uid, getUser(uid) # 0
    PROVE  users[getUser(uid)] \in UserRecords
  BY FoundUser, ElementOfSeq, Zenon

\* What the calls about users do.
LEMMA UserCallsTyped ==
    ASSUME users \in Seq(UserRecords), cnx \in [Uids -> Uids], UserCalls
    PROVE  users' \in Seq(UserRecords) /\ cnx' \in [Uids -> Uids] /\ UNCHANGED <<groups, timer>>
  <1>0. users \in Seq(UserRecords) /\ cnx \in [Uids -> Uids]
    BY Zenon
  <1>. DEFINE Goal == users' \in Seq(UserRecords) /\ cnx' \in [Uids -> Uids] /\ UNCHANGED <<groups, timer>>
  <1>1. ASSUME NEW uid \in Uids, NEW name \in Usernames, NEW gid \in Gids, NEW b \in Balances,
               perspective_user_add(NewUser(uid, name, gid, b))
        PROVE  Goal
    <2>1. NewUser(uid, name, gid, b) \in UserRecords
      BY Zenon DEF NewUser, UserRecords
    <2>2. PICK u \in UserRecords : u = NewUser(uid, name, gid, b)
      BY <2>1, Zenon
    <2>3. u.uid \in Uids
      BY Zenon DEF UserRecords
    <2>4. PICK old :
              /\ old # 0 => old \in 1 .. Len(users)
              /\ users' = Append(IF old = 0 THEN users ELSE RemoveAt(users, old), u)
              /\ cnx' = IF old = 0 THEN cnx ELSE [cnx EXCEPT ![u.uid] = cnx[users[old].uid]]
              /\ UNCHANGED <<groups, timer>>
      BY <1>0, <1>1, <2>2, UserAdded, Zenon
    <2>5. old # 0 => RemoveAt(users, old) \in Seq(UserRecords) /\ users[old].uid \in Uids
      <3>1. old # 0 => users[old] \in UserRecords
        BY <1>0, <2>4, ElementOfSeq, Zenon
      <3>. QED BY <1>0, <2>4, <3>1, Removed, Zenon DEF UserRecords
    <2>. QED BY <1>0, <2>3, <2>4, <2>5, AppendProperties, Zenon
  <1>2. ASSUME NEW uid \in Uids, perspective_user_enable(uid) \/ perspective_user_disable(uid) PROVE Goal
    <2>1. PICK x \in BOOLEAN : Becomes(uid, [users[getUser(uid)] EXCEPT !.enabled = x])
      BY <1>2, Zenon DEF perspective_user_enable, perspective_user_disable
    <2>2. users[getUser(uid)] \in UserRecords
      BY <1>0, <2>1, FoundIsUser, Zenon DEF Becomes
    <2>3. [users[getUser(uid)] EXCEPT !.enabled = x] \in UserRecords
      BY <2>2, Zenon DEF UserRecords
    <2>. QED BY <1>0, <2>1, <2>3, BecomesTyped, Zenon DEF Becomes
  <1>3. ASSUME NEW uid \in Uids, perspective_user_remove(uid) PROVE Goal
    <2>1. getUser(uid) \in 1 .. Len(users)
      BY <1>0, <1>3, FoundUser, Zenon DEF perspective_user_remove
    <2>. QED BY <1>0, <1>3, <2>1, Removed, Zenon DEF perspective_user_remove
  <1>4. ASSUME NEW uid \in Uids, NEW b \in Balances, perspective_user_set_quota(uid, b) PROVE Goal
    <2>1. Becomes(uid, [users[getUser(uid)] EXCEPT !.balance = b])
      BY <1>4, Zenon DEF perspective_user_set_quota
    <2>2. users[getUser(uid)] \in UserRecords
      BY <1>0, <2>1, FoundIsUser, Zenon DEF Becomes
    <2>3. [users[getUser(uid)] EXCEPT !.balance = b] \in UserRecords
      BY <2>2, Zenon DEF UserRecords
    <2>. QED BY <1>0, <2>1, <2>3, BecomesTyped, Zenon DEF Becomes
  <1>5. ASSUME NEW uid \in Uids, NEW d, updateQuota(uid, d) PROVE Goal
    <2>1. PICK u : u = users[getUser(uid)] /\ u.balance + d \in Balances
                   /\ Becomes(uid, [u EXCEPT !.balance = @ + d, !.updated = TRUE])
      BY <1>5, Zenon DEF updateQuota
    <2>2. u \in UserRecords
      BY <1>0, <2>1, FoundIsUser, Zenon DEF Becomes
    <2>3. [u EXCEPT !.balance = @ + d, !.updated = TRUE] \in UserRecords
      BY <2>1, <2>2, Zenon DEF UserRecords
    <2>. QED BY <1>0, <2>1, <2>3, BecomesTyped, Zenon DEF Becomes
  <1>6. CASE perspective_user_remove_all
    BY <1>0, <1>6, EmptyLists, Zenon DEF perspective_user_remove_all
  <1>. QED BY <1>1, <1>2, <1>3, <1>4, <1>5, <1>6, Zenon
           DEF UserCalls, perspective_user_update_quota, charge

\* A list of groups without one of them.
LEMMA UniqueRemoved ==
    ASSUME NEW q \in Seq(GroupRecords), UniqueGids(q), NEW i \in 1 .. Len(q)
    PROVE  /\ RemoveAt(q, i) \in Seq(GroupRecords) /\ UniqueGids(RemoveAt(q, i))
           /\ \A j \in 1 .. Len(RemoveAt(q, i)) : RemoveAt(q, i)[j].gid # q[i].gid
  <1>1. PICK p \in Seq(GroupRecords) :
          /\ p = RemoveAt(q, i) /\ Len(p) = Len(q) - 1
          /\ \A j \in 1 .. Len(q) - 1 : p[j] = IF j < i THEN q[j] ELSE q[j + 1]
    BY Removed, Zenon
  <1>2. Len(q) \in Nat /\ DOMAIN q = 1 .. Len(q) /\ DOMAIN p = 1 .. Len(p)
    BY LenProperties, Zenon
  <1>3. ASSUME NEW j \in 1 .. Len(p)
        PROVE  \E k \in 1 .. Len(q) : p[j] = q[k] /\ k # i /\ k = IF j < i THEN j ELSE j + 1
    BY <1>1, <1>2
  <1>4. ASSUME NEW j \in 1 .. Len(p), NEW l \in 1 .. Len(p), p[j].gid = p[l].gid
        PROVE  j = l
    <2>1. PICK k \in 1 .. Len(q) : p[j] = q[k] /\ k = IF j < i THEN j ELSE j + 1
      BY <1>3, Zenon
    <2>2. PICK m \in 1 .. Len(q) : p[l] = q[m] /\ m = IF l < i THEN l ELSE l + 1
      BY <1>3, Zenon
    <2>3. k = m
      BY <1>2, <1>4, <2>1, <2>2, Zenon DEF UniqueGids
    <2>. QED BY <1>1, <1>2, <2>1, <2>2, <2>3
  <1>5. ASSUME NEW j \in 1 .. Len(p) PROVE p[j].gid # q[i].gid
    BY <1>2, <1>3 DEF UniqueGids
  <1>. QED BY <1>1, <1>2, <1>4, <1>5, Zenon DEF UniqueGids

\* A new group, of a gid that no other has.
LEMMA UniqueAppended ==
    ASSUME NEW q \in Seq(GroupRecords), UniqueGids(q), NEW g \in GroupRecords,
           \A i \in 1 .. Len(q) : q[i].gid # g.gid
    PROVE  Append(q, g) \in Seq(GroupRecords) /\ UniqueGids(Append(q, g))
  <1>0. /\ Append(q, g) \in Seq(GroupRecords)
        /\ Len(Append(q, g)) = Len(q) + 1 /\ Append(q, g)[Len(q) + 1] = g
        /\ \A i \in 1 .. Len(q) : Append(q, g)[i] = q[i]
    BY AppendProperties
  <1>1. PICK p \in Seq(GroupRecords) :
          /\ p = Append(q, g) /\ Len(p) = Len(q) + 1 /\ p[Len(q) + 1] = g
          /\ \A i \in 1 .. Len(q) : p[i] = q[i]
    BY <1>0, Zenon
  <1>2. Len(q) \in Nat /\ DOMAIN q = 1 .. Len(q) /\ DOMAIN p = 1 .. Len(q) + 1
    BY <1>1, LenProperties, Zenon
  <1>3. ASSUME NEW i \in 1 .. Len(q) + 1, NEW j \in 1 .. Len(q) + 1, p[i].gid = p[j].gid
        PROVE  i = j
    <2>1. CASE i \in 1 .. Len(q) /\ j \in 1 .. Len(q)
      BY <1>1, <1>2, <1>3, <2>1, Zenon DEF UniqueGids
    <2>2. CASE i = Len(q) + 1 \/ j = Len(q) + 1
      BY <1>1, <1>2, <1>3, <2>2
    <2>. QED BY <1>2, <2>1, <2>2
  <1>. QED BY <1>1, <1>2, <1>3, Zenon DEF UniqueGids

\* A group that is enabled or disabled.
LEMMA UniqueChanged ==
    ASSUME NEW q \in Seq(GroupRecords), UniqueGids(q), NEW i \in 1 .. Len(q), NEW x \in BOOLEAN
    PROVE  /\ [q EXCEPT ![i].enabled = x] \in Seq(GroupRecords)
           /\ UniqueGids([q EXCEPT ![i].enabled = x])
  <1>1. q[i] \in GroupRecords
    BY ElementOfSeq, Zenon
  <1>2. PICK g : g = [q[i] EXCEPT !.enabled = x]
    BY Zenon
  <1>3. g \in GroupRecords /\ g.gid = q[i].gid
    BY <1>1, <1>2, Zenon DEF GroupRecords
  <1>4. PICK p : p = [q EXCEPT ![i] = g]
    BY Zenon
  <1>5. p \in Seq(GroupRecords)
    BY <1>3, <1>4, ExceptSeq, Zenon
  <1>6. DOMAIN q = 1 .. Len(q) /\ DOMAIN p = DOMAIN q /\ \A j \in DOMAIN q : p[j] = IF j = i THEN g ELSE q[j]
    BY <1>4, LenProperties, Zenon
  <1>7. UniqueGids(p)
    BY <1>3, <1>6, Zenon DEF UniqueGids
  <1>. QED BY <1>2, <1>4, <1>5, <1>7, Zenon

\* What the calls about groups do.
LEMMA GroupCallsTyped ==
    ASSUME UserInv, GroupInv, GroupCalls
    PROVE  /\ users' \in Seq(UserRecords)
           /\ groups' \in Seq(GroupRecords) /\ UniqueGids(groups')
           /\ UNCHANGED <<cnx, timer>>
  <1>0. users \in Seq(UserRecords) /\ groups \in Seq(GroupRecords) /\ UniqueGids(groups)
    BY Zenon DEF UserInv, GroupInv
  <1>. DEFINE Goal == /\ users' \in Seq(UserRecords)
                      /\ groups' \in Seq(GroupRecords) /\ UniqueGids(groups')
                      /\ UNCHANGED <<cnx, timer>>
  <1>1. ASSUME NEW gid \in Gids, perspective_group_add(gid) PROVE Goal
    <2>0. [gid |-> gid, enabled |-> TRUE] \in GroupRecords
      BY Zenon DEF GroupRecords
    <2>1. PICK g \in GroupRecords : g = [gid |-> gid, enabled |-> TRUE]
      BY <2>0, Zenon
    <2>2. PICK q : q = IF getGroup(gid) = 0 THEN groups ELSE RemoveAt(groups, getGroup(gid))
      BY Zenon
    <2>3. q \in Seq(GroupRecords) /\ UniqueGids(q) /\ \A i \in 1 .. Len(q) : q[i].gid # gid
      <3>1. CASE getGroup(gid) = 0
        BY <1>0, <2>2, <3>1, FoundGroup, Zenon
      <3>2. CASE getGroup(gid) # 0
        <4>1. getGroup(gid) \in 1 .. Len(groups) /\ groups[getGroup(gid)].gid = gid
          BY <1>0, <3>2, FoundGroup, Zenon
        <4>2. /\ RemoveAt(groups, getGroup(gid)) \in Seq(GroupRecords)
              /\ UniqueGids(RemoveAt(groups, getGroup(gid)))
              /\ \A j \in 1 .. Len(RemoveAt(groups, getGroup(gid))) :
                    RemoveAt(groups, getGroup(gid))[j].gid # groups[getGroup(gid)].gid
          BY <1>0, <4>1, UniqueRemoved, Zenon
        <4>. QED BY <2>2, <3>2, <4>1, <4>2, Zenon
      <3>. QED BY <3>1, <3>2, Zenon
    <2>4. groups' = Append(q, g) /\ UNCHANGED <<users, cnx, timer>>
      BY <1>1, <2>1, <2>2, Zenon DEF perspective_group_add
    <2>5. g.gid = gid
      BY <2>1, Zenon
    <2>. QED BY <1>0, <2>3, <2>4, <2>5, UniqueAppended, Zenon
  <1>2. ASSUME NEW gid \in Gids, perspective_group_enable(gid) \/ perspective_group_disable(gid) PROVE Goal
    <2>1. PICK x \in BOOLEAN : groups' = [groups EXCEPT ![getGroup(gid)].enabled = x]
      BY <1>2, Zenon DEF perspective_group_enable, perspective_group_disable
    <2>2. getGroup(gid) # 0 /\ UNCHANGED <<users, cnx, timer>>
      BY <1>2, Zenon DEF perspective_group_enable, perspective_group_disable
    <2>3. getGroup(gid) \in 1 .. Len(groups)
      BY <1>0, <2>2, FoundGroup, Zenon
    <2>. QED BY <1>0, <2>1, <2>2, <2>3, UniqueChanged, Zenon
  <1>3. ASSUME NEW gid \in Gids, perspective_group_remove(gid) PROVE Goal
    <2>1. CASE getGroup(gid) = 0
      BY <1>0, <1>3, <2>1, Zenon DEF perspective_group_remove
    <2>2. CASE getGroup(gid) # 0
      <3>1. getGroup(gid) \in 1 .. Len(groups)
        BY <1>0, <2>2, FoundGroup, Zenon
      <3>2. users' = UsersOutside({gid}) /\ groups' = RemoveAt(groups, getGroup(gid)) /\ UNCHANGED <<cnx, timer>>
        BY <1>3, <2>2, Zenon DEF perspective_group_remove
      <3>. QED BY <1>0, <3>1, <3>2, UniqueRemoved, OutsideType, Zenon
    <2>. QED BY <2>1, <2>2, Zenon
  <1>4. CASE perspective_group_remove_all
    <2>1. users' = UsersOutside(CurrentGids) /\ groups' = << >> /\ UNCHANGED <<cnx, timer>>
      BY <1>4, Zenon DEF perspective_group_remove_all
    <2>. QED BY <1>0, <2>1, EmptyLists, OutsideType, Zenon
  <1>. QED BY <1>1, <1>2, <1>3, <1>4, Zenon DEF GroupCalls

LEMMA TableCallsTyped ==
    ASSUME ListInv, TableCalls
    PROVE  /\ table' \in [RoutesAndInterceptors -> TableValues]
           /\ UNCHANGED <<users, groups, cnx, timer, saved>>
           /\ \E t \in RoutesAndInterceptors : Pending(t)
  <1>0. table \in [RoutesAndInterceptors -> TableValues]
    BY Zenon DEF ListInv, TableTyped
  <1>1. PICK t \in RoutesAndInterceptors :
          \/ \E e \in Entries, o \in Orders : Adds(t, e, o)
          \/ \E o \in Orders : Removes(t, o)
          \/ Holds(t, << >>)
    BY Zenon DEF TableCalls, RoutesAndInterceptors, perspective_mtinterceptor_add, perspective_mointerceptor_add,
           perspective_mtroute_add, perspective_moroute_add, perspective_mointerceptor_remove,
           perspective_mtinterceptor_remove, perspective_moroute_remove, perspective_mtroute_remove,
           perspective_mtinterceptor_flush, perspective_mointerceptor_flush,
           perspective_mtroute_flush, perspective_moroute_flush
  <1>2. PICK os \in SUBSET Orders : table[t] \in [os -> Entries]
    BY <1>0 DEF TableValues
  <1>3. PICK value \in TableValues : Holds(t, value)
    <2>1. ASSUME NEW e \in Entries, NEW o \in Orders, Adds(t, e, o) PROVE \E value \in TableValues : Holds(t, value)
      <3>1. PICK value : value = [x \in DOMAIN table[t] \cup {o} |-> IF x = o THEN e ELSE table[t][x]]
        BY Zenon
      <3>2. value \in [os \cup {o} -> Entries] /\ os \cup {o} \in SUBSET Orders
        BY <1>2, <3>1, Zenon
      <3>3. value \in TableValues
        BY <3>2, Zenon DEF TableValues
      <3>. QED BY <2>1, <3>1, <3>3, Zenon DEF Adds
    <2>2. ASSUME NEW o \in Orders, Removes(t, o) PROVE \E value \in TableValues : Holds(t, value)
      <3>1. PICK value : value = [x \in DOMAIN table[t] \ {o} |-> table[t][x]]
        BY Zenon
      <3>2. value \in [os \ {o} -> Entries] /\ os \ {o} \in SUBSET Orders
        BY <1>2, <3>1, Zenon
      <3>3. value \in TableValues
        BY <3>2, Zenon DEF TableValues
      <3>. QED BY <2>2, <3>1, <3>3, Zenon DEF Removes
    <2>. QED BY <1>1, <2>1, <2>2, EmptyTable, Zenon
  <1>. QED BY <1>0, <1>3, Zenon DEF Holds

\* Users without their marks.
LEMMA SettledUsers ==
    ASSUME NEW us \in Seq(UserRecords)
    PROVE  Settled(us) \in Seq(UserRecords) /\ Settled(Settled(us)) = Settled(us)
  <1>1. Len(us) \in Nat /\ DOMAIN us = 1 .. Len(us) /\ \A i \in 1 .. Len(us) : us[i] \in UserRecords
    BY LenProperties, ElementOfSeq, Zenon
  <1>2. PICK v : v = Settled(us)
    BY Zenon
  <1>3. DOMAIN v = DOMAIN us /\ \A i \in DOMAIN us : v[i] = [us[i] EXCEPT !.updated = FALSE]
    BY <1>2, Zenon DEF Settled
  <1>4. ASSUME NEW u \in UserRecords
        PROVE  /\ [u EXCEPT !.updated = FALSE] \in UserRecords
               /\ [[u EXCEPT !.updated = FALSE] EXCEPT !.updated = FALSE] = [u EXCEPT !.updated = FALSE]
    BY Zenon DEF UserRecords
  <1>5. \A i \in 1 .. Len(us) : v[i] \in UserRecords /\ [v[i] EXCEPT !.updated = FALSE] = v[i]
    BY <1>1, <1>3, <1>4, Zenon
  <1>6. v = [i \in 1 .. Len(us) |-> v[i]]
    BY <1>1, <1>2, <1>3, Zenon DEF Settled
  <1>7. v \in Seq(UserRecords)
    BY <1>1, <1>5, <1>6, IsASeq
  <1>8. Settled(v) = v
    BY <1>1, <1>3, <1>5, <1>6, Zenon DEF Settled
  <1>. QED BY <1>2, <1>7, <1>8, Zenon

\* A write, whichever scopes it reaches.
LEMMA WriteLists ==
    ASSUME GroupInv, UserInv, NEW ok, NEW cut, NEW us \in Seq(UserRecords), Write(ok, cut, us)
    PROVE  GroupInv' /\ UserInv'
  <1>0. /\ users' = IF "users" \in ok THEN Settled(users) ELSE us
        /\ UNCHANGED groups
    BY Zenon DEF Write
  <1>1. \A s \in Scopes : disk'[s] \in {Image(s), Unreadable, disk[s]}
    BY Zenon DEF Write
  <1>2. GroupInv'
    <2>1. disk'["groups"] \in {groups, Unreadable, disk["groups"]}
      BY <1>1, Zenon DEF Image, Scopes
    <2>. QED BY <1>0, <2>1, Zenon DEF GroupInv
  <1>3. UserInv'
    <2>1. disk'["users"] \in {Settled(users), Unreadable, disk["users"]}
      BY <1>1, Zenon DEF Image, Scopes
    <2>2. Settled(users) \in Seq(UserRecords) /\ Settled(Settled(users)) = Settled(users)
      BY SettledUsers, Zenon DEF UserInv
    <2>. QED BY <1>0, <2>1, <2>2, Zenon DEF UserInv
  <1>. QED BY <1>2, <1>3, Zenon

LEMMA WriteTyped ==
    ASSUME ListInv, NEW ok, NEW cut, NEW us \in Seq(UserRecords), Write(ok, cut, us)
    PROVE  /\ Shape' /\ GroupInv' /\ UserInv' /\ TableTyped'
           /\ cnx' \in [Uids -> Uids]
  <1>1. Shape'
    BY Zenon DEF Write, ListInv, Shape
  <1>2. GroupInv' /\ UserInv'
    BY WriteLists, Zenon DEF ListInv
  <1>3. TableTyped'
    <2>1. \A s \in Scopes : disk'[s] \in {Image(s), Unreadable, disk[s]}
      BY Zenon DEF Write
    <2>2. ASSUME NEW t \in RoutesAndInterceptors PROVE disk'[t] \in {table[t], Unreadable, disk[t]}
      BY <2>1, Zenon DEF Image, Scopes, RoutesAndInterceptors
    <2>. QED BY <2>2, Zenon DEF Write, ListInv, TableTyped
  <1>. QED BY <1>1, <1>2, <1>3, Zenon DEF Write, ListInv

\* A load, whichever scopes it reaches.
LEMMA LoadLists ==
    ASSUME GroupInv, UserInv, NEW done, Loads(done)
    PROVE  GroupInv' /\ UserInv'
  <1>1. GroupInv'
    BY Zenon DEF Loads, GroupInv
  <1>2. users' \in Seq(UserRecords)
    BY OutsideType, Zenon DEF Loads, UserInv, LoadedUsers
  <1>3. UserInv'
    BY <1>2, Zenon DEF Loads, UserInv
  <1>. QED BY <1>1, <1>3, Zenon

LEMMA LoadTyped ==
    ASSUME ListInv, NEW done, Loads(done)
    PROVE  Shape' /\ GroupInv' /\ UserInv' /\ TableTyped'
  <1>1. Shape'
    BY Zenon DEF Loads, ListInv, Shape
  <1>2. GroupInv' /\ UserInv'
    BY LoadLists, Zenon DEF ListInv
  <1>3. TableTyped'
    BY Zenon DEF Loads, ListInv, TableTyped
  <1>. QED BY <1>1, <1>2, <1>3, Zenon

\* The persistence timer writes, with the mark it found taken away, or does
\* nothing.
LEMMA TimerWrites ==
    ASSUME users \in Seq(UserRecords), persistenceTimerExpired
    PROVE  /\ timer' = TRUE /\ UNCHANGED <<calls, restarts>>
           /\ \/ UNCHANGED <<config, persistenceState, saved>>
              \/ \E ok, cut \in SUBSET TimerScopes, us \in Seq(UserRecords) :
                    /\ faults' = faults + Cardinality(TimerScopes \ ok)
                    /\ faults' =< MaxFaults
                    /\ Write(ok, cut, us)
  <1>. DEFINE T == {i \in 1 .. Len(users) : users[i].updated}
              first == IF T # {} THEN Min(T) ELSE 0
  <1>1. /\ timer' = TRUE /\ UNCHANGED <<calls, restarts>>
        /\ \/ UNCHANGED <<config, persistenceState, saved>>
           \/ /\ first # 0
              /\ \E ok, cut \in SUBSET TimerScopes :
                    /\ faults' = faults + Cardinality(TimerScopes \ ok)
                    /\ faults' =< MaxFaults
                    /\ Write(ok, cut, [users EXCEPT ![first].updated = FALSE])
    BY Zenon DEF persistenceTimerExpired, activatePersistenceTimer, SelectInSeq
  <1>2. T \subseteq 1 .. Len(users)
    BY Zenon
  <1>3. first # 0 => first \in 1 .. Len(users)
    <2>. HIDE DEF T
    <2>. QED BY <1>2, FirstOfUsers, Zenon
  <1>. HIDE DEF first
  <1>4. first # 0 => [users EXCEPT ![first].updated = FALSE] \in Seq(UserRecords)
    <2>. SUFFICES ASSUME first # 0 PROVE [users EXCEPT ![first].updated = FALSE] \in Seq(UserRecords)
      BY Zenon
    <2>1. users[first] \in UserRecords
      BY <1>3, ElementOfSeq, Zenon
    <2>2. PICK u : u = [users[first] EXCEPT !.updated = FALSE]
      BY Zenon
    <2>3. u \in UserRecords
      BY <2>1, <2>2, Zenon DEF UserRecords
    <2>4. [users EXCEPT ![first] = u] \in Seq(UserRecords)
      BY <1>3, <2>3, ExceptSeq, Zenon
    <2>. QED BY <2>2, <2>4, Zenon
  <1>. QED BY <1>1, <1>4, Zenon

LEMMA TimerTyped ==
    ASSUME ListInv, persistenceTimerExpired
    PROVE  ListInv'
  <1>1. /\ timer' = TRUE /\ UNCHANGED <<calls, restarts>>
        /\ \/ UNCHANGED <<config, persistenceState, saved>>
           \/ \E ok, cut \in SUBSET TimerScopes, us \in Seq(UserRecords) :
                 /\ faults' = faults + Cardinality(TimerScopes \ ok)
                 /\ faults' =< MaxFaults
                 /\ Write(ok, cut, us)
    BY TimerWrites, Zenon DEF ListInv, UserInv
  <1>2. CASE UNCHANGED <<config, persistenceState, saved>>
    BY <1>1, <1>2, Zenon DEF config, saved, ListInv, Shape, GroupInv, UserInv, TableTyped, CountersTyped
  <1>3. ASSUME NEW ok \in SUBSET TimerScopes, NEW cut, NEW us \in Seq(UserRecords),
               faults' = faults + Cardinality(TimerScopes \ ok), faults' =< MaxFaults,
               Write(ok, cut, us)
        PROVE  ListInv'
    <2>1. Shape' /\ GroupInv' /\ UserInv' /\ TableTyped' /\ cnx' \in [Uids -> Uids]
      BY <1>3, WriteTyped, Zenon
    <2>2. Cardinality(TimerScopes \ ok) \in Nat
      <3>1. IsFiniteSet({"groups"} \cup {"users"})
        BY FS_Singleton, FS_Union, Zenon
      <3>2. TimerScopes = {"groups"} \cup {"users"}
        BY Zenon DEF TimerScopes
      <3>. QED BY <3>1, <3>2, FS_Subset, FS_CardinalityType, Zenon
    <2>3. CountersTyped'
      BY <1>1, <1>3, <2>2, RouterConstants DEF ListInv, CountersTyped
    <2>. QED BY <2>1, <2>3, Zenon DEF ListInv
  <1>. QED BY <1>1, <1>2, <1>3, Zenon

LEMMA RestartTyped ==
    ASSUME ListInv, Restart
    PROVE  ListInv'
  <1>1. Shape'
    BY Zenon DEF Restart, ListInv, Shape
  <1>2. GroupInv' /\ UserInv'
    BY EmptyLists, Zenon DEF Restart, ListInv, GroupInv, UserInv
  <1>3. TableTyped'
    BY EmptyTable, Zenon DEF Restart, ListInv, TableTyped
  <1>4. CountersTyped'
    BY RouterConstants DEF Restart, ListInv, CountersTyped
  <1>. QED BY <1>1, <1>2, <1>3, <1>4, Zenon DEF Restart, ListInv

LEMMA NextKeepsLists ==
    ASSUME ListInv, [Next]_vars
    PROVE  ListInv'
  <1>0. Shape /\ GroupInv /\ UserInv /\ TableTyped /\ CountersTyped /\ cnx \in [Uids -> Uids]
    BY Zenon DEF ListInv
  <1>1. Call => calls' \in 0 .. MaxCalls /\ UNCHANGED restarts
    BY <1>0, RouterConstants DEF Call, CountersTyped
  <1>2. CASE (UserCalls \/ GroupCalls) /\ Call
    <2>1. Elsewhere
      BY <1>2, UserCallsElsewhere, GroupCallsElsewhere, Zenon
    <2>2. /\ users' \in Seq(UserRecords) /\ groups' \in Seq(GroupRecords) /\ UniqueGids(groups')
          /\ cnx' \in [Uids -> Uids] /\ UNCHANGED timer
      BY <1>0, <1>2, UserCallsTyped, GroupCallsTyped, Zenon DEF GroupInv, UserInv
    <2>3. Shape'
      BY <1>0, <2>1, Zenon DEF Elsewhere, saved, Shape, Pending
    <2>4. GroupInv' /\ UserInv' /\ TableTyped'
      BY <1>0, <2>1, <2>2, Zenon DEF Elsewhere, saved, GroupInv, UserInv, TableTyped
    <2>5. CountersTyped'
      BY <1>0, <1>1, <1>2, <2>1, <2>2, Zenon DEF Elsewhere, saved, CountersTyped
    <2>. QED BY <2>2, <2>3, <2>4, <2>5, Zenon DEF ListInv
  <1>3. CASE TableCalls /\ Call
    <2>1. /\ table' \in [RoutesAndInterceptors -> TableValues]
          /\ UNCHANGED <<users, groups, cnx, timer, disk, synced, faults>>
          /\ \E t \in RoutesAndInterceptors : Pending(t)
      BY <1>3, TableCallsTyped, Zenon DEF saved
    <2>2. Shape'
      BY <1>0, <2>1, Zenon DEF Shape, Pending
    <2>3. GroupInv' /\ UserInv' /\ TableTyped'
      BY <1>0, <2>1, Zenon DEF GroupInv, UserInv, TableTyped
    <2>4. CountersTyped'
      BY <1>0, <1>1, <1>3, <2>1, Zenon DEF CountersTyped
    <2>. QED BY <1>0, <2>1, <2>2, <2>3, <2>4, Zenon DEF ListInv
  <1>4. ASSUME NEW scope \in Scopes \cup {"all"}, perspective_persist(scope), Call PROVE ListInv'
    <2>1. /\ \E ok, cut : Write(ok, cut, users)
          /\ UNCHANGED timer
          /\ faults' = faults \/ (faults < MaxFaults /\ faults' = faults + 1)
      BY <1>4, Zenon DEF perspective_persist
    <2>2. Shape' /\ GroupInv' /\ UserInv' /\ TableTyped' /\ cnx' \in [Uids -> Uids]
      BY <1>0, <2>1, WriteTyped, Zenon DEF UserInv
    <2>3. CountersTyped'
      BY <1>0, <1>1, <1>4, <2>1, RouterConstants DEF CountersTyped
    <2>. QED BY <2>2, <2>3, Zenon DEF ListInv
  <1>5. ASSUME NEW scope \in Scopes \cup {"all"}, perspective_load(scope), Call PROVE ListInv'
    <2>1. Shape' /\ GroupInv' /\ UserInv' /\ TableTyped' /\ UNCHANGED <<cnx, timer, faults>>
      BY <1>5, LoadIsLoads, LoadTyped, Zenon
    <2>2. CountersTyped'
      BY <1>0, <1>1, <1>5, <2>1, Zenon DEF CountersTyped
    <2>. QED BY <1>0, <2>1, <2>2, Zenon DEF ListInv
  <1>6. CASE UNCHANGED vars
    BY <1>6, Zenon DEF vars, config, saved, ListInv, Shape, GroupInv, UserInv, TableTyped, CountersTyped
  <1>. QED BY <1>2, <1>3, <1>4, <1>5, <1>6, TimerTyped, RestartTyped, Zenon DEF Next, FileCalls

\* perspective_group_add, perspective_group_remove, perspective_load: a gid stands
\* for one group in the router and in the file, and what the router holds and
\* saves has the types it is read back with.
THEOREM OneGroupPerGid == Spec => []IInv
  <1>1. ListInv /\ [Next]_vars => ListInv'
    BY NextKeepsLists, Zenon
  <1>. QED BY InitLists, <1>1, ListIsIInv, PTL DEF Spec

-----------------------------------------------------------------------------
(* Loading. *)

\* What a load of the scopes in done makes of the configuration is what the
\* files hold.
LEMMA LoadedIsSaved ==
    ASSUME UserInv, NEW done, done \subseteq Scopes, Loads(done)
    PROVE  \A s \in done : Image(s)' = disk[s]
  <1>1. CASE "users" \in done
    <2>1. users' = disk["users"] /\ Settled(disk["users"]) = disk["users"]
      BY <1>1, Zenon DEF Loads, LoadedUsers, UserInv
    <2>. QED BY <2>1, Zenon DEF Loads, Image, Settled, Scopes
  <1>2. CASE "users" \notin done
    BY <1>2, Zenon DEF Loads, Image, Scopes
  <1>. QED BY <1>1, <1>2, Zenon

\* perspective_load: everything that was saved comes back, marks excepted, which
\* no file holds; the users are read after the groups took theirs away.
THEOREM LoadsWhatWasSaved == Spec => LoadRestores
  <1>1. ListInv /\ [Next]_vars => ListInv'
    BY NextKeepsLists, Zenon
  <1>2. ASSUME ListInv, \A s \in Scopes : disk[s] # Unreadable, perspective_load("all")
        PROVE  \A s \in Scopes : Image(s)' = disk[s] /\ persistenceState'[s]
    <2>1. PICK done : done = {LoadOrder[i] : i \in {k \in DOMAIN LoadOrder :
                                          \A j \in 1 .. k : disk[LoadOrder[j]] # Unreadable}}
      BY Zenon
    <2>3. /\ DOMAIN LoadOrder = 1 .. 6 /\ \A i \in 1 .. 6 : LoadOrder[i] \in Scopes
          /\ \A s \in Scopes : \E i \in 1 .. 6 : s = LoadOrder[i]
      <3>1. /\ DOMAIN LoadOrder = 1 .. 6
            /\ LoadOrder[1] = "groups" /\ LoadOrder[2] = "users" /\ LoadOrder[3] = "mointerceptors"
            /\ LoadOrder[4] = "mtinterceptors" /\ LoadOrder[5] = "moroutes" /\ LoadOrder[6] = "mtroutes"
        BY DEF LoadOrder
      <3>. QED BY <3>1 DEF Scopes, RoutesAndInterceptors
    <2>4. done = Scopes
      BY <1>2, <2>1, <2>3
    <2>5. Loads(done)
      BY <1>2, <2>1, <2>4, Zenon DEF perspective_load, Loads
    <2>6. \A s \in Scopes : persistenceState'[s]
      BY <2>4, <2>5, Zenon DEF Loads
    <2>. QED BY <1>2, <2>4, <2>5, <2>6, LoadedIsSaved, Zenon DEF ListInv
  <1>3. ListInv /\ [Next]_vars
        => [(\A s \in Scopes : disk[s] # Unreadable) /\ perspective_load("all")
               => \A s \in Scopes : Image(s)' = disk[s] /\ persistenceState'[s]]_vars
    BY <1>2, Zenon
  <1>. QED BY InitLists, <1>1, <1>3, PTL DEF Spec, LoadRestores

-----------------------------------------------------------------------------
(* Charging. *)

\* A user's balance was changed by a charge that no file has yet.
Marked == \E i \in DOMAIN users : users[i].updated

\* Without a call of the router, and without a write that fails, a balance that
\* was charged is on disk after the next step of the router.
NextStepSaves == [][Marked /\ UNCHANGED <<calls, faults>> => BalancesOnDisk']_vars

\* What a timer that finds a mark writes, when no write fails: all the users.
LEMMA TimerSaves ==
    ASSUME users \in Seq(UserRecords), faults \in Nat, Marked, persistenceTimerExpired, UNCHANGED faults
    PROVE  users' = Settled(users) /\ disk'["users"] = Settled(users)
  <1>. DEFINE T == {i \in 1 .. Len(users) : users[i].updated}
              first == IF T # {} THEN Min(T) ELSE 0
  <1>1. first # 0
        => \E ok, cut \in SUBSET TimerScopes :
              /\ faults' = faults + Cardinality(TimerScopes \ ok)
              /\ Write(ok, cut, [users EXCEPT ![first].updated = FALSE])
    BY Zenon DEF persistenceTimerExpired, SelectInSeq
  <1>2. T \subseteq 1 .. Len(users)
    BY Zenon
  <1>3. T # {}
    BY LenProperties, Zenon DEF Marked
  <1>4. first # 0
    <2>. HIDE DEF T
    <2>1. first \in 1 .. Len(users)
      BY <1>2, <1>3, FirstOfUsers, Zenon
    <2>. QED BY <2>1, LenProperties
  <1>. HIDE DEF first
  <1>5. PICK ok \in SUBSET TimerScopes, cut \in SUBSET TimerScopes :
              /\ faults' = faults + Cardinality(TimerScopes \ ok)
              /\ Write(ok, cut, [users EXCEPT ![first].updated = FALSE])
    BY <1>1, <1>4, Zenon
  <1>6. IsFiniteSet(TimerScopes \ ok)
    <2>1. IsFiniteSet({"groups"} \cup {"users"})
      BY FS_Singleton, FS_Union, Zenon
    <2>2. TimerScopes = {"groups"} \cup {"users"}
      BY Zenon DEF TimerScopes
    <2>. QED BY <2>1, <2>2, FS_Subset, Zenon
  <1>7. Cardinality(TimerScopes \ ok) = 0
    <2>1. Cardinality(TimerScopes \ ok) \in Nat
      BY <1>6, FS_CardinalityType, Zenon
    <2>. QED BY <1>5, <2>1
  <1>8. "users" \in ok
    <2>1. TimerScopes \ ok = {}
      BY <1>6, <1>7, FS_EmptySet, Zenon
    <2>2. "users" \in TimerScopes
      BY Zenon DEF TimerScopes
    <2>. QED BY <2>1, <2>2
  <1>. QED BY <1>5, <1>8, Zenon DEF Write, Image, Scopes

\* Users and a file of the same users without their marks.
LEMMA SettledHolds ==
    ASSUME users \in Seq(UserRecords), users' = Settled(users), disk'["users"] = Settled(users)
    PROVE  BalancesOnDisk'
  <1>1. Settled(users) # Unreadable
    BY SettledUsers, UnreadableIsNoList, Zenon
  <1>2. \A i \in DOMAIN users' :
           Holding(disk'["users"], users'[i].uid, users'[i].balance)
    BY Zenon DEF Holding
  <1>. QED BY <1>1, <1>2, Zenon DEF BalancesOnDisk

\* persistenceTimerExpired: a charge whose mark is set is in the file of users
\* after the next step that is neither a call nor a failing write, with the balance
\* of every other user: what ChargeReachesDisk needs besides the timer's fairness.
THEOREM ChargeIsSavedNext == Spec => NextStepSaves
  <1>1. ListInv /\ [Next]_vars => ListInv'
    BY NextKeepsLists, Zenon
  <1>2. ASSUME ListInv, Next, Marked, UNCHANGED <<calls, faults>> PROVE BalancesOnDisk'
    <2>1. users \in Seq(UserRecords) /\ faults \in Nat /\ calls \in Nat
      BY <1>2, RouterConstants DEF ListInv, UserInv, CountersTyped
    <2>2. ~Call
      BY <1>2, <2>1 DEF Call
    <2>3. CASE persistenceTimerExpired
      BY <1>2, <2>1, <2>3, TimerSaves, SettledHolds, Zenon
    <2>4. CASE Restart
      <3>1. users' = << >>
        BY <2>4, Zenon DEF Restart
      <3>2. DOMAIN users' = {}
        BY <3>1
      <3>. QED BY <3>2, Zenon DEF BalancesOnDisk
    <2>. QED BY <1>2, <2>2, <2>3, <2>4, Zenon DEF Next
  <1>3. ListInv /\ [Next]_vars
        => [Marked /\ UNCHANGED <<calls, faults>> => BalancesOnDisk']_vars
    BY <1>2, Zenon
  <1>. QED BY InitLists, <1>1, <1>3, PTL DEF Spec, NextStepSaves

=============================================================================
