------------------------------ MODULE RouterPB ------------------------------
(***************************************************************************)
(* The configuration that the router holds (routing/router.py): users,     *)
(* groups, two routing and two interception tables, the persistence flags, *)
(* and the files they are saved to and loaded from.  Users and groups are  *)
(* Python lists, searched from the front.  A write may fail before the     *)
(* file is opened, or between opening it, which truncates it, and writing  *)
(* the pickle; a process may stop at any time and start again with nothing *)
(* but the files.  Tables are kept as functions from order to entry; how   *)
(* they are searched is not part of this module.                           *)
(***************************************************************************)
EXTENDS Integers, Sequences, FiniteSets, FiniteSetsExt, Tables

CONSTANTS
    Uids,           \* user ids
    Usernames,      \* user names
    Gids,           \* group ids
    Orders,         \* orders of table entries
    Entries,        \* entries: a kind, "default" or "static", and a value
    Balances,       \* balances a user may have
    Unreadable,     \* a file that is absent, empty or cut off
    MaxCalls,       \* bound: calls of administrators and charges
    MaxFaults,      \* bound: writes that fail
    MaxRestarts     \* bound: restarts of the process

RoutesAndInterceptors == {"moroutes", "mtroutes", "mointerceptors", "mtinterceptors"}
Scopes == {"groups", "users"} \cup RoutesAndInterceptors

ASSUME RouterConstants ==
    /\ Orders \subseteq Nat
    /\ \A e \in Entries : e.kind \in {"default", "static"}
    /\ Balances \subseteq Int
    /\ MaxCalls \in Nat /\ MaxFaults \in Nat /\ MaxRestarts \in Nat

VARIABLES
    users,              \* RouterPB.users
    groups,             \* RouterPB.groups
    table,              \* the four tables
    cnx,                \* UserStats: whose CnxStatus object each uid refers to
    persistenceState,   \* the flags; a key that is absent counts as TRUE
    timer,              \* the persistence timer runs
    disk,               \* the file of each scope, in the default profile
    synced,             \* history: the scope was saved or loaded by this process
    calls, faults, restarts

config == <<users, groups, table, cnx>>
saved == <<disk, synced, faults>>
vars == <<config, persistenceState, timer, saved, calls, restarts>>

UserRecords == [uid : Uids, username : Usernames, gid : Gids, enabled : BOOLEAN,
                balance : Balances, updated : BOOLEAN]
GroupRecords == [gid : Gids, enabled : BOOLEAN]
TableValues == UNION {[os -> Entries] : os \in SUBSET Orders}

\* A file that cannot be read is told from one that holds a list of users.
ASSUME UnreadableIsNoList == Unreadable \notin Seq(UserRecords)

Init ==
    /\ users = << >> /\ groups = << >>
    /\ table = [t \in RoutesAndInterceptors |-> << >>]
    /\ cnx = [uid \in Uids |-> uid]
    /\ persistenceState = [s \in Scopes |-> TRUE]
    /\ timer = TRUE
    /\ disk = [s \in Scopes |-> Unreadable]
    /\ synced = [s \in Scopes |-> FALSE]
    /\ calls = 0 /\ faults = 0 /\ restarts = 0

Pending(s) == persistenceState' = [persistenceState EXCEPT ![s] = FALSE]

-----------------------------------------------------------------------------
(* Users. *)

\* getUser(uid): the place of the first user with this uid, 0 when there is none.
getUser(uid) == SelectInSeq(users, LAMBDA u : u.uid = uid)
getGroup(gid) == SelectInSeq(groups, LAMBDA g : g.gid = gid)

\* User.__init__ makes an enabled user with new credentials.
NewUser(uid, username, gid, balance) ==
    [uid |-> uid, username |-> username, gid |-> gid, enabled |-> TRUE,
     balance |-> balance, updated |-> FALSE]

\* Mutant: a user of an unknown group is taken.
UserAddUngrouped(u) ==
    LET old == SelectInSeq(users, LAMBDA x : x.uid = u.uid \/ x.username = u.username)
    IN  /\ users' = Append(IF old = 0 THEN users ELSE RemoveAt(users, old), u)
        /\ cnx' = IF old = 0 THEN cnx ELSE [cnx EXCEPT ![u.uid] = cnx[users[old].uid]]
        /\ Pending("users")
        /\ UNCHANGED <<groups, table, timer, saved>>

\* The first user with this uid or this username is replaced, and the new one
\* goes on with its CnxStatus.
perspective_user_add(u) ==
    LET old == SelectInSeq(users, LAMBDA x : x.uid = u.uid \/ x.username = u.username)
    IN  /\ getGroup(u.gid) # 0
        /\ users' = Append(IF old = 0 THEN users ELSE RemoveAt(users, old), u)
        /\ cnx' = IF old = 0 THEN cnx ELSE [cnx EXCEPT ![u.uid] = cnx[users[old].uid]]
        /\ Pending("users")
        /\ UNCHANGED <<groups, table, timer, saved>>

\* The user that getUser finds becomes u.
Becomes(uid, u) ==
    /\ getUser(uid) # 0
    /\ users' = [users EXCEPT ![getUser(uid)] = u]
    /\ UNCHANGED <<groups, table, cnx, timer, saved>>

perspective_user_enable(uid) ==
    Becomes(uid, [users[getUser(uid)] EXCEPT !.enabled = TRUE]) /\ Pending("users")

perspective_user_disable(uid) ==
    Becomes(uid, [users[getUser(uid)] EXCEPT !.enabled = FALSE]) /\ Pending("users")

perspective_user_remove(uid) ==
    /\ getUser(uid) # 0
    /\ users' = RemoveAt(users, getUser(uid))
    /\ Pending("users")
    /\ UNCHANGED <<groups, table, cnx, timer, saved>>

perspective_user_remove_all ==
    /\ users' = << >>
    /\ Pending("users")
    /\ UNCHANGED <<groups, table, cnx, timer, saved>>

perspective_user_set_quota(uid, b) ==
    Becomes(uid, [users[getUser(uid)] EXCEPT !.balance = b]) /\ Pending("users")

\* updateQuota marks the credential, for the persistence timer to see.
updateQuota(uid, d) ==
    /\ getUser(uid) # 0
    /\ users[getUser(uid)].balance + d \in Balances
    /\ Becomes(uid, [users[getUser(uid)] EXCEPT !.balance = @ + d, !.updated = TRUE])

perspective_user_update_quota(uid, d) == updateQuota(uid, d) /\ Pending("users")

\* chargeUserForSubmitSms and the bill requests leave the flags alone.
charge(uid) == updateQuota(uid, -1) /\ UNCHANGED persistenceState

-----------------------------------------------------------------------------
(* Groups. *)

\* Mutant: the group that is there is not replaced.
GroupAddTwice(gid) ==
    /\ groups' = Append(groups, [gid |-> gid, enabled |-> TRUE])
    /\ Pending("groups")
    /\ UNCHANGED <<users, table, cnx, timer, saved>>

perspective_group_add(gid) ==
    LET new == [gid |-> gid, enabled |-> TRUE]
    IN  /\ groups' = Append(IF getGroup(gid) = 0 THEN groups
                            ELSE RemoveAt(groups, getGroup(gid)), new)
        /\ Pending("groups")
        /\ UNCHANGED <<users, table, cnx, timer, saved>>

perspective_group_enable(gid) ==
    /\ getGroup(gid) # 0
    /\ groups' = [groups EXCEPT ![getGroup(gid)].enabled = TRUE]
    /\ Pending("groups")
    /\ UNCHANGED <<users, table, cnx, timer, saved>>

perspective_group_disable(gid) ==
    /\ getGroup(gid) # 0
    /\ groups' = [groups EXCEPT ![getGroup(gid)].enabled = FALSE]
    /\ Pending("groups")
    /\ UNCHANGED <<users, table, cnx, timer, saved>>

\* The users that are left when the list was gone through, user by user.
UsersOutside(gids) ==
    LET left[i \in 0 .. Len(users)] ==
            IF i = 0 THEN << >>
            ELSE IF users[i].gid \in gids THEN left[i - 1] ELSE Append(left[i - 1], users[i])
    IN  left[Len(users)]

CurrentGids == {groups[i].gid : i \in DOMAIN groups}

\* The users of the group go with it.  Only a call that finds no group clears
\* the flag.
perspective_group_remove(gid) ==
    /\ UNCHANGED <<table, cnx, timer, saved>>
    /\ IF getGroup(gid) = 0
       THEN Pending("groups") /\ UNCHANGED <<users, groups>>
       ELSE /\ users' = UsersOutside({gid})
            /\ groups' = RemoveAt(groups, getGroup(gid))
            /\ UNCHANGED persistenceState

perspective_group_remove_all ==
    /\ users' = UsersOutside(CurrentGids)
    /\ groups' = << >>
    /\ Pending("groups")
    /\ UNCHANGED <<table, cnx, timer, saved>>

-----------------------------------------------------------------------------
(* Tables: RoutingTable.add, InterceptionTable.add, remove and flush. *)

Holds(t, value) ==
    /\ table' = [table EXCEPT ![t] = value]
    /\ Pending(t)
    /\ UNCHANGED <<users, groups, cnx, timer, saved>>

\* Order 0 is for a default entry, and a default entry for order 0.
Adds(t, e, o) ==
    /\ (o = 0) <=> (e.kind = "default")
    /\ Holds(t, [x \in DOMAIN table[t] \cup {o} |-> IF x = o THEN e ELSE table[t][x]])

\* The flag is cleared even when the order is unknown.
Removes(t, o) == Holds(t, [x \in DOMAIN table[t] \ {o} |-> table[t][x]])

\* Mutant: the flag of the table is not cleared.
FlushUnflagged ==
    /\ table' = [table EXCEPT !["moroutes"] = << >>]
    /\ UNCHANGED <<users, groups, cnx, timer, saved, persistenceState>>

perspective_mtinterceptor_add(e, o) == Adds("mtinterceptors", e, o)
perspective_mointerceptor_add(e, o) == Adds("mointerceptors", e, o)
perspective_mointerceptor_remove(o) == Removes("mointerceptors", o)
perspective_mtinterceptor_remove(o) == Removes("mtinterceptors", o)
perspective_mtinterceptor_flush == Holds("mtinterceptors", << >>)
perspective_mointerceptor_flush == Holds("mointerceptors", << >>)
perspective_mtroute_add(e, o) == Adds("mtroutes", e, o)
perspective_moroute_add(e, o) == Adds("moroutes", e, o)
perspective_moroute_remove(o) == Removes("moroutes", o)
perspective_mtroute_remove(o) == Removes("mtroutes", o)
perspective_mtroute_flush == Holds("mtroutes", << >>)
perspective_moroute_flush == Holds("moroutes", << >>)

-----------------------------------------------------------------------------
(* Files. *)

\* quotas_updated is reset when users are saved, and again when they are loaded.
Settled(us) == [i \in DOMAIN us |-> [us[i] EXCEPT !.updated = FALSE]]

\* What is pickled for a scope.
Image(s) ==
    CASE s = "users" -> Settled(users)
      [] s = "groups" -> groups
      [] OTHER -> table[s]

\* The scopes of ok are written, the files of cut are opened and left empty; us
\* are the users when theirs is not written.
Write(ok, cut, us) ==
    /\ disk' = [s \in Scopes |-> IF s \in ok THEN Image(s)
                                 ELSE IF s \in cut THEN Unreadable ELSE disk[s]]
    /\ persistenceState' = [s \in Scopes |-> s \in ok \/ persistenceState[s]]
    /\ synced' = [s \in Scopes |-> s \in ok \/ synced[s]]
    /\ users' = IF "users" \in ok THEN Settled(users) ELSE us
    /\ UNCHANGED <<groups, table, cnx>>

PersistOrder == <<"groups", "users", "moroutes", "mtroutes", "mointerceptors", "mtinterceptors">>
LoadOrder == <<"groups", "users", "mointerceptors", "mtinterceptors", "moroutes", "mtroutes">>

\* The scopes before a failure stay persisted.
perspective_persist(scope) ==
    LET todo == IF scope = "all" THEN PersistOrder ELSE <<scope>>
        ok(n) == {todo[i] : i \in 1 .. n}
    IN  \/ /\ Write(ok(Len(todo)), {}, users)
           /\ UNCHANGED <<faults, timer>>
        \/ /\ faults < MaxFaults
           /\ faults' = faults + 1
           /\ UNCHANGED timer
           /\ \E n \in 0 .. Len(todo) - 1 :
                 \E cut \in {{}, {todo[n + 1]}} : Write(ok(n), cut, users)

\* Mutant: the users are loaded before the groups.
UsersLoadedFirst(done) ==
    LET read == IF "users" \in done THEN disk["users"] ELSE users
    IN  IF "groups" \in done
        THEN SelectSeq(read, LAMBDA u : u.gid \notin CurrentGids) ELSE read

\* The users of the present groups go with their groups, before the users are
\* read.
LoadedUsers(done) ==
    IF "users" \in done THEN disk["users"]
    ELSE IF "groups" \in done THEN UsersOutside(CurrentGids) ELSE users

\* A file is read and unpickled before anything is changed, and the first one
\* that is unreadable ends the call.
perspective_load(scope) ==
    LET todo == IF scope = "all" THEN LoadOrder ELSE <<scope>>
        done == {todo[i] : i \in {k \in DOMAIN todo :
                                     \A j \in 1 .. k : disk[todo[j]] # Unreadable}}
    IN  /\ groups' = IF "groups" \in done THEN disk["groups"] ELSE groups
        /\ users' = LoadedUsers(done)
        /\ table' = [t \in RoutesAndInterceptors |-> IF t \in done THEN disk[t] ELSE table[t]]
        /\ persistenceState' = [s \in Scopes |-> s \in done \/ persistenceState[s]]
        /\ synced' = [s \in Scopes |-> s \in done \/ synced[s]]
        /\ UNCHANGED <<cnx, timer, disk, faults>>

\* Mutant: only the groups are persisted.
GroupsOnly == {"groups"}

\* What the timer persists.
TimerScopes == {"groups", "users"}

activatePersistenceTimer == timer' = TRUE

\* Groups and users are persisted when a user has its mark, which is taken away
\* even when that failed, and the timer is activated again.
persistenceTimerExpired ==
    /\ timer
    /\ activatePersistenceTimer
    /\ LET first == SelectInSeq(users, LAMBDA u : u.updated)
           todo == TimerScopes
       IN  IF first = 0 THEN UNCHANGED <<config, persistenceState, saved>>
           ELSE \E ok, cut \in SUBSET todo :
                   /\ ok \cap cut = {}
                   /\ faults' = faults + Cardinality(todo \ ok)
                   /\ faults' =< MaxFaults
                   /\ Write(ok, cut, [users EXCEPT ![first].updated = FALSE])
    /\ UNCHANGED <<calls, restarts>>

\* The process ends and RouterPB.__init__ runs in a new one.
Restart ==
    /\ restarts < MaxRestarts
    /\ restarts' = restarts + 1
    /\ users' = << >> /\ groups' = << >>
    /\ table' = [t \in RoutesAndInterceptors |-> << >>]
    /\ cnx' = [uid \in Uids |-> uid]
    /\ persistenceState' = [s \in Scopes |-> TRUE]
    /\ synced' = [s \in Scopes |-> FALSE]
    /\ timer' = TRUE
    /\ UNCHANGED <<disk, faults, calls>>

-----------------------------------------------------------------------------
(* The specification. *)

Call == calls < MaxCalls /\ calls' = calls + 1 /\ UNCHANGED restarts

UserCalls ==
    \/ \E uid \in Uids, name \in Usernames, gid \in Gids, b \in Balances :
          perspective_user_add(NewUser(uid, name, gid, b))
    \/ \E uid \in Uids :
          \/ perspective_user_enable(uid) \/ perspective_user_disable(uid)
          \/ perspective_user_remove(uid)
          \/ \E b \in Balances : perspective_user_set_quota(uid, b)
          \/ perspective_user_update_quota(uid, 1)
          \/ charge(uid)
    \/ perspective_user_remove_all

GroupCalls ==
    \/ \E gid \in Gids :
          \/ perspective_group_add(gid) \/ perspective_group_remove(gid)
          \/ perspective_group_enable(gid) \/ perspective_group_disable(gid)
    \/ perspective_group_remove_all

TableCalls ==
    \/ \E o \in Orders :
          \/ \E e \in Entries :
                \/ perspective_mtinterceptor_add(e, o) \/ perspective_mointerceptor_add(e, o)
                \/ perspective_mtroute_add(e, o) \/ perspective_moroute_add(e, o)
          \/ perspective_mointerceptor_remove(o) \/ perspective_mtinterceptor_remove(o)
          \/ perspective_moroute_remove(o) \/ perspective_mtroute_remove(o)
    \/ perspective_mtinterceptor_flush \/ perspective_mointerceptor_flush
    \/ perspective_mtroute_flush \/ perspective_moroute_flush

FileCalls ==
    \E scope \in Scopes \cup {"all"} : perspective_persist(scope) \/ perspective_load(scope)

Next ==
    \/ UserCalls /\ Call
    \/ GroupCalls /\ Call
    \/ TableCalls /\ Call
    \/ FileCalls /\ Call
    \/ persistenceTimerExpired
    \/ Restart

Spec == Init /\ [][Next]_vars

\* The reactor calls an expired timer.
FairSpec == Spec /\ WF_vars(persistenceTimerExpired)

-----------------------------------------------------------------------------
(* Properties. *)

UniqueGids(gs) == \A i, j \in DOMAIN gs : gs[i].gid = gs[j].gid => i = j

\* A gid stands for one group, in the router and in the file: getGroup, enable,
\* disable and remove take the first group they find and would leave another.
IInv ==
    /\ UniqueGids(groups)
    /\ disk["groups"] # Unreadable => UniqueGids(disk["groups"])
    /\ users \in Seq(UserRecords) /\ groups \in Seq(GroupRecords)
    /\ table \in [RoutesAndInterceptors -> TableValues]
    /\ cnx \in [Uids -> Uids]
    /\ persistenceState \in [Scopes -> BOOLEAN] /\ synced \in [Scopes -> BOOLEAN]
    /\ timer \in BOOLEAN
    /\ disk["users"] \in Seq(UserRecords) \cup {Unreadable}
    /\ disk["groups"] \in Seq(GroupRecords) \cup {Unreadable}
    /\ \A t \in RoutesAndInterceptors : disk[t] \in TableValues \cup {Unreadable}
    /\ calls \in 0 .. MaxCalls /\ faults \in 0 .. MaxFaults /\ restarts \in 0 .. MaxRestarts

\* perspective_is_persisted can be believed for a table that this process has
\* saved or loaded: while the flag is up and no later write was cut off, the
\* file holds the table.
TableFlags ==
    \A t \in RoutesAndInterceptors :
        synced[t] /\ persistenceState[t] => disk[t] \in {table[t], Unreadable}

\* A load of everything brings back exactly what the files hold, users included,
\* although loading the groups removes the users of the groups that were there.
LoadRestores ==
    [][(\A s \in Scopes : disk[s] # Unreadable) /\ perspective_load("all")
          => \A s \in Scopes : Image(s)' = disk[s] /\ persistenceState'[s]]_vars

Holding(us, uid, b) == \E i \in DOMAIN us : us[i].uid = uid /\ us[i].balance = b

\* The file of users has the balance of every user of the router.
BalancesOnDisk ==
    \A i \in DOMAIN users :
        disk["users"] # Unreadable /\ Holding(disk["users"], users[i].uid, users[i].balance)

\* A balance that was charged reaches the disk once no call follows it, and with
\* it the balance of every other user, unless a write fails or the process ends
\* first: the timer is activated again each time it expires, and finds the mark
\* that updateQuota left.
ChargeReachesDisk ==
    \A n \in 0 .. MaxCalls :
        /\ calls = n
        /\ \E i \in DOMAIN users : users[i].updated
        ~> BalancesOnDisk \/ calls > n \/ faults > 0

=============================================================================
