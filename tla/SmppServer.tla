----------------------------- MODULE SmppServer -----------------------------
(***************************************************************************)
(* The sessions of the SMPP server: binding, unbinding and losing a        *)
(* connection (protocols/smpp/protocol.py), the factory's bind managers    *)
(* and their counts (protocols/smpp/factory.py), and the users of the      *)
(* router, which administrators change while sessions are bound            *)
(* (routing/router.py, protocols/cli/usersm.py).                           *)
(*                                                                         *)
(* A session is bound under a username.  The factory keeps a bind manager  *)
(* for a username, with the user of its first session; the manager counts  *)
(* in the CnxStatus of that user, and UserStats keeps a CnxStatus for a    *)
(* uid, which outlives the user.                                           *)
(***************************************************************************)
EXTENDS Integers, FiniteSets, FiniteSetsExt, Sequences, Tables

CONSTANTS
    Sessions,   \* connections that peers open
    Accounts,   \* what administrators add: records of a uid and a username
    Quotas,     \* values of max_bindings; None is no limit
    None

Uids == {a.uid : a \in Accounts}
Names == {a.name : a \in Accounts}
Types == {"bind_transmitter", "bind_receiver", "bind_transceiver"}

ASSUME ServerConstants ==
    /\ IsFiniteSet(Sessions) /\ Accounts \subseteq [uid : Uids, name : Names]
    /\ Quotas \subseteq Nat \cup {None}
    /\ None \notin Names /\ None \notin Uids
    /\ None \notin [uid : Uids, bindings : SUBSET Sessions]

VARIABLES
    users,              \* RouterPB.users
    cnx,                \* UserStats: uid -> its CnxStatus, named by the uid it was made for
    count,              \* CnxStatus -> bound_connections_count
    bound_peer_ips,     \* CnxStatus -> the sessions in its roster
    session,            \* session -> its state, system_id, user and bind type
    bound_connections,  \* username -> bind manager: user's uid and sessions, or None
    banned              \* history: usernames banned, and not let in again since

vars == <<users, cnx, count, bound_peer_ips, session, bound_connections, banned>>
userVars == <<users, cnx, banned>>
statusVars == <<count, bound_peer_ips>>

Closed == [state |-> "closed", name |-> None, uid |-> None, type |-> None]

Init ==
    /\ users = <<>>
    /\ cnx = [u \in Uids |-> u]
    /\ count = [o \in Uids |-> [t \in Types |-> 0]]
    /\ bound_peer_ips = [o \in Uids |-> {}]
    /\ session = [s \in Sessions |-> Closed]
    /\ bound_connections = [n \in Names |-> None]
    /\ banned = {}

-----------------------------------------------------------------------------
(* Administrators.  The first user found is the one that is meant. *)

getUser(uid) == SelectInSeq(users, LAMBDA u : u.uid = uid)
UserNamed(n) == SelectInSeq(users, LAMBDA u : u.name = n)
UserLike(a) == SelectInSeq(users, LAMBDA u : u.uid = a.uid \/ u.name = a.name)

\* A user with the uid or the username is replaced, and hands its CnxStatus on.
perspective_user_add(a, q) ==
    LET i == UserLike(a)
        user == [uid |-> a.uid, name |-> a.name, enabled |-> TRUE, bind |-> TRUE, max_bindings |-> q]
    IN  /\ users' = Append(IF i = 0 THEN users ELSE RemoveAt(users, i), user)
        /\ cnx' = IF i = 0 THEN cnx ELSE [cnx EXCEPT ![a.uid] = cnx[users[i].uid]]
        /\ banned' = banned \ {a.name}
        /\ UNCHANGED <<statusVars, session, bound_connections>>

perspective_user_remove(uid) ==
    LET i == getUser(uid)
    IN  /\ i # 0
        /\ users' = RemoveAt(users, i)
        /\ banned' = banned \ {users[i].name}
        /\ UNCHANGED <<cnx, statusVars, session, bound_connections>>

\* perspective_user_enable and perspective_user_disable.
SetEnabled(uid, b) ==
    LET i == getUser(uid)
    IN  /\ i # 0
        /\ users' = [users EXCEPT ![i].enabled = b]
        /\ UNCHANGED <<cnx, banned, statusVars, session, bound_connections>>

\* An update session of jCli changes the credential in place; the sessions
\* that are bound are left alone.
update_session(uid, b, q) ==
    LET i == getUser(uid)
    IN  /\ i # 0
        /\ users' = [users EXCEPT ![i].bind = b, ![i].max_bindings = q]
        /\ banned' = IF b THEN banned \ {users[i].name} ELSE banned
        /\ UNCHANGED <<cnx, statusVars, session, bound_connections>>

\* The sessions of a bind manager.
Bindings(n) == IF bound_connections[n] = None THEN {} ELSE bound_connections[n].bindings

Unbound(ss) ==
    [s \in Sessions |-> IF s \in ss THEN [session[s] EXCEPT !.state = "unbinding"] ELSE session[s]]

\* Mutant: a ban that leaves the sessions.
BanOnly(uid, ban) ==
    LET i == getUser(uid)
    IN  /\ i # 0
        /\ users' = IF ban THEN [users EXCEPT ![i].bind = FALSE] ELSE users
        /\ banned' = IF ban THEN banned \cup {users[i].name} ELSE banned
        /\ session' = IF ban THEN session ELSE Unbound(Bindings(users[i].name))
        /\ UNCHANGED <<cnx, statusVars, bound_connections>>

\* The unbind and ban commands of jCli.  An unbind PDU goes to every session
\* of the username; each one ends with its answer or its time-out.
unbindAndRemoveGateway(uid, ban) ==
    LET i == getUser(uid)
    IN  /\ i # 0
        /\ users' = IF ban THEN [users EXCEPT ![i].bind = FALSE] ELSE users
        /\ banned' = IF ban THEN banned \cup {users[i].name} ELSE banned
        /\ session' = Unbound(Bindings(users[i].name))
        /\ UNCHANGED <<cnx, statusVars, bound_connections>>

-----------------------------------------------------------------------------
(* Sessions. *)

connectionMade(s) ==
    /\ session[s].state = "closed"
    /\ session' = [session EXCEPT ![s].state = "open"]
    /\ UNCHANGED <<userVars, statusVars, bound_connections>>

BindCount(uid) ==
    LET c == count[cnx[uid]] IN c["bind_transmitter"] + c["bind_receiver"] + c["bind_transceiver"]

\* Mutant: one binding too many.
OneMore(user) ==
    /\ user.bind
    /\ user.max_bindings # None => BindCount(user.uid) <= user.max_bindings

canOpenNewConnection(user) ==
    /\ user.bind
    /\ user.max_bindings # None => BindCount(user.uid) < user.max_bindings

\* The manager of the username, which is made for the first session.
addBoundConnection(s, n, uid) ==
    IF bound_connections[n] = None THEN [uid |-> uid, bindings |-> {s}]
    ELSE [bound_connections[n] EXCEPT !.bindings = @ \cup {s}]

\* SMPPBindManager.addBinding: counted for the user the manager was made for.
addBinding(o, s, type) ==
    /\ count' = [count EXCEPT ![o][type] = @ + 1]
    /\ bound_peer_ips' = [bound_peer_ips EXCEPT ![o] = @ \cup {s}]

\* The peer has the password of user i; the avatar is the first user with the
\* username.  The login does not wait for anything, so the count that was
\* checked is the count that is raised.
doBindRequest(s, i, type) ==
    LET n == users[i].name
        user == users[UserNamed(n)]
        manager == addBoundConnection(s, n, user.uid)
    IN  /\ session[s].state = "open"
        /\ users[i].enabled
        /\ canOpenNewConnection(user)
        /\ session' = [session EXCEPT ![s] = [state |-> "bound", name |-> n, uid |-> user.uid,
                                                   type |-> type]]
        /\ bound_connections' = [bound_connections EXCEPT ![n] = manager]
        /\ addBinding(cnx[manager.uid], s, type)
        /\ UNCHANGED userVars

\* A peer that unbinds, or that submits on a receiver's session.
onPDURequest_unbind(s) ==
    /\ session[s].state = "bound"
    /\ session' = Unbound({s})
    /\ UNCHANGED <<userVars, statusVars, bound_connections>>

removeBinding(o, s, type) ==
    /\ count' = [count EXCEPT ![o][type] = @ - 1]
    /\ bound_peer_ips' = [bound_peer_ips EXCEPT ![o] = @ \ {s}]

\* Mutant: a manager without sessions stays.
NeverPopped(s) ==
    LET n == session[s].name  manager == bound_connections[n]
    IN  IF n = None THEN UNCHANGED <<statusVars, bound_connections>>
        ELSE /\ removeBinding(cnx[manager.uid], s, session[s].type)
             /\ bound_connections' = [bound_connections EXCEPT ![n].bindings = @ \ {s}]

\* Mutant: a session that has unbound is taken for one that never was bound.
BoundOnly(s) ==
    LET n == session[s].name  manager == bound_connections[n]  left == manager.bindings \ {s}
    IN  IF session[s].state # "bound" THEN UNCHANGED <<statusVars, bound_connections>>
        ELSE /\ removeBinding(cnx[manager.uid], s, session[s].type)
             /\ bound_connections' = [bound_connections EXCEPT
                    ![n] = IF left = {} THEN None ELSE [manager EXCEPT !.bindings = left]]

\* A session that never was bound has no username.  The last one to go takes
\* the manager along.
removeConnection(s) ==
    LET n == session[s].name  manager == bound_connections[n]  left == manager.bindings \ {s}
    IN  IF n = None THEN UNCHANGED <<statusVars, bound_connections>>
        ELSE /\ removeBinding(cnx[manager.uid], s, session[s].type)
             /\ bound_connections' = [bound_connections EXCEPT
                    ![n] = IF left = {} THEN None ELSE [manager EXCEPT !.bindings = left]]

connectionLost(s) ==
    /\ session[s].state # "closed"
    /\ removeConnection(s)
    /\ session' = [session EXCEPT ![s] = Closed]
    /\ UNCHANGED userVars

Next ==
    \/ \E a \in Accounts, q \in Quotas : perspective_user_add(a, q)
    \/ \E uid \in Uids :
          \/ perspective_user_remove(uid)
          \/ \E b \in BOOLEAN : SetEnabled(uid, b)
          \/ \E b \in BOOLEAN, q \in Quotas : update_session(uid, b, q)
          \/ \E ban \in BOOLEAN : unbindAndRemoveGateway(uid, ban)
    \/ \E s \in Sessions :
          \/ connectionMade(s) \/ onPDURequest_unbind(s) \/ connectionLost(s)
          \/ \E i \in DOMAIN users, type \in Types : doBindRequest(s, i, type)

Spec == Init /\ [][Next]_vars

\* A session that unbinds is closed, by the peer or by the server's timer.
Fairness ==
    \A s \in Sessions : WF_vars(session[s].state = "unbinding" /\ connectionLost(s))

FairSpec == Spec /\ Fairness

-----------------------------------------------------------------------------
(* Properties. *)

UserRecords ==
    {u \in [uid : Uids, name : Names, enabled : BOOLEAN, bind : BOOLEAN, max_bindings : Quotas] :
        [uid |-> u.uid, name |-> u.name] \in Accounts}
SessionRecords == [state : {"closed", "open", "bound", "unbinding"}, name : Names \cup {None},
                   uid : Uids \cup {None}, type : Types \cup {None}]
Managers == [uid : Uids, bindings : SUBSET Sessions]

TypeOK ==
    /\ users \in Seq(UserRecords)
    /\ cnx \in [Uids -> Uids]
    /\ count \in [Uids -> [Types -> Int]]
    /\ bound_peer_ips \in [Uids -> SUBSET Sessions]
    /\ session \in [Sessions -> SessionRecords]
    /\ bound_connections \in [Names -> Managers \cup {None}]
    /\ banned \subseteq Names

\* The sessions of a username, from the bind to the loss of the connection.
SessionsOf(n) == {s \in Sessions : session[s].name = n}

\* perspective_list_bound_systemids
BoundSystemIds == {n \in Names : bound_connections[n] # None}

\* A username has a bind manager exactly while it has sessions, and the
\* manager has exactly those: a session that goes always finds its manager,
\* and a receiver listed as bound has one (addBoundConnection and
\* removeConnection).
ManagersHaveSessions ==
    \A n \in Names : /\ n \in BoundSystemIds <=> SessionsOf(n) # {}
                     /\ Bindings(n) = SessionsOf(n)

\* The inductive invariant: a session has a username exactly from its bind on,
\* so that removeConnection takes every bound session out of its manager and no
\* other.
IInv ==
    /\ TypeOK /\ ManagersHaveSessions
    /\ \A s \in Sessions : session[s].state \in {"bound", "unbinding"} <=> session[s].name # None

\* The counts and the roster of a CnxStatus are those of the sessions whose
\* manager counts there, for every bind type, over replaced, removed and
\* re-added users: no session is counted twice, forgotten or left behind
\* (SMPPBindManager).
CountsMatch ==
    \A o \in Uids :
        LET counted == UNION {Bindings(n) : n \in {m \in BoundSystemIds : cnx[bound_connections[m].uid] = o}}
        IN  /\ bound_peer_ips[o] = counted
            /\ \A t \in Types : count[o][t] = Cardinality({s \in counted : session[s].type = t})

\* A bind never brings a username above the max_bindings of its user, however
\* sessions and administrators interleave (canOpenNewConnection).
BindWithinQuota ==
    [][\A s \in Sessions, n \in Names :
          session[s].state = "open" /\ session'[s].name = n =>
              LET quota == users[UserNamed(n)].max_bindings
              IN  quota # None => Cardinality(Bindings(n)') <= quota]_vars

\* A user who is banned has no session left in the end, if no administrator
\* lets the user in again (unbindAndRemoveGateway).
BanEmpties ==
    \A n \in Names : n \in banned ~> n \notin banned \/ n \notin BoundSystemIds

-----------------------------------------------------------------------------
(* What the repository says and the code does not do. *)

\* "Maximum bound connections at a time (multi binding)" (jcli/modules.rst):
\* a bind never brings the sessions bound as a user above the user's
\* max_bindings, also for a user who gets the username of a removed one.
MaximumBound ==
    [][\A s \in Sessions, i \in DOMAIN users :
          session[s].state = "open" /\ session'[s].uid = users[i].uid /\ users[i].max_bindings # None =>
              Cardinality({r \in Sessions : session'[r].uid = users[i].uid}) <= users[i].max_bindings]_vars

=============================================================================
