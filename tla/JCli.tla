-------------------------------- MODULE JCli --------------------------------
(***************************************************************************)
(* The management console (protocols/cli): several telnet connections,     *)
(* each with its own managers, interactive sessions and filters, over one  *)
(* RouterPB and one set of SMPP client connectors.  A line is handled in   *)
(* one turn of the reactor, except where a manager waits for a connector;  *)
(* lines of this and of other connections come in meanwhile.  A line that  *)
(* is refused changes nothing and is not a step.  A route or interceptor   *)
(* of any type but the default one is "static", with one target (connector *)
(* or script) and one filter, known by the tables its class may serve.     *)
(***************************************************************************)
EXTENDS RouterPB, TLC

CONSTANTS
    Conns,          \* jCli connections
    Fids,           \* filter ids
    Cids,           \* SMPP client connector ids
    HttpCids,       \* HTTP connector ids
    SystemIds,      \* system ids an MO route may name
    Scripts,        \* interceptor scripts that can be read and compiled
    None,
    Profile,        \* the default profile found on disk at the start
    Uses            \* the sets of commands that administrators use together

\* The profile was saved by this program.
ASSUME JCliConstants ==
    /\ Profile.users \in Seq(UserRecords) /\ Settled(Profile.users) = Profile.users
    /\ Profile.groups \in Seq(GroupRecords) /\ UniqueGids(Profile.groups)

VARIABLES
    auth,       \* closed, username, password, in (authenticated), gone
    sess,       \* the interactive session of each connection
    filters,    \* FiltersManager.filters of each connection
    httpccs,    \* HttpccManager.httpccs of each connection
    files,      \* the files of filters, HTTP and SMPP client connectors
    smppcs,     \* SMPP client connectors: service status and PendingRestart
    jobs,       \* handlers of each connection that wait for a connector
    used        \* the commands used in this behaviour

jvars == <<auth, sess, filters, httpccs, files, smppcs, jobs, used>>
jcliVars == <<vars, jvars>>
routerVars == <<config, persistenceState, timer, saved>>

NoSession == [mgr |-> "none", op |-> "none", ctx |-> None, buf |-> << >>]

\* JCliFactory.doStart has loaded the default profile.
JInit ==
    /\ users = Profile.users /\ groups = Profile.groups
    /\ table = [t \in RoutesAndInterceptors |-> << >>]
    /\ disk = [s \in Scopes |-> CASE s = "users" -> users [] s = "groups" -> groups
                                  [] OTHER -> table[s]]
    /\ synced = [s \in Scopes |-> TRUE]
    /\ cnx = [uid \in Uids |-> uid]
    /\ persistenceState = [s \in Scopes |-> TRUE]
    /\ timer = TRUE
    /\ calls = 0 /\ faults = 0 /\ restarts = 0
    /\ files = [filters |-> Profile.filters, httpccs |-> Profile.httpccs,
                smppcs |-> Profile.smppcs]
    /\ smppcs = Profile.smppcs
    /\ auth = [c \in Conns |-> "closed"]
    /\ sess = [c \in Conns |-> NoSession]
    /\ filters = [c \in Conns |-> << >>] /\ httpccs = [c \in Conns |-> {}]
    /\ jobs = [c \in Conns |-> << >>]
    /\ used \in Uses

-----------------------------------------------------------------------------
(* Connections and sessions. *)

\* _load of FiltersManager and of HttpccManager.
LoadFilters(c) ==
    filters' = [filters EXCEPT ![c] = IF files.filters = Unreadable THEN @ ELSE files.filters]
LoadHttpccs(c) ==
    httpccs' = [httpccs EXCEPT ![c] = IF files.httpccs = Unreadable THEN @ ELSE files.httpccs]

\* The managers of a connection are made with it, and read their files.
connectionMade(c) ==
    /\ auth[c] = "closed"
    /\ auth' = [auth EXCEPT ![c] = "username"]
    /\ LoadFilters(c) /\ LoadHttpccs(c)
    /\ UNCHANGED <<vars, sess, files, smppcs, jobs, used>>

auth_username(c) ==
    /\ auth[c] = "username"
    /\ auth' = [auth EXCEPT ![c] = "password"]
    /\ UNCHANGED <<vars, sess, filters, httpccs, files, smppcs, jobs, used>>

auth_password(c) ==
    /\ auth[c] = "password"
    /\ \E right \in BOOLEAN : auth' = [auth EXCEPT ![c] = IF right THEN "in" ELSE "username"]
    /\ UNCHANGED <<vars, sess, filters, httpccs, files, smppcs, jobs, used>>

Drop(c) ==
    /\ auth' = [auth EXCEPT ![c] = "gone"]
    /\ UNCHANGED <<sess, filters, httpccs, files, smppcs, jobs, used>>

connectionLost(c) == auth[c] \notin {"closed", "gone"} /\ Drop(c) /\ UNCHANGED vars

\* A line at the prompt of jCli, and a line inside a session.
lineReceived(c, cmd) == auth[c] = "in" /\ sess[c].mgr = "none" /\ cmd \in used
Session(c, mgr, op) == auth[c] = "in" /\ sess[c].mgr = mgr /\ sess[c].op = op

SetSession(c, s) == sess' = [sess EXCEPT ![c] = s]

startSession(c, mgr, op, ctx) ==
    /\ SetSession(c, [mgr |-> mgr, op |-> op, ctx |-> ctx, buf |-> << >>])
    /\ UNCHANGED <<routerVars, auth, filters, httpccs, files, smppcs, jobs, used>>

stopSession(c) == SetSession(c, NoSession)
Ended(c) == stopSession(c) /\ UNCHANGED <<auth, filters, httpccs, files, smppcs, jobs, used>>

ko(c) ==
    /\ auth[c] = "in" /\ sess[c].mgr # "none"
    /\ Ended(c) /\ UNCHANGED routerVars

buf(c) == sess[c].buf

Buffers(c, b) ==
    /\ SetSession(c, [sess[c] EXCEPT !.buf = b])
    /\ UNCHANGED <<routerVars, auth, filters, httpccs, files, smppcs, jobs, used>>
With(b, key, value) == [k \in DOMAIN b \cup {key} |-> IF k = key THEN value ELSE b[k]]
Buffer(c, key, value) == Buffers(c, With(buf(c), key, value))

-----------------------------------------------------------------------------
(* Users and groups. *)

\* The group is looked up when its line is typed.
UserBuild(c) ==
    /\ Session(c, "user", "add")
    /\ \/ \E uid \in Uids : Buffer(c, "uid", uid)
       \/ \E name \in Usernames : Buffer(c, "username", name)
       \/ \E gid \in Gids : getGroup(gid) # 0 /\ Buffer(c, "gid", gid)

user_add_session(c) ==
    /\ Session(c, "user", "add")
    /\ {"uid", "username", "gid"} \subseteq DOMAIN buf(c)
    /\ \E b \in Balances :
          perspective_user_add(NewUser(buf(c).uid, buf(c).username, buf(c).gid, b))
    /\ Ended(c)

UserUpdate(c) ==
    /\ Session(c, "user", "update")
    /\ \/ Buffer(c, "quota", 1)
       \/ \E gid \in Gids : getGroup(gid) # 0 /\ Buffer(c, "gid", gid)

\* The live object is changed and no flag is cleared; when the user is gone the
\* exception ends the connection.
user_update_session(c) ==
    LET uid == sess[c].ctx
        old == users[getUser(uid)]
        more == IF "quota" \in DOMAIN buf(c) THEN buf(c).quota ELSE 0
    IN  /\ Session(c, "user", "update")
        /\ DOMAIN buf(c) # {}
        /\ IF getUser(uid) = 0 THEN Drop(c) /\ UNCHANGED routerVars
           ELSE /\ old.balance + more \in Balances
                /\ Becomes(uid, [old EXCEPT
                      !.gid = IF "gid" \in DOMAIN buf(c) THEN buf(c).gid ELSE @,
                      !.balance = @ + more,
                      !.updated = @ \/ more # 0])
                /\ UNCHANGED persistenceState
                /\ Ended(c)

UserExist(uid) == getUser(uid) # 0
EnableDisable(uid) == perspective_user_enable(uid) \/ perspective_user_disable(uid)

do_user(c) ==
    /\ lineReceived(c, "user")
    /\ \/ startSession(c, "user", "add", None)
       \/ \E uid \in Uids :
             /\ UserExist(uid)
             /\ \/ startSession(c, "user", "update", uid)
                \/ (EnableDisable(uid) \/ perspective_user_remove(uid)) /\ UNCHANGED jvars

GroupBuild(c) ==
    Session(c, "group", "add") /\ \E gid \in Gids : Buffer(c, "gid", gid)

group_add_session(c) ==
    /\ Session(c, "group", "add") /\ "gid" \in DOMAIN buf(c)
    /\ perspective_group_add(buf(c).gid)
    /\ Ended(c)

GroupExist(gid) == getGroup(gid) # 0

GroupCommand(gid) ==
    \/ perspective_group_enable(gid) \/ perspective_group_disable(gid)
    \/ perspective_group_remove(gid)

do_group(c) ==
    /\ lineReceived(c, "group")
    /\ \/ startSession(c, "group", "add", None)
       \/ \E gid \in Gids : GroupExist(gid) /\ GroupCommand(gid) /\ UNCHANGED jvars

-----------------------------------------------------------------------------
(* Routes and interceptors: four managers of the same shape. *)

Known(c, key) == key \in DOMAIN buf(c)

\* A type drops what was typed but the order, and forces that of a default
\* entry; an order is looked at against a type that is known already.
TypeLine(c) ==
    \E type \in {"default", "static"} :
        Buffers(c, IF type = "default" THEN [type |-> type, order |-> 0]
                   ELSE IF Known(c, "order") THEN [type |-> type, order |-> buf(c).order]
                   ELSE [type |-> type])

OrderLine(c) ==
    \E o \in Orders :
        IF Known(c, "type") /\ buf(c).type = "default" THEN Buffer(c, "order", 0)
        ELSE (Known(c, "type") => o # 0) /\ Buffer(c, "order", o)

TargetLine(c, targets) ==
    Known(c, "type") /\ \E v \in targets : Buffer(c, "target", v)

\* The filter itself is kept, not its id.
FilterLine(c, classes) ==
    /\ Known(c, "type") /\ buf(c).type = "static"
    /\ \E fid \in DOMAIN filters[c] :
          filters[c][fid] \in classes /\ Buffer(c, "filter", filters[c][fid])

\* The entry that all the lines of a session describe.
Built(c) ==
    /\ Known(c, "type") /\ Known(c, "order") /\ Known(c, "target")
    /\ buf(c).type = "static" => Known(c, "filter")
Entry(c) == [kind |-> buf(c).type, target |-> buf(c).target,
             filter |-> IF buf(c).type = "static" THEN buf(c).filter ELSE "none"]

MTRouteBuild(c) ==
    /\ Session(c, "mtrouter", "add")
    /\ \/ TypeLine(c) \/ OrderLine(c)
       \/ TargetLine(c, DOMAIN smppcs) \/ FilterLine(c, {"mt", "both"})

MORouteBuild(c) ==
    /\ Session(c, "morouter", "add")
    /\ \/ TypeLine(c) \/ OrderLine(c)
       \/ TargetLine(c, httpccs[c] \cup SystemIds) \/ FilterLine(c, {"mo", "both"})

MTInterceptorBuild(c) ==
    /\ Session(c, "mtinterceptor", "add")
    /\ \/ TypeLine(c) \/ OrderLine(c)
       \/ TargetLine(c, Scripts) \/ FilterLine(c, {"mt", "both"})

MOInterceptorBuild(c) ==
    /\ Session(c, "mointerceptor", "add")
    /\ \/ TypeLine(c) \/ OrderLine(c)
       \/ TargetLine(c, Scripts) \/ FilterLine(c, {"mo", "both"})

\* A session whose entry the table refuses stays open.
mtroute_add_session(c) ==
    /\ Session(c, "mtrouter", "add") /\ Built(c)
    /\ perspective_mtroute_add(Entry(c), buf(c).order) /\ Ended(c)

moroute_add_session(c) ==
    /\ Session(c, "morouter", "add") /\ Built(c)
    /\ perspective_moroute_add(Entry(c), buf(c).order) /\ Ended(c)

mtinterceptor_add_session(c) ==
    /\ Session(c, "mtinterceptor", "add") /\ Built(c)
    /\ perspective_mtinterceptor_add(Entry(c), buf(c).order) /\ Ended(c)

mointerceptor_add_session(c) ==
    /\ Session(c, "mointerceptor", "add") /\ Built(c)
    /\ perspective_mointerceptor_add(Entry(c), buf(c).order) /\ Ended(c)

MTRouteExist(o) == o \in DOMAIN table["mtroutes"]

do_mtrouter(c) ==
    /\ lineReceived(c, "mtrouter")
    /\ \/ startSession(c, "mtrouter", "add", None)
       \/ /\ \/ \E o \in Orders : MTRouteExist(o) /\ perspective_mtroute_remove(o)
             \/ perspective_mtroute_flush
          /\ UNCHANGED jvars

MORouteExist(o) == o \in DOMAIN table["moroutes"]

do_morouter(c) ==
    /\ lineReceived(c, "morouter")
    /\ \/ startSession(c, "morouter", "add", None)
       \/ /\ \/ \E o \in Orders : MORouteExist(o) /\ perspective_moroute_remove(o)
             \/ perspective_moroute_flush
          /\ UNCHANGED jvars

MTInterceptorExist(o) == o \in DOMAIN table["mtinterceptors"]

do_mtinterceptor(c) ==
    /\ lineReceived(c, "mtinterceptor")
    /\ \/ startSession(c, "mtinterceptor", "add", None)
       \/ /\ \/ \E o \in Orders : MTInterceptorExist(o) /\ perspective_mtinterceptor_remove(o)
             \/ perspective_mtinterceptor_flush
          /\ UNCHANGED jvars

MOInterceptorExist(o) == o \in DOMAIN table["mointerceptors"]

do_mointerceptor(c) ==
    /\ lineReceived(c, "mointerceptor")
    /\ \/ startSession(c, "mointerceptor", "add", None)
       \/ /\ \/ \E o \in Orders : MOInterceptorExist(o) /\ perspective_mointerceptor_remove(o)
             \/ perspective_mointerceptor_flush
          /\ UNCHANGED jvars

-----------------------------------------------------------------------------
(* Filters and HTTP connectors, which belong to the connection. *)

FilterBuild(c) ==
    /\ Session(c, "filter", "add")
    /\ \/ \E fid \in Fids : Buffer(c, "fid", fid)
       \/ \E class \in {"mo", "mt", "both"} : Buffer(c, "class", class)

filter_add_session(c) ==
    /\ Session(c, "filter", "add") /\ Known(c, "fid") /\ Known(c, "class")
    /\ filters' = [filters EXCEPT ![c] = (buf(c).fid :> buf(c).class) @@ @]
    /\ stopSession(c)
    /\ UNCHANGED <<routerVars, auth, httpccs, files, smppcs, jobs, used>>

FilterExist(c, fid) == fid \in DOMAIN filters[c]

do_filter(c) ==
    /\ lineReceived(c, "filter")
    /\ \/ startSession(c, "filter", "add", None)
       \/ \E fid \in Fids :
             /\ FilterExist(c, fid)
             /\ filters' = [filters EXCEPT ![c] = [f \in DOMAIN @ \ {fid} |-> @[f]]]
             /\ UNCHANGED <<routerVars, auth, sess, httpccs, files, smppcs, jobs, used>>

HttpccBuild(c) ==
    Session(c, "httpccm", "add") /\ \E cid \in HttpCids : Buffer(c, "cid", cid)

httpcc_add_session(c) ==
    /\ Session(c, "httpccm", "add") /\ Known(c, "cid")
    /\ httpccs' = [httpccs EXCEPT ![c] = @ \cup {buf(c).cid}]
    /\ stopSession(c)
    /\ UNCHANGED <<routerVars, auth, filters, files, smppcs, jobs, used>>

HttpccExist(c, cid) == cid \in httpccs[c]

do_httpccm(c) ==
    /\ lineReceived(c, "httpccm")
    /\ \/ startSession(c, "httpccm", "add", None)
       \/ \E cid \in HttpCids :
             /\ HttpccExist(c, cid)
             /\ httpccs' = [httpccs EXCEPT ![c] = @ \ {cid}]
             /\ UNCHANGED <<routerVars, auth, sess, filters, files, smppcs, jobs, used>>

-----------------------------------------------------------------------------
(* SMPP client connectors.  SMPPClientManager says what stop, start, add   *)
(* and remove do; a handler that waits for one of them is a job here.      *)

Running(cid) == cid \in DOMAIN smppcs /\ smppcs[cid].started
SetService(cid, on) == smppcs' = [smppcs EXCEPT ![cid].started = on]
Waits(c, job) == jobs' = [jobs EXCEPT ![c] = Append(@, job)]
Done(c, i) == jobs' = [jobs EXCEPT ![c] = RemoveAt(@, i)]
Phase(c, i, p, cid) == jobs' = [jobs EXCEPT ![c][i] = [phase |-> p, cid |-> cid]]

SMPPClientConfigBuild(c) ==
    Session(c, "smppccm", "add") /\ \E cid \in Cids : Buffer(c, "cid", cid)

connector_add_session(c) ==
    /\ Session(c, "smppccm", "add") /\ Known(c, "cid")
    /\ buf(c).cid \notin DOMAIN smppcs
    /\ Waits(c, [phase |-> "add", cid |-> buf(c).cid])
    /\ UNCHANGED <<routerVars, auth, sess, filters, httpccs, files, smppcs, used>>

SMPPClientConfigUpdate(c) ==
    /\ Session(c, "smppccm", "update")
    /\ \E key \in {"needs_restart", "live"} : Buffer(c, key, TRUE)

\* The configuration is changed at once; a running connector with a change that
\* needs it, now or earlier, is stopped and started.
connector_update_session(c) ==
    LET cid == sess[c].ctx
        pending == smppcs[cid].pending \/ Known(c, "needs_restart")
    IN  /\ Session(c, "smppccm", "update") /\ DOMAIN buf(c) # {}
        /\ cid \in DOMAIN smppcs
        /\ smppcs' = [smppcs EXCEPT ![cid].pending = pending]
        /\ IF pending /\ Running(cid)
           THEN Waits(c, [phase |-> "stop", cid |-> cid]) /\ UNCHANGED sess
           ELSE stopSession(c) /\ UNCHANGED jobs
        /\ UNCHANGED <<routerVars, auth, filters, httpccs, files, used>>

ConnectorExist(cid) == cid \in DOMAIN smppcs

RemoveStopStart(cid) ==
    \/ smppcs' = [k \in DOMAIN smppcs \ {cid} |-> smppcs[k]]
    \/ Running(cid) /\ SetService(cid, FALSE)
    \/ ~Running(cid) /\ SetService(cid, TRUE)

do_smppccm(c) ==
    /\ lineReceived(c, "smppccm")
    /\ \/ startSession(c, "smppccm", "add", None)
       \/ \E cid \in Cids :
             /\ ConnectorExist(cid)
             /\ \/ startSession(c, "smppccm", "update", cid)
                \/ /\ RemoveStopStart(cid)
                   /\ UNCHANGED <<routerVars, auth, sess, filters, httpccs, files, jobs, used>>

\* sessionContext of the SMPP client manager of c, read each time it is needed.
sessionContext(c) == IF sess[c].mgr = "smppccm" THEN sess[c].ctx ELSE None

\* A handler comes to its end: it needs the context for its last line, and
\* stopSession ends whatever session the connection is in.
Finish(c, i) ==
    /\ Done(c, i)
    /\ IF sessionContext(c) = None THEN UNCHANGED sess ELSE stopSession(c)

AddDone(c, i) ==
    /\ jobs[c][i].phase = "add"
    /\ smppcs' = (jobs[c][i].cid :> [started |-> FALSE, pending |-> FALSE]) @@ smppcs
    /\ Done(c, i) /\ stopSession(c)
    /\ UNCHANGED <<files, faults>>

\* The connector that is started is the one the context names by then.
StopDone(c, i) ==
    /\ jobs[c][i].phase = "stop"
    /\ IF Running(jobs[c][i].cid)
       THEN /\ SetService(jobs[c][i].cid, FALSE)
            /\ IF sessionContext(c) = None THEN Done(c, i)
               ELSE Phase(c, i, "start", sessionContext(c))
            /\ UNCHANGED sess
       ELSE Finish(c, i) /\ UNCHANGED smppcs
    /\ UNCHANGED <<files, faults>>

StartDone(c, i) ==
    LET job == jobs[c][i]
    IN  /\ job.phase \in {"start", "again"}
        /\ job.cid \in DOMAIN smppcs /\ ~Running(job.cid)
        /\ SetService(job.cid, TRUE)
        /\ Finish(c, i)
        /\ UNCHANGED <<files, faults>>

\* A start that could be made and fails: before the service is started, or, when
\* the consumer of the queue cannot be started, after that.
Fails(cid) ==
    IF cid \in DOMAIN smppcs /\ ~Running(cid)
    THEN /\ faults < MaxFaults /\ faults' = faults + 1
         /\ UNCHANGED smppcs \/ SetService(cid, TRUE)
    ELSE UNCHANGED <<faults, smppcs>>

\* Mutant: the start is not tried a second time.
StartGivenUp(c, i) ==
    /\ jobs[c][i].phase \in {"start", "again"}
    /\ Fails(jobs[c][i].cid)
    /\ Finish(c, i)
    /\ UNCHANGED files

\* A failed start is tried again after five seconds, once.
StartFailed(c, i) ==
    /\ jobs[c][i].phase \in {"start", "again"}
    /\ Fails(jobs[c][i].cid)
    /\ IF jobs[c][i].phase = "again" THEN Finish(c, i)
       ELSE /\ IF sessionContext(c) = None THEN Done(c, i)
               ELSE Phase(c, i, "again", sessionContext(c))
            /\ UNCHANGED sess
    /\ UNCHANGED files

LoadDone(c, i) ==
    /\ jobs[c][i].phase = "load"
    /\ smppcs' = IF files.smppcs = Unreadable THEN smppcs ELSE files.smppcs
    /\ Done(c, i)
    /\ UNCHANGED <<sess, files, faults>>

Job(c) ==
    /\ \E i \in DOMAIN jobs[c] :
          \/ AddDone(c, i) \/ StopDone(c, i) \/ StartDone(c, i)
          \/ StartFailed(c, i) \/ LoadDone(c, i)
    /\ UNCHANGED <<config, persistenceState, timer, disk, synced, calls, restarts>>
    /\ UNCHANGED <<auth, filters, httpccs, used>>

-----------------------------------------------------------------------------
(* Persisting and loading a profile. *)

FileNames == {"filters", "httpccs", "smppcs"}

\* Each manager writes its own file; one that fails does not stop the others.
do_persist(c) ==
    /\ lineReceived(c, "persist")
    /\ \E bad \in SUBSET (Scopes \cup FileNames) :
       \E cut \in {{}, bad} :
          /\ faults' = faults + Cardinality(bad)
          /\ faults' =< MaxFaults
          /\ Write(Scopes \ bad, cut \cap Scopes, users)
          /\ files' = [n \in FileNames |->
                         IF n \in cut THEN Unreadable ELSE IF n \in bad THEN files[n]
                         ELSE CASE n = "filters" -> filters[c]
                                [] n = "httpccs" -> httpccs[c]
                                [] n = "smppcs" -> smppcs]
    /\ UNCHANGED <<timer, auth, sess, filters, httpccs, smppcs, jobs, used>>

\* The managers load in the order of JCliProtocol.managers, the SMPP client
\* connectors in their own time; a file that cannot be read is left out.
do_load(c) ==
    LET done == {s \in Scopes : disk[s] # Unreadable}
    IN  /\ lineReceived(c, "load")
        /\ groups' = IF "groups" \in done THEN disk["groups"] ELSE groups
        /\ users' = LoadedUsers(done)
        /\ table' = [t \in RoutesAndInterceptors |-> IF t \in done THEN disk[t] ELSE table[t]]
        /\ persistenceState' = [s \in Scopes |-> s \in done \/ persistenceState[s]]
        /\ synced' = [s \in Scopes |-> s \in done \/ synced[s]]
        /\ LoadFilters(c) /\ LoadHttpccs(c)
        /\ Waits(c, [phase |-> "load", cid |-> None])
        /\ UNCHANGED <<cnx, timer, disk, faults, auth, sess, files, smppcs, used>>

-----------------------------------------------------------------------------
(* The specification. *)

Line(c) ==
    \/ do_user(c) \/ do_group(c) \/ do_mtrouter(c) \/ do_morouter(c)
    \/ do_mtinterceptor(c) \/ do_mointerceptor(c) \/ do_filter(c) \/ do_httpccm(c)
    \/ do_smppccm(c) \/ do_persist(c) \/ do_load(c)

SessionLine(c) ==
    \/ UserBuild(c) \/ user_add_session(c) \/ UserUpdate(c) \/ user_update_session(c)
    \/ GroupBuild(c) \/ group_add_session(c)
    \/ MTRouteBuild(c) \/ mtroute_add_session(c) \/ MORouteBuild(c) \/ moroute_add_session(c)
    \/ MTInterceptorBuild(c) \/ mtinterceptor_add_session(c)
    \/ MOInterceptorBuild(c) \/ mointerceptor_add_session(c)
    \/ FilterBuild(c) \/ filter_add_session(c) \/ HttpccBuild(c) \/ httpcc_add_session(c)
    \/ SMPPClientConfigBuild(c) \/ connector_add_session(c)
    \/ SMPPClientConfigUpdate(c) \/ connector_update_session(c) \/ ko(c)

JNext ==
    \/ \E c \in Conns :
          \/ connectionMade(c) \/ auth_username(c) \/ auth_password(c) \/ connectionLost(c)
          \/ (Line(c) \/ SessionLine(c)) /\ Call
          \/ Job(c)
    \/ persistenceTimerExpired /\ UNCHANGED jvars

JSpec == JInit /\ [][JNext]_jcliVars

\* The reactor runs the callbacks of a connector that has stopped or started.
JFairSpec == JSpec /\ \A c \in Conns : WF_jcliVars(Job(c))

-----------------------------------------------------------------------------
(* Properties. *)

\* A user that a session adds is in a group of the router, though the group was
\* looked up lines earlier and another connection may have removed it since.
AddedUserHasGroup ==
    [][\A c \in Conns : user_add_session(c) => Last(users').gid \in CurrentGids]_jcliVars

\* The service of a connector that was stopped for an update runs again, unless
\* the administrator leaves the session or two starts failed, after which the
\* handler gives up ("Permanently failed starting connector !", smppccm.py:402).
\* It may run without consuming its queue: a start that failed to consume leaves
\* it running, and the second one is then refused (clients.py:350-352, 383-387).
UpdateRestarts ==
    \A c \in Conns, cid \in Cids :
        LET Restarting(phases) ==
                \E i \in DOMAIN jobs[c] : jobs[c][i].phase \in phases /\ jobs[c][i].cid = cid
        IN  Restarting({"start"}) ~>
                \/ Running(cid) \/ cid \notin DOMAIN smppcs
                \/ Restarting({"start", "again"}) /\ sessionContext(c) # cid
                \/ faults > 1

=============================================================================
