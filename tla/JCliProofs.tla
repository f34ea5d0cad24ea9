----------------------------- MODULE JCliProofs -----------------------------
(***************************************************************************)
(* Proofs about the console, for any connections, profile and sequence of  *)
(* lines: what sessions and loads do to the configuration that the router  *)
(* holds, whatever other connections do meanwhile.  They rest on the       *)
(* lemmas about the router's own calls.                                    *)
(***************************************************************************)
EXTENDS JCli, RouterPBProofs

-----------------------------------------------------------------------------
(* Sessions. *)

\* What was typed for users and groups are user ids, user names and group ids.
Typed(b) ==
    /\ "uid" \in DOMAIN b => b.uid \in Uids
    /\ "username" \in DOMAIN b => b.username \in Usernames
    /\ "gid" \in DOMAIN b => b.gid \in Gids

Proper(s) ==
    /\ s = [mgr |-> s.mgr, op |-> s.op, ctx |-> s.ctx, buf |-> s.buf]
    /\ s.mgr \in {"user", "group"} => Typed(s.buf)

SessionsInv == sess = [c \in Conns |-> sess[c]] /\ \A c \in Conns : Proper(sess[c])

\* A line adds what it says to what was typed.
LEMMA LineTyped ==
    ASSUME NEW b, Typed(b), NEW key, NEW value,
           key = "uid" => value \in Uids,
           key = "username" => value \in Usernames,
           key = "gid" => value \in Gids
    PROVE  Typed(With(b, key, value))
  BY Zenon DEF Typed, With

-----------------------------------------------------------------------------
(* What a step may do to the router, to its session and to its filters. *)

\* Nothing, for the users, groups, tables and files.
Rests == UNCHANGED <<users, groups, table, cnx, persistenceState, disk, synced>>

\* user_update_session, which clears no flag.
Updates == \E uid, u : u \in UserRecords /\ Becomes(uid, u) /\ UNCHANGED persistenceState

TableStep(t) ==
    \/ \E e, o : Adds(t, e, o)
    \/ \E o : Removes(t, o)
    \/ Holds(t, << >>)

Writes == \E ok, cut, us : us \in Seq(UserRecords) /\ Write(ok, cut, us)

RouterStep ==
    \/ Rests \/ UserCalls \/ GroupCalls \/ Updates \/ Writes
    \/ \E t \in RoutesAndInterceptors : TableStep(t)
    \/ (\E done : Loads(done)) /\ UNCHANGED cnx

SessionStep(c) == UNCHANGED sess \/ \E s : Proper(s) /\ SetSession(c, s)

FilterStep(c) == UNCHANGED filters \/ \E f : filters' = [filters EXCEPT ![c] = f]

\* The configuration is one that the router's own calls could have made.
ConfigInv == TablesInv /\ GroupInv /\ UserInv /\ cnx \in [Uids -> Uids]

ConsoleInv == ConfigInv /\ SessionsInv /\ DOMAIN filters = Conns

LEMMA RouterStepKeeps ==
    ASSUME ConfigInv, RouterStep
    PROVE  ConfigInv'
  <1>1. CASE Rests
    BY <1>1, OtherCalls, Zenon DEF Rests, ConfigInv, GroupInv, UserInv
  <1>2. CASE UserCalls
    <2>1. TablesInv' /\ Elsewhere
      BY <1>2, UserCallsKeep, UserCallsElsewhere, Zenon DEF ConfigInv
    <2>2. users' \in Seq(UserRecords) /\ cnx' \in [Uids -> Uids] /\ UNCHANGED groups
      BY <1>2, UserCallsTyped, Zenon DEF ConfigInv, UserInv
    <2>. QED BY <2>1, <2>2, Zenon DEF ConfigInv, GroupInv, UserInv, Elsewhere, saved
  <1>3. CASE GroupCalls
    <2>1. TablesInv' /\ Elsewhere
      BY <1>3, UserCallsKeep, GroupCallsElsewhere, Zenon DEF ConfigInv
    <2>2. /\ users' \in Seq(UserRecords) /\ UNCHANGED cnx
          /\ groups' \in Seq(GroupRecords) /\ UniqueGids(groups')
      BY <1>3, GroupCallsTyped, Zenon DEF ConfigInv
    <2>. QED BY <2>1, <2>2, Zenon DEF ConfigInv, GroupInv, UserInv, Elsewhere, saved
  <1>4. CASE Updates
    <2>1. PICK uid, u : u \in UserRecords /\ Becomes(uid, u) /\ UNCHANGED persistenceState
      BY <1>4, Zenon DEF Updates
    <2>2. users' \in Seq(UserRecords)
      BY <2>1, BecomesTyped, Zenon DEF ConfigInv, UserInv
    <2>3. TablesInv'
      BY <2>1, OtherCalls, Zenon DEF Becomes, saved, ConfigInv
    <2>. QED BY <2>1, <2>2, <2>3, Zenon DEF ConfigInv, GroupInv, UserInv, Becomes, saved
  <1>5. CASE Writes
    <2>1. PICK ok, cut, us : us \in Seq(UserRecords) /\ Write(ok, cut, us)
      BY <1>5, Zenon DEF Writes
    <2>2. TablesInv'
      BY <2>1, WriteKeeps, Zenon DEF ConfigInv
    <2>3. GroupInv' /\ UserInv'
      BY <2>1, WriteLists, Zenon DEF ConfigInv
    <2>. QED BY <2>1, <2>2, <2>3, Zenon DEF ConfigInv, Write
  <1>6. ASSUME NEW t \in RoutesAndInterceptors, TableStep(t) PROVE ConfigInv'
    <2>1. TablesInv'
      BY <1>6, AddsIsOrdered, RemovesIsOrdered, FlushIsOrdered, Zenon DEF TableStep, ConfigInv
    <2>2. \E value : Holds(t, value)
      BY <1>6, Zenon DEF TableStep, Adds, Removes
    <2>3. UNCHANGED <<users, groups, cnx, disk>>
      BY <2>2, Zenon DEF Holds, saved
    <2>. QED BY <2>1, <2>3, Zenon DEF ConfigInv, GroupInv, UserInv
  <1>7. ASSUME NEW done, Loads(done), UNCHANGED cnx PROVE ConfigInv'
    BY <1>7, LoadKeeps, LoadLists, Zenon DEF ConfigInv
  <1>. QED BY <1>1, <1>2, <1>3, <1>4, <1>5, <1>6, <1>7, Zenon DEF RouterStep

LEMMA SessionStepKeeps ==
    ASSUME SessionsInv, NEW c \in Conns, SessionStep(c)
    PROVE  SessionsInv'
  BY Zenon DEF SessionsInv, SessionStep, SetSession

LEMMA StepKeeps ==
    ASSUME ConsoleInv, NEW c \in Conns, RouterStep, SessionStep(c), FilterStep(c)
    PROVE  ConsoleInv'
  <1>1. ConfigInv' /\ SessionsInv'
    BY RouterStepKeeps, SessionStepKeeps, Zenon DEF ConsoleInv
  <1>2. DOMAIN filters' = Conns
    BY Zenon DEF ConsoleInv, FilterStep
  <1>. QED BY <1>1, <1>2, Zenon DEF ConsoleInv


-----------------------------------------------------------------------------
(* What the steps of a connection do. *)

Within(c) == RouterStep /\ SessionStep(c) /\ FilterStep(c)

LEMMA QuietRouter ==
    ASSUME UNCHANGED routerVars
    PROVE  RouterStep
  BY Zenon DEF routerVars, config, saved, Rests, RouterStep

LEMMA Stops ==
    ASSUME NEW c, stopSession(c)
    PROVE  SessionStep(c)
  BY Zenon DEF stopSession, NoSession, Proper, SessionStep

LEMMA EndedIsWithin ==
    ASSUME NEW c, RouterStep, Ended(c)
    PROVE  Within(c)
  BY Stops, Zenon DEF Ended, Within, FilterStep

\* startSession begins with an empty buffer.
LEMMA StartsSession ==
    ASSUME NEW c, NEW mgr, NEW op, NEW ctx, startSession(c, mgr, op, ctx)
    PROVE  Within(c)
  <1>1. Proper([mgr |-> mgr, op |-> op, ctx |-> ctx, buf |-> << >>])
    BY DEF Proper, Typed
  <1>. QED BY <1>1, QuietRouter, Zenon DEF startSession, SessionStep, FilterStep, Within

\* A line of a session, of users and groups or of something else.
LEMMA BuffersIsWithin ==
    ASSUME ConsoleInv, NEW c \in Conns, NEW b, Buffers(c, b),
           sess[c].mgr \in {"user", "group"} => Typed(b)
    PROVE  Within(c)
  <1>1. Proper([sess[c] EXCEPT !.buf = b])
    <2>1. Proper(sess[c])
      BY Zenon DEF ConsoleInv, SessionsInv
    <2>2. PICK s : s = [sess[c] EXCEPT !.buf = b]
      BY Zenon
    <2>3. /\ s = [mgr |-> sess[c].mgr, op |-> sess[c].op, ctx |-> sess[c].ctx, buf |-> b]
      BY <2>1, <2>2, Zenon DEF Proper
    <2>4. s = [mgr |-> s.mgr, op |-> s.op, ctx |-> s.ctx, buf |-> s.buf] /\ s.mgr = sess[c].mgr /\ s.buf = b
      BY <2>3, Zenon
    <2>. QED BY <2>2, <2>4, Zenon DEF Proper
  <1>. QED BY <1>1, QuietRouter, Zenon DEF Buffers, SessionStep, FilterStep, Within

LEMMA BufferIsWithin ==
    ASSUME ConsoleInv, NEW c \in Conns, NEW key, NEW value, Buffer(c, key, value),
           \/ sess[c].mgr \notin {"user", "group"}
           \/ /\ key = "uid" => value \in Uids
              /\ key = "username" => value \in Usernames
              /\ key = "gid" => value \in Gids
    PROVE  Within(c)
  <1>1. sess[c].mgr \in {"user", "group"} => Typed(With(buf(c), key, value))
    BY LineTyped, Zenon DEF ConsoleInv, SessionsInv, Proper, buf
  <1>. QED BY <1>1, BuffersIsWithin, Zenon DEF Buffer

\* The lines that describe a user or a group.
LEMMA UserLines ==
    ASSUME ConsoleInv, NEW c \in Conns, UserBuild(c) \/ UserUpdate(c) \/ GroupBuild(c)
    PROVE  Within(c)
  <1>1. ASSUME NEW uid \in Uids, Buffer(c, "uid", uid) PROVE Within(c)
    BY <1>1, BufferIsWithin, Zenon
  <1>2. ASSUME NEW name \in Usernames, Buffer(c, "username", name) PROVE Within(c)
    BY <1>2, BufferIsWithin, Zenon
  <1>3. ASSUME NEW gid \in Gids, Buffer(c, "gid", gid) PROVE Within(c)
    BY <1>3, BufferIsWithin, Zenon
  <1>4. ASSUME Buffer(c, "quota", 1) PROVE Within(c)
    BY <1>4, BufferIsWithin, Zenon
  <1>. QED BY <1>1, <1>2, <1>3, <1>4, Zenon DEF UserBuild, UserUpdate, GroupBuild

LEMMA EntryLines ==
    ASSUME ConsoleInv, NEW c \in Conns, sess[c].mgr \notin {"user", "group"},
           NEW targets, NEW classes,
           TypeLine(c) \/ OrderLine(c) \/ TargetLine(c, targets) \/ FilterLine(c, classes)
    PROVE  Within(c)
  <1>1. CASE TypeLine(c)
    BY <1>1, BuffersIsWithin, Zenon DEF TypeLine
  <1>2. CASE OrderLine(c)
    BY <1>2, BufferIsWithin, Zenon DEF OrderLine
  <1>3. CASE TargetLine(c, targets)
    BY <1>3, BufferIsWithin, Zenon DEF TargetLine
  <1>4. CASE FilterLine(c, classes)
    BY <1>4, BufferIsWithin, Zenon DEF FilterLine
  <1>. QED BY <1>1, <1>2, <1>3, <1>4, Zenon

LEMMA OtherLines ==
    ASSUME ConsoleInv, NEW c \in Conns,
           \/ MTRouteBuild(c) \/ MORouteBuild(c) \/ MTInterceptorBuild(c) \/ MOInterceptorBuild(c)
           \/ FilterBuild(c) \/ HttpccBuild(c)
           \/ SMPPClientConfigBuild(c) \/ SMPPClientConfigUpdate(c)
    PROVE  Within(c)
  <1>1. sess[c].mgr \notin {"user", "group"}
    BY Zenon DEF MTRouteBuild, MORouteBuild, MTInterceptorBuild, MOInterceptorBuild, FilterBuild,
           HttpccBuild, SMPPClientConfigBuild, SMPPClientConfigUpdate, Session
  <1>2. CASE MTRouteBuild(c) \/ MORouteBuild(c) \/ MTInterceptorBuild(c) \/ MOInterceptorBuild(c)
    BY <1>1, <1>2, EntryLines, Zenon DEF MTRouteBuild, MORouteBuild, MTInterceptorBuild, MOInterceptorBuild
  <1>3. CASE \/ FilterBuild(c) \/ HttpccBuild(c)
             \/ SMPPClientConfigBuild(c) \/ SMPPClientConfigUpdate(c)
    <2>1. \E key, value : Buffer(c, key, value)
      BY <1>3, Zenon DEF FilterBuild, HttpccBuild, SMPPClientConfigBuild, SMPPClientConfigUpdate
    <2>. QED BY <1>1, <2>1, BufferIsWithin, Zenon
  <1>. QED BY <1>2, <1>3, Zenon


\* The ends of the sessions for users and groups.
LEMMA UserSessions ==
    ASSUME ConsoleInv, NEW c \in Conns,
           user_add_session(c) \/ user_update_session(c) \/ group_add_session(c)
    PROVE  Within(c)
  <1>0. /\ users \in Seq(UserRecords)
        /\ sess[c].mgr \in {"user", "group"} => Typed(buf(c))
    BY Zenon DEF ConsoleInv, ConfigInv, UserInv, SessionsInv, Proper, buf
  <1>1. CASE user_add_session(c)
    <2>1. Typed(buf(c)) /\ {"uid", "username", "gid"} \subseteq DOMAIN buf(c) /\ Ended(c)
      BY <1>0, <1>1, Zenon DEF user_add_session, Session
    <2>2. buf(c).uid \in Uids /\ buf(c).username \in Usernames /\ buf(c).gid \in Gids
      BY <2>1, Zenon DEF Typed
    <2>3. \E b \in Balances : perspective_user_add(NewUser(buf(c).uid, buf(c).username, buf(c).gid, b))
      BY <1>1, Zenon DEF user_add_session
    <2>4. UserCalls
      BY <2>2, <2>3, Zenon DEF UserCalls
    <2>. QED BY <2>1, <2>4, EndedIsWithin, Zenon DEF RouterStep
  <1>2. CASE user_update_session(c) /\ getUser(sess[c].ctx) = 0
    <2>1. Drop(c) /\ UNCHANGED routerVars
      BY <1>2, Zenon DEF user_update_session
    <2>. QED BY <2>1, QuietRouter, Zenon DEF Drop, Within, SessionStep, FilterStep
  <1>3. CASE user_update_session(c) /\ getUser(sess[c].ctx) # 0
    <2>1. PICK uid : uid = sess[c].ctx
      BY Zenon
    <2>2. PICK old : old = users[getUser(uid)]
      BY Zenon
    <2>3. PICK more : more = IF "quota" \in DOMAIN buf(c) THEN buf(c).quota ELSE 0
      BY Zenon
    <2>4. PICK u : u = [old EXCEPT !.gid = IF "gid" \in DOMAIN buf(c) THEN buf(c).gid ELSE @,
                                   !.balance = @ + more, !.updated = @ \/ more # 0]
      BY Zenon
    <2>5. /\ Session(c, "user", "update") /\ old.balance + more \in Balances
          /\ Becomes(uid, u) /\ UNCHANGED persistenceState /\ Ended(c)
      BY <1>3, <2>1, <2>2, <2>3, <2>4, Zenon DEF user_update_session
    <2>6. old \in UserRecords
      BY <1>0, <1>3, <2>1, <2>2, FoundIsUser, Zenon
    <2>7. Typed(buf(c))
      BY <1>0, <2>5, Zenon DEF Session
    <2>8. u \in UserRecords
      BY <2>4, <2>5, <2>6, <2>7, Zenon DEF UserRecords, Typed
    <2>9. RouterStep
      BY <2>5, <2>8, Zenon DEF Updates, RouterStep
    <2>. QED BY <2>5, <2>9, EndedIsWithin, Zenon
  <1>4. CASE group_add_session(c)
    <2>1. Typed(buf(c)) /\ "gid" \in DOMAIN buf(c) /\ Ended(c) /\ perspective_group_add(buf(c).gid)
      BY <1>0, <1>4, Zenon DEF group_add_session, Session
    <2>2. GroupCalls
      BY <2>1, Zenon DEF Typed, GroupCalls
    <2>. QED BY <2>1, <2>2, EndedIsWithin, Zenon DEF RouterStep
  <1>. QED BY <1>1, <1>2, <1>3, <1>4, Zenon

\* The ends of the other sessions.
LEMMA OtherSessions ==
    ASSUME ConsoleInv, NEW c \in Conns,
           \/ mtroute_add_session(c) \/ moroute_add_session(c)
           \/ mtinterceptor_add_session(c) \/ mointerceptor_add_session(c)
           \/ filter_add_session(c) \/ httpcc_add_session(c)
           \/ connector_add_session(c) \/ connector_update_session(c) \/ ko(c)
    PROVE  Within(c)
  <1>1. CASE \/ mtroute_add_session(c) \/ moroute_add_session(c)
             \/ mtinterceptor_add_session(c) \/ mointerceptor_add_session(c)
    <2>1. Ended(c) /\ \E t \in RoutesAndInterceptors : \E e, o : Adds(t, e, o)
      BY <1>1, Zenon DEF mtroute_add_session, moroute_add_session, mtinterceptor_add_session,
                  mointerceptor_add_session, perspective_mtroute_add, perspective_moroute_add,
                  perspective_mtinterceptor_add, perspective_mointerceptor_add, RoutesAndInterceptors
    <2>2. RouterStep
      BY <2>1, Zenon DEF TableStep, RouterStep
    <2>. QED BY <2>1, <2>2, EndedIsWithin, Zenon
  <1>2. CASE filter_add_session(c)
    BY <1>2, QuietRouter, Stops, Zenon DEF filter_add_session, Within, FilterStep
  <1>3. CASE httpcc_add_session(c)
    BY <1>3, QuietRouter, Stops, Zenon DEF httpcc_add_session, Within, FilterStep
  <1>4. CASE connector_add_session(c)
    BY <1>4, QuietRouter, Zenon DEF connector_add_session, Within, SessionStep, FilterStep
  <1>5. CASE connector_update_session(c)
    <2>1. UNCHANGED routerVars /\ UNCHANGED filters /\ (UNCHANGED sess \/ stopSession(c))
      BY <1>5, Zenon DEF connector_update_session
    <2>. QED BY <2>1, QuietRouter, Stops, Zenon DEF Within, SessionStep, FilterStep
  <1>6. CASE ko(c)
    BY <1>6, QuietRouter, EndedIsWithin, Zenon DEF ko
  <1>. QED BY <1>1, <1>2, <1>3, <1>4, <1>5, <1>6, Zenon

\* A line at the prompt that leaves sessions and filters alone.
LEMMA PromptIsWithin ==
    ASSUME NEW c, RouterStep, UNCHANGED jvars
    PROVE  Within(c)
  BY Zenon DEF jvars, Within, SessionStep, FilterStep

LEMMA UserPrompts ==
    ASSUME NEW c, do_user(c) \/ do_group(c)
    PROVE  Within(c)
  <1>1. CASE \E mgr, op, ctx : startSession(c, mgr, op, ctx)
    BY <1>1, StartsSession, Zenon
  <1>2. ASSUME NEW uid \in Uids, EnableDisable(uid) \/ perspective_user_remove(uid), UNCHANGED jvars
        PROVE  Within(c)
    BY <1>2, PromptIsWithin, Zenon DEF EnableDisable, UserCalls, RouterStep
  <1>3. ASSUME NEW gid \in Gids, GroupCommand(gid), UNCHANGED jvars PROVE Within(c)
    BY <1>3, PromptIsWithin, Zenon DEF GroupCommand, GroupCalls, RouterStep
  <1>. QED BY <1>1, <1>2, <1>3, Zenon DEF do_user, do_group

LEMMA TablePrompts ==
    ASSUME NEW c, do_mtrouter(c) \/ do_morouter(c) \/ do_mtinterceptor(c) \/ do_mointerceptor(c)
    PROVE  Within(c)
  <1>1. CASE \E mgr, op, ctx : startSession(c, mgr, op, ctx)
    BY <1>1, StartsSession, Zenon
  <1>2. ASSUME NEW t \in RoutesAndInterceptors, (\E o : Removes(t, o)) \/ Holds(t, << >>), UNCHANGED jvars
        PROVE  Within(c)
    BY <1>2, PromptIsWithin, Zenon DEF TableStep, RouterStep
  <1>3. CASE do_mtrouter(c)
    BY <1>1, <1>2, <1>3, Zenon DEF do_mtrouter, perspective_mtroute_remove, perspective_mtroute_flush,
                            RoutesAndInterceptors
  <1>4. CASE do_morouter(c)
    BY <1>1, <1>2, <1>4, Zenon DEF do_morouter, perspective_moroute_remove, perspective_moroute_flush,
                            RoutesAndInterceptors
  <1>5. CASE do_mtinterceptor(c)
    BY <1>1, <1>2, <1>5 DEF do_mtinterceptor, perspective_mtinterceptor_remove,
                            perspective_mtinterceptor_flush, RoutesAndInterceptors
  <1>6. CASE do_mointerceptor(c)
    BY <1>1, <1>2, <1>6, Zenon DEF do_mointerceptor, perspective_mointerceptor_remove,
                            perspective_mointerceptor_flush, RoutesAndInterceptors
  <1>. QED BY <1>3, <1>4, <1>5, <1>6, Zenon


LEMMA OwnPrompts ==
    ASSUME NEW c, do_filter(c) \/ do_httpccm(c) \/ do_smppccm(c)
    PROVE  Within(c)
  <1>1. CASE \E mgr, op, ctx : startSession(c, mgr, op, ctx)
    BY <1>1, StartsSession, Zenon
  <1>2. CASE UNCHANGED <<routerVars, sess>> /\ FilterStep(c)
    BY <1>2, QuietRouter, Zenon DEF Within, SessionStep
  <1>3. CASE do_filter(c)
    <2>1. \/ \E mgr, op, ctx : startSession(c, mgr, op, ctx)
          \/ UNCHANGED <<routerVars, sess>> /\ \E f : filters' = [filters EXCEPT ![c] = f]
      BY <1>3, Zenon DEF do_filter
    <2>. QED BY <1>1, <1>2, <2>1, Zenon DEF FilterStep
  <1>4. CASE do_httpccm(c)
    <2>1. \/ \E mgr, op, ctx : startSession(c, mgr, op, ctx)
          \/ UNCHANGED <<routerVars, sess, filters>>
      BY <1>4, Zenon DEF do_httpccm
    <2>. QED BY <1>1, <1>2, <2>1, Zenon DEF FilterStep
  <1>5. CASE do_smppccm(c)
    <2>1. \/ \E mgr, op, ctx : startSession(c, mgr, op, ctx)
          \/ UNCHANGED <<routerVars, sess, filters>>
      BY <1>5, Zenon DEF do_smppccm
    <2>. QED BY <1>1, <1>2, <2>1, Zenon DEF FilterStep
  <1>. QED BY <1>3, <1>4, <1>5, Zenon

\* do_load takes every scope whose file can be read.
LEMMA LoadsReadable ==
    ASSUME NEW c, do_load(c)
    PROVE  Loads({s \in Scopes : disk[s] # Unreadable})
  BY Zenon DEF do_load, Loads

LEMMA FilePrompts ==
    ASSUME ConsoleInv, NEW c, do_persist(c) \/ do_load(c)
    PROVE  Within(c)
  <1>1. CASE do_persist(c)
    <2>1. UNCHANGED <<sess, filters>> /\ \E ok, cut : Write(ok, cut, users)
      BY <1>1, Zenon DEF do_persist
    <2>2. RouterStep
      BY <2>1, Zenon DEF ConsoleInv, ConfigInv, UserInv, Writes, RouterStep
    <2>. QED BY <2>1, <2>2, Zenon DEF Within, SessionStep, FilterStep
  <1>2. CASE do_load(c)
    <2>1. UNCHANGED <<sess, cnx>> /\ \E f : filters' = [filters EXCEPT ![c] = f]
      BY <1>2, Zenon DEF do_load, LoadFilters
    <2>2. RouterStep
      BY <1>2, <2>1, LoadsReadable, Zenon DEF RouterStep
    <2>. QED BY <2>1, <2>2, Zenon DEF Within, SessionStep, FilterStep
  <1>. QED BY <1>1, <1>2, Zenon

\* Coming, logging in and going.
LEMMA ConnectionSteps ==
    ASSUME NEW c, connectionMade(c) \/ auth_username(c) \/ auth_password(c) \/ connectionLost(c)
    PROVE  Within(c)
  <1>1. UNCHANGED <<vars, sess>>
    BY Zenon DEF connectionMade, auth_username, auth_password, connectionLost, Drop
  <1>2. FilterStep(c)
    BY Zenon DEF connectionMade, auth_username, auth_password, connectionLost, Drop, LoadFilters, FilterStep
  <1>. QED BY <1>1, <1>2, Zenon DEF vars, config, saved, Rests, RouterStep, Within, SessionStep

\* A handler that waited for a connector goes on: the session it ends may be
\* another one by then, but it is that of its own connection.
LEMMA JobSteps ==
    ASSUME NEW c, Job(c)
    PROVE  Within(c)
  <1>1. RouterStep /\ UNCHANGED filters
    BY Zenon DEF Job, config, Rests, RouterStep
  <1>2. PICK i \in DOMAIN jobs[c] :
          \/ AddDone(c, i) \/ StopDone(c, i) \/ StartDone(c, i) \/ StartFailed(c, i) \/ LoadDone(c, i)
    BY Zenon DEF Job
  <1>3. UNCHANGED sess \/ stopSession(c)
    BY <1>2, Zenon DEF AddDone, StopDone, StartDone, StartFailed, LoadDone, Finish
  <1>. QED BY <1>1, <1>3, Stops, Zenon DEF Within, SessionStep, FilterStep

LEMMA LineIsWithin ==
    ASSUME ConsoleInv, NEW c \in Conns, Line(c) \/ SessionLine(c)
    PROVE  Within(c)
  <1>1. CASE Line(c)
    BY <1>1, UserPrompts, TablePrompts, OwnPrompts, FilePrompts, Zenon DEF Line
  <1>2. CASE SessionLine(c)
    BY <1>2, UserLines, OtherLines, UserSessions, OtherSessions, Zenon DEF SessionLine
  <1>. QED BY <1>1, <1>2, Zenon

-----------------------------------------------------------------------------
(* The invariant and what follows from it. *)

LEMMA InitConsole == JInit => ConsoleInv
  <1>. SUFFICES ASSUME JInit PROVE ConsoleInv
    BY Zenon
  <1>1. Shape
    BY DEF JInit, Shape
  <1>2. ASSUME NEW t \in RoutesAndInterceptors PROVE TableInv(t)
    <2>1. t \in Scopes /\ t \notin {"users", "groups"}
      BY <1>2, Zenon DEF Scopes, RoutesAndInterceptors
    <2>2. table[t] = << >> /\ disk[t] = << >>
      BY <1>2, <2>1, Zenon DEF JInit
    <2>3. DOMAIN << >> = {}
      OBVIOUS
    <2>. QED BY <2>2, <2>3, Zenon DEF TableInv, Ordered
  <1>3. disk["users"] = Profile.users /\ disk["groups"] = Profile.groups
    BY Zenon DEF JInit, Scopes
  <1>4. GroupInv /\ UserInv
    BY <1>3, JCliConstants, Zenon DEF JInit, GroupInv, UserInv
  <1>5. cnx \in [Uids -> Uids]
    BY Zenon DEF JInit
  <1>6. SessionsInv /\ DOMAIN filters = Conns
    BY Zenon DEF JInit, SessionsInv, NoSession, Proper
  <1>. QED BY <1>1, <1>2, <1>4, <1>5, <1>6, Zenon DEF ConsoleInv, ConfigInv, TablesInv

LEMMA NextKeepsConsole ==
    ASSUME ConsoleInv, [JNext]_jcliVars
    PROVE  ConsoleInv'
  <1>1. ASSUME NEW c \in Conns, Within(c) PROVE ConsoleInv'
    BY <1>1, StepKeeps, Zenon DEF Within
  <1>2. ASSUME RouterStep, UNCHANGED jvars PROVE ConsoleInv'
    <2>1. ConfigInv'
      BY <1>2, RouterStepKeeps, Zenon DEF ConsoleInv
    <2>. QED BY <1>2, <2>1, Zenon DEF jvars, ConsoleInv, SessionsInv
  <1>3. CASE persistenceTimerExpired /\ UNCHANGED jvars
    <2>1. users \in Seq(UserRecords)
      BY Zenon DEF ConsoleInv, ConfigInv, UserInv
    <2>2. UNCHANGED <<config, persistenceState, saved>> \/ Writes
      BY <1>3, <2>1, TimerWrites, Zenon DEF Writes
    <2>3. RouterStep
      BY <2>2, Zenon DEF config, saved, Rests, RouterStep
    <2>. QED BY <1>2, <1>3, <2>3, Zenon
  <1>4. CASE UNCHANGED jcliVars
    <2>1. RouterStep /\ UNCHANGED jvars
      BY <1>4, Zenon DEF jcliVars, vars, config, saved, Rests, RouterStep
    <2>. QED BY <1>2, <2>1, Zenon
  <1>. QED BY <1>1, <1>3, <1>4, ConnectionSteps, LineIsWithin, JobSteps, Zenon DEF JNext

\* Whatever lines the connections type, the configuration keeps its form, and
\* sessions for users and groups hold ids and names.
THEOREM ConsoleInvariance == JSpec => []ConsoleInv
  <1>1. ConsoleInv /\ [JNext]_jcliVars => ConsoleInv'
    BY NextKeepsConsole, Zenon
  <1>. QED BY InitConsole, <1>1, PTL DEF JSpec

\* do_persist, do_load: perspective_is_persisted tells the truth about a table
\* under the console too, where some files of a profile are written and others
\* fail.
THEOREM ConsoleFlagsAreTrue == JSpec => []TableFlags
  <1>1. ConsoleInv => TableFlags
    BY Zenon DEF ConsoleInv, ConfigInv, TablesInv, TableInv, TableFlags
  <1>. QED BY ConsoleInvariance, <1>1, PTL

\* A user that is added is the last of the list, in a group of the router.
LEMMA AddedIsLast ==
    ASSUME ConsoleInv, NEW u, perspective_user_add(u)
    PROVE  Last(users') = u /\ u.gid \in CurrentGids
  <1>1. users \in Seq(UserRecords) /\ groups \in Seq(GroupRecords)
    BY Zenon DEF ConsoleInv, ConfigInv, UserInv, GroupInv
  <1>2. \E old : /\ old # 0 => old \in 1 .. Len(users)
                 /\ users' = Append(IF old = 0 THEN users ELSE RemoveAt(users, old), u)
    BY <1>1, UserAdded, Zenon
  <1>3. PICK old : /\ old # 0 => old \in 1 .. Len(users)
                   /\ users' = Append(IF old = 0 THEN users ELSE RemoveAt(users, old), u)
    BY <1>2, Zenon
  <1>4. PICK q : q = IF old = 0 THEN users ELSE RemoveAt(users, old)
    BY Zenon
  <1>5. q \in Seq(UserRecords)
    BY <1>1, <1>3, <1>4, Removed, Zenon
  <1>6. Len(users') = Len(q) + 1 /\ users'[Len(q) + 1] = u
    BY <1>3, <1>4, <1>5, LenProperties
  <1>7. getGroup(u.gid) \in 1 .. Len(groups) /\ groups[getGroup(u.gid)].gid = u.gid
    BY <1>1, FoundGroup, Zenon DEF perspective_user_add
  <1>8. DOMAIN groups = 1 .. Len(groups)
    BY <1>1, LenProperties, Zenon
  <1>. QED BY <1>6, <1>7, <1>8, Zenon DEF Last, CurrentGids

\* user_add_session: a user that a session adds is in a group that the router has
\* at that moment, although the group was looked up lines earlier.
THEOREM AddedIntoGroup == JSpec => AddedUserHasGroup
  <1>1. ASSUME ConsoleInv, NEW c \in Conns, user_add_session(c)
        PROVE  Last(users').gid \in CurrentGids
    <2>1. \E u : perspective_user_add(u)
      BY <1>1, Zenon DEF user_add_session
    <2>2. PICK u : perspective_user_add(u)
      BY <2>1, Zenon
    <2>. QED BY <1>1, <2>2, AddedIsLast, Zenon
  <1>2. ConsoleInv /\ [JNext]_jcliVars
          => [\A c \in Conns : user_add_session(c) => Last(users').gid \in CurrentGids]_jcliVars
    BY <1>1, Zenon
  <1>. QED BY ConsoleInvariance, <1>2, PTL DEF JSpec, AddedUserHasGroup

=============================================================================
