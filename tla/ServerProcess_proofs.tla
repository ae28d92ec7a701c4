-------------------------- MODULE ServerProcess_proofs --------------------------
(***************************************************************************)
(* The parts of the server's process, for any sets of connections,         *)
(* requests, names, settings and addresses: what the process says when it  *)
(* ends, the accounts it keeps, and the check of a host.                   *)
(***************************************************************************)
EXTENDS Accounts, Checker, AppRun, ListLemmas

-----------------------------------------------------------------------------
(* The end of the process *)

AppTypeOK ==
    /\ cancelled \in BOOLEAN /\ panicked \in BOOLEAN /\ shut \in BOOLEAN
    /\ sched \in {"running", "panicked", "stopped"}
    /\ listener \in {"none", "open", "broken", "closed"}
    /\ server \in {"start", "serving", "failing", "ending", "over"}
    /\ errs \in {<<>>, <<"server">>}
    /\ conn \in [Conn -> {"none", "request", "stream"}]
    /\ run \in {"waiting", "stopping", "stopped", "draining", "returned"}
    /\ runErr \in SUBSET {"scheduler", "server", "deadline"}

\* The server's goroutine ends with a report, unless the listener was closed under it, which
\* only Run does; and Run takes a report with its error.
ReportInv ==
    /\ server \in {"ending", "over"} /\ run = "waiting" => errs # <<>>
    /\ shut => server = "over"
    /\ run # "waiting" /\ ~cancelled => runErr # {}

\* Run stops the scheduler before it closes the listener.
OrderInv ==
    /\ run \in {"stopped", "draining", "returned"} => sched = "stopped"
    /\ listener = "closed" <=> run \in {"draining", "returned"}
    /\ run = "returned" => NoneUnderWay \/ "deadline" \in runErr

AppInv == AppTypeOK /\ ReportInv /\ OrderInv

LEMMA InitAppInv == AppInit => AppInv
<1>1. AppInit => AppTypeOK
  BY DEF AppInit, AppTypeOK
<1>2. AppInit => ReportInv /\ OrderInv
  BY DEF AppInit, ReportInv, OrderInv
<1> QED BY <1>1, <1>2 DEF AppInv

USE DEF ServerStep, RunStep, serverVars

LEMMA EventAppInv == AppInv /\ (Signal \/ SchedulerPanics) => AppInv'
<1> SUFFICES ASSUME AppInv, Signal \/ SchedulerPanics PROVE AppInv'
  OBVIOUS
<1> USE DEF AppInv, AppTypeOK, ReportInv, OrderInv, NoneUnderWay
<1>1. CASE Signal
  BY <1>1 DEF Signal
<1>2. CASE SchedulerPanics
  BY <1>2 DEF SchedulerPanics
<1> QED BY <1>1, <1>2

LEMMA ServerAppInv == AppInv /\ Server => AppInv'
<1> SUFFICES ASSUME AppInv, Server PROVE AppInv'
  OBVIOUS
<1> USE DEF AppInv, AppTypeOK, ReportInv, OrderInv, NoneUnderWay
<1>1. CASE Listen
  <2>1. listener = "none" /\ listener' = "open" /\ server = "start" /\ server' = "serving"
    BY <1>1 DEF Listen
  <2>2. UNCHANGED <<cancelled, sched, panicked, errs, shut, conn, run, runErr>>
    BY <1>1 DEF Listen
  <2>3. AppTypeOK'
    BY <2>1, <2>2
  <2>4. ReportInv'
    BY <2>1, <2>2
  <2>5. OrderInv'
    BY <2>1, <2>2
  <2> QED BY <2>3, <2>4, <2>5
<1>2. CASE ListenFails
  <2>1. listener # "closed" /\ listener' = "broken" /\ server' = "failing"
    BY <1>2 DEF ListenFails
  <2>2. server \in {"start", "serving"} /\ UNCHANGED <<cancelled, sched, panicked, errs, shut, conn, run, runErr>>
    BY <1>2 DEF ListenFails
  <2>3. AppTypeOK'
    BY <2>1, <2>2
  <2>4. ReportInv'
    BY <2>1, <2>2
  <2>5. OrderInv'
    BY <2>1, <2>2
  <2> QED BY <2>3, <2>4, <2>5
<1>3. CASE ListenEnds
  BY <1>3 DEF ListenEnds
<1>4. CASE Report
  BY <1>4 DEF Report
<1>5. CASE ServerPanics
  BY <1>5 DEF ServerPanics
<1>6. CASE Close
  BY <1>6 DEF Close
<1> QED BY <1>1, <1>2, <1>3, <1>4, <1>5, <1>6 DEF Server

LEMMA RequestAppInv == ASSUME AppInv, NEW c \in Conn, Accept(c) \/ Answer(c)
                       PROVE  AppInv'
<1>1. UNCHANGED <<cancelled, sched, panicked, listener, server, errs, shut, run, runErr>>
  BY DEF Accept, Answer
<1>2. AppTypeOK'
  <2>1. \E k \in {"none", "request", "stream"} : conn' = [conn EXCEPT ![c] = k]
    BY DEF Accept, Answer
  <2>2. conn' \in [Conn -> {"none", "request", "stream"}]
    BY <2>1 DEF AppInv, AppTypeOK
  <2> QED BY <1>1, <2>2 DEF AppInv, AppTypeOK
<1>3. ReportInv'
  BY <1>1 DEF AppInv, ReportInv
\* A closed listener accepts no one, so what was quiet when Run returned stays quiet.
<1>4. OrderInv'
  <2>1. CASE Accept(c)
    <3>1. listener = "open"
      BY <2>1 DEF Accept
    <3> QED BY <1>1, <3>1 DEF AppInv, OrderInv
  <2>2. CASE Answer(c)
    <3>1. NoneUnderWay => NoneUnderWay'
      BY <2>2 DEF Answer, NoneUnderWay, AppInv, AppTypeOK
    <3> QED BY <1>1, <3>1 DEF AppInv, OrderInv
  <2> QED BY <2>1, <2>2
<1> QED BY <1>2, <1>3, <1>4 DEF AppInv

LEMMA RunAppInv == AppInv /\ (Run \/ DrainTimesOut) => AppInv'
<1> SUFFICES ASSUME AppInv, Run \/ DrainTimesOut PROVE AppInv'
  OBVIOUS
<1>0. UNCHANGED <<cancelled, server, shut, conn>>
  BY DEF Run, DrainTimesOut, RunCancelled, RunSchedulerFailed, RunServerFailed, StopScheduler, Shutdown, Drained
<1>1. CASE RunCancelled
  <2>1. cancelled /\ run = "waiting" /\ run' = "stopping" /\ UNCHANGED <<sched, panicked, listener, errs, runErr>>
    BY <1>1 DEF RunCancelled
  <2>2. AppTypeOK'
    BY <1>0, <2>1 DEF AppInv, AppTypeOK
  <2> QED BY <1>0, <2>1, <2>2 DEF AppInv, ReportInv, OrderInv
<1>2. CASE RunSchedulerFailed
  <2>1. /\ run = "waiting" /\ run' = "stopping" /\ panicked' = FALSE /\ runErr' = {"scheduler"}
        /\ UNCHANGED <<sched, listener, errs>>
    BY <1>2 DEF RunSchedulerFailed
  <2>2. AppTypeOK'
    BY <1>0, <2>1 DEF AppInv, AppTypeOK
  <2>3. ReportInv' /\ OrderInv'
    BY <1>0, <2>1 DEF AppInv, ReportInv, OrderInv
  <2> QED BY <2>2, <2>3 DEF AppInv
\* The channel is closed only after a report, which is still in it while Run waits.
<1>3. CASE RunServerFailed
  <2>1. /\ run = "waiting" /\ run' = "stopping" /\ UNCHANGED <<sched, panicked, listener>>
    BY <1>3 DEF RunServerFailed
  <2>2. errs # <<>> /\ errs' = <<>> /\ runErr' = {"server"}
    BY <1>3 DEF RunServerFailed, AppInv, ReportInv
  <2>3. AppTypeOK'
    BY <1>0, <2>1, <2>2 DEF AppInv, AppTypeOK
  <2>4. ReportInv' /\ OrderInv'
    BY <1>0, <2>1, <2>2 DEF AppInv, ReportInv, OrderInv
  <2> QED BY <2>3, <2>4 DEF AppInv
<1>4. CASE StopScheduler
  <2>1. /\ run = "stopping" /\ run' = "stopped" /\ sched' = "stopped" /\ UNCHANGED <<panicked, listener, errs, runErr>>
    BY <1>4 DEF StopScheduler
  <2>2. AppTypeOK'
    BY <1>0, <2>1 DEF AppInv, AppTypeOK
  <2>3. ReportInv' /\ OrderInv'
    BY <1>0, <2>1 DEF AppInv, ReportInv, OrderInv
  <2> QED BY <2>2, <2>3 DEF AppInv
<1>5. CASE Shutdown
  <2>1. /\ run = "stopped" /\ run' = "draining" /\ listener' = "closed" /\ UNCHANGED <<sched, panicked, errs, runErr>>
    BY <1>5 DEF Shutdown
  <2>2. AppTypeOK'
    BY <1>0, <2>1 DEF AppInv, AppTypeOK
  <2>3. ReportInv' /\ OrderInv'
    BY <1>0, <2>1 DEF AppInv, ReportInv, OrderInv
  <2> QED BY <2>2, <2>3 DEF AppInv
<1>6. CASE Drained
  <2>1. /\ run = "draining" /\ run' = "returned" /\ NoneUnderWay /\ UNCHANGED <<sched, panicked, listener, errs, runErr>>
    BY <1>6 DEF Drained
  <2>2. AppTypeOK'
    BY <1>0, <2>1 DEF AppInv, AppTypeOK
  <2>3. NoneUnderWay'
    BY <1>0, <2>1 DEF NoneUnderWay
  <2>4. ReportInv' /\ OrderInv'
    BY <1>0, <2>1, <2>3 DEF AppInv, ReportInv, OrderInv
  <2> QED BY <2>2, <2>4 DEF AppInv
<1>7. CASE DrainTimesOut
  <2>1. /\ run = "draining" /\ run' = "returned" /\ runErr' = runErr \cup {"deadline"}
        /\ UNCHANGED <<sched, panicked, listener, errs>>
    BY <1>7 DEF DrainTimesOut
  <2>2. AppTypeOK'
    BY <1>0, <2>1 DEF AppInv, AppTypeOK
  <2>3. ReportInv' /\ OrderInv'
    BY <1>0, <2>1 DEF AppInv, ReportInv, OrderInv
  <2> QED BY <2>2, <2>3 DEF AppInv
<1> QED BY <1>1, <1>2, <1>3, <1>4, <1>5, <1>6, <1>7 DEF Run

LEMMA NextAppInv == AppInv /\ [AppNext]_appVars => AppInv'
<1>1. AppInv /\ AppNext => AppInv'
  BY EventAppInv, ServerAppInv, RequestAppInv, RunAppInv DEF AppNext
<1>2. AppInv /\ UNCHANGED appVars => AppInv'
  BY DEF AppInv, AppTypeOK, ReportInv, OrderInv, NoneUnderWay, appVars
<1> QED BY <1>1, <1>2

\* Without a signal the process never exits as if it had been asked to, and when Run returns
\* no worker writes, no request comes in, and none is under way without an error saying so,
\* for any number of connections (Run in app/app.go).
THEOREM ExitAlwaysTellsAll == AppSpec => []ExitTellsAll
<1>1. AppInv => ExitTellsAll
  BY DEF AppInv, ReportInv, OrderInv, ExitTellsAll
<1> QED BY <1>1, InitAppInv, NextAppInv, PTL DEF AppSpec
-----------------------------------------------------------------------------
(* The accounts *)

UserRow == [tenant : Nat, name : Name, email : {Mail, NoMail}, contact : {Mail, NoMail},
            role : {"super_admin", "tenant_owner"}]

\* What a handler holds of the request it works on.
WellFormed(q) ==
    /\ q \in [kind : {"none", "register", "profile", "policy"}, stage : {"idle", "allowed", "begun", "ready"},
              name : Name \cup {NoRequest}, title : {q.title}, slug : {q.slug}, user : {q.user},
              contact : {Mail, NoMail}, stale : BOOLEAN]
    /\ q.kind \in {"register", "profile"} => q.name \in Name
    /\ q.kind = "profile" => q.stage = "ready"

AccountsTypeOK ==
    /\ lastTenant \in Nat /\ lastUser \in Nat
    /\ DOMAIN users \subseteq 1..lastUser
    /\ \A u \in DOMAIN users : users[u] \in UserRow
    /\ DOMAIN slug \subseteq 1..lastTenant
    /\ boot \in {"down", "failed", "setting", "lookup", "tenant", "admin", "policy", "up"}
    /\ conf \in Config
    /\ req = [r \in Request |-> req[r]] /\ \A r \in Request : WellFormed(req[r])

\* No identifier of a tenant is given out twice, so what is stored for one that is gone, even
\* by a handler that was slow, never reaches another.
TenantsInv ==
    /\ DOMAIN policy \subseteq 1..lastTenant /\ edited \subseteq 1..lastTenant
    /\ \A r \in Request : req[r].kind = "policy" => req[r].user \in 1..lastTenant
    /\ \A t \in DOMAIN slug : (PolicyOf(t) = "edited") <=> t \in edited

\* The administrators are in the platform's tenant and the owners in the others, which keeps
\* the platform's from a deletion.
RolesInv ==
    /\ \A u \in DOMAIN users : /\ users[u].tenant \in DOMAIN slug
                               /\ users[u].role = "super_admin" <=> users[u].tenant \in PlatformTenant
    /\ \A t \in DOMAIN slug \ PlatformTenant : Members(t) # {} /\ t \in DOMAIN policy
    /\ boot \in {"policy", "up"} => Admins # {}
    /\ boot # "up" => req = [r \in Request |-> NoWork]

WholeInv == AccountsTypeOK /\ TenantsInv /\ RolesInv

\* A transaction whose snapshot is not old has seen who has the name it will write.
NamesInv ==
    /\ \A u, v \in DOMAIN users : users[u].name = users[v].name => u = v
    /\ boot \in {"tenant", "admin"} => Named(conf.name) = {}
    /\ \A r \in Request : ~req[r].stale =>
        /\ req[r].kind = "register" /\ req[r].stage \in {"begun", "ready"} => Named(req[r].name) = {}
        /\ req[r].kind = "profile" => Named(req[r].name) \subseteq {req[r].user}
-----------------------------------------------------------------------------
(* What requests do to each other *)

LEMMA NoWorkWellFormed == WellFormed(NoWork)
  BY AccountsAssumption DEF NoWork, WellFormed

LEMMA StepEffect ==
    ASSUME AccountsTypeOK, NEW r \in Request, NEW next, WellFormed(next), Step(r, next)
    PROVE  /\ req' = [s \in Request |-> req'[s]]
           /\ \A s \in Request : WellFormed(req'[s])
           /\ req'[r] = next /\ \A s \in Request : s # r => req'[s] = req[s]
<1>1. req' = [s \in Request |-> IF s = r THEN next ELSE req[s]]
  BY DEF Step, AccountsTypeOK
<1> QED BY <1>1 DEF AccountsTypeOK

LEMMA StaleWellFormed ==
    ASSUME NEW q, WellFormed(q)
    PROVE  LET old == [q EXCEPT !.stale = TRUE] IN
           WellFormed(old) /\ old.kind = q.kind /\ old.user = q.user /\ old.stale
<1> DEFINE old == [q EXCEPT !.stale = TRUE]
<1>1. /\ old.kind = q.kind /\ old.stage = q.stage /\ old.name = q.name /\ old.title = q.title
      /\ old.slug = q.slug /\ old.user = q.user /\ old.contact = q.contact /\ old.stale = TRUE
  BY DEF WellFormed
<1>2. old \in [kind : {"none", "register", "profile", "policy"}, stage : {"idle", "allowed", "begun", "ready"},
               name : Name \cup {NoRequest}, title : {q.title}, slug : {q.slug}, user : {q.user},
               contact : {Mail, NoMail}, stale : BOOLEAN]
  BY DEF WellFormed
<1> HIDE DEF old
<1>3. WellFormed(old)
  BY <1>1, <1>2 DEF WellFormed
<1> QED BY <1>1, <1>3 DEF old

\* The transactions still open have an old snapshot from here on.
LEMMA CommitEffect ==
    ASSUME AccountsTypeOK, NEW r \in Request, Commit(r)
    PROVE  /\ req' = [s \in Request |-> req'[s]]
           /\ \A s \in Request : WellFormed(req'[s])
           /\ req'[r] = NoWork
           /\ \A s \in Request \ {r} : /\ Open(s) => req'[s] = [req[s] EXCEPT !.stale = TRUE]
                                       /\ ~Open(s) => req'[s] = req[s]
           /\ \A s \in Request : req'[s].kind = "policy" => req[s].kind = "policy" /\ req'[s].user = req[s].user
<1>1. req' = [s \in Request |-> IF s = r THEN NoWork
                                ELSE IF Open(s) THEN [req[s] EXCEPT !.stale = TRUE] ELSE req[s]]
  BY DEF Commit
<1>2. \A s \in Request : WellFormed([req[s] EXCEPT !.stale = TRUE])
  BY StaleWellFormed DEF AccountsTypeOK
<1>3. \A s \in Request : /\ [req[s] EXCEPT !.stale = TRUE].kind = req[s].kind
                         /\ [req[s] EXCEPT !.stale = TRUE].user = req[s].user
  BY StaleWellFormed DEF AccountsTypeOK
<1>4. \A s \in Request : WellFormed(req'[s])
  BY <1>1, <1>2, NoWorkWellFormed DEF AccountsTypeOK
<1>5. \A s \in Request : req'[s].kind = "policy" => req[s].kind = "policy" /\ req'[s].user = req[s].user
  BY <1>1, <1>3 DEF NoWork
<1> QED BY <1>1, <1>4, <1>5

\* Where no table changes, only the request does.
LEMMA RequestMovesWhole ==
    ASSUME WholeInv, NEW r \in Request, NEW next, WellFormed(next), Step(r, next),
           next.kind = "policy" => next.user \in 1..lastTenant,
           UNCHANGED <<tables, Aside, edited>>
    PROVE  WholeInv'
<1>1. UNCHANGED <<slug, users, policy, lastTenant, lastUser, boot, conf, edited>> /\ boot = "up"
  BY DEF tables, Aside, Step
<1>2. AccountsTypeOK'
  BY <1>1, StepEffect DEF WholeInv, AccountsTypeOK
<1>3. TenantsInv'
  BY <1>1, StepEffect DEF WholeInv, TenantsInv, PolicyOf
<1>4. RolesInv'
  BY <1>1 DEF WholeInv, RolesInv, PlatformTenant, Members, Admins
<1> QED BY <1>2, <1>3, <1>4 DEF WholeInv

LEMMA InitWhole == AccountsInit => WholeInv
<1> SUFFICES ASSUME AccountsInit PROVE WholeInv
  OBVIOUS
<1>1. DOMAIN slug = {} /\ DOMAIN users = {} /\ DOMAIN policy = {}
  BY DEF AccountsInit
<1>2. AccountsTypeOK
  BY <1>1, NoWorkWellFormed DEF AccountsInit, AccountsTypeOK
<1>3. TenantsInv
  BY <1>1 DEF AccountsInit, TenantsInv, NoWork
<1>4. RolesInv
  BY <1>1 DEF AccountsInit, RolesInv
<1> QED BY <1>2, <1>3, <1>4 DEF WholeInv

-----------------------------------------------------------------------------
(* The start keeps accounts whole. *)

\* The user whom a query by name returns first has that name.
LEMMA FoundNamed ==
    ASSUME AccountsTypeOK, NEW name, Named(name) # {}
    PROVE  Found(name) \in Named(name)
<1>1. Named(name) \in SUBSET Nat
  BY DEF AccountsTypeOK, Named
<1>2. \E u \in Named(name) : \A v \in Named(name) : u <= v
  BY <1>1, LeastNatural
<1> QED BY <1>2 DEF Found

\* A change of users that keeps who they are and where.
LEMMA SameUsersWhole ==
    ASSUME WholeInv, DOMAIN users' = DOMAIN users,
           \A u \in DOMAIN users : users'[u].tenant = users[u].tenant /\ users'[u].role = users[u].role
    PROVE  Admins' = Admins /\ \A t : Members(t)' = Members(t)
  BY DEF Admins, Members

LEMMA StartWhole == WholeInv /\ Start => WholeInv'
<1> SUFFICES ASSUME WholeInv, Start PROVE WholeInv'
  OBVIOUS
<1>1. /\ UNCHANGED <<slug, users, policy, lastTenant, lastUser, req, edited>>
      /\ boot # "up" /\ boot' = "setting" /\ conf' \in Config
  BY DEF Start, tables
<1>2. AccountsTypeOK'
  BY <1>1 DEF WholeInv, AccountsTypeOK
<1>3. TenantsInv'
  BY <1>1 DEF WholeInv, TenantsInv, PolicyOf
<1>4. RolesInv'
  BY <1>1 DEF WholeInv, RolesInv, PlatformTenant, Members, Admins
<1> QED BY <1>2, <1>3, <1>4 DEF WholeInv

LEMMA CrashWhole == WholeInv /\ Crash => WholeInv'
<1> SUFFICES ASSUME WholeInv, Crash PROVE WholeInv'
  OBVIOUS
<1>1. /\ UNCHANGED <<slug, users, policy, lastTenant, lastUser, conf, edited>>
      /\ boot' = "down" /\ req' = [r \in Request |-> NoWork]
  BY DEF Crash, tables
<1>2. AccountsTypeOK'
  BY <1>1, NoWorkWellFormed DEF WholeInv, AccountsTypeOK
<1>3. TenantsInv'
  BY <1>1 DEF WholeInv, TenantsInv, PolicyOf, NoWork
<1>4. RolesInv'
  BY <1>1 DEF WholeInv, RolesInv, PlatformTenant, Members, Admins
<1> QED BY <1>2, <1>3, <1>4 DEF WholeInv

LEMMA BootFindsWhole == WholeInv /\ BootFinds => WholeInv'
<1> SUFFICES ASSUME WholeInv, BootFinds PROVE WholeInv'
  OBVIOUS
<1> DEFINE u == Found(conf.name)
<1>1. UNCHANGED <<slug, policy, lastTenant, lastUser, conf, req, edited>> /\ boot = "lookup" /\ boot' \in {"up", "failed"}
  BY DEF BootFinds, AtBoot
<1>2. u \in DOMAIN users
  BY FoundNamed DEF BootFinds, WholeInv, Named
<1>3. users' = users \/ users' = [users EXCEPT ![u].contact = Mail]
  BY DEF BootFinds
<1>4. boot' = "up" => users[u].role = "super_admin"
  BY <1>1 DEF BootFinds, AtBoot
<1> HIDE DEF u
<1>5. \A v \in DOMAIN users : users[v] \in UserRow
  BY DEF WholeInv, AccountsTypeOK
<1>6. /\ DOMAIN users' = DOMAIN users
      /\ \A v \in DOMAIN users : /\ users'[v] \in UserRow
                                 /\ users'[v].tenant = users[v].tenant /\ users'[v].role = users[v].role
  BY <1>2, <1>3, <1>5 DEF UserRow
<1>7. AccountsTypeOK'
  BY <1>1, <1>6 DEF WholeInv, AccountsTypeOK
<1>8. TenantsInv'
  BY <1>1 DEF WholeInv, TenantsInv, PolicyOf
<1>9. Admins' = Admins /\ \A t : Members(t)' = Members(t)
  BY <1>6, SameUsersWhole
<1>10. RolesInv'
  BY <1>1, <1>2, <1>4, <1>6, <1>9 DEF WholeInv, RolesInv, PlatformTenant, Admins
<1> QED BY <1>7, <1>8, <1>10 DEF WholeInv

LEMMA BootTenantWhole == WholeInv /\ BootTenant => WholeInv'
<1> SUFFICES ASSUME WholeInv, BootTenant PROVE WholeInv'
  OBVIOUS
<1>1. UNCHANGED <<users, policy, lastUser, conf, req, edited>> /\ boot = "tenant" /\ boot' = "admin"
  BY DEF BootTenant, AtBoot
<1>2. CASE PlatformTenant # {}
  <2>1. UNCHANGED <<slug, lastTenant>>
    BY <1>2 DEF BootTenant
  <2>2. AccountsTypeOK'
    BY <1>1, <2>1 DEF WholeInv, AccountsTypeOK
  <2>3. TenantsInv'
    BY <1>1, <2>1 DEF WholeInv, TenantsInv, PolicyOf
  <2>4. RolesInv'
    BY <1>1, <2>1 DEF WholeInv, RolesInv, PlatformTenant, Members, Admins
  <2> QED BY <2>2, <2>3, <2>4 DEF WholeInv
<1>3. CASE PlatformTenant = {}
  <2> DEFINE new == lastTenant + 1
  <2>1. slug' = PutRow(slug, new, <<Platform, 1>>) /\ lastTenant' = new
    BY <1>3 DEF BootTenant
  <2>2. /\ DOMAIN slug' = DOMAIN slug \cup {new} /\ slug'[new] = <<Platform, 1>>
        /\ \A t \in DOMAIN slug : t # new /\ slug'[t] = slug[t]
    BY <2>1 DEF PutRow, WholeInv, AccountsTypeOK
  <2>3. new \notin DOMAIN policy /\ new \notin edited
    BY DEF WholeInv, AccountsTypeOK, TenantsInv
  <2>4. PlatformTenant' = {new}
    BY <1>3, <2>2 DEF PlatformTenant
  <2>5. AccountsTypeOK'
    BY <1>1, <2>1, <2>2 DEF WholeInv, AccountsTypeOK
  <2>6. TenantsInv'
    BY <1>1, <2>1, <2>2, <2>3 DEF WholeInv, AccountsTypeOK, TenantsInv, PolicyOf
  <2>7. RolesInv'
    BY <1>1, <1>3, <2>2, <2>4 DEF WholeInv, RolesInv, Members, Admins
  <2> QED BY <2>5, <2>6, <2>7 DEF WholeInv
<1> QED BY <1>2, <1>3

LEMMA BootAdminWhole == WholeInv /\ BootAdmin => WholeInv'
<1> SUFFICES ASSUME WholeInv, BootAdmin PROVE WholeInv'
  OBVIOUS
<1>1. UNCHANGED <<slug, policy, lastTenant, conf, req, edited>> /\ boot = "admin"
  BY DEF BootAdmin, AtBoot
<1>2. TenantsInv'
  BY <1>1 DEF WholeInv, TenantsInv, PolicyOf
<1>3. CASE UNCHANGED <<users, lastUser>> /\ boot' = "failed"
  <2>1. AccountsTypeOK'
    BY <1>1, <1>3 DEF WholeInv, AccountsTypeOK
  <2>2. RolesInv'
    BY <1>1, <1>3 DEF WholeInv, RolesInv, PlatformTenant, Members, Admins
  <2> QED BY <1>2, <2>1, <2>2 DEF WholeInv
<1>4. ASSUME NEW t \in PlatformTenant, boot' = "policy", lastUser' = lastUser + 1,
             users' = PutRow(users, lastUser + 1,
                          [tenant |-> t, name |-> conf.name, email |-> conf.email,
                           contact |-> conf.email, role |-> "super_admin"])
      PROVE  WholeInv'
  <2> DEFINE new == lastUser + 1
             row == [tenant |-> t, name |-> conf.name, email |-> conf.email,
                     contact |-> conf.email, role |-> "super_admin"]
  <2>1. row \in UserRow
    BY AccountsAssumption DEF WholeInv, AccountsTypeOK, UserRow, PlatformTenant
  <2>2. /\ DOMAIN users' = DOMAIN users \cup {new} /\ users'[new] = row
        /\ \A u \in DOMAIN users : u # new /\ users'[u] = users[u]
    BY <1>4 DEF PutRow, WholeInv, AccountsTypeOK
  <2>3. row.tenant = t /\ row.role = "super_admin"
    OBVIOUS
  <2> HIDE DEF row
  <2>4. AccountsTypeOK'
    BY <1>1, <1>4, <2>1, <2>2 DEF WholeInv, AccountsTypeOK
  <2>5. new \in Admins' /\ \A x : Members(x) \subseteq Members(x)'
    BY <2>2, <2>3 DEF Admins, Members
  <2>6. PlatformTenant' = PlatformTenant
    BY <1>1 DEF PlatformTenant
  <2>7. RolesInv'
    BY <1>1, <1>4, <2>2, <2>3, <2>5, <2>6 DEF WholeInv, RolesInv, PlatformTenant
  <2> QED BY <1>2, <2>4, <2>7 DEF WholeInv
<1> QED BY <1>3, <1>4 DEF BootAdmin, AtBoot

LEMMA BootPolicyWhole == WholeInv /\ BootPolicy => WholeInv'
<1> SUFFICES ASSUME WholeInv, BootPolicy PROVE WholeInv'
  OBVIOUS
<1>1. UNCHANGED <<slug, users, lastTenant, lastUser, conf, req, edited>> /\ boot = "policy" /\ boot' = "up"
  BY DEF BootPolicy, AtBoot
<1>2. PICK t \in PlatformTenant : policy' = PutRow(policy, t, PolicyOf(t))
  BY DEF BootPolicy
<1>3. t \in 1..lastTenant
  BY DEF WholeInv, AccountsTypeOK, PlatformTenant
<1>4. DOMAIN policy' = DOMAIN policy \cup {t} /\ \A x : PolicyOf(x)' = PolicyOf(x)
  BY <1>2 DEF PutRow, PolicyOf
<1>5. AccountsTypeOK'
  BY <1>1 DEF WholeInv, AccountsTypeOK
<1>6. TenantsInv'
  BY <1>1, <1>3, <1>4 DEF WholeInv, TenantsInv
<1>7. RolesInv'
  BY <1>1, <1>4 DEF WholeInv, RolesInv, PlatformTenant, Members, Admins
<1> QED BY <1>5, <1>6, <1>7 DEF WholeInv

LEMMA BootWhole == WholeInv /\ Boot => WholeInv'
<1> SUFFICES ASSUME WholeInv, BootSetting \/ BootFindsNone PROVE WholeInv'
  BY BootFindsWhole, BootTenantWhole, BootAdminWhole, BootPolicyWhole DEF Boot
<1>1. /\ UNCHANGED <<slug, users, policy, lastTenant, lastUser, conf, req, edited>>
      /\ boot \in {"setting", "lookup"} /\ boot' \in {"lookup", "tenant"}
  BY DEF BootSetting, BootFindsNone, AtBoot, tables
<1>2. AccountsTypeOK'
  BY <1>1 DEF WholeInv, AccountsTypeOK
<1>3. TenantsInv'
  BY <1>1 DEF WholeInv, TenantsInv, PolicyOf
<1>4. RolesInv'
  BY <1>1 DEF WholeInv, RolesInv, PlatformTenant, Members, Admins
<1> QED BY <1>2, <1>3, <1>4 DEF WholeInv
-----------------------------------------------------------------------------
(* So do the requests. *)

LEMMA ChecksWellFormed ==
    ASSUME AccountsTypeOK, NEW r \in Request, req[r].kind = "register", NEW x
    PROVE  /\ WellFormed([req[r] EXCEPT !.stage = "begun"])
           /\ [req[r] EXCEPT !.stage = "begun"].kind = "register"
           /\ WellFormed([req[r] EXCEPT !.stage = "ready", !.slug = x])
           /\ [req[r] EXCEPT !.stage = "ready", !.slug = x].kind = "register"
<1> DEFINE q == req[r]
           begun == [q EXCEPT !.stage = "begun"]
           ready == [q EXCEPT !.stage = "ready", !.slug = x]
<1>0. WellFormed(q) /\ q.kind = "register"
  BY DEF AccountsTypeOK
<1> HIDE DEF q
<1>1. /\ begun.kind = q.kind /\ begun.name = q.name /\ begun.title = q.title /\ begun.slug = q.slug
      /\ begun.user = q.user /\ begun.contact = q.contact /\ begun.stale = q.stale /\ begun.stage = "begun"
  BY <1>0 DEF WellFormed
<1>2. /\ ready.kind = q.kind /\ ready.name = q.name /\ ready.title = q.title /\ ready.slug = x
      /\ ready.user = q.user /\ ready.contact = q.contact /\ ready.stale = q.stale /\ ready.stage = "ready"
  BY <1>0 DEF WellFormed
<1>3. begun \in [kind : {"none", "register", "profile", "policy"}, stage : {"idle", "allowed", "begun", "ready"},
                 name : Name \cup {NoRequest}, title : {q.title}, slug : {q.slug}, user : {q.user},
                 contact : {Mail, NoMail}, stale : BOOLEAN]
  BY <1>0 DEF WellFormed
<1>4. ready \in [kind : {"none", "register", "profile", "policy"}, stage : {"idle", "allowed", "begun", "ready"},
                 name : Name \cup {NoRequest}, title : {q.title}, slug : {x}, user : {q.user},
                 contact : {Mail, NoMail}, stale : BOOLEAN]
  BY <1>0 DEF WellFormed
<1> HIDE DEF begun, ready
<1>5. WellFormed(begun) /\ begun.kind = "register" /\ WellFormed(ready) /\ ready.kind = "register"
  BY <1>0, <1>1, <1>2, <1>3, <1>4 DEF WellFormed
<1> QED BY <1>5 DEF begun, ready, q

LEMMA RegistrationWellFormed ==
    ASSUME NEW name \in Name, NEW title
    PROVE  LET next == [NoWork EXCEPT !.kind = "register", !.stage = "allowed", !.name = name, !.title = title] IN
           WellFormed(next) /\ next.kind = "register" /\ next.stage = "allowed" /\ ~next.stale
  BY AccountsAssumption DEF NoWork, WellFormed

LEMMA PolicyWellFormed ==
    ASSUME NEW t
    PROVE  LET next == [NoWork EXCEPT !.kind = "policy", !.stage = "allowed", !.user = t] IN
           WellFormed(next) /\ next.kind = "policy" /\ next.user = t
  BY AccountsAssumption DEF NoWork, WellFormed

LEMMA QuietWhole ==
    ASSUME WholeInv, NEW r \in Request,
           \/ RequestFails(r) \/ RegisterChecks(r) \/ RegisterNames(r)
           \/ \E name \in Name, title \in Title : RegisterAllowed(r, name, title)
           \/ \E u \in DOMAIN users, name \in Name, c \in {Mail, NoMail} : ProfileChecks(r, u, name, c)
           \/ \E t \in DOMAIN slug : PolicyAccepted(r, t)
    PROVE  WholeInv'
<1>0. AccountsTypeOK /\ UNCHANGED <<tables, Aside, edited>>
  BY DEF WholeInv, RequestFails, RegisterChecks, RegisterNames, RegisterAllowed, ProfileChecks, PolicyAccepted
<1>1. SUFFICES \E next : Step(r, next) /\ WellFormed(next) /\ (next.kind = "policy" => next.user \in 1..lastTenant)
  BY <1>0, RequestMovesWhole
<1>2. NoWork.kind = "none"
  BY DEF NoWork
<1>3. CASE RequestFails(r) \/ RegisterChecks(r) \/ RegisterNames(r)
  BY <1>0, <1>2, <1>3, NoWorkWellFormed, ChecksWellFormed DEF RequestFails, RegisterChecks, RegisterNames
<1>4. ASSUME NEW name \in Name, NEW title \in Title, RegisterAllowed(r, name, title)
      PROVE  \E next : Step(r, next) /\ WellFormed(next) /\ next.kind = "register"
  BY <1>4, RegistrationWellFormed DEF RegisterAllowed
<1>5. ASSUME NEW u, NEW name \in Name, NEW c \in {Mail, NoMail}, ProfileChecks(r, u, name, c)
      PROVE  \E next : Step(r, next) /\ WellFormed(next) /\ next.kind = "profile"
  <2> DEFINE next == [NoWork EXCEPT !.kind = "profile", !.stage = "ready", !.user = u, !.name = name, !.contact = c]
  <2>1. Step(r, next)
    BY <1>5 DEF ProfileChecks
  <2>2. WellFormed(next) /\ next.kind = "profile"
    BY <1>5, AccountsAssumption DEF NoWork, WellFormed
  <2> HIDE DEF next
  <2> QED BY <2>1, <2>2
<1>6. ASSUME NEW t \in DOMAIN slug, PolicyAccepted(r, t)
      PROVE  \E next : Step(r, next) /\ WellFormed(next) /\ next.user = t
  BY <1>6, PolicyWellFormed DEF PolicyAccepted
<1>7. DOMAIN slug \subseteq 1..lastTenant
  BY <1>0 DEF AccountsTypeOK
<1> QED BY <1>3, <1>4, <1>5, <1>6, <1>7

LEMMA RegisterCommitsWhole == ASSUME WholeInv, NEW r \in Request, RegisterCommits(r)
                              PROVE  WholeInv'
<1>0. PICK t, u : t = lastTenant + 1 /\ u = lastUser + 1
  OBVIOUS
<1> DEFINE row == [tenant |-> t, name |-> req[r].name, email |-> NoMail, contact |-> NoMail, role |-> "tenant_owner"]
<1>1. /\ Commit(r) /\ UNCHANGED <<boot, conf, edited>> /\ boot = "up"
      /\ lastTenant' = t /\ lastUser' = u
      /\ slug' = PutRow(slug, t, req[r].slug) /\ users' = PutRow(users, u, row) /\ policy' = PutRow(policy, t, "default")
      /\ \A x \in DOMAIN slug : slug[x] # req[r].slug
  BY <1>0 DEF RegisterCommits, Commit, Aside
<1>2. row \in UserRow
  <2>1. req[r].name \in Name
    BY DEF RegisterCommits, WholeInv, AccountsTypeOK, WellFormed
  <2> QED BY <1>0, <2>1 DEF UserRow, WholeInv, AccountsTypeOK
<1>3. row.tenant = t /\ row.role = "tenant_owner"
  OBVIOUS
<1> HIDE DEF row
<1>4. /\ t \notin DOMAIN slug /\ t \notin DOMAIN policy /\ t \notin edited /\ u \notin DOMAIN users
  BY <1>0 DEF WholeInv, AccountsTypeOK, TenantsInv
<1>5. /\ DOMAIN slug' = DOMAIN slug \cup {t} /\ slug'[t] = req[r].slug
      /\ \A x \in DOMAIN slug : x # t /\ slug'[x] = slug[x]
      /\ DOMAIN users' = DOMAIN users \cup {u} /\ users'[u] = row
      /\ \A x \in DOMAIN users : x # u /\ users'[x] = users[x]
      /\ DOMAIN policy' = DOMAIN policy \cup {t} /\ policy'[t] = "default"
      /\ \A x \in DOMAIN policy : x # t /\ policy'[x] = policy[x]
  BY <1>1, <1>4 DEF PutRow
\* The platform's tenant is there while the process is up, so its slug is taken.
<1>6. req[r].slug # <<Platform, 1>>
  BY <1>1 DEF WholeInv, RolesInv, PlatformTenant, Admins
<1>7. PlatformTenant' = PlatformTenant
  BY <1>4, <1>5, <1>6 DEF PlatformTenant
<1>8. AccountsTypeOK'
  <2>1. req' = [s \in Request |-> req'[s]] /\ \A s \in Request : WellFormed(req'[s])
    BY <1>1, CommitEffect DEF WholeInv
  <2>2. DOMAIN slug' \subseteq 1..lastTenant' /\ DOMAIN users' \subseteq 1..lastUser' /\ lastTenant' \in Nat /\ lastUser' \in Nat
    BY <1>0, <1>1, <1>5 DEF WholeInv, AccountsTypeOK
  <2>3. \A x \in DOMAIN users' : users'[x] \in UserRow
    BY <1>2, <1>5 DEF WholeInv, AccountsTypeOK
  <2> QED BY <1>1, <2>1, <2>2, <2>3 DEF WholeInv, AccountsTypeOK
<1>9. TenantsInv'
  <2>1. DOMAIN policy' \subseteq 1..lastTenant' /\ edited' \subseteq 1..lastTenant'
    BY <1>0, <1>1, <1>5 DEF WholeInv, AccountsTypeOK, TenantsInv
  <2>2. \A s \in Request : req'[s].kind = "policy" => req'[s].user \in 1..lastTenant'
    BY <1>0, <1>1, CommitEffect DEF WholeInv, AccountsTypeOK, TenantsInv
  <2>3. \A x \in DOMAIN slug' : (PolicyOf(x)' = "edited") <=> x \in edited'
    BY <1>1, <1>4, <1>5 DEF WholeInv, TenantsInv, PolicyOf
  <2> QED BY <2>1, <2>2, <2>3 DEF TenantsInv
<1>10. RolesInv'
  <2>1. \A x : Members(x) \subseteq Members(x)'
    BY <1>5 DEF Members
  <2>2. u \in Members(t)'
    BY <1>3, <1>5 DEF Members
  <2>3. Admins \subseteq Admins'
    BY <1>5 DEF Admins
  <2>4. t \notin PlatformTenant
    BY <1>4 DEF PlatformTenant
  <2>5. \A x \in DOMAIN users' : /\ users'[x].tenant \in DOMAIN slug'
                                 /\ users'[x].role = "super_admin" <=> users'[x].tenant \in PlatformTenant
    BY <1>3, <1>5, <2>4 DEF WholeInv, RolesInv
  <2>6. \A x \in DOMAIN slug' \ PlatformTenant : Members(x)' # {} /\ x \in DOMAIN policy'
    BY <1>5, <2>1, <2>2 DEF WholeInv, RolesInv
  <2> QED BY <1>1, <1>7, <2>3, <2>5, <2>6 DEF WholeInv, RolesInv
<1> QED BY <1>8, <1>9, <1>10 DEF WholeInv

LEMMA ProfileCommitsWhole == ASSUME WholeInv, NEW r \in Request, ProfileCommits(r)
                             PROVE  WholeInv'
<1>0. PICK u \in DOMAIN users : u = req[r].user
  BY DEF ProfileCommits
<1>1. /\ Commit(r) /\ UNCHANGED <<slug, policy, lastTenant, lastUser, boot, conf, edited>> /\ boot = "up"
      /\ users' = [users EXCEPT ![u].name = req[r].name, ![u].contact = req[r].contact]
  BY <1>0 DEF ProfileCommits, Commit, Aside
<1>2. req[r].name \in Name /\ req[r].contact \in {Mail, NoMail}
  BY DEF ProfileCommits, WholeInv, AccountsTypeOK, WellFormed
<1>3. \A v \in DOMAIN users : users[v] \in UserRow
  BY DEF WholeInv, AccountsTypeOK
<1>4. /\ DOMAIN users' = DOMAIN users
      /\ \A v \in DOMAIN users : /\ users'[v] \in UserRow
                                 /\ users'[v].tenant = users[v].tenant /\ users'[v].role = users[v].role
  BY <1>0, <1>1, <1>2, <1>3 DEF UserRow
<1>5. AccountsTypeOK'
  BY <1>1, <1>4, CommitEffect DEF WholeInv, AccountsTypeOK
<1>6. TenantsInv'
  BY <1>1, CommitEffect DEF WholeInv, TenantsInv, PolicyOf
<1>7. Admins' = Admins /\ \A t : Members(t)' = Members(t)
  BY <1>4, SameUsersWhole
<1>8. RolesInv'
  BY <1>1, <1>4, <1>7 DEF WholeInv, RolesInv, PlatformTenant
<1> QED BY <1>5, <1>6, <1>8 DEF WholeInv

LEMMA PolicyStoredWhole == ASSUME WholeInv, NEW r \in Request, PolicyStored(r)
                           PROVE  WholeInv'
<1>0. PICK t : t = req[r].user
  OBVIOUS
<1>1. /\ Commit(r) /\ UNCHANGED <<slug, users, lastTenant, lastUser, boot, conf>> /\ boot = "up"
      /\ policy' = PutRow(policy, t, "edited") /\ edited' = edited \cup {t}
  BY <1>0 DEF PolicyStored, Commit, Aside
<1>2. t \in 1..lastTenant
  BY <1>0 DEF PolicyStored, WholeInv, TenantsInv
<1>3. /\ DOMAIN policy' = DOMAIN policy \cup {t}
      /\ \A x : PolicyOf(x)' = IF x = t THEN "edited" ELSE PolicyOf(x)
  BY <1>1 DEF PutRow, PolicyOf
<1>4. AccountsTypeOK'
  BY <1>1, CommitEffect DEF WholeInv, AccountsTypeOK
<1>5. TenantsInv'
  <2>1. \A s \in Request : req'[s].kind = "policy" => req'[s].user \in 1..lastTenant'
    BY <1>1, CommitEffect DEF WholeInv, TenantsInv
  <2>2. DOMAIN policy' \subseteq 1..lastTenant' /\ edited' \subseteq 1..lastTenant'
    BY <1>1, <1>2, <1>3 DEF WholeInv, TenantsInv
  <2>3. \A x \in DOMAIN slug' : (PolicyOf(x)' = "edited") <=> x \in edited'
    BY <1>1, <1>3 DEF WholeInv, TenantsInv
  <2> QED BY <2>1, <2>2, <2>3 DEF TenantsInv
<1>6. RolesInv'
  BY <1>1, <1>3 DEF WholeInv, RolesInv, PlatformTenant, Members, Admins
<1> QED BY <1>4, <1>5, <1>6 DEF WholeInv

LEMMA DeleteTenantWhole == ASSUME WholeInv, NEW r \in Request, NEW t \in DOMAIN slug, DeleteTenant(r, t)
                           PROVE  WholeInv'
<1>1. /\ Commit(r) /\ UNCHANGED <<lastTenant, lastUser, boot, conf, edited>> /\ boot = "up"
      /\ slug' = Without(slug, {t}) /\ policy' = Without(policy, {t}) /\ users' = Without(users, Members(t))
  BY DEF DeleteTenant, Commit, Aside
\* It has an owner, so it is not the platform's.
<1>2. t \notin PlatformTenant
  BY DEF DeleteTenant, WholeInv, RolesInv, Members
<1>3. /\ DOMAIN slug' = DOMAIN slug \ {t} /\ \A x \in DOMAIN slug \ {t} : slug'[x] = slug[x]
      /\ DOMAIN policy' = DOMAIN policy \ {t} /\ \A x \in DOMAIN policy \ {t} : policy'[x] = policy[x]
      /\ DOMAIN users' = DOMAIN users \ Members(t) /\ \A x \in DOMAIN users \ Members(t) : users'[x] = users[x]
  BY <1>1 DEF Without
<1>4. \A x \in DOMAIN users' : x \in DOMAIN users /\ users[x].tenant # t /\ users'[x] = users[x]
  BY <1>3 DEF Members
<1>5. PlatformTenant' = PlatformTenant
  BY <1>2, <1>3 DEF PlatformTenant
<1>6. AccountsTypeOK'
  <2>1. \A x \in DOMAIN users' : users'[x] \in UserRow
    BY <1>4 DEF WholeInv, AccountsTypeOK
  <2> QED BY <1>1, <1>3, <2>1, CommitEffect DEF WholeInv, AccountsTypeOK
<1>7. TenantsInv'
  <2>1. \A s \in Request : req'[s].kind = "policy" => req'[s].user \in 1..lastTenant'
    BY <1>1, CommitEffect DEF WholeInv, TenantsInv
  <2>2. \A x \in DOMAIN slug' : PolicyOf(x)' = PolicyOf(x)
    BY <1>3 DEF PolicyOf
  <2> QED BY <1>1, <1>3, <2>1, <2>2 DEF WholeInv, TenantsInv
<1>8. RolesInv'
  <2>1. \A x : x # t => Members(x)' = Members(x)
    BY <1>3, <1>4 DEF Members
  <2>2. Admins' = Admins
    BY <1>2, <1>3, <1>4 DEF Admins, Members, WholeInv, RolesInv
  <2>3. \A x \in DOMAIN users' : /\ users'[x].tenant \in DOMAIN slug'
                                 /\ users'[x].role = "super_admin" <=> users'[x].tenant \in PlatformTenant
    BY <1>3, <1>4 DEF WholeInv, RolesInv
  <2>4. \A x \in DOMAIN slug' \ PlatformTenant : Members(x)' # {} /\ x \in DOMAIN policy'
    BY <1>3, <2>1 DEF WholeInv, RolesInv
  <2> QED BY <1>1, <1>5, <2>2, <2>3, <2>4 DEF WholeInv, RolesInv
<1> QED BY <1>6, <1>7, <1>8 DEF WholeInv

LEMMA NextWhole == WholeInv /\ [AccountsNext]_accountsVars => WholeInv'
<1>1. WholeInv /\ Serve => WholeInv'
  BY QuietWhole, RegisterCommitsWhole, ProfileCommitsWhole, PolicyStoredWhole, DeleteTenantWhole DEF Serve
<1>2. ASSUME WholeInv, UNCHANGED accountsVars PROVE WholeInv'
  BY <1>2 DEF accountsVars, tables, WholeInv, AccountsTypeOK, TenantsInv, RolesInv, PolicyOf, PlatformTenant,
              Members, Admins
<1> QED BY <1>1, <1>2, StartWhole, BootWhole, CrashWhole DEF AccountsNext

LEMMA AccountsInvariance == AccountsSpec => []WholeInv
  BY InitWhole, NextWhole, PTL DEF AccountsSpec

\* No account is left in pieces by a crash between two statements of the start, an error or a
\* deletion, and the alerts of a tenant follow the policy its users stored last or the default,
\* whatever isolation the database gives (EnsureBootstrap, Register, UpsertPolicy, the handlers
\* of tenants).
THEOREM AccountsAlwaysWhole == AccountsSpec => []AccountsWhole
<1>1. WholeInv => AccountsWhole
  <2> SUFFICES ASSUME WholeInv PROVE AccountsWhole
    OBVIOUS
  <2>1. boot = "up" => \E t \in PlatformTenant : Members(t) \cap Admins # {}
    BY DEF WholeInv, RolesInv, Admins, Members
  <2> QED BY <2>1 DEF WholeInv, TenantsInv, RolesInv, AccountsWhole
<1> QED BY <1>1, AccountsInvariance, PTL
-----------------------------------------------------------------------------
(* Names stay unique where transactions are serializable. *)

UniqueNames == \A u, v \in DOMAIN users : users[u].name = users[v].name => u = v

\* What a request saw of the name it will write still holds, or its snapshot is old.
Sees(q) ==
    ~q.stale =>
        /\ q.kind = "register" /\ q.stage \in {"begun", "ready"} => Named(q.name) = {}
        /\ q.kind = "profile" => Named(q.name) \subseteq {q.user}

LEMMA NamesInvParts ==
    NamesInv <=> /\ UniqueNames
                 /\ boot \in {"tenant", "admin"} => Named(conf.name) = {}
                 /\ \A r \in Request : Sees(req[r])
  BY DEF NamesInv, UniqueNames, Sees

LEMMA NoWorkSees == Sees(NoWork) /\ Sees(NoWork)'
  BY DEF Sees, NoWork

LEMMA SameNames ==
    ASSUME DOMAIN users' = DOMAIN users, \A u \in DOMAIN users : users'[u].name = users[u].name
    PROVE  (\A name : Named(name)' = Named(name)) /\ (UniqueNames => UniqueNames')
  BY DEF Named, UniqueNames

\* After a commit no other request relies on what it has seen.
LEMMA CommitSees == ASSUME AccountsTypeOK, NEW r \in Request, Commit(r)
                    PROVE  \A s \in Request : Sees(req[s])'
<1> TAKE s \in Request
<1>1. CASE s = r
  BY <1>1, CommitEffect DEF Sees, NoWork
<1>2. CASE s # r /\ Open(s)
  <2>1. req'[s] = [req[s] EXCEPT !.stale = TRUE]
    BY <1>2, CommitEffect
  <2>2. req'[s].stale
    BY <2>1, StaleWellFormed DEF AccountsTypeOK
  <2> QED BY <2>2 DEF Sees
<1>3. CASE s # r /\ ~Open(s)
  <2>1. req'[s] = req[s] /\ WellFormed(req[s])
    BY <1>3, CommitEffect DEF AccountsTypeOK
  <2>2. req[s].stage \notin {"begun", "ready"} /\ req[s].kind # "profile"
    BY <1>3, <2>1 DEF Open, WellFormed
  <2> QED BY <2>1, <2>2 DEF Sees
<1> QED BY <1>1, <1>2, <1>3

LEMMA BootNames == ASSUME WholeInv, NamesInv, Start \/ Boot \/ Crash
                   PROVE  NamesInv'
<1>1. CASE Start \/ Crash
  <2>1. UNCHANGED users /\ boot' \in {"setting", "down"} /\ (req' = req \/ req' = [r \in Request |-> NoWork])
    BY <1>1 DEF Start, Crash, tables
  <2>2. (\A name : Named(name)' = Named(name)) /\ UniqueNames'
    BY <2>1, SameNames, NamesInvParts
  <2>3. \A r \in Request : Sees(req[r])'
    BY <2>1, <2>2, NoWorkSees, NamesInvParts DEF Sees
  <2> QED BY <2>1, <2>2, <2>3, NamesInvParts DEF NamesInv, UniqueNames, Sees
<1>2. CASE Boot
  <2>1. req' = req /\ conf' = conf /\ boot # "up"
    BY <1>2 DEF Boot, BootSetting, BootFinds, BootFindsNone, BootTenant, BootAdmin, BootPolicy, AtBoot
  <2>2. \A r \in Request : Sees(req[r])'
    BY <2>1, NoWorkSees DEF WholeInv, RolesInv, Sees, NoWork
  <2>3. CASE BootAdmin /\ UNCHANGED users
    <3>1. boot' \notin {"tenant", "admin"}
      BY <2>3 DEF BootAdmin, AtBoot
    <3> QED BY <2>2, <2>3, <3>1 DEF NamesInv, Sees
  <2>4. CASE BootAdmin /\ ~ UNCHANGED users
    <3>0. PICK new : new = lastUser + 1
      OBVIOUS
    <3>1. boot = "admin" /\ boot' = "policy"
      BY <2>4 DEF BootAdmin, AtBoot
    <3>2. PICK t : users' = PutRow(users, new, [tenant |-> t, name |-> conf.name, email |-> conf.email,
                                                contact |-> conf.email, role |-> "super_admin"])
      BY <2>4, <3>0 DEF BootAdmin
    <3> DEFINE row == [tenant |-> t, name |-> conf.name, email |-> conf.email,
                       contact |-> conf.email, role |-> "super_admin"]
    <3>3. DOMAIN users' = DOMAIN users \cup {new} /\ users'[new] = row /\ \A u \in DOMAIN users : u # new => users'[u] = users[u]
      BY <3>2 DEF PutRow
    <3>4. new \notin DOMAIN users
      BY <3>0 DEF WholeInv, AccountsTypeOK
    <3>5. \A u \in DOMAIN users : users[u].name # conf.name
      BY <3>1 DEF NamesInv, Named
    <3>6. UniqueNames'
      BY <3>3, <3>4, <3>5 DEF NamesInv, UniqueNames
    <3> QED BY <2>2, <3>1, <3>6 DEF NamesInv, UniqueNames, Sees
  <2>5. CASE ~BootAdmin
    <3>1. DOMAIN users' = DOMAIN users /\ \A u \in DOMAIN users : users'[u].name = users[u].name
      <4>1. users' = users \/ \E u : users' = [users EXCEPT ![u].contact = Mail]
        BY <1>2, <2>5 DEF Boot, BootSetting, BootFinds, BootFindsNone, BootTenant, BootPolicy, tables
      <4>2. \A u \in DOMAIN users : users[u] \in UserRow
        BY DEF WholeInv, AccountsTypeOK
      <4> QED BY <4>1, <4>2 DEF UserRow
    <3>2. (\A name : Named(name)' = Named(name)) /\ UniqueNames'
      BY <3>1, SameNames, NamesInvParts
    <3>3. boot' \in {"tenant", "admin"} => Named(conf.name) = {}
      BY <1>2, <2>5 DEF Boot, BootSetting, BootFinds, BootFindsNone, BootTenant, BootPolicy, AtBoot, NamesInv
    <3> QED BY <2>1, <2>2, <3>2, <3>3 DEF NamesInv, UniqueNames, Sees
  <2> QED BY <2>3, <2>4, <2>5
<1> QED BY <1>1, <1>2

LEMMA QuietNames ==
    ASSUME WholeInv, NamesInv, NEW r \in Request,
           \/ RequestFails(r) \/ RegisterChecks(r) \/ RegisterNames(r)
           \/ \E name \in Name, title \in Title : RegisterAllowed(r, name, title)
           \/ \E u \in DOMAIN users, name \in Name, c \in {Mail, NoMail} : ProfileChecks(r, u, name, c)
           \/ \E t \in DOMAIN slug : PolicyAccepted(r, t)
    PROVE  NamesInv'
<1>0. AccountsTypeOK /\ WellFormed(req[r]) /\ Sees(req[r])
  BY NamesInvParts DEF WholeInv, AccountsTypeOK
<1>1. UNCHANGED users /\ UNCHANGED boot /\ boot = "up"
  BY DEF RequestFails, RegisterChecks, RegisterNames, RegisterAllowed, ProfileChecks, PolicyAccepted, Step, Aside, tables
<1>2. SUFFICES \E next : Step(r, next) /\ WellFormed(next) /\ Sees(next)
  <2>1. PICK next : Step(r, next) /\ WellFormed(next) /\ Sees(next)
    BY <1>2
  <2>2. \A s \in Request : Sees(req'[s])
    BY <1>0, <2>1, StepEffect, NamesInvParts
  <2>3. \A s \in Request : Sees(req[s])'
    BY <1>1, <2>2 DEF Sees, Named
  <2> QED BY <1>1, <2>3, NamesInvParts DEF NamesInv, UniqueNames, Sees
<1>3. CASE RequestFails(r)
  BY <1>3, NoWorkWellFormed, NoWorkSees DEF RequestFails
<1>4. CASE RegisterChecks(r)
  <2> DEFINE next == [req[r] EXCEPT !.stage = "begun"]
  <2>1. CASE Step(r, NoWork)
    BY <2>1, NoWorkWellFormed, NoWorkSees
  <2>2. CASE Step(r, next) /\ Named(req[r].name) = {}
    <3>1. WellFormed(next) /\ next.kind = "register"
      BY <1>0, <1>4, ChecksWellFormed DEF RegisterChecks
    <3>2. next.name = req[r].name
      BY <1>0 DEF WellFormed
    <3> HIDE DEF next
    <3>3. Sees(next)
      BY <2>2, <3>1, <3>2 DEF Sees
    <3> QED BY <2>2, <3>1, <3>3
  <2> QED BY <1>4, <2>1, <2>2 DEF RegisterChecks
<1>5. CASE RegisterNames(r)
  <2> DEFINE next == [req[r] EXCEPT !.stage = "ready", !.slug = FreeSlug(req[r].title)]
  <2>1. Step(r, next) /\ req[r].kind = "register" /\ req[r].stage = "begun"
    BY <1>5 DEF RegisterNames
  <2>2. WellFormed(next) /\ next.kind = "register"
    BY <1>0, <2>1, ChecksWellFormed
  <2>3. next.name = req[r].name /\ next.stale = req[r].stale
    BY <1>0 DEF WellFormed
  <2> HIDE DEF next
  <2>4. Sees(next)
    BY <1>0, <2>1, <2>2, <2>3 DEF Sees
  <2> QED BY <2>1, <2>2, <2>4
<1>6. ASSUME NEW name \in Name, NEW title \in Title, RegisterAllowed(r, name, title)
      PROVE  \E next : Step(r, next) /\ WellFormed(next) /\ Sees(next)
  <2> DEFINE next == [NoWork EXCEPT !.kind = "register", !.stage = "allowed", !.name = name, !.title = title]
  <2>1. Step(r, next)
    BY <1>6 DEF RegisterAllowed
  <2>2. WellFormed(next) /\ next.kind = "register" /\ next.stage = "allowed"
    BY <1>6, AccountsAssumption DEF NoWork, WellFormed
  <2> HIDE DEF next
  <2>3. Sees(next)
    BY <2>2 DEF Sees
  <2> QED BY <2>1, <2>2, <2>3
<1>7. ASSUME NEW u \in DOMAIN users, NEW name \in Name, NEW c \in {Mail, NoMail}, ProfileChecks(r, u, name, c)
      PROVE  \E next : Step(r, next) /\ WellFormed(next) /\ Sees(next)
  <2> DEFINE next == [NoWork EXCEPT !.kind = "profile", !.stage = "ready", !.user = u, !.name = name, !.contact = c]
  <2>1. Step(r, next) /\ Named(name) \subseteq {u}
    BY <1>7 DEF ProfileChecks
  <2>2. WellFormed(next) /\ next.kind = "profile" /\ next.name = name /\ next.user = u
    BY <1>7, AccountsAssumption DEF NoWork, WellFormed
  <2> HIDE DEF next
  <2>3. Sees(next)
    BY <2>1, <2>2 DEF Sees
  <2> QED BY <2>1, <2>2, <2>3
<1>8. ASSUME NEW t \in DOMAIN slug, PolicyAccepted(r, t)
      PROVE  \E next : Step(r, next) /\ WellFormed(next) /\ Sees(next)
  <2> DEFINE next == [NoWork EXCEPT !.kind = "policy", !.stage = "allowed", !.user = t]
  <2>1. Step(r, next)
    BY <1>8 DEF PolicyAccepted
  <2>2. WellFormed(next) /\ next.kind = "policy"
    BY AccountsAssumption DEF NoWork, WellFormed
  <2> HIDE DEF next
  <2>3. Sees(next)
    BY <2>2 DEF Sees
  <2> QED BY <2>1, <2>2, <2>3
<1> QED BY <1>3, <1>4, <1>5, <1>6, <1>7, <1>8

\* A commit that is let through writes a name it has seen free.
LEMMA CommitNames ==
    ASSUME Serial, WholeInv, NamesInv, NEW r \in Request,
           \/ RegisterCommits(r) \/ ProfileCommits(r) \/ PolicyStored(r)
           \/ \E t \in DOMAIN slug : DeleteTenant(r, t)
    PROVE  NamesInv'
<1>0. AccountsTypeOK /\ Commit(r) /\ UNCHANGED boot /\ boot = "up"
  BY DEF WholeInv, RegisterCommits, ProfileCommits, PolicyStored, DeleteTenant, Commit, Aside
<1>1. ~req[r].stale /\ WellFormed(req[r])
  BY <1>0 DEF Commit, AccountsTypeOK
<1>2. \A s \in Request : Sees(req[s])'
  BY <1>0, CommitSees
<1>3. SUFFICES UniqueNames'
  BY <1>0, <1>2, <1>3 DEF NamesInv, UniqueNames, Sees
<1>4. UniqueNames /\ Sees(req[r])
  BY NamesInvParts
<1>5. CASE RegisterCommits(r)
  <2>0. PICK new, t : new = lastUser + 1 /\ t = lastTenant + 1
    OBVIOUS
  <2> DEFINE row == [tenant |-> t, name |-> req[r].name, email |-> NoMail, contact |-> NoMail, role |-> "tenant_owner"]
  <2>1. users' = PutRow(users, new, row)
    BY <1>5, <2>0 DEF RegisterCommits
  <2>2. row.name = req[r].name
    OBVIOUS
  <2> HIDE DEF row
  <2>3. DOMAIN users' = DOMAIN users \cup {new} /\ users'[new] = row /\ \A u \in DOMAIN users : u # new => users'[u] = users[u]
    BY <2>1 DEF PutRow
  <2>4. new \notin DOMAIN users
    BY <1>0, <2>0 DEF AccountsTypeOK
  <2>5. Named(req[r].name) = {}
    BY <1>1, <1>4, <1>5 DEF RegisterCommits, Sees
  <2> QED BY <1>4, <2>2, <2>3, <2>4, <2>5 DEF UniqueNames, Named
<1>6. CASE ProfileCommits(r)
  <2>0. PICK u \in DOMAIN users : u = req[r].user
    BY <1>6 DEF ProfileCommits
  <2>1. users' = [users EXCEPT ![u].name = req[r].name, ![u].contact = req[r].contact]
    BY <1>6, <2>0 DEF ProfileCommits
  <2>2. users[u] \in UserRow
    BY <1>0 DEF AccountsTypeOK
  <2>3. DOMAIN users' = DOMAIN users /\ users'[u].name = req[r].name /\ \A v \in DOMAIN users : v # u => users'[v] = users[v]
    BY <2>1, <2>2 DEF UserRow
  <2>4. Named(req[r].name) \subseteq {u}
    BY <1>1, <1>4, <1>6, <2>0 DEF ProfileCommits, Sees
  <2> QED BY <1>4, <2>3, <2>4 DEF UniqueNames, Named
<1>7. CASE PolicyStored(r)
  <2>1. UNCHANGED users
    BY <1>7 DEF PolicyStored
  <2> QED BY <1>4, <2>1 DEF UniqueNames
<1>8. CASE \E t \in DOMAIN slug : DeleteTenant(r, t)
  <2>1. PICK t : users' = Without(users, Members(t))
    BY <1>8 DEF DeleteTenant
  <2> QED BY <1>4, <2>1 DEF UniqueNames, Without
<1> QED BY <1>5, <1>6, <1>7, <1>8

LEMMA NextNames == Serial /\ WholeInv /\ NamesInv /\ [AccountsNext]_accountsVars => NamesInv'
<1>1. Serial /\ WholeInv /\ NamesInv /\ Serve => NamesInv'
  BY QuietNames, CommitNames DEF Serve
<1>2. NamesInv /\ UNCHANGED accountsVars => NamesInv'
  BY DEF NamesInv, Named, accountsVars, tables
<1> QED BY <1>1, <1>2, BootNames DEF AccountsNext

\* Where transactions are serializable, as SQLite's are, a user who gives the name they
\* registered or chose is the one that Login finds, whatever registrations, profile changes,
\* deletions and starts of the process have crossed (Login, Register, UpdateProfile,
\* EnsureBootstrap).
THEOREM LoginAlwaysFindsOwnAccount == Serial => (AccountsSpec => []LoginFindsOwnAccount)
<1>1. AccountsInit => NamesInv
  BY DEF AccountsInit, NamesInv, NoWork
<1>2. WholeInv /\ NamesInv => LoginFindsOwnAccount
  <2> SUFFICES ASSUME WholeInv, NamesInv, NEW u \in DOMAIN users
               PROVE  Found(users[u].name) = u
    BY DEF LoginFindsOwnAccount
  <2>1. Named(users[u].name) # {}
    BY DEF Named
  <2>2. Found(users[u].name) \in Named(users[u].name)
    BY <2>1, FoundNamed DEF WholeInv
  <2> QED BY <2>2 DEF Named, NamesInv
<1>3. ASSUME Serial PROVE AccountsSpec => []LoginFindsOwnAccount
  <2>1. WholeInv /\ NamesInv /\ [AccountsNext]_accountsVars => NamesInv'
    BY <1>3, NextNames
  <2> QED BY <1>1, <1>2, <2>1, AccountsInvariance, PTL DEF AccountsSpec
<1> QED BY <1>3

-----------------------------------------------------------------------------
(* The delays of a check *)

LEMMA ShiftedValues ==
    /\ Shifted \in [0..Attempts -> Nat]
    /\ Shifted[0] = 1
    /\ \A k \in 1..Attempts : Shifted[k] = 2 * Shifted[k - 1]
<1> DEFINE step == [n \in 1..Attempts |-> [s \in Nat |-> 2 * s]]
<1>0. Attempts \in Nat
  BY CheckerAssumption
<1>1. step \in [1..Attempts -> [Nat -> Nat]]
  OBVIOUS
<1>2. \A n \in 1..Attempts, s \in Nat : step[n][s] = 2 * s
  OBVIOUS
<1> HIDE DEF step
<1>3. PICK f : Iterates(f, Attempts, Nat, 1, step)
  <2>1. 1 \in Nat
    OBVIOUS
  <2> QED BY <1>0, <1>1, <2>1, Recursion
<1>4. \A n \in 1..Attempts : f[n] = 2 * f[n - 1]
  <2>1. \A n \in 1..Attempts : n - 1 \in 0..Attempts
    BY <1>0
  <2>2. \A n \in 1..Attempts : f[n - 1] \in Nat
    BY <1>3, <2>1 DEF Iterates
  <2> QED BY <1>2, <1>3, <2>2 DEF Iterates
<1>5. f = [k \in 0..Attempts |-> IF k = 0 THEN 1 ELSE 2 * f[k - 1]]
  <2>1. \A k \in 0..Attempts : f[k] = IF k = 0 THEN 1 ELSE 2 * f[k - 1]
    BY <1>0, <1>3, <1>4 DEF Iterates
  <2> QED BY <1>3, <2>1 DEF Iterates
<1>6. Shifted = [k \in 0..Attempts |-> IF k = 0 THEN 1 ELSE 2 * Shifted[k - 1]]
  BY <1>5 DEF Shifted
<1>7. Shifted[0] = 1 /\ \A k \in 1..Attempts : Shifted[k] = 2 * Shifted[k - 1]
  BY <1>0, <1>6
<1>8. 0..Attempts \subseteq {k \in 0..Attempts : Shifted[k] \in Nat}
  <2> DEFINE P == {k \in 0..Attempts : Shifted[k] \in Nat}
  <2>1. 0 \in P /\ \A k \in 1..Attempts : k - 1 \in P => k \in P
    BY <1>0, <1>7
  <2> HIDE DEF P
  <2> QED BY <1>0, <2>1, UpTo DEF P
<1> QED BY <1>6, <1>7, <1>8

-----------------------------------------------------------------------------
(* The addresses of an answer *)

NoneTwice(list) == \A i, j \in 1..Len(list) : list[i] = list[j] => i = j
OfVersion(answer, v4) == {a \in ToSet(answer) : (a \in V4) = v4}

Took(list, answer, v4, n, l) ==
    /\ l \in Seq(Address) /\ NoneTwice(l)
    /\ ToSet(l) = ToSet(list) \cup {a \in Address : (a \in V4) = v4 /\ \E i \in 1..n : answer[i] = a}

LEMMA TakesOne ==
    ASSUME NEW l \in Seq(Address), NoneTwice(l), NEW a \in Address, a \notin ToSet(l)
    PROVE  Append(l, a) \in Seq(Address) /\ NoneTwice(Append(l, a)) /\ ToSet(Append(l, a)) = ToSet(l) \cup {a}
<1> DEFINE m == Append(l, a)
<1>1. m \in Seq(Address) /\ Len(m) = Len(l) + 1 /\ m[Len(l) + 1] = a /\ \A i \in 1..Len(l) : m[i] = l[i]
  OBVIOUS
<1>2. Len(l) \in Nat
  OBVIOUS
<1> HIDE DEF m
<1>3. NoneTwice(m)
  BY <1>1, <1>2 DEF NoneTwice, ToSet
<1>4. ToSet(m) = ToSet(l) \cup {a}
  BY <1>1, <1>2 DEF ToSet
<1> QED BY <1>1, <1>3, <1>4 DEF m

LEMMA PassResult ==
    ASSUME NEW list \in Seq(Address), NoneTwice(list), NEW answer \in Seq(Address), NEW v4 \in BOOLEAN
    PROVE  /\ Pass(list, answer, v4) \in Seq(Address) /\ NoneTwice(Pass(list, answer, v4))
           /\ ToSet(Pass(list, answer, v4)) = ToSet(list) \cup OfVersion(answer, v4)
<1> DEFINE N == Len(answer)
           upTo[n \in 0..N] ==
               IF n = 0 THEN list
               ELSE LET before == upTo[n - 1]
                    IN  IF (answer[n] \in V4) = v4 /\ answer[n] \notin ToSet(before)
                        THEN Append(before, answer[n])
                        ELSE before
           Takes(n, l) == (answer[n] \in V4) = v4 /\ answer[n] \notin ToSet(l)
           step == [n \in 1..N |-> [l \in Seq(Address) |-> IF Takes(n, l) THEN Append(l, answer[n]) ELSE l]]
<1>1. Pass(list, answer, v4) = upTo[N]
  BY DEF Pass
<1>2. N \in Nat /\ \A n \in 1..N : answer[n] \in Address
  OBVIOUS
<1>3. step \in [1..N -> [Seq(Address) -> Seq(Address)]]
  BY <1>2
<1>4. \A n \in 1..N, l \in Seq(Address) : step[n][l] = IF Takes(n, l) THEN Append(l, answer[n]) ELSE l
  OBVIOUS
<1> HIDE DEF step, N
<1>5. PICK f : Iterates(f, N, Seq(Address), list, step)
  BY <1>2, <1>3, Recursion
<1>6. \A n \in 1..N : /\ f[n - 1] \in Seq(Address)
                     /\ f[n] = IF Takes(n, f[n - 1]) THEN Append(f[n - 1], answer[n]) ELSE f[n - 1]
  <2>1. \A n \in 1..N : n - 1 \in 0..N
    BY <1>2
  <2>2. \A n \in 1..N : f[n - 1] \in Seq(Address)
    BY <1>5, <2>1 DEF Iterates
  <2> HIDE DEF Takes
  <2> QED BY <1>4, <1>5, <2>2 DEF Iterates
<1>7. f = [n \in 0..N |-> IF n = 0 THEN list
                         ELSE IF Takes(n, f[n - 1]) THEN Append(f[n - 1], answer[n]) ELSE f[n - 1]]
  <2> HIDE DEF Takes
  <2>1. \A n \in 0..N : f[n] = IF n = 0 THEN list
                               ELSE IF Takes(n, f[n - 1]) THEN Append(f[n - 1], answer[n]) ELSE f[n - 1]
    <3>1. f[0] = list
      BY <1>5 DEF Iterates
    <3>2. \A n \in 0..N : n = 0 \/ n \in 1..N
      BY <1>2
    <3> QED BY <1>6, <3>1, <3>2
  <2> QED BY <1>5, <2>1 DEF Iterates
<1>8. upTo = [n \in 0..N |-> IF n = 0 THEN list
                            ELSE IF Takes(n, upTo[n - 1]) THEN Append(upTo[n - 1], answer[n]) ELSE upTo[n - 1]]
  BY <1>7
<1> HIDE DEF upTo
<1> DEFINE P == {n \in 0..N : Took(list, answer, v4, n, upTo[n])}
<1>9. 0 \in P
  <2>1. upTo[0] = list
    BY <1>2, <1>8
  <2> QED BY <1>2, <2>1 DEF Took
<1>10. ASSUME NEW n \in 1..N, n - 1 \in P PROVE n \in P
  <2> DEFINE l == upTo[n - 1]
  <2>1. Took(list, answer, v4, n - 1, l)
    BY <1>10
  <2>2. upTo[n] = IF Takes(n, l) THEN Append(l, answer[n]) ELSE l
    <3>1. n \in 0..N /\ n # 0
      BY <1>2
    <3> HIDE DEF Takes
    <3> QED BY <1>8, <3>1
  <2>3. \A i : i \in 1..n <=> i \in 1..(n - 1) \/ i = n
    BY <1>2
  <2> HIDE DEF l
  <2>4. CASE Takes(n, l)
    <3>1. l \in Seq(Address) /\ NoneTwice(l) /\ answer[n] \in Address /\ answer[n] \notin ToSet(l)
      BY <1>2, <2>1, <2>4 DEF Took
    <3>2. /\ upTo[n] \in Seq(Address) /\ NoneTwice(upTo[n]) /\ ToSet(upTo[n]) = ToSet(l) \cup {answer[n]}
      BY <2>2, <2>4, <3>1, TakesOne
    <3>3. ToSet(upTo[n]) = ToSet(list) \cup {a \in Address : (a \in V4) = v4 /\ \E i \in 1..n : answer[i] = a}
      BY <2>1, <2>3, <2>4, <3>1, <3>2 DEF Took
    <3> QED BY <3>2, <3>3 DEF Took
  <2>5. CASE ~ Takes(n, l)
    <3>1. upTo[n] = l
      BY <2>2, <2>5
    <3>2. ToSet(l) = ToSet(list) \cup {a \in Address : (a \in V4) = v4 /\ \E i \in 1..n : answer[i] = a}
      BY <1>2, <2>1, <2>3, <2>5 DEF Took
    <3> QED BY <2>1, <3>1, <3>2 DEF Took
  <2> QED BY <2>4, <2>5
<1>11. N \in P
  <2> HIDE DEF P
  <2>1. 0..N \subseteq P
    BY <1>2, <1>9, <1>10, UpTo
  <2> QED BY <1>2, <2>1
<1>12. Took(list, answer, v4, N, upTo[N])
  BY <1>11
<1>13. OfVersion(answer, v4) = {a \in Address : (a \in V4) = v4 /\ \E i \in 1..N : answer[i] = a}
  BY <1>2 DEF OfVersion, ToSet, N
<1> QED BY <1>1, <1>12, <1>13 DEF Took

LEMMA AddressesResult ==
    ASSUME NEW answer \in Answers
    PROVE  /\ Addresses(answer) \in Seq(Address) /\ NoneTwice(Addresses(answer))
           /\ ToSet(Addresses(answer)) = ToSet(answer)
<1> DEFINE first == Pass(<<>>, answer, TRUE)
<1>0. answer \in Seq(Address)
  BY CheckerAssumption
<1>1. <<>> \in Seq(Address) /\ NoneTwice(<<>>) /\ ToSet(<<>>) = {}
  BY DEF NoneTwice, ToSet
<1>2. first \in Seq(Address) /\ NoneTwice(first) /\ ToSet(first) = OfVersion(answer, TRUE)
  <2>1. PICK none \in Seq(Address) : none = <<>> /\ NoneTwice(none) /\ ToSet(none) = {}
    BY <1>1
  <2>2. /\ Pass(none, answer, TRUE) \in Seq(Address) /\ NoneTwice(Pass(none, answer, TRUE))
        /\ ToSet(Pass(none, answer, TRUE)) = ToSet(none) \cup OfVersion(answer, TRUE)
    BY <1>0, <2>1, PassResult
  <2> QED BY <2>1, <2>2
<1> HIDE DEF first
<1>3. /\ Pass(first, answer, FALSE) \in Seq(Address) /\ NoneTwice(Pass(first, answer, FALSE))
      /\ ToSet(Pass(first, answer, FALSE)) = ToSet(first) \cup OfVersion(answer, FALSE)
  BY <1>0, <1>2, PassResult
<1>4. OfVersion(answer, TRUE) \cup OfVersion(answer, FALSE) = ToSet(answer)
  BY DEF OfVersion
<1> QED BY <1>2, <1>3, <1>4 DEF Addresses, first


LEMMA AsManyAddresses ==
    ASSUME NEW answer \in Answers
    PROVE  /\ Len(Addresses(answer)) \in Nat \ {0}
           /\ Len(Addresses(answer)) = Cardinality(ToSet(answer))
<1> DEFINE L == Addresses(answer)
<1>1. L \in Seq(Address) /\ NoneTwice(L) /\ ToSet(L) = ToSet(answer)
  BY AddressesResult
<1>2. answer \in Seq(Address) /\ answer # <<>>
  BY CheckerAssumption
<1> HIDE DEF L
<1>3. Len(L) \in Nat /\ L \in [1..Len(L) -> ToSet(L)]
  BY <1>1 DEF ToSet
<1>4. Len(L) # 0
  <2>1. 1 \in DOMAIN answer
    BY <1>2
  <2>2. answer[1] \in ToSet(L)
    BY <1>1, <2>1 DEF ToSet
  <2>3. \E i \in DOMAIN L : L[i] = answer[1]
    BY <2>2 DEF ToSet
  <2>4. PICK i \in 1..Len(L) : L[i] = answer[1]
    BY <1>3, <2>3
  <2> QED BY <1>3, <2>4
<1>5. L \in Bijection(1..Len(L), ToSet(L))
  BY <1>1, <1>3 DEF Bijection, Injection, Surjection, IsInjective, NoneTwice, ToSet
<1>6. Cardinality(ToSet(L)) = Len(L)
  BY <1>3, <1>5, FS_CountingElements DEF ExistsBijection
<1> QED BY <1>1, <1>3, <1>4, <1>6 DEF L

LEMMA NextIsAddress ==
    ASSUME NEW answer \in Answers, NEW n \in Nat
    PROVE  NextOf(Addresses(answer), n) \in Address
<1> DEFINE L == Addresses(answer)
<1>1. L \in Seq(Address) /\ Len(L) \in Nat \ {0}
  BY AddressesResult, AsManyAddresses
<1> HIDE DEF L
<1>2. n % Len(L) \in 0..(Len(L) - 1)
  BY <1>1
<1> QED BY <1>1, <1>2 DEF NextOf, L

\* Attempts that take the addresses in turn reach each of them, if they suffice.
LEMMA EveryAddressTaken ==
    ASSUME NEW answer \in Answers, NEW a \in ToSet(answer), Cardinality(ToSet(answer)) <= Attempts
    PROVE  \E k \in 0..(Attempts - 1) : NextOf(Addresses(answer), k) = a
<1> DEFINE L == Addresses(answer)
<1>1. L \in Seq(Address) /\ Len(L) \in Nat \ {0} /\ Len(L) <= Attempts /\ a \in ToSet(L)
  BY AddressesResult, AsManyAddresses
<1> HIDE DEF L
<1>2. PICK i \in 1..Len(L) : L[i] = a
  BY <1>1 DEF ToSet
<1>3. i - 1 \in 0..(Attempts - 1) /\ (i - 1) % Len(L) = i - 1
  BY <1>1, <1>2, CheckerAssumption
<1>4. NextOf(L, i - 1) = a
  BY <1>2, <1>3 DEF NextOf
<1> QED BY <1>3, <1>4 DEF L

-----------------------------------------------------------------------------
(* The check of a host *)

Ended == [status : {"error", "healthy"}, cert : BOOLEAN, address : Address \cup {NoAddress}, retryable : BOOLEAN]

CheckerTypeOK ==
    /\ host \in [Address -> {"down", "expired", "valid"}] /\ records \in Answers /\ givenUp \in BOOLEAN
    /\ elapsed \in Nat /\ left \in Nat /\ attempt \in 0..(Attempts - 1)
    /\ pc \in {"start", "resolving", "dialing", "waiting", "done"}
    /\ target \in {NoTarget, NotAnIP} \cup Address /\ at \in Address \cup {NoAddress}
    /\ result \in Ended /\ last \in Ended
    /\ steady \in BOOLEAN /\ shown \in BOOLEAN /\ extra \in 0..1

Delay(n) == BaseDelay * Shifted[n]

\* What the attempts up to the nth may take, and the delays before them.
Spent(n) == (n + 1) * Timeout + BaseDelay * (Shifted[n] - 1)

TimeInv ==
    /\ pc = "start" => elapsed = 0 /\ attempt = 0 /\ extra = 0
    /\ pc \in {"resolving", "dialing"} => elapsed + left <= Spent(attempt)
    /\ pc = "waiting" => attempt + 1 < Attempts /\ elapsed + left <= Spent(attempt) + Delay(attempt)
    /\ pc = "done" => elapsed <= Spent(Attempts - 1)

\* Once an attempt has begun after the cancellation, the timer of a delay never fires.
ExtraInv == extra = 1 => givenUp /\ (pc = "waiting" => left = Delay(attempt))

Refuses(n) == host[NextOf(Addresses(records), n)] = "down"

ShownInv ==
    /\ ~last.cert /\ (shown => pc = "done") /\ (pc = "done" => result.cert = shown)
    /\ pc = "dialing" /\ target # NoTarget => at = target
    /\ pc \in {"resolving", "dialing", "waiting"} => target # NotAnIP
    /\ steady /\ target = NoTarget =>
         /\ pc = "dialing" => at = NextOf(Addresses(records), attempt)
         /\ pc \in {"resolving", "dialing"} => \A k \in 0..(attempt - 1) : Refuses(k)
         /\ pc = "waiting" => \A k \in 0..attempt : Refuses(k)
         /\ pc = "done" /\ ~givenUp /\ ~result.cert => \A k \in 0..(Attempts - 1) : Refuses(k)

CheckInv == CheckerTypeOK /\ TimeInv /\ ExtraInv /\ ShownInv

USE DEF worldVars

LEMMA Delays ==
    /\ \A n \in 0..Attempts : Delay(n) \in Nat
    /\ \A retry \in 1..Attempts : RetryDelay(retry) = Delay(retry - 1)
<1>1. \A n \in 0..Attempts : Shifted[n] \in Nat
  BY ShiftedValues
<1>2. \A x, y \in Nat : x * y \in Nat
  OBVIOUS
<1>3. BaseDelay \in Nat /\ Attempts \in Nat
  BY CheckerAssumption
<1> QED BY <1>1, <1>2, <1>3 DEF Delay, RetryDelay

LEMMA SpentGrows ==
    /\ \A n \in 0..(Attempts - 1) : Spent(n) \in Nat
    /\ Spent(0) = Timeout
    /\ \A n \in 0..(Attempts - 2) : Spent(n + 1) = Spent(n) + Delay(n) + Timeout
<1>0. Attempts \in Nat \ {0} /\ Timeout \in Nat /\ BaseDelay \in Nat
  BY CheckerAssumption
<1>1. Spent(0) = Timeout
  BY <1>0, ShiftedValues DEF Spent
<1>2. \A n \in 0..(Attempts - 2) : Spent(n + 1) = Spent(n) + Delay(n) + Timeout
  <2> TAKE n \in 0..(Attempts - 2)
  <2>1. n \in Nat /\ n + 1 \in 1..Attempts /\ n \in 0..Attempts
    BY <1>0
  <2>2. PICK s \in Nat : s = Shifted[n]
    BY <2>1, ShiftedValues
  <2>3. Shifted[n + 1] = 2 * s
    BY <2>1, <2>2, ShiftedValues
  <2>4. (n + 2) * Timeout = (n + 1) * Timeout + Timeout
    BY <1>0, <2>1
  <2>5. BaseDelay * (2 * s - 1) = BaseDelay * (s - 1) + BaseDelay * s
    BY <1>0
  <2>6. (n + 1) * Timeout \in Int /\ BaseDelay * (s - 1) \in Int /\ BaseDelay * s \in Int
    BY <1>0, <2>1
  <2>7. Spent(n + 1) = (n + 2) * Timeout + BaseDelay * (2 * s - 1)
    BY <2>1, <2>3 DEF Spent
  <2> QED BY <1>0, <2>2, <2>4, <2>5, <2>6, <2>7 DEF Spent, Delay
<1>3. \A n \in 0..(Attempts - 1) : Spent(n) \in Nat
  <2> DEFINE P == {n \in 0..(Attempts - 1) : Spent(n) \in Nat}
  <2>1. 0 \in P
    BY <1>0, <1>1
  <2>2. \A n \in 1..(Attempts - 1) : n - 1 \in P => n \in P
    <3> SUFFICES ASSUME NEW n \in 1..(Attempts - 1), Spent(n - 1) \in Nat PROVE Spent(n) \in Nat
      BY <1>0
    <3>1. n - 1 \in 0..(Attempts - 2) /\ n - 1 \in 0..Attempts /\ (n - 1) + 1 = n
      BY <1>0
    <3>2. Spent(n) = Spent(n - 1) + Delay(n - 1) + Timeout /\ Delay(n - 1) \in Nat
      BY <1>2, <3>1, Delays
    <3> QED BY <1>0, <3>2
  <2> HIDE DEF P
  <2>3. Attempts - 1 \in Nat
    BY <1>0
  <2>4. 0..(Attempts - 1) \subseteq P
    BY <2>1, <2>2, <2>3, UpTo
  <2> QED BY <2>4 DEF P
<1> QED BY <1>1, <1>2, <1>3

LEMMA SpentAtMost ==
    \A n \in 0..(Attempts - 1) : Spent(n) <= Spent(Attempts - 1)
<1> DEFINE N == Attempts - 1
           P == {k \in 0..N : Spent(N - k) <= Spent(N)}
<1>0. N \in Nat /\ Attempts \in Nat /\ Timeout \in Nat
  BY CheckerAssumption
<1>1. 0 \in P
  BY <1>0, SpentGrows
<1>2. \A k \in 1..N : k - 1 \in P => k \in P
  <2> SUFFICES ASSUME NEW k \in 1..N, Spent(N - (k - 1)) <= Spent(N) PROVE Spent(N - k) <= Spent(N)
    BY <1>0
  <2>1. PICK n \in 0..(Attempts - 2) : n = N - k /\ n + 1 = N - (k - 1)
    BY <1>0
  <2>2. Spent(n + 1) = Spent(n) + Delay(n) + Timeout /\ Delay(n) \in Nat /\ Spent(n) \in Nat /\ Spent(N) \in Nat
    BY <1>0, <2>1, SpentGrows, Delays
  <2> QED BY <1>0, <2>1, <2>2
<1>3. 0..N \subseteq P
  <2> HIDE DEF P
  <2> QED BY <1>0, <1>1, <1>2, UpTo
<1>4. \A n \in 0..N : N - n \in 0..N /\ N - (N - n) = n
  BY <1>0
<1> QED BY <1>3, <1>4

LEMMA FailedResults == \A a \in Address \cup {NoAddress} : Failed(a) \in Ended /\ ~Failed(a).cert
BY DEF Failed, Ended

LEMMA InitCheck == CheckerInit => CheckInv
<1> SUFFICES ASSUME CheckerInit PROVE CheckInv
  OBVIOUS
<1>1. Failed(NoAddress) \in Ended /\ ~Failed(NoAddress).cert
  BY FailedResults
<1>2. CheckerTypeOK
  <2>1. 0 \in 0..(Attempts - 1)
    BY CheckerAssumption
  <2>2. last \in Ended /\ result \in Ended
    BY <1>1 DEF CheckerInit
  <2>3. at \in Address \cup {NoAddress} /\ attempt \in 0..(Attempts - 1) /\ target \in {NoTarget, NotAnIP} \cup Address
    BY <2>1 DEF CheckerInit
  <2>4. /\ host \in [Address -> {"down", "expired", "valid"}] /\ records \in Answers /\ givenUp \in BOOLEAN
        /\ steady \in BOOLEAN /\ shown \in BOOLEAN
    BY DEF CheckerInit
  <2>5. elapsed \in Nat /\ left \in Nat /\ extra \in 0..1 /\ pc \in {"start", "resolving", "dialing", "waiting", "done"}
    BY DEF CheckerInit
  <2> QED BY <2>2, <2>3, <2>4, <2>5 DEF CheckerTypeOK
<1> QED BY <1>1, <1>2 DEF CheckerInit, CheckInv, TimeInv, ExtraInv, ShownInv

LEMMA WorldCheck == CheckInv /\ (HostChanges \/ NameChanges \/ Cancel) => CheckInv'
<1> SUFFICES ASSUME CheckInv, HostChanges \/ NameChanges \/ Cancel PROVE CheckInv'
  OBVIOUS
<1>0. UNCHANGED <<elapsed, pc, target, attempt, at, left, result, last, shown, extra>>
  BY DEF HostChanges, NameChanges, Cancel
<1>1. CheckerTypeOK'
  <2>1. host' \in [Address -> {"down", "expired", "valid"}] /\ records' \in Answers /\ givenUp' \in BOOLEAN /\ steady' \in BOOLEAN
    BY DEF CheckInv, CheckerTypeOK, HostChanges, NameChanges, Cancel
  <2> QED BY <1>0, <2>1 DEF CheckInv, CheckerTypeOK
<1>2. TimeInv'
  BY <1>0 DEF CheckInv, TimeInv
<1>3. ExtraInv'
  BY <1>0 DEF CheckInv, ExtraInv, HostChanges, NameChanges, Cancel
<1>4. ShownInv'
  <2>1. CASE HostChanges \/ NameChanges
    <3>1. steady' = FALSE
      BY <2>1 DEF HostChanges, NameChanges
    <3> QED BY <1>0, <3>1 DEF CheckInv, ShownInv
  <2>2. CASE Cancel
    BY <1>0, <2>2 DEF Cancel, CheckInv, ShownInv, Refuses
  <2> QED BY <2>1, <2>2
<1> QED BY <1>1, <1>2, <1>3, <1>4 DEF CheckInv

LEMMA TickCheck == CheckInv /\ Tick => CheckInv'
<1> SUFFICES ASSUME CheckInv, Tick PROVE CheckInv'
  OBVIOUS
<1>0. UNCHANGED <<host, records, givenUp, pc, target, attempt, at, result, last, steady, shown, extra>>
  BY DEF Tick
<1>1. left \in Nat \ {0} /\ left' = left - 1 /\ elapsed \in Nat /\ elapsed' = elapsed + 1 /\ ~givenUp /\ pc # "start" /\ pc # "done"
  BY DEF Tick, Running, CheckInv, CheckerTypeOK
<1>2. CheckerTypeOK'
  BY <1>0, <1>1 DEF CheckInv, CheckerTypeOK
<1>3. TimeInv'
  <2>1. elapsed' + left' = elapsed + left
    BY <1>1
  <2> QED BY <1>0, <1>1, <2>1 DEF CheckInv, TimeInv
<1>4. ExtraInv' /\ ShownInv'
  BY <1>0, <1>1 DEF CheckInv, ExtraInv, ShownInv, Refuses
<1> QED BY <1>2, <1>3, <1>4 DEF CheckInv

\* The check returns: what has been spent is bounded by all attempts and delays.
LEMMA Bounded ==
    ASSUME CheckInv, pc \notin {"start", "done"}
    PROVE  elapsed <= Spent(Attempts - 1)
<1>1. attempt \in 0..(Attempts - 1) /\ elapsed \in Nat /\ left \in Nat /\ Attempts \in Nat /\ Timeout \in Nat
  BY CheckerAssumption DEF CheckInv, CheckerTypeOK
<1>2. Spent(attempt) \in Nat /\ Spent(Attempts - 1) \in Nat /\ Spent(attempt) <= Spent(Attempts - 1)
  BY <1>1, SpentGrows, SpentAtMost
<1>3. CASE pc \in {"resolving", "dialing"}
  BY <1>1, <1>2, <1>3 DEF CheckInv, TimeInv
<1>4. CASE pc = "waiting"
  <2>1. attempt \in 0..(Attempts - 2) /\ attempt + 1 \in 0..(Attempts - 1) /\ attempt \in 0..Attempts
    BY <1>1, <1>4 DEF CheckInv, TimeInv
  <2>2. Delay(attempt) \in Nat
    BY <2>1, Delays
  <2>3. elapsed + left <= Spent(attempt) + Delay(attempt)
    BY <1>4 DEF CheckInv, TimeInv
  <2>4. Spent(attempt + 1) = Spent(attempt) + Delay(attempt) + Timeout /\ Spent(attempt + 1) <= Spent(Attempts - 1)
    BY <2>1, SpentGrows, SpentAtMost
  <2> HIDE DEF Delay, Spent
  <2> QED BY <1>1, <1>2, <2>2, <2>3, <2>4
<1> QED BY <1>3, <1>4 DEF CheckInv, CheckerTypeOK

LEMMA BeginCheck == CheckInv /\ (Check \/ WaitOver) => CheckInv'
<1> SUFFICES ASSUME CheckInv, Check \/ WaitOver PROVE CheckInv'
  OBVIOUS
<1>0. UNCHANGED <<host, records, givenUp, elapsed, target, last, steady, shown>>
  BY DEF Check, WaitOver
<1>a. Attempts \in Nat \ {0} /\ Timeout \in Nat /\ attempt \in 0..(Attempts - 1) /\ left \in Nat /\ elapsed \in Nat /\ extra \in 0..1 /\ givenUp \in BOOLEAN
  BY CheckerAssumption DEF CheckInv, CheckerTypeOK
<1>1. CASE Check /\ target = NotAnIP
  <2>1. pc = "start" /\ pc' = "done" /\ result' = Refused /\ UNCHANGED <<attempt, at, left, extra>>
    BY <1>1 DEF Check, Return
  <2>2. Refused \in Ended /\ ~Refused.cert
    BY DEF Refused, Failed, Ended
  <2>3. CheckerTypeOK'
    BY <1>0, <2>1, <2>2 DEF CheckInv, CheckerTypeOK
  <2>4. TimeInv'
    <3>1. Attempts - 1 \in 0..(Attempts - 1)
      BY <1>a
    <3>2. elapsed = 0 /\ Spent(Attempts - 1) \in Nat
      BY <2>1, <3>1, SpentGrows DEF CheckInv, TimeInv
    <3>3. elapsed' <= Spent(Attempts - 1)
      BY <1>0, <3>2
    <3> QED BY <2>1, <3>3 DEF TimeInv
  <2>5. ExtraInv'
    BY <1>0, <2>1 DEF CheckInv, TimeInv, ExtraInv
  <2>6. ShownInv'
    <3>1. shown = FALSE /\ Refused.cert = FALSE /\ target # NoTarget
      BY <1>1, <2>1, CheckerAssumption DEF CheckInv, CheckerTypeOK, ShownInv, Refused, Failed
    <3> QED BY <1>0, <2>1, <3>1 DEF CheckInv, ShownInv
  <2> QED BY <2>3, <2>4, <2>5, <2>6 DEF CheckInv
<1>2. CASE Check /\ target # NotAnIP
  <2>1. /\ pc = "start" /\ pc' = "resolving" /\ attempt' = 0 /\ left' = Timeout /\ at' = NoAddress
        /\ UNCHANGED result /\ extra' = extra + IF givenUp THEN 1 ELSE 0
    BY <1>2 DEF Check, Begin
  <2>2. elapsed = 0 /\ attempt = 0 /\ extra = 0
    BY <2>1 DEF CheckInv, TimeInv
  <2>3. CheckerTypeOK'
    BY <1>0, <1>a, <2>1, <2>2 DEF CheckInv, CheckerTypeOK
  <2>4. TimeInv'
    BY <1>0, <1>a, <2>1, <2>2, SpentGrows DEF TimeInv
  <2>5. ExtraInv'
    BY <1>0, <1>a, <2>1, <2>2 DEF ExtraInv
  <2>6. ShownInv'
    BY <1>0, <1>2, <2>1, <2>2 DEF CheckInv, ShownInv
  <2> QED BY <2>3, <2>4, <2>5, <2>6 DEF CheckInv
<1>3. CASE WaitOver
  <2>1. /\ pc = "waiting" /\ left = 0 /\ pc' = "resolving" /\ attempt' = attempt + 1 /\ left' = Timeout /\ at' = NoAddress
        /\ UNCHANGED result /\ extra' = extra + IF givenUp THEN 1 ELSE 0
    BY <1>3 DEF WaitOver, Begin
  <2>2. attempt \in 0..(Attempts - 2) /\ attempt \in 0..Attempts /\ attempt + 1 \in 1..Attempts /\ (attempt + 1) - 1 = attempt
    BY <1>a, <2>1 DEF CheckInv, TimeInv
  <2>3. givenUp => extra = 0
    <3>1. givenUp => RetryDelay(attempt + 1) # 0
      BY <1>3 DEF WaitOver
    <3>2. RetryDelay(attempt + 1) = Delay(attempt)
      BY <2>2, Delays
    <3> QED BY <1>a, <2>1, <3>1, <3>2 DEF CheckInv, ExtraInv
  <2>4. CheckerTypeOK'
    BY <1>0, <1>a, <2>1, <2>2, <2>3 DEF CheckInv, CheckerTypeOK
  <2>5. TimeInv'
    <3>1. Spent(attempt + 1) = Spent(attempt) + Delay(attempt) + Timeout
      BY <2>2, SpentGrows
    <3>2. elapsed + left <= Spent(attempt) + Delay(attempt)
      BY <2>1 DEF CheckInv, TimeInv
    <3>3. Spent(attempt) \in Nat /\ Delay(attempt) \in Nat
      BY <1>a, <2>2, SpentGrows, Delays
    <3> HIDE DEF Delay, Spent
    <3>4. elapsed + Timeout <= Spent(attempt + 1)
      BY <1>a, <2>1, <3>1, <3>2, <3>3
    <3> QED BY <1>0, <2>1, <3>4 DEF TimeInv
  <2>6. ExtraInv'
    BY <1>0, <1>a, <2>1, <2>3 DEF CheckInv, ExtraInv
  <2>7. ShownInv'
    <3>1. \A k : k \in 0..attempt <=> k \in 0..((attempt + 1) - 1)
      BY <1>a
    <3> QED BY <1>0, <2>1, <3>1 DEF CheckInv, ShownInv, Refuses
  <2> QED BY <2>4, <2>5, <2>6, <2>7 DEF CheckInv
<1> QED BY <1>1, <1>2, <1>3

LEMMA ResolveCheck == CheckInv /\ Resolve => CheckInv'
<1> SUFFICES ASSUME CheckInv, Resolve PROVE CheckInv'
  OBVIOUS
<1>0. /\ pc = "resolving" /\ pc' = "dialing"
      /\ UNCHANGED <<host, records, givenUp, elapsed, target, attempt, left, result, last, steady, shown, extra>>
  BY DEF Resolve
<1>1. /\ target = NoTarget => at' = NextOf(Addresses(records), attempt)
      /\ target # NoTarget => at' = target
  BY DEF Resolve
<1>2. CheckerTypeOK'
  <2>1. NextOf(Addresses(records), attempt) \in Address
    BY NextIsAddress, CheckerAssumption DEF CheckInv, CheckerTypeOK
  <2>2. target # NotAnIP
    BY <1>0 DEF CheckInv, ShownInv
  <2> QED BY <1>0, <1>1, <2>1, <2>2 DEF CheckInv, CheckerTypeOK
<1>3. TimeInv' /\ ExtraInv'
  BY <1>0 DEF CheckInv, TimeInv, ExtraInv
<1>4. ShownInv'
  BY <1>0, <1>1 DEF CheckInv, ShownInv, Refuses
<1> QED BY <1>2, <1>3, <1>4 DEF CheckInv

LEMMA FailsCheck == CheckInv /\ (Unreachable \/ Interrupted) => CheckInv'
<1> SUFFICES ASSUME CheckInv, Unreachable \/ Interrupted PROVE CheckInv'
  OBVIOUS
<1>0. UNCHANGED <<host, records, givenUp, elapsed, target, attempt, at, shown, extra>>
  BY DEF Unreachable, Interrupted, AttemptFails
<1>1. pc \in {"resolving", "dialing"} /\ last' = Failed(at) /\ steady' \in BOOLEAN
  BY DEF Unreachable, Interrupted, AttemptFails, CheckInv, CheckerTypeOK
<1>2. Failed(at) \in Ended /\ ~Failed(at).cert
  BY FailedResults DEF CheckInv, CheckerTypeOK
<1>3. attempt \in 0..(Attempts - 1) /\ Attempts \in Nat \ {0} /\ elapsed \in Nat /\ left \in Nat
  BY CheckerAssumption DEF CheckInv, CheckerTypeOK
\* Only an address that does not answer leaves the world steady.
<1>4. steady' => pc = "dialing" /\ host[at] = "down" /\ steady
  BY DEF Unreachable, Interrupted
<1>5. ~shown
  BY <1>1 DEF CheckInv, ShownInv
<1>6. \A k \in 0..attempt : k = attempt \/ k \in 0..(attempt - 1)
  BY <1>3
<1>7. steady' /\ target = NoTarget => \A k \in 0..attempt : Refuses(k)
  BY <1>4, <1>6 DEF CheckInv, ShownInv, Refuses
<1>8. CASE attempt + 1 < Attempts
  <2>1. pc' = "waiting" /\ left' = RetryDelay(attempt + 1) /\ UNCHANGED result
    BY <1>8 DEF Unreachable, Interrupted, AttemptFails
  <2>2. left' = Delay(attempt) /\ Delay(attempt) \in Nat
    <3>1. attempt + 1 \in 1..Attempts /\ attempt \in 0..Attempts /\ (attempt + 1) - 1 = attempt
      BY <1>3, <1>8
    <3> QED BY <2>1, <3>1, Delays
  <2>3. CheckerTypeOK'
    BY <1>0, <1>1, <1>2, <2>1, <2>2 DEF CheckInv, CheckerTypeOK
  <2>4. TimeInv'
    <3>1. elapsed + left <= Spent(attempt) /\ Spent(attempt) \in Nat
      BY <1>1, <1>3, SpentGrows DEF CheckInv, TimeInv
    <3>2. elapsed + Delay(attempt) <= Spent(attempt) + Delay(attempt)
      <4> HIDE DEF Delay, Spent
      <4> QED BY <1>3, <2>2, <3>1
    <3> QED BY <1>0, <1>8, <2>1, <2>2, <3>2 DEF TimeInv
  <2>5. ExtraInv'
    BY <1>0, <2>1, <2>2 DEF CheckInv, ExtraInv
  <2>6. ShownInv'
    BY <1>0, <1>1, <1>2, <1>5, <1>7, <2>1 DEF CheckInv, ShownInv, Refuses
  <2> QED BY <2>3, <2>4, <2>5, <2>6 DEF CheckInv
<1>9. CASE ~(attempt + 1 < Attempts)
  <2>1. pc' = "done" /\ result' = Failed(at) /\ UNCHANGED left
    BY <1>9 DEF Unreachable, Interrupted, AttemptFails, Return
  <2>2. CheckerTypeOK'
    BY <1>0, <1>1, <1>2, <2>1 DEF CheckInv, CheckerTypeOK
  <2>3. TimeInv'
    BY <1>0, <1>1, <2>1, Bounded DEF TimeInv
  <2>4. ExtraInv'
    BY <1>0, <2>1 DEF CheckInv, ExtraInv
  <2>5. ShownInv'
    <3>1. attempt = Attempts - 1
      BY <1>3, <1>9
    <3>2. steady' /\ target' = NoTarget => \A k \in 0..(Attempts - 1) : Refuses(k)'
      BY <1>0, <1>7, <3>1 DEF Refuses
    <3>3. ~last'.cert /\ result'.cert = shown'
      <4>1. Failed(at).cert = FALSE /\ shown = FALSE
        BY <1>5 DEF CheckInv, CheckerTypeOK, Failed
      <4> QED BY <1>0, <1>1, <2>1, <4>1
    <3> QED BY <2>1, <3>2, <3>3 DEF ShownInv
  <2> QED BY <2>2, <2>3, <2>4, <2>5 DEF CheckInv
<1> QED BY <1>8, <1>9

LEMMA EndCheck == CheckInv /\ (Handshake \/ WaitCancelled) => CheckInv'
<1> SUFFICES ASSUME CheckInv, Handshake \/ WaitCancelled PROVE CheckInv'
  OBVIOUS
<1>0. UNCHANGED <<host, records, givenUp, elapsed, target, attempt, at, left, last, steady, extra>>
  BY DEF Handshake, WaitCancelled
<1>1. pc \in {"dialing", "waiting"} /\ pc' = "done"
  BY DEF Handshake, WaitCancelled, Return
<1>2. /\ result' \in Ended /\ shown' \in BOOLEAN /\ result'.cert = shown'
      /\ givenUp \/ result'.cert
  <2>1. CASE Handshake
    <3> DEFINE r == [status |-> IF host[at] = "valid" THEN "healthy" ELSE "error", cert |-> TRUE, address |-> at, retryable |-> FALSE]
    <3>1. result' = r /\ shown' = TRUE
      BY <2>1 DEF Handshake, Return
    <3>2. r \in Ended /\ r.cert
      BY DEF CheckInv, CheckerTypeOK, Ended
    <3> HIDE DEF r
    <3> QED BY <3>1, <3>2
  <2>2. CASE WaitCancelled
    <3>1. result' = last /\ UNCHANGED shown /\ givenUp
      BY <2>2 DEF WaitCancelled, Return
    <3>2. last \in Ended /\ ~last.cert /\ ~shown
      BY <1>1 DEF CheckInv, CheckerTypeOK, ShownInv
    <3>3. last.cert \in BOOLEAN /\ shown \in BOOLEAN
      BY DEF CheckInv, CheckerTypeOK, Ended
    <3> QED BY <3>1, <3>2, <3>3
  <2> QED BY <2>1, <2>2
<1>3. CheckerTypeOK'
  BY <1>0, <1>1, <1>2 DEF CheckInv, CheckerTypeOK
<1>4. TimeInv'
  BY <1>0, <1>1, Bounded DEF TimeInv
<1>5. ExtraInv' /\ ShownInv'
  BY <1>0, <1>1, <1>2 DEF CheckInv, ExtraInv, ShownInv
<1> QED BY <1>3, <1>4, <1>5 DEF CheckInv

LEMMA CheckInvariance == CheckerSpec => []CheckInv
<1>1. CheckInv /\ [CheckerNext]_checkerVars => CheckInv'
  <2>1. CheckInv /\ Go => CheckInv'
    BY BeginCheck, ResolveCheck, FailsCheck, EndCheck DEF Go
  <2>2. CheckInv /\ UNCHANGED checkerVars => CheckInv'
    BY DEF checkerVars, CheckInv, CheckerTypeOK, TimeInv, ExtraInv, ShownInv, Refuses
  <2> QED BY <2>1, <2>2, WorldCheck, TickCheck DEF CheckerNext
<1> QED BY InitCheck, <1>1, PTL DEF CheckerSpec

\* A worker is back in bounded time: a check takes no longer than its attempts and the delays
\* between them, for any settings, and at most one attempt begins after the caller has given
\* up (Check, waitForRetry).
THEOREM CheckAlwaysBackInTime == CheckerSpec => []BackInTime
<1>1. CheckInv => BackInTime
  <2> SUFFICES ASSUME CheckInv PROVE BackInTime
    OBVIOUS
  <2>0. Attempts \in Nat \ {0} /\ elapsed \in Nat /\ Attempts - 1 \in 0..(Attempts - 1) /\ (Attempts - 1) + 1 = Attempts
    BY CheckerAssumption DEF CheckInv, CheckerTypeOK
  <2>1. elapsed <= Spent(Attempts - 1)
    <3>1. CASE pc \in {"start", "done"}
      BY <2>0, <3>1, SpentGrows DEF CheckInv, TimeInv
    <3> QED BY <3>1, Bounded
  <2>2. extra <= 1
    BY DEF CheckInv, CheckerTypeOK
  <2> QED BY <2>0, <2>1, <2>2 DEF BackInTime, Spent
<1> QED BY <1>1, CheckInvariance, PTL

\* What a check says of a host is what the host showed it: a certificate that any attempt was
\* shown is in the result, and while names and hosts keep still a host is reported
\* unreachable only after each of its addresses has refused, for any answer of the resolver
\* the attempts suffice for (Check, checkOnce, resolveAddresses).
THEOREM CheckAlwaysSaysWhatWasShown == CheckerSpec => []SaysWhatWasShown
<1>1. CheckInv => SaysWhatWasShown
  <2> SUFFICES ASSUME CheckInv, pc = "done" PROVE SaysWhatWasShown
    BY DEF SaysWhatWasShown
  <2>1. result.cert = shown
    BY DEF CheckInv, ShownInv
  <2>2. ASSUME steady, ~givenUp, target = NoTarget, ~result.cert, NEW a \in ToSet(records),
               Cardinality(ToSet(records)) <= Attempts
        PROVE  host[a] = "down"
    <3>1. PICK k \in 0..(Attempts - 1) : NextOf(Addresses(records), k) = a
      BY <2>2, EveryAddressTaken DEF CheckInv, CheckerTypeOK
    <3> QED BY <2>2, <3>1 DEF CheckInv, ShownInv, Refuses
  <2> QED BY <2>1, <2>2 DEF SaysWhatWasShown
<1> QED BY <1>1, CheckInvariance, PTL
=============================================================================
