------------------------------ MODULE Accounts ------------------------------
(***************************************************************************)
(* Who has an account: the start of the process (EnsureBootstrap in        *)
(* database/database.go, statement by statement, with crashes between      *)
(* them), and the registrations, profile changes, policies and deletions   *)
(* of tenants it serves until it stops (auth/service.go, notify/service.go,*)
(* httpapi/handlers_admin.go).                                             *)
(*                                                                         *)
(* The database is SQLite, where a transaction that has read before        *)
(* another one committed may no longer write (Serial), or MySQL or         *)
(* PostgreSQL at their default isolation, where it may.  The indexes of    *)
(* users.email and tenants.slug are unique, that of the normalized user    *)
(* name is not.                                                            *)
(***************************************************************************)
EXTENDS Integers, FiniteSets

CONSTANTS
    Request,       \* requests the server may work on at one time
    Name,          \* normalized user names
    Title,         \* slugs of the tenant names people choose
    Mail, NoMail,  \* the administrator's address; none of its own
    Config,        \* settings a start may find: admin's name, address, registration
    Serial,        \* whether transactions are serializable
    MaxUsers, MaxRestarts, MaxEdits,  \* bounds: users registered, stops, edits
    NoRequest

ASSUME AccountsAssumption ==
    /\ Config \subseteq [name : Name, email : {Mail, NoMail}, allow : BOOLEAN]
    /\ Mail # NoMail /\ Serial \in BOOLEAN
    /\ MaxUsers \in Nat /\ MaxRestarts \in Nat /\ MaxEdits \in Nat

VARIABLES
    slug,                  \* tenants: slug by id
    users,                 \* users by id
    policy,                \* default policies: "default" or "edited", by tenant
    registration,          \* the setting allow_registration
    lastTenant, lastUser,  \* the identifiers given out
    boot, conf,            \* where the start is, and the settings it found
    req,                   \* the request each handler works on
    edited,                \* history: tenants that stored a policy of their own
    restarts, edits

tables   == <<slug, users, policy, lastTenant, lastUser>>
counters == <<restarts, edits>>
accountsVars == <<tables, registration, boot, conf, req, edited, counters>>

-----------------------------------------------------------------------------
(* Data *)

Platform == "platform-admin"

\* A table with the row of one id set; a table without some rows.
PutRow(table, id, row) == [i \in DOMAIN table \cup {id} |-> IF i = id THEN row ELSE table[i]]
Without(table, ids) == [i \in DOMAIN table \ ids |-> table[i]]

Named(name)    == {u \in DOMAIN users : users[u].name = name}
Reached(mail)  == {u \in DOMAIN users : users[u].contact = mail}
Admins         == {u \in DOMAIN users : users[u].role = "super_admin"}
Members(t)     == {u \in DOMAIN users : users[u].tenant = t}
PlatformTenant == {t \in DOMAIN slug : slug[t] = <<Platform, 1>>}

\* uniqueTenantSlug: the title itself, or with the first number from 2 that is free.
FreeSlug(title) ==
    LET free == {n \in 1..MaxUsers + 1 : \A t \in DOMAIN slug : slug[t] # <<title, n>>}
    IN  <<title, CHOOSE n \in free : \A k \in free : n <= k>>

\* Login and the reset of a password find the user by name: the first of that name.
Found(name) == CHOOSE u \in Named(name) : \A v \in Named(name) : u <= v

\* GetPolicies: a tenant without a row has the default.
PolicyOf(t) == IF t \in DOMAIN policy THEN policy[t] ELSE "default"

NoWork == [kind |-> "none", stage |-> "idle", name |-> NoRequest, title |-> NoRequest,
         slug |-> NoRequest, user |-> 0, contact |-> NoMail, stale |-> FALSE]
Open(r) == req[r].stage \in {"begun", "ready"}

-----------------------------------------------------------------------------
AccountsInit ==
    /\ slug = <<>> /\ users = <<>> /\ policy = <<>>
    /\ registration \in BOOLEAN
    /\ lastTenant = 0 /\ lastUser = 0
    /\ boot = "down" /\ conf \in Config
    /\ req = [r \in Request |-> NoWork]
    /\ edited = {}
    /\ restarts = 0 /\ edits = 0

-----------------------------------------------------------------------------
(* The start: each statement of EnsureBootstrap commits on its own. *)

AtBoot(at, next) ==
    /\ boot = at /\ boot' = next
    /\ UNCHANGED <<conf, req, edited, counters>>

\* The supervisor starts the process, with the settings of the day.
Start ==
    /\ boot \in {"down", "failed"} /\ boot' = "setting"
    /\ conf' \in Config
    /\ UNCHANGED <<tables, registration, req, edited, counters>>

BootSetting ==
    /\ AtBoot("setting", "lookup")
    /\ registration' = conf.allow
    /\ UNCHANGED tables

\* The name is a super admin's: the address follows the settings and the start is over.
BootFinds ==
    /\ Named(conf.name) # {}
    /\ LET u == Found(conf.name) IN
       IF users[u].role = "super_admin"
       THEN /\ AtBoot("lookup", "up")
            /\ users' = IF conf.email = NoMail THEN users ELSE [users EXCEPT ![u].contact = Mail]
       ELSE AtBoot("lookup", "failed") /\ UNCHANGED users
    /\ UNCHANGED <<slug, policy, lastTenant, lastUser, registration>>

BootFindsNone ==
    /\ Named(conf.name) = {}
    /\ AtBoot("lookup", "tenant")
    /\ UNCHANGED <<tables, registration>>

\* Mutant: the tenant is created, not found or created.
BootTenantCreated ==
    /\ AtBoot("tenant", IF PlatformTenant = {} THEN "admin" ELSE "failed")
    /\ IF PlatformTenant = {}
       THEN slug' = PutRow(slug, lastTenant + 1, <<Platform, 1>>) /\ lastTenant' = lastTenant + 1
       ELSE UNCHANGED <<slug, lastTenant>>
    /\ UNCHANGED <<users, policy, lastUser, registration>>

BootTenant ==
    /\ AtBoot("tenant", "admin")
    /\ IF PlatformTenant = {}
       THEN slug' = PutRow(slug, lastTenant + 1, <<Platform, 1>>) /\ lastTenant' = lastTenant + 1
       ELSE UNCHANGED <<slug, lastTenant>>
    /\ UNCHANGED <<users, policy, lastUser, registration>>

\* The unique index refuses an address that some user was created with.
BootAdmin ==
    /\ IF conf.email = Mail /\ \E u \in DOMAIN users : users[u].email = Mail
       THEN AtBoot("admin", "failed") /\ UNCHANGED <<users, lastUser>>
       ELSE /\ AtBoot("admin", "policy")
            /\ \E t \in PlatformTenant :
                   users' = PutRow(users, lastUser + 1,
                                [tenant |-> t, name |-> conf.name, email |-> conf.email,
                                 contact |-> conf.email, role |-> "super_admin"])
            /\ lastUser' = lastUser + 1
    /\ UNCHANGED <<slug, policy, lastTenant, registration>>

\* Mutant: the policy is assigned, not only created.
BootPolicyAssigned ==
    /\ AtBoot("policy", "up")
    /\ \E t \in PlatformTenant : policy' = PutRow(policy, t, "default")
    /\ UNCHANGED <<slug, users, lastTenant, lastUser, registration>>

BootPolicy ==
    /\ AtBoot("policy", "up")
    /\ \E t \in PlatformTenant : policy' = PutRow(policy, t, PolicyOf(t))
    /\ UNCHANGED <<slug, users, lastTenant, lastUser, registration>>

\* The process ends: transactions that are open are rolled back.
Crash ==
    /\ boot \notin {"down", "failed"} /\ restarts < MaxRestarts
    /\ boot' = "down" /\ restarts' = restarts + 1
    /\ req' = [r \in Request |-> NoWork]
    /\ UNCHANGED <<tables, registration, conf, edited, edits>>

-----------------------------------------------------------------------------
(* Requests *)

\* A request moves on; one that commits leaves the other transactions with an old snapshot.
Step(r, next) == boot = "up" /\ req' = [req EXCEPT ![r] = next]

Commit(r) ==
    /\ boot = "up"
    /\ Serial => ~req[r].stale
    /\ req' = [s \in Request |-> IF s = r THEN NoWork
                                 ELSE IF Open(s) THEN [req[s] EXCEPT !.stale = TRUE] ELSE req[s]]

Aside == <<boot, conf, registration>>

\* Any step may end in an error of the database or of the request's context.
RequestFails(r) ==
    /\ req[r].stage # "idle"
    /\ Step(r, NoWork)
    /\ UNCHANGED <<tables, Aside, edited, counters>>

\* Register, up to its transaction
RegisterAllowed(r, name, title) ==
    /\ req[r] = NoWork /\ registration
    /\ Step(r, [NoWork EXCEPT !.kind = "register", !.stage = "allowed", !.name = name, !.title = title])
    /\ UNCHANGED <<tables, Aside, edited, counters>>

\* Mutant: the name is not looked up.
RegisterUnchecked(r) ==
    /\ req[r].kind = "register" /\ req[r].stage = "allowed"
    /\ Step(r, [req[r] EXCEPT !.stage = "begun"])
    /\ UNCHANGED <<tables, Aside, edited, counters>>

\* ErrConflict, if the name is held
RegisterChecks(r) ==
    /\ req[r].kind = "register" /\ req[r].stage = "allowed"
    /\ Step(r, IF Named(req[r].name) # {} THEN NoWork ELSE [req[r] EXCEPT !.stage = "begun"])
    /\ UNCHANGED <<tables, Aside, edited, counters>>

RegisterNames(r) ==
    /\ req[r].kind = "register" /\ req[r].stage = "begun"
    /\ Step(r, [req[r] EXCEPT !.stage = "ready", !.slug = FreeSlug(req[r].title)])
    /\ UNCHANGED <<tables, Aside, edited, counters>>

\* Tenant, owner and policy in one transaction; the index refuses a slug taken meanwhile (RequestFails).
RegisterCommits(r) ==
    /\ req[r].kind = "register" /\ req[r].stage = "ready"
    /\ lastTenant < MaxUsers
    /\ \A t \in DOMAIN slug : slug[t] # req[r].slug
    /\ Commit(r)
    /\ lastTenant' = lastTenant + 1 /\ lastUser' = lastUser + 1
    /\ slug' = PutRow(slug, lastTenant', req[r].slug)
    /\ users' = PutRow(users, lastUser', [tenant |-> lastTenant', name |-> req[r].name, email |-> NoMail,
                                       contact |-> NoMail, role |-> "tenant_owner"])
    /\ policy' = PutRow(policy, lastTenant', "default")
    /\ UNCHANGED <<Aside, edited, counters>>

\* UpdateProfile: the user, who else has the name, who else has the address
ProfileChecks(r, u, name, contact) ==
    /\ req[r] = NoWork /\ edits < MaxEdits /\ edits' = edits + 1
    /\ Named(name) \subseteq {u}
    /\ contact # NoMail => Reached(contact) \subseteq {u}
    /\ Step(r, [NoWork EXCEPT !.kind = "profile", !.stage = "ready", !.user = u, !.name = name, !.contact = contact])
    /\ UNCHANGED <<tables, Aside, edited, restarts>>

\* The transaction reads the user again at its end and fails if it is gone (RequestFails).
ProfileCommits(r) ==
    LET u == req[r].user IN
    /\ req[r].kind = "profile" /\ u \in DOMAIN users
    /\ Commit(r)
    /\ users' = [users EXCEPT ![u].name = req[r].name, ![u].contact = req[r].contact]
    /\ UNCHANGED <<slug, policy, lastTenant, lastUser, Aside, edited, counters>>

\* requireAuth finds the tenant; UpsertPolicy writes later, whatever became of it.
PolicyAccepted(r, t) ==
    /\ req[r] = NoWork /\ edits < MaxEdits /\ edits' = edits + 1
    /\ Members(t) # {}
    /\ Step(r, [NoWork EXCEPT !.kind = "policy", !.stage = "allowed", !.user = t])
    /\ UNCHANGED <<tables, Aside, edited, restarts>>

PolicyStored(r) ==
    LET t == req[r].user IN
    /\ req[r].kind = "policy"
    /\ Commit(r)
    /\ policy' = PutRow(policy, t, "edited") /\ edited' = edited \cup {t}
    /\ UNCHANGED <<slug, users, lastTenant, lastUser, Aside, counters>>

\* Mutant: the deletion forgets the users.
DeleteKeepsUsers(r, t) ==
    /\ req[r] = NoWork /\ Admins # {}
    /\ \E u \in Members(t) : users[u].role = "tenant_owner"
    /\ Commit(r)
    /\ slug' = Without(slug, {t}) /\ policy' = Without(policy, {t})
    /\ UNCHANGED <<users, lastTenant, lastUser, Aside, edited, counters>>

\* loadManagedTenant asks for an owner; the cascade is one transaction.
DeleteTenant(r, t) ==
    /\ req[r] = NoWork /\ Admins # {}
    /\ \E u \in Members(t) : users[u].role = "tenant_owner"
    /\ Commit(r)
    /\ slug' = Without(slug, {t}) /\ policy' = Without(policy, {t})
    /\ users' = Without(users, Members(t))
    /\ UNCHANGED <<lastTenant, lastUser, Aside, edited, counters>>

-----------------------------------------------------------------------------
Boot == BootSetting \/ BootFinds \/ BootFindsNone \/ BootTenant \/ BootAdmin \/ BootPolicy

Serve ==
    \E r \in Request :
        \/ RequestFails(r) \/ RegisterChecks(r) \/ RegisterNames(r) \/ RegisterCommits(r)
        \/ ProfileCommits(r) \/ PolicyStored(r)
        \/ \E name \in Name, title \in Title : RegisterAllowed(r, name, title)
        \/ \E u \in DOMAIN users, name \in Name, c \in {Mail, NoMail} : ProfileChecks(r, u, name, c)
        \/ \E t \in DOMAIN slug : PolicyAccepted(r, t) \/ DeleteTenant(r, t)

AccountsNext == Start \/ Boot \/ Crash \/ Serve

AccountsSpec == AccountsInit /\ [][AccountsNext]_accountsVars /\ WF_accountsVars(Start) /\ WF_accountsVars(Boot)

-----------------------------------------------------------------------------
(* A user who gives the name they registered or chose is the one Login     *)
(* finds, whatever registrations, profile changes and starts have crossed. *)
(* It takes transactions that are serializable: the index of the name is   *)
(* not unique.                                                             *)
LoginFindsOwnAccount == \A u \in DOMAIN users : Found(users[u].name) = u

(* No account is left in pieces by a crash, an error or a deletion: every  *)
(* user has a tenant, every tenant has users and its policy's row, except  *)
(* the platform's, of which a start that crashed may have written a part.  *)
(* The alerts of a tenant follow the policy its users stored last, or the  *)
(* default if they stored none, even where the start crashed before it     *)
(* wrote the row and never writes it again, or runs again after an edit.   *)
AccountsWhole ==
    /\ \A u \in DOMAIN users : users[u].tenant \in DOMAIN slug
    /\ \A t \in DOMAIN slug \ PlatformTenant : Members(t) # {} /\ t \in DOMAIN policy
    /\ boot = "up" => \E t \in PlatformTenant : Members(t) \cap Admins # {}
    /\ \A t \in DOMAIN slug : (PolicyOf(t) = "edited") <=> t \in edited

(* However often it is interrupted, the process comes up, unless its       *)
(* administrator's name is an owner's, or the administrator created with   *)
(* its address now has another name.                                       *)
NameTaken == \E u \in Named(conf.name) : users[u].role = "tenant_owner"
AddressTaken == conf.email = Mail /\ \E u \in DOMAIN users : users[u].email = Mail /\ users[u].name # conf.name
ComesUp == []<>(boot = "up" \/ NameTaken \/ AddressTaken)
=============================================================================
