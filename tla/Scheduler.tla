------------------------------ MODULE Scheduler ------------------------------
(***************************************************************************)
(* When a domain is checked: the dispatch loop that claims due domains in  *)
(* the database, the workers that check them and write the outcome back,   *)
(* retries with backoff (scheduler/service.go), and what runs against them *)
(* at the same time: manual checks, domains added, switched off and        *)
(* deleted, tenants disabled and deleted (httpapi/handlers_resources.go,   *)
(* httpapi/handlers_admin.go), crashes and restarts.                       *)
(*                                                                         *)
(* Time is a countdown: delay[d] is next_check_at minus the present, in    *)
(* retryBaseInterval ticks, and never below zero; overdue keeps the order  *)
(* of next_check_at among the domains whose time has come.                 *)
(***************************************************************************)
EXTENDS Naturals, SequencesExt, Lists

CONSTANTS
    Domain,        \* domain rows that may ever exist
    Tenant,
    Owner,         \* the tenant of each domain
    Worker,
    Interval,      \* check interval of each domain, in ticks (resolveInterval)
    RetryMax,      \* retryMaxInterval in ticks
    BatchLimit,    \* domains a pass of the loop lists (ScanConcurrency*4)
    Switched,      \* domains whose owners turn checks on and off
    Removed,       \* domains whose owners delete them
    Managed,       \* tenants an administrator disables, enables and deletes
    Requested,     \* domains whose owners ask for manual checks
    FailureCap,    \* bound: consecutive_failures beyond it count as it (same delay)
    MaxLag,        \* bound: ticks a pass of the loop may be behind the clock
    MaxFaults,     \* bound: crashes and database errors in a behaviour
    NoDomain

ASSUME SchedulerAssumption ==
    /\ IsFiniteSet(Domain)
    /\ Owner \in [Domain -> Tenant] /\ Interval \in [Domain -> Nat \ {0}]
    /\ Switched \cup Removed \cup Requested \subseteq Domain /\ Managed \subseteq Tenant
    /\ IsFiniteSet(Worker) /\ Worker # {}
    /\ RetryMax \in Nat \ {0} /\ BatchLimit \in Nat \ {0} /\ FailureCap \in Nat \ {0}
    /\ 2 ^ (FailureCap - 1) >= RetryMax
    /\ MaxLag \in Nat /\ MaxFaults \in Nat
    /\ NoDomain \notin Domain

VARIABLES
    \* the database
    present,       \* absent, present, deleted
    enabled, status, failures, delay,
    asked,         \* history: the enabled flag of the last request that saved the domain
    overdue,       \* present domains whose delay is zero, by next_check_at
    lastResult,    \* newest row of domain_check_results for the domain, or NoResult
    tenantState,   \* active, disabled, deleted
    \* the process
    up, faults,
    jobs,          \* the channel of tasks
    lpc, batch, ldomain,
    dueBefore,     \* domains with next_check_at <= now, for the "now" of the pass
    wpc, wdomain, wfailures

rowVars     == <<present, enabled, asked, status, failures>>
timeVars    == <<delay, overdue>>
loopVars    == <<lpc, batch, ldomain>>
workerVars  == <<wpc, wdomain, wfailures>>
vars == <<rowVars, timeVars, lastResult, tenantState, up, faults, jobs, loopVars, dueBefore, workerVars>>

-----------------------------------------------------------------------------
(* Data *)

NoResult == [status |-> "none", retryable |-> FALSE]

\* What a check finds: a good certificate, an address or connection that failed, or a
\* certificate that is wrong (sslcheck.Result).
Result == {[status |-> "healthy", retryable |-> FALSE],
           [status |-> "error", retryable |-> TRUE],
           [status |-> "error", retryable |-> FALSE]}

Active(d) == present[d] = "present" /\ enabled[d] /\ tenantState[Owner[d]] = "active"

\* The longest overdue domains that are to be checked.
Due == Among(overdue, {d \in Domain : Active(d)})

QueueCap == 2 * Cardinality(Worker)

\* Mutant: doubling without the cap.
RetryIntervalUncapped(f) == 2 ^ (f - 1)

\* Minutes to wait after f failures in a row: 1, 2, 4, ... up to the cap.
RetryInterval(f) ==
    IF f <= 1 THEN 1
    ELSE IF 2 ^ (f - 1) \in 1..RetryMax THEN 2 ^ (f - 1) ELSE RetryMax

\* Mutant: a success does not clear the count.
FailuresAfterSticky(before, result) ==
    IF result.retryable THEN (IF before < FailureCap THEN before + 1 ELSE before) ELSE before

\* scheduleNextCheck: consecutive failures after a result, and the delay that follows.
FailuresAfter(before, result) ==
    IF result.retryable THEN (IF before < FailureCap THEN before + 1 ELSE before) ELSE 0
DelayAfter(d, before, result) ==
    IF result.retryable THEN RetryInterval(FailuresAfter(before, result)) ELSE Interval[d]

\* next_check_at of d becomes n > 0 ticks from now, later than the "now" of any pass.
Reschedule(d, n) ==
    /\ delay' = [delay EXCEPT ![d] = n]
    /\ overdue' = Among(overdue, Domain \ {d})
    /\ dueBefore' = dueBefore \ {d}

\* next_check_at of d becomes a time after the "now" of the pass that has gone by already.
RescheduleLate(d) ==
    LET others == Among(overdue, Domain \ {d}) IN
    /\ \E k \in 1..Len(others) + 1 :
        /\ \A i \in k..Len(others) : others[i] \notin dueBefore
        /\ overdue' = InsertAt(others, k, d)
    /\ dueBefore' = dueBefore \ {d}
    /\ UNCHANGED delay

-----------------------------------------------------------------------------
Init ==
    /\ present \in [Domain -> {"absent", "present"}]
    /\ enabled = [d \in Domain |-> TRUE] /\ asked = enabled
    /\ status = [d \in Domain |-> "pending"]
    /\ failures = [d \in Domain |-> 0]
    /\ delay = [d \in Domain |-> 0]
    /\ overdue \in SetToSeqs({d \in Domain : present[d] = "present"})
    /\ lastResult = [d \in Domain |-> NoResult]
    /\ tenantState = [t \in Tenant |-> "active"]
    /\ up = TRUE /\ faults = 0
    /\ jobs = <<>>
    /\ lpc = "idle" /\ batch = <<>> /\ ldomain = NoDomain /\ dueBefore = {}
    /\ wpc = [w \in Worker |-> "select"]
    /\ wdomain = [w \in Worker |-> NoDomain]
    /\ wfailures = [w \in Worker |-> 0]

Tick ==
    LET coming == {d \in Domain : present[d] = "present" /\ delay[d] = 1} IN
    /\ \E d \in Domain : present[d] = "present" /\ delay[d] > 0
    /\ delay' = [d \in Domain |-> IF present[d] = "present" /\ delay[d] > 0 THEN delay[d] - 1 ELSE delay[d]]
    /\ \E s \in SetToSeqs(coming) : overdue' = overdue \o s
    /\ UNCHANGED <<rowVars, lastResult, tenantState, up, faults, jobs, loopVars, dueBefore, workerVars>>

-----------------------------------------------------------------------------
(* The dispatch loop *)

\* Mutant: no ORDER BY, so the limit may cut the same domains off every time.
LoopListsUnordered ==
    /\ up /\ lpc = "idle"
    /\ Due # <<>>
    /\ \E i \in 1..Len(Due) : batch' = <<Due[i]>>
    /\ dueBefore' = {overdue[i] : i \in 1..Len(overdue)}
    /\ lpc' = "claiming"
    /\ UNCHANGED <<rowVars, timeVars, lastResult, tenantState, up, faults, jobs, ldomain, workerVars>>

\* A pass lists the longest overdue domains that are to be checked.
LoopLists ==
    /\ up /\ lpc = "idle"
    /\ Due # <<>>
    /\ batch' = SubSeq(Due, 1, IF Len(Due) < BatchLimit THEN Len(Due) ELSE BatchLimit)
    /\ dueBefore' = {overdue[i] : i \in 1..Len(overdue)}
    /\ lpc' = "claiming"
    /\ UNCHANGED <<rowVars, timeVars, lastResult, tenantState, up, faults, jobs, ldomain, workerVars>>

AfterBatch(rest) == IF rest = <<>> THEN "idle" ELSE "claiming"

\* UPDATE ... SET next_check_at = now + interval WHERE id = d AND next_check_at <= now
LoopClaims ==
    LET d == Head(batch) IN
    /\ up /\ lpc = "claiming"
    /\ batch' = Tail(batch)
    /\ \/ /\ present[d] = "present" /\ d \in dueBefore
          /\ \E lag \in 0..MaxLag :
                IF lag < Interval[d] THEN Reschedule(d, Interval[d] - lag) ELSE RescheduleLate(d)
          /\ ldomain' = d
          /\ lpc' = "sending"
       \/ /\ ~(present[d] = "present" /\ d \in dueBefore)
          /\ lpc' = AfterBatch(Tail(batch))
          /\ UNCHANGED <<timeVars, dueBefore, ldomain>>
    /\ UNCHANGED <<rowVars, lastResult, tenantState, up, faults, jobs, workerVars>>

\* Mutant: the pass hands a task over without waiting for room.
LoopSendsAlways ==
    /\ up /\ lpc = "sending"
    /\ jobs' = Append(jobs, ldomain)
    /\ ldomain' = NoDomain
    /\ lpc' = AfterBatch(batch)
    /\ UNCHANGED <<rowVars, timeVars, lastResult, tenantState, up, faults, batch, dueBefore, workerVars>>

LoopSends ==
    /\ up /\ lpc = "sending"
    /\ Len(jobs) < QueueCap
    /\ jobs' = Append(jobs, ldomain)
    /\ ldomain' = NoDomain
    /\ lpc' = AfterBatch(batch)
    /\ UNCHANGED <<rowVars, timeVars, lastResult, tenantState, up, faults, batch, dueBefore, workerVars>>

\* A query fails and the pass ends; what was claimed and sent stays so.
LoopFails ==
    /\ up /\ lpc = "claiming"
    /\ faults < MaxFaults /\ faults' = faults + 1
    /\ lpc' = "idle" /\ batch' = <<>>
    /\ UNCHANGED <<rowVars, timeVars, lastResult, tenantState, up, jobs, ldomain, dueBefore, workerVars>>

\* The goroutine of a manual check gets its task into the channel.
ManualSends(d) ==
    /\ up /\ present[d] # "absent"
    /\ Len(jobs) < QueueCap
    /\ jobs' = Append(jobs, d)
    /\ UNCHANGED <<rowVars, timeVars, lastResult, tenantState, up, faults, loopVars, dueBefore, workerVars>>

-----------------------------------------------------------------------------
(* Workers: processDomain *)

Released(w) ==
    /\ wpc' = [wpc EXCEPT ![w] = "select"]
    /\ wdomain' = [wdomain EXCEPT ![w] = NoDomain]
    /\ wfailures' = [wfailures EXCEPT ![w] = 0]

\* Mutant: the enabled flag is not looked at.
WorkerReadsAnyDomain(w) ==
    LET d == Head(jobs) IN
    /\ up /\ wpc[w] = "select" /\ jobs # <<>>
    /\ jobs' = Tail(jobs)
    /\ \/ /\ present[d] = "present"
          /\ wpc' = [wpc EXCEPT ![w] = "tenant"]
          /\ wdomain' = [wdomain EXCEPT ![w] = d]
          /\ wfailures' = [wfailures EXCEPT ![w] = failures[d]]
       \/ present[d] # "present" /\ UNCHANGED workerVars
    /\ UNCHANGED <<rowVars, timeVars, lastResult, tenantState, up, faults, loopVars, dueBefore>>

\* Take a task and read the row; a domain that is gone or switched off ends it.
WorkerReadsDomain(w) ==
    LET d == Head(jobs) IN
    /\ up /\ wpc[w] = "select" /\ jobs # <<>>
    /\ jobs' = Tail(jobs)
    /\ \/ /\ present[d] = "present" /\ enabled[d]
          /\ wpc' = [wpc EXCEPT ![w] = "tenant"]
          /\ wdomain' = [wdomain EXCEPT ![w] = d]
          /\ wfailures' = [wfailures EXCEPT ![w] = failures[d]]
       \/ ~(present[d] = "present" /\ enabled[d]) /\ UNCHANGED workerVars
    /\ UNCHANGED <<rowVars, timeVars, lastResult, tenantState, up, faults, loopVars, dueBefore>>

WorkerReadsTenant(w) ==
    /\ up /\ wpc[w] = "tenant"
    /\ \/ /\ tenantState[Owner[wdomain[w]]] = "active"
          /\ wpc' = [wpc EXCEPT ![w] = "checking"]
          /\ UNCHANGED <<wdomain, wfailures>>
       \/ /\ tenantState[Owner[wdomain[w]]] # "active"
          /\ Released(w)
    /\ UNCHANGED <<rowVars, timeVars, lastResult, tenantState, up, faults, jobs, loopVars, dueBefore>>

\* The update of the row, which matches nothing when the domain has been deleted.
WriteRow(d, before, result) ==
    \/ /\ present[d] = "present"
       /\ status' = [status EXCEPT ![d] = result.status]
       /\ failures' = [failures EXCEPT ![d] = FailuresAfter(before, result)]
       /\ Reschedule(d, DelayAfter(d, before, result))
       /\ UNCHANGED <<present, enabled, asked>>
    \/ /\ present[d] # "present"
       /\ UNCHANGED <<rowVars, timeVars, dueBefore>>

\* The check ends and one transaction stores its result and updates the row, with the
\* failures the worker read before the check.
WorkerRecords(w, result) ==
    /\ up /\ wpc[w] = "checking"
    /\ lastResult' = [lastResult EXCEPT ![wdomain[w]] = result]
    /\ WriteRow(wdomain[w], wfailures[w], result)
    /\ Released(w)
    /\ UNCHANGED <<tenantState, up, faults, jobs, loopVars>>

\* The transaction, or a read before it, fails and is rolled back.
WorkerFails(w) ==
    /\ up /\ wpc[w] # "select"
    /\ faults < MaxFaults /\ faults' = faults + 1
    /\ Released(w)
    /\ UNCHANGED <<rowVars, timeVars, lastResult, tenantState, up, jobs, loopVars, dueBefore>>

-----------------------------------------------------------------------------
(* The process ends and starts; everything but the database is lost. *)

Crash ==
    /\ up /\ faults < MaxFaults
    /\ up' = FALSE /\ faults' = faults + 1
    /\ jobs' = <<>>
    /\ lpc' = "idle" /\ batch' = <<>> /\ ldomain' = NoDomain /\ dueBefore' = {}
    /\ wpc' = [w \in Worker |-> "select"]
    /\ wdomain' = [w \in Worker |-> NoDomain]
    /\ wfailures' = [w \in Worker |-> 0]
    /\ UNCHANGED <<rowVars, timeVars, lastResult, tenantState>>

Restart ==
    /\ ~up /\ up' = TRUE
    /\ UNCHANGED <<rowVars, timeVars, lastResult, tenantState, faults, jobs, loopVars, dueBefore, workerVars>>

-----------------------------------------------------------------------------
(* The HTTP handlers *)

\* handleUpsertDomain without an identifier: due at once. Enabled has the column default
\* true, so gorm's Create takes the zero value FALSE for "not given" and stores TRUE.
CreateDomain(d) ==
    /\ up /\ present[d] = "absent" /\ tenantState[Owner[d]] = "active"
    /\ present' = [present EXCEPT ![d] = "present"]
    /\ enabled' = [enabled EXCEPT ![d] = TRUE]
    /\ \E want \in BOOLEAN : asked' = [asked EXCEPT ![d] = want]
    /\ overdue' = Append(overdue, d)
    /\ UNCHANGED <<status, failures, delay, lastResult, tenantState, up, faults, jobs, loopVars, dueBefore, workerVars>>

\* handleUpsertDomain with an identifier: next_check_at, status and failures stay.
SwitchDomain(d) ==
    /\ up /\ present[d] = "present" /\ tenantState[Owner[d]] = "active"
    /\ \E want \in BOOLEAN :
        /\ enabled' = [enabled EXCEPT ![d] = want]
        /\ asked' = [asked EXCEPT ![d] = want]
    /\ UNCHANGED <<present, status, failures, timeVars, lastResult, tenantState, up, faults, jobs, loopVars, dueBefore, workerVars>>

\* deleteDomain leaves the check results.
DeleteDomain(d) ==
    /\ up /\ present[d] = "present" /\ tenantState[Owner[d]] = "active"
    /\ present' = [present EXCEPT ![d] = "deleted"]
    /\ overdue' = Among(overdue, Domain \ {d})
    /\ dueBefore' = dueBefore \ {d}
    /\ UNCHANGED <<enabled, asked, status, failures, delay, lastResult, tenantState, up, faults, jobs, loopVars, workerVars>>

SetTenantDisabled(t) ==
    /\ up /\ tenantState[t] # "deleted"
    /\ tenantState' = [tenantState EXCEPT ![t] = IF @ = "active" THEN "disabled" ELSE "active"]
    /\ UNCHANGED <<rowVars, timeVars, lastResult, up, faults, jobs, loopVars, dueBefore, workerVars>>

\* deleteTenantCascade deletes the results of the domains the tenant still has.
DeleteTenant(t) ==
    LET gone == {d \in Domain : Owner[d] = t /\ present[d] = "present"} IN
    /\ up /\ tenantState[t] # "deleted"
    /\ tenantState' = [tenantState EXCEPT ![t] = "deleted"]
    /\ lastResult' = [d \in Domain |-> IF d \in gone THEN NoResult ELSE lastResult[d]]
    /\ present' = [d \in Domain |-> IF d \in gone THEN "deleted" ELSE present[d]]
    /\ overdue' = Among(overdue, Domain \ gone)
    /\ dueBefore' = dueBefore \ gone
    /\ UNCHANGED <<enabled, asked, status, failures, delay, up, faults, jobs, loopVars, workerVars>>

-----------------------------------------------------------------------------
WorkerStep(w) == WorkerReadsDomain(w) \/ WorkerReadsTenant(w) \/ \E r \in Result : WorkerRecords(w, r)

Next ==
    \/ Tick
    \/ LoopLists \/ LoopClaims \/ LoopSends \/ LoopFails
    \/ \E w \in Worker : WorkerStep(w) \/ WorkerFails(w)
    \/ Crash \/ Restart
    \/ \E d \in Domain : CreateDomain(d)
    \/ \E d \in Switched : SwitchDomain(d)
    \/ \E d \in Removed : DeleteDomain(d)
    \/ \E d \in Requested : ManualSends(d)
    \/ \E t \in Managed : SetTenantDisabled(t) \/ DeleteTenant(t)

Spec == Init /\ [][Next]_vars

\* The clock runs, the ticker fires, checks end (timeouts), a sender blocked on the channel
\* is served in turn, and the process is restarted.
Fairness ==
    /\ WF_vars(Tick) /\ WF_vars(Restart)
    /\ WF_vars(LoopLists) /\ WF_vars(LoopClaims) /\ SF_vars(LoopSends)
    /\ \A w \in Worker : WF_vars(WorkerStep(w))

FairSpec == Spec /\ Fairness

-----------------------------------------------------------------------------
(* Properties *)

Longest(d) == IF Interval[d] > RetryMax THEN Interval[d] ELSE RetryMax

TypeOK ==
    /\ present \in [Domain -> {"absent", "present", "deleted"}]
    /\ enabled \in [Domain -> BOOLEAN] /\ asked \in [Domain -> BOOLEAN]
    /\ status \in [Domain -> {"pending", "healthy", "error"}]
    /\ failures \in [Domain -> 0..FailureCap]
    /\ delay \in [Domain -> Nat]
    /\ overdue \in Seq(Domain)
    /\ \A d \in Domain : Cardinality({i \in 1..Len(overdue) : overdue[i] = d})
                            = IF present[d] = "present" /\ delay[d] = 0 THEN 1 ELSE 0
    /\ lastResult \in [Domain -> Result \cup {NoResult}]
    /\ tenantState \in [Tenant -> {"active", "disabled", "deleted"}]
    /\ up \in BOOLEAN /\ faults \in 0..MaxFaults
    /\ jobs \in Seq(Domain) /\ Len(jobs) <= QueueCap
    /\ lpc \in {"idle", "claiming", "sending"}
    /\ batch \in Seq(Domain) /\ Len(batch) <= BatchLimit /\ (lpc = "claiming" => batch # <<>>)
    /\ ldomain \in Domain \cup {NoDomain} /\ (lpc = "sending" <=> ldomain # NoDomain)
    /\ dueBefore \subseteq Domain
    /\ wpc \in [Worker -> {"select", "tenant", "checking"}]
    /\ wdomain \in [Worker -> Domain \cup {NoDomain}]
    /\ wfailures \in [Worker -> 0..FailureCap]

\* The row of a domain always tells what its newest check result tells, whatever workers,
\* edits and crashes come between: same status, and failures are counted exactly when that
\* result is one to retry (the transaction in processDomain).
RowMatchesHistory ==
    \A d \in Domain : present[d] = "present" =>
        /\ status[d] = IF lastResult[d] = NoResult THEN "pending" ELSE lastResult[d].status
        /\ failures[d] > 0 <=> lastResult[d].retryable

\* No claim, retry or stale write ever puts a domain further away than its own interval or
\* the longest backoff (claim, scheduleNextCheck, retryInterval).
NeverPutOffTooFar ==
    \A d \in Domain : delay[d] <= Longest(d)

\* A domain that is to be checked keeps being checked, through crashes after a claim,
\* failed queries, full channels, a limited batch and other domains that are always due.
KeepsBeingChecked ==
    \A d \in Domain :
        \/ []<>~Active(d)
        \/ []<><<\E w \in Worker : wdomain[w] = d /\ \E r \in Result : WorkerRecords(w, r)>>_vars

\* Once a domain stays switched off, its checks stop for good, even manual ones.
SwitchedOffGoesQuiet ==
    \A d \in Domain :
        <>[](present[d] = "present" /\ ~enabled[d]) => <>[](\A w \in Worker : wdomain[w] # d)

\* What the settings say of deleting a tenant, that it "also removes its domains,
\* notification endpoints, and monitoring history" (i18n.tsx), of deleteTenantCascade.
HistoryGoneWithTenant ==
    \A d \in Domain : tenantState[Owner[d]] = "deleted" => lastResult[d] = NoResult

\* A domain is stored switched on or off as its owner last asked: the "disabled.example.com"
\* that server_test.go creates with "enabled": false (handleUpsertDomain).
StoredAsAsked ==
    \A d \in Domain : present[d] = "present" => enabled[d] = asked[d]
=============================================================================
