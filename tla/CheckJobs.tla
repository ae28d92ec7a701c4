------------------------------ MODULE CheckJobs ------------------------------
(***************************************************************************)
(* The scheduler's worker pool and the check jobs that run on it           *)
(* (scheduler/service.go, scheduler/check_jobs.go, app/app.go).            *)
(*                                                                         *)
(* A manual check becomes a job: a goroutine of its own pushes one task    *)
(* per target into the bounded channel "jobs", which it shares with the    *)
(* dispatch loop and the other jobs, and then collects one outcome per     *)
(* target from a channel of its own.  Workers append "domain.started" to   *)
(* the job's event log, the job's goroutine appends everything else.       *)
(* Cancelling the run context (shutdown, or a panic in the pool) ends the  *)
(* workers, the loop and every job at whatever point they have reached.    *)
(*                                                                         *)
(* What processDomain does to the database is left out: here a check only  *)
(* yields one of the outcomes a job can tell apart.                        *)
(***************************************************************************)
EXTENDS Naturals, Sequences, FiniteSets

CONSTANTS
    Job,          \* check job identifiers
    Domain,       \* domain identifiers
    Tenant,       \* tenants that start jobs
    Worker,       \* ScanConcurrency goroutines
    TargetLists,  \* target lists the check handlers may submit
    Scheduled,    \* domains the dispatch loop may find due
    NoJob,        \* the job of a task the dispatch loop submits
    NoDomain,     \* the domain of an outcome that is only an error
    NoTenant      \* the tenant of a job not started yet

ASSUME WorkerAssumption == IsFiniteSet(Worker) /\ Worker # {}
\* The handlers list rows of the domains table: no identifier occurs twice.
ASSUME TargetAssumption ==
    /\ Scheduled \subseteq Domain
    /\ TargetLists \subseteq Seq(Domain)
    /\ \A ts \in TargetLists : \A a, b \in 1..Len(ts) : ts[a] = ts[b] => a = b
ASSUME NoneAssumption == NoJob \notin Job /\ NoDomain \notin Domain /\ NoTenant \notin Tenant

VARIABLES
    \* the service
    runCtx,       \* nil before Start, then live, then cancelled
    jobs,         \* the bounded channel of tasks
    stop,         \* progress of Service.Stop: no, waiting, stopped
    failure,      \* errCh: TRUE once reportPanic has posted its one error
    checkJobs,    \* identifiers of the jobs in the service's map
    \* the workers and the dispatch loop
    wpc, wtask, lpc, ldomain,
    \* the goroutine of each job: program counter and loop index; its results channel
    rpc, index, results,
    \* the fields of each job
    tenantID, targets, completed, succeeded, failed, done, events, signal

serviceVars == <<runCtx, jobs, stop, failure, checkJobs>>
workerVars  == <<wpc, wtask>>
loopVars    == <<lpc, ldomain>>
runnerVars  == <<rpc, index, results>>
counterVars == <<completed, succeeded, failed, done>>
jobVars     == <<tenantID, targets, counterVars, events, signal>>
vars == <<serviceVars, workerVars, loopVars, runnerVars, jobVars>>

-----------------------------------------------------------------------------
(* Data *)

Task == [job : Job \cup {NoJob}, domain : Domain]

\* A domain's status is "healthy" or not: "error" also stands for "pending".
DomainStatus == {"healthy", "error"}

\* What processDomain returns: the domain read back, or only an error.
Outcomes(d) == {[domain |-> d, status |-> s] : s \in DomainStatus}
                 \cup {[domain |-> NoDomain, status |-> "error"]}
Outcome == [domain : Domain \cup {NoDomain}, status : DomainStatus]

NoTask == [job |-> NoJob, domain |-> NoDomain]

EventType == {"job.started", "domain.started", "domain.completed", "job.completed"}
EventStatus == DomainStatus \cup {"running", "completed", "partial", "failed"}
Event == [id : Nat, type : EventType, domain : Domain \cup {NoDomain}, status : EventStatus,
          completed : Nat, succeeded : Nat, failed : Nat]

Total(j) == Len(targets[j])

\* make(chan scanTask, ScanConcurrency*2)
QueueCap == 2 * Cardinality(Worker)

\* Mutant: room for one outcome only.
ResultsCapOne(j) == 1

\* make(chan scanOutcome, len(targets))
ResultsCap(j) == Total(j)

-----------------------------------------------------------------------------
(* The check job: its event log and counters.  Each of these runs under job.mu, *)
(* so each is one step; an event carries the counters as they are after it.     *)

\* Mutants: identifiers count from zero; the signal of waiting streams is not closed.
AppendEventFromZero(j, type, d, status) ==
    /\ events' = [events EXCEPT ![j] = Append(@,
            [id |-> Len(@), type |-> type, domain |-> d, status |-> status,
             completed |-> completed'[j], succeeded |-> succeeded'[j], failed |-> failed'[j]])]
    /\ signal' = [signal EXCEPT ![j] = @ + 1]
AppendEventSilently(j, type, d, status) ==
    /\ events' = [events EXCEPT ![j] = Append(@,
            [id |-> Len(@) + 1, type |-> type, domain |-> d, status |-> status,
             completed |-> completed'[j], succeeded |-> succeeded'[j], failed |-> failed'[j]])]
    /\ UNCHANGED signal

AppendEvent(j, type, d, status) ==
    /\ events' = [events EXCEPT ![j] = Append(@,
            [id |-> Len(@) + 1, type |-> type, domain |-> d, status |-> status,
             completed |-> completed'[j], succeeded |-> succeeded'[j], failed |-> failed'[j]])]
    /\ signal' = [signal EXCEPT ![j] = @ + 1]    \* close the signal, make the next one

CompleteDomain(j, outcome) ==
    /\ completed' = [completed EXCEPT ![j] = @ + 1]
    /\ \/ /\ outcome.status = "healthy"
          /\ succeeded' = [succeeded EXCEPT ![j] = @ + 1]
          /\ UNCHANGED failed
       \/ /\ outcome.status # "healthy"
          /\ failed' = [failed EXCEPT ![j] = @ + 1]
          /\ UNCHANGED succeeded
    /\ UNCHANGED done
    /\ AppendEvent(j, "domain.completed", outcome.domain, outcome.status)

\* Mutant: any failure is looked at before all failures.
VerdictPartialFirst(j) == IF failed[j] > 0 THEN "partial" ELSE "completed"

Verdict(j) ==
    CASE failed[j] = Total(j) -> "failed"
      [] failed[j] > 0 /\ failed[j] # Total(j) -> "partial"
      [] OTHER -> "completed"

Finish(j) ==
    \/ done[j] /\ UNCHANGED <<counterVars, events, signal>>
    \/ /\ ~done[j]
       /\ done' = [done EXCEPT ![j] = TRUE]
       /\ UNCHANGED <<completed, succeeded, failed>>
       /\ AppendEvent(j, "job.completed", NoDomain, Verdict(j))

\* Mutant: the targets left are not counted as failed.
FinishInterruptedUncounted(j) ==
    \/ done[j] /\ UNCHANGED <<counterVars, events, signal>>
    \/ /\ ~done[j]
       /\ completed' = [completed EXCEPT ![j] = Total(j)]
       /\ done' = [done EXCEPT ![j] = TRUE]
       /\ UNCHANGED <<succeeded, failed>>
       /\ AppendEvent(j, "job.completed", NoDomain, "failed")

FinishInterrupted(j) ==
    \/ done[j] /\ UNCHANGED <<counterVars, events, signal>>
    \/ /\ ~done[j]
       /\ failed' = [failed EXCEPT ![j] = @ + (Total(j) - completed[j])]
       /\ completed' = [completed EXCEPT ![j] = Total(j)]
       /\ done' = [done EXCEPT ![j] = TRUE]
       /\ UNCHANGED succeeded
       /\ AppendEvent(j, "job.completed", NoDomain, "failed")

-----------------------------------------------------------------------------
Init ==
    /\ runCtx = "nil" /\ jobs = <<>> /\ stop = "no" /\ failure = FALSE /\ checkJobs = {}
    /\ wpc = [w \in Worker |-> "down"]
    /\ wtask = [w \in Worker |-> NoTask]
    /\ lpc = "down" /\ ldomain = NoDomain
    /\ rpc = [j \in Job |-> "none"]
    /\ index = [j \in Job |-> 0]
    /\ results = [j \in Job |-> <<>>]
    /\ tenantID = [j \in Job |-> NoTenant]
    /\ targets = [j \in Job |-> <<>>]
    /\ completed = [j \in Job |-> 0]
    /\ succeeded = [j \in Job |-> 0]
    /\ failed = [j \in Job |-> 0]
    /\ done = [j \in Job |-> FALSE]
    /\ events = [j \in Job |-> <<>>]
    /\ signal = [j \in Job |-> 0]

(* The service *)

Start ==
    /\ runCtx = "nil"
    /\ runCtx' = "live"
    /\ wpc' = [w \in Worker |-> "select"]
    /\ lpc' = "idle"
    /\ UNCHANGED <<jobs, stop, failure, checkJobs, wtask, ldomain, runnerVars, jobVars>>

\* The context given to Start is cancelled (SIGTERM, SIGINT).
CancelParent ==
    /\ runCtx = "live"
    /\ runCtx' = "cancelled"
    /\ UNCHANGED <<jobs, stop, failure, checkJobs, workerVars, loopVars, runnerVars, jobVars>>

\* App.Run has left its select: the context is done, errCh has an error, or the
\* HTTP server has ended.  Stop cancels and then waits for the two wait groups.
Stop ==
    /\ runCtx # "nil" /\ stop = "no"
    /\ runCtx' = "cancelled"
    /\ stop' = "waiting"
    /\ UNCHANGED <<jobs, failure, checkJobs, workerVars, loopVars, runnerVars, jobVars>>

\* Mutant: Stop waits for the loop only.
StopReturnsBeforeWorkers ==
    /\ stop = "waiting"
    /\ lpc \in {"panicked", "exited"}
    /\ stop' = "stopped"
    /\ UNCHANGED <<runCtx, jobs, failure, checkJobs, workerVars, loopVars, runnerVars, jobVars>>

StopReturns ==
    /\ stop = "waiting"
    /\ lpc \in {"panicked", "exited"}
    /\ \A w \in Worker : wpc[w] \in {"panicked", "exited"}
    /\ stop' = "stopped"
    /\ UNCHANGED <<runCtx, jobs, failure, checkJobs, workerVars, loopVars, runnerVars, jobVars>>

\* Mutant: a panic is recovered and forgotten.
ReportPanicNowhere == UNCHANGED <<runCtx, failure, jobs, stop, checkJobs>>

\* failureOnce: the first panic cancels the run context and posts the error.
ReportPanic ==
    /\ failure' = TRUE
    /\ runCtx' = IF failure THEN runCtx ELSE "cancelled"
    /\ UNCHANGED <<jobs, stop, checkJobs>>

-----------------------------------------------------------------------------
(* Jobs *)

StartCheckJob(j, t, ts) ==
    /\ rpc[j] = "none"               \* newCheckJobID: an identifier not in use
    /\ ts # <<>>                     \* ErrNoCheckTargets
    /\ runCtx = "live"               \* ErrSchedulerNotRunning
    /\ tenantID' = [tenantID EXCEPT ![j] = t]
    /\ targets' = [targets EXCEPT ![j] = ts]
    /\ UNCHANGED counterVars
    /\ AppendEvent(j, "job.started", NoDomain, "running")
    /\ checkJobs' = checkJobs \cup {j}
    /\ rpc' = [rpc EXCEPT ![j] = "enqueue"]
    /\ index' = [index EXCEPT ![j] = 1]
    /\ UNCHANGED <<runCtx, jobs, stop, failure, results, workerVars, loopVars>>

\* jobs <- task for the next target; after the last one the goroutine starts collecting.
RunnerEnqueue(j) ==
    /\ rpc[j] = "enqueue"
    /\ Len(jobs) < QueueCap
    /\ jobs' = Append(jobs, [job |-> j, domain |-> targets[j][index[j]]])
    /\ \/ /\ index[j] < Total(j)
          /\ index' = [index EXCEPT ![j] = @ + 1]
          /\ UNCHANGED rpc
       \/ /\ index[j] = Total(j)
          /\ index' = [index EXCEPT ![j] = 1]
          /\ rpc' = [rpc EXCEPT ![j] = "collect"]
    /\ UNCHANGED <<runCtx, stop, failure, checkJobs, results, workerVars, loopVars, jobVars>>

RunnerCollect(j) ==
    /\ rpc[j] = "collect"
    /\ results[j] # <<>>
    /\ results' = [results EXCEPT ![j] = Tail(@)]
    /\ CompleteDomain(j, Head(results[j]))
    /\ \/ /\ index[j] < Total(j)
          /\ index' = [index EXCEPT ![j] = @ + 1]
          /\ UNCHANGED rpc
       \/ /\ index[j] = Total(j)
          /\ rpc' = [rpc EXCEPT ![j] = "finish"]
          /\ UNCHANGED index
    /\ UNCHANGED <<serviceVars, workerVars, loopVars, tenantID, targets>>

RunnerFinish(j) ==
    /\ rpc[j] = "finish"
    /\ Finish(j)
    /\ rpc' = [rpc EXCEPT ![j] = "exited"]
    /\ UNCHANGED <<serviceVars, workerVars, loopVars, index, results, tenantID, targets>>

\* Mutants: no return after finishInterrupted; a return without it.
RunnerInterruptedGoesOn(j) ==
    /\ rpc[j] \in {"enqueue", "collect"}
    /\ runCtx = "cancelled" /\ ~done[j]
    /\ FinishInterrupted(j)
    /\ UNCHANGED <<serviceVars, workerVars, loopVars, runnerVars, tenantID, targets>>
RunnerInterruptedSilently(j) ==
    /\ rpc[j] \in {"enqueue", "collect"}
    /\ runCtx = "cancelled"
    /\ rpc' = [rpc EXCEPT ![j] = "exited"]
    /\ UNCHANGED <<serviceVars, workerVars, loopVars, index, results, jobVars>>

\* The select of either loop takes ctx.Done().
RunnerInterrupted(j) ==
    /\ rpc[j] \in {"enqueue", "collect"}
    /\ runCtx = "cancelled"
    /\ FinishInterrupted(j)
    /\ rpc' = [rpc EXCEPT ![j] = "exited"]
    /\ UNCHANGED <<serviceVars, workerVars, loopVars, index, results, tenantID, targets>>

\* The timer that runCheckJob's defer sets; checkJobRetention is any delay here.
ExpireCheckJob(j) ==
    /\ rpc[j] = "exited"
    /\ j \in checkJobs
    /\ checkJobs' = checkJobs \ {j}
    /\ UNCHANGED <<runCtx, jobs, stop, failure, workerVars, loopVars, runnerVars, jobVars>>

-----------------------------------------------------------------------------
(* Workers *)

WorkerReceive(w) ==
    /\ wpc[w] = "select"
    /\ jobs # <<>>
    /\ wtask' = [wtask EXCEPT ![w] = Head(jobs)]
    /\ jobs' = Tail(jobs)
    /\ wpc' = [wpc EXCEPT ![w] = "starting"]
    /\ UNCHANGED <<runCtx, stop, failure, checkJobs, loopVars, runnerVars, jobVars>>

\* Mutant: onStart captures the loop's variable, so it names the last target.
WorkerStartsLastTarget(w) ==
    /\ wpc[w] = "starting"
    /\ LET j == wtask[w].job IN
        IF j \in Job
        THEN UNCHANGED counterVars /\ AppendEvent(j, "domain.started", targets[j][Total(j)], "running")
        ELSE UNCHANGED <<counterVars, events, signal>>
    /\ wpc' = [wpc EXCEPT ![w] = "checking"]
    /\ UNCHANGED <<serviceVars, wtask, loopVars, runnerVars, tenantID, targets>>

\* onStart, which only the tasks of check jobs have.
WorkerStarts(w) ==
    /\ wpc[w] = "starting"
    /\ \/ /\ wtask[w].job \in Job
          /\ UNCHANGED counterVars
          /\ AppendEvent(wtask[w].job, "domain.started", wtask[w].domain, "running")
       \/ /\ wtask[w].job = NoJob
          /\ UNCHANGED <<counterVars, events, signal>>
    /\ wpc' = [wpc EXCEPT ![w] = "checking"]
    /\ UNCHANGED <<serviceVars, wtask, loopVars, runnerVars, tenantID, targets>>

\* Mutant: an error is logged and no outcome is sent for it.
WorkerFinishesSkippingErrors(w) ==
    /\ wpc[w] = "checking"
    /\ \/ /\ wtask[w].job \in Job
          /\ \E outcome \in Outcomes(wtask[w].domain) :
                results' = [results EXCEPT ![wtask[w].job] = Append(@, outcome)]
       \/ UNCHANGED results
    /\ wpc' = [wpc EXCEPT ![w] = "select"]
    /\ wtask' = [wtask EXCEPT ![w] = NoTask]
    /\ UNCHANGED <<serviceVars, loopVars, rpc, index, jobVars>>

\* processDomain, then task.result <- outcome unless the task has no result channel: what
\* happens between is the worker's own, so the outcome is chosen when it is sent.
WorkerFinishes(w) ==
    /\ wpc[w] = "checking"
    /\ \/ /\ wtask[w].job \in Job
          /\ Len(results[wtask[w].job]) < ResultsCap(wtask[w].job)
          /\ \E outcome \in Outcomes(wtask[w].domain) :
                results' = [results EXCEPT ![wtask[w].job] = Append(@, outcome)]
       \/ /\ wtask[w].job = NoJob
          /\ UNCHANGED results
    /\ wpc' = [wpc EXCEPT ![w] = "select"]
    /\ wtask' = [wtask EXCEPT ![w] = NoTask]
    /\ UNCHANGED <<serviceVars, loopVars, rpc, index, jobVars>>

WorkerExits(w) ==
    /\ wpc[w] = "select"
    /\ runCtx = "cancelled"
    /\ wpc' = [wpc EXCEPT ![w] = "exited"]
    /\ UNCHANGED <<serviceVars, wtask, loopVars, runnerVars, jobVars>>

\* workerGroup.Done runs before the recover that reports the panic.
WorkerPanics(w) ==
    /\ wpc[w] = "checking"
    /\ wpc' = [wpc EXCEPT ![w] = "panicked"]
    /\ wtask' = [wtask EXCEPT ![w] = NoTask]
    /\ UNCHANGED <<serviceVars, loopVars, runnerVars, jobVars>>

WorkerReports(w) ==
    /\ wpc[w] = "panicked"
    /\ ReportPanic
    /\ wpc' = [wpc EXCEPT ![w] = "exited"]
    /\ UNCHANGED <<wtask, loopVars, runnerVars, jobVars>>

-----------------------------------------------------------------------------
(* The dispatch loop *)

\* A due domain has been claimed; with a cancelled context the query fails.
LoopClaims(d) ==
    /\ lpc = "idle"
    /\ runCtx = "live"
    /\ lpc' = "sending"
    /\ ldomain' = d
    /\ UNCHANGED <<serviceVars, workerVars, runnerVars, jobVars>>

LoopSends ==
    /\ lpc = "sending"
    /\ Len(jobs) < QueueCap
    /\ jobs' = Append(jobs, [job |-> NoJob, domain |-> ldomain])
    /\ lpc' = "idle"
    /\ ldomain' = NoDomain
    /\ UNCHANGED <<runCtx, stop, failure, checkJobs, workerVars, runnerVars, jobVars>>

LoopExits ==
    /\ lpc \in {"idle", "sending"}
    /\ runCtx = "cancelled"
    /\ lpc' = "exited"
    /\ ldomain' = NoDomain
    /\ UNCHANGED <<serviceVars, workerVars, runnerVars, jobVars>>

LoopPanics ==
    /\ lpc = "idle"
    /\ lpc' = "panicked"
    /\ UNCHANGED <<serviceVars, workerVars, ldomain, runnerVars, jobVars>>

LoopReports ==
    /\ lpc = "panicked"
    /\ ReportPanic
    /\ lpc' = "exited"
    /\ UNCHANGED <<workerVars, ldomain, runnerVars, jobVars>>

-----------------------------------------------------------------------------
JobStep(j) == RunnerEnqueue(j) \/ RunnerCollect(j) \/ RunnerFinish(j) \/ RunnerInterrupted(j)
WorkerStep(w) == \/ WorkerReceive(w) \/ WorkerStarts(w) \/ WorkerFinishes(w)
                 \/ WorkerExits(w) \/ WorkerReports(w)
LoopStep == LoopSends \/ LoopExits \/ LoopReports

Next ==
    \/ Start \/ CancelParent \/ Stop \/ StopReturns
    \/ \E j \in Job, t \in Tenant, ts \in TargetLists : StartCheckJob(j, t, ts)
    \/ \E j \in Job : JobStep(j) \/ ExpireCheckJob(j)
    \/ \E w \in Worker : WorkerStep(w) \/ WorkerPanics(w)
    \/ \E d \in Scheduled : LoopClaims(d)
    \/ LoopStep \/ LoopPanics

Spec == Init /\ [][Next]_vars

(***************************************************************************)
(* Fairness.  Goroutines keep running, checks and notifications are bound  *)
(* by timeouts, and App.Run calls Stop once the context is done or errCh   *)
(* has an error.  Senders blocked on a full channel are served in the      *)
(* order they arrived (the runtime queues them), so a sender that could    *)
(* send again and again does: strong fairness.  Nothing is assumed of      *)
(* requests, panics, cancellation, retention timers or due domains.        *)
(***************************************************************************)
Fairness ==
    /\ \A j \in Job : SF_vars(RunnerEnqueue(j)) /\ WF_vars(JobStep(j))
    /\ \A w \in Worker : WF_vars(WorkerStep(w))
    /\ SF_vars(LoopSends) /\ WF_vars(LoopStep)
    /\ WF_vars(runCtx = "cancelled" /\ Stop)
    /\ WF_vars(StopReturns)

FairSpec == Spec /\ Fairness

-----------------------------------------------------------------------------
(* Properties *)

TypeOK ==
    /\ runCtx \in {"nil", "live", "cancelled"}
    /\ jobs \in Seq(Task) /\ Len(jobs) <= QueueCap
    /\ stop \in {"no", "waiting", "stopped"}
    /\ failure \in BOOLEAN
    /\ checkJobs \subseteq Job
    /\ wpc \in [Worker -> {"down", "select", "starting", "checking", "panicked", "exited"}]
    /\ wtask \in [Worker -> Task \cup {NoTask}]
    /\ lpc \in {"down", "idle", "sending", "panicked", "exited"}
    /\ ldomain \in Domain \cup {NoDomain}
    /\ rpc \in [Job -> {"none", "enqueue", "collect", "finish", "exited"}]
    /\ index \in [Job -> Nat]
    /\ results \in [Job -> Seq(Outcome)]
    /\ tenantID \in [Job -> Tenant \cup {NoTenant}]
    /\ targets \in [Job -> TargetLists \cup {<<>>}]
    /\ completed \in [Job -> Nat] /\ succeeded \in [Job -> Nat] /\ failed \in [Job -> Nat]
    /\ done \in [Job -> BOOLEAN]
    /\ events \in [Job -> Seq(Event)]
    /\ signal \in [Job -> Nat]

\* The counters of a job always add up, never exceed its targets, and cover all of them
\* once the job is done, even when it was interrupted (completeDomain, finishInterrupted).
CountersAgree ==
    \A j \in Job :
        /\ completed[j] = succeeded[j] + failed[j]
        /\ completed[j] <= Total(j)
        /\ done[j] => completed[j] = Total(j)

Occurrences(j, type, n) == Cardinality({i \in 1..n : events[j][i].type = type})

\* A job is done exactly when its log has its one job.completed; what follows it can only
\* be the domain.started of a task a worker still took, and its status and counters are the
\* job's for good (finish, finishInterrupted, onStart).
OneVerdict ==
    \A j \in Job :
        /\ Occurrences(j, "job.completed", Len(events[j])) = IF done[j] THEN 1 ELSE 0
        /\ \A i \in 1..Len(events[j]) : events[j][i].type = "job.completed" =>
            LET last == events[j][i] IN
            /\ \A k \in (i + 1)..Len(events[j]) : events[j][k].type = "domain.started"
            /\ last.completed = Total(j) /\ last.succeeded + last.failed = Total(j)
            /\ last.status = "completed" => last.failed = 0
            /\ last.status = "partial" => last.failed \in 1..(Total(j) - 1)
            /\ last.failed = Total(j) => last.status = "failed"

\* Event identifiers are the positions in the log, as Last-Event-ID resumption needs, and
\* the progress an event shows is the number of domain.completed events up to it.
LogIsProgress ==
    \A j \in Job : \A i \in 1..Len(events[j]) :
        /\ events[j][i].id = i
        /\ events[j][i].type = "domain.completed" =>
                events[j][i].completed = Occurrences(j, "domain.completed", i)

\* No target is reported twice or before a worker took it: a domain starts at most once in
\* a job, a domain.completed that names it comes after, and at no point of the log are
\* there more completions than starts (runCheckJob, worker).
StartedThenCompletedOnce ==
    \A j \in Job : \A i \in 1..Len(events[j]) :
        LET e == events[j][i]
            Earlier(type) == {k \in 1..(i - 1) : events[j][k].type = type /\ events[j][k].domain = e.domain}
        IN  /\ e.type = "domain.started" => Earlier("domain.started") = {}
            /\ e.type = "domain.completed" /\ e.domain # NoDomain =>
                    /\ Earlier("domain.started") # {}
                    /\ Earlier("domain.completed") = {}
            /\ Occurrences(j, "domain.completed", i) <= Occurrences(j, "domain.started", i)

Queued(j) == {i \in 1..Len(jobs) : jobs[i].job = j}
OnWorker(j) == {w \in Worker : wtask[w].job = j}
Sent(j) == IF rpc[j] = "enqueue" THEN index[j] - 1 ELSE Total(j)

\* While the pool is alive no task and no outcome is lost or duplicated: what a job has sent
\* is queued, on a worker, in its results channel or counted.
TasksAccounted ==
    runCtx = "live" /\ (\A w \in Worker : wpc[w] # "panicked") =>
        \A j \in Job : rpc[j] \in {"enqueue", "collect", "finish"} =>
            Sent(j) = completed[j] + Len(results[j])
                        + Cardinality(Queued(j)) + Cardinality(OnWorker(j))

\* A worker never blocks on a results channel, whatever has become of the job that made it:
\* this is what lets Stop wait for the workers (results is buffered to len(targets)).
ResultsHaveRoom ==
    \A w \in Worker : wpc[w] = "checking" /\ wtask[w].job \in Job =>
        Len(results[wtask[w].job]) < ResultsCap(wtask[w].job)

\* A finished job is never reopened: its counters stay, and only the domain.started of a
\* task still queued may follow in its log.
VerdictIsFinal ==
    [][\A j \in Job : done[j] =>
        /\ UNCHANGED <<done[j], completed[j], succeeded[j], failed[j]>>
        /\ events'[j] # events[j] => events'[j][Len(events'[j])].type = "domain.started"]_vars

\* Once Stop has returned no check is started any more: a job's log grows only by what its
\* own goroutine still reports, and no job begins.
StoppedIsQuiet ==
    [][stop = "stopped" =>
        /\ \A j \in Job : events'[j] # events[j] =>
                events'[j][Len(events'[j])].type \in {"domain.completed", "job.completed"}
        /\ \A w \in Worker : wpc'[w] # "checking"]_vars

\* Every job that starts gets its verdict, through full channels, lost workers and shutdown.
JobsFinish == \A j \in Job : j \in checkJobs ~> done[j]

\* Stop, once called, returns.
StopReturnsEventually == stop = "waiting" ~> stop = "stopped"

\* A panic of any goroutine of the pool brings the whole service to a stop with its error posted.
PanicStops ==
    (lpc = "panicked" \/ \E w \in Worker : wpc[w] = "panicked") ~> (stop = "stopped" /\ failure)

-----------------------------------------------------------------------------
(* The abstract view of a job, which hides channels, workers and log entries. *)

VerdictOrNone(j) ==
    IF done[j]
    THEN events[j][CHOOSE i \in 1..Len(events[j]) : events[j][i].type = "job.completed"].status
    ELSE "none"

Promise == INSTANCE JobPromise WITH
    Sizes    <- {Len(ts) : ts \in TargetLists},
    phase    <- [j \in Job |-> IF rpc[j] = "none" THEN "absent" ELSE IF done[j] THEN "closed" ELSE "open"],
    size     <- [j \in Job |-> Total(j)],
    reported <- completed,
    good     <- succeeded,
    verdict  <- [j \in Job |-> VerdictOrNone(j)]

\* The pool keeps the promise of a check job: every step of it is a step of JobPromise or
\* invisible there, and every job that opens closes.
KeepsPromise == Promise!FairSpec
=============================================================================
