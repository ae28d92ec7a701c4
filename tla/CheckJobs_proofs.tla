-------------------------- MODULE CheckJobs_proofs --------------------------
(***************************************************************************)
(* Proofs about CheckJobs and CheckStream, for any sets of jobs, workers,  *)
(* domains, target lists and clients: the counters of a job, the quiet     *)
(* after Stop, what the event log says; that the pool keeps the promise of *)
(* a check job, every step of CheckJobs being a step of JobPromise or      *)
(* changing nothing there; where the tasks of a job are (queued, on a      *)
(* worker, in the results channel or counted); what has become of each     *)
(* target, in the log and on its way there; and what a page is handed of   *)
(* the log, when a handler may wait, and what a page that is told the      *)
(* outcome has seen.                                                       *)
(***************************************************************************)
EXTENDS CheckStream, FiniteSetTheorems, SequenceTheorems, TLAPS

-----------------------------------------------------------------------------
(* The inductive invariant: what the goroutine of a job knows at each point. *)

\* A job not started has nothing; while it enqueues nothing is reported; while it collects
\* the loop index is one ahead of the reports; after the loop all are reported.
JobInv(j) ==
    /\ completed[j] = succeeded[j] + failed[j]
    /\ rpc[j] = "none" => targets[j] = <<>> /\ completed[j] = 0 /\ ~done[j]
    /\ rpc[j] = "enqueue" => index[j] \in 1..Total(j) /\ completed[j] = 0 /\ ~done[j]
    /\ rpc[j] = "collect" => index[j] \in 1..Total(j) /\ completed[j] = index[j] - 1 /\ ~done[j]
    /\ rpc[j] = "finish" => completed[j] = Total(j) /\ ~done[j]
    /\ rpc[j] = "exited" => completed[j] = Total(j) /\ done[j]

LoopInv == lpc = "sending" => ldomain \in Domain

IInv == TypeOK /\ LoopInv /\ \A j \in Job : JobInv(j)

-----------------------------------------------------------------------------
(* Lemmas *)

LEMMA QueueCapType == QueueCap \in Nat
  BY WorkerAssumption, FS_CardinalityType DEF QueueCap

\* A target list is a sequence of domains, so its length is a number.
LEMMA TotalType == ASSUME TypeOK, NEW j \in Job
                   PROVE  targets[j] \in Seq(Domain) /\ Total(j) \in Nat
<1>1. targets[j] \in TargetLists \cup {<<>>}
  BY DEF TypeOK
<1>2. <<>> \in Seq(Domain)
  OBVIOUS
<1>3. targets[j] \in Seq(Domain)
  BY <1>1, <1>2, TargetAssumption, Zenon
<1> QED BY <1>3 DEF Total

\* Appending an event to a log of events gives a log of events.
LEMMA AppendEventType ==
    ASSUME TypeOK, NEW j \in Job, NEW type \in EventType, NEW d \in Domain \cup {NoDomain},
           NEW status \in EventStatus,
           completed' \in [Job -> Nat], succeeded' \in [Job -> Nat], failed' \in [Job -> Nat],
           AppendEvent(j, type, d, status)
    PROVE  events' \in [Job -> Seq(Event)] /\ signal' \in [Job -> Nat]
<1> DEFINE e == [id |-> Len(events[j]) + 1, type |-> type, domain |-> d, status |-> status,
                 completed |-> completed'[j], succeeded |-> succeeded'[j], failed |-> failed'[j]]
<1>1. events[j] \in Seq(Event) /\ Len(events[j]) \in Nat
  BY DEF TypeOK
<1>2. e \in Event
  BY <1>1 DEF Event
<1>3. Append(events[j], e) \in Seq(Event)
  BY <1>1, <1>2
<1>4. events' = [events EXCEPT ![j] = Append(events[j], e)]
  BY DEF AppendEvent
<1> HIDE DEF e
<1>5. events' \in [Job -> Seq(Event)]
  BY <1>3, <1>4 DEF TypeOK
<1>6. signal' \in [Job -> Nat]
  BY DEF AppendEvent, TypeOK
<1> QED BY <1>5, <1>6

\* A step that leaves a job's goroutine, targets and counters alone leaves JobInv.
LEMMA JobInvStable ==
    ASSUME NEW j \in Job, JobInv(j), UNCHANGED <<rpc, index, targets, counterVars>>
    PROVE  JobInv(j)'
  BY DEF JobInv, Total, counterVars

-----------------------------------------------------------------------------
(* The initial states, and the steps of each process *)

LEMMA InitIInv == Init => IInv
<1> SUFFICES ASSUME Init PROVE IInv
  OBVIOUS
<1> USE DEF Init
<1>1. TypeOK
  <2>1. jobs \in Seq(Task) /\ Len(jobs) <= QueueCap
    BY QueueCapType
  <2>2. results \in [Job -> Seq(Outcome)] /\ events \in [Job -> Seq(Event)]
    OBVIOUS
  <2> QED BY <2>1, <2>2 DEF TypeOK
<1>2. LoopInv
  BY DEF LoopInv
<1>3. \A j \in Job : JobInv(j)
  BY DEF JobInv
<1> QED BY <1>1, <1>2, <1>3 DEF IInv

LEMMA ServiceStepIInv ==
    ASSUME IInv, Start \/ CancelParent \/ Stop \/ StopReturns
    PROVE  IInv'
<1> USE DEF IInv
<1>1. CASE Start
  <2>1. TypeOK'
    BY <1>1 DEF Start, TypeOK, runnerVars, jobVars, counterVars, QueueCap
  <2>2. LoopInv'
    BY <1>1 DEF Start, LoopInv
  <2>3. \A j \in Job : JobInv(j)'
    BY <1>1, JobInvStable DEF Start, runnerVars, jobVars
  <2> QED BY <2>1, <2>2, <2>3
<1>2. CASE CancelParent \/ Stop \/ StopReturns
  <2> USE DEF CancelParent, Stop, StopReturns, workerVars, loopVars, runnerVars, jobVars
  <2>1. TypeOK'
    BY <1>2 DEF TypeOK, counterVars, QueueCap
  <2>2. LoopInv'
    BY <1>2 DEF LoopInv
  <2>3. \A j \in Job : JobInv(j)'
    BY <1>2, JobInvStable
  <2> QED BY <2>1, <2>2, <2>3
<1> QED BY <1>1, <1>2

LEMMA StartCheckJobIInv ==
    ASSUME IInv, NEW j \in Job, NEW t \in Tenant, NEW ts \in TargetLists, StartCheckJob(j, t, ts)
    PROVE  IInv'
<1> USE DEF IInv
<1>1. ts \in Seq(Domain) /\ Len(ts) \in Nat \ {0}
  BY TargetAssumption DEF StartCheckJob
<1>2. events' \in [Job -> Seq(Event)] /\ signal' \in [Job -> Nat]
  BY AppendEventType DEF StartCheckJob, counterVars, TypeOK, EventType, EventStatus
<1>3. TypeOK'
  BY <1>2 DEF StartCheckJob, TypeOK, counterVars, workerVars, loopVars, QueueCap
<1>4. LoopInv'
  BY DEF StartCheckJob, LoopInv, loopVars
<1>5. ASSUME NEW k \in Job PROVE JobInv(k)'
  BY <1>1 DEF StartCheckJob, JobInv, Total, counterVars, TypeOK
<1> QED BY <1>3, <1>4, <1>5

LEMMA EnqueueIInv == ASSUME IInv, NEW j \in Job, RunnerEnqueue(j)
                     PROVE  IInv'
<1> USE DEF IInv
<1>1. targets[j] \in Seq(Domain) /\ Total(j) \in Nat /\ index[j] \in 1..Total(j)
  BY TotalType DEF RunnerEnqueue, JobInv
<1>2. [job |-> j, domain |-> targets[j][index[j]]] \in Task
  BY <1>1 DEF Task, Total
<1>3. jobs' \in Seq(Task) /\ Len(jobs') <= QueueCap
  <2>1. jobs \in Seq(Task) /\ Len(jobs) < QueueCap
    BY DEF RunnerEnqueue, TypeOK
  <2>2. jobs' = Append(jobs, [job |-> j, domain |-> targets[j][index[j]]])
    BY DEF RunnerEnqueue
  <2>3. jobs' \in Seq(Task) /\ Len(jobs') = Len(jobs) + 1
    BY <1>2, <2>1, <2>2
  <2> QED BY <2>1, <2>3, QueueCapType
<1>4. index' \in [Job -> Nat]
  <2>1. index \in [Job -> Nat]
    BY DEF TypeOK
  <2>2. index' = [index EXCEPT ![j] = index[j] + 1] \/ index' = [index EXCEPT ![j] = 1]
    BY DEF RunnerEnqueue
  <2> QED BY <2>1, <2>2
<1>5. TypeOK'
  BY <1>3, <1>4 DEF RunnerEnqueue, TypeOK, counterVars, workerVars, loopVars, jobVars, QueueCap
<1>6. LoopInv'
  BY DEF RunnerEnqueue, LoopInv, loopVars
<1>7. ASSUME NEW k \in Job PROVE JobInv(k)'
  <2>1. JobInv(k) /\ JobInv(j) /\ UNCHANGED <<targets, counterVars>> /\ Total(j)' = Total(j)
    BY DEF RunnerEnqueue, jobVars, Total
  <2>2. CASE k = j
    BY <1>1, <2>1, <2>2 DEF RunnerEnqueue, JobInv, counterVars, TypeOK
  <2>3. CASE k # j
    <3>1. rpc'[k] = rpc[k] /\ index'[k] = index[k]
      BY <2>3 DEF RunnerEnqueue, TypeOK
    <3> QED BY <2>1, <3>1 DEF JobInv, Total, counterVars
  <2> QED BY <2>2, <2>3
<1> QED BY <1>5, <1>6, <1>7

\* A job that is not the one a step is about keeps its invariant.
LEMMA OtherJobStable ==
    ASSUME NEW k \in Job, JobInv(k), rpc'[k] = rpc[k], index'[k] = index[k], targets'[k] = targets[k],
           completed'[k] = completed[k], succeeded'[k] = succeeded[k], failed'[k] = failed[k],
           done'[k] = done[k]
    PROVE  JobInv(k)'
  BY DEF JobInv, Total

\* Counting an outcome keeps the counters numbers that add up.
LEMMA CompleteDomainCounts ==
    ASSUME TypeOK, NEW j \in Job, NEW outcome \in Outcome, CompleteDomain(j, outcome)
    PROVE  /\ completed' \in [Job -> Nat] /\ succeeded' \in [Job -> Nat] /\ failed' \in [Job -> Nat]
           /\ done' = done
           /\ events' \in [Job -> Seq(Event)] /\ signal' \in [Job -> Nat]
           /\ completed'[j] = completed[j] + 1
           /\ succeeded'[j] + failed'[j] = succeeded[j] + failed[j] + 1
           /\ \A k \in Job \ {j} : /\ completed'[k] = completed[k]
                                   /\ succeeded'[k] = succeeded[k] /\ failed'[k] = failed[k]
<1>1. completed \in [Job -> Nat] /\ succeeded \in [Job -> Nat] /\ failed \in [Job -> Nat]
  BY DEF TypeOK
<1>2. completed' = [completed EXCEPT ![j] = completed[j] + 1]
  BY DEF CompleteDomain
<1>3. \/ succeeded' = [succeeded EXCEPT ![j] = succeeded[j] + 1] /\ failed' = failed
      \/ failed' = [failed EXCEPT ![j] = failed[j] + 1] /\ succeeded' = succeeded
  BY DEF CompleteDomain
<1>4. completed' \in [Job -> Nat] /\ succeeded' \in [Job -> Nat] /\ failed' \in [Job -> Nat]
  BY <1>1, <1>2, <1>3
<1>5. events' \in [Job -> Seq(Event)] /\ signal' \in [Job -> Nat]
  <2>1. /\ outcome.domain \in Domain \cup {NoDomain} /\ outcome.status \in EventStatus
        /\ "domain.completed" \in EventType
    BY DEF Outcome, EventStatus, EventType
  <2>2. AppendEvent(j, "domain.completed", outcome.domain, outcome.status)
    BY DEF CompleteDomain
  <2> QED BY <1>4, <2>1, <2>2, AppendEventType
<1>6. done' = done
  BY DEF CompleteDomain
<1>7. completed'[j] = completed[j] + 1 /\ \A k \in Job \ {j} : completed'[k] = completed[k]
  BY <1>1, <1>2
<1>8. /\ succeeded'[j] + failed'[j] = succeeded[j] + failed[j] + 1
      /\ \A k \in Job \ {j} : succeeded'[k] = succeeded[k] /\ failed'[k] = failed[k]
  <2>1. succeeded[j] \in Nat /\ failed[j] \in Nat
    BY <1>1
  <2>2. CASE succeeded' = [succeeded EXCEPT ![j] = succeeded[j] + 1] /\ failed' = failed
    BY <1>1, <2>1, <2>2
  <2>3. CASE failed' = [failed EXCEPT ![j] = failed[j] + 1] /\ succeeded' = succeeded
    BY <1>1, <2>1, <2>3
  <2> QED BY <1>3, <2>2, <2>3
<1> QED BY <1>4, <1>5, <1>6, <1>7, <1>8

LEMMA CollectIInv == ASSUME IInv, NEW j \in Job, RunnerCollect(j)
                     PROVE  IInv'
<1>0. TypeOK /\ LoopInv /\ \A k \in Job : JobInv(k)
  BY DEF IInv
<1>1. PICK outcome \in Outcome :
          CompleteDomain(j, outcome) /\ results' = [results EXCEPT ![j] = Tail(results[j])]
  <2>1. results[j] \in Seq(Outcome) /\ results[j] # <<>>
    BY <1>0 DEF RunnerCollect, TypeOK
  <2>2. Head(results[j]) \in Outcome
    BY <2>1
  <2> QED BY <2>2 DEF RunnerCollect
<1>2. results' \in [Job -> Seq(Outcome)]
  <2>1. results \in [Job -> Seq(Outcome)] /\ results[j] # <<>>
    BY <1>0 DEF RunnerCollect, TypeOK
  <2>2. Tail(results[j]) \in Seq(Outcome)
    BY <2>1
  <2> QED BY <1>1, <2>1, <2>2
<1>3. /\ completed' \in [Job -> Nat] /\ succeeded' \in [Job -> Nat] /\ failed' \in [Job -> Nat]
      /\ done' = done
      /\ events' \in [Job -> Seq(Event)] /\ signal' \in [Job -> Nat]
      /\ completed'[j] = completed[j] + 1
      /\ succeeded'[j] + failed'[j] = succeeded[j] + failed[j] + 1
      /\ \A k \in Job \ {j} : /\ completed'[k] = completed[k]
                              /\ succeeded'[k] = succeeded[k] /\ failed'[k] = failed[k]
  BY <1>0, <1>1, CompleteDomainCounts
<1>4. /\ UNCHANGED <<serviceVars, workerVars, loopVars, tenantID, targets>>
      /\ rpc[j] = "collect"
      /\ \/ /\ index[j] < Total(j)
            /\ index' = [index EXCEPT ![j] = index[j] + 1]
            /\ rpc' = rpc
         \/ /\ index[j] = Total(j)
            /\ rpc' = [rpc EXCEPT ![j] = "finish"]
            /\ index' = index
  BY DEF RunnerCollect
<1>5. index' \in [Job -> Nat]
  <2>1. index \in [Job -> Nat]
    BY <1>0 DEF TypeOK
  <2> QED BY <1>4, <2>1
<1>6. TypeOK'
  BY <1>0, <1>2, <1>3, <1>4, <1>5 DEF TypeOK, serviceVars, workerVars, loopVars, QueueCap
<1>7. LoopInv'
  BY <1>0, <1>4 DEF LoopInv, loopVars
<1>8. JobInv(j)'
  <2>1. /\ completed[j] = succeeded[j] + failed[j] /\ index[j] \in 1..Total(j)
        /\ completed[j] = index[j] - 1 /\ ~done[j]
    BY <1>0, <1>4 DEF JobInv
  <2>2. Total(j) \in Nat /\ Total(j)' = Total(j)
    BY <1>0, <1>4, TotalType DEF Total
  <2>3. rpc \in [Job -> {"none", "enqueue", "collect", "finish", "exited"}] /\ index \in [Job -> Nat]
    BY <1>0 DEF TypeOK
  <2>4. CASE index[j] < Total(j)
    BY <1>3, <1>4, <2>1, <2>2, <2>3, <2>4 DEF JobInv
  <2>5. CASE index[j] = Total(j)
    BY <1>3, <1>4, <2>1, <2>2, <2>3, <2>5 DEF JobInv
  <2> QED BY <2>1, <2>2, <2>4, <2>5
<1>9. ASSUME NEW k \in Job, k # j PROVE JobInv(k)'
  BY <1>0, <1>3, <1>4, <1>9, OtherJobStable DEF TypeOK
<1> QED BY <1>6, <1>7, <1>8, <1>9 DEF IInv

LEMMA FinishIInv == ASSUME IInv, NEW j \in Job, RunnerFinish(j)
                    PROVE  IInv'
<1>0. TypeOK /\ LoopInv /\ \A k \in Job : JobInv(k)
  BY DEF IInv
<1>1. rpc[j] = "finish" /\ completed[j] = Total(j) /\ ~done[j] /\ completed[j] = succeeded[j] + failed[j]
  BY <1>0 DEF RunnerFinish, JobInv
<1>2. /\ UNCHANGED <<completed, succeeded, failed>> /\ done' = [done EXCEPT ![j] = TRUE]
      /\ AppendEvent(j, "job.completed", NoDomain, Verdict(j))
      /\ rpc' = [rpc EXCEPT ![j] = "exited"]
      /\ UNCHANGED <<serviceVars, workerVars, loopVars, index, results, tenantID, targets>>
  BY <1>1 DEF RunnerFinish, Finish
<1>3. Verdict(j) \in EventStatus
  BY DEF Verdict, EventStatus
<1>4. completed' \in [Job -> Nat] /\ succeeded' \in [Job -> Nat] /\ failed' \in [Job -> Nat]
  BY <1>0, <1>2 DEF TypeOK
<1>5. events' \in [Job -> Seq(Event)] /\ signal' \in [Job -> Nat]
  <2>1. "job.completed" \in EventType
    BY DEF EventType
  <2> QED BY <1>0, <1>2, <1>3, <1>4, <2>1, AppendEventType
<1>6. TypeOK'
  BY <1>0, <1>2, <1>4, <1>5 DEF TypeOK, serviceVars, workerVars, loopVars, QueueCap
<1>7. LoopInv'
  BY <1>0, <1>2 DEF LoopInv, loopVars
<1>8. JobInv(j)'
  <2>1. rpc'[j] = "exited" /\ done'[j] = TRUE /\ Total(j)' = Total(j)
    BY <1>0, <1>2 DEF TypeOK, Total
  <2> QED BY <1>1, <1>2, <2>1 DEF JobInv
<1>9. ASSUME NEW k \in Job, k # j PROVE JobInv(k)'
  BY <1>0, <1>2, <1>9, OtherJobStable DEF TypeOK
<1> QED BY <1>6, <1>7, <1>8, <1>9 DEF IInv

\* An interrupted job counts what is left as failed: the difference is a number because no
\* more than all targets were reported.
LEMMA InterruptedIInv == ASSUME IInv, NEW j \in Job, RunnerInterrupted(j)
                         PROVE  IInv'
<1>0. TypeOK /\ LoopInv /\ \A k \in Job : JobInv(k)
  BY DEF IInv
<1>1. rpc[j] \in {"enqueue", "collect"} /\ ~done[j] /\ completed[j] = succeeded[j] + failed[j]
  BY <1>0 DEF RunnerInterrupted, JobInv
<1>2. /\ failed' = [failed EXCEPT ![j] = failed[j] + (Total(j) - completed[j])]
      /\ completed' = [completed EXCEPT ![j] = Total(j)]
      /\ done' = [done EXCEPT ![j] = TRUE]
      /\ succeeded' = succeeded
      /\ AppendEvent(j, "job.completed", NoDomain, "failed")
      /\ rpc' = [rpc EXCEPT ![j] = "exited"]
      /\ UNCHANGED <<serviceVars, workerVars, loopVars, index, results, tenantID, targets>>
  BY <1>1 DEF RunnerInterrupted, FinishInterrupted
<1>3. /\ completed \in [Job -> Nat] /\ succeeded \in [Job -> Nat] /\ failed \in [Job -> Nat]
      /\ done \in [Job -> BOOLEAN]
      /\ rpc \in [Job -> {"none", "enqueue", "collect", "finish", "exited"}]
  BY <1>0 DEF TypeOK
<1>4. Total(j) \in Nat /\ Total(j) - completed[j] \in Nat
  <2>1. Total(j) \in Nat
    BY <1>0, TotalType
  <2>2. completed[j] <= Total(j)
    <3>1. CASE rpc[j] = "enqueue"
      BY <1>0, <2>1, <3>1 DEF JobInv
    <3>2. CASE rpc[j] = "collect"
      BY <1>0, <2>1, <3>2 DEF JobInv
    <3> QED BY <1>1, <3>1, <3>2
  <2>3. completed[j] \in Nat
    BY <1>3
  <2> QED BY <2>1, <2>2, <2>3
<1>5. completed' \in [Job -> Nat] /\ succeeded' \in [Job -> Nat] /\ failed' \in [Job -> Nat]
  <2>1. failed[j] + (Total(j) - completed[j]) \in Nat
    BY <1>3, <1>4
  <2> QED BY <1>2, <1>3, <1>4, <2>1
<1>6. events' \in [Job -> Seq(Event)] /\ signal' \in [Job -> Nat]
  <2>1. "job.completed" \in EventType /\ "failed" \in EventStatus
    BY DEF EventType, EventStatus
  <2> QED BY <1>0, <1>2, <1>5, <2>1, AppendEventType
<1>7. TypeOK'
  BY <1>0, <1>2, <1>5, <1>6 DEF TypeOK, serviceVars, workerVars, loopVars, QueueCap
<1>8. LoopInv'
  BY <1>0, <1>2 DEF LoopInv, loopVars
<1>9. JobInv(j)'
  <2>1. rpc'[j] = "exited" /\ done'[j] = TRUE /\ Total(j)' = Total(j)
    BY <1>2, <1>3 DEF Total
  <2>2. completed'[j] = Total(j) /\ failed'[j] = failed[j] + (Total(j) - completed[j])
    BY <1>2, <1>3
  <2>3. completed[j] \in Nat /\ succeeded[j] \in Nat /\ failed[j] \in Nat
    BY <1>3
  <2>4. completed'[j] = succeeded'[j] + failed'[j]
    BY <1>1, <1>2, <1>4, <2>2, <2>3
  <2> QED BY <2>1, <2>2, <2>4 DEF JobInv
<1>10. ASSUME NEW k \in Job, k # j PROVE JobInv(k)'
  BY <1>0, <1>2, <1>3, <1>10, OtherJobStable
<1> QED BY <1>7, <1>8, <1>9, <1>10 DEF IInv

LEMMA ExpireIInv == ASSUME IInv, NEW j \in Job, ExpireCheckJob(j)
                    PROVE  IInv'
<1> USE DEF IInv, ExpireCheckJob, workerVars, loopVars, runnerVars, jobVars
<1>1. TypeOK'
  BY DEF TypeOK, counterVars, QueueCap
<1>2. LoopInv'
  BY DEF LoopInv
<1>3. \A k \in Job : JobInv(k)'
  BY JobInvStable
<1> QED BY <1>1, <1>2, <1>3

\* A worker changes the queue, its own state, and the log or results of the job it works for.
LEMMA WorkerStepIInv ==
    ASSUME IInv, NEW w \in Worker, WorkerStep(w) \/ WorkerPanics(w)
    PROVE  IInv'
<1>0. TypeOK /\ LoopInv /\ \A k \in Job : JobInv(k)
  BY DEF IInv
<1>1. /\ UNCHANGED <<stop, checkJobs, loopVars, rpc, index, tenantID, targets, counterVars>>
      /\ failure' \in BOOLEAN
      /\ runCtx' \in {"nil", "live", "cancelled"}
  BY <1>0 DEF WorkerStep, WorkerReceive, WorkerStarts, WorkerFinishes, WorkerExits, WorkerReports,
              WorkerPanics, ReportPanic, serviceVars, runnerVars, jobVars, TypeOK
<1>2. wpc' \in [Worker -> {"down", "select", "starting", "checking", "panicked", "exited"}]
  <2>1. wpc \in [Worker -> {"down", "select", "starting", "checking", "panicked", "exited"}]
    BY <1>0 DEF TypeOK
  <2> QED BY <2>1 DEF WorkerStep, WorkerReceive, WorkerStarts, WorkerFinishes, WorkerExits,
                      WorkerReports, WorkerPanics
<1>3. /\ jobs' \in Seq(Task) /\ Len(jobs') <= QueueCap
      /\ wtask' \in [Worker -> Task \cup {NoTask}]
  <2>1. jobs \in Seq(Task) /\ Len(jobs) <= QueueCap /\ wtask \in [Worker -> Task \cup {NoTask}]
    BY <1>0 DEF TypeOK
  <2>2. CASE WorkerReceive(w)
    <3>1. jobs # <<>> /\ jobs' = Tail(jobs) /\ wtask' = [wtask EXCEPT ![w] = Head(jobs)]
      BY <2>2 DEF WorkerReceive
    <3>2. Head(jobs) \in Task /\ Tail(jobs) \in Seq(Task) /\ Len(Tail(jobs)) = Len(jobs) - 1
      BY <2>1, <3>1
    <3>3. Len(jobs) \in Nat
      BY <2>1
    <3> QED BY <2>1, <3>1, <3>2, <3>3, QueueCapType
  <2>3. CASE ~WorkerReceive(w)
    <3>1. jobs' = jobs /\ (wtask' = wtask \/ wtask' = [wtask EXCEPT ![w] = NoTask])
      BY <2>3 DEF WorkerStep, WorkerStarts, WorkerFinishes, WorkerExits, WorkerReports,
                  WorkerPanics, ReportPanic, serviceVars
    <3> QED BY <2>1, <3>1
  <2> QED BY <2>2, <2>3
<1>4. results' \in [Job -> Seq(Outcome)]
  <2>1. results \in [Job -> Seq(Outcome)] /\ wtask \in [Worker -> Task \cup {NoTask}]
    BY <1>0 DEF TypeOK
  <2>2. CASE WorkerFinishes(w) /\ wtask[w].job \in Job
    <3>1. wtask[w].domain \in Domain \cup {NoDomain}
      BY <2>1 DEF Task, NoTask
    <3>2. PICK outcome \in Outcomes(wtask[w].domain) :
              results' = [results EXCEPT ![wtask[w].job] = Append(results[wtask[w].job], outcome)]
      BY <2>2, NoneAssumption DEF WorkerFinishes
    <3>3. outcome \in Outcome
      BY <3>1, <3>2 DEF Outcomes, Outcome, DomainStatus
    <3>4. Append(results[wtask[w].job], outcome) \in Seq(Outcome)
      BY <2>1, <2>2, <3>3
    <3> QED BY <2>1, <3>2, <3>4
  <2>3. CASE ~(WorkerFinishes(w) /\ wtask[w].job \in Job)
    <3>1. results' = results
      BY <2>3 DEF WorkerStep, WorkerReceive, WorkerStarts, WorkerFinishes, WorkerExits,
                  WorkerReports, WorkerPanics, runnerVars
    <3> QED BY <2>1, <3>1
  <2> QED BY <2>2, <2>3
<1>5. events' \in [Job -> Seq(Event)] /\ signal' \in [Job -> Nat]
  <2>1. events \in [Job -> Seq(Event)] /\ signal \in [Job -> Nat] /\ wtask \in [Worker -> Task \cup {NoTask}]
    BY <1>0 DEF TypeOK
  <2>2. CASE WorkerStarts(w) /\ wtask[w].job \in Job
    <3>1. AppendEvent(wtask[w].job, "domain.started", wtask[w].domain, "running")
      BY <2>2, NoneAssumption DEF WorkerStarts
    <3>2. wtask[w].domain \in Domain \cup {NoDomain} /\ "domain.started" \in EventType /\ "running" \in EventStatus
      BY <2>1 DEF Task, NoTask, EventType, EventStatus
    <3>3. completed' \in [Job -> Nat] /\ succeeded' \in [Job -> Nat] /\ failed' \in [Job -> Nat]
      BY <1>0, <1>1 DEF TypeOK, counterVars
    <3> QED BY <1>0, <2>2, <3>1, <3>2, <3>3, AppendEventType
  <2>3. CASE ~(WorkerStarts(w) /\ wtask[w].job \in Job)
    <3>1. events' = events /\ signal' = signal
      BY <2>3 DEF WorkerStep, WorkerReceive, WorkerStarts, WorkerFinishes, WorkerExits,
                  WorkerReports, WorkerPanics, jobVars
    <3> QED BY <2>1, <3>1
  <2> QED BY <2>2, <2>3
<1>6. TypeOK'
  BY <1>0, <1>1, <1>2, <1>3, <1>4, <1>5 DEF TypeOK, loopVars, counterVars, QueueCap
<1>7. LoopInv'
  BY <1>0, <1>1 DEF LoopInv, loopVars
<1>8. \A k \in Job : JobInv(k)'
  BY <1>0, <1>1, JobInvStable
<1> QED BY <1>6, <1>7, <1>8 DEF IInv

LEMMA LoopStepIInv ==
    ASSUME IInv, LoopStep \/ LoopPanics \/ \E d \in Scheduled : LoopClaims(d)
    PROVE  IInv'
<1>0. TypeOK /\ LoopInv /\ \A k \in Job : JobInv(k)
  BY DEF IInv
<1>1. /\ UNCHANGED <<stop, checkJobs, workerVars, runnerVars, jobVars>>
      /\ failure' \in BOOLEAN
      /\ runCtx' \in {"nil", "live", "cancelled"}
      /\ lpc' \in {"down", "idle", "sending", "panicked", "exited"}
  BY <1>0 DEF LoopStep, LoopSends, LoopExits, LoopReports, LoopPanics, LoopClaims, ReportPanic,
              serviceVars, TypeOK
<1>2. ldomain' \in Domain \cup {NoDomain} /\ LoopInv'
  <2>1. ldomain \in Domain \cup {NoDomain}
    BY <1>0 DEF TypeOK
  <2> QED BY <1>0, <2>1, TargetAssumption
          DEF LoopStep, LoopSends, LoopExits, LoopReports, LoopPanics, LoopClaims, LoopInv
<1>3. jobs' \in Seq(Task) /\ Len(jobs') <= QueueCap
  <2>1. jobs \in Seq(Task) /\ Len(jobs) <= QueueCap
    BY <1>0 DEF TypeOK
  <2>2. CASE LoopSends
    <3>1. jobs' = Append(jobs, [job |-> NoJob, domain |-> ldomain]) /\ Len(jobs) < QueueCap
      BY <2>2 DEF LoopSends
    <3>2. [job |-> NoJob, domain |-> ldomain] \in Task
      BY <1>0, <2>2 DEF LoopSends, LoopInv, Task
    <3>3. jobs' \in Seq(Task) /\ Len(jobs') = Len(jobs) + 1
      BY <2>1, <3>1, <3>2
    <3>4. Len(jobs) \in Nat
      BY <2>1
    <3> QED BY <3>1, <3>3, <3>4, QueueCapType
  <2>3. CASE ~LoopSends
    <3>1. jobs' = jobs
      BY <2>3 DEF LoopStep, LoopExits, LoopReports, LoopPanics, LoopClaims, ReportPanic, serviceVars
    <3> QED BY <2>1, <3>1
  <2> QED BY <2>2, <2>3
<1>4. TypeOK'
  BY <1>0, <1>1, <1>2, <1>3 DEF TypeOK, workerVars, runnerVars, jobVars, counterVars, QueueCap
<1>5. \A k \in Job : JobInv(k)'
  BY <1>0, <1>1, JobInvStable DEF runnerVars, jobVars
<1> QED BY <1>2, <1>4, <1>5 DEF IInv

\* A step that changes nothing.
LEMMA StutterIInv == ASSUME IInv, UNCHANGED vars
                     PROVE  IInv'
<1> USE DEF IInv, vars, serviceVars, workerVars, loopVars, runnerVars, jobVars
<1>1. TypeOK'
  BY DEF TypeOK, counterVars, QueueCap
<1>2. LoopInv'
  BY DEF LoopInv
<1>3. \A k \in Job : JobInv(k)'
  BY JobInvStable
<1> QED BY <1>1, <1>2, <1>3

-----------------------------------------------------------------------------
(* Theorems *)

LEMMA NextIInv == IInv /\ [Next]_vars => IInv'
<1> SUFFICES ASSUME IInv, [Next]_vars PROVE IInv'
  OBVIOUS
<1>1. CASE Start \/ CancelParent \/ Stop \/ StopReturns
  BY <1>1, ServiceStepIInv
<1>2. CASE \E j \in Job, t \in Tenant, ts \in TargetLists : StartCheckJob(j, t, ts)
  BY <1>2, StartCheckJobIInv
<1>3. CASE \E j \in Job : JobStep(j) \/ ExpireCheckJob(j)
  BY <1>3, EnqueueIInv, CollectIInv, FinishIInv, InterruptedIInv, ExpireIInv DEF JobStep
<1>4. CASE \E w \in Worker : WorkerStep(w) \/ WorkerPanics(w)
  BY <1>4, WorkerStepIInv
<1>5. CASE LoopStep \/ LoopPanics \/ \E d \in Scheduled : LoopClaims(d)
  BY <1>5, LoopStepIInv
<1>6. CASE UNCHANGED vars
  BY <1>6, StutterIInv
<1> QED BY <1>1, <1>2, <1>3, <1>4, <1>5, <1>6 DEF Next

\* The invariant of the pool and its jobs (scheduler/service.go, check_jobs.go): channels and
\* counters are typed, a job counts what it was told, and it is done only with all of it counted.
THEOREM Invariance == Spec => []IInv
<1> QED BY InitIInv, NextIInv, PTL DEF Spec

\* Every variable keeps its type; in particular the channel of tasks never holds more than
\* its capacity, and counters and event identifiers are natural numbers.
THEOREM TypeCorrect == Spec => []TypeOK
<1>1. IInv => TypeOK
  BY DEF IInv
<1> QED BY <1>1, Invariance, PTL

\* The counters of every job add up, stay within its targets, and cover all of them once it
\* is done, however the job ends (completeDomain, finish, finishInterrupted).
THEOREM CountersAlwaysAgree == Spec => []CountersAgree
<1>1. ASSUME IInv, NEW j \in Job
      PROVE  /\ completed[j] = succeeded[j] + failed[j]
             /\ completed[j] <= Total(j)
             /\ done[j] => completed[j] = Total(j)
  <2>1. JobInv(j) /\ rpc[j] \in {"none", "enqueue", "collect", "finish", "exited"}
    BY <1>1 DEF IInv, TypeOK
  <2>2. Total(j) \in Nat /\ index[j] \in Nat
    BY <1>1, TotalType DEF IInv, TypeOK
  <2>3. CASE rpc[j] = "none"
    BY <2>1, <2>2, <2>3 DEF JobInv
  <2>4. CASE rpc[j] \in {"enqueue", "collect"}
    BY <2>1, <2>2, <2>4 DEF JobInv
  <2>5. CASE rpc[j] \in {"finish", "exited"}
    BY <2>1, <2>2, <2>5 DEF JobInv
  <2> QED BY <2>1, <2>3, <2>4, <2>5
<1>2. IInv => CountersAgree
  BY <1>1 DEF CountersAgree
<1> QED BY <1>2, Invariance, PTL

-----------------------------------------------------------------------------
(* A verdict is final *)

\* What a step may do to a job that is done.
Kept(j) ==
    /\ done'[j] = done[j] /\ completed'[j] = completed[j]
    /\ succeeded'[j] = succeeded[j] /\ failed'[j] = failed[j]
    /\ events'[j] # events[j] => events'[j][Len(events'[j])].type = "domain.started"

\* Appending to one job's log leaves the others, and the new event is the last.
LEMMA AppendEventEffect ==
    ASSUME TypeOK, NEW j \in Job, NEW k \in Job, NEW type, NEW d, NEW status,
           AppendEvent(j, type, d, status)
    PROVE  /\ k # j => events'[k] = events[k]
           /\ events'[j][Len(events'[j])].type = type
<1> DEFINE e == [id |-> Len(events[j]) + 1, type |-> type, domain |-> d, status |-> status,
                 completed |-> completed'[j], succeeded |-> succeeded'[j], failed |-> failed'[j]]
<1>1. events \in [Job -> Seq(Event)]
  BY DEF TypeOK
<1>2. events' = [events EXCEPT ![j] = Append(events[j], e)]
  BY DEF AppendEvent
<1>3. e.type = type
  OBVIOUS
<1> HIDE DEF e
<1>4. events'[j] = Append(events[j], e) /\ (k # j => events'[k] = events[k])
  BY <1>1, <1>2
<1>5. Append(events[j], e)[Len(Append(events[j], e))] = e
  <2>1. events[j] \in Seq(Event)
    BY <1>1
  <2>2. Len(Append(events[j], e)) = Len(events[j]) + 1 /\ Append(events[j], e)[Len(events[j]) + 1] = e
    BY <2>1
  <2> QED BY <2>2
<1> QED BY <1>3, <1>4, <1>5

\* The goroutine of a job that is done has exited, so only a worker can still touch it.
LEMMA DoneJobStep ==
    ASSUME IInv, [Next]_vars, NEW j \in Job, done[j]
    PROVE  Kept(j)
<1>0. TypeOK /\ JobInv(j)
  BY DEF IInv
<1>1. rpc[j] = "exited"
  BY <1>0 DEF JobInv, TypeOK
<1>2. CASE UNCHANGED <<counterVars, events>>
  BY <1>2 DEF Kept, counterVars
<1>3. ASSUME NEW k \in Job, NEW t \in Tenant, NEW ts \in TargetLists, StartCheckJob(k, t, ts)
      PROVE  Kept(j)
  <2>1. k # j /\ UNCHANGED counterVars /\ AppendEvent(k, "job.started", NoDomain, "running")
    BY <1>1, <1>3 DEF StartCheckJob
  <2> QED BY <1>0, <2>1, AppendEventEffect DEF Kept, counterVars
<1>4. ASSUME NEW k \in Job, JobStep(k)
      PROVE  Kept(j)
  <2>1. k # j
    BY <1>1, <1>4 DEF JobStep, RunnerEnqueue, RunnerCollect, RunnerFinish, RunnerInterrupted
  <2>2. CASE RunnerEnqueue(k)
    BY <2>2 DEF RunnerEnqueue, jobVars, Kept, counterVars
  <2>3. CASE RunnerCollect(k)
    <3>1. CompleteDomain(k, Head(results[k]))
      BY <2>3 DEF RunnerCollect
    <3>2. PICK d, status : AppendEvent(k, "domain.completed", d, status)
      BY <3>1 DEF CompleteDomain
    <3>3. /\ completed'[j] = completed[j] /\ succeeded'[j] = succeeded[j]
          /\ failed'[j] = failed[j] /\ done'[j] = done[j]
      BY <1>0, <2>1, <3>1 DEF CompleteDomain, TypeOK
    <3> QED BY <1>0, <2>1, <3>2, <3>3, AppendEventEffect DEF Kept
  <2>4. CASE RunnerFinish(k) \/ RunnerInterrupted(k)
    <3>1. Finish(k) \/ FinishInterrupted(k)
      BY <2>4 DEF RunnerFinish, RunnerInterrupted
    <3>2. /\ completed'[j] = completed[j] /\ succeeded'[j] = succeeded[j]
          /\ failed'[j] = failed[j] /\ done'[j] = done[j]
      BY <1>0, <2>1, <3>1 DEF Finish, FinishInterrupted, counterVars, TypeOK
    <3>3. events' = events \/ \E status : AppendEvent(k, "job.completed", NoDomain, status)
      BY <3>1 DEF Finish, FinishInterrupted
    <3> QED BY <1>0, <2>1, <3>2, <3>3, AppendEventEffect DEF Kept
  <2> QED BY <1>4, <2>2, <2>3, <2>4 DEF JobStep
<1>5. ASSUME NEW w \in Worker, WorkerStarts(w)
      PROVE  Kept(j)
  <2>1. UNCHANGED counterVars
    BY <1>5 DEF WorkerStarts
  <2>2. CASE events' = events
    BY <2>1, <2>2 DEF Kept, counterVars
  <2>3. CASE events' # events
    <3>1. wtask[w].job \in Job /\ AppendEvent(wtask[w].job, "domain.started", wtask[w].domain, "running")
      BY <1>5, <2>3 DEF WorkerStarts
    <3>2. CASE wtask[w].job = j
      BY <1>0, <2>1, <3>1, <3>2, AppendEventEffect DEF Kept, counterVars
    <3>3. CASE wtask[w].job # j
      BY <1>0, <2>1, <3>1, <3>3, AppendEventEffect DEF Kept, counterVars
    <3> QED BY <3>2, <3>3
  <2> QED BY <2>2, <2>3
<1>6. CASE Start \/ CancelParent \/ Stop \/ StopReturns
  BY <1>2, <1>6 DEF Start, CancelParent, Stop, StopReturns, jobVars
<1>7. ASSUME NEW k \in Job, ExpireCheckJob(k) PROVE Kept(j)
  BY <1>2, <1>7 DEF ExpireCheckJob, jobVars
<1>8. ASSUME NEW w \in Worker, WorkerStep(w) \/ WorkerPanics(w), ~WorkerStarts(w) PROVE Kept(j)
  BY <1>2, <1>8 DEF WorkerStep, WorkerReceive, WorkerFinishes, WorkerExits, WorkerReports,
                    WorkerPanics, jobVars
<1>9. CASE LoopStep \/ LoopPanics \/ \E d \in Scheduled : LoopClaims(d)
  BY <1>2, <1>9 DEF LoopStep, LoopSends, LoopExits, LoopReports, LoopPanics, LoopClaims, jobVars
<1>10. CASE UNCHANGED vars
  BY <1>2, <1>10 DEF vars, jobVars
<1> QED BY <1>3, <1>4, <1>5, <1>6, <1>7, <1>8, <1>9, <1>10 DEF Next

\* A finished job is never reopened: its counters stay, and only the domain.started of a
\* task still queued may follow in its log, through any number of later steps.
THEOREM VerdictAlwaysFinal == Spec => VerdictIsFinal
<1>1. ASSUME IInv, [Next]_vars
      PROVE  [\A j \in Job : done[j] =>
                /\ UNCHANGED <<done[j], completed[j], succeeded[j], failed[j]>>
                /\ events'[j] # events[j] => events'[j][Len(events'[j])].type = "domain.started"]_vars
  BY <1>1, DoneJobStep DEF Kept
<1>2. IInv /\ [Next]_vars
        => [\A j \in Job : done[j] =>
                /\ UNCHANGED <<done[j], completed[j], succeeded[j], failed[j]>>
                /\ events'[j] # events[j] => events'[j][Len(events'[j])].type = "domain.started"]_vars
  BY <1>1
<1> QED BY <1>2, Invariance, PTL DEF Spec, VerdictIsFinal

-----------------------------------------------------------------------------
(* Nothing is checked after Stop *)

Ended == {"panicked", "exited"}

\* Stop has cancelled the run context, and returned only when no goroutine of the pool ran
\* a check any more; nothing starts one again.
StopInv ==
    /\ stop # "no" => runCtx = "cancelled"
    /\ stop = "stopped" => lpc \in Ended /\ \A w \in Worker : wpc[w] \in Ended

\* Reporting a panic cancels or leaves a context that Stop has cancelled already.
LEMMA ReportPanicStop == ASSUME StopInv, ReportPanic
                         PROVE  stop' = stop /\ (stop # "no" => runCtx' = "cancelled")
  BY DEF StopInv, ReportPanic

LEMMA InitStopInv == Init => StopInv
  BY DEF Init, StopInv

\* One step per process: a worker or the loop that has ended can only report its panic.
LEMMA NextStopInv == TypeOK /\ StopInv /\ [Next]_vars => StopInv'
<1> SUFFICES ASSUME TypeOK, StopInv, [Next]_vars PROVE StopInv'
  OBVIOUS
<1>1. CASE UNCHANGED <<runCtx, stop, lpc, wpc>>
  BY <1>1 DEF StopInv
<1>2. CASE Start \/ CancelParent \/ Stop
  BY <1>2 DEF Start, CancelParent, Stop, StopInv, workerVars, loopVars
<1>3. CASE StopReturns
  BY <1>3 DEF StopReturns, StopInv, Ended, workerVars, loopVars
<1>4. ASSUME NEW w \in Worker, WorkerStep(w) \/ WorkerPanics(w)
      PROVE  StopInv'
  <2>1. lpc' = lpc /\ stop' = stop /\ (stop # "no" => runCtx' = "cancelled")
    <3>1. CASE WorkerReports(w)
      BY <3>1, ReportPanicStop DEF WorkerReports, loopVars
    <3>2. CASE ~WorkerReports(w)
      BY <1>4, <3>2 DEF WorkerStep, WorkerReceive, WorkerStarts, WorkerFinishes, WorkerExits,
                        WorkerPanics, StopInv, serviceVars, loopVars
    <3> QED BY <3>1, <3>2
  <2>2. stop = "stopped" => \A v \in Worker : wpc'[v] \in Ended
    <3>1. SUFFICES ASSUME stop = "stopped" PROVE \A v \in Worker : wpc'[v] \in Ended
      OBVIOUS
    <3>2. wpc[w] \in Ended
      BY <3>1 DEF StopInv
    <3>3. wpc' = [wpc EXCEPT ![w] = "exited"]
      BY <1>4, <3>2 DEF Ended, WorkerStep, WorkerReceive, WorkerStarts, WorkerFinishes, WorkerExits,
                        WorkerReports, WorkerPanics
    <3> QED BY <3>1, <3>3 DEF TypeOK, StopInv, Ended
  <2> QED BY <2>1, <2>2 DEF StopInv
<1>5. CASE LoopStep \/ LoopPanics \/ \E d \in Scheduled : LoopClaims(d)
  <2>1. wpc' = wpc /\ stop' = stop /\ (stop # "no" => runCtx' = "cancelled")
    <3>1. CASE LoopReports
      BY <3>1, ReportPanicStop DEF LoopReports, workerVars
    <3>2. CASE ~LoopReports
      BY <1>5, <3>2 DEF LoopStep, LoopSends, LoopExits, LoopPanics, LoopClaims, StopInv,
                        serviceVars, workerVars
    <3> QED BY <3>1, <3>2
  <2>2. stop = "stopped" => lpc' = "exited"
    BY <1>5 DEF LoopStep, LoopSends, LoopExits, LoopReports, LoopPanics, LoopClaims, StopInv, Ended
  <2> QED BY <2>1, <2>2 DEF StopInv, Ended
<1>6. CASE \E j \in Job : JobStep(j) \/ ExpireCheckJob(j)
  BY <1>1, <1>6 DEF JobStep, RunnerEnqueue, RunnerCollect, RunnerFinish, RunnerInterrupted,
                    ExpireCheckJob, serviceVars, workerVars, loopVars
<1>7. CASE \E j \in Job, t \in Tenant, ts \in TargetLists : StartCheckJob(j, t, ts)
  BY <1>1, <1>7 DEF StartCheckJob, workerVars, loopVars
<1>8. CASE UNCHANGED vars
  BY <1>1, <1>8 DEF vars, serviceVars, workerVars, loopVars
<1> QED BY <1>2, <1>3, <1>4, <1>5, <1>6, <1>7, <1>8 DEF Next

\* What a step may do to the log of a job once Stop has returned.
Quiet(j) == events'[j] # events[j] =>
                events'[j][Len(events'[j])].type \in {"domain.completed", "job.completed"}

LEMMA StoppedStep ==
    ASSUME TypeOK, StopInv, [Next]_vars, stop = "stopped"
    PROVE  (\A j \in Job : Quiet(j)) /\ \A w \in Worker : wpc'[w] # "checking"
<1>1. runCtx = "cancelled" /\ \A w \in Worker : wpc[w] \in Ended
  BY DEF StopInv
<1>2. \A w \in Worker : wpc'[w] # "checking"
  <2>1. StopInv' /\ stop' = "stopped"
    <3>1. stop' = stop
      BY DEF Next, Start, CancelParent, Stop, StopReturns, StartCheckJob, JobStep, RunnerEnqueue,
             RunnerCollect, RunnerFinish, RunnerInterrupted, ExpireCheckJob, WorkerStep,
             WorkerReceive, WorkerStarts, WorkerFinishes, WorkerExits, WorkerReports, WorkerPanics,
             LoopStep, LoopSends, LoopExits, LoopReports, LoopPanics, LoopClaims, ReportPanic,
             vars, serviceVars
    <3> QED BY <3>1, NextStopInv
  <2> QED BY <2>1 DEF StopInv, Ended
<1>3. ASSUME NEW j \in Job PROVE Quiet(j)
  <2>1. CASE events' = events
    BY <2>1 DEF Quiet
  <2>2. ASSUME NEW k \in Job, JobStep(k)
        PROVE  Quiet(j)
    <3>1. \/ events' = events
          \/ \E type \in {"domain.completed", "job.completed"} :
                \E d, status : AppendEvent(k, type, d, status)
      <4>1. CASE RunnerEnqueue(k)
        BY <4>1 DEF RunnerEnqueue, jobVars
      <4>2. CASE RunnerCollect(k)
        BY <4>2 DEF RunnerCollect, CompleteDomain
      <4>3. CASE RunnerFinish(k)
        BY <4>3 DEF RunnerFinish, Finish
      <4>4. CASE RunnerInterrupted(k)
        BY <4>4 DEF RunnerInterrupted, FinishInterrupted
      <4> QED BY <2>2, <4>1, <4>2, <4>3, <4>4 DEF JobStep
    <3>2. ASSUME NEW type \in {"domain.completed", "job.completed"}, NEW d, NEW status,
                 AppendEvent(k, type, d, status)
          PROVE  Quiet(j)
      <4>1. CASE k = j
        BY <3>2, <4>1, AppendEventEffect DEF Quiet
      <4>2. CASE k # j
        BY <3>2, <4>2, AppendEventEffect DEF Quiet
      <4> QED BY <4>1, <4>2
    <3> QED BY <2>1, <3>1, <3>2
  <2>3. CASE \E w \in Worker : WorkerStep(w) \/ WorkerPanics(w)
    <3>1. ~ \E w \in Worker : WorkerStarts(w)
      BY <1>1 DEF WorkerStarts, Ended
    <3> QED BY <2>1, <2>3, <3>1 DEF WorkerStep, WorkerReceive, WorkerFinishes, WorkerExits,
                                    WorkerReports, WorkerPanics, jobVars
  <2>4. ~ \E k \in Job, t \in Tenant, ts \in TargetLists : StartCheckJob(k, t, ts)
    BY <1>1 DEF StartCheckJob
  <2>5. CASE Start \/ CancelParent \/ Stop \/ StopReturns \/ \E k \in Job : ExpireCheckJob(k)
    BY <2>1, <2>5 DEF Start, CancelParent, Stop, StopReturns, ExpireCheckJob, jobVars
  <2>6. CASE LoopStep \/ LoopPanics \/ \E d \in Scheduled : LoopClaims(d)
    BY <2>1, <2>6 DEF LoopStep, LoopSends, LoopExits, LoopReports, LoopPanics, LoopClaims, jobVars
  <2>7. CASE UNCHANGED vars
    BY <2>1, <2>7 DEF vars, jobVars
  <2> QED BY <2>2, <2>3, <2>4, <2>5, <2>6, <2>7 DEF Next
<1> QED BY <1>2, <1>3

\* Once Stop has returned no worker is in a check or enters one, no job begins, and the logs
\* grow only by what the goroutines of the jobs still report (Service.Stop).
THEOREM StoppedStaysQuiet == Spec => StoppedIsQuiet
<1>1. TypeOK /\ StopInv /\ [Next]_vars
        => [stop = "stopped" =>
              /\ \A j \in Job : events'[j] # events[j] =>
                      events'[j][Len(events'[j])].type \in {"domain.completed", "job.completed"}
              /\ \A w \in Worker : wpc'[w] # "checking"]_vars
  BY StoppedStep DEF Quiet
<1>2. Spec => []StopInv
  BY InitStopInv, NextStopInv, TypeCorrect, PTL DEF Spec
<1> QED BY <1>1, <1>2, TypeCorrect, PTL DEF Spec, StoppedIsQuiet

-----------------------------------------------------------------------------
(* Counting the events of one type in a log *)

Count(log, type, n) == Cardinality({i \in 1..n : log[i].type = type})

LEMMA CountType == ASSUME NEW log, NEW type, NEW n \in Nat
                   PROVE  /\ Count(log, type, n) \in Nat
                          /\ IsFiniteSet({i \in 1..n : log[i].type = type})
<1>1. IsFiniteSet(1..n)
  BY FS_Interval
<1>2. IsFiniteSet({i \in 1..n : log[i].type = type})
  BY <1>1, FS_Subset
<1> QED BY <1>2, FS_CardinalityType DEF Count

\* An appended event changes no count up to an earlier position, and adds one to the count
\* of its own type.
LEMMA CountAppend ==
    ASSUME NEW log \in Seq(Event), NEW e \in Event, NEW type
    PROVE  /\ \A n \in 0..Len(log) : Count(Append(log, e), type, n) = Count(log, type, n)
           /\ Count(Append(log, e), type, Len(log) + 1)
                = IF e.type = type THEN Count(log, type, Len(log)) + 1 ELSE Count(log, type, Len(log))
<1> DEFINE new == Append(log, e)
           At(n) == {i \in 1..n : log[i].type = type}
<1>1. /\ Len(log) \in Nat /\ Len(new) = Len(log) + 1
      /\ new[Len(log) + 1] = e
      /\ \A i \in 1..Len(log) : new[i] = log[i]
  OBVIOUS
<1> HIDE DEF new
<1>2. ASSUME NEW n \in 0..Len(log) PROVE Count(new, type, n) = Count(log, type, n)
  <2>1. \A i \in 1..n : new[i] = log[i]
    BY <1>1
  <2>2. {i \in 1..n : new[i].type = type} = {i \in 1..n : log[i].type = type}
    BY <2>1
  <2> QED BY <2>2 DEF Count
<1>3. IsFiniteSet(At(Len(log)))
  BY <1>1, CountType
<1>4. CASE e.type = type
  <2>1. {i \in 1..(Len(log) + 1) : new[i].type = type} = At(Len(log)) \cup {Len(log) + 1}
    BY <1>1, <1>4
  <2>2. Len(log) + 1 \notin At(Len(log))
    BY <1>1
  <2>3. Cardinality(At(Len(log)) \cup {Len(log) + 1}) = Cardinality(At(Len(log))) + 1
    BY <1>3, <2>2, FS_AddElement
  <2> QED BY <1>2, <1>4, <2>1, <2>3 DEF Count, new
<1>5. CASE e.type # type
  <2>1. {i \in 1..(Len(log) + 1) : new[i].type = type} = At(Len(log))
    BY <1>1, <1>5
  <2> QED BY <1>2, <1>5, <2>1 DEF Count, new
<1> QED BY <1>4, <1>5

LEMMA OccurrencesIsCount == \A j \in Job : \A type, n : Occurrences(j, type, n) = Count(events[j], type, n)
  BY DEF Occurrences, Count

-----------------------------------------------------------------------------
(* What one step does to the log, the counters and the verdict of a job *)

\* Nothing, as far as its log is concerned.
Untouched(j) ==
    /\ events'[j] = events[j] /\ completed'[j] = completed[j] /\ done'[j] = done[j]
    /\ done[j] => targets'[j] = targets[j]

\* One event with the next identifier and the counters as they are now.
Grows(j, type, status) ==
    \E d \in Domain \cup {NoDomain} :
        LET e == [id |-> Len(events[j]) + 1, type |-> type, domain |-> d, status |-> status,
                  completed |-> completed'[j], succeeded |-> succeeded'[j], failed |-> failed'[j]]
        IN  e \in Event /\ events'[j] = Append(events[j], e)

\* A check begins, or the job itself does.
Begins(j) ==
    /\ completed'[j] = completed[j] /\ done'[j] = done[j]
    /\ \/ Grows(j, "domain.started", "running") /\ targets'[j] = targets[j]
       \/ Grows(j, "job.started", "running") /\ ~done[j]

Reports(j) ==
    /\ completed'[j] = completed[j] + 1 /\ ~done[j] /\ ~done'[j]
    /\ \E status \in DomainStatus : Grows(j, "domain.completed", status)

\* The verdict agrees with the counters, which cover every target.
Concludes(j) ==
    /\ ~done[j] /\ done'[j]
    /\ Total(j)' = Total(j) /\ completed'[j] = Total(j)
    /\ succeeded'[j] \in Nat /\ failed'[j] \in Nat /\ succeeded'[j] + failed'[j] = Total(j)
    /\ \E status \in EventStatus :
        /\ Grows(j, "job.completed", status)
        /\ status = "completed" => failed'[j] = 0
        /\ status = "partial" => failed'[j] \in 1..(Total(j) - 1)
        /\ failed'[j] = Total(j) => status = "failed"

LogStep(j) == Untouched(j) \/ Begins(j) \/ Reports(j) \/ Concludes(j)

\* AppendEvent is Grows for its job and leaves the other logs.
LEMMA AppendEventGrows ==
    ASSUME TypeOK, NEW j \in Job, NEW k \in Job, NEW type \in EventType,
           NEW d \in Domain \cup {NoDomain}, NEW status \in EventStatus,
           completed' \in [Job -> Nat], succeeded' \in [Job -> Nat], failed' \in [Job -> Nat],
           AppendEvent(j, type, d, status)
    PROVE  Grows(j, type, status) /\ (k # j => events'[k] = events[k])
<1> DEFINE e == [id |-> Len(events[j]) + 1, type |-> type, domain |-> d, status |-> status,
                 completed |-> completed'[j], succeeded |-> succeeded'[j], failed |-> failed'[j]]
<1>1. events \in [Job -> Seq(Event)] /\ events[j] \in Seq(Event)
  BY DEF TypeOK
<1>2. e \in Event
  <2>1. Len(events[j]) \in Nat
    BY <1>1
  <2> QED BY <2>1 DEF Event
<1>3. events' = [events EXCEPT ![j] = Append(events[j], e)]
  BY DEF AppendEvent
<1>4. events'[j] = Append(events[j], e) /\ (k # j => events'[k] = events[k])
  BY <1>1, <1>3
<1> QED BY <1>2, <1>4 DEF Grows

LEMMA StartCheckJobLog ==
    ASSUME IInv, NEW j \in Job, NEW k \in Job, NEW t \in Tenant, NEW ts \in TargetLists,
           StartCheckJob(k, t, ts)
    PROVE  LogStep(j)
<1>1. TypeOK /\ JobInv(k) /\ JobInv(j)
  BY DEF IInv
<1>2. UNCHANGED counterVars /\ AppendEvent(k, "job.started", NoDomain, "running")
  BY DEF StartCheckJob
<1>3. /\ completed' \in [Job -> Nat] /\ succeeded' \in [Job -> Nat] /\ failed' \in [Job -> Nat]
      /\ completed'[j] = completed[j] /\ done'[j] = done[j]
  BY <1>1, <1>2 DEF TypeOK, counterVars
<1>4. Grows(k, "job.started", "running") /\ (j # k => events'[j] = events[j])
  BY <1>1, <1>2, <1>3, AppendEventGrows DEF EventType, EventStatus
<1>5. CASE j = k
  <2>1. ~done[j]
    BY <1>1, <1>5 DEF StartCheckJob, JobInv
  <2> QED BY <1>3, <1>4, <1>5, <2>1 DEF LogStep, Begins
<1>6. CASE j # k
  <2>1. targets'[j] = targets[j]
    BY <1>1, <1>6 DEF StartCheckJob, TypeOK
  <2> QED BY <1>3, <1>4, <1>6, <2>1 DEF LogStep, Untouched
<1> QED BY <1>5, <1>6

LEMMA CollectLog == ASSUME IInv, NEW j \in Job, NEW k \in Job, RunnerCollect(k)
                    PROVE  LogStep(j)
<1>1. TypeOK /\ JobInv(k)
  BY DEF IInv
<1>2. PICK outcome \in Outcome : CompleteDomain(k, outcome)
  <2>1. results[k] \in Seq(Outcome) /\ results[k] # <<>>
    BY <1>1 DEF RunnerCollect, TypeOK
  <2>2. Head(results[k]) \in Outcome
    BY <2>1
  <2> QED BY <2>2 DEF RunnerCollect
<1>3. /\ completed' \in [Job -> Nat] /\ succeeded' \in [Job -> Nat] /\ failed' \in [Job -> Nat]
      /\ done' = done
      /\ completed'[k] = completed[k] + 1
      /\ \A i \in Job \ {k} : completed'[i] = completed[i]
  BY <1>1, <1>2, CompleteDomainCounts
<1>4. ~done[k] /\ targets' = targets
  BY <1>1 DEF RunnerCollect, JobInv
<1>5. Grows(k, "domain.completed", outcome.status) /\ (j # k => events'[j] = events[j])
  <2>1. /\ "domain.completed" \in EventType
        /\ outcome.domain \in Domain \cup {NoDomain} /\ outcome.status \in EventStatus
    BY DEF EventType, EventStatus, Outcome
  <2>2. AppendEvent(k, "domain.completed", outcome.domain, outcome.status)
    BY <1>2 DEF CompleteDomain
  <2> QED BY <1>1, <1>3, <2>1, <2>2, AppendEventGrows
<1>6. outcome.status \in DomainStatus
  BY DEF Outcome
<1>7. CASE j = k
  BY <1>3, <1>4, <1>5, <1>6, <1>7 DEF LogStep, Reports
<1>8. CASE j # k
  BY <1>3, <1>4, <1>5, <1>8 DEF LogStep, Untouched
<1> QED BY <1>7, <1>8

\* With every target reported the three verdicts partition the number of failures.
LEMMA FinishLog == ASSUME IInv, NEW j \in Job, NEW k \in Job, RunnerFinish(k)
                   PROVE  LogStep(j)
<1>1. TypeOK /\ JobInv(k) /\ Total(k) \in Nat
  BY TotalType DEF IInv
<1>2. ~done[k] /\ completed[k] = Total(k) /\ succeeded[k] + failed[k] = Total(k)
  BY <1>1 DEF RunnerFinish, JobInv
<1>3. /\ UNCHANGED <<completed, succeeded, failed, targets>> /\ done' = [done EXCEPT ![k] = TRUE]
      /\ AppendEvent(k, "job.completed", NoDomain, Verdict(k))
  BY <1>2 DEF RunnerFinish, Finish
<1>4. /\ completed \in [Job -> Nat] /\ succeeded \in [Job -> Nat] /\ failed \in [Job -> Nat]
      /\ done \in [Job -> BOOLEAN]
  BY <1>1 DEF TypeOK
<1>5. Verdict(k) \in EventStatus
  BY DEF Verdict, EventStatus
<1>6. Grows(k, "job.completed", Verdict(k)) /\ (j # k => events'[j] = events[j])
  <2>1. "job.completed" \in EventType
    BY DEF EventType
  <2> QED BY <1>1, <1>3, <1>4, <1>5, <2>1, AppendEventGrows
<1>7. CASE j = k
  <2>1. succeeded[k] \in Nat /\ failed[k] \in Nat
    BY <1>4
  <2>2. /\ Verdict(k) = "completed" => failed[k] = 0
        /\ Verdict(k) = "partial" => failed[k] \in 1..(Total(k) - 1)
        /\ failed[k] = Total(k) => Verdict(k) = "failed"
    BY <1>1, <1>2, <2>1 DEF Verdict
  <2>3. done'[k] /\ Total(k)' = Total(k)
    BY <1>3, <1>4 DEF Total
  <2> QED BY <1>2, <1>3, <1>5, <1>6, <1>7, <2>1, <2>2, <2>3 DEF LogStep, Concludes
<1>8. CASE j # k
  <2>1. done'[j] = done[j]
    BY <1>3, <1>4, <1>8
  <2> QED BY <1>3, <1>6, <1>8, <2>1 DEF LogStep, Untouched
<1> QED BY <1>7, <1>8

LEMMA InterruptedLog == ASSUME IInv, NEW j \in Job, NEW k \in Job, RunnerInterrupted(k)
                        PROVE  LogStep(j)
<1>1. TypeOK /\ JobInv(k) /\ Total(k) \in Nat
  BY TotalType DEF IInv
<1>2. ~done[k] /\ completed[k] = succeeded[k] + failed[k]
  BY <1>1 DEF RunnerInterrupted, JobInv
<1>3. /\ failed' = [failed EXCEPT ![k] = failed[k] + (Total(k) - completed[k])]
      /\ completed' = [completed EXCEPT ![k] = Total(k)]
      /\ done' = [done EXCEPT ![k] = TRUE]
      /\ succeeded' = succeeded /\ targets' = targets
      /\ AppendEvent(k, "job.completed", NoDomain, "failed")
  BY <1>2 DEF RunnerInterrupted, FinishInterrupted
<1>4. /\ completed \in [Job -> Nat] /\ succeeded \in [Job -> Nat] /\ failed \in [Job -> Nat]
      /\ done \in [Job -> BOOLEAN]
  BY <1>1 DEF TypeOK
<1>5. /\ TypeOK'
      /\ completed' \in [Job -> Nat] /\ succeeded' \in [Job -> Nat] /\ failed' \in [Job -> Nat]
  <2>1. IInv'
    BY InterruptedIInv
  <2> QED BY <2>1 DEF IInv, TypeOK
<1>6. Grows(k, "job.completed", "failed") /\ (j # k => events'[j] = events[j])
  <2>1. "job.completed" \in EventType /\ "failed" \in EventStatus
    BY DEF EventType, EventStatus
  <2> QED BY <1>1, <1>3, <1>5, <2>1, AppendEventGrows
<1>7. CASE j = k
  <2>1. succeeded[k] \in Nat /\ failed[k] \in Nat /\ succeeded'[k] \in Nat /\ failed'[k] \in Nat
    BY <1>4, <1>5
  <2>2. /\ completed'[k] = Total(k) /\ done'[k] /\ Total(k)' = Total(k)
        /\ failed'[k] = failed[k] + (Total(k) - completed[k]) /\ succeeded'[k] = succeeded[k]
    BY <1>3, <1>4 DEF Total
  <2>3. succeeded'[k] + failed'[k] = Total(k)
    BY <1>1, <1>2, <2>1, <2>2
  <2>4. "failed" \in EventStatus
    BY DEF EventStatus
  <2> QED BY <1>2, <1>6, <1>7, <2>1, <2>2, <2>3, <2>4 DEF LogStep, Concludes
<1>8. CASE j # k
  <2>1. done'[j] = done[j] /\ completed'[j] = completed[j]
    BY <1>3, <1>4, <1>8
  <2> QED BY <1>3, <1>6, <1>8, <2>1 DEF LogStep, Untouched
<1> QED BY <1>7, <1>8

LEMMA WorkerStartsLog == ASSUME IInv, NEW j \in Job, NEW w \in Worker, WorkerStarts(w)
                         PROVE  LogStep(j)
<1>1. TypeOK
  BY DEF IInv
<1>2. /\ UNCHANGED <<counterVars, targets>>
      /\ completed' \in [Job -> Nat] /\ succeeded' \in [Job -> Nat] /\ failed' \in [Job -> Nat]
      /\ completed'[j] = completed[j] /\ done'[j] = done[j] /\ targets'[j] = targets[j]
  BY <1>1 DEF WorkerStarts, counterVars, TypeOK
<1>3. CASE events' = events
  BY <1>2, <1>3 DEF LogStep, Untouched
<1>4. CASE events' # events
  <2>1. wtask[w].job \in Job /\ AppendEvent(wtask[w].job, "domain.started", wtask[w].domain, "running")
    BY <1>4 DEF WorkerStarts
  <2>2. /\ wtask[w].domain \in Domain \cup {NoDomain}
        /\ "domain.started" \in EventType /\ "running" \in EventStatus
    BY <1>1 DEF TypeOK, Task, NoTask, EventType, EventStatus
  <2>3. Grows(wtask[w].job, "domain.started", "running") /\ (j # wtask[w].job => events'[j] = events[j])
    BY <1>1, <1>2, <2>1, <2>2, AppendEventGrows
  <2>4. CASE wtask[w].job = j
    BY <1>2, <2>3, <2>4 DEF LogStep, Begins
  <2>5. CASE wtask[w].job # j
    BY <1>2, <2>3, <2>5 DEF LogStep, Untouched
  <2> QED BY <2>4, <2>5
<1> QED BY <1>3, <1>4

LEMMA NextLog == ASSUME IInv, [Next]_vars, NEW j \in Job
                 PROVE  LogStep(j)
<1>1. CASE UNCHANGED <<events, counterVars, targets>>
  BY <1>1 DEF LogStep, Untouched, counterVars
<1>2. CASE \E k \in Job, t \in Tenant, ts \in TargetLists : StartCheckJob(k, t, ts)
  BY <1>2, StartCheckJobLog
<1>3. CASE \E k \in Job : JobStep(k) \/ ExpireCheckJob(k)
  <2>1. CASE \E k \in Job : RunnerEnqueue(k) \/ ExpireCheckJob(k)
    BY <1>1, <2>1 DEF RunnerEnqueue, ExpireCheckJob, jobVars
  <2> QED BY <1>3, <2>1, CollectLog, FinishLog, InterruptedLog DEF JobStep
<1>4. CASE \E w \in Worker : WorkerStep(w) \/ WorkerPanics(w)
  <2>1. CASE ~ \E w \in Worker : WorkerStarts(w)
    BY <1>1, <1>4, <2>1 DEF WorkerStep, WorkerReceive, WorkerFinishes, WorkerExits, WorkerReports,
                            WorkerPanics, jobVars
  <2> QED BY <2>1, WorkerStartsLog
<1>5. CASE Start \/ CancelParent \/ Stop \/ StopReturns
  BY <1>1, <1>5 DEF Start, CancelParent, Stop, StopReturns, jobVars
<1>6. CASE LoopStep \/ LoopPanics \/ \E d \in Scheduled : LoopClaims(d)
  BY <1>1, <1>6 DEF LoopStep, LoopSends, LoopExits, LoopReports, LoopPanics, LoopClaims, jobVars
<1>7. CASE UNCHANGED vars
  BY <1>1, <1>7 DEF vars, jobVars
<1> QED BY <1>2, <1>3, <1>4, <1>5, <1>6, <1>7 DEF Next

-----------------------------------------------------------------------------
(* The log shows the progress *)

\* The events of a log are numbered by their positions, the completions among them show how
\* many there are up to each, and the counter of an open job is the number of them all.
ProgressInv(j) ==
    /\ \A i \in 1..Len(events[j]) :
        /\ events[j][i].id = i
        /\ events[j][i].type = "domain.completed" =>
                events[j][i].completed = Count(events[j], "domain.completed", i)
    /\ ~done[j] => completed[j] = Count(events[j], "domain.completed", Len(events[j]))

\* The new log, entry by entry.
LEMMA GrowsEntries ==
    ASSUME TypeOK, NEW j \in Job, NEW type, NEW status, Grows(j, type, status)
    PROVE  LET n == Len(events[j]) IN
           /\ n \in Nat /\ Len(events'[j]) = n + 1
           /\ \A i \in 1..n : events'[j][i] = events[j][i]
           /\ events'[j][n + 1].id = n + 1
           /\ events'[j][n + 1].type = type /\ events'[j][n + 1].status = status
           /\ events'[j][n + 1].completed = completed'[j]
           /\ events'[j][n + 1].succeeded = succeeded'[j]
           /\ events'[j][n + 1].failed = failed'[j]
<1>1. events[j] \in Seq(Event)
  BY DEF TypeOK
<1>2. PICK d \in Domain \cup {NoDomain} :
        events'[j] = Append(events[j],
            [id |-> Len(events[j]) + 1, type |-> type, domain |-> d, status |-> status,
             completed |-> completed'[j], succeeded |-> succeeded'[j], failed |-> failed'[j]])
  BY DEF Grows
<1> QED BY <1>1, <1>2

\* The counts of the new log.
LEMMA GrowsCount ==
    ASSUME TypeOK, NEW j \in Job, NEW type, NEW status, Grows(j, type, status), NEW other
    PROVE  LET n == Len(events[j]) IN
           /\ \A i \in 0..n : Count(events'[j], other, i) = Count(events[j], other, i)
           /\ Count(events'[j], other, n + 1)
                = IF type = other THEN Count(events[j], other, n) + 1 ELSE Count(events[j], other, n)
<1>1. events[j] \in Seq(Event)
  BY DEF TypeOK
<1>2. PICK e \in Event : events'[j] = Append(events[j], e) /\ e.type = type
  BY DEF Grows
<1> QED BY <1>1, <1>2, CountAppend

LEMMA ProgressStep == ASSUME TypeOK, NEW j \in Job, LogStep(j), ProgressInv(j)
                      PROVE  ProgressInv(j)'
<1> DEFINE n == Len(events[j])
<1>1. CASE Untouched(j)
  BY <1>1 DEF Untouched, ProgressInv
\* An event of another type: no count changes.
<1>2. ASSUME NEW type, type # "domain.completed", NEW status, Grows(j, type, status),
             ~done'[j] => ~done[j] /\ completed'[j] = completed[j]
      PROVE  ProgressInv(j)'
  <2>1. /\ n \in Nat /\ Len(events'[j]) = n + 1
        /\ \A i \in 1..n : events'[j][i] = events[j][i]
        /\ events'[j][n + 1].id = n + 1 /\ events'[j][n + 1].type = type
    BY <1>2, GrowsEntries
  <2>2. /\ \A i \in 0..n : Count(events'[j], "domain.completed", i) = Count(events[j], "domain.completed", i)
        /\ Count(events'[j], "domain.completed", n + 1) = Count(events[j], "domain.completed", n)
    BY <1>2, GrowsCount
  <2>3. ASSUME NEW i \in 1..Len(events'[j])
        PROVE  /\ events'[j][i].id = i
               /\ events'[j][i].type = "domain.completed" =>
                    events'[j][i].completed = Count(events'[j], "domain.completed", i)
    <3>1. CASE i \in 1..n
      BY <2>1, <2>2, <3>1 DEF ProgressInv
    <3>2. CASE i = n + 1
      BY <1>2, <2>1, <3>2
    <3> QED BY <2>1, <3>1, <3>2
  <2>4. ~done'[j] => completed'[j] = Count(events'[j], "domain.completed", Len(events'[j]))
    BY <1>2, <2>1, <2>2 DEF ProgressInv
  <2> QED BY <2>3, <2>4 DEF ProgressInv, Count
<1>3. CASE Begins(j)
  BY <1>2, <1>3 DEF Begins
<1>4. CASE Concludes(j)
  BY <1>2, <1>4 DEF Concludes
<1>5. CASE Reports(j)
  <2>1. PICK status : Grows(j, "domain.completed", status)
    BY <1>5 DEF Reports
  <2>2. /\ n \in Nat /\ Len(events'[j]) = n + 1
        /\ \A i \in 1..n : events'[j][i] = events[j][i]
        /\ events'[j][n + 1].id = n + 1
        /\ events'[j][n + 1].completed = completed'[j]
    BY <2>1, GrowsEntries
  <2>3. /\ \A i \in 0..n : Count(events'[j], "domain.completed", i) = Count(events[j], "domain.completed", i)
        /\ Count(events'[j], "domain.completed", n + 1) = Count(events[j], "domain.completed", n) + 1
    BY <2>1, GrowsCount
  <2>4. completed'[j] = Count(events'[j], "domain.completed", n + 1)
    BY <1>5, <2>3 DEF Reports, ProgressInv
  <2>5. ASSUME NEW i \in 1..Len(events'[j])
        PROVE  /\ events'[j][i].id = i
               /\ events'[j][i].type = "domain.completed" =>
                    events'[j][i].completed = Count(events'[j], "domain.completed", i)
    <3>1. CASE i \in 1..n
      BY <2>2, <2>3, <3>1 DEF ProgressInv
    <3>2. CASE i = n + 1
      BY <2>2, <2>4, <3>2
    <3> QED BY <2>2, <3>1, <3>2
  <2> QED BY <2>2, <2>4, <2>5 DEF ProgressInv, Count
<1> QED BY <1>1, <1>3, <1>4, <1>5 DEF LogStep

\* Event identifiers are the positions in the log, and a completion shows how many targets
\* are reported up to it, in every job and at any time: what Last-Event-ID resumption and
\* the progress bar of the web client build on (appendEvent, completeDomain).
THEOREM LogAlwaysProgress == Spec => []LogIsProgress
<1> DEFINE Inv == \A j \in Job : ProgressInv(j)
<1>1. Init => Inv
  <2> SUFFICES ASSUME Init, NEW j \in Job PROVE ProgressInv(j)
    OBVIOUS
  <2>1. events[j] = <<>> /\ completed[j] = 0 /\ Len(events[j]) = 0
    BY DEF Init
  <2>2. Count(events[j], "domain.completed", 0) = 0
    <3>1. {i \in 1..0 : events[j][i].type = "domain.completed"} = {}
      OBVIOUS
    <3> QED BY <3>1, FS_EmptySet DEF Count
  <2> QED BY <2>1, <2>2 DEF ProgressInv
<1>2. IInv /\ Inv /\ [Next]_vars => Inv'
  <2> SUFFICES ASSUME IInv, Inv, [Next]_vars, NEW j \in Job PROVE ProgressInv(j)'
    OBVIOUS
  <2> QED BY NextLog, ProgressStep DEF IInv
<1>3. Inv => LogIsProgress
  BY OccurrencesIsCount DEF ProgressInv, LogIsProgress
<1> QED BY <1>1, <1>2, <1>3, Invariance, PTL DEF Spec

-----------------------------------------------------------------------------
(* One verdict *)

\* The event at i is a verdict that covers every target, agrees with its own counters, and
\* is followed by nothing but checks that a worker still began.
Conclusive(j, i) ==
    /\ \A k \in (i + 1)..Len(events[j]) : events[j][k].type = "domain.started"
    /\ events[j][i].completed = Total(j)
    /\ events[j][i].succeeded + events[j][i].failed = Total(j)
    /\ events[j][i].status = "completed" => events[j][i].failed = 0
    /\ events[j][i].status = "partial" => events[j][i].failed \in 1..(Total(j) - 1)
    /\ events[j][i].failed = Total(j) => events[j][i].status = "failed"

VerdictInv(j) ==
    /\ Count(events[j], "job.completed", Len(events[j])) = IF done[j] THEN 1 ELSE 0
    /\ \A i \in 1..Len(events[j]) :
            events[j][i].type = "job.completed" => done[j] /\ Conclusive(j, i)

LEMMA VerdictStep == ASSUME TypeOK, NEW j \in Job, LogStep(j), VerdictInv(j)
                     PROVE  VerdictInv(j)'
<1> DEFINE n == Len(events[j])
<1>1. CASE Untouched(j)
  <2>1. CASE done[j]
    BY <1>1, <2>1 DEF Untouched, VerdictInv, Conclusive, Total
  <2>2. CASE ~done[j]
    BY <1>1, <2>2 DEF Untouched, VerdictInv
  <2> QED BY <2>1, <2>2
\* While the job is open its log has no verdict, and gets none with another type of event.
<1>2. ASSUME NEW type, type # "job.completed", NEW status, Grows(j, type, status),
             ~done[j], ~done'[j]
      PROVE  VerdictInv(j)'
  <2>1. /\ n \in Nat /\ Len(events'[j]) = n + 1
        /\ \A i \in 1..n : events'[j][i] = events[j][i]
        /\ events'[j][n + 1].type = type
    BY <1>2, GrowsEntries
  <2>2. Count(events'[j], "job.completed", n + 1) = Count(events[j], "job.completed", n)
    BY <1>2, GrowsCount
  <2>3. \A i \in 1..Len(events'[j]) : events'[j][i].type # "job.completed"
    BY <1>2, <2>1, SMTT(30) DEF VerdictInv
  <2> QED BY <1>2, <2>1, <2>2, <2>3 DEF VerdictInv
<1>3. CASE Begins(j) /\ ~done[j]
  <2>1. \E type \in {"domain.started", "job.started"} : Grows(j, type, "running")
    BY <1>3 DEF Begins
  <2> QED BY <1>2, <1>3, <2>1 DEF Begins
<1>4. CASE Reports(j)
  BY <1>2, <1>4 DEF Reports
\* A job that is done can only see a check begin.
<1>5. CASE Begins(j) /\ done[j]
  <2>1. Grows(j, "domain.started", "running") /\ done'[j] = done[j] /\ Total(j)' = Total(j)
    BY <1>5 DEF Begins, Total
  <2>2. /\ n \in Nat /\ Len(events'[j]) = n + 1
        /\ \A i \in 1..n : events'[j][i] = events[j][i]
        /\ events'[j][n + 1].type = "domain.started"
    BY <2>1, GrowsEntries
  <2>3. Count(events'[j], "job.completed", n + 1) = Count(events[j], "job.completed", n)
    BY <2>1, GrowsCount
  <2>4. ASSUME NEW i \in 1..Len(events'[j]), events'[j][i].type = "job.completed"
        PROVE  Conclusive(j, i)'
    <3>1. i \in 1..n /\ events[j][i].type = "job.completed" /\ events'[j][i] = events[j][i]
      BY <2>2, <2>4
    <3>2. Conclusive(j, i)
      BY <3>1 DEF VerdictInv
    <3>3. \A k \in (i + 1)..Len(events'[j]) : events'[j][k].type = "domain.started"
      BY <2>2, <3>1, <3>2 DEF Conclusive
    <3> QED BY <2>1, <3>1, <3>2, <3>3 DEF Conclusive
  <2> QED BY <1>5, <2>1, <2>2, <2>3, <2>4 DEF VerdictInv, Count
<1>6. CASE Concludes(j)
  <2>1. PICK status \in EventStatus :
            /\ Grows(j, "job.completed", status)
            /\ status = "completed" => failed'[j] = 0
            /\ status = "partial" => failed'[j] \in 1..(Total(j) - 1)
            /\ failed'[j] = Total(j) => status = "failed"
    BY <1>6 DEF Concludes
  <2>2. /\ n \in Nat /\ Len(events'[j]) = n + 1
        /\ \A i \in 1..n : events'[j][i] = events[j][i]
        /\ events'[j][n + 1].type = "job.completed" /\ events'[j][n + 1].status = status
        /\ events'[j][n + 1].completed = completed'[j]
        /\ events'[j][n + 1].succeeded = succeeded'[j]
        /\ events'[j][n + 1].failed = failed'[j]
    BY <2>1, GrowsEntries
  <2>3. Count(events'[j], "job.completed", n + 1) = Count(events[j], "job.completed", n) + 1
    BY <2>1, GrowsCount
  <2>4. Count(events[j], "job.completed", n) = 0 /\ done'[j]
    BY <1>6 DEF Concludes, VerdictInv
  <2>5. ASSUME NEW i \in 1..Len(events'[j]), events'[j][i].type = "job.completed"
        PROVE  Conclusive(j, i)'
    <3>1. i = n + 1
      BY <1>6, <2>2, <2>5, SMTT(30) DEF Concludes, VerdictInv
    <3> QED BY <1>6, <2>1, <2>2, <3>1 DEF Concludes, Conclusive
  <2> QED BY <2>2, <2>3, <2>4, <2>5 DEF VerdictInv, Count
<1> QED BY <1>1, <1>3, <1>4, <1>5, <1>6 DEF LogStep

LEMMA InitVerdictInv == Init => \A j \in Job : VerdictInv(j)
<1> SUFFICES ASSUME Init, NEW j \in Job PROVE VerdictInv(j)
  OBVIOUS
<1>1. events[j] = <<>> /\ ~done[j] /\ Len(events[j]) = 0
  BY DEF Init
<1>2. Count(events[j], "job.completed", 0) = 0
  <2>1. {i \in 1..0 : events[j][i].type = "job.completed"} = {}
    OBVIOUS
  <2> QED BY <2>1, FS_EmptySet DEF Count
<1> QED BY <1>1, <1>2 DEF VerdictInv

\* However its goroutine, the workers and shutdown interleave, a job is done exactly when
\* its log has one verdict, the verdict covers every target and agrees with the counters,
\* and only checks already queued may still follow it (finish, finishInterrupted).
THEOREM VerdictAlwaysOne == Spec => []OneVerdict
<1> DEFINE Inv == \A j \in Job : VerdictInv(j)
<1>1. Init => Inv
  BY InitVerdictInv
<1>2. IInv /\ Inv /\ [Next]_vars => Inv'
  <2> SUFFICES ASSUME IInv, Inv, [Next]_vars, NEW j \in Job PROVE VerdictInv(j)'
    OBVIOUS
  <2> QED BY NextLog, VerdictStep DEF IInv
<1>3. Inv => OneVerdict
  BY OccurrencesIsCount DEF VerdictInv, Conclusive, OneVerdict
<1> QED BY <1>1, <1>2, <1>3, Invariance, PTL DEF Spec

-----------------------------------------------------------------------------
(* The view of one job *)

Phase(j) == IF rpc[j] = "none" THEN "absent" ELSE IF done[j] THEN "closed" ELSE "open"

ViewSame(j) ==
    /\ Phase(j)' = Phase(j) /\ Total(j)' = Total(j)
    /\ completed'[j] = completed[j] /\ succeeded'[j] = succeeded[j]
    /\ VerdictOrNone(j)' = VerdictOrNone(j)

ViewBegins(j) ==
    /\ Phase(j) = "absent" /\ Phase(j)' = "open"
    /\ \E ts \in TargetLists : Total(j)' = Len(ts) /\ Len(ts) \in Nat \ {0}
    /\ completed'[j] = completed[j] /\ succeeded'[j] = succeeded[j]
    /\ VerdictOrNone(j)' = VerdictOrNone(j)

ViewReports(j) ==
    /\ Phase(j) = "open" /\ Phase(j)' = "open" /\ Total(j)' = Total(j)
    /\ completed[j] < Total(j) /\ completed'[j] = completed[j] + 1
    /\ succeeded'[j] = succeeded[j] + 0 \/ succeeded'[j] = succeeded[j] + 1
    /\ VerdictOrNone(j)' = VerdictOrNone(j)

ViewCloses(j) ==
    /\ Phase(j) = "open" /\ Phase(j)' = "closed" /\ Total(j)' = Total(j)
    /\ completed[j] = Total(j) /\ completed'[j] = completed[j] /\ succeeded'[j] = succeeded[j]
    /\ VerdictOrNone(j)' = CASE succeeded[j] = Total(j) -> "completed"
                             [] succeeded[j] = 0 /\ Total(j) # 0 -> "failed"
                             [] OTHER -> "partial"

ViewCutShort(j) ==
    /\ Phase(j) = "open" /\ Phase(j)' = "closed" /\ Total(j)' = Total(j)
    /\ completed'[j] = Total(j) /\ succeeded'[j] = succeeded[j]
    /\ VerdictOrNone(j)' = "failed"

ViewStep(j) == ViewBegins(j) \/ ViewReports(j) \/ ViewCloses(j) \/ ViewCutShort(j)

\* One job's view changes, or none.
ViewNext ==
    \/ \A j \in Job : ViewSame(j)
    \/ \E k \in Job : ViewStep(k) /\ \A j \in Job \ {k} : ViewSame(j)

\* Every job that began has targets.
SizeInv == \A j \in Job : rpc[j] # "none" => Total(j) # 0

PInv == IInv /\ SizeInv /\ \A j \in Job : VerdictInv(j)

-----------------------------------------------------------------------------
(* The verdict as it is read off the log *)

VerdictOf(log) == log[CHOOSE i \in 1..Len(log) : log[i].type = "job.completed"].status

LEMMA VerdictIs == \A j \in Job : VerdictOrNone(j) = IF done[j] THEN VerdictOf(events[j]) ELSE "none"
  BY DEF VerdictOrNone, VerdictOf

\* The only verdict of a log is the one that is read.
LEMMA VerdictFound ==
    ASSUME NEW log, NEW i \in 1..Len(log), log[i].type = "job.completed",
           \A k \in 1..Len(log) : log[k].type = "job.completed" => k = i
    PROVE  VerdictOf(log) = log[i].status
<1>1. (CHOOSE k \in 1..Len(log) : log[k].type = "job.completed") = i
  OBVIOUS
<1> QED BY <1>1 DEF VerdictOf

\* A job that is done has exactly one verdict in its log.
LEMMA VerdictPlace ==
    ASSUME TypeOK, NEW j \in Job, VerdictInv(j), done[j]
    PROVE  \E i \in 1..Len(events[j]) :
                /\ events[j][i].type = "job.completed"
                /\ \A k \in 1..Len(events[j]) : events[j][k].type = "job.completed" => k = i
<1>1. events[j] \in Seq(Event) /\ Len(events[j]) \in Nat
  <2>1. events[j] \in Seq(Event)
    BY DEF TypeOK
  <2> QED BY <2>1
<1>2. PICK i \in 1..Len(events[j]) : events[j][i].type = "job.completed"
  <2> DEFINE found == {i \in 1..Len(events[j]) : events[j][i].type = "job.completed"}
  <2>1. Cardinality(found) = 1
    BY DEF VerdictInv, Count
  <2>2. found # {}
    BY <2>1, FS_EmptySet
  <2> QED BY <2>2
<1>3. ASSUME NEW k \in 1..Len(events[j]), events[j][k].type = "job.completed"
      PROVE  k = i
  <2>1. \A m \in (i + 1)..Len(events[j]) : events[j][m].type = "domain.started"
    BY <1>2 DEF VerdictInv, Conclusive
  <2>2. \A m \in (k + 1)..Len(events[j]) : events[j][m].type = "domain.started"
    BY <1>3 DEF VerdictInv, Conclusive
  <2>3. ~(i < k)
    BY <1>1, <1>3, <2>1
  <2>4. ~(k < i)
    BY <1>1, <1>2, <2>2
  <2> QED BY <1>1, <2>3, <2>4
<1> QED BY <1>2, <1>3

\* A check that still begins after the verdict does not change it.
LEMMA VerdictKept ==
    ASSUME TypeOK, NEW j \in Job, VerdictInv(j), done[j], Grows(j, "domain.started", "running")
    PROVE  VerdictOf(events'[j]) = VerdictOf(events[j])
<1>1. PICK i \in 1..Len(events[j]) :
        /\ events[j][i].type = "job.completed"
        /\ \A k \in 1..Len(events[j]) : events[j][k].type = "job.completed" => k = i
  BY VerdictPlace
<1>2. /\ Len(events[j]) \in Nat /\ Len(events'[j]) = Len(events[j]) + 1
      /\ \A k \in 1..Len(events[j]) : events'[j][k] = events[j][k]
      /\ events'[j][Len(events[j]) + 1].type = "domain.started"
  BY GrowsEntries
<1>3. VerdictOf(events[j]) = events[j][i].status
  BY <1>1, VerdictFound
<1> DEFINE n == Len(events[j])
<1>4. i \in 1..Len(events'[j]) /\ events'[j][i] = events[j][i]
  BY <1>1, <1>2
<1>5. ASSUME NEW k \in 1..Len(events'[j]), events'[j][k].type = "job.completed"
      PROVE  k = i
  <2>1. CASE k \in 1..n
    BY <1>1, <1>2, <1>5, <2>1
  <2>2. CASE k = n + 1
    <3>1. events'[j][k].type = "domain.started"
      BY <1>2, <2>2
    <3> QED BY <1>5, <3>1
  <2>3. n \in Nat /\ k \in 1..(n + 1)
    BY <1>2
  <2> QED BY <2>1, <2>2, <2>3
<1>6. VerdictOf(events'[j]) = events'[j][i].status
  BY <1>1, <1>4, <1>5, VerdictFound
<1> QED BY <1>3, <1>4, <1>6

\* The first verdict of a log is the one that is read.
LEMMA VerdictGiven ==
    ASSUME TypeOK, NEW j \in Job, VerdictInv(j), ~done[j], NEW status, Grows(j, "job.completed", status)
    PROVE  VerdictOf(events'[j]) = status
<1> DEFINE n == Len(events[j])
<1>1. /\ n \in Nat /\ Len(events'[j]) = n + 1
      /\ \A k \in 1..n : events'[j][k] = events[j][k]
      /\ events'[j][n + 1].type = "job.completed" /\ events'[j][n + 1].status = status
  BY GrowsEntries
<1>2. \A k \in 1..n : events[j][k].type # "job.completed"
  BY DEF VerdictInv
<1> HIDE DEF n
<1>3. /\ n + 1 \in 1..Len(events'[j])
      /\ \A k \in 1..Len(events'[j]) : events'[j][k].type = "job.completed" => k = n + 1
  BY <1>1, <1>2
<1>4. VerdictOf(events'[j]) = events'[j][n + 1].status
  BY <1>1, <1>3, VerdictFound
<1> QED BY <1>1, <1>4

-----------------------------------------------------------------------------
(* The view after each step *)

\* A job whose goroutine, targets, counters and log a step leaves alone looks the same; its
\* goroutine may go from one loop to the next.
LEMMA SameView ==
    ASSUME NEW j \in Job, (rpc'[j] = "none") <=> (rpc[j] = "none"), targets'[j] = targets[j],
           completed'[j] = completed[j], succeeded'[j] = succeeded[j], done'[j] = done[j],
           events'[j] = events[j]
    PROVE  ViewSame(j)
<1>1. VerdictOrNone(j)' = VerdictOrNone(j)
  BY VerdictIs DEF VerdictOrNone
<1> QED BY <1>1 DEF ViewSame, Phase, Total

LEMMA StartCheckJobView ==
    ASSUME PInv, NEW k \in Job, NEW t \in Tenant, NEW ts \in TargetLists, StartCheckJob(k, t, ts)
    PROVE  ViewNext
<1>1. TypeOK /\ JobInv(k)
  BY DEF PInv, IInv
<1>2. /\ rpc[k] = "none" /\ rpc' = [rpc EXCEPT ![k] = "enqueue"] /\ ts # <<>>
      /\ targets' = [targets EXCEPT ![k] = ts] /\ UNCHANGED <<completed, succeeded, done>>
      /\ AppendEvent(k, "job.started", NoDomain, "running")
  BY DEF StartCheckJob, counterVars
<1>3. rpc'[k] = "enqueue" /\ targets'[k] = ts /\ ~done[k] /\ ~done'[k]
  BY <1>1, <1>2 DEF TypeOK, JobInv
<1>4. Len(ts) \in Nat \ {0}
  <2>1. ts \in Seq(Domain)
    BY TargetAssumption
  <2> QED BY <1>2, <2>1
<1>5. ViewBegins(k)
  <2>1. VerdictOrNone(k)' = "none" /\ VerdictOrNone(k) = "none"
    BY <1>3 DEF VerdictOrNone
  <2>2. Total(k)' = Len(ts)
    BY <1>3 DEF Total
  <2>3. Phase(k) = "absent" /\ Phase(k)' = "open"
    BY <1>2, <1>3 DEF Phase
  <2> QED BY <1>2, <1>4, <2>1, <2>2, <2>3 DEF ViewBegins
<1>6. ASSUME NEW j \in Job \ {k} PROVE ViewSame(j)
  <2>1. events'[j] = events[j]
    BY <1>1, <1>2, AppendEventEffect
  <2>2. rpc'[j] = rpc[j] /\ targets'[j] = targets[j]
    BY <1>1, <1>2 DEF TypeOK
  <2> QED BY <1>2, <2>1, <2>2, SameView
<1> QED BY <1>5, <1>6 DEF ViewNext, ViewStep

LEMMA CollectView == ASSUME PInv, NEW k \in Job, RunnerCollect(k)
                     PROVE  ViewNext
<1>1. TypeOK /\ JobInv(k) /\ Total(k) \in Nat
  BY TotalType DEF PInv, IInv
<1>2. PICK outcome \in Outcome : CompleteDomain(k, outcome)
  <2>1. results[k] \in Seq(Outcome) /\ results[k] # <<>>
    BY <1>1 DEF RunnerCollect, TypeOK
  <2>2. Head(results[k]) \in Outcome
    BY <2>1
  <2> QED BY <2>2 DEF RunnerCollect
<1>3. /\ done' = done /\ completed'[k] = completed[k] + 1
      /\ \A i \in Job \ {k} : completed'[i] = completed[i] /\ succeeded'[i] = succeeded[i]
  BY <1>1, <1>2, CompleteDomainCounts
<1>4. /\ rpc[k] = "collect" /\ targets' = targets
      /\ rpc' = rpc \/ rpc' = [rpc EXCEPT ![k] = "finish"]
  BY DEF RunnerCollect
<1>5. completed[k] < Total(k) /\ ~done[k]
  BY <1>1, <1>4 DEF JobInv
<1>6. rpc'[k] # "none" /\ \A i \in Job \ {k} : rpc'[i] = rpc[i]
  BY <1>1, <1>4 DEF TypeOK
<1>7. ViewReports(k)
  <2>1. succeeded'[k] = succeeded[k] + 0 \/ succeeded'[k] = succeeded[k] + 1
    <3>1. succeeded \in [Job -> Nat] /\ succeeded[k] \in Nat
      BY <1>1 DEF TypeOK
    <3>2. succeeded' = succeeded \/ succeeded' = [succeeded EXCEPT ![k] = succeeded[k] + 1]
      BY <1>2 DEF CompleteDomain
    <3> QED BY <3>1, <3>2
  <2>2. VerdictOrNone(k)' = "none" /\ VerdictOrNone(k) = "none"
    BY <1>3, <1>5 DEF VerdictOrNone
  <2>3. Phase(k) = "open" /\ Phase(k)' = "open" /\ Total(k)' = Total(k)
    BY <1>3, <1>4, <1>5, <1>6 DEF Phase, Total
  <2> QED BY <1>3, <1>5, <2>1, <2>2, <2>3 DEF ViewReports
<1>8. ASSUME NEW j \in Job \ {k} PROVE ViewSame(j)
  <2>1. events'[j] = events[j]
    <3>1. AppendEvent(k, "domain.completed", outcome.domain, outcome.status)
      BY <1>2 DEF CompleteDomain
    <3> QED BY <1>1, <3>1, AppendEventEffect
  <2> QED BY <1>3, <1>4, <1>6, <2>1, SameView
<1> QED BY <1>7, <1>8 DEF ViewNext, ViewStep

\* With every target counted, Verdict read off the failures is the promise's read off the
\* successes.
LEMMA FinishView == ASSUME PInv, NEW k \in Job, RunnerFinish(k)
                    PROVE  ViewNext
<1>1. TypeOK /\ JobInv(k) /\ Total(k) \in Nat /\ VerdictInv(k) /\ rpc[k] = "finish"
  BY TotalType DEF PInv, IInv, RunnerFinish
<1>2. ~done[k] /\ completed[k] = Total(k) /\ succeeded[k] + failed[k] = Total(k) /\ Total(k) # 0
  BY <1>1 DEF JobInv, PInv, SizeInv
<1>3. /\ UNCHANGED <<completed, succeeded, failed, targets>> /\ done' = [done EXCEPT ![k] = TRUE]
      /\ AppendEvent(k, "job.completed", NoDomain, Verdict(k))
      /\ rpc' = [rpc EXCEPT ![k] = "exited"]
  BY <1>2 DEF RunnerFinish, Finish
<1>4. /\ completed \in [Job -> Nat] /\ succeeded \in [Job -> Nat] /\ failed \in [Job -> Nat]
      /\ done \in [Job -> BOOLEAN]
      /\ rpc \in [Job -> {"none", "enqueue", "collect", "finish", "exited"}]
  BY <1>1 DEF TypeOK
<1>5. done'[k] /\ rpc'[k] = "exited" /\ Total(k)' = Total(k)
  BY <1>3, <1>4 DEF Total
<1>6. VerdictOrNone(k)' = Verdict(k)
  <2>1. "job.completed" \in EventType /\ Verdict(k) \in EventStatus
    BY DEF EventType, EventStatus, Verdict
  <2>2. Grows(k, "job.completed", Verdict(k))
    BY <1>1, <1>3, <1>4, <2>1, AppendEventGrows
  <2>3. VerdictOf(events'[k]) = Verdict(k)
    BY <1>1, <1>2, <2>2, VerdictGiven
  <2> QED BY <1>5, <2>3 DEF VerdictOrNone, VerdictOf
<1>7. Verdict(k) = CASE succeeded[k] = Total(k) -> "completed"
                     [] succeeded[k] = 0 /\ Total(k) # 0 -> "failed"
                     [] OTHER -> "partial"
  <2>1. succeeded[k] \in Nat /\ failed[k] \in Nat
    BY <1>4
  <2>2. CASE failed[k] = 0
    BY <1>1, <1>2, <2>1, <2>2 DEF Verdict
  <2>3. CASE failed[k] = Total(k)
    BY <1>1, <1>2, <2>1, <2>3 DEF Verdict
  <2>4. CASE failed[k] # 0 /\ failed[k] # Total(k)
    BY <1>1, <1>2, <2>1, <2>4 DEF Verdict
  <2> QED BY <2>2, <2>3, <2>4
<1>8. ViewCloses(k)
  <2>1. Phase(k) = "open" /\ Phase(k)' = "closed"
    BY <1>1, <1>2, <1>5 DEF Phase
  <2> QED BY <1>2, <1>3, <1>5, <1>6, <1>7, <2>1 DEF ViewCloses
<1>9. ASSUME NEW j \in Job \ {k} PROVE ViewSame(j)
  <2>1. events'[j] = events[j]
    BY <1>1, <1>3, AppendEventEffect
  <2>2. rpc'[j] = rpc[j] /\ done'[j] = done[j]
    BY <1>3, <1>4
  <2> QED BY <1>3, <2>1, <2>2, SameView
<1> QED BY <1>8, <1>9 DEF ViewNext, ViewStep

LEMMA InterruptedView == ASSUME PInv, NEW k \in Job, RunnerInterrupted(k)
                         PROVE  ViewNext
<1>1. TypeOK /\ JobInv(k) /\ VerdictInv(k) /\ rpc[k] \in {"enqueue", "collect"}
  BY DEF PInv, IInv, RunnerInterrupted
<1>2. ~done[k]
  BY <1>1 DEF JobInv
<1>3. /\ UNCHANGED <<succeeded, targets>> /\ completed' = [completed EXCEPT ![k] = Total(k)]
      /\ done' = [done EXCEPT ![k] = TRUE]
      /\ AppendEvent(k, "job.completed", NoDomain, "failed")
      /\ rpc' = [rpc EXCEPT ![k] = "exited"]
  BY <1>2 DEF RunnerInterrupted, FinishInterrupted
<1>4. /\ completed \in [Job -> Nat] /\ done \in [Job -> BOOLEAN]
      /\ rpc \in [Job -> {"none", "enqueue", "collect", "finish", "exited"}]
      /\ completed' \in [Job -> Nat] /\ succeeded' \in [Job -> Nat] /\ failed' \in [Job -> Nat]
  <2>1. IInv'
    BY InterruptedIInv DEF PInv
  <2> QED BY <1>1, <2>1 DEF TypeOK, IInv
<1>5. done'[k] /\ rpc'[k] = "exited" /\ Total(k)' = Total(k) /\ completed'[k] = Total(k)
  BY <1>3, <1>4 DEF Total
<1>6. VerdictOrNone(k)' = "failed"
  <2>1. "job.completed" \in EventType /\ "failed" \in EventStatus
    BY DEF EventType, EventStatus
  <2>2. Grows(k, "job.completed", "failed")
    BY <1>1, <1>3, <1>4, <2>1, AppendEventGrows
  <2>3. VerdictOf(events'[k]) = "failed"
    BY <1>1, <1>2, <2>2, VerdictGiven
  <2> QED BY <1>5, <2>3 DEF VerdictOrNone, VerdictOf
<1>7. ViewCutShort(k)
  <2>1. Phase(k) = "open" /\ Phase(k)' = "closed"
    BY <1>1, <1>2, <1>5 DEF Phase
  <2> QED BY <1>3, <1>5, <1>6, <2>1 DEF ViewCutShort
<1>8. ASSUME NEW j \in Job \ {k} PROVE ViewSame(j)
  <2>1. events'[j] = events[j]
    BY <1>1, <1>3, AppendEventEffect
  <2>2. rpc'[j] = rpc[j] /\ done'[j] = done[j] /\ completed'[j] = completed[j]
    BY <1>3, <1>4
  <2> QED BY <1>3, <2>1, <2>2, SameView
<1> QED BY <1>7, <1>8 DEF ViewNext, ViewStep

\* A check that begins is invisible, even in a job that is closed.
LEMMA WorkerStartsView == ASSUME PInv, NEW w \in Worker, WorkerStarts(w), NEW j \in Job
                          PROVE  ViewSame(j)
<1>1. IInv /\ TypeOK /\ VerdictInv(j)
  BY DEF PInv, IInv
<1>2. UNCHANGED <<rpc, targets, completed, succeeded, failed, done>>
  BY DEF WorkerStarts, runnerVars, counterVars
<1>3. CASE events'[j] = events[j]
  BY <1>2, <1>3, SameView
<1>4. CASE events'[j] # events[j]
  <2>1. wtask[w].job \in Job /\ AppendEvent(wtask[w].job, "domain.started", wtask[w].domain, "running")
    BY <1>4 DEF WorkerStarts
  <2>2. wtask[w].job = j
    BY <1>1, <1>4, <2>1, AppendEventEffect
  <2>3. /\ wtask[w].domain \in Domain \cup {NoDomain}
        /\ "domain.started" \in EventType /\ "running" \in EventStatus
        /\ completed' \in [Job -> Nat] /\ succeeded' \in [Job -> Nat] /\ failed' \in [Job -> Nat]
    BY <1>1, <1>2 DEF TypeOK, Task, NoTask, EventType, EventStatus
  <2>4. Grows(j, "domain.started", "running")
    BY <1>1, <2>1, <2>2, <2>3, AppendEventGrows
  <2>5. VerdictOrNone(j)' = VerdictOrNone(j)
    <3>1. CASE done[j]
      <4>1. VerdictOf(events'[j]) = VerdictOf(events[j])
        BY <1>1, <2>4, <3>1, VerdictKept
      <4> QED BY <1>2, <3>1, <4>1 DEF VerdictOrNone, VerdictOf
    <3>2. CASE ~done[j]
      BY <1>2, <3>2 DEF VerdictOrNone
    <3> QED BY <3>1, <3>2
  <2> QED BY <1>2, <2>5 DEF ViewSame, Phase, Total
<1> QED BY <1>3, <1>4

LEMMA NextView == ASSUME PInv, [Next]_vars
                  PROVE  ViewNext
<1>1. CASE UNCHANGED <<rpc, jobVars>>
  BY <1>1, SameView DEF ViewNext, jobVars, counterVars
<1>2. CASE \E k \in Job, t \in Tenant, ts \in TargetLists : StartCheckJob(k, t, ts)
  BY <1>2, StartCheckJobView
<1>3. ASSUME NEW k \in Job, RunnerEnqueue(k)
      PROVE  ViewNext
  <2>1. \A j \in Job : (rpc'[j] = "none") <=> (rpc[j] = "none")
    BY <1>3 DEF RunnerEnqueue, PInv, IInv, TypeOK
  <2> QED BY <1>3, <2>1, SameView DEF RunnerEnqueue, ViewNext, jobVars, counterVars
<1>4. CASE \E k \in Job : JobStep(k)
  BY <1>3, <1>4, CollectView, FinishView, InterruptedView DEF JobStep
<1>5. CASE \E w \in Worker : WorkerStarts(w)
  BY <1>5, WorkerStartsView DEF ViewNext
<1>6. CASE \E w \in Worker : (WorkerStep(w) \/ WorkerPanics(w)) /\ ~WorkerStarts(w)
  BY <1>1, <1>6 DEF WorkerStep, WorkerReceive, WorkerFinishes, WorkerExits, WorkerReports,
                    WorkerPanics, runnerVars
<1>7. CASE Start \/ CancelParent \/ Stop \/ StopReturns \/ \E k \in Job : ExpireCheckJob(k)
  BY <1>1, <1>7 DEF Start, CancelParent, Stop, StopReturns, ExpireCheckJob, runnerVars
<1>8. CASE LoopStep \/ LoopPanics \/ \E d \in Scheduled : LoopClaims(d)
  BY <1>1, <1>8 DEF LoopStep, LoopSends, LoopExits, LoopReports, LoopPanics, LoopClaims, runnerVars
<1>9. CASE UNCHANGED vars
  BY <1>1, <1>9 DEF vars, runnerVars
<1> QED BY <1>2, <1>4, <1>5, <1>6, <1>7, <1>8, <1>9 DEF Next

-----------------------------------------------------------------------------
(* From the view of each job to the variables of JobPromise *)

phases   == [j \in Job |-> Phase(j)]
sizes    == [j \in Job |-> Total(j)]
verdicts == [j \in Job |-> VerdictOrNone(j)]

LEMMA ViewRefines ==
    ASSUME TypeOK, TypeOK', ViewNext
    PROVE  Promise!Next \/ UNCHANGED Promise!vars
<1> USE DEF phases, sizes, verdicts
<1>1. /\ completed \in [Job -> Nat] /\ succeeded \in [Job -> Nat]
      /\ completed' \in [Job -> Nat] /\ succeeded' \in [Job -> Nat]
  BY DEF TypeOK
<1>2. CASE \A j \in Job : ViewSame(j)
  <2>1. phases' = phases /\ sizes' = sizes /\ verdicts' = verdicts
    BY <1>2 DEF ViewSame
  <2>2. completed' = completed /\ succeeded' = succeeded
    BY <1>1, <1>2 DEF ViewSame
  <2> QED BY <2>1, <2>2 DEF Promise!vars, Phase
<1>3. ASSUME NEW k \in Job, ViewStep(k), \A j \in Job \ {k} : ViewSame(j)
      PROVE  Promise!Next
  <2>1. /\ phases' = [phases EXCEPT ![k] = Phase(k)']
        /\ sizes' = [sizes EXCEPT ![k] = Total(k)']
        /\ verdicts' = [verdicts EXCEPT ![k] = VerdictOrNone(k)']
    BY <1>3 DEF ViewSame
  <2>2. /\ completed' = [completed EXCEPT ![k] = completed'[k]]
        /\ succeeded' = [succeeded EXCEPT ![k] = succeeded'[k]]
    BY <1>1, <1>3 DEF ViewSame
  <2>3. phases[k] = Phase(k) /\ sizes[k] = Total(k) /\ verdicts[k] = VerdictOrNone(k)
    OBVIOUS
  <2>4. /\ Total(k)' = Total(k) => sizes' = sizes
        /\ VerdictOrNone(k)' = VerdictOrNone(k) => verdicts' = verdicts
        /\ completed'[k] = completed[k] => completed' = completed
        /\ succeeded'[k] = succeeded[k] => succeeded' = succeeded
    <3>1. ASSUME Total(k)' = Total(k) PROVE sizes' = sizes
      BY <1>3, <3>1 DEF ViewSame
    <3>2. ASSUME VerdictOrNone(k)' = VerdictOrNone(k) PROVE verdicts' = verdicts
      BY <1>3, <3>2 DEF ViewSame
    <3>3. /\ completed'[k] = completed[k] => completed' = completed
          /\ succeeded'[k] = succeeded[k] => succeeded' = succeeded
      BY <1>1, <2>2
    <3> QED BY <3>1, <3>2, <3>3
  <2> HIDE DEF phases, sizes, verdicts
  <2>5. CASE ViewBegins(k)
    <3>1. /\ phases[k] = "absent" /\ phases' = [phases EXCEPT ![k] = "open"]
          /\ \E n \in {Len(ts) : ts \in TargetLists} \ {0} : sizes' = [sizes EXCEPT ![k] = n]
          /\ completed' = completed /\ succeeded' = succeeded /\ verdicts' = verdicts
      BY <2>1, <2>3, <2>4, <2>5 DEF ViewBegins
    <3>2. Promise!Begin(k)
      BY <3>1 DEF Promise!Begin, phases, sizes, verdicts, Phase
    <3> QED BY <3>2 DEF Promise!Next, Promise!JobStep
  <2>6. CASE ViewReports(k)
    <3>1. phases' = phases
      <4>1. Phase(k)' = Phase(k)
        BY <2>6 DEF ViewReports
      <4> QED BY <2>1, <2>3, <4>1 DEF phases
    <3>2. /\ phases[k] = "open" /\ completed[k] < sizes[k]
          /\ completed' = [completed EXCEPT ![k] = completed[k] + 1]
          /\ \E healthy \in {0, 1} : succeeded' = [succeeded EXCEPT ![k] = succeeded[k] + healthy]
          /\ sizes' = sizes /\ verdicts' = verdicts
      BY <2>2, <2>3, <2>4, <2>6 DEF ViewReports
    <3>3. Promise!Report(k)
      BY <3>1, <3>2 DEF Promise!Report, phases, sizes, verdicts, Phase
    <3> QED BY <3>3 DEF Promise!Next, Promise!JobStep
  <2>7. CASE ViewCloses(k)
    <3>1. /\ phases[k] = "open" /\ completed[k] = sizes[k]
          /\ phases' = [phases EXCEPT ![k] = "closed"]
          /\ verdicts' = [verdicts EXCEPT ![k] =
                            CASE succeeded[k] = Total(k) -> "completed"
                              [] succeeded[k] = 0 /\ Total(k) # 0 -> "failed"
                              [] OTHER -> "partial"]
          /\ sizes' = sizes /\ completed' = completed /\ succeeded' = succeeded
      BY <2>1, <2>3, <2>4, <2>7 DEF ViewCloses
    <3>2. Promise!Close(k)
      BY <2>3, <3>1 DEF Promise!Close, Promise!VerdictOf, phases, sizes, verdicts, Phase
    <3> QED BY <3>2 DEF Promise!Next, Promise!JobStep
  <2>8. CASE ViewCutShort(k)
    <3>1. /\ phases[k] = "open"
          /\ phases' = [phases EXCEPT ![k] = "closed"]
          /\ verdicts' = [verdicts EXCEPT ![k] = "failed"]
          /\ completed' = [completed EXCEPT ![k] = sizes[k]]
          /\ sizes' = sizes /\ succeeded' = succeeded
      BY <2>1, <2>2, <2>3, <2>4, <2>8 DEF ViewCutShort
    <3>2. Promise!CutShort(k)
      BY <3>1 DEF Promise!CutShort, phases, sizes, verdicts, Phase
    <3> QED BY <3>2 DEF Promise!Next, Promise!JobStep
  <2> QED BY <1>3, <2>5, <2>6, <2>7, <2>8 DEF ViewStep
<1> QED BY <1>2, <1>3 DEF ViewNext

LEMMA InitRefines == Init => Promise!Init
  BY DEF Init, Promise!Init, Total, VerdictOrNone

LEMMA NextSizeInv == ASSUME SizeInv, ViewNext
                     PROVE  SizeInv'
<1> SUFFICES ASSUME NEW j \in Job, rpc'[j] # "none" PROVE Total(j)' # 0
  BY DEF SizeInv
<1>1. CASE ViewSame(j)
  BY <1>1 DEF ViewSame, Phase, SizeInv
<1>2. CASE ViewStep(j)
  BY <1>2 DEF ViewStep, ViewBegins, ViewReports, ViewCloses, ViewCutShort, Phase, SizeInv
<1> QED BY <1>1, <1>2 DEF ViewNext

LEMMA PInvariance == Spec => []PInv
<1>1. Init => SizeInv /\ \A j \in Job : VerdictInv(j)
  BY InitVerdictInv DEF Init, SizeInv
<1>2. PInv /\ [Next]_vars => SizeInv' /\ (\A j \in Job : VerdictInv(j))'
  <2> SUFFICES ASSUME PInv, [Next]_vars PROVE SizeInv' /\ (\A j \in Job : VerdictInv(j))'
    OBVIOUS
  <2>1. SizeInv'
    BY NextView, NextSizeInv DEF PInv
  <2>2. \A j \in Job : VerdictInv(j)'
    BY NextLog, VerdictStep DEF PInv, IInv
  <2> QED BY <2>1, <2>2
<1>3. IInv /\ SizeInv /\ (\A j \in Job : VerdictInv(j)) <=> PInv
  BY DEF PInv
<1> QED BY <1>1, <1>2, <1>3, Invariance, PTL DEF Spec

\* The pool implements the abstract check job: whatever happens to the queue, the workers and
\* the context, targets are reported one at a time and the job closes with the verdict its
\* reports give, or early with the rest failed, and is never reopened (JobPromise).
THEOREM PromiseKept == Spec => Promise!Spec
<1>1. PInv /\ PInv' /\ [Next]_vars => [Promise!Next]_(Promise!vars)
  BY NextView, ViewRefines DEF PInv, IInv
<1> QED BY <1>1, InitRefines, PInvariance, PTL DEF Spec, Promise!Spec

-----------------------------------------------------------------------------
(* Counting tasks in the channel and on the workers *)

InQueue(j)  == Cardinality(Queued(j))
InHand(j)   == Cardinality(OnWorker(j))
InResults(j) == Len(results[j])

LEMMA AmountsType ==
    ASSUME TypeOK, NEW j \in Job
    PROVE  /\ IsFiniteSet(Queued(j)) /\ InQueue(j) \in Nat
           /\ IsFiniteSet(OnWorker(j)) /\ InHand(j) \in Nat
           /\ InResults(j) \in Nat
<1>1. jobs \in Seq(Task) /\ results[j] \in Seq(Outcome)
  BY DEF TypeOK
<1>2. Len(jobs) \in Nat /\ Len(results[j]) \in Nat
  BY <1>1
<1>3. IsFiniteSet(1..Len(jobs))
  BY <1>2, FS_Interval
<1>4. IsFiniteSet(Queued(j))
  BY <1>3, FS_Subset DEF Queued
<1>5. IsFiniteSet(OnWorker(j))
  BY WorkerAssumption, FS_Subset DEF OnWorker
<1> QED BY <1>2, <1>4, <1>5, FS_CardinalityType DEF InQueue, InHand, InResults

\* A task sent to the channel is one more of its job's, and no other's.
LEMMA QueuedAppend ==
    ASSUME TypeOK, NEW j \in Job, NEW task \in Task, jobs' = Append(jobs, task)
    PROVE  InQueue(j)' = IF task.job = j THEN InQueue(j) + 1 ELSE InQueue(j)
<1>1. jobs \in Seq(Task)
  BY DEF TypeOK
<1>2. /\ Len(jobs) \in Nat /\ Len(jobs') = Len(jobs) + 1 /\ jobs'[Len(jobs) + 1] = task
      /\ \A i \in 1..Len(jobs) : jobs'[i] = jobs[i]
  BY <1>1
<1>3. Queued(j)' = IF task.job = j THEN Queued(j) \cup {Len(jobs) + 1} ELSE Queued(j)
  BY <1>2 DEF Queued
<1>4. IsFiniteSet(Queued(j)) /\ Len(jobs) + 1 \notin Queued(j)
  BY <1>2, AmountsType DEF Queued
<1>5. Cardinality(Queued(j) \cup {Len(jobs) + 1}) = Cardinality(Queued(j)) + 1
  BY <1>4, FS_AddElement
<1> QED BY <1>3, <1>5 DEF InQueue

\* Taking the first task moves every other one place forward, which loses none of them.
LEMMA QueuedTail ==
    ASSUME TypeOK, NEW j \in Job, jobs # <<>>, jobs' = Tail(jobs)
    PROVE  /\ InQueue(j) = IF Head(jobs).job = j THEN InQueue(j)' + 1 ELSE InQueue(j)'
           /\ InQueue(j)' \in Nat
<1> DEFINE rest == {i \in 2..Len(jobs) : jobs[i].job = j}
           shift == [i \in rest |-> i - 1]
<1>1. jobs \in Seq(Task)
  BY DEF TypeOK
<1>2. /\ Len(jobs) \in Nat /\ Len(jobs) >= 1 /\ Head(jobs) = jobs[1]
      /\ Len(jobs') = Len(jobs) - 1
      /\ \A i \in 1..(Len(jobs) - 1) : jobs'[i] = jobs[i + 1]
  BY <1>1
<1>3. Queued(j) = IF Head(jobs).job = j THEN rest \cup {1} ELSE rest
  BY <1>2 DEF Queued
<1>4. 1 \notin rest /\ IsFiniteSet(rest)
  <2>1. rest \subseteq Queued(j)
    BY <1>3
  <2> QED BY <2>1, AmountsType, FS_Subset
<1>5. Queued(j)' = {i \in 1..(Len(jobs) - 1) : jobs[i + 1].job = j}
  BY <1>2 DEF Queued
<1>6. shift \in Bijection(rest, Queued(j)')
  <2>1. \A i \in rest : i \in 2..Len(jobs) /\ jobs[i].job = j
    OBVIOUS
  <2>2. \A i \in rest : i - 1 \in Queued(j)'
    BY <1>2, <1>5, <2>1
  <2>3. shift \in [rest -> Queued(j)']
    BY <2>2
  <2>4. \A a, b \in rest : shift[a] = shift[b] => a = b
    BY <1>2, <2>1
  <2>5. \A k \in Queued(j)' : \E i \in rest : shift[i] = k
    <3>1. SUFFICES ASSUME NEW k \in Queued(j)' PROVE \E i \in rest : shift[i] = k
      OBVIOUS
    <3>2. k \in 1..(Len(jobs) - 1) /\ jobs[k + 1].job = j
      BY <1>5
    <3>3. k + 1 \in rest /\ shift[k + 1] = k
      BY <1>2, <3>2
    <3> QED BY <3>3
  <2> QED BY <2>3, <2>4, <2>5 DEF Bijection, Injection, Surjection, IsInjective
<1>7. Cardinality(Queued(j)') = Cardinality(rest)
  <2>1. ExistsBijection(rest, Queued(j)')
    BY <1>6 DEF ExistsBijection
  <2> HIDE DEF rest
  <2> QED BY <1>4, <2>1, FS_Bijection
<1>8. Cardinality(rest \cup {1}) = Cardinality(rest) + 1
  <2> HIDE DEF rest
  <2> QED BY <1>4, FS_AddElement
<1>9. Cardinality(rest) \in Nat
  <2> HIDE DEF rest
  <2> QED BY <1>4, FS_CardinalityType
<1> QED BY <1>3, <1>7, <1>8, <1>9 DEF InQueue

\* A worker with nothing in hand takes a task.
LEMMA OnWorkerTake ==
    ASSUME TypeOK, NEW j \in Job, NEW w \in Worker, NEW task \in Task,
           wtask[w] = NoTask, wtask' = [wtask EXCEPT ![w] = task]
    PROVE  InHand(j)' = IF task.job = j THEN InHand(j) + 1 ELSE InHand(j)
<1>1. wtask \in [Worker -> Task \cup {NoTask}] /\ IsFiniteSet(OnWorker(j))
  BY AmountsType DEF TypeOK
<1>2. w \notin OnWorker(j)
  BY NoneAssumption DEF OnWorker, NoTask
<1>3. OnWorker(j)' = IF task.job = j THEN OnWorker(j) \cup {w} ELSE OnWorker(j)
  BY <1>1, <1>2 DEF OnWorker
<1>4. Cardinality(OnWorker(j) \cup {w}) = Cardinality(OnWorker(j)) + 1
  BY <1>1, <1>2, FS_AddElement
<1> QED BY <1>3, <1>4 DEF InHand

\* A worker drops the task it has in hand.
LEMMA OnWorkerDrop ==
    ASSUME TypeOK, NEW j \in Job, NEW w \in Worker, wtask' = [wtask EXCEPT ![w] = NoTask]
    PROVE  /\ InHand(j) = IF wtask[w].job = j THEN InHand(j)' + 1 ELSE InHand(j)'
           /\ InHand(j)' \in Nat
<1>1. wtask \in [Worker -> Task \cup {NoTask}] /\ IsFiniteSet(OnWorker(j))
  BY AmountsType DEF TypeOK
<1>2. NoTask.job # j
  BY NoneAssumption DEF NoTask
<1>3. OnWorker(j)' = OnWorker(j) \ {w}
  BY <1>1, <1>2 DEF OnWorker
<1>4. /\ IsFiniteSet(OnWorker(j) \ {w}) /\ w \notin OnWorker(j) \ {w}
      /\ Cardinality(OnWorker(j) \ {w}) \in Nat
  BY <1>1, FS_Difference, FS_CardinalityType
<1>5. CASE wtask[w].job = j
  <2>1. OnWorker(j) = (OnWorker(j) \ {w}) \cup {w}
    BY <1>5 DEF OnWorker
  <2>2. Cardinality((OnWorker(j) \ {w}) \cup {w}) = Cardinality(OnWorker(j) \ {w}) + 1
    BY <1>4, FS_AddElement
  <2> QED BY <1>3, <1>4, <1>5, <2>1, <2>2 DEF InHand
<1>6. CASE wtask[w].job # j
  <2>1. OnWorker(j) \ {w} = OnWorker(j)
    BY <1>6 DEF OnWorker
  <2> QED BY <1>3, <1>4, <1>6, <2>1 DEF InHand
<1> QED BY <1>5, <1>6

-----------------------------------------------------------------------------
(* What one step does to the tasks of a job *)

\* A worker outside a task has none in hand, as no worker is in one before Start, and a
\* posted panic has cancelled the context.
HandInv ==
    /\ \A w \in Worker : wpc[w] \notin {"starting", "checking"} => wtask[w] = NoTask
    /\ runCtx = "nil" => \A w \in Worker : wpc[w] = "down"
    /\ failure => runCtx = "cancelled"

\* The pool is whole: nobody has panicked and nobody was told to stop.
Whole == runCtx = "live" /\ \A w \in Worker : wpc[w] # "panicked"

Amounts(j) == <<InQueue(j), InHand(j), InResults(j), completed[j], Sent(j)>>
\* The amounts after the step, as changes to those before it.
Moves(j, q, h, r, c, s) ==
    Amounts(j)' = <<InQueue(j) + q, InHand(j) + h, InResults(j) + r, completed[j] + c, Sent(j) + s>>

FlowStep(j) ==
    \/ Moves(j, 0, 0, 0, 0, 0) /\ rpc'[j] = rpc[j]
    \/ Moves(j, 1, 0, 0, 0, 1) /\ rpc[j] = "enqueue"           \* RunnerEnqueue
    \/ Moves(j, -1, 1, 0, 0, 0) /\ rpc'[j] = rpc[j]            \* WorkerReceive
    \/ Moves(j, 0, -1, 1, 0, 0) /\ rpc'[j] = rpc[j]            \* WorkerFinishes
    \/ Moves(j, 0, -1, 0, 0, 0) /\ rpc'[j] = rpc[j] /\ ~Whole' \* WorkerPanics
    \/ Moves(j, 0, 0, -1, 1, 0) /\ rpc[j] = "collect"          \* RunnerCollect
    \/ Moves(j, 0, 0, 0, 0, 0) /\ rpc[j] = "none"              \* StartCheckJob
    \/ \E c \in Int, s \in Nat : Moves(j, 0, 0, 0, c, s) /\ rpc'[j] = "exited"

\* What is sent is at most all there is to send.
LEMMA SentType ==
    ASSUME IInv, NEW j \in Job
    PROVE  /\ Sent(j) \in Nat /\ Total(j) \in Nat /\ Sent(j) <= Total(j) /\ completed[j] \in Nat
           /\ rpc[j] = "none" => Sent(j) = 0 /\ completed[j] = 0
<1>1. JobInv(j) /\ Total(j) \in Nat /\ completed[j] \in Nat
  BY TotalType DEF IInv, TypeOK
<1>2. CASE rpc[j] = "enqueue"
  BY <1>1, <1>2 DEF JobInv, Sent
<1>3. CASE rpc[j] = "none"
  BY <1>1, <1>3 DEF JobInv, Sent, Total
<1>4. CASE rpc[j] \notin {"none", "enqueue"}
  BY <1>1, <1>4 DEF Sent
<1> QED BY <1>2, <1>3, <1>4

\* A step that leaves the queue, the workers' tasks, the results and the job alone.
LEMMA StillFlow ==
    ASSUME IInv, NEW j \in Job, jobs' = jobs, wtask' = wtask, results'[j] = results[j],
           completed'[j] = completed[j], rpc'[j] = rpc[j], index'[j] = index[j],
           targets'[j] = targets[j]
    PROVE  FlowStep(j)
<1>1. InQueue(j)' = InQueue(j) /\ InHand(j)' = InHand(j) /\ InResults(j)' = InResults(j) /\ Sent(j)' = Sent(j)
  BY DEF InQueue, InHand, InResults, Queued, OnWorker, Sent, Total
<1>2. /\ InQueue(j) \in Nat /\ InHand(j) \in Nat /\ InResults(j) \in Nat /\ Sent(j) \in Nat
      /\ completed[j] \in Nat
  BY AmountsType, SentType DEF IInv
<1> QED BY <1>1, <1>2 DEF FlowStep, Moves, Amounts

LEMMA StartCheckJobFlow ==
    ASSUME IInv, NEW j \in Job, NEW k \in Job, NEW t \in Tenant, NEW ts \in TargetLists,
           StartCheckJob(k, t, ts)
    PROVE  FlowStep(j)
<1>1. /\ jobs' = jobs /\ wtask' = wtask /\ results' = results /\ completed' = completed
      /\ rpc[k] = "none" /\ rpc' = [rpc EXCEPT ![k] = "enqueue"] /\ index' = [index EXCEPT ![k] = 1]
      /\ targets' = [targets EXCEPT ![k] = ts]
  BY DEF StartCheckJob, workerVars, counterVars
<1>2. TypeOK
  BY DEF IInv
<1>3. CASE j # k
  BY <1>1, <1>2, <1>3, StillFlow DEF TypeOK
<1>4. CASE j = k
  <2>1. Sent(j) = 0 /\ completed[j] \in Nat
    BY <1>1, <1>4, SentType
  <2>2. Sent(j)' = 0
    BY <1>1, <1>2, <1>4 DEF Sent, TypeOK
  <2>3. InQueue(j)' = InQueue(j) /\ InHand(j)' = InHand(j) /\ InResults(j)' = InResults(j)
    BY <1>1 DEF InQueue, InHand, InResults, Queued, OnWorker
  <2>4. InQueue(j) \in Nat /\ InHand(j) \in Nat /\ InResults(j) \in Nat
    BY <1>2, AmountsType
  <2> QED BY <1>1, <1>4, <2>1, <2>2, <2>3, <2>4 DEF FlowStep, Moves, Amounts
<1> QED BY <1>3, <1>4

LEMMA EnqueueFlow == ASSUME IInv, NEW j \in Job, NEW k \in Job, RunnerEnqueue(k)
                     PROVE  FlowStep(j)
<1> DEFINE task == [job |-> k, domain |-> targets[k][index[k]]]
<1>1. TypeOK /\ JobInv(k) /\ targets[k] \in Seq(Domain) /\ Total(k) \in Nat
  BY TotalType DEF IInv
<1>2. /\ jobs' = Append(jobs, task) /\ wtask' = wtask /\ results' = results
      /\ completed' = completed /\ targets' = targets /\ rpc[k] = "enqueue"
      /\ \/ index[k] < Total(k) /\ index' = [index EXCEPT ![k] = index[k] + 1] /\ rpc' = rpc
         \/ index[k] = Total(k) /\ index' = [index EXCEPT ![k] = 1] /\ rpc' = [rpc EXCEPT ![k] = "collect"]
  BY DEF RunnerEnqueue, workerVars, jobVars, counterVars
<1>3. task \in Task /\ task.job = k
  <2>1. index[k] \in 1..Total(k)
    BY <1>1, <1>2 DEF JobInv
  <2>2. targets[k][index[k]] \in Domain
    BY <1>1, <2>1 DEF Total
  <2> QED BY <2>2 DEF Task
<1> HIDE DEF task
<1>4. InQueue(j)' = IF k = j THEN InQueue(j) + 1 ELSE InQueue(j)
  BY <1>1, <1>2, <1>3, QueuedAppend
<1>5. InHand(j)' = InHand(j) /\ InResults(j)' = InResults(j)
  BY <1>2 DEF InHand, InResults, OnWorker
<1>6. /\ InQueue(j) \in Nat /\ InHand(j) \in Nat /\ InResults(j) \in Nat
      /\ Sent(j) \in Nat /\ completed[j] \in Nat
  BY <1>1, AmountsType, SentType
<1>7. CASE j = k
  <2>1. Sent(j)' = Sent(j) + 1
    <3>1. /\ rpc \in [Job -> {"none", "enqueue", "collect", "finish", "exited"}]
          /\ index \in [Job -> Nat]
      BY <1>1 DEF TypeOK
    <3>2. Sent(j) = index[k] - 1 /\ Total(k)' = Total(k) /\ index[k] \in Nat
      BY <1>2, <1>7, <3>1 DEF Sent, Total
    <3>3. CASE index[k] < Total(k)
      <4>1. index'[k] = index[k] + 1 /\ rpc'[k] = "enqueue"
        BY <1>1, <1>2, <3>1, <3>2, <3>3
      <4> QED BY <1>7, <3>2, <4>1 DEF Sent
    <3>4. CASE index[k] = Total(k)
      <4>1. rpc'[k] = "collect"
        BY <1>1, <1>2, <3>1, <3>2, <3>4
      <4> QED BY <1>7, <3>2, <3>4, <4>1 DEF Sent
    <3> QED BY <1>2, <3>3, <3>4
  <2> QED BY <1>2, <1>4, <1>5, <1>6, <1>7, <2>1 DEF FlowStep, Moves, Amounts
<1>8. CASE j # k
  <2>1. rpc'[j] = rpc[j] /\ Sent(j)' = Sent(j)
    BY <1>1, <1>2, <1>8 DEF TypeOK, Sent, Total
  <2> QED BY <1>2, <1>4, <1>5, <1>6, <1>8, <2>1 DEF FlowStep, Moves, Amounts
<1> QED BY <1>7, <1>8

LEMMA CollectFlow == ASSUME IInv, NEW j \in Job, NEW k \in Job, RunnerCollect(k)
                     PROVE  FlowStep(j)
<1>1. TypeOK
  BY DEF IInv
<1>2. /\ jobs' = jobs /\ wtask' = wtask /\ targets' = targets
      /\ rpc[k] = "collect" /\ results[k] # <<>> /\ results' = [results EXCEPT ![k] = Tail(results[k])]
      /\ completed' = [completed EXCEPT ![k] = completed[k] + 1]
      /\ \/ index' = [index EXCEPT ![k] = index[k] + 1] /\ rpc' = rpc
         \/ index' = index /\ rpc' = [rpc EXCEPT ![k] = "finish"]
  BY DEF RunnerCollect, CompleteDomain, serviceVars, workerVars
<1>3. CASE j # k
  BY <1>1, <1>2, <1>3, StillFlow DEF TypeOK
<1>4. CASE j = k
  <2>1. InResults(j)' = InResults(j) - 1
    <3>1. results \in [Job -> Seq(Outcome)] /\ results[k] \in Seq(Outcome)
      BY <1>1 DEF TypeOK
    <3>2. results'[k] = Tail(results[k])
      BY <1>2, <3>1
    <3>3. Len(Tail(results[k])) = Len(results[k]) - 1
      BY <1>2, <3>1
    <3> QED BY <1>4, <3>2, <3>3 DEF InResults
  <2>2. completed'[j] = completed[j] + 1
    BY <1>1, <1>2, <1>4 DEF TypeOK
  <2>3. Sent(j)' = Sent(j)
    BY <1>1, <1>2, <1>4 DEF Sent, Total, TypeOK
  <2>4. InQueue(j)' = InQueue(j) /\ InHand(j)' = InHand(j)
    BY <1>2 DEF InQueue, InHand, Queued, OnWorker
  <2>5. /\ InQueue(j) \in Nat /\ InHand(j) \in Nat /\ InResults(j) \in Nat /\ Sent(j) \in Nat
        /\ completed[j] \in Nat
    BY <1>1, AmountsType, SentType
  <2> QED BY <1>2, <1>4, <2>1, <2>2, <2>3, <2>4, <2>5 DEF FlowStep, Moves, Amounts
<1> QED BY <1>3, <1>4

\* A job that ends counts every target as sent, whatever it had got to.
LEMMA EndFlow == ASSUME IInv, NEW j \in Job, NEW k \in Job, RunnerFinish(k) \/ RunnerInterrupted(k)
                 PROVE  FlowStep(j)
<1>1. TypeOK /\ IInv'
  BY FinishIInv, InterruptedIInv DEF IInv
<1>2. /\ jobs' = jobs /\ wtask' = wtask /\ targets' = targets /\ results' = results /\ index' = index
      /\ rpc' = [rpc EXCEPT ![k] = "exited"]
  BY DEF RunnerFinish, RunnerInterrupted, serviceVars, workerVars
<1>3. CASE j # k
  <2>1. completed'[j] = completed[j]
    BY <1>1, <1>3 DEF RunnerFinish, RunnerInterrupted, Finish, FinishInterrupted, counterVars, TypeOK
  <2> QED BY <1>1, <1>2, <1>3, <2>1, StillFlow DEF TypeOK
<1>4. CASE j = k
  <2>1. rpc'[j] = "exited"
    BY <1>1, <1>2, <1>4 DEF TypeOK
  <2>2. Sent(j)' = Total(j)
    BY <1>2, <2>1 DEF Sent, Total
  <2>3. InQueue(j)' = InQueue(j) /\ InHand(j)' = InHand(j) /\ InResults(j)' = InResults(j)
    BY <1>2 DEF InQueue, InHand, InResults, Queued, OnWorker
  <2>4. /\ InQueue(j) \in Nat /\ InHand(j) \in Nat /\ InResults(j) \in Nat
        /\ Sent(j) \in Nat /\ Total(j) \in Nat /\ Sent(j) <= Total(j)
        /\ completed[j] \in Nat /\ completed'[j] \in Nat
    <3>1. completed' \in [Job -> Nat]
      BY <1>1 DEF IInv, TypeOK
    <3> QED BY <1>1, <3>1, AmountsType, SentType
  <2> DEFINE c == completed'[j] - completed[j]
             s == Total(j) - Sent(j)
  <2>5. c \in Int /\ s \in Nat /\ completed'[j] = completed[j] + c /\ Sent(j)' = Sent(j) + s
    BY <2>2, <2>4
  <2> HIDE DEF c, s
  <2>6. Moves(j, 0, 0, 0, c, s)
    BY <2>3, <2>4, <2>5 DEF Moves, Amounts
  <2> QED BY <2>1, <2>5, <2>6 DEF FlowStep
<1> QED BY <1>3, <1>4

LEMMA WorkerFlow == ASSUME IInv, HandInv, NEW j \in Job, NEW w \in Worker, WorkerStep(w) \/ WorkerPanics(w)
                    PROVE  FlowStep(j)
<1>1. TypeOK
  BY DEF IInv
<1>2. completed' = completed /\ rpc' = rpc /\ index' = index /\ targets' = targets /\ Sent(j)' = Sent(j)
  BY DEF WorkerStep, WorkerReceive, WorkerStarts, WorkerFinishes, WorkerExits, WorkerReports,
         WorkerPanics, runnerVars, jobVars, counterVars, Sent, Total
<1>3. /\ InQueue(j) \in Nat /\ InHand(j) \in Nat /\ InResults(j) \in Nat /\ Sent(j) \in Nat
      /\ completed[j] \in Nat
  BY <1>1, AmountsType, SentType
<1>4. CASE WorkerReceive(w)
  <2>1. /\ jobs # <<>> /\ jobs' = Tail(jobs) /\ wtask' = [wtask EXCEPT ![w] = Head(jobs)]
        /\ results' = results /\ wtask[w] = NoTask
    BY <1>4 DEF WorkerReceive, HandInv, runnerVars
  <2>2. Head(jobs) \in Task
    <3>1. jobs \in Seq(Task)
      BY <1>1 DEF TypeOK
    <3> QED BY <2>1, <3>1
  <2>3. /\ InQueue(j) = IF Head(jobs).job = j THEN InQueue(j)' + 1 ELSE InQueue(j)'
        /\ InQueue(j)' \in Nat
    BY <1>1, <2>1, QueuedTail
  <2>4. InHand(j)' = IF Head(jobs).job = j THEN InHand(j) + 1 ELSE InHand(j)
    BY <1>1, <2>1, <2>2, OnWorkerTake
  <2>5. InResults(j)' = InResults(j)
    BY <2>1 DEF InResults
  <2> QED BY <1>2, <1>3, <2>3, <2>4, <2>5 DEF FlowStep, Moves, Amounts
<1>5. CASE WorkerFinishes(w) \/ WorkerPanics(w)
  <2>1. jobs' = jobs /\ wtask' = [wtask EXCEPT ![w] = NoTask]
    BY <1>5 DEF WorkerFinishes, WorkerPanics, serviceVars
  <2>2. /\ InQueue(j)' = InQueue(j)
        /\ InHand(j) = IF wtask[w].job = j THEN InHand(j)' + 1 ELSE InHand(j)'
        /\ InHand(j)' \in Nat
    BY <1>1, <2>1, OnWorkerDrop DEF InQueue, Queued
  <2>3. CASE WorkerPanics(w)
    <3>1. InResults(j)' = InResults(j) /\ ~Whole'
      BY <1>1, <2>3 DEF WorkerPanics, runnerVars, InResults, Whole, TypeOK
    <3> QED BY <1>2, <1>3, <2>2, <3>1 DEF FlowStep, Moves, Amounts
  <2>4. CASE WorkerFinishes(w) /\ wtask[w].job = j
    <3>1. PICK outcome : results' = [results EXCEPT ![j] = Append(results[j], outcome)]
      BY <2>4, NoneAssumption DEF WorkerFinishes
    <3>2. results \in [Job -> Seq(Outcome)] /\ results' \in [Job -> Seq(Outcome)]
      <4>1. IInv'
        BY WorkerStepIInv
      <4> QED BY <1>1, <4>1 DEF IInv, TypeOK
    <3>3. results[j] \in Seq(Outcome) /\ results'[j] = Append(results[j], outcome)
      BY <3>1, <3>2
    <3>4. InResults(j)' = InResults(j) + 1
      BY <3>3 DEF InResults
    <3> QED BY <1>2, <1>3, <2>2, <2>4, <3>4 DEF FlowStep, Moves, Amounts
  <2>5. CASE WorkerFinishes(w) /\ wtask[w].job # j
    <3>1. results'[j] = results[j]
      BY <1>1, <2>5 DEF WorkerFinishes, TypeOK
    <3>2. InResults(j)' = InResults(j)
      BY <3>1 DEF InResults
    <3> QED BY <1>2, <1>3, <2>2, <2>5, <3>2 DEF FlowStep, Moves, Amounts
  <2> QED BY <1>5, <2>3, <2>4, <2>5
<1>6. CASE WorkerStarts(w) \/ WorkerExits(w) \/ WorkerReports(w)
  BY <1>2, <1>6, StillFlow DEF WorkerStarts, WorkerExits, WorkerReports, ReportPanic, serviceVars, runnerVars
<1> QED BY <1>4, <1>5, <1>6 DEF WorkerStep

\* The dispatch loop sends tasks that belong to no job.
LEMMA LoopFlow ==
    ASSUME IInv, NEW j \in Job, LoopStep \/ LoopPanics \/ \E d \in Scheduled : LoopClaims(d)
    PROVE  FlowStep(j)
<1>1. TypeOK /\ LoopInv /\ UNCHANGED <<workerVars, runnerVars, jobVars>>
  BY DEF IInv, LoopStep, LoopSends, LoopExits, LoopReports, LoopPanics, LoopClaims
<1>2. CASE LoopSends
  <2>1. /\ jobs' = Append(jobs, [job |-> NoJob, domain |-> ldomain])
        /\ [job |-> NoJob, domain |-> ldomain] \in Task
    BY <1>1, <1>2 DEF LoopSends, LoopInv, Task
  <2>2. InQueue(j)' = InQueue(j)
    BY <1>1, <2>1, QueuedAppend, NoneAssumption
  <2>3. /\ InHand(j)' = InHand(j) /\ InResults(j)' = InResults(j) /\ Sent(j)' = Sent(j)
        /\ completed' = completed /\ rpc' = rpc
    BY <1>1 DEF workerVars, runnerVars, jobVars, counterVars, InHand, InResults, OnWorker, Sent, Total
  <2>4. /\ InQueue(j) \in Nat /\ InHand(j) \in Nat /\ InResults(j) \in Nat /\ Sent(j) \in Nat
        /\ completed[j] \in Nat
    BY <1>1, AmountsType, SentType
  <2> QED BY <2>2, <2>3, <2>4 DEF FlowStep, Moves, Amounts
<1>3. CASE ~LoopSends
  <2>1. jobs' = jobs
    BY <1>3 DEF LoopStep, LoopExits, LoopReports, LoopPanics, LoopClaims, ReportPanic, serviceVars
  <2> QED BY <1>1, <2>1, StillFlow DEF workerVars, runnerVars, jobVars, counterVars
<1> QED BY <1>2, <1>3

LEMMA NextFlow == ASSUME IInv, HandInv, [Next]_vars, NEW j \in Job
                  PROVE  FlowStep(j)
<1>1. CASE Start
  BY <1>1, StillFlow DEF Start, runnerVars, jobVars, counterVars
<1>2. CASE CancelParent \/ Stop \/ StopReturns
  BY <1>2, StillFlow DEF CancelParent, Stop, StopReturns, workerVars, runnerVars, jobVars, counterVars
<1>3. CASE \E k \in Job, t \in Tenant, ts \in TargetLists : StartCheckJob(k, t, ts)
  BY <1>3, StartCheckJobFlow
<1>4. CASE \E k \in Job : JobStep(k)
  BY <1>4, EnqueueFlow, CollectFlow, EndFlow DEF JobStep
<1>5. CASE \E k \in Job : ExpireCheckJob(k)
  BY <1>5, StillFlow DEF ExpireCheckJob, workerVars, runnerVars, jobVars, counterVars
<1>6. CASE \E w \in Worker : WorkerStep(w) \/ WorkerPanics(w)
  BY <1>6, WorkerFlow
<1>7. CASE LoopStep \/ LoopPanics \/ \E d \in Scheduled : LoopClaims(d)
  BY <1>7, LoopFlow
<1>8. CASE UNCHANGED vars
  BY <1>8, StillFlow DEF vars, serviceVars, workerVars, runnerVars, jobVars, counterVars
<1> QED BY <1>1, <1>2, <1>3, <1>4, <1>5, <1>6, <1>7, <1>8 DEF Next

-----------------------------------------------------------------------------
(* The invariants *)

\* The tasks a job has sent bound what can still arrive in its results channel, even after
\* its goroutine has gone.
RoomInv(j) == InQueue(j) + InHand(j) + InResults(j) <= Sent(j)

\* While the pool is whole they are exactly the tasks not counted yet.
AccountInv(j) ==
    Whole /\ rpc[j] \in {"none", "enqueue", "collect", "finish"} =>
        Sent(j) = completed[j] + InResults(j) + InQueue(j) + InHand(j)

\* Jobs begin only after Start.
BegunInv == runCtx = "nil" => \A j \in Job : rpc[j] = "none"

FlowInv == HandInv /\ BegunInv /\ \A j \in Job : RoomInv(j) /\ AccountInv(j)

LEMMA InitFlowInv == Init => FlowInv
<1> SUFFICES ASSUME Init PROVE FlowInv
  OBVIOUS
<1>1. HandInv /\ BegunInv
  BY DEF Init, HandInv, BegunInv
<1>2. ASSUME NEW j \in Job
      PROVE  RoomInv(j) /\ AccountInv(j)
  <2>1. Queued(j) = {} /\ OnWorker(j) = {}
    BY NoneAssumption DEF Init, Queued, OnWorker, NoTask
  <2>2. InQueue(j) = 0 /\ InHand(j) = 0
    BY <2>1, FS_EmptySet DEF InQueue, InHand
  <2>3. InResults(j) = 0 /\ completed[j] = 0 /\ Sent(j) = 0
    BY DEF Init, InResults, Sent, Total
  <2> QED BY <2>2, <2>3 DEF RoomInv, AccountInv
<1> QED BY <1>1, <1>2 DEF FlowInv

\* Only receiving puts a task in a worker's hand, and every way out of a check drops it.
LEMMA NextHandInv == TypeOK /\ HandInv /\ [Next]_vars => HandInv'
<1> SUFFICES ASSUME TypeOK, HandInv, [Next]_vars PROVE HandInv'
  OBVIOUS
<1>1. CASE /\ UNCHANGED <<wpc, wtask>> /\ (failure' => runCtx' = "cancelled")
           /\ runCtx' = "nil" => runCtx = "nil"
  BY <1>1 DEF HandInv
<1>2. CASE Start
  BY <1>2 DEF Start, HandInv, TypeOK
<1>3. CASE CancelParent \/ Stop \/ StopReturns
  BY <1>1, <1>3 DEF CancelParent, Stop, StopReturns, HandInv, workerVars
<1>4. CASE \E k \in Job, t \in Tenant, ts \in TargetLists : StartCheckJob(k, t, ts)
  BY <1>1, <1>4 DEF StartCheckJob, HandInv, workerVars
<1>5. CASE \E k \in Job : JobStep(k) \/ ExpireCheckJob(k)
  BY <1>1, <1>5 DEF JobStep, RunnerEnqueue, RunnerCollect, RunnerFinish, RunnerInterrupted,
                    ExpireCheckJob, HandInv, serviceVars, workerVars
<1>6. ASSUME NEW w \in Worker, WorkerStep(w) \/ WorkerPanics(w)
      PROVE  HandInv'
  <2>1. /\ wpc \in [Worker -> {"down", "select", "starting", "checking", "panicked", "exited"}]
        /\ wtask \in [Worker -> Task \cup {NoTask}]
    BY DEF TypeOK
  <2>2. runCtx' # "nil" /\ (failure' => runCtx' = "cancelled")
    BY <1>6 DEF WorkerStep, WorkerReceive, WorkerStarts, WorkerFinishes, WorkerExits,
                WorkerReports, WorkerPanics, ReportPanic, HandInv, serviceVars
  <2>3. CASE WorkerReceive(w)
    BY <2>1, <2>2, <2>3 DEF WorkerReceive, HandInv
  <2>4. CASE WorkerStarts(w)
    BY <2>1, <2>2, <2>4 DEF WorkerStarts, HandInv
  <2>5. CASE WorkerFinishes(w) \/ WorkerPanics(w)
    BY <2>1, <2>2, <2>5 DEF WorkerFinishes, WorkerPanics, HandInv
  <2>6. CASE WorkerExits(w) \/ WorkerReports(w)
    BY <2>1, <2>2, <2>6 DEF WorkerExits, WorkerReports, HandInv
  <2> QED BY <1>6, <2>3, <2>4, <2>5, <2>6 DEF WorkerStep
<1>7. CASE LoopStep \/ LoopPanics \/ \E d \in Scheduled : LoopClaims(d)
  BY <1>1, <1>7 DEF LoopStep, LoopSends, LoopExits, LoopReports, LoopPanics, LoopClaims,
                    ReportPanic, HandInv, serviceVars, workerVars
<1>8. CASE UNCHANGED vars
  BY <1>1, <1>8 DEF vars, HandInv, serviceVars, workerVars
<1> QED BY <1>2, <1>3, <1>4, <1>5, <1>6, <1>7, <1>8 DEF Next

LEMMA NextBegunInv == ASSUME BegunInv, [Next]_vars
                     PROVE  BegunInv'
<1> SUFFICES ASSUME runCtx' = "nil" PROVE \A j \in Job : rpc'[j] = "none"
  BY DEF BegunInv
<1>1. CASE \E k \in Job : JobStep(k)
  <2>1. runCtx = "nil"
    BY <1>1 DEF JobStep, RunnerEnqueue, RunnerCollect, RunnerFinish, RunnerInterrupted, serviceVars
  <2> QED BY <1>1, <2>1 DEF JobStep, RunnerEnqueue, RunnerCollect, RunnerFinish, RunnerInterrupted,
                            BegunInv
<1>2. CASE ~ \E k \in Job : JobStep(k)
  <2>1. runCtx = "nil" /\ rpc' = rpc
    BY <1>2 DEF Next, Start, CancelParent, Stop, StopReturns, StartCheckJob, ExpireCheckJob,
                WorkerStep, WorkerReceive, WorkerStarts, WorkerFinishes, WorkerExits, WorkerReports,
                WorkerPanics, LoopStep, LoopSends, LoopExits, LoopReports, LoopPanics, LoopClaims,
                ReportPanic, vars, serviceVars, runnerVars
  <2> QED BY <2>1 DEF BegunInv
<1> QED BY <1>1, <1>2

\* Once it is not whole the pool never is again; before Start no job can have begun.
LEMMA WholeBefore == ASSUME TypeOK, HandInv, [Next]_vars, Whole'
                     PROVE  Whole \/ Start
<1>1. CASE UNCHANGED <<runCtx, wpc>>
  BY <1>1 DEF Whole
<1>2. CASE CancelParent \/ Stop \/ StopReturns
  BY <1>1, <1>2 DEF CancelParent, Stop, StopReturns, Whole, workerVars
<1>3. CASE \E k \in Job, t \in Tenant, ts \in TargetLists : StartCheckJob(k, t, ts)
  BY <1>1, <1>3 DEF StartCheckJob, workerVars
<1>4. CASE \E k \in Job : JobStep(k) \/ ExpireCheckJob(k)
  BY <1>1, <1>4 DEF JobStep, RunnerEnqueue, RunnerCollect, RunnerFinish, RunnerInterrupted,
                    ExpireCheckJob, serviceVars, workerVars
<1>5. ASSUME NEW w \in Worker, WorkerStep(w) \/ WorkerPanics(w)
      PROVE  Whole
  <2>1. ~WorkerReports(w)
    BY DEF WorkerReports, ReportPanic, HandInv, Whole
  <2>2. runCtx' = runCtx /\ wpc[w] # "panicked"
    BY <1>5, <2>1 DEF WorkerStep, WorkerReceive, WorkerStarts, WorkerFinishes, WorkerExits,
                      WorkerPanics, serviceVars
  <2>3. \A v \in Worker : v # w => wpc'[v] = wpc[v]
    BY <1>5 DEF WorkerStep, WorkerReceive, WorkerStarts, WorkerFinishes, WorkerExits,
                WorkerReports, WorkerPanics, TypeOK
  <2> QED BY <2>2, <2>3 DEF Whole
<1>6. CASE LoopStep \/ LoopPanics \/ \E d \in Scheduled : LoopClaims(d)
  <2>1. ~LoopReports
    BY DEF LoopReports, ReportPanic, HandInv, Whole
  <2> QED BY <1>1, <1>6, <2>1 DEF LoopStep, LoopSends, LoopExits, LoopPanics, LoopClaims,
                                  serviceVars, workerVars
<1>7. CASE UNCHANGED vars
  BY <1>1, <1>7 DEF vars, serviceVars, workerVars
<1> QED BY <1>2, <1>3, <1>4, <1>5, <1>6, <1>7 DEF Next

\* A job that is not started holds nothing, because nothing was sent for it.
LEMMA NothingBeforeStart ==
    ASSUME IInv, NEW j \in Job, RoomInv(j), rpc[j] = "none"
    PROVE  /\ InQueue(j) = 0 /\ InHand(j) = 0 /\ InResults(j) = 0
           /\ completed[j] = 0 /\ Sent(j) = 0
<1>1. /\ InQueue(j) \in Nat /\ InHand(j) \in Nat /\ InResults(j) \in Nat
      /\ completed[j] = 0 /\ Sent(j) = 0
  BY AmountsType, SentType DEF IInv
<1> QED BY <1>1 DEF RoomInv

LEMMA FlowInvStep == ASSUME IInv, FlowInv, [Next]_vars, NEW j \in Job
                     PROVE  RoomInv(j)' /\ AccountInv(j)'
<1>1. FlowStep(j) /\ RoomInv(j) /\ AccountInv(j) /\ HandInv /\ BegunInv /\ TypeOK
  BY NextFlow DEF FlowInv, IInv
<1>2. /\ InQueue(j) \in Nat /\ InHand(j) \in Nat /\ InResults(j) \in Nat /\ Sent(j) \in Nat
      /\ completed[j] \in Nat
  BY <1>1, AmountsType, SentType
<1>3. rpc[j] \in {"none", "enqueue", "collect", "finish", "exited"}
  BY <1>1 DEF TypeOK
<1> USE DEF Moves, Amounts
<1>4. RoomInv(j)'
  BY <1>1, <1>2 DEF FlowStep, RoomInv
<1>5. AccountInv(j)'
  <2>1. CASE rpc'[j] = "exited"
    BY <2>1 DEF AccountInv
  <2>2. CASE ~Whole'
    BY <2>2 DEF AccountInv
  <2>3. CASE rpc'[j] # "exited" /\ Whole' /\ rpc[j] = "none"
    <3>1. /\ InQueue(j) = 0 /\ InHand(j) = 0 /\ InResults(j) = 0
          /\ completed[j] = 0 /\ Sent(j) = 0
      BY <1>1, <2>3, NothingBeforeStart
    <3> QED BY <1>1, <1>2, <2>3, <3>1 DEF FlowStep, AccountInv
  <2>4. CASE rpc'[j] # "exited" /\ Whole' /\ rpc[j] # "none"
    <3>1. Whole
      <4>1. ~Start
        BY <1>1, <2>4 DEF Start, BegunInv
      <4> QED BY <1>1, <2>4, <4>1, WholeBefore
    <3> QED BY <1>1, <1>2, <1>3, <2>4, <3>1 DEF FlowStep, AccountInv
  <2> QED BY <2>1, <2>2, <2>3, <2>4
<1> QED BY <1>4, <1>5

LEMMA FlowInvariance == Spec => []FlowInv
<1>1. IInv /\ FlowInv /\ [Next]_vars => FlowInv'
  <2> SUFFICES ASSUME IInv, FlowInv, [Next]_vars PROVE FlowInv'
    OBVIOUS
  <2>1. HandInv'
    BY NextHandInv DEF IInv, FlowInv
  <2>2. BegunInv'
    BY NextBegunInv DEF FlowInv
  <2> QED BY <2>1, <2>2, FlowInvStep DEF FlowInv
<1> QED BY <1>1, InitFlowInv, Invariance, PTL DEF Spec

-----------------------------------------------------------------------------
(* Theorems *)

\* While the pool is alive no task and no outcome is lost or duplicated: what a job has sent
\* is queued, on a worker, in its results channel or counted (runCheckJob, worker).
THEOREM TasksAlwaysAccounted == Spec => []TasksAccounted
<1>1. FlowInv => TasksAccounted
  BY DEF FlowInv, AccountInv, TasksAccounted, Whole, InQueue, InHand, InResults
<1> QED BY <1>1, FlowInvariance, PTL

\* A worker never blocks on a results channel, whatever has become of the job that made it,
\* so it always gets back to its select and Stop can wait for it.
THEOREM ResultsAlwaysHaveRoom == Spec => []ResultsHaveRoom
<1>1. ASSUME IInv, FlowInv, NEW w \in Worker, wtask[w].job \in Job
      PROVE  Len(results[wtask[w].job]) < ResultsCap(wtask[w].job)
  <2> DEFINE j == wtask[w].job
  <2>1. /\ InQueue(j) \in Nat /\ InHand(j) \in Nat /\ InResults(j) \in Nat /\ Sent(j) \in Nat
        /\ IsFiniteSet(OnWorker(j)) /\ Total(j) \in Nat /\ Sent(j) <= Total(j)
    BY <1>1, AmountsType, SentType DEF IInv
  <2>2. InHand(j) # 0
    <3>1. w \in OnWorker(j)
      BY DEF OnWorker
    <3> QED BY <2>1, <3>1, FS_EmptySet DEF InHand
  <2>3. InQueue(j) + InHand(j) + InResults(j) <= Sent(j)
    BY <1>1 DEF FlowInv, RoomInv
  <2> HIDE DEF j
  <2>4. InResults(j) < Total(j)
    BY <2>1, <2>2, <2>3
  <2> QED BY <2>4 DEF InResults, ResultsCap, j
<1>2. IInv /\ FlowInv => ResultsHaveRoom
  BY <1>1 DEF ResultsHaveRoom
<1> QED BY <1>2, FlowInvariance, Invariance, PTL

-----------------------------------------------------------------------------
(* Where the task of a target is, and what the log says of it *)

AtMostOne(S) == \A x, y \in S : x = y

Places(j, d)   == {i \in 1..Len(jobs) : jobs[i] = [job |-> j, domain |-> d]}
Holders(j, d)  == {w \in Worker : wtask[w] = [job |-> j, domain |-> d]}
Reported(j, d) == {i \in 1..Len(results[j]) : results[j][i].domain = d}

Names(j, i, type, d) == events[j][i].type = type /\ events[j][i].domain = d
Logged(j, type, d) == \E i \in 1..Len(events[j]) : Names(j, i, type, d)

\* The target is still to be sent.
Ahead(j, d) ==
    \/ rpc[j] = "none"
    \/ rpc[j] = "enqueue" /\ \E k \in index[j]..Total(j) : targets[j][k] = d

\* Its task is in one place, from the list to the results channel, and the log has what it
\* has been through.
OnceInv(j, d) ==
    /\ AtMostOne(Places(j, d)) /\ AtMostOne(Holders(j, d)) /\ AtMostOne(Reported(j, d))
    /\ Ahead(j, d) => Places(j, d) = {} /\ Holders(j, d) = {} /\ ~Logged(j, "domain.started", d)
    /\ Places(j, d) # {} => Holders(j, d) = {} /\ ~Logged(j, "domain.started", d)
    /\ \A w \in Holders(j, d) :
        /\ wpc[w] = "starting" => ~Logged(j, "domain.started", d)
        /\ wpc[w] = "checking" => /\ Logged(j, "domain.started", d) /\ ~Logged(j, "domain.completed", d)
                                  /\ Reported(j, d) = {}
    /\ Reported(j, d) # {} => Logged(j, "domain.started", d) /\ ~Logged(j, "domain.completed", d)
    /\ Logged(j, "domain.completed", d) => Logged(j, "domain.started", d)

\* The same of the log, entry by entry.
LogInv(j) ==
    \A i \in 1..Len(events[j]) : \A d \in Domain \cup {NoDomain} :
        /\ Names(j, i, "domain.started", d) =>
            d # NoDomain /\ \A k \in 1..(i - 1) : ~Names(j, k, "domain.started", d)
        /\ Names(j, i, "domain.completed", d) /\ d # NoDomain =>
            /\ \E k \in 1..(i - 1) : Names(j, k, "domain.started", d)
            /\ \A k \in 1..(i - 1) : ~Names(j, k, "domain.completed", d)

\* Checks that were begun are logged as completed, in the results channel, under way, or
\* lost in a panic.
CheckingOf(j) == {w \in Worker : wpc[w] = "checking" /\ wtask[w].job = j}
StartsInv(j) ==
    /\ Count(events[j], "domain.completed", Len(events[j])) + InResults(j) + Cardinality(CheckingOf(j))
        <= Count(events[j], "domain.started", Len(events[j]))
    /\ \A i \in 0..Len(events[j]) : Count(events[j], "domain.completed", i) <= Count(events[j], "domain.started", i)

\* The step writes one event to the log of the job.
Logs(j, type, d) == \E e \in Event : e.type = type /\ e.domain = d /\ events'[j] = Append(events[j], e)

LEMMA AppendEventLogs ==
    ASSUME TypeOK, NEW j \in Job, NEW k \in Job, NEW type \in EventType,
           NEW d \in Domain \cup {NoDomain}, NEW status \in EventStatus,
           completed' \in [Job -> Nat], succeeded' \in [Job -> Nat], failed' \in [Job -> Nat],
           AppendEvent(j, type, d, status)
    PROVE  Logs(j, type, d) /\ (k # j => events'[k] = events[k])
<1> DEFINE e == [id |-> Len(events[j]) + 1, type |-> type, domain |-> d, status |-> status,
                 completed |-> completed'[j], succeeded |-> succeeded'[j], failed |-> failed'[j]]
<1>1. events \in [Job -> Seq(Event)] /\ events[j] \in Seq(Event)
  BY DEF TypeOK
<1>2. e \in Event /\ e.type = type /\ e.domain = d
  <2>1. Len(events[j]) \in Nat
    BY <1>1
  <2> QED BY <2>1 DEF Event
<1>3. events' = [events EXCEPT ![j] = Append(events[j], e)]
  BY DEF AppendEvent
<1> HIDE DEF e
<1>4. events'[j] = Append(events[j], e) /\ (k # j => events'[k] = events[k])
  BY <1>1, <1>3
<1> QED BY <1>2, <1>4 DEF Logs

LEMMA LogsEntries ==
    ASSUME TypeOK, NEW j \in Job, NEW type, NEW d, Logs(j, type, d)
    PROVE  /\ Len(events[j]) \in Nat /\ Len(events'[j]) = Len(events[j]) + 1
           /\ \A t, x : \A i \in 1..Len(events[j]) : Names(j, i, t, x)' <=> Names(j, i, t, x)
           /\ \A n, t, x : n = Len(events[j]) + 1 => (Names(j, n, t, x)' <=> t = type /\ x = d)
           /\ \A t, x : Logged(j, t, x)' <=> Logged(j, t, x) \/ (t = type /\ x = d)
<1>1. events[j] \in Seq(Event)
  BY DEF TypeOK
<1>2. PICK e \in Event : e.type = type /\ e.domain = d /\ events'[j] = Append(events[j], e)
  BY DEF Logs
<1>3. /\ Len(events[j]) \in Nat /\ Len(events'[j]) = Len(events[j]) + 1
      /\ events'[j][Len(events[j]) + 1] = e
      /\ \A i \in 1..Len(events[j]) : events'[j][i] = events[j][i]
  BY <1>1, <1>2
<1>4. \A t, x : \A i \in 1..Len(events[j]) : Names(j, i, t, x)' <=> Names(j, i, t, x)
  BY <1>3 DEF Names
<1>5. \A n, t, x : n = Len(events[j]) + 1 => (Names(j, n, t, x)' <=> t = type /\ x = d)
  BY <1>2, <1>3 DEF Names
<1>6. ASSUME NEW t, NEW x
      PROVE  Logged(j, t, x)' <=> Logged(j, t, x) \/ (t = type /\ x = d)
  <2>1. \A i : i \in 1..(Len(events[j]) + 1) <=> i \in 1..Len(events[j]) \/ i = Len(events[j]) + 1
    BY <1>3
  <2>2. Logged(j, t, x)' <=> \E i \in 1..(Len(events[j]) + 1) : Names(j, i, t, x)'
    BY <1>3 DEF Logged
  <2> QED BY <1>4, <1>5, <2>1, <2>2 DEF Logged
<1> QED BY <1>3, <1>4, <1>5, <1>6

-----------------------------------------------------------------------------
(* The places of a task move with the channel *)

LEMMA PlacesAppend ==
    ASSUME TypeOK, NEW j \in Job, NEW d \in Domain, NEW task \in Task, jobs' = Append(jobs, task)
    PROVE  Places(j, d)' = IF task = [job |-> j, domain |-> d] THEN Places(j, d) \cup {Len(jobs) + 1} ELSE Places(j, d)
<1>1. jobs \in Seq(Task)
  BY DEF TypeOK
<1>2. /\ Len(jobs) \in Nat /\ Len(jobs') = Len(jobs) + 1 /\ jobs'[Len(jobs) + 1] = task
      /\ \A i \in 1..Len(jobs) : jobs'[i] = jobs[i]
  BY <1>1
<1> QED BY <1>2 DEF Places

LEMMA PlacesTail ==
    ASSUME TypeOK, NEW j \in Job, NEW d \in Domain, jobs # <<>>, jobs' = Tail(jobs), AtMostOne(Places(j, d))
    PROVE  /\ AtMostOne(Places(j, d)') /\ (Places(j, d)' # {} => Places(j, d) # {})
           /\ Head(jobs) = [job |-> j, domain |-> d] => Places(j, d) # {} /\ Places(j, d)' = {}
<1>1. jobs \in Seq(Task)
  BY DEF TypeOK
<1>2. /\ Len(jobs) \in Nat /\ Len(jobs) >= 1 /\ Head(jobs) = jobs[1]
      /\ Len(jobs') = Len(jobs) - 1
      /\ \A i \in 1..(Len(jobs) - 1) : jobs'[i] = jobs[i + 1]
  BY <1>1
<1>3. \A i \in Places(j, d)' : i \in Nat \ {0} /\ i + 1 \in Places(j, d)
  BY <1>2 DEF Places
<1>4. \A x, y \in Places(j, d)' : x + 1 = y + 1
  BY <1>3 DEF AtMostOne
<1>5. Head(jobs) = [job |-> j, domain |-> d] => 1 \in Places(j, d)
  BY <1>2 DEF Places
<1>6. AtMostOne(Places(j, d)')
  BY <1>3, <1>4 DEF AtMostOne
<1>7. Head(jobs) = [job |-> j, domain |-> d] => \A i \in Places(j, d)' : i + 1 = 1
  BY <1>3, <1>5 DEF AtMostOne
<1> QED BY <1>3, <1>5, <1>6, <1>7

LEMMA ReportedAppend ==
    ASSUME TypeOK, NEW j \in Job, NEW d \in Domain, NEW outcome \in Outcome, results'[j] = Append(results[j], outcome)
    PROVE  Reported(j, d)' = IF outcome.domain = d THEN Reported(j, d) \cup {Len(results[j]) + 1} ELSE Reported(j, d)
<1>1. results[j] \in Seq(Outcome)
  BY DEF TypeOK
<1>2. /\ Len(results[j]) \in Nat /\ Len(results'[j]) = Len(results[j]) + 1 /\ results'[j][Len(results[j]) + 1] = outcome
      /\ \A i \in 1..Len(results[j]) : results'[j][i] = results[j][i]
  BY <1>1
<1> QED BY <1>2 DEF Reported

LEMMA ReportedTail ==
    ASSUME TypeOK, NEW j \in Job, NEW d \in Domain, results[j] # <<>>, results'[j] = Tail(results[j]),
           AtMostOne(Reported(j, d))
    PROVE  /\ AtMostOne(Reported(j, d)') /\ (Reported(j, d)' # {} => Reported(j, d) # {})
           /\ Head(results[j]).domain = d => Reported(j, d) # {} /\ Reported(j, d)' = {}
<1>1. results[j] \in Seq(Outcome)
  BY DEF TypeOK
<1>2. /\ Len(results[j]) \in Nat /\ Len(results[j]) >= 1 /\ Head(results[j]) = results[j][1]
      /\ Len(results'[j]) = Len(results[j]) - 1
      /\ \A i \in 1..(Len(results[j]) - 1) : results'[j][i] = results[j][i + 1]
  BY <1>1
<1>3. \A i \in Reported(j, d)' : i \in Nat \ {0} /\ i + 1 \in Reported(j, d)
  BY <1>2 DEF Reported
<1>4. \A x, y \in Reported(j, d)' : x + 1 = y + 1
  BY <1>3 DEF AtMostOne
<1>5. Head(results[j]).domain = d => 1 \in Reported(j, d)
  BY <1>2 DEF Reported
<1>6. AtMostOne(Reported(j, d)')
  BY <1>3, <1>4 DEF AtMostOne
<1>7. Head(results[j]).domain = d => \A i \in Reported(j, d)' : i + 1 = 1
  BY <1>3, <1>5 DEF AtMostOne
<1> QED BY <1>3, <1>5, <1>6, <1>7

-----------------------------------------------------------------------------
(* No step takes or reports a target again *)

\* A step that moves nothing of the target forward.
LEMMA OnceKept ==
    ASSUME NEW j \in Job, NEW d \in Domain, OnceInv(j, d),
           AtMostOne(Places(j, d)'), Places(j, d)' # {} => Places(j, d) # {},
           Holders(j, d)' \subseteq Holders(j, d), \A w \in Holders(j, d)' : wpc'[w] = wpc[w],
           AtMostOne(Reported(j, d)'), Reported(j, d)' # {} => Reported(j, d) # {},
           Logged(j, "domain.started", d)' <=> Logged(j, "domain.started", d),
           Logged(j, "domain.completed", d)' <=> Logged(j, "domain.completed", d),
           Ahead(j, d)' => Ahead(j, d)
    PROVE  OnceInv(j, d)'
<1>1. AtMostOne(Holders(j, d)')
  BY DEF OnceInv, AtMostOne
<1> QED BY <1>1 DEF OnceInv

\* A step that leaves the channels, the log and the list of the job alone.
LEMMA OnceStill ==
    ASSUME NEW j \in Job, NEW d \in Domain, OnceInv(j, d),
           jobs' = jobs, results'[j] = results[j], events'[j] = events[j],
           Holders(j, d)' \subseteq Holders(j, d), \A w \in Holders(j, d)' : wpc'[w] = wpc[w],
           Ahead(j, d)' => Ahead(j, d)
    PROVE  OnceInv(j, d)'
<1>1. Places(j, d)' = Places(j, d) /\ Reported(j, d)' = Reported(j, d)
  BY DEF Places, Reported
<1>2. \A t : Logged(j, t, d)' <=> Logged(j, t, d)
  BY DEF Logged, Names
<1>3. AtMostOne(Places(j, d)') /\ AtMostOne(Reported(j, d)')
  BY <1>1 DEF OnceInv
<1> QED BY <1>1, <1>2, <1>3, OnceKept

LEMMA AheadStill ==
    ASSUME NEW j \in Job, NEW d \in Domain, rpc'[j] = rpc[j], index'[j] = index[j], targets'[j] = targets[j]
    PROVE  Ahead(j, d)' => Ahead(j, d)
BY DEF Ahead, Total

LEMMA StartCheckJobOnce ==
    ASSUME IInv, NEW j \in Job, NEW d \in Domain, NEW k \in Job, NEW t \in Tenant, NEW ts \in TargetLists,
           StartCheckJob(k, t, ts), OnceInv(j, d)
    PROVE  OnceInv(j, d)'
<1>1. TypeOK
  BY DEF IInv
<1>2. /\ jobs' = jobs /\ wtask' = wtask /\ wpc' = wpc /\ results' = results /\ UNCHANGED counterVars
      /\ AppendEvent(k, "job.started", NoDomain, "running") /\ rpc[k] = "none"
      /\ rpc' = [rpc EXCEPT ![k] = "enqueue"] /\ index' = [index EXCEPT ![k] = 1] /\ targets' = [targets EXCEPT ![k] = ts]
  BY DEF StartCheckJob, workerVars
<1>3. Logs(k, "job.started", NoDomain) /\ (j # k => events'[j] = events[j])
  <2>1. completed' \in [Job -> Nat] /\ succeeded' \in [Job -> Nat] /\ failed' \in [Job -> Nat]
    BY <1>1, <1>2 DEF TypeOK, counterVars
  <2> QED BY <1>1, <1>2, <2>1, AppendEventLogs DEF EventType, EventStatus
<1>4. Holders(j, d)' = Holders(j, d) /\ Places(j, d)' = Places(j, d) /\ Reported(j, d)' = Reported(j, d)
  BY <1>2 DEF Holders, Places, Reported
<1>5. Ahead(j, d)' => Ahead(j, d)
  <2>1. CASE j = k
    <3>1. rpc[j] = "none"
      BY <1>2, <2>1
    <3> QED BY <3>1 DEF Ahead
  <2>2. CASE j # k
    <3>1. rpc'[j] = rpc[j] /\ index'[j] = index[j] /\ targets'[j] = targets[j]
      BY <1>1, <1>2, <2>2 DEF TypeOK
    <3> QED BY <3>1, AheadStill
  <2> QED BY <2>1, <2>2
<1>6. CASE j = k
  <2>1. \A type \in {"domain.started", "domain.completed"} : Logged(j, type, d)' <=> Logged(j, type, d)
    BY <1>1, <1>3, <1>6, LogsEntries
  <2>2. AtMostOne(Places(j, d)') /\ AtMostOne(Reported(j, d)')
    BY <1>4 DEF OnceInv
  <2> QED BY <1>2, <1>4, <1>5, <2>1, <2>2, OnceKept
<1>7. CASE j # k
  BY <1>2, <1>3, <1>4, <1>5, <1>7, OnceStill
<1> QED BY <1>6, <1>7

\* The list names no domain twice, so what is sent is not ahead any more.
LEMMA EnqueueOnce ==
    ASSUME IInv, NEW j \in Job, NEW d \in Domain, NEW k \in Job, RunnerEnqueue(k), OnceInv(j, d)
    PROVE  OnceInv(j, d)'
<1> DEFINE x == targets[k][index[k]]
           task == [job |-> k, domain |-> x]
<1>1. /\ TypeOK /\ JobInv(k) /\ targets[k] \in Seq(Domain) /\ Total(k) \in Nat
      /\ targets[k] \in TargetLists \cup {<<>>}
  BY TotalType DEF IInv, TypeOK
<1>2. /\ jobs' = Append(jobs, task) /\ wtask' = wtask /\ wpc' = wpc /\ results' = results
      /\ events' = events /\ targets' = targets /\ rpc[k] = "enqueue"
      /\ \/ index[k] < Total(k) /\ index' = [index EXCEPT ![k] = index[k] + 1] /\ rpc' = rpc
         \/ index[k] = Total(k) /\ index' = [index EXCEPT ![k] = 1] /\ rpc' = [rpc EXCEPT ![k] = "collect"]
  BY DEF RunnerEnqueue, workerVars, jobVars
<1>3. index[k] \in 1..Total(k) /\ x \in Domain
  <2>1. index[k] \in 1..Total(k)
    BY <1>1, <1>2 DEF JobInv
  <2> QED BY <1>1, <2>1 DEF Total
<1>4. task \in Task
  BY <1>3 DEF Task
<1>5. Ahead(j, d)' => Ahead(j, d) /\ ~(j = k /\ d = x)
  <2>1. CASE j # k
    <3>1. rpc'[j] = rpc[j] /\ index'[j] = index[j]
      BY <1>1, <1>2, <2>1 DEF TypeOK
    <3> QED BY <1>2, <2>1, <3>1 DEF Ahead, Total
  <2>2. CASE j = k /\ index[k] = Total(k)
    BY <1>1, <1>2, <2>2 DEF Ahead, TypeOK
  <2>3. CASE j = k /\ index[k] < Total(k)
    <3>1. rpc'[k] = "enqueue" /\ index'[k] = index[k] + 1 /\ Total(k)' = Total(k)
      BY <1>1, <1>2, <2>3 DEF TypeOK, Total
    <3>2. Ahead(j, d)' => \E i \in (index[k] + 1)..Total(k) : targets[k][i] = d
      BY <1>2, <2>3, <3>1 DEF Ahead
    <3>3. \A a, b \in 1..Total(k) : targets[k][a] = targets[k][b] => a = b
      BY <1>1, TargetAssumption DEF Total
    <3>4. \A i \in (index[k] + 1)..Total(k) : i \in 1..Total(k) /\ i \in index[k]..Total(k) /\ i # index[k]
      BY <1>1, <1>3
    <3> QED BY <1>2, <1>3, <2>3, <3>2, <3>3, <3>4 DEF Ahead
  <2> QED BY <1>2, <2>1, <2>2, <2>3
<1>6. task = [job |-> j, domain |-> d] <=> j = k /\ d = x
  OBVIOUS
<1>7. j = k /\ d = x => Ahead(j, d)
  BY <1>1, <1>2, <1>3 DEF Ahead
<1> HIDE DEF x, task
<1>8. Places(j, d)' = IF j = k /\ d = x THEN Places(j, d) \cup {Len(jobs) + 1} ELSE Places(j, d)
  BY <1>1, <1>2, <1>4, <1>6, PlacesAppend
<1>9. Holders(j, d)' = Holders(j, d) /\ Reported(j, d)' = Reported(j, d)
  BY <1>2 DEF Holders, Reported
<1>10. \A t : Logged(j, t, d)' <=> Logged(j, t, d)
  BY <1>2 DEF Logged, Names
<1>11. CASE j = k /\ d = x
  <2>1. Places(j, d)' = {Len(jobs) + 1} /\ Holders(j, d)' = {} /\ ~Logged(j, "domain.started", d)'
    BY <1>7, <1>8, <1>9, <1>10, <1>11 DEF OnceInv
  <2>2. ~Ahead(j, d)'
    BY <1>5, <1>11
  <2>3. AtMostOne(Places(j, d)') /\ AtMostOne(Holders(j, d)') /\ AtMostOne(Reported(j, d)')
    BY <1>9, <2>1 DEF OnceInv, AtMostOne
  <2>4. Reported(j, d)' = {} /\ ~Logged(j, "domain.completed", d)'
    BY <1>9, <1>10, <2>1 DEF OnceInv
  <2> QED BY <2>1, <2>2, <2>3, <2>4 DEF OnceInv
<1>12. CASE ~(j = k /\ d = x)
  <2>1. AtMostOne(Places(j, d)') /\ AtMostOne(Reported(j, d)') /\ Places(j, d)' = Places(j, d)
    BY <1>8, <1>9, <1>12 DEF OnceInv
  <2> QED BY <1>2, <1>5, <1>9, <1>10, <2>1, OnceKept
<1> QED BY <1>11, <1>12

LEMMA CollectOnce ==
    ASSUME IInv, NEW j \in Job, NEW d \in Domain, NEW k \in Job, RunnerCollect(k), OnceInv(j, d)
    PROVE  OnceInv(j, d)' /\ Logs(k, "domain.completed", Head(results[k]).domain)
<1>1. TypeOK
  BY DEF IInv
<1>2. /\ jobs' = jobs /\ wtask' = wtask /\ wpc' = wpc /\ targets' = targets
      /\ rpc[k] = "collect" /\ results[k] # <<>> /\ results' = [results EXCEPT ![k] = Tail(results[k])]
      /\ CompleteDomain(k, Head(results[k]))
      /\ rpc' = rpc \/ rpc' = [rpc EXCEPT ![k] = "finish"]
      /\ j # k => index'[j] = index[j]
  BY <1>1 DEF RunnerCollect, serviceVars, workerVars, TypeOK
<1>3. results[k] \in Seq(Outcome) /\ results'[k] = Tail(results[k]) /\ (j # k => results'[j] = results[j])
  BY <1>1, <1>2 DEF TypeOK
<1>4. PICK outcome \in Outcome : outcome = Head(results[k])
  BY <1>2, <1>3
<1>5. Logs(k, "domain.completed", outcome.domain) /\ (j # k => events'[j] = events[j])
  <2>1. completed' \in [Job -> Nat] /\ succeeded' \in [Job -> Nat] /\ failed' \in [Job -> Nat]
    BY <1>1, <1>2, <1>4, CompleteDomainCounts
  <2>2. AppendEvent(k, "domain.completed", outcome.domain, outcome.status)
    BY <1>2, <1>4 DEF CompleteDomain
  <2>3. outcome.domain \in Domain \cup {NoDomain} /\ outcome.status \in EventStatus /\ "domain.completed" \in EventType
    BY DEF Outcome, EventStatus, EventType
  <2> QED BY <1>1, <2>1, <2>2, <2>3, AppendEventLogs
<1>6. Places(j, d)' = Places(j, d) /\ Holders(j, d)' = Holders(j, d)
  BY <1>2 DEF Places, Holders
<1>7. CASE j # k
  <2>1. rpc'[j] = rpc[j]
    BY <1>1, <1>2, <1>7 DEF TypeOK
  <2>2. Ahead(j, d)' => Ahead(j, d)
    BY <1>2, <1>7, <2>1, AheadStill
  <2> QED BY <1>2, <1>3, <1>4, <1>5, <1>6, <1>7, <2>2, OnceStill
<1>8. CASE j = k
  <2>1. ~Ahead(j, d)'
    BY <1>1, <1>2, <1>8 DEF Ahead, TypeOK
  <2>2. /\ AtMostOne(Reported(j, d)') /\ (Reported(j, d)' # {} => Reported(j, d) # {})
        /\ outcome.domain = d => Reported(j, d) # {} /\ Reported(j, d)' = {}
    BY <1>1, <1>2, <1>3, <1>4, <1>8, ReportedTail DEF OnceInv
  <2>3. /\ Logged(j, "domain.started", d)' <=> Logged(j, "domain.started", d)
        /\ Logged(j, "domain.completed", d)' <=> Logged(j, "domain.completed", d) \/ outcome.domain = d
    BY <1>1, <1>5, <1>8, LogsEntries
  <2>4. AtMostOne(Places(j, d)') /\ AtMostOne(Holders(j, d)')
    BY <1>6 DEF OnceInv
  <2>5. CASE outcome.domain = d
    <3>1. Logged(j, "domain.started", d)' /\ Logged(j, "domain.completed", d)' /\ Reported(j, d)' = {}
      BY <2>2, <2>3, <2>5 DEF OnceInv
    <3>2. Places(j, d) = {} /\ \A w \in Holders(j, d) : wpc[w] \notin {"starting", "checking"}
      BY <2>2, <2>5 DEF OnceInv
    <3>3. OnceInv(j, d)'
      BY <1>2, <1>6, <2>1, <2>2, <2>4, <3>1, <3>2 DEF OnceInv
    <3> QED BY <1>4, <1>5, <3>3
  <2>6. CASE outcome.domain # d
    BY <1>2, <1>4, <1>5, <1>6, <2>1, <2>2, <2>3, <2>4, <2>6, OnceKept
  <2> QED BY <2>5, <2>6
<1> QED BY <1>7, <1>8

LEMMA EndOnce ==
    ASSUME IInv, NEW j \in Job, NEW d \in Domain, NEW k \in Job, RunnerFinish(k) \/ RunnerInterrupted(k),
           OnceInv(j, d)
    PROVE  OnceInv(j, d)' /\ Logs(k, "job.completed", NoDomain)
<1>1. TypeOK /\ IInv' /\ JobInv(k)
  BY FinishIInv, InterruptedIInv DEF IInv
<1>2. /\ jobs' = jobs /\ wtask' = wtask /\ wpc' = wpc /\ results' = results /\ index' = index
      /\ targets' = targets /\ rpc' = [rpc EXCEPT ![k] = "exited"]
  BY DEF RunnerFinish, RunnerInterrupted, serviceVars, workerVars
<1>3. \E status \in EventStatus : AppendEvent(k, "job.completed", NoDomain, status)
  <2>1. ~done[k]
    BY <1>1 DEF RunnerFinish, RunnerInterrupted, JobInv
  <2>2. Verdict(k) \in EventStatus /\ "failed" \in EventStatus
    BY DEF Verdict, EventStatus
  <2> QED BY <2>1, <2>2 DEF RunnerFinish, RunnerInterrupted, Finish, FinishInterrupted
<1>4. Logs(k, "job.completed", NoDomain) /\ (j # k => events'[j] = events[j])
  <2>1. completed' \in [Job -> Nat] /\ succeeded' \in [Job -> Nat] /\ failed' \in [Job -> Nat]
    BY <1>1 DEF IInv, TypeOK
  <2>2. "job.completed" \in EventType
    BY DEF EventType
  <2> QED BY <1>1, <1>3, <2>1, <2>2, AppendEventLogs
<1>5. Places(j, d)' = Places(j, d) /\ Holders(j, d)' = Holders(j, d) /\ Reported(j, d)' = Reported(j, d)
  BY <1>2 DEF Places, Holders, Reported
<1>6. Ahead(j, d)' => Ahead(j, d)
  <2>1. CASE j = k
    <3>1. rpc'[j] = "exited"
      BY <1>1, <1>2, <2>1 DEF TypeOK
    <3> QED BY <3>1 DEF Ahead
  <2>2. CASE j # k
    <3>1. rpc'[j] = rpc[j]
      BY <1>1, <1>2, <2>2 DEF TypeOK
    <3> QED BY <1>2, <3>1, AheadStill
  <2> QED BY <2>1, <2>2
<1>7. \A t \in {"domain.started", "domain.completed"} : Logged(j, t, d)' <=> Logged(j, t, d)
  <2>1. CASE j = k
    BY <1>1, <1>4, <2>1, LogsEntries
  <2>2. CASE j # k
    BY <1>4, <2>2 DEF Logged, Names
  <2> QED BY <2>1, <2>2
<1>8. AtMostOne(Places(j, d)') /\ AtMostOne(Reported(j, d)')
  BY <1>5 DEF OnceInv
<1>9. OnceInv(j, d)'
  BY <1>2, <1>5, <1>6, <1>7, <1>8, OnceKept
<1> QED BY <1>4, <1>9

LEMMA ReceiveOnce ==
    ASSUME IInv, HandInv, NEW j \in Job, NEW d \in Domain, NEW w \in Worker, WorkerReceive(w), OnceInv(j, d)
    PROVE  OnceInv(j, d)'
<1> DEFINE task == [job |-> j, domain |-> d]
<1>1. TypeOK
  BY DEF IInv
<1>2. /\ jobs # <<>> /\ jobs' = Tail(jobs) /\ wtask' = [wtask EXCEPT ![w] = Head(jobs)]
      /\ wpc' = [wpc EXCEPT ![w] = "starting"] /\ wtask[w] = NoTask
      /\ UNCHANGED <<results, events, rpc, index, targets>>
  BY DEF WorkerReceive, HandInv, runnerVars, jobVars
<1>3. NoTask # task
  BY NoneAssumption DEF NoTask
<1>4. /\ AtMostOne(Places(j, d)') /\ (Places(j, d)' # {} => Places(j, d) # {})
      /\ Head(jobs) = task => Places(j, d) # {} /\ Places(j, d)' = {}
  BY <1>1, <1>2, PlacesTail DEF OnceInv
<1> HIDE DEF task
<1>5. /\ Holders(j, d)' = IF Head(jobs) = task THEN Holders(j, d) \cup {w} ELSE Holders(j, d)
      /\ w \notin Holders(j, d)
      /\ \A v \in Worker : v # w => wpc'[v] = wpc[v]
      /\ wpc'[w] = "starting"
  BY <1>1, <1>2, <1>3 DEF Holders, TypeOK, task
<1>6. Reported(j, d)' = Reported(j, d) /\ (Ahead(j, d)' => Ahead(j, d))
  BY <1>2, AheadStill DEF Reported
<1>7. \A t : Logged(j, t, d)' <=> Logged(j, t, d)
  BY <1>2 DEF Logged, Names
<1>8. CASE Head(jobs) = task
  <2>1. Holders(j, d) = {} /\ ~Logged(j, "domain.started", d) /\ ~Ahead(j, d)
    BY <1>4, <1>8 DEF OnceInv
  <2>2. Holders(j, d)' = {w} /\ Places(j, d)' = {} /\ wpc'[w] = "starting"
    BY <1>4, <1>5, <1>8, <2>1
  <2>3. Reported(j, d) = {} /\ ~Logged(j, "domain.completed", d)
    BY <2>1 DEF OnceInv
  <2>4. AtMostOne(Holders(j, d)') /\ AtMostOne(Reported(j, d)')
    BY <1>6, <2>2, <2>3 DEF AtMostOne
  <2> QED BY <1>4, <1>6, <1>7, <2>1, <2>2, <2>3, <2>4 DEF OnceInv
<1>9. CASE Head(jobs) # task
  <2>1. Holders(j, d)' = Holders(j, d) /\ \A v \in Holders(j, d) : wpc'[v] = wpc[v]
    BY <1>5, <1>9 DEF Holders
  <2>2. AtMostOne(Reported(j, d)')
    BY <1>6 DEF OnceInv
  <2> QED BY <1>4, <1>6, <1>7, <2>1, <2>2, OnceKept
<1> QED BY <1>8, <1>9

LEMMA StartsOnce ==
    ASSUME IInv, NEW j \in Job, NEW d \in Domain, NEW w \in Worker, WorkerStarts(w), OnceInv(j, d)
    PROVE  /\ OnceInv(j, d)'
           /\ wtask[w].job \in Job => wtask[w].domain \in Domain /\ Logs(wtask[w].job, "domain.started", wtask[w].domain)
<1> DEFINE task == [job |-> j, domain |-> d]
<1>1. TypeOK
  BY DEF IInv
<1>2. /\ wpc[w] = "starting" /\ wpc' = [wpc EXCEPT ![w] = "checking"] /\ wtask' = wtask
      /\ UNCHANGED <<jobs, results, rpc, index, targets>> /\ UNCHANGED counterVars
  BY DEF WorkerStarts, serviceVars, runnerVars
<1>3. wtask[w] \in Task \cup {NoTask}
  BY <1>1 DEF TypeOK
<1>4. ASSUME wtask[w].job \in Job
      PROVE  /\ wtask[w].domain \in Domain /\ Logs(wtask[w].job, "domain.started", wtask[w].domain)
             /\ j # wtask[w].job => events'[j] = events[j]
  <2>1. wtask[w] \in Task
    BY <1>3, <1>4, NoneAssumption DEF NoTask
  <2>2. wtask[w].domain \in Domain
    BY <2>1 DEF Task
  <2>3. AppendEvent(wtask[w].job, "domain.started", wtask[w].domain, "running")
    BY <1>4, NoneAssumption DEF WorkerStarts
  <2>4. completed' \in [Job -> Nat] /\ succeeded' \in [Job -> Nat] /\ failed' \in [Job -> Nat]
    BY <1>1, <1>2 DEF TypeOK, counterVars
  <2> QED BY <1>1, <1>4, <2>2, <2>3, <2>4, AppendEventLogs DEF EventType, EventStatus
<1>5. /\ Places(j, d)' = Places(j, d) /\ Reported(j, d)' = Reported(j, d) /\ Holders(j, d)' = Holders(j, d)
      /\ Ahead(j, d)' => Ahead(j, d)
  BY <1>2, AheadStill DEF Places, Reported, Holders
<1>6. AtMostOne(Places(j, d)') /\ AtMostOne(Reported(j, d)') /\ AtMostOne(Holders(j, d)')
  BY <1>5 DEF OnceInv
<1>7. CASE wtask[w] = task
  <2>1. w \in Holders(j, d) /\ wtask[w].job = j /\ wtask[w].domain = d
    BY <1>7 DEF Holders
  <2>2. Holders(j, d) = {w} /\ ~Logged(j, "domain.started", d) /\ Places(j, d) = {} /\ ~Ahead(j, d)
    BY <1>2, <2>1 DEF OnceInv, AtMostOne
  <2>3. Reported(j, d) = {} /\ ~Logged(j, "domain.completed", d)
    BY <2>2 DEF OnceInv
  <2>4. Logged(j, "domain.started", d)' /\ ~Logged(j, "domain.completed", d)'
    BY <1>1, <1>4, <2>1, <2>3, LogsEntries
  <2>5. wpc'[w] = "checking"
    BY <1>1, <1>2 DEF TypeOK
  <2>6. OnceInv(j, d)'
    BY <1>5, <1>6, <2>2, <2>3, <2>4, <2>5 DEF OnceInv
  <2> QED BY <1>4, <2>6
<1>8. CASE wtask[w] # task
  <2>1. w \notin Holders(j, d)
    BY <1>8 DEF Holders
  <2>2. \A v \in Holders(j, d) : wpc'[v] = wpc[v]
    BY <1>1, <1>2, <2>1 DEF TypeOK, Holders
  <2>3. \A t \in {"domain.started", "domain.completed"} : Logged(j, t, d)' <=> Logged(j, t, d)
    <3>1. CASE wtask[w].job = j
      <4>1. wtask[w] \in Task /\ Logs(j, "domain.started", wtask[w].domain)
        BY <1>3, <1>4, <3>1, NoneAssumption DEF NoTask
      <4>2. wtask[w].domain # d
        BY <1>8, <3>1, <4>1 DEF Task
      <4> QED BY <1>1, <4>1, <4>2, LogsEntries
    <3>2. CASE wtask[w].job # j
      <4>1. events'[j] = events[j]
        BY <1>3, <1>4, <3>2 DEF WorkerStarts, Task, NoTask
      <4> QED BY <4>1 DEF Logged, Names
    <3> QED BY <3>1, <3>2
  <2>4. OnceInv(j, d)'
    BY <1>5, <1>6, <2>2, <2>3, OnceKept
  <2> QED BY <1>4, <2>4
<1> QED BY <1>7, <1>8

LEMMA FinishesOnce ==
    ASSUME IInv, NEW j \in Job, NEW d \in Domain, NEW w \in Worker, WorkerFinishes(w), OnceInv(j, d)
    PROVE  OnceInv(j, d)'
<1> DEFINE task == [job |-> j, domain |-> d]
<1>1. TypeOK
  BY DEF IInv
<1>2. /\ wpc[w] = "checking" /\ wpc' = [wpc EXCEPT ![w] = "select"] /\ wtask' = [wtask EXCEPT ![w] = NoTask]
      /\ UNCHANGED <<jobs, events, rpc, index, targets>>
  BY DEF WorkerFinishes, serviceVars, jobVars
<1>3. NoTask # task
  BY NoneAssumption DEF NoTask
<1>4. /\ Holders(j, d)' = Holders(j, d) \ {w} /\ (w \in Holders(j, d) <=> wtask[w] = task)
      /\ \A v \in Worker : v # w => wpc'[v] = wpc[v]
  BY <1>1, <1>2, <1>3 DEF TypeOK, Holders
<1>5. Places(j, d)' = Places(j, d) /\ (Ahead(j, d)' => Ahead(j, d))
  BY <1>2, AheadStill DEF Places
<1>6. \A t : Logged(j, t, d)' <=> Logged(j, t, d)
  BY <1>2 DEF Logged, Names
<1>7. \/ results'[j] = results[j] /\ wtask[w].job # j
      \/ /\ wtask[w].job = j
         /\ \E outcome \in Outcome : /\ outcome.domain \in {wtask[w].domain, NoDomain}
                                     /\ results'[j] = Append(results[j], outcome)
  <2>1. wtask[w] \in Task \cup {NoTask}
    BY <1>1 DEF TypeOK
  <2>2. CASE wtask[w].job = j
    <3>1. wtask[w] \in Task
      BY <2>1, <2>2, NoneAssumption DEF NoTask
    <3>2. PICK outcome \in Outcomes(wtask[w].domain) : results' = [results EXCEPT ![j] = Append(results[j], outcome)]
      BY <2>2, NoneAssumption DEF WorkerFinishes
    <3>3. outcome \in Outcome /\ outcome.domain \in {wtask[w].domain, NoDomain}
      BY <3>1 DEF Outcomes, Outcome, Task, DomainStatus
    <3>4. results'[j] = Append(results[j], outcome)
      BY <1>1, <3>2 DEF TypeOK
    <3> QED BY <2>2, <3>3, <3>4
  <2>3. CASE wtask[w].job # j
    BY <1>1, <2>3 DEF WorkerFinishes, TypeOK
  <2> QED BY <2>2, <2>3
<1>8. CASE wtask[w] = task
  <2>1. wtask[w].job = j /\ wtask[w].domain = d /\ w \in Holders(j, d)
    BY <1>4, <1>8
  <2>2. /\ Holders(j, d) = {w} /\ Reported(j, d) = {} /\ Places(j, d) = {} /\ ~Ahead(j, d)
        /\ Logged(j, "domain.started", d) /\ ~Logged(j, "domain.completed", d)
    BY <1>2, <2>1 DEF OnceInv, AtMostOne
  <2>3. PICK outcome \in Outcome : results'[j] = Append(results[j], outcome)
    BY <1>7, <2>1
  <2>4. Reported(j, d)' \subseteq {Len(results[j]) + 1}
    BY <1>1, <2>2, <2>3, ReportedAppend
  <2>5. AtMostOne(Reported(j, d)') /\ AtMostOne(Holders(j, d)') /\ Holders(j, d)' = {} /\ Places(j, d)' = {}
        /\ AtMostOne(Places(j, d)')
    BY <1>4, <1>5, <2>2, <2>4 DEF AtMostOne
  <2> QED BY <1>5, <1>6, <2>2, <2>5 DEF OnceInv
<1>9. CASE wtask[w] # task
  <2>1. Holders(j, d)' = Holders(j, d) /\ \A v \in Holders(j, d) : wpc'[v] = wpc[v]
    BY <1>4, <1>9 DEF Holders
  <2>2. Reported(j, d)' = Reported(j, d)
    <3>1. CASE wtask[w].job # j
      <4>1. results'[j] = results[j]
        BY <1>7, <3>1
      <4> QED BY <4>1 DEF Reported
    <3>2. CASE wtask[w].job = j
      <4>1. wtask[w].domain # d
        <5>1. wtask[w] \in Task
          BY <1>1, <3>2, NoneAssumption DEF TypeOK, NoTask
        <5> QED BY <1>9, <3>2, <5>1 DEF Task
      <4>2. PICK outcome \in Outcome : outcome.domain # d /\ results'[j] = Append(results[j], outcome)
        BY <1>7, <3>2, <4>1, NoneAssumption
      <4> QED BY <1>1, <4>2, ReportedAppend
    <3> QED BY <3>1, <3>2
  <2>3. AtMostOne(Places(j, d)') /\ AtMostOne(Reported(j, d)')
    BY <1>5, <2>2 DEF OnceInv
  <2> QED BY <1>5, <1>6, <2>1, <2>2, <2>3, OnceKept
<1> QED BY <1>8, <1>9

\* The loop sends tasks of no job.
LEMMA LoopOnce ==
    ASSUME IInv, NEW j \in Job, NEW d \in Domain, OnceInv(j, d),
           LoopStep \/ LoopPanics \/ \E x \in Scheduled : LoopClaims(x)
    PROVE  OnceInv(j, d)'
<1>1. TypeOK /\ LoopInv /\ UNCHANGED <<workerVars, runnerVars, jobVars>>
  BY DEF IInv, LoopStep, LoopSends, LoopExits, LoopReports, LoopPanics, LoopClaims
<1>2. UNCHANGED <<wpc, wtask, results, events, rpc, index, targets>>
  BY <1>1 DEF workerVars, runnerVars, jobVars
<1>3. Holders(j, d)' = Holders(j, d) /\ Reported(j, d)' = Reported(j, d) /\ (Ahead(j, d)' => Ahead(j, d))
  BY <1>2, AheadStill DEF Holders, Reported
<1>4. CASE LoopSends
  <2>1. /\ jobs' = Append(jobs, [job |-> NoJob, domain |-> ldomain])
        /\ [job |-> NoJob, domain |-> ldomain] \in Task
    BY <1>1, <1>4 DEF LoopSends, LoopInv, Task
  <2>2. [job |-> NoJob, domain |-> ldomain] # [job |-> j, domain |-> d]
    BY NoneAssumption
  <2>3. Places(j, d)' = Places(j, d)
    BY <1>1, <2>1, <2>2, PlacesAppend
  <2>4. \A t : Logged(j, t, d)' <=> Logged(j, t, d)
    BY <1>2 DEF Logged, Names
  <2>5. AtMostOne(Places(j, d)') /\ AtMostOne(Reported(j, d)')
    BY <1>3, <2>3 DEF OnceInv
  <2> QED BY <1>2, <1>3, <2>3, <2>4, <2>5, OnceKept
<1>5. CASE ~LoopSends
  <2>1. jobs' = jobs
    BY <1>5 DEF LoopStep, LoopExits, LoopReports, LoopPanics, LoopClaims, ReportPanic, serviceVars
  <2> QED BY <1>2, <1>3, <2>1, OnceStill
<1> QED BY <1>4, <1>5

LEMMA NextOnce ==
    ASSUME IInv, HandInv, [Next]_vars, NEW j \in Job, NEW d \in Domain, OnceInv(j, d)
    PROVE  OnceInv(j, d)'
<1>0. TypeOK
  BY DEF IInv
<1>1. ASSUME UNCHANGED <<jobs, results, events, wtask, rpc, index, targets>>,
             \A w \in Worker : wpc[w] \in {"starting", "checking"} => wpc'[w] = wpc[w],
             \A w \in Worker : wpc'[w] # wpc[w] => wpc'[w] \notin {"starting", "checking"}
      PROVE  OnceInv(j, d)'
  <2>1. \A w \in Holders(j, d) : wpc'[w] = wpc[w]
    BY <1>1, NoneAssumption DEF Holders, HandInv, NoTask
  <2>2. Holders(j, d)' = Holders(j, d) /\ (Ahead(j, d)' => Ahead(j, d))
    BY <1>1, AheadStill DEF Holders
  <2> QED BY <1>1, <2>1, <2>2, OnceStill
<1>2. CASE Start
  <2>1. \A w \in Worker : wpc[w] = "down" /\ wpc'[w] = "select"
    BY <1>2 DEF Start, HandInv
  <2> QED BY <1>1, <1>2, <2>1 DEF Start, runnerVars, jobVars
<1>3. CASE CancelParent \/ Stop \/ StopReturns
  BY <1>1, <1>3 DEF CancelParent, Stop, StopReturns, workerVars, runnerVars, jobVars
<1>4. CASE \E k \in Job, t \in Tenant, ts \in TargetLists : StartCheckJob(k, t, ts)
  BY <1>4, StartCheckJobOnce
<1>5. CASE \E k \in Job : JobStep(k)
  BY <1>5, EnqueueOnce, CollectOnce, EndOnce DEF JobStep
<1>6. CASE \E k \in Job : ExpireCheckJob(k)
  BY <1>1, <1>6 DEF ExpireCheckJob, workerVars, runnerVars, jobVars
<1>7. ASSUME NEW w \in Worker, WorkerStep(w) \/ WorkerPanics(w)
      PROVE  OnceInv(j, d)'
  <2>1. CASE WorkerExits(w) \/ WorkerReports(w)
    <3>1. /\ UNCHANGED <<jobs, results, events, wtask, rpc, index, targets>>
          /\ wpc[w] \in {"select", "panicked"} /\ wpc' = [wpc EXCEPT ![w] = "exited"]
      BY <2>1 DEF WorkerExits, WorkerReports, ReportPanic, serviceVars, runnerVars, jobVars
    <3> QED BY <1>0, <1>1, <3>1 DEF TypeOK
  <2>2. CASE WorkerPanics(w)
    <3>1. /\ UNCHANGED <<jobs, results, events, rpc, index, targets>>
          /\ wtask' = [wtask EXCEPT ![w] = NoTask] /\ wpc' = [wpc EXCEPT ![w] = "panicked"]
      BY <2>2 DEF WorkerPanics, serviceVars, runnerVars, jobVars
    <3>2. Holders(j, d)' \subseteq Holders(j, d) \ {w} /\ \A v \in Worker : v # w => wpc'[v] = wpc[v]
      BY <1>0, <3>1, NoneAssumption DEF TypeOK, Holders, NoTask
    <3>3. \A v \in Holders(j, d)' : wpc'[v] = wpc[v]
      BY <3>2 DEF Holders
    <3> QED BY <3>1, <3>2, <3>3, AheadStill, OnceStill
  <2> QED BY <1>7, <2>1, <2>2, ReceiveOnce, StartsOnce, FinishesOnce DEF WorkerStep
<1>8. CASE LoopStep \/ LoopPanics \/ \E x \in Scheduled : LoopClaims(x)
  BY <1>8, LoopOnce
<1>9. CASE UNCHANGED vars
  BY <1>1, <1>9 DEF vars, serviceVars, workerVars, runnerVars, jobVars
<1> QED BY <1>2, <1>3, <1>4, <1>5, <1>6, <1>7, <1>8, <1>9 DEF Next

-----------------------------------------------------------------------------
(* What one step writes, and what is under way then *)

UnderWay(j) == InResults(j) + Cardinality(CheckingOf(j))

OnceStep(j) ==
    \/ events'[j] = events[j] /\ UnderWay(j)' <= UnderWay(j)
    \/ \E type \in {"job.started", "job.completed"} : Logs(j, type, NoDomain) /\ UnderWay(j)' <= UnderWay(j)
    \/ \E d \in Domain : /\ Logs(j, "domain.started", d) /\ ~Logged(j, "domain.started", d)
                         /\ UnderWay(j)' <= UnderWay(j) + 1
    \/ \E d \in Domain \cup {NoDomain} :
        /\ Logs(j, "domain.completed", d) /\ UnderWay(j)' + 1 <= UnderWay(j)
        /\ d # NoDomain => Logged(j, "domain.started", d) /\ ~Logged(j, "domain.completed", d)

LEMMA UnderWayType ==
    ASSUME TypeOK, NEW j \in Job
    PROVE  /\ IsFiniteSet(CheckingOf(j)) /\ Cardinality(CheckingOf(j)) \in Nat
           /\ InResults(j) \in Nat /\ UnderWay(j) \in Nat
<1>1. IsFiniteSet(CheckingOf(j))
  BY WorkerAssumption, FS_Subset DEF CheckingOf
<1>2. Cardinality(CheckingOf(j)) \in Nat
  BY <1>1, FS_CardinalityType
<1> QED BY <1>1, <1>2, AmountsType DEF UnderWay

\* A step of the job's goroutine, or of none: the workers and their tasks stay.
LEMMA UnderWayStill ==
    ASSUME TypeOK, NEW j \in Job, wtask' = wtask, wpc' = wpc
    PROVE  /\ InResults(j)' = InResults(j) => UnderWay(j)' <= UnderWay(j)
           /\ InResults(j)' + 1 = InResults(j) /\ InResults(j)' \in Nat => UnderWay(j)' + 1 <= UnderWay(j)
<1>1. CheckingOf(j)' = CheckingOf(j)
  BY DEF CheckingOf
<1> QED BY <1>1, UnderWayType DEF UnderWay

LEMMA JobOnceStep ==
    ASSUME IInv, NEW j \in Job, \A d \in Domain : OnceInv(j, d),
           \/ \E k \in Job, t \in Tenant, ts \in TargetLists : StartCheckJob(k, t, ts)
           \/ \E k \in Job : JobStep(k)
    PROVE  OnceStep(j)
<1>1. TypeOK
  BY DEF IInv
<1>2. wtask' = wtask /\ wpc' = wpc
  BY DEF StartCheckJob, JobStep, RunnerEnqueue, RunnerCollect, RunnerFinish, RunnerInterrupted, workerVars
<1>3. ASSUME NEW k \in Job, NEW t \in Tenant, NEW ts \in TargetLists, StartCheckJob(k, t, ts)
      PROVE  OnceStep(j)
  <2>1. completed' \in [Job -> Nat] /\ succeeded' \in [Job -> Nat] /\ failed' \in [Job -> Nat]
    BY <1>1, <1>3 DEF StartCheckJob, TypeOK, counterVars
  <2>2. Logs(k, "job.started", NoDomain) /\ (j # k => events'[j] = events[j])
    BY <1>1, <1>3, <2>1, AppendEventLogs DEF StartCheckJob, EventType, EventStatus
  <2>3. UnderWay(j)' <= UnderWay(j)
    BY <1>1, <1>2, <1>3, UnderWayStill DEF StartCheckJob, InResults
  <2> QED BY <2>2, <2>3 DEF OnceStep
<1>4. ASSUME NEW k \in Job, RunnerEnqueue(k)
      PROVE  OnceStep(j)
  <2>1. events' = events /\ results' = results
    BY <1>4 DEF RunnerEnqueue, jobVars
  <2>2. UnderWay(j)' <= UnderWay(j)
    BY <1>1, <1>2, <2>1, UnderWayStill DEF InResults
  <2> QED BY <2>1, <2>2 DEF OnceStep
<1>5. ASSUME NEW k \in Job, RunnerFinish(k) \/ RunnerInterrupted(k)
      PROVE  OnceStep(j)
  <2>1. PICK status \in EventStatus : AppendEvent(k, "job.completed", NoDomain, status)
    <3>1. ~done[k]
      BY <1>5 DEF IInv, RunnerFinish, RunnerInterrupted, JobInv
    <3>2. Verdict(k) \in EventStatus /\ "failed" \in EventStatus
      BY DEF Verdict, EventStatus
    <3> QED BY <1>5, <3>1, <3>2 DEF RunnerFinish, RunnerInterrupted, Finish, FinishInterrupted
  <2>2. completed' \in [Job -> Nat] /\ succeeded' \in [Job -> Nat] /\ failed' \in [Job -> Nat]
    BY <1>5, FinishIInv, InterruptedIInv DEF IInv, TypeOK
  <2>3. Logs(k, "job.completed", NoDomain) /\ (j # k => events'[j] = events[j])
    BY <1>1, <2>1, <2>2, AppendEventLogs DEF EventType
  <2>4. UnderWay(j)' <= UnderWay(j)
    BY <1>1, <1>2, <1>5, UnderWayStill DEF RunnerFinish, RunnerInterrupted, InResults
  <2> QED BY <2>3, <2>4 DEF OnceStep
<1>6. ASSUME NEW k \in Job, RunnerCollect(k)
      PROVE  OnceStep(j)
  <2>1. results[k] \in Seq(Outcome) /\ results[k] # <<>> /\ results' = [results EXCEPT ![k] = Tail(results[k])]
    BY <1>1, <1>6 DEF RunnerCollect, TypeOK
  <2>2. PICK outcome \in Outcome : outcome = Head(results[k])
    BY <2>1
  <2>3. outcome.domain \in Domain \cup {NoDomain} /\ outcome.status \in EventStatus
    BY DEF Outcome, EventStatus
  <2>4. Logs(k, "domain.completed", outcome.domain) /\ (j # k => events'[j] = events[j])
    <3>1. CompleteDomain(k, outcome)
      BY <1>6, <2>2 DEF RunnerCollect
    <3>2. completed' \in [Job -> Nat] /\ succeeded' \in [Job -> Nat] /\ failed' \in [Job -> Nat]
      BY <1>1, <3>1, CompleteDomainCounts
    <3> QED BY <1>1, <2>3, <3>1, <3>2, AppendEventLogs DEF CompleteDomain, EventType
  <2>5. CASE j # k
    <3>1. InResults(j)' = InResults(j)
      BY <1>1, <2>1, <2>5 DEF InResults, TypeOK
    <3> QED BY <1>1, <1>2, <2>4, <2>5, <3>1, UnderWayStill DEF OnceStep
  <2>6. CASE j = k
    <3>1. results'[j] = Tail(results[j])
      BY <1>1, <2>1, <2>6 DEF TypeOK
    <3>2. InResults(j)' + 1 = InResults(j) /\ InResults(j)' \in Nat
      <4>1. /\ results[j] \in Seq(Outcome) /\ results[j] # <<>>
            /\ Len(results'[j]) = Len(results[j]) - 1 /\ Len(results[j]) \in Nat /\ Len(results[j]) >= 1
        <5>1. results[j] \in Seq(Outcome) /\ results[j] # <<>>
          BY <2>1, <2>6
        <5>2. /\ Len(Tail(results[j])) = Len(results[j]) - 1
              /\ Len(results[j]) \in Nat /\ Len(results[j]) >= 1
          BY <5>1
        <5> QED BY <3>1, <5>1, <5>2
      <4> QED BY <4>1 DEF InResults
    <3>3. UnderWay(j)' + 1 <= UnderWay(j)
      BY <1>1, <1>2, <3>2, UnderWayStill
    <3>4. ASSUME outcome.domain # NoDomain
          PROVE  Logged(j, "domain.started", outcome.domain) /\ ~Logged(j, "domain.completed", outcome.domain)
      <4>1. outcome.domain \in Domain
        BY <2>3, <3>4
      <4>2. OnceInv(j, outcome.domain)
        BY <4>1
      <4>3. Reported(j, outcome.domain) # {}
        BY <1>1, <2>1, <2>2, <2>6, <3>1, <4>1, <4>2, ReportedTail DEF OnceInv
      <4> QED BY <4>2, <4>3 DEF OnceInv
    <3> QED BY <2>3, <2>4, <2>6, <3>3, <3>4 DEF OnceStep
  <2> QED BY <2>5, <2>6
<1> QED BY <1>3, <1>4, <1>5, <1>6 DEF JobStep

LEMMA WorkerOnceStep ==
    ASSUME IInv, HandInv, NEW j \in Job, \A d \in Domain : OnceInv(j, d),
           NEW w \in Worker, WorkerStep(w) \/ WorkerPanics(w)
    PROVE  OnceStep(j)
<1>1. TypeOK
  BY DEF IInv
<1>2. /\ wpc \in [Worker -> {"down", "select", "starting", "checking", "panicked", "exited"}]
      /\ wtask \in [Worker -> Task \cup {NoTask}]
  BY <1>1 DEF TypeOK
<1>3. /\ IsFiniteSet(CheckingOf(j)) /\ Cardinality(CheckingOf(j)) \in Nat /\ InResults(j) \in Nat
      /\ UnderWay(j) = InResults(j) + Cardinality(CheckingOf(j))
  BY <1>1, UnderWayType DEF UnderWay
<1>4. CASE WorkerReceive(w) \/ WorkerExits(w) \/ WorkerReports(w)
  <2>1. /\ wpc[w] # "checking" /\ wpc'[w] # "checking" /\ events' = events /\ results' = results
        /\ \A v \in Worker : v # w => wpc'[v] = wpc[v] /\ wtask'[v] = wtask[v]
    BY <1>2, <1>4 DEF WorkerReceive, WorkerExits, WorkerReports, runnerVars, jobVars
  <2>2. CheckingOf(j)' = CheckingOf(j)
    BY <2>1 DEF CheckingOf
  <2>3. UnderWay(j)' = UnderWay(j)
    BY <2>1, <2>2 DEF UnderWay, InResults
  <2> QED BY <1>3, <2>1, <2>3 DEF OnceStep
<1>5. CASE WorkerStarts(w)
  <2>1. wpc[w] = "starting" /\ wpc' = [wpc EXCEPT ![w] = "checking"] /\ wtask' = wtask /\ results' = results
    BY <1>5 DEF WorkerStarts, runnerVars
  <2>2. InResults(j)' = InResults(j)
    BY <2>1 DEF InResults
  <2>3. CASE wtask[w].job # j
    <3>1. CheckingOf(j)' = CheckingOf(j)
      BY <1>2, <2>1, <2>3 DEF CheckingOf
    <3>2. UnderWay(j)' = UnderWay(j)
      BY <2>2, <3>1 DEF UnderWay
    <3>3. events'[j] = events[j]
      BY <1>1, <1>5, <2>3 DEF WorkerStarts, AppendEvent, TypeOK
    <3> QED BY <1>3, <3>2, <3>3 DEF OnceStep
  <2>4. CASE wtask[w].job = j
    <3>1. CheckingOf(j)' = CheckingOf(j) \cup {w} /\ w \notin CheckingOf(j)
      BY <1>2, <2>1, <2>4 DEF CheckingOf
    <3>2. Cardinality(CheckingOf(j)') = Cardinality(CheckingOf(j)) + 1
      BY <1>3, <3>1, FS_AddElement
    <3>3. UnderWay(j)' <= UnderWay(j) + 1
      BY <1>3, <2>2, <3>2 DEF UnderWay
    <3>4. PICK d \in Domain : d = wtask[w].domain /\ Logs(j, "domain.started", d)
      <4>1. \E d \in Domain : OnceInv(j, d) /\ d = wtask[w].domain
        <5>1. wtask[w] \in Task
          BY <1>2, <2>4, NoneAssumption DEF NoTask
        <5> QED BY <5>1 DEF Task
      <4> QED BY <1>5, <2>4, <4>1, StartsOnce
    <3>5. ~Logged(j, "domain.started", d)
      <4>1. wtask[w] \in Task
        BY <1>2, <2>4, NoneAssumption DEF NoTask
      <4>2. w \in Holders(j, d)
        BY <2>4, <3>4, <4>1 DEF Holders, Task
      <4> QED BY <2>1, <4>2 DEF OnceInv
    <3> QED BY <3>3, <3>4, <3>5 DEF OnceStep
  <2> QED BY <2>3, <2>4
<1>6. CASE WorkerFinishes(w) \/ WorkerPanics(w)
  <2>1. /\ wpc[w] = "checking" /\ wpc'[w] # "checking" /\ events' = events
        /\ \A v \in Worker : v # w => wpc'[v] = wpc[v] /\ wtask'[v] = wtask[v]
    BY <1>2, <1>6 DEF WorkerFinishes, WorkerPanics, jobVars
  <2>2. CheckingOf(j)' = CheckingOf(j) \ {w}
    BY <2>1 DEF CheckingOf
  <2>3. /\ Cardinality(CheckingOf(j) \ {w}) \in Nat
        /\ Cardinality(CheckingOf(j)) = IF w \in CheckingOf(j) THEN Cardinality(CheckingOf(j) \ {w}) + 1
                                        ELSE Cardinality(CheckingOf(j) \ {w})
    <3>1. CASE w \in CheckingOf(j)
      <4>1. IsFiniteSet(CheckingOf(j) \ {w}) /\ w \notin CheckingOf(j) \ {w} /\ (CheckingOf(j) \ {w}) \cup {w} = CheckingOf(j)
        BY <1>3, <3>1, FS_Difference
      <4> QED BY <3>1, <4>1, FS_AddElement, FS_CardinalityType
    <3>2. CASE w \notin CheckingOf(j)
      <4>1. CheckingOf(j) \ {w} = CheckingOf(j)
        BY <3>2
      <4> QED BY <1>3, <3>2, <4>1
    <3> QED BY <3>1, <3>2
  <2>4. \/ InResults(j)' = InResults(j)
        \/ InResults(j)' = InResults(j) + 1 /\ w \in CheckingOf(j)
    <3>1. CASE WorkerPanics(w)
      <4>1. results' = results
        BY <3>1 DEF WorkerPanics, runnerVars
      <4> QED BY <4>1 DEF InResults
    <3>2. CASE WorkerFinishes(w) /\ wtask[w].job # j
      <4>1. results'[j] = results[j]
        BY <1>1, <3>2 DEF WorkerFinishes, TypeOK
      <4> QED BY <4>1 DEF InResults
    <3>3. CASE WorkerFinishes(w) /\ wtask[w].job = j
      <4>1. PICK outcome \in Outcomes(wtask[w].domain) :
                results' = [results EXCEPT ![j] = Append(results[j], outcome)]
        BY <3>3, NoneAssumption DEF WorkerFinishes
      <4>2. results[j] \in Seq(Outcome) /\ results'[j] = Append(results[j], outcome)
        BY <1>1, <4>1 DEF TypeOK
      <4>3. Len(results'[j]) = Len(results[j]) + 1
        BY <4>2
      <4>4. w \in CheckingOf(j)
        BY <2>1, <3>3 DEF CheckingOf
      <4> QED BY <4>3, <4>4 DEF InResults
    <3> QED BY <1>6, <3>1, <3>2, <3>3
  <2>5. UnderWay(j)' <= UnderWay(j)
    BY <1>3, <2>2, <2>3, <2>4 DEF UnderWay
  <2> QED BY <2>1, <2>5 DEF OnceStep
<1> QED BY <1>4, <1>5, <1>6 DEF WorkerStep

LEMMA NextOnceStep ==
    ASSUME IInv, HandInv, [Next]_vars, NEW j \in Job, \A d \in Domain : OnceInv(j, d)
    PROVE  OnceStep(j)
<1>1. TypeOK
  BY DEF IInv
<1>2. ASSUME UNCHANGED <<wtask, results, events>>,
             \A w \in Worker : wpc'[w] = wpc[w] \/ "checking" \notin {wpc[w], wpc'[w]}
      PROVE  OnceStep(j)
  <2>1. CheckingOf(j)' = CheckingOf(j)
    BY <1>2 DEF CheckingOf
  <2>2. UnderWay(j)' = UnderWay(j)
    BY <1>2, <2>1 DEF UnderWay, InResults
  <2> QED BY <1>1, <1>2, <2>2, UnderWayType DEF OnceStep
<1>3. CASE Start
  BY <1>2, <1>3 DEF Start, HandInv, runnerVars, jobVars
<1>4. CASE CancelParent \/ Stop \/ StopReturns
  BY <1>2, <1>4 DEF CancelParent, Stop, StopReturns, workerVars, runnerVars, jobVars
<1>5. CASE \E k \in Job : ExpireCheckJob(k)
  BY <1>2, <1>5 DEF ExpireCheckJob, workerVars, runnerVars, jobVars
<1>6. CASE LoopStep \/ LoopPanics \/ \E d \in Scheduled : LoopClaims(d)
  BY <1>2, <1>6 DEF LoopStep, LoopSends, LoopExits, LoopReports, LoopPanics, LoopClaims, workerVars, runnerVars, jobVars
<1>7. CASE UNCHANGED vars
  BY <1>2, <1>7 DEF vars, workerVars, runnerVars, jobVars
<1> QED BY <1>3, <1>4, <1>5, <1>6, <1>7, JobOnceStep, WorkerOnceStep DEF Next

-----------------------------------------------------------------------------
(* The log that results *)

LEMMA LogInvStep ==
    ASSUME TypeOK, NEW j \in Job, OnceStep(j), LogInv(j)
    PROVE  LogInv(j)'
<1> DEFINE Entry(i, d) ==
               /\ Names(j, i, "domain.started", d) =>
                   d # NoDomain /\ \A k \in 1..(i - 1) : ~Names(j, k, "domain.started", d)
               /\ Names(j, i, "domain.completed", d) /\ d # NoDomain =>
                   /\ \E k \in 1..(i - 1) : Names(j, k, "domain.started", d)
                   /\ \A k \in 1..(i - 1) : ~Names(j, k, "domain.completed", d)
<1>1. CASE events'[j] = events[j]
  BY <1>1, SMTT(30) DEF LogInv, Names
<1>2. ASSUME NEW type, NEW x \in Domain \cup {NoDomain}, Logs(j, type, x),
             \/ type \notin {"domain.started", "domain.completed"}
             \/ type = "domain.started" /\ x # NoDomain /\ ~Logged(j, type, x)
             \/ /\ type = "domain.completed"
                /\ x # NoDomain => Logged(j, "domain.started", x) /\ ~Logged(j, "domain.completed", x)
      PROVE  LogInv(j)'
  <2>1. PICK n \in Nat, m \in Nat : n = Len(events[j]) /\ m = n + 1
    BY <1>2, LogsEntries
  <2>2. /\ Len(events'[j]) = m
        /\ \A t, y : \A i \in 1..n : Names(j, i, t, y)' <=> Names(j, i, t, y)
        /\ \A t, y : Names(j, m, t, y)' <=> (t = type /\ y = x)
    <3>1. Len(events'[j]) = m
      BY <1>2, <2>1, LogsEntries
    <3>2. \A t, y : \A i \in 1..n : Names(j, i, t, y)' <=> Names(j, i, t, y)
      BY <1>2, <2>1, LogsEntries
    <3>3. \A k, t, y : k = Len(events[j]) + 1 => (Names(j, k, t, y)' <=> (t = type /\ y = x))
      BY <1>2, LogsEntries, ZenonT(30)
    <3> QED BY <2>1, <3>1, <3>2, <3>3
  <2>3. ASSUME NEW i \in 1..n, NEW d \in Domain \cup {NoDomain} PROVE Entry(i, d)'
    <3>1. Entry(i, d)
      BY <2>1 DEF LogInv
    <3>2. \A k \in 1..(i - 1) : k \in 1..n
      BY <2>1
    <3> QED BY <2>2, <3>1, <3>2
  <2>4. ASSUME NEW d \in Domain \cup {NoDomain} PROVE Entry(m, d)'
    <3>1. \A k : k \in 1..(m - 1) <=> k \in 1..n
      BY <2>1
    <3>2. \A t, y : Logged(j, t, y) <=> \E k \in 1..n : Names(j, k, t, y)
      BY <2>1 DEF Logged
    <3>3. \A t, y : Logged(j, t, y) <=> \E k \in 1..(m - 1) : Names(j, k, t, y)'
      BY <2>2, <3>1, <3>2
    <3> QED BY <1>2, <2>2, <3>3
  <2>5. \A i \in 1..m : i \in 1..n \/ i = m
    BY <2>1
  <2> HIDE DEF Entry
  <2>6. \A i \in 1..Len(events'[j]) : \A d \in Domain \cup {NoDomain} : Entry(i, d)'
    BY <2>2, <2>3, <2>4, <2>5
  <2> QED BY <2>6 DEF LogInv, Entry
<1> QED BY <1>1, <1>2, NoneAssumption DEF OnceStep

\* An event of another type changes neither count.
LEMMA StartsInvStep ==
    ASSUME TypeOK, TypeOK', NEW j \in Job, OnceStep(j), StartsInv(j)
    PROVE  StartsInv(j)'
<1> DEFINE C(i) == Count(events[j], "domain.completed", i)
           S(i) == Count(events[j], "domain.started", i)
<1>1. PICK n \in Nat, m \in Nat : n = Len(events[j]) /\ m = n + 1 /\ events[j] \in Seq(Event)
  <2>1. events[j] \in Seq(Event)
    BY DEF TypeOK
  <2>2. Len(events[j]) \in Nat /\ Len(events[j]) + 1 \in Nat
    BY <2>1
  <2> QED BY <2>1, <2>2
<1>2. UnderWay(j) \in Nat /\ UnderWay(j)' \in Nat
  <2>1. IsFiniteSet(CheckingOf(j)') /\ Cardinality(CheckingOf(j)') \in Nat
    <3>1. IsFiniteSet(CheckingOf(j)')
      BY WorkerAssumption, FS_Subset DEF CheckingOf
    <3> QED BY <3>1, FS_CardinalityType
  <2>2. results'[j] \in Seq(Outcome)
    BY DEF TypeOK
  <2>3. InResults(j)' \in Nat
    BY <2>2 DEF InResults
  <2> QED BY <2>1, <2>3, UnderWayType DEF UnderWay
<1>3. \A i \in 0..m : C(i) \in Nat /\ S(i) \in Nat
  <2>1. \A i \in 0..m : i \in Nat
    BY <1>1
  <2> QED BY <2>1, CountType
<1>4. C(n) + UnderWay(j) <= S(n) /\ \A i \in 0..n : C(i) <= S(i)
  <2>1. C(n) \in Nat /\ InResults(j) \in Nat /\ Cardinality(CheckingOf(j)) \in Nat
    BY <1>1, <1>3, UnderWayType
  <2>2. C(n) + InResults(j) + Cardinality(CheckingOf(j)) <= S(n) /\ \A i \in 0..n : C(i) <= S(i)
    BY <1>1 DEF StartsInv
  <2>3. UnderWay(j) = InResults(j) + Cardinality(CheckingOf(j))
    BY DEF UnderWay
  <2> HIDE DEF C, S
  <2> QED BY <1>1, <1>3, <2>1, <2>2, <2>3
<1>5. ASSUME NEW k \in Nat, Len(events'[j]) = k,
             Count(events'[j], "domain.completed", k) + UnderWay(j)' <= Count(events'[j], "domain.started", k),
             \A i \in 0..k : Count(events'[j], "domain.completed", i) <= Count(events'[j], "domain.started", i)
      PROVE  StartsInv(j)'
  <2>1. UnderWay(j)' = InResults(j)' + Cardinality(CheckingOf(j)') /\ Count(events'[j], "domain.completed", k) \in Nat
    BY CountType DEF UnderWay
  <2>2. InResults(j)' \in Nat /\ Cardinality(CheckingOf(j)') \in Nat
    <3>1. IsFiniteSet(CheckingOf(j)')
      BY WorkerAssumption, FS_Subset DEF CheckingOf
    <3>2. results'[j] \in Seq(Outcome)
      BY DEF TypeOK
    <3>3. InResults(j)' \in Nat
      BY <3>2 DEF InResults
    <3> QED BY <3>1, <3>3, FS_CardinalityType
  <2>3. Count(events'[j], "domain.completed", k) + InResults(j)' + Cardinality(CheckingOf(j)')
            <= Count(events'[j], "domain.started", k)
    BY <1>5, <2>1, <2>2
  <2> QED BY <1>5, <2>3 DEF StartsInv
<1>6. CASE events'[j] = events[j] /\ UnderWay(j)' <= UnderWay(j)
  <2> HIDE DEF C, S
  <2>1. C(n) + UnderWay(j)' <= S(n)
    <3>1. C(n) \in Nat /\ S(n) \in Nat
      BY <1>1, <1>3
    <3> QED BY <1>2, <1>4, <1>6, <3>1
  <2> QED BY <1>1, <1>4, <1>5, <1>6, <2>1 DEF C, S
<1>7. ASSUME NEW type, NEW d, Logs(j, type, d),
             \/ type \notin {"domain.started", "domain.completed"} /\ UnderWay(j)' <= UnderWay(j)
             \/ type = "domain.started" /\ UnderWay(j)' <= UnderWay(j) + 1
             \/ type = "domain.completed" /\ UnderWay(j)' + 1 <= UnderWay(j)
      PROVE  StartsInv(j)'
  <2>1. PICK e \in Event : e.type = type /\ events'[j] = Append(events[j], e)
    BY <1>7 DEF Logs
  <2>2. PICK c \in Nat, s \in Nat : c = C(n) /\ s = S(n)
    BY <1>1, <1>3
  <2>3. PICK cc, ss : cc = Count(events'[j], "domain.completed", m) /\ ss = Count(events'[j], "domain.started", m)
    OBVIOUS
  <2>4. /\ cc = IF type = "domain.completed" THEN c + 1 ELSE c
        /\ ss = IF type = "domain.started" THEN s + 1 ELSE s
        /\ \A i \in 0..n : /\ Count(events'[j], "domain.completed", i) = C(i)
                           /\ Count(events'[j], "domain.started", i) = S(i)
    BY <1>1, <2>1, <2>2, <2>3, CountAppend
  <2>5. Len(events'[j]) = m
    BY <1>1, <2>1
  <2> HIDE DEF C, S
  <2>6. cc + UnderWay(j)' <= ss /\ cc <= ss
    BY <1>2, <1>4, <1>7, <2>2, <2>4
  <2>7. \A i \in 0..m : Count(events'[j], "domain.completed", i) <= Count(events'[j], "domain.started", i)
    <3>1. \A i \in 0..m : i \in 0..n \/ i = m
      BY <1>1
    <3> QED BY <1>4, <2>3, <2>4, <2>6, <3>1
  <2> QED BY <1>5, <2>3, <2>5, <2>6, <2>7
<1> QED BY <1>6, <1>7 DEF OnceStep
-----------------------------------------------------------------------------
(* The invariant *)

TargetsInv ==
    \A j \in Job :
        /\ \A d \in Domain : OnceInv(j, d)
        /\ LogInv(j) /\ StartsInv(j)

LEMMA InitTargetsInv == Init => TargetsInv
<1> SUFFICES ASSUME Init, NEW j \in Job
             PROVE  (\A d \in Domain : OnceInv(j, d)) /\ LogInv(j) /\ StartsInv(j)
  BY DEF TargetsInv
<1>1. /\ jobs = <<>> /\ rpc[j] = "none" /\ results[j] = <<>> /\ events[j] = <<>>
      /\ wpc = [w \in Worker |-> "down"] /\ \A w \in Worker : wtask[w] = NoTask
  BY DEF Init
<1>2. \A type, d : ~Logged(j, type, d)
  BY <1>1 DEF Logged
<1>3. ASSUME NEW d \in Domain PROVE OnceInv(j, d)
  <2>1. Places(j, d) = {} /\ Reported(j, d) = {}
    BY <1>1 DEF Places, Reported
  <2>2. Holders(j, d) = {}
    BY <1>1, NoneAssumption DEF Holders, NoTask
  <2> QED BY <1>2, <2>1, <2>2 DEF OnceInv, AtMostOne
<1>4. LogInv(j)
  BY <1>1 DEF LogInv
<1>5. StartsInv(j)
  <2>1. CheckingOf(j) = {} /\ Len(events[j]) = 0 /\ InResults(j) = 0
    BY <1>1 DEF CheckingOf, InResults
  <2>2. \A log, type : Count(log, type, 0) = 0
    BY FS_EmptySet DEF Count
  <2> QED BY <2>1, <2>2, FS_EmptySet DEF StartsInv
<1> QED BY <1>3, <1>4, <1>5

\* The tasks of the panicked and the interrupted are only ever lost, so this holds whatever
\* happens to the pool.
LEMMA TargetsInvariance == Spec => []TargetsInv
<1>1. IInv /\ IInv' /\ FlowInv /\ TargetsInv /\ [Next]_vars => TargetsInv'
  <2> SUFFICES ASSUME IInv, IInv', FlowInv, TargetsInv, [Next]_vars, NEW j \in Job
               PROVE  /\ \A d \in Domain : OnceInv(j, d)'
                      /\ LogInv(j)' /\ StartsInv(j)'
    BY DEF TargetsInv
  <2>1. HandInv /\ TypeOK /\ TypeOK'
    BY DEF FlowInv, IInv
  <2>2. (\A d \in Domain : OnceInv(j, d)) /\ LogInv(j) /\ StartsInv(j)
    BY DEF TargetsInv
  <2>3. \A d \in Domain : OnceInv(j, d)'
    BY <2>1, <2>2, NextOnce
  <2>4. OnceStep(j)
    BY <2>1, <2>2, NextOnceStep
  <2> QED BY <2>1, <2>2, <2>3, <2>4, LogInvStep, StartsInvStep
<1> QED BY <1>1, InitTargetsInv, Invariance, FlowInvariance, PTL DEF Spec

\* No target is reported twice or before a worker took it: its one task is in one place from
\* the list to the log, whichever workers panic and whenever the run is cancelled.
THEOREM TargetsAlwaysOnce == Spec => []StartedThenCompletedOnce
<1>1. ASSUME TypeOK, TargetsInv PROVE StartedThenCompletedOnce
  <2> SUFFICES ASSUME NEW j \in Job, NEW i \in 1..Len(events[j])
               PROVE
        LET e == events[j][i]
            Earlier(type) == {k \in 1..(i - 1) : events[j][k].type = type /\ events[j][k].domain = e.domain}
        IN  /\ e.type = "domain.started" => Earlier("domain.started") = {}
            /\ e.type = "domain.completed" /\ e.domain # NoDomain =>
                    /\ Earlier("domain.started") # {}
                    /\ Earlier("domain.completed") = {}
            /\ Occurrences(j, "domain.completed", i) <= Occurrences(j, "domain.started", i)
    BY DEF StartedThenCompletedOnce
  <2>1. LogInv(j) /\ StartsInv(j) /\ events[j] \in Seq(Event)
    BY <1>1 DEF TargetsInv, TypeOK
  <2>2. PICK d \in Domain \cup {NoDomain} : d = events[j][i].domain
    <3>1. events[j][i] \in Event
      BY <2>1
    <3> QED BY <3>1 DEF Event
  <2>3. Count(events[j], "domain.completed", i) <= Count(events[j], "domain.started", i)
    <3>1. i \in 0..Len(events[j])
      BY <2>1
    <3> QED BY <2>1, <3>1 DEF StartsInv
  <2> QED BY <2>1, <2>2, <2>3, OccurrencesIsCount DEF LogInv, Names
<1>2. TypeOK /\ TargetsInv => StartedThenCompletedOnce
  BY <1>1
<1>3. IInv => TypeOK
  BY DEF IInv
<1> QED BY <1>2, <1>3, TargetsInvariance, Invariance, PTL

-----------------------------------------------------------------------------
(* The progress stream and its client: the inductive invariant *)

\* A run of event identifiers that follow n.
CountsOn(s, n) == s \in Seq(Nat) /\ \A i \in 1..Len(s) : s[i] = n + i

\* What a page was handed counts on from 0, and what is on its way counts on from there.
ReaderInv(c) ==
    /\ CountsOn(received[c], 0) /\ Len(received[c]) = lastEventID[c]
    /\ CountsOn(wire[c], lastEventID[c])
    /\ cpc[c] = "idle" => lastEventID[c] = 0
    /\ cpc[c] # "reading" => wire[c] = <<>> /\ hpc[c] = "none"

\* It is part of the log of the page's job, and the page has read the verdict it says it saw.
FollowerInv(c) ==
    /\ cpc[c] = "idle" => ~sawVerdict[c]
    /\ cpc[c] # "idle" =>
        /\ cjob[c] \in Job
        /\ lastEventID[c] + Len(wire[c]) <= Len(events[cjob[c]])
        /\ sawVerdict[c] => \E i \in 1..lastEventID[c] : events[cjob[c]][i].type = "job.completed"
    /\ cpc[c] = "completed" => sawVerdict[c]

\* A handler that waits knows how far it has written; if its signal is still open there
\* has been no event since.
HandlerInv(c) ==
    hpc[c] = "waiting" =>
        /\ hlast[c] = lastEventID[c] + Len(wire[c])
        /\ hsig[c] <= signal[cjob[c]]
        /\ hsig[c] = signal[cjob[c]] => hlast[c] = Len(events[cjob[c]]) /\ ~done[cjob[c]]

PageInv(c) == ReaderInv(c) /\ FollowerInv(c) /\ HandlerInv(c)

\* The first part of StreamTypeOK; what is on the wire exists by FollowerInv.
StreamTypes ==
    /\ cpc \in [Client -> {"idle", "connecting", "reading", "backoff"} \cup Settled]
    /\ cjob \in [Client -> Job \cup {NoJob}]
    /\ lastEventID \in [Client -> Nat]
    /\ received \in [Client -> Seq(Nat)]
    /\ sawVerdict \in [Client -> BOOLEAN]
    /\ closes \in [Client -> 0..MaxCloses]
    /\ hpc \in [Client -> {"none", "waiting", "returned"}]
    /\ hlast \in [Client -> Nat] /\ hsig \in [Client -> Nat]
    /\ wire \in [Client -> Seq(Nat)]

StreamInv == StreamTypes /\ \A c \in Client : PageInv(c)

-----------------------------------------------------------------------------
(* Runs of identifiers *)

LEMMA EmptyCountsOn == ASSUME NEW n \in Nat PROVE CountsOn(<<>>, n)
  BY DEF CountsOn

LEMMA SnapshotCountsOn ==
    ASSUME TypeOK, NEW j \in Job, NEW n \in 0..Len(events[j])
    PROVE  CountsOn(Snapshot(j, n), n) /\ Len(Snapshot(j, n)) = Len(events[j]) - n
<1> DEFINE m == Len(events[j]) - n
<1>1. Len(events[j]) \in Nat /\ m \in Nat
  BY DEF TypeOK
<1>2. Snapshot(j, n) = [i \in 1..m |-> n + i]
  BY DEF Snapshot
<1> HIDE DEF m
<1>3. Snapshot(j, n) \in [1..m -> Nat]
  BY <1>1, <1>2
<1>4. Snapshot(j, n) \in Seq(Nat) /\ Len(Snapshot(j, n)) = m
  BY <1>1, <1>3
<1> QED BY <1>1, <1>2, <1>4 DEF CountsOn, m

LEMMA ConcatCountsOn ==
    ASSUME NEW n \in Nat, NEW s, NEW t, CountsOn(s, n), CountsOn(t, n + Len(s))
    PROVE  CountsOn(s \o t, n) /\ Len(s \o t) = Len(s) + Len(t)
<1>1. /\ s \in Seq(Nat) /\ t \in Seq(Nat) /\ Len(s) \in Nat /\ Len(t) \in Nat
  BY DEF CountsOn
<1>2. /\ s \o t \in Seq(Nat) /\ Len(s \o t) = Len(s) + Len(t)
      /\ \A i \in 1..(Len(s) + Len(t)) : (s \o t)[i] = IF i <= Len(s) THEN s[i] ELSE t[i - Len(s)]
  BY <1>1, ConcatProperties
<1>3. ASSUME NEW i \in 1..(Len(s) + Len(t)) PROVE (s \o t)[i] = n + i
  <2>1. CASE i <= Len(s)
    BY <1>1, <1>2, <2>1 DEF CountsOn
  <2>2. CASE i > Len(s)
    <3>1. i - Len(s) \in 1..Len(t)
      BY <1>1, <2>2
    <3>2. t[i - Len(s)] = n + Len(s) + (i - Len(s))
      BY <3>1 DEF CountsOn
    <3> QED BY <1>1, <1>2, <2>2, <3>2
  <2> QED BY <1>1, <2>1, <2>2
<1> QED BY <1>2, <1>3 DEF CountsOn

LEMMA TailCountsOn ==
    ASSUME NEW n \in Nat, NEW s, CountsOn(s, n), s # <<>>
    PROVE  /\ Head(s) = n + 1 /\ Len(s) \in Nat \ {0}
           /\ CountsOn(Tail(s), n + 1) /\ Len(Tail(s)) = Len(s) - 1
<1>1. s \in Seq(Nat) /\ Len(s) \in Nat \ {0}
  BY EmptySeq DEF CountsOn
<1>2. /\ Tail(s) \in Seq(Nat) /\ Len(Tail(s)) = Len(s) - 1
      /\ \A i \in 1..Len(Tail(s)) : Tail(s)[i] = s[i + 1]
  BY <1>1, HeadTailProperties
<1>3. Head(s) = s[1]
  BY <1>1
<1> QED BY <1>1, <1>2, <1>3 DEF CountsOn

LEMMA PrefixCountsOn ==
    ASSUME NEW n \in Nat, NEW s, CountsOn(s, n), NEW m \in 0..Len(s)
    PROVE  CountsOn(SubSeq(s, 1, m), n) /\ Len(SubSeq(s, 1, m)) = m
<1>1. s \in Seq(Nat) /\ Len(s) \in Nat /\ m \in Int /\ \A i \in 1..m : s[i] \in Nat
  BY DEF CountsOn
<1>2. /\ SubSeq(s, 1, m) \in Seq(Nat)
      /\ Len(SubSeq(s, 1, m)) = m
      /\ \A i \in 1..m : SubSeq(s, 1, m)[i] = s[i]
  BY <1>1
<1> QED BY <1>1, <1>2 DEF CountsOn

LEMMA AppendCountsOn ==
    ASSUME NEW s, CountsOn(s, 0)
    PROVE  /\ CountsOn(Append(s, Len(s) + 1), 0)
           /\ Len(Append(s, Len(s) + 1)) = Len(s) + 1
  BY DEF CountsOn

-----------------------------------------------------------------------------
(* What a step of the pool and the jobs does to what a stream looks at *)

\* The log only grows; while the signal stays the same, so do the log and "done".
Advances(j) ==
    /\ Len(events[j]) <= Len(events'[j])
    /\ \A i \in 1..Len(events[j]) : events'[j][i] = events[j][i]
    /\ signal[j] <= signal'[j]
    /\ signal'[j] = signal[j] => events'[j] = events[j] /\ done'[j] = done[j]

\* Every append closes the signal that waiting handlers hold (appendEventLocked).
LEMMA AppendSignals ==
    ASSUME TypeOK, NEW j \in Job, NEW k \in Job, NEW type, NEW d, NEW status,
           AppendEvent(k, type, d, status), j # k => done'[j] = done[j]
    PROVE  /\ signal[j] <= signal'[j]
           /\ signal'[j] = signal[j] => events'[j] = events[j] /\ done'[j] = done[j]
<1>1. signal \in [Job -> Nat] /\ signal' = [signal EXCEPT ![k] = signal[k] + 1]
  BY DEF AppendEvent, TypeOK
<1>2. CASE j = k
  BY <1>1, <1>2
<1>3. CASE j # k
  <2>1. events'[j] = events[j]
    BY <1>3 DEF AppendEvent, TypeOK
  <2> QED BY <1>1, <1>3, <2>1
<1> QED BY <1>2, <1>3

LEMMA NextSignals ==
    ASSUME IInv, [Next]_vars, NEW j \in Job
    PROVE  /\ signal[j] <= signal'[j]
           /\ signal'[j] = signal[j] => events'[j] = events[j] /\ done'[j] = done[j]
<1>0. TypeOK
  BY DEF IInv
<1>1. CASE UNCHANGED <<events, done, signal>>
  BY <1>0, <1>1 DEF TypeOK
<1>2. ASSUME NEW k \in Job, NEW t \in Tenant, NEW ts \in TargetLists, StartCheckJob(k, t, ts)
      PROVE  /\ signal[j] <= signal'[j]
             /\ signal'[j] = signal[j] => events'[j] = events[j] /\ done'[j] = done[j]
  BY <1>0, <1>2, AppendSignals DEF StartCheckJob, counterVars
<1>3. ASSUME NEW k \in Job, JobStep(k) \/ ExpireCheckJob(k)
      PROVE  /\ signal[j] <= signal'[j]
             /\ signal'[j] = signal[j] => events'[j] = events[j] /\ done'[j] = done[j]
  <2>1. CASE RunnerEnqueue(k) \/ ExpireCheckJob(k)
    BY <1>1, <2>1 DEF RunnerEnqueue, ExpireCheckJob, jobVars, counterVars
  <2>2. CASE RunnerCollect(k)
    <3>1. /\ UNCHANGED done
          /\ \E d, status : AppendEvent(k, "domain.completed", d, status)
      BY <2>2 DEF RunnerCollect, CompleteDomain
    <3> QED BY <1>0, <3>1, AppendSignals
  <2>3. CASE RunnerFinish(k) \/ RunnerInterrupted(k)
    <3>1. \/ UNCHANGED <<events, done, signal>>
          \/ /\ done' = [done EXCEPT ![k] = TRUE]
             /\ \E d, status : AppendEvent(k, "job.completed", d, status)
      BY <2>3 DEF RunnerFinish, RunnerInterrupted, Finish, FinishInterrupted, counterVars
    <3>2. CASE done' = [done EXCEPT ![k] = TRUE] /\ \E d, status : AppendEvent(k, "job.completed", d, status)
      <4>1. j # k => done'[j] = done[j]
        BY <1>0, <3>2 DEF TypeOK
      <4> QED BY <1>0, <3>2, <4>1, AppendSignals
    <3> QED BY <1>1, <3>1, <3>2
  <2> QED BY <1>3, <2>1, <2>2, <2>3 DEF JobStep
<1>4. ASSUME NEW w \in Worker, WorkerStep(w) \/ WorkerPanics(w)
      PROVE  /\ signal[j] <= signal'[j]
             /\ signal'[j] = signal[j] => events'[j] = events[j] /\ done'[j] = done[j]
  <2>1. CASE WorkerStarts(w)
    <3>1. CASE UNCHANGED <<counterVars, events, signal>>
      BY <1>1, <3>1 DEF counterVars
    <3>2. CASE /\ wtask[w].job \in Job /\ UNCHANGED counterVars
               /\ AppendEvent(wtask[w].job, "domain.started", wtask[w].domain, "running")
      BY <1>0, <3>2, AppendSignals DEF counterVars
    <3> QED BY <2>1, <3>1, <3>2 DEF WorkerStarts
  <2>2. CASE ~WorkerStarts(w)
    BY <1>1, <1>4, <2>2 DEF WorkerStep, WorkerReceive, WorkerFinishes, WorkerExits, WorkerReports,
                            WorkerPanics, jobVars, counterVars
  <2> QED BY <2>1, <2>2
<1>5. CASE Start \/ CancelParent \/ Stop \/ StopReturns
  BY <1>1, <1>5 DEF Start, CancelParent, Stop, StopReturns, jobVars, counterVars
<1>6. CASE LoopStep \/ LoopPanics \/ \E d \in Scheduled : LoopClaims(d)
  BY <1>1, <1>6 DEF LoopStep, LoopSends, LoopExits, LoopReports, LoopPanics, LoopClaims, jobVars, counterVars
<1>7. CASE UNCHANGED vars
  BY <1>1, <1>7 DEF vars, jobVars, counterVars
<1> QED BY <1>2, <1>3, <1>4, <1>5, <1>6, <1>7 DEF Next

LEMMA NextAdvances == ASSUME IInv, [Next]_vars, NEW j \in Job
                      PROVE  Advances(j)
<1>1. TypeOK /\ LogStep(j) /\ Len(events[j]) \in Nat
  BY NextLog, SMTT(30) DEF IInv, TypeOK
<1>2. events'[j] = events[j] \/ \E type, status : Grows(j, type, status)
  BY <1>1 DEF LogStep, Untouched, Begins, Reports, Concludes
<1>3. /\ Len(events[j]) <= Len(events'[j])
      /\ \A i \in 1..Len(events[j]) : events'[j][i] = events[j][i]
  <2>1. CASE events'[j] = events[j]
    BY <1>1, <2>1
  <2>2. CASE \E type, status : Grows(j, type, status)
    BY <1>1, <2>2, GrowsEntries
  <2> QED BY <1>2, <2>1, <2>2
<1> QED BY <1>3, NextSignals DEF Advances

-----------------------------------------------------------------------------
(* The invariant is inductive *)

LEMMA InitStreamInv == StreamInit => StreamInv
<1> SUFFICES ASSUME StreamInit PROVE StreamInv
  OBVIOUS
<1>1. StreamTypes
  <2>1. <<>> \in Seq(Nat) /\ 0 \in 0..MaxCloses
    BY ClientAssumption
  <2> QED BY <2>1 DEF StreamInit, StreamTypes
<1>2. ASSUME NEW c \in Client PROVE PageInv(c)
  BY EmptyCountsOn DEF StreamInit, PageInv, ReaderInv, FollowerInv, HandlerInv, CountsOn
<1> QED BY <1>1, <1>2 DEF StreamInv

\* The pool and the jobs go on; no stream does.
LEMMA SystemStep ==
    ASSUME TypeOK, StreamInv, \A j \in Job : Advances(j), TypeOK', UNCHANGED streamVars
    PROVE  StreamInv'
<1> USE DEF streamVars, clientVars, connVars
<1>1. StreamTypes'
  BY DEF StreamInv, StreamTypes
<1>2. ASSUME NEW c \in Client PROVE PageInv(c)'
  <2>1. PageInv(c)
    BY DEF StreamInv
  <2>2. ReaderInv(c)'
    BY <2>1 DEF PageInv, ReaderInv, CountsOn
  <2>3. CASE cpc[c] = "idle"
    BY <2>1, <2>2, <2>3 DEF PageInv, ReaderInv, FollowerInv, HandlerInv
  <2>4. CASE cpc[c] # "idle"
    <3> DEFINE j == cjob[c]
    <3>0. j \in Job /\ Advances(j)
      BY <2>1, <2>4 DEF PageInv, FollowerInv
    <3>1. /\ Len(events[j]) \in Nat /\ Len(events'[j]) \in Nat
          /\ signal[j] \in Nat /\ signal'[j] \in Nat
      <4>1. events \in [Job -> Seq(Event)] /\ signal \in [Job -> Nat]
        BY DEF TypeOK
      <4>2. events' \in [Job -> Seq(Event)] /\ signal' \in [Job -> Nat]
        BY DEF TypeOK
      <4>3. events[j] \in Seq(Event) /\ events'[j] \in Seq(Event)
        BY <3>0, <4>1, <4>2
      <4> QED BY <3>0, <4>1, <4>2, <4>3
    <3>2. /\ lastEventID[c] \in Nat /\ Len(wire[c]) \in Nat /\ hsig[c] \in Nat
      BY DEF StreamInv, StreamTypes
    <3>3. FollowerInv(c)'
      <4>1. lastEventID[c] + Len(wire[c]) <= Len(events'[j])
        BY <2>1, <2>4, <3>0, <3>1, <3>2 DEF PageInv, FollowerInv, Advances
      <4>2. ASSUME sawVerdict[c] PROVE \E i \in 1..lastEventID[c] : events'[j][i].type = "job.completed"
        <5>1. PICK i \in 1..lastEventID[c] : events[j][i].type = "job.completed"
          BY <2>1, <2>4, <4>2 DEF PageInv, FollowerInv
        <5>2. lastEventID[c] + Len(wire[c]) <= Len(events[j])
          BY <2>1, <2>4 DEF PageInv, FollowerInv
        <5>3. i \in 1..Len(events[j])
          BY <3>1, <3>2, <5>2
        <5>4. events'[j][i] = events[j][i]
          BY <3>0, <5>3 DEF Advances
        <5> QED BY <5>1, <5>4
      <4> QED BY <2>1, <2>4, <3>0, <4>1, <4>2 DEF PageInv, FollowerInv
    <3>4. HandlerInv(c)'
      <4>1. signal[j] <= signal'[j] /\ (signal'[j] = signal[j] => events'[j] = events[j] /\ done'[j] = done[j])
        BY <3>0 DEF Advances
      <4> QED BY <2>1, <3>1, <3>2, <4>1 DEF PageInv, HandlerInv
    <3> QED BY <2>2, <3>3, <3>4 DEF PageInv
  <2> QED BY <2>3, <2>4
<1> QED BY <1>1, <1>2 DEF StreamInv

\* A page that takes no part in a step keeps what holds of it.
Apart(b) ==
    /\ cpc'[b] = cpc[b] /\ cjob'[b] = cjob[b] /\ lastEventID'[b] = lastEventID[b]
    /\ received'[b] = received[b] /\ sawVerdict'[b] = sawVerdict[b]
    /\ hpc'[b] = hpc[b] /\ hlast'[b] = hlast[b] /\ hsig'[b] = hsig[b] /\ wire'[b] = wire[b]

LEMMA ApartKeeps ==
    ASSUME NEW b \in Client, PageInv(b), Apart(b), UNCHANGED <<events, done, signal>>
    PROVE  PageInv(b)'
  BY DEF Apart, PageInv, ReaderInv, FollowerInv, HandlerInv, CountsOn

\* A step of one page keeps the invariant if the page itself keeps it.
LEMMA OnePage ==
    ASSUME StreamInv, UNCHANGED <<events, done, signal>>, StreamTypes', NEW c \in Client, PageInv(c)',
           \A b \in Client \ {c} : Apart(b)
    PROVE  StreamInv'
  BY ApartKeeps DEF StreamInv

LEMMA FollowStep == ASSUME TypeOK, StreamInv, NEW c \in Client, NEW j \in Job, Follow(c, j)
                    PROVE  StreamInv'
<1>1. /\ UNCHANGED <<events, done, signal, lastEventID, received, sawVerdict, closes, hpc, hlast, hsig, wire>>
      /\ cpc[c] = "idle" /\ cpc' = [cpc EXCEPT ![c] = "connecting"] /\ cjob' = [cjob EXCEPT ![c] = j]
  BY DEF Follow, vars, jobVars, counterVars, connVars
<1>2. StreamTypes /\ PageInv(c)
  BY DEF StreamInv
<1>3. /\ StreamTypes' /\ cpc'[c] = "connecting" /\ cjob'[c] = j
      /\ \A b \in Client \ {c} : Apart(b)
  BY <1>1, <1>2 DEF StreamTypes, Apart
<1>4. Len(events[j]) \in Nat /\ wire[c] = <<>> /\ hpc[c] = "none" /\ lastEventID[c] = 0 /\ Len(wire[c]) = 0
  BY <1>1, <1>2 DEF TypeOK, PageInv, ReaderInv
<1>5. PageInv(c)'
  BY <1>1, <1>2, <1>3, <1>4 DEF PageInv, ReaderInv, FollowerInv, HandlerInv, CountsOn
<1> QED BY <1>1, <1>3, <1>5, OnePage

\* A turn of the handler writes the rest of the log.
LEMMA TurnStep ==
    ASSUME TypeOK, StreamInv, NEW c \in Client, NEW after, NEW inFlight,
           UNCHANGED <<vars, cjob, lastEventID, received, sawVerdict, closes>>,
           cpc[c] # "idle", cpc[c] # "completed", cpc' = [cpc EXCEPT ![c] = "reading"],
           CountsOn(inFlight, lastEventID[c]), after = lastEventID[c] + Len(inFlight),
           after <= Len(events[cjob[c]]), HandlerTurn(c, after, inFlight)
    PROVE  StreamInv'
<1> DEFINE j == cjob[c]
           last == lastEventID[c]
           written == inFlight \o Snapshot(j, after)
<1>1. UNCHANGED <<events, done, signal>>
  BY DEF vars, jobVars, counterVars
<1>2. StreamTypes /\ PageInv(c)
  BY DEF StreamInv
<1>3. /\ j \in Job /\ last \in Nat /\ Len(inFlight) \in Nat /\ Len(events[j]) \in Nat
      /\ signal[j] \in Nat /\ after \in 0..Len(events[j])
  BY <1>2, SMTT(30) DEF TypeOK, StreamTypes, PageInv, FollowerInv, CountsOn
<1>4. CountsOn(Snapshot(j, after), after) /\ Len(Snapshot(j, after)) = Len(events[j]) - after
  BY <1>3, SnapshotCountsOn
<1>5. CountsOn(written, last) /\ Len(written) = Len(events[j]) - last
  <2>1. CountsOn(written, last) /\ Len(written) = Len(inFlight) + Len(Snapshot(j, after))
    BY <1>3, <1>4, ConcatCountsOn
  <2> QED BY <1>3, <1>4, <2>1, SMTT(30)
<1>6. written \in Seq(Nat)
  BY <1>5 DEF CountsOn
<1>7. /\ wire' = [wire EXCEPT ![c] = written] /\ hlast' = [hlast EXCEPT ![c] = Len(events[j])]
      /\ hsig' = [hsig EXCEPT ![c] = signal[j]]
      /\ hpc' = [hpc EXCEPT ![c] = IF done[j] THEN "returned" ELSE "waiting"]
  BY DEF HandlerTurn
<1> HIDE DEF written
<1>8. StreamTypes'
  BY <1>2, <1>3, <1>6, <1>7 DEF StreamTypes
<1>9. /\ cpc'[c] = "reading" /\ wire'[c] = written /\ hlast'[c] = Len(events[j]) /\ hsig'[c] = signal[j]
      /\ hpc'[c] = IF done[j] THEN "returned" ELSE "waiting"
      /\ \A b \in Client \ {c} : Apart(b)
  BY <1>2, <1>7 DEF StreamTypes, Apart
<1>10. ReaderInv(c)'
  BY <1>2, <1>5, <1>9 DEF PageInv, ReaderInv, CountsOn
<1>11. FollowerInv(c)'
  BY <1>1, <1>2, <1>3, <1>5, <1>9 DEF PageInv, FollowerInv
<1>12. HandlerInv(c)'
  BY <1>1, <1>3, <1>5, <1>9 DEF HandlerInv
<1> QED BY <1>1, <1>8, <1>9, <1>10, <1>11, <1>12, OnePage DEF PageInv

LEMMA ConnectStep == ASSUME TypeOK, StreamInv, NEW c \in Client, Connect(c)
                     PROVE  StreamInv'
<1>1. StreamTypes /\ PageInv(c) /\ cpc[c] = "connecting"
  BY DEF StreamInv, Connect
<1>2. CASE cpc' = [cpc EXCEPT ![c] = "reading"] /\ HandlerTurn(c, lastEventID[c], <<>>)
  <2>1. CountsOn(<<>>, lastEventID[c]) /\ Len(<<>>) = 0 /\ lastEventID[c] \in Nat
    BY <1>1, EmptyCountsOn DEF StreamTypes
  <2>2. lastEventID[c] = lastEventID[c] + Len(<<>>) /\ lastEventID[c] <= Len(events[cjob[c]])
    <3>1. wire[c] = <<>> /\ lastEventID[c] + Len(wire[c]) <= Len(events[cjob[c]])
      BY <1>1 DEF PageInv, ReaderInv, FollowerInv
    <3> QED BY <2>1, <3>1
  <2>3. UNCHANGED <<vars, cjob, lastEventID, received, sawVerdict, closes>>
    BY DEF Connect
  <2> QED BY <1>1, <1>2, <2>1, <2>2, <2>3, TurnStep
<1>3. CASE cpc' = [cpc EXCEPT ![c] = "failed"] /\ UNCHANGED connVars
  <2>1. UNCHANGED <<events, done, signal, cjob, lastEventID, received, sawVerdict, closes, hpc, hlast, hsig, wire>>
    BY <1>3 DEF Connect, vars, jobVars, counterVars, connVars
  <2>2. StreamTypes' /\ cpc'[c] = "failed" /\ \A b \in Client \ {c} : Apart(b)
    BY <1>1, <1>3, <2>1 DEF StreamTypes, Apart, Settled
  <2>3. PageInv(c)'
    BY <1>1, <2>1, <2>2 DEF PageInv, ReaderInv, FollowerInv, HandlerInv, CountsOn
  <2> QED BY <2>1, <2>2, <2>3, OnePage
<1> QED BY <1>2, <1>3 DEF Connect

\* The handler goes round its loop, woken or by its ticker.
LEMMA PassStep == ASSUME TypeOK, StreamInv, NEW c \in Client, hpc[c] = "waiting", HandlerPass(c)
                  PROVE  StreamInv'
<1>1. StreamTypes /\ PageInv(c) /\ cpc[c] = "reading"
  BY DEF StreamInv, PageInv, ReaderInv
<1>2. UNCHANGED <<vars, cpc, cjob, lastEventID, received, sawVerdict, closes>>
  BY DEF HandlerPass, clientVars
<1>3. CASE HandlerTurn(c, hlast[c], wire[c])
  <2>1. /\ CountsOn(wire[c], lastEventID[c]) /\ hlast[c] = lastEventID[c] + Len(wire[c])
        /\ hlast[c] <= Len(events[cjob[c]])
    BY <1>1 DEF PageInv, ReaderInv, FollowerInv, HandlerInv
  <2>2. cpc' = [cpc EXCEPT ![c] = "reading"]
    BY <1>1, <1>2 DEF StreamTypes
  <2> QED BY <1>1, <1>2, <1>3, <2>1, <2>2, TurnStep
<1>4. CASE hpc' = [hpc EXCEPT ![c] = "returned"] /\ UNCHANGED <<hlast, hsig, wire>>
  <2>1. UNCHANGED <<events, done, signal>>
    BY <1>2 DEF vars, jobVars, counterVars
  <2>2. StreamTypes' /\ hpc'[c] = "returned" /\ \A b \in Client \ {c} : Apart(b)
    BY <1>1, <1>2, <1>4 DEF StreamTypes, Apart
  <2>3. PageInv(c)'
    BY <1>1, <1>2, <1>4, <2>1, <2>2 DEF PageInv, ReaderInv, FollowerInv, HandlerInv, CountsOn
  <2> QED BY <2>1, <2>2, <2>3, OnePage
<1> QED BY <1>3, <1>4 DEF HandlerPass

\* The identifier read is the next one.
LEMMA ReadStep == ASSUME TypeOK, StreamInv, NEW c \in Client, ClientReads(c)
                  PROVE  StreamInv'
<1> DEFINE j == cjob[c]
           last == lastEventID[c]
<1>1. StreamTypes /\ PageInv(c) /\ cpc[c] = "reading" /\ wire[c] # <<>>
  BY DEF StreamInv, ClientReads
<1>2. /\ last \in Nat /\ received[c] \in Seq(Nat) /\ j \in Job
      /\ CountsOn(wire[c], last) /\ CountsOn(received[c], 0) /\ Len(received[c]) = last
      /\ last + Len(wire[c]) <= Len(events[j]) /\ Len(events[j]) \in Nat
  BY <1>1 DEF StreamTypes, PageInv, ReaderInv, FollowerInv, TypeOK
<1>3. /\ Head(wire[c]) = last + 1 /\ Len(wire[c]) \in Nat \ {0}
      /\ CountsOn(Tail(wire[c]), last + 1) /\ Len(Tail(wire[c])) = Len(wire[c]) - 1
  BY <1>1, <1>2, TailCountsOn
<1>4. CountsOn(Append(received[c], last + 1), 0) /\ Len(Append(received[c], last + 1)) = last + 1
  BY <1>2, AppendCountsOn
<1>5. /\ UNCHANGED <<events, done, signal, cpc, cjob, closes, hpc, hlast, hsig>>
      /\ wire' = [wire EXCEPT ![c] = Tail(wire[c])]
      /\ lastEventID' = [lastEventID EXCEPT ![c] = last + 1]
      /\ received' = [received EXCEPT ![c] = Append(received[c], last + 1)]
      /\ sawVerdict' = [sawVerdict EXCEPT ![c] = sawVerdict[c] \/ events[j][last + 1].type = "job.completed"]
  <2>1. last + 1 > last
    BY <1>2
  <2>2. /\ wire' = [wire EXCEPT ![c] = Tail(wire[c])]
        /\ lastEventID' = [lastEventID EXCEPT ![c] = IF Head(wire[c]) > last THEN Head(wire[c]) ELSE last]
        /\ received' = [received EXCEPT ![c] = Append(received[c], Head(wire[c]))]
        /\ sawVerdict' = [sawVerdict EXCEPT ![c] = sawVerdict[c] \/ events[j][Head(wire[c])].type = "job.completed"]
    BY DEF ClientReads
  <2> QED BY <1>3, <2>1, <2>2 DEF ClientReads, vars, jobVars, counterVars
<1>6. Tail(wire[c]) \in Seq(Nat) /\ Append(received[c], last + 1) \in Seq(Nat) /\ last + 1 \in Nat
  BY <1>2, <1>3, <1>4 DEF CountsOn
<1>7. /\ wire'[c] = Tail(wire[c]) /\ lastEventID'[c] = last + 1 /\ received'[c] = Append(received[c], last + 1)
      /\ sawVerdict'[c] = (sawVerdict[c] \/ events[j][last + 1].type = "job.completed")
      /\ \A b \in Client \ {c} : Apart(b)
  BY <1>1, <1>5 DEF StreamTypes, Apart
<1>8. StreamTypes'
  BY <1>1, <1>5, <1>6 DEF StreamTypes
<1>9. ReaderInv(c)'
  BY <1>1, <1>3, <1>4, <1>5, <1>7 DEF ReaderInv, CountsOn
<1>10. FollowerInv(c)'
  <2>1. sawVerdict'[c] => \E i \in 1..(last + 1) : events[j][i].type = "job.completed"
    <3>1. CASE sawVerdict[c]
      <4>1. PICK i \in 1..last : events[j][i].type = "job.completed"
        BY <1>1, <3>1 DEF PageInv, FollowerInv
      <4>2. i \in 1..(last + 1)
        BY <1>2
      <4> QED BY <4>1, <4>2
    <3>2. CASE events[j][last + 1].type = "job.completed"
      BY <1>2, <3>2
    <3> QED BY <1>7, <3>1, <3>2
  <2>2. last + 1 + Len(Tail(wire[c])) <= Len(events[j])
    BY <1>2, <1>3, SMTT(30)
  <2> QED BY <1>1, <1>2, <1>5, <1>7, <2>1, <2>2 DEF FollowerInv
<1>11. HandlerInv(c)'
  <2>1. last + 1 + Len(Tail(wire[c])) = last + Len(wire[c])
    <3>1. \A a, b \in Nat : a + 1 + (b - 1) = a + b
      OBVIOUS
    <3> QED BY <1>2, <1>3, <3>1, Zenon
  <2> QED BY <1>1, <1>5, <1>7, <2>1 DEF PageInv, HandlerInv
<1> QED BY <1>5, <1>7, <1>8, <1>9, <1>10, <1>11, OnePage DEF PageInv

\* The other steps of a page leave what it has read and its job.
LEMMA EndStep ==
    ASSUME TypeOK, StreamInv, NEW c \in Client,
           ClientReachesEnd(c) \/ Reconnect(c) \/ ClosesEarly(c) \/ \E how \in {"failed", "aborted"} : GivesUp(c, how)
    PROVE  StreamInv'
<1>1. StreamTypes /\ PageInv(c)
  BY DEF StreamInv
<1>2. UNCHANGED <<events, done, signal, cjob, lastEventID, received, sawVerdict, hlast, hsig>>
  BY DEF ClientReachesEnd, Reconnect, ClosesEarly, GivesUp, vars, jobVars, counterVars, connVars
<1>3. lastEventID[c] \in Nat /\ CountsOn(wire[c], lastEventID[c]) /\ CountsOn(<<>>, lastEventID[c])
      /\ Len(<<>>) = 0 /\ <<>> \in Seq(Nat) /\ Len(wire[c]) \in Nat
  BY <1>1, EmptyCountsOn DEF StreamTypes, PageInv, ReaderInv, CountsOn
<1>4. CASE ClientReachesEnd(c)
  <2>1. /\ wire[c] = <<>> /\ UNCHANGED <<closes, wire>> /\ cpc[c] = "reading"
        /\ cpc' = [cpc EXCEPT ![c] = IF sawVerdict[c] THEN "completed" ELSE "backoff"]
        /\ hpc' = [hpc EXCEPT ![c] = "none"]
    BY <1>4 DEF ClientReachesEnd
  <2>2. /\ StreamTypes' /\ \A b \in Client \ {c} : Apart(b)
        /\ hpc'[c] = "none" /\ cpc'[c] = IF sawVerdict[c] THEN "completed" ELSE "backoff"
    BY <1>1, <1>2, <2>1 DEF StreamTypes, Apart, Settled
  <2>3. PageInv(c)'
    <3>1. ReaderInv(c)' /\ HandlerInv(c)'
      <4>1. cpc'[c] # "idle" /\ hpc'[c] # "waiting"
        BY <2>2
      <4> QED BY <1>1, <1>2, <2>1, <2>2, <4>1 DEF PageInv, ReaderInv, HandlerInv, CountsOn
    <3>2. FollowerInv(c)'
      <4>1. cpc'[c] # "idle" /\ (cpc'[c] = "completed" => sawVerdict[c])
        BY <2>2
      <4> QED BY <1>1, <1>2, <2>1, <4>1 DEF PageInv, FollowerInv
    <3> QED BY <3>1, <3>2 DEF PageInv
  <2> QED BY <1>2, <2>2, <2>3, OnePage
<1>5. CASE Reconnect(c)
  <2>1. /\ UNCHANGED <<closes, wire, hpc>> /\ cpc[c] = "backoff"
        /\ cpc' = [cpc EXCEPT ![c] = "connecting"]
    BY <1>5 DEF Reconnect, connVars
  <2>2. StreamTypes' /\ cpc'[c] = "connecting" /\ \A b \in Client \ {c} : Apart(b)
    BY <1>1, <1>2, <2>1 DEF StreamTypes, Apart
  <2>3. PageInv(c)'
    BY <1>1, <1>2, <2>1, <2>2 DEF PageInv, ReaderInv, FollowerInv, HandlerInv, CountsOn
  <2> QED BY <1>2, <2>2, <2>3, OnePage
<1>6. CASE ClosesEarly(c)
  <2>1. /\ UNCHANGED cpc /\ cpc[c] = "reading" /\ closes[c] < MaxCloses
        /\ closes' = [closes EXCEPT ![c] = closes[c] + 1]
        /\ hpc' = [hpc EXCEPT ![c] = "returned"]
    BY <1>6 DEF ClosesEarly
  <2>2. PICK n \in 0..Len(wire[c]) : wire' = [wire EXCEPT ![c] = SubSeq(wire[c], 1, n)]
    BY <1>6 DEF ClosesEarly
  <2>3. CountsOn(SubSeq(wire[c], 1, n), lastEventID[c]) /\ Len(SubSeq(wire[c], 1, n)) = n
        /\ SubSeq(wire[c], 1, n) \in Seq(Nat)
    <3>1. CountsOn(SubSeq(wire[c], 1, n), lastEventID[c]) /\ Len(SubSeq(wire[c], 1, n)) = n
      BY <1>3, PrefixCountsOn
    <3> QED BY <3>1 DEF CountsOn
  <2>4. closes' \in [Client -> 0..MaxCloses]
    <3>1. closes[c] \in 0..MaxCloses /\ MaxCloses \in Nat
      BY <1>1, ClientAssumption DEF StreamTypes
    <3>2. closes[c] + 1 \in 0..MaxCloses
      BY <2>1, <3>1
    <3> QED BY <1>1, <2>1, <3>2 DEF StreamTypes
  <2>5. StreamTypes'
    BY <1>1, <1>2, <2>1, <2>2, <2>3, <2>4 DEF StreamTypes
  <2>6. /\ wire'[c] = SubSeq(wire[c], 1, n) /\ hpc'[c] = "returned"
        /\ \A b \in Client \ {c} : Apart(b)
    BY <1>1, <1>2, <2>1, <2>2 DEF StreamTypes, Apart
  <2>7. ReaderInv(c)' /\ HandlerInv(c)'
    BY <1>1, <1>2, <2>1, <2>3, <2>6 DEF PageInv, ReaderInv, HandlerInv, CountsOn
  <2>8. FollowerInv(c)'
    <3>1. lastEventID[c] + n <= Len(events[cjob[c]])
      <4>1. lastEventID[c] + Len(wire[c]) <= Len(events[cjob[c]]) /\ Len(events[cjob[c]]) \in Nat
        BY <1>1, <2>1 DEF PageInv, FollowerInv, TypeOK
      <4> QED BY <1>3, <4>1
    <3> QED BY <1>1, <1>2, <2>1, <2>3, <2>6, <3>1 DEF PageInv, FollowerInv
  <2> QED BY <1>2, <2>5, <2>6, <2>7, <2>8, OnePage DEF PageInv
<1>7. CASE \E how \in {"failed", "aborted"} : GivesUp(c, how)
  <2>1. PICK how \in {"failed", "aborted"} : GivesUp(c, how)
    BY <1>7
  <2>2. /\ UNCHANGED closes /\ cpc[c] \in {"connecting", "reading", "backoff"}
        /\ cpc' = [cpc EXCEPT ![c] = how] /\ hpc' = [hpc EXCEPT ![c] = "none"]
        /\ wire' = [wire EXCEPT ![c] = <<>>]
    BY <2>1 DEF GivesUp
  <2>3. /\ StreamTypes' /\ cpc'[c] = how /\ hpc'[c] = "none" /\ wire'[c] = <<>>
        /\ \A b \in Client \ {c} : Apart(b)
    BY <1>1, <1>2, <1>3, <2>2 DEF StreamTypes, Apart, Settled
  <2>4. ReaderInv(c)' /\ HandlerInv(c)'
    BY <1>1, <1>2, <1>3, <2>3 DEF PageInv, ReaderInv, HandlerInv, CountsOn
  <2>5. FollowerInv(c)'
    <3>1. lastEventID[c] + 0 <= Len(events[cjob[c]])
      <4>1. lastEventID[c] + Len(wire[c]) <= Len(events[cjob[c]]) /\ Len(events[cjob[c]]) \in Nat
        BY <1>1, <2>2 DEF PageInv, FollowerInv, TypeOK
      <4> QED BY <1>3, <4>1
    <3> QED BY <1>1, <1>2, <1>3, <2>2, <2>3, <3>1 DEF PageInv, FollowerInv
  <2> QED BY <1>2, <2>3, <2>4, <2>5, OnePage DEF PageInv
<1> QED BY <1>4, <1>5, <1>6, <1>7

\* A stream does nothing to the pool and the jobs.
LEMMA StreamIsNext == [StreamNext]_allVars => [Next]_vars
  BY DEF StreamNext, StreamStep, allVars, Follow, Connect, HandlerWakes, Heartbeat, HandlerPass, ClientReads,
         ClientReachesEnd, Reconnect, ClosesEarly, GivesUp

LEMMA NextStreamInv == IInv /\ IInv' /\ StreamInv /\ [StreamNext]_allVars => StreamInv'
<1> SUFFICES ASSUME IInv, IInv', StreamInv, [StreamNext]_allVars PROVE StreamInv'
  OBVIOUS
<1>1. TypeOK /\ TypeOK' /\ \A j \in Job : Advances(j)
  BY StreamIsNext, NextAdvances DEF IInv
<1>2. CASE UNCHANGED streamVars
  BY <1>1, <1>2, SystemStep
<1>3. CASE \E c \in Client, j \in Job : Follow(c, j)
  BY <1>1, <1>3, FollowStep
<1>4. CASE \E c \in Client : Connect(c)
  BY <1>1, <1>4, ConnectStep
<1>5. CASE \E c \in Client : HandlerWakes(c) \/ Heartbeat(c)
  BY <1>1, <1>5, PassStep DEF HandlerWakes, Heartbeat
<1>6. CASE \E c \in Client : ClientReads(c)
  BY <1>1, <1>6, ReadStep
<1>7. CASE \E c \in Client :
            ClientReachesEnd(c) \/ Reconnect(c) \/ ClosesEarly(c) \/ \E how \in {"failed", "aborted"} : GivesUp(c, how)
  BY <1>1, <1>7, EndStep
<1> QED BY <1>2, <1>3, <1>4, <1>5, <1>6, <1>7 DEF StreamNext, StreamStep, allVars

-----------------------------------------------------------------------------
(* The end of a log *)

\* From the verdict on, events show every target reported.
EndInv(j) ==
    \A i \in 1..Len(events[j]) : events[j][i].type = "job.completed" =>
        \A k \in i..Len(events[j]) : events[j][k].completed = Total(j)

LEMMA EndStable == ASSUME IInv, NEW j \in Job, LogStep(j), VerdictInv(j), EndInv(j)
                   PROVE  EndInv(j)'
<1> DEFINE n == Len(events[j])
<1>0. TypeOK /\ n \in Nat /\ JobInv(j)
  BY DEF IInv, TypeOK
<1>1. CASE Untouched(j)
  <2>1. CASE done[j]
    BY <1>1, <2>1 DEF Untouched, EndInv, Total
  <2>2. CASE ~done[j]
    BY <1>1, <2>2 DEF Untouched, EndInv, VerdictInv
  <2> QED BY <2>1, <2>2
\* An open job has no verdict yet.
<1>2. ASSUME NEW type, type # "job.completed", NEW status, Grows(j, type, status), ~done[j]
      PROVE  EndInv(j)'
  <2>1. /\ Len(events'[j]) = n + 1 /\ \A i \in 1..n : events'[j][i] = events[j][i]
        /\ events'[j][n + 1].type = type
    BY <1>0, <1>2, GrowsEntries
  <2>2. \A i \in 1..Len(events'[j]) : events'[j][i].type # "job.completed"
    BY <1>0, <1>2, <2>1 DEF VerdictInv
  <2> QED BY <2>2 DEF EndInv
<1>3. CASE (Begins(j) \/ Reports(j)) /\ ~done[j]
  <2>1. \E type \in {"domain.started", "job.started", "domain.completed"} : \E status : Grows(j, type, status)
    BY <1>3 DEF Begins, Reports
  <2> QED BY <1>2, <1>3, <2>1
\* A check begins when all are reported.
<1>4. CASE Begins(j) /\ done[j]
  <2>1. Grows(j, "domain.started", "running") /\ completed'[j] = completed[j] /\ Total(j)' = Total(j)
    BY <1>4 DEF Begins, Total
  <2>2. completed[j] = Total(j)
    <3>1. rpc[j] = "exited"
      BY <1>0, <1>4 DEF JobInv, TypeOK
    <3> QED BY <1>0, <3>1 DEF JobInv
  <2>3. /\ Len(events'[j]) = n + 1 /\ \A i \in 1..n : events'[j][i] = events[j][i]
        /\ events'[j][n + 1].type = "domain.started" /\ events'[j][n + 1].completed = Total(j)
    BY <1>0, <2>1, <2>2, GrowsEntries
  <2>4. ASSUME NEW i \in 1..(n + 1), events'[j][i].type = "job.completed", NEW k \in i..(n + 1)
        PROVE  events'[j][k].completed = Total(j)
    <3>1. i \in 1..n /\ events[j][i].type = "job.completed"
      BY <1>0, <2>3, <2>4
    <3>2. CASE k = n + 1
      BY <2>3, <3>2
    <3>3. CASE k # n + 1
      <4>1. k \in i..n /\ events'[j][k] = events[j][k]
        BY <1>0, <2>3, <3>1, <3>3
      <4> QED BY <3>1, <4>1 DEF EndInv
    <3> QED BY <3>2, <3>3
  <2> QED BY <2>1, <2>3, <2>4 DEF EndInv
<1>5. CASE Concludes(j)
  <2>1. /\ \E status : Grows(j, "job.completed", status)
        /\ completed'[j] = Total(j) /\ Total(j)' = Total(j) /\ ~done[j]
    BY <1>5 DEF Concludes
  <2>2. /\ Len(events'[j]) = n + 1 /\ \A i \in 1..n : events'[j][i] = events[j][i]
        /\ events'[j][n + 1].completed = Total(j)
    BY <1>0, <2>1, GrowsEntries
  <2>3. ASSUME NEW i \in 1..Len(events'[j]), events'[j][i].type = "job.completed"
        PROVE  i = n + 1
    BY <1>0, <2>1, <2>2, <2>3 DEF VerdictInv
  <2> QED BY <1>0, <2>1, <2>2, <2>3 DEF EndInv
<1> QED BY <1>1, <1>3, <1>4, <1>5 DEF LogStep, Reports

LogsEnd == \A j \in Job : VerdictInv(j) /\ EndInv(j)

LEMMA InitLogsEnd == Init => LogsEnd
<1> SUFFICES ASSUME Init, NEW j \in Job PROVE VerdictInv(j) /\ EndInv(j)
  BY DEF LogsEnd
<1>1. Len(events[j]) = 0
  BY DEF Init
<1> QED BY <1>1, InitVerdictInv DEF EndInv

LEMMA NextLogsEnd == IInv /\ LogsEnd /\ [Next]_vars => LogsEnd'
<1> SUFFICES ASSUME IInv, LogsEnd, [Next]_vars, NEW j \in Job PROVE VerdictInv(j)' /\ EndInv(j)'
  BY DEF LogsEnd
<1> QED BY NextLog, VerdictStep, EndStable DEF IInv, LogsEnd

-----------------------------------------------------------------------------
(* The theorems *)

\* What every reachable state of the composition satisfies.
THEOREM StreamInvariance == StreamSpec => [](IInv /\ StreamInv /\ LogsEnd)
<1>1. StreamInit => IInv /\ StreamInv /\ LogsEnd
  BY InitIInv, InitStreamInv, InitLogsEnd DEF StreamInit
<1>2. IInv /\ StreamInv /\ LogsEnd /\ [StreamNext]_allVars => (IInv /\ StreamInv /\ LogsEnd)'
  BY StreamIsNext, NextIInv, NextStreamInv, NextLogsEnd
<1> QED BY <1>1, <1>2, PTL DEF StreamSpec

\* Every variable of pages and handlers keeps its type, and what is on its way to a page is
\* in the log of its job.
THEOREM StreamAlwaysTyped == StreamSpec => []StreamTypeOK
<1>1. ASSUME IInv, StreamInv PROVE StreamTypeOK
  <2>1. ASSUME NEW c \in Client, NEW i \in 1..Len(wire[c]) PROVE wire[c][i] \in 1..Len(events[cjob[c]])
    <3>1. /\ lastEventID[c] \in Nat /\ wire[c] \in Seq(Nat) /\ Len(wire[c]) \in Nat /\ PageInv(c)
      BY <1>1 DEF StreamInv, StreamTypes
    <3>2. wire[c] # <<>>
      BY <2>1
    <3>3. /\ cjob[c] \in Job /\ lastEventID[c] + Len(wire[c]) <= Len(events[cjob[c]])
          /\ wire[c][i] = lastEventID[c] + i
      BY <3>1, <3>2 DEF PageInv, ReaderInv, FollowerInv, CountsOn
    <3>4. Len(events[cjob[c]]) \in Nat
      BY <1>1, <3>3 DEF IInv, TypeOK
    <3> QED BY <3>1, <3>3, <3>4
  <2> QED BY <1>1, <2>1 DEF StreamInv, StreamTypes, StreamTypeOK
<1> QED BY <1>1, StreamInvariance, PTL

\* Across any number of connections, cut anywhere, a page is handed every event of its job
\* once and in order (Last-Event-ID, snapshot).
THEOREM EveryEventOnce == StreamSpec => []NothingSkippedOrRepeated
<1>1. StreamInv => NothingSkippedOrRepeated
  BY DEF StreamInv, PageInv, ReaderInv, CountsOn, NothingSkippedOrRepeated
<1> QED BY <1>1, StreamInvariance, PTL

\* A handler that waits on an open signal has written the whole log of a job that is not
\* done: no append can fall between its snapshot and its wait (appendEventLocked).
THEOREM WakeupNeverLost == StreamSpec => []NoLostWakeup
<1>1. StreamInv => NoLostWakeup
  BY DEF StreamInv, PageInv, HandlerInv, NoLostWakeup
<1> QED BY <1>1, StreamInvariance, PTL

\* A page that is told the outcome has seen the report of every target, whatever still
\* comes after the verdict, and counts all targets of the job.
THEOREM CompletedIsComplete == StreamSpec => []CompletedSawEverything
<1>1. ASSUME IInv, StreamInv, LogsEnd, NEW c \in Client, cpc[c] = "completed"
      PROVE  LET j == cjob[c] IN
             /\ \A i \in 1..Len(events[j]) :
                   events[j][i].type \in {"domain.completed", "job.completed"} => i <= lastEventID[c]
             /\ events[j][lastEventID[c]].completed = Total(j)
  <2> DEFINE j == cjob[c]
             last == lastEventID[c]
  <2>1. PageInv(c) /\ last \in Nat /\ wire[c] \in Seq(Nat) /\ Len(wire[c]) \in Nat
    BY <1>1 DEF StreamInv, StreamTypes
  <2>2. j \in Job /\ last + Len(wire[c]) <= Len(events[j]) /\ \E i \in 1..last : events[j][i].type = "job.completed"
    BY <1>1, <2>1 DEF PageInv, FollowerInv
  <2>3. PICK v \in 1..last : events[j][v].type = "job.completed"
    BY <2>2
  <2>4. Len(events[j]) \in Nat /\ last \in v..Len(events[j]) /\ v \in 1..Len(events[j])
    <3>1. Len(events[j]) \in Nat
      BY <1>1, <2>2 DEF IInv, TypeOK
    <3> QED BY <2>1, <2>2, <3>1
  <2>5. /\ \A k \in (v + 1)..Len(events[j]) : events[j][k].type = "domain.started"
        /\ events[j][last].completed = Total(j)
    <3>1. VerdictInv(j) /\ EndInv(j)
      BY <1>1, <2>2 DEF LogsEnd
    <3>2. Conclusive(j, v)
      BY <2>3, <2>4, <3>1 DEF VerdictInv
    <3>3. events[j][last].completed = Total(j)
      BY <2>3, <2>4, <3>1 DEF EndInv
    <3> QED BY <3>2, <3>3 DEF Conclusive
  <2>6. ASSUME NEW i \in 1..Len(events[j]), events[j][i].type \in {"domain.completed", "job.completed"}
        PROVE  i <= last
    BY <2>1, <2>4, <2>5, <2>6
  <2> QED BY <2>5, <2>6
<1>2. IInv /\ StreamInv /\ LogsEnd => CompletedSawEverything
  BY <1>1 DEF CompletedSawEverything
<1> QED BY <1>2, StreamInvariance, PTL
=============================================================================
