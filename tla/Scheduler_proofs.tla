--------------------------- MODULE Scheduler_proofs ---------------------------
(***************************************************************************)
(* Proofs about Scheduler, for any finite set of domains, and any tenants, *)
(* workers, intervals and limits: the row of a domain tells what its       *)
(* newest result tells, nothing puts a domain off too far, and the order   *)
(* of due domains lists each of them exactly once.                         *)
(*                                                                         *)
(* For the first two the order of due domains and the contents of the      *)
(* channel play no part (SInv): a task that named no row would change      *)
(* none. TInv adds them.                                                   *)
(***************************************************************************)
EXTENDS Scheduler, ListLemmas

-----------------------------------------------------------------------------
(* The inductive invariant *)

ShapeInv ==
    /\ present \in [Domain -> {"absent", "present", "deleted"}]
    /\ status \in [Domain -> {"pending", "healthy", "error"}]
    /\ failures \in [Domain -> Nat] /\ delay \in [Domain -> Nat]
    /\ lastResult \in [Domain -> Result \cup {NoResult}]
    /\ wpc \in [Worker -> {"select", "tenant", "checking"}]
    /\ wdomain = [w \in Worker |-> wdomain[w]] /\ wfailures = [w \in Worker |-> wfailures[w]]

\* The row tells what the newest result tells; a domain not created yet has none.
Told(d) ==
    /\ status[d] = IF lastResult[d] = NoResult THEN "pending" ELSE lastResult[d].status
    /\ failures[d] > 0 <=> lastResult[d].retryable

RowInv(d) ==
    /\ present[d] = "absent" => lastResult[d] = NoResult
    /\ present[d] # "deleted" => Told(d)
    /\ delay[d] <= Longest(d)

\* A worker that checks a domain has read a row that was there, and its failures.
HeldInv(w) ==
    wpc[w] # "select" /\ wdomain[w] \in Domain =>
        present[wdomain[w]] # "absent" /\ wfailures[w] \in Nat

SInv == ShapeInv /\ (\A d \in Domain : RowInv(d)) /\ (\A w \in Worker : HeldInv(w))

-----------------------------------------------------------------------------
(* Lemmas *)

\* Waits are ticks, and none is longer than the domain's own or the longest backoff.
LEMMA LongestBounds ==
    ASSUME NEW d \in Domain
    PROVE  /\ Interval[d] \in Nat \ {0} /\ Longest(d) \in Nat
           /\ Interval[d] <= Longest(d) /\ RetryMax <= Longest(d)
  BY SchedulerAssumption DEF Longest

LEMMA RetryBounds == ASSUME NEW f PROVE RetryInterval(f) \in 1..RetryMax
  BY SchedulerAssumption DEF RetryInterval

LEMMA DelayBounds ==
    ASSUME NEW d \in Domain, NEW before, NEW result \in Result
    PROVE  DelayAfter(d, before, result) \in Nat /\ DelayAfter(d, before, result) <= Longest(d)
<1>1. CASE result.retryable
  <2>1. RetryInterval(FailuresAfter(before, result)) \in 1..RetryMax
    BY RetryBounds
  <2>2. DelayAfter(d, before, result) = RetryInterval(FailuresAfter(before, result))
    BY <1>1 DEF DelayAfter
  <2> QED BY <2>1, <2>2, LongestBounds, SchedulerAssumption
<1>2. CASE ~result.retryable
  <2>1. DelayAfter(d, before, result) = Interval[d]
    BY <1>2 DEF DelayAfter
  <2> QED BY <2>1, LongestBounds
<1> QED BY <1>1, <1>2

\* Failures are counted exactly when the result is one to retry.
LEMMA FailuresCount ==
    ASSUME NEW before \in Nat, NEW result \in Result
    PROVE  /\ FailuresAfter(before, result) \in Nat
           /\ FailuresAfter(before, result) > 0 <=> result.retryable
  BY SchedulerAssumption DEF FailuresAfter, Result

\* A step that neither rows nor workers notice.
LEMMA IdleStep ==
    ASSUME SInv, UNCHANGED <<present, status, failures, delay, lastResult, workerVars>>
    PROVE  SInv'
  BY DEF SInv, ShapeInv, RowInv, Told, HeldInv, workerVars

\* Only the time until the next check changes, to one that is not too far.
LEMMA DelayStep ==
    ASSUME SInv, UNCHANGED <<present, status, failures, lastResult, workerVars>>,
           delay' \in [Domain -> Nat], \A d \in Domain : delay'[d] <= Longest(d)
    PROVE  SInv'
  BY DEF SInv, ShapeInv, RowInv, Told, HeldInv, Longest, workerVars

\* Only one worker changes, and what it holds then it has read.
LEMMA HeldStep ==
    ASSUME SInv, UNCHANGED <<present, status, failures, delay, lastResult>>,
           NEW w \in Worker, NEW p \in {"select", "tenant", "checking"}, NEW d, NEW f,
           wpc' = [wpc EXCEPT ![w] = p], wdomain' = [wdomain EXCEPT ![w] = d],
           wfailures' = [wfailures EXCEPT ![w] = f],
           p # "select" /\ d \in Domain => present[d] # "absent" /\ f \in Nat
    PROVE  SInv'
<1>1. ShapeInv'
  BY DEF SInv, ShapeInv
<1>2. \A e \in Domain : RowInv(e)'
  BY DEF SInv, RowInv, Told
<1>3. /\ wpc'[w] = p /\ wdomain'[w] = d /\ wfailures'[w] = f
      /\ \A v \in Worker \ {w} : wpc'[v] = wpc[v] /\ wdomain'[v] = wdomain[v] /\ wfailures'[v] = wfailures[v]
  BY DEF SInv, ShapeInv
<1>4. \A v \in Worker : HeldInv(v)'
  BY <1>3 DEF SInv, HeldInv
<1> QED BY <1>1, <1>2, <1>4 DEF SInv

-----------------------------------------------------------------------------
(* The steps *)

LEMMA InitSInv == Init => SInv
<1> SUFFICES ASSUME Init PROVE SInv
  OBVIOUS
<1>1. ShapeInv
  BY DEF Init, ShapeInv
<1>2. ASSUME NEW d \in Domain PROVE RowInv(d)
  BY LongestBounds DEF Init, RowInv, Told, NoResult
<1>3. \A w \in Worker : HeldInv(w)
  BY DEF Init, HeldInv
<1> QED BY <1>1, <1>2, <1>3 DEF SInv

LEMMA TickStep == SInv /\ Tick => SInv'
<1> SUFFICES ASSUME SInv, Tick PROVE SInv'
  OBVIOUS
<1>1. /\ UNCHANGED <<present, status, failures, lastResult, workerVars>>
      /\ delay' = [d \in Domain |-> IF present[d] = "present" /\ delay[d] > 0 THEN delay[d] - 1 ELSE delay[d]]
  BY DEF Tick, rowVars
<1>2. ASSUME NEW d \in Domain PROVE delay'[d] \in Nat /\ delay'[d] <= Longest(d)
  <2>1. delay[d] \in Nat /\ delay[d] <= Longest(d) /\ Longest(d) \in Nat
    BY LongestBounds DEF SInv, ShapeInv, RowInv
  <2> QED BY <1>1, <2>1
<1>3. delay' \in [Domain -> Nat]
  BY <1>1, <1>2
<1> QED BY <1>1, <1>2, <1>3, DelayStep

\* The claim puts a domain off by its interval, less what the pass is late.
LEMMA ClaimStep == SInv /\ LoopClaims => SInv'
<1> SUFFICES ASSUME SInv, LoopClaims PROVE SInv'
  OBVIOUS
<1> DEFINE d == Head(batch)
<1>1. UNCHANGED <<present, status, failures, lastResult, workerVars>>
  BY DEF LoopClaims, rowVars
<1>2. CASE delay' = delay
  BY <1>1, <1>2, IdleStep
<1>3. CASE \E lag \in 0..MaxLag : lag < Interval[d] /\ delay' = [delay EXCEPT ![d] = Interval[d] - lag]
  <2>1. PICK lag \in 0..MaxLag : lag < Interval[d] /\ delay' = [delay EXCEPT ![d] = Interval[d] - lag]
    BY <1>3
  <2>2. lag \in Nat
    BY SchedulerAssumption
  <2>3. ASSUME NEW e \in Domain PROVE delay'[e] \in Nat /\ delay'[e] <= Longest(e)
    <3>1. delay[e] \in Nat /\ delay[e] <= Longest(e)
      BY DEF SInv, ShapeInv, RowInv
    <3>2. CASE e = d
      <4>1. delay'[e] = Interval[e] - lag
        BY <2>1, <3>2 DEF SInv, ShapeInv
      <4> QED BY <2>1, <2>2, <3>2, <4>1, LongestBounds
    <3>3. CASE e # d
      <4>1. delay'[e] = delay[e]
        BY <2>1, <3>3 DEF SInv, ShapeInv
      <4> QED BY <3>1, <4>1
    <3> QED BY <3>2, <3>3
  <2>4. delay' \in [Domain -> Nat]
    <3>1. delay' = [e \in Domain |-> delay'[e]]
      BY <2>1 DEF SInv, ShapeInv
    <3> QED BY <2>3, <3>1
  <2> QED BY <1>1, <2>3, <2>4, DelayStep
<1> QED BY <1>2, <1>3 DEF LoopClaims, Reschedule, RescheduleLate, timeVars

LEMMA ReadStep == ASSUME SInv, NEW w \in Worker, WorkerReadsDomain(w) \/ WorkerReadsTenant(w) \/ WorkerFails(w)
                  PROVE  SInv'
<1>1. UNCHANGED <<present, status, failures, delay, lastResult>>
  BY DEF WorkerReadsDomain, WorkerReadsTenant, WorkerFails, rowVars, timeVars
<1>2. CASE Released(w)
  BY <1>1, <1>2, HeldStep DEF Released
<1>3. CASE UNCHANGED workerVars
  BY <1>1, <1>3, IdleStep
<1>4. CASE WorkerReadsDomain(w) /\ ~UNCHANGED workerVars
  <2> DEFINE d == Head(jobs)
  <2>1. /\ present[d] = "present"
        /\ wpc' = [wpc EXCEPT ![w] = "tenant"] /\ wdomain' = [wdomain EXCEPT ![w] = d]
        /\ wfailures' = [wfailures EXCEPT ![w] = failures[d]]
    BY <1>4 DEF WorkerReadsDomain
  <2>2. d \in Domain => failures[d] \in Nat
    BY DEF SInv, ShapeInv
  <2> QED BY <1>1, <2>1, <2>2, HeldStep
<1>5. CASE WorkerReadsTenant(w) /\ ~Released(w)
  <2>1. /\ wpc[w] = "tenant" /\ wpc' = [wpc EXCEPT ![w] = "checking"]
        /\ wdomain' = [wdomain EXCEPT ![w] = wdomain[w]]
        /\ wfailures' = [wfailures EXCEPT ![w] = wfailures[w]]
    BY <1>5 DEF WorkerReadsTenant, SInv, ShapeInv
  <2>2. wdomain[w] \in Domain => present[wdomain[w]] # "absent" /\ wfailures[w] \in Nat
    BY <2>1 DEF SInv, HeldInv
  <2> QED BY <1>1, <2>1, <2>2, HeldStep
<1> QED BY <1>2, <1>3, <1>4, <1>5 DEF WorkerFails

\* The result and the row are written together, from what the worker read before.
LEMMA RecordStep == ASSUME SInv, NEW w \in Worker, NEW result \in Result, WorkerRecords(w, result)
                    PROVE  SInv'
<1> DEFINE d == wdomain[w]
           before == wfailures[w]
<1>1. /\ ShapeInv /\ wpc[w] = "checking" /\ UNCHANGED present
      /\ lastResult' = [lastResult EXCEPT ![d] = result]
      /\ WriteRow(d, before, result) /\ Released(w)
  BY DEF SInv, WorkerRecords, WriteRow, rowVars
<1>2. d \in Domain => present[d] # "absent" /\ before \in Nat
  BY <1>1 DEF SInv, HeldInv
<1>3. \/ /\ present[d] = "present"
         /\ status' = [status EXCEPT ![d] = result.status]
         /\ failures' = [failures EXCEPT ![d] = FailuresAfter(before, result)]
         /\ delay' = [delay EXCEPT ![d] = DelayAfter(d, before, result)]
      \/ present[d] # "present" /\ UNCHANGED <<status, failures, delay>>
  BY <1>1 DEF WriteRow, Reschedule, rowVars, timeVars
\* Rows of other domains, and all rows if the worker has none.
<1>4. ASSUME NEW e \in Domain, e # d
      PROVE  /\ status'[e] = status[e] /\ failures'[e] = failures[e] /\ delay'[e] = delay[e]
             /\ lastResult'[e] = lastResult[e] /\ present'[e] = present[e]
  BY <1>1, <1>3, <1>4 DEF ShapeInv
<1>5. ASSUME d \in Domain, present[d] = "present"
      PROVE  /\ status'[d] = result.status /\ failures'[d] = FailuresAfter(before, result)
             /\ delay'[d] = DelayAfter(d, before, result)
             /\ lastResult'[d] = result /\ present'[d] = present[d]
  BY <1>1, <1>3, <1>5 DEF ShapeInv
<1>6. ASSUME d \in Domain, present[d] # "present"
      PROVE  /\ status'[d] = status[d] /\ failures'[d] = failures[d] /\ delay'[d] = delay[d]
             /\ lastResult'[d] = result /\ present'[d] = "deleted"
  BY <1>1, <1>2, <1>3, <1>6 DEF ShapeInv
<1>7. result.status \in {"healthy", "error"} /\ result # NoResult
  <2>1. result.status \in {"healthy", "error"}
    BY DEF Result
  <2>2. NoResult.status = "none"
    BY DEF NoResult
  <2> QED BY <2>1, <2>2
<1>8. ASSUME NEW e \in Domain
      PROVE  /\ RowInv(e)' /\ status'[e] \in {"pending", "healthy", "error"}
             /\ failures'[e] \in Nat /\ delay'[e] \in Nat /\ lastResult'[e] \in Result \cup {NoResult}
  <2>1. CASE e # d
    BY <1>1, <1>4, <2>1 DEF SInv, ShapeInv, RowInv, Told, Longest
  <2>2. CASE e = d /\ present[d] = "present"
    <3>1. FailuresAfter(before, result) \in Nat /\ (FailuresAfter(before, result) > 0 <=> result.retryable)
      BY <1>2, <2>2, FailuresCount
    <3>2. DelayAfter(d, before, result) \in Nat /\ DelayAfter(d, before, result) <= Longest(d)
      BY <2>2, DelayBounds
    <3>3. /\ status'[e] = result.status /\ failures'[e] = FailuresAfter(before, result)
          /\ delay'[e] = DelayAfter(d, before, result)
          /\ lastResult'[e] = result /\ present'[e] = "present"
      BY <1>5, <2>2
    <3>4. Told(e)'
      BY <1>7, <3>1, <3>3 DEF Told
    <3>5. delay'[e] <= Longest(e)
      BY <2>2, <3>2, <3>3
    <3>6. RowInv(e)'
      BY <3>3, <3>4, <3>5 DEF RowInv, Longest
    <3> QED BY <1>7, <3>1, <3>2, <3>3, <3>6
  <2>3. CASE e = d /\ present[d] # "present"
    BY <1>1, <1>6, <2>3 DEF SInv, ShapeInv, RowInv, Longest
  <2> QED BY <2>1, <2>2, <2>3
<1>9. ShapeInv'
  <2>1. /\ status' = [e \in Domain |-> status'[e]] /\ failures' = [e \in Domain |-> failures'[e]]
        /\ delay' = [e \in Domain |-> delay'[e]] /\ lastResult' = [e \in Domain |-> lastResult'[e]]
    BY <1>1, <1>3 DEF ShapeInv
  <2>2. /\ wpc' \in [Worker -> {"select", "tenant", "checking"}]
        /\ wdomain' = [v \in Worker |-> wdomain'[v]] /\ wfailures' = [v \in Worker |-> wfailures'[v]]
    BY <1>1 DEF ShapeInv, Released
  <2>3. /\ status' \in [Domain -> {"pending", "healthy", "error"}]
        /\ failures' \in [Domain -> Nat] /\ delay' \in [Domain -> Nat]
        /\ lastResult' \in [Domain -> Result \cup {NoResult}]
    BY <1>8, <2>1
  <2> QED BY <1>1, <2>2, <2>3 DEF ShapeInv
<1>10. ASSUME NEW v \in Worker PROVE HeldInv(v)'
  <2>1. wpc'[w] = "select"
    BY <1>1 DEF ShapeInv, Released
  <2>2. v # w => wpc'[v] = wpc[v] /\ wdomain'[v] = wdomain[v] /\ wfailures'[v] = wfailures[v]
    BY <1>1 DEF ShapeInv, Released
  <2> QED BY <1>1, <2>1, <2>2 DEF SInv, HeldInv
<1> QED BY <1>8, <1>9, <1>10 DEF SInv

LEMMA CrashStep == SInv /\ Crash => SInv'
<1> SUFFICES ASSUME SInv, Crash PROVE SInv'
  OBVIOUS
<1>1. /\ UNCHANGED <<present, status, failures, delay, lastResult>>
      /\ wpc' = [w \in Worker |-> "select"] /\ wdomain' = [w \in Worker |-> NoDomain]
      /\ wfailures' = [w \in Worker |-> 0]
  BY DEF Crash, rowVars, timeVars
<1> QED BY <1>1 DEF SInv, ShapeInv, RowInv, Told, HeldInv

\* Rows that appear and go: those that appear have no result, those that go promise nothing.
LEMMA RequestStep ==
    ASSUME SInv, \/ \E d : CreateDomain(d) \/ DeleteDomain(d)
                 \/ \E t : DeleteTenant(t)
    PROVE  SInv'
<1>1. CASE \E d : CreateDomain(d)
  <2>1. PICK d : CreateDomain(d)
    BY <1>1
  <2>2. /\ present[d] = "absent" /\ present' = [present EXCEPT ![d] = "present"]
        /\ UNCHANGED <<status, failures, delay, lastResult, workerVars>>
    BY <2>1 DEF CreateDomain
  <2> QED BY <2>2 DEF SInv, ShapeInv, RowInv, Told, HeldInv, Longest, workerVars
<1>2. CASE \E d : DeleteDomain(d)
  <2>1. PICK d : DeleteDomain(d)
    BY <1>2
  <2>2. /\ present' = [present EXCEPT ![d] = "deleted"]
        /\ UNCHANGED <<status, failures, delay, lastResult, workerVars>>
    BY <2>1 DEF DeleteDomain
  <2> QED BY <2>2 DEF SInv, ShapeInv, RowInv, Told, HeldInv, Longest, workerVars
<1>3. CASE \E t : DeleteTenant(t)
  <2>1. PICK t : DeleteTenant(t)
    BY <1>3
  <2> DEFINE gone == {d \in Domain : Owner[d] = t /\ present[d] = "present"}
  <2>2. /\ lastResult' = [d \in Domain |-> IF d \in gone THEN NoResult ELSE lastResult[d]]
        /\ present' = [d \in Domain |-> IF d \in gone THEN "deleted" ELSE present[d]]
        /\ UNCHANGED <<status, failures, delay, workerVars>>
    BY <2>1 DEF DeleteTenant
  <2> HIDE DEF gone
  <2>3. ShapeInv'
    BY <2>2 DEF SInv, ShapeInv, workerVars
  <2>4. ASSUME NEW d \in Domain PROVE RowInv(d)'
    <3>1. RowInv(d)
      BY DEF SInv
    <3>2. CASE d \in gone
      BY <2>2, <3>1, <3>2 DEF RowInv, Longest
    <3>3. CASE d \notin gone
      BY <2>2, <3>1, <3>3 DEF RowInv, Told, Longest
    <3> QED BY <3>2, <3>3
  <2>5. \A w \in Worker : HeldInv(w)'
    BY <2>2 DEF SInv, ShapeInv, HeldInv, workerVars
  <2> QED BY <2>3, <2>4, <2>5 DEF SInv
<1> QED BY <1>1, <1>2, <1>3

LEMMA NextSInv == SInv /\ [Next]_vars => SInv'
<1> SUFFICES ASSUME SInv, [Next]_vars PROVE SInv'
  OBVIOUS
<1>1. CASE Tick
  BY <1>1, TickStep
<1>2. CASE LoopClaims
  BY <1>2, ClaimStep
<1>3. CASE LoopLists \/ LoopSends \/ LoopFails \/ Restart
  BY <1>3, IdleStep DEF LoopLists, LoopSends, LoopFails, Restart, rowVars, timeVars
<1>4. CASE \E w \in Worker : WorkerStep(w) \/ WorkerFails(w)
  BY <1>4, ReadStep, RecordStep DEF WorkerStep
<1>5. CASE Crash
  BY <1>5, CrashStep
<1>6. CASE \/ \E d : CreateDomain(d) \/ DeleteDomain(d)
           \/ \E t : DeleteTenant(t)
  BY <1>6, RequestStep
<1>7. CASE \/ \E d : SwitchDomain(d) \/ ManualSends(d)
           \/ \E t : SetTenantDisabled(t)
  BY <1>7, IdleStep DEF SwitchDomain, ManualSends, SetTenantDisabled, rowVars, timeVars
<1>8. CASE UNCHANGED vars
  BY <1>8, IdleStep DEF vars, rowVars, timeVars
<1> QED BY <1>1, <1>2, <1>3, <1>4, <1>5, <1>6, <1>7, <1>8 DEF Next

-----------------------------------------------------------------------------
(* The theorems *)

\* What every reachable state satisfies.
THEOREM AlwaysSInv == Spec => []SInv
<1> QED BY InitSInv, NextSInv, PTL DEF Spec

\* The row of a domain always tells what its newest check result tells, whatever workers
\* check it at once, with whatever stale row, and whatever edits, deletions and crashes come
\* between: status and count of failures (the transaction in processDomain).
THEOREM RowsMatchHistory == Spec => []RowMatchesHistory
<1>1. SInv => RowMatchesHistory
  BY DEF SInv, RowInv, Told, RowMatchesHistory
<1> QED BY AlwaysSInv, <1>1, PTL

\* No claim, retry or stale write puts a domain further away than its own interval or the
\* longest backoff (claim, scheduleNextCheck, retryInterval).
THEOREM NoneTooFar == Spec => []NeverPutOffTooFar
<1>1. SInv => NeverPutOffTooFar
  BY DEF SInv, RowInv, NeverPutOffTooFar
<1> QED BY AlwaysSInv, <1>1, PTL

-----------------------------------------------------------------------------
(* The order of due domains, the channel and the loop *)

\* The domains whose time has come, which overdue has to list.
Come == {d \in Domain : present[d] = "present" /\ delay[d] = 0}

RowsTyped ==
    /\ enabled \in [Domain -> BOOLEAN] /\ asked \in [Domain -> BOOLEAN]
    /\ failures \in [Domain -> 0..FailureCap]
    /\ tenantState \in [Tenant -> {"active", "disabled", "deleted"}]
    /\ up \in BOOLEAN /\ faults \in 0..MaxFaults

\* What was due for the pass of the loop still is, unless it was claimed, checked or deleted.
OrderInv ==
    /\ Once(overdue, Come)
    /\ dueBefore \subseteq Come
    /\ \A d \in Domain : present[d] = "absent" => delay[d] = 0

LoopTyped ==
    /\ jobs \in Seq(Domain) /\ Len(jobs) <= QueueCap
    /\ lpc \in {"idle", "claiming", "sending"}
    /\ batch \in Seq(Domain) /\ Len(batch) <= BatchLimit /\ (lpc = "claiming" => batch # <<>>)
    /\ ldomain \in Domain \cup {NoDomain} /\ (lpc = "sending" <=> ldomain # NoDomain)

WorkersTyped ==
    /\ wdomain \in [Worker -> Domain \cup {NoDomain}]
    /\ wfailures \in [Worker -> 0..FailureCap]
    /\ \A w \in Worker : wpc[w] # "select" => wdomain[w] \in Domain

TInv == SInv /\ RowsTyped /\ OrderInv /\ LoopTyped /\ WorkersTyped

LEMMA InitTInv == Init => TInv
<1> SUFFICES ASSUME Init PROVE TInv
  OBVIOUS
<1>1. SInv
  BY InitSInv
<1>2. RowsTyped
  BY SchedulerAssumption DEF Init, RowsTyped
<1>3. OrderInv
  <2>1. Come = {d \in Domain : present[d] = "present"}
    BY DEF Init, Come
  <2>2. IsFiniteSet(Come)
    BY SchedulerAssumption, FS_Subset DEF Come
  <2>3. Once(overdue, Come)
    BY <2>1, <2>2, OnceListed DEF Init
  <2> QED BY <2>3 DEF Init, OrderInv
<1>4. LoopTyped
  <2>1. PICK none \in Seq(Domain) : none = <<>>
    BY EmptySeq
  <2>2. Len(none) = 0
    BY <2>1, EmptySeq
  <2>3. Cardinality(Worker) \in Nat
    BY SchedulerAssumption, FS_CardinalityType
  <2> QED BY <2>1, <2>2, <2>3, SchedulerAssumption DEF Init, LoopTyped, QueueCap
<1>5. WorkersTyped
  BY SchedulerAssumption DEF Init, WorkersTyped
<1> QED BY <1>1, <1>2, <1>3, <1>4, <1>5 DEF TInv

LEMMA RowsTypedStep == TInv /\ [Next]_vars => RowsTyped'
<1> SUFFICES ASSUME TInv, [Next]_vars PROVE RowsTyped'
  OBVIOUS
<1>0. RowsTyped
  BY DEF TInv
<1>1. CASE UNCHANGED <<enabled, asked, failures, tenantState, up, faults>>
  BY <1>0, <1>1 DEF RowsTyped
<1>2. CASE Tick \/ LoopLists \/ LoopClaims \/ LoopSends
  BY <1>1, <1>2 DEF Tick, LoopLists, LoopClaims, LoopSends, rowVars
<1>3. CASE LoopFails \/ Crash \/ Restart \/ \E w \in Worker : WorkerFails(w)
  <2>1. UNCHANGED <<enabled, asked, failures, tenantState>>
    BY <1>3 DEF LoopFails, Crash, Restart, WorkerFails, rowVars
  <2>2. up' \in BOOLEAN
    BY <1>0, <1>3 DEF LoopFails, Crash, Restart, WorkerFails, RowsTyped
  <2>3. faults' = faults \/ (faults < MaxFaults /\ faults' = faults + 1)
    BY <1>3 DEF LoopFails, Crash, Restart, WorkerFails
  <2>4. faults' \in 0..MaxFaults
    BY <1>0, <2>3, SchedulerAssumption DEF RowsTyped
  <2> QED BY <1>0, <2>1, <2>2, <2>4 DEF RowsTyped
<1>4. CASE \E w \in Worker : WorkerReadsDomain(w) \/ WorkerReadsTenant(w)
  BY <1>1, <1>4 DEF WorkerReadsDomain, WorkerReadsTenant, rowVars
<1>5. CASE \E w \in Worker, result \in Result : WorkerRecords(w, result)
  <2>1. PICK w \in Worker, result \in Result : WorkerRecords(w, result)
    BY <1>5
  <2>2. wfailures[w] \in 0..FailureCap
    BY DEF TInv, WorkersTyped
  <2>3. FailuresAfter(wfailures[w], result) \in 0..FailureCap
    BY <2>2, SchedulerAssumption DEF FailuresAfter
  <2>4. /\ UNCHANGED <<enabled, asked, tenantState, up, faults>>
        /\ \/ failures' = failures
           \/ failures' = [failures EXCEPT ![wdomain[w]] = FailuresAfter(wfailures[w], result)]
    BY <2>1 DEF WorkerRecords, WriteRow, rowVars
  <2> QED BY <1>0, <2>3, <2>4 DEF RowsTyped
<1>6. CASE \E d \in Domain : CreateDomain(d)
  BY <1>0, <1>6 DEF CreateDomain, RowsTyped
<1>7. CASE \E d \in Switched : SwitchDomain(d)
  BY <1>0, <1>7 DEF SwitchDomain, RowsTyped
<1>8. CASE \/ \E d \in Removed : DeleteDomain(d)
           \/ \E d \in Requested : ManualSends(d)
  BY <1>1, <1>8 DEF DeleteDomain, ManualSends, rowVars
<1>9. CASE \E t \in Managed : SetTenantDisabled(t) \/ DeleteTenant(t)
  BY <1>0, <1>9 DEF SetTenantDisabled, DeleteTenant, RowsTyped, rowVars
<1>10. CASE UNCHANGED vars
  BY <1>1, <1>10 DEF vars, rowVars
<1> QED BY <1>2, <1>3, <1>4, <1>5, <1>6, <1>7, <1>8, <1>9, <1>10 DEF Next, WorkerStep

\* A domain put off is no longer due.
LEMMA RescheduleKeeps ==
    ASSUME TInv, UNCHANGED present, NEW d \in Domain, present[d] = "present",
           NEW n \in Nat \ {0}, Reschedule(d, n)
    PROVE  OrderInv'
<1>1. OrderInv /\ delay \in [Domain -> Nat]
  BY DEF TInv, SInv, ShapeInv
<1>2. /\ delay' = [delay EXCEPT ![d] = n] /\ overdue' = Among(overdue, Domain \ {d})
      /\ dueBefore' = dueBefore \ {d}
  BY DEF Reschedule
<1>3. Come' = Come \cap (Domain \ {d})
  BY <1>1, <1>2 DEF Come
<1>4. Once(Among(overdue, Domain \ {d}), Come \cap (Domain \ {d}))
  BY <1>1, OnceAmong DEF OrderInv
<1>5. Once(overdue, Come)'
  BY <1>2, <1>3, <1>4
<1>6. dueBefore' \subseteq Come'
  BY <1>1, <1>2, <1>3 DEF OrderInv, Come
<1>7. \A e \in Domain : present'[e] = "absent" => delay'[e] = 0
  BY <1>1, <1>2 DEF OrderInv
<1> QED BY <1>5, <1>6, <1>7 DEF OrderInv

\* One whose new time has gone by as well is due again, at another place.
LEMMA LateKeeps ==
    ASSUME TInv, UNCHANGED present, NEW d \in dueBefore, RescheduleLate(d)
    PROVE  OrderInv'
<1> DEFINE others == Among(overdue, Domain \ {d})
           rest == Come \cap (Domain \ {d})
<1>1. OrderInv /\ d \in Come
  BY DEF TInv, OrderInv
<1>2. PICK k \in 1..Len(others) + 1 : overdue' = InsertAt(others, k, d)
  BY DEF RescheduleLate
<1>3. delay' = delay /\ dueBefore' = dueBefore \ {d}
  BY DEF RescheduleLate
<1>4. Once(others, rest)
  BY <1>1, OnceAmong DEF OrderInv
<1>5. d \notin rest /\ rest \cup {d} = Come
  BY <1>1 DEF Come
<1> HIDE DEF others, rest
<1>6. Once(InsertAt(others, k, d), rest \cup {d})
  BY <1>2, <1>4, <1>5, OnceInsert
<1>7. Come' = Come
  BY <1>3 DEF Come
<1>8. Once(overdue, Come)'
  BY <1>2, <1>5, <1>6, <1>7
<1> QED BY <1>1, <1>3, <1>7, <1>8 DEF OrderInv

\* Domains that go are listed no more.
LEMMA GoneKeeps ==
    ASSUME TInv, UNCHANGED delay, NEW gone \in SUBSET Domain,
           present' = [d \in Domain |-> IF d \in gone THEN "deleted" ELSE present[d]],
           overdue' = Among(overdue, Domain \ gone), dueBefore' = dueBefore \ gone
    PROVE  OrderInv'
<1>1. OrderInv
  BY DEF TInv
<1>2. Come' = Come \cap (Domain \ gone)
  BY DEF Come
<1>3. Once(Among(overdue, Domain \ gone), Come \cap (Domain \ gone))
  BY <1>1, OnceAmong DEF OrderInv
<1>4. Once(overdue, Come)'
  BY <1>2, <1>3
<1> QED BY <1>1, <1>2, <1>4 DEF OrderInv, Come

\* Domains that come due at once join the others in some order.
LEMMA TickKeeps == TInv /\ Tick => OrderInv'
<1> SUFFICES ASSUME TInv, Tick PROVE OrderInv'
  OBVIOUS
<1> DEFINE coming == {d \in Domain : present[d] = "present" /\ delay[d] = 1}
<1>1. OrderInv /\ delay \in [Domain -> Nat]
  BY DEF TInv, SInv, ShapeInv
<1>2. /\ delay' = [d \in Domain |-> IF present[d] = "present" /\ delay[d] > 0 THEN delay[d] - 1 ELSE delay[d]]
      /\ UNCHANGED <<present, dueBefore>>
  BY DEF Tick, rowVars
<1>3. PICK s \in SetToSeqs(coming) : overdue' = overdue \o s
  BY DEF Tick
<1>4. IsFiniteSet(coming)
  BY SchedulerAssumption, FS_Subset
<1>5. Come \cap coming = {} /\ Come' = Come \cup coming
  BY <1>1, <1>2 DEF Come
<1> HIDE DEF coming
<1>6. Once(s, coming)
  BY <1>3, <1>4, OnceListed
<1>7. Once(overdue \o s, Come \cup coming)
  BY <1>1, <1>5, <1>6, OnceConcat DEF OrderInv
<1>8. Once(overdue, Come)'
  BY <1>3, <1>5, <1>7
<1>9. \A d \in Domain : present'[d] = "absent" => delay'[d] = 0
  BY <1>1, <1>2 DEF OrderInv
<1> QED BY <1>1, <1>2, <1>5, <1>8, <1>9 DEF OrderInv

LEMMA OrderStep == TInv /\ [Next]_vars => OrderInv'
<1> SUFFICES ASSUME TInv, [Next]_vars PROVE OrderInv'
  OBVIOUS
<1>0. OrderInv /\ ShapeInv /\ LoopTyped
  BY DEF TInv, SInv
<1>1. CASE UNCHANGED <<present, delay, overdue, dueBefore>>
  BY <1>0, <1>1 DEF OrderInv, Come
<1>2. CASE Tick
  BY <1>2, TickKeeps
<1>3. CASE LoopLists
  <2>1. UNCHANGED <<present, delay, overdue>> /\ dueBefore' = {overdue[i] : i \in 1..Len(overdue)}
    BY <1>3 DEF LoopLists, rowVars, timeVars
  <2>2. Come' = Come /\ dueBefore' \subseteq Come
    BY <1>0, <2>1 DEF Come, OrderInv, Once
  <2> QED BY <1>0, <2>1, <2>2 DEF OrderInv
<1>4. CASE LoopClaims
  <2> DEFINE d == Head(batch)
  <2>1. UNCHANGED present
    BY <1>4 DEF LoopClaims, rowVars
  <2>2. d \in Domain
    BY <1>0, <1>4, HeadTailProperties DEF LoopClaims, LoopTyped
  <2>3. \/ UNCHANGED <<timeVars, dueBefore>>
        \/ /\ present[d] = "present" /\ d \in dueBefore
           /\ \E lag \in 0..MaxLag :
                 IF lag < Interval[d] THEN Reschedule(d, Interval[d] - lag) ELSE RescheduleLate(d)
    BY <1>4 DEF LoopClaims
  <2>4. CASE UNCHANGED <<timeVars, dueBefore>>
    BY <1>1, <2>1, <2>4 DEF timeVars
  <2>5. CASE /\ present[d] = "present" /\ d \in dueBefore
             /\ \E lag \in 0..MaxLag :
                   IF lag < Interval[d] THEN Reschedule(d, Interval[d] - lag) ELSE RescheduleLate(d)
    <3>1. PICK lag \in 0..MaxLag :
             IF lag < Interval[d] THEN Reschedule(d, Interval[d] - lag) ELSE RescheduleLate(d)
      BY <2>5
    <3> HIDE DEF d
    <3>2. lag \in Nat /\ Interval[d] \in Nat \ {0}
      BY <2>2, SchedulerAssumption
    <3>3. CASE lag < Interval[d]
      <4>1. Interval[d] - lag \in Nat \ {0}
        BY <3>2, <3>3
      <4> QED BY <2>1, <2>2, <2>5, <3>1, <3>3, <4>1, RescheduleKeeps
    <3>4. CASE ~ (lag < Interval[d])
      BY <2>1, <2>5, <3>1, <3>4, LateKeeps
    <3> QED BY <3>3, <3>4
  <2> QED BY <2>3, <2>4, <2>5
<1>5. CASE \E w \in Worker, result \in Result : WorkerRecords(w, result)
  <2>1. PICK w \in Worker, result \in Result : WorkerRecords(w, result)
    BY <1>5
  <2> DEFINE d == wdomain[w]
             n == DelayAfter(d, wfailures[w], result)
  <2>2. d \in Domain
    BY <2>1 DEF TInv, WorkersTyped, WorkerRecords
  <2>3. UNCHANGED present
    BY <2>1 DEF WorkerRecords, WriteRow, rowVars
  <2>4. n \in Nat \ {0}
    <3>1. RetryInterval(FailuresAfter(wfailures[w], result)) \in Nat \ {0}
      BY RetryBounds, SchedulerAssumption
    <3> QED BY <2>2, <3>1, SchedulerAssumption DEF DelayAfter
  <2>5. (present[d] = "present" /\ Reschedule(d, n)) \/ UNCHANGED <<timeVars, dueBefore>>
    BY <2>1 DEF WorkerRecords, WriteRow
  <2> HIDE DEF d, n
  <2>6. CASE present[d] = "present" /\ Reschedule(d, n)
    BY <2>2, <2>3, <2>4, <2>6, RescheduleKeeps
  <2>7. CASE UNCHANGED <<timeVars, dueBefore>>
    BY <1>1, <2>3, <2>7 DEF timeVars
  <2> QED BY <2>5, <2>6, <2>7
<1>6. CASE Crash
  BY <1>0, <1>6 DEF Crash, OrderInv, Come, rowVars, timeVars
<1>7. CASE \E d \in Domain : CreateDomain(d)
  <2>1. PICK d \in Domain : CreateDomain(d)
    BY <1>7
  <2>2. /\ present[d] = "absent" /\ present' = [present EXCEPT ![d] = "present"]
        /\ overdue' = Append(overdue, d) /\ UNCHANGED <<delay, dueBefore>>
    BY <2>1 DEF CreateDomain
  <2>3. d \notin Come /\ Come' = Come \cup {d}
    BY <1>0, <2>2 DEF OrderInv, ShapeInv, Come
  <2>4. Once(Append(overdue, d), Come \cup {d})
    BY <1>0, <2>3, OnceAppend DEF OrderInv
  <2>5. Once(overdue, Come)'
    BY <2>2, <2>3, <2>4
  <2>6. \A e \in Domain : present'[e] = "absent" => delay'[e] = 0
    BY <1>0, <2>2 DEF OrderInv, ShapeInv
  <2> QED BY <1>0, <2>2, <2>3, <2>5, <2>6 DEF OrderInv
<1>8. CASE \E d \in Removed : DeleteDomain(d)
  <2>1. PICK d \in Domain : DeleteDomain(d)
    BY <1>8, SchedulerAssumption
  <2>2. /\ present' = [present EXCEPT ![d] = "deleted"] /\ UNCHANGED delay
        /\ overdue' = Among(overdue, Domain \ {d}) /\ dueBefore' = dueBefore \ {d}
    BY <2>1 DEF DeleteDomain
  <2>3. PICK gone \in SUBSET Domain : gone = {d}
    OBVIOUS
  <2>4. present' = [e \in Domain |-> IF e \in gone THEN "deleted" ELSE present[e]]
    BY <1>0, <2>2, <2>3 DEF ShapeInv
  <2> QED BY <2>2, <2>3, <2>4, GoneKeeps
<1>9. CASE \E t \in Managed : DeleteTenant(t)
  <2>1. PICK t \in Managed : DeleteTenant(t)
    BY <1>9
  <2>2. PICK gone \in SUBSET Domain : gone = {d \in Domain : Owner[d] = t /\ present[d] = "present"}
    OBVIOUS
  <2>3. /\ UNCHANGED delay
        /\ present' = [d \in Domain |-> IF d \in gone THEN "deleted" ELSE present[d]]
        /\ overdue' = Among(overdue, Domain \ gone) /\ dueBefore' = dueBefore \ gone
    BY <2>1, <2>2 DEF DeleteTenant
  <2> QED BY <2>3, GoneKeeps
<1>10. CASE LoopSends \/ LoopFails \/ Restart
  BY <1>1, <1>10 DEF LoopSends, LoopFails, Restart, rowVars, timeVars
<1>11. CASE \E w \in Worker : WorkerReadsDomain(w) \/ WorkerReadsTenant(w) \/ WorkerFails(w)
  BY <1>1, <1>11 DEF WorkerReadsDomain, WorkerReadsTenant, WorkerFails, rowVars, timeVars
<1>12. CASE \/ \E d : SwitchDomain(d) \/ ManualSends(d)
            \/ \E t : SetTenantDisabled(t)
  BY <1>1, <1>12 DEF SwitchDomain, ManualSends, SetTenantDisabled, rowVars, timeVars
<1>13. CASE UNCHANGED vars
  BY <1>1, <1>13 DEF vars, rowVars, timeVars
<1> QED BY <1>2, <1>3, <1>4, <1>5, <1>6, <1>7, <1>8, <1>9, <1>10, <1>11, <1>12, <1>13 DEF Next, WorkerStep

LEMMA LoopTypedStep == TInv /\ [Next]_vars => LoopTyped'
<1> SUFFICES ASSUME TInv, [Next]_vars PROVE LoopTyped'
  OBVIOUS
<1>0. LoopTyped /\ OrderInv /\ Len(jobs) \in Nat /\ QueueCap \in Nat
  <2>1. Cardinality(Worker) \in Nat
    BY SchedulerAssumption, FS_CardinalityType
  <2> QED BY <2>1, LenProperties DEF TInv, LoopTyped, QueueCap
<1>1. CASE UNCHANGED <<jobs, lpc, batch, ldomain>>
  BY <1>0, <1>1 DEF LoopTyped
<1>2. ASSUME NEW d \in Domain, Len(jobs) < QueueCap
      PROVE  Append(jobs, d) \in Seq(Domain) /\ Len(Append(jobs, d)) <= QueueCap
  BY <1>0, <1>2, AppendProperties DEF LoopTyped
<1>3. PICK none \in Seq(Domain) : none = <<>> /\ Len(none) = 0
  BY EmptySeq
<1>4. CASE LoopLists
  <2>1. /\ lpc = "idle" /\ Due # <<>> /\ lpc' = "claiming" /\ UNCHANGED <<jobs, ldomain>>
        /\ batch' = SubSeq(Due, 1, IF Len(Due) < BatchLimit THEN Len(Due) ELSE BatchLimit)
    BY <1>4 DEF LoopLists
  <2>2. Due \in Seq(Domain)
    <3>1. overdue \in Seq(Domain)
      BY <1>0, OnceCount DEF OrderInv, Come
    <3>2. PICK set : set = {d \in Domain : Active(d)}
      OBVIOUS
    <3>3. Among(overdue, set) \in Seq(Domain \cap set)
      BY <3>1, AmongList
    <3> QED BY <3>2, <3>3 DEF Due
  <2>3. Len(Due) \in Nat \ {0}
    BY <2>1, <2>2, EmptySeq, LenProperties
  <2>4. PICK n \in 1..Len(Due) : n = (IF Len(Due) < BatchLimit THEN Len(Due) ELSE BatchLimit) /\ n <= BatchLimit
    BY <2>3, SchedulerAssumption
  <2>5. SubSeq(Due, 1, n) \in Seq(Domain) /\ Len(SubSeq(Due, 1, n)) = n
    BY <2>2, <2>3, <2>4, SubSeqProperties
  <2>6. SubSeq(Due, 1, n) # <<>>
    BY <1>3, <2>4, <2>5
  <2> QED BY <1>0, <2>1, <2>4, <2>5, <2>6 DEF LoopTyped
<1>5. CASE LoopClaims
  <2> DEFINE d == Head(batch)
             rest == Tail(batch)
  <2>1. /\ lpc = "claiming" /\ batch' = rest /\ UNCHANGED jobs
        /\ \/ ldomain' = d /\ lpc' = "sending"
           \/ UNCHANGED ldomain /\ lpc' = AfterBatch(rest)
    BY <1>5 DEF LoopClaims
  <2>2. batch \in Seq(Domain) /\ batch # <<>> /\ Len(batch) <= BatchLimit /\ ldomain = NoDomain
    BY <1>0, <2>1 DEF LoopTyped
  <2>3. d \in Domain /\ rest \in Seq(Domain) /\ Len(rest) <= BatchLimit
    BY <2>2, HeadTailProperties, LenProperties, SchedulerAssumption
  <2> HIDE DEF d, rest
  <2> QED BY <1>0, <2>1, <2>2, <2>3, SchedulerAssumption DEF LoopTyped, AfterBatch
<1>6. CASE LoopSends
  <2>1. /\ lpc = "sending" /\ Len(jobs) < QueueCap /\ jobs' = Append(jobs, ldomain) /\ UNCHANGED batch
        /\ ldomain' = NoDomain /\ lpc' = AfterBatch(batch)
    BY <1>6 DEF LoopSends
  <2>2. ldomain \in Domain
    BY <1>0, <2>1 DEF LoopTyped
  <2> QED BY <1>0, <1>2, <2>1, <2>2 DEF LoopTyped, AfterBatch
<1>7. CASE LoopFails
  <2>1. /\ lpc = "claiming" /\ lpc' = "idle" /\ batch' = none /\ UNCHANGED <<jobs, ldomain>>
    BY <1>3, <1>7 DEF LoopFails
  <2> QED BY <1>0, <1>3, <2>1, SchedulerAssumption DEF LoopTyped
<1>8. CASE Crash
  <2>1. lpc' = "idle" /\ batch' = none /\ jobs' = none /\ ldomain' = NoDomain
    BY <1>3, <1>8 DEF Crash
  <2> QED BY <1>0, <1>3, <2>1, SchedulerAssumption DEF LoopTyped, QueueCap
<1>9. CASE \E d \in Requested : ManualSends(d)
  <2>1. PICK d \in Domain : ManualSends(d)
    BY <1>9, SchedulerAssumption
  <2>2. Len(jobs) < QueueCap /\ jobs' = Append(jobs, d) /\ UNCHANGED <<lpc, batch, ldomain>>
    BY <2>1 DEF ManualSends, loopVars
  <2> QED BY <1>0, <1>2, <2>2 DEF LoopTyped
<1>10. CASE \E w \in Worker : WorkerReadsDomain(w)
  <2>1. jobs # <<>> /\ jobs' = Tail(jobs) /\ UNCHANGED <<lpc, batch, ldomain>>
    BY <1>10 DEF WorkerReadsDomain, loopVars
  <2>2. Tail(jobs) \in Seq(Domain) /\ Len(Tail(jobs)) <= QueueCap
    BY <1>0, <2>1, HeadTailProperties DEF LoopTyped
  <2> QED BY <1>0, <2>1, <2>2 DEF LoopTyped
<1>11. CASE Tick \/ Restart \/ \E w \in Worker : WorkerReadsTenant(w) \/ WorkerFails(w)
  BY <1>1, <1>11 DEF Tick, Restart, WorkerReadsTenant, WorkerFails, loopVars
<1>12. CASE \E w \in Worker, result \in Result : WorkerRecords(w, result)
  BY <1>1, <1>12 DEF WorkerRecords, loopVars
<1>13. CASE \/ \E d : CreateDomain(d) \/ SwitchDomain(d) \/ DeleteDomain(d)
            \/ \E t : SetTenantDisabled(t) \/ DeleteTenant(t)
  BY <1>1, <1>13 DEF CreateDomain, SwitchDomain, DeleteDomain, SetTenantDisabled, DeleteTenant, loopVars
<1>14. CASE UNCHANGED vars
  BY <1>1, <1>14 DEF vars, loopVars
<1> QED BY <1>4, <1>5, <1>6, <1>7, <1>8, <1>9, <1>10, <1>11, <1>12, <1>13, <1>14 DEF Next, WorkerStep

LEMMA WorkersTypedStep == TInv /\ [Next]_vars => WorkersTyped'
<1> SUFFICES ASSUME TInv, [Next]_vars PROVE WorkersTyped'
  OBVIOUS
<1>0. WorkersTyped /\ RowsTyped /\ LoopTyped /\ ShapeInv
  BY DEF TInv, SInv
<1>1. CASE UNCHANGED workerVars
  BY <1>0, <1>1 DEF WorkersTyped, workerVars
<1>2. ASSUME NEW w \in Worker, Released(w) PROVE WorkersTyped'
  BY <1>0, <1>2, SchedulerAssumption DEF WorkersTyped, Released, ShapeInv
<1>3. CASE \E w \in Worker : WorkerReadsDomain(w)
  <2>1. PICK w \in Worker : WorkerReadsDomain(w)
    BY <1>3
  <2> DEFINE d == Head(jobs)
  <2>2. d \in Domain
    BY <1>0, <2>1, HeadTailProperties DEF WorkerReadsDomain, LoopTyped
  <2>3. failures[d] \in 0..FailureCap
    BY <1>0, <2>2 DEF RowsTyped
  <2>4. \/ UNCHANGED workerVars
        \/ /\ wpc' = [wpc EXCEPT ![w] = "tenant"] /\ wdomain' = [wdomain EXCEPT ![w] = d]
           /\ wfailures' = [wfailures EXCEPT ![w] = failures[d]]
    BY <2>1 DEF WorkerReadsDomain
  <2> HIDE DEF d
  <2> QED BY <1>0, <1>1, <2>2, <2>3, <2>4 DEF WorkersTyped, ShapeInv
<1>4. CASE \E w \in Worker : WorkerReadsTenant(w)
  <2>1. PICK w \in Worker : WorkerReadsTenant(w)
    BY <1>4
  <2>2. CASE Released(w)
    BY <1>2, <2>2
  <2>3. CASE /\ wpc[w] = "tenant" /\ wpc' = [wpc EXCEPT ![w] = "checking"]
             /\ UNCHANGED <<wdomain, wfailures>>
    BY <1>0, <2>3 DEF WorkersTyped, ShapeInv
  <2> QED BY <2>1, <2>2, <2>3 DEF WorkerReadsTenant
<1>5. CASE \E w \in Worker : WorkerFails(w) \/ \E result \in Result : WorkerRecords(w, result)
  BY <1>2, <1>5 DEF WorkerFails, WorkerRecords
<1>6. CASE Crash
  BY <1>6, SchedulerAssumption DEF Crash, WorkersTyped
<1>7. CASE Tick \/ LoopLists \/ LoopClaims \/ LoopSends \/ LoopFails \/ Restart
  BY <1>1, <1>7 DEF Tick, LoopLists, LoopClaims, LoopSends, LoopFails, Restart
<1>8. CASE \/ \E d : CreateDomain(d) \/ SwitchDomain(d) \/ DeleteDomain(d) \/ ManualSends(d)
           \/ \E t : SetTenantDisabled(t) \/ DeleteTenant(t)
  BY <1>1, <1>8 DEF CreateDomain, SwitchDomain, DeleteDomain, ManualSends, SetTenantDisabled, DeleteTenant
<1>9. CASE UNCHANGED vars
  BY <1>1, <1>9 DEF vars
<1> QED BY <1>3, <1>4, <1>5, <1>6, <1>7, <1>8, <1>9 DEF Next, WorkerStep

\* The invariant of the rows, the dispatch loop and the workers (scheduler/service.go): all are
\* typed, and the order of next_check_at has each domain that is due once.
THEOREM AlwaysTInv == Spec => []TInv
<1>1. TInv /\ [Next]_vars => TInv'
  <2>1. TInv /\ [Next]_vars => SInv'
    BY NextSInv DEF TInv
  <2> QED BY <2>1, RowsTypedStep, OrderStep, LoopTypedStep, WorkersTypedStep DEF TInv
<1> QED BY InitTInv, <1>1, PTL DEF Spec

\* Every variable keeps its type, the channel and the batch their bounds, and every domain
\* whose time has come stands in the order of next_check_at exactly once, no other at all,
\* whatever claims, results, deletions and crashes come between.
THEOREM AlwaysTyped == Spec => []TypeOK
<1>1. ASSUME TInv PROVE TypeOK
  <2>1. /\ overdue \in Seq(Domain) /\ dueBefore \subseteq Domain
        /\ \A d \in Domain : Cardinality({i \in 1..Len(overdue) : overdue[i] = d})
                                = IF d \in Come THEN 1 ELSE 0
    <3>1. Once(overdue, Come) /\ Come \in SUBSET Domain /\ dueBefore \subseteq Come
      BY <1>1 DEF TInv, OrderInv, Come
    <3> HIDE DEF Come
    <3> QED BY <3>1, OnceCount
  <2>2. \A d \in Domain : d \in Come <=> present[d] = "present" /\ delay[d] = 0
    BY DEF Come
  <2> HIDE DEF Come
  <2> QED BY <1>1, <2>1, <2>2 DEF TInv, SInv, ShapeInv, RowsTyped, LoopTyped, WorkersTyped, TypeOK
<1>2. TInv => TypeOK
  BY <1>1
<1> QED BY AlwaysTInv, <1>2, PTL
=============================================================================
