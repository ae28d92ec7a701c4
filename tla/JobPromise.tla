----------------------------- MODULE JobPromise -----------------------------
(***************************************************************************)
(* What a check job promises to whoever started it, without the queue, the *)
(* workers and the event log: targets are reported one at a time, and the  *)
(* job closes either when all are reported, with a verdict that follows    *)
(* from the reports, or early, when the targets that are left are failed.  *)
(* CheckJobs implements this (Promise in CheckJobs).                       *)
(***************************************************************************)
EXTENDS Naturals

CONSTANTS
    Job,    \* job identifiers
    Sizes   \* how many targets a job may have

VARIABLES
    phase,      \* absent, open or closed
    size,       \* number of targets
    reported,   \* targets reported so far
    good,       \* those that were healthy
    verdict     \* "none" until closed

vars == <<phase, size, reported, good, verdict>>

Init ==
    /\ phase = [j \in Job |-> "absent"]
    /\ size = [j \in Job |-> 0]
    /\ reported = [j \in Job |-> 0]
    /\ good = [j \in Job |-> 0]
    /\ verdict = [j \in Job |-> "none"]

Begin(j) ==
    /\ phase[j] = "absent"
    /\ \E n \in Sizes \ {0} : size' = [size EXCEPT ![j] = n]
    /\ phase' = [phase EXCEPT ![j] = "open"]
    /\ UNCHANGED <<reported, good, verdict>>

Report(j) ==
    /\ phase[j] = "open"
    /\ reported[j] < size[j]
    /\ reported' = [reported EXCEPT ![j] = @ + 1]
    /\ \E healthy \in {0, 1} : good' = [good EXCEPT ![j] = @ + healthy]
    /\ UNCHANGED <<phase, size, verdict>>

VerdictOf(j) ==
    CASE good[j] = size[j] -> "completed"
      [] good[j] = 0 /\ size[j] # 0 -> "failed"
      [] OTHER -> "partial"

Close(j) ==
    /\ phase[j] = "open"
    /\ reported[j] = size[j]
    /\ phase' = [phase EXCEPT ![j] = "closed"]
    /\ verdict' = [verdict EXCEPT ![j] = VerdictOf(j)]
    /\ UNCHANGED <<size, reported, good>>

CutShort(j) ==
    /\ phase[j] = "open"
    /\ phase' = [phase EXCEPT ![j] = "closed"]
    /\ verdict' = [verdict EXCEPT ![j] = "failed"]
    /\ reported' = [reported EXCEPT ![j] = size[j]]
    /\ UNCHANGED <<size, good>>

JobStep(j) == Begin(j) \/ Report(j) \/ Close(j) \/ CutShort(j)

Next == \E j \in Job : JobStep(j)

Spec == Init /\ [][Next]_vars

\* A job that is open goes on to close.
FairSpec == Spec /\ \A j \in Job : WF_vars(Report(j) \/ Close(j) \/ CutShort(j))
=============================================================================
