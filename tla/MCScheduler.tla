---------------------------- MODULE MCScheduler ----------------------------
(* Scheduler.tla on small instances: one or two domains, one or two tenants. *)
EXTENDS Scheduler

CONSTANTS d1, d2, t1, t2, w1, w2

MCAlone  == d1 :> t1
MCShared == (d1 :> t1) @@ (d2 :> t1)
MCApart  == (d1 :> t1) @@ (d2 :> t2)

\* Shorter than the longest backoff, and longer.
MCSlow     == d1 :> 3
MCInterval == (d1 :> 1) @@ (d2 :> 3)
MCShort    == (d1 :> 1) @@ (d2 :> 1)

WorkerSymmetry == Permutations(Worker)
=============================================================================
