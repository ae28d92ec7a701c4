---------------------------- MODULE MCCheckJobs ----------------------------
(* Instances of CheckJobs for TLC. *)
EXTENDS CheckJobs, TLC

CONSTANTS d1, d2, d3

\* "check" sends one domain, "check-all" every domain of the tenant, none for a new tenant.
Lists2    == {<<>>, <<d1, d2>>}
ListsPool == {<<>>, <<d1>>, <<d2, d3>>}

\* Bound: targets of all jobs together; beyond it no successor is looked at.
FewTargets == \A i, j \in Job : i # j => Total(i) + Total(j) <= 3

PoolSymmetry == Permutations(Job) \cup Permutations(Worker)
=============================================================================
