\* Two workers (a queue of four) and two jobs of at most three targets together, or of none.
CONSTANTS
    Job = {j1, j2}
    Domain = {d1, d2, d3}
    d1 = d1
    d2 = d2
    d3 = d3
    Tenant = {t1}
    Worker = {w1, w2}
    TargetLists <- ListsPool
    Scheduled = {}
    NoJob = NoJob
    NoDomain = NoDomain
    NoTenant = NoTenant
SPECIFICATION Spec
CONSTRAINT FewTargets
INVARIANTS LogIsProgress StartedThenCompletedOnce TasksAccounted OneVerdict
PROPERTIES VerdictIsFinal 
SYMMETRY PoolSymmetry
CHECK_DEADLOCK FALSE
