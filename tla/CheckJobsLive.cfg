\* One worker, one job of two targets, the dispatch loop: everything that must happen.
CONSTANTS
    Job = {j1}
    Domain = {d1, d2, d3}
    d1 = d1
    d2 = d2
    d3 = d3
    Tenant = {t1}
    Worker = {w1}
    TargetLists <- Lists2
    Scheduled = {d3}
    NoJob = NoJob
    NoDomain = NoDomain
    NoTenant = NoTenant
SPECIFICATION FairSpec
PROPERTIES JobsFinish StopReturnsEventually PanicStops KeepsPromise
CHECK_DEADLOCK FALSE
