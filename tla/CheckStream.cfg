CONSTANTS
    Job = {j1}
    Domain = {d1}
    d1 = d1
    d2 = d2
    Tenant = {t1, t2}
    t1 = t1
    Worker = {w1}
    TargetLists <- Lists1
    Scheduled = {}
    NoJob = NoJob
    NoDomain = NoDomain
    NoTenant = NoTenant
    Client = {c1}
    c1 = c1
    ClientTenant <- OwnTenant
    MaxCloses = 2
SPECIFICATION StreamFairSpec
INVARIANTS NothingSkippedOrRepeated NoLostWakeup CompletedSawEverything
PROPERTIES PagesSettle StreamsDrain
CHECK_DEADLOCK FALSE
