SPECIFICATION Spec
CONSTANTS
    d1 = d1  d2 = d2  t1 = t1  t2 = t2  w1 = w1  w2 = w2
    Domain = {d1}
    Tenant = {t1}
    Owner <- MCAlone
    Worker = {w1}
    Interval <- MCSlow
    RetryMax = 2
    BatchLimit = 1
    Switched = {d1}
    Removed = {d1}
    Managed = {t1}
    Requested = {d1}
    FailureCap = 2
    MaxLag = 0
    MaxFaults = 0
    NoDomain = NoDomain
CHECK_DEADLOCK FALSE
INVARIANT StoredAsAsked
