SPECIFICATION FairSpec
CONSTANTS
    d1 = d1  d2 = d2  t1 = t1  t2 = t2  w1 = w1  w2 = w2
    Domain = {d1, d2}
    Tenant = {t1}
    Owner <- MCShared
    Worker = {w1}
    Interval <- MCShort
    RetryMax = 1
    BatchLimit = 1
    Switched = {d1}
    Removed = {}
    Managed = {}
    Requested = {d1}
    FailureCap = 1
    MaxLag = 1
    MaxFaults = 1
    NoDomain = NoDomain
CHECK_DEADLOCK FALSE
PROPERTIES KeepsBeingChecked SwitchedOffGoesQuiet
