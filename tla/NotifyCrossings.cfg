\* One worker, a certificate and its successor, two thresholds, a day that turns while it runs.
SPECIFICATION Spec
CONSTANTS
    w1 = w1  w2 = w2  e1 = e1  c1 = c1  c2 = c2
    Worker = {w1}
    Endpoint = {e1}
    Cert = {c1, c2}
    ExpiresAt <- MCExpires
    Policies <- MCCrossed
    Daily = {TRUE, FALSE}
    Switched = {e1}
    MaxTime = 6
    MaxFaults = 0
    NoCert = NoCert
    NoPolicy = NoPolicy
    NoKey = NoKey
    Spoiled = Spoiled
INVARIANTS CrossingsTold
PROPERTIES NoticesAccounted
