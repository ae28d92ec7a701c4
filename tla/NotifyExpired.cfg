\* One worker, one certificate that runs out, one endpoint.
SPECIFICATION Spec
CONSTANTS
    w1 = w1  w2 = w2  e1 = e1  c1 = c1  c2 = c2
    Worker = {w1}
    Endpoint = {e1}
    Cert = {c1}
    ExpiresAt <- MCSoon
    Policies <- MCLate
    Daily = {FALSE}
    Switched = {}
    MaxTime = 3
    MaxFaults = 0
    NoCert = NoCert
    NoPolicy = NoPolicy
    NoKey = NoKey
    Spoiled = Spoiled
INVARIANTS ExpiryTold
