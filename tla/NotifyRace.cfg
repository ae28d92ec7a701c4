\* Two workers on one domain, one endpoint, edits, one fault.
SPECIFICATION FairSpec
CONSTANTS
    w1 = w1  w2 = w2  e1 = e1  c1 = c1  c2 = c2
    Worker = {w1, w2}
    Endpoint = {e1}
    Cert = {c1}
    ExpiresAt <- MCSoon
    Policies <- MCEdited
    Daily = {FALSE}
    Switched = {}
    MaxTime = 1
    MaxFaults = 1
    NoCert = NoCert
    NoPolicy = NoPolicy
    NoKey = NoKey
    Spoiled = Spoiled
INVARIANTS TypeOK NotifiedAtMostOnce DeliveriesTellTheTruth
PROPERTIES PendingSettles
