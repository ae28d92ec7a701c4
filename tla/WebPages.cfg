SPECIFICATION WebSpec
CONSTANTS
    NoData = NoData
    k1 = k1
    k2 = k2
    Call = {k1, k2}
    ProfileCall = {k2}
    MaxSessions = 3
    MaxFaults = 1
    NoneChosen = NoneChosen
    TenantId = {1, 2, 3}
    PageSize = 2
    Filter = {"all", "active"}
    Column = {"expiry"}
    MaxLooks = 2
    MaxSteps = 4
    MaxLosses = 1
    DomainId = {1, 2}
    MaxDomains = 2
    Budget <- DashboardBudget
    NoText = NoText
    Junk = Junk
    Overridable = {1, 2}
    FirstPolicies <- StoredPolicies
    MaxEdits = 2
    MaxSends = 2
    MaxRefusals = 1
    OpenedAt = {"/", "/login", "/app/settings", "/admin", "/verify-email", "/reset-password", "/forgot-password", "/status"}
    MaxMoves = 1
    MaxCalls = 2
    MaxMishaps = 1
    Interval = {0, 59, 60, 3600, 5400, 7200, 86400, 90000}
    MsPerDay = 4
    Instant <- SomeInstants
    MaxListed = 4
    Unknown = Unknown
INVARIANTS
    SignedOutOnlyForCause SessionsAgree
     DeepLinkSurvives ShownAsStored
PROPERTIES
    NobodyWaitsForever
    FormsKeepTheirOwn 
CHECK_DEADLOCK FALSE
