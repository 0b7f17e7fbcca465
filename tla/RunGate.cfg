SPECIFICATION Spec
CONSTANTS
    u1 = u1
    u2 = u2
    h1 = h1
    high = high
    low = low
    Clients <- TwoClients
    Inputs <- OneInput
    Consents <- TwoConsents
    HighRisk <- OneHighRisk
    PerUser = 2
    PerOrg = 2
    Concurrent = 1
    MaxRuns = 3
    MaxCrashes = 1
SYMMETRY Symmetric
INVARIANTS
    TypeOK
    
    HourlyOvershootBounded
    DuplicateScansBounded
    
CHECK_DEADLOCK FALSE
