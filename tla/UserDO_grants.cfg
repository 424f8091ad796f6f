SPECIFICATION Spec
CONSTANTS
    Sids = {s1}
    Codes = {c1}
    Families = {1}
    Groups <- Admins
    ClientRefs <- ConsentClients
    ScopeSets <- TwoScopes
    c1 = c1
    s1 = s1
    PURGE_INTERVAL_SECONDS = 1
    PURGE_GRACE_SECONDS = 1
    CODE_TTL_SECONDS = 1
    SESSION_TOUCH_INTERVAL_SECONDS = 1
    MAX_REFRESH_FAMILIES_PER_CLIENT = 1
    SessionIdleTtl = 1
    SessionAbsoluteTtl = 2
    RefreshIdleTtl = 2
    RefreshAbsoluteTtl = 3
    ReuseWindow = 1
    MaxClock = 1
    MaxSkew = 0
    MaxSerial = 1
    MaxExchanges = 1
SYMMETRY Symmetry
INVARIANTS ConsentOfThisClient
