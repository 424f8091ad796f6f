SPECIFICATION Spec
CONSTANTS
    Sids = {s1}
    Codes = {c1, c2}
    Families = {1, 2}
    Groups <- NoGroups
    ClientRefs <- OneOffline
    ScopeSets <- Offline
    c1 = c1
    c2 = c2
    s1 = s1
    PURGE_INTERVAL_SECONDS = 1
    PURGE_GRACE_SECONDS = 1
    CODE_TTL_SECONDS = 2
    SESSION_TOUCH_INTERVAL_SECONDS = 1
    MAX_REFRESH_FAMILIES_PER_CLIENT = 1
    SessionIdleTtl = 1
    SessionAbsoluteTtl = 2
    RefreshIdleTtl = 2
    RefreshAbsoluteTtl = 3
    ReuseWindow = 1
    MaxClock = 2
    MaxSkew = 0
    MaxSerial = 3
    MaxExchanges = 1
SYMMETRY Symmetry
INVARIANTS OneFamilyPerCode CurrentTokenStored FamilyLimit ReuseDetectable
