SPECIFICATION Spec
CONSTANTS
    Sids = {s1, s2}
    Codes = {c1, c2}
    Families = {1}
    Groups <- NoGroups
    ClientRefs <- OneClient
    ScopeSets <- OpenId
    c1 = c1
    c2 = c2
    s1 = s1
    s2 = s2
    PURGE_INTERVAL_SECONDS = 1
    PURGE_GRACE_SECONDS = 0
    CODE_TTL_SECONDS = 1
    SESSION_TOUCH_INTERVAL_SECONDS = 1
    MAX_REFRESH_FAMILIES_PER_CLIENT = 1
    SessionIdleTtl = 2
    SessionAbsoluteTtl = 3
    RefreshIdleTtl = 2
    RefreshAbsoluteTtl = 3
    ReuseWindow = 1
    MaxClock = 3
    MaxSkew = 0
    MaxSerial = 2
    MaxExchanges = 1
SYMMETRY Symmetry
INVARIANTS EndedSessionHasNoFamily DisabledHasNothingLive ExpiriesNest
PROPERTIES RevocationIsFinal
