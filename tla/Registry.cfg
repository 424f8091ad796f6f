CONSTANTS
    Procs = {p1, p2}
    Reads = {r1, r2}
    None = None
    CACHE_TTL = 1
    MaxSecrets = 3
    MaxTime = 2
SPECIFICATION Spec
INVARIANTS ServedIsRecent DisabledAsDecided StoredIsValid
SYMMETRY Symmetry
CHECK_DEADLOCK FALSE
