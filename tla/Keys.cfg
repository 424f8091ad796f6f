CONSTANTS
    Kids = {1, 2}
    Isolates = {i1, i2}
    Procs = {p1, p2}
    None = None
    KEYS_TTL = 1
    KEYS_STALE = 2
    Retention = 0
    Rotation = 6
    Prepublish = 2
    RetireAfter = 5
    TokenTtl = 2
    MaxTime = 6
SPECIFICATION Spec
INVARIANTS  RetiredStopsVerifying OneFirstKey ActiveKeyRemains
SYMMETRY Symmetry
CHECK_DEADLOCK FALSE
