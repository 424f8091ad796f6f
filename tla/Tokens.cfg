SPECIFICATION Spec
CONSTANTS
    Procs = {p1, p2}
    Codes = {c1}
    None = None
    AccessTtl = 1
    CACHE_TTL = 1
    MaxTime = 2
    MaxSerial = 2
    MaxTokens = 1
    MaxWrites = 2
    MaxRequests = 4
INVARIANTS
    AnsweredEndHolds
    RevokedWithinTtl
    
SYMMETRY ProcSymmetry
CHECK_DEADLOCK FALSE
