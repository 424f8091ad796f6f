SPECIFICATION Spec
CONSTANTS
    Procs = {p1, p2, p3}
    Users = {u1, u2}
    Creds = {k1, k2}
    MaxPerUser = 2
    PASSKEY_ATTEMPT_LIMIT = 2
    MaxCounter = 1
    p1 = p1
    p2 = p2
    p3 = p3
    u1 = u1
    u2 = u2
    k1 = k1
    k2 = k2
    Origin = Origin
    None = None
INVARIANTS HeldIsIndexed OwnRemovalKeepsAMethod CounterAcceptedOnce ChallengeUsedOnce
SYMMETRY Symmetry
CHECK_DEADLOCK FALSE
