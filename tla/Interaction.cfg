SPECIFICATION Spec
CONSTANTS
    Procs = {p1, p2}
    Users = {u1, u2}
    p1 = p1
    p2 = p2
    u1 = u1
    u2 = u2
    SkipConsent = FALSE
    InteractionTtl = 2
    REQUEST_URI_TTL_SECONDS = 1
    CHALLENGE_TTL_SECONDS = 1
    FEDERATION_LEG_TTL_SECONDS = 1
    TERMINAL_RETENTION_SECONDS = 1
    ATTEMPT_LIMIT = 2
    MaxClock = 3
    MaxLegs = 1
SYMMETRY Symmetry
CHECK_DEADLOCK FALSE
INVARIANTS IssuedOnce AttemptsLimited DeclineKeepsSession
PROPERTIES ImplementsAuthorization
VIEW View
