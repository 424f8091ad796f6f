CONSTANTS
    Procs = {p1, p2}
    Sessions = {s1}
    Clients = {c1}
    None = None
    MAX_ATTEMPTS = 2
    MAX_RETRIES = 1
    BATCH_SIZE = 2
    ARCHIVE_GROUP_EVENTS = 4
    HOT_BUDGET = 3
SPECIFICATION Spec
INVARIANTS OneTokenPerClient FailedAfterAllAttempts AckedIsStored
PROPERTIES TokenSettles
CHECK_DEADLOCK FALSE
