SPECIFICATION Spec
CONSTANTS
    Ids = {1, 2, 3}
    None = None
    MaxLimit = 2
    CURSOR_TTL_SECONDS = 2
    Retention = 1
    Lag = 1
    MaxTime = 2
    MaxChanges = 2
INVARIANTS WalkIsComplete
 
