SPECIFICATION Spec
CONSTANTS
    Procs = {p1, p2}
    Users = {u1, u2}
    Gids = {g1, g2, g3}
    SystemGid = g1
    Names = {"admins", "a", "b"}
    PROPAGATION_LIMIT = 2
    Emails = {"e"}
    p1 = p1
    p2 = p2
    u1 = u1
    u2 = u2
    g1 = g1
    g2 = g2
    g3 = g3
    None = None
INVARIANTS  VerifiedEmailOnce
CHECK_DEADLOCK FALSE
SYMMETRY Symmetry
