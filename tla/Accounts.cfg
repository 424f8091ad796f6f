SPECIFICATION Spec
CONSTANTS
    Procs = {p1, p2}
    Uids = {1, 2}
    Pairs = {"x"}
    Invs = {"i1", "i2"}
    p1 = p1
    p2 = p2
    None = None
INVARIANTS InvitationYieldsOneAccount VisibleUserHasObject BootstrapOnce PairHeldOnce
PROPERTY TransientSettles
CHECK_DEADLOCK FALSE
