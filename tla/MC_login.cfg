CONSTANTS
    Callers = {c1, c2}
    Hosts = {h1, h2}
    Racing = 2
    CloseLimit = 2
    MinusLimit = 1
    Sockets = {s1, s2, s3}
    None = None
SPECIFICATION Spec
CONSTRAINT Explored
CHECK_DEADLOCK FALSE
SYMMETRY Symm
INVARIANTS MainIsUsable HeartbeatAfterInit TimeIsKnown
