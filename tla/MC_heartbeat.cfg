CONSTANTS
    Lanes = {l1}
    Sockets = {s1, s2}
    Probes = {p1, p2}
    Loops = {h1}
    Threshold = 2
    None = None
SPECIFICATION FairSpec
CHECK_DEADLOCK FALSE
INVARIANTS StateIsEarned UnresponsiveIsDead
PROPERTIES MissIsOwn UnresponsiveSticks PendingResolves
