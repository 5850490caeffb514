CONSTANTS
    Callers = {c1, c2}
    Readers = {r1, r2}
    Topics = {t1}
    Sockets = {s1, s2}
    MaxWire = 1
    None = None
SPECIFICATION Spec
CONSTRAINT Explored
CHECK_DEADLOCK FALSE
SYMMETRY Symm
INVARIANTS WantedIsServed KnownIsLocal
PROPERTIES NoCloseUnderLock
