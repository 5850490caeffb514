\* Two threads in any of the operations, on a role of each way of opening.
CONSTANTS
    Threads = {t1, t2}
    Roles = {main, l2, kline}
    Kept = {main}
    Checked = {l2}
    Gated = {l2}
    Socks = {k1, k2}
    Conns = {m1, m2, m3}
    Ops <- AllOps
    None = None
SPECIFICATION Spec
CONSTRAINT Explored
SYMMETRY Interchangeable
INVARIANTS TypeOK OwnedIsOpen NothingLeaks
PROPERTY KeepsPromise
CHECK_DEADLOCK FALSE
