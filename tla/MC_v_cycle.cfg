\* acquire() beside the retry path of _drop_connection(), on MAIN.
CONSTANTS
    Threads = {t1, t2}
    Roles = {main}
    Kept = {main}
    Checked = {}
    Gated = {}
    Socks = {k1, k2}
    Conns = {m1, m2}
    Ops <- RetryOps
    None = None
SPECIFICATION Spec
INVARIANT NoCircularWait
CHECK_DEADLOCK FALSE
