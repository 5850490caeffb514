CONSTANTS
    Callers = {c1, c2}
    Offered = {"depth_quote", "history_timeline", "intraday", "dxjl_page"}
    Says = {"yes"}
    MaxRetries = 1
SPECIFICATION Spec
SYMMETRY Symm
INVARIANTS GrantsEnd RolesAllowed RetryIsFresh
PROPERTIES LeaseHolds
