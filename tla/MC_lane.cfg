\* Three calls of any kind a managed connection offers, and for two of them
\* bundles of two requests and an unsolicited frame (Explored). Calls are made
\* once, so the system stops.
CONSTANTS
    Calls = {c1, c2, c3}
    Sessions = {managed}
    MaxBundle = 2
    MaxPushes = 1
    Nobody = Nobody
    Push = Push
    Kinds <- LaneKinds
    OwnsSocket = TRUE
SPECIFICATION Spec
CONSTRAINT Explored
SYMMETRY CallSymmetry
INVARIANTS TypeOK SoleReader PendingIsServed DetachedIsSettled
PROPERTIES NoStolenAnswer GatesIncrease
CHECK_DEADLOCK FALSE
