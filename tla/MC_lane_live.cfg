\* Two calls of any kind, with the push reader: every wait ends.
CONSTANTS
    Calls = {c1, c2}
    Sessions = {managed}
    MaxBundle = 1
    MaxPushes = 0
    Nobody = Nobody
    Push = Push
    Kinds <- AllKinds
    OwnsSocket = TRUE
SPECIFICATION FairSpec
PROPERTIES CallsEnd FuturesSettle
CHECK_DEADLOCK FALSE
