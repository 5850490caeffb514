SPECIFICATION Spec
CONSTANTS
    Loads <- MCLoads
    Threads <- MCThreads
    Requests = {r1, r2}
    Preheater = preheater
    Codes = {a}
    Viewers = {v1, v2}
    Timers = {t1, t2}
    LaneReaders = {lr}
    PushReader = pr
    Markets <- MCMarkets
    Collector = collecting
    Pagers = {x1}
    Listeners = {w1}
    MaxLosses = 1
    MaxPushes = 2
    MaxPages = 1
    MaxBreaks = 1
    TailRows = 1
    BufferSize = 2
    QueueSize = 1
INVARIANTS SecondChance WatchedIsActive IdleIsReleased PushesKept NoGap
CHECK_DEADLOCK FALSE
