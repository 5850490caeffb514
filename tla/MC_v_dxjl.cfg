SPECIFICATION RecoverySpec
CONSTANTS
    Loads = {{"dxjl", "break"}}
    Threads <- MCThreads
    Requests = {r1}
    Preheater = preheater
    Codes = {a}
    Viewers = {v1}
    Timers = {t1}
    LaneReaders = {lr}
    PushReader = pr
    Markets <- MCMarkets
    Collector = collecting
    Pagers = {x1}
    Listeners = {w1}
    MaxLosses = 1
    MaxPushes = 1
    MaxPages = 1
    MaxBreaks = 1
    TailRows = 1
    BufferSize = 1
    QueueSize = 1
PROPERTY Recovers
CHECK_DEADLOCK FALSE
