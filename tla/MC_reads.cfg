SPECIFICATION ReadsSpec
CONSTANTS
    Callers = {c1, c2}
    One = c1
    Codes = {a, b}
    Clients <- MCClients
    FrameLimit = 2
    MaxPushes = 1
    MaxWire = 2
    MaxPages = 3
    SeqMod = 4
    FirstSeq = 2
    Total = 3
    PageSize = 1
    Need = 2
SYMMETRY SymCodes
INVARIANTS AnswerIsOwn PagesFollow EmptyIsHonest
CHECK_DEADLOCK FALSE
