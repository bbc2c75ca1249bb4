CONSTANTS
    Threads = {t1, t2, t3}
    Ids = {p1, p2}
    NoId = NoId
    NoRec = NoRec
    IdReuse = FALSE
SPECIFICATION FairSpec
INVARIANTS TypeOK StackOwned NoDanglingRecord QueueExact NoLeak
PROPERTY Reclaimed
CHECK_DEADLOCK FALSE
