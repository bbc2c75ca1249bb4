CONSTANTS
    Threads = {t1, t2}
    Ids = {p1, p2}
    NoId = NoId
    NoRec = NoRec
    IdReuse = TRUE
SPECIFICATION Spec
INVARIANT StackOwned
CHECK_DEADLOCK FALSE
