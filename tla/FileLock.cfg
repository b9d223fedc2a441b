SPECIFICATION MCSpec
CONSTANTS
    p1 = p1
    p2 = p2
    t1 = t1
    t2 = t2
    None = None
    Procs = {p1, p2}
    Callers = {t1, t2}
    ProcOf <- MCProcOf
    Inodes = {1, 2, 3, 4}
    MaxBegins = 3
    MaxEvents = 2
    MaxTotal = 4
INVARIANTS
    LockTypeOK
    ExclusiveUnlessBroken
    NoLeakedFlock
PROPERTIES
    IsLease
    LockReturns
CHECK_DEADLOCK FALSE
