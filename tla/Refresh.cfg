SPECIFICATION Spec
CONSTANTS
    None = None
    Procs = {p1, p2}
    Callers <- MCCallers
    Task <- MCTask
    Flow <- MCFlow
    Enrich <- MCEnrich
    TransientMax = 2
    MaxCalls = 3
    MaxEvents = 2
    MaxTotal = 4
    MaxAttempts = 2
    MaxSaves = 1
    MaxGen = 3
INVARIANTS
    TypeOK
    ReuseExcused
    BlockedOnlyIfDead
    DeadNotResent
    NoStraddle
    IdleIsClean
SYMMETRY Symmetry
CHECK_DEADLOCK FALSE
