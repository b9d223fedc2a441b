SPECIFICATION Spec
CONSTANTS
    None = None
    Procs = {p1, p2}
    Callers <- MCCallers
    Task <- MCTask
    Flow <- MCFlow
    Enrich <- MCEnrich
    TransientMax = 2
    MaxCalls = 2
    MaxEvents = 0
    MaxTotal = 3
    MaxAttempts = 2
    MaxSaves = 1
    MaxGen = 3
INVARIANTS
    NoDoubleSpend
SYMMETRY Symmetry
CHECK_DEADLOCK FALSE
