SPECIFICATION Spec
CONSTANTS
    Users = {u1}
    Crons = {}
    Wakes = {w1}
    MonitorWakes = {w1}
    Resumes = {}
    Summaries = {}
    Fallbacks = {}
    Notes = {n1,n2}
    NextNotes = {n1,n2}
    GoalTurnNotes = {n2}
    NoteCap = 1
    MaxVersion = 0
    MaxCancels = 0
    MaxReorders = 0
    GoalHarness = FALSE
    RewindAllowed = FALSE
    KillAllowed = FALSE
    ShutdownAllowed = FALSE
    Siblings = TRUE
    alice = alice
    bob = bob
    AliceRows = {}
    watched = w1
    other = other
    WatchedNotes = {n1}
    None = None
    TaskOf <- MCTaskOf
    OwnerOf <- MCOwnerOf
    Clients <- MCClients
INVARIANTS
    IdleHoldsNothing
    QueueInv
    DepthBounded
