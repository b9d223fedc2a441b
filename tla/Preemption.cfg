SPECIFICATION Spec
CONSTANTS
    Users = {u1,u2}
    Crons = {}
    Wakes = {w1}
    MonitorWakes = {}
    Resumes = {}
    Summaries = {}
    Fallbacks = {}
    Notes = {}
    NextNotes = {}
    GoalTurnNotes = {}
    NoteCap = 2
    MaxVersion = 0
    MaxCancels = 0
    MaxReorders = 0
    GoalHarness = TRUE
    RewindAllowed = FALSE
    KillAllowed = FALSE
    ShutdownAllowed = FALSE
    Siblings = FALSE
    alice = alice
    bob = bob
    AliceRows = {u1}
    watched = w1
    other = other
    WatchedNotes = {}
    None = None
    TaskOf <- MCTaskOf
    OwnerOf <- MCOwnerOf
    Clients <- MCClients
INVARIANTS
    SendNowFirst
    UserBeforeWake
    QueueIsServed
PROPERTIES
    IsService
