SPECIFICATION Spec
CONSTANTS
    Users = {u1}
    Crons = {}
    Wakes = {}
    MonitorWakes = {}
    Resumes = {r1}
    Summaries = {}
    Fallbacks = {f1}
    Notes = {}
    NextNotes = {}
    GoalTurnNotes = {}
    NoteCap = 2
    MaxVersion = 0
    MaxCancels = 1
    MaxReorders = 0
    GoalHarness = FALSE
    RewindAllowed = TRUE
    KillAllowed = TRUE
    ShutdownAllowed = TRUE
    Siblings = FALSE
    alice = alice
    bob = bob
    AliceRows = {}
    watched = w1
    other = other
    WatchedNotes = {}
    None = None
    TaskOf <- MCTaskOf
    OwnerOf <- MCOwnerOf
    Clients <- MCClients
INVARIANTS
    NoWedge
    NoOrphanTurn
    PinAgrees
    OneTerminal
    UserAccounted
    NoStrandedInterjection
PROPERTIES
    SpawnOnce
    IsService
