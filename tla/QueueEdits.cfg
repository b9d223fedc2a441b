SPECIFICATION Spec
CONSTANTS
    Users = {u1,u2}
    Crons = {}
    Wakes = {}
    MonitorWakes = {}
    Resumes = {}
    Summaries = {g1}
    Fallbacks = {}
    Notes = {}
    NextNotes = {}
    GoalTurnNotes = {}
    NoteCap = 2
    MaxVersion = 1
    MaxCancels = 0
    MaxReorders = 1
    GoalHarness = FALSE
    RewindAllowed = FALSE
    KillAllowed = FALSE
    ShutdownAllowed = FALSE
    Siblings = FALSE
    alice = alice
    bob = bob
    AliceRows = {u1}
    watched = w1
    other = other
    WatchedNotes = {}
    None = None
    TaskOf <- MCTaskOf
    OwnerOf <- MCOwnerOf
    Clients <- MCClients
INVARIANTS
    TypeOK
    AnswerIsTrue
    RunningIsFront
    UserAccounted
    WireFresh
