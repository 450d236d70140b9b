SPECIFICATION Spec
CONSTANTS
    Chats = {c1, c2}
    Workers = {w1, w2}
    MaxReceives = 3
    MaxPosts = 1
    MaxTaps <- ChatTaps
    MaxFailures = 1
    MaxReminders = 0
    SameSecond = FALSE
    SharedNames = FALSE
    SessionsExpire = FALSE
SYMMETRY WorkerSymmetry
CHECK_DEADLOCK FALSE
INVARIANTS
    TenantsApart
