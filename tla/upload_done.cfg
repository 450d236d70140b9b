SPECIFICATION Spec
CONSTANTS
    Chats = {c1}
    Workers = {w1, w2}
    MaxReceives = 3
    MaxPosts = 2
    MaxTaps <- DoneTaps
    MaxFailures = 1
    MaxReminders = 1
    SameSecond = FALSE
    SharedNames = FALSE
    SessionsExpire = FALSE
SYMMETRY WorkerSymmetry
CHECK_DEADLOCK FALSE
INVARIANTS
    TypeOK
    NoDoubleDispatch
    PageInv
PROPERTIES
    ImplementsLetterLife
