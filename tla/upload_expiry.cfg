SPECIFICATION Spec
CONSTANTS
    Chats = {c1}
    Workers = {w1, w2}
    MaxReceives = 3
    MaxPosts = 2
    MaxTaps <- CollisionTaps
    MaxFailures = 0
    MaxReminders = 0
    SameSecond = TRUE
    SharedNames = TRUE
    SessionsExpire = TRUE
SYMMETRY WorkerSymmetry
CHECK_DEADLOCK FALSE
INVARIANTS
    LetterHasFile
    SealedPagesSent
    NoEmptyLetter
    WholeLetters
