SPECIFICATION FairSpec
CONSTANTS
    Chats = {c1}
    Workers = {w1, w2}
    MaxReceives = 2
    MaxPosts = 1
    MaxTaps <- SaveTaps
    MaxFailures = 1
    MaxReminders = 1
    SameSecond = FALSE
    SharedNames = FALSE
    SessionsExpire = FALSE
CHECK_DEADLOCK FALSE
INVARIANTS
    SavedOncePerPdf
    PendingPdfStored
    LetterPdfIntact
    PreviewedPdfKept
    RemindersHaveLetter
    SaveFindsItsPdf
    NoBatchLost
    
PROPERTIES
    BatchSettles
    SessionSettles
    ImplementsLetterLife
