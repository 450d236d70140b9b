SPECIFICATION Spec
CONSTANTS
    Workers = {w1, w2}
    MaxReceives = 3
    MaxFailures = 1
    Chats = {c1}
    Letters = {l1, l2, l3, l4}
    Owner <- OneOwner
    Received <- SomeOrder
    IndexOrder <- SomeOrder
    Slug <- TwoOrganizations
    Year <- TwoAndOne
    SlugBytes <- LongSlug
    PageLimit = 4
    StaleReads = TRUE
    QueryLimit = 2
    ReminderKinds = {}
    MaxTaps <- DeleteTaps
    MaxSends = 1
SYMMETRY WorkerSymmetry
CHECK_DEADLOCK FALSE
INVARIANTS
    
    
    
    
    EveryLetterReachable
    NoDeadEnds
