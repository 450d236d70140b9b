SPECIFICATION FairSpec
CONSTANTS
    Workers = {w1, w2}
    MaxReceives = 2
    MaxFailures = 1
    Chats = {c1}
    Letters = {l1}
    Owner <- OneOwner
    Received <- SomeOrder
    IndexOrder <- SomeOrder
    Slug <- OneOrganization
    Year <- OneYear
    SlugBytes <- ShortSlug
    PageLimit = 3
    StaleReads = TRUE
    QueryLimit = 1
    ReminderKinds = {k1}
    MaxTaps <- ReminderTaps
    MaxSends = 2
CHECK_DEADLOCK FALSE
INVARIANTS
    TypeOK
    CancelledIsUnscheduled
    PressesTakeEffect
PROPERTIES
    DeleteSettles
    
    
