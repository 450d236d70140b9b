SPECIFICATION Spec
CONSTANTS
    Workers = {w1, w2}
    MaxReceives = 3
    MaxFailures = 1
    Chats = {c1}
    Letters = {l1}
    Owner <- OneOwner
    Received <- SomeOrder
    IndexOrder <- SomeOrder
    Slug <- OneOrganization
    Year <- OneYear
    SlugBytes <- ShortSlug
    PageLimit = 3
    StaleReads = FALSE
    QueryLimit = 2
    ReminderKinds = {}
    MaxTaps <- SettleTaps
    MaxSends = 1
SYMMETRY WorkerSymmetry
CHECK_DEADLOCK FALSE
INVARIANTS
    DeleteCanBeRepeated
