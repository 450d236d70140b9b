SPECIFICATION Spec
CONSTANTS
    Workers = {w1, w2}
    MaxReceives = 3
    MaxFailures = 0
    Chats = {c1}
    Letters = {l1, l2}
    Owner <- OneOwner
    Received <- SomeOrder
    IndexOrder <- SomeOrder
    Slug <- OneOrganization
    Year <- OneYear
    SlugBytes <- ShortSlug
    PageLimit = 3
    StaleReads = FALSE
    QueryLimit = 1
    ReminderKinds = {k1}
    MaxTaps <- ListTaps
    MaxSends = 3
SYMMETRY WorkerSymmetry
CHECK_DEADLOCK FALSE
PROPERTIES
    EmptyListIsTrue
