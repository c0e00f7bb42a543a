SPECIFICATION FairSpec
CONSTANTS
    Hosts = {h1, h2, h3}
    Requests = {r1, r2, r3}
    NumServers = 2
    Threaded = TRUE
    NestedLoop = FALSE
    WeakMemory = FALSE
    None = None
CHECK_DEADLOCK FALSE
INVARIANTS
    ChannelsAreRight
    RequestsAreRight
    RightAddress
PROPERTIES
    EventuallyAnswered
    ImplementsService
