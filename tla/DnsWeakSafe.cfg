SPECIFICATION Spec
CONSTANTS
    Hosts = {h1, h2, h3}
    Requests = {r1, r2, r3, r4}
    NumServers = 1
    Threaded = TRUE
    NestedLoop = FALSE
    WeakMemory = TRUE
    None = None
SYMMETRY Symmetry
CHECK_DEADLOCK FALSE
PROPERTIES
    QueueIsFair
