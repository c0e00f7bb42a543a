SPECIFICATION FairSpec
CONSTANTS
    Hosts = {h1, h2}
    Socks = {s1, s2, s3}
    MaxConns = 1
    SharedEntries = TRUE
    NestedLoop = FALSE
    FreedLinkIntact = TRUE
    None = None
CHECK_DEADLOCK FALSE
INVARIANTS
    PoolIsRight
PROPERTIES
    EventuallyClosed
    ImplementsHttpService
