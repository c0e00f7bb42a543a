SPECIFICATION Spec
CONSTANTS
    Hosts = {h1}
    Socks = {s1, s2}
    MaxConns = 1
    SharedEntries = TRUE
    NestedLoop = FALSE
    FreedLinkIntact = TRUE
    None = None
CHECK_DEADLOCK FALSE
INVARIANTS
    NothingForgotten
