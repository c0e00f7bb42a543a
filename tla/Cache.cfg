SPECIFICATION FairSpec
CONSTANTS
    None = None
    Windows = {w1, w2}
    Urls = {p, q, f}
    Files = {f}
    RedirectLimit = 2
    MaxOpens = 2
    Fragments = FALSE
CHECK_DEADLOCK FALSE
INVARIANTS
    
    OnlyLostForgotten
PROPERTIES
    EventuallyServed
