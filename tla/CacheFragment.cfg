SPECIFICATION Spec
CONSTANTS
    None = None
    Windows = {w1}
    Urls = {p, q}
    Files = {}
    RedirectLimit = 2
    MaxOpens = 2
    Fragments = TRUE
CHECK_DEADLOCK FALSE
INVARIANTS
    NoFreedEntry
