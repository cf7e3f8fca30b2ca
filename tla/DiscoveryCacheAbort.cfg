\* Two callers of one deployment: one joins the other's probe.
CONSTANTS
    Callers = {c1, c2}
    Rejected = {}
    Nested = {}
    BaseURLs = {u1}
    Blank = {}
    Groups = {g1}
    Calls = {x1, x2}
    NotCached = NotCached
    NoCall = NoCall
    Nobody = Nobody
    ProvidersMayPanic = FALSE
SPECIFICATION Spec
INVARIANTS AbortIsTheCallersOwn
