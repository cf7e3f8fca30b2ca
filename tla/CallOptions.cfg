\* Two walks of three pages with any parameters out of three, over any defaults,
\* from a slice with no room behind it.
CONSTANTS
    Callers = {c1, c2}
    Filters = {"limit", "status"}
    SpareCapacity = 0
    Prefixed = FALSE
    MaxPages = 3
SPECIFICATION Spec
INVARIANTS TypeOK EveryPageHasItsOwnParameters EveryPageIsTheNext
CHECK_DEADLOCK FALSE
