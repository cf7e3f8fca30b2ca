\* Two walks of three pages with any parameters out of three, over any defaults,
\* from a slice with room for one option behind it.
CONSTANTS
    Callers = {c1, c2}
    Filters = {"limit", "status"}
    SpareCapacity = 1
    Prefixed = FALSE
    MaxPages = 3
SPECIFICATION Spec
INVARIANTS EveryPageHasItsOwnParameters
CHECK_DEADLOCK FALSE
