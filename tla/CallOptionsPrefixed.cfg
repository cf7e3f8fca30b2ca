\* Two walks of three pages with any parameters out of three, over any defaults,
\* from a slice with no room behind it, on a scoped client.
CONSTANTS
    Callers = {c1, c2}
    Filters = {"limit", "status"}
    SpareCapacity = 0
    Prefixed = TRUE
    MaxPages = 3
SPECIFICATION Spec
INVARIANTS EveryPageIsOfTheList
CHECK_DEADLOCK FALSE
