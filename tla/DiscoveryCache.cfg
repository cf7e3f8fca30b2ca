\* Two callers of two deployments, one of them with a credential that neither
\* accepts, the other with a provider that may fail with a 404 of its own; one
\* deployment may answer without a body.  A leader, a waiter on its call, and, as each
\* calls again and again, a latecomer.  A fetch may panic and be
\* recovered by its caller's frame: when all callers then wait, the system stops.
\* Calls bounds the heap: with orphaned calls about, an allocation may have to wait
\* for a waiter to drop its call.
CONSTANTS
    Callers = {c1, c2}
    Rejected = {c2}
    Nested = {c1}
    BaseURLs = {u1, u2}
    Blank = {u2}
    Groups = {g1}
    Calls = {x1, x2}
    NotCached = NotCached
    NoCall = NoCall
    Nobody = Nobody
    ProvidersMayPanic = TRUE
SPECIFICATION FairSpec
CHECK_DEADLOCK FALSE
INVARIANTS TypeOK OneProbe FailureIsNotRemembered
PROPERTIES VerdictIsTrue ClosedCallIsFrozen ImplementsGate EveryCallReturnsUnlessStranded
