\* Two calls on two deployments, each with or without discovery and the
\* extension, with any combination of the two options; the
\* credential of one caller is not accepted, the provider of the other may fail with a
\* 404 of its own, and one deployment may answer without a body.  Every call returns, then nothing happens.
CONSTANTS
    Callers = {c1, c2}
    Rejected = {c2}
    Nested = {c1}
    BaseURLs = {u1, u2}
    Blank = {u2}
    Groups = {"cloud"}
    NotCached = NotCached
    Kinds <- MCKinds
SPECIFICATION Spec
INVARIANTS TypeOK NothingIsSentUnserved OptionsServeTheCall
CHECK_DEADLOCK FALSE
