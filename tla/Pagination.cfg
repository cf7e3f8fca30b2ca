\* Both dialects, both directions, from every query, over lists of
\* up to four items read two at a time, with two changes during the walk.
CONSTANTS
    N = 4
    PageSize = 2
    Churn = 2
SPECIFICATION FairSpec
INVARIANTS TypeOK NoItemTwice CleanEndIsComplete
PROPERTIES WalkEnds ImplementsPageWalk
CHECK_DEADLOCK FALSE
