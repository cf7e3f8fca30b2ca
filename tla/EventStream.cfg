\* Every body of up to four lines: two whole frames, or one and the start of another.
CONSTANT MaxLines = 4
SPECIFICATION FairSpec
INVARIANTS TypeOK ItemsAreTheFrames CleanEndIsComplete
PROPERTIES CancelReleasesNext
CHECK_DEADLOCK FALSE
