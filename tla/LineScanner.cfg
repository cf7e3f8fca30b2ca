\* Every body of up to six bytes in every division into chunks, with a buffer
\* that a line of four bytes fills.
CONSTANTS
    MaxBytes = 6
    MaxLineLength = 4
SPECIFICATION FairSpec
INVARIANTS TypeOK EveryTokenIsALine OutcomeIsTrue
PROPERTIES NothingSettledWaits ScanEnds
CHECK_DEADLOCK FALSE
