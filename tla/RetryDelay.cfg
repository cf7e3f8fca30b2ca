\* Durations of eight bits (at most 127 ticks); two ticks to the millisecond, four to the second, a
\* cap of eight seconds.  The numbers straddle the cap and the overflow in either
\* unit, and the backoff overflows at the seventh retry (the 35th in 64 bits).
CONSTANTS
    MaxInt = 127
    Millisecond = 2
    Second = 4
    InitialRetryDelay = 2
    MaxRetryDelay = 32
    Retries = 9
    HeaderNumbers = {0, 1, 2, 3, 5, 15, 16, 17, 31, 32, 33, 63, 64, 65, 127, 128, 129, 255, 256, 257, 300}
    HeaderDates = {0, 1, 31, 32, 33, 127}
SPECIFICATION DelaySpec
INVARIANTS DelayTypeOK DelayIsBounded WaitIsDue
CHECK_DEADLOCK FALSE
