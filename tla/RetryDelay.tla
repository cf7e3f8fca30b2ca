----------------------------- MODULE RetryDelay -----------------------------
(***************************************************************************)
(* retryDelay and capDelay (internal/requestconfig): how long Do waits     *)
(* before each of its retries, from the headers of the response it got, if *)
(* it got one, and from the number of the attempt.                         *)
(*                                                                         *)
(* A duration is a signed integer, at most MaxInt, counted in ticks.  A    *)
(* number in a header is a float: it is given in halves, so that it may    *)
(* have a fraction and may exceed what a duration holds.                   *)
(*                                                                         *)
(* The definitions that every module has, DelaySpec and others, say whose  *)
(* they are, so that a module may extend this one and RequestPipeline.     *)
(***************************************************************************)
EXTENDS Integers

CONSTANTS
    MaxInt,             \* the largest time.Duration, in ticks: 2^63 - 1
    Millisecond,        \* ticks: 10^6
    Second,             \* ticks: 10^9
    InitialRetryDelay,  \* ticks: half a second
    MaxRetryDelay,      \* ticks: eight seconds
    Retries,            \* RequestConfig.MaxRetries; any number from WithMaxRetries
    HeaderNumbers,      \* the numbers a header may hold, in halves
    HeaderDates         \* the dates, as ticks ahead of the clock

ASSUME RetryDelayAssumption ==
    /\ {MaxInt, Millisecond, Second, InitialRetryDelay} \subseteq Nat \ {0}
    /\ {MaxRetryDelay, Retries} \subseteq Nat
    /\ HeaderNumbers \subseteq Nat
    /\ HeaderDates \subseteq Nat

VARIABLES
    failures, \* the loop variable of Do: the attempt under way, or just failed
    waiting,  \* is Do asleep before the next attempt?
    headers,  \* what the failed response says; NoHeaders if there was none
    delay     \* what retryDelay returned

delayVars == <<failures, waiting, headers, delay>>

MinInt == -MaxInt - 1

\* Integer arithmetic wraps.
Wrap(x) == ((x - MinInt) % (2 * MaxInt + 2)) + MinInt

TwoToThe[n \in Nat] == IF n = 0 THEN 1 ELSE 2 * TwoToThe[n - 1]

\* Converting a float a duration cannot hold is left to the implementation: amd64
\* yields the least integer, arm64 saturates.
ToDuration(x) == IF x <= MaxInt THEN {x} ELSE {MinInt, MaxInt}

\* A retry-after header is absent, a number, or something else ("junk": not a
\* number, negative, NaN); Retry-After may also be a date, given by how far ahead
\* of the clock it is (-1 is in the past).
Numbers    == [kind : {"number"}, halves : HeaderNumbers]
Dates      == [kind : {"date"}, ahead : {-1} \cup HeaderDates]
Unusable   == [kind : {"absent", "junk"}]
Headers    == [ms : Numbers \cup Unusable, after : Numbers \cup Dates \cup Unusable]
Nothing    == [kind |-> "absent"]
NoHeaders == [ms |-> Nothing, after |-> Nothing]

DelayTypeOK ==
    /\ failures \in 0..Retries
    /\ waiting \in BOOLEAN
    /\ headers \in Headers
    /\ delay \in Int

-----------------------------------------------------------------------------

\* Mutant of CapDelay: only the upper bound is looked at.
CapDelayAbove(d) == IF d > MaxRetryDelay THEN MaxRetryDelay ELSE d

CapDelay(d) ==
    IF d > MaxRetryDelay THEN MaxRetryDelay ELSE IF d < 0 THEN 0 ELSE d

\* retry-after-ms is converted first and multiplied after, in integers.
FromMilliseconds(halves) == { Wrap(d * Millisecond) : d \in ToDuration(halves \div 2) }

\* Mutant of FromSeconds: converted first and multiplied after.
FromWholeSeconds(halves) == { Wrap(d * Second) : d \in ToDuration(halves \div 2) }

\* Retry-After is multiplied first, in floats, and converted after.
FromSeconds(halves) == ToDuration((halves * Second) \div 2)

\* Mutant of Backoff: doubled once too often.
BackoffOffByOne(n) ==
    LET b == InitialRetryDelay * TwoToThe[n + 1] IN
      UNION { ToDuration(x) : x \in ((3 * b) \div 4)..b }

\* The exponential backoff, less up to a quarter of it.
Backoff(n) ==
    LET b == InitialRetryDelay * TwoToThe[n] IN
      UNION { ToDuration(x) : x \in ((3 * b) \div 4)..b }

\* retryDelay.
RetryDelay(h, n) ==
    CASE h.ms.kind = "number" ->
           { CapDelay(d) : d \in FromMilliseconds(h.ms.halves) }
      [] h.ms.kind # "number" /\ h.after.kind = "number" ->
           { CapDelay(d) : d \in FromSeconds(h.after.halves) }
      [] h.ms.kind # "number" /\ h.after.kind = "date" ->
           { IF h.after.ahead > 0 THEN CapDelay(h.after.ahead) ELSE 0 }
      [] OTHER ->
           { CapDelay(d) : d \in Backoff(n) }

DelayInit ==
    /\ failures = 0
    /\ waiting = FALSE
    /\ headers = NoHeaders
    /\ delay = 0

\* Mutant of Wait: the last attempt is retried too.
WaitAfterLast ==
    /\ ~waiting
    /\ failures <= Retries
    /\ waiting' = TRUE
    /\ headers' \in Headers
    /\ delay' \in RetryDelay(headers', failures)
    /\ failures' = failures

\* An attempt fails and there is another to come: Do asks how long to wait.
Wait ==
    /\ ~waiting
    /\ failures < Retries
    /\ waiting' = TRUE
    /\ headers' \in Headers
    /\ delay' \in RetryDelay(headers', failures)
    /\ failures' = failures

WaitEnds ==
    /\ waiting
    /\ waiting' = FALSE
    /\ failures' = failures + 1
    /\ headers' = NoHeaders
    /\ delay' = 0

DelayNext == Wait \/ WaitEnds

DelaySpec == DelayInit /\ [][DelayNext]_delayVars

-----------------------------------------------------------------------------

\* What the server asked for, in halves of a tick; -1 if it asked for nothing.
Asked ==
    CASE headers.ms.kind = "number" -> headers.ms.halves * Millisecond
      [] headers.ms.kind # "number" /\ headers.after.kind = "number" ->
           headers.after.halves * Second
      [] headers.ms.kind # "number" /\ headers.after.kind = "date" ->
           2 * (IF headers.after.ahead > 0 THEN headers.after.ahead ELSE 0)
      [] OTHER -> -1

Representable(halves) == halves <= 2 * MaxInt

\* No header and no number of attempts makes Do sleep longer than the cap, or for
\* a negative time: not a fraction, not a number beyond a duration, not a date in
\* the past.
DelayIsBounded == delay \in 0..MaxRetryDelay

AskIsGranted ==
    \/ delay = MaxRetryDelay /\ Asked >= 2 * MaxRetryDelay
    \/ Asked - 2 * delay \in 0..(2 * Millisecond - 1)

Doubled == InitialRetryDelay * TwoToThe[failures]

\* The wait is the one that is due.  If the server asked for one that a duration
\* can hold, it is that, to within the unit it was asked in, or the cap: truncation,
\* unit and precedence of the two headers.  If it did not, the wait doubles from
\* attempt to attempt up to the cap, less a quarter of jitter, while that fits.
WaitIsDue ==
    waiting =>
      /\ Asked >= 0 /\ Representable(Asked) => AskIsGranted
      /\ Asked = -1 /\ Doubled <= MaxInt => delay \in CapDelay((3 * Doubled) \div 4)..Doubled

-----------------------------------------------------------------------------
(* Said of this code in the repository and not so (README, Disagreements);  *)
(* no passing run checks it.                                                *)

\* requestconfig.go:519 and README.md:88-89: a server that says how long to wait
\* is obeyed, to within the unit of its answer.
ServerIsObeyed == waiting => 2 * delay > Asked - 2 * Millisecond

\* requestconfig.go:542-543: an exponential backoff, so that clients of one failed
\* deployment do not become a thundering herd.
BackoffNeverCollapses ==
    waiting /\ Asked = -1 => delay >= CapDelay((3 * InitialRetryDelay * TwoToThe[failures]) \div 4)
=============================================================================
