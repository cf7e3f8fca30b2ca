--------------------------- MODULE DiscoveryCache ---------------------------
(***************************************************************************)
(* The extension gate of cloudgate.go.  Every cloud, policy and pricing    *)
(* call first asks ensureExtensionAvailable whether the deployment at its  *)
(* effective base URL serves the extension group it needs.  The answer     *)
(* comes from a cache shared by every clone of a client; concurrent        *)
(* callers that miss share one GET /apis (discoveryCall).                  *)
(*                                                                         *)
(* A caller is a goroutine inside ensureExtensionAvailable.  The mutex and *)
(* both critical sections of resolve are explicit, and so are the points   *)
(* between them: fetch runs, and waiters wait, with the mutex released.    *)
(***************************************************************************)
CONSTANTS
    Callers,           \* goroutines making gated calls
    BaseURLs,          \* effective base URLs, the keys of the cache
    Groups,            \* extension groups a deployment may advertise
    Calls,             \* heap of discoveryCall objects
    NotCached,         \* a key absent from the map groups
    NoCall,            \* a key absent from inFlight; a nil *discoveryCall
    Nobody,            \* the mutex is free
    Rejected,          \* callers whose credential no deployment accepts (401)
    Nested,            \* callers whose credential provider or transport uses this SDK
    Blank,             \* deployments that may answer GET /apis 2xx without a body
    ProvidersMayPanic  \* may the fetch unwind through resolve by a panic?

ASSUME SentinelsAreFresh ==
    /\ \A S \in SUBSET Groups : S # NotCached
    /\ NoCall \notin Calls
    /\ Nobody \notin Callers
    /\ Rejected \subseteq Callers
    /\ Nested \subseteq Callers
    /\ Blank \subseteq BaseURLs
    /\ ProvidersMayPanic \in BOOLEAN

VARIABLES
    served,     \* what each deployment answers to GET /apis
    mu,         \* discoveryCache.mu: its holder
    groups,     \* discoveryCache.groups
    inFlight,   \* discoveryCache.inFlight
    done,       \* discoveryCall.done: has the channel been closed?
    result,     \* discoveryCall.groups and discoveryCall.err
    pc,         \* where each caller is
    at, want,   \* each caller's baseURL and group
    call,       \* the *discoveryCall each caller holds
    cancelled,  \* is the caller's context cancelled?
    outcome     \* what ensureExtensionAvailable returned

cacheVars == <<mu, groups, inFlight>>
callVars  == <<done, result>>
vars == <<served, mu, groups, inFlight, done, result, pc, at, want, call,
          cancelled, outcome>>

Errors   == {"nil", "notFound", "rejected", "aborted", "failed"}
Outcomes == {"none", "allowed", "unavailable", "rejected", "aborted", "failed"}
Steps    == {"idle", "lock", "lookup", "waiting", "fetching", "relock",
             "publish", "close", "returned"}

\* A deployment that predates discovery has no /apis at all.
Deployment == [discovery : BOOLEAN, groups : SUBSET Groups]

\* The two fields of a discoveryCall, and on whose behalf the probe was sent: a
\* history that no action looks at.
Result     == [groups : SUBSET Groups, err : Errors, by : Callers \cup {Nobody}]
NoResult   == [groups |-> {}, err |-> "nil", by |-> Nobody]

TypeOK ==
    /\ served \in [BaseURLs -> Deployment]
    /\ mu \in Callers \cup {Nobody}
    /\ groups \in [BaseURLs -> {NotCached} \cup SUBSET Groups]
    /\ inFlight \in [BaseURLs -> Calls \cup {NoCall}]
    /\ done \in [Calls -> BOOLEAN]
    /\ result \in [Calls -> Result]
    /\ pc \in [Callers -> Steps]
    /\ at \in [Callers -> BaseURLs]
    /\ want \in [Callers -> Groups]
    /\ call \in [Callers -> Calls \cup {NoCall}]
    /\ cancelled \in [Callers -> BOOLEAN]
    /\ outcome \in [Callers -> Outcomes]

-----------------------------------------------------------------------------
(* What the gate makes of a discovery result: the tail of                  *)
(* ensureExtensionAvailable, with HasGroup.                                *)

\* Mutant of Verdict: a 404 is handed on as the error it came as.
VerdictNotFoundAsIs(r, g) ==
    CASE r.err # "nil"                    -> r.err
      [] r.err = "nil" /\ g \in r.groups  -> "allowed"
      [] OTHER                            -> "unavailable"

Verdict(r, g) ==
    CASE r.err \in {"rejected", "aborted", "failed"} -> r.err
      [] r.err = "nil" /\ g \in r.groups             -> "allowed"
      [] OTHER                                       -> "unavailable"

\* What GET /apis, sent on behalf of caller c, may come back with.  The
\* request carries c's credential and context, so only c's own credential is
\* rejected and only c's own cancellation aborts it.  A 2xx without a body is no
\* error to doJSON, and leaves the list empty.  "notFound" is a NotFoundError
\* anywhere in the chain of the error: the deployment's own 404, or one that c's
\* credential provider met elsewhere (Resolve wraps it) or c's transport did
\* (FromTransport wraps it).
ProbeResults(c) ==
    LET d == served[at[c]] IN
      { r \in [groups : SUBSET Groups, err : Errors, by : {c}] :
          \/ r.err = "nil"      /\ c \notin Rejected /\ d.discovery /\ r.groups = d.groups
          \/ r.err = "nil"      /\ c \notin Rejected /\ at[c] \in Blank /\ r.groups = {}
          \/ r.err = "notFound" /\ (~d.discovery \/ c \in Nested) /\ r.groups = {}
          \/ r.err = "rejected" /\ c \in Rejected /\ r.groups = {}
          \/ r.err = "aborted"  /\ cancelled[c] /\ r.groups = {}
          \/ r.err = "failed"   /\ r.groups = {} }

-----------------------------------------------------------------------------

Init ==
    /\ served \in { s \in [BaseURLs -> Deployment] :
                      \A u \in BaseURLs : ~s[u].discovery => s[u].groups = {} }
    /\ mu = Nobody
    /\ groups = [u \in BaseURLs |-> NotCached]
    /\ inFlight = [u \in BaseURLs |-> NoCall]
    /\ done = [x \in Calls |-> FALSE]
    /\ result = [x \in Calls |-> NoResult]
    /\ pc = [c \in Callers |-> "idle"]
    /\ at \in [Callers -> BaseURLs]
    /\ want \in [Callers -> Groups]
    /\ call = [c \in Callers |-> NoCall]
    /\ cancelled = [c \in Callers |-> FALSE]
    /\ outcome = [c \in Callers |-> "none"]

Goto(c, from, to) == pc[c] = from /\ pc' = [pc EXCEPT ![c] = to]

\* A caller makes one gated call after another, each with its own context.
\* ensureExtensionAvailable resolves the call's options: the effective base URL
\* is the key.
Ask(c, u, g) ==
    /\ pc[c] \in {"idle", "returned"}
    /\ pc' = [pc EXCEPT ![c] = "lock"]
    /\ at' = [at EXCEPT ![c] = u]
    /\ want' = [want EXCEPT ![c] = g]
    /\ cancelled' = [cancelled EXCEPT ![c] = FALSE]
    /\ outcome' = [outcome EXCEPT ![c] = "none"]
    /\ UNCHANGED <<served, cacheVars, callVars, call>>

\* An option that does not apply fails the call before the cache is touched.
RejectOptions(c) ==
    /\ pc[c] \in {"idle", "returned"}
    /\ pc' = [pc EXCEPT ![c] = "returned"]
    /\ cancelled' = [cancelled EXCEPT ![c] = FALSE]
    /\ outcome' = [outcome EXCEPT ![c] = "failed"]
    /\ UNCHANGED <<served, cacheVars, callVars, at, want, call>>

\* The caller cancels its context, at any time.
Cancel(c) ==
    /\ pc[c] \notin {"idle", "returned"}
    /\ ~cancelled[c]
    /\ cancelled' = [cancelled EXCEPT ![c] = TRUE]
    /\ UNCHANGED <<served, cacheVars, callVars, pc, at, want, call, outcome>>

Lock(c) ==
    /\ mu = Nobody
    /\ mu' = c
    /\ \/ Goto(c, "lock", "lookup")
       \/ Goto(c, "relock", "publish")
    /\ UNCHANGED <<served, groups, inFlight, callVars, at, want, call,
                   cancelled, outcome>>

\* resolve, first critical section: a cached list is returned.
Hit(c) ==
    LET u == at[c] IN
      /\ groups[u] # NotCached
      /\ Goto(c, "lookup", "returned")
      /\ mu' = Nobody
      /\ outcome' = [outcome EXCEPT ![c] =
                       Verdict([groups |-> groups[u], err |-> "nil"], want[c])]
      /\ UNCHANGED <<served, groups, inFlight, callVars, at, want, call,
                     cancelled>>

\* resolve, first critical section: somebody is already asking.
Join(c) ==
    LET u == at[c] IN
      /\ groups[u] = NotCached
      /\ inFlight[u] # NoCall
      /\ Goto(c, "lookup", "waiting")
      /\ mu' = Nobody
      /\ call' = [call EXCEPT ![c] = inFlight[u]]
      /\ UNCHANGED <<served, groups, inFlight, callVars, at, want, cancelled,
                     outcome>>

\* Memory nobody refers to any more may be allocated again.
Unreferenced(x) ==
    /\ \A u \in BaseURLs : inFlight[u] # x
    /\ \A c \in Callers : call[c] # x

\* Mutants of Lead: a call that is no longer in flight is used again, whoever may
\* still hold it; nobody looks whether a call is in flight.
LeadRecycles(c) ==
    LET u == at[c] IN
      /\ groups[u] = NotCached
      /\ inFlight[u] = NoCall
      /\ Goto(c, "lookup", "fetching")
      /\ mu' = Nobody
      /\ \E x \in Calls :
           /\ \A v \in BaseURLs : inFlight[v] # x
           /\ inFlight' = [inFlight EXCEPT ![u] = x]
           /\ call' = [call EXCEPT ![c] = x]
           /\ done' = [done EXCEPT ![x] = FALSE]
           /\ result' = [result EXCEPT ![x] = NoResult]
      /\ UNCHANGED <<served, groups, at, want, cancelled, outcome>>

LeadAlone(c) ==
    LET u == at[c] IN
      /\ groups[u] = NotCached
      /\ Goto(c, "lookup", "fetching")
      /\ mu' = Nobody
      /\ \E x \in Calls :
           /\ Unreferenced(x)
           /\ inFlight' = [inFlight EXCEPT ![u] = x]
           /\ call' = [call EXCEPT ![c] = x]
      /\ UNCHANGED <<served, groups, callVars, at, want, cancelled, outcome>>

\* resolve, first critical section: this caller will ask, on a fresh call.
Lead(c) ==
    LET u == at[c] IN
      /\ groups[u] = NotCached
      /\ inFlight[u] = NoCall
      /\ Goto(c, "lookup", "fetching")
      /\ mu' = Nobody
      /\ \E x \in Calls :
           /\ Unreferenced(x)
           /\ inFlight' = [inFlight EXCEPT ![u] = x]
           /\ call' = [call EXCEPT ![c] = x]
           /\ done' = [done EXCEPT ![x] = FALSE]
           /\ result' = [result EXCEPT ![x] = NoResult]
      /\ UNCHANGED <<served, groups, at, want, cancelled, outcome>>

\* The probe ends; its result is written to the call without the mutex.
FetchReturns(c) ==
    /\ Goto(c, "fetching", "relock")
    /\ \E r \in ProbeResults(c) : result' = [result EXCEPT ![call[c]] = r]
    /\ UNCHANGED <<served, cacheVars, done, at, want, call, cancelled,
                   outcome>>

\* A credential provider or transport panics inside fetch and the caller's
\* frame recovers: resolve unwinds, and it defers nothing.
FetchPanics(c) ==
    /\ ProvidersMayPanic
    /\ Goto(c, "fetching", "returned")
    /\ outcome' = [outcome EXCEPT ![c] = "failed"]
    /\ call' = [call EXCEPT ![c] = NoCall]
    /\ UNCHANGED <<served, cacheVars, callVars, at, want, cancelled>>

\* Mutants of Publish: a failed call stays in flight; a failure is cached as an
\* empty list; a success is not cached.
PublishLeavesFailures(c) ==
    LET u == at[c]
        r == result[call[c]]
    IN
      /\ Goto(c, "publish", "close")
      /\ mu' = Nobody
      /\ inFlight' = [inFlight EXCEPT ![u] = IF r.err = "nil" THEN NoCall ELSE @]
      /\ groups' = IF r.err = "nil" THEN [groups EXCEPT ![u] = r.groups] ELSE groups
      /\ UNCHANGED <<served, callVars, at, want, call, cancelled, outcome>>

PublishCachesFailures(c) ==
    /\ Goto(c, "publish", "close")
    /\ mu' = Nobody
    /\ inFlight' = [inFlight EXCEPT ![at[c]] = NoCall]
    /\ groups' = [groups EXCEPT ![at[c]] = result[call[c]].groups]
    /\ UNCHANGED <<served, callVars, at, want, call, cancelled, outcome>>

PublishForgets(c) ==
    /\ Goto(c, "publish", "close")
    /\ mu' = Nobody
    /\ inFlight' = [inFlight EXCEPT ![at[c]] = NoCall]
    /\ UNCHANGED <<served, groups, callVars, at, want, call, cancelled, outcome>>

\* resolve, second critical section: only a success enters the cache.
Publish(c) ==
    LET u == at[c]
        r == result[call[c]]
    IN
      /\ Goto(c, "publish", "close")
      /\ mu' = Nobody
      /\ inFlight' = [inFlight EXCEPT ![u] = NoCall]
      /\ groups' = IF r.err = "nil" THEN [groups EXCEPT ![u] = r.groups]
                                    ELSE groups
      /\ UNCHANGED <<served, callVars, at, want, call, cancelled, outcome>>

\* Caller c returns the fields of the call it holds and drops the pointer; a
\* call nobody holds any more is garbage and its memory is cleared.
ReturnCall(c) ==
    LET x == call[c]
        shared == \E d \in Callers \ {c} : call[d] = x
    IN
      /\ outcome' = [outcome EXCEPT ![c] = Verdict(result[x], want[c])]
      /\ call' = [call EXCEPT ![c] = NoCall]
      /\ done' = [done EXCEPT ![x] = shared]
      /\ result' = [result EXCEPT ![x] = IF shared THEN @ ELSE NoResult]

\* Mutant of CloseDone: the channel is never closed.
NeverCloseDone(c) ==
    /\ Goto(c, "close", "returned")
    /\ outcome' = [outcome EXCEPT ![c] = Verdict(result[call[c]], want[c])]
    /\ call' = [call EXCEPT ![c] = NoCall]
    /\ UNCHANGED <<served, cacheVars, callVars, at, want, cancelled>>

\* close(call.done), then the leader returns what it fetched.
CloseDone(c) ==
    /\ Goto(c, "close", "returned")
    /\ ReturnCall(c)
    /\ UNCHANGED <<served, cacheVars, at, want, cancelled>>

\* A waiter wakes on the closed channel and returns the call's fields.  It
\* does not look at its own context.
Wake(c) ==
    /\ call[c] # NoCall
    /\ done[call[c]]
    /\ Goto(c, "waiting", "returned")
    /\ ReturnCall(c)
    /\ UNCHANGED <<served, cacheVars, at, want, cancelled>>

Resolve(c) ==
    \/ Lock(c) \/ Hit(c) \/ Join(c) \/ Lead(c)
    \/ FetchReturns(c) \/ Publish(c) \/ CloseDone(c) \/ Wake(c)

Next ==
    \E c \in Callers :
        \/ \E u \in BaseURLs, g \in Groups : Ask(c, u, g)
        \/ RejectOptions(c)
        \/ Cancel(c)
        \/ Resolve(c)
        \/ FetchPanics(c)

Spec == Init /\ [][Next]_vars

\* A runnable goroutine is scheduled; a probe ends, because its attempts are
\* bounded in number and in time; and sync.Mutex hands itself to a waiter that
\* has starved, so a lock that keeps being released is eventually taken.
Fairness ==
    \A c \in Callers : /\ WF_vars(Resolve(c))
                       /\ SF_vars(Lock(c))

FairSpec == Spec /\ Fairness

-----------------------------------------------------------------------------

Leaders(u) == { c \in Callers : at[c] = u /\ pc[c] \in {"fetching", "relock", "publish"} }

\* A burst of calls to one deployment has at most one GET /apis outstanding,
\* and once the deployment's list is cached nobody asks again: the promise of
\* discoveryCall ("one GET /apis rather than one each").
OneProbe ==
    \A u \in BaseURLs :
        /\ \A c, d \in Leaders(u) : c = d
        /\ groups[u] # NotCached => Leaders(u) = {}

\* Nobody can join a call whose result has already been settled: a call that is
\* in flight and has a result still has its leader between the two critical
\* sections, so a failure is never handed to a caller that arrives after it.
FailureIsNotRemembered ==
    \A u \in BaseURLs :
        inFlight[u] # NoCall /\ result[inFlight[u]] # NoResult
          => \E c \in Leaders(u) : call[c] = inFlight[u]

\* Caller c has what a nested provider met elsewhere for the deployment's own 404:
\* it led that probe, or joined it.
Misled(c) ==
    /\ call[c] # NoCall
    /\ result[call[c]].err = "notFound"
    /\ result[call[c]].by \in Nested

\* A verdict, when it is given, tells the truth about the deployment asked,
\* whichever caller's probe it came from: a call is let through only to a
\* deployment that serves the group, and "not available" is said only of one that
\* does not.  Two things can make the latter wrong: a deployment that answers
\* without a body, and somebody else's 404 met by a credential provider.  The
\* second misleads the callers of that one probe and nobody after them.
VerdictIsTrue ==
    [][\A c \in Callers : outcome'[c] # outcome[c] =>
         /\ outcome'[c] = "allowed" => want[c] \in served[at[c]].groups
         /\ outcome'[c] = "unavailable" =>
              \/ want[c] \notin served[at[c]].groups
              \/ at[c] \in Blank
              \/ Misled(c)]_vars

\* A closed call is final: from the close on, until the last waiter has read
\* it, its fields do not change, and its channel does not reopen.  The waiters
\* read them without the mutex.
ClosedCallIsFrozen ==
    [][\A x \in Calls :
         (done[x] /\ \E c \in Callers : call[c] = x /\ call'[c] = x)
           => (done'[x] /\ result'[x] = result[x])]_vars

\* A caller that waits on a call whose probe panicked: it is in flight, and nobody
\* is left to publish and close it.
Stranded(c) ==
    /\ pc[c] = "waiting"
    /\ inFlight[at[c]] = call[c]
    /\ Leaders(at[c]) = {}

\* Every call that reaches the gate leaves it, or waits on a probe that panicked:
\* no lost wake-up, no waiting with the mutex held, no channel left open by a
\* probe that returned.
EveryCallReturnsUnlessStranded ==
    \A c \in Callers : pc[c] = "lock" ~> (pc[c] = "returned" \/ Stranded(c))

\* The abstract gate answers a caller when its own answer is settled: when it
\* has returned, when it leads a call that is published, or when it waits on one.
Settled(c) ==
    \/ pc[c] \in {"close", "returned"}
    \/ pc[c] = "waiting" /\ inFlight[at[c]] # call[c]

Gate == INSTANCE ExtensionGate WITH
    known  <- groups,
    phase  <- [c \in Callers |-> CASE pc[c] = "idle" -> "idle"
                                   [] Settled(c)     -> "answered"
                                   [] OTHER          -> "asking"],
    answer <- [c \in Callers |-> IF pc[c] # "returned" /\ Settled(c)
                                   THEN Verdict(result[call[c]], want[c])
                                   ELSE outcome[c]]

\* The cache, with its mutex, its in-flight calls and its waiters, implements
\* the abstract gate: all the callers that joined a probe get its answer in the
\* one step that publishes it.
ImplementsGate == Gate!Spec

-----------------------------------------------------------------------------
(* Said of this code in the repository and not so (README, Disagreements);  *)
(* no passing run checks it.                                                *)

\* cloudgate.go:24-26 will not let one failed attempt "turn one bad moment into a
\* permanent refusal to make any cloud call at all": every call that reaches the
\* gate leaves it.
EveryCallReturns ==
    \A c \in Callers : pc[c] = "lock" ~> pc[c] = "returned"

\* cloudgate.go:107-109 says of an unavailable extension "GET /apis returned 404 -
\* this deployment predates extension discovery": a deployment that serves the
\* group is never called one that does not.
UnavailableIsTheDeployments ==
    \A c \in Callers : outcome[c] = "unavailable" => want[c] \notin served[at[c]].groups

\* cloudgate.go:24-26 remembers no "failed" attempt: what is cached of a deployment
\* is its own list.
OnlyListsAreCached ==
    \A u \in BaseURLs :
        groups[u] # NotCached => served[u].discovery /\ groups[u] = served[u].groups

\* apierror.go describes UserAbortError as "a request cancelled through its
\* context by the caller": a call is reported aborted only if its own caller
\* cancelled it.
AbortIsTheCallersOwn ==
    \A c \in Callers : outcome[c] = "aborted" => cancelled[c]

\* apierror.go describes AuthenticationError as "the credential was missing,
\* malformed, or rejected": a call is refused for its own credential only.
RejectionIsTheCallersOwn ==
    \A c \in Callers : outcome[c] = "rejected" => c \in Rejected

=============================================================================
