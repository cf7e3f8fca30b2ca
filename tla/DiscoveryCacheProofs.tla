------------------------ MODULE DiscoveryCacheProofs ------------------------
(***************************************************************************)
(* Theorems about DiscoveryCache, for every set of callers, deployments    *)
(* and groups.  IInv is the inductive invariant: it says who owns each     *)
(* discoveryCall, which none of the properties mentions and all of them    *)
(* depend on.                                                              *)
(***************************************************************************)
EXTENDS DiscoveryCache, TLAPS

Leading  == {"fetching", "relock", "publish"}
Owning   == Leading \cup {"close"}
Fetched  == {"relock", "publish", "close"}

\* G is the list of deployment u, or the empty one of an answer without a body.
Listed(G, u) ==
    \/ served[u].discovery /\ G = served[u].groups
    \/ u \in Blank /\ G = {}

\* What a settled result may claim of deployment u.
Truthful(r, u) ==
    /\ r.err = "nil" => Listed(r.groups, u)
    /\ r.err = "notFound" => ~served[u].discovery \/ r.by \in Nested

ServedInv == \A u \in BaseURLs : ~served[u].discovery => served[u].groups = {}

\* A caller holds a call exactly while it owns one or waits on one.
HoldsInv ==
    \A c \in Callers : call[c] # NoCall <=> pc[c] \in Owning \cup {"waiting"}

\* A leader's call is the one in flight for its key; nobody else owns it.
OwnerInv ==
    /\ \A c \in Callers : pc[c] \in Leading => inFlight[at[c]] = call[c]
    /\ \A c, d \in Callers :
         pc[c] \in Owning /\ pc[d] \in Owning /\ call[c] = call[d] => c = d

\* A call is in flight for one key, until it is published.
FlightInv ==
    /\ \A u, v \in BaseURLs : inFlight[u] = inFlight[v] /\ inFlight[u] # NoCall => u = v
    /\ \A u \in BaseURLs, c \in Callers : pc[c] = "close" => inFlight[u] # call[c]
    /\ \A u \in BaseURLs : groups[u] # NotCached => inFlight[u] = NoCall

\* A closed call is neither in flight nor owned.
DoneInv ==
    \A x \in Calls : done[x] =>
        /\ \A u \in BaseURLs : inFlight[u] # x
        /\ \A c \in Callers : pc[c] \in Owning => call[c] # x

\* Whoever waits on a call asked for the deployment its owner probes.
WaitInv ==
    \A c, d \in Callers :
        pc[c] = "waiting" /\ pc[d] \in Owning /\ call[c] = call[d] => at[c] = at[d]

\* The cache and every settled call tell the truth.
TruthInv ==
    /\ \A u \in BaseURLs : groups[u] # NotCached => Listed(groups[u], u)
    /\ \A c \in Callers : pc[c] \in Fetched => Truthful(result[call[c]], at[c])
    /\ \A c \in Callers :
         pc[c] = "waiting" /\ done[call[c]] => Truthful(result[call[c]], at[c])

IInv == TypeOK /\ ServedInv /\ HoldsInv /\ OwnerInv /\ FlightInv /\ DoneInv
          /\ WaitInv /\ TruthInv

-----------------------------------------------------------------------------
(* What the gate concludes from a result.                                   *)

LEMMA VerdictType ==
  ASSUME NEW r, r.err \in Errors, NEW g
  PROVE  Verdict(r, g) \in Outcomes \ {"none"}
  BY DEF Verdict, Outcomes, Errors

LEMMA TruthfulVerdict ==
  ASSUME ServedInv, NEW u \in BaseURLs, NEW r, r.err \in Errors, NEW g, Truthful(r, u)
  PROVE  /\ Verdict(r, g) = "allowed" => g \in served[u].groups
         /\ Verdict(r, g) = "unavailable" =>
              \/ g \notin served[u].groups
              \/ u \in Blank
              \/ r.err = "notFound" /\ r.by \in Nested
  BY DEF Verdict, Truthful, Listed, ServedInv, Errors

LEMMA InitIInv == Init => IInv
  <1> SUFFICES ASSUME Init PROVE IInv
    OBVIOUS
  <1> USE SentinelsAreFresh DEF Init
  <1>1. TypeOK
    BY DEF TypeOK, Deployment, Steps, Outcomes, NoResult, Result, Errors
  <1>2. ServedInv
    BY DEF ServedInv
  <1>3. HoldsInv /\ OwnerInv /\ FlightInv /\ DoneInv /\ WaitInv
    BY DEF HoldsInv, OwnerInv, FlightInv, DoneInv, WaitInv, Owning, Leading
  <1>4. TruthInv
    BY DEF TruthInv, Fetched
  <1>5. QED
    BY <1>1, <1>2, <1>3, <1>4 DEF IInv

-----------------------------------------------------------------------------
(* Each step keeps the invariant.                                           *)

\* A caller that holds no call asks anew.
LEMMA AskKeepsIInv ==
  ASSUME IInv, NEW c \in Callers, NEW u \in BaseURLs, NEW g \in Groups, Ask(c, u, g)
  PROVE  IInv'
  <1> USE SentinelsAreFresh
      DEF IInv, TypeOK, Steps, Owning, Leading, Fetched, Goto, cacheVars,
          callVars, Ask
  <1>1. TypeOK' /\ ServedInv'
    BY DEF Deployment, Outcomes, Result, NoResult, Errors, ServedInv, HoldsInv
  <1>2. HoldsInv' /\ OwnerInv' /\ FlightInv' /\ DoneInv' /\ WaitInv'
    <2>1. HoldsInv' /\ OwnerInv'
      BY DEF HoldsInv, OwnerInv, FlightInv
    <2>2. FlightInv' /\ DoneInv'
      BY DEF HoldsInv, OwnerInv, FlightInv, DoneInv
    <2>3. WaitInv'
      BY DEF HoldsInv, OwnerInv, WaitInv
    <2>4. QED
      BY <2>1, <2>2, <2>3
  <1>3. TruthInv'
    BY DEF TruthInv, Truthful, Listed, HoldsInv
  <1>4. QED
    BY <1>1, <1>2, <1>3

\* The cache is not touched.
LEMMA RejectOptionsKeepsIInv ==
  ASSUME IInv, NEW c \in Callers, RejectOptions(c)
  PROVE  IInv'
  <1> USE SentinelsAreFresh
      DEF IInv, TypeOK, Steps, Owning, Leading, Fetched, Goto, cacheVars,
          callVars, RejectOptions
  <1>1. TypeOK' /\ ServedInv'
    BY DEF Deployment, Outcomes, Result, NoResult, Errors, ServedInv, HoldsInv
  <1>2. HoldsInv' /\ OwnerInv' /\ FlightInv' /\ DoneInv' /\ WaitInv'
    <2>1. HoldsInv' /\ OwnerInv'
      BY DEF HoldsInv, OwnerInv, FlightInv
    <2>2. FlightInv' /\ DoneInv'
      BY DEF HoldsInv, OwnerInv, FlightInv, DoneInv
    <2>3. WaitInv'
      BY DEF HoldsInv, OwnerInv, WaitInv
    <2>4. QED
      BY <2>1, <2>2, <2>3
  <1>3. TruthInv'
    BY DEF TruthInv, Truthful, Listed, HoldsInv
  <1>4. QED
    BY <1>1, <1>2, <1>3

\* Only the caller's context changes.
LEMMA CancelKeepsIInv ==
  ASSUME IInv, NEW c \in Callers, Cancel(c)
  PROVE  IInv'
  <1> USE SentinelsAreFresh
      DEF IInv, TypeOK, Steps, Owning, Leading, Fetched, Goto, cacheVars,
          callVars, Cancel
  <1>1. TypeOK' /\ ServedInv'
    BY DEF Deployment, Outcomes, Result, NoResult, Errors, ServedInv, HoldsInv
  <1>2. HoldsInv' /\ OwnerInv' /\ FlightInv' /\ DoneInv' /\ WaitInv'
    <2>1. HoldsInv' /\ OwnerInv'
      BY DEF HoldsInv, OwnerInv, FlightInv
    <2>2. FlightInv' /\ DoneInv'
      BY DEF HoldsInv, OwnerInv, FlightInv, DoneInv
    <2>3. WaitInv'
      BY DEF HoldsInv, OwnerInv, WaitInv
    <2>4. QED
      BY <2>1, <2>2, <2>3
  <1>3. TruthInv'
    BY DEF TruthInv, Truthful, Listed, HoldsInv
  <1>4. QED
    BY <1>1, <1>2, <1>3

\* Only the mutex and the caller's place change.
LEMMA LockKeepsIInv ==
  ASSUME IInv, NEW c \in Callers, Lock(c)
  PROVE  IInv'
  <1> USE SentinelsAreFresh
      DEF IInv, TypeOK, Steps, Owning, Leading, Fetched, Goto, cacheVars,
          callVars, Lock
  <1>1. TypeOK' /\ ServedInv'
    BY DEF Deployment, Outcomes, Result, NoResult, Errors, ServedInv, HoldsInv
  <1>2. HoldsInv' /\ OwnerInv' /\ FlightInv' /\ DoneInv' /\ WaitInv'
    <2>1. HoldsInv' /\ OwnerInv'
      BY DEF HoldsInv, OwnerInv, FlightInv
    <2>2. FlightInv' /\ DoneInv'
      BY DEF HoldsInv, OwnerInv, FlightInv, DoneInv
    <2>3. WaitInv'
      BY DEF HoldsInv, OwnerInv, WaitInv
    <2>4. QED
      BY <2>1, <2>2, <2>3
  <1>3. TruthInv'
    BY DEF TruthInv, Truthful, Listed, HoldsInv
  <1>4. QED
    BY <1>1, <1>2, <1>3

\* The answer comes from the cache, and nothing else changes.
LEMMA HitKeepsIInv ==
  ASSUME IInv, NEW c \in Callers, Hit(c)
  PROVE  IInv'
  <1> USE SentinelsAreFresh
      DEF IInv, TypeOK, Steps, Owning, Leading, Fetched, Goto, cacheVars,
          callVars, Hit
  <1>1. TypeOK' /\ ServedInv'
    BY VerdictType DEF Errors, ServedInv
  <1>2. HoldsInv' /\ OwnerInv' /\ FlightInv' /\ DoneInv' /\ WaitInv'
    <2>1. HoldsInv' /\ OwnerInv'
      BY DEF HoldsInv, OwnerInv, FlightInv
    <2>2. FlightInv' /\ DoneInv'
      BY DEF HoldsInv, OwnerInv, FlightInv, DoneInv
    <2>3. WaitInv'
      BY DEF HoldsInv, OwnerInv, WaitInv
    <2>4. QED
      BY <2>1, <2>2, <2>3
  <1>3. TruthInv'
    BY DEF TruthInv, Truthful, Listed, HoldsInv
  <1>4. QED
    BY <1>1, <1>2, <1>3

\* The new waiter shares a call in flight for its own deployment.
LEMMA JoinKeepsIInv ==
  ASSUME IInv, NEW c \in Callers, Join(c)
  PROVE  IInv'
  <1> USE SentinelsAreFresh
      DEF IInv, TypeOK, Steps, Owning, Leading, Fetched, Goto, cacheVars,
          callVars, Join
  <1>1. TypeOK' /\ ServedInv'
    BY DEF Deployment, Outcomes, Result, NoResult, Errors, ServedInv, HoldsInv
  <1>2. HoldsInv' /\ OwnerInv'
    BY DEF HoldsInv, OwnerInv, FlightInv
  <1>3. FlightInv' /\ DoneInv'
    BY DEF HoldsInv, OwnerInv, FlightInv, DoneInv
  <1>4. WaitInv'
    BY DEF HoldsInv, OwnerInv, FlightInv, WaitInv
  <1>5. TruthInv'
    BY DEF TruthInv, Truthful, Listed, Result, HoldsInv, OwnerInv, FlightInv, DoneInv,
          WaitInv
  <1>6. QED
    BY <1>1, <1>2, <1>3, <1>4, <1>5

\* The fresh call is in no one's hands and in flight for no other key.
LEMMA LeadKeepsIInv ==
  ASSUME IInv, NEW c \in Callers, Lead(c)
  PROVE  IInv'
  <1> USE SentinelsAreFresh
      DEF IInv, TypeOK, Steps, Owning, Leading, Fetched, Goto, cacheVars,
          callVars, Lead, Unreferenced
  <1>1. TypeOK' /\ ServedInv'
    BY DEF Deployment, Outcomes, Result, NoResult, Errors, ServedInv, HoldsInv
  <1>2. HoldsInv' /\ OwnerInv'
    BY DEF HoldsInv, OwnerInv, FlightInv
  <1>3. FlightInv' /\ DoneInv'
    BY DEF HoldsInv, OwnerInv, FlightInv, DoneInv
  <1>4. WaitInv'
    BY DEF HoldsInv, OwnerInv, FlightInv, WaitInv
  <1>5. TruthInv'
    BY DEF TruthInv, Truthful, Listed, Result, HoldsInv, OwnerInv, FlightInv, DoneInv,
          WaitInv
  <1>6. QED
    BY <1>1, <1>2, <1>3, <1>4, <1>5

\* The owner writes a call that is not closed, so no waiter's answer changes.
LEMMA FetchReturnsKeepsIInv ==
  ASSUME IInv, NEW c \in Callers, FetchReturns(c)
  PROVE  IInv'
  <1> USE SentinelsAreFresh
      DEF IInv, TypeOK, Steps, Owning, Leading, Fetched, Goto, cacheVars,
          callVars, FetchReturns, ProbeResults
  <1>1. TypeOK' /\ ServedInv'
    BY DEF Deployment, Outcomes, Result, NoResult, Errors, ServedInv, HoldsInv
  <1>2. HoldsInv' /\ OwnerInv' /\ FlightInv' /\ DoneInv' /\ WaitInv'
    <2>1. HoldsInv' /\ OwnerInv'
      BY DEF HoldsInv, OwnerInv, FlightInv
    <2>2. FlightInv' /\ DoneInv'
      BY DEF HoldsInv, OwnerInv, FlightInv, DoneInv
    <2>3. WaitInv'
      BY DEF HoldsInv, OwnerInv, WaitInv
    <2>4. QED
      BY <2>1, <2>2, <2>3
  <1>3. TruthInv'
    BY DEF TruthInv, Truthful, Listed, Result, HoldsInv, OwnerInv, FlightInv, DoneInv,
          WaitInv
  <1>4. QED
    BY <1>1, <1>2, <1>3

\* The call stays in flight, owned by nobody.
LEMMA FetchPanicsKeepsIInv ==
  ASSUME IInv, NEW c \in Callers, FetchPanics(c)
  PROVE  IInv'
  <1> USE SentinelsAreFresh
      DEF IInv, TypeOK, Steps, Owning, Leading, Fetched, Goto, cacheVars,
          callVars, FetchPanics
  <1>1. TypeOK' /\ ServedInv'
    BY DEF Deployment, Outcomes, Result, NoResult, Errors, ServedInv, HoldsInv
  <1>2. HoldsInv' /\ OwnerInv'
    BY DEF HoldsInv, OwnerInv, FlightInv
  <1>3. FlightInv' /\ DoneInv'
    BY DEF HoldsInv, OwnerInv, FlightInv, DoneInv
  <1>4. WaitInv'
    BY DEF HoldsInv, OwnerInv, FlightInv, WaitInv
  <1>5. TruthInv'
    BY DEF TruthInv, Truthful, Listed, Result, HoldsInv, OwnerInv, FlightInv, DoneInv,
          WaitInv
  <1>6. QED
    BY <1>1, <1>2, <1>3, <1>4, <1>5

\* The key leaves inFlight; a truthful success enters the cache.
LEMMA PublishKeepsIInv ==
  ASSUME IInv, NEW c \in Callers, Publish(c)
  PROVE  IInv'
  <1> USE SentinelsAreFresh
      DEF IInv, TypeOK, Steps, Owning, Leading, Fetched, Goto, cacheVars,
          callVars, Publish
  <1>1. TypeOK' /\ ServedInv'
    BY DEF Deployment, Outcomes, Result, NoResult, Errors, ServedInv, HoldsInv
  <1>2. HoldsInv' /\ OwnerInv'
    BY DEF HoldsInv, OwnerInv, FlightInv
  <1>3. FlightInv' /\ DoneInv'
    BY DEF HoldsInv, OwnerInv, FlightInv, DoneInv
  <1>4. WaitInv'
    BY DEF HoldsInv, OwnerInv, FlightInv, WaitInv
  <1>5. TruthInv'
    BY DEF TruthInv, Truthful, Listed, Result, HoldsInv, OwnerInv, FlightInv, DoneInv,
          WaitInv
  <1>6. QED
    BY <1>1, <1>2, <1>3, <1>4, <1>5

\* The leader's result is truthful of the deployment its waiters asked for.
LEMMA CloseDoneKeepsIInv ==
  ASSUME IInv, NEW c \in Callers, CloseDone(c)
  PROVE  IInv'
  <1> USE SentinelsAreFresh
      DEF IInv, TypeOK, Steps, Owning, Leading, Fetched, Goto, cacheVars,
          callVars, CloseDone, ReturnCall
  <1>1. call[c] \in Calls /\ result[call[c]] \in Result
    BY DEF HoldsInv
  <1>2. result[call[c]].err \in Errors
    BY <1>1 DEF Result
  <1>3. TypeOK' /\ ServedInv'
    BY <1>1, <1>2, VerdictType DEF Result, NoResult, Errors, ServedInv
  <1>4. HoldsInv' /\ OwnerInv'
    BY DEF HoldsInv, OwnerInv, FlightInv
  <1>5. FlightInv' /\ DoneInv'
    BY DEF HoldsInv, OwnerInv, FlightInv, DoneInv
  <1>6. WaitInv'
    BY DEF HoldsInv, OwnerInv, FlightInv, WaitInv
  <1>7. TruthInv'
    <2>1. \A r, u : Truthful(r, u)' <=> Truthful(r, u)
      BY DEF Truthful, Listed
    <2>2. \A u \in BaseURLs : (groups[u] # NotCached => Listed(groups[u], u))'
      BY DEF TruthInv, Listed
    <2>3. ASSUME NEW d \in Callers, pc'[d] \in Fetched
          PROVE  Truthful(result'[call'[d]], at'[d])
      BY <2>3 DEF TruthInv, OwnerInv
    <2>4. ASSUME NEW d \in Callers, pc'[d] = "waiting", done'[call'[d]]
          PROVE  Truthful(result'[call'[d]], at'[d])
      <3>1. d # c /\ pc[d] = "waiting" /\ call'[d] = call[d] /\ result'[call[d]] = result[call[d]]
        BY <2>4
      <3>2. CASE call[d] = call[c]
        BY <1>1, <3>1, <3>2 DEF TruthInv, WaitInv
      <3>3. CASE call[d] # call[c]
        BY <2>4, <3>1, <3>3 DEF TruthInv
      <3>4. QED
        BY <3>2, <3>3
    <2>5. QED
      BY <2>1, <2>2, <2>3, <2>4 DEF TruthInv, Truthful
  <1>8. QED
    BY <1>1, <1>2, <1>3, <1>4, <1>5, <1>6, <1>7

\* The last reader of a closed call clears it.
LEMMA WakeKeepsIInv ==
  ASSUME IInv, NEW c \in Callers, Wake(c)
  PROVE  IInv'
  <1> USE SentinelsAreFresh
      DEF IInv, TypeOK, Steps, Owning, Leading, Fetched, Goto, cacheVars,
          callVars, Wake, ReturnCall
  <1>1. call[c] \in Calls /\ result[call[c]] \in Result
    BY DEF HoldsInv
  <1>2. result[call[c]].err \in Errors
    BY <1>1 DEF Result
  <1>3. TypeOK' /\ ServedInv'
    BY <1>1, <1>2, VerdictType DEF Result, NoResult, Errors, ServedInv
  <1>4. HoldsInv' /\ OwnerInv'
    BY DEF HoldsInv, OwnerInv, FlightInv
  <1>5. FlightInv' /\ DoneInv'
    BY DEF HoldsInv, OwnerInv, FlightInv, DoneInv
  <1>6. WaitInv'
    BY DEF HoldsInv, OwnerInv, FlightInv, WaitInv
  <1>7. TruthInv'
    BY DEF TruthInv, Truthful, Listed, Result, HoldsInv, OwnerInv, FlightInv, DoneInv,
          WaitInv
  <1>8. QED
    BY <1>1, <1>2, <1>3, <1>4, <1>5, <1>6, <1>7

LEMMA NextIInv == IInv /\ [Next]_vars => IInv'
  <1> SUFFICES ASSUME IInv, [Next]_vars PROVE IInv'
    OBVIOUS
  <1>1. CASE UNCHANGED vars
    BY <1>1 DEF IInv, vars, TypeOK, ServedInv, HoldsInv, OwnerInv, FlightInv, DoneInv,
                WaitInv, TruthInv, Truthful, Listed
  <1>2. CASE Next
    BY <1>2, AskKeepsIInv, RejectOptionsKeepsIInv, CancelKeepsIInv, LockKeepsIInv,
       HitKeepsIInv, JoinKeepsIInv, LeadKeepsIInv, FetchReturnsKeepsIInv,
       FetchPanicsKeepsIInv, PublishKeepsIInv, CloseDoneKeepsIInv, WakeKeepsIInv
       DEF Next, Resolve
  <1>3. QED
    BY <1>1, <1>2

\* The inductive invariant holds of every reachable state.
THEOREM Invariance == Spec => []IInv
  BY InitIInv, NextIInv, PTL DEF Spec

-----------------------------------------------------------------------------
(* What follows for the gate.                                               *)

\* Every variable keeps its type, with any number of callers and deployments,
\* whether or not a fetch may panic.
THEOREM TypeCorrect == Spec => []TypeOK
  <1>1. IInv => TypeOK
    BY DEF IInv
  <1>2. QED
    BY <1>1, Invariance, PTL

\* One GET /apis at a time for a deployment, and none once its list is cached.
THEOREM AtMostOneProbe == Spec => []OneProbe
  <1>1. IInv => OneProbe
    <2> SUFFICES ASSUME IInv, NEW u \in BaseURLs
                 PROVE  /\ \A c, d \in Leaders(u) : c = d
                        /\ groups[u] # NotCached => Leaders(u) = {}
      BY DEF OneProbe
    <2> USE DEF IInv, Leaders, Leading, Owning
    <2>1. ASSUME NEW c \in Leaders(u), NEW d \in Leaders(u) PROVE c = d
      BY <2>1 DEF OwnerInv
    <2>2. ASSUME NEW c \in Leaders(u), groups[u] # NotCached PROVE FALSE
      BY <2>2 DEF OwnerInv, FlightInv, HoldsInv
    <2>3. QED
      BY <2>1, <2>2
  <1>2. QED
    BY <1>1, Invariance, PTL

\* Every verdict, from the cache, from a caller's own probe or from one it joined,
\* is true of the deployment asked, or comes of an answer without a body or of the
\* nested provider on whose behalf that very probe was sent.
THEOREM VerdictsAreTrue == Spec => VerdictIsTrue
  <1> DEFINE Said(c) ==
        /\ outcome'[c] = "allowed" => want[c] \in served[at[c]].groups
        /\ outcome'[c] = "unavailable" =>
             \/ want[c] \notin served[at[c]].groups
             \/ at[c] \in Blank
             \/ Misled(c)
  <1>1. IInv /\ [Next]_vars => [\A c \in Callers : outcome'[c] # outcome[c] => Said(c)]_vars
    <2> SUFFICES ASSUME IInv, Next, NEW c \in Callers, outcome'[c] # outcome[c]
                 PROVE  Said(c)
      OBVIOUS
    <2> USE DEF IInv, TypeOK, Goto
    <2>1. PICK d \in Callers :
            \/ \E u \in BaseURLs, g \in Groups : Ask(d, u, g)
            \/ RejectOptions(d) \/ Cancel(d) \/ Resolve(d) \/ FetchPanics(d)
      BY DEF Next
    <2>2. CASE Hit(d)
      <3> DEFINE r == [groups |-> groups[at[c]], err |-> "nil"]
      <3>1. d = c /\ outcome'[c] = Verdict(r, want[c])
        BY <2>2 DEF Hit
      <3>2. r.err \in Errors /\ r.err # "notFound" /\ Truthful(r, at[c])
        BY <2>2, <3>1 DEF Hit, Errors, TruthInv, Truthful, Listed
      <3> HIDE DEF r
      <3>3. QED
        BY <3>1, <3>2, TruthfulVerdict
    \* The call's own leader, and whoever joined it, return what the call says.
    <2>3. ASSUME d = c, call[c] \in Calls, ReturnCall(c), Truthful(result[call[c]], at[c])
          PROVE  Said(c)
      <3>1. outcome'[c] = Verdict(result[call[c]], want[c])
        BY <2>3 DEF ReturnCall
      <3>2. result[call[c]].err \in Errors
        BY <2>3 DEF Result
      <3>3. QED
        BY <2>3, <3>1, <3>2, TruthfulVerdict, SentinelsAreFresh DEF Misled
    <2>4. CASE CloseDone(d)
      <3>1. d = c
        BY <2>4 DEF CloseDone, ReturnCall
      <3>2. call[c] \in Calls
        BY <2>4, <3>1 DEF CloseDone, HoldsInv, Owning
      <3>3. Truthful(result[call[c]], at[c])
        BY <2>4, <3>1 DEF CloseDone, TruthInv, Fetched
      <3>4. QED
        BY <2>3, <2>4, <3>1, <3>2, <3>3 DEF CloseDone
    <2>5. CASE Wake(d)
      <3>1. d = c
        BY <2>5 DEF Wake, ReturnCall
      <3>2. call[c] \in Calls
        BY <2>5, <3>1 DEF Wake
      <3>3. Truthful(result[call[c]], at[c])
        BY <2>5, <3>1 DEF Wake, TruthInv
      <3>4. QED
        BY <2>3, <2>5, <3>1, <3>2, <3>3 DEF Wake
    <2>6. CASE (\E u \in BaseURLs, g \in Groups : Ask(d, u, g)) \/ RejectOptions(d) \/ FetchPanics(d)
      BY <2>6 DEF Ask, RejectOptions, FetchPanics
    <2>7. QED
      BY <2>1, <2>2, <2>4, <2>5, <2>6
         DEF Resolve, Cancel, Lock, Join, Lead, FetchReturns, Publish
  <1>2. QED
    BY <1>1, Invariance, PTL DEF Spec, VerdictIsTrue

\* A call has no result while its leader is still asking.
FreshInv == \A c \in Callers : pc[c] = "fetching" => result[call[c]] = NoResult

LEMMA NextFreshInv == IInv /\ FreshInv /\ [Next]_vars => FreshInv'
  <1> SUFFICES ASSUME IInv, FreshInv, [Next]_vars,
                      NEW c \in Callers, pc'[c] = "fetching"
               PROVE  result'[call'[c]] = NoResult
    BY DEF FreshInv
  <1> USE DEF IInv, TypeOK, Goto, cacheVars, callVars, FreshInv
  <1>1. CASE UNCHANGED vars
    BY <1>1 DEF vars
  <1>2. CASE Next
    <2>1. PICK d \in Callers :
            \/ \E u \in BaseURLs, g \in Groups : Ask(d, u, g)
            \/ RejectOptions(d) \/ Cancel(d) \/ Resolve(d) \/ FetchPanics(d)
      BY <1>2 DEF Next
    <2>2. CASE Lead(d)
      BY <2>2 DEF Lead, Unreferenced
    <2>3. CASE FetchReturns(d)
      BY <2>3 DEF FetchReturns, OwnerInv, HoldsInv, Owning, Leading
    <2>4. CASE CloseDone(d)
      BY <2>4 DEF CloseDone, ReturnCall, OwnerInv, HoldsInv, Owning, Leading
    <2>5. CASE Wake(d)
      BY <2>5 DEF Wake, ReturnCall, DoneInv, HoldsInv, Owning, Leading
    <2>6. QED
      BY <2>1, <2>2, <2>3, <2>4, <2>5
         DEF Resolve, Ask, RejectOptions, Cancel, Lock, Hit, Join, FetchPanics, Publish
  <1>3. QED
    BY <1>1, <1>2

\* Nobody can join a call that has its result, a failed one above all, unless its
\* leader has yet to publish it.
THEOREM FailuresAreForgotten == Spec => []FailureIsNotRemembered
  <1>1. Init => FreshInv /\ FailureIsNotRemembered
    BY DEF Init, FreshInv, FailureIsNotRemembered
  <1>2. IInv /\ FreshInv /\ FailureIsNotRemembered /\ [Next]_vars
          => FailureIsNotRemembered'
    <2> SUFFICES ASSUME IInv, FreshInv, FailureIsNotRemembered, [Next]_vars,
                        NEW u \in BaseURLs,
                        inFlight'[u] # NoCall, result'[inFlight'[u]] # NoResult
                 PROVE  \E c \in Callers :
                          /\ at'[c] = u
                          /\ pc'[c] \in Leading
                          /\ call'[c] = inFlight'[u]
      BY DEF FailureIsNotRemembered, Leaders, Leading
    <2> USE DEF IInv, TypeOK, Steps, Leading, Goto, cacheVars, callVars
    <2>1. CASE UNCHANGED vars
      BY <2>1 DEF vars, FailureIsNotRemembered, Leaders
    <2>2. CASE Next
      <3>1. PICK d \in Callers :
              \/ \E v \in BaseURLs, g \in Groups : Ask(d, v, g)
              \/ RejectOptions(d) \/ Cancel(d) \/ Resolve(d) \/ FetchPanics(d)
        BY <2>2 DEF Next
      \* A call is born without a result.
      <3>2. inFlight[u] # NoCall /\ inFlight'[u] = inFlight[u]
        <4>1. CASE Lead(d)
          BY <4>1 DEF Lead
        <4>2. QED
          BY <3>1, <4>1 DEF Resolve, Ask, RejectOptions, Cancel, Lock, Hit, Join,
             FetchReturns, FetchPanics, Publish, CloseDone, Wake
      \* It had its result before the step, or its leader has just written it.
      <3>3. CASE FetchReturns(d) /\ call[d] = inFlight[u]
        BY <3>2, <3>3 DEF FetchReturns, OwnerInv, FlightInv
      <3>4. CASE ~(FetchReturns(d) /\ call[d] = inFlight[u])
        <4>1. result[inFlight[u]] # NoResult
          BY <3>1, <3>2, <3>4 DEF Resolve, Ask, RejectOptions, Cancel, Lock, Hit, Join,
             Lead, FetchReturns, FetchPanics, Publish, CloseDone, Wake, ReturnCall
        <4>2. PICK c \in Callers : at[c] = u /\ pc[c] \in Leading /\ call[c] = inFlight[u]
          BY <3>2, <4>1 DEF FailureIsNotRemembered, Leaders
        <4>3. ~Publish(c) /\ ~FetchPanics(c)
          BY <3>2, <4>1, <4>2, SentinelsAreFresh DEF Publish, FetchPanics, FreshInv
        <4>4. at'[c] = u /\ pc'[c] \in Leading /\ call'[c] = call[c]
          BY <3>1, <4>2, <4>3 DEF Resolve, Ask, RejectOptions, Cancel, Lock,
             Hit, Join, Lead, FetchReturns, FetchPanics, Publish, CloseDone, Wake,
             ReturnCall
        <4>5. QED
          BY <3>2, <4>2, <4>4
      <3>5. QED
        BY <3>3, <3>4
    <2>3. QED
      BY <2>1, <2>2
  <1>3. QED
    BY <1>1, <1>2, NextFreshInv, Invariance, PTL DEF Spec

\* From its close until its last waiter has read it, a call does not change:
\* only an owner or the last reader writes a call, and a closed one has neither.
THEOREM ClosedCallsAreFrozen == Spec => ClosedCallIsFrozen
  <1> DEFINE Frozen ==
        \A x \in Calls :
          (done[x] /\ \E c \in Callers : call[c] = x /\ call'[c] = x)
            => (done'[x] /\ result'[x] = result[x])
  <1>1. IInv /\ [Next]_vars => [Frozen]_vars
    <2> SUFFICES ASSUME IInv, Next,
                        NEW x \in Calls, done[x],
                        NEW h \in Callers, call[h] = x, call'[h] = x
                 PROVE  done'[x] /\ result'[x] = result[x]
      OBVIOUS
    <2> USE DEF IInv, TypeOK, Goto, cacheVars, callVars
    <2>1. PICK c \in Callers :
            \/ \E u \in BaseURLs, g \in Groups : Ask(c, u, g)
            \/ RejectOptions(c) \/ Cancel(c) \/ Resolve(c) \/ FetchPanics(c)
      BY DEF Next
    <2>2. CASE Lead(c)
      BY <2>2 DEF Lead, Unreferenced
    <2>3. CASE FetchReturns(c)
      BY <2>3 DEF FetchReturns, DoneInv, Owning, Leading
    <2>4. CASE CloseDone(c)
      BY <2>4 DEF CloseDone, ReturnCall, DoneInv, Owning, Leading
    <2>5. CASE Wake(c)
      BY <2>5, SentinelsAreFresh DEF Wake, ReturnCall
    <2>6. QED
      BY <2>1, <2>2, <2>3, <2>4, <2>5
         DEF Resolve, Ask, RejectOptions, Cancel, Lock, Hit, Join, FetchPanics, Publish
  <1>2. QED
    BY <1>1, Invariance, PTL DEF Spec, ClosedCallIsFrozen

-----------------------------------------------------------------------------
(* DiscoveryCache implements ExtensionGate: each step of the cache is a     *)
(* step of the abstract gate or leaves it as it was.  The step that         *)
(* publishes a call answers at once its leader and everybody who waits on   *)
(* it.                                                                      *)

\* A result that is not published yet may be what its leader's probe found.
ResultInv ==
    \A c \in Callers : pc[c] \in {"relock", "publish"} => result[call[c]] \in ProbeResults(c)

LEMMA NextResultInv == IInv /\ ResultInv /\ [Next]_vars => ResultInv'
  <1> SUFFICES ASSUME IInv, ResultInv, [Next]_vars,
                      NEW c \in Callers, pc'[c] \in {"relock", "publish"}
               PROVE  result'[call'[c]] \in ProbeResults(c)'
    BY DEF ResultInv
  <1> USE DEF IInv, TypeOK, Goto, cacheVars, callVars
  \* A caller that has a result keeps its own question; it can only be cancelled.
  <1>1. ASSUME pc[c] \in {"relock", "publish"},
               UNCHANGED <<served, at>>, call'[c] = call[c],
               result'[call[c]] = result[call[c]], cancelled[c] => cancelled'[c]
        PROVE  result'[call'[c]] \in ProbeResults(c)'
    BY <1>1 DEF ResultInv, ProbeResults
  <1>2. CASE UNCHANGED vars
    BY <1>1, <1>2 DEF vars
  <1>3. CASE Next
    <2>1. PICK d \in Callers :
            \/ \E u \in BaseURLs, g \in Groups : Ask(d, u, g)
            \/ RejectOptions(d) \/ Cancel(d) \/ Resolve(d) \/ FetchPanics(d)
      BY <1>3 DEF Next
    <2>2. CASE \E u \in BaseURLs, g \in Groups : Ask(d, u, g)
      <3>1. d # c /\ pc[c] \in {"relock", "publish"} /\ at'[c] = at[c]
              /\ cancelled'[c] = cancelled[c] /\ UNCHANGED <<served, call, result>>
        BY <2>2 DEF Ask
      <3>2. QED
        BY <3>1 DEF ResultInv, ProbeResults
    <2>3. CASE RejectOptions(d)
      BY <1>1, <2>3 DEF RejectOptions
    <2>4. CASE Cancel(d)
      BY <1>1, <2>4 DEF Cancel
    <2>5. CASE Lock(d)
      BY <1>1, <2>5 DEF Lock
    <2>6. CASE Hit(d) \/ Join(d) \/ Publish(d) \/ FetchPanics(d)
      BY <1>1, <2>6 DEF Hit, Join, Publish, FetchPanics
    <2>7. CASE Lead(d)
      BY <1>1, <2>7 DEF Lead, Unreferenced
    <2>8. CASE FetchReturns(d)
      <3>1. CASE c = d
        BY <2>8, <3>1, SentinelsAreFresh
           DEF FetchReturns, ProbeResults, HoldsInv, Owning, Leading
      <3>2. CASE c # d
        BY <1>1, <2>8, <3>2 DEF FetchReturns, OwnerInv, Owning, Leading
      <3>3. QED
        BY <3>1, <3>2
    <2>9. CASE CloseDone(d)
      BY <1>1, <2>9 DEF CloseDone, ReturnCall, OwnerInv, Owning, Leading
    <2>10. CASE Wake(d)
      BY <1>1, <2>10, SentinelsAreFresh DEF Wake, ReturnCall, DoneInv, Owning, Leading
    <2>11. QED
      BY <2>1, <2>2, <2>3, <2>4, <2>5, <2>6, <2>7, <2>8, <2>9, <2>10 DEF Resolve
  <1>4. QED
    BY <1>2, <1>3

-----------------------------------------------------------------------------
(* What the abstract gate sees of a caller.                                 *)

PhaseOf(c)  == CASE pc[c] = "idle" -> "idle"
                 [] Settled(c)     -> "answered"
                 [] OTHER          -> "asking"
AnswerOf(c) == IF pc[c] # "returned" /\ Settled(c)
                 THEN Verdict(result[call[c]], want[c])
                 ELSE outcome[c]

Same(c) == UNCHANGED <<PhaseOf(c), AnswerOf(c)>>

LEMMA JudgeIsVerdict ==
  ASSUME NEW r, NEW g
  PROVE  Gate!Judge(r, g) = Verdict(r, g)
  BY DEF Gate!Judge, Verdict

\* The abstract gate stands still.
LEMMA Stutters ==
  ASSUME UNCHANGED <<served, groups, at, want, cancelled>>, \A c \in Callers : Same(c)
  PROVE  UNCHANGED Gate!vars
  BY DEF Gate!vars, Same, PhaseOf, AnswerOf

\* One caller is answered from what is known, or asks, or is refused: the rest of
\* the callers see nothing.
Only(c) == \A d \in Callers \ {c} : Same(d)

\* A step that leaves the calls as they were is seen by its own caller only.
LEMMA OthersSeeNothing ==
  ASSUME NEW c \in Callers, UNCHANGED <<inFlight, result>>,
         \A d \in Callers \ {c} : /\ pc'[d] = pc[d] /\ at'[d] = at[d]
                                  /\ want'[d] = want[d] /\ call'[d] = call[d]
                                  /\ outcome'[d] = outcome[d]
  PROVE  Only(c)
  BY DEF Only, Same, PhaseOf, AnswerOf, Settled

Phases  == [c \in Callers |-> PhaseOf(c)]
Answers == [c \in Callers |-> AnswerOf(c)]

LEMMA OneMoves ==
  ASSUME NEW c \in Callers, Only(c), NEW p, NEW a, PhaseOf(c)' = p, AnswerOf(c)' = a
  PROVE  /\ Phases' = [Phases EXCEPT ![c] = p]
         /\ Answers' = [Answers EXCEPT ![c] = a]
  BY DEF Only, Same, Phases, Answers

LEMMA InitRefines == Init => Gate!Init
  <1> SUFFICES ASSUME Init PROVE Gate!Init
    OBVIOUS
  <1>1. \A c \in Callers : PhaseOf(c) = "idle" /\ AnswerOf(c) = "none"
    BY DEF Init, PhaseOf, AnswerOf, Settled
  <1>2. QED
    BY <1>1 DEF Init, Gate!Init, PhaseOf, AnswerOf, Deployment

LEMMA AskRefines ==
  ASSUME IInv, NEW c \in Callers, NEW u \in BaseURLs, NEW g \in Groups, Ask(c, u, g)
  PROVE  Gate!Ask(c, u, g)
  <1>1. Only(c)
    BY OthersSeeNothing DEF Ask, IInv, TypeOK, cacheVars, callVars
  <1>2. PhaseOf(c) # "asking" /\ PhaseOf(c)' = "asking" /\ AnswerOf(c)' = "none"
    BY DEF Ask, IInv, TypeOK, PhaseOf, AnswerOf, Settled
  <1>3. /\ Phases' = [Phases EXCEPT ![c] = "asking"]
        /\ Answers' = [Answers EXCEPT ![c] = "none"]
        /\ Phases[c] # "asking"
    BY <1>1, <1>2, OneMoves DEF Phases
  <1>4. QED
    BY <1>3 DEF Ask, Gate!Ask, Phases, Answers, PhaseOf, AnswerOf, cacheVars, callVars

LEMMA RejectOptionsRefines ==
  ASSUME IInv, NEW c \in Callers, RejectOptions(c)
  PROVE  Gate!Refuse(c)
  <1>1. Only(c)
    BY OthersSeeNothing DEF RejectOptions, IInv, TypeOK, cacheVars, callVars
  <1>2. PhaseOf(c) # "asking" /\ PhaseOf(c)' = "answered" /\ AnswerOf(c)' = "failed"
    BY DEF RejectOptions, IInv, TypeOK, PhaseOf, AnswerOf, Settled
  <1>3. /\ Phases' = [Phases EXCEPT ![c] = "answered"]
        /\ Answers' = [Answers EXCEPT ![c] = "failed"]
        /\ Phases[c] # "asking"
    BY <1>1, <1>2, OneMoves DEF Phases
  <1>4. QED
    BY <1>3
       DEF RejectOptions, Gate!Refuse, Phases, Answers, PhaseOf, AnswerOf, cacheVars, callVars

LEMMA CancelRefines ==
  ASSUME IInv, NEW c \in Callers, Cancel(c)
  PROVE  Gate!Cancel(c)
  <1>1. \A d \in Callers : Same(d)
    BY DEF Cancel, Same, PhaseOf, AnswerOf, Settled, cacheVars, callVars
  <1>2. PhaseOf(c) # "idle"
    BY DEF Cancel, PhaseOf
  <1>3. QED
    BY <1>1, <1>2 DEF Cancel, Gate!Cancel, Same, PhaseOf, AnswerOf, cacheVars, callVars

LEMMA HitRefines ==
  ASSUME IInv, NEW c \in Callers, Hit(c)
  PROVE  Gate!AnswerFromKnown(c)
  <1>1. Only(c)
    BY OthersSeeNothing DEF Hit, Goto, IInv, TypeOK, callVars
  <1>2. /\ PhaseOf(c) = "asking" /\ PhaseOf(c)' = "answered"
        /\ AnswerOf(c)' = Verdict([groups |-> groups[at[c]], err |-> "nil"], want[c])
    BY DEF Hit, Goto, IInv, TypeOK, PhaseOf, AnswerOf, Settled
  <1>3. /\ Phases' = [Phases EXCEPT ![c] = "answered"]
        /\ Answers' = [Answers EXCEPT ![c] =
                         Gate!Judge([groups |-> groups[at[c]], err |-> "nil"], want[c])]
        /\ Phases[c] = "asking"
    BY <1>1, <1>2, OneMoves, JudgeIsVerdict DEF Phases
  <1>4. groups[at[c]] # NotCached /\ UNCHANGED <<served, groups, at, want, cancelled>>
    BY DEF Hit
  <1>5. QED
    BY <1>3, <1>4 DEF Gate!AnswerFromKnown, Phases, Answers, PhaseOf, AnswerOf

-----------------------------------------------------------------------------
(* Steps the abstract gate does not see.                                    *)

LEMMA LockRefines ==
  ASSUME IInv, NEW c \in Callers, Lock(c)
  PROVE  UNCHANGED Gate!vars
  <1>1. Same(c)
    BY DEF Lock, Goto, IInv, TypeOK, Same, PhaseOf, AnswerOf, Settled, callVars
  <1>2. Only(c)
    BY OthersSeeNothing DEF Lock, Goto, IInv, TypeOK, callVars
  <1>3. QED
    BY <1>1, <1>2, Stutters DEF Only, Lock

\* A caller that joins waits on a call in flight: its answer is not settled.
LEMMA JoinRefines ==
  ASSUME IInv, NEW c \in Callers, Join(c)
  PROVE  UNCHANGED Gate!vars
  <1>1. Same(c)
    BY DEF Join, Goto, IInv, TypeOK, Same, PhaseOf, AnswerOf, Settled, callVars
  <1>2. Only(c)
    BY OthersSeeNothing DEF Join, Goto, IInv, TypeOK, callVars
  <1>3. QED
    BY <1>1, <1>2, Stutters DEF Only, Join

\* Whoever waits on an earlier call of the same deployment stays answered, because
\* the new one is a call nobody holds.
LEMMA LeadRefines ==
  ASSUME IInv, NEW c \in Callers, Lead(c)
  PROVE  UNCHANGED Gate!vars
  <1> USE DEF IInv, TypeOK, Goto
  <1>1. PICK x \in Calls :
          /\ \A d \in Callers : call[d] # x
          /\ inFlight' = [inFlight EXCEPT ![at[c]] = x]
          /\ result' = [result EXCEPT ![x] = NoResult]
    BY DEF Lead, Unreferenced
  <1>2. Same(c)
    BY DEF Lead, Same, PhaseOf, AnswerOf, Settled
  <1>3. ASSUME NEW d \in Callers \ {c} PROVE Same(d)
    <2>1. /\ pc'[d] = pc[d] /\ call'[d] = call[d]
          /\ UNCHANGED <<at, want, outcome>>
      BY DEF Lead
    <2>2. pc[d] \in {"waiting", "close"} => result'[call[d]] = result[call[d]]
      BY <1>1, SentinelsAreFresh DEF HoldsInv, Owning, Leading
    <2>3. Settled(d)' = Settled(d)
      BY <1>1, <2>1, SentinelsAreFresh DEF Settled, Lead, HoldsInv, Owning, Leading
    <2>4. Settled(d) /\ pc[d] # "returned" => pc[d] \in {"waiting", "close"}
      BY DEF Settled
    <2>5. QED
      BY <2>1, <2>2, <2>3, <2>4 DEF Same, PhaseOf, AnswerOf
  <1>4. QED
    BY <1>2, <1>3, Stutters DEF Lead

\* The result is written while everybody who waits on it is still unanswered.
LEMMA FetchReturnsRefines ==
  ASSUME IInv, NEW c \in Callers, FetchReturns(c)
  PROVE  UNCHANGED Gate!vars
  <1> USE DEF IInv, TypeOK, Goto
  <1>1. PICK r : result' = [result EXCEPT ![call[c]] = r]
    BY DEF FetchReturns
  <1>2. /\ pc[c] = "fetching" /\ pc' = [pc EXCEPT ![c] = "relock"]
        /\ UNCHANGED <<served, groups, inFlight, at, want, call, cancelled, outcome>>
    BY DEF FetchReturns, cacheVars
  <1>3. Same(c)
    BY <1>2 DEF Same, PhaseOf, AnswerOf, Settled
  <1>4. ASSUME NEW d \in Callers \ {c} PROVE Same(d)
    <2>1. Settled(d)' = Settled(d)
      BY <1>2 DEF Settled
    <2>2. Settled(d) /\ pc[d] # "returned" => call[d] # call[c]
      BY <1>2 DEF Settled, OwnerInv, WaitInv, Owning, Leading
    <2>3. Settled(d) /\ pc[d] # "returned" => result'[call[d]] = result[call[d]]
      BY <1>1, <2>2
    <2>4. QED
      BY <1>2, <2>1, <2>3 DEF Same, PhaseOf, AnswerOf
  <1>5. QED
    BY <1>2, <1>3, <1>4, Stutters

\* A caller that was already answered returns; if it leaves the call to others,
\* its result stays.
LEMMA ReturnRefines ==
  ASSUME IInv, NEW c \in Callers, pc[c] # "idle", pc[c] # "returned", Settled(c),
         pc' = [pc EXCEPT ![c] = "returned"], ReturnCall(c),
         UNCHANGED <<served, cacheVars, at, want, cancelled>>
  PROVE  UNCHANGED Gate!vars
  <1> USE DEF IInv, TypeOK
  <1>1. Same(c)
    BY DEF ReturnCall, Same, PhaseOf, AnswerOf, Settled
  <1>2. ASSUME NEW d \in Callers \ {c} PROVE Same(d)
    <2>1. /\ pc'[d] = pc[d] /\ call'[d] = call[d] /\ outcome'[d] = outcome[d]
          /\ UNCHANGED <<at, want, inFlight>>
      BY DEF ReturnCall, cacheVars
    <2>2. Settled(d)' = Settled(d)
      BY <2>1 DEF Settled
    <2>3. Settled(d) /\ pc[d] # "returned" => result'[call[d]] = result[call[d]]
      BY SentinelsAreFresh DEF ReturnCall, Settled, HoldsInv, Owning, Leading
    <2>4. QED
      BY <2>1, <2>2, <2>3 DEF Same, PhaseOf, AnswerOf
  <1>3. QED
    BY <1>1, <1>2, Stutters DEF cacheVars

LEMMA CloseDoneRefines ==
  ASSUME IInv, NEW c \in Callers, CloseDone(c)
  PROVE  UNCHANGED Gate!vars
  BY ReturnRefines DEF CloseDone, Goto, Settled

\* What has been closed is not in flight any more.
LEMMA WakeRefines ==
  ASSUME IInv, NEW c \in Callers, Wake(c)
  PROVE  UNCHANGED Gate!vars
  <1>1. Settled(c)
    BY DEF Wake, Goto, Settled, IInv, TypeOK, DoneInv
  <1>2. QED
    BY <1>1, ReturnRefines DEF Wake, Goto

-----------------------------------------------------------------------------
(* Steps that answer by a probe.                                            *)

\* A step answers the callers in S with r: the abstract gate's AnswerByProbe.
LEMMA ProbeAnswers ==
  ASSUME NEW u \in BaseURLs, NEW S \in SUBSET Callers, NEW r \in Gate!Results, S # {},
         groups[u] = NotCached, Gate!Possible(r, u, S),
         groups' = IF r.err = "nil" THEN [groups EXCEPT ![u] = r.groups] ELSE groups,
         UNCHANGED <<served, at, want, cancelled>>,
         \A d \in S : /\ at[d] = u /\ PhaseOf(d) = "asking" /\ PhaseOf(d)' = "answered"
                      /\ AnswerOf(d)' = Verdict(r, want[d]),
         \A d \in Callers \ S : Same(d)
  PROVE  Gate!Next
  <1>1. \A d \in S : Phases[d] = "asking" /\ at[d] = u
    BY DEF Phases
  <1>2. Phases' = [d \in Callers |-> IF d \in S THEN "answered" ELSE Phases[d]]
    BY DEF Phases, Same
  <1>3. Answers' = [d \in Callers |-> IF d \in S THEN Gate!Judge(r, want[d]) ELSE Answers[d]]
    BY JudgeIsVerdict DEF Answers, Same
  <1>4. Gate!AnswerByProbe(u, S, r)
    BY <1>1, <1>2, <1>3 DEF Gate!AnswerByProbe, Phases, Answers, PhaseOf, AnswerOf
  <1>5. QED
    BY <1>4 DEF Gate!Next

\* A probe that panics fails its leader's call alone.
LEMMA FetchPanicsRefines ==
  ASSUME IInv, NEW c \in Callers, FetchPanics(c)
  PROVE  Gate!Next
  <1> DEFINE r == [groups |-> {}, err |-> "failed"]
  <1>1. r \in Gate!Results /\ Gate!Possible(r, at[c], {c})
    BY DEF Gate!Results, Gate!Possible
  <1>2. groups[at[c]] = NotCached
    BY DEF FetchPanics, Goto, IInv, TypeOK, OwnerInv, FlightInv, HoldsInv, Owning, Leading
  <1>3. /\ PhaseOf(c) = "asking" /\ PhaseOf(c)' = "answered"
        /\ AnswerOf(c)' = Verdict(r, want[c])
    BY DEF FetchPanics, Goto, IInv, TypeOK, PhaseOf, AnswerOf, Settled, Verdict
  <1>4. \A d \in Callers \ {c} : Same(d)
    BY DEF FetchPanics, Goto, IInv, TypeOK, Same, PhaseOf, AnswerOf, Settled, cacheVars, callVars
  <1>5. at[c] \in BaseURLs /\ UNCHANGED <<served, groups, at, want, cancelled>>
    BY DEF FetchPanics, IInv, TypeOK, cacheVars
  <1>6. r.err # "nil"
    OBVIOUS
  <1> HIDE DEF r
  <1>7. QED
    BY <1>1, <1>2, <1>3, <1>4, <1>5, <1>6, ProbeAnswers

\* Publication answers the leader and whoever waits on its call.
Sharing(c) == { d \in Callers : call[d] = call[c] }

LEMMA PublishRefines ==
  ASSUME IInv, ResultInv, NEW c \in Callers, Publish(c)
  PROVE  Gate!Next
  <1> DEFINE found == result[call[c]]
             r == [groups |-> found.groups, err |-> found.err]
             u == at[c]
  <1> USE DEF IInv, TypeOK, Goto
  <1>1. /\ pc[c] = "publish" /\ pc' = [pc EXCEPT ![c] = "close"]
        /\ inFlight' = [inFlight EXCEPT ![u] = NoCall]
        /\ groups' = IF r.err = "nil" THEN [groups EXCEPT ![u] = r.groups] ELSE groups
        /\ UNCHANGED <<served, result, at, want, call, cancelled, outcome>>
    BY DEF Publish, callVars
  <1>2. call[c] \in Calls /\ inFlight[u] = call[c] /\ call[c] # NoCall /\ groups[u] = NotCached
    BY <1>1 DEF OwnerInv, FlightInv, HoldsInv, Owning, Leading
  <1>3. \A d \in Sharing(c) \ {c} : pc[d] = "waiting" /\ at[d] = u
    BY <1>1, <1>2 DEF Sharing, HoldsInv, OwnerInv, WaitInv, Owning, Leading
  <1>4. r \in Gate!Results /\ Gate!Possible(r, u, Sharing(c))
    <2>1. found \in ProbeResults(c)
      BY <1>1 DEF ResultInv
    <2>2. c \in Sharing(c)
      BY DEF Sharing
    <2> HIDE DEF found
    <2>3. r.groups = found.groups /\ r.err = found.err
      OBVIOUS
    <2>4. QED
      BY <2>1, <2>2, <2>3 DEF ProbeResults, Errors, Gate!Results, Gate!Possible
  <1>5. ASSUME NEW d \in Sharing(c)
        PROVE  /\ at[d] = u /\ PhaseOf(d) = "asking" /\ PhaseOf(d)' = "answered"
               /\ AnswerOf(d)' = Verdict(r, want[d])
    <2>1. AnswerOf(d)' = Verdict(found, want[d])
      BY <1>1, <1>2, <1>3 DEF Sharing, PhaseOf, AnswerOf, Settled
    <2>2. Verdict(r, want[d]) = Verdict(found, want[d])
      BY DEF Verdict
    <2>3. QED
      BY <1>1, <1>2, <1>3, <2>1, <2>2 DEF Sharing, PhaseOf, Settled
  <1>6. ASSUME NEW d \in Callers \ Sharing(c)
        PROVE  Same(d)
    <2>1. d # c /\ call[d] # call[c]
      BY DEF Sharing
    <2>2. Settled(d)' = Settled(d)
      BY <1>1, <1>2, <2>1 DEF Settled, HoldsInv, Owning, Leading
    <2>3. QED
      BY <1>1, <2>1, <2>2 DEF Same, PhaseOf, AnswerOf
  <1>7. Sharing(c) \in SUBSET Callers /\ Sharing(c) # {}
    BY DEF Sharing
  <1>8. u \in BaseURLs
    OBVIOUS
  <1> HIDE DEF IInv, TypeOK, found, r, u
  <1>9. QED
    BY <1>1, <1>2, <1>4, <1>5, <1>6, <1>7, <1>8, ProbeAnswers

LEMMA NextRefines == IInv /\ ResultInv /\ [Next]_vars => [Gate!Next]_(Gate!vars)
  <1> SUFFICES ASSUME IInv, ResultInv, [Next]_vars
               PROVE  Gate!Next \/ UNCHANGED Gate!vars
    OBVIOUS
  <1>1. CASE UNCHANGED vars
    <2>1. \A c \in Callers : Same(c)
      BY <1>1 DEF vars, Same, PhaseOf, AnswerOf, Settled
    <2>2. QED
      BY <1>1, <2>1, Stutters DEF vars
  <1>2. ASSUME NEW c \in Callers, NEW u \in BaseURLs, NEW g \in Groups, Ask(c, u, g)
        PROVE  Gate!Next
    BY <1>2, AskRefines DEF Gate!Next
  <1>3. ASSUME NEW c \in Callers, RejectOptions(c) \/ Cancel(c) \/ Hit(c)
        PROVE  Gate!Next
    BY <1>3, RejectOptionsRefines, CancelRefines, HitRefines DEF Gate!Next
  <1>4. ASSUME NEW c \in Callers, FetchPanics(c) \/ Publish(c)
        PROVE  Gate!Next
    BY <1>4, FetchPanicsRefines, PublishRefines
  <1>5. ASSUME NEW c \in Callers,
               Lock(c) \/ Join(c) \/ Lead(c) \/ FetchReturns(c) \/ CloseDone(c) \/ Wake(c)
        PROVE  UNCHANGED Gate!vars
    BY <1>5, LockRefines, JoinRefines, LeadRefines, FetchReturnsRefines, CloseDoneRefines,
       WakeRefines
  <1>6. QED
    BY <1>1, <1>2, <1>3, <1>4, <1>5 DEF Next, Resolve

\* The cache, with its mutex, its calls in flight and its waiters, implements the
\* abstract gate: every answer comes from what is known of the deployment or from
\* one probe, which answers at once all the callers that joined it.
THEOREM RefinesGate == Spec => ImplementsGate
  <1>1. Init => ResultInv
    BY DEF Init, ResultInv
  <1>2. QED
    BY <1>1, Invariance, NextResultInv, InitRefines, NextRefines, PTL
       DEF Spec, ImplementsGate, Gate!Spec
=============================================================================
