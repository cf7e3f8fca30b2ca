----------------------- MODULE RequestPipelineProofs -----------------------
(***************************************************************************)
(* Theorems about RequestPipeline, for every number of retries, every kind *)
(* of call and every way a credential provider may fail.  IInv is the      *)
(* inductive invariant: it counts what is on the wire against what has     *)
(* been sent, and says what each answer under way tells of the deployment. *)
(* The second part is about RetryDelay, which says how long the pipeline   *)
(* sleeps; DelayInv is its inductive invariant.                            *)
(***************************************************************************)
EXTENDS RequestPipeline, RetryDelay, FiniteSetTheorems, WellFoundedInduction, TLAPS

\* The requests that may have been sent so far.
Sent == IF pc = "attempt" THEN attempt ELSE attempt + 1

\* Each of them is on the wire or has been performed, at most.
CountInv == IsFiniteSet(wire) /\ applied + Cardinality(wire) <= Sent

\* Where the call is, against what it has in hand.
PlaceInv ==
    /\ pc = "sleeping" => attempt < MaxRetries
    /\ pc = "failed" => err # "nil"
    /\ verdict = "pending" <=> pc \notin {"streaming", "returned"}
    /\ err = "userAbort" => ctx = "cancelled"

\* Every request of the call carries its key, if it is to carry one.
KeyInv ==
    /\ request.guard # "none" => request.mutating
    /\ request.keyed /\ request.mutating => \A m \in wire : m.key

\* A guarded mutation ends what it depends on.
GuardInv == request.guard # "none" /\ applied > 0 => ~fresh

\* A success is of a request that was performed.
SuccessInv ==
    \A r \in replies \cup {resp} :
        r.status = "success" /\ request.mutating => applied > 0

\* The resource is not what the mutation depends on, by the doing of others: the
\* call will never perform it.
Lost == request.guard # "none" /\ ~fresh /\ applied = 0

\* A refusal that is under way, in hand or returned is a lost call's.
HonestInv ==
    request.keyed \/ attempt = 0 =>
        /\ \A r \in replies \cup {resp} : r.status \in Refusals => Lost
        /\ verdict \in Refusals => Lost

IInv == TypeOK /\ CountInv /\ PlaceInv /\ KeyInv /\ GuardInv /\ SuccessInv /\ HonestInv
          /\ ContextsAreReleased /\ ProtectedMutationIsAppliedOnce

-----------------------------------------------------------------------------

\* Taking a request off the wire makes room for one performance.
LEMMA TakenOff ==
  ASSUME TypeOK, CountInv, NEW m \in wire
  PROVE  /\ IsFiniteSet(wire \ {m})
         /\ Cardinality(wire \ {m}) \in Nat
         /\ applied + 1 + Cardinality(wire \ {m}) <= Sent
         /\ applied < Sent
  <1>1. IsFiniteSet(wire \ {m}) /\ Cardinality(wire \ {m}) = Cardinality(wire) - 1
    BY FS_RemoveElement DEF CountInv
  <1>2. Cardinality(wire) \in Nat /\ Cardinality(wire \ {m}) \in Nat
    BY <1>1, FS_CardinalityType DEF CountInv
  <1>3. applied \in Nat /\ Sent \in Nat
    BY PipelineAssumption DEF TypeOK, Sent, Attempts
  <1>4. QED
    BY <1>1, <1>2, <1>3 DEF CountInv

LEMMA SentBound ==
  ASSUME TypeOK
  PROVE  Sent \in 0..(MaxRetries + 1)
  BY PipelineAssumption DEF TypeOK, Sent, Attempts

LEMMA InitIInv == Init => IInv
  <1> SUFFICES ASSUME Init PROVE IInv
    OBVIOUS
  <1> USE PipelineAssumption DEF Init
  <1>1. TypeOK
    BY DEF TypeOK, Attempts, Steps, NoResponse, Response
  <1>2. CountInv
    BY FS_EmptySet DEF CountInv, Sent
  <1>3. PlaceInv /\ KeyInv /\ GuardInv
    BY DEF PlaceInv, KeyInv, GuardInv
  <1>4. SuccessInv /\ HonestInv
    BY DEF SuccessInv, HonestInv, NoResponse, Refusals
  <1>5. ContextsAreReleased /\ ProtectedMutationIsAppliedOnce
    BY DEF ContextsAreReleased, ProtectedMutationIsAppliedOnce
  <1>6. QED
    BY <1>1, <1>2, <1>3, <1>4, <1>5 DEF IInv

-----------------------------------------------------------------------------
(* The client's steps.                                                      *)

\* A request goes out under its number, with its key.
LEMMA SendKeepsIInv ==
  ASSUME IInv, Send
  PROVE  IInv'
  <1> USE PipelineAssumption DEF IInv, TypeOK, Send, Goto
  <1> DEFINE m == [number |-> attempt, key |-> SendsKey(attempt)]
  <1>1. m \in [number : Attempts, key : BOOLEAN] /\ wire' = wire \cup {m}
    BY DEF SendsKey, Request
  <1>2. TypeOK'
    BY <1>1 DEF Steps
  <1>3. CountInv'
    <2>1. IsFiniteSet(wire) /\ Cardinality(wire) \in Nat
      BY FS_CardinalityType DEF CountInv
    <2>2. /\ IsFiniteSet(wire \cup {m})
          /\ Cardinality(wire \cup {m}) =
               IF m \in wire THEN Cardinality(wire) ELSE Cardinality(wire) + 1
      BY <2>1, FS_AddElement
    <2>3. Sent' = Sent + 1
      BY DEF Sent
    <2>4. wire' = wire \cup {m} /\ applied' = applied
      BY <1>1
    <2>5. applied \in Nat /\ Sent \in Nat /\ applied + Cardinality(wire) <= Sent
      BY SentBound DEF CountInv
    <2> HIDE DEF m, IInv, TypeOK, Send, Goto
    <2>6. applied + Cardinality(wire \cup {m}) <= Sent + 1
      BY <2>1, <2>2, <2>5
    <2>7. QED
      BY <2>2, <2>3, <2>4, <2>6 DEF CountInv
  <1>4. KeyInv'
    <2> SUFFICES ASSUME request.keyed, request.mutating, NEW n \in wire'
                 PROVE  n.key
      BY Zenon DEF KeyInv
    <2>1. m.key = SendsKey(attempt)
      OBVIOUS
    <2>2. SendsKey(attempt)
      BY Zenon DEF SendsKey
    <2> HIDE DEF m
    <2>3. m.key
      BY <2>1, <2>2, Zenon
    <2>4. CASE n \in wire
      BY <2>4, Zenon DEF KeyInv
    <2>5. QED
      BY <1>1, <2>3, <2>4
  <1>5. PlaceInv' /\ GuardInv' /\ SuccessInv' /\ HonestInv'
    BY DEF PlaceInv, GuardInv, SuccessInv, HonestInv, Lost
  <1>6. ContextsAreReleased' /\ ProtectedMutationIsAppliedOnce'
    BY DEF ContextsAreReleased, ProtectedMutationIsAppliedOnce
  <1>7. QED
    BY <1>2, <1>3, <1>4, <1>5, <1>6

\* The rest of what the client does neither sends nor forges an answer.
Quiet ==
    \/ SendOnDeadContext \/ PrepareFails \/ RoundTripFails \/ ResponseArrives
    \/ RetryAfterError \/ GiveUpOnError \/ RetryAfterResponse
    \/ SleepEnds \/ SleepInterrupted \/ DoReturns \/ ReadBody \/ ReadBodyFails
    \/ CloseStream

LEMMA QuietTypes ==
  ASSUME IInv, Quiet
  PROVE  TypeOK' /\ PlaceInv'
  <1> USE PipelineAssumption
      DEF IInv, TypeOK, PlaceInv, Goto, Return, FromTransport, Steps, Attempts, Verdicts,
          CallErrors, TransportErrors, Refusals, serverVars
  <1>1. CASE SendOnDeadContext
    BY <1>1 DEF SendOnDeadContext
  <1>2. CASE PrepareFails
    BY <1>2 DEF PrepareFails
  <1>3. CASE RoundTripFails
    BY <1>3 DEF RoundTripFails
  <1>4. CASE ResponseArrives
    BY <1>4 DEF ResponseArrives
  <1>5. CASE RetryAfterError
    BY <1>5 DEF RetryAfterError
  <1>6. CASE GiveUpOnError
    BY <1>6 DEF GiveUpOnError
  <1>7. CASE RetryAfterResponse
    BY <1>7 DEF RetryAfterResponse, NoResponse, Response
  <1>8. CASE SleepEnds
    BY <1>8 DEF SleepEnds
  <1>9. CASE SleepInterrupted
    BY <1>9 DEF SleepInterrupted
  <1>10. CASE DoReturns
    BY <1>10 DEF DoReturns
  <1>11. CASE ReadBody
    BY <1>11 DEF ReadBody, FromResponse
  <1>12. CASE ReadBodyFails
    BY <1>12 DEF ReadBodyFails
  <1>13. CASE CloseStream
    BY <1>13 DEF CloseStream
  <1>14. QED
    BY <1>1, <1>2, <1>3, <1>4, <1>5, <1>6, <1>7, <1>8, <1>9, <1>10, <1>11, <1>12, <1>13
       DEF Quiet

\* Nothing but the answer in hand is new to the invariants about the deployment.
LEMMA QuietKeepsIInv ==
  ASSUME IInv, Quiet
  PROVE  IInv'
  <1> USE PipelineAssumption DEF IInv
  <1>1. TypeOK' /\ PlaceInv'
    BY QuietTypes
  <1>2. UNCHANGED <<kind, request, wire, applied, fresh>>
    BY DEF Quiet, SendOnDeadContext, PrepareFails, RoundTripFails, ResponseArrives,
           RetryAfterError, GiveUpOnError, RetryAfterResponse, SleepEnds,
           SleepInterrupted, DoReturns, ReadBody, ReadBodyFails, CloseStream, serverVars
  <1>3. Sent' \in {Sent, Sent + 1} /\ attempt' \in {attempt, attempt + 1}
    BY DEF Quiet, SendOnDeadContext, PrepareFails, RoundTripFails, ResponseArrives,
           RetryAfterError, GiveUpOnError, RetryAfterResponse, SleepEnds,
           SleepInterrupted, DoReturns, ReadBody, ReadBodyFails, CloseStream, serverVars,
           Goto, Return, Sent, TypeOK, Attempts
  <1>4. CountInv'
    <2>1. Cardinality(wire) \in Nat /\ IsFiniteSet(wire)
      BY FS_CardinalityType DEF CountInv
    <2>2. applied \in Nat /\ Sent \in Nat /\ applied + Cardinality(wire) <= Sent
      BY SentBound DEF CountInv, TypeOK
    <2> HIDE DEF IInv
    <2>3. applied + Cardinality(wire) <= Sent'
      BY <1>3, <2>1, <2>2
    <2>4. QED
      BY <1>2, <2>1, <2>3 DEF CountInv
  <1>5. KeyInv' /\ GuardInv' /\ ProtectedMutationIsAppliedOnce'
    BY <1>2 DEF KeyInv, GuardInv, ProtectedMutationIsAppliedOnce
  <1>6. replies' \cup {resp'} \subseteq replies \cup {resp, NoResponse}
    BY DEF Quiet, SendOnDeadContext, PrepareFails, RoundTripFails, ResponseArrives,
           RetryAfterError, GiveUpOnError, RetryAfterResponse, SleepEnds,
           SleepInterrupted, DoReturns, ReadBody, ReadBodyFails, CloseStream, serverVars
  <1>7. verdict' \in Refusals => verdict \in Refusals \/ resp.status \in Refusals
    BY DEF Quiet, SendOnDeadContext, PrepareFails, RoundTripFails, ResponseArrives,
           RetryAfterError, GiveUpOnError, RetryAfterResponse, SleepEnds,
           SleepInterrupted, DoReturns, ReadBody, ReadBodyFails, CloseStream, serverVars,
           Return, FromTransport, FromResponse, Refusals, TypeOK, CallErrors, TransportErrors
  <1>8. SuccessInv'
    BY <1>2, <1>6 DEF SuccessInv, NoResponse
  <1>9. HonestInv'
    BY <1>1, <1>2, <1>3, <1>6, <1>7 DEF HonestInv, Lost, NoResponse, Refusals, TypeOK, Attempts
  <1>10. ContextsAreReleased'
    BY DEF Quiet, SendOnDeadContext, PrepareFails, RoundTripFails, ResponseArrives,
           RetryAfterError, GiveUpOnError, RetryAfterResponse, SleepEnds,
           SleepInterrupted, DoReturns, ReadBody, ReadBodyFails, CloseStream,
           Goto, Return, ContextsAreReleased
  <1>11. QED
    BY <1>1, <1>4, <1>5, <1>8, <1>9, <1>10

-----------------------------------------------------------------------------
(* The steps of the others.                                                 *)

LEMMA EndContextKeepsIInv ==
  ASSUME IInv, EndContext
  PROVE  IInv'
  <1> USE DEF IInv, EndContext, clientVars, serverVars
  <1>1. TypeOK'
    BY DEF TypeOK
  <1>2. CountInv'
    BY DEF CountInv, Sent
  <1>3. PlaceInv' /\ KeyInv' /\ GuardInv'
    BY DEF PlaceInv, KeyInv, GuardInv
  <1>4. SuccessInv' /\ HonestInv'
    BY DEF SuccessInv, HonestInv, Lost
  <1>5. ContextsAreReleased' /\ ProtectedMutationIsAppliedOnce'
    BY DEF ContextsAreReleased, ProtectedMutationIsAppliedOnce
  <1>6. QED
    BY <1>1, <1>2, <1>3, <1>4, <1>5

LEMMA OthersChangeKeepsIInv ==
  ASSUME IInv, OthersChange
  PROVE  IInv'
  <1> USE DEF IInv, OthersChange, clientVars
  <1>1. TypeOK'
    BY DEF TypeOK
  <1>2. CountInv'
    BY DEF CountInv, Sent
  <1>3. PlaceInv' /\ KeyInv' /\ GuardInv'
    BY DEF PlaceInv, KeyInv, GuardInv
  <1>4. SuccessInv' /\ HonestInv'
    BY DEF SuccessInv, HonestInv, Lost
  <1>5. ContextsAreReleased' /\ ProtectedMutationIsAppliedOnce'
    BY DEF ContextsAreReleased, ProtectedMutationIsAppliedOnce
  <1>6. QED
    BY <1>1, <1>2, <1>3, <1>4, <1>5

\* What an answer to m leaves as it was, and what it may add.
LEMMA AnswerSays ==
  ASSUME TypeOK, NEW m \in wire, NEW S, Answer(m, S)
  PROVE  /\ wire' = wire \ {m}
         /\ replies' \subseteq Response
         /\ \A r \in replies' : r \in replies \/ (r.status \in S /\ pc = "flight")
  BY DEF Answer, TypeOK

\* A request is performed: for the first time, if it is protected.
LEMMA PerformRequestKeepsIInv ==
  ASSUME IInv, PerformRequest
  PROVE  IInv'
  <1> USE PipelineAssumption DEF IInv
  <1>1. PICK m \in wire :
          /\ Admitted(m)
          /\ Answer(m, {"success", "transient"})
          /\ applied' = IF request.mutating /\ ~Recognised(m) THEN applied + 1 ELSE applied
          /\ fresh' = (fresh /\ request.guard = "none")
          /\ UNCHANGED <<clientVars, ctx>>
    BY DEF PerformRequest
  <1>2. /\ wire' = wire \ {m}
        /\ replies' \subseteq Response
        /\ \A r \in replies' : r \in replies \/ (r.status \in {"success", "transient"} /\ pc = "flight")
    BY <1>1, AnswerSays
  <1>3. applied \in Nat /\ applied' \in {applied, applied + 1}
    BY <1>1 DEF TypeOK
  <1>4. applied + 1 + Cardinality(wire \ {m}) <= Sent /\ Cardinality(wire \ {m}) \in Nat
          /\ IsFiniteSet(wire \ {m}) /\ applied < Sent
    BY TakenOff
  <1>5. CountInv'
    BY <1>1, <1>2, <1>3, <1>4, SentBound DEF CountInv, Sent, clientVars
  <1>6. TypeOK'
    BY <1>1, <1>2, <1>3, <1>4, SentBound DEF TypeOK, clientVars
  <1>7. PlaceInv' /\ KeyInv' /\ ContextsAreReleased'
    BY <1>1, <1>2 DEF PlaceInv, KeyInv, ContextsAreReleased, clientVars
  \* What is protected is not performed a second time.
  <1>8. (request.keyed \/ request.guard # "none") /\ applied > 0 => applied' = applied
    <2>1. CASE request.keyed
      BY <1>1, <2>1 DEF KeyInv, Recognised
    <2>2. CASE request.guard # "none"
      BY <1>1, <2>2 DEF GuardInv, Admitted
    <2>3. QED
      BY <2>1, <2>2
  <1>9. ProtectedMutationIsAppliedOnce'
    BY <1>1, <1>3, <1>8 DEF ProtectedMutationIsAppliedOnce, clientVars
  <1>10. GuardInv'
    BY <1>1 DEF GuardInv, clientVars
  <1>11. SuccessInv'
    BY <1>1, <1>2, <1>3 DEF SuccessInv, Recognised, clientVars
  \* A lost call has nothing on the wire that could be performed.
  <1>12. ~Lost
    BY <1>1, <1>3 DEF Lost, Admitted, Recognised
  <1>13. HonestInv'
    BY <1>1, <1>2, <1>12 DEF HonestInv, Refusals, clientVars
  <1>14. QED
    BY <1>5, <1>6, <1>7, <1>9, <1>10, <1>11, <1>13

\* A request is refused for its guard: then the call is lost, unless it is an
\* unkeyed one that has been sent before.
LEMMA RejectStaleKeepsIInv ==
  ASSUME IInv, RejectStale
  PROVE  IInv'
  <1> USE PipelineAssumption DEF IInv
  <1>1. PICK m \in wire :
          /\ ~Admitted(m)
          /\ Answer(m, {IF request.guard = "exists" THEN "notFound" ELSE "conflict"})
          /\ UNCHANGED <<clientVars, ctx, applied, fresh>>
    BY DEF RejectStale
  <1>2. /\ wire' = wire \ {m}
        /\ replies' \subseteq Response
        /\ \A r \in replies' : r \in replies \/ (r.status # "success" /\ pc = "flight")
    BY <1>1, AnswerSays
  <1>3. applied \in Nat
    BY DEF TypeOK
  <1>4. applied + 1 + Cardinality(wire \ {m}) <= Sent /\ Cardinality(wire \ {m}) \in Nat
          /\ IsFiniteSet(wire \ {m})
    BY TakenOff
  <1>5. CountInv'
    BY <1>1, <1>2, <1>3, <1>4, SentBound DEF CountInv, Sent, clientVars
  <1>6. TypeOK'
    BY <1>1, <1>2 DEF TypeOK, clientVars
  <1>7. PlaceInv' /\ KeyInv' /\ GuardInv'
    BY <1>1, <1>2 DEF PlaceInv, KeyInv, GuardInv, clientVars
  <1>8. ContextsAreReleased' /\ ProtectedMutationIsAppliedOnce'
    BY <1>1 DEF ContextsAreReleased, ProtectedMutationIsAppliedOnce, clientVars
  <1>9. SuccessInv'
    BY <1>1, <1>2 DEF SuccessInv, clientVars
  <1>10. ASSUME pc = "flight", request.keyed \/ attempt = 0
         PROVE  Lost
    <2>1. request.guard # "none" /\ ~fresh /\ request.mutating
      BY <1>1 DEF Admitted, KeyInv
    <2>2. CASE request.keyed
      BY <1>1, <1>3, <2>1, <2>2 DEF Admitted, Recognised, KeyInv, Lost
    <2>3. CASE attempt = 0
      BY <1>3, <1>4, <1>10, <2>1, <2>3 DEF Sent, Lost
    <2>4. QED
      BY <1>10, <2>2, <2>3
  <1>11. HonestInv'
    BY <1>1, <1>2, <1>10 DEF HonestInv, Lost, clientVars
  <1>12. QED
    BY <1>5, <1>6, <1>7, <1>8, <1>9, <1>11

\* Nothing is said of the resource.
LEMMA RefuseRequestKeepsIInv ==
  ASSUME IInv, RefuseRequest
  PROVE  IInv'
  <1> USE PipelineAssumption DEF IInv
  <1>1. PICK m \in wire : /\ Answer(m, {"transient", "permanent"})
                          /\ UNCHANGED <<clientVars, ctx, applied, fresh>>
    BY DEF RefuseRequest
  <1>2. /\ wire' = wire \ {m}
        /\ replies' \subseteq Response
        /\ \A r \in replies' : r \in replies \/ r.status \in {"transient", "permanent"}
    BY <1>1, AnswerSays
  <1>3. applied \in Nat
    BY DEF TypeOK
  <1>4. applied + 1 + Cardinality(wire \ {m}) <= Sent /\ Cardinality(wire \ {m}) \in Nat
          /\ IsFiniteSet(wire \ {m})
    BY TakenOff
  <1>5. CountInv'
    BY <1>1, <1>2, <1>3, <1>4, SentBound DEF CountInv, Sent, clientVars
  <1>6. TypeOK'
    BY <1>1, <1>2 DEF TypeOK, clientVars
  <1>7. PlaceInv' /\ KeyInv' /\ GuardInv'
    BY <1>1, <1>2 DEF PlaceInv, KeyInv, GuardInv, clientVars
  <1>8. ContextsAreReleased' /\ ProtectedMutationIsAppliedOnce'
    BY <1>1 DEF ContextsAreReleased, ProtectedMutationIsAppliedOnce, clientVars
  <1>9. SuccessInv' /\ HonestInv'
    BY <1>1, <1>2 DEF SuccessInv, HonestInv, Lost, Refusals, clientVars
  <1>10. QED
    BY <1>5, <1>6, <1>7, <1>8, <1>9

-----------------------------------------------------------------------------

LEMMA NextIInv == IInv /\ [Next]_vars => IInv'
  <1> SUFFICES ASSUME IInv, [Next]_vars PROVE IInv'
    OBVIOUS
  <1>1. CASE Send
    BY <1>1, SendKeepsIInv
  <1>2. CASE Quiet
    BY <1>2, QuietKeepsIInv
  <1>3. CASE EndContext
    BY <1>3, EndContextKeepsIInv
  <1>4. CASE PerformRequest
    BY <1>4, PerformRequestKeepsIInv
  <1>5. CASE RejectStale
    BY <1>5, RejectStaleKeepsIInv
  <1>6. CASE RefuseRequest
    BY <1>6, RefuseRequestKeepsIInv
  <1>7. CASE OthersChange
    BY <1>7, OthersChangeKeepsIInv
  <1>8. CASE UNCHANGED vars
    BY <1>8 DEF vars, clientVars, serverVars, IInv, TypeOK, CountInv, Sent, PlaceInv, KeyInv,
                GuardInv, SuccessInv, HonestInv, Lost, ContextsAreReleased,
                ProtectedMutationIsAppliedOnce
  <1>9. QED
    BY <1>1, <1>2, <1>3, <1>4, <1>5, <1>6, <1>7, <1>8 DEF Next, Client, Quiet

\* The inductive invariant holds in every reachable state.
THEOREM Invariance == Spec => []IInv
  BY InitIInv, NextIInv, PTL DEF Spec

\* Every variable keeps its type; in particular a mutation is performed at most
\* once per attempt.
THEOREM TypeCorrect == Spec => []TypeOK
  BY Invariance, PTL DEF IInv

\* On every path out of Do and its wrappers the attempt's context is released.
THEOREM ContextsReleased == Spec => []ContextsAreReleased
  BY Invariance, PTL DEF IInv

\* However often it is sent, a keyed or guarded mutation is performed once.
THEOREM ProtectedOnce == Spec => []ProtectedMutationIsAppliedOnce
  BY Invariance, PTL DEF IInv

\* A refusal of a call that carries a key, or was not retried, is not of its own
\* making.
THEOREM RefusalsAreHonest == Spec => []RefusalIsHonest
  <1>1. IInv => RefusalIsHonest
    BY DEF IInv, HonestInv, Lost, RefusalIsHonest
  <1>2. QED
    BY <1>1, Invariance, PTL

-----------------------------------------------------------------------------
(* The pipeline implements CallContract.                                    *)

\* The verdict as the contract has it.
Told(v) == IF v = "wrapped" THEN "request" ELSE v

\* An action that returns v to the caller is the contract's Return.
LEMMA Returned ==
  ASSUME IInv, NEW v \in Verdicts,
         verdict = "pending", verdict' = v,
         v = "ok" /\ request.mutating => applied > 0,
         v = "userAbort" => ctx = "cancelled",
         UNCHANGED <<request, ctx, applied>>
  PROVE  Contract!Next
  <1>1. Told(v) \in Contract!Verdicts
    BY DEF Told, Contract!Verdicts, Verdicts, Refusals, CallErrors, TransportErrors
  <1>2. Contract!Return(Told(v))
    BY DEF Contract!Return, Told
  <1>3. QED
    BY <1>1, <1>2 DEF Contract!Next

LEMMA InitRefines == Init => Contract!Init
  BY DEF Init, Request, Guards, Contract!Init

\* Every way the client ends the call, or does not.
LEMMA QuietRefines ==
  ASSUME IInv, Quiet
  PROVE  Contract!Next \/ UNCHANGED Contract!vars
  <1>1. UNCHANGED <<request, ctx, applied>>
    BY DEF Quiet, SendOnDeadContext, PrepareFails, RoundTripFails, ResponseArrives,
           RetryAfterError, GiveUpOnError, RetryAfterResponse, SleepEnds,
           SleepInterrupted, DoReturns, ReadBody, ReadBodyFails, CloseStream, serverVars
  <1>2. CASE UNCHANGED verdict
    BY <1>1, <1>2 DEF Contract!vars
  <1>3. CASE GiveUpOnError
    <2>1. err \in Verdicts /\ err # "ok" /\ (err = "userAbort" => ctx = "cancelled")
      BY <1>3 DEF GiveUpOnError, IInv, TypeOK, PlaceInv, Verdicts, CallErrors, TransportErrors
    <2>2. verdict = "pending" /\ verdict' = err
      BY <1>3 DEF GiveUpOnError, Return, IInv, PlaceInv
    <2>3. QED
      BY <1>1, <2>1, <2>2, Returned
  <1>4. CASE SleepInterrupted
    <2>1. PICK v \in {"userAbort", "timeout"} :
            verdict' = v /\ (v = "userAbort" => ctx = "cancelled")
      BY <1>4 DEF SleepInterrupted, Return, FromTransport
    <2>2. verdict = "pending"
      BY <1>4 DEF SleepInterrupted, IInv, PlaceInv
    <2>3. v \in Verdicts /\ v # "ok"
      BY DEF Verdicts, CallErrors, TransportErrors
    <2>4. QED
      BY <1>1, <2>1, <2>2, <2>3, Returned
  <1>5. CASE DoReturns
    <2>1. CASE verdict' = "stream"
      <3>1. verdict = "pending" /\ "stream" \in Verdicts
        BY <1>5 DEF DoReturns, IInv, PlaceInv, Verdicts
      <3>2. QED
        BY <1>1, <2>1, <3>1, Returned
    <2>2. QED
      BY <1>2, <1>5, <2>1 DEF DoReturns
  <1>6. CASE ReadBody
    <2>1. verdict = "pending"
      BY <1>6 DEF ReadBody, IInv, PlaceInv
    <2>2. PICK v \in Verdicts :
            /\ verdict' = v
            /\ v = "ok" => resp.status = "success"
            /\ v # "userAbort"
      BY <1>6 DEF ReadBody, Return, FromResponse, Verdicts, Refusals
    <2>3. v = "ok" /\ request.mutating => applied > 0
      BY <2>2 DEF IInv, SuccessInv
    <2>4. QED
      BY <1>1, <2>1, <2>2, <2>3, Returned
  <1>7. CASE ReadBodyFails
    <2>1. verdict = "pending"
      BY <1>7 DEF ReadBodyFails, IInv, PlaceInv
    <2>2. PICK v \in {"request", "decode"} : verdict' = v
      BY <1>7 DEF ReadBodyFails, Return
    <2>3. v \in Verdicts /\ v # "ok" /\ v # "userAbort"
      BY DEF Verdicts, CallErrors
    <2>4. QED
      BY <1>1, <2>1, <2>2, <2>3, Returned
  <1>8. QED
    BY <1>2, <1>3, <1>4, <1>5, <1>6, <1>7
       DEF Quiet, SendOnDeadContext, PrepareFails, RoundTripFails, ResponseArrives,
           RetryAfterError, RetryAfterResponse, SleepEnds, CloseStream

\* A performance is the contract's Apply: it stays within the limit, because
\* afterwards the invariant still holds.
LEMMA PerformRefines ==
  ASSUME IInv, IInv', PerformRequest
  PROVE  Contract!Next \/ UNCHANGED Contract!vars
  <1>1. /\ (applied' = applied + 1 /\ request.mutating) \/ applied' = applied
        /\ UNCHANGED <<request, ctx, verdict>>
    BY DEF PerformRequest, clientVars
  <1>2. CASE applied' = applied
    BY <1>1, <1>2 DEF Contract!vars
  <1>3. CASE applied' = applied + 1 /\ request.mutating
    <2>1. applied \in Nat /\ applied + 1 <= MaxRetries + 1
      BY <1>3, PipelineAssumption DEF IInv, TypeOK
    <2>2. request.keyed \/ request.guard # "none" => applied + 1 <= 1
      BY <1>1, <1>3 DEF IInv, ProtectedMutationIsAppliedOnce
    <2>3. applied < Contract!Limit
      BY <2>1, <2>2, PipelineAssumption DEF Contract!Limit
    <2>4. Contract!Apply
      BY <1>1, <1>3, <2>3 DEF Contract!Apply
    <2>5. QED
      BY <2>4 DEF Contract!Next
  <1>4. QED
    BY <1>1, <1>2, <1>3

LEMMA NextRefines ==
  IInv /\ IInv' /\ [Next]_vars => [Contract!Next]_(Contract!vars)
  <1> SUFFICES ASSUME IInv, IInv', [Next]_vars
               PROVE  Contract!Next \/ UNCHANGED Contract!vars
    OBVIOUS
  <1>1. CASE Quiet
    BY <1>1, QuietRefines
  <1>2. CASE PerformRequest
    BY <1>2, PerformRefines
  <1>3. CASE EndContext
    <2>1. Contract!EndContext
      BY <1>3 DEF EndContext, clientVars, serverVars, Contract!EndContext
    <2>2. QED
      BY <2>1 DEF Contract!Next
  <1>4. CASE Send \/ RejectStale \/ RefuseRequest \/ OthersChange \/ UNCHANGED vars
    <2>1. UNCHANGED <<request, ctx, applied, verdict>>
      BY <1>4 DEF Send, RejectStale, RefuseRequest, OthersChange, vars, clientVars, serverVars
    <2>2. QED
      BY <2>1 DEF Contract!vars
  <1>5. QED
    BY <1>1, <1>2, <1>3, <1>4 DEF Next, Client, Quiet

\* The pipeline, with its attempts, sleeps and lost answers, keeps the promises of
\* a call: bounded effect, once if protected, one verdict, and that no lie.
THEOREM RefinesContract == Spec => ImplementsContract
  BY Invariance, InitRefines, NextRefines, PTL DEF Spec, ImplementsContract, Contract!Spec

-----------------------------------------------------------------------------
(* How long Do waits between attempts: theorems about RetryDelay, for any   *)
(* durations, numbers and dates.                                            *)

\* A number of least size is one with no smaller one.
LEMMA LeastOfNaturals ==
  ASSUME NEW S \in SUBSET Nat, S # {}
  PROVE  \E i \in S : \A j \in S : i <= j
  <1>1. PICK i \in S : \A j \in S : <<j, i>> \notin OpToRel(<, Nat)
    BY WFMin, NatLessThanWellFounded, Zenon
  <1>2. \A j \in S : ~(j < i)
    BY <1>1, Zenon DEF OpToRel
  <1>3. \A j \in S : i <= j
    BY <1>2
  <1>4. QED
    BY <1>3

\* The doublings up to n.
IsDoubling(g, n) ==
    /\ g \in [0..n -> Nat]
    /\ g[0] = 1
    /\ \A i \in 1..n : g[i] = 2 * g[i - 1]

LEMMA DoublingExists ==
  ASSUME NEW n \in Nat
  PROVE  \E g : IsDoubling(g, n)
  <1> DEFINE S == { m \in Nat : ~ \E g : IsDoubling(g, m) }
  <1>1. SUFFICES ASSUME S # {} PROVE FALSE
    OBVIOUS
  <1>2. PICK m \in S : \A j \in S : m <= j
    BY <1>1, LeastOfNaturals
  <1>3. CASE m = 0
    <2>1. IsDoubling([i \in 0..0 |-> 1], 0)
      BY DEF IsDoubling
    <2>2. QED
      BY <1>2, <1>3, <2>1
  <1>4. CASE m # 0
    <2>1. m - 1 \in Nat /\ m - 1 \notin S
      BY <1>2, <1>4
    <2>2. PICK g : IsDoubling(g, m - 1)
      BY <2>1
    <2> DEFINE h == [i \in 0..m |-> IF i = m THEN 2 * g[m - 1] ELSE g[i]]
    <2>3. /\ g \in [0..(m - 1) -> Nat] /\ g[0] = 1
          /\ \A i \in 1..(m - 1) : g[i] = 2 * g[i - 1]
      BY <2>2 DEF IsDoubling
    <2>4. m - 1 \in 0..(m - 1) /\ \A i \in 0..m : i = m \/ i \in 0..(m - 1)
      BY <2>1
    <2>5. h \in [0..m -> Nat]
      BY <2>1, <2>3, <2>4
    <2>6. h[0] = 1
      BY <1>4, <2>1, <2>3
    <2>7. \A i \in 1..m : h[i] = 2 * h[i - 1]
      <3>1. TAKE i \in 1..m
      <3>2. i \in 0..m /\ i - 1 \in 0..m /\ i - 1 # m /\ (i = m \/ i \in 1..(m - 1))
        BY <2>1
      <3>3. QED
        BY <2>3, <3>2
    <2>8. IsDoubling(h, m)
      BY <2>5, <2>6, <2>7 DEF IsDoubling
    <2>9. QED
      BY <1>2, <2>8
  <1>5. QED
    BY <1>3, <1>4

\* On what both reach, doublings are the same.
LEMMA DoublingsAgree ==
  ASSUME NEW n \in Nat, NEW m \in Nat, NEW g, NEW h, IsDoubling(g, n), IsDoubling(h, m),
         NEW k \in Nat, k <= n, k <= m
  PROVE  g[k] = h[k]
  <1> DEFINE S == { i \in Nat : i <= n /\ i <= m /\ g[i] # h[i] }
  <1>1. SUFFICES ASSUME S # {} PROVE FALSE
    OBVIOUS
  <1>2. PICK i \in S : \A j \in S : i <= j
    BY <1>1, LeastOfNaturals
  <1>3. i # 0
    BY <1>2 DEF IsDoubling
  <1>4. i - 1 \in Nat /\ i - 1 \notin S /\ i \in 1..n /\ i \in 1..m
    BY <1>2, <1>3
  <1>5. g[i - 1] = h[i - 1]
    BY <1>4
  <1>6. g[i] = 2 * g[i - 1] /\ h[i] = 2 * h[i - 1]
    BY <1>4 DEF IsDoubling
  <1>7. QED
    BY <1>2, <1>5, <1>6

LEMMA TwoToTheIs ==
  ASSUME NEW n \in Nat
  PROVE  TwoToThe[n] \in Nat
  <1> DEFINE F == [m \in Nat |-> (CHOOSE g : IsDoubling(g, m))[m]]
             P(f) == f = [m \in Nat |-> IF m = 0 THEN 1 ELSE 2 * f[m - 1]]
             some(m) == CHOOSE g : IsDoubling(g, m)
  <1>1. \A m \in Nat : IsDoubling(some(m), m)
    BY DoublingExists, Zenon
  <1>2. \A m \in Nat : F[m] = some(m)[m]
    OBVIOUS
  <1> HIDE DEF some
  <1>3. \A m \in Nat : F[m] \in Nat
    <2>1. TAKE m \in Nat
    <2>2. some(m) \in [0..m -> Nat] /\ m \in 0..m
      BY <1>1 DEF IsDoubling
    <2>3. QED
      BY <1>2, <2>2
  <1>4. \A m \in Nat : F[m] = IF m = 0 THEN 1 ELSE 2 * F[m - 1]
    <2>1. TAKE m \in Nat
    <2>2. CASE m = 0
      BY <1>1, <1>2, <2>2 DEF IsDoubling
    <2>3. CASE m # 0
      <3>1. m - 1 \in Nat /\ m \in 1..m /\ m - 1 <= m
        BY <2>3
      <3>2. some(m)[m] = 2 * some(m)[m - 1]
        BY <1>1, <3>1 DEF IsDoubling
      <3>3. some(m)[m - 1] = some(m - 1)[m - 1]
        BY <1>1, <3>1, DoublingsAgree
      <3>4. QED
        BY <1>2, <2>3, <3>1, <3>2, <3>3
    <2>4. QED
      BY <2>2, <2>3
  <1>5. P(F)
    <2>1. F = [m \in Nat |-> F[m]]
      OBVIOUS
    <2> HIDE DEF F
    <2>2. QED
      BY <1>4, <2>1, Zenon
  <1>6. TwoToThe = CHOOSE f : P(f)
    BY DEF TwoToThe
  <1> HIDE DEF F
  <1>7. P(TwoToThe)
    <2> HIDE DEF P
    <2>1. QED
      BY <1>5, <1>6, Zenon
  <1>8. TwoToThe = [m \in Nat |-> IF m = 0 THEN 1 ELSE 2 * TwoToThe[m - 1]]
    BY <1>7, Zenon
  <1> HIDE DEF P
  <1> DEFINE S == { m \in Nat : TwoToThe[m] \notin Nat }
  <1>9. SUFFICES ASSUME S # {} PROVE FALSE
    OBVIOUS
  <1>10. PICK m \in S : \A j \in S : m <= j
    BY <1>9, LeastOfNaturals
  <1>11. CASE m = 0
    BY <1>8, <1>10, <1>11
  <1>12. CASE m # 0
    <2>1. m - 1 \in Nat /\ m - 1 \notin S
      BY <1>10, <1>12
    <2>2. TwoToThe[m - 1] \in Nat
      BY <2>1
    <2>3. TwoToThe[m] = 2 * TwoToThe[m - 1]
      BY <1>8, <1>10, <1>12
    <2>4. QED
      BY <1>10, <2>2, <2>3
  <1>13. QED
    BY <1>11, <1>12

LEMMA CapIs ==
  ASSUME MaxRetryDelay \in Nat, NEW d \in Int
  PROVE  /\ CapDelay(d) \in 0..MaxRetryDelay
         /\ d \in Nat /\ d <= MaxRetryDelay => CapDelay(d) = d
         /\ d > MaxRetryDelay => CapDelay(d) = MaxRetryDelay
         /\ \A x \in Int : x <= d => CapDelay(x) <= CapDelay(d)
         /\ d \in Nat => CapDelay(d) <= d
  BY DEF CapDelay

LEMMA DurationIs ==
  ASSUME MaxInt \in Nat, NEW x \in Int
  PROVE  /\ ToDuration(x) \subseteq Int
         /\ x <= MaxInt => ToDuration(x) = {x}
  BY DEF ToDuration, MinInt

LEMMA RemainderIs ==
  ASSUME NEW n \in Nat \ {0}
  PROVE  /\ \A x \in Int : x % n \in Int
         /\ \A x \in 0..(n - 1) : x % n = x
  OBVIOUS

LEMMA WrapIs ==
  ASSUME MaxInt \in Nat, NEW x \in Int
  PROVE  /\ Wrap(x) \in Int
         /\ x \in 0..MaxInt => Wrap(x) = x
  <1> DEFINE n == 2 * MaxInt + 2
             m == MinInt
  <1>1. n \in Nat \ {0} /\ m \in Int /\ x - m \in Int
    BY DEF MinInt
  <1>2. x \in 0..MaxInt => x - m \in 0..(n - 1)
    BY DEF MinInt
  <1>3. Wrap(x) = ((x - m) % n) + m
    BY DEF Wrap
  <1> HIDE DEF n, m
  <1>4. (x - m) % n \in Int /\ (x - m \in 0..(n - 1) => (x - m) % n = x - m)
    BY <1>1, RemainderIs
  <1>5. QED
    BY <1>1, <1>2, <1>3, <1>4

LEMMA Products ==
  ASSUME NEW a \in Nat, NEW k \in Nat \ {0}
  PROVE  LET d == a \div 2 IN
           /\ d \in Nat /\ d <= a /\ a - 2 * d \in {0, 1}
           /\ a * k \in Nat /\ d * k \in Nat /\ a <= a * k
           /\ a * k - 2 * (d * k) \in {0, k}
  <1> DEFINE d == a \div 2
  <1>1. d \in Nat /\ d <= a /\ (a = 2 * d \/ a = 2 * d + 1)
    OBVIOUS
  <1> HIDE DEF d
  <1>2. d * k \in Nat /\ a * k \in Nat
    BY <1>1
  <1>3. CASE a = 2 * d
    <2>1. a * k = 2 * (d * k)
      BY <1>1, <1>3
    <2>2. a <= a * k
      OBVIOUS
    <2>3. QED
      BY <1>1, <1>2, <1>3, <2>1, <2>2 DEF d
  <1>4. CASE a = 2 * d + 1
    <2>1. a * k = 2 * (d * k) + k
      BY <1>1, <1>4
    <2>2. a <= a * k
      OBVIOUS
    <2>3. QED
      BY <1>1, <1>2, <1>4, <2>1, <2>2 DEF d
  <1>5. QED
    BY <1>1, <1>3, <1>4

LEMMA HeadersAre ==
  ASSUME NEW h \in Headers
  PROVE  /\ h.ms.kind = "number" => h.ms.halves \in Nat
         /\ h.after.kind = "number" => h.after.halves \in Nat
         /\ h.after.kind = "date" => h.after.ahead \in Nat \cup {-1}
  <1>1. HeaderNumbers \subseteq Nat /\ HeaderDates \subseteq Nat
    BY RetryDelayAssumption
  <1>2. /\ h.ms \in Numbers \cup Unusable
        /\ h.after \in Numbers \cup Dates \cup Unusable
    BY DEF Headers
  <1>3. /\ \A x \in Numbers : x.kind = "number" /\ x.halves \in Nat
        /\ \A x \in Dates : x.kind = "date" /\ x.ahead \in Nat \cup {-1}
        /\ \A x \in Unusable : x.kind # "number" /\ x.kind # "date"
    BY <1>1 DEF Numbers, Dates, Unusable
  <1>4. QED
    BY <1>2, <1>3

\* Which of the four ways to choose a delay is taken.
LEMMA Choices ==
  ASSUME NEW h, NEW n
  PROVE  /\ h.ms.kind = "number" =>
              RetryDelay(h, n) = { CapDelay(d) : d \in FromMilliseconds(h.ms.halves) }
         /\ h.ms.kind # "number" /\ h.after.kind = "number" =>
              RetryDelay(h, n) = { CapDelay(d) : d \in FromSeconds(h.after.halves) }
         /\ h.ms.kind # "number" /\ h.after.kind = "date" =>
              RetryDelay(h, n) =
                { IF h.after.ahead > 0 THEN CapDelay(h.after.ahead) ELSE 0 }
         /\ h.ms.kind # "number" /\ h.after.kind \notin {"number", "date"} =>
              RetryDelay(h, n) = { CapDelay(d) : d \in Backoff(n) }
  BY DEF RetryDelay

LEMMA SecondsAre ==
  ASSUME NEW halves \in Nat
  PROVE  /\ FromSeconds(halves) \subseteq Int
         /\ halves * Second <= 2 * MaxInt =>
              FromSeconds(halves) = { (halves * Second) \div 2 }
  <1> DEFINE a == halves * Second
  <1>1. MaxInt \in Nat /\ Second \in Nat \ {0}
    BY RetryDelayAssumption
  <1>2. a \in Nat
    BY <1>1
  <1>3. FromSeconds(halves) = ToDuration(a \div 2)
    BY DEF FromSeconds
  <1> HIDE DEF a
  <1>4. a \div 2 \in Int /\ (a <= 2 * MaxInt => a \div 2 <= MaxInt)
    BY <1>1, <1>2
  <1>5. QED
    BY <1>1, <1>3, <1>4, DurationIs DEF a

LEMMA MillisecondsAre ==
  ASSUME NEW halves \in Nat
  PROVE  /\ FromMilliseconds(halves) \subseteq Int
         /\ halves * Millisecond <= 2 * MaxInt =>
              FromMilliseconds(halves) = { (halves \div 2) * Millisecond }
  <1> DEFINE d == halves \div 2
             p == d * Millisecond
             a == halves * Millisecond
  <1>1. MaxInt \in Nat /\ Millisecond \in Nat \ {0}
    BY RetryDelayAssumption
  <1>2. d \in Nat /\ d <= halves /\ halves - 2 * d \in {0, 1} /\ p \in Nat /\ a \in Nat /\ halves <= a
        /\ a - 2 * p \in {0, Millisecond}
    BY <1>1, Products
  <1>3. FromMilliseconds(halves) = { Wrap(x * Millisecond) : x \in ToDuration(d) }
    BY DEF FromMilliseconds
  <1>4. \A x \in Int : x * Millisecond \in Int
    BY <1>1
  <1> HIDE DEF d, a
  <1>5. FromMilliseconds(halves) \subseteq Int
    <2>1. ToDuration(d) \subseteq Int
      BY <1>1, <1>2, DurationIs
    <2>2. \A x \in ToDuration(d) : Wrap(x * Millisecond) \in Int
      BY <1>1, <1>4, <2>1, WrapIs
    <2>3. QED
      BY <1>3, <2>2
  <1>6. ASSUME a <= 2 * MaxInt
        PROVE  FromMilliseconds(halves) = { p }
    <2>1. d \in Int /\ d <= MaxInt
      BY <1>1, <1>2, <1>6
    <2>2. ToDuration(d) = {d}
      BY <1>1, <2>1, DurationIs
    <2>3. p \in 0..MaxInt
      <3> HIDE DEF p
      <3>1. QED
        BY <1>1, <1>2, <1>6
    <2>4. Wrap(p) = p
      <3>1. p \in Int
        BY <1>2
      <3>2. QED
        BY <1>1, <2>3, <3>1, WrapIs
    <2>5. QED
      BY <1>3, <2>2, <2>4
  <1>7. QED
    BY <1>5, <1>6 DEF a, d

LEMMA BackoffIs ==
  ASSUME NEW n \in Nat, NEW b, b = InitialRetryDelay * TwoToThe[n]
  PROVE  /\ b \in Nat
         /\ Backoff(n) \subseteq Int
         /\ b <= MaxInt => Backoff(n) = ((3 * b) \div 4)..b
  <1>1. MaxInt \in Nat /\ InitialRetryDelay \in Nat
    BY RetryDelayAssumption
  <1>2. TwoToThe[n] \in Nat
    BY TwoToTheIs
  <1>3. b \in Nat
    BY <1>1, <1>2
  <1>4. Backoff(n) = UNION { ToDuration(x) : x \in ((3 * b) \div 4)..b }
    BY Zenon DEF Backoff
  <1> DEFINE L == (3 * b) \div 4
  <1>5. L \in Int
    BY <1>3
  <1> HIDE DEF L
  <1>6. \A x \in L..b : x \in Int
    BY <1>3, <1>5
  <1>7. Backoff(n) \subseteq Int
    <2>1. \A x \in L..b : ToDuration(x) \subseteq Int
      BY <1>1, <1>6, DurationIs
    <2>2. QED
      BY <1>4, <2>1 DEF L
  <1>8. ASSUME b <= MaxInt PROVE Backoff(n) = L..b
    <2>1. \A x \in L..b : x <= MaxInt
      BY <1>1, <1>3, <1>5, <1>8
    <2>2. \A x \in L..b : ToDuration(x) = {x}
      BY <1>1, <1>6, <2>1, DurationIs
    <2>3. \A x : x \in UNION { ToDuration(y) : y \in L..b } <=> x \in L..b
      BY <2>2
    <2>4. QED
      BY <1>4, <2>3 DEF L
  <1>9. QED
    BY <1>3, <1>7, <1>8 DEF L

\* capDelay sees to it that no choice is out of bounds.
LEMMA DelaysAreBounded ==
  ASSUME NEW h \in Headers, NEW n \in Nat, NEW d \in RetryDelay(h, n)
  PROVE  d \in 0..MaxRetryDelay
  <1>1. MaxRetryDelay \in Nat
    BY RetryDelayAssumption
  <1>2. \A x \in Int : CapDelay(x) \in 0..MaxRetryDelay
    BY <1>1, CapIs
  <1>3. CASE h.ms.kind = "number"
    <2>1. FromMilliseconds(h.ms.halves) \subseteq Int
      BY <1>3, HeadersAre, MillisecondsAre
    <2>2. RetryDelay(h, n) = { CapDelay(x) : x \in FromMilliseconds(h.ms.halves) }
      BY <1>3, Choices
    <2>3. QED
      BY <1>2, <2>1, <2>2
  <1>4. CASE h.ms.kind # "number" /\ h.after.kind = "number"
    <2>1. FromSeconds(h.after.halves) \subseteq Int
      BY <1>4, HeadersAre, SecondsAre
    <2>2. RetryDelay(h, n) = { CapDelay(x) : x \in FromSeconds(h.after.halves) }
      BY <1>4, Choices
    <2>3. QED
      BY <1>2, <2>1, <2>2
  <1>5. CASE h.ms.kind # "number" /\ h.after.kind = "date"
    <2>1. h.after.ahead \in Nat \cup {-1} /\ -1 \in Int
      BY <1>5, HeadersAre
    <2>2. d = IF h.after.ahead > 0 THEN CapDelay(h.after.ahead) ELSE 0
      BY <1>5, Choices
    <2>3. 0 \in 0..MaxRetryDelay
      BY <1>1
    <2>4. QED
      BY <1>2, <2>1, <2>2, <2>3
  <1>6. CASE h.ms.kind # "number" /\ h.after.kind \notin {"number", "date"}
    <2>1. Backoff(n) \subseteq Int
      BY BackoffIs
    <2>2. RetryDelay(h, n) = { CapDelay(x) : x \in Backoff(n) }
      BY <1>6, Choices
    <2>3. QED
      BY <1>2, <2>1, <2>2
  <1>7. QED
    BY <1>3, <1>4, <1>5, <1>6

\* While Do sleeps, the delay is what the response and the attempt call for.
DelayInv ==
    /\ DelayTypeOK
    /\ waiting => failures < Retries /\ delay \in RetryDelay(headers, failures)
    /\ ~waiting => delay = 0

LEMMA DelayInvIsInductive ==
  ASSUME DelayInv, [DelayNext]_delayVars
  PROVE  DelayInv'
  <1>1. Retries \in Nat /\ MaxRetryDelay \in Nat
    BY RetryDelayAssumption
  <1>2. failures \in 0..Retries /\ waiting \in BOOLEAN /\ headers \in Headers /\ delay \in Int
    BY DEF DelayInv, DelayTypeOK
  <1>3. CASE Wait
    <2>1. /\ failures < Retries /\ failures' = failures /\ waiting' = TRUE /\ headers' \in Headers
          /\ delay' \in RetryDelay(headers', failures)
      BY <1>3 DEF Wait
    <2>2. failures \in Nat
      BY <1>1, <1>2
    <2>3. delay' \in 0..MaxRetryDelay
      BY <2>1, <2>2, DelaysAreBounded
    <2>4. delay' \in Int
      BY <1>1, <2>3
    <2>5. QED
      BY <1>2, <2>1, <2>4 DEF DelayInv, DelayTypeOK
  <1>4. CASE WaitEnds
    <2>1. waiting /\ failures' = failures + 1 /\ waiting' = FALSE /\ headers' = NoHeaders /\ delay' = 0
      BY <1>4 DEF WaitEnds
    <2>2. failures' \in 0..Retries
      BY <1>1, <1>2, <2>1 DEF DelayInv
    <2>3. NoHeaders \in Headers
      BY DEF NoHeaders, Headers, Nothing, Unusable
    <2>4. DelayTypeOK'
      <3>1. headers' \in Headers
        BY <2>1, <2>3, Zenon
      <3>2. waiting' \in BOOLEAN
        BY <2>1, Zenon
      <3>3. delay' \in Int
        <4>1. delay' = 0
          BY <2>1, Zenon
        <4>2. QED
          BY <4>1
      <3>4. QED
        BY <2>2, <3>1, <3>2, <3>3, Zenon DEF DelayTypeOK
    <2>5. waiting' = FALSE /\ delay' = 0
      BY <2>1
    <2>6. QED
      BY <2>4, <2>5, Zenon DEF DelayInv
  <1>5. CASE UNCHANGED delayVars
    BY <1>5 DEF delayVars, DelayInv, DelayTypeOK
  <1>6. QED
    BY <1>3, <1>4, <1>5 DEF DelayNext

\* The strengthening the two theorems about delays follow from: a call that sleeps
\* has an attempt left, and the delay is one retryDelay may have chosen.
THEOREM DelayInvariance == DelaySpec => []DelayInv
  <1>1. DelayInit => DelayInv
    <2>1. NoHeaders \in Headers
      BY DEF NoHeaders, Headers, Nothing, Unusable
    <2>2. 0 \in 0..Retries /\ 0 \in Int
      BY RetryDelayAssumption
    <2>3. QED
      BY <2>1, <2>2 DEF DelayInit, DelayInv, DelayTypeOK
  <1>2. DelayInv /\ [DelayNext]_delayVars => DelayInv'
    BY DelayInvIsInductive
  <1>3. QED
    BY <1>1, <1>2, PTL DEF DelaySpec

\* The delay is a duration and the headers are headers whatever retryDelay was given.
THEOREM DelayTypeCorrect == DelaySpec => []DelayTypeOK
  <1>1. DelayInv => DelayTypeOK
    BY DEF DelayInv
  <1>2. QED
    BY <1>1, DelayInvariance, PTL

\* However the headers are spelt and however many attempts have failed, Do sleeps
\* for no negative time and for no more than the cap.
THEOREM DelaysStayBounded == DelaySpec => []DelayIsBounded
  <1>1. DelayInv => DelayIsBounded
    <2> SUFFICES ASSUME DelayInv PROVE DelayIsBounded
      OBVIOUS
    <2>1. Retries \in Nat /\ MaxRetryDelay \in Nat
      BY RetryDelayAssumption
    <2>2. failures \in Nat /\ waiting \in BOOLEAN /\ headers \in Headers
      BY <2>1 DEF DelayInv, DelayTypeOK
    <2>3. CASE waiting
      BY <2>2, <2>3, DelaysAreBounded DEF DelayInv, DelayIsBounded
    <2>4. CASE ~waiting
      BY <2>1, <2>4 DEF DelayInv, DelayIsBounded
    <2>5. QED
      BY <2>3, <2>4
  <1>2. QED
    BY <1>1, DelayInvariance, PTL

\* A delay to within a unit of what was asked for is as good as granted.
LEMMA GrantedToWithin ==
  ASSUME NEW asked \in Nat, NEW x \in Nat,
         asked - 2 * x \in 0..(2 * Millisecond - 1)
  PROVE  \/ CapDelay(x) = MaxRetryDelay /\ asked >= 2 * MaxRetryDelay
         \/ asked - 2 * CapDelay(x) \in 0..(2 * Millisecond - 1)
  <1>1. MaxRetryDelay \in Nat /\ Millisecond \in Nat \ {0}
    BY RetryDelayAssumption
  <1>2. CASE x <= MaxRetryDelay
    BY <1>1, <1>2, CapIs
  <1>3. CASE x > MaxRetryDelay
    <2>1. CapDelay(x) = MaxRetryDelay
      BY <1>1, <1>3, CapIs
    <2>2. asked >= 2 * MaxRetryDelay
      BY <1>1, <1>3
    <2>3. QED
      BY <2>1, <2>2
  <1>4. QED
    BY <1>1, <1>2, <1>3

LEMMA TheWaitIsDue ==
  ASSUME DelayInv
  PROVE  WaitIsDue
  <1> SUFFICES ASSUME waiting,
                      NEW a, a = Asked, NEW b, b = Doubled
               PROVE  /\ a >= 0 /\ a <= 2 * MaxInt =>
                           \/ delay = MaxRetryDelay /\ a >= 2 * MaxRetryDelay
                           \/ a - 2 * delay \in 0..(2 * Millisecond - 1)
                      /\ a = -1 /\ b <= MaxInt =>
                           delay \in CapDelay((3 * b) \div 4)..b
    BY DEF WaitIsDue, AskIsGranted, Representable
  <1>1. /\ {MaxInt, Retries, MaxRetryDelay} \subseteq Nat
        /\ {Millisecond, Second} \subseteq Nat \ {0}
    BY RetryDelayAssumption
  <1>2. failures \in Nat /\ headers \in Headers /\ delay \in RetryDelay(headers, failures)
    BY <1>1 DEF DelayInv, DelayTypeOK
  <1>3. CASE headers.ms.kind = "number"
    <2> SUFFICES ASSUME NEW h, h = headers.ms.halves,
                        NEW p, p = (h \div 2) * Millisecond
                 PROVE  a >= 0 /\
                        (a <= 2 * MaxInt => \/ delay = MaxRetryDelay /\ a >= 2 * MaxRetryDelay
                                            \/ a - 2 * delay \in 0..(2 * Millisecond - 1))
      OBVIOUS
    <2>1. h \in Nat
      BY <1>2, <1>3, HeadersAre
    <2>2. a = h * Millisecond
      BY <1>3 DEF Asked
    <2>3. a \in Nat /\ p \in Nat /\ a - 2 * p \in {0, Millisecond}
      BY <1>1, <2>1, <2>2, Products
    <2>4. ASSUME a <= 2 * MaxInt PROVE delay = CapDelay(p)
      <3>1. FromMilliseconds(h) = {p}
        BY <2>1, <2>2, <2>4, MillisecondsAre
      <3>2. RetryDelay(headers, failures) = { CapDelay(d) : d \in FromMilliseconds(h) }
        BY <1>3, Choices
      <3>3. QED
        BY <1>2, <3>1, <3>2
    <2>5. a - 2 * p \in 0..(2 * Millisecond - 1)
      BY <1>1, <2>3
    <2>6. QED
      BY <2>3, <2>4, <2>5, GrantedToWithin
  <1>4. CASE headers.ms.kind # "number" /\ headers.after.kind = "number"
    <2> SUFFICES ASSUME NEW h, h = headers.after.halves,
                        NEW p, p = a \div 2
                 PROVE  a >= 0 /\
                        (a <= 2 * MaxInt => \/ delay = MaxRetryDelay /\ a >= 2 * MaxRetryDelay
                                            \/ a - 2 * delay \in 0..(2 * Millisecond - 1))
      OBVIOUS
    <2>1. h \in Nat
      BY <1>2, <1>4, HeadersAre
    <2>2. a = h * Second
      BY <1>4 DEF Asked
    <2>3. a \in Nat /\ p \in Nat /\ a - 2 * p \in {0, 1}
      <3>1. a \in Nat
        BY <1>1, <2>1, <2>2, Products
      <3>2. QED
        BY <3>1
    <2>4. ASSUME a <= 2 * MaxInt PROVE delay = CapDelay(p)
      <3>1. FromSeconds(h) = {p}
        BY <2>1, <2>2, <2>4, SecondsAre
      <3>2. RetryDelay(headers, failures) = { CapDelay(d) : d \in FromSeconds(h) }
        BY <1>4, Choices
      <3>3. QED
        BY <1>2, <3>1, <3>2
    <2>5. a - 2 * p \in 0..(2 * Millisecond - 1)
      BY <1>1, <2>3
    <2>6. QED
      BY <2>3, <2>4, <2>5, GrantedToWithin
  <1>5. CASE headers.ms.kind # "number" /\ headers.after.kind = "date"
    <2> SUFFICES ASSUME NEW p, p = IF headers.after.ahead > 0 THEN headers.after.ahead ELSE 0
                 PROVE  a >= 0 /\
                        (\/ delay = MaxRetryDelay /\ a >= 2 * MaxRetryDelay
                         \/ a - 2 * delay \in 0..(2 * Millisecond - 1))
      OBVIOUS
    <2>1. headers.after.ahead \in Nat \cup {-1}
      BY <1>2, <1>5, HeadersAre
    <2>2. p \in Nat /\ a = 2 * p
      BY <1>5, <2>1 DEF Asked
    <2>3. delay = IF headers.after.ahead > 0 THEN CapDelay(headers.after.ahead) ELSE 0
      BY <1>2, <1>5, Choices
    <2>4. delay = CapDelay(p)
      <3>1. CapDelay(0) = 0
        BY <1>1, CapIs
      <3>2. QED
        BY <2>3, <3>1
    <2>5. a \in Nat /\ a - 2 * p \in 0..(2 * Millisecond - 1)
      BY <1>1, <2>2
    <2>6. QED
      BY <2>2, <2>4, <2>5, GrantedToWithin
  <1>6. CASE headers.ms.kind # "number" /\ headers.after.kind \notin {"number", "date"}
    <2>1. a = -1
      BY <1>6 DEF Asked
    <2>2. ASSUME b <= MaxInt PROVE delay \in CapDelay((3 * b) \div 4)..b
      <3>1. b = InitialRetryDelay * TwoToThe[failures]
        BY DEF Doubled
      <3>2. b \in Nat /\ Backoff(failures) = ((3 * b) \div 4)..b
        BY <1>2, <2>2, <3>1, BackoffIs
      <3>3. RetryDelay(headers, failures) = { CapDelay(d) : d \in Backoff(failures) }
        BY <1>6, Choices
      <3>4. PICK x \in ((3 * b) \div 4)..b : delay = CapDelay(x)
        BY <1>2, <3>2, <3>3
      <3>5. (3 * b) \div 4 \in Nat /\ x \in Nat /\ (3 * b) \div 4 <= x /\ x <= b
        BY <3>2
      <3>6. CapDelay((3 * b) \div 4) <= delay /\ delay <= x /\ delay \in Int
            /\ CapDelay((3 * b) \div 4) \in Int
        BY <1>1, <3>4, <3>5, CapIs
      <3>7. QED
        BY <3>2, <3>5, <3>6
    <2>3. QED
      BY <2>1, <2>2
  <1>7. QED
    BY <1>3, <1>4, <1>5, <1>6

\* A server that asks for a wait a duration can hold gets it, to within the unit it
\* asked in, or the cap; without one the wait doubles, less a quarter, up to the cap.
THEOREM WaitsAreDue == DelaySpec => []WaitIsDue
  <1>1. DelayInv => WaitIsDue
    BY TheWaitIsDue
  <1>2. DelaySpec => []DelayInv
    BY DelayInvariance
  <1>3. QED
    BY <1>1, <1>2, PTL
=============================================================================
