--------------------------- MODULE RequestPipeline ---------------------------
(***************************************************************************)
(* One call through RequestConfig.Do (internal/requestconfig) and the      *)
(* wrappers of client.go that consume its response: doJSON, doMultipart,   *)
(* openStream, GetStream.  The call runs beside actors it does not         *)
(* control: the caller, whose context may end at any moment; the network,  *)
(* which may drop a connection without saying whether the request arrived, *)
(* and may deliver it late; the deployment, which performs mutations and   *)
(* recognises the idempotency keys it has seen; and other clients of it,   *)
(* who may change or delete the same resource first.                       *)
(*                                                                         *)
(* An attempt is identified by its number, which is also what the          *)
(* X-Orca-Retry-Count header carries.                                      *)
(***************************************************************************)
EXTENDS Naturals, FiniteSets

CONSTANTS
    MaxRetries,        \* RequestConfig.MaxRetries
    Kinds,             \* which wrappers are used: "json", "multipart", "stream",
                       \* "download" (GetStream, GetToWriter)
    ProviderFailures   \* how a credential provider may fail: "plain", "sdk"

ASSUME PipelineAssumption ==
    /\ MaxRetries \in Nat
    /\ Kinds \subseteq {"json", "multipart", "stream", "download"}
    /\ ProviderFailures \subseteq {"plain", "sdk"}

VARIABLES
    kind,      \* which wrapper made the call
    request,   \* is it a mutation; does it carry an idempotency key; on what
               \* does it depend?
    ctx,       \* the caller's context: "live", "cancelled" or "expired"
    pc,        \* where the call is
    attempt,   \* the loop variable of Do
    open,      \* attempts whose context has not been released
    resp,      \* the response in hand
    err,       \* the error in hand
    verdict,   \* what the wrapper returned, "pending" until then
    wire,      \* requests sent and not yet handled by the deployment
    replies,   \* the response on its way to the attempt in flight, if any
    applied,   \* how often the deployment performed the mutation
    fresh      \* is the resource still as the caller last saw it?

clientVars == <<kind, request, pc, attempt, open, resp, err, verdict>>
serverVars == <<wire, replies, applied, fresh>>
vars == <<clientVars, ctx, serverVars>>

Attempts == 0..MaxRetries

\* What the performance of a mutation depends on: nothing; that the resource is
\* there (DELETE), or it is not found; that it is unchanged since the caller read
\* it (the version of AgentUpdateParams), or there is a conflict.
Guards == {"none", "exists", "version"}

Request == [mutating : BOOLEAN, keyed : BOOLEAN, guard : Guards]

\* "wrapped" is a RequestError that wraps a ConnectionError or TimeoutError.
TransportErrors == {"connection", "timeout", "userAbort"}
CallErrors      == TransportErrors \cup {"request", "wrapped"}
Refusals        == {"notFound", "conflict"}
Verdicts        == {"ok", "stream", "status", "decode"} \cup Refusals \cup CallErrors

\* A response is a status class, the x-should-retry header, and whether its
\* retry delay is zero.  "notFound" is a 404 and "conflict" a 409 that a guard
\* caused; "transient" is 408, 429, 5xx and any other 409.
Response == [status : {"success", "permanent", "transient"} \cup Refusals,
             shouldRetry : {"none", "true", "false"},
             waits : BOOLEAN]
NoResponse == [status |-> "permanent", shouldRetry |-> "false", waits |-> FALSE]

Steps == {"attempt", "flight", "failed", "answered", "sleeping", "reading",
          "streaming", "returned"}

TypeOK ==
    /\ kind \in Kinds
    /\ request \in Request
    /\ ctx \in {"live", "cancelled", "expired"}
    /\ pc \in Steps
    /\ attempt \in Attempts
    /\ open \subseteq Attempts
    /\ resp \in Response
    /\ err \in CallErrors \cup {"nil"}
    /\ verdict \in Verdicts \cup {"pending"}
    /\ wire \subseteq [number : Attempts, key : BOOLEAN]
    /\ replies \subseteq Response
    /\ applied \in 0..(MaxRetries + 1)
    /\ fresh \in BOOLEAN

Init ==
    /\ kind \in Kinds
    \* Streams and downloads are GETs, multipart bodies are always sent by a
    \* mutation; DELETE and versioned updates go through doJSON.
    /\ request \in { r \in Request :
                       /\ kind \in {"stream", "download"} => ~r.mutating
                       /\ kind = "multipart" => r.mutating
                       /\ r.guard # "none" => r.mutating /\ kind = "json" }
    /\ ctx = "live"
    /\ pc = "attempt"
    /\ attempt = 0
    /\ open = {}
    /\ resp = NoResponse
    /\ err = "nil"
    /\ verdict = "pending"
    /\ wire = {}
    /\ replies = {}
    /\ applied = 0
    /\ fresh = TRUE

Goto(from, to) == pc = from /\ pc' = to

-----------------------------------------------------------------------------
(* The caller's context.                                                    *)

EndContext ==
    /\ ctx = "live"
    /\ ctx' \in {"cancelled", "expired"}
    /\ UNCHANGED <<clientVars, serverVars>>

\* FromTransport: what a failed round trip is called, given its cause.
FromTransport(cause) == IF ctx = "cancelled" THEN "userAbort" ELSE cause

-----------------------------------------------------------------------------
(* attempt.                                                                 *)

\* Mutant of SendsKey: retries go out without the key.
SendsKeyOnce(n) == request.keyed /\ request.mutating /\ n = 0

\* The Idempotency-Key header goes out on mutating methods only, the same on
\* every attempt.
SendsKey(n) == request.keyed /\ request.mutating

\* The attempt's context is opened and the request handed to the transport.
Send ==
    /\ ctx = "live"
    /\ Goto("attempt", "flight")
    /\ open' = open \cup {attempt}
    /\ wire' = wire \cup {[number |-> attempt, key |-> SendsKey(attempt)]}
    /\ UNCHANGED <<kind, request, ctx, attempt, resp, err, verdict, replies, applied, fresh>>

\* The transport does not send for a context that has already ended; the
\* attempt's context is opened and released again.
SendOnDeadContext ==
    /\ ctx # "live"
    /\ Goto("attempt", "failed")
    /\ err' = FromTransport("timeout")
    /\ UNCHANGED <<kind, request, ctx, attempt, open, resp, verdict, serverVars>>

\* Credential.Fetch fails, or the request does not build: a RequestError that
\* keeps whatever error it wraps.
PrepareFails ==
    /\ Goto("attempt", "failed")
    /\ \E f \in ProviderFailures :
         err' = IF f = "sdk" THEN "wrapped" ELSE "request"
    /\ UNCHANGED <<kind, request, ctx, attempt, open, resp, verdict, serverVars>>

\* The round trip fails: refused, dropped, out of time, or cancelled.  The
\* request may have arrived, may still arrive, or may never.
RoundTripFails ==
    /\ Goto("flight", "failed")
    /\ \E cause \in {"connection", "timeout"} : err' = FromTransport(cause)
    /\ open' = open \ {attempt}
    /\ replies' = {}
    /\ UNCHANGED <<kind, request, ctx, attempt, resp, verdict, wire, applied, fresh>>

\* The answer to this attempt arrives; its body now owns the context.
ResponseArrives ==
    /\ Goto("flight", "answered")
    /\ resp' \in replies
    /\ replies' = {}
    /\ UNCHANGED <<kind, request, ctx, attempt, open, err, verdict, wire, applied, fresh>>

-----------------------------------------------------------------------------
(* The loop of Do.                                                          *)

\* ShouldRetry: the server's own word, then the status.  A conflict is retried
\* with the very request that lost; a 404 is not.
ShouldRetry(r) ==
    \/ r.shouldRetry = "true"
    \/ r.shouldRetry = "none" /\ r.status \in {"transient", "conflict"}

\* isRetryableTransportError searches the whole chain of wrapped errors.
IsRetryableTransportError(e) == e \in {"connection", "timeout", "wrapped"}

Return(v) == pc' = "returned" /\ verdict' = v

\* A failed attempt backs off, always for a positive time.
RetryAfterError ==
    /\ Goto("failed", "sleeping")
    /\ IsRetryableTransportError(err)
    /\ attempt < MaxRetries
    /\ UNCHANGED <<kind, request, ctx, attempt, open, resp, err, verdict, serverVars>>

GiveUpOnError ==
    /\ pc = "failed"
    /\ ~IsRetryableTransportError(err) \/ attempt = MaxRetries
    /\ Return(err)
    /\ UNCHANGED <<kind, request, ctx, attempt, open, resp, err, serverVars>>

\* Mutants of RetryAfterResponse: the retries are not counted; the response is not
\* closed; a retry that need not wait repeats the attempt's number.
RetryWithoutLimit ==
    /\ pc = "answered"
    /\ ShouldRetry(resp)
    /\ open' = open \ {attempt}
    /\ resp' = NoResponse
    /\ pc' = "attempt" /\ attempt' = attempt + 1
    /\ UNCHANGED <<kind, request, ctx, err, verdict, serverVars>>

RetryWithoutClose ==
    /\ pc = "answered"
    /\ ShouldRetry(resp)
    /\ attempt < MaxRetries
    /\ resp' = NoResponse
    /\ IF resp.waits THEN pc' = "sleeping" /\ attempt' = attempt
                     ELSE pc' = "attempt"  /\ attempt' = attempt + 1
    /\ UNCHANGED <<kind, request, ctx, open, err, verdict, serverVars>>

RetryWithoutCounting ==
    /\ pc = "answered"
    /\ ShouldRetry(resp)
    /\ attempt < MaxRetries
    /\ open' = open \ {attempt}
    /\ resp' = NoResponse
    /\ pc' = IF resp.waits THEN "sleeping" ELSE "attempt"
    /\ UNCHANGED <<kind, request, ctx, attempt, err, verdict, serverVars>>

\* A response worth retrying is drained and closed, which releases the attempt.
\* With no delay to wait the next attempt starts without a look at the context.
RetryAfterResponse ==
    /\ pc = "answered"
    /\ ShouldRetry(resp)
    /\ attempt < MaxRetries
    /\ open' = open \ {attempt}
    /\ resp' = NoResponse
    /\ IF resp.waits THEN pc' = "sleeping" /\ attempt' = attempt
                     ELSE pc' = "attempt"  /\ attempt' = attempt + 1
    /\ UNCHANGED <<kind, request, ctx, err, verdict, serverVars>>

SleepEnds ==
    /\ Goto("sleeping", "attempt")
    /\ attempt' = attempt + 1
    /\ err' = "nil"
    /\ UNCHANGED <<kind, request, ctx, open, resp, verdict, serverVars>>

SleepInterrupted ==
    /\ pc = "sleeping"
    /\ ctx # "live"
    /\ Return(FromTransport("timeout"))
    /\ UNCHANGED <<kind, request, ctx, attempt, open, resp, err, serverVars>>

\* Do returns the response: the wrapper reads it, except that openStream hands
\* a success to its caller unread, StreamEvents keeping it open.
DoReturns ==
    /\ pc = "answered"
    /\ ~ShouldRetry(resp) \/ attempt = MaxRetries
    /\ IF kind = "stream" /\ resp.status = "success"
         THEN pc' = "streaming" /\ verdict' = "stream"
         ELSE pc' = "reading"   /\ verdict' = verdict
    /\ UNCHANGED <<kind, request, ctx, attempt, open, resp, err, serverVars>>

-----------------------------------------------------------------------------
(* The wrappers.                                                            *)

\* Mutant of ReadBody: the status is not looked at.
ReadBodyOfAnyStatus ==
    /\ pc = "reading"
    /\ Return("ok")
    /\ open' = open \ {attempt}
    /\ UNCHANGED <<kind, request, ctx, attempt, resp, err, serverVars>>

\* FromResponse: the error a status is reported as.
FromResponse(status) == IF status \in Refusals THEN status ELSE "status"

\* The body is read, to its limit or by GetStream's handler to its end, and the
\* status looked at; the deferred Close releases the attempt.
ReadBody ==
    /\ pc = "reading"
    /\ Return(IF resp.status = "success" THEN "ok" ELSE FromResponse(resp.status))
    /\ open' = open \ {attempt}
    /\ UNCHANGED <<kind, request, ctx, attempt, resp, err, serverVars>>

\* The body ends early or exceeds its limit, or the writer of a download fails;
\* or a success does not decode.
ReadBodyFails ==
    /\ pc = "reading"
    /\ \/ Return("request")
       \/ kind = "json" /\ resp.status = "success" /\ Return("decode")
    /\ open' = open \ {attempt}
    /\ UNCHANGED <<kind, request, ctx, attempt, resp, err, serverVars>>

\* The owner of a stream closes it.
CloseStream ==
    /\ Goto("streaming", "returned")
    /\ open' = open \ {attempt}
    /\ UNCHANGED <<kind, request, ctx, attempt, resp, err, verdict, serverVars>>

-----------------------------------------------------------------------------
(* The deployment, external: how src/ relies on it.                         *)

\* A deployment performs a keyed mutation once and answers its repeats as it
\* would the first.
Recognised(m) == m.key /\ applied > 0

\* The answer to m reaches the client only while m's attempt is in flight.
Answer(m, statuses) ==
    /\ wire' = wire \ {m}
    /\ IF pc = "flight" /\ m.number = attempt
         THEN \E r \in Response : r.status \in statuses /\ replies' = {r}
         ELSE replies' = replies

\* What m depends on still holds, or m has been performed before.
Admitted(m) == request.guard = "none" \/ fresh \/ Recognised(m)

\* A request is performed, at any time after it was sent, even after its sender
\* has given up on it; a proxy may still answer it with a 5xx.  A guarded one
\* leaves the resource gone, or at its next version.
PerformRequest ==
    \E m \in wire :
        /\ Admitted(m)
        /\ Answer(m, {"success", "transient"})
        /\ applied' = IF request.mutating /\ ~Recognised(m) THEN applied + 1 ELSE applied
        /\ fresh' = (fresh /\ request.guard = "none")
        /\ UNCHANGED <<clientVars, ctx>>

\* The resource is no longer what m depends on.
RejectStale ==
    \E m \in wire :
        /\ ~Admitted(m)
        /\ Answer(m, {IF request.guard = "exists" THEN "notFound" ELSE "conflict"})
        /\ UNCHANGED <<clientVars, ctx, applied, fresh>>

\* m is turned away before its guard is looked at.
RefuseRequest ==
    \E m \in wire :
        /\ Answer(m, {"transient", "permanent"})
        /\ UNCHANGED <<clientVars, ctx, applied, fresh>>

\* Another client deletes or updates the resource.
OthersChange ==
    /\ request.guard # "none"
    /\ fresh
    /\ fresh' = FALSE
    /\ UNCHANGED <<clientVars, ctx, wire, replies, applied>>

-----------------------------------------------------------------------------

Client ==
    \/ Send \/ SendOnDeadContext \/ PrepareFails \/ RoundTripFails
    \/ ResponseArrives \/ RetryAfterError \/ GiveUpOnError
    \/ RetryAfterResponse \/ SleepEnds \/ SleepInterrupted \/ DoReturns
    \/ ReadBody \/ ReadBodyFails

Next ==
    \/ Client \/ CloseStream
    \/ EndContext
    \/ PerformRequest \/ RejectStale \/ RefuseRequest \/ OthersChange

Spec == Init /\ [][Next]_vars

\* The call's goroutine runs, its sleeps end, and a round trip or a body read
\* ends because each attempt has a deadline (RequestTimeout, http.Client.Timeout).
\* Nothing is assumed of the deployment, the network or the owner of a stream.
FairSpec == Spec /\ WF_vars(Client)

-----------------------------------------------------------------------------

\* No attempt's context outlives the attempt: on every path out of Do and of
\* its wrappers - a refused connection, a retry, an interrupted sleep, a body
\* that cannot be read - it has been released, except while a body is being
\* read or a stream is in its owner's hands, and then it is the last attempt's.
ContextsAreReleased ==
    open = IF pc \in {"flight", "answered", "reading", "streaming"}
             THEN {attempt} ELSE {}

\* A mutation that carries an idempotency key, or that depends on the state it
\* changes, is performed once, whatever is lost, late or retried.
ProtectedMutationIsAppliedOnce ==
    request.keyed \/ request.guard # "none" => applied <= 1

\* A call that reports its resource gone or changed did not itself delete or
\* change it: always if it carries a key, and if it was not retried otherwise.
\* Without a key, a retry of what was performed and whose answer was lost meets
\* its own effect, and Do (requestconfig.go:354) reports that as a refusal.
RefusalIsHonest ==
    verdict \in Refusals /\ (request.keyed \/ attempt = 0) => applied = 0

Contract == INSTANCE CallContract WITH
    Budget  <- MaxRetries + 1,
    verdict <- IF verdict = "wrapped" THEN "request" ELSE verdict

\* The pipeline implements the contract of a call: bounded effect, one verdict,
\* success only after the effect, abort only of the caller's own making.
ImplementsContract == Contract!Spec

\* A call ends, whatever the network and the deployment do, and however its
\* context ends.
CallEnds == <>(pc \in {"streaming", "returned"})

-----------------------------------------------------------------------------
(* Said of this code in the repository and not so (README, Disagreements);  *)
(* no passing run checks it.                                                *)

\* requestconfig.go:502-507: a credential provider that returned an error is
\* deterministic, and is not repeated.
ProviderErrorIsFinal == err \in {"request", "wrapped"} => pc # "sleeping"

\* option/requestoption.go:202: "Only failures that are safe to repeat are
\* retried at all", so without a key a mutation is not performed twice either.
RetriesAreSafe == applied <= 1

\* internal/apierror/apierror.go:99: a ConflictError "lost an optimistic-concurrency
\* check or collided with an existing resource"; after a retry it may be the
\* update's own success it collided with.
ConflictIsALoss == verdict = "conflict" => applied = 0
=============================================================================
