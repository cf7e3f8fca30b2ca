---------------------------- MODULE CallContract ----------------------------
(***************************************************************************)
(* What one SDK call promises, with attempts, sleeps and sockets hidden:   *)
(* a mutation takes effect a bounded number of times, once at most when it *)
(* carries an idempotency key or depends on the state it changes, possibly *)
(* after the call has given up; the call ends once, with a verdict that is *)
(* not a lie.                                                              *)
(*                                                                         *)
(* RequestPipeline implements this specification.                          *)
(***************************************************************************)
EXTENDS Naturals

CONSTANT Budget   \* how many times the request may be sent

VARIABLES
    request,   \* is it a mutation, does it carry a key, on what does it depend?
    ctx,       \* the caller's context: "live", "cancelled" or "expired"
    applied,   \* how often the deployment performed the mutation
    verdict    \* "pending", or how the call ended

vars == <<request, ctx, applied, verdict>>

Verdicts == {"ok", "stream", "status", "decode", "notFound", "conflict",
             "connection", "timeout", "userAbort", "request"}

\* A keyed or guarded mutation is performed once, however often it is sent.
Limit == IF request.keyed \/ request.guard # "none" THEN 1 ELSE Budget

Init ==
    /\ request \in [mutating : BOOLEAN, keyed : BOOLEAN,
                    guard : {"none", "exists", "version"}]
    /\ ctx = "live"
    /\ applied = 0
    /\ verdict = "pending"

EndContext ==
    /\ ctx = "live"
    /\ ctx' \in {"cancelled", "expired"}
    /\ UNCHANGED <<request, applied, verdict>>

Apply ==
    /\ request.mutating
    /\ applied < Limit
    /\ applied' = applied + 1
    /\ UNCHANGED <<request, ctx, verdict>>

Return(v) ==
    /\ verdict = "pending"
    /\ v = "ok" /\ request.mutating => applied > 0
    /\ v = "userAbort" => ctx = "cancelled"
    /\ verdict' = v
    /\ UNCHANGED <<request, ctx, applied>>

Next == EndContext \/ Apply \/ \E v \in Verdicts : Return(v)

Spec == Init /\ [][Next]_vars
=============================================================================
