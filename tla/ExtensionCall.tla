--------------------------- MODULE ExtensionCall ---------------------------
(***************************************************************************)
(* A whole call of a resource service: the gate, if the operation belongs  *)
(* to an extension, and then the operation's own request.  Composes        *)
(* ExtensionGate, which the cache of cloudgate.go implements, with the     *)
(* operations of Operations; each caller makes one call.                   *)
(*                                                                         *)
(* The call's options reach both of its requests: the probe of the gate    *)
(* runs on the call's own RequestConfig, with only the path prefix         *)
(* removed.  Two options matter here, WithIdempotencyKey and WithRawJSON.  *)
(* How often a request is sent is the subject of RequestPipeline.          *)
(***************************************************************************)
EXTENDS Operations

CONSTANTS
    Callers, BaseURLs, Groups, NotCached, Rejected, Nested, Blank,
    Kinds       \* the operations called

ASSUME ExtensionCallAssumption ==
    /\ Kinds # {} /\ Kinds \subseteq { o \in OperationKinds : o.gate \in Groups \cup {"core"} }
    /\ \A S \in SUBSET Groups : S # NotCached
    /\ Rejected \subseteq Callers /\ Nested \subseteq Callers /\ Blank \subseteq BaseURLs

VARIABLES
    served, known, phase, at, want, cancelled, answer,   \* the gate's
    target,    \* the effective base URL of each caller's call
    op,        \* the operation it calls, a member of Kinds
    options,   \* WithIdempotencyKey given? WithRawJSON given?
    stage,     \* "idle", "gating", "sending" or "returned"
    result,    \* "none", "ok", "denied" or "failed"
    raw,       \* what the bytes behind WithRawJSON are of
    requests   \* the requests that may have been sent, each with the call it is for

Gate == INSTANCE ExtensionGate

gateVars == <<served, known, phase, at, want, cancelled, answer>>
vars == <<gateVars, target, op, options, stage, result, raw, requests>>

Options == [key : BOOLEAN, capture : BOOLEAN]
Request == [from : Callers, url : BaseURLs, group : Groups \cup {"core"},
            mutates : BOOLEAN, key : BOOLEAN]

TypeOK ==
    /\ known \in [BaseURLs -> {NotCached} \cup SUBSET Groups]
    /\ phase \in [Callers -> {"idle", "asking", "answered"}]
    /\ target \in [Callers -> BaseURLs]
    /\ op \in [Callers -> Kinds]
    /\ options \in [Callers -> Options]
    /\ stage \in [Callers -> {"idle", "gating", "sending", "returned"}]
    /\ result \in [Callers -> {"none", "ok", "denied", "failed"}]
    /\ raw \in [Callers -> {"untouched", "discovery", "own"}]
    /\ requests \subseteq Request

Init ==
    /\ Gate!Init
    /\ \A u \in BaseURLs : ~served[u].discovery => served[u].groups = {}
    /\ at = [c \in Callers |-> CHOOSE u \in BaseURLs : TRUE]
    /\ want = [c \in Callers |-> CHOOSE g \in Groups : TRUE]
    /\ target = at
    /\ op = [c \in Callers |-> CHOOSE o \in Kinds : TRUE]
    /\ options = [c \in Callers |-> [key |-> FALSE, capture |-> FALSE]]
    /\ stage = [c \in Callers |-> "idle"]
    /\ result = [c \in Callers |-> "none"]
    /\ raw = [c \in Callers |-> "untouched"]
    /\ requests = {}

Goto(c, from, to) == stage[c] = from /\ stage' = [stage EXCEPT ![c] = to]

Return(c, from, how) ==
    /\ Goto(c, from, "returned")
    /\ result' = [result EXCEPT ![c] = how]

-----------------------------------------------------------------------------

\* A service method is called on a client for deployment u.
Begin(c, u, o, opts) ==
    /\ Goto(c, "idle", IF o.gate = "core" THEN "sending" ELSE "gating")
    /\ target' = [target EXCEPT ![c] = u]
    /\ op' = [op EXCEPT ![c] = o]
    /\ options' = [options EXCEPT ![c] = opts]
    /\ IF o.gate = "core" THEN UNCHANGED gateVars ELSE Gate!Ask(c, u, o.gate)
    /\ UNCHANGED <<result, raw, requests>>

\* Mutant of SendsKey: the method is not looked at.
SendsKeyAlways(keyed, mutates) == keyed

\* An Idempotency-Key goes out on the mutating methods only.
SendsKey(keyed, mutates) == keyed /\ mutates

\* The body is captured by doJSON alone.
Captures(c, a) == options[c].capture /\ a = "json"

\* GET /apis, sent for caller l on l's own config.
Probe(l, u) == [from |-> l, url |-> u, group |-> "core", mutates |-> FALSE,
                key |-> SendsKey(options[l].key, FALSE)]

\* The probe of u sent for l is answered with r; its body, an empty one too, is
\* captured.
ProbeAnswered(l, u, r) ==
    /\ r.err # "aborted"
    /\ r.err = "nil" => l \notin Rejected
    /\ r.err = "rejected" => l \in Rejected
    /\ r.err = "notFound" => ~served[u].discovery
    /\ requests' = requests \cup {Probe(l, u)}
    /\ raw' = IF Captures(l, "json") THEN [raw EXCEPT ![l] = "discovery"] ELSE raw

\* It gets no answer that could be read.  It may not have been sent at all, as l's
\* provider is asked before; what may have been sent counts as sent.
ProbeFails(l, u, r) ==
    /\ \/ r.err = "aborted" /\ cancelled[l]
       \/ r.err = "notFound" /\ l \in Nested
       \/ r.err = "failed"
    /\ requests' = requests \cup {Probe(l, u)}
    /\ raw' = raw

\* One of the callers in S leads the probe that answers them all, with its own
\* credential and context.
GateAnswersByProbe(u, S, r) ==
    /\ Gate!AnswerByProbe(u, S, r)
    /\ \E l \in S : ProbeAnswered(l, u, r) \/ ProbeFails(l, u, r)
    /\ UNCHANGED <<target, op, options, stage, result>>

GateAnswersFromKnown(c) ==
    /\ Gate!AnswerFromKnown(c)
    /\ UNCHANGED <<target, op, options, stage, result, raw, requests>>

\* Cancelling later makes the operation's own request fail (PerformFails).
CallerCancels(c) ==
    /\ phase[c] = "asking" /\ ~cancelled[c]
    /\ Gate!Cancel(c)
    /\ UNCHANGED <<target, op, options, stage, result, raw, requests>>

\* Mutant of Denied: the gate's word is returned as it is.
DeniedAsIs(c) ==
    /\ phase[c] = "answered" /\ answer[c] # "allowed"
    /\ Return(c, "gating", answer[c])
    /\ UNCHANGED <<gateVars, target, op, options, raw, requests>>

\* The gate says no, or could not find out: no request of the call's own.
Denied(c) ==
    /\ phase[c] = "answered" /\ answer[c] # "allowed"
    /\ Return(c, "gating", IF answer[c] = "unavailable" THEN "denied" ELSE "failed")
    /\ UNCHANGED <<gateVars, target, op, options, raw, requests>>

\* Mutant of Admitted: any answer will do.
AdmittedUnchecked(c) ==
    /\ phase[c] = "answered"
    /\ Goto(c, "gating", "sending")
    /\ UNCHANGED <<gateVars, target, op, options, result, raw, requests>>

Admitted(c) ==
    /\ phase[c] = "answered" /\ answer[c] = "allowed"
    /\ IF op[c].answer = "none" THEN Return(c, "gating", "ok")
                                ELSE Goto(c, "gating", "sending") /\ result' = result
    /\ UNCHANGED <<gateVars, target, op, options, raw, requests>>

OwnRequest(c) == [from |-> c, url |-> target[c], group |-> op[c].gate,
                  mutates |-> op[c].mutates,
                  key |-> SendsKey(options[c].key, op[c].mutates)]

\* A deployment does not serve a caller whose credential it rejects.
Answers(c) == IF c \in Rejected THEN {"failed"} ELSE {"ok", "failed"}

\* Mutant of Perform: only the first body is captured.
PerformKeepsRaw(c) ==
    /\ \E how \in Answers(c) : Return(c, "sending", how)
    /\ requests' = requests \cup {OwnRequest(c)}
    /\ raw' = IF Captures(c, op[c].answer) /\ raw[c] = "untouched"
                THEN [raw EXCEPT ![c] = "own"] ELSE raw
    /\ UNCHANGED <<gateVars, target, op, options>>

\* The operation's request is answered.
Perform(c) ==
    /\ \E how \in Answers(c) : Return(c, "sending", how)
    /\ requests' = requests \cup {OwnRequest(c)}
    /\ raw' = IF Captures(c, op[c].answer) THEN [raw EXCEPT ![c] = "own"] ELSE raw
    /\ UNCHANGED <<gateVars, target, op, options>>

\* It gets no answer that could be read; it may have been sent.
PerformFails(c) ==
    /\ Return(c, "sending", "failed")
    /\ requests' = requests \cup {OwnRequest(c)}
    /\ UNCHANGED <<gateVars, target, op, options, raw>>

Next ==
    \/ \E c \in Callers :
         \/ \E u \in BaseURLs, o \in Kinds, opts \in Options : Begin(c, u, o, opts)
         \/ CallerCancels(c) \/ GateAnswersFromKnown(c)
         \/ Denied(c) \/ Admitted(c) \/ Perform(c) \/ PerformFails(c)
    \/ \E u \in BaseURLs, S \in SUBSET Callers, r \in Gate!Results :
         GateAnswersByProbe(u, S, r)

Spec == Init /\ [][Next]_vars

-----------------------------------------------------------------------------

\* No request reaches a deployment that does not serve the extension it belongs
\* to, whoever's probe the permission came from and whichever deployment the
\* options of the call name: the 404 "from a path the caller has no reason to
\* doubt" of ensureExtensionAvailable's comment does not happen.
NothingIsSentUnserved ==
    \A r \in requests : r.group # "core" => r.group \in served[r.url].groups

\* The options of a call serve the call, although the probe of its gate is sent on
\* a copy of the same configuration.  "A key identifies one logical operation"
\* (WithIdempotencyKey): of the two requests at most one carries the key, and it is
\* the mutation, so that a deployment does not take the one for a repeat of the
\* other; and a successful JSON call leaves its own response behind WithRawJSON,
\* also when the probe wrote there first.
OptionsServeTheCall ==
    /\ \A q, r \in requests : q.key /\ r.key /\ q.from = r.from => q = r /\ q.mutates
    /\ \A c \in Callers :
         result[c] = "ok" /\ options[c].capture /\ op[c].answer = "json" => raw[c] = "own"

-----------------------------------------------------------------------------
(* Said of this code in the repository and not so (README, Disagreements);  *)
(* no passing run checks it.                                                *)

\* option/requestoption.go:257-258: "Streaming and download operations hand their
\* body to the caller already, and leave raw untouched".
DownloadsLeaveRawUntouched ==
    \A c \in Callers : op[c].answer = "raw" => raw[c] = "untouched"

\* option/requestoption.go:246,257: WithRawJSON "captures the response body" of
\* "operations with a JSON response body"; an upload's is one.
UploadsAreCaptured ==
    \A c \in Callers :
        result[c] = "ok" /\ options[c].capture /\ op[c].answer = "multipart" => raw[c] = "own"
=============================================================================
