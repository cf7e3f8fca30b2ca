------------------------ MODULE ExtensionCallProofs ------------------------
(***************************************************************************)
(* Theorems about ExtensionCall, for every set of callers, deployments and *)
(* groups, and for all operations of Operations at once.  They use of the  *)
(* gate only what ExtensionGate promises.                                  *)
(***************************************************************************)
EXTENDS ExtensionCall, TLAPS

ServedType == served \in [BaseURLs -> [discovery : BOOLEAN, groups : SUBSET Groups]]

\* Nothing is known of a deployment but what it serves.
KnownInv ==
    \A u \in BaseURLs : known[u] # NotCached => known[u] \subseteq served[u].groups

\* A caller at the gate asks about its own call, and permission is given for what
\* is served; a caller past the gate had it.
GateInv ==
    /\ at \in [Callers -> BaseURLs] /\ want \in [Callers -> Groups]
    /\ DOMAIN answer = Callers
    /\ \A c \in Callers :
         /\ stage[c] = "idle" => phase[c] = "idle"
         /\ phase[c] = "asking" => stage[c] = "gating"
         /\ stage[c] = "gating" =>
              phase[c] # "idle" /\ at[c] = target[c] /\ want[c] = op[c].gate
         /\ answer[c] = "allowed" => want[c] \in served[at[c]].groups
         /\ stage[c] = "sending" /\ op[c].gate # "core" =>
              op[c].gate \in served[target[c]].groups

\* A request that carries a key is the mutation itself, of a call that has returned.
RequestInv ==
    \A r \in requests :
        /\ r.group # "core" => r.group \in served[r.url].groups
        /\ r.key => r.mutates /\ stage[r.from] = "returned" /\ r = OwnRequest(r.from)

\* A call has a result once it has returned.
ResultInv ==
    \A c \in Callers :
        /\ stage[c] # "returned" => result[c] = "none"
        /\ result[c] = "ok" /\ options[c].capture /\ op[c].answer = "json" => raw[c] = "own"

IInv == TypeOK /\ ServedType /\ KnownInv /\ GateInv /\ RequestInv /\ ResultInv

-----------------------------------------------------------------------------
(* Operations, questions and answers.                                       *)

LEMMA KindType ==
  ASSUME NEW o \in Kinds
  PROVE  o.gate \in Groups \cup {"core"} /\ o.mutates \in BOOLEAN
  <1>1. o \in OperationKinds /\ o.gate \in Groups \cup {"core"}
    BY ExtensionCallAssumption
  <1>2. PICK p \in GatedOperations \cup CoreOperations :
          o = [gate    |-> p.gate,
               mutates |-> p.call.method \in {"POST", "PUT", "PATCH", "DELETE"},
               answer  |-> p.call.answer]
    BY <1>1 DEF OperationKinds
  <1>3. o.mutates = (p.call.method \in {"POST", "PUT", "PATCH", "DELETE"})
    BY <1>2, Zenon
  <1>4. o.mutates \in BOOLEAN
    <2> DEFINE m == p.call.method \in {"POST", "PUT", "PATCH", "DELETE"}
    <2>1. m \in BOOLEAN
      OBVIOUS
    <2>2. QED
      BY <1>3, <2>1, Zenon
  <1>5. QED
    BY <1>1, <1>4

\* Permission is given on a list that names the group.
LEMMA JudgeAllows ==
  ASSUME NEW r, NEW g, Gate!Judge(r, g) = "allowed"
  PROVE  r.err = "nil" /\ g \in r.groups
  BY DEF Gate!Judge

\* Both requests of a call are well formed, and only its own can carry the key.
LEMMA RequestTypes ==
  ASSUME TypeOK, NEW c \in Callers, NEW u \in BaseURLs
  PROVE  /\ Probe(c, u) \in Request /\ Probe(c, u).key = FALSE
         /\ OwnRequest(c) \in Request /\ OwnRequest(c).from = c
         /\ OwnRequest(c).key => OwnRequest(c).mutates
  <1>1. op[c] \in Kinds /\ target[c] \in BaseURLs /\ options[c].key \in BOOLEAN
    BY DEF TypeOK, Options
  <1>2. op[c].gate \in Groups \cup {"core"} /\ op[c].mutates \in BOOLEAN
    BY <1>1, KindType
  <1>3. SendsKey(options[c].key, op[c].mutates) \in BOOLEAN
    BY <1>1, <1>2, Zenon DEF SendsKey
  <1>4. SendsKey(options[c].key, FALSE) = FALSE
    BY Zenon DEF SendsKey
  <1>5. OwnRequest(c) \in Request
    BY <1>1, <1>2, <1>3 DEF OwnRequest, Request
  <1>6. Probe(c, u) \in Request /\ Probe(c, u).key = FALSE
    BY <1>4 DEF Probe, Request
  <1>7. OwnRequest(c).key => OwnRequest(c).mutates
    BY Zenon DEF OwnRequest, SendsKey
  <1>8. OwnRequest(c).from = c
    BY DEF OwnRequest
  <1>9. QED
    BY <1>5, <1>6, <1>7, <1>8

-----------------------------------------------------------------------------
(* Each step keeps the invariant.                                           *)

LEMMA InitIInv == Init => IInv
  <1> SUFFICES ASSUME Init PROVE IInv
    OBVIOUS
  <1> USE DEF Init, Gate!Init
  <1>1. op \in [Callers -> Kinds] /\ options \in [Callers -> Options]
    BY ExtensionCallAssumption DEF Options
  <1>2. TypeOK
    BY <1>1 DEF TypeOK
  <1>3. ServedType /\ KnownInv /\ GateInv
    BY DEF ServedType, KnownInv, GateInv
  <1>4. RequestInv /\ ResultInv
    BY DEF RequestInv, ResultInv
  <1>5. QED
    BY <1>2, <1>3, <1>4 DEF IInv

\* The call's own steps leave the gate alone; the gate's leave the call alone.
LEMMA BeginKeepsIInv ==
  ASSUME IInv, NEW c \in Callers, NEW u \in BaseURLs, NEW o \in Kinds,
         NEW opts \in Options, Begin(c, u, o, opts)
  PROVE  IInv'
  <1> USE DEF Begin, Goto
  <1>1. /\ stage[c] = "idle"
        /\ stage' = [stage EXCEPT ![c] = IF o.gate = "core" THEN "sending" ELSE "gating"]
        /\ target' = [target EXCEPT ![c] = u] /\ op' = [op EXCEPT ![c] = o]
        /\ options' = [options EXCEPT ![c] = opts]
        /\ UNCHANGED <<served, known, result, raw, requests>>
    BY DEF Gate!Ask, gateVars
  <1>2. o.gate \in Groups \cup {"core"}
    BY KindType
  <1>3. \/ o.gate = "core" /\ UNCHANGED <<phase, at, want, cancelled, answer>>
        \/ /\ o.gate # "core"
           /\ phase' = [phase EXCEPT ![c] = "asking"] /\ at' = [at EXCEPT ![c] = u]
           /\ want' = [want EXCEPT ![c] = o.gate]
           /\ answer' = [answer EXCEPT ![c] = "none"]
    BY DEF Gate!Ask, gateVars
  <1> HIDE DEF Begin, Goto
  <1>4. TypeOK'
    BY <1>1, <1>2, <1>3 DEF IInv, TypeOK
  <1>5. ServedType' /\ KnownInv'
    BY <1>1 DEF IInv, ServedType, KnownInv
  <1>6. GateInv'
    BY <1>1, <1>2, <1>3 DEF IInv, TypeOK, GateInv
  <1>7. RequestInv'
    <2>1. SUFFICES ASSUME NEW r \in requests
                   PROVE  /\ r.group # "core" => r.group \in served[r.url].groups
                          /\ r.key => /\ r.mutates /\ stage'[r.from] = "returned"
                                      /\ r = OwnRequest(r.from)'
      BY <1>1 DEF RequestInv
    <2>2. r.group # "core" => r.group \in served[r.url].groups
      BY DEF IInv, RequestInv
    <2>3. ASSUME r.key
          PROVE  r.mutates /\ stage'[r.from] = "returned" /\ r = OwnRequest(r.from)'
      <3>1. r.mutates /\ stage[r.from] = "returned" /\ r = OwnRequest(r.from)
        BY <2>3 DEF IInv, RequestInv
      <3>2. r.from \in Callers
        BY DEF IInv, TypeOK, Request
      <3>3. r.from # c
        BY <1>1, <3>1
      <3>4. /\ target'[r.from] = target[r.from] /\ op'[r.from] = op[r.from]
            /\ options'[r.from] = options[r.from] /\ stage'[r.from] = stage[r.from]
        BY <1>1, <3>2, <3>3 DEF IInv, TypeOK
      <3>5. OwnRequest(r.from)' = OwnRequest(r.from)
        BY <3>4 DEF OwnRequest, SendsKey
      <3>6. QED
        BY <3>1, <3>4, <3>5
    <2>4. QED
      BY <2>2, <2>3
  <1>8. ResultInv'
    BY <1>1 DEF IInv, TypeOK, ResultInv
  <1>9. QED
    BY <1>4, <1>5, <1>6, <1>7, <1>8 DEF IInv

\* What has been sent stays as it is while calls and options do, and calls that have
\* returned stay returned.
LEMMA RequestsKeep ==
  ASSUME IInv, UNCHANGED <<served, target, op, options>>,
         \A c \in Callers : stage[c] = "returned" => stage'[c] = "returned",
         NEW r \in requests
  PROVE  /\ r.group # "core" => r.group \in served'[r.url].groups
         /\ r.key => r.mutates /\ stage'[r.from] = "returned" /\ r = OwnRequest(r.from)'
  <1>1. r.from \in Callers
    BY DEF IInv, TypeOK, Request
  <1>2. OwnRequest(r.from)' = OwnRequest(r.from)
    BY DEF OwnRequest, SendsKey
  <1>3. QED
    BY <1>1, <1>2 DEF IInv, RequestInv

LEMMA GateStepsKeepIInv ==
  ASSUME IInv, NEW c \in Callers, CallerCancels(c) \/ GateAnswersFromKnown(c)
  PROVE  IInv'
  <1>1. UNCHANGED <<served, known, at, want, target, op, options, stage, result, raw, requests>>
    BY DEF CallerCancels, GateAnswersFromKnown, Gate!Cancel, Gate!AnswerFromKnown
  <1>2. \/ UNCHANGED <<phase, answer>>
        \/ /\ phase[c] = "asking" /\ phase' = [phase EXCEPT ![c] = "answered"]
           /\ known[at[c]] # NotCached
           /\ answer' = [answer EXCEPT ![c] =
                           Gate!Judge([groups |-> known[at[c]], err |-> "nil"], want[c])]
    BY DEF CallerCancels, GateAnswersFromKnown, Gate!Cancel, Gate!AnswerFromKnown
  <1>3. TypeOK' /\ ServedType' /\ KnownInv' /\ ResultInv'
    BY <1>1, <1>2 DEF IInv, TypeOK, ServedType, KnownInv, ResultInv
  <1>4. ASSUME known[at[c]] # NotCached,
               Gate!Judge([groups |-> known[at[c]], err |-> "nil"], want[c]) = "allowed"
        PROVE  want[c] \in served[at[c]].groups
    <2>1. want[c] \in known[at[c]]
      BY <1>4, JudgeAllows
    <2>2. QED
      BY <1>4, <2>1 DEF IInv, KnownInv, GateInv
  <1>5. GateInv'
    BY <1>1, <1>2, <1>4 DEF IInv, TypeOK, GateInv
  <1>6. RequestInv'
    BY <1>1, RequestsKeep DEF RequestInv
  <1>7. QED
    BY <1>3, <1>5, <1>6 DEF IInv

LEMMA GateAnswersByProbeKeepsIInv ==
  ASSUME IInv, NEW u \in BaseURLs, NEW S \in SUBSET Callers, NEW r \in Gate!Results,
         GateAnswersByProbe(u, S, r)
  PROVE  IInv'
  <1>1. /\ \A c \in S : phase[c] = "asking" /\ at[c] = u
        /\ Gate!Possible(r, u, S)
        /\ known' = IF r.err = "nil" THEN [known EXCEPT ![u] = r.groups] ELSE known
        /\ phase' = [c \in Callers |-> IF c \in S THEN "answered" ELSE phase[c]]
        /\ answer' = [c \in Callers |-> IF c \in S THEN Gate!Judge(r, want[c]) ELSE answer[c]]
        /\ UNCHANGED <<served, at, want, target, op, options, stage, result>>
    BY DEF GateAnswersByProbe, Gate!AnswerByProbe
  <1>2. PICK l \in S : /\ requests' = requests \cup {Probe(l, u)}
                       /\ raw' = raw \/ raw' = [raw EXCEPT ![l] = "discovery"]
    BY DEF GateAnswersByProbe, ProbeAnswered, ProbeFails
  <1>3. r.groups \in SUBSET Groups /\ (r.err = "nil" => r.groups \subseteq served[u].groups)
    BY <1>1 DEF Gate!Results, Gate!Possible
  <1>4. raw' \in [Callers -> {"untouched", "discovery", "own"}]
    BY <1>2 DEF IInv, TypeOK
  <1>5. Probe(l, u) \in Request /\ Probe(l, u).key = FALSE /\ Probe(l, u).group = "core"
    BY RequestTypes DEF IInv, Probe
  <1>6. TypeOK'
    BY <1>1, <1>2, <1>3, <1>4, <1>5 DEF IInv, TypeOK
  <1>7. ServedType' /\ KnownInv'
    BY <1>1, <1>3 DEF IInv, TypeOK, ServedType, KnownInv
  <1>8. GateInv'
    <2>1. ASSUME NEW c \in S, Gate!Judge(r, want[c]) = "allowed"
          PROVE  want[c] \in served[at[c]].groups
      BY <1>1, <1>3, <2>1, JudgeAllows
    <2>2. \A c \in Callers : answer'[c] = "allowed" => want[c] \in served[at[c]].groups
      BY <1>1, <2>1 DEF IInv, GateInv
    <2>3. QED
      BY <1>1, <2>2 DEF IInv, TypeOK, GateInv
  <1>9. RequestInv'
    BY <1>1, <1>2, <1>5, RequestsKeep DEF RequestInv
  <1>10. ResultInv'
    <2>1. l \in Callers /\ stage[l] = "gating" /\ result[l] = "none"
      BY <1>1 DEF IInv, GateInv, ResultInv
    <2>2. QED
      BY <1>1, <1>2, <2>1 DEF IInv, TypeOK, ResultInv
  <1>11. QED
    BY <1>6, <1>7, <1>8, <1>9, <1>10 DEF IInv

LEMMA DeniedKeepsIInv ==
  ASSUME IInv, NEW c \in Callers, Denied(c)
  PROVE  IInv'
  <1>1. /\ stage[c] = "gating" /\ stage' = [stage EXCEPT ![c] = "returned"]
        /\ \E how \in {"denied", "failed"} : result' = [result EXCEPT ![c] = how]
        /\ UNCHANGED <<served, known, phase, at, want, answer, target, op, options, raw, requests>>
        /\ phase[c] = "answered"
    BY DEF Denied, Return, Goto, gateVars
  <1>2. TypeOK' /\ ServedType' /\ KnownInv' /\ ResultInv'
    BY <1>1 DEF IInv, TypeOK, ServedType, KnownInv, ResultInv
  <1>3. GateInv'
    BY <1>1 DEF IInv, TypeOK, GateInv
  <1>4. \A d \in Callers : stage[d] = "returned" => stage'[d] = "returned"
    BY <1>1 DEF IInv, TypeOK
  <1>5. RequestInv'
    BY <1>1, <1>4, RequestsKeep DEF RequestInv
  <1>6. QED
    BY <1>2, <1>3, <1>5 DEF IInv

LEMMA AdmittedKeepsIInv ==
  ASSUME IInv, NEW c \in Callers, Admitted(c)
  PROVE  IInv'
  <1>1. /\ stage[c] = "gating" /\ phase[c] = "answered" /\ answer[c] = "allowed"
        /\ UNCHANGED <<served, known, phase, at, want, answer, target, op, options, raw, requests>>
        /\ \/ /\ op[c].answer = "none" /\ stage' = [stage EXCEPT ![c] = "returned"]
              /\ result' = [result EXCEPT ![c] = "ok"]
           \/ stage' = [stage EXCEPT ![c] = "sending"] /\ result' = result
    BY DEF Admitted, Return, Goto, gateVars
  <1>2. TypeOK' /\ ServedType' /\ KnownInv' /\ ResultInv'
    BY <1>1 DEF IInv, TypeOK, ServedType, KnownInv, ResultInv
  <1>3. op[c].gate \in served[target[c]].groups
    BY <1>1 DEF IInv, GateInv
  <1>4. GateInv'
    BY <1>1, <1>3 DEF IInv, TypeOK, GateInv
  <1>5. \A d \in Callers : stage[d] = "returned" => stage'[d] = "returned"
    BY <1>1 DEF IInv, TypeOK
  <1>6. RequestInv'
    BY <1>1, <1>5, RequestsKeep DEF RequestInv
  <1>7. QED
    BY <1>2, <1>4, <1>6 DEF IInv

LEMMA PerformKeepsIInv ==
  ASSUME IInv, NEW c \in Callers, Perform(c) \/ PerformFails(c)
  PROVE  IInv'
  <1>1. /\ stage[c] = "sending" /\ stage' = [stage EXCEPT ![c] = "returned"]
        /\ UNCHANGED <<served, known, phase, at, want, answer, target, op, options>>
        /\ requests' = requests \cup {OwnRequest(c)}
        /\ \/ /\ \E how \in {"ok", "failed"} : result' = [result EXCEPT ![c] = how]
              /\ raw' = IF Captures(c, op[c].answer) THEN [raw EXCEPT ![c] = "own"] ELSE raw
           \/ result' = [result EXCEPT ![c] = "failed"] /\ raw' = raw
    BY DEF Perform, PerformFails, Return, Goto, Answers, gateVars
  <1>2. /\ OwnRequest(c) \in Request /\ OwnRequest(c).from = c
        /\ (OwnRequest(c).key => OwnRequest(c).mutates)
    <2>1. target[c] \in BaseURLs
      BY DEF IInv, TypeOK
    <2>2. QED
      BY <2>1, RequestTypes DEF IInv
  <1>3. TypeOK' /\ ServedType' /\ KnownInv'
    <2>1. requests' \subseteq Request
      BY <1>1, <1>2 DEF IInv, TypeOK
    <2>2. raw' \in [Callers -> {"untouched", "discovery", "own"}]
      BY <1>1 DEF IInv, TypeOK
    <2>3. /\ result' \in [Callers -> {"none", "ok", "denied", "failed"}]
          /\ stage' \in [Callers -> {"idle", "gating", "sending", "returned"}]
      BY <1>1 DEF IInv, TypeOK
    <2>4. TypeOK'
      BY <1>1, <2>1, <2>2, <2>3 DEF IInv, TypeOK
    <2>5. ServedType' /\ KnownInv'
      BY <1>1 DEF IInv, ServedType, KnownInv
    <2>6. QED
      BY <2>4, <2>5
  <1>4. GateInv'
    BY <1>1 DEF IInv, TypeOK, GateInv
  <1>5. ResultInv'
    BY <1>1 DEF IInv, TypeOK, ResultInv, Captures
  <1>6. \A d \in Callers : stage[d] = "returned" => stage'[d] = "returned"
    BY <1>1 DEF IInv, TypeOK
  <1>7. OwnRequest(c).group # "core" =>
          OwnRequest(c).group \in served'[OwnRequest(c).url].groups
    BY <1>1 DEF IInv, GateInv, OwnRequest
  <1>8. OwnRequest(c)' = OwnRequest(c) /\ stage'[c] = "returned"
    BY <1>1 DEF IInv, TypeOK, OwnRequest, SendsKey
  <1>9. RequestInv'
    <2>1. SUFFICES ASSUME NEW r \in requests'
                   PROVE  /\ r.group # "core" => r.group \in served'[r.url].groups
                          /\ r.key => /\ r.mutates /\ stage'[r.from] = "returned"
                                      /\ r = OwnRequest(r.from)'
      BY DEF RequestInv
    <2>2. CASE r \in requests
      BY <1>1, <1>6, <2>2, RequestsKeep
    <2>3. CASE r = OwnRequest(c)
      BY <1>2, <1>7, <1>8, <2>3
    <2>4. QED
      BY <1>1, <2>2, <2>3
  <1>10. QED
    BY <1>3, <1>4, <1>5, <1>9 DEF IInv

LEMMA StutterKeepsIInv ==
  ASSUME IInv, UNCHANGED vars
  PROVE  IInv'
  <1>1. TypeOK' /\ ServedType' /\ KnownInv' /\ GateInv' /\ ResultInv'
    BY DEF IInv, TypeOK, ServedType, KnownInv, GateInv, ResultInv, vars, gateVars
  <1>2. RequestInv'
    BY RequestsKeep DEF RequestInv, vars, gateVars
  <1>3. QED
    BY <1>1, <1>2 DEF IInv

LEMMA NextIInv == IInv /\ [Next]_vars => IInv'
  BY BeginKeepsIInv, GateStepsKeepIInv, GateAnswersByProbeKeepsIInv, DeniedKeepsIInv,
     AdmittedKeepsIInv, PerformKeepsIInv, StutterKeepsIInv DEF Next

\* Past the gate there are only callers whose group is served.
THEOREM Invariance == Spec => []IInv
  BY InitIInv, NextIInv, PTL DEF Spec

\* The gate, the calls and what they have sent keep their types.
THEOREM TypeCorrect == Spec => []TypeOK
  <1>1. IInv => TypeOK
    BY DEF IInv
  <1>2. QED
    BY <1>1, Invariance, PTL

\* No request of an extension reaches a deployment that does not serve it.
THEOREM UnservedIsNotAsked == Spec => []NothingIsSentUnserved
  <1>1. IInv => NothingIsSentUnserved
    BY DEF IInv, RequestInv, NothingIsSentUnserved
  <1>2. QED
    BY <1>1, Invariance, PTL

\* Of a call's two requests only the mutation carries the key, and the bytes behind
\* WithRawJSON are the call's own when it has succeeded.
THEOREM OptionsAreTheCalls == Spec => []OptionsServeTheCall
  <1>1. IInv => OptionsServeTheCall
    BY DEF IInv, RequestInv, ResultInv, OptionsServeTheCall
  <1>2. QED
    BY <1>1, Invariance, PTL
=============================================================================
