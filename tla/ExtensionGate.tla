---------------------------- MODULE ExtensionGate ----------------------------
(***************************************************************************)
(* What the extension gate promises its callers, with no mutex, no call    *)
(* objects and no waiting: a caller's question is answered either from     *)
(* what is known of the deployment, or by one probe whose result answers a *)
(* set of callers at once.  A deployment is probed only while nothing is   *)
(* known of it, and only a list it answered with becomes known: the one it *)
(* serves, or the empty one of an answer without a body.                   *)
(*                                                                         *)
(* DiscoveryCache implements this specification (DiscoveryCache!Gate).     *)
(***************************************************************************)
CONSTANTS
    Callers, BaseURLs, Groups, NotCached,
    Rejected,   \* callers whose credential no deployment accepts
    Nested,     \* callers whose provider may fail with a 404 met elsewhere
    Blank       \* deployments that may answer 2xx without a body

VARIABLES
    served,      \* what each deployment answers to GET /apis
    known,       \* the list known of each deployment, or NotCached
    phase,       \* "idle", "asking" or "answered"
    at, want,    \* the question: which deployment, which group
    cancelled,   \* is the caller's context cancelled?
    answer       \* the gate's verdict

vars == <<served, known, phase, at, want, cancelled, answer>>

Results == [groups : SUBSET Groups,
            err : {"nil", "notFound", "rejected", "aborted", "failed"}]

Judge(r, g) ==
    CASE r.err \in {"rejected", "aborted", "failed"} -> r.err
      [] r.err = "nil" /\ g \in r.groups             -> "allowed"
      [] OTHER                                       -> "unavailable"

\* What one probe of u shared by the callers in S may find.
Possible(r, u, S) ==
    CASE r.err = "nil"      -> /\ ~(S \subseteq Rejected)
                               /\ \/ served[u].discovery /\ r.groups = served[u].groups
                                  \/ u \in Blank /\ r.groups = {}
      [] r.err = "notFound" -> (~served[u].discovery \/ S \cap Nested # {}) /\ r.groups = {}
      [] r.err = "rejected" -> (S \cap Rejected # {}) /\ r.groups = {}
      [] r.err = "aborted"  -> (\E c \in S : cancelled[c]) /\ r.groups = {}
      [] OTHER              -> r.groups = {}

Init ==
    /\ served \in [BaseURLs -> [discovery : BOOLEAN, groups : SUBSET Groups]]
    /\ known = [u \in BaseURLs |-> NotCached]
    /\ phase = [c \in Callers |-> "idle"]
    /\ at \in [Callers -> BaseURLs]
    /\ want \in [Callers -> Groups]
    /\ cancelled = [c \in Callers |-> FALSE]
    /\ answer = [c \in Callers |-> "none"]

Ask(c, u, g) ==
    /\ phase[c] # "asking"
    /\ phase' = [phase EXCEPT ![c] = "asking"]
    /\ at' = [at EXCEPT ![c] = u]
    /\ want' = [want EXCEPT ![c] = g]
    /\ cancelled' = [cancelled EXCEPT ![c] = FALSE]
    /\ answer' = [answer EXCEPT ![c] = "none"]
    /\ UNCHANGED <<served, known>>

\* The question itself was malformed.
Refuse(c) ==
    /\ phase[c] # "asking"
    /\ phase' = [phase EXCEPT ![c] = "answered"]
    /\ cancelled' = [cancelled EXCEPT ![c] = FALSE]
    /\ answer' = [answer EXCEPT ![c] = "failed"]
    /\ UNCHANGED <<served, known, at, want>>

Cancel(c) ==
    /\ phase[c] # "idle"
    /\ cancelled' = [cancelled EXCEPT ![c] = TRUE]
    /\ UNCHANGED <<served, known, phase, at, want, answer>>

AnswerFromKnown(c) ==
    /\ phase[c] = "asking"
    /\ known[at[c]] # NotCached
    /\ phase' = [phase EXCEPT ![c] = "answered"]
    /\ answer' = [answer EXCEPT ![c] =
                    Judge([groups |-> known[at[c]], err |-> "nil"], want[c])]
    /\ UNCHANGED <<served, known, at, want, cancelled>>

AnswerByProbe(u, S, r) ==
    /\ known[u] = NotCached
    /\ S # {}
    /\ \A c \in S : phase[c] = "asking" /\ at[c] = u
    /\ Possible(r, u, S)
    /\ known' = IF r.err = "nil" THEN [known EXCEPT ![u] = r.groups] ELSE known
    /\ phase' = [c \in Callers |-> IF c \in S THEN "answered" ELSE phase[c]]
    /\ answer' = [c \in Callers |-> IF c \in S THEN Judge(r, want[c]) ELSE answer[c]]
    /\ UNCHANGED <<served, at, want, cancelled>>

Next ==
    \/ \E c \in Callers :
         \/ \E u \in BaseURLs, g \in Groups : Ask(c, u, g)
         \/ Refuse(c)
         \/ Cancel(c)
         \/ AnswerFromKnown(c)
    \/ \E u \in BaseURLs, S \in SUBSET Callers, r \in Results : AnswerByProbe(u, S, r)

Spec == Init /\ [][Next]_vars
=============================================================================
