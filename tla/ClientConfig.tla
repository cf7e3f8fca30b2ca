---------------------------- MODULE ClientConfig ----------------------------
(***************************************************************************)
(* How a request comes to be configured: New and the legacy constructors   *)
(* of client.go, the options of package option, and RequestConfig.With,    *)
(* Clone and Apply beneath Client.With, every per-call option list and     *)
(* every scoped client.                                                    *)
(*                                                                         *)
(* A config is made from another one by goroutines that know nothing of    *)
(* each other: while options are being applied to one, requests go out on  *)
(* the configs it was made from.  Header maps are references, because a    *)
(* map that is assigned is shared, and options write into it in place.     *)
(*                                                                         *)
(* Paths are sequences of segments: "/orca/v1/" is <<"orca", "v1", Gap>>.  *)
(***************************************************************************)
EXTENDS Naturals, Sequences, FiniteSets, SequencesExt

CONSTANTS
    Clients,        \* configs made by New or a legacy constructor
    Clones,         \* configs made from others
    NoConfig,       \* the parent of a config that is not a clone
    OptionLists,    \* of each config, the option lists it may be made with
    Segments,       \* what paths are made of
    Settings,       \* retry counts and writers of notices
    Spellings,      \* base URLs: of each name, the deployment's root path and
                    \* what the caller wrote after it
    Environments    \* the process environments considered

\* A config names the header map it allocates, too.
Configs == Clients \cup Clones

\* An option, as the word its caller says: what it sets, and to which name.
HeaderKinds == {"set", "add", "del"}
Credentials == {"none", "token", "key", "provider"}
HeaderNames == {"authorization", "x-api-key", "accept", "user-agent", "custom"}

Word ==
    [kind : {"auth"}, name : Credentials \cup {"blank"}]
      \cup [kind : {"base"}, name : DOMAIN Spellings \cup {"malformed"}]
      \cup [kind : HeaderKinds, name : HeaderNames]
      \cup [kind : {"retries", "writer"}, name : Settings]

\* The segment between two slashes, or after the last one.
Gap == "/"

LegacySuffixes == {<<"api", "v1">>, <<"v1", "registry">>, <<"v1">>}

\* Of p.rest the first i segments are slashes, the ones up to j perhaps a legacy
\* suffix, and the others slashes again.  The root ends in neither, and lends the
\* suffix no segment: "/api/v1" is a way to write the root "", not "/api".
Spelt(p, i, j) ==
    /\ \A k \in (1..i) \cup ((j + 1)..Len(p.rest)) : p.rest[k] = Gap
    /\ SubSeq(p.rest, i + 1, j) \in LegacySuffixes \cup {<<>>}
    /\ p.root # <<>> => p.root[Len(p.root)] # Gap
    /\ \A x \in LegacySuffixes :
         /\ ~IsSuffix(x, p.root)
         /\ IsSuffix(x, p.root \o SubSeq(p.rest, 1, j)) => Len(x) <= j - i

ASSUME ConfigAssumption ==
    /\ NoConfig \notin Configs
    /\ {Gap, "api", "v1", "registry", "apis", "cloud"} \subseteq Segments
    /\ {"0", "2", "discard", "stderr"} \subseteq Settings
    /\ \A c \in Configs : OptionLists[c] \subseteq Seq(Word)
    /\ \A s \in DOMAIN Spellings :
         /\ {Spellings[s].root, Spellings[s].rest} \subseteq Seq(Segments)
         /\ \E i \in 0..Len(Spellings[s].rest) : \E j \in i..Len(Spellings[s].rest) :
              Spelt(Spellings[s], i, j)
    /\ \A e \in Environments :
         e.base \in DOMAIN Spellings \cup {"none", "malformed"} /\ e.has \subseteq {"key", "token"}

VARIABLES
    env,      \* the process environment
    stage,    \* of each config: "none", "building", "ready" or "failed"
    left,     \* the options still to be applied to it
    cfg,      \* the RequestConfig
    headers,  \* the heap of header maps
    said,     \* every word said to a config and to those it was made from, and by whom
    wrote     \* the notices each config's building wrote, in order: to which writer

vars == <<env, stage, left, cfg, headers, said, wrote>>

NoBase  == <<>>
Default == [base |-> NoBase, prefix |-> <<>>, credential |-> "none", header |-> NoConfig,
            retries |-> "2", writer |-> "discard", pending |-> 0]
NoHeaders == [h \in HeaderNames |-> <<>>]

RequestConfig ==
    [base : Seq(Segments), prefix : Seq(Segments), credential : Credentials,
     header : Configs \cup {NoConfig}, retries : Settings, writer : Settings, pending : Nat]

TypeOK ==
    /\ env \in Environments
    /\ stage \in [Configs -> {"none", "building", "ready", "failed"}]
    /\ left \in [Configs -> Seq(Word)]
    /\ cfg \in [Configs -> RequestConfig]
    /\ headers \in [Configs -> [HeaderNames -> Seq(Configs)]]
    /\ said \in [Configs -> Seq([word : Word, by : Configs])]
    /\ wrote \in [Configs -> Seq(Settings)]
    /\ \A c \in Configs : stage[c] = "ready" => cfg[c].base # NoBase /\ cfg[c].pending = 0

Init ==
    /\ env \in Environments
    /\ stage = [c \in Configs |-> "none"]
    /\ left = [c \in Configs |-> <<>>]
    /\ cfg = [c \in Configs |-> Default]
    /\ headers = [c \in Configs |-> NoHeaders]
    /\ said = [c \in Configs |-> <<>>]
    /\ wrote = [c \in Configs |-> <<>>]

-----------------------------------------------------------------------------
(* Base URLs: internal/requestconfig/baseurl.go.                            *)

Written(s) == Spellings[s].root \o Spellings[s].rest

TrimSlashes(p) == SubSeq(p, 1, Max({0} \cup { i \in 1..Len(p) : p[i] # Gap }))

\* The legacy suffix a path ends with: the longer ones are looked for first.
Matched(p) ==
    LET ends == { x \in LegacySuffixes \cup {<<>>} : IsSuffix(x, TrimSlashes(p)) }
    IN  CHOOSE x \in ends : \A y \in ends : Len(y) <= Len(x)

StripLegacyBaseURLSuffix(p) ==
    IF Matched(p) = <<>> THEN p
    ELSE SubSeq(TrimSlashes(p), 1, Len(TrimSlashes(p)) - Len(Matched(p)))

\* Mutant of NormalizeBaseURL: what stood between root and suffix stays.
NormalizeWithoutTrim(p) ==
    IF Matched(p) = <<>> THEN TrimSlashes(p) \o <<Gap>>
                         ELSE StripLegacyBaseURLSuffix(p) \o <<Gap>>

NormalizeBaseURL(p) == TrimSlashes(StripLegacyBaseURLSuffix(p)) \o <<Gap>>

-----------------------------------------------------------------------------
(* Making a config.                                                         *)

\* environmentOptions: an API key is preferred to an access token.
EnvironmentOptions ==
    (IF env.base = "none" THEN <<>> ELSE <<[kind |-> "base", name |-> env.base]>>)
      \o IF env.has = {} THEN <<>>
         ELSE <<[kind |-> "auth", name |-> IF "key" \in env.has THEN "key" ELSE "token"]>>

\* Goroutine c sets out to make config c from parent p with the options opts.
Make(c, p, opts, start, map) ==
    /\ stage[c] = "none"
    /\ stage' = [stage EXCEPT ![c] = "building"]
    /\ left' = [left EXCEPT ![c] = opts]
    /\ cfg' = [cfg EXCEPT ![c] = start]
    /\ headers' = [headers EXCEPT ![c] = map]
    /\ said' = [said EXCEPT ![c] = (IF p = NoConfig THEN <<>> ELSE said[p])
                                     \o [i \in 1..Len(opts) |-> [word |-> opts[i], by |-> c]]]
    /\ UNCHANGED <<env, wrote>>

\* New: the environment first, then the caller's options.
New(c, opts) ==
    Make(c, NoConfig, EnvironmentOptions \o opts, [Default EXCEPT !.header = c], NoHeaders)

\* The constructors that predate options: no environment, and no retries.
NewLegacyClient(c, base, auth) ==
    Make(c, NoConfig,
         << [kind |-> "writer",  name |-> "stderr"], [kind |-> "base", name |-> base],
            [kind |-> "auth",    name |-> auth],     [kind |-> "retries", name |-> "0"] >>,
         [Default EXCEPT !.header = c], NoHeaders)

\* Mutant of Clone: the header map is assigned.
CloneSharesHeader(c, p) == cfg[p]

\* Clone: a header map of its own, and nothing queued.
Clone(c, p) == [cfg[p] EXCEPT !.header = c, !.pending = 0]

\* RequestConfig.With, for a derived client or for one call.  Without options it
\* is the receiver itself that is used, so no config is made.
With(c, p, opts) ==
    /\ stage[p] = "ready"
    /\ opts # <<>>
    /\ Make(c, p, opts, Clone(c, p), headers[cfg[p].header])

\* WithPathPrefix, scoped, and the clone the gate's probe runs on.  A prefix is
\* rid of the slashes around it and given one at its end.
Scoped(c, p, prefix) ==
    /\ stage[p] = "ready"
    /\ Make(c, p, <<>>, [Clone(c, p) EXCEPT !.prefix = prefix], headers[cfg[p].header])

-----------------------------------------------------------------------------
(* The options.                                                             *)

\* Options that reject their argument: a blank credential, a URL that is none.
Rejects(w) == w.name \in {"blank", "malformed"}

\* Config c after the option w; NormalizeBaseURL queues its notice.
Applied(c, w) ==
    CASE w.kind = "auth"    -> [cfg[c] EXCEPT !.credential = w.name]
      [] w.kind = "retries" -> [cfg[c] EXCEPT !.retries = w.name]
      [] w.kind = "writer"  -> [cfg[c] EXCEPT !.writer = w.name]
      [] w.kind = "base"    ->
           [cfg[c] EXCEPT !.base = NormalizeBaseURL(Written(w.name)),
                          !.pending = IF Matched(Written(w.name)) = <<>> THEN @ ELSE @ + 1]
      [] OTHER              -> cfg[c]

\* WithHeader, WithHeaderAdd and WithHeaderDel write into the map in place.  The
\* nil that WithHeaderDel leaves sends what an absent key sends.
HeaderAfter(c, w) ==
    LET old == headers[cfg[c].header] IN
      CASE w.kind = "set" -> [old EXCEPT ![w.name] = <<c>>]
        [] w.kind = "add" -> [old EXCEPT ![w.name] = Append(@, c)]
        [] w.kind = "del" -> [old EXCEPT ![w.name] = <<>>]
        [] OTHER          -> old

\* Mutant of ApplyNext: a notice goes to the writer of the moment.
ApplyNextWarnsAtOnce(c) ==
    /\ stage[c] = "building"
    /\ left[c] # <<>>
    /\ LET w == Head(left[c]) IN
         /\ ~Rejects(w)
         /\ cfg' = [cfg EXCEPT ![c] = [Applied(c, w) EXCEPT !.pending = 0]]
         /\ headers' = [headers EXCEPT ![cfg[c].header] = HeaderAfter(c, w)]
         /\ wrote' = IF Applied(c, w).pending = 0 THEN wrote
                     ELSE [wrote EXCEPT ![c] = Append(@, cfg[c].writer)]
    /\ left' = [left EXCEPT ![c] = Tail(@)]
    /\ UNCHANGED <<env, stage, said>>

\* Apply: one option after the other, in order.
ApplyNext(c) ==
    /\ stage[c] = "building"
    /\ left[c] # <<>>
    /\ LET w == Head(left[c]) IN
         /\ ~Rejects(w)
         /\ cfg' = [cfg EXCEPT ![c] = Applied(c, w)]
         /\ headers' = [headers EXCEPT ![cfg[c].header] = HeaderAfter(c, w)]
    /\ left' = [left EXCEPT ![c] = Tail(@)]
    /\ UNCHANGED <<env, stage, said, wrote>>

\* The first option that fails fails the call; the half-made config is dropped.
ApplyFails(c) ==
    /\ stage[c] = "building"
    /\ left[c] # <<>> /\ Rejects(Head(left[c]))
    /\ stage' = [stage EXCEPT ![c] = "failed"]
    /\ left' = [left EXCEPT ![c] = <<>>]
    /\ UNCHANGED <<env, cfg, headers, said, wrote>>

\* Mutant of Finish: nobody asks whether there is a base URL.
FinishWithoutBase(c) ==
    /\ stage[c] = "building"
    /\ left[c] = <<>>
    /\ wrote' = [wrote EXCEPT ![c] = @ \o [i \in 1..cfg[c].pending |-> cfg[c].writer]]
    /\ cfg' = [cfg EXCEPT ![c].pending = 0]
    /\ stage' = [stage EXCEPT ![c] = "ready"]
    /\ UNCHANGED <<env, left, headers, said>>

\* FlushWarnings; then New insists on a base URL.
Finish(c) ==
    /\ stage[c] = "building"
    /\ left[c] = <<>>
    /\ wrote' = [wrote EXCEPT ![c] = @ \o [i \in 1..cfg[c].pending |-> cfg[c].writer]]
    /\ cfg' = [cfg EXCEPT ![c].pending = 0]
    /\ stage' = [stage EXCEPT ![c] = IF cfg[c].base = NoBase THEN "failed" ELSE "ready"]
    /\ UNCHANGED <<env, left, headers, said>>

Next ==
    \/ \E c \in Clients :
         \/ \E opts \in OptionLists[c] : New(c, opts)
         \/ \E s \in DOMAIN Spellings, a \in Credentials \ {"provider"} : NewLegacyClient(c, s, a)
    \/ \E c \in Clones, p \in Configs :
         \/ \E opts \in OptionLists[c] : With(c, p, opts)
         \/ \E prefix \in {<<>>, <<"apis", "cloud">>} : Scoped(c, p, prefix)
    \/ \E c \in Configs : ApplyNext(c) \/ ApplyFails(c) \/ Finish(c)

Spec == Init /\ [][Next]_vars

-----------------------------------------------------------------------------
(* What goes out on config c.                                               *)

HeaderOf(credential) ==
    CASE credential = "key"  -> "x-api-key"
      [] credential = "none" -> "none"
      [] OTHER               -> "authorization"

\* Credential.Resolve, when a provider has or has not a credential to give.
Resolved(credential, minted) ==
    IF credential = "none" \/ (credential = "provider" /\ ~minted) THEN <<>>
                                                                   ELSE <<credential>>

\* ApplyHeaders: what the wrapper set stays, the credential comes next, then the
\* configured headers, and what is still missing to identify the SDK.
ApplyHeaders(c, minted) ==
    LET own    == headers[cfg[c].header]
        secret == Resolved(cfg[c].credential, minted)
    IN  [h \in HeaderNames |->
           IF h = "accept" THEN <<"wrapper">>
           ELSE IF h = HeaderOf(cfg[c].credential) /\ secret # <<>> THEN secret
           ELSE IF own[h] = <<>> /\ h = "user-agent" THEN <<"sdk">>
           ELSE own[h]]

\* ResolveURL: a relative reference replaces what follows the base's last slash.
ResolveURL(c, path) == Front(cfg[c].base) \o cfg[c].prefix \o path

-----------------------------------------------------------------------------

\* The last of some words that is of a kind, or what is meant when none is.
LastWord(words, kind, unsaid) ==
    LET places == { i \in 1..Len(words) : words[i].word.kind = kind } IN
      IF places = {} THEN unsaid ELSE words[Max(places)].word.name

\* The places of the words that header h owes its values to: the last one that
\* replaced them, and those that have added to it since.
Sources(words, h) ==
    LET about     == { i \in 1..Len(words) :
                         words[i].word.kind \in HeaderKinds /\ words[i].word.name = h }
        replacing == { i \in about : words[i].word.kind # "add" }
    IN  { i \in about : words[i].word.kind # "del" /\ \A j \in replacing : j <= i }

\* The number in a set of numbers that n of them do not exceed.
Nth(S, n) == CHOOSE i \in { x \in S : Cardinality({ y \in S : y <= x }) = n } : TRUE

\* The values of header h that some words amount to, in order: who said them.
Values(words, h) ==
    [n \in 1..Cardinality(Sources(words, h)) |-> words[Nth(Sources(words, h), n)].by]

\* A request carries the credential last asked for, that one alone, and of every
\* header the values its own words amount to; and it keeps to the retries asked
\* for: the words of the environment, of the constructor, of each derivation and
\* of the call itself, in that order, and of nobody else.  No client notices what
\* is made from it, whenever that happens.
EveryRequestIsAsConfigured ==
    \A c \in Configs : stage[c] = "ready" =>
        /\ cfg[c].retries = LastWord(said[c], "retries", "2")
        /\ \A minted \in BOOLEAN :
             LET sent   == ApplyHeaders(c, minted)
                 auth   == LastWord(said[c], "auth", "none")
                 secret == Resolved(auth, minted)
             IN  /\ sent["accept"] = <<"wrapper">>
                 /\ secret # <<>> => sent[HeaderOf(auth)] = secret
                 /\ \A h \in HeaderNames \ {"accept"} :
                      (h # HeaderOf(auth) \/ secret = <<>>) =>
                        sent[h] = IF Values(said[c], h) = <<>> /\ h = "user-agent"
                                    THEN <<"sdk">> ELSE Values(said[c], h)

\* However a base URL is written - trailing slashes, a legacy suffix, slashes
\* before one - its deployment has one key in the gate's cache, and a request's
\* path is the root's followed by the prefix's and its own.
DeploymentHasOneKey ==
    \A c \in Configs : stage[c] = "ready" =>
        LET root == Spellings[LastWord(said[c], "base", "none")].root IN
          /\ cfg[c].base = root \o <<Gap>>
          /\ ResolveURL(c, <<"v1">>) \in { root \o q \o <<"v1">> : q \in {<<>>, <<"apis", "cloud">>} }

\* The places of c's own words among them that name a legacy base URL.
LegacyBases(words, c) ==
    { i \in 1..Len(words) :
        words[i].by = c /\ words[i].word.kind = "base" /\ Matched(Written(words[i].word.name)) # <<>> }

\* A legacy base URL is told of once, to the writer in force when the options
\* have all been applied, wherever among them that writer was named; what is made
\* from a client does not tell of it again.  This is once per config: a gated or
\* a list call given such a base URL makes several configs from its options
\* (ensureExtensionAvailable, bind, ListPage), and each tells of it.
EveryNoticeOnce ==
    \A c \in Configs : stage[c] \in {"building", "ready"} =>
        wrote[c] = IF stage[c] = "ready"
                     THEN [n \in 1..Cardinality(LegacyBases(said[c], c)) |->
                             LastWord(said[c], "writer", "discard")]
                     ELSE <<>>

-----------------------------------------------------------------------------
(* Said of this code in the repository and not so (README, Disagreements);  *)
(* no passing run checks it.                                                *)

\* client.go:120: "An explicit option always wins over the environment": not when
\* the environment's base URL does not parse.
ExplicitOptionWins ==
    \A c \in Clients : stage[c] = "failed" =>
        \/ \E i \in 1..Len(said[c]) :
             i > Len(EnvironmentOptions) /\ Rejects(said[c][i].word)
        \/ LastWord(said[c], "base", "malformed") = "malformed"

\* option/requestoption.go:162: WithHeaderDel "removes a header the client would
\* otherwise send": not the SDK's own, the wrapper's, or the credential.
DeletedIsNotSent ==
    \A c \in Configs, h \in HeaderNames :
        stage[c] = "ready" /\ said[c] # <<>>
          /\ said[c][Len(said[c])].word = [kind |-> "del", name |-> h]
          => ApplyHeaders(c, TRUE)[h] = <<>>

\* internal/requestconfig/baseurl.go:16: stripping only part of a legacy suffix is
\* avoided; "/api//v1" is left with its "/api".
AnySlashesWillDo == NormalizeBaseURL(<<"orca", "api", Gap, "v1">>) = <<"orca", Gap>>
=============================================================================
