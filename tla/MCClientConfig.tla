--------------------------- MODULE MCClientConfig ---------------------------
(* A small instance of ClientConfig for TLC.                                *)
EXTENDS ClientConfig, TLC

MCSegments == {Gap, "api", "v1", "registry", "apis", "cloud", "orca"}
MCSettings == {"0", "2", "discard", "stderr", "log"}

\* Two deployments; the first is also written in legacy ways.
MCSpellings ==
    "orca"     :> [root |-> <<"orca">>, rest |-> <<>>] @@
    "slashed"  :> [root |-> <<"orca">>, rest |-> <<Gap, "v1", "registry", Gap>>] @@
    "aliased"  :> [root |-> <<"orca">>, rest |-> <<"api", "v1">>] @@
    "other"    :> [root |-> <<>>,       rest |-> <<Gap, Gap>>]

MCEnvironments ==
    { [base |-> "none",      has |-> {"key"}],
      [base |-> "aliased",   has |-> {"key", "token"}],
      [base |-> "orca",      has |-> {"token"}],
      [base |-> "malformed", has |-> {}] }

Says(kind, name) == [kind |-> kind, name |-> name]

\* A client is made with one or two options, in every order; each clone with one.
ClientOptions ==
    { Says("auth", "token"), Says("auth", "none"), Says("auth", "provider"),
      Says("base", "slashed"), Says("base", "other"), Says("writer", "log"),
      Says("set", "custom"), Says("set", "authorization"), Says("retries", "0") }
CallOptions ==
    { Says("auth", "key"), Says("auth", "blank"), Says("base", "orca"),
      Says("base", "aliased"), Says("set", "custom"), Says("add", "custom"),
      Says("del", "custom"), Says("del", "user-agent"), Says("set", "accept") }

MCOptionLists ==
    "client"  :> UNION { [1..n -> ClientOptions] : n \in 1..2 } @@
    "derived" :> [1..1 -> CallOptions] @@
    "call"    :> [1..1 -> CallOptions]
=============================================================================
