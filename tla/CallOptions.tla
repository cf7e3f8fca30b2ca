----------------------------- MODULE CallOptions -----------------------------
(***************************************************************************)
(* How a list operation's options become the queries of its pages, when    *)
(* one client and one slice of options are shared by several walks.  A     *)
(* List method appends its own parameters to the variadic slice it is      *)
(* given (params.go); ListPage resolves the first URL from them and keeps  *)
(* the slice in the closure that fetches the pages after it (client.go),   *)
(* where every fetch applies the options and resolves its URL once more    *)
(* (RequestConfig.With, ResolveURL).                                       *)
(*                                                                         *)
(* The options the callers share set no query parameter; what matters of   *)
(* them is the room in the array behind their end.  A slice is given by    *)
(* what was appended to them.                                              *)
(***************************************************************************)
EXTENDS Naturals, Sequences, FiniteSets

CONSTANTS
    Callers,        \* walks, each with parameters of its own
    Filters,        \* the query parameters of ListParams, the page aside
    SpareCapacity,  \* cap - len of the slice the callers share
    Prefixed,       \* is the client scoped by WithPathPrefix?
    MaxPages        \* bound: pages of one walk

ASSUME CallOptionsAssumption ==
    /\ IsFiniteSet(Filters) /\ "page" \notin Filters
    /\ SpareCapacity \in Nat /\ MaxPages \in Nat \ {0}
    /\ Prefixed \in BOOLEAN

Keys == Filters \cup {"page"}

\* Where a parameter's value comes from: a caller, the client's defaults, or the
\* deployment's token for the page of that number.
Given(c) == <<"caller", c>>
Token(n) == <<"token", n>>
Default  == <<"client", 0>>
Absent   == <<"absent", 0>>
Values   == { Given(c) : c \in Callers } \cup { Token(n) : n \in 1..MaxPages }
              \cup {Default, Absent}

Query  == [Keys -> Values]
URL    == [query : Query, path : {"list", "elsewhere"}]
Option == [key : Keys, value : { Given(c) : c \in Callers }]

VARIABLES
    defaults,  \* the client's own RequestConfig.Query
    params,    \* the parameters each caller sets in its ListParams, in order
    array,     \* the room behind the shared slice
    shared,    \* is the caller's slice still in the shared array?
    length,    \* options appended to it
    own,       \* the array of its own it has grown into
    cursor,    \* PageCursor.requestURL
    pages,     \* pages fetched
    sent,      \* the request sent last
    pc         \* "append", "walk"

vars == <<defaults, params, array, shared, length, own, cursor, pages, sent, pc>>
sliceVars == <<array, shared, length, own>>

ListURL   == [query |-> [k \in Keys |-> Absent], path |-> "list"]
Unwritten == [key |-> "page", value |-> Absent]

TypeOK ==
    /\ defaults \in [Keys -> {Default, Absent}]
    /\ \A c \in Callers : params[c] \in Seq(Keys)
    /\ array \in [1..SpareCapacity -> Option \cup {Unwritten}]
    /\ shared \in [Callers -> BOOLEAN]
    /\ \A c \in Callers : length[c] \in 0..Len(params[c])
    /\ \A c \in Callers : own[c] \in Seq(Option)
    /\ cursor \in [Callers -> URL]
    /\ pages \in [Callers -> 0..MaxPages]
    /\ sent \in [Callers -> URL]
    /\ pc \in [Callers -> {"append", "walk"}]

\* Every parameter is set once at most.
ListParams ==
    { s \in UNION { [1..n -> Keys] : n \in 0..Cardinality(Keys) } :
        \A i, j \in DOMAIN s : s[i] = s[j] => i = j }

Init ==
    /\ defaults \in [Keys -> {Default, Absent}]
    /\ params \in [Callers -> ListParams]
    /\ array = [i \in 1..SpareCapacity |-> Unwritten]
    /\ shared = [c \in Callers |-> TRUE]
    /\ length = [c \in Callers |-> 0]
    /\ own = [c \in Callers |-> <<>>]
    /\ cursor = [c \in Callers |-> ListURL]
    /\ pages = [c \in Callers |-> 0]
    /\ sent = [c \in Callers |-> ListURL]
    /\ pc = [c \in Callers |-> "append"]

-----------------------------------------------------------------------------

\* The options appended to a caller's slice, as they read now.
Appended(c) == IF shared[c] THEN SubSeq(array, 1, length[c]) ELSE own[c]

\* RequestConfig.With: a clone of the client's config with the options applied in
\* order, each setting its parameter.
With(q, os) ==
    [k \in Keys |->
       LET set == { i \in DOMAIN os : os[i].key = k }
       IN IF set = {} THEN q[k]
          ELSE os[CHOOSE i \in set : \A j \in set : j <= i].value]

\* Mutant of ResolveURL: the config's parameters win.
ResolveURLConfigWins(url, q, absolute) ==
    [query |-> [k \in Keys |-> IF q[k] # Absent THEN q[k] ELSE url.query[k]],
     path  |-> IF absolute /\ Prefixed THEN "elsewhere" ELSE url.path]

\* ResolveURL: a parameter of the URL's own wins over the config's; the path
\* prefix is put before whatever it is given, an absolute URL too.
ResolveURL(url, q, absolute) ==
    [query |-> [k \in Keys |-> IF url.query[k] # Absent THEN url.query[k] ELSE q[k]],
     path  |-> IF absolute /\ Prefixed THEN "elsewhere" ELSE url.path]

\* append: into the room behind the slice, which may be another's too, or into a
\* new array.
AppendOption(c) ==
    LET n == length[c] + 1
        o == [key |-> params[c][n], value |-> Given(c)]
    IN
      /\ pc[c] = "append"
      /\ length[c] < Len(params[c])
      /\ length' = [length EXCEPT ![c] = n]
      /\ IF shared[c] /\ n <= SpareCapacity
           THEN array' = [array EXCEPT ![n] = o] /\ UNCHANGED <<shared, own>>
           ELSE /\ own' = [own EXCEPT ![c] = Append(Appended(c), o)]
                /\ shared' = [shared EXCEPT ![c] = FALSE]
                /\ array' = array
      /\ UNCHANGED <<defaults, params, cursor, pages, sent, pc>>

\* Mutant of FetchFirst: the options are applied to the client's config itself.
FetchFirstUncloned(c) ==
    LET q   == With(defaults, Appended(c))
        url == ResolveURL(ListURL, q, FALSE)
    IN
      /\ pc[c] = "append"
      /\ length[c] = Len(params[c])
      /\ pc' = [pc EXCEPT ![c] = "walk"]
      /\ cursor' = [cursor EXCEPT ![c] = url]
      /\ sent' = [sent EXCEPT ![c] = ResolveURL(url, q, TRUE)]
      /\ pages' = [pages EXCEPT ![c] = 1]
      /\ defaults' = q
      /\ UNCHANGED <<params, sliceVars>>

\* ListPage resolves the URL of the first page and fetches it: the closure
\* resolves that URL, absolute by now, again.
FetchFirst(c) ==
    LET q   == With(defaults, Appended(c))
        url == ResolveURL(ListURL, q, FALSE)
    IN
      /\ pc[c] = "append"
      /\ length[c] = Len(params[c])
      /\ pc' = [pc EXCEPT ![c] = "walk"]
      /\ cursor' = [cursor EXCEPT ![c] = url]
      /\ sent' = [sent EXCEPT ![c] = ResolveURL(url, q, TRUE)]
      /\ pages' = [pages EXCEPT ![c] = 1]
      /\ UNCHANGED <<defaults, params, sliceVars>>

\* Mutant of FetchNext: the token of the page before is sent.
FetchNextStale(c) ==
    LET url == [cursor[c] EXCEPT !.query["page"] = Token(pages[c] - 1)] IN
      /\ pc[c] = "walk"
      /\ pages[c] < MaxPages
      /\ cursor' = [cursor EXCEPT ![c] = url]
      /\ sent' = [sent EXCEPT ![c] = ResolveURL(url, With(defaults, Appended(c)), TRUE)]
      /\ pages' = [pages EXCEPT ![c] = pages[c] + 1]
      /\ UNCHANGED <<defaults, params, sliceVars, pc>>

\* nextPageURL puts the token into the cursor's URL, and the closure resolves it
\* with the options as they read now.
FetchNext(c) ==
    LET url == [cursor[c] EXCEPT !.query["page"] = Token(pages[c])] IN
      /\ pc[c] = "walk"
      /\ pages[c] < MaxPages
      /\ cursor' = [cursor EXCEPT ![c] = url]
      /\ sent' = [sent EXCEPT ![c] = ResolveURL(url, With(defaults, Appended(c)), TRUE)]
      /\ pages' = [pages EXCEPT ![c] = pages[c] + 1]
      /\ UNCHANGED <<defaults, params, sliceVars, pc>>

Next == \E c \in Callers : AppendOption(c) \/ FetchFirst(c) \/ FetchNext(c)

Spec == Init /\ [][Next]_vars

-----------------------------------------------------------------------------

Sets(c, k) == \E i \in DOMAIN params[c] : params[c][i] = k

\* Every page of a walk is asked for with the parameters its own caller gave, the
\* client's defaults where it gave none, and nothing of any other walk's: what
\* client.go:436-437 ("per-call options apply to every page") and
\* requestconfig.go:233-234 ("safe on a shared client") promise.
EveryPageHasItsOwnParameters ==
    \A c \in Callers : pages[c] > 0 =>
        \A k \in Filters :
            sent[c].query[k] = IF Sets(c, k) THEN Given(c) ELSE defaults[k]

\* The page asked for is the one the last page named, although the options, or the
\* client's defaults, still name the page the walk began with.
EveryPageIsTheNext ==
    \A c \in Callers : pages[c] > 0 =>
        sent[c].query["page"] = CASE pages[c] > 1 -> Token(pages[c] - 1)
                                  [] pages[c] = 1 /\ Sets(c, "page") -> Given(c)
                                  [] OTHER -> defaults["page"]

-----------------------------------------------------------------------------
(* Said of this code in the repository and not so (README, Disagreements);  *)
(* no passing run checks it.                                                *)

\* client.go:459-461: "Re-resolving an absolute URL is a no-op", so every page is
\* asked for where the list is.
EveryPageIsOfTheList ==
    \A c \in Callers : sent[c].path = "list"
=============================================================================
