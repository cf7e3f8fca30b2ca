----------------------------- MODULE Pagination -----------------------------
(***************************************************************************)
(* packages/pagination: a cursor that builds the URL of the page after its *)
(* own, and the two iterators that follow it, PageCursor.All and           *)
(* PageCursorAutoPager.  Two dialects share the type.  Page-token lists    *)
(* answer with next_page; ID-cursor lists (files) answer with first_id,    *)
(* last_id and has_more, and can be walked backwards with before_id.       *)
(*                                                                         *)
(* The items are 1..N in list order; 0 stands for an empty string and for  *)
(* an absent query parameter.  While the walk goes on other clients insert *)
(* and delete items, and any fetch may fail.  One walk stands for either   *)
(* iterator: an item is yielded by All, or becomes Current of AutoPager;   *)
(* the caller asks for another by returning true from yield, or by calling *)
(* Next.                                                                   *)
(***************************************************************************)
EXTENDS Naturals, FiniteSets

CONSTANTS
    N,         \* the largest item
    PageSize,  \* the deployment's page limit
    Churn      \* bound: insertions and deletions one walk may meet

ASSUME PaginationAssumption ==
    /\ N \in Nat
    /\ PageSize \in Nat \ {0}
    /\ Churn \in Nat

VARIABLES
    dialect,    \* "token" or "id"
    present,    \* the items the deployment holds
    churn,      \* insertions and deletions left
    initial,    \* the query of the first page
    query,      \* PageCursor.requestURL of the page in hand
    page,       \* the rest of the PageCursor in hand
    rest,       \* the items of that page from the walker's offset on
    pc,         \* "walking", "caller" (its loop body runs) or "abandoned"
    done,       \* has the iterator ended?
    err,        \* with an error?
    delivered,  \* the items delivered so far
    steadfast   \* the items present ever since the first page was asked for

vars == <<dialect, present, churn, initial, query, page, rest, pc,
          done, err, delivered, steadfast>>
listVars == <<dialect, present, churn, initial, steadfast>>

Items   == 1..N
Anchors == 0..N
Query   == [page : Anchors, before : Anchors, after : Anchors]
Page    == [data : SUBSET Items, hasMore : {"absent", "true", "false"},
            first : Anchors, last : Anchors, next : Anchors]

TypeOK ==
    /\ dialect \in {"token", "id"}
    /\ present \subseteq Items
    /\ churn \in 0..Churn
    /\ initial \in Query
    /\ query \in Query
    /\ page \in Page
    /\ rest \subseteq page.data
    /\ pc \in {"walking", "caller", "abandoned"}
    /\ done \in BOOLEAN
    /\ err \in BOOLEAN
    /\ delivered \subseteq Items
    /\ steadfast \subseteq present

-----------------------------------------------------------------------------
(* The deployment, external: what src/ and its tests expect of a list.      *)

\* The items a query ranges over.
InRange(q) ==
    { i \in Items : /\ i > q.page
                    /\ i > q.after
                    /\ q.before = 0 \/ i < q.before }

First(S) == IF S = {} THEN 0 ELSE CHOOSE i \in S : \A j \in S : i <= j
Last(S)  == IF S = {} THEN 0 ELSE CHOOSE i \in S : \A j \in S : i >= j

PageOf(data, hasMore, next, anchored) ==
    [data |-> data, hasMore |-> hasMore, next |-> next,
     first |-> IF anchored THEN First(data) ELSE 0,
     last  |-> IF anchored THEN Last(data) ELSE 0]

\* A page-token list is read window by window, and the token is where the next
\* window begins.  A window may hold nothing; the last page says so with
\* has_more, or by having no token.  A page that has a token, or is the last one
\* by its has_more, may carry the ID anchors too.
TokenPage(q, data, hasMore, next, anchored) ==
    LET asked == present \cap InRange(q)
        more  == asked \ data
    IN
      /\ data \subseteq asked
      /\ \A i \in data, j \in more : i < j
      /\ next # 0 => /\ next > q.page
                     /\ \A i \in data : i <= next
                     /\ \A i \in more : i > next
      /\ more # {} => next # 0 /\ hasMore # "false"
      /\ hasMore = "true" => more # {}
      /\ anchored => next # 0 \/ hasMore = "false"

\* An ID-cursor list answers with the items next to the anchor, in list order,
\* and says whether there are more on that side.
IdPage(q, data, hasMore, next, anchored) ==
    LET asked == present \cap InRange(q)
        more  == asked \ data
    IN
      /\ data \subseteq asked
      /\ data = {} => asked = {}
      /\ \A i \in data, j \in more : IF q.before # 0 THEN j < i ELSE i < j
      /\ hasMore = (IF more = {} THEN "false" ELSE "true")
      /\ next = 0
      /\ anchored

Answers(q) ==
    { PageOf(p[1], p[2], p[3], p[4]) :
        p \in { x \in { d \in SUBSET present : Cardinality(d) <= PageSize }
                        \X {"absent", "true", "false"} \X Anchors \X BOOLEAN :
                  IF dialect = "token" THEN TokenPage(q, x[1], x[2], x[3], x[4])
                                       ELSE IdPage(q, x[1], x[2], x[3], x[4]) } }

\* Another client creates or deletes an item.
Change ==
    /\ churn > 0
    /\ churn' = churn - 1
    /\ \E i \in Items :
         present' = IF i \in present THEN present \ {i} ELSE present \cup {i}
    /\ steadfast' = steadfast \cap present'
    /\ UNCHANGED <<dialect, initial, query, page, rest, pc, done, err,
                   delivered>>

-----------------------------------------------------------------------------
(* nextPageURL.                                                             *)

\* Mutants of Successor: the wrong end of the page is the anchor; the query does
\* not move.
SuccessorOfFirst(q, p) ==
    CASE p.next # 0                   -> [q EXCEPT !.page = p.next]
      [] p.next = 0 /\ q.before # 0   -> [q EXCEPT !.before = p.last]
      [] p.next = 0 /\ q.before = 0   -> [q EXCEPT !.after = p.first]

SuccessorIsSame(q, p) == q

\* Which parameter the next request changes, and to what: the token first, then
\* the anchor on the side the original request was walking.
Successor(q, p) ==
    CASE p.next # 0                   -> [q EXCEPT !.page = p.next]
      [] p.next = 0 /\ q.before # 0   -> [q EXCEPT !.before = p.first]
      [] p.next = 0 /\ q.before = 0   -> [q EXCEPT !.after = p.last]

\* Mutant of HasNextPage: an empty page is taken for the last.
HasNextPageUnlessEmpty(q, p) ==
    /\ p.data # {}
    /\ p.hasMore # "false"
    /\ p.next # 0 \/ (IF q.before # 0 THEN p.first ELSE p.last) # 0

\* An explicit has_more:false ends the walk whatever cursors came with it, and
\* so does a page with no cursor to send.
HasNextPage(q, p) ==
    /\ p.hasMore # "false"
    /\ p.next # 0 \/ (IF q.before # 0 THEN p.first ELSE p.last) # 0

-----------------------------------------------------------------------------
(* The caller has its first page (ListPage) and starts a walk over it.      *)

Queries ==
    { q \in Query :
        IF dialect = "token"
          THEN q.before = 0 /\ q.after = 0
          ELSE q.page = 0 /\ (q.before = 0 \/ q.after = 0) }

Init ==
    /\ dialect \in {"token", "id"}
    /\ present \in SUBSET Items
    /\ churn = Churn
    /\ initial \in Queries
    /\ query = initial
    /\ page \in Answers(initial)
    /\ rest = page.data
    /\ pc = "walking"
    /\ done = FALSE
    /\ err = FALSE
    /\ delivered = {}
    /\ steadfast = present

\* The next item of the page is yielded, or becomes Current.
Deliver ==
    /\ pc = "walking"
    /\ rest # {}
    /\ rest' = rest \ {First(rest)}
    /\ delivered' = delivered \cup {First(rest)}
    /\ pc' = "caller"
    /\ UNCHANGED <<listVars, query, page, done, err>>

\* The page is used up and there is no other.
Exhaust ==
    /\ pc = "walking"
    /\ rest = {}
    /\ ~HasNextPage(query, page)
    /\ pc' = "caller"
    /\ done' = TRUE
    /\ UNCHANGED <<listVars, query, page, rest, err, delivered>>

\* Mutant of FetchNextPage: the walker goes on over the page it has walked.
FetchNextPageKeepsData ==
    /\ pc = "walking"
    /\ rest = {}
    /\ HasNextPage(query, page)
    /\ query' = Successor(query, page)
    /\ page' \in Answers(query')
    /\ rest' = page.data
    /\ UNCHANGED <<listVars, pc, done, err, delivered>>

\* GetNextPage succeeds: the cursor moves to its successor.
FetchNextPage ==
    /\ pc = "walking"
    /\ rest = {}
    /\ HasNextPage(query, page)
    /\ query' = Successor(query, page)
    /\ page' \in Answers(query')
    /\ rest' = page'.data
    /\ UNCHANGED <<listVars, pc, done, err, delivered>>

\* Mutant of FetchFails: the error is swallowed.
FetchFailsSilently ==
    /\ pc = "walking"
    /\ rest = {}
    /\ HasNextPage(query, page)
    /\ pc' = "caller"
    /\ done' = TRUE
    /\ UNCHANGED <<listVars, query, page, rest, err, delivered>>

\* GetNextPage fails: All yields the error, AutoPager keeps it for Err.
FetchFails ==
    /\ pc = "walking"
    /\ rest = {}
    /\ HasNextPage(query, page)
    /\ pc' = "caller"
    /\ done' = TRUE
    /\ err' = TRUE
    /\ UNCHANGED <<listVars, query, page, rest, delivered>>

\* Mutant of Continue: Next does not look at done and err.
ContinueAnyway ==
    /\ pc = "caller"
    /\ pc' = "walking"
    /\ UNCHANGED <<listVars, query, page, rest, done, err, delivered>>

\* The loop asks for the next item.  AutoPager.Next may be called again after it
\* returned false: it looks at done and err before anything else.
Continue ==
    /\ pc = "caller"
    /\ ~done
    /\ pc' = "walking"
    /\ UNCHANGED <<listVars, query, page, rest, done, err, delivered>>

\* The loop body breaks.
Abandon ==
    /\ pc = "caller"
    /\ ~done
    /\ pc' = "abandoned"
    /\ UNCHANGED <<listVars, query, page, rest, done, err, delivered>>

Walk == Deliver \/ Exhaust \/ FetchNextPage \/ FetchFails \/ Continue

Next == Walk \/ Abandon \/ Change

Spec == Init /\ [][Next]_vars

\* Fetches return, and so does the caller's loop body.
FairSpec == Spec /\ WF_vars(Walk)

-----------------------------------------------------------------------------

\* No item is delivered twice, in either direction and whatever is inserted or
\* deleted meanwhile: no page brings an item the caller has had.  This is the
\* hazard nextPageURL names, a walk that would "reverse direction mid-iteration
\* and re-read pages it had already seen".
NoItemTwice == rest \cap delivered = {}

\* A walk that ends without an error has delivered every item that was in the
\* requested range all along, so a failure part way through "cannot be mistaken
\* for the end of the data" (All) and no page is skipped between two fetches.
CleanEndIsComplete ==
    done /\ ~err => steadfast \cap InRange(initial) \subseteq delivered

\* A loop that keeps asking comes to the end of the list.
WalkEnds == <>(done \/ pc = "abandoned")

WalkOf == INSTANCE PageWalk WITH
    range  <- InRange(initial),
    status <- CASE done /\ err       -> "failed"
                [] done /\ ~err      -> "complete"
                [] pc = "abandoned"  -> "abandoned"
                [] OTHER             -> "walking"

\* Both iterators implement the abstract walk.
ImplementsPageWalk == WalkOf!Spec
=============================================================================
