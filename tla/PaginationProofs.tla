-------------------------- MODULE PaginationProofs --------------------------
(***************************************************************************)
(* Theorems about Pagination, for lists and pages of every size and with   *)
(* any number of insertions and deletions.  IInv splits the requested      *)
(* range into what lies behind the page in hand, the page itself, and what *)
(* the cursor it gives will ask for.                                       *)
(***************************************************************************)
EXTENDS Pagination, WellFoundedInduction, TLAPS

\* A query has the shape of its dialect.
Shaped(q) ==
    IF dialect = "token" THEN q.before = 0 /\ q.after = 0
                         ELSE q.page = 0 /\ (q.before = 0 \/ q.after = 0)

\* Page p of query q, as it concerns the items of S: the cursor goes on within the
\* range, past the page, and misses none of them; without one, none are left.
GoesOn(q, p, S) ==
    IF HasNextPage(q, p)
      THEN LET t == Successor(q, p) IN
             /\ t \in Query /\ Shaped(t)
             /\ InRange(t) \subseteq InRange(q) \ p.data
             /\ S \cap InRange(q) \subseteq p.data \cup InRange(t)
      ELSE S \cap InRange(q) \subseteq p.data

\* The page in hand is of the query in hand, which has not left the range.
PageInv ==
    /\ Shaped(query)
    /\ InRange(query) \subseteq InRange(initial)
    /\ page.data \subseteq InRange(query)
    /\ GoesOn(query, page, steadfast)

\* What was delivered is of earlier pages, or of this one and not among its rest;
\* of the earlier ones, nothing that stayed is missing.
DeliveredInv ==
    /\ delivered \cap InRange(query) = page.data \ rest
    /\ delivered \subseteq InRange(initial)
    /\ steadfast \cap (InRange(initial) \ InRange(query)) \subseteq delivered

\* An iterator that has ended is in its caller's hands, and what was a failure is
\* an end.
EndInv ==
    /\ done => pc = "caller"
    /\ err => done
    /\ done /\ ~err => rest = {} /\ ~HasNextPage(query, page)

IInv == TypeOK /\ PageInv /\ DeliveredInv /\ EndInv

-----------------------------------------------------------------------------
(* The ends of a page.                                                      *)

LEMMA LeastOfNaturals ==
  ASSUME NEW S \in SUBSET Nat, S # {}
  PROVE  \E i \in S : \A j \in S : i <= j
  <1>1. PICK i \in S : \A j \in S : <<j, i>> \notin OpToRel(<, Nat)
    BY WFMin, NatLessThanWellFounded, Zenon
  <1>2. \A j \in S : ~(j < i)
    BY <1>1, Zenon DEF OpToRel
  <1>3. \A j \in S : i <= j
    BY <1>2
  <1>4. QED
    BY <1>3

LEMMA FirstIsLeast ==
  ASSUME NEW S \in SUBSET Items, S # {}
  PROVE  First(S) \in S /\ \A j \in S : First(S) <= j
  <1>1. \E i \in S : \A j \in S : i <= j
    BY LeastOfNaturals, PaginationAssumption DEF Items
  <1>2. QED
    BY <1>1, Zenon DEF First

LEMMA LastIsGreatest ==
  ASSUME NEW S \in SUBSET Items, S # {}
  PROVE  Last(S) \in S /\ \A j \in S : Last(S) >= j
  <1> DEFINE T == { N - i : i \in S }
  <1>1. T \in SUBSET Nat /\ T # {}
    <2>1. \A i \in S : N - i \in Nat
      BY PaginationAssumption DEF Items
    <2>2. QED
      BY <2>1
  <1>2. PICK k \in T : \A j \in T : k <= j
    BY <1>1, LeastOfNaturals
  <1>3. PICK i \in S : k = N - i
    OBVIOUS
  <1>4. \A j \in S : i >= j
    BY <1>2, <1>3, PaginationAssumption DEF Items
  <1>5. QED
    BY <1>4, Zenon DEF Last

\* 0 stands for no anchor: an empty page has none.
LEMMA EndsAreAnchors ==
  ASSUME NEW S \in SUBSET Items
  PROVE  /\ First(S) \in Anchors /\ (First(S) # 0 <=> S # {})
         /\ Last(S) \in Anchors /\ (Last(S) # 0 <=> S # {})
  <1>1. CASE S = {}
    BY <1>1, PaginationAssumption DEF First, Last, Anchors
  <1>2. CASE S # {}
    <2>1. First(S) \in Items /\ Last(S) \in Items
      BY <1>2, FirstIsLeast, LastIsGreatest
    <2>2. \A i \in Items : i \in Anchors /\ i # 0
      BY PaginationAssumption DEF Items, Anchors
    <2>3. QED
      BY <1>2, <2>1, <2>2
  <1>3. QED
    BY <1>1, <1>2

-----------------------------------------------------------------------------
(* What an answer promises.                                                 *)

LEMMA AnswerParts ==
  ASSUME NEW q, NEW p \in Answers(q)
  PROVE  \E hasMore \in {"absent", "true", "false"}, next \in Anchors, anchored \in BOOLEAN,
            data \in SUBSET present :
           /\ p = PageOf(data, hasMore, next, anchored)
           /\ IF dialect = "token" THEN TokenPage(q, data, hasMore, next, anchored)
                                   ELSE IdPage(q, data, hasMore, next, anchored)
  BY DEF Answers

LEMMA AnswerGoesOn ==
  ASSUME TypeOK, NEW q \in Query, Shaped(q), NEW p \in Answers(q)
  PROVE  p \in Page /\ p.data \subseteq InRange(q) /\ GoesOn(q, p, present)
  <1> USE PaginationAssumption DEF Items, Anchors, Query
  <1>1. PICK hasMore \in {"absent", "true", "false"}, next \in Anchors, anchored \in BOOLEAN,
             data \in SUBSET present :
           /\ p = PageOf(data, hasMore, next, anchored)
           /\ IF dialect = "token" THEN TokenPage(q, data, hasMore, next, anchored)
                                   ELSE IdPage(q, data, hasMore, next, anchored)
    BY AnswerParts
  <1>2. data \subseteq Items
    BY DEF TypeOK
  <1>3. /\ p.data = data /\ p.hasMore = hasMore /\ p.next = next
        /\ p.first = IF anchored THEN First(data) ELSE 0
        /\ p.last = IF anchored THEN Last(data) ELSE 0
    BY <1>1 DEF PageOf
  <1>4. First(data) \in Anchors /\ (First(data) # 0 <=> data # {})
          /\ Last(data) \in Anchors /\ (Last(data) # 0 <=> data # {})
    BY <1>2, EndsAreAnchors
  <1>5. p \in Page
    BY <1>1, <1>2, <1>4 DEF PageOf, Page
  <1>6. CASE dialect = "token"
    <2>1. TokenPage(q, data, hasMore, next, anchored)
      BY <1>1, <1>6
    <2>2. data \subseteq InRange(q)
      BY <2>1 DEF TokenPage
    <2>3. CASE HasNextPage(q, p)
      <3>1. next # 0 /\ Successor(q, p) = [q EXCEPT !.page = next]
        BY <1>3, <1>6, <2>1, <2>3 DEF HasNextPage, Successor, TokenPage, Shaped
      <3>2. [q EXCEPT !.page = next] \in Query /\ Shaped([q EXCEPT !.page = next])
        BY <1>6 DEF Shaped
      <3>3. InRange([q EXCEPT !.page = next]) = { i \in Items : i > next }
        BY <1>6 DEF Shaped, InRange
      <3>4. InRange(q) = { i \in Items : i > q.page }
        BY <1>6 DEF Shaped, InRange
      <3>5. { i \in Items : i > next } \subseteq InRange(q) \ data
        BY <1>2, <2>1, <3>1, <3>4 DEF TokenPage
      <3>6. present \cap InRange(q) \subseteq data \cup { i \in Items : i > next }
        BY <2>1, <3>1, <3>4 DEF TokenPage
      <3>7. QED
        BY <1>3, <1>5, <2>2, <2>3, <3>1, <3>2, <3>3, <3>5, <3>6 DEF GoesOn
    <2>4. CASE ~HasNextPage(q, p)
      <3>1. present \cap InRange(q) \subseteq data
        BY <1>3, <2>1, <2>4 DEF HasNextPage, TokenPage
      <3>2. QED
        BY <1>3, <1>5, <2>2, <2>4, <3>1 DEF GoesOn
    <2>5. QED
      BY <2>3, <2>4
  <1>7. CASE dialect # "token"
    <2>1. IdPage(q, data, hasMore, next, anchored)
      BY <1>1, <1>7
    <2>2. data \subseteq InRange(q) /\ next = 0 /\ anchored
      BY <2>1 DEF IdPage
    <2>3. q.page = 0 /\ (q.before = 0 \/ q.after = 0)
      BY <1>7 DEF Shaped
    <2>4. CASE ~HasNextPage(q, p)
      <3>1. present \cap InRange(q) \subseteq data
        BY <1>3, <1>4, <2>1, <2>2, <2>4 DEF HasNextPage, IdPage
      <3>2. QED
        BY <1>3, <1>5, <2>2, <2>4, <3>1 DEF GoesOn
    <2>5. CASE HasNextPage(q, p) /\ q.before # 0
      <3> DEFINE f == First(data)
                 t == [q EXCEPT !.before = f]
      <3>1. Successor(q, p) = t /\ data # {}
        BY <1>3, <1>4, <2>2, <2>5 DEF HasNextPage, Successor
      <3>2. f \in data /\ \A j \in data : f <= j
        BY <1>2, <3>1, FirstIsLeast
      <3>3. t \in Query /\ Shaped(t)
        BY <1>4, <1>7, <2>3, <2>5 DEF Shaped
      <3>4. InRange(q) = { i \in Items : i < q.before }
        BY <2>3, <2>5 DEF InRange
      <3>5. InRange(t) = { i \in Items : i < f }
        BY <1>2, <2>3, <2>5, <3>2 DEF InRange
      <3>6. { i \in Items : i < f } \subseteq InRange(q) \ data
        <4> HIDE DEF f
        <4>1. f \in Items /\ f < q.before /\ q.before \in Nat
          <5>1. q.before \in Anchors
            OBVIOUS
          <5>2. f \in InRange(q)
            BY <2>2, <3>2
          <5>3. QED
            BY <3>4, <5>1, <5>2
        <4>2. ASSUME NEW i \in Items, i < f PROVE i < q.before /\ i \notin data
          BY <1>2, <3>2, <4>1, <4>2
        <4>3. QED
          BY <3>4, <4>2
      <3>7. present \cap InRange(q) \subseteq data \cup { i \in Items : i < f }
        BY <2>1, <2>5, <3>2, <3>4 DEF IdPage
      <3>8. QED
        BY <1>3, <1>5, <2>2, <2>5, <3>1, <3>3, <3>5, <3>6, <3>7 DEF GoesOn
    <2>6. CASE HasNextPage(q, p) /\ q.before = 0
      <3> DEFINE l == Last(data)
                 t == [q EXCEPT !.after = l]
      <3>1. Successor(q, p) = t /\ data # {}
        BY <1>3, <1>4, <2>2, <2>6 DEF HasNextPage, Successor
      <3>2. l \in data /\ \A j \in data : l >= j
        BY <1>2, <3>1, LastIsGreatest
      <3>3. t \in Query /\ Shaped(t)
        BY <1>4, <1>7, <2>3, <2>6 DEF Shaped
      <3>4. InRange(q) = { i \in Items : i > q.after }
        BY <2>3, <2>6 DEF InRange
      <3>5. InRange(t) = { i \in Items : i > l }
        BY <1>2, <2>3, <2>6, <3>2 DEF InRange
      <3>6. { i \in Items : i > l } \subseteq InRange(q) \ data
        <4> HIDE DEF l
        <4>1. l \in Items /\ l > q.after /\ q.after \in Nat
          <5>1. q.after \in Anchors
            OBVIOUS
          <5>2. l \in InRange(q)
            BY <2>2, <3>2
          <5>3. QED
            BY <3>4, <5>1, <5>2
        <4>2. ASSUME NEW i \in Items, i > l PROVE i > q.after /\ i \notin data
          BY <1>2, <3>2, <4>1, <4>2
        <4>3. QED
          BY <3>4, <4>2
      <3>7. present \cap InRange(q) \subseteq data \cup { i \in Items : i > l }
        BY <2>1, <2>6, <3>2, <3>4 DEF IdPage
      <3>8. QED
        BY <1>3, <1>5, <2>2, <2>6, <3>1, <3>3, <3>5, <3>6, <3>7 DEF GoesOn
    <2>7. QED
      BY <2>4, <2>5, <2>6
  <1>8. QED
    BY <1>6, <1>7

LEMMA GoesOnForFewer ==
  ASSUME NEW q, NEW p, NEW S, NEW T \in SUBSET S, GoesOn(q, p, S)
  PROVE  GoesOn(q, p, T)
  BY DEF GoesOn

-----------------------------------------------------------------------------
(* Each step keeps the invariant.                                           *)

LEMMA InitIInv == Init => IInv
  <1> SUFFICES ASSUME Init PROVE IInv
    OBVIOUS
  <1> USE DEF Init
  <1>1. initial \in Query /\ Shaped(initial)
    BY DEF Queries, Shaped
  <1>2. page \in Page
    <2>1. PICK hasMore \in {"absent", "true", "false"}, next \in Anchors, anchored \in BOOLEAN,
               data \in SUBSET present : page = PageOf(data, hasMore, next, anchored)
      BY AnswerParts
    <2>2. data \subseteq Items
      BY <2>1
    <2>3. First(data) \in Anchors /\ Last(data) \in Anchors /\ 0 \in Anchors
      BY <2>2, EndsAreAnchors, PaginationAssumption DEF Anchors
    <2>4. QED
      BY <2>1, <2>2, <2>3 DEF PageOf, Page
  <1>3. TypeOK
    <2>1. churn \in 0..Churn
      BY PaginationAssumption
    <2>2. QED
      BY <1>1, <1>2, <2>1 DEF TypeOK
  <1>4. page.data \subseteq InRange(initial) /\ GoesOn(initial, page, present)
    BY <1>1, <1>3, AnswerGoesOn
  <1>5. PageInv
    BY <1>1, <1>4 DEF PageInv
  <1>6. DeliveredInv /\ EndInv
    BY DEF DeliveredInv, EndInv
  <1>7. QED
    BY <1>3, <1>5, <1>6 DEF IInv

LEMMA DeliverKeepsIInv ==
  ASSUME IInv, Deliver
  PROVE  IInv'
  <1> USE DEF IInv, Deliver, listVars
  <1>1. First(rest) \in rest /\ rest \subseteq page.data /\ page.data \subseteq Items
    <2>1. rest \subseteq page.data /\ page.data \subseteq Items
      BY DEF TypeOK, Page
    <2>2. QED
      BY <2>1, FirstIsLeast
  <1>2. TypeOK'
    BY <1>1 DEF TypeOK
  <1>3. PageInv'
    BY DEF PageInv, GoesOn, Shaped
  <1>4. DeliveredInv'
    BY <1>1 DEF DeliveredInv, PageInv
  <1>5. EndInv'
    BY DEF EndInv
  <1>6. QED
    BY <1>2, <1>3, <1>4, <1>5

\* The cursor moves on within the range, past a page that has been walked.
LEMMA FetchNextPageKeepsIInv ==
  ASSUME IInv, FetchNextPage
  PROVE  IInv'
  <1> USE DEF IInv, FetchNextPage, listVars
  <1>1. /\ query' \in Query /\ Shaped(query')
        /\ InRange(query') \subseteq InRange(query) \ page.data
        /\ steadfast \cap InRange(query) \subseteq page.data \cup InRange(query')
    BY DEF PageInv, GoesOn
  <1>2. page' \in Page /\ page'.data \subseteq InRange(query') /\ GoesOn(query', page', present)
    BY <1>1, AnswerGoesOn
  <1>3. GoesOn(query', page', steadfast)
    BY <1>2, GoesOnForFewer DEF TypeOK
  <1>4. TypeOK'
    BY <1>1, <1>2 DEF TypeOK
  <1>5. PageInv'
    BY <1>1, <1>2, <1>3 DEF PageInv, GoesOn, Shaped
  <1>6. delivered \cap InRange(query) = page.data
    BY DEF DeliveredInv, TypeOK
  <1>7. DeliveredInv'
    BY <1>1, <1>2, <1>6 DEF DeliveredInv, PageInv
  <1>8. EndInv'
    BY DEF EndInv
  <1>9. QED
    BY <1>4, <1>5, <1>7, <1>8

\* What comes is not steadfast, and what goes is not missed.
LEMMA ChangeKeepsIInv ==
  ASSUME IInv, Change
  PROVE  IInv'
  <1> USE DEF IInv, Change
  <1>1. churn' \in 0..Churn /\ present' \subseteq Items
    BY PaginationAssumption DEF TypeOK
  <1>2. steadfast' \subseteq steadfast /\ steadfast' \subseteq present'
    OBVIOUS
  <1>3. TypeOK'
    BY <1>1, <1>2 DEF TypeOK
  <1>4. GoesOn(query, page, steadfast')
    BY <1>2, GoesOnForFewer DEF PageInv
  <1>5. PageInv'
    BY <1>4 DEF PageInv, GoesOn, Shaped
  <1>6. DeliveredInv' /\ EndInv'
    BY <1>2 DEF DeliveredInv, EndInv
  <1>7. QED
    BY <1>3, <1>5, <1>6

\* The walk ends, or its caller thinks.
LEMMA RestKeepsIInv ==
  ASSUME IInv, Exhaust \/ FetchFails \/ Continue \/ Abandon \/ UNCHANGED vars
  PROVE  IInv'
  <1> USE DEF IInv, Exhaust, FetchFails, Continue, Abandon, vars, listVars
  <1>1. TypeOK'
    BY DEF TypeOK
  <1>2. PageInv'
    BY DEF PageInv, GoesOn, Shaped
  <1>3. DeliveredInv' /\ EndInv'
    BY DEF DeliveredInv, EndInv
  <1>4. QED
    BY <1>1, <1>2, <1>3

LEMMA NextIInv == IInv /\ [Next]_vars => IInv'
  BY DeliverKeepsIInv, FetchNextPageKeepsIInv, ChangeKeepsIInv, RestKeepsIInv DEF Next, Walk

\* The inductive invariant holds in every reachable state.
THEOREM Invariance == Spec => []IInv
  BY InitIInv, NextIInv, PTL DEF Spec

-----------------------------------------------------------------------------
(* What follows for a walk.                                                 *)

\* Every variable keeps its type: no query mixes the dialects' parameters up.
THEOREM TypeCorrect == Spec => []TypeOK
  BY Invariance, PTL DEF IInv

\* No page brings an item the caller has had, in either dialect and direction,
\* whatever is inserted or deleted meanwhile.
THEOREM NoneComesTwice == Spec => []NoItemTwice
  <1>1. IInv => NoItemTwice
    BY DEF IInv, TypeOK, PageInv, DeliveredInv, NoItemTwice
  <1>2. QED
    BY <1>1, Invariance, PTL

\* A walk that ends without an error has delivered all that was there all along.
THEOREM CleanEndsAreComplete == Spec => []CleanEndIsComplete
  <1>1. IInv => CleanEndIsComplete
    BY DEF IInv, TypeOK, PageInv, GoesOn, DeliveredInv, EndInv, CleanEndIsComplete
  <1>2. QED
    BY <1>1, Invariance, PTL

LEMMA InitRefines == Init => WalkOf!Init
  BY DEF Init, WalkOf!Init, InRange, Items

LEMMA NextRefines == IInv /\ [Next]_vars => [WalkOf!Next]_(WalkOf!vars)
  <1> SUFFICES ASSUME IInv, [Next]_vars
               PROVE  WalkOf!Next \/ UNCHANGED WalkOf!vars
    OBVIOUS
  <1> USE DEF IInv, EndInv, listVars
  <1>1. CASE Deliver
    <2>1. First(rest) \in rest
      BY <1>1, FirstIsLeast DEF Deliver, TypeOK, Page
    <2>2. First(rest) \in InRange(initial) \ delivered /\ First(rest) \in 1..N
      BY <2>1 DEF TypeOK, Page, Items, PageInv, DeliveredInv
    <2>3. WalkOf!Deliver(First(rest))
      BY <1>1, <2>2 DEF Deliver, WalkOf!Deliver, InRange
    <2>4. QED
      BY <2>2, <2>3 DEF WalkOf!Next
  <1>2. CASE Exhaust
    <2>1. steadfast \cap InRange(initial) \subseteq delivered
      BY <1>2 DEF Exhaust, TypeOK, PageInv, GoesOn, DeliveredInv
    <2>2. WalkOf!Complete
      BY <1>2, <2>1 DEF Exhaust, WalkOf!Complete, InRange
    <2>3. QED
      BY <2>2 DEF WalkOf!Next
  <1>3. CASE FetchFails
    <2>1. WalkOf!Stop("failed")
      BY <1>3 DEF FetchFails, WalkOf!Stop, InRange
    <2>2. QED
      BY <2>1 DEF WalkOf!Next
  <1>4. CASE Abandon
    <2>1. WalkOf!Stop("abandoned")
      BY <1>4 DEF Abandon, WalkOf!Stop, InRange
    <2>2. QED
      BY <2>1 DEF WalkOf!Next
  <1>5. CASE Change
    <2>1. present' \in SUBSET (1..N)
      BY <1>5 DEF Change, TypeOK, Items
    <2>2. WalkOf!Change
      BY <1>5, <2>1 DEF Change, WalkOf!Change, InRange
    <2>3. QED
      BY <2>2 DEF WalkOf!Next
  <1>6. CASE FetchNextPage \/ Continue \/ UNCHANGED vars
    BY <1>6 DEF FetchNextPage, Continue, vars, WalkOf!vars, InRange
  <1>7. QED
    BY <1>1, <1>2, <1>3, <1>4, <1>5, <1>6 DEF Next, Walk

\* Pages and cursors in either dialect, failures and a changing list: the walk is
\* the one PageWalk promises.
THEOREM RefinesPageWalk == Spec => ImplementsPageWalk
  BY Invariance, InitRefines, NextRefines, PTL DEF Spec, ImplementsPageWalk, WalkOf!Spec
=============================================================================
