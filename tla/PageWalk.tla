------------------------------ MODULE PageWalk ------------------------------
(***************************************************************************)
(* What walking a paginated list promises, with pages, cursors and         *)
(* requests hidden: items come one at a time and none comes twice, and a   *)
(* walk that ends without an error has delivered every item that was in    *)
(* the listed range from its beginning to its end.                         *)
(*                                                                         *)
(* Pagination implements this specification, with either of its walkers.   *)
(***************************************************************************)
EXTENDS Naturals

CONSTANT N   \* the items, in list order, are 1..N

VARIABLES
    present,     \* the items the deployment holds now
    range,       \* the items the caller's request ranges over
    steadfast,   \* the items present ever since the walk began
    delivered,   \* the items handed to the caller
    status       \* "walking", "complete", "failed" or "abandoned"

vars == <<present, range, steadfast, delivered, status>>

Init ==
    /\ present \in SUBSET (1..N)
    /\ range \in SUBSET (1..N)
    /\ steadfast = present
    /\ delivered = {}
    /\ status = "walking"

\* Other clients create and delete items meanwhile.
Change ==
    /\ present' \in SUBSET (1..N)
    /\ steadfast' = steadfast \cap present'
    /\ UNCHANGED <<range, delivered, status>>

Deliver(i) ==
    /\ status = "walking"
    /\ i \in range \ delivered
    /\ delivered' = delivered \cup {i}
    /\ UNCHANGED <<present, range, steadfast, status>>

Complete ==
    /\ status = "walking"
    /\ steadfast \cap range \subseteq delivered
    /\ status' = "complete"
    /\ UNCHANGED <<present, range, steadfast, delivered>>

\* A page could not be fetched, or the caller has seen enough.
Stop(how) ==
    /\ status = "walking"
    /\ status' = how
    /\ UNCHANGED <<present, range, steadfast, delivered>>

Next ==
    \/ Change
    \/ \E i \in 1..N : Deliver(i)
    \/ Complete
    \/ \E how \in {"failed", "abandoned"} : Stop(how)

Spec == Init /\ [][Next]_vars
=============================================================================
