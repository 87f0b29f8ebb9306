------------------------------- MODULE Keyset -------------------------------
(***************************************************************************)
(* Keyset pagination, as the filter-only search and the listing of         *)
(* embedding failures do it: the rows past the cursor in key order, at     *)
(* most n of them.  Keys are unique and ordered, so a page is a set.       *)
(***************************************************************************)
EXTENDS Naturals, FiniteSets

\* The most a search or a listing of failures returns (1000).
CONSTANT PageSize

ASSUME PageAssumption == PageSize \in Nat \ {0}

(* Keys are 1, 2, ...; a traversal that has no cursor yet is at 0.         *)
Start == 0

(* order by id limit n: the rows with fewer than n before them.            *)
Page(rows, after, n) ==
    {k \in rows : after < k /\ Cardinality({j \in rows : after < j /\ j < k}) < n}

(* page.at(-1), or the cursor as it was. *)
EndOf(page, after) ==
    IF page = {} THEN after ELSE CHOOSE k \in page : \A j \in page : j <= k
=============================================================================
