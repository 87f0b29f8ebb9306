----------------------------- MODULE TreeViews ------------------------------
(***************************************************************************)
(* The read side of the tree: treeView and listTree expand every matching  *)
(* record to its prefixes and count by prefix, countTree counts up to one  *)
(* past its limit.  Each is compared with what its result promises.        *)
(***************************************************************************)
EXTENDS Naturals, Sequences, FiniteSets, SequencesExt

CONSTANTS
    Id, Label,
    Depth,          \* bound: paths have at most this many labels
    MaxLimit,       \* bound: limits are at most this
    Nowhere, Unlimited

ASSUME TreeAssumptions ==
    /\ IsFiniteSet(Id) /\ Depth \in Nat /\ MaxLimit \in Nat
    /\ Nowhere \notin SeqOf(Label, Depth)
    /\ Unlimited \notin Nat

Tree == SeqOf(Label, Depth)

VARIABLES
    tree,       \* tree[i]: where record i is, or Absent
    asked,      \* what was asked last
    rows,       \* the nodes and counts of a view or a listing
    told        \* count and capped of countTree

treeVars == <<tree, asked, rows, told>>

Node == [tree : Tree, count : 1 .. Cardinality(Id)]

(* matched stands for an lquery by the paths it matches.                   *)
Request ==
    [kind : {"none"}]
    \cup [kind : {"view"}, base : Tree, levels : 0 .. Depth \cup {Unlimited}]
    \cup [kind : {"list"}, matched : SUBSET Tree]
    \cup [kind : {"count"}, base : Tree, limit : 1 .. MaxLimit \cup {Unlimited}]

TreeTypeOK ==
    /\ tree \in [Id -> Tree \cup {Nowhere}]
    /\ asked \in Request /\ rows \subseteq Node
    /\ told \in [count : 0 .. Cardinality(Id), capped : BOOLEAN]

Nothing == [count |-> 0, capped |-> FALSE]

TreeInit ==
    /\ tree \in [Id -> Tree \cup {Nowhere}]
    /\ asked = [kind |-> "none"] /\ rows = {} /\ told = Nothing

-----------------------------------------------------------------------------
Under(base) == {i \in Id : tree[i] # Nowhere /\ IsPrefix(base, tree[i])}

(* subltree(tree, 0, n) of a record i *)
Prefix(p) == SubSeq(tree[p[1]], 1, p[2])

(* count(id), group by 1 *)
Grouped(above, t) == Cardinality({p \in above : Prefix(p) = t})

(* cross join lateral generate_series(first, last): the nodes from depth   *)
(* first to last[i] above each record i of last's domain, and how many     *)
(* records they stand above.                                               *)
Expand(first, last) ==
    LET above == {p \in (DOMAIN last) \X (first .. Depth) : p[2] <= last[p[1]]} IN
    {[tree |-> t, count |-> Grouped(above, t)] : t \in {Prefix(p) : p \in above}}

LevelsFromRoot(base, levels, i) ==
    IF levels = Unlimited \/ Len(tree[i]) < levels THEN Len(tree[i]) ELSE levels

(* least(nlevel(tree), nlevel(base) + levels) *)
Deepest(base, levels, i) ==
    IF levels = Unlimited \/ Len(tree[i]) < Len(base) + levels
    THEN Len(tree[i]) ELSE Len(base) + levels

TreeView(base, levels) ==
    /\ asked' = [kind |-> "view", base |-> base, levels |-> levels]
    /\ rows' = Expand(Len(base), [i \in Under(base) |-> Deepest(base, levels, i)])
    /\ told' = Nothing /\ UNCHANGED tree

FirstWithRoot == 0

(* The root is not listed. *)
First == 1

ListTree(matched) ==
    /\ asked' = [kind |-> "list", matched |-> matched]
    /\ LET listed == {i \in Id : tree[i] # Nowhere /\ tree[i] \in matched} IN
       rows' = Expand(First, [i \in listed |-> Len(tree[i])])
    /\ told' = Nothing /\ UNCHANGED tree

(* One past the limit, so that an exact count is told from a capped one.   *)
Scanned(limit) == limit + 1

CountTree(base, limit) ==
    /\ asked' = [kind |-> "count", base |-> base, limit |-> limit]
    /\ LET n == Cardinality(Under(base))
           raw == IF limit # Unlimited /\ Scanned(limit) < n THEN Scanned(limit) ELSE n
           capped == limit # Unlimited /\ raw > limit IN
       told' = [count |-> IF capped THEN limit ELSE raw, capped |-> capped]
    /\ rows' = {} /\ UNCHANGED tree

TreeNext ==
    /\ asked.kind = "none"
    /\ \/ \E base \in Tree, levels \in 0 .. Depth \cup {Unlimited} : TreeView(base, levels)
       \/ \E matched \in SUBSET Tree : ListTree(matched)
       \/ \E base \in Tree, limit \in 1 .. MaxLimit \cup {Unlimited} : CountTree(base, limit)

TreeSpec == TreeInit /\ [][TreeNext]_treeVars

-----------------------------------------------------------------------------
At(t) == {i \in Id : tree[i] = t}

CountAt(t) ==
    IF \E r \in rows : r.tree = t THEN (CHOOSE r \in rows : r.tree = t).count ELSE 0

Children(t) == {r.tree : r \in {r \in rows : Len(r.tree) = Len(t) + 1 /\ IsPrefix(t, r.tree)}}

\* The counts of the nodes, side by side.
SumOver(nodes) == Cardinality(UNION {{t} \X (1 .. CountAt(t)) : t \in nodes})

(* treeView shows exactly the occupied nodes at and below its base, down   *)
(* to the level asked for, and each with the size of its whole subtree,    *)
(* also where the view is cut off below.  countTree says the same: "True   *)
(* when a limit was hit, so count is a lower bound, not exact"             *)
(* (tree.ts:32), so a count that says nothing of a cap is the exact one,   *)
(* also when it equals the limit.                                          *)
CountsAreSubtreeSizes ==
    /\ asked.kind = "view" =>
          rows = {[tree |-> t, count |-> Cardinality(Under(t))] :
                     t \in {t \in Tree : /\ IsPrefix(asked.base, t) /\ Under(t) # {}
                                         /\ \/ asked.levels = Unlimited
                                            \/ Len(t) <= Len(asked.base) + asked.levels}}
    /\ asked.kind = "count" =>
          IF told.capped THEN told.count < Cardinality(Under(asked.base))
                         ELSE told.count = Cardinality(Under(asked.base))

(* A listing adds up: a node counts the matching records at it and those   *)
(* of the nodes right below it, and every node on the way to a matching    *)
(* record is listed once, the root never.                                  *)
ListingAddsUp ==
    asked.kind = "list" =>
        /\ \A r \in rows : r.tree # <<>>
              /\ r.count = SumOver(Children(r.tree))
                         + (IF r.tree \in asked.matched THEN Cardinality(At(r.tree)) ELSE 0)
        /\ \A r, s \in rows : r.tree = s.tree => r = s
        /\ \A i \in Id : tree[i] \in asked.matched \ {<<>>} =>
              \A n \in 1 .. Len(tree[i]) : CountAt(SubSeq(tree[i], 1, n)) > 0

(* Every number the tree shows is the number of records it stands for.     *)
TreeCountsAddUp == CountsAreSubtreeSizes /\ ListingAddsUp
=============================================================================
