------------------------------- MODULE Filters ------------------------------
(***************************************************************************)
(* The boolean filter of a search is judged twice: by the library before   *)
(* it goes to the database (search.ts), and by the schema's own routines   *)
(* (compile_filter, analyze_filter), which also serve callers of plain     *)
(* SQL.  The compiled predicate then decides record by record.             *)
(***************************************************************************)
EXTENDS Naturals

CONSTANTS
    Indexable,      \* leaves an index can drive: tree, lquery, meta, temporal...
    MaxDepth,       \* MAX_FILTER_DEPTH, 16
    MaxNodes,       \* MAX_FILTER_NODES, 100
    Height          \* bound: filters are at most this high

ASSUME FilterAssumptions ==
    /\ Indexable \cap {"regexp", "metaPredicate"} = {}
    /\ MaxDepth \in Nat /\ MaxNodes \in Nat /\ Height \in Nat \ {0}

(* and / or have two or more children: more behave as nested pairs do.     *)
Leaf == [op : {"leaf"}, of : Indexable \cup {"regexp", "metaPredicate"}]

Not(F) == [op : {"not"}, child : F]
Pair(F) == [op : {"and", "or"}, left : F, right : F]

(* The filters that are at most this high. *)
Filter[height \in Nat] ==
    IF height = 0 THEN {}
    ELSE Leaf \cup Not(Filter[height - 1]) \cup Pair(Filter[height - 1])

VARIABLES
    filter, ranked,     \* the request: its filter, has it a ranking arm?
    library,            \* search()'s verdict: "none", "accepted", "rejected"
    database            \* search_records's verdict

filterVars == <<filter, ranked, library, database>>

(* Negated once more, the highest of them are one level higher.            *)
Requests == Filter[Height] \cup Not(Filter[Height])

(* Those whose parts, or whose negation, a judgement below is about.       *)
Filters == Filter[Height + 2]

FilterInit ==
    /\ filter \in Requests /\ ranked \in BOOLEAN
    /\ library = "none" /\ database = "none"

Higher(m, n) == IF m > n THEN m ELSE n

Deep[f \in Filters] ==
    IF f.op = "leaf" THEN 1
    ELSE 1 + (IF f.op = "not" THEN Deep[f.child] ELSE Higher(Deep[f.left], Deep[f.right]))

Nodes[f \in Filters] ==
    IF f.op = "leaf" THEN 1
    ELSE 1 + (IF f.op = "not" THEN Nodes[f.child] ELSE Nodes[f.left] + Nodes[f.right])

AnalyzeLeaf(l) ==
    [guard |-> l \notin {"regexp", "metaPredicate"},
     regex |-> l = "regexp", unguarded |-> l = "regexp", thrown |-> FALSE]

OrOfAnyGuard(a, b) ==
    [guard |-> a.guard \/ b.guard,
     regex |-> a.regex \/ b.regex,
     unguarded |-> a.unguarded \/ b.unguarded,
     thrown |-> a.thrown \/ b.thrown]

OrOf(a, b) ==
    [guard |-> a.guard /\ b.guard /\ ~(a.regex \/ b.regex),
     regex |-> a.regex \/ b.regex,
     unguarded |-> a.unguarded \/ b.unguarded,
     thrown |-> a.thrown \/ b.thrown]

AndOf(a, b) ==
    [guard |-> a.guard \/ b.guard,
     regex |-> a.regex \/ b.regex,
     unguarded |-> (a.unguarded \/ b.unguarded) /\ ~(a.guard \/ b.guard),
     thrown |-> a.thrown \/ b.thrown]

(* A regexp may not appear under not. *)
NotOf(a) ==
    [guard |-> FALSE, regex |-> FALSE, unguarded |-> FALSE, thrown |-> a.thrown \/ a.regex]

(* analyzeFilter: isGuard, hasRegex, unguarded, and whether it throws.     *)
Analysis[f \in Filters] ==
    IF f.op = "leaf" THEN AnalyzeLeaf(f.of)
    ELSE IF f.op = "not" THEN NotOf(Analysis[f.child])
    ELSE IF f.op = "and" THEN AndOf(Analysis[f.left], Analysis[f.right])
    ELSE OrOf(Analysis[f.left], Analysis[f.right])

(* analyze_filter, which is only asked about unranked searches: "g", "r",  *)
(* "u", gathered child by child from these.                                *)
NoGuard == [g |-> FALSE, r |-> FALSE, u |-> FALSE, raised |-> FALSE]

GatherAnyGuard(op, a, b) ==
    [g |-> a.g \/ b.g, r |-> a.r \/ b.r, raised |-> a.raised \/ b.raised,
     u |-> (a.u \/ b.u) /\ (op = "or" \/ ~(a.g \/ b.g))]

Gather(op, a, b) ==
    LET guard == IF op = "and" THEN a.g \/ b.g ELSE a.g /\ b.g /\ ~a.r /\ ~b.r IN
    [g |-> guard, r |-> a.r \/ b.r, raised |-> a.raised \/ b.raised,
     u |-> (a.u \/ b.u) /\ (op = "or" \/ ~guard)]

GatherLeaf(l) == [g |-> l \notin {"regexp", "metaPredicate"}, r |-> l = "regexp",
                  u |-> l = "regexp", raised |-> FALSE]

GatherNot(a) == [NoGuard EXCEPT !.raised = a.raised \/ a.r]

Analyzed[f \in Filters] ==
    IF f.op = "leaf" THEN GatherLeaf(f.of)
    ELSE IF f.op = "not" THEN GatherNot(Analyzed[f.child])
    ELSE Gather(f.op, Analyzed[f.left], Analyzed[f.right])

(* guardFilterShape, normalizeFilter *)
Search ==
    /\ library = "none"
    /\ library' =
         IF \/ Deep[filter] > MaxDepth \/ Nodes[filter] > MaxNodes
            \/ ~ranked /\ (Analysis[filter].unguarded \/ Analysis[filter].thrown)
         THEN "rejected" ELSE "accepted"
    /\ UNCHANGED <<filter, ranked, database>>

(* compile_filter counts the root as depth 1. *)
TooDeep(f) == Deep[f] > MaxDepth

(* compile_filter, analyze_filter as search_records calls them *)
SearchRecords ==
    /\ database = "none"
    /\ database' =
         IF TooDeep(filter) \/ (~ranked /\ (Analyzed[filter].u \/ Analyzed[filter].raised))
         THEN "rejected" ELSE "accepted"
    /\ UNCHANGED <<filter, ranked, library>>

FilterNext == Search \/ SearchRecords

FilterSpec == FilterInit /\ [][FilterNext]_filterVars

-----------------------------------------------------------------------------
(* A record's fields decide each leaf: true, false, or neither, where the  *)
(* record has no temporal or the jsonpath fails; compile_filter wraps each *)
(* leaf in coalesce(..., false).                                           *)
Row == [Indexable \cup {"regexp", "metaPredicate"} -> {"true", "false", "null"}]

NullStays(v) == v

Coalesce(v) == IF v = "null" THEN "false" ELSE v

Negation(v) == IF v = "null" THEN v ELSE IF v = "true" THEN "false" ELSE "true"

Conjunction(v, w) ==
    IF v = "false" \/ w = "false" THEN "false" ELSE IF v = "null" THEN v ELSE w

Disjunction(v, w) == Negation(Conjunction(Negation(v), Negation(w)))

Value[f \in Filters] ==
    [row \in Row |->
        IF f.op = "leaf" THEN Coalesce(row[f.of])
        ELSE IF f.op = "not" THEN Negation(Value[f.child][row])
        ELSE IF f.op = "and" THEN Conjunction(Value[f.left][row], Value[f.right][row])
        ELSE Disjunction(Value[f.left][row], Value[f.right][row])]

(* "The two must implement identical rules" (search.ts:331): what the      *)
(* library lets through the database takes, and nothing that it stops      *)
(* would have run there, the number of nodes aside.                        *)
SameVerdict ==
    library # "none" /\ database # "none" =>
        \/ library = database
        \/ library = "rejected" /\ Nodes[filter] > MaxNodes

(* "A regex cannot be the only filter in an unranked search because that   *)
(* would allow an unbounded scan" (how-search-works.md:126): whichever way *)
(* and, or and not nest, a record that no indexable leaf selects is        *)
(* decided without its regexp.                                             *)
RegexNeverDrives ==
    database = "accepted" /\ ~ranked =>
        \A row \in Row : (\A l \in Indexable : row[l] # "true") =>
            \A v \in {"true", "false", "null"} :
                Value[filter][[row EXCEPT !["regexp"] = v]] = Value[filter][row]

(* A record satisfies a filter or its negation, and never both, whatever   *)
(* fields it lacks.                                                        *)
NotIsComplement ==
    \A row \in Row :
        Value[[op |-> "not", child |-> filter]][row] = "true" <=> Value[filter][row] # "true"

(* The two sides of the wire draw the same line, and the line keeps a      *)
(* regular expression from choosing the rows by itself.                    *)
GuardsAgree == SameVerdict /\ RegexNeverDrives
=============================================================================
