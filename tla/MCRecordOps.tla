---------------------------- MODULE MCRecordOps -----------------------------
(* Ids, contents and clients are interchangeable.  A behaviour is about    *)
(* one of two questions, so that both fit into one instance: what happens  *)
(* to the fields of one record, with two contents and patches of any       *)
(* width; or what happens to two records of one content that move in a     *)
(* deeper tree.                                                            *)
EXTENDS RecordOps

CONSTANT Shallow        \* bound: the depth of the tree when fields matter

VARIABLE about

Calls(ops) == {c \in Client : call[c].op \in ops}

Contents ==
    {record[i].fields.content : i \in Present}
    \cup {call[c].prior.content : c \in Calls({"read", "patch"})}
    \cup {call[c].patch.to.content : c \in Calls({"patch"})}

FieldsOfOne ==
    /\ Cardinality(Present \cup {i \in Id : \E c \in Client : Known(call[c], i)}) <= 1
    /\ \A i \in Present : Len(record[i].fields.tree) <= Shallow
    /\ \A c \in Calls({"patch"}) : Len(call[c].patch.to.tree) <= Shallow
    /\ \A c \in Calls({"delete"}) : Len(call[c].tree) <= Shallow
    /\ \A c \in Calls({"move"}) : Len(call[c].dst) <= Shallow
    /\ \A c \in Calls({"move", "deleteTree"}) : Len(call[c].src) <= Shallow

TreeOfSome ==
    /\ Cardinality(Contents) <= 1
    /\ \A c \in Calls({"patch"}) : Cardinality(call[c].patch.sets) <= 1

Fits == IF about = "fields" THEN FieldsOfOne ELSE TreeOfSome

SomeInit == Init /\ about \in {"fields", "tree"}

SomeNext == Next /\ UNCHANGED about /\ Fits'

SomeSpec == SomeInit /\ [][SomeNext]_<<vars, about>>

Alike == Permutations(Id) \cup Permutations(Content) \cup Permutations(Client)
=============================================================================
