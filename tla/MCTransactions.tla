--------------------------- MODULE MCTransactions ----------------------------
(* A behaviour has as many sessions as MaxSessions says, of whichever kind. *)
EXTENDS Transactions, TLC

CONSTANT MaxSessions

VARIABLE present

SomeInit == Init /\ present \in {S \in SUBSET Session : Cardinality(S) = MaxSessions}

SomeNext ==
    /\ \/ \E s \in Caller \cap present : CallerNext(s)
       \/ \E w \in Drainer \cap present : DrainerNext(w)
       \/ \E q \in QueueId : Lapse(q)
    /\ UNCHANGED present

SomeSpec == SomeInit /\ [][SomeNext]_<<vars, present>>

(* Records, contents, callers and drainers are interchangeable. *)
Alike == Permutations(RecordId) \cup Permutations(Content)
             \cup Permutations(Caller) \cup Permutations(Drainer)
=============================================================================
