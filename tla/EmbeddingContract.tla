------------------------- MODULE EmbeddingContract -------------------------
(***************************************************************************)
(* What asynchronous embedding promises about the record table, without a  *)
(* queue, a drainer, a lease or a content version: every record has a      *)
(* vector slot, a writer may fill or clear it, and an empty slot may at    *)
(* any moment be filled - atomically - with the vector the model computes  *)
(* for the text the record holds at that very moment.  EmbeddingQueue is   *)
(* shown to implement this module.                                         *)
(***************************************************************************)
CONSTANTS
    RecordId,       \* the record ids (uuid)
    Content,        \* the texts a record may hold
    CallerVector,   \* the precomputed vectors callers may supply
    NoRecord,       \* there is no record with this id
    NoVector        \* embedding is null

(* The vector the configured model computes for a text. *)
ModelVector(c) == [embeds |-> c]

Vector == CallerVector \cup {ModelVector(c) : c \in Content}

VARIABLE slot       \* slot[r]: the text and the vector of record r

Init == slot = [r \in RecordId |-> NoRecord]

(* A record appears, with the caller's vector or with an empty slot. *)
Insert(r) ==
    /\ slot[r] = NoRecord
    /\ \E c \in Content, e \in CallerVector \cup {NoVector} :
          slot' = [slot EXCEPT ![r] = [content |-> c, embedding |-> e]]

(* A copy of a record brings its text and its vector along. *)
Copy(r, s) ==
    /\ slot[r] # NoRecord
    /\ slot[s] = NoRecord
    /\ slot' = [slot EXCEPT ![s] = slot[r]]

(* A writer changes text, vector or both; the old vector may stay only     *)
(* next to the text it was stored with.                                    *)
Write(r) ==
    /\ slot[r] # NoRecord
    /\ \E c \in Content, e \in Vector \cup {NoVector} :
          /\ \/ e \in CallerVector \cup {NoVector}
             \/ c = slot[r].content /\ e = slot[r].embedding
          /\ slot' = [slot EXCEPT ![r] = [content |-> c, embedding |-> e]]

Delete(r) ==
    /\ slot[r] # NoRecord
    /\ slot' = [slot EXCEPT ![r] = NoRecord]

(* The pipeline as one atomic step: an empty slot receives the vector of   *)
(* the record's present text.                                              *)
Embed(r) ==
    /\ slot[r] # NoRecord
    /\ slot[r].embedding = NoVector
    /\ slot' = [slot EXCEPT ![r].embedding = ModelVector(slot[r].content)]

Next ==
    \E r \in RecordId :
        \/ Insert(r) \/ Write(r) \/ Delete(r) \/ Embed(r)
        \/ \E s \in RecordId : Copy(r, s)

Spec == Init /\ [][Next]_slot
=============================================================================
