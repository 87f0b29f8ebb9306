---------------------------- MODULE MCBatchUpsert ----------------------------
(* Small instances of BatchUpsert for TLC. *)
EXTENDS BatchUpsert, TLC

CONSTANTS x, k1, k2, c1, c2, m1, v1

In(id, slot, content, vector) ==
    [id |-> id, slot |-> slot, content |-> content, meta |-> m1,
     vector |-> vector]

(* Batches that meet in two slots, in either order of rows: without ids,   *)
(* with an explicit id, with a caller's vector; and batches keyed by id.   *)
KeyedBatches ==
    { {In(NoId, k1, c1, NoVector), In(NoId, k2, c1, NoVector)},
      {In(x, k1, c2, v1), In(NoId, NoSlot, c1, NoVector)},
      {In(x, NoSlot, c1, NoVector)},
      {In(x, NoSlot, c2, v1)} }

(* A batch whose id and whose slot may turn out to be the same record. *)
MixedBatches ==
    { {In(NoId, k1, c1, NoVector), In(x, NoSlot, c2, NoVector)},
      {In(x, k1, c1, NoVector)} }

Symmetry == Permutations(Call)
=============================================================================
