-------------------------- MODULE MCEmbeddingQueue --------------------------
(* Small instances of EmbeddingQueue for TLC. *)
EXTENDS EmbeddingQueue, TLC

CONSTANTS
    Attempts,       \* the drainers run with this maxAttempts,
    Hasty           \* but for these, which allow one less

MCMaxAttempts == [w \in Worker |-> IF w \in Hasty THEN Attempts - 1 ELSE Attempts]

Symmetry == Permutations(Worker \ Hasty) \cup Permutations(RecordId)
                \cup Permutations(Content)
=============================================================================
