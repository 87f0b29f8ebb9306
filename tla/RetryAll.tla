------------------------------ MODULE RetryAll ------------------------------
(***************************************************************************)
(* searchgres embeddings retry --all: one forward traversal of the failed  *)
(* queue rows, while drainers fail some of them again and others come and  *)
(* go.                                                                     *)
(***************************************************************************)
EXTENDS Keyset

CONSTANT MaxRow     \* bound: queue ids are 1 .. MaxRow

ASSUME RetryAssumptions == MaxRow \in Nat

QueueRow == 1 .. MaxRow

VARIABLES
    failures,     \* the rows retryEmbeddingFailures would reset
    pending,      \* the rows drainers work at
    nextRow,      \* queue ids are given out in increasing order
    listedAfter,  \* cursor: the last id listed
    listing,      \* the failures listed last
    retryPc,      \* "list" | "retry" | "done" | "aborted"
    retried, retrySkipped,   \* the counts reported, as far as MaxRow + 1
    reset,        \* history: reset[q]: how often the traversal retried q, to 2
    ever          \* history: the rows that have been failed since the start

retryVars == <<failures, pending, nextRow, listedAfter, listing, retryPc, retried, retrySkipped, reset, ever>>

RetryTypeOK ==
    /\ failures \subseteq QueueRow /\ pending \subseteq QueueRow \ failures
    /\ nextRow \in 1 .. MaxRow + 1 /\ listedAfter \in {Start} \cup QueueRow
    /\ listing \subseteq QueueRow /\ retryPc \in {"list", "retry", "done", "aborted"}
    /\ retried \in 0 .. MaxRow + 1 /\ retrySkipped \in 0 .. MaxRow + 1
    /\ reset \in [QueueRow -> 0 .. 2] /\ ever \subseteq failures

RetryInit ==
    /\ nextRow \in QueueRow /\ failures \in SUBSET (1 .. nextRow - 1)
    /\ pending = (1 .. nextRow - 1) \ failures
    /\ listedAfter = Start /\ listing = {} /\ retryPc = "list"
    /\ retried = 0 /\ retrySkipped = 0
    /\ reset = [q \in QueueRow |-> 0] /\ ever = failures

Queue == <<failures, pending, nextRow>>

List ==
    /\ retryPc = "list"
    /\ listing' = Page(failures, listedAfter, PageSize)
    /\ retryPc' = IF listing' = {} THEN "done" ELSE "retry"
    /\ UNCHANGED <<Queue, listedAfter, retried, retrySkipped, reset, ever>>

CountedRows(n) == IF n > MaxRow THEN MaxRow + 1 ELSE n

CursorStays == listedAfter

CursorPast == EndOf(listing, listedAfter) + 1

RetryCursor == EndOf(listing, listedAfter)

(* retryEmbeddingFailures looks again at every row it is given.            *)
StillFailed == listing \cap failures

Retry ==
    /\ retryPc = "retry"
    /\ failures' = failures \ StillFailed /\ pending' = pending \cup StillFailed
    /\ retried' = CountedRows(retried + Cardinality(StillFailed))
    /\ retrySkipped' = CountedRows(retrySkipped + Cardinality(listing \ StillFailed))
    /\ reset' = [q \in QueueRow |-> IF q \in StillFailed /\ reset[q] < 2
                             THEN reset[q] + 1 ELSE reset[q]]
    /\ ever' = ever \ StillFailed
    /\ listedAfter' = RetryCursor
    /\ retryPc' = IF Cardinality(listing) < PageSize THEN "done" ELSE "list"
    /\ listing' = {}
    /\ UNCHANGED nextRow

(* The signal is looked at once per page.                                  *)
Abort ==
    /\ retryPc = "list" /\ retryPc' = "aborted"
    /\ UNCHANGED <<Queue, listedAfter, listing, retried, retrySkipped, reset, ever>>

Traversal == <<listedAfter, listing, retryPc, retried, retrySkipped, reset>>

(* A drainer's final attempt fails, or another client ...                  *)
FailsAgain(q) ==
    /\ q \in pending
    /\ pending' = pending \ {q} /\ failures' = failures \cup {q}
    /\ UNCHANGED <<nextRow, ever, Traversal>>

(* ... retries a failure itself, ...                                       *)
RetriedElsewhere(q) ==
    /\ q \in failures
    /\ failures' = failures \ {q} /\ pending' = pending \cup {q} /\ ever' = ever \ {q}
    /\ UNCHANGED <<nextRow, Traversal>>

(* ... or the row is embedded, superseded, pruned, deleted with its record.*)
Gone(q) ==
    /\ q \in failures \cup pending
    /\ failures' = failures \ {q} /\ pending' = pending \ {q} /\ ever' = ever \ {q}
    /\ UNCHANGED <<nextRow, Traversal>>

Enqueue ==
    /\ nextRow <= MaxRow
    /\ pending' = pending \cup {nextRow} /\ nextRow' = nextRow + 1
    /\ UNCHANGED <<failures, ever, Traversal>>

RetryNext ==
    \/ List \/ Retry \/ Abort \/ Enqueue
    \/ \E q \in QueueRow : FailsAgain(q) \/ RetriedElsewhere(q) \/ Gone(q)

RetrySpec == RetryInit /\ [][RetryNext]_retryVars

-----------------------------------------------------------------------------
(* "does not repeatedly chase failures" (docs/guides/cli.md:240): a row    *)
(* that fails again behind the traversal's back is not retried again, and  *)
(* what is reported as retried was reset by this call.                     *)
RetriedOnce ==
    /\ \A q \in QueueRow : reset[q] <= 1
    /\ retried = Cardinality({q \in QueueRow : reset[q] = 1})

(* A failure that nobody else touches is not left behind by a traversal    *)
(* that ran to its end.                                                    *)
NoneOverlooked == retryPc = "done" => ever = {}

(* One traversal retries every failure that stays, and none of them twice. *)
RetryIsExact == RetriedOnce /\ NoneOverlooked
=============================================================================
