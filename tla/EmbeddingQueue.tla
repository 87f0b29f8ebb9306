--------------------------- MODULE EmbeddingQueue ---------------------------
(***************************************************************************)
(* The asynchronous embedding pipeline: the record table with its          *)
(* integrity and enqueue triggers (create-index.ts), the embedding_queue   *)
(* table and its statements (db/embedding-queue.ts), and the drainers that *)
(* claim, embed and write back batches (runBatch in embedding-worker.ts).  *)
(*                                                                         *)
(* One action is one committed SQL statement or one step of a drainer.     *)
(* READ COMMITTED with row locks makes each statement atomic at the moment *)
(* it holds its locks; everything between two statements of a drainer may  *)
(* be interleaved with writers, other drainers, time and crashes.          *)
(***************************************************************************)
EXTENDS Integers, FiniteSets

CONSTANTS
    RecordId, Content, CallerVector, NoRecord, NoVector,
    Worker,         \* the drainers: workers and processEmbeddings() calls
    NoRow,          \* no queue row has this id (never allocated, or deleted)
    MaxAttempts,    \* MaxAttempts[w]: the maxAttempts option of drainer w
    BatchSize,      \* rows per claim
    MaxVersion,     \* bound: writers stop when content_version reaches it
    MaxQueueId      \* bound: the identity column of the queue stops here

VARIABLES
    record,         \* record[r]: the row of record r
    queue,          \* queue[q]: the row of embedding_queue with id q
    nextId,         \* the identity sequence of embedding_queue
    pc,             \* pc[w]: where drainer w is
    batch,          \* batch[w]: the claimed rows drainer w still has to settle
    pruned          \* history: current failed work that pruning removed

vars == <<record, queue, nextId, pc, batch, pruned>>

-----------------------------------------------------------------------------
(* Data. *)

ModelVector(c) == [embeds |-> c]

Vector == CallerVector \cup {ModelVector(c) : c \in Content}

QueueId == 1..MaxQueueId

Outcome == {"active", "completed", "failed", "cancelled"}  \* "active" is null

RecordRow == [content : Content, cv : Nat, embedding : Vector \cup {NoVector}]

QueueRow == [rid : RecordId, cv : Nat, outcome : Outcome, attempts : Nat,
             visibleAt : {"past", "future"}]     \* visible_at against now()

Claim == [q : QueueId, rid : RecordId, cv : Nat, content : Content]

ASSUME Assumptions ==
    /\ NoVector \notin Vector
    /\ CallerVector \cap {ModelVector(c) : c \in Content} = {}
    /\ NoRecord \notin RecordRow
    /\ NoRecord \notin [content : Content, embedding : Vector \cup {NoVector}]
    /\ NoRow \notin QueueRow
    /\ MaxAttempts \in [Worker -> Nat \ {0}]
    /\ BatchSize \in Nat \ {0}
    /\ MaxVersion \in Nat \ {0}
    /\ MaxQueueId \in Nat

TypeOK ==
    /\ record \in [RecordId -> RecordRow \cup {NoRecord}]
    /\ queue \in [QueueId -> QueueRow \cup {NoRow}]
    /\ nextId \in 1..(MaxQueueId + 1)
    /\ pc \in [Worker -> {"idle", "claim", "embed", "write", "defer", "free"}]
    /\ batch \in [Worker -> SUBSET Claim]
    /\ pruned \in SUBSET (RecordId \X Nat)

Exists(r) == record[r] # NoRecord
Queued(q) == queue[q] # NoRow
Active(q) == Queued(q) /\ queue[q].outcome = "active"

Visible(q) == Active(q) /\ queue[q].visibleAt = "past"

(* The fence: does the row describe the record's present embedding input? *)
Current(q) == Exists(queue[q].rid) /\ record[queue[q].rid].cv = queue[q].cv

Init ==
    /\ record = [r \in RecordId |-> NoRecord]
    /\ queue = [q \in QueueId |-> NoRow]
    /\ nextId = 1
    /\ pc = [w \in Worker |-> "idle"]
    /\ batch = [w \in Worker |-> {}]
    /\ pruned = {}

-----------------------------------------------------------------------------
(* Writers.  Each action is one committed write of one record. *)

(* Mutants of record_integrity: the version follows the text only; the     *)
(* version follows the vector only.                                        *)
BumpForTextOnly(old, c, e) ==
    [content   |-> c,
     embedding |-> IF c # old.content /\ e = old.embedding THEN NoVector
                                                          ELSE e,
     cv        |-> IF c # old.content THEN old.cv + 1 ELSE old.cv]

BumpForVectorOnly(old, c, e) ==
    LET v == IF c # old.content /\ e = old.embedding THEN NoVector ELSE e
    IN  [content |-> c, embedding |-> v,
         cv |-> IF v # old.embedding THEN old.cv + 1 ELSE old.cv]

(* record_integrity on UPDATE: old row, and the content and embedding that *)
(* the statement's SET list evaluates to.                                  *)
RecordIntegrity(old, c, e) ==
    LET v == IF c # old.content /\ e = old.embedding THEN NoVector ELSE e
    IN  [content   |-> c,
         embedding |-> v,
         cv        |-> IF c # old.content \/ v # old.embedding
                       THEN old.cv + 1 ELSE old.cv]

PendingRow(r, cv) == [rid |-> r, cv |-> cv, outcome |-> "active",
                      attempts |-> 0, visibleAt |-> "past"]

(* Mutant: only the insert trigger enqueues. *)
EnqueueOnInsertOnly(r, cv, when) ==
    /\ nextId \in QueueId
    /\ IF when /\ cv = 1
       THEN /\ queue' = [queue EXCEPT ![nextId] = PendingRow(r, cv)]
            /\ nextId' = nextId + 1
       ELSE UNCHANGED <<queue, nextId>>

(* enqueue_record_embedding, when the trigger's condition holds. *)
Enqueue(r, cv, when) ==
    /\ nextId \in QueueId
    /\ IF when
       THEN /\ queue' = [queue EXCEPT ![nextId] = PendingRow(r, cv)]
            /\ nextId' = nextId + 1
       ELSE UNCHANGED <<queue, nextId>>

InsertRow(r, c, e) ==
    /\ ~Exists(r)
    /\ record' = [record EXCEPT ![r] = [content |-> c, cv |-> 1,
                                        embedding |-> e]]
    /\ Enqueue(r, 1, e = NoVector)
    /\ UNCHANGED <<pc, batch, pruned>>

Insert(r) ==
    \E c \in Content, e \in CallerVector \cup {NoVector} : InsertRow(r, c, e)

(* copy_tree inserts the source's content and embedding under a new id. *)
Copy(r, s) ==
    /\ Exists(r)
    /\ InsertRow(s, record[r].content, record[r].embedding)

(* batch_upsert's replace, patch_record, or a direct UPDATE. *)
Update(r) ==
    /\ Exists(r)
    /\ record[r].cv < MaxVersion
    /\ \E c \in Content,
          e \in CallerVector \cup {NoVector, record[r].embedding} :
         LET row == RecordIntegrity(record[r], c, e)
         IN  /\ row # record[r]
             /\ record' = [record EXCEPT ![r] = row]
             /\ Enqueue(r, row.cv,
                    row.embedding = NoVector /\ row.cv # record[r].cv)
    /\ UNCHANGED <<pc, batch, pruned>>

(* Mutant: the queue has no foreign key. *)
DeleteWithoutCascade(r) ==
    /\ Exists(r)
    /\ record' = [record EXCEPT ![r] = NoRecord]
    /\ pruned' = {p \in pruned : p[1] # r}
    /\ UNCHANGED <<queue, nextId, pc, batch>>

(* The foreign key removes the record's queue rows in the same statement. *)
Delete(r) ==
    /\ Exists(r)
    /\ record' = [record EXCEPT ![r] = NoRecord]
    /\ queue' = [q \in QueueId |->
                    IF Queued(q) /\ queue[q].rid = r THEN NoRow ELSE queue[q]]
    /\ pruned' = {p \in pruned : p[1] # r}
    /\ UNCHANGED <<nextId, pc, batch>>

-----------------------------------------------------------------------------
(* Operators of the queue, and time. *)

(* Mutant: any failed row is reopened, also one for a past version. *)
AnyFailure(q) == Queued(q) /\ queue[q].outcome = "failed"

(* retryEmbeddingFailures: requested ids that are not current unresolved   *)
(* failures are skipped.                                                   *)
Retryable(q) ==
    /\ Queued(q) /\ queue[q].outcome = "failed"
    /\ Current(q) /\ record[queue[q].rid].embedding = NoVector

Retry(ids) ==
    /\ \E q \in ids : Retryable(q)
    /\ queue' = [q \in QueueId |->
                    IF q \in ids /\ Retryable(q)
                    THEN PendingRow(queue[q].rid, queue[q].cv)
                    ELSE queue[q]]
    /\ UNCHANGED <<record, nextId, pc, batch, pruned>>

(* pruneQueue: "old" is what the retention window makes of created_at. *)
Prune(old) ==
    /\ old # {}
    /\ \A q \in old : Queued(q) /\ ~Active(q)
    /\ queue' = [q \in QueueId |-> IF q \in old THEN NoRow ELSE queue[q]]
    /\ pruned' = pruned \cup {<<queue[q].rid, queue[q].cv>> :
                                 q \in {p \in old : Retryable(p)}}
    /\ UNCHANGED <<record, nextId, pc, batch>>

(* visible_at passes: a lease or a retry delay is over. *)
LeaseLapse(q) ==
    /\ Active(q) /\ queue[q].visibleAt = "future"
    /\ queue' = [queue EXCEPT ![q].visibleAt = "past"]
    /\ UNCHANGED <<record, nextId, pc, batch, pruned>>

-----------------------------------------------------------------------------
(* Drainers: runBatch, statement by statement. *)

(* Mutant: off by one, the last attempt is never given up. *)
ExhaustedLate(w, q) ==
    Visible(q) /\ queue[q].attempts > MaxAttempts[w]

(* claimBatch, first statement: rows out of attempts become terminal. *)
Exhausted(w, q) ==
    Visible(q) /\ queue[q].attempts >= MaxAttempts[w]

Sweep(w) ==
    /\ pc[w] = "idle"
    /\ queue' = [q \in QueueId |->
                    IF Exhausted(w, q)
                    THEN [queue[q] EXCEPT !.outcome = "failed"]
                    ELSE queue[q]]
    /\ pc' = [pc EXCEPT ![w] = "claim"]
    /\ UNCHANGED <<record, nextId, batch, pruned>>

(* claimBatch, second statement: SKIP LOCKED may pass over any candidate   *)
(* another session is working on, so any few candidates may be taken.      *)
Candidate(w, q) ==
    Visible(q) /\ queue[q].attempts < MaxAttempts[w]

ClaimRow(q) ==
    IF Current(q)
    THEN [queue[q] EXCEPT !.attempts = @ + 1, !.visibleAt = "future"]
    ELSE [queue[q] EXCEPT !.outcome = "cancelled"]

ClaimBatch(w, taken) ==
    /\ pc[w] = "claim"
    /\ \A q \in taken : Candidate(w, q)
    /\ Cardinality(taken) <= BatchSize
    /\ queue' = [q \in QueueId |-> IF q \in taken THEN ClaimRow(q)
                                                  ELSE queue[q]]
    /\ batch' = [batch EXCEPT ![w] =
                    {[q |-> q, rid |-> queue[q].rid, cv |-> queue[q].cv,
                      content |-> record[queue[q].rid].content] :
                        q \in {p \in taken : Current(p)}}]
    /\ pc' = [pc EXCEPT ![w] = IF \E q \in taken : Current(q)
                               THEN "embed" ELSE "idle"]
    /\ UNCHANGED <<record, nextId, pruned>>

(* The provider's answer, outside any transaction. *)
ProviderAnswers(w) ==
    /\ pc[w] = "embed"
    /\ pc' = [pc EXCEPT ![w] = "write"]
    /\ UNCHANGED <<record, queue, nextId, batch, pruned>>

(* A rate limit defers the rows, a wrong dimension frees them at once. *)
ProviderRejects(w) ==
    /\ pc[w] = "embed"
    /\ \E p \in {"defer", "free"} : pc' = [pc EXCEPT ![w] = p]
    /\ UNCHANGED <<record, queue, nextId, batch, pruned>>

Stop(w) ==
    /\ pc' = [pc EXCEPT ![w] = "idle"]
    /\ batch' = [batch EXCEPT ![w] = {}]

(* Any other provider failure: failEmbedding records last_error on every   *)
(* row (a diagnostic this model leaves out) and the rows keep their lease. *)
ProviderFails(w) ==
    /\ pc[w] = "embed"
    /\ Stop(w)
    /\ UNCHANGED <<record, queue, nextId, pruned>>

(* A drainer works through its batch in queue-id order. *)
IsNext(w, k) == k \in batch[w] /\ \A j \in batch[w] : k.q <= j.q

Advance(w, k) ==
    /\ batch' = [batch EXCEPT ![w] = @ \ {k}]
    /\ pc' = [pc EXCEPT ![w] = IF batch[w] = {k} THEN "idle" ELSE @]

ReleaseRow(row, at) ==
    [row EXCEPT !.attempts = IF @ > 0 THEN @ - 1 ELSE 0, !.visibleAt = at]

(* Mutant: the release does not ask whether the row is still open. *)
ReleaseInAnyCase(w) ==
    /\ pc[w] \in {"defer", "free"}
    /\ \E k \in batch[w] :
          /\ IsNext(w, k)
          /\ queue' = IF Queued(k.q)
                      THEN [queue EXCEPT ![k.q] =
                               ReleaseRow(queue[k.q],
                                   IF pc[w] = "free" THEN "past" ELSE "future")]
                      ELSE queue
          /\ Advance(w, k)
    /\ UNCHANGED <<record, nextId, pruned>>

(* releaseEmbedding: refund the attempt and set the delay. *)
Release(w) ==
    /\ pc[w] \in {"defer", "free"}
    /\ \E k \in batch[w] :
          /\ IsNext(w, k)
          /\ queue' = IF Active(k.q)
                      THEN [queue EXCEPT ![k.q] =
                               ReleaseRow(queue[k.q],
                                   IF pc[w] = "free" THEN "past" ELSE "future")]
                      ELSE queue
          /\ Advance(w, k)
    /\ UNCHANGED <<record, nextId, pruned>>

(* Mutant: the write-back trusts the claim. *)
UnfencedFinish(k) ==
    IF ~Active(k.q)
    THEN UNCHANGED <<record, queue>>
    ELSE /\ record' = [record EXCEPT ![k.rid] =
                RecordIntegrity(record[k.rid], record[k.rid].content,
                                ModelVector(k.content))]
         /\ queue' = [queue EXCEPT ![k.q].outcome = "completed"]

(* completeEmbedding.  The enqueue trigger's condition is false: the write *)
(* leaves a vector behind.                                                 *)
Finish(k) ==
    IF ~Active(k.q)
    THEN UNCHANGED <<record, queue>>
    ELSE LET r == queue[k.q].rid
         IN  IF Current(k.q)
             THEN /\ record' = [record EXCEPT ![r] =
                        RecordIntegrity(record[r], record[r].content,
                                        ModelVector(k.content))]
                  /\ queue' = [queue EXCEPT ![k.q].outcome = "completed"]
             ELSE /\ queue' = [queue EXCEPT ![k.q].outcome = "cancelled"]
                  /\ UNCHANGED record

Complete(w) ==
    /\ pc[w] = "write"
    /\ \E k \in batch[w] : IsNext(w, k) /\ Finish(k) /\ Advance(w, k)
    /\ UNCHANGED <<nextId, pruned>>

(* completeEmbedding throws without having committed; failEmbedding notes  *)
(* the error and the loop goes on with the next row.  (If it did commit    *)
(* and only the reply was lost, the step is Complete: failEmbedding then   *)
(* finds a terminal row and does nothing.)                                 *)
WriteBackFails(w) ==
    /\ pc[w] = "write"
    /\ \E k \in batch[w] : IsNext(w, k) /\ Advance(w, k)
    /\ UNCHANGED <<record, queue, nextId, pruned>>

(* The process dies; or a statement of the drainer throws out of runBatch; *)
(* or the provider answered fewer vectors than it was asked for and the    *)
(* remaining rows are passed over.  The rows stay claimed.                 *)
Abandon(w) ==
    /\ pc[w] # "idle"
    /\ Stop(w)
    /\ UNCHANGED <<record, queue, nextId, pruned>>

-----------------------------------------------------------------------------
WriterNext ==
    \E r \in RecordId :
        \/ Insert(r) \/ Update(r) \/ Delete(r)
        \/ \E s \in RecordId : Copy(r, s)

QueueNext ==
    \/ \E ids \in SUBSET QueueId : Retry(ids) \/ Prune(ids)
    \/ \E q \in QueueId : LeaseLapse(q)

DrainerNext(w) ==
    \/ Sweep(w)
    \/ \E taken \in SUBSET QueueId : ClaimBatch(w, taken)
    \/ ProviderAnswers(w) \/ ProviderRejects(w) \/ ProviderFails(w)
    \/ Release(w) \/ Complete(w) \/ WriteBackFails(w)
    \/ Abandon(w)

Next == WriterNext \/ QueueNext \/ \E w \in Worker : DrainerNext(w)

Spec == Init /\ [][Next]_vars

(* Fairness.  A drainer that is between two statements goes on; a lease    *)
(* ends because time passes; the provider does not answer every call for a *)
(* text with a rate limit or a wrong dimension; and because a claim takes  *)
(* the oldest visible rows first, a row that stays claimable is claimed    *)
(* (SKIP LOCKED passes over it only while another session is busy with it).*)
FairSpec ==
    /\ Spec
    /\ \A q \in QueueId :
          /\ WF_vars(LeaseLapse(q))
          /\ SF_vars(\E w \in Worker, taken \in SUBSET QueueId :
                        q \in taken /\ ClaimBatch(w, taken))
          /\ SF_vars(\E w \in Worker : /\ \E k \in batch[w] : k.q = q
                                       /\ ProviderAnswers(w) \/ ProviderFails(w))
    /\ \A w \in Worker :
          /\ WF_vars(Sweep(w))
          /\ WF_vars(\E taken \in SUBSET QueueId : ClaimBatch(w, taken))
          /\ WF_vars(Release(w) \/ Complete(w))
          /\ WF_vars(ProviderAnswers(w) \/ ProviderRejects(w)
                        \/ ProviderFails(w))

-----------------------------------------------------------------------------
(* Properties. *)

(* A queue row never describes a future state of its record, and a row     *)
(* whose fence still matches belongs to a record without a vector: no      *)
(* drainer can reach a record whose vector somebody supplied, whatever     *)
(* rows the history left behind (record_integrity's content_version bump). *)
FenceIsSound ==
    \A q \in QueueId : Queued(q) =>
        /\ Exists(queue[q].rid)
        /\ queue[q].cv <= record[queue[q].rid].cv
        /\ Current(q) => record[queue[q].rid].embedding = NoVector

(* Two rows never carry the same work, so a record state is embedded once  *)
(* even after retries, deletes and re-inserts under the same id.           *)
OneRowPerVersion ==
    \A p, q \in QueueId :
        /\ Queued(p) /\ Queued(q)
        /\ queue[p].rid = queue[q].rid
        /\ queue[p].cv = queue[q].cv
        => p = q

(* No work is lost: a record without a vector has a row for its present    *)
(* version that is pending or failed, unless pruning removed that failure. *)
NoWorkLost ==
    \A r \in RecordId : Exists(r) /\ record[r].embedding = NoVector =>
        \/ \E q \in QueueId : Queued(q) /\ queue[q].rid = r /\ Current(q)
        \/ <<r, record[r].cv>> \in pruned

(* What a drainer holds is what it will write: while the row it claimed is *)
(* still open and its fence still matches, the text it sent to the model   *)
(* is the record's text - also if the record was deleted and re-inserted   *)
(* (content_version starts again at 1, queue ids do not).                  *)
ClaimsAreFaithful ==
    \A w \in Worker : \A k \in batch[w] :
        Queued(k.q) =>
            /\ queue[k.q].rid = k.rid /\ queue[k.q].cv = k.cv
            /\ Current(k.q) => record[k.rid].content = k.content

(* The attempt counter and the limits, whatever drainers with limits of    *)
(* their own do to one row - claims, lapsed leases, sweeps, releases that  *)
(* come late: it counts no more claims than the most patient of them       *)
(* allows, and a failed row has, and keeps, the attempts that one of them  *)
(* calls exhausted.                                                        *)
WithinLimits(row) ==
    /\ row.attempts > 0 =>
          \E w \in Worker : row.attempts <= MaxAttempts[w]
    /\ row.outcome = "failed" =>
          \E w \in Worker : row.attempts >= MaxAttempts[w]

AttemptsAreBounded ==
    \A q \in QueueId : Queued(q) => WithinLimits(queue[q])

(* The tables have their types, and the counter of attempts, of which the  *)
(* table itself only says that it is not below zero (create-index.ts:367), *)
(* is within the limits of the drainers.                                   *)
QueueIsInLimits == TypeOK /\ AttemptsAreBounded

(* A terminal row stays as it is until it is pruned or its record goes -   *)
(* except that a failure may be reopened, and then only as fresh work for  *)
(* the version it failed for.                                              *)
TerminalIsFinal ==
    [][\A q \in QueueId :
          (Queued(q) /\ ~Active(q) /\ Queued(q)' /\ queue'[q] # queue[q])
          => /\ queue[q].outcome = "failed" /\ Current(q)
             /\ queue'[q] = PendingRow(queue[q].rid, queue[q].cv)]_vars

(* Every record keeps returning to a settled state: it has a vector, or    *)
(* its work is terminally failed (or was, and pruning removed the row).    *)
Settled(r) ==
    \/ ~Exists(r)
    \/ record[r].embedding # NoVector
    \/ <<r, record[r].cv>> \in pruned
    \/ \E q \in QueueId : /\ Queued(q) /\ queue[q].outcome = "failed"
                          /\ queue[q].rid = r /\ Current(q)

EveryRecordSettles == \A r \in RecordId : []<>Settled(r)

(* The record table as the contract sees it. *)
slots ==
    [r \in RecordId |->
        IF Exists(r) THEN [content   |-> record[r].content,
                           embedding |-> record[r].embedding]
                     ELSE NoRecord]

Contract == INSTANCE EmbeddingContract WITH slot <- slots

(* The whole pipeline - queue, leases, retries, crashes, late write-backs  *)
(* - shows the record table nothing but the contract's atomic steps.       *)
ImplementsContract == Contract!Spec
=============================================================================
