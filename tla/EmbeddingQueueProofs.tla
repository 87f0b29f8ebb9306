------------------------ MODULE EmbeddingQueueProofs ------------------------
(***************************************************************************)
(* Theorems about EmbeddingQueue, for all values of its constants.         *)
(***************************************************************************)
EXTENDS EmbeddingQueue, TLAPS

(* What record_integrity makes of an update: a row of the table, whose     *)
(* content_version moves exactly when text or vector do.                   *)
LEMMA IntegrityFacts ==
    ASSUME NEW old \in RecordRow, NEW c \in Content,
           NEW e \in Vector \cup {NoVector}
    PROVE  LET row == RecordIntegrity(old, c, e)
           IN  /\ row \in RecordRow
               /\ row.content = c
               /\ row.embedding \in {e, NoVector}
               /\ row.cv >= old.cv
               /\ row.cv = old.cv => row = old
               /\ c # old.content => row.embedding = NoVector
                                        \/ row.embedding # old.embedding
  BY DEF RecordIntegrity, RecordRow

LEMMA RowFacts ==
    ASSUME NEW r \in RecordId, NEW v \in Nat
    PROVE  PendingRow(r, v) \in QueueRow
  BY DEF PendingRow, QueueRow, Outcome

LEMMA ModelVectorIsVector ==
    ASSUME NEW c \in Content
    PROVE  ModelVector(c) \in Vector
  BY DEF Vector

(* Releasing a row changes its attempts and its visibility only.           *)
LEMMA ReleaseFacts ==
    ASSUME NEW row \in QueueRow, NEW at \in {"past", "future"}
    PROVE  /\ ReleaseRow(row, at) \in QueueRow
           /\ ReleaseRow(row, at).rid = row.rid
           /\ ReleaseRow(row, at).cv = row.cv
           /\ ReleaseRow(row, at).outcome = row.outcome
<1> DEFINE n == IF row.attempts > 0 THEN row.attempts - 1 ELSE 0
<1>1. n \in Nat
  BY DEF QueueRow
<1>2. ReleaseRow(row, at) =
          [row EXCEPT !.attempts = n, !.visibleAt = at]
  BY DEF ReleaseRow
<1> HIDE DEF n
<1> QED
  BY <1>1, <1>2 DEF QueueRow

(* Claiming a row changes its outcome, or its attempts and visibility.     *)
LEMMA ClaimFacts ==
    ASSUME NEW q \in QueueId, queue[q] \in QueueRow
    PROVE  /\ ClaimRow(q) \in QueueRow
           /\ ClaimRow(q).rid = queue[q].rid
           /\ ClaimRow(q).cv = queue[q].cv
<1> DEFINE n == queue[q].attempts + 1
<1>1. n \in Nat
  BY DEF QueueRow
<1>2. CASE Current(q)
  <2>1. ClaimRow(q) = [queue[q] EXCEPT !.attempts = n, !.visibleAt = "future"]
    BY <1>2 DEF ClaimRow
  <2> HIDE DEF n
  <2> QED
    BY <1>1, <2>1 DEF QueueRow
<1>3. CASE ~Current(q)
  BY <1>3 DEF ClaimRow, QueueRow, Outcome
<1> QED
  BY <1>2, <1>3

(* Advancing in a batch and stopping keep the drainer's variables typed.   *)
LEMMA DrainerTypes ==
    ASSUME TypeOK, NEW w \in Worker,
           Stop(w) \/ \E k \in batch[w] : Advance(w, k)
    PROVE  /\ pc' \in [Worker -> {"idle", "claim", "embed", "write",
                                  "defer", "free"}]
           /\ batch' \in [Worker -> SUBSET Claim]
  BY DEF TypeOK, Stop, Advance

(* Every step keeps the variables in their types.                          *)
LEMMA TypeStep ==
    ASSUME TypeOK, [Next]_vars
    PROVE  TypeOK'
<1>1. ASSUME NEW r \in RecordId, NEW c \in Content,
             NEW e \in Vector \cup {NoVector}, InsertRow(r, c, e)
      PROVE  TypeOK'
  <2>1. PendingRow(r, 1) \in QueueRow
    BY RowFacts
  <2>2. [content |-> c, cv |-> 1, embedding |-> e] \in RecordRow
    BY DEF RecordRow
  <2>3. queue' \in [QueueId -> QueueRow \cup {NoRow}]
    BY <1>1, <2>1 DEF TypeOK, InsertRow, Enqueue
  <2>4. nextId' \in 1..(MaxQueueId + 1)
    BY <1>1, Assumptions DEF TypeOK, InsertRow, Enqueue, QueueId
  <2> QED
    BY <1>1, <2>2, <2>3, <2>4 DEF TypeOK, InsertRow
<1>2. ASSUME NEW r \in RecordId, Insert(r) PROVE TypeOK'
  BY <1>1, <1>2 DEF Insert, Vector
<1>3. ASSUME NEW r \in RecordId, NEW s \in RecordId, Copy(r, s)
      PROVE TypeOK'
  <2>1. record[r] \in RecordRow
    BY <1>3 DEF Copy, Exists, TypeOK
  <2>2. record[r].content \in Content
        /\ record[r].embedding \in Vector \cup {NoVector}
    BY <2>1 DEF RecordRow
  <2> QED
    BY <1>1, <1>3, <2>2 DEF Copy
<1>4. ASSUME NEW r \in RecordId, Update(r) PROVE TypeOK'
  <2>1. record[r] \in RecordRow
    BY <1>4 DEF Update, Exists, TypeOK
  <2>2. record[r].embedding \in Vector \cup {NoVector}
    BY <2>1 DEF RecordRow
  <2>3. PICK c \in Content,
             e \in CallerVector \cup {NoVector, record[r].embedding} :
          LET row == RecordIntegrity(record[r], c, e)
          IN  /\ record' = [record EXCEPT ![r] = row]
              /\ Enqueue(r, row.cv,
                     row.embedding = NoVector /\ row.cv # record[r].cv)
    BY <1>4 DEF Update
  <2> DEFINE row == RecordIntegrity(record[r], c, e)
  <2>4. e \in Vector \cup {NoVector}
    BY <2>2 DEF Vector
  <2>5. row \in RecordRow
    BY <2>1, <2>4, IntegrityFacts
  <2>6. row.cv \in Nat
    BY <2>5 DEF RecordRow
  <2>7. PendingRow(r, row.cv) \in QueueRow
    BY <2>6, RowFacts
  <2> HIDE DEF row
  <2>8. record' = [record EXCEPT ![r] = row]
        /\ Enqueue(r, row.cv, row.embedding = NoVector
                                /\ row.cv # record[r].cv)
    BY <2>3 DEF row
  <2>9. queue' \in [QueueId -> QueueRow \cup {NoRow}]
    BY <2>7, <2>8 DEF TypeOK, Enqueue
  <2>10. nextId' \in 1..(MaxQueueId + 1)
    BY <2>8, Assumptions DEF TypeOK, Enqueue, QueueId
  <2> QED
    BY <1>4, <2>5, <2>8, <2>9, <2>10 DEF TypeOK, Update
<1>5. ASSUME NEW r \in RecordId, Delete(r) PROVE TypeOK'
  BY <1>5 DEF TypeOK, Delete
<1>6. ASSUME NEW ids \in SUBSET QueueId, Retry(ids) PROVE TypeOK'
  <2>1. ASSUME NEW q \in QueueId, Retryable(q)
        PROVE  PendingRow(queue[q].rid, queue[q].cv) \in QueueRow
    <3>1. queue[q] \in QueueRow
      BY <2>1 DEF TypeOK, Retryable, Queued
    <3>2. queue[q].rid \in RecordId /\ queue[q].cv \in Nat
      BY <3>1 DEF QueueRow
    <3> QED
      BY <3>2, RowFacts
  <2> QED
    BY <1>6, <2>1 DEF TypeOK, Retry
<1>7. ASSUME NEW old \in SUBSET QueueId, Prune(old) PROVE TypeOK'
  <2>1. \A q \in old : queue[q].rid \in RecordId /\ queue[q].cv \in Nat
    BY <1>7 DEF TypeOK, Prune, Queued, QueueRow
  <2>2. pruned' \in SUBSET (RecordId \X Nat)
    BY <1>7, <2>1 DEF TypeOK, Prune
  <2>3. queue' \in [QueueId -> QueueRow \cup {NoRow}]
    BY <1>7 DEF TypeOK, Prune
  <2> QED
    BY <1>7, <2>2, <2>3 DEF TypeOK, Prune
<1>8. ASSUME NEW q \in QueueId, LeaseLapse(q) PROVE TypeOK'
  BY <1>8 DEF TypeOK, LeaseLapse, Active, Queued, QueueRow
<1>9. ASSUME NEW w \in Worker, Sweep(w) PROVE TypeOK'
  <2>1. \A q \in QueueId : Exhausted(w, q) =>
            [queue[q] EXCEPT !.outcome = "failed"] \in QueueRow
    BY DEF TypeOK, Exhausted, Visible, Active, Queued, QueueRow, Outcome
  <2> QED
    BY <1>9, <2>1 DEF TypeOK, Sweep
<1>10. ASSUME NEW w \in Worker, NEW taken \in SUBSET QueueId,
              ClaimBatch(w, taken)
       PROVE  TypeOK'
  <2>1. ASSUME NEW q \in taken PROVE queue[q] \in QueueRow
    BY <1>10 DEF TypeOK, ClaimBatch, Candidate, Visible, Active, Queued
  <2>2. ASSUME NEW q \in taken PROVE ClaimRow(q) \in QueueRow
    BY <2>1, ClaimFacts
  <2>3. ASSUME NEW q \in taken, Current(q)
        PROVE [q |-> q, rid |-> queue[q].rid, cv |-> queue[q].cv,
               content |-> record[queue[q].rid].content] \in Claim
    <3>1. queue[q].rid \in RecordId /\ queue[q].cv \in Nat
      BY <2>1 DEF QueueRow
    <3>2. record[queue[q].rid].content \in Content
      BY <2>3, <3>1 DEF TypeOK, Current, Exists, RecordRow
    <3> QED
      BY <3>1, <3>2 DEF Claim
  <2>4. queue' \in [QueueId -> QueueRow \cup {NoRow}]
    BY <1>10, <2>2 DEF TypeOK, ClaimBatch
  <2>5. batch' \in [Worker -> SUBSET Claim]
    BY <1>10, <2>3 DEF TypeOK, ClaimBatch
  <2> QED
    BY <1>10, <2>4, <2>5 DEF TypeOK, ClaimBatch
<1>11. ASSUME NEW w \in Worker, ProviderAnswers(w) PROVE TypeOK'
  BY <1>11 DEF TypeOK, ProviderAnswers
<1>12. ASSUME NEW w \in Worker, ProviderRejects(w) PROVE TypeOK'
  BY <1>12 DEF TypeOK, ProviderRejects
<1>13. ASSUME NEW w \in Worker, ProviderFails(w) PROVE TypeOK'
  BY <1>13, DrainerTypes DEF TypeOK, ProviderFails
<1>14. ASSUME NEW w \in Worker, Release(w) PROVE TypeOK'
  <2>1. PICK k \in batch[w] :
          /\ queue' = IF Active(k.q)
                      THEN [queue EXCEPT ![k.q] =
                               ReleaseRow(queue[k.q],
                                   IF pc[w] = "free" THEN "past"
                                                     ELSE "future")]
                      ELSE queue
          /\ Advance(w, k)
    BY <1>14 DEF Release
  <2>2. k.q \in QueueId
    BY DEF TypeOK, Claim
  <2>3. ASSUME Active(k.q)
        PROVE  ReleaseRow(queue[k.q],
                   IF pc[w] = "free" THEN "past" ELSE "future") \in QueueRow
    <3>1. queue[k.q] \in QueueRow
      BY <2>2, <2>3 DEF TypeOK, Active, Queued
    <3> QED
      BY <3>1, ReleaseFacts
  <2>4. queue' \in [QueueId -> QueueRow \cup {NoRow}]
    BY <2>1, <2>2, <2>3 DEF TypeOK
  <2> QED
    BY <1>14, <2>1, <2>4, DrainerTypes DEF TypeOK, Release
<1>15. ASSUME NEW w \in Worker, Complete(w) PROVE TypeOK'
  <2>1. PICK k \in batch[w] : Finish(k) /\ Advance(w, k)
    BY <1>15 DEF Complete
  <2>2. k.q \in QueueId /\ k.content \in Content
    BY DEF TypeOK, Claim
  <2>3. CASE ~Active(k.q)
    BY <1>15, <2>1, <2>3, DrainerTypes DEF TypeOK, Finish, Complete
  <2>4. CASE Active(k.q)
    <3>1. queue[k.q] \in QueueRow
      BY <2>2, <2>4 DEF TypeOK, Active, Queued
    <3>2. queue' \in [QueueId -> QueueRow \cup {NoRow}]
      BY <2>1, <2>2, <2>4, <3>1 DEF TypeOK, Finish, QueueRow, Outcome
    <3>3. record' \in [RecordId -> RecordRow \cup {NoRecord}]
      <4> DEFINE r == queue[k.q].rid
      <4>1. r \in RecordId
        BY <3>1 DEF QueueRow
      <4>2. CASE Current(k.q)
        <5>1. record[r] \in RecordRow
          BY <4>1, <4>2 DEF TypeOK, Current, Exists
        <5>2. record[r].content \in Content
          BY <5>1 DEF RecordRow
        <5>3. RecordIntegrity(record[r], record[r].content,
                              ModelVector(k.content)) \in RecordRow
          BY <2>2, <5>1, <5>2, IntegrityFacts, ModelVectorIsVector
        <5> QED
          BY <2>1, <2>4, <4>1, <4>2, <5>3 DEF TypeOK, Finish
      <4>3. CASE ~Current(k.q)
        BY <2>1, <2>4, <4>3 DEF TypeOK, Finish
      <4> QED
        BY <4>2, <4>3
    <3> QED
      BY <1>15, <2>1, <3>2, <3>3, DrainerTypes DEF TypeOK, Complete
  <2> QED
    BY <2>3, <2>4
<1>16. ASSUME NEW w \in Worker, WriteBackFails(w) PROVE TypeOK'
  BY <1>16, DrainerTypes DEF TypeOK, WriteBackFails
<1>17. ASSUME NEW w \in Worker, Abandon(w) PROVE TypeOK'
  BY <1>17, DrainerTypes DEF TypeOK, Abandon
<1>18. CASE UNCHANGED vars
  BY <1>18 DEF TypeOK, vars
<1> QED
  BY <1>2, <1>3, <1>4, <1>5, <1>6, <1>7, <1>8, <1>9, <1>10, <1>11, <1>12,
     <1>13, <1>14, <1>15, <1>16, <1>17, <1>18
  DEF Next, WriterNext, QueueNext, DrainerNext

(* The tables and the drainers hold values of their types in every state.  *)
THEOREM TypeCorrect == Spec => []TypeOK
<1>1. Init => TypeOK
  BY Assumptions DEF Init, TypeOK
<1>2. TypeOK /\ [Next]_vars => TypeOK'
  BY TypeStep
<1> QED
  BY <1>1, <1>2, PTL DEF Spec

-----------------------------------------------------------------------------
(* The inductive invariant behind the fence.  Ids at or above the sequence *)
(* are unused and claims only hold ids below it: an id is never given out  *)
(* twice, so a claim whose row is gone can never meet another row.         *)
FreshIds == \A q \in QueueId : q >= nextId => ~Queued(q)

ClaimedIdsAreSpent == \A w \in Worker : \A k \in batch[w] : k.q < nextId

Inv == /\ TypeOK
       /\ FreshIds
       /\ ClaimedIdsAreSpent
       /\ FenceIsSound
       /\ ClaimsAreFaithful

(* The rows of the next state are rows of this state, for the same work.   *)
RowsKept ==
    \A q \in QueueId : Queued(q)' =>
        /\ Queued(q)
        /\ queue'[q].rid = queue[q].rid
        /\ queue'[q].cv = queue[q].cv

BatchesShrink == \A w \in Worker : batch'[w] \subseteq batch[w]

(* A statement that leaves records alone and adds no row preserves Inv.    *)
LEMMA QueueStep ==
    ASSUME Inv, TypeOK', RowsKept, BatchesShrink,
           record' = record, nextId' = nextId
    PROVE  Inv'
<1>1. FreshIds'
  BY DEF Inv, FreshIds, RowsKept
<1>2. ClaimedIdsAreSpent'
  BY DEF Inv, ClaimedIdsAreSpent, BatchesShrink
<1>3. FenceIsSound'
  BY DEF Inv, FenceIsSound, RowsKept, Exists, Current
<1>4. ClaimsAreFaithful'
  <2> SUFFICES ASSUME NEW w \in Worker, NEW k \in batch'[w], Queued(k.q)'
               PROVE  /\ queue'[k.q].rid = k.rid /\ queue'[k.q].cv = k.cv
                      /\ Current(k.q)' => record'[k.rid].content = k.content
    BY DEF ClaimsAreFaithful
  <2>1. k \in batch[w] /\ k.q \in QueueId
    BY DEF BatchesShrink, Inv, TypeOK, Claim
  <2> QED
    BY <2>1 DEF Inv, ClaimsAreFaithful, RowsKept, Current, Exists
<1> QED
  BY <1>1, <1>2, <1>3, <1>4 DEF Inv

(* The rows after a write of record r that leaves it as row: the old ones, *)
(* and at most one new one, for row's version and only if row lacks a      *)
(* vector.                                                                 *)
RowsAfterWrite(r, row) ==
    /\ nextId' \in {nextId, nextId + 1}
    /\ \A q \in QueueId : Queued(q)' =>
          \/ /\ Queued(q)
             /\ queue'[q].rid = queue[q].rid
             /\ queue'[q].cv = queue[q].cv
          \/ /\ q = nextId
             /\ nextId' = nextId + 1
             /\ queue'[q].rid = r
             /\ queue'[q].cv = row.cv
             /\ row.embedding = NoVector

(* A write that moves a record forward - a new record, or an existing one  *)
(* whose content_version advances unless nothing changed - preserves Inv.  *)
LEMMA WriteStep ==
    ASSUME Inv, TypeOK', BatchesShrink,
           NEW r \in RecordId, NEW row \in RecordRow,
           record' = [record EXCEPT ![r] = row],
           Exists(r) => /\ row.cv >= record[r].cv
                        /\ row.cv = record[r].cv => row = record[r],
           RowsAfterWrite(r, row)
    PROVE  Inv'
<1>0. /\ record \in [RecordId -> RecordRow \cup {NoRecord}]
      /\ nextId \in Nat
      /\ row.cv \in Nat
      /\ row # NoRecord
  BY Assumptions DEF Inv, TypeOK, RecordRow
<1>1. FreshIds'
  BY <1>0 DEF Inv, FreshIds, RowsAfterWrite, QueueId
<1>2. ClaimedIdsAreSpent'
  <2> SUFFICES ASSUME NEW w \in Worker, NEW k \in batch'[w]
               PROVE  k.q < nextId'
    BY DEF ClaimedIdsAreSpent
  <2>1. k.q < nextId /\ k.q \in QueueId
    BY DEF Inv, ClaimedIdsAreSpent, BatchesShrink, TypeOK, Claim
  <2> QED
    BY <1>0, <2>1, Assumptions DEF RowsAfterWrite, QueueId
<1>3. ASSUME NEW q \in QueueId, Queued(q), Queued(q)',
             queue'[q].rid = queue[q].rid, queue'[q].cv = queue[q].cv
      PROVE  /\ Exists(queue[q].rid)'
             /\ queue[q].cv <= record'[queue[q].rid].cv
             /\ Current(q)' => /\ Current(q)
                               /\ record'[queue[q].rid] = record[queue[q].rid]
  <2> DEFINE s == queue[q].rid
  <2>1. /\ s \in RecordId /\ queue[q].cv \in Nat
        /\ Exists(s) /\ queue[q].cv <= record[s].cv
    BY <1>3 DEF Inv, TypeOK, FenceIsSound, Queued, QueueRow
  <2>2. CASE s = r
    <3>1. record'[s] = row /\ record[s] \in RecordRow /\ record[s].cv \in Nat
      BY <1>0, <2>1, <2>2 DEF Exists, RecordRow
    <3>2. row.cv >= record[s].cv /\ (row.cv = record[s].cv => row = record[s])
      BY <2>1, <2>2
    <3> QED
      BY <1>0, <1>3, <2>1, <3>1, <3>2 DEF Exists, Current
  <2>3. CASE s # r
    BY <1>0, <1>3, <2>1, <2>3 DEF Exists, Current
  <2> QED
    BY <2>2, <2>3
<1>4. FenceIsSound'
  <2> SUFFICES ASSUME NEW q \in QueueId, Queued(q)'
               PROVE  /\ record'[queue'[q].rid] # NoRecord
                      /\ queue'[q].cv <= record'[queue'[q].rid].cv
                      /\ record'[queue'[q].rid].cv = queue'[q].cv =>
                            record'[queue'[q].rid].embedding = NoVector
    BY DEF FenceIsSound, Exists, Current
  <2>1. CASE /\ Queued(q)
             /\ queue'[q].rid = queue[q].rid
             /\ queue'[q].cv = queue[q].cv
    BY <1>3, <2>1 DEF Inv, FenceIsSound, Exists, Current
  <2>2. CASE /\ queue'[q].rid = r
             /\ queue'[q].cv = row.cv
             /\ row.embedding = NoVector
    BY <1>0, <2>2 DEF Exists
  <2> QED
    BY <2>1, <2>2 DEF RowsAfterWrite
<1>5. ClaimsAreFaithful'
  <2> SUFFICES ASSUME NEW w \in Worker, NEW k \in batch'[w], Queued(k.q)'
               PROVE  /\ queue'[k.q].rid = k.rid /\ queue'[k.q].cv = k.cv
                      /\ Current(k.q)' => record'[k.rid].content = k.content
    BY DEF ClaimsAreFaithful
  <2>1. k \in batch[w] /\ k.q \in QueueId /\ k.q < nextId
    BY DEF BatchesShrink, Inv, TypeOK, Claim, ClaimedIdsAreSpent
  <2>2. k.q # nextId
    BY <1>0, <2>1 DEF QueueId
  <2>3. /\ Queued(k.q)
        /\ queue'[k.q].rid = queue[k.q].rid
        /\ queue'[k.q].cv = queue[k.q].cv
    BY <2>1, <2>2 DEF RowsAfterWrite
  <2>4. /\ queue[k.q].rid = k.rid /\ queue[k.q].cv = k.cv
        /\ Current(k.q) => record[k.rid].content = k.content
    BY <2>1, <2>3 DEF Inv, ClaimsAreFaithful
  <2> QED
    BY <1>3, <2>1, <2>3, <2>4
<1> QED
  BY <1>1, <1>2, <1>4, <1>5 DEF Inv

LEMMA InvInit == Init => Inv
<1> SUFFICES ASSUME Init PROVE Inv
  OBVIOUS
<1>1. TypeOK
  BY Assumptions DEF Init, TypeOK
<1>2. \A q \in QueueId : ~Queued(q)
  BY DEF Init, Queued
<1> QED
  BY <1>1, <1>2 DEF Inv, FreshIds, ClaimedIdsAreSpent, FenceIsSound,
                   ClaimsAreFaithful, Init

(* Inserting a record, new or copied, is a write that moves it forward.    *)
LEMMA InsertStep ==
    ASSUME Inv, TypeOK', NEW r \in RecordId, NEW c \in Content,
           NEW e \in Vector \cup {NoVector}, InsertRow(r, c, e)
    PROVE  Inv'
<1> DEFINE row == [content |-> c, cv |-> 1, embedding |-> e]
<1>1. row \in RecordRow /\ row.cv = 1 /\ row.embedding = e
  BY DEF RecordRow
<1>2. record' = [record EXCEPT ![r] = row] /\ ~Exists(r)
  BY DEF InsertRow
<1>3. Enqueue(r, row.cv, row.embedding = NoVector)
  BY <1>1 DEF InsertRow
<1> HIDE DEF row
<1>4. RowsAfterWrite(r, row)
  BY <1>1, <1>3 DEF Enqueue, RowsAfterWrite, PendingRow, Queued, Inv, TypeOK
<1>5. BatchesShrink
  BY DEF BatchesShrink, InsertRow
<1> QED
  BY <1>1, <1>2, <1>4, <1>5, WriteStep

(* An update through the triggers is a write that moves the record forward.*)
LEMMA UpdateStep ==
    ASSUME Inv, TypeOK', NEW r \in RecordId, Update(r)
    PROVE  Inv'
<1>1. /\ record[r] \in RecordRow
      /\ record[r].embedding \in Vector \cup {NoVector}
  BY DEF Inv, TypeOK, Update, Exists, RecordRow
<1>2. PICK c \in Content,
           e \in CallerVector \cup {NoVector, record[r].embedding} :
        LET row == RecordIntegrity(record[r], c, e)
        IN  /\ record' = [record EXCEPT ![r] = row]
            /\ Enqueue(r, row.cv,
                   row.embedding = NoVector /\ row.cv # record[r].cv)
  BY DEF Update
<1>3. e \in Vector \cup {NoVector}
  BY <1>1 DEF Vector
<1> DEFINE row == RecordIntegrity(record[r], c, e)
<1>4. /\ row \in RecordRow
      /\ row.cv >= record[r].cv
      /\ row.cv = record[r].cv => row = record[r]
  BY <1>1, <1>3, IntegrityFacts
<1>5. /\ record' = [record EXCEPT ![r] = row]
      /\ Enqueue(r, row.cv, row.embedding = NoVector
                              /\ row.cv # record[r].cv)
  BY <1>2
<1> HIDE DEF row
<1>6. RowsAfterWrite(r, row)
  BY <1>5 DEF Enqueue, RowsAfterWrite, PendingRow, Queued, Inv, TypeOK
<1>7. BatchesShrink
  BY DEF BatchesShrink, Update
<1> QED
  BY <1>4, <1>5, <1>6, <1>7, WriteStep

(* Deleting a record takes its queue rows along: every claim on it loses   *)
(* its row.                                                                *)
LEMMA DeleteStep ==
    ASSUME Inv, TypeOK', NEW r \in RecordId, Delete(r)
    PROVE  Inv'
<1>1. RowsKept /\ \A q \in QueueId : Queued(q)' => queue[q].rid # r
  BY DEF Delete, RowsKept, Queued
<1>2. /\ record' = [record EXCEPT ![r] = NoRecord]
      /\ nextId' = nextId /\ batch' = batch
      /\ record \in [RecordId -> RecordRow \cup {NoRecord}]
  BY DEF Delete, Inv, TypeOK
<1>3. FreshIds'
  BY <1>1, <1>2 DEF Inv, FreshIds, RowsKept
<1>4. ClaimedIdsAreSpent'
  BY <1>2 DEF Inv, ClaimedIdsAreSpent
<1>5. ASSUME NEW q \in QueueId, Queued(q)'
      PROVE  /\ Queued(q)
             /\ queue'[q].rid = queue[q].rid /\ queue'[q].cv = queue[q].cv
             /\ queue[q].rid \in RecordId
             /\ record'[queue[q].rid] = record[queue[q].rid]
  BY <1>1, <1>2, <1>5 DEF RowsKept, Inv, TypeOK, Queued, QueueRow
<1>6. FenceIsSound'
  BY <1>5 DEF Inv, FenceIsSound, Exists, Current
<1>7. ClaimsAreFaithful'
  <2> SUFFICES ASSUME NEW w \in Worker, NEW k \in batch'[w], Queued(k.q)'
               PROVE  /\ queue'[k.q].rid = k.rid /\ queue'[k.q].cv = k.cv
                      /\ Current(k.q)' => record'[k.rid].content = k.content
    BY DEF ClaimsAreFaithful
  <2>1. k \in batch[w] /\ k.q \in QueueId
    BY <1>2 DEF Inv, TypeOK, Claim
  <2> QED
    BY <1>5, <2>1 DEF Inv, ClaimsAreFaithful, Current, Exists
<1> QED
  BY <1>3, <1>4, <1>6, <1>7 DEF Inv

(* A claim copies the work of current rows into an idle drainer's batch.   *)
LEMMA ClaimStep ==
    ASSUME Inv, TypeOK', NEW w \in Worker, NEW taken \in SUBSET QueueId,
           ClaimBatch(w, taken)
    PROVE  Inv'
<1>1. /\ record' = record /\ nextId' = nextId
      /\ \A q \in taken : Queued(q)
  BY DEF ClaimBatch, Candidate, Visible, Active
<1>2. RowsKept
  <2> SUFFICES ASSUME NEW q \in QueueId, Queued(q)'
               PROVE  /\ Queued(q)
                      /\ queue'[q].rid = queue[q].rid
                      /\ queue'[q].cv = queue[q].cv
    BY DEF RowsKept
  <2>1. CASE q \in taken
    <3>1. queue'[q] = ClaimRow(q) /\ queue[q] \in QueueRow
      BY <1>1, <2>1 DEF ClaimBatch, Inv, TypeOK, Queued
    <3> QED
      BY <1>1, <2>1, <3>1, ClaimFacts
  <2>2. CASE q \notin taken
    BY <2>2 DEF ClaimBatch, Queued
  <2> QED
    BY <2>1, <2>2
<1>3. FreshIds'
  BY <1>1, <1>2 DEF Inv, FreshIds, RowsKept
<1>4. FenceIsSound'
  BY <1>1, <1>2 DEF Inv, FenceIsSound, RowsKept, Exists, Current
<1>5. ASSUME NEW v \in Worker, NEW k \in batch'[v], k \notin batch[v]
      PROVE  \E q \in taken :
                /\ Current(q)
                /\ k = [q |-> q, rid |-> queue[q].rid, cv |-> queue[q].cv,
                        content |-> record[queue[q].rid].content]
  BY <1>5 DEF ClaimBatch, Inv, TypeOK
<1>6. ClaimedIdsAreSpent'
  <2> SUFFICES ASSUME NEW v \in Worker, NEW k \in batch'[v]
               PROVE  k.q < nextId
    BY <1>1 DEF ClaimedIdsAreSpent
  <2>1. CASE k \in batch[v]
    BY <2>1 DEF Inv, ClaimedIdsAreSpent
  <2>2. CASE k \notin batch[v]
    <3>1. PICK q \in taken : k.q = q
      BY <1>5, <2>2
    <3>2. Queued(q) /\ q \in QueueId
      BY <1>1
    <3> QED
      BY <3>1, <3>2, Assumptions DEF Inv, FreshIds, TypeOK, QueueId
  <2> QED
    BY <2>1, <2>2
<1>7. ClaimsAreFaithful'
  <2> SUFFICES ASSUME NEW v \in Worker, NEW k \in batch'[v], Queued(k.q)'
               PROVE  /\ queue'[k.q].rid = k.rid /\ queue'[k.q].cv = k.cv
                      /\ Current(k.q)' => record'[k.rid].content = k.content
    BY DEF ClaimsAreFaithful
  <2>1. CASE k \in batch[v]
    <3>1. k.q \in QueueId
      BY <2>1 DEF Inv, TypeOK, Claim
    <3> QED
      BY <1>1, <1>2, <2>1, <3>1
      DEF Inv, ClaimsAreFaithful, RowsKept, Current, Exists
  <2>2. CASE k \notin batch[v]
    <3>1. PICK q \in taken :
            /\ Current(q)
            /\ k = [q |-> q, rid |-> queue[q].rid, cv |-> queue[q].cv,
                    content |-> record[queue[q].rid].content]
      BY <1>5, <2>2
    <3> QED
      BY <1>1, <1>2, <3>1 DEF RowsKept
  <2> QED
    BY <2>1, <2>2
<1> QED
  BY <1>3, <1>4, <1>6, <1>7 DEF Inv

(* A write-back completes a record that has no vector, or cancels a row,   *)
(* or does nothing.                                                        *)
LEMMA CompleteStep ==
    ASSUME Inv, TypeOK', NEW w \in Worker, Complete(w)
    PROVE  Inv'
<1>1. PICK k \in batch[w] : Finish(k) /\ Advance(w, k)
  BY DEF Complete
<1>2. BatchesShrink /\ nextId' = nextId
  BY <1>1 DEF Complete, Advance, BatchesShrink, Inv, TypeOK
<1>3. k.q \in QueueId /\ k.content \in Content
  BY DEF Inv, TypeOK, Claim
<1>4. CASE ~Active(k.q)
  <2>1. record' = record /\ queue' = queue
    BY <1>1, <1>4 DEF Finish
  <2>2. RowsKept
    BY <2>1 DEF RowsKept, Queued
  <2> QED
    BY <1>2, <2>1, <2>2, QueueStep
<1>5. CASE Active(k.q)
  <2> DEFINE r == queue[k.q].rid
             row == RecordIntegrity(record[r], record[r].content,
                                    ModelVector(k.content))
  <2>1. queue[k.q] \in QueueRow /\ r \in RecordId
    BY <1>3, <1>5 DEF Inv, TypeOK, Active, Queued, QueueRow
  <2>2. RowsKept
    <3>1. \E o \in Outcome : queue' = [queue EXCEPT ![k.q].outcome = o]
      BY <1>1, <1>5 DEF Finish, Outcome
    <3>2. PICK o \in Outcome : queue' = [queue EXCEPT ![k.q].outcome = o]
      BY <3>1
    <3>3. queue \in [QueueId -> QueueRow \cup {NoRow}] /\ k.q \in QueueId
      BY <1>3, <1>5, <2>1 DEF Inv, TypeOK
    <3>4. /\ queue'[k.q].rid = queue[k.q].rid
          /\ queue'[k.q].cv = queue[k.q].cv
      BY <2>1, <3>2, <3>3 DEF QueueRow
    <3>5. \A q \in QueueId \ {k.q} : queue'[q] = queue[q]
      BY <3>2, <3>3
    <3>6. \A q \in QueueId : /\ queue'[q].rid = queue[q].rid
                             /\ queue'[q].cv = queue[q].cv
      BY <3>4, <3>5
    <3>7. Queued(k.q)
      BY <1>5 DEF Active
    <3>8. \A q \in QueueId : Queued(q)' => Queued(q)
      BY <3>5, <3>7, Zenon DEF Queued
    <3> QED
      BY <3>6, <3>8, Zenon DEF RowsKept
  <2>3. CASE ~Current(k.q)
    BY <1>1, <1>2, <1>5, <2>2, <2>3, QueueStep DEF Finish
  <2>4. CASE Current(k.q)
    <3>1. record[r] \in RecordRow /\ record[r].content \in Content
      BY <2>1, <2>4 DEF Inv, TypeOK, Current, Exists, RecordRow
    <3>2. /\ row \in RecordRow
          /\ row.cv >= record[r].cv
          /\ row.cv = record[r].cv => row = record[r]
      <4>1. ModelVector(k.content) \in Vector \cup {NoVector}
        BY <1>3, ModelVectorIsVector
      <4> QED
        BY <3>1, <4>1, IntegrityFacts
    <3>3. record' = [record EXCEPT ![r] = row]
      BY <1>1, <1>5, <2>4 DEF Finish
    <3> HIDE DEF row
    <3>4. RowsAfterWrite(r, row)
      BY <1>2, <2>2 DEF RowsAfterWrite, RowsKept
    <3> QED
      BY <1>2, <2>1, <3>2, <3>3, <3>4, WriteStep
  <2> QED
    BY <2>3, <2>4
<1> QED
  BY <1>4, <1>5

(* Every step preserves the invariant.                                     *)
LEMMA InvStep ==
    ASSUME Inv, [Next]_vars
    PROVE  Inv'
<1>1. TypeOK'
  BY TypeStep DEF Inv
<1>2. ASSUME NEW r \in RecordId, Insert(r) PROVE Inv'
  <2>1. PICK c \in Content, e \in CallerVector \cup {NoVector} :
            InsertRow(r, c, e)
    BY <1>2 DEF Insert
  <2> QED
    BY <1>1, <2>1, InsertStep DEF Vector
<1>3. ASSUME NEW r \in RecordId, NEW s \in RecordId, Copy(r, s) PROVE Inv'
  <2>1. record[r].content \in Content
        /\ record[r].embedding \in Vector \cup {NoVector}
    BY <1>3 DEF Copy, Exists, Inv, TypeOK, RecordRow
  <2> QED
    BY <1>1, <1>3, <2>1, InsertStep DEF Copy
<1>4. ASSUME NEW r \in RecordId, Update(r) PROVE Inv'
  BY <1>1, <1>4, UpdateStep
<1>5. ASSUME NEW r \in RecordId, Delete(r) PROVE Inv'
  BY <1>1, <1>5, DeleteStep
<1>6. ASSUME NEW ids \in SUBSET QueueId, Retry(ids) PROVE Inv'
  <2>1. RowsKept
    BY <1>6 DEF Retry, RowsKept, Queued, Retryable, PendingRow
  <2>2. BatchesShrink
    BY <1>6 DEF Retry, BatchesShrink
  <2> QED
    BY <1>1, <1>6, <2>1, <2>2, QueueStep DEF Retry
<1>7. ASSUME NEW old \in SUBSET QueueId, Prune(old) PROVE Inv'
  <2>1. RowsKept /\ BatchesShrink
    BY <1>7 DEF Prune, RowsKept, Queued, BatchesShrink
  <2> QED
    BY <1>1, <1>7, <2>1, QueueStep DEF Prune
<1>8. ASSUME NEW q \in QueueId, LeaseLapse(q) PROVE Inv'
  <2>1. queue[q] \in QueueRow
    BY <1>8 DEF LeaseLapse, Active, Queued, Inv, TypeOK
  <2>2. RowsKept /\ BatchesShrink
    BY <1>8, <2>1 DEF LeaseLapse, Active, RowsKept, Queued, BatchesShrink,
                      QueueRow, Inv, TypeOK
  <2> QED
    BY <1>1, <1>8, <2>2, QueueStep DEF LeaseLapse
<1>9. ASSUME NEW w \in Worker, Sweep(w) PROVE Inv'
  <2>1. ASSUME NEW q \in QueueId, Queued(q)'
        PROVE  Queued(q) /\ queue'[q].rid = queue[q].rid
                         /\ queue'[q].cv = queue[q].cv
    <3>1. CASE Exhausted(w, q)
      <4>1. /\ queue'[q] = [queue[q] EXCEPT !.outcome = "failed"]
            /\ Queued(q) /\ queue[q] \in QueueRow
        BY <1>9, <3>1 DEF Sweep, Exhausted, Visible, Active, Queued,
                          Inv, TypeOK
      <4> QED
        BY <4>1 DEF QueueRow
    <3>2. CASE ~Exhausted(w, q)
      BY <1>9, <2>1, <3>2 DEF Sweep, Queued
    <3> QED
      BY <3>1, <3>2
  <2>2. RowsKept
    BY <2>1 DEF RowsKept
  <2>3. BatchesShrink
    BY <1>9 DEF Sweep, BatchesShrink
  <2> QED
    BY <1>1, <1>9, <2>2, <2>3, QueueStep DEF Sweep
<1>10. ASSUME NEW w \in Worker, NEW taken \in SUBSET QueueId,
              ClaimBatch(w, taken)
       PROVE  Inv'
  BY <1>1, <1>10, ClaimStep
<1>11. ASSUME NEW w \in Worker,
              \/ ProviderAnswers(w) \/ ProviderRejects(w) \/ ProviderFails(w)
              \/ WriteBackFails(w) \/ Abandon(w)
       PROVE  Inv'
  <2>1. record' = record /\ queue' = queue /\ nextId' = nextId
    BY <1>11 DEF ProviderAnswers, ProviderRejects, ProviderFails,
                 WriteBackFails, Abandon
  <2>2. RowsKept
    BY <2>1 DEF RowsKept, Queued
  <2>3. BatchesShrink
    BY <1>11 DEF ProviderAnswers, ProviderRejects, ProviderFails,
                 WriteBackFails, Abandon, Stop, Advance, BatchesShrink,
                 Inv, TypeOK
  <2> QED
    BY <1>1, <2>1, <2>2, <2>3, QueueStep
<1>12. ASSUME NEW w \in Worker, Release(w) PROVE Inv'
  <2>1. PICK k \in batch[w], at \in {"past", "future"} :
            /\ queue' = IF Active(k.q)
                        THEN [queue EXCEPT ![k.q] =
                                 ReleaseRow(queue[k.q], at)]
                        ELSE queue
            /\ Advance(w, k)
    BY <1>12 DEF Release
  <2>2. k.q \in QueueId
    BY DEF Inv, TypeOK, Claim
  <2>3. RowsKept
    <3>1. CASE Active(k.q)
      <4>1. queue[k.q] \in QueueRow /\ Queued(k.q)
        BY <2>2, <3>1 DEF Active, Queued, Inv, TypeOK
      <4>2. /\ ReleaseRow(queue[k.q], at).rid = queue[k.q].rid
            /\ ReleaseRow(queue[k.q], at).cv = queue[k.q].cv
        BY <4>1, ReleaseFacts
      <4> QED
        BY <2>1, <2>2, <3>1, <4>1, <4>2 DEF RowsKept, Queued, Inv, TypeOK
    <3>2. CASE ~Active(k.q)
      BY <2>1, <3>2 DEF RowsKept, Queued
    <3> QED
      BY <3>1, <3>2
  <2>4. BatchesShrink
    BY <2>1 DEF Advance, BatchesShrink, Inv, TypeOK
  <2> QED
    BY <1>1, <1>12, <2>3, <2>4, QueueStep DEF Release
<1>13. ASSUME NEW w \in Worker, Complete(w) PROVE Inv'
  BY <1>1, <1>13, CompleteStep
<1>14. CASE UNCHANGED vars
  <2>1. RowsKept /\ BatchesShrink
    BY <1>14 DEF vars, RowsKept, Queued, BatchesShrink
  <2> QED
    BY <1>1, <1>14, <2>1, QueueStep DEF vars
<1> QED
  BY <1>2, <1>3, <1>4, <1>5, <1>6, <1>7, <1>8, <1>9, <1>10, <1>11, <1>12,
     <1>13, <1>14
  DEF Next, WriterNext, QueueNext, DrainerNext

LEMMA InvCorrect == Spec => []Inv
<1>1. Inv /\ [Next]_vars => Inv'
  BY InvStep
<1> QED
  BY <1>1, InvInit, PTL DEF Spec

(* The content_version fence is sound for any number of writers, drainers  *)
(* and rows: a queue row whose fence matches belongs to a record without a *)
(* vector, and no row is ahead of its record.                              *)
THEOREM FenceSafety == Spec => []FenceIsSound
<1>1. Inv => FenceIsSound
  BY DEF Inv
<1> QED
  BY <1>1, InvCorrect, PTL

(* What a drainer embedded is still the record's text whenever its         *)
(* write-back would be let through.                                        *)
THEOREM ClaimSafety == Spec => []ClaimsAreFaithful
<1>1. Inv => ClaimsAreFaithful
  BY DEF Inv
<1> QED
  BY <1>1, InvCorrect, PTL

-----------------------------------------------------------------------------
(* Refinement: every step of the pipeline is a step of the contract or     *)
(* leaves the record table, as the contract sees it, unchanged.            *)

LEMMA SlotOf ==
    ASSUME NEW r \in RecordId
    PROVE  /\ slots[r] = IF Exists(r)
                         THEN [content |-> record[r].content,
                               embedding |-> record[r].embedding]
                         ELSE NoRecord
           /\ TypeOK /\ Exists(r) => slots[r] # NoRecord
<1>1. slots[r] = IF Exists(r) THEN [content |-> record[r].content,
                                    embedding |-> record[r].embedding]
                 ELSE NoRecord
  BY DEF slots
<1>2. ASSUME TypeOK, Exists(r) PROVE slots[r] # NoRecord
  <2>1. record[r].content \in Content
        /\ record[r].embedding \in Vector \cup {NoVector}
    BY <1>2 DEF TypeOK, Exists, RecordRow
  <2> QED
    BY <1>1, <1>2, <2>1, Assumptions
<1> QED
  BY <1>1, <1>2

(* The contract's slots after a write of one record.                       *)
LEMMA SlotsAfterWrite ==
    ASSUME TypeOK, TypeOK', NEW r \in RecordId, NEW row,
           record' = [record EXCEPT ![r] = row], row # NoRecord
    PROVE  slots' = [slots EXCEPT ![r] = [content |-> row.content,
                                          embedding |-> row.embedding]]
  BY DEF slots, Exists, TypeOK

LEMMA StepImplements ==
    ASSUME Inv, Inv', [Next]_vars
    PROVE  [Contract!Next]_slots
<1> USE DEF Contract!Insert, Contract!Copy, Contract!Write, Contract!Delete,
            Contract!Embed
<1>0. TypeOK /\ TypeOK'
  BY DEF Inv
<1>1. ASSUME record' = record PROVE slots' = slots
  BY <1>1 DEF slots, Exists
<1>2. ASSUME NEW r \in RecordId, NEW c \in Content,
             NEW e \in Vector \cup {NoVector}, InsertRow(r, c, e)
      PROVE  /\ slots[r] = NoRecord
             /\ slots' = [slots EXCEPT ![r] = [content |-> c,
                                               embedding |-> e]]
  <2> DEFINE row == [content |-> c, cv |-> 1, embedding |-> e]
  <2>1. row \in RecordRow /\ row.content = c /\ row.embedding = e
    BY DEF RecordRow
  <2>2. record' = [record EXCEPT ![r] = row] /\ ~Exists(r)
    BY <1>2 DEF InsertRow
  <2> HIDE DEF row
  <2>3. row # NoRecord
    BY <2>1, Assumptions
  <2> QED
    BY <1>0, <2>1, <2>2, <2>3, SlotsAfterWrite, SlotOf
<1>3. ASSUME NEW r \in RecordId, Insert(r) PROVE Contract!Next
  <2>1. PICK c \in Content, e \in CallerVector \cup {NoVector} :
            InsertRow(r, c, e)
    BY <1>3 DEF Insert
  <2>2. e \in Vector \cup {NoVector}
    BY DEF Vector
  <2>3. Contract!Insert(r)
    BY <1>2, <2>1, <2>2
  <2> QED
    BY <2>3 DEF Contract!Next
<1>4. ASSUME NEW r \in RecordId, NEW s \in RecordId, Copy(r, s)
      PROVE  Contract!Next
  <2>1. record[r].content \in Content
        /\ record[r].embedding \in Vector \cup {NoVector}
    BY <1>0, <1>4 DEF Copy, Exists, TypeOK, RecordRow
  <2>2. slots[r] # NoRecord
        /\ slots[r] = [content |-> record[r].content,
                       embedding |-> record[r].embedding]
    BY <1>0, <1>4, SlotOf DEF Copy
  <2>3. Contract!Copy(r, s)
    BY <1>2, <1>4, <2>1, <2>2 DEF Copy
  <2> QED
    BY <2>3 DEF Contract!Next
<1>5. ASSUME NEW r \in RecordId, Update(r) PROVE Contract!Next
  <2>1. record[r] \in RecordRow /\ record[r].embedding \in Vector \cup {NoVector}
    BY <1>0, <1>5 DEF Update, Exists, TypeOK, RecordRow
  <2>2. PICK c \in Content,
             e \in CallerVector \cup {NoVector, record[r].embedding} :
            record' = [record EXCEPT ![r] = RecordIntegrity(record[r], c, e)]
    BY <1>5 DEF Update
  <2> DEFINE row == RecordIntegrity(record[r], c, e)
  <2>3. e \in Vector \cup {NoVector}
    BY <2>1 DEF Vector
  <2>4. /\ row \in RecordRow /\ row.content = c
        /\ row.embedding \in {e, NoVector}
        /\ c # record[r].content => row.embedding = NoVector
                                      \/ row.embedding # record[r].embedding
    BY <2>1, <2>3, IntegrityFacts
  <2>5. record' = [record EXCEPT ![r] = row]
    BY <2>2
  <2> HIDE DEF row
  <2>6. row # NoRecord
    BY <2>4, Assumptions
  <2>7. slots' = [slots EXCEPT ![r] = [content |-> c,
                                       embedding |-> row.embedding]]
    BY <1>0, <2>4, <2>5, <2>6, SlotsAfterWrite
  <2>8. slots[r] # NoRecord
        /\ slots[r].content = record[r].content
        /\ slots[r].embedding = record[r].embedding
    <3>1. Exists(r)
      BY <1>5 DEF Update
    <3>2. slots[r] = [content |-> record[r].content,
                      embedding |-> record[r].embedding]
      BY <3>1, SlotOf
    <3> QED
      BY <1>0, <3>1, <3>2, SlotOf
  <2>9. \/ row.embedding \in CallerVector \cup {NoVector}
        \/ c = slots[r].content /\ row.embedding = slots[r].embedding
    BY <2>4, <2>8
  <2>10. row.embedding \in Contract!Vector \cup {NoVector}
    BY <2>3, <2>4 DEF Contract!Vector, Vector, Contract!ModelVector, ModelVector
  <2>11. Contract!Write(r)
    BY <2>7, <2>8, <2>9, <2>10
  <2> QED
    BY <2>11 DEF Contract!Next
<1>6. ASSUME NEW r \in RecordId, Delete(r) PROVE Contract!Next
  <2>1. slots' = [slots EXCEPT ![r] = NoRecord]
    BY <1>0, <1>6 DEF Delete, slots, Exists, TypeOK
  <2>2. slots[r] # NoRecord
    BY <1>0, <1>6, SlotOf DEF Delete
  <2> QED
    BY <2>1, <2>2 DEF Contract!Next
<1>7. ASSUME NEW w \in Worker, Complete(w)
      PROVE  Contract!Next \/ slots' = slots
  <2>1. PICK k \in batch[w] : Finish(k)
    BY <1>7 DEF Complete
  <2>2. k.q \in QueueId /\ k.content \in Content
    BY <1>0 DEF TypeOK, Claim
  <2>3. CASE ~(Active(k.q) /\ Current(k.q))
    BY <1>1, <2>1, <2>3 DEF Finish
  <2>4. CASE Active(k.q) /\ Current(k.q)
    <3> DEFINE r == queue[k.q].rid
               v == ModelVector(k.content)
               row == RecordIntegrity(record[r], record[r].content, v)
    <3>1. r \in RecordId /\ Exists(r)
      BY <1>0, <2>2, <2>4 DEF TypeOK, Active, Queued, QueueRow, Current
    <3>2. /\ record[r].embedding = NoVector
          /\ record[r].content = k.content
      BY <2>2, <2>4 DEF Inv, FenceIsSound, ClaimsAreFaithful, Active
    <3>3. row.content = record[r].content /\ row.embedding = v
          /\ row \in RecordRow
      <4>1. record[r] \in RecordRow /\ v \in Vector
        BY <1>0, <2>2, <3>1, ModelVectorIsVector DEF TypeOK, Exists
      <4> QED
        BY <2>2, <3>2, <4>1, IntegrityFacts DEF RecordIntegrity
    <3>4. record' = [record EXCEPT ![r] = row]
      BY <2>1, <2>4 DEF Finish
    <3> HIDE DEF row, r
    <3>5. row # NoRecord
      BY <3>3, Assumptions
    <3>6. slots' = [slots EXCEPT ![r] = [content |-> record[r].content,
                                         embedding |-> v]]
      BY <1>0, <3>1, <3>3, <3>4, <3>5, SlotsAfterWrite
    <3>7. /\ slots[r] # NoRecord
          /\ slots[r] = [content |-> record[r].content,
                         embedding |-> NoVector]
      BY <1>0, <3>1, <3>2, SlotOf
    <3>8. slots' = [slots EXCEPT ![r].embedding =
                        Contract!ModelVector(slots[r].content)]
      <4>1. [slots[r] EXCEPT !.embedding = v] =
                [content |-> record[r].content, embedding |-> v]
        BY <3>7
      <4>2. v = Contract!ModelVector(slots[r].content)
        BY <3>2, <3>7 DEF Contract!ModelVector, ModelVector
      <4> HIDE DEF v
      <4> QED
        BY <3>6, <4>1, <4>2
    <3>9. slots[r].embedding = NoVector
      BY <3>7
    <3>10. Contract!Embed(r)
      BY <3>7, <3>8, <3>9
    <3> QED
      BY <3>1, <3>10 DEF Contract!Next
  <2> QED
    BY <2>3, <2>4
<1>8. ASSUME NEW w \in Worker, DrainerNext(w), ~Complete(w)
      PROVE  slots' = slots
  BY <1>1, <1>8 DEF DrainerNext, Sweep, ClaimBatch, ProviderAnswers,
     ProviderRejects, ProviderFails, Release, WriteBackFails, Abandon
<1>9. ASSUME QueueNext PROVE slots' = slots
  BY <1>1, <1>9 DEF QueueNext, Retry, Prune, LeaseLapse
<1>10. CASE UNCHANGED vars
  BY <1>1, <1>10 DEF vars
<1> QED
  BY <1>3, <1>4, <1>5, <1>6, <1>7, <1>8, <1>9, <1>10 DEF Next, WriterNext

(* However writers, drainers, operators and crashes interleave, the record *)
(* table behaves as if an empty vector slot were filled in one atomic step *)
(* with the vector of the text it holds.                                   *)
THEOREM Implementation == Spec => ImplementsContract
<1>1. Init => Contract!Init
  BY DEF Init, Contract!Init, slots, Exists
<1>2. Inv /\ Inv' /\ [Next]_vars => [Contract!Next]_slots
  BY StepImplements
<1> QED
  BY <1>1, <1>2, InvCorrect, PTL DEF Spec, ImplementsContract, Contract!Spec

-----------------------------------------------------------------------------
(* Bookkeeping: what one step may do to a queue row, to a record and to    *)
(* the memory of pruned failures.  Three invariants follow from these      *)
(* facts alone, so each action is looked at once.                          *)

(* A row that stays is unchanged; or it was active, works on for the same  *)
(* version and is settled as completed or cancelled only if that version   *)
(* is past; or it was a failure that is reopened.                          *)
RowStays(q) ==
    \/ queue'[q] = queue[q]
    \/ /\ Active(q)
       /\ queue'[q].rid = queue[q].rid /\ queue'[q].cv = queue[q].cv
       /\ queue'[q].outcome \in {"completed", "cancelled"} => ~Current(q)'
    \/ /\ queue[q].outcome = "failed" /\ Current(q)
       /\ queue'[q] = PendingRow(queue[q].rid, queue[q].cv)

(* A row goes with its record, or when it is terminal; if it is a current  *)
(* failure then, it is remembered.                                         *)
RowGoes(q) ==
    \/ record'[queue[q].rid] = NoRecord
    \/ /\ ~Active(q)
       /\ Retryable(q) => <<queue[q].rid, queue[q].cv>> \in pruned'

(* A row comes under the next id, for a version its record reaches with    *)
(* this step.                                                              *)
RowComes(q) ==
    /\ q = nextId
    /\ \E r \in RecordId :
          /\ Exists(r)'
          /\ queue'[q] = PendingRow(r, record'[r].cv)
          /\ Exists(r) => record'[r].cv > record[r].cv

RowsMove ==
    \A q \in QueueId :
        /\ Queued(q) /\ Queued(q)' => RowStays(q)
        /\ Queued(q) /\ ~Queued(q)' => RowGoes(q)
        /\ ~Queued(q) /\ Queued(q)' => RowComes(q)

(* A record stays, goes, or moves to a new version; if it then lacks a     *)
(* vector there is a row for that version.                                 *)
RecordMoves(r) ==
    \/ record'[r] = record[r]
    \/ ~Exists(r)'
    \/ /\ Exists(r)'
       /\ Exists(r) => record'[r].cv > record[r].cv
       /\ record'[r].embedding = NoVector =>
             \E q \in QueueId : queue'[q] = PendingRow(r, record'[r].cv)

RecordsMove == \A r \in RecordId : RecordMoves(r)

MemoryStays == \A p \in pruned : p \in pruned' \/ ~Exists(p[1])'

Moves == RowsMove /\ RecordsMove /\ MemoryStays

(* A statement on the queue alone, which removes and adds no row.          *)
LEMMA QueueMoves ==
    ASSUME record' = record, pruned' = pruned,
           \A q \in QueueId :
              /\ Queued(q) => Queued(q)' /\ RowStays(q)
              /\ ~Queued(q) => ~Queued(q)'
    PROVE  Moves
  BY DEF Moves, RowsMove, RecordsMove, RecordMoves, MemoryStays

(* A write of record r that moves it to a new version.                     *)
LEMMA WriteMoves ==
    ASSUME Inv, NEW r \in RecordId, NEW row \in RecordRow,
           record' = [record EXCEPT ![r] = row],
           Exists(r) => row.cv > record[r].cv,
           Enqueue(r, row.cv, row.embedding = NoVector),
           pruned' = pruned
    PROVE  Moves
<1>1. /\ record \in [RecordId -> RecordRow \cup {NoRecord}]
      /\ queue \in [QueueId -> QueueRow \cup {NoRow}]
      /\ row # NoRecord /\ row.cv \in Nat /\ nextId \in QueueId
  BY Assumptions DEF Inv, TypeOK, RecordRow, Enqueue
<1>2. record'[r] = row /\ Exists(r)'
  BY <1>1 DEF Exists
<1>3. ~Queued(nextId) /\ PendingRow(r, row.cv) # NoRow
  BY <1>1, RowFacts, Assumptions DEF Inv, FreshIds, QueueId
<1>4. RowsMove
  <2> SUFFICES ASSUME NEW q \in QueueId
               PROVE  \/ queue'[q] = queue[q]
                      \/ ~Queued(q) /\ RowComes(q)
    BY DEF RowsMove, RowStays, Queued
  <2> QED
    BY <1>1, <1>2, <1>3 DEF Enqueue, RowComes
<1>5. RecordsMove
  <2> SUFFICES ASSUME NEW s \in RecordId
               PROVE  RecordMoves(s)
    BY DEF RecordsMove
  <2>1. CASE s # r
    BY <1>1, <2>1 DEF RecordMoves
  <2>2. CASE s = r
    <3>1. row.embedding = NoVector => queue'[nextId] = PendingRow(r, row.cv)
      BY <1>1 DEF Enqueue
    <3> QED
      BY <1>1, <1>2, <2>2, <3>1 DEF RecordMoves
  <2> QED
    BY <2>1, <2>2
<1> QED
  BY <1>4, <1>5 DEF Moves, MemoryStays

(* A write-back that gets through the fence gives the record the vector it *)
(* lacked, and so a new version.                                           *)
LEMMA CompleteMoves ==
    ASSUME Inv, NEW w \in Worker, Complete(w)
    PROVE  Moves
<1>1. PICK k \in batch[w] : Finish(k)
  BY DEF Complete
<1>2. k.q \in QueueId /\ k.content \in Content /\ pruned' = pruned
  BY DEF Inv, TypeOK, Claim, Complete
<1>3. CASE ~Active(k.q)
  BY <1>1, <1>2, <1>3, QueueMoves DEF Finish, RowStays, Queued
<1>4. CASE Active(k.q)
  <2> DEFINE r == queue[k.q].rid
             row == RecordIntegrity(record[r], record[r].content,
                                    ModelVector(k.content))
  <2>1. queue[k.q] \in QueueRow /\ r \in RecordId /\ Queued(k.q)
    BY <1>2, <1>4 DEF Inv, TypeOK, Active, Queued, QueueRow
  <2>2. CASE ~Current(k.q)
    <3>1. /\ record' = record
          /\ queue' = [queue EXCEPT ![k.q].outcome = "cancelled"]
      BY <1>1, <1>4, <2>2 DEF Finish
    <3>2. /\ queue'[k.q] # NoRow
          /\ queue'[k.q].rid = r /\ queue'[k.q].cv = queue[k.q].cv
          /\ \A q \in QueueId \ {k.q} : queue'[q] = queue[q]
      BY <1>2, <2>1, <3>1, Assumptions DEF Inv, TypeOK, QueueRow, Outcome
    <3>3. ~Current(k.q)'
      BY <2>2, <3>1, <3>2 DEF Current, Exists
    <3> QED
      BY <1>2, <1>4, <2>1, <3>1, <3>2, <3>3, QueueMoves DEF RowStays, Queued
  <2>3. CASE Current(k.q)
    <3>1. record[r] \in RecordRow /\ Exists(r)
      BY <2>1, <2>3 DEF Inv, TypeOK, Current, Exists
    <3>2. record[r].embedding = NoVector /\ record[r].content \in Content
      BY <1>2, <2>1, <2>3, <3>1 DEF Inv, FenceIsSound, RecordRow
    <3>3. /\ row \in RecordRow /\ row.cv > record[r].cv
          /\ row.embedding # NoVector
      BY <1>2, <3>1, <3>2, IntegrityFacts, ModelVectorIsVector, Assumptions
      DEF RecordIntegrity, RecordRow
    <3>4. /\ record' = [record EXCEPT ![r] = row]
          /\ queue' = [queue EXCEPT ![k.q].outcome = "completed"]
      BY <1>1, <1>4, <2>3 DEF Finish
    <3> HIDE DEF row
    <3>5. /\ queue'[k.q] # NoRow
          /\ queue'[k.q].rid = r /\ queue'[k.q].cv = queue[k.q].cv
          /\ \A q \in QueueId \ {k.q} : queue'[q] = queue[q]
      BY <1>2, <2>1, <3>4, Assumptions DEF Inv, TypeOK, QueueRow, Outcome
    <3>6. /\ record'[r] = row /\ row # NoRecord
          /\ \A s \in RecordId \ {r} : record'[s] = record[s]
      BY <2>1, <3>3, <3>4, Assumptions DEF Inv, TypeOK
    <3>7. ~Current(k.q)'
      BY <2>3, <3>3, <3>5, <3>6 DEF Current, RecordRow, Exists
    <3>8. RowsMove
      BY <1>4, <2>1, <3>5, <3>7 DEF RowsMove, RowStays, Queued
    <3>9. RecordsMove
      BY <3>3, <3>6 DEF RecordsMove, RecordMoves, Exists
    <3> QED
      BY <1>2, <3>8, <3>9 DEF Moves, MemoryStays
  <2> QED
    BY <2>2, <2>3
<1> QED
  BY <1>3, <1>4

(* Each action moves rows, records and memory in these ways only.          *)
LEMMA StepMoves ==
    ASSUME Inv, Inv', [Next]_vars
    PROVE  Moves
<1>1. ASSUME NEW r \in RecordId, NEW c \in Content,
             NEW e \in Vector \cup {NoVector}, InsertRow(r, c, e)
      PROVE  Moves
  <2> DEFINE row == [content |-> c, cv |-> 1, embedding |-> e]
  <2>1. row \in RecordRow /\ row.cv = 1 /\ row.embedding = e
    BY DEF RecordRow
  <2>2. /\ record' = [record EXCEPT ![r] = row] /\ ~Exists(r)
        /\ Enqueue(r, row.cv, row.embedding = NoVector)
        /\ pruned' = pruned
    BY <1>1, <2>1 DEF InsertRow
  <2> HIDE DEF row
  <2> QED
    BY <2>1, <2>2, WriteMoves
<1>2. ASSUME NEW r \in RecordId, Insert(r) PROVE Moves
  BY <1>1, <1>2 DEF Insert, Vector
<1>3. ASSUME NEW r \in RecordId, NEW s \in RecordId, Copy(r, s) PROVE Moves
  <2>1. record[r].content \in Content
        /\ record[r].embedding \in Vector \cup {NoVector}
    BY <1>3 DEF Copy, Exists, Inv, TypeOK, RecordRow
  <2> QED
    BY <1>1, <1>3, <2>1 DEF Copy
<1>4. ASSUME NEW r \in RecordId, Update(r) PROVE Moves
  <2>1. /\ record[r] \in RecordRow
        /\ record[r].embedding \in Vector \cup {NoVector}
    BY <1>4 DEF Inv, TypeOK, Update, Exists, RecordRow
  <2>2. PICK c \in Content,
             e \in CallerVector \cup {NoVector, record[r].embedding} :
          LET row == RecordIntegrity(record[r], c, e)
          IN  /\ row # record[r]
              /\ record' = [record EXCEPT ![r] = row]
              /\ Enqueue(r, row.cv,
                     row.embedding = NoVector /\ row.cv # record[r].cv)
    BY <1>4 DEF Update
  <2>3. e \in Vector \cup {NoVector}
    BY <2>1 DEF Vector
  <2> DEFINE row == RecordIntegrity(record[r], c, e)
  <2>4. /\ row \in RecordRow
        /\ row.cv >= record[r].cv
        /\ row.cv = record[r].cv => row = record[r]
    BY <2>1, <2>3, IntegrityFacts
  <2>5. /\ row # record[r]
        /\ record' = [record EXCEPT ![r] = row]
        /\ Enqueue(r, row.cv, row.embedding = NoVector
                                /\ row.cv # record[r].cv)
    BY <2>2
  <2> HIDE DEF row
  <2>6. row.cv > record[r].cv
    BY <2>1, <2>4, <2>5 DEF RecordRow
  <2>7. Enqueue(r, row.cv, row.embedding = NoVector)
    BY <2>1, <2>4, <2>5, <2>6 DEF Enqueue, RecordRow
  <2>8. pruned' = pruned
    BY <1>4 DEF Update
  <2> QED
    BY <2>4, <2>5, <2>6, <2>7, <2>8, WriteMoves
<1>5. ASSUME NEW r \in RecordId, Delete(r) PROVE Moves
  <2>1. /\ \A s \in RecordId : record'[s] = record[s] \/ ~Exists(s)'
        /\ ~Exists(r)'
    BY <1>5 DEF Delete, Exists, Inv, TypeOK
  <2>2. ASSUME NEW q \in QueueId
        PROVE  /\ Queued(q) /\ Queued(q)' => RowStays(q)
               /\ Queued(q) /\ ~Queued(q)' => RowGoes(q)
               /\ ~Queued(q) => ~Queued(q)'
    <3>1. CASE Queued(q) /\ queue[q].rid = r
      <4>1. ~Queued(q)' /\ RowGoes(q)
        BY <1>5, <2>1, <3>1 DEF Delete, Queued, RowGoes, Exists
      <4> QED
        BY <3>1, <4>1
    <3>2. CASE ~(Queued(q) /\ queue[q].rid = r)
      <4>1. queue'[q] = queue[q]
        BY <1>5, <3>2 DEF Delete
      <4> QED
        BY <4>1 DEF RowStays, Queued
    <3> QED
      BY <3>1, <3>2
  <2>3. RowsMove
    BY <2>2 DEF RowsMove
  <2>4. RecordsMove
    BY <2>1 DEF RecordsMove, RecordMoves
  <2>5. MemoryStays
    BY <1>5, <2>1 DEF Delete, MemoryStays
  <2> QED
    BY <2>3, <2>4, <2>5 DEF Moves
<1>6. ASSUME NEW ids \in SUBSET QueueId, Retry(ids) PROVE Moves
  <2>1. ASSUME NEW q \in QueueId
        PROVE  \/ queue'[q] = queue[q]
               \/ /\ Queued(q) /\ Queued(q)'
                  /\ queue[q].outcome = "failed" /\ Current(q)
                  /\ queue'[q] = PendingRow(queue[q].rid, queue[q].cv)
    <3>1. CASE q \in ids /\ Retryable(q)
      <4>1. queue[q].rid \in RecordId /\ queue[q].cv \in Nat
        BY <3>1 DEF Retryable, Queued, Inv, TypeOK, QueueRow
      <4>2. queue'[q] = PendingRow(queue[q].rid, queue[q].cv)
        BY <1>6, <3>1 DEF Retry
      <4> QED
        BY <3>1, <4>1, <4>2, RowFacts, Assumptions DEF Retryable, Queued
    <3>2. CASE ~(q \in ids /\ Retryable(q))
      BY <1>6, <3>2 DEF Retry
    <3> QED
      BY <3>1, <3>2
  <2>2. record' = record /\ pruned' = pruned
    BY <1>6 DEF Retry
  <2> QED
    BY <2>1, <2>2, QueueMoves DEF RowStays, Queued
<1>7. ASSUME NEW old \in SUBSET QueueId, Prune(old) PROVE Moves
  <2>1. /\ record' = record /\ pruned \subseteq pruned'
        /\ \A q \in QueueId : q \notin old => queue'[q] = queue[q]
        /\ \A q \in old : Queued(q) /\ ~Active(q) /\ ~Queued(q)'
    BY <1>7 DEF Prune, Queued
  <2>2. \A q \in old : Retryable(q) =>
            <<queue[q].rid, queue[q].cv>> \in pruned'
    BY <1>7 DEF Prune
  <2>3. RowsMove
    BY <2>1, <2>2 DEF RowsMove, RowStays, RowGoes, Queued
  <2> QED
    BY <2>1, <2>3 DEF Moves, RecordsMove, RecordMoves, MemoryStays
<1>8. ASSUME NEW q \in QueueId, LeaseLapse(q) PROVE Moves
  <2>1. /\ queue[q] \in QueueRow /\ Active(q)
        /\ queue' = [queue EXCEPT ![q].visibleAt = "past"]
        /\ record' = record /\ pruned' = pruned
    BY <1>8 DEF LeaseLapse, Active, Queued, Inv, TypeOK
  <2>2. /\ queue'[q] \in QueueRow /\ queue'[q].outcome = "active"
        /\ queue'[q].rid = queue[q].rid /\ queue'[q].cv = queue[q].cv
        /\ \A p \in QueueId \ {q} : queue'[p] = queue[p]
    BY <2>1 DEF Inv, TypeOK, QueueRow, Active
  <2> QED
    BY <2>1, <2>2, QueueMoves, Assumptions DEF RowStays, Queued
<1>9. ASSUME NEW w \in Worker, Sweep(w) PROVE Moves
  <2>1. ASSUME NEW q \in QueueId
        PROVE  \/ queue'[q] = queue[q]
               \/ /\ Active(q) /\ Queued(q) /\ Queued(q)'
                  /\ queue'[q].rid = queue[q].rid
                  /\ queue'[q].cv = queue[q].cv
                  /\ queue'[q].outcome = "failed"
    <3>1. CASE Exhausted(w, q)
      <4>1. /\ queue'[q] = [queue[q] EXCEPT !.outcome = "failed"]
            /\ Active(q) /\ Queued(q) /\ queue[q] \in QueueRow
        BY <1>9, <3>1 DEF Sweep, Exhausted, Visible, Active, Queued,
                          Inv, TypeOK
      <4>2. queue'[q] \in QueueRow
        BY <4>1 DEF QueueRow, Outcome
      <4> QED
        BY <4>1, <4>2, Assumptions DEF QueueRow, Queued
    <3>2. CASE ~Exhausted(w, q)
      BY <1>9, <3>2 DEF Sweep
    <3> QED
      BY <3>1, <3>2
  <2>2. record' = record /\ pruned' = pruned
    BY <1>9 DEF Sweep
  <2> QED
    BY <2>1, <2>2, QueueMoves DEF RowStays, Queued
<1>10. ASSUME NEW w \in Worker, NEW taken \in SUBSET QueueId,
              ClaimBatch(w, taken)
       PROVE  Moves
  <2>1. record' = record /\ pruned' = pruned
    BY <1>10 DEF ClaimBatch
  <2>2. ASSUME NEW q \in QueueId
        PROVE  \/ queue'[q] = queue[q]
               \/ /\ Active(q) /\ Queued(q) /\ Queued(q)'
                  /\ queue'[q].rid = queue[q].rid
                  /\ queue'[q].cv = queue[q].cv
                  /\ queue'[q].outcome = "active" \/ ~Current(q)'
    <3>1. CASE q \in taken
      <4>1. /\ Active(q) /\ Queued(q) /\ queue[q] \in QueueRow
            /\ queue'[q] = ClaimRow(q)
        BY <1>10, <3>1 DEF ClaimBatch, Candidate, Visible, Active, Queued,
                           Inv, TypeOK
      <4>2. /\ queue'[q] \in QueueRow /\ queue'[q].rid = queue[q].rid
            /\ queue'[q].cv = queue[q].cv
        BY <4>1, ClaimFacts
      <4>3. Current(q) => queue'[q].outcome = "active"
        BY <4>1 DEF ClaimRow, Active, QueueRow
      <4>4. Current(q)' => Current(q)
        BY <2>1, <4>2 DEF Current, Exists
      <4> QED
        BY <4>1, <4>2, <4>3, <4>4, Assumptions DEF Queued
    <3>2. CASE q \notin taken
      BY <1>10, <3>2 DEF ClaimBatch
    <3> QED
      BY <3>1, <3>2
  <2> QED
    BY <2>1, <2>2, QueueMoves DEF RowStays, Queued
<1>11. ASSUME NEW w \in Worker,
              \/ ProviderAnswers(w) \/ ProviderRejects(w) \/ ProviderFails(w)
              \/ WriteBackFails(w) \/ Abandon(w)
       PROVE  Moves
  <2>1. record' = record /\ queue' = queue /\ pruned' = pruned
    BY <1>11 DEF ProviderAnswers, ProviderRejects, ProviderFails,
                 WriteBackFails, Abandon
  <2> QED
    BY <2>1, QueueMoves DEF RowStays, Queued
<1>12. ASSUME NEW w \in Worker, Release(w) PROVE Moves
  <2>1. PICK k \in batch[w], at \in {"past", "future"} :
            queue' = IF Active(k.q)
                     THEN [queue EXCEPT ![k.q] = ReleaseRow(queue[k.q], at)]
                     ELSE queue
    BY <1>12 DEF Release
  <2>2. k.q \in QueueId /\ record' = record /\ pruned' = pruned
    BY <1>12 DEF Inv, TypeOK, Claim, Release
  <2>3. CASE Active(k.q)
    <3>1. queue[k.q] \in QueueRow /\ Queued(k.q)
      BY <2>2, <2>3 DEF Active, Queued, Inv, TypeOK
    <3>2. /\ queue'[k.q] \in QueueRow /\ queue'[k.q].outcome = "active"
          /\ queue'[k.q].rid = queue[k.q].rid
          /\ queue'[k.q].cv = queue[k.q].cv
          /\ \A q \in QueueId \ {k.q} : queue'[q] = queue[q]
      BY <2>1, <2>2, <2>3, <3>1, ReleaseFacts DEF Active, Inv, TypeOK
    <3> QED
      BY <2>2, <2>3, <3>1, <3>2, QueueMoves, Assumptions DEF RowStays, Queued
  <2>4. CASE ~Active(k.q)
    BY <2>1, <2>2, <2>4, QueueMoves DEF RowStays, Queued
  <2> QED
    BY <2>3, <2>4
<1>13. ASSUME NEW w \in Worker, Complete(w) PROVE Moves
  BY <1>13, CompleteMoves
<1>14. CASE UNCHANGED vars
  BY <1>14, QueueMoves DEF vars, RowStays, Queued
<1> QED
  BY <1>2, <1>3, <1>4, <1>5, <1>6, <1>7, <1>8, <1>9, <1>10, <1>11, <1>12,
     <1>13, <1>14
  DEF Next, WriterNext, QueueNext, DrainerNext

(* A row that is settled other than by failure speaks of a past version.   *)
SettledIsPast ==
    \A q \in QueueId :
        Queued(q) /\ queue[q].outcome \in {"completed", "cancelled"}
            => ~Current(q)

WorkInv == Inv /\ OneRowPerVersion /\ SettledIsPast /\ NoWorkLost

(* What is past stays past: a record only leaves a version for a later one *)
(* or goes, and its rows with it.                                          *)
LEMMA CurrentOnce ==
    ASSUME Inv, Inv', Moves, NEW q \in QueueId, Queued(q), Queued(q)',
           queue'[q].rid = queue[q].rid, queue'[q].cv = queue[q].cv,
           Current(q)'
    PROVE  Current(q) /\ record'[queue[q].rid] = record[queue[q].rid]
<1> DEFINE r == queue[q].rid
<1>1. /\ r \in RecordId /\ queue[q].cv \in Nat /\ Exists(r)
      /\ queue[q].cv <= record[r].cv
  BY DEF Inv, TypeOK, FenceIsSound, Queued, QueueRow
<1>2. record[r] \in RecordRow
  BY <1>1 DEF Inv, TypeOK, Exists
<1>3. Exists(r)' /\ record'[r].cv = queue[q].cv
  BY DEF Current, Exists
<1>4. record'[r] = record[r]
  BY <1>1, <1>2, <1>3 DEF Moves, RecordsMove, RecordMoves, RecordRow
<1> QED
  BY <1>1, <1>3, <1>4 DEF Current, Exists

(* A row that stays stays with its record version.                         *)
LEMMA RowKeepsWork ==
    ASSUME Moves, NEW q \in QueueId, Queued(q), Queued(q)'
    PROVE  queue'[q].rid = queue[q].rid /\ queue'[q].cv = queue[q].cv
<1>1. RowStays(q)
  BY DEF Moves, RowsMove
<1>2. CASE queue'[q] = PendingRow(queue[q].rid, queue[q].cv)
  BY <1>2 DEF PendingRow
<1> QED
  BY <1>1, <1>2 DEF RowStays

(* A new row is for a version no row is for.                               *)
LEMMA NewRowIsAlone ==
    ASSUME Inv, Inv', Moves, NEW p \in QueueId, NEW q \in QueueId,
           ~Queued(p), Queued(p)', Queued(q)',
           queue'[p].rid = queue'[q].rid, queue'[p].cv = queue'[q].cv
    PROVE  p = q
<1>1. PICK r \in RecordId :
          /\ p = nextId /\ queue'[p] = PendingRow(r, record'[r].cv)
          /\ Exists(r)'
          /\ Exists(r) => record'[r].cv > record[r].cv
  BY DEF Moves, RowsMove, RowComes
<1>2. CASE ~Queued(q)
  BY <1>1, <1>2 DEF Moves, RowsMove, RowComes
<1>3. CASE Queued(q)
  <2>1. queue'[q].rid = queue[q].rid /\ queue'[q].cv = queue[q].cv
    BY <1>3, RowKeepsWork
  <2>2. queue[q].rid = r /\ queue[q].cv = record'[r].cv
    BY <1>1, <2>1 DEF PendingRow
  <2>3. Exists(r) /\ queue[q].cv <= record[r].cv /\ queue[q].cv \in Nat
    BY <1>3, <2>2 DEF Inv, FenceIsSound, TypeOK, Queued, QueueRow
  <2>4. record[r].cv \in Nat
    BY <2>3 DEF Inv, TypeOK, Exists, RecordRow
  <2>5. record'[r].cv \in Nat
    BY <1>1 DEF Inv, TypeOK, Exists, RecordRow
  <2> QED
    BY <1>1, <2>2, <2>3, <2>4, <2>5
<1> QED
  BY <1>2, <1>3

LEMMA WorkStep ==
    ASSUME WorkInv, Inv', Moves
    PROVE  WorkInv'
<1> USE DEF WorkInv
<1>1. ASSUME NEW q \in QueueId, Queued(q), Queued(q)'
      PROVE  queue'[q].rid = queue[q].rid /\ queue'[q].cv = queue[q].cv
  BY <1>1, RowKeepsWork
<1>2. OneRowPerVersion'
  <2> SUFFICES ASSUME NEW p \in QueueId, NEW q \in QueueId,
                      Queued(p)', Queued(q)',
                      queue'[p].rid = queue'[q].rid,
                      queue'[p].cv = queue'[q].cv
               PROVE  p = q
    BY DEF OneRowPerVersion
  <2>1. CASE Queued(p) /\ Queued(q)
    BY <1>1, <2>1 DEF OneRowPerVersion
  <2>2. CASE ~Queued(p) \/ ~Queued(q)
    BY <2>2, NewRowIsAlone
  <2> QED
    BY <2>1, <2>2
<1>3. SettledIsPast'
  <2> SUFFICES ASSUME NEW q \in QueueId, Queued(q)', Current(q)'
               PROVE  queue'[q].outcome \notin {"completed", "cancelled"}
    BY DEF SettledIsPast
  <2>1. CASE ~Queued(q)
    <3>1. PICK r \in RecordId : queue'[q] = PendingRow(r, record'[r].cv)
      BY <2>1 DEF Moves, RowsMove, RowComes
    <3> QED
      BY <3>1 DEF PendingRow
  <2>2. CASE Queued(q)
    <3>1. Current(q)
      BY <1>1, <2>2, CurrentOnce
    <3>2. RowStays(q)
      BY <2>2 DEF Moves, RowsMove
    <3> QED
      BY <2>2, <3>1, <3>2 DEF SettledIsPast, RowStays, PendingRow
  <2> QED
    BY <2>1, <2>2
<1>4. NoWorkLost'
  <2> SUFFICES ASSUME NEW r \in RecordId, Exists(r)',
                      record'[r].embedding = NoVector
               PROVE  \/ \E q \in QueueId : /\ Queued(q)' /\ queue'[q].rid = r
                                            /\ Current(q)'
                      \/ <<r, record'[r].cv>> \in pruned'
    BY DEF NoWorkLost
  <2>1. CASE record'[r] # record[r]
    <3>1. PICK q \in QueueId : queue'[q] = PendingRow(r, record'[r].cv)
      BY <2>1 DEF Moves, RecordsMove, RecordMoves
    <3>2. record'[r].cv \in Nat
      BY DEF Inv, TypeOK, Exists, RecordRow
    <3>3. Queued(q)'
      BY <3>1, <3>2, RowFacts, Assumptions DEF Queued
    <3> QED
      BY <3>1, <3>3 DEF Current, PendingRow
  <2>2. CASE record'[r] = record[r]
    <3>1. Exists(r) /\ record[r].embedding = NoVector
      BY <2>2 DEF Exists
    <3>2. CASE <<r, record[r].cv>> \in pruned
      BY <2>2, <3>2 DEF Moves, MemoryStays
    <3>3. ASSUME NEW q \in QueueId, Queued(q), queue[q].rid = r, Current(q)
          PROVE  \/ Queued(q)' /\ queue'[q].rid = r /\ Current(q)'
                 \/ <<r, record'[r].cv>> \in pruned'
      <4>1. CASE Queued(q)'
        BY <1>1, <2>2, <3>1, <3>3, <4>1 DEF Current, Exists
      <4>2. CASE ~Queued(q)'
        <5>1. /\ ~Active(q)
              /\ Retryable(q) => <<r, queue[q].cv>> \in pruned'
          <6>1. RowGoes(q)
            BY <3>3, <4>2 DEF Moves, RowsMove
          <6> QED
            BY <2>2, <3>1, <3>3, <6>1 DEF RowGoes, Exists
        <5>2. queue[q].outcome = "failed"
          BY <3>3, <5>1
          DEF SettledIsPast, Active, Queued, Inv, TypeOK, QueueRow, Outcome
        <5> QED
          BY <2>2, <3>1, <3>3, <5>1, <5>2 DEF Retryable, Current
      <4> QED
        BY <4>1, <4>2
    <3> QED
      BY <3>1, <3>2, <3>3 DEF NoWorkLost
  <2> QED
    BY <2>1, <2>2
<1> QED
  BY <1>2, <1>3, <1>4

LEMMA WorkCorrect == Spec => []WorkInv
<1>1. Init => WorkInv
  BY InvInit DEF Init, WorkInv, OneRowPerVersion, SettledIsPast, NoWorkLost,
                 Queued, Exists
<1>2. WorkInv /\ Inv' /\ [Next]_vars => WorkInv'
  BY StepMoves, WorkStep DEF WorkInv
<1> QED
  BY <1>1, <1>2, InvCorrect, PTL DEF Spec

(* A record version is queued at most once, whatever retries, deletes and  *)
(* re-inserts came before: it is embedded by one row or by none.           *)
THEOREM WorkIsQueuedOnce == Spec => []OneRowPerVersion
<1>1. WorkInv => OneRowPerVersion
  BY DEF WorkInv
<1> QED
  BY <1>1, WorkCorrect, PTL

(* No interleaving of writers, drainers, retries and crashes loses work: a *)
(* record without a vector has a pending or failed row for its present     *)
(* version, unless pruning removed that very failure.                      *)
THEOREM WorkSurvives == Spec => []NoWorkLost
<1>1. WorkInv => NoWorkLost
  BY DEF WorkInv
<1> QED
  BY <1>1, WorkCorrect, PTL

(* A row that is completed, cancelled or failed never changes again, but   *)
(* for a current failure that is reopened as fresh work.                   *)
THEOREM TerminalRowsAreFinal == Spec => TerminalIsFinal
<1>1. ASSUME Moves, NEW q \in QueueId, Queued(q), ~Active(q), Queued(q)',
             queue'[q] # queue[q]
      PROVE  /\ queue[q].outcome = "failed" /\ Current(q)
             /\ queue'[q] = PendingRow(queue[q].rid, queue[q].cv)
  BY <1>1 DEF Moves, RowsMove, RowStays
<1>2. Inv /\ Inv' /\ [Next]_vars =>
        \A q \in QueueId :
          (Queued(q) /\ ~Active(q) /\ Queued(q)' /\ queue'[q] # queue[q])
          => /\ queue[q].outcome = "failed" /\ Current(q)
             /\ queue'[q] = PendingRow(queue[q].rid, queue[q].cv)
  BY <1>1, StepMoves
<1> QED
  BY <1>2, InvCorrect, PTL DEF Spec, TerminalIsFinal
(* Every step leaves the rows within the limits: a sweep fails rows that   *)
(* have the attempts, a claim adds one to a row that has fewer, a release  *)
(* takes one from a row that is open, and nothing else counts.             *)
LEMMA LimitsStep ==
    ASSUME Inv, AttemptsAreBounded, [Next]_vars
    PROVE  AttemptsAreBounded'
<1> SUFFICES ASSUME NEW q \in QueueId, Queued(q)'
             PROVE  WithinLimits(queue'[q])
  BY DEF AttemptsAreBounded, Queued, WithinLimits
<1>1. ASSUME NEW r \in RecordId, NEW v \in Nat,
             queue'[q] = PendingRow(r, v)
      PROVE  WithinLimits(queue'[q])
  BY <1>1 DEF PendingRow, WithinLimits
<1>2. ASSUME queue'[q] = queue[q]
      PROVE  WithinLimits(queue'[q])
  BY <1>2 DEF AttemptsAreBounded, Queued
<1>3. ASSUME Queued(q),
             queue'[q].attempts = queue[q].attempts,
             queue'[q].outcome \in {queue[q].outcome, "completed", "cancelled"}
      PROVE  WithinLimits(queue'[q])
  BY <1>3 DEF AttemptsAreBounded, WithinLimits
<1>4. ASSUME NEW r \in RecordId, NEW v \in Nat, NEW when, Enqueue(r, v, when)
      PROVE  WithinLimits(queue'[q])
  <2>1. queue'[q] = queue[q] \/ queue'[q] = PendingRow(r, v)
    BY <1>4 DEF Enqueue, Inv, TypeOK
  <2> QED
    BY <1>1, <1>2, <2>1
<1>5. ASSUME NEW r \in RecordId, Insert(r) PROVE WithinLimits(queue'[q])
  BY <1>4, <1>5 DEF Insert, InsertRow
<1>6. ASSUME NEW r \in RecordId, NEW s \in RecordId, Copy(r, s)
      PROVE  WithinLimits(queue'[q])
  BY <1>4, <1>6 DEF Copy, InsertRow
<1>7. ASSUME NEW r \in RecordId, Update(r) PROVE WithinLimits(queue'[q])
  <2>1. PICK c \in Content,
             e \in CallerVector \cup {NoVector, record[r].embedding} :
          LET row == RecordIntegrity(record[r], c, e)
          IN  Enqueue(r, row.cv, row.embedding = NoVector
                                    /\ row.cv # record[r].cv)
    BY <1>7 DEF Update
  <2>2. record[r] \in RecordRow
    BY <1>7 DEF Update, Exists, Inv, TypeOK
  <2>3. e \in Vector \cup {NoVector}
    BY <2>2 DEF RecordRow, Vector
  <2>4. RecordIntegrity(record[r], c, e).cv \in Nat
    BY <2>2, <2>3, IntegrityFacts DEF RecordRow
  <2> QED
    BY <1>4, <2>1, <2>4
<1>8. ASSUME NEW r \in RecordId, Delete(r) PROVE WithinLimits(queue'[q])
  BY <1>2, <1>8 DEF Delete, Queued
<1>9. ASSUME NEW ids \in SUBSET QueueId, Retry(ids)
      PROVE  WithinLimits(queue'[q])
  <2>1. CASE q \in ids /\ Retryable(q)
    <3>1. queue'[q] = PendingRow(queue[q].rid, queue[q].cv)
      BY <1>9, <2>1 DEF Retry
    <3>2. queue[q].rid \in RecordId /\ queue[q].cv \in Nat
      BY <2>1 DEF Retryable, Queued, Inv, TypeOK, QueueRow
    <3> QED
      BY <1>1, <3>1, <3>2
  <2>2. CASE ~(q \in ids /\ Retryable(q))
    BY <1>2, <1>9, <2>2 DEF Retry
  <2> QED
    BY <2>1, <2>2
<1>10. ASSUME NEW old \in SUBSET QueueId, Prune(old)
       PROVE  WithinLimits(queue'[q])
  BY <1>2, <1>10 DEF Prune, Queued
<1>11. ASSUME NEW p \in QueueId, LeaseLapse(p) PROVE WithinLimits(queue'[q])
  <2>1. CASE p = q
    <3>1. Queued(q) /\ queue[q] \in QueueRow
      BY <1>11, <2>1 DEF LeaseLapse, Active, Queued, Inv, TypeOK
    <3>2. queue'[q] = [queue[q] EXCEPT !.visibleAt = "past"]
      BY <1>11, <2>1 DEF LeaseLapse, Inv, TypeOK
    <3> QED
      BY <1>3, <3>1, <3>2 DEF QueueRow
  <2>2. CASE p # q
    BY <1>2, <1>11, <2>2 DEF LeaseLapse, Inv, TypeOK
  <2> QED
    BY <2>1, <2>2
<1>12. ASSUME NEW w \in Worker, Sweep(w) PROVE WithinLimits(queue'[q])
  <2>1. CASE Exhausted(w, q)
    <3>1. /\ Queued(q) /\ queue[q] \in QueueRow
          /\ queue[q].attempts >= MaxAttempts[w]
      BY <2>1 DEF Exhausted, Visible, Active, Queued, Inv, TypeOK
    <3>2. queue'[q] = [queue[q] EXCEPT !.outcome = "failed"]
      BY <1>12, <2>1 DEF Sweep
    <3>3. queue'[q].attempts = queue[q].attempts
      BY <3>1, <3>2 DEF QueueRow
    <3> QED
      BY <3>1, <3>3 DEF AttemptsAreBounded, WithinLimits
  <2>2. CASE ~Exhausted(w, q)
    BY <1>2, <1>12, <2>2 DEF Sweep
  <2> QED
    BY <2>1, <2>2
<1>13. ASSUME NEW w \in Worker, NEW taken \in SUBSET QueueId,
              ClaimBatch(w, taken)
       PROVE  WithinLimits(queue'[q])
  <2>1. CASE q \in taken
    <3>1. /\ Queued(q) /\ queue[q] \in QueueRow
          /\ queue[q].outcome = "active"
          /\ queue[q].attempts < MaxAttempts[w]
      BY <1>13, <2>1 DEF ClaimBatch, Candidate, Visible, Active, Queued,
                         Inv, TypeOK
    <3>2. queue'[q] = ClaimRow(q)
      BY <1>13, <2>1 DEF ClaimBatch
    <3>3. CASE Current(q)
      <4>1. /\ queue'[q].attempts = queue[q].attempts + 1
            /\ queue'[q].outcome = "active"
        BY <3>1, <3>2, <3>3 DEF ClaimRow, QueueRow
      <4>2. queue'[q].attempts <= MaxAttempts[w]
        BY <3>1, <4>1, Assumptions DEF QueueRow
      <4> QED
        BY <4>1, <4>2 DEF WithinLimits
    <3>4. CASE ~Current(q)
      BY <1>3, <3>1, <3>2, <3>4 DEF ClaimRow, QueueRow
    <3> QED
      BY <3>3, <3>4
  <2>2. CASE q \notin taken
    BY <1>2, <1>13, <2>2 DEF ClaimBatch
  <2> QED
    BY <2>1, <2>2
<1>14. ASSUME NEW w \in Worker, Release(w) PROVE WithinLimits(queue'[q])
  <2>1. PICK k \in batch[w], at \in {"past", "future"} :
            queue' = IF Active(k.q)
                     THEN [queue EXCEPT ![k.q] = ReleaseRow(queue[k.q], at)]
                     ELSE queue
    BY <1>14 DEF Release
  <2>2. CASE Active(k.q) /\ k.q = q
    <3>1. /\ queue[q] \in QueueRow /\ Queued(q)
          /\ queue[q].outcome = "active"
      BY <2>2 DEF Active, Queued, Inv, TypeOK
    <3>2. queue'[q] = ReleaseRow(queue[q], at)
      BY <2>1, <2>2 DEF Inv, TypeOK
    <3>3. queue'[q].outcome = "active"
      BY <3>1, <3>2, ReleaseFacts
    <3>4. queue'[q].attempts = IF queue[q].attempts > 0
                               THEN queue[q].attempts - 1 ELSE 0
      BY <3>1, <3>2 DEF ReleaseRow, QueueRow
    <3>5. queue[q].attempts \in Nat
      BY <3>1 DEF QueueRow
    <3>6. queue[q].attempts > 0 =>
             \E v \in Worker : queue[q].attempts <= MaxAttempts[v]
      BY <3>1 DEF AttemptsAreBounded, WithinLimits
    <3>7. ASSUME queue'[q].attempts > 0
          PROVE  \E v \in Worker : queue'[q].attempts <= MaxAttempts[v]
      <4>1. /\ queue[q].attempts > 0
            /\ queue'[q].attempts = queue[q].attempts - 1
        BY <3>4, <3>5, <3>7
      <4>2. PICK v \in Worker : queue[q].attempts <= MaxAttempts[v]
        BY <3>6, <4>1
      <4>3. queue'[q].attempts <= MaxAttempts[v]
        BY <3>5, <4>1, <4>2, Assumptions
      <4> QED
        BY <4>3
    <3> QED
      BY <3>3, <3>7 DEF WithinLimits
  <2>3. CASE ~(Active(k.q) /\ k.q = q)
    BY <1>2, <2>1, <2>3 DEF Inv, TypeOK
  <2> QED
    BY <2>2, <2>3
<1>15. ASSUME NEW w \in Worker, Complete(w) PROVE WithinLimits(queue'[q])
  <2>1. PICK k \in batch[w] : Finish(k)
    BY <1>15 DEF Complete
  <2>2. \/ queue' = queue
        \/ Active(k.q) /\ queue' = [queue EXCEPT ![k.q].outcome = "completed"]
        \/ Active(k.q) /\ queue' = [queue EXCEPT ![k.q].outcome = "cancelled"]
    BY <2>1 DEF Finish
  <2>3. CASE Active(k.q) /\ k.q = q /\ queue' # queue
    <3>1. queue[q] \in QueueRow /\ Queued(q)
      BY <2>3 DEF Active, Queued, Inv, TypeOK
    <3>2. \/ queue'[q] = [queue[q] EXCEPT !.outcome = "completed"]
          \/ queue'[q] = [queue[q] EXCEPT !.outcome = "cancelled"]
      BY <2>2, <2>3 DEF Inv, TypeOK
    <3> QED
      BY <1>3, <3>1, <3>2 DEF QueueRow
  <2>4. CASE ~(Active(k.q) /\ k.q = q /\ queue' # queue)
    BY <1>2, <2>2, <2>4 DEF Inv, TypeOK
  <2> QED
    BY <2>3, <2>4
<1>16. ASSUME NEW w \in Worker,
              \/ ProviderAnswers(w) \/ ProviderRejects(w) \/ ProviderFails(w)
              \/ WriteBackFails(w) \/ Abandon(w)
       PROVE  WithinLimits(queue'[q])
  <2>1. queue' = queue
    BY <1>16 DEF ProviderAnswers, ProviderRejects, ProviderFails,
                 WriteBackFails, Abandon
  <2> QED
    BY <1>2, <2>1
<1>17. CASE UNCHANGED vars
  BY <1>2, <1>17 DEF vars
<1> QED
  BY <1>5, <1>6, <1>7, <1>8, <1>9, <1>10, <1>11, <1>12, <1>13, <1>14, <1>15,
     <1>16, <1>17
  DEF Next, WriterNext, QueueNext, DrainerNext

(* The tables keep their types, no row is claimed beyond the largest limit *)
(* of the drainers, and none that is failed has attempts left under every  *)
(* one of them.                                                            *)
THEOREM AttemptsStayBounded == Spec => []QueueIsInLimits
<1>1. Init => AttemptsAreBounded
  BY DEF Init, AttemptsAreBounded, Queued
<1>2. Inv /\ AttemptsAreBounded /\ [Next]_vars => AttemptsAreBounded'
  BY LimitsStep
<1>3. TypeOK /\ AttemptsAreBounded => QueueIsInLimits
  BY DEF QueueIsInLimits
<1> QED
  BY <1>1, <1>2, <1>3, InvCorrect, TypeCorrect, PTL DEF Spec
=============================================================================
