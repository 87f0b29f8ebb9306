---------------------------- MODULE Transactions ----------------------------
(***************************************************************************)
(* Records and queue rows under PostgreSQL's row locks: transactions that  *)
(* callers open and in which they make several calls (Index.with(tx)), and *)
(* drainers, whose statements are transactions of their own.  A statement  *)
(* locks one row after another, waits while another transaction holds the  *)
(* next one, and looks at the row again once it has it (READ COMMITTED).   *)
(* EmbeddingQueue takes a drainer's statement for one step; here it is as  *)
(* many steps as it takes locks.                                           *)
(***************************************************************************)
EXTENDS Naturals, FiniteSets

CONSTANTS
    RecordId, Content, CallerVector, NoRow, NoVector,
    Caller,         \* the callers, each with a connection and a transaction
    Drainer,        \* workers and processEmbeddings() calls
    NoOne,          \* the owner of a free row
    MaxAttempts, BatchSize,
    MaxVersion,     \* bound: callers write no content_version above it
    MaxQueueId      \* bound: the identity column of embedding_queue

Session == Caller \cup Drainer
QueueId == 1 .. MaxQueueId
Row == RecordId \cup QueueId

VARIABLES
    committed,      \* committed[x]: the row everybody sees, or NoRow
    draft,          \* draft[x]: the row as its owner's transaction left it
    owner,          \* owner[x]: the transaction that holds the lock of row x
    stmt,           \* stmt[s]: the statement session s executes
    batch,          \* batch[w]: the claimed rows drainer w still has to settle
    pc,             \* pc[w]: "idle" | "claim" | "embed" | "write" | "release" | "fail"
    nextId          \* the identity sequence, which no rollback turns back

vars == <<committed, draft, owner, stmt, batch, pc, nextId>>

ModelVector(c) == [embeds |-> c]
Vector == CallerVector \cup {ModelVector(c) : c \in Content}

RecordRow == [content : Content, cv : 1 .. MaxVersion + 1, embedding : Vector \cup {NoVector}]
QueueRow == [rid : RecordId, cv : 1 .. MaxVersion + 1, attempts : 0 .. MaxAttempts,
             outcome : {"active", "completed", "failed", "cancelled"},
             visible : BOOLEAN]

Claim == [q : QueueId, rid : RecordId, cv : 1 .. MaxVersion + 1, content : Content]

ASSUME TransactionAssumptions ==
    /\ Caller \cap Drainer = {} /\ NoOne \notin Session
    /\ RecordId \cap Nat = {} /\ NoRow \notin RecordRow \cup QueueRow
    /\ NoRow \notin [content : Content, embedding : Vector \cup {NoVector}]
    /\ NoVector \notin Vector
    /\ {MaxAttempts, BatchSize, MaxVersion, MaxQueueId} \subseteq Nat \ {0}

NoStatement == [op |-> "none"]

(* What a statement is doing: the row it locks next, those it locks later. *)
Lock(op, next, later) == [op |-> op, next |-> next, later |-> later]

Statement ==
    {NoStatement}
    \cup [op : {"put", "delete", "written"}, next : RecordId, later : SUBSET RecordId]
    \cup [op : {"cascade", "sweep", "fence", "release", "note"},
          next : QueueId, later : SUBSET QueueId]

TypeOK ==
    /\ \A r \in RecordId : {committed[r], draft[r]} \subseteq RecordRow \cup {NoRow}
    /\ \A q \in QueueId : {committed[q], draft[q]} \subseteq QueueRow \cup {NoRow}
    /\ owner \in [Row -> Session \cup {NoOne}] /\ stmt \in [Session -> Statement]
    /\ batch \in [Drainer -> SUBSET Claim]
    /\ pc \in [Drainer -> {"idle", "claim", "embed", "write", "release", "fail"}]
    /\ nextId \in 1 .. MaxQueueId + 1

Init ==
    /\ committed = [x \in Row |-> NoRow] /\ draft = committed
    /\ owner = [x \in Row |-> NoOne]
    /\ stmt = [s \in Session |-> NoStatement]
    /\ batch = [w \in Drainer |-> {}] /\ pc = [w \in Drainer |-> "idle"]
    /\ nextId = 1

-----------------------------------------------------------------------------
(* Rows, locks and the end of a transaction. *)

Idle(s) == stmt[s] = NoStatement

Mine(s) == {x \in Row : owner[x] = s}

Sees(s, x) == IF owner[x] = s THEN draft[x] ELSE committed[x]

(* The row that statement s waits for is free, or s has it already. *)
Granted(s) == ~Idle(s) /\ owner[stmt[s].next] \in {s, NoOne}

Run(s, statement) == stmt' = [stmt EXCEPT ![s] = statement]

(* The rows that a step changes, and what it makes of them. *)
One(x, row) == [y \in {x} |-> row]

Both(x, row, z, other) == [y \in {x, z} |-> IF y = x THEN row ELSE other]

(* s locks these rows, or has locked them already, and leaves them as new. *)
Locks(s, new) ==
    /\ owner' = [x \in Row |-> IF x \in DOMAIN new THEN s ELSE owner[x]]
    /\ draft' = [x \in Row |-> IF x \in DOMAIN new THEN new[x] ELSE draft[x]]
    /\ UNCHANGED committed

(* s makes its last changes, to the rows of new, and commits. *)
CommitWith(s, new) ==
    LET image == [x \in Row |-> IF x \in DOMAIN new THEN new[x] ELSE Sees(s, x)] IN
    /\ committed' = image
    /\ draft' = [x \in Row |-> IF owner[x] \in {s, NoOne} THEN image[x] ELSE draft[x]]
    /\ owner' = [x \in Row |-> IF owner[x] = s THEN NoOne ELSE owner[x]]

Roll(s) ==
    /\ draft' = [x \in Row |-> IF owner[x] = s THEN committed[x] ELSE draft[x]]
    /\ owner' = [x \in Row |-> IF owner[x] = s THEN NoOne ELSE owner[x]]
    /\ UNCHANGED committed

-----------------------------------------------------------------------------
(* Callers.  A transaction lasts from its first lock to Commit or Rollback. *)

(* record_integrity on UPDATE. *)
RecordIntegrity(old, c, e) ==
    LET v == IF c # old.content /\ e = old.embedding THEN NoVector ELSE e
    IN  [content |-> c, embedding |-> v,
         cv |-> IF c # old.content \/ v # old.embedding THEN old.cv + 1 ELSE old.cv]

Pending(r, cv) ==
    [rid |-> r, cv |-> cv, attempts |-> 0, outcome |-> "active", visible |-> TRUE]

(* insert, upsert, patch; or a move, which leaves text and vector alone. *)
PutBegins(s, r) ==
    /\ Idle(s)
    /\ Run(s, Lock("put", r, {}))
    /\ UNCHANGED <<committed, draft, owner, batch, pc, nextId>>

(* What the row may become: the caller's text and vector; on an update     *)
(* also the vector that was there.                                         *)
Written(old) ==
    IF old = NoRow
    THEN {[content |-> c, cv |-> 1, embedding |-> e] :
              c \in Content, e \in CallerVector \cup {NoVector}}
    ELSE {RecordIntegrity(old, c, e) :
              c \in Content, e \in CallerVector \cup {NoVector, old.embedding}}

(* The enqueue trigger's condition. *)
NeedsVector(old, new) == new.embedding = NoVector /\ (old = NoRow \/ new.cv # old.cv)

(* The row, locked at last, gets the statement's values; the enqueue       *)
(* trigger adds a queue row in the same transaction.                       *)
PutRow(s) ==
    LET r == stmt[s].next IN
    /\ stmt[s].op = "put" /\ Granted(s)
    /\ \E new \in Written(Sees(s, r)) :
          /\ new.cv <= MaxVersion
          /\ IF NeedsVector(Sees(s, r), new)
             THEN /\ nextId \in QueueId /\ nextId' = nextId + 1
                  /\ Locks(s, Both(r, new, nextId, Pending(r, new.cv)))
             ELSE Locks(s, One(r, new)) /\ UNCHANGED nextId
    /\ Run(s, NoStatement)
    /\ UNCHANGED <<batch, pc>>

(* The row is not (or no longer) what the call wants: not found, stale,    *)
(* ignored.  The transaction goes on.                                      *)
PutNothing(s) ==
    /\ stmt[s].op = "put" /\ Granted(s)
    /\ Run(s, NoStatement)
    /\ UNCHANGED <<committed, draft, owner, batch, pc, nextId>>

(* delete, deleteTree: the snapshot's rows, in the order of some plan, ... *)
DeleteBegins(s, rows) ==
    /\ Idle(s) /\ \A r \in rows : Sees(s, r) # NoRow
    /\ \E r \in rows : Run(s, Lock("delete", r, rows \ {r}))
    /\ UNCHANGED <<committed, draft, owner, batch, pc, nextId>>

(* Queue rows whose record is gone. *)
Orphans(image) ==
    {q \in QueueId : image[q] # NoRow /\ image[image[q].rid] = NoRow}

Continue(s, op, later) ==
    \E x \in later : Run(s, Lock(op, x, later \ {x}))

(* ... and then, row by row as well, the queue rows that refer to them.    *)
DeleteRow(s) ==
    LET q == stmt[s]
        image == [x \in Row |-> IF x = q.next THEN NoRow ELSE Sees(s, x)] IN
    /\ q.op = "delete" /\ Granted(s)
    /\ IF Sees(s, q.next) = NoRow THEN UNCHANGED <<committed, draft, owner>>
                                  ELSE Locks(s, One(q.next, NoRow))
    /\ IF q.later # {} THEN Continue(s, "delete", q.later)
       ELSE IF Orphans(image) # {} THEN Continue(s, "cascade", Orphans(image))
       ELSE Run(s, NoStatement)
    /\ UNCHANGED <<batch, pc, nextId>>

CascadeRow(s) ==
    LET q == stmt[s] IN
    /\ q.op = "cascade" /\ Granted(s)
    /\ Locks(s, One(q.next, NoRow))
    /\ IF q.later = {} THEN Run(s, NoStatement) ELSE Continue(s, "cascade", q.later)
    /\ UNCHANGED <<batch, pc, nextId>>

Commit(s) ==
    /\ Idle(s) /\ Mine(s) # {}
    /\ CommitWith(s, <<>>)
    /\ UNCHANGED <<stmt, batch, pc, nextId>>

(* The caller rolls back; or its statement fails - a duplicate id, a       *)
(* deadlock or a timeout, a lost connection - and the transaction with it. *)
Rollback(s) ==
    /\ Mine(s) # {} \/ ~Idle(s)
    /\ Roll(s) /\ Run(s, NoStatement)
    /\ UNCHANGED <<batch, pc, nextId>>

-----------------------------------------------------------------------------
(* Drainers. *)

Active(row) == row # NoRow /\ row.outcome = "active"

Exhausted(row) == Active(row) /\ row.visible /\ row.attempts >= MaxAttempts

Unlocked == UNCHANGED <<committed, draft, owner>>

(* claimBatch, first statement: one UPDATE of every exhausted row. *)
SweepBegins(w) ==
    LET rows == {q \in QueueId : Exhausted(committed[q])} IN
    /\ pc[w] = "idle" /\ Idle(w)
    /\ IF rows = {}
       THEN pc' = [pc EXCEPT ![w] = "claim"] /\ UNCHANGED stmt
       ELSE Continue(w, "sweep", rows) /\ UNCHANGED pc
    /\ Unlocked /\ UNCHANGED <<batch, nextId>>

SweepRow(w) ==
    LET q == stmt[w]
        row == committed[q.next]
        new == One(q.next, IF Exhausted(row) THEN [row EXCEPT !.outcome = "failed"]
                                             ELSE row) IN
    /\ q.op = "sweep" /\ Granted(w)
    /\ IF q.later # {}
       THEN Locks(w, new) /\ Continue(w, "sweep", q.later) /\ UNCHANGED pc
       ELSE /\ CommitWith(w, new) /\ Run(w, NoStatement)
            /\ pc' = [pc EXCEPT ![w] = "claim"]
    /\ UNCHANGED <<batch, nextId>>

Candidate(q) ==
    /\ owner[q] = NoOne                                       \* skip locked
    /\ Active(committed[q]) /\ committed[q].visible
    /\ committed[q].attempts < MaxAttempts

Current(row) == committed[row.rid] # NoRow /\ committed[row.rid].cv = row.cv

ClaimRow(row) ==
    IF Current(row) THEN [row EXCEPT !.attempts = @ + 1, !.visible = FALSE]
                    ELSE [row EXCEPT !.outcome = "cancelled"]

(* Second statement.  It waits for no lock, and looks at the record its    *)
(* snapshot holds, whoever may be changing it.                             *)
ClaimBatch(w, taken) ==
    LET mine == {q \in taken : Current(committed[q])} IN
    /\ pc[w] = "claim"
    /\ \A q \in taken : Candidate(q)
    /\ Cardinality(taken) <= BatchSize
    /\ CommitWith(w, [q \in taken |-> ClaimRow(committed[q])])
    /\ batch' = [batch EXCEPT ![w] =
          {[q |-> q, rid |-> committed[q].rid, cv |-> committed[q].cv,
            content |-> committed[committed[q].rid].content] : q \in mine}]
    /\ pc' = [pc EXCEPT ![w] = IF mine = {} THEN "idle" ELSE "embed"]
    /\ UNCHANGED <<stmt, nextId>>

(* The provider answers, throttles (or its vectors have the wrong          *)
(* dimension), or fails.                                                   *)
Provider(w) ==
    /\ pc[w] = "embed"
    /\ \E p \in {"write", "release", "fail"} : pc' = [pc EXCEPT ![w] = p]
    /\ Unlocked /\ UNCHANGED <<stmt, batch, nextId>>

First(w) == CHOOSE k \in batch[w] : \A j \in batch[w] : k.q <= j.q

Settled(w) ==
    /\ batch' = [batch EXCEPT ![w] = @ \ {First(w)}]
    /\ pc' = [pc EXCEPT ![w] = IF batch[w] = {First(w)} THEN "idle" ELSE @]
    /\ Run(w, NoStatement)

(* completeEmbedding, releaseEmbedding or failEmbedding of the next row.   *)
SettleBegins(w) ==
    LET q == First(w).q IN
    /\ pc[w] \in {"write", "release", "fail"} /\ Idle(w)
    /\ IF Active(committed[q])
       THEN /\ Run(w, Lock(CASE pc[w] = "write" -> "fence"
                             [] pc[w] = "release" -> "release"
                             [] pc[w] = "fail" -> "note", q, {}))
            /\ UNCHANGED <<batch, pc>>
       ELSE Settled(w)
    /\ Unlocked /\ UNCHANGED nextId

(* Mutant: the queue row is settled by a statement of its own. *)
FinalizesFirst(w) ==
    LET q == stmt[w].next IN
    /\ stmt[w].op = "fence" /\ Granted(w)
    /\ IF Active(committed[q])
       THEN /\ CommitWith(w, One(q, [committed[q] EXCEPT !.outcome = "completed"]))
            /\ Run(w, Lock("written", First(w).rid, {})) /\ UNCHANGED <<batch, pc>>
       ELSE Settled(w) /\ Unlocked
    /\ UNCHANGED nextId

(* with active: the queue row, if it is active still. *)
Fence(w) ==
    LET q == stmt[w].next IN
    /\ stmt[w].op = "fence" /\ Granted(w)
    /\ IF Active(committed[q])
       THEN /\ Locks(w, One(q, committed[q]))
            /\ Run(w, Lock("written", First(w).rid, {})) /\ UNCHANGED <<batch, pc>>
       ELSE Settled(w) /\ Unlocked
    /\ UNCHANGED nextId

Finalized(q, outcome) == [committed[q] EXCEPT !.outcome = outcome]

(* Mutant: the version is compared before the wait only. *)
WritesAfterWait(w) ==
    LET k == First(w)
        row == committed[k.rid] IN
    /\ stmt[w].op = "written" /\ Granted(w)
    /\ IF row # NoRow
       THEN CommitWith(w, Both(k.q, Finalized(k.q, "completed"),
                k.rid, RecordIntegrity(row, row.content, ModelVector(k.content))))
       ELSE CommitWith(w, One(k.q, Finalized(k.q, "cancelled")))
    /\ Settled(w) /\ UNCHANGED nextId

(* Mutant: one transaction for the whole batch. *)
OneTransaction(w) ==
    LET k == First(w)
        row == committed[k.rid]
        new == Both(k.q, Finalized(k.q, "completed"), k.rid,
                    RecordIntegrity(row, row.content, ModelVector(k.content))) IN
    /\ stmt[w].op = "written"
    /\ IF Current(k)
       THEN Granted(w) /\ IF batch[w] = {k} THEN CommitWith(w, new) ELSE Locks(w, new)
       ELSE CommitWith(w, One(k.q, Finalized(k.q, "cancelled")))
    /\ Settled(w) /\ UNCHANGED nextId

(* written, finalized: the record, when its version is the claimed one  *)
(* before and after the wait for it; then the end of the transaction.      *)
WriteBack(w) ==
    LET k == First(w)
        row == committed[k.rid] IN
    /\ stmt[w].op = "written"
    /\ IF Current(k)
       THEN /\ Granted(w)
            /\ CommitWith(w, Both(k.q, Finalized(k.q, "completed"),
                     k.rid, RecordIntegrity(row, row.content, ModelVector(k.content))))
       ELSE CommitWith(w, One(k.q, Finalized(k.q, "cancelled")))
    /\ Settled(w) /\ UNCHANGED nextId

(* The refund, or the note of an error (which this model does not keep).   *)
SettleRow(w) ==
    LET q == stmt[w].next IN
    /\ stmt[w].op \in {"release", "note"} /\ Granted(w)
    /\ IF stmt[w].op = "release" /\ Active(committed[q])
       THEN \E soon \in BOOLEAN :
               CommitWith(w, One(q, [committed[q] EXCEPT !.visible = soon,
                                         !.attempts = IF @ > 0 THEN @ - 1 ELSE 0]))
       ELSE Unlocked
    /\ Settled(w) /\ UNCHANGED nextId

(* A drainer's statement fails as a caller's may.  A write-back that fails *)
(* is noted; any other error leaves runBatch, and the batch to its lease.  *)
StatementFails(w) ==
    /\ ~Idle(w)
    /\ Roll(w)
    /\ IF stmt[w].op \in {"fence", "written"}
       THEN Run(w, Lock("note", First(w).q, {})) /\ UNCHANGED <<batch, pc>>
       ELSE /\ Run(w, NoStatement)
            /\ batch' = [batch EXCEPT ![w] = {}] /\ pc' = [pc EXCEPT ![w] = "idle"]
    /\ UNCHANGED nextId

Crash(w) ==
    /\ pc[w] # "idle"
    /\ Roll(w) /\ Run(w, NoStatement)
    /\ batch' = [batch EXCEPT ![w] = {}] /\ pc' = [pc EXCEPT ![w] = "idle"]
    /\ UNCHANGED nextId

(* Time: a lease or a retry delay is over, whoever has the row locked.     *)
Lapse(q) ==
    /\ Active(committed[q]) /\ ~committed[q].visible
    /\ committed' = [committed EXCEPT ![q].visible = TRUE]
    /\ draft' = IF draft[q] = NoRow THEN draft ELSE [draft EXCEPT ![q].visible = TRUE]
    /\ UNCHANGED <<owner, stmt, batch, pc, nextId>>

-----------------------------------------------------------------------------
CallerNext(s) ==
    \/ \E r \in RecordId : PutBegins(s, r)
    \/ \E rows \in SUBSET RecordId : DeleteBegins(s, rows)
    \/ PutRow(s) \/ PutNothing(s) \/ DeleteRow(s) \/ CascadeRow(s)
    \/ Commit(s) \/ Rollback(s)

DrainerNext(w) ==
    \/ SweepBegins(w) \/ SweepRow(w)
    \/ \E taken \in SUBSET QueueId : ClaimBatch(w, taken)
    \/ Provider(w) \/ SettleBegins(w) \/ Fence(w) \/ WriteBack(w) \/ SettleRow(w)
    \/ StatementFails(w) \/ Crash(w)

Next ==
    \/ \E s \in Caller : CallerNext(s)
    \/ \E w \in Drainer : DrainerNext(w)
    \/ \E q \in QueueId : Lapse(q)

Spec == Init /\ [][Next]_vars

-----------------------------------------------------------------------------
(* What other sessions see of record r keeps EmbeddingContract, however    *)
(* long transactions stay open, wait, lose a deadlock or roll back: above  *)
(* all, a vector that a drainer computed is committed only beside the text *)
(* it was computed from.  (A commit may change several records at once,    *)
(* so the contract is kept record by record.)                              *)
Visible(r) ==
    IF committed[r] = NoRow THEN NoRow
    ELSE [content |-> committed[r].content, embedding |-> committed[r].embedding]

Contract(r) ==
    INSTANCE EmbeddingContract WITH
        RecordId <- {r}, NoRecord <- NoRow, slot <- [x \in {r} |-> Visible(x)]

KeepsContract ==
    [][\A r \in RecordId : Visible(r)' # Visible(r) => Contract(r)!Next]_vars

(* At every moment, a record that everybody sees without a vector is in a  *)
(* queue row that everybody sees, which is pending or has failed: rows are *)
(* enqueued in the writer's transaction and settled in the write-back's.   *)
WorkIsQueued ==
    \A r \in RecordId :
        committed[r] # NoRow /\ committed[r].embedding = NoVector =>
            \E q \in QueueId :
                /\ committed[q] # NoRow
                /\ committed[q].rid = r /\ committed[q].cv = committed[r].cv
                /\ committed[q].outcome \in {"active", "failed"}

Waits(s, t) == ~Idle(s) /\ t # s /\ owner[stmt[s].next] = t

(* Sessions of which each waits for another. *)
Tangled(W) == W # {} /\ \A s \in W : \E t \in W : Waits(s, t)

Cycle(W) == Tangled(W) /\ \A V \in SUBSET W : Tangled(V) => V = W

(* A deadlock that a write-back, a refund or a note is part of has a       *)
(* caller's delete in it, waiting for the queue rows of its records, which *)
(* alone takes the locks in the other order.  Drainers by themselves never *)
(* wait for each other in a circle, but for two sweeps whose plans visit   *)
(* the rows in different orders.                                           *)
OnlyDeletesTangle ==
    \A W \in SUBSET Session :
        Cycle(W) /\ (\E w \in W \cap Drainer : stmt[w].op # "sweep")
            => \E s \in W : stmt[s].op = "cascade"

(* "A claim locks eligible rows for update skip locked, so many drainers   *)
(* ... share one queue without blocking each other" (embedding-queue.ts:   *)
(* 79): no claim is held up by another drainer's write-back that waits for *)
(* a caller's open transaction.                                            *)
ClaimsDontBlock ==
    \A w, v \in Drainer : stmt[w].op = "sweep" /\ Waits(w, v)
        => \A s \in Caller : ~Waits(v, s)
=============================================================================
