----------------------------- MODULE BatchUpsert -----------------------------
(***************************************************************************)
(* upsertMany (write.ts) and the batch_upsert routine (batch-upsert.ts):   *)
(* the one write path of insert, insertMany, upsert, upsertMany and the    *)
(* CLI's import.  A call is one transaction of three statements - probe,   *)
(* mutation, resolution - in READ COMMITTED: each statement sees what is   *)
(* committed when it starts, and the mutation reaches its rows one by one, *)
(* locking each and waiting for any other call that locked it first.       *)
(*                                                                         *)
(* A record is its conflict key, its text, its other fields and whether it *)
(* has a vector; "tree" of an unnamed record is one of its other fields.   *)
(***************************************************************************)
EXTENDS Integers, FiniteSets, Functions

CONSTANTS
    RecordId,       \* the ids records have or may get
    Slot,           \* (tree, name) pairs
    NoSlot,         \* name is null
    NoId,           \* the caller gives no id
    Content, Meta, Vector, NoVector,
    ModelVector,    \* the vector a drainer writes
    Batches,        \* the batches callers may submit
    Modes,          \* the onConflict options callers may use
    Call,           \* concurrent calls
    NoRow,
    MaxCalls        \* bound: calls made in all

VARIABLES
    table,          \* table[r]: the committed row of record r
    pc,             \* pc[c]: the statement call c is at
    batch, mode,    \* its arguments
    done,           \* done[c]: the inputs already handled, with their status
    own,            \* own[c]: rows call c wrote and has not committed
    locked,         \* locked[c]: rows call c holds a row lock on
    answer,         \* answer[c]: what the last call on c told its caller
    calls

vars == <<table, pc, batch, mode, done, own, locked, answer, calls>>

-----------------------------------------------------------------------------
Row == [slot : Slot \cup {NoSlot}, content : Content, meta : Meta,
        vector : Vector \cup {ModelVector, NoVector}]

(* One element of a batch. *)
Input == [id : RecordId \cup {NoId}, slot : Slot \cup {NoSlot},
          content : Content, meta : Meta, vector : Vector \cup {NoVector}]

Status == {"inserted", "updated", "skipped"}

Outcome == [input : Input, status : Status, id : RecordId \cup {NoId}]

Named(i) == i.slot # NoSlot
Keyed(i) == Named(i) \/ i.id # NoId

(* upsertMany and the routine both reject a batch that repeats a key. *)
RepeatsKey(b) ==
    \E i, j \in b : i # j /\ \/ i.id # NoId /\ i.id = j.id
                             \/ Named(i) /\ i.slot = j.slot

ASSUME Assumptions ==
    /\ NoRow \notin Row
    /\ NoId \notin RecordId /\ NoSlot \notin Slot
    /\ ModelVector \notin Vector \cup {NoVector} /\ NoVector \notin Vector
    /\ Batches \subseteq SUBSET Input
    /\ Modes \subseteq {"error", "replace", "ignore"}
    /\ MaxCalls \in Nat

Answers == {"none", "ok", "invalid", "conflict", "aborted"}

TypeOK ==
    /\ table \in [RecordId -> Row \cup {NoRow}]
    /\ pc \in [Call -> {"idle", "probe", "mutate", "resolve", "commit"}]
    /\ \A c \in Call :
          /\ pc[c] # "idle" => batch[c] \in Batches /\ mode[c] \in Modes
          /\ done[c] \subseteq Outcome
          /\ \A o, p \in done[c] : o.input = p.input => o = p
          /\ DOMAIN own[c] \subseteq locked[c] /\ Range(own[c]) \subseteq Row
          /\ locked[c] \subseteq RecordId
          /\ answer[c] \in [told : Answers, wrote : BOOLEAN]
    /\ calls \in 0..MaxCalls

Nothing == [r \in {} |-> NoRow]

NoAnswer == [told |-> "none", wrote |-> FALSE]

Init ==
    /\ table = [r \in RecordId |-> NoRow]
    /\ pc = [c \in Call |-> "idle"]
    /\ batch = [c \in Call |-> {}]
    /\ mode = [c \in Call |-> "error"]
    /\ done = [c \in Call |-> {}]
    /\ own = [c \in Call |-> Nothing]
    /\ locked = [c \in Call |-> {}]
    /\ answer = [c \in Call |-> NoAnswer]
    /\ calls = 0

(* What call c sees: the committed rows under its own writes. *)
Sees(c, r) == IF r \in DOMAIN own[c] THEN own[c][r] ELSE table[r]

Busy(r) == \E c \in Call : r \in locked[c]
BusyFor(c, r) == \E d \in Call \ {c} : r \in locked[d]

-----------------------------------------------------------------------------
(* A call: arguments, the probe, the mutation's rows, the answer. *)

Start(c) ==
    /\ pc[c] = "idle"
    /\ calls < MaxCalls
    /\ \E b \in Batches, m \in Modes :
          /\ ~RepeatsKey(b)
          /\ batch' = [batch EXCEPT ![c] = b]
          /\ mode' = [mode EXCEPT ![c] = m]
    /\ pc' = [pc EXCEPT ![c] = "probe"]
    /\ answer' = [answer EXCEPT ![c] = NoAnswer]
    /\ calls' = calls + 1
    /\ UNCHANGED <<table, done, own, locked>>

Reply(c, told, wrote) ==
    /\ pc' = [pc EXCEPT ![c] = "idle"]
    /\ own' = [own EXCEPT ![c] = Nothing]
    /\ locked' = [locked EXCEPT ![c] = {}]
    /\ batch' = [batch EXCEPT ![c] = {}]
    /\ mode' = [mode EXCEPT ![c] = "error"]
    /\ done' = [done EXCEPT ![c] = {}]
    /\ answer' = [answer EXCEPT ![c] = [told |-> told, wrote |-> wrote]]
    /\ UNCHANGED calls

(* An unnamed input's id and a named input's slot that lead to one row. *)
Aliased(b) ==
    \E i, j \in b, r \in RecordId :
        /\ ~Named(i) /\ i.id = r /\ Named(j)
        /\ table[r] # NoRow /\ table[r].slot = j.slot

Probe(c) ==
    /\ pc[c] = "probe"
    /\ IF Aliased(batch[c])
       THEN Reply(c, "invalid", FALSE)
       ELSE /\ pc' = [pc EXCEPT ![c] = "mutate"]
            /\ UNCHANGED <<batch, mode, done, own, locked, answer, calls>>
    /\ UNCHANGED table

(* The mutation's arms run in this order: named, by id, anonymous. *)
Arm(i) == IF Named(i) THEN 1 ELSE IF i.id # NoId THEN 2 ELSE 3

Waiting(c) == batch[c] \ {o.input : o \in done[c]}

IsNext(c, i) == i \in Waiting(c) /\ \A j \in Waiting(c) : Arm(i) <= Arm(j)

(* The rows an input conflicts with: ON CONFLICT looks at the newest state *)
(* of the unique index, not at the statement's snapshot.                   *)
Target(c, i) ==
    {r \in RecordId : Sees(c, r) # NoRow /\
        IF Named(i) THEN Sees(c, r).slot = i.slot ELSE r = i.id}

(* Somebody else's uncommitted write decides whether there is a conflict. *)
Blocked(c, i) ==
    \/ \E r \in Target(c, i) : BusyFor(c, r)
    \/ /\ Named(i)
       /\ \E d \in Call \ {c} : \E r \in DOMAIN own[d] : own[d][r].slot = i.slot
    \/ Target(c, i) = {} /\ i.id # NoId /\ BusyFor(c, i.id)

(* Mutant: an identical replace writes. *)
DiffersInVector(row, i) ==
    \/ row.content # i.content \/ row.meta # i.meta
    \/ ~Named(i) /\ row.slot # i.slot
    \/ row.vector # i.vector

(* The update's WHERE: does the input change anything? *)
Differs(row, i) ==
    \/ row.content # i.content \/ row.meta # i.meta
    \/ ~Named(i) /\ row.slot # i.slot
    \/ i.vector # NoVector /\ row.vector # i.vector

(* Mutant: SET embedding = excluded.embedding. *)
ClearingReplace(row, i) ==
    [slot |-> i.slot, content |-> i.content, meta |-> i.meta,
     vector |-> i.vector]

(* A missing vector keeps the stored one while the text stays the same;    *)
(* record_integrity drops a vector that would survive a change of text.    *)
Replaced(row, i) ==
    LET e == IF i.vector = NoVector /\ row.content = i.content
             THEN row.vector ELSE i.vector
    IN  [slot |-> i.slot, content |-> i.content, meta |-> i.meta,
         vector |-> IF row.content # i.content /\ e = row.vector
                    THEN NoVector ELSE e]

Note(c, i, status, r) ==
    done' = [done EXCEPT ![c] = @ \cup {[input |-> i, status |-> status,
                                         id |-> r]}]

WriteOwn(c, i, r, row, status) ==
    /\ own' = [own EXCEPT ![c] = [x \in DOMAIN @ \cup {r} |->
                                    IF x = r THEN row ELSE @[x]]]
    /\ locked' = [locked EXCEPT ![c] = @ \cup {r}]
    /\ Note(c, i, status, r)

(* Mutant: ON CONFLICT DO NOTHING takes no lock. *)
SkipUnlocked(c, i, r) ==
    /\ ~(mode[c] = "replace" /\ Differs(table[r], i))
    /\ Note(c, i, "skipped", NoId)
    /\ UNCHANGED <<own, locked>>

(* ON CONFLICT DO UPDATE locks the row whether or not its WHERE holds. *)
Skip(c, i, r) ==
    /\ ~(mode[c] = "replace" /\ Differs(table[r], i))
    /\ locked' = [locked EXCEPT ![c] = @ \cup {r}]
    /\ Note(c, i, "skipped", NoId)
    /\ UNCHANGED own

Overwrite(c, i, r) ==
    /\ mode[c] = "replace" /\ Differs(table[r], i)
    /\ WriteOwn(c, i, r, Replaced(table[r], i), "updated")

(* Ids the server mints are nobody's explicit ids. *)
Explicit == {i.id : i \in UNION Batches}

(* A new row gets the given id or a freshly minted one. *)
Insert(c, i, r) ==
    /\ Target(c, i) = {}
    /\ IF i.id # NoId THEN r = i.id ELSE r \notin Explicit /\ ~Busy(r)
    /\ Sees(c, r) = NoRow
    /\ WriteOwn(c, i, r, [slot |-> i.slot, content |-> i.content,
                          meta |-> i.meta, vector |-> i.vector], "inserted")

MutateRow(c, i) ==
    /\ pc[c] = "mutate" /\ IsNext(c, i) /\ ~Blocked(c, i)
    /\ \/ \E r \in Target(c, i) \ DOMAIN own[c] :
             Skip(c, i, r) \/ Overwrite(c, i, r)
       \/ \E r \in RecordId : Insert(c, i, r)
    /\ UNCHANGED <<table, pc, batch, mode, answer, calls>>

(* The statement raises: a second change of one row, or a named input      *)
(* whose slot is free but whose id is taken.  The transaction rolls back.  *)
MutateRaises(c, i) ==
    /\ pc[c] = "mutate" /\ IsNext(c, i) /\ ~Blocked(c, i)
    /\ \/ Target(c, i) \cap DOMAIN own[c] # {} /\ Reply(c, "aborted", FALSE)
       \/ /\ Target(c, i) = {} /\ i.id # NoId /\ Sees(c, i.id) # NoRow
          /\ Reply(c, "conflict", FALSE)
    /\ UNCHANGED table

(* Mode 'error' fails the whole call when an input was skipped. *)
MutationEnds(c) ==
    /\ pc[c] = "mutate" /\ Waiting(c) = {}
    /\ IF mode[c] = "error" /\ \E o \in done[c] : o.status = "skipped"
       THEN Reply(c, "conflict", FALSE)
       ELSE /\ pc' = [pc EXCEPT ![c] = "resolve"]
            /\ UNCHANGED <<batch, mode, done, own, locked, answer, calls>>
    /\ UNCHANGED table

(* Skipped inputs get the id stored under their key now. *)
StoredId(c, i) ==
    IF ~Named(i) THEN i.id
    ELSE IF \E r \in RecordId : Sees(c, r) # NoRow /\ Sees(c, r).slot = i.slot
         THEN CHOOSE r \in RecordId :
                  Sees(c, r) # NoRow /\ Sees(c, r).slot = i.slot
         ELSE NoId

Resolve(c) ==
    /\ pc[c] = "resolve"
    /\ done' = [done EXCEPT ![c] =
                  {IF o.status = "skipped"
                   THEN [o EXCEPT !.id = StoredId(c, o.input)] ELSE o :
                      o \in done[c]}]
    /\ pc' = [pc EXCEPT ![c] = "commit"]
    /\ UNCHANGED <<table, batch, mode, own, locked, answer, calls>>

(* The select commits by itself; upsertMany then reads the rows it         *)
(* returned, unless the connection is lost.                                *)
Commit(c) ==
    /\ pc[c] = "commit"
    /\ table' = [r \in RecordId |-> Sees(c, r)]
    /\ \/ Reply(c, "none", own[c] # Nothing)
       \/ Reply(c, IF \E o \in done[c] : o.id = NoId THEN "conflict" ELSE "ok",
                own[c] # Nothing)

(* A crash, a timeout, or - when blocked - the deadlock detector. *)
Rollback(c) ==
    /\ pc[c] # "idle"
    /\ Reply(c, "aborted", FALSE)
    /\ UNCHANGED table

-----------------------------------------------------------------------------
(* Everybody else: one-statement writes, which wait for row locks. *)

Write(r, row) ==
    /\ table[r] # NoRow /\ ~Busy(r)
    /\ table' = [table EXCEPT ![r] = row]
    /\ UNCHANGED <<pc, batch, mode, done, own, locked, answer, calls>>

Free(k) ==
    /\ \A r \in RecordId : table[r] # NoRow => table[r].slot # k
    /\ \A c \in Call : \A r \in DOMAIN own[c] : own[c][r].slot # k

Delete(r) == Write(r, NoRow)

Rename(r) ==
    \E k \in Slot \cup {NoSlot} :
        /\ k # NoSlot => Free(k)
        /\ Write(r, [table[r] EXCEPT !.slot = k])

Embed(r) ==
    /\ table[r] # NoRow /\ table[r].vector = NoVector
    /\ Write(r, [table[r] EXCEPT !.vector = ModelVector])

CallNext(c) ==
    \/ Start(c) \/ Probe(c) \/ MutationEnds(c) \/ Resolve(c) \/ Commit(c)
    \/ \E i \in batch[c] : MutateRow(c, i) \/ MutateRaises(c, i)
    \/ Rollback(c)

Next ==
    \/ \E c \in Call : CallNext(c)
    \/ \E r \in RecordId : Delete(r) \/ Rename(r) \/ Embed(r)

Spec == Init /\ [][Next]_vars

-----------------------------------------------------------------------------
(* Properties. *)

(* The promise of a call that is about to commit, in any mode but "error": *)
(* every keyed input is in the table under its key, and replace has left   *)
(* there what it was given - although other calls, renames and deletes ran *)
(* between its statements.                                                 *)
BatchApplies ==
    \A c \in Call : pc[c] = "commit" =>
        \A i \in batch[c] : Keyed(i) =>
            \E r \in RecordId :
                /\ Sees(c, r) # NoRow
                /\ IF Named(i) THEN Sees(c, r).slot = i.slot ELSE r = i.id
                /\ mode[c] = "replace" =>
                      /\ Sees(c, r).content = i.content
                      /\ Sees(c, r).meta = i.meta

(* Every input is answered with the id of the record that holds its key,   *)
(* and no two inputs with the same id.                                     *)
AnswersNameRecords ==
    \A c \in Call : pc[c] = "commit" =>
        /\ \A i \in batch[c] : \E o \in done[c] : o.input = i
        /\ \A o \in done[c] :
              /\ o.id # NoId /\ Sees(c, o.id) # NoRow
              /\ IF Named(o.input) THEN Sees(c, o.id).slot = o.input.slot
                 ELSE o.input.id \in {o.id, NoId}
        /\ \A o, p \in done[c] : o.id = p.id => o = p

(* "inserted", "updated" and "skipped" say what the commit does to the     *)
(* record: it was not there; it was there, the mode is replace and a field *)
(* really changes; it stays as it is, and the mode is not error.  So       *)
(* running the same import again is a no-op, ignore never changes a record *)
(* somebody else stored, and error commits everything or nothing.          *)
StatusesAreTrue ==
    \A c \in Call : pc[c] = "commit" =>
        \A o \in done[c] :
            CASE o.status = "inserted" -> table[o.id] = NoRow
              [] o.status = "updated" ->
                    /\ mode[c] = "replace" /\ table[o.id] # NoRow
                    /\ Sees(c, o.id) # table[o.id]
              [] o.status = "skipped" ->
                    mode[c] # "error" /\ o.id \notin DOMAIN own[c]

(* What a call answers is what it commits.                                 *)
AnswersAreTrue == AnswersNameRecords /\ StatusesAreTrue

(* docs/guides/ingest.md: re-running an import is a no-op - no write ever  *)
(* loses the vector of a record whose text it leaves alone.                *)
VectorSurvivesReplace ==
    [][\A r \in RecordId :
          (/\ table[r] # NoRow /\ table[r].vector # NoVector
           /\ table'[r] # NoRow /\ table'[r].content = table[r].content)
          => table'[r].vector # NoVector]_vars

(* docs/guides/ingest.md: a batch in which an id and a name resolve to the *)
(* same existing record is rejected before anything is written - so a call *)
(* that is answered with an error has written nothing.                     *)
RejectionWritesNothing ==
    \A c \in Call : answer[c].told \in {"invalid", "conflict", "aborted"} =>
        ~answer[c].wrote
=============================================================================
