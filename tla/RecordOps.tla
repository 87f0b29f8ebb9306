----------------------------- MODULE RecordOps ------------------------------
(***************************************************************************)
(* Patching, deleting, moving and copying records.  Every call is one SQL  *)
(* statement under READ COMMITTED: it picks its rows in a snapshot, may    *)
(* wait for other transactions' row locks, and then looks at the rows      *)
(* again as they have become.  Other calls happen in between.              *)
(***************************************************************************)
EXTENDS Naturals, Sequences, FiniteSets, SequencesExt

CONSTANTS
    Id, Label, Name, Content, Client,
    Depth,          \* bound: records live at most this deep in the tree
    Width,          \* bound: a patch sets at most this many fields
    NoName, NoVector, NoRecord

VARIABLES
    record,     \* record[i]: the committed record with id i, or NoRecord
    call,       \* call[c]: what client c has read, or the statement it runs
    answer      \* answer[c]: the result of c's call that just ended, or "none"

vars == <<record, call, answer>>

Tree == SeqOf(Label, Depth)

(* The fields version_hash is computed from; the vector is not one.        *)
Fields == [tree : Tree, name : Name \cup {NoName}, content : Content]
Record == [fields : Fields, vector : Content \cup {NoVector}]

Present == {i \in Id : record[i] # NoRecord}

(* A patch sets some fields, and may bring the vector of the content the   *)
(* record will have, as far as the client knows.                           *)
Patch == [sets : SUBSET {"tree", "name", "content"}, to : Fields, embeds : BOOLEAN]

Idle == [op |-> "none"]

Call ==
    {Idle}
    \cup [op : {"read"}, id : Id, prior : Fields]
    \cup [op : {"patch"}, id : Id, prior : Fields, patch : Patch]
    \cup [op : {"delete"}, id : Id, tree : Tree, name : Name]
    \cup [op : {"move"}, src : Tree, dst : Tree, rows : SUBSET Id]
    \cup [op : {"deleteTree"}, src : Tree, rows : SUBSET Id]

Answer == {"none", "patched", "stale", "conflict", "not_found", "deleted", "done"}

ASSUME Assumptions ==
    Depth \in Nat /\ Width \in Nat /\ IsFiniteSet(Id) /\
    NoName \notin Name /\ NoVector \notin Content /\ NoRecord \notin Record

NoAnswer == [c \in Client |-> "none"]

TypeOK ==
    /\ record \in [Id -> Record \cup {NoRecord}]
    /\ \A c \in Client : call[c] \in Call /\ answer[c] \in Answer
    /\ DOMAIN call = Client /\ DOMAIN answer = Client

Init ==
    /\ record = [i \in Id |-> NoRecord]
    /\ call = [c \in Client |-> Idle]
    /\ answer = NoAnswer

-----------------------------------------------------------------------------
Under(src, t) == IsPrefix(src, t)

Subtree(src) == {i \in Present : Under(src, record[i].fields.tree)}

(* The case expression of move_tree and copy_tree. *)
Rebase(src, dst, t) == dst \o SubSeq(t, Len(src) + 1, Len(t))

Slot(r) == <<r.fields.tree, r.fields.name>>

TakenBelowRoot(slot, ids) ==
    slot[2] # NoName /\ slot[1] # <<>>
    /\ \E i \in ids \cap Present : Slot(record[i]) = slot

(* The unique index on (tree, name) of the named records. *)
Taken(slot, ids) ==
    slot[2] # NoName /\ \E i \in ids \cap Present : Slot(record[i]) = slot

Ask(c, statement) ==
    /\ call' = [call EXCEPT ![c] = statement]
    /\ answer' = NoAnswer
    /\ UNCHANGED record

Reply(c, told) ==
    /\ call' = [call EXCEPT ![c] = Idle]
    /\ answer' = [NoAnswer EXCEPT ![c] = told]

KeepVector(old, new) == old.vector

(* record_integrity: new content without a new vector drops the old one.   *)
VectorAfter(old, new) ==
    IF new.content # old.fields.content THEN NoVector ELSE old.vector

(* get, getByName. *)
Get(c, i) ==
    /\ call[c] = Idle /\ i \in Present
    /\ Ask(c, [op |-> "read", id |-> i, prior |-> record[i].fields])

SetFields(fields, p) ==
    [f \in DOMAIN fields |-> IF f \in p.sets THEN p.to[f] ELSE fields[f]]

(* patch_record's snapshot: is there such a record, is it the one read?    *)
PatchBegins(c, p) ==
    /\ call[c].op = "read"
    /\ p.embeds \/ p.sets # {}
    /\ Cardinality(p.sets) <= Width
    /\ \A f \in DOMAIN p.to \ p.sets : p.to[f] = call[c].prior[f]  \* not in the patch
    /\ LET i == call[c].id IN
       \/ i \notin Present /\ Reply(c, "not_found") /\ UNCHANGED record
       \/ /\ i \in Present /\ record[i].fields # call[c].prior
          /\ Reply(c, "stale") /\ UNCHANGED record
       \/ /\ i \in Present /\ record[i].fields = call[c].prior
          /\ Ask(c, [op |-> "patch", id |-> i, prior |-> call[c].prior, patch |-> p])

HashIgnoresContent(i, prior) ==
    i \in Present /\ record[i].fields.tree = prior.tree
                  /\ record[i].fields.name = prior.name

(* The row, locked at last, is still the one the client read.              *)
SameHash(i, prior) == i \in Present /\ record[i].fields = prior

PatchApplies(c) ==
    LET q == call[c]
        new == SetFields(record[q.id].fields, q.patch) IN
    /\ q.op = "patch"
    /\ \/ ~SameHash(q.id, q.prior) /\ Reply(c, "stale") /\ UNCHANGED record
       \/ /\ SameHash(q.id, q.prior)
          /\ Taken(<<new.tree, new.name>>, Id \ {q.id})
          /\ Reply(c, "conflict") /\ UNCHANGED record
       \/ /\ SameHash(q.id, q.prior)
          /\ ~Taken(<<new.tree, new.name>>, Id \ {q.id})
          /\ record' = [record EXCEPT ![q.id] =
                [fields |-> new,
                 vector |-> IF q.patch.embeds
                            THEN SetFields(q.prior, q.patch).content
                            ELSE VectorAfter(record[q.id], new)]]
          /\ Reply(c, "patched")

(* delete_record_by_name and delete_record: the row found must still have  *)
(* that address.                                                           *)
DeleteBegins(c, t, n) ==
    /\ call[c] = Idle
    /\ \/ ~Taken(<<t, n>>, Id) /\ Reply(c, "not_found") /\ UNCHANGED record
       \/ \E i \in Present :
             /\ Slot(record[i]) = <<t, n>>
             /\ Ask(c, [op |-> "delete", id |-> i, tree |-> t, name |-> n])

FoundById(q) == q.id \in Present

StillThere(q) == q.id \in Present /\ Slot(record[q.id]) = <<q.tree, q.name>>

DeleteApplies(c) ==
    /\ call[c].op = "delete"
    /\ IF StillThere(call[c])
       THEN /\ record' = [record EXCEPT ![call[c].id] = NoRecord]
            /\ Reply(c, "deleted")
       ELSE Reply(c, "not_found") /\ UNCHANGED record

Delete(c, i) ==
    /\ call[c] = Idle
    /\ record' = [record EXCEPT ![i] = NoRecord]
    /\ Reply(c, IF i \in Present THEN "deleted" ELSE "not_found")

-----------------------------------------------------------------------------
(* move_tree: the snapshot's rows, of which those still under the source   *)
(* are rewritten.                                                          *)
MoveBegins(c, src, dst) ==
    /\ call[c] = Idle
    /\ Ask(c, [op |-> "move", src |-> src, dst |-> dst, rows |-> Subtree(src)])

MovesSnapshot(q) == q.rows \cap Present

Moves(q) == q.rows \cap Subtree(q.src)

(* The rows are rewritten one after another in an order of PostgreSQL's    *)
(* choice, each against the index as it is by then: a slot that a later    *)
(* row of the same move would leave still counts.                          *)
Collides(order, q) ==
    \E k \in 1 .. Len(order) :
        Taken(<<Rebase(q.src, q.dst, record[order[k]].fields.tree),
                record[order[k]].fields.name>>,
              (Id \ Moves(q)) \cup {order[l] : l \in k + 1 .. Len(order)})

MoveApplies(c) ==
    LET q == call[c] IN
    /\ q.op = "move"
    /\ \A i \in Moves(q) : Len(Rebase(q.src, q.dst, record[i].fields.tree)) <= Depth
    /\ \E order \in SetToSeqs(Moves(q)) :
          \/ Collides(order, q) /\ Reply(c, "conflict") /\ UNCHANGED record
          \/ /\ ~Collides(order, q)
             /\ record' = [i \in Id |-> IF i \in Moves(q)
                   THEN [record[i] EXCEPT !.fields.tree = Rebase(q.src, q.dst, @)]
                   ELSE record[i]]
             /\ Reply(c, "done")

(* copy_tree inserts copies of what its snapshot holds and looks at no row *)
(* again, so a copy of a subtree into itself ends.                         *)
Copy(c, src, dst) ==
    /\ call[c] = Idle
    /\ \A i \in Subtree(src) : Len(Rebase(src, dst, record[i].fields.tree)) <= Depth
    /\ IF \E i \in Subtree(src) :
             Taken(<<Rebase(src, dst, record[i].fields.tree), record[i].fields.name>>, Id)
       THEN Reply(c, "conflict") /\ UNCHANGED record
       ELSE \E f \in [Subtree(src) -> Id \ Present] :
               /\ \A i, j \in Subtree(src) : f[i] = f[j] => i = j
               /\ record' = [n \in Id |->
                     IF \E i \in Subtree(src) : f[i] = n
                     THEN LET i == CHOOSE i \in Subtree(src) : f[i] = n IN
                          [record[i] EXCEPT !.fields.tree = Rebase(src, dst, @)]
                     ELSE record[n]]
               /\ Reply(c, "done")

DeleteTreeBegins(c, src) ==
    /\ call[c] = Idle
    /\ Ask(c, [op |-> "deleteTree", src |-> src, rows |-> Subtree(src)])

DeleteTreeApplies(c) ==
    LET gone == Moves(call[c]) IN
    /\ call[c].op = "deleteTree"
    /\ record' = [i \in Id |-> IF i \in gone THEN NoRecord ELSE record[i]]
    /\ Reply(c, "done")

-----------------------------------------------------------------------------
(* A record is written with a generated id, which no call knows yet (its   *)
(* batch is BatchUpsert's), and a drainer fills a missing vector (its      *)
(* fence is EmbeddingQueue's).                                             *)
Known(q, i) ==
    \/ q.op \in {"read", "patch", "delete"} /\ q.id = i
    \/ q.op \in {"move", "deleteTree"} /\ i \in q.rows

Create(i, fields) ==
    /\ i \notin Present /\ \A c \in Client : ~Known(call[c], i)
    /\ ~Taken(<<fields.tree, fields.name>>, Id)
    /\ record' = [record EXCEPT ![i] = [fields |-> fields, vector |-> NoVector]]
    /\ answer' = NoAnswer /\ UNCHANGED call

Embed(i) ==
    /\ i \in Present /\ record[i].vector = NoVector
    /\ record' = [record EXCEPT ![i].vector = record[i].fields.content]
    /\ answer' = NoAnswer /\ UNCHANGED call

(* The client gives up what it has read, or its statement fails.           *)
Forget(c) == call[c] # Idle /\ Ask(c, Idle)

Next ==
    \/ \E c \in Client, i \in Id : Get(c, i) \/ Delete(c, i)
    \/ \E c \in Client, p \in Patch : PatchBegins(c, p)
    \/ \E c \in Client, t \in Tree, n \in Name : DeleteBegins(c, t, n)
    \/ \E c \in Client, src, dst \in Tree :
          MoveBegins(c, src, dst) \/ Copy(c, src, dst)
    \/ \E c \in Client, src \in Tree : DeleteTreeBegins(c, src)
    \/ \E c \in Client : PatchApplies(c) \/ DeleteApplies(c) \/ MoveApplies(c)
                        \/ DeleteTreeApplies(c) \/ Forget(c)
    \/ \E i \in Id, f \in Fields : Create(i, f)
    \/ \E i \in Id : Embed(i)

Spec == Init /\ [][Next]_vars

-----------------------------------------------------------------------------
(* However moves, copies, renames and deletes overlap, no two records end  *)
(* up at one (tree, name), the root included.                              *)
NamesAreUnique ==
    \A i, j \in Present : Slot(record[i]) = Slot(record[j])
        => i = j \/ record[i].fields.name = NoName

(* A vector a client computed from what it had read (or from the content   *)
(* it writes) is never stored beside another text, although version_hash   *)
(* does not cover the vector and the client's reading may be long past.    *)
VectorDescribesContent ==
    \A i \in Present : record[i].vector \in {NoVector, record[i].fields.content}

(* "PostgreSQL re-evaluates the UPDATE's WHERE against the new row"        *)
(* (routines/records.ts:102): a patch overwrites exactly the record its    *)
(* client read, also when it had to wait for another patch or a move.      *)
PatchOverwritesWhatWasRead ==
    [][\A c \in Client : call[c].op = "patch" /\ answer'[c] = "patched" =>
          /\ call[c].id \in Present
          /\ record[call[c].id].fields = call[c].prior]_vars

(* "a row a concurrent writer moved out from under _src ... is not         *)
(* mis-rewritten" (routines/tree.ts:22): a subtree call changes no record  *)
(* that is not in the subtree at that moment.                              *)
SubtreeOnly ==
    [][\A c \in Client : call[c].op \in {"move", "deleteTree"} /\ call'[c] = Idle =>
          \A i \in Present : record'[i] # record[i]
              => Under(call[c].src, record[i].fields.tree)]_vars

(* deleteByName removes a record only from the address it was given, not   *)
(* one that was moved away while the statement waited.                     *)
DeleteByNameIsExact ==
    [][\A c \in Client, i \in Present :
          call[c].op = "delete" /\ call'[c] = Idle /\ record'[i] = NoRecord
            => Slot(record[i]) = <<call[c].tree, call[c].name>>]_vars

(* Whoever waited for a row changes it only if it still is what the call   *)
(* addressed, a subtree or a name.                                         *)
OnlyWhatWasAddressed == SubtreeOnly /\ DeleteByNameIsExact

(* "A patch ... addressed a record that doesn't exist" is NotFoundError    *)
(* (errors.md:99), so a patch answered "stale" leaves the record to read.  *)
StaleMeansChanged ==
    [][\A c \in Client : call[c].op = "patch" /\ answer'[c] = "stale"
          => call[c].id \in Present]_vars
=============================================================================
