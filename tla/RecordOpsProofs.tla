-------------------------- MODULE RecordOpsProofs ---------------------------
(***************************************************************************)
(* However many clients patch, delete, move and copy records of any tree:  *)
(* names stay unique, vectors stay with their text, and a statement that   *)
(* had to wait changes only what its call addressed.                       *)
(***************************************************************************)
EXTENDS RecordOps, FiniteSetTheorems, SequenceTheorems, TLAPS

-----------------------------------------------------------------------------
(* Trees as sequences.                                                     *)

LEMMA TreeIsSeq ==
    ASSUME NEW t \in Tree
    PROVE  /\ t \in Seq(Label) /\ Len(t) \in Nat /\ Len(t) <= Depth
           /\ t \in [1 .. Len(t) -> Label]
  BY Assumptions DEF Tree, SeqOf

LEMMA SeqIsTree ==
    ASSUME NEW t \in Seq(Label), Len(t) <= Depth
    PROVE  t \in Tree
<1>1. t \in [1 .. Len(t) -> Label] /\ Len(t) \in 0 .. Depth
  BY Assumptions
<1> QED
  BY <1>1 DEF Tree, SeqOf

(* Rebasing keeps what follows the source.                                 *)
LEMMA RebaseFacts ==
    ASSUME NEW src \in Tree, NEW dst \in Tree, NEW t \in Tree, Under(src, t)
    PROVE  /\ Rebase(src, dst, t) \in Seq(Label)
           /\ Len(Rebase(src, dst, t)) = Len(dst) + (Len(t) - Len(src))
           /\ \A k \in 1 .. Len(t) - Len(src) :
                 Rebase(src, dst, t)[Len(dst) + k] = t[Len(src) + k]
<1>1. /\ src \in Seq(Label) /\ dst \in Seq(Label) /\ t \in Seq(Label)
      /\ Len(src) \in Nat /\ Len(dst) \in Nat /\ Len(t) \in Nat
      /\ Len(src) <= Len(t)
  BY TreeIsSeq DEF Under, IsPrefix
<1> DEFINE tail == SubSeq(t, Len(src) + 1, Len(t))
<1>2. /\ tail \in Seq(Label) /\ Len(tail) = Len(t) - Len(src)
      /\ \A k \in 1 .. Len(t) - Len(src) : tail[k] = t[Len(src) + k]
  BY <1>1, SubSeqProperties
<1>3. Rebase(src, dst, t) = dst \o tail
  BY DEF Rebase
<1> HIDE DEF tail
<1>4. /\ dst \o tail \in Seq(Label)
      /\ Len(dst \o tail) = Len(dst) + Len(tail)
      /\ \A n \in 1 .. Len(dst) + Len(tail) :
            (dst \o tail)[n] = IF n <= Len(dst) THEN dst[n]
                               ELSE tail[n - Len(dst)]
  BY <1>1, <1>2, ConcatProperties
<1>5. ASSUME NEW k \in 1 .. Len(t) - Len(src)
      PROVE  (dst \o tail)[Len(dst) + k] = tail[k]
  <2>1. /\ Len(dst) + k \in 1 .. Len(dst) + Len(tail)
        /\ ~(Len(dst) + k <= Len(dst)) /\ Len(dst) + k - Len(dst) = k
    BY <1>1, <1>2
  <2> QED
    BY <1>4, <2>1
<1> QED
  BY <1>2, <1>3, <1>4, <1>5

LEMMA RebaseTree ==
    ASSUME NEW src \in Tree, NEW dst \in Tree, NEW t \in Tree, Under(src, t),
           Len(Rebase(src, dst, t)) <= Depth
    PROVE  Rebase(src, dst, t) \in Tree
  BY RebaseFacts, SeqIsTree

(* Two trees under the source that are rebased to one tree are one.        *)
LEMMA RebaseInjective ==
    ASSUME NEW src \in Tree, NEW dst \in Tree, NEW t \in Tree, NEW u \in Tree,
           Under(src, t), Under(src, u),
           Rebase(src, dst, t) = Rebase(src, dst, u)
    PROVE  t = u
<1>1. /\ src \in Seq(Label) /\ t \in Seq(Label) /\ u \in Seq(Label)
      /\ Len(src) \in Nat /\ Len(dst) \in Nat
      /\ Len(t) \in Nat /\ Len(u) \in Nat
      /\ Len(src) <= Len(t) /\ Len(src) <= Len(u)
      /\ SubSeq(src, 1, Len(src)) = SubSeq(t, 1, Len(src))
      /\ SubSeq(src, 1, Len(src)) = SubSeq(u, 1, Len(src))
  BY TreeIsSeq DEF Under, IsPrefix
<1>2. Len(t) = Len(u)
  <2>1. Len(Rebase(src, dst, t)) = Len(dst) + (Len(t) - Len(src))
    BY RebaseFacts, Zenon
  <2>2. Len(Rebase(src, dst, u)) = Len(dst) + (Len(u) - Len(src))
    BY RebaseFacts, Zenon
  <2>3. Len(dst) + (Len(t) - Len(src)) = Len(dst) + (Len(u) - Len(src))
    BY <2>1, <2>2, Zenon
  <2>4. /\ Len(src) \in Nat /\ Len(dst) \in Nat
        /\ Len(t) \in Nat /\ Len(u) \in Nat
    BY <1>1
  <2> QED
    BY <2>3, <2>4
<1>3. ASSUME NEW j \in 1 .. Len(t) - Len(src)
      PROVE  t[Len(src) + j] = u[Len(src) + j]
  <2>1. Rebase(src, dst, t)[Len(dst) + j] = t[Len(src) + j]
    BY RebaseFacts
  <2>2. j \in 1 .. Len(u) - Len(src)
    BY <1>2
  <2>3. Rebase(src, dst, u)[Len(dst) + j] = u[Len(src) + j]
    BY <2>2, RebaseFacts
  <2> QED
    BY <2>1, <2>3
<1>4. ASSUME NEW k \in 1 .. Len(t) PROVE t[k] = u[k]
  <2>1. CASE k <= Len(src)
    <3>1. SubSeq(t, 1, Len(src))[k] = t[k] /\ SubSeq(u, 1, Len(src))[k] = u[k]
      BY <1>1, <2>1, SubSeqProperties
    <3> QED
      BY <1>1, <3>1
  <2>2. CASE k > Len(src)
    <3>1. k - Len(src) \in 1 .. Len(t) - Len(src)
      BY <1>1, <2>2
    <3>2. k = Len(src) + (k - Len(src))
      BY <1>1
    <3> QED
      BY <1>3, <3>1, <3>2
  <2> QED
    BY <1>1, <2>1, <2>2
<1> QED
  BY <1>1, <1>2, <1>4, SeqEqual

(* The order in which a move rewrites its rows leaves none out.            *)
LEMMA OrderIsComplete ==
    ASSUME NEW S, IsFiniteSet(S), NEW order \in SetToSeqs(S)
    PROVE  /\ Len(order) \in Nat
           /\ \A k \in 1 .. Len(order) : order[k] \in S
           /\ \A i \in S : \E k \in 1 .. Len(order) : order[k] = i
<1> DEFINE D == 1 .. Cardinality(S)
<1>1. Cardinality(S) \in Nat
  BY FS_CardinalityType
<1>2. order \in [D -> S] /\ \A i, j \in D : i # j => order[i] # order[j]
  BY DEF SetToSeqs
<1>3. IsFiniteSet(D) /\ Cardinality(D) = Cardinality(S)
  BY <1>1, FS_Interval
<1>4. order \in Injection(D, S)
  BY <1>2 DEF Injection, IsInjective
<1>5. order \in Surjection(D, S)
  BY <1>3, <1>4, FS_Injection
<1>6. Len(order) = Cardinality(S)
  BY <1>1, <1>2
<1> QED
  BY <1>1, <1>2, <1>5, <1>6 DEF Surjection

-----------------------------------------------------------------------------
(* What the types say of a call and of the fields a patch makes.           *)

LEMMA CallFacts ==
    ASSUME NEW q \in Call
    PROVE  /\ q.op = "read" => q.id \in Id /\ q.prior \in Fields
           /\ q.op = "patch" => /\ q.id \in Id /\ q.prior \in Fields
                                /\ q.patch \in Patch
           /\ q.op = "delete" => q.id \in Id
           /\ q.op = "move" => /\ q.src \in Tree /\ q.dst \in Tree
                               /\ q.rows \in SUBSET Id
           /\ q.op = "deleteTree" => q.src \in Tree /\ q.rows \in SUBSET Id
  BY DEF Call, Idle

LEMMA PatchedFields ==
    ASSUME NEW fields \in Fields, NEW p \in Patch
    PROVE  /\ SetFields(fields, p) \in Fields
           /\ SetFields(fields, p).content =
                 IF "content" \in p.sets THEN p.to.content ELSE fields.content
<1>1. /\ p.to \in Fields
      /\ DOMAIN fields = {"tree", "name", "content"}
  BY DEF Fields, Patch
<1>2. SetFields(fields, p) =
         [tree |-> IF "tree" \in p.sets THEN p.to.tree ELSE fields.tree,
          name |-> IF "name" \in p.sets THEN p.to.name ELSE fields.name,
          content |-> IF "content" \in p.sets THEN p.to.content
                      ELSE fields.content]
  BY <1>1 DEF SetFields
<1> QED
  BY <1>1, <1>2 DEF Fields

LEMMA RecordFacts ==
    ASSUME TypeOK, NEW i \in Present
    PROVE  /\ i \in Id /\ record[i] \in Record
           /\ record[i].fields \in Fields
           /\ record[i].fields.tree \in Tree
           /\ record[i].vector \in Content \cup {NoVector}
           /\ record[i].fields.content \in Content
           /\ record[i] = [fields |-> record[i].fields,
                           vector |-> record[i].vector]
  BY DEF TypeOK, Present, Record, Fields

-----------------------------------------------------------------------------
(* The inductive invariant: only a client whose call has ended has an      *)
(* answer.  Its two halves change independently, so each has its lemmas.   *)
AnsweredIsIdle == \A c \in Client : answer[c] # "none" => call[c] = Idle

IInv == TypeOK /\ NamesAreUnique /\ VectorDescribesContent /\ AnsweredIsIdle

RecordsOK ==
    /\ record \in [Id -> Record \cup {NoRecord}]
    /\ NamesAreUnique /\ VectorDescribesContent

CallsOK ==
    /\ \A c \in Client : call[c] \in Call /\ answer[c] \in Answer
    /\ DOMAIN call = Client /\ DOMAIN answer = Client
    /\ AnsweredIsIdle

LEMMA IInvParts == /\ IInv <=> RecordsOK /\ CallsOK
                   /\ IInv' <=> RecordsOK' /\ CallsOK'
  BY DEF IInv, RecordsOK, CallsOK, TypeOK

LEMMA AskKeeps ==
    ASSUME IInv, NEW c \in Client, NEW statement \in Call, Ask(c, statement)
    PROVE  IInv'
<1>1. CallsOK'
  BY DEF Ask, NoAnswer, CallsOK, IInv, TypeOK, AnsweredIsIdle, Answer
<1>2. RecordsOK'
  BY IInvParts DEF Ask, RecordsOK, NamesAreUnique, VectorDescribesContent,
                   Present, Slot
<1> QED
  BY <1>1, <1>2, IInvParts

LEMMA ReplyKeeps ==
    ASSUME IInv, NEW c \in Client, NEW told \in Answer, Reply(c, told)
    PROVE  CallsOK'
  BY DEF Reply, NoAnswer, CallsOK, IInv, TypeOK, AnsweredIsIdle, Answer, Call

LEMMA SilenceKeeps ==
    ASSUME IInv, answer' = NoAnswer, UNCHANGED call
    PROVE  CallsOK'
  BY DEF NoAnswer, CallsOK, IInv, TypeOK, AnsweredIsIdle, Answer

LEMMA SameRecordsKeep ==
    ASSUME IInv, UNCHANGED record
    PROVE  RecordsOK'
  BY IInvParts DEF RecordsOK, NamesAreUnique, VectorDescribesContent, Present,
                   Slot

(* Removing records leaves the others alone.                               *)
LEMMA RemovalKeeps ==
    ASSUME IInv, record' \in [Id -> Record \cup {NoRecord}],
           \A i \in Id : record'[i] \in {record[i], NoRecord}
    PROVE  RecordsOK'
  BY DEF IInv, RecordsOK, NamesAreUnique, VectorDescribesContent, Present, Slot

(* Writing one record, at a place no other record has.                     *)
LEMMA WriteKeeps ==
    ASSUME IInv, NEW i \in Id, NEW row \in Record,
           record' = [record EXCEPT ![i] = row],
           ~Taken(Slot(row), Id \ {i}),
           row.vector \in {NoVector, row.fields.content}
    PROVE  RecordsOK'
<1>1. /\ record' \in [Id -> Record \cup {NoRecord}]
      /\ record'[i] = row
      /\ \A j \in Id \ {i} : record'[j] = record[j]
  BY DEF IInv, TypeOK
<1>2. NamesAreUnique'
  <2> SUFFICES ASSUME NEW j \in Id, NEW k \in Id,
                      record'[j] # NoRecord, record'[k] # NoRecord,
                      Slot(record'[j]) = Slot(record'[k]), j # k
               PROVE  record'[j].fields.name = NoName
    BY DEF NamesAreUnique, Present
  <2>1. CASE j # i /\ k # i
    BY <1>1, <2>1 DEF IInv, NamesAreUnique, Present
  <2>2. CASE j = i
    BY <1>1, <2>2 DEF Taken, Slot, Present
  <2>3. CASE k = i
    BY <1>1, <2>3 DEF Taken, Slot, Present
  <2> QED
    BY <2>1, <2>2, <2>3
<1>3. VectorDescribesContent'
  BY <1>1 DEF IInv, VectorDescribesContent, Present
<1> QED
  BY <1>1, <1>2, <1>3 DEF RecordsOK

(* A call that ends without a write.                                       *)
Refused(c) == \E told \in Answer : Reply(c, told) /\ UNCHANGED record

LEMMA RefusalKeeps ==
    ASSUME IInv, NEW c \in Client, Refused(c)
    PROVE  IInv'
  BY ReplyKeeps, SameRecordsKeep, IInvParts DEF Refused

LEMMA SomeAnswers == {"patched", "conflict", "deleted", "done"} \subseteq Answer
  BY DEF Answer

-----------------------------------------------------------------------------
(* Each action keeps the invariant.                                        *)

LEMMA PatchStep ==
    ASSUME IInv, NEW c \in Client, PatchApplies(c)
    PROVE  IInv'
<1> DEFINE q == call[c]
           new == SetFields(record[q.id].fields, q.patch)
           row == [fields |-> new,
                   vector |-> IF q.patch.embeds
                              THEN SetFields(q.prior, q.patch).content
                              ELSE VectorAfter(record[q.id], new)]
<1>1. q.op = "patch"
  BY DEF PatchApplies
<1>2. q.id \in Id /\ q.patch \in Patch
  BY <1>1, CallFacts DEF IInv, TypeOK
<1>3. \/ Refused(c)
      \/ /\ SameHash(q.id, q.prior)
         /\ ~Taken(<<new.tree, new.name>>, Id \ {q.id})
         /\ record' = [record EXCEPT ![q.id] = row]
         /\ Reply(c, "patched")
  BY DEF PatchApplies, Refused, Answer
<1>4. CASE Refused(c)
  BY <1>4, RefusalKeeps
<1>5. ASSUME SameHash(q.id, q.prior),
             ~Taken(<<new.tree, new.name>>, Id \ {q.id}),
             record' = [record EXCEPT ![q.id] = row],
             Reply(c, "patched")
      PROVE  IInv'
  <2>1. /\ q.id \in Present /\ record[q.id].fields = q.prior
        /\ record[q.id].fields \in Fields
        /\ record[q.id].vector \in {NoVector, record[q.id].fields.content}
        /\ record[q.id].fields.content \in Content
    BY <1>5, RecordFacts DEF SameHash, IInv, VectorDescribesContent
  <2>2. new \in Fields
    BY <1>2, <2>1, PatchedFields
  <2>3. new.content \in Content /\ SetFields(q.prior, q.patch) = new
    BY <2>1, <2>2 DEF Fields
  <2> HIDE DEF new
  <2>4. row.fields = new
    OBVIOUS
  <2>5. row.vector \in {NoVector, new.content}
    BY <2>1, <2>3 DEF VectorAfter
  <2>6. row \in Record
    BY <2>2, <2>3, <2>5 DEF Record
  <2>7. ~Taken(Slot(row), Id \ {q.id})
    BY <1>5, <2>4 DEF Slot
  <2> HIDE DEF row
  <2>8. RecordsOK'
    BY <1>2, <1>5, <2>4, <2>5, <2>6, <2>7, WriteKeeps
  <2> QED
    BY <1>5, <2>8, ReplyKeeps, SomeAnswers, IInvParts
<1> QED
  BY <1>3, <1>4, <1>5

LEMMA DeleteSteps ==
    ASSUME IInv, NEW c \in Client,
           \/ DeleteApplies(c) \/ DeleteTreeApplies(c)
           \/ \E i \in Id : Delete(c, i)
    PROVE  IInv'
<1>1. \/ record' = record
      \/ \E i \in Id : record' = [record EXCEPT ![i] = NoRecord]
      \/ record' = [i \in Id |-> IF i \in Moves(call[c]) THEN NoRecord
                                 ELSE record[i]]
  BY DEF DeleteApplies, Delete, DeleteTreeApplies, StillThere, Present
<1>2. \E told \in Answer : Reply(c, told)
  BY DEF DeleteApplies, Delete, DeleteTreeApplies, Answer
<1>3. RecordsOK'
  <2>1. /\ record' \in [Id -> Record \cup {NoRecord}]
        /\ \A i \in Id : record'[i] \in {record[i], NoRecord}
    BY <1>1 DEF IInv, TypeOK
  <2> QED
    BY <2>1, RemovalKeeps
<1> QED
  BY <1>2, <1>3, ReplyKeeps, IInvParts

LEMMA WriteSteps ==
    ASSUME IInv, NEW i \in Id,
           Embed(i) \/ \E fields \in Fields : Create(i, fields)
    PROVE  IInv'
<1>1. CallsOK'
  BY SilenceKeeps DEF Create, Embed
<1>2. ASSUME NEW fields \in Fields, Create(i, fields)
      PROVE  RecordsOK'
  <2> DEFINE row == [fields |-> fields, vector |-> NoVector]
  <2>1. row \in Record /\ row.fields = fields /\ row.vector = NoVector
    BY DEF Record
  <2>2. record' = [record EXCEPT ![i] = row]
        /\ ~Taken(<<fields.tree, fields.name>>, Id)
    BY <1>2 DEF Create
  <2> HIDE DEF row
  <2>3. ~Taken(Slot(row), Id \ {i})
    BY <2>1, <2>2 DEF Taken, Slot
  <2> QED
    BY <2>1, <2>2, <2>3, WriteKeeps
<1>3. ASSUME Embed(i)
      PROVE  RecordsOK'
  <2> DEFINE row == [fields |-> record[i].fields,
                     vector |-> record[i].fields.content]
  <2>1. i \in Present
    BY <1>3 DEF Embed
  <2>2. /\ record[i].fields \in Fields /\ record[i].fields.content \in Content
        /\ record[i] = [fields |-> record[i].fields,
                        vector |-> record[i].vector]
    BY <2>1, RecordFacts DEF IInv
  <2>3. /\ row \in Record /\ row.fields = record[i].fields
        /\ row.vector = row.fields.content
    BY <2>2 DEF Record
  <2>4. record' = [record EXCEPT ![i] = row]
    <3>1. record' = [record EXCEPT ![i] =
                        [record[i] EXCEPT !.vector = record[i].fields.content]]
      BY <1>3, Zenon DEF Embed
    <3>2. [record[i] EXCEPT !.vector = record[i].fields.content] = row
      BY <2>2
    <3> QED
      BY <3>1, <3>2
  <2> HIDE DEF row
  <2>5. ~Taken(Slot(row), Id \ {i})
    BY <2>1, <2>3 DEF IInv, NamesAreUnique, Taken, Slot
  <2> QED
    BY <2>3, <2>4, <2>5, WriteKeeps
<1> QED
  BY <1>1, <1>2, <1>3, IInvParts

(* Rows that go on to another place in the tree keep their other fields.   *)
Rebased(row, src, dst) == [row EXCEPT !.fields.tree = Rebase(src, dst, @)]

LEMMA RebasedRow ==
    ASSUME TypeOK, NEW i \in Present, NEW src \in Tree, NEW dst \in Tree,
           Under(src, record[i].fields.tree),
           Len(Rebase(src, dst, record[i].fields.tree)) <= Depth
    PROVE  LET row == Rebased(record[i], src, dst)
           IN  /\ row \in Record
               /\ row.fields.tree = Rebase(src, dst, record[i].fields.tree)
               /\ row.fields.name = record[i].fields.name
               /\ row.fields.content = record[i].fields.content
               /\ row.vector = record[i].vector
<1> DEFINE row == Rebased(record[i], src, dst)
<1>1. Rebase(src, dst, record[i].fields.tree) \in Tree
  BY RecordFacts, RebaseTree
<1>2. /\ record[i].fields \in Fields
      /\ record[i].vector \in Content \cup {NoVector}
      /\ record[i] = [fields |-> record[i].fields,
                      vector |-> record[i].vector]
  BY RecordFacts
<1>3. row = [fields |-> [tree |-> Rebase(src, dst, record[i].fields.tree),
                         name |-> record[i].fields.name,
                         content |-> record[i].fields.content],
             vector |-> record[i].vector]
  BY <1>2 DEF Fields, Rebased
<1> HIDE DEF row
<1>4. /\ row \in Record
      /\ row.fields.tree = Rebase(src, dst, record[i].fields.tree)
      /\ row.fields.name = record[i].fields.name
      /\ row.fields.content = record[i].fields.content
      /\ row.vector = record[i].vector
  BY <1>1, <1>2, <1>3 DEF Record, Fields
<1> QED
  BY <1>4 DEF row

(* Every row of a move is at a place that no row will be at that the move  *)
(* does not move, nor any it moves later.                                  *)
LEMMA MoveStep ==
    ASSUME IInv, NEW c \in Client, MoveApplies(c)
    PROVE  IInv'
<1> DEFINE q == call[c]
           New(i) == Rebased(record[i], q.src, q.dst)
<1>1. q \in Call /\ q.op = "move"
  BY DEF MoveApplies, IInv, TypeOK
<1>2. q.src \in Tree /\ q.dst \in Tree /\ q.rows \in SUBSET Id
  BY <1>1, CallFacts
<1>3. PICK order \in SetToSeqs(Moves(q)) :
         \/ Reply(c, "conflict") /\ UNCHANGED record
         \/ /\ ~Collides(order, q)
            /\ record' = [i \in Id |-> IF i \in Moves(q) THEN New(i)
                                       ELSE record[i]]
            /\ Reply(c, "done")
  BY DEF MoveApplies, Rebased
<1>4. CASE Reply(c, "conflict") /\ UNCHANGED record
  BY <1>4, RefusalKeeps, SomeAnswers DEF Refused
<1>5. ASSUME ~Collides(order, q),
             record' = [i \in Id |-> IF i \in Moves(q) THEN New(i)
                                     ELSE record[i]],
             Reply(c, "done")
      PROVE  IInv'
  <2>1. /\ Moves(q) \subseteq Present /\ Present \subseteq Id
        /\ \A i \in Moves(q) : Under(q.src, record[i].fields.tree)
    BY DEF Moves, Subtree, Present
  <2>2. IsFiniteSet(Moves(q))
    BY <2>1, Assumptions, FS_Subset
  <2>3. ASSUME NEW i \in Moves(q)
        PROVE  /\ record'[i] \in Record /\ i \in Present
               /\ record'[i].fields.tree
                     = Rebase(q.src, q.dst, record[i].fields.tree)
               /\ record'[i].fields.name = record[i].fields.name
               /\ record'[i].fields.content = record[i].fields.content
               /\ record'[i].vector = record[i].vector
    <3>1. Len(Rebase(q.src, q.dst, record[i].fields.tree)) <= Depth
      BY DEF MoveApplies
    <3>2. record'[i] = New(i) /\ i \in Present
      BY <1>5, <2>1
    <3>3. TypeOK /\ Under(q.src, record[i].fields.tree)
      BY <2>1 DEF IInv
    <3> HIDE DEF q
    <3> QED
      BY <1>2, <3>1, <3>2, <3>3, RebasedRow
  <2>4. \A i \in Id \ Moves(q) : record'[i] = record[i]
    BY <1>5
  <2> HIDE DEF q, New
  <2>5. record' \in [Id -> Record \cup {NoRecord}]
    BY <1>5, <2>3, <2>4 DEF IInv, TypeOK
  <2>6. \A i \in Id : i \in Present' <=> i \in Present
    BY <2>1, <2>3, <2>4, Assumptions DEF Present
  <2>7. ASSUME NEW i \in Moves(q), NEW j \in Present \ Moves(q),
               Slot(record'[i]) = Slot(record'[j])
        PROVE  record[i].fields.name = NoName
    <3>1. PICK k \in 1 .. Len(order) : order[k] = i
      BY <2>2, OrderIsComplete
    <3>2. ~Taken(<<Rebase(q.src, q.dst, record[i].fields.tree),
                   record[i].fields.name>>,
                 (Id \ Moves(q)) \cup {order[l] : l \in k + 1 .. Len(order)})
      BY <1>5, <3>1 DEF Collides
    <3>3. Slot(record[j]) = <<Rebase(q.src, q.dst, record[i].fields.tree),
                              record[i].fields.name>>
      BY <2>1, <2>3, <2>4, <2>7 DEF Slot
    <3> QED
      BY <2>1, <3>2, <3>3 DEF Taken
  <2>8. ASSUME NEW i \in Moves(q), NEW j \in Moves(q),
               Slot(record'[i]) = Slot(record'[j])
        PROVE  Slot(record[i]) = Slot(record[j])
    <3>1. Rebase(q.src, q.dst, record[i].fields.tree)
             = Rebase(q.src, q.dst, record[j].fields.tree)
          /\ record[i].fields.name = record[j].fields.name
      BY <2>3, <2>8 DEF Slot
    <3>2. record[i].fields.tree = record[j].fields.tree
      BY <1>2, <2>1, <3>1, RecordFacts, RebaseInjective DEF IInv
    <3> QED
      BY <3>1, <3>2 DEF Slot
  <2>9. NamesAreUnique'
    <3> SUFFICES ASSUME NEW i \in Present, NEW j \in Present, i # j,
                        Slot(record'[i]) = Slot(record'[j])
                 PROVE  record'[i].fields.name = NoName
      BY <2>6 DEF NamesAreUnique, Present
    <3>1. CASE i \in Moves(q) /\ j \in Moves(q)
      <4>1. Slot(record[i]) = Slot(record[j])
        BY <2>8, <3>1
      <4>2. record[i].fields.name = NoName
        BY <4>1 DEF IInv, NamesAreUnique
      <4> QED
        BY <2>3, <3>1, <4>2
    <3>2. CASE i \in Moves(q) /\ j \notin Moves(q)
      <4>1. record[i].fields.name = NoName
        BY <2>7, <3>2
      <4> QED
        BY <2>3, <3>2, <4>1
    <3>3. CASE i \notin Moves(q) /\ j \in Moves(q)
      <4>1. record[j].fields.name = NoName
        BY <2>7, <3>3
      <4>2. record'[j].fields.name = NoName
        BY <2>3, <3>3, <4>1
      <4> QED
        BY <4>2 DEF Slot
    <3>4. CASE i \notin Moves(q) /\ j \notin Moves(q)
      BY <2>1, <2>4, <3>4 DEF IInv, NamesAreUnique
    <3> QED
      BY <3>1, <3>2, <3>3, <3>4
  <2>10. VectorDescribesContent'
    BY <2>1, <2>3, <2>4, <2>6 DEF IInv, VectorDescribesContent, Present
  <2> QED
    BY <1>5, <2>5, <2>9, <2>10, ReplyKeeps, SomeAnswers, IInvParts
    DEF RecordsOK
<1> QED
  BY <1>3, <1>4, <1>5

(* The copies of a subtree are at free places, one each.                   *)
LEMMA CopyStep ==
    ASSUME IInv, NEW c \in Client, NEW src \in Tree, NEW dst \in Tree,
           Copy(c, src, dst)
    PROVE  IInv'
<1> DEFINE S == Subtree(src)
           New(i) == Rebased(record[i], src, dst)
<1>1. /\ S \subseteq Present /\ Present \subseteq Id
      /\ \A i \in S : Under(src, record[i].fields.tree)
  BY DEF Subtree, Present
<1>2. CASE Refused(c)
  BY <1>2, RefusalKeeps
<1>3. ASSUME ~Refused(c) PROVE IInv'
  <2>1. \A i \in S : /\ Len(Rebase(src, dst, record[i].fields.tree)) <= Depth
                     /\ ~Taken(<<Rebase(src, dst, record[i].fields.tree),
                                 record[i].fields.name>>, Id)
    BY <1>3, SomeAnswers DEF Copy, Refused
  <2>2. PICK f \in [S -> Id \ Present] :
           /\ \A i, j \in S : f[i] = f[j] => i = j
           /\ record' = [n \in Id |->
                 IF \E i \in S : f[i] = n
                 THEN LET i == CHOOSE i \in S : f[i] = n IN New(i)
                 ELSE record[n]]
           /\ Reply(c, "done")
    BY <1>3, SomeAnswers DEF Copy, Refused, Rebased
  <2>3. ASSUME NEW i \in S
        PROVE  /\ f[i] \in Id \ Present /\ record'[f[i]] = New(i)
    <3>1. (CHOOSE j \in S : f[j] = f[i]) = i
      BY <2>2
    <3> HIDE DEF S, New
    <3> QED
      BY <2>2, <3>1
  <2>4. ASSUME NEW i \in S
        PROVE  /\ record'[f[i]] \in Record
               /\ record'[f[i]].fields.tree
                     = Rebase(src, dst, record[i].fields.tree)
               /\ record'[f[i]].fields.name = record[i].fields.name
               /\ record'[f[i]].fields.content = record[i].fields.content
               /\ record'[f[i]].vector = record[i].vector
    <3>1. /\ TypeOK /\ i \in Present /\ record'[f[i]] = New(i)
          /\ Under(src, record[i].fields.tree)
          /\ Len(Rebase(src, dst, record[i].fields.tree)) <= Depth
      BY <1>1, <2>1, <2>3 DEF IInv
    <3> HIDE DEF S
    <3> QED
      BY <3>1, RebasedRow
  <2>5. \A n \in Id : (\E i \in S : n = f[i]) \/ record'[n] = record[n]
    BY <2>2
  <2> HIDE DEF S, New
  <2>6. record' \in [Id -> Record \cup {NoRecord}]
    <3>1. DOMAIN record' = Id /\ record' = [n \in Id |-> record'[n]]
      BY <2>2
    <3> QED
      BY <2>4, <2>5, <3>1 DEF IInv, TypeOK
  <2>7. ASSUME NEW n \in Id, n \in Present'
        PROVE  (n \in Present /\ record'[n] = record[n]) \/ \E i \in S : n = f[i]
    BY <2>5, <2>7 DEF Present
  <2>8. NamesAreUnique'
    <3> SUFFICES ASSUME NEW n \in Present', NEW m \in Present', n # m,
                        Slot(record'[n]) = Slot(record'[m])
                 PROVE  record'[n].fields.name = NoName
      BY DEF NamesAreUnique
    <3>1. n \in Id /\ m \in Id
      BY DEF Present
    <3>2. ASSUME NEW i \in S, NEW j \in S, n = f[i], m = f[j]
          PROVE  record'[n].fields.name = NoName
      <4>1. /\ Rebase(src, dst, record[i].fields.tree)
                  = Rebase(src, dst, record[j].fields.tree)
            /\ record[i].fields.name = record[j].fields.name
        BY <2>4, <3>2 DEF Slot
      <4>2. record[i].fields.tree = record[j].fields.tree
        BY <1>1, <4>1, RecordFacts, RebaseInjective DEF IInv
      <4>3. i # j /\ Slot(record[i]) = Slot(record[j])
        BY <3>2, <4>1, <4>2 DEF Slot
      <4>4. record[i].fields.name = NoName
        BY <1>1, <4>3 DEF IInv, NamesAreUnique
      <4> QED
        BY <2>4, <3>2, <4>4
    <3>3. ASSUME NEW i \in S, NEW j \in Present, record'[f[i]].fields.name # NoName
          PROVE  Slot(record'[f[i]]) # Slot(record[j])
      BY <1>1, <2>1, <2>4, <3>3 DEF Taken, Slot
    <3>4. CASE n \in Present /\ record'[n] = record[n]
               /\ m \in Present /\ record'[m] = record[m]
      BY <3>4 DEF IInv, NamesAreUnique
    <3>5. record'[n].fields.name = record'[m].fields.name
      BY DEF Slot
    <3> QED
      BY <2>7, <3>1, <3>2, <3>3, <3>4, <3>5
  <2>9. VectorDescribesContent'
    <3> SUFFICES ASSUME NEW n \in Present'
                 PROVE  record'[n].vector
                           \in {NoVector, record'[n].fields.content}
      BY DEF VectorDescribesContent
    <3> QED
      BY <1>1, <2>4, <2>7 DEF IInv, VectorDescribesContent, Present
  <2> QED
    BY <2>2, <2>6, <2>8, <2>9, ReplyKeeps, SomeAnswers, IInvParts
    DEF RecordsOK
<1> QED
  BY <1>2, <1>3

(* What a client reads, and the statements it sends.                       *)
LEMMA BeginSteps ==
    ASSUME IInv, NEW c \in Client,
           \/ \E i \in Id : Get(c, i)
           \/ \E p \in Patch : PatchBegins(c, p)
           \/ \E t \in Tree, n \in Name : DeleteBegins(c, t, n)
           \/ \E src, dst \in Tree : MoveBegins(c, src, dst)
           \/ \E src \in Tree : DeleteTreeBegins(c, src)
           \/ Forget(c)
    PROVE  IInv'
<1>1. ASSUME NEW i \in Id, Get(c, i) PROVE IInv'
  <2>1. record[i].fields \in Fields
    BY <1>1, RecordFacts DEF Get, IInv
  <2>2. [op |-> "read", id |-> i, prior |-> record[i].fields] \in Call
    BY <2>1 DEF Call
  <2> QED
    BY <1>1, <2>2, AskKeeps DEF Get
<1>2. ASSUME NEW p \in Patch, PatchBegins(c, p) PROVE IInv'
  <2> DEFINE statement == [op |-> "patch", id |-> call[c].id,
                           prior |-> call[c].prior, patch |-> p]
  <2>1. Refused(c) \/ Ask(c, statement)
    BY <1>2 DEF PatchBegins, Refused, Answer
  <2>2. call[c].id \in Id /\ call[c].prior \in Fields
    BY <1>2, CallFacts DEF PatchBegins, IInv, TypeOK
  <2>3. statement \in Call
    BY <2>2 DEF Call
  <2> QED
    BY <2>1, <2>3, RefusalKeeps, AskKeeps
<1>3. ASSUME NEW t \in Tree, NEW n \in Name, DeleteBegins(c, t, n) PROVE IInv'
  <2>1. \/ Refused(c)
        \/ \E i \in Present :
              Ask(c, [op |-> "delete", id |-> i, tree |-> t, name |-> n])
    BY <1>3 DEF DeleteBegins, Refused, Answer
  <2>2. \A i \in Present :
           [op |-> "delete", id |-> i, tree |-> t, name |-> n] \in Call
    BY DEF Call, Present
  <2> QED
    BY <2>1, <2>2, RefusalKeeps, AskKeeps
<1>4. ASSUME NEW src \in Tree, NEW dst \in Tree, MoveBegins(c, src, dst)
      PROVE  IInv'
  <2>1. [op |-> "move", src |-> src, dst |-> dst, rows |-> Subtree(src)] \in Call
    BY DEF Call, Subtree, Present
  <2> QED
    BY <1>4, <2>1, AskKeeps DEF MoveBegins
<1>5. ASSUME NEW src \in Tree, DeleteTreeBegins(c, src) PROVE IInv'
  <2>1. [op |-> "deleteTree", src |-> src, rows |-> Subtree(src)] \in Call
    BY DEF Call, Subtree, Present
  <2> QED
    BY <1>5, <2>1, AskKeeps DEF DeleteTreeBegins
<1>6. CASE Forget(c)
  BY <1>6, AskKeeps DEF Forget, Call
<1> QED
  BY <1>1, <1>2, <1>3, <1>4, <1>5, <1>6

LEMMA InitIInv == Init => IInv
  BY DEF Init, IInv, TypeOK, NamesAreUnique, VectorDescribesContent,
         AnsweredIsIdle, NoAnswer, Present, Call, Answer

LEMMA NextIInv == IInv /\ [Next]_vars => IInv'
<1> SUFFICES ASSUME IInv, [Next]_vars PROVE IInv'
  OBVIOUS
<1>1. CASE UNCHANGED vars
  BY <1>1 DEF vars, IInv, TypeOK, NamesAreUnique, VectorDescribesContent,
              AnsweredIsIdle, Present, Slot
<1>2. CASE Next
  BY <1>2, PatchStep, DeleteSteps, WriteSteps, MoveStep, CopyStep, BeginSteps
  DEF Next
<1> QED
  BY <1>1, <1>2

LEMMA IInvCorrect == Spec => []IInv
  BY InitIInv, NextIInv, PTL DEF Spec

(* However moves, copies, patches and deletes of any number of clients     *)
(* overlap, no two records have one name at one place of the tree.         *)
THEOREM NamesStayUnique == Spec => []NamesAreUnique
<1>1. IInv => NamesAreUnique
  BY DEF IInv
<1> QED
  BY <1>1, IInvCorrect, PTL

(* No vector is ever stored beside a text it was not computed from.        *)
THEOREM VectorsStayTrue == Spec => []VectorDescribesContent
<1>1. IInv => VectorDescribesContent
  BY DEF IInv
<1> QED
  BY <1>1, IInvCorrect, PTL

-----------------------------------------------------------------------------
(* What one step may do for a client whose statement is under way: nothing *)
(* to its call, or what the statement itself does.                         *)
LEMMA OwnStep ==
    ASSUME [Next]_vars, TypeOK, NEW c \in Client, call'[c] # call[c],
           call[c].op \in {"patch", "delete", "move", "deleteTree"}
    PROVE  \/ PatchApplies(c) \/ DeleteApplies(c) \/ MoveApplies(c)
           \/ DeleteTreeApplies(c)
           \/ UNCHANGED record /\ answer'[c] = "none"
<1>1. ASSUME NEW d \in Client, NEW x, call' = [call EXCEPT ![d] = x]
      PROVE  d = c
  BY <1>1 DEF TypeOK
<1>2. ASSUME NEW d \in Client,
             \/ PatchApplies(d) \/ DeleteApplies(d) \/ MoveApplies(d)
             \/ DeleteTreeApplies(d)
      PROVE  d = c
  BY <1>1, <1>2 DEF PatchApplies, DeleteApplies, MoveApplies,
                    DeleteTreeApplies, Reply
<1>3. ASSUME NEW d \in Client,
             \/ call[d] = Idle /\ call' = [call EXCEPT ![d] = Idle]
             \/ \E x : /\ call[d] = Idle \/ call[d].op = "read"
                       /\ call' = [call EXCEPT ![d] = x]
      PROVE  FALSE
  BY <1>1, <1>3 DEF Idle
<1>4. ASSUME NEW d \in Client,
             \/ \E i \in Id : Get(d, i) \/ Delete(d, i)
             \/ \E p \in Patch : PatchBegins(d, p)
             \/ \E t \in Tree, n \in Name : DeleteBegins(d, t, n)
             \/ \E src, dst \in Tree : MoveBegins(d, src, dst) \/ Copy(d, src, dst)
             \/ \E src \in Tree : DeleteTreeBegins(d, src)
      PROVE  FALSE
  BY <1>3, <1>4, Zenon DEF Get, Delete, PatchBegins, DeleteBegins, MoveBegins, Copy,
                    DeleteTreeBegins, Ask, Reply
<1>5. ASSUME NEW d \in Client, Forget(d)
      PROVE  UNCHANGED record /\ answer'[c] = "none"
  BY <1>5 DEF Forget, Ask, NoAnswer
<1>6. ASSUME NEW i \in Id, Embed(i) \/ \E f \in Fields : Create(i, f)
      PROVE  FALSE
  BY <1>6 DEF Embed, Create
<1> QED
  BY <1>2, <1>4, <1>5, <1>6 DEF Next, vars

LEMMA PatchIsOfWhatWasRead ==
    ASSUME IInv, IInv', [Next]_vars, NEW c \in Client,
           call[c].op = "patch", answer'[c] = "patched"
    PROVE  call[c].id \in Present /\ record[call[c].id].fields = call[c].prior
<1>1. call'[c] = Idle
  BY DEF IInv, AnsweredIsIdle
<1>2. call'[c] # call[c]
  BY <1>1 DEF Idle
<1>3. PatchApplies(c)
  <2>1. ~(DeleteApplies(c) \/ MoveApplies(c) \/ DeleteTreeApplies(c))
    BY DEF DeleteApplies, MoveApplies, DeleteTreeApplies
  <2> QED
    BY <1>2, <2>1, OwnStep DEF IInv
<1>4. ~Reply(c, "stale") /\ ~Reply(c, "conflict")
  BY DEF Reply, NoAnswer
<1> QED
  BY <1>3, <1>4 DEF PatchApplies, SameHash

LEMMA SubtreeCallsStayInside ==
    ASSUME IInv, [Next]_vars, NEW c \in Client,
           call[c].op \in {"move", "deleteTree"}, call'[c] = Idle,
           NEW i \in Present, record'[i] # record[i]
    PROVE  Under(call[c].src, record[i].fields.tree)
<1>1. call'[c] # call[c] /\ i \in Id
  BY DEF Idle, Present
<1>2. MoveApplies(c) \/ DeleteTreeApplies(c)
  <2>1. ~(PatchApplies(c) \/ DeleteApplies(c))
    BY DEF PatchApplies, DeleteApplies
  <2> QED
    BY <1>1, <2>1, OwnStep DEF IInv
<1>3. i \in Moves(call[c])
  BY <1>1, <1>2 DEF MoveApplies, DeleteTreeApplies
<1> QED
  BY <1>3 DEF Moves, Subtree

LEMMA NamedDeleteIsOfTheName ==
    ASSUME IInv, [Next]_vars, NEW c \in Client, NEW i \in Present,
           call[c].op = "delete", call'[c] = Idle, record'[i] = NoRecord
    PROVE  Slot(record[i]) = <<call[c].tree, call[c].name>>
<1>1. call'[c] # call[c] /\ i \in Id /\ record'[i] # record[i]
  BY DEF Idle, Present
<1>2. DeleteApplies(c)
  <2>1. ~(PatchApplies(c) \/ MoveApplies(c) \/ DeleteTreeApplies(c))
    BY DEF PatchApplies, MoveApplies, DeleteTreeApplies
  <2> QED
    BY <1>1, <2>1, OwnStep DEF IInv
<1>3. /\ StillThere(call[c])
      /\ record' = [record EXCEPT ![call[c].id] = NoRecord]
  BY <1>1, <1>2, Zenon DEF DeleteApplies
<1>4. i = call[c].id
  BY <1>1, <1>3 DEF IInv, TypeOK
<1> QED
  BY <1>3, <1>4 DEF StillThere

(* A patch overwrites the record its client read, unchanged since, also    *)
(* when it had to wait for others.                                         *)
THEOREM PatchesOverwriteWhatWasRead == Spec => PatchOverwritesWhatWasRead
<1>1. IInv /\ IInv' /\ [Next]_vars =>
        \A c \in Client : call[c].op = "patch" /\ answer'[c] = "patched" =>
          /\ call[c].id \in Present
          /\ record[call[c].id].fields = call[c].prior
  BY PatchIsOfWhatWasRead
<1> QED
  BY <1>1, IInvCorrect, PTL DEF Spec, PatchOverwritesWhatWasRead

(* Moves, subtree deletes and deletes by name change no record that is not *)
(* where the call said, at the moment they change it.                      *)
THEOREM CallsChangeWhatTheyAddressed == Spec => OnlyWhatWasAddressed
<1>1. IInv /\ [Next]_vars =>
        \A c \in Client : call[c].op \in {"move", "deleteTree"} /\ call'[c] = Idle =>
          \A i \in Present : record'[i] # record[i]
              => Under(call[c].src, record[i].fields.tree)
  BY SubtreeCallsStayInside
<1>2. IInv /\ [Next]_vars =>
        \A c \in Client, i \in Present :
          call[c].op = "delete" /\ call'[c] = Idle /\ record'[i] = NoRecord
            => Slot(record[i]) = <<call[c].tree, call[c].name>>
  BY NamedDeleteIsOfTheName
<1>3. Spec => SubtreeOnly
  BY <1>1, IInvCorrect, PTL DEF Spec, SubtreeOnly
<1>4. Spec => DeleteByNameIsExact
  BY <1>2, IInvCorrect, PTL DEF Spec, DeleteByNameIsExact
<1> QED
  BY <1>3, <1>4 DEF OnlyWhatWasAddressed
=============================================================================
