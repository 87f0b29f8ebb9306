------------------------- MODULE TransactionsProofs -------------------------
(***************************************************************************)
(* Row locks, open transactions and READ COMMITTED, for any number of      *)
(* sessions, records and queue rows: no committed record without a vector  *)
(* is ever without its queue row, what others see of a record keeps the    *)
(* contract, and only a delete's cascade can tie sessions in a circle with *)
(* a drainer.                                                              *)
(***************************************************************************)
EXTENDS Transactions, WellFoundedInduction, TLAPS

-----------------------------------------------------------------------------
(* The inductive invariant.  First the locks: a row that nobody holds is   *)
(* as committed; nobody holds or has seen an identity value to come;       *)
(* records are held by callers only.                                       *)
FreeRowsAreClean == \A x \in Row : owner[x] = NoOne => draft[x] = committed[x]

Fresh(q) == committed[q] = NoRow /\ draft[q] = NoRow /\ owner[q] = NoOne

IdsAreFresh == \A q \in QueueId : q >= nextId => Fresh(q)

RecordsAreCallers == \A r \in RecordId : owner[r] \in Caller \cup {NoOne}

(* The statements a session is at, and what a drainer holds meanwhile.     *)
Rows(s) == {stmt[s].next} \cup stmt[s].later

CallerPlan ==
    \A s \in Caller : stmt[s].op \in {"none", "put", "delete", "cascade"}

PlanOf(w) ==
    /\ stmt[w].op \in {"none", "sweep", "fence", "written", "release", "note"}
    /\ stmt[w].op = "sweep" => pc[w] = "idle"
    /\ stmt[w].op \in {"fence", "written", "release", "note"}
          => pc[w] \in {"write", "release", "fail"}
    /\ pc[w] \notin {"idle", "claim"} => batch[w] # {}
    /\ stmt[w].op \in {"fence", "release", "note"} => stmt[w].next = First(w).q
    /\ stmt[w].op = "written" =>
          /\ stmt[w].next = First(w).rid
          /\ owner[First(w).q] = w /\ Active(committed[First(w).q])
    /\ \A q \in QueueId : owner[q] = w =>
          \/ stmt[w].op = "sweep"
          \/ stmt[w].op = "written" /\ q = First(w).q

DrainerPlan == \A w \in Drainer : PlanOf(w)

Past(s) ==
    stmt[s].op \in {"cascade", "sweep", "fence", "release", "note"} =>
        \A q \in Rows(s) : q < nextId

PlansArePast == \A s \in Session : Past(s)

(* A queue row a caller holds is one it enqueued, or one it removes; in    *)
(* both cases it holds the record as well.                                 *)
CallerRow(q) ==
    /\ committed[q] # NoRow => /\ draft[q] = NoRow
                               /\ owner[committed[q].rid] = owner[q]
    /\ draft[q] # NoRow => /\ draft[q].outcome = "active"
                           /\ owner[draft[q].rid] = owner[q]

CallerRows == \A q \in QueueId : owner[q] \in Caller => CallerRow(q)

(* A queue row a drainer holds it may only settle, as a failure.           *)
Kept(row, new) ==
    /\ row = NoRow <=> new = NoRow
    /\ row # NoRow => /\ new.rid = row.rid /\ new.cv = row.cv
                      /\ Active(new) => Active(row)

Unsettled(row) == row.outcome \in {"active", "failed"}

DrainerRow(q) ==
    /\ Kept(committed[q], draft[q])
    /\ committed[q] # NoRow /\ Unsettled(committed[q]) => Unsettled(draft[q])

DrainerRows == \A q \in QueueId : owner[q] \in Drainer => DrainerRow(q)

(* What everybody sees: a queue row's record exists and has reached the    *)
(* row's version; work that waits for that version has not been done.      *)
Refers(q) ==
    committed[q] # NoRow =>
        LET rec == committed[committed[q].rid] IN
        /\ rec # NoRow /\ committed[q].cv <= rec.cv
        /\ Active(committed[q]) /\ committed[q].cv = rec.cv
              => rec.embedding = NoVector

RowsRefer == \A q \in QueueId : Refers(q)

Waiting(r) ==
    \E q \in QueueId :
        /\ committed[q] # NoRow
        /\ committed[q].rid = r /\ committed[q].cv = committed[r].cv
        /\ Unsettled(committed[q])

(* What a caller's transaction makes of a record it holds.                 *)
Mended(s, r) ==
    \A q \in QueueId :
        owner[q] = s /\ draft[q] # NoRow /\ draft[q].rid = r =>
            /\ draft[q].cv <= draft[r].cv
            /\ draft[q].cv = draft[r].cv => draft[r].embedding = NoVector

Cleared(s, r) ==
    \A q \in QueueId : committed[q] # NoRow /\ committed[q].rid = r => owner[q] = s

Advanced(s, r) ==
    \/ draft[r] = committed[r]
    \/ committed[r] # NoRow /\ draft[r].cv > committed[r].cv
    \/ Cleared(s, r)

Enqueued(s, r) ==
    \/ \E q \in QueueId : /\ owner[q] = s /\ draft[q] # NoRow
                          /\ draft[q].rid = r /\ draft[q].cv = draft[r].cv
    \/ /\ draft[r] = committed[r]
       /\ \A q \in QueueId :
             owner[q] = s /\ committed[q] # NoRow => committed[q].rid # r

Supplied(r) ==
    \/ draft[r].embedding \in CallerVector \cup {NoVector}
    \/ /\ committed[r] # NoRow /\ draft[r].content = committed[r].content
       /\ draft[r].embedding = committed[r].embedding

Drafted(s, r) ==
    draft[r] # NoRow =>
        /\ Mended(s, r) /\ Advanced(s, r) /\ Supplied(r)
        /\ draft[r].embedding = NoVector => Enqueued(s, r)

DraftsAreMended ==
    \A s \in Caller, r \in RecordId : owner[r] = s => Drafted(s, r)

(* Queue rows of a record that a transaction has deleted are on their way  *)
(* out: the delete has yet to look for them, or its cascade to reach them. *)
Left(s, q, r) ==
    \/ owner[q] = s /\ draft[q] # NoRow /\ draft[q].rid = r
    \/ owner[q] # s /\ committed[q] # NoRow /\ committed[q].rid = r

Cascades(s, r) ==
    draft[r] = NoRow =>
        \A q \in QueueId : Left(s, q, r) =>
            \/ stmt[s].op = "delete"
            \/ stmt[s].op = "cascade" /\ q \in Rows(s)

DeletesCascade ==
    \A s \in Caller, r \in RecordId : owner[r] = s => Cascades(s, r)

Own(s, q) ==
    /\ committed[q] # NoRow \/ owner[q] = s
    /\ committed[q] # NoRow => /\ owner[committed[q].rid] = s
                               /\ draft[committed[q].rid] = NoRow
    /\ owner[q] = s /\ draft[q] # NoRow => draft[draft[q].rid] = NoRow

CascadesAreOwn ==
    \A s \in Caller : stmt[s].op = "cascade" => \A q \in Rows(s) : Own(s, q)

(* What a drainer has claimed is what the row says, as long as it exists;  *)
(* and what it embeds is the record's text at that version.                *)
Holds(k) ==
    /\ k.q < nextId
    /\ draft[k.q] # NoRow => committed[k.q] # NoRow
    /\ committed[k.q] # NoRow =>
          /\ committed[k.q].rid = k.rid /\ committed[k.q].cv = k.cv
          /\ committed[k.rid].cv = k.cv => committed[k.rid].content = k.content

ClaimsHold == \A w \in Drainer : \A k \in batch[w] : Holds(k)

Bounded(row) == row # NoRow /\ row.embedding = NoVector => row.cv <= MaxVersion

VersionsAreBounded ==
    \A r \in RecordId : Bounded(committed[r]) /\ Bounded(draft[r])

RowType(x) == IF x \in QueueId THEN QueueRow \cup {NoRow} ELSE RecordRow \cup {NoRow}

Typed ==
    /\ TypeOK /\ DOMAIN committed = Row /\ DOMAIN draft = Row
    /\ VersionsAreBounded

IInv ==
    /\ Typed /\ FreeRowsAreClean /\ IdsAreFresh /\ RecordsAreCallers
    /\ CallerPlan /\ DrainerPlan /\ PlansArePast
    /\ CallerRows /\ DrainerRows /\ RowsRefer /\ WorkIsQueued
    /\ DraftsAreMended /\ DeletesCascade /\ CascadesAreOwn /\ ClaimsHold

-----------------------------------------------------------------------------
(* What the helpers do, row by row.                                        *)

LEMMA KindsOfRow ==
    /\ \A r \in RecordId : r \in Row /\ r \notin QueueId
    /\ \A q \in QueueId : q \in Row /\ q \notin RecordId /\ q \in Nat
    /\ \A s \in Session : s # NoOne
    /\ \A s \in Caller : s \in Session /\ s \notin Drainer
    /\ \A w \in Drainer : w \in Session /\ w \notin Caller
  BY TransactionAssumptions DEF Row, QueueId, Session

LEMMA OneRow ==
    ASSUME NEW x, NEW row
    PROVE  /\ DOMAIN One(x, row) = {x} /\ One(x, row)[x] = row
           /\ \A y : y \in DOMAIN One(x, row) <=> y = x
  BY DEF One

LEMMA BothRows ==
    ASSUME NEW x, NEW row, NEW z, NEW other, x # z
    PROVE  /\ \A y : y \in DOMAIN Both(x, row, z, other) <=> y \in {x, z}
           /\ Both(x, row, z, other)[x] = row
           /\ Both(x, row, z, other)[z] = other
  BY DEF Both

(* The commit of session s, for one row.                                   *)
LEMMA CommitRow ==
    ASSUME NEW s, NEW new, CommitWith(s, new), NEW x \in Row
    PROVE  /\ committed'[x] = IF x \in DOMAIN new THEN new[x]
                              ELSE IF owner[x] = s THEN draft[x] ELSE committed[x]
           /\ draft'[x] = IF owner[x] \in {s, NoOne} THEN committed'[x]
                          ELSE draft[x]
           /\ owner'[x] = IF owner[x] = s THEN NoOne ELSE owner[x]
  BY DEF CommitWith, Sees

LEMMA LockRow ==
    ASSUME NEW s, NEW new, Locks(s, new), NEW x \in Row
    PROVE  /\ committed'[x] = committed[x]
           /\ draft'[x] = IF x \in DOMAIN new THEN new[x] ELSE draft[x]
           /\ owner'[x] = IF x \in DOMAIN new THEN s ELSE owner[x]
  BY DEF Locks

LEMMA RollRow ==
    ASSUME NEW s, Roll(s), NEW x \in Row
    PROVE  /\ committed'[x] = committed[x]
           /\ draft'[x] = IF owner[x] = s THEN committed[x] ELSE draft[x]
           /\ owner'[x] = IF owner[x] = s THEN NoOne ELSE owner[x]
  BY DEF Roll

(* The claim with the lowest queue id is one of the batch.                 *)
LEMMA FirstIsClaimed ==
    ASSUME NEW w, batch[w] # {}, \A k \in batch[w] : k.q \in Nat
    PROVE  First(w) \in batch[w]
<1> DEFINE ids == {k.q : k \in batch[w]}
           R == {p \in Nat \X Nat : p[1] < p[2]}
<1>1. IsWellFoundedOn(R, Nat)
  BY NatLessThanWellFounded DEF OpToRel
<1>2. ids \subseteq Nat /\ ids # {}
  OBVIOUS
<1>3. PICK m \in ids : \A n \in ids : ~(<<n, m>> \in R)
  BY <1>1, <1>2, WFMin
<1>4. \A n \in ids : m <= n
  <2> SUFFICES ASSUME NEW n \in ids PROVE m <= n
    OBVIOUS
  <2>1. n \in Nat /\ m \in Nat
    BY <1>2
  <2> HIDE DEF ids
  <2>2. ~(n < m)
    BY <1>3, <2>1
  <2> QED
    BY <2>1, <2>2
<1>5. PICK k \in batch[w] : k.q = m
  OBVIOUS
<1>6. \A j \in batch[w] : k.q <= j.q
  BY <1>4, <1>5
<1> DEFINE Lowest(i) == i \in batch[w] /\ \A j \in batch[w] : i.q <= j.q
<1>7. \E i : Lowest(i)
  BY <1>6
<1>8. First(w) = CHOOSE i : Lowest(i)
  BY DEF First
<1> HIDE DEF Lowest
<1>9. Lowest(First(w))
  BY <1>7, <1>8
<1> QED
  BY <1>9 DEF Lowest

-----------------------------------------------------------------------------
(* Types.                                                                  *)

LEMMA RowTypes ==
    ASSUME Typed
    PROVE  /\ \A r \in RecordId :
                 /\ committed[r] # NoRow => committed[r] \in RecordRow
                 /\ draft[r] # NoRow => draft[r] \in RecordRow
           /\ \A q \in QueueId :
                 /\ committed[q] # NoRow =>
                       committed[q] \in QueueRow /\ committed[q].rid \in RecordId
                 /\ draft[q] # NoRow =>
                       draft[q] \in QueueRow /\ draft[q].rid \in RecordId
<1>1. TypeOK
  BY DEF Typed
<1>2. \A row \in QueueRow : row.rid \in RecordId
  BY DEF QueueRow
<1> QED
  BY <1>1, <1>2 DEF TypeOK

LEMMA Versions ==
    /\ \A row \in QueueRow : row.cv \in Nat
    /\ \A row \in RecordRow : row.cv \in Nat
  BY TransactionAssumptions DEF QueueRow, RecordRow

LEMMA PlanTypes ==
    ASSUME Typed, NEW s \in Session
    PROVE  /\ stmt[s].op \in {"put", "delete", "written"} =>
                 stmt[s].next \in RecordId /\ stmt[s].later \subseteq RecordId
           /\ stmt[s].op \in {"cascade", "sweep", "fence", "release", "note"} =>
                 /\ stmt[s].next \in QueueId /\ stmt[s].later \subseteq QueueId
                 /\ Rows(s) \subseteq QueueId
           /\ stmt[s] \in Statement
<1>1. stmt[s] \in Statement
  BY DEF Typed, TypeOK
<1>2. \A st \in Statement :
         /\ st.op \in {"put", "delete", "written"} =>
               st.next \in RecordId /\ st.later \subseteq RecordId
         /\ st.op \in {"cascade", "sweep", "fence", "release", "note"} =>
               st.next \in QueueId /\ st.later \subseteq QueueId
  BY DEF Statement, NoStatement
<1> QED
  BY <1>1, <1>2 DEF Rows

LEMMA ClaimTypes ==
    ASSUME Typed, NEW w \in Drainer, NEW k \in batch[w]
    PROVE  /\ k.q \in QueueId /\ k.rid \in RecordId /\ k.cv \in Nat
           /\ k.content \in Content /\ k \in Claim
<1>1. k \in Claim
  BY DEF Typed, TypeOK
<1> QED
  BY <1>1, TransactionAssumptions DEF Claim

-----------------------------------------------------------------------------
(* What drainers and time do to the tables: a record that nobody holds may *)
(* get the vector of its text; a queue row stays what it is, and pending   *)
(* or failed unless its version has been passed.                           *)
Embedded(old, new) ==
    /\ old # NoRow /\ old.embedding = NoVector
    /\ new # NoRow /\ new.embedding # NoVector
    /\ new.embedding = ModelVector(old.content)
    /\ new.content = old.content /\ new.cv = old.cv + 1

KeptRecord(r) ==
    /\ owner'[r] = owner[r]
    /\ owner[r] # NoOne => committed'[r] = committed[r] /\ draft'[r] = draft[r]
    /\ owner[r] = NoOne => draft'[r] = committed'[r]
    /\ committed'[r] = committed[r] \/ Embedded(committed[r], committed'[r])

Superseded(row) ==
    committed'[row.rid] = NoRow \/ committed'[row.rid].cv # row.cv

KeptQueueRow(q) ==
    /\ Kept(committed[q], committed'[q])
    /\ draft[q] = NoRow <=> draft'[q] = NoRow
    /\ committed[q] # NoRow /\ Unsettled(committed[q])
          => Unsettled(committed'[q]) \/ Superseded(committed[q])
    /\ owner[q] \in Caller <=> owner'[q] \in Caller
    /\ owner[q] \in Caller =>
          /\ owner'[q] = owner[q]
          /\ draft[q] # NoRow => /\ draft'[q].rid = draft[q].rid
                                 /\ draft'[q].cv = draft[q].cv
                                 /\ draft'[q].outcome = draft[q].outcome
    /\ q >= nextId => owner'[q] = owner[q]

DrainerMove ==
    /\ \A r \in RecordId : KeptRecord(r)
    /\ \A q \in QueueId : KeptQueueRow(q)
    /\ nextId' = nextId
    /\ \A s \in Caller : stmt'[s] = stmt[s]

(* Such a move leaves callers and their plans alone, ...                   *)
LEMMA DrainersLeaveCallers ==
    ASSUME IInv, DrainerMove
    PROVE  /\ VersionsAreBounded' /\ IdsAreFresh' /\ RecordsAreCallers'
           /\ CallerPlan' /\ CallerRows'
           /\ DraftsAreMended' /\ DeletesCascade' /\ CascadesAreOwn'
<1>1. /\ \A r \in RecordId : KeptRecord(r)
      /\ \A q \in QueueId : KeptQueueRow(q)
      /\ nextId' = nextId /\ \A s \in Caller : stmt'[s] = stmt[s]
  BY DEF DrainerMove
<1>2. /\ Typed /\ FreeRowsAreClean /\ IdsAreFresh /\ RecordsAreCallers
      /\ CallerPlan /\ CallerRows
      /\ DraftsAreMended /\ DeletesCascade /\ CascadesAreOwn
  BY DEF IInv
<1>3. /\ \A q \in QueueId :
            /\ committed[q] # NoRow => committed[q].rid \in RecordId
            /\ draft[q] # NoRow => draft[q].rid \in RecordId
  BY <1>2, RowTypes
<1>4. NoOne \notin Caller
  BY TransactionAssumptions DEF Session
<1>5. VersionsAreBounded'
  <2> SUFFICES ASSUME NEW r \in RecordId
               PROVE  Bounded(committed'[r]) /\ Bounded(draft'[r])
    BY DEF VersionsAreBounded
  <2>1. Bounded(committed[r]) /\ Bounded(draft[r])
    BY <1>2 DEF Typed, VersionsAreBounded
  <2>2. KeptRecord(r)
    BY <1>1
  <2>3. Bounded(committed'[r])
    BY <2>1, <2>2 DEF KeptRecord, Embedded, Bounded
  <2> QED
    BY <2>1, <2>2, <2>3 DEF KeptRecord
<1>6. IdsAreFresh'
  BY <1>1, <1>2, <1>4 DEF IdsAreFresh, Fresh, KeptQueueRow, Kept
<1>7. RecordsAreCallers' /\ CallerPlan'
  BY <1>1, <1>2 DEF RecordsAreCallers, CallerPlan, KeptRecord
<1>8. CallerRows'
  <2> SUFFICES ASSUME NEW q \in QueueId, owner'[q] \in Caller
               PROVE  CallerRow(q)'
    BY DEF CallerRows
  <2>1. owner[q] \in Caller /\ CallerRow(q) /\ KeptQueueRow(q)
    BY <1>1, <1>2 DEF CallerRows, KeptQueueRow
  <2>2. \A r \in RecordId : owner'[r] = owner[r]
    BY <1>1 DEF KeptRecord
  <2> QED
    BY <2>1, <2>2, <1>3 DEF CallerRow, KeptQueueRow, Kept
<1>9. ASSUME NEW s \in Caller
      PROVE  /\ stmt'[s] = stmt[s] /\ Rows(s)' = Rows(s)
             /\ \A r \in RecordId : owner'[r] = s <=> owner[r] = s
             /\ \A q \in QueueId : owner'[q] = s <=> owner[q] = s
             /\ \A r \in RecordId : owner[r] = s =>
                   committed'[r] = committed[r] /\ draft'[r] = draft[r]
             /\ \A q \in QueueId :
                   /\ committed'[q] # NoRow <=> committed[q] # NoRow
                   /\ committed[q] # NoRow => committed'[q].rid = committed[q].rid
                   /\ draft'[q] # NoRow <=> draft[q] # NoRow
                   /\ owner[q] = s /\ draft[q] # NoRow =>
                         /\ draft'[q].rid = draft[q].rid
                         /\ draft'[q].cv = draft[q].cv
  BY <1>1, <1>4 DEF KeptRecord, KeptQueueRow, Kept, Rows
<1>10. DraftsAreMended'
  <2> SUFFICES ASSUME NEW s \in Caller, NEW r \in RecordId, owner'[r] = s
               PROVE  Drafted(s, r)'
    BY DEF DraftsAreMended
  <2>1. /\ owner[r] = s /\ Drafted(s, r)
        /\ committed'[r] = committed[r] /\ draft'[r] = draft[r]
    BY <1>9, <1>2 DEF DraftsAreMended
  <2> SUFFICES ASSUME draft[r] # NoRow
               PROVE  /\ Mended(s, r)' /\ Advanced(s, r)' /\ Supplied(r)'
                      /\ draft[r].embedding = NoVector => Enqueued(s, r)'
    BY <2>1 DEF Drafted
  <2>2. /\ Mended(s, r) /\ Advanced(s, r) /\ Supplied(r)
        /\ draft[r].embedding = NoVector => Enqueued(s, r)
    BY <2>1 DEF Drafted
  <2>3. Mended(s, r)'
    BY <1>9, <2>1, <2>2 DEF Mended
  <2>4. Advanced(s, r)'
    BY <1>9, <2>1, <2>2 DEF Advanced, Cleared
  <2>5. Supplied(r)'
    BY <2>1, <2>2 DEF Supplied
  <2>6. draft[r].embedding = NoVector => Enqueued(s, r)'
    BY <1>9, <2>1, <2>2 DEF Enqueued
  <2> QED
    BY <2>3, <2>4, <2>5, <2>6
<1>11. DeletesCascade'
  <2> SUFFICES ASSUME NEW s \in Caller, NEW r \in RecordId, owner'[r] = s
               PROVE  Cascades(s, r)'
    BY DEF DeletesCascade
  <2>1. owner[r] = s /\ Cascades(s, r) /\ draft'[r] = draft[r]
    BY <1>9, <1>2 DEF DeletesCascade
  <2>2. \A q \in QueueId : Left(s, q, r)' => Left(s, q, r)
    BY <1>9 DEF Left
  <2> QED
    BY <2>1, <2>2, <1>9 DEF Cascades
<1>12. CascadesAreOwn'
  <2> SUFFICES ASSUME NEW s \in Caller, stmt'[s].op = "cascade",
                      NEW q \in Rows(s)'
               PROVE  Own(s, q)'
    BY DEF CascadesAreOwn
  <2>1. stmt[s].op = "cascade" /\ q \in Rows(s) /\ Own(s, q)
    BY <1>9, <1>2 DEF CascadesAreOwn
  <2>2. q \in QueueId
    BY <2>1, <1>2, PlanTypes, KindsOfRow
  <2>3. \A r \in RecordId : owner[r] = s => draft'[r] = draft[r] /\ owner'[r] = s
    BY <1>9
  <2>4. CallerRows
    BY <1>2
  <2> QED
    BY <2>1, <2>2, <2>3, <2>4, <1>3, <1>9 DEF Own, CallerRows, CallerRow
<1> QED
  BY <1>5, <1>6, <1>7, <1>8, <1>10, <1>11, <1>12

(* ... what everybody sees stays consistent, and so do the claims.         *)
LEMMA DrainersKeepTables ==
    ASSUME IInv, DrainerMove
    PROVE  /\ RowsRefer' /\ WorkIsQueued'
           /\ \A w \in Drainer : \A k \in batch[w] : Holds(k)'
<1>1. /\ \A r \in RecordId : KeptRecord(r)
      /\ \A q \in QueueId : KeptQueueRow(q)
      /\ nextId' = nextId
  BY DEF DrainerMove
<1>2. Typed /\ RowsRefer /\ WorkIsQueued /\ ClaimsHold
  BY DEF IInv
<1>3. \A r \in RecordId :
         /\ committed[r] # NoRow <=> committed'[r] # NoRow
         /\ committed[r] # NoRow => committed[r].cv \in Nat
  BY <1>1, <1>2, RowTypes, Versions DEF KeptRecord, Embedded
<1>4. \A q \in QueueId : committed[q] # NoRow =>
         committed[q].rid \in RecordId /\ committed[q].cv \in Nat
  BY <1>2, RowTypes, Versions
<1>5. RowsRefer'
  <2> SUFFICES ASSUME NEW q \in QueueId, committed'[q] # NoRow
               PROVE  Refers(q)'
    BY DEF RowsRefer, Refers
  <2> DEFINE r == committed[q].rid
  <2>1. /\ committed[q] # NoRow /\ Refers(q) /\ r \in RecordId
        /\ committed[q].cv \in Nat
        /\ committed'[q].rid = r /\ committed'[q].cv = committed[q].cv
        /\ Active(committed'[q]) => Active(committed[q])
    BY <1>1, <1>2, <1>4 DEF KeptQueueRow, Kept, RowsRefer
  <2>2. /\ committed[r] # NoRow /\ committed[r].cv \in Nat
        /\ committed[q].cv <= committed[r].cv
        /\ Active(committed[q]) /\ committed[q].cv = committed[r].cv
              => committed[r].embedding = NoVector
    BY <2>1, <1>3 DEF Refers
  <2>3. committed'[r] = committed[r] \/ Embedded(committed[r], committed'[r])
    BY <1>1, <2>1 DEF KeptRecord
  <2>4. /\ committed'[r] # NoRow /\ committed[q].cv <= committed'[r].cv
        /\ Active(committed[q]) /\ committed[q].cv = committed'[r].cv
              => committed'[r].embedding = NoVector
    BY <2>1, <2>2, <2>3 DEF Embedded
  <2> QED
    BY <2>1, <2>4 DEF Refers
<1>6. WorkIsQueued'
  <2> SUFFICES ASSUME NEW r \in RecordId, committed'[r] # NoRow,
                      committed'[r].embedding = NoVector
               PROVE  Waiting(r)'
    BY DEF WorkIsQueued, Waiting, Unsettled
  <2>1. committed'[r] = committed[r]
    BY <1>1 DEF KeptRecord, Embedded
  <2>2. Waiting(r)
    BY <1>2, <2>1 DEF WorkIsQueued, Waiting, Unsettled
  <2>3. PICK q \in QueueId : /\ committed[q] # NoRow /\ committed[q].rid = r
                             /\ committed[q].cv = committed[r].cv
                             /\ Unsettled(committed[q])
    BY <2>2 DEF Waiting
  <2>4. /\ committed'[q] # NoRow /\ committed'[q].rid = r
        /\ committed'[q].cv = committed'[r].cv
        /\ Unsettled(committed'[q]) \/ Superseded(committed[q])
    BY <1>1, <2>1, <2>3 DEF KeptQueueRow, Kept
  <2>5. Unsettled(committed'[q])
    BY <2>1, <2>3, <2>4 DEF Superseded
  <2> QED
    BY <2>4, <2>5 DEF Waiting
<1>7. ASSUME NEW w \in Drainer, NEW k \in batch[w]
      PROVE  Holds(k)'
  <2>1. Holds(k) /\ k.q \in QueueId /\ k.rid \in RecordId /\ k.cv \in Nat
    BY <1>2, ClaimTypes DEF ClaimsHold
  <2>2. KeptQueueRow(k.q) /\ KeptRecord(k.rid) /\ Refers(k.q)
    BY <1>1, <1>2, <2>1 DEF RowsRefer
  <2>3. /\ k.q < nextId'
        /\ draft'[k.q] # NoRow => committed'[k.q] # NoRow
        /\ committed'[k.q] # NoRow =>
              /\ committed[k.q] # NoRow
              /\ committed'[k.q].rid = k.rid /\ committed'[k.q].cv = k.cv
    BY <2>1, <2>2, <1>1 DEF KeptQueueRow, Kept, Holds
  <2>4. ASSUME committed'[k.q] # NoRow, committed'[k.rid].cv = k.cv
        PROVE  committed'[k.rid].content = k.content
    <3>1. /\ committed[k.q] # NoRow /\ committed[k.q].rid = k.rid
          /\ committed[k.q].cv = k.cv
          /\ committed[k.rid].cv = k.cv => committed[k.rid].content = k.content
      BY <2>1, <2>3, <2>4 DEF Holds
    <3>2. /\ committed[k.rid] # NoRow /\ committed[k.rid].cv \in Nat
          /\ k.cv <= committed[k.rid].cv
      BY <3>1, <2>1, <2>2, <1>3 DEF Refers
    <3>3. committed'[k.rid] = committed[k.rid]
      BY <3>2, <2>1, <2>2, <2>4 DEF KeptRecord, Embedded
    <3> QED
      BY <3>1, <3>3, <2>4
  <2> QED
    BY <2>3, <2>4 DEF Holds
<1> QED
  BY <1>5, <1>6, <1>7

-----------------------------------------------------------------------------
(* How the three ways to change rows keep the types and the clean rows.    *)
TablesTyped ==
    /\ \A x \in Row : {committed[x], draft[x]} \subseteq RowType(x)
    /\ DOMAIN committed = Row /\ DOMAIN draft = Row
    /\ owner \in [Row -> Session \cup {NoOne}]

PlansTyped ==
    /\ stmt \in [Session -> Statement]
    /\ batch \in [Drainer -> SUBSET Claim]
    /\ pc \in [Drainer -> {"idle", "claim", "embed", "write", "release", "fail"}]
    /\ nextId \in 1 .. MaxQueueId + 1

LEMMA TypedParts == Typed <=> TablesTyped /\ PlansTyped /\ VersionsAreBounded
  BY KindsOfRow DEF Typed, TypeOK, TablesTyped, PlansTyped, RowType, Row

LEMMA CommitTyped ==
    ASSUME TablesTyped, NEW s \in Session, NEW new, CommitWith(s, new),
           \A x \in DOMAIN new : x \in Row => new[x] \in RowType(x)
    PROVE  TablesTyped'
<1>1. \A x \in Row : {committed'[x], draft'[x]} \subseteq RowType(x)
  BY CommitRow DEF TablesTyped
<1> QED
  BY <1>1 DEF TablesTyped, CommitWith

LEMMA LocksTyped ==
    ASSUME TablesTyped, NEW s \in Session, NEW new, Locks(s, new),
           \A x \in DOMAIN new : x \in Row => new[x] \in RowType(x)
    PROVE  TablesTyped'
<1>1. \A x \in Row : {committed'[x], draft'[x]} \subseteq RowType(x)
  BY LockRow DEF TablesTyped
<1> QED
  BY <1>1 DEF TablesTyped, Locks

LEMMA RollTyped ==
    ASSUME TablesTyped, NEW s \in Session, Roll(s)
    PROVE  TablesTyped'
<1>1. \A x \in Row : {committed'[x], draft'[x]} \subseteq RowType(x)
  BY RollRow DEF TablesTyped
<1> QED
  BY <1>1 DEF TablesTyped, Roll

LEMMA RowsComeClean ==
    ASSUME FreeRowsAreClean, NEW s \in Session, NEW new,
           CommitWith(s, new) \/ Locks(s, new) \/ Roll(s)
    PROVE  FreeRowsAreClean'
<1>1. s # NoOne
  BY KindsOfRow
<1>2. CASE CommitWith(s, new)
  BY <1>1, <1>2, CommitRow DEF FreeRowsAreClean
<1>3. CASE Locks(s, new)
  BY <1>1, <1>3, LockRow DEF FreeRowsAreClean
<1>4. CASE Roll(s)
  BY <1>1, <1>4, RollRow DEF FreeRowsAreClean
<1> QED
  BY <1>2, <1>3, <1>4

-----------------------------------------------------------------------------
(* The same three, done by a drainer, are drainers' moves.                 *)
Settles(q, row) ==
    /\ Kept(committed[q], row)
    /\ committed[q] # NoRow /\ Unsettled(committed[q])
          => Unsettled(row) \/ Superseded(committed[q])

Mild == nextId' = nextId /\ \A s \in Caller : stmt'[s] = stmt[s]

LEMMA DrainerCommits ==
    ASSUME IInv, NEW w \in Drainer, NEW new, CommitWith(w, new), Mild,
           \A x \in DOMAIN new : x \in Row /\ owner[x] \in {w, NoOne},
           \A q \in QueueId : q \in DOMAIN new => Settles(q, new[q]),
           \A r \in RecordId : r \in DOMAIN new => Embedded(committed[r], new[r])
    PROVE  DrainerMove /\ DrainerRows' /\ FreeRowsAreClean'
<1>1. /\ FreeRowsAreClean /\ IdsAreFresh /\ RecordsAreCallers /\ DrainerRows
  BY DEF IInv
<1>2. /\ w \in Session /\ w # NoOne /\ w \notin Caller /\ NoOne \notin Caller
      /\ NoOne \notin Drainer
  BY KindsOfRow, TransactionAssumptions DEF Session
<1>3. ASSUME NEW r \in RecordId PROVE KeptRecord(r)
  <2>1. owner[r] \in Caller \cup {NoOne} /\ r \in Row
    BY <1>1, KindsOfRow DEF RecordsAreCallers
  <2>2. owner[r] = NoOne => draft[r] = committed[r]
    BY <1>1, <2>1 DEF FreeRowsAreClean
  <2>3. /\ committed'[r] = IF r \in DOMAIN new THEN new[r] ELSE committed[r]
        /\ draft'[r] = IF owner[r] = NoOne THEN committed'[r] ELSE draft[r]
        /\ owner'[r] = owner[r]
    BY <1>2, <2>1, CommitRow
  <2> QED
    BY <2>1, <2>2, <2>3, <1>2 DEF KeptRecord
<1>4. ASSUME NEW q \in QueueId PROVE KeptQueueRow(q) /\ (owner'[q] \in Drainer => DrainerRow(q)')
  <2>1. /\ committed'[q] = IF q \in DOMAIN new THEN new[q]
                           ELSE IF owner[q] = w THEN draft[q] ELSE committed[q]
        /\ draft'[q] = IF owner[q] \in {w, NoOne} THEN committed'[q] ELSE draft[q]
        /\ owner'[q] = IF owner[q] = w THEN NoOne ELSE owner[q]
    BY CommitRow, KindsOfRow
  <2>2. /\ owner[q] = NoOne => draft[q] = committed[q]
        /\ owner[q] \in Drainer => DrainerRow(q)
        /\ q >= nextId => owner[q] = NoOne
    BY <1>1, KindsOfRow DEF FreeRowsAreClean, DrainerRows, IdsAreFresh, Fresh
  <2>3. Settles(q, committed'[q])
    <3>1. CASE q \in DOMAIN new
      BY <2>1, <3>1
    <3>2. CASE q \notin DOMAIN new /\ owner[q] = w
      BY <2>1, <2>2, <3>2 DEF DrainerRow, Settles
    <3>3. CASE q \notin DOMAIN new /\ owner[q] # w
      BY <2>1, <3>3 DEF Settles, Kept
    <3> QED
      BY <3>1, <3>2, <3>3
  <2>4. draft[q] = NoRow <=> draft'[q] = NoRow
    BY <2>1, <2>2, <2>3 DEF Settles, Kept, DrainerRow
  <2>5. KeptQueueRow(q)
    BY <2>1, <2>2, <2>3, <2>4, <1>2 DEF KeptQueueRow, Settles
  <2>6. ASSUME owner'[q] \in Drainer PROVE DrainerRow(q)'
    <3>1. owner[q] \in Drainer /\ owner[q] # w /\ owner[q] # NoOne
      BY <2>1, <2>6, <1>2
    <3>2. committed'[q] = committed[q] /\ draft'[q] = draft[q]
      BY <2>1, <3>1
    <3> QED
      BY <3>1, <3>2, <2>2 DEF DrainerRow, Kept
  <2> QED
    BY <2>5, <2>6
<1>5. FreeRowsAreClean'
  BY <1>1, <1>2, RowsComeClean
<1> QED
  BY <1>3, <1>4, <1>5 DEF DrainerMove, DrainerRows, Mild

LEMMA DrainerLocks ==
    ASSUME IInv, NEW w \in Drainer, NEW x \in QueueId, NEW row,
           Locks(w, One(x, row)), Mild,
           owner[x] \in {w, NoOne}, x < nextId, Kept(committed[x], row),
           committed[x] # NoRow /\ Unsettled(committed[x]) => Unsettled(row)
    PROVE  DrainerMove /\ DrainerRows' /\ FreeRowsAreClean'
<1>1. FreeRowsAreClean /\ RecordsAreCallers /\ DrainerRows
  BY DEF IInv
<1>2. /\ w \in Session /\ w # NoOne /\ w \notin Caller /\ NoOne \notin Caller
      /\ NoOne \notin Drainer
  BY KindsOfRow, TransactionAssumptions DEF Session
<1>3. ASSUME NEW y \in Row
      PROVE  /\ committed'[y] = committed[y]
             /\ draft'[y] = IF y = x THEN row ELSE draft[y]
             /\ owner'[y] = IF y = x THEN w ELSE owner[y]
  <2>1. y \in DOMAIN One(x, row) <=> y = x
    BY OneRow
  <2>2. One(x, row)[x] = row
    BY OneRow
  <2> QED
    BY <2>1, <2>2, LockRow
<1>4. ASSUME NEW r \in RecordId PROVE KeptRecord(r)
  <2>1. r \in Row /\ r # x
    BY KindsOfRow
  <2> QED
    BY <2>1, <1>1, <1>3 DEF KeptRecord, FreeRowsAreClean
<1>5. ASSUME NEW q \in QueueId PROVE KeptQueueRow(q) /\ (owner'[q] \in Drainer => DrainerRow(q)')
  <2>1. q \in Row /\ q \in Nat /\ x \in Row /\ x \in Nat
    BY KindsOfRow
  <2>2. /\ committed'[q] = committed[q]
        /\ draft'[q] = IF q = x THEN row ELSE draft[q]
        /\ owner'[q] = IF q = x THEN w ELSE owner[q]
    BY <1>3, <2>1
  <2>3. /\ owner[q] = NoOne => draft[q] = committed[q]
        /\ owner[q] \in Drainer => DrainerRow(q)
    BY <1>1, <2>1 DEF FreeRowsAreClean, DrainerRows
  <2>4. q >= nextId => q # x
    BY <2>1, TypedParts, TransactionAssumptions DEF IInv, PlansTyped
  <2>5. CASE q = x
    BY <2>5, <2>2, <2>3, <2>4, <1>2 DEF KeptQueueRow, DrainerRow, Kept
  <2>6. CASE q # x
    BY <2>6, <2>2, <2>3, <2>4, <1>2 DEF KeptQueueRow, DrainerRow, Kept
  <2> QED
    BY <2>5, <2>6
<1>6. FreeRowsAreClean'
  BY <1>1, <1>2, RowsComeClean
<1> QED
  BY <1>4, <1>5, <1>6 DEF DrainerMove, DrainerRows, Mild

LEMMA DrainerRolls ==
    ASSUME IInv, NEW w \in Drainer, Roll(w), Mild
    PROVE  DrainerMove /\ DrainerRows' /\ FreeRowsAreClean'
<1>1. FreeRowsAreClean /\ IdsAreFresh /\ RecordsAreCallers /\ DrainerRows
  BY DEF IInv
<1>2. /\ w \in Session /\ w # NoOne /\ w \notin Caller /\ NoOne \notin Caller
      /\ NoOne \notin Drainer
  BY KindsOfRow, TransactionAssumptions DEF Session
<1>3. ASSUME NEW r \in RecordId PROVE KeptRecord(r)
  <2>1. r \in Row /\ owner[r] # w
    BY <1>1, <1>2, KindsOfRow DEF RecordsAreCallers
  <2> QED
    BY <2>1, <1>1, RollRow DEF KeptRecord, FreeRowsAreClean
<1>4. ASSUME NEW q \in QueueId PROVE KeptQueueRow(q) /\ (owner'[q] \in Drainer => DrainerRow(q)')
  <2>1. /\ committed'[q] = committed[q]
        /\ draft'[q] = IF owner[q] = w THEN committed[q] ELSE draft[q]
        /\ owner'[q] = IF owner[q] = w THEN NoOne ELSE owner[q]
    BY RollRow, KindsOfRow
  <2>2. /\ owner[q] \in Drainer => DrainerRow(q)
        /\ q >= nextId => owner[q] = NoOne
    BY <1>1 DEF DrainerRows, IdsAreFresh, Fresh
  <2> QED
    BY <2>1, <2>2, <1>2 DEF KeptQueueRow, DrainerRow, Kept
<1>5. FreeRowsAreClean'
  BY <1>1, <1>2, RowsComeClean
<1> QED
  BY <1>3, <1>4, <1>5 DEF DrainerMove, DrainerRows, Mild

LEMMA DrainerStays ==
    ASSUME IInv, Unlocked, Mild
    PROVE  DrainerMove /\ DrainerRows' /\ FreeRowsAreClean' /\ TablesTyped'
<1>1. FreeRowsAreClean /\ RecordsAreCallers /\ DrainerRows /\ TablesTyped
  BY TypedParts DEF IInv
<1>2. FreeRowsAreClean' /\ DrainerRows' /\ TablesTyped'
  BY <1>1 DEF Unlocked, FreeRowsAreClean, DrainerRows, DrainerRow, TablesTyped, RowType
<1>3. \A r \in RecordId : KeptRecord(r)
  BY <1>1, KindsOfRow DEF Unlocked, KeptRecord, FreeRowsAreClean
<1>4. \A q \in QueueId : KeptQueueRow(q)
  BY DEF Unlocked, KeptQueueRow, Kept
<1> QED
  BY <1>2, <1>3, <1>4 DEF DrainerMove, Mild

-----------------------------------------------------------------------------
(* One drainer's step: its move, the rows of other drainers, the types.    *)
Untouched(v) ==
    \A q \in QueueId :
        /\ owner'[q] = v <=> owner[q] = v
        /\ owner[q] = v /\ Active(committed[q]) => Active(committed'[q])

DrainerStep(w) ==
    /\ DrainerMove /\ DrainerRows' /\ FreeRowsAreClean' /\ TablesTyped'
    /\ \A v \in Drainer \ {w} : Untouched(v)

Alone(w) ==
    /\ nextId' = nextId
    /\ \A s \in Session \ {w} : stmt'[s] = stmt[s]
    /\ \A v \in Drainer \ {w} : batch'[v] = batch[v] /\ pc'[v] = pc[v]

LEMMA OthersUntouched ==
    ASSUME NEW w \in Drainer, NEW v \in Drainer \ {w}, NEW new,
           \/ /\ CommitWith(w, new) \/ Locks(w, new)
              /\ \A x \in DOMAIN new : x \in Row /\ owner[x] \in {w, NoOne}
           \/ Roll(w) \/ Unlocked
    PROVE  Untouched(v)
<1>1. v # NoOne /\ w # NoOne /\ v # w
  BY KindsOfRow
<1> SUFFICES ASSUME NEW q \in QueueId
             PROVE  /\ owner'[q] = v <=> owner[q] = v
                    /\ owner[q] = v => committed'[q] = committed[q]
  BY DEF Untouched
<1>2. q \in Row
  BY KindsOfRow
<1>3. CASE CommitWith(w, new) /\ \A x \in DOMAIN new : owner[x] \in {w, NoOne}
  BY <1>1, <1>2, <1>3, CommitRow
<1>4. CASE Locks(w, new) /\ \A x \in DOMAIN new : owner[x] \in {w, NoOne}
  BY <1>1, <1>2, <1>4, LockRow
<1>5. CASE Roll(w)
  BY <1>1, <1>2, <1>5, RollRow
<1>6. CASE Unlocked
  BY <1>6 DEF Unlocked
<1> QED
  BY <1>3, <1>4, <1>5, <1>6

LEMMA CommitStep ==
    ASSUME IInv, NEW w \in Drainer, NEW new, CommitWith(w, new), Mild,
           \A x \in DOMAIN new : x \in Row /\ owner[x] \in {w, NoOne},
           \A x \in DOMAIN new : new[x] \in RowType(x),
           \A q \in QueueId : q \in DOMAIN new => Settles(q, new[q]),
           \A r \in RecordId : r \in DOMAIN new => Embedded(committed[r], new[r])
    PROVE  DrainerStep(w) /\ \A q \in QueueId : owner'[q] # w
<1>1. DrainerMove /\ DrainerRows' /\ FreeRowsAreClean'
  BY DrainerCommits
<1>2. TablesTyped'
  BY CommitTyped, KindsOfRow, TypedParts DEF IInv
<1>3. \A v \in Drainer \ {w} : Untouched(v)
  BY OthersUntouched
<1>4. \A q \in QueueId : owner'[q] # w
  BY CommitRow, KindsOfRow
<1> QED
  BY <1>1, <1>2, <1>3, <1>4 DEF DrainerStep

LEMMA LockStep ==
    ASSUME IInv, NEW w \in Drainer, NEW x \in QueueId, NEW row,
           Locks(w, One(x, row)), Mild,
           owner[x] \in {w, NoOne}, x < nextId, Kept(committed[x], row),
           row \in QueueRow \cup {NoRow},
           committed[x] # NoRow /\ Unsettled(committed[x]) => Unsettled(row)
    PROVE  DrainerStep(w) /\ \A q \in QueueId : owner'[q] = w => q = x \/ owner[q] = w
<1>1. DrainerMove /\ DrainerRows' /\ FreeRowsAreClean'
  BY DrainerLocks
<1>2. /\ \A y \in DOMAIN One(x, row) : y = x
      /\ One(x, row)[x] = row /\ x \in Row /\ w \in Session
  <2>1. x \in Row /\ w \in Session
    BY KindsOfRow
  <2>2. One(x, row)[x] = row /\ \A y : y \in DOMAIN One(x, row) <=> y = x
    BY OneRow
  <2> QED
    BY <2>1, <2>2
<1>3. TablesTyped'
  <2>1. \A y \in DOMAIN One(x, row) : y \in Row => One(x, row)[y] \in RowType(y)
    BY <1>2 DEF RowType
  <2>2. TablesTyped
    BY TypedParts DEF IInv
  <2> QED
    BY <1>2, <2>1, <2>2, LocksTyped
<1>4. \A v \in Drainer \ {w} : Untouched(v)
  BY <1>2, OthersUntouched
<1>5. \A q \in QueueId : owner'[q] = w => q = x \/ owner[q] = w
  BY <1>2, LockRow, KindsOfRow
<1> QED
  BY <1>1, <1>3, <1>4, <1>5 DEF DrainerStep

LEMMA RollStep ==
    ASSUME IInv, NEW w \in Drainer, Roll(w), Mild
    PROVE  DrainerStep(w) /\ \A q \in QueueId : owner'[q] # w
<1>1. DrainerMove /\ DrainerRows' /\ FreeRowsAreClean'
  BY DrainerRolls
<1>2. TablesTyped'
  BY RollTyped, KindsOfRow, TypedParts DEF IInv
<1>3. \A v \in Drainer \ {w} : Untouched(v)
  BY OthersUntouched
<1>4. \A q \in QueueId : owner'[q] # w
  BY RollRow, KindsOfRow
<1> QED
  BY <1>1, <1>2, <1>3, <1>4 DEF DrainerStep

LEMMA StayStep ==
    ASSUME IInv, NEW w \in Drainer, Unlocked, Mild
    PROVE  DrainerStep(w) /\ \A q \in QueueId : owner'[q] = w <=> owner[q] = w
<1>1. \A v \in Drainer \ {w} : Untouched(v)
  BY OthersUntouched
<1>2. \A q \in QueueId : owner'[q] = w <=> owner[q] = w
  BY DEF Unlocked
<1> QED
  BY <1>1, <1>2, DrainerStays DEF DrainerStep

(* A claim in hand, and the first of them.                                 *)
LEMMA FirstClaim ==
    ASSUME IInv, NEW w \in Drainer, batch[w] # {}
    PROVE  /\ First(w) \in batch[w] /\ First(w) \in Claim
           /\ First(w).q \in QueueId /\ First(w).rid \in RecordId
           /\ First(w).cv \in Nat /\ First(w).content \in Content
           /\ First(w).q < nextId
           /\ Holds(First(w))
<1>1. Typed /\ ClaimsHold
  BY DEF IInv
<1>2. \A k \in batch[w] : k.q \in Nat
  BY <1>1, ClaimTypes, KindsOfRow
<1>3. First(w) \in batch[w]
  BY <1>2, FirstIsClaimed
<1>4. Holds(First(w))
  BY <1>1, <1>3 DEF ClaimsHold
<1> QED
  BY <1>1, <1>3, <1>4, ClaimTypes DEF Holds

(* Another session's step leaves a drainer's plan as it was.               *)
LEMMA PlanStays ==
    ASSUME IInv, NEW v \in Drainer, Untouched(v),
           stmt'[v] = stmt[v], batch'[v] = batch[v], pc'[v] = pc[v]
    PROVE  PlanOf(v)'
<1>1. PlanOf(v)
  BY DEF IInv, DrainerPlan
<1>2. First(v)' = First(v)
  BY DEF First
<1>3. stmt[v].op = "written" =>
         /\ First(v).q \in QueueId /\ owner'[First(v).q] = v
         /\ Active(committed'[First(v).q])
  BY <1>1, FirstClaim DEF PlanOf, Untouched
<1>4. \A q \in QueueId : owner'[q] = v =>
         stmt[v].op = "sweep" \/ (stmt[v].op = "written" /\ q = First(v).q)
  <2>1. \A q \in QueueId : owner[q] = v =>
           stmt[v].op = "sweep" \/ (stmt[v].op = "written" /\ q = First(v).q)
    BY <1>1 DEF PlanOf
  <2> QED
    BY <2>1 DEF Untouched
<1> QED
  BY <1>1, <1>2, <1>3, <1>4 DEF PlanOf

(* What is left to show of a drainer's step.                               *)
LEMMA DrainerFinish ==
    ASSUME IInv, NEW w \in Drainer, DrainerStep(w), Alone(w),
           PlansTyped', Past(w)', PlanOf(w)',
           batch'[w] \subseteq batch[w] \/ \A k \in batch'[w] : Holds(k)'
    PROVE  IInv' /\ DrainerMove
<1>1. /\ VersionsAreBounded' /\ IdsAreFresh' /\ RecordsAreCallers'
      /\ CallerPlan' /\ CallerRows'
      /\ DraftsAreMended' /\ DeletesCascade' /\ CascadesAreOwn'
  BY DrainersLeaveCallers DEF DrainerStep
<1>2. /\ RowsRefer' /\ WorkIsQueued'
      /\ \A v \in Drainer : \A k \in batch[v] : Holds(k)'
  BY DrainersKeepTables DEF DrainerStep
<1>3. Typed'
  BY <1>1, TypedParts, PTL DEF DrainerStep
<1>4. DrainerPlan'
  <2> SUFFICES ASSUME NEW v \in Drainer PROVE PlanOf(v)'
    BY DEF DrainerPlan
  <2>1. CASE v = w
    BY <2>1
  <2>2. CASE v # w
    BY <2>2, PlanStays, KindsOfRow DEF DrainerStep, Alone
  <2> QED
    BY <2>1, <2>2
<1>5. PlansArePast'
  <2> SUFFICES ASSUME NEW s \in Session PROVE Past(s)'
    BY DEF PlansArePast
  <2>1. CASE s = w
    BY <2>1
  <2>2. CASE s # w
    <3>1. Past(s)
      BY DEF IInv, PlansArePast
    <3> QED
      BY <2>2, <3>1 DEF Alone, Past, Rows
  <2> QED
    BY <2>1, <2>2
<1>6. ClaimsHold'
  <2> SUFFICES ASSUME NEW v \in Drainer, NEW k \in batch'[v] PROVE Holds(k)'
    BY DEF ClaimsHold
  <2>1. CASE k \in batch[v]
    BY <2>1, <1>2
  <2>2. CASE k \notin batch[v]
    <3>1. v = w
      BY <2>2 DEF Alone
    <3> QED
      BY <2>2, <3>1
  <2> QED
    BY <2>1, <2>2
<1> QED
  BY <1>1, <1>2, <1>3, <1>4, <1>5, <1>6 DEF IInv, DrainerStep

(* Statements that lock rows.                                              *)
LEMMA LockTyped ==
    ASSUME NEW op, NEW x, NEW later
    PROVE  /\ Lock(op, x, later).op = op /\ Lock(op, x, later).next = x
           /\ Lock(op, x, later).later = later
           /\ op \in {"put", "delete", "written"} /\ x \in RecordId
                 /\ later \subseteq RecordId => Lock(op, x, later) \in Statement
           /\ op \in {"cascade", "sweep", "fence", "release", "note"}
                 /\ x \in QueueId /\ later \subseteq QueueId
                 => Lock(op, x, later) \in Statement
           /\ NoStatement.op = "none" /\ NoStatement \in Statement
  BY DEF Lock, Statement, NoStatement

LEMMA SettledIsMild ==
    ASSUME Typed, NEW w \in Drainer, Settled(w), nextId' = nextId
    PROVE  Mild
  BY TypedParts, KindsOfRow DEF Settled, Run, Mild, PlansTyped

LEMMA SettledPlan ==
    ASSUME IInv, NEW w \in Drainer, Settled(w), nextId' = nextId,
           pc[w] \in {"write", "release", "fail"},
           \A q \in QueueId : owner'[q] # w
    PROVE  /\ Alone(w) /\ PlansTyped' /\ Past(w)' /\ PlanOf(w)'
           /\ batch'[w] \subseteq batch[w]
<1>1. PlansTyped
  BY TypedParts DEF IInv
<1>2. batch[w] # {} /\ w \in Session /\ w \notin Caller
  BY KindsOfRow DEF IInv, DrainerPlan, PlanOf
<1>3. /\ batch' = [batch EXCEPT ![w] = batch[w] \ {First(w)}]
      /\ stmt' = [stmt EXCEPT ![w] = NoStatement]
      /\ pc' = [pc EXCEPT ![w] = IF batch[w] = {First(w)} THEN "idle" ELSE pc[w]]
  BY DEF Settled, Run
<1>4. /\ batch'[w] = batch[w] \ {First(w)} /\ stmt'[w].op = "none"
      /\ pc'[w] = IF batch[w] = {First(w)} THEN "idle" ELSE pc[w]
  BY <1>1, <1>2, <1>3, LockTyped DEF PlansTyped
<1>5. PlansTyped'
  BY <1>1, <1>2, <1>3, LockTyped DEF PlansTyped
<1>6. Alone(w)
  BY <1>1, <1>3, KindsOfRow DEF PlansTyped, Alone
<1>7. pc'[w] \notin {"idle", "claim"} => batch'[w] # {}
  BY <1>2, <1>4
<1>8. PlanOf(w)'
  BY <1>4, <1>7 DEF PlanOf
<1>9. Past(w)'
  BY <1>4 DEF Past
<1> QED
  BY <1>4, <1>5, <1>6, <1>8, <1>9

-----------------------------------------------------------------------------
(* The drainers' actions, one by one.                                      *)

LEMMA DrainerContext ==
    ASSUME IInv, NEW w \in Drainer
    PROVE  /\ w \in Session /\ w \notin Caller /\ w # NoOne
           /\ PlansTyped /\ TablesTyped /\ PlanOf(w) /\ Past(w)
           /\ Idle(w) => stmt[w].op = "none"
           /\ stmt[w].op \in {"none", "fence", "release", "note"}
                 => \A q \in QueueId : owner[q] # w
  BY KindsOfRow, TypedParts
     DEF IInv, DrainerPlan, PlanOf, PlansArePast, Idle, NoStatement

LEMMA PendingIsPast ==
    ASSUME IInv
    PROVE  \A q \in QueueId : committed[q] # NoRow => q < nextId
  BY TypedParts, KindsOfRow, TransactionAssumptions
     DEF IInv, IdsAreFresh, Fresh, PlansTyped

(* A queue row with another outcome, lease or count.                       *)
Ended(row, o) == [row EXCEPT !.outcome = o]

Leased(row, n, b) == [row EXCEPT !.attempts = n, !.visible = b]

LEMMA RowEnded ==
    ASSUME NEW row \in QueueRow,
           NEW o \in {"active", "completed", "failed", "cancelled"}
    PROVE  /\ Ended(row, o) \in QueueRow /\ Ended(row, o) # NoRow
           /\ Ended(row, o).rid = row.rid /\ Ended(row, o).cv = row.cv
           /\ Ended(row, o).outcome = o
<1>1. Ended(row, o) \in QueueRow
  BY DEF Ended, QueueRow
<1>2. Ended(row, o) # NoRow
  BY <1>1, TransactionAssumptions
<1> QED
  BY <1>1, <1>2 DEF Ended, QueueRow

LEMMA RowLeased ==
    ASSUME NEW row \in QueueRow, NEW n \in 0 .. MaxAttempts, NEW b \in BOOLEAN
    PROVE  /\ Leased(row, n, b) \in QueueRow /\ Leased(row, n, b) # NoRow
           /\ Leased(row, n, b).rid = row.rid /\ Leased(row, n, b).cv = row.cv
           /\ Leased(row, n, b).outcome = row.outcome
<1>1. Leased(row, n, b) \in QueueRow
  BY DEF Leased, QueueRow
<1>2. Leased(row, n, b) # NoRow
  BY <1>1, TransactionAssumptions
<1> QED
  BY <1>1, <1>2 DEF Leased, QueueRow

(* A drainer's step changes no other session's variables.                  *)
LEMMA RunsAlone ==
    ASSUME PlansTyped, NEW w \in Drainer, NEW st, NEW b, NEW p,
           nextId' = nextId,
           stmt' = stmt \/ stmt' = [stmt EXCEPT ![w] = st],
           batch' = batch \/ batch' = [batch EXCEPT ![w] = b],
           pc' = pc \/ pc' = [pc EXCEPT ![w] = p]
    PROVE  Mild /\ Alone(w)
<1>1. \A s \in Session \ {w} : stmt'[s] = stmt[s]
  BY DEF PlansTyped
<1>2. \A v \in Drainer \ {w} : batch'[v] = batch[v] /\ pc'[v] = pc[v]
  BY DEF PlansTyped
<1> QED
  BY <1>1, <1>2, KindsOfRow DEF Mild, Alone

LEMMA SweepBeginsKeeps ==
    ASSUME IInv, NEW w \in Drainer, SweepBegins(w)
    PROVE  IInv' /\ DrainerMove
<1> DEFINE rows == {q \in QueueId : Exhausted(committed[q])}
<1>1. /\ w \in Session /\ w \notin Caller /\ PlansTyped
      /\ stmt[w].op = "none" /\ pc[w] = "idle"
      /\ \A q \in QueueId : owner[q] # w
  BY DrainerContext DEF SweepBegins
<1>2. /\ Unlocked /\ batch' = batch /\ nextId' = nextId
      /\ \/ /\ pc' = [pc EXCEPT ![w] = "claim"] /\ stmt' = stmt
         \/ /\ \E q \in rows : stmt' = [stmt EXCEPT ![w] = Lock("sweep", q, rows \ {q})]
            /\ pc' = pc
  BY DEF SweepBegins, Continue, Run
<1>3. \A q \in rows : q \in QueueId /\ q < nextId
  BY PendingIsPast DEF Exhausted, Active
<1>4. Mild /\ Alone(w)
  BY <1>1, <1>2, RunsAlone
<1>5. DrainerStep(w) /\ \A q \in QueueId : owner'[q] # w
  BY <1>1, <1>2, <1>4, StayStep
<1>6. PlansTyped' /\ Past(w)' /\ PlanOf(w)'
  <2>1. CASE pc' = [pc EXCEPT ![w] = "claim"] /\ stmt' = stmt
    <3>1. pc'[w] = "claim" /\ stmt'[w].op = "none"
      BY <1>1, <2>1 DEF PlansTyped
    <3>2. PlansTyped'
      BY <1>1, <1>2, <2>1 DEF PlansTyped
    <3> QED
      BY <3>1, <3>2, <1>5 DEF Past, PlanOf
  <2>2. CASE /\ \E q \in rows : stmt' = [stmt EXCEPT ![w] = Lock("sweep", q, rows \ {q})]
             /\ pc' = pc
    <3>1. PICK q \in rows : stmt' = [stmt EXCEPT ![w] = Lock("sweep", q, rows \ {q})]
      BY <2>2
    <3>2. /\ stmt'[w] = Lock("sweep", q, rows \ {q}) /\ pc'[w] = "idle"
          /\ Lock("sweep", q, rows \ {q}) \in Statement
      BY <1>1, <1>3, <2>2, <3>1, LockTyped DEF PlansTyped
    <3>3. /\ stmt'[w].op = "sweep" /\ stmt'[w].next = q
          /\ stmt'[w].later = rows \ {q}
      BY <3>2, LockTyped
    <3>4. PlansTyped'
      BY <1>1, <1>2, <2>2, <3>1, <3>2 DEF PlansTyped
    <3>5. PlanOf(w)'
      BY <3>2, <3>3, <1>5 DEF PlanOf
    <3>6. Past(w)'
      BY <3>3, <1>2, <1>3 DEF Past, Rows
    <3> QED
      BY <3>4, <3>5, <3>6
  <2> QED
    BY <1>2, <2>1, <2>2
<1>7. batch'[w] \subseteq batch[w]
  BY <1>2
<1> QED
  BY <1>4, <1>5, <1>6, <1>7, DrainerFinish

LEMMA SweepRowKeeps ==
    ASSUME IInv, NEW w \in Drainer, SweepRow(w)
    PROVE  IInv' /\ DrainerMove
<1> DEFINE x == stmt[w].next
           later == stmt[w].later
           row == committed[x]
           new == IF Exhausted(row) THEN Ended(row, "failed") ELSE row
<1>1. /\ w \in Session /\ w \notin Caller /\ PlansTyped /\ TablesTyped
      /\ stmt[w].op = "sweep" /\ pc[w] = "idle"
      /\ owner[x] \in {w, NoOne} /\ batch' = batch /\ nextId' = nextId
  BY DrainerContext DEF SweepRow, Granted, PlanOf
<1>2. \/ /\ Locks(w, One(x, new)) /\ pc' = pc
         /\ \E y \in later : stmt' = [stmt EXCEPT ![w] = Lock("sweep", y, later \ {y})]
      \/ /\ CommitWith(w, One(x, new)) /\ stmt' = [stmt EXCEPT ![w] = NoStatement]
         /\ pc' = [pc EXCEPT ![w] = "claim"]
  BY DEF SweepRow, Continue, Run, Ended
<1>3. /\ x \in QueueId /\ x \in Row /\ x < nextId /\ row \in QueueRow \cup {NoRow}
      /\ later \subseteq QueueId /\ \A y \in later : y < nextId
  BY <1>1, PlanTypes, DrainerContext, KindsOfRow
     DEF IInv, Past, Rows, TablesTyped, RowType
<1>4. /\ Kept(row, new) /\ new \in QueueRow \cup {NoRow}
      /\ row # NoRow /\ Unsettled(row) => Unsettled(new)
  <2>1. CASE Exhausted(row)
    <3>1. row # NoRow /\ row \in QueueRow /\ row.outcome = "active"
      BY <2>1, <1>3 DEF Exhausted, Active
    <3>2. /\ new \in QueueRow /\ new.rid = row.rid /\ new.cv = row.cv
          /\ new.outcome = "failed" /\ new # NoRow
      BY <2>1, <3>1, RowEnded
    <3> QED
      BY <3>1, <3>2 DEF Kept, Active, Unsettled
  <2>2. CASE ~Exhausted(row)
    BY <2>2, <1>3 DEF Kept
  <2> QED
    BY <2>1, <2>2
<1> HIDE DEF new
<1>5. Mild /\ Alone(w)
  BY <1>1, <1>2, RunsAlone
<1>6. CASE /\ Locks(w, One(x, new)) /\ pc' = pc
           /\ \E y \in later : stmt' = [stmt EXCEPT ![w] = Lock("sweep", y, later \ {y})]
  <2>1. DrainerStep(w)
    BY <1>1, <1>3, <1>4, <1>5, <1>6, LockStep
  <2>2. PICK y \in later : stmt' = [stmt EXCEPT ![w] = Lock("sweep", y, later \ {y})]
    BY <1>6
  <2>3. /\ stmt'[w] = Lock("sweep", y, later \ {y}) /\ pc'[w] = "idle"
        /\ Lock("sweep", y, later \ {y}) \in Statement
    BY <1>1, <1>3, <1>6, <2>2, LockTyped DEF PlansTyped
  <2>4. /\ stmt'[w].op = "sweep" /\ stmt'[w].next = y /\ stmt'[w].later = later \ {y}
    BY <2>3, LockTyped
  <2>5. PlansTyped'
    BY <1>1, <1>6, <2>2, <2>3 DEF PlansTyped
  <2>6. PlanOf(w)' /\ Past(w)'
    BY <2>3, <2>4, <1>1, <1>3 DEF PlanOf, Past, Rows
  <2> QED
    BY <2>1, <2>5, <2>6, <1>1, <1>5, DrainerFinish
<1>7. CASE /\ CommitWith(w, One(x, new)) /\ stmt' = [stmt EXCEPT ![w] = NoStatement]
           /\ pc' = [pc EXCEPT ![w] = "claim"]
  <2>1. /\ \A y \in DOMAIN One(x, new) : y = x
        /\ One(x, new)[x] = new
    BY OneRow
  <2>2. Settles(x, new) /\ new \in RowType(x) /\ x \notin RecordId
    BY <1>3, <1>4, KindsOfRow DEF Settles, RowType
  <2>3. DrainerStep(w) /\ \A q \in QueueId : owner'[q] # w
    BY <1>1, <1>3, <1>5, <1>7, <2>1, <2>2, CommitStep
  <2>4. stmt'[w].op = "none" /\ pc'[w] = "claim"
    BY <1>1, <1>7, LockTyped DEF PlansTyped
  <2>5. PlansTyped'
    BY <1>1, <1>7, LockTyped DEF PlansTyped
  <2>6. PlanOf(w)' /\ Past(w)'
    BY <2>3, <2>4 DEF PlanOf, Past
  <2> QED
    BY <2>3, <2>5, <2>6, <1>1, <1>5, DrainerFinish
<1> QED
  BY <1>2, <1>6, <1>7

LEMMA ClaimBatchKeeps ==
    ASSUME IInv, NEW w \in Drainer, NEW taken \in SUBSET QueueId, ClaimBatch(w, taken)
    PROVE  IInv' /\ DrainerMove
<1> DEFINE mine == {q \in taken : Current(committed[q])}
           claims == {[q |-> q, rid |-> committed[q].rid, cv |-> committed[q].cv,
                       content |-> committed[committed[q].rid].content] : q \in mine}
           new == [q \in taken |-> ClaimRow(committed[q])]
<1>1. /\ w \in Session /\ w \notin Caller /\ w # NoOne /\ PlansTyped /\ TablesTyped
      /\ PlanOf(w) /\ pc[w] = "claim" /\ Typed /\ RecordsAreCallers
  BY DrainerContext DEF ClaimBatch, IInv
<1>2. /\ \A q \in taken : Candidate(q)
      /\ CommitWith(w, new)
      /\ batch' = [batch EXCEPT ![w] = claims]
      /\ pc' = [pc EXCEPT ![w] = IF mine = {} THEN "idle" ELSE "embed"]
      /\ stmt' = stmt /\ nextId' = nextId
  BY DEF ClaimBatch
<1>3. ASSUME NEW q \in taken
      PROVE  /\ q \in QueueId /\ q \in Row /\ q < nextId /\ owner[q] = NoOne
             /\ committed[q] \in QueueRow /\ committed[q] # NoRow
             /\ committed[q].rid \in RecordId /\ committed[q].outcome = "active"
             /\ committed[q].attempts < MaxAttempts
  BY <1>1, <1>2, <1>3, RowTypes, KindsOfRow, PendingIsPast DEF Candidate, Active
<1>4. ASSUME NEW r \in RecordId
      PROVE  committed'[r] = committed[r]
  <2>1. r \in Row /\ r \notin DOMAIN new /\ owner[r] # w
    BY <1>1, KindsOfRow DEF RecordsAreCallers
  <2> QED
    BY <1>2, <2>1, CommitRow
<1>5. ASSUME NEW q \in taken
      PROVE  /\ ClaimRow(committed[q]) \in QueueRow
             /\ ClaimRow(committed[q]).rid = committed[q].rid
             /\ ClaimRow(committed[q]).cv = committed[q].cv
             /\ ClaimRow(committed[q]).outcome = "active"
                   \/ ~Current(committed[q])
  <2> DEFINE row == committed[q]
  <2>1. row \in QueueRow /\ row.outcome = "active" /\ row.attempts < MaxAttempts
    BY <1>3
  <2>2. row.attempts + 1 \in 0 .. MaxAttempts
    BY <2>1, TransactionAssumptions DEF QueueRow
  <2>3. CASE Current(row)
    <3>1. ClaimRow(row) = Leased(row, row.attempts + 1, FALSE)
      BY <2>3 DEF ClaimRow, Leased
    <3>2. /\ Leased(row, row.attempts + 1, FALSE) \in QueueRow
          /\ Leased(row, row.attempts + 1, FALSE).rid = row.rid
          /\ Leased(row, row.attempts + 1, FALSE).cv = row.cv
          /\ Leased(row, row.attempts + 1, FALSE).outcome = row.outcome
      <4> HIDE DEF row
      <4> QED
        BY <2>1, <2>2, RowLeased
    <3> QED
      BY <2>1, <3>1, <3>2
  <2>4. CASE ~Current(row)
    <3>1. ClaimRow(row) = Ended(row, "cancelled")
      BY <2>4 DEF ClaimRow, Ended
    <3> QED
      BY <2>1, <2>4, <3>1, RowEnded
  <2> QED
    BY <2>3, <2>4
<1>6. ASSUME NEW q \in taken
      PROVE  Settles(q, new[q]) /\ new[q] \in RowType(q) /\ q \notin RecordId
  <2>1. new[q] = ClaimRow(committed[q]) /\ new[q] # NoRow
    BY <1>5, TransactionAssumptions
  <2>2. committed'[committed[q].rid] = committed[committed[q].rid]
    BY <1>3, <1>4
  <2>3. ~Current(committed[q]) => Superseded(committed[q])
    BY <2>2 DEF Current, Superseded
  <2>4. Settles(q, new[q])
    BY <1>3, <1>5, <2>1, <2>3 DEF Settles, Kept, Active, Unsettled
  <2> QED
    BY <1>3, <1>5, <2>1, <2>4, KindsOfRow DEF RowType
<1>7. Mild /\ Alone(w)
  BY <1>1, <1>2, RunsAlone
<1>8. DrainerStep(w) /\ \A q \in QueueId : owner'[q] # w
  <2>1. \A x \in DOMAIN new : x \in taken
    OBVIOUS
  <2> HIDE DEF new
  <2> QED
    BY <2>1, <1>2, <1>3, <1>6, <1>7, CommitStep
<1>9. ASSUME NEW k \in claims
      PROVE  k \in Claim /\ Holds(k)'
  <2>1. PICK q \in mine : k = [q |-> q, rid |-> committed[q].rid, cv |-> committed[q].cv,
                               content |-> committed[committed[q].rid].content]
    OBVIOUS
  <2>2. q \in taken /\ Current(committed[q])
    OBVIOUS
  <2>3. /\ committed[committed[q].rid] # NoRow
        /\ committed[committed[q].rid] \in RecordRow
    BY <1>1, <1>3, <2>2, RowTypes DEF Current
  <2>4. k \in Claim
    BY <1>3, <2>1, <2>2, <2>3 DEF Claim, QueueRow, RecordRow
  <2>5. committed'[q] = ClaimRow(committed[q]) /\ draft'[q] = committed'[q]
    BY <1>2, <1>3, <2>2, CommitRow
  <2>6. committed'[k.rid].content = k.content
    BY <1>3, <1>4, <2>1, <2>2
  <2>7. /\ k.q < nextId' /\ k.q = q
        /\ committed'[q].rid = k.rid /\ committed'[q].cv = k.cv
    BY <1>2, <1>3, <1>5, <2>1, <2>2, <2>5
  <2> QED
    BY <2>4, <2>5, <2>6, <2>7 DEF Holds
<1> HIDE DEF claims
<1>10. batch'[w] = claims /\ stmt'[w].op = "none"
      /\ pc'[w] = IF mine = {} THEN "idle" ELSE "embed"
  BY <1>1, <1>2 DEF PlansTyped, PlanOf
<1>11. mine # {} => claims # {}
  BY DEF claims
<1>12. PlansTyped'
  BY <1>1, <1>2, <1>9 DEF PlansTyped
<1>13. PlanOf(w)' /\ Past(w)'
  BY <1>8, <1>10, <1>11 DEF PlanOf, Past
<1> QED
  BY <1>7, <1>8, <1>9, <1>10, <1>12, <1>13, DrainerFinish


LEMMA ProviderKeeps ==
    ASSUME IInv, NEW w \in Drainer, Provider(w)
    PROVE  IInv' /\ DrainerMove
<1>1. PICK p \in {"write", "release", "fail"} : pc' = [pc EXCEPT ![w] = p]
  BY DEF Provider
<1>2. /\ Unlocked /\ stmt' = stmt /\ batch' = batch /\ nextId' = nextId
      /\ pc[w] = "embed"
  BY DEF Provider
<1>3. /\ w \in Session /\ PlansTyped /\ PlanOf(w) /\ Past(w)
      /\ stmt[w].op = "none" /\ \A q \in QueueId : owner[q] # w
  BY <1>2, DrainerContext DEF PlanOf
<1>4. Mild /\ Alone(w)
  BY <1>1, <1>2, <1>3, RunsAlone
<1>5. DrainerStep(w) /\ \A q \in QueueId : owner'[q] # w
  BY <1>2, <1>3, <1>4, StayStep
<1>6. PlansTyped'
  BY <1>1, <1>2, <1>3 DEF PlansTyped
<1>7. PlanOf(w)' /\ Past(w)'
  BY <1>2, <1>3, <1>5 DEF PlanOf, Past
<1> QED
  BY <1>2, <1>4, <1>5, <1>6, <1>7, DrainerFinish

(* A settle that ends with CommitWith, or with nothing.                    *)
LEMMA SettledKeeps ==
    ASSUME IInv, NEW w \in Drainer, Settled(w), nextId' = nextId,
           pc[w] \in {"write", "release", "fail"},
           DrainerStep(w), \A q \in QueueId : owner'[q] # w
    PROVE  IInv' /\ DrainerMove
<1>1. /\ Alone(w) /\ PlansTyped' /\ Past(w)' /\ PlanOf(w)'
      /\ batch'[w] \subseteq batch[w]
  BY SettledPlan
<1> QED
  BY <1>1, DrainerFinish

(* The next claim's queue row, as a drainer that settles it finds it.      *)
LEMMA Settling ==
    ASSUME IInv, NEW w \in Drainer, pc[w] \in {"write", "release", "fail"}
    PROVE  /\ First(w) \in batch[w] /\ First(w).q \in QueueId /\ First(w).q < nextId
           /\ First(w).rid \in RecordId /\ First(w).cv \in Nat
           /\ First(w).content \in Content
           /\ committed[First(w).q] # NoRow =>
                 /\ committed[First(w).q] \in QueueRow
                 /\ committed[First(w).q].rid = First(w).rid
                 /\ committed[First(w).q].cv = First(w).cv
           /\ Holds(First(w)) /\ Refers(First(w).q)
<1>1. batch[w] # {}
  BY DrainerContext DEF PlanOf
<1>2. Typed /\ RowsRefer
  BY DEF IInv
<1> QED
  BY <1>1, <1>2, FirstClaim, RowTypes DEF Holds, RowsRefer

LEMMA SettleBeginsKeeps ==
    ASSUME IInv, NEW w \in Drainer, SettleBegins(w)
    PROVE  IInv' /\ DrainerMove
<1> DEFINE q == First(w).q
           op == CASE pc[w] = "write" -> "fence"
                   [] pc[w] = "release" -> "release"
                   [] pc[w] = "fail" -> "note"
<1>1. /\ w \in Session /\ PlansTyped /\ PlanOf(w)
      /\ pc[w] \in {"write", "release", "fail"}
      /\ Unlocked /\ nextId' = nextId /\ \A x \in QueueId : owner[x] # w
  BY DrainerContext DEF SettleBegins
<1>2. q \in QueueId /\ q < nextId /\ First(w) \in batch[w]
  BY <1>1, Settling
<1>3. CASE Settled(w)
  <2>1. Mild
    BY <1>1, <1>3, SettledIsMild DEF IInv
  <2>2. DrainerStep(w) /\ \A x \in QueueId : owner'[x] # w
    BY <1>1, <2>1, StayStep
  <2> QED
    BY <1>1, <1>3, <2>2, SettledKeeps
<1>4. CASE Run(w, Lock(op, q, {})) /\ batch' = batch /\ pc' = pc
  <2>1. stmt' = [stmt EXCEPT ![w] = Lock(op, q, {})]
    BY <1>4 DEF Run
  <2>2. op \in {"fence", "release", "note"}
    BY <1>1
  <2> HIDE DEF op, q
  <2>3. Mild /\ Alone(w)
    BY <1>1, <1>4, <2>1, RunsAlone
  <2>4. DrainerStep(w) /\ \A x \in QueueId : owner'[x] # w
    BY <1>1, <2>3, StayStep
  <2>5. Lock(op, q, {}) \in Statement
    BY <1>2, <2>2, LockTyped
  <2>6. stmt'[w] = Lock(op, q, {})
    BY <1>1, <2>1 DEF PlansTyped
  <2>7. stmt'[w].op = op /\ stmt'[w].next = q /\ stmt'[w].later = {}
    BY <2>6, LockTyped
  <2>8. PlansTyped'
    BY <1>1, <1>4, <2>1, <2>5 DEF PlansTyped
  <2>9. First(w)' = First(w)
    BY <1>4 DEF First
  <2>10. PlanOf(w)'
    BY <1>1, <1>2, <1>4, <2>2, <2>4, <2>7, <2>9 DEF PlanOf, q
  <2>11. Past(w)'
    BY <1>1, <1>2, <2>7 DEF Past, Rows
  <2> QED
    BY <1>4, <2>3, <2>4, <2>8, <2>10, <2>11, DrainerFinish
<1> QED
  BY <1>3, <1>4 DEF SettleBegins

LEMMA FenceKeeps ==
    ASSUME IInv, NEW w \in Drainer, Fence(w)
    PROVE  IInv' /\ DrainerMove
<1> DEFINE q == First(w).q
           r == First(w).rid
<1>1. /\ w \in Session /\ PlansTyped /\ PlanOf(w) /\ stmt[w].op = "fence"
      /\ stmt[w].next = q /\ owner[q] \in {w, NoOne}
      /\ pc[w] \in {"write", "release", "fail"}
      /\ nextId' = nextId /\ \A x \in QueueId : owner[x] # w
  BY DrainerContext DEF Fence, Granted, PlanOf
<1>2. q \in QueueId /\ q < nextId /\ First(w) \in batch[w] /\ r \in RecordId
  BY <1>1, Settling
<1>3. CASE Settled(w) /\ Unlocked
  <2>1. Mild
    BY <1>1, <1>3, SettledIsMild DEF IInv
  <2>2. DrainerStep(w) /\ \A x \in QueueId : owner'[x] # w
    BY <1>1, <1>3, <2>1, StayStep
  <2> QED
    BY <1>1, <1>3, <2>2, SettledKeeps
<1>4. CASE /\ Active(committed[q]) /\ Locks(w, One(q, committed[q]))
           /\ Run(w, Lock("written", r, {})) /\ batch' = batch /\ pc' = pc
  <2>1. stmt' = [stmt EXCEPT ![w] = Lock("written", r, {})]
    BY <1>4 DEF Run
  <2>2. First(w)' = First(w)
    BY <1>4 DEF First
  <2>3. committed[q] # NoRow /\ committed[q] \in QueueRow
    BY <1>1, <1>4, Settling DEF Active
  <2> HIDE DEF q, r
  <2>4. committed'[q] = committed[q] /\ owner'[q] = w
    <3>1. q \in Row /\ One(q, committed[q])[q] = committed[q]
      BY <1>2, KindsOfRow, OneRow
    <3>2. \A y : y \in DOMAIN One(q, committed[q]) <=> y = q
      BY OneRow
    <3> QED
      BY <1>4, <3>1, <3>2, LockRow
  <2>5. Mild /\ Alone(w)
    BY <1>1, <1>4, <2>1, RunsAlone
  <2>6. Kept(committed[q], committed[q])
    BY DEF Kept
  <2>7. DrainerStep(w) /\ \A x \in QueueId : owner'[x] = w => x = q \/ owner[x] = w
    BY <1>1, <1>2, <1>4, <2>3, <2>5, <2>6, LockStep
  <2>8. Lock("written", r, {}) \in Statement
    BY <1>2, LockTyped
  <2>9. stmt'[w] = Lock("written", r, {})
    BY <1>1, <2>1 DEF PlansTyped
  <2>10. stmt'[w].op = "written" /\ stmt'[w].next = r
    BY <2>9, LockTyped
  <2>11. PlansTyped'
    BY <1>1, <1>4, <2>1, <2>8 DEF PlansTyped
  <2>12. PlanOf(w)'
    BY <1>1, <1>2, <1>4, <2>2, <2>4, <2>7, <2>10 DEF PlanOf, q, r
  <2>13. Past(w)'
    BY <2>10 DEF Past
  <2> QED
    BY <1>4, <2>5, <2>7, <2>11, <2>12, <2>13, DrainerFinish
<1> QED
  BY <1>1, <1>3, <1>4 DEF Fence

(* The write-back's record gets the vector of its own text.                *)
LEMMA WriteBackEmbeds ==
    ASSUME IInv, NEW w \in Drainer, stmt[w].op = "written", Current(First(w))
    PROVE  LET k == First(w)
               row == committed[k.rid]
               new == RecordIntegrity(row, row.content, ModelVector(k.content))
           IN  Embedded(row, new) /\ new \in RecordRow /\ k.content = row.content
<1> DEFINE k == First(w)
           row == committed[k.rid]
           new == RecordIntegrity(row, row.content, ModelVector(k.content))
<1>1. /\ Active(committed[k.q]) /\ pc[w] \in {"write", "release", "fail"}
  BY DrainerContext DEF PlanOf
<1>2. /\ k.rid \in RecordId /\ k.q \in QueueId /\ k.content \in Content
      /\ committed[k.q] # NoRow
      /\ committed[k.q].rid = k.rid /\ committed[k.q].cv = k.cv
      /\ Holds(k) /\ Refers(k.q)
  BY <1>1, Settling DEF Active
<1>3. row # NoRow /\ row.cv = k.cv
  BY DEF Current
<1>4. row.embedding = NoVector /\ row.content = k.content
  BY <1>1, <1>2, <1>3 DEF Holds, Refers
<1>5. row \in RecordRow /\ row.cv <= MaxVersion
  BY <1>2, <1>3, <1>4, RowTypes, TypedParts DEF IInv, VersionsAreBounded, Bounded
<1>6. ModelVector(k.content) \in Vector /\ ModelVector(k.content) # NoVector
  BY <1>2, TransactionAssumptions DEF Vector
<1>7. new = [content |-> row.content, embedding |-> ModelVector(k.content), cv |-> row.cv + 1]
  BY <1>4, <1>6 DEF RecordIntegrity
<1>8. new \in RecordRow
  BY <1>5, <1>6, <1>7, TransactionAssumptions DEF RecordRow
<1>9. new # NoRow
  BY <1>8, TransactionAssumptions
<1> QED
  BY <1>3, <1>4, <1>6, <1>7, <1>8, <1>9 DEF Embedded

LEMMA WriteBackKeeps ==
    ASSUME IInv, NEW w \in Drainer, WriteBack(w)
    PROVE  IInv' /\ DrainerMove
<1> DEFINE k == First(w)
           row == committed[k.rid]
           rec == RecordIntegrity(row, row.content, ModelVector(k.content))
           done(o) == Ended(committed[k.q], o)
<1>1. /\ w \in Session /\ stmt[w].op = "written" /\ stmt[w].next = k.rid
      /\ owner[k.q] = w /\ Active(committed[k.q])
      /\ pc[w] \in {"write", "release", "fail"}
      /\ Settled(w) /\ nextId' = nextId
  BY DrainerContext DEF WriteBack, PlanOf
<1>2. /\ k.q \in QueueId /\ k.rid \in RecordId /\ k.q # k.rid
      /\ k.q \in Row /\ k.rid \in Row /\ k.q \notin RecordId /\ k.rid \notin QueueId
      /\ committed[k.q] # NoRow /\ committed[k.q] \in QueueRow
      /\ committed[k.q].rid = k.rid /\ committed[k.q].cv = k.cv
  BY <1>1, Settling, KindsOfRow DEF Active
<1>3. Mild
  BY <1>1, SettledIsMild DEF IInv
<1>4. \A o \in {"completed", "cancelled"} :
         /\ Kept(committed[k.q], done(o)) /\ done(o) \in RowType(k.q)
  <2> SUFFICES ASSUME NEW o \in {"completed", "cancelled"}
               PROVE  Kept(committed[k.q], done(o)) /\ done(o) \in RowType(k.q)
    OBVIOUS
  <2>1. /\ done(o) \in QueueRow /\ done(o) # NoRow /\ done(o).outcome = o
        /\ done(o).rid = committed[k.q].rid /\ done(o).cv = committed[k.q].cv
    BY <1>2, RowEnded
  <2> QED
    BY <1>1, <1>2, <2>1 DEF Kept, Active, RowType
<1>5. CASE Current(k)
  <2> DEFINE new == Both(k.q, done("completed"), k.rid, rec)
  <2>1. CommitWith(w, new) /\ owner[k.rid] \in {w, NoOne}
    BY <1>1, <1>5 DEF WriteBack, Granted, Finalized, Ended
  <2>2. /\ \A y : y \in DOMAIN new <=> y \in {k.q, k.rid}
        /\ new[k.q] = done("completed")
        /\ new[k.rid] = rec
    <3>1. k.q # k.rid
      BY <1>2
    <3> HIDE DEF k, done, rec
    <3> QED
      BY <3>1, BothRows
  <2>3. Embedded(row, rec) /\ rec \in RecordRow
    BY <1>1, <1>5, WriteBackEmbeds
  <2> HIDE DEF new, rec
  <2>4. committed'[k.rid] = rec
    BY <1>2, <2>1, <2>2, CommitRow
  <2>5. Superseded(committed[k.q])
    <3>1. row.cv = k.cv /\ rec.cv = row.cv + 1 /\ row.cv \in Nat
      BY <1>2, <1>5, <2>3, RowTypes, Versions DEF Current, Embedded, IInv
    <3> QED
      BY <1>2, <2>4, <3>1 DEF Superseded
  <2>6. Settles(k.q, new[k.q]) /\ new[k.q] \in RowType(k.q)
    BY <1>4, <2>2, <2>5 DEF Settles
  <2>7. new[k.rid] \in RowType(k.rid)
    BY <1>2, <2>2, <2>3 DEF RowType
  <2>8. DrainerStep(w) /\ \A q \in QueueId : owner'[q] # w
    BY <1>1, <1>2, <1>3, <2>1, <2>2, <2>3, <2>6, <2>7, CommitStep
  <2> QED
    BY <1>1, <2>8, SettledKeeps
<1>6. CASE ~Current(k)
  <2> DEFINE new == One(k.q, done("cancelled"))
  <2>1. CommitWith(w, new)
    BY <1>1, <1>6 DEF WriteBack, Finalized, Ended
  <2>2. new[k.q] = done("cancelled") /\ \A y : y \in DOMAIN new <=> y = k.q
    <3> HIDE DEF k, done
    <3> QED
      BY OneRow
  <2> HIDE DEF new
  <2>3. owner[k.rid] # w
    BY <1>2, KindsOfRow DEF IInv, RecordsAreCallers
  <2>4. committed'[k.rid] = row
    BY <1>2, <2>1, <2>2, <2>3, CommitRow
  <2>5. Superseded(committed[k.q])
    BY <1>2, <1>6, <2>4 DEF Superseded, Current
  <2>6. Settles(k.q, new[k.q]) /\ new[k.q] \in RowType(k.q)
    BY <1>4, <2>2, <2>5 DEF Settles
  <2>7. DrainerStep(w) /\ \A q \in QueueId : owner'[q] # w
    BY <1>1, <1>2, <1>3, <2>1, <2>2, <2>6, CommitStep
  <2> QED
    BY <1>1, <2>7, SettledKeeps
<1> QED
  BY <1>5, <1>6

LEMMA SettleRowKeeps ==
    ASSUME IInv, NEW w \in Drainer, SettleRow(w)
    PROVE  IInv' /\ DrainerMove
<1> DEFINE q == First(w).q
           row == committed[q]
<1>1. /\ w \in Session /\ stmt[w].op \in {"release", "note"} /\ stmt[w].next = q
      /\ owner[q] \in {w, NoOne} /\ pc[w] \in {"write", "release", "fail"}
      /\ Settled(w) /\ nextId' = nextId /\ \A x \in QueueId : owner[x] # w
  BY DrainerContext, Zenon DEF SettleRow, Granted, PlanOf
<1>2. q \in QueueId /\ q \in Row /\ q \notin RecordId
  BY <1>1, Settling, KindsOfRow
<1>3. Mild
  BY <1>1, SettledIsMild DEF IInv
<1>4. CASE Unlocked
  <2>1. DrainerStep(w) /\ \A x \in QueueId : owner'[x] # w
    BY <1>1, <1>3, <1>4, StayStep
  <2> QED
    BY <1>1, <2>1, SettledKeeps
<1>5. CASE /\ Active(row)
           /\ \E soon \in BOOLEAN :
                 CommitWith(w, One(q, [row EXCEPT !.visible = soon,
                                          !.attempts = IF @ > 0 THEN @ - 1 ELSE 0]))
  <2> DEFINE left == IF row.attempts > 0 THEN row.attempts - 1 ELSE 0
  <2>1. row # NoRow /\ row \in QueueRow /\ row.outcome = "active"
    BY <1>1, <1>5, Settling DEF Active
  <2>2. left \in 0 .. MaxAttempts
    BY <2>1, TransactionAssumptions DEF QueueRow
  <2>3. PICK soon \in BOOLEAN : CommitWith(w, One(q, Leased(row, left, soon)))
    <3>1. \A soon \in BOOLEAN :
             [row EXCEPT !.visible = soon, !.attempts = IF @ > 0 THEN @ - 1 ELSE 0]
                = Leased(row, left, soon)
      BY <2>1 DEF Leased, QueueRow
    <3> QED
      BY <1>5, <3>1, Zenon
  <2> DEFINE new == One(q, Leased(row, left, soon))
  <2>4. new[q] = Leased(row, left, soon) /\ \A y : y \in DOMAIN new <=> y = q
    <3> HIDE DEF q, row, left
    <3> QED
      BY OneRow
  <2>5. /\ Leased(row, left, soon) \in QueueRow /\ Leased(row, left, soon) # NoRow
        /\ Leased(row, left, soon).rid = row.rid /\ Leased(row, left, soon).cv = row.cv
        /\ Leased(row, left, soon).outcome = row.outcome
    <3> HIDE DEF row, left
    <3> QED
      BY <2>1, <2>2, RowLeased
  <2>6. Settles(q, new[q]) /\ new[q] \in RowType(q)
    BY <1>2, <2>1, <2>4, <2>5 DEF Settles, Kept, Active, Unsettled, RowType
  <2> HIDE DEF new, left
  <2>7. DrainerStep(w) /\ \A x \in QueueId : owner'[x] # w
    BY <1>1, <1>2, <1>3, <2>3, <2>4, <2>6, CommitStep DEF new
  <2> QED
    BY <1>1, <2>7, SettledKeeps
<1> QED
  BY <1>1, <1>4, <1>5, Zenon DEF SettleRow

(* The drainer gives the batch up: its statement failed, or it crashed.    *)
LEMMA GivingUpKeeps ==
    ASSUME IInv, NEW w \in Drainer, Roll(w), Run(w, NoStatement), nextId' = nextId,
           batch' = [batch EXCEPT ![w] = {}], pc' = [pc EXCEPT ![w] = "idle"]
    PROVE  IInv' /\ DrainerMove
<1>1. PlansTyped /\ w \in Session /\ stmt' = [stmt EXCEPT ![w] = NoStatement]
  BY DrainerContext DEF Run
<1>2. Mild /\ Alone(w)
  BY <1>1, RunsAlone
<1>3. DrainerStep(w) /\ \A q \in QueueId : owner'[q] # w
  BY <1>2, RollStep
<1>4. stmt'[w].op = "none" /\ pc'[w] = "idle" /\ batch'[w] = {}
  BY <1>1, LockTyped DEF PlansTyped
<1>5. PlansTyped'
  BY <1>1, LockTyped DEF PlansTyped
<1>6. PlanOf(w)' /\ Past(w)'
  BY <1>3, <1>4 DEF PlanOf, Past
<1> QED
  BY <1>2, <1>3, <1>4, <1>5, <1>6, DrainerFinish

LEMMA StatementFailsKeeps ==
    ASSUME IInv, NEW w \in Drainer, StatementFails(w)
    PROVE  IInv' /\ DrainerMove
<1> DEFINE q == First(w).q
<1>1. /\ PlansTyped /\ PlanOf(w) /\ w \in Session /\ Roll(w) /\ nextId' = nextId
  BY DrainerContext DEF StatementFails
<1>2. CASE /\ stmt[w].op \in {"fence", "written"}
           /\ Run(w, Lock("note", q, {})) /\ batch' = batch /\ pc' = pc
  <2>1. stmt' = [stmt EXCEPT ![w] = Lock("note", q, {})]
    BY <1>2 DEF Run
  <2>2. pc[w] \in {"write", "release", "fail"}
    BY <1>1, <1>2 DEF PlanOf
  <2>3. q \in QueueId /\ q < nextId /\ First(w) \in batch[w]
    BY <2>2, Settling
  <2>4. First(w)' = First(w)
    BY <1>2 DEF First
  <2> HIDE DEF q
  <2>5. Mild /\ Alone(w)
    BY <1>1, <1>2, <2>1, RunsAlone
  <2>6. DrainerStep(w) /\ \A x \in QueueId : owner'[x] # w
    BY <1>1, <2>5, RollStep
  <2>7. stmt'[w] = Lock("note", q, {}) /\ Lock("note", q, {}) \in Statement
    BY <1>1, <2>1, <2>3, LockTyped DEF PlansTyped
  <2>8. stmt'[w].op = "note" /\ stmt'[w].next = q /\ stmt'[w].later = {}
    BY <2>7, LockTyped
  <2>9. PlansTyped'
    BY <1>1, <1>2, <2>1, <2>7 DEF PlansTyped
  <2>10. PlanOf(w)'
    BY <1>2, <2>2, <2>3, <2>4, <2>6, <2>8 DEF PlanOf, q
  <2>11. Past(w)'
    BY <1>1, <2>3, <2>8 DEF Past, Rows
  <2> QED
    BY <1>2, <2>5, <2>6, <2>9, <2>10, <2>11, DrainerFinish
<1>3. CASE /\ Run(w, NoStatement)
           /\ batch' = [batch EXCEPT ![w] = {}] /\ pc' = [pc EXCEPT ![w] = "idle"]
  BY <1>1, <1>3, GivingUpKeeps
<1> QED
  BY <1>2, <1>3 DEF StatementFails

LEMMA LapseKeeps ==
    ASSUME IInv, NEW x \in QueueId, Lapse(x)
    PROVE  IInv' /\ DrainerMove
<1> DEFINE Shown(row) == [row EXCEPT !.visible = TRUE]
<1>1. /\ committed' = [committed EXCEPT ![x] = Shown(committed[x])]
      /\ draft' = IF draft[x] = NoRow THEN draft
                  ELSE [draft EXCEPT ![x] = Shown(draft[x])]
      /\ owner' = owner /\ stmt' = stmt /\ batch' = batch /\ pc' = pc
      /\ nextId' = nextId /\ Active(committed[x])
  BY DEF Lapse
<1>2. /\ TablesTyped /\ PlansTyped /\ FreeRowsAreClean /\ DrainerRows /\ DrainerPlan
      /\ RecordsAreCallers /\ PlansArePast
  BY TypedParts DEF IInv
<1>3. ASSUME NEW row \in QueueRow
      PROVE  /\ Shown(row) \in QueueRow /\ Shown(row) # NoRow
             /\ Shown(row).rid = row.rid /\ Shown(row).cv = row.cv
             /\ Shown(row).outcome = row.outcome
  <2>1. Shown(row) \in QueueRow
    BY DEF QueueRow
  <2>2. Shown(row) # NoRow
    BY <2>1, TransactionAssumptions
  <2> QED
    BY <2>1, <2>2 DEF QueueRow
<1> HIDE DEF Shown
<1>4. x \in Row /\ committed[x] # NoRow /\ committed[x] \in QueueRow
  BY <1>1, <1>2, KindsOfRow DEF Active, TablesTyped, RowType
<1>5. ASSUME NEW y \in Row
      PROVE  /\ committed'[y] = IF y = x THEN Shown(committed[y]) ELSE committed[y]
             /\ draft'[y] = IF y = x /\ draft[y] # NoRow THEN Shown(draft[y])
                            ELSE draft[y]
  BY <1>1, <1>2 DEF TablesTyped
<1>6. draft[x] # NoRow => draft[x] \in QueueRow
  BY <1>2, <1>4 DEF TablesTyped, RowType
<1>7. TablesTyped'
  <2>1. DOMAIN committed' = Row /\ DOMAIN draft' = Row
    BY <1>1, <1>2 DEF TablesTyped
  <2>2. ASSUME NEW y \in Row
        PROVE  {committed'[y], draft'[y]} \subseteq RowType(y)
    BY <1>2, <1>3, <1>4, <1>5, <1>6 DEF TablesTyped, RowType
  <2> QED
    BY <1>1, <1>2, <2>1, <2>2 DEF TablesTyped
<1>8. FreeRowsAreClean'
  BY <1>1, <1>2, <1>4, <1>5 DEF FreeRowsAreClean
<1>9. ASSUME NEW q \in QueueId
      PROVE  /\ Kept(committed[q], committed'[q]) /\ (draft[q] = NoRow <=> draft'[q] = NoRow)
             /\ committed[q] # NoRow => committed'[q].outcome = committed[q].outcome
             /\ draft[q] # NoRow => /\ draft'[q].rid = draft[q].rid
                                    /\ draft'[q].cv = draft[q].cv
                                    /\ draft'[q].outcome = draft[q].outcome
  BY <1>3, <1>4, <1>5, <1>6, KindsOfRow DEF Kept, Active
<1>10. DrainerRows'
  <2> SUFFICES ASSUME NEW q \in QueueId, owner[q] \in Drainer
               PROVE  DrainerRow(q)'
    BY <1>1 DEF DrainerRows
  <2>1. DrainerRow(q)
    BY <1>2 DEF DrainerRows
  <2> QED
    BY <2>1, <1>9 DEF DrainerRow, Kept, Active, Unsettled
<1>11. DrainerMove
  <2>1. \A r \in RecordId : KeptRecord(r)
    BY <1>1, <1>2, <1>4, <1>5, KindsOfRow DEF KeptRecord, FreeRowsAreClean
  <2>2. \A q \in QueueId : KeptQueueRow(q)
    BY <1>1, <1>9 DEF KeptQueueRow, Unsettled
  <2> QED
    BY <1>1, <2>1, <2>2 DEF DrainerMove
<1>12. ASSUME NEW v \in Drainer PROVE PlanOf(v)'
  <2>1. Untouched(v)
    BY <1>1, <1>9 DEF Untouched, Kept, Active
  <2> QED
    BY <1>1, <2>1, PlanStays
<1>13. PlansTyped' /\ PlansArePast'
  BY <1>1, <1>2 DEF PlansTyped, PlansArePast, Past, Rows
<1>14. /\ VersionsAreBounded' /\ IdsAreFresh' /\ RecordsAreCallers'
       /\ CallerPlan' /\ CallerRows'
       /\ DraftsAreMended' /\ DeletesCascade' /\ CascadesAreOwn'
  BY <1>11, DrainersLeaveCallers
<1>15. RowsRefer' /\ WorkIsQueued' /\ ClaimsHold'
  BY <1>1, <1>11, DrainersKeepTables DEF ClaimsHold
<1>16. Typed'
  BY <1>7, <1>13, <1>14, TypedParts, PTL
<1> QED
  BY <1>8, <1>10, <1>11, <1>12, <1>13, <1>14, <1>15, <1>16 DEF IInv, DrainerPlan

-----------------------------------------------------------------------------
(* What a caller's step leaves alone: rows of other sessions; and what     *)
(* everybody sees, but for its own rows when it commits.                   *)
CallerMove(s) ==
    /\ \A x \in Row :
          /\ owner[x] \notin {s, NoOne} =>
                /\ owner'[x] = owner[x] /\ draft'[x] = draft[x]
                /\ committed'[x] = committed[x]
          /\ owner[x] \in {s, NoOne} => owner'[x] \in {s, NoOne}
          /\ \/ committed'[x] = committed[x]
             \/ owner[x] = s /\ committed'[x] = draft[x]
    /\ FreeRowsAreClean' /\ TablesTyped'
    /\ batch' = batch /\ pc' = pc /\ nextId <= nextId'
    /\ \A t \in Session \ {s} : stmt'[t] = stmt[t]

OwnParts(s) ==
    /\ stmt[s].op \in {"none", "put", "delete", "cascade"} /\ Past(s)
    /\ \A q \in QueueId : owner[q] = s => CallerRow(q)
    /\ \A r \in RecordId : owner[r] = s => Drafted(s, r) /\ Cascades(s, r)
    /\ stmt[s].op = "cascade" => \A q \in Rows(s) : Own(s, q)

LEMMA CallerContext ==
    ASSUME IInv, NEW s \in Caller
    PROVE  /\ s \in Session /\ s \notin Drainer /\ s # NoOne
           /\ PlansTyped /\ TablesTyped /\ OwnParts(s)
           /\ Idle(s) => stmt[s].op = "none"
  BY KindsOfRow, TypedParts
     DEF IInv, CallerPlan, PlansArePast, CallerRows, DraftsAreMended, DeletesCascade,
         CascadesAreOwn, OwnParts, Idle, NoStatement

LEMMA CallersLeaveDrainers ==
    ASSUME IInv, NEW s \in Caller, CallerMove(s), PlansTyped'
    PROVE  /\ RecordsAreCallers' /\ DrainerPlan' /\ DrainerRows'
           /\ \A t \in Session \ {s} : Past(t)'
<1>1. /\ RecordsAreCallers /\ DrainerPlan /\ DrainerRows /\ PlansArePast
      /\ s # NoOne /\ s \notin Drainer /\ NoOne \notin Drainer
  BY KindsOfRow DEF IInv
<1>2. RecordsAreCallers'
  <2> SUFFICES ASSUME NEW r \in RecordId PROVE owner'[r] \in Caller \cup {NoOne}
    BY DEF RecordsAreCallers
  <2>1. r \in Row /\ owner[r] \in Caller \cup {NoOne}
    BY <1>1, KindsOfRow DEF RecordsAreCallers
  <2> QED
    BY <2>1 DEF CallerMove
<1>3. ASSUME NEW q \in QueueId, NEW v \in Drainer
      PROVE  /\ owner'[q] = v <=> owner[q] = v
             /\ owner[q] = v => committed'[q] = committed[q] /\ draft'[q] = draft[q]
  <2>1. q \in Row /\ v # s /\ v # NoOne
    BY <1>1, KindsOfRow
  <2> QED
    BY <2>1 DEF CallerMove
<1>4. DrainerRows'
  <2> SUFFICES ASSUME NEW q \in QueueId, owner'[q] \in Drainer
               PROVE  DrainerRow(q)'
    BY DEF DrainerRows
  <2>1. owner[q] \in Drainer /\ committed'[q] = committed[q] /\ draft'[q] = draft[q]
    BY <1>3
  <2>2. DrainerRow(q)
    BY <1>1, <2>1 DEF DrainerRows
  <2> QED
    BY <2>1, <2>2 DEF DrainerRow, Kept, Active, Unsettled
<1>5. DrainerPlan'
  <2> SUFFICES ASSUME NEW v \in Drainer PROVE PlanOf(v)'
    BY DEF DrainerPlan
  <2>1. Untouched(v)
    BY <1>3 DEF Untouched
  <2>2. /\ stmt'[v] = stmt[v] /\ batch'[v] = batch[v] /\ pc'[v] = pc[v]
    BY <1>1, KindsOfRow DEF CallerMove
  <2> QED
    BY <2>1, <2>2, PlanStays
<1>6. ASSUME NEW t \in Session \ {s} PROVE Past(t)'
  <2>1. Past(t) /\ stmt'[t] = stmt[t] /\ nextId <= nextId'
    BY <1>1 DEF PlansArePast, CallerMove
  <2>2. nextId \in Nat /\ nextId' \in Nat
    BY CallerContext, TransactionAssumptions DEF PlansTyped
  <2>3. ASSUME stmt[t].op \in {"cascade", "sweep", "fence", "release", "note"}
        PROVE  Rows(t) \subseteq Nat
    BY <2>3, PlanTypes, KindsOfRow DEF IInv
  <2>4. Rows(t)' = Rows(t)
    BY <2>1 DEF Rows
  <2> QED
    BY <2>1, <2>2, <2>3, <2>4 DEF Past
<1> QED
  BY <1>2, <1>4, <1>5, <1>6

LEMMA CallersLeaveCallers ==
    ASSUME IInv, NEW s \in Caller, CallerMove(s), NEW t \in Caller \ {s}
    PROVE  /\ stmt'[t].op \in {"none", "put", "delete", "cascade"}
           /\ \A q \in QueueId : owner'[q] = t => CallerRow(q)'
           /\ \A r \in RecordId : owner'[r] = t => Drafted(t, r)' /\ Cascades(t, r)'
           /\ stmt'[t].op = "cascade" => \A q \in Rows(t)' : Own(t, q)'
<1>1. /\ OwnParts(t) /\ t \in Session /\ t # NoOne /\ s # NoOne /\ t # s /\ Typed
      /\ CallerRows
  BY CallerContext DEF IInv
<1>2. stmt'[t] = stmt[t] /\ Rows(t)' = Rows(t)
  BY <1>1 DEF CallerMove, Rows
<1>3. ASSUME NEW x \in Row
      PROVE  /\ owner'[x] = t <=> owner[x] = t
             /\ owner[x] = t => draft'[x] = draft[x] /\ committed'[x] = committed[x]
  BY <1>1 DEF CallerMove
<1>4. /\ \A q \in QueueId : q \in Row
      /\ \A r \in RecordId : r \in Row
      /\ \A q \in QueueId :
            /\ committed[q] # NoRow => committed[q].rid \in RecordId
            /\ draft[q] # NoRow => draft[q].rid \in RecordId
  BY <1>1, RowTypes, KindsOfRow
(* A row in which s makes a new version refers to none of t's records.     *)
<1>5. ASSUME NEW q \in QueueId
      PROVE  \/ committed'[q] = committed[q]
             \/ /\ owner[q] = s /\ committed'[q] = draft[q]
                /\ committed[q] # NoRow => owner[committed[q].rid] = s
                /\ draft[q] # NoRow => owner[draft[q].rid] = s
  BY <1>1, <1>4 DEF CallerMove, CallerRows, CallerRow
<1>6. ASSUME NEW q \in QueueId, owner'[q] = t
      PROVE  CallerRow(q)'
  <2>1. /\ owner[q] = t /\ CallerRow(q)
        /\ draft'[q] = draft[q] /\ committed'[q] = committed[q]
    BY <1>1, <1>3, <1>4, <1>6 DEF OwnParts
  <2> QED
    BY <2>1, <1>3, <1>4 DEF CallerRow
<1>7. ASSUME NEW r \in RecordId, owner'[r] = t
      PROVE  Drafted(t, r)'
  <2>1. /\ owner[r] = t /\ Drafted(t, r)
        /\ draft'[r] = draft[r] /\ committed'[r] = committed[r]
    BY <1>1, <1>3, <1>4, <1>7 DEF OwnParts
  <2> SUFFICES ASSUME draft[r] # NoRow
               PROVE  /\ Mended(t, r)' /\ Advanced(t, r)' /\ Supplied(r)'
                      /\ draft[r].embedding = NoVector => Enqueued(t, r)'
    BY <2>1 DEF Drafted
  <2>2. /\ Mended(t, r) /\ Advanced(t, r) /\ Supplied(r)
        /\ draft[r].embedding = NoVector => Enqueued(t, r)
    BY <2>1 DEF Drafted
  <2>3. Mended(t, r)'
    BY <1>3, <1>4, <2>1, <2>2 DEF Mended
  <2>4. Cleared(t, r) => Cleared(t, r)'
    <3> SUFFICES ASSUME Cleared(t, r), NEW q \in QueueId,
                        committed'[q] # NoRow, committed'[q].rid = r
                 PROVE  owner'[q] = t
      BY DEF Cleared
    <3>1. committed'[q] = committed[q]
      BY <1>1, <1>5, <2>1
    <3> QED
      BY <1>3, <1>4, <3>1 DEF Cleared
  <2>5. Advanced(t, r)'
    BY <2>1, <2>2, <2>4 DEF Advanced
  <2>6. Supplied(r)'
    BY <2>1, <2>2 DEF Supplied
  <2>7. draft[r].embedding = NoVector => Enqueued(t, r)'
    BY <1>3, <1>4, <2>1, <2>2 DEF Enqueued
  <2> QED
    BY <2>3, <2>5, <2>6, <2>7
<1>8. ASSUME NEW r \in RecordId, owner'[r] = t
      PROVE  Cascades(t, r)'
  <2>1. owner[r] = t /\ Cascades(t, r) /\ draft'[r] = draft[r]
    BY <1>1, <1>3, <1>4, <1>8 DEF OwnParts
  <2>2. ASSUME NEW q \in QueueId, Left(t, q, r)'
        PROVE  Left(t, q, r)
    <3>1. CASE owner'[q] = t
      BY <1>3, <1>4, <2>2, <3>1 DEF Left
    <3>2. CASE owner'[q] # t
      <4>1. owner[q] # t /\ committed'[q] # NoRow /\ committed'[q].rid = r
        BY <1>3, <1>4, <2>2, <3>2 DEF Left
      <4>2. committed'[q] = committed[q]
        BY <1>1, <1>5, <2>1, <4>1
      <4> QED
        BY <4>1, <4>2 DEF Left
    <3> QED
      BY <3>1, <3>2
  <2> QED
    BY <2>1, <2>2, <1>2 DEF Cascades
<1>9. ASSUME stmt'[t].op = "cascade", NEW q \in Rows(t)'
      PROVE  Own(t, q)'
  <2>1. Own(t, q) /\ q \in QueueId
    BY <1>1, <1>2, <1>9, PlanTypes DEF OwnParts
  <2>2. owner[q] = t => draft'[q] = draft[q] /\ committed'[q] = committed[q]
    BY <1>3, <1>4, <2>1
  <2>3. committed'[q] = committed[q]
    BY <1>1, <1>5, <2>1 DEF Own
  <2>4. committed[q] # NoRow =>
           /\ owner'[committed[q].rid] = t /\ draft'[committed[q].rid] = NoRow
    BY <1>3, <1>4, <2>1 DEF Own
  <2>5. owner[q] = t /\ draft[q] # NoRow => draft'[draft[q].rid] = NoRow
    BY <1>1, <1>3, <1>4, <2>1 DEF Own, CallerRows, CallerRow
  <2>6. owner'[q] = t <=> owner[q] = t
    BY <1>3, <1>4, <2>1
  <2> QED
    BY <2>1, <2>2, <2>3, <2>4, <2>5, <2>6 DEF Own
<1> QED
  BY <1>1, <1>2, <1>6, <1>7, <1>8, <1>9 DEF OwnParts

(* What is left to show of a caller's step.                                *)
LEMMA CallerFinish ==
    ASSUME IInv, NEW s \in Caller, CallerMove(s), OwnParts(s)', PlansTyped',
           VersionsAreBounded', IdsAreFresh', RowsRefer', WorkIsQueued', ClaimsHold'
    PROVE  IInv'
<1>1. /\ RecordsAreCallers' /\ DrainerPlan' /\ DrainerRows'
      /\ \A t \in Session \ {s} : Past(t)'
  BY CallersLeaveDrainers
<1>2. FreeRowsAreClean' /\ TablesTyped'
  BY DEF CallerMove
<1>3. Typed'
  BY <1>2, TypedParts, PTL
<1>4. ASSUME NEW t \in Caller
      PROVE  /\ stmt'[t].op \in {"none", "put", "delete", "cascade"}
             /\ \A q \in QueueId : owner'[q] = t => CallerRow(q)'
             /\ \A r \in RecordId : owner'[r] = t => Drafted(t, r)' /\ Cascades(t, r)'
             /\ stmt'[t].op = "cascade" => \A q \in Rows(t)' : Own(t, q)'
  <2>1. CASE t = s
    BY <2>1 DEF OwnParts
  <2>2. CASE t # s
    BY <2>2, CallersLeaveCallers
  <2> QED
    BY <2>1, <2>2
<1>5. CallerPlan' /\ CallerRows' /\ DraftsAreMended' /\ DeletesCascade' /\ CascadesAreOwn'
  BY <1>4 DEF CallerPlan, CallerRows, DraftsAreMended, DeletesCascade, CascadesAreOwn
<1>6. PlansArePast'
  <2>1. Past(s)'
    BY DEF OwnParts
  <2> QED
    BY <1>1, <2>1 DEF PlansArePast
<1> QED
  BY <1>1, <1>2, <1>3, <1>5, <1>6 DEF IInv


-----------------------------------------------------------------------------
(* The callers' actions.                                                   *)

LEMMA RunTyped ==
    ASSUME PlansTyped, NEW s \in Caller, NEW st \in Statement, Run(s, st),
           batch' = batch, pc' = pc, nextId' \in 1 .. MaxQueueId + 1
    PROVE  /\ PlansTyped' /\ stmt'[s] = st
           /\ \A t \in Session \ {s} : stmt'[t] = stmt[t]
  BY KindsOfRow DEF PlansTyped, Run

(* As long as nothing is committed, nobody else sees a difference.         *)
LEMMA SameTables ==
    ASSUME IInv, committed' = committed, batch' = batch, nextId' \in {nextId, nextId + 1},
           \A q \in QueueId : q < nextId /\ draft'[q] # NoRow =>
               draft[q] # NoRow \/ committed[q] # NoRow
    PROVE  RowsRefer' /\ WorkIsQueued' /\ ClaimsHold'
<1>1. RowsRefer /\ WorkIsQueued /\ ClaimsHold /\ Typed /\ nextId \in Nat
  BY TypedParts, TransactionAssumptions DEF IInv, PlansTyped
<1>2. RowsRefer' /\ WorkIsQueued'
  BY <1>1 DEF RowsRefer, Refers, Active, WorkIsQueued
<1>3. ASSUME NEW w \in Drainer, NEW k \in batch[w]
      PROVE  Holds(k)'
  <2>1. Holds(k) /\ k.q \in QueueId /\ k.q \in Nat
    BY <1>1, ClaimTypes, KindsOfRow DEF ClaimsHold
  <2> QED
    BY <1>1, <2>1 DEF Holds
<1> QED
  BY <1>2, <1>3 DEF ClaimsHold

(* A step that only looks.                                                 *)
LEMMA OnlyLooks ==
    ASSUME IInv, NEW s \in Caller, NEW st \in Statement, Run(s, st),
           UNCHANGED <<committed, draft, owner, batch, pc, nextId>>,
           st.op \in {"none", "put", "delete"}, stmt[s].op \in {"none", "put"}
    PROVE  IInv'
<1>1. /\ s \in Session /\ s # NoOne /\ PlansTyped /\ TablesTyped /\ OwnParts(s)
      /\ FreeRowsAreClean /\ IdsAreFresh /\ VersionsAreBounded
      /\ nextId \in 1 .. MaxQueueId + 1
  BY CallerContext, TypedParts DEF IInv, PlansTyped
<1>2. /\ PlansTyped' /\ stmt'[s] = st /\ \A t \in Session \ {s} : stmt'[t] = stmt[t]
  BY <1>1, RunTyped
<1>3. CallerMove(s)
  <2>1. FreeRowsAreClean' /\ TablesTyped'
    BY <1>1 DEF FreeRowsAreClean, TablesTyped, RowType
  <2>2. nextId <= nextId'
    BY <1>1, TransactionAssumptions
  <2> QED
    BY <1>2, <2>1, <2>2 DEF CallerMove
<1>4. OwnParts(s)'
  <2>1. Past(s)' /\ stmt'[s].op \in {"none", "put", "delete", "cascade"}
    BY <1>2 DEF Past
  <2>2. \A q \in QueueId : owner[q] = s => CallerRow(q)'
    BY <1>1 DEF OwnParts, CallerRow
  <2>3. ASSUME NEW r \in RecordId, owner[r] = s
        PROVE  Drafted(s, r)' /\ Cascades(s, r)'
    <3>1. Drafted(s, r) /\ Cascades(s, r)
      BY <1>1, <2>3 DEF OwnParts
    <3>2. Drafted(s, r)'
      BY <3>1 DEF Drafted, Mended, Advanced, Cleared, Supplied, Enqueued
    <3>3. Cascades(s, r)'
      BY <3>1 DEF Cascades, Left
    <3> QED
      BY <3>2, <3>3
  <2> QED
    BY <1>2, <2>1, <2>2, <2>3 DEF OwnParts
<1>5. RowsRefer' /\ WorkIsQueued' /\ ClaimsHold'
  BY SameTables
<1>6. VersionsAreBounded' /\ IdsAreFresh'
  BY <1>1 DEF VersionsAreBounded, Bounded, IdsAreFresh, Fresh
<1> QED
  BY <1>2, <1>3, <1>4, <1>5, <1>6, CallerFinish

LEMMA BeginningsKeep ==
    ASSUME IInv, NEW s \in Caller,
           \/ \E r \in RecordId : PutBegins(s, r)
           \/ \E rows \in SUBSET RecordId : DeleteBegins(s, rows)
           \/ PutNothing(s)
    PROVE  IInv'
<1>1. CASE \E r \in RecordId : PutBegins(s, r)
  <2>1. PICK r \in RecordId : PutBegins(s, r)
    BY <1>1
  <2>2. /\ Run(s, Lock("put", r, {})) /\ stmt[s].op = "none"
        /\ UNCHANGED <<committed, draft, owner, batch, pc, nextId>>
    BY <2>1, CallerContext DEF PutBegins
  <2>3. Lock("put", r, {}) \in Statement /\ Lock("put", r, {}).op = "put"
    BY LockTyped
  <2> QED
    BY <2>2, <2>3, OnlyLooks
<1>2. CASE \E rows \in SUBSET RecordId : DeleteBegins(s, rows)
  <2> PICK rows \in SUBSET RecordId : DeleteBegins(s, rows)
    BY <1>2
  <2>1. PICK r \in rows : Run(s, Lock("delete", r, rows \ {r}))
    BY DEF DeleteBegins
  <2>2. /\ stmt[s].op = "none"
        /\ UNCHANGED <<committed, draft, owner, batch, pc, nextId>>
    BY CallerContext DEF DeleteBegins
  <2>3. /\ Lock("delete", r, rows \ {r}) \in Statement
        /\ Lock("delete", r, rows \ {r}).op = "delete"
    BY LockTyped
  <2> QED
    BY <2>1, <2>2, <2>3, OnlyLooks
<1>3. CASE PutNothing(s)
  <2>1. /\ Run(s, NoStatement) /\ stmt[s].op = "put"
        /\ UNCHANGED <<committed, draft, owner, batch, pc, nextId>>
    BY <1>3 DEF PutNothing
  <2> QED
    BY <2>1, OnlyLooks, LockTyped
<1> QED
  BY <1>1, <1>2, <1>3

LEMMA CallerLocks ==
    ASSUME IInv, NEW s \in Caller, NEW new, Locks(s, new),
           \A x \in DOMAIN new : x \in Row /\ owner[x] \in {s, NoOne},
           \A x \in DOMAIN new : new[x] \in RowType(x),
           batch' = batch, pc' = pc, nextId' \in {nextId, nextId + 1},
           \A t \in Session \ {s} : stmt'[t] = stmt[t]
    PROVE  CallerMove(s)
<1>1. /\ s \in Session /\ s # NoOne /\ PlansTyped /\ TablesTyped
      /\ FreeRowsAreClean
  BY CallerContext DEF IInv
<1>2. FreeRowsAreClean'
  BY <1>1, RowsComeClean
<1>3. TablesTyped'
  BY <1>1, LocksTyped
<1>4. nextId <= nextId'
  BY <1>1, TransactionAssumptions DEF PlansTyped
<1>5. ASSUME NEW x \in Row
      PROVE  /\ owner[x] \notin {s, NoOne} =>
                   /\ owner'[x] = owner[x] /\ draft'[x] = draft[x]
                   /\ committed'[x] = committed[x]
             /\ owner[x] \in {s, NoOne} => owner'[x] \in {s, NoOne}
             /\ committed'[x] = committed[x]
  BY LockRow
<1> QED
  BY <1>2, <1>3, <1>4, <1>5 DEF CallerMove

LEMMA CascadeRowKeeps ==
    ASSUME IInv, NEW s \in Caller, CascadeRow(s)
    PROVE  IInv'
<1> DEFINE x == stmt[s].next
           later == stmt[s].later
           new == One(x, NoRow)
<1>1. /\ s \in Session /\ s # NoOne /\ PlansTyped /\ TablesTyped /\ OwnParts(s)
      /\ stmt[s].op = "cascade" /\ owner[x] \in {s, NoOne}
      /\ Locks(s, new) /\ batch' = batch /\ pc' = pc /\ nextId' = nextId
      /\ nextId \in 1 .. MaxQueueId + 1 /\ Typed
      /\ IdsAreFresh /\ VersionsAreBounded
  BY CallerContext, TypedParts DEF CascadeRow, Granted, PlansTyped, IInv
<1>2. /\ x \in QueueId /\ x \in Row /\ later \subseteq QueueId /\ x \in Rows(s)
      /\ Rows(s) = {x} \cup later /\ \A q \in Rows(s) : q < nextId /\ Own(s, q)
  BY <1>1, PlanTypes, KindsOfRow DEF OwnParts, Past, Rows
<1>3. PICK st \in Statement :
         /\ Run(s, st) /\ st.op \in {"none", "cascade"}
         /\ st.op = "none" => later = {}
         /\ st.op = "cascade" => {st.next} \cup st.later = later
  <2>1. CASE later = {}
    <3>1. Run(s, NoStatement)
      BY <2>1 DEF CascadeRow
    <3> QED
      BY <2>1, <3>1, LockTyped
  <2>2. CASE later # {}
    <3>1. PICK y \in later : Run(s, Lock("cascade", y, later \ {y}))
      BY <2>2 DEF CascadeRow, Continue
    <3> HIDE DEF later
    <3>2. /\ Lock("cascade", y, later \ {y}) \in Statement
          /\ Lock("cascade", y, later \ {y}).op = "cascade"
          /\ Lock("cascade", y, later \ {y}).next = y
          /\ Lock("cascade", y, later \ {y}).later = later \ {y}
      BY <1>2, LockTyped
    <3> QED
      BY <3>1, <3>2
  <2> QED
    BY <2>1, <2>2
<1>4. /\ PlansTyped' /\ stmt'[s] = st /\ \A t \in Session \ {s} : stmt'[t] = stmt[t]
  BY <1>1, <1>3, RunTyped
<1>5. ASSUME NEW y \in Row
      PROVE  /\ committed'[y] = committed[y]
             /\ draft'[y] = IF y = x THEN NoRow ELSE draft[y]
             /\ owner'[y] = IF y = x THEN s ELSE owner[y]
  <2>1. y \in DOMAIN new <=> y = x
    BY OneRow
  <2>2. new[x] = NoRow
    BY OneRow
  <2> HIDE DEF x
  <2> QED
    BY <1>1, <2>1, <2>2, LockRow
<1>6. CallerMove(s)
  <2>1. \A y \in DOMAIN new : y = x /\ new[y] \in RowType(y)
    <3>1. \A y : y \in DOMAIN new <=> y = x
      BY OneRow
    <3>2. new[x] = NoRow
      BY OneRow
    <3> HIDE DEF new, x
    <3> QED
      BY <3>1, <3>2 DEF RowType
  <2> HIDE DEF new, x
  <2> QED
    BY <1>1, <1>2, <1>4, <2>1, CallerLocks
<1> HIDE DEF new, x, later
<1>7. /\ \A q \in QueueId : q \in Row
      /\ \A r \in RecordId : r \in Row /\ r # x
      /\ \A q \in QueueId :
            /\ committed[q] # NoRow => committed[q].rid \in RecordId
            /\ draft[q] # NoRow => draft[q].rid \in RecordId
  BY <1>1, <1>2, RowTypes, KindsOfRow
<1>8. Own(s, x)
  BY <1>2
<1>9. ASSUME NEW q \in QueueId, owner'[q] = s
      PROVE  CallerRow(q)'
  <2>1. CASE q = x
    BY <1>5, <1>7, <1>8, <2>1 DEF CallerRow, Own
  <2>2. CASE q # x
    <3>1. CallerRow(q)
      BY <1>1, <1>5, <1>7, <1>9, <2>2 DEF OwnParts
    <3> QED
      BY <1>5, <1>7, <2>2, <3>1 DEF CallerRow
  <2> QED
    BY <2>1, <2>2
<1>10. ASSUME NEW r \in RecordId, owner'[r] = s
       PROVE  Drafted(s, r)'
  <2>1. /\ Drafted(s, r) /\ draft'[r] = draft[r] /\ committed'[r] = committed[r]
    BY <1>1, <1>5, <1>7, <1>10 DEF OwnParts
  <2> SUFFICES ASSUME draft[r] # NoRow
               PROVE  /\ Mended(s, r)' /\ Advanced(s, r)' /\ Supplied(r)'
                      /\ draft[r].embedding = NoVector => Enqueued(s, r)'
    BY <2>1 DEF Drafted
  <2>2. /\ Mended(s, r) /\ Advanced(s, r) /\ Supplied(r)
        /\ draft[r].embedding = NoVector => Enqueued(s, r)
    BY <2>1 DEF Drafted
  <2>3. /\ committed[x] # NoRow => committed[x].rid # r
        /\ owner[x] = s /\ draft[x] # NoRow => draft[x].rid # r
    BY <1>8 DEF Own
  <2>4. Mended(s, r)'
    BY <1>5, <1>7, <2>1, <2>2 DEF Mended
  <2>5. Advanced(s, r)'
    BY <1>5, <1>7, <2>1, <2>2 DEF Advanced, Cleared
  <2>6. Supplied(r)'
    BY <2>1, <2>2 DEF Supplied
  <2>7. draft[r].embedding = NoVector => Enqueued(s, r)'
    BY <1>5, <1>7, <2>1, <2>2, <2>3 DEF Enqueued
  <2> QED
    BY <2>4, <2>5, <2>6, <2>7
<1>11. ASSUME NEW r \in RecordId, owner'[r] = s
       PROVE  Cascades(s, r)'
  <2>1. Cascades(s, r) /\ draft'[r] = draft[r]
    BY <1>1, <1>5, <1>7, <1>11 DEF OwnParts
  <2>2. ASSUME NEW q \in QueueId, Left(s, q, r)'
        PROVE  Left(s, q, r) /\ q # x
    BY <1>5, <1>7, <2>2 DEF Left
  <2>3. draft[r] = NoRow => \A q \in QueueId : Left(s, q, r)' => q \in later
    BY <1>1, <1>2, <2>1, <2>2 DEF Cascades
  <2>4. draft[r] = NoRow => \A q \in QueueId : Left(s, q, r)' =>
           st.op = "cascade" /\ q \in {st.next} \cup st.later
    BY <1>3, <2>3
  <2> QED
    BY <1>4, <2>1, <2>4 DEF Cascades, Rows
<1>12. ASSUME stmt'[s].op = "cascade", NEW q \in Rows(s)'
       PROVE  Own(s, q)'
  <2>1. q \in later
    BY <1>3, <1>4, <1>12 DEF Rows
  <2>2. Own(s, q) /\ q \in QueueId
    BY <1>2, <2>1
  <2>3. CASE q = x
    BY <1>5, <1>7, <2>2, <2>3 DEF Own
  <2>4. CASE q # x
    <3>1. /\ committed'[q] = committed[q] /\ draft'[q] = draft[q] /\ owner'[q] = owner[q]
      BY <1>5, <1>7, <2>2, <2>4
    <3>2. \A r \in RecordId : draft'[r] = draft[r] /\ owner'[r] = owner[r]
      BY <1>5, <1>7
    <3> QED
      BY <1>7, <2>2, <3>1, <3>2 DEF Own
  <2> QED
    BY <2>3, <2>4
<1>13. Past(s)' /\ stmt'[s].op \in {"none", "put", "delete", "cascade"}
  BY <1>1, <1>2, <1>3, <1>4 DEF Past, Rows
<1>14. OwnParts(s)'
  BY <1>9, <1>10, <1>11, <1>12, <1>13 DEF OwnParts
<1>15. committed' = committed
  BY <1>1 DEF Locks
<1>16. RowsRefer' /\ WorkIsQueued' /\ ClaimsHold'
  BY <1>1, <1>5, <1>7, <1>15, SameTables
<1>17. VersionsAreBounded' /\ IdsAreFresh'
  <2>1. VersionsAreBounded'
    BY <1>1, <1>5, <1>7 DEF VersionsAreBounded, Bounded
  <2>2. ASSUME NEW q \in QueueId, q >= nextId PROVE Fresh(q)'
    <3>1. q # x /\ Fresh(q)
      BY <1>1, <1>2, <2>2, KindsOfRow DEF IdsAreFresh
    <3> QED
      BY <1>5, <1>7, <3>1 DEF Fresh
  <2> QED
    BY <1>1, <2>1, <2>2 DEF IdsAreFresh
<1> QED
  BY <1>4, <1>6, <1>14, <1>16, <1>17, CallerFinish


(* Of the rows a caller no longer holds nothing is left to show.           *)
LEMMA HoldsNothing ==
    ASSUME IInv, NEW s \in Caller, PlansTyped', stmt'[s].op = "none",
           \A x \in Row : owner'[x] # s
    PROVE  OwnParts(s)'
<1>1. \A x : x \in QueueId \cup RecordId => owner'[x] # s
  BY KindsOfRow
<1> QED
  BY <1>1 DEF OwnParts, Past

LEMMA RollbackKeeps ==
    ASSUME IInv, NEW s \in Caller, Rollback(s)
    PROVE  IInv'
<1>1. /\ s \in Session /\ s # NoOne /\ PlansTyped /\ TablesTyped /\ FreeRowsAreClean
      /\ Roll(s) /\ Run(s, NoStatement) /\ batch' = batch /\ pc' = pc
      /\ nextId' = nextId /\ nextId \in 1 .. MaxQueueId + 1
      /\ IdsAreFresh /\ VersionsAreBounded
  BY CallerContext, TypedParts DEF Rollback, PlansTyped, IInv
<1>2. /\ PlansTyped' /\ stmt'[s].op = "none"
      /\ \A t \in Session \ {s} : stmt'[t] = stmt[t]
  BY <1>1, RunTyped, LockTyped
<1>3. ASSUME NEW x \in Row
      PROVE  /\ committed'[x] = committed[x]
             /\ draft'[x] = IF owner[x] = s THEN committed[x] ELSE draft[x]
             /\ owner'[x] = IF owner[x] = s THEN NoOne ELSE owner[x]
  BY <1>1, RollRow
<1>4. CallerMove(s)
  <2>1. FreeRowsAreClean' /\ TablesTyped'
    BY <1>1, RowsComeClean, RollTyped
  <2>2. nextId <= nextId'
    BY <1>1, TransactionAssumptions
  <2> QED
    BY <1>1, <1>2, <1>3, <2>1, <2>2 DEF CallerMove
<1>5. OwnParts(s)'
  BY <1>1, <1>2, <1>3, HoldsNothing
<1>6. RowsRefer' /\ WorkIsQueued' /\ ClaimsHold'
  <2>1. committed' = committed
    BY <1>1 DEF Roll
  <2> QED
    BY <1>1, <1>3, <2>1, SameTables, KindsOfRow
<1>7. VersionsAreBounded' /\ IdsAreFresh'
  <2>1. VersionsAreBounded'
    BY <1>1, <1>3, KindsOfRow DEF VersionsAreBounded, Bounded
  <2>2. IdsAreFresh'
    BY <1>1, <1>3, KindsOfRow DEF IdsAreFresh, Fresh
  <2> QED
    BY <2>1, <2>2
<1> QED
  BY <1>2, <1>4, <1>5, <1>6, <1>7, CallerFinish

(* A commit, row by row.                                                   *)
LEMMA CommitRows ==
    ASSUME IInv, NEW s \in Caller, Commit(s)
    PROVE  /\ CallerMove(s) /\ OwnParts(s)' /\ PlansTyped'
           /\ nextId' = nextId /\ batch' = batch
           /\ \A x \in Row :
                 /\ committed'[x] = IF owner[x] = s THEN draft[x] ELSE committed[x]
                 /\ draft'[x] = IF owner[x] \in {s, NoOne} THEN committed'[x]
                                ELSE draft[x]
                 /\ owner'[x] = IF owner[x] = s THEN NoOne ELSE owner[x]
<1>1. /\ s \in Session /\ s # NoOne /\ PlansTyped /\ TablesTyped /\ FreeRowsAreClean
      /\ stmt[s].op = "none" /\ CommitWith(s, <<>>) /\ stmt' = stmt
      /\ batch' = batch /\ pc' = pc /\ nextId' = nextId
      /\ nextId \in 1 .. MaxQueueId + 1
  BY CallerContext DEF Commit, PlansTyped, IInv
<1>2. \A x : x \notin DOMAIN <<>>
  OBVIOUS
<1>3. ASSUME NEW x \in Row
      PROVE  /\ committed'[x] = IF owner[x] = s THEN draft[x] ELSE committed[x]
             /\ draft'[x] = IF owner[x] \in {s, NoOne} THEN committed'[x] ELSE draft[x]
             /\ owner'[x] = IF owner[x] = s THEN NoOne ELSE owner[x]
  BY <1>1, <1>2, CommitRow
<1>4. FreeRowsAreClean' /\ TablesTyped'
  BY <1>1, <1>2, RowsComeClean, CommitTyped
<1>5. PlansTyped' /\ nextId <= nextId'
  BY <1>1, TransactionAssumptions DEF PlansTyped
<1>6. CallerMove(s)
  <2>1. ASSUME NEW x \in Row
        PROVE  /\ owner[x] \notin {s, NoOne} =>
                     /\ owner'[x] = owner[x] /\ draft'[x] = draft[x]
                     /\ committed'[x] = committed[x]
               /\ owner[x] \in {s, NoOne} => owner'[x] \in {s, NoOne}
               /\ \/ committed'[x] = committed[x]
                  \/ owner[x] = s /\ committed'[x] = draft[x]
    BY <1>3
  <2> QED
    BY <1>1, <1>4, <1>5, <2>1 DEF CallerMove
<1>7. OwnParts(s)'
  BY <1>1, <1>3, <1>5, HoldsNothing
<1> QED
  BY <1>1, <1>3, <1>5, <1>6, <1>7

LEMMA CommitKeeps ==
    ASSUME IInv, NEW s \in Caller, Commit(s)
    PROVE  IInv'
<1>1. /\ CallerMove(s) /\ OwnParts(s)' /\ PlansTyped'
      /\ nextId' = nextId /\ batch' = batch
  BY CommitRows
<1>2. ASSUME NEW x \in Row
      PROVE  /\ committed'[x] = IF owner[x] = s THEN draft[x] ELSE committed[x]
             /\ draft'[x] = IF owner[x] \in {s, NoOne} THEN committed'[x] ELSE draft[x]
             /\ owner'[x] = IF owner[x] = s THEN NoOne ELSE owner[x]
  BY CommitRows
<1>3. /\ s # NoOne /\ OwnParts(s) /\ Typed /\ FreeRowsAreClean /\ RowsRefer
      /\ WorkIsQueued /\ ClaimsHold /\ IdsAreFresh /\ VersionsAreBounded
      /\ stmt[s].op = "none"
  BY CallerContext, TypedParts DEF IInv, Commit
<1>4. /\ \A q \in QueueId : q \in Row
      /\ \A r \in RecordId : r \in Row
      /\ \A q \in QueueId :
            /\ committed[q] # NoRow => committed[q].rid \in RecordId /\ committed[q].cv \in Nat
            /\ draft[q] # NoRow => draft[q].rid \in RecordId /\ draft[q].cv \in Nat
      /\ \A r \in RecordId :
            /\ committed[r] # NoRow => committed[r].cv \in Nat
            /\ draft[r] # NoRow => draft[r].cv \in Nat
  BY <1>3, RowTypes, Versions, KindsOfRow
(* No queue row of a record that s has deleted is left.                    *)
<1>5. ASSUME NEW r \in RecordId, owner[r] = s, draft[r] = NoRow, NEW q \in QueueId
      PROVE  ~Left(s, q, r)
  BY <1>3, <1>5 DEF OwnParts, Cascades
<1>6. RowsRefer'
  <2> SUFFICES ASSUME NEW q \in QueueId, committed'[q] # NoRow
               PROVE  Refers(q)'
    BY DEF RowsRefer, Refers
  <2>1. CASE owner[q] = s
    <3> DEFINE r == draft[q].rid
    <3>1. committed'[q] = draft[q] /\ draft[q] # NoRow /\ r \in RecordId /\ r \in Row
      BY <1>2, <1>4, <2>1
    <3>2. owner[r] = s
      BY <1>3, <2>1, <3>1 DEF OwnParts, CallerRow
    <3>3. committed'[r] = draft[r]
      BY <1>2, <3>1, <3>2
    <3>4. draft[r] # NoRow
      BY <1>5, <2>1, <3>1, <3>2 DEF Left
    <3>5. /\ draft[q].cv <= draft[r].cv
          /\ draft[q].cv = draft[r].cv => draft[r].embedding = NoVector
      BY <1>3, <2>1, <3>1, <3>2, <3>4 DEF OwnParts, Drafted, Mended
    <3> QED
      BY <3>1, <3>3, <3>4, <3>5 DEF Refers
  <2>2. CASE owner[q] # s
    <3> DEFINE r == committed[q].rid
    <3>1. /\ committed'[q] = committed[q] /\ committed[q] # NoRow
          /\ r \in RecordId /\ r \in Row /\ committed[q].cv \in Nat
      BY <1>2, <1>4, <2>2
    <3>2. /\ committed[r] # NoRow /\ committed[q].cv <= committed[r].cv
          /\ committed[r].cv \in Nat
          /\ Active(committed[q]) /\ committed[q].cv = committed[r].cv
                => committed[r].embedding = NoVector
      BY <1>3, <1>4, <3>1 DEF RowsRefer, Refers
    <3>3. CASE owner[r] # s
      BY <1>2, <3>1, <3>2, <3>3 DEF Refers
    <3>4. CASE owner[r] = s
      <4>1. committed'[r] = draft[r] /\ draft[r] # NoRow /\ draft[r].cv \in Nat
        BY <1>2, <1>4, <1>5, <2>2, <3>1, <3>4 DEF Left
      <4>2. Advanced(s, r)
        BY <1>3, <3>1, <3>4, <4>1 DEF OwnParts, Drafted
      <4>3. draft[r] = committed[r] \/ draft[r].cv > committed[r].cv
        BY <2>2, <3>1, <4>2 DEF Advanced, Cleared
      <4> QED
        BY <3>1, <3>2, <4>1, <4>3 DEF Refers
    <3> QED
      BY <3>3, <3>4
  <2> QED
    BY <2>1, <2>2
<1>7. WorkIsQueued'
  <2> SUFFICES ASSUME NEW r \in RecordId, committed'[r] # NoRow,
                      committed'[r].embedding = NoVector
               PROVE  Waiting(r)'
    BY DEF WorkIsQueued, Waiting, Unsettled
  <2>1. CASE /\ owner[r] = s
             /\ \E q \in QueueId : /\ owner[q] = s /\ draft[q] # NoRow
                                   /\ draft[q].rid = r /\ draft[q].cv = draft[r].cv
    <3>1. PICK q \in QueueId : /\ owner[q] = s /\ draft[q] # NoRow
                               /\ draft[q].rid = r /\ draft[q].cv = draft[r].cv
      BY <2>1
    <3>2. committed'[q] = draft[q] /\ committed'[r] = draft[r]
      BY <1>2, <1>4, <2>1, <3>1
    <3>3. draft[q].outcome = "active"
      BY <1>3, <3>1 DEF OwnParts, CallerRow
    <3> QED
      BY <3>1, <3>2, <3>3 DEF Waiting, Unsettled
  <2>2. CASE /\ committed'[r] = committed[r]
             /\ \A q \in QueueId :
                   owner[q] = s /\ committed[q] # NoRow => committed[q].rid # r
    <3>1. PICK q \in QueueId : /\ committed[q] # NoRow /\ committed[q].rid = r
                               /\ committed[q].cv = committed[r].cv
                               /\ committed[q].outcome \in {"active", "failed"}
      BY <1>3, <2>2 DEF WorkIsQueued
    <3>2. committed'[q] = committed[q]
      BY <1>2, <1>4, <2>2, <3>1
    <3> QED
      BY <2>2, <3>1, <3>2 DEF Waiting, Unsettled
  <2>3. CASE owner[r] = s
    <3>1. committed'[r] = draft[r]
      BY <1>2, <1>4, <2>3
    <3>2. Enqueued(s, r)
      BY <1>3, <2>3, <3>1 DEF OwnParts, Drafted
    <3> QED
      BY <2>1, <2>2, <2>3, <3>1, <3>2 DEF Enqueued
  <2>4. CASE owner[r] # s
    <3>1. committed'[r] = committed[r]
      BY <1>2, <1>4, <2>4
    <3>2. \A q \in QueueId :
             owner[q] = s /\ committed[q] # NoRow => committed[q].rid # r
      BY <1>3, <2>4 DEF OwnParts, CallerRow
    <3> QED
      BY <2>2, <3>1, <3>2
  <2> QED
    BY <2>3, <2>4
<1>8. ClaimsHold'
  <2> SUFFICES ASSUME NEW w \in Drainer, NEW k \in batch[w] PROVE Holds(k)'
    BY <1>1 DEF ClaimsHold
  <2>1. /\ Holds(k) /\ k.q \in QueueId /\ k.q \in Row /\ k.rid \in RecordId
        /\ k.rid \in Row /\ k.cv \in Nat
    BY <1>3, <1>4, ClaimTypes DEF ClaimsHold
  <2>2. draft'[k.q] # NoRow => committed'[k.q] # NoRow
    BY <1>2, <2>1 DEF Holds
  <2>3. committed'[k.q] # NoRow =>
           owner[k.q] # s /\ committed'[k.q] = committed[k.q]
    BY <1>2, <1>3, <2>1 DEF Holds, OwnParts, CallerRow
  <2>4. ASSUME committed'[k.q] # NoRow, committed'[k.rid].cv = k.cv
        PROVE  committed'[k.rid].content = k.content
    <3>1. /\ owner[k.q] # s /\ committed[k.q] # NoRow /\ committed'[k.q] = committed[k.q]
          /\ committed[k.q].rid = k.rid /\ committed[k.q].cv = k.cv
          /\ committed[k.rid].cv = k.cv => committed[k.rid].content = k.content
      BY <2>1, <2>3, <2>4 DEF Holds
    <3>2. /\ committed[k.rid] # NoRow /\ committed'[k.rid] # NoRow
          /\ k.cv <= committed[k.rid].cv /\ committed[k.rid].cv \in Nat
      BY <1>3, <1>4, <1>6, <2>1, <3>1 DEF RowsRefer, Refers
    <3>3. CASE committed'[k.rid] = committed[k.rid]
      BY <2>4, <3>1, <3>3
    <3>4. CASE owner[k.rid] = s /\ committed'[k.rid] = draft[k.rid]
      <4>1. Advanced(s, k.rid)
        BY <1>3, <2>1, <3>2, <3>4 DEF OwnParts, Drafted
      <4>2. draft[k.rid] = committed[k.rid] \/ draft[k.rid].cv > committed[k.rid].cv
        BY <2>1, <3>1, <4>1 DEF Advanced, Cleared
      <4> QED
        BY <2>1, <2>4, <3>1, <3>2, <3>4, <4>2
    <3> QED
      BY <1>2, <2>1, <3>3, <3>4
  <2> QED
    BY <1>1, <2>1, <2>2, <2>3, <2>4 DEF Holds
<1>9. VersionsAreBounded' /\ IdsAreFresh'
  <2>1. VersionsAreBounded'
    BY <1>2, <1>3, <1>4 DEF VersionsAreBounded, Bounded
  <2>2. IdsAreFresh'
    BY <1>1, <1>2, <1>3, <1>4 DEF IdsAreFresh, Fresh
  <2> QED
    BY <2>1, <2>2
<1> QED
  BY <1>1, <1>6, <1>7, <1>8, <1>9, CallerFinish


LEMMA DeleteRowKeeps ==
    ASSUME IInv, NEW s \in Caller, DeleteRow(s)
    PROVE  IInv'
<1> DEFINE x == stmt[s].next
           later == stmt[s].later
           image == [y \in Row |-> IF y = x THEN NoRow ELSE Sees(s, y)]
           new == One(x, NoRow)
<1>1. /\ s \in Session /\ s # NoOne /\ PlansTyped /\ TablesTyped /\ OwnParts(s)
      /\ stmt[s].op = "delete" /\ owner[x] \in {s, NoOne}
      /\ batch' = batch /\ pc' = pc /\ nextId' = nextId
      /\ nextId \in 1 .. MaxQueueId + 1 /\ Typed /\ FreeRowsAreClean /\ RowsRefer
      /\ IdsAreFresh /\ VersionsAreBounded
  BY CallerContext, TypedParts DEF DeleteRow, Granted, PlansTyped, IInv
<1>2. /\ x \in RecordId /\ x \in Row /\ x \notin QueueId /\ later \subseteq RecordId
      /\ \A q \in QueueId : q \in Row /\ q # x
      /\ \A r \in RecordId : r \in Row
      /\ \A q \in QueueId :
            /\ committed[q] # NoRow => committed[q].rid \in RecordId
            /\ draft[q] # NoRow => draft[q].rid \in RecordId
  BY <1>1, PlanTypes, RowTypes, KindsOfRow
<1>3. \/ Sees(s, x) = NoRow /\ UNCHANGED <<committed, draft, owner>>
      \/ Sees(s, x) # NoRow /\ Locks(s, new)
  BY DEF DeleteRow
<1>4. /\ committed' = committed
      /\ \A y \in Row :
            /\ draft'[y] = IF y = x /\ Sees(s, x) # NoRow THEN NoRow ELSE draft[y]
            /\ owner'[y] = IF y = x /\ Sees(s, x) # NoRow THEN s ELSE owner[y]
  <2>1. CASE Sees(s, x) = NoRow /\ UNCHANGED <<committed, draft, owner>>
    BY <2>1
  <2>2. CASE Sees(s, x) # NoRow /\ Locks(s, new)
    <3>1. \A y : y \in DOMAIN new <=> y = x
      BY OneRow
    <3>2. new[x] = NoRow
      BY OneRow
    <3> HIDE DEF new, x
    <3> QED
      BY <2>2, <3>1, <3>2, LockRow DEF Locks
  <2> QED
    BY <1>3, <2>1, <2>2
(* The rows of other records and the queue rows stay as s sees them.       *)
<1>5. /\ \A q \in QueueId : draft'[q] = draft[q] /\ owner'[q] = owner[q]
      /\ \A r \in RecordId \ {x} : draft'[r] = draft[r] /\ owner'[r] = owner[r]
      /\ \A q \in QueueId : image[q] = IF owner[q] = s THEN draft[q] ELSE committed[q]
      /\ \A r \in RecordId \ {x} :
            image[r] = IF owner[r] = s THEN draft[r] ELSE committed[r]
  BY <1>2, <1>4 DEF Sees
<1>6. image[x] = NoRow
  BY <1>2
(* A record whose row s has removed, now or before.                        *)
<1>7. ASSUME NEW r \in RecordId
      PROVE  /\ owner'[r] = s /\ draft'[r] = NoRow => image[r] = NoRow
             /\ image[r] = NoRow /\ committed[r] # NoRow
                   => owner'[r] = s /\ draft'[r] = NoRow
             /\ image[r] = NoRow /\ owner[r] = s => draft'[r] = NoRow
  <2>1. CASE r = x
    BY <1>1, <1>2, <1>4, <1>6, <2>1 DEF Sees
  <2>2. CASE r # x
    BY <1>5, <2>2
  <2> QED
    BY <2>1, <2>2
<1>8. PICK st \in Statement :
         /\ Run(s, st)
         /\ \/ st.op = "delete"
            \/ /\ st.op = "cascade" /\ {st.next} \cup st.later = Orphans(image)
            \/ st.op = "none" /\ Orphans(image) = {}
  <2>1. CASE later # {}
    <3>1. PICK y \in later : Run(s, Lock("delete", y, later \ {y}))
      BY <2>1 DEF DeleteRow, Continue
    <3> HIDE DEF later
    <3>2. /\ Lock("delete", y, later \ {y}) \in Statement
          /\ Lock("delete", y, later \ {y}).op = "delete"
      BY <1>2, LockTyped
    <3> QED
      BY <3>1, <3>2
  <2>2. CASE later = {} /\ Orphans(image) # {}
    <3> DEFINE rows == Orphans(image)
    <3>1. PICK y \in rows : Run(s, Lock("cascade", y, rows \ {y}))
      BY <2>2 DEF DeleteRow, Continue
    <3>2. rows \subseteq QueueId
      BY DEF Orphans
    <3> HIDE DEF rows
    <3>3. /\ Lock("cascade", y, rows \ {y}) \in Statement
          /\ Lock("cascade", y, rows \ {y}).op = "cascade"
          /\ Lock("cascade", y, rows \ {y}).next = y
          /\ Lock("cascade", y, rows \ {y}).later = rows \ {y}
      BY <3>2, LockTyped
    <3>4. {y} \cup (rows \ {y}) = rows
      OBVIOUS
    <3> QED
      BY <3>1, <3>3, <3>4 DEF rows
  <2>3. CASE later = {} /\ Orphans(image) = {}
    <3>1. Run(s, NoStatement)
      BY <2>3 DEF DeleteRow
    <3> QED
      BY <2>3, <3>1, LockTyped
  <2> QED
    BY <2>1, <2>2, <2>3
<1>9. /\ PlansTyped' /\ stmt'[s] = st /\ \A t \in Session \ {s} : stmt'[t] = stmt[t]
  BY <1>1, <1>8, RunTyped
<1>10. \A q : q \in Orphans(image) <=>
          q \in QueueId /\ image[q] # NoRow /\ image[image[q].rid] = NoRow
  BY DEF Orphans
<1>11. CallerMove(s)
  <2>1. CASE Sees(s, x) = NoRow /\ UNCHANGED <<committed, draft, owner>>
    <3>1. FreeRowsAreClean' /\ TablesTyped'
      BY <1>1, <2>1 DEF FreeRowsAreClean, TablesTyped, RowType
    <3>2. nextId <= nextId'
      BY <1>1, TransactionAssumptions
    <3> QED
      BY <1>1, <1>9, <2>1, <3>1, <3>2 DEF CallerMove
  <2>2. CASE Sees(s, x) # NoRow /\ Locks(s, new)
    <3>1. \A y \in DOMAIN new : y = x /\ new[y] \in RowType(y)
      <4>1. \A y : y \in DOMAIN new <=> y = x
        BY OneRow
      <4>2. new[x] = NoRow
        BY OneRow
      <4> HIDE DEF new, x
      <4> QED
        BY <4>1, <4>2 DEF RowType
    <3> HIDE DEF new, x
    <3> QED
      BY <1>1, <1>2, <1>9, <2>2, <3>1, CallerLocks
  <2> QED
    BY <1>3, <2>1, <2>2
<1> HIDE DEF x, later, image, new
<1>12. ASSUME NEW q \in QueueId, owner'[q] = s
       PROVE  CallerRow(q)'
  <2>1. owner[q] = s /\ CallerRow(q)
    BY <1>1, <1>5, <1>12 DEF OwnParts
  <2>2. \A r \in RecordId : owner[r] = s => owner'[r] = s
    BY <1>2, <1>4
  <2> QED
    BY <1>2, <1>4, <1>5, <2>1, <2>2 DEF CallerRow
<1>13. ASSUME NEW r \in RecordId, owner'[r] = s
       PROVE  Drafted(s, r)'
  <2> SUFFICES ASSUME draft'[r] # NoRow
               PROVE  /\ Mended(s, r)' /\ Advanced(s, r)' /\ Supplied(r)'
                      /\ draft'[r].embedding = NoVector => Enqueued(s, r)'
    BY DEF Drafted
  <2>1. /\ owner[r] = s /\ draft'[r] = draft[r] /\ Drafted(s, r)
    BY <1>1, <1>2, <1>4, <1>13 DEF OwnParts
  <2>2. /\ Mended(s, r) /\ Advanced(s, r) /\ Supplied(r)
        /\ draft[r].embedding = NoVector => Enqueued(s, r)
    BY <2>1 DEF Drafted
  <2>3. Mended(s, r)'
    BY <1>5, <2>1, <2>2 DEF Mended
  <2>4. Advanced(s, r)'
    BY <1>4, <1>5, <2>1, <2>2 DEF Advanced, Cleared
  <2>5. Supplied(r)'
    BY <1>4, <2>1, <2>2 DEF Supplied
  <2>6. draft'[r].embedding = NoVector => Enqueued(s, r)'
    BY <1>4, <1>5, <2>1, <2>2 DEF Enqueued
  <2> QED
    BY <2>3, <2>4, <2>5, <2>6
<1>14. ASSUME NEW r \in RecordId, owner'[r] = s
       PROVE  Cascades(s, r)'
  <2>1. ASSUME draft'[r] = NoRow, NEW q \in QueueId, Left(s, q, r)'
        PROVE  q \in Orphans(image)
    <3>1. image[r] = NoRow
      BY <1>7, <1>14, <2>1
    <3>2. image[q] # NoRow /\ image[q].rid = r
      BY <1>4, <1>5, <2>1 DEF Left
    <3> QED
      BY <1>10, <3>1, <3>2
  <2> QED
    BY <1>8, <1>9, <2>1 DEF Cascades, Rows
<1>15. ASSUME stmt'[s].op = "cascade", NEW q \in Rows(s)'
       PROVE  Own(s, q)'
  <2>1. q \in Orphans(image)
    BY <1>8, <1>9, <1>15 DEF Rows
  <2>2. q \in QueueId /\ image[q] # NoRow /\ image[image[q].rid] = NoRow
    BY <1>10, <2>1
  <2>3. CASE owner[q] = s
    <3> DEFINE r == draft[q].rid
    <3>1. image[q] = draft[q] /\ draft[q] # NoRow
      BY <1>5, <2>2, <2>3
    <3>2. committed[q] = NoRow /\ r \in RecordId /\ owner[r] = s
      BY <1>1, <1>2, <2>2, <2>3, <3>1 DEF OwnParts, CallerRow
    <3>3. draft'[r] = NoRow
      BY <1>7, <2>2, <3>1, <3>2
    <3> QED
      BY <1>4, <1>5, <2>2, <2>3, <3>2, <3>3 DEF Own
  <2>4. CASE owner[q] # s
    <3> DEFINE r == committed[q].rid
    <3>1. image[q] = committed[q] /\ committed[q] # NoRow
      BY <1>5, <2>2, <2>4
    <3>2. r \in RecordId /\ committed[r] # NoRow
      BY <1>1, <1>2, <2>2, <3>1 DEF RowsRefer, Refers
    <3>3. owner'[r] = s /\ draft'[r] = NoRow
      BY <1>7, <2>2, <3>1, <3>2
    <3> QED
      BY <1>4, <1>5, <2>2, <2>4, <3>1, <3>3 DEF Own
  <2> QED
    BY <2>3, <2>4
<1>16. Past(s)' /\ stmt'[s].op \in {"none", "put", "delete", "cascade"}
  <2>1. ASSUME NEW q \in Orphans(image) PROVE q < nextId
    <3>1. q \in QueueId /\ q \in Nat /\ image[q] # NoRow
      BY <1>10, <2>1, KindsOfRow
    <3>2. ~Fresh(q)
      BY <1>1, <1>5, <3>1 DEF Fresh
    <3> QED
      BY <1>1, <3>1, <3>2 DEF IdsAreFresh
  <2> QED
    BY <1>1, <1>8, <1>9, <2>1 DEF Past, Rows
<1>17. OwnParts(s)'
  BY <1>12, <1>13, <1>14, <1>15, <1>16 DEF OwnParts
<1>18. RowsRefer' /\ WorkIsQueued' /\ ClaimsHold'
  BY <1>1, <1>4, <1>5, SameTables
<1>19. VersionsAreBounded' /\ IdsAreFresh'
  <2>1. VersionsAreBounded'
    BY <1>1, <1>2, <1>4 DEF VersionsAreBounded, Bounded
  <2>2. IdsAreFresh'
    BY <1>1, <1>4, <1>5 DEF IdsAreFresh, Fresh
  <2> QED
    BY <2>1, <2>2
<1> QED
  BY <1>9, <1>11, <1>17, <1>18, <1>19, CallerFinish


(* What a put makes of the row that it sees.                               *)
LEMMA WrittenRow ==
    ASSUME NEW old, old = NoRow \/ old \in RecordRow, NEW row \in Written(old),
           row.cv <= MaxVersion
    PROVE  /\ row \in RecordRow /\ row # NoRow /\ row.cv \in Nat
           /\ old # NoRow => \/ row = old
                             \/ row.cv > old.cv
           /\ \/ row.embedding \in CallerVector \cup {NoVector}
              \/ /\ old # NoRow /\ row.content = old.content
                 /\ row.embedding = old.embedding
<1>1. CASE old = NoRow
  <2>1. PICK c \in Content, e \in CallerVector \cup {NoVector} :
           row = [content |-> c, cv |-> 1, embedding |-> e]
    BY <1>1 DEF Written
  <2>2. row \in RecordRow
    BY <2>1, TransactionAssumptions DEF RecordRow, Vector
  <2> QED
    BY <1>1, <2>1, <2>2, TransactionAssumptions
<1>2. CASE old # NoRow
  <2>1. PICK c \in Content, e \in CallerVector \cup {NoVector, old.embedding} :
           row = RecordIntegrity(old, c, e)
    BY <1>2 DEF Written
  <2> DEFINE v == IF c # old.content /\ e = old.embedding THEN NoVector ELSE e
  <2>2. /\ row = [content |-> c, embedding |-> v,
                  cv |-> IF c # old.content \/ v # old.embedding THEN old.cv + 1
                                                                 ELSE old.cv]
    BY <2>1 DEF RecordIntegrity
  <2>3. /\ old.content \in Content /\ old.embedding \in Vector \cup {NoVector}
        /\ old.cv \in 1 .. MaxVersion + 1
        /\ old = [content |-> old.content, cv |-> old.cv, embedding |-> old.embedding]
    BY <1>2 DEF RecordRow
  <2>4. v \in Vector \cup {NoVector}
    BY <2>3 DEF Vector
  <2>5. row.cv \in {old.cv, old.cv + 1}
    BY <2>2
  <2>6. row.cv \in 1 .. MaxVersion + 1
    BY <2>3, <2>5, TransactionAssumptions
  <2>7. row = [content |-> c, embedding |-> v, cv |-> row.cv]
    BY <2>2
  <2>8. row \in RecordRow
    BY <2>4, <2>6, <2>7 DEF RecordRow
  <2>9. row = old \/ row.cv > old.cv
    <3>1. CASE c # old.content \/ v # old.embedding
      BY <2>2, <2>3, <3>1
    <3>2. CASE c = old.content /\ v = old.embedding
      BY <2>2, <2>3, <3>2
    <3> QED
      BY <3>1, <3>2
  <2>10. row.content = c /\ row.embedding = v
    BY <2>2
  <2>11. \/ row.embedding \in CallerVector \cup {NoVector}
         \/ row.content = old.content /\ row.embedding = old.embedding
    BY <2>10
  <2>12. row # NoRow /\ row.cv \in Nat
    BY <2>8, Versions, TransactionAssumptions
  <2> QED
    BY <1>2, <2>8, <2>9, <2>11, <2>12
<1> QED
  BY <1>1, <1>2

LEMMA PutRowKeeps ==
    ASSUME IInv, NEW s \in Caller, PutRow(s)
    PROVE  IInv'
<1>0. PICK x \in RecordId : x = stmt[s].next
  BY CallerContext, PlanTypes DEF PutRow, IInv
<1> DEFINE old == Sees(s, x)
<1>1. /\ s \in Session /\ s # NoOne /\ PlansTyped /\ TablesTyped /\ OwnParts(s)
      /\ stmt[s].op = "put" /\ owner[x] \in {s, NoOne}
      /\ Run(s, NoStatement) /\ batch' = batch /\ pc' = pc
      /\ nextId \in 1 .. MaxQueueId + 1 /\ Typed /\ FreeRowsAreClean /\ RowsRefer
      /\ IdsAreFresh /\ VersionsAreBounded
  BY <1>0, CallerContext, TypedParts DEF PutRow, Granted, PlansTyped, IInv
<1>2. /\ x \in RecordId /\ x \in Row /\ x \notin QueueId
      /\ \A q \in QueueId : q \in Row /\ q # x /\ q \in Nat
      /\ \A r \in RecordId : r \in Row
      /\ \A q \in QueueId :
            /\ committed[q] # NoRow => committed[q].rid \in RecordId
            /\ draft[q] # NoRow => draft[q].rid \in RecordId /\ draft[q].cv \in Nat
      /\ committed[x] # NoRow => committed[x] \in RecordRow /\ committed[x].cv \in Nat
      /\ draft[x] # NoRow => draft[x] \in RecordRow /\ draft[x].cv \in Nat
  BY <1>1, RowTypes, Versions, KindsOfRow
<1>3. /\ old = IF owner[x] = s THEN draft[x] ELSE committed[x]
      /\ old = NoRow \/ (old \in RecordRow /\ old.cv \in Nat)
  BY <1>2 DEF Sees
<1> HIDE DEF old
<1>4. PICK row \in Written(old) :
         /\ row.cv <= MaxVersion
         /\ \/ /\ NeedsVector(old, row)
               /\ nextId \in QueueId /\ nextId' = nextId + 1
               /\ Locks(s, Both(x, row, nextId, Pending(x, row.cv)))
            \/ ~NeedsVector(old, row) /\ Locks(s, One(x, row)) /\ nextId' = nextId
  BY <1>0 DEF PutRow, old
<1> DEFINE more == NeedsVector(old, row)
           job == Pending(x, row.cv)
<1>5. /\ row \in RecordRow /\ row # NoRow /\ row.cv \in Nat
      /\ old # NoRow => row = old \/ row.cv > old.cv
      /\ \/ row.embedding \in CallerVector \cup {NoVector}
         \/ /\ old # NoRow /\ row.content = old.content
            /\ row.embedding = old.embedding
  BY <1>3, <1>4, WrittenRow
<1>6. /\ job \in QueueRow /\ job # NoRow /\ job.rid = x /\ job.cv = row.cv
      /\ job.outcome = "active"
  <2>1. row.cv \in 1 .. MaxVersion + 1
    BY <1>5 DEF RecordRow
  <2>2. job \in QueueRow
    BY <1>2, <2>1, TransactionAssumptions DEF Pending, QueueRow
  <2> QED
    BY <2>2, TransactionAssumptions DEF Pending
<1>7. more => nextId \in QueueId /\ nextId \in Row /\ nextId # x /\ Fresh(nextId)
  BY <1>1, <1>2, <1>4 DEF IdsAreFresh
<1> HIDE DEF job
<1>8. /\ committed' = committed /\ nextId' = IF more THEN nextId + 1 ELSE nextId
      /\ \A y \in Row :
            /\ draft'[y] = IF y = x THEN row
                           ELSE IF more /\ y = nextId THEN job ELSE draft[y]
            /\ owner'[y] = IF y = x \/ (more /\ y = nextId) THEN s ELSE owner[y]
  <2>1. CASE more
    <3> DEFINE new == Both(x, row, nextId, job)
    <3>1. /\ \A y : y \in DOMAIN new <=> y \in {x, nextId}
          /\ new[x] = row /\ new[nextId] = job
      BY <1>7, <2>1, BothRows
    <3>2. Locks(s, new)
      BY <1>4, <2>1 DEF job
    <3> HIDE DEF new
    <3> QED
      BY <1>4, <2>1, <3>1, <3>2, LockRow DEF Locks
  <2>2. CASE ~more
    <3> DEFINE new == One(x, row)
    <3>1. /\ \A y : y \in DOMAIN new <=> y = x
      BY OneRow
    <3>2. new[x] = row
      BY OneRow
    <3> HIDE DEF new
    <3> QED
      BY <1>4, <2>2, <3>1, <3>2, LockRow DEF Locks, new
  <2> QED
    BY <2>1, <2>2
<1>9. /\ PlansTyped' /\ stmt'[s] = NoStatement /\ stmt'[s].op = "none"
      /\ \A t \in Session \ {s} : stmt'[t] = stmt[t]
  <2>1. nextId' \in 1 .. MaxQueueId + 1
    BY <1>1, <1>7, <1>8, TransactionAssumptions DEF QueueId
  <2> QED
    BY <1>1, <2>1, RunTyped, LockTyped
<1>10. CallerMove(s)
  <2>1. nextId' \in {nextId, nextId + 1}
    BY <1>8
  <2>2. CASE more
    <3> DEFINE new == Both(x, row, nextId, job)
    <3>1. /\ \A y : y \in DOMAIN new <=> y \in {x, nextId}
          /\ new[x] = row /\ new[nextId] = job
      BY <1>7, <2>2, BothRows
    <3>2. Locks(s, new)
      BY <1>4, <2>2 DEF job
    <3> HIDE DEF new
    <3>3. \A y \in DOMAIN new : /\ y \in Row /\ owner[y] \in {s, NoOne}
                                /\ new[y] \in RowType(y)
      BY <1>1, <1>2, <1>5, <1>6, <1>7, <2>2, <3>1 DEF RowType, Fresh
    <3> QED
      BY <1>1, <1>9, <2>1, <3>2, <3>3, CallerLocks
  <2>3. CASE ~more
    <3> DEFINE new == One(x, row)
    <3>1. /\ \A y : y \in DOMAIN new <=> y = x
      BY OneRow
    <3>2. new[x] = row
      BY OneRow
    <3>3. Locks(s, new)
      BY <1>4, <2>3
    <3> HIDE DEF new
    <3>4. \A y \in DOMAIN new : /\ y \in Row /\ owner[y] \in {s, NoOne}
                                /\ new[y] \in RowType(y)
      BY <1>1, <1>2, <1>5, <3>1, <3>2 DEF RowType
    <3> QED
      BY <1>1, <1>9, <2>1, <3>3, <3>4, CallerLocks
  <2> QED
    BY <2>2, <2>3
(* Before the step, no queue row that s can see refers to a record that s  *)
(* has deleted.                                                            *)
<1>11. ASSUME NEW r \in RecordId, owner[r] = s, draft[r] = NoRow, NEW q \in QueueId
       PROVE  ~Left(s, q, r)
  BY <1>1, <1>11 DEF OwnParts, Cascades
<1>12. ASSUME NEW q \in QueueId
       PROVE  \/ /\ more /\ q = nextId
                 /\ committed[q] = NoRow /\ draft[q] = NoRow /\ owner[q] = NoOne
                 /\ draft'[q] = job /\ owner'[q] = s
              \/ /\ ~(more /\ q = nextId)
                 /\ draft'[q] = draft[q] /\ owner'[q] = owner[q]
  BY <1>2, <1>7, <1>8 DEF Fresh
<1>13. \A r \in RecordId :
          /\ draft'[r] = IF r = x THEN row ELSE draft[r]
          /\ owner'[r] = IF r = x THEN s ELSE owner[r]
  BY <1>2, <1>7, <1>8, KindsOfRow
<1>14. ASSUME NEW q \in QueueId, owner'[q] = s
       PROVE  CallerRow(q)'
  <2>1. CASE more /\ q = nextId
    BY <1>2, <1>6, <1>8, <1>12, <1>13, <2>1 DEF CallerRow
  <2>2. CASE ~(more /\ q = nextId)
    <3>1. draft'[q] = draft[q] /\ owner[q] = s /\ CallerRow(q)
      BY <1>1, <1>12, <1>14, <2>2 DEF OwnParts
    <3> QED
      BY <1>2, <1>8, <1>13, <1>14, <3>1 DEF CallerRow
  <2> QED
    BY <2>1, <2>2
(* The record itself.                                                      *)
<1>15. Drafted(s, x)'
  <2>1. Mended(s, x)'
    <3> SUFFICES ASSUME NEW q \in QueueId, owner'[q] = s, draft'[q] # NoRow,
                        draft'[q].rid = x
                 PROVE  /\ draft'[q].cv <= row.cv
                        /\ draft'[q].cv = row.cv => row.embedding = NoVector
      BY <1>2, <1>13 DEF Mended
    <3>1. CASE more /\ q = nextId
      BY <1>5, <1>6, <1>12, <3>1 DEF NeedsVector
    <3>2. CASE ~(more /\ q = nextId)
      <4>1. draft'[q] = draft[q] /\ owner[q] = s
        BY <1>12, <3>2
      <4>2. owner[x] = s
        BY <1>1, <4>1 DEF OwnParts, CallerRow
      <4>3. draft[x] # NoRow
        BY <1>2, <1>11, <4>1, <4>2 DEF Left
      <4>4. Mended(s, x)
        BY <1>1, <1>2, <4>2, <4>3 DEF OwnParts, Drafted
      <4>5. /\ draft[q].cv <= old.cv
            /\ draft[q].cv = old.cv => old.embedding = NoVector
        BY <1>3, <4>1, <4>2, <4>4 DEF Mended
      <4>6. old # NoRow /\ old.cv \in Nat /\ draft[q].cv \in Nat
        BY <1>2, <1>3, <4>1, <4>2, <4>3
      <4> QED
        BY <1>5, <4>1, <4>5, <4>6
    <3> QED
      BY <3>1, <3>2
  <2>2. Advanced(s, x)'
    <3>1. CASE old = NoRow
      <4>1. ASSUME NEW q \in QueueId, committed[q] # NoRow, committed[q].rid = x
            PROVE  owner[q] = s
        <5>1. CASE owner[x] = s
          BY <1>2, <1>3, <1>11, <3>1, <4>1, <5>1 DEF Left
        <5>2. CASE owner[x] # s
          BY <1>1, <1>3, <3>1, <4>1, <5>2 DEF RowsRefer, Refers
        <5> QED
          BY <5>1, <5>2
      <4>2. Cleared(s, x)'
        BY <1>8, <1>12, <4>1 DEF Cleared
      <4> QED
        BY <4>2 DEF Advanced
    <3>2. CASE old # NoRow
      <4>1. CASE owner[x] = s
        <5>1. old = draft[x] /\ Advanced(s, x)
          BY <1>1, <1>2, <1>3, <3>2, <4>1 DEF OwnParts, Drafted
        <5>2. Cleared(s, x) => Cleared(s, x)'
          BY <1>8, <1>12 DEF Cleared
        <5>3. committed[x] # NoRow => committed[x].cv \in Nat
          BY <1>2
        <5> QED
          BY <1>2, <1>3, <1>5, <1>8, <1>13, <3>2, <5>1, <5>2, <5>3 DEF Advanced
      <4>2. CASE owner[x] # s
        BY <1>2, <1>3, <1>5, <1>8, <1>13, <3>2, <4>2 DEF Advanced
      <4> QED
        BY <4>1, <4>2
    <3> QED
      BY <3>1, <3>2
  <2>3. Supplied(x)'
    <3>1. CASE row.embedding \in CallerVector \cup {NoVector}
      BY <1>2, <1>13, <3>1 DEF Supplied
    <3>2. CASE /\ old # NoRow /\ row.content = old.content
               /\ row.embedding = old.embedding
      <4>1. owner[x] = s => old = draft[x] /\ Supplied(x)
        BY <1>1, <1>2, <1>3, <3>2 DEF OwnParts, Drafted
      <4> QED
        BY <1>2, <1>3, <1>8, <1>13, <3>2, <4>1 DEF Supplied
    <3> QED
      BY <1>5, <3>1, <3>2
  <2>4. row.embedding = NoVector => Enqueued(s, x)'
    <3> SUFFICES ASSUME row.embedding = NoVector PROVE Enqueued(s, x)'
      OBVIOUS
    <3>1. CASE more
      BY <1>2, <1>6, <1>7, <1>12, <1>13, <3>1 DEF Enqueued
    <3>2. CASE ~more
      <4>1. old # NoRow /\ row = old
        BY <1>3, <1>5, <3>2 DEF NeedsVector
      <4>2. \A q \in QueueId : draft'[q] = draft[q] /\ owner'[q] = owner[q]
        BY <1>12, <3>2
      <4>3. CASE owner[x] = s
        <5>1. Enqueued(s, x) /\ draft'[x] = draft[x]
          BY <1>1, <1>2, <1>3, <1>13, <4>1, <4>3 DEF OwnParts, Drafted
        <5> QED
          BY <1>8, <4>2, <5>1 DEF Enqueued
      <4>4. CASE owner[x] # s
        <5>1. draft'[x] = committed[x]
          BY <1>2, <1>3, <1>13, <4>1, <4>4
        <5>2. ASSUME NEW q \in QueueId, owner[q] = s, committed[q] # NoRow
              PROVE  committed[q].rid # x
          BY <1>1, <4>4, <5>2 DEF OwnParts, CallerRow
        <5> QED
          BY <1>8, <4>2, <5>1, <5>2 DEF Enqueued
      <4> QED
        BY <4>3, <4>4
    <3> QED
      BY <3>1, <3>2
  <2>5. draft'[x] = row
    BY <1>2, <1>13
  <2> QED
    BY <2>1, <2>2, <2>3, <2>4, <2>5 DEF Drafted
<1>16. ASSUME NEW r \in RecordId, owner'[r] = s, r # x
       PROVE  Drafted(s, r)' /\ Cascades(s, r)'
  <2>1. /\ owner[r] = s /\ draft'[r] = draft[r] /\ Drafted(s, r) /\ Cascades(s, r)
    BY <1>1, <1>13, <1>16 DEF OwnParts
  <2>2. Cascades(s, r)'
    <3>1. ASSUME NEW q \in QueueId, Left(s, q, r)' PROVE Left(s, q, r)
      BY <1>6, <1>8, <1>12, <1>16, <3>1 DEF Left
    <3> QED
      BY <1>11, <2>1, <3>1 DEF Cascades
  <2>3. ASSUME draft[r] # NoRow
        PROVE  /\ Mended(s, r)' /\ Advanced(s, r)' /\ Supplied(r)'
               /\ draft[r].embedding = NoVector => Enqueued(s, r)'
    <3>1. /\ Mended(s, r) /\ Advanced(s, r) /\ Supplied(r)
          /\ draft[r].embedding = NoVector => Enqueued(s, r)
      BY <2>1, <2>3 DEF Drafted
    <3>2. Mended(s, r)'
      BY <1>6, <1>12, <1>16, <2>1, <3>1 DEF Mended
    <3>3. Advanced(s, r)'
      BY <1>8, <1>12, <2>1, <3>1 DEF Advanced, Cleared
    <3>4. Supplied(r)'
      BY <1>8, <2>1, <3>1 DEF Supplied
    <3>5. draft[r].embedding = NoVector => Enqueued(s, r)'
      BY <1>8, <1>12, <2>1, <3>1 DEF Enqueued
    <3> QED
      BY <3>2, <3>3, <3>4, <3>5
  <2> QED
    BY <2>1, <2>2, <2>3 DEF Drafted
<1>17. Cascades(s, x)'
  BY <1>2, <1>5, <1>13 DEF Cascades
<1>18. OwnParts(s)'
  <2>1. \A q \in QueueId : owner'[q] = s => CallerRow(q)'
    BY <1>14
  <2>2. \A r \in RecordId : owner'[r] = s => Drafted(s, r)' /\ Cascades(s, r)'
    BY <1>15, <1>16, <1>17
  <2>3. Past(s)'
    BY <1>9 DEF Past
  <2> QED
    BY <1>9, <2>1, <2>2, <2>3 DEF OwnParts
<1>19. RowsRefer' /\ WorkIsQueued' /\ ClaimsHold'
  <2>1. nextId' \in {nextId, nextId + 1}
    BY <1>8
  <2>2. \A q \in QueueId : q < nextId => draft'[q] = draft[q]
    BY <1>1, <1>2, <1>12
  <2> QED
    BY <1>1, <1>8, <2>1, <2>2, SameTables
<1>20. VersionsAreBounded' /\ IdsAreFresh'
  <2>1. VersionsAreBounded'
    BY <1>1, <1>4, <1>8, <1>13 DEF VersionsAreBounded, Bounded
  <2>2. ASSUME NEW q \in QueueId, q >= nextId' PROVE Fresh(q)'
    <3>1. q >= nextId /\ ~(more /\ q = nextId)
      BY <1>1, <1>2, <1>8, <2>2
    <3> QED
      BY <1>1, <1>8, <1>12, <3>1 DEF IdsAreFresh, Fresh
  <2> QED
    BY <2>1, <2>2 DEF IdsAreFresh
<1> QED
  BY <1>9, <1>10, <1>18, <1>19, <1>20, CallerFinish


-----------------------------------------------------------------------------
(* A transaction commits, a statement fails, a process dies: whatever      *)
(* happens next, the invariant holds.                                      *)

LEMMA InitHolds == Init => IInv
<1> SUFFICES ASSUME Init PROVE IInv
  OBVIOUS
<1>1. /\ committed = [x \in Row |-> NoRow] /\ draft = [x \in Row |-> NoRow]
      /\ owner = [x \in Row |-> NoOne] /\ stmt = [s \in Session |-> NoStatement]
      /\ batch = [w \in Drainer |-> {}] /\ pc = [w \in Drainer |-> "idle"]
      /\ nextId = 1
  BY DEF Init
<1>2. NoOne \notin Session /\ NoOne \notin Caller /\ NoOne \notin Drainer
  BY TransactionAssumptions DEF Session
<1>3. PlansTyped
  <2>1. stmt \in [Session -> Statement]
    BY <1>1, LockTyped
  <2>2. nextId \in 1 .. MaxQueueId + 1
    BY <1>1, TransactionAssumptions
  <2> QED
    BY <1>1, <2>1, <2>2 DEF PlansTyped
<1>4. Typed /\ FreeRowsAreClean
  <2>1. TablesTyped
    BY <1>1 DEF TablesTyped, RowType
  <2>2. VersionsAreBounded
    BY <1>1, KindsOfRow DEF VersionsAreBounded, Bounded
  <2> QED
    BY <1>1, <1>3, <2>1, <2>2, TypedParts DEF FreeRowsAreClean
<1>5. \A s \in Session : stmt[s].op = "none"
  BY <1>1, LockTyped
<1>6. IdsAreFresh /\ RecordsAreCallers /\ CallerRows /\ DrainerRows
  BY <1>1, <1>2, KindsOfRow
     DEF IdsAreFresh, Fresh, RecordsAreCallers, CallerRows, DrainerRows
<1>7. CallerPlan /\ PlansArePast /\ DrainerPlan
  BY <1>1, <1>2, <1>5, KindsOfRow DEF CallerPlan, PlansArePast, Past, DrainerPlan, PlanOf
<1>8. RowsRefer /\ WorkIsQueued
  BY <1>1, KindsOfRow DEF RowsRefer, Refers, WorkIsQueued
<1>9. DraftsAreMended /\ DeletesCascade /\ CascadesAreOwn /\ ClaimsHold
  BY <1>1, <1>2, <1>5, KindsOfRow
     DEF DraftsAreMended, DeletesCascade, CascadesAreOwn, ClaimsHold
<1> QED
  BY <1>4, <1>6, <1>7, <1>8, <1>9 DEF IInv

(* A caller changes what others see only when it commits.                  *)
LEMMA CallerNextKeeps ==
    ASSUME IInv, NEW s \in Caller, CallerNext(s)
    PROVE  IInv' /\ (committed' = committed \/ Commit(s))
<1>1. CASE \/ \E r \in RecordId : PutBegins(s, r)
           \/ \E rows \in SUBSET RecordId : DeleteBegins(s, rows)
           \/ PutNothing(s)
  <2>1. committed' = committed
    BY <1>1 DEF PutBegins, DeleteBegins, PutNothing
  <2> QED
    BY <1>1, <2>1, BeginningsKeep
<1>2. CASE PutRow(s)
  <2>1. committed' = committed
    BY <1>2 DEF PutRow, Locks
  <2> QED
    BY <1>2, <2>1, PutRowKeeps
<1>3. CASE DeleteRow(s)
  <2>1. committed' = committed
    BY <1>3 DEF DeleteRow, Locks
  <2> QED
    BY <1>3, <2>1, DeleteRowKeeps
<1>4. CASE CascadeRow(s)
  <2>1. committed' = committed
    BY <1>4 DEF CascadeRow, Locks
  <2> QED
    BY <1>4, <2>1, CascadeRowKeeps
<1>5. CASE Commit(s)
  BY <1>5, CommitKeeps
<1>6. CASE Rollback(s)
  <2>1. committed' = committed
    BY <1>6 DEF Rollback, Roll
  <2> QED
    BY <1>6, <2>1, RollbackKeeps
<1> QED
  BY <1>1, <1>2, <1>3, <1>4, <1>5, <1>6 DEF CallerNext

LEMMA DrainerNextKeeps ==
    ASSUME IInv, NEW w \in Drainer, DrainerNext(w)
    PROVE  IInv' /\ DrainerMove
<1>1. CASE SweepBegins(w)
  BY <1>1, SweepBeginsKeeps
<1>2. CASE SweepRow(w)
  BY <1>2, SweepRowKeeps
<1>3. CASE \E taken \in SUBSET QueueId : ClaimBatch(w, taken)
  BY <1>3, ClaimBatchKeeps
<1>4. CASE Provider(w)
  BY <1>4, ProviderKeeps
<1>5. CASE SettleBegins(w)
  BY <1>5, SettleBeginsKeeps
<1>6. CASE Fence(w)
  BY <1>6, FenceKeeps
<1>7. CASE WriteBack(w)
  BY <1>7, WriteBackKeeps
<1>8. CASE SettleRow(w)
  BY <1>8, SettleRowKeeps
<1>9. CASE StatementFails(w)
  BY <1>9, StatementFailsKeeps
<1>10. CASE Crash(w)
  BY <1>10, GivingUpKeeps DEF Crash
<1> QED
  BY <1>1, <1>2, <1>3, <1>4, <1>5, <1>6, <1>7, <1>8, <1>9, <1>10 DEF DrainerNext

LEMMA NextKeeps ==
    ASSUME IInv, Next
    PROVE  /\ IInv'
           /\ \/ committed' = committed
              \/ DrainerMove
              \/ \E s \in Caller : Commit(s)
<1>1. CASE \E s \in Caller : CallerNext(s)
  BY <1>1, CallerNextKeeps
<1>2. CASE \E w \in Drainer : DrainerNext(w)
  BY <1>2, DrainerNextKeeps
<1>3. CASE \E q \in QueueId : Lapse(q)
  BY <1>3, LapseKeeps
<1> QED
  BY <1>1, <1>2, <1>3 DEF Next

LEMMA StutterKeeps ==
    ASSUME IInv, UNCHANGED vars
    PROVE  IInv'
<1>1. /\ Typed' /\ FreeRowsAreClean' /\ IdsAreFresh' /\ RecordsAreCallers'
      /\ CallerRows' /\ DrainerRows' /\ RowsRefer' /\ WorkIsQueued'
  BY DEF IInv, vars, Typed, TypeOK, VersionsAreBounded, Bounded, FreeRowsAreClean,
         IdsAreFresh, Fresh, RecordsAreCallers, CallerRows, CallerRow, DrainerRows,
         DrainerRow, Kept, Active, Unsettled, RowsRefer, Refers, WorkIsQueued
<1>2. /\ CallerPlan' /\ DrainerPlan' /\ PlansArePast' /\ ClaimsHold'
  BY DEF IInv, vars, CallerPlan, DrainerPlan, PlanOf, First, Active, PlansArePast, Past,
         Rows, ClaimsHold, Holds
<1>3. DraftsAreMended' /\ DeletesCascade' /\ CascadesAreOwn'
  BY DEF IInv, vars, DraftsAreMended, Drafted, Mended, Advanced, Cleared, Supplied,
         Enqueued, DeletesCascade, Cascades, Left, Rows, CascadesAreOwn, Own
<1> QED
  BY <1>1, <1>2, <1>3 DEF IInv

THEOREM Invariance == Spec => []IInv
<1>1. Init => IInv
  BY InitHolds
<1>2. IInv /\ [Next]_vars => IInv'
  BY NextKeeps, StutterKeeps
<1> QED
  BY <1>1, <1>2, PTL DEF Spec

(* However long transactions stay open, wait, lose a deadlock or roll      *)
(* back, every record that everybody sees without a vector is in a queue   *)
(* row that everybody sees, pending or failed.                             *)
THEOREM CommittedWorkIsQueued == Spec => []WorkIsQueued
<1>1. IInv => WorkIsQueued
  BY DEF IInv
<1> QED
  BY <1>1, Invariance, PTL

-----------------------------------------------------------------------------
(* What a commit makes of a record its transaction holds.                  *)
LEMMA CommitSupplies ==
    ASSUME IInv, NEW s \in Caller, Commit(s), NEW r \in RecordId
    PROVE  \/ committed'[r] = committed[r]
           \/ committed'[r] = NoRow
           \/ /\ committed'[r] # NoRow /\ committed'[r] \in RecordRow
              /\ \/ committed'[r].embedding \in CallerVector \cup {NoVector}
                 \/ /\ committed[r] # NoRow
                    /\ committed'[r].content = committed[r].content
                    /\ committed'[r].embedding = committed[r].embedding
<1>1. r \in Row /\ OwnParts(s) /\ Typed
  BY KindsOfRow, CallerContext DEF IInv
<1>2. committed'[r] = IF owner[r] = s THEN draft[r] ELSE committed[r]
  BY <1>1, CommitRows
<1>3. CASE owner[r] = s /\ draft[r] # NoRow
  <2>1. Supplied(r) /\ draft[r] \in RecordRow
    BY <1>1, <1>3, RowTypes DEF OwnParts, Drafted
  <2> QED
    BY <1>2, <1>3, <2>1 DEF Supplied
<1> QED
  BY <1>2, <1>3

LEMMA StepKeepsContract ==
    ASSUME IInv, Next, NEW r \in RecordId, Visible(r)' # Visible(r)
    PROVE  Contract(r)!Next
<1> DEFINE old == committed[r]
           new == committed'[r]
           slot == [x \in {r} |-> Visible(x)]
           slotNext == [x \in {r} |-> Visible(x)']
<1>1. new # old
  BY DEF Visible
<1>2. Typed /\ (old # NoRow => old \in RecordRow)
  BY RowTypes DEF IInv
<1>3. /\ Visible(r) = IF old = NoRow THEN NoRow
                      ELSE [content |-> old.content, embedding |-> old.embedding]
      /\ Visible(r)' = IF new = NoRow THEN NoRow
                       ELSE [content |-> new.content, embedding |-> new.embedding]
  BY DEF Visible
<1>4. \A row \in RecordRow :
         /\ row.content \in Content /\ row.embedding \in Vector \cup {NoVector}
         /\ [content |-> row.content, embedding |-> row.embedding] # NoRow
  <2>1. \A row \in RecordRow :
           [content |-> row.content, embedding |-> row.embedding]
              \in [content : Content, embedding : Vector \cup {NoVector}]
    BY DEF RecordRow
  <2> QED
    BY <2>1, TransactionAssumptions DEF RecordRow
<1>5. Contract(r)!Insert(r) \/ Contract(r)!Write(r) \/ Contract(r)!Delete(r)
         \/ Contract(r)!Embed(r)
  <2>1. /\ slot[r] = Visible(r)
        /\ slotNext = [slot EXCEPT ![r] = Visible(r)']
    OBVIOUS
  <2>2. CASE DrainerMove
    <3>1. Embedded(old, new)
      BY <1>1, <2>2 DEF DrainerMove, KeptRecord
    <3>2. /\ Visible(r) = [content |-> old.content, embedding |-> NoVector]
          /\ Visible(r)' = [content |-> old.content, embedding |-> ModelVector(old.content)]
          /\ Visible(r) # NoRow
      BY <1>2, <1>3, <1>4, <3>1 DEF Embedded
    <3>3. slotNext = [slot EXCEPT ![r] = [slot[r] EXCEPT !.embedding =
                          ModelVector(slot[r].content)]]
      <4>1. [Visible(r) EXCEPT !.embedding = ModelVector(Visible(r).content)]
               = Visible(r)'
        BY <3>2
      <4> HIDE DEF slot, slotNext
      <4> QED
        BY <2>1, <4>1
    <3>4. Contract(r)!Embed(r)
      BY <2>1, <3>2, <3>3 DEF Contract!Embed, Contract!ModelVector, ModelVector
    <3> QED
      BY <3>4
  <2>3. ASSUME NEW s \in Caller, Commit(s)
        PROVE  Contract(r)!Insert(r) \/ Contract(r)!Write(r) \/ Contract(r)!Delete(r)
    <3>1. CASE new = NoRow
      <4>1. Visible(r) # NoRow /\ Visible(r)' = NoRow
        BY <1>1, <1>2, <1>3, <1>4, <3>1
      <4>2. Contract(r)!Delete(r)
        BY <2>1, <4>1 DEF Contract!Delete
      <4> QED
        BY <4>2
    <3>2. CASE new # NoRow
      <4>1. /\ new \in RecordRow
            /\ \/ new.embedding \in CallerVector \cup {NoVector}
               \/ /\ old # NoRow /\ new.content = old.content
                  /\ new.embedding = old.embedding
        BY <1>1, <2>3, <3>2, CommitSupplies
      <4>2. /\ new.content \in Content /\ new.embedding \in Vector \cup {NoVector}
            /\ Visible(r)' = [content |-> new.content, embedding |-> new.embedding]
        BY <1>3, <1>4, <3>2, <4>1
      <4>3. CASE old = NoRow
        <5>1. Visible(r) = NoRow /\ new.embedding \in CallerVector \cup {NoVector}
          BY <1>3, <4>1, <4>3
        <5>2. Contract(r)!Insert(r)
          <6>1. slotNext = [slot EXCEPT ![r] = [content |-> new.content,
                                                embedding |-> new.embedding]]
            BY <2>1, <4>2
          <6>2. \E c \in Content, e \in CallerVector \cup {NoVector} :
                   slotNext = [slot EXCEPT ![r] = [content |-> c, embedding |-> e]]
            BY <4>2, <5>1, <6>1
          <6> HIDE DEF old, new
          <6> QED
            BY <2>1, <5>1, <6>2 DEF Contract!Insert
        <5> QED
          BY <5>2
      <4>4. CASE old # NoRow
        <5>1. /\ Visible(r) = [content |-> old.content, embedding |-> old.embedding]
              /\ Visible(r) # NoRow
          BY <1>2, <1>3, <1>4, <4>4
        <5>2. \/ new.embedding \in CallerVector \cup {NoVector}
              \/ /\ new.content = slot[r].content
                 /\ new.embedding = slot[r].embedding
          BY <2>1, <4>1, <5>1
        <5>3. Contract(r)!Write(r)
          <6>1. slotNext = [slot EXCEPT ![r] = [content |-> new.content,
                                                embedding |-> new.embedding]]
            BY <2>1, <4>2
          <6>2. Contract(r)!Vector = Vector
            BY DEF Contract!Vector, Vector, Contract!ModelVector, ModelVector
          <6>3. \E c \in Content, e \in Contract(r)!Vector \cup {NoVector} :
                   /\ \/ e \in CallerVector \cup {NoVector}
                      \/ c = slot[r].content /\ e = slot[r].embedding
                   /\ slotNext = [slot EXCEPT ![r] = [content |-> c, embedding |-> e]]
            BY <4>2, <5>2, <6>1, <6>2
          <6> HIDE DEF old, new
          <6> QED
            BY <2>1, <5>1, <6>3 DEF Contract!Write
        <5> QED
          BY <5>3
      <4> QED
        BY <4>3, <4>4
    <3> QED
      BY <3>1, <3>2
  <2> QED
    BY <1>1, <2>2, <2>3, NextKeeps
<1> QED
  BY <1>5 DEF Contract!Next

(* What other sessions see of a record changes as EmbeddingContract says:  *)
(* above all, a vector that a drainer computed is committed only beside    *)
(* the text it was computed from.                                          *)
THEOREM CommitsKeepContract == Spec => KeepsContract
<1>1. IInv /\ [Next]_vars =>
         [\A r \in RecordId : Visible(r)' # Visible(r) => Contract(r)!Next]_vars
  BY StepKeepsContract
<1> QED
  BY <1>1, Invariance, PTL DEF Spec, KeepsContract

-----------------------------------------------------------------------------
(* Sessions in a circle, none of which is at a cascade: callers wait for   *)
(* records, which callers hold; drainers do not wait for each other, but   *)
(* for sweeps.                                                             *)
LEMMA CirclesCascade == IInv => OnlyDeletesTangle
<1> SUFFICES ASSUME IInv, NEW W \in SUBSET Session, Cycle(W),
                    NEW d \in W \cap Drainer, stmt[d].op # "sweep",
                    \A s \in W : stmt[s].op # "cascade"
             PROVE  FALSE
  BY DEF OnlyDeletesTangle
<1>1. /\ W # {} /\ \A s \in W : \E t \in W : Waits(s, t)
      /\ \A V \in SUBSET W : Tangled(V) => V = W
  BY DEF Cycle, Tangled
<1>2. /\ Typed /\ RecordsAreCallers /\ DrainerPlan
      /\ \A s \in Session : s \in Caller \/ s \in Drainer
      /\ \A s \in Session : s # NoOne
      /\ \A s \in Caller : s \notin Drainer
  BY KindsOfRow DEF IInv, Session
(* Whoever waits for a record waits for a caller.                          *)
<1>3. ASSUME NEW s \in W, NEW t \in W, Waits(s, t),
             stmt[s].op \in {"put", "delete", "written"}
      PROVE  t \in Caller
  <2>1. stmt[s].next \in RecordId /\ owner[stmt[s].next] = t
    BY <1>2, <1>3, PlanTypes DEF Waits
  <2> QED
    BY <1>2, <2>1 DEF RecordsAreCallers
<1>4. \A s \in W : s \notin Caller
  <2> DEFINE C == W \cap Caller
  <2>1. ASSUME NEW s \in C PROVE \E t \in C : Waits(s, t)
    <3>1. PICK t \in W : Waits(s, t)
      BY <1>1
    <3>2. stmt[s].op \in {"put", "delete"}
      <4>1. stmt[s].op \in {"none", "put", "delete"}
        BY CallerContext DEF OwnParts
      <4>2. stmt[s] \in Statement /\ stmt[s] # NoStatement
        BY <1>2, <3>1, PlanTypes DEF Waits, Idle
      <4> QED
        BY <4>1, <4>2 DEF Statement
    <3>3. t \in Caller
      BY <1>3, <3>1, <3>2
    <3> QED
      BY <3>1, <3>3
  <2>2. C # {} => Tangled(C)
    BY <2>1 DEF Tangled
  <2>3. C # W
    BY <1>2
  <2> QED
    BY <1>1, <2>2, <2>3
<1>5. ASSUME NEW s \in W, NEW t \in W, Waits(s, t)
      PROVE  stmt[t].op = "sweep"
  <2>1. s \in Drainer /\ t \in Drainer /\ PlanOf(s) /\ PlanOf(t)
    BY <1>2, <1>4 DEF DrainerPlan
  <2>2. ASSUME NEW w \in W PROVE stmt[w].op # "written"
    <3>1. PICK v \in W : Waits(w, v)
      BY <1>1
    <3> QED
      BY <1>3, <1>4, <3>1
  <2>3. stmt[s].op \in {"sweep", "fence", "release", "note"}
    <3>1. stmt[s].op \in {"none", "sweep", "fence", "release", "note"}
      BY <2>1, <2>2 DEF PlanOf
    <3>2. stmt[s] \in Statement /\ stmt[s] # NoStatement
      BY <1>2, <1>5, PlanTypes DEF Waits, Idle
    <3> QED
      BY <3>1, <3>2 DEF Statement
  <2>4. stmt[s].next \in QueueId /\ owner[stmt[s].next] = t
    BY <1>2, <1>5, <2>3, PlanTypes DEF Waits
  <2> QED
    BY <2>1, <2>2, <2>4 DEF PlanOf
<1> DEFINE V == {s \in W : stmt[s].op = "sweep"}
<1>6. \A s \in W : \E t \in V : Waits(s, t)
  BY <1>1, <1>5
<1>7. Tangled(V)
  BY <1>1, <1>6 DEF Tangled
<1>8. V # W
  OBVIOUS
<1> QED
  BY <1>1, <1>7, <1>8

(* A deadlock that a write-back, a refund or a note is part of has a       *)
(* delete's cascade in it.                                                 *)
THEOREM OnlyCascadesTangle == Spec => []OnlyDeletesTangle
  BY CirclesCascade, Invariance, PTL
=============================================================================
