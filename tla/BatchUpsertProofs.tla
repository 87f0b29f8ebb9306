------------------------- MODULE BatchUpsertProofs -------------------------
(***************************************************************************)
(* upsertMany for any number of calls, of any batches, beside deletes,     *)
(* renames and drainers: a text that a call leaves alone keeps its vector, *)
(* and what a call answers is what it commits, unless its batch has both a *)
(* record with a name and one with only an id (see RejectionWritesNothing: *)
(* then the two may turn out to be one record).                            *)
(***************************************************************************)
EXTENDS BatchUpsert, TLAPS

-----------------------------------------------------------------------------
(* The inductive invariant.                                                *)

(* No batch has both a record with a name and one with only an id.         *)
Unmixed ==
    \A b \in Batches : \A i, j \in b : Named(i) /\ ~Named(j) => j.id = NoId

Domains ==
    /\ DOMAIN table = RecordId
    /\ DOMAIN pc = Call /\ DOMAIN batch = Call /\ DOMAIN mode = Call
    /\ DOMAIN done = Call /\ DOMAIN own = Call /\ DOMAIN locked = Call
    /\ DOMAIN answer = Call

Types(c) ==
    /\ pc[c] \in {"idle", "probe", "mutate", "resolve", "commit"}
    /\ pc[c] # "idle" => batch[c] \in Batches /\ mode[c] \in Modes /\ ~RepeatsKey(batch[c])
    /\ pc[c] \in {"idle", "probe"} =>
          done[c] = {} /\ DOMAIN own[c] = {} /\ locked[c] = {}
    /\ done[c] \subseteq Outcome
    /\ DOMAIN own[c] \subseteq locked[c] /\ locked[c] \subseteq RecordId
    /\ \A r \in DOMAIN own[c] : own[c][r] \in Row

(* A call's locks are its own. *)
LocksExclude == \A c, d \in Call : c # d => locked[c] \cap locked[d] = {}

(* A text that stays keeps its vector. *)
Keeps(old, new) ==
    old.content = new.content /\ old.vector # NoVector => new.vector # NoVector

OwnKeeps(c) ==
    \A r \in DOMAIN own[c] : table[r] # NoRow => Keeps(table[r], own[c][r])

VInv ==
    /\ Domains
    /\ \A r \in RecordId : table[r] \in Row \cup {NoRow}
    /\ \A c \in Call : Types(c) /\ OwnKeeps(c)
    /\ LocksExclude

-----------------------------------------------------------------------------
(* Names. *)
Clash(row, other) == row.slot = other.slot /\ row.slot # NoSlot

StoredNames ==
    \A r, s \in RecordId :
        r # s /\ table[r] # NoRow /\ table[s] # NoRow => ~Clash(table[r], table[s])

OwnNames ==
    \A c \in Call : \A r \in DOMAIN own[c] : \A s \in RecordId :
        r # s /\ table[s] # NoRow => ~Clash(own[c][r], table[s])

NewNames ==
    \A c, d \in Call : \A r \in DOMAIN own[c] : \A s \in DOMAIN own[d] :
        r # s => ~Clash(own[c][r], own[d][s])

(* Only an input with nothing but an id takes a name away. *)
MovesById(c) ==
    \A r \in DOMAIN own[c] :
        table[r] # NoRow /\ own[c][r].slot # table[r].slot =>
            \E i \in batch[c] : ~Named(i) /\ i.id # NoId

(* What has been done for an input of the call. *)
Changed(c, o) ==
    /\ o.id \in DOMAIN own[c]
    /\ own[c][o.id].slot = o.input.slot
    /\ own[c][o.id].content = o.input.content /\ own[c][o.id].meta = o.input.meta
    /\ ~Named(o.input) => o.input.id \in {o.id, NoId}
    /\ o.status = "inserted" => table[o.id] = NoRow
    /\ o.status = "updated" =>
          mode[c] = "replace" /\ table[o.id] # NoRow /\ own[c][o.id] # table[o.id]

Holds(r, i) == IF Named(i) THEN table[r].slot = i.slot ELSE r = i.id

Found(c, o, r) ==
    /\ r \in locked[c] \ DOMAIN own[c] /\ table[r] # NoRow
    /\ Holds(r, o.input)
    /\ mode[c] = "replace" =>
          table[r].content = o.input.content /\ table[r].meta = o.input.meta
    /\ pc[c] = "commit" => o.id = r

Handled(c, o) ==
    /\ o.input \in batch[c]
    /\ o.status # "skipped" => Changed(c, o)
    /\ o.status = "skipped" =>
          /\ \E r \in RecordId : Found(c, o, r)
          /\ pc[c] \in {"resolve", "commit"} => mode[c] # "error"

Works(c) ==
    /\ \A o \in done[c] : Handled(c, o)
    /\ \A o, p \in done[c] : o.input = p.input => o = p
    /\ \A o, p \in done[c] :
          o.status # "skipped" /\ p.status # "skipped" /\ o.id = p.id => o = p
    /\ pc[c] \in {"resolve", "commit"} => Waiting(c) = {}
    /\ MovesById(c)

IInv ==
    /\ VInv
    /\ Unmixed =>
          /\ StoredNames /\ OwnNames /\ NewNames
          /\ \A c \in Call : Works(c)

-----------------------------------------------------------------------------
(* A step of one call leaves the others alone.                             *)

Same(d) ==
    /\ pc'[d] = pc[d] /\ batch'[d] = batch[d] /\ mode'[d] = mode[d]
    /\ done'[d] = done[d] /\ own'[d] = own[d] /\ locked'[d] = locked[d]

Steps(c) == Domains' /\ \A d \in Call \ {c} : Same(d)

LEMMA SameTypes ==
  ASSUME NEW d \in Call, Same(d), Types(d), OwnKeeps(d),
         \A r \in locked[d] : table'[r] = table[r]
  PROVE  Types(d)' /\ OwnKeeps(d)'
<1>1. Types(d)'
  BY DEF Same, Types, RepeatsKey
<1>2. OwnKeeps(d)'
  <2> SUFFICES ASSUME NEW r \in DOMAIN own[d], table[r] # NoRow
               PROVE  Keeps(table[r], own[d][r])
    BY DEF Same, Types, OwnKeeps, Keeps
  <2> QED
    BY DEF OwnKeeps
<1> QED
  BY <1>1, <1>2

LEMMA SameWorks ==
  ASSUME NEW d \in Call, Same(d), Types(d), Works(d),
         \A r \in locked[d] : table'[r] = table[r]
  PROVE  Works(d)'
<1>0. DOMAIN own[d] \subseteq locked[d] /\ own'[d] = own[d] /\ pc'[d] = pc[d]
      /\ locked'[d] = locked[d] /\ done'[d] = done[d] /\ batch'[d] = batch[d] /\ mode'[d] = mode[d]
  BY DEF Same, Types
<1>1. ASSUME NEW o, Changed(d, o)
      PROVE  Changed(d, o)'
  <2>1. o.id \in DOMAIN own[d] /\ table'[o.id] = table[o.id]
    BY <1>0, <1>1 DEF Changed
  <2> QED
    BY <2>1, <1>0, <1>1 DEF Changed
<1>2. ASSUME NEW o, NEW r \in RecordId, Found(d, o, r)
      PROVE  Found(d, o, r)'
  <2>1. r \in locked[d] /\ table'[r] = table[r]
    BY <1>2 DEF Found
  <2> QED
    BY <2>1, <1>0, <1>2 DEF Found, Holds
<1>3. ASSUME NEW o \in done'[d]
      PROVE  Handled(d, o)'
  <2>1. Handled(d, o)
    BY <1>0, <1>3 DEF Works
  <2>2. o.status = "skipped" => \E r \in RecordId : Found(d, o, r)'
    BY <2>1, <1>2 DEF Handled
  <2> QED
    BY <2>1, <2>2, <1>0, <1>1 DEF Handled
<1>4. MovesById(d)'
  <2> SUFFICES ASSUME NEW r \in DOMAIN own[d], table[r] # NoRow, own[d][r].slot # table[r].slot
               PROVE  \E i \in batch[d] : ~Named(i) /\ i.id # NoId
    BY <1>0 DEF MovesById
  <2> QED
    BY DEF Works, MovesById
<1> QED
  BY <1>0, <1>3, <1>4 DEF Works, Waiting

(* A call that changes nothing outside its own memory.                     *)
LEMMA CallKeepsVInv ==
  ASSUME VInv, NEW c \in Call, Steps(c), UNCHANGED table,
         Types(c)', OwnKeeps(c)',
         \A r \in locked'[c] \ locked[c] : ~BusyFor(c, r)
  PROVE  VInv'
<1>1. ASSUME NEW d \in Call
      PROVE  Types(d)' /\ OwnKeeps(d)'
  <2>1. CASE d = c
    BY <2>1
  <2>2. CASE d # c
    BY <2>2, SameTypes DEF Steps, VInv
  <2> QED
    BY <2>1, <2>2
<1>2. LocksExclude'
  <2> SUFFICES ASSUME NEW d \in Call, NEW e \in Call, d # e,
                      NEW r \in locked'[d], r \in locked'[e]
               PROVE  FALSE
    BY DEF LocksExclude
  <2>1. CASE d # c /\ e # c
    BY <2>1 DEF Steps, Same, VInv, LocksExclude
  <2>2. CASE d = c
    BY <2>2 DEF Steps, Same, VInv, LocksExclude, BusyFor
  <2>3. CASE e = c
    BY <2>3 DEF Steps, Same, VInv, LocksExclude, BusyFor
  <2> QED
    BY <2>1, <2>2, <2>3
<1> QED
  BY <1>1, <1>2 DEF VInv, Steps

LEMMA CallKeepsWorks ==
  ASSUME VInv, NEW c \in Call, Steps(c), UNCHANGED table,
         \A d \in Call : Works(d), Works(c)'
  PROVE  \A d \in Call : Works(d)'
<1> TAKE d \in Call
<1>1. CASE d = c
  BY <1>1
<1>2. CASE d # c
  BY <1>2, SameWorks DEF Steps, VInv
<1> QED
  BY <1>1, <1>2

(* Names stay apart if the call's rows do not change.                      *)
LEMMA SameNames ==
  ASSUME NEW c \in Call, Steps(c), UNCHANGED table,
         own'[c] = own[c] \/ DOMAIN own'[c] = {},
         StoredNames, OwnNames, NewNames
  PROVE  StoredNames' /\ OwnNames' /\ NewNames'
<1>1. ASSUME NEW d \in Call, NEW r \in DOMAIN own'[d]
      PROVE  r \in DOMAIN own[d] /\ own'[d][r] = own[d][r]
  BY <1>1 DEF Steps, Same
<1>2. StoredNames'
  BY DEF StoredNames, Clash
<1>3. OwnNames'
  BY <1>1 DEF OwnNames, Clash
<1>4. NewNames'
  BY <1>1 DEF NewNames, Clash
<1> QED
  BY <1>2, <1>3, <1>4

(* The call ends without a commit.                                         *)
LEMMA ReplySteps ==
  ASSUME Domains, Domains', NEW c \in Call, NEW told, NEW wrote, Reply(c, told, wrote)
  PROVE  /\ Steps(c) /\ pc'[c] = "idle"
         /\ DOMAIN own'[c] = {} /\ locked'[c] = {} /\ done'[c] = {}
BY DEF Domains, Steps, Same, Reply, Nothing

LEMMA ReplyDomains ==
  ASSUME Domains, NEW c \in Call, NEW told, NEW wrote, Reply(c, told, wrote), DOMAIN table' = RecordId
  PROVE  Domains'
BY DEF Domains, Reply

LEMMA ReplyTypes ==
  ASSUME NEW c \in Call, pc'[c] = "idle", DOMAIN own'[c] = {}, locked'[c] = {}, done'[c] = {}
  PROVE  Types(c)' /\ OwnKeeps(c)' /\ Works(c)'
BY DEF Types, OwnKeeps, Works, MovesById

LEMMA ReplyKeeps ==
  ASSUME IInv, NEW c \in Call, NEW told, NEW wrote, Reply(c, told, wrote), UNCHANGED table
  PROVE  IInv'
<1>1. Domains /\ Domains' /\ VInv
  BY ReplyDomains DEF IInv, VInv, Domains
<1>2. /\ Steps(c) /\ pc'[c] = "idle"
      /\ DOMAIN own'[c] = {} /\ locked'[c] = {} /\ done'[c] = {}
  BY <1>1, ReplySteps
<1>3. Types(c)' /\ OwnKeeps(c)' /\ Works(c)'
  BY <1>2, ReplyTypes
<1>4. VInv'
  BY <1>1, <1>2, <1>3, CallKeepsVInv
<1>5. ASSUME Unmixed
      PROVE  StoredNames' /\ OwnNames' /\ NewNames' /\ \A d \in Call : Works(d)'
  BY <1>5, <1>1, <1>2, <1>3, SameNames, CallKeepsWorks DEF IInv
<1> QED
  BY <1>4, <1>5 DEF IInv, Unmixed, Named

-----------------------------------------------------------------------------
(* The statements of a call.                                               *)

LEMMA InitIInv == Init => IInv
<1> SUFFICES ASSUME Init
             PROVE  IInv
  OBVIOUS
<1>1. VInv
  BY DEF Init, VInv, Domains, Types, OwnKeeps, LocksExclude, Nothing
<1>2. ASSUME NEW c \in Call
      PROVE  Works(c)
  BY DEF Init, Works, MovesById, Nothing
<1>3. StoredNames /\ OwnNames /\ NewNames
  BY DEF Init, StoredNames, OwnNames, NewNames, Nothing
<1> QED
  BY <1>1, <1>2, <1>3 DEF IInv

LEMMA StartKeeps ==
  ASSUME IInv, NEW c \in Call, Start(c)
  PROVE  IInv'
<1>1. VInv /\ Domains /\ Types(c)
  BY DEF IInv, VInv
<1>2. PICK b \in Batches, m \in Modes :
          /\ ~RepeatsKey(b)
          /\ batch' = [batch EXCEPT ![c] = b] /\ mode' = [mode EXCEPT ![c] = m]
  BY DEF Start
<1>3. Steps(c) /\ pc'[c] = "probe" /\ batch'[c] = b /\ mode'[c] = m
      /\ own'[c] = own[c] /\ done'[c] = done[c] /\ locked'[c] = locked[c]
      /\ DOMAIN own[c] = {} /\ done[c] = {} /\ locked[c] = {}
  BY <1>1, <1>2 DEF Start, Steps, Same, Domains, Types
<1>4. Types(c)' /\ OwnKeeps(c)' /\ Works(c)'
  <2>1. ~RepeatsKey(batch'[c])
    BY <1>2, <1>3
  <2> QED
    BY <2>1, <1>3 DEF Types, OwnKeeps, Works, MovesById, RepeatsKey
<1>5. UNCHANGED table
  BY DEF Start
<1>6. VInv'
  BY <1>1, <1>3, <1>4, <1>5, CallKeepsVInv
<1>7. ASSUME Unmixed
      PROVE  StoredNames' /\ OwnNames' /\ NewNames' /\ \A d \in Call : Works(d)'
  BY <1>7, <1>1, <1>3, <1>4, <1>5, SameNames, CallKeepsWorks DEF IInv
<1> QED
  BY <1>6, <1>7 DEF IInv, Unmixed, Named

LEMMA ProbeKeeps ==
  ASSUME IInv, NEW c \in Call, Probe(c)
  PROVE  IInv'
<1>0. UNCHANGED table
  BY DEF Probe
<1>1. CASE Aliased(batch[c])
  BY <1>0, <1>1, ReplyKeeps DEF Probe
<1>2. CASE ~Aliased(batch[c])
  <2>1. VInv /\ Domains /\ Types(c)
    BY DEF IInv, VInv
  <2>2. Steps(c) /\ pc[c] = "probe" /\ pc'[c] = "mutate" /\ UNCHANGED <<batch, mode, done, own, locked>>
    BY <1>2, <2>1 DEF Probe, Steps, Same, Domains
  <2>3. Types(c)' /\ OwnKeeps(c)' /\ Works(c)'
    BY <2>1, <2>2 DEF Types, OwnKeeps, Works, MovesById, RepeatsKey
  <2>4. VInv'
    BY <2>1, <2>2, <2>3, <1>0, CallKeepsVInv
  <2>5. ASSUME Unmixed
        PROVE  StoredNames' /\ OwnNames' /\ NewNames' /\ \A d \in Call : Works(d)'
    BY <2>5, <2>1, <2>2, <2>3, <1>0, SameNames, CallKeepsWorks DEF IInv
  <2> QED
    BY <2>4, <2>5 DEF IInv, Unmixed, Named
<1> QED
  BY <1>1, <1>2

LEMMA MutationEndsKeeps ==
  ASSUME IInv, NEW c \in Call, MutationEnds(c)
  PROVE  IInv'
<1> DEFINE Fails == mode[c] = "error" /\ \E o \in done[c] : o.status = "skipped"
<1>0. UNCHANGED table
  BY DEF MutationEnds
<1>1. CASE Fails
  BY <1>0, <1>1, ReplyKeeps DEF MutationEnds
<1>2. CASE ~Fails
  <2>1. VInv /\ Domains /\ Types(c)
    BY DEF IInv, VInv
  <2>2. Steps(c) /\ pc[c] = "mutate" /\ pc'[c] = "resolve" /\ UNCHANGED <<batch, mode, done, own, locked>>
    BY <1>2, <2>1 DEF MutationEnds, Steps, Same, Domains
  <2>3. Types(c)' /\ OwnKeeps(c)'
    <3>1. OwnKeeps(c)
      BY DEF IInv, VInv
    <3> QED
      BY <1>0, <2>1, <2>2, <3>1 DEF Types, OwnKeeps, RepeatsKey, Keeps
  <2>4. VInv'
    BY <2>1, <2>2, <2>3, <1>0, CallKeepsVInv
  <2>5. ASSUME Works(c)
        PROVE  Works(c)'
    <3>1. ASSUME NEW o \in done[c]
          PROVE  Handled(c, o)'
      <4>1. Handled(c, o)
        BY <2>5 DEF Works
      <4>2. Changed(c, o) => Changed(c, o)'
        BY <1>0, <2>2 DEF Changed
      <4>3. ASSUME NEW r \in RecordId, Found(c, o, r)
            PROVE  Found(c, o, r)'
        BY <1>0, <2>2, <4>3 DEF Found, Holds
      <4>4. (\E r \in RecordId : Found(c, o, r)) => \E r \in RecordId : Found(c, o, r)'
        BY <4>3
      <4> QED
        BY <4>1, <4>2, <4>4, <1>2, <2>2 DEF Handled
    <3>2. MovesById(c)'
      BY <1>0, <2>2, <2>5 DEF Works, MovesById
    <3> QED
      BY <3>1, <3>2, <2>2, <2>5 DEF Works, Waiting, MutationEnds
  <2>6. ASSUME Unmixed
        PROVE  StoredNames' /\ OwnNames' /\ NewNames' /\ \A d \in Call : Works(d)'
    BY <2>6, <2>1, <2>2, <2>5, <1>0, SameNames, CallKeepsWorks DEF IInv
  <2> QED
    BY <2>4, <2>6 DEF IInv, Unmixed, Named
<1> QED
  BY <1>1, <1>2

LEMMA RollbackKeeps ==
  ASSUME IInv, NEW c \in Call, Rollback(c)
  PROVE  IInv'
BY ReplyKeeps DEF Rollback

LEMMA MutateRaisesKeeps ==
  ASSUME IInv, NEW c \in Call, NEW i, MutateRaises(c, i)
  PROVE  IInv'
BY ReplyKeeps DEF MutateRaises

(* A skipped name is found where it was when its row was locked.           *)
LEMMA ResolvedIsFound ==
  ASSUME VInv, StoredNames, OwnNames, NEW c \in Call, NEW o, o.status = "skipped",
         NEW r \in RecordId, Found(c, o, r)
  PROVE  StoredId(c, o.input) = r
<1>1. CASE ~Named(o.input)
  BY <1>1 DEF StoredId, Found, Holds
<1>2. CASE Named(o.input)
  <2> DEFINE P(s) == Sees(c, s) # NoRow /\ Sees(c, s).slot = o.input.slot
  <2>1. P(r)
    BY <1>2 DEF Found, Holds, Sees
  <2>2. ASSUME NEW s \in RecordId, P(s)
        PROVE  s = r
    <3> SUFFICES ASSUME s # r
                 PROVE  FALSE
      OBVIOUS
    <3>1. table[r] # NoRow /\ table[r].slot = o.input.slot /\ o.input.slot # NoSlot
      BY <1>2 DEF Found, Holds, Named
    <3>2. CASE s \in DOMAIN own[c]
      BY <2>2, <3>1, <3>2 DEF OwnNames, Clash, Sees
    <3>3. CASE s \notin DOMAIN own[c]
      BY <2>2, <3>1, <3>3 DEF StoredNames, Clash, Sees
    <3> QED
      BY <3>2, <3>3
  <2>3. StoredId(c, o.input) = CHOOSE s \in RecordId : P(s)
    BY <1>2, <2>1 DEF StoredId
  <2> HIDE DEF P
  <2>4. \E s \in RecordId : P(s)
    BY <2>1
  <2>5. (CHOOSE s \in RecordId : P(s)) \in RecordId /\ P(CHOOSE s \in RecordId : P(s))
    BY <2>4
  <2> QED
    BY <2>2, <2>3, <2>5
<1> QED
  BY <1>1, <1>2

LEMMA ResolveKeeps ==
  ASSUME IInv, NEW c \in Call, Resolve(c)
  PROVE  IInv'
<1> DEFINE After(o) == IF o.status = "skipped" THEN [o EXCEPT !.id = StoredId(c, o.input)] ELSE o
<1>1. VInv /\ Domains /\ Types(c) /\ OwnKeeps(c)
  BY DEF IInv, VInv
<1>2. /\ Steps(c) /\ pc[c] = "resolve" /\ pc'[c] = "commit"
      /\ done'[c] = {After(o) : o \in done[c]}
      /\ UNCHANGED <<table, batch, mode, own, locked>>
  BY <1>1 DEF Resolve, Steps, Same, Domains
<1>3. ASSUME NEW o \in done[c]
      PROVE  /\ After(o) \in Outcome /\ o \in Outcome
             /\ After(o).input = o.input /\ After(o).status = o.status
             /\ o.status = "skipped" => After(o).id = StoredId(c, o.input)
             /\ o.status # "skipped" => After(o) = o
  <2>1. o \in Outcome
    BY <1>1 DEF Types
  <2>2. StoredId(c, o.input) \in RecordId \cup {NoId}
    <3>1. o.input \in Input
      BY <2>1 DEF Outcome
    <3>2. CASE ~Named(o.input)
      BY <3>1, <3>2 DEF StoredId, Input
    <3>3. CASE Named(o.input)
      BY <3>3 DEF StoredId
    <3> QED
      BY <3>2, <3>3
  <2> QED
    BY <2>1, <2>2 DEF Outcome
<1> HIDE DEF After
<1>4. Types(c)' /\ OwnKeeps(c)'
  <2>1. done'[c] \subseteq Outcome
    BY <1>2, <1>3
  <2> QED
    BY <1>1, <1>2, <2>1 DEF Types, OwnKeeps, RepeatsKey, Keeps
<1>5. VInv'
  BY <1>1, <1>2, <1>4, CallKeepsVInv
<1>6. ASSUME Works(c), StoredNames, OwnNames
      PROVE  Works(c)'
  <2>1. ASSUME NEW p \in done'[c]
        PROVE  Handled(c, p)'
    <3>0. PICK o \in done[c] : p = After(o)
      BY <1>2
    <3>1. Handled(c, o)
      BY <1>6 DEF Works
    <3>2. CASE o.status # "skipped"
      <4>1. Changed(c, o)'
        BY <1>2, <3>1, <3>2 DEF Handled, Changed
      <4> QED
        BY <1>2, <1>3, <3>0, <3>1, <3>2, <4>1 DEF Handled
    <3>3. CASE o.status = "skipped"
      <4>1. PICK r \in RecordId : Found(c, o, r)
        BY <3>1, <3>3 DEF Handled
      <4>2. p.id = r /\ p.input = o.input /\ p.status = "skipped"
        BY <3>0, <1>1, <1>3, <1>6, <3>3, <4>1, ResolvedIsFound
      <4>3. Found(c, p, r)'
        BY <1>2, <4>1, <4>2 DEF Found, Holds
      <4> QED
        BY <1>2, <3>1, <3>3, <4>2, <4>3 DEF Handled
    <3> QED
      BY <3>2, <3>3
  <2>2. \A o \in done'[c] : Handled(c, o)'
    BY <2>1
  <2>3. \A o, p \in done'[c] : o.input = p.input => o = p
    BY <1>2, <1>3, <1>6 DEF Works
  <2>4. \A o, p \in done'[c] :
          o.status # "skipped" /\ p.status # "skipped" /\ o.id = p.id => o = p
    BY <1>2, <1>3, <1>6 DEF Works
  <2>5. Waiting(c)' = {}
    BY <1>2, <1>3, <1>6 DEF Works, Waiting
  <2>6. MovesById(c)'
    BY <1>2, <1>6 DEF Works, MovesById
  <2> QED
    BY <2>2, <2>3, <2>4, <2>5, <2>6 DEF Works
<1>7. ASSUME Unmixed
      PROVE  StoredNames' /\ OwnNames' /\ NewNames' /\ \A d \in Call : Works(d)'
  BY <1>7, <1>1, <1>2, <1>6, SameNames, CallKeepsWorks DEF IInv
<1> QED
  BY <1>5, <1>7 DEF IInv, Unmixed, Named

LEMMA CommitKeeps ==
  ASSUME IInv, NEW c \in Call, Commit(c)
  PROVE  IInv'
<1>1. VInv /\ Domains /\ Types(c) /\ (\A r \in RecordId : table[r] \in Row \cup {NoRow})
  BY DEF IInv, VInv
<1>2. DOMAIN table' = RecordId /\ \A r \in RecordId : table'[r] = Sees(c, r)
  BY DEF Commit
<1>3. Domains' /\ Steps(c) /\ pc'[c] = "idle"
      /\ DOMAIN own'[c] = {} /\ locked'[c] = {} /\ done'[c] = {}
  <2>1. Domains'
    BY <1>1, <1>2, ReplyDomains DEF Commit
  <2> QED
    BY <1>1, <2>1, ReplySteps DEF Commit
<1>4. Types(c)' /\ OwnKeeps(c)' /\ Works(c)'
  BY <1>3, ReplyTypes
<1>5. ASSUME NEW d \in Call, d # c, NEW r \in locked[d]
      PROVE  table'[r] = table[r]
  <2>1. r \in RecordId /\ r \notin DOMAIN own[c]
    BY <1>1, <1>5 DEF VInv, Types, LocksExclude
  <2> QED
    BY <1>2, <2>1 DEF Sees
<1>6. \A d \in Call : Types(d)' /\ OwnKeeps(d)'
  <2> TAKE d \in Call
  <2>1. CASE d = c
    BY <1>4, <2>1
  <2>2. CASE d # c
    <3>1. Same(d) /\ Types(d) /\ OwnKeeps(d)
      BY <1>1, <1>3, <2>2 DEF Steps, VInv
    <3> QED
      BY <3>1, <1>5, <2>2, SameTypes
  <2> QED
    BY <2>1, <2>2
<1>7. VInv'
  <2>1. \A r \in RecordId : table'[r] \in Row \cup {NoRow}
    BY <1>1, <1>2 DEF Sees, Types
  <2>2. LocksExclude'
    BY <1>1, <1>3 DEF VInv, LocksExclude, Steps, Same
  <2> QED
    BY <1>3, <1>6, <2>1, <2>2 DEF VInv
<1>8. ASSUME Unmixed
      PROVE  StoredNames' /\ OwnNames' /\ NewNames' /\ \A d \in Call : Works(d)'
  <2>1. StoredNames /\ OwnNames /\ NewNames /\ \A d \in Call : Works(d)
    BY <1>8 DEF IInv
  <2>2. ASSUME NEW d \in Call, NEW r \in DOMAIN own'[d]
        PROVE  r \in DOMAIN own[d] /\ own'[d][r] = own[d][r] /\ d # c
    BY <1>3, <2>2 DEF Steps, Same
  <2>3. StoredNames'
    <3> SUFFICES ASSUME NEW r \in RecordId, NEW s \in RecordId, r # s,
                        Sees(c, r) # NoRow, Sees(c, s) # NoRow
                 PROVE  ~Clash(Sees(c, r), Sees(c, s))
      BY <1>2 DEF StoredNames, Clash
    <3> QED
      BY <2>1 DEF StoredNames, OwnNames, NewNames, Clash, Sees
  <2>4. OwnNames'
    <3> SUFFICES ASSUME NEW d \in Call, NEW r \in DOMAIN own'[d], NEW s \in RecordId, r # s,
                        Sees(c, s) # NoRow
                 PROVE  ~Clash(own[d][r], Sees(c, s))
      BY <1>2, <2>2 DEF OwnNames, Clash
    <3> QED
      BY <2>1, <2>2 DEF OwnNames, NewNames, Clash, Sees
  <2>5. NewNames'
    BY <2>1, <2>2 DEF NewNames, Clash
  <2>6. \A d \in Call : Works(d)'
    <3> TAKE d \in Call
    <3>1. CASE d = c
      BY <1>4, <3>1
    <3>2. CASE d # c
      <4>1. Same(d) /\ Types(d) /\ Works(d)
        BY <1>1, <1>3, <2>1, <3>2 DEF Steps, VInv
      <4> QED
        BY <4>1, <1>5, <3>2, SameWorks
    <3> QED
      BY <3>1, <3>2
  <2> QED
    BY <2>3, <2>4, <2>5, <2>6
<1> QED
  BY <1>7, <1>8 DEF IInv, Unmixed, Named

-----------------------------------------------------------------------------
(* Everybody else.                                                         *)

LEMMA WriteKeeps ==
  ASSUME IInv, NEW r \in RecordId, NEW row \in Row \cup {NoRow}, Write(r, row),
         row # NoRow => \/ row.slot \in {table[r].slot, NoSlot}
                        \/ Free(row.slot)
  PROVE  IInv'
<1>1. VInv /\ Domains /\ (\A s \in RecordId : table[s] \in Row \cup {NoRow})
  BY DEF IInv, VInv
<1>2. DOMAIN table' = RecordId /\ table'[r] = row /\ (\A s \in RecordId : s # r => table'[s] = table[s])
      /\ table[r] # NoRow
  BY <1>1 DEF Write, Domains
<1>3. Domains' /\ (\A d \in Call : Same(d)) /\ UNCHANGED own /\ UNCHANGED locked
  BY <1>1, <1>2 DEF Write, Same, Domains
<1>4. ASSUME NEW d \in Call, NEW s \in locked[d]
      PROVE  table'[s] = table[s]
  <2>1. s \in RecordId /\ s # r
    BY <1>1, <1>4 DEF Write, Busy, VInv, Types
  <2> QED
    BY <1>2, <2>1
<1>5. VInv'
  <2>1. \A d \in Call : Types(d)' /\ OwnKeeps(d)'
    BY <1>1, <1>3, <1>4, SameTypes DEF VInv
  <2>2. LocksExclude'
    BY <1>1, <1>3 DEF VInv, LocksExclude
  <2>3. \A s \in RecordId : table'[s] \in Row \cup {NoRow}
    BY <1>1, <1>2
  <2> QED
    BY <1>3, <2>1, <2>2, <2>3 DEF VInv
<1>6. ASSUME Unmixed
      PROVE  StoredNames' /\ OwnNames' /\ NewNames' /\ \A d \in Call : Works(d)'
  <2>1. StoredNames /\ OwnNames /\ NewNames /\ \A d \in Call : Works(d)
    BY <1>6 DEF IInv
  <2>2. ASSUME row # NoRow, row.slot # NoSlot
        PROVE  /\ \A s \in RecordId : s # r /\ table[s] # NoRow => table[s].slot # row.slot
               /\ \A d \in Call : \A s \in DOMAIN own[d] : s # r => own[d][s].slot # row.slot
    <3>1. CASE row.slot = table[r].slot
      BY <1>2, <2>1, <2>2, <3>1 DEF StoredNames, OwnNames, Clash
    <3>2. CASE Free(row.slot)
      BY <3>2 DEF Free
    <3> QED
      BY <2>2, <3>1, <3>2
  <2>3. StoredNames'
    BY <1>2, <2>1, <2>2 DEF StoredNames, Clash
  <2>4. OwnNames'
    BY <1>2, <1>3, <2>1, <2>2 DEF OwnNames, Clash
  <2>5. NewNames'
    BY <1>3, <2>1 DEF NewNames, Clash
  <2>6. \A d \in Call : Works(d)'
    BY <1>1, <1>3, <1>4, <2>1, SameWorks DEF VInv
  <2> QED
    BY <2>3, <2>4, <2>5, <2>6
<1> QED
  BY <1>5, <1>6 DEF IInv, Unmixed, Named

LEMMA OthersKeep ==
  ASSUME IInv, NEW r \in RecordId, Delete(r) \/ Rename(r) \/ Embed(r)
  PROVE  IInv'
<1>1. table[r] \in Row \cup {NoRow}
  BY DEF IInv, VInv
<1>2. CASE Delete(r)
  BY <1>2, WriteKeeps DEF Delete
<1>3. CASE Rename(r)
  <2>1. PICK k \in Slot \cup {NoSlot} :
           (k # NoSlot => Free(k)) /\ Write(r, [table[r] EXCEPT !.slot = k])
    BY <1>3 DEF Rename
  <2>2. table[r] \in Row
    BY <1>1, <2>1 DEF Write
  <2>3. [table[r] EXCEPT !.slot = k] \in Row /\ [table[r] EXCEPT !.slot = k].slot = k
    BY <2>2 DEF Row
  <2> QED
    BY <2>1, <2>3, WriteKeeps
<1>4. CASE Embed(r)
  <2>1. table[r] \in Row
    BY <1>1, <1>4 DEF Embed
  <2>2. /\ [table[r] EXCEPT !.vector = ModelVector] \in Row
        /\ [table[r] EXCEPT !.vector = ModelVector].slot = table[r].slot
    BY <2>1 DEF Row
  <2> QED
    BY <1>4, <2>2, WriteKeeps DEF Embed
<1> QED
  BY <1>2, <1>3, <1>4

-----------------------------------------------------------------------------
(* The mutation, row by row.                                               *)

At(c, i) == pc[c] = "mutate" /\ i \in batch[c] /\ IsNext(c, i) /\ ~Blocked(c, i)

LEMMA Inputs ==
  ASSUME VInv, NEW c \in Call, NEW i, At(c, i)
  PROVE  i \in Input /\ i.id \in RecordId \cup {NoId} /\ i.vector \in Vector \cup {NoVector}
         /\ \A o \in done[c] : o.input # i
<1>1. batch[c] \in Batches
  BY DEF VInv, Types, At
<1>2. i \in Input
  BY <1>1, Assumptions DEF At
<1> QED
  BY <1>2 DEF Input, At, IsNext, Waiting

(* Two inputs of one batch do not lead to one row. *)
LEMMA OneInputPerRow ==
  ASSUME VInv, Unmixed, NEW c \in Call, NEW i, At(c, i), NEW o \in done[c],
         o.input \in batch[c], NEW r \in RecordId, Found(c, o, r), Holds(r, i)
  PROVE  FALSE
<1>1. batch[c] \in Batches /\ ~RepeatsKey(batch[c]) /\ i \in batch[c] /\ o.input # i
  BY Inputs DEF At, VInv, Types
<1>2. Holds(r, o.input)
  BY DEF Found
<1>3. CASE Named(i) /\ Named(o.input)
  BY <1>1, <1>2, <1>3 DEF Holds, RepeatsKey
<1>4. CASE ~Named(i) /\ ~Named(o.input)
  BY <1>1, <1>2, <1>4, Assumptions DEF Holds, RepeatsKey
<1>5. CASE Named(i) /\ ~Named(o.input)
  BY <1>1, <1>2, <1>5, Assumptions DEF Holds, Unmixed
<1>6. CASE ~Named(i) /\ Named(o.input)
  BY <1>1, <1>2, <1>6, Assumptions DEF Holds, Unmixed
<1> QED
  BY <1>3, <1>4, <1>5, <1>6

LEMMA SkipKeeps ==
  ASSUME IInv, NEW c \in Call, NEW i, At(c, i), NEW r \in Target(c, i) \ DOMAIN own[c],
         Skip(c, i, r), UNCHANGED <<table, pc, batch, mode>>, UNCHANGED answer
  PROVE  IInv'
<1> DEFINE new == [input |-> i, status |-> "skipped", id |-> NoId]
<1>1. VInv /\ Domains /\ Types(c) /\ OwnKeeps(c)
  BY DEF IInv, VInv
<1>2. r \in RecordId /\ r \notin DOMAIN own[c] /\ table[r] # NoRow /\ Holds(r, i)
      /\ ~BusyFor(c, r)
  BY DEF Target, Sees, Holds, Blocked, At
<1>3. i \in Input /\ new \in Outcome /\ \A o \in done[c] : o.input # i
  BY <1>1, Inputs DEF Outcome, Status
<1>4. /\ Steps(c) /\ UNCHANGED own
      /\ done'[c] = done[c] \cup {new}
      /\ locked'[c] = locked[c] \cup {r}
  BY <1>1 DEF Skip, Note, Steps, Same, Domains
<1>5. Types(c)' /\ OwnKeeps(c)'
  <2>1. Types(c)'
    BY <1>1, <1>2, <1>3, <1>4 DEF Types, RepeatsKey, At
  <2>2. OwnKeeps(c)'
    BY <1>1, <1>4 DEF OwnKeeps, Keeps
  <2> QED
    BY <2>1, <2>2
<1>6. VInv'
  BY <1>1, <1>2, <1>4, <1>5, CallKeepsVInv
<1>7. ASSUME Works(c)
      PROVE  Works(c)'
  <2>1. ASSUME NEW o \in done[c]
        PROVE  Handled(c, o)'
    <3>1. Handled(c, o)
      BY <1>7 DEF Works
    <3>2. Changed(c, o) => Changed(c, o)'
      BY <1>4 DEF Changed
    <3>3. ASSUME NEW s \in RecordId, Found(c, o, s)
          PROVE  Found(c, o, s)'
      BY <1>4, <3>3 DEF Found, Holds
    <3>4. (\E s \in RecordId : Found(c, o, s)) => \E s \in RecordId : Found(c, o, s)'
      BY <3>3
    <3> QED
      BY <3>1, <3>2, <3>4 DEF Handled
  <2>2. Handled(c, new)'
    <3>1. mode[c] = "replace" => table[r].content = i.content /\ table[r].meta = i.meta
      BY DEF Skip, Differs
    <3>2. Found(c, new, r)'
      BY <1>2, <1>4, <3>1 DEF Found, Holds, At
    <3> QED
      BY <1>2, <3>2 DEF Handled, At
  <2>3. MovesById(c)'
    BY <1>4, <1>7 DEF Works, MovesById
  <2> QED
    BY <1>3, <1>4, <1>7, <2>1, <2>2, <2>3 DEF Works, At
<1>8. ASSUME Unmixed
      PROVE  StoredNames' /\ OwnNames' /\ NewNames' /\ \A d \in Call : Works(d)'
  BY <1>8, <1>1, <1>4, <1>7, SameNames, CallKeepsWorks DEF IInv
<1> QED
  BY <1>6, <1>8 DEF IInv, Unmixed, Named

(* What makes it right to leave row r as the given one. *)
Fits(c, i, r, row, status) ==
    /\ row.slot = i.slot /\ row.content = i.content /\ row.meta = i.meta
    /\ ~Named(i) => i.id \in {r, NoId}
    /\ status = "inserted" => table[r] = NoRow
    /\ status = "updated" => mode[c] = "replace" /\ table[r] # NoRow /\ row # table[r]
    /\ table[r] # NoRow /\ row.slot # table[r].slot => ~Named(i) /\ i.id # NoId
    /\ \A s \in RecordId : s # r /\ table[s] # NoRow => ~Clash(row, table[s])
    /\ \A d \in Call : \A s \in DOMAIN own[d] : s # r => ~Clash(row, own[d][s])
    /\ \A o \in done[c] : o.status = "skipped" => ~Found(c, o, r)

LEMMA WritesOwn ==
  ASSUME IInv, NEW c \in Call, NEW i, At(c, i), NEW r \in RecordId, r \notin DOMAIN own[c],
         NEW row \in Row, NEW status \in {"inserted", "updated"}, ~BusyFor(c, r),
         table[r] # NoRow => Keeps(table[r], row),
         Unmixed => Fits(c, i, r, row, status),
         WriteOwn(c, i, r, row, status),
         UNCHANGED <<table, pc, batch, mode>>, UNCHANGED answer
  PROVE  IInv'
<1> DEFINE new == [input |-> i, status |-> status, id |-> r]
<1>1. VInv /\ Domains /\ Types(c) /\ OwnKeeps(c)
  BY DEF IInv, VInv
<1>2. i \in Input /\ new \in Outcome /\ \A o \in done[c] : o.input # i
  BY <1>1, Inputs DEF Outcome, Status
<1>3. /\ Steps(c)
      /\ DOMAIN own'[c] = DOMAIN own[c] \cup {r} /\ own'[c][r] = row
      /\ \A s \in DOMAIN own[c] : own'[c][s] = own[c][s]
      /\ done'[c] = done[c] \cup {new}
      /\ locked'[c] = locked[c] \cup {r}
  BY <1>1 DEF WriteOwn, Note, Steps, Same, Domains
<1>4. Types(c)'
  BY <1>1, <1>2, <1>3 DEF Types, RepeatsKey, At
<1>5. OwnKeeps(c)'
  BY <1>1, <1>3 DEF OwnKeeps, Keeps
<1>6. VInv'
  BY <1>1, <1>3, <1>4, <1>5, CallKeepsVInv
<1>7. ASSUME Works(c), Fits(c, i, r, row, status)
      PROVE  Works(c)'
  <2>1. ASSUME NEW o \in done[c]
        PROVE  Handled(c, o)'
    <3>1. Handled(c, o)
      BY <1>7 DEF Works
    <3>2. Changed(c, o) => Changed(c, o)'
      BY <1>3 DEF Changed
    <3>3. ASSUME NEW s \in RecordId, Found(c, o, s), o.status = "skipped"
          PROVE  Found(c, o, s)'
      BY <1>3, <1>7, <3>3 DEF Found, Holds, Fits
    <3>4. o.status = "skipped" => \E s \in RecordId : Found(c, o, s)'
      BY <3>1, <3>3 DEF Handled
    <3> QED
      BY <3>1, <3>2, <3>4 DEF Handled
  <2>2. Handled(c, new)'
    <3>1. Changed(c, new)'
      BY <1>3, <1>7 DEF Changed, Fits
    <3> QED
      BY <3>1 DEF Handled, At
  <2>3. MovesById(c)'
    <3> SUFFICES ASSUME NEW s \in DOMAIN own'[c], table[s] # NoRow, own'[c][s].slot # table[s].slot
                 PROVE  \E j \in batch[c] : ~Named(j) /\ j.id # NoId
      BY DEF MovesById
    <3>1. CASE s = r
      BY <1>3, <1>7, <3>1 DEF Fits, At
    <3>2. CASE s # r
      BY <1>3, <1>7, <3>2 DEF Works, MovesById
    <3> QED
      BY <3>1, <3>2
  <2>4. \A o \in done[c] : o.status # "skipped" => o.id # r
    BY <1>7 DEF Works, Handled, Changed
  <2> QED
    BY <1>2, <1>3, <1>7, <2>1, <2>2, <2>3, <2>4 DEF Works, At
<1>8. ASSUME Unmixed
      PROVE  StoredNames' /\ OwnNames' /\ NewNames' /\ \A d \in Call : Works(d)'
  <2>1. StoredNames /\ OwnNames /\ NewNames /\ (\A d \in Call : Works(d)) /\ Fits(c, i, r, row, status)
    BY <1>8 DEF IInv
  <2>2. ASSUME NEW d \in Call, NEW s \in DOMAIN own'[d]
        PROVE  \/ d = c /\ s = r /\ own'[d][s] = row
               \/ s \in DOMAIN own[d] /\ own'[d][s] = own[d][s]
    BY <1>3, <2>2 DEF Steps, Same
  <2>3. StoredNames'
    BY <2>1 DEF StoredNames, Clash
  <2>4. OwnNames'
    <3> SUFFICES ASSUME NEW d \in Call, NEW s \in DOMAIN own'[d], NEW t \in RecordId,
                        s # t, table[t] # NoRow
                 PROVE  ~Clash(own'[d][s], table[t])
      BY DEF OwnNames, Clash
    <3> QED
      BY <2>1, <2>2 DEF OwnNames, Fits
  <2>5. NewNames'
    <3> SUFFICES ASSUME NEW d \in Call, NEW s \in DOMAIN own'[d],
                        NEW e \in Call, NEW t \in DOMAIN own'[e], s # t
                 PROVE  ~Clash(own'[d][s], own'[e][t])
      BY DEF NewNames, Clash
    <3> QED
      BY <2>1, <2>2 DEF NewNames, Fits, Clash
  <2>6. \A d \in Call : Works(d)'
    BY <1>1, <1>3, <1>7, <2>1, CallKeepsWorks
  <2> QED
    BY <2>3, <2>4, <2>5, <2>6
<1> QED
  BY <1>6, <1>8 DEF IInv, Unmixed, Named

LEMMA ReplacedFits ==
  ASSUME NEW old \in Row, NEW i \in Input, Differs(old, i), Named(i) => old.slot = i.slot
  PROVE  /\ Replaced(old, i) \in Row /\ Replaced(old, i) # old
         /\ Keeps(old, Replaced(old, i))
         /\ Replaced(old, i).slot = i.slot /\ Replaced(old, i).content = i.content
         /\ Replaced(old, i).meta = i.meta
<1> DEFINE e == IF i.vector = NoVector /\ old.content = i.content THEN old.vector ELSE i.vector
           v == IF old.content # i.content /\ e = old.vector THEN NoVector ELSE e
           new == [slot |-> i.slot, content |-> i.content, meta |-> i.meta, vector |-> v]
<1>1. Replaced(old, i) = new
  BY DEF Replaced
<1>2. v \in Vector \cup {ModelVector, NoVector}
  BY DEF Row, Input
<1>3. new \in Row
  BY <1>2 DEF Row, Input
<1>4. Keeps(old, new)
  BY DEF Keeps
<1>5. new # old
  <2>1. CASE old.content # i.content \/ old.meta # i.meta
    BY <2>1
  <2>2. CASE ~Named(i) /\ old.slot # i.slot
    BY <2>2
  <2>3. CASE i.vector # NoVector /\ old.vector # i.vector /\ old.content = i.content
    BY <2>3
  <2> QED
    BY <2>1, <2>2, <2>3 DEF Differs
<1> HIDE DEF v
<1> QED
  BY <1>1, <1>3, <1>4, <1>5

LEMMA OverwriteKeeps ==
  ASSUME IInv, NEW c \in Call, NEW i, At(c, i), NEW r \in Target(c, i) \ DOMAIN own[c],
         Overwrite(c, i, r), UNCHANGED <<table, pc, batch, mode>>, UNCHANGED answer
  PROVE  IInv'
<1> DEFINE row == Replaced(table[r], i)
<1>1. VInv /\ i \in Input
  BY Inputs DEF IInv
<1>2. r \in RecordId /\ r \notin DOMAIN own[c] /\ table[r] \in Row /\ table[r] # NoRow /\ Holds(r, i)
      /\ ~BusyFor(c, r)
  BY <1>1 DEF Target, Sees, Holds, Blocked, At, VInv
<1>3. /\ row \in Row /\ row # table[r] /\ Keeps(table[r], row)
      /\ row.slot = i.slot /\ row.content = i.content /\ row.meta = i.meta
  <2>1. Differs(table[r], i) /\ (Named(i) => table[r].slot = i.slot)
    BY <1>2 DEF Overwrite, Holds
  <2> QED
    BY <1>1, <1>2, <2>1, ReplacedFits
<1>4. WriteOwn(c, i, r, row, "updated") /\ mode[c] = "replace"
  BY DEF Overwrite
<1> HIDE DEF row
<1>5. ASSUME Unmixed
      PROVE  Fits(c, i, r, row, "updated")
  <2>1. StoredNames /\ OwnNames /\ NewNames /\ (\A d \in Call : Works(d))
    BY <1>5 DEF IInv
  <2>2. ~Named(i) => i.id = r /\ i.id # NoId /\ row.slot = NoSlot
    BY <1>2, <1>3, Assumptions DEF Holds, Named
  <2>3. Named(i) => row.slot = table[r].slot
    BY <1>2, <1>3 DEF Holds
  <2>4. \A s \in RecordId : s # r /\ table[s] # NoRow => ~Clash(row, table[s])
    BY <1>2, <2>1, <2>2, <2>3 DEF StoredNames, Clash
  <2>5. \A d \in Call : \A s \in DOMAIN own[d] : s # r => ~Clash(row, own[d][s])
    BY <1>2, <2>1, <2>2, <2>3 DEF OwnNames, Clash
  <2>6. \A o \in done[c] : o.status = "skipped" => ~Found(c, o, r)
    BY <1>1, <1>2, <1>5, <2>1, OneInputPerRow DEF Works, Handled
  <2> QED
    BY <1>2, <1>3, <1>4, <2>2, <2>3, <2>4, <2>5, <2>6 DEF Fits
<1> QED
  BY <1>2, <1>3, <1>4, <1>5, WritesOwn

LEMMA InsertKeeps ==
  ASSUME IInv, NEW c \in Call, NEW i, At(c, i), NEW r \in RecordId,
         Insert(c, i, r), UNCHANGED <<table, pc, batch, mode>>, UNCHANGED answer
  PROVE  IInv'
<1> DEFINE row == [slot |-> i.slot, content |-> i.content, meta |-> i.meta, vector |-> i.vector]
<1>1. VInv /\ Types(c) /\ i \in Input /\ i \in batch[c]
  BY Inputs DEF IInv, VInv, At
<1>2. r \notin DOMAIN own[c] /\ table[r] = NoRow
  BY <1>1, Assumptions DEF Insert, Sees, Types
<1>3. ~BusyFor(c, r)
  BY DEF Insert, Blocked, At, Busy, BusyFor
<1>4. row \in Row
  BY <1>1 DEF Row, Input
<1>5. WriteOwn(c, i, r, row, "inserted") /\ Target(c, i) = {}
  BY DEF Insert
<1>6. row.slot = i.slot /\ row.content = i.content /\ row.meta = i.meta
  OBVIOUS
<1> HIDE DEF row
<1>7. ASSUME Unmixed
      PROVE  Fits(c, i, r, row, "inserted")
  <2>1. StoredNames /\ OwnNames /\ NewNames /\ (\A d \in Call : Works(d))
    BY <1>7 DEF IInv
  <2>2. ASSUME NEW s \in RecordId, s # r, table[s] # NoRow
        PROVE  ~Clash(row, table[s])
    <3> SUFFICES ASSUME Named(i), table[s].slot = i.slot
                 PROVE  FALSE
      BY <1>6 DEF Clash, Named
    <3>1. CASE s \notin DOMAIN own[c]
      BY <1>5, <2>2, <3>1 DEF Target, Sees
    <3>2. CASE s \in DOMAIN own[c]
      <4>1. own[c][s].slot # i.slot
        BY <1>1, <1>5, <3>2, Assumptions DEF Target, Sees, Types
      <4>2. PICK j \in batch[c] : ~Named(j) /\ j.id # NoId
        BY <2>1, <2>2, <3>2, <4>1 DEF Works, MovesById
      <4>3. batch[c] \in Batches
        BY <1>1 DEF Types, At
      <4> QED
        BY <1>1, <1>7, <4>2, <4>3 DEF Unmixed
    <3> QED
      BY <3>1, <3>2
  <2>3. ASSUME NEW d \in Call, NEW s \in DOMAIN own[d]
        PROVE  ~Clash(row, own[d][s])
    <3> SUFFICES ASSUME Named(i), own[d][s].slot = i.slot
                 PROVE  FALSE
      BY <1>6 DEF Clash, Named
    <3>1. CASE d # c
      BY <3>1 DEF At, Blocked
    <3>2. CASE d = c
      BY <1>1, <1>5, <3>2, Assumptions DEF Target, Sees, Types
    <3> QED
      BY <3>1, <3>2
  <2>4. \A o \in done[c] : o.status = "skipped" => ~Found(c, o, r)
    BY <1>2 DEF Found
  <2>5. ~Named(i) => i.id \in {r, NoId}
    BY DEF Insert
  <2> QED
    BY <1>2, <1>6, <2>2, <2>3, <2>4, <2>5 DEF Fits
<1> QED
  BY <1>2, <1>3, <1>4, <1>5, <1>7, WritesOwn

LEMMA MutateRowKeeps ==
  ASSUME IInv, NEW c \in Call, NEW i \in batch[c], MutateRow(c, i)
  PROVE  IInv'
<1>1. At(c, i) /\ UNCHANGED <<table, pc, batch, mode, answer, calls>>
  BY DEF MutateRow, At
<1>2. CASE \E r \in Target(c, i) \ DOMAIN own[c] : Skip(c, i, r) \/ Overwrite(c, i, r)
  BY <1>1, <1>2, SkipKeeps, OverwriteKeeps
<1>3. CASE \E r \in RecordId : Insert(c, i, r)
  BY <1>1, <1>3, InsertKeeps
<1> QED
  BY <1>2, <1>3 DEF MutateRow

LEMMA NextIInv == IInv /\ [Next]_vars => IInv'
<1> SUFFICES ASSUME IInv, [Next]_vars
             PROVE  IInv'
  OBVIOUS
<1>1. ASSUME NEW c \in Call, CallNext(c)
      PROVE  IInv'
  BY <1>1, StartKeeps, ProbeKeeps, MutationEndsKeeps, ResolveKeeps, CommitKeeps,
     MutateRowKeeps, MutateRaisesKeeps, RollbackKeeps DEF CallNext
<1>2. ASSUME NEW r \in RecordId, Delete(r) \/ Rename(r) \/ Embed(r)
      PROVE  IInv'
  BY <1>2, OthersKeep
<1>3. CASE UNCHANGED vars
  <2>1. UNCHANGED <<table, pc, batch, mode, done, own>> /\ UNCHANGED locked
    BY <1>3 DEF vars
  <2>2. VInv /\ Domains' /\ \A d \in Call : Same(d)
    BY <1>3, <2>1 DEF IInv, VInv, Domains, Same, vars
  <2>3. VInv'
    BY <2>1, <2>2, SameTypes DEF VInv, LocksExclude
  <2>4. Unmixed => StoredNames' /\ OwnNames' /\ NewNames'
    BY <2>1 DEF IInv, StoredNames, OwnNames, NewNames, Clash
  <2>5. Unmixed => \A d \in Call : Works(d)'
    BY <2>1, <2>2, SameWorks DEF IInv, VInv
  <2> QED
    BY <2>3, <2>4, <2>5 DEF IInv, Unmixed, Named
<1> QED
  BY <1>1, <1>2, <1>3 DEF Next

THEOREM Invariance == Spec => []IInv
  BY InitIInv, NextIInv, PTL DEF Spec

(* Whatever calls, deletes, renames and drainers do to each other, a write *)
(* that leaves a record's text alone leaves it a vector if it had one: an  *)
(* import may be run again.                                                *)
THEOREM VectorsSurvive == Spec => VectorSurvivesReplace
<1> DEFINE Survives ==
      \A r \in RecordId :
          (/\ table[r] # NoRow /\ table[r].vector # NoVector
           /\ table'[r] # NoRow /\ table'[r].content = table[r].content)
          => table'[r].vector # NoVector
<1>1. ASSUME IInv, [Next]_vars
      PROVE  [Survives]_vars
  <2> SUFFICES ASSUME Next, NEW r \in RecordId,
                      table[r] # NoRow, table[r].vector # NoVector, table'[r] # NoRow,
                      table'[r].content = table[r].content
               PROVE  table'[r].vector # NoVector
    BY <1>1
  <2>0. DOMAIN table = RecordId /\ table[r] \in Row
    BY <1>1 DEF IInv, VInv, Domains
  <2>1. CASE UNCHANGED table
    BY <2>1
  <2>2. CASE \E c \in Call : Commit(c)
    <3>1. PICK c \in Call : Commit(c)
      BY <2>2
    <3>2. table'[r] = Sees(c, r)
      BY <3>1 DEF Commit
    <3> QED
      BY <1>1, <3>2 DEF IInv, VInv, OwnKeeps, Keeps, Sees
  <2>3. CASE \E s \in RecordId : Delete(s) \/ Rename(s) \/ Embed(s)
    <3>1. PICK s \in RecordId : Delete(s) \/ Rename(s) \/ Embed(s)
      BY <2>3
    <3>2. CASE s # r
      BY <2>0, <3>1, <3>2 DEF Delete, Rename, Embed, Write
    <3>3. CASE s = r
      <4>1. CASE Delete(r)
        BY <2>0, <4>1 DEF Delete, Write
      <4>2. CASE Rename(r)
        <5>1. PICK k : table' = [table EXCEPT ![r] = [table[r] EXCEPT !.slot = k]]
          BY <4>2 DEF Rename, Write
        <5> QED
          BY <2>0, <5>1 DEF Row
      <4>3. CASE Embed(r)
        BY <4>3 DEF Embed
      <4> QED
        BY <3>1, <3>3, <4>1, <4>2, <4>3
    <3> QED
      BY <3>2, <3>3
  <2>4. ASSUME NEW c \in Call, CallNext(c)
        PROVE  UNCHANGED table \/ Commit(c)
    BY <2>4 DEF CallNext, Start, Probe, MutationEnds, Resolve, MutateRow, MutateRaises, Rollback
  <2> QED
    BY <2>1, <2>2, <2>3, <2>4 DEF Next
<1> QED
  BY <1>1, Invariance, PTL DEF Spec, VectorSurvivesReplace

(* When a call is about to commit, its keyed inputs are there.             *)
THEOREM BatchesApply == Spec => [](Unmixed => BatchApplies)
<1>1. IInv => (Unmixed => BatchApplies)
  <2> SUFFICES ASSUME IInv, Unmixed, NEW c \in Call, pc[c] = "commit",
                      NEW i \in batch[c], Keyed(i)
               PROVE  \E r \in RecordId :
                        /\ Sees(c, r) # NoRow
                        /\ IF Named(i) THEN Sees(c, r).slot = i.slot ELSE r = i.id
                        /\ mode[c] = "replace" =>
                              /\ Sees(c, r).content = i.content
                              /\ Sees(c, r).meta = i.meta
    BY DEF BatchApplies
  <2>1. Types(c) /\ Works(c)
    BY DEF IInv, VInv
  <2>2. PICK o \in done[c] : o.input = i
    BY <2>1 DEF Works, Waiting
  <2>3. Handled(c, o)
    BY <2>1 DEF Works
  <2>4. CASE o.status = "skipped"
    <3>1. PICK r \in RecordId : Found(c, o, r)
      BY <2>3, <2>4 DEF Handled
    <3>2. Sees(c, r) = table[r]
      BY <3>1 DEF Found, Sees
    <3> QED
      BY <2>2, <3>1, <3>2 DEF Found, Holds
  <2>5. CASE o.status # "skipped"
    <3>1. Changed(c, o)
      BY <2>3, <2>5 DEF Handled
    <3>2. o.id \in RecordId /\ Sees(c, o.id) = own[c][o.id] /\ own[c][o.id] # NoRow
      BY <2>1, <3>1, Assumptions DEF Changed, Sees, Types
    <3>3. ~Named(i) => o.id = i.id
      BY <2>2, <3>1 DEF Changed, Keyed
    <3> QED
      BY <2>2, <3>1, <3>2, <3>3 DEF Changed
  <2> QED
    BY <2>4, <2>5
<1> QED
  BY <1>1, Invariance, PTL

(* What a call answers is what it commits: the ids hold the keys, no id is *)
(* given twice, and the statuses say what becomes of the records.          *)
THEOREM AnswersStayTrue == Spec => [](Unmixed => AnswersAreTrue)
<1>1. IInv => (Unmixed => AnswersAreTrue)
  <2> SUFFICES ASSUME IInv, Unmixed, NEW c \in Call, pc[c] = "commit"
               PROVE  /\ \A i \in batch[c] : \E o \in done[c] : o.input = i
                      /\ \A o \in done[c] :
                            /\ o.id # NoId /\ Sees(c, o.id) # NoRow
                            /\ IF Named(o.input) THEN Sees(c, o.id).slot = o.input.slot
                               ELSE o.input.id \in {o.id, NoId}
                      /\ \A o, p \in done[c] : o.id = p.id => o = p
                      /\ \A o \in done[c] :
                            CASE o.status = "inserted" -> table[o.id] = NoRow
                              [] o.status = "updated" ->
                                    /\ mode[c] = "replace" /\ table[o.id] # NoRow
                                    /\ Sees(c, o.id) # table[o.id]
                              [] o.status = "skipped" ->
                                    mode[c] # "error" /\ o.id \notin DOMAIN own[c]
    BY DEF AnswersAreTrue, AnswersNameRecords, StatusesAreTrue
  <2>1. Types(c) /\ Works(c) /\ batch[c] \in Batches /\ ~RepeatsKey(batch[c])
    BY DEF IInv, VInv, Types
  <2>2. ASSUME NEW o \in done[c]
        PROVE  /\ Handled(c, o) /\ o.status \in {"inserted", "updated", "skipped"}
               /\ o.status = "skipped" => /\ o.id \in RecordId \ DOMAIN own[c]
                                          /\ table[o.id] # NoRow /\ Holds(o.id, o.input)
               /\ o.status # "skipped" =>
                     Changed(c, o) /\ o.id \in RecordId /\ own[c][o.id] # NoRow
    BY <2>1, Assumptions DEF Works, Handled, Found, Changed, Types, Outcome, Status
  <2>3. \A i \in batch[c] : \E o \in done[c] : o.input = i
    BY <2>1 DEF Works, Waiting
  <2>4. ASSUME NEW o \in done[c]
        PROVE  /\ o.id # NoId /\ Sees(c, o.id) # NoRow
               /\ IF Named(o.input) THEN Sees(c, o.id).slot = o.input.slot
                  ELSE o.input.id \in {o.id, NoId}
    BY <2>2, Assumptions DEF Sees, Changed, Holds
  <2>5. ASSUME NEW o \in done[c], NEW p \in done[c], o.id = p.id
        PROVE  o = p
    <3>1. CASE o.status # "skipped" /\ p.status # "skipped"
      BY <2>1, <2>5, <3>1 DEF Works
    <3>2. CASE o.status = "skipped" /\ p.status = "skipped"
      <4>1. Holds(o.id, o.input) /\ Holds(o.id, p.input)
            /\ o.input \in batch[c] /\ p.input \in batch[c] /\ o.id # NoId
        BY <2>2, <2>4, <2>5, <3>2 DEF Handled
      <4>2. o.input = p.input
        <5>1. CASE Named(o.input) /\ Named(p.input)
          BY <2>1, <4>1, <5>1 DEF Holds, RepeatsKey
        <5>2. CASE ~Named(o.input) /\ ~Named(p.input)
          BY <2>1, <4>1, <5>2 DEF Holds, RepeatsKey
        <5>3. CASE Named(o.input) /\ ~Named(p.input)
          BY <2>1, <4>1, <5>3 DEF Holds, Unmixed
        <5>4. CASE ~Named(o.input) /\ Named(p.input)
          BY <2>1, <4>1, <5>4 DEF Holds, Unmixed
        <5> QED
          BY <5>1, <5>2, <5>3, <5>4
      <4> QED
        BY <2>1, <4>2 DEF Works
    <3>3. CASE o.status = "skipped" /\ p.status # "skipped"
      BY <2>2, <2>5, <3>3 DEF Changed
    <3>4. CASE o.status # "skipped" /\ p.status = "skipped"
      BY <2>2, <2>5, <3>4 DEF Changed
    <3> QED
      BY <3>1, <3>2, <3>3, <3>4
  <2>6. ASSUME NEW o \in done[c]
        PROVE  CASE o.status = "inserted" -> table[o.id] = NoRow
                 [] o.status = "updated" ->
                       /\ mode[c] = "replace" /\ table[o.id] # NoRow
                       /\ Sees(c, o.id) # table[o.id]
                 [] o.status = "skipped" ->
                       mode[c] # "error" /\ o.id \notin DOMAIN own[c]
    <3>1. CASE o.status = "inserted"
      BY <2>2, <3>1 DEF Changed
    <3>2. CASE o.status = "updated"
      BY <2>2, <3>2 DEF Changed, Sees
    <3>3. CASE o.status = "skipped"
      BY <2>2, <3>3 DEF Handled
    <3> QED
      BY <2>2, <3>1, <3>2, <3>3
  <2> QED
    BY <2>3, <2>4, <2>5, <2>6
<1> QED
  BY <1>1, Invariance, PTL
=============================================================================
