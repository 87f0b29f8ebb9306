------------------------- MODULE ProvisioningProofs -------------------------
(***************************************************************************)
(* The advisory lock serialises index creation for any number of callers   *)
(* and schemas, and hence no two of them install the extensions at once;   *)
(* and what createIndex, openIndex and dropIndex do in several statements  *)
(* is safe among others who drop and create schemas in between.            *)
(***************************************************************************)
EXTENDS Provisioning, TLAPS

(* The extensions stay absent while the one transaction that installs them *)
(* is open: that transaction holds the lock, and only a holder commits.    *)
InstallIsFirst == \A a \in Actor : installs[a] => extension = "absent"

IInv == TypeOK /\ Serialised /\ InstallIsFirst /\ NeverInstalledTwice

LEMMA InitIInv == Init => IInv
BY Assumptions DEF Init, IInv, TypeOK, Serialised, InstallIsFirst,
   NeverInstalledTwice, InTransaction, Answer

(* The end of a transaction, the only step that hands the lock back. *)
LEMMA RollbackIInv ==
    ASSUME IInv, NEW a \in Actor, pc[a] # "idle", NEW told \in Answer,
           told # "installed_twice", Rollback(a, told)
    PROVE  IInv'
<1> USE Assumptions DEF IInv, Rollback, End, CloseTransaction
<1>1. TypeOK'
  BY DEF TypeOK, InTransaction
<1>2. Serialised'
  BY DEF TypeOK, Serialised, InTransaction
<1>3. InstallIsFirst'
  BY DEF TypeOK, InstallIsFirst
<1>4. NeverInstalledTwice'
  BY DEF TypeOK, NeverInstalledTwice
<1> QED BY <1>1, <1>2, <1>3, <1>4

(* The statements of openIndex and dropIndex, which are in no transaction. *)
LEMMA ReadIInv ==
    ASSUME IInv, NEW a \in Actor, pc[a] \in {"marker", "column", "opclass", "drop"},
           NEW p \in {"idle", "column", "opclass", "drop"},
           pc' = [pc EXCEPT ![a] = p],
           schema' \in [Schema -> {Index(s) : s \in Shape} \cup
                                     {None, Obsolete, Foreign}],
           seen' \in [Actor -> Shape \cup {NoShape}],
           NEW told \in Answer \ {"installed_twice"},
           answer' \in {answer, [answer EXCEPT ![a] = told]},
           UNCHANGED <<extension, lock, name, want, ddl, installs>>
    PROVE  IInv'
<1> USE DEF IInv
<1>1. TypeOK'
  <2>1. answer' \in [Actor -> Answer]
    BY DEF TypeOK
  <2>2. pc' \in [Actor -> {"idle", "lookup", "lock", "marker", "column", "opclass", "drop"}
                            \cup InTransaction]
    BY DEF TypeOK
  <2>3. \A b \in Actor : b # a => pc'[b] = pc[b]
    BY DEF TypeOK
  <2>4. pc'[a] \notin InTransaction \cup {"lookup", "lock"} /\ ~ddl[a] /\ ~installs[a]
    BY DEF TypeOK, InTransaction
  <2>5. \A b \in Actor : pc'[b] \in InTransaction \cup {"lookup", "lock"} =>
                             b \in Creator \cup Initer
    BY <2>3, <2>4 DEF TypeOK
  <2>6. /\ \A b \in Actor : ddl'[b] => pc'[b] = "commit"
        /\ \A b \in Actor : installs'[b] => pc'[b] \in {"schema", "commit"}
    BY <2>3, <2>4 DEF TypeOK
  <2> QED
    BY <2>1, <2>2, <2>5, <2>6 DEF TypeOK
<1>2. Serialised'
  BY DEF TypeOK, Serialised, InTransaction
<1>3. InstallIsFirst'
  BY DEF InstallIsFirst
<1>4. NeverInstalledTwice'
  BY DEF TypeOK, NeverInstalledTwice
<1> QED BY <1>1, <1>2, <1>3, <1>4

(* Each action of an actor. *)
LEMMA ActorIInv ==
    ASSUME IInv, NEW a \in Actor,
           Begin(a) \/ Lock(a) \/ Step(a) \/ Crash(a)
    PROVE  IInv'
<1> USE DEF IInv
<1>1. CASE Begin(a)
  BY <1>1, Assumptions
  DEF Begin, FirstStatement, TypeOK, Serialised, InstallIsFirst, NeverInstalledTwice,
      InTransaction, Answer, Actor
<1>2. CASE Lookup(a)
  BY <1>2, Assumptions
  DEF Lookup, Goto, TypeOK, Serialised, InstallIsFirst, NeverInstalledTwice,
      InTransaction
<1>3. CASE Lock(a)
  BY <1>3, Assumptions
  DEF Lock, Goto, TypeOK, Serialised, InstallIsFirst, NeverInstalledTwice,
      InTransaction
<1>4. CASE Crash(a)
  BY <1>4, RollbackIInv DEF Crash, Answer
<1>5. CASE SchemaExists(a)
  <2>1. CASE schema[name[a]] # None
    BY <1>5, <2>1, RollbackIInv DEF SchemaExists, Answer
  <2>2. CASE schema[name[a]] = None
    <3>1. pc[a] = "check" /\ pc' = [pc EXCEPT ![a] = "extension"]
          /\ UNCHANGED <<schema, extension, lock, name, want, seen, ddl, installs, answer>>
      BY <1>5, <2>2 DEF SchemaExists, Goto
    <3>2. TypeOK'
      BY <3>1 DEF TypeOK, InTransaction
    <3>3. Serialised'
      BY <3>1 DEF TypeOK, Serialised, InTransaction
    <3> QED BY <3>1, <3>2, <3>3 DEF InstallIsFirst, NeverInstalledTwice
  <2> QED BY <2>1, <2>2
<1>6. CASE EnsureExtension(a)
  <2>1. CASE extension = "elsewhere"
    BY <1>6, <2>1, RollbackIInv DEF EnsureExtension, Answer
  <2>2. CASE extension # "elsewhere"
    <3>1. /\ pc[a] = "extension" /\ pc' = [pc EXCEPT ![a] = "schema"]
          /\ installs' = [installs EXCEPT ![a] = extension = "absent"]
          /\ UNCHANGED <<schema, extension, lock, name, want, seen, ddl, answer>>
      BY <1>6, <2>2 DEF EnsureExtension, Goto
    <3>2. TypeOK'
      BY <3>1 DEF TypeOK, InTransaction
    <3>3. Serialised'
      BY <3>1 DEF TypeOK, Serialised, InTransaction
    <3>4. InstallIsFirst'
      BY <3>1 DEF TypeOK, InstallIsFirst
    <3> QED BY <3>1, <3>2, <3>3, <3>4 DEF NeverInstalledTwice
  <2> QED BY <2>1, <2>2
<1>7. CASE CreateSchema(a)
  <2>1. CASE schema[name[a]] # None /\ a \notin Initer
    BY <1>7, <2>1, RollbackIInv DEF CreateSchema, Answer
  <2>2. CASE schema[name[a]] # None /\ a \in Initer
    <3>1. /\ pc[a] = "schema" /\ pc' = [pc EXCEPT ![a] = "marker"]
          /\ CloseTransaction(a)
          /\ UNCHANGED <<schema, extension, name, want, seen, answer>>
      BY <1>7, <2>2 DEF CreateSchema, Goto
    <3>2. TypeOK'
      BY <3>1 DEF CloseTransaction, TypeOK, InTransaction
    <3>3. Serialised'
      BY <3>1, Assumptions DEF CloseTransaction, TypeOK, Serialised, InTransaction
    <3>4. InstallIsFirst'
      BY <3>1 DEF CloseTransaction, TypeOK, InstallIsFirst
    <3> QED BY <3>1, <3>2, <3>3, <3>4 DEF NeverInstalledTwice
  <2>3. CASE schema[name[a]] = None
    <3>1. /\ pc[a] = "schema" /\ pc' = [pc EXCEPT ![a] = "commit"]
          /\ ddl' = [ddl EXCEPT ![a] = TRUE]
          /\ UNCHANGED <<schema, extension, lock, name, want, seen, installs, answer>>
      BY <1>7, <2>3 DEF CreateSchema, Goto
    <3>2. TypeOK'
      BY <3>1 DEF TypeOK, InTransaction
    <3>3. Serialised'
      BY <3>1 DEF TypeOK, Serialised, InTransaction
    <3> QED BY <3>1, <3>2, <3>3 DEF InstallIsFirst, NeverInstalledTwice
  <2> QED BY <2>1, <2>2, <2>3
<1>8. CASE Commit(a)
  <2>1. ~(installs[a] /\ extension # "absent")
    BY DEF InstallIsFirst
  <2>2. /\ schema' = [schema EXCEPT ![name[a]] = Index(want[a])]
        /\ extension' = "public"
        /\ End(a, "created") /\ CloseTransaction(a)
        /\ pc[a] = "commit"
    BY <1>8, <2>1 DEF Commit
  <2>3. \A b \in Actor : installs[b] => b = a
    BY <2>2, Assumptions DEF TypeOK, Serialised, InTransaction
  <2>4. TypeOK'
    BY <2>2, Assumptions
    DEF End, CloseTransaction, TypeOK, InTransaction, Answer
  <2>5. Serialised'
    BY <2>2, Assumptions
    DEF End, CloseTransaction, TypeOK, Serialised, InTransaction
  <2>6. InstallIsFirst'
    BY <2>2, <2>3 DEF CloseTransaction, TypeOK, InstallIsFirst
  <2>7. NeverInstalledTwice'
    BY <2>2 DEF End, TypeOK, NeverInstalledTwice
  <2> QED BY <2>4, <2>5, <2>6, <2>7
<1>9. CASE ReadMarker(a)
  <2>1. /\ pc[a] = "marker"
        /\ UNCHANGED <<schema, extension, lock, name, want, ddl, installs>>
        /\ seen' \in {seen, [seen EXCEPT ![a] = NoShape]}
    BY <1>9 DEF ReadMarker, Goto, End
  <2>2. \E p \in {"idle", "column", "drop"} : pc' = [pc EXCEPT ![a] = p]
    BY <1>9 DEF ReadMarker, Goto, End
  <2>3. \E told \in {"invalid", "version", "extension"} :
           answer' \in {answer, [answer EXCEPT ![a] = told]}
    BY <1>9 DEF ReadMarker, Goto, End
  <2>4. seen' \in [Actor -> Shape \cup {NoShape}]
    BY <2>1 DEF TypeOK
  <2> QED BY <2>1, <2>2, <2>3, <2>4, ReadIInv DEF TypeOK, Answer
<1>10. CASE ReadColumn(a)
  <2>1. CASE schema[name[a]].kind = "index"
    <3>1. schema[name[a]] \in {Index(s) : s \in Shape}
      BY <2>1 DEF TypeOK, None, Obsolete, Foreign
    <3>2. PICK s \in Shape : schema[name[a]] = [kind |-> "index", shape |-> s]
      BY <3>1 DEF Index
    <3>3. seen' \in [Actor -> Shape \cup {NoShape}]
      BY <1>10, <2>1, <3>2 DEF ReadColumn, TypeOK
    <3>4. pc' = [pc EXCEPT ![a] = "opclass"] /\ answer' = answer
      BY <1>10, <2>1 DEF ReadColumn, Goto
    <3>5. /\ pc[a] = "column"
          /\ UNCHANGED <<schema, extension, lock, name, want, ddl, installs>>
      BY <1>10, <2>1 DEF ReadColumn, Goto
    <3>6. "invalid" \in Answer \ {"installed_twice"}
      BY DEF Answer
    <3> QED BY <3>3, <3>4, <3>5, <3>6, ReadIInv DEF TypeOK
  <2>2. CASE schema[name[a]].kind # "index"
    <3>1. End(a, "invalid") /\ pc[a] = "column"
      BY <1>10, <2>2 DEF ReadColumn
    <3>2. seen' \in [Actor -> Shape \cup {NoShape}]
      BY <3>1 DEF End, TypeOK
    <3>3. "invalid" \in Answer \ {"installed_twice"}
      BY DEF Answer
    <3>4. UNCHANGED <<schema, extension, lock, name, want, ddl, installs>>
      BY <1>10, <3>1 DEF ReadColumn, End
    <3> QED BY <3>1, <3>2, <3>3, <3>4, ReadIInv DEF End, TypeOK
  <2> QED BY <2>1, <2>2
<1>11. CASE ReadOpclass(a)
  <2>1. \E told \in Answer \ {"installed_twice"} : End(a, told)
    BY <1>11 DEF ReadOpclass, Verdict, Answer
  <2> QED BY <1>11, <2>1, ReadIInv DEF ReadOpclass, End, TypeOK
<1>12. CASE Drop(a)
  <2>1. \E told \in {"missing", "dropped"} : End(a, told)
    BY <1>12 DEF Drop
  <2>2. schema' \in [Schema -> {Index(s) : s \in Shape} \cup
                                  {None, Obsolete, Foreign}]
    BY <1>12 DEF Drop, TypeOK
  <2>3. /\ pc[a] = "drop"
        /\ UNCHANGED <<extension, lock, name, want, ddl, installs>>
    BY <1>12, <2>1 DEF Drop, End
  <2>4. PICK told \in Answer \ {"installed_twice"} : End(a, told)
    BY <2>1 DEF Answer
  <2>5. seen' \in [Actor -> Shape \cup {NoShape}]
    BY <2>4 DEF End, TypeOK
  <2> QED BY <2>2, <2>3, <2>4, <2>5, ReadIInv DEF End
<1> QED BY <1>1, <1>2, <1>3, <1>4, <1>5, <1>6, <1>7, <1>8, <1>9, <1>10,
           <1>11, <1>12 DEF Step

LEMMA NextIInv == IInv /\ [Next]_vars => IInv'
<1> SUFFICES ASSUME IInv, [Next]_vars PROVE IInv'
  OBVIOUS
<1>1. ASSUME NEW a \in Actor, Begin(a) \/ Lock(a) \/ Step(a) \/ Crash(a)
      PROVE  IInv'
  BY <1>1, ActorIInv
<1>2. ASSUME NEW n \in Schema, OthersCreate(n) \/ OthersDrop(n)
      PROVE  IInv'
  BY <1>2 DEF OthersCreate, OthersDrop, IInv, TypeOK, Serialised,
     InstallIsFirst, NeverInstalledTwice
<1>3. CASE UNCHANGED vars
  BY <1>3 DEF vars, IInv, TypeOK, Serialised, InstallIsFirst,
     NeverInstalledTwice
<1> QED BY <1>1, <1>2, <1>3 DEF Next

(* At most one createIndex transaction is past the advisory lock, for any  *)
(* number of callers and schemas.                                          *)
THEOREM CreationIsSerialised == Spec => []Serialised
<1>1. IInv => Serialised BY DEF IInv
<1> QED BY <1>1, InitIInv, NextIInv, PTL DEF Spec

(* Consequently no createIndex ever loses a race to install an extension.  *)
THEOREM ExtensionsInstalledOnce == Spec => []NeverInstalledTwice
<1>1. IInv => NeverInstalledTwice BY DEF IInv
<1> QED BY <1>1, InitIInv, NextIInv, PTL DEF Spec

-----------------------------------------------------------------------------
(* The schema a transaction has created but not committed is still free.   *)
Reserved == \A a \in Actor : pc[a] = "commit" => ddl[a] /\ schema[name[a]] = None

LEMMA NextReserved ==
    ASSUME IInv, Reserved, [Next]_vars
    PROVE  Reserved'
<1> USE DEF IInv
<1>1. ASSUME NEW a \in Actor, CreateSchema(a)
      PROVE  Reserved'
  <2>1. CASE schema[name[a]] # None
    BY <1>1, <2>1 DEF CreateSchema, Goto, Rollback, End, CloseTransaction, TypeOK, Reserved
  <2>2. CASE schema[name[a]] = None
    BY <1>1, <2>2 DEF CreateSchema, Goto, TypeOK, Reserved
  <2> QED BY <2>1, <2>2
<1>2. ASSUME NEW a \in Actor, Commit(a)
      PROVE  Reserved'
  <2>1. \A b \in Actor : pc'[b] = "commit" => pc[b] = "commit" /\ b # a
    BY <1>2 DEF Commit, Rollback, End, TypeOK
  <2>2. \A b \in Actor : pc[b] # "commit" \/ b = a
    BY <1>2, Assumptions DEF Commit, Serialised, InTransaction
  <2> QED BY <2>1, <2>2 DEF Reserved
<1>3. ASSUME NEW a \in Actor, Crash(a) \/ SchemaExists(a) \/ EnsureExtension(a)
      PROVE  Reserved'
  <2>1. /\ \E p \in {"idle", "extension", "schema"} : pc' = [pc EXCEPT ![a] = p]
        /\ ddl' \in {ddl, [ddl EXCEPT ![a] = FALSE]}
        /\ UNCHANGED <<schema, name>>
    BY <1>3 DEF Crash, SchemaExists, EnsureExtension, Rollback, End,
       CloseTransaction, Goto
  <2> QED BY <2>1 DEF TypeOK, Reserved
<1>4. ASSUME NEW a \in Actor, Begin(a) \/ Lock(a) \/ Lookup(a)
      PROVE  Reserved'
  BY <1>4 DEF Begin, FirstStatement, Lock, Lookup, Goto, TypeOK, Reserved
<1>5. ASSUME NEW a \in Actor, ReadMarker(a) \/ ReadColumn(a) \/ ReadOpclass(a)
                                \/ Drop(a)
      PROVE  Reserved'
  <2>1. /\ \E p \in {"idle", "column", "opclass", "drop"} : pc' = [pc EXCEPT ![a] = p]
        /\ UNCHANGED <<name, ddl>>
    BY <1>5 DEF ReadMarker, ReadColumn, ReadOpclass, Drop, Goto, End
  <2>2. \A n \in Schema : schema[n] = None => schema'[n] = None
    BY <1>5 DEF ReadMarker, ReadColumn, ReadOpclass, Drop, TypeOK
  <2> QED BY <2>1, <2>2 DEF TypeOK, Reserved
<1>6. ASSUME NEW n \in Schema, OthersCreate(n) \/ OthersDrop(n)
      PROVE  Reserved'
  BY <1>6 DEF OthersCreate, OthersDrop, TypeOK, Reserved
<1>7. CASE UNCHANGED vars
  BY <1>7 DEF vars, Reserved
<1> QED BY <1>1, <1>2, <1>3, <1>4, <1>5, <1>6, <1>7 DEF Next, Step

LEMMA NextNeverReplaces ==
    ASSUME IInv, Reserved, [Next]_vars
    PROVE  \A n \in Schema : schema[n] \in {schema'[n], None} \/ schema'[n] = None
<1> USE DEF IInv
<1>1. ASSUME NEW a \in Actor, Commit(a)
      PROVE  \A n \in Schema : schema[n] \in {schema'[n], None} \/ schema'[n] = None
  BY <1>1 DEF Commit, Rollback, Reserved, TypeOK
<1>2. ASSUME NEW a \in Actor, Drop(a)
      PROVE  \A n \in Schema : schema[n] = schema'[n] \/ schema'[n] = None
  BY <1>2 DEF Drop, TypeOK
<1>3. ASSUME NEW a \in Actor, Begin(a) \/ Lock(a) \/ Crash(a) \/ Lookup(a) \/ SchemaExists(a)
      PROVE  schema' = schema
  BY <1>3 DEF Begin, Lock, Crash, Lookup, SchemaExists, Rollback
<1>4. ASSUME NEW a \in Actor, EnsureExtension(a) \/ CreateSchema(a) \/ ReadMarker(a)
                                \/ ReadColumn(a) \/ ReadOpclass(a)
      PROVE  schema' = schema
  BY <1>4 DEF EnsureExtension, CreateSchema, ReadMarker, ReadColumn, ReadOpclass,
     Rollback
<1>5. ASSUME NEW n \in Schema, OthersCreate(n) \/ OthersDrop(n)
      PROVE  \A o \in Schema : schema[o] \in {schema'[o], None} \/ schema'[o] = None
  BY <1>5 DEF OthersCreate, OthersDrop, TypeOK
<1> QED BY <1>1, <1>2, <1>3, <1>4, <1>5 DEF Next, Step, vars

(* No step ever puts one schema in the place of another, although creation *)
(* checks and creates in two statements and others ignore its lock.        *)
THEOREM SchemasAreNeverReplaced == Spec => CreateNeverReplaces
<1>1. Init => Reserved BY DEF Init, Reserved
<1> QED BY <1>1, InitIInv, NextIInv, NextReserved, NextNeverReplaces,
           PTL DEF Spec, CreateNeverReplaces

-----------------------------------------------------------------------------
(* Only its own last read answers a call that is at that read.             *)
LEMMA NextHandleMatches ==
    ASSUME IInv, [Next]_vars, NEW a \in Actor, pc[a] = "opclass",
           pc'[a] = "idle", answer'[a] \in {"opened", "accepted"}
    PROVE  /\ schema[name[a]].kind = "index"
           /\ schema[name[a]].shape.type = seen[a].type
<1> USE DEF IInv
<1>1. CASE ReadOpclass(a)
  BY <1>1 DEF ReadOpclass, End, TypeOK
<1>2. ASSUME NEW b \in Actor, Begin(b) \/ Lock(b) \/ Step(b) \/ Crash(b)
      PROVE  b = a
  <2>1. ASSUME NEW p, pc' = [pc EXCEPT ![b] = p] PROVE b = a
    BY <2>1 DEF TypeOK
  <2>2. ASSUME NEW told, End(b, told) PROVE b = a
    BY <2>1, <2>2 DEF End
  <2>3. ASSUME NEW p, Goto(b, p) PROVE b = a
    BY <2>1, <2>3 DEF Goto
  <2>4. CASE Begin(b)
    BY <2>1, <2>4 DEF Begin
  <2>5. CASE Lock(b) \/ Lookup(b) \/ EnsureExtension(b)
    BY <2>2, <2>3, <2>5 DEF Lock, Lookup, EnsureExtension, Rollback
  <2>6. CASE Crash(b) \/ SchemaExists(b) \/ CreateSchema(b)
    BY <2>2, <2>3, <2>6 DEF Crash, SchemaExists, CreateSchema, Rollback
  <2>7. CASE ReadMarker(b) \/ ReadColumn(b) \/ ReadOpclass(b)
    BY <2>2, <2>3, <2>7 DEF ReadMarker, ReadColumn, ReadOpclass
  <2>8. CASE Drop(b)
    BY <2>2, <2>8 DEF Drop
  <2>9. CASE Commit(b)
    <3>1. pc' = [pc EXCEPT ![b] = "idle"]
      BY <2>9, Zenon DEF Commit, Rollback, End
    <3> QED BY <2>1, <3>1
  <2> QED BY <1>2, <2>4, <2>5, <2>6, <2>7, <2>8, <2>9 DEF Step
<1>3. CASE Crash(a)
  BY <1>3 DEF Crash, Rollback, End, TypeOK
<1>4. ~(Begin(a) \/ Lock(a) \/ (Step(a) /\ ~ReadOpclass(a)))
  BY DEF Begin, Lock, Step, Lookup, SchemaExists, EnsureExtension,
     CreateSchema, Commit, ReadMarker, ReadColumn, Drop
<1>5. ~UNCHANGED vars /\ \A n \in Schema : ~(OthersCreate(n) \/ OthersDrop(n))
  BY DEF vars, OthersCreate, OthersDrop
<1> QED BY <1>1, <1>2, <1>3, <1>4, <1>5 DEF Next

(* A handle or an accepted init is answered only over an index of the type *)
(* it read, whatever drops and creates fell between its catalog reads.     *)
THEOREM HandlesMatchTheirIndex == Spec => HandleMatchesIndex
<1>1. IInv /\ [Next]_vars =>
        \A a \in Opener \cup Initer :
          pc[a] = "opclass" /\ answer'[a] \in {"opened", "accepted"}
            /\ pc'[a] = "idle" =>
                /\ schema[name[a]].kind = "index"
                /\ schema[name[a]].shape.type = seen[a].type
  BY NextHandleMatches DEF Actor
<1> QED BY <1>1, InitIInv, NextIInv, PTL DEF Spec, HandleMatchesIndex

-----------------------------------------------------------------------------
(* A call that has not ended has no answer yet.                            *)
NoAnswerYet == \A a \in Actor : pc[a] # "idle" => answer[a] = "none"

(* A step of a call ends it with an answer, takes it further, or begins it. *)
LEMMA StepsOfOne ==
    ASSUME NEW a \in Actor, Begin(a) \/ Lock(a) \/ Step(a) \/ Crash(a)
    PROVE  \/ pc' = [pc EXCEPT ![a] = "idle"] /\ \E told : answer' = [answer EXCEPT ![a] = told]
           \/ (\E p : pc' = [pc EXCEPT ![a] = p]) /\ answer' = answer /\ pc[a] # "idle"
           \/ Begin(a)
<1>1. ASSUME NEW told, End(a, told)
      PROVE  pc' = [pc EXCEPT ![a] = "idle"] /\ answer' = [answer EXCEPT ![a] = told]
  BY <1>1 DEF End
<1>2. ASSUME NEW p, Goto(a, p)
      PROVE  pc' = [pc EXCEPT ![a] = p] /\ answer' = answer
  BY <1>2 DEF Goto
<1>3. CASE Lock(a) \/ Lookup(a) \/ EnsureExtension(a)
  BY <1>1, <1>2, <1>3 DEF Lock, Lookup, EnsureExtension, Rollback
<1>4. CASE Crash(a) \/ SchemaExists(a) \/ CreateSchema(a)
  BY <1>1, <1>2, <1>4 DEF Crash, SchemaExists, CreateSchema, Rollback
<1>5. CASE ReadMarker(a) \/ ReadColumn(a) \/ ReadOpclass(a)
  BY <1>1, <1>2, <1>5 DEF ReadMarker, ReadColumn, ReadOpclass
<1>6. CASE Drop(a)
  BY <1>1, <1>6 DEF Drop
<1>7. CASE Commit(a)
  <2>1. \E told : End(a, told)
    BY <1>7, Zenon DEF Commit, Rollback
  <2> QED BY <1>1, <2>1
<1> QED BY <1>3, <1>4, <1>5, <1>6, <1>7 DEF Step

LEMMA NextNoAnswerYet == IInv /\ NoAnswerYet /\ [Next]_vars => NoAnswerYet'
<1> SUFFICES ASSUME IInv, NoAnswerYet, [Next]_vars PROVE NoAnswerYet'
  OBVIOUS
<1> USE DEF NoAnswerYet
<1>0. pc \in [Actor -> {"idle", "lookup", "lock", "marker", "column", "opclass", "drop"}
                           \cup InTransaction] /\ answer \in [Actor -> Answer]
  BY DEF IInv, TypeOK
<1>1. ASSUME NEW a \in Actor, Begin(a) \/ Lock(a) \/ Step(a) \/ Crash(a)
      PROVE  NoAnswerYet'
  <2>1. CASE pc' = [pc EXCEPT ![a] = "idle"] /\ \E told : answer' = [answer EXCEPT ![a] = told]
    BY <1>0, <2>1
  <2>2. CASE (\E p : pc' = [pc EXCEPT ![a] = p]) /\ answer' = answer /\ pc[a] # "idle"
    BY <1>0, <2>2
  <2>3. CASE Begin(a)
    BY <1>0, <2>3 DEF Begin
  <2> QED BY <1>1, <2>1, <2>2, <2>3, StepsOfOne
<1>2. ASSUME NEW n \in Schema, OthersCreate(n) \/ OthersDrop(n)
      PROVE  NoAnswerYet'
  BY <1>2 DEF OthersCreate, OthersDrop
<1>3. CASE UNCHANGED vars
  BY <1>3 DEF vars
<1> QED BY <1>1, <1>2, <1>3 DEF Next

(* An actor that drops nothing and is not about to. *)
Harmless(a) == pc[a] # "drop" /\ answer[a] # "dropped"

LEMMA NextHarmless ==
    ASSUME IInv, [Next]_vars, NEW a \in Dropper, Harmless(a), ~IsIndex(name[a])
    PROVE  Harmless(a)'
<1> USE DEF Harmless
<1>0. pc \in [Actor -> {"idle", "lookup", "lock", "marker", "column", "opclass", "drop"}
                           \cup InTransaction] /\ answer \in [Actor -> Answer] /\ a \in Actor
  BY DEF IInv, TypeOK, Actor
<1>1. ASSUME NEW b \in Actor, b # a, Begin(b) \/ Lock(b) \/ Step(b) \/ Crash(b)
      PROVE  pc'[a] = pc[a] /\ answer'[a] = answer[a]
  <2>1. CASE Begin(b)
    BY <1>0, <1>1, <2>1 DEF Begin
  <2> QED BY <1>0, <1>1, <2>1, StepsOfOne
<1>2. CASE Begin(a)
  <2>1. pc'[a] = FirstStatement(a) /\ answer'[a] = "none"
    BY <1>0, <1>2 DEF Begin
  <2> QED BY <2>1 DEF FirstStatement
<1>3. CASE Lock(a) \/ Lookup(a) \/ EnsureExtension(a)
  BY <1>0, <1>3 DEF Lock, Lookup, EnsureExtension, Rollback, End, Goto
<1>4. CASE Crash(a) \/ SchemaExists(a) \/ CreateSchema(a)
  BY <1>0, <1>4 DEF Crash, SchemaExists, CreateSchema, Rollback, End, Goto
<1>5. CASE ReadMarker(a)
  BY <1>0, <1>5 DEF ReadMarker, End, Goto, IsIndex
<1>6. CASE ReadColumn(a)
  BY <1>0, <1>6 DEF ReadColumn, End, Goto
<1>7. CASE ReadOpclass(a)
  <2>1. PICK told : End(a, told) /\ told \in {"invalid", "opened", "accepted", "mismatch"}
    BY <1>7 DEF ReadOpclass, Verdict
  <2> QED BY <1>0, <2>1 DEF End
<1>8. ~Drop(a)
  BY DEF Drop
<1>9. CASE Commit(a)
  <2>1. PICK told : End(a, told) /\ told \in {"created", "installed_twice"}
    BY <1>9, Zenon DEF Commit, Rollback
  <2> QED BY <1>0, <2>1 DEF End
<1>10. ASSUME NEW n \in Schema, OthersCreate(n) \/ OthersDrop(n)
       PROVE  Harmless(a)'
  BY <1>10 DEF OthersCreate, OthersDrop
<1>11. CASE UNCHANGED vars
  BY <1>11 DEF vars
<1>12. ASSUME NEW b \in Actor, Begin(b) \/ Lock(b) \/ Step(b) \/ Crash(b)
       PROVE  Harmless(a)'
  <2>1. CASE b # a
    BY <1>1, <1>12, <2>1
  <2>2. CASE b = a
    BY <1>2, <1>3, <1>4, <1>5, <1>6, <1>7, <1>8, <1>9, <1>12, <2>2 DEF Step
  <2> QED BY <2>1, <2>2
<1> QED BY <1>10, <1>11, <1>12 DEF Next

(* dropIndex drops nothing under a name that no index has from its check   *)
(* on, for any number of callers, and whatever else is created and dropped *)
(* under that name between its two statements.                             *)
THEOREM MistypedNamesAreSafe == Spec => MistypedNameIsSafe
<1> SUFFICES ASSUME NEW a \in Dropper
             PROVE  Spec => [](pc[a] = "marker" /\ []~IsIndex(name[a])
                                 => [](answer[a] # "dropped"))
  BY DEF MistypedNameIsSafe
<1>1. Init => NoAnswerYet
  BY DEF Init, NoAnswerYet
<1>2. NoAnswerYet /\ pc[a] = "marker" => Harmless(a)
  BY DEF NoAnswerYet, Harmless, Actor
<1>3. IInv /\ [Next]_vars /\ Harmless(a) /\ ~IsIndex(name[a]) => Harmless(a)'
  BY NextHarmless
<1>4. Harmless(a) => answer[a] # "dropped"
  BY DEF Harmless
<1> QED BY <1>1, <1>2, <1>3, <1>4, InitIInv, NextIInv, NextNoAnswerYet, PTL DEF Spec

(* Looking in one statement and acting in another, neither createIndex nor *)
(* dropIndex destroys what it was not meant to.                            *)
THEOREM SchemasStaySafe == Spec => SchemasAreSafe
BY SchemasAreNeverReplaced, MistypedNamesAreSafe DEF SchemasAreSafe
=============================================================================
