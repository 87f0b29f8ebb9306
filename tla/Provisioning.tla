---------------------------- MODULE Provisioning ----------------------------
(***************************************************************************)
(* Creating, opening and dropping indexes: createIndex (one transaction    *)
(* under a database-wide advisory lock), openIndex (several catalog reads  *)
(* without a transaction), dropIndex (check, then drop) and the CLI's      *)
(* init, init --if-not-exists and destroy, which are built from them.      *)
(* Other users of the database create and drop schemas of their own.       *)
(***************************************************************************)
CONSTANTS
    Schema,         \* schema names
    VectorType, Dimensions,
    Creator,        \* callers of createIndex() and init
    Initer,         \* callers of init --if-not-exists
    Opener,         \* callers of openIndex
    Dropper,        \* callers of dropIndex, Index.drop() and destroy
    NoShape, Nobody

VARIABLES
    schema,         \* schema[n]: what a committed schema n holds
    extension,      \* the required extensions: absent, public or elsewhere
    lock,           \* holder of the advisory lock
    pc,             \* pc[a]: the statement actor a is at
    name, want,     \* the schema and the shape a's call is about
    seen,           \* seen[a]: the shape openIndex has read so far
    ddl,            \* ddl[a]: a's transaction has created its schema
    installs,       \* installs[a]: a's transaction installs the extensions
    answer          \* answer[a]: how a's last call ended

vars == <<schema, extension, lock, pc, name, want, seen, ddl, installs, answer>>

Actor == Creator \cup Initer \cup Opener \cup Dropper

Shape == [type : VectorType, dimensions : Dimensions]

(* An index of this format with its shape, one of an older format, or      *)
(* somebody else's schema.                                                 *)
Index(s) == [kind |-> "index", shape |-> s]
None == [kind |-> "none", shape |-> NoShape]
Obsolete == [kind |-> "obsolete", shape |-> NoShape]
Foreign == [kind |-> "foreign", shape |-> NoShape]

IsIndex(n) == schema[n].kind \in {"index", "obsolete"}

Answer == {"none", "created", "accepted", "opened", "dropped", "conflict",
           "duplicate", "invalid", "version", "mismatch", "extension",
           "installed_twice", "missing", "crashed"}

InTransaction == {"check", "extension", "schema", "commit"}

ASSUME Assumptions == NoShape \notin Shape /\ Nobody \notin Actor

TypeOK ==
    /\ schema \in [Schema -> {Index(s) : s \in Shape} \cup
                                {None, Obsolete, Foreign}]
    /\ extension \in {"absent", "public", "elsewhere"}
    /\ lock \in Actor \cup {Nobody}
    /\ pc \in [Actor -> {"idle", "lookup", "lock", "marker", "column", "opclass",
                         "drop"} \cup InTransaction]
    /\ name \in [Actor -> Schema] /\ want \in [Creator \cup Initer -> Shape]
    /\ seen \in [Actor -> Shape \cup {NoShape}]
    /\ ddl \in [Actor -> BOOLEAN] /\ installs \in [Actor -> BOOLEAN]
    /\ answer \in [Actor -> Answer]
    /\ \A a \in Actor : pc[a] \in InTransaction \cup {"lookup", "lock"} =>
                           a \in Creator \cup Initer
    /\ \A a \in Actor : ddl[a] => pc[a] = "commit"
    /\ \A a \in Actor : installs[a] => pc[a] \in {"schema", "commit"}

Init ==
    /\ schema \in [Schema -> {None, Obsolete, Foreign}]
    /\ extension \in {"absent", "public", "elsewhere"}
    /\ lock = Nobody
    /\ pc = [a \in Actor |-> "idle"]
    /\ name \in [Actor -> Schema] /\ want \in [Creator \cup Initer -> Shape]
    /\ seen = [a \in Actor |-> NoShape]
    /\ ddl = [a \in Actor |-> FALSE] /\ installs = [a \in Actor |-> FALSE]
    /\ answer = [a \in Actor |-> "none"]

-----------------------------------------------------------------------------
Goto(a, p) ==
    /\ pc' = [pc EXCEPT ![a] = p]
    /\ UNCHANGED <<name, want, answer>>

(* A call ends; a transaction that is still open rolls back or commits. *)
End(a, told) ==
    /\ pc' = [pc EXCEPT ![a] = "idle"]
    /\ answer' = [answer EXCEPT ![a] = told]
    /\ seen' = [seen EXCEPT ![a] = NoShape]
    /\ UNCHANGED <<name, want>>

CloseSessionLock(a) ==
    /\ ddl' = [ddl EXCEPT ![a] = FALSE]
    /\ installs' = [installs EXCEPT ![a] = FALSE]
    /\ UNCHANGED lock

(* The lock belongs to the transaction. *)
CloseTransaction(a) ==
    /\ lock' = IF lock = a THEN Nobody ELSE lock
    /\ ddl' = [ddl EXCEPT ![a] = FALSE]
    /\ installs' = [installs EXCEPT ![a] = FALSE]

Rollback(a, told) ==
    /\ End(a, told) /\ CloseTransaction(a)
    /\ UNCHANGED <<schema, extension>>

FirstStatement(a) ==
    IF a \in Creator THEN "lock" ELSE IF a \in Initer THEN "lookup" ELSE "marker"

Begin(a) ==
    /\ pc[a] = "idle"
    /\ pc' = [pc EXCEPT ![a] = FirstStatement(a)]
    /\ answer' = [answer EXCEPT ![a] = "none"]
    /\ UNCHANGED <<schema, extension, lock, name, want, seen, ddl, installs>>

(* init --if-not-exists looks before it creates. *)
Lookup(a) ==
    /\ pc[a] = "lookup"
    /\ Goto(a, IF schema[name[a]] # None THEN "marker" ELSE "lock")
    /\ UNCHANGED <<schema, extension, lock, seen, ddl, installs>>

LockUnheld(a) ==
    /\ pc[a] = "lock"
    /\ lock' = a
    /\ Goto(a, "check")
    /\ UNCHANGED <<schema, extension, seen, ddl, installs>>

(* createIndex, statement by statement. *)
Lock(a) ==
    /\ pc[a] = "lock" /\ lock = Nobody
    /\ lock' = a
    /\ Goto(a, "check")
    /\ UNCHANGED <<schema, extension, seen, ddl, installs>>

(* Waiting for the lock, or for another transaction's schema or extension, *)
(* exceeds lock_timeout; a statement fails; the process or its connection  *)
(* dies.                                                                   *)
Crash(a) == pc[a] # "idle" /\ Rollback(a, "crashed")

SchemaExists(a) ==
    /\ pc[a] = "check"
    /\ IF schema[name[a]] # None
       THEN Rollback(a, "conflict")
       ELSE /\ Goto(a, "extension")
            /\ UNCHANGED <<schema, extension, lock, seen, ddl, installs>>

(* ensureExtension, all three extensions at once. Of two transactions that *)
(* install one, the first to commit wins and the other fails.              *)
EnsureExtension(a) ==
    /\ pc[a] = "extension"
    /\ \/ extension = "elsewhere" /\ Rollback(a, "extension")
       \/ /\ extension # "elsewhere"
          /\ Goto(a, "schema")
          /\ installs' = [installs EXCEPT ![a] = extension = "absent"]
          /\ UNCHANGED <<schema, extension, lock, seen, ddl>>

CreateSchemaIfNotExists(a) ==
    /\ pc[a] = "schema"
    /\ Goto(a, "commit")
    /\ ddl' = [ddl EXCEPT ![a] = TRUE]
    /\ UNCHANGED <<schema, extension, lock, seen, installs>>

(* "create schema": the name is taken, or ours until the transaction ends. *)
CreateSchema(a) ==
    /\ pc[a] = "schema"
    /\ \A b \in Actor : ddl[b] => name[b] # name[a]
    /\ IF schema[name[a]] # None
       THEN IF a \in Initer
            THEN /\ Goto(a, "marker") /\ CloseTransaction(a)
                 /\ UNCHANGED <<schema, extension, seen>>
            ELSE Rollback(a, "duplicate")
       ELSE /\ Goto(a, "commit")
            /\ ddl' = [ddl EXCEPT ![a] = TRUE]
            /\ UNCHANGED <<schema, extension, lock, seen, installs>>

Commit(a) ==
    /\ pc[a] = "commit"
    /\ IF installs[a] /\ extension # "absent"
       THEN Rollback(a, "installed_twice")
       ELSE /\ schema' = [schema EXCEPT ![name[a]] = Index(want[a])]
            /\ extension' = "public"
            /\ End(a, "created") /\ CloseTransaction(a)

MarkerIfThere(a) ==
    /\ pc[a] = "marker"
    /\ \/ schema[name[a]] = None /\ End(a, "invalid")
       \/ /\ schema[name[a]] # None /\ UNCHANGED seen
          /\ Goto(a, IF a \in Dropper THEN "drop" ELSE "column")
    /\ UNCHANGED <<schema, extension, lock, ddl, installs>>

(* readIndexMarker: comment, tables and version row of a searchgres index; *)
(* openIndex also insists on this format version and on the extensions.    *)
ReadMarker(a) ==
    /\ pc[a] = "marker"
    /\ \/ ~IsIndex(name[a]) /\ End(a, "invalid")
       \/ IsIndex(name[a]) /\ a \in Dropper /\ Goto(a, "drop") /\ UNCHANGED seen
       \/ schema[name[a]] = Obsolete /\ a \notin Dropper /\ End(a, "version")
       \/ /\ schema[name[a]].kind = "index" /\ a \notin Dropper
          /\ \/ extension # "public" /\ End(a, "extension")
             \/ extension = "public" /\ Goto(a, "column") /\ UNCHANGED seen
    /\ UNCHANGED <<schema, extension, lock, ddl, installs>>

(* readEmbeddingColumn: the shape, if the table is still there. *)
ReadColumn(a) ==
    /\ pc[a] = "column"
    /\ IF schema[name[a]].kind = "index"
       THEN /\ seen' = [seen EXCEPT ![a] = schema[name[a]].shape]
            /\ Goto(a, "opclass")
       ELSE End(a, "invalid")
    /\ UNCHANGED <<schema, extension, lock, ddl, installs>>

(* init compares the shape it read with its configuration. *)
Verdict(a) ==
    IF a \in Opener THEN "opened"
    ELSE IF seen[a] = want[a] THEN "accepted" ELSE "mismatch"

ReadOpclassUnchecked(a) ==
    /\ pc[a] = "opclass"
    /\ End(a, IF schema[name[a]].kind # "index" THEN "invalid" ELSE Verdict(a))
    /\ UNCHANGED <<schema, extension, lock, ddl, installs>>

(* readHnswOpclass must agree with the column.                             *)
ReadOpclass(a) ==
    /\ pc[a] = "opclass"
    /\ End(a, IF \/ schema[name[a]].kind # "index"
                 \/ schema[name[a]].shape.type # seen[a].type
              THEN "invalid" ELSE Verdict(a))
    /\ UNCHANGED <<schema, extension, lock, ddl, installs>>

(* "drop schema ... cascade", which sees committed schemas only. *)
Drop(a) ==
    /\ pc[a] = "drop"
    /\ IF schema[name[a]] = None THEN End(a, "missing") /\ UNCHANGED schema
       ELSE /\ schema' = [schema EXCEPT ![name[a]] = None]
            /\ End(a, "dropped")
    /\ UNCHANGED <<extension, lock, ddl, installs>>

(* The database's other users. *)
OthersCreate(n) ==
    /\ schema[n] = None
    /\ \A a \in Actor : ddl[a] => name[a] # n
    /\ schema' = [schema EXCEPT ![n] = Foreign]
    /\ UNCHANGED <<extension, lock, pc, name, want, seen, ddl, installs, answer>>

OthersDrop(n) ==
    /\ schema[n] # None
    /\ schema' = [schema EXCEPT ![n] = None]
    /\ UNCHANGED <<extension, lock, pc, name, want, seen, ddl, installs, answer>>

-----------------------------------------------------------------------------
Step(a) ==
    \/ Lookup(a) \/ SchemaExists(a) \/ EnsureExtension(a) \/ CreateSchema(a)
    \/ Commit(a) \/ ReadMarker(a) \/ ReadColumn(a) \/ ReadOpclass(a) \/ Drop(a)

Next ==
    \/ \E a \in Actor : Begin(a) \/ Lock(a) \/ Step(a) \/ Crash(a)
    \/ \E n \in Schema : OthersCreate(n) \/ OthersDrop(n)

Spec == Init /\ [][Next]_vars

(* Statements end, and PostgreSQL grants the lock in the order of waiting. *)
FairSpec == Spec /\ \A a \in Actor : WF_vars(Step(a)) /\ SF_vars(Lock(a))

-----------------------------------------------------------------------------
(* The transaction-level advisory lock (create-index.ts:116) is held by    *)
(* exactly the createIndex transactions that are past it, so there is at   *)
(* most one, whatever schemas they are about.                              *)
Serialised == \A a \in Actor : pc[a] \in InTransaction <=> lock = a

(* "Serializes index provisioning, including required extension            *)
(* installation" (lock.ts:13): no two transactions ever install the        *)
(* extensions at once, so no createIndex loses such a race.                *)
NeverInstalledTwice == \A a \in Actor : answer[a] # "installed_twice"

(* createIndex checks for the schema and creates it in two statements, and *)
(* other users of the database do not take its lock: even so no step ever  *)
(* turns a committed schema into another one, it can only go away.         *)
CreateNeverReplaces ==
    [][\A n \in Schema : schema[n] \in {schema'[n], None} \/ schema'[n] = None]_vars

(* openIndex reads the catalog in several statements; with drops and       *)
(* creates between them, a handle (or an accepted init) is answered only   *)
(* over an index of the vector type the handle will use.                   *)
HandleMatchesIndex ==
    [][\A a \in Opener \cup Initer :
          pc[a] = "opclass" /\ answer'[a] \in {"opened", "accepted"}
            /\ pc'[a] = "idle" =>
                /\ schema[name[a]].kind = "index"
                /\ schema[name[a]].shape.type = seen[a].type]_vars

(* dropIndex reads the marker in one statement and drops in another, so    *)
(* what it drops need not be what it looked at.  Yet "an arbitrary caller  *)
(* schema [...] can't be destroyed by a mistyped name" (drop-index.ts:11): *)
(* a call drops nothing under a name no index has from its check on,       *)
(* whatever else is created and dropped under that name.                   *)
MistypedNameIsSafe ==
    \A a \in Dropper :
        [](pc[a] = "marker" /\ []~IsIndex(name[a]) => [](answer[a] # "dropped"))

(* Neither the creation nor the removal of an index, each of which looks   *)
(* first and acts in a later statement, destroys what was not its own.     *)
SchemasAreSafe == CreateNeverReplaces /\ MistypedNameIsSafe

(* A createIndex that dies releases the lock with its transaction, so no   *)
(* call waits for it for ever.                                             *)
EveryCallEnds == \A a \in Actor : pc[a] # "idle" ~> pc[a] = "idle"

(* "validate and accept an existing matching index" (program.ts:80): init  *)
(* --if-not-exists is not refused for an index that matches.               *)
InitAcceptsExisting ==
    [][\A a \in Initer :
          pc[a] = "check" /\ pc'[a] = "idle" /\ answer'[a] = "conflict"
            => schema[name[a]] # Index(want[a])]_vars
=============================================================================
