------------------------------- MODULE Export -------------------------------
(***************************************************************************)
(* searchgres export: a listing in id order, read page after page while    *)
(* other clients write and delete records.                                 *)
(***************************************************************************)
EXTENDS Keyset

CONSTANTS
    MaxId,          \* bound: record ids, in UUIDv7 order, are 1 .. MaxId
    MaxExport,       \* bound: --limit is at most this
    MaxWrites       \* bound: writes and deletes of other clients (MCClient
                    \* lifts it, since ids keep coming)

ASSUME ExportAssumptions == MaxId \in Nat /\ MaxExport \in Nat /\ MaxWrites \in Nat

Ids == 1 .. MaxId

VARIABLES
    record,    \* ids of the committed records that match the filter
    most,      \* --limit, 0 for no limit
    after,     \* cursor: the last id read
    page,      \* the page just read, until it is written to the file
    out,       \* ids written to the file
    exported,  \* how many records were written to the file, counted to MaxId + 1
    pc,        \* "read" | "write" | "done" | "failed"
    stayed,    \* history: the records that have been there since the start
    writes     \* writes of other clients so far

exportVars == <<record, most, after, page, out, exported, pc, stayed, writes>>

ExportTypeOK ==
    /\ record \subseteq Ids /\ most \in 0 .. MaxExport /\ after \in {Start} \cup Ids
    /\ page \subseteq Ids /\ out \subseteq Ids /\ exported \in 0 .. MaxId + 1
    /\ pc \in {"read", "write", "done", "failed"} /\ stayed \subseteq record
    /\ writes \in 0 .. MaxWrites

ExportInit ==
    /\ record \in SUBSET Ids /\ most \in 0 .. MaxExport
    /\ after = Start /\ page = {} /\ out = {} /\ exported = 0
    /\ pc = "read" /\ stayed = record /\ writes = 0

CountedIds(n) == IF n > MaxId THEN MaxId + 1 ELSE n

(* Math.min(1000, remaining) *)
Size ==
    IF most = 0 \/ PageSize < most - exported THEN PageSize ELSE most - exported

CursorInclusive(rows, k, n) ==
    {i \in rows : k <= i /\ Cardinality({j \in rows : k <= j /\ j < i}) < n}

Listed(rows, k, n) == Page(rows, k, n)

Read ==
    /\ pc = "read"
    /\ IF most = 0 \/ exported < most
       THEN page' = Listed(record, after, Size) /\ pc' = "write"
       ELSE page' = page /\ pc' = "done"
    /\ UNCHANGED <<record, most, after, out, exported, stayed, writes>>

Cursor == EndOf(page, after)

(* A page that is not full was the last one.                               *)
IsLast == page = {} \/ Cardinality(page) < Size

WritePage ==
    /\ pc = "write"
    /\ out' = out \cup page /\ exported' = CountedIds(exported + Cardinality(page))
    /\ IF IsLast
       THEN pc' = "done" /\ after' = after
       ELSE pc' = "read" /\ after' = Cursor
    /\ page' = {}
    /\ UNCHANGED <<record, most, stayed, writes>>

(* The search or the writer fails, and the command with it.                *)
Fail ==
    /\ pc \in {"read", "write"}
    /\ pc' = "failed"
    /\ UNCHANGED <<record, most, after, page, out, exported, stayed, writes>>

(* Other clients: a record comes (an explicit id, or one generated before  *)
(* a slow commit, may lie behind the cursor), goes, or ceases to match.    *)
OthersWrite(i) ==
    /\ writes < MaxWrites
    /\ record' = IF i \in record THEN record \ {i} ELSE record \cup {i}
    /\ stayed' = stayed \ {i}
    /\ writes' = writes + 1
    /\ UNCHANGED <<most, after, page, out, exported, pc>>

ExportNext == Read \/ WritePage \/ Fail \/ \E i \in Ids : OthersWrite(i)

ExportSpec == ExportInit /\ [][ExportNext]_exportVars

-----------------------------------------------------------------------------
(* No record is written to the file twice, whatever is inserted or deleted *)
(* between two pages, and no more than --limit are.                        *)
NothingTwice ==
    /\ exported = Cardinality(out) /\ page \cap out = {}
    /\ most > 0 => exported <= most

(* "Exports use keyset pagination, not a snapshot" (docs/guides/cli.md:    *)
(* 178), yet a record that was there all along is missed only if the limit *)
(* was reached first.                                                      *)
StayedAreExported ==
    pc = "done" => stayed \subseteq out \/ (most > 0 /\ exported = most)

(* The file holds what it should, and holds it once.                       *)
ExportIsExact == NothingTwice /\ StayedAreExported
=============================================================================
