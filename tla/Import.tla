------------------------------- MODULE Import -------------------------------
(***************************************************************************)
(* searchgres import (bulk.ts): every file is read and validated first,    *)
(* then the records go to the index in batches, each one upsertMany (what  *)
(* happens inside that call is module BatchUpsert's), while other clients  *)
(* write between the batches.                                              *)
(*                                                                         *)
(* An entry of a file is a record with the one conflict key the model has, *)
(* and one of the texts; an anonymous record; an object that is no valid   *)
(* record; or something that is not even an object.                        *)
(***************************************************************************)
EXTENDS Integers, Sequences, FiniteSets

CONSTANTS
    Text,           \* the contents of a keyed record
    Absent,         \* there is no record under the key
    BatchSize,      \* MAX_BATCH_RECORDS (1000)
    MaxEntries,     \* bound: entries in both files together
    MaxOthers       \* bound: writes of other clients

ASSUME ImportAssumptions ==
    /\ Absent \notin Text
    /\ BatchSize \in Nat \ {0} /\ MaxEntries \in Nat /\ MaxOthers \in Nat

Entry == Text \cup {"anonymous", "invalid", "broken"}

VARIABLES
    files,      \* the two files named, in the order of their paths
    options,    \* --replace, --ignore or neither; --dry-run; --fail-fast
    row,        \* the text of the record under the key, if there is one
    step,       \* "collect" | "parse" | "write" | "done" | "thrown"
    at,         \* files parsed, then batches sent
    queue,      \* records: entries as <<file, position>>
    inserted, updated, skipped, failed,     \* the summary
    settled,    \* history: what the committed batches did with an entry
    others      \* writes of other clients so far

importVars == <<files, options, row, step, at, queue, inserted, updated, skipped,
          failed, settled, others>>
summary == <<inserted, updated, skipped>>

Status == {"inserted", "updated", "skipped"}

ImportTypeOK ==
    /\ Len(files) = 2 /\ \A f \in 1 .. 2 : files[f] \in Seq(Entry)
    /\ options \in [mode : {"error", "replace", "ignore"},
                    dryRun : BOOLEAN, failFast : BOOLEAN]
    /\ row \in Text \cup {Absent}
    /\ step \in {"collect", "parse", "write", "done", "thrown"}
    /\ at \in 0 .. 2 + MaxEntries
    /\ queue \in Seq((1 .. 2) \X (1 .. MaxEntries))
    /\ {inserted, updated, skipped, failed} \subseteq Nat
    /\ settled \subseteq (1 .. 2) \X (1 .. MaxEntries) \X Status
    /\ others \in 0 .. MaxOthers

Entries(n) == UNION {[1 .. k -> Entry] : k \in 0 .. n}

Fresh ==
    /\ step = "collect" /\ at = 0 /\ queue = <<>>
    /\ inserted = 0 /\ updated = 0 /\ skipped = 0 /\ failed = 0
    /\ settled = {} /\ others = 0

ImportInit ==
    /\ \E whole \in Entries(MaxEntries), n \in 0 .. MaxEntries :
          /\ n <= Len(whole)
          /\ files = <<SubSeq(whole, 1, n), SubSeq(whole, n + 1, Len(whole))>>
    /\ options \in [mode : {"error", "replace", "ignore"},
                    dryRun : BOOLEAN, failFast : BOOLEAN]
    /\ row \in Text \cup {Absent}
    /\ Fresh

-----------------------------------------------------------------------------
(* collectInputPaths: a path that is missing, or a directory without       *)
(* --recursive, ends the command before anything is read.                  *)
Collect ==
    /\ step = "collect"
    /\ step' \in {"parse", "thrown"}
    /\ UNCHANGED <<files, options, row, at, queue, summary, failed, settled, others>>

Bad(file) == \E i \in DOMAIN file : file[i] \in {"invalid", "broken"}

(* Mutant: the whole file is dropped.                                      *)
SkipsInvalid(file) == {i \in DOMAIN file : file[i] \notin {"invalid", "broken"}}

(* The records before a file's first invalid one have been queued when it  *)
(* is found; a file that does not parse queues nothing.                    *)
Kept(file) ==
    {i \in DOMAIN file : /\ \A j \in DOMAIN file : file[j] # "broken"
                         /\ \A j \in 1 .. i : file[j] # "invalid"}

ParseFile ==
    LET file == files[at + 1]
        kept == [i \in 1 .. Cardinality(Kept(file)) |->
                    <<at + 1, CHOOSE k \in Kept(file) :
                                Cardinality({j \in Kept(file) : j <= k}) = i>>]
    IN
    /\ step = "parse" /\ at < 2
    /\ queue' = queue \o kept
    /\ failed' = failed + (IF Bad(file) THEN 1 ELSE 0)
    /\ at' = at + 1
    /\ step' = IF Bad(file) /\ options.failFast THEN "thrown" ELSE "parse"
    /\ UNCHANGED <<files, options, row, summary, settled, others>>

(* A dry run returns its summary here.                                     *)
Parsed ==
    /\ step = "parse" /\ at = 2
    /\ step' = IF options.dryRun THEN "done" ELSE "write"
    /\ at' = 0
    /\ UNCHANGED <<files, options, row, queue, summary, failed, settled, others>>

-----------------------------------------------------------------------------
UpTo(n) == IF n < Len(queue) THEN n ELSE Len(queue)

ChunksOverlap(n) == SubSeq(queue, n * BatchSize, UpTo((n + 1) * BatchSize))

(* chunkRecords: the n-th batch, counted from 0.                           *)
Chunk(n) == SubSeq(queue, n * BatchSize + 1, UpTo((n + 1) * BatchSize))

entry(e) == files[e[1]][e[2]]

Keyed(batch) == {i \in DOMAIN batch : entry(batch[i]) \in Text}

(* upsertMany refuses a batch that repeats a key, insertMany a key that is *)
(* taken.                                                                  *)
Conflicts(batch) ==
    \/ Cardinality(Keyed(batch)) > 1
    \/ options.mode = "error" /\ row # Absent /\ Keyed(batch) # {}

StatusOf(e) ==
    IF entry(e) = "anonymous" \/ row = Absent THEN "inserted"
    ELSE IF options.mode = "ignore" \/ row = entry(e) THEN "skipped"
    ELSE "updated"

RowAfter(batch) ==
    IF Keyed(batch) = {} \/ (options.mode = "ignore" /\ row # Absent)
    THEN row ELSE entry(batch[CHOOSE i \in Keyed(batch) : TRUE])

Count(batch, status) == Cardinality({i \in DOMAIN batch : StatusOf(batch[i]) = status})

Commits(batch) ==
    /\ ~Conflicts(batch)
    /\ row' = RowAfter(batch)
    /\ settled' = settled \cup {batch[i] \o <<StatusOf(batch[i])>> : i \in DOMAIN batch}

Rejected == UNCHANGED <<row, settled>>

CountsOneFailure(batch) ==
    /\ Commits(batch) \/ Rejected
    /\ failed' = failed + 1
    /\ step' = IF options.failFast THEN "thrown" ELSE "write"
    /\ UNCHANGED summary

(* The call conflicts, the database fails, or the reply to a commit is     *)
(* lost: all of the batch counts as failed.                                *)
BatchFails(batch) ==
    /\ Commits(batch) \/ Rejected
    /\ failed' = failed + Len(batch)
    /\ step' = IF options.failFast THEN "thrown" ELSE "write"
    /\ UNCHANGED summary

BatchSucceeds(batch) ==
    /\ Commits(batch)
    /\ inserted' = inserted + Count(batch, "inserted")
    /\ updated' = updated + Count(batch, "updated")
    /\ skipped' = skipped + Count(batch, "skipped")
    /\ UNCHANGED <<step, failed>>

Write ==
    /\ step = "write" /\ at * BatchSize < Len(queue)
    /\ BatchSucceeds(Chunk(at)) \/ BatchFails(Chunk(at))
    /\ at' = at + 1
    /\ UNCHANGED <<files, options, queue, others>>

Finish ==
    /\ step = "write" /\ at * BatchSize >= Len(queue)
    /\ step' = "done"
    /\ UNCHANGED <<files, options, row, at, queue, summary, failed, settled, others>>

(* Other clients write, replace or delete the record under the key.        *)
Others ==
    /\ step \in {"parse", "write"} /\ others < MaxOthers
    /\ row' \in (Text \cup {Absent}) \ {row}
    /\ others' = others + 1
    /\ UNCHANGED <<files, options, step, at, queue, summary, failed, settled>>

ImportNext == Collect \/ ParseFile \/ Parsed \/ Write \/ Finish \/ Others

ImportSpec == ImportInit /\ [][ImportNext]_importVars

-----------------------------------------------------------------------------
BadFiles == Cardinality({f \in 1 .. 2 : Bad(files[f])})

Settled(status) == {s \in settled : s[3] = status}

(* Every record that was read is inserted, updated, skipped or failed.     *)
AddsUp ==
    step = "done" /\ ~options.dryRun =>
        Len(queue) = inserted + updated + skipped + (failed - BadFiles)

(* What is reported as inserted, updated or skipped was; what happened and *)
(* is not reported (the reply was lost) is among the failed.               *)
NothingMadeUp ==
    /\ inserted <= Cardinality(Settled("inserted"))
    /\ updated <= Cardinality(Settled("updated"))
    /\ skipped <= Cardinality(Settled("skipped"))
    /\ Cardinality(settled) <= inserted + updated + skipped + failed

(* An import that exits with 0 ("Failed imports return nonzero",           *)
(* docs/guides/cli.md:173) has settled every entry of every file, whatever *)
(* others wrote and wherever the batches were cut.                         *)
SuccessIsComplete ==
    step = "done" /\ failed = 0 /\ ~options.dryRun =>
        \A f \in 1 .. 2 : \A i \in DOMAIN files[f] :
            \E status \in Status : <<f, i, status>> \in settled

(* No record from an invalid one on, or of a file that does not parse,     *)
(* reaches the index; a dry run writes nothing; with --fail-fast one bad   *)
(* file keeps every batch back.                                            *)
NothingUnwanted ==
    /\ \A s \in settled : s[2] \in Kept(files[s[1]])
    /\ options.dryRun \/ (options.failFast /\ BadFiles > 0) => settled = {}

(* The summary and the exit status of an import tell what it did.          *)
ImportIsTrue == AddsUp /\ NothingMadeUp /\ SuccessIsComplete /\ NothingUnwanted
=============================================================================
