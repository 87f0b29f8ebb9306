# searchgres, specified

TLA+ specifications of searchgres, a PostgreSQL library and CLI for hybrid
search: records live in one table of an *index* (a schema), a trigger queues
work for records whose text has no vector, and *drainers* claim that work in
batches, ask an embedding provider and write the vectors back.  Everything the
library promises under concurrency rests on PostgreSQL statements: what they
see, what they lock, and what they find after waiting.  That is what most of
these modules are about; the rest is about the processes of the CLI (workers,
shutdown, exit status, tokenizer threads, import, page-by-page loops) and about
the pure algorithms that are easy to get wrong at a boundary (filters and their
texts, fusion, tree counts, truncation).

Paths are relative to the repository; `core/` is `packages/core/src/` and
`cli/` is `packages/cli/src/`.  `PROJECT.json` is the index of this directory:
components, runs, the code lines each definition stands for, hazards, findings
and theorems.

1. [Inventory](#1-inventory)
2. [Modules and how they correspond to the code](#2-modules-and-how-they-correspond-to-the-code)
3. [Runs, bounds, what they show](#3-runs-bounds-what-they-show)
4. [Fairness](#4-fairness)
5. [Proofs](#5-proofs)
6. [Where the code and its documents disagree](#6-where-the-code-and-its-documents-disagree)
7. [What is not modelled, and the plan](#7-what-is-not-modelled-and-the-plan)

## 1. Inventory

For each part: its state, its operations, how it meets the others, what is hard
about it, and what makes it correct.

**Record table and its triggers** (`core/create-index.ts`).  State: `record`
(id, tree, name, content, meta, temporal, embedding, content_version, version)
with a unique `(tree, name)`, and `embedding_queue`.  `record_integrity`
decides on every update which versions advance and whether the old vector
survives; a second pair of triggers enqueues `(record, content_version)` when a
row without a vector appears; deleting a record cascades to its queue rows.
Everything that writes records passes through these.  Hard: the version must
move exactly when the embedding input does, or the fence below is worthless.
Correct: a queue row that matches its record's version describes it.

**Embedding queue and drainers** (`core/db/embedding-queue.ts`,
`core/embedding-worker.ts`, `core/embedding.ts`).  State: queue rows with
outcome, attempts and `visible_at`; per drainer the claimed batch in memory.
Operations: sweep, claim (`SKIP LOCKED`), complete, fail, release, prune, list
and retry failures.  Drainers never talk to each other: lease, attempts and the
`content_version` fence are the whole protocol.  Hard: provider calls of
seconds between claim and write-back, edits meanwhile, crashes at any point,
lost replies, leases that lapse while the drainer still works.  Correct: a
vector always embeds the present text, a caller's vector is never overwritten,
no work is lost, attempts are bounded, terminal rows stay, and every record
settles.

**Record writes** (`core/write.ts`, `core/db/routines/batch-upsert.ts`).  One
routine of three statements: an alias probe, one insert-on-conflict of three
arms, a resolution of skipped names.  Hard: each statement sees a newer
snapshot than the last, conflicts wait for other transactions, and a skipped
name is looked up in a later statement, which finds the row that was met only
because ON CONFLICT DO UPDATE keeps it locked though its WHERE is false.  Correct: what a call answers is what it committed; an error wrote
nothing.

**Single-record operations** (`core/records.ts`, `core/db/routines/records.ts`)
and **subtree operations** (`core/tree.ts`, `core/db/routines/tree.ts`).  Get,
optimistic patch, delete by id or name; move, copy, delete of subtrees; counts,
views and listings.  Hard: a statement picks rows in its snapshot and looks at
them again after waiting (READ COMMITTED), row by row.  Correct: no lost
update, one record per address, subtree calls touch only what is in the subtree
when they touch it; counts add up.

**Transactions and row locks** (`core/open-index.ts`, with the statements of
the parts above).  `Index.with(tx)` binds record and tree calls to a transaction
the caller owns: its rows stay locked, and unseen, for as long as the caller
likes, and may be rolled back.  Drainers work beside it with statements that are
transactions of their own.  Hard: the write-back takes the queue row and then
the record, a delete the record and then, by cascade, its queue rows; whoever
waited must look again.  Correct: what is committed keeps the embedding
contract and its queue rows, and the only circle of waits is the one between a
delete and a write-back.

**Index lifecycle** (`core/create-index.ts`, `core/open-index.ts`,
`core/drop-index.ts`, `cli/config/provision.ts`).  State: schemas, their marker
and shape, the installed extensions, one advisory lock.  Hard: existence is
checked in one statement and acted on in another; opening reads four catalogs
in four statements; other users of the database hold no lock.  Correct:
creators are serialised, nothing is replaced, a handle describes one index.

**Search** (`core/search.ts`, `core/db/routines/search.ts`).  No state.
Boolean filters are checked twice (TypeScript and PL/pgSQL) and compiled to
SQL; hybrid search fuses a keyword and a vector ranking by reciprocal ranks;
filter-only search pages by key.  Hard: two copies of one rule, three-valued
logic, candidate pools against limits.

**Process lifecycle** (`core/embedding-worker.ts`, `cli/runtime/index.ts`,
`cli/mcp/command.ts`, `cli/embeddings.ts`, `cli/cli.ts`, `cli/bin.ts`).  State:
worker loops with their abort signals and error counts, the set of active
operations, the closing promise, the grace timer, the exit status.  Hard:
`stop()` in any await, operations accepted around `close()`, work that hangs, a
`close()` that fails, signals and end of input in any order, delays that grow.
Correct: resources outlive the work that uses them, stopping ends, the exit
status is true, a failing worker slows down and a throttled one keeps away.

**Tokenizer pool** (`cli/tokenizer/tokenizer-pool.ts`).  State: a queue of
jobs, slots with a thread and perhaps a job, events not yet delivered.  Hard: a
dead thread tells twice (`error`, then `exit`), perhaps after its replacement
has a job.  Correct: every job is in one place and settles, no slot idles while
jobs wait.

**Bulk export and retry-all** (`cli/bulk.ts`, `cli/embeddings.ts`).  Loops over
keyset pages of a table that changes between pages.  Hard: rows come and go on
both sides of the cursor, and keys that are given out grow, so the end of the
table runs ahead of the loop.  Correct: nothing twice, nothing that stayed is
missed, and the loop ends unless new keys come for ever.

**Bulk import** (`cli/bulk.ts`).  Files are read and validated, then their
records go out in batches, each one `upsertMany`.  Hard: one bad record in a
file, one failing batch among others, a reply that is lost, other writers.
Correct: the summary and the exit status tell what happened.

**The filter language** (`cli/filter/index.ts`) and **truncation**
(`core/truncate.ts`).  No state.  A recursive descent with limits; cuts at code
units and bytes.  Correct: a text is read as what it says or refused; a cut is
as late as it may be and leaves whole code points.

**The rest**: configuration, argument parsing, presentation, the MCP tools'
schemas, telemetry, validation, session settings, vendored tokenizer assets,
examples, scripts and containers.
They are listed in `PROJECT.json` with the reason each is left out.

## 2. Modules and how they correspond to the code

| module | models | state |
| --- | --- | --- |
| `EmbeddingContract` | what the pipeline promises about a record's text and vector (abstract) | `slot` |
| `EmbeddingQueue` | triggers, queue statements, drainers | `record, queue, nextId, pc, batch` and the history `pruned` |
| `BatchUpsert` | `upsertMany` and `batch_upsert` | `table`, per call `pc, batch, mode, done, own, locked, answer` |
| `Transactions` | callers' transactions of several calls and drainers' statements, lock by lock | `committed, draft, owner`, per session `stmt`, per drainer `batch, pc`, `nextId` |
| `RecordOps` | patch, delete, deleteByName, moveTree, copyTree, deleteTree | `record`, per client what it `read`, its `call`, its `answer` |
| `TreeViews` | countTree, treeView, listTree | the placement of records and one answer |
| `Provisioning` | createIndex, openIndex, dropIndex, init, destroy | `schema, extension, lock`, per caller `pc, name, ...` |
| `Runtime` | worker loops, `run`, `close`, `installShutdown` | `loop, sized, aborted, op, runtime, awaited, timer, process` |
| `TokenizerPool` | the pool | `queue, current, thread, dead, events, promise, closed` |
| `Command` | one command: its body, signals, end of input, `close()`, the exit status | `kind, body, stop, asked, listening, done, stdin, over, exitCode, command` |
| `WorkerPace` | what a provider's error says, back-off, sleep | `interval, errors, pace, why, thrown, slept, hidden` and the history `backedOff` |
| `Keyset` | the page operator of both paging loops | none |
| `Export` | the export loop | the table, cursor, page, output |
| `CliProcess` | `Runtime` and `TokenizerPool` composed: work that waits for truncations, a close that shuts the pool | theirs, and `awaits` |
| `RetryAll` | `retry --all` | failed and pending rows, cursor, page, counters |
| `Import` | the import of files in batches | files, options, the record under the one key, queue, summary, and the history `settled` |
| `Filters` | shape limits, the regexp rule, three-valued evaluation | a filter and two verdicts |
| `HybridSearch` | rank fusion | two scorings, a query, its result |
| `FilterText` | the parser of `--filter` | an expression, its text (perhaps with a slip), what is read |
| `Truncate` | truncateCharacters, truncateBytes | a text, a limit, the cut |
| `TraversalProofs` | theorems of `Export`, `RetryAll` and `Import` | theirs |
| `QueryProofs` | theorems of `TreeViews`, `HybridSearch`, `Filters` and `Truncate` | theirs |
| other `*Proofs` | theorems of the module they are named after (`CliProcessProofs`: also of `Runtime`, `TokenizerPool`, `Command` and `WorkerPace`) | theirs |
| `MCClient` | one of eight things a client does: a tree view, a filter, a filter text, a hybrid search, a cut, an export, an import, a retry of everything; its traversals never run out of keys | theirs |
| `MCCliProcess` | one of three sides of a process: `CliProcess`, `Command`, `WorkerPace` | theirs |
| other `MC*` | constants and symmetry for model checking | none |

Some definitions next to a mapped one are plausible mistakes in the same line
of code (`UnfencedFinish` next to `Finish`, `CursorInclusive` next to
`Listed`).  No specification uses them; each belongs to one property in
`PROJECT.json` `mutants`, as evidence that the property would notice.

**EmbeddingQueue.**  A record keeps text, `content_version` and vector; `meta`,
`tree` and the rest do not reach the embedding.  `Insert`, `Copy`, `Update`,
`Delete` are the effects of every write in the library on those columns with
their triggers: `RecordIntegrity` is the trigger function of the same name,
`Enqueue` the two enqueue triggers.  A drainer goes through `idle` (`Sweep`),
`claim` (`ClaimBatch`: the candidates and, for vanished or changed records, the
immediate cancellation), `embed` (three outcomes of the provider: vectors, a
batch fault that releases, an ordinary failure that only records an error),
`write` (`Complete`, one row at a time, or `WriteBackFails` for a database
error or a lost reply) and `defer`/`free` (`Release`).  `Abandon` is a crash, or
an error that leaves the rest of the batch alone.  Each is one statement of the
code and so atomic.  Time is one bit per row: `visible_at` is past or future,
and `LeaseLapse` lets it pass at any moment, also while the drainer still works.

`EmbeddingContract` knows only `slot[r]` (text and vector of a record) and the
four things that may happen to it: a caller writes, copies, deletes, or a
vector of the *present* text appears where there was none.  `ImplementsContract`
says that the whole pipeline shows the record table nothing else.

**BatchUpsert.**  `Start` is the client's validation, `Probe` the alias check,
`MutateRow` one row of one arm (arms run in the order of the CTEs: named, then
id-keyed, then anonymous), `MutationEnds` the `error`-mode raise, `Resolve` the
lookup of skipped names, `Commit` or `Rollback` the end, where `Rollback` also
stands for timeouts and deadlock victims.  A row someone else holds is waited
for; after the wait the row is looked at again, as ON CONFLICT does.  Deletes,
renames and write-backs by others are `Delete`, `Rename` and `Embed`.

**RecordOps.**  A call is two steps: `*Begins` picks rows in the statement's
snapshot, `*Applies` is the moment it holds the row locks and re-evaluates its
condition on the rows as they now are.  Between them anything may happen.
Subtree updates visit rows in any order, because the unique index is checked
row by row.

**Transactions** takes the statements of `EmbeddingQueue` apart once more.  A
row - a record or a queue row - has a committed image, a draft that only its
owner sees, and an owner; a statement in execution is the row it wants next and
those it wants later, so a session waits exactly when that row is another's.
`PutBegins` and `PutRow` stand for every insert, upsert and patch of one or more
records, `DeleteBegins`, `DeleteRow` and `CascadeRow` for every delete;
`Commit` and `Rollback` are the caller's.  A drainer's `SweepBegins`/`SweepRow`,
`ClaimBatch` (which skips locked rows and so never waits), `Fence` (the
`active` CTE of completeEmbedding), `WriteBack` and `SettleRow` commit on their
own; `Crash` and `StatementFails` may end any of them, also as the victim of a
deadlock.  `KeepsContract` says of committed rows what `EmbeddingContract` says:
a vector appears only beside the text it embeds and never over another.

**Provisioning.**  createIndex is a transaction: `Begin`, `Lock` (the advisory
lock), `SchemaExists`, `EnsureExtension`, `CreateSchema`, `Commit`, with
`Crash` anywhere.  All it creates appears at its commit.  openIndex is
`ReadMarker`, `ReadColumn`, `ReadOpclass`; dropIndex `ReadMarker`, `Drop`; init
adds a `Lookup` and its handling of the conflict.  `OthersCreate` and
`OthersDrop` are users of the same database who know nothing of the lock.

**Runtime.**  A worker loop moves between its awaits: `LoopHead` (the `while` test),
`ResolveSize`, `Tick` (the second look at the signal, right before the claim),
`BatchEnds`, `Prune`, `Wake`.  `Run` and `OpEnds` are `runtime.run`;
`Shutdown`, `Settled`, `ShutTokenizer`, `EndPool`, `Exit` the steps of
`close()` under `installShutdown`, `GraceExpires` its timer.

**TokenizerPool.**  `Submit` and `Dispatch` are `truncateMany` and `#dispatch`,
`Message` an answer, `Die` the death of a thread, which emits its two events,
`Deliver` the arrival of one of them (`#replaceWorker`), `Shutdown` the method.

**CliProcess** composes the two.  `Truncate` is one text of an `embedTexts` call
handed to the pool by a running worker batch or operation, which afterwards ends
only when its `Promise.all` has its answers or one of them fails (`Leave`, taken
together with Runtime's `BatchEnds` or `OpEnds`).  `SettledThenShut` is the
moment `close()` goes on after the last of the work: it sets `closed` and calls
the pool's `shutdown()` without an await in between.  Everything else is a step
of one of the two alone, and the pool stops with the process.

**Command.**  `BodyEnds` and `Released` are the ends of the `try` block of
runCommand, runEmbeddings or runMcp; `AskedBy` is `stop()` with the promise it
memoizes, which `Signal`, `Eof` (the end of stdin, or a transport that closes)
and the `finally` share; `CloseResolves` and `CloseRejects` settle it, with the
`finally` of installShutdown and the `catch` of whoever asked; `Returns` is
`bin.ts`, which turns what was thrown into the exit status.  How long `close()`
takes and for whom is `Runtime`'s, so here it may settle when the body of a
command has ended, or never.

**WorkerPace.**  One step per pass of the loop (`Works`, `Idles`, `Fails`,
`Limited`) and `Wakes`.  `Limited` carries the error as the attempts it wraps;
`IsRateLimit` and `Headers` look into it the way isRateLimitError and
responseHeaders do.  `Timer` is setTimeout, which turns a delay it cannot hold
into 1 ms.

**Import.**  `Collect`, one `ParseFile` per file, `Parsed` (where a dry run ends),
one `Write` per batch, which commits and is answered, or fails - in the
database, or after the commit, when the reply is lost - and `Finish`.  A batch
decides what becomes of its entries as `BatchUpsert` does for a single key;
`Others` writes that key in between.

**Export, RetryAll.**  One action per statement of the loop (`Read`/`Write`,
`List`/`Retry`), one for what others do to the table in between.  Both number
their keys from 1 to a bound, which is right for what a traversal reads, and
would make every loop end by itself.  `MCClient` therefore adds one step to
each, of no code: when a page is done the keys past the cursor are counted from
it (`ExportRenumbers`, `RetryRenumbers`).  Only the order of keys and their
distance from the cursor matter to either loop, and what lies behind the cursor
is never listed again, so the step changes nothing but the names; afterwards the
keys up to the bound are free for rows to come, and the writers' allowance
(`MaxWrites`) is theirs again.

**Filters, HybridSearch, TreeViews, Truncate.**  Initial states enumerate all
inputs within the bounds, one action computes the answer by the code's
algorithm, the properties compare it with what the answer means.

**FilterText.**  The initial states are all expressions up to a height, written
down as tokens; one action leaves a token out, puts one in or exchanges one, and
the parser reads the result.  The property compares what is read with the text,
by writing it down again.

## 3. Runs, bounds, what they show

Run a configuration with `tlc -config <cfg> <module>`.  All finish within
three minutes on two cores.  A run that asks several independent questions of a
module family (`records`, `process`, `client`) has a variable `about`, chosen at
the start: a behaviour is about one of them and the variables of the others
rest, so that one instance needs no product of their states.  `MCClient` and
`MCCliProcess` extend the modules they put side by side, so what they check are
the very formulas the theorems of section 5 are about; only `FilterText`, about
which there is no theorem, is an instance.

| run | module / cfg | bounds | shows |
| --- | --- | --- | --- |
| queue_safety | `MCEmbeddingQueue` / `EmbeddingQueue_safety` | 1 record, 2 texts, 1 caller vector, 2 drainers, one with 3 attempts and one with 2, 3 versions, 3 queue rows | fence, one open row per version, no lost work, faithful claims, attempts within the drainers' limits, terminal rows |
| queue_liveness | `EmbeddingQueue_liveness` | 2 records, 2 texts, 2 drainers, batches of 2, 1 attempt, 2 versions, 2 queue rows | the pipeline implements its contract, every record keeps settling in spite of crashes |
| upsert_calls | `MCBatchUpsert` / `BatchUpsert_calls` | 2 calls at a time, 3 in all, 2 names, 3 ids, 3 modes | batches apply, answers and statuses are true, vectors survive a replace that does not touch their text |
| upsert_alias | `BatchUpsert_alias` | batches of an id and a name | *violated*, see 6 |
| transactions | `MCTransactions` / `Transactions_locks` | 2 records, 2 texts, any 3 of 2 callers and 2 drainers, 2 versions, 2 queue rows, batches of 2, 1 attempt | committed rows keep the contract and their queue rows, only deletes tangle with write-backs |
| claims_block | `Transactions_claims` | the same | *violated*, see 6 |
| records | `MCRecordOps` / `RecordOps_calls` | 2 clients; 1 record, 2 texts, any set of fields, or 2 records, 1 text, 2 levels | no lost update, no vector beside another text, one record per address, calls stay with what they address |
| records_stale | `RecordOps_stale` | 1 record, 2 clients | *violated*, see 6 |
| provisioning_calls | `Provisioning` / `Provisioning_calls` | 1 schema, 2 vector types; a creator, an init, an opener, a dropper | extensions installed once, consistent handles, no schema replaced or dropped by mistake, nobody waits for ever |
| init_race | `Provisioning_init` | 1 schema, a creator and an init | *violated*, see 6 |
| process | `MCCliProcess` / `CliProcess_shutdown` | 1 worker, 1 operation, 3 texts, 2 threads, 2 deaths; or one command of each kind with any signals; or intervals 1, 3, 9, Retry-After 2 and 20, timers to 16, 5 errors | resources outlive work, no claim after a stop, jobs are kept, stopping and shutting down end and fail no waiting work; the command ends with a true exit status; the pace is held |
| client | `MCClient` / `Client_requests` | 3 records, 2 labels, 2 levels; filters to height 3 and their negations against limits 3 and 6; filter texts to height 4 with one slip against limits 3 and 5; 3 scored records, 3 scores, k to 1, weights 0, 1/2, 1, limits to 3; texts of 4 code points cut at 1 to 6; 5 records exported in pages of 2, limits to 4, 3 writes of others per page; 4 failures in pages of 2, both with keys beyond the cursor without end; two files with 3 entries, batches of 2, 1 write of others | counts and listings, one verdict on a filter and the regexp rule, complements, what a filter text says, fusion, tight cuts, exact export, import and retry; an export with a limit ends, one without ends unless records arrive beyond its cursor for ever, a retry of everything ends unless new rows are enqueued and fail ahead of it for ever |

Why these bounds are enough for the cases that matter:

- *Queue.*  Three versions of one record allow edit, edit back to the old text
  and delete-and-reinsert under the same id around one claim; two drainers with
  batches of up to two let one hold a row whose lease lapsed while the other
  claims it; limits of two and three attempts reach the refund, the sweep, and a
  row that one drainer calls exhausted and the other does not.  The second run has
  two records instead, so that a batch settles row by row, one row of it can
  fail while the other succeeds, and vectors of copies matter.  Symmetry (of
  drainers, records and texts; of the ids, texts and clients of other modules)
  is used in runs without liveness only.
- *Upsert.*  The batches (in `MCBatchUpsert`) are chosen to overlap: the same
  name twice, an id that holds a name of the other batch, anonymous inputs.
  Two calls at a time are enough for every wait; a third lets one come after.
- *Transactions.*  A circle of waits needs two sessions, a wait behind a wait
  three; two records let a call hold one and want the other.  `MaxSessions`
  takes three of the four sessions there are, of whichever kind.
- *Records.*  `Width` bounds how many fields one patch sets; `about` opens the
  dimension a question needs (contents for patches, levels for moves).
- *Provisioning.*  A creator and an init contend for the lock and for the same
  name while another drops what they made and a third reads it; the extensions
  may be missing at first.  That the one lock also covers different schemas is
  proved (section 5), for any number of them.
- *Process.*  A thread that dies after its slot was replaced needs two deaths.
  Three texts on two threads leave one queued; two belong to the worker, so a
  failed one can leave another of the same call behind.  `Interval`,
  `RetryAfter`, `Longest` and `TimerMax` stand in the order of the real numbers:
  an interval above the longest back-off, a Retry-After no timer can hold.
- *Paging.*  Pages of two over four or five keys give a first, a full middle
  and a short last page.  Keys are
  counted from the cursor anew after every page (section 2), so there are always
  four or five beyond it, and three writes per page let others keep every page full.
- *Import.*  Three entries in two files give a good and a bad file, a bad record
  before and behind good ones, a full and a short batch, the key twice in one
  batch and in two.
- *Texts.*  A slip in an expression of height four reaches every branch of the
  parser, and the limits 3 and 5 lie inside what is written.  Four code points
  of up to four bytes cut at up to six bytes leave every remainder.

The bounds are `MaxVersion`, `MaxQueueId`, `MaxSessions`, `MaxCalls`,
`MaxDeaths`, `MaxErrors`, `MaxWrites`, `MaxOthers`, `MaxEntries`, `MaxId`,
`MaxRow`, `Depth`, `Shallow`, `Width`, `Height`, `Tall`, `MaxText`, `MaxCut`,
`MaxHit`, `MaxScore`, `MaxK`, `MaxWeight`, `MaxResults`, `MaxExport` and
`MaxLimit`, and small values for the code's own `MaxDepth`, `MaxNodes`
(`TextNodes` of filter texts), `PageSize` and `BatchSize`; they stand in guards of the
environment's actions (writers stop, callers make no more calls) or bound the
inputs, never the code's own steps.  No liveness property of a loop over keys
rests on such a stop: see Export and RetryAll in section 2.
Deadlock checking is off where a system nobody calls, or one whose bounded
environment has used up its calls, rightly stops; in `Provisioning`, whose
callers may call again for ever, it is on.

## 4. Fairness

- `EmbeddingQueue!FairSpec` (queue_liveness): a drainer between two statements
  goes on (its loop has no other way to go), leases lapse (time passes), a row
  that is claimable again and again is claimed (the claim takes the oldest
  visible rows first; `SKIP LOCKED` passes over a row only while another session
  has it), and a row that is sent to the provider again and again is once
  answered with vectors or an ordinary error.  Only a rate limit or a wrong
  dimension *for ever* is excluded: such a fault refunds the attempt, so a
  provider that always answers so is retried for ever, by design.  `Abandon`,
  writers and pruning are not fair: nothing is assumed of crashes.
- `Provisioning!FairSpec` (provisioning_calls): statements of a caller that is
  not waiting return; PostgreSQL grants the lock in the order of waiting, hence
  strong fairness of `Lock`.  A caller may die at any statement.
- `CliProcess!FairProcessSpec` (process): timers fire, promises that are due
  settle, operations and batches end when the pool has answered them (every
  other wait of theirs is a statement or a request with a timeout), a live
  thread answers, emitted events arrive.  `Stop`, `Run`, `Shutdown` and the
  deaths of threads are the environment's, and nothing is assumed of the grace
  timer: shutting down completes without it.
- `MCCliProcess!SideSpec` (process) adds the fairness of `Command!FairCommandSpec`: the
  grace timer fires, and what is due to run runs (a body that only waits for the
  abort or for `done`, the `finally`, the exit).  Nothing says that a body ends
  by itself, that `close()` settles, that stdin ends or that a signal comes.
  WorkerPace has no liveness.
- `MCClient!ClientSpec` (client): the calls of an export and of a retry
  return.  Nothing is assumed of what others do to the table, and nothing bounds
  it but the number of writes between two pages and of rows beyond the cursor.

## 5. Proofs

Checked by TLAPS for every value of the constants within the named assumptions
of each module.

| theorem | statement |
| --- | --- |
| `EmbeddingQueueProofs!TypeCorrect` | `Spec => []TypeOK` |
| `EmbeddingQueueProofs!FenceSafety` | `Spec => []FenceIsSound` |
| `EmbeddingQueueProofs!ClaimSafety` | `Spec => []ClaimsAreFaithful` |
| `EmbeddingQueueProofs!Implementation` | `Spec => ImplementsContract` |
| `EmbeddingQueueProofs!WorkIsQueuedOnce` | `Spec => []OneRowPerVersion` |
| `EmbeddingQueueProofs!WorkSurvives` | `Spec => []NoWorkLost` |
| `EmbeddingQueueProofs!TerminalRowsAreFinal` | `Spec => TerminalIsFinal` |
| `EmbeddingQueueProofs!AttemptsStayBounded` | `Spec => []QueueIsInLimits`, the types and `AttemptsAreBounded` |
| `TransactionsProofs!CommittedWorkIsQueued` | `Spec => []WorkIsQueued` |
| `TransactionsProofs!CommitsKeepContract` | `Spec => KeepsContract` |
| `TransactionsProofs!OnlyCascadesTangle` | `Spec => []OnlyDeletesTangle` |
| `BatchUpsertProofs!VectorsSurvive` | `Spec => VectorSurvivesReplace` |
| `BatchUpsertProofs!BatchesApply` | `Spec => [](Unmixed => BatchApplies)` |
| `BatchUpsertProofs!AnswersStayTrue` | `Spec => [](Unmixed => AnswersAreTrue)` |
| `RecordOpsProofs!NamesStayUnique` | `Spec => []NamesAreUnique` |
| `RecordOpsProofs!VectorsStayTrue` | `Spec => []VectorDescribesContent` |
| `RecordOpsProofs!PatchesOverwriteWhatWasRead` | `Spec => PatchOverwritesWhatWasRead` |
| `RecordOpsProofs!CallsChangeWhatTheyAddressed` | `Spec => OnlyWhatWasAddressed` |
| `ProvisioningProofs!CreationIsSerialised` | `Spec => []Serialised` |
| `ProvisioningProofs!ExtensionsInstalledOnce` | `Spec => []NeverInstalledTwice` |
| `ProvisioningProofs!SchemasStaySafe` | `Spec => SchemasAreSafe` |
| `ProvisioningProofs!HandlesMatchTheirIndex` | `Spec => HandleMatchesIndex` |
| `CliProcessProofs!WorkEndsFirst` | `Spec => []ResourcesOutliveWork` |
| `CliProcessProofs!StopPreventsClaims` | `Spec => NoClaimAfterStop` |
| `CliProcessProofs!ProcessIsRuntime` | `ProcessSpec => Spec` |
| `CliProcessProofs!ProcessWorkEndsFirst` | `ProcessSpec => []ResourcesOutliveWork` |
| `CliProcessProofs!ProcessStopPreventsClaims` | `ProcessSpec => NoClaimAfterStop` |
| `CliProcessProofs!TokenizationEndsLast` | `ProcessSpec => TokenizationOutlivesWork` |
| `CliProcessProofs!JobsStayInPlace` | `ProcessSpec => JobsAreKept` |
| `CliProcessProofs!ExitStatusIsTrue` | `CommandSpec => []ExitTellsTruth` |
| `CliProcessProofs!PaceStaysHeld` | `PaceSpec => PaceIsHeld` |
| `TraversalProofs!ExportsAreExact` | `ExportSpec => []ExportIsExact` |
| `TraversalProofs!RetriesAreExact` | `RetrySpec => []RetryIsExact` |
| `TraversalProofs!ImportsAreTrue` | `ImportSpec => []ImportIsTrue` |
| `QueryProofs!TreeCountsAreTrue` | `TreeSpec => []TreeCountsAddUp` |
| `QueryProofs!HybridOrderIsRight` | `HybridSpec => []HybridIsExact` |
| `QueryProofs!GuardsAlwaysAgree` | `FilterSpec => []GuardsAgree` |
| `QueryProofs!NegationIsExact` | `FilterSpec => []NotIsComplement` |
| `QueryProofs!CutsAreTight` | `CutSpec => []TruncationIsTight` |

So every safety and action property of a run is a theorem, but for one
(`FilterSaysWhatIsWritten`, see the end of this section); two of them
(`BatchApplies`, `AnswersAreTrue`) under the hypothesis `Unmixed`.

*The queue.*  Neither the fence nor the claims are inductive alone.  `Inv` adds
`FreshIds` (ids the identity column has not given out name no row) and
`ClaimedIdsAreSpent` (a claim names an id that was given out): without them a
claim could, after its row was pruned, suddenly speak about a new row with the
same id.  `TypeStep` covers types action by action; `InvStep` splits into one
lemma per action that touches records, with `QueueStep` for those that only
rearrange the queue and `WriteStep` for those that write one record.  The
implementation maps `slots` (text and vector of each record) to the contract:
`StepImplements` shows that writers map to the contract's writer, that a
write-back which passes the fence is the contract's embedding step, because
`ClaimsAreFaithful` says that its vector embeds the present text and
`FenceIsSound` that there was none, and that everything else stutters.
`WorkInv` adds to `Inv` what the queue keeps for later: one row per version,
`SettledIsPast` (a completed or cancelled row is for a version its record has
left) and `NoWorkLost` itself: settling a row as completed or cancelled then
never takes the one that the present version of a record waits for, and a row
that comes new is for a version that no row had.  `AttemptsAreBounded` is
inductive beside the types: only a sweep makes a row failed, only a claim counts
up, and a release counts down open rows only.

*Transactions.*  `IInv` has the type invariant and fourteen parts in four groups.
What a lock means: a row that nobody holds is as committed, a queue row a caller
holds is one it enqueued or removes, and then it holds the record as well
(`CallerRow`), one a drainer holds it may only settle (`DrainerRow`).  Where a
statement is: `CallerPlan`, `DrainerPlan`, `PlansArePast`.  What everybody sees:
`RowsRefer`, `WorkIsQueued`.  And what a transaction owes before it may commit:
each record it drafted is enqueued under the drafted version or keeps what it
had (`DraftsAreMended`), the rows of each record it deleted are gone or still
ahead of its cascade (`DeletesCascade`).  Committing pays the debt, so
`WorkIsQueued` survives; a rollback keeps what was committed.  The proof has
two abstractions, `CallerMove` and `DrainerMove` (what any step of the one may
do to the rows and plans of the others), and one lemma per action that it is
such a move.  `KeepsContract` follows from `Supplied` (a draft's vector is the
caller's, or the old one beside the old text) and `ClaimsHold` (a drainer writes
the text it claimed, under the fence).  `OnlyDeletesTangle` is an argument about
circles: without a cascade callers wait for records only, which callers alone
hold, so in a smallest circle with a drainer there is no caller; then no drainer
waits for a record, so each waits for a queue row that a sweep holds, and the
sweeps alone are a circle already.

*Upserts.*  That no write takes the vector of a text it leaves alone needs only
the types, the exclusion of locks and `OwnKeeps` (each row a call has prepared
keeps the vector of the row it will replace), and holds of all batches.  The other
two need names: stored rows, prepared rows and prepared rows of different calls
never clash, and each outcome of a call says what became of its input
(`Handled`: changed as asked, or found under a lock).  They are proved for
`Unmixed` batches: none has both a record with a name and a record with only an
id.  In a mixed batch the two may turn out to be one record between the alias
check and the mutation; the run `upsert_alias` shows the call that then answers
falsely, so without the hypothesis the theorems would be wrong.

*Record operations.*  `NamesAreUnique` and `VectorDescribesContent` hold by
induction with the types and `AnsweredIsIdle` (who has an answer makes no call).
Uniqueness is preserved row by row: an update of a subtree succeeds only if the
rows it ends with have different addresses, whatever their order.  The two
action properties add that a call which waited applies to rows that meet its
condition *when it holds them*.

*Traversals.*  Four facts about a page of module `Keyset`: it has no gap, at most
n keys, its last key is its largest, and one that is not full has all that is
left.  With them, what lies in the file is behind the cursor, what is about to be
written ahead of it, and no record that stayed was passed over: `NoneIsPassed`
says so at the cursor, and at the last key of a page not yet written, so it
survives whatever others write between reading a page and writing it.  `RetryInv`
has the same form, with `RowsAreOld` for queue ids that only grow.

*Imports.*  `Shape`: queued entries are different ones, each among the first of
its file that `Kept` keeps (`KeptIsPrefix`, `Numbered`).  `Reading`: until the
first batch nothing is settled, and a good file that was parsed is wholly queued.
`Writing`: the entries sent are the first of the queue, each is in the summary or
among the failed, and whatever is settled is one of them.  So a batch is new to
the index (`ChunkFollowsSent`), and its commit adds as many outcomes of each kind
as the summary counts (`CommitAddsOutcomes`), whether or not its reply arrives.

*Provisioning.*  `InstallIsFirst` (whoever is about to install an extension
found it missing, and it still is) makes the lock's invariant inductive; it
needs `Serialised`, because only the lock holder installs.  `Reserved` (a
creator about to commit holds a schema name nobody else has committed) does
the same for `CreateNeverReplaces`.  Its other half, `MistypedNameIsSafe`, is a
formula of temporal logic about one dropper and the name it was given:
`NoAnswerYet` (whoever is in a call has no answer) makes it `Harmless` at its
check, and without an index under its name it stays so, because only the check
leads to the drop.  A handle is answered in the step that
reads the last of the four catalogs, so `HandlesMatchTheirIndex` is about that
step alone, and that no other action answers from there.

*Runtime.*  `ListIsComplete`: the list `close()` took contains every worker and
operation that was running then, and since no later one is accepted, every one
that is running now.

*The process.*  `ProcessIsRuntime` shows that the composition only adds guards and
variables to `Runtime` (every step is one of its steps or a stutter), so its two
theorems carry over.  `WaitsInv` says that only work that runs waits for the pool
and that the pool is closed exactly from the moment `close()` says so; with
`Runtime`'s invariant, nothing runs by then, so no promise that the shutdown or a
later submission rejects has anyone waiting for it.

*The pool.*  To the pool the process only decides when its steps are taken
(`ProcessStepsPool`), so its invariant is proved of the pool alone.  `PoolInv`
says that a job lies in the queue once or in one slot (`Tidy`), that a promise
is open exactly while its job lies somewhere, and that an undelivered event comes
from a thread that died.  The hard step is the dispatch, which moves the head of
the queue to the free slots in one go: the rank of a slot among the free ones is
its place in the queue, and by the pigeonhole theorem on injections the ranks of
the n free slots are 1 to n, so each job that leaves the queue reaches one slot.

*The command.*  `ExitInv` says for each way the body ended what the exit status is
before and after the `finally`, as long as `close()` has not failed; once it has,
the status is not 2, and 1 from the moment the `finally` met the failure.

*The pace.*  `PaceInv` ties the last sleep to its cause, and after an error to the
error count: it was `Backoff(errors)`.  The powers of two in it are sizes of power
sets to the prover (`PowerDoubles`), from which follow that a back-off doubles
until it has reached the longest, and never shrinks.

*Trees.*  `ExpandCounts`: expanding each record to the nodes above it, as the SQL
does, counts it at every node of its path between two depths, because a path has
one beginning of each length.  `BelowSplits`: what lies below a node is at it or
below exactly one of its children; with `SideBySide` (disjoint sets, each as large
as a number says, are together as large as the sum) the children of a listing and
its direct records add up to its total.

*Hybrid search.*  `PlacesAreTaken`: if a relation puts a finite set in a row,
one plus the number of members ahead of each is a number from 1 to n, and every
such number is taken.  It holds of the ranks in an arm and again of the
positions in the fused list, so the answer is a sequence without gaps or
repetitions.  A better rank has a share at least as large (`QuotientsFall`:
division rounds down, but never the wrong way), hence `ScoreFollowsArms`; and the
candidate pools are as large as the limit, hence `AsManyAsAllowed`.

*Filters.*  Filters of each height are made of filters of the height below
(`FilterGrows`).  That a judgement which is defined by recursion on the height
exists and satisfies its equations on every level is `FoldExists`;
`FilterInduction` then proves of all filters what holds of the leaves and is
handed on by `not`, `and` and `or`.  With it the library's and the database's
analyses are compared part by part (`FindingsAgree`), a compiled filter is shown
to be true or false, never null, of each record (`FiltersDecide`), and `Settled`
says what the analysis is worth on two records that no indexable leaf selects and
that differ only in what a regexp says of them: without an unguarded regexp the
filter judges both alike, and where it found a guard it selects neither.

*Cuts.*  `Sums` and `Ends` are recursive functions over the positions of a text;
`SumsAddUp` and `EndsAddUp` give their equations.  In bytes, `Longest` is the last
beginning that fits (`LongestFits`); decoding it may add a replacement character,
and what the code then takes off leaves a part of the text that fits and has lost
nothing but a byte order mark or a replacement character at its end
(`DecodedIsPart`, `BytesAreFitted`).  In UTF-16 code units, each unit
belongs to exactly one code point (`UnitIsOfOne`), so a cut that does not divide a
pair is the end of a beginning (`CutIsAnEnd`), and the last such.  `CutInv` says
that the cut of a state is the code's cut of its text.

*Assumptions.*  The named `ASSUME`s of the modules: the special values (`NoRow`,
`NoVector`, `Nobody`, ...) are not among the ordinary ones, limits are natural
numbers, record ids are finitely many in `RecordOps` (uuids have 128 bits), and
every text has an owner that is a worker or an operation.  The model checker
evaluates them in every run.  The bounds are constants like any other: the
theorems hold for every `MaxVersion` and `MaxQueueId`.  The inductive invariants
of the queue, `Transactions`, `RecordOps`, `BatchUpsert` and `Import` were model-checked
on small instances before they were proved.

*Induction over data.*  The library's induction theorems cannot be used with these
provers, but two facts about sets can: a non-empty set of natural numbers has a
least member (`Smallest`, from the finite intervals), so a set that contains 0, and
n + 1 with every n, contains all (`SetInduction`).  Each statement by induction is
put as a set of numbers, and a recursive function f, which is a CHOOSE, is met by
building finite tables that solve its equation (`LevelsExist`, `SumsExist`).

*Out of reach of these proofs*, and left to model checking: everything under
fairness (`EveryRecordSettles`, `EveryCallEnds`, `WorkEnds`, `CommandEnds`,
`TraversalsEnd`), and statements about `ENABLED`.  `FilterSaysWhatIsWritten` is
model-checked only as well: the parser it is about calls itself from four places
and is written with RECURSIVE operators, about which nothing can be proved; as
functions on positions it is a table that the model checker no longer gets
through at these bounds (a version of it had not started after five minutes).

## 6. Where the code and its documents disagree

Each is a run whose one property states what the document says and whose
counterexample is the code's behaviour.

- `upsert_alias`: the alias check is a statement of its own; what it excludes may
  come true before the mutation, and the call then reports an error for a batch
  it has committed (docs/guides/ingest.md:124).
- `init_race`: `init --if-not-exists` accepts SQLSTATE 42P06 only, and
  createIndex's own check raises a ConflictError without one
  (cli/program.ts:79-80).
- `records_stale`: a patch that waited for a delete reports StaleVersionError for
  a record that is gone (docs/reference/errors.md:99).
- `claims_block`: drainers are said to share one queue "without blocking each
  other" (core/db/embedding-queue.ts:79), but the sweep at the head of every
  claim does not skip locked rows.  A write-back that waits for a caller's open
  transaction holds its queue row, and every other drainer's sweep waits behind
  it if that row's lease has lapsed on its last attempt.

Behaviours the models show and that no property calls wrong, because no document
denies them or because the limits are elsewhere.  A delete in a caller's
transaction and a write-back can deadlock (`OnlyDeletesTangle` says that nothing
else can); PostgreSQL ends one of them, and a drainer then records an error.
After a `close()` that fails, a SIGTERM leaves the MCP server running until its
stdin ends, with its grace timer cleared and its signal listeners removed, so
that the next signal kills it (`CommandEnds` names the end of stdin).  A
Retry-After that setTimeout cannot hold is slept for 1 ms (`PaceIsHeld` names
it), an `intervalMs` above the longest back-off is polled faster while it fails
than while it idles, and `intervalMs: 0`, which docs/reference/api.md:331
allows, makes the back-off 0 too: `WorkerPace` takes intervals from 1.
moveTree into its own subtree is accepted and is not idempotent, although the
tool's annotation says so (cli/mcp/server.ts, `searchgres_move_tree`).  An export
without `--limit` has no upper end: while others insert a full page of records
with newer ids per page it reads, it goes on for ever, and so does `retry --all`
behind rows that are newly enqueued and fail (the two halves of `TraversalsEnd` name
exactly these cases).

Two behaviours the queue's model has and that no document denies.
`releaseEmbedding` acts on any open row by id: a drainer whose lease lapsed and
whose provider then throttles makes visible a row that another drainer claimed
since, inside that drainer's lease.  It costs a second provider call and a
refunded attempt, never a wrong vector (`ClaimsAreFaithful`).  And pruning
removes terminal failures that are still current; such a record has no vector,
and until its text changes nothing drains or retries it, which is why
`NoWorkLost` names the pruned records (see docs/guides/production.md:236).

## 7. What is not modelled, and the plan

Left out on purpose: `last_error`, timestamps and span attributes; the lengths
of leases; argument validation and text formats; the forms of a Retry-After
header; what BM25 and HNSW return; PostgreSQL's own recovery and planner (an
abort is possible wherever a statement waits, its deadlock detector included);
configuration, parsing of flags and files, presentation; a leading byte order
mark and the byte limit of a filter text; the AI SDK and the
tokenizer library; a caller's codec (truncateTokens).  Reads inside a caller's
transaction, and waits on a unique index between callers' transactions, are not
in `Transactions`; a call of `BatchUpsert` or `RecordOps` is one statement there
and its locks one by one here.  When an index is dropped by others between the two
statements of dropIndex, and a schema of theirs takes its name, dropIndex drops
that one: `Provisioning` has the behaviour, and `SchemasAreSafe` protects only
names that no index has.

Order of construction:

1. `EmbeddingContract`, `EmbeddingQueue` and the proofs:
   the promise everything else leans on.
2. `BatchUpsert`, `RecordOps`: the writers, with their statements taken apart.
3. `Provisioning`, `Runtime`, `TokenizerPool`, `CliProcess`: lifecycles.
4. `Keyset`, `Export`, `RetryAll`, `TreeViews`, `Filters`, `HybridSearch`.
5. `Transactions`: several calls in one transaction, lock by lock.
6. `Import`; `Command` and `WorkerPace`; `FilterText` and `Truncate`.
7. Proofs: the queue and its contract, `Transactions`, `BatchUpsert`,
   `RecordOps`, `Provisioning`, `Runtime`, `CliProcess`, `Command`, `WorkerPace`;
   `Export` and `RetryAll` on common lemmas about pages, `Import`; `TreeViews`,
   `HybridSearch`, `Filters`, `Truncate`.

All of it is done.  What could come next: a parser of `FilterText` that the model
checker and the provers can both take, and the waits on unique indexes in
`Transactions`.
