------------------------------ MODULE MCClient -------------------------------
(* What a client of an index does that is one question or one traversal,   *)
(* for TLC.  A behaviour is about one of them: a view of the tree          *)
(* (TreeViews), a filter as the index sees it (Filters) and as it is       *)
(* written (FilterText), a hybrid search (HybridSearch), a text that is    *)
(* cut (Truncate), an export (Export), an import (Import), a retry of      *)
(* every failure (RetryAll).  The variables of the others rest.            *)
EXTENDS Import, Export, RetryAll, TreeViews, HybridSearch, Filters, Truncate

CONSTANTS
    TextNodes, Tall                                         \* FilterText

VARIABLES
    about,      \* which of the eight the behaviour is about
    meant, source, parsed

T == INSTANCE FilterText WITH MaxNodes <- TextNodes

ASSUME ClientAssumptions == T!TextAssumptions

-----------------------------------------------------------------------------
textVars == <<meant, source, parsed>>
allVars == <<about, treeVars, filterVars, textVars, hybridVars, cutVars,
             exportVars, importVars, retryVars>>

(* Where the variables rest that a behaviour is not about.                 *)
NoTree ==
    /\ tree = [i \in Id |-> Nowhere]
    /\ asked = [kind |-> "none"] /\ rows = {} /\ told = Nothing

NoFilter ==
    /\ filter = [op |-> "leaf", of |-> "metaPredicate"] /\ ranked = FALSE
    /\ library = "none" /\ database = "none"

NoText == meant = T!ATree /\ source = T!Written(meant) /\ parsed = T!parseFilter(source)

NoScores ==
    /\ fulltext = [i \in Hit |-> 0] /\ semantic = [i \in Hit |-> 0]
    /\ query = NoQuery /\ result = <<>>

NoCut == text = <<>> /\ limit = [of |-> "bytes", max |-> 1] /\ cut = [done |-> FALSE, text |-> <<>>]

NoExport ==
    /\ record = {} /\ most = 0 /\ after = Start /\ page = {} /\ out = {}
    /\ exported = 0 /\ pc = "failed" /\ stayed = {} /\ writes = 0

NoImport ==
    /\ files = <<<<>>, <<>>>> /\ row = Absent /\ Fresh
    /\ options = [mode |-> "error", dryRun |-> TRUE, failFast |-> TRUE]

NoRetry ==
    /\ failures = {} /\ pending = {} /\ nextRow = 1 /\ listedAfter = Start
    /\ listing = {} /\ retryPc = "aborted" /\ retried = 0 /\ retrySkipped = 0
    /\ reset = [q \in 1 .. MaxRow |-> 0] /\ ever = {}

Starts(what, Starting, Resting) ==
    \/ about = what /\ Starting
    \/ about # what /\ Resting

ClientInit ==
    /\ about \in {"tree", "filter", "text", "hybrid", "cut", "export", "import", "retry"}
    /\ Starts("tree", TreeInit, NoTree) /\ Starts("filter", FilterInit, NoFilter)
    /\ Starts("text", T!Init, NoText) /\ Starts("hybrid", HybridInit, NoScores)
    /\ Starts("cut", CutInit, NoCut) /\ Starts("export", ExportInit, NoExport)
    /\ Starts("import", ImportInit, NoImport) /\ Starts("retry", RetryInit, NoRetry)

LooksAtTree ==
    /\ about = "tree" /\ TreeNext
    /\ UNCHANGED <<about, filterVars, textVars, hybridVars, cutVars, exportVars, importVars, retryVars>>

ChecksFilter ==
    /\ about = "filter" /\ FilterNext
    /\ UNCHANGED <<about, treeVars, textVars, hybridVars, cutVars, exportVars, importVars, retryVars>>

WritesFilter ==
    /\ about = "text" /\ T!Next
    /\ UNCHANGED <<about, treeVars, filterVars, hybridVars, cutVars, exportVars, importVars, retryVars>>

SearchesBothArms ==
    /\ about = "hybrid" /\ HybridNext
    /\ UNCHANGED <<about, treeVars, filterVars, textVars, cutVars, exportVars, importVars, retryVars>>

CutsText ==
    /\ about = "cut" /\ CutNext
    /\ UNCHANGED <<about, treeVars, filterVars, textVars, hybridVars, exportVars, importVars, retryVars>>

Exports(A) ==
    /\ about = "export" /\ A
    /\ UNCHANGED <<about, treeVars, filterVars, textVars, hybridVars, cutVars, importVars, retryVars>>

Imports ==
    /\ about = "import" /\ ImportNext
    /\ UNCHANGED <<about, treeVars, filterVars, textVars, hybridVars, cutVars, exportVars, retryVars>>

Retries(A) ==
    /\ about = "retry" /\ A
    /\ UNCHANGED <<about, treeVars, filterVars, textVars, hybridVars, cutVars, exportVars, importVars>>

(* The table has no last key: records get UUIDv7 ids and queue rows        *)
(* identity values beyond all that are there, while Export and RetryAll    *)
(* number their keys up to a bound.  Two steps of no code renumber them:   *)
(* when a page is done its keys, and those before, are forgotten, the keys *)
(* ahead are counted from the cursor, and what is left of a limit is the   *)
(* limit.  So the others never run out of keys, nor of writes.             *)
Ahead(keys, cursor) == {k - cursor : k \in {j \in keys : j > cursor}}

ExportRenumbers ==
    /\ pc = "read" /\ after > Start /\ (most = 0 \/ exported < most)
    /\ record' = Ahead(record, after) /\ stayed' = Ahead(stayed, after)
    /\ most' = IF most = 0 THEN 0 ELSE most - exported
    /\ after' = Start /\ out' = {} /\ exported' = 0 /\ writes' = 0
    /\ UNCHANGED <<page, pc>>

RetryRenumbers ==
    /\ retryPc = "list" /\ listedAfter > Start
    /\ failures' = Ahead(failures, listedAfter)
    /\ pending' = Ahead(pending, listedAfter) /\ ever' = Ahead(ever, listedAfter)
    /\ nextRow' = nextRow - listedAfter /\ listedAfter' = Start
    /\ reset' = [q \in QueueRow |-> 0] /\ retried' = 0 /\ retrySkipped' = 0
    /\ UNCHANGED <<listing, retryPc>>

ClientNext ==
    \/ LooksAtTree \/ ChecksFilter \/ WritesFilter \/ SearchesBothArms
    \/ CutsText \/ Exports(ExportNext \/ ExportRenumbers) \/ Imports
    \/ Retries(RetryNext \/ RetryRenumbers)

(* The calls of a loop return.  Nothing is assumed of the others.          *)
ClientSpec ==
    /\ ClientInit /\ [][ClientNext]_allVars
    /\ WF_allVars(Exports(Read \/ WritePage))
    /\ WF_allVars(Retries(List \/ Retry))

-----------------------------------------------------------------------------
(* What the instance promises, under a name of this module.                *)
FilterSaysWhatIsWritten == T!FilterSaysWhatIsWritten

(* A record comes, or a row fails, that a later page will have.            *)
Arrives ==
    \E i \in Ids \ record : i > EndOf(page, after) /\ Exports(OthersWrite(i))

FailsAhead ==
    \E q \in QueueRow :
        q > EndOf(listing, listedAfter) /\ Retries(FailsAgain(q))

(* An export with --limit ends, however fast others write.  One without    *)
(* ends too, unless new records arrive beyond its cursor for ever: nothing *)
(* in the loop (bulk.ts:222) looks at how far there was to go at first.    *)
ExportEnds ==
    \/ <>(pc \in {"done", "failed"})
    \/ most = 0 /\ []<><<Arrives>>_allVars

(* retry --all ends, also when every row it retries fails again at once    *)
(* ("does not repeatedly chase failures", docs/guides/cli.md:240), unless  *)
(* new rows are enqueued for ever and keep failing ahead of it.            *)
RetryEnds ==
    \/ <>(retryPc \in {"done", "aborted"})
    \/ []<><<Retries(Enqueue)>>_allVars /\ []<><<FailsAhead>>_allVars

(* No loop over pages is kept going by anything but keys that never end.   *)
TraversalsEnd == ExportEnds /\ RetryEnds
=============================================================================
