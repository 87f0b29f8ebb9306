------------------------------ MODULE Runtime -------------------------------
(***************************************************************************)
(* A process of the command line or MCP server: its foreground operations, *)
(* its embedding workers' loops (embedding-worker.ts) and its shutdown     *)
(* (runtime/index.ts), which must not take the tokenizer and the pool away *)
(* from work it accepted.  What a batch does to the queue is module        *)
(* EmbeddingQueue's; how long a worker sleeps is left out.                 *)
(***************************************************************************)
CONSTANTS Worker, Op

VARIABLES
    loop,       \* loop[w]: where worker w's loop is
    sized,      \* sized[w]: the batch size has been resolved
    aborted,    \* aborted[w]: stop() was called
    op,         \* op[o]: a foreground operation
    runtime,    \* how far close() has come
    awaited,    \* the workers and operations close() waits for
    timer,      \* the shutdown grace timer
    process

vars == <<loop, sized, aborted, op, runtime, awaited, timer, process>>
loopVars == <<loop, sized, aborted>>
closeVars == <<runtime, awaited, timer, process>>

(* Between which awaits a loop stands.                                     *)
Started == {w \in Worker : loop[w] # "off"}
Working == {"size", "tick", "batch", "prune"}

TypeOK ==
    /\ loop \in [Worker -> Working \cup {"off", "head", "sleep", "ended"}]
    /\ sized \in [Worker -> BOOLEAN] /\ aborted \in [Worker -> BOOLEAN]
    /\ op \in [Op -> {"new", "active", "ended", "refused"}]
    /\ runtime \in {"open", "closing", "closed", "tokenizer", "ended"}
    /\ awaited \subseteq Worker \cup Op
    /\ timer \in {"unset", "armed", "cleared"}
    /\ process \in {"running", "exited", "forced"}
    /\ timer = "unset" <=> runtime = "open"
    /\ process = "exited" <=> timer = "cleared"

Init ==
    /\ loop = [w \in Worker |-> "off"] /\ sized = [w \in Worker |-> FALSE]
    /\ aborted = [w \in Worker |-> FALSE]
    /\ op = [o \in Op |-> "new"]
    /\ runtime = "open" /\ awaited = {} /\ timer = "unset" /\ process = "running"

Up == process = "running"

-----------------------------------------------------------------------------
Goto(w, p) ==
    /\ Up /\ loop' = [loop EXCEPT ![w] = p]
    /\ UNCHANGED <<aborted, op, closeVars>>

(* startEmbeddingWorkers, once and not when closing. *)
StartWorkers(ws) ==
    /\ Up /\ runtime = "open" /\ Started = {}
    /\ loop' = [w \in Worker |-> IF w \in ws THEN "head" ELSE "off"]
    /\ UNCHANGED <<sized, aborted, op, closeVars>>

(* while (!signal.aborted): a first pass asks the model for its batch size *)
(* before it drains.                                                       *)
LoopHead(w) ==
    /\ loop[w] = "head"
    /\ Goto(w, IF aborted[w] THEN "ended" ELSE IF sized[w] THEN "tick" ELSE "size")
    /\ UNCHANGED sized

ResolveSize(w) ==
    /\ loop[w] = "size"
    /\ \/ Goto(w, "tick") /\ sized' = [sized EXCEPT ![w] = TRUE]
       \/ Goto(w, "sleep") /\ UNCHANGED sized

ClaimUnchecked(w) ==
    /\ loop[w] = "tick"
    /\ Goto(w, "batch")
    /\ UNCHANGED sized

(* drainPass looks at the signal again before it claims: stopped, the pass *)
(* is an idle one.                                                         *)
Tick(w) ==
    /\ loop[w] = "tick"
    /\ Goto(w, IF aborted[w] THEN "prune" ELSE "batch")
    /\ UNCHANGED sized

(* The batch did something; it found nothing; or the pass threw (a rate    *)
(* limit, a wrong dimension, a database failure), was reported and backs   *)
(* off.                                                                    *)
BatchEnds(w) ==
    /\ loop[w] = "batch"
    /\ \E p \in {"head", "prune", "sleep"} : Goto(w, p)
    /\ UNCHANGED sized

(* pruneQueue, whose failure is reported and otherwise ignored. *)
Prune(w) == loop[w] = "prune" /\ Goto(w, "sleep") /\ UNCHANGED sized

WakeByTimer(w) ==
    loop[w] = "sleep" /\ ~aborted[w] /\ Goto(w, "head") /\ UNCHANGED sized

(* The sleep ends by its timer or by the abort. *)
Wake(w) == loop[w] = "sleep" /\ Goto(w, "head") /\ UNCHANGED sized

LoopStep(w) ==
    LoopHead(w) \/ ResolveSize(w) \/ Tick(w) \/ BatchEnds(w) \/ Prune(w) \/ Wake(w)

(* An application's own stop(), from its onError callback or elsewhere. *)
Stop(w) ==
    /\ Up /\ w \in Started /\ ~aborted[w]
    /\ aborted' = [aborted EXCEPT ![w] = TRUE]
    /\ UNCHANGED <<loop, sized, op, closeVars>>

-----------------------------------------------------------------------------
RunUnchecked(o) ==
    /\ Up /\ op[o] = "new"
    /\ op' = [op EXCEPT ![o] = "active"]
    /\ UNCHANGED <<loopVars, closeVars>>

(* run(): refused when closing, else tracked until it ends. *)
Run(o) ==
    /\ Up /\ op[o] = "new"
    /\ op' = [op EXCEPT ![o] = IF runtime = "open" THEN "active" ELSE "refused"]
    /\ UNCHANGED <<loopVars, closeVars>>

OpEnds(o) ==
    /\ Up /\ op[o] = "active"
    /\ op' = [op EXCEPT ![o] = "ended"]
    /\ UNCHANGED <<loopVars, closeVars>>

(* Mutant: close() waits for the workers only. *)
ShutdownForWorkers ==
    /\ Up /\ runtime = "open"
    /\ runtime' = "closing" /\ timer' = "armed"
    /\ aborted' = [w \in Worker |-> aborted[w] \/ w \in Started]
    /\ awaited' = Started
    /\ UNCHANGED <<loop, sized, op, process>>

(* installShutdown's stop(), at a signal, at EOF or when the command is    *)
(* done; later calls return the same promise.  It arms the grace timer and *)
(* calls close(), which stops every worker and waits for them and for the  *)
(* operations active now.                                                  *)
Shutdown ==
    /\ Up /\ runtime = "open"
    /\ runtime' = "closing" /\ timer' = "armed"
    /\ aborted' = [w \in Worker |-> aborted[w] \/ w \in Started]
    /\ awaited' = Started \cup {o \in Op : op[o] = "active"}
    /\ UNCHANGED <<loop, sized, op, process>>

(* Promise.allSettled, then closed = true. *)
Settled ==
    /\ Up /\ runtime = "closing"
    /\ \A w \in awaited \cap Worker : loop[w] = "ended"
    /\ \A o \in awaited \cap Op : op[o] = "ended"
    /\ runtime' = "closed"
    /\ UNCHANGED <<loopVars, op, awaited, timer, process>>

(* tokenizer.shutdown(), then sql.end(). *)
ShutTokenizer ==
    /\ Up /\ runtime = "closed" /\ runtime' = "tokenizer"
    /\ UNCHANGED <<loopVars, op, awaited, timer, process>>

EndPool ==
    /\ Up /\ runtime = "tokenizer" /\ runtime' = "ended"
    /\ UNCHANGED <<loopVars, op, awaited, timer, process>>

(* close() is done: the timer is cleared and nothing keeps the process.    *)
Exit ==
    /\ Up /\ runtime = "ended"
    /\ timer' = "cleared" /\ process' = "exited"
    /\ UNCHANGED <<loopVars, op, runtime, awaited>>

(* The grace is over: process.exit(1). *)
GraceExpires ==
    /\ Up /\ timer = "armed" /\ process' = "forced"
    /\ UNCHANGED <<loopVars, op, runtime, awaited, timer>>

CloseStep == Settled \/ ShutTokenizer \/ EndPool \/ Exit

Next ==
    \/ \E ws \in SUBSET Worker : StartWorkers(ws)
    \/ \E w \in Worker : LoopStep(w) \/ Stop(w)
    \/ \E o \in Op : Run(o) \/ OpEnds(o)
    \/ Shutdown \/ CloseStep \/ GraceExpires

Spec == Init /\ [][Next]_vars

-----------------------------------------------------------------------------
(* "Don't mark resources closed until existing foreground operations and   *)
(* worker batches finish" (runtime/index.ts:219): whatever starts, stops   *)
(* or is refused around close(), no accepted operation and no worker runs  *)
(* once the tokenizer and the pool are being taken down.                   *)
ResourcesOutliveWork ==
    runtime \in {"closed", "tokenizer", "ended"} =>
        /\ \A o \in Op : op[o] # "active"
        /\ \A w \in Worker : loop[w] \in {"off", "ended"}

(* stop() "prevents another claim" (embedding-worker.ts:313), also when it *)
(* comes while a pass is waiting for the batch size.                       *)
NoClaimAfterStop ==
    [][\A w \in Worker : aborted[w] /\ loop[w] # "batch" => loop'[w] # "batch"]_vars

(* stop() resolves: a worker stopped while it sleeps, waits or works ends  *)
(* its loop, however much work there is.                                   *)
StopResolves ==
    \A w \in Worker : aborted[w] ~> (loop[w] = "ended" \/ process # "running")

(* When the work ends, shutdown ends too: close() and the work it waits    *)
(* for never wait for each other.                                          *)
ShutdownCompletes == runtime # "open" ~> process # "running"
=============================================================================
