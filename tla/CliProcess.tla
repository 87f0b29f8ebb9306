----------------------------- MODULE CliProcess ------------------------------
(***************************************************************************)
(* A process whose texts are truncated by a tokenizer pool: module Runtime *)
(* (worker loops, foreground operations, shutdown) composed with module    *)
(* TokenizerPool.  The work waits for the pool's answers (embedTexts in    *)
(* core/src/embedding.ts), the pool is shut down by close().               *)
(***************************************************************************)
EXTENDS Runtime

CONSTANTS
    Slots, Job, MaxDeaths, Free,    \* of the pool
    Owner       \* Owner[j]: the worker or operation whose text job j is

VARIABLES
    queue, current, thread, dead, events, promise, closed,      \* the pool
    awaits      \* awaits[a]: the jobs a's Promise.all waits for

Pool == INSTANCE TokenizerPool

poolVars == <<queue, current, thread, dead, events, promise, closed>>
allVars == <<loop, sized, aborted, op, runtime, awaited, timer, process,
             poolVars, awaits>>

ASSUME PoolAssumptions == Pool!Assumptions
ASSUME OwnerAssumption ==
    Worker \cap Op = {} /\ Owner \in [Job -> Worker \cup Op]

Busy(a) == IF a \in Worker THEN loop[a] = "batch" ELSE op[a] = "active"

ProcessInit ==
    /\ Init /\ Pool!Init
    /\ awaits = [a \in Worker \cup Op |-> {}]

-----------------------------------------------------------------------------
(* One text of an embedTexts call goes to the pool.                        *)
Truncate(j) ==
    LET a == Owner[j] IN
    /\ Up /\ Busy(a)
    /\ \A i \in awaits[a] : promise[i] # "rejected"
    /\ Pool!Submit(j)
    /\ awaits' = [awaits EXCEPT ![a] = @ \cup {j}]
    /\ UNCHANGED vars

(* The Promise.all over the truncations: all are there, or one failed (and *)
(* the others are no longer waited for).                                   *)
Answered(a) ==
    \/ \A j \in awaits[a] : promise[j] = "resolved"
    \/ \E j \in awaits[a] : promise[j] = "rejected"

Leave(a) ==
    /\ Answered(a)
    /\ awaits' = [awaits EXCEPT ![a] = {}]
    /\ UNCHANGED poolVars

BatchSettles(w) == BatchEnds(w) /\ Leave(w)

OpSettles(o) == OpEnds(o) /\ Leave(o)

(* closed = true and the call of tokenizer.shutdown(), without an await    *)
(* between them.                                                           *)
SettledThenShut == Settled /\ Pool!Shutdown /\ UNCHANGED awaits

(* The pool's own steps, while the process runs. *)
PoolStep(A) == Up /\ A /\ UNCHANGED <<vars, awaits>>

Message(s) == PoolStep(Pool!Message(s))
Die(s) == PoolStep(Pool!Die(s))
DeliverOne == PoolStep(\E e \in events : Pool!Deliver(e))

(* The steps of Runtime the pool has no part in. *)
Apart(A) == A /\ UNCHANGED <<poolVars, awaits>>

LoopAlone(w) ==
    Apart(LoopHead(w) \/ ResolveSize(w) \/ Tick(w) \/ Prune(w) \/ Wake(w))

CloseAlone == Apart(ShutTokenizer \/ EndPool \/ Exit)

ProcessNext ==
    \/ \E ws \in SUBSET Worker : Apart(StartWorkers(ws))
    \/ \E w \in Worker : LoopAlone(w) \/ BatchSettles(w) \/ Apart(Stop(w))
    \/ \E o \in Op : Apart(Run(o)) \/ OpSettles(o)
    \/ Apart(Shutdown) \/ SettledThenShut \/ CloseAlone \/ Apart(GraceExpires)
    \/ \E j \in Job : Truncate(j)
    \/ \E s \in Pool!Slot : Message(s) \/ Die(s)
    \/ DeliverOne

ProcessSpec == ProcessInit /\ [][ProcessNext]_allVars

(* What is due is done, requests and statements have timeouts, a live      *)
(* thread answers, events are delivered; nothing says that the grace timer *)
(* is needed.                                                              *)
FairProcessSpec ==
    /\ ProcessSpec
    /\ WF_allVars(SettledThenShut \/ CloseAlone)
    /\ \A w \in Worker : WF_allVars(LoopAlone(w)) /\ WF_allVars(BatchSettles(w))
    /\ \A o \in Op : WF_allVars(OpSettles(o))
    /\ \A s \in Pool!Slot : WF_allVars(Message(s))
    /\ WF_allVars(DeliverOne)

-----------------------------------------------------------------------------
(* "they may still need first-use tokenization" (runtime/index.ts:220): no *)
(* text that accepted work still waits for is failed by a pool that is     *)
(* shut down, whether it was handed in before or comes after.              *)
TokenizationOutlivesWork ==
    [][\A j \in Job :
          /\ promise[j] # "rejected" /\ promise'[j] = "rejected" /\ closed'
          => j \notin awaits'[Owner[j]]]_allVars

(* Of the pool: a caller whose promise is open has its job in exactly one  *)
(* place, however threads die and whoever stopped waiting, and the late    *)
(* events of a dead thread never fail the job of the thread that took its  *)
(* slot.                                                                   *)
JobsAreKept == []Pool!JobIsInOnePlace /\ Pool!OnlyOwnThreadFails

(* Stopping ends, of one worker and of the process: a stopped loop, the    *)
(* work close() waits for, close() itself, dying threads and their jobs    *)
(* never wait for each other.                                              *)
WorkEnds == StopResolves /\ ShutdownCompletes
=============================================================================
