--------------------------- MODULE TokenizerPool ----------------------------
(***************************************************************************)
(* The pool of tokenizer threads (tokenizer-pool.ts): a queue of jobs, one *)
(* current job per slot, threads that answer or die, and the events a dead *)
(* thread leaves behind, which may arrive when its slot has long been      *)
(* given to another one.                                                   *)
(***************************************************************************)
EXTENDS Naturals, Sequences, FiniteSets, FiniteSetsExt

CONSTANTS
    Slots,      \* the number of threads, not zero
    Job,        \* batches of texts to truncate
    MaxDeaths,  \* bound: how many threads die
    Free

VARIABLES
    queue,      \* jobs no thread has
    current,    \* current[s]: the job of slot s
    thread,     \* thread[s]: the number of the thread in slot s
    dead,       \* the threads that died, as <<slot, number>>
    events,     \* error and exit events not yet delivered
    promise,    \* promise[j]: what the caller of job j has
    closed

vars == <<queue, current, thread, dead, events, promise, closed>>

Slot == 1 .. Slots

(* Assumed of the constants where the pool is used (module CliProcess).     *)
Assumptions == Slots \in Nat \ {0} /\ MaxDeaths \in Nat /\ Free \notin Job

Thread == {<<s, n>> : s \in Slot, n \in 0 .. MaxDeaths}

Event == [of : Thread, kind : {"error", "exit"}]

TypeOK ==
    /\ queue \in Seq(Job)
    /\ current \in [Slot -> Job \cup {Free}]
    /\ thread \in [Slot -> 0 .. MaxDeaths]
    /\ dead \subseteq Thread /\ Cardinality(dead) <= MaxDeaths
    /\ events \subseteq Event
    /\ promise \in [Job -> {"none", "pending", "resolved", "rejected"}]
    /\ closed \in BOOLEAN
    /\ \A e \in events : e.of \in dead

Init ==
    /\ queue = <<>>
    /\ current = [s \in Slot |-> Free]
    /\ thread = [s \in Slot |-> 0]
    /\ dead = {} /\ events = {}
    /\ promise = [j \in Job |-> "none"]
    /\ closed = FALSE

-----------------------------------------------------------------------------
Alive(s) == <<s, thread[s]>> \notin dead

FreeSlots(c) == {s \in Slot : c[s] = Free}

(* A free slot's place in the order in which dispatch fills the slots.     *)
Place(c, s) == Cardinality({t \in FreeSlots(c) : t <= s})

(* #dispatch: the first jobs of q go to the free slots of c in their order *)
(* (a dead thread whose events have not come yet included).                *)
Dispatch(q, c) ==
    LET n == Min({Len(q), Cardinality(FreeSlots(c))}) IN
    /\ queue' = SubSeq(q, n + 1, Len(q))
    /\ current' = [s \in Slot |-> IF c[s] = Free /\ Place(c, s) <= n
                                  THEN q[Place(c, s)] ELSE c[s]]

Settle(jobs, how) ==
    promise' = [j \in Job |-> IF j \in jobs THEN how ELSE promise[j]]

(* truncateMany. *)
Submit(j) ==
    /\ promise[j] = "none"
    /\ IF closed
       THEN Settle({j}, "rejected") /\ UNCHANGED <<queue, current>>
       ELSE Settle({j}, "pending") /\ Dispatch(Append(queue, j), current)
    /\ UNCHANGED <<thread, dead, events, closed>>

(* A thread's message: texts of the right number, or an error.             *)
Message(s) ==
    /\ ~closed /\ Alive(s) /\ current[s] # Free
    /\ \E how \in {"resolved", "rejected"} : Settle({current[s]}, how)
    /\ Dispatch(queue, [current EXCEPT ![s] = Free])
    /\ UNCHANGED <<thread, dead, events, closed>>

(* A thread dies, by an exception or by its exit alone.  (An exit with     *)
(* code 0, which its listener ignores, would need worker code that calls   *)
(* process.exit: it has none.)                                             *)
Die(s) ==
    /\ ~closed /\ Alive(s) /\ Cardinality(dead) < MaxDeaths
    /\ dead' = dead \cup {<<s, thread[s]>>}
    /\ \E kinds \in {{"error", "exit"}, {"exit"}} :
          events' = events \cup [of : {<<s, thread[s]>>}, kind : kinds]
    /\ UNCHANGED <<queue, current, thread, promise, closed>>

ReplaceableBySlot(t) == ~closed

NoLostJobs(s) == {}

(* #replaceWorker for the thread of the event, if a slot still has it: its *)
(* job fails, a new thread takes the slot, and the queue goes on.          *)
Replaceable(t) == ~closed /\ thread[t[1]] = t[2]

LostJobs(s) == {current[s]} \ {Free}

Deliver(e) ==
    LET s == e.of[1] IN
    /\ e \in events
    /\ events' = events \ {e}
    /\ IF Replaceable(e.of)
       THEN /\ Settle(LostJobs(s), "rejected")
            /\ thread' = [thread EXCEPT ![s] = @ + 1]
            /\ Dispatch(queue, [current EXCEPT ![s] = Free])
       ELSE UNCHANGED <<promise, thread, queue, current>>
    /\ UNCHANGED <<dead, closed>>

(* shutdown: every queued and every current job fails. *)
Shutdown ==
    /\ ~closed /\ closed' = TRUE
    /\ Settle({j \in Job : promise[j] = "pending"}
                \cap ({queue[i] : i \in DOMAIN queue} \cup
                      {current[s] : s \in Slot}), "rejected")
    /\ queue' = <<>> /\ current' = [s \in Slot |-> Free]
    /\ UNCHANGED <<thread, dead, events>>

Next ==
    \/ \E j \in Job : Submit(j)
    \/ \E s \in Slot : Message(s) \/ Die(s)
    \/ \E e \in events : Deliver(e)
    \/ Shutdown

Spec == Init /\ [][Next]_vars

-----------------------------------------------------------------------------
(* Where the jobs in the pool's hands are. *)
Queued(j) == {i \in DOMAIN queue : queue[i] = j}
Held(j) == {s \in Slot : current[s] = j}

(* However threads die and their slots are reused, a caller whose promise  *)
(* is open has its job in exactly one place, and a settled job is in none. *)
JobIsInOnePlace ==
    \A j \in Job : Cardinality(Queued(j)) + Cardinality(Held(j)) =
                     (IF promise[j] = "pending" THEN 1 ELSE 0)

(* A job fails by its own thread's answer or death or by the shutdown: the *)
(* late events of a thread that was replaced do not take the next one's    *)
(* job (tokenizer-pool.ts:138).                                            *)
OnlyOwnThreadFails ==
    [][\A j \in Job : \A s \in Slot :
          /\ current[s] = j
          /\ promise[j] = "pending" /\ promise'[j] = "rejected"
          /\ thread'[s] # thread[s]
          => ~Alive(s)]_vars
=============================================================================
