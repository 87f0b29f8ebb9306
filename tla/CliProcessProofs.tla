-------------------------- MODULE CliProcessProofs ---------------------------
(***************************************************************************)
(* Theorems about a process, for any number of workers, operations, jobs   *)
(* and threads: shutdown takes resources away only from a process without  *)
(* work (Runtime); composed with the tokenizer pool it keeps that, and the *)
(* pool's shutdown fails nothing that accepted work waits for              *)
(* (CliProcess); the pool neither loses a job nor fails one for another's  *)
(* thread; the exit status of the command around it is true (Command); a   *)
(* worker keeps the pace its errors ask for (WorkerPace).                  *)
(***************************************************************************)
EXTENDS CliProcess, Command, WorkerPace, FiniteSetTheorems, TLAPS

Idle(w) == loop[w] \in {"off", "ended"}

(* close() waits for everything that still runs: nothing new is accepted   *)
(* after it took its list.                                                 *)
ListIsComplete ==
    runtime # "open" =>
        /\ \A o \in Op : op[o] = "active" => o \in awaited
        /\ \A w \in Worker : ~Idle(w) => w \in awaited

IInv == TypeOK /\ ListIsComplete /\ ResourcesOutliveWork

LEMMA InitIInv == Init => IInv
BY DEF Init, IInv, TypeOK, ListIsComplete, ResourcesOutliveWork

(* The steps of a worker's loop: from one place where it works to another. *)
LEMMA LoopStepMoves ==
    ASSUME TypeOK, NEW w \in Worker, LoopStep(w)
    PROVE  /\ Up /\ ~Idle(w)
           /\ \E p \in Working \cup {"head", "sleep", "ended"} :
                 loop' = [loop EXCEPT ![w] = p]
           /\ sized' \in [Worker -> BOOLEAN]
           /\ UNCHANGED <<aborted, op, runtime, awaited, timer, process>>
<1> USE DEF Goto, Idle, Working, closeVars
<1>1. CASE LoopHead(w)
  BY <1>1 DEF LoopHead, TypeOK
<1>2. CASE ResolveSize(w)
  BY <1>2 DEF ResolveSize, TypeOK
<1>3. CASE Tick(w)
  BY <1>3 DEF Tick, TypeOK
<1>4. CASE BatchEnds(w)
  BY <1>4 DEF BatchEnds, TypeOK
<1>5. CASE Prune(w) \/ Wake(w)
  BY <1>5 DEF Prune, Wake, TypeOK
<1> QED BY <1>1, <1>2, <1>3, <1>4, <1>5 DEF LoopStep

LEMMA NextIInv == IInv /\ [Next]_vars => IInv'
<1> SUFFICES ASSUME IInv, [Next]_vars PROVE IInv'
  OBVIOUS
<1> USE DEF IInv, loopVars, closeVars, Up
<1>1. ASSUME NEW ws \in SUBSET Worker, StartWorkers(ws)
      PROVE  IInv'
  BY <1>1 DEF StartWorkers, TypeOK, ListIsComplete, ResourcesOutliveWork
<1>2. ASSUME NEW w \in Worker, LoopStep(w)
      PROVE  IInv'
  <2>1. PICK p \in Working \cup {"head", "sleep", "ended"} :
           loop' = [loop EXCEPT ![w] = p]
    BY <1>2, LoopStepMoves
  <2>2. /\ ~Idle(w) /\ sized' \in [Worker -> BOOLEAN]
        /\ UNCHANGED <<aborted, op, runtime, awaited, timer, process>>
    BY <1>2, LoopStepMoves
  <2>3. TypeOK'
    BY <2>1, <2>2 DEF TypeOK
  <2>4. ListIsComplete' /\ ResourcesOutliveWork'
    BY <2>1, <2>2 DEF TypeOK, ListIsComplete, ResourcesOutliveWork, Idle
  <2> QED BY <2>3, <2>4
<1>3. ASSUME NEW w \in Worker, Stop(w)
      PROVE  IInv'
  BY <1>3 DEF Stop, Idle, TypeOK, ListIsComplete, ResourcesOutliveWork
<1>4. ASSUME NEW o \in Op, Run(o) \/ OpEnds(o)
      PROVE  IInv'
  BY <1>4 DEF Run, OpEnds, Idle, TypeOK, ListIsComplete, ResourcesOutliveWork
<1>5. CASE Shutdown
  BY <1>5 DEF Shutdown, Started, Idle, TypeOK, ListIsComplete, ResourcesOutliveWork
<1>6. CASE Settled
  BY <1>6 DEF Settled, Idle, TypeOK, ListIsComplete, ResourcesOutliveWork
<1>7. CASE ShutTokenizer \/ EndPool \/ Exit \/ GraceExpires
  BY <1>7 DEF ShutTokenizer, EndPool, Exit, GraceExpires, Idle, TypeOK,
     ListIsComplete, ResourcesOutliveWork
<1>8. CASE UNCHANGED vars
  BY <1>8 DEF vars, Idle, TypeOK, ListIsComplete, ResourcesOutliveWork
<1> QED BY <1>1, <1>2, <1>3, <1>4, <1>5, <1>6, <1>7, <1>8 DEF Next, CloseStep

(* Once the tokenizer and the pool are being taken down, nothing that was  *)
(* accepted is running and no worker is.                                   *)
THEOREM WorkEndsFirst == Spec => []ResourcesOutliveWork
<1>1. IInv => ResourcesOutliveWork BY DEF IInv
<1> QED BY <1>1, InitIInv, NextIInv, PTL DEF Spec

LEMMA StoppedNeverClaims ==
    ASSUME TypeOK, Next, NEW w \in Worker, aborted[w], loop[w] # "batch"
    PROVE  loop'[w] # "batch"
<1>1. ASSUME NEW v \in Worker, LoopStep(v)
      PROVE  loop'[w] # "batch"
  BY <1>1 DEF LoopStep, LoopHead, ResolveSize, Tick, BatchEnds, Prune, Wake, Goto,
     TypeOK
<1>2. ASSUME NEW ws \in SUBSET Worker, StartWorkers(ws)
      PROVE  loop'[w] # "batch"
  BY <1>2 DEF StartWorkers
<1>3. ASSUME NEW v \in Worker, Stop(v)
      PROVE  loop' = loop
  BY <1>3 DEF Stop
<1>4. ASSUME NEW o \in Op, Run(o) \/ OpEnds(o)
      PROVE  loop' = loop
  BY <1>4 DEF Run, OpEnds, loopVars
<1>5. ASSUME Shutdown \/ CloseStep \/ GraceExpires
      PROVE  loop' = loop
  BY <1>5 DEF Shutdown, CloseStep, Settled, ShutTokenizer, EndPool, Exit,
     GraceExpires, loopVars
<1> QED BY <1>1, <1>2, <1>3, <1>4, <1>5 DEF Next

(* stop() prevents another claim.                                          *)
THEOREM StopPreventsClaims == Spec => NoClaimAfterStop
<1>1. ASSUME IInv, [Next]_vars
      PROVE  [\A w \in Worker : aborted[w] /\ loop[w] # "batch"
                                   => loop'[w] # "batch"]_vars
  BY <1>1, StoppedNeverClaims DEF IInv
<1> QED BY <1>1, InitIInv, NextIInv, PTL DEF Spec, NoClaimAfterStop

-----------------------------------------------------------------------------
(* The composition adds guards to a process and variables to its state: to *)
(* Runtime each of its steps is a step or a stutter.                       *)
LEMMA ProcessStep == ASSUME [ProcessNext]_allVars PROVE [Next]_vars
<1>1. CASE \E j \in Job : Truncate(j)
  BY <1>1 DEF Truncate
<1>2. CASE DeliverOne \/ \E s \in Pool!Slot : Message(s) \/ Die(s)
  BY <1>2 DEF DeliverOne, Message, Die, PoolStep
<1>3. CASE \E w \in Worker : LoopAlone(w) \/ BatchSettles(w) \/ Apart(Stop(w))
  BY <1>3 DEF LoopAlone, BatchSettles, Apart, Next, LoopStep
<1>4. CASE \E o \in Op : Apart(Run(o)) \/ OpSettles(o)
  BY <1>4 DEF Apart, OpSettles, Next
<1>5. CASE Apart(Shutdown) \/ SettledThenShut \/ CloseAlone \/ Apart(GraceExpires)
  BY <1>5 DEF Apart, SettledThenShut, CloseAlone, Next, CloseStep
<1>6. CASE \E ws \in SUBSET Worker : Apart(StartWorkers(ws))
  BY <1>6 DEF Apart, Next
<1>7. CASE UNCHANGED allVars
  BY <1>7 DEF allVars, vars
<1> QED BY <1>1, <1>2, <1>3, <1>4, <1>5, <1>6, <1>7 DEF ProcessNext

(* A process with a tokenizer pool is a process: what holds of every       *)
(* behaviour of Runtime holds of it.                                       *)
THEOREM ProcessIsRuntime == ProcessSpec => Spec
<1>1. ProcessInit => Init BY DEF ProcessInit
<1> QED BY <1>1, ProcessStep, PTL DEF ProcessSpec, Spec

(* No accepted operation and no worker loop runs once the tokenizer and    *)
(* the pool are taken away, also when it is the pool they wait for.        *)
THEOREM ProcessWorkEndsFirst == ProcessSpec => []ResourcesOutliveWork
BY ProcessIsRuntime, WorkEndsFirst

(* No stopped worker claims, composed with the pool too. *)
THEOREM ProcessStopPreventsClaims == ProcessSpec => NoClaimAfterStop
BY ProcessIsRuntime, StopPreventsClaims

-----------------------------------------------------------------------------
Closed == {"closed", "tokenizer", "ended"}

(* Only work that runs waits for the pool, and the pool is closed when     *)
(* close() says so.                                                        *)
WaitsInv ==
    /\ awaits \in [Worker \cup Op -> SUBSET Job]
    /\ \A a \in Worker \cup Op : awaits[a] # {} => Busy(a)
    /\ closed <=> runtime \in Closed

LEMMA WaitsInit == ProcessInit => WaitsInv
BY DEF ProcessInit, Init, Pool!Init, WaitsInv, Closed

(* Steps that leave the pool and its callers alone, and stop no work.      *)
LEMMA ApartKeepsWaits ==
    ASSUME WaitsInv, UNCHANGED <<poolVars, awaits>>,
           \A a \in Worker \cup Op : Busy(a) => Busy(a)',
           runtime \in Closed <=> runtime' \in Closed
    PROVE  WaitsInv'
BY DEF WaitsInv, poolVars

(* The end of a caller's wait, and of the caller with it.                  *)
LEMMA LeaveKeepsWaits ==
    ASSUME WaitsInv, NEW a \in Worker \cup Op, Leave(a), UNCHANGED runtime,
           \A b \in (Worker \cup Op) \ {a} : Busy(b) => Busy(b)'
    PROVE  WaitsInv'
BY DEF WaitsInv, Leave, poolVars

LEMMA WaitsNext ==
    ASSUME TypeOK, WaitsInv, [ProcessNext]_allVars
    PROVE  WaitsInv'
<1> USE OwnerAssumption
<1>1. ASSUME NEW j \in Job, Truncate(j)
      PROVE  WaitsInv'
  <2>1. closed' = closed /\ UNCHANGED <<loop, op, runtime>>
    BY <1>1 DEF Truncate, Pool!Submit, vars
  <2>2. /\ Owner[j] \in Worker \cup Op /\ Busy(Owner[j])
        /\ awaits' = [awaits EXCEPT ![Owner[j]] = @ \cup {j}]
    BY <1>1 DEF Truncate
  <2> QED BY <2>1, <2>2 DEF WaitsInv, Busy
<1>2. ASSUME DeliverOne \/ \E s \in Pool!Slot : Message(s) \/ Die(s)
      PROVE  WaitsInv'
  <2>1. closed' = closed /\ UNCHANGED <<loop, op, runtime, awaits>>
    BY <1>2 DEF DeliverOne, Message, Die, PoolStep, Pool!Deliver, Pool!Message,
       Pool!Die, vars
  <2> QED BY <2>1 DEF WaitsInv, Busy
<1>3. ASSUME NEW w \in Worker, LoopAlone(w)
      PROVE  WaitsInv'
  <2>1. /\ loop[w] # "batch"
        /\ \E p \in Working \cup {"head", "sleep", "ended"} :
              loop' = [loop EXCEPT ![w] = p]
        /\ UNCHANGED <<op, runtime, poolVars, awaits>>
    BY <1>3 DEF LoopAlone, Apart, LoopHead, ResolveSize, Tick, Prune, Wake, Goto,
       closeVars, Working
  <2>2. \A a \in Worker \cup Op : Busy(a) => Busy(a)'
    BY <2>1 DEF Busy, TypeOK
  <2> QED BY <2>1, <2>2, ApartKeepsWaits
<1>4. ASSUME NEW w \in Worker, BatchSettles(w)
      PROVE  WaitsInv'
  <2>1. /\ \E p \in {"head", "prune", "sleep"} : loop' = [loop EXCEPT ![w] = p]
        /\ UNCHANGED <<op, runtime>> /\ Leave(w)
    BY <1>4 DEF BatchSettles, BatchEnds, Goto, closeVars
  <2>2. \A b \in (Worker \cup Op) \ {w} : Busy(b) => Busy(b)'
    BY <2>1 DEF Busy, TypeOK
  <2> QED BY <2>1, <2>2, LeaveKeepsWaits
<1>5. ASSUME NEW o \in Op, OpSettles(o)
      PROVE  WaitsInv'
  <2>1. /\ op' = [op EXCEPT ![o] = "ended"]
        /\ UNCHANGED <<loop, runtime>> /\ Leave(o)
    BY <1>5 DEF OpSettles, OpEnds, loopVars, closeVars
  <2>2. \A b \in (Worker \cup Op) \ {o} : Busy(b) => Busy(b)'
    BY <2>1 DEF Busy, TypeOK
  <2> QED BY <2>1, <2>2, LeaveKeepsWaits
<1>6. ASSUME NEW o \in Op, Apart(Run(o))
      PROVE  WaitsInv'
  <2>1. /\ op[o] = "new" /\ \E p \in {"active", "refused"} : op' = [op EXCEPT ![o] = p]
        /\ UNCHANGED <<loop, runtime, poolVars, awaits>>
    BY <1>6 DEF Apart, Run, loopVars, closeVars
  <2>2. \A a \in Worker \cup Op : Busy(a) => Busy(a)'
    BY <2>1 DEF Busy, TypeOK
  <2> QED BY <2>1, <2>2, ApartKeepsWaits
<1>7. ASSUME NEW ws \in SUBSET Worker, Apart(StartWorkers(ws))
      PROVE  WaitsInv'
  <2>1. /\ \A w \in Worker : loop[w] = "off"
        /\ UNCHANGED <<op, runtime, poolVars, awaits>>
    BY <1>7 DEF Apart, StartWorkers, Started, closeVars
  <2>2. \A a \in Worker \cup Op : Busy(a) => Busy(a)'
    BY <2>1 DEF Busy
  <2> QED BY <2>1, <2>2, ApartKeepsWaits
<1>8. ASSUME \/ \E w \in Worker : Apart(Stop(w))
             \/ Apart(Shutdown) \/ CloseAlone \/ Apart(GraceExpires)
      PROVE  WaitsInv'
  <2>1. /\ UNCHANGED <<loop, op, poolVars, awaits>>
        /\ runtime \in Closed <=> runtime' \in Closed
    BY <1>8 DEF Apart, Stop, Shutdown, CloseAlone, ShutTokenizer, EndPool, Exit,
       GraceExpires, loopVars, closeVars, Closed
  <2> QED BY <2>1, ApartKeepsWaits DEF Busy
<1>9. CASE SettledThenShut
  <2>1. /\ UNCHANGED <<loop, op, awaits>>
        /\ closed' /\ runtime' = "closed"
    BY <1>9 DEF SettledThenShut, Settled, Pool!Shutdown, loopVars
  <2> QED BY <2>1 DEF WaitsInv, Busy, Closed
<1>10. CASE UNCHANGED allVars
  BY <1>10 DEF allVars, poolVars, WaitsInv, Busy
<1> QED BY <1>1, <1>2, <1>3, <1>4, <1>5, <1>6, <1>7, <1>8, <1>9, <1>10
        DEF ProcessNext

(* When the pool is closed nobody waits for it any more.                   *)
LEMMA NobodyWaits ==
    ASSUME WaitsInv, ResourcesOutliveWork, closed
    PROVE  \A a \in Worker \cup Op : awaits[a] = {}
BY OwnerAssumption DEF WaitsInv, ResourcesOutliveWork, Closed, Busy

(* No text that accepted work still waits for is failed by the shutdown of *)
(* the pool, for any number of workers, operations, texts and threads.     *)
THEOREM TokenizationEndsLast == ProcessSpec => TokenizationOutlivesWork
<1>1. ProcessSpec => []IInv
  BY ProcessIsRuntime, InitIInv, NextIInv, PTL DEF Spec
<1>2. ProcessSpec => []WaitsInv
  <2>1. TypeOK /\ WaitsInv /\ [ProcessNext]_allVars => WaitsInv'
    BY WaitsNext
  <2> QED BY <1>1, <2>1, WaitsInit, PTL DEF ProcessSpec, IInv
<1>3. ASSUME WaitsInv', IInv'
      PROVE  \A j \in Job :
                /\ promise[j] # "rejected" /\ promise'[j] = "rejected" /\ closed'
                => j \notin awaits'[Owner[j]]
  <2>1. closed' => \A a \in Worker \cup Op : awaits'[a] = {}
    BY <1>3, NobodyWaits, OwnerAssumption
    DEF IInv, WaitsInv, ResourcesOutliveWork, Closed, Busy
  <2> QED BY <2>1, OwnerAssumption
<1> QED BY <1>1, <1>2, <1>3, PTL DEF TokenizationOutlivesWork

-----------------------------------------------------------------------------
(* The pool.  Its dispatch fills the free slots in their order: a slot's   *)
(* rank among F is one of 1, 2, ..., |F|, each the rank of exactly one.    *)
Rank(F, s) == Cardinality({t \in F : t <= s})

LEMMA RankIsPlace ==
  ASSUME NEW m \in Nat, NEW F \in SUBSET (1 .. m)
  PROVE  /\ IsFiniteSet(F) /\ Cardinality(F) \in Nat
         /\ \A s \in F : Rank(F, s) \in 1 .. Cardinality(F)
         /\ \A s, t \in F : s < t => Rank(F, s) < Rank(F, t)
<1>1. IsFiniteSet(F) /\ Cardinality(F) \in Nat
  <2>1. IsFiniteSet(1 .. m)
    BY FS_Interval, 1 \in Int, m \in Int
  <2>2. IsFiniteSet(F)
    BY <2>1, FS_Subset
  <2> QED
    BY <2>2, FS_CardinalityType
<1> DEFINE Upto(s) == {t \in F : t <= s}
<1>2. ASSUME NEW s \in F
      PROVE  /\ IsFiniteSet(Upto(s)) /\ Cardinality(Upto(s)) \in Nat
             /\ Cardinality(Upto(s)) <= Cardinality(F)
  <2>1. Upto(s) \in SUBSET F
    OBVIOUS
  <2> HIDE DEF Upto
  <2>2. IsFiniteSet(Upto(s)) /\ Cardinality(Upto(s)) <= Cardinality(F)
    BY <1>1, <2>1, FS_Subset
  <2> QED
    BY <2>2, FS_CardinalityType
<1>3. ASSUME NEW s \in F
      PROVE  Rank(F, s) \in 1 .. Cardinality(F)
  <2>1. s \in Upto(s)
    OBVIOUS
  <2>2. Rank(F, s) = Cardinality(Upto(s))
    BY DEF Rank
  <2> HIDE DEF Upto
  <2>3. Cardinality(Upto(s)) # 0
    BY <1>2, <2>1, FS_EmptySet
  <2> QED
    BY <1>1, <1>2, <2>2, <2>3
<1>4. ASSUME NEW s \in F, NEW t \in F, s < t
      PROVE  Rank(F, s) < Rank(F, t)
  <2>1. Upto(s) \in SUBSET Upto(t) /\ t \notin Upto(s) /\ t \in Upto(t)
    <3>1. s \in Nat /\ t \in Nat /\ \A u \in F : u \in Nat
      OBVIOUS
    <3>2. \A u \in F : u <= s => u <= t
      BY <1>4, <3>1
    <3>3. t <= t /\ ~(t <= s)
      BY <1>4, <3>1
    <3> QED
      BY <3>2, <3>3
  <2>2. Rank(F, s) = Cardinality(Upto(s)) /\ Rank(F, t) = Cardinality(Upto(t))
    BY DEF Rank
  <2> HIDE DEF Upto
  <2>3. /\ IsFiniteSet(Upto(t)) /\ Cardinality(Upto(t)) \in Nat
        /\ Cardinality(Upto(s)) \in Nat
    BY <1>2
  <2>4. Cardinality(Upto(s)) <= Cardinality(Upto(t)) /\ Cardinality(Upto(s)) # Cardinality(Upto(t))
    BY <2>1, <2>3, FS_Subset
  <2> QED
    BY <2>2, <2>3, <2>4
<1> QED
  BY <1>1, <1>3, <1>4

LEMMA EveryRank ==
  ASSUME NEW m \in Nat, NEW F \in SUBSET (1 .. m), NEW k \in 1 .. Cardinality(F)
  PROVE  \E s \in F : Rank(F, s) = k
<1> DEFINE N == 1 .. Cardinality(F)
           f == [s \in F |-> Rank(F, s)]
<1>1. /\ IsFiniteSet(F) /\ Cardinality(F) \in Nat
      /\ \A s \in F : Rank(F, s) \in N
      /\ \A s, t \in F : s < t => Rank(F, s) < Rank(F, t)
  BY RankIsPlace
<1>2. IsFiniteSet(N) /\ Cardinality(N) = Cardinality(F)
  BY <1>1, FS_Interval, 1 \in Int
<1>3. f \in Injection(F, N)
  <2>1. f \in [F -> N]
    BY <1>1
  <2>2. ASSUME NEW s \in F, NEW t \in F, Rank(F, s) = Rank(F, t)
        PROVE  s = t
    <3>1. s \in Nat /\ t \in Nat /\ Rank(F, s) \in Nat
      BY <1>1
    <3>2. ~(s < t) /\ ~(t < s)
      BY <1>1, <2>2, <3>1
    <3> QED
      BY <3>1, <3>2
  <2> QED
    BY <2>1, <2>2 DEF Injection, IsInjective
<1> HIDE DEF N, f
<1>4. f \in Surjection(F, N)
  BY <1>2, <1>3, FS_Injection
<1>5. PICK s \in F : f[s] = k
  BY <1>4 DEF Surjection, N
<1> QED
  BY <1>5 DEF f

(* The instance's minimum and sizes. *)
LEMMA LesserOf ==
  ASSUME NEW a \in Nat, NEW b \in Nat
  PROVE  Pool!Min({a, b}) \in {a, b} /\ Pool!Min({a, b}) <= a /\ Pool!Min({a, b}) <= b
<1>1. \E x \in {a, b} : \A y \in {a, b} : x <= y
  OBVIOUS
<1> QED
  BY <1>1 DEF Pool!Min

LEMMA PoolCardinality ==
  ASSUME NEW S
  PROVE  Pool!Cardinality(S) = Cardinality(S)
BY Zenon DEF Pool!Cardinality, Cardinality, Pool!IsFiniteSet, IsFiniteSet

(* What the pool holds: the jobs of a queue q and of the slots c, each of  *)
(* them once.                                                              *)
InHand(q, c, j) ==
    (\E i \in 1 .. Len(q) : q[i] = j) \/ (\E s \in Pool!Slot : c[s] = j)

Tidy(q, c) ==
    /\ q \in Seq(Job) /\ c \in [Pool!Slot -> Job \cup {Free}]
    /\ \A i, k \in 1 .. Len(q) : q[i] = q[k] => i = k
    /\ \A s, t \in Pool!Slot : c[s] = c[t] /\ c[s] # Free => s = t
    /\ \A i \in 1 .. Len(q), s \in Pool!Slot : q[i] # c[s]

(* Dispatch moves the first jobs of the queue to free slots, and loses and *)
(* doubles none.                                                           *)
LEMMA DispatchMoves ==
  ASSUME NEW q, NEW c, Tidy(q, c), Pool!Dispatch(q, c)
  PROVE  Tidy(queue', current') /\ \A j \in Job : InHand(queue', current', j) <=> InHand(q, c, j)
<1> DEFINE F == Pool!FreeSlots(c)
           n == Pool!Min({Len(q), Cardinality(F)})
           place == [s \in Pool!Slot |-> Rank(F, s)]
<1>1. /\ Slots \in Nat /\ Pool!Slot = 1 .. Slots /\ Free \notin Job
      /\ F = {s \in Pool!Slot : c[s] = Free}
  BY PoolAssumptions DEF Pool!Assumptions, Pool!Slot, Pool!FreeSlots
<1>2. /\ q \in Seq(Job) /\ Len(q) \in Nat /\ c \in [Pool!Slot -> Job \cup {Free}]
      /\ \A i, k \in 1 .. Len(q) : q[i] = q[k] => i = k
      /\ \A s, t \in Pool!Slot : c[s] = c[t] /\ c[s] # Free => s = t
      /\ \A i \in 1 .. Len(q), s \in Pool!Slot : q[i] # c[s]
  BY DEF Tidy
<1>3. /\ queue' = SubSeq(q, n + 1, Len(q))
      /\ current' = [s \in Pool!Slot |-> IF c[s] = Free /\ place[s] <= n
                                         THEN q[place[s]] ELSE c[s]]
  BY PoolCardinality DEF Pool!Dispatch, Pool!Place, Rank
<1> HIDE DEF place, F
<1>4. F \in SUBSET (1 .. Slots)
  BY <1>1
<1>5. /\ Cardinality(F) \in Nat
      /\ \A s \in F : place[s] \in 1 .. Cardinality(F)
      /\ \A s, t \in F : place[s] = place[t] => s = t
  <2>1. /\ Cardinality(F) \in Nat
        /\ \A s \in F : Rank(F, s) \in 1 .. Cardinality(F)
        /\ \A s, t \in F : s < t => Rank(F, s) < Rank(F, t)
    BY <1>1, <1>4, RankIsPlace
  <2>2. \A s \in F : place[s] = Rank(F, s) /\ s \in Nat
    BY <1>1, <1>4 DEF place
  <2>3. ASSUME NEW s \in F, NEW t \in F, place[s] = place[t]
        PROVE  s = t
    <3>1. s \in Nat /\ t \in Nat /\ Rank(F, s) = Rank(F, t) /\ Rank(F, s) \in Nat
      BY <2>1, <2>2, <2>3
    <3>2. ~(s < t) /\ ~(t < s)
      BY <2>1, <3>1
    <3> QED
      BY <3>1, <3>2
  <2> QED
    BY <2>1, <2>2, <2>3
<1>6. ASSUME NEW k \in 1 .. Cardinality(F)
      PROVE  \E s \in F : place[s] = k
  <2>1. PICK s \in F : Rank(F, s) = k
    BY <1>1, <1>4, EveryRank
  <2> QED
    BY <1>1, <2>1 DEF place
<1>7. n \in Nat /\ n <= Len(q) /\ n <= Cardinality(F)
  BY <1>2, <1>5, LesserOf
<1> HIDE DEF n
<1> DEFINE L == Len(q)
<1>8. /\ queue' \in Seq(Job) /\ Len(queue') = L - n
      /\ \A i \in 1 .. L - n : queue'[i] = q[i + n]
  BY <1>2, <1>3, <1>7
<1>9. ASSUME NEW s \in Pool!Slot
      PROVE  \/ s \in F /\ place[s] \in 1 .. n /\ current'[s] = q[place[s]]
             \/ s \in F /\ ~(place[s] <= n) /\ current'[s] = Free
             \/ s \notin F /\ current'[s] = c[s]
  BY <1>1, <1>3, <1>5, <1>7
<1>10. ASSUME NEW i \in 1 .. Len(queue')
       PROVE  queue'[i] = q[i + n] /\ i + n \in 1 .. L /\ i + n > n /\ i \in 1 .. L - n
  BY <1>2, <1>7, <1>8
<1>11. \A i \in 1 .. L : q[i] \in Job
  BY <1>2
<1>12. \A s \in Pool!Slot : s \in F <=> c[s] = Free
  BY <1>1
<1>13. current' \in [Pool!Slot -> Job \cup {Free}]
  <2>1. ASSUME NEW s \in Pool!Slot
        PROVE  current'[s] \in Job \cup {Free}
    <3>1. CASE s \in F /\ place[s] \in 1 .. n /\ current'[s] = q[place[s]]
      BY <1>2, <1>7, <1>11, <3>1
    <3> QED
      BY <1>2, <1>9, <3>1
  <2> QED
    BY <1>3, <2>1
<1>14. ASSUME NEW s \in Pool!Slot, NEW t \in Pool!Slot,
              current'[s] = current'[t], current'[s] # Free
       PROVE  s = t
  <2>1. CASE s \in F /\ t \in F
    <3>1. /\ place[s] \in 1 .. n /\ place[t] \in 1 .. n
          /\ q[place[s]] = q[place[t]]
      BY <1>9, <1>12, <1>14, <2>1
    <3>2. place[s] \in 1 .. L /\ place[t] \in 1 .. L
      BY <1>2, <1>7, <3>1
    <3> QED
      BY <1>2, <1>5, <2>1, <3>1, <3>2
  <2>2. CASE s \notin F /\ t \notin F
    BY <1>2, <1>9, <1>12, <1>14, <2>2
  <2>3. ASSUME NEW u \in F, NEW v \in Pool!Slot \ F,
               current'[u] = current'[v], current'[u] # Free
        PROVE  FALSE
    <3>1. place[u] \in 1 .. n /\ q[place[u]] = c[v]
      BY <1>1, <1>9, <2>3
    <3>2. place[u] \in 1 .. L
      BY <1>2, <1>7, <3>1
    <3> QED
      BY <1>2, <3>1, <3>2
  <2> QED
    BY <1>14, <2>1, <2>2, <2>3
<1>15. ASSUME NEW i \in 1 .. Len(queue'), NEW s \in Pool!Slot, queue'[i] = current'[s]
       PROVE  FALSE
  <2>1. queue'[i] = q[i + n] /\ i + n \in 1 .. L /\ i + n > n /\ q[i + n] \in Job
    BY <1>10, <1>11
  <2>2. CASE s \in F /\ place[s] \in 1 .. n /\ current'[s] = q[place[s]]
    <3>1. place[s] \in 1 .. L /\ place[s] # i + n
      BY <1>2, <1>7, <2>1, <2>2
    <3> QED
      BY <1>2, <1>15, <2>1, <2>2, <3>1
  <2>3. CASE current'[s] = Free
    BY <1>1, <1>15, <2>1, <2>3
  <2>4. CASE current'[s] = c[s]
    BY <1>2, <1>15, <2>1, <2>4
  <2> QED
    BY <1>9, <2>2, <2>3, <2>4
<1>16. ASSUME NEW i \in 1 .. Len(queue'), NEW k \in 1 .. Len(queue'), queue'[i] = queue'[k]
       PROVE  i = k
  <2>1. q[i + n] = q[k + n] /\ i + n \in 1 .. L /\ k + n \in 1 .. L
    BY <1>10, <1>16
  <2>2. i + n = k + n
    BY <1>2, <2>1
  <2> QED
    BY <1>7, <1>10, <2>2
<1>17. Tidy(queue', current')
  BY <1>8, <1>13, <1>14, <1>15, <1>16 DEF Tidy
<1>18. ASSUME NEW j \in Job, InHand(q, c, j)
       PROVE  InHand(queue', current', j)
  <2>1. ASSUME NEW i \in 1 .. L, q[i] = j, i > n
        PROVE  InHand(queue', current', j)
    <3>1. i - n \in 1 .. L - n /\ (i - n) + n = i
      BY <1>2, <1>7, <2>1
    <3>2. i - n \in 1 .. Len(queue') /\ queue'[i - n] = j
      BY <1>8, <2>1, <3>1
    <3> QED
      BY <3>2 DEF InHand
  <2>2. ASSUME NEW i \in 1 .. L, q[i] = j, i <= n
        PROVE  InHand(queue', current', j)
    <3>1. i \in 1 .. Cardinality(F) /\ i \in 1 .. n
      BY <1>5, <1>7, <2>2
    <3>2. PICK s \in F : place[s] = i
      BY <1>6, <3>1
    <3>3. s \in Pool!Slot /\ current'[s] = j
      BY <1>1, <1>3, <1>12, <2>2, <3>2
    <3> QED
      BY <3>3 DEF InHand
  <2>3. ASSUME NEW s \in Pool!Slot, c[s] = j
        PROVE  InHand(queue', current', j)
    <3>1. current'[s] = j
      BY <1>1, <1>3, <2>3
    <3> QED
      BY <3>1 DEF InHand
  <2>4. \A i \in 1 .. L : i > n \/ i <= n
    BY <1>2, <1>7
  <2> QED
    BY <1>18, <2>1, <2>2, <2>3, <2>4 DEF InHand
<1>19. ASSUME NEW j \in Job, InHand(queue', current', j)
       PROVE  InHand(q, c, j)
  <2>1. ASSUME NEW i \in 1 .. Len(queue'), queue'[i] = j
        PROVE  InHand(q, c, j)
    BY <1>10, <2>1 DEF InHand
  <2>2. ASSUME NEW s \in Pool!Slot, current'[s] = j
        PROVE  InHand(q, c, j)
    <3>1. CASE place[s] \in 1 .. n /\ current'[s] = q[place[s]]
      <4>1. place[s] \in 1 .. L /\ q[place[s]] = j
        BY <1>2, <1>7, <2>2, <3>1
      <4> QED
        BY <4>1 DEF InHand
    <3>2. CASE current'[s] = c[s]
      BY <2>2, <3>2 DEF InHand
    <3>3. current'[s] # Free
      BY <1>1, <2>2
    <3> QED
      BY <1>9, <3>1, <3>2, <3>3
  <2> QED
    BY <1>19, <2>1, <2>2 DEF InHand
<1> QED
  BY <1>17, <1>18, <1>19

(* A job that leaves its slot leaves the pool. *)
LEMMA SlotIsFreed ==
  ASSUME NEW q, NEW c, Tidy(q, c), NEW s \in Pool!Slot
  PROVE  LET free == [c EXCEPT ![s] = Free] IN
         /\ Tidy(q, free)
         /\ \A j \in Job : InHand(q, free, j) <=> InHand(q, c, j) /\ j # c[s]
<1> DEFINE free == [c EXCEPT ![s] = Free]
<1>1. /\ c \in [Pool!Slot -> Job \cup {Free}] /\ q \in Seq(Job) /\ Free \notin Job
      /\ \A i, k \in 1 .. Len(q) : q[i] = q[k] => i = k
      /\ \A t, u \in Pool!Slot : c[t] = c[u] /\ c[t] # Free => t = u
      /\ \A i \in 1 .. Len(q), t \in Pool!Slot : q[i] # c[t]
  BY PoolAssumptions DEF Pool!Assumptions, Tidy
<1>2. /\ free \in [Pool!Slot -> Job \cup {Free}] /\ free[s] = Free
      /\ \A t \in Pool!Slot : t # s => free[t] = c[t]
  BY <1>1
<1>3. \A i \in 1 .. Len(q) : q[i] \in Job
  BY <1>1
<1> HIDE DEF free
<1>4. \A i \in 1 .. Len(q), t \in Pool!Slot : q[i] # free[t]
  BY <1>1, <1>2, <1>3
<1>5. \A t, u \in Pool!Slot : free[t] = free[u] /\ free[t] # Free => t = u
  BY <1>1, <1>2
<1>6. Tidy(q, free)
  BY <1>1, <1>2, <1>4, <1>5 DEF Tidy
<1>7. \A j \in Job : InHand(q, free, j) <=> InHand(q, c, j) /\ j # c[s]
  BY <1>1, <1>2 DEF InHand
<1> QED
  BY <1>6, <1>7 DEF free

-----------------------------------------------------------------------------
(* The pool holds what its callers wait for, each job once, and events     *)
(* come of threads that died.                                              *)
PoolInv ==
    /\ Tidy(queue, current)
    /\ promise \in [Job -> {"none", "pending", "resolved", "rejected"}]
    /\ \A j \in Job : promise[j] = "pending" <=> InHand(queue, current, j)
    /\ thread \in [Pool!Slot -> Nat] /\ dead \subseteq Pool!Slot \X Nat
    /\ \A e \in events : e.of \in dead

LEMMA PoolStarts == Pool!Init => PoolInv
<1> SUFFICES ASSUME Pool!Init
             PROVE  PoolInv
  OBVIOUS
<1>1. /\ queue = <<>> /\ current = [s \in Pool!Slot |-> Free]
      /\ thread = [s \in Pool!Slot |-> 0] /\ dead = {} /\ events = {}
      /\ promise = [j \in Job |-> "none"]
  BY DEF Pool!Init
<1>2. Tidy(queue, current)
  BY <1>1 DEF Tidy
<1>3. \A j \in Job : ~InHand(queue, current, j)
  BY <1>1, PoolAssumptions DEF InHand, Pool!Assumptions
<1> QED
  BY <1>1, <1>2, <1>3 DEF PoolInv

(* The job of a slot settles, and the queue goes on. *)
LEMMA SlotSettles ==
  ASSUME PoolInv, NEW s \in Pool!Slot, NEW how \in {"resolved", "rejected"},
         Pool!Settle({current[s]} \ {Free}, how),
         Pool!Dispatch(queue, [current EXCEPT ![s] = Free])
  PROVE  /\ Tidy(queue', current')
         /\ promise' \in [Job -> {"none", "pending", "resolved", "rejected"}]
         /\ \A j \in Job : promise'[j] = "pending" <=> InHand(queue', current', j)
<1> DEFINE free == [current EXCEPT ![s] = Free]
<1>1. /\ Tidy(queue, current) /\ Free \notin Job
      /\ promise \in [Job -> {"none", "pending", "resolved", "rejected"}]
      /\ \A j \in Job : promise[j] = "pending" <=> InHand(queue, current, j)
  BY PoolAssumptions DEF PoolInv, Pool!Assumptions
<1>2. /\ Tidy(queue, free)
      /\ \A j \in Job : InHand(queue, free, j) <=> InHand(queue, current, j) /\ j # current[s]
  BY <1>1, SlotIsFreed
<1>3. Pool!Dispatch(queue, free)
  OBVIOUS
<1> HIDE DEF free
<1>4. /\ Tidy(queue', current')
      /\ \A j \in Job : InHand(queue', current', j) <=> InHand(queue, free, j)
  BY <1>2, <1>3, DispatchMoves
<1>5. promise' = [j \in Job |-> IF j = current[s] THEN how ELSE promise[j]]
  BY <1>1 DEF Pool!Settle
<1>6. promise' \in [Job -> {"none", "pending", "resolved", "rejected"}]
  BY <1>1, <1>5
<1>7. \A j \in Job : promise'[j] = "pending" <=> promise[j] = "pending" /\ j # current[s]
  BY <1>1, <1>5
<1> QED
  BY <1>1, <1>2, <1>4, <1>6, <1>7

LEMMA SubmitKeepsPool ==
  ASSUME PoolInv, NEW j \in Job, Pool!Submit(j)
  PROVE  PoolInv'
<1>1. /\ Tidy(queue, current) /\ promise[j] = "none" /\ Free \notin Job
      /\ promise \in [Job -> {"none", "pending", "resolved", "rejected"}]
      /\ \A k \in Job : promise[k] = "pending" <=> InHand(queue, current, k)
  BY PoolAssumptions DEF PoolInv, Pool!Assumptions, Pool!Submit
<1>2. PoolInv' <=> /\ Tidy(queue', current')
                   /\ promise' \in [Job -> {"none", "pending", "resolved", "rejected"}]
                   /\ \A k \in Job : promise'[k] = "pending" <=> InHand(queue', current', k)
  BY DEF PoolInv, Pool!Submit, Tidy, InHand
<1>3. CASE closed
  <2>1. /\ promise' = [k \in Job |-> IF k = j THEN "rejected" ELSE promise[k]]
        /\ queue' = queue /\ current' = current
    BY <1>3 DEF Pool!Submit, Pool!Settle
  <2>2. promise' \in [Job -> {"none", "pending", "resolved", "rejected"}]
    BY <1>1, <2>1
  <2>3. \A k \in Job : promise'[k] = "pending" <=> promise[k] = "pending"
    BY <1>1, <2>1
  <2> QED
    BY <1>1, <1>2, <2>1, <2>2, <2>3
<1>4. CASE ~closed
  <2> DEFINE q == Append(queue, j)
  <2>1. /\ promise' = [k \in Job |-> IF k = j THEN "pending" ELSE promise[k]]
        /\ Pool!Dispatch(q, current)
    BY <1>4 DEF Pool!Submit, Pool!Settle
  <2>2. /\ queue \in Seq(Job) /\ Len(queue) \in Nat
        /\ current \in [Pool!Slot -> Job \cup {Free}]
        /\ \A i, k \in 1 .. Len(queue) : queue[i] = queue[k] => i = k
        /\ \A s, t \in Pool!Slot : current[s] = current[t] /\ current[s] # Free => s = t
        /\ \A i \in 1 .. Len(queue), s \in Pool!Slot : queue[i] # current[s]
    BY <1>1 DEF Tidy
  <2>3. /\ q \in Seq(Job) /\ Len(q) = Len(queue) + 1
        /\ \A i \in 1 .. Len(queue) : q[i] = queue[i]
        /\ q[Len(queue) + 1] = j
    BY <2>2
  <2> HIDE DEF q
  <2>4. /\ \A i \in 1 .. Len(queue) : queue[i] # j
        /\ \A s \in Pool!Slot : current[s] # j
    BY <1>1 DEF InHand
  <2>5. \A i \in 1 .. Len(q) : i \in 1 .. Len(queue) \/ i = Len(queue) + 1
    BY <2>2, <2>3
  <2>6. \A i, k \in 1 .. Len(q) : q[i] = q[k] => i = k
    BY <2>2, <2>3, <2>4, <2>5
  <2>7. \A i \in 1 .. Len(q), s \in Pool!Slot : q[i] # current[s]
    BY <2>2, <2>3, <2>4, <2>5
  <2>8. Tidy(q, current)
    BY <2>2, <2>3, <2>6, <2>7 DEF Tidy
  <2>9. \A k \in Job : InHand(q, current, k) <=> InHand(queue, current, k) \/ k = j
    <3>1. Len(queue) + 1 \in 1 .. Len(q) /\ \A i \in 1 .. Len(queue) : i \in 1 .. Len(q)
      BY <2>2, <2>3
    <3> QED
      BY <2>3, <2>5, <3>1 DEF InHand
  <2>10. /\ Tidy(queue', current')
         /\ \A k \in Job : InHand(queue', current', k) <=> InHand(q, current, k)
    BY <2>1, <2>8, DispatchMoves
  <2>11. /\ promise' \in [Job -> {"none", "pending", "resolved", "rejected"}]
         /\ \A k \in Job : promise'[k] = "pending" <=> promise[k] = "pending" \/ k = j
    BY <1>1, <2>1
  <2> QED
    BY <1>1, <1>2, <2>9, <2>10, <2>11
<1> QED
  BY <1>3, <1>4

LEMMA MessageKeepsPool ==
  ASSUME PoolInv, NEW s \in Pool!Slot, Pool!Message(s)
  PROVE  PoolInv'
<1>1. PICK how \in {"resolved", "rejected"} : Pool!Settle({current[s]}, how)
  BY DEF Pool!Message
<1>2. /\ current[s] # Free /\ Pool!Dispatch(queue, [current EXCEPT ![s] = Free])
      /\ UNCHANGED <<thread, dead, events>>
  BY DEF Pool!Message
<1>3. {current[s]} \ {Free} = {current[s]}
  BY <1>2
<1>4. Pool!Settle({current[s]} \ {Free}, how)
  BY <1>1, <1>3
<1> QED
  BY <1>2, <1>4, SlotSettles DEF PoolInv

LEMMA DieKeepsPool ==
  ASSUME PoolInv, NEW s \in Pool!Slot, Pool!Die(s)
  PROVE  PoolInv'
<1>1. /\ dead' = dead \cup {<<s, thread[s]>>} /\ UNCHANGED <<queue, current, thread, promise>>
      /\ thread \in [Pool!Slot -> Nat]
  BY DEF Pool!Die, PoolInv
<1>2. PICK kinds \in {{"error", "exit"}, {"exit"}} :
          events' = events \cup [of : {<<s, thread[s]>>}, kind : kinds]
  BY DEF Pool!Die
<1>3. \A e \in events' : e.of \in dead'
  BY <1>1, <1>2 DEF PoolInv
<1>4. dead' \subseteq Pool!Slot \X Nat
  BY <1>1 DEF PoolInv
<1> QED
  BY <1>1, <1>3, <1>4 DEF PoolInv

LEMMA DeliverKeepsPool ==
  ASSUME PoolInv, NEW e \in events, Pool!Deliver(e)
  PROVE  PoolInv'
<1>1. e.of \in Pool!Slot \X Nat /\ e.of[1] \in Pool!Slot
  BY DEF PoolInv
<1>2. dead' = dead /\ events' \subseteq events
  BY DEF Pool!Deliver
<1>3. CASE Pool!Replaceable(e.of)
  <2>1. /\ Pool!Settle({current[e.of[1]]} \ {Free}, "rejected")
        /\ Pool!Dispatch(queue, [current EXCEPT ![e.of[1]] = Free])
        /\ thread' = [thread EXCEPT ![e.of[1]] = @ + 1]
    BY <1>3 DEF Pool!Deliver, Pool!LostJobs
  <2>2. thread' \in [Pool!Slot -> Nat]
    BY <1>1, <2>1 DEF PoolInv
  <2>3. /\ Tidy(queue', current')
        /\ promise' \in [Job -> {"none", "pending", "resolved", "rejected"}]
        /\ \A j \in Job : promise'[j] = "pending" <=> InHand(queue', current', j)
    BY <1>1, <2>1, SlotSettles
  <2> QED
    BY <1>2, <2>2, <2>3 DEF PoolInv
<1>4. CASE ~Pool!Replaceable(e.of)
  <2>1. UNCHANGED <<promise, thread, queue, current>>
    BY <1>4 DEF Pool!Deliver
  <2> QED
    BY <1>2, <2>1 DEF PoolInv
<1> QED
  BY <1>3, <1>4

LEMMA ShutdownKeepsPool ==
  ASSUME PoolInv, Pool!Shutdown
  PROVE  PoolInv'
<1> DEFINE Held == {queue[i] : i \in DOMAIN queue} \cup {current[s] : s \in Pool!Slot}
           Open == {j \in Job : promise[j] = "pending"}
<1>1. /\ queue' = <<>> /\ current' = [s \in Pool!Slot |-> Free]
      /\ promise' = [j \in Job |-> IF j \in Open \cap Held THEN "rejected" ELSE promise[j]]
      /\ UNCHANGED <<thread, dead, events>>
  BY DEF Pool!Shutdown, Pool!Settle
<1>2. queue \in Seq(Job) /\ DOMAIN queue = 1 .. Len(queue)
  BY DEF PoolInv, Tidy
<1>3. \A j \in Open : j \in Held
  BY <1>2 DEF PoolInv, InHand
<1>4. \A j \in Job : promise'[j] # "pending"
  <2> HIDE DEF Held
  <2> QED
    BY <1>1, <1>3
<1>5. promise' \in [Job -> {"none", "pending", "resolved", "rejected"}]
  <2> HIDE DEF Held, Open
  <2> QED
    BY <1>1 DEF PoolInv
<1>6. Tidy(queue', current')
  BY <1>1 DEF Tidy
<1>7. \A j \in Job : ~InHand(queue', current', j)
  BY <1>1, PoolAssumptions DEF InHand, Pool!Assumptions
<1> QED
  BY <1>1, <1>4, <1>5, <1>6, <1>7 DEF PoolInv

LEMMA PoolKeeps == PoolInv /\ [Pool!Next]_poolVars => PoolInv'
<1> SUFFICES ASSUME PoolInv, [Pool!Next]_poolVars
             PROVE  PoolInv'
  OBVIOUS
<1>1. CASE UNCHANGED poolVars
  BY <1>1 DEF poolVars, PoolInv, Tidy, InHand
<1> QED
  BY <1>1, SubmitKeepsPool, MessageKeepsPool, DieKeepsPool, DeliverKeepsPool,
     ShutdownKeepsPool DEF Pool!Next

(* To the pool, the process around it only decides when its steps are      *)
(* taken.                                                                  *)
LEMMA ProcessStepsPool == [ProcessNext]_allVars => [Pool!Next]_poolVars
<1> SUFFICES ASSUME [ProcessNext]_allVars
             PROVE  [Pool!Next]_poolVars
  OBVIOUS
<1>1. CASE \E j \in Job : Truncate(j)
  BY <1>1 DEF Truncate, Pool!Next
<1>2. CASE DeliverOne \/ \E s \in Pool!Slot : Message(s) \/ Die(s)
  BY <1>2 DEF DeliverOne, Message, Die, PoolStep, Pool!Next
<1>3. CASE \E w \in Worker : LoopAlone(w) \/ BatchSettles(w) \/ Apart(Stop(w))
  BY <1>3 DEF LoopAlone, BatchSettles, Apart, Leave
<1>4. CASE \E o \in Op : Apart(Run(o)) \/ OpSettles(o)
  BY <1>4 DEF Apart, OpSettles, Leave
<1>5. CASE SettledThenShut
  BY <1>5 DEF SettledThenShut, Pool!Next
<1>6. CASE \/ Apart(Shutdown) \/ CloseAlone \/ Apart(GraceExpires)
           \/ \E ws \in SUBSET Worker : Apart(StartWorkers(ws))
  BY <1>6 DEF Apart, CloseAlone
<1>7. CASE UNCHANGED allVars
  BY <1>7 DEF allVars
<1> QED
  BY <1>1, <1>2, <1>3, <1>4, <1>5, <1>6, <1>7 DEF ProcessNext

LEMMA EachInOnePlace == PoolInv => Pool!JobIsInOnePlace
<1> SUFFICES ASSUME PoolInv, NEW j \in Job
             PROVE  Cardinality(Pool!Queued(j)) + Cardinality(Pool!Held(j)) =
                      (IF promise[j] = "pending" THEN 1 ELSE 0)
  BY PoolCardinality DEF Pool!JobIsInOnePlace
<1> DEFINE Q == Pool!Queued(j)
           H == Pool!Held(j)
<1>1. /\ Q = {i \in 1 .. Len(queue) : queue[i] = j} /\ H = {s \in Pool!Slot : current[s] = j}
      /\ j # Free /\ Tidy(queue, current)
      /\ promise[j] = "pending" <=> InHand(queue, current, j)
  <2>1. queue \in Seq(Job) /\ DOMAIN queue = 1 .. Len(queue) /\ j # Free
    BY PoolAssumptions DEF PoolInv, Tidy, Pool!Assumptions
  <2> QED
    BY <2>1 DEF Pool!Queued, Pool!Held, PoolInv
<1> HIDE DEF Q, H
<1>2. promise[j] = "pending" <=> Q # {} \/ H # {}
  BY <1>1 DEF InHand
<1>3. /\ \A i, k \in Q : i = k
      /\ \A s, t \in H : s = t
      /\ Q = {} \/ H = {}
  BY <1>1 DEF Tidy
<1>4. /\ Q # {} => \E i : Q = {i}
      /\ H # {} => \E s : H = {s}
  BY <1>3
<1>5. /\ Q # {} => Cardinality(Q) = 1
      /\ H # {} => Cardinality(H) = 1
      /\ Q = {} => Cardinality(Q) = 0
      /\ H = {} => Cardinality(H) = 0
  BY <1>4, FS_Singleton, FS_EmptySet
<1> QED
  BY <1>2, <1>3, <1>5 DEF Q, H

(* A thread gives up its slot only by an event of its own death. *)
LEMMA DeadGiveWay ==
  ASSUME PoolInv, [Pool!Next]_poolVars, NEW s \in Pool!Slot, thread'[s] # thread[s]
  PROVE  ~Pool!Alive(s)
<1>1. PICK e \in events : Pool!Deliver(e)
  BY DEF poolVars, Pool!Next, Pool!Submit, Pool!Message, Pool!Die, Pool!Shutdown
<1>2. e.of \in dead /\ e.of \in Pool!Slot \X Nat /\ thread \in [Pool!Slot -> Nat]
  BY DEF PoolInv
<1>3. /\ thread[e.of[1]] = e.of[2]
      /\ thread' = [thread EXCEPT ![e.of[1]] = @ + 1]
  BY <1>1 DEF Pool!Deliver, Pool!Replaceable
<1>4. s = e.of[1]
  BY <1>2, <1>3
<1>5. <<s, thread[s]>> = e.of
  BY <1>2, <1>3, <1>4
<1> QED
  BY <1>2, <1>5 DEF Pool!Alive

(* A caller whose promise is open has its job in exactly one place, and    *)
(* the late events of a dead thread never fail the job of the thread that  *)
(* took its slot: for any number of jobs, threads and deaths.              *)
THEOREM JobsStayInPlace == ProcessSpec => JobsAreKept
<1>1. ProcessInit => PoolInv
  BY PoolStarts DEF ProcessInit
<1>2. PoolInv /\ [Pool!Next]_poolVars =>
        [\A j \in Job : \A s \in Pool!Slot :
            /\ current[s] = j
            /\ promise[j] = "pending" /\ promise'[j] = "rejected"
            /\ thread'[s] # thread[s]
            => ~Pool!Alive(s)]_(Pool!vars)
  BY DeadGiveWay
<1> QED
  BY <1>1, <1>2, PoolKeeps, ProcessStepsPool, EachInOnePlace, PTL
     DEF ProcessSpec, JobsAreKept, Pool!OnlyOwnThreadFails

-----------------------------------------------------------------------------
(* The command around the process (module Command).                        *)
(* What the exit status has to do with the rest before it is final: until  *)
(* close() has failed it is what the body left there, or what the error of *)
(* the body asks for; when the finally met a failed close() it is 1.       *)
ExitInv ==
    /\ CommandTypeOK
    /\ over => body # "running" /\ stop \in {"resolved", "rejected"}
    /\ command = "exited" => over
    /\ command # "forced" =>
         /\ stop # "rejected" =>
              \/ exitCode = 0 /\ body \in {"running", "ok"}
              \/ exitCode = 0 /\ body \in {"failed", "badInput"} /\ ~over
              \/ exitCode = 1 /\ body = "partial"
              \/ exitCode = 1 /\ body = "failed" /\ over
              \/ exitCode = 2 /\ body = "badInput" /\ over
         /\ over /\ stop = "rejected" => exitCode = 1
         /\ exitCode = 2 => over /\ body = "badInput"

(* All fields of a command's state.                                        *)
LEMMA CommandTypes == ASSUME CommandTypeOK, [CommandNext]_commandVars PROVE CommandTypeOK'
<1>1. ASSUME NEW result \in {"ok", "partial", "badInput", "failed"}, BodyEnds(result)
      PROVE  CommandTypeOK'
  BY <1>1 DEF CommandTypeOK, BodyEnds, AskedBy
<1>2. CASE Signal
  BY <1>2 DEF CommandTypeOK, Signal, AskedBy
<1>3. CASE Eof
  <2>1. done' \in BOOLEAN /\ {listening, over} \subseteq BOOLEAN
    BY <1>3, Zenon DEF CommandTypeOK, Eof
  <2>2. exitCode' \in 0 .. 2
    BY <1>3 DEF CommandTypeOK, Eof
  <2>3. /\ asked' \subseteq {"signal", "eof", "finally"}
        /\ stop' \in {"unasked", "pending", "resolved", "rejected"}
        /\ (stop' = "unasked") = (asked' = {})
    <3>1. CASE stop = "resolved"
      BY <1>3, <3>1 DEF CommandTypeOK, Eof
    <3>2. CASE stop # "resolved"
      BY <1>3, <3>2 DEF CommandTypeOK, Eof, AskedBy
    <3> QED
      BY <3>1, <3>2
  <2>4. UNCHANGED <<kind, body, listening, over, command>> /\ stdin' = "ended"
    BY <1>3 DEF Eof
  <2> QED
    BY <2>1, <2>2, <2>3, <2>4 DEF CommandTypeOK
<1>4. CASE CloseResolves
  BY <1>4 DEF CommandTypeOK, CloseResolves, Settles
<1>5. CASE CloseRejects
  <2>1. done' \in BOOLEAN /\ listening' \in BOOLEAN /\ over' \in BOOLEAN
    BY <1>5, Zenon DEF CommandTypeOK, CloseRejects, Settles
  <2>2. exitCode' \in 0 .. 2
    BY <1>5 DEF CommandTypeOK, CloseRejects
  <2>3. asked # {} /\ asked' \in {asked, asked \cup {"eof"}}
    BY <1>5 DEF CommandTypeOK, CloseRejects, Settles
  <2>4. UNCHANGED <<kind, body, stdin, command>> /\ stop' = "rejected"
    BY <1>5 DEF CloseRejects, Settles
  <2> QED
    BY <2>1, <2>2, <2>3, <2>4 DEF CommandTypeOK
<1>6. CASE GraceEnds
  BY <1>6 DEF CommandTypeOK, GraceEnds
<1>7. CASE Returns
  BY <1>7 DEF CommandTypeOK, Returns, Thrown
<1>8. CASE CommandExits
  BY <1>8 DEF CommandTypeOK, CommandExits
<1>9. CASE UNCHANGED commandVars
  BY <1>9 DEF CommandTypeOK, commandVars
<1> QED
  BY <1>1, <1>2, <1>3, <1>4, <1>5, <1>6, <1>7, <1>8, <1>9 DEF CommandNext

LEMMA ExitInvKept == ASSUME ExitInv, [CommandNext]_commandVars PROVE ExitInv'
<1>0. CommandTypeOK'
  BY CommandTypes DEF ExitInv
<1>1. ASSUME NEW result \in {"ok", "partial", "badInput", "failed"}, BodyEnds(result)
      PROVE  ExitInv'
  BY <1>0, <1>1 DEF ExitInv, CommandTypeOK, BodyEnds, AskedBy, StillUp
<1>2. CASE Signal
  BY <1>0, <1>2 DEF ExitInv, Signal, AskedBy, StillUp
<1>3. CASE Eof
  BY <1>0, <1>3 DEF ExitInv, Eof, AskedBy, StillUp
<1>4. CASE CloseResolves
  BY <1>0, <1>4 DEF ExitInv, CloseResolves, Settles, StillUp
<1>5. CASE CloseRejects
  BY <1>0, <1>5 DEF ExitInv, CloseRejects, Settles, StillUp
<1>6. CASE GraceEnds
  BY <1>0, <1>6 DEF ExitInv, GraceEnds, StillUp
<1>7. CASE Returns
  BY <1>0, <1>7 DEF ExitInv, Returns, Thrown, StillUp
<1>8. CASE CommandExits
  BY <1>0, <1>8 DEF ExitInv, CommandExits, StillUp
<1>9. CASE UNCHANGED commandVars
  BY <1>0, <1>9 DEF ExitInv, commandVars
<1> QED
  BY <1>1, <1>2, <1>3, <1>4, <1>5, <1>6, <1>7, <1>8, <1>9 DEF CommandNext

(* A command that ends by itself reports 0 only for work that was done and *)
(* closed, and 2 only for a request it refused: whichever signals, ends of *)
(* stdin and failures of close() came before.                              *)
THEOREM ExitStatusIsTrue == CommandSpec => []ExitTellsTruth
<1>1. ASSUME CommandInit PROVE ExitInv
  <2>1. CommandTypeOK
    <3>1. {listening, done, over} \subseteq BOOLEAN
      BY <1>1, Zenon DEF CommandInit
    <3> QED
      BY <1>1, <3>1 DEF CommandInit, CommandTypeOK
  <2> QED
    BY <1>1, <2>1 DEF CommandInit, ExitInv
<1>2. ExitInv => ExitTellsTruth
  BY DEF ExitInv, CommandTypeOK, ExitTellsTruth
<1> QED
  BY <1>1, <1>2, ExitInvKept, PTL DEF CommandSpec
-----------------------------------------------------------------------------
(* Powers of two, which the backoff takes, are sizes of power sets.        *)
LEMMA PowerIsCardinality ==
    ASSUME NEW n \in Nat
    PROVE  2 ^ n = Cardinality(SUBSET (1 .. n)) /\ IsFiniteSet(SUBSET (1 .. n))
<1>1. IsFiniteSet(1 .. n) /\ Cardinality(1 .. n) = n
  BY FS_Interval
<1> QED
  BY <1>1, FS_SUBSET

LEMMA PowerDoubles ==
    ASSUME NEW n \in Nat \ {0}
    PROVE  2 ^ n = 2 * 2 ^ (n - 1) /\ 2 ^ n \in Nat
<1> DEFINE Below == SUBSET (1 .. n - 1)
           With == {s \cup {n} : s \in Below}
           Add == [s \in Below |-> s \cup {n}]
<1>1. IsFiniteSet(Below) /\ Cardinality(Below) = 2 ^ (n - 1) /\ Cardinality(Below) \in Nat
  <2>1. n - 1 \in Nat
    OBVIOUS
  <2>2. IsFiniteSet(Below) /\ Cardinality(Below) = 2 ^ (n - 1)
    BY <2>1, PowerIsCardinality
  <2> QED
    BY <2>2, FS_CardinalityType, Zenon
<1>2. Add \in Bijection(Below, With)
  <2>1. \A s, t \in Below : s \cup {n} = t \cup {n} => s = t
    <3>1. n \notin 1 .. n - 1
      OBVIOUS
    <3> QED BY <3>1, Zenon
  <2>2. Add \in Injection(Below, With)
    <3>1. Add \in [Below -> With]
      OBVIOUS
    <3>2. \A s, t \in Below : Add[s] = Add[t] => s = t
      BY <2>1
    <3> HIDE DEF Add, Below, With
    <3> QED BY <3>1, <3>2, Zenon DEF Injection, IsInjective
  <2>3. \A w \in With : \E s \in Below : Add[s] = w
    OBVIOUS
  <2> QED
    <3> HIDE DEF Add, Below, With
    <3> QED BY <2>2, <2>3, Zenon DEF Bijection, Injection, Surjection
<1>3. IsFiniteSet(With) /\ Cardinality(With) = Cardinality(Below)
  <2> HIDE DEF With, Below, Add
  <2> QED BY <1>1, <1>2, FS_Bijection DEF ExistsBijection
<1>4. SUBSET (1 .. n) = Below \cup With
  <2>1. ASSUME NEW s \in SUBSET (1 .. n), n \in s PROVE s \in With
    <3>1. s \ {n} \in Below /\ s = (s \ {n}) \cup {n}
      BY <2>1
    <3> QED BY <3>1
  <2>2. ASSUME NEW s \in SUBSET (1 .. n), n \notin s PROVE s \in Below
    BY <2>2
  <2>3. Below \cup With \subseteq SUBSET (1 .. n)
    <3>1. 1 .. n - 1 \subseteq 1 .. n /\ n \in 1 .. n
      OBVIOUS
    <3> QED BY <3>1, Zenon
  <2> QED BY <2>1, <2>2, <2>3
<1>5. Below \cap With = {}
  OBVIOUS
<1>6. Cardinality(Below \cup With) = Cardinality(Below) + Cardinality(With)
  <2> HIDE DEF With, Below
  <2> QED BY <1>1, <1>3, <1>5, FS_Union, FS_EmptySet
<1>7. 2 ^ n = Cardinality(SUBSET (1 .. n))
  BY PowerIsCardinality
<1>8. 2 ^ n = Cardinality(Below) + Cardinality(Below)
  BY <1>3, <1>4, <1>6, <1>7, Zenon
<1> QED
  <2> HIDE DEF Below
  <2> QED BY <1>1, <1>8

LEMMA PowersAreNatural == ASSUME NEW n \in Nat PROVE 2 ^ n \in Nat /\ 2 ^ n > 0
<1>1. 2 ^ n \in Nat
  <2>1. IsFiniteSet(SUBSET (1 .. n)) /\ 2 ^ n = Cardinality(SUBSET (1 .. n))
    BY PowerIsCardinality
  <2> QED
    BY <2>1, FS_CardinalityType, Zenon
<1>2. {} \in SUBSET (1 .. n)
  OBVIOUS
<1>3. Cardinality(SUBSET (1 .. n)) # 0
  BY <1>2, PowerIsCardinality, FS_EmptySet
<1> QED
  BY <1>1, <1>3, PowerIsCardinality
(* What the waits of the last pass have to do with its cause, and what the *)
(* last sleep after an error was, as long as the errors are counted.       *)
PaceInv ==
    /\ interval \in Interval /\ errors \in 0 .. MaxErrors
    /\ backedOff \in 0 .. Longest
    /\ errors = 0 => backedOff = 0
    /\ errors \in 1 .. MaxErrors - 1 => backedOff = Backoff(errors)
    /\ why = "limited" =>
         /\ thrown \in ProviderError
         /\ hidden = RateLimitBackoff(thrown)
         /\ slept = Timer(RateLimitBackoff(thrown))

(* Backoffs lie in their range, double from one error to the next, and     *)
(* have reached the longest where the count stops.                         *)
LEMMA BackoffsDouble ==
    ASSUME interval \in Interval, NEW n \in Nat
    PROVE  /\ Backoff(n + 1) \in 1 .. Longest
           /\ Backoff(n + 1) >= Shorter(interval, Longest)
           /\ n > 0 => Backoff(n + 1) >= Shorter(2 * Backoff(n), Longest)
           /\ n = MaxErrors => Backoff(n + 1) = Longest
<1> DEFINE p == 2 ^ n
<1>1. p \in Nat \ {0}
  BY PowersAreNatural
<1>2. interval \in Nat \ {0} /\ Longest \in Nat \ {0} /\ MaxErrors \in Nat \ {0}
  BY PaceAssumptions
<1>3. (n + 1) - 1 = n /\ Backoff(n + 1) = Shorter(interval * p, Longest)
  BY DEF Backoff
<1>4. interval * p \in Nat /\ interval * p >= interval
  <2> HIDE DEF p
  <2> QED BY <1>1, <1>2
<1>5. ASSUME n > 0
      PROVE  Backoff(n + 1) >= Shorter(2 * Backoff(n), Longest)
  <2>1. p = 2 * 2 ^ (n - 1) /\ 2 ^ (n - 1) \in Nat
    BY <1>5, PowerDoubles, PowersAreNatural
  <2>2. PICK q \in Nat : q = 2 ^ (n - 1)
    BY <2>1
  <2>3. interval * p = 2 * (interval * q) /\ interval * q \in Nat
    <3> HIDE DEF p
    <3> QED BY <1>2, <2>1, <2>2
  <2>4. Backoff(n) = Shorter(interval * q, Longest)
    BY <2>2 DEF Backoff
  <2>5. ASSUME NEW x \in Nat
        PROVE  Shorter(2 * x, Longest) >= Shorter(2 * Shorter(x, Longest), Longest)
    BY <1>2 DEF Shorter
  <2> HIDE DEF p
  <2> QED
    BY <1>3, <2>3, <2>4, <2>5
<1>6. ASSUME n = MaxErrors
      PROVE  Backoff(n + 1) = Longest
  <2>1. p = 2 * 2 ^ (n - 1) /\ 2 ^ (n - 1) \in Nat
    BY <1>2, <1>6, PowerDoubles, PowersAreNatural
  <2>2. PICK q \in Nat : q = 2 ^ (n - 1)
    BY <2>1
  <2>3. interval * q >= Longest /\ interval * q \in Nat
    BY <1>2, <1>6, <2>2, PaceAssumptions
  <2>4. interval * p = 2 * (interval * q)
    <3> HIDE DEF p
    <3> QED BY <1>2, <2>1, <2>2
  <2>5. interval * p >= Longest
    <3> HIDE DEF p
    <3> QED BY <1>2, <2>3, <2>4
  <2> HIDE DEF p
  <2> QED BY <1>2, <1>3, <1>4, <2>5 DEF Shorter
<1> HIDE DEF p
<1> QED
  BY <1>2, <1>3, <1>4, <1>5, <1>6 DEF Shorter

(* Every error asks for a time to wait or for none, and its last attempt   *)
(* has the last word.                                                      *)
LEMMA ErrorsAsk ==
    ASSUME NEW e \in ProviderError
    PROVE  /\ last(e).after \in RetryAfter \cup {None} /\ Headers(e) \in RetryAfter \cup {None}
           /\ Headers(e) = last(e).after \/ last(e).after = None
<1>1. CASE \E a \in Attempt : e = <<a>>
  <2>1. PICK a \in Attempt : e = <<a>>
    BY <1>1
  <2>2. last(e) = a /\ DOMAIN e = {1} /\ e[1] = a
    BY <2>1 DEF last
  <2>3. CASE a.headers
    BY <2>2, <2>3 DEF Headers, Attempt
  <2>4. CASE ~a.headers
    BY <2>2, <2>4 DEF Headers, Attempt
  <2> QED BY <2>3, <2>4
<1>2. CASE \E a, b \in Attempt : e = <<a, b>>
  <2>1. PICK a \in Attempt, b \in Attempt : e = <<a, b>>
    BY <1>2
  <2>2. last(e) = b /\ DOMAIN e = 1 .. 2 /\ e[1] = a /\ e[2] = b
    BY <2>1 DEF last
  <2>3. CASE b.headers
    BY <2>2, <2>3 DEF Headers, Attempt
  <2>4. CASE ~b.headers /\ ~a.headers
    <3>1. {i \in DOMAIN e : e[i].headers} = {}
      BY <2>2, <2>4
    <3> QED BY <2>2, <2>4, <3>1 DEF Headers, Attempt
  <2>5. CASE ~b.headers /\ a.headers
    <3>1. {i \in DOMAIN e : e[i].headers} = {1}
      BY <2>2, <2>5
    <3> QED BY <2>2, <2>5, <3>1 DEF Headers, Attempt
  <2> QED BY <2>3, <2>4, <2>5
<1> QED
  BY <1>1, <1>2 DEF ProviderError

LEMMA PaceStarts == PaceInit => PaceInv
BY PaceAssumptions DEF PaceInit, PaceInv

LEMMA FailureBacksOff ==
    ASSUME PaceInv, Fails
    PROVE  /\ slept' = Backoff(errors + 1) /\ backedOff' = slept'
           /\ slept' \in 1 .. Longest
<1>1. Backoff(errors + 1) \in 1 .. Longest
  <2>1. interval \in Interval /\ errors \in Nat
    BY PaceAssumptions DEF PaceInv
  <2> QED
    BY <2>1, BackoffsDouble
<1>2. Timer(Backoff(errors + 1)) = Backoff(errors + 1)
  BY <1>1, PaceAssumptions DEF Timer
<1> QED
  BY <1>1, <1>2 DEF Fails, Sleep

LEMMA PaceKept == ASSUME PaceInv, [PaceNext]_paceVars PROVE PaceInv'
<1> USE PaceAssumptions
<1>1. CASE Works
  BY <1>1 DEF Works, PaceInv
<1>2. CASE Idles
  BY <1>2 DEF Idles, PaceInv
<1>3. CASE Fails
  <2>1. slept' = Backoff(errors + 1) /\ backedOff' = slept' /\ slept' \in 1 .. Longest
    BY <1>3, FailureBacksOff
  <2>2. errors' \in 1 .. MaxErrors /\ (errors' \in 1 .. MaxErrors - 1 => errors' = errors + 1)
    BY <1>3 DEF Fails, PaceInv, Shorter
  <2>3. interval' = interval /\ why' = "failed"
    BY <1>3 DEF Fails
  <2>4. errors' \in 1 .. MaxErrors - 1 => backedOff' = Backoff(errors)'
    BY <2>1, <2>2, <2>3 DEF Backoff
  <2> QED
    BY <2>1, <2>2, <2>3, <2>4 DEF PaceInv
<1>4. ASSUME NEW e \in ProviderError, Limited(e) PROVE PaceInv'
  <2>1. /\ thrown' = e /\ why' = "limited" /\ hidden' = RateLimitBackoff(e)
        /\ slept' = Timer(RateLimitBackoff(e))
        /\ UNCHANGED <<interval, errors, backedOff>>
    BY <1>4 DEF Limited, Sleep
  <2>2. Backoff(errors)' = Backoff(errors)
    BY <2>1 DEF Backoff
  <2> QED
    BY <2>1, <2>2 DEF PaceInv
<1>5. CASE Wakes
  <2>1. Backoff(errors)' = Backoff(errors)
    BY <1>5 DEF Backoff, Wakes
  <2> QED BY <1>5, <2>1 DEF Wakes, PaceInv
<1>6. CASE UNCHANGED paceVars
  <2>1. Backoff(errors)' = Backoff(errors)
    BY <1>6 DEF Backoff, paceVars
  <2> QED BY <1>6, <2>1 DEF paceVars, PaceInv
<1> QED
  BY <1>1, <1>2, <1>3, <1>4, <1>5, <1>6 DEF PaceNext

LEMMA ErrorsRest ==
    ASSUME PaceInv, [PaceNext]_paceVars
    PROVE  [why' = "failed" /\ pace = "pass" /\ pace' = "asleep" =>
              /\ slept' >= Shorter(interval, Longest) /\ slept' <= Longest
              /\ slept' >= Shorter(2 * backedOff, Longest)]_paceVars
<1> SUFFICES ASSUME why' = "failed", pace = "pass", pace' = "asleep"
             PROVE  /\ slept' >= Shorter(interval, Longest) /\ slept' <= Longest
                    /\ slept' >= Shorter(2 * backedOff, Longest)
  OBVIOUS
<1>1. Fails
  BY DEF PaceNext, paceVars, Works, Idles, Limited, Wakes
<1>2. slept' = Backoff(errors + 1) /\ slept' \in 1 .. Longest
  BY <1>1, FailureBacksOff
<1>3. interval \in Interval /\ errors \in Nat /\ backedOff \in 0 .. Longest
  BY PaceAssumptions DEF PaceInv
<1>4. slept' >= Shorter(interval, Longest)
  BY <1>2, <1>3, BackoffsDouble
<1>5. slept' >= Shorter(2 * backedOff, Longest)
  <2>1. CASE errors = 0
    BY <1>2, <2>1, PaceAssumptions DEF PaceInv, Shorter
  <2>2. CASE errors \in 1 .. MaxErrors - 1
    <3>1. backedOff = Backoff(errors)
      BY <2>2 DEF PaceInv
    <3> QED BY <1>2, <1>3, <2>2, <3>1, BackoffsDouble
  <2>3. CASE errors = MaxErrors
    <3>1. slept' = Longest
      BY <1>2, <1>3, <2>3, BackoffsDouble
    <3> QED BY <1>3, <3>1, PaceAssumptions DEF Shorter
  <2> QED
    BY <2>1, <2>2, <2>3, PaceAssumptions DEF PaceInv
<1> QED
  BY <1>2, <1>4, <1>5

LEMMA LimitsRest == PaceInv => ThrottleIsKept
<1> SUFFICES ASSUME PaceInv, why = "limited"
             PROVE  /\ hidden >= last(thrown).after
                    /\ slept >= last(thrown).after \/ last(thrown).after > TimerMax
  BY DEF ThrottleIsKept
<1>1. PICK e \in ProviderError : /\ thrown = e /\ hidden = RateLimitBackoff(e)
                                 /\ slept = Timer(RateLimitBackoff(e))
  BY DEF PaceInv
<1>2. PICK a \in RetryAfter \cup {None} : a = last(e).after
  BY ErrorsAsk
<1>3. PICK h \in RetryAfter \cup {None} : h = Headers(e)
  BY ErrorsAsk
<1>4. h = a \/ a = None
  BY <1>2, <1>3, ErrorsAsk
<1>5. RateLimitBackoff(e) = IF h > 0 THEN h ELSE RateLimited
  BY <1>3 DEF RateLimitBackoff
<1>6. RateLimitBackoff(e) >= a /\ (Timer(RateLimitBackoff(e)) >= a \/ a > TimerMax)
  BY <1>4, <1>5, PaceAssumptions DEF None, Timer
<1>7. RateLimitBackoff(e) >= a
  BY <1>4, <1>5, PaceAssumptions DEF None
<1> QED
  BY <1>1, <1>2, <1>6, <1>7

(* After an error a worker rests at least twice as long as after the error *)
(* before, up to the longest backoff, whatever rate limits came between    *)
(* them; and nothing throttled is offered or tried again before the        *)
(* provider's last answer allows it: for any interval, any number of       *)
(* errors, any backoff limits and any Retry-After.                         *)
THEOREM PaceStaysHeld == PaceSpec => PaceIsHeld
BY PaceStarts, PaceKept, ErrorsRest, LimitsRest, PTL
   DEF PaceSpec, PaceIsHeld, ErrorsSlowDown
=============================================================================
