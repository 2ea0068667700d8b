-------------------------- MODULE WorkerPoolProofs --------------------------
(* Theorems about WorkerPool, for every number of workers, isolates and    *)
(* tasks.                                                                  *)
EXTENDS WorkerPool, FiniteSetTheorems, TLAPS

(* Type correctness of the worker pool.                                    *)
THEOREM PoolTypeCorrect == PoolSpec => []PoolTypeOK
<1> USE PoolAssumption DEF PoolAssumption, PoolTypeOK, Task, NoTask, Stray, WorkerPc, IsolatePc
<1>1. PoolInit => PoolTypeOK
  BY DEF PoolInit
<1>2. PoolTypeOK /\ [PoolNext]_poolVars => PoolTypeOK'
  <2> SUFFICES ASSUME PoolTypeOK, [PoolNext]_poolVars PROVE PoolTypeOK'
    OBVIOUS
  <2>1. ASSUME NEW i \in Isolates, StartWorkers(i) PROVE PoolTypeOK'
    BY <2>1 DEF StartWorkers
  <2>2. ASSUME NEW i \in Isolates, Push(i) PROVE PoolTypeOK'
    BY <2>2 DEF Push
  <2>3. ASSUME NEW i \in Isolates, NotifyOne(i) PROVE PoolTypeOK'
    BY <2>3 DEF NotifyOne, Sleeping
  <2>4. ASSUME NEW i \in Isolates, Retire(i) PROVE PoolTypeOK'
    BY <2>4 DEF Retire
  <2>5. ASSUME NEW w \in Workers, TestPredicate(w) PROVE PoolTypeOK'
    BY <2>5 DEF TestPredicate
  <2>6. ASSUME NEW w \in Workers, Block(w) PROVE PoolTypeOK'
    BY <2>6 DEF Block
  <2>7. ASSUME NEW w \in Workers, SpuriousWake(w) PROVE PoolTypeOK'
    BY <2>7 DEF SpuriousWake
  <2>8. ASSUME NEW w \in Workers, Take(w) PROVE PoolTypeOK'
    <3>1. popped < MaxPops /\ underruns + 1 <= popped + 1
      BY <2>8 DEF Take
    <3>1a. (IF popped < pushed THEN popped + 1 ELSE MaxTasks + underruns + 1) \in Task \union Stray
      BY <3>1
    <3>2. QED
      BY <2>8, <3>1, <3>1a DEF Take, Empty
  <2>9. ASSUME NEW w \in Workers, Return(w) PROVE PoolTypeOK'
    BY <2>9 DEF Return
  <2>10. CASE UNCHANGED poolVars
    BY <2>10 DEF poolVars
  <2>11. QED
    BY <2>1, <2>2, <2>3, <2>4, <2>5, <2>6, <2>7, <2>8, <2>9, <2>10 DEF PoolNext
<1>3. QED
  BY <1>1, <1>2, PTL DEF PoolSpec
-----------------------------------------------------------------------------
(* One worker: it is the only one to pop, so what its test of the wait     *)
(* predicate saw still holds when it pops.                                 *)
SingleInv == /\ underruns = 0
             /\ popped <= pushed
             /\ \A w \in Workers : wpc[w] = "take" => popped < pushed

(* A pool of one worker never pops an empty queue, however many isolates   *)
(* push and however wake-ups and notifications interleave.                 *)
THEOREM SingleWorkerNeverUnderruns ==
    ASSUME \A v, w \in Workers : v = w
    PROVE  PoolSpec => []NoUnderrun
<1>1. PoolInit => SingleInv
  BY DEF PoolInit, SingleInv
<1>2. PoolTypeOK /\ SingleInv /\ [PoolNext]_poolVars => SingleInv'
  <2> SUFFICES ASSUME PoolTypeOK, SingleInv, [PoolNext]_poolVars PROVE SingleInv'
    OBVIOUS
  <2> USE PoolAssumption DEF PoolAssumption, PoolTypeOK, SingleInv, WorkerPc
  <2>1. ASSUME NEW i \in Isolates, StartWorkers(i) PROVE SingleInv'
    BY <2>1 DEF StartWorkers
  <2>2. ASSUME NEW i \in Isolates, Push(i) PROVE SingleInv'
    BY <2>2 DEF Push
  <2>3. ASSUME NEW i \in Isolates, NotifyOne(i) PROVE SingleInv'
    BY <2>3 DEF NotifyOne, Sleeping
  <2>4. ASSUME NEW i \in Isolates, Retire(i) PROVE SingleInv'
    BY <2>4 DEF Retire
  <2>5. ASSUME NEW w \in Workers, TestPredicate(w) PROVE SingleInv'
    BY <2>5 DEF TestPredicate, Empty
  <2>6. ASSUME NEW w \in Workers, Block(w) PROVE SingleInv'
    BY <2>6 DEF Block
  <2>7. ASSUME NEW w \in Workers, SpuriousWake(w) PROVE SingleInv'
    BY <2>7 DEF SpuriousWake
  <2>8. ASSUME NEW w \in Workers, Take(w) PROVE SingleInv'
    <3>1. \A v \in Workers : wpc'[v] # "take"
      BY <2>8 DEF Take
    <3>2. QED
      BY <2>8, <3>1 DEF Take
  <2>9. ASSUME NEW w \in Workers, Return(w) PROVE SingleInv'
    BY <2>9 DEF Return
  <2>10. CASE UNCHANGED poolVars
    BY <2>10 DEF poolVars
  <2>11. QED
    BY <2>1, <2>2, <2>3, <2>4, <2>5, <2>6, <2>7, <2>8, <2>9, <2>10 DEF PoolNext
<1>3. SingleInv => NoUnderrun
  BY DEF SingleInv, NoUnderrun
<1>4. QED
  BY <1>1, <1>2, <1>3, PoolTypeCorrect, PTL DEF PoolSpec
-----------------------------------------------------------------------------
(* What holds of any number of workers: until a pop underruns, the pops    *)
(* are behind the pushes; two workers never have the same task in hand, and*)
(* a stray one was taken by an underrun.                                   *)
HandInv == /\ underruns = 0 => popped <= pushed
           /\ \A w \in Workers : wpc[w] # "call" => hand[w] = NoTask
           /\ \A w \in Workers : IF hand[w] <= MaxTasks
                                  THEN hand[w] <= popped /\ hand[w] <= pushed
                                  ELSE hand[w] <= MaxTasks + underruns
           /\ \A v, w \in Workers : v # w /\ hand[v] = hand[w] => hand[v] = NoTask

LEMMA HandInvariant == PoolSpec => []HandInv
<1>1. PoolInit => HandInv
  BY PoolAssumption DEF PoolAssumption, PoolInit, HandInv, NoTask
<1>2. PoolTypeOK /\ HandInv /\ [PoolNext]_poolVars => HandInv'
  <2> SUFFICES ASSUME PoolTypeOK, HandInv, [PoolNext]_poolVars PROVE HandInv'
    OBVIOUS
  <2> USE PoolAssumption DEF PoolAssumption, PoolTypeOK, HandInv, WorkerPc, NoTask, Task, Stray
  <2>1. ASSUME NEW i \in Isolates, StartWorkers(i) PROVE HandInv'
    BY <2>1 DEF StartWorkers
  <2>2. ASSUME NEW i \in Isolates, Push(i) PROVE HandInv'
    BY <2>2 DEF Push
  <2>3. ASSUME NEW i \in Isolates, NotifyOne(i) PROVE HandInv'
    BY <2>3 DEF NotifyOne, Sleeping
  <2>4. ASSUME NEW i \in Isolates, Retire(i) PROVE HandInv'
    BY <2>4 DEF Retire
  <2>5. ASSUME NEW w \in Workers, TestPredicate(w) PROVE HandInv'
    BY <2>5 DEF TestPredicate
  <2>6. ASSUME NEW w \in Workers, Block(w) PROVE HandInv'
    BY <2>6 DEF Block
  <2>7. ASSUME NEW w \in Workers, SpuriousWake(w) PROVE HandInv'
    BY <2>7 DEF SpuriousWake
  <2>8. ASSUME NEW w \in Workers, Take(w) PROVE HandInv'
    BY <2>8 DEF Take
  <2>9. ASSUME NEW w \in Workers, Return(w) PROVE HandInv'
    BY <2>9 DEF Return
  <2>10. CASE UNCHANGED poolVars
    BY <2>10 DEF poolVars
  <2>11. QED
    BY <2>1, <2>2, <2>3, <2>4, <2>5, <2>6, <2>7, <2>8, <2>9, <2>10 DEF PoolNext
<1>3. QED
  BY <1>1, <1>2, PoolTypeCorrect, PTL DEF PoolSpec
-----------------------------------------------------------------------------
(* An isolate that has initialised the channel has started a worker.       *)
StartedInv == \A i \in Isolates : ipc[i] # "new" => \E w \in Workers : wpc[w] # "unborn"

LEMMA StartedInvariant == PoolSpec => []StartedInv
<1>1. PoolInit => StartedInv
  BY DEF PoolInit, StartedInv
<1>2. PoolTypeOK /\ StartedInv /\ [PoolNext]_poolVars => StartedInv'
  <2> SUFFICES ASSUME PoolTypeOK, StartedInv, [PoolNext]_poolVars PROVE StartedInv'
    OBVIOUS
  <2> USE DEF PoolTypeOK, StartedInv, WorkerPc, IsolatePc
  <2>1. ASSUME NEW i \in Isolates, StartWorkers(i) PROVE StartedInv'
    <3>1. PICK batch \in SUBSET {w \in Workers : wpc[w] = "unborn"} :
             /\ Cardinality(batch) = Concurrency
             /\ wpc' = [w \in Workers |-> IF w \in batch THEN "ready" ELSE wpc[w]]
      BY <2>1 DEF StartWorkers
    <3>2. batch # {}
      BY <3>1, FS_EmptySet, PoolAssumption DEF PoolAssumption
    <3>3. PICK w \in batch : TRUE
      BY <3>2
    <3>4. w \in Workers /\ wpc'[w] = "ready"
      BY <3>1, <3>3
    <3>5. QED
      BY <3>4
  <2>2. ASSUME NEW i \in Isolates, Push(i) PROVE StartedInv'
    BY <2>2 DEF Push
  <2>3. ASSUME NEW i \in Isolates, NotifyOne(i) PROVE StartedInv'
    BY <2>3 DEF NotifyOne, Sleeping
  <2>4. ASSUME NEW i \in Isolates, Retire(i) PROVE StartedInv'
    BY <2>4 DEF Retire
  <2>5. ASSUME NEW w \in Workers, TestPredicate(w) PROVE StartedInv'
    BY <2>5 DEF TestPredicate
  <2>6. ASSUME NEW w \in Workers, Block(w) PROVE StartedInv'
    BY <2>6 DEF Block
  <2>7. ASSUME NEW w \in Workers, SpuriousWake(w) PROVE StartedInv'
    BY <2>7 DEF SpuriousWake
  <2>8. ASSUME NEW w \in Workers, Take(w) PROVE StartedInv'
    BY <2>8 DEF Take
  <2>9. ASSUME NEW w \in Workers, Return(w) PROVE StartedInv'
    BY <2>9 DEF Return
  <2>10. CASE UNCHANGED poolVars
    BY <2>10 DEF poolVars
  <2>11. QED
    BY <2>1, <2>2, <2>3, <2>4, <2>5, <2>6, <2>7, <2>8, <2>9, <2>10 DEF PoolNext
<1>3. QED
  BY <1>1, <1>2, PoolTypeCorrect, PTL DEF PoolSpec
-----------------------------------------------------------------------------
(* A message is stranded, in the queue with every worker asleep and no     *)
(* notify under way, only by a worker that falls asleep on a stale test.   *)
THEOREM OnlyStaleTestsStrand == PoolSpec => StrandedOnlyByStaleTest
<1> DEFINE Step == Stranded' /\ ~Stranded => \E w \in Workers : Block(w) /\ ~Empty
<1>1. PoolTypeOK /\ StartedInv /\ [PoolNext]_poolVars => [Step]_poolVars
  <2> SUFFICES ASSUME PoolTypeOK, StartedInv, PoolNext, Stranded', ~Stranded
               PROVE  \E w \in Workers : Block(w) /\ ~Empty
    OBVIOUS
  <2> USE DEF PoolTypeOK, WorkerPc, IsolatePc, Stranded, Empty
  <2>1. ASSUME NEW i \in Isolates, StartWorkers(i) PROVE FALSE
    <3>1. PICK batch \in SUBSET {w \in Workers : wpc[w] = "unborn"} :
             /\ Cardinality(batch) = Concurrency
             /\ wpc' = [w \in Workers |-> IF w \in batch THEN "ready" ELSE wpc[w]]
      BY <2>1 DEF StartWorkers
    <3>2. PICK w \in batch : TRUE
      BY <3>1, FS_EmptySet, PoolAssumption DEF PoolAssumption
    <3>3. QED
      BY <3>1, <3>2
  <2>2. ASSUME NEW i \in Isolates, Push(i) PROVE FALSE
    BY <2>2 DEF Push
  <2>3. ASSUME NEW i \in Isolates, NotifyOne(i) PROVE FALSE
    <3>1. \E w \in Workers : wpc[w] # "unborn"
      BY <2>3 DEF NotifyOne, StartedInv
    <3>2. CASE Sleeping = {} /\ UNCHANGED wpc
      BY <3>1, <3>2 DEF Sleeping
    <3>3. CASE \E w \in Sleeping : wpc' = [wpc EXCEPT ![w] = "ready"]
      BY <3>3 DEF Sleeping
    <3>4. QED
      BY <2>3, <3>2, <3>3 DEF NotifyOne
  <2>4. ASSUME NEW i \in Isolates, Retire(i) PROVE FALSE
    BY <2>4 DEF Retire
  <2>5. ASSUME NEW w \in Workers, TestPredicate(w) PROVE FALSE
    BY <2>5 DEF TestPredicate
  <2>6. ASSUME NEW w \in Workers, Block(w) PROVE Block(w) /\ ~Empty
    BY <2>6 DEF Block
  <2>7. ASSUME NEW w \in Workers, SpuriousWake(w) PROVE FALSE
    BY <2>7 DEF SpuriousWake
  <2>8. ASSUME NEW w \in Workers, Take(w) PROVE FALSE
    BY <2>8 DEF Take
  <2>9. ASSUME NEW w \in Workers, Return(w) PROVE FALSE
    BY <2>9 DEF Return
  <2>10. QED
    BY <2>1, <2>2, <2>3, <2>4, <2>5, <2>6, <2>7, <2>8, <2>9 DEF PoolNext
<1>2. QED
  BY <1>1, PoolTypeCorrect, StartedInvariant, PTL DEF PoolSpec, StrandedOnlyByStaleTest
-----------------------------------------------------------------------------
(* The refinement of the task pool.                                        *)

LEMMA InitRefines == PoolInit => Pool!Init
<1> SUFFICES ASSUME PoolInit PROVE Pool!Init
  OBVIOUS
<1>1. \A t \in Task : StatusOf(t) = "new"
  BY PoolAssumption DEF PoolAssumption, PoolInit, Task, StatusOf
<1>2. QED
  BY <1>1 DEF PoolInit, Pool!Init, Pool!Task, Pool!NoTask, Task, NoTask

(* Every step of the pool that ends without an underrun is a step of the   *)
(* task pool or leaves what it sees unchanged.                             *)
LEMMA StepRefines ==
    ASSUME PoolTypeOK, HandInv, [PoolNext]_poolVars, underruns' = 0
    PROVE  [Pool!Next]_(Pool!vars)
<1> DEFINE S == [t \in Task |-> StatusOf(t)]
<1> USE PoolAssumption DEF PoolAssumption, PoolTypeOK, HandInv, WorkerPc, NoTask, Task, Stray
<1>a. underruns = 0 /\ popped <= pushed
  <2>1. ASSUME NEW w \in Workers, Take(w) PROVE underruns = 0
    BY <2>1 DEF Take
  <2>2. underruns = 0
    BY <2>1 DEF PoolNext, StartWorkers, Push, NotifyOne, Retire, TestPredicate, Block,
                SpuriousWake, Return, poolVars
  <2>3. QED
    BY <2>2
<1>b. ASSUME UNCHANGED <<pushed, popped, hand>> PROVE UNCHANGED Pool!vars
  BY <1>b DEF Pool!vars, StatusOf
<1>1. ASSUME NEW i \in Isolates, Push(i) PROVE Pool!Next
  <2>1. pushed + 1 \in Task /\ pushed' = pushed + 1 /\ popped' = popped /\ hand' = hand
    BY <1>1 DEF Push
  <2>2. StatusOf(pushed + 1) = "new" /\ \A u \in 1..pushed : StatusOf(u) # "new"
    BY DEF StatusOf
  <2>3. \A u \in Task : StatusOf(u)' = IF u = pushed + 1 THEN "queued" ELSE StatusOf(u)
    BY <1>a, <2>1 DEF StatusOf
  <2>4. S' = [S EXCEPT ![pushed + 1] = "queued"]
    BY <2>3
  <2>5. \A u \in 1..((pushed + 1) - 1) : u \in 1..pushed /\ u \in Task
    BY <2>1
  <2>6. S[pushed + 1] = "new" /\ \A u \in 1..((pushed + 1) - 1) : S[u] # "new"
    BY <2>1, <2>2, <2>5
  <2>7. Pool!Submit(pushed + 1)
    BY ONLY <2>1, <2>4, <2>6 DEF Pool!Submit
  <2>8. QED
    BY <2>1, <2>7 DEF Pool!Next, Pool!Task
<1>2. ASSUME NEW w \in Workers, Take(w) PROVE Pool!Next
  <2>1. popped < pushed
    BY <1>a, <1>2 DEF Take
  <2>2. pushed' = pushed /\ popped' = popped + 1 /\ hand' = [hand EXCEPT ![w] = popped + 1]
    BY <1>2, <2>1 DEF Take
  <2>3. popped + 1 \in Task /\ hand[w] = NoTask
    BY <1>2, <2>1 DEF Take
  <2>4. StatusOf(popped + 1) = "queued"
    BY <2>1 DEF StatusOf
  <2>5. \A u \in 1..popped : StatusOf(u) \in {"running", "done"}
    BY <2>1 DEF StatusOf
  <2>6. ASSUME NEW u \in Task, u = popped + 1 PROVE StatusOf(u)' = "running"
    <3>1. hand'[w] = u
      BY <2>2, <2>6
    <3>2. QED
      BY <2>1, <2>2, <2>6, <3>1 DEF StatusOf
  <2>7. ASSUME NEW u \in Task, u # popped + 1 PROVE StatusOf(u)' = StatusOf(u)
    <3>1. (\E v \in Workers : hand'[v] = u) <=> (\E v \in Workers : hand[v] = u)
      BY <2>2, <2>3, <2>7
    <3>2. u > popped' <=> u > popped
      BY <2>2, <2>7
    <3>3. QED
      BY <2>2, <3>1, <3>2 DEF StatusOf
  <2>8. S' = [S EXCEPT ![popped + 1] = "running"]
    BY <2>6, <2>7
  <2>9. \A u \in 1..((popped + 1) - 1) : u \in 1..popped /\ u \in Task
    BY <2>3
  <2>10. S[popped + 1] = "queued"
         /\ \A u \in 1..((popped + 1) - 1) : S[u] \in {"running", "done"}
    BY <2>3, <2>4, <2>5, <2>9
  <2>11. hand[w] = Pool!NoTask
    BY <2>3 DEF Pool!NoTask
  <2>12. Pool!Start(w, popped + 1)
    BY ONLY <2>2, <2>8, <2>10, <2>11 DEF Pool!Start
  <2>13. QED
    BY <2>3, <2>12 DEF Pool!Next, Pool!Task
<1>3. ASSUME NEW w \in Workers, Return(w) PROVE Pool!Next \/ UNCHANGED Pool!vars
  <2>1. pushed' = pushed /\ popped' = popped /\ hand' = [hand EXCEPT ![w] = NoTask]
    BY <1>3 DEF Return
  <2>2. CASE hand[w] = NoTask
    <3>1. hand' = hand
      BY <2>1, <2>2
    <3>2. QED
      BY <1>b, <2>1, <3>1
  <2>3. CASE hand[w] # NoTask
    <3>1. ASSUME NEW u \in Task, u = hand[w] PROVE StatusOf(u)' = "done"
      <4>1. \A v \in Workers : hand'[v] # u
        BY <2>1, <2>3, <3>1
      <4>2. u <= pushed /\ u <= popped
        BY <3>1
      <4>3. QED
        BY <2>1, <4>1, <4>2 DEF StatusOf
    <3>2. ASSUME NEW u \in Task, u # hand[w] PROVE StatusOf(u)' = StatusOf(u)
      <4>1. (\E v \in Workers : hand'[v] = u) <=> (\E v \in Workers : hand[v] = u)
        BY <2>1, <3>2
      <4>2. QED
        BY <2>1, <4>1 DEF StatusOf
    <3>3. S' = [S EXCEPT ![hand[w]] = "done"]
      BY <3>1, <3>2
    <3>4. Pool!Finish(w)
      BY <2>1, <2>3, <3>3 DEF Pool!Finish, Pool!NoTask
    <3>5. QED
      BY <3>4 DEF Pool!Next
  <2>4. QED
    BY <2>2, <2>3
<1>4. CASE \/ \E i \in Isolates : StartWorkers(i) \/ NotifyOne(i) \/ Retire(i)
           \/ \E w \in Workers : TestPredicate(w) \/ Block(w) \/ SpuriousWake(w)
           \/ UNCHANGED poolVars
  BY <1>b, <1>4 DEF StartWorkers, NotifyOne, Retire, TestPredicate, Block, SpuriousWake,
                    poolVars
<1>5. QED
  BY <1>1, <1>2, <1>3, <1>4 DEF PoolNext

(* With any number of workers the pool is the task pool until it underruns.*)
THEOREM RefinesUntilUnderrun == PoolSpec => ImplementsUntilUnderrun
<1>1. PoolTypeOK /\ HandInv /\ [PoolNext]_poolVars
        => [underruns' = 0 => [Pool!Next]_(Pool!vars)]_poolVars
  BY StepRefines
<1>2. QED
  BY <1>1, PoolTypeCorrect, HandInvariant, PTL DEF PoolSpec, ImplementsUntilUnderrun

(* A pool of one worker implements the task pool.                          *)
THEOREM SingleWorkerRefines ==
    ASSUME \A v, w \in Workers : v = w
    PROVE  PoolSpec => ImplementsTaskPool
<1>1. PoolInit => Pool!Init
  BY InitRefines, PoolAssumption
<1>2. PoolTypeOK /\ HandInv /\ NoUnderrun' /\ [PoolNext]_poolVars => [Pool!Next]_(Pool!vars)
  BY StepRefines DEF NoUnderrun
<1>3. PoolSpec => []NoUnderrun
  BY SingleWorkerNeverUnderruns
<1>4. QED
  BY <1>1, <1>2, <1>3, PoolTypeCorrect, HandInvariant, PTL
     DEF PoolSpec, ImplementsTaskPool, Pool!Spec
=============================================================================
