----------------------------- MODULE WorkerPool -----------------------------
(***************************************************************************)
(* The native worker pool of android/src/main/jni/concurrent_channel.cc:   *)
(* message_queue_ and its mutex, the condition variable cv_ and its mutex, *)
(* and the threads that loop in SendConcurrentMessageToPlatformWorker.     *)
(*                                                                         *)
(* A task is named by the order of its push, so the std::queue is the pair *)
(* of counters below: the element at position p is task p + 1 if it has    *)
(* been pushed.  The container's size is pushed - popped, computed modulo  *)
(* 2^64 by the libc++ deque, so empty() is exactly pushed = popped even    *)
(* after a pop of an empty queue has wrapped the size around.              *)
(*                                                                         *)
(* The critical section of cv_mtx_ evaluates the wait predicate; it does   *)
(* not hold message_queue_mtx_, and it ends before the pop begins.  The    *)
(* sections of message_queue_mtx_ never block and are one step each.       *)
(***************************************************************************)
EXTENDS Naturals, FiniteSets

CONSTANTS Workers,      \* the threads that may ever be started (bounds threads_)
          Isolates,     \* the Dart isolates, each with the thread it runs on
          Concurrency,  \* max(hardware_concurrency() / 2, 1)
          MaxTasks,     \* bound on the pushes
          MaxPops       \* bound on the pops

ASSUME PoolAssumption == /\ Concurrency \in Nat \ {0}
                         /\ MaxTasks \in Nat
                         /\ MaxPops \in Nat

VARIABLES pushed,    \* number of elements ever pushed on message_queue_
          popped,    \* number of elements ever popped from it
          wpc,       \* wpc[w]: where worker w is
          hand,      \* hand[w]: the task in w's local msg during the call
          ipc,       \* ipc[i]: where the thread of isolate i is
          underruns  \* history: how many pops found the queue empty

poolVars == <<pushed, popped, wpc, hand, ipc, underruns>>

Task   == 1..MaxTasks
NoTask == 0

(***************************************************************************)
(* The k-th pop of an empty queue reads stray task MaxTasks + k: a slot of *)
(* the deque to which nothing has been pushed since its block was last     *)
(* used.  What it holds is an old message, long taken, or was never        *)
(* written; which of them is left open where the task is used.             *)
(***************************************************************************)
Stray  == (MaxTasks + 1)..(MaxTasks + MaxPops)

WorkerPc  == {"unborn", "ready", "block", "sleep", "take", "call"}
IsolatePc == {"new", "idle", "notify", "dead"}

PoolInit == /\ pushed = 0 /\ popped = 0
            /\ wpc = [w \in Workers |-> "unborn"]
            /\ hand = [w \in Workers |-> NoTask]
            /\ ipc = [i \in Isolates |-> "new"]
            /\ underruns = 0

Empty == pushed = popped

(***************************************************************************)
(* InitializeChannel, called once by every isolate that uses the messenger,*)
(* starts Concurrency more threads; none is ever stopped.                  *)
(***************************************************************************)
StartWorkers(i) ==
    /\ ipc[i] = "new"
    /\ \E batch \in SUBSET {w \in Workers : wpc[w] = "unborn"} :
          /\ Cardinality(batch) = Concurrency
          /\ wpc' = [w \in Workers |-> IF w \in batch THEN "ready" ELSE wpc[w]]
    /\ ipc' = [ipc EXCEPT ![i] = "idle"]
    /\ UNCHANGED <<pushed, popped, hand, underruns>>

(***************************************************************************)
(* SendConcurrentMessageToPlatform: the push under message_queue_mtx_, then*)
(* notify_one with neither mutex held.                                     *)
(***************************************************************************)
Push(i) == /\ ipc[i] = "idle"
           /\ pushed < MaxTasks
           /\ pushed' = pushed + 1
           /\ ipc' = [ipc EXCEPT ![i] = "notify"]
           /\ UNCHANGED <<popped, wpc, hand, underruns>>

Sleeping == {w \in Workers : wpc[w] = "sleep"}

(* Faulty: the notification is left out.                                   *)
NotifyNobody(i) == /\ ipc[i] = "notify"
                   /\ ipc' = [ipc EXCEPT ![i] = "idle"]
                   /\ UNCHANGED <<pushed, popped, wpc, hand, underruns>>

(* Faulty: cv_.wait without its predicate, which does not test again.      *)
NotifyUntested(i) == /\ ipc[i] = "notify"
                     /\ \/ Sleeping = {} /\ UNCHANGED wpc
                        \/ \E w \in Sleeping : wpc' = [wpc EXCEPT ![w] = "take"]
                     /\ ipc' = [ipc EXCEPT ![i] = "idle"]
                     /\ UNCHANGED <<pushed, popped, hand, underruns>>

NotifyOne(i) == /\ ipc[i] = "notify"
                /\ \/ Sleeping = {} /\ UNCHANGED wpc
                   \/ \E w \in Sleeping : wpc' = [wpc EXCEPT ![w] = "ready"]
                /\ ipc' = [ipc EXCEPT ![i] = "idle"]
                /\ UNCHANGED <<pushed, popped, hand, underruns>>

(***************************************************************************)
(* cv_.wait(lock, predicate): lock cv_mtx_ and evaluate the predicate.  It *)
(* is false: the thread goes to sleep, in a later step, with cv_mtx_ still *)
(* held until then.  It is true: the mutex is released and the pop, in a   *)
(* later step, does not look again.                                        *)
(***************************************************************************)
CvMutexFree == \A v \in Workers : wpc[v] # "block"

TestPredicate(w) == /\ wpc[w] = "ready"
                    /\ CvMutexFree
                    /\ wpc' = [wpc EXCEPT ![w] = IF Empty THEN "block" ELSE "take"]
                    /\ UNCHANGED <<pushed, popped, hand, ipc, underruns>>

Block(w) == /\ wpc[w] = "block"
            /\ wpc' = [wpc EXCEPT ![w] = "sleep"]
            /\ UNCHANGED <<pushed, popped, hand, ipc, underruns>>

(* A wake-up that no notify caused, which std::condition_variable permits. *)
SpuriousWake(w) == /\ wpc[w] = "sleep"
                   /\ wpc' = [wpc EXCEPT ![w] = "ready"]
                   /\ UNCHANGED <<pushed, popped, hand, ipc, underruns>>

(* Faulty: front() off by one.                                             *)
TakeNext(w) == /\ wpc[w] = "take"
               /\ popped < MaxPops
               /\ hand' = [hand EXCEPT ![w] = IF popped < pushed THEN popped + 2
                                              ELSE MaxTasks + underruns + 1]
               /\ popped' = popped + 1
               /\ underruns' = IF popped < pushed THEN underruns ELSE underruns + 1
               /\ wpc' = [wpc EXCEPT ![w] = "call"]
               /\ UNCHANGED <<pushed, ipc>>

(* Faulty: front() without pop().                                          *)
TakeAndLeave(w) == /\ wpc[w] = "take"
                   /\ hand' = [hand EXCEPT ![w] = IF popped < pushed THEN popped + 1
                                                  ELSE MaxTasks + underruns + 1]
                   /\ wpc' = [wpc EXCEPT ![w] = "call"]
                   /\ UNCHANGED <<pushed, popped, ipc, underruns>>

(* Faulty: back() instead of front().                                      *)
TakeBack(w) == /\ wpc[w] = "take"
               /\ popped < MaxPops
               /\ hand' = [hand EXCEPT ![w] = IF popped < pushed THEN pushed
                                              ELSE MaxTasks + underruns + 1]
               /\ popped' = popped + 1
               /\ underruns' = IF popped < pushed THEN underruns ELSE underruns + 1
               /\ wpc' = [wpc EXCEPT ![w] = "call"]
               /\ UNCHANGED <<pushed, ipc>>

(* front() and pop() under message_queue_mtx_.                             *)
Take(w) == /\ wpc[w] = "take"
           /\ popped < MaxPops
           /\ hand' = [hand EXCEPT ![w] = IF popped < pushed THEN popped + 1
                                              ELSE MaxTasks + underruns + 1]
           /\ popped' = popped + 1
           /\ underruns' = IF popped < pushed THEN underruns ELSE underruns + 1
           /\ wpc' = [wpc EXCEPT ![w] = "call"]
           /\ UNCHANGED <<pushed, ipc>>

(* Faulty: the loop waits for a notification before it looks at the queue. *)
ReturnToSleep(w) == /\ wpc[w] = "call"
                    /\ wpc' = [wpc EXCEPT ![w] = "sleep"]
                    /\ hand' = [hand EXCEPT ![w] = NoTask]
                    /\ UNCHANGED <<pushed, popped, ipc, underruns>>

(* CallStaticVoidMethod has returned; the loop starts again.               *)
Return(w) == /\ wpc[w] = "call"
             /\ wpc' = [wpc EXCEPT ![w] = "ready"]
             /\ hand' = [hand EXCEPT ![w] = NoTask]
             /\ UNCHANGED <<pushed, popped, ipc, underruns>>

(* The isolate ends; the threads it started and what it pushed remain.     *)
Retire(i) == /\ ipc[i] = "idle"
             /\ ipc' = [ipc EXCEPT ![i] = "dead"]
             /\ UNCHANGED <<pushed, popped, wpc, hand, underruns>>

PoolNext ==
    \/ \E i \in Isolates : StartWorkers(i) \/ Push(i) \/ NotifyOne(i) \/ Retire(i)
    \/ \E w \in Workers : \/ TestPredicate(w) \/ Block(w) \/ SpuriousWake(w)
                         \/ Take(w) \/ Return(w)

PoolSpec == PoolInit /\ [][PoolNext]_poolVars

(***************************************************************************)
(* A thread that can run does run, and the platform handler it calls       *)
(* returns.  Nothing obliges an isolate to start or to send, and no        *)
(* spurious wake-up can be counted on.                                     *)
(***************************************************************************)
PoolFairness ==
    /\ \A i \in Isolates : WF_poolVars(NotifyOne(i))
    /\ \A w \in Workers : /\ WF_poolVars(TestPredicate(w)) /\ WF_poolVars(Block(w))
                          /\ WF_poolVars(Take(w))          /\ WF_poolVars(Return(w))

FairPoolSpec == PoolSpec /\ PoolFairness
-----------------------------------------------------------------------------
(* Every counter, program counter and local variable has its type, and no  *)
(* worker has a task in hand that was not pushed yet.                      *)
PoolTypeOK == /\ pushed \in 0..MaxTasks
              /\ popped \in 0..MaxPops
              /\ wpc \in [Workers -> WorkerPc]
              /\ hand \in [Workers -> {NoTask} \union Task \union Stray]
              /\ \A w \in Workers : hand[w] \in Task => hand[w] <= pushed
              /\ ipc \in [Isolates -> IsolatePc]
              /\ underruns \in 0..popped

(* No worker pops message_queue_ when it is empty, although the pop does   *)
(* not repeat the test of the wait predicate (lines 60-68).                *)
NoUnderrun == underruns = 0

(***************************************************************************)
(* The task pool the README promises: a task is running while some worker  *)
(* has it in hand, queued while it has been pushed and not popped.         *)
(***************************************************************************)
StatusOf(t) == IF t > pushed THEN "new"
               ELSE IF t > popped THEN "queued"
               ELSE IF \E w \in Workers : hand[w] = t THEN "running"
               ELSE "done"

Pool == INSTANCE TaskPool WITH status  <- [t \in Task |-> StatusOf(t)],
                               running <- hand

(* With one worker, whatever the number of tasks, the mutexes, the         *)
(* condition variable and the queue together run every task once, in order.*)
ImplementsTaskPool == Pool!Spec

(* With any number of workers every step up to the first pop of an empty   *)
(* queue is a step of the task pool, or changes nothing it can see.        *)
ImplementsUntilUnderrun == [][underruns' = 0 => [Pool!Next]_(Pool!vars)]_poolVars

Stranded == /\ ~Empty
            /\ \A w \in Workers : wpc[w] \in {"unborn", "sleep"}
            /\ \A i \in Isolates : ipc[i] # "notify"

(* A message is left in the queue with every worker asleep and no notify   *)
(* under way only when a worker goes to sleep on a test that a push has    *)
(* made stale: no notify_one that meets a sleeping worker loses a message. *)
StrandedOnlyByStaleTest ==
    [][Stranded' /\ ~Stranded => \E w \in Workers : Block(w) /\ ~Empty]_poolVars

Awake == \E w \in Workers : wpc[w] \in {"ready", "take", "call"}

(* As long as one worker is past its sleep the backlog is worked off to    *)
(* the end, however many notifications were lost before.                   *)
AwakeDrains == (~Empty /\ Awake) ~> (Empty \/ ~NoUnderrun)

(* Every message sent to the platform is eventually taken by a worker.     *)
EveryTaskTaken == \A t \in Task : (pushed >= t) ~> (popped >= t)
=============================================================================
