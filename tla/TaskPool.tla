------------------------------ MODULE TaskPool ------------------------------
(***************************************************************************)
(* What the README promises of a concurrent channel, "Run tasks            *)
(* concurrently in different thread": every submitted task is run by       *)
(* exactly one worker, tasks are started in the order they were submitted, *)
(* and a worker runs one task at a time.  Tasks are named by the order of  *)
(* their submission.  No mutex, condition variable or container appears    *)
(* here: WorkerPool is the detailed specification.                         *)
(***************************************************************************)
EXTENDS Naturals

CONSTANTS Workers,   \* the worker threads
          MaxTasks   \* bound on the number of tasks submitted

VARIABLES status,    \* status[t]: how far task t has come
          running    \* running[w]: the task worker w is running, or NoTask

vars == <<status, running>>

NoTask == 0
Task   == 1..MaxTasks

Init == /\ status  = [t \in Task |-> "new"]
        /\ running = [w \in Workers |-> NoTask]

Submit(t) == /\ status[t] = "new"
             /\ \A u \in 1..(t - 1) : status[u] # "new"
             /\ status' = [status EXCEPT ![t] = "queued"]
             /\ UNCHANGED running

Start(w, t) == /\ running[w] = NoTask
               /\ status[t] = "queued"
               /\ \A u \in 1..(t - 1) : status[u] \in {"running", "done"}
               /\ status'  = [status EXCEPT ![t] = "running"]
               /\ running' = [running EXCEPT ![w] = t]

Finish(w) == /\ running[w] # NoTask
             /\ status'  = [status EXCEPT ![running[w]] = "done"]
             /\ running' = [running EXCEPT ![w] = NoTask]

Next == \/ \E t \in Task : Submit(t)
        \/ \E w \in Workers, t \in Task : Start(w, t)
        \/ \E w \in Workers : Finish(w)

Spec == Init /\ [][Next]_vars
=============================================================================
