----------------------------- MODULE MCWorkerPool ---------------------------
(* Instances of WorkerPool small enough for TLC.  The threads are given by *)
(* the configurations; runs with temporal properties use no symmetry.      *)
EXTENDS WorkerPool, TLC
=============================================================================
