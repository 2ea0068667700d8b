------------------------ MODULE MCConcurrentMessenger -----------------------
(* Instances of ConcurrentMessenger small enough for TLC.                  *)
EXTENDS ConcurrentMessenger, TLC

(* The worker threads of one InitializeChannel run the same code.          *)
WorkerSymmetry == Permutations(Workers)

(* Behaviours are followed up to and including the first underrun.         *)
BeforeUnderrun == NoUnderrun

(* Behaviours are followed past the first underrun as long as it is the    *)
(* only one and no more than one message has been sent.                    *)
LittlePastUnderrun == NoUnderrun \/ (underruns = 1 /\ pushed <= 1)
=============================================================================
