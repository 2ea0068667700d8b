---------------------------- MODULE RequestReply ----------------------------
(***************************************************************************)
(* The concurrent channel as its Dart caller sees it: send() returns a     *)
(* future, the platform answers the message once, and only then, and at    *)
(* most once, is the future completed.  If the isolate ends, its futures   *)
(* are abandoned; the platform may still answer.  Nothing is said of the   *)
(* order of answers, of threads, queues, ports or sequence numbers:        *)
(* ConcurrentMessenger is the detailed specification.                      *)
(***************************************************************************)
CONSTANT Requests

VARIABLES future,    \* future[r]: what the caller holds of request r
          answered   \* the requests that the platform has answered

vars == <<future, answered>>

Future == {"none", "pending", "completed", "abandoned"}

Init == /\ future = [r \in Requests |-> "none"]
        /\ answered = {}

Ask(r) == /\ future[r] = "none"
          /\ future' = [future EXCEPT ![r] = "pending"]
          /\ UNCHANGED answered

Answer(r) == /\ future[r] # "none"
             /\ r \notin answered
             /\ answered' = answered \union {r}
             /\ UNCHANGED future

Complete(r) == /\ future[r] = "pending"
               /\ r \in answered
               /\ future' = [future EXCEPT ![r] = "completed"]
               /\ UNCHANGED answered

(* The isolate that asked the requests in R ends.                          *)
Abandon(R) == /\ \A r \in R : future[r] = "pending"
              /\ future' = [r \in Requests |-> IF r \in R THEN "abandoned" ELSE future[r]]
              /\ UNCHANGED answered

Next == \/ \E r \in Requests : Ask(r) \/ Answer(r) \/ Complete(r)
        \/ \E R \in SUBSET Requests : Abandon(R)

Spec == Init /\ [][Next]_vars
=============================================================================
