---------------------- MODULE ConcurrentMessengerProofs ---------------------
(* Theorems about ConcurrentMessenger, for every number of workers,        *)
(* isolates, channels and messages.                                        *)
EXTENDS ConcurrentMessenger, WorkerPoolProofs

(* A step of the messenger is a step of the pool, or leaves it alone.      *)
LEMMA MessengerStep == [Next]_vars => [PoolNext]_poolVars
<1> SUFFICES ASSUME Next PROVE PoolNext \/ UNCHANGED poolVars
  BY DEF vars
<1>1. ASSUME NEW i \in Isolates,
             \/ InitializeChannel(i) \/ Notify(i)
             \/ OnReply(i) \/ OnReplyThrows(i) \/ Shutdown(i) \/ SendFails(i)
      PROVE  PoolNext \/ UNCHANGED poolVars
  BY <1>1 DEF PoolNext, InitializeChannel, Notify, OnReply, OnReplyThrows, Complete, Shutdown,
              SendFails
<1>2. ASSUME NEW i \in Isolates, NEW c \in Channels, Send(i, c) PROVE PoolNext
  BY <1>2 DEF PoolNext, Send
<1>3. ASSUME NEW w \in Workers, Wait(w) \/ Wake(w) \/ Pop(w) PROVE PoolNext
  BY <1>3 DEF PoolNext, Wait, Wake, Pop
<1>4. ASSUME NEW w \in Workers, InCall(w) PROVE PoolNext \/ UNCHANGED poolVars
  BY <1>4 DEF PoolNext, InCall, CallHandler, NoHandler, DecodeFails, Handler,
              HandlerAnswers, HandlerDefers, HandlerReturns, HandlerThrows,
              MethodChannelCatches, MessengerCatches, Leave
<1>5. ASSUME NEW t \in Task \union Stray, Answer(t) PROVE UNCHANGED poolVars
  BY <1>5 DEF Answer, LateReply
<1>6. ASSUME NEW c \in Channels, NEW present \in BOOLEAN, SetMessageHandler(c, present)
      PROVE  UNCHANGED poolVars
  BY <1>6 DEF SetMessageHandler
<1>7. QED
  BY <1>1, <1>2, <1>3, <1>4, <1>5, <1>6 DEF Next

(* So what holds of the pool holds of the messenger.                       *)
LEMMA MessengerImplementsPool == Spec => PoolSpec
<1>1. Init => PoolInit
  BY DEF Init
<1>2. QED
  BY <1>1, MessengerStep, PTL DEF Spec, PoolSpec

(* Underruns are not undone, and before the first one a worker has no stray*)
(* task.                                                                   *)
LEMMA UnderrunStays == ASSUME PoolTypeOK, [Next]_vars, NoUnderrun' PROVE NoUnderrun
<1>1. [PoolNext]_poolVars
  BY MessengerStep
<1>2. ASSUME NEW w \in Workers, Take(w) PROVE underruns = 0
  BY <1>2 DEF Take, NoUnderrun, PoolTypeOK
<1>3. QED
  BY <1>1, <1>2 DEF PoolNext, StartWorkers, Push, NotifyOne, Retire, TestPredicate, Block,
                    SpuriousWake, Return, poolVars, NoUnderrun

LEMMA NoStrayHand ==
    ASSUME PoolTypeOK, HandInv, NoUnderrun, NEW w \in Workers PROVE hand[w] \in {NoTask} \union Task
BY PoolAssumption DEF PoolAssumption, PoolTypeOK, HandInv, NoUnderrun, Stray, Task, NoTask
-----------------------------------------------------------------------------
(***************************************************************************)
(* Handlers that keep the contract, until an underrun.  A task passes from *)
(* the queue to one worker, whose frame tells how far its handler has come:*)
(* before it has answered or kept its Reply nothing is freed, and a kept   *)
(* Reply that is not used has freed nothing.                               *)
(***************************************************************************)
Untouched(t) == t \notin done /\ t \notin held /\ freed[t] = 0

Thrown == {"threw", "raised"}

AnswerInv ==
    /\ freed \in [Task -> Nat]
    /\ frame \in [Workers -> {"out"} \union Inside]
    /\ done \subseteq Task /\ held \subseteq Task
    /\ \A t \in Task : freed[t] <= 1
    /\ \A t \in Task : t > popped => Untouched(t)
    /\ \A w \in Workers : frame[w] # "out" => wpc[w] = "call"
    /\ \A w \in Workers : frame[w] = "lookup" => hand[w] \in Task /\ Untouched(hand[w])
    /\ \A w \in Workers : frame[w] \in Thrown => hand[w] \in Task /\ Untouched(hand[w])
    /\ \A w \in Workers : frame[w] = "handler"
                          => hand[w] \in Task /\ (hand[w] \notin done => freed[hand[w]] = 0)
    /\ \A t \in held : t \notin done /\ freed[t] = 0

(* What one call of replyMessageToDart frees.                              *)
LEMMA ReplyFrees ==
    ASSUME freed \in [Task -> Nat], NEW t \in Task, NEW val, ReplyMessageToDart(t, val)
    PROVE  /\ freed' \in [Task -> Nat]
           /\ \A u \in Task : freed'[u] = IF u = t THEN freed[u] + 1 ELSE freed[u]
BY DEF ReplyMessageToDart, MessageOf

(* A step that answers through neither a Reply nor the native fallback.    *)
LEMMA NotAnswering ==
    ASSUME PoolTypeOK, HandInv, AnswerInv, [Next]_vars, UNCHANGED <<freed, done, held>>,
           UNCHANGED <<popped, hand, frame>>,
           \A w \in Workers : wpc[w] = "call" => wpc'[w] = "call"
    PROVE  AnswerInv'
BY DEF AnswerInv, Untouched, Thrown, Inside

(* Returning to the pool after answering, or without having to.            *)
LEMMA LeavePreserves ==
    ASSUME PoolTypeOK, HandInv, AnswerInv, NEW w \in Workers, Leave(w),
           frame[w] # "out",
           freed' \in [Task -> Nat],
           \A t \in Task : t # hand[w] => freed'[t] = freed[t] /\ (t \in done' <=> t \in done),
           hand[w] \in Task => freed'[hand[w]] <= 1, NoUnderrun,
           hand[w] \in held => hand[w] \notin done' /\ freed'[hand[w]] = 0,
           done' \subseteq Task, held' = held
    PROVE  AnswerInv'
<1> USE DEF AnswerInv, Untouched, Thrown, Inside, HandInv, PoolTypeOK, NoTask, Task
<1>1. /\ wpc[w] = "call" /\ wpc' = [wpc EXCEPT ![w] = "ready"]
      /\ hand' = [hand EXCEPT ![w] = NoTask] /\ frame' = [frame EXCEPT ![w] = "out"]
      /\ popped' = popped
  BY DEF Leave, Return
<1>2. \A v \in Workers : v # w => hand'[v] = hand[v] /\ (hand[v] \in Task => hand[v] # hand[w])
  BY <1>1
<1>3. /\ frame'[w] = "out" /\ hand'[w] = NoTask
      /\ \A v \in Workers : v # w => frame'[v] = frame[v] /\ wpc'[v] = wpc[v]
  BY <1>1
<1>4. frame' \in [Workers -> {"out"} \union Inside] /\ held' \subseteq Task
  BY <1>1
<1>5. \A t \in Task : freed'[t] <= 1
  BY <1>1
<1>6. \A t \in Task : t > popped' => Untouched(t)'
  BY <1>1
<1>7. \A v \in Workers : frame'[v] # "out" => wpc'[v] = "call"
  BY <1>3
<1>8. \A v \in Workers : /\ frame'[v] = "lookup" => hand'[v] \in Task /\ Untouched(hand[v])'
                         /\ frame'[v] \in Thrown => hand'[v] \in Task /\ Untouched(hand[v])'
  BY <1>2, <1>3
<1>9. \A v \in Workers : frame'[v] = "handler"
        => hand'[v] \in Task /\ (hand'[v] \notin done' => freed'[hand'[v]] = 0)
  BY <1>2, <1>3
<1>10. \A t \in held' : t \notin done' /\ freed'[t] = 0
  BY <1>1
<1>11. QED
  BY <1>4, <1>5, <1>6, <1>7, <1>8, <1>9, <1>10

LEMMA AnswerInit == Init => AnswerInv
BY DEF Init, PoolInit, AnswerInv, Untouched, Thrown, Inside, Task

LEMMA AnswerStep ==
    ASSUME Contract, PoolTypeOK, HandInv, NoUnderrun, NoUnderrun', AnswerInv, [Next]_vars
    PROVE  AnswerInv'
<1> USE PoolAssumption DEF PoolAssumption
<1>1. ASSUME NEW i \in Isolates, InitializeChannel(i) PROVE AnswerInv'
  BY <1>1, NotAnswering DEF InitializeChannel, StartWorkers, kotlinVars, PoolTypeOK
<1>2. ASSUME NEW i \in Isolates, Notify(i) PROVE AnswerInv'
  <2>1. \A w \in Workers : wpc[w] = "call" => wpc'[w] = "call"
    BY <1>2 DEF Notify, NotifyOne, Sleeping, PoolTypeOK
  <2>2. QED
    BY <1>2, <2>1, NotAnswering DEF Notify, NotifyOne, kotlinVars, nativeVars
<1>3. ASSUME NEW i \in Isolates, OnReply(i) PROVE AnswerInv'
  BY <1>3, NotAnswering DEF OnReply, Complete, kotlinVars, poolVars
<1>3a. ASSUME NEW i \in Isolates, OnReplyThrows(i) PROVE AnswerInv'
  BY <1>3a, NotAnswering DEF OnReplyThrows, kotlinVars, poolVars
<1>4. ASSUME NEW i \in Isolates, Shutdown(i) PROVE AnswerInv'
  BY <1>4, NotAnswering DEF Shutdown, Retire, kotlinVars
<1>5. ASSUME NEW i \in Isolates, NEW c \in Channels, Send(i, c) PROVE AnswerInv'
  BY <1>5, NotAnswering DEF Send, Push, kotlinVars, nativeVars
<1>5a. ASSUME NEW i \in Isolates, SendFails(i) PROVE AnswerInv'
  BY <1>5a, NotAnswering DEF SendFails, poolVars, nativeVars, kotlinVars
<1>6. ASSUME NEW w \in Workers, Wait(w) PROVE AnswerInv'
  <2>1. \A v \in Workers : wpc[v] = "call" => wpc'[v] = "call"
    BY <1>6 DEF Wait, TestPredicate, Block, PoolTypeOK
  <2>2. QED
    BY <1>6, <2>1, NotAnswering DEF Wait, TestPredicate, Block, kotlinVars, nativeVars
<1>7. ASSUME NEW w \in Workers, Wake(w) PROVE AnswerInv'
  <2>1. \A v \in Workers : wpc[v] = "call" => wpc'[v] = "call"
    BY <1>7 DEF Wake, SpuriousWake, PoolTypeOK
  <2>2. QED
    BY <1>7, <2>1, NotAnswering DEF Wake, SpuriousWake, kotlinVars, nativeVars
<1>8. ASSUME NEW w \in Workers, Pop(w) PROVE AnswerInv'
  <2> USE DEF AnswerInv, Untouched, Thrown, Inside, PoolTypeOK, NoTask, Task
  <2>1. /\ wpc[w] = "take" /\ wpc' = [wpc EXCEPT ![w] = "call"]
        /\ hand'[w] = popped + 1 /\ popped + 1 \in Task
        /\ \A v \in Workers : v # w => hand'[v] = hand[v]
        /\ popped' = popped + 1 /\ frame' = [frame EXCEPT ![w] = "lookup"]
        /\ freed' = freed /\ done' = done /\ held' = held
    BY <1>8 DEF Pop, Take, nativeVars, NoUnderrun
  <2>2. frame[w] = "out" /\ popped + 1 > popped
    BY <2>1
  <2>3. Untouched(hand'[w])
    BY <2>1, <2>2
  <2>4. QED
    BY <2>1, <2>3
<1>9. ASSUME NEW w \in Workers, CallHandler(w) PROVE AnswerInv'
  <2>1. hand[w] \in Task
    BY <1>9 DEF CallHandler, AnswerInv
  <2>2. QED
    BY <1>9, <2>1 DEF CallHandler, AnswerInv, Untouched, Thrown, Inside, poolVars, nativeVars
<1>10. ASSUME NEW w \in Workers, NEW val, ReplyMessageToDart(hand[w], val), Leave(w),
              UNCHANGED <<done, held>>, frame[w] \in {"lookup"} \union Thrown
       PROVE  AnswerInv'
  <2>1. hand[w] \in Task /\ Untouched(hand[w])
    BY <1>10 DEF AnswerInv
  <2>2. /\ freed' \in [Task -> Nat]
        /\ \A u \in Task : freed'[u] = IF u = hand[w] THEN freed[u] + 1 ELSE freed[u]
    BY <1>10, <2>1, ReplyFrees DEF AnswerInv
  <2>3. hand[w] \in held => FALSE
    BY <2>1 DEF AnswerInv, Untouched
  <2>4. \A t \in Task : t # hand[w] => freed'[t] = freed[t] /\ (t \in done' <=> t \in done)
    BY <1>10, <2>2
  <2>5. hand[w] \in Task => freed'[hand[w]] <= 1
    BY <2>1, <2>2 DEF Untouched
  <2>6. frame[w] # "out"
    BY <1>10 DEF Thrown
  <2>7. QED
    BY <1>10, <2>2, <2>3, <2>4, <2>5, <2>6, LeavePreserves DEF AnswerInv
<1>11. ASSUME NEW w \in Workers, NoHandler(w) \/ DecodeFails(w) \/ MessengerCatches(w)
       PROVE  AnswerInv'
  BY <1>10, <1>11 DEF NoHandler, DecodeFails, MessengerCatches, Thrown
<1>12. ASSUME NEW w \in Workers, NEW val, HandlerAnswers(w, val) PROVE AnswerInv'
  <2> USE DEF AnswerInv
  <2>1. hand[w] \in Task /\ hand[w] \notin done /\ hand[w] \notin held /\ freed[hand[w]] = 0
    BY <1>12 DEF HandlerAnswers, Spoken
  <2>2. /\ done' = done \union {hand[w]} /\ frame' = frame /\ held' = held
        /\ UNCHANGED poolVars /\ ReplyMessageToDart(hand[w], val) /\ frame[w] = "handler"
    BY <1>12, <2>1 DEF HandlerAnswers
  <2>3. /\ freed' \in [Task -> Nat]
        /\ \A u \in Task : freed'[u] = IF u = hand[w] THEN freed[u] + 1 ELSE freed[u]
    BY <2>1, <2>2, ReplyFrees
  <2>4. hand[w] <= popped
    BY <2>1 DEF HandInv, Task
  <2>5. \A v \in Workers : v # w => hand[v] # hand[w]
    BY <2>1 DEF HandInv, Task, NoTask
  <2>6. UNCHANGED <<popped, wpc, hand>>
    BY <2>2 DEF poolVars
  <2>7. \A t \in Task : t > popped' => Untouched(t)'
    BY <2>1, <2>2, <2>3, <2>4, <2>6 DEF Untouched, PoolTypeOK, Task
  <2>8. \A v \in Workers : hand[v] \in Task /\ v # w /\ Untouched(hand[v]) => Untouched(hand[v])'
    BY <2>1, <2>2, <2>3, <2>5, <2>6 DEF Untouched
  <2>9. \A t \in Task : freed'[t] <= 1
    BY <2>1, <2>3
  <2>11. done' \subseteq Task
    BY <2>1, <2>2
  <2>12. \A t \in held' : t \notin done' /\ freed'[t] = 0
    BY <2>1, <2>2, <2>3
  <2>13. \A v \in Workers : frame'[v] = "lookup" => hand'[v] \in Task /\ Untouched(hand[v])'
    BY <2>2, <2>6, <2>8
  <2>14. \A v \in Workers : frame'[v] \in Thrown => hand'[v] \in Task /\ Untouched(hand[v])'
    BY <2>2, <2>6, <2>8 DEF Thrown
  <2>15. \A v \in Workers : frame'[v] = "handler"
              => hand'[v] \in Task /\ (hand'[v] \notin done' => freed'[hand'[v]] = 0)
    BY <2>2, <2>3, <2>6
  <2>16. QED
    BY <2>2, <2>3, <2>6, <2>7, <2>9, <2>11, <2>12, <2>13, <2>14, <2>15
<1>13. ASSUME NEW w \in Workers, HandlerDefers(w) PROVE AnswerInv'
  <2> USE DEF AnswerInv
  <2>1. hand[w] \in Task /\ hand[w] \notin done /\ hand[w] \notin held /\ freed[hand[w]] = 0
    BY <1>13 DEF HandlerDefers, Spoken
  <2>2. /\ held' = held \union {hand[w]} /\ frame' = frame /\ done' = done /\ freed' = freed
        /\ UNCHANGED poolVars /\ frame[w] = "handler"
    BY <1>13 DEF HandlerDefers, nativeVars
  <2>4. hand[w] <= popped
    BY <2>1 DEF HandInv, Task
  <2>5. \A v \in Workers : v # w => hand[v] # hand[w]
    BY <2>1 DEF HandInv, Task, NoTask
  <2>6. UNCHANGED <<popped, wpc, hand>>
    BY <2>2 DEF poolVars
  <2>7. \A t \in Task : t > popped' => Untouched(t)'
    BY <2>1, <2>2, <2>4, <2>6 DEF Untouched, PoolTypeOK, Task
  <2>8. \A v \in Workers : v # w /\ Untouched(hand[v]) => Untouched(hand[v])'
    BY <2>2, <2>5, <2>6 DEF Untouched
  <2>9. held' \subseteq Task
    BY <2>1, <2>2
  <2>10. \A v \in Workers : frame'[v] = "lookup" => hand'[v] \in Task /\ Untouched(hand[v])'
    BY <2>2, <2>6, <2>8
  <2>11. \A v \in Workers : frame'[v] \in Thrown => hand'[v] \in Task /\ Untouched(hand[v])'
    BY <2>2, <2>6, <2>8 DEF Thrown
  <2>12. QED
    BY <2>1, <2>2, <2>6, <2>7, <2>9, <2>10, <2>11
<1>14. ASSUME NEW w \in Workers, HandlerReturns(w) PROVE AnswerInv'
  <2>1. freed' = freed /\ done' = done /\ held' = held /\ frame[w] # "out" /\ Leave(w)
    BY <1>14 DEF HandlerReturns, nativeVars
  <2>2. QED
    BY <2>1, LeavePreserves DEF AnswerInv
<1>15. ASSUME NEW w \in Workers, HandlerThrows(w) PROVE AnswerInv'
  <2>1. hand[w] \in Task /\ Untouched(hand[w])
    BY <1>15 DEF HandlerThrows, Spoken, AnswerInv, Untouched
  <2>2. PICK how \in Thrown : frame' = [frame EXCEPT ![w] = how]
    BY <1>15 DEF HandlerThrows, Thrown
  <2>3. /\ done' = done /\ held' = held /\ freed' = freed /\ UNCHANGED poolVars
        /\ frame[w] = "handler"
    BY <1>15 DEF HandlerThrows, nativeVars
  <2>4. QED
    BY <2>1, <2>2, <2>3 DEF AnswerInv, Untouched, Thrown, Inside, poolVars
<1>16. ASSUME NEW w \in Workers, MethodChannelCatches(w) PROVE AnswerInv'
  <2>1. /\ done' = done \union {hand[w]} /\ held' = held /\ Leave(w)
        /\ ReplyMessageToDart(hand[w], "data") /\ frame[w] \in Thrown
    BY <1>16 DEF MethodChannelCatches, Thrown
  <2>2. hand[w] \in Task /\ Untouched(hand[w])
    BY <2>1 DEF AnswerInv
  <2>3. /\ freed' \in [Task -> Nat]
        /\ \A u \in Task : freed'[u] = IF u = hand[w] THEN freed[u] + 1 ELSE freed[u]
    BY <2>1, <2>2, ReplyFrees DEF AnswerInv
  <2>4. hand[w] \notin held /\ freed'[hand[w]] <= 1 /\ frame[w] # "out"
    BY <2>1, <2>2, <2>3 DEF Untouched, Thrown
  <2>5. \A t \in Task : t # hand[w] => freed'[t] = freed[t] /\ (t \in done' <=> t \in done)
    BY <2>1, <2>3
  <2>6. QED
    BY <2>1, <2>2, <2>3, <2>4, <2>5, LeavePreserves DEF AnswerInv
<1>17. ASSUME NEW t \in Task \union Stray, NEW val, LateReply(t, val) PROVE AnswerInv'
  <2>1. /\ t \in held /\ t \in Task /\ t \notin done /\ freed[t] = 0
        /\ held' = held \ {t} /\ done' = done \union {t} /\ ReplyMessageToDart(t, val)
        /\ UNCHANGED poolVars /\ frame' = frame
    BY <1>17 DEF LateReply, AnswerInv
  <2>2. /\ freed' \in [Task -> Nat]
        /\ \A u \in Task : freed'[u] = IF u = t THEN freed[u] + 1 ELSE freed[u]
    BY <2>1, ReplyFrees DEF AnswerInv
  <2>3. UNCHANGED <<popped, wpc, hand>>
    BY <2>1 DEF poolVars
  <2>4. /\ t \in done' /\ t \notin held' /\ freed'[t] = 1
        /\ \A u \in Task : u # t => /\ freed'[u] = freed[u] /\ (u \in done' <=> u \in done)
                                   /\ (u \in held' <=> u \in held)
    BY <2>1, <2>2
  <2>5. \A u \in Task : Untouched(u) => Untouched(u)'
    BY <2>1, <2>4 DEF Untouched
  <2>6. done' \subseteq Task /\ held' \subseteq Task /\ \A u \in Task : freed'[u] <= 1
    BY <2>1, <2>4 DEF AnswerInv
  <2>7. \A u \in held' : u \notin done' /\ freed'[u] = 0
    BY <2>4, <2>6, <2>1 DEF AnswerInv
  <2>8. \A w \in Workers : frame'[w] = "handler" =>
           hand'[w] \in Task /\ (hand'[w] \notin done' => freed'[hand'[w]] = 0)
    BY <2>1, <2>3, <2>4 DEF AnswerInv
  <2>9. QED
    BY <2>1, <2>2, <2>3, <2>5, <2>6, <2>7, <2>8 DEF AnswerInv
<1>18. ASSUME NEW c \in Channels, NEW present \in BOOLEAN, SetMessageHandler(c, present)
       PROVE  AnswerInv'
  BY <1>18, NotAnswering DEF SetMessageHandler, poolVars, nativeVars, kotlinVars
<1>19. CASE UNCHANGED vars
  BY <1>19, NotAnswering DEF vars, poolVars, nativeVars, kotlinVars
<1>20. QED
  BY <1>1, <1>2, <1>3, <1>3a, <1>4, <1>5, <1>6, <1>7, <1>8, <1>9, <1>11, <1>12, <1>13, <1>14,
     <1>15, <1>16, <1>17, <1>18, <1>19, <1>5a DEF Next, InCall, Handler, Answer

LEMMA AnswerInvariant == ASSUME Contract PROVE Spec => [](NoUnderrun => AnswerInv)
<1>1. PoolTypeOK /\ HandInv /\ (NoUnderrun => AnswerInv) /\ [Next]_vars
         => (NoUnderrun => AnswerInv)'
  BY AnswerStep, UnderrunStays
<1>2. QED
  BY <1>1, AnswerInit, MessengerImplementsPool, PoolTypeCorrect, HandInvariant, PTL DEF Spec

(* If the handlers keep the contract no message is answered, or freed,     *)
(* twice, although three paths lead to replyMessageToDart and only one of  *)
(* them passes the flag of the Reply, as long as no worker has popped an   *)
(* empty queue and freed what it found there.                              *)
THEOREM NeverAnsweredTwice == ASSUME Contract PROVE Spec => []AnsweredOnce
<1>1. (NoUnderrun => AnswerInv) => AnsweredOnce
  BY DEF AnswerInv, AnsweredOnce
<1>2. QED
  BY <1>1, AnswerInvariant, PTL

(* If the handlers keep the contract no message is freed while a handler   *)
(* or a kept Reply that has yet to answer can read it, as long as no worker*)
(* has popped an empty queue.                                              *)
THEOREM NeverFreedBeforeAnswer == ASSUME Contract PROVE Spec => []MessageAlive
<1>1. (NoUnderrun => AnswerInv) => MessageAlive
  BY DEF AnswerInv, MessageAlive, Readable, Inside, Thrown, Untouched
<1>2. QED
  BY <1>1, AnswerInvariant, PTL
=============================================================================
