-------------------------- MODULE RequestReplyProofs -------------------------
(***************************************************************************)
(* Theorems about ConcurrentMessenger: what its sequence numbers are worth.*)
(* Types, the futures and the answers they are completed with, and, for an *)
(* isolate that is alone, the refinement of RequestReply.                  *)
(***************************************************************************)
EXTENDS ConcurrentMessengerProofs

(* A worker inside handleMessageFromDart has a message in hand, and no     *)
(* stray one if no pop has found the queue empty.                          *)
Known == 1..pushed \union Stray

FrameInv ==
    /\ frame \in [Workers -> {"out"} \union Inside]
    /\ done \subseteq Known /\ held \subseteq Known
    /\ \A w \in Workers : frame[w] # "out" => wpc[w] = "call" /\ hand[w] \in Known
    /\ NoUnderrun => /\ done \subseteq 1..pushed /\ held \subseteq 1..pushed
                     /\ \A w \in Workers : frame[w] # "out" => hand[w] \in 1..pushed

LEMMA FrameStep ==
    ASSUME PoolTypeOK, HandInv, FrameInv, [Next]_vars
    PROVE  FrameInv'
<1> USE PoolAssumption
    DEF PoolAssumption, PoolTypeOK, HandInv, FrameInv, Known, Inside, Task, Stray, NoTask,
        NoUnderrun, nativeVars, kotlinVars
<1>1. ASSUME NEW i \in Isolates,
             \/ InitializeChannel(i) \/ Notify(i) \/ OnReply(i) \/ OnReplyThrows(i)
             \/ Shutdown(i) \/ SendFails(i)
      PROVE  FrameInv'
  <2>1. CASE InitializeChannel(i)
    BY <2>1 DEF InitializeChannel, StartWorkers
  <2>2. CASE Notify(i)
    BY <2>2 DEF Notify, NotifyOne, Sleeping
  <2>3. CASE OnReply(i) \/ OnReplyThrows(i) \/ Shutdown(i) \/ SendFails(i)
    BY <2>3 DEF OnReply, OnReplyThrows, Complete, Shutdown, Retire, SendFails, poolVars
  <2>4. QED
    BY <1>1, <2>1, <2>2, <2>3
<1>2. ASSUME NEW i \in Isolates, NEW c \in Channels, Send(i, c) PROVE FrameInv'
  BY <1>2 DEF Send, Push
<1>3. ASSUME NEW w \in Workers, Wait(w) \/ Wake(w) PROVE FrameInv'
  BY <1>3 DEF Wait, TestPredicate, Block, Wake, SpuriousWake
<1>4. ASSUME NEW w \in Workers, Pop(w) PROVE FrameInv'
  <2>1. /\ wpc' = [wpc EXCEPT ![w] = "call"] /\ frame' = [frame EXCEPT ![w] = "lookup"]
        /\ hand' = [hand EXCEPT ![w] = IF popped < pushed THEN popped + 1
                                                          ELSE MaxTasks + underruns + 1]
        /\ UNCHANGED <<pushed, done, held>>
        /\ underruns' = IF popped < pushed THEN underruns ELSE underruns + 1
        /\ popped < MaxPops
    BY <1>4 DEF Pop, Take
  <2>2. hand'[w] \in Known /\ (underruns' = 0 => underruns = 0 /\ hand'[w] \in 1..pushed)
    BY <2>1
  <2>3. \A v \in Workers : v # w => UNCHANGED <<frame[v], wpc[v], hand[v]>>
    BY <2>1
  <2>4. wpc'[w] = "call" /\ frame'[w] = "lookup"
    BY <2>1
  <2>5. frame' \in [Workers -> {"out"} \union Inside]
    BY <2>1
  <2>6. \A v \in Workers :
           /\ frame'[v] # "out" => wpc'[v] = "call" /\ hand'[v] \in Known
           /\ underruns' = 0 /\ frame'[v] # "out" => hand'[v] \in 1..pushed
    BY <2>2, <2>3, <2>4
  <2>7. QED
    BY <2>1, <2>2, <2>5, <2>6
<1>5. ASSUME NEW w \in Workers, Leave(w), frame[w] # "out",
             done' \in {done, done \union {hand[w]}}, UNCHANGED held
      PROVE  FrameInv'
  <2>1. done' \subseteq Known /\ (NoUnderrun => done' \subseteq 1..pushed)
    BY <1>5
  <2>2. QED
    BY <1>5, <2>1 DEF Leave, Return
<1>7. ASSUME NEW w \in Workers, InCall(w) PROVE FrameInv'
  <2>1. CASE NoHandler(w) \/ DecodeFails(w) \/ HandlerReturns(w) \/ MessengerCatches(w)
    BY <1>5, <2>1 DEF NoHandler, DecodeFails, HandlerReturns, MessengerCatches
  <2>2. CASE MethodChannelCatches(w)
    BY <1>5, <2>2 DEF MethodChannelCatches
  <2>3. CASE CallHandler(w)
    BY <2>3 DEF CallHandler, poolVars
  <2>4. CASE HandlerDefers(w)
    <3>1. /\ frame[w] = "handler" /\ held' = held \union {hand[w]}
          /\ UNCHANGED <<pushed, wpc, hand, underruns, frame, done>>
      BY <2>4 DEF HandlerDefers, poolVars
    <3>2. held' \subseteq Known /\ (NoUnderrun => held' \subseteq 1..pushed)
      BY <3>1
    <3>3. QED
      BY <3>1, <3>2
  <2>5. CASE HandlerThrows(w)
    <3>1. PICK how \in {"threw", "raised"} : frame' = [frame EXCEPT ![w] = how]
      BY <2>5 DEF HandlerThrows
    <3>2. QED
      BY <2>5, <3>1 DEF HandlerThrows, poolVars
  <2>6. ASSUME NEW val, HandlerAnswers(w, val) PROVE FrameInv'
    <3>1. /\ frame[w] = "handler" /\ UNCHANGED <<pushed, wpc, hand, underruns, held>>
          /\ frame' \in {frame, [frame EXCEPT ![w] = "threw"]}
          /\ done' \in {done, done \union {hand[w]}}
      BY <2>6 DEF HandlerAnswers, poolVars
    <3>2. done' \subseteq Known /\ (NoUnderrun => done' \subseteq 1..pushed)
      BY <3>1
    <3>3. QED
      BY <3>1, <3>2
  <2>7. QED
    BY <1>7, <2>1, <2>2, <2>3, <2>4, <2>5, <2>6 DEF InCall, Handler
<1>8. ASSUME NEW t \in Task \union Stray, Answer(t) PROVE FrameInv'
  <2>1. /\ t \in held /\ held' \subseteq held /\ done' \in {done, done \union {t}}
        /\ UNCHANGED <<pushed, wpc, hand, underruns, frame>>
    BY <1>8 DEF Answer, LateReply, poolVars
  <2>2. QED
    BY <2>1
<1>9. CASE (\E c, present : SetMessageHandler(c, present)) \/ UNCHANGED vars
  BY <1>9 DEF SetMessageHandler, vars, poolVars
<1>10. QED
  BY <1>1, <1>2, <1>3, <1>4, <1>7, <1>8, <1>9 DEF Next

LEMMA FrameInvariant == Spec => [](PoolTypeOK /\ HandInv /\ FrameInv)
<1>1. Init => FrameInv
  BY DEF Init, PoolInit, FrameInv, Known, Inside
<1>2. PoolTypeOK /\ HandInv /\ FrameInv /\ [Next]_vars => FrameInv'
  BY FrameStep
<1>3. QED
  BY <1>1, <1>2, MessengerImplementsPool, PoolTypeCorrect, HandInvariant, PTL DEF Spec
-----------------------------------------------------------------------------
(* What a step can be to Dart, the ports and the messages: nothing, one    *)
(* call of replyMessageToDart, or one of five steps of an isolate.         *)
Quiet == /\ UNCHANGED <<dartVars, port, freed, pushed>>
         /\ \A i \in Isolates : ipc'[i] = "dead" <=> ipc[i] = "dead"

Replying(t, val) == /\ ReplyMessageToDart(t, val)
                    /\ UNCHANGED <<dartVars, pushed, ipc, underruns>>
                    /\ NoUnderrun => t \in 1..pushed

IsolateStep(i) == \/ OnReply(i) \/ OnReplyThrows(i) \/ Shutdown(i) \/ SendFails(i)
                  \/ \E c \in Channels : Send(i, c)

Shaped == \/ Quiet
          \/ \E t \in Known, val \in {"data", "null"} : Replying(t, val)
          \/ \E i \in Isolates : IsolateStep(i)

LEMMA Shape ==
    ASSUME PoolTypeOK, HandInv, FrameInv, [Next]_vars
    PROVE  /\ Shaped
           /\ handlers \subseteq Channels => handlers' \subseteq Channels
           /\ replyPort' \in {replyPort} \union Isolates
<1> USE DEF PoolTypeOK, dartVars, nativeVars
<1> DEFINE Others == /\ handlers \subseteq Channels => handlers' \subseteq Channels
                     /\ replyPort' \in {replyPort} \union Isolates
<1>1. ASSUME NEW i \in Isolates, InitializeChannel(i) PROVE Quiet /\ Others
  BY <1>1 DEF InitializeChannel, StartWorkers, Quiet
<1>2. ASSUME NEW i \in Isolates, Notify(i) PROVE Quiet /\ Others
  BY <1>2 DEF Notify, NotifyOne, Quiet
<1>3. ASSUME NEW i \in Isolates, IsolateStep(i) PROVE Shaped /\ Others
  BY <1>3 DEF IsolateStep, Shaped, OnReply, OnReplyThrows, Complete, Shutdown, SendFails, Send
<1>4. ASSUME NEW w \in Workers, Wait(w) \/ Wake(w) \/ Pop(w) PROVE Quiet /\ Others
  BY <1>4 DEF Wait, TestPredicate, Block, Wake, SpuriousWake, Pop, Take, Quiet
<1>5. ASSUME NEW w \in Workers, InCall(w) PROVE Shaped /\ Others
  <2>1. ASSUME NEW val \in {"data", "null"}, ReplyMessageToDart(hand[w], val), frame[w] # "out",
               UNCHANGED <<dartVars, pushed, ipc, underruns, handlers>>
        PROVE  Shaped /\ Others
    <3>1. hand[w] \in Known /\ (NoUnderrun => hand[w] \in 1..pushed)
      BY <2>1 DEF FrameInv
    <3>2. Replying(hand[w], val)
      BY <2>1, <3>1 DEF Replying
    <3>3. Others
      BY <2>1 DEF ReplyMessageToDart
    <3>4. QED
      BY <3>1, <3>2, <3>3 DEF Shaped
  <2>2. CASE CallHandler(w) \/ HandlerDefers(w) \/ HandlerReturns(w) \/ HandlerThrows(w)
    BY <2>2 DEF CallHandler, HandlerDefers, HandlerReturns, HandlerThrows, Leave, Return,
       poolVars, Quiet, Shaped
  <2>3. CASE NoHandler(w) \/ DecodeFails(w) \/ MessengerCatches(w) \/ MethodChannelCatches(w)
    BY <2>1, <2>3 DEF NoHandler, DecodeFails, MessengerCatches, MethodChannelCatches, Leave,
       Return
  <2>4. ASSUME NEW val \in {"data", "null"}, HandlerAnswers(w, val) PROVE Shaped /\ Others
    <3>1. CASE hand[w] \in done
      BY <2>4, <3>1 DEF HandlerAnswers, poolVars, Quiet, Shaped
    <3>2. CASE hand[w] \notin done
      BY <2>1, <2>4, <3>2 DEF HandlerAnswers, poolVars
    <3>3. QED
      BY <3>1, <3>2
  <2>5. QED
    BY <1>5, <2>2, <2>3, <2>4 DEF InCall, Handler
<1>6. ASSUME NEW t \in Task \union Stray, NEW val \in {"data", "null"}, LateReply(t, val)
      PROVE  Shaped /\ Others
  <2>1. CASE t \in done
    BY <1>6, <2>1 DEF LateReply, poolVars, Quiet, Shaped
  <2>2. CASE t \notin done
    <3>1. t \in Known /\ (NoUnderrun => t \in 1..pushed)
      BY <1>6 DEF LateReply, FrameInv
    <3>2. Replying(t, val) /\ Others
      BY <1>6, <2>2, <3>1 DEF LateReply, Replying, ReplyMessageToDart, poolVars
    <3>3. QED
      BY <3>1, <3>2 DEF Shaped
  <2>3. QED
    BY <2>1, <2>2
<1>7. ASSUME NEW c \in Channels, NEW present \in BOOLEAN, SetMessageHandler(c, present)
      PROVE  Quiet /\ Others
  BY <1>7 DEF SetMessageHandler, Quiet, poolVars
<1>8. CASE UNCHANGED vars
  BY <1>8 DEF vars, poolVars, Quiet, Shaped
<1>9. QED
  BY <1>1, <1>2, <1>3, <1>4, <1>5, <1>6, <1>7, <1>8 DEF Next, Answer, IsolateStep, Shaped
-----------------------------------------------------------------------------
(* Types of what Dart, the ports and the messages consist of.              *)
Request == [iso : Isolates, seq : Nat, chan : Channels]

DataTypes == /\ req \in Seq(Request) /\ Len(req) = pushed /\ pushed \in 0..MaxTasks
             /\ nextSeq \in [Isolates -> Nat]
             /\ waiting \subseteq 1..pushed
             /\ orphans \subseteq [iso : Isolates, seq : Nat]
             /\ result \in [Task -> [by : AnyTask, val : Val \union {"none"}]]
             /\ unread \in [Task -> Nat]
             /\ port \in [Isolates -> Seq(Reply)]
             /\ freed \in [Task -> Nat]

(* What one call of replyMessageToDart does to the ports: it appends one   *)
(* entry, to the port of one isolate that is alive, or to none.            *)
Entry(t, s, v) == [seq |-> s, by |-> t, val |-> v]

Frees(t) == \A u \in Task : freed'[u] = IF u = t THEN freed[u] + 1 ELSE freed[u]

LEMMA Posts ==
    ASSUME DataTypes, NEW t \in Known, NEW val \in {"data", "null"}, Replying(t, val)
    PROVE  /\ freed' \in [Task -> Nat]
           /\ t \in 1..pushed => Frees(t)
           /\ \E s \in Nat, v \in Val :
                 /\ t \in 1..pushed => s = req[t].seq
                 /\ Entry(t, s, v) \in Reply
                 /\ port' = [i \in Isolates |-> IF i = replyPort /\ ipc[i] # "dead"
                                                THEN Append(port[i], Entry(t, s, v))
                                                ELSE port[i]]
<1> USE PoolAssumption DEF PoolAssumption, DataTypes
<1>1. ReplyMessageToDart(t, val)
  BY DEF Replying
<1>2. freed' \in [Task -> Nat]
  BY <1>1 DEF ReplyMessageToDart
<1>2a. t \in 1..pushed => t \in Task /\ Frees(t)
  BY <1>1, ReplyFrees DEF Frees, Task
<1>3. PICK s \in SeqOf(t), v \in Posted(val) :
         port' = [i \in Isolates |-> IF i = replyPort /\ ipc[i] # "dead"
                                     THEN Append(port[i], Entry(t, s, v))
                                     ELSE port[i]]
  BY <1>1 DEF ReplyMessageToDart, Entry
<1>4. s \in Nat /\ (t \in 1..pushed => s = req[t].seq)
  <2>1. CASE t \notin 1..pushed
    <3>1. t \notin Task
      BY <2>1 DEF Known, Stray, Task
    <3>2. QED
      BY <2>1, <3>1 DEF SeqOf
  <2>2. CASE t \in 1..pushed
    <3>1. t \in 1..Len(req) /\ req[t] \in Request
      BY <2>2
    <3>2. s = req[t].seq
      BY <1>2a, <2>2 DEF SeqOf
    <3>3. QED
      BY <3>1, <3>2 DEF Request
  <2>3. QED
    BY <2>1, <2>2
<1>5. v \in Val
  BY DEF Posted, Val
<1>6. t \in AnyTask
  BY DEF AnyTask, Known, Task
<1>7. Entry(t, s, v) \in Reply
  BY <1>4, <1>5, <1>6 DEF Entry, Reply
<1>8. QED
  BY <1>2, <1>2a, <1>3, <1>4, <1>5, <1>7

(* The request that a send records.                                        *)
LEMMA Records ==
    ASSUME DataTypes, NEW i \in Isolates, NEW c \in Channels, Send(i, c)
    PROVE  /\ req' \in Seq(Request) /\ Len(req') = pushed'
           /\ pushed' = pushed + 1 /\ pushed' \in 0..MaxTasks
           /\ \A t \in 1..pushed : req'[t] = req[t]
           /\ req'[pushed'] = [iso |-> i, seq |-> nextSeq[i], chan |-> c]
<1> DEFINE r == [iso |-> i, seq |-> nextSeq[i], chan |-> c]
<1>1. r \in Request
  BY DEF DataTypes, Request
<1>2. req' = Append(req, r) /\ pushed' = pushed + 1 /\ pushed < MaxTasks
  BY DEF Send, Push
<1> HIDE DEF r
<1>3. /\ Append(req, r) \in Seq(Request) /\ Len(Append(req, r)) = Len(req) + 1
      /\ \A t \in 1..Len(req) : Append(req, r)[t] = req[t]
      /\ Append(req, r)[Len(req) + 1] = r
  BY <1>1 DEF DataTypes
<1>4. QED
  BY <1>2, <1>3, PoolAssumption DEF DataTypes, PoolAssumption, r

LEMMA DataStep == ASSUME DataTypes, Shaped PROVE DataTypes'
<1>1. CASE Quiet
  BY <1>1 DEF Quiet, DataTypes, dartVars
<1>2. ASSUME NEW t \in Known, NEW val \in {"data", "null"}, Replying(t, val)
      PROVE  DataTypes'
  <2>1. freed' \in [Task -> Nat] /\ UNCHANGED <<dartVars, pushed>>
    BY <1>2, Posts DEF Replying
  <2>2. port' \in [Isolates -> Seq(Reply)]
    <3>1. PICK e \in Reply : port' = [i \in Isolates |-> IF i = replyPort /\ ipc[i] # "dead"
                                                         THEN Append(port[i], e) ELSE port[i]]
      BY <1>2, Posts
    <3>2. \A i \in Isolates : port[i] \in Seq(Reply) /\ Append(port[i], e) \in Seq(Reply)
      BY DEF DataTypes
    <3>3. QED
      BY <3>1, <3>2
  <2>3. QED
    BY <2>1, <2>2 DEF DataTypes, dartVars
<1>3. ASSUME NEW i \in Isolates, OnReply(i) PROVE DataTypes'
  <2>1. port[i] \in Seq(Reply) /\ port[i] # << >>
    BY <1>3 DEF OnReply, Complete, DataTypes
  <2>2. Head(port[i]) \in Reply /\ Tail(port[i]) \in Seq(Reply)
    BY <2>1
  <2>3. result' \in [Task -> [by : AnyTask, val : Val \union {"none"}]]
    BY <1>3, <2>2 DEF OnReply, Complete, DataTypes, Reply
  <2>4. /\ port' \in [Isolates -> Seq(Reply)]
        /\ waiting' \subseteq waiting /\ orphans' \subseteq orphans
        /\ UNCHANGED <<req, pushed, nextSeq, unread, freed>>
    BY <1>3, <2>2 DEF OnReply, Complete, DataTypes, poolVars
  <2>5. QED
    BY <2>3, <2>4 DEF DataTypes
<1>3a. ASSUME NEW i \in Isolates, OnReplyThrows(i) PROVE DataTypes'
  <2>1. port[i] \in Seq(Reply) /\ port[i] # << >>
    BY <1>3a DEF OnReplyThrows, DataTypes
  <2>2. port' \in [Isolates -> Seq(Reply)]
    BY <1>3a, <2>1 DEF OnReplyThrows, DataTypes
  <2>3. unread' \in [Task -> Nat]
    BY <1>3a DEF OnReplyThrows, DataTypes
  <2>4. UNCHANGED <<req, pushed, nextSeq, waiting, orphans, result, freed>>
    BY <1>3a DEF OnReplyThrows, poolVars
  <2>5. QED
    BY <2>2, <2>3, <2>4 DEF DataTypes
<1>4. ASSUME NEW i \in Isolates, Shutdown(i) PROVE DataTypes'
  <2>1. port' \in [Isolates -> Seq(Reply)]
    BY <1>4 DEF Shutdown, DataTypes
  <2>2. /\ waiting' \subseteq waiting /\ orphans' \subseteq orphans
        /\ UNCHANGED <<req, pushed, nextSeq, result, unread, freed>>
    BY <1>4 DEF Shutdown, Retire
  <2>3. QED
    BY <2>1, <2>2 DEF DataTypes
<1>5. ASSUME NEW i \in Isolates, SendFails(i) PROVE DataTypes'
  BY <1>5 DEF SendFails, DataTypes, poolVars, nativeVars
<1>6. ASSUME NEW i \in Isolates, NEW c \in Channels, Send(i, c) PROVE DataTypes'
  <2>1. req' \in Seq(Request) /\ Len(req') = pushed' /\ pushed' \in 0..MaxTasks
    BY <1>6, Records
  <2>2. waiting' \subseteq 1..pushed'
    <3>1. pushed' = pushed + 1 /\ waiting' = waiting \union {pushed'}
      BY <1>6 DEF Send, Push
    <3>2. QED
      BY <3>1 DEF DataTypes
  <2>3. nextSeq' = [nextSeq EXCEPT ![i] = @ + 1] /\ UNCHANGED <<orphans, result, unread, port, freed>>
    BY <1>6 DEF Send, nativeVars
  <2>4. nextSeq' \in [Isolates -> Nat]
    BY <2>3 DEF DataTypes
  <2>5. QED
    BY <2>1, <2>2, <2>3, <2>4 DEF DataTypes
<1>7. QED
  BY <1>1, <1>2, <1>3, <1>3a, <1>4, <1>5, <1>6 DEF Shaped, IsolateStep

LEMMA DataInit == Init => DataTypes
BY PoolAssumption DEF PoolAssumption, Init, PoolInit, DataTypes, NoResult, AnyTask, Val

(* The messenger keeps its types, whatever the handlers do.                *)
THEOREM MessengerTypeCorrect == Spec => []TypeOK
<1> DEFINE Rest == handlers \subseteq Channels /\ replyPort \in Isolates \union {NoPort}
           Inv  == PoolTypeOK /\ HandInv /\ FrameInv
<1>1. Init => DataTypes /\ Rest
  BY DataInit DEF Init
<1>2. Inv /\ DataTypes /\ Rest /\ [Next]_vars => (DataTypes /\ Rest)'
  BY Shape, DataStep
<1>3. Inv /\ DataTypes /\ Rest => TypeOK
  BY DEF TypeOK, FrameInv, Known, DataTypes, Request
<1>4. QED
  BY <1>1, <1>2, <1>3, FrameInvariant, PTL DEF Spec
-----------------------------------------------------------------------------
(* No two requests of an isolate have one sequence number, and none that of*)
(* a send that failed; what is completed is not waiting.                   *)
SeqInv ==
    /\ \A t \in 1..pushed : req[t].iso \in Isolates /\ req[t].seq < nextSeq[req[t].iso]
    /\ \A t, u \in 1..pushed : req[t].iso = req[u].iso /\ req[t].seq = req[u].seq => t = u
    /\ \A o \in orphans : o.seq < nextSeq[o.iso]
    /\ \A o \in orphans, t \in 1..pushed : req[t].iso = o.iso => req[t].seq # o.seq
    /\ \A t \in Task : result[t].val # "none" => t \in 1..pushed /\ t \notin waiting

LEMMA Typed ==
    ASSUME DataTypes
    PROVE  /\ \A t \in 1..pushed : req[t].seq \in Nat /\ req[t].iso \in Isolates
           /\ \A o \in orphans : o.seq \in Nat /\ o.iso \in Isolates
           /\ \A i \in Isolates : nextSeq[i] \in Nat
<1>1. ASSUME NEW t \in 1..pushed PROVE req[t].seq \in Nat /\ req[t].iso \in Isolates
  <2>1. req[t] \in Request
    BY DEF DataTypes
  <2>2. QED
    BY <2>1 DEF Request
<1>2. QED
  BY <1>1 DEF DataTypes

LEMMA SeqInit == Init => SeqInv
BY DEF Init, PoolInit, SeqInv, NoResult

(* Steps that record no request and issue no number.                       *)
LEMMA SeqKept ==
    ASSUME DataTypes, SeqInv, UNCHANGED <<req, nextSeq, pushed>>,
           waiting' \subseteq waiting, orphans' \subseteq orphans,
           \A t \in Task : \/ UNCHANGED result[t]
                           \/ t \in waiting /\ t \notin waiting'
    PROVE  SeqInv'
BY DEF SeqInv, DataTypes

LEMMA SeqStep == ASSUME DataTypes, SeqInv, Shaped PROVE SeqInv'
<1>1. CASE Quiet
  BY <1>1, SeqKept DEF Quiet, dartVars
<1>2. ASSUME NEW t, NEW val, Replying(t, val) PROVE SeqInv'
  BY <1>2, SeqKept DEF Replying, dartVars
<1>3. ASSUME NEW i \in Isolates, OnReply(i) PROVE SeqInv'
  <2>1. /\ UNCHANGED <<req, nextSeq, pushed>> /\ orphans' \subseteq orphans
        /\ waiting' = waiting \ Answered(i) /\ Answered(i) \subseteq waiting
    BY <1>3 DEF OnReply, Complete, Answered, Completers, poolVars
  <2>2. \A t \in Task : t \notin Answered(i) => UNCHANGED result[t]
    BY <1>3 DEF OnReply, Complete
  <2>3. QED
    BY <2>1, <2>2, SeqKept
<1>3a. ASSUME NEW i \in Isolates, OnReplyThrows(i) PROVE SeqInv'
  BY <1>3a, SeqKept DEF OnReplyThrows, poolVars
<1>4. ASSUME NEW i \in Isolates, Shutdown(i) PROVE SeqInv'
  BY <1>4, SeqKept DEF Shutdown, Retire
<1>5. ASSUME NEW i \in Isolates, SendFails(i) PROVE SeqInv'
  <2>1. /\ nextSeq' = [nextSeq EXCEPT ![i] = @ + 1]
        /\ orphans' = orphans \union {[iso |-> i, seq |-> nextSeq[i]]}
        /\ UNCHANGED <<req, pushed, waiting, result>>
    BY <1>5 DEF SendFails, poolVars
  <2>2. \A j \in Isolates : nextSeq[j] \in Nat /\ nextSeq'[j] >= nextSeq[j]
    BY <2>1 DEF DataTypes
  <2>3. \A t \in 1..pushed : req[t].seq \in Nat /\ req[t].iso \in Isolates
    BY Typed
  <2>4. \A o \in orphans : o.seq \in Nat /\ o.iso \in Isolates
    BY DEF DataTypes
  <2>5. \A t \in 1..pushed' : req'[t].iso \in Isolates /\ req'[t].seq < nextSeq'[req'[t].iso]
    BY <2>1, <2>2, <2>3 DEF SeqInv
  <2>6. \A o \in orphans' : o.seq < nextSeq'[o.iso]
    <3>1. ASSUME NEW o \in orphans PROVE o.seq < nextSeq'[o.iso]
      <4>1. o.seq < nextSeq[o.iso] /\ o.seq \in Nat /\ o.iso \in Isolates
        BY <2>4 DEF SeqInv
      <4>2. nextSeq'[o.iso] \in Nat
        BY <2>1, <4>1 DEF DataTypes
      <4>3. QED
        BY <2>2, <4>1, <4>2
    <3>2. nextSeq[i] < nextSeq'[i]
      BY <2>1 DEF DataTypes
    <3>3. QED
      BY <2>1, <3>1, <3>2
  <2>7. \A o \in orphans', t \in 1..pushed' : req'[t].iso = o.iso => req'[t].seq # o.seq
    BY <2>1, <2>2, <2>3 DEF SeqInv
  <2>8. QED
    BY <2>1, <2>5, <2>6, <2>7 DEF SeqInv
<1>6. ASSUME NEW i \in Isolates, NEW c \in Channels, Send(i, c) PROVE SeqInv'
  <2>1. /\ pushed' = pushed + 1 /\ pushed \in Nat
        /\ \A t \in 1..pushed : req'[t] = req[t]
        /\ req'[pushed'].iso = i /\ req'[pushed'].seq = nextSeq[i]
    <3>1. \A t \in 1..pushed : req'[t] = req[t]
      BY <1>6, Records
    <3>2. pushed' = pushed + 1 /\ req'[pushed'] = [iso |-> i, seq |-> nextSeq[i], chan |-> c]
      BY <1>6, Records
    <3>3. QED
      BY <3>1, <3>2 DEF DataTypes
  <2>2. /\ nextSeq' = [nextSeq EXCEPT ![i] = @ + 1]
        /\ waiting' = waiting \union {pushed'} /\ UNCHANGED <<orphans, result>>
    BY <1>6 DEF Send
  <2>3. \A j \in Isolates : nextSeq[j] \in Nat /\ nextSeq'[j] >= nextSeq[j]
    BY <2>2 DEF DataTypes
  <2>4. nextSeq'[i] = nextSeq[i] + 1
    BY <2>2 DEF DataTypes
  <2>5. \A t \in 1..pushed : req[t].seq \in Nat /\ req[t].iso \in Isolates
    BY Typed
  <2>6. \A o \in orphans : o.seq \in Nat /\ o.iso \in Isolates
    BY DEF DataTypes
  <2>7. \A t \in 1..pushed' : t = pushed' \/ t \in 1..pushed
    BY <2>1
  <2>8. \A t \in 1..pushed' : req'[t].iso \in Isolates /\ req'[t].seq < nextSeq'[req'[t].iso]
    <3>1. ASSUME NEW t \in 1..pushed PROVE req[t].seq < nextSeq'[req[t].iso]
      <4>1. req[t].seq < nextSeq[req[t].iso]
        BY DEF SeqInv
      <4>2. nextSeq'[req[t].iso] \in Nat
        BY <2>2, <2>5 DEF DataTypes
      <4>3. QED
        BY <2>3, <2>5, <4>1, <4>2
    <3>2. nextSeq[i] < nextSeq'[i]
      BY <2>3, <2>4
    <3>3. QED
      BY <2>1, <2>5, <2>7, <3>1, <3>2
  <2>9. \A t \in 1..pushed : req[t].iso = i => req[t].seq < nextSeq[i]
    BY DEF SeqInv
  <2>10. \A t, u \in 1..pushed' : req'[t].iso = req'[u].iso /\ req'[t].seq = req'[u].seq => t = u
    BY <2>1, <2>3, <2>5, <2>7, <2>9 DEF SeqInv
  <2>11. \A o \in orphans' : o.seq < nextSeq'[o.iso]
    BY <2>2, <2>3, <2>6 DEF SeqInv
  <2>12. \A o \in orphans', t \in 1..pushed' : req'[t].iso = o.iso => req'[t].seq # o.seq
    BY <2>1, <2>2, <2>3, <2>6, <2>7 DEF SeqInv
  <2>13. \A t \in Task : result'[t].val # "none" => t \in 1..pushed' /\ t \notin waiting'
    BY <2>1, <2>2 DEF SeqInv
  <2>14. QED
    BY <2>8, <2>10, <2>11, <2>12, <2>13 DEF SeqInv
<1>7. QED
  BY <1>1, <1>2, <1>3, <1>3a, <1>4, <1>5, <1>6 DEF Shaped, IsolateStep

(* Completing a future is final, whatever the handlers and the pool do.    *)
THEOREM CompletionIsFinal == Spec => CompletedOnce
<1> DEFINE Inv == PoolTypeOK /\ HandInv /\ FrameInv
<1>1. Init => DataTypes /\ SeqInv
  BY DataInit, SeqInit
<1>2. Inv /\ DataTypes /\ SeqInv /\ [Next]_vars => (DataTypes /\ SeqInv)'
  BY Shape, DataStep, SeqStep
<1>3. ASSUME SeqInv, Shaped
      PROVE  \A t \in Task : result[t].val # "none" => result'[t] = result[t]
  <2>1. CASE Quiet \/ \E t, val : Replying(t, val)
    BY <2>1 DEF Quiet, Replying, dartVars
  <2>2. ASSUME NEW i \in Isolates, IsolateStep(i), ~OnReply(i) PROVE UNCHANGED result
    BY <2>2 DEF IsolateStep, OnReplyThrows, Shutdown, SendFails, Send
  <2>3. ASSUME NEW i \in Isolates, OnReply(i)
        PROVE  \A t \in Task \ waiting : result'[t] = result[t]
    BY <2>3 DEF OnReply, Complete, Answered, Completers
  <2>4. QED
    BY <1>3, <2>1, <2>2, <2>3 DEF Shaped, IsolateStep, SeqInv
<1>4. Inv /\ DataTypes /\ SeqInv /\ [Next]_vars
      => [\A t \in Task : result[t].val # "none" => result'[t] = result[t]]_vars
  BY <1>3, Shape
<1>5. QED
  BY <1>1, <1>2, <1>4, FrameInvariant, PTL DEF Spec, CompletedOnce
-----------------------------------------------------------------------------
(* Until an underrun every reply is the answer to a message: it bears that *)
(* message's number, and so does a future that was completed with it.      *)
Genuine(r) == r.by \in 1..pushed /\ r.seq = req[r.by].seq /\ freed[r.by] > 0

PortInv == NoUnderrun =>
    /\ \A i \in Isolates : \A k \in 1..Len(port[i]) : Genuine(port[i][k])
    /\ \A t \in Task : result[t].val # "none"
                       => /\ result[t].by \in 1..pushed
                          /\ req[result[t].by].seq = req[t].seq

LEMMA PortInit == Init => PortInv
BY DEF Init, PoolInit, PortInv, NoResult

(* Steps after which every port has only entries it had before.            *)
LEMMA PortKept ==
    ASSUME DataTypes, SeqInv, PortInv, NoUnderrun, pushed' >= pushed, pushed' \in Nat,
           \A t \in 1..pushed : req'[t] = req[t] /\ freed'[t] >= freed[t],
           freed' \in [Task -> Nat],
           \A i \in Isolates : \A k \in 1..Len(port'[i]) :
              \E l \in 1..Len(port[i]) : port'[i][k] = port[i][l],
           \A t \in Task : result'[t].val # "none" =>
              \/ UNCHANGED result[t]
              \/ /\ t \in 1..pushed
                 /\ \E r : Genuine(r) /\ result'[t].by = r.by /\ req[t].seq = r.seq
    PROVE  PortInv'
<1>1. ASSUME NEW r, Genuine(r)
      PROVE  r.by \in 1..pushed' /\ r.seq = req'[r.by].seq /\ freed'[r.by] > 0
  <2>1. r.by \in 1..pushed /\ r.by \in 1..pushed' /\ r.by \in Task
    BY <1>1, PoolAssumption DEF PoolAssumption, Genuine, DataTypes, Task
  <2>2. freed[r.by] \in Nat /\ freed'[r.by] \in Nat
    BY <2>1 DEF DataTypes
  <2>3. QED
    BY <1>1, <2>1, <2>2 DEF Genuine
<1>2. ASSUME NEW i \in Isolates, NEW k \in 1..Len(port'[i]) PROVE Genuine(port[i][k])'
  <2>1. PICK l \in 1..Len(port[i]) : port'[i][k] = port[i][l]
    OBVIOUS
  <2>2. Genuine(port[i][l])
    BY DEF PortInv
  <2>3. QED
    BY <1>1, <2>1, <2>2 DEF Genuine
<1>3. ASSUME NEW t \in Task, result'[t].val # "none"
      PROVE  result'[t].by \in 1..pushed' /\ req'[result'[t].by].seq = req'[t].seq
  <2>1. result'[t].by \in 1..pushed /\ req[result'[t].by].seq = req[t].seq /\ t \in 1..pushed
    <3>1. CASE UNCHANGED result[t]
      BY <1>3, <3>1 DEF PortInv, SeqInv
    <3>2. CASE ~UNCHANGED result[t]
      BY <1>3, <3>2 DEF Genuine
    <3>3. QED
      BY <3>1, <3>2
  <2>2. QED
    BY <2>1 DEF DataTypes
<1>4. QED
  BY <1>2, <1>3 DEF PortInv

LEMMA TailElements ==
    ASSUME NEW S, NEW q \in Seq(S), q # << >>
    PROVE  /\ 1 \in 1..Len(q) /\ Head(q) = q[1] /\ Len(Tail(q)) = Len(q) - 1
           /\ \A k \in 1..Len(Tail(q)) : k + 1 \in 1..Len(q) /\ Tail(q)[k] = q[k + 1]
OBVIOUS

LEMMA AppendElements ==
    ASSUME NEW S, NEW q \in Seq(S), NEW e \in S
    PROVE  /\ Len(Append(q, e)) = Len(q) + 1 /\ Append(q, e)[Len(q) + 1] = e
           /\ \A k \in 1..Len(q) : Append(q, e)[k] = q[k]
           /\ \A k \in 1..Len(Append(q, e)) : k \in 1..Len(q) \/ k = Len(q) + 1
OBVIOUS

(* The port that onReply leaves behind.                                    *)
LEMMA Popped ==
    ASSUME DataTypes, NEW i \in Isolates, OnReply(i) \/ OnReplyThrows(i)
    PROVE  /\ 1 \in 1..Len(port[i]) /\ Head(port[i]) = port[i][1]
           /\ \A j \in Isolates : j # i => port'[j] = port[j]
           /\ Len(port'[i]) = Len(port[i]) - 1
           /\ \A k \in 1..Len(port'[i]) :
                 k + 1 \in 1..Len(port[i]) /\ port'[i][k] = port[i][k + 1]
<1>1. port[i] \in Seq(Reply) /\ port[i] # << >>
  BY DEF DataTypes, OnReply, OnReplyThrows, Complete
<1>2. port' = [port EXCEPT ![i] = Tail(@)]
  BY DEF OnReply, OnReplyThrows, Complete
<1>3. port'[i] = Tail(port[i]) /\ \A j \in Isolates : j # i => port'[j] = port[j]
  BY <1>2 DEF DataTypes
<1>4. QED
  BY <1>1, <1>3, TailElements

LEMMA PortStep ==
    ASSUME DataTypes, DataTypes', SeqInv, PortInv, Shaped, NoUnderrun, NoUnderrun'
    PROVE  PortInv'
<1> USE PoolAssumption DEF PoolAssumption
<1>0. pushed \in Nat /\ pushed' \in Nat /\ freed' \in [Task -> Nat] /\ freed \in [Task -> Nat]
      /\ 1..pushed \subseteq Task
  BY DEF DataTypes, Task
<1> DEFINE Same == \A i \in Isolates : \A k \in 1..Len(port'[i]) :
                      \E l \in 1..Len(port[i]) : port'[i][k] = port[i][l]
<1>1. ASSUME UNCHANGED <<req, freed, pushed, result>>, Same PROVE PortInv'
  BY <1>0, <1>1, PortKept
<1>2. CASE Quiet
  BY <1>1, <1>2 DEF Quiet, dartVars
<1>3. ASSUME NEW t \in Known, NEW val \in {"data", "null"}, Replying(t, val)
      PROVE  PortInv'
  <2>1. t \in 1..pushed /\ UNCHANGED <<req, pushed, result>>
    BY <1>3 DEF Replying, dartVars
  <2>2. \A u \in Task : freed'[u] = IF u = t THEN freed[u] + 1 ELSE freed[u]
    BY <1>3, <2>1, Posts DEF Frees
  <2>3. PICK s \in Nat, v \in Val :
           /\ s = req[t].seq /\ Entry(t, s, v) \in Reply
           /\ port' = [i \in Isolates |-> IF i = replyPort /\ ipc[i] # "dead"
                                          THEN Append(port[i], Entry(t, s, v)) ELSE port[i]]
    BY <1>3, <2>1, Posts
  <2>4. \A r : Genuine(r) => /\ r.by \in 1..pushed' /\ r.seq = req'[r.by].seq
                             /\ freed'[r.by] > 0
    BY <1>0, <2>1, <2>2 DEF Genuine
  <2>5. /\ Entry(t, s, v).by \in 1..pushed' /\ Entry(t, s, v).seq = req'[t].seq
        /\ Entry(t, s, v).by = t /\ freed'[t] > 0
    BY <1>0, <2>1, <2>2, <2>3 DEF Entry
  <2>6. ASSUME NEW i \in Isolates, NEW k \in 1..Len(port'[i]) PROVE Genuine(port[i][k])'
    <3>1. port[i] \in Seq(Reply)
      BY DEF DataTypes
    <3>2. CASE port'[i] = port[i]
      BY <2>4, <2>6, <3>2 DEF PortInv, Genuine
    <3>3. CASE port'[i] = Append(port[i], Entry(t, s, v))
      <4>1. (k \in 1..Len(port[i]) /\ port'[i][k] = port[i][k]) \/ port'[i][k] = Entry(t, s, v)
        BY <2>3, <2>6, <3>1, <3>3, AppendElements
      <4>2. CASE k \in 1..Len(port[i]) /\ port'[i][k] = port[i][k]
        BY <2>4, <4>2 DEF PortInv, Genuine
      <4>3. CASE port'[i][k] = Entry(t, s, v)
        BY <2>5, <4>3 DEF Genuine
      <4>4. QED
        BY <4>1, <4>2, <4>3
    <3>4. QED
      BY <2>3, <3>2, <3>3
  <2>7. QED
    BY <2>1, <2>6 DEF PortInv
<1>4. ASSUME NEW i \in Isolates, OnReply(i) PROVE PortInv'
  <2>1. Same
    BY <1>4, Popped
  <2>2. UNCHANGED <<req, freed, pushed>>
    BY <1>4 DEF OnReply, Complete, poolVars
  <2>3. Genuine(Head(port[i]))
    BY <1>4, Popped DEF PortInv
  <2>4. ASSUME NEW t \in Task, ~UNCHANGED result[t]
        PROVE  /\ t \in 1..pushed /\ result'[t].by = Head(port[i]).by
               /\ req[t].seq = Head(port[i]).seq
    <3>1. t \in Answered(i)
      BY <1>4, <2>4 DEF OnReply, Complete
    <3>2. result'[t] = [by |-> Head(port[i]).by, val |-> Head(port[i]).val]
      BY <1>4, <3>1 DEF OnReply, Complete
    <3>3. t \in waiting /\ req[t].seq = Head(port[i]).seq
      BY <1>4, <3>1 DEF OnReply, Complete, Answered, Completers
    <3>4. waiting \subseteq 1..pushed
      BY DEF DataTypes
    <3>5. QED
      BY <3>2, <3>3, <3>4
  <2>5. QED
    BY <1>0, <2>1, <2>2, <2>3, <2>4, PortKept
<1>4a. ASSUME NEW i \in Isolates, OnReplyThrows(i) PROVE PortInv'
  <2>1. Same
    BY <1>4a, Popped
  <2>2. QED
    BY <1>1, <1>4a, <2>1 DEF OnReplyThrows, poolVars
<1>5. ASSUME NEW i \in Isolates, Shutdown(i) PROVE PortInv'
  <2>1. port' = [port EXCEPT ![i] = << >>]
    BY <1>5 DEF Shutdown
  <2>2. \A j \in Isolates : port'[j] = IF j = i THEN << >> ELSE port[j]
    BY <2>1 DEF DataTypes
  <2>3. Len(<< >>) = 0
    OBVIOUS
  <2>4. Same
    BY <2>2, <2>3
  <2>5. QED
    BY <1>1, <1>5, <2>4 DEF Shutdown, Retire
<1>6. ASSUME NEW i \in Isolates, SendFails(i) PROVE PortInv'
  BY <1>1, <1>6 DEF SendFails, poolVars, nativeVars
<1>7. ASSUME NEW i \in Isolates, NEW c \in Channels, Send(i, c) PROVE PortInv'
  <2>1. /\ pushed' = pushed + 1 /\ \A t \in 1..pushed : req'[t] = req[t]
        /\ UNCHANGED <<port, freed, result>>
    BY <1>7, Records DEF Send, nativeVars
  <2>2. \A t \in 1..pushed : freed'[t] >= freed[t]
    BY <1>0, <2>1
  <2>3. QED
    BY <1>0, <2>1, <2>2, PortKept
<1>8. QED
  BY <1>2, <1>3, <1>4, <1>4a, <1>5, <1>6, <1>7 DEF Shaped, IsolateStep

AnswersInv == PoolTypeOK /\ HandInv /\ FrameInv /\ DataTypes /\ SeqInv /\ PortInv

LEMMA AnswersInvariant == Spec => []AnswersInv
<1> DEFINE Frames == PoolTypeOK /\ HandInv /\ FrameInv
           Data   == DataTypes /\ SeqInv /\ PortInv
<1>1. Init => Data
  BY DataInit, SeqInit, PortInit
<1>2. Frames /\ Data /\ [Next]_vars => Data'
  <2> SUFFICES ASSUME Frames, Data, [Next]_vars PROVE Data'
    OBVIOUS
  <2>1. Shaped /\ DataTypes' /\ SeqInv'
    BY Shape, DataStep, SeqStep
  <2>2. CASE NoUnderrun'
    BY <2>1, <2>2, UnderrunStays, PortStep
  <2>3. CASE ~NoUnderrun'
    BY <2>1, <2>3 DEF PortInv
  <2>4. QED
    BY <2>2, <2>3
<1>3. Frames /\ Data => AnswersInv
  BY DEF AnswersInv
<1>4. QED
  BY <1>1, <1>2, <1>3, FrameInvariant, PTL DEF Spec

(* Two messages of one isolate are never confused, whatever the number of  *)
(* isolates and workers, the order of the answers and the handlers.        *)
THEOREM OnlyForeignAnswers == Spec => []ForeignAnswersOnly
<1>1. AnswersInv => ForeignAnswersOnly
  BY DEF AnswersInv, SeqInv, PortInv, ForeignAnswersOnly
<1>2. QED
  BY <1>1, AnswersInvariant, PTL

-----------------------------------------------------------------------------
(***************************************************************************)
(* What careless handlers can do: a task that a worker is still busy with  *)
(* was answered through its Reply at most; the messenger answers past the  *)
(* Reply when it leaves, and leaves once.                                  *)
(***************************************************************************)
Through(t) == IF t \in done THEN 1 ELSE 0

BusyWith(w, t) == frame[w] # "out" /\ hand[w] = t

TwiceInv ==
    /\ \A t \in Task : freed[t] <= Through(t) + 1
    /\ \A t \in Task : t > popped => freed[t] = 0 /\ t \notin done /\ t \notin held
    /\ \A w \in Workers, t \in Task : BusyWith(w, t) => freed[t] <= Through(t)

(* What no step does: it takes up only a task that nobody has taken before.*)
Onward == /\ popped' >= popped
          /\ \A w \in Workers, t \in Task : BusyWith(w, t)' => BusyWith(w, t) \/ t > popped
          /\ \A t \in Task : t \in held' => t \in held \/ t <= popped

LEMMA OnwardStep == ASSUME AnswersInv, [Next]_vars PROVE Onward
<1> USE DEF AnswersInv, PoolTypeOK, HandInv, BusyWith, Onward
<1>0. ASSUME UNCHANGED <<popped, hand, frame, held>> PROVE Onward
  BY <1>0
<1>1. ASSUME NEW i \in Isolates, InitializeChannel(i) \/ Notify(i) \/ IsolateStep(i)
      PROVE  Onward
  BY <1>0, <1>1 DEF InitializeChannel, StartWorkers, Notify, NotifyOne, IsolateStep, OnReply, OnReplyThrows,
     Complete, Shutdown, Retire, SendFails, Send, Push, poolVars, nativeVars, kotlinVars
<1>2. ASSUME NEW w \in Workers, Wait(w) \/ Wake(w) PROVE Onward
  BY <1>0, <1>2 DEF Wait, TestPredicate, Block, Wake, SpuriousWake, kotlinVars
<1>3. ASSUME NEW w \in Workers, Pop(w) PROVE Onward
  <2>1. /\ popped' = popped + 1 /\ held' = held
        /\ hand' = [hand EXCEPT ![w] = IF popped < pushed THEN popped + 1
                                                          ELSE MaxTasks + underruns + 1]
        /\ frame' = [frame EXCEPT ![w] = "lookup"]
    BY <1>3 DEF Pop, Take
  <2>2. ASSUME NEW t \in Task, BusyWith(w, t)' PROVE t > popped
    BY <2>1, <2>2, PoolAssumption DEF PoolAssumption, Task, NoTask
  <2>3. ASSUME NEW v \in Workers \ {w}, NEW t \in Task, BusyWith(v, t)' PROVE BusyWith(v, t)
    BY <2>1, <2>3 DEF FrameInv
  <2>4. QED
    BY <2>1, <2>2, <2>3
<1>4. ASSUME NEW w \in Workers, Leave(w) PROVE popped' = popped /\ \A v \in Workers, t \in Task :
                                                   BusyWith(v, t)' => BusyWith(v, t)
  BY <1>4 DEF Leave, Return, Task, NoTask, FrameInv
<1>5. ASSUME NEW w \in Workers, InCall(w) PROVE Onward
  <2>1. CASE NoHandler(w) \/ DecodeFails(w) \/ HandlerReturns(w) \/ MethodChannelCatches(w)
             \/ MessengerCatches(w)
    BY <1>4, <2>1 DEF NoHandler, DecodeFails, HandlerReturns, MethodChannelCatches,
       MessengerCatches
  <2>2. CASE CallHandler(w)
    BY <2>2 DEF CallHandler, poolVars, FrameInv
  <2>3. CASE HandlerDefers(w)
    <3>1. hand[w] \in Task => hand[w] <= popped
      BY PoolAssumption DEF PoolAssumption, Task
    <3>2. QED
      BY <2>3, <3>1 DEF HandlerDefers, poolVars
  <2>4. CASE HandlerThrows(w)
    <3>1. /\ frame[w] # "out" /\ UNCHANGED <<popped, hand, held>>
          /\ \A v \in Workers : v # w => frame'[v] = frame[v]
      BY <2>4 DEF HandlerThrows, poolVars, FrameInv
    <3>2. QED
      BY <3>1
  <2>5. ASSUME NEW val, HandlerAnswers(w, val) PROVE Onward
    <3>1. /\ frame[w] # "out" /\ UNCHANGED <<popped, hand, held>>
          /\ \A v \in Workers : v # w => frame'[v] = frame[v]
      BY <2>5 DEF HandlerAnswers, poolVars, FrameInv
    <3>2. QED
      BY <3>1
  <2>6. QED
    BY <1>5, <2>1, <2>2, <2>3, <2>4, <2>5 DEF InCall, Handler
<1>6. ASSUME NEW t \in Task \union Stray, Answer(t) PROVE Onward
  BY <1>6 DEF Answer, LateReply, poolVars
<1>7. CASE (\E c, present : SetMessageHandler(c, present)) \/ UNCHANGED vars
  BY <1>0, <1>7 DEF SetMessageHandler, vars, poolVars, kotlinVars
<1>8. QED
  BY <1>1, <1>2, <1>3, <1>5, <1>6, <1>7 DEF Next, IsolateStep

(* A step answers nothing, or answers one task that was taken: through its *)
(* Reply, or past it when a worker leaves.                                 *)
AnswersThrough(t) == t \in 1..popped /\ t \notin done /\ done' = done \union {t} /\ Frees(t)

AnswersPast(w, t) == /\ frame[w] # "out" /\ hand[w] = t /\ frame'[w] = "out"
                     /\ UNCHANGED done /\ Frees(t)

LEMMA AnswerKinds ==
    ASSUME AnswersInv, TwiceInv, NoUnderrun, [Next]_vars
    PROVE  \/ UNCHANGED <<freed, done>>
           \/ \E t \in Task : AnswersThrough(t)
           \/ \E w \in Workers : AnswersPast(w, hand[w])
<1> DEFINE Goal == \/ UNCHANGED <<freed, done>>
                   \/ \E t \in Task : AnswersThrough(t)
                   \/ \E w \in Workers : AnswersPast(w, hand[w])
<1>1. ASSUME NEW i \in Isolates, InitializeChannel(i) \/ Notify(i) \/ IsolateStep(i)
      PROVE  UNCHANGED <<freed, done>>
  BY <1>1 DEF InitializeChannel, Notify, IsolateStep, OnReply, OnReplyThrows, Complete, Shutdown, SendFails, Send,
     nativeVars, kotlinVars
<1>2. ASSUME NEW w \in Workers, Wait(w) \/ Wake(w) \/ Pop(w) PROVE UNCHANGED <<freed, done>>
  BY <1>2 DEF Wait, Wake, Pop, nativeVars, kotlinVars
<1>3. ASSUME NEW t \in Task, NEW val, ReplyMessageToDart(t, val) PROVE Frees(t)
  BY <1>3, ReplyFrees DEF Frees, AnswersInv, DataTypes
<1>4. ASSUME NEW w \in Workers, frame[w] # "out"
      PROVE  hand[w] \in Task /\ hand[w] \in 1..popped
  BY <1>4, PoolAssumption DEF PoolAssumption, AnswersInv, PoolTypeOK, HandInv, FrameInv, Task
<1>5. ASSUME NEW w \in Workers, InCall(w) PROVE Goal
  <2>1. ASSUME Leave(w) PROVE frame'[w] = "out"
    BY <2>1 DEF Leave, AnswersInv, FrameInv
  <2>2. CASE NoHandler(w) \/ DecodeFails(w) \/ MessengerCatches(w)
    BY <1>3, <1>4, <2>1, <2>2 DEF NoHandler, DecodeFails, MessengerCatches, AnswersPast
  <2>3. CASE CallHandler(w) \/ HandlerDefers(w) \/ HandlerReturns(w) \/ HandlerThrows(w)
    BY <2>3 DEF CallHandler, HandlerDefers, HandlerReturns, HandlerThrows, nativeVars
  <2>4. CASE MethodChannelCatches(w)
    BY <1>3, <1>4, <2>4 DEF MethodChannelCatches, AnswersThrough
  <2>5. ASSUME NEW val, HandlerAnswers(w, val) PROVE Goal
    BY <1>3, <1>4, <2>5 DEF HandlerAnswers, AnswersThrough, nativeVars
  <2>6. QED
    BY <1>5, <2>2, <2>3, <2>4, <2>5 DEF InCall, Handler
<1>6. ASSUME NEW t \in Task \union Stray, NEW val, LateReply(t, val) PROVE Goal
  <2>1. t \in held /\ t \in Task /\ t \in 1..popped
    BY <1>6, PoolAssumption
    DEF PoolAssumption, LateReply, TwiceInv, AnswersInv, PoolTypeOK, FrameInv, Task
  <2>2. QED
    BY <1>3, <1>6, <2>1 DEF LateReply, AnswersThrough, nativeVars
<1>7. CASE (\E c, present : SetMessageHandler(c, present)) \/ UNCHANGED vars
  BY <1>7 DEF SetMessageHandler, vars, nativeVars, kotlinVars
<1>8. QED
  BY <1>1, <1>2, <1>5, <1>6, <1>7 DEF Next, Answer, IsolateStep

LEMMA TwiceStep ==
    ASSUME AnswersInv, AnswersInv', NoUnderrun, TwiceInv, [Next]_vars
    PROVE  TwiceInv'
<1> USE DEF Through
<1>1. Onward /\ popped \in Nat /\ popped' \in Nat /\ Task \subseteq Nat
  BY OnwardStep DEF AnswersInv, PoolTypeOK, Onward, Task
<1>2. \A t \in Task : freed[t] \in Nat
  BY DEF AnswersInv, DataTypes
<1>3. \A t \in Task : t > popped' => t \notin held'
  BY <1>1 DEF TwiceInv, Onward
<1>4. CASE UNCHANGED <<freed, done>>
  BY <1>1, <1>3, <1>4 DEF TwiceInv, Onward
<1>5. ASSUME NEW t \in Task, AnswersThrough(t) PROVE TwiceInv'
  <2>1. \A u \in Task : u > popped' => freed'[u] = 0 /\ u \notin done'
    BY <1>1, <1>5 DEF AnswersThrough, Frees, TwiceInv, Onward
  <2>2. \A u \in Task : freed'[u] - Through(u)' = freed[u] - Through(u)
    BY <1>2, <1>5 DEF AnswersThrough, Frees
  <2>3. \A u \in Task : u > popped => freed'[u] = 0
    BY <1>1, <1>5 DEF AnswersThrough, Frees, TwiceInv
  <2>4. \A u \in Task : freed'[u] \in Nat
    BY <1>2, <1>5 DEF AnswersThrough, Frees
  <2>5. \A u \in Task : freed'[u] <= Through(u)' + 1
    BY <1>2, <2>2, <2>4 DEF TwiceInv
  <2>6. \A v \in Workers, u \in Task : BusyWith(v, u)' => freed'[u] <= Through(u)'
    BY <1>1, <1>2, <2>2, <2>3, <2>4 DEF TwiceInv, Onward
  <2>7. QED
    BY <1>3, <2>1, <2>5, <2>6 DEF TwiceInv
<1>6. ASSUME NEW w \in Workers, AnswersPast(w, hand[w]) PROVE TwiceInv'
  <2> DEFINE t == hand[w]
  <2>1. \A u \in Task : Through(u)' = Through(u) /\ (u # t => freed'[u] = freed[u])
    BY <1>6 DEF AnswersPast, Frees
  <2>2. t \in Task => freed[t] <= Through(t) /\ freed'[t] = freed[t] + 1 /\ t <= popped
    BY <1>6 DEF AnswersPast, Frees, TwiceInv, BusyWith, AnswersInv, HandInv, Task
  <2>3. \A v \in Workers : v # w /\ hand[v] = t => t \notin Task
    BY DEF AnswersInv, HandInv, NoTask, Task
  <2>4. frame'[w] = "out" /\ UNCHANGED done
    BY <1>6 DEF AnswersPast
  <2> HIDE DEF t
  <2>5. \A u \in Task : freed'[u] <= Through(u)' + 1
    BY <1>2, <2>1, <2>2 DEF TwiceInv
  <2>6. \A u \in Task : u > popped' => freed'[u] = 0 /\ u \notin done'
    BY <1>1, <2>1, <2>2, <2>4 DEF TwiceInv, Onward
  <2>7. ASSUME NEW v \in Workers, NEW u \in Task, BusyWith(v, u)'
        PROVE  freed'[u] <= Through(u)'
    <3>1. v # w
      BY <2>4, <2>7 DEF BusyWith
    <3>2. CASE BusyWith(v, u)
      <4>1. u # t
        BY <2>3, <3>1, <3>2 DEF BusyWith
      <4>2. QED
        BY <2>1, <3>2, <4>1 DEF TwiceInv
    <3>3. CASE u > popped
      <4>1. u # t /\ freed[u] = 0
        BY <1>1, <2>2, <3>3 DEF TwiceInv
      <4>2. QED
        BY <2>1, <4>1
    <3>4. QED
      BY <1>1, <2>7, <3>2, <3>3 DEF Onward
  <2>8. QED
    BY <1>3, <2>5, <2>6, <2>7 DEF TwiceInv
<1>7. QED
  BY <1>4, <1>5, <1>6, AnswerKinds

(* Whatever its handler does, a message is answered, and its memory freed, *)
(* twice at most until an underrun: once through its Reply, whose flag is  *)
(* set then, and once past it by the messenger.                            *)
OnceEachWay ==
    NoUnderrun => \A t \in Task : freed[t] <= 2 /\ (freed[t] = 2 => t \in done)

THEOREM AnsweredTwiceAtMost == Spec => []OnceEachWay
<1>1. Init => TwiceInv
  BY DEF Init, PoolInit, TwiceInv, Through, BusyWith
<1>2. AnswersInv /\ AnswersInv' /\ (NoUnderrun => TwiceInv) /\ [Next]_vars
         => (NoUnderrun => TwiceInv)'
  BY TwiceStep, UnderrunStays DEF AnswersInv
<1>3. AnswersInv /\ (NoUnderrun => TwiceInv) => OnceEachWay
  BY DEF AnswersInv, DataTypes, TwiceInv, Through, OnceEachWay
<1>4. QED
  BY <1>1, <1>2, <1>3, AnswersInvariant, PTL DEF Spec
-----------------------------------------------------------------------------
(* The safety half of TakenIsAnswered.  A message that a worker has taken  *)
(* is answered, or somebody is about to: the worker that is busy with it,  *)
(* or the thread that keeps its Reply.                                     *)
NeverForgotten ==
    NoUnderrun => \A t \in 1..popped : \/ freed[t] > 0 \/ t \in held
                                       \/ \E w \in Workers : BusyWith(w, t)

DoneIsFreed == \A t \in done : freed[t] > 0

LEMMA NeverForgottenStep ==
    ASSUME Contract, AnswersInv, DoneIsFreed, NeverForgotten, [Next]_vars, NoUnderrun, NoUnderrun'
    PROVE  DoneIsFreed' /\ NeverForgotten'
<1> DEFINE Goal == DoneIsFreed' /\ NeverForgotten'
<1>1. /\ popped \in Nat /\ popped <= pushed /\ pushed \in 0..MaxTasks /\ 1..popped \subseteq Task
      /\ done \subseteq Task /\ held \subseteq Task /\ \A t \in Task : freed[t] \in Nat
      /\ frame \in [Workers -> {"out"} \union Inside]
      /\ hand \in [Workers -> AnyTask]
      /\ \A w \in Workers : frame[w] # "out" => hand[w] \in Task
  BY PoolAssumption
  DEF PoolAssumption, AnswersInv, PoolTypeOK, HandInv, FrameInv, DataTypes, NoUnderrun, Task,
      AnyTask
<1>2. ASSUME UNCHANGED <<popped, hand, frame, held, done, freed>> PROVE Goal
  BY <1>2 DEF NeverForgotten, DoneIsFreed, BusyWith
<1>3. ASSUME NEW i \in Isolates, InitializeChannel(i) \/ Notify(i) \/ IsolateStep(i)
      PROVE  Goal
  BY <1>2, <1>3 DEF InitializeChannel, StartWorkers, Notify, NotifyOne, IsolateStep,
     OnReply, OnReplyThrows, Complete, Shutdown, Retire, SendFails, Send, Push, poolVars, nativeVars, kotlinVars
<1>4. ASSUME NEW w \in Workers, Wait(w) \/ Wake(w) PROVE Goal
  BY <1>2, <1>4 DEF Wait, TestPredicate, Block, Wake, SpuriousWake, nativeVars, kotlinVars
<1>5. ASSUME NEW w \in Workers, Pop(w) PROVE Goal
  <2>1. /\ popped' = popped + 1 /\ hand' = [hand EXCEPT ![w] = popped + 1]
        /\ frame' = [frame EXCEPT ![w] = "lookup"] /\ UNCHANGED <<held, done, freed>>
        /\ frame[w] = "out"
    <3>1. popped < pushed
      BY <1>5 DEF Pop, Take, NoUnderrun, AnswersInv, PoolTypeOK
    <3>2. wpc[w] = "take" /\ frame[w] = "out"
      BY <1>1, <1>5 DEF Pop, Take, AnswersInv, FrameInv
    <3>3. QED
      BY <1>5, <3>1, <3>2 DEF Pop, Take, nativeVars
  <2>2. \A t : t = popped + 1 => BusyWith(w, t)'
    BY <1>1, <2>1 DEF BusyWith
  <2>3. ASSUME NEW v \in Workers, NEW t, BusyWith(v, t) PROVE BusyWith(v, t)'
    BY <1>1, <2>1, <2>3 DEF BusyWith
  <2>4. \A t \in 1..popped' : t \in 1..popped \/ t = popped + 1
    BY <1>1, <2>1
  <2>5. ASSUME NEW t \in 1..popped'
        PROVE  freed'[t] > 0 \/ t \in held' \/ \E v \in Workers : BusyWith(v, t)'
    <3>1. CASE t = popped + 1
      BY <2>2, <3>1
    <3>2. CASE t \in 1..popped
      BY <2>1, <2>3, <3>2 DEF NeverForgotten
    <3>3. QED
      BY <2>4, <3>1, <3>2
  <2>6. QED
    BY <2>1, <2>5 DEF NeverForgotten, DoneIsFreed
<1>6. ASSUME NEW t \in Task, NEW val, ReplyMessageToDart(t, val)
      PROVE  \A u \in Task : freed'[u] >= freed[u] /\ (u = t => freed'[u] > 0)
  <2>1. \A u \in Task : freed'[u] = IF u = t THEN freed[u] + 1 ELSE freed[u]
    BY <1>6, ReplyFrees DEF AnswersInv, DataTypes
  <2>2. QED
    BY <1>1, <2>1
(* A step that ends nothing of what was being done, but by answering it.   *)
<1>7. ASSUME popped' = popped,
             \A u \in Task : freed'[u] \in Nat /\ freed'[u] >= freed[u],
             \A u \in done' : u \in done \/ (u \in Task /\ freed'[u] > 0),
             \A u \in held : u \in held' \/ freed'[u] > 0,
             \A w \in Workers, u \in Task :
                BusyWith(w, u) => BusyWith(w, u)' \/ freed'[u] > 0 \/ u \in held'
      PROVE  Goal
  <2>1. ASSUME NEW u \in Task, freed[u] > 0 PROVE freed'[u] > 0
    BY <1>1, <1>7, <2>1
  <2>2. QED
    BY <1>1, <1>7, <2>1 DEF NeverForgotten, DoneIsFreed
<1>8. \A u \in Task : freed'[u] \in Nat
  BY DataStep, Shape DEF AnswersInv, DataTypes
<1>9. ASSUME NEW w \in Workers, UNCHANGED <<popped, hand>>, frame'[w] # "out",
             \A v \in Workers \ {w} : frame'[v] = frame[v]
      PROVE  \A v \in Workers, u \in Task : BusyWith(v, u) => BusyWith(v, u)'
  BY <1>9 DEF BusyWith
<1>10. ASSUME NEW w \in Workers, Leave(w)
       PROVE  /\ popped' = popped
              /\ \A v \in Workers, u \in Task : BusyWith(v, u) /\ u # hand[w] => BusyWith(v, u)'
  BY <1>1, <1>10 DEF Leave, Return, BusyWith
<1>11. ASSUME NEW w \in Workers, InCall(w) PROVE Goal
  <2>1. CASE NoHandler(w) \/ DecodeFails(w) \/ MessengerCatches(w) \/ MethodChannelCatches(w)
    <3>0. hand[w] \in Task
      BY <1>1, <2>1 DEF NoHandler, DecodeFails, MessengerCatches, MethodChannelCatches
    <3>1. PICK val : ReplyMessageToDart(hand[w], val)
      BY <2>1 DEF NoHandler, DecodeFails, MessengerCatches, MethodChannelCatches
    <3>2. Leave(w) /\ held' = held /\ done' \in {done, done \union {hand[w]}}
      BY <2>1 DEF NoHandler, DecodeFails, MessengerCatches, MethodChannelCatches
    <3>4. \A u \in Task : freed'[u] >= freed[u] /\ (u = hand[w] => freed'[u] > 0)
      BY <1>6, <3>0, <3>1
    <3>5. QED
      BY <1>7, <1>8, <1>10, <3>0, <3>2, <3>4
  <2>2. CASE HandlerReturns(w)
    <3>1. /\ Leave(w) /\ UNCHANGED <<freed, done, held>> /\ (hand[w] \in done \/ hand[w] \in held)
      BY <2>2 DEF HandlerReturns, Spoken, nativeVars
    <3>2. hand[w] \in Task => hand[w] \in held' \/ freed'[hand[w]] > 0
      BY <3>1 DEF DoneIsFreed
    <3>3. QED
      BY <1>1, <1>7, <1>8, <1>10, <3>1, <3>2
  <2>3. CASE CallHandler(w) \/ HandlerDefers(w) \/ HandlerThrows(w)
    <3>1. /\ UNCHANGED <<popped, hand, freed, done>> /\ held \subseteq held'
          /\ frame'[w] # "out" /\ \A v \in Workers \ {w} : frame'[v] = frame[v]
      BY <1>1, <2>3 DEF CallHandler, HandlerDefers, HandlerThrows, poolVars, nativeVars
    <3>2. QED
      BY <1>1, <1>7, <1>8, <1>9, <3>1
  <2>4. ASSUME NEW val, HandlerAnswers(w, val) PROVE Goal
    <3>1. /\ UNCHANGED <<popped, hand, held, frame>> /\ done' = done \union {hand[w]}
          /\ ReplyMessageToDart(hand[w], val) /\ frame[w] # "out" /\ hand[w] \in Task
      BY <1>1, <2>4 DEF HandlerAnswers, Spoken, poolVars, AnswersInv, FrameInv
    <3>2. QED
      BY <1>6, <1>7, <1>8, <1>9, <3>1
  <2>5. QED
    BY <1>11, <2>1, <2>2, <2>3, <2>4 DEF InCall, Handler
<1>12. ASSUME NEW t \in Task \union Stray, NEW val, LateReply(t, val) PROVE Goal
  <2>1. UNCHANGED <<popped, hand, frame>> /\ held' = held \ {t} /\ t \in Task
    BY <1>1, <1>12 DEF LateReply, poolVars
  <2>2. \A v \in Workers, u \in Task : BusyWith(v, u) => BusyWith(v, u)'
    BY <2>1 DEF BusyWith
  <2>3. CASE t \in done
    <3>1. UNCHANGED <<done, freed>> /\ freed[t] > 0
      BY <1>12, <2>3 DEF LateReply, nativeVars, DoneIsFreed
    <3>2. QED
      BY <1>1, <1>7, <1>8, <2>1, <2>2, <3>1
  <2>4. CASE t \notin done
    <3>1. done' = done \union {t} /\ ReplyMessageToDart(t, val)
      BY <1>12, <2>4 DEF LateReply
    <3>2. QED
      BY <1>6, <1>7, <1>8, <2>1, <2>2, <3>1
  <2>5. QED
    BY <2>3, <2>4
<1>13. CASE (\E c, present : SetMessageHandler(c, present)) \/ UNCHANGED vars
  BY <1>2, <1>13 DEF SetMessageHandler, vars, poolVars, nativeVars, kotlinVars
<1>14. QED
  BY <1>3, <1>4, <1>5, <1>11, <1>12, <1>13 DEF Next, Answer, IsolateStep

(* If the handlers keep the contract no message that was taken is forgotten*)
(* until an underrun, with any number of workers and isolates.             *)
THEOREM NoneForgotten == ASSUME Contract PROVE Spec => []NeverForgotten
<1> DEFINE Inv == NoUnderrun => DoneIsFreed /\ NeverForgotten
<1>1. Init => Inv
  BY DEF Init, PoolInit, DoneIsFreed, NeverForgotten
<1>2. AnswersInv /\ Inv /\ [Next]_vars => Inv'
  BY NeverForgottenStep, UnderrunStays DEF AnswersInv
<1>3. Inv => NeverForgotten
  BY DEF NeverForgotten
<1>4. QED
  BY <1>1, <1>2, <1>3, AnswersInvariant, PTL DEF Spec
-----------------------------------------------------------------------------
(***************************************************************************)
(* An isolate that is alone.  What follows asks nothing of its handlers:   *)
(* they may answer twice, never, or after they have thrown.                *)
(***************************************************************************)
Alone == \A i, j \in Isolates : i = j

(* An isolate that is alone gets the answers to its own messages, whatever *)
(* their order.                                                            *)
THEOREM AloneAnswersMatch == ASSUME Alone PROVE Spec => []AnswersMatch
<1>1. AnswersInv => AnswersMatch
  BY DEF AnswersInv, SeqInv, PortInv, AnswersMatch, Alone
<1>2. QED
  BY <1>1, AnswersInvariant, PTL

(* The number that a failed send has used up is on no reply to an isolate  *)
(* that is alone, so that the completer it left behind is never completed. *)
THEOREM AloneFailedSendsUnanswered == ASSUME Alone PROVE Spec => []FailedSendsUnanswered
<1>1. AnswersInv => FailedSendsUnanswered
  <2> SUFFICES ASSUME AnswersInv, NoUnderrun, NEW i \in Isolates, NEW k \in DOMAIN port[i],
                      [iso |-> i, seq |-> port[i][k].seq] \in orphans
               PROVE  FALSE
    BY DEF FailedSendsUnanswered
  <2> DEFINE r == port[i][k]
  <2>1. k \in 1..Len(port[i])
    BY DEF AnswersInv, DataTypes
  <2>2. r.by \in 1..pushed /\ r.seq = req[r.by].seq
    BY <2>1 DEF AnswersInv, PortInv, Genuine
  <2>3. req[r.by].iso = i
    BY <2>2 DEF AnswersInv, SeqInv, Alone
  <2>4. QED
    BY <2>2, <2>3 DEF AnswersInv, SeqInv
<1>2. QED
  BY <1>1, AnswersInvariant, PTL

(* onReply looks up the completer of the message that was answered, if it  *)
(* is still waiting, and no other.                                         *)
LEMMA CompletesItsOwn ==
    ASSUME Alone, AnswersInv, NoUnderrun, NEW i \in Isolates,
           OnReply(i) \/ OnReplyThrows(i)
    PROVE  /\ Genuine(Head(port[i]))
           /\ Answered(i) = waiting \intersect {Head(port[i]).by}
<1> DEFINE r == Head(port[i])
<1>1. 1 \in 1..Len(port[i]) /\ r = port[i][1] /\ port[i] # << >>
  BY Popped DEF AnswersInv, OnReply, OnReplyThrows, Complete
<1>2. Genuine(r)
  BY <1>1 DEF AnswersInv, PortInv
<1>3. req[r.by].iso = i
  BY <1>2 DEF Genuine, AnswersInv, SeqInv, Alone
<1>4. Answered(i) = {t \in waiting : req[t].iso = i /\ req[t].seq = r.seq}
  BY <1>1 DEF Answered, Completers
<1>5. \A t \in Answered(i) : t = r.by
  BY <1>2, <1>3, <1>4 DEF Genuine, AnswersInv, SeqInv, DataTypes
<1>6. QED
  BY <1>2, <1>3, <1>4, <1>5 DEF Genuine
-----------------------------------------------------------------------------
(***************************************************************************)
(* The refinement of RequestReply.  A step of the messenger changes the    *)
(* futures and the answers as one abstract action does, or not at all.     *)
(***************************************************************************)
Futures == [t \in Task |-> FutureOf(t)]
Replies == {t \in Task : freed[t] > 0}

LEMMA FutureStates ==
    ASSUME AnswersInv, NEW t \in Task
    PROVE  /\ FutureOf(t) = "none" <=> t \notin 1..pushed
           /\ FutureOf(t) = "pending" <=> t \in waiting
           /\ t \in waiting => t \in 1..pushed /\ result[t].val = "none"
           /\ FutureOf(t) = "completed" <=> result[t].val # "none"
BY DEF FutureOf, AnswersInv, DataTypes, SeqInv, Task

LEMMA FuturesKept ==
    ASSUME UNCHANGED <<pushed, waiting, result>>
    PROVE  UNCHANGED Futures
BY DEF Futures, FutureOf

LEMMA RefinesAnswer ==
    ASSUME AnswersInv, NoUnderrun,
           NEW t \in Known, NEW val \in {"data", "null"}, Replying(t, val)
    PROVE  /\ t \in Task /\ Futures[t] # "none"
           /\ UNCHANGED Futures /\ Replies' = Replies \union {t}
<1>1. t \in 1..pushed /\ t \in Task /\ UNCHANGED Futures
  BY PoolAssumption, FuturesKept
  DEF PoolAssumption, Replying, dartVars, AnswersInv, DataTypes, Task, NoTask
<1>2. \A u \in Task : freed'[u] = IF u = t THEN freed[u] + 1 ELSE freed[u]
  BY <1>1, Posts DEF AnswersInv, Frees
<1>3. \A u \in Task : freed[u] \in Nat
  BY DEF AnswersInv, DataTypes
<1>4. \A u \in Task : freed'[u] > 0 <=> freed[u] > 0 \/ u = t
  BY <1>2, <1>3
<1>5. Replies' = Replies \union {t}
  BY <1>1, <1>4 DEF Replies
<1>6. Futures[t] # "none"
  BY <1>1, FutureStates DEF Futures
<1>7. QED
  BY <1>1, <1>5, <1>6

LEMMA RefinesComplete ==
    ASSUME Alone, AnswersInv, NoUnderrun, NEW i \in Isolates, OnReply(i)
    PROVE  /\ UNCHANGED Replies
           /\ \/ UNCHANGED Futures
              \/ \E t \in Replies : /\ Futures[t] = "pending"
                                    /\ Futures' = [Futures EXCEPT ![t] = "completed"]
<1>1. waiting \subseteq 1..pushed /\ 1..pushed \subseteq Task /\ pushed \in Nat
  BY PoolAssumption DEF PoolAssumption, AnswersInv, DataTypes, Task
<1>2. PICK r \in Reply : r = Head(port[i])
  <2>1. port[i] \in Seq(Reply) /\ port[i] # << >>
    BY DEF AnswersInv, DataTypes, OnReply, Complete
  <2>2. QED
    BY <2>1
<1>3. Genuine(r) /\ Answered(i) = waiting \intersect {r.by} /\ r.val \in Val
  BY <1>2, CompletesItsOwn DEF Reply
<1>4. /\ waiting' = waiting \ {r.by} /\ UNCHANGED <<pushed, freed>>
      /\ \A t \in Task : result'[t] = IF t \in waiting /\ t = r.by
                                      THEN [by |-> r.by, val |-> r.val] ELSE result[t]
  BY <1>2, <1>3 DEF OnReply, Complete, poolVars
<1>5. UNCHANGED Replies
  BY <1>4 DEF Replies
<1>6. CASE r.by \notin waiting
  <2>1. \A t \in Task : FutureOf(t)' = FutureOf(t)
    BY <1>4, <1>6 DEF FutureOf
  <2>2. QED
    BY <1>5, <2>1 DEF Futures
<1>7. CASE r.by \in waiting
  <2>1. PICK b \in Task : b = r.by
    BY <1>1, <1>7
  <2>2. ASSUME NEW t \in Task, t # b PROVE FutureOf(t)' = FutureOf(t)
    BY <1>4, <2>1, <2>2 DEF FutureOf
  <2>3. FutureOf(b)' = "completed"
    <3>1. result'[b].val # "none" /\ b \notin waiting'
      BY <1>3, <1>4, <1>7, <2>1 DEF Val
    <3>2. b \in 1..pushed'
      BY <1>1, <1>4, <1>7, <2>1
    <3>3. QED
      BY <1>1, <1>4, <3>1, <3>2 DEF FutureOf
  <2>4. Futures[b] = "pending" /\ b \in Replies
    BY <1>3, <1>7, <2>1, FutureStates DEF Futures, Replies, Genuine
  <2>5. Futures' = [Futures EXCEPT ![b] = "completed"]
    BY <2>2, <2>3 DEF Futures
  <2>6. QED
    BY <1>5, <2>4, <2>5
<1>8. QED
  BY <1>6, <1>7

LEMMA RefinesAbandon ==
    ASSUME Alone, AnswersInv, NEW i \in Isolates, Shutdown(i)
    PROVE  /\ waiting \subseteq Task
           /\ \A t \in waiting : Futures[t] = "pending"
           /\ Futures' = [t \in Task |-> IF t \in waiting THEN "abandoned" ELSE Futures[t]]
           /\ UNCHANGED Replies
<1>1. /\ waiting' = {t \in waiting : req[t].iso # i} /\ UNCHANGED <<pushed, result, freed>>
  BY DEF Shutdown, Retire
<1>2. waiting \subseteq 1..pushed /\ waiting \subseteq Task
  BY PoolAssumption DEF PoolAssumption, AnswersInv, DataTypes, Task
<1>3. waiting' = {}
  BY <1>1, <1>2 DEF AnswersInv, SeqInv, Alone
<1>4. \A t \in waiting : Futures[t] = "pending" /\ FutureOf(t)' = "abandoned"
  <2>1. \A t \in waiting : ~(t > pushed) /\ result[t].val = "none"
    BY <1>2, FutureStates DEF AnswersInv, DataTypes
  <2>2. QED
    BY <1>1, <1>2, <1>3, <2>1 DEF Futures, FutureOf
<1>5. \A t \in Task \ waiting : FutureOf(t)' = FutureOf(t)
  BY <1>1, <1>3 DEF FutureOf
<1>6. QED
  BY <1>1, <1>2, <1>4, <1>5 DEF Futures, Replies

LEMMA RefinesAsk ==
    ASSUME AnswersInv, NEW i \in Isolates, NEW c \in Channels, Send(i, c)
    PROVE  \E t \in Task : /\ Futures[t] = "none"
                           /\ Futures' = [Futures EXCEPT ![t] = "pending"]
                           /\ UNCHANGED Replies
<1>1. /\ pushed' = pushed + 1 /\ pushed \in Nat /\ pushed' \in Task
      /\ waiting' = waiting \union {pushed'} /\ UNCHANGED <<result, freed>>
  BY PoolAssumption
  DEF PoolAssumption, Send, Push, nativeVars, AnswersInv, DataTypes, Task
<1>2. waiting \subseteq 1..pushed
  BY DEF AnswersInv, DataTypes
<1>3. FutureOf(pushed') = "none"
  BY <1>1 DEF FutureOf
<1>4. \A t \in Task : FutureOf(t)' = IF t = pushed + 1 THEN "pending" ELSE FutureOf(t)
  BY <1>1, <1>2 DEF FutureOf, Task
<1>5. Futures[pushed'] = "none" /\ Futures' = [Futures EXCEPT ![pushed'] = "pending"]
  BY <1>1, <1>3, <1>4 DEF Futures
<1>6. QED
  BY <1>1, <1>5 DEF Replies

LEMMA RefinementStep ==
    ASSUME Alone, AnswersInv, Shaped, NoUnderrun
    PROVE  [RR!Next]_(RR!vars)
<1> USE DEF RR!Next, RR!vars, Futures, Replies
<1>1. CASE Quiet
  BY <1>1, FuturesKept DEF Quiet, dartVars
<1>2. ASSUME NEW t \in Known, NEW val \in {"data", "null"}, Replying(t, val)
      PROVE  RR!Next \/ UNCHANGED RR!vars
  <2>1. CASE t \in Replies
    BY <1>2, <2>1, RefinesAnswer
  <2>2. CASE t \notin Replies
    BY <1>2, <2>2, RefinesAnswer DEF RR!Answer
  <2>3. QED
    BY <2>1, <2>2
<1>3. ASSUME NEW i \in Isolates, OnReply(i) PROVE RR!Next \/ UNCHANGED RR!vars
  BY <1>3, RefinesComplete DEF RR!Complete
<1>3a. ASSUME NEW i \in Isolates, OnReplyThrows(i) PROVE UNCHANGED RR!vars
  BY <1>3a, FuturesKept DEF OnReplyThrows, poolVars
<1>4. ASSUME NEW i \in Isolates, Shutdown(i) PROVE RR!Next
  BY <1>4, RefinesAbandon DEF RR!Abandon
<1>5. ASSUME NEW i \in Isolates, SendFails(i) PROVE UNCHANGED RR!vars
  BY <1>5, FuturesKept DEF SendFails, poolVars, nativeVars
<1>6. ASSUME NEW i \in Isolates, NEW c \in Channels, Send(i, c) PROVE RR!Next
  BY <1>6, RefinesAsk DEF RR!Ask
<1>7. QED
  BY <1>1, <1>2, <1>3, <1>3a, <1>4, <1>5, <1>6 DEF Shaped, IsolateStep

LEMMA RefinementInit == Init => RR!Init
<1> SUFFICES ASSUME Init PROVE RR!Init
  OBVIOUS
<1>1. \A t \in Task : FutureOf(t) = "none"
  BY DEF Init, PoolInit, FutureOf, Task
<1>2. {t \in Task : freed[t] > 0} = {}
  BY DEF Init
<1>3. QED
  BY <1>1, <1>2 DEF RR!Init

(* The concurrent channel implements request and reply for an isolate that *)
(* is alone, whatever its handlers do, up to the first pop of an empty     *)
(* queue: a second answer to a message is a reply that completes nothing.  *)
THEOREM AloneImplementsRequestReply ==
    ASSUME Alone
    PROVE  Spec => RR!Init /\ RepliesUntilUnderrun
<1>1. AnswersInv /\ [Next]_vars => [NoUnderrun' => [RR!Next]_(RR!vars)]_vars
  BY Shape, UnderrunStays, RefinementStep DEF AnswersInv
<1>2. QED
  BY <1>1, RefinementInit, AnswersInvariant, PTL DEF Spec, RepliesUntilUnderrun

(* What the refinement is worth: until an underrun no future of an isolate *)
(* that is alone is completed before its own message was answered.  The    *)
(* step is argued of RequestReply, and not of the messenger.               *)
AnsweredFirst == NoUnderrun => \A t \in Task : FutureOf(t) = "completed" => freed[t] > 0

THEOREM AloneAnsweredFirst == ASSUME Alone PROVE Spec => []AnsweredFirst
<1> DEFINE P == \A t \in Task : Futures[t] = "completed" => t \in Replies
<1>1. P <=> \A t \in Task : FutureOf(t) = "completed" => freed[t] > 0
  BY DEF Futures, Replies
<1>2. P' <=> (\A t \in Task : FutureOf(t) = "completed" => freed[t] > 0)'
  BY DEF Futures, Replies
<1>3. RR!Init => P
  BY DEF RR!Init, Futures
<1>4. ASSUME P, [RR!Next]_(RR!vars) PROVE P'
  <2> DEFINE F == Futures
             A == Replies
  <2>1. \/ \E r \in Task : /\ F' \in {[F EXCEPT ![r] = "pending"], F}
                             /\ A \subseteq A'
        \/ \E r \in A : F' = [F EXCEPT ![r] = "completed"] /\ A' = A
        \/ \E R \in SUBSET Task :
              F' = [t \in Task |-> IF t \in R THEN "abandoned" ELSE F[t]] /\ A' = A
        \/ F' = F /\ A' = A
    BY <1>4 DEF RR!Next, RR!vars, RR!Ask, RR!Answer, RR!Complete, RR!Abandon, Futures, Replies
  <2>2. F = [t \in Task |-> F[t]]
    BY DEF Futures
  <2>3. \A t \in Task : F[t] = "completed" => t \in A
    BY <1>4
  <2> HIDE DEF F, A
  <2>4. \A t \in Task : F'[t] = "completed" => t \in A'
    BY <2>1, <2>2, <2>3
  <2>5. QED
    BY <2>4 DEF F, A
<1> HIDE DEF P
<1>5. AnswersInv /\ AnsweredFirst /\ [Next]_vars => AnsweredFirst'
  BY <1>1, <1>2, <1>4, Shape, UnderrunStays, RefinementStep DEF AnswersInv, AnsweredFirst
<1>6. Init => AnsweredFirst
  BY <1>1, <1>3, RefinementInit DEF AnsweredFirst
<1>7. QED
  BY <1>5, <1>6, AnswersInvariant, PTL DEF Spec
-----------------------------------------------------------------------------
(***************************************************************************)
(* The count of queued replies.  What is answered while it waits has each  *)
(* answer on the port, because replyPort_ names the one isolate from the   *)
(* moment that it can send, and onReply takes away the first of them only  *)
(* with the completer, unless it throws.                                   *)
(***************************************************************************)
PortSet == \A i \in Isolates : ipc[i] # "new" => replyPort \in Isolates

LEMMA PortSetStep ==
    ASSUME PoolTypeOK, HandInv, FrameInv, PortSet, [Next]_vars
    PROVE  PortSet'
<1>1. replyPort' \in {replyPort} \union Isolates
  BY Shape
<1>2. ASSUME NEW i \in Isolates, InitializeChannel(i) PROVE PortSet'
  BY <1>2 DEF InitializeChannel, PortSet
<1>3. CASE \A i \in Isolates : ~InitializeChannel(i)
  <2>1. \A j \in Isolates : ipc[j] = "new" => ipc'[j] = "new"
    <3> USE DEF PoolTypeOK
    <3>1. ASSUME NEW i \in Isolates, Notify(i) \/ IsolateStep(i)
          PROVE  \A j \in Isolates : ipc[j] = "new" => ipc'[j] = "new"
      BY <3>1 DEF Notify, NotifyOne, IsolateStep, OnReply, OnReplyThrows, Complete, Shutdown, Retire,
         SendFails, Send, Push, poolVars
    <3>2. ASSUME NEW w \in Workers, Wait(w) \/ Wake(w) \/ Pop(w) \/ InCall(w)
          PROVE  UNCHANGED ipc
      BY <3>2 DEF Wait, TestPredicate, Block, Wake, SpuriousWake, Pop, Take, InCall,
         CallHandler, NoHandler, DecodeFails, Handler, HandlerAnswers, HandlerDefers,
         HandlerReturns, HandlerThrows, MethodChannelCatches, MessengerCatches, Leave, Return,
         poolVars
    <3>3. CASE \/ \E t \in Task \union Stray : Answer(t)
               \/ \E c \in Channels, present \in BOOLEAN : SetMessageHandler(c, present)
               \/ UNCHANGED vars
      BY <3>3 DEF Answer, LateReply, SetMessageHandler, vars, poolVars
    <3>4. QED
      BY <1>3, <3>1, <3>2, <3>3 DEF Next, IsolateStep
  <2>2. QED
    BY <1>1, <2>1 DEF PortSet
<1>4. QED
  BY <1>2, <1>3

(* A channel that has been initialised never becomes new again.            *)
LEMMA NewNoMore ==
    ASSUME PoolTypeOK, [Next]_vars
    PROVE  \A i \in Isolates : ipc[i] # "new" => ipc'[i] # "new"
<1>1. [PoolNext]_poolVars
  BY MessengerStep
<1>2. QED
  BY <1>1 DEF PoolNext, PoolTypeOK, poolVars, StartWorkers, Push, NotifyOne, Retire,
     TestPredicate, Block, SpuriousWake, Take, Return

AnswersTo(t, q) == {k \in 1..Len(q) : q[k].by = t}

LEMMA AnswersFinite ==
    ASSUME NEW t, NEW q \in Seq(Reply)
    PROVE  IsFiniteSet(AnswersTo(t, q)) /\ Cardinality(AnswersTo(t, q)) \in Nat
<1>1. IsFiniteSet(1..Len(q))
  BY FS_Interval
<1>2. AnswersTo(t, q) \in SUBSET (1..Len(q))
  BY DEF AnswersTo
<1>3. IsFiniteSet(AnswersTo(t, q))
  BY <1>1, <1>2, FS_Subset
<1>4. QED
  BY <1>3, FS_CardinalityType

(* An answer that is appended counts for its own message only.             *)
LEMMA AnswersAppended ==
    ASSUME NEW t, NEW q \in Seq(Reply), NEW e \in Reply
    PROVE  Cardinality(AnswersTo(t, Append(q, e))) =
              IF t = e.by THEN Cardinality(AnswersTo(t, q)) + 1 ELSE Cardinality(AnswersTo(t, q))
<1> DEFINE n == Len(q) + 1
           A == AnswersTo(t, q)
           B == AnswersTo(t, Append(q, e))
<1>1. /\ Len(Append(q, e)) = n /\ Append(q, e)[n] = e /\ Len(q) \in Nat
      /\ \A k \in 1..Len(q) : Append(q, e)[k] = q[k]
  BY AppendElements
<1>2. \A k : k \in 1..n <=> k \in 1..Len(q) \/ k = n
  BY <1>1
<1>3. n \notin A
  BY <1>1 DEF AnswersTo
<1>4. \A k : k \in B <=> k \in A \/ (k = n /\ t = e.by)
  BY <1>1, <1>2 DEF AnswersTo
<1>5. IsFiniteSet(A)
  BY AnswersFinite
<1> HIDE DEF A, B, n
<1>6. CASE t = e.by
  <2>1. B = A \union {n}
    BY <1>4, <1>6
  <2>2. Cardinality(B) = Cardinality(A) + 1
    BY <1>3, <1>5, <2>1, FS_AddElement
  <2>3. QED
    BY <1>6, <2>2 DEF A, B
<1>7. CASE t # e.by
  <2>1. B = A
    BY <1>4, <1>7
  <2>2. QED
    BY <1>7, <2>1 DEF A, B
<1>8. QED
  BY <1>6, <1>7

(* Taking the head of the port counts for the message it answers only.     *)
LEMMA AnswersTaken ==
    ASSUME NEW t, NEW q \in Seq(Reply), q # << >>
    PROVE  Cardinality(AnswersTo(t, Tail(q))) =
              IF t = Head(q).by THEN Cardinality(AnswersTo(t, q)) - 1
                                ELSE Cardinality(AnswersTo(t, q))
<1> DEFINE A == AnswersTo(t, Tail(q))
           B == AnswersTo(t, q)
           C == B \ {1}
           f == [k \in A |-> k + 1]
<1>1. /\ Head(q) = q[1] /\ Len(Tail(q)) = Len(q) - 1 /\ Len(q) \in Nat /\ 1 \in 1..Len(q)
      /\ \A k \in 1..Len(Tail(q)) : k + 1 \in 1..Len(q) /\ Tail(q)[k] = q[k + 1]
  BY TailElements
<1>2. \A k \in A : k \in Nat /\ k + 1 \in C
  <2>1. \A k \in A : k \in Nat /\ k + 1 # 1 /\ k + 1 \in B
    BY <1>1 DEF AnswersTo
  <2>2. QED
    BY <2>1
<1>3. \A l \in C : l - 1 \in A /\ (l - 1) + 1 = l
  <2>1. ASSUME NEW l \in C PROVE l \in 1..Len(q) /\ q[l].by = t /\ l # 1
    BY <2>1 DEF AnswersTo
  <2>2. ASSUME NEW l \in C PROVE l - 1 \in 1..Len(Tail(q)) /\ (l - 1) + 1 = l
    BY <1>1, <2>1
  <2>3. QED
    BY <1>1, <2>1, <2>2 DEF AnswersTo
<1>4. IsFiniteSet(A) /\ IsFiniteSet(B) /\ Cardinality(B) \in Nat
  <2>1. Tail(q) \in Seq(Reply)
    OBVIOUS
  <2>2. QED
    BY <2>1, AnswersFinite
<1>4a. 1 \in B <=> t = Head(q).by
  BY <1>1 DEF AnswersTo
<1> HIDE DEF A, B
<1>5. f \in [A -> C]
  BY <1>2
<1>6. \A k, l \in A : f[k] = f[l] => k = l
  BY <1>2
<1>7. \A l \in C : \E k \in A : f[k] = l
  <2>1. ASSUME NEW l \in C PROVE l - 1 \in A /\ f[l - 1] = l
    BY <1>3
  <2>2. QED
    BY <2>1
<1> HIDE DEF f, C
<1>8. f \in Bijection(A, C)
  BY <1>5, <1>6, <1>7 DEF Bijection, Injection, Surjection, IsInjective
<1>9. ExistsBijection(A, C)
  BY <1>8 DEF ExistsBijection
<1>10. Cardinality(A) = Cardinality(C)
  BY <1>4, <1>9, FS_Bijection
<1>11. Cardinality(C) = IF 1 \in B THEN Cardinality(B) - 1 ELSE Cardinality(B)
  <2>1. CASE 1 \in B
    BY <1>4, <2>1, FS_RemoveElement DEF C
  <2>2. CASE 1 \notin B
    <3>1. C = B
      BY <2>2 DEF C
    <3>2. QED
      BY <2>2, <3>1
  <2>3. QED
    BY <2>1, <2>2
<1>12. QED
  BY <1>4a, <1>10, <1>11 DEF A, B

CountInv ==
    /\ \A t \in 1..pushed : ipc[req[t].iso] # "new"
    /\ \A t \in waiting : ipc[req[t].iso] # "dead"
    /\ NoUnderrun =>
          /\ \A t \in Task : t > pushed => freed[t] = 0 /\ unread[t] = 0
          /\ \A t \in waiting :
                Cardinality(AnswersTo(t, port[req[t].iso])) + unread[t] = freed[t]

LEMMA CountKept ==
    ASSUME AnswersInv, CountInv, UNCHANGED <<req, pushed, waiting, unread, freed, port>>,
           NoUnderrun' => NoUnderrun,
           \A i \in Isolates : /\ ipc[i] # "new" => ipc'[i] # "new"
                               /\ ipc'[i] = "dead" => ipc[i] = "dead"
    PROVE  CountInv'
<1>1. \A t \in 1..pushed : req[t].iso \in Isolates
  BY DEF AnswersInv, SeqInv
<1>2. waiting \subseteq 1..pushed
  BY DEF AnswersInv, DataTypes
<1>3. QED
  BY <1>1, <1>2 DEF CountInv

LEMMA CountReplying ==
    ASSUME Alone, AnswersInv, PortSet, CountInv, NoUnderrun,
           NEW t \in Known, NEW val \in {"data", "null"}, Replying(t, val)
    PROVE  CountInv'
<1>1. UNCHANGED <<req, pushed, waiting, unread, ipc>> /\ t \in 1..pushed
  BY DEF Replying, dartVars
<1>2. PICK s \in Nat, v \in Val :
         /\ Entry(t, s, v) \in Reply
         /\ port' = [i \in Isolates |-> IF i = replyPort /\ ipc[i] # "dead"
                                        THEN Append(port[i], Entry(t, s, v)) ELSE port[i]]
  BY Posts DEF AnswersInv
<1>3. \A u \in Task : freed'[u] = IF u = t THEN freed[u] + 1 ELSE freed[u]
  BY <1>1, Posts DEF AnswersInv, Frees
<1>4. ASSUME NEW u \in waiting
      PROVE  Cardinality(AnswersTo(u, port'[req[u].iso])) + unread[u] = freed'[u]
  <2>1. u \in 1..pushed /\ u \in Task
    BY PoolAssumption DEF PoolAssumption, AnswersInv, DataTypes, Task
  <2>2. PICK i \in Isolates : i = req[u].iso
    BY <2>1 DEF AnswersInv, SeqInv
  <2>3. i = replyPort /\ ipc[i] # "dead"
    BY <2>1, <2>2 DEF CountInv, PortSet, Alone
  <2>4. port'[i] = Append(port[i], Entry(t, s, v)) /\ port[i] \in Seq(Reply)
    BY <1>2, <2>3 DEF AnswersInv, DataTypes
  <2>5. Cardinality(AnswersTo(u, port[i])) + unread[u] = freed[u]
    BY <2>2 DEF CountInv
  <2>5a. Cardinality(AnswersTo(u, port[i])) \in Nat /\ unread[u] \in Nat
    BY <2>1, <2>4, AnswersFinite DEF AnswersInv, DataTypes
  <2>6. Entry(t, s, v).by = t
    BY DEF Entry
  <2>7. Cardinality(AnswersTo(u, port'[i])) = IF u = t THEN Cardinality(AnswersTo(u, port[i])) + 1
                                                       ELSE Cardinality(AnswersTo(u, port[i]))
    BY <1>2, <2>4, <2>6, AnswersAppended
  <2>8. QED
    BY <1>3, <2>1, <2>2, <2>5, <2>5a, <2>7
<1>5. ASSUME NEW u \in Task, u > pushed' PROVE freed'[u] = 0 /\ unread'[u] = 0
  <2>1. u > pushed /\ freed[u] = 0 /\ unread[u] = 0
    BY <1>1, <1>5 DEF CountInv
  <2>2. u # t
    BY <1>1, <2>1 DEF AnswersInv, DataTypes, Task
  <2>3. QED
    BY <1>1, <1>3, <2>1, <2>2
<1>6. QED
  BY <1>1, <1>4, <1>5 DEF CountInv

LEMMA CountStep ==
    ASSUME Alone, AnswersInv, PortSet, CountInv, [Next]_vars
    PROVE  CountInv'
<1>1. /\ NoUnderrun' => NoUnderrun
      /\ \A i \in Isolates : ipc[i] # "new" => ipc'[i] # "new"
  BY UnderrunStays, NewNoMore DEF AnswersInv
<1>2. Shaped
  BY Shape DEF AnswersInv
<1>3. /\ waiting \subseteq 1..pushed /\ pushed \in Nat
      /\ \A t \in 1..pushed : req[t].iso \in Isolates
  BY DEF AnswersInv, DataTypes, SeqInv
<1>4. CASE Quiet
  BY <1>1, <1>4, CountKept DEF Quiet, dartVars
<1>5. ASSUME NEW t \in Known, NEW val \in {"data", "null"}, Replying(t, val)
      PROVE  CountInv'
  <2>1. CASE NoUnderrun
    BY <1>5, <2>1, CountReplying
  <2>2. CASE ~NoUnderrun
    <3>1. UNCHANGED <<req, pushed, waiting, ipc>>
      BY <1>5 DEF Replying, dartVars
    <3>2. QED
      BY <1>1, <2>2, <3>1 DEF CountInv
  <2>3. QED
    BY <2>1, <2>2
<1>6. ASSUME NEW i \in Isolates, OnReply(i) PROVE CountInv'
  <2>1. /\ UNCHANGED <<req, pushed, unread, freed, ipc>>
        /\ waiting' = waiting \ Answered(i)
    BY <1>6 DEF OnReply, Complete, poolVars
  <2>2. ASSUME NoUnderrun, NEW t \in waiting'
        PROVE  Cardinality(AnswersTo(t, port'[req[t].iso])) + unread[t] = freed[t]
    <3>1. t \in waiting /\ t # Head(port[i]).by /\ req[t].iso = i
      BY <1>3, <1>6, <2>1, <2>2, CompletesItsOwn DEF Alone
    <3>2. port[i] \in Seq(Reply) /\ port[i] # << >> /\ port'[i] = Tail(port[i])
      BY <1>6 DEF OnReply, Complete, AnswersInv, DataTypes
    <3>3. Cardinality(AnswersTo(t, port[i])) + unread[t] = freed[t]
      BY <2>2, <3>1 DEF CountInv
    <3>4. QED
      BY <3>1, <3>2, <3>3, AnswersTaken
  <2>3. QED
    BY <1>1, <1>3, <2>1, <2>2 DEF CountInv
<1>6a. ASSUME NEW i \in Isolates, OnReplyThrows(i) PROVE CountInv'
  <2>1. UNCHANGED <<req, pushed, waiting, freed, ipc>>
    BY <1>6a DEF OnReplyThrows, poolVars
  <2>2. \A t \in Task : unread'[t] = IF t \in Answered(i) THEN unread[t] + 1 ELSE unread[t]
    BY <1>6a DEF OnReplyThrows
  <2>3. Answered(i) \subseteq waiting
    BY DEF Answered, Completers
  <2>4. ASSUME NoUnderrun, NEW t \in waiting
        PROVE  Cardinality(AnswersTo(t, port'[req[t].iso])) + unread'[t] = freed[t]
    <3>1. t \in Answered(i) <=> t = Head(port[i]).by
      BY <1>6a, <2>4, CompletesItsOwn
    <3>2. req[t].iso = i /\ t \in Task
      BY <1>3, PoolAssumption DEF Alone, PoolAssumption, AnswersInv, DataTypes, Task
    <3>3. port[i] \in Seq(Reply) /\ port[i] # << >> /\ port'[i] = Tail(port[i])
      BY <1>6a DEF OnReplyThrows, AnswersInv, DataTypes
    <3>4. Cardinality(AnswersTo(t, port[i])) + unread[t] = freed[t]
      BY <2>4, <3>2 DEF CountInv
    <3>5. Cardinality(AnswersTo(t, port[i])) \in Nat /\ unread[t] \in Nat
      BY <3>2, <3>3, AnswersFinite DEF AnswersInv, DataTypes
    <3>6. Cardinality(AnswersTo(t, port'[i])) =
             IF t = Head(port[i]).by THEN Cardinality(AnswersTo(t, port[i])) - 1
                                     ELSE Cardinality(AnswersTo(t, port[i]))
      BY <3>3, AnswersTaken
    <3>7. QED
      BY <2>2, <3>1, <3>2, <3>4, <3>5, <3>6
  <2>5. ASSUME NEW t \in Task, t > pushed PROVE unread'[t] = unread[t]
    <3>1. t \notin 1..pushed
      BY <1>3, <2>5 DEF Task
    <3>2. t \notin Answered(i)
      BY <1>3, <2>3, <3>1
    <3>3. QED
      BY <2>2, <3>2
  <2>6. QED
    BY <1>1, <1>3, <2>1, <2>4, <2>5 DEF CountInv
<1>7. ASSUME NEW i \in Isolates, Shutdown(i) PROVE CountInv'
  <2>1. waiting' = {t \in waiting : req[t].iso # i} /\ UNCHANGED <<req, pushed, unread, freed>>
    BY <1>7 DEF Shutdown, Retire
  <2>2. waiting' = {}
    BY <1>3, <2>1 DEF Alone
  <2>3. QED
    BY <1>1, <1>3, <2>1, <2>2 DEF CountInv
<1>8. ASSUME NEW i \in Isolates, SendFails(i) PROVE CountInv'
  BY <1>1, <1>8, CountKept DEF SendFails, poolVars, nativeVars
<1>9. ASSUME NEW i \in Isolates, NEW c \in Channels, Send(i, c) PROVE CountInv'
  <2> USE PoolAssumption DEF PoolAssumption
  <2>0. DataTypes
    BY DEF AnswersInv
  <2>1. /\ pushed' = pushed + 1 /\ \A t \in 1..pushed : req'[t] = req[t]
        /\ req'[pushed'].iso = i
    <3>1. req'[pushed'] = [iso |-> i, seq |-> nextSeq[i], chan |-> c]
      BY <1>9, <2>0, Records
    <3>2. pushed' = pushed + 1 /\ \A t \in 1..pushed : req'[t] = req[t]
      BY <1>9, <2>0, Records
    <3>3. QED
      BY <3>1, <3>2
  <2>2. /\ waiting' = waiting \union {pushed'} /\ UNCHANGED <<port, unread, freed>>
        /\ ipc' = [ipc EXCEPT ![i] = "notify"]
    BY <1>9 DEF Send, Push, nativeVars
  <2>3. ipc'[i] = "notify" /\ \A j \in Isolates : j = i
    BY <2>2 DEF AnswersInv, PoolTypeOK, Alone
  <2>4. ASSUME NoUnderrun, NEW t \in waiting'
        PROVE  Cardinality(AnswersTo(t, port[req'[t].iso])) + unread[t] = freed[t]
    <3>1. CASE t \in waiting
      BY <1>3, <2>1, <2>4, <3>1 DEF CountInv
    <3>2. CASE t = pushed'
      <4>1. t \in Task /\ t > pushed
        BY <1>3, <1>9, <2>1, <3>2 DEF Send, Push, Task
      <4>2. freed[t] = 0 /\ unread[t] = 0
        BY <2>4, <4>1 DEF CountInv
      <4>3. \A k \in 1..Len(port[i]) : port[i][k].by # t
        BY <1>3, <2>4, <4>1 DEF AnswersInv, PortInv, Genuine
      <4>4. AnswersTo(t, port[i]) = {}
        BY <4>3 DEF AnswersTo
      <4>5. QED
        BY <2>1, <3>2, <4>2, <4>4, FS_EmptySet
    <3>3. QED
      BY <2>2, <2>4, <3>1, <3>2
  <2>5. \A t \in 1..pushed' : req'[t].iso = i
    BY <1>3, <2>1, <2>3
  <2>6. NoUnderrun => \A t \in Task : t > pushed' => freed'[t] = 0 /\ unread'[t] = 0
    BY <1>3, <2>1, <2>2 DEF CountInv, Task
  <2>7. /\ \A t \in 1..pushed' : ipc'[req'[t].iso] # "new"
        /\ \A t \in waiting' : ipc'[req'[t].iso] # "dead"
    BY <1>3, <2>1, <2>2, <2>3, <2>5
  <2>8. QED
    BY <1>1, <2>2, <2>4, <2>6, <2>7 DEF CountInv
<1>10. QED
  BY <1>2, <1>4, <1>5, <1>6, <1>6a, <1>7, <1>8, <1>9 DEF Shaped, IsolateStep

LEMMA CountInvariant == ASSUME Alone PROVE Spec => []CountInv
<1>1. Init => PortSet /\ CountInv
  BY DEF Init, PoolInit, PortSet, CountInv
<1>2. AnswersInv /\ PortSet /\ CountInv /\ [Next]_vars => (PortSet /\ CountInv)'
  BY PortSetStep, CountStep DEF AnswersInv
<1>3. QED
  BY <1>1, <1>2, AnswersInvariant, PTL DEF Spec

(* For an isolate that is alone as many replies are queued for a waiting   *)
(* completer, or made onReply throw, as times its message was answered,    *)
(* whatever its handlers do, until an underrun.                            *)
THEOREM AloneRepliesAccountedFor == ASSUME Alone PROVE Spec => []RepliesAccountedFor
<1>1. AnswersInv /\ CountInv => RepliesAccountedFor
  <2> SUFFICES ASSUME AnswersInv, CountInv, NoUnderrun, NEW t \in waiting
               PROVE  Cardinality({k \in DOMAIN port[req[t].iso] :
                                     port[req[t].iso][k].seq = req[t].seq})
                          + unread[t] = freed[t]
    BY DEF RepliesAccountedFor
  <2>1. t \in 1..pushed
    BY DEF AnswersInv, DataTypes
  <2>2. PICK i \in Isolates : i = req[t].iso
    BY <2>1 DEF AnswersInv, SeqInv
  <2>3. \A k \in 1..Len(port[i]) : port[i][k].seq = req[t].seq <=> port[i][k].by = t
    <3>1. \A k \in 1..Len(port[i]) : Genuine(port[i][k])
      BY DEF AnswersInv, PortInv
    <3>2. \A u \in 1..pushed : req[u].seq = req[t].seq <=> u = t
      BY <2>1, <2>2 DEF AnswersInv, SeqInv, Alone
    <3>3. QED
      BY <3>1, <3>2 DEF Genuine
  <2>4. DOMAIN port[i] = 1..Len(port[i])
    BY DEF AnswersInv, DataTypes
  <2>5. {k \in DOMAIN port[i] : port[i][k].seq = req[t].seq} = AnswersTo(t, port[i])
    BY <2>3, <2>4 DEF AnswersTo
  <2>6. QED
    BY <2>2, <2>5 DEF CountInv
<1>2. QED
  BY <1>1, AnswersInvariant, CountInvariant, PTL

(* Where the answer to a waiting completer is, for an isolate that is alone*)
(* and handlers that keep the contract: the message is still in the queue, *)
(* somebody is about to answer it, the answer is on the port, or it was    *)
(* lost on a wrapper that was never assigned, which made onReply throw.    *)
AnswerUnderWay ==
    NoUnderrun => \A t \in waiting :
        \/ t > popped \/ t \in held \/ \E w \in Workers : BusyWith(w, t)
        \/ \E k \in 1..Len(port[req[t].iso]) : port[req[t].iso][k].by = t
        \/ unread[t] > 0

THEOREM AloneAnswerUnderWay == ASSUME Alone, Contract PROVE Spec => []AnswerUnderWay
<1>1. AnswersInv /\ CountInv /\ NeverForgotten => AnswerUnderWay
  <2> SUFFICES ASSUME AnswersInv, CountInv, NeverForgotten, NoUnderrun, NEW t \in waiting,
                      ~(t > popped), t \notin held, \A w \in Workers : ~BusyWith(w, t),
                      ~(unread[t] > 0)
               PROVE  AnswersTo(t, port[req[t].iso]) # {}
    BY DEF AnswerUnderWay, AnswersTo
  <2>1. t \in 1..popped
    BY DEF AnswersInv, DataTypes, PoolTypeOK
  <2>2. freed[t] > 0
    BY <2>1 DEF NeverForgotten
  <2>2a. unread[t] = 0
    BY PoolAssumption DEF PoolAssumption, AnswersInv, DataTypes, Task
  <2>3. Cardinality(AnswersTo(t, port[req[t].iso])) # 0
    BY <2>2, <2>2a DEF CountInv
  <2>4. QED
    BY <2>3, FS_EmptySet
<1>2. QED
  BY <1>1, AnswersInvariant, CountInvariant, NoneForgotten, PTL
-----------------------------------------------------------------------------
(***************************************************************************)
(* An isolate that is alone, with handlers that keep the contract: until   *)
(* an underrun a future is pending as long as its message is unanswered or *)
(* its answer is queued, and an answer is queued once.                     *)
(***************************************************************************)
PendingInv == NoUnderrun =>
    /\ \A t \in 1..pushed : ipc[req[t].iso] # "dead" /\ freed[t] = 0 => t \in waiting
    /\ \A i \in Isolates : \A k \in 1..Len(port[i]) : port[i][k].by \in waiting
    /\ \A i \in Isolates : \A k, l \in 1..Len(port[i]) :
          port[i][k].by = port[i][l].by => k = l

LEMMA PendingInit == Init => PendingInv
BY DEF Init, PoolInit, PendingInv

(* The reply at the head of the port has a completer.                      *)
LEMMA CompletesOne ==
    ASSUME Alone, AnswersInv, PendingInv, NoUnderrun, NEW i \in Isolates, OnReply(i)
    PROVE  /\ Head(port[i]).by \in waiting /\ freed[Head(port[i]).by] > 0
           /\ Answered(i) = {Head(port[i]).by}
<1>1. Head(port[i]).by \in waiting
  BY Popped DEF AnswersInv, PendingInv
<1>2. QED
  BY <1>1, CompletesItsOwn DEF Genuine

(* What a step does to the ports and the waiting, where nothing is sent.   *)
LEMMA PendingKept ==
    ASSUME AnswersInv, PendingInv, NoUnderrun,
           UNCHANGED <<req, pushed, port, freed, waiting>>,
           \A i \in Isolates : ipc'[i] = "dead" <=> ipc[i] = "dead"
    PROVE  PendingInv'
<1>1. \A t \in 1..pushed : req[t].iso \in Isolates
  BY DEF AnswersInv, SeqInv
<1>2. QED
  BY <1>1 DEF PendingInv

(* The entry that an answer appends: the only one for its message.         *)
LEMMA PendingReplying ==
    ASSUME Alone, AnswersInv, PendingInv, NoUnderrun, \A t \in Task : freed'[t] <= 1,
           NEW t \in Known, NEW val \in {"data", "null"}, Replying(t, val)
    PROVE  PendingInv'
<1> USE PoolAssumption DEF PoolAssumption
<1>1. /\ t \in 1..pushed /\ t \in Task /\ freed[t] \in Nat
      /\ UNCHANGED <<req, pushed, waiting, ipc>> /\ 1..pushed \subseteq Task
  BY DEF Replying, dartVars, AnswersInv, DataTypes, Task, NoTask
<1>2. /\ freed[t] = 0
      /\ \A u \in 1..pushed : freed'[u] = 0 => freed[u] = 0
  <2>1. \A u \in Task : freed'[u] = IF u = t THEN freed[u] + 1 ELSE freed[u]
    BY <1>1, Posts DEF AnswersInv, Frees
  <2>2. freed'[t] = freed[t] + 1 /\ freed'[t] <= 1
    BY <1>1, <2>1
  <2>3. freed[t] = 0
    BY <1>1, <2>2
  <2>4. QED
    BY <1>1, <2>1, <2>3
<1>3. PICK s \in Nat, v \in Val :
         /\ Entry(t, s, v) \in Reply
         /\ port' = [i \in Isolates |-> IF i = replyPort /\ ipc[i] # "dead"
                                        THEN Append(port[i], Entry(t, s, v)) ELSE port[i]]
  BY Posts DEF AnswersInv
<1>4. \A u \in 1..pushed' : ipc'[req'[u].iso] # "dead" /\ freed'[u] = 0 => u \in waiting'
  BY <1>1, <1>2 DEF PendingInv
<1>5. \A i \in Isolates : \A k \in 1..Len(port[i]) :
         port[i][k].by # t /\ port[i][k].by \in waiting
  BY <1>2 DEF PendingInv, AnswersInv, PortInv, Genuine
<1>6. ASSUME NEW i \in Isolates
      PROVE  /\ \A k \in 1..Len(port'[i]) : port'[i][k].by \in waiting'
             /\ \A k, l \in 1..Len(port'[i]) : port'[i][k].by = port'[i][l].by => k = l
  <2>1. CASE port'[i] = port[i]
    BY <1>1, <1>5, <2>1 DEF PendingInv
  <2>2. CASE port'[i] = Append(port[i], Entry(t, s, v)) /\ ipc[i] # "dead"
    <3>1. t \in waiting
      <4>1. req[t].iso = i
        BY <1>1 DEF AnswersInv, SeqInv, Alone
      <4>2. QED
        BY <1>1, <1>2, <2>2, <4>1 DEF PendingInv
    <3>2. Entry(t, s, v).by = t
      BY DEF Entry
    <3>3. port[i] \in Seq(Reply)
      BY DEF AnswersInv, DataTypes
    <3>4. \A k \in 1..Len(port'[i]) : \/ k \in 1..Len(port[i]) /\ port'[i][k] = port[i][k]
                                      \/ k = Len(port[i]) + 1 /\ port'[i][k] = Entry(t, s, v)
      BY <1>3, <2>2, <3>3, AppendElements
    <3>5. \A k \in 1..Len(port'[i]) : \/ k \in 1..Len(port[i]) /\ port'[i][k].by = port[i][k].by
                                      \/ k = Len(port[i]) + 1 /\ port'[i][k].by = t
      BY <3>2, <3>4
    <3>6. \A k, l \in 1..Len(port[i]) : port[i][k].by = port[i][l].by => k = l
      BY DEF PendingInv
    <3>7. QED
      BY <1>1, <1>5, <3>1, <3>5, <3>6
  <2>3. QED
    BY <1>3, <2>1, <2>2
<1>7. QED
  BY <1>4, <1>6 DEF PendingInv

LEMMA PendingStep ==
    ASSUME Alone, AnswersInv, PendingInv, Shaped, NoUnderrun, \A t \in Task : freed'[t] <= 1
    PROVE  PendingInv'
<1>1. CASE Quiet
  BY <1>1, PendingKept DEF Quiet, dartVars
<1>2. ASSUME NEW t \in Known, NEW val \in {"data", "null"}, Replying(t, val)
      PROVE  PendingInv'
  BY <1>2, PendingReplying
<1>3. ASSUME NEW i \in Isolates, OnReply(i) PROVE PendingInv'
  <2> DEFINE b == Head(port[i]).by
  <2>1. /\ UNCHANGED <<req, pushed, freed, ipc>>
        /\ waiting' = waiting \ Answered(i)
    BY <1>3 DEF OnReply, Complete, poolVars
  <2>2. Answered(i) = {b} /\ freed[b] > 0
    BY <1>3, CompletesOne
  <2>3. /\ 1 \in 1..Len(port[i]) /\ b = port[i][1].by
        /\ \A k \in 1..Len(port'[i]) :
              k + 1 \in 1..Len(port[i]) /\ port'[i][k] = port[i][k + 1]
    BY <1>3, Popped DEF AnswersInv
  <2> HIDE DEF b
  <2>4. \A t \in 1..pushed' : ipc'[req'[t].iso] # "dead" /\ freed'[t] = 0 => t \in waiting'
    BY <2>1, <2>2 DEF PendingInv
  <2>5. \A k \in 1..Len(port'[i]) : /\ k + 1 \in 1..Len(port[i]) /\ k \in Nat /\ k + 1 # 1
                                    /\ port'[i][k].by = port[i][k + 1].by
    BY <2>3
  <2>6. \A k \in 1..Len(port'[i]) : port'[i][k].by \in waiting'
    BY <2>1, <2>2, <2>3, <2>5 DEF PendingInv
  <2>7. \A k, l \in 1..Len(port'[i]) : port'[i][k].by = port'[i][l].by => k = l
    <3>1. \A k, l \in 1..Len(port'[i]) : port'[i][k].by = port'[i][l].by => k + 1 = l + 1
      BY <2>5 DEF PendingInv
    <3>2. QED
      BY <3>1
  <2>8. \A j \in Isolates : j = i
    BY DEF Alone
  <2>9. QED
    BY <2>4, <2>6, <2>7, <2>8 DEF PendingInv
<1>3a. ASSUME NEW i \in Isolates, OnReplyThrows(i) PROVE PendingInv'
  <2>1. UNCHANGED <<req, pushed, waiting, freed, ipc>>
    BY <1>3a DEF OnReplyThrows, poolVars
  <2>2. \A k \in 1..Len(port'[i]) :
           k \in Nat /\ k + 1 \in 1..Len(port[i]) /\ port'[i][k] = port[i][k + 1]
    BY <1>3a, Popped DEF AnswersInv
  <2>3. \A k \in 1..Len(port'[i]) : port'[i][k].by \in waiting'
    BY <2>1, <2>2 DEF PendingInv
  <2>4. \A k, l \in 1..Len(port'[i]) : port'[i][k].by = port'[i][l].by => k = l
    <3>1. SUFFICES ASSUME NEW k \in 1..Len(port'[i]), NEW l \in 1..Len(port'[i]),
                          port'[i][k].by = port'[i][l].by
                   PROVE  k = l
      OBVIOUS
    <3>2. /\ k + 1 \in 1..Len(port[i]) /\ l + 1 \in 1..Len(port[i])
          /\ port[i][k + 1].by = port[i][l + 1].by
      BY <2>2, <3>1
    <3>3. k + 1 = l + 1
      BY <3>2 DEF PendingInv
    <3>4. QED
      BY <3>3
  <2>5. \A j \in Isolates : j = i
    BY DEF Alone
  <2>6. QED
    BY <2>1, <2>3, <2>4, <2>5 DEF PendingInv
<1>4. ASSUME NEW i \in Isolates, Shutdown(i) PROVE PendingInv'
  <2>1. /\ ipc' = [ipc EXCEPT ![i] = "dead"] /\ port' = [port EXCEPT ![i] = << >>]
        /\ UNCHANGED <<req, pushed>>
    BY <1>4 DEF Shutdown, Retire
  <2>2. \A j \in Isolates : ipc'[j] = "dead" /\ Len(port'[j]) = 0
    BY <2>1 DEF Alone, AnswersInv, DataTypes, PoolTypeOK
  <2>3. \A t \in 1..pushed' : req'[t].iso \in Isolates
    BY <2>1 DEF AnswersInv, SeqInv
  <2>4. QED
    BY <2>2, <2>3 DEF PendingInv
<1>5. ASSUME NEW i \in Isolates, SendFails(i) PROVE PendingInv'
  BY <1>5, PendingKept DEF SendFails, poolVars, nativeVars
<1>6. ASSUME NEW i \in Isolates, NEW c \in Channels, Send(i, c) PROVE PendingInv'
  <2>0. DataTypes /\ pushed \in Nat
    BY DEF AnswersInv, DataTypes
  <2>1. /\ pushed' = pushed + 1 /\ \A t \in 1..pushed : req'[t] = req[t]
        /\ pushed \in Nat
    BY <1>6, <2>0, Records
  <2>2. /\ waiting' = waiting \union {pushed'} /\ UNCHANGED <<port, freed>>
        /\ ipc' = [ipc EXCEPT ![i] = "notify"] /\ ipc[i] = "idle"
    BY <1>6 DEF Send, Push, nativeVars
  <2>3. \A j \in Isolates : ipc'[j] = "dead" => ipc[j] = "dead"
    BY <2>2 DEF AnswersInv, PoolTypeOK
  <2>3a. \A j \in Isolates : ipc[j] = "dead" => ipc'[j] = "dead"
    BY <2>2 DEF AnswersInv, PoolTypeOK
  <2>4. \A t \in 1..pushed : req[t].iso \in Isolates
    BY DEF AnswersInv, SeqInv
  <2>5. \A t \in 1..pushed' : t = pushed' \/ t \in 1..pushed
    BY <2>1
  <2>6. \A t \in 1..pushed' : ipc'[req'[t].iso] # "dead" /\ freed'[t] = 0 => t \in waiting'
    BY <2>1, <2>2, <2>3a, <2>4, <2>5 DEF PendingInv
  <2>7. QED
    BY <2>2, <2>6 DEF PendingInv
<1>7. QED
  BY <1>1, <1>2, <1>3, <1>3a, <1>4, <1>5, <1>6 DEF Shaped, IsolateStep

(* What holds, until an underrun, of an isolate that is alone, if the      *)
(* handlers keep the contract.                                             *)
LEMMA AloneInvariant ==
    ASSUME Alone, Contract
    PROVE  Spec => [](AnswersInv /\ PendingInv)
<1>1. AnswersInv /\ (NoUnderrun => AnswerInv)' /\ PendingInv /\ [Next]_vars => PendingInv'
  <2> SUFFICES ASSUME AnswersInv, (NoUnderrun => AnswerInv)', PendingInv, [Next]_vars
               PROVE  PendingInv'
    OBVIOUS
  <2>1. Shaped
    BY Shape DEF AnswersInv
  <2>2. NoUnderrun' => \A t \in Task : freed'[t] <= 1
    BY DEF AnswerInv
  <2>3. CASE NoUnderrun'
    BY <2>1, <2>2, <2>3, UnderrunStays, PendingStep DEF AnswersInv
  <2>4. CASE ~NoUnderrun'
    BY <2>4 DEF PendingInv
  <2>5. QED
    BY <2>3, <2>4
<1>2. QED
  BY <1>1, PendingInit, AnswersInvariant, AnswerInvariant, PTL DEF Spec

(* The assertion of onReply holds of an isolate that is alone, if the      *)
(* handlers keep the contract, until a worker has popped an empty queue.   *)
THEOREM CompleterPresentWhenAlone ==
    ASSUME Alone, Contract
    PROVE  Spec => []CompleterPresentUntilUnderrun
<1>1. AnswersInv /\ PendingInv => CompleterPresentUntilUnderrun
  <2> SUFFICES ASSUME AnswersInv, PendingInv, NoUnderrun, NEW i \in Isolates, port[i] # << >>
               PROVE  Completers(i, Head(port[i]).seq) # {}
    BY DEF CompleterPresentUntilUnderrun, CompleterPresent
  <2> DEFINE r == Head(port[i])
  <2>1. port[i] \in Seq(Reply)
    BY DEF AnswersInv, DataTypes
  <2>2. 1 \in 1..Len(port[i]) /\ r = port[i][1]
    BY <2>1, TailElements
  <2>3. Genuine(r) /\ r.by \in waiting
    BY <2>2 DEF AnswersInv, PortInv, PendingInv
  <2>4. req[r.by].iso = i
    BY <2>3 DEF Genuine, AnswersInv, SeqInv, Alone
  <2>5. r.by \in Completers(i, r.seq)
    BY <2>3, <2>4 DEF Completers, Genuine
  <2>6. QED
    BY <2>5
<1>2. QED
  BY <1>1, AloneInvariant, PTL
-----------------------------------------------------------------------------
(***************************************************************************)
(* One worker.  Its pool never underruns, so that what holds until an      *)
(* underrun holds for good.                                                *)
(***************************************************************************)
LEMMA SingleWorkerMessenger ==
    ASSUME \A v, w \in Workers : v = w
    PROVE  Spec => []NoUnderrun
BY SingleWorkerNeverUnderruns, MessengerImplementsPool, PTL

(* With one worker the assertion of onReply holds of an isolate that is    *)
(* alone, if the handlers keep the contract: it is the second worker, and  *)
(* not the channel, that makes it fail.                                    *)
THEOREM SingleWorkerCompleterPresent ==
    ASSUME Alone, Contract, \A v, w \in Workers : v = w
    PROVE  Spec => []CompleterPresent
<1>1. NoUnderrun /\ CompleterPresentUntilUnderrun => CompleterPresent
  BY DEF CompleterPresentUntilUnderrun
<1>2. QED
  BY <1>1, SingleWorkerMessenger, CompleterPresentWhenAlone, PTL

(* With one worker the concurrent channel implements request and reply for *)
(* an isolate that is alone, outright and whatever its handlers do.        *)
THEOREM SingleWorkerImplementsRequestReply ==
    ASSUME Alone, \A v, w \in Workers : v = w
    PROVE  Spec => RR!Spec
<1>1. AnswersInv /\ NoUnderrun /\ NoUnderrun' /\ [Next]_vars => [RR!Next]_(RR!vars)
  BY Shape, RefinementStep DEF AnswersInv
<1>2. QED
  BY <1>1, RefinementInit, AnswersInvariant, SingleWorkerMessenger, PTL DEF Spec, RR!Spec
=============================================================================
