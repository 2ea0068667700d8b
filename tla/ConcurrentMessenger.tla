------------------------- MODULE ConcurrentMessenger ------------------------
(***************************************************************************)
(* The concurrent channel end to end: a Dart isolate sends a message, a    *)
(* worker of the native pool hands it to the Kotlin messenger, the handler *)
(* answers now, later or by throwing, the native side frees the message    *)
(* and posts the answer, and the isolate's event loop completes the future.*)
(*                                                                         *)
(* Sources: lib/src/concurrent_native_binary_messenger.dart,               *)
(* concurrent_channel.cc, ConcurrentNativeBinaryMessenger.kt and           *)
(* ConcurrentMethodChannel.kt.  The pool is module WorkerPool; the call    *)
(* that it makes between Take and Return is opened up here.                *)
(*                                                                         *)
(* A payload is reduced to the four things that can come back: "data" (a   *)
(* reply buffer), "null" (a wrapper whose data pointer is zero), "junk" (a *)
(* wrapper whose data pointer was never assigned and is not zero), and     *)
(* "none" (nothing yet).                                                   *)
(***************************************************************************)
EXTENDS WorkerPool, Sequences

CONSTANTS Channels,        \* the channel ids in use
          MethodChannels,  \* those served through ConcurrentMethodChannel
          Failing,         \* bound: the sequence numbers whose send may find no memory
          ZeroedHeap,      \* does operator new happen to return zeroed memory
          Contract         \* do the handlers of the application keep the contract

ASSUME MessengerAssumption == /\ MethodChannels \subseteq Channels
                              /\ Failing \subseteq Task
                              /\ ZeroedHeap \in BOOLEAN
                              /\ Contract \in BOOLEAN

VARIABLES req,        \* req[t]: the message of task t, in the order of the pushes
          nextSeq,    \* nextSeq[i]: the static _seq of isolate i
          waiting,    \* the tasks whose completer is in their isolate's _resultCompleters
          orphans,    \* the completers there of sends that failed before the push
          result,     \* result[t]: what the future of task t was completed with
          unread,     \* history: how many answers to task t onReply has thrown on
          port,       \* port[i]: the events queued on the _replyPort of isolate i
          replyPort,  \* the native static replyPort_, as the isolate it belongs to
          handlers,   \* the channels in the Kotlin messageHandlers
          frame,      \* frame[w]: where worker w is inside handleMessageFromDart
          done,       \* the tasks whose Reply.done is set
          held,       \* the tasks whose Reply was kept to be answered on another thread
          freed       \* freed[t]: how often the message of t was freed; what frees it
                      \* also answers t, unless a stray task has it in its slot

dartVars   == <<req, nextSeq, waiting, orphans, result, unread>>
nativeVars == <<port, replyPort, freed>>
kotlinVars == <<frame, done, held>>
vars == <<poolVars, dartVars, nativeVars, kotlinVars, handlers>>

NoPort    == "no port"
NoResult  == [by |-> NoTask, val |-> "none"]
AnyTask   == {NoTask} \union Task \union Stray
Val       == {"data", "null", "junk"}

Init == /\ PoolInit
        /\ req = << >>
        /\ nextSeq = [i \in Isolates |-> 1]
        /\ waiting = {} /\ orphans = {}
        /\ result = [t \in Task |-> NoResult]
        /\ unread = [t \in Task |-> 0]
        /\ port = [i \in Isolates |-> << >>]
        /\ replyPort = NoPort
        /\ handlers = {}
        /\ frame = [w \in Workers |-> "out"]
        /\ done = {} /\ held = {}
        /\ freed = [t \in Task |-> 0]
-----------------------------------------------------------------------------
(* Dart, on the thread of the isolate.                                     *)

(* The messenger's constructor: the native statics now point to isolate i. *)
InitializeChannel(i) == /\ StartWorkers(i)
                        /\ replyPort' = i
                        /\ UNCHANGED <<dartVars, port, freed, kotlinVars, handlers>>

(* Faulty: the completer is stored under the next sequence number.         *)
SendLateSeq(i, c) == /\ Push(i)
                     /\ req' = Append(req, [iso |-> i, seq |-> nextSeq[i], chan |-> c])
                     /\ nextSeq' = [nextSeq EXCEPT ![i] = @ + 1]
                     /\ waiting' = waiting \union {pushed' + 1}
                     /\ UNCHANGED <<orphans, result, unread, nativeVars, kotlinVars, handlers>>

(* Faulty: _seq is not incremented.                                        *)
SendSameSeq(i, c) == /\ Push(i)
                     /\ req' = Append(req, [iso |-> i, seq |-> nextSeq[i], chan |-> c])
                     /\ waiting' = waiting \union {pushed'}
                     /\ UNCHANGED <<nextSeq, orphans, result, unread, nativeVars,
                                    kotlinVars, handlers>>

(* send() up to the push; NotifyOne(i) follows on the same thread.         *)
Send(i, c) == /\ Push(i)
              /\ req' = Append(req, [iso |-> i, seq |-> nextSeq[i], chan |-> c])
              /\ nextSeq' = [nextSeq EXCEPT ![i] = @ + 1]
              /\ waiting' = waiting \union {pushed'}
              /\ UNCHANGED <<orphans, result, unread, nativeVars, kotlinVars, handlers>>

(* Faulty: _seq is incremented after the push, which is not reached.       *)
FailsSameSeq(i) == /\ ipc[i] = "idle" /\ nextSeq[i] \in Failing
                   /\ orphans' = orphans \union {[iso |-> i, seq |-> nextSeq[i]]}
                   /\ UNCHANGED <<poolVars, req, nextSeq, waiting, result, unread, nativeVars,
                                  kotlinVars, handlers>>

(* allocate throws: the number is used up and the completer stays.         *)
SendFails(i) == /\ ipc[i] = "idle" /\ nextSeq[i] \in Failing
                /\ nextSeq' = [nextSeq EXCEPT ![i] = @ + 1]
                /\ orphans' = orphans \union {[iso |-> i, seq |-> nextSeq[i]]}
                /\ UNCHANGED <<poolVars, req, waiting, result, unread, nativeVars, kotlinVars,
                               handlers>>

Notify(i) == NotifyOne(i) /\ UNCHANGED <<dartVars, nativeVars, kotlinVars, handlers>>

(* The completers that _resultCompleters of isolate i holds under seq.     *)
Completers(i, seq) == {t \in waiting : req[t].iso = i /\ req[t].seq = seq}

(* What onReply does with the head of the port: T is the set of completers *)
(* it completes, R the set it removes; nobody awaits an orphan.            *)
Complete(i, T, R) ==
    /\ ipc[i] = "idle"
    /\ port[i] # << >>
    /\ LET r == Head(port[i])
       IN  result' = [t \in Task |-> IF t \in T THEN [by |-> r.by, val |-> r.val]
                                    ELSE result[t]]
    /\ waiting' = waiting \ R
    /\ orphans' = orphans \ {[iso |-> i, seq |-> Head(port[i]).seq]}
    /\ port' = [port EXCEPT ![i] = Tail(@)]
    /\ UNCHANGED <<poolVars, req, nextSeq, unread, replyPort, freed, kotlinVars, handlers>>

Answered(i) == IF port[i] = << >> THEN {} ELSE Completers(i, Head(port[i]).seq)

(* Faulty: the map is cleared; the oldest completer is completed; the      *)
(* completer is not removed.                                               *)
OnReplyClears(i)  == Complete(i, Answered(i), {t \in waiting : req[t].iso = i})
OnReplyInOrder(i) == LET T == {t \in waiting : \A u \in waiting : t <= u}
                     IN  Complete(i, T, T)
OnReplyKeeps(i)   == Complete(i, Answered(i), {})

(* onReply: the assertion that the completer exists is compiled out of     *)
(* release builds, where the reply of an unknown seq is dropped.           *)
OnReply(i) == Complete(i, Answered(i), Answered(i))

(* ... and of an unassigned wrapper the length is arbitrary as well: a     *)
(* negative or excessive one makes asTypedList throw before the completer  *)
(* is removed, and the future waits on.                                    *)
OnReplyThrows(i) ==
    /\ ipc[i] = "idle"
    /\ port[i] # << >> /\ Head(port[i]).val = "junk"
    /\ port' = [port EXCEPT ![i] = Tail(@)]
    /\ unread' = [t \in Task |-> IF t \in Answered(i) THEN unread[t] + 1 ELSE unread[t]]
    /\ UNCHANGED <<poolVars, req, nextSeq, waiting, orphans, result, replyPort, freed,
                   kotlinVars, handlers>>

(* The isolate ends (hot restart, engine destroyed): its port is closed.   *)
Shutdown(i) == /\ Retire(i)
               /\ port' = [port EXCEPT ![i] = << >>]
               /\ waiting' = {t \in waiting : req[t].iso # i}
               /\ orphans' = {o \in orphans : o.iso # i}
               /\ UNCHANGED <<req, nextSeq, result, unread, replyPort, freed, kotlinVars, handlers>>
-----------------------------------------------------------------------------
(* The native worker around the call into Kotlin.                          *)

Wait(w) == /\ TestPredicate(w) \/ Block(w)
           /\ UNCHANGED <<dartVars, nativeVars, kotlinVars, handlers>>

Wake(w) == SpuriousWake(w) /\ UNCHANGED <<dartVars, nativeVars, kotlinVars, handlers>>

Pop(w) == /\ Take(w)
          /\ frame' = [frame EXCEPT ![w] = "lookup"]
          /\ UNCHANGED <<dartVars, nativeVars, done, held, handlers>>

(***************************************************************************)
(* What the local msg of a worker holds.  A stray task is read from a slot *)
(* that holds an old message or was never written: any channel, any        *)
(* sequence number (0 stands for those never issued), and a data pointer   *)
(* that is null, or of a message freed already, or of one still in flight. *)
(***************************************************************************)
AnyChannel  == Channels \union {"unused channel"}
ChannelsOf(t) == IF t \in Task THEN {req[t].chan} ELSE AnyChannel
SeqOf(t)      == IF t \in Task THEN {req[t].seq} ELSE 0..(MaxTasks + Cardinality(Failing))
MessageOf(t)  == IF t \in Task THEN {t} ELSE {NoTask} \union 1..pushed

(* new MessageWrapper leaves data unassigned, and a null reply never       *)
(* assigns it.                                                             *)
Posted(val) == IF val = "null" /\ ~ZeroedHeap THEN {"null", "junk"} ELSE {val}

(* Faulty: a null reply is not posted.                                     *)
ReplyDataOnly(t, val) ==
    /\ \E m \in MessageOf(t) :
          freed' = [u \in Task |-> IF u = m THEN freed[u] + 1 ELSE freed[u]]
    /\ \E s \in SeqOf(t) :
          port' = [i \in Isolates |->
                     IF i = replyPort /\ ipc[i] # "dead" /\ val = "data"
                     THEN Append(port[i], [seq |-> s, by |-> t, val |-> val])
                     ELSE port[i]]
    /\ UNCHANGED replyPort

(* replyMessageToDart: free the request, post the wrapper to whatever port *)
(* the static replyPort_ names now; a closed port drops it.                *)
ReplyMessageToDart(t, val) ==
    /\ \E m \in MessageOf(t) :
          freed' = [u \in Task |-> IF u = m THEN freed[u] + 1 ELSE freed[u]]
    /\ \E s \in SeqOf(t), v \in Posted(val) :
          port' = [i \in Isolates |->
                     IF i = replyPort /\ ipc[i] # "dead"
                     THEN Append(port[i], [seq |-> s, by |-> t, val |-> v])
                     ELSE port[i]]
    /\ UNCHANGED replyPort

Leave(w) == /\ Return(w)
            /\ frame' = [frame EXCEPT ![w] = "out"]
-----------------------------------------------------------------------------
(* Kotlin, on the worker's thread.                                         *)

SetMessageHandler(c, present) ==
    /\ handlers' = IF present THEN handlers \union {c} ELSE handlers \ {c}
    /\ UNCHANGED <<poolVars, dartVars, nativeVars, kotlinVars>>

(* handleMessageFromDart looks the handler up and calls it, or replies.    *)
CallHandler(w) == /\ frame[w] = "lookup"
                  /\ ChannelsOf(hand[w]) \intersect handlers # {}
                  /\ frame' = [frame EXCEPT ![w] = "handler"]
                  /\ UNCHANGED <<poolVars, dartVars, nativeVars, done, held, handlers>>

NoHandler(w) == /\ frame[w] = "lookup"
                /\ ChannelsOf(hand[w]) \ handlers # {}
                /\ ReplyMessageToDart(hand[w], "null")
                /\ Leave(w)
                /\ UNCHANGED <<dartVars, done, held, handlers>>

(* decodeMethodCall is outside the method channel's try: what it throws    *)
(* reaches the messenger's catch, which replies null.                      *)
DecodeFails(w) == /\ frame[w] = "lookup"
                  /\ ChannelsOf(hand[w]) \intersect handlers \intersect MethodChannels # {}
                  /\ ReplyMessageToDart(hand[w], "null")
                  /\ Leave(w)
                  /\ UNCHANGED <<dartVars, done, held, handlers>>

(***************************************************************************)
(* The handler of the application (external).  It may answer through its   *)
(* Reply, keep the Reply for another thread, return, or throw.  Keeping    *)
(* the contract means answering exactly once, now or later, and throwing   *)
(* only before it has answered or kept the Reply.                          *)
(***************************************************************************)
Spoken(t) == t \in done \union held

(* Reply.reply: the second call throws "Reply already submitted".          *)
HandlerAnswers(w, val) ==
    LET t == hand[w] IN
    /\ frame[w] = "handler"
    /\ Contract => ~Spoken(t)
    /\ IF t \in done
       THEN /\ frame' = [frame EXCEPT ![w] = "threw"]
            /\ UNCHANGED <<done, nativeVars>>
       ELSE /\ done' = done \union {t}
            /\ ReplyMessageToDart(t, val)
            /\ UNCHANGED frame
    /\ UNCHANGED <<poolVars, dartVars, held, handlers>>

HandlerDefers(w) == /\ frame[w] = "handler"
                    /\ hand[w] \notin held
                    /\ Contract => ~Spoken(hand[w])
                    /\ held' = held \union {hand[w]}
                    /\ UNCHANGED <<poolVars, dartVars, nativeVars, frame, done, handlers>>

(* Faulty: a handler that returns without an answer is answered for.       *)
ReturnAnswers(w) == /\ frame[w] = "handler"
                    /\ Contract => Spoken(hand[w])
                    /\ IF hand[w] \in done THEN UNCHANGED nativeVars
                       ELSE ReplyMessageToDart(hand[w], "null")
                    /\ Leave(w)
                    /\ UNCHANGED <<dartVars, done, held, handlers>>

(* Faulty: the message is freed when the call returns, not when answered.  *)
ReturnFrees(w) == /\ frame[w] = "handler"
                  /\ Contract => Spoken(hand[w])
                  /\ freed' = [u \in Task |-> IF u = hand[w] THEN freed[u] + 1 ELSE freed[u]]
                  /\ Leave(w)
                  /\ UNCHANGED <<dartVars, port, replyPort, done, held, handlers>>

HandlerReturns(w) == /\ frame[w] = "handler"
                     /\ Contract => Spoken(hand[w])
                     /\ Leave(w)
                     /\ UNCHANGED <<dartVars, nativeVars, done, held, handlers>>

(* "threw" is a RuntimeException, "raised" any other exception.            *)
HandlerThrows(w) == /\ frame[w] = "handler"
                    /\ Contract => ~Spoken(hand[w])
                    /\ \E how \in {"threw", "raised"} : frame' = [frame EXCEPT ![w] = how]
                    /\ UNCHANGED <<poolVars, dartVars, nativeVars, done, held, handlers>>

(* The method channel catches a RuntimeException first and answers with an *)
(* error envelope through the Reply.                                       *)
MethodChannelCatches(w) ==
    LET t == hand[w] IN
    /\ frame[w] = "threw"
    /\ ChannelsOf(t) \intersect MethodChannels # {}
    /\ t \notin done
    /\ done' = done \union {t}
    /\ ReplyMessageToDart(t, "data")
    /\ Leave(w)
    /\ UNCHANGED <<dartVars, held, handlers>>

(* Faulty: the exception is logged and not answered.                       *)
CatchAndLog(w) == /\ frame[w] \in {"threw", "raised"}
                  /\ Leave(w)
                  /\ UNCHANGED <<dartVars, nativeVars, done, held, handlers>>

(* The messenger catches what a raw handler threw, what is not a           *)
(* RuntimeException, and what the Reply threw at the method channel's own  *)
(* catch; it replies natively, past the Reply.                             *)
MessengerCatches(w) ==
    LET t == hand[w] IN
    /\ \/ frame[w] = "raised"
       \/ frame[w] = "threw" /\ (t \in done \/ ChannelsOf(t) \ MethodChannels # {})
    /\ ReplyMessageToDart(t, "null")
    /\ Leave(w)
    /\ UNCHANGED <<dartVars, done, held, handlers>>

(* Another thread of the application answers through a kept Reply; if it   *)
(* was answered already the exception stays in that thread.                *)
LateReply(t, val) ==
    /\ t \in held
    /\ held' = held \ {t}
    /\ IF t \in done
       THEN UNCHANGED <<done, nativeVars>>
       ELSE done' = done \union {t} /\ ReplyMessageToDart(t, val)
    /\ UNCHANGED <<poolVars, dartVars, frame, handlers>>
-----------------------------------------------------------------------------
Handler(w) == \/ \E val \in {"data", "null"} : HandlerAnswers(w, val)
              \/ HandlerDefers(w) \/ HandlerReturns(w) \/ HandlerThrows(w)

InCall(w) == \/ CallHandler(w) \/ NoHandler(w) \/ DecodeFails(w) \/ Handler(w)
             \/ MethodChannelCatches(w) \/ MessengerCatches(w)

Answer(t) == \E val \in {"data", "null"} : LateReply(t, val)

Next == \/ \E i \in Isolates : \/ InitializeChannel(i) \/ Notify(i)
                               \/ OnReply(i) \/ OnReplyThrows(i)
                               \/ Shutdown(i) \/ SendFails(i)
                               \/ \E c \in Channels : Send(i, c)
        \/ \E w \in Workers : Wait(w) \/ Wake(w) \/ Pop(w) \/ InCall(w)
        \/ \E t \in Task \union Stray : Answer(t)
        \/ \E c \in Channels, present \in BOOLEAN : SetMessageHandler(c, present)

Spec == Init /\ [][Next]_vars

(***************************************************************************)
(* The threads of the pool and the isolate's event loop keep running, a    *)
(* handler that has been entered takes its next step, and a kept Reply is  *)
(* used in the end: the last two are the handlers' side of the contract.   *)
(***************************************************************************)
Fairness == /\ \A i \in Isolates : WF_vars(Notify(i)) /\ WF_vars(OnReply(i) \/ OnReplyThrows(i))
            /\ \A w \in Workers : WF_vars(Wait(w)) /\ WF_vars(Pop(w)) /\ WF_vars(InCall(w))
            /\ \A t \in Task : WF_vars(Answer(t))

FairSpec == Spec /\ Fairness
-----------------------------------------------------------------------------
Inside == {"lookup", "handler", "threw", "raised"}
Reply  == [seq : Nat, by : AnyTask, val : Val]

(* Every variable has its type; a request is recorded for every push.      *)
TypeOK == /\ PoolTypeOK
          /\ req \in Seq([iso : Isolates, seq : Nat, chan : Channels])
          /\ Len(req) = pushed
          /\ nextSeq \in [Isolates -> Nat]
          /\ waiting \subseteq 1..pushed
          /\ orphans \subseteq [iso : Isolates, seq : Nat]
          /\ result \in [Task -> [by : AnyTask, val : Val \union {"none"}]]
          /\ unread \in [Task -> Nat]
          /\ port \in [Isolates -> Seq(Reply)]
          /\ replyPort \in Isolates \union {NoPort}
          /\ handlers \subseteq Channels
          /\ frame \in [Workers -> {"out"} \union Inside]
          /\ done \subseteq 1..pushed \union Stray
          /\ held \subseteq 1..pushed \union Stray
          /\ freed \in [Task -> Nat]

(* The assertion of onReply: the reply at the head of a live isolate's     *)
(* port has a completer under its sequence number.                         *)
CompleterPresent ==
    \A i \in Isolates : port[i] # << >> =>
       LET s == Head(port[i]).seq
       IN  Completers(i, s) # {} \/ [iso |-> i, seq |-> s] \in orphans

(* ... which holds of an isolate that is alone, whatever the number of     *)
(* workers and the order of the answers, until the queue underruns.        *)
CompleterPresentUntilUnderrun == ~NoUnderrun \/ CompleterPresent

(* "The sequence number of messages that is used to identify result        *)
(* completer": a future is completed with the answer to its own message.   *)
AnswersMatch == ~NoUnderrun \/ \A t \in Task : result[t].val # "none" => result[t].by = t

(* Sequence numbers are confused between isolates only, each counting from *)
(* 1 and sharing one replyPort_: never between two messages of one isolate.*)
ForeignAnswersOnly ==
    ~NoUnderrun \/ \A t \in Task :
        result[t].val # "none" /\ result[t].by # t
        => /\ req[result[t].by].iso # req[t].iso
           /\ req[result[t].by].seq = req[t].seq

(* A send that failed has left a completer behind, and a number; no reply  *)
(* to an isolate that is alone ever bears that number.                     *)
FailedSendsUnanswered ==
    ~NoUnderrun \/ \A i \in Isolates : \A k \in DOMAIN port[i] :
                     [iso |-> i, seq |-> port[i][k].seq] \notin orphans

(* "Reply already submitted": a message is answered, and its memory freed, *)
(* at most once, although three paths lead to replyMessageToDart, until a  *)
(* stray task frees a message it does not own.                             *)
AnsweredOnce == ~NoUnderrun \/ \A t \in Task : freed[t] <= 1

(* "The message will be freed and become no longer available after reply": *)
(* it is not freed while a handler, or the thread that keeps its Reply,    *)
(* has yet to answer and can still read it, until a stray task frees it.   *)
Readable(t) == t \in held \/ \E w \in Workers : frame[w] \in Inside /\ hand[w] = t

MessageAlive == ~NoUnderrun \/ \A t \in Task \ done : Readable(t) => freed[t] = 0

(* For a completer that is still waiting, as many replies are queued on    *)
(* its isolate's port, or made onReply throw, as its message was answered: *)
(* nothing else between freeing the request and completing the future      *)
(* loses an answer or doubles one.                                         *)
RepliesAccountedFor ==
    ~NoUnderrun \/ \A t \in waiting :
        LET p == port[req[t].iso]
        IN  Cardinality({k \in DOMAIN p : p[k].seq = req[t].seq}) + unread[t] = freed[t]

(* A message a worker has taken is answered in the end, if the isolate     *)
(* lives: workers, handlers, late replies and the event loop do not        *)
(* deadlock one another, and only an unassigned wrapper loses an answer.   *)
Abandoned(t) == t <= pushed /\ ipc[req[t].iso] = "dead"

TakenIsAnswered ==
    \A t \in Task : (popped >= t) ~> (\/ result[t].val # "none" \/ unread[t] > 0
                                      \/ ~NoUnderrun \/ Abandoned(t))

(* Completing a future is final: no later reply changes it.                *)
CompletedOnce == [][\A t \in Task : result[t].val # "none" => result'[t] = result[t]]_vars

(***************************************************************************)
(* The channel as its caller sees it.                                      *)
(***************************************************************************)
FutureOf(t) == IF t > pushed THEN "none"
               ELSE IF t \in waiting THEN "pending"
               ELSE IF result[t].val # "none" THEN "completed"
               ELSE "abandoned"

RR == INSTANCE RequestReply WITH Requests <- Task,
                                 future   <- [t \in Task |-> FutureOf(t)],
                                 answered <- {t \in Task : freed[t] > 0}

(* For an isolate that is alone each step up to the first pop of an empty  *)
(* queue is a step of request and reply, or invisible to the caller: no    *)
(* future is completed before its message was answered.                    *)
RepliesUntilUnderrun == [][NoUnderrun' => [RR!Next]_(RR!vars)]_vars
=============================================================================
