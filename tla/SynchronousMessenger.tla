------------------------ MODULE SynchronousMessenger ------------------------
(***************************************************************************)
(* The synchronous channel: Dart's send() calls                            *)
(* SendSynchronousMessageToPlatform (synchronous_channel.cc) through FFI,  *)
(* on the thread of the isolate; that calls handleMessageFromDart of       *)
(* SynchronousNativeBinaryMessenger.kt, and it the handler.                *)
(*                                                                         *)
(* It uses what NativeStart sets up, and runs beside it: the isolates may  *)
(* initialise the concurrent channel between two calls.  Its own cache of  *)
(* a class and a method is filled without a lock too.                      *)
(***************************************************************************)
EXTENDS NativeStart

CONSTANTS Checked,         \* may the handler throw what is no RuntimeException
          ZeroedHeap       \* does operator new happen to return zeroed memory

ASSUME SyncAssumption == Checked \in BOOLEAN /\ ZeroedHeap \in BOOLEAN

VARIABLES pc,         \* pc[i]: where the call of isolate i is
          class_,     \* is handle_message_from_dart_class_ set
          method_,    \* is handle_message_from_dart_method_ set
          reply,      \* reply[i]: what the platform made of the call
          wrapper,    \* wrapper[i]: the data pointer of the result wrapper
          outcome,    \* outcome[i]: what the last call gave its Dart caller
          handler     \* the handler registered: none, a raw one, a method channel's

syncCache  == <<class_, method_>>
results    == <<reply, wrapper, outcome>>
syncVars   == <<pc, syncCache, results, handler>>
vars       == <<startVars, syncVars>>

Pc == {"idle", "check", "find", "getMethod", "call", "platform", "wrap", "detach", "back"}

Init == /\ StartInit
        /\ pc = [i \in Isolates |-> "idle"]
        /\ class_ = FALSE /\ method_ = FALSE
        /\ reply = [i \in Isolates |-> "none"]
        /\ wrapper = [i \in Isolates |-> "none"]
        /\ outcome = [i \in Isolates |-> "none"]
        /\ handler = "none"

Goto(i, from, to) == pc[i] = from /\ pc' = [pc EXCEPT ![i] = to]

(* The isolate's thread is not inside InitializeChannel.                   *)
Free(i) == pc[i] = "idle" /\ start[i] \in {"new", "up"}
-----------------------------------------------------------------------------
(* The JniEnv of the call reads jvm_.                                      *)
Send(i) == /\ Free(i)
           /\ IF loaded < Vm THEN crash' = "vm" /\ UNCHANGED <<pc, attached, outcome>>
              ELSE /\ Goto(i, "idle", "check")
                   /\ Attach(i)
                   /\ outcome' = [outcome EXCEPT ![i] = "none"]
                   /\ UNCHANGED crash
           /\ UNCHANGED <<sharedVars, pending, refs, syncCache, reply, wrapper, handler>>

CheckClass(i) == /\ Goto(i, "check", IF class_ THEN "call" ELSE "find")
                 /\ UNCHANGED <<startVars, syncCache, results, handler>>

(* Faulty: the class is looked up again until it is found.                 *)
FindClassRetries(i) == /\ Goto(i, "find", "check")
                       /\ UNCHANGED <<startVars, syncCache, results, handler>>

FindClass(i) ==
    /\ pc[i] = "find"
    /\ \/ FindFails(i) /\ UNCHANGED <<pc, class_, refs>>
       \/ /\ Finds(i)
          /\ IF Room(i, FindRefs) THEN class_' = TRUE /\ Goto(i, "find", "getMethod")
             ELSE UNCHANGED <<pc, class_>>
    /\ UNCHANGED <<sharedVars, attached, pending, method_, results, handler>>

(* Faulty: the signature does not match, and null is returned.             *)
GetNoMethodID(i) == /\ Goto(i, "getMethod", "call")
                    /\ UNCHANGED <<startVars, syncCache, results, handler>>

GetStaticMethodID(i) == /\ Goto(i, "getMethod", "call")
                        /\ method_' = TRUE
                        /\ UNCHANGED <<startVars, class_, results, handler>>

(* NewDirectByteBuffer, a local reference, and CallStaticObjectMethod.     *)
(* With an exception pending from an earlier call the behaviour is         *)
(* undefined: the process is stopped, or the call returns at once with the *)
(* exception still pending.                                                *)
CallStaticObjectMethod(i) ==
    /\ pc[i] = "call"
    /\ \/ /\ i \in pending \/ ~method_
          /\ crash' = IF method_ THEN "exception" ELSE "method"
          /\ UNCHANGED <<pc, refs, reply>>
       \/ /\ method_
          /\ Claim(i, 1)
          /\ IF ~Room(i, 1) THEN UNCHANGED <<pc, reply>>
             ELSE IF i \in pending
             THEN Goto(i, "call", "wrap") /\ reply' = [reply EXCEPT ![i] = "thrown"]
             ELSE Goto(i, "call", "platform") /\ UNCHANGED reply
    /\ UNCHANGED <<sharedVars, attached, pending, syncCache, wrapper, outcome, handler>>
-----------------------------------------------------------------------------
(* Kotlin.  "value" is a success envelope or a raw reply, "error" an error *)
(* envelope, "null" no reply, "thrown" an exception that leaves            *)
(* handleMessageFromDart.                                                  *)

(* encodeEnvelope of a SynchronousResult.                                  *)
Envelope == [Success |-> "value", Error |-> "error", Unimplemented |-> "null"]
Envelopes == {Envelope[type] : type \in DOMAIN Envelope}

(***************************************************************************)
(* What onMessage makes of the handler: a method channel encodes its result*)
(* and turns a RuntimeException into an error envelope; it lets through    *)
(* whatever else is thrown, as the messenger does for a raw handler.  (An  *)
(* exception of decodeMethodCall, which only a message of another codec    *)
(* causes, goes the same way and is left out with Checked.)                *)
(***************************************************************************)
Replies == [none   |-> {"null"},
            raw    |-> {"value", "null", "thrown"},
            method |-> Envelopes \union {"error"} \union IF Checked THEN {"thrown"} ELSE {}]

Data == {"value", "error"}

(* A reply comes back as a local reference.                                *)
HandleMessageFromDart(i) ==
    /\ pc[i] = "platform"
    /\ \E r \in Replies[handler] :
          LET n == IF r \in Data THEN 1 ELSE 0
          IN  /\ Claim(i, n)
              /\ IF ~Room(i, n) THEN UNCHANGED <<pc, reply, pending>>
                 ELSE /\ Goto(i, "platform", "wrap")
                      /\ reply' = [reply EXCEPT ![i] = r]
                      /\ pending' = IF r = "thrown" THEN pending \union {i} ELSE pending
    /\ UNCHANGED <<sharedVars, attached, syncCache, wrapper, outcome, handler>>

SetMessageHandler(kind) == handler' = kind /\ UNCHANGED <<startVars, pc, syncCache, results>>
-----------------------------------------------------------------------------
(* new SynchronousResultWrapper leaves data unassigned, and only a reply   *)
(* assigns it; the result of a call that threw is null.                    *)
Unassigned == IF ZeroedHeap THEN {"null"} ELSE {"null", "junk"}

Wrap(i) == /\ Goto(i, "wrap", "detach")
           /\ \E d \in IF reply[i] \in Data THEN {"data"} ELSE Unassigned :
                 wrapper' = [wrapper EXCEPT ![i] = d]
           /\ UNCHANGED <<startVars, syncCache, reply, outcome, handler>>

(* Faulty: the destructor always detaches.                                 *)
DetachAlways(i) == /\ Goto(i, "detach", "back")
                   /\ attached' = attached \ {i} /\ refs' = [refs EXCEPT ![i] = 0]
                   /\ UNCHANGED <<sharedVars, pending, crash, syncCache, results, handler>>

(* Faulty: the destructor does not detach.                                 *)
DetachNever(i) == /\ Goto(i, "detach", "back")
                  /\ UNCHANGED <<startVars, syncCache, results, handler>>

(* The destructor of JniEnv.  A thread that is detached hands a pending    *)
(* exception to the uncaught exception handler, which ends the process.    *)
Detach(i) == /\ pc[i] = "detach"
             /\ IF i \in pending \ EngineThreads
                THEN crash' = "exception" /\ UNCHANGED <<pc, attached, refs>>
                ELSE Goto(i, "detach", "back") /\ Release(i) /\ UNCHANGED crash
             /\ UNCHANGED <<sharedVars, pending, syncCache, results, handler>>

(* What send() returns and invokeMethod makes of it: the decoded envelope, *)
(* or null if the data pointer is.                                         *)
Outcome(i) == IF wrapper[i] = "data" THEN reply[i] ELSE wrapper[i]

(* The call gives o to its caller, and its locals are gone.                *)
Returns(i, o) == /\ Goto(i, "back", "idle")
                 /\ outcome' = [outcome EXCEPT ![i] = o]
                 /\ reply' = [reply EXCEPT ![i] = "none"]
                 /\ wrapper' = [wrapper EXCEPT ![i] = "none"]
                 /\ UNCHANGED <<startVars, syncCache, handler>>

NeedsApi(i) == wrapper[i] # "null" /\ Weak \notin linked
NullApi(i)  == /\ pc[i] = "back" /\ NeedsApi(i)
               /\ crash' = "api"
               /\ UNCHANGED <<sharedVars, threadVars, syncVars>>

(* Faulty: the reply is taken for the outcome whatever the wrapper holds.  *)
ReceiveReply(i) == NullApi(i) \/ (~NeedsApi(i) /\ Returns(i, reply[i]))

(* Back in Dart: a pointer that is not null is shown as typed data, whose  *)
(* finalizer is registered through the Dart API.                           *)
Receive(i) == NullApi(i) \/ (~NeedsApi(i) /\ Returns(i, Outcome(i)))

Step(i) == \/ CheckClass(i) \/ FindClass(i) \/ GetStaticMethodID(i)
           \/ CallStaticObjectMethod(i) \/ HandleMessageFromDart(i)
           \/ Wrap(i) \/ Detach(i) \/ Receive(i)

(* The library and the concurrent channel come up meanwhile.               *)
Background == /\ \/ JNI_OnLoad
                 \/ \E i \in Isolates : \/ pc[i] = "idle" /\ InitializeChannel(i)
                                        \/ WorkerStep(i)
              /\ UNCHANGED syncVars

Next == /\ crash = "none"
        /\ \/ \E i \in Isolates : Send(i) \/ Step(i)
           \/ \E kind \in DOMAIN Replies : SetMessageHandler(kind)
           \/ Background

Spec == Init /\ [][Next]_vars

(* A thread in a call runs on, and the handler returns.                    *)
FairSpec == Spec /\ \A i \in Isolates : WF_vars(crash = "none" /\ Step(i))
-----------------------------------------------------------------------------
InJni == Pc \ {"idle", "back"}

(* Types: a Java exception never becomes the outcome of a call.            *)
TypeOK == /\ pc \in [Isolates -> Pc] /\ start \in [Isolates -> StartPc]
          /\ loaded \in NotLoaded..Runtime /\ linked \subseteq {Post, Weak}
          /\ class_ \in BOOLEAN /\ method_ \in BOOLEAN
          /\ attached \subseteq Isolates /\ pending \subseteq Isolates
          /\ refs \in [Isolates -> 0..LocalCapacity]
          /\ reply \in [Isolates -> {"none", "value", "error", "null", "thrown"}]
          /\ wrapper \in [Isolates -> {"none", "data", "null", "junk"}]
          /\ outcome \in [Isolates -> {"none", "value", "error", "null", "junk"}]
          /\ handler \in DOMAIN Replies

(* A JniEnv leaves its thread as it found it: attached for as long as the  *)
(* call makes JNI calls, and afterwards only if the engine attached it.    *)
ThreadsAsFound ==
    \A i \in Isolates :
       /\ pc[i] \in InJni \/ start[i] = "getMethod" => i \in attached
       /\ pc[i] \in {"idle", "back"} /\ start[i] # "getMethod"
          => (i \in attached <=> i \in EngineThreads)

(* The class is tested, but the method used: a call finds it null only     *)
(* while another isolate is between the assignments of the two statics.    *)
NullMethodWindow ==
    \A i \in Isolates : pc[i] = "call" /\ ~method_
                        => class_ /\ \E j \in Isolates \ {i} : pc[j] = "getMethod"

(* The most local references one call makes: FindClass, message, reply.    *)
CallRefs == FindRefs + 2

(* No local reference is deleted, but those of a thread that the engine    *)
(* did not attach go with each call: only an engine thread can pile up     *)
(* enough to fill its table.                                               *)
LocalReferencesFreed ==
    /\ \A i \in Isolates \ EngineThreads :
          refs[i] <= CallRefs /\ (i \notin attached => refs[i] = 0)
    /\ crash = "refs" /\ CallRefs <= LocalCapacity
       => \E i \in EngineThreads : refs[i] + FindRefs > LocalCapacity

(* What ends the process is each time something that happened before.  A   *)
(* null JavaVM or class loader is used only before any class was found;    *)
(* null API functions, of a VM that has them, only before an isolate is    *)
(* past the linking; a null method only while another isolate looks one up;*)
(* and an exception of an earlier call is met on an engine thread alone,   *)
(* as any other thread ends the process when it is detached.               *)
CrashCauses ==
    /\ crash = "vm" => ~class_ /\ ~workerClass
    /\ crash = "api" /\ SameMajor /\ {Post, Weak} \subseteq Provided
       => \A i \in Isolates : start[i] \in {"new", "link"}
    /\ crash = "method" => \E i \in Isolates : pc[i] = "getMethod" \/ start[i] = "getMethod"
    /\ crash = "exception" => \E i \in pending : i \in EngineThreads \/ pc[i] = "detach"

(* A call comes back to Dart.                                              *)
CallReturns == \A i \in Isolates : pc[i] # "idle" ~> (pc[i] = "idle" \/ crash # "none")
=============================================================================
