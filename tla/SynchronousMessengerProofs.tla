--------------------- MODULE SynchronousMessengerProofs ---------------------
(* Theorems about SynchronousMessenger, for every set of isolates.         *)
EXTENDS SynchronousMessenger, NativeStartProofs

(* The two statics: while the class is set and the method is not, the      *)
(* isolate that set the class has yet to set the method.                   *)
CacheInv ==
    /\ pc \in [Isolates -> Pc]
    /\ \A i \in Isolates : pc[i] \in {"getMethod", "call"} => class_
    /\ class_ /\ ~method_ => \E j \in Isolates : pc[j] = "getMethod"

(* A thread is in one JniEnv at most, and attached while it is in one; the *)
(* engine's threads always are, and no others.                             *)
InEnv(i) == pc[i] \in InJni \/ start[i] = "getMethod"

ThreadInv == /\ pc \in [Isolates -> Pc] /\ start \in [Isolates -> StartPc]
             /\ EngineThreads \subseteq attached
             /\ \A i \in Isolates : pc[i] # "idle" => start[i] \in {"new", "up"}
             /\ \A i \in Isolates \ EngineThreads : i \in attached <=> InEnv(i)

(* The local references that a thread can have got where it is.            *)
RefsAt(i) == IF pc[i] \in {"idle", "check", "find", "back"}
             THEN IF start[i] = "getMethod" THEN FindRefs ELSE 0
             ELSE IF pc[i] \in {"getMethod", "call"} THEN FindRefs
             ELSE IF pc[i] = "platform" THEN FindRefs + 1 ELSE CallRefs

RefsInv == /\ refs \in [Isolates -> 0..LocalCapacity]
           /\ \A i \in Isolates \ EngineThreads : refs[i] <= RefsAt(i)
           /\ crash = "refs" /\ CallRefs <= LocalCapacity
              => \E i \in EngineThreads : refs[i] + FindRefs > LocalCapacity

(* What has no type of its own: only the reply may be an exception, and a  *)
(* wrapper has data only of a reply.                                       *)
ValueInv ==
    /\ reply \in [Isolates -> {"none", "value", "error", "null", "thrown"}]
    /\ wrapper \in [Isolates -> {"none", "data", "null", "junk"}]
    /\ outcome \in [Isolates -> {"none", "value", "error", "null", "junk"}]
    /\ \A i \in Isolates : wrapper[i] = "data" => reply[i] \in Data
    /\ \A i \in Isolates : wrapper[i] # "none" => pc[i] \in {"detach", "back"}
    /\ pc \in [Isolates -> Pc]
    /\ handler \in DOMAIN Replies
    /\ class_ \in BOOLEAN /\ method_ \in BOOLEAN
    /\ attached \subseteq Isolates /\ pending \subseteq Isolates
    /\ linked \subseteq {Post, Weak}

LEMMA BackgroundStarts == Background /\ crash = "none" => StartNext
BY DEF Background, StartNext

LEMMA OthersKeepStart ==
    ASSUME NEW i \in Isolates, Send(i) \/ Step(i)
    PROVE  UNCHANGED sharedVars
BY DEF Step, Send, CheckClass, FindClass, GetStaticMethodID, CallStaticObjectMethod,
       HandleMessageFromDart, Wrap, Detach, Receive, NullApi, Returns, startVars

(* The sending of messages and the start of the library do not disturb     *)
(* each other.                                                             *)
LEMMA SyncStartStep == StartInv /\ [Next]_vars => StartInv'
<1> SUFFICES ASSUME StartInv, [Next]_vars PROVE StartInv'
  OBVIOUS
<1>1. CASE Background /\ Next
  BY <1>1, BackgroundStarts, StartStep DEF Next
<1>2. CASE \E i \in Isolates : Send(i) \/ Step(i)
  BY <1>2, OthersKeepStart, StartKept
<1>3. CASE (\E kind : SetMessageHandler(kind)) \/ UNCHANGED vars
  BY <1>3, StartKept DEF SetMessageHandler, vars, startVars
<1>4. QED
  BY <1>1, <1>2, <1>3 DEF Next

LEMMA CacheStep == CacheInv /\ [Next]_vars => CacheInv'
<1> SUFFICES ASSUME CacheInv, [Next]_vars PROVE CacheInv'
  OBVIOUS
<1> USE DEF CacheInv, Pc, Goto, syncCache
<1>1. ASSUME NEW i \in Isolates, Send(i) PROVE CacheInv'
  BY <1>1 DEF Send
<1>2. ASSUME NEW i \in Isolates, CheckClass(i) PROVE CacheInv'
  BY <1>2, Zenon DEF CheckClass
<1>3. ASSUME NEW i \in Isolates, FindClass(i) PROVE CacheInv'
  BY <1>3 DEF FindClass, FindFails, Finds
<1>4. ASSUME NEW i \in Isolates, GetStaticMethodID(i) PROVE CacheInv'
  BY <1>4 DEF GetStaticMethodID
<1>5. ASSUME NEW i \in Isolates, CallStaticObjectMethod(i) PROVE CacheInv'
  BY <1>5 DEF CallStaticObjectMethod
<1>6. ASSUME NEW i \in Isolates, HandleMessageFromDart(i) PROVE CacheInv'
  BY <1>6 DEF HandleMessageFromDart
<1>7. ASSUME NEW i \in Isolates, Wrap(i) PROVE CacheInv'
  BY <1>7 DEF Wrap
<1>8. ASSUME NEW i \in Isolates, Detach(i) PROVE CacheInv'
  BY <1>8 DEF Detach, Release
<1>9. ASSUME NEW i \in Isolates, Receive(i) PROVE CacheInv'
  BY <1>9 DEF Receive, NullApi, Returns, syncVars
<1>10. CASE Background \/ (\E kind : SetMessageHandler(kind)) \/ UNCHANGED vars
  BY <1>10 DEF Background, SetMessageHandler, vars, syncVars
<1>11. QED
  BY <1>1, <1>2, <1>3, <1>4, <1>5, <1>6, <1>7, <1>8, <1>9, <1>10 DEF Next, Step

(* The steps of InitializeChannel that leave the threads alone.            *)
LEMMA ThreadBackground == ThreadInv /\ StageInv /\ Background => ThreadInv'
<1> SUFFICES ASSUME ThreadInv, StageInv, Background PROVE ThreadInv'
  OBVIOUS
<1> USE DEF ThreadInv, InEnv, Pc, InJni, StartPc, Move, syncVars, threadVars
<1>1. UNCHANGED pc
  BY DEF Background
<1>2. CASE JNI_OnLoad
  BY <1>1, <1>2 DEF JNI_OnLoad
<1>3. ASSUME NEW i \in Isolates, pc[i] = "idle", InitializeChannel(i) PROVE ThreadInv'
  <2>1. CASE InitializeApiDL(i) \/ LinkSymbol(i) \/ CheckWorkerClass(i) \/ StartThreads(i)
    BY <1>1, <1>3, <2>1 DEF InitializeApiDL, LinkSymbol, CheckWorkerClass, StartThreads
  <2>2. CASE FindWorkerClass(i)
    BY <1>1, <1>3, <2>2 DEF FindWorkerClass, FindFails, Finds, Attach
  <2>3. CASE GetWorkerMethod(i)
    BY <1>1, <1>3, <2>3 DEF GetWorkerMethod, Release
  <2>4. QED
    BY <1>3, <2>1, <2>2, <2>3 DEF InitializeChannel
<1>4. ASSUME NEW i \in Isolates, WorkerStep(i) PROVE ThreadInv'
  BY <1>1, <1>4 DEF WorkerStep, TakeMessage, CallStaticVoidMethod, PostInteger
<1>5. QED
  BY <1>2, <1>3, <1>4 DEF Background

LEMMA ThreadStep == ThreadInv /\ StageInv /\ [Next]_vars => ThreadInv'
<1> SUFFICES ASSUME ThreadInv, StageInv, [Next]_vars PROVE ThreadInv'
  OBVIOUS
<1> USE DEF ThreadInv, InEnv, Pc, InJni, StartPc, Goto, Free, Attach, sharedVars, threadVars,
            startVars
<1>1. ASSUME NEW i \in Isolates, Send(i) PROVE ThreadInv'
  BY <1>1 DEF Send
<1>2. ASSUME NEW i \in Isolates, CheckClass(i) PROVE ThreadInv'
  BY <1>2 DEF CheckClass
<1>3. ASSUME NEW i \in Isolates, FindClass(i) PROVE ThreadInv'
  BY <1>3 DEF FindClass, FindFails, Finds
<1>4. ASSUME NEW i \in Isolates, GetStaticMethodID(i) PROVE ThreadInv'
  BY <1>4 DEF GetStaticMethodID
<1>5. ASSUME NEW i \in Isolates, CallStaticObjectMethod(i) PROVE ThreadInv'
  BY <1>5 DEF CallStaticObjectMethod
<1>6. ASSUME NEW i \in Isolates, HandleMessageFromDart(i) PROVE ThreadInv'
  BY <1>6 DEF HandleMessageFromDart
<1>7. ASSUME NEW i \in Isolates, Wrap(i) PROVE ThreadInv'
  BY <1>7 DEF Wrap
<1>8. ASSUME NEW i \in Isolates, Detach(i) PROVE ThreadInv'
  BY <1>8 DEF Detach, Release
<1>9. ASSUME NEW i \in Isolates, Receive(i) PROVE ThreadInv'
  BY <1>9 DEF Receive, NullApi, Returns, syncVars
<1>10. CASE Background
  BY <1>10, ThreadBackground
<1>11. CASE (\E kind : SetMessageHandler(kind)) \/ UNCHANGED vars
  BY <1>11 DEF SetMessageHandler, vars, syncVars
<1>12. QED
  BY <1>1, <1>2, <1>3, <1>4, <1>5, <1>6, <1>7, <1>8, <1>9, <1>10, <1>11 DEF Next, Step

LEMMA RefsBackground == RefsInv /\ ThreadInv /\ Background => RefsInv'
<1> SUFFICES ASSUME RefsInv, ThreadInv, Background PROVE RefsInv'
  OBVIOUS
<1> USE StartAssumption
    DEF RefsInv, ThreadInv, RefsAt, FindRefs, CallRefs, Pc, StartPc, Move, StartAssumption,
        syncVars, threadVars
<1>1. UNCHANGED pc
  BY DEF Background
<1>2. CASE JNI_OnLoad
  BY <1>1, <1>2 DEF JNI_OnLoad
<1>3. ASSUME NEW i \in Isolates, pc[i] = "idle", InitializeChannel(i) PROVE RefsInv'
  <2>1. CASE InitializeApiDL(i) \/ LinkSymbol(i) \/ CheckWorkerClass(i) \/ StartThreads(i)
    BY <1>1, <1>3, <2>1 DEF InitializeApiDL, LinkSymbol, CheckWorkerClass, StartThreads
  <2>2. CASE FindWorkerClass(i)
    BY <1>1, <1>3, <2>2 DEF FindWorkerClass, FindFails, Finds, Claim, Room
  <2>3. CASE GetWorkerMethod(i)
    BY <1>1, <1>3, <2>3 DEF GetWorkerMethod, Release
  <2>4. QED
    BY <1>3, <2>1, <2>2, <2>3 DEF InitializeChannel
<1>4. ASSUME NEW i \in Isolates, WorkerStep(i) PROVE RefsInv'
  BY <1>1, <1>4 DEF WorkerStep, TakeMessage, CallStaticVoidMethod, PostInteger
<1>5. QED
  BY <1>2, <1>3, <1>4 DEF Background

LEMMA RefsStep == RefsInv /\ ThreadInv /\ [Next]_vars => RefsInv'
<1> SUFFICES ASSUME RefsInv, ThreadInv, [Next]_vars PROVE RefsInv'
  OBVIOUS
<1> USE StartAssumption
    DEF RefsInv, ThreadInv, RefsAt, FindRefs, CallRefs, Pc, StartPc, StartAssumption, Goto,
        Free, Claim, Room, sharedVars, threadVars, startVars
<1>1. ASSUME NEW i \in Isolates, Send(i) PROVE RefsInv'
  BY <1>1 DEF Send
<1>2. ASSUME NEW i \in Isolates, CheckClass(i) PROVE RefsInv'
  BY <1>2 DEF CheckClass
<1>3. ASSUME NEW i \in Isolates, FindClass(i) PROVE RefsInv'
  BY <1>3 DEF FindClass, FindFails, Finds
<1>4. ASSUME NEW i \in Isolates, GetStaticMethodID(i) PROVE RefsInv'
  BY <1>4 DEF GetStaticMethodID
<1>5. ASSUME NEW i \in Isolates, CallStaticObjectMethod(i) PROVE RefsInv'
  BY <1>5 DEF CallStaticObjectMethod
<1>6. ASSUME NEW i \in Isolates, HandleMessageFromDart(i) PROVE RefsInv'
  BY <1>6 DEF HandleMessageFromDart
<1>7. ASSUME NEW i \in Isolates, Wrap(i) PROVE RefsInv'
  BY <1>7 DEF Wrap
<1>8. ASSUME NEW i \in Isolates, Detach(i) PROVE RefsInv'
  BY <1>8 DEF Detach, Release
<1>9. ASSUME NEW i \in Isolates, Receive(i) PROVE RefsInv'
  BY <1>9 DEF Receive, NullApi, Returns, syncVars
<1>10. CASE Background
  BY <1>10, RefsBackground
<1>11. CASE (\E kind : SetMessageHandler(kind)) \/ UNCHANGED vars
  BY <1>11 DEF SetMessageHandler, vars, syncVars
<1>12. QED
  BY <1>1, <1>2, <1>3, <1>4, <1>5, <1>6, <1>7, <1>8, <1>9, <1>10, <1>11 DEF Next, Step

LEMMA ValueStep == ValueInv /\ LinkInv /\ [Next]_vars => ValueInv'
<1> SUFFICES ASSUME ValueInv, LinkInv, [Next]_vars PROVE ValueInv'
  OBVIOUS
<1> USE StartAssumption
    DEF ValueInv, StartAssumption, Pc, Goto, Data, Attach, sharedVars, threadVars, startVars,
        apiVars, syncCache, results
<1>1. ASSUME NEW i \in Isolates, Send(i) PROVE ValueInv'
  BY <1>1 DEF Send
<1>2. ASSUME NEW i \in Isolates, CheckClass(i) PROVE ValueInv'
  BY <1>2 DEF CheckClass
<1>3. ASSUME NEW i \in Isolates, FindClass(i) PROVE ValueInv'
  BY <1>3 DEF FindClass, FindFails, Finds
<1>4. ASSUME NEW i \in Isolates, GetStaticMethodID(i) PROVE ValueInv'
  BY <1>4 DEF GetStaticMethodID
<1>5. ASSUME NEW i \in Isolates, CallStaticObjectMethod(i) PROVE ValueInv'
  BY <1>5 DEF CallStaticObjectMethod
<1>6. ASSUME NEW i \in Isolates, HandleMessageFromDart(i) PROVE ValueInv'
  <2>1. PICK r \in Replies[handler] :
           \/ UNCHANGED <<pc, reply, pending>>
           \/ /\ Goto(i, "platform", "wrap")
              /\ reply' = [reply EXCEPT ![i] = r]
              /\ pending' = IF r = "thrown" THEN pending \union {i} ELSE pending
    BY <1>6 DEF HandleMessageFromDart
  <2>2. r \in {"value", "error", "null", "thrown"}
    BY DEF Replies, Envelopes, Envelope
  <2>3. QED
    BY <1>6, <2>1, <2>2 DEF HandleMessageFromDart
<1>7. ASSUME NEW i \in Isolates, Wrap(i) PROVE ValueInv'
  BY <1>7 DEF Wrap, Unassigned
<1>8. ASSUME NEW i \in Isolates, Detach(i) PROVE ValueInv'
  BY <1>8 DEF Detach, Release
<1>9. ASSUME NEW i \in Isolates, Receive(i) PROVE ValueInv'
  BY <1>9 DEF Receive, NullApi, Returns, Outcome, syncVars
<1>10. CASE Background
  <2>1. UNCHANGED syncVars
    BY <1>10 DEF Background
  <2>2. CASE JNI_OnLoad
    BY <2>1, <2>2 DEF JNI_OnLoad, syncVars
  <2>3. ASSUME NEW i \in Isolates, InitializeChannel(i) \/ WorkerStep(i)
        PROVE  attached' \subseteq Isolates /\ UNCHANGED pending /\ linked' \subseteq {Post, Weak}
    <3>1. CASE LinkSymbol(i)
      BY <3>1 DEF LinkSymbol, LinkInv, Symbols
    <3>2. CASE ~LinkSymbol(i)
      BY <2>3, <3>2 DEF InitializeChannel, InitializeApiDL, CheckWorkerClass, FindWorkerClass,
         Finds, FindFails, GetWorkerMethod, Release, StartThreads, WorkerStep, TakeMessage,
         CallStaticVoidMethod, PostInteger
    <3>3. QED
      BY <3>1, <3>2
  <2>4. QED
    BY <1>10, <2>1, <2>2, <2>3 DEF Background, syncVars
<1>11. CASE (\E kind \in DOMAIN Replies : SetMessageHandler(kind)) \/ UNCHANGED vars
  BY <1>11 DEF SetMessageHandler, vars, syncVars
<1>12. QED
  BY <1>1, <1>2, <1>3, <1>4, <1>5, <1>6, <1>7, <1>8, <1>9, <1>10, <1>11 DEF Next, Step

(* All of it together.                                                     *)
SyncInv == StartInv /\ CacheInv /\ ThreadInv /\ RefsInv /\ ValueInv

LEMMA SyncInvariant == Spec => []SyncInv
<1>1. Init => SyncInv
  <2> SUFFICES ASSUME Init PROVE SyncInv
    OBVIOUS
  <2>1. StartInit /\ StartInv
    BY StartInitInv DEF Init
  <2>2. CacheInv /\ ThreadInv
    BY <2>1, StartAssumption DEF StartAssumption, Init, StartInit, CacheInv, ThreadInv, InEnv,
       InJni, Pc, StartPc
  <2>3. RefsInv
    BY <2>1, StartAssumption DEF StartAssumption, Init, StartInit, RefsInv, RefsAt
  <2>4. ValueInv
    BY <2>1, StartAssumption DEF StartAssumption, Init, StartInit, ValueInv, Pc, Replies
  <2>5. QED
    BY <2>1, <2>2, <2>3, <2>4 DEF SyncInv
<1>2. SyncInv /\ [Next]_vars => SyncInv'
  BY SyncStartStep, CacheStep, ThreadStep, RefsStep, ValueStep DEF SyncInv, StartInv
<1>3. QED
  BY <1>1, <1>2, PTL DEF Spec

(* Types; in particular no caller gets a Java exception.                   *)
THEOREM SyncTypeCorrect == Spec => []TypeOK
<1>1. SyncInv => TypeOK
  BY DEF SyncInv, TypeOK, StartInv, StageInv, CacheInv, RefsInv, ValueInv
<1>2. QED
  BY <1>1, SyncInvariant, PTL

(* A call finds the method null only while another isolate is between the  *)
(* assignments of the class and of the method.                             *)
THEOREM NullMethodOnlyInWindow == Spec => []NullMethodWindow
<1>1. SyncInv => NullMethodWindow
  BY DEF SyncInv, CacheInv, NullMethodWindow
<1>2. QED
  BY <1>1, SyncInvariant, PTL

(* So an application with a single isolate never calls a null method.      *)
THEOREM SingleIsolateHasMethod ==
    ASSUME \A i, j \in Isolates : i = j
    PROVE  Spec => [](\A i \in Isolates : pc[i] = "call" => method_)
<1>1. NullMethodWindow => \A i \in Isolates : pc[i] = "call" => method_
  BY DEF NullMethodWindow
<1>2. QED
  BY <1>1, NullMethodOnlyInWindow, PTL

(* A JniEnv leaves the thread of every isolate as it found it.             *)
THEOREM ThreadsLeftAsFound == Spec => []ThreadsAsFound
<1>1. SyncInv => ThreadsAsFound
  <2> SUFFICES ASSUME ThreadInv, NEW i \in Isolates
               PROVE  /\ pc[i] \in InJni \/ start[i] = "getMethod" => i \in attached
                      /\ pc[i] \in {"idle", "back"} /\ start[i] # "getMethod"
                         => (i \in attached <=> i \in EngineThreads)
    BY DEF SyncInv, ThreadsAsFound
  <2>1. CASE i \in EngineThreads
    BY <2>1 DEF ThreadInv
  <2>2. CASE i \notin EngineThreads
    BY <2>2 DEF ThreadInv, InEnv, InJni, Pc
  <2>3. QED
    BY <2>1, <2>2
<1>2. QED
  BY <1>1, SyncInvariant, PTL

(* Only the threads of the engine can run out of local references.         *)
THEOREM OthersFreeReferences == Spec => []LocalReferencesFreed
<1>1. SyncInv => LocalReferencesFreed
  <2> SUFFICES ASSUME SyncInv PROVE LocalReferencesFreed
    OBVIOUS
  <2>1. ASSUME NEW i \in Isolates \ EngineThreads
        PROVE  refs[i] <= CallRefs /\ (i \notin attached => refs[i] = 0)
    BY StartAssumption DEF StartAssumption, SyncInv, RefsInv, ThreadInv, RefsAt, InEnv, InJni,
       Pc, FindRefs, CallRefs
  <2>2. QED
    BY <2>1 DEF LocalReferencesFreed, SyncInv, RefsInv
<1>2. QED
  BY <1>1, SyncInvariant, PTL

(* The calls do not take from the workers of the concurrent channel what   *)
(* its start has given them.                                               *)
THEOREM WorkersFindNative == Spec => []WorkerFindsNative
<1>1. SyncInv => WorkerFindsNative
  BY NativeIsFound DEF SyncInv
<1>2. QED
  BY <1>1, SyncInvariant, PTL

(* Nor do they widen the window in which a worker meets a null method.     *)
THEOREM CallsLeaveWorkerMethod == Spec => []WorkerMethodWindow
<1>1. SyncInv => WorkerMethodWindow
  BY MethodIsFound DEF SyncInv
<1>2. QED
  BY <1>1, SyncInvariant, PTL
-----------------------------------------------------------------------------
(* What ends the process: a step that finds what the disjunct says, and is *)
(* the last.  The class was found by a loaded library, an isolate that is  *)
(* past the linking has linked both symbols, and a pending exception has   *)
(* not left its call unless the thread is the engine's.                    *)
ApiHere == SameMajor /\ {Post, Weak} \subseteq Provided

CrashInv ==
    /\ class_ => loaded >= Loader
    /\ ApiHere => \A i \in Isolates : start[i] # "new" /\ left[i] = << >> => Weak \in linked
    /\ \A i \in pending \ EngineThreads : pc[i] \in {"wrap", "detach"}
    /\ pending \subseteq Isolates
    /\ CrashCauses

LEMMA PastLinking ==
    ASSUME StartInv, CrashInv, ApiHere, NEW i \in Isolates, start[i] \notin {"new", "link"}
    PROVE  Post \in linked /\ Weak \in linked
<1>1. left[i] = << >> /\ << >> # Symbols
  BY DEF StartInv, LinkInv, Symbols
<1>2. QED
  BY <1>1 DEF StartInv, LinkInv, CrashInv, ApiHere

(* A step that ends nothing, links nothing and throws nothing.             *)
LEMMA CrashKept ==
    ASSUME CrashInv, crash' = "none", class_' => class_ \/ loaded >= Loader,
           loaded' = loaded, UNCHANGED <<start, left, linked, pending>>,
           \A i \in Isolates : pc[i] \in {"wrap", "detach"} => pc'[i] \in {"wrap", "detach"}
    PROVE  CrashInv'
BY DEF CrashInv, CrashCauses, ApiHere

LEMMA CrashBackground ==
    ASSUME StartInv, CrashInv, Background, crash = "none"
    PROVE  CrashInv'
<1> USE DEF CrashInv, CrashCauses, StartInv, StageInv, syncVars, syncCache, apiVars, cacheVars,
            threadVars
<1>1. UNCHANGED <<pc, class_>>
  BY DEF Background
<1>2. CASE JNI_OnLoad
  BY <1>1, <1>2 DEF JNI_OnLoad, NotLoaded, Runtime, Loader, ApiHere
<1>3. ASSUME NEW i \in Isolates, InitializeApiDL(i) PROVE CrashInv'
  <2>1. ApiHere => left'[i] # << >>
    BY <1>3 DEF InitializeApiDL, ApiHere, LinkInv, Symbols
  <2>2. \A j \in Isolates : j # i => left'[j] = left[j] /\ start'[j] = start[j]
    BY <1>3 DEF InitializeApiDL, Move, LinkInv
  <2>3. UNCHANGED <<loaded, linked, pending, crash>>
    BY <1>3 DEF InitializeApiDL
  <2>4. QED
    BY <1>1, <2>1, <2>2, <2>3 DEF ApiHere
<1>4. ASSUME NEW i \in Isolates, LinkSymbol(i) PROVE CrashInv'
  <2>1. left[i] \in {<<Weak>>, Symbols}
    BY <1>4 DEF LinkSymbol, LinkInv
  <2>2. /\ UNCHANGED <<loaded, start, pending, crash>>
        /\ \A j \in Isolates : j # i => left'[j] = left[j]
    BY <1>4 DEF LinkSymbol, LinkInv
  <2>3. ApiHere => linked \subseteq linked'
    BY <1>4, <2>1 DEF LinkSymbol, ApiHere, Symbols
  <2>4. CASE left[i] = <<Weak>>
    <3>1. ApiHere => Weak \in linked'
      BY <1>4, <2>4 DEF LinkSymbol, ApiHere
    <3>2. QED
      BY <1>1, <2>2, <3>1 DEF ApiHere
  <2>5. CASE left[i] = Symbols
    <3>1. left'[i] = <<Weak>>
      BY <1>4, <2>5 DEF LinkSymbol, Symbols, LinkInv
    <3>2. <<Weak>> # << >>
      OBVIOUS
    <3>3. QED
      BY <1>1, <2>2, <2>3, <3>1, <3>2 DEF ApiHere
  <2>6. QED
    BY <2>1, <2>4, <2>5
<1>5. ASSUME NEW i \in Isolates,
             CheckWorkerClass(i) \/ GetWorkerMethod(i) \/ StartThreads(i)
      PROVE  CrashInv'
  <2>1. /\ UNCHANGED <<loaded, linked, left, pending, crash>> /\ start[i] # "new"
        /\ \A j \in Isolates : j # i => start'[j] = start[j]
    BY <1>5 DEF CheckWorkerClass, GetWorkerMethod, StartThreads, Move
  <2>2. QED
    BY <1>1, <2>1 DEF ApiHere
<1>6. ASSUME NEW i \in Isolates, pc[i] = "idle", FindWorkerClass(i) PROVE CrashInv'
  <2>1. /\ UNCHANGED <<loaded, linked, left, pending>> /\ start[i] = "find"
        /\ \A j \in Isolates : j # i => start'[j] = start[j]
    BY <1>6 DEF FindWorkerClass, Move
  <2>2. crash' = "vm" => loaded < Loader /\ UNCHANGED workerClass
    BY <1>6 DEF FindWorkerClass, FindFails, Finds, Claim
  <2>3. crash' = "exception" => i \in pending
    BY <1>6 DEF FindWorkerClass, FindFails, Finds, Claim
  <2>4. crash' \in {"none", "vm", "exception", "refs"}
    BY <1>6 DEF FindWorkerClass, FindFails, Finds, Claim
  <2>5. QED
    BY <1>1, <1>6, <2>1, <2>2, <2>3, <2>4 DEF ApiHere, NotLoaded, Runtime, Loader
<1>7. ASSUME NEW i \in Isolates, WorkerStep(i) PROVE CrashInv'
  <2>1. UNCHANGED <<loaded, linked, left, start, pending, workerClass>> /\ worker[i] # "unborn"
    BY <1>7 DEF WorkerStep, TakeMessage, CallStaticVoidMethod, PostInteger
  <2>2. /\ crash' \in {"none", "method", "api"}
        /\ crash' = "method" => worker[i] = "call" /\ ~workerMethod
        /\ crash' = "api" => Post \notin linked
    BY <1>7 DEF WorkerStep, TakeMessage, CallStaticVoidMethod, PostInteger
  <2>3. crash' = "method" => \E j \in Isolates : start[j] = "getMethod"
    BY <2>2, MethodIsFound DEF WorkerMethodWindow
  <2>4. crash' = "api" /\ ApiHere => \A j \in Isolates : start[j] \in {"new", "link"}
    BY <2>2, PastLinking
  <2>5. QED
    BY <1>1, <2>1, <2>2, <2>3, <2>4 DEF ApiHere
<1>8. QED
  BY <1>2, <1>3, <1>4, <1>5, <1>6, <1>7 DEF Background, InitializeChannel

LEMMA CrashStep ==
    ASSUME StartInv, CacheInv, CrashInv, [Next]_vars
    PROVE  CrashInv'
<1> USE DEF Goto, CacheInv, Pc, syncCache, results, sharedVars, apiVars, startVars, threadVars
<1>1. CASE UNCHANGED vars
  BY <1>1 DEF vars, syncVars, CrashInv, CrashCauses, ApiHere, cacheVars
<1>2. CASE Next /\ Background
  BY <1>2, CrashBackground DEF Next
<1>3. ASSUME Next, NEW kind, SetMessageHandler(kind) PROVE CrashInv'
  BY <1>3, CrashKept DEF Next, SetMessageHandler
<1>4. ASSUME Next, NEW i \in Isolates, Send(i) PROVE CrashInv'
  <2>1. CASE loaded < Vm
    <3>1. crash' = "vm" /\ UNCHANGED <<pc, sharedVars, pending, class_>>
      BY <1>4, <2>1 DEF Send
    <3>2. ~class_ /\ ~workerClass
      BY <2>1 DEF CrashInv, StartInv, StageInv, NotLoaded, Vm, Loader, Runtime
    <3>3. QED
      BY <3>1, <3>2 DEF CrashInv, CrashCauses, ApiHere, cacheVars
  <2>2. CASE ~(loaded < Vm)
    BY <1>4, <2>2, CrashKept DEF Next, Send
  <2>3. QED
    BY <2>1, <2>2
<1>5. ASSUME Next, NEW i \in Isolates, CheckClass(i) \/ GetStaticMethodID(i) PROVE CrashInv'
  BY <1>5, CrashKept DEF Next, CheckClass, GetStaticMethodID
<1>6. ASSUME Next, NEW i \in Isolates, FindClass(i) PROVE CrashInv'
  <2>1. UNCHANGED <<sharedVars, pending>> /\ pc[i] = "find"
    BY <1>6 DEF FindClass
  <2>2. CASE FindFails(i)
    <3>1. UNCHANGED <<pc, class_>>
      BY <1>6, <2>2
      DEF FindClass, FindFails, Finds, StartInv, StageInv, NotLoaded, Loader, Runtime
    <3>2. \/ crash' = "vm" /\ ~class_ /\ ~workerClass
          \/ crash' = "exception" /\ i \in pending /\ i \in EngineThreads
      BY <2>1, <2>2 DEF FindFails, CrashInv, StartInv, StageInv, NotLoaded, Loader, Runtime
    <3>3. QED
      BY <2>1, <3>1, <3>2 DEF CrashInv, CrashCauses, ApiHere, cacheVars
  <2>3. CASE Finds(i)
    <3>1. loaded >= Loader /\ crash' \in {"none", "refs"}
      BY <1>6, <2>3 DEF Next, Finds, Claim
    <3>2. \A j \in Isolates : j # i => pc'[j] = pc[j]
      BY <1>6, <2>3 DEF FindClass, FindFails, Finds
    <3>3. QED
      BY <2>1, <3>1, <3>2 DEF CrashInv, CrashCauses, ApiHere
  <2>4. QED
    BY <1>6, <2>2, <2>3 DEF FindClass
<1>7. ASSUME Next, NEW i \in Isolates, CallStaticObjectMethod(i) PROVE CrashInv'
  <2>1. UNCHANGED <<sharedVars, pending, class_>> /\ pc[i] = "call"
    BY <1>7 DEF CallStaticObjectMethod
  <2>2. \A j \in Isolates : j # i => pc'[j] = pc[j]
    BY <1>7 DEF CallStaticObjectMethod
  <2>3. i \in pending => i \in EngineThreads
    BY <2>1 DEF CrashInv
  <2>4. \/ crash' \in {"none", "refs"}
        \/ crash' = "exception" /\ i \in pending
        \/ crash' = "method" /\ ~method_ /\ UNCHANGED pc
    BY <1>7 DEF Next, CallStaticObjectMethod, Claim
  <2>5. crash' = "method" => \E j \in Isolates : pc'[j] = "getMethod"
    BY <2>1, <2>4
  <2>6. QED
    BY <2>1, <2>2, <2>3, <2>4, <2>5 DEF CrashInv, CrashCauses, ApiHere, cacheVars
<1>8. ASSUME Next, NEW i \in Isolates, HandleMessageFromDart(i) PROVE CrashInv'
  <2>1. UNCHANGED <<sharedVars, class_>> /\ pc[i] = "platform"
    BY <1>8 DEF HandleMessageFromDart
  <2>2. /\ crash' \in {"none", "refs"}
        /\ \/ UNCHANGED <<pc, pending>>
           \/ Goto(i, "platform", "wrap") /\ pending' \in {pending, pending \union {i}}
    BY <1>8 DEF Next, HandleMessageFromDart, Claim
  <2>3. QED
    BY <2>1, <2>2 DEF CrashInv, CrashCauses, ApiHere
<1>9. ASSUME Next, NEW i \in Isolates, Wrap(i) PROVE CrashInv'
  BY <1>9, CrashKept DEF Next, Wrap
<1>10. ASSUME Next, NEW i \in Isolates, Detach(i) PROVE CrashInv'
  <2>1. UNCHANGED <<sharedVars, pending, class_>> /\ pc[i] = "detach"
    BY <1>10 DEF Detach
  <2>2. CASE i \in pending \ EngineThreads
    BY <1>10, <2>1, <2>2 DEF Detach, CrashInv, CrashCauses, ApiHere
  <2>3. CASE i \notin pending \ EngineThreads
    <3>1. crash' = "none" /\ \A j \in Isolates : j # i => pc'[j] = pc[j]
      BY <1>10, <2>3 DEF Next, Detach
    <3>2. QED
      BY <2>1, <2>3, <3>1 DEF CrashInv, CrashCauses, ApiHere
  <2>4. QED
    BY <2>2, <2>3
<1>11. ASSUME Next, NEW i \in Isolates, Receive(i) PROVE CrashInv'
  <2>1. UNCHANGED <<sharedVars, pending, class_>> /\ pc[i] = "back"
    BY <1>11 DEF Receive, NullApi, Returns, syncVars
  <2>2. CASE NullApi(i)
    <3>1. crash' = "api" /\ Weak \notin linked /\ UNCHANGED pc
      BY <2>2 DEF NullApi, NeedsApi, syncVars
    <3>2. ApiHere => \A j \in Isolates : start[j] \in {"new", "link"}
      BY <3>1, PastLinking
    <3>3. QED
      BY <2>1, <3>1, <3>2 DEF CrashInv, CrashCauses, ApiHere
  <2>3. CASE Returns(i, Outcome(i))
    <3>1. crash' = "none" /\ \A j \in Isolates : j # i => pc'[j] = pc[j]
      BY <1>11, <2>3 DEF Next, Returns
    <3>2. QED
      BY <2>1, <3>1 DEF CrashInv, CrashCauses, ApiHere
  <2>4. QED
    BY <1>11, <2>2, <2>3 DEF Receive
<1>12. QED
  BY <1>1, <1>2, <1>3, <1>4, <1>5, <1>6, <1>7, <1>8, <1>9, <1>10, <1>11 DEF Next, Step

(* Whatever ends the process was done before: nothing is null to those that*)
(* come after a class was found, the API linked and the method looked up,  *)
(* and an exception outlives its call on an engine thread only.            *)
THEOREM CrashesHaveCauses == Spec => []CrashCauses
<1>1. Init => CrashInv
  BY DEF Init, StartInit, CrashInv, CrashCauses, ApiHere
<1>2. SyncInv /\ CrashInv /\ [Next]_vars => CrashInv'
  BY CrashStep DEF SyncInv
<1>3. CrashInv => CrashCauses
  BY DEF CrashInv
<1>4. QED
  BY <1>1, <1>2, <1>3, SyncInvariant, PTL DEF Spec
=============================================================================
