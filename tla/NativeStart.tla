----------------------------- MODULE NativeStart -----------------------------
(***************************************************************************)
(* How the native library comes up.  System.loadLibrary runs JNI_OnLoad on *)
(* the platform thread (jni_helper.cc).  Dart opens the library by itself, *)
(* which does not run it.  Every isolate that uses the concurrent          *)
(* messenger runs InitializeChannel (concurrent_channel.cc) on its thread: *)
(* it links the Dart API (dart_api_dl.c), looks up the Kotlin class and    *)
(* method unless an isolate has done so, and starts threads that call the  *)
(* method and post answers through the API.  All of this assigns statics,  *)
(* without a lock and without waiting for one another.                     *)
(*                                                                         *)
(* The engine has attached the isolate threads in EngineThreads to the     *)
(* JVM; a JniEnv attaches any other for its own lifetime.  Local           *)
(* references live until their thread is detached: these are native frames *)
(* that Dart called, not native methods that Java called.                  *)
(***************************************************************************)
EXTENDS Naturals, Sequences

CONSTANTS Isolates,       \* the isolates, each with a thread of its own
          EngineThreads,  \* those whose thread the engine has attached
          LocalCapacity,  \* the local references a thread may hold
          Provided,       \* the API symbols the Dart VM has an entry for
          SameMajor       \* has it the major version of the vendored header

ASSUME StartAssumption == /\ EngineThreads \subseteq Isolates
                          /\ LocalCapacity \in Nat
                          /\ SameMajor \in BOOLEAN

VARIABLES loaded,        \* how far JNI_OnLoad has come
          linked,        \* the symbols whose _DL pointer is not null
          left,          \* left[i]: the symbols that isolate i has yet to assign
          start,         \* start[i]: where isolate i is in InitializeChannel
          workerClass,   \* is handle_message_from_dart_class_ set
          workerMethod,  \* is handle_message_from_dart_method_ set
          worker,        \* worker[i]: where a thread that isolate i started is
          attached,      \* the isolates whose thread is attached to the JVM
          pending,       \* those on whose thread a Java exception is pending
          refs,          \* refs[i]: the local references of that thread
          crash          \* what has ended the process: "none", or a null JavaVM
                         \* or class loader, method or API function used, an
                         \* exception, or too many local references

threadVars == <<attached, pending, refs>>
apiVars    == <<linked, left>>
cacheVars  == <<workerClass, workerMethod>>
sharedVars == <<loaded, apiVars, start, cacheVars, worker>>
startVars  == <<sharedVars, threadVars, crash>>

(* The statics of JniHelper, in the order in which JNI_OnLoad sets them.   *)
NotLoaded == 0
Vm        == 1
Loader    == 2
Runtime   == 3

(* The symbols of dart_api_dl.h that the plugin calls, in the header's     *)
(* order; the others are assigned and never used.                          *)
Post    == "Dart_PostInteger"
Weak    == "Dart_NewWeakPersistentHandle"
Symbols == <<Post, Weak>>

StartInit == /\ loaded = NotLoaded
             /\ linked = {}
             /\ left = [i \in Isolates |-> << >>]
             /\ start = [i \in Isolates |-> "new"]
             /\ workerClass = FALSE /\ workerMethod = FALSE
             /\ worker = [i \in Isolates |-> "unborn"]
             /\ attached = EngineThreads
             /\ pending = {}
             /\ refs = [i \in Isolates |-> 0]
             /\ crash = "none"

Move(i, from, to) == start[i] = from /\ start' = [start EXCEPT ![i] = to]
-----------------------------------------------------------------------------
(* jni_helper.cc                                                           *)

(* jvm_, StoreClassLoader, StoreGCMethod.                                  *)
JNI_OnLoad == /\ loaded < Runtime
              /\ loaded' = loaded + 1
              /\ UNCHANGED <<apiVars, start, cacheVars, worker, threadVars, crash>>

(* The constructor of JniEnv.                                              *)
Attach(i) == attached' = attached \union {i}

(* The destructor; need_detach_ is i \notin EngineThreads.                 *)
Release(i) == IF i \in EngineThreads THEN UNCHANGED <<attached, refs>>
              ELSE attached' = attached \ {i} /\ refs' = [refs EXCEPT ![i] = 0]

(* Thread i gets n more local references; the JVM gives up if it has no    *)
(* room for them.                                                          *)
Room(i, n)  == refs[i] + n <= LocalCapacity
Claim(i, n) == IF Room(i, n) THEN refs' = [refs EXCEPT ![i] = @ + n] /\ UNCHANGED crash
               ELSE crash' = "refs" /\ UNCHANGED refs

(* FindClass makes a string and returns a class: two local references.  It *)
(* reads null pointers without jvm_ or class_loader_, and with an exception*)
(* pending it is undefined and can only fail.                              *)
FindRefs == 2
FindFails(i) == \/ loaded < Loader /\ crash' = "vm"
                \/ loaded >= Loader /\ i \in pending /\ crash' = "exception"
Finds(i) == loaded >= Loader /\ i \notin pending /\ Claim(i, FindRefs)
-----------------------------------------------------------------------------
(* InitializeChannel, on the thread of isolate i.                          *)

(* Faulty: the pointers are cleared before they are assigned.              *)
ResetApiDL(i) ==
    /\ Move(i, "new", "link")
    /\ left' = [left EXCEPT ![i] = IF SameMajor THEN Symbols ELSE << >>]
    /\ linked' = {}
    /\ UNCHANGED <<loaded, cacheVars, worker, threadVars, crash>>

(* Dart_InitializeApiDL: of another major version nothing is linked; its   *)
(* result, -1, is ignored.                                                 *)
InitializeApiDL(i) ==
    /\ Move(i, "new", "link")
    /\ left' = [left EXCEPT ![i] = IF SameMajor THEN Symbols ELSE << >>]
    /\ UNCHANGED <<loaded, linked, cacheVars, worker, threadVars, crash>>

(* name_DL = FindFunctionPointer(name), null if the VM has no such entry.  *)
LinkSymbol(i) ==
    /\ start[i] = "link" /\ left[i] # << >>
    /\ LET s == Head(left[i])
       IN  linked' = IF s \in Provided THEN linked \union {s} ELSE linked \ {s}
    /\ left' = [left EXCEPT ![i] = Tail(@)]
    /\ UNCHANGED <<loaded, start, cacheVars, worker, threadVars, crash>>

CheckWorkerClass(i) == /\ left[i] = << >>
                       /\ Move(i, "link", IF workerClass THEN "threads" ELSE "find")
                       /\ UNCHANGED <<loaded, apiVars, cacheVars, worker, threadVars, crash>>

(* JniEnv, FindClass and the global reference to what it found.            *)
FindWorkerClass(i) ==
    /\ start[i] = "find"
    /\ \/ FindFails(i) /\ UNCHANGED <<start, workerClass, attached, refs>>
       \/ /\ Finds(i)
          /\ IF Room(i, FindRefs)
             THEN Move(i, "find", "getMethod") /\ workerClass' = TRUE /\ Attach(i)
             ELSE UNCHANGED <<start, workerClass, attached>>
    /\ UNCHANGED <<loaded, apiVars, workerMethod, worker, pending>>

(* Faulty: the signature does not match, and null is returned.             *)
GetNoWorkerMethod(i) == /\ Move(i, "getMethod", "threads")
                        /\ Release(i)
                        /\ UNCHANGED <<loaded, apiVars, cacheVars, worker, pending, crash>>

GetWorkerMethod(i) == /\ Move(i, "getMethod", "threads")
                      /\ workerMethod' = TRUE
                      /\ Release(i)
                      /\ UNCHANGED <<loaded, apiVars, workerClass, worker, pending, crash>>

StartThreads(i) == /\ Move(i, "threads", "up")
                   /\ worker' = [worker EXCEPT ![i] = "wait"]
                   /\ UNCHANGED <<loaded, apiVars, cacheVars, threadVars, crash>>

InitializeChannel(i) == \/ InitializeApiDL(i) \/ LinkSymbol(i) \/ CheckWorkerClass(i)
                        \/ FindWorkerClass(i) \/ GetWorkerMethod(i) \/ StartThreads(i)
-----------------------------------------------------------------------------
(* A thread that isolate i started, with the statics it uses.              *)

(* A message of any isolate that has a messenger.                          *)
TakeMessage(i) == /\ worker[i] = "wait"
                  /\ \E j \in Isolates : start[j] = "up"
                  /\ worker' = [worker EXCEPT ![i] = "call"]
                  /\ UNCHANGED <<loaded, apiVars, start, cacheVars, threadVars, crash>>

CallStaticVoidMethod(i) ==
    /\ worker[i] = "call"
    /\ IF workerMethod THEN worker' = [worker EXCEPT ![i] = "post"] /\ UNCHANGED crash
       ELSE crash' = "method" /\ UNCHANGED worker
    /\ UNCHANGED <<loaded, apiVars, start, cacheVars, threadVars>>

PostInteger(i) ==
    /\ worker[i] = "post"
    /\ IF Post \in linked THEN worker' = [worker EXCEPT ![i] = "wait"] /\ UNCHANGED crash
       ELSE crash' = "api" /\ UNCHANGED worker
    /\ UNCHANGED <<loaded, apiVars, start, cacheVars, threadVars>>

WorkerStep(i) == TakeMessage(i) \/ CallStaticVoidMethod(i) \/ PostInteger(i)

StartNext == /\ crash = "none"
             /\ JNI_OnLoad \/ \E i \in Isolates : InitializeChannel(i) \/ WorkerStep(i)

StartSpec == StartInit /\ [][StartNext]_startVars
-----------------------------------------------------------------------------
StartPc == {"new", "link", "find", "getMethod", "threads", "up"}

(* While isolates link again and look the class up, a running worker finds *)
(* what it uses without a test: the library is loaded, and the API linked, *)
(* if the VM has it at all.                                                *)
WorkerFindsNative ==
    \A i \in Isolates : worker[i] # "unborn"
        => loaded >= Loader /\ workerClass /\ (SameMajor /\ Post \in Provided => Post \in linked)

(* The exception is the method, which is assigned after the class that is  *)
(* tested: a worker calls null only while an isolate is in between, and    *)
(* that isolate is not the one that started it.                            *)
WorkerMethodWindow ==
    \A i \in Isolates : worker[i] = "call" /\ ~workerMethod
        => \E j \in Isolates \ {i} : start[j] = "getMethod"
=============================================================================
