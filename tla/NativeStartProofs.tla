-------------------------- MODULE NativeStartProofs --------------------------
(* Theorems about NativeStart, for every set of isolates and any Dart VM.  *)
EXTENDS NativeStart, TLAPS

WorkerPc == {"unborn", "wait", "call", "post"}

(* How far an isolate has come says what the library has: a class was found*)
(* by a loaded library, and past the check of the class there is one.      *)
StageInv ==
    /\ loaded \in NotLoaded..Runtime
    /\ start \in [Isolates -> StartPc]
    /\ worker \in [Isolates -> WorkerPc]
    /\ workerClass => loaded >= Loader
    /\ \A i \in Isolates : start[i] \in {"getMethod", "threads", "up"} => workerClass
    /\ \A i \in Isolates : worker[i] # "unborn" => start[i] = "up"

(* An isolate that is past the first symbol has linked it, or another has. *)
LinkInv ==
    /\ left \in [Isolates -> {<< >>, <<Weak>>, Symbols}]
    /\ \A i \in Isolates : start[i] \notin {"new", "link"} => left[i] = << >>
    /\ SameMajor /\ Post \in Provided
       => \A i \in Isolates : start[i] # "new" /\ left[i] # Symbols => Post \in linked

(* While the class is set and the method is not, an isolate that found the *)
(* class has yet to assign the method.                                     *)
LazyInv == workerClass /\ ~workerMethod => \E j \in Isolates : start[j] = "getMethod"

StartInv == StageInv /\ LinkInv /\ LazyInv

LEMMA StartInitInv == StartInit => StartInv
BY DEF StartInit, StartInv, StageInv, LinkInv, LazyInv, StartPc, WorkerPc, NotLoaded,
       Runtime, Loader

(* Whatever leaves the library's statics alone preserves it.               *)
LEMMA StartKept == StartInv /\ UNCHANGED sharedVars => StartInv'
BY DEF StartInv, StageInv, LinkInv, LazyInv, sharedVars, apiVars, cacheVars

LEMMA StageStep == StageInv /\ StartNext => StageInv'
<1> SUFFICES ASSUME StageInv, StartNext PROVE StageInv'
  OBVIOUS
<1> USE DEF StageInv, StartPc, WorkerPc, NotLoaded, Loader, Runtime, Move, apiVars, cacheVars
<1>1. CASE JNI_OnLoad
  BY <1>1 DEF JNI_OnLoad
<1>2. ASSUME NEW i \in Isolates, InitializeApiDL(i) \/ LinkSymbol(i) PROVE StageInv'
  BY <1>2 DEF InitializeApiDL, LinkSymbol
<1>3. ASSUME NEW i \in Isolates, CheckWorkerClass(i) PROVE StageInv'
  BY <1>3 DEF CheckWorkerClass
<1>4. ASSUME NEW i \in Isolates, FindWorkerClass(i) PROVE StageInv'
  BY <1>4 DEF FindWorkerClass, FindFails, Finds
<1>5. ASSUME NEW i \in Isolates, GetWorkerMethod(i) PROVE StageInv'
  BY <1>5 DEF GetWorkerMethod
<1>6. ASSUME NEW i \in Isolates, StartThreads(i) PROVE StageInv'
  BY <1>6 DEF StartThreads
<1>7. ASSUME NEW i \in Isolates, WorkerStep(i) PROVE StageInv'
  BY <1>7 DEF WorkerStep, TakeMessage, CallStaticVoidMethod, PostInteger
<1>8. QED
  BY <1>1, <1>2, <1>3, <1>4, <1>5, <1>6, <1>7 DEF StartNext, InitializeChannel

LEMMA LinkStep == StageInv /\ LinkInv /\ StartNext => LinkInv'
<1> SUFFICES ASSUME StageInv, LinkInv, StartNext PROVE LinkInv'
  OBVIOUS
<1> USE DEF LinkInv, StageInv, StartPc, Symbols, Post, Weak, Move, apiVars, cacheVars
<1>1. CASE JNI_OnLoad
  BY <1>1 DEF JNI_OnLoad
<1>2. ASSUME NEW i \in Isolates, InitializeApiDL(i) PROVE LinkInv'
  BY <1>2 DEF InitializeApiDL
<1>3. ASSUME NEW i \in Isolates, LinkSymbol(i) PROVE LinkInv'
  <2>1. left[i] \in {<<Weak>>, Symbols}
    BY <1>3 DEF LinkSymbol
  <2>2. CASE left[i] = Symbols
    BY <1>3, <2>2 DEF LinkSymbol
  <2>3. CASE left[i] = <<Weak>>
    BY <1>3, <2>3 DEF LinkSymbol
  <2>4. QED
    BY <2>1, <2>2, <2>3
<1>4. ASSUME NEW i \in Isolates, CheckWorkerClass(i) PROVE LinkInv'
  BY <1>4 DEF CheckWorkerClass
<1>5. ASSUME NEW i \in Isolates, FindWorkerClass(i) PROVE LinkInv'
  BY <1>5 DEF FindWorkerClass
<1>6. ASSUME NEW i \in Isolates, GetWorkerMethod(i) \/ StartThreads(i) PROVE LinkInv'
  BY <1>6 DEF GetWorkerMethod, StartThreads
<1>7. ASSUME NEW i \in Isolates, WorkerStep(i) PROVE LinkInv'
  BY <1>7 DEF WorkerStep, TakeMessage, CallStaticVoidMethod, PostInteger
<1>8. QED
  BY <1>1, <1>2, <1>3, <1>4, <1>5, <1>6, <1>7 DEF StartNext, InitializeChannel

LEMMA LazyStep == StageInv /\ LazyInv /\ StartNext => LazyInv'
<1> SUFFICES ASSUME StageInv, LazyInv, StartNext PROVE LazyInv'
  OBVIOUS
<1> USE DEF LazyInv, StageInv, Move, apiVars, cacheVars
<1>1. CASE JNI_OnLoad
  BY <1>1 DEF JNI_OnLoad
<1>2. ASSUME NEW i \in Isolates, InitializeApiDL(i) \/ LinkSymbol(i) PROVE LazyInv'
  BY <1>2 DEF InitializeApiDL, LinkSymbol
<1>3. ASSUME NEW i \in Isolates, CheckWorkerClass(i) PROVE LazyInv'
  BY <1>3 DEF CheckWorkerClass
<1>4. ASSUME NEW i \in Isolates, FindWorkerClass(i) PROVE LazyInv'
  BY <1>4 DEF FindWorkerClass
<1>5. ASSUME NEW i \in Isolates, GetWorkerMethod(i) \/ StartThreads(i) PROVE LazyInv'
  BY <1>5 DEF GetWorkerMethod, StartThreads
<1>6. ASSUME NEW i \in Isolates, WorkerStep(i) PROVE LazyInv'
  BY <1>6 DEF WorkerStep, TakeMessage, CallStaticVoidMethod, PostInteger
<1>7. QED
  BY <1>1, <1>2, <1>3, <1>4, <1>5, <1>6 DEF StartNext, InitializeChannel

LEMMA StartStep == StartInv /\ StartNext => StartInv'
BY StageStep, LinkStep, LazyStep DEF StartInv

LEMMA StartInvariant == StartSpec => []StartInv
<1>1. StartInv /\ [StartNext]_startVars => StartInv'
  BY StartStep, StartKept DEF startVars
<1>2. QED
  BY <1>1, StartInitInv, PTL DEF StartSpec

LEMMA WorkerIsUp ==
    ASSUME StartInv, NEW i \in Isolates, worker[i] # "unborn"
    PROVE  start[i] = "up" /\ workerClass /\ left[i] = << >>
BY DEF StartInv, StageInv, LinkInv

LEMMA NativeIsFound == StartInv => WorkerFindsNative
<1>1. << >> # Symbols
  BY DEF Symbols
<1>2. QED
  BY <1>1, WorkerIsUp DEF StartInv, StageInv, LinkInv, WorkerFindsNative

LEMMA MethodIsFound == StartInv => WorkerMethodWindow
BY WorkerIsUp DEF StartInv, LazyInv, WorkerMethodWindow

(* Neither the linking nor the look-up of another isolate takes from a     *)
(* running worker what it uses without a test: library, API and class.     *)
THEOREM NativeStartSafe == StartSpec => []WorkerFindsNative
BY NativeIsFound, StartInvariant, PTL

(* A running worker meets a null method only while another isolate is      *)
(* between the two assignments of the lazy look-up.                        *)
THEOREM NullWorkerMethodOnlyInWindow == StartSpec => []WorkerMethodWindow
BY MethodIsFound, StartInvariant, PTL
=============================================================================
