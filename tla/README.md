# Verification of flutter_native_channel

TLA+ models of the Android implementation of `flutter_native_channel`, the TLC
configurations that check them and TLAPS proofs about them. Every module is
translated from the code under `src/`; line numbers of each definition are in
`PROJECT.json` ("map").

The plugin gives Dart two kinds of channels to Kotlin: a *concurrent* channel,
whose messages are handled by a pool of native threads and answered through a
Dart port, and a *synchronous* channel, a blocking FFI call. Both avoid copying:
Dart reads the bytes of a Java direct `ByteBuffer` through a bare pointer.

## 1. Inventory

| Component | State | Operations | What makes it correct |
|---|---|---|---|
| Native worker pool, `concurrent_channel.cc` | `message_queue_`, `message_queue_mtx_`, `cv_`, `cv_mtx_`, `threads_` | push + `notify_one`; wait, pop, call, loop; start threads | every message is run by one worker, in order of sending, and never stays behind; no pop of an empty queue |
| Concurrent messenger, Dart + `concurrent_channel.cc` + Kotlin | `_seq`, `_resultCompleters`, `_replyPort`; `replyPort_`; `messageHandlers`; `Reply.done` | `send`, `InitializeChannel`, `handleMessageFromDart`, `Reply.reply`, the two catches, `replyMessageToDart`, `onReply` | every future is completed once, with the answer to its own message; every message is freed once and not while it can be read |
| Synchronous messenger, Dart + `synchronous_channel.cc` + Kotlin | `handle_message_from_dart_class_` / `_method_`; the thread's JNI attachment and pending exception | `send`, `SendSynchronousMessageToPlatform`, `handleMessageFromDart`, `encodeEnvelope`, `invokeMethod` | the method is there when it is called; threads are left as found; the call returns |
| Reply memory, `finalizer.{h,cc}` | `global_references_`; JNI global references; Dart finalizers; liveness of Java buffers | `AssociatePointerWithGlobalReference`, `RegisterFinalizer`, `DartFinalizer`, `ReleaseGlobalReferenceByPointer` | what Dart can read is not collected; what it no longer reads is released, once |
| Channel ids and handler registry, both method channels on both sides | `id` of a channel; `messageHandlers` | id from the MD5 of the name; `setMethodCallHandler` | both sides compute one id; a message reaches its channel's handler |
| JNI helper, `jni_helper.{cc,h}` | `jvm_`, `class_loader_`, `runtime_`; attachment and local references of threads | `JNI_OnLoad`, `JniEnv`, `FindClass`, `TriggerGC` | attach and detach are paired; the statics are set before they are used |
| Vendored Dart API, `dart_api_dl.{c,h}` | the `_DL` function pointers | `Dart_InitializeApiDL` | a running worker never calls a null pointer |
| Plugin registration | none | loads the library, an empty handler | the library is loaded before Dart calls it (not ensured) |
| Dart API declarations, example, iOS stub | none of the channels' | | not modelled |

How they interact: a Dart isolate calls `SendConcurrentMessageToPlatform` by FFI
(a call); the pool's threads share the queue with it (mutex, condition variable);
a worker calls into Kotlin by JNI; Kotlin calls back `replyMessageToDart` on
whatever thread answers; that posts the pointer of a wrapper to the isolate's
port (a message); the isolate's event loop runs `onReply` (a callback), which
registers a finalizer (a callback of the Dart garbage collector), which updates
the map that the workers update when they answer (shared state, no lock). A
synchronous call goes the same way on the isolate's own thread.

Hard to test: the order of predicate, sleep, push and notify; several workers
acting on one test of the queue; answers in any order, twice, late, by another
thread, or by an exception; a second isolate or a hot restart, which shares the
native statics; the reuse of an address between two steps of a finalizer;
updates of the map that overlap; the two assignments of a lazily filled cache;
native statics that one isolate assigns while the workers of another use them; a
`HashMap` that grows under a reader; a `send` that fails half-way.
`PROJECT.json` ("hazards") lists each at its line. The repository has no tests.

## 2. Modules

| Module | Models | Abstract or detailed |
|---|---|---|
| `TaskPool` | what README.md promises, "Run tasks concurrently in different thread" | abstract specification |
| `WorkerPool` | queue, mutexes, condition variable and threads of `concurrent_channel.cc` | implements `TaskPool` (until an underrun) |
| `RequestReply` | the concurrent channel as its Dart caller sees it | abstract specification |
| `ConcurrentMessenger` | the concurrent channel end to end, on top of `WorkerPool` | composes Dart, native and Kotlin; implements `WorkerPool`, and `RequestReply` (one isolate, until an underrun) |
| `ReplyMemory` | global references, their map and finalizers | component |
| `ChannelNames` | ids, and the registry as a `HashMap` that grows | component, with the id as an operator on words of bits |
| `NativeStart` | `JNI_OnLoad`, the linking of the Dart API, the steps of `InitializeChannel`, what workers use of them | component |
| `SynchronousMessenger` | the synchronous channel and its class cache | on top of `NativeStart`, whose steps interleave with its calls |
| `MC...` | symmetry sets and constraints for TLC | |
| `...Proofs` | the theorems of a module | |

Definitions marked "Faulty" are plausible bugs of one definition. No action uses
them; they serve to show that a property fails when the code is wrong.

### WorkerPool

A task is named by the order of its push, so the `std::queue` is two counters:
the element at position `p` is task `p + 1` if it was pushed. The size of libc++'s
deque is `pushed - popped` modulo 2^64, so `empty()` is `pushed = popped` even
after an underrun. A pop at a position that was never pushed reads a slot of the
deque that holds an old task or garbage: the worker has a task of `Stray` in hand.

`cv_.wait(lock, pred)` is `TestPredicate`, `Block` (the sleep, `cv_mtx_` held
until then) and a wake-up by `NotifyOne` or `SpuriousWake`. The pop (`Take`) is a
step of its own under the other mutex, as in the code, and does not test again.
`Push` and `NotifyOne` are two steps of the isolate's thread. `Return` ends the
call into Kotlin. `StartWorkers` is the loop of `InitializeChannel`, the rest of which is in
`ConcurrentMessenger` and `NativeStart`; `Retire` is
the end of an isolate, which stops none of its threads.

### ConcurrentMessenger

Extends `WorkerPool`; each of its actions is a pool action and what the code does
around it, or leaves the pool alone.
`req[t]` is the message of task `t`: isolate, sequence number, channel. `waiting`
and `result` stand for `_resultCompleters`, `port[i]` for the queue of
`_replyPort`, `frame[w]` for the place of worker `w` inside `handleMessageFromDart`.
`ReplyMessageToDart` frees the request and posts to whatever `replyPort_` names.
The free and the post are one step: they follow one another on one thread, nothing in
the program reads `freed`, and what other threads can do in between, ending the isolate
or assigning `replyPort_`, has the same effect just before the step.

A stray task may have any channel and sequence number and a data pointer that is
null, or of a message freed long ago, or of one still in flight (`ChannelsOf`, `SeqOf`,
`MessageOf`): it may have a handler, and answering it may free somebody else's message.
That is more than the program can do, as the three are chosen anew at each use. What
reading and freeing memory twice does to the heap itself is not modelled.

Payloads are "data", "null" and "junk": `new MessageWrapper` initialises nothing
and a null reply assigns neither `data` nor `length`, so that with
`ZeroedHeap = FALSE` Dart may read any pointer and any length. A length that
`asTypedList` throws on ends `onReply` before the completer is removed
(`OnReplyThrows`); `unread[t]` counts the answers to `t` that went that way. `SendFails` is a `send` whose
`allocate` throws: its number is used up and its completer stays behind in
`orphans`; it may happen to the sequence numbers in `Failing`, which bounds it.
`InitializeChannel` is one step here, as far as queue and port are concerned;
`NativeStart` takes it apart.

`RequestReply` knows futures and answers only: a future is pending from `send` on,
the platform answers a message once, and a future is completed if it is pending and
its message was answered, or abandoned with its isolate. `FutureOf` maps `waiting` and
`result` to it, `freed` is the set of answered messages.

The handler belongs to the application and is external: it answers, keeps its
`Reply` for another thread, returns or throws (`"threw"` a RuntimeException,
`"raised"` any other). With `Contract = TRUE` it answers exactly once and throws
only before it has answered or kept the `Reply`; with `FALSE` it does what it likes.
Assertions of Dart are off, as in a release build: the reply of an unknown
sequence number is dropped.

### ReplyMemory

A reply goes through `stage`: local reference, global reference made, filed,
posted, shown to Dart (or null, or lost with its port), finalizer at work, gone.
The map has no lock: an update is two steps, and the second may be based on the
map as it was at the first (`Updated`), so what others did in between may be
lost. `ReleaseGlobalReferenceByPointer` is look-up (`DartFinalizer`), `DeleteGlobalRef`
and `Erase`. The look-up is `operator[]`: when it finds nothing it inserts a null entry,
an update like the others (`InsertNull`); it may also miss because it meets another update.
Java may collect a buffer when no reference keeps it, and then reuse its address.
A heap buffer has the null pointer for an address. With `Sharing` the application
may keep a buffer and reply with it again. `NullReply` makes no reference and files
nothing; the pointer in its wrapper, `stray[r]`, is never assigned and may be any, also
that of an earlier reply whose wrapper was in the same memory, and Dart registers a
finalizer for it or throws on its length. `crossed` is a history variable.

### ChannelNames

A word is a function from bit numbers to bits, so that shift, or and sign
extension are definitions and not arithmetic on numbers too large for TLC. The two sides share
the loop (`Fold`) and nothing else: Dart's bytes are unsigned integers that `toSigned(8)`
sign-extends (`Unsigned`, `ToSigned`, `DartDigest`), Kotlin's are signed and widened by
`toLong()` (`ToLong`, `KotlinDigest`). MD5 is external: any digests, distinct for
distinct names.

The registry is a `java.util.HashMap` (external) that the platform thread updates
while other threads read it. `table` counts the arrays it has allocated; growing
puts an empty array in use and moves the entries there one after another
(`MoveEntry`), before the update returns, so that `SetMethodCallHandler` waits for
`moving` to be empty. A look-up reads the reference of the array first and its
bucket later: `Finds(n, t)` is what a look-up that got the `t`-th array may see now.
An entry to the same bucket as another, or the moving of one bucket, is a step.

### NativeStart

`loaded` counts what `JNI_OnLoad` has set: `jvm_`, the class loader, the runtime.
Dart opens the library by itself (`common.dart`), so that nothing makes an isolate
wait for it. `start[i]` follows isolate `i` through `InitializeChannel`: link each
symbol (`left[i]` are those to come, `linked` those that are not null), test the
class, find it, get the method, start threads. `worker[i]` is a thread that isolate
`i` started; it calls the method and posts through the API without a test. Of the
symbols in `dart_api_dl.h` only the two that the plugin calls are told apart;
`Provided` and `SameMajor` say which Dart VM it runs on. `refs[i]` counts local
references: they live until the thread is detached, as nothing deletes them and these
are no native methods called by Java. `crash` is what ends the process.

### SynchronousMessenger

`pc[i]` follows the call of isolate `i` from `send` through the cache, the call
into Kotlin, the wrapper, the destructor of `JniEnv` and back. Engine threads are
attached already; others are attached for the time of the call. An exception that
leaves Kotlin stays pending on the thread: detaching such a thread ends the process,
and a JNI call with an exception pending is undefined (here: it ends the process
or returns at once). `Receive` needs the Dart API that only `InitializeChannel`
of the concurrent messenger initialises (`NullApi`). `Background` are the steps of
`NativeStart`: the library is loaded, isolates initialise the concurrent channel
between their calls, and workers run.

## 3. Runs

| Run | Instance | Question |
|---|---|---|
| `pool_single` | 1 worker, 1 isolate, 6 tasks | does the pool implement `TaskPool`, never pop an empty queue and never deadlock, if there is one thread (a device with up to three cores)? |
| `pool_many` | 4 workers in batches of 2, 2 isolates, 3 tasks, 4 pops | is every step up to the first underrun a step of `TaskPool`; is a message stranded only by a worker that sleeps on a stale test; does an awake worker drain the queue? |
| `msg_contract` | 2 workers, 1 isolate, a raw and a method channel, 2 tasks, 3 pops, the second `send` may fail, fairness | are answers matched, given once, accounted for, and messages alive while readable; is a failed `send` never answered; does the channel implement `RequestReply`; is a message that was taken answered in the end? |
| `msg_isolates` | 2 isolates with a worker each, careless handlers | are sequence numbers confused only between isolates; is a future completed once, also after an underrun? |
| `names_tail` | 2 names, all pairs of distinct digests of three 2-bit bytes, a map that grows | do the sides agree; when do ids collide; is the right handler reached, also while the map grows? |
| `memory` | 3 replies, 2 addresses, sharing, 2 finalizing threads, null replies | is what Dart reads backed until a stray pointer; what can be leaked? |
| `sync_isolates` | 2 isolates, one on an engine thread, any exception, room for 5 local references | are threads left as found; when are the methods null; who can run out of local references; do workers keep what they use; what can a crash come from; does a call return? |
| `lost_wakeup` | 1 worker, 1 task | violated: the notification is lost |
| `underrun_assert` | 2 workers, 2 tasks | violated: the assertion of `onReply` fails |
| `careless_handler` | 1 worker, a method channel | violated: a message is answered and freed twice |
| `second_isolate` | 2 isolates | violated: a future gets the answer to another isolate's message |
| `stale_pointer` | 2 replies, 1 address | violated: the finalizer of a null reply's stray pointer takes the buffer of another reply |

**Bounds.** The queue is FIFO and its contents are named by position, so tasks
differ in nothing but their order: two tasks and two workers are the smallest
instance with reordered answers, two workers past one test, and a message behind
the one in hand; a pop of the empty queue is possible in every run. A worker that has
used up `MaxPops` stops, hence `CHECK_DEADLOCK FALSE`; in `pool_single` an underrun is
impossible and deadlock is checked: at the end of the pushes a spurious wake-up is
always possible. Three workers past one test do nothing that two do not, and
`pool_many` has four. Three replies are an old entry, an update that brings it back
and a new reply at its address. Three bytes have a first, a middle and a last one, two
bits a sign and a value; `Capacity = 1` makes the `HashMap` grow at the second
handler. `Failing = {2}` puts a failed `send` before, between or after others.
`LocalCapacity = 5` is one more than a call can make (`CallRefs`), so that one call
fits and piled up references do not. Symmetry is over workers, replies and addresses,
only in runs without liveness. `BeforeUnderrun` in `msg_contract` stops at the first
pop of an empty queue: from then on behaviour is undefined, and a behaviour that comes
there satisfies what the run checks, its liveness property included, whatever follows.
`LittlePastUnderrun` in `msg_isolates` goes on with stray tasks, after one underrun
and one message, for the one property that is claimed then.
`ZeroedHeap` is `FALSE` wherever the question may depend on it.

**Fairness.** Weak, for steps of threads that can run: `NotifyOne`, the steps of
the workers, the event loop's `OnReply` (or its throw), the steps of a synchronous call. The
operating system and the Dart event loop give it; `Wait` needs `cv_mtx_`, which is
only ever held by a thread about to release it. For handlers (`InCall`,
`Answer`) it is an assumption about the application, which a handler that blocks
breaks. Nothing obliges an isolate to send, a wake-up to be spurious, or an
application to register a handler.

## 4. What the runs show

- One worker thread implements the task pool. With more, the pool is a task pool
  up to the first pop of an empty queue. After it a worker may run an old task again,
  and free its message or another's again; only that completion is final is claimed then.
- A message is lost to sleep only between a worker's test of the predicate and
  its sleep; any later message or spurious wake-up rescues it, and a worker that
  is awake works off the whole queue.
- Answers of one isolate are never confused, whatever the order. They are
  between isolates: `replyPort_` is one and every isolate counts from 1.
- If handlers keep their contract, no message is answered or freed twice or freed
  under the eyes of its handler until an underrun. If they do not, the futures are still
  completed once, but memory is freed twice.
- A null reply is one only if `operator new` returned zeroed memory. Otherwise its
  future gets bytes that nobody sent, or waits for ever.
- Data shown to Dart is backed by a live buffer, even with lost updates of the map and
  with shared buffers, as long as no null reply has carried a stray pointer: the
  finalizer of one may take the reference of a live reply. The price is leaks, and only
  these: a reply that was filed, or looked up by its finalizer, while another update of
  the map was under way, or that shared its buffer.
- Ids collide exactly when the digests agree from the last negative byte on: half
  of all names (those whose eighth byte is negative) share 128 ids.
- For an isolate that is alone the concurrent channel is request and reply until an
  underrun: no future is completed before its message was answered, none twice, and
  the completer that a failed `send` leaves behind is never taken for another's.
- A look-up that meets the growing of the `HashMap` may miss a handler that is
  registered (Dart then gets null); it never finds another channel's.
- A null method id is met only while another isolate is between the two
  assignments of a cache, in either channel.
- Once a worker runs, the library is loaded and the API linked if the VM has it:
  linking again does not take the pointers away in between. A call that comes before
  `JNI_OnLoad` is through, or a VM of another version, ends in a null pointer.
- What ends the process has one of few causes (`CrashCauses`): a null `JavaVM` or class
  loader before any class was found; null API functions before any isolate is past the
  linking, in particular where only the synchronous channel is used; a null method while
  another isolate looks it up; an exception of an earlier call on an engine thread, or of
  the call itself at its detachment on any other.
- Only threads that the engine attached pile up local references; others lose them
  with each call, so that one that makes JNI calls for ever stays within `CallRefs`.

Five disagreements with what the repository says have a run of their own
("findings"). Others that a single line of the code shows have none:
names are not the identity of a channel that `concurrent_method_channel.dart:35` calls
them (`CollideBySameTail`); null replies leave the wrapper's length and data unassigned,
of which `stale_pointer` shows the graver consequence; `invokeMethod` returns null where `ConcurrentMethodChannel.kt:70-72` and
`SynchronousMethodChannel.kt:70-72` speak of a `MissingPluginException`;
`onMessage` of the synchronous channel catches RuntimeExceptions only, where lines
92-93 speak of any uncaught exception; the synchronous channel's `send` registers
finalizers through an API it never initialises.

## 5. Proofs

All for every value of the constants that satisfies the modules' named assumptions
(`PoolAssumption`, `MessengerAssumption`, `WidthAssumption`, `CapacityAssumption`,
`MemoryAssumption`, `StartAssumption`, `SyncAssumption`).

- **WorkerPoolProofs.** `PoolTypeCorrect`. `SingleWorkerNeverUnderruns` (from: all
  workers are equal) by the invariant `SingleInv`: a worker between test and pop still
  finds the queue non-empty, as nobody else pops. `OnlyStaleTestsStrand` uses
  `StartedInv`: there are workers before the first push, so that a push meets an awake
  worker or a sleeping one, which the notify wakes. `RefinesUntilUnderrun` and
  `SingleWorkerRefines` use `HandInv`: what is in hand was popped and is in one hand
  only; the mapping is `StatusOf` and `hand`. `InitRefines` and `StepRefines` are the
  two halves of the refinement.
- **ConcurrentMessengerProofs.** The lemma `MessengerImplementsPool` (each action is a
  pool action or leaves the pool alone) carries the pool's theorems over.
  `NeverAnsweredTwice` and `NeverFreedBeforeAnswer` (from: `Contract`; until an underrun,
  as a stray task frees what it likes) by `AnswerInv`: a message is freed as often as it
  was answered, what has not been touched has not been answered, and a handler that threw
  had not spoken. It uses the pool's `HandInv`.
- **RequestReplyProofs.** Along a chain of invariants, each with those before it.
  `FrameInv` (who is inside `handleMessageFromDart` has a genuine message in hand) gives
  `Shape`: every step either leaves requests, futures and ports alone or does one of a
  few things to them, so that what follows has a case per kind of step and not per
  action. `DataTypes` gives `MessengerTypeCorrect`. `SeqInv` (numbers are below the
  isolate's `_seq`, no two messages or failed sends of an isolate share one) gives
  `CompletionIsFinal`, without any assumption on handlers or isolates. `PortInv` (what
  is queued on a port carries the number of the message it answers, until an underrun)
  gives `OnlyForeignAnswers`. `TwiceInv` (a task that a worker is busy with was answered
  through its `Reply` at most) gives `AnsweredTwiceAtMost`: until an underrun, careless
  handlers can have a message freed twice, never three times.
  With handlers that keep the contract and any number of isolates: `NoneForgotten`, the
  safety half of `TakenIsAnswered`, until an underrun; only a return without having
  spoken and a pop of the empty queue could break it.
  With one isolate (`Alone`) and any handlers: `AloneAnswersMatch` and
  `AloneFailedSendsUnanswered` from `PortInv`; `AloneImplementsRequestReply`, one lemma
  per action of `RequestReply`, in which a second answer to a message is a stutter of
  the abstract `answered` and its arrival a stutter of the futures;
  `AloneAnsweredFirst`, argued of `RequestReply` and carried down;
  `AloneRepliesAccountedFor` by `CountInv`, the count itself: an append adds one entry
  for its own message (`AnswersAppended`), taking the head shifts the positions of all
  others, which is a bijection (`AnswersTaken`), and a throw of `onReply` moves one from
  the port to `unread`. The first two of its conjuncts and
  `PortSet` say that `replyPort_` names the isolate from the moment it can send.
  With one isolate and handlers that keep the contract: `PendingInv` (a message of a
  live isolate that is not answered has its completer, and no two entries of a port
  answer one message) gives `CompleterPresentWhenAlone`, and `NoneForgotten` with
  `CountInv` gives `AloneAnswerUnderWay`: the answer to a waiting future is somewhere on
  its way, unless `onReply` has thrown on it. `CompleterPresentWhenAlone` needs the contract: the second answer of a
  careless handler finds no completer.
  With one isolate and one worker `SingleWorkerNeverUnderruns`, through
  `MessengerImplementsPool`, takes "until an underrun" away:
  `SingleWorkerImplementsRequestReply`, `SingleWorkerCompleterPresent`.
- **ReplyMemoryProofs.** `MemoryTypeCorrect`. `BytesStayBacked` and `NoOtherReference`,
  with buffers shared between replies or not, until a null reply carries a stray pointer
  (`NoStray`; `stale_pointer` shows that this is needed), by `HoldInv`. Data that Dart still shows
  need not be held by its own global reference: a racing update or a second reply with
  the same buffer may have led a finalizer to release it instead of another. What is
  kept is an injection (`Backing`) from the replies whose data is still needed to live
  global references of the same buffer; a finalizer that deletes a reference that holds
  another reply leaves its own in exchange (`BackedByExchange`). `FoundInv` says whose
  entry a finalizer can find. `ReleasedWhenFiledAlone` by `ReleaseInv`: a reply with a
  buffer of its own that was filed and looked up while nobody else was updating, a
  missing look-up included, is found under its address, in the map and in every
  snapshot taken since, until its own finalizer looks it up.
- **ChannelNamesProofs.** `NegativeByteForgets`, the reason for the collisions.
  `DigestKeepsTail`, what the recursive function in `Fold` computes for every
  digest: the function is first shown to exist as the sequence of partial results
  (`FoldExists`, `DigestIsFold`), by the least-number principle that
  `WellFoundedInduction` gives in first-order form (`LeastNumber`, `Induction` over a
  set), since the induction theorems themselves take an operator and cannot be used; an
  iteration then keeps two ids apart exactly if the bytes differ or the byte is not
  negative (`FoldAgrees`), which the same induction carries to all bytes. With the
  registry's own types it gives `CollisionsHaveOneTail`, `CollisionMeansSameTail` and
  `NamesTypeCorrect`. `IdsAgree` rests on the two conversions
  giving one word for every byte, `ToSigned(Unsigned(b)) = ToLong(b)`; it and
  `OwnHandlerIsReached` are by `RegistryInv`: an id under
  which there is a handler is the id of its name, and a name is registered exactly if
  its id is there.
- **NativeStartProofs.** `NativeStartSafe` and `NullWorkerMethodOnlyInWindow` by
  `StageInv` (how far an isolate has come says what is loaded), `LinkInv` (past its
  first symbol, somebody has linked it) and `LazyInv` (while class and method differ,
  somebody is in between).
- **SynchronousMessengerProofs.** `SyncTypeCorrect`, `NullMethodOnlyInWindow`,
  `SingleIsolateHasMethod`, `ThreadsLeftAsFound`, `OthersFreeReferences`,
  `WorkersFindNative` and `CallsLeaveWorkerMethod` by `SyncInv`, the conjunction of
  `StartInv`, `CacheInv`, `ThreadInv`, `RefsInv` (the references a thread can have where
  it is) and `ValueInv`. `CrashesHaveCauses`: nothing moves after a crash (`CrashKept`),
  so that each cause need only hold in the step that crashes (`CrashBackground`,
  `CrashStep`).

Every invariant and every safety property of the passing runs is a theorem. Only
model-checked: the liveness properties `AwakeDrains`, `TakenIsAnswered` (but see
`NoneForgotten`) and `CallReturns` (leads-to under fairness is beyond the prover), and
what the five runs with a counterexample show: that hypotheses of the theorems are
needed, one worker (`underrun_assert`), the contract (`careless_handler`), one
isolate (`second_isolate`) and no stray pointer (`stale_pointer`), and that a wake-up is
lost (`lost_wakeup`). That
`CompleterPresentWhenAlone` needs the contract was found with TLC as well.

## 6. Not modelled

- The declarations of the Dart VM in `dart_api.h`, `dart_native_api.h` and
  `dart_version.h`: they are the interface of another program, more than four fifths
  of the lines of C in the repository, and hold no behaviour of the plugin. What it calls
  (`Dart_PostInteger`, `Dart_NewWeakPersistentHandle`, the linking in `dart_api_dl.c`)
  is modelled. All of the plugin's own C++ functions and state are.
- `onMessage` of the Dart messenger only throws; nothing posts to `messagePort_`.
- What a second free, a write into freed memory or a read through a stray pointer does to
  the heap: only which message is freed and which pointer is read are in the models. In
  `ReplyMemory` properties are claimed until the first stray pointer for this reason.
- Names with unpaired surrogates, which Dart's and Java's UTF-8 encoders replace by
  different bytes: the MD5 of a name is one on both sides.
- A Java `Error` (not an `Exception`) in a worker ends the process on detach.
- A torn read in `empty()`, which reads the deque under the wrong mutex: a
  word is read whole on the supported ABIs. Corruption of the structure of an
  `unordered_map`, a `HashMap` or the vector `threads_` by overlapping updates; lost
  updates and missed look-ups are modelled. Writes are seen in the order of the program:
  the delays that the memory models of C++ and Java allow to unsynchronised statics
  are not modelled.
- Memory exhaustion other than in `allocate` of the concurrent `send`; the memory of a
  synchronous message, which lives and dies within one call; a synchronous handler that
  returns or keeps the message, against `SynchronousNativeBinaryMessenger.kt:42-43`.
- Wrap-around of the 64-bit `_seq`, ids that the application gives explicitly, the
  codecs and lengths, logging, the empty handler of the plugin class, the example and
  the iOS stub.

## 7. Plan

Written in this order: `TaskPool`, `WorkerPool` and its proofs, because everything
rests on the pool; `ConcurrentMessenger` on top of it; `ReplyMemory`, `ChannelNames`,
`SynchronousMessenger` beside it; then `NativeStart` under the latter, the growing
`HashMap`, failing sends, `RequestReply` and its refinement, and the proofs of the
messenger's sequence numbers. What is left:

1. `ConcurrentMessenger` and `ReplyMemory` composed, so that the bytes of a future are
   those of its answer.
2. What an isolate may rely on that is not alone, as after a hot restart, where the one
   before it has ended but its messages are still being answered.
