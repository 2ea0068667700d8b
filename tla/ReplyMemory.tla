---------------------------- MODULE ReplyMemory -----------------------------
(***************************************************************************)
(* The memory of replies.  Dart sees the bytes of a Java direct ByteBuffer *)
(* through a bare pointer.  What keeps the buffer from being collected is  *)
(* a JNI global reference, which finalizer.h files under the pointer in    *)
(* global_references_ and finalizer.cc deletes when Dart has collected the *)
(* typed data that shows the bytes.                                        *)
(*                                                                         *)
(* The map is a static std::unordered_map without a lock: workers insert   *)
(* (concurrent_channel.cc, synchronous_channel.cc), the threads of the     *)
(* isolates look up, which inserts a null entry on a miss, and erase.  Two *)
(* updates that overlap race; here each takes two steps, and the second    *)
(* may be based on what the first saw, so that what others did in between  *)
(* is lost, and a look-up that meets an update may miss.                   *)
(*                                                                         *)
(* A null reply files nothing and leaves the data pointer of its wrapper   *)
(* unassigned: what the pointer then happens to hold, Dart takes for data. *)
(*                                                                         *)
(* A global reference is named by the reply it was made for, a buffer by   *)
(* the reply it was allocated for.                                         *)
(***************************************************************************)
EXTENDS Naturals, FiniteSets

CONSTANTS Replies,     \* the replies
          Addresses,   \* where the Java heap may place a direct buffer
          Sharing,     \* may a handler reply with a buffer it replied with before
          Finalizing,  \* how many threads run Dart finalizers: the isolates
          ZeroedHeap   \* does operator new happen to return zeroed memory

None    == "none"
Nullptr == "nullptr"     \* what GetDirectBufferAddress says of a heap buffer

ASSUME MemoryAssumption == /\ Sharing \in BOOLEAN /\ ZeroedHeap \in BOOLEAN
                           /\ Finalizing \in Nat \ {0}
                           /\ None \notin Replies \union Addresses
                           /\ Nullptr \notin Addresses

VARIABLES stage,       \* stage[r]: how far reply r has come
          buf,         \* buf[r]: the buffer of reply r, None for a null reply
          stray,       \* stray[r]: the unassigned data pointer of null reply r
          addr,        \* addr[b]: the address of buffer b
          alive,       \* the buffers Java has not collected
          kept,        \* the buffers the application keeps to reply with again
          globals,     \* the live global references
          global_references_,
          snap,        \* snap[r]: the map as an update under way for r saw it
          object,      \* object[r]: the reference the finalizer of r has looked up
          crossed      \* history: the replies filed, or looked up by their finalizer,
                       \* while another update was under way

bufferVars == <<buf, stray, addr, alive, kept>>
mapVars    == <<globals, global_references_, snap, object, crossed>>
vars       == <<stage, bufferVars, mapVars>>

Pointer == Addresses \union {Nullptr}
Empty   == [p \in Pointer |-> None]

Init == /\ stage = [r \in Replies |-> "new"]
        /\ buf = [r \in Replies |-> None]
        /\ stray = [r \in Replies |-> None]
        /\ addr = [b \in Replies |-> None]
        /\ alive = {} /\ kept = {}
        /\ globals = {}
        /\ global_references_ = Empty
        /\ snap = [r \in Replies |-> Empty]
        /\ object = [r \in Replies |-> None]
        /\ crossed = {}
-----------------------------------------------------------------------------
(* The handler of the application (external) allocates its reply, or takes *)
(* one it has kept.                                                        *)
Taken == {addr[b] : b \in alive} \ {Nullptr}

Allocate(r, p) == /\ stage[r] = "new"
                  /\ p \in Pointer \ Taken
                  /\ stage' = [stage EXCEPT ![r] = "local"]
                  /\ buf' = [buf EXCEPT ![r] = r]
                  /\ addr' = [addr EXCEPT ![r] = p]
                  /\ alive' = alive \union {r}
                  /\ kept' \in {kept} \union IF Sharing THEN {kept \union {r}} ELSE {}
                  /\ UNCHANGED <<stray, mapVars>>

ReplyAgain(r, b) == /\ stage[r] = "new"
                    /\ b \in kept
                    /\ stage' = [stage EXCEPT ![r] = "local"]
                    /\ buf' = [buf EXCEPT ![r] = b]
                    /\ UNCHANGED <<stray, addr, alive, kept, mapVars>>

Forget(b) == /\ b \in kept
             /\ kept' = kept \ {b}
             /\ UNCHANGED <<stage, buf, stray, addr, alive, mapVars>>

(* The null reply of a missing or throwing handler: no reference is made,  *)
(* nothing is filed, and ret->data is not assigned.  A pointer that is not *)
(* null may be the address of an earlier or a later reply; an address of   *)
(* no buffer stands for all others.                                        *)
NullReply(r) == /\ stage[r] = "new"
                /\ stage' = [stage EXCEPT ![r] = "posted"]
                /\ \E p \in IF ZeroedHeap THEN {Nullptr} ELSE Pointer :
                      stray' = [stray EXCEPT ![r] = p]
                /\ UNCHANGED <<buf, addr, alive, kept, mapVars>>

PointerOf(r) == IF buf[r] = None THEN stray[r] ELSE addr[buf[r]]

(* What the map may be after an update for r that began at snap[r].        *)
Updated(r, ref) == {[base EXCEPT ![PointerOf(r)] = ref] :
                      base \in {global_references_, snap[r]}}

(* replyMessageToDart and SendSynchronousMessageToPlatform: NewGlobalRef,  *)
(* then AssociatePointerWithGlobalReference, then post or return.          *)
NewGlobalRef(r) == /\ stage[r] = "local"
                   /\ stage' = [stage EXCEPT ![r] = "filing"]
                   /\ globals' = globals \union {r}
                   /\ snap' = [snap EXCEPT ![r] = global_references_]
                   /\ UNCHANGED <<bufferVars, global_references_, object, crossed>>

Updating(r) == stage[r] \in {"filing", "missed", "deleted"}
Overlapping(r) == \E q \in Replies \ {r} : Updating(q)

(* What filing r, or looking it up, records of its history.                *)
Crossing(r) == crossed' = IF Overlapping(r) THEN crossed \union {r} ELSE crossed

(* Faulty: the reference that was filed there before is deleted.           *)
AssociateReplacing(r) ==
    /\ stage[r] = "filing"
    /\ stage' = [stage EXCEPT ![r] = "posted"]
    /\ global_references_' \in Updated(r, r)
    /\ globals' = globals \ {global_references_[PointerOf(r)]}
    /\ snap' = [snap EXCEPT ![r] = Empty]
    /\ Crossing(r)
    /\ UNCHANGED <<bufferVars, object>>

(* Faulty: emplace instead of operator[], which keeps an older entry.      *)
AssociateAbsent(r) ==
    /\ stage[r] = "filing"
    /\ stage' = [stage EXCEPT ![r] = "posted"]
    /\ IF global_references_[PointerOf(r)] # None THEN UNCHANGED global_references_
       ELSE global_references_' \in Updated(r, r)
    /\ snap' = [snap EXCEPT ![r] = Empty]
    /\ Crossing(r)
    /\ UNCHANGED <<bufferVars, globals, object>>

AssociatePointer(r) == /\ stage[r] = "filing"
                       /\ stage' = [stage EXCEPT ![r] = "posted"]
                       /\ global_references_' \in Updated(r, r)
                       /\ snap' = [snap EXCEPT ![r] = Empty]
                       /\ Crossing(r)
                       /\ UNCHANGED <<bufferVars, globals, object>>
-----------------------------------------------------------------------------
(* Faulty: the finalizer is registered for a null pointer as well.         *)
OnReplyUnchecked(r) == /\ stage[r] = "posted"
                       /\ stage' = [stage EXCEPT ![r] = "shown"]
                       /\ UNCHANGED <<bufferVars, mapVars>>

(* Dart: onReply registers a finalizer for the typed data, whatever the    *)
(* data pointer is; a null pointer is taken for a null reply and registers *)
(* none.                                                                   *)
OnReply(r) == /\ stage[r] = "posted"
              /\ stage' = [stage EXCEPT ![r] = IF PointerOf(r) = Nullptr THEN "null" ELSE "shown"]
              /\ UNCHANGED <<bufferVars, mapVars>>

(* The length of an unassigned wrapper makes asTypedList throw.            *)
OnReplyThrows(r) == /\ stage[r] = "posted"
                    /\ buf[r] = None /\ stray[r] # Nullptr
                    /\ stage' = [stage EXCEPT ![r] = "lost"]
                    /\ UNCHANGED <<bufferVars, mapVars>>

(* The port is closed: nobody receives the pointer.                        *)
PortClosed(r) == /\ stage[r] = "posted"
                 /\ stage' = [stage EXCEPT ![r] = "lost"]
                 /\ UNCHANGED <<bufferVars, mapVars>>

InFinalizer(r) == stage[r] \in {"found", "missed", "deleted"}

(* Faulty: object is not compared with nullptr.                            *)
FinalizeUnchecked(r) ==
    /\ stage[r] = "shown"
    /\ Cardinality({q \in Replies : InFinalizer(q)}) < Finalizing
    /\ stage' = [stage EXCEPT ![r] = "found"]
    /\ object' = [object EXCEPT ![r] = global_references_[PointerOf(r)]]
    /\ UNCHANGED <<bufferVars, globals, global_references_, snap, crossed>>

(* Dart collects the typed data and runs DartFinalizer:                    *)
(* ReleaseGlobalReferenceByPointer looks the pointer up with operator[],   *)
(* which begins to insert a null entry when it finds none ...              *)
DartFinalizer(r) ==
    /\ stage[r] = "shown"
    /\ Cardinality({q \in Replies : InFinalizer(q)}) < Finalizing
    /\ \E found \in {global_references_[PointerOf(r)]}
                     \union IF Overlapping(r) THEN {None} ELSE {} :
          /\ stage' = [stage EXCEPT ![r] = IF found = None THEN "missed" ELSE "found"]
          /\ object' = [object EXCEPT ![r] = found]
          /\ snap' = [snap EXCEPT ![r] = IF found = None THEN global_references_ ELSE Empty]
    /\ Crossing(r)
    /\ UNCHANGED <<bufferVars, globals, global_references_>>

(* ... and ends, unless an entry filed meanwhile is the one that stays ... *)
InsertNull(r) == /\ stage[r] = "missed"
                 /\ stage' = [stage EXCEPT ![r] = "gone"]
                 /\ global_references_' \in Updated(r, None) \union {global_references_}
                 /\ snap' = [snap EXCEPT ![r] = Empty]
                 /\ UNCHANGED <<bufferVars, globals, object, crossed>>

(* ... or deletes the reference found and begins to erase the entry ...    *)
DeleteGlobalRef(r) ==
    /\ stage[r] = "found"
    /\ stage' = [stage EXCEPT ![r] = "deleted"]
    /\ globals' = globals \ {object[r]}
    /\ snap' = [snap EXCEPT ![r] = global_references_]
    /\ UNCHANGED <<bufferVars, global_references_, object, crossed>>

(* ... and erases what is filed under the pointer by then.  TriggerGC only *)
(* makes the collection of the buffer, possible at any time, likely.       *)
Erase(r) == /\ stage[r] = "deleted"
            /\ stage' = [stage EXCEPT ![r] = "gone"]
            /\ global_references_' \in Updated(r, None)
            /\ snap' = [snap EXCEPT ![r] = Empty]
            /\ object' = [object EXCEPT ![r] = None]
            /\ UNCHANGED <<bufferVars, globals, crossed>>

(* Java collects a buffer that no reference keeps: neither the global ones *)
(* nor the local one of a call under way nor the application's own.        *)
JavaCollect(b) == /\ b \in alive \ kept
                  /\ \A r \in globals : buf[r] # b
                  /\ \A r \in Replies : buf[r] = b => stage[r] \notin {"local", "filing"}
                  /\ alive' = alive \ {b}
                  /\ UNCHANGED <<stage, buf, stray, addr, kept, mapVars>>

Next == \E r \in Replies :
           \/ \E p \in Pointer : Allocate(r, p)
           \/ \E b \in Replies : ReplyAgain(r, b)
           \/ Forget(r) \/ NewGlobalRef(r) \/ AssociatePointer(r) \/ NullReply(r)
           \/ OnReply(r) \/ OnReplyThrows(r) \/ PortClosed(r)
           \/ DartFinalizer(r) \/ InsertNull(r) \/ DeleteGlobalRef(r) \/ Erase(r)
           \/ JavaCollect(r)

Spec == Init /\ [][Next]_vars
-----------------------------------------------------------------------------
Stage == {"new", "local", "filing", "posted", "shown", "null", "lost", "found", "missed",
          "deleted", "gone"}
Map   == [Pointer -> Replies \union {None}]

(* Types; and a finalizer has found a reference exactly while it is between*)
(* a look-up that did not miss and the end of the erasure.                 *)
TypeOK == /\ stage \in [Replies -> Stage]
          /\ buf \in [Replies -> Replies \union {None}]
          /\ stray \in [Replies -> Pointer \union {None}]
          /\ addr \in [Replies -> Pointer \union {None}]
          /\ alive \subseteq Replies /\ kept \subseteq alive
          /\ globals \subseteq Replies
          /\ global_references_ \in Map
          /\ snap \in [Replies -> Map]
          /\ object \in [Replies -> Replies \union {None}]
          /\ \A r \in Replies : stage[r] \in {"found", "deleted"} <=> object[r] # None
          /\ crossed \subseteq Replies

(* "The lifecycle of object transmit using shared memory": the buffer of a *)
(* reply is not collected while Dart can read its bytes, or is about to.   *)
RepliesBacked ==
    \A r \in Replies : stage[r] \in {"posted", "shown"} /\ buf[r] # None => buf[r] \in alive

(* No null reply has carried a pointer yet, and none ever does where the   *)
(* heap is zeroed.                                                         *)
NoStray == \A r \in Replies : stray[r] \in {None, Nullptr}

(* Whatever pointer Dart reads is of a buffer that Java has not collected, *)
(* whatever races for the map, until a null reply carries a stray pointer. *)
BytesBackedUntilStray ==
    ~NoStray \/ \A r \in Replies :
        stage[r] \in {"posted", "shown"} /\ PointerOf(r) # Nullptr => buf[r] \in alive

(* The reference a finalizer deletes is not one that other data relies on: *)
(* it may be that of a later reply only if both show the same buffer, as   *)
(* long as no finalizer is registered for a stray pointer.                 *)
NoOtherReleased ==
    ~NoStray \/ \A r, q \in Replies :
        object[r] = q /\ q # r /\ stage[q] \in {"filing", "posted", "shown"} => buf[q] = buf[r]

(* "Release the global reference of jobject associated with pointer": it   *)
(* is released once the finalizer has run, if the reply was filed, and     *)
(* looked up, while no other update of the map was under way and has its   *)
(* buffer to itself.                                                       *)
ReleasedUnlessCrossed ==
    ~NoStray \/ \A r \in Replies : /\ stage[r] = "gone" /\ r \notin crossed
                                   /\ \A q \in Replies \ {r} : buf[q] # buf[r]
                                   => r \notin globals
=============================================================================
