------------------------- MODULE ReplyMemoryProofs --------------------------
(* Theorems about ReplyMemory, for every number of replies, addresses and  *)
(* finalizing threads, with updates of the map that may be lost and        *)
(* handlers that may reply with one buffer several times, until a null     *)
(* reply carries a stray pointer.                                          *)
EXTENDS ReplyMemory, TLAPS

Over   == {"missed", "deleted", "gone"}
Filed  == Stage \ {"new", "local", "filing"}
Holds  == (Filed \ Over) \union {"filing"}

(* Types, whether or not handlers reply with a buffer twice: a reply that  *)
(* is under way has a buffer or is a null reply, and a buffer that is      *)
(* alive has an address.                                                   *)
HasBuffer(r) == buf[r] \in Replies /\ addr[buf[r]] \in Pointer /\ stray[r] = None
IsNull(r)    == buf[r] = None /\ stray[r] \in Pointer /\ stage[r] \notin {"local", "filing"}

MemoryTypes ==
    /\ TypeOK
    /\ \A r \in Replies : IF stage[r] = "new" THEN buf[r] = None /\ stray[r] = None
                          ELSE HasBuffer(r) \/ IsNull(r)
    /\ \A b \in alive : addr[b] \in Pointer

LEMMA PointerIsPointer == ASSUME MemoryTypes, NEW r \in Replies, stage[r] # "new"
                          PROVE  PointerOf(r) \in Pointer
BY MemoryAssumption DEF MemoryAssumption, MemoryTypes, HasBuffer, IsNull, PointerOf

LEMMA UpdatedMap ==
    ASSUME MemoryTypes, NEW r \in Replies, NEW ref \in Replies \union {None}
    PROVE  Updated(r, ref) \subseteq Map
<1>1. global_references_ \in Map /\ snap[r] \in Map
  BY DEF MemoryTypes, TypeOK
<1>2. \A base \in Map : [base EXCEPT ![PointerOf(r)] = ref] \in Map
  BY DEF Map
<1>3. QED
  BY <1>1, <1>2 DEF Updated

LEMMA MemoryTypesStep == ASSUME MemoryTypes, [Next]_vars PROVE MemoryTypes'
<1> USE MemoryAssumption DEF MemoryAssumption, MemoryTypes, HasBuffer, IsNull, TypeOK, Stage
<1>1. ASSUME NEW r \in Replies, NEW p \in Pointer, Allocate(r, p) PROVE MemoryTypes'
  <2>1. /\ stage[r] = "new" /\ stage' = [stage EXCEPT ![r] = "local"]
        /\ buf' = [buf EXCEPT ![r] = r] /\ addr' = [addr EXCEPT ![r] = p]
        /\ alive' = alive \union {r} /\ kept' \subseteq kept \union {r} /\ stray' = stray
        /\ UNCHANGED <<globals, global_references_, snap, object, crossed>>
    BY <1>1 DEF Allocate, mapVars
  <2>2. QED
    BY <2>1
<1>2. ASSUME NEW r \in Replies, NEW b \in Replies, ReplyAgain(r, b) PROVE MemoryTypes'
  BY <1>2 DEF ReplyAgain, mapVars
<1>3. ASSUME NEW r \in Replies, Forget(r) PROVE MemoryTypes'
  BY <1>3 DEF Forget, mapVars
<1>4. ASSUME NEW r \in Replies, NewGlobalRef(r) PROVE MemoryTypes'
  BY <1>4 DEF NewGlobalRef, bufferVars
<1>4a. ASSUME NEW r \in Replies, NullReply(r) PROVE MemoryTypes'
  <2>1. PICK p \in Pointer : stray' = [stray EXCEPT ![r] = p]
    BY <1>4a DEF NullReply, Pointer
  <2>2. QED
    BY <1>4a, <2>1 DEF NullReply, mapVars
<1>5. ASSUME NEW r \in Replies, AssociatePointer(r) PROVE MemoryTypes'
  <2>1. global_references_' \in Map /\ Empty \in Map
    BY <1>5, UpdatedMap DEF AssociatePointer, Empty, Map
  <2>2. /\ stage[r] = "filing" /\ stage' = [stage EXCEPT ![r] = "posted"]
        /\ snap' = [snap EXCEPT ![r] = Empty] /\ crossed' \subseteq crossed \union {r}
        /\ UNCHANGED <<bufferVars, globals, object>>
    BY <1>5 DEF AssociatePointer, Crossing
  <2>3. QED
    BY <2>1, <2>2 DEF bufferVars
<1>6. ASSUME NEW r \in Replies, OnReply(r) PROVE MemoryTypes'
  BY <1>6 DEF OnReply, mapVars, bufferVars
<1>6a. ASSUME NEW r \in Replies, OnReplyThrows(r) PROVE MemoryTypes'
  BY <1>6a DEF OnReplyThrows, mapVars, bufferVars
<1>7. ASSUME NEW r \in Replies, PortClosed(r) PROVE MemoryTypes'
  BY <1>7 DEF PortClosed, mapVars, bufferVars
<1>8. ASSUME NEW r \in Replies, DartFinalizer(r) PROVE MemoryTypes'
  <2>0. global_references_[PointerOf(r)] \in Replies \union {None}
    BY <1>8, PointerIsPointer DEF DartFinalizer, Map
  <2>1. PICK found \in Replies \union {None} :
           /\ stage' = [stage EXCEPT ![r] = IF found = None THEN "missed" ELSE "found"]
           /\ object' = [object EXCEPT ![r] = found]
           /\ snap' = [snap EXCEPT ![r] = IF found = None THEN global_references_ ELSE Empty]
    BY <1>8, <2>0 DEF DartFinalizer
  <2>2. /\ stage[r] = "shown" /\ crossed' \subseteq crossed \union {r}
        /\ UNCHANGED <<bufferVars, globals, global_references_>>
    BY <1>8 DEF DartFinalizer, Crossing
  <2>3. Empty \in Map
    BY DEF Empty, Map
  <2>4. QED
    BY <2>1, <2>2, <2>3 DEF bufferVars
<1>8a. ASSUME NEW r \in Replies, InsertNull(r) PROVE MemoryTypes'
  <2>1. global_references_' \in Map /\ Empty \in Map
    BY <1>8a, UpdatedMap DEF InsertNull, Empty, Map
  <2>2. QED
    BY <1>8a, <2>1 DEF InsertNull, bufferVars
<1>9. ASSUME NEW r \in Replies, DeleteGlobalRef(r) PROVE MemoryTypes'
  BY <1>9 DEF DeleteGlobalRef, bufferVars
<1>10. ASSUME NEW r \in Replies, Erase(r) PROVE MemoryTypes'
  <2>1. global_references_' \in Map /\ Empty \in Map
    BY <1>10, UpdatedMap DEF Erase, Empty, Map
  <2>2. QED
    BY <1>10, <2>1 DEF Erase, bufferVars
<1>11. ASSUME NEW b \in Replies, JavaCollect(b) PROVE MemoryTypes'
  BY <1>11 DEF JavaCollect, mapVars
<1>12. CASE UNCHANGED vars
  BY <1>12 DEF vars, bufferVars, mapVars
<1>13. QED
  BY <1>1, <1>2, <1>3, <1>4, <1>4a, <1>5, <1>6, <1>6a, <1>7, <1>8, <1>8a, <1>9, <1>10, <1>11,
     <1>12 DEF Next

LEMMA MemoryTypesInit == Init => MemoryTypes
BY MemoryAssumption DEF MemoryAssumption, Init, MemoryTypes, TypeOK, Map, Empty, Stage

(* The memory of replies keeps its types, and a finalizer holds a looked-up*)
(* reference exactly between its look-up and its erasure.                  *)
THEOREM MemoryTypeCorrect == Spec => []TypeOK
<1>1. MemoryTypes => TypeOK
  BY DEF MemoryTypes
<1>2. QED
  BY <1>1, MemoryTypesInit, MemoryTypesStep, PTL DEF Spec
-----------------------------------------------------------------------------
(***************************************************************************)
(* Buffers.  A buffer that has a reference, or is in use in a call, is     *)
(* alive, and no two that are alive have one address; the null pointer is  *)
(* the address of every heap buffer.  A null reply is not shown as long as *)
(* none has carried a stray pointer.                                       *)
(***************************************************************************)
BufferInv ==
    /\ NoStray
    /\ \A r \in Replies : stage[r] = "new" => r \notin alive
    /\ \A r \in Replies : buf[r] # None => stage[buf[r]] # "new"
    /\ \A r \in Replies : buf[r] = None => stage[r] \in {"new", "posted", "null", "lost"}
    /\ \A r \in Replies : stage[r] = "local" => buf[r] \in alive
    /\ \A r \in globals : buf[r] \in alive /\ stage[r] \notin {"new", "local"}
    /\ \A r \in Replies : stage[r] = "shown" => PointerOf(r) # Nullptr
    /\ \A b, c \in alive : b # c /\ addr[b] = addr[c] => addr[b] = Nullptr

LEMMA BufferInit == Init => BufferInv
BY DEF Init, BufferInv, NoStray

(* Steps that change no buffer and make no reference.                      *)
LEMMA BufferKept ==
    ASSUME MemoryTypes, BufferInv, NEW r \in Replies, NEW s \in Stage \ {"new", "local"},
           stage[r] # "new", stage' = [stage EXCEPT ![r] = s],
           s = "shown" => PointerOf(r) # Nullptr,
           buf[r] = None => s \in {"posted", "null", "lost"},
           globals' \subseteq globals, UNCHANGED <<buf, stray, addr, alive>>
    PROVE  BufferInv'
BY DEF MemoryTypes, TypeOK, BufferInv, NoStray, PointerOf, Stage

LEMMA BufferStep == ASSUME MemoryTypes, BufferInv, NoStray', [Next]_vars PROVE BufferInv'
<1> USE DEF MemoryTypes, TypeOK
<1>1. ASSUME NEW r \in Replies, NEW p \in Pointer, Allocate(r, p) PROVE BufferInv'
  <2>1. /\ stage[r] = "new" /\ p \in Pointer \ Taken
        /\ stage' = [stage EXCEPT ![r] = "local"]
        /\ buf' = [buf EXCEPT ![r] = r] /\ addr' = [addr EXCEPT ![r] = p]
        /\ alive' = alive \union {r} /\ globals' = globals /\ stray' = stray
    BY <1>1 DEF Allocate, mapVars
  <2>2. \A b, c \in alive' : b # c /\ addr'[b] = addr'[c] => addr'[b] = Nullptr
    BY <2>1 DEF Taken, BufferInv
  <2>3. \A x \in Replies : stage[x] # "new" =>
           /\ buf'[x] = buf[x] /\ stray'[x] = stray[x] /\ stage'[x] = stage[x]
           /\ buf[x] # None => addr'[buf[x]] = addr[buf[x]]
    BY <2>1 DEF BufferInv
  <2>4. /\ stage'[r] = "local" /\ buf'[r] = r /\ r \in alive' /\ r # None
        /\ \A x \in Replies : stage'[x] = "new" => stage[x] = "new" /\ x # r
        /\ \A x \in Replies : stage'[x] # "new" => stage[x] # "new" \/ x = r
        /\ \A x \in Replies : x # r => buf'[x] = buf[x] /\ stage'[x] = stage[x]
    BY <2>1, MemoryAssumption DEF MemoryAssumption
  <2>5. QED
    BY <2>1, <2>2, <2>3, <2>4 DEF BufferInv, PointerOf
<1>2. ASSUME NEW r \in Replies, NEW b \in Replies, ReplyAgain(r, b) PROVE BufferInv'
  <2>1. /\ stage[r] = "new" /\ b \in alive /\ b # None
        /\ stage' = [stage EXCEPT ![r] = "local"] /\ buf' = [buf EXCEPT ![r] = b]
        /\ UNCHANGED <<stray, addr, alive, globals>>
    BY <1>2, MemoryAssumption DEF MemoryAssumption, ReplyAgain, mapVars
  <2>2. /\ stage'[r] = "local" /\ buf'[r] = b /\ stage[b] # "new" /\ b # r
        /\ \A x \in Replies \ {r} : buf'[x] = buf[x] /\ stage'[x] = stage[x]
        /\ r \notin globals
    BY <2>1 DEF BufferInv
  <2>3. QED
    BY <2>1, <2>2 DEF BufferInv, PointerOf
<1>3. ASSUME NEW r \in Replies, Forget(r) PROVE BufferInv'
  BY <1>3 DEF Forget, mapVars, BufferInv, NoStray, PointerOf
<1>4. ASSUME NEW r \in Replies, NewGlobalRef(r) PROVE BufferInv'
  BY <1>4 DEF NewGlobalRef, bufferVars, BufferInv, NoStray, PointerOf
<1>4a. ASSUME NEW r \in Replies, NullReply(r) PROVE BufferInv'
  <2>1. /\ stage[r] = "new" /\ stage' = [stage EXCEPT ![r] = "posted"]
        /\ stray' \in [Replies -> Pointer \union {None}]
        /\ \A x \in Replies \ {r} : stray'[x] = stray[x]
        /\ UNCHANGED <<buf, addr, alive, globals>>
    BY <1>4a DEF NullReply, mapVars, Pointer
  <2>2. QED
    BY <2>1 DEF BufferInv, PointerOf
<1>5. ASSUME NEW r \in Replies, AssociatePointer(r) PROVE BufferInv'
  BY <1>5, BufferKept DEF AssociatePointer, bufferVars, BufferInv, Stage
<1>6. ASSUME NEW r \in Replies, OnReply(r) PROVE BufferInv'
  <2>1. PICK s \in {"null", "shown"} : /\ stage' = [stage EXCEPT ![r] = s]
                                       /\ s = "shown" <=> PointerOf(r) # Nullptr
    BY <1>6 DEF OnReply
  <2>2. /\ stage[r] = "posted" /\ UNCHANGED <<globals, buf, stray, addr, alive>>
    BY <1>6 DEF OnReply, mapVars, bufferVars
  <2>3. buf[r] = None => s = "null"
    BY <2>1, <2>2, MemoryAssumption
       DEF MemoryAssumption, IsNull, HasBuffer, BufferInv, NoStray, PointerOf, Pointer
  <2>4. QED
    BY <2>1, <2>2, <2>3, BufferKept DEF Stage
<1>6a. ASSUME NEW r \in Replies, OnReplyThrows(r) PROVE BufferInv'
  BY <1>6a, BufferKept DEF OnReplyThrows, mapVars, bufferVars, Stage
<1>7. ASSUME NEW r \in Replies, PortClosed(r) PROVE BufferInv'
  BY <1>7, BufferKept DEF PortClosed, mapVars, bufferVars, Stage
<1>8. ASSUME NEW r \in Replies, DartFinalizer(r) PROVE BufferInv'
  <2>1. /\ stage[r] = "shown" /\ UNCHANGED <<globals, buf, stray, addr, alive>>
        /\ \E s \in {"missed", "found"} : stage' = [stage EXCEPT ![r] = s]
    BY <1>8 DEF DartFinalizer, bufferVars
  <2>2. buf[r] # None
    BY <2>1 DEF BufferInv
  <2>3. PICK s \in {"missed", "found"} : stage' = [stage EXCEPT ![r] = s]
    BY <2>1
  <2>4. s \in Stage \ {"new", "local"} /\ s # "shown"
    BY <2>3 DEF Stage
  <2>5. QED
    BY <2>1, <2>2, <2>3, <2>4, BufferKept
<1>8a. ASSUME NEW r \in Replies, InsertNull(r) PROVE BufferInv'
  BY <1>8a, BufferKept DEF InsertNull, bufferVars, BufferInv, Stage
<1>9. ASSUME NEW r \in Replies, DeleteGlobalRef(r) PROVE BufferInv'
  BY <1>9, BufferKept DEF DeleteGlobalRef, bufferVars, BufferInv, Stage
<1>10. ASSUME NEW r \in Replies, Erase(r) PROVE BufferInv'
  BY <1>10, BufferKept DEF Erase, bufferVars, BufferInv, Stage
<1>11. ASSUME NEW b \in Replies, JavaCollect(b) PROVE BufferInv'
  BY <1>11 DEF JavaCollect, mapVars, BufferInv, NoStray, PointerOf
<1>12. CASE UNCHANGED vars
  BY <1>12 DEF vars, bufferVars, mapVars, BufferInv, NoStray, PointerOf
<1>13. QED
  BY <1>1, <1>2, <1>3, <1>4, <1>4a, <1>5, <1>6, <1>6a, <1>7, <1>8, <1>8a, <1>9, <1>10, <1>11,
     <1>12 DEF Next

(* What a step leaves: a reply keeps its buffer and a buffer its address; a*)
(* reply that is filed stays filed, and a reference that is deleted is not *)
(* made again.                                                             *)
LEMMA RepliesKept ==
    ASSUME MemoryTypes, BufferInv, [Next]_vars, NEW x \in Replies, stage[x] # "new"
    PROVE  /\ stage'[x] # "new" /\ buf'[x] = buf[x] /\ PointerOf(x)' = PointerOf(x)
           /\ stage[x] \in Filed => stage'[x] \in Filed /\ (x \in globals' => x \in globals)
           /\ stage[x] \in Over => stage'[x] \in Over
<1> USE DEF MemoryTypes, TypeOK, Stage, Filed, Over, PointerOf
<1>1. ASSUME NEW r \in Replies, NEW p \in Pointer, Allocate(r, p)
      PROVE  /\ buf'[x] = buf[x] /\ (buf[x] # None => addr'[buf[x]] = addr[buf[x]])
             /\ stray' = stray /\ stage'[x] = stage[x] /\ globals' = globals
  BY <1>1 DEF Allocate, mapVars, BufferInv
<1>2. ASSUME NEW r \in Replies, (\E b \in Replies : ReplyAgain(r, b)) \/ NullReply(r)
      PROVE  /\ buf'[x] = buf[x] /\ stray'[x] = stray[x] /\ stage'[x] = stage[x]
             /\ addr' = addr /\ globals' = globals
  BY <1>2 DEF ReplyAgain, NullReply, mapVars
<1>3. ASSUME NEW r \in Replies,
             \/ Forget(r) \/ NewGlobalRef(r) \/ AssociatePointer(r)
             \/ OnReply(r) \/ OnReplyThrows(r) \/ PortClosed(r)
             \/ DartFinalizer(r) \/ InsertNull(r) \/ DeleteGlobalRef(r) \/ Erase(r)
             \/ JavaCollect(r)
      PROVE  /\ buf' = buf /\ stray' = stray /\ addr' = addr
             /\ \/ stage' = stage
                \/ stage[r] = "local" /\ stage' = [stage EXCEPT ![r] = "filing"]
                \/ \E s \in Filed : /\ stage' = [stage EXCEPT ![r] = s]
                                    /\ stage[r] \in Over => s \in Over
             /\ globals' \subseteq globals \/ (stage[r] = "local" /\ globals' = globals \union {r})
  BY <1>3 DEF Forget, NewGlobalRef, AssociatePointer, OnReply, OnReplyThrows, PortClosed,
              DartFinalizer, InsertNull, DeleteGlobalRef, Erase, JavaCollect, mapVars, bufferVars
<1>4. CASE UNCHANGED vars
  BY <1>4 DEF vars, bufferVars, mapVars
<1>5. CASE \E r \in Replies : \/ Forget(r) \/ NewGlobalRef(r) \/ AssociatePointer(r)
                              \/ OnReply(r) \/ OnReplyThrows(r) \/ PortClosed(r)
                              \/ DartFinalizer(r) \/ InsertNull(r)
                              \/ DeleteGlobalRef(r) \/ Erase(r) \/ JavaCollect(r)
  BY <1>3, <1>5
<1>6. QED
  BY <1>1, <1>2, <1>4, <1>5 DEF Next
-----------------------------------------------------------------------------
(***************************************************************************)
(* Entries.  Whatever update is lost, an entry of the map names a reply    *)
(* that was filed under that pointer.                                      *)
(***************************************************************************)
EntriesFiled(map) ==
    \A p \in Pointer : LET x == map[p]
                       IN  x # None => stage[x] \in Filed /\ PointerOf(x) = p

EntryInv == /\ EntriesFiled(global_references_)
            /\ \A r \in Replies : EntriesFiled(snap[r])

LEMMA EntryInit == Init => EntryInv
BY DEF Init, EntryInv, EntriesFiled, Empty

(* The entries of a map after a step.                                      *)
PointerAfter(x) == IF buf'[x] = None THEN stray'[x] ELSE addr'[buf'[x]]

StillFiled(map) ==
    \A p \in Pointer : LET x == map[p]
                       IN  x # None => stage'[x] \in Filed /\ PointerAfter(x) = p

(* Entries stay what they were in every step.                              *)
LEMMA EntriesKept ==
    ASSUME MemoryTypes, BufferInv, [Next]_vars, NEW map \in Map, EntriesFiled(map)
    PROVE  StillFiled(map)
<1> SUFFICES ASSUME NEW p \in Pointer, map[p] # None
             PROVE  stage'[map[p]] \in Filed /\ PointerAfter(map[p]) = p
  BY DEF StillFiled
<1>1. map[p] \in Replies /\ stage[map[p]] \in Filed /\ PointerOf(map[p]) = p
  BY DEF Map, EntriesFiled
<1>2. QED
  BY <1>1, RepliesKept DEF Filed, PointerOf, PointerAfter

(* ... and an update for r files what it files under the pointer of r.     *)
LEMMA EntriesUpdated ==
    ASSUME MemoryTypes, BufferInv, EntryInv, [Next]_vars, NEW r \in Replies, stage[r] # "new",
           NEW ref \in {r, None}, ref = r => stage'[r] \in Filed,
           NEW map \in Updated(r, ref)
    PROVE  StillFiled(map)
<1> SUFFICES ASSUME NEW p \in Pointer, map[p] # None
             PROVE  stage'[map[p]] \in Filed /\ PointerAfter(map[p]) = p
  BY DEF StillFiled
<1>1. PICK base \in Map : /\ map = [base EXCEPT ![PointerOf(r)] = ref]
                          /\ EntriesFiled(base)
  BY DEF Updated, EntryInv, MemoryTypes, TypeOK
<1>2. CASE p = PointerOf(r)
  <2>1. map[p] = ref /\ ref = r
    BY <1>1, <1>2 DEF Map
  <2>2. PointerAfter(r) = PointerOf(r)
    BY RepliesKept DEF PointerOf, PointerAfter
  <2>3. QED
    BY <1>2, <2>1, <2>2
<1>3. CASE p # PointerOf(r)
  <2>1. map[p] = base[p]
    BY <1>1, <1>3 DEF Map
  <2>2. QED
    BY <1>1, <2>1, EntriesKept DEF StillFiled
<1>4. QED
  BY <1>2, <1>3

LEMMA EntryStep == ASSUME MemoryTypes, BufferInv, EntryInv, [Next]_vars PROVE EntryInv'
<1>1. StillFiled(global_references_) /\ \A r \in Replies : StillFiled(snap[r])
  BY EntriesKept DEF EntryInv, MemoryTypes, TypeOK
<1>2. StillFiled(Empty)
  BY DEF Empty, StillFiled
<1>3. SUFFICES StillFiled(global_references_') /\ \A q \in Replies : StillFiled(snap'[q])
  BY DEF StillFiled, EntryInv, EntriesFiled, PointerOf, PointerAfter
<1>4. snap \in [Replies -> Map]
  BY DEF MemoryTypes, TypeOK
<1>5. ASSUME NEW r \in Replies, AssociatePointer(r) \/ InsertNull(r) \/ Erase(r)
      PROVE  StillFiled(global_references_') /\ \A q \in Replies : StillFiled(snap'[q])
  <2>1. /\ stage[r] # "new" /\ snap' = [snap EXCEPT ![r] = Empty]
        /\ \/ global_references_' = global_references_
           \/ \E ref \in {r, None} : /\ ref = r => stage'[r] \in Filed
                                     /\ global_references_' \in Updated(r, ref)
    <3>1. stage \in [Replies -> Stage] /\ None # r
      BY MemoryAssumption DEF MemoryAssumption, MemoryTypes, TypeOK
    <3>2. QED
      BY <1>5, <3>1 DEF AssociatePointer, InsertNull, Erase, Filed, Stage
  <2>2. StillFiled(global_references_')
    BY <1>1, <2>1, EntriesUpdated
  <2>3. \A q \in Replies : snap'[q] \in {snap[q], Empty}
    BY <1>4, <2>1
  <2>4. QED
    BY <1>1, <1>2, <2>2, <2>3
<1>6. ASSUME NEW r \in Replies, NewGlobalRef(r) \/ DartFinalizer(r) \/ DeleteGlobalRef(r)
      PROVE  StillFiled(global_references_') /\ \A q \in Replies : StillFiled(snap'[q])
  <2>1. /\ \E map \in {global_references_, Empty} : snap' = [snap EXCEPT ![r] = map]
        /\ global_references_' = global_references_
    BY <1>6 DEF NewGlobalRef, DartFinalizer, DeleteGlobalRef
  <2>2. \A q \in Replies : snap'[q] \in {snap[q], global_references_, Empty}
    BY <1>4, <2>1
  <2>3. QED
    BY <1>1, <1>2, <2>1, <2>2
<1>7. ASSUME NEW r \in Replies,
             \/ \E p \in Pointer : Allocate(r, p)
             \/ \E b \in Replies : ReplyAgain(r, b)
             \/ Forget(r) \/ NullReply(r) \/ OnReply(r) \/ OnReplyThrows(r) \/ PortClosed(r)
             \/ JavaCollect(r)
      PROVE  UNCHANGED <<global_references_, snap>>
  BY <1>7 DEF Allocate, ReplyAgain, Forget, NullReply, OnReply, OnReplyThrows, PortClosed,
              JavaCollect, mapVars
<1>8. CASE UNCHANGED <<global_references_, snap>>
  BY <1>1, <1>8
<1>9. UNCHANGED vars => UNCHANGED <<global_references_, snap>>
  BY DEF vars, mapVars
<1>10. QED
  BY <1>5, <1>6, <1>7, <1>8, <1>9 DEF Next
-----------------------------------------------------------------------------
(***************************************************************************)
(* References.  A reply that holds its buffer, because Dart has it or may  *)
(* get it or has not deleted a reference for it, has a reference to that   *)
(* buffer that no other reply counts on; not always the one made for it,   *)
(* because two replies with one buffer have one entry in the map.  What a  *)
(* finalizer has found keeps its own buffer or is deleted already.         *)
(***************************************************************************)
Holder == {r \in Replies : stage[r] \in Holds /\ buf[r] # None}

Backing(f) == /\ f \in [Holder -> globals]
              /\ \A r, q \in Holder : f[r] = f[q] => r = q
              /\ \A r \in Holder : buf[f[r]] = buf[r]

Backed == \E f : Backing(f)

FoundInv ==
    \A r \in Replies :
        LET x == object[r]
        IN  x # None => /\ stage[x] \in Filed
                        /\ buf[x] = buf[r] \/ (stage[x] \in Over /\ x \notin globals)

HoldInv == MemoryTypes /\ BufferInv /\ EntryInv /\ FoundInv /\ Backed

LEMMA HolderAlive == ASSUME MemoryTypes, BufferInv, Backed, NEW r \in Holder
                     PROVE  buf[r] \in alive
BY DEF MemoryTypes, TypeOK, BufferInv, Backed, Backing

(* The map under the pointer of data that is shown: a reference to that    *)
(* buffer, or one that is deleted, or nothing.                             *)
LEMMA EntryOfShown ==
    ASSUME MemoryTypes, BufferInv, EntryInv, Backed, NEW r \in Replies, stage[r] = "shown",
           NEW x \in Replies, x = global_references_[PointerOf(r)]
    PROVE  stage[x] \in Filed /\ (buf[x] = buf[r] \/ (stage[x] \in Over /\ x \notin globals))
<1> USE DEF MemoryTypes, TypeOK
<1>1. PointerOf(r) \in Pointer \ {Nullptr} /\ buf[r] \in alive
  <2>1. r \in Holder /\ buf[r] # None
    BY DEF BufferInv, Holder, Holds, Filed, Over, Stage
  <2>2. QED
    BY <2>1, HolderAlive DEF BufferInv, PointerOf
<1>2. stage[x] \in Filed /\ PointerOf(x) = PointerOf(r)
  BY <1>1, MemoryAssumption DEF EntryInv, EntriesFiled, MemoryAssumption
<1>2a. buf[x] # None /\ buf[r] # None
  <2>1. buf[x] = None => stray[x] \in Pointer
    BY <1>2, MemoryAssumption DEF MemoryAssumption, HasBuffer, IsNull, Filed
  <2>2. buf[x] = None => PointerOf(x) = Nullptr
    BY <2>1, MemoryAssumption DEF PointerOf, BufferInv, NoStray, MemoryAssumption, Pointer
  <2>3. QED
    BY <1>1, <1>2, <2>2 DEF BufferInv
<1>3. buf[x] \in alive => buf[x] = buf[r]
  BY <1>1, <1>2, <1>2a DEF BufferInv, PointerOf
<1>4. stage[x] \notin Over => buf[x] \in alive
  <2>1. stage[x] \notin Over => x \in Holder
    BY <1>2, <1>2a DEF Holder, Holds
  <2>2. QED
    BY <2>1, HolderAlive
<1>5. x \in globals => buf[x] \in alive
  BY DEF BufferInv
<1>6. QED
  BY <1>2, <1>3, <1>4, <1>5

(* What was found stays what it was.                                       *)
LEMMA FoundKept ==
    ASSUME MemoryTypes, BufferInv, FoundInv, [Next]_vars, NEW r \in Replies,
           object[r] # None, object'[r] = object[r]
    PROVE  LET x == object'[r]
           IN  /\ stage'[x] \in Filed
               /\ buf'[x] = buf'[r] \/ (stage'[x] \in Over /\ x \notin globals')
<1> DEFINE x == object[r]
<1>1. x \in Replies /\ stage[x] \in Filed
  BY DEF FoundInv, MemoryTypes, TypeOK
<1>2. stage[x] # "new" /\ stage[r] # "new"
  BY <1>1 DEF MemoryTypes, TypeOK, Filed
<1>3. buf'[r] = buf[r] /\ buf'[x] = buf[x] /\ stage'[x] \in Filed
  BY <1>1, <1>2, RepliesKept
<1>4. stage[x] \in Over /\ x \notin globals => stage'[x] \in Over /\ x \notin globals'
  BY <1>1, <1>2, RepliesKept
<1>5. QED
  BY <1>3, <1>4 DEF FoundInv

LEMMA FoundStep ==
    ASSUME MemoryTypes, MemoryTypes', BufferInv, EntryInv, FoundInv, Backed, [Next]_vars
    PROVE  FoundInv'
<1> DEFINE Good(r) == LET x == object'[r]
                      IN  /\ stage'[x] \in Filed
                          /\ buf'[x] = buf'[r] \/ (stage'[x] \in Over /\ x \notin globals')
<1>1. SUFFICES ASSUME NEW r \in Replies, object'[r] # None PROVE Good(r)
  BY DEF FoundInv
<1>3. CASE object'[r] = object[r]
  BY <1>1, <1>3, FoundKept
<1>4. CASE object'[r] # object[r]
  <2>1. PICK q \in Replies : DartFinalizer(q) \/ Erase(q)
    BY <1>4 DEF Next, vars, Allocate, ReplyAgain, Forget, NewGlobalRef, NullReply,
                AssociatePointer, OnReply, OnReplyThrows, PortClosed, InsertNull,
                DeleteGlobalRef, JavaCollect, mapVars
  <2>2. object \in [Replies -> Replies \union {None}]
    BY DEF MemoryTypes, TypeOK
  <2>3. ~Erase(q)
    BY <1>1, <1>4, <2>2 DEF Erase
  <2>4. DartFinalizer(q) /\ q = r
    BY <1>4, <2>1, <2>2, <2>3 DEF DartFinalizer
  <2> DEFINE x == global_references_[PointerOf(r)]
  <2>5. object'[r] = x /\ stage[r] = "shown" /\ x \in Replies
    <3>1. object'[r] = x /\ stage[r] = "shown"
      BY <1>1, <2>2, <2>4 DEF DartFinalizer
    <3>2. object'[r] \in Replies
      BY <1>1 DEF MemoryTypes, TypeOK
    <3>3. QED
      BY <3>1, <3>2
  <2> HIDE DEF x
  <2>6. stage[x] \in Filed /\ (buf[x] = buf[r] \/ (stage[x] \in Over /\ x \notin globals))
    BY <2>5, EntryOfShown DEF x
  <2>7. stage[x] # "new" /\ stage[r] # "new"
    BY <2>5, <2>6 DEF Filed
  <2>8. buf'[r] = buf[r] /\ buf'[x] = buf[x] /\ stage'[x] \in Filed
    BY <2>5, <2>6, <2>7, RepliesKept
  <2>9. stage[x] \in Over /\ x \notin globals => stage'[x] \in Over /\ x \notin globals'
    BY <2>5, <2>6, <2>7, RepliesKept
  <2>10. QED
    BY <2>5, <2>6, <2>8, <2>9
<1>5. QED
  BY <1>3, <1>4

(* Steps that add no holder and delete no reference.                       *)
LEMMA BackedKept ==
    ASSUME MemoryTypes, BufferInv, Backed, [Next]_vars,
           Holder' \subseteq Holder, globals \subseteq globals'
    PROVE  Backed'
<1>1. PICK f : Backing(f)
  BY DEF Backed
<1> DEFINE g == [r \in Holder' |-> f[r]]
<1>2. g \in [Holder' -> globals'] /\ \A r, q \in Holder' : g[r] = g[q] => r = q
  BY <1>1 DEF Backing
<1>3. ASSUME NEW r \in Holder' PROVE buf'[g[r]] = buf'[r]
  <2>1. /\ r \in Replies /\ stage[r] # "new" /\ f[r] \in Replies /\ stage[f[r]] # "new"
        /\ buf[f[r]] = buf[r] /\ g[r] = f[r]
    BY <1>1, <1>3 DEF Backing, Holder, Holds, Filed, BufferInv, MemoryTypes, TypeOK
  <2>2. QED
    BY <2>1, RepliesKept
<1> HIDE DEF g
<1>4. QED
  BY <1>2, <1>3 DEF Backed, Backing

(* A reply that becomes a holder backs itself.                             *)
LEMMA BackedByItself ==
    ASSUME MemoryTypes, BufferInv, Backed, NEW r \in Replies, NewGlobalRef(r)
    PROVE  Backed'
<1>1. PICK f : Backing(f)
  BY DEF Backed
<1>2. /\ r \notin globals /\ globals' = globals \union {r} /\ buf' = buf
      /\ r \notin Holder /\ Holder' = Holder \union {r}
  BY DEF NewGlobalRef, bufferVars, BufferInv, Holder, Holds, Filed, Stage, Over, MemoryTypes,
         TypeOK
<1> DEFINE g == [q \in Holder' |-> IF q = r THEN r ELSE f[q]]
<1>3. g \in [Holder' -> globals'] /\ \A p, q \in Holder' : g[p] = g[q] => p = q
  BY <1>1, <1>2 DEF Backing
<1>4. \A q \in Holder' : buf'[g[q]] = buf'[q]
  BY <1>1, <1>2 DEF Backing
<1> HIDE DEF g
<1>5. QED
  BY <1>3, <1>4 DEF Backed, Backing

(* A finalizer that deletes the reference another reply counts on leaves   *)
(* it the one it counted on itself, which is to the same buffer.           *)
LEMMA BackedByExchange ==
    ASSUME MemoryTypes, BufferInv, FoundInv, Backed, NEW r \in Replies, DeleteGlobalRef(r)
    PROVE  Backed'
<1>1. PICK f : Backing(f)
  BY DEF Backed
<1> DEFINE x == object[r]
<1>2. /\ r \in Holder /\ Holder' = Holder \ {r} /\ globals' = globals \ {x} /\ buf' = buf
  BY DEF DeleteGlobalRef, bufferVars, BufferInv, Holder, Holds, Filed, Stage, Over,
         MemoryTypes, TypeOK
<1>3. x \in globals => buf[x] = buf[r]
  <2>1. x # None
    BY DEF DeleteGlobalRef, MemoryTypes, TypeOK
  <2>2. QED
    BY <2>1 DEF FoundInv
<1> HIDE DEF x
<1> DEFINE g == [q \in Holder' |-> IF f[q] = x THEN f[r] ELSE f[q]]
<1>4. g \in [Holder' -> globals']
  BY <1>1, <1>2 DEF Backing
<1>5. \A p, q \in Holder' : g[p] = g[q] => p = q
  BY <1>1, <1>2 DEF Backing
<1>6. \A q \in Holder' : buf'[g[q]] = buf'[q]
  BY <1>1, <1>2, <1>3 DEF Backing
<1> HIDE DEF g
<1>7. QED
  BY <1>4, <1>5, <1>6 DEF Backed, Backing

LEMMA BackedStep == ASSUME MemoryTypes, BufferInv, FoundInv, Backed, [Next]_vars PROVE Backed'
<1>1. ASSUME NEW r \in Replies, NewGlobalRef(r) PROVE Backed'
  BY <1>1, BackedByItself
<1>2. ASSUME NEW r \in Replies, DeleteGlobalRef(r) PROVE Backed'
  BY <1>2, BackedByExchange
<1>3. ASSUME NEW r \in Replies,
             \/ \E p \in Pointer : Allocate(r, p)
             \/ \E b \in Replies : ReplyAgain(r, b)
             \/ NullReply(r)
      PROVE  Holder' \subseteq Holder /\ globals' = globals
  <2>1. /\ globals' = globals /\ stage[r] = "new"
        /\ stage'[r] = "local" \/ buf'[r] = None
        /\ \A q \in Replies \ {r} : stage'[q] = stage[q] /\ buf'[q] = buf[q]
    BY <1>3 DEF Allocate, ReplyAgain, NullReply, mapVars, MemoryTypes, TypeOK
  <2>2. QED
    BY <2>1 DEF Holder, Holds, Filed
<1>3a. ASSUME NEW r \in Replies,
             \/ Forget(r) \/ AssociatePointer(r) \/ OnReply(r) \/ OnReplyThrows(r)
             \/ PortClosed(r) \/ DartFinalizer(r) \/ InsertNull(r) \/ Erase(r) \/ JavaCollect(r)
      PROVE  Holder' \subseteq Holder /\ globals' = globals
  <2>1. /\ globals' = globals /\ buf' = buf
        /\ \/ stage' = stage
           \/ \E s \in Stage : /\ stage' = [stage EXCEPT ![r] = s]
                               /\ s \in Holds => stage[r] \in Holds
    BY <1>3a DEF Forget, AssociatePointer, OnReply, OnReplyThrows, PortClosed, DartFinalizer,
                 InsertNull, Erase, JavaCollect, mapVars, bufferVars, Holds, Filed, Over, Stage
  <2>2. QED
    BY <2>1 DEF Holder, MemoryTypes, TypeOK
<1>4. UNCHANGED vars => Holder' = Holder /\ globals' = globals
  BY DEF vars, bufferVars, mapVars, Holder
<1>5. QED
  BY <1>1, <1>2, <1>3, <1>3a, <1>4, BackedKept DEF Next
-----------------------------------------------------------------------------
LEMMA HoldInit == Init => HoldInv
<1> SUFFICES ASSUME Init PROVE HoldInv
  OBVIOUS
<1>1. FoundInv
  BY DEF Init, FoundInv
<1>2. Holder = {}
  BY DEF Init, Holder, Holds, Filed
<1>3. Backing([r \in Holder |-> r])
  BY <1>2 DEF Backing
<1>4. QED
  BY <1>1, <1>3, MemoryTypesInit, BufferInit, EntryInit DEF HoldInv, Backed

LEMMA HoldStep == ASSUME HoldInv, NoStray', [Next]_vars PROVE HoldInv'
BY MemoryTypesStep, BufferStep, EntryStep, FoundStep, BackedStep DEF HoldInv

(* No stray pointer is ever taken back.                                    *)
LEMMA NoStrayBefore == ASSUME MemoryTypes, [Next]_vars, NoStray' PROVE NoStray
<1>1. ASSUME NEW r \in Replies, NullReply(r) PROVE NoStray
  BY <1>1 DEF NullReply, NoStray, MemoryTypes, TypeOK
<1>2. ASSUME NEW r \in Replies,
             \/ \E p \in Pointer : Allocate(r, p)
             \/ \E b \in Replies : ReplyAgain(r, b)
             \/ Forget(r) \/ NewGlobalRef(r) \/ AssociatePointer(r)
             \/ OnReply(r) \/ OnReplyThrows(r) \/ PortClosed(r)
             \/ DartFinalizer(r) \/ InsertNull(r) \/ DeleteGlobalRef(r) \/ Erase(r)
             \/ JavaCollect(r)
      PROVE  stray' = stray
  BY <1>2 DEF Allocate, ReplyAgain, Forget, NewGlobalRef, AssociatePointer, OnReply,
              OnReplyThrows, PortClosed, DartFinalizer, InsertNull, DeleteGlobalRef, Erase,
              JavaCollect, bufferVars
<1>3. UNCHANGED vars => stray' = stray
  BY DEF vars, bufferVars
<1>4. stray' = stray => NoStray
  BY DEF NoStray
<1>5. QED
  BY <1>1, <1>2, <1>3, <1>4 DEF Next

LEMMA HoldInvariant == Spec => [](MemoryTypes /\ (NoStray => HoldInv))
<1>1. Init => MemoryTypes /\ (NoStray => HoldInv)
  BY HoldInit, MemoryTypesInit
<1>2. MemoryTypes /\ (NoStray => HoldInv) /\ [Next]_vars
      => (MemoryTypes /\ (NoStray => HoldInv))'
  <2> SUFFICES ASSUME MemoryTypes, NoStray => HoldInv, [Next]_vars
               PROVE  MemoryTypes' /\ (NoStray' => HoldInv')
    OBVIOUS
  <2>1. QED
    BY MemoryTypesStep, NoStrayBefore, HoldStep
<1>3. QED
  BY <1>1, <1>2, PTL DEF Spec

(* Dart never reads a buffer that Java has collected, even though the map  *)
(* is updated without a lock, an update may be lost, and a handler may     *)
(* reply with one buffer several times, as long as no null reply has       *)
(* carried a stray pointer.                                                *)
THEOREM BytesStayBacked == Spec => []BytesBackedUntilStray
<1>1. HoldInv => BytesBackedUntilStray
  <2> SUFFICES ASSUME HoldInv, NEW r \in Replies, stage[r] \in {"posted", "shown"},
                      PointerOf(r) # Nullptr
               PROVE  buf[r] \in alive
    BY DEF BytesBackedUntilStray
  <2>1. buf[r] # None
    BY MemoryAssumption DEF MemoryAssumption, HoldInv, MemoryTypes, BufferInv, NoStray,
       IsNull, HasBuffer, PointerOf, Pointer
  <2>2. r \in Holder
    BY <2>1 DEF Holder, Holds, Filed, Over, Stage
  <2>3. QED
    BY <2>2, HolderAlive DEF HoldInv
<1>2. ~NoStray => BytesBackedUntilStray
  BY DEF BytesBackedUntilStray
<1>3. QED
  BY <1>1, <1>2, HoldInvariant, PTL

(* ... and no finalizer deletes a reference that data with another buffer  *)
(* relies on.                                                              *)
THEOREM NoOtherReference == Spec => []NoOtherReleased
<1>1. HoldInv => NoOtherReleased
  BY MemoryAssumption
     DEF MemoryAssumption, HoldInv, FoundInv, NoOtherReleased, Filed, Over, Stage
<1>2. ~NoStray => NoOtherReleased
  BY DEF NoOtherReleased
<1>3. QED
  BY <1>1, <1>2, HoldInvariant, PTL
-----------------------------------------------------------------------------
(***************************************************************************)
(* A reply filed while no other update was under way, with a buffer of its *)
(* own.  Until its own finalizer its entry stays in the map and in what    *)
(* every later update saw, because no such update is for its address; so   *)
(* the finalizer finds the reference and deletes it.                       *)
(***************************************************************************)
Own(r) == \A q \in Replies \ {r} : buf[q] # buf[r]

Clean(r) == r \notin crossed /\ Own(r)

Findable(r) == stage[r] \in {"posted", "shown"} /\ Clean(r) /\ PointerOf(r) # Nullptr

ReleaseInv ==
    /\ \A r \in crossed : stage[r] \in Filed
    /\ \A r \in Replies : Findable(r) => global_references_[PointerOf(r)] = r
    /\ \A r, q \in Replies : Findable(r) /\ q # r /\ Updating(q)
                             => snap[q][PointerOf(r)] = r /\ PointerOf(q) # PointerOf(r)
    /\ \A r \in Replies : stage[r] = "found" /\ Clean(r) => object[r] = r
    /\ \A r \in Replies : stage[r] \in Over /\ Clean(r) => r \notin globals

LEMMA ReleaseInit == Init => ReleaseInv
BY DEF Init, ReleaseInv, Findable, Filed, Over, Updating

(* A buffer that is shared stays shared.                                   *)
LEMMA OwnBefore ==
    ASSUME HoldInv, [Next]_vars, NEW r \in Replies, buf[r] # None, Own(r)' PROVE Own(r)
<1>1. \A q \in Replies : stage[q] # "new" => buf'[q] = buf[q]
  BY RepliesKept DEF HoldInv
<1>2. \A q \in Replies : stage[q] = "new" => buf[q] = None
  BY DEF HoldInv, MemoryTypes
<1>3. QED
  BY <1>1, <1>2 DEF Own

(* What can be found has a buffer: a null reply has no pointer.            *)
LEMMA BufferOfFindable ==
    ASSUME HoldInv, NEW r \in Replies, stage[r] # "new", PointerOf(r) # Nullptr
    PROVE  buf[r] # None
BY MemoryAssumption DEF MemoryAssumption, HoldInv, MemoryTypes, BufferInv, NoStray,
   IsNull, HasBuffer, PointerOf, Pointer

(* A buffer in use elsewhere is not at the address of one with an entry.   *)
LEMMA AddressesDiffer ==
    ASSUME HoldInv, NEW r \in Replies, Findable(r), NEW q \in Replies \ {r},
           stage[q] = "local" \/ q \in Holder
    PROVE  PointerOf(q) # PointerOf(r)
<1>1. buf[r] \in alive /\ buf[r] # None
  <2>1. stage[r] \in {"posted", "shown"} /\ PointerOf(r) # Nullptr
    BY DEF Findable
  <2>2. buf[r] # None
    BY <2>1, BufferOfFindable
  <2>3. r \in Holder
    BY <2>1, <2>2 DEF Holder, Holds, Filed, Over, Stage
  <2>4. QED
    BY <2>2, <2>3, HolderAlive DEF HoldInv
<1>2. buf[q] \in alive /\ buf[q] # None
  <2>1. CASE q \in Holder
    BY <2>1, HolderAlive DEF HoldInv, Holder
  <2>2. CASE stage[q] = "local"
    BY <2>2 DEF HoldInv, BufferInv
  <2>3. QED
    BY <2>1, <2>2
<1>3. QED
  BY <1>1, <1>2 DEF HoldInv, BufferInv, PointerOf, Findable, Clean, Own

(* An update for q leaves the entry of a reply that can be found.          *)
LEMMA EntrySurvives ==
    ASSUME HoldInv, ReleaseInv, NEW q \in Replies, Updating(q),
           NEW ref, NEW map \in Updated(q, ref),
           NEW r \in Replies \ {q}, Findable(r)
    PROVE  map[PointerOf(r)] = r
<1>1. PointerOf(r) \in Pointer /\ PointerOf(q) # PointerOf(r)
  BY PointerIsPointer DEF HoldInv, ReleaseInv, Findable
<1>2. PICK base \in {global_references_, snap[q]} : map = [base EXCEPT ![PointerOf(q)] = ref]
  BY DEF Updated
<1>3. base[PointerOf(r)] = r /\ base \in Map
  BY <1>2 DEF ReleaseInv, HoldInv, MemoryTypes, TypeOK
<1>4. QED
  BY <1>1, <1>2, <1>3 DEF Map

(* Steps that neither update the map nor release a reference.              *)
LEMMA ReleaseKept ==
    ASSUME HoldInv, ReleaseInv, [Next]_vars, NEW q \in Replies, NEW s \in Stage,
           stage' = [stage EXCEPT ![q] = s] \/ stage' = stage,
           \/ stage[q] = "new" /\ s = "local"
           \/ stage[q] = "new" /\ s = "posted" /\ PointerOf(q)' = Nullptr
           \/ stage[q] = "posted" /\ s \in {"null", "shown", "lost"},
           UNCHANGED <<globals, global_references_, snap, object, crossed>>
    PROVE  ReleaseInv'
<1>1. \A r \in Replies : /\ stage'[r] # stage[r] => r = q /\ stage'[r] = s
                         /\ stage'[r] = "new" => stage[r] = "new"
  BY DEF HoldInv, MemoryTypes, TypeOK, Stage
<1>2. \A r \in Replies : buf[r] # None /\ Clean(r)' => Clean(r)
  BY OwnBefore DEF Clean
<1>3. \A r \in Replies : stage[r] # "new" => PointerOf(r)' = PointerOf(r)
  BY RepliesKept DEF HoldInv
<1>4. \A r \in Replies : Findable(r)' => Findable(r) /\ stage[r] # "new"
  <2> SUFFICES ASSUME NEW r \in Replies, Findable(r)' PROVE Findable(r) /\ stage[r] # "new"
    OBVIOUS
  <2>1. stage[r] # "new"
    BY <1>1 DEF Findable
  <2>2. PointerOf(r) # Nullptr
    BY <1>3, <2>1 DEF Findable
  <2>3. buf[r] # None
    BY <2>1, <2>2, BufferOfFindable
  <2>4. QED
    BY <1>1, <1>2, <2>1, <2>2, <2>3 DEF Findable
<1>5. \A r \in Replies : Updating(r)' => Updating(r) /\ stage[r] # "new"
  BY <1>1 DEF Updating
<1>6. \A r \in Replies : Findable(r)' => global_references_'[PointerOf(r)'] = r
  BY <1>3, <1>4 DEF ReleaseInv
<1>7. \A r, x \in Replies : Findable(r)' /\ x # r /\ Updating(x)'
                            => snap'[x][PointerOf(r)'] = r /\ PointerOf(x)' # PointerOf(r)'
  BY <1>3, <1>4, <1>5 DEF ReleaseInv
<1>8. \A r \in Replies : stage'[r] \in {"found"} \union Over => stage[r] = stage'[r]
  BY <1>1 DEF Over
<1>9. /\ \A r \in Replies : stage'[r] = "found" /\ Clean(r)' => object'[r] = r
      /\ \A r \in Replies : stage'[r] \in Over /\ Clean(r)' => r \notin globals'
  BY <1>2, <1>8 DEF ReleaseInv, Over, HoldInv, BufferInv
<1>10. \A r \in crossed' : stage'[r] \in Filed
  BY <1>1 DEF ReleaseInv, Filed, HoldInv, MemoryTypes, TypeOK
<1>11. QED
  BY <1>6, <1>7, <1>9, <1>10 DEF ReleaseInv

(* An update for q begins, to file its reference or after deleting one.    *)
LEMMA UpdateBegins ==
    ASSUME HoldInv, ReleaseInv, [Next]_vars, NEW q \in Replies, NEW s \in {"filing", "missed", "deleted"},
           stage[q] = "local" \/ q \in Holder,
           stage' = [stage EXCEPT ![q] = s],
           snap' = [snap EXCEPT ![q] = global_references_],
           crossed \subseteq crossed', UNCHANGED <<buf, stray, addr, global_references_>>
    PROVE  /\ \A r \in Replies : Findable(r)' => global_references_'[PointerOf(r)'] = r
           /\ \A r, x \in Replies : Findable(r)' /\ x # r /\ Updating(x)'
                 => snap'[x][PointerOf(r)'] = r /\ PointerOf(x)' # PointerOf(r)'
<1>1. /\ stage'[q] = s /\ snap'[q] = global_references_
      /\ \A r \in Replies \ {q} : stage'[r] = stage[r] /\ snap'[r] = snap[r]
  BY DEF HoldInv, MemoryTypes, TypeOK
<1>2. \A r \in Replies : PointerOf(r)' = PointerOf(r) /\ (Clean(r)' => Clean(r))
  BY DEF PointerOf, Clean, Own
<1>3. \A r \in Replies : Findable(r)' => r # q /\ Findable(r)
  BY <1>1, <1>2 DEF Findable
<1>4. \A x \in Replies : Updating(x)' => x = q \/ Updating(x)
  BY <1>1 DEF Updating
<1>5. \A r \in Replies : Findable(r)' => PointerOf(q) # PointerOf(r)
  BY <1>3, AddressesDiffer
<1>6. QED
  BY <1>1, <1>2, <1>3, <1>4, <1>5 DEF ReleaseInv

LEMMA ReleaseStep == ASSUME HoldInv, ReleaseInv, NoStray', [Next]_vars PROVE ReleaseInv'
<1> USE DEF HoldInv, MemoryTypes, TypeOK
<1>1. ASSUME NEW r \in Replies, NEW p \in Pointer, Allocate(r, p) PROVE ReleaseInv'
  BY <1>1, ReleaseKept DEF Allocate, mapVars, Stage
<1>2. ASSUME NEW r \in Replies, NEW b \in Replies, ReplyAgain(r, b) PROVE ReleaseInv'
  BY <1>2, ReleaseKept DEF ReplyAgain, mapVars, Stage
<1>3. ASSUME NEW r \in Replies, Forget(r) PROVE ReleaseInv'
  BY <1>3 DEF Forget, bufferVars, mapVars, ReleaseInv, Findable, Clean, Own, Updating, PointerOf
<1>4. ASSUME NEW q \in Replies, NewGlobalRef(q) PROVE ReleaseInv'
  <2>1. /\ stage[q] = "local" /\ stage' = [stage EXCEPT ![q] = "filing"]
        /\ globals' = globals \union {q}
        /\ snap' = [snap EXCEPT ![q] = global_references_]
        /\ UNCHANGED <<buf, stray, addr, alive, global_references_, object, crossed>>
    BY <1>4 DEF NewGlobalRef, bufferVars
  <2>2. /\ \A r \in Replies : Findable(r)' => global_references_'[PointerOf(r)'] = r
        /\ \A r, x \in Replies : Findable(r)' /\ x # r /\ Updating(x)'
              => snap'[x][PointerOf(r)'] = r /\ PointerOf(x)' # PointerOf(r)'
    BY <2>1, UpdateBegins
  <2>3. \A r \in Replies : Clean(r)' <=> Clean(r)
    BY <2>1 DEF Clean, Own
  <2>4. /\ \A r \in Replies : stage'[r] = "found" /\ Clean(r)' => object'[r] = r
        /\ \A r \in Replies : stage'[r] \in Over /\ Clean(r)' => r \notin globals'
    BY <2>1, <2>3 DEF ReleaseInv, Over
  <2>5. \A r \in crossed' : stage'[r] \in Filed
    BY <2>1 DEF ReleaseInv, Filed
  <2>6. QED
    BY <2>2, <2>4, <2>5 DEF ReleaseInv
<1>4a. ASSUME NEW r \in Replies, NullReply(r) PROVE ReleaseInv'
  <2>1. /\ stage[r] = "new" /\ stage' = [stage EXCEPT ![r] = "posted"]
        /\ UNCHANGED <<globals, global_references_, snap, object, crossed>>
    BY <1>4a DEF NullReply, mapVars
  <2>2. PointerOf(r)' = Nullptr
    <3>1. buf'[r] = None /\ stray'[r] \in Pointer
      BY <1>4a DEF NullReply, Pointer
    <3>2. QED
      BY <3>1, MemoryAssumption DEF MemoryAssumption, PointerOf, NoStray, Pointer
  <2>3. QED
    BY <2>1, <2>2, ReleaseKept DEF Stage
<1>5. ASSUME NEW q \in Replies, AssociatePointer(q) PROVE ReleaseInv'
  <2>1. /\ stage[q] = "filing" /\ stage' = [stage EXCEPT ![q] = "posted"]
        /\ global_references_' \in Updated(q, q) /\ snap' = [snap EXCEPT ![q] = Empty]
        /\ UNCHANGED <<buf, stray, addr, alive, globals, object>> /\ Crossing(q)
    BY <1>5 DEF AssociatePointer, bufferVars
  <2>2. /\ stage'[q] = "posted"
        /\ \A r \in Replies \ {q} : stage'[r] = stage[r] /\ snap'[r] = snap[r]
        /\ crossed \subseteq crossed' /\ crossed' \subseteq crossed \union {q}
    BY <2>1 DEF Crossing
  <2>3. \A r \in Replies : PointerOf(r)' = PointerOf(r) /\ (Clean(r)' => Clean(r))
    BY <2>1, <2>2 DEF PointerOf, Clean, Own
  <2>4. \A r \in Replies : Findable(r)' => r = q \/ Findable(r)
    BY <2>2, <2>3 DEF Findable
  <2>5. \A x \in Replies : Updating(x)' => x # q /\ Updating(x)
    BY <2>2 DEF Updating
  <2>6. \A r, x \in Replies : Findable(r)' /\ x # r /\ Updating(x)'
              => snap'[x][PointerOf(r)'] = r /\ PointerOf(x)' # PointerOf(r)'
    <3>1. Findable(q)' => \A x \in Replies : ~Updating(x)'
      BY <2>1, <2>5 DEF Findable, Clean, Crossing, Overlapping
    <3>2. QED
      BY <2>2, <2>3, <2>4, <2>5, <3>1 DEF ReleaseInv
  <2>7. \A r \in Replies : Findable(r)' => global_references_'[PointerOf(r)'] = r
    <3>1. global_references_'[PointerOf(q)] = q
      <4>1. PointerOf(q) \in Pointer
        BY <2>1, PointerIsPointer
      <4>2. PICK base \in Map : global_references_' = [base EXCEPT ![PointerOf(q)] = q]
        BY <2>1 DEF Updated
      <4>3. QED
        BY <4>1, <4>2 DEF Map
    <3>2. Updating(q)
      BY <2>1 DEF Updating
    <3>3. \A r \in Replies \ {q} : Findable(r) => global_references_'[PointerOf(r)] = r
      BY <2>1, <3>2, EntrySurvives
    <3>4. QED
      BY <2>3, <2>4, <3>1, <3>3
  <2>8. /\ \A r \in Replies : stage'[r] = "found" /\ Clean(r)' => object'[r] = r
        /\ \A r \in Replies : stage'[r] \in Over /\ Clean(r)' => r \notin globals'
    BY <2>1, <2>2, <2>3 DEF ReleaseInv, Over
  <2>9. \A r \in crossed' : stage'[r] \in Filed
    BY <2>2 DEF ReleaseInv, Filed, Stage
  <2>10. QED
    BY <2>6, <2>7, <2>8, <2>9 DEF ReleaseInv
<1>6. ASSUME NEW r \in Replies, OnReply(r) PROVE ReleaseInv'
  BY <1>6, ReleaseKept DEF OnReply, mapVars, Stage
<1>6a. ASSUME NEW r \in Replies, OnReplyThrows(r) PROVE ReleaseInv'
  BY <1>6a, ReleaseKept DEF OnReplyThrows, mapVars, Stage
<1>7. ASSUME NEW r \in Replies, PortClosed(r) PROVE ReleaseInv'
  BY <1>7, ReleaseKept DEF PortClosed, mapVars, Stage
<1>8. ASSUME NEW q \in Replies, DartFinalizer(q) PROVE ReleaseInv'
  <2>1. PICK x \in {global_references_[PointerOf(q)], None} :
           /\ stage' = [stage EXCEPT ![q] = IF x = None THEN "missed" ELSE "found"]
           /\ object' = [object EXCEPT ![q] = x]
           /\ snap' = [snap EXCEPT ![q] = IF x = None THEN global_references_ ELSE Empty]
           /\ x = global_references_[PointerOf(q)] \/ Overlapping(q)
    BY <1>8 DEF DartFinalizer
  <2>2. /\ stage[q] = "shown" /\ PointerOf(q) # Nullptr /\ Crossing(q)
        /\ UNCHANGED <<buf, stray, addr, globals, global_references_>>
    BY <1>8 DEF DartFinalizer, BufferInv, bufferVars
  <2>3. Clean(q)' => x = q
    <3>1. Clean(q)' => Clean(q) /\ ~Overlapping(q)
      BY <2>2 DEF Clean, Own, Crossing
    <3>2. Clean(q) => global_references_[PointerOf(q)] = q
      BY <2>2 DEF ReleaseInv, Findable
    <3>3. QED
      BY <2>1, <3>1, <3>2
  <2>4. /\ stage'[q] \in {"missed", "found"} /\ object'[q] = x
        /\ Clean(q)' => stage'[q] = "found"
        /\ \A r \in Replies \ {q} : /\ stage'[r] = stage[r] /\ object'[r] = object[r]
                                     /\ snap'[r] = snap[r]
        /\ crossed \subseteq crossed' /\ crossed' \subseteq crossed \union {q}
    BY <2>1, <2>2, <2>3, MemoryAssumption DEF MemoryAssumption, Crossing
  <2>5. \A r \in Replies : PointerOf(r)' = PointerOf(r) /\ (Clean(r)' => Clean(r))
    BY <2>2, <2>4 DEF PointerOf, Clean, Own
  <2>6. /\ \A r \in Replies : Findable(r)' => global_references_'[PointerOf(r)'] = r
        /\ \A r, y \in Replies : Findable(r)' /\ y # r /\ Updating(y)'
              => snap'[y][PointerOf(r)'] = r /\ PointerOf(y)' # PointerOf(r)'
    <3>1. CASE x = None
      <4>1. q \in Holder
        BY <2>2 DEF Holder, Holds, Filed, Over, Stage, BufferInv
      <4>2. /\ stage' = [stage EXCEPT ![q] = "missed"]
            /\ snap' = [snap EXCEPT ![q] = global_references_]
        BY <2>1, <3>1
      <4>3. QED
        BY <2>2, <2>4, <4>1, <4>2, UpdateBegins
    <3>2. CASE x # None
      <4>1. stage'[q] = "found"
        BY <2>1, <3>2
      <4>2. \A r \in Replies : /\ Findable(r)' => r # q /\ Findable(r)
                               /\ Updating(r)' => r # q /\ Updating(r)
        BY <2>4, <2>5, <4>1 DEF Findable, Updating
      <4>3. QED
        BY <2>2, <2>4, <2>5, <4>2 DEF ReleaseInv
    <3>3. QED
      BY <3>1, <3>2
  <2>7. /\ \A r \in Replies : stage'[r] = "found" /\ Clean(r)' => object'[r] = r
        /\ \A r \in Replies : stage'[r] \in Over /\ Clean(r)' => r \notin globals'
    BY <2>2, <2>3, <2>4, <2>5 DEF ReleaseInv, Over
  <2>8. \A r \in crossed' : stage'[r] \in Filed
    BY <2>4 DEF ReleaseInv, Filed, Stage
  <2>9. QED
    BY <2>6, <2>7, <2>8 DEF ReleaseInv
<1>8a. ASSUME NEW q \in Replies, InsertNull(q) PROVE ReleaseInv'
  <2>1. /\ stage[q] = "missed" /\ stage' = [stage EXCEPT ![q] = "gone"]
        /\ \/ global_references_' \in Updated(q, None)
           \/ global_references_' = global_references_
        /\ snap' = [snap EXCEPT ![q] = Empty]
        /\ UNCHANGED <<buf, stray, addr, globals, object, crossed>>
    BY <1>8a DEF InsertNull, bufferVars
  <2>2. /\ stage'[q] = "gone" /\ Updating(q)
        /\ \A r \in Replies \ {q} : stage'[r] = stage[r] /\ snap'[r] = snap[r]
    BY <2>1 DEF Updating
  <2>3. \A r \in Replies : PointerOf(r)' = PointerOf(r) /\ (Clean(r)' <=> Clean(r))
    BY <2>1 DEF PointerOf, Clean, Own
  <2>4. \A r \in Replies : /\ Findable(r)' => r # q /\ Findable(r)
                           /\ Updating(r)' => r # q /\ Updating(r)
    BY <2>2, <2>3 DEF Findable, Updating
  <2>5. \A r \in Replies \ {q} : Findable(r) => global_references_'[PointerOf(r)] = r
    BY <2>1, <2>2, EntrySurvives DEF ReleaseInv
  <2>6. /\ \A r \in Replies : Findable(r)' => global_references_'[PointerOf(r)'] = r
        /\ \A r, x \in Replies : Findable(r)' /\ x # r /\ Updating(x)'
              => snap'[x][PointerOf(r)'] = r /\ PointerOf(x)' # PointerOf(r)'
    BY <2>2, <2>3, <2>4, <2>5 DEF ReleaseInv
  <2>7. /\ \A r \in Replies : stage'[r] = "found" /\ Clean(r)' => object'[r] = r
        /\ \A r \in Replies : stage'[r] \in Over /\ Clean(r)' => r \notin globals'
    BY <2>1, <2>2, <2>3 DEF ReleaseInv, Over
  <2>8. \A r \in crossed' : stage'[r] \in Filed
    BY <2>1, <2>2 DEF ReleaseInv, Filed, Stage
  <2>9. QED
    BY <2>6, <2>7, <2>8 DEF ReleaseInv
<1>9. ASSUME NEW q \in Replies, DeleteGlobalRef(q) PROVE ReleaseInv'
  <2>1. /\ stage[q] = "found" /\ stage' = [stage EXCEPT ![q] = "deleted"]
        /\ globals' = globals \ {object[q]}
        /\ snap' = [snap EXCEPT ![q] = global_references_]
        /\ UNCHANGED <<buf, stray, addr, global_references_, object, crossed>>
    BY <1>9 DEF DeleteGlobalRef, bufferVars
  <2>2. q \in Holder
    BY <2>1 DEF Holder, Holds, Filed, Over, Stage, BufferInv
  <2>3. /\ \A r \in Replies : Findable(r)' => global_references_'[PointerOf(r)'] = r
        /\ \A r, x \in Replies : Findable(r)' /\ x # r /\ Updating(x)'
              => snap'[x][PointerOf(r)'] = r /\ PointerOf(x)' # PointerOf(r)'
    BY <2>1, <2>2, UpdateBegins
  <2>4. \A r \in Replies : Clean(r)' <=> Clean(r)
    BY <2>1 DEF Clean, Own
  <2>5. /\ \A r \in Replies : stage'[r] = "found" /\ Clean(r)' => object'[r] = r
        /\ \A r \in Replies : stage'[r] \in Over /\ Clean(r)' => r \notin globals'
    BY <2>1, <2>4 DEF ReleaseInv, Over
  <2>6. \A r \in crossed' : stage'[r] \in Filed
    BY <2>1 DEF ReleaseInv, Filed, Stage
  <2>7. QED
    BY <2>3, <2>5, <2>6 DEF ReleaseInv
<1>10. ASSUME NEW q \in Replies, Erase(q) PROVE ReleaseInv'
  <2>1. /\ stage[q] = "deleted" /\ stage' = [stage EXCEPT ![q] = "gone"]
        /\ global_references_' \in Updated(q, None) /\ snap' = [snap EXCEPT ![q] = Empty]
        /\ object' = [object EXCEPT ![q] = None]
        /\ UNCHANGED <<buf, stray, addr, globals, crossed>>
    BY <1>10 DEF Erase, bufferVars
  <2>2. /\ stage'[q] = "gone" /\ Updating(q)
        /\ \A r \in Replies \ {q} : /\ stage'[r] = stage[r] /\ snap'[r] = snap[r]
                                     /\ object'[r] = object[r]
    BY <2>1 DEF Updating
  <2>3. \A r \in Replies : PointerOf(r)' = PointerOf(r) /\ (Clean(r)' <=> Clean(r))
    BY <2>1 DEF PointerOf, Clean, Own
  <2>4. \A r \in Replies : /\ Findable(r)' => r # q /\ Findable(r)
                           /\ Updating(r)' => r # q /\ Updating(r)
    BY <2>2, <2>3 DEF Findable, Updating
  <2>5. \A r \in Replies \ {q} : Findable(r) => global_references_'[PointerOf(r)] = r
    BY <2>1, <2>2, EntrySurvives
  <2>6. /\ \A r \in Replies : Findable(r)' => global_references_'[PointerOf(r)'] = r
        /\ \A r, x \in Replies : Findable(r)' /\ x # r /\ Updating(x)'
              => snap'[x][PointerOf(r)'] = r /\ PointerOf(x)' # PointerOf(r)'
    BY <2>2, <2>3, <2>4, <2>5 DEF ReleaseInv
  <2>7. /\ \A r \in Replies : stage'[r] = "found" /\ Clean(r)' => object'[r] = r
        /\ \A r \in Replies : stage'[r] \in Over /\ Clean(r)' => r \notin globals'
    BY <2>1, <2>2, <2>3 DEF ReleaseInv, Over
  <2>8. \A r \in crossed' : stage'[r] \in Filed
    BY <2>1, <2>2 DEF ReleaseInv, Filed, Stage
  <2>9. QED
    BY <2>6, <2>7, <2>8 DEF ReleaseInv
<1>11. ASSUME NEW b \in Replies, JavaCollect(b) PROVE ReleaseInv'
  BY <1>11 DEF JavaCollect, bufferVars, mapVars, ReleaseInv, Findable, Clean, Own, Updating, PointerOf
<1>12. CASE UNCHANGED vars
  BY <1>12 DEF vars, bufferVars, mapVars, ReleaseInv, Findable, Clean, Own, Updating, PointerOf
<1>13. QED
  BY <1>1, <1>2, <1>3, <1>4, <1>4a, <1>5, <1>6, <1>6a, <1>7, <1>8, <1>8a, <1>9, <1>10, <1>11,
     <1>12 DEF Next

(* A reference is released once the finalizer of its data has run, if the  *)
(* reply was filed, and looked up, while no other update of the map was    *)
(* under way and has its buffer to itself, in spite of the races and the   *)
(* sharing of others, as long as no null reply has carried a stray pointer.*)
THEOREM ReleasedWhenFiledAlone == Spec => []ReleasedUnlessCrossed
<1> DEFINE IInv == MemoryTypes /\ (NoStray => HoldInv /\ ReleaseInv)
<1>1. IInv => ReleasedUnlessCrossed
  BY DEF ReleaseInv, ReleasedUnlessCrossed, Over, Clean, Own
<1>2. IInv /\ [Next]_vars => IInv'
  <2> SUFFICES ASSUME MemoryTypes, NoStray => HoldInv /\ ReleaseInv, [Next]_vars
               PROVE  MemoryTypes' /\ (NoStray' => HoldInv' /\ ReleaseInv')
    OBVIOUS
  <2>1. QED
    BY MemoryTypesStep, NoStrayBefore, HoldStep, ReleaseStep
<1>3. Init => IInv
  BY MemoryTypesInit, HoldInit, ReleaseInit
<1> HIDE DEF IInv
<1>4. QED
  BY <1>1, <1>2, <1>3, PTL DEF Spec
=============================================================================
