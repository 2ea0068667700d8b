---------------------------- MODULE ChannelNames ----------------------------
(***************************************************************************)
(* How a named method channel finds its handler.  Both sides compute a     *)
(* 64-bit id from the name, in _computeChannelId of                        *)
(* lib/src/concurrent_method_channel.dart and in the init block of         *)
(* ConcurrentMethodChannel.kt (synchronous channels are the same), and the *)
(* Kotlin messenger keeps its handlers in a HashMap from ids, which the    *)
(* platform thread updates while workers and isolates look handlers up.    *)
(*                                                                         *)
(* A word is the function from bit numbers, 0 the lowest, to bits: both    *)
(* languages compute with two's complement words of the width of the eight *)
(* bytes that are folded in, and drop what is shifted out.                 *)
(***************************************************************************)
EXTENDS Naturals, FiniteSets

CONSTANTS Names,     \* the names of channels
          ByteBits,  \* bits of a byte: 8 in the code
          Taken,     \* bytes of the MD5 that are used: 8 in the code
          Capacity   \* the entries a new HashMap takes before it grows: 12

ASSUME WidthAssumption == ByteBits \in Nat \ {0} /\ Taken \in Nat \ {0}
ASSUME CapacityAssumption == Capacity \in Nat \ {0}

WordBits == Taken * ByteBits
Bit      == {0, 1}
Byte     == [0..(ByteBits - 1) -> Bit]
Word     == [0..(WordBits - 1) -> Bit]
Digest   == [1..Taken -> Byte]
NoId     == << >>

Zero == [k \in 0..(WordBits - 1) |-> 0]

ShiftLeft(x) == [k \in 0..(WordBits - 1) |-> IF k < ByteBits THEN 0 ELSE x[k - ByteBits]]

Or(x, y) == [k \in 0..(WordBits - 1) |-> IF x[k] = 1 \/ y[k] = 1 THEN 1 ELSE 0]

Negative(b) == b[ByteBits - 1] = 1

(* The loop: digest << 8 | word, over the words that the bytes convert to. *)
Fold(words) ==
    LET digest[k \in 0..Taken] == IF k = 0 THEN Zero ELSE Or(ShiftLeft(digest[k - 1]), words[k])
    IN  digest[Taken]

(* Dart's bytes are unsigned integers, of which toSigned(8) keeps the low  *)
(* bits and spreads the highest of them.                                   *)
Unsigned(b) == [k \in 0..(WordBits - 1) |-> IF k < ByteBits THEN b[k] ELSE 0]

(* Faulty: toSigned is left out; toSigned(7).                              *)
NotSigned(x)   == x
SignedShort(x) == [k \in 0..(WordBits - 1) |-> IF k < ByteBits - 2 THEN x[k] ELSE x[ByteBits - 2]]

ToSigned(x) == [k \in 0..(WordBits - 1) |-> IF k < ByteBits - 1 THEN x[k] ELSE x[ByteBits - 1]]

DartDigest(bytes) == Fold([k \in 1..Taken |-> ToSigned(Unsigned(bytes[k]))])

(* Kotlin's bytes are signed: toLong() copies the byte below and its sign  *)
(* into every bit above.                                                   *)
ToLong(b) == [k \in 0..(WordBits - 1) |-> IF k < ByteBits THEN b[k]
                                          ELSE IF Negative(b) THEN 1 ELSE 0]

KotlinDigest(bytes) == Fold([k \in 1..Taken |-> ToLong(bytes[k])])
-----------------------------------------------------------------------------
VARIABLES md5,         \* md5[n]: the first bytes of the MD5 of name n (external)
          dartId,      \* dartId[n]: the id of the Dart channel named n
          kotlinId,    \* kotlinId[n]: the id of the Kotlin channel named n
          handlers,    \* messageHandlers: from ids to the channel that registered
          registered,  \* the names whose channel registered a handler last, not null
          table,       \* how many arrays the HashMap has allocated, the last one in use
          threshold,   \* the entries it takes before it grows again
          moving       \* the ids that are still in the array before the last

mapVars == <<table, threshold, moving>>
vars == <<md5, dartId, kotlinId, handlers, registered, mapVars>>

Init == /\ md5 \in [Names -> Digest]
        /\ \A m, n \in Names : m # n => md5[m] # md5[n]
        /\ dartId = [n \in Names |-> NoId]
        /\ kotlinId = [n \in Names |-> NoId]
        /\ handlers = << >>
        /\ registered = {}
        /\ table = 0 /\ threshold = Capacity /\ moving = {}

NewDartChannel(n) == /\ dartId' = [dartId EXCEPT ![n] = DartDigest(md5[n])]
                     /\ UNCHANGED <<md5, kotlinId, handlers, registered, mapVars>>

NewKotlinChannel(n) == /\ kotlinId' = [kotlinId EXCEPT ![n] = KotlinDigest(md5[n])]
                       /\ UNCHANGED <<md5, dartId, handlers, registered, mapVars>>

Without(map, id) == [k \in DOMAIN map \ {id} |-> map[k]]
With(map, id, n) == [k \in DOMAIN map \union {id} |-> IF k = id THEN n ELSE map[k]]

(* HashMap (external) allocates its first array for its first entry, and a *)
(* larger one after an entry too many; the larger one is in use from the   *)
(* start, and the entries are moved there one bucket after another.        *)
Grow(map) == /\ handlers' = map
             /\ IF table = 0
                THEN table' = 1 /\ UNCHANGED <<threshold, moving>>
                ELSE IF Cardinality(DOMAIN map) > threshold
                THEN table' = table + 1 /\ threshold' = 2 * threshold /\ moving' = DOMAIN map
                ELSE UNCHANGED mapVars

MoveEntry(id) == /\ id \in moving
                 /\ moving' = moving \ {id}
                 /\ UNCHANGED <<md5, dartId, kotlinId, handlers, registered, table, threshold>>

(* Faulty: the id of the channel may be null.                              *)
SetUnderNull(n, present) ==
    /\ moving = {}
    /\ IF present THEN Grow(With(handlers, kotlinId[n], n)) /\ registered' = registered \union {n}
       ELSE /\ handlers' = Without(handlers, kotlinId[n])
            /\ registered' = registered \ {n}
            /\ UNCHANGED mapVars
    /\ UNCHANGED <<md5, dartId, kotlinId>>

(* Faulty: deregistration clears the map.                                  *)
SetOrClear(n, present) ==
    /\ kotlinId[n] # NoId
    /\ moving = {}
    /\ IF present THEN Grow(With(handlers, kotlinId[n], n)) /\ registered' = registered \union {n}
       ELSE /\ handlers' = << >>
            /\ registered' = registered \ {n}
            /\ UNCHANGED mapVars
    /\ UNCHANGED <<md5, dartId, kotlinId>>

(* setMethodCallHandler, and setMessageHandler that it calls, on the       *)
(* platform thread: not before an earlier call has come back.              *)
SetMethodCallHandler(n, present) ==
    /\ kotlinId[n] # NoId
    /\ moving = {}
    /\ IF present THEN Grow(With(handlers, kotlinId[n], n)) /\ registered' = registered \union {n}
       ELSE /\ handlers' = Without(handlers, kotlinId[n])
            /\ registered' = registered \ {n}
            /\ UNCHANGED mapVars
    /\ UNCHANGED <<md5, dartId, kotlinId>>

Next == \/ \E n \in Names : \/ NewDartChannel(n) \/ NewKotlinChannel(n)
                            \/ \E present \in BOOLEAN : SetMethodCallHandler(n, present)
        \/ \E id \in DOMAIN handlers : MoveEntry(id)

Spec == Init /\ [][Next]_vars
-----------------------------------------------------------------------------
(* The map is keyed by words, and its values are names.                    *)
TypeOK == /\ md5 \in [Names -> Digest]
          /\ dartId \in [Names -> Word \union {NoId}]
          /\ kotlinId \in [Names -> Word \union {NoId}]
          /\ DOMAIN handlers \subseteq Word
          /\ \A id \in DOMAIN handlers : handlers[id] \in Names
          /\ registered \subseteq Names
          /\ table \in Nat /\ threshold \in Nat
          /\ moving \subseteq DOMAIN handlers

(* The two sides, written in two languages with bytes of different signs   *)
(* and a conversion each, compute the same id.                             *)
SidesAgree == \A n \in Names : dartId[n] # NoId /\ kotlinId[n] # NoId
                               => dartId[n] = kotlinId[n]

(* What is left of a digest: a byte whose sign bit is set fills every      *)
(* higher bit, so the id tells two names apart only by the bytes from the  *)
(* last negative one on.                                                   *)
SameTail(d, e) ==
    \E k \in 1..Taken : /\ k = 1 \/ Negative(d[k])
                        /\ \A j \in k..Taken : d[j] = e[j]

(* Two channels share an id exactly when their digests have the same tail. *)
CollideBySameTail ==
    \A m, n \in Names : dartId[m] # NoId /\ dartId[n] # NoId
                        => (dartId[m] = dartId[n] <=> SameTail(md5[m], md5[n]))

(* get() reads the reference of the array once and its bucket later: what  *)
(* it finds for the Dart channel named n in the t-th array.                *)
Held(t) == IF t = table THEN DOMAIN handlers \ moving
           ELSE IF t + 1 = table THEN moving
           ELSE {}

Finds(n, t) == {handlers[id] : id \in {dartId[n]} \intersect Held(t)}

Collision == \E m, n \in Names : m # n /\ KotlinDigest(md5[m]) = KotlinDigest(md5[n])

(* "Overrides any existing handler registration for (the name of) this     *)
(* channel": as long as no two ids collide, a message reaches the handler  *)
(* its own channel registered last, or none if that was null.  A look-up   *)
(* that meets the growing of the map may miss the handler; it never finds  *)
(* another's, nor misses one when the map has not grown since it began.    *)
OwnHandler ==
    ~Collision => \A n \in Names, t \in 0..table :
       dartId[n] # NoId
       => /\ Finds(n, t) \subseteq {n} \intersect registered
          /\ t = table /\ moving = {} => Finds(n, t) = {n} \intersect registered
=============================================================================
