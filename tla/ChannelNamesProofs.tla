------------------------- MODULE ChannelNamesProofs -------------------------
(* Theorems about ChannelNames, for every set of names, every width and    *)
(* every hash.                                                             *)
EXTENDS ChannelNames, TLAPS, WellFoundedInduction

(***************************************************************************)
(* The two conversions.  They differ in what they are given, but not in    *)
(* the word they make of a byte, so that what is shown of Kotlin's loop    *)
(* below is true of Dart's as well.                                        *)
(***************************************************************************)
LEMMA ConversionsAgree == ASSUME NEW b \in Byte PROVE ToSigned(Unsigned(b)) = ToLong(b)
<1> USE WidthAssumption DEF WidthAssumption
<1>1. ByteBits \in Nat \ {0} /\ WordBits \in Nat /\ ByteBits <= WordBits
  <2>1. Taken * ByteBits = ByteBits + (Taken - 1) * ByteBits /\ (Taken - 1) * ByteBits \in Nat
    OBVIOUS
  <2>2. QED
    BY <2>1 DEF WordBits
<1>2. ASSUME NEW k \in 0..(WordBits - 1) PROVE ToSigned(Unsigned(b))[k] = ToLong(b)[k]
  <2>1. Unsigned(b)[ByteBits - 1] = b[ByteBits - 1] /\ b[ByteBits - 1] \in Bit
    BY <1>1 DEF Unsigned, Byte
  <2>2. CASE k < ByteBits - 1
    BY <1>1, <2>2 DEF ToSigned, Unsigned, ToLong
  <2>3. CASE k = ByteBits - 1
    BY <1>1, <2>1, <2>3 DEF ToSigned, ToLong
  <2>4. CASE k > ByteBits - 1
    <3>1. ToSigned(Unsigned(b))[k] = b[ByteBits - 1]
      BY <1>1, <2>1, <2>4 DEF ToSigned
    <3>2. ToLong(b)[k] = IF b[ByteBits - 1] = 1 THEN 1 ELSE 0
      BY <1>1, <2>4 DEF ToLong, Negative
    <3>3. QED
      BY <2>1, <3>1, <3>2 DEF Bit
  <2>5. QED
    BY <1>1, <2>2, <2>3, <2>4
<1>3. QED
  BY <1>2 DEF ToSigned, ToLong

LEMMA DigestsAgree == ASSUME NEW bytes \in Digest PROVE DartDigest(bytes) = KotlinDigest(bytes)
<1>1. \A k \in 1..Taken : ToSigned(Unsigned(bytes[k])) = ToLong(bytes[k])
  BY ConversionsAgree DEF Digest
<1>2. [k \in 1..Taken |-> ToSigned(Unsigned(bytes[k]))] = [k \in 1..Taken |-> ToLong(bytes[k])]
  BY <1>1
<1>3. QED
  BY <1>2 DEF DartDigest, KotlinDigest
-----------------------------------------------------------------------------
(* One iteration, for a byte.                                              *)
FoldByte(x, b) == Or(ShiftLeft(x), ToLong(b))

(* A byte whose sign bit is set erases everything folded in before it: the *)
(* result of the iteration does not depend on the digest so far.           *)
THEOREM NegativeByteForgets ==
    ASSUME NEW x \in Word, NEW y \in Word, NEW b \in Byte, Negative(b)
    PROVE  FoldByte(x, b) = FoldByte(y, b)
<1> USE WidthAssumption DEF WidthAssumption
<1>1. ByteBits \in Nat /\ WordBits \in Nat
  BY DEF WordBits
<1>2. ASSUME NEW k \in 0..(WordBits - 1)
      PROVE  Or(ShiftLeft(x), ToLong(b))[k] = Or(ShiftLeft(y), ToLong(b))[k]
  <2>1. CASE k < ByteBits
    BY <1>1, <2>1 DEF Or, ShiftLeft
  <2>2. CASE ~(k < ByteBits)
    <3>1. ToLong(b)[k] = 1
      BY <1>1, <2>2 DEF ToLong
    <3>2. QED
      BY <3>1 DEF Or
  <2>3. QED
    BY <2>1, <2>2
<1>3. Or(ShiftLeft(x), ToLong(b)) = Or(ShiftLeft(y), ToLong(b))
  BY <1>2 DEF Or
<1>4. QED
  BY <1>3 DEF FoldByte
-----------------------------------------------------------------------------
(***************************************************************************)
(* Induction on numbers, in the form that needs no operator: a set that    *)
(* holds 0 and with each number the next one holds them all.               *)
(***************************************************************************)
LEMMA LeastNumber == ASSUME NEW T \in SUBSET Nat, T # {}
                     PROVE  \E n \in T : \A m \in T : n <= m
<1> DEFINE Less == {ss \in Nat \X Nat : ss[1] < ss[2]}
<1>1. IsWellFoundedOn(Less, Nat)
  BY NatLessThanWellFounded, Zenon DEF OpToRel
<1>2. PICK n \in T : \A m \in T : ~ (<<m, n>> \in Less)
  <2> HIDE DEF Less
  <2>1. QED
    BY <1>1, WFMin
<1>3. \A m \in T : ~(m < n)
  BY <1>2
<1>4. QED
  BY <1>3

LEMMA Induction ==
    ASSUME NEW S, 0 \in S, \A n \in Nat : n \in S => n + 1 \in S
    PROVE  \A n \in Nat : n \in S
<1> SUFFICES ASSUME Nat \ S # {} PROVE FALSE
  OBVIOUS
<1>1. PICK n \in Nat \ S : \A m \in Nat \ S : n <= m
  BY LeastNumber
<1>2. n # 0 /\ n - 1 \in Nat /\ n - 1 \in S
  BY <1>1
<1>3. QED
  BY <1>1, <1>2
-----------------------------------------------------------------------------
(***************************************************************************)
(* The loop of _computeChannelId.  The recursive function that folds the   *)
(* words exists, so that its equation may be used.                         *)
(***************************************************************************)
IsFold(f, n, words) ==
    f = [k \in 0..n |-> IF k = 0 THEN Zero ELSE Or(ShiftLeft(f[k - 1]), words[k])]

LEMMA FoldExists == ASSUME NEW words, NEW n \in Nat PROVE \E f : IsFold(f, n, words)
<1> DEFINE S == {m \in Nat : \E f : IsFold(f, m, words)}
<1>1. 0 \in S
  <2>1. IsFold([k \in 0..0 |-> Zero], 0, words)
    BY DEF IsFold
  <2>2. QED
    BY <2>1
<1>2. ASSUME NEW m \in Nat, m \in S PROVE m + 1 \in S
  <2>1. PICK f : IsFold(f, m, words)
    BY <1>2
  <2> DEFINE g == [k \in 0..(m + 1) |-> IF k = m + 1 THEN Or(ShiftLeft(f[m]), words[m + 1]) ELSE f[k]]
  <2>2. ASSUME NEW k \in 0..(m + 1)
        PROVE  g[k] = IF k = 0 THEN Zero ELSE Or(ShiftLeft(g[k - 1]), words[k])
    <3>1. CASE k = m + 1
      BY <3>1
    <3>2. CASE k # m + 1
      <4>1. k \in 0..m /\ g[k] = f[k] /\ (k # 0 => k - 1 \in 0..m /\ g[k - 1] = f[k - 1])
        BY <3>2
      <4>2. QED
        BY <2>1, <4>1 DEF IsFold
    <3>3. QED
      BY <3>1, <3>2
  <2>3. IsFold(g, m + 1, words)
    BY <2>2 DEF IsFold
  <2>4. QED
    BY <2>3
<1> HIDE DEF S
<1>3. n \in S
  BY <1>1, <1>2, Induction
<1>4. QED
  BY <1>3 DEF S

Longs(bytes) == [k \in 1..Taken |-> ToLong(bytes[k])]

LEMMA DigestIsFold ==
    ASSUME NEW bytes
    PROVE  \E f : IsFold(f, Taken, Longs(bytes)) /\ KotlinDigest(bytes) = f[Taken]
<1> DEFINE f == CHOOSE g : IsFold(g, Taken, Longs(bytes))
<1>1. IsFold(f, Taken, Longs(bytes))
  BY FoldExists, WidthAssumption DEF WidthAssumption
<1>2. KotlinDigest(bytes) = f[Taken]
  BY DEF KotlinDigest, Fold, Longs, IsFold
<1>3. QED
  BY <1>1, <1>2
-----------------------------------------------------------------------------
(***************************************************************************)
(* What the iterations make.  After k bytes the bits from the sign bit of  *)
(* the first byte on are equal.                                            *)
(***************************************************************************)
Extended(x, k) == IF k = 0 THEN x = Zero
                  ELSE \A p, q \in (k * ByteBits - 1)..(WordBits - 1) : x[p] = x[q]

LEMMA Widths ==
    /\ ByteBits \in Nat \ {0} /\ Taken \in Nat \ {0} /\ WordBits \in Nat
    /\ ByteBits <= WordBits
    /\ \A k \in 0..(Taken - 1) : /\ k * ByteBits \in Nat
                                 /\ (k + 1) * ByteBits = k * ByteBits + ByteBits
                                 /\ k * ByteBits + ByteBits <= WordBits
                                 /\ k # 0 => ByteBits <= k * ByteBits
<1> USE WidthAssumption DEF WidthAssumption, WordBits
<1>1. ASSUME NEW k \in 0..(Taken - 1)
      PROVE  /\ k * ByteBits \in Nat
             /\ (k + 1) * ByteBits = k * ByteBits + ByteBits
             /\ k * ByteBits + ByteBits <= Taken * ByteBits
             /\ k # 0 => ByteBits <= k * ByteBits
  <2>1. Taken * ByteBits = k * ByteBits + ByteBits + (Taken - 1 - k) * ByteBits
    OBVIOUS
  <2>2. (Taken - 1 - k) * ByteBits \in Nat /\ k * ByteBits \in Nat
    OBVIOUS
  <2>3. (k + 1) * ByteBits = k * ByteBits + ByteBits
    OBVIOUS
  <2>4. k # 0 => k * ByteBits = ByteBits + (k - 1) * ByteBits /\ (k - 1) * ByteBits \in Nat
    OBVIOUS
  <2>5. QED
    BY <2>1, <2>2, <2>3, <2>4
<1>2. Taken * ByteBits \in Nat /\ ByteBits <= Taken * ByteBits
  <2>1. 0 * ByteBits = 0
    OBVIOUS
  <2>2. QED
    BY <1>1, <2>1
<1>3. QED
  BY <1>1, <1>2

LEMMA FoldBits ==
    ASSUME NEW x \in Word, NEW b \in Byte
    PROVE  /\ FoldByte(x, b) \in Word
           /\ \A p \in 0..(ByteBits - 1) : FoldByte(x, b)[p] = b[p]
           /\ \A p \in ByteBits..(WordBits - 1) :
                 FoldByte(x, b)[p] = IF Negative(b) THEN 1 ELSE x[p - ByteBits]
<1> USE Widths
<1>1. FoldByte(x, b) \in Word
  BY DEF FoldByte, Or, Word, Bit
<1>2. ASSUME NEW p \in 0..(WordBits - 1)
      PROVE  FoldByte(x, b)[p] = IF ShiftLeft(x)[p] = 1 \/ ToLong(b)[p] = 1 THEN 1 ELSE 0
  BY DEF FoldByte, Or
<1>3. ASSUME NEW p \in 0..(ByteBits - 1) PROVE FoldByte(x, b)[p] = b[p]
  <2>1. ShiftLeft(x)[p] = 0 /\ ToLong(b)[p] = b[p] /\ b[p] \in Bit
    BY DEF ShiftLeft, ToLong, Byte
  <2>2. QED
    BY <1>2, <2>1 DEF Bit
<1>4. ASSUME NEW p \in ByteBits..(WordBits - 1)
      PROVE  FoldByte(x, b)[p] = IF Negative(b) THEN 1 ELSE x[p - ByteBits]
  <2>1. /\ ShiftLeft(x)[p] = x[p - ByteBits] /\ x[p - ByteBits] \in Bit
        /\ ToLong(b)[p] = IF Negative(b) THEN 1 ELSE 0
    BY DEF ShiftLeft, ToLong, Byte, Word
  <2>2. QED
    BY <1>2, <2>1 DEF Bit
<1>5. QED
  BY <1>1, <1>3, <1>4

LEMMA FoldExtends ==
    ASSUME NEW k \in 0..(Taken - 1), NEW x \in Word, Extended(x, k), NEW b \in Byte
    PROVE  Extended(FoldByte(x, b), k + 1)
<1> USE Widths
<1> DEFINE y == FoldByte(x, b)
<1>1. SUFFICES ASSUME NEW p \in (k * ByteBits + ByteBits - 1)..(WordBits - 1)
               PROVE  y[p] = y[k * ByteBits + ByteBits - 1]
  BY DEF Extended
<1>2. CASE k = 0
  <2>1. \A q \in ByteBits..(WordBits - 1) : y[q] = IF Negative(b) THEN 1 ELSE 0
    BY <1>2, FoldBits DEF Extended, Zero
  <2>2. y[ByteBits - 1] = IF Negative(b) THEN 1 ELSE 0
    BY FoldBits DEF Negative, Byte, Bit
  <2>3. k * ByteBits = 0
    BY <1>2
  <2>4. QED
    BY <2>1, <2>2, <2>3
<1>3. CASE k # 0
  <2>1. \A q \in (k * ByteBits + ByteBits - 1)..(WordBits - 1) :
           y[q] = IF Negative(b) THEN 1 ELSE x[q - ByteBits]
    BY <1>3, FoldBits
  <2>2. \A q \in (k * ByteBits + ByteBits - 1)..(WordBits - 1) :
           x[q - ByteBits] = x[k * ByteBits - 1]
    BY <1>3 DEF Extended
  <2>3. QED
    BY <2>1, <2>2
<1>4. QED
  BY <1>2, <1>3

(* One iteration keeps two digests apart exactly if their bytes differ or  *)
(* the byte is not negative.                                               *)
LEMMA FoldAgrees ==
    ASSUME NEW k \in 0..(Taken - 1),
           NEW x \in Word, Extended(x, k), NEW y \in Word, Extended(y, k),
           NEW b \in Byte, NEW c \in Byte
    PROVE  FoldByte(x, b) = FoldByte(y, c) <=> b = c /\ (Negative(b) \/ x = y)
<1> USE Widths
<1>1. ASSUME FoldByte(x, b) = FoldByte(y, c) PROVE b = c
  <2>1. \A p \in 0..(ByteBits - 1) : b[p] = c[p]
    BY <1>1, FoldBits
  <2>2. QED
    BY <2>1 DEF Byte
<1>2. ASSUME FoldByte(x, b) = FoldByte(y, c), ~Negative(b) PROVE x = y
  <2>1. \A p \in ByteBits..(WordBits - 1) : x[p - ByteBits] = y[p - ByteBits]
    <3>1. ~Negative(c)
      BY <1>1, <1>2
    <3>2. \A p \in ByteBits..(WordBits - 1) : /\ FoldByte(x, b)[p] = x[p - ByteBits]
                                            /\ FoldByte(y, c)[p] = y[p - ByteBits]
      BY <1>2, <3>1, FoldBits
    <3>3. QED
      BY <1>2, <3>2
  <2>2. \A p \in 0..(WordBits - ByteBits - 1) : x[p] = y[p]
    <3>1. \A p \in 0..(WordBits - ByteBits - 1) :
             p + ByteBits \in ByteBits..(WordBits - 1) /\ (p + ByteBits) - ByteBits = p
      OBVIOUS
    <3>2. QED
      BY <2>1, <3>1
  <2>3. CASE k = 0
    BY <2>3 DEF Extended
  <2>4. CASE k # 0
    <3>1. x[k * ByteBits - 1] = y[k * ByteBits - 1]
      BY <2>2, <2>4
    <3>2. ASSUME NEW p \in 0..(WordBits - 1), ~(p <= WordBits - ByteBits - 1)
          PROVE  x[p] = y[p]
      <4>1. /\ x[p] = x[k * ByteBits - 1]
            /\ y[p] = y[k * ByteBits - 1]
        BY <2>4, <3>2 DEF Extended
      <4>2. QED
        BY <3>1, <4>1
    <3>3. QED
      BY <2>2, <3>2 DEF Word
  <2>5. QED
    BY <2>3, <2>4
<1>3. ASSUME b = c, Negative(b) PROVE FoldByte(x, b) = FoldByte(y, c)
  BY <1>3, NegativeByteForgets
<1>4. QED
  BY <1>1, <1>2, <1>3

LEMMA FoldTypes ==
    ASSUME NEW bytes \in Digest, NEW f, IsFold(f, Taken, Longs(bytes)), NEW n \in 0..Taken
    PROVE  f[n] \in Word /\ Extended(f[n], n)
<1> USE Widths
<1> DEFINE S == {m \in Nat : m <= Taken => f[m] \in Word /\ Extended(f[m], m)}
<1>1. 0 \in S
  BY DEF IsFold, Extended, Zero, Word, Bit
<1>2. ASSUME NEW m \in Nat, m \in S PROVE m + 1 \in S
  <2>1. CASE m + 1 <= Taken
    <3>1. m \in 0..(Taken - 1) /\ f[m] \in Word /\ Extended(f[m], m) /\ bytes[m + 1] \in Byte
      BY <1>2, <2>1 DEF Digest
    <3>2. f[m + 1] = FoldByte(f[m], bytes[m + 1])
      BY <2>1 DEF IsFold, Longs, FoldByte
    <3>3. f[m + 1] \in Word /\ Extended(f[m + 1], m + 1)
      BY <3>1, <3>2, FoldBits, FoldExtends
    <3>4. QED
      BY <3>3
  <2>2. QED
    BY <2>1
<1> HIDE DEF S
<1>3. n \in S
  BY <1>1, <1>2, Induction
<1>4. QED
  BY <1>3 DEF S

(* The id of a channel is a word.                                          *)
LEMMA DigestIsWord == ASSUME NEW bytes \in Digest PROVE KotlinDigest(bytes) \in Word
BY DigestIsFold, FoldTypes, Widths

(* Two digests have one tail exactly if they fold to one id.               *)
THEOREM DigestKeepsTail ==
    ASSUME NEW d \in Digest, NEW e \in Digest
    PROVE  KotlinDigest(d) = KotlinDigest(e) <=> SameTail(d, e)
<1> USE Widths
<1>1. PICK f : IsFold(f, Taken, Longs(d)) /\ KotlinDigest(d) = f[Taken]
  BY DigestIsFold
<1>2. PICK g : IsFold(g, Taken, Longs(e)) /\ KotlinDigest(e) = g[Taken]
  BY DigestIsFold
<1> DEFINE Tail(n) == \E k \in 1..n : /\ k = 1 \/ Negative(d[k])
                                      /\ \A j \in k..n : d[j] = e[j]
           S == {n \in Nat : n \in 1..Taken => (f[n] = g[n] <=> Tail(n))}
<1>3. ASSUME NEW n \in 0..(Taken - 1)
      PROVE  f[n + 1] = g[n + 1] <=> d[n + 1] = e[n + 1] /\ (Negative(d[n + 1]) \/ f[n] = g[n])
  <2>1. /\ f[n] \in Word /\ Extended(f[n], n) /\ g[n] \in Word /\ Extended(g[n], n)
    BY <1>1, <1>2, FoldTypes
  <2>2. /\ f[n + 1] = FoldByte(f[n], d[n + 1]) /\ g[n + 1] = FoldByte(g[n], e[n + 1])
        /\ d[n + 1] \in Byte /\ e[n + 1] \in Byte
    <3>1. n + 1 \in 1..Taken /\ n + 1 \in 0..Taken /\ n + 1 # 0 /\ (n + 1) - 1 = n
      OBVIOUS
    <3>2. /\ f[n + 1] = Or(ShiftLeft(f[n]), Longs(d)[n + 1])
          /\ g[n + 1] = Or(ShiftLeft(g[n]), Longs(e)[n + 1])
      BY <1>1, <1>2, <3>1 DEF IsFold
    <3>3. Longs(d)[n + 1] = ToLong(d[n + 1]) /\ Longs(e)[n + 1] = ToLong(e[n + 1])
      BY <3>1 DEF Longs
    <3>4. QED
      BY <3>1, <3>2, <3>3 DEF FoldByte, Digest
  <2>3. QED
    BY <2>1, <2>2, FoldAgrees
<1>4. 0 \in S
  OBVIOUS
<1>5. ASSUME NEW n \in Nat, n \in S PROVE n + 1 \in S
  <2>1. SUFFICES ASSUME n + 1 \in 1..Taken PROVE f[n + 1] = g[n + 1] <=> Tail(n + 1)
    OBVIOUS
  <2>2. n \in 0..(Taken - 1)
    BY <2>1
  <2>3. Tail(n + 1) <=> d[n + 1] = e[n + 1] /\ (n = 0 \/ Negative(d[n + 1]) \/ Tail(n))
    <3>1. ASSUME NEW k \in 1..(n + 1), k = 1 \/ Negative(d[k]), \A j \in k..(n + 1) : d[j] = e[j]
          PROVE  d[n + 1] = e[n + 1] /\ (n = 0 \/ Negative(d[n + 1]) \/ Tail(n))
      <4>1. d[n + 1] = e[n + 1]
        BY <3>1
      <4>2. CASE k = n + 1
        BY <3>1, <4>1, <4>2
      <4>3. CASE k # n + 1
        <5>1. k \in 1..n /\ \A j \in k..n : d[j] = e[j]
          BY <3>1, <4>3
        <5>2. QED
          BY <3>1, <4>1, <5>1
      <4>4. QED
        BY <4>2, <4>3
    <3>2. ASSUME d[n + 1] = e[n + 1], n = 0 \/ Negative(d[n + 1]) PROVE Tail(n + 1)
      BY <3>2
    <3>3. ASSUME d[n + 1] = e[n + 1], NEW k \in 1..n, k = 1 \/ Negative(d[k]),
                 \A j \in k..n : d[j] = e[j]
          PROVE  Tail(n + 1)
      <4>1. k \in 1..(n + 1) /\ \A j \in k..(n + 1) : d[j] = e[j]
        BY <3>3
      <4>2. QED
        BY <3>3, <4>1
    <3>4. QED
      BY <3>1, <3>2, <3>3
  <2>4. CASE n = 0
    <3>1. f[0] = g[0]
      BY <1>1, <1>2 DEF IsFold
    <3>2. QED
      BY <1>3, <2>2, <2>3, <2>4, <3>1
  <2>5. CASE n # 0
    <3>1. f[n] = g[n] <=> Tail(n)
      BY <1>5, <2>2, <2>5
    <3>2. QED
      BY <1>3, <2>2, <2>3, <2>5, <3>1
  <2>6. QED
    BY <2>4, <2>5
<1> HIDE DEF S
<1>6. Taken \in S
  BY <1>4, <1>5, Induction
<1>7. QED
  BY <1>1, <1>2, <1>6 DEF S, SameTail
-----------------------------------------------------------------------------
(* Types, apart from those of the ids.                                     *)
NamesTypes == /\ md5 \in [Names -> Digest]
              /\ registered \subseteq Names
              /\ table \in Nat /\ threshold \in Nat

LEMMA NamesTypesStep == NamesTypes /\ [Next]_vars => NamesTypes'
<1> SUFFICES ASSUME NamesTypes, [Next]_vars PROVE NamesTypes'
  OBVIOUS
<1> USE DEF NamesTypes
<1>1. ASSUME NEW n \in Names, NewDartChannel(n) \/ NewKotlinChannel(n) PROVE NamesTypes'
  BY <1>1 DEF NewDartChannel, NewKotlinChannel, mapVars
<1>2. ASSUME NEW n \in Names, NEW present \in BOOLEAN, SetMethodCallHandler(n, present)
      PROVE  NamesTypes'
  BY <1>2 DEF SetMethodCallHandler, Grow, mapVars
<1>3. ASSUME NEW id \in DOMAIN handlers, MoveEntry(id) PROVE NamesTypes'
  BY <1>3 DEF MoveEntry
<1>4. CASE UNCHANGED vars
  BY <1>4 DEF vars, mapVars
<1>5. QED
  BY <1>1, <1>2, <1>3, <1>4 DEF Next

LEMMA NamesTypesInvariant == Spec => []NamesTypes
<1>1. Init => NamesTypes
  BY CapacityAssumption DEF CapacityAssumption, Init, NamesTypes
<1>2. QED
  BY <1>1, NamesTypesStep, PTL DEF Spec
-----------------------------------------------------------------------------
(* The id of the channels named n: Dart's loop gives the same.             *)
IdOf(n) == KotlinDigest(md5[n])

(* The registry holds channels under their own ids only, and as long as no *)
(* ids collide it holds exactly the channels that registered a handler; an *)
(* entry that has not been moved is one of the registry.                   *)
RegistryInv ==
    /\ \A n \in Names : dartId[n] \in {NoId, IdOf(n)} /\ kotlinId[n] \in {NoId, IdOf(n)}
    /\ dartId = [n \in Names |-> dartId[n]] /\ kotlinId = [n \in Names |-> kotlinId[n]]
    /\ \A id \in DOMAIN handlers : handlers[id] \in Names /\ id = IdOf(handlers[id])
    /\ ~Collision => \A n \in Names : n \in registered <=> IdOf(n) \in DOMAIN handlers
    /\ moving \subseteq DOMAIN handlers

LEMMA RegistryInit == Init => RegistryInv
BY DEF Init, RegistryInv

LEMMA RegistryStep == NamesTypes /\ RegistryInv /\ [Next]_vars => RegistryInv'
<1> SUFFICES ASSUME NamesTypes, RegistryInv, [Next]_vars PROVE RegistryInv'
  OBVIOUS
<1>1. md5' = md5 /\ (Collision' <=> Collision) /\ \A n : IdOf(n)' = IdOf(n)
  BY DEF Next, NewDartChannel, NewKotlinChannel, SetMethodCallHandler, MoveEntry, vars,
     Collision, IdOf
<1>2. ASSUME NEW n \in Names, NewDartChannel(n) PROVE RegistryInv'
  <2>1. DartDigest(md5[n]) = IdOf(n)
    BY DigestsAgree DEF NamesTypes, IdOf
  <2>2. QED
    BY <1>1, <1>2, <2>1 DEF NewDartChannel, RegistryInv, mapVars
<1>3. ASSUME NEW n \in Names, NewKotlinChannel(n) PROVE RegistryInv'
  BY <1>1, <1>3 DEF NewKotlinChannel, RegistryInv, IdOf, mapVars
<1>4. ASSUME NEW n \in Names, NEW present \in BOOLEAN, SetMethodCallHandler(n, present)
      PROVE  RegistryInv'
  <2>1. /\ kotlinId[n] = IdOf(n) /\ dartId' = dartId /\ kotlinId' = kotlinId
        /\ moving = {}
    BY <1>4 DEF SetMethodCallHandler, RegistryInv
  <2>2. ~Collision => \A m \in Names : m # n => IdOf(m) # IdOf(n)
    BY DEF Collision, IdOf
  <2>3. CASE present
    <3>1. /\ handlers' = [k \in DOMAIN handlers \union {IdOf(n)} |->
                            IF k = IdOf(n) THEN n ELSE handlers[k]]
          /\ registered' = registered \union {n}
      BY <1>4, <2>1, <2>3 DEF SetMethodCallHandler, Grow, With
    <3>2. moving' \subseteq DOMAIN handlers'
      BY <1>4, <2>1, <2>3 DEF SetMethodCallHandler, Grow, mapVars
    <3>3. QED
      BY <1>1, <2>1, <2>2, <3>1, <3>2 DEF RegistryInv
  <2>4. CASE ~present
    <3>1. /\ handlers' = [k \in DOMAIN handlers \ {IdOf(n)} |-> handlers[k]]
          /\ registered' = registered \ {n} /\ moving' = {}
      BY <1>4, <2>1, <2>4 DEF SetMethodCallHandler, Without, mapVars
    <3>2. QED
      BY <1>1, <2>1, <2>2, <3>1 DEF RegistryInv
  <2>5. QED
    BY <2>3, <2>4
<1>5. ASSUME NEW id \in DOMAIN handlers, MoveEntry(id) PROVE RegistryInv'
  BY <1>1, <1>5 DEF MoveEntry, RegistryInv
<1>6. CASE UNCHANGED vars
  BY <1>1, <1>6 DEF vars, mapVars, RegistryInv
<1>7. QED
  BY <1>2, <1>3, <1>4, <1>5, <1>6 DEF Next

LEMMA RegistryInvariant == Spec => []RegistryInv
BY RegistryInit, RegistryStep, NamesTypesInvariant, PTL DEF Spec

(* The Dart and the Kotlin channel of one name have one id, although each  *)
(* side converts the bytes of the digest in its own way.                   *)
THEOREM IdsAgree == Spec => []SidesAgree
<1>1. RegistryInv => SidesAgree
  BY DEF RegistryInv, SidesAgree
<1>2. QED
  BY <1>1, RegistryInvariant, PTL

(* Whatever the hash, a message reaches the handler that the channel of    *)
(* its own name registered last, unless two ids collide; a look-up during  *)
(* which the map grows may find none, but no other channel's.              *)
THEOREM OwnHandlerIsReached == Spec => []OwnHandler
<1>1. RegistryInv => OwnHandler
  <2> SUFFICES ASSUME RegistryInv, ~Collision, NEW n \in Names, NEW t \in 0..table,
                      dartId[n] # NoId
               PROVE  /\ Finds(n, t) \subseteq {n} \intersect registered
                      /\ t = table /\ moving = {} => Finds(n, t) = {n} \intersect registered
    BY DEF OwnHandler
  <2>1. dartId[n] = IdOf(n)
    BY DEF RegistryInv
  <2>2. IdOf(n) \in DOMAIN handlers => handlers[IdOf(n)] = n
    BY DEF RegistryInv, Collision, IdOf
  <2>3. n \in registered <=> IdOf(n) \in DOMAIN handlers
    BY DEF RegistryInv
  <2>4. /\ Held(t) \subseteq DOMAIN handlers
        /\ t = table /\ moving = {} => Held(t) = DOMAIN handlers
    BY DEF Held, RegistryInv
  <2>5. QED
    BY <2>1, <2>2, <2>3, <2>4 DEF Finds
<1>2. QED
  BY <1>1, RegistryInvariant, PTL
-----------------------------------------------------------------------------
(* Ids are words and name the channels they were computed for.             *)
THEOREM NamesTypeCorrect == Spec => []TypeOK
<1>1. NamesTypes /\ RegistryInv => TypeOK
  <2> SUFFICES ASSUME NamesTypes, RegistryInv PROVE TypeOK
    OBVIOUS
  <2>1. \A n \in Names : IdOf(n) \in Word
    BY DigestIsWord DEF NamesTypes, IdOf
  <2>2. /\ dartId \in [Names -> Word \union {NoId}]
        /\ kotlinId \in [Names -> Word \union {NoId}]
    BY <2>1 DEF RegistryInv
  <2>3. DOMAIN handlers \subseteq Word
    BY <2>1 DEF RegistryInv
  <2>4. QED
    BY <2>2, <2>3 DEF TypeOK, NamesTypes, RegistryInv
<1>2. QED
  BY <1>1, NamesTypesInvariant, RegistryInvariant, PTL

(* Two channels share an id exactly when the digests of their names have   *)
(* the same tail: so a name whose eighth byte is negative shares its id    *)
(* with every name that has the same eighth byte.                          *)
THEOREM CollisionsHaveOneTail == Spec => []CollideBySameTail
<1>1. NamesTypes /\ RegistryInv => CollideBySameTail
  BY DigestKeepsTail DEF NamesTypes, RegistryInv, CollideBySameTail, IdOf
<1>2. QED
  BY <1>1, NamesTypesInvariant, RegistryInvariant, PTL

(* The names that OwnHandlerIsReached excludes are those.                  *)
THEOREM CollisionMeansSameTail ==
    Spec => [](Collision <=> \E m, n \in Names : m # n /\ SameTail(md5[m], md5[n]))
<1>1. NamesTypes => (Collision <=> \E m, n \in Names : m # n /\ SameTail(md5[m], md5[n]))
  BY DigestKeepsTail DEF NamesTypes, Collision
<1>2. QED
  BY <1>1, NamesTypesInvariant, PTL
=============================================================================
