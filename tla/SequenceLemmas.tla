--------------------------- MODULE SequenceLemmas ---------------------------
(***************************************************************************)
(* Lemmas on sequences used as channels and queues of different values:    *)
(* what a send and a receive do to the set of values under way, and to     *)
(* the number of those of one kind.  And one on multiples, for values laid *)
(* out at equal distances.                                                 *)
(***************************************************************************)
EXTENDS Sequences, Integers, FiniteSets, Functions,
        SequenceTheorems, FiniteSetTheorems, TLAPS

\* Appending a value not in a sequence adds it to the range and keeps the
\* values different (the send on the work channel).
LEMMA AppendToSequence ==
    ASSUME NEW S, NEW s \in Seq(S), NEW x \in S
    PROVE  /\ Append(s, x) \in Seq(S)
           /\ Range(Append(s, x)) = Range(s) \cup {x}
           /\ IsInjective(s) /\ x \notin Range(s) => IsInjective(Append(s, x))
<1>1. /\ Append(s, x) \in Seq(S)
      /\ Len(Append(s, x)) = Len(s) + 1
      /\ \A i \in 1..Len(s) : Append(s, x)[i] = s[i]
      /\ Append(s, x)[Len(s) + 1] = x
  BY AppendProperties
<1>2. /\ Len(s) \in Nat
      /\ DOMAIN s = 1..Len(s)
      /\ DOMAIN Append(s, x) = 1..(Len(s) + 1)
  BY <1>1, LenProperties
<1>3. Range(Append(s, x)) = Range(s) \cup {x}
  BY <1>1, <1>2 DEF Range
<1>4. IsInjective(s) /\ x \notin Range(s) => IsInjective(Append(s, x))
  BY <1>1, <1>2 DEF Range, IsInjective
<1> QED
  BY <1>1, <1>3, <1>4

\* Taking the head removes one value from the range (the receive on the work
\* channel).
LEMMA TakeFromSequence ==
    ASSUME NEW S, NEW s \in Seq(S), s # <<>>
    PROVE  /\ Head(s) \in S
           /\ Tail(s) \in Seq(S)
           /\ Range(s) = Range(Tail(s)) \cup {Head(s)}
           /\ IsInjective(s) =>
                /\ IsInjective(Tail(s))
                /\ Head(s) \notin Range(Tail(s))
<1>1. /\ Head(s) \in S
      /\ Head(s) = s[1]
      /\ Tail(s) \in Seq(S)
      /\ Len(Tail(s)) = Len(s) - 1
      /\ \A i \in 1..Len(Tail(s)) : Tail(s)[i] = s[i + 1]
  BY HeadTailProperties
<1>2. /\ Len(s) \in Nat \ {0}
      /\ DOMAIN s = 1..Len(s)
      /\ DOMAIN Tail(s) = 1..(Len(s) - 1)
  BY <1>1, LenProperties, EmptySeq
<1>3. Range(s) = Range(Tail(s)) \cup {Head(s)}
  <2>1. ASSUME NEW i \in DOMAIN s
        PROVE  s[i] \in Range(Tail(s)) \cup {Head(s)}
    <3>1. CASE i = 1
      BY <3>1, <1>1
    <3>2. CASE i # 1
      <4>1. i - 1 \in DOMAIN Tail(s) /\ Tail(s)[i - 1] = s[i]
        BY <3>2, <1>1, <1>2
      <4> QED
        BY <4>1 DEF Range
    <3> QED
      BY <3>1, <3>2
  <2>2. ASSUME NEW i \in DOMAIN Tail(s)
        PROVE  Tail(s)[i] \in Range(s)
    <3>1. i + 1 \in DOMAIN s /\ Tail(s)[i] = s[i + 1]
      BY <1>1, <1>2
    <3> QED
      BY <3>1 DEF Range
  <2>3. Head(s) \in Range(s)
    BY <1>1, <1>2 DEF Range
  <2> QED
    BY <2>1, <2>2, <2>3 DEF Range
<1>4. ASSUME IsInjective(s)
      PROVE  IsInjective(Tail(s)) /\ Head(s) \notin Range(Tail(s))
  BY <1>1, <1>2, <1>4 DEF IsInjective, Range
<1> QED
  BY <1>1, <1>3, <1>4

\* Multiples of c are ordered as their factors (offsets of chunks, places of
\* peers).
LEMMA Multiples ==
    ASSUME NEW c \in Nat \ {0}, NEW a \in Nat, NEW b \in Nat
    PROVE  /\ (a + 1) * c = a * c + c
           /\ a < b <=> a * c < b * c
<1>1. (a + 1) * c = a * c + c
  OBVIOUS
<1>2. ASSUME NEW m \in Nat, NEW n \in Nat, m =< n
      PROVE  m * c =< n * c
  <2> DEFINE d == n - m
  <2>1. d \in Nat /\ n = m + d
    BY <1>2
  <2> HIDE DEF d
  <2>2. n * c = m * c + d * c /\ d * c \in Nat /\ m * c \in Nat
    BY <2>1
  <2> QED
    BY <2>2
<1>3. a < b => a * c < b * c
  <2>1. a < b => a + 1 =< b /\ a + 1 \in Nat
    OBVIOUS
  <2>2. a * c \in Nat /\ b * c \in Nat
    OBVIOUS
  <2> QED
    BY <1>1, <1>2, <2>1, <2>2
<1>4. ~(a < b) => ~(a * c < b * c)
  <2>1. a * c \in Nat /\ b * c \in Nat
    OBVIOUS
  <2> QED
    BY <1>2, <2>1
<1> QED
  BY <1>1, <1>3, <1>4

\* The places of the first n elements of a sequence that hold a value of K.
Places(s, n, K) == {k \in 1..n : s[k] \in K}

\* Places can be counted.
LEMMA CountPlaces ==
    ASSUME NEW s, NEW n \in Nat, NEW K
    PROVE  /\ IsFiniteSet(Places(s, n, K))
           /\ Cardinality(Places(s, n, K)) \in Nat
           /\ Cardinality(Places(s, 0, K)) = 0
<1>1. IsFiniteSet(1..n) /\ Places(s, n, K) \in SUBSET (1..n) /\ Places(s, 0, K) = {}
  BY FS_Interval DEF Places
<1>2. IsFiniteSet(Places(s, n, K))
  BY <1>1, FS_Subset
<1> QED
  BY <1>1, <1>2, FS_CardinalityType, FS_EmptySet

\* A send adds a place at the end, if its value is one of K, and changes
\* nothing before it.
LEMMA PlacesOfAppend ==
    ASSUME NEW S, NEW s \in Seq(S), NEW x \in S, NEW K
    PROVE  /\ \A n \in 0..Len(s) : Places(Append(s, x), n, K) = Places(s, n, K)
           /\ Cardinality(Places(Append(s, x), Len(s) + 1, K))
                = Cardinality(Places(s, Len(s), K)) + (IF x \in K THEN 1 ELSE 0)
<1>1. /\ Len(s) \in Nat
      /\ \A i \in 1..Len(s) : Append(s, x)[i] = s[i]
      /\ Append(s, x)[Len(s) + 1] = x
  BY AppendProperties, LenProperties
<1>2. \A n \in 0..Len(s) : Places(Append(s, x), n, K) = Places(s, n, K)
  BY <1>1 DEF Places
<1>3. /\ x \in K => Places(Append(s, x), Len(s) + 1, K) = Places(s, Len(s), K) \cup {Len(s) + 1}
      /\ x \notin K => Places(Append(s, x), Len(s) + 1, K) = Places(s, Len(s), K)
      /\ Len(s) + 1 \notin Places(s, Len(s), K)
  BY <1>1 DEF Places
<1>4. IsFiniteSet(Places(s, Len(s), K)) /\ Cardinality(Places(s, Len(s), K)) \in Nat
  BY <1>1, CountPlaces
<1>5. Cardinality(Places(s, Len(s), K) \cup {Len(s) + 1}) = Cardinality(Places(s, Len(s), K)) + 1
  BY <1>3, <1>4, FS_AddElement
<1>6. CASE x \in K
  BY <1>2, <1>3, <1>5, <1>6
<1>7. CASE x \notin K
  BY <1>2, <1>3, <1>4, <1>7
<1> QED
  BY <1>6, <1>7

\* A receive takes the first place and moves the others down by one.
LEMMA PlacesOfTail ==
    ASSUME NEW S, NEW s \in Seq(S), s # <<>>, NEW n \in 0..(Len(s) - 1), NEW K
    PROVE  Cardinality(Places(s, n + 1, K))
             = Cardinality(Places(Tail(s), n, K)) + (IF Head(s) \in K THEN 1 ELSE 0)
<1> DEFINE Rest == {k \in 2..(n + 1) : s[k] \in K}
<1>1. /\ Head(s) = s[1]
      /\ Len(Tail(s)) = Len(s) - 1
      /\ \A i \in 1..Len(Tail(s)) : Tail(s)[i] = s[i + 1]
      /\ Len(s) \in Nat /\ n \in Nat
  BY HeadTailProperties, LenProperties
<1>2. /\ IsFiniteSet(Places(Tail(s), n, K))
      /\ Cardinality(Places(Tail(s), n, K)) \in Nat
  BY <1>1, CountPlaces
<1>3. ExistsBijection(Places(Tail(s), n, K), Rest)
  <2> DEFINE down == [k \in Places(Tail(s), n, K) |-> k + 1]
  <2>1. down \in [Places(Tail(s), n, K) -> Rest]
    BY <1>1 DEF Places
  <2>2. \A j, k \in Places(Tail(s), n, K) : down[j] = down[k] => j = k
    BY DEF Places
  <2>3. ASSUME NEW k \in Rest
        PROVE  \E j \in Places(Tail(s), n, K) : down[j] = k
    <3>1. k - 1 \in Places(Tail(s), n, K) /\ down[k - 1] = k
      BY <1>1 DEF Places
    <3> QED
      BY <3>1
  <2> HIDE DEF down
  <2> QED
    BY <2>1, <2>2, <2>3 DEF ExistsBijection, Bijection, Injection, Surjection, IsInjective
<1>4. IsFiniteSet(Rest) /\ Cardinality(Rest) = Cardinality(Places(Tail(s), n, K))
  BY <1>2, <1>3, FS_Bijection
<1>5. /\ Head(s) \in K => Places(s, n + 1, K) = Rest \cup {1}
      /\ Head(s) \notin K => Places(s, n + 1, K) = Rest
      /\ 1 \notin Rest
  BY <1>1 DEF Places
<1> HIDE DEF Rest
<1>6. Cardinality(Rest \cup {1}) = Cardinality(Rest) + 1
  BY <1>4, <1>5, FS_AddElement
<1>7. CASE Head(s) \in K
  BY <1>4, <1>5, <1>6, <1>7
<1>8. CASE Head(s) \notin K
  BY <1>2, <1>4, <1>5, <1>8
<1> QED
  BY <1>7, <1>8

=============================================================================
