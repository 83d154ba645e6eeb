--------------------------- MODULE CountingLemmas ---------------------------
(***************************************************************************)
(* Lemmas on counting, used by the proofs about queues: how often a value   *)
(* occurs in a sequence, and what adding to or taking from a finite set     *)
(* does to its cardinality.                                                 *)
(***************************************************************************)
EXTENDS Integers, Sequences, FiniteSets, SequenceTheorems, FiniteSetTheorems, TLAPS

\* The positions of x in s.
Positions(s, x) == {i \in DOMAIN s : s[i] = x}

\* A sequence has finitely many positions of a value.
LEMMA PositionsFinite ==
  ASSUME NEW S, NEW s \in Seq(S), NEW x
  PROVE  /\ IsFiniteSet(Positions(s, x))
         /\ Cardinality(Positions(s, x)) \in Nat
<1>1. Len(s) \in Nat /\ DOMAIN s = 1..Len(s)
  BY LenProperties
<1>2. IsFiniteSet(1..Len(s))
  BY <1>1, FS_Interval
<1>3. Positions(s, x) \in SUBSET (1..Len(s))
  BY <1>1 DEF Positions
<1>4. IsFiniteSet(Positions(s, x))
  BY <1>2, <1>3, FS_Subset
<1> QED
  BY <1>4, FS_CardinalityType

\* The empty sequence has none.
LEMMA PositionsEmpty == ASSUME NEW x PROVE Positions(<<>>, x) = {}
BY DEF Positions

\* Append adds one position of the value appended.
LEMMA CountAppend ==
  ASSUME NEW S, NEW s \in Seq(S), NEW y \in S, NEW x
  PROVE  Cardinality(Positions(Append(s, y), x))
           = Cardinality(Positions(s, x)) + (IF y = x THEN 1 ELSE 0)
<1>1. Len(s) \in Nat /\ DOMAIN s = 1..Len(s)
  BY LenProperties
<1>2. /\ DOMAIN Append(s, y) = 1..(Len(s) + 1)
      /\ Append(s, y)[Len(s) + 1] = y
      /\ \A i \in 1..Len(s) : Append(s, y)[i] = s[i]
  BY <1>1
<1>3. Positions(Append(s, y), x) =
        IF y = x THEN Positions(s, x) \cup {Len(s) + 1} ELSE Positions(s, x)
  BY <1>1, <1>2 DEF Positions
<1>4. Len(s) + 1 \notin Positions(s, x)
  BY <1>1 DEF Positions
<1>5. CASE y = x
  BY <1>3, <1>4, <1>5, PositionsFinite, FS_AddElement
<1>6. CASE y # x
  BY <1>3, <1>6, PositionsFinite
<1> QED
  BY <1>5, <1>6

\* Tail takes away one position of the head.
LEMMA CountTail ==
  ASSUME NEW S, NEW s \in Seq(S), s # <<>>, NEW x
  PROVE  Cardinality(Positions(s, x))
           = Cardinality(Positions(Tail(s), x)) + (IF Head(s) = x THEN 1 ELSE 0)
<1>1. Len(s) \in Nat /\ Len(s) > 0 /\ DOMAIN s = 1..Len(s)
  BY LenProperties, EmptySeq
<1>2. /\ Tail(s) \in Seq(S) /\ Len(Tail(s)) = Len(s) - 1
      /\ DOMAIN Tail(s) = 1..(Len(s) - 1)
      /\ \A i \in 1..(Len(s) - 1) : Tail(s)[i] = s[i + 1]
  BY <1>1, HeadTailProperties, LenProperties
<1> DEFINE later == Positions(s, x) \ {1}
           shift == [i \in Positions(Tail(s), x) |-> i + 1]
<1>3. shift \in [Positions(Tail(s), x) -> later]
  BY <1>1, <1>2 DEF Positions
<1>4. \A i, j \in Positions(Tail(s), x) : shift[i] = shift[j] => i = j
  BY <1>2 DEF Positions
<1>5. ASSUME NEW j \in later PROVE \E i \in Positions(Tail(s), x) : shift[i] = j
  <2>1. j \in 1..Len(s) /\ j # 1 /\ s[j] = x
    BY <1>1 DEF Positions
  <2>2. j - 1 \in 1..(Len(s) - 1)
    BY <1>1, <2>1
  <2>3. j - 1 \in Positions(Tail(s), x)
    BY <1>2, <2>1, <2>2 DEF Positions
  <2> QED
    BY <2>1, <2>2, <2>3
<1>6. shift \in Bijection(Positions(Tail(s), x), later)
  BY <1>3, <1>4, <1>5 DEF Bijection, Injection, Surjection, IsInjective
<1>7. Cardinality(later) = Cardinality(Positions(Tail(s), x))
  <2>1. IsFiniteSet(Positions(Tail(s), x))
    BY <1>2, PositionsFinite
  <2>2. ExistsBijection(Positions(Tail(s), x), later)
    BY <1>6 DEF ExistsBijection
  <2> HIDE DEF later, shift
  <2> QED
    BY <2>1, <2>2, FS_Bijection
<1>8. 1 \in Positions(s, x) <=> Head(s) = x
  BY <1>1 DEF Positions
<1>9. IsFiniteSet(Positions(s, x)) /\ Cardinality(Positions(s, x)) \in Nat
  BY PositionsFinite
<1>10. Cardinality(later) = IF Head(s) = x THEN Cardinality(Positions(s, x)) - 1
                                           ELSE Cardinality(Positions(s, x))
  BY <1>8, <1>9, FS_RemoveElement
<1> HIDE DEF later
<1> QED
  BY <1>7, <1>9, <1>10

\* Two finite disjoint sets together have as many elements as both.
LEMMA CountDisjoint ==
  ASSUME NEW S, NEW T, IsFiniteSet(S), IsFiniteSet(T), S \cap T = {}
  PROVE  /\ IsFiniteSet(S \cup T)
         /\ Cardinality(S \cup T) = Cardinality(S) + Cardinality(T)
<1>1. /\ IsFiniteSet(S \cup T)
      /\ Cardinality(S \cup T) = Cardinality(S) + Cardinality(T) - Cardinality(S \cap T)
  BY FS_Union
<1>2. Cardinality(S \cap T) = 0
  BY FS_EmptySet
<1>3. Cardinality(S) \in Nat /\ Cardinality(T) \in Nat
  BY FS_CardinalityType
<1> QED
  BY <1>1, <1>2, <1>3

\* The positions of a value in s \o t are those in s and those in t.
LEMMA CountConcat ==
  ASSUME NEW S, NEW s \in Seq(S), NEW t \in Seq(S), NEW x
  PROVE  Cardinality(Positions(s \o t, x)) = Cardinality(Positions(s, x)) + Cardinality(Positions(t, x))
<1>1. /\ Len(s) \in Nat /\ DOMAIN s = 1..Len(s)
      /\ Len(t) \in Nat /\ DOMAIN t = 1..Len(t)
  BY LenProperties
<1>2. /\ s \o t \in Seq(S) /\ Len(s \o t) = Len(s) + Len(t)
      /\ \A i \in 1..(Len(s) + Len(t)) : (s \o t)[i] = IF i <= Len(s) THEN s[i] ELSE t[i - Len(s)]
  BY ConcatProperties
<1>3. DOMAIN (s \o t) = 1..(Len(s) + Len(t))
  BY <1>2, LenProperties
<1> DEFINE later == Positions(s \o t, x) \ (1..Len(s))
           shift == [i \in Positions(t, x) |-> i + Len(s)]
<1>4. Positions(s \o t, x) = Positions(s, x) \cup later /\ Positions(s, x) \cap later = {}
  BY <1>1, <1>2, <1>3 DEF Positions
<1>5. ASSUME NEW i \in Positions(t, x) PROVE i + Len(s) \in later
  <2>1. i \in 1..Len(t) /\ t[i] = x
    BY <1>1 DEF Positions
  <2>2. /\ i + Len(s) \in 1..(Len(s) + Len(t)) /\ ~(i + Len(s) <= Len(s))
        /\ (i + Len(s)) - Len(s) = i
    BY <1>1, <2>1
  <2>3. (s \o t)[i + Len(s)] = x
    BY <1>2, <2>1, <2>2
  <2> QED
    BY <1>1, <1>3, <2>2, <2>3 DEF Positions
<1>6. \A i, j \in Positions(t, x) : shift[i] = shift[j] => i = j
  BY <1>1 DEF Positions
<1>7. ASSUME NEW j \in later PROVE \E i \in Positions(t, x) : shift[i] = j
  <2>1. j \in 1..(Len(s) + Len(t)) /\ ~(j <= Len(s)) /\ (s \o t)[j] = x
    BY <1>1, <1>3 DEF Positions
  <2>2. j - Len(s) \in 1..Len(t) /\ (j - Len(s)) + Len(s) = j
    BY <1>1, <2>1
  <2>3. t[j - Len(s)] = x
    BY <1>2, <2>1
  <2>4. j - Len(s) \in Positions(t, x)
    BY <1>1, <2>2, <2>3 DEF Positions
  <2> QED
    BY <2>2, <2>4
<1>8. shift \in Bijection(Positions(t, x), later)
  BY <1>5, <1>6, <1>7 DEF Bijection, Injection, Surjection, IsInjective
<1>9. ExistsBijection(Positions(t, x), later)
  BY <1>8 DEF ExistsBijection
<1>10. IsFiniteSet(Positions(s, x)) /\ IsFiniteSet(Positions(t, x))
  BY PositionsFinite
<1> HIDE DEF later, shift
<1>11. IsFiniteSet(later) /\ Cardinality(later) = Cardinality(Positions(t, x))
  BY <1>9, <1>10, FS_Bijection
<1> QED
  BY <1>4, <1>10, <1>11, CountDisjoint

=============================================================================
