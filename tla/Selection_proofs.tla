-------------------------- MODULE Selection_proofs --------------------------
(***************************************************************************)
(* Lemmas about selections: a selection is made of the places selected,    *)
(* each once, and selections of places that follow one another are         *)
(* concatenated.  Sequences offer no induction here, so both count places. *)
(***************************************************************************)
EXTENDS Selection, Sequences, FiniteSetTheorems, TLAPS

Position(places, i) == Cardinality({j \in places : j <= i})

\* The n-th place is the one of position n: positions are different and at most the
\* number of places, so every number up to it is one.
LEMMA PositionsAreNumbers ==
    ASSUME NEW m \in Nat, NEW places \in SUBSET (1 .. m)
    PROVE  /\ Cardinality(places) \in 0 .. m
           /\ \A i \in places : Position(places, i) \in 1 .. Cardinality(places)
           /\ \A i, j \in places : Position(places, i) = Position(places, j) => i = j
           /\ \A n \in 1 .. Cardinality(places) : \E i \in places : Position(places, i) = n
<1> DEFINE below(i) == {j \in places : j <= i}
           N == Cardinality(places)
<1>1. IsFiniteSet(1 .. m) /\ Cardinality(1 .. m) = m
  <2>1. Cardinality(1 .. m) = IF 1 > m THEN 0 ELSE m - 1 + 1
    BY FS_Interval
  <2> QED BY <2>1, FS_Interval
<1>2. IsFiniteSet(places) /\ N \in Nat /\ N <= m
  BY <1>1, FS_Subset, FS_CardinalityType
<1>3. \A i \in places : /\ IsFiniteSet(below(i)) /\ Cardinality(below(i)) \in Nat
                        /\ Cardinality(below(i)) <= N /\ i \in below(i)
                        /\ Cardinality(below(i)) # 0
  <2> TAKE i \in places
  <2>1. below(i) \in SUBSET places /\ i \in below(i)
    OBVIOUS
  <2>2. IsFiniteSet(below(i)) /\ Cardinality(below(i)) \in Nat /\ Cardinality(below(i)) <= N
    BY <1>2, <2>1, FS_Subset, FS_CardinalityType
  <2> HIDE DEF below
  <2> QED BY <2>1, <2>2, FS_EmptySet
<1>4. \A i \in places : Position(places, i) \in 1 .. N
  BY <1>2, <1>3 DEF Position
<1>5. ASSUME NEW i \in places, NEW j \in places, Position(places, i) = Position(places, j), i < j
      PROVE  FALSE
  <2>1. below(i) \in SUBSET below(j) /\ j \in below(j) /\ j \notin below(i)
    <3>1. i \in Nat /\ j \in Nat /\ \A k \in places : k \in Nat
      OBVIOUS
    <3>2. ~(j <= i) /\ j <= j /\ \A k \in places : k <= i => k <= j
      BY <1>5, <3>1
    <3> QED BY <3>2
  <2>2. IsFiniteSet(below(j)) /\ Cardinality(below(i)) = Cardinality(below(j))
    BY <1>3, <1>5 DEF Position
  <2> HIDE DEF below
  <2>3. below(i) = below(j)
    BY <2>1, <2>2, FS_Subset
  <2> QED BY <2>1, <2>3
<1>6. \A i, j \in places : Position(places, i) = Position(places, j) => i = j
  <2>1. \A i, j \in places : i < j \/ j < i \/ i = j
    OBVIOUS
  <2> QED BY <1>5, <2>1
<1>7. \A n \in 1 .. N : \E i \in places : Position(places, i) = n
  <2> DEFINE f == [i \in places |-> Position(places, i)]
  <2> HIDE DEF N
  <2>1. f \in Injection(places, 1 .. N)
    <3>1. f \in [places -> 1 .. N] /\ \A i, j \in places : f[i] = f[j] => i = j
      BY <1>4, <1>6
    <3> HIDE DEF f
    <3> QED BY <3>1 DEF Injection, IsInjective
  <2>2. IsFiniteSet(1 .. N) /\ Cardinality(1 .. N) = N
    <3>1. 1 \in Int /\ N \in Int
      BY <1>2
    <3>2. /\ IsFiniteSet(1 .. N)
          /\ Cardinality(1 .. N) = IF 1 > N THEN 0 ELSE N - 1 + 1
      BY <3>1, FS_Interval
    <3> QED BY <1>2, <3>2
  <2> HIDE DEF f
  <2>3. f \in Surjection(places, 1 .. N)
    <3>1. Cardinality(places) = Cardinality(1 .. N)
      BY <2>2 DEF N
    <3> QED BY <2>1, <2>2, <3>1, FS_Injection
  <2>4. \A n \in 1 .. N : \E i \in places : f[i] = n
    BY <2>3 DEF Surjection
  <2> QED BY <2>4 DEF f
<1> QED BY <1>2, <1>4, <1>6, <1>7

\* A selection is made of the elements selected, each once.
LEMMA SelectedFacts ==
    ASSUME NEW S, NEW elements \in Seq(S), NEW places \in SUBSET DOMAIN elements
    PROVE  LET kept == Selected(elements, places) IN
           /\ kept \in Seq(S) /\ Len(kept) <= Len(elements)
           /\ \A i \in places : \E n \in DOMAIN kept : kept[n] = elements[i]
           /\ \E f \in [DOMAIN kept -> places] :
                  /\ \A n \in DOMAIN kept : kept[n] = elements[f[n]]
                  /\ \A n, o \in DOMAIN kept : f[n] = f[o] => n = o
<1> DEFINE m == Len(elements)  N == Cardinality(places)
           f == [n \in 1 .. N |-> CHOOSE i \in places : Position(places, i) = n]
           kept == Selected(elements, places)
<1>1. m \in Nat /\ DOMAIN elements = 1 .. m /\ places \in SUBSET (1 .. m)
  OBVIOUS
<1>2. /\ N \in Nat /\ N <= m
      /\ \A i \in places : Position(places, i) \in 1 .. N
      /\ \A i, j \in places : Position(places, i) = Position(places, j) => i = j
      /\ \A n \in 1 .. N : \E i \in places : Position(places, i) = n
  BY <1>1, PositionsAreNumbers
<1>3. \A n \in 1 .. N : f[n] \in places /\ Position(places, f[n]) = n
  BY <1>2
<1>4. kept = [n \in 1 .. N |-> elements[f[n]]]
  BY DEF Selected, Position
<1> HIDE DEF m, N, f, kept
<1>5. f \in [1 .. N -> places]
  BY <1>3 DEF f
<1>6. kept \in Seq(S) /\ Len(kept) = N /\ DOMAIN kept = 1 .. N
  <2>1. \A n \in 1 .. N : elements[f[n]] \in S
    BY <1>1, <1>3
  <2> QED BY <1>2, <1>4, <2>1
<1>7. \A i \in places : \E n \in DOMAIN kept : kept[n] = elements[i]
  <2> TAKE i \in places
  <2>1. Position(places, i) \in DOMAIN kept
    BY <1>2, <1>6
  <2>2. f[Position(places, i)] = i
    BY <1>2, <1>3
  <2> QED BY <1>4, <1>6, <2>1, <2>2
<1>8. \A n, o \in DOMAIN kept : f[n] = f[o] => n = o
  BY <1>3, <1>6
<1>9. f \in [DOMAIN kept -> places] /\ \A n \in DOMAIN kept : kept[n] = elements[f[n]]
  BY <1>4, <1>5, <1>6
<1>10. Len(kept) <= Len(elements)
  BY <1>2, <1>6 DEF m
<1>11. \E g \in [DOMAIN kept -> places] :
           /\ \A n \in DOMAIN kept : kept[n] = elements[g[n]]
           /\ \A n, o \in DOMAIN kept : g[n] = g[o] => n = o
  BY <1>8, <1>9
<1> QED BY <1>6, <1>7, <1>10, <1>11 DEF kept


\* A selection looks at the places selected only.
LEMMA SelectedSame ==
    ASSUME NEW m \in Nat, NEW places \in SUBSET (1 .. m), NEW elements, NEW others,
           \A i \in places : others[i] = elements[i]
    PROVE  Selected(others, places) = Selected(elements, places)
<1> DEFINE N == Cardinality(places)
           place(n) == CHOOSE i \in places : Position(places, i) = n
<1>1. \A n \in 1 .. N : place(n) \in places
  BY PositionsAreNumbers
<1>2. /\ Selected(elements, places) = [n \in 1 .. N |-> elements[place(n)]]
      /\ Selected(others, places) = [n \in 1 .. N |-> others[place(n)]]
  BY DEF Selected, Position
<1> HIDE DEF place
<1> QED BY <1>1, <1>2

LEMMA Concatenated ==
    ASSUME NEW S, NEW left \in Seq(S), NEW right \in Seq(S)
    PROVE  left \o right = [n \in 1 .. Len(left) + Len(right) |->
                                IF n <= Len(left) THEN left[n] ELSE right[n - Len(left)]]
<1> DEFINE both == left \o right  N == Len(left) + Len(right)
<1>1. Len(left) \in Nat /\ Len(right) \in Nat
  OBVIOUS
<1>2. both \in Seq(S) /\ Len(both) = N
  OBVIOUS
<1>3. both = [n \in 1 .. N |-> both[n]]
  <2> HIDE DEF both
  <2> QED BY <1>1, <1>2
<1>4. \A n \in 1 .. N : both[n] = IF n <= Len(left) THEN left[n] ELSE right[n - Len(left)]
  BY <1>1
<1> HIDE DEF both
<1> QED BY <1>3, <1>4 DEF both

\* Selections of places that follow one another are concatenated.
LEMMA SelectedUnion ==
    ASSUME NEW S, NEW elements \in Seq(S),
           NEW A \in SUBSET DOMAIN elements, NEW B \in SUBSET DOMAIN elements,
           \A i \in A, j \in B : i < j
    PROVE  Selected(elements, A \cup B) = Selected(elements, A) \o Selected(elements, B)
<1> DEFINE m == Len(elements)  both == A \cup B  a == Cardinality(A)  b == Cardinality(B)
           place(places, n) == CHOOSE i \in places : Position(places, i) = n
<1>1. m \in Nat /\ A \in SUBSET (1 .. m) /\ B \in SUBSET (1 .. m) /\ both \in SUBSET (1 .. m)
  OBVIOUS
<1>2. /\ a \in Nat /\ b \in Nat /\ IsFiniteSet(A) /\ IsFiniteSet(B)
  <2>1. IsFiniteSet(1 .. m)
    BY <1>1, FS_Interval
  <2> QED BY <1>1, <2>1, PositionsAreNumbers, FS_Subset, FS_CardinalityType
<1>3. A \cap B = {}
  <2>1. \A i \in A : ~(i < i)
    BY <1>1
  <2> QED BY <2>1
<1>4. Cardinality(both) = a + b
  <2>1. Cardinality(A \cap B) = 0
    BY <1>3, FS_EmptySet
  <2>2. Cardinality(both) = a + b - Cardinality(A \cap B)
    BY <1>2, FS_Union
  <2> QED BY <1>2, <2>1, <2>2
<1>5. ASSUME NEW i \in A PROVE Position(both, i) = Position(A, i)
  <2>1. \A j \in B : ~(j <= i)
    BY <1>1
  <2>2. {j \in both : j <= i} = {j \in A : j <= i}
    BY <2>1
  <2> QED BY <2>2 DEF Position
<1>6. ASSUME NEW i \in B PROVE Position(both, i) = a + Position(B, i)
  <2> DEFINE upTo == {j \in B : j <= i}
  <2>1. \A j \in A : j <= i
    BY <1>1
  <2>2. {j \in both : j <= i} = A \cup upTo
    BY <2>1
  <2>3. IsFiniteSet(upTo) /\ A \cap upTo = {}
    <3>1. upTo \in SUBSET B
      OBVIOUS
    <3> HIDE DEF upTo
    <3> QED BY <1>2, <1>3, <3>1, FS_Subset
  <2>4. Cardinality(upTo) \in Nat /\ Cardinality(A \cap upTo) = 0
    BY <2>3, FS_CardinalityType, FS_EmptySet
  <2>5. Cardinality(A \cup upTo) = a + Cardinality(upTo)
    <3> HIDE DEF upTo
    <3>1. Cardinality(A \cup upTo) = a + Cardinality(upTo) - Cardinality(A \cap upTo)
      BY <1>2, <2>3, FS_Union
    <3> QED BY <1>2, <2>4, <3>1
  <2> QED BY <2>2, <2>5 DEF Position
<1>7. /\ \A n \in 1 .. a : place(A, n) \in A /\ Position(A, place(A, n)) = n
      /\ \A n \in 1 .. b : place(B, n) \in B /\ Position(B, place(B, n)) = n
      /\ \A i, j \in both : Position(both, i) = Position(both, j) => i = j
      /\ \A n \in 1 .. a + b : place(both, n) \in both /\ Position(both, place(both, n)) = n
  <2>1. \A n \in 1 .. a : \E i \in A : Position(A, i) = n
    BY <1>1, PositionsAreNumbers
  <2>2. \A n \in 1 .. b : \E i \in B : Position(B, i) = n
    BY <1>1, PositionsAreNumbers
  <2>3. /\ \A i, j \in both : Position(both, i) = Position(both, j) => i = j
        /\ \A n \in 1 .. a + b : \E i \in both : Position(both, i) = n
    BY <1>1, <1>4, PositionsAreNumbers
  <2> QED BY <2>1, <2>2, <2>3
<1>8. /\ Selected(elements, A) = [n \in 1 .. a |-> elements[place(A, n)]]
      /\ Selected(elements, B) = [n \in 1 .. b |-> elements[place(B, n)]]
      /\ Selected(elements, both) = [n \in 1 .. a + b |-> elements[place(both, n)]]
  <2>1. Selected(elements, both) = [n \in 1 .. Cardinality(both) |-> elements[place(both, n)]]
    BY DEF Selected, Position
  <2> QED BY <1>4, <2>1 DEF Selected, Position
<1> HIDE DEF m, a, b, both, place
<1>9. \A n \in 1 .. a : place(both, n) = place(A, n)
  <2> TAKE n \in 1 .. a
  <2>1. n \in 1 .. a + b
    BY <1>2
  <2>2. Position(both, place(both, n)) = Position(both, place(A, n))
    BY <1>5, <1>7, <2>1
  <2> QED BY <1>7, <2>1, <2>2 DEF both
<1>10. \A n \in a + 1 .. a + b : place(both, n) = place(B, n - a)
  <2> TAKE n \in a + 1 .. a + b
  <2>1. n \in 1 .. a + b /\ n - a \in 1 .. b /\ a + (n - a) = n
    BY <1>2
  <2>2. Position(both, place(both, n)) = Position(both, place(B, n - a))
    BY <1>6, <1>7, <2>1
  <2> QED BY <1>7, <2>1, <2>2 DEF both
<1>11. Selected(elements, A) \in Seq(S) /\ Selected(elements, B) \in Seq(S)
       /\ Len(Selected(elements, A)) = a /\ Len(Selected(elements, B)) = b
  <2>1. \A n \in 1 .. a : elements[place(A, n)] \in S
    BY <1>7
  <2>2. \A n \in 1 .. b : elements[place(B, n)] \in S
    BY <1>7
  <2> QED BY <1>2, <1>8, <2>1, <2>2
<1> DEFINE left == Selected(elements, A)  right == Selected(elements, B)
<1>12. left \o right = [n \in 1 .. a + b |-> IF n <= a THEN left[n] ELSE right[n - a]]
  <2>1. left \in Seq(S) /\ right \in Seq(S) /\ Len(left) = a /\ Len(right) = b
    BY <1>11
  <2> HIDE DEF left, right
  <2>2. left \o right = [n \in 1 .. Len(left) + Len(right) |->
                             IF n <= Len(left) THEN left[n] ELSE right[n - Len(left)]]
    BY <2>1, Concatenated
  <2>3. Len(left) + Len(right) = a + b
    BY <2>1
  <2> QED BY <2>1, <2>2, <2>3
<1>13. \A n \in 1 .. a + b :
           elements[place(both, n)] = IF n <= a THEN left[n] ELSE right[n - a]
  <2> TAKE n \in 1 .. a + b
  <2>1. CASE n <= a
    <3>1. n \in 1 .. a
      BY <1>2, <2>1
    <3>2. left[n] = elements[place(A, n)]
      BY <1>8, <3>1
    <3> QED BY <1>9, <2>1, <3>1, <3>2
  <2>2. CASE ~(n <= a)
    <3>1. n \in a + 1 .. a + b /\ n - a \in 1 .. b
      BY <1>2, <2>2
    <3>2. right[n - a] = elements[place(B, n - a)]
      BY <1>8, <3>1
    <3> QED BY <1>10, <2>2, <3>1, <3>2
  <2> QED BY <2>1, <2>2
<1> QED BY <1>8, <1>12, <1>13 DEF both
=============================================================================
