------------------------- MODULE SignalManagerProofs -------------------------
(***************************************************************************)
(* The table of connections keeps its types and its count, for any number  *)
(* of threads, objects, signals and connections: no node or group is lost  *)
(* or freed twice, and blocking_count does not drift.                      *)
(*                                                                         *)
(* The argument is by counting: the nodes in the lists and those in the    *)
(* pool are MaxNodes together, and what an operation takes out of a list   *)
(* is what it subtracts from the count and gives back to the pool.         *)
(***************************************************************************)
EXTENDS SignalManager, FiniteSetTheorems, SequenceTheorems, TLAPS

-------------------------------------------------------------------------------
(* Counting *)

LEMMA SameSize ==
  ASSUME NEW S, NEW T, IsFiniteSet(S), NEW f \in [S -> T],
         \A x, y \in S : f[x] = f[y] => x = y,
         \A y \in T : \E x \in S : f[x] = y
  PROVE  IsFiniteSet(T) /\ Cardinality(T) = Cardinality(S)
<1>1. f \in Bijection(S, T)
  BY DEF Bijection, Injection, Surjection, IsInjective
<1>2. ExistsBijection(S, T)
  BY <1>1 DEF ExistsBijection
<1> QED
  BY <1>2, FS_Bijection

LEMMA SizeOfParts ==
  ASSUME NEW S, NEW T, IsFiniteSet(S), IsFiniteSet(T), S \cap T = {}
  PROVE  /\ IsFiniteSet(S \cup T)
         /\ Cardinality(S \cup T) = Cardinality(S) + Cardinality(T)
<1>1. Cardinality(S) \in Nat /\ Cardinality(T) \in Nat
  BY FS_CardinalityType
<1>2. Cardinality(S \cap T) = 0
  BY FS_EmptySet
<1>3. /\ IsFiniteSet(S \cup T)
      /\ Cardinality(S \cup T) = Cardinality(S) + Cardinality(T) - Cardinality(S \cap T)
  BY FS_Union
<1> QED
  BY <1>1, <1>2, <1>3

LEMMA PlacesAreFinite ==
  ASSUME NEW S, NEW q \in Seq(S), NEW I, I \subseteq 1 .. Len(q)
  PROVE  IsFiniteSet(I) /\ Cardinality(I) \in 0 .. Len(q)
<1>1. Len(q) \in Nat
  BY LenProperties
<1>2. IsFiniteSet(1 .. Len(q)) /\ Cardinality(1 .. Len(q)) = Len(q)
  <2>1. /\ IsFiniteSet(1 .. Len(q))
        /\ Cardinality(1 .. Len(q)) = IF 1 > Len(q) THEN 0 ELSE Len(q) - 1 + 1
    BY <1>1, FS_Interval
  <2> QED
    BY <1>1, <2>1
<1>3. IsFiniteSet(I) /\ Cardinality(I) <= Len(q)
  BY <1>2, FS_Subset
<1> QED
  BY <1>3, FS_CardinalityType

\* The places of q with a blocking node.
BlockingPlaces(q) == {i \in 1 .. Len(q) : Blocks(q[i])}

LEMMA BlockingNodesIsNat ==
  ASSUME NEW S, NEW q \in Seq(S)
  PROVE  /\ BlockingNodes(q) = Cardinality(BlockingPlaces(q))
         /\ IsFiniteSet(BlockingPlaces(q)) /\ BlockingNodes(q) \in Nat
<1>1. BlockingPlaces(q) \subseteq 1 .. Len(q)
  BY DEF BlockingPlaces
<1>2. IsFiniteSet(BlockingPlaces(q)) /\ Cardinality(BlockingPlaces(q)) \in Nat
  BY <1>1, PlacesAreFinite
<1> QED
  BY <1>2 DEF BlockingNodes, BlockingPlaces

LEMMA BlockingOfNothing == BlockingNodes(<<>>) = 0
<1>1. {i \in 1 .. Len(<<>>) : Blocks(<<>>[i])} = {}
  BY EmptySeq
<1> QED
  BY <1>1, FS_EmptySet DEF BlockingNodes

\* The places of q with an element of E.
PlacesIn(q, E) == {i \in 1 .. Len(q) : q[i] \in E}

\* The first element counts for itself.
LEMMA PlacesInTail ==
  ASSUME NEW S, NEW q \in Seq(S), NEW E, q # <<>>
  PROVE  /\ Cardinality(PlacesIn(Tail(q), E)) \in Nat
         /\ Cardinality(PlacesIn(q, E))
              = (IF Head(q) \in E THEN 1 ELSE 0) + Cardinality(PlacesIn(Tail(q), E))
<1> DEFINE A == PlacesIn(Tail(q), E)
           B == PlacesIn(q, E) \ {1}
           f == [i \in A |-> i + 1]
<1>1. /\ Tail(q) \in Seq(S) /\ Len(Tail(q)) = Len(q) - 1 /\ Len(q) \in Nat /\ Len(q) >= 1
      /\ \A i \in 1 .. Len(Tail(q)) : Tail(q)[i] = q[i + 1]
      /\ Head(q) = q[1]
  BY HeadTailProperties, LenProperties, EmptySeq
<1>2. /\ IsFiniteSet(A) /\ Cardinality(A) \in Nat
      /\ IsFiniteSet(PlacesIn(q, E)) /\ Cardinality(PlacesIn(q, E)) \in Nat
  <2>1. A \subseteq 1 .. Len(Tail(q)) /\ PlacesIn(q, E) \subseteq 1 .. Len(q)
    BY DEF PlacesIn
  <2>2. IsFiniteSet(A) /\ Cardinality(A) \in 0 .. Len(Tail(q))
    <3> HIDE DEF A
    <3> QED
      BY <1>1, <2>1, PlacesAreFinite
  <2>3. IsFiniteSet(PlacesIn(q, E)) /\ Cardinality(PlacesIn(q, E)) \in 0 .. Len(q)
    BY <2>1, PlacesAreFinite
  <2> QED
    BY <2>2, <2>3
<1>3. f \in [A -> B]
  BY <1>1 DEF PlacesIn
<1>4. \A x, y \in A : f[x] = f[y] => x = y
  BY <1>1 DEF PlacesIn
<1>5. \A y \in B : \E x \in A : f[x] = y
  <2> SUFFICES ASSUME NEW y \in B PROVE \E x \in A : f[x] = y
    OBVIOUS
  <2>1. y \in 2 .. Len(q) /\ q[y] \in E
    BY <1>1 DEF PlacesIn
  <2>2. y - 1 \in 1 .. Len(Tail(q)) /\ (y - 1) + 1 = y
    BY <1>1, <2>1
  <2>3. y - 1 \in A
    BY <1>1, <2>1, <2>2 DEF PlacesIn
  <2> QED
    BY <2>2, <2>3
<1>6. Cardinality(B) = Cardinality(A)
  <2> HIDE DEF f, A, B
  <2> QED
    BY <1>2, <1>3, <1>4, <1>5, SameSize
<1>7. Cardinality(B) = IF 1 \in PlacesIn(q, E) THEN Cardinality(PlacesIn(q, E)) - 1
                       ELSE Cardinality(PlacesIn(q, E))
  BY <1>2, FS_RemoveElement
<1>8. 1 \in PlacesIn(q, E) <=> Head(q) \in E
  BY <1>1 DEF PlacesIn
<1> QED
  BY <1>2, <1>6, <1>7, <1>8

LEMMA BlockingOfTail ==
  ASSUME NEW S, NEW q \in Seq(S), q # <<>>
  PROVE  BlockingNodes(q) = Counted(Head(q)) + BlockingNodes(Tail(q))
<1> DEFINE E == {n \in S : Blocks(n)}
<1>1. Head(q) \in S /\ Tail(q) \in Seq(S)
  BY HeadTailProperties
<1>2. ASSUME NEW s \in Seq(S) PROVE BlockingNodes(s) = Cardinality(PlacesIn(s, E))
  <2>1. \A i \in 1 .. Len(s) : s[i] \in E <=> Blocks(s[i])
    BY ElementOfSeq
  <2>2. PlacesIn(s, E) = {i \in 1 .. Len(s) : Blocks(s[i])}
    BY <2>1 DEF PlacesIn
  <2> QED
    BY <2>2 DEF BlockingNodes
<1>3. (IF Head(q) \in E THEN 1 ELSE 0) = Counted(Head(q))
  BY <1>1 DEF Counted
<1>4. Cardinality(PlacesIn(q, E))
        = (IF Head(q) \in E THEN 1 ELSE 0) + Cardinality(PlacesIn(Tail(q), E))
  <2> HIDE DEF E
  <2> QED
    BY PlacesInTail
<1> QED
  BY <1>1, <1>2, <1>3, <1>4

LEMMA BlockingOfLonger ==
  ASSUME NEW S, NEW q \in Seq(S), NEW n \in S
  PROVE  /\ <<n>> \o q \in Seq(S) /\ Len(<<n>> \o q) = Len(q) + 1
         /\ BlockingNodes(<<n>> \o q) = BlockingNodes(q) + Counted(n)
<1>1. <<n>> \in Seq(S) /\ Len(<<n>>) = 1 /\ <<n>>[1] = n
  OBVIOUS
<1>2. /\ <<n>> \o q \in Seq(S) /\ Len(<<n>> \o q) = 1 + Len(q) /\ Len(q) \in Nat
      /\ \A i \in 1 .. 1 + Len(q) : (<<n>> \o q)[i] = IF i <= 1 THEN <<n>>[i] ELSE q[i - 1]
  BY <1>1, ConcatProperties, LenProperties
<1> DEFINE l == <<n>> \o q
<1>3. l # <<>> /\ Head(l) = n
  BY <1>1, <1>2, EmptySeq
<1>4. Tail(l) = q
  <2>1. /\ Tail(l) \in Seq(S) /\ Len(Tail(l)) = Len(l) - 1
        /\ \A i \in 1 .. Len(Tail(l)) : Tail(l)[i] = l[i + 1]
    BY <1>2, <1>3, HeadTailProperties
  <2>2. Len(Tail(l)) = Len(q)
    BY <1>2, <2>1
  <2>3. \A i \in 1 .. Len(q) : Tail(l)[i] = q[i]
    <3> SUFFICES ASSUME NEW i \in 1 .. Len(q) PROVE Tail(l)[i] = q[i]
      OBVIOUS
    <3>1. i + 1 \in 1 .. 1 + Len(q) /\ ~ (i + 1 <= 1) /\ (i + 1) - 1 = i
      BY <1>2
    <3>2. l[i + 1] = q[i]
      BY <1>2, <3>1
    <3> QED
      BY <2>1, <2>2, <3>2
  <2> QED
    BY <2>1, <2>2, <2>3, SeqEqual
<1>5. BlockingNodes(l) = Counted(Head(l)) + BlockingNodes(Tail(l))
  BY <1>2, <1>3, BlockingOfTail
<1>6. BlockingNodes(q) \in Nat /\ Counted(n) \in Nat
  BY BlockingNodesIsNat DEF Counted
<1>7. l \in Seq(S) /\ Len(l) = Len(q) + 1
  BY <1>2
<1>8. BlockingNodes(l) = BlockingNodes(q) + Counted(n)
  <2>1. BlockingNodes(l) = Counted(n) + BlockingNodes(q)
    BY <1>3, <1>4, <1>5
  <2> QED
    BY <1>6, <2>1
<1> QED
  BY <1>7, <1>8

-------------------------------------------------------------------------------
(* What is left of a list *)

\* In a finite set of numbers every number has its rank, and every rank is taken.
LEMMA RanksAreTaken ==
  ASSUME NEW n \in Nat, NEW K, K \subseteq 1 .. n
  PROVE  /\ IsFiniteSet(K) /\ Cardinality(K) \in Nat
         /\ \A i \in K : Cardinality({j \in K : j <= i}) \in 1 .. Cardinality(K)
         /\ \A i, j \in K : Cardinality({k \in K : k <= i}) = Cardinality({k \in K : k <= j})
                              => i = j
         /\ \A m \in 1 .. Cardinality(K) : \E i \in K : Cardinality({j \in K : j <= i}) = m
<1> DEFINE Below(i) == {j \in K : j <= i}
           c == [i \in K |-> Cardinality(Below(i))]
<1>1. IsFiniteSet(K) /\ Cardinality(K) \in Nat
  <2>1. IsFiniteSet(1 .. n)
    BY FS_Interval
  <2>2. IsFiniteSet(K)
    BY <2>1, FS_Subset
  <2> QED
    BY <2>2, FS_CardinalityType
<1>2. \A i \in K : IsFiniteSet(Below(i)) /\ Cardinality(Below(i)) \in 1 .. Cardinality(K)
  <2> SUFFICES ASSUME NEW i \in K
               PROVE  IsFiniteSet(Below(i)) /\ Cardinality(Below(i)) \in 1 .. Cardinality(K)
    OBVIOUS
  <2>1. Below(i) \subseteq K /\ i \in Below(i)
    OBVIOUS
  <2>2. IsFiniteSet(Below(i)) /\ Cardinality(Below(i)) <= Cardinality(K)
    BY <1>1, <2>1, FS_Subset
  <2>3. Cardinality(Below(i)) # 0 /\ Cardinality(Below(i)) \in Nat
    BY <2>1, <2>2, FS_EmptySet, FS_CardinalityType
  <2> QED
    BY <1>1, <2>2, <2>3
<1>3. \A i, j \in K : i < j => Cardinality(Below(i)) < Cardinality(Below(j))
  <2> SUFFICES ASSUME NEW i \in K, NEW j \in K, i < j
               PROVE  Cardinality(Below(i)) < Cardinality(Below(j))
    OBVIOUS
  <2>1. Below(i) \subseteq Below(j) /\ j \in Below(j) /\ j \notin Below(i)
    <3>1. i \in Nat /\ j \in Nat /\ \A k \in K : k \in Nat
      OBVIOUS
    <3>2. j <= j /\ ~ (j <= i) /\ \A k \in K : k <= i => k <= j
      BY <3>1
    <3> QED
      BY <3>2
  <2>2. /\ Cardinality(Below(i)) <= Cardinality(Below(j))
        /\ Cardinality(Below(j)) = Cardinality(Below(i)) => Below(j) = Below(i)
    BY <1>2, <2>1, FS_Subset
  <2>3. Cardinality(Below(i)) \in Nat /\ Cardinality(Below(j)) \in Nat
    BY <1>1, <1>2
  <2> HIDE DEF Below
  <2> QED
    BY <2>1, <2>2, <2>3
<1>4. \A i, j \in K : c[i] = c[j] => i = j
  <2> SUFFICES ASSUME NEW i \in K, NEW j \in K, c[i] = c[j] PROVE i = j
    OBVIOUS
  <2>1. i \in Nat /\ j \in Nat
    OBVIOUS
  <2>2. Cardinality(Below(i)) = Cardinality(Below(j)) /\ Cardinality(Below(i)) \in Nat
    BY <1>1, <1>2
  <2> HIDE DEF Below
  <2> QED
    BY <1>3, <2>1, <2>2
<1>5. c \in [K -> 1 .. Cardinality(K)]
  <2> HIDE DEF Below
  <2> QED
    BY <1>2
<1>6. c \in Injection(K, 1 .. Cardinality(K))
  <2> HIDE DEF c
  <2> QED
    BY <1>4, <1>5 DEF Injection, IsInjective
<1>7. IsFiniteSet(1 .. Cardinality(K)) /\ Cardinality(1 .. Cardinality(K)) = Cardinality(K)
  <2>1. /\ IsFiniteSet(1 .. Cardinality(K))
        /\ Cardinality(1 .. Cardinality(K))
             = IF 1 > Cardinality(K) THEN 0 ELSE Cardinality(K) - 1 + 1
    BY <1>1, FS_Interval
  <2> QED
    BY <1>1, <2>1
<1>8. c \in Surjection(K, 1 .. Cardinality(K))
  <2> HIDE DEF c
  <2> QED
    BY <1>6, <1>7, FS_Injection
<1>9. \A m \in 1 .. Cardinality(K) : \E i \in K : c[i] = m
  <2> HIDE DEF c
  <2> QED
    BY <1>8 DEF Surjection
<1> QED
  BY <1>1, <1>2, <1>4, <1>9

LEMMA WithoutFacts ==
  ASSUME NEW S, NEW q \in Seq(S), NEW I, I \subseteq 1 .. Len(q)
  PROVE  /\ Without(q, I) \in Seq(S)
         /\ Cardinality(I) \in 0 .. Len(q) /\ Len(Without(q, I)) = Len(q) - Cardinality(I)
         /\ IsFiniteSet({i \in I : Blocks(q[i])})
         /\ Cardinality({i \in I : Blocks(q[i])}) \in Nat
         /\ BlockingNodes(Without(q, I)) + Cardinality({i \in I : Blocks(q[i])})
              = BlockingNodes(q)
<1> DEFINE kept == (1 .. Len(q)) \ I
           m == Cardinality(kept)
           Rank(i) == Cardinality({j \in kept : j <= i})
           Nth(k) == CHOOSE i \in kept : Rank(i) = k
           w == Without(q, I)
           A == {i \in kept : Blocks(q[i])}
           B == {i \in I : Blocks(q[i])}
           f == [k \in BlockingPlaces(w) |-> Nth(k)]
<1>1. Len(q) \in Nat /\ kept \subseteq 1 .. Len(q) /\ kept \cap I = {} /\ kept \cup I = 1 .. Len(q)
  BY LenProperties
<1>2. /\ IsFiniteSet(kept) /\ m \in Nat
      /\ \A i \in kept : Rank(i) \in 1 .. m
      /\ \A i, j \in kept : Rank(i) = Rank(j) => i = j
      /\ \A k \in 1 .. m : \E i \in kept : Rank(i) = k
  <2> HIDE DEF kept
  <2> QED
    BY <1>1, RanksAreTaken
<1>3. \A k \in 1 .. m : Nth(k) \in kept /\ Rank(Nth(k)) = k
  <2> HIDE DEF kept, Rank, m
  <2> QED
    BY <1>2
<1>4. w = [k \in 1 .. m |-> q[Nth(k)]]
  BY DEF Without
<1>5. w \in Seq(S) /\ Len(w) = m
  <2>1. \A k \in 1 .. m : q[Nth(k)] \in S
    <3> SUFFICES ASSUME NEW k \in 1 .. m PROVE q[Nth(k)] \in S
      OBVIOUS
    <3>1. Nth(k) \in 1 .. Len(q)
      BY <1>1, <1>3
    <3> HIDE DEF Nth
    <3> QED
      BY <3>1, ElementOfSeq
  <2>2. w \in [1 .. m -> S]
    <3> HIDE DEF Nth, w, m
    <3> QED
      BY <1>4, <2>1
  <2> HIDE DEF w, m
  <2> QED
    BY <1>2, <2>2
<1>6. m + Cardinality(I) = Len(q) /\ Cardinality(I) \in 0 .. Len(q) /\ IsFiniteSet(I)
  <2>1. IsFiniteSet(I) /\ Cardinality(I) \in 0 .. Len(q)
    BY PlacesAreFinite
  <2>2. Cardinality(kept \cup I) = m + Cardinality(I)
    <3> HIDE DEF kept
    <3> QED
      BY <1>1, <1>2, <2>1, SizeOfParts
  <2>3. Cardinality(1 .. Len(q)) = IF 1 > Len(q) THEN 0 ELSE Len(q) - 1 + 1
    BY <1>1, FS_Interval
  <2>4. Cardinality(kept \cup I) = Len(q)
    <3>1. Cardinality(1 .. Len(q)) = Len(q)
      BY <1>1, <2>3
    <3> HIDE DEF kept
    <3> QED
      BY <1>1, <3>1
  <2> HIDE DEF kept
  <2> QED
    BY <2>1, <2>2, <2>4
<1>7. IsFiniteSet(A) /\ IsFiniteSet(B) /\ Cardinality(A) \in Nat /\ Cardinality(B) \in Nat
  <2>1. A \subseteq 1 .. Len(q) /\ B \subseteq 1 .. Len(q)
    BY <1>1
  <2> HIDE DEF A, B
  <2>2. IsFiniteSet(A) /\ Cardinality(A) \in 0 .. Len(q)
    BY <2>1, PlacesAreFinite
  <2>3. IsFiniteSet(B) /\ Cardinality(B) \in 0 .. Len(q)
    BY <2>1, PlacesAreFinite
  <2> QED
    BY <2>2, <2>3
<1>8. BlockingNodes(q) = Cardinality(A) + Cardinality(B)
  <2>1. A \cup B = BlockingPlaces(q) /\ A \cap B = {}
    BY <1>1 DEF BlockingPlaces
  <2>2. Cardinality(A \cup B) = Cardinality(A) + Cardinality(B)
    <3> HIDE DEF A, B
    <3> QED
      BY <1>7, <2>1, SizeOfParts
  <2>3. BlockingNodes(q) = Cardinality(BlockingPlaces(q))
    BY BlockingNodesIsNat
  <2> QED
    BY <2>1, <2>2, <2>3
<1>9. BlockingNodes(w) = Cardinality(A)
  <2>1. \A k \in BlockingPlaces(w) : k \in 1 .. m /\ Blocks(q[Nth(k)])
    <3> SUFFICES ASSUME NEW k \in BlockingPlaces(w)
                 PROVE  k \in 1 .. m /\ Blocks(q[Nth(k)])
      OBVIOUS
    <3>1. k \in 1 .. m /\ Blocks(w[k])
      <4> HIDE DEF w, m
      <4> QED
        BY <1>5 DEF BlockingPlaces
    <3>2. w[k] = q[Nth(k)]
      <4> HIDE DEF Nth, w, m
      <4> QED
        BY <1>4, <3>1
    <3> QED
      BY <3>1, <3>2
  <2>2. \A k \in 1 .. m : Blocks(q[Nth(k)]) => k \in BlockingPlaces(w)
    <3> SUFFICES ASSUME NEW k \in 1 .. m, Blocks(q[Nth(k)]) PROVE k \in BlockingPlaces(w)
      OBVIOUS
    <3>1. w[k] = q[Nth(k)]
      <4> HIDE DEF Nth, w, m
      <4> QED
        BY <1>4
    <3>2. Blocks(w[k]) /\ k \in 1 .. Len(w)
      <4> HIDE DEF Nth, w, m
      <4> QED
        BY <1>5, <3>1
    <3> HIDE DEF w
    <3> QED
      BY <3>2 DEF BlockingPlaces
  <2>3. f \in [BlockingPlaces(w) -> A]
    <3>1. \A k \in BlockingPlaces(w) : Nth(k) \in A
      <4> HIDE DEF Nth, w, m, kept
      <4> QED
        BY <1>3, <2>1
    <3> HIDE DEF Nth, A, w
    <3> QED
      BY <3>1
  <2>4. \A x, y \in BlockingPlaces(w) : f[x] = f[y] => x = y
    <3> SUFFICES ASSUME NEW x \in BlockingPlaces(w), NEW y \in BlockingPlaces(w), f[x] = f[y]
                 PROVE  x = y
      OBVIOUS
    <3>1. Nth(x) = Nth(y)
      <4> HIDE DEF Nth, w
      <4> QED
        OBVIOUS
    <3> HIDE DEF Nth, Rank, w, m
    <3> QED
      BY <1>3, <2>1, <3>1
  <2>5. \A i \in A : \E k \in BlockingPlaces(w) : f[k] = i
    <3> SUFFICES ASSUME NEW i \in A PROVE \E k \in BlockingPlaces(w) : f[k] = i
      OBVIOUS
    <3> DEFINE k == Rank(i)
    <3>1. i \in kept /\ Blocks(q[i])
      <4> HIDE DEF kept
      <4> QED
        OBVIOUS
    <3>2. k \in 1 .. m
      <4> HIDE DEF kept, Rank, m
      <4> QED
        BY <1>2, <3>1
    <3>3. Nth(k) \in kept /\ Rank(Nth(k)) = Rank(i)
      <4> HIDE DEF kept, Rank, Nth, m
      <4> QED
        BY <1>3, <3>2
    <3>4. Nth(k) = i
      <4> HIDE DEF kept, Rank, Nth, m, k
      <4> QED
        BY <1>2, <3>1, <3>3
    <3>5. k \in BlockingPlaces(w)
      <4> HIDE DEF kept, Rank, Nth, m, k, w
      <4> QED
        BY <2>2, <3>1, <3>2, <3>4
    <3>6. f[k] = i
      <4> HIDE DEF kept, Rank, Nth, m, k, w
      <4> QED
        BY <3>4, <3>5
    <3> HIDE DEF f, k, w
    <3> QED
      BY <3>5, <3>6
  <2>6. IsFiniteSet(BlockingPlaces(w)) /\ BlockingNodes(w) = Cardinality(BlockingPlaces(w))
    <3> HIDE DEF w
    <3> QED
      BY <1>5, BlockingNodesIsNat
  <2> HIDE DEF f, A, w
  <2> QED
    BY <2>3, <2>4, <2>5, <2>6, SameSize
<1>10. /\ Len(w) = Len(q) - Cardinality(I)
       /\ BlockingNodes(w) + Cardinality(B) = BlockingNodes(q)
  <2> HIDE DEF w, A, B, m
  <2> QED
    BY <1>1, <1>2, <1>5, <1>6, <1>7, <1>8, <1>9
<1> QED
  BY <1>5, <1>6, <1>7, <1>10

-------------------------------------------------------------------------------
(* What the lists take from the pool of nodes *)

\* One pair for every node that a list of size[s] nodes takes from the pool.
Used(size) == {x \in Signals \X (1 .. MaxNodes) : x[2] <= size[x[1]]}
SizeFunctions == [Signals -> 0 .. MaxNodes]

LEMMA UsedIsFinite ==
  ASSUME NEW size \in SizeFunctions
  PROVE  IsFiniteSet(Used(size)) /\ Cardinality(Used(size)) \in Nat
<1>1. IsFiniteSet(Signals) /\ IsFiniteSet(1 .. MaxNodes)
  BY ReceiversAssumption, SizesAssumption, FS_Interval
<1>2. IsFiniteSet(Signals \X (1 .. MaxNodes))
  BY <1>1, FS_Product
<1>3. Used(size) \subseteq Signals \X (1 .. MaxNodes)
  BY DEF Used
<1>4. IsFiniteSet(Used(size))
  BY <1>2, <1>3, FS_Subset
<1> QED
  BY <1>4, FS_CardinalityType

LEMMA UsedShrinks ==
  ASSUME NEW size \in SizeFunctions, NEW less \in SizeFunctions,
         \A s \in Signals : less[s] <= size[s]
  PROVE  LET gone == {x \in Signals \X (1 .. MaxNodes) : less[x[1]] < x[2] /\ x[2] <= size[x[1]]}
         IN /\ IsFiniteSet(gone)
            /\ Cardinality(Used(size)) = Cardinality(Used(less)) + Cardinality(gone)
<1> DEFINE gone == {x \in Signals \X (1 .. MaxNodes) : less[x[1]] < x[2] /\ x[2] <= size[x[1]]}
<1>1. ASSUME NEW x \in Signals \X (1 .. MaxNodes)
      PROVE  /\ (x[2] <= size[x[1]]) <=> (x[2] <= less[x[1]] \/ (less[x[1]] < x[2] /\ x[2] <= size[x[1]]))
             /\ ~ (x[2] <= less[x[1]] /\ less[x[1]] < x[2])
  <2>1. x[2] \in Nat /\ size[x[1]] \in Nat /\ less[x[1]] \in Nat /\ less[x[1]] <= size[x[1]]
    BY DEF SizeFunctions
  <2> QED
    BY <2>1
<1>2. Used(size) = Used(less) \cup gone /\ Used(less) \cap gone = {}
  BY <1>1 DEF Used
<1>3. gone \subseteq Used(size)
  BY <1>2
<1>4. IsFiniteSet(gone)
  BY <1>3, UsedIsFinite, FS_Subset
<1>5. Cardinality(Used(less) \cup gone) = Cardinality(Used(less)) + Cardinality(gone)
  <2> HIDE DEF gone
  <2> QED
    BY <1>2, <1>4, UsedIsFinite, SizeOfParts
<1> HIDE DEF gone
<1>6. Cardinality(Used(size)) = Cardinality(Used(less)) + Cardinality(gone)
  BY <1>2, <1>5
<1> QED
  BY <1>4, <1>6 DEF gone

LEMMA OneListShrinks ==
  ASSUME NEW size \in SizeFunctions, NEW less \in SizeFunctions, NEW s \in Signals,
         less[s] <= size[s], \A u \in Signals \ {s} : less[u] = size[u]
  PROVE  Cardinality(Used(size)) = Cardinality(Used(less)) + (size[s] - less[s])
<1> DEFINE gone == {x \in Signals \X (1 .. MaxNodes) : less[x[1]] < x[2] /\ x[2] <= size[x[1]]}
           places == (less[s] + 1) .. size[s]
           f == [k \in places |-> <<s, k>>]
<1>1. /\ size[s] \in 0 .. MaxNodes /\ less[s] \in 0 .. MaxNodes /\ MaxNodes \in Nat
      /\ \A u \in Signals : size[u] \in Nat /\ less[u] \in Nat
  BY SizesAssumption DEF SizeFunctions
<1>2. \A u \in Signals : less[u] <= size[u]
  BY <1>1
<1>3. /\ IsFiniteSet(gone)
      /\ Cardinality(Used(size)) = Cardinality(Used(less)) + Cardinality(gone)
  BY <1>2, UsedShrinks
<1>4. IsFiniteSet(places) /\ Cardinality(places) = size[s] - less[s]
  <2>1. /\ IsFiniteSet(places)
        /\ Cardinality(places) = IF less[s] + 1 > size[s] THEN 0 ELSE size[s] - (less[s] + 1) + 1
    <3>1. less[s] + 1 \in Int /\ size[s] \in Int
      BY <1>1
    <3> QED
      BY <3>1, FS_Interval
  <2> QED
    BY <1>1, <2>1
<1>5. f \in [places -> gone]
  <2>1. \A k \in places : <<s, k>> \in gone
    BY <1>1
  <2> HIDE DEF gone, places
  <2> QED
    BY <2>1
<1>6. \A x, y \in places : f[x] = f[y] => x = y
  BY <1>1
<1>7. \A y \in gone : \E x \in places : f[x] = y
  <2> SUFFICES ASSUME NEW y \in gone PROVE \E x \in places : f[x] = y
    OBVIOUS
  <2>1. y \in Signals \X (1 .. MaxNodes) /\ less[y[1]] < y[2] /\ y[2] <= size[y[1]]
    OBVIOUS
  <2>2. y = <<y[1], y[2]>> /\ y[1] \in Signals /\ y[2] \in Nat
    BY <2>1
  <2>3. y[1] = s
    BY <1>1, <2>1, <2>2
  <2>4. y[2] \in places
    BY <1>1, <2>1, <2>2, <2>3
  <2>5. f[y[2]] = y
    BY <2>2, <2>3, <2>4
  <2> QED
    BY <2>4, <2>5
<1>8. Cardinality(gone) = Cardinality(places)
  <2> HIDE DEF gone, places, f
  <2> QED
    BY <1>4, <1>5, <1>6, <1>7, SameSize
<1> HIDE DEF gone, places
<1> QED
  BY <1>3, <1>4, <1>8

LEMMA ListsShrinkByOne ==
  ASSUME NEW size \in SizeFunctions, NEW less \in SizeFunctions, NEW R, R \subseteq Signals,
         \A u \in R : less[u] + 1 = size[u], \A u \in Signals \ R : less[u] = size[u]
  PROVE  /\ Cardinality(R) \in Nat
         /\ Cardinality(Used(size)) = Cardinality(Used(less)) + Cardinality(R)
<1> DEFINE gone == {x \in Signals \X (1 .. MaxNodes) : less[x[1]] < x[2] /\ x[2] <= size[x[1]]}
           f == [u \in R |-> <<u, size[u]>>]
<1>1. MaxNodes \in Nat /\ \A u \in Signals : size[u] \in 0 .. MaxNodes /\ less[u] \in 0 .. MaxNodes
  BY SizesAssumption DEF SizeFunctions
<1>2. \A u \in Signals : less[u] <= size[u]
  <2> SUFFICES ASSUME NEW u \in Signals PROVE less[u] <= size[u]
    OBVIOUS
  <2>1. size[u] \in Nat /\ less[u] \in Nat /\ (less[u] + 1 = size[u] \/ less[u] = size[u])
    BY <1>1
  <2> QED
    BY <2>1
<1>3. /\ IsFiniteSet(gone)
      /\ Cardinality(Used(size)) = Cardinality(Used(less)) + Cardinality(gone)
  BY <1>2, UsedShrinks
<1>4. IsFiniteSet(R) /\ Cardinality(R) \in Nat
  <2>1. IsFiniteSet(R)
    BY ReceiversAssumption, FS_Subset
  <2> QED
    BY <2>1, FS_CardinalityType
<1>5. f \in [R -> gone]
  <2>1. \A u \in R : <<u, size[u]>> \in gone
    <3> SUFFICES ASSUME NEW u \in R PROVE <<u, size[u]>> \in gone
      OBVIOUS
    <3>1. u \in Signals /\ size[u] \in 0 .. MaxNodes /\ less[u] \in Nat /\ less[u] + 1 = size[u]
      BY <1>1
    <3>2. size[u] \in 1 .. MaxNodes /\ less[u] < size[u] /\ size[u] <= size[u]
      BY <1>1, <3>1
    <3> QED
      BY <3>1, <3>2
  <2> HIDE DEF gone
  <2> QED
    BY <2>1
<1>6. \A x, y \in R : f[x] = f[y] => x = y
  OBVIOUS
<1>7. \A y \in gone : \E x \in R : f[x] = y
  <2> SUFFICES ASSUME NEW y \in gone PROVE \E x \in R : f[x] = y
    OBVIOUS
  <2>1. y \in Signals \X (1 .. MaxNodes) /\ less[y[1]] < y[2] /\ y[2] <= size[y[1]]
    OBVIOUS
  <2>2. y = <<y[1], y[2]>> /\ y[1] \in Signals /\ y[2] \in Nat
    BY <2>1
  <2>3. size[y[1]] \in Nat /\ less[y[1]] \in Nat
    BY <1>1, <2>2
  <2>4. y[1] \in R
    BY <2>1, <2>2, <2>3
  <2>5. y[2] = size[y[1]]
    <3>1. less[y[1]] + 1 = size[y[1]]
      BY <2>4
    <3> QED
      BY <2>1, <2>2, <2>3, <3>1
  <2>6. f[y[1]] = y
    BY <2>2, <2>4, <2>5
  <2> QED
    BY <2>4, <2>6
<1>8. Cardinality(gone) = Cardinality(R)
  <2> HIDE DEF gone, f
  <2> QED
    BY <1>4, <1>5, <1>6, <1>7, SameSize
<1> HIDE DEF gone
<1> QED
  BY <1>3, <1>4, <1>8

\* No list is longer than what the lists take together.
LEMMA UsedBoundsEach ==
  ASSUME NEW size \in SizeFunctions, NEW s \in Signals
  PROVE  size[s] <= Cardinality(Used(size))
<1> DEFINE less == [size EXCEPT ![s] = 0]
<1>1. size[s] \in Nat /\ MaxNodes \in Nat
  BY SizesAssumption DEF SizeFunctions
<1>2. less \in SizeFunctions /\ less[s] = 0 /\ \A u \in Signals \ {s} : less[u] = size[u]
  BY <1>1 DEF SizeFunctions
<1> HIDE DEF less
<1>3. Cardinality(Used(size)) = Cardinality(Used(less)) + (size[s] - less[s])
  BY <1>1, <1>2, OneListShrinks
<1>4. Cardinality(Used(less)) \in Nat
  BY <1>2, UsedIsFinite
<1> QED
  BY <1>1, <1>2, <1>3, <1>4

-------------------------------------------------------------------------------
(* The table: its groups, its counts and its pools *)

ListOf(g) == IF g = Null THEN <<>> ELSE g.nodes
Sizes == [s \in Signals |-> Len(NodesOf(s))]

GroupCounts(g) ==
  g # Null => g.blocking_count = g.inherited + BlockingNodes(g.nodes)

\* Every node is in one list or in the pool.
NodesKept ==
  /\ Sizes \in SizeFunctions
  /\ free_nodes \in Nat /\ free_nodes + Cardinality(Used(Sizes)) = MaxNodes

TableInv ==
  /\ table \in [Signals -> Groups \cup {Null}]
  /\ free_groups \in Seq(Nat)
  /\ \A s \in Signals : GroupCounts(table[s])
  /\ NodesKept

LEMMA ListsAreSequences ==
  ASSUME NEW g \in Groups \cup {Null}
  PROVE  /\ ListOf(g) \in Seq(Connections) /\ Len(ListOf(g)) \in Nat
         /\ g # Null => /\ g \in Groups /\ g.nodes = ListOf(g)
                        /\ g.blocking_count \in Nat /\ g.inherited \in Nat
<1>1. ListOf(g) \in Seq(Connections)
  <2>1. CASE g = Null
    BY <2>1, EmptySeq DEF ListOf
  <2>2. CASE g # Null
    BY <2>2 DEF ListOf, Groups
  <2> QED
    BY <2>1, <2>2
<1>2. Len(ListOf(g)) \in Nat
  BY <1>1, LenProperties
<1>3. g # Null => /\ g \in Groups /\ g.nodes = ListOf(g)
                  /\ g.blocking_count \in Nat /\ g.inherited \in Nat
  BY DEF ListOf, Groups
<1> QED
  BY <1>1, <1>2, <1>3

\* A new table that has one list more, or less, than the old one by what the pool
\* has less, or more.
LEMMA TableKept ==
  ASSUME TableInv,
         table' \in [Signals -> Groups \cup {Null}], free_groups' \in Seq(Nat),
         \A s \in Signals : GroupCounts(table'[s]),
         Sizes' \in SizeFunctions, free_nodes' \in Nat,
         free_nodes' + Cardinality(Used(Sizes')) = free_nodes + Cardinality(Used(Sizes))
  PROVE  TableInv'
<1>1. free_nodes' + Cardinality(Used(Sizes')) = MaxNodes
  BY DEF TableInv, NodesKept
<1>2. \A s \in Signals : GroupCounts(table[s])'
  BY DEF GroupCounts
<1> QED
  BY <1>1, <1>2 DEF TableInv, NodesKept

LEMMA TableUnchanged ==
  ASSUME TableInv, UNCHANGED table_vars
  PROVE  TableInv'
<1>1. table' = table /\ free_groups' = free_groups /\ free_nodes' = free_nodes
  BY DEF table_vars
<1>2. Sizes' = Sizes
  BY <1>1 DEF Sizes, NodesOf
<1> QED
  BY <1>1, <1>2 DEF TableInv, NodesKept, GroupCounts

\* What the table holds in place of a group whose nodes at the places of I go.
LEMMA UnlinkedFacts ==
  ASSUME TableInv, NEW s \in Signals, NEW I, I \subseteq 1 .. Len(NodesOf(s))
  PROVE  /\ Unlinked(s, I) \in Groups \cup {Null} /\ GroupCounts(Unlinked(s, I))
         /\ Cardinality(I) \in 0 .. Len(NodesOf(s)) /\ Len(NodesOf(s)) \in Nat
         /\ Len(ListOf(Unlinked(s, I))) = Len(NodesOf(s)) - Cardinality(I)
         /\ Unlinked(s, I) = Null <=> table[s] = Null
<1> DEFINE g == table[s]
<1>1. g \in Groups \cup {Null} /\ GroupCounts(g) /\ NodesOf(s) = ListOf(g)
  BY DEF TableInv, NodesOf, ListOf
<1>2. /\ ListOf(g) \in Seq(Connections) /\ Len(NodesOf(s)) \in Nat
      /\ g # Null => /\ g \in Groups /\ g.nodes = ListOf(g)
                     /\ g.blocking_count \in Nat /\ g.inherited \in Nat
  <2> HIDE DEF g
  <2> QED
    BY <1>1, ListsAreSequences
<1>3. /\ Without(NodesOf(s), I) \in Seq(Connections)
      /\ Cardinality(I) \in 0 .. Len(NodesOf(s))
      /\ Len(Without(NodesOf(s), I)) = Len(NodesOf(s)) - Cardinality(I)
      /\ Cardinality({i \in I : Blocks(NodesOf(s)[i])}) \in Nat
      /\ BlockingNodes(Without(NodesOf(s), I)) + Cardinality({i \in I : Blocks(NodesOf(s)[i])})
           = BlockingNodes(NodesOf(s))
  BY ZenonT(60), <1>1, <1>2, WithoutFacts
<1>4. CASE g = Null
  <2>1. Unlinked(s, I) = Null /\ NodesOf(s) = <<>> /\ Len(NodesOf(s)) = 0
    BY <1>4, EmptySeq DEF Unlinked, NodesOf
  <2>2. Cardinality(I) = 0 /\ ListOf(Null) = <<>>
    BY <1>3, <2>1 DEF ListOf
  <2> QED
    BY <1>3, <1>4, <2>1, <2>2 DEF GroupCounts
<1>5. CASE g # Null
  <2> DEFINE h == Unlinked(s, I)
             b == Cardinality({i \in I : Blocks(g.nodes[i])})
  <2>1. h = [g EXCEPT !.nodes = Without(@, I), !.blocking_count = @ - b]
    BY <1>5 DEF Unlinked
  <2>2. b \in Nat /\ BlockingNodes(Without(g.nodes, I)) + b = BlockingNodes(g.nodes)
    BY <1>1, <1>2, <1>3, <1>5
  <2>3. /\ h.nodes = Without(g.nodes, I) /\ h.blocking_count = g.blocking_count - b
        /\ h.inherited = g.inherited /\ DOMAIN h = DOMAIN g
    <3>1. g \in [nodes : Seq(Connections), blocking_count : Nat, inherited : Nat]
      BY <1>2, <1>5 DEF Groups
    <3> HIDE DEF h, b, g
    <3> QED
      BY <2>1, <3>1
  <2>4. BlockingNodes(Without(g.nodes, I)) \in Nat
    BY <1>1, <1>2, <1>3, <1>5, BlockingNodesIsNat
  <2>5. g.blocking_count = g.inherited + BlockingNodes(g.nodes)
    BY <1>1, <1>5 DEF GroupCounts
  <2>6. h.blocking_count = h.inherited + BlockingNodes(h.nodes) /\ h.blocking_count \in Nat
    <3>1. g.inherited \in Nat /\ g.blocking_count \in Nat
      BY <1>2, <1>5
    <3>2. h.blocking_count = g.inherited + BlockingNodes(Without(g.nodes, I))
      <4> HIDE DEF b, g, h
      <4> QED
        BY <2>2, <2>3, <2>4, <2>5, <3>1
    <3> HIDE DEF b, g, h
    <3> QED
      BY <2>3, <2>4, <3>1, <3>2
  <2>7. h \in Groups
    <3>1. g \in [nodes : Seq(Connections), blocking_count : Nat, inherited : Nat]
      BY <1>2, <1>5 DEF Groups
    <3>2. Without(g.nodes, I) \in Seq(Connections) /\ g.blocking_count - b \in Nat
      <4>1. g.nodes = NodesOf(s)
        BY <1>1, <1>2, <1>5
      <4> HIDE DEF b, g, h
      <4> QED
        BY <1>3, <2>3, <2>6, <4>1
    <3> HIDE DEF b, g, h
    <3> QED
      BY <2>1, <3>1, <3>2 DEF Groups
  <2>8. h # Null
    BY <2>7, NullAssumption
  <2>9. Len(ListOf(h)) = Len(NodesOf(s)) - Cardinality(I)
    <3>1. ListOf(h) = Without(NodesOf(s), I)
      BY <1>1, <1>2, <1>5, <2>3, <2>8 DEF ListOf
    <3> HIDE DEF h
    <3> QED
      BY <1>3, <3>1
  <2> HIDE DEF h
  <2> QED
    BY <1>2, <1>3, <1>5, <2>6, <2>7, <2>8, <2>9 DEF GroupCounts, h
<1> QED
  BY <1>4, <1>5

\* One list changes: its length and the pool change together.
LEMMA OneGroupKept ==
  ASSUME TableInv, NEW s \in Signals, NEW g \in Groups \cup {Null}, GroupCounts(g),
         table' = [table EXCEPT ![s] = g], free_groups' \in Seq(Nat),
         Len(ListOf(g)) <= MaxNodes, free_nodes' \in Nat,
         free_nodes' + Len(ListOf(g)) = free_nodes + Len(NodesOf(s))
  PROVE  TableInv'
<1>1. /\ table \in [Signals -> Groups \cup {Null}] /\ \A u \in Signals : GroupCounts(table[u])
      /\ Sizes \in SizeFunctions /\ free_nodes \in Nat /\ MaxNodes \in Nat
  BY SizesAssumption DEF TableInv, NodesKept
<1>2. table' \in [Signals -> Groups \cup {Null}] /\ table'[s] = g
      /\ \A u \in Signals \ {s} : table'[u] = table[u]
  BY <1>1
<1>3. \A u \in Signals : GroupCounts(table'[u])
  BY <1>1, <1>2
<1>4. \A u \in Signals : Sizes[u] = Len(NodesOf(u)) /\ Sizes'[u] = Len(NodesOf(u)')
  BY DEF Sizes
<1>5. NodesOf(s)' = ListOf(g) /\ \A u \in Signals \ {s} : NodesOf(u)' = NodesOf(u)
  BY <1>2 DEF NodesOf, ListOf
<1>6. Len(ListOf(g)) \in Nat
  BY ListsAreSequences
<1>7. /\ Sizes'[s] = Len(ListOf(g)) /\ Sizes[s] = Len(NodesOf(s))
      /\ \A u \in Signals \ {s} : Sizes'[u] = Sizes[u]
  BY <1>4, <1>5
<1>8. Sizes' \in SizeFunctions
  <2>1. \A u \in Signals : Sizes'[u] \in 0 .. MaxNodes
    BY SMTT(30), <1>1, <1>6, <1>7 DEF SizeFunctions
  <2>2. Sizes' = [u \in Signals |-> Sizes'[u]]
    BY DEF Sizes
  <2> QED
    BY <2>1, <2>2 DEF SizeFunctions
<1>9. Cardinality(Used(Sizes')) + Sizes[s] = Cardinality(Used(Sizes)) + Sizes'[s]
  <2>1. Sizes[s] \in Nat /\ Sizes'[s] \in Nat
    BY <1>1, <1>8 DEF SizeFunctions
  <2>2. Cardinality(Used(Sizes)) \in Nat /\ Cardinality(Used(Sizes')) \in Nat
    BY <1>1, <1>8, UsedIsFinite
  <2>3. CASE Sizes'[s] <= Sizes[s]
    <3>1. Cardinality(Used(Sizes)) = Cardinality(Used(Sizes')) + (Sizes[s] - Sizes'[s])
      BY <1>1, <1>7, <1>8, <2>3, OneListShrinks
    <3> QED
      BY SMTT(30), <2>1, <2>2, <3>1
  <2>4. CASE Sizes[s] <= Sizes'[s]
    <3>1. Cardinality(Used(Sizes')) = Cardinality(Used(Sizes)) + (Sizes'[s] - Sizes[s])
      BY <1>1, <1>7, <1>8, <2>4, OneListShrinks
    <3> QED
      BY SMTT(30), <2>1, <2>2, <3>1
  <2> QED
    BY <2>1, <2>3, <2>4
<1>10. free_nodes' + Cardinality(Used(Sizes')) = free_nodes + Cardinality(Used(Sizes))
  <2> DEFINE u == Cardinality(Used(Sizes))
             v == Cardinality(Used(Sizes'))
             k == Sizes[s]
             l == Sizes'[s]
  <2>1. Cardinality(Used(Sizes)) \in Nat /\ Cardinality(Used(Sizes')) \in Nat
    BY <1>1, <1>8, UsedIsFinite
  <2>2. Sizes[s] \in Nat /\ Sizes'[s] \in Nat
    BY <1>1, <1>8 DEF SizeFunctions
  <2>3. free_nodes' + Sizes'[s] = free_nodes + Sizes[s]
    BY <1>7
  <2>4. free_nodes \in Nat /\ free_nodes' \in Nat
    BY <1>1
  <2>5. v + k = u + l /\ u \in Nat /\ v \in Nat /\ k \in Nat /\ l \in Nat
        /\ free_nodes' + l = free_nodes + k
    BY <1>9, <2>1, <2>2, <2>3
  <2>6. free_nodes' + v = free_nodes + u
    <3> HIDE DEF u, v, k, l
    <3>1. PICK b \in Nat : b = free_nodes'
      BY <2>4
    <3>2. b + l = free_nodes + k
      BY <2>5, <3>1
    <3>3. b + v = free_nodes + u
      BY <2>4, <2>5, <3>2
    <3> QED
      BY <3>1, <3>3
  <2> QED
    BY <2>6
<1> QED
  BY <1>2, <1>3, <1>8, <1>10, TableKept

\* Each table operation, given the arguments it is called with.
LEMMA AddConnectionKeepsTable ==
  ASSUME TableInv, NEW t \in Threads, AddConnection(t),
         op[t].signal \in Signals, op[t].node \in Connections
  PROVE  TableInv'
<1> DEFINE s == op[t].signal
           n == op[t].node
           g == GroupFor(s)
           known == \E i \in 1 .. Len(g.nodes) : Same(g.nodes[i], n)
<1>1. /\ table \in [Signals -> Groups \cup {Null}] /\ free_groups \in Seq(Nat)
      /\ GroupCounts(table[s]) /\ Sizes \in SizeFunctions /\ free_nodes \in Nat
      /\ free_nodes + Cardinality(Used(Sizes)) = MaxNodes /\ MaxNodes \in Nat
  BY SizesAssumption DEF TableInv, NodesKept
<1>2. CASE table[s] = Null /\ free_groups = <<>>
  <2>1. UNCHANGED table_vars
    BY <1>2 DEF AddConnection
  <2> QED
    BY <2>1, TableUnchanged
<1>3. CASE ~ (table[s] = Null /\ free_groups = <<>>)
  <2>1. free_groups' = IF table[s] = Null THEN Tail(free_groups) ELSE free_groups
    BY <1>3 DEF AddConnection
  <2>2. free_groups' \in Seq(Nat)
    BY <1>1, <1>3, <2>1, HeadTailProperties
  <2>3. g \in Groups /\ GroupCounts(g) /\ g.nodes = NodesOf(s)
    <3>1. CASE table[s] # Null
      BY <1>1, <3>1 DEF GroupFor, NodesOf
    <3>2. CASE table[s] = Null
      <4>1. Head(free_groups) \in Nat
        BY <1>1, <1>3, <3>2, HeadTailProperties
      <4>2. g = [nodes |-> <<>>, blocking_count |-> Head(free_groups),
                 inherited |-> Head(free_groups)]
        BY <3>2 DEF GroupFor
      <4>3. g \in Groups
        BY <4>1, <4>2, EmptySeq DEF Groups
      <4>4. g.nodes = <<>> /\ g.blocking_count = g.inherited /\ g.inherited \in Nat
        BY <4>1, <4>2
      <4>5. g.blocking_count = g.inherited + BlockingNodes(g.nodes)
        BY <4>4, BlockingOfNothing
      <4> HIDE DEF g
      <4> QED
        BY <3>2, <4>3, <4>4, <4>5 DEF GroupCounts, NodesOf
    <3> QED
      BY <3>1, <3>2
  <2>4. g # Null /\ ListOf(g) = NodesOf(s) /\ NodesOf(s) \in Seq(Connections)
        /\ g.blocking_count \in Nat /\ g.inherited \in Nat
    <3> HIDE DEF g
    <3> QED
      BY <2>3, NullAssumption, ListsAreSequences
  <2>5. Len(NodesOf(s)) \in Nat /\ Len(NodesOf(s)) <= Cardinality(Used(Sizes))
        /\ Cardinality(Used(Sizes)) \in Nat
    <3>1. Sizes[s] <= Cardinality(Used(Sizes)) /\ Cardinality(Used(Sizes)) \in Nat
      BY <1>1, UsedBoundsEach, UsedIsFinite
    <3>2. Sizes[s] = Len(NodesOf(s))
      BY DEF Sizes
    <3> QED
      BY <2>4, <3>1, <3>2, LenProperties
  <2>6. CASE known \/ free_nodes = 0
    <3>1. table' = [table EXCEPT ![s] = g] /\ free_nodes' = free_nodes
      BY <1>3, <2>6 DEF AddConnection
    <3>2. Len(ListOf(g)) <= MaxNodes
      BY <1>1, <2>4, <2>5
    <3>3. free_nodes' + Len(ListOf(g)) = free_nodes + Len(NodesOf(s))
      BY <2>4, <3>1
    <3> HIDE DEF g
    <3> QED
      BY <1>1, <2>2, <2>3, <3>1, <3>2, <3>3, OneGroupKept
  <2>7. CASE ~ (known \/ free_nodes = 0)
    <3> DEFINE h == [g EXCEPT !.nodes = <<n>> \o @, !.blocking_count = @ + Counted(n)]
    <3>1. table' = [table EXCEPT ![s] = h] /\ free_nodes' = free_nodes - 1
      BY <1>3, <2>7 DEF AddConnection
    <3>2. /\ <<n>> \o g.nodes \in Seq(Connections)
          /\ Len(<<n>> \o g.nodes) = Len(NodesOf(s)) + 1
          /\ BlockingNodes(<<n>> \o g.nodes) = BlockingNodes(g.nodes) + Counted(n)
      <4>1. g.nodes \in Seq(Connections) /\ g.nodes = NodesOf(s)
        BY <2>3, <2>4
      <4> HIDE DEF g
      <4> QED
        BY <4>1, BlockingOfLonger
    <3>3. /\ h.nodes = <<n>> \o g.nodes /\ h.blocking_count = g.blocking_count + Counted(n)
          /\ h.inherited = g.inherited
          /\ (<<n>> \o g.nodes \in Seq(Connections) /\ g.blocking_count + Counted(n) \in Nat
                => h \in Groups)
      <4> HIDE DEF g
      <4> QED
        BY <2>3 DEF Groups
    <3>4. Counted(n) \in Nat /\ BlockingNodes(g.nodes) \in Nat
      <4> HIDE DEF g
      <4> QED
        BY <2>3, <2>4, BlockingNodesIsNat DEF Counted
    <3>5. h \in Groups
      BY <2>4, <3>2, <3>3, <3>4
    <3>6. g.blocking_count = g.inherited + BlockingNodes(g.nodes)
      BY <2>3, <2>4 DEF GroupCounts
    <3>7. h.blocking_count = h.inherited + BlockingNodes(h.nodes)
      <4> HIDE DEF g, h
      <4> QED
        BY <2>4, <3>2, <3>3, <3>4, <3>6
    <3>8. GroupCounts(h) /\ ListOf(h) = <<n>> \o g.nodes
      <4>1. h # Null
        BY <3>5, NullAssumption
      <4> HIDE DEF h
      <4> QED
        BY <3>3, <3>7, <4>1 DEF GroupCounts, ListOf
    <3>9. /\ free_nodes' \in Nat /\ Len(ListOf(h)) <= MaxNodes
          /\ free_nodes' + Len(ListOf(h)) = free_nodes + Len(NodesOf(s))
      <4>1. Len(ListOf(h)) = Len(NodesOf(s)) + 1 /\ free_nodes # 0
        BY <2>7, <3>2, <3>8
      <4> HIDE DEF g, h
      <4> QED
        BY <1>1, <2>5, <3>1, <4>1
    <3> HIDE DEF g, h
    <3> QED
      BY <2>2, <3>1, <3>5, <3>8, <3>9, OneGroupKept
  <2> QED
    BY <2>6, <2>7
<1> QED
  BY <1>2, <1>3

LEMMA RemoveConnectionKeepsTable ==
  ASSUME TableInv, NEW t \in Threads, RemoveConnection(t), op[t].signal \in Signals
  PROVE  TableInv'
<1> DEFINE s == op[t].signal
           gone == {i \in 1 .. Len(NodesOf(s)) : Same(NodesOf(s)[i], op[t].node)}
           g == Unlinked(s, gone)
<1>1. /\ g \in Groups \cup {Null} /\ GroupCounts(g)
      /\ Cardinality(gone) \in 0 .. Len(NodesOf(s)) /\ Len(NodesOf(s)) \in Nat
      /\ Len(ListOf(g)) = Len(NodesOf(s)) - Cardinality(gone)
  <2>1. gone \subseteq 1 .. Len(NodesOf(s))
    OBVIOUS
  <2> HIDE DEF gone
  <2> QED
    BY <2>1, UnlinkedFacts
<1>2. /\ table' = [table EXCEPT ![s] = g] /\ free_nodes' = free_nodes + Cardinality(gone)
      /\ free_groups' = free_groups
  BY DEF RemoveConnection
<1>3. free_groups \in Seq(Nat) /\ free_nodes \in Nat /\ MaxNodes \in Nat
      /\ Len(NodesOf(s)) <= MaxNodes
  <2>1. Sizes[s] = Len(NodesOf(s)) /\ Sizes[s] \in 0 .. MaxNodes
    BY DEF Sizes, TableInv, NodesKept, SizeFunctions
  <2> QED
    BY <2>1, SizesAssumption DEF TableInv, NodesKept
<1>4. /\ Len(ListOf(g)) <= MaxNodes /\ free_nodes' \in Nat
      /\ free_nodes' + Len(ListOf(g)) = free_nodes + Len(NodesOf(s))
  <2> HIDE DEF g, gone
  <2> QED
    BY <1>1, <1>2, <1>3
<1> HIDE DEF g, gone
<1> QED
  BY <1>1, <1>2, <1>3, <1>4, OneGroupKept

LEMMA RemoveSignalKeepsTable ==
  ASSUME TableInv, NEW t \in Threads, RemoveSignal(t), op[t].signal \in Signals
  PROVE  TableInv'
<1> DEFINE s == op[t].signal
<1>1. CASE table[s] = Null
  <2>1. UNCHANGED table_vars
    BY <1>1 DEF RemoveSignal
  <2> QED
    BY <2>1, TableUnchanged
<1>2. CASE table[s] # Null
  <2>1. /\ table' = [table EXCEPT ![s] = Null]
        /\ free_nodes' = free_nodes + Len(table[s].nodes)
        /\ free_groups' = <<table[s].blocking_count>> \o free_groups
    BY <1>2 DEF RemoveSignal
  <2>2. table[s] \in Groups \cup {Null} /\ free_groups \in Seq(Nat) /\ free_nodes \in Nat
    BY DEF TableInv, NodesKept
  <2>3. /\ table[s].nodes = NodesOf(s) /\ table[s].blocking_count \in Nat
        /\ Len(NodesOf(s)) \in Nat
    BY <1>2, <2>2, ListsAreSequences DEF NodesOf, ListOf
  <2>4. free_groups' \in Seq(Nat)
    BY <2>1, <2>2, <2>3
  <2>5. Len(ListOf(Null)) = 0 /\ GroupCounts(Null) /\ MaxNodes \in Nat
    BY EmptySeq, SizesAssumption DEF ListOf, GroupCounts
  <2>6. free_nodes' \in Nat /\ free_nodes' + Len(ListOf(Null)) = free_nodes + Len(NodesOf(s))
    BY <2>1, <2>2, <2>3, <2>5
  <2>7. Len(ListOf(Null)) <= MaxNodes
    BY <2>5
  <2> QED
    BY <2>1, <2>4, <2>5, <2>6, <2>7, OneGroupKept
<1> QED
  BY <1>1, <1>2

\* A list has one first node of a receiver, or none.
LEMMA FirstNodeFacts ==
  ASSUME TableInv, NEW s \in Signals, NEW r
  PROVE  /\ FirstNode(s, r) \subseteq 1 .. Len(NodesOf(s))
         /\ Cardinality(FirstNode(s, r)) = IF FirstNode(s, r) = {} THEN 0 ELSE 1
<1> DEFINE F == FirstNode(s, r)
<1>1. F \subseteq 1 .. Len(NodesOf(s))
  BY DEF FirstNode
<1>2. \A i, j \in F : i = j
  BY DEF FirstNode
<1>3. Cardinality(F) = IF F = {} THEN 0 ELSE 1
  <2>1. CASE F = {}
    BY <2>1, FS_EmptySet
  <2>2. CASE F # {}
    <3>1. PICK i \in F : TRUE
      BY <2>2
    <3>2. F = {i}
      <4> HIDE DEF F
      <4> QED
        BY <1>2, <3>1
    <3> QED
      BY <2>2, <3>2, FS_Singleton
  <2> QED
    BY <2>1, <2>2
<1> QED
  BY <1>1, <1>3

LEMMA RemoveReceiverKeepsTable ==
  ASSUME TableInv, NEW t \in Threads, RemoveReceiver(t)
  PROVE  TableInv'
<1> DEFINE r == op[t].receiver
           R == {s \in Signals : FirstNode(s, r) # {}}
<1>1. /\ table' = [s \in Signals |-> Unlinked(s, FirstNode(s, r))]
      /\ free_nodes' = free_nodes + Cardinality(R) /\ free_groups' = free_groups
  BY DEF RemoveReceiver
<1>2. /\ free_groups \in Seq(Nat) /\ Sizes \in SizeFunctions /\ free_nodes \in Nat
      /\ free_nodes + Cardinality(Used(Sizes)) = MaxNodes /\ MaxNodes \in Nat
  BY SizesAssumption DEF TableInv, NodesKept
<1>3. ASSUME NEW s \in Signals
      PROVE  /\ table'[s] \in Groups \cup {Null} /\ GroupCounts(table'[s])
             /\ Sizes[s] \in Nat /\ Sizes'[s] \in Nat
             /\ s \in R => Sizes'[s] + 1 = Sizes[s]
             /\ s \notin R => Sizes'[s] = Sizes[s]
  <2> DEFINE g == Unlinked(s, FirstNode(s, r))
             k == Cardinality(FirstNode(s, r))
  <2>1. /\ g \in Groups \cup {Null} /\ GroupCounts(g)
        /\ k \in 0 .. Len(NodesOf(s)) /\ Len(NodesOf(s)) \in Nat
        /\ Len(ListOf(g)) = Len(NodesOf(s)) - k
    BY FirstNodeFacts, UnlinkedFacts
  <2>2. table'[s] = g
    BY <1>1
  <2>3. NodesOf(s)' = ListOf(g)
    BY <2>2 DEF NodesOf, ListOf
  <2>4. Sizes'[s] = Len(ListOf(g)) /\ Sizes[s] = Len(NodesOf(s))
    BY <2>3 DEF Sizes
  <2>5. (s \in R => k = 1) /\ (s \notin R => k = 0)
    BY FirstNodeFacts
  <2> HIDE DEF g, k, R
  <2> QED
    BY <2>1, <2>2, <2>4, <2>5
<1>4. table' \in [Signals -> Groups \cup {Null}]
  <2>1. table' = [s \in Signals |-> table'[s]]
    BY <1>1
  <2> QED
    BY <1>3, <2>1
<1>5. Sizes' \in SizeFunctions
  <2>1. \A s \in Signals : Sizes'[s] \in 0 .. MaxNodes
    <3> SUFFICES ASSUME NEW s \in Signals PROVE Sizes'[s] \in 0 .. MaxNodes
      OBVIOUS
    <3>1. Sizes[s] \in 0 .. MaxNodes
      BY <1>2 DEF SizeFunctions
    <3>2. Sizes'[s] \in Nat /\ (Sizes'[s] + 1 = Sizes[s] \/ Sizes'[s] = Sizes[s])
      BY <1>3
    <3> QED
      BY <1>2, <3>1, <3>2
  <2>2. Sizes' = [s \in Signals |-> Sizes'[s]]
    BY DEF Sizes
  <2> QED
    BY <2>1, <2>2 DEF SizeFunctions
<1>6. /\ Cardinality(R) \in Nat
      /\ Cardinality(Used(Sizes)) = Cardinality(Used(Sizes')) + Cardinality(R)
  <2>1. /\ R \subseteq Signals
        /\ \A u \in R : Sizes'[u] + 1 = Sizes[u]
        /\ \A u \in Signals \ R : Sizes'[u] = Sizes[u]
    BY <1>3
  <2> HIDE DEF R
  <2> QED
    BY <1>2, <1>5, <2>1, ListsShrinkByOne
<1>7. Cardinality(Used(Sizes)) \in Nat /\ Cardinality(Used(Sizes')) \in Nat
  BY <1>2, <1>5, UsedIsFinite
<1> HIDE DEF R
<1>8. free_nodes' \in Nat
      /\ free_nodes' + Cardinality(Used(Sizes')) = free_nodes + Cardinality(Used(Sizes))
  BY <1>1, <1>2, <1>6, <1>7
<1> QED
  BY <1>1, <1>2, <1>3, <1>4, <1>5, <1>8, TableKept

-------------------------------------------------------------------------------
(* Where the threads are *)

Emitting == {"emit", "count", "walk", "visit", "execute", "handler", "post", "fault"}
Handling == {"execute", "handler", "post", "fault", "process", "serve"}

\* The locals that a thread's place needs are there.
PlaceOf(t) ==
  /\ pc[t] \in {"lock", "wait", "write"} => op[t] \in Operations /\ op[t].name # "emit"
  /\ pc[t] \in {"clear", "invalidate"} =>
       op[t] \in Operations /\ op[t].name = "disconnect_receiver"
  /\ pc[t] \in Emitting =>
       op[t] \in Operations /\ op[t].name = "emit" /\ emission[t] \in 1 .. emits
  /\ pc[t] \notin Emitting => emission[t] = 0
  /\ pc[t] \notin Walking \cup {"fault"} => rest[t] = <<>>
  /\ pc[t] \in Handling => current[t] \in Packages
  /\ pc[t] \in {"post", "fault"} => target[t] \in QueueOwners

ThreadTypes ==
  /\ pc \in [Threads -> Labels]
  /\ op \in [Threads -> Operations \cup {Null}]
  /\ rest \in [Threads -> Seq(Connections)]
  /\ current \in [Threads -> Packages \cup {Null}]
  /\ target \in [Threads -> QueueOwners \cup {Null}]
  /\ emission \in [Threads -> 0 .. MaxEmits]

ObjectTypes ==
  /\ life \in [Objects -> {"alive", "cleared", "invalid", "gone"}]
  /\ m_valid \in [Receivers -> BOOLEAN]
  /\ affinity \in [Receivers -> Threads \cup {Null}]
  /\ queue \in [Receivers -> Seq(Packages)]
  /\ \A r \in Receivers : Len(queue[r]) <= Capacity

EmissionTypes ==
  /\ total \in [1 .. MaxEmits -> Nat]
  /\ released \in [1 .. MaxEmits -> Nat]
  /\ owed \in [1 .. MaxEmits -> Nat]

BoundTypes == connects \in 0 .. MaxConnects /\ emits \in 0 .. MaxEmits

Places == ThreadTypes /\ BoundTypes /\ \A t \in Threads : PlaceOf(t)

TypeInv == TableInv /\ Lock!TypeOK /\ ObjectTypes /\ EmissionTypes /\ Places

\* The thread t takes a step: the other threads keep their places and locals.
OnlyMoves(t) ==
  \A u \in Threads \ {t} :
    /\ pc'[u] = pc[u] /\ op'[u] = op[u] /\ rest'[u] = rest[u]
    /\ current'[u] = current[u] /\ target'[u] = target[u] /\ emission'[u] = emission[u]

LEMMA OperationFacts ==
  ASSUME NEW o \in Operations
  PROVE  /\ o.name \in {"connect", "disconnect", "disconnect_signal", "emit", "disconnect_receiver"}
         /\ o.name \in {"connect", "disconnect"} => o.signal \in Signals /\ o.node \in Connections
         /\ o.name \in {"disconnect_signal", "emit"} => o.signal \in Signals
         /\ o.name = "disconnect_receiver" => o.receiver \in Objects
  BY DEF Operations

\* A step of t that leaves t a fitting place.
LEMMA PlacesKept ==
  ASSUME Places, NEW t \in Threads, OnlyMoves(t), ThreadTypes', BoundTypes',
         emits <= emits', PlaceOf(t)'
  PROVE  Places'
<1>1. ASSUME NEW u \in Threads \ {t} PROVE PlaceOf(u)'
  <2>1. PlaceOf(u)
    BY DEF Places
  <2>2. /\ pc'[u] = pc[u] /\ op'[u] = op[u] /\ rest'[u] = rest[u]
        /\ current'[u] = current[u] /\ target'[u] = target[u] /\ emission'[u] = emission[u]
    BY DEF OnlyMoves
  <2>3. emission[u] \in 1 .. emits => emission[u] \in 1 .. emits'
    <3>1. emits \in Nat /\ emits' \in Nat
      BY SizesAssumption DEF Places, BoundTypes
    <3> QED
      BY <3>1
  <2> QED
    BY <2>1, <2>2, <2>3 DEF PlaceOf
<1> QED
  BY <1>1 DEF Places

\* A step that changes nothing of t but its place.
LEMMA GoesKeepsPlaces ==
  ASSUME Places, NEW t \in Threads, NEW from \in Labels, NEW to \in Labels, Goes(t, from, to),
         UNCHANGED <<op, rest, current, target, emission, emits, connects>>,
         to \in {"lock", "wait", "write"} => op[t] \in Operations /\ op[t].name # "emit",
         to \in {"clear", "invalidate"} =>
           op[t] \in Operations /\ op[t].name = "disconnect_receiver",
         from \in Emitting <=> to \in Emitting,
         from \in Walking \cup {"fault"} => to \in Walking \cup {"fault"},
         to \in Handling => from \in Handling,
         to \in {"post", "fault"} => from \in {"post", "fault"}
  PROVE  Places'
<1>1. pc[t] = from /\ pc' = [pc EXCEPT ![t] = to]
  BY DEF Goes
<1>2. PlaceOf(t) /\ ThreadTypes /\ BoundTypes
  BY DEF Places
<1>3. ThreadTypes' /\ BoundTypes' /\ OnlyMoves(t) /\ pc'[t] = to
  BY <1>1, <1>2 DEF ThreadTypes, BoundTypes, OnlyMoves
<1>4. PlaceOf(t)'
  BY <1>1, <1>2, <1>3 DEF PlaceOf
<1>5. emits <= emits'
  BY <1>2, SizesAssumption DEF BoundTypes
<1> QED
  BY <1>3, <1>4, <1>5, PlacesKept

\* A step after which t is idle again.
LEMMA ReturnsKeepsPlaces ==
  ASSUME Places, NEW t \in Threads, NEW from \in Labels, Returns(t, from), UNCHANGED bound_vars
  PROVE  Places'
<1>1. /\ pc' = [pc EXCEPT ![t] = "idle"] /\ op' = [op EXCEPT ![t] = Null]
      /\ rest' = [rest EXCEPT ![t] = <<>>] /\ current' = [current EXCEPT ![t] = Null]
      /\ target' = [target EXCEPT ![t] = Null] /\ emission' = [emission EXCEPT ![t] = 0]
  BY DEF Returns, Goes
<1>2. ThreadTypes /\ BoundTypes /\ emits' = emits /\ connects' = connects /\ MaxEmits \in Nat
  BY SizesAssumption DEF Places, bound_vars
<1>3. ThreadTypes' /\ BoundTypes' /\ OnlyMoves(t)
  <2>1. BoundTypes' /\ "idle" \in Labels /\ 0 \in 0 .. MaxEmits /\ <<>> \in Seq(Connections)
    BY <1>2, EmptySeq DEF BoundTypes, Labels
  <2> QED
    BY <1>1, <1>2, <2>1 DEF ThreadTypes, OnlyMoves
<1>4. PlaceOf(t)'
  <2>1. pc'[t] = "idle" /\ emission'[t] = 0 /\ rest'[t] = <<>>
    BY <1>1, <1>2 DEF ThreadTypes
  <2> QED
    BY <2>1 DEF PlaceOf, Emitting, Walking, Handling
<1>5. emits <= emits'
  BY <1>2, SizesAssumption DEF BoundTypes
<1> QED
  BY <1>3, <1>4, <1>5, PlacesKept

\* A call from the place "idle".
LEMMA CallsKeepPlaces ==
  ASSUME Places, NEW t \in Threads, NEW o \in Operations, NEW to \in Labels,
         Goes(t, "idle", to), op' = [op EXCEPT ![t] = o],
         UNCHANGED <<rest, current, target, emission, emits>>, BoundTypes',
         to = "lock" \/ (to \in {"clear", "invalidate"} /\ o.name = "disconnect_receiver"),
         o.name # "emit"
  PROVE  Places'
<1>1. pc[t] = "idle" /\ pc' = [pc EXCEPT ![t] = to]
  BY DEF Goes
<1>2. PlaceOf(t) /\ ThreadTypes /\ BoundTypes
  BY DEF Places
<1>3. ThreadTypes' /\ OnlyMoves(t) /\ pc'[t] = to /\ op'[t] = o
  BY <1>1, <1>2 DEF ThreadTypes, OnlyMoves
<1>4. PlaceOf(t)'
  BY <1>1, <1>2, <1>3 DEF PlaceOf, Emitting, Walking, Handling
<1>5. emits <= emits'
  BY <1>2, SizesAssumption DEF BoundTypes
<1> QED
  BY <1>3, <1>4, <1>5, PlacesKept

LEMMA TableCallsKeepPlaces ==
  ASSUME Places, NEW t \in Threads,
         CallConnect(t) \/ CallDisconnect(t) \/ CallDisconnectSignal(t)
  PROVE  Places'
<1>1. /\ connects < MaxConnects /\ connects' = connects + 1
      /\ UNCHANGED <<rest, current, target, emission, emits>>
  BY DEF CallConnect, CallDisconnect, CallDisconnectSignal
<1>2. BoundTypes'
  BY <1>1, SizesAssumption DEF Places, BoundTypes
<1>3. PICK o \in Operations : o.name # "emit" /\ Calls(t, o)
  <2>1. CASE CallConnect(t)
    <3>1. PICK s \in Signals, n \in Connections :
            Calls(t, [name |-> "connect", signal |-> s, node |-> n])
      BY <2>1 DEF CallConnect
    <3> DEFINE o == [name |-> "connect", signal |-> s, node |-> n]
    <3>2. o \in Operations /\ o.name # "emit"
      BY DEF Operations
    <3> QED
      BY <3>1, <3>2
  <2>2. CASE CallDisconnect(t)
    <3>1. PICK s \in Signals, n \in Connections :
            Calls(t, [name |-> "disconnect", signal |-> s, node |-> n])
      BY <2>2 DEF CallDisconnect
    <3> DEFINE o == [name |-> "disconnect", signal |-> s, node |-> n]
    <3>2. o \in Operations /\ o.name # "emit"
      BY DEF Operations
    <3> QED
      BY <3>1, <3>2
  <2>3. CASE CallDisconnectSignal(t)
    <3>1. PICK s \in Signals : Calls(t, [name |-> "disconnect_signal", signal |-> s])
      BY <2>3 DEF CallDisconnectSignal
    <3> DEFINE o == [name |-> "disconnect_signal", signal |-> s]
    <3>2. o \in Operations /\ o.name # "emit"
      BY DEF Operations
    <3> QED
      BY <3>1, <3>2
  <2> QED
    BY <2>1, <2>2, <2>3
<1>4. Goes(t, "idle", "lock") /\ op' = [op EXCEPT ![t] = o] /\ "lock" \in Labels
  BY <1>3 DEF Calls, Labels
<1> QED
  BY <1>1, <1>2, <1>3, <1>4, CallsKeepPlaces

LEMMA DestructKeepsPlaces ==
  ASSUME Places, NEW t \in Threads, Destruct(t)
  PROVE  Places'
<1>1. PICK o \in Objects :
        /\ Goes(t, "idle", IF o \in QueueOwners THEN "clear" ELSE "invalidate")
        /\ op' = [op EXCEPT ![t] = [name |-> "disconnect_receiver", receiver |-> o]]
        /\ UNCHANGED <<rest, current, target, emission, bound_vars>>
  BY DEF Destruct
<1> DEFINE call == [name |-> "disconnect_receiver", receiver |-> o]
           to == IF o \in QueueOwners THEN "clear" ELSE "invalidate"
<1>2. call \in Operations /\ call.name = "disconnect_receiver"
  BY DEF Operations
<1>3. to \in {"clear", "invalidate"} /\ to \in Labels
  BY DEF Labels
<1>4. UNCHANGED <<rest, current, target, emission, emits>> /\ BoundTypes'
  BY <1>1 DEF Places, BoundTypes, bound_vars
<1>5. Goes(t, "idle", to) /\ op' = [op EXCEPT ![t] = call]
  BY <1>1
<1> HIDE DEF call, to
<1> QED
  BY <1>2, <1>3, <1>4, <1>5, CallsKeepPlaces

LEMMA CallEmitKeepsPlaces ==
  ASSUME Places, NEW t \in Threads, CallEmit(t)
  PROVE  Places'
<1>1. PICK s \in Signals : op' = [op EXCEPT ![t] = [name |-> "emit", signal |-> s]]
  BY DEF CallEmit
<1>2. /\ pc[t] = "idle" /\ pc' = [pc EXCEPT ![t] = "emit"]
      /\ emits < MaxEmits /\ emits' = emits + 1 /\ connects' = connects
      /\ emission' = [emission EXCEPT ![t] = emits + 1]
      /\ UNCHANGED <<rest, current, target>>
  BY DEF CallEmit, Goes
<1>3. PlaceOf(t) /\ ThreadTypes /\ BoundTypes /\ MaxEmits \in Nat
  BY SizesAssumption DEF Places
<1>4. BoundTypes' /\ emits + 1 \in 0 .. MaxEmits /\ emits <= emits' /\ emits + 1 \in 1 .. emits'
  BY <1>2, <1>3 DEF BoundTypes
<1> DEFINE call == [name |-> "emit", signal |-> s]
<1>5. call \in Operations /\ call.name = "emit"
  BY DEF Operations
<1>6. "emit" \in Labels
  BY DEF Labels
<1> HIDE DEF call
<1>7. op' = [op EXCEPT ![t] = call]
  BY <1>1 DEF call
<1>8. ThreadTypes' /\ OnlyMoves(t)
  BY <1>2, <1>3, <1>4, <1>5, <1>6, <1>7 DEF ThreadTypes, OnlyMoves
<1>9. PlaceOf(t)'
  <2>1. pc'[t] = "emit" /\ op'[t] = call /\ emission'[t] \in 1 .. emits' /\ rest'[t] = rest[t]
    BY <1>2, <1>3, <1>4, <1>7 DEF ThreadTypes
  <2>2. rest[t] = <<>>
    BY <1>2, <1>3 DEF PlaceOf, Walking
  <2> QED
    BY <1>5, <2>1, <2>2 DEF PlaceOf, Emitting, Walking, Handling
<1> QED
  BY <1>3, <1>4, <1>8, <1>9, PlacesKept

LEMMA ReceiveKeepsPlaces ==
  ASSUME Places, ObjectTypes, NEW t \in Threads, Receive(t)
  PROVE  Places'
<1>1. PICK q \in QueueOwners :
        queue[q] # <<>> /\ current' = [current EXCEPT ![t] = Head(queue[q])]
  BY DEF Receive
<1>2. pc[t] = "idle" /\ pc' = [pc EXCEPT ![t] = "process"]
      /\ UNCHANGED <<op, rest, target, emission, connects, emits>>
  BY DEF Receive, Goes, bound_vars
<1>3. Head(queue[q]) \in Packages
  <2>1. queue[q] \in Seq(Packages)
    BY ReceiversAssumption DEF ObjectTypes
  <2> QED
    BY <1>1, <2>1, HeadTailProperties
<1>4. PlaceOf(t) /\ ThreadTypes /\ BoundTypes /\ "process" \in Labels
  BY DEF Places, Labels
<1>5. ThreadTypes' /\ OnlyMoves(t) /\ pc'[t] = "process" /\ current'[t] \in Packages
  BY <1>1, <1>2, <1>3, <1>4 DEF ThreadTypes, OnlyMoves
<1>6. BoundTypes' /\ emits <= emits'
  BY <1>2, <1>4, SizesAssumption DEF BoundTypes
<1>7. PlaceOf(t)'
  BY <1>2, <1>4, <1>5 DEF PlaceOf, Emitting, Walking, Handling
<1> QED
  BY <1>5, <1>6, <1>7, PlacesKept

LEMMA BeginWalkKeepsPlaces ==
  ASSUME Places, TableInv, NEW t \in Threads, BeginWalk(t)
  PROVE  Places'
<1> DEFINE nodes == NodesOf(op[t].signal)
<1>1. /\ pc[t] = "walk" /\ pc' = [pc EXCEPT ![t] = "visit"]
      /\ rest' = [rest EXCEPT ![t] = nodes]
      /\ UNCHANGED <<op, current, target, emission, connects, emits>>
  BY DEF BeginWalk, Goes, bound_vars
<1>2. PlaceOf(t) /\ ThreadTypes /\ BoundTypes /\ "visit" \in Labels
  BY DEF Places, Labels
<1>3. nodes \in Seq(Connections)
  <2>1. op[t] \in Operations /\ op[t].name = "emit"
    BY <1>1, <1>2 DEF PlaceOf, Emitting
  <2>2. op[t].signal \in Signals
    BY <2>1, OperationFacts
  <2>3. table[op[t].signal] \in Groups \cup {Null}
    BY <2>2 DEF TableInv
  <2> QED
    BY <2>3, ListsAreSequences DEF NodesOf, ListOf
<1> HIDE DEF nodes
<1>4. ThreadTypes' /\ OnlyMoves(t) /\ pc'[t] = "visit"
  BY <1>1, <1>2, <1>3 DEF ThreadTypes, OnlyMoves
<1>5. BoundTypes' /\ emits <= emits'
  BY <1>1, <1>2, SizesAssumption DEF BoundTypes
<1>6. PlaceOf(t)'
  BY <1>1, <1>2, <1>4 DEF PlaceOf, Emitting, Walking, Handling
<1> QED
  BY <1>4, <1>5, <1>6, PlacesKept

\* The queue of a receiver, or none.
LEMMA QueueForType ==
  ASSUME NEW n, NEW t
  PROVE  QueueFor(n, t) \in QueueOwners \cup {Null}
  BY DEF QueueFor, HasQueue

LEMMA VisitKeepsPlaces ==
  ASSUME Places, NEW t \in Threads, Visit(t)
  PROVE  Places'
<1> DEFINE n == Head(rest[t])
           to == IF QueueFor(n, t) = Null THEN "execute" ELSE "post"
           package == [receiver |-> n.receiver, handle |-> n.handle,
                       emission |-> IF Blocks(n) THEN emission[t] ELSE 0]
<1>1. /\ pc[t] = "visit" /\ rest[t] # <<>> /\ pc' = [pc EXCEPT ![t] = to]
      /\ rest' = [rest EXCEPT ![t] = Tail(@)]
      /\ current' = [current EXCEPT ![t] = package]
      /\ target' = [target EXCEPT ![t] = QueueFor(n, t)]
      /\ UNCHANGED <<op, emission, connects, emits>>
  BY DEF Visit, Goes, bound_vars
<1>2. PlaceOf(t) /\ ThreadTypes /\ BoundTypes /\ rest[t] \in Seq(Connections)
  BY DEF Places, ThreadTypes
<1>3. n \in Connections /\ Tail(rest[t]) \in Seq(Connections)
  BY <1>1, <1>2, HeadTailProperties
<1>4. package \in Packages
  <2>1. n.receiver \in Receivers \cup {Null} /\ n.handle \in {1, 2}
    BY <1>3, ConnectionsAssumption DEF Nodes
  <2>2. emission[t] \in 0 .. MaxEmits /\ 0 \in 0 .. MaxEmits
    BY <1>2, SizesAssumption DEF ThreadTypes
  <2> HIDE DEF n
  <2> QED
    BY <2>1, <2>2 DEF Packages
<1>5. QueueFor(n, t) \in QueueOwners \cup {Null} /\ to \in Labels
  BY QueueForType DEF Labels
<1> HIDE DEF n, package
<1>6. ThreadTypes' /\ OnlyMoves(t)
  BY <1>1, <1>2, <1>3, <1>4, <1>5 DEF ThreadTypes, OnlyMoves
<1>7. BoundTypes' /\ emits <= emits'
  BY <1>1, <1>2, SizesAssumption DEF BoundTypes
<1>8. PlaceOf(t)'
  <2>1. /\ pc'[t] = to /\ current'[t] = package /\ target'[t] = QueueFor(n, t)
        /\ op'[t] = op[t] /\ emission'[t] = emission[t] /\ emits' = emits
    BY <1>1, <1>2 DEF ThreadTypes
  <2>2. op[t] \in Operations /\ op[t].name = "emit" /\ emission[t] \in 1 .. emits
    BY <1>1, <1>2 DEF PlaceOf, Emitting
  <2>3. to = "execute" \/ (to = "post" /\ QueueFor(n, t) # Null)
    OBVIOUS
  <2> HIDE DEF to
  <2> QED
    BY <1>4, <1>5, <2>1, <2>2, <2>3 DEF PlaceOf, Emitting, Walking, Handling
<1> QED
  BY <1>2, <1>6, <1>7, <1>8, PlacesKept

LEMMA LockStepsKeepPlaces ==
  ASSUME Places, NEW t \in Threads,
         AnnounceWrite(t) \/ BeginWrite(t) \/ LockEmit(t) \/ Count(t)
  PROVE  Places'
<1>1. PlaceOf(t) /\ UNCHANGED <<op, rest, current, target, emission, emits, connects>>
  BY DEF Places, AnnounceWrite, BeginWrite, LockEmit, Count, bound_vars
<1>2. PICK from \in Labels, to \in Labels :
        Goes(t, from, to) /\ <<from, to>> \in {<<"lock", "wait">>, <<"wait", "write">>,
                                               <<"emit", "count">>, <<"count", "walk">>}
  BY DEF AnnounceWrite, BeginWrite, LockEmit, Count, Labels
<1>3. pc[t] = from
  BY <1>2 DEF Goes
<1>4. CASE from \in {"lock", "wait"}
  <2>1. to \in {"wait", "write"} /\ op[t] \in Operations /\ op[t].name # "emit"
    BY <1>1, <1>2, <1>3, <1>4 DEF PlaceOf
  <2> QED
    BY <1>1, <1>2, <1>4, <2>1, GoesKeepsPlaces DEF Emitting, Walking, Handling
<1>5. CASE from \in {"emit", "count"}
  <2>1. to \in {"count", "walk"}
    BY <1>2, <1>5
  <2> QED
    BY <1>1, <1>2, <1>5, <2>1, GoesKeepsPlaces DEF Emitting, Walking, Handling
<1> QED
  BY <1>2, <1>4, <1>5

LEMMA HandlingStepsKeepPlaces ==
  ASSUME Places, NEW t \in Threads,
         \/ Execute(t) \/ ExecuteFails(t) \/ HandlerReturns(t)
         \/ Posts(t) \/ PostFails(t) \/ PostFaults(t) \/ Process(t)
  PROVE  Places'
<1>1. PlaceOf(t) /\ UNCHANGED <<op, rest, current, target, emission, emits, connects>>
  BY DEF Places, Execute, ExecuteFails, HandlerReturns, Posts, PostFails, PostFaults, Process,
         bound_vars
<1>2. PICK from \in Labels, to \in Labels :
        Goes(t, from, to) /\ <<from, to>> \in {<<"execute", "handler">>, <<"execute", "visit">>,
                                               <<"handler", "visit">>, <<"post", "visit">>,
                                               <<"post", "fault">>, <<"process", "serve">>}
  BY DEF Execute, ExecuteFails, HandlerReturns, Posts, PostFails, PostFaults, Process, Labels
<1>3. /\ from \in {"execute", "handler", "post"} => to \in {"handler", "visit", "fault"}
      /\ to = "fault" => from = "post"
      /\ from \in {"execute", "handler", "post"} \/ (from = "process" /\ to = "serve")
  BY <1>2
<1> QED
  BY <1>1, <1>2, <1>3, GoesKeepsPlaces DEF Emitting, Walking, Handling

LEMMA DestructionStepsKeepPlaces ==
  ASSUME Places, NEW t \in Threads, ClearOne(t) \/ Cleared(t) \/ Invalidate(t)
  PROVE  Places'
<1>1. PlaceOf(t) /\ UNCHANGED <<op, rest, current, target, emission, emits, connects>>
  BY DEF Places, ClearOne, Cleared, Invalidate, bound_vars
<1>2. PICK from \in Labels, to \in Labels :
        Goes(t, from, to) /\ <<from, to>> \in {<<"clear", "clear">>, <<"clear", "invalidate">>,
                                               <<"invalidate", "lock">>}
  BY DEF ClearOne, Cleared, Invalidate, Labels
<1>3. from \in {"clear", "invalidate"} /\ to \in {"clear", "invalidate", "lock"} /\ pc[t] = from
  BY <1>2 DEF Goes
<1>4. op[t] \in Operations /\ op[t].name = "disconnect_receiver"
  BY <1>1, <1>3 DEF PlaceOf
<1> QED
  BY <1>1, <1>2, <1>3, <1>4, GoesKeepsPlaces DEF Emitting, Walking, Handling

LEMMA EndsKeepPlaces ==
  ASSUME Places, NEW t \in Threads,
         \/ AddConnection(t) \/ RemoveConnection(t) \/ RemoveSignal(t) \/ RemoveReceiver(t)
         \/ OutOfSemaphores(t) \/ EndEmit(t) \/ DestroyPackage(t)
  PROVE  Places'
<1>1. UNCHANGED bound_vars
  BY DEF AddConnection, RemoveConnection, RemoveSignal, RemoveReceiver, OutOfSemaphores, EndEmit,
         DestroyPackage
<1>2. \E from \in Labels : Returns(t, from)
  BY DEF AddConnection, RemoveConnection, RemoveSignal, RemoveReceiver, OutOfSemaphores, EndEmit,
         DestroyPackage, Unlocks, Labels
<1> QED
  BY <1>1, <1>2, ReturnsKeepsPlaces

\* The steps of a thread, and its names.
LEMMA NextPlaces ==
  ASSUME Places, ObjectTypes, TableInv, NEW t \in Threads,
         TableStep(t) \/ EmitStep(t) \/ ObjectStep(t)
  PROVE  Places'
<1>1. CASE TableStep(t)
  BY <1>1, TableCallsKeepPlaces, LockStepsKeepPlaces, EndsKeepPlaces DEF TableStep
<1>2. CASE EmitStep(t)
  BY <1>2, CallEmitKeepsPlaces, LockStepsKeepPlaces, BeginWalkKeepsPlaces, VisitKeepsPlaces,
     HandlingStepsKeepPlaces, EndsKeepPlaces DEF EmitStep
<1>3. CASE ObjectStep(t)
  BY <1>3, ReceiveKeepsPlaces, HandlingStepsKeepPlaces, EndsKeepPlaces, DestructKeepsPlaces,
     DestructionStepsKeepPlaces DEF ObjectStep
<1> QED
  BY <1>1, <1>2, <1>3

-------------------------------------------------------------------------------
(* The objects and the emissions *)

LEMMA CapacityIsNat == Capacity \in Nat
  BY SizesAssumption DEF Capacity

LEMMA QuotientOfNothing == 0 \div Words = 0
  BY SizesAssumption

\* A package at the end of a queue with room, or one less at its front.
LEMMA QueueKept ==
  ASSUME ObjectTypes, NEW q \in Receivers,
         \/ \E p \in Packages :
              Len(queue[q]) < Capacity /\ queue' = [queue EXCEPT ![q] = Append(@, p)]
         \/ queue[q] # <<>> /\ queue' = [queue EXCEPT ![q] = Tail(@)]
  PROVE  queue' \in [Receivers -> Seq(Packages)] /\ \A r \in Receivers : Len(queue'[r]) <= Capacity
<1>1. /\ queue \in [Receivers -> Seq(Packages)] /\ queue[q] \in Seq(Packages)
      /\ \A r \in Receivers : Len(queue[r]) <= Capacity
      /\ Len(queue[q]) \in Nat /\ Capacity \in Nat
  BY CapacityIsNat, LenProperties DEF ObjectTypes
<1>2. PICK s \in Seq(Packages) : Len(s) <= Capacity /\ queue' = [queue EXCEPT ![q] = s]
  <2>1. CASE \E p \in Packages :
              Len(queue[q]) < Capacity /\ queue' = [queue EXCEPT ![q] = Append(@, p)]
    <3>1. PICK p \in Packages :
              Len(queue[q]) < Capacity /\ queue' = [queue EXCEPT ![q] = Append(@, p)]
      BY <2>1
    <3>2. Append(queue[q], p) \in Seq(Packages) /\ Len(Append(queue[q], p)) = Len(queue[q]) + 1
      BY <1>1, AppendProperties
    <3>3. Len(Append(queue[q], p)) <= Capacity
      BY <1>1, <3>1, <3>2
    <3> QED
      BY <3>1, <3>2, <3>3
  <2>2. CASE queue[q] # <<>> /\ queue' = [queue EXCEPT ![q] = Tail(@)]
    <3>1. Tail(queue[q]) \in Seq(Packages) /\ Len(Tail(queue[q])) = Len(queue[q]) - 1
      BY <1>1, <2>2, HeadTailProperties
    <3>2. Len(Tail(queue[q])) <= Capacity
      BY <1>1, <3>1
    <3> QED
      BY <2>2, <3>1, <3>2
  <2> QED
    BY <2>1, <2>2
<1> QED
  BY <1>1, <1>2

\* enqueued() is not 0 only when there is a package.
LEMMA EnqueuedIsThere ==
  ASSUME ObjectTypes, NEW q \in Receivers, enqueued(q) > 0
  PROVE  queue[q] # <<>>
<1>1. SUFFICES ASSUME queue[q] = <<>> PROVE FALSE
  OBVIOUS
<1>2. Len(queue[q]) = 0
  BY <1>1, EmptySeq
<1>3. enqueued(q) = 0
  BY <1>2, QuotientOfNothing DEF enqueued
<1> QED
  BY <1>3

LEMMA NextObjects ==
  ASSUME ObjectTypes, Places, NEW t \in Threads,
         TableStep(t) \/ EmitStep(t) \/ ObjectStep(t)
  PROVE  ObjectTypes'
<1> USE DEF object_vars
<1>0. ASSUME UNCHANGED object_vars PROVE ObjectTypes'
  BY <1>0 DEF ObjectTypes
<1>1. ASSUME NEW o \in Objects, NEW l \in {"cleared", "invalid", "gone"},
             life' = [life EXCEPT ![o] = l], queue' = queue,
             \/ UNCHANGED <<m_valid, affinity>>
             \/ m_valid' = [m_valid EXCEPT ![o] = FALSE] /\ affinity' = [affinity EXCEPT ![o] = Null]
      PROVE  ObjectTypes'
  BY <1>1 DEF ObjectTypes, Receivers
<1>2. PlaceOf(t)
  BY DEF Places
<1>3. CASE RemoveReceiver(t)
  <2>1. op[t].receiver \in Objects
    <3>1. pc[t] = "write" /\ op[t].name = "disconnect_receiver"
      BY <1>3 DEF RemoveReceiver, Unlocks, Returns, Goes
    <3> QED
      BY <1>2, <3>1, OperationFacts DEF PlaceOf
  <2> QED
    BY <1>1, <1>3, <2>1 DEF RemoveReceiver
<1>4. CASE Cleared(t) \/ Invalidate(t)
  <2>1. op[t].receiver \in Objects
    <3>1. pc[t] \in {"clear", "invalidate"}
      BY <1>4 DEF Cleared, Invalidate, Goes
    <3> QED
      BY <1>2, <3>1, OperationFacts DEF PlaceOf
  <2> QED
    BY <1>1, <1>4, <2>1 DEF Cleared, Invalidate
<1>5. CASE Posts(t)
  <2>1. pc[t] = "post" /\ queue' = [queue EXCEPT ![target[t]] = Append(@, current[t])]
        /\ Len(queue[target[t]]) < Capacity /\ UNCHANGED <<life, m_valid, affinity>>
    BY <1>5 DEF Posts, Goes
  <2>2. target[t] \in Receivers /\ current[t] \in Packages
    BY <1>2, <2>1, ReceiversAssumption DEF PlaceOf, Handling
  <2>3. queue' \in [Receivers -> Seq(Packages)] /\ \A r \in Receivers : Len(queue'[r]) <= Capacity
    BY <2>1, <2>2, QueueKept
  <2> QED
    BY <2>1, <2>3 DEF ObjectTypes
<1>6. CASE Receive(t)
  <2>1. PICK q \in QueueOwners : queue[q] # <<>> /\ queue' = [queue EXCEPT ![q] = Tail(@)]
    BY <1>6 DEF Receive
  <2>2. queue' \in [Receivers -> Seq(Packages)] /\ \A r \in Receivers : Len(queue'[r]) <= Capacity
    BY <2>1, ReceiversAssumption, QueueKept
  <2>3. UNCHANGED <<life, m_valid, affinity>>
    BY <1>6 DEF Receive
  <2> QED
    BY <2>2, <2>3 DEF ObjectTypes
<1>7. CASE ClearOne(t)
  <2> DEFINE o == op[t].receiver
  <2>1. /\ pc[t] = "clear" /\ enqueued(o) > 0 /\ queue' = [queue EXCEPT ![o] = Tail(@)]
        /\ UNCHANGED <<life, m_valid, affinity>>
    BY <1>7 DEF ClearOne, Goes
  <2>2. o \in Receivers
    BY <1>2, <2>1, OperationFacts DEF PlaceOf, Receivers
  <2>3. queue[o] # <<>>
    BY <2>1, <2>2, EnqueuedIsThere
  <2>4. queue' \in [Receivers -> Seq(Packages)] /\ \A r \in Receivers : Len(queue'[r]) <= Capacity
    BY <2>1, <2>2, <2>3, QueueKept
  <2> QED
    BY <2>1, <2>4 DEF ObjectTypes
<1>8. CASE UNCHANGED object_vars
  BY <1>0, <1>8
<1>9. TableStep(t) => UNCHANGED object_vars \/ RemoveReceiver(t)
  BY DEF TableStep, CallConnect, CallDisconnect, CallDisconnectSignal, AnnounceWrite, BeginWrite,
         AddConnection, RemoveConnection, RemoveSignal
<1>10. EmitStep(t) => UNCHANGED object_vars \/ Posts(t)
  BY DEF EmitStep, CallEmit, LockEmit, Count, OutOfSemaphores, BeginWalk, Visit, Execute,
         ExecuteFails, HandlerReturns, PostFails, PostFaults, EndEmit
<1>11. ObjectStep(t) =>
         UNCHANGED object_vars \/ Receive(t) \/ ClearOne(t) \/ Cleared(t) \/ Invalidate(t)
  BY DEF ObjectStep, Process, DestroyPackage, Destruct
<1> QED
  BY <1>3, <1>4, <1>5, <1>6, <1>7, <1>8, <1>9, <1>10, <1>11

LEMMA ReleaseKept ==
  ASSUME EmissionTypes, NEW e \in 0 .. MaxEmits, Releases(e)
  PROVE  released' \in [1 .. MaxEmits -> Nat]
<1>1. CASE e = 0
  BY <1>1 DEF Releases, EmissionTypes
<1>2. CASE e # 0
  <2>1. e \in 1 .. MaxEmits /\ released' = [released EXCEPT ![e] = @ + 1]
    BY <1>2, SizesAssumption DEF Releases
  <2> QED
    BY <2>1 DEF EmissionTypes
<1> QED
  BY <1>1, <1>2

LEMMA EmissionNumber ==
  ASSUME Places, NEW t \in Threads
  PROVE  /\ pc[t] \in Emitting => emission[t] \in 1 .. MaxEmits /\ op[t].signal \in Signals
         /\ pc[t] \in Handling => current[t] \in Packages /\ current[t].emission \in 0 .. MaxEmits
<1>1. PlaceOf(t) /\ emits \in 0 .. MaxEmits /\ MaxEmits \in Nat
  BY SizesAssumption DEF Places, BoundTypes
<1>2. pc[t] \in Emitting => emission[t] \in 1 .. MaxEmits
  BY <1>1 DEF PlaceOf
<1>3. pc[t] \in Emitting => op[t].signal \in Signals
  BY <1>1, OperationFacts DEF PlaceOf
<1>4. pc[t] \in Handling => current[t] \in Packages /\ current[t].emission \in 0 .. MaxEmits
  BY <1>1 DEF PlaceOf, Packages
<1> QED
  BY <1>2, <1>3, <1>4

LEMMA NextEmissions ==
  ASSUME EmissionTypes, ObjectTypes, TableInv, Places, NEW t \in Threads,
         TableStep(t) \/ EmitStep(t) \/ ObjectStep(t)
  PROVE  EmissionTypes'
<1>0. ASSUME UNCHANGED emission_vars PROVE EmissionTypes'
  BY <1>0 DEF EmissionTypes, emission_vars
<1>1. CASE Count(t)
  <2> DEFINE s == op[t].signal
             n == IF table[s] = Null THEN 0 ELSE table[s].blocking_count
  <2>1. /\ total' = [total EXCEPT ![emission[t]] = n] /\ UNCHANGED <<released, owed>>
        /\ pc[t] = "count"
    BY <1>1 DEF Count, Goes
  <2>2. emission[t] \in 1 .. MaxEmits /\ s \in Signals
    BY <2>1, EmissionNumber DEF Emitting
  <2>3. n \in Nat
    <3>1. table[s] \in Groups \cup {Null}
      BY <2>2 DEF TableInv
    <3> QED
      BY <3>1, ListsAreSequences
  <2> HIDE DEF n
  <2> QED
    BY <2>1, <2>2, <2>3 DEF EmissionTypes
<1>2. CASE BeginWalk(t)
  <2> DEFINE s == op[t].signal
             n == BlockingNodes(NodesOf(s))
  <2>1. /\ owed' = [owed EXCEPT ![emission[t]] = n] /\ UNCHANGED <<released, total>>
        /\ pc[t] = "walk"
    BY <1>2 DEF BeginWalk, Goes
  <2>2. emission[t] \in 1 .. MaxEmits /\ s \in Signals
    BY <2>1, EmissionNumber DEF Emitting
  <2>3. n \in Nat
    <3>1. table[s] \in Groups \cup {Null} /\ NodesOf(s) = ListOf(table[s])
      BY <2>2 DEF TableInv, NodesOf, ListOf
    <3>2. NodesOf(s) \in Seq(Connections)
      BY <3>1, ListsAreSequences
    <3> QED
      BY <3>2, BlockingNodesIsNat
  <2> HIDE DEF n
  <2> QED
    BY <2>1, <2>2, <2>3 DEF EmissionTypes
<1>3. CASE ExecuteFails(t) \/ HandlerReturns(t) \/ PostFails(t) \/ DestroyPackage(t)
  <2>1. /\ pc[t] \in Handling /\ Releases(current[t].emission) /\ UNCHANGED <<total, owed>>
    BY <1>3 DEF ExecuteFails, HandlerReturns, PostFails, DestroyPackage, Returns, Goes, Handling
  <2>2. released' \in [1 .. MaxEmits -> Nat]
    BY <2>1, EmissionNumber, ReleaseKept
  <2> QED
    BY <2>1, <2>2 DEF EmissionTypes
<1>4. CASE ClearOne(t)
  <2> DEFINE o == op[t].receiver
  <2>1. /\ pc[t] = "clear" /\ enqueued(o) > 0 /\ Releases(Head(queue[o]).emission)
        /\ UNCHANGED <<total, owed>>
    BY <1>4 DEF ClearOne, Goes
  <2>2. o \in Receivers
    BY <2>1, OperationFacts DEF Places, PlaceOf, Receivers
  <2>3. queue[o] # <<>> /\ queue[o] \in Seq(Packages)
    BY <2>1, <2>2, EnqueuedIsThere DEF ObjectTypes
  <2>4. Head(queue[o]) \in Packages
    BY <2>3, HeadTailProperties
  <2>5. Head(queue[o]).emission \in 0 .. MaxEmits
    <3> HIDE DEF o
    <3> QED
      BY <2>4 DEF Packages
  <2>6. released' \in [1 .. MaxEmits -> Nat]
    BY <2>1, <2>5, ReleaseKept
  <2> QED
    BY <2>1, <2>6 DEF EmissionTypes
<1>5. CASE UNCHANGED emission_vars
  BY <1>0, <1>5
<1>6. TableStep(t) => UNCHANGED emission_vars
  BY DEF TableStep, CallConnect, CallDisconnect, CallDisconnectSignal, AnnounceWrite, BeginWrite,
         AddConnection, RemoveConnection, RemoveSignal, RemoveReceiver
<1>7. EmitStep(t) => \/ UNCHANGED emission_vars \/ Count(t) \/ BeginWalk(t)
                     \/ ExecuteFails(t) \/ HandlerReturns(t) \/ PostFails(t)
  BY DEF EmitStep, CallEmit, LockEmit, OutOfSemaphores, Visit, Execute, Posts, PostFaults, EndEmit
<1>8. ObjectStep(t) => UNCHANGED emission_vars \/ DestroyPackage(t) \/ ClearOne(t)
  BY DEF ObjectStep, Receive, Process, Destruct, Cleared, Invalidate
<1> QED
  BY <1>1, <1>2, <1>3, <1>4, <1>5, <1>6, <1>7, <1>8

-------------------------------------------------------------------------------
(* Every step keeps the types *)

LEMMA NextTable ==
  ASSUME TableInv, Places, NEW t \in Threads,
         TableStep(t) \/ EmitStep(t) \/ ObjectStep(t)
  PROVE  TableInv'
<1>1. ASSUME AddConnection(t) \/ RemoveConnection(t) \/ RemoveSignal(t)
      PROVE  /\ op[t].signal \in Signals
             /\ AddConnection(t) => op[t].node \in Connections
  <2>1. /\ pc[t] = "write" /\ op[t].name \in {"connect", "disconnect", "disconnect_signal"}
        /\ AddConnection(t) => op[t].name = "connect"
    BY <1>1 DEF AddConnection, RemoveConnection, RemoveSignal, Unlocks, Returns, Goes
  <2>2. op[t] \in Operations
    BY <2>1 DEF Places, PlaceOf
  <2> QED
    BY <2>1, <2>2, OperationFacts
<1>2. TableStep(t) => \/ UNCHANGED table_vars \/ AddConnection(t) \/ RemoveConnection(t)
                      \/ RemoveSignal(t) \/ RemoveReceiver(t)
  BY DEF TableStep, CallConnect, CallDisconnect, CallDisconnectSignal, AnnounceWrite, BeginWrite
<1>3. EmitStep(t) => UNCHANGED table_vars
  BY DEF EmitStep, CallEmit, LockEmit, Count, OutOfSemaphores, BeginWalk, Visit, Execute,
         ExecuteFails, HandlerReturns, Posts, PostFails, PostFaults, EndEmit
<1>4. ObjectStep(t) => UNCHANGED table_vars
  BY DEF ObjectStep, Receive, Process, DestroyPackage, Destruct, ClearOne, Cleared, Invalidate
<1> QED
  BY <1>1, <1>2, <1>3, <1>4, TableUnchanged, AddConnectionKeepsTable, RemoveConnectionKeepsTable,
     RemoveSignalKeepsTable, RemoveReceiverKeepsTable

\* What a step does to the lock: what ReadWriteExclusion allows, or nothing.
LEMMA NextLock ==
  ASSUME NEW t \in Threads, TableStep(t) \/ EmitStep(t) \/ ObjectStep(t)
  PROVE  \/ UNCHANGED lock_vars
         \/ Lock!BeginRead(t) \/ Lock!EndRead(t)
         \/ Lock!AnnounceWrite(t) \/ Lock!BeginWrite(t) \/ Lock!EndWrite(t)
<1>1. TableStep(t) => \/ UNCHANGED lock_vars \/ Lock!AnnounceWrite(t) \/ Lock!BeginWrite(t)
                      \/ Lock!EndWrite(t)
  BY DEF TableStep, CallConnect, CallDisconnect, CallDisconnectSignal, AnnounceWrite, BeginWrite,
         AddConnection, RemoveConnection, RemoveSignal, RemoveReceiver, Unlocks
<1>2. EmitStep(t) => UNCHANGED lock_vars \/ Lock!BeginRead(t) \/ Lock!EndRead(t)
  BY DEF EmitStep, CallEmit, LockEmit, Count, OutOfSemaphores, BeginWalk, Visit, Execute,
         ExecuteFails, HandlerReturns, Posts, PostFails, PostFaults, EndEmit
<1>3. ObjectStep(t) => UNCHANGED lock_vars
  BY DEF ObjectStep, Receive, Process, DestroyPackage, Destruct, ClearOne, Cleared, Invalidate
<1> QED
  BY <1>1, <1>2, <1>3

LEMMA NextTypes == TypeInv /\ [Next]_vars => TypeInv'
<1>1. SUFFICES ASSUME TypeInv, [Next]_vars PROVE TypeInv'
  OBVIOUS
<1>2. CASE UNCHANGED vars
  <2>1. UNCHANGED <<table_vars, lock_vars, object_vars, thread_vars, emission_vars, bound_vars>>
    BY <1>2 DEF vars
  <2>2. TableInv'
    BY <1>1, <2>1, TableUnchanged DEF TypeInv
  <2>3. Lock!TypeOK' /\ ObjectTypes' /\ EmissionTypes'
    BY <1>1, <2>1 DEF TypeInv, Lock!TypeOK, ObjectTypes, EmissionTypes, lock_vars, object_vars,
                      emission_vars
  <2>4. Places'
    BY <1>1, <2>1 DEF TypeInv, Places, PlaceOf, ThreadTypes, BoundTypes, thread_vars, bound_vars
  <2> QED
    BY <2>2, <2>3, <2>4 DEF TypeInv
<1>3. ASSUME NEW t \in Threads, TableStep(t) \/ EmitStep(t) \/ ObjectStep(t)
      PROVE  TypeInv'
  <2>1. TableInv' /\ ObjectTypes' /\ EmissionTypes' /\ Places'
    BY <1>1, <1>3, NextTable, NextObjects, NextEmissions, NextPlaces DEF TypeInv
  <2>2. Lock!TypeOK'
    BY <1>1, <1>3, NextLock
       DEF TypeInv, Lock!TypeOK, lock_vars, Lock!BeginRead, Lock!EndRead, Lock!AnnounceWrite,
           Lock!BeginWrite, Lock!EndWrite
  <2> QED
    BY <2>1, <2>2 DEF TypeInv
<1> QED
  BY <1>1, <1>2, <1>3 DEF Next

LEMMA InitTypes == Init => TypeInv
<1>1. SUFFICES ASSUME Init PROVE TypeInv
  OBVIOUS
<1>2. \A s \in Signals : table[s] = Null /\ NodesOf(s) = <<>>
  BY <1>1 DEF Init, NodesOf
<1>3. Sizes = [s \in Signals |-> 0] /\ Sizes \in SizeFunctions /\ Used(Sizes) = {}
  <2>1. \A s \in Signals : Len(NodesOf(s)) = 0
    BY <1>2, EmptySeq
  <2>2. Sizes = [s \in Signals |-> 0]
    BY <2>1 DEF Sizes
  <2>3. Sizes \in SizeFunctions
    BY <2>2, SizesAssumption DEF SizeFunctions
  <2>4. \A x \in Signals \X (1 .. MaxNodes) : ~ (x[2] <= Sizes[x[1]])
    BY <2>2, SizesAssumption
  <2> QED
    BY <2>2, <2>3, <2>4 DEF Used
<1>4. NodesKept
  <2>1. Cardinality(Used(Sizes)) = 0
    BY <1>3, FS_EmptySet
  <2> QED
    BY <1>1, <1>3, <2>1, SizesAssumption DEF NodesKept, Init
<1>5. TableInv
  <2>1. free_groups \in Seq(Nat)
    <3>1. free_groups \in [1 .. MaxGroups -> Nat]
      BY <1>1 DEF Init
    <3> QED
      BY <3>1, SizesAssumption
  <2> QED
    BY <1>1, <1>2, <1>4, <2>1 DEF TableInv, GroupCounts, Init
<1>6. Lock!TypeOK
  BY <1>1 DEF Init, Lock!Init, Lock!TypeOK
<1>7. ObjectTypes
  <2>1. PICK f \in [Objects -> Threads \cup {Null}] :
          affinity = [r \in Receivers |-> IF r \in Threads THEN r ELSE f[r]]
    BY <1>1 DEF Init
  <2>2. affinity \in [Receivers -> Threads \cup {Null}]
    BY <2>1 DEF Receivers
  <2>3. queue = [r \in Receivers |-> <<>>] /\ <<>> \in Seq(Packages) /\ Len(<<>>) = 0
    BY <1>1, EmptySeq DEF Init
  <2>4. \A r \in Receivers : Len(queue[r]) <= Capacity
    BY <2>3, CapacityIsNat
  <2> QED
    BY <1>1, <2>2, <2>3, <2>4 DEF Init, ObjectTypes
<1>8. EmissionTypes
  BY <1>1 DEF Init, EmissionTypes
<1>9. Places
  <2>1. BoundTypes
    BY <1>1, SizesAssumption DEF Init, BoundTypes
  <2>2. ThreadTypes
    BY <1>1, SizesAssumption, EmptySeq DEF Init, ThreadTypes, Labels
  <2>3. \A t \in Threads : PlaceOf(t)
    BY <1>1 DEF Init, PlaceOf, Emitting, Walking, Handling
  <2> QED
    BY <2>1, <2>2, <2>3 DEF Places
<1> QED
  BY <1>5, <1>6, <1>7, <1>8, <1>9 DEF TypeInv

LEMMA TypeInvHolds == Spec => []TypeInv
  BY InitTypes, NextTypes, PTL DEF Spec

\* The variables keep their types: the pools never give out more blocks than they
\* have or take one back twice, and a queue never holds more packages than its
\* storage has room for (Signal_Hash_Table, Message_Queue).
THEOREM TypeCorrect == Spec => []TypeOK
<1>1. TypeInv => TypeOK
  <2>1. SUFFICES ASSUME TypeInv PROVE TypeOK
    OBVIOUS
  <2>2. free_nodes \in 0 .. MaxNodes
    <3>1. /\ Sizes \in SizeFunctions /\ free_nodes \in Nat
          /\ free_nodes + Cardinality(Used(Sizes)) = MaxNodes
      BY <2>1 DEF TypeInv, TableInv, NodesKept
    <3>2. Cardinality(Used(Sizes)) \in Nat
      BY <3>1, UsedIsFinite
    <3> QED
      BY <3>1, <3>2, SizesAssumption
  <2> QED
    BY <2>1, <2>2 DEF TypeInv, TypeOK, TableInv, ObjectTypes, EmissionTypes, Places, ThreadTypes,
                      BoundTypes
<1> QED
  BY <1>1, TypeInvHolds, PTL

\* After any connects, disconnects, destroyed receivers and destroyed signals,
\* blocking_count has not drifted from the number of the group's blocking
\* connections, but for what the block held when it was taken from the pool
\* (add_connection, remove_connection, remove_receiver).
THEOREM CountDoesNotDrift == Spec => []CountFollows
<1>1. TypeInv => CountFollows
  BY DEF TypeInv, TableInv, GroupCounts, CountFollows
<1> QED
  BY <1>1, TypeInvHolds, PTL
===============================================================================
