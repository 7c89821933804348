-------------------------------- MODULE Counting --------------------------------
(***************************************************************************)
(* Bounds on the size of a set of jobs after one of the updates the queue  *)
(* workers make: a job leaves, a job is replaced, jobs are added.          *)
(***************************************************************************)
EXTENDS FiniteSetTheorems, TLAPS

LEMMA CountType ==
  ASSUME NEW S, IsFiniteSet(S)
  PROVE  Cardinality(S) \in Nat
BY FS_CardinalityType

LEMMA CountSubset ==
  ASSUME NEW S, NEW T, IsFiniteSet(T), S \subseteq T
  PROVE  IsFiniteSet(S) /\ Cardinality(S) \in Nat /\ Cardinality(S) <= Cardinality(T)
BY FS_Subset, FS_CardinalityType

LEMMA CountRemove ==
  ASSUME NEW S, IsFiniteSet(S), NEW j \in S
  PROVE  /\ IsFiniteSet(S \ {j})
         /\ Cardinality(S \ {j}) \in Nat
         /\ Cardinality(S \ {j}) = Cardinality(S) - 1
BY FS_RemoveElement, FS_CardinalityType

LEMMA CountAdd ==
  ASSUME NEW S, IsFiniteSet(S), NEW k
  PROVE  /\ IsFiniteSet(S \union {k})
         /\ Cardinality(S \union {k}) \in Nat
         /\ Cardinality(S \union {k}) <= Cardinality(S) + 1
<1>1. Cardinality(S) \in Nat
  BY FS_CardinalityType
<1>2. IsFiniteSet(S \union {k})
  BY FS_AddElement
<1>3. Cardinality(S \union {k}) = IF k \in S THEN Cardinality(S) ELSE Cardinality(S) + 1
  BY FS_AddElement
<1>. QED  BY ONLY <1>1, <1>2, <1>3

LEMMA CountReplace ==
  ASSUME NEW S, IsFiniteSet(S), NEW j \in S, NEW k
  PROVE  /\ IsFiniteSet((S \ {j}) \union {k})
         /\ Cardinality((S \ {j}) \union {k}) \in Nat
         /\ Cardinality((S \ {j}) \union {k}) <= Cardinality(S)
<1> DEFINE T == S \ {j}
<1>1. IsFiniteSet(T) /\ Cardinality(T) \in Nat /\ Cardinality(T) = Cardinality(S) - 1
  BY CountRemove
<1>2. Cardinality(S) \in Nat
  BY CountType
<1> HIDE DEF T
<1>3. /\ IsFiniteSet(T \union {k})
      /\ Cardinality(T \union {k}) \in Nat
      /\ Cardinality(T \union {k}) <= Cardinality(T) + 1
  BY <1>1, CountAdd
<1>4. Cardinality(T \union {k}) <= Cardinality(S)
  BY <1>1, <1>2, <1>3
<1>. QED  BY <1>3, <1>4 DEF T

LEMMA CountUnion ==
  ASSUME NEW S, IsFiniteSet(S), NEW T, IsFiniteSet(T)
  PROVE  /\ IsFiniteSet(S \union T)
         /\ Cardinality(S \union T) \in Nat
         /\ Cardinality(S \union T) <= Cardinality(S) + Cardinality(T)
<1> DEFINE U == S \union T
           V == S \cap T
<1>1. IsFiniteSet(U) /\ Cardinality(U) = Cardinality(S) + Cardinality(T) - Cardinality(V)
  BY FS_Union
<1>2. IsFiniteSet(V)
  BY FS_Intersection
<1> HIDE DEF U, V
<1>3. Cardinality(S) \in Nat /\ Cardinality(T) \in Nat /\ Cardinality(V) \in Nat
      /\ Cardinality(U) \in Nat
  BY <1>1, <1>2, CountType
<1>4. Cardinality(U) <= Cardinality(S) + Cardinality(T)
  BY <1>1, <1>3
<1>. QED  BY <1>1, <1>3, <1>4 DEF U
===============================================================================
