------------------------------- MODULE Counting -------------------------------
(***************************************************************************)
(* What the proofs need about the sizes of finite sets: how a step that    *)
(* adds, removes or exchanges an element changes the number of elements.   *)
(***************************************************************************)
EXTENDS Integers, FiniteSets, FiniteSetTheorems, TLAPS

\* A part of a finite set is finite and no larger.
LEMMA Fewer ==
    ASSUME NEW S, NEW T, IsFiniteSet(T), S \subseteq T
    PROVE  /\ IsFiniteSet(S) /\ IsFiniteSet(T)
           /\ Cardinality(S) \in Nat /\ Cardinality(T) \in Nat
           /\ Cardinality(S) <= Cardinality(T)
  BY FS_Subset, FS_CardinalityType

\* At most one more element.
LEMMA OneMore ==
    ASSUME NEW S, NEW T, NEW x, IsFiniteSet(T), S \subseteq T \cup {x}
    PROVE  /\ IsFiniteSet(S) /\ IsFiniteSet(T)
           /\ Cardinality(S) \in Nat /\ Cardinality(T) \in Nat
           /\ Cardinality(S) <= Cardinality(T) + 1
  <1>1. /\ IsFiniteSet(T \cup {x})
        /\ Cardinality(T \cup {x}) <= Cardinality(T) + 1
        /\ Cardinality(T) \in Nat
    BY FS_AddElement, FS_CardinalityType
  <1>2. QED
    BY <1>1, Fewer

\* One element fewer.
LEMMA OneFewer ==
    ASSUME NEW S, NEW T, NEW x \in T, IsFiniteSet(T), S \subseteq T \ {x}
    PROVE  /\ IsFiniteSet(S) /\ IsFiniteSet(T)
           /\ Cardinality(S) \in Nat /\ Cardinality(T) \in Nat
           /\ Cardinality(S) <= Cardinality(T) - 1
  <1>1. /\ IsFiniteSet(T \ {x})
        /\ Cardinality(T \ {x}) = Cardinality(T) - 1
        /\ Cardinality(T) \in Nat
    BY FS_RemoveElement, FS_CardinalityType
  <1>2. QED
    BY <1>1, Fewer

\* One element exchanged for another.
LEMMA Exchange ==
    ASSUME NEW S, NEW T, NEW x \in T, NEW y, IsFiniteSet(T), S \subseteq (T \ {x}) \cup {y}
    PROVE  /\ IsFiniteSet(S) /\ IsFiniteSet(T)
           /\ Cardinality(S) \in Nat /\ Cardinality(T) \in Nat
           /\ Cardinality(S) <= Cardinality(T)
  <1>1. /\ IsFiniteSet(T \ {x})
        /\ Cardinality(T \ {x}) <= Cardinality(T) - 1
        /\ Cardinality(T) \in Nat
    BY OneFewer
  <1>2. /\ IsFiniteSet(S) /\ Cardinality(S) \in Nat
        /\ Cardinality(S) <= Cardinality(T \ {x}) + 1
        /\ Cardinality(T \ {x}) \in Nat
    BY <1>1, OneMore
  <1>3. QED
    BY <1>1, <1>2

\* At most one element, x, joins or leaves.
LEMMA OneSwings ==
    ASSUME NEW S, NEW T, NEW x, IsFiniteSet(S), T \ {x} = S \ {x}
    PROVE  /\ IsFiniteSet(T) /\ Cardinality(S) \in Nat /\ Cardinality(T) \in Nat
           /\ Cardinality(T) + (IF x \in S THEN 1 ELSE 0)
                = Cardinality(S) + (IF x \in T THEN 1 ELSE 0)
  <1>1. IsFiniteSet(T)
    <2>1. T \subseteq S \cup {x}
      OBVIOUS
    <2>2. QED
      BY <2>1, OneMore
  <1>2. /\ Cardinality(S \ {x}) = IF x \in S THEN Cardinality(S) - 1 ELSE Cardinality(S)
        /\ Cardinality(T \ {x}) = IF x \in T THEN Cardinality(T) - 1 ELSE Cardinality(T)
    BY <1>1, FS_RemoveElement
  <1>3. Cardinality(S) \in Nat /\ Cardinality(T) \in Nat
    BY <1>1, FS_CardinalityType
  <1>4. QED
    BY <1>1, <1>2, <1>3

-----------------------------------------------------------------------------
(* An element x that counts for n: the pairs of x and 1, ..., n.           *)
Block(x, n) == {x} \X (1..n)

LEMMA BlockSize ==
    ASSUME NEW x, NEW n \in Nat
    PROVE  IsFiniteSet(Block(x, n)) /\ Cardinality(Block(x, n)) = n
  <1>1. IsFiniteSet({x}) /\ Cardinality({x}) = 1
    BY FS_Singleton
  <1>2. IsFiniteSet(1..n) /\ Cardinality(1..n) = n
    BY FS_Interval
  <1> DEFINE B == 1..n
  <1> HIDE DEF B
  <1>3. IsFiniteSet({x} \X B) /\ Cardinality({x} \X B) = Cardinality({x}) * Cardinality(B)
    BY <1>1, <1>2, FS_Product DEF B
  <1>4. Cardinality({x} \X B) = n
    BY <1>1, <1>2, <1>3 DEF B
  <1>5. QED
    BY <1>3, <1>4 DEF Block, B

\* A block more.
LEMMA OneBlockMore ==
    ASSUME NEW S, NEW T, NEW x, NEW n \in Nat, IsFiniteSet(T), S \subseteq T \cup Block(x, n)
    PROVE  /\ IsFiniteSet(S) /\ Cardinality(S) \in Nat /\ Cardinality(T) \in Nat
           /\ Cardinality(S) <= Cardinality(T) + n
  <1>1. IsFiniteSet(Block(x, n)) /\ Cardinality(Block(x, n)) = n
    BY BlockSize
  <1>2. /\ IsFiniteSet(T \cup Block(x, n))
        /\ Cardinality(T \cup Block(x, n)) =
              Cardinality(T) + n - Cardinality(T \cap Block(x, n))
    BY <1>1, FS_Union
  <1>3. Cardinality(T \cap Block(x, n)) \in Nat /\ Cardinality(T) \in Nat
    BY FS_Intersection, FS_CardinalityType
  <1>4. /\ IsFiniteSet(S) /\ Cardinality(S) \in Nat
        /\ Cardinality(S) <= Cardinality(T \cup Block(x, n))
        /\ Cardinality(T \cup Block(x, n)) \in Nat
    BY <1>2, Fewer
  <1>5. QED
    BY <1>2, <1>3, <1>4

\* A block less.
LEMMA OneBlockFewer ==
    ASSUME NEW S, NEW T, NEW x, NEW n \in Nat, IsFiniteSet(T),
           Block(x, n) \subseteq T, S \subseteq T \ Block(x, n)
    PROVE  /\ IsFiniteSet(S) /\ Cardinality(S) \in Nat /\ Cardinality(T) \in Nat
           /\ Cardinality(S) + n <= Cardinality(T)
  <1>1. Cardinality(Block(x, n)) = n /\ T \cap Block(x, n) = Block(x, n)
    BY BlockSize
  <1>2. /\ IsFiniteSet(T \ Block(x, n))
        /\ Cardinality(T \ Block(x, n)) = Cardinality(T) - n
    BY <1>1, FS_Difference
  <1>3. /\ IsFiniteSet(S) /\ Cardinality(S) \in Nat
        /\ Cardinality(S) <= Cardinality(T \ Block(x, n))
        /\ Cardinality(T \ Block(x, n)) \in Nat /\ Cardinality(T) \in Nat
    BY <1>2, Fewer, FS_CardinalityType
  <1>4. QED
    BY <1>2, <1>3

\* The block of x is exchanged for one of another size.
Resized(S, T, x, v, w) ==
    /\ Block(x, v) \subseteq S /\ Block(x, w) \subseteq T
    /\ T \ Block(x, w) = S \ Block(x, v)

LEMMA BlockSwings ==
    ASSUME NEW S, NEW T, NEW x, NEW v \in Nat, NEW w \in Nat, IsFiniteSet(S),
           Resized(S, T, x, v, w)
    PROVE  /\ IsFiniteSet(T) /\ Cardinality(S) \in Nat /\ Cardinality(T) \in Nat
           /\ Cardinality(T) + v = Cardinality(S) + w
  <1>1. IsFiniteSet(S \ Block(x, v)) /\ Cardinality(S \ Block(x, v)) + v <= Cardinality(S)
    BY OneBlockFewer DEF Resized
  <1>2. T \subseteq (S \ Block(x, v)) \cup Block(x, w)
    BY DEF Resized
  <1>3. IsFiniteSet(T) /\ Cardinality(T) <= Cardinality(S \ Block(x, v)) + w
    BY <1>1, <1>2, OneBlockMore
  <1>4. Cardinality(T \ Block(x, w)) + w <= Cardinality(T)
    BY <1>3, OneBlockFewer DEF Resized
  <1>5. S \subseteq (T \ Block(x, w)) \cup Block(x, v)
    BY DEF Resized
  <1>6. Cardinality(S) <= Cardinality(T \ Block(x, w)) + v
    BY <1>1, <1>5, OneBlockMore DEF Resized
  <1>7. /\ Cardinality(S) \in Nat /\ Cardinality(T) \in Nat
        /\ Cardinality(S \ Block(x, v)) \in Nat
    BY <1>1, <1>3, FS_CardinalityType
  <1>8. QED
    BY <1>1, <1>3, <1>4, <1>6, <1>7 DEF Resized

===============================================================================
