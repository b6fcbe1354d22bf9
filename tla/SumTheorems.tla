---------------------------- MODULE SumTheorems ----------------------------
(***************************************************************************)
(* What the proofs need to know of sums over finite sets: the total that a *)
(* set of pods asks for, or what the GPUs of a node offer together.        *)
(* SumFunctionOnSet(f, S) adds up f[x] over S by choosing one element      *)
(* after the other; these lemmas say that the choice does not matter.      *)
(***************************************************************************)
EXTENDS Integers, Functions, FiniteSetTheorems, WellFoundedInduction, TLAPS

-----------------------------------------------------------------------------
(* Induction, stated over sets.                                            *)

\* A set of numbers that holds 0 and the successor of every member is Nat.
LEMMA NatSetInduction ==
    ASSUME NEW T \in SUBSET Nat, 0 \in T, \A n \in T : n + 1 \in T
    PROVE  \A n \in Nat : n \in T
<1> SUFFICES ASSUME Nat \ T # {} PROVE FALSE
    OBVIOUS
<1>1. PICK n \in Nat \ T : \A m \in Nat \ T : ~(<<m, n>> \in OpToRel(<, Nat))
    BY NatLessThanWellFounded, WFMin, Zenon
<1>2. \A m \in Nat \ T : ~(m < n)
    BY <1>1, Zenon DEF OpToRel
<1>3. n \in Nat /\ n \notin T
    OBVIOUS
<1>4. n # 0
    BY <1>3
<1>5. n - 1 \in Nat /\ n - 1 < n
    BY <1>3, <1>4
<1>6. n - 1 \in T
    BY <1>2, <1>5
<1>7. QED
    BY <1>3, <1>5, <1>6

-----------------------------------------------------------------------------
(* The recursion that SumFunctionOnSet stands for.                         *)

First(s) == CHOOSE x \in s : TRUE

\* g gives the sum of every set in the family F, which must hold with a set
\* the set without its first element.
Sums(f, F, g) ==
    g = [s \in F |-> IF s = {} THEN 0 ELSE f[First(s)] + g[s \ {First(s)}]]

LEMMA SumUnfolds ==
    ASSUME NEW f, NEW S
    PROVE  SumFunctionOnSet(f, S) = (CHOOSE g : Sums(f, SUBSET S, g))[S]
  BY Zenon DEF SumFunctionOnSet, FoldFunctionOnSet, MapThenFoldSet, Sums, First

\* Every number is the size of a set that has the property, or no set without
\* it is finite: induction over the size of the subsets of a finite set.
LEMMA SizeInduction ==
    ASSUME NEW S, IsFiniteSet(S), NEW F,
           \A T \in SUBSET S :
              (\A U \in SUBSET S : Cardinality(U) < Cardinality(T) => U \in F)
                 => T \in F
    PROVE  \A T \in SUBSET S : T \in F
<1> DEFINE N == {n \in Nat : \A T \in SUBSET S : Cardinality(T) < n => T \in F}
<1>1. \A T \in SUBSET S : IsFiniteSet(T) /\ Cardinality(T) \in Nat
    BY FS_Subset, FS_CardinalityType
<1>2. 0 \in N
    BY <1>1
<1>3. ASSUME NEW n \in N PROVE n + 1 \in N
  <2> SUFFICES ASSUME NEW T \in SUBSET S, Cardinality(T) < n + 1
               PROVE  T \in F
    OBVIOUS
  <2>1. \A U \in SUBSET S : Cardinality(U) < Cardinality(T) => U \in F
    BY <1>1
  <2>2. QED
    BY <2>1
<1>4. N \in SUBSET Nat
    OBVIOUS
<1> HIDE DEF N
<1>5. \A n \in Nat : n \in N
    BY <1>2, <1>3, <1>4, NatSetInduction
<1>6. ASSUME NEW T \in SUBSET S PROVE T \in F
  <2>1. Cardinality(T) + 1 \in N /\ Cardinality(T) < Cardinality(T) + 1
    BY <1>1, <1>5
  <2>2. QED
    BY <2>1 DEF N
<1>7. QED
    BY <1>6

LEMMA FirstIn ==
    ASSUME NEW T, T # {}
    PROVE  First(T) \in T
  BY DEF First

\* Without its first element a set is smaller.
LEMMA RestSmaller ==
    ASSUME NEW T, IsFiniteSet(T), NEW x \in T
    PROVE  /\ IsFiniteSet(T \ {x})
           /\ Cardinality(T \ {x}) \in Nat /\ Cardinality(T) \in Nat
           /\ Cardinality(T \ {x}) < Cardinality(T)
<1>1. /\ IsFiniteSet(T \ {x})
      /\ Cardinality(T \ {x}) = Cardinality(T) - 1
    BY FS_RemoveElement
<1>2. Cardinality(T \ {x}) \in Nat /\ Cardinality(T) \in Nat
    BY <1>1, FS_CardinalityType
<1>3. QED
    BY <1>1, <1>2

\* Two functions that give the sums of a set's subsets agree on them.
LEMMA SumsAgree ==
    ASSUME NEW f, NEW S, IsFiniteSet(S), NEW U \in SUBSET S, NEW g, NEW h,
           Sums(f, SUBSET S, g), Sums(f, SUBSET U, h)
    PROVE  \A T \in SUBSET U : g[T] = h[T]
<1> DEFINE F == {T \in SUBSET U : g[T] = h[T]}
<1>1. IsFiniteSet(U)
    BY FS_Subset
<1>2. ASSUME NEW T \in SUBSET U,
             \A V \in SUBSET U : Cardinality(V) < Cardinality(T) => V \in F
      PROVE  T \in F
  <2>1. CASE T = {}
    <3>1. g[T] = 0 /\ h[T] = 0
        BY <2>1, Zenon DEF Sums
    <3>2. QED
        BY <3>1
  <2>2. CASE T # {}
    <3>1. g[T] = f[First(T)] + g[T \ {First(T)}]
        BY <2>2, Zenon DEF Sums
    <3>2. h[T] = f[First(T)] + h[T \ {First(T)}]
        BY <2>2, Zenon DEF Sums
    <3>3. First(T) \in T /\ IsFiniteSet(T)
        BY <1>1, <2>2, FirstIn, FS_Subset
    <3>4. T \ {First(T)} \in F
        BY <1>2, <3>3, RestSmaller
    <3>5. QED
        BY <3>1, <3>2, <3>4
  <2>3. QED
    BY <2>1, <2>2
<1> HIDE DEF F
<1>3. \A T \in SUBSET U : T \in F
    BY <1>1, <1>2, SizeInduction
<1>4. QED
    BY <1>3 DEF F

\* There is a function that gives them.
LEMMA SumsExist ==
    ASSUME NEW f, NEW S, IsFiniteSet(S)
    PROVE  \E g : Sums(f, SUBSET S, g)
<1> DEFINE Level(n) == {T \in SUBSET S : Cardinality(T) <= n}
           N == {n \in Nat : \E g : Sums(f, Level(n), g)}
<1>1. \A T \in SUBSET S : IsFiniteSet(T) /\ Cardinality(T) \in Nat
    BY FS_Subset, FS_CardinalityType
<1>2. 0 \in N
  <2>1. \A T \in Level(0) : T = {}
    BY <1>1, FS_EmptySet
  <2>2. Sums(f, Level(0), [T \in Level(0) |-> 0])
    BY <2>1, Zenon DEF Sums
  <2>3. QED
    BY <2>2
<1>3. ASSUME NEW n \in N PROVE n + 1 \in N
  <2>1. PICK g : Sums(f, Level(n), g)
    OBVIOUS
  <2> DEFINE h == [T \in Level(n + 1) |->
                     IF T = {} THEN 0 ELSE f[First(T)] + g[T \ {First(T)}]]
  <2>2. ASSUME NEW T \in Level(n + 1), T # {}
        PROVE  g[T \ {First(T)}] = h[T \ {First(T)}]
    <3> DEFINE V == T \ {First(T)}
    <3>1. First(T) \in T /\ IsFiniteSet(T) /\ Cardinality(T) <= n + 1
        BY <1>1, <2>2, FirstIn
    <3>2. V \in Level(n) /\ V \in Level(n + 1)
        BY <1>1, <3>1, RestSmaller
    <3>3. g[V] = IF V = {} THEN 0 ELSE f[First(V)] + g[V \ {First(V)}]
        BY <2>1, <3>2, Zenon DEF Sums
    <3>4. h[V] = IF V = {} THEN 0 ELSE f[First(V)] + g[V \ {First(V)}]
        BY <3>2, Zenon
    <3>5. QED
        BY <3>3, <3>4, Zenon
  <2>3. h = [T \in Level(n + 1) |->
               IF T = {} THEN 0 ELSE f[First(T)] + h[T \ {First(T)}]]
    BY <2>2, Zenon
  <2>4. Sums(f, Level(n + 1), h)
    BY <2>3, Zenon DEF Sums
  <2>5. n + 1 \in Nat
    OBVIOUS
  <2>6. QED
    BY <2>4, <2>5, Zenon
<1>4. N \in SUBSET Nat
    OBVIOUS
<1> HIDE DEF N
<1>5. Cardinality(S) \in N
    BY <1>1, <1>2, <1>3, <1>4, NatSetInduction
<1>6. Level(Cardinality(S)) = SUBSET S
    BY FS_Subset, FS_CardinalityType
<1>7. QED
    BY <1>5, <1>6 DEF N

\* SumFunctionOnSet takes the first element and adds the sum of the rest.
LEMMA SumRecursion ==
    ASSUME NEW f, NEW S, IsFiniteSet(S)
    PROVE  /\ S = {} => SumFunctionOnSet(f, S) = 0
           /\ S # {} => SumFunctionOnSet(f, S)
                           = f[First(S)] + SumFunctionOnSet(f, S \ {First(S)})
<1> DEFINE g == CHOOSE g : Sums(f, SUBSET S, g)
           R == S \ {First(S)}
           h == CHOOSE h : Sums(f, SUBSET R, h)
<1>1. IsFiniteSet(R) /\ R \in SUBSET S
    BY FS_Subset
<1>2. Sums(f, SUBSET S, g) /\ Sums(f, SUBSET R, h)
    BY <1>1, SumsExist, Zenon
<1>3. SumFunctionOnSet(f, S) = g[S] /\ SumFunctionOnSet(f, R) = h[R]
    BY SumUnfolds, Zenon
<1>4. g[S] = IF S = {} THEN 0 ELSE f[First(S)] + g[R]
    BY <1>2, Zenon DEF Sums
<1> HIDE DEF g, h, R
<1>5. g[R] = h[R]
  <2>1. \A T \in SUBSET R : g[T] = h[T]
    BY <1>1, <1>2, SumsAgree
  <2>2. QED
    BY <2>1
<1> USE DEF R
<1>6. QED
    BY <1>3, <1>4, <1>5, Zenon

-----------------------------------------------------------------------------
(* The lemmas the proofs cite.                                             *)

LEMMA SumEmpty ==
    ASSUME NEW f
    PROVE  SumFunctionOnSet(f, {}) = 0
  BY SumRecursion, FS_EmptySet

\* A sum of integers is an integer.
LEMMA SumInt ==
    ASSUME NEW f, NEW S, IsFiniteSet(S), \A x \in S : f[x] \in Int
    PROVE  SumFunctionOnSet(f, S) \in Int
<1> DEFINE F == {T \in SUBSET S : SumFunctionOnSet(f, T) \in Int}
<1>1. ASSUME NEW T \in SUBSET S,
             \A U \in SUBSET S : Cardinality(U) < Cardinality(T) => U \in F
      PROVE  T \in F
  <2>1. IsFiniteSet(T)
    BY FS_Subset
  <2>2. CASE T = {}
    BY <2>2, SumEmpty
  <2>3. CASE T # {}
    <3>1. First(T) \in T /\ T \ {First(T)} \in F
        BY <1>1, <2>1, <2>3, FirstIn, RestSmaller
    <3>2. SumFunctionOnSet(f, T)
            = f[First(T)] + SumFunctionOnSet(f, T \ {First(T)})
        BY <2>1, <2>3, SumRecursion
    <3>3. QED
        BY <3>1, <3>2
  <2>4. QED
    BY <2>2, <2>3
<1> HIDE DEF F
<1>2. S \in F
    BY <1>1, SizeInduction
<1>3. QED
    BY <1>2 DEF F

\* Whichever element is taken out, its value and the sum of the others make the
\* sum.
LEMMA SumRemove ==
    ASSUME NEW f, NEW S, IsFiniteSet(S), \A x \in S : f[x] \in Int, NEW x \in S
    PROVE  SumFunctionOnSet(f, S) = f[x] + SumFunctionOnSet(f, S \ {x})
<1> DEFINE F == {T \in SUBSET S : \A y \in T :
                    SumFunctionOnSet(f, T) = f[y] + SumFunctionOnSet(f, T \ {y})}
<1>1. ASSUME NEW T \in SUBSET S,
             \A U \in SUBSET S : Cardinality(U) < Cardinality(T) => U \in F
      PROVE  T \in F
  <2> SUFFICES ASSUME NEW y \in T
               PROVE  SumFunctionOnSet(f, T) = f[y] + SumFunctionOnSet(f, T \ {y})
    OBVIOUS
  <2> DEFINE c == First(T)
  <2>1. IsFiniteSet(T) /\ c \in T
    BY FS_Subset, FirstIn
  <2>2. SumFunctionOnSet(f, T) = f[c] + SumFunctionOnSet(f, T \ {c})
    BY <2>1, SumRecursion
  <2>3. CASE y = c
    BY <2>2, <2>3
  <2>4. CASE y # c
    <3> HIDE DEF c
    <3>1. T \ {c} \in F /\ T \ {y} \in F
        BY <1>1, <2>1, RestSmaller
    <3>2. y \in T \ {c} /\ c \in T \ {y}
        BY <2>1, <2>4
    <3>3. SumFunctionOnSet(f, T \ {c})
            = f[y] + SumFunctionOnSet(f, (T \ {c}) \ {y})
        BY <3>1, <3>2
    <3>4. SumFunctionOnSet(f, T \ {y})
            = f[c] + SumFunctionOnSet(f, (T \ {y}) \ {c})
        BY <3>1, <3>2
    <3>5. (T \ {c}) \ {y} = (T \ {y}) \ {c}
        OBVIOUS
    <3>6. /\ f[c] \in Int /\ f[y] \in Int
          /\ SumFunctionOnSet(f, (T \ {y}) \ {c}) \in Int
      <4>1. IsFiniteSet((T \ {y}) \ {c})
          BY <2>1, FS_Subset
      <4>2. QED
          BY <2>1, <4>1, SumInt
    <3> DEFINE rest == SumFunctionOnSet(f, (T \ {y}) \ {c})
    <3>7. /\ SumFunctionOnSet(f, T \ {c}) = f[y] + rest
          /\ SumFunctionOnSet(f, T \ {y}) = f[c] + rest
          /\ rest \in Int
        BY <3>3, <3>4, <3>5, <3>6
    <3> HIDE DEF rest
    <3>8. QED
        BY <2>2, <3>6, <3>7
  <2>5. QED
    BY <2>3, <2>4
<1> HIDE DEF F
<1>2. S \in F
    BY <1>1, SizeInduction
<1>3. QED
    BY <1>2 DEF F

\* A sum of natural numbers is one, and no sum over a part exceeds that over the
\* whole.
LEMMA SumNat ==
    ASSUME NEW f, NEW S, IsFiniteSet(S), \A x \in S : f[x] \in Nat
    PROVE  SumFunctionOnSet(f, S) \in Nat
<1> DEFINE F == {T \in SUBSET S : SumFunctionOnSet(f, T) \in Nat}
<1>1. ASSUME NEW T \in SUBSET S,
             \A U \in SUBSET S : Cardinality(U) < Cardinality(T) => U \in F
      PROVE  T \in F
  <2>1. IsFiniteSet(T)
    BY FS_Subset
  <2>2. CASE T = {}
    BY <2>2, SumEmpty
  <2>3. CASE T # {}
    <3>1. First(T) \in T /\ T \ {First(T)} \in F
        BY <1>1, <2>1, <2>3, FirstIn, RestSmaller
    <3>2. SumFunctionOnSet(f, T)
            = f[First(T)] + SumFunctionOnSet(f, T \ {First(T)})
        BY <2>1, <2>3, SumRecursion
    <3>3. QED
        BY <3>1, <3>2
  <2>4. QED
    BY <2>2, <2>3
<1> HIDE DEF F
<1>2. S \in F
    BY <1>1, SizeInduction
<1>3. QED
    BY <1>2 DEF F

LEMMA SumMonotone ==
    ASSUME NEW f, NEW S, IsFiniteSet(S), \A x \in S : f[x] \in Nat,
           NEW U \in SUBSET S
    PROVE  SumFunctionOnSet(f, U) <= SumFunctionOnSet(f, S)
<1> DEFINE F == {T \in SUBSET S :
                    U \subseteq T
                      => SumFunctionOnSet(f, U) <= SumFunctionOnSet(f, T)}
<1>1. ASSUME NEW T \in SUBSET S,
             \A V \in SUBSET S : Cardinality(V) < Cardinality(T) => V \in F
      PROVE  T \in F
  <2> SUFFICES ASSUME U \subseteq T
               PROVE  SumFunctionOnSet(f, U) <= SumFunctionOnSet(f, T)
    OBVIOUS
  <2>1. IsFiniteSet(T) /\ IsFiniteSet(U)
    BY FS_Subset
  <2>2. SumFunctionOnSet(f, U) \in Nat
    BY <2>1, SumNat
  <2>3. CASE U = T
    BY <2>2, <2>3
  <2>4. CASE U # T
    <3>1. PICK x \in T : x \notin U
        BY <2>4
    <3>2. T \ {x} \in F /\ U \subseteq T \ {x}
        BY <1>1, <2>1, <3>1, RestSmaller
    <3>3. SumFunctionOnSet(f, U) <= SumFunctionOnSet(f, T \ {x})
        BY <3>2
    <3>4. SumFunctionOnSet(f, T) = f[x] + SumFunctionOnSet(f, T \ {x})
        BY <2>1, SumRemove
    <3>5. f[x] \in Nat /\ SumFunctionOnSet(f, T \ {x}) \in Nat
      <4>1. IsFiniteSet(T \ {x})
          BY <2>1, FS_Subset
      <4>2. QED
          BY <4>1, SumNat
    <3>6. QED
        BY <2>2, <3>3, <3>4, <3>5
  <2>5. QED
    BY <2>3, <2>4
<1> HIDE DEF F
<1>2. S \in F
    BY <1>1, SizeInduction
<1>3. QED
    BY <1>2 DEF F

\* Where every summand is at least c, the sum is at least c for each of them.
LEMMA SumAtLeast ==
    ASSUME NEW f, NEW S, IsFiniteSet(S), NEW c \in Nat,
           \A x \in S : f[x] \in Nat /\ f[x] >= c
    PROVE  c * Cardinality(S) <= SumFunctionOnSet(f, S)
<1> DEFINE F == {T \in SUBSET S : c * Cardinality(T) <= SumFunctionOnSet(f, T)}
<1>1. ASSUME NEW T \in SUBSET S,
             \A U \in SUBSET S : Cardinality(U) < Cardinality(T) => U \in F
      PROVE  T \in F
  <2>1. IsFiniteSet(T)
    BY FS_Subset
  <2>2. CASE T = {}
    BY <2>2, SumEmpty, FS_EmptySet
  <2>3. CASE T # {}
    <3> DEFINE x == First(T)
    <3>1. x \in T /\ T \ {x} \in F
        BY <1>1, <2>1, <2>3, FirstIn, RestSmaller
    <3>2. SumFunctionOnSet(f, T) = f[x] + SumFunctionOnSet(f, T \ {x})
        BY <2>1, <2>3, SumRecursion
    <3> HIDE DEF x
    <3>3. /\ Cardinality(T \ {x}) = Cardinality(T) - 1
          /\ Cardinality(T) \in Nat /\ Cardinality(T \ {x}) \in Nat
        BY <2>1, <3>1, FS_RemoveElement, FS_CardinalityType
    <3>4. SumFunctionOnSet(f, T \ {x}) \in Nat
      <4>1. IsFiniteSet(T \ {x})
          BY <2>1, FS_Subset
      <4>2. QED
          BY <4>1, SumNat
    <3>5. c * Cardinality(T) = c * Cardinality(T \ {x}) + c
        BY <3>3
    <3>6. /\ c * Cardinality(T \ {x}) <= SumFunctionOnSet(f, T \ {x})
          /\ c * Cardinality(T \ {x}) \in Nat
        BY <3>1, <3>3
    <3>7. QED
        BY <3>1, <3>2, <3>4, <3>5, <3>6
  <2>4. QED
    BY <2>2, <2>3
<1> HIDE DEF F
<1>2. S \in F
    BY <1>1, SizeInduction
<1>3. QED
    BY <1>2 DEF F
=============================================================================
