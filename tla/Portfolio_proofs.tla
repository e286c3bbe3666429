-------------------------- MODULE Portfolio_proofs --------------------------
(***************************************************************************)
(* Proofs about Portfolio: the types, the tax lots, and what a packet that *)
(* is executed does to the account.  The operators of the community        *)
(* modules that sum and fold are reduced to a recursion over the subsets   *)
(* of a finite set, once, in the first sections.                           *)
(***************************************************************************)
EXTENDS Portfolio, FiniteSetTheorems, FunctionTheorems, SequenceTheorems,
        WellFoundedInduction, TLAPS

-----------------------------------------------------------------------------
(* Induction, and recursion over the subsets of a finite set.              *)

(* Induction over the natural numbers, for a set of them.                  *)
LEMMA NatSetInduction ==
  ASSUME NEW T, T \subseteq Nat, 0 \in T, \A n \in T : n + 1 \in T
  PROVE  T = Nat
<1> DEFINE U == Nat \ T
<1>1. SUFFICES ASSUME U # {} PROVE FALSE
  OBVIOUS
<1>2. PICK n \in U : \A k \in U : ~(<<k, n>> \in OpToRel(<, Nat))
  BY <1>1, NatLessThanWellFounded, WFMin
<1>3. n \in Nat /\ n - 1 \in Nat /\ n - 1 < n /\ n - 1 + 1 = n
  OBVIOUS
<1>4. <<n - 1, n>> \in OpToRel(<, Nat)
  BY <1>3 DEF OpToRel
<1>5. n - 1 \in T
  BY <1>2, <1>3, <1>4
<1> QED
  BY <1>3, <1>5

(* An element less, one in the cardinality.                                *)
LEMMA OneLess ==
  ASSUME NEW S, IsFiniteSet(S), NEW x \in S
  PROVE  /\ IsFiniteSet(S \ {x})
         /\ Cardinality(S) \in Nat /\ Cardinality(S) >= 1
         /\ Cardinality(S \ {x}) = Cardinality(S) - 1
         /\ Cardinality(S \ {x}) < Cardinality(S)
<1>1. IsFiniteSet(S \ {x}) /\ Cardinality(S \ {x}) = Cardinality(S) - 1
  BY FS_RemoveElement
<1>2. Cardinality(S) \in Nat /\ Cardinality(S \ {x}) \in Nat
  BY <1>1, FS_CardinalityType
<1> QED
  BY <1>1, <1>2

(* Induction over the size of the subsets of a finite set, for a set of    *)
(* subsets: a subset is in it when all the smaller ones are.               *)
LEMMA SizeInduction ==
  ASSUME NEW S, IsFiniteSet(S), NEW T,
         \A s \in SUBSET S :
           (\A r \in SUBSET S : Cardinality(r) < Cardinality(s) => r \in T) => s \in T
  PROVE  \A s \in SUBSET S : s \in T
<1> DEFINE N == {n \in Nat : \A s \in SUBSET S : Cardinality(s) <= n => s \in T}
<1>1. \A s \in SUBSET S : Cardinality(s) \in Nat
  BY FS_Subset, FS_CardinalityType
<1>2. 0 \in N
  <2>1. \A s \in SUBSET S : Cardinality(s) <= 0 =>
          \A r \in SUBSET S : ~(Cardinality(r) < Cardinality(s))
    BY <1>1
  <2> QED
    BY <2>1
<1>3. ASSUME NEW n \in N PROVE n + 1 \in N
  <2>1. ASSUME NEW s \in SUBSET S, Cardinality(s) <= n + 1 PROVE s \in T
    <3>1. \A r \in SUBSET S : Cardinality(r) < Cardinality(s) => r \in T
      BY <1>1, <2>1
    <3> QED
      BY <3>1
  <2> QED
    BY <2>1
<1>4. N = Nat
  <2> HIDE DEF N
  <2>1. N \subseteq Nat
    BY DEF N
  <2> QED
    BY <1>2, <1>3, <2>1, NatSetInduction
<1> QED
  BY <1>1, <1>4

(* Induction over the subsets of a finite set, one element at a time.      *)
LEMMA SubsetInduction ==
  ASSUME NEW S, IsFiniteSet(S), NEW T, {} \in T,
         \A s \in SUBSET S : \A x \in S \ s : s \in T => s \union {x} \in T
  PROVE  S \in T
<1>1. ASSUME NEW s \in SUBSET S,
             \A r \in SUBSET S : Cardinality(r) < Cardinality(s) => r \in T
      PROVE  s \in T
  <2>1. CASE s = {}
    BY <2>1
  <2>2. CASE s # {}
    <3>1. PICK x \in s : TRUE
      BY <2>2
    <3>2. IsFiniteSet(s)
      BY FS_Subset
    <3>3. Cardinality(s \ {x}) < Cardinality(s)
      BY <3>1, <3>2, OneLess
    <3>4. s \ {x} \in T /\ x \in S \ (s \ {x}) /\ (s \ {x}) \union {x} = s
      BY <1>1, <3>1, <3>3
    <3> QED
      BY <3>4
  <2> QED
    BY <2>1, <2>2
<1> QED
  BY <1>1, SizeInduction

(* A function g over subsets that is base at the empty one and takes one   *)
(* step per element, in the order in which pick takes the elements out.    *)
Recurs(g, s, base, pick, step) ==
  g[s] = IF s = {} THEN base ELSE step[<<pick[s], g[s \ {pick[s]}]>>]

(* Such a step at every subset.                                            *)
IsRecursion(g, S, base, pick, step) ==
  \A s \in SUBSET S : Recurs(g, s, base, pick, step)

(* Such a function exists, with the type of its steps.                     *)
LEMMA Recursion ==
  ASSUME NEW S, IsFiniteSet(S), NEW V, NEW base \in V, NEW pick, NEW step,
         \A s \in SUBSET S : s # {} => pick[s] \in s,
         \A x \in S, v \in V : step[<<x, v>>] \in V
  PROVE  \E g \in [SUBSET S -> V] : IsRecursion(g, S, base, pick, step)
<1> DEFINE Part(n) == {s \in SUBSET S : Cardinality(s) <= n}
           T == {n \in Nat : \E g \in [Part(n) -> V] :
                   \A s \in Part(n) : Recurs(g, s, base, pick, step)}
<1>1. \A s \in SUBSET S : IsFiniteSet(s) /\ Cardinality(s) \in Nat
  BY FS_Subset, FS_CardinalityType
<1>2. ASSUME NEW s \in SUBSET S, s # {}
      PROVE  /\ pick[s] \in S /\ Cardinality(s) >= 1
             /\ \A n \in Nat : s \in Part(n + 1) => s \ {pick[s]} \in Part(n)
  <2>1. /\ Cardinality(s) \in Nat /\ Cardinality(s) >= 1
        /\ Cardinality(s \ {pick[s]}) = Cardinality(s) - 1
    BY <1>1, <1>2, OneLess
  <2> QED
    BY <1>2, <2>1
<1>3. 0 \in T
  <2>1. ASSUME NEW s \in Part(0) PROVE s = {}
    <3>1. s \in SUBSET S /\ Cardinality(s) <= 0 /\ Cardinality(s) \in Nat
      BY <1>1
    <3> HIDE DEF Part
    <3>2. s # {} => Cardinality(s) >= 1
      BY <1>2, <3>1
    <3> QED
      BY <3>1, <3>2
  <2> DEFINE g == [s \in Part(0) |-> base]
  <2>2. \A s \in Part(0) : Recurs(g, s, base, pick, step)
    BY <2>1 DEF Recurs
  <2>3. g \in [Part(0) -> V]
    OBVIOUS
  <2> QED
    BY <2>2, <2>3
<1>4. ASSUME NEW n \in T PROVE n + 1 \in T
  <2>1. PICK g \in [Part(n) -> V] : \A s \in Part(n) : Recurs(g, s, base, pick, step)
    OBVIOUS
  <2> DEFINE h == [s \in Part(n + 1) |->
                     IF s = {} THEN base ELSE step[<<pick[s], g[s \ {pick[s]}]>>]]
  <2>2. ASSUME NEW s \in Part(n + 1) PROVE h[s] \in V
    <3>1. s # {} => pick[s] \in S /\ g[s \ {pick[s]}] \in V
      BY <1>2, <2>2
    <3> QED
      BY <2>2, <3>1
  <2>3. \A s \in Part(n) : s \in Part(n + 1)
    BY <1>1
  <2>4. \A s \in Part(n) : h[s] = g[s]
    BY <2>1, <2>3 DEF Recurs
  <2>5. ASSUME NEW s \in Part(n + 1) PROVE Recurs(h, s, base, pick, step)
    <3>1. CASE s = {}
      BY <3>1 DEF Recurs
    <3>2. CASE s # {}
      <4>1. s \ {pick[s]} \in Part(n)
        BY <1>2, <3>2
      <4>2. h[s \ {pick[s]}] = g[s \ {pick[s]}]
        BY <2>4, <4>1
      <4> QED
        BY <3>2, <4>2 DEF Recurs
    <3> QED
      BY <3>1, <3>2
  <2>6. h \in [Part(n + 1) -> V]
    BY <2>2
  <2>7. n + 1 \in Nat
    OBVIOUS
  <2> HIDE DEF h, Part
  <2> QED
    BY <2>5, <2>6, <2>7
<1>5. T = Nat
  <2> HIDE DEF T
  <2>1. T \subseteq Nat
    BY DEF T
  <2> QED
    BY <1>3, <1>4, <2>1, NatSetInduction
<1>6. Cardinality(S) \in T
  BY <1>5, FS_CardinalityType
<1>7. Part(Cardinality(S)) = SUBSET S
  <2>1. \A s \in SUBSET S : Cardinality(s) <= Cardinality(S)
    BY FS_Subset
  <2> QED
    BY <2>1
<1> HIDE DEF Part
<1> QED
  BY <1>6, <1>7 DEF IsRecursion

(* And its value at a subset depends on nothing else.                      *)
LEMMA RecursionUnique ==
  ASSUME NEW S, IsFiniteSet(S), NEW base, NEW pick, NEW step,
         \A s \in SUBSET S : s # {} => pick[s] \in s,
         NEW g, IsRecursion(g, S, base, pick, step),
         NEW h, IsRecursion(h, S, base, pick, step)
  PROVE  h[S] = g[S]
<1> DEFINE T == {s \in SUBSET S : h[s] = g[s]}
<1>1. ASSUME NEW s \in SUBSET S,
             \A r \in SUBSET S : Cardinality(r) < Cardinality(s) => r \in T
      PROVE  s \in T
  <2>1. CASE s = {}
    BY <2>1 DEF Recurs, IsRecursion
  <2>2. CASE s # {}
    <3>1. IsFiniteSet(s)
      BY FS_Subset
    <3>2. pick[s] \in s
      BY <2>2
    <3>3. Cardinality(s \ {pick[s]}) < Cardinality(s)
      BY <3>1, <3>2, OneLess
    <3>4. h[s \ {pick[s]}] = g[s \ {pick[s]}]
      BY <1>1, <3>3
    <3>5. Recurs(g, s, base, pick, step) /\ Recurs(h, s, base, pick, step)
      BY DEF IsRecursion
    <3> QED
      BY <2>2, <3>4, <3>5 DEF Recurs
  <2> QED
    BY <2>1, <2>2
<1> HIDE DEF T
<1>2. \A s \in SUBSET S : s \in T
  BY <1>1, SizeInduction
<1> QED
  BY <1>2 DEF T

-----------------------------------------------------------------------------
(* Sums of a function of integers over a finite set.                       *)

(* The sums over the subsets of S, as the choice that defines              *)
(* SumFunctionOnSet.                                                       *)
IsSum(f, S, g) ==
  g = [s \in SUBSET S |-> IF s = {} THEN 0
                          ELSE f[CHOOSE x \in s : TRUE] + g[s \ {CHOOSE x \in s : TRUE}]]

(* SumFunctionOnSet is the function that IsSum chooses, at the whole set.  *)
LEMMA SumDef ==
  ASSUME NEW f, NEW S
  PROVE  SumFunctionOnSet(f, S) = (CHOOSE g : IsSum(f, S, g))[S]
BY Zenon DEF SumFunctionOnSet, FoldFunctionOnSet, MapThenFoldSet, IsSum

(* What is a sum by IsSum is so by a recursion with integer steps.         *)
LEMMA SumRecurs ==
  ASSUME NEW S, IsFiniteSet(S), NEW f, \A x \in S : f[x] \in Int,
         NEW g, IsSum(f, S, g)
  PROVE  /\ \A s \in SUBSET S : g[s] \in Int
         /\ IsRecursion(g, S, 0, [s \in SUBSET S |-> CHOOSE x \in s : TRUE],
                        [xv \in S \X Int |-> f[xv[1]] + xv[2]])
<1> DEFINE pick == [s \in SUBSET S |-> CHOOSE x \in s : TRUE]
           step == [xv \in S \X Int |-> f[xv[1]] + xv[2]]
           T == {s \in SUBSET S : g[s] \in Int}
<1>1. \A s \in SUBSET S : s # {} => pick[s] \in s
  OBVIOUS
<1>2. \A s \in SUBSET S : g[s] = IF s = {} THEN 0 ELSE f[pick[s]] + g[s \ {pick[s]}]
  BY DEF IsSum
<1> HIDE DEF pick
<1>3. ASSUME NEW s \in SUBSET S,
             \A r \in SUBSET S : Cardinality(r) < Cardinality(s) => r \in T
      PROVE  s \in T
  <2>1. CASE s = {}
    BY <1>2, <2>1
  <2>2. CASE s # {}
    <3>1. IsFiniteSet(s)
      BY FS_Subset
    <3>2. pick[s] \in s
      BY <1>1, <2>2
    <3>3. Cardinality(s \ {pick[s]}) < Cardinality(s)
      BY <3>1, <3>2, OneLess
    <3>4. g[s \ {pick[s]}] \in Int /\ f[pick[s]] \in Int
      BY <1>3, <3>2, <3>3
    <3>5. g[s] = f[pick[s]] + g[s \ {pick[s]}]
      BY <1>2, <2>2
    <3> QED
      BY <3>4, <3>5
  <2> QED
    BY <2>1, <2>2
<1>4. \A s \in SUBSET S : s \in T
  <2> HIDE DEF T
  <2> QED
    BY <1>3, SizeInduction
<1>5. ASSUME NEW s \in SUBSET S PROVE Recurs(g, s, 0, pick, step)
  <2>1. CASE s = {}
    BY <1>2, <2>1 DEF Recurs
  <2>2. CASE s # {}
    <3>1. pick[s] \in S /\ g[s \ {pick[s]}] \in Int
      BY <1>1, <1>4, <2>2
    <3>2. step[<<pick[s], g[s \ {pick[s]}]>>] = f[pick[s]] + g[s \ {pick[s]}]
      BY <3>1
    <3> QED
      BY <1>2, <2>2, <3>2 DEF Recurs
  <2> QED
    BY <2>1, <2>2
<1> QED
  BY <1>4, <1>5 DEF IsRecursion, pick

(* There is such a sum.                                                    *)
LEMMA SumExists ==
  ASSUME NEW S, IsFiniteSet(S), NEW f, \A x \in S : f[x] \in Int
  PROVE  \E g : IsSum(f, S, g)
<1> DEFINE pick == [s \in SUBSET S |-> CHOOSE x \in s : TRUE]
           step == [xv \in S \X Int |-> f[xv[1]] + xv[2]]
<1>1. \A s \in SUBSET S : s # {} => pick[s] \in s
  OBVIOUS
<1>2. \A x \in S, v \in Int : step[<<x, v>>] \in Int
  OBVIOUS
<1>3. PICK g \in [SUBSET S -> Int] : IsRecursion(g, S, 0, pick, step)
  <2>1. 0 \in Int
    OBVIOUS
  <2> HIDE DEF pick, step
  <2> QED
    BY <1>1, <1>2, <2>1, Recursion
<1>4. ASSUME NEW s \in SUBSET S
      PROVE  g[s] = IF s = {} THEN 0 ELSE f[CHOOSE x \in s : TRUE]
                                          + g[s \ {CHOOSE x \in s : TRUE}]
  BY <1>3 DEF IsRecursion, Recurs
<1> QED
  BY <1>4 DEF IsSum

(* It is an integer, and what the element chosen adds to the sum of the    *)
(* others.                                                                 *)
LEMMA SumChosen ==
  ASSUME NEW S, IsFiniteSet(S), NEW f, \A x \in S : f[x] \in Int
  PROVE  /\ SumFunctionOnSet(f, S) \in Int
         /\ SumFunctionOnSet(f, S) =
              IF S = {} THEN 0
              ELSE f[CHOOSE x \in S : TRUE]
                     + SumFunctionOnSet(f, S \ {CHOOSE x \in S : TRUE})
<1> DEFINE R == S \ {CHOOSE x \in S : TRUE}
           G == CHOOSE k : IsSum(f, S, k)
           H == CHOOSE k : IsSum(f, R, k)
           pick == [s \in SUBSET R |-> CHOOSE x \in s : TRUE]
           step == [xv \in R \X Int |-> f[xv[1]] + xv[2]]
<1>1. IsFiniteSet(R) /\ R \subseteq S
  BY FS_Subset
<1>2. IsSum(f, S, G)
  BY SumExists
<1>3. IsSum(f, R, H)
  BY <1>1, SumExists
<1>4. G[S] \in Int
  <2> HIDE DEF G
  <2> QED
    BY <1>2, SumRecurs
<1>5. G[S] = IF S = {} THEN 0 ELSE f[CHOOSE x \in S : TRUE] + G[R]
  BY <1>2 DEF IsSum
<1>6. IsSum(f, R, [s \in SUBSET R |-> G[s]])
  <2>1. ASSUME NEW s \in SUBSET R
        PROVE  G[s] = IF s = {} THEN 0 ELSE f[CHOOSE x \in s : TRUE]
                                            + G[s \ {CHOOSE x \in s : TRUE}]
    BY <1>1, <1>2 DEF IsSum
  <2> HIDE DEF G
  <2> QED
    BY <2>1 DEF IsSum
<1>7. G[R] = H[R]
  <2> HIDE DEF G, H, R
  <2> DEFINE K == [s \in SUBSET R |-> G[s]]
  <2>1. \A x \in R : f[x] \in Int
    BY <1>1
  <2>2. IsRecursion(K, R, 0, pick, step)
    BY <1>1, <1>6, <2>1, SumRecurs
  <2>3. IsRecursion(H, R, 0, pick, step)
    BY <1>1, <1>3, <2>1, SumRecurs
  <2>4. \A s \in SUBSET R : s # {} => pick[s] \in s
    OBVIOUS
  <2>5. K[R] = H[R]
    <3> HIDE DEF K, pick, step
    <3> QED
      BY <1>1, <2>2, <2>3, <2>4, RecursionUnique
  <2> QED
    BY <2>5
<1>8. SumFunctionOnSet(f, S) = G[S] /\ SumFunctionOnSet(f, R) = H[R]
  BY SumDef
<1> QED
  BY <1>4, <1>5, <1>7, <1>8

(* The sum of integers is an integer.                                      *)
LEMMA SumType ==
  ASSUME NEW S, IsFiniteSet(S), NEW f, \A x \in S : f[x] \in Int
  PROVE  SumFunctionOnSet(f, S) \in Int
BY SumChosen

(* The sum over the empty set is 0.                                        *)
LEMMA SumEmpty == ASSUME NEW f PROVE SumFunctionOnSet(f, {}) = 0
BY SumChosen, FS_EmptySet

(* Any element may be taken out first.                                     *)
LEMMA SumRemove ==
  ASSUME NEW S, IsFiniteSet(S), NEW f, \A y \in S : f[y] \in Int, NEW x \in S
  PROVE  SumFunctionOnSet(f, S) = f[x] + SumFunctionOnSet(f, S \ {x})
<1> DEFINE Sum(s) == SumFunctionOnSet(f, s)
           T == {s \in SUBSET S : \A y \in s : Sum(s) = f[y] + Sum(s \ {y})}
<1>1. \A s \in SUBSET S : IsFiniteSet(s) /\ Sum(s) \in Int
  BY FS_Subset, SumType
<1>2. ASSUME NEW s \in SUBSET S,
             \A r \in SUBSET S : Cardinality(r) < Cardinality(s) => r \in T,
             NEW y \in s
      PROVE  Sum(s) = f[y] + Sum(s \ {y})
  <2> DEFINE z == CHOOSE z \in s : TRUE
  <2>1. z \in s /\ Sum(s) = f[z] + Sum(s \ {z})
    BY <1>1, SumChosen
  <2> HIDE DEF z
  <2>2. CASE y = z
    BY <2>1, <2>2
  <2>3. CASE y # z
    <3>1. /\ Cardinality(s \ {y}) < Cardinality(s)
          /\ Cardinality(s \ {z}) < Cardinality(s)
      BY <1>1, <2>1, OneLess
    <3>2. s \ {y} \in T /\ s \ {z} \in T
      BY <1>2, <3>1
    <3>3. Sum(s \ {z}) = f[y] + Sum((s \ {z}) \ {y})
      BY <2>3, <3>2
    <3>4. Sum(s \ {y}) = f[z] + Sum((s \ {y}) \ {z})
      BY <2>1, <2>3, <3>2
    <3>5. (s \ {y}) \ {z} = (s \ {z}) \ {y}
      OBVIOUS
    <3>6. f[y] \in Int /\ f[z] \in Int /\ Sum((s \ {y}) \ {z}) \in Int
      BY <1>1, <2>1
    <3> HIDE DEF Sum, T
    <3>7. Sum(s) = f[z] + (f[y] + Sum((s \ {y}) \ {z}))
      BY <2>1, <3>3, <3>5
    <3> QED
      BY <3>4, <3>6, <3>7
  <2> QED
    BY <2>2, <2>3
<1>3. \A s \in SUBSET S : s \in T
  <2>1. ASSUME NEW s \in SUBSET S,
               \A r \in SUBSET S : Cardinality(r) < Cardinality(s) => r \in T
        PROVE  s \in T
    BY <1>2, <2>1
  <2> HIDE DEF T
  <2> QED
    BY <2>1, SizeInduction
<1> QED
  BY <1>3

(* One more element adds its value.                                        *)
LEMMA SumAdd ==
  ASSUME NEW S, IsFiniteSet(S), NEW x, x \notin S, NEW f, f[x] \in Int,
         \A y \in S : f[y] \in Int
  PROVE  SumFunctionOnSet(f, S \union {x}) = f[x] + SumFunctionOnSet(f, S)
<1>1. IsFiniteSet(S \union {x}) /\ (S \union {x}) \ {x} = S
  BY FS_AddElement
<1> QED
  BY <1>1, SumRemove

(* The sum depends on the values at the elements only.                     *)
LEMMA SumSame ==
  ASSUME NEW S, IsFiniteSet(S), NEW f, NEW g,
         \A x \in S : f[x] \in Int /\ g[x] = f[x]
  PROVE  SumFunctionOnSet(g, S) = SumFunctionOnSet(f, S)
<1> DEFINE T == {s \in SUBSET S : SumFunctionOnSet(g, s) = SumFunctionOnSet(f, s)}
<1>1. {} \in T
  BY SumEmpty
<1>2. ASSUME NEW s \in SUBSET S, NEW x \in S \ s, s \in T PROVE s \union {x} \in T
  <2>1. IsFiniteSet(s)
    BY FS_Subset
  <2>2. SumFunctionOnSet(f, s \union {x}) = f[x] + SumFunctionOnSet(f, s)
    BY <2>1, SumAdd
  <2>3. SumFunctionOnSet(g, s \union {x}) = g[x] + SumFunctionOnSet(g, s)
    BY <2>1, SumAdd
  <2> QED
    BY <1>2, <2>2, <2>3
<1>3. S \in T
  <2> HIDE DEF T
  <2> QED
    BY <1>1, <1>2, SubsetInduction
<1> QED
  BY <1>3

(* A change at one element.                                                *)
LEMMA SumChange ==
  ASSUME NEW S, IsFiniteSet(S), NEW x \in S, NEW f, NEW g,
         \A y \in S : f[y] \in Int /\ g[y] \in Int,
         \A y \in S \ {x} : g[y] = f[y]
  PROVE  SumFunctionOnSet(g, S) = SumFunctionOnSet(f, S) - f[x] + g[x]
<1>1. IsFiniteSet(S \ {x})
  BY FS_RemoveElement
<1>2. SumFunctionOnSet(g, S \ {x}) = SumFunctionOnSet(f, S \ {x})
  BY <1>1, SumSame
<1>3. SumFunctionOnSet(f, S \ {x}) \in Int
  BY <1>1, SumType
<1>4. /\ SumFunctionOnSet(f, S) = f[x] + SumFunctionOnSet(f, S \ {x})
      /\ SumFunctionOnSet(g, S) = g[x] + SumFunctionOnSet(g, S \ {x})
  BY SumRemove
<1> QED
  BY <1>2, <1>3, <1>4

(* A linear bound on each element is one on the sum.                       *)
LEMMA SumBound ==
  ASSUME NEW S, IsFiniteSet(S), NEW f, NEW g, NEW h,
         \A x \in S : f[x] \in Int /\ g[x] \in Int /\ h[x] \in Int,
         NEW a \in Int, NEW b \in Int, NEW c \in Int, NEW d \in Int,
         \A x \in S : a * f[x] <= b * g[x] + c * h[x] + d
  PROVE  a * SumFunctionOnSet(f, S)
           <= b * SumFunctionOnSet(g, S) + c * SumFunctionOnSet(h, S) + d * Cardinality(S)
<1> DEFINE F(s) == SumFunctionOnSet(f, s)
           G(s) == SumFunctionOnSet(g, s)
           H(s) == SumFunctionOnSet(h, s)
           T == {s \in SUBSET S : a * F(s) <= b * G(s) + c * H(s) + d * Cardinality(s)}
<1>0. \A s \in SUBSET S : IsFiniteSet(s)
  BY FS_Subset
<1>1. {} \in T
  <2>1. F({}) = 0 /\ G({}) = 0 /\ H({}) = 0 /\ Cardinality({}) = 0
    BY SumEmpty, FS_EmptySet
  <2> HIDE DEF F, G, H
  <2> QED
    BY <2>1
<1>2. ASSUME NEW s \in SUBSET S, NEW x \in S \ s, s \in T PROVE s \union {x} \in T
  <2>1. F(s) \in Int /\ G(s) \in Int /\ H(s) \in Int /\ Cardinality(s) \in Nat
    BY <1>0, SumType, FS_CardinalityType
  <2>2. F(s \union {x}) = f[x] + F(s)
    BY <1>0, SumAdd
  <2>3. G(s \union {x}) = g[x] + G(s)
    BY <1>0, SumAdd
  <2>4. H(s \union {x}) = h[x] + H(s)
    BY <1>0, SumAdd
  <2>5. Cardinality(s \union {x}) = Cardinality(s) + 1
    BY <1>0, FS_AddElement
  <2>6. /\ a * f[x] <= b * g[x] + c * h[x] + d
        /\ a * F(s) <= b * G(s) + c * H(s) + d * Cardinality(s)
    BY <1>2
  <2> HIDE DEF F, G, H
  <2>7. ASSUME NEW k \in Int, NEW m \in Int, NEW n \in Int
        PROVE  k * m \in Int /\ k * n \in Int /\ k * (m + n) = k * m + k * n
    OBVIOUS
  <2>8. f[x] \in Int /\ g[x] \in Int /\ h[x] \in Int
    OBVIOUS
  <2>9. a * (f[x] + F(s)) = a * f[x] + a * F(s) /\ a * f[x] \in Int /\ a * F(s) \in Int
    BY <2>1, <2>7, <2>8
  <2>10. b * (g[x] + G(s)) = b * g[x] + b * G(s) /\ b * g[x] \in Int /\ b * G(s) \in Int
    BY <2>1, <2>7, <2>8
  <2>11. c * (h[x] + H(s)) = c * h[x] + c * H(s) /\ c * h[x] \in Int /\ c * H(s) \in Int
    BY <2>1, <2>7, <2>8
  <2>12. d * (Cardinality(s) + 1) = d * Cardinality(s) + d /\ d * Cardinality(s) \in Int
    BY <2>1
  <2>13. a * (f[x] + F(s)) <= b * (g[x] + G(s)) + c * (h[x] + H(s)) + d * (Cardinality(s) + 1)
    BY <2>6, <2>9, <2>10, <2>11, <2>12
  <2> QED
    BY <2>2, <2>3, <2>4, <2>5, <2>13
<1>3. S \in T
  <2> HIDE DEF T
  <2> QED
    BY <1>1, <1>2, SubsetInduction
<1> QED
  BY <1>3

(* Smaller values have a smaller sum.                                      *)
LEMMA SumMonotone ==
  ASSUME NEW S, IsFiniteSet(S), NEW f, NEW g,
         \A x \in S : f[x] \in Int /\ g[x] \in Int /\ f[x] <= g[x]
  PROVE  SumFunctionOnSet(f, S) <= SumFunctionOnSet(g, S)
<1> DEFINE one == 1
           zero == 0
<1>1. \A x \in S : one * f[x] <= one * g[x] + zero * g[x] + zero
  OBVIOUS
<1>2. one * SumFunctionOnSet(f, S) <= one * SumFunctionOnSet(g, S)
        + zero * SumFunctionOnSet(g, S) + zero * Cardinality(S)
  <2>1. one \in Int /\ zero \in Int
    OBVIOUS
  <2> HIDE DEF one, zero
  <2> QED
    BY <1>1, <2>1, SumBound
<1>3. /\ SumFunctionOnSet(f, S) \in Int /\ SumFunctionOnSet(g, S) \in Int
      /\ Cardinality(S) \in Nat
  BY SumType, FS_CardinalityType
<1> QED
  BY <1>2, <1>3

(* Elements of value 0 may be left out.                                    *)
LEMMA SumNonzero ==
  ASSUME NEW S, IsFiniteSet(S), NEW R \in SUBSET S, NEW f,
         \A x \in R : f[x] \in Int, \A x \in S \ R : f[x] = 0
  PROVE  SumFunctionOnSet(f, S) = SumFunctionOnSet(f, R)
<1> DEFINE Q == S \ R
           T == {s \in SUBSET Q :
                   SumFunctionOnSet(f, R \union s) = SumFunctionOnSet(f, R)}
<1>1. {} \in T
  BY Zenon
<1>2. ASSUME NEW s \in SUBSET Q, NEW x \in Q \ s, s \in T PROVE s \union {x} \in T
  <2>1. IsFiniteSet(R \union s) /\ x \notin R \union s
    BY FS_Subset
  <2>2. f[x] = 0 /\ \A y \in R \union s : f[y] \in Int
    OBVIOUS
  <2>3. SumFunctionOnSet(f, (R \union s) \union {x}) = f[x] + SumFunctionOnSet(f, R \union s)
    BY <2>1, <2>2, SumAdd
  <2>4. (R \union s) \union {x} = R \union (s \union {x})
    OBVIOUS
  <2>5. SumFunctionOnSet(f, R \union s) \in Int
    BY <2>1, <2>2, SumType
  <2>6. SumFunctionOnSet(f, R \union s) = SumFunctionOnSet(f, R)
    BY <1>2
  <2>7. SumFunctionOnSet(f, R \union (s \union {x})) = f[x] + SumFunctionOnSet(f, R \union s)
    BY Zenon, <2>3, <2>4
  <2>8. f[x] + SumFunctionOnSet(f, R \union s) = SumFunctionOnSet(f, R \union s)
    BY <2>2, <2>5
  <2> QED
    BY <2>6, <2>7, <2>8
<1>3. Q \in T
  <2>1. IsFiniteSet(Q)
    BY FS_Subset
  <2> HIDE DEF T
  <2> QED
    BY <1>1, <1>2, <2>1, SubsetInduction
<1>4. R \union Q = S
  OBVIOUS
<1> QED
  BY <1>3, <1>4

(* A sum may be taken over the values of an injection instead.             *)
LEMMA SumReindex ==
  ASSUME NEW S, IsFiniteSet(S), NEW f, NEW g, NEW e,
         \A x \in S : f[x] \in Int /\ g[e[x]] = f[x],
         \A x, y \in S : e[x] = e[y] => x = y
  PROVE  /\ IsFiniteSet({e[x] : x \in S})
         /\ SumFunctionOnSet(g, {e[x] : x \in S}) = SumFunctionOnSet(f, S)
<1> DEFINE Img(s) == {e[x] : x \in s}
           T == {s \in SUBSET S :
                   /\ IsFiniteSet(Img(s))
                   /\ SumFunctionOnSet(g, Img(s)) = SumFunctionOnSet(f, s)}
<1>1. {} \in T
  <2>1. Img({}) = {}
    OBVIOUS
  <2>2. SumFunctionOnSet(g, {}) = 0 /\ SumFunctionOnSet(f, {}) = 0 /\ IsFiniteSet({})
    BY SumEmpty, FS_EmptySet
  <2> HIDE DEF Img
  <2> QED
    BY <2>1, <2>2
<1>2. ASSUME NEW s \in SUBSET S, NEW x \in S \ s, s \in T PROVE s \union {x} \in T
  <2>1. IsFiniteSet(s)
    BY FS_Subset
  <2>2. Img(s \union {x}) = Img(s) \union {e[x]} /\ e[x] \notin Img(s)
    OBVIOUS
  <2>3. \A y \in Img(s) : g[y] \in Int
    OBVIOUS
  <2>4. g[e[x]] \in Int
    OBVIOUS
  <2>5. IsFiniteSet(Img(s))
    BY <1>2
  <2>6. SumFunctionOnSet(f, s \union {x}) = f[x] + SumFunctionOnSet(f, s)
    BY <2>1, SumAdd
  <2> HIDE DEF Img
  <2>7. SumFunctionOnSet(g, Img(s) \union {e[x]}) = g[e[x]] + SumFunctionOnSet(g, Img(s))
    BY <2>2, <2>3, <2>4, <2>5, SumAdd
  <2>8. IsFiniteSet(Img(s) \union {e[x]})
    BY <2>5, FS_AddElement
  <2> QED
    BY <1>2, <2>2, <2>6, <2>7, <2>8
<1>3. S \in T
  <2> HIDE DEF T
  <2> QED
    BY <1>1, <1>2, SubsetInduction
<1> QED
  BY <1>3

-----------------------------------------------------------------------------
(* The reducer's fold of the entries of a stream.                          *)

(* A finite set of integers that is not empty has a greatest element.      *)
LEMMA MaxElement ==
  ASSUME NEW S, IsFiniteSet(S), S # {}, S \subseteq Int
  PROVE  Max(S) \in S /\ \A y \in S : Max(S) >= y
<1> DEFINE T == {s \in SUBSET S : s # {} => \E x \in s : \A y \in s : x >= y}
<1>1. ASSUME NEW s \in SUBSET S, NEW x \in S \ s, s \in T PROVE s \union {x} \in T
  <2>1. CASE s = {}
    <3>1. \A y \in s \union {x} : x >= y
      BY <2>1
    <3> QED
      BY <3>1
  <2>2. CASE s # {}
    <3>1. PICK z \in s : \A y \in s : z >= y
      BY <1>1, <2>2
    <3>2. CASE z >= x
      <4>1. \A y \in s \union {x} : z >= y
        BY <3>1, <3>2
      <4> QED
        BY <4>1
    <3>3. CASE ~(z >= x)
      <4>1. \A y \in s \union {x} : x >= y
        BY <3>1, <3>3
      <4> QED
        BY <4>1
    <3> QED
      BY <3>2, <3>3
  <2> QED
    BY <2>1, <2>2
<1>2. S \in T
  <2>1. {} \in T
    OBVIOUS
  <2> HIDE DEF T
  <2> QED
    BY <1>1, <2>1, SubsetInduction
<1>3. \E x \in S : \A y \in S : x >= y
  BY <1>2
<1> QED
  BY <1>3 DEF Max

(* What the reducer makes of a sequence of entries.                        *)
Fold(b, q) == FoldLeft(ApplyEntry, b, q)

(* FoldLeft, as the choice that defines it: the newest entry is applied    *)
(* last.                                                                   *)
IsFold(b, q, g) ==
  g = [s \in SUBSET DOMAIN q |->
         IF s = {} THEN b ELSE ApplyEntry(g[s \ {Max(s)}], q[Max(s)])]

(* FoldLeft is the function that IsFold chooses, at the whole sequence.    *)
LEMMA FoldDef ==
  ASSUME NEW b, NEW q
  PROVE  Fold(b, q) = (CHOOSE g : IsFold(b, q, g))[DOMAIN q]
BY Zenon DEF Fold, FoldLeft, MapThenFoldSet, IsFold

(* V is a set of snapshots that the reducer stays in.                      *)
Closed(V) == \A v \in V, e \in Message : ApplyEntry(v, e) \in V

(* The index taken out of a set of indices, and the step it makes.         *)
Newest(q) == [s \in SUBSET DOMAIN q |-> Max(s)]

(* The step as a function of an index and a snapshot.                      *)
Entry(q, V) == [iv \in (DOMAIN q) \X V |-> ApplyEntry(iv[2], q[iv[1]])]

(* The step at an index applies the entry there.                           *)
LEMMA EntryValue ==
  ASSUME NEW q, NEW V, NEW i \in DOMAIN q, NEW v \in V
  PROVE  Entry(q, V)[<<i, v>>] = ApplyEntry(v, q[i])
BY DEF Entry

(* The newest of some indices is one of them, and names an entry.          *)
LEMMA NewestElement ==
  ASSUME NEW q \in Seq(Message)
  PROVE  /\ IsFiniteSet(DOMAIN q)
         /\ \A s \in SUBSET DOMAIN q : s # {} => Newest(q)[s] \in s
         /\ \A i \in DOMAIN q : q[i] \in Message
<1>1. DOMAIN q = 1 .. Len(q) /\ Len(q) \in Nat
  OBVIOUS
<1>2. IsFiniteSet(DOMAIN q)
  BY <1>1, FS_Interval
<1>3. ASSUME NEW s \in SUBSET DOMAIN q, s # {} PROVE Max(s) \in s
  <2>1. IsFiniteSet(s) /\ s \subseteq Int
    BY <1>1, <1>2, FS_Subset
  <2> QED
    BY <1>3, <2>1, MaxElement
<1> QED
  BY <1>2, <1>3 DEF Newest

(* What is a fold by IsFold stays in a closed set and is so by a           *)
(* recursion.                                                              *)
LEMMA FoldRecurs ==
  ASSUME NEW V, Closed(V), NEW b \in V, NEW q \in Seq(Message), NEW g, IsFold(b, q, g)
  PROVE  /\ \A s \in SUBSET DOMAIN q : g[s] \in V
         /\ IsRecursion(g, DOMAIN q, b, Newest(q), Entry(q, V))
<1> DEFINE D == DOMAIN q
           pick == Newest(q)
           T == {s \in SUBSET D : g[s] \in V}
<1>1. /\ IsFiniteSet(D) /\ \A i \in D : q[i] \in Message
      /\ \A s \in SUBSET D : s # {} => pick[s] \in s
  BY NewestElement
<1>2. \A s \in SUBSET D : g[s] = IF s = {} THEN b ELSE ApplyEntry(g[s \ {pick[s]}], q[pick[s]])
  BY DEF IsFold, Newest
<1> HIDE DEF pick, D
<1>3. ASSUME NEW s \in SUBSET D,
             \A r \in SUBSET D : Cardinality(r) < Cardinality(s) => r \in T
      PROVE  s \in T
  <2>1. CASE s = {}
    BY <1>2, <2>1
  <2>2. CASE s # {}
    <3>1. IsFiniteSet(s)
      BY <1>1, FS_Subset
    <3>2. pick[s] \in s
      BY <1>1, <2>2
    <3>3. Cardinality(s \ {pick[s]}) < Cardinality(s)
      BY <3>1, <3>2, OneLess
    <3>4. g[s \ {pick[s]}] \in V /\ q[pick[s]] \in Message
      BY <1>1, <1>3, <3>2, <3>3
    <3>5. g[s] = ApplyEntry(g[s \ {pick[s]}], q[pick[s]])
      BY <1>2, <2>2
    <3> QED
      BY <3>4, <3>5 DEF Closed
  <2> QED
    BY <2>1, <2>2
<1>4. \A s \in SUBSET D : s \in T
  <2> HIDE DEF T
  <2> QED
    BY <1>1, <1>3, SizeInduction
<1>5. ASSUME NEW s \in SUBSET D PROVE Recurs(g, s, b, pick, Entry(q, V))
  <2>1. CASE s = {}
    BY <1>2, <2>1 DEF Recurs
  <2>2. CASE s # {}
    <3>1. pick[s] \in D /\ g[s \ {pick[s]}] \in V
      BY <1>1, <1>4, <2>2
    <3>2. Entry(q, V)[<<pick[s], g[s \ {pick[s]}]>>] = ApplyEntry(g[s \ {pick[s]}], q[pick[s]])
      BY <3>1, EntryValue DEF D
    <3>3. g[s] = ApplyEntry(g[s \ {pick[s]}], q[pick[s]])
      BY <1>2, <2>2
    <3> QED
      BY <2>2, <3>2, <3>3 DEF Recurs
  <2> QED
    BY <2>1, <2>2
<1> QED
  BY <1>4, <1>5 DEF IsRecursion, pick, D

(* There is such a fold.                                                   *)
LEMMA FoldExists ==
  ASSUME NEW V, Closed(V), NEW b \in V, NEW q \in Seq(Message)
  PROVE  \E g : IsFold(b, q, g)
<1>1. /\ IsFiniteSet(DOMAIN q) /\ \A i \in DOMAIN q : q[i] \in Message
      /\ \A s \in SUBSET DOMAIN q : s # {} => Newest(q)[s] \in s
  BY NewestElement
<1>2. ASSUME NEW i \in DOMAIN q, NEW v \in V PROVE Entry(q, V)[<<i, v>>] \in V
  BY <1>1, EntryValue DEF Closed
<1>3. PICK g \in [SUBSET DOMAIN q -> V] :
         IsRecursion(g, DOMAIN q, b, Newest(q), Entry(q, V))
  BY <1>1, <1>2, Recursion
<1>4. ASSUME NEW s \in SUBSET DOMAIN q
      PROVE  g[s] = IF s = {} THEN b ELSE ApplyEntry(g[s \ {Max(s)}], q[Max(s)])
  <2>1. CASE s = {}
    BY <1>3, <2>1 DEF IsRecursion, Recurs
  <2>2. CASE s # {}
    <3>1. Max(s) \in DOMAIN q /\ Newest(q)[s] = Max(s)
      BY <1>1, <2>2 DEF Newest
    <3>2. g[s \ {Max(s)}] \in V
      BY <1>3
    <3>3. Entry(q, V)[<<Max(s), g[s \ {Max(s)}]>>] = ApplyEntry(g[s \ {Max(s)}], q[Max(s)])
      BY <3>1, <3>2, EntryValue
    <3>4. g[s] = Entry(q, V)[<<Max(s), g[s \ {Max(s)}]>>]
      BY <1>3, <2>2, <3>1 DEF IsRecursion, Recurs
    <3> QED
      BY <2>2, <3>3, <3>4
  <2> QED
    BY <2>1, <2>2
<1> QED
  BY <1>4 DEF IsFold

(* What the fold of a sequence has done after a prefix of it is the fold   *)
(* of the prefix.                                                          *)
LEMMA FoldPrefix ==
  ASSUME NEW V, Closed(V), NEW b \in V, NEW q \in Seq(Message), NEW g, IsFold(b, q, g),
         NEW p \in Seq(Message), Len(p) <= Len(q), \A i \in DOMAIN p : p[i] = q[i]
  PROVE  Fold(b, p) = g[DOMAIN p]
<1> DEFINE H == CHOOSE h : IsFold(b, p, h)
           D == DOMAIN p
           G == [s \in SUBSET D |-> g[s]]
<1>1. IsFold(b, p, H)
  BY FoldExists
<1>2. D \subseteq DOMAIN q
  OBVIOUS
<1>3. \A s \in SUBSET D : g[s] = IF s = {} THEN b ELSE ApplyEntry(g[s \ {Max(s)}], p[Max(s)])
  <2>1. ASSUME NEW s \in SUBSET D, s # {} PROVE Max(s) \in D
    BY <2>1, NewestElement DEF Newest
  <2>2. \A s \in SUBSET D : g[s] = IF s = {} THEN b ELSE ApplyEntry(g[s \ {Max(s)}], q[Max(s)])
    BY <1>2 DEF IsFold
  <2> QED
    BY <2>1, <2>2
<1>4. IsFold(b, p, G)
  <2>1. ASSUME NEW s \in SUBSET D
        PROVE  G[s] = IF s = {} THEN b ELSE ApplyEntry(G[s \ {Max(s)}], p[Max(s)])
    BY <1>3
  <2>2. G = [s \in SUBSET D |-> IF s = {} THEN b ELSE ApplyEntry(G[s \ {Max(s)}], p[Max(s)])]
    BY <2>1
  <2> HIDE DEF G
  <2> QED
    BY <2>2 DEF IsFold
<1>5. H[D] = G[D]
  <2> HIDE DEF G, H
  <2> DEFINE pick == Newest(p)
             step == Entry(p, V)
  <2>1. IsRecursion(G, D, b, pick, step) /\ IsRecursion(H, D, b, pick, step)
    BY <1>1, <1>4, FoldRecurs
  <2>2. IsFiniteSet(D) /\ \A s \in SUBSET D : s # {} => pick[s] \in s
    BY NewestElement
  <2> HIDE DEF D, pick, step
  <2> QED
    BY <2>1, <2>2, RecursionUnique
<1> QED
  BY <1>5, FoldDef

(* The fold of entries stays in a set that each of them stays in.          *)
LEMMA FoldType ==
  ASSUME NEW V, Closed(V), NEW b \in V, NEW q \in Seq(Message)
  PROVE  Fold(b, q) \in V
<1> DEFINE H == CHOOSE h : IsFold(b, q, h)
<1>1. IsFold(b, q, H)
  BY FoldExists
<1>2. H[DOMAIN q] \in V
  <2> HIDE DEF H
  <2> QED
    BY <1>1, FoldRecurs
<1> QED
  BY <1>2, FoldDef

(* No entry changes nothing.                                               *)
LEMMA FoldEmpty ==
  ASSUME NEW V, Closed(V), NEW b \in V
  PROVE  Fold(b, <<>>) = b
<1> DEFINE H == CHOOSE h : IsFold(b, <<>>, h)
<1>1. IsFold(b, <<>>, H)
  <2>1. <<>> \in Seq(Message)
    OBVIOUS
  <2> QED
    BY <2>1, FoldExists
<1>2. DOMAIN <<>> = {}
  OBVIOUS
<1>3. H[DOMAIN <<>>] = b
  <2> HIDE DEF H
  <2> QED
    BY <1>1, <1>2 DEF IsFold
<1> QED
  BY <1>3, FoldDef

(* One more entry is applied to what the others made.                      *)
LEMMA FoldAppend ==
  ASSUME NEW V, Closed(V), NEW b \in V, NEW q \in Seq(Message), NEW e \in Message
  PROVE  Fold(b, Append(q, e)) = ApplyEntry(Fold(b, q), e)
<1> DEFINE r == Append(q, e)
           n == Len(q) + 1
           H == CHOOSE h : IsFold(b, r, h)
<1>1. r \in Seq(Message) /\ DOMAIN r = 1 .. n /\ r[n] = e /\ n \in Nat
  OBVIOUS
<1>2. IsFold(b, r, H)
  BY <1>1, FoldExists
<1>3. Max(1 .. n) = n
  <2>1. n \in Nat /\ n >= 1
    OBVIOUS
  <2> HIDE DEF n
  <2>4. IsFiniteSet(1 .. n)
    BY <2>1, FS_Interval
  <2>5. n \in 1 .. n /\ 1 .. n \subseteq Int
    BY <2>1
  <2>2. Max(1 .. n) \in 1 .. n /\ \A y \in 1 .. n : Max(1 .. n) >= y
    BY <2>4, <2>5, MaxElement
  <2> QED
    BY <2>1, <2>2, <2>5
<1>4. (1 .. n) \ {n} = DOMAIN q
  <2>1. Len(q) \in Nat /\ DOMAIN q = 1 .. Len(q)
    OBVIOUS
  <2>2. ASSUME NEW k \in Nat PROVE (1 .. (k + 1)) \ {k + 1} = 1 .. k
    OBVIOUS
  <2> QED
    BY <2>1, <2>2
<1>5. Fold(b, q) = H[DOMAIN q]
  <2>1. Len(q) <= Len(r) /\ \A i \in DOMAIN q : q[i] = r[i]
    OBVIOUS
  <2> HIDE DEF r, H
  <2> QED
    BY <1>1, <1>2, <2>1, FoldPrefix
<1>6. H[DOMAIN r] = ApplyEntry(H[DOMAIN q], e)
  <2>1. 1 .. n \in SUBSET DOMAIN r /\ 1 .. n # {}
    BY <1>1
  <2> HIDE DEF r, H, n
  <2>2. H[1 .. n] = ApplyEntry(H[(1 .. n) \ {Max(1 .. n)}], r[Max(1 .. n)])
    BY <1>2, <2>1 DEF IsFold
  <2> QED
    BY <1>1, <1>3, <1>4, <2>2
<1> QED
  BY <1>5, <1>6, FoldDef

(* Reducing some entries and then the others is reducing them all.         *)
LEMMA FoldSplit ==
  ASSUME NEW V, Closed(V), NEW b \in V, NEW q \in Seq(Message), NEW k \in 0 .. Len(q)
  PROVE  Fold(Fold(b, SubSeq(q, 1, k)), SubSeq(q, k + 1, Len(q))) = Fold(b, q)
<1> DEFINE mid == Fold(b, SubSeq(q, 1, k))
           T == {n \in Nat : k + n <= Len(q) =>
                   Fold(mid, SubSeq(q, k + 1, k + n)) = Fold(b, SubSeq(q, 1, k + n))}
<1>1. /\ Len(q) \in Nat /\ k \in Nat /\ k <= Len(q)
      /\ \A i \in 1 .. Len(q) : q[i] \in Message
  OBVIOUS
<1>2. ASSUME NEW i \in 1 .. Len(q) + 1, NEW j \in 0 .. Len(q)
      PROVE  SubSeq(q, i, j) \in Seq(Message)
  <2>1. \A m \in i .. j : q[m] \in Message
    BY <1>1
  <2> QED
    BY <2>1, SubSeqProperties
<1>3. ASSUME NEW i \in 1 .. Len(q), NEW j \in i .. Len(q)
      PROVE  SubSeq(q, i, j) = Append(SubSeq(q, i, j - 1), q[j])
  OBVIOUS
<1>4. mid \in V
  <2>1. SubSeq(q, 1, k) \in Seq(Message)
    BY <1>1, <1>2
  <2> QED
    BY <2>1, FoldType
<1> HIDE DEF mid
<1>5. 0 \in T
  <2>1. SubSeq(q, k + 1, k) = <<>>
    BY <1>1
  <2>2. Fold(mid, <<>>) = mid
    BY <1>4, FoldEmpty
  <2>3. k + 0 = k
    BY <1>1
  <2>4. Fold(mid, SubSeq(q, k + 1, k + 0)) = Fold(b, SubSeq(q, 1, k + 0))
    BY <2>1, <2>2, <2>3 DEF mid
  <2> QED
    BY <2>4
<1>6. ASSUME NEW n \in T PROVE n + 1 \in T
  <2>1. SUFFICES ASSUME k + (n + 1) <= Len(q)
        PROVE  Fold(mid, SubSeq(q, k + 1, k + (n + 1))) = Fold(b, SubSeq(q, 1, k + (n + 1)))
    OBVIOUS
  <2> DEFINE m == k + n
             e == q[m + 1]
             front == SubSeq(q, 1, m)
             back == SubSeq(q, k + 1, m)
  <2>2. m \in 0 .. Len(q) /\ m + 1 \in 1 .. Len(q) /\ k + (n + 1) = m + 1 /\ k + 1 <= m + 1
    BY <1>1, <2>1
  <2>3. Fold(mid, back) = Fold(b, front)
    BY <1>1, <2>1
  <2>4. SubSeq(q, 1, m + 1) = Append(front, e)
    BY <1>1, <1>3, <2>2
  <2>5. SubSeq(q, k + 1, m + 1) = Append(back, e)
    BY <1>1, <1>3, <2>2
  <2>6. front \in Seq(Message) /\ back \in Seq(Message) /\ e \in Message
    BY <1>1, <1>2, <2>2
  <2> HIDE DEF m, e, front, back
  <2>7. Fold(b, Append(front, e)) = ApplyEntry(Fold(b, front), e)
    BY <2>6, FoldAppend
  <2>8. Fold(mid, Append(back, e)) = ApplyEntry(Fold(mid, back), e)
    BY <1>4, <2>6, FoldAppend
  <2> QED
    BY <2>2, <2>3, <2>4, <2>5, <2>7, <2>8
<1>7. T = Nat
  <2> HIDE DEF T
  <2>1. T \subseteq Nat
    BY DEF T
  <2> QED
    BY <1>5, <1>6, <2>1, NatSetInduction
<1>8. Len(q) - k \in Nat /\ k + (Len(q) - k) = Len(q)
  BY <1>1
<1>9. Fold(mid, SubSeq(q, k + 1, Len(q))) = Fold(b, SubSeq(q, 1, Len(q)))
  <2>1. Len(q) - k \in T
    BY <1>7, <1>8
  <2> QED
    BY <1>1, <1>8, <2>1
<1>10. SubSeq(q, 1, Len(q)) = q
  BY SubSeqFull
<1> QED
  BY <1>9, <1>10 DEF mid

-----------------------------------------------------------------------------
(* What an entry does to an account.                                       *)

(* The snapshots of an account, as a set.                                  *)
Snapshots ==
  UNION {[stream : Streams, last : Nat, cash : Int, positions : [symbols -> Nat]] :
           symbols \in SUBSET Symbols}

(* They are what SnapshotOK says.                                          *)
LEMMA SnapshotSet == \A s : SnapshotOK(s) <=> s \in Snapshots
BY DEF SnapshotOK, Snapshots

(* The reducer leaves the account as it is, but for the number.            *)
Refused(s, e) ==
  \/ e.kind = "WITHDRAWAL" /\ e.amount > s.cash
  \/ e.kind = "SELL" /\ e.amount > Quantity(s, e.symbol)

(* The cash and the shares that an entry moves.                            *)
CashMoved(s, e) ==
  IF Refused(s, e) THEN 0
  ELSE IF e.kind \in {"DEPOSIT", "SELL"} THEN e.amount
  ELSE IF e.kind \in {"WITHDRAWAL", "BUY"} THEN -e.amount
  ELSE 0

(* The shares of its symbol.                                               *)
SharesMoved(s, e) ==
  IF Refused(s, e) THEN 0
  ELSE IF e.kind = "BUY" THEN e.amount
  ELSE IF e.kind = "SELL" THEN -e.amount
  ELSE 0

(* A record with these fields is a snapshot.                               *)
LEMMA SnapshotRecord ==
  ASSUME NEW stream \in Streams, NEW last \in Nat, NEW cash \in Int,
         NEW positions, \E held \in SUBSET Symbols : positions \in [held -> Nat]
  PROVE  [stream |-> stream, last |-> last, cash |-> cash, positions |-> positions]
           \in Snapshots
BY DEF Snapshots

(* A quantity is a natural number, whatever the symbol.                    *)
LEMMA QuantityType ==
  ASSUME NEW s \in Snapshots, NEW x
  PROVE  Quantity(s, x) \in Nat
BY DEF Snapshots, Quantity

(* Setting one quantity leaves the others.                                 *)
LEMMA WithQuantityType ==
  ASSUME NEW s \in Snapshots, NEW x \in Symbols, NEW n \in Nat
  PROVE  /\ \E symbols \in SUBSET Symbols : WithQuantity(s, x, n) \in [symbols -> Nat]
         /\ DOMAIN WithQuantity(s, x, n) = DOMAIN s.positions \union {x}
         /\ \A y \in DOMAIN s.positions \union {x} :
              WithQuantity(s, x, n)[y] = IF y = x THEN n ELSE s.positions[y]
BY DEF Snapshots, WithQuantity

(* What accountReducer does with one entry: it numbers the snapshot,       *)
(* moves the cash, and moves the shares of one symbol; no quantity         *)
(* becomes negative.                                                       *)
LEMMA EntryEffect ==
  ASSUME NEW s \in Snapshots, NEW e \in Message
  PROVE  /\ ApplyEntry(s, e) \in Snapshots
         /\ ApplyEntry(s, e).stream = s.stream
         /\ ApplyEntry(s, e).last = s.last + 1
         /\ ApplyEntry(s, e).cash = s.cash + CashMoved(s, e)
         /\ \A x \in Symbols : Quantity(ApplyEntry(s, e), x) =
              Quantity(s, x) + IF x = e.symbol THEN SharesMoved(s, e) ELSE 0
<1> DEFINE q == Quantity(s, e.symbol)
           numbered == [s EXCEPT !.last = @ + 1]
           bought == WithQuantity(s, e.symbol, q + e.amount)
           sold == WithQuantity(s, e.symbol, q - e.amount)
<1>1. /\ e.kind \in {"none", "DEPOSIT", "WITHDRAWAL", "BUY", "SELL"}
      /\ e.symbol \in Symbols /\ e.amount \in Nat /\ q \in Nat
  BY QuantityType DEF Message
<1>2. PICK symbols \in SUBSET Symbols :
         s \in [stream : Streams, last : Nat, cash : Int, positions : [symbols -> Nat]]
  BY DEF Snapshots
<1>3. /\ numbered \in Snapshots
      /\ numbered.stream = s.stream /\ numbered.last = s.last + 1
      /\ numbered.cash = s.cash /\ numbered.positions = s.positions
  BY <1>2 DEF Snapshots
<1>4. CASE Refused(s, e) \/ e.kind = "none"
  <2>1. ApplyEntry(s, e) = numbered
    BY <1>1, <1>2, <1>4 DEF ApplyEntry, Refused
  <2> QED
    BY <1>1, <1>2, <1>3, <1>4, <2>1, QuantityType DEF CashMoved, SharesMoved, Quantity, Refused
<1>9. ASSUME NEW cash \in Int, NEW p, \E held \in SUBSET Symbols : p \in [held -> Nat],
             ApplyEntry(s, e) = [stream |-> s.stream, last |-> s.last + 1,
                                 cash |-> cash, positions |-> p]
      PROVE  /\ ApplyEntry(s, e) \in Snapshots
             /\ ApplyEntry(s, e).stream = s.stream /\ ApplyEntry(s, e).last = s.last + 1
             /\ ApplyEntry(s, e).cash = cash /\ ApplyEntry(s, e).positions = p
  BY <1>2, <1>9, SnapshotRecord
<1>5. CASE e.kind = "DEPOSIT"
  <2>1. ApplyEntry(s, e) = [stream |-> s.stream, last |-> s.last + 1,
                            cash |-> s.cash + e.amount, positions |-> s.positions]
    BY <1>2, <1>5 DEF ApplyEntry
  <2>2. ~Refused(s, e) /\ CashMoved(s, e) = e.amount /\ SharesMoved(s, e) = 0
    BY <1>5 DEF Refused, CashMoved, SharesMoved
  <2>3. /\ ApplyEntry(s, e) \in Snapshots
        /\ ApplyEntry(s, e).stream = s.stream /\ ApplyEntry(s, e).last = s.last + 1
        /\ ApplyEntry(s, e).cash = s.cash + e.amount
        /\ ApplyEntry(s, e).positions = s.positions
    BY <1>1, <1>2, <1>9, <2>1
  <2>4. \A x \in Symbols : Quantity(ApplyEntry(s, e), x) = Quantity(s, x)
    BY <2>3 DEF Quantity
  <2> QED
    BY <1>1, <2>2, <2>3, <2>4, QuantityType
<1>6. CASE e.kind = "WITHDRAWAL" /\ ~Refused(s, e)
  <2>1. ApplyEntry(s, e) = [stream |-> s.stream, last |-> s.last + 1,
                            cash |-> s.cash - e.amount, positions |-> s.positions]
    <3>1. e.kind = "WITHDRAWAL" /\ e.amount <= s.cash
      BY <1>1, <1>2, <1>6 DEF Refused
    <3> QED
      BY <1>2, <3>1 DEF ApplyEntry
  <2>2. CashMoved(s, e) = -e.amount /\ SharesMoved(s, e) = 0
    BY <1>6 DEF CashMoved, SharesMoved
  <2>3. /\ ApplyEntry(s, e) \in Snapshots
        /\ ApplyEntry(s, e).stream = s.stream /\ ApplyEntry(s, e).last = s.last + 1
        /\ ApplyEntry(s, e).cash = s.cash - e.amount
        /\ ApplyEntry(s, e).positions = s.positions
    BY <1>1, <1>2, <1>9, <2>1
  <2>4. \A x \in Symbols : Quantity(ApplyEntry(s, e), x) = Quantity(s, x)
    BY <2>3 DEF Quantity
  <2> QED
    BY <1>1, <1>2, <2>2, <2>3, <2>4, QuantityType
<1>7. CASE e.kind = "BUY"
  <2>1. ApplyEntry(s, e) = [stream |-> s.stream, last |-> s.last + 1,
                            cash |-> s.cash - e.amount, positions |-> bought]
    BY <1>2, <1>7 DEF ApplyEntry
  <2>2. ~Refused(s, e) /\ CashMoved(s, e) = -e.amount /\ SharesMoved(s, e) = e.amount
    BY <1>7 DEF Refused, CashMoved, SharesMoved
  <2>3. /\ \E held \in SUBSET Symbols : bought \in [held -> Nat]
        /\ DOMAIN bought = DOMAIN s.positions \union {e.symbol}
        /\ \A y \in DOMAIN s.positions \union {e.symbol} :
             bought[y] = IF y = e.symbol THEN q + e.amount ELSE s.positions[y]
    BY <1>1, WithQuantityType
  <2> HIDE DEF bought
  <2>4. /\ ApplyEntry(s, e) \in Snapshots
        /\ ApplyEntry(s, e).stream = s.stream /\ ApplyEntry(s, e).last = s.last + 1
        /\ ApplyEntry(s, e).cash = s.cash - e.amount
        /\ ApplyEntry(s, e).positions = bought
    BY <1>1, <1>2, <1>9, <2>1, <2>3
  <2>6. \A x \in Symbols : Quantity(ApplyEntry(s, e), x) =
          Quantity(s, x) + IF x = e.symbol THEN e.amount ELSE 0
    BY <1>1, <2>3, <2>4, QuantityType DEF Quantity
  <2> QED
    BY <1>1, <1>2, <2>2, <2>4, <2>6
<1>8. CASE e.kind = "SELL" /\ ~Refused(s, e)
  <2>1. ApplyEntry(s, e) = [stream |-> s.stream, last |-> s.last + 1,
                            cash |-> s.cash + e.amount, positions |-> sold]
    <3>1. e.kind = "SELL" /\ e.amount <= q
      BY <1>1, <1>8 DEF Refused
    <3> QED
      BY <1>2, <3>1 DEF ApplyEntry
  <2>2. CashMoved(s, e) = e.amount /\ SharesMoved(s, e) = -e.amount
    BY <1>8 DEF CashMoved, SharesMoved
  <2>3. /\ \E held \in SUBSET Symbols : sold \in [held -> Nat]
        /\ DOMAIN sold = DOMAIN s.positions \union {e.symbol}
        /\ \A y \in DOMAIN s.positions \union {e.symbol} :
             sold[y] = IF y = e.symbol THEN q - e.amount ELSE s.positions[y]
    <3> DEFINE n == q - e.amount
    <3>1. n \in Nat
      BY <1>1, <1>8 DEF Refused
    <3>2. sold = WithQuantity(s, e.symbol, n)
      OBVIOUS
    <3> HIDE DEF n, sold
    <3>3. \E held \in SUBSET Symbols : sold \in [held -> Nat]
      BY <1>1, <3>1, <3>2, WithQuantityType
    <3>4. DOMAIN sold = DOMAIN s.positions \union {e.symbol}
      BY <3>2 DEF WithQuantity
    <3>5. \A y \in DOMAIN s.positions \union {e.symbol} :
            sold[y] = IF y = e.symbol THEN n ELSE s.positions[y]
      BY <3>2 DEF WithQuantity
    <3> QED
      BY <3>3, <3>4, <3>5 DEF n
  <2> HIDE DEF sold
  <2>4. /\ ApplyEntry(s, e) \in Snapshots
        /\ ApplyEntry(s, e).stream = s.stream /\ ApplyEntry(s, e).last = s.last + 1
        /\ ApplyEntry(s, e).cash = s.cash + e.amount
        /\ ApplyEntry(s, e).positions = sold
    BY <1>1, <1>2, <1>9, <2>1, <2>3
  <2>6. \A x \in Symbols : Quantity(ApplyEntry(s, e), x) =
          Quantity(s, x) + IF x = e.symbol THEN -e.amount ELSE 0
    BY <1>1, <2>3, <2>4, QuantityType DEF Quantity
  <2> QED
    BY <1>1, <1>2, <2>2, <2>4, <2>6
<1> QED
  BY <1>1, <1>4, <1>5, <1>6, <1>7, <1>8

(* The symbols are as few as the events: each has an order of its own.     *)
LEMMA SymbolsFinite == IsFiniteSet(Symbols)
<1>1. OrderOf \in Injection(Symbols, Ids)
  BY PortfolioAssumption DEF Injection, IsInjective
<1> QED
  BY <1>1, FS_Injection, LedgerIntakeAssumption

(* The quantity of every symbol.                                           *)
Holding(s) == [x \in Symbols |-> Quantity(s, x)]

(* The value of the positions is the sum over all symbols.                 *)
LEMMA PositionsValueSum ==
  ASSUME NEW s \in Snapshots
  PROVE  /\ PositionsValue(s) = SumFunctionOnSet(Holding(s), Symbols)
         /\ PositionsValue(s) \in Int
<1> DEFINE D == DOMAIN s.positions
<1>1. D \in SUBSET Symbols /\ \A x \in D : s.positions[x] \in Nat
  BY DEF Snapshots
<1>2. /\ \A x \in D : Holding(s)[x] \in Int /\ Holding(s)[x] = s.positions[x]
      /\ \A x \in Symbols \ D : Holding(s)[x] = 0
  BY <1>1 DEF Holding, Quantity
<1>3. IsFiniteSet(D)
  BY <1>1, SymbolsFinite, FS_Subset
<1> HIDE DEF D
<1>4. SumFunctionOnSet(Holding(s), Symbols) = SumFunctionOnSet(Holding(s), D)
  BY <1>1, <1>2, SymbolsFinite, SumNonzero
<1>5. SumFunctionOnSet(s.positions, D) = SumFunctionOnSet(Holding(s), D)
  BY <1>1, <1>2, <1>3, SumSame
<1>6. SumFunctionOnSet(Holding(s), D) \in Int
  BY <1>2, <1>3, SumType
<1> QED
  BY <1>4, <1>5, <1>6 DEF PositionsValue, D

(* What is held is never worth less than nothing.                          *)
LEMMA PositionsValueNat ==
  ASSUME NEW s \in Snapshots
  PROVE  PositionsValue(s) >= 0
<1> DEFINE zero == [x \in Symbols |-> 0]
<1>1. SumFunctionOnSet(zero, {}) = 0
  BY SumEmpty
<1>2. \A x \in {} : zero[x] \in Int
  OBVIOUS
<1>3. \A x \in Symbols \ {} : zero[x] = 0
  OBVIOUS
<1>4. {} \in SUBSET Symbols
  OBVIOUS
<1>5. \A x \in Symbols : zero[x] \in Int /\ Holding(s)[x] \in Int /\ zero[x] <= Holding(s)[x]
  BY QuantityType DEF Holding
<1> HIDE DEF zero
<1>6. SumFunctionOnSet(zero, Symbols) = 0
  BY <1>1, <1>2, <1>3, <1>4, SymbolsFinite, SumNonzero
<1>7. SumFunctionOnSet(zero, Symbols) <= SumFunctionOnSet(Holding(s), Symbols)
  BY <1>5, SymbolsFinite, SumMonotone
<1> QED
  BY <1>6, <1>7, PositionsValueSum

(* An entry changes the value of what is held by the shares it moves.      *)
LEMMA EntryWorth ==
  ASSUME NEW s \in Snapshots, NEW e \in Message
  PROVE  PositionsValue(ApplyEntry(s, e)) = PositionsValue(s) + SharesMoved(s, e)
<1> DEFINE a == ApplyEntry(s, e)
           f == Holding(s)
           g == Holding(a)
           x == e.symbol
<1>1. a \in Snapshots /\ x \in Symbols
  BY EntryEffect DEF Message
<1>2. SharesMoved(s, e) \in Int
  BY DEF SharesMoved, Message
<1>3. \A y \in Symbols : f[y] \in Int /\ g[y] \in Int
  BY <1>1, QuantityType DEF Holding
<1>4. g[x] = f[x] + SharesMoved(s, e) /\ \A y \in Symbols \ {x} : g[y] = f[y]
  BY <1>1, <1>3, EntryEffect DEF Holding
<1>5. /\ PositionsValue(a) = SumFunctionOnSet(g, Symbols)
      /\ PositionsValue(s) = SumFunctionOnSet(f, Symbols)
      /\ PositionsValue(s) \in Int
  BY <1>1, PositionsValueSum
<1> HIDE DEF a, f, g, x
<1>6. SumFunctionOnSet(g, Symbols) = SumFunctionOnSet(f, Symbols) - f[x] + g[x]
  BY <1>1, <1>3, <1>4, SymbolsFinite, SumChange
<1>7. PositionsValue(a) = PositionsValue(s) + SharesMoved(s, e)
  BY <1>1, <1>2, <1>3, <1>4, <1>5, <1>6
<1> QED
  BY <1>7 DEF a

(* Accounts that are worth something or nothing, whatever they owe.        *)
Solvent(stream) ==
  {s \in Snapshots : s.stream = stream /\ s.cash + PositionsValue(s) >= 0}

(* A solvent account stays solvent: a withdrawal takes no more than the    *)
(* cash, and a purchase that overdraws it buys what it costs.              *)
LEMMA SolventClosed == ASSUME NEW stream PROVE Closed(Solvent(stream))
<1>1. SUFFICES ASSUME NEW s \in Solvent(stream), NEW e \in Message
      PROVE  ApplyEntry(s, e) \in Solvent(stream)
  BY DEF Closed
<1>2. s \in Snapshots /\ s.stream = stream /\ s.cash + PositionsValue(s) >= 0
  BY DEF Solvent
<1> DEFINE a == ApplyEntry(s, e)
<1>3. /\ a \in Snapshots /\ a.stream = stream
      /\ a.cash = s.cash + CashMoved(s, e)
      /\ PositionsValue(a) = PositionsValue(s) + SharesMoved(s, e)
  BY <1>2, EntryEffect, EntryWorth
<1>4. s.cash \in Int /\ PositionsValue(s) \in Int /\ e.amount \in Nat
  BY <1>2, PositionsValueSum DEF Snapshots, Message
<1>5. PositionsValue(s) >= 0
  BY <1>2, PositionsValueNat
<1>6. a.cash + PositionsValue(a) >= 0
  <2>1. CASE e.kind = "WITHDRAWAL" /\ ~(e.amount > s.cash)
    <3>1. CashMoved(s, e) = -e.amount /\ SharesMoved(s, e) = 0
      BY <2>1 DEF CashMoved, SharesMoved, Refused
    <3> HIDE DEF a
    <3> QED
      BY <1>3, <1>4, <1>5, <2>1, <3>1
  <2>2. CASE ~(e.kind = "WITHDRAWAL" /\ ~(e.amount > s.cash))
    <3>1. /\ CashMoved(s, e) \in Int /\ SharesMoved(s, e) \in Int
          /\ CashMoved(s, e) + SharesMoved(s, e) >= 0
      BY <1>4, <2>2 DEF CashMoved, SharesMoved, Refused
    <3> HIDE DEF a
    <3> QED
      BY <1>2, <1>3, <1>4, <3>1
  <2> QED
    BY <2>1, <2>2
<1> QED
  BY <1>3, <1>6 DEF Solvent

-----------------------------------------------------------------------------
(* Types.                                                                  *)

(* The smaller of two numbers.                                             *)
LEMMA MinOfTwo ==
  ASSUME NEW a \in Int, NEW b \in Int
  PROVE  Min({a, b}) = IF a <= b THEN a ELSE b
<1> DEFINE c == IF a <= b THEN a ELSE b
<1>1. c \in {a, b} /\ \A y \in {a, b} : c <= y
  OBVIOUS
<1>2. ASSUME NEW d \in {a, b}, \A y \in {a, b} : d <= y PROVE d = c
  BY <1>2
<1>3. Min({a, b}) \in {a, b} /\ \A y \in {a, b} : Min({a, b}) <= y
  BY <1>1 DEF Min
<1> QED
  BY <1>2, <1>3

(* A function takes finitely many values on a finite set.                  *)
LEMMA ImageFinite ==
  ASSUME NEW S, IsFiniteSet(S), NEW f
  PROVE  IsFiniteSet({f[x] : x \in S})
<1> DEFINE g == [x \in S |-> f[x]]
           T == {f[x] : x \in S}
<1>1. g \in Surjection(S, T)
  BY DEF Surjection
<1> QED
  BY <1>1, FS_Surjection

(* The sequence of a finite set holds elements of the set.                 *)
LEMMA SetToSeqType ==
  ASSUME NEW S, IsFiniteSet(S), NEW M, S \subseteq M
  PROVE  /\ SetToSeq(S) \in Seq(M)
         /\ SetToSeq(S) \in [1 .. Cardinality(S) -> S]
<1>1. PICK n \in Nat : ExistsBijection(1 .. n, S)
  BY FS_NatBijection
<1>2. Cardinality(S) = n
  BY <1>1, FS_CountingElements
<1>3. PICK f \in Bijection(1 .. n, S) : TRUE
  BY <1>1 DEF ExistsBijection
<1>4. f \in [1 .. Cardinality(S) -> S] /\ IsInjective(f)
  BY <1>2, <1>3 DEF Bijection, Injection
<1>5. SetToSeq(S) \in [1 .. Cardinality(S) -> S]
  BY <1>4 DEF SetToSeq
<1>6. ASSUME NEW s \in [1 .. n -> S] PROVE s \in Seq(M)
  <2>1. s \in [1 .. n -> M]
    BY <1>6
  <2> QED
    BY <2>1, SeqDef
<1> QED
  BY <1>2, <1>5, <1>6

(* A stream without a snapshot is solvent.                                 *)
LEMMA NoSnapshotSolvent ==
  /\ NoSnapshot \in Solvent("actual")
  /\ [NoSnapshot EXCEPT !.stream = "simulated"] \in Solvent("simulated")
<1>1. <<>> \in [{} -> Nat] /\ DOMAIN <<>> = {}
  OBVIOUS
<1>2. ASSUME NEW stream \in Streams
      PROVE  [stream |-> stream, last |-> 0, cash |-> 0, positions |-> <<>>]
               \in Solvent(stream)
  <2> DEFINE s == [stream |-> stream, last |-> 0, cash |-> 0, positions |-> <<>>]
  <2>1. s \in Snapshots
    <3> DEFINE p == <<>>
               n == 0
    <3>1. n \in Nat /\ n \in Int
      OBVIOUS
    <3>2. \E held \in SUBSET Symbols : p \in [held -> Nat]
      BY <1>1
    <3> HIDE DEF p, n
    <3>3. [stream |-> stream, last |-> n, cash |-> n, positions |-> p] \in Snapshots
      BY <3>1, <3>2, SnapshotRecord
    <3> QED
      BY <3>3 DEF p, n
  <2>2. PositionsValue(s) >= 0
    BY <2>1, PositionsValueNat
  <2>3. PositionsValue(s) \in Int /\ s.cash = 0
    BY <2>1, PositionsValueSum
  <2> QED
    BY <2>1, <2>2, <2>3 DEF Solvent
<1> QED
  BY <1>2 DEF NoSnapshot, Streams

(* The asset classes that a trade may carry.                               *)
Classes == {AssetClass[x] : x \in Symbols} \union {"OTHER"}

(* A trade of a packet.                                                    *)
Trades == [symbol : Symbols, side : {"BUY", "SELL"}, amount : Nat,
           weight : 0 .. 100, class : Classes]

(* A packet, the trades of which are a set.                                *)
Packets == [made : BOOLEAN, value : Int, trades : SUBSET Trades,
            positions : SUBSET Symbols, risk : RiskCategories]

(* The progress of the handler of an event.                                *)
Works == [pc : {"new", "lots", "update", "dispose", "done"},
          todo : SUBSET Ids, sold : [Ids -> Nat], left : [Ids -> Nat]]

(* A TaxLot row.                                                           *)
LotRows == [status : {"none", "open", "closed"}, shares : Nat]

(* What TypeOK says, and what it needs of the packet, with the accounts    *)
(* solvent.                                                                *)
IntakeType ==
  /\ message \in [Ids -> Message]
  /\ work \in [Ids -> Works]
  /\ recorded \subseteq Ids
  /\ booked \in [Streams -> Seq(Message)]
  /\ lots \in [Ids -> LotRows]
  /\ disposed \in [Ids \X Ids -> Nat]
  /\ images \in [Ids -> SUBSET LotRows]
  /\ torn \subseteq Symbols /\ faults \in 0 .. MaxFaults
  /\ \A m \in Ids : Selling(m) =>
       work[m].todo # {} /\ \A l \in work[m].todo : work[m].sold[l] > 0

(* The accounts and the rows, each solvent.                                *)
ViewsType ==
  /\ saved \in [Streams -> Snapshots]
  /\ \A s \in Streams : saved[s] \in Solvent(s)
  /\ \A e \in published : e[2] \in Solvent(e[2].stream)
  /\ rows \in [DOMAIN rows -> Snapshots]
  /\ \A r \in DOMAIN rows : rows[r] \in Solvent(rows[r].stream)

(* The packet and its verdict; there is a decision only where the row it   *)
(* reads is watched.                                                       *)
AdviceType ==
  /\ packet \in Packets /\ IsFiniteSet(packet.trades)
  /\ verdict.result \in {"none", "BLOCKED", "APPROVED"}
  /\ verdict.level \in {"none", "L1", "L2"}
  /\ triggers \subseteq Nat
  /\ triggers # {} => <<"LedgerSnapshot", "">> \in DOMAIN rows
  /\ shadowed \in BOOLEAN

(* The inductive type invariant.                                           *)
TypeInv == IntakeType /\ ViewsType /\ AdviceType

(* It says what TypeOK says.                                               *)
LEMMA TypeInvTypeOK == TypeInv => TypeOK
<1> SUFFICES ASSUME TypeInv PROVE TypeOK
  OBVIOUS
<1>1. \A s \in Streams : saved[s] \in Snapshots /\ saved[s].stream = s
  BY DEF TypeInv, ViewsType, Solvent
<1>2. \A e \in published : e[2] \in Snapshots
  BY DEF TypeInv, ViewsType, Solvent
<1>3. \A r \in DOMAIN rows : rows[r] \in Snapshots
  BY DEF TypeInv, ViewsType
<1> QED
  BY <1>1, <1>2, <1>3, SnapshotSet DEF TypeInv, IntakeType, AdviceType, TypeOK, Works, LotRows

(* What the reducer starts from is solvent.                                *)
LEMMA BaseType ==
  ASSUME ViewsType, NEW s \in Streams
  PROVE  Base(s) \in Solvent(s)
<1>1. saved[s] \in Snapshots /\ saved[s].stream = s /\ saved[s] \in Solvent(s)
  BY DEF ViewsType, Solvent
<1>2. CASE saved[s].last = 0
  <2> DEFINE b == [saved[s] EXCEPT !.cash = InitialCash]
  <2>1. PICK symbols \in SUBSET Symbols :
           saved[s] \in [stream : Streams, last : Nat, cash : Int,
                         positions : [symbols -> Nat]]
    BY <1>1 DEF Snapshots
  <2>2. b = [stream |-> saved[s].stream, last |-> saved[s].last, cash |-> InitialCash,
             positions |-> saved[s].positions]
    BY <2>1
  <2>3. InitialCash \in Nat
    BY ViewsAssumption
  <2>4. b \in Snapshots /\ b.stream = s /\ b.cash = InitialCash
    BY <1>1, <2>1, <2>2, <2>3, SnapshotRecord
  <2>5. PositionsValue(b) >= 0 /\ PositionsValue(b) \in Int
    BY <2>4, PositionsValueNat, PositionsValueSum
  <2>6. b \in Solvent(s)
    <3> HIDE DEF b
    <3> QED
      BY <2>3, <2>4, <2>5 DEF Solvent
  <2> QED
    BY <1>2, <2>6 DEF Base
<1>3. CASE saved[s].last # 0
  BY <1>1, <1>3 DEF Base
<1> QED
  BY <1>2, <1>3

(* So is the account with everything recorded.                             *)
LEMMA AccountType ==
  ASSUME ViewsType, NEW s \in Streams, booked[s] \in Seq(Message)
  PROVE  Account(s) \in Solvent(s) /\ Account(s) = Fold(Base(s), booked[s])
<1>1. Account(s) = Fold(Base(s), booked[s])
  BY DEF Account, Fold
<1>2. Closed(Solvent(s))
  BY SolventClosed
<1> DEFINE V == Solvent(s)
           b == Base(s)
           q == booked[s]
<1>3. b \in V /\ q \in Seq(Message) /\ Closed(V)
  BY <1>2, BaseType
<1> HIDE DEF V, b, q
<1>4. Fold(b, q) \in V
  BY <1>3, FoldType
<1> QED
  BY <1>1, <1>4 DEF V, b, q

(* The oldest of some lots is one of them.                                 *)
LEMMA OldestIn ==
  ASSUME NEW set \in SUBSET Ids, set # {}
  PROVE  Oldest(set) \in set /\ \A k \in set : At[Oldest(set)] <= At[k]
<1> DEFINE A == {At[k] : k \in set}
<1>1. A \subseteq Nat /\ A # {}
  BY LedgerIntakeAssumption
<1>2. PICK n \in A : \A k \in A : ~(<<k, n>> \in OpToRel(<, Nat))
  BY <1>1, NatLessThanWellFounded, WFMin
<1>3. \A k \in A : n <= k
  <2>1. ASSUME NEW k \in A, k < n PROVE FALSE
    <3>1. <<k, n>> \in OpToRel(<, Nat)
      BY <1>1, <2>1 DEF OpToRel
    <3> QED
      BY <1>2, <3>1
  <2> QED
    BY <1>1, <2>1
<1>4. PICK l \in set : At[l] = n
  OBVIOUS
<1>5. \A k \in set : At[l] <= At[k]
  BY <1>3, <1>4
<1> QED
  BY <1>5 DEF Oldest

(* A sale takes from a lot no more than is held of it.                     *)
LEMMA FromLotType ==
  ASSUME NEW held \in [Ids -> Nat], NEW l \in Ids, NEW open \in SUBSET Ids, NEW n \in Nat
  PROVE  /\ FromLot(l, held, open, n) \in Nat
         /\ FromLot(l, held, open, n) <= held[l]
<1> DEFINE older == {k \in open : At[k] < At[l]}
           rest == n - SumFunctionOnSet(held, older)
<1>2. IsFiniteSet(older)
  BY FS_Subset, LedgerIntakeAssumption
<1>3. SumFunctionOnSet(held, older) \in Int
  <2>1. \A k \in older : held[k] \in Int
    OBVIOUS
  <2> HIDE DEF older
  <2> QED
    BY <1>2, <2>1, SumType
<1>4. rest \in Int /\ held[l] \in Nat
  BY <1>3
<1> HIDE DEF rest
<1>5. Min({held[l], rest}) = IF held[l] <= rest THEN held[l] ELSE rest
  BY <1>4, MinOfTwo
<1>6. FromLot(l, held, open, n) = IF rest <= 0 THEN 0 ELSE Min({held[l], rest})
  BY DEF FromLot, rest
<1> QED
  BY <1>4, <1>5, <1>6

(* Writing a row of a lot.                                                 *)
LEMMA PutLotType ==
  ASSUME IntakeType, NEW l \in Ids, NEW row \in LotRows, PutLot(l, row)
  PROVE  /\ lots' \in [Ids -> LotRows] /\ images' \in [Ids -> SUBSET LotRows]
         /\ lots'[l] = row /\ \A k \in Ids \ {l} : lots'[k] = lots[k]
BY DEF IntakeType, PutLot

(* Tearing a symbol: no other is torn, and none is mended.                 *)
LEMMA TearType ==
  ASSUME IntakeType, NEW m \in Ids, NEW broken, Tear(m, broken)
  PROVE  /\ torn' \subseteq Symbols
         /\ torn \subseteq torn'
         /\ broken => message[m].symbol \in torn'
<1>1. message[m].symbol \in Symbols
  BY DEF IntakeType, Message
<1> QED
  BY <1>1 DEF Tear, IntakeType

(* What a query of the lots of a symbol returns, the open ones of it, and  *)
(* what is held of each, are of their types.                               *)
LEMMA QueriedType ==
  ASSUME IntakeType, NEW s, NEW read \in QueriedLots(s)
  PROVE  /\ DOMAIN read = LotsOf(s) /\ LotsOf(s) \subseteq Ids
         /\ \A l \in LotsOf(s) : read[l] \in LotRows
<1>1. LotsOf(s) \subseteq Ids
  BY DEF LotsOf
<1>2. DOMAIN read = LotsOf(s) /\ \A l \in LotsOf(s) : read[l] \in images[l]
  BY DEF QueriedLots
<1>3. \A l \in Ids : images[l] \subseteq LotRows
  BY DEF IntakeType
<1> QED
  BY <1>1, <1>2, <1>3

(* A handler that has not begun, or has finished.                          *)
LEMMA WaitingType == Waiting \in Works /\ [Waiting EXCEPT !.pc = "done"] \in Works
BY DEF Waiting, Works

(* The types hold at the start of every scenario.                          *)
LEMMA InitType == Init => TypeInv
<1> SUFFICES ASSUME Init PROVE TypeInv
  OBVIOUS
<1>1. PICK sc \in Scenarios :
       /\ message = sc.message
       /\ faults = sc.faults
       /\ shadowed = sc.shadowed
       /\ triggers = sc.triggers
       /\ saved = [s \in Streams |-> IF s = "actual" THEN sc.account
                                     ELSE [NoSnapshot EXCEPT !.stream = s]]
       /\ published = {}
       /\ rows = [r \in sc.watched |-> IF ActualRow(r) THEN sc.account
                                      ELSE NoSnapshot]
  BY DEF Init
<1>2. /\ message \in [Ids -> Message] /\ faults \in 0 .. MaxFaults
      /\ shadowed \in BOOLEAN /\ triggers \subseteq Nat
      /\ triggers # {} => <<"LedgerSnapshot", "">> \in DOMAIN rows
      /\ SnapshotOK(sc.account) /\ sc.account.stream = "actual"
      /\ sc.account.cash + PositionsValue(sc.account) >= 0
  BY <1>1, PortfolioAssumption
<1>3. sc.account \in Solvent("actual")
  BY <1>2, SnapshotSet DEF Solvent
<1>4. IntakeType
  <2>1. work \in [Ids -> Works] /\ \A m \in Ids : work[m].pc = "new"
    BY WaitingType DEF Init, IntakeInit, Waiting
  <2>2. booked \in [Streams -> Seq(Message)]
    BY DEF Init, IntakeInit
  <2>3. lots \in [Ids -> LotRows]
    BY DEF Init, IntakeInit, NoLot, LotRows
  <2>4. disposed \in [Ids \X Ids -> Nat]
    BY DEF Init, IntakeInit
  <2>5. recorded = {} /\ torn = {} /\ images \in [Ids -> SUBSET LotRows]
    BY DEF Init, IntakeInit, NoLot, LotRows
  <2> QED
    BY <1>2, <2>1, <2>2, <2>3, <2>4, <2>5 DEF IntakeType, Selling
<1>5. ViewsType
  <2>1. \A s \in Streams : saved[s] \in Solvent(s)
    BY <1>1, <1>3, NoSnapshotSolvent DEF Streams
  <2>2. \A r \in DOMAIN rows : rows[r] \in Solvent("actual")
    BY <1>1, <1>3, NoSnapshotSolvent
  <2>3. \A s : Solvent(s) \subseteq Snapshots /\ \A a \in Solvent(s) : a.stream = s
    BY DEF Solvent
  <2>4. saved = [s \in Streams |-> saved[s]] /\ rows = [r \in DOMAIN rows |-> rows[r]]
    BY <1>1
  <2>5. \A s \in Streams : saved[s] \in Snapshots
    BY <2>1, <2>3
  <2>6. \A r \in DOMAIN rows : rows[r] \in Snapshots /\ rows[r] \in Solvent(rows[r].stream)
    BY <2>2, <2>3
  <2> QED
    BY <1>1, <2>1, <2>4, <2>5, <2>6 DEF ViewsType
<1>6. AdviceType
  <2>1. packet = [made |-> FALSE, value |-> 0, trades |-> {}, positions |-> {},
                  risk |-> "MODERATE"]
    BY DEF Init, AdviceInit, NoPacket
  <2>2. packet \in Packets
    BY <2>1 DEF Packets, RiskCategories
  <2>3. IsFiniteSet(packet.trades)
    BY <2>1, FS_EmptySet
  <2>4. verdict = [result |-> "none", level |-> "none", mode |-> "none"]
    BY DEF Init, AdviceInit, NoVerdict
  <2>5. /\ verdict.result \in {"none", "BLOCKED", "APPROVED"}
        /\ verdict.level \in {"none", "L1", "L2"}
    BY <2>4
  <2> QED
    BY <1>2, <2>2, <2>3, <2>5 DEF AdviceType
<1> QED
  BY <1>4, <1>5, <1>6 DEF TypeInv

(* Going on to the lots, and ending, change the progress of one handler.   *)
LEMMA GotoType ==
  ASSUME IntakeType, NEW m \in Ids
  PROVE  /\ Goto(m, "lots") => /\ work' \in [Ids -> Works]
                               /\ \A k \in Ids : work'[k] = IF k = m
                                     THEN [work[m] EXCEPT !.pc = "lots"] ELSE work[k]
         /\ Finished(m) => /\ work' \in [Ids -> Works]
                           /\ \A k \in Ids : work'[k] = IF k = m
                                 THEN [Waiting EXCEPT !.pc = "done"] ELSE work[k]
<1>1. work \in [Ids -> Works]
  BY DEF IntakeType
<1>2. \A w \in Works : [w EXCEPT !.pc = "lots"] \in Works
  BY DEF Works
<1> QED
  BY <1>1, <1>2, WaitingType DEF Goto, Finished

(* Recording an entry keeps the types.                                     *)
LEMMA RecordEntryType ==
  ASSUME IntakeType, NEW m \in Ids, RecordEntry(m)
  PROVE  IntakeType'
<1>1. work' \in [Ids -> Works] /\ \A k \in Ids \ {m} : work'[k] = work[k]
  BY GotoType DEF RecordEntry
<1>2. work'[m].pc \in {"lots", "done"}
  <2>1. work[m] \in Works /\ \A w \in Works : [w EXCEPT !.pc = "lots"].pc = "lots"
    BY DEF IntakeType, Works
  <2> QED
    BY <2>1, GotoType DEF RecordEntry, Waiting
<1>3. booked' \in [Streams -> Seq(Message)]
  <2>1. booked \in [Streams -> Seq(Message)] /\ message[m] \in Message
    BY DEF IntakeType
  <2>2. Append(booked["actual"], message[m]) \in Seq(Message)
    BY <2>1 DEF Streams
  <2> QED
    BY <2>1, <2>2 DEF RecordEntry
<1>4. \A k \in Ids : Selling(k)' => work'[k] = work[k] /\ Selling(k)
  BY <1>1, <1>2 DEF Selling
<1> QED
  BY <1>1, <1>3, <1>4 DEF IntakeType, RecordEntry

(* Opening a lot keeps the types.                                          *)
LEMMA OpenLotType ==
  ASSUME IntakeType, NEW m \in Ids, OpenLot(m)
  PROVE  IntakeType'
<1>1. work' \in [Ids -> Works] /\ \A k \in Ids \ {m} : work'[k] = work[k]
  BY GotoType DEF OpenLot
<1>2. work'[m].pc = "done"
  BY GotoType DEF OpenLot, Waiting
<1>3. /\ lots' \in [Ids -> LotRows] /\ images' \in [Ids -> SUBSET LotRows]
      /\ torn' \subseteq Symbols
  <2>1. [status |-> "open", shares |-> message[m].amount] \in LotRows
    BY DEF IntakeType, LotRows, Message
  <2> QED
    BY <2>1, PutLotType, TearType DEF OpenLot
<1>4. \A k \in Ids : Selling(k)' => work'[k] = work[k] /\ Selling(k)
  BY <1>1, <1>2 DEF Selling
<1> QED
  BY <1>1, <1>3, <1>4 DEF IntakeType, OpenLot

(* A set of events that is not empty has a newest one.                     *)
LEMMA NewestIn ==
  ASSUME NEW set \in SUBSET Ids, set # {}
  PROVE  \E x \in set : \A k \in set \ {x} : At[k] < At[x]
<1> DEFINE A == {At[k] : k \in set}
<1>1. IsFiniteSet(set) /\ \A k \in set : At[k] \in Nat
  BY LedgerIntakeAssumption, FS_Subset
<1>2. IsFiniteSet(A)
  BY <1>1, ImageFinite
<1>3. A \subseteq Int /\ A # {}
  BY <1>1
<1>4. Max(A) \in A /\ \A y \in A : Max(A) >= y
  <2> HIDE DEF A
  <2> QED
    BY <1>2, <1>3, MaxElement
<1>5. PICK x \in set : At[x] = Max(A)
  BY <1>4
<1>6. ASSUME NEW k \in set \ {x} PROVE At[k] < At[x]
  <2>1. At[k] <= At[x]
    <3>1. At[k] \in A
      OBVIOUS
    <3> HIDE DEF A
    <3> QED
      BY <1>1, <1>3, <1>4, <1>5, <3>1
  <2>2. At[k] # At[x]
    BY <1>5, LedgerIntakeAssumption
  <2> QED
    BY <1>1, <1>5, <2>1, <2>2
<1> QED
  BY <1>5, <1>6

(* The shares of a sale that closeLots takes of each open lot.             *)
Split(held, open, q) == [l \in Ids |-> FromLot(l, held, open, q)]

(* The shares of a sale that fall on the lots do not exceed the sale.      *)
LEMMA FifoSplit ==
  ASSUME NEW held \in [Ids -> Nat], NEW open \in SUBSET Ids, NEW q \in Nat
  PROVE  SumFunctionOnSet(Split(held, open, q), open) <= q
<1> DEFINE T == {s \in SUBSET open : SumFunctionOnSet(Split(held, s, q), s) <= q}
<1>1. \A k \in Ids : held[k] \in Nat
  OBVIOUS
<1>2. \A l \in Ids, s \in SUBSET Ids :
        Split(held, s, q)[l] = FromLot(l, held, s, q) /\ Split(held, s, q)[l] \in Nat /\ Split(held, s, q)[l] <= held[l]
  BY <1>1, FromLotType DEF Split
<1>3. \A s \in SUBSET open : IsFiniteSet(s)
  BY FS_Subset, LedgerIntakeAssumption
<1>4. SUFFICES ASSUME NEW s \in SUBSET open,
                      \A r \in SUBSET open : Cardinality(r) < Cardinality(s) => r \in T
               PROVE  s \in T
  <2> HIDE DEF T
  <2>1. \A s \in SUBSET open : s \in T
    BY <1>3, <1>4, SizeInduction
  <2> QED
    BY <2>1 DEF T
<1>5. CASE s = {}
  <2>1. SumFunctionOnSet(Split(held, s, q), s) = 0
    BY <1>5, SumEmpty
  <2> QED
    BY <2>1
<1>6. CASE s # {}
  <2>1. PICK x \in s : \A k \in s \ {x} : At[k] < At[x]
    BY <1>6, NewestIn
  <2> DEFINE r == s \ {x}
             f == Split(held, s, q)
             g == Split(held, r, q)
             total == SumFunctionOnSet(held, r)
  <2>2. r \in SUBSET open /\ IsFiniteSet(r) /\ Cardinality(r) < Cardinality(s)
    BY <1>3, <2>1, OneLess
  <2>3. SumFunctionOnSet(g, r) <= q
    BY <1>4, <2>2
  <2>4. \A l \in r : f[l] = g[l]
    <3>1. SUFFICES ASSUME NEW l \in r PROVE FromLot(l, held, s, q) = FromLot(l, held, r, q)
      BY <1>2, <2>2
    <3>2. {k \in s : At[k] < At[l]} = {k \in r : At[k] < At[l]}
      <4>1. At[l] < At[x] /\ At[l] \in Nat /\ At[x] \in Nat
        BY <2>1, LedgerIntakeAssumption
      <4> QED
        BY <4>1
    <3> QED
      BY <3>2 DEF FromLot
  <2>5. /\ \A l \in s : f[l] \in Int
        /\ \A l \in r : g[l] \in Int /\ held[l] \in Int /\ g[l] <= held[l]
    BY <1>1, <1>2, <2>2
  <2>6. SumFunctionOnSet(g, r) = SumFunctionOnSet(f, r)
    <3> HIDE DEF f, g, r
    <3>1. \A l \in r : f[l] \in Int /\ g[l] = f[l]
      BY <2>4, <2>5
    <3> QED
      BY <2>2, <3>1, SumSame
  <2>7. SumFunctionOnSet(f, s) = f[x] + SumFunctionOnSet(f, r)
    <3> HIDE DEF f
    <3> QED
      BY <1>3, <2>5, SumRemove
  <2>8. SumFunctionOnSet(g, r) <= total /\ total \in Int /\ SumFunctionOnSet(g, r) \in Int
    <3> HIDE DEF g, r
    <3>1. SumFunctionOnSet(g, r) <= SumFunctionOnSet(held, r)
      BY <2>2, <2>5, SumMonotone
    <3>2. SumFunctionOnSet(held, r) \in Int
      BY <2>2, <2>5, SumType
    <3>3. SumFunctionOnSet(g, r) \in Int
      BY <2>2, <2>5, SumType
    <3> QED
      BY <3>1, <3>2, <3>3
  <2>9. f[x] \in Int /\ (f[x] = 0 \/ f[x] <= q - total)
    <3>1. {k \in s : At[k] < At[x]} = r
      <4>1. ~(At[x] < At[x]) /\ At[x] \in Nat
        BY LedgerIntakeAssumption
      <4> QED
        BY <2>1, <4>1
    <3>2. f[x] = IF q - total <= 0 THEN 0 ELSE Min({held[x], q - total})
      BY <1>2, <3>1 DEF FromLot
    <3>3. q - total \in Int /\ held[x] \in Int
      BY <1>1, <2>8
    <3> DEFINE d == q - total
    <3> HIDE DEF d
    <3>4. Min({held[x], d}) = IF held[x] <= d THEN held[x] ELSE d
      BY <3>3, MinOfTwo DEF d
    <3> QED
      BY <2>5, <3>2, <3>3, <3>4 DEF d
  <2> HIDE DEF f, g, total, r
  <2>10. SumFunctionOnSet(f, s) <= q
    BY <2>3, <2>6, <2>7, <2>8, <2>9
  <2> QED
    BY <2>10 DEF f
<1> QED
  BY <1>5, <1>6

(* Reading the lots: what is taken of each is no more than the query       *)
(* returned, all together no more than is sold, and only of lots that      *)
(* were open when they were as they were read.                             *)
LEMMA ReadEffect ==
  ASSUME IntakeType, NEW m \in Ids, ReadLots(m)
  PROVE  \E drawn \in SUBSET LotsOf(message[m].symbol),
            sold \in [Ids -> Nat], left \in [Ids -> Nat] :
           /\ \A l \in Ids : l \in drawn <=> sold[l] > 0
           /\ SumFunctionOnSet(sold, Ids) <= message[m].amount
           /\ torn \subseteq torn' /\ torn' \subseteq Symbols
           /\ \/ message[m].symbol \in torn'
              \/ \A l \in drawn : /\ lots[l].status = "open" /\ ~Claimed(l)
                                  /\ lots[l].shares = left[l] + sold[l]
           /\ IF drawn = {} THEN Finished(m)
              ELSE work' = [work EXCEPT ![m] =
                     [pc |-> "update", todo |-> drawn, sold |-> sold, left |-> left]]
<1> DEFINE amount == message[m].amount
           symbol == message[m].symbol
<1>1. PICK read \in QueriedLots(symbol) :
       LET open == {l \in DOMAIN read : read[l].status = "open"}
           held == [l \in Ids |-> IF l \in open THEN read[l].shares ELSE 0]
           sold == [l \in Ids |-> IF l \in open
                      THEN FromLot(l, held, open, message[m].amount) ELSE 0]
           drawn == {l \in open : sold[l] > 0}
       IN  /\ IF drawn = {} THEN Finished(m)
              ELSE work' = [work EXCEPT ![m] =
                     [pc |-> "update", todo |-> drawn, sold |-> sold,
                      left |-> [l \in Ids |-> held[l] - sold[l]]]]
           /\ Tear(m, \E l \in drawn : read[l] # lots[l] \/ Claimed(l))
  BY DEF ReadLots
<1> DEFINE open == {l \in DOMAIN read : read[l].status = "open"}
           held == [l \in Ids |-> IF l \in open THEN read[l].shares ELSE 0]
           sold == [l \in Ids |-> IF l \in open THEN FromLot(l, held, open, amount) ELSE 0]
           drawn == {l \in open : sold[l] > 0}
           left == [l \in Ids |-> held[l] - sold[l]]
           broken == \E l \in drawn : read[l] # lots[l] \/ Claimed(l)
<1>2. /\ IF drawn = {} THEN Finished(m)
         ELSE work' = [work EXCEPT ![m] =
                [pc |-> "update", todo |-> drawn, sold |-> sold, left |-> left]]
      /\ Tear(m, broken)
  BY <1>1
<1>3. /\ open \subseteq LotsOf(symbol) /\ open \in SUBSET Ids /\ amount \in Nat
      /\ \A l \in open : read[l].status = "open" /\ read[l].shares \in Nat
  <2>1. /\ DOMAIN read = LotsOf(symbol) /\ LotsOf(symbol) \subseteq Ids
        /\ \A l \in LotsOf(symbol) : read[l] \in LotRows
    BY QueriedType
  <2> QED
    BY <2>1 DEF IntakeType, Message, LotRows
<1> HIDE DEF open
<1>4. held \in [Ids -> Nat] /\ \A l \in open : held[l] = read[l].shares
  BY <1>3
<1> HIDE DEF held, amount, symbol
<1>5. \A l \in Ids : FromLot(l, held, open, amount) \in Nat
                     /\ FromLot(l, held, open, amount) <= held[l]
  BY <1>3, <1>4, FromLotType
<1>6. sold \in [Ids -> Nat] /\ \A l \in Ids : sold[l] \in Nat /\ sold[l] <= held[l]
  <2>1. \A l \in Ids : held[l] \in Nat
    BY <1>4
  <2> QED
    BY <1>5, <2>1
<1>7. SumFunctionOnSet(sold, Ids) <= amount
  <2> DEFINE f == Split(held, open, amount)
  <2>2. SumFunctionOnSet(f, open) <= amount
    BY <1>3, <1>4, FifoSplit
  <2>3. /\ \A l \in Ids : sold[l] \in Int
        /\ \A l \in open : f[l] \in Int /\ sold[l] = f[l]
        /\ \A l \in Ids \ open : sold[l] = 0
    BY <1>3, <1>5 DEF Split
  <2>4. IsFiniteSet(Ids) /\ IsFiniteSet(open)
    BY <1>3, LedgerIntakeAssumption, FS_Subset
  <2> HIDE DEF f, sold
  <2>5. SumFunctionOnSet(sold, Ids) = SumFunctionOnSet(sold, open)
    BY <1>3, <2>3, <2>4, SumNonzero
  <2>6. SumFunctionOnSet(sold, open) = SumFunctionOnSet(f, open)
    BY <2>3, <2>4, SumSame
  <2> QED
    BY <2>2, <2>5, <2>6
<1>8. \A l \in Ids : l \in drawn <=> sold[l] > 0
  BY <1>3
<1>9. drawn \subseteq open
  OBVIOUS
<1> HIDE DEF sold, drawn
<1>10. left \in [Ids -> Nat] /\ \A l \in Ids : left[l] + sold[l] = held[l]
  <2>1. \A l \in Ids : held[l] \in Nat /\ sold[l] \in Nat /\ sold[l] <= held[l]
    BY <1>4, <1>6
  <2> QED
    BY <2>1
<1> HIDE DEF left
<1>11. /\ torn \subseteq torn' /\ torn' \subseteq Symbols
       /\ broken => symbol \in torn'
  <2> HIDE DEF broken
  <2> QED
    BY <1>2, TearType DEF symbol
<1>12. \/ symbol \in torn'
       \/ \A l \in drawn : /\ lots[l].status = "open" /\ ~Claimed(l)
                           /\ lots[l].shares = left[l] + sold[l]
  <2>1. SUFFICES ASSUME ~broken, NEW l \in drawn
                 PROVE  /\ lots[l].status = "open" /\ ~Claimed(l)
                        /\ lots[l].shares = left[l] + sold[l]
    BY <1>11
  <2>2. read[l] = lots[l] /\ ~Claimed(l)
    BY <2>1
  <2> QED
    BY <1>3, <1>4, <1>9, <1>10, <2>2
<1>13. drawn \in SUBSET LotsOf(symbol)
  BY <1>3, <1>9
<1> HIDE DEF broken
<1> QED
  BY <1>2, <1>6, <1>7, <1>8, <1>10, <1>11, <1>12, <1>13 DEF amount, symbol

(* Reading the lots keeps the types.                                       *)
LEMMA ReadLotsType ==
  ASSUME IntakeType, NEW m \in Ids, ReadLots(m)
  PROVE  IntakeType'
<1>1. PICK drawn \in SUBSET LotsOf(message[m].symbol),
            sold \in [Ids -> Nat], left \in [Ids -> Nat] :
           /\ \A l \in Ids : l \in drawn <=> sold[l] > 0
           /\ torn' \subseteq Symbols
           /\ IF drawn = {} THEN Finished(m)
              ELSE work' = [work EXCEPT ![m] =
                     [pc |-> "update", todo |-> drawn, sold |-> sold, left |-> left]]
  BY ReadEffect
<1>2. drawn \subseteq Ids
  BY DEF LotsOf
<1>4. UNCHANGED <<message, recorded, booked, lots, disposed, images, faults>>
  BY DEF ReadLots
<1>5. CASE Finished(m)
  <2>1. work' \in [Ids -> Works] /\ \A k \in Ids \ {m} : work'[k] = work[k]
    BY <1>5, GotoType
  <2>2. \A k \in Ids : Selling(k)' => work'[k] = work[k] /\ Selling(k)
    BY <1>5, <2>1, GotoType DEF Selling, Waiting
  <2> QED
    BY <1>1, <1>4, <2>1, <2>2 DEF IntakeType
<1>6. CASE /\ work' = [work EXCEPT ![m] = [pc |-> "update", todo |-> drawn, sold |-> sold,
                                           left |-> left]]
           /\ drawn # {}
  <2>3. [pc |-> "update", todo |-> drawn, sold |-> sold, left |-> left] \in Works
    BY <1>2 DEF Works
  <2>4. work \in [Ids -> Works]
    BY DEF IntakeType
  <2>5. /\ work' \in [Ids -> Works]
        /\ work'[m] = [pc |-> "update", todo |-> drawn, sold |-> sold, left |-> left]
        /\ \A k \in Ids \ {m} : work'[k] = work[k]
    BY <1>6, <2>3, <2>4
  <2>6. \A k \in Ids : Selling(k)' =>
          work'[k].todo # {} /\ \A l \in work'[k].todo : work'[k].sold[l] > 0
    <3>1. ASSUME NEW k \in Ids \ {m}, Selling(k)'
          PROVE  work'[k].todo # {} /\ \A l \in work'[k].todo : work'[k].sold[l] > 0
      BY <2>5, <3>1 DEF IntakeType, Selling
    <3> QED
      BY <1>1, <1>2, <1>6, <2>5, <3>1
  <2> QED
    BY <1>1, <1>4, <2>5, <2>6 DEF IntakeType
<1> QED
  BY <1>1, <1>5, <1>6

(* Writing a lot down keeps them.                                          *)
LEMMA UpdateLotType ==
  ASSUME IntakeType, NEW m \in Ids, UpdateLot(m)
  PROVE  IntakeType'
<1> DEFINE w == work[m]
           l == Oldest(w.todo)
           v == IF w.todo = {l}
                THEN [w EXCEPT !.pc = "dispose", !.todo = {k \in Ids : w.sold[k] > 0}]
                ELSE [w EXCEPT !.todo = @ \ {l}]
<1>1. w \in Works /\ w.todo # {} /\ \A k \in w.todo : w.sold[k] > 0
  BY DEF IntakeType, Selling, UpdateLot
<1>2. w.todo \in SUBSET Ids /\ w.sold \in [Ids -> Nat] /\ w.left \in [Ids -> Nat]
  BY <1>1 DEF Works
<1>3. l \in w.todo
  <2> HIDE DEF w
  <2> QED
    BY <1>1, <1>2, OldestIn
<1>4. work' = [work EXCEPT ![m] = v]
  <2>1. work' = [work EXCEPT ![m] =
            IF work[m].todo = {l}
            THEN [work[m] EXCEPT !.pc = "dispose",
                           !.todo = {k \in Ids : work[m].sold[k] > 0}]
            ELSE [work[m] EXCEPT !.todo = work[m].todo \ {l}]]
    BY DEF UpdateLot
  <2> QED
    BY <2>1
<1>5. lots' \in [Ids -> LotRows] /\ images' \in [Ids -> SUBSET LotRows]
  <2>1. lots \in [Ids -> LotRows] /\ w.left[l] \in Nat /\ l \in Ids
    BY <1>2, <1>3 DEF IntakeType
  <2> DEFINE row == IF w.left[l] = 0 THEN [lots[l] EXCEPT !.status = "closed"]
                    ELSE [lots[l] EXCEPT !.shares = w.left[l]]
  <2>2. PutLot(l, row)
    BY DEF UpdateLot
  <2> HIDE DEF l, w
  <2>3. [lots[l] EXCEPT !.status = "closed"] \in LotRows
        /\ [lots[l] EXCEPT !.shares = w.left[l]] \in LotRows
    BY <2>1 DEF LotRows
  <2>4. row \in LotRows
    BY <2>3
  <2> HIDE DEF row
  <2> QED
    BY <2>1, <2>2, <2>4, PutLotType
<1> HIDE DEF l, w
<1>6. v \in Works /\ v.todo # {} /\ \A k \in v.todo : v.sold[k] > 0
  <2>1. CASE w.todo = {l}
    <3> DEFINE todo == {k \in Ids : w.sold[k] > 0}
    <3>1. todo \subseteq Ids /\ l \in todo /\ \A k \in todo : w.sold[k] > 0
      BY <1>1, <1>2, <1>3
    <3> HIDE DEF todo
    <3>2. [w EXCEPT !.pc = "dispose", !.todo = todo] \in Works
      BY <1>1, <3>1 DEF Works
    <3>3. v = [w EXCEPT !.pc = "dispose", !.todo = todo]
      BY <2>1 DEF todo
    <3>4. v.todo = todo /\ v.sold = w.sold
      BY <1>1, <3>3 DEF Works
    <3> HIDE DEF v
    <3> QED
      BY <3>1, <3>2, <3>3, <3>4
  <2>2. CASE w.todo # {l}
    <3>1. v = [w EXCEPT !.todo = @ \ {l}]
      BY <2>2
    <3>2. v.todo = w.todo \ {l} /\ v.sold = w.sold /\ v \in Works
      BY <1>1, <1>2, <3>1 DEF Works
    <3> HIDE DEF v
    <3> QED
      BY <1>1, <1>3, <2>2, <3>2
  <2> QED
    BY <2>1, <2>2
<1> HIDE DEF v
<1>7. /\ work' \in [Ids -> Works] /\ work'[m] = v
      /\ \A k \in Ids \ {m} : work'[k] = work[k]
  BY <1>4, <1>6 DEF IntakeType
<1>8. \A k \in Ids : Selling(k)' =>
        work'[k].todo # {} /\ \A j \in work'[k].todo : work'[k].sold[j] > 0
  BY <1>6, <1>7 DEF IntakeType, Selling
<1> QED
  BY <1>5, <1>7, <1>8 DEF IntakeType, UpdateLot

(* Putting a disposition keeps them.                                       *)
LEMMA PutDispositionType ==
  ASSUME IntakeType, NEW m \in Ids, PutDisposition(m)
  PROVE  IntakeType'
<1> DEFINE w == work[m]
           l == Oldest(w.todo)
<1>1. w \in Works /\ w.todo # {} /\ \A k \in w.todo : w.sold[k] > 0
  BY DEF IntakeType, Selling, PutDisposition
<1>2. w.todo \in SUBSET Ids /\ w.sold \in [Ids -> Nat]
  BY <1>1 DEF Works
<1>3. l \in w.todo
  <2> HIDE DEF w
  <2> QED
    BY <1>1, <1>2, OldestIn
<1>4. disposed' \in [Ids \X Ids -> Nat]
  <2>1. disposed \in [Ids \X Ids -> Nat] /\ disposed' = [disposed EXCEPT ![<<m, l>>] = w.sold[l]]
    BY DEF IntakeType, PutDisposition
  <2> HIDE DEF l, w
  <2> QED
    BY <1>2, <1>3, <2>1
<1>5. \/ Finished(m) /\ work'[m].pc = "done"
      \/ work' = [work EXCEPT ![m].todo = @ \ {l}] /\ w.todo # {l}
  BY GotoType DEF PutDisposition, Waiting
<1>6. CASE Finished(m) /\ work'[m].pc = "done"
  <2>1. work' \in [Ids -> Works] /\ \A k \in Ids \ {m} : work'[k] = work[k]
    BY <1>6, GotoType
  <2>2. \A k \in Ids : Selling(k)' => work'[k] = work[k] /\ Selling(k)
    BY <1>6, <2>1 DEF Selling
  <2> QED
    BY <1>4, <2>1, <2>2 DEF IntakeType, PutDisposition
<1>7. CASE work' = [work EXCEPT ![m].todo = @ \ {l}] /\ w.todo # {l}
  <2> DEFINE v == [w EXCEPT !.todo = w.todo \ {l}]
  <2>1. /\ work' = [work EXCEPT ![m] = v] /\ w.todo # {l}
        /\ work \in [Ids -> Works]
    <3>1. work \in [Ids -> Works]
      BY DEF IntakeType
    <3> QED
      BY <1>7, <3>1
  <2> HIDE DEF l, w
  <2>2. v \in Works /\ v.todo = w.todo \ {l} /\ v.sold = w.sold
    BY <1>1, <1>2 DEF Works
  <2>3. v.todo # {} /\ \A k \in v.todo : v.sold[k] > 0
    BY <1>1, <1>3, <2>1, <2>2
  <2> HIDE DEF v
  <2>4. /\ work' \in [Ids -> Works] /\ work'[m] = v
        /\ \A k \in Ids \ {m} : work'[k] = work[k]
    BY <2>1, <2>2
  <2>5. \A k \in Ids : Selling(k)' =>
          work'[k].todo # {} /\ \A j \in work'[k].todo : work'[k].sold[j] > 0
    BY <2>3, <2>4 DEF IntakeType, Selling
  <2> QED
    BY <1>4, <2>4, <2>5 DEF IntakeType, PutDisposition
<1> QED
  BY <1>5, <1>6, <1>7

(* A redelivery keeps them.                                                *)
LEMMA RedeliverType ==
  ASSUME IntakeType, NEW m \in Ids, RedeliverEvent(m)
  PROVE  IntakeType'
<1>1. /\ work' \in [Ids -> Works] /\ work'[m].pc = "new"
      /\ \A k \in Ids \ {m} : work'[k] = work[k]
  BY WaitingType DEF IntakeType, RedeliverEvent, Waiting
<1>2. \A k \in Ids : Selling(k)' => work'[k] = work[k] /\ Selling(k)
  BY <1>1 DEF Selling
<1>3. faults' \in 0 .. MaxFaults
  BY LedgerIntakeAssumption DEF IntakeType, RedeliverEvent
<1>4. torn' \subseteq Symbols
  BY TearType DEF RedeliverEvent
<1>5. UNCHANGED <<message, recorded, booked, lots, disposed, images>>
  BY DEF RedeliverEvent
<1> QED
  BY <1>1, <1>2, <1>3, <1>4, <1>5 DEF IntakeType

(* So does every step of a handler.                                        *)
LEMMA HandleType ==
  ASSUME IntakeType, NEW m \in Ids, HandleEvent(m)
  PROVE  IntakeType'
BY RecordEntryType, OpenLotType, ReadLotsType, UpdateLotType, PutDispositionType
   DEF HandleEvent

(* A run of the reducer keeps the types, and the accounts solvent.         *)
LEMMA ReduceType ==
  ASSUME IntakeType, ViewsType, NEW s \in Streams, Reduce(s)
  PROVE  IntakeType' /\ ViewsType' /\ rows' = rows
<1>1. PICK k \in 1 .. Len(booked[s]) :
        LET entries == SubSeq(booked[s], 1, k)
            current == FoldLeft(ApplyEntry, Base(s), entries)
        IN  /\ saved' = [saved EXCEPT ![s] = current]
            /\ published' = published \union SnapshotToEvents(current, saved[s])
            /\ booked' = [booked EXCEPT ![s] = SubSeq(@, k + 1, Len(@))]
  BY DEF Reduce
<1> DEFINE q == booked[s]
           current == Fold(Base(s), SubSeq(q, 1, k))
<1>2. booked \in [Streams -> Seq(Message)]
  BY DEF IntakeType
<1>3. q \in Seq(Message) /\ k \in 1 .. Len(q)
  BY <1>1, <1>2
<1>4. SubSeq(q, 1, k) \in Seq(Message) /\ SubSeq(q, k + 1, Len(q)) \in Seq(Message)
  <2> HIDE DEF q
  <2> QED
    BY <1>3
<1>5. /\ saved' = [saved EXCEPT ![s] = current]
      /\ published' = published \union SnapshotToEvents(current, saved[s])
      /\ booked' = [booked EXCEPT ![s] = SubSeq(q, k + 1, Len(q))]
  BY <1>1 DEF Fold
<1>6. current \in Solvent(s)
  <2> DEFINE V == Solvent(s)
             b == Base(s)
             p == SubSeq(q, 1, k)
  <2>1. Closed(V) /\ b \in V /\ p \in Seq(Message)
    BY <1>4, SolventClosed, BaseType
  <2> HIDE DEF V, b, p
  <2>2. Fold(b, p) \in V
    BY <2>1, FoldType
  <2> QED
    BY <2>2 DEF V, b, p
<1> HIDE DEF current, q
<1>7. current \in Snapshots /\ current.stream = s
  BY <1>6 DEF Solvent
<1>8. booked' \in [Streams -> Seq(Message)]
  BY <1>2, <1>4, <1>5
<1>9. saved' \in [Streams -> Snapshots] /\ \A t \in Streams : saved'[t] \in Solvent(t)
  BY <1>5, <1>6, <1>7 DEF ViewsType
<1>10. \A e \in published' : e[2] \in Solvent(e[2].stream)
  <2>1. \A e \in SnapshotToEvents(current, saved[s]) : e[2] = current
    BY DEF SnapshotToEvents
  <2> QED
    BY <1>5, <1>6, <1>7, <2>1 DEF ViewsType
<1>11. UNCHANGED <<message, work, recorded, lots, disposed, images, torn, faults, rows>>
  BY DEF Reduce
<1>12. IntakeType'
  BY <1>8, <1>11 DEF IntakeType, Selling
<1>13. ViewsType'
  BY <1>9, <1>10, <1>11 DEF ViewsType
<1> QED
  BY <1>11, <1>12, <1>13

(* A projection keeps them.                                                *)
LEMMA ProjectType ==
  ASSUME IntakeType, ViewsType, NEW r \in DOMAIN rows, Project(r)
  PROVE  IntakeType' /\ ViewsType' /\ DOMAIN rows' = DOMAIN rows
<1>1. PICK event \in published : rows' = [rows EXCEPT ![r] = event[2]]
  BY DEF Project
<1>2. event[2] \in Solvent(event[2].stream) /\ event[2] \in Snapshots
  BY DEF ViewsType, Solvent
<1>3. /\ rows' \in [DOMAIN rows -> Snapshots]
      /\ \A p \in DOMAIN rows : rows'[p] \in Solvent(rows'[p].stream)
  BY <1>1, <1>2 DEF ViewsType
<1>4. UNCHANGED <<intakeVars, saved, published>>
  BY DEF Project
<1>5. IntakeType'
  BY <1>4 DEF IntakeType, intakeVars, Selling
<1>6. ViewsType'
  BY <1>3, <1>4 DEF ViewsType
<1> QED
  BY <1>3, <1>5, <1>6

(* Rounding makes integers.                                                *)
LEMMA RoundType ==
  ASSUME NEW n \in Int, NEW d \in Nat \ {0}
  PROVE  Round(n, d) \in Int
BY DEF Round

(* A trade has its type.                                                   *)
LEMMA TradeType ==
  ASSUME NEW s \in Snapshots, NEW a \in Allocations, NEW v \in Int, NEW x \in Symbols
  PROVE  /\ Trade(s, a, v, x) \in Trades
         /\ Goal(a, x, v) \in Int
<1>1. PICK named \in SUBSET Symbols : a \in [named -> 0 .. 100]
  BY AdviceAssumption
<1>2. Goal(a, x, v) \in Int
  <2>1. CASE x \in named
    <3>1. a[x] \in Int /\ a[x] * v \in Int
      BY <1>1, <2>1
    <3> QED
      BY <1>1, <2>1, <3>1, RoundType DEF Goal
  <2>2. CASE x \notin named
    BY <1>1, <2>2 DEF Goal
  <2> QED
    BY <2>1, <2>2
<1>3. Quantity(s, x) \in Nat
  BY QuantityType
<1> DEFINE delta == Goal(a, x, v) - Quantity(s, x)
           weight == IF x \in DOMAIN a THEN a[x] ELSE 0
           class == IF x \in DOMAIN a THEN AssetClass[x] ELSE "OTHER"
           side == IF delta > 0 THEN "BUY" ELSE "SELL"
<1>4. delta \in Int
  BY <1>2, <1>3
<1> HIDE DEF delta
<1>5. Magnitude(delta) \in Nat
  BY <1>4 DEF Magnitude
<1>6. weight \in 0 .. 100 /\ class \in Classes /\ side \in {"BUY", "SELL"}
  <2>1. weight \in 0 .. 100
    BY <1>1
  <2>2. class \in Classes
    BY DEF Classes
  <2> QED
    BY <2>1, <2>2
<1>7. Trade(s, a, v, x) = [symbol |-> x, side |-> side, amount |-> Magnitude(delta),
                           weight |-> weight, class |-> class]
  BY DEF Trade, delta
<1> HIDE DEF weight, class, side
<1> QED
  BY <1>2, <1>5, <1>6, <1>7 DEF Trades

(* So have the trades of a packet, which are finitely many, one of a       *)
(* symbol.                                                                 *)
LEMMA ProposedType ==
  ASSUME NEW s \in Snapshots, NEW a \in Allocations, NEW v \in Int
  PROVE  /\ ProposedTrades(s, a, v) \subseteq Trades
         /\ IsFiniteSet(ProposedTrades(s, a, v))
         /\ ProposedTrades(s, a, v) \subseteq {Trade(s, a, v, x) : x \in Symbols}
<1>1. DOMAIN a \union Held(s) \subseteq Symbols
  BY AdviceAssumption DEF Held, Snapshots
<1> DEFINE T == {Trade(s, a, v, x) : x \in Symbols}
           f == [x \in Symbols |-> Trade(s, a, v, x)]
<1>2. T = {f[x] : x \in Symbols}
  OBVIOUS
<1>3. IsFiniteSet(T)
  <2> HIDE DEF f
  <2>1. IsFiniteSet({f[x] : x \in Symbols})
    BY SymbolsFinite, ImageFinite
  <2> QED
    BY <1>2, <2>1
<1>4. T \subseteq Trades
  BY TradeType
<1>5. ProposedTrades(s, a, v) \subseteq T
  BY <1>1 DEF ProposedTrades
<1> HIDE DEF T
<1>6. IsFiniteSet(ProposedTrades(s, a, v)) /\ ProposedTrades(s, a, v) \subseteq Trades
  BY <1>3, <1>4, <1>5, FS_Subset
<1> QED
  BY <1>5, <1>6 DEF T

(* Assembling a packet keeps the types.                                    *)
LEMMA AssembleType ==
  ASSUME IntakeType, ViewsType, AdviceType, Assemble
  PROVE  IntakeType' /\ ViewsType' /\ AdviceType'
<1>1. PICK trigger \in triggers, allocation \in Allocations, risk \in RiskCategories :
        AssemblePacket(LedgerSnapshotRow, trigger, allocation, risk)
  BY DEF Assemble
<1>2. /\ UNCHANGED <<message, work, recorded, booked, lots, disposed, images, torn, faults>>
      /\ UNCHANGED <<saved, published, rows, triggers, shadowed, verdict>>
  BY <1>1 DEF Assemble, intakeVars, viewVars, AssemblePacket
<1> DEFINE s == LedgerSnapshotRow
           v == PositionsValue(s) + s.cash + trigger
<1>3. s \in Snapshots
  BY DEF LedgerSnapshotRow, ViewsType, AdviceType
<1>4. v \in Int /\ Held(s) \subseteq Symbols
  <2>1. PositionsValue(s) \in Int /\ s.cash \in Int /\ Held(s) \subseteq Symbols
    <3> HIDE DEF s
    <3> QED
      BY <1>3, PositionsValueSum DEF Snapshots, Held
  <2>2. trigger \in Int
    <3>1. triggers \subseteq Nat
      BY DEF AdviceType
    <3>2. trigger \in triggers
      BY <1>1
    <3> HIDE DEF s, v
    <3> QED
      BY <3>1, <3>2
  <2> HIDE DEF s
  <2> QED
    BY <2>1, <2>2
<1>5. packet' = [made |-> TRUE, value |-> v, risk |-> risk,
                 trades |-> ProposedTrades(s, allocation, v), positions |-> Held(s)]
  BY <1>1 DEF AssemblePacket
<1> HIDE DEF s, v
<1>6. ProposedTrades(s, allocation, v) \subseteq Trades /\ IsFiniteSet(ProposedTrades(s, allocation, v))
  BY <1>3, <1>4, ProposedType
<1>7. packet' \in Packets /\ IsFiniteSet(packet'.trades)
  BY <1>4, <1>5, <1>6 DEF Packets
<1>8. IntakeType' /\ ViewsType'
  BY <1>2 DEF IntakeType, ViewsType, Selling
<1> QED
  BY <1>2, <1>7, <1>8 DEF AdviceType

(* Checking it keeps them.                                                 *)
LEMMA CheckType ==
  ASSUME IntakeType, ViewsType, AdviceType, Check
  PROVE  IntakeType' /\ ViewsType' /\ AdviceType'
<1>1. PICK mandate \in Mandates : CheckCompliance(mandate)
  BY DEF Check
<1>2. /\ verdict'.result \in {"none", "BLOCKED", "APPROVED"}
      /\ verdict'.level \in {"none", "L1", "L2"}
  BY <1>1 DEF CheckCompliance, Authority
<1>3. UNCHANGED <<message, work, recorded, booked, lots, disposed, images, torn, faults>>
      /\ UNCHANGED <<saved, published, rows, triggers, shadowed, packet>>
  BY <1>1 DEF Check, CheckCompliance, intakeVars, viewVars
<1>4. IntakeType' /\ ViewsType'
  BY <1>3 DEF IntakeType, ViewsType, Selling
<1> QED
  BY <1>2, <1>3, <1>4 DEF AdviceType

(* The fill of a trade is an event.                                        *)
LEMMA FillType ==
  ASSUME NEW t \in Trades
  PROVE  /\ Fill(t) \in Message
         /\ Fill(t) # NoMessage
BY DEF Trades, Fill, Message, NoMessage

(* Booking the packet to the simulated stream keeps the types.             *)
LEMMA ShadowType ==
  ASSUME IntakeType, ViewsType, AdviceType, Shadow
  PROVE  IntakeType' /\ ViewsType' /\ AdviceType'
<1> DEFINE of(side) == {Fill(t) : t \in {u \in packet.trades : u.side = side}}
<1>1. /\ booked' = [booked EXCEPT !["simulated"] =
                     @ \o SetToSeq(of("SELL")) \o SetToSeq(of("BUY"))]
      /\ shadowed' = TRUE
  BY DEF Shadow
<1>2. UNCHANGED <<message, work, recorded, lots, disposed, images, torn, faults>>
      /\ UNCHANGED <<saved, published, rows, packet, verdict, triggers>>
  BY DEF Shadow, viewVars, adviceVars
<1>3. packet.trades \subseteq Trades /\ IsFiniteSet(packet.trades)
  BY DEF AdviceType, Packets
<1>4. ASSUME NEW side PROVE SetToSeq(of(side)) \in Seq(Message)
  <2> DEFINE U == {u \in packet.trades : u.side = side}
             f == [t \in U |-> Fill(t)]
  <2>1. IsFiniteSet(U) /\ U \subseteq Trades
    BY <1>3, FS_Subset
  <2>2. of(side) = {f[t] : t \in U}
    OBVIOUS
  <2>3. of(side) \subseteq Message
    BY <2>1, FillType
  <2> HIDE DEF U, f, of
  <2>4. IsFiniteSet(of(side))
    BY <2>1, <2>2, ImageFinite
  <2> QED
    BY <2>3, <2>4, SetToSeqType
<1>5. booked' \in [Streams -> Seq(Message)]
  <2> DEFINE a == SetToSeq(of("SELL"))
             b == SetToSeq(of("BUY"))
  <2>1. a \in Seq(Message) /\ b \in Seq(Message)
    BY <1>4
  <2>2. booked' = [booked EXCEPT !["simulated"] = (booked["simulated"] \o a) \o b]
    BY <1>1
  <2> HIDE DEF a, b
  <2>3. booked \in [Streams -> Seq(Message)] /\ "simulated" \in Streams
    BY DEF IntakeType, Streams
  <2>4. (booked["simulated"] \o a) \o b \in Seq(Message)
    BY <2>1, <2>3
  <2> QED
    BY <2>2, <2>3, <2>4
<1>6. IntakeType' /\ ViewsType'
  BY <1>2, <1>5 DEF IntakeType, ViewsType, Selling
<1> QED
  BY <1>1, <1>2, <1>6 DEF AdviceType

(* Filling a trade keeps them.                                             *)
LEMMA ExecuteType ==
  ASSUME IntakeType, ViewsType, AdviceType, NEW t \in packet.trades, Execute(t)
  PROVE  IntakeType' /\ ViewsType' /\ AdviceType'
<1>1. UNCHANGED <<work, recorded, booked, lots, disposed, images, torn, faults>>
      /\ UNCHANGED <<saved, published, rows, packet, verdict, triggers, shadowed>>
      /\ message' = [message EXCEPT ![OrderOf[t.symbol]] = Fill(t)]
  BY DEF Execute, viewVars, adviceVars
<1>2. t \in Trades
  BY DEF AdviceType, Packets
<1>3. Fill(t) \in Message /\ OrderOf[t.symbol] \in Ids
  BY <1>2, FillType, PortfolioAssumption DEF Trades
<1>4. message' \in [Ids -> Message]
  BY <1>1, <1>3 DEF IntakeType
<1> QED
  BY <1>1, <1>4 DEF IntakeType, ViewsType, AdviceType, Selling

(* Every step keeps the types.                                             *)
LEMMA TypeStep == TypeInv /\ [Next]_vars => TypeInv'
<1> SUFFICES ASSUME TypeInv, [Next]_vars PROVE TypeInv'
  OBVIOUS
<1> USE DEF TypeInv
<1>1. CASE HandleStep
  <2>1. PICK m \in Ids : HandleEvent(m)
    BY <1>1 DEF HandleStep
  <2>2. IntakeType'
    BY <2>1, HandleType
  <2>3. ViewsType' /\ AdviceType'
    BY <1>1 DEF HandleStep, ViewsType, AdviceType, viewVars, adviceVars
  <2> QED
    BY <2>2, <2>3
<1>2. CASE RedeliverStep
  <2>1. PICK m \in Ids : RedeliverEvent(m)
    BY <1>2 DEF RedeliverStep
  <2>2. IntakeType'
    BY <2>1, RedeliverType
  <2>3. ViewsType' /\ AdviceType'
    BY <1>2 DEF RedeliverStep, ViewsType, AdviceType, viewVars, adviceVars
  <2> QED
    BY <2>2, <2>3
<1>3. CASE ViewsStep
  <2>1. UNCHANGED <<packet, verdict, triggers, shadowed>>
    BY <1>3 DEF ViewsStep, adviceVars
  <2>2. IntakeType' /\ ViewsType' /\ DOMAIN rows' = DOMAIN rows
    BY <1>3, ReduceType, ProjectType DEF ViewsStep, ViewsNext
  <2> QED
    BY <2>1, <2>2 DEF AdviceType
<1>4. CASE Assemble
  BY <1>4, AssembleType
<1>5. CASE Check
  BY <1>5, CheckType
<1>6. CASE Shadow
  BY <1>6, ShadowType
<1>7. CASE \E t \in packet.trades : Execute(t)
  BY <1>7, ExecuteType
<1>8. CASE UNCHANGED vars
  BY <1>8 DEF vars, intakeVars, viewVars, adviceVars, IntakeType, ViewsType, AdviceType, Selling
<1> QED
  BY <1>1, <1>2, <1>3, <1>4, <1>5, <1>6, <1>7, <1>8 DEF Next

(* The types hold in every behaviour, and no account is ever worth less    *)
(* than nothing: accountReducer refuses the sale and the withdrawal of     *)
(* more than there is, and a purchase that overdraws the cash buys what    *)
(* it costs.                                                               *)
THEOREM TypeInvariant == Spec => []TypeInv
BY InitType, TypeStep, PTL DEF Spec

(* The rows of ledger-ctrl, of the read models, of decision-workflow-ctrl  *)
(* and of compliance-ctrl have their types; in particular no position of   *)
(* any snapshot or row is negative.                                        *)
THEOREM TypeCorrect == Spec => []TypeOK
BY TypeInvariant, TypeInvTypeOK, PTL

-----------------------------------------------------------------------------
(* Tax lots.                                                               *)

(* Of a lot that an execution has written down and not put a disposition   *)
(* of, what that disposition will say.                                     *)
PendingOf(w, l) ==
  IF \/ w.pc = "update" /\ l \notin w.todo
     \/ w.pc = "dispose" /\ l \in w.todo
  THEN w.sold[l] ELSE 0

(* What has been sold of a lot, by each sale; and of each lot, by a sale.  *)
Taken(l) == [m \in Ids |-> disposed[<<m, l>>] + PendingOf(work[m], l)]

(* What the dispositions of a sale say of each lot.                        *)
SoldBy(m) == [l \in Ids |-> disposed[<<m, l>>]]

(* However events are handled: only a sale sells, only lots of its symbol  *)
(* that were opened are sold, only a purchase opens one, and there are no  *)
(* dispositions of a lot that was not opened or of an event not published. *)
HandlerOK(m) ==
  /\ work[m].pc # "new" => message[m].kind # "none"
  /\ Selling(m) => /\ message[m].kind = "SELL"
                   /\ \A l \in Ids : l \in work[m].todo => work[m].sold[l] > 0
                   /\ \A l \in Ids : work[m].sold[l] > 0 =>
                        lots[l].status # "none" /\ message[l].symbol = message[m].symbol
  /\ lots[m].status # "none" => message[m].kind = "BUY"
  /\ lots[m].status = "none" => \A k \in Ids : disposed[<<k, m>>] = 0
  /\ message[m].kind = "none" => \A l \in Ids : disposed[<<m, l>>] = 0

(* A sale of a symbol that is not torn: nothing is put before the lots are *)
(* read; then every lot still to be written down is as it was read.        *)
SaleOK(m) ==
  /\ work[m].pc \in {"new", "lots"} => \A l \in Ids : disposed[<<m, l>>] = 0
  /\ Selling(m) =>
       /\ SumFunctionOnSet(work[m].sold, Ids) <= message[m].amount
       /\ \A l \in Ids :
            disposed[<<m, l>>] =
              IF work[m].pc = "update" \/ l \in work[m].todo THEN 0
              ELSE work[m].sold[l]
  /\ work[m].pc = "update" => \A l \in Ids : l \in work[m].todo =>
       /\ lots[l].status = "open"
       /\ lots[l].shares = work[m].left[l] + work[m].sold[l]
  /\ SumFunctionOnSet(SoldBy(m), Ids) <= message[m].amount

(* A lot and what was sold of it make up what was bought.                  *)
LotOK(l) ==
  lots[l].status # "none" =>
    OpenShares(l) + SumFunctionOnSet(Taken(l), Ids) = message[l].amount

Whole(m) == message[m].symbol \notin torn

(* No two sales of a symbol that is not torn are about to write down the   *)
(* same lot.                                                               *)
Apart(m, k) ==
  Whole(m) /\ m # k /\ work[m].pc = "update" /\ work[k].pc = "update" =>
    \A l \in Ids : ~(l \in work[m].todo /\ l \in work[k].todo)

(* The inductive invariant of the tax lots.                                *)
LotsInv ==
  /\ \A m \in Ids : HandlerOK(m)
  /\ \A m, k \in Ids : Apart(m, k)
  /\ \A m \in Ids : Whole(m) => SaleOK(m)
  /\ \A l \in Ids : Whole(l) => LotOK(l)

(* The values of Taken and SoldBy.                                         *)
LEMMA TakenValue ==
  ASSUME IntakeType, NEW l \in Ids, NEW m \in Ids
  PROVE  /\ PendingOf(work[m], l) \in Nat /\ disposed[<<m, l>>] \in Nat
         /\ Taken(l)[m] = disposed[<<m, l>>] + PendingOf(work[m], l)
         /\ Taken(l)[m] \in Int
         /\ SoldBy(m)[l] = disposed[<<m, l>>]
<1>1. work[m] \in Works /\ disposed \in [Ids \X Ids -> Nat]
  BY DEF IntakeType
<1>2. work[m].sold[l] \in Nat
  BY <1>1 DEF Works
<1>3. PendingOf(work[m], l) \in Nat
  BY <1>2 DEF PendingOf
<1>4. disposed[<<m, l>>] \in Nat
  BY <1>1
<1> QED
  BY <1>3, <1>4 DEF Taken, SoldBy

(* The same in the next state.                                             *)
LEMMA TakenValueNext ==
  ASSUME IntakeType', NEW l \in Ids, NEW m \in Ids
  PROVE  /\ PendingOf(work'[m], l) \in Nat /\ disposed'[<<m, l>>] \in Nat
         /\ Taken(l)'[m] = disposed'[<<m, l>>] + PendingOf(work'[m], l)
         /\ Taken(l)'[m] \in Int
         /\ SoldBy(m)'[l] = disposed'[<<m, l>>]
<1>1. work'[m] \in Works /\ disposed' \in [Ids \X Ids -> Nat]
  BY DEF IntakeType
<1>2. work'[m].sold[l] \in Nat
  BY <1>1 DEF Works
<1>3. PendingOf(work'[m], l) \in Nat
  BY <1>2 DEF PendingOf
<1>4. disposed'[<<m, l>>] \in Nat
  BY <1>1
<1> QED
  BY <1>3, <1>4 DEF Taken, SoldBy

(* What was sold of a lot is as before when each sale's part in it is.     *)
LEMMA TakenSame ==
  ASSUME IntakeType, IntakeType', NEW l \in Ids,
         \A m \in Ids : disposed'[<<m, l>>] + PendingOf(work'[m], l)
                          = disposed[<<m, l>>] + PendingOf(work[m], l)
  PROVE  SumFunctionOnSet(Taken(l)', Ids) = SumFunctionOnSet(Taken(l), Ids)
<1> DEFINE f == Taken(l)
           g == Taken(l)'
<1>1. ASSUME NEW m \in Ids PROVE f[m] \in Int /\ g[m] = f[m]
  <2>1. f[m] = disposed[<<m, l>>] + PendingOf(work[m], l) /\ f[m] \in Int
    BY TakenValue
  <2>2. g[m] = disposed'[<<m, l>>] + PendingOf(work'[m], l)
    BY TakenValueNext
  <2> QED
    BY <2>1, <2>2
<1>2. IsFiniteSet(Ids)
  BY LedgerIntakeAssumption
<1> HIDE DEF f, g
<1>3. SumFunctionOnSet(g, Ids) = SumFunctionOnSet(f, Ids)
  BY <1>1, <1>2, SumSame
<1> QED
  BY <1>3 DEF f, g

(* A lot that the step leaves alone.                                       *)
LEMMA LotSame ==
  ASSUME IntakeType, IntakeType', NEW l \in Ids, LotOK(l),
         lots'[l] = lots[l], message'[l] = message[l],
         \A m \in Ids : disposed'[<<m, l>>] + PendingOf(work'[m], l)
                          = disposed[<<m, l>>] + PendingOf(work[m], l)
  PROVE  LotOK(l)'
<1>1. SumFunctionOnSet(Taken(l)', Ids) = SumFunctionOnSet(Taken(l), Ids)
  BY TakenSame
<1>2. OpenShares(l)' = OpenShares(l)
  BY DEF OpenShares
<1> QED
  BY <1>1, <1>2 DEF LotOK

(* A sale that the step leaves alone.                                      *)
LEMMA SaleSame ==
  ASSUME IntakeType, NEW m \in Ids, SaleOK(m),
         work'[m] = work[m] \/ (work[m].pc = "new" /\ work'[m].pc = "lots")
           \/ (work'[m].pc = "done"),
         message'[m] = message[m],
         \A l \in Ids : disposed'[<<m, l>>] = disposed[<<m, l>>],
         work'[m].pc = "update" =>
            \A l \in Ids : l \in work[m].todo => lots'[l] = lots[l]
  PROVE  SaleOK(m)'
<1>1. SoldBy(m)' = SoldBy(m)
  BY DEF SoldBy
<1>2. SumFunctionOnSet(SoldBy(m)', Ids) <= message'[m].amount
  BY <1>1 DEF SaleOK
<1>3. work'[m].pc \in {"new", "lots"} => \A l \in Ids : disposed'[<<m, l>>] = 0
  BY DEF SaleOK
<1>4. CASE work'[m] = work[m]
  <2>1. Selling(m)' => Selling(m)
    BY <1>4 DEF Selling
  <2> QED
    BY <1>2, <1>3, <1>4, <2>1 DEF SaleOK
<1>5. CASE work'[m].pc \in {"lots", "done"}
  <2>1. ~Selling(m)'
    BY <1>5 DEF Selling
  <2> QED
    BY <1>2, <1>3, <1>5, <2>1 DEF SaleOK
<1> QED
  BY <1>4, <1>5

(* A sale without dispositions disposes of nothing.                        *)
LEMMA SoldNothing ==
  ASSUME NEW m \in Ids, \A l \in Ids : disposed[<<m, l>>] = 0
  PROVE  SumFunctionOnSet(SoldBy(m), Ids) = 0
<1> DEFINE f == SoldBy(m)
<1>1. \A l \in Ids \ {} : f[l] = 0
  BY DEF SoldBy
<1>2. IsFiniteSet(Ids) /\ {} \in SUBSET Ids /\ \A l \in {} : f[l] \in Int
  BY LedgerIntakeAssumption
<1> HIDE DEF f
<1>3. SumFunctionOnSet(f, Ids) = SumFunctionOnSet(f, {})
  BY <1>1, <1>2, SumNonzero
<1> QED
  BY <1>3, SumEmpty DEF f

(* What is not torn after a step was not before.                           *)
LEMMA WholeBefore ==
  ASSUME NEW m \in Ids, message'[m] = message[m], torn \subseteq torn', Whole(m)'
  PROVE  Whole(m)
BY DEF Whole

(* At the start there are no lots.                                         *)
LEMMA InitLots == Init => LotsInv
<1> SUFFICES ASSUME Init PROVE LotsInv
  OBVIOUS
<1>1. /\ \A m \in Ids : work[m].pc = "new" /\ lots[m].status = "none"
      /\ \A m, l \in Ids : disposed[<<m, l>>] = 0
      /\ message \in [Ids -> Message]
  <2>1. message \in [Ids -> Message]
    BY PortfolioAssumption DEF Init
  <2>2. \A m \in Ids : work[m].pc = "new"
    BY DEF Init, IntakeInit, Waiting
  <2> QED
    BY <2>1, <2>2 DEF Init, IntakeInit, NoLot
<1>2. \A m \in Ids : ~Selling(m)
  BY <1>1 DEF Selling
<1>3. ASSUME NEW m \in Ids PROVE SumFunctionOnSet(SoldBy(m), Ids) <= message[m].amount
  <2>1. message[m].amount \in Nat
    BY <1>1 DEF Message
  <2> QED
    BY <1>1, <2>1, SoldNothing
<1>4. \A m \in Ids : HandlerOK(m)
  BY <1>1, <1>2 DEF HandlerOK
<1>5. \A m, k \in Ids : Apart(m, k)
  BY <1>1 DEF Apart
<1>6. \A m \in Ids : SaleOK(m)
  BY <1>1, <1>2, <1>3 DEF SaleOK
<1>7. \A l \in Ids : LotOK(l)
  BY <1>1 DEF LotOK
<1> QED
  BY <1>4, <1>5, <1>6, <1>7 DEF LotsInv

(* Recording an entry leaves the lots.                                     *)
LEMMA RecordLots ==
  ASSUME IntakeType, IntakeType', LotsInv, NEW m \in Ids, RecordEntry(m)
  PROVE  LotsInv'
<1>1. /\ message[m].kind # "none" /\ work[m].pc = "new"
      /\ UNCHANGED <<message, lots, disposed, torn, faults>>
  BY DEF RecordEntry
<1>2. /\ work'[m].pc \in {"lots", "done"} /\ \A k \in Ids \ {m} : work'[k] = work[k]
  <2>1. [work[m] EXCEPT !.pc = "lots"].pc = "lots"
    BY DEF IntakeType, Works
  <2>2. [Waiting EXCEPT !.pc = "done"].pc = "done"
    BY DEF Waiting
  <2>3. Goto(m, "lots") \/ Finished(m)
    BY DEF RecordEntry
  <2>4. CASE Goto(m, "lots")
    <3>1. \A k \in Ids : work'[k] = IF k = m THEN [work[m] EXCEPT !.pc = "lots"] ELSE work[k]
      BY <2>4, GotoType
    <3> QED
      BY <2>1, <3>1
  <2>5. CASE Finished(m)
    <3>1. \A k \in Ids : work'[k] = IF k = m THEN [Waiting EXCEPT !.pc = "done"] ELSE work[k]
      BY <2>5, GotoType
    <3> QED
      BY <2>2, <3>1
  <2> QED
    BY <2>3, <2>4, <2>5
<1>3. \A k \in Ids : Selling(k)' => Selling(k) /\ work'[k] = work[k]
  BY <1>2 DEF Selling
<1>4. \A k \in Ids : HandlerOK(k)'
  BY <1>1, <1>2, <1>3 DEF LotsInv, HandlerOK
<1>5. \A k, j \in Ids : Apart(k, j)'
  BY <1>1, <1>2 DEF LotsInv, Apart, Whole
<1>6. ASSUME NEW k \in Ids, Whole(k)' PROVE SaleOK(k)'
  <2>1. SaleOK(k)
    BY <1>1, <1>6, WholeBefore DEF LotsInv
  <2>2. \/ work'[k] = work[k]
        \/ work[k].pc = "new" /\ work'[k].pc = "lots"
        \/ work'[k].pc = "done"
    BY <1>1, <1>2
  <2> QED
    BY <1>1, <2>1, <2>2, SaleSame
<1>7. ASSUME NEW l \in Ids, Whole(l)' PROVE LotOK(l)'
  <2>1. LotOK(l)
    BY <1>1, <1>7, WholeBefore DEF LotsInv
  <2>2. \A k \in Ids : PendingOf(work'[k], l) = PendingOf(work[k], l)
    BY <1>1, <1>2 DEF PendingOf
  <2> QED
    BY <1>1, <2>1, <2>2, LotSame
<1> QED
  BY <1>4, <1>5, <1>6, <1>7 DEF LotsInv

(* A purchase opens a lot that nothing was sold of, or puts it as it is,   *)
(* or its symbol is torn.                                                  *)
LEMMA OpenLotLots ==
  ASSUME IntakeType, IntakeType', LotsInv, NEW m \in Ids, OpenLot(m)
  PROVE  LotsInv'
<1> DEFINE lot == [status |-> "open", shares |-> message[m].amount]
<1>1. /\ work[m].pc = "lots" /\ message[m].kind = "BUY"
      /\ UNCHANGED <<message, recorded, disposed>>
      /\ PutLot(m, lot) /\ Tear(m, lots[m] \notin {NoLot, lot})
  BY DEF OpenLot
<1>2. work'[m].pc = "done" /\ \A k \in Ids \ {m} : work'[k] = work[k]
  BY GotoType DEF OpenLot, Waiting
<1>3. \A k \in Ids : Selling(k)' => Selling(k) /\ work'[k] = work[k]
  BY <1>2 DEF Selling
<1>4. lots'[m] = lot /\ \A k \in Ids \ {m} : lots'[k] = lots[k]
  <2>1. lot \in LotRows
    BY DEF IntakeType, Message, LotRows
  <2> HIDE DEF lot
  <2> QED
    BY <1>1, <2>1, PutLotType
<1>5. /\ torn \subseteq torn'
      /\ lots[m] = lot \/ lots[m] = NoLot \/ message[m].symbol \in torn'
  <2> DEFINE broken == lots[m] \notin {NoLot, lot}
  <2>1. torn \subseteq torn' /\ (broken => message[m].symbol \in torn')
    <3> HIDE DEF broken
    <3> QED
      BY <1>1, TearType DEF broken
  <2> QED
    BY <2>1
<1>6. lot.status = "open" /\ lot.shares = message[m].amount
  OBVIOUS
<1> HIDE DEF lot
<1>7. \A k \in Ids : HandlerOK(k)'
  <2>1. \A k \in Ids : lots[k].status # "none" => lots'[k].status # "none"
    BY <1>4, <1>6
  <2>2. ASSUME NEW k \in Ids PROVE HandlerOK(k)'
    <3>1. HandlerOK(k)
      BY DEF LotsInv
    <3>2. work'[k].pc # "new" => message'[k].kind # "none"
      BY <1>1, <1>2, <3>1 DEF HandlerOK
    <3>3. lots'[k].status # "none" => message'[k].kind = "BUY"
      BY <1>1, <1>4, <3>1 DEF HandlerOK
    <3>4. lots'[k].status = "none" => lots[k].status = "none"
      BY <2>1
    <3> QED
      BY <1>1, <1>3, <2>1, <3>1, <3>2, <3>3, <3>4 DEF HandlerOK
  <2> QED
    BY <2>2
<1>8. \A k, j \in Ids : Apart(k, j)'
  BY <1>1, <1>2, <1>5 DEF LotsInv, Apart, Whole
<1>9. ASSUME NEW k \in Ids, Whole(k)' PROVE SaleOK(k)'
  <2>1. SaleOK(k) /\ HandlerOK(k)
    BY <1>1, <1>5, <1>9, WholeBefore DEF LotsInv
  <2>2. work'[k] = work[k] \/ work'[k].pc = "done"
    BY <1>2
  <2>3. work'[k].pc = "update" => \A l \in Ids : l \in work[k].todo => lots'[l] = lots[l]
    <3>1. SUFFICES ASSUME work'[k].pc = "update", m \in work[k].todo
                   PROVE  lots'[m] = lots[m]
      BY <1>4
    <3>2. k # m /\ work[k].pc = "update" /\ Selling(k)
      BY <1>2, <3>1 DEF Selling
    <3>3. lots[m].status = "open" /\ message[m].symbol = message[k].symbol
      BY <2>1, <3>1, <3>2 DEF SaleOK, HandlerOK
    <3>4. message[m].symbol \notin torn'
      BY <1>1, <1>9, <3>3 DEF Whole
    <3> QED
      BY <1>4, <1>5, <3>3, <3>4 DEF NoLot
  <2> QED
    BY <1>1, <2>1, <2>2, <2>3, SaleSame
<1>10. \A k, l \in Ids : PendingOf(work'[k], l) = PendingOf(work[k], l)
  BY <1>1, <1>2 DEF PendingOf
<1>11. ASSUME NEW l \in Ids, Whole(l)', l # m \/ lots[l] = lot PROVE LotOK(l)'
  <2>1. LotOK(l)
    BY <1>1, <1>5, <1>11, WholeBefore DEF LotsInv
  <2>2. lots'[l] = lots[l]
    BY <1>4, <1>11
  <2> QED
    BY <1>1, <1>10, <2>1, <2>2, LotSame
<1>12. ASSUME lots[m] = NoLot PROVE LotOK(m)'
  <2>1. lots[m].status = "none" /\ \A k \in Ids : disposed[<<k, m>>] = 0
    BY <1>12 DEF NoLot, LotsInv, HandlerOK
  <2>2. \A k \in Ids : PendingOf(work[k], m) = 0
    <3>1. SUFFICES ASSUME NEW k \in Ids, Selling(k) PROVE work[k].sold[m] = 0
      BY DEF PendingOf, Selling
    <3>2. HandlerOK(k) /\ work[k].sold[m] \in Nat
      BY DEF LotsInv, IntakeType, Works
    <3>3. ~(work[k].sold[m] > 0)
      BY <2>1, <3>1, <3>2 DEF HandlerOK
    <3> QED
      BY <3>2, <3>3
  <2>3. SumFunctionOnSet(Taken(m)', Ids) = 0
    <3> DEFINE f == Taken(m)'
    <3>1. ASSUME NEW k \in Ids PROVE f[k] = 0
      <4>1. f[k] = disposed'[<<k, m>>] + PendingOf(work'[k], m)
        BY TakenValueNext
      <4> QED
        BY <1>1, <1>10, <2>1, <2>2, <4>1
    <3> HIDE DEF f
    <3>2. \A k \in {} : f[k] \in Int
      OBVIOUS
    <3>3. SumFunctionOnSet(f, Ids) = SumFunctionOnSet(f, {})
      BY <3>1, <3>2, LedgerIntakeAssumption, SumNonzero
    <3> QED
      BY <3>3, SumEmpty DEF f
  <2>4. OpenShares(m)' = message'[m].amount /\ message'[m].amount \in Nat
    BY <1>1, <1>4, <1>6 DEF OpenShares, IntakeType, Message
  <2> QED
    BY <2>3, <2>4 DEF LotOK
<1>13. ASSUME NEW l \in Ids, Whole(l)' PROVE LotOK(l)'
  <2>1. l = m => lots[m] = lot \/ lots[m] = NoLot
    BY <1>1, <1>5, <1>13 DEF Whole
  <2> QED
    BY <1>11, <1>12, <1>13, <2>1
<1> QED
  BY <1>7, <1>8, <1>9, <1>13 DEF LotsInv

(* A sale that reads the lots takes no more than it sells, and each lot    *)
(* it will write down is as it was read and its own to write, or its       *)
(* symbol is torn.                                                         *)
LEMMA ReadLotsLots ==
  ASSUME IntakeType, IntakeType', LotsInv, NEW m \in Ids, ReadLots(m)
  PROVE  LotsInv'
<1>1. PICK drawn \in SUBSET LotsOf(message[m].symbol),
            sold \in [Ids -> Nat], left \in [Ids -> Nat] :
           /\ \A l \in Ids : l \in drawn <=> sold[l] > 0
           /\ SumFunctionOnSet(sold, Ids) <= message[m].amount
           /\ torn \subseteq torn' /\ torn' \subseteq Symbols
           /\ \/ message[m].symbol \in torn'
              \/ \A l \in drawn : /\ lots[l].status = "open" /\ ~Claimed(l)
                                  /\ lots[l].shares = left[l] + sold[l]
           /\ IF drawn = {} THEN Finished(m)
              ELSE work' = [work EXCEPT ![m] =
                     [pc |-> "update", todo |-> drawn, sold |-> sold, left |-> left]]
  BY ReadEffect
<1> DEFINE w == [pc |-> "update", todo |-> drawn, sold |-> sold, left |-> left]
<1>2. /\ work[m].pc = "lots" /\ message[m].kind = "SELL"
      /\ UNCHANGED <<message, recorded, lots, disposed>>
  BY DEF ReadLots
<1>3. \A l \in drawn : l \in Ids /\ lots[l].status # "none" /\ message[l].symbol = message[m].symbol
  BY DEF LotsOf
<1>4. /\ w.pc = "update" /\ w.todo = drawn /\ w.sold = sold /\ w.left = left
      /\ \A l \in Ids : sold[l] \in Nat
  OBVIOUS
<1>5. /\ \A k \in Ids \ {m} : work'[k] = work[k]
      /\ work'[m].pc = "done" \/ work'[m] = w
  BY <1>1, GotoType DEF IntakeType, Waiting
<1> HIDE DEF w
<1>6. \A k \in Ids : HandlerOK(k)'
  <2>1. ASSUME NEW k \in Ids \ {m} PROVE HandlerOK(k)'
    <3>1. HandlerOK(k) /\ work'[k] = work[k]
      BY <1>5 DEF LotsInv
    <3> QED
      BY <1>2, <3>1 DEF HandlerOK, Selling
  <2>2. HandlerOK(m)'
    <3>1. HandlerOK(m)
      BY DEF LotsInv
    <3>2. Selling(m)' => work'[m] = w
      BY <1>5 DEF Selling
    <3>3. Selling(m)' =>
            /\ \A l \in Ids : l \in work'[m].todo => work'[m].sold[l] > 0
            /\ \A l \in Ids : work'[m].sold[l] > 0 =>
                 lots'[l].status # "none" /\ message'[l].symbol = message'[m].symbol
      BY <1>1, <1>2, <1>3, <1>4, <3>2
    <3> QED
      BY <1>2, <3>1, <3>3 DEF HandlerOK
  <2> QED
    BY <2>1, <2>2
<1>7. ASSUME NEW k \in Ids, NEW j \in Ids PROVE Apart(k, j)'
  <2>1. SUFFICES ASSUME Whole(k)', k # j, work'[k].pc = "update", work'[j].pc = "update",
                        NEW l \in Ids, l \in work'[k].todo, l \in work'[j].todo
                 PROVE  FALSE
    BY DEF Apart
  <2>2. Whole(k) /\ Apart(k, j)
    BY <1>1, <1>2, <2>1, WholeBefore DEF LotsInv
  <2>3. CASE k # m /\ j # m
    <3>1. work'[k] = work[k] /\ work'[j] = work[j]
      BY <1>5, <2>3
    <3> QED
      BY <2>1, <2>2, <3>1 DEF Apart
  <2>4. ASSUME NEW i \in {k, j}, i # m, k = m \/ j = m PROVE FALSE
    <3>1. /\ work[i].pc = "update" /\ l \in work[i].todo
          /\ work'[m] = w /\ l \in drawn
      BY <1>4, <1>5, <2>1, <2>4
    <3>2. Claimed(l)
      BY <2>4, <3>1 DEF Claimed
    <3>3. message[m].symbol \in torn'
      BY <1>1, <3>1, <3>2
    <3>4. work[i].sold[l] > 0 /\ message[l].symbol = message[i].symbol
      BY <2>4, <3>1 DEF LotsInv, HandlerOK, Selling
    <3>5. message[i].symbol = message[m].symbol
      BY <1>3, <3>1, <3>4
    <3> QED
      BY <1>2, <2>1, <2>4, <3>3, <3>5 DEF Whole
  <2> QED
    BY <2>1, <2>3, <2>4
<1>8. ASSUME NEW k \in Ids, Whole(k)', k # m \/ work'[k].pc = "done" PROVE SaleOK(k)'
  <2>1. SaleOK(k)
    BY <1>1, <1>2, <1>8, WholeBefore DEF LotsInv
  <2>2. work'[k] = work[k] \/ work'[k].pc = "done"
    BY <1>5, <1>8
  <2> QED
    BY <1>2, <2>1, <2>2, SaleSame
<1>9. ASSUME Whole(m)', work'[m] = w PROVE SaleOK(m)'
  <2>1. SaleOK(m) /\ \A l \in Ids : disposed[<<m, l>>] = 0
    BY <1>1, <1>2, <1>9, WholeBefore DEF LotsInv, SaleOK
  <2>2. SoldBy(m)' = SoldBy(m)
    BY <1>2 DEF SoldBy
  <2>3. SumFunctionOnSet(SoldBy(m)', Ids) <= message'[m].amount
    BY <1>2, <2>1, <2>2 DEF SaleOK
  <2>4. \A l \in drawn : lots'[l].status = "open" /\ lots'[l].shares = left[l] + sold[l]
    BY <1>1, <1>2, <1>9 DEF Whole
  <2>5. SumFunctionOnSet(sold, Ids) <= message'[m].amount
    BY <1>1, <1>2
  <2> QED
    BY <1>2, <1>4, <1>9, <2>1, <2>3, <2>4, <2>5 DEF SaleOK
<1>10. \A k, l \in Ids : PendingOf(work'[k], l) = PendingOf(work[k], l)
  <2>1. SUFFICES ASSUME NEW l \in Ids PROVE PendingOf(work'[m], l) = PendingOf(work[m], l)
    BY <1>5
  <2>2. PendingOf(work[m], l) = 0
    BY <1>2 DEF PendingOf
  <2>3. sold[l] = 0 \/ l \in drawn
    BY <1>1, <1>4
  <2>4. PendingOf(w, l) = 0
    BY <1>4, <2>3 DEF PendingOf
  <2> QED
    BY <1>5, <2>2, <2>4 DEF PendingOf
<1>11. ASSUME NEW l \in Ids, Whole(l)' PROVE LotOK(l)'
  <2>1. LotOK(l)
    BY <1>1, <1>2, <1>11, WholeBefore DEF LotsInv
  <2> QED
    BY <1>2, <1>10, <2>1, LotSame
<1> QED
  BY <1>5, <1>6, <1>7, <1>8, <1>9, <1>11 DEF LotsInv

(* What an execution that writes a lot down does to it.                    *)
LEMMA UpdateEffect ==
  ASSUME IntakeType, NEW m \in Ids, UpdateLot(m)
  PROVE  \E l \in Ids :
           /\ l \in work[m].todo
           /\ work'[m].sold = work[m].sold /\ work'[m].left = work[m].left
           /\ \A k \in Ids \ {m} : work'[k] = work[k]
           /\ \A k \in Ids \ {l} : lots'[k] = lots[k]
           /\ lots'[l].status = IF work[m].left[l] = 0 THEN "closed" ELSE lots[l].status
           /\ lots'[l].shares = IF work[m].left[l] = 0 THEN lots[l].shares ELSE work[m].left[l]
           /\ \/ /\ work'[m].pc = "dispose" /\ work[m].todo = {l}
                 /\ \A k \in Ids : k \in work'[m].todo <=> work[m].sold[k] > 0
              \/ /\ work'[m].pc = "update"
                 /\ \A k \in Ids : k \in work'[m].todo <=> k \in work[m].todo /\ k # l
<1> DEFINE l == Oldest(work[m].todo)
           todo == {k \in Ids : work[m].sold[k] > 0}
           less == work[m].todo \ {l}
           done == [work[m] EXCEPT !.pc = "dispose", !.todo = todo]
           more == [work[m] EXCEPT !.todo = less]
<1>1. work \in [Ids -> Works] /\ work[m] \in Works /\ lots \in [Ids -> LotRows]
      /\ work[m].pc = "update" /\ work[m].todo # {}
  BY DEF IntakeType, UpdateLot, Selling
<1>2. work[m].todo \in SUBSET Ids
  BY <1>1 DEF Works
<1>3. l \in work[m].todo
  BY <1>1, <1>2, OldestIn
<1>4. work' = [work EXCEPT ![m] = IF work[m].todo = {l} THEN done ELSE more]
  BY DEF UpdateLot
<1>5. PutLot(l, IF work[m].left[l] = 0 THEN [lots[l] EXCEPT !.status = "closed"]
                ELSE [lots[l] EXCEPT !.shares = work[m].left[l]])
  BY DEF UpdateLot
<1>6. /\ \A k \in Ids : k \in todo <=> work[m].sold[k] > 0
      /\ \A k \in Ids : k \in less <=> k \in work[m].todo /\ k # l
  OBVIOUS
<1> HIDE DEF l, todo, less
<1>7. /\ done.pc = "dispose" /\ done.todo = todo /\ done.sold = work[m].sold
      /\ done.left = work[m].left
      /\ more.pc = "update" /\ more.todo = less /\ more.sold = work[m].sold
      /\ more.left = work[m].left
  BY <1>1 DEF Works
<1> HIDE DEF done, more
<1>8. /\ work'[m] = IF work[m].todo = {l} THEN done ELSE more
      /\ \A k \in Ids \ {m} : work'[k] = work[k]
  BY <1>1, <1>4
<1>9. /\ \A k \in Ids \ {l} : lots'[k] = lots[k]
      /\ lots'[l].status = IF work[m].left[l] = 0 THEN "closed" ELSE lots[l].status
      /\ lots'[l].shares = IF work[m].left[l] = 0 THEN lots[l].shares ELSE work[m].left[l]
  <2> DEFINE row == IF work[m].left[l] = 0 THEN [lots[l] EXCEPT !.status = "closed"]
                    ELSE [lots[l] EXCEPT !.shares = work[m].left[l]]
  <2>1. lots[l] \in LotRows /\ work[m].left[l] \in Nat /\ l \in Ids
    BY <1>1, <1>2, <1>3 DEF Works
  <2>2. /\ row \in LotRows
        /\ row.status = IF work[m].left[l] = 0 THEN "closed" ELSE lots[l].status
        /\ row.shares = IF work[m].left[l] = 0 THEN lots[l].shares ELSE work[m].left[l]
    BY <2>1 DEF LotRows
  <2>3. PutLot(l, row)
    BY <1>5
  <2> HIDE DEF row
  <2> QED
    BY <2>1, <2>2, <2>3, PutLotType
<1>10. \/ /\ work'[m].pc = "dispose" /\ work[m].todo = {l}
          /\ \A k \in Ids : k \in work'[m].todo <=> work[m].sold[k] > 0
       \/ /\ work'[m].pc = "update"
          /\ \A k \in Ids : k \in work'[m].todo <=> k \in work[m].todo /\ k # l
  BY <1>6, <1>7, <1>8
<1>11. work'[m].sold = work[m].sold /\ work'[m].left = work[m].left
  BY <1>7, <1>8
<1>12. l \in Ids
  BY <1>2, <1>3
<1> QED
  BY <1>3, <1>8, <1>9, <1>10, <1>11, <1>12

(* Writing a lot down moves what the sale takes of it from the lot to      *)
(* what its disposition will say.                                          *)
LEMMA UpdateLots ==
  ASSUME IntakeType, IntakeType', LotsInv, NEW m \in Ids, UpdateLot(m)
  PROVE  LotsInv'
<1>1. PICK l \in Ids :
           /\ l \in work[m].todo
           /\ work'[m].sold = work[m].sold /\ work'[m].left = work[m].left
           /\ \A k \in Ids \ {m} : work'[k] = work[k]
           /\ \A k \in Ids \ {l} : lots'[k] = lots[k]
           /\ lots'[l].status = IF work[m].left[l] = 0 THEN "closed" ELSE lots[l].status
           /\ lots'[l].shares = IF work[m].left[l] = 0 THEN lots[l].shares ELSE work[m].left[l]
           /\ \/ /\ work'[m].pc = "dispose" /\ work[m].todo = {l}
                 /\ \A k \in Ids : k \in work'[m].todo <=> work[m].sold[k] > 0
              \/ /\ work'[m].pc = "update"
                 /\ \A k \in Ids : k \in work'[m].todo <=> k \in work[m].todo /\ k # l
  BY UpdateEffect
<1>2. UNCHANGED <<message, recorded, disposed, torn>> /\ work[m].pc = "update"
  BY DEF UpdateLot
<1>3. /\ \A k \in Ids : work[m].sold[k] \in Nat
      /\ work[m].left[l] \in Nat /\ lots[l].shares \in Nat
      /\ \A k \in Ids : k \in work[m].todo => work[m].sold[k] > 0
  <2>1. work[m] \in Works /\ lots[l] \in LotRows
        /\ \A k \in work[m].todo : work[m].sold[k] > 0
    BY <1>2 DEF IntakeType, Selling
  <2> QED
    BY <2>1 DEF Works, LotRows
<1>4. Selling(m) /\ Selling(m)' /\ work'[m].pc \in {"update", "dispose"}
  BY <1>1, <1>2 DEF Selling
<1>5. \A k \in Ids : lots[k].status # "none" <=> lots'[k].status # "none"
  <2>1. lots[l].status # "none"
    BY <1>1, <1>3, <1>4 DEF LotsInv, HandlerOK
  <2> QED
    BY <1>1, <2>1
<1>6. ASSUME NEW k \in Ids PROVE HandlerOK(k)'
  <2>1. HandlerOK(k)
    BY DEF LotsInv
  <2>2. CASE k # m
    <3>1. work'[k] = work[k]
      BY <1>1, <2>2
    <3> QED
      BY <1>2, <1>5, <2>1, <3>1 DEF HandlerOK, Selling
  <2>3. CASE k = m
    <3>1. \A j \in Ids : j \in work'[m].todo => work'[m].sold[j] > 0
      BY <1>1, <1>3
    <3>2. message'[m].kind = "SELL" /\ message'[m].kind # "none"
      BY <1>2, <1>4, <2>1, <2>3 DEF HandlerOK
    <3>3. \A j \in Ids : work'[m].sold[j] > 0 =>
            lots'[j].status # "none" /\ message'[j].symbol = message'[m].symbol
      BY <1>1, <1>2, <1>4, <1>5, <2>1, <2>3 DEF HandlerOK
    <3>4. lots[m].status = "none" /\ lots'[m].status = "none"
      BY <1>2, <1>4, <1>5, <2>1, <2>3 DEF HandlerOK
    <3> QED
      BY <1>2, <2>1, <2>3, <3>1, <3>2, <3>3, <3>4 DEF HandlerOK
  <2> QED
    BY <2>2, <2>3
<1>7. Whole(l) => Whole(m)
  <2>1. message[l].symbol = message[m].symbol
    BY <1>1, <1>3, <1>4 DEF LotsInv, HandlerOK
  <2> QED
    BY <2>1 DEF Whole
<1>8. ASSUME NEW k \in Ids, NEW j \in Ids PROVE Apart(k, j)'
  <2>1. \A i \in Ids : work'[i].pc = "update" =>
          work[i].pc = "update" /\ \A x \in Ids : x \in work'[i].todo => x \in work[i].todo
    BY <1>1, <1>2
  <2> QED
    BY <1>2, <2>1 DEF LotsInv, Apart, Whole
<1>9. Whole(m) => SaleOK(m)
  BY DEF LotsInv
<1>10. Whole(m) => lots[l].status = "open" /\ lots[l].shares = work[m].left[l] + work[m].sold[l]
  BY <1>1, <1>2, <1>9 DEF SaleOK
<1>11. ASSUME NEW k \in Ids \ {m}, Whole(k)' PROVE SaleOK(k)'
  <2>1. SaleOK(k) /\ Apart(k, m) /\ Whole(k) /\ work'[k] = work[k]
    BY <1>1, <1>2, <1>11, WholeBefore DEF LotsInv
  <2>2. work[k].pc = "update" => l \notin work[k].todo
    BY <1>1, <1>2, <1>11, <2>1 DEF Apart
  <2>3. work'[k].pc = "update" => \A j \in Ids : j \in work[k].todo => lots'[j] = lots[j]
    BY <1>1, <2>1, <2>2
  <2> QED
    BY <1>2, <2>1, <2>3, SaleSame
<1>12. ASSUME Whole(m)' PROVE SaleOK(m)'
  <2>0. Whole(m)
    BY <1>2, <1>12, WholeBefore
  <2>1. SoldBy(m)' = SoldBy(m)
    BY <1>2 DEF SoldBy
  <2>2. SumFunctionOnSet(SoldBy(m)', Ids) <= message'[m].amount
    BY <1>2, <2>0, <1>9, <2>1 DEF SaleOK
  <2>3. ~(work'[m].pc \in {"new", "lots"})
    BY <1>4
  <2>4. SumFunctionOnSet(work'[m].sold, Ids) <= message'[m].amount
    BY <1>1, <1>2, <1>4, <2>0, <1>9 DEF SaleOK
  <2>5. ASSUME NEW k \in Ids
        PROVE  disposed'[<<m, k>>] =
                 IF work'[m].pc = "update" \/ k \in work'[m].todo THEN 0
                 ELSE work'[m].sold[k]
    <3>1. disposed'[<<m, k>>] = 0
      BY <1>2, <1>4, <2>0, <1>9 DEF SaleOK
    <3>2. work'[m].pc # "update" /\ k \notin work'[m].todo => work'[m].sold[k] = 0
      BY <1>1, <1>3
    <3> QED
      BY <3>1, <3>2
  <2>6. ASSUME work'[m].pc = "update", NEW k \in Ids, k \in work'[m].todo
        PROVE  /\ lots'[k].status = "open"
               /\ lots'[k].shares = work'[m].left[k] + work'[m].sold[k]
    <3>1. k \in work[m].todo /\ k # l
      BY <1>1, <2>6
    <3> QED
      BY <1>1, <1>2, <2>0, <1>9, <3>1 DEF SaleOK
  <2> QED
    BY <2>2, <2>3, <2>4, <2>5, <2>6 DEF SaleOK
<1>13. ASSUME Whole(l)' PROVE LotOK(l)'
  <2>0. Whole(m)
    BY <1>2, <1>7, <1>13, WholeBefore
  <2> DEFINE f == Taken(l)
             g == Taken(l)'
  <2>1. ASSUME NEW j \in Ids
        PROVE  /\ f[j] = disposed[<<j, l>>] + PendingOf(work[j], l) /\ f[j] \in Int
               /\ g[j] = disposed[<<j, l>>] + PendingOf(work'[j], l) /\ g[j] \in Int
    <3>1. f[j] = disposed[<<j, l>>] + PendingOf(work[j], l) /\ f[j] \in Int
      BY TakenValue
    <3>2. g[j] = disposed'[<<j, l>>] + PendingOf(work'[j], l) /\ g[j] \in Int
      BY TakenValueNext
    <3> QED
      BY <1>2, <3>1, <3>2
  <2>2. PendingOf(work[m], l) = 0 /\ PendingOf(work'[m], l) = work[m].sold[l]
    BY <1>1, <1>2, <1>3 DEF PendingOf
  <2>3. disposed[<<m, l>>] \in Nat
    BY TakenValue
  <2> HIDE DEF f, g
  <2>4. ASSUME NEW j \in Ids \ {m} PROVE g[j] = f[j]
    <3>1. work'[j] = work[j]
      BY <1>1
    <3> QED
      BY <2>1, <3>1
  <2>5. SumFunctionOnSet(g, Ids) = SumFunctionOnSet(f, Ids) - f[m] + g[m]
    <3>1. \A j \in Ids : f[j] \in Int /\ g[j] \in Int
      BY <2>1
    <3> QED
      BY <2>4, <3>1, LedgerIntakeAssumption, SumChange
  <2>6. SumFunctionOnSet(f, Ids) \in Int
    BY <2>1, LedgerIntakeAssumption, SumType
  <2>7. f[m] = disposed[<<m, l>>] /\ g[m] = disposed[<<m, l>>] + work[m].sold[l]
    BY <1>3, <2>1, <2>2, <2>3
  <2>8. SumFunctionOnSet(g, Ids) = SumFunctionOnSet(f, Ids) + work[m].sold[l]
    BY <1>3, <2>3, <2>5, <2>6, <2>7
  <2>9. OpenShares(l)' = work[m].left[l] /\ OpenShares(l) = work[m].left[l] + work[m].sold[l]
    BY <1>1, <2>0, <1>10 DEF OpenShares
  <2>10. OpenShares(l) + SumFunctionOnSet(f, Ids) = message[l].amount
    <3>1. LotOK(l)
      BY <1>2, <1>13, WholeBefore DEF LotsInv
    <3> QED
      BY <2>0, <1>10, <3>1 DEF LotOK, f
  <2>11. OpenShares(l)' + SumFunctionOnSet(g, Ids) = message'[l].amount
    BY <1>2, <1>3, <2>6, <2>8, <2>9, <2>10
  <2>12. lots'[l].status # "none"
    BY <1>5, <2>0, <1>10
  <2> QED
    BY <2>11, <2>12 DEF LotOK, g
<1>14. ASSUME NEW k \in Ids \ {l}, Whole(k)' PROVE LotOK(k)'
  <2>1. LotOK(k) /\ lots'[k] = lots[k]
    BY <1>1, <1>2, <1>14, WholeBefore DEF LotsInv
  <2>2. PendingOf(work'[m], k) = PendingOf(work[m], k)
    BY <1>1, <1>2, <1>3 DEF PendingOf
  <2>3. \A j \in Ids : PendingOf(work'[j], k) = PendingOf(work[j], k)
    BY <1>1, <2>2
  <2> QED
    BY <1>2, <2>1, <2>3, LotSame
<1> QED
  BY <1>6, <1>8, <1>11, <1>12, <1>13, <1>14 DEF LotsInv

(* What an execution that puts a disposition does.                         *)
LEMMA DispositionEffect ==
  ASSUME IntakeType, NEW m \in Ids, PutDisposition(m)
  PROVE  \E l \in Ids :
           /\ l \in work[m].todo
           /\ \A k \in Ids \ {m} : work'[k] = work[k]
           /\ disposed'[<<m, l>>] = work[m].sold[l]
           /\ \A j, k \in Ids : <<j, k>> # <<m, l>> => disposed'[<<j, k>>] = disposed[<<j, k>>]
           /\ \/ work'[m].pc = "done" /\ work[m].todo = {l}
              \/ /\ work'[m].pc = "dispose" /\ work'[m].sold = work[m].sold
                 /\ \A k \in Ids : k \in work'[m].todo <=> k \in work[m].todo /\ k # l
<1> DEFINE l == Oldest(work[m].todo)
           less == work[m].todo \ {l}
           more == [work[m] EXCEPT !.todo = less]
<1>1. work \in [Ids -> Works] /\ work[m] \in Works /\ disposed \in [Ids \X Ids -> Nat]
      /\ work[m].pc = "dispose" /\ work[m].todo # {}
  BY DEF IntakeType, PutDisposition, Selling
<1>2. work[m].todo \in SUBSET Ids
  BY <1>1 DEF Works
<1>3. l \in work[m].todo /\ l \in Ids
  BY <1>1, <1>2, OldestIn
<1>4. disposed' = [disposed EXCEPT ![<<m, l>>] = work[m].sold[l]]
  BY DEF PutDisposition
<1>5. IF work[m].todo = {l} THEN Finished(m) ELSE work' = [work EXCEPT ![m] = more]
  BY DEF PutDisposition
<1>6. \A k \in Ids : k \in less <=> k \in work[m].todo /\ k # l
  OBVIOUS
<1> HIDE DEF l, less
<1>7. more.pc = "dispose" /\ more.todo = less /\ more.sold = work[m].sold
  BY <1>1 DEF Works
<1> HIDE DEF more
<1>8. /\ \A k \in Ids \ {m} : work'[k] = work[k]
      /\ \/ work'[m].pc = "done" /\ work[m].todo = {l}
         \/ work'[m] = more
  BY <1>1, <1>5, GotoType DEF Waiting
<1>9. /\ disposed'[<<m, l>>] = work[m].sold[l]
      /\ \A j, k \in Ids : <<j, k>> # <<m, l>> => disposed'[<<j, k>>] = disposed[<<j, k>>]
  <2>1. <<m, l>> \in Ids \X Ids /\ \A j, k \in Ids : <<j, k>> \in Ids \X Ids
    BY <1>3
  <2> DEFINE p == <<m, l>>
             d == work[m].sold[l]
  <2>2. /\ disposed'[p] = d
        /\ \A r \in Ids \X Ids : r # p => disposed'[r] = disposed[r]
    <3>1. disposed' = [disposed EXCEPT ![p] = d]
      BY <1>4
    <3>2. p \in Ids \X Ids
      BY <2>1
    <3> HIDE DEF p, d
    <3> QED
      BY <1>1, <3>1, <3>2
  <2> QED
    BY <2>1, <2>2
<1>10. \/ work'[m].pc = "done" /\ work[m].todo = {l}
       \/ /\ work'[m].pc = "dispose" /\ work'[m].sold = work[m].sold
          /\ \A k \in Ids : k \in work'[m].todo <=> k \in work[m].todo /\ k # l
  BY <1>6, <1>7, <1>8
<1> QED
  BY <1>3, <1>8, <1>9, <1>10

(* Putting the disposition makes it say so.                                *)
LEMMA DispositionLots ==
  ASSUME IntakeType, IntakeType', LotsInv, NEW m \in Ids, PutDisposition(m)
  PROVE  LotsInv'
<1>1. PICK l \in Ids :
           /\ l \in work[m].todo
           /\ \A k \in Ids \ {m} : work'[k] = work[k]
           /\ disposed'[<<m, l>>] = work[m].sold[l]
           /\ \A j, k \in Ids : <<j, k>> # <<m, l>> => disposed'[<<j, k>>] = disposed[<<j, k>>]
           /\ \/ work'[m].pc = "done" /\ work[m].todo = {l}
              \/ /\ work'[m].pc = "dispose" /\ work'[m].sold = work[m].sold
                 /\ \A k \in Ids : k \in work'[m].todo <=> k \in work[m].todo /\ k # l
  BY DispositionEffect
<1>2. UNCHANGED <<message, recorded, lots, torn>> /\ work[m].pc = "dispose"
  BY DEF PutDisposition
<1>3. /\ \A k \in Ids : work[m].sold[k] \in Nat
      /\ \A k \in Ids : k \in work[m].todo => work[m].sold[k] > 0
  <2>1. work[m] \in Works /\ \A k \in work[m].todo : work[m].sold[k] > 0
    BY <1>2 DEF IntakeType, Selling
  <2> QED
    BY <2>1 DEF Works
<1>4. Selling(m) /\ work'[m].pc \in {"dispose", "done"}
  BY <1>1, <1>2 DEF Selling
<1>5. ASSUME NEW k \in Ids PROVE HandlerOK(k)'
  <2>1. HandlerOK(k) /\ HandlerOK(m)
    BY DEF LotsInv
  <2>2. lots[l].status # "none" /\ lots[m].status = "none" /\ message[m].kind = "SELL"
    BY <1>1, <1>3, <1>4, <2>1 DEF HandlerOK
  <2>3. /\ lots'[k].status = "none" => \A j \in Ids : disposed'[<<j, k>>] = 0
        /\ message'[k].kind = "none" => \A j \in Ids : disposed'[<<k, j>>] = 0
    BY <1>1, <1>2, <2>1, <2>2 DEF HandlerOK
  <2>4. CASE k # m
    <3>1. work'[k] = work[k]
      BY <1>1, <2>4
    <3> QED
      BY <1>2, <2>1, <2>3, <3>1 DEF HandlerOK, Selling
  <2>5. CASE k = m
    <3>1. ASSUME Selling(m)', NEW j \in Ids
          PROVE  /\ j \in work'[m].todo => work'[m].sold[j] > 0
                 /\ work'[m].sold[j] > 0 =>
                      lots'[j].status # "none" /\ message'[j].symbol = message'[m].symbol
      <4>1. /\ work'[m].sold = work[m].sold
            /\ j \in work'[m].todo => j \in work[m].todo
        BY <1>1, <3>1 DEF Selling
      <4>2. work[m].sold[j] > 0 =>
              lots[j].status # "none" /\ message[j].symbol = message[m].symbol
        BY <1>4, <2>1 DEF HandlerOK
      <4> QED
        BY <1>2, <1>3, <4>1, <4>2
    <3> QED
      BY <1>2, <2>2, <2>3, <2>5, <3>1 DEF HandlerOK
  <2> QED
    BY <2>4, <2>5
<1>6. ASSUME NEW k \in Ids, NEW j \in Ids PROVE Apart(k, j)'
  <2>1. \A i \in Ids : work'[i].pc = "update" => work'[i] = work[i]
    BY <1>1, <1>4
  <2> QED
    BY <1>2, <2>1 DEF LotsInv, Apart, Whole
<1>7. Whole(l) => Whole(m)
  <2>1. message[l].symbol = message[m].symbol
    BY <1>1, <1>3, <1>4 DEF LotsInv, HandlerOK
  <2> QED
    BY <2>1 DEF Whole
<1>8. ASSUME NEW k \in Ids \ {m}, Whole(k)' PROVE SaleOK(k)'
  <2>1. SaleOK(k) /\ work'[k] = work[k]
    BY <1>1, <1>2, <1>8, WholeBefore DEF LotsInv
  <2>2. \A j \in Ids : disposed'[<<k, j>>] = disposed[<<k, j>>]
    BY <1>1
  <2> QED
    BY <1>2, <2>1, <2>2, SaleSame
<1>9. Whole(m) => SaleOK(m)
  BY DEF LotsInv
<1>10. ASSUME Whole(m), NEW j \in Ids
      PROVE  /\ disposed'[<<m, j>>] = IF j = l THEN work[m].sold[l] ELSE disposed[<<m, j>>]
             /\ disposed[<<m, j>>] = IF j \in work[m].todo THEN 0 ELSE work[m].sold[j]
  <2>1. j # l => disposed'[<<m, j>>] = disposed[<<m, j>>]
    BY <1>1
  <2> QED
    BY <1>1, <1>2, <1>4, <1>10, <1>9, <2>1 DEF SaleOK
<1>11. ASSUME Whole(m)' PROVE SaleOK(m)'
  <2>0. Whole(m)
    BY <1>2, <1>11, WholeBefore
  <2>1. ASSUME Selling(m)', NEW j \in Ids
        PROVE  disposed'[<<m, j>>] =
                 IF work'[m].pc = "update" \/ j \in work'[m].todo THEN 0 ELSE work'[m].sold[j]
    BY <1>1, <2>0, <1>10, <2>1 DEF Selling
  <2>2. Selling(m)' => SumFunctionOnSet(work'[m].sold, Ids) <= message'[m].amount
    BY <1>1, <1>2, <1>4, <2>0, <1>9 DEF SaleOK, Selling
  <2>3. SumFunctionOnSet(SoldBy(m)', Ids) <= message'[m].amount
    <3> DEFINE f == SoldBy(m)'
               g == work[m].sold
    <3>1. ASSUME NEW j \in Ids PROVE f[j] \in Int /\ g[j] \in Int /\ f[j] <= g[j]
      <4>1. f[j] = disposed'[<<m, j>>]
        BY DEF SoldBy
      <4> QED
        BY <1>3, <2>0, <1>10, <4>1
    <3>2. SumFunctionOnSet(g, Ids) <= message'[m].amount
      BY <1>2, <1>4, <2>0, <1>9 DEF SaleOK
    <3>3. message'[m].amount \in Int
      BY DEF IntakeType, Message
    <3> HIDE DEF f, g
    <3>4. SumFunctionOnSet(f, Ids) <= SumFunctionOnSet(g, Ids)
      BY <3>1, LedgerIntakeAssumption, SumMonotone
    <3>5. SumFunctionOnSet(f, Ids) \in Int /\ SumFunctionOnSet(g, Ids) \in Int
      <4>1. \A j \in Ids : f[j] \in Int
        BY <3>1
      <4>2. \A j \in Ids : g[j] \in Int
        BY <3>1
      <4>3. SumFunctionOnSet(f, Ids) \in Int
        BY <4>1, LedgerIntakeAssumption, SumType
      <4>4. SumFunctionOnSet(g, Ids) \in Int
        BY <4>2, LedgerIntakeAssumption, SumType
      <4> QED
        BY <4>3, <4>4
    <3> QED
      BY <3>2, <3>3, <3>4, <3>5 DEF f
  <2>4. work'[m].pc \notin {"new", "lots", "update"}
    BY <1>4
  <2> QED
    BY <2>1, <2>2, <2>3, <2>4 DEF SaleOK
<1>12. ASSUME NEW k \in Ids, Whole(k), NEW j \in Ids
       PROVE  disposed'[<<j, k>>] + PendingOf(work'[j], k)
                = disposed[<<j, k>>] + PendingOf(work[j], k)
  <2>1. CASE j # m
    BY <1>1, <2>1
  <2>2. CASE j = m /\ k = l
    <3>1. PendingOf(work[m], l) = work[m].sold[l] /\ PendingOf(work'[m], l) = 0
      BY <1>1, <1>2 DEF PendingOf
    <3>2. disposed'[<<m, l>>] = work[m].sold[l] /\ disposed[<<m, l>>] = 0
      BY <1>1, <1>7, <1>10, <1>12, <2>2
    <3> QED
      BY <1>3, <2>2, <3>1, <3>2
  <2>3. CASE j = m /\ k # l
    <3>1. PendingOf(work'[m], k) = PendingOf(work[m], k)
      BY <1>1, <1>2, <2>3 DEF PendingOf
    <3>2. disposed'[<<m, k>>] = disposed[<<m, k>>]
      BY <1>1, <2>3
    <3> QED
      BY <2>3, <3>1, <3>2
  <2> QED
    BY <2>1, <2>2, <2>3
<1>13. ASSUME NEW k \in Ids, Whole(k)' PROVE LotOK(k)'
  <2>1. LotOK(k) /\ Whole(k)
    BY <1>2, <1>13, WholeBefore DEF LotsInv
  <2>2. \A j \in Ids : disposed'[<<j, k>>] + PendingOf(work'[j], k)
                         = disposed[<<j, k>>] + PendingOf(work[j], k)
    BY <1>12, <2>1
  <2> QED
    BY <1>2, <2>1, <2>2, LotSame
<1> QED
  BY <1>5, <1>6, <1>8, <1>11, <1>13 DEF LotsInv

(* A sale that is handled again has written nothing, or its symbol is      *)
(* torn.                                                                   *)
LEMMA RedeliverLots ==
  ASSUME IntakeType, IntakeType', LotsInv, NEW m \in Ids, RedeliverEvent(m)
  PROVE  LotsInv'
<1>1. /\ work'[m].pc = "new" /\ \A k \in Ids \ {m} : work'[k] = work[k]
      /\ UNCHANGED <<message, lots, disposed>>
      /\ torn \subseteq torn' /\ (Begun(m) => message[m].symbol \in torn')
  BY TearType DEF IntakeType, RedeliverEvent, Waiting
<1>2. ASSUME NEW k \in Ids PROVE HandlerOK(k)'
  <2>1. HandlerOK(k)
    BY DEF LotsInv
  <2>2. CASE k = m
    <3>1. ~Selling(m)'
      BY <1>1 DEF Selling
    <3> QED
      BY <1>1, <2>1, <2>2, <3>1 DEF HandlerOK
  <2>3. CASE k # m
    <3>1. work'[k] = work[k]
      BY <1>1, <2>3
    <3> QED
      BY <1>1, <2>1, <3>1 DEF HandlerOK, Selling
  <2> QED
    BY <2>2, <2>3
<1>3. \A k, j \in Ids : Apart(k, j)'
  BY <1>1 DEF LotsInv, Apart, Whole
<1>4. ASSUME NEW k \in Ids \ {m}, Whole(k)' PROVE SaleOK(k)'
  <2>1. SaleOK(k) /\ work'[k] = work[k]
    BY <1>1, <1>4, WholeBefore DEF LotsInv
  <2> QED
    BY <1>1, <2>1, SaleSame
<1>5. ASSUME Whole(m)' PROVE SaleOK(m)'
  <2>1. SaleOK(m) /\ ~Begun(m)
    BY <1>1, <1>5, WholeBefore DEF LotsInv, Whole
  <2>2. \A l \in Ids : disposed'[<<m, l>>] = 0
    <3>1. \A l \in Ids : disposed[<<m, l>>] \in Nat /\ ~(disposed[<<m, l>>] > 0)
      BY <2>1, TakenValue DEF Begun
    <3> QED
      BY <1>1, <3>1
  <2>3. SoldBy(m)' = SoldBy(m) /\ ~Selling(m)'
    BY <1>1 DEF SoldBy, Selling
  <2> QED
    BY <1>1, <2>1, <2>2, <2>3 DEF SaleOK
<1>6. ASSUME NEW l \in Ids, Whole(l)' PROVE LotOK(l)'
  <2>1. LotOK(l)
    BY <1>1, <1>6, WholeBefore DEF LotsInv
  <2>2. PendingOf(work'[m], l) = 0
    BY <1>1 DEF PendingOf
  <2>3. PendingOf(work[m], l) = 0
    <3>1. SUFFICES ASSUME Selling(m), work[m].sold[l] > 0,
                          work[m].pc = "dispose" \/ l \notin work[m].todo
                   PROVE  FALSE
      <4>1. PendingOf(work[m], l) \in Nat
        BY TakenValue
      <4> QED
        BY <4>1 DEF PendingOf, Selling
    <3>2. message[l].symbol = message[m].symbol
      BY <3>1 DEF LotsInv, HandlerOK
    <3>3. Begun(m)
      BY <3>1 DEF Begun
    <3> QED
      BY <1>1, <1>6, <3>2, <3>3 DEF Whole
  <2>4. \A k \in Ids : PendingOf(work'[k], l) = PendingOf(work[k], l)
    BY <1>1, <2>2, <2>3
  <2> QED
    BY <1>1, <2>1, <2>4, LotSame
<1> QED
  BY <1>2, <1>3, <1>4, <1>5, <1>6 DEF LotsInv

(* A fill of an order is an event that nothing has been done for.          *)
LEMMA ExecuteLots ==
  ASSUME TypeInv, LotsInv, NEW t \in packet.trades, Execute(t)
  PROVE  LotsInv'
<1> DEFINE o == OrderOf[t.symbol]
<1>1. UNCHANGED <<work, recorded, booked, lots, disposed, torn>>
      /\ message' = [message EXCEPT ![o] = Fill(t)]
      /\ message[o] = NoMessage
  BY DEF Execute
<1>2. t \in Trades /\ IntakeType
  BY DEF TypeInv, AdviceType, Packets
<1>3. Fill(t) \in Message /\ o \in Ids
  BY <1>2, FillType, PortfolioAssumption DEF Trades
<1> HIDE DEF o
<1>4. /\ \A k \in Ids \ {o} : message'[k] = message[k]
      /\ message'[o].amount \in Nat
      /\ message[o].kind = "none" /\ message[o].amount = 0
  BY <1>1, <1>2, <1>3 DEF IntakeType, Message, NoMessage
<1>5. /\ work[o].pc = "new" /\ lots[o].status = "none" /\ ~Selling(o)
      /\ \A l \in Ids : disposed[<<o, l>>] = 0
  BY <1>3, <1>4 DEF LotsInv, HandlerOK, Selling
<1>6. \A k \in Ids : Selling(k)' <=> Selling(k)
  BY <1>1 DEF Selling
<1>7. ASSUME NEW k \in Ids PROVE HandlerOK(k)'
  <2>1. HandlerOK(k) /\ HandlerOK(o)
    BY <1>3 DEF LotsInv
  <2>2. CASE k = o
    BY <1>1, <1>5, <1>6, <2>1, <2>2 DEF HandlerOK
  <2>3. CASE k # o
    <3>1. Selling(k) => \A l \in Ids : work[k].sold[l] > 0 => l # o
      BY <1>5, <2>1 DEF HandlerOK
    <3> QED
      BY <1>1, <1>4, <1>6, <2>1, <2>3, <3>1 DEF HandlerOK
  <2> QED
    BY <2>2, <2>3
<1>8. \A k \in Ids \ {o} : Whole(k)' <=> Whole(k)
  BY <1>1, <1>4 DEF Whole
<1>9. ASSUME NEW k \in Ids, NEW j \in Ids PROVE Apart(k, j)'
  BY <1>1, <1>5, <1>8 DEF LotsInv, Apart
<1>10. ASSUME NEW k \in Ids, Whole(k)' PROVE SaleOK(k)'
  <2>1. SoldBy(k)' = SoldBy(k)
    BY <1>1 DEF SoldBy
  <2>2. CASE k = o
    <3>1. SumFunctionOnSet(SoldBy(o), Ids) = 0
      BY <1>3, <1>5, SoldNothing
    <3>2. SumFunctionOnSet(SoldBy(o)', Ids) <= message'[o].amount
      BY <1>4, <2>1, <2>2, <3>1
    <3> QED
      BY <1>1, <1>5, <1>6, <2>2, <3>2 DEF SaleOK
  <2>3. CASE k # o
    <3>1. SaleOK(k)
      BY <1>8, <1>10, <2>3 DEF LotsInv
    <3> QED
      BY <1>1, <1>4, <1>6, <2>1, <2>3, <3>1 DEF SaleOK
  <2> QED
    BY <2>2, <2>3
<1>11. ASSUME NEW k \in Ids, Whole(k)' PROVE LotOK(k)'
  <2>1. Taken(k)' = Taken(k) /\ OpenShares(k)' = OpenShares(k)
    BY <1>1 DEF Taken, OpenShares
  <2>2. CASE k = o
    BY <1>1, <1>5, <2>2 DEF LotOK
  <2>3. CASE k # o
    <3>1. LotOK(k)
      BY <1>8, <1>11, <2>3 DEF LotsInv
    <3> QED
      BY <1>1, <1>4, <2>1, <2>3, <3>1 DEF LotOK
  <2> QED
    BY <2>2, <2>3
<1> QED
  BY <1>7, <1>9, <1>10, <1>11 DEF LotsInv

(* A step that changes no lot.                                             *)
LEMMA LotsUnchanged ==
  ASSUME LotsInv, UNCHANGED <<message, work, lots, disposed, torn>>
  PROVE  LotsInv'
<1>1. \A m \in Ids : (Selling(m)' <=> Selling(m)) /\ SoldBy(m)' = SoldBy(m)
  BY DEF Selling, SoldBy
<1>2. \A l \in Ids : Taken(l)' = Taken(l) /\ OpenShares(l)' = OpenShares(l)
  BY DEF Taken, OpenShares
<1>3. ASSUME NEW m \in Ids PROVE HandlerOK(m)' <=> HandlerOK(m)
  BY <1>1 DEF HandlerOK
<1>4. ASSUME NEW m \in Ids PROVE SaleOK(m)' <=> SaleOK(m)
  BY <1>1 DEF SaleOK
<1>5. ASSUME NEW l \in Ids PROVE LotOK(l)' <=> LotOK(l)
  BY <1>2 DEF LotOK
<1>6. ASSUME NEW m \in Ids, NEW k \in Ids PROVE Apart(m, k)' <=> Apart(m, k)
  BY DEF Apart, Whole
<1>7. ASSUME NEW m \in Ids PROVE Whole(m)' <=> Whole(m)
  BY DEF Whole
<1> QED
  BY <1>3, <1>4, <1>5, <1>6, <1>7 DEF LotsInv

(* Every step keeps the invariant of the lots.                             *)
LEMMA LotsStep == TypeInv /\ TypeInv' /\ LotsInv /\ [Next]_vars => LotsInv'
<1> SUFFICES ASSUME TypeInv, TypeInv', LotsInv, [Next]_vars PROVE LotsInv'
  OBVIOUS
<1>1. IntakeType /\ IntakeType'
  BY DEF TypeInv
<1>2. CASE HandleStep
  BY <1>1, <1>2, RecordLots, OpenLotLots, ReadLotsLots, UpdateLots, DispositionLots
     DEF HandleStep, HandleEvent
<1>3. CASE RedeliverStep
  BY <1>1, <1>3, RedeliverLots DEF RedeliverStep
<1>4. CASE ViewsStep
  <2>1. UNCHANGED <<message, work, lots, disposed, torn>>
    BY <1>4 DEF ViewsStep, ViewsNext, Reduce, Project, intakeVars
  <2> QED
    BY <2>1, LotsUnchanged
<1>5. CASE Assemble \/ Check \/ Shadow \/ UNCHANGED vars
  <2>1. UNCHANGED <<message, work, lots, disposed, torn>>
    BY <1>5 DEF Assemble, Check, Shadow, intakeVars, vars
  <2> QED
    BY <2>1, LotsUnchanged
<1>6. CASE \E t \in packet.trades : Execute(t)
  BY <1>6, ExecuteLots
<1> QED
  BY <1>2, <1>3, <1>4, <1>5, <1>6 DEF Next

(* When no sale of a symbol is under way, nothing of it is pending, and    *)
(* its lots add up, unless it is torn.                                     *)
LEMMA LotsInvLotsAddUp == TypeInv /\ LotsInv => LotsAddUp
<1> SUFFICES ASSUME TypeInv, LotsInv, NEW s \in Symbols \ torn,
                    \A m \in Ids : Selling(m) => message[m].symbol # s
             PROVE  /\ \A l \in LotsOf(s) :
                         OpenShares(l) + SumFunction([m \in Ids |-> disposed[<<m, l>>]])
                           = message[l].amount
                    /\ \A m \in Ids : message[m].symbol = s =>
                         SumFunction([l \in Ids |-> disposed[<<m, l>>]]) <= message[m].amount
  BY DEF LotsAddUp
<1>1. \A f : SumFunction(f) = SumFunctionOnSet(f, DOMAIN f)
  BY DEF SumFunction, SumFunctionOnSet, FoldFunction
<1>2. ASSUME NEW l \in LotsOf(s)
      PROVE  OpenShares(l) + SumFunction([m \in Ids |-> disposed[<<m, l>>]])
               = message[l].amount
  <2> DEFINE f == [m \in Ids |-> disposed[<<m, l>>]]
             g == Taken(l)
  <2>1. l \in Ids /\ lots[l].status # "none" /\ message[l].symbol = s
    BY DEF LotsOf
  <2>2. LotOK(l) /\ IntakeType
    BY <2>1 DEF LotsInv, TypeInv, Whole
  <2>3. OpenShares(l) + SumFunctionOnSet(g, Ids) = message[l].amount
    BY <2>1, <2>2 DEF LotOK
  <2>4. ASSUME NEW m \in Ids PROVE g[m] \in Int /\ f[m] = g[m]
    <3>1. /\ PendingOf(work[m], l) \in Nat /\ disposed[<<m, l>>] \in Nat
          /\ g[m] = disposed[<<m, l>>] + PendingOf(work[m], l)
      BY <2>1, <2>2, TakenValue
    <3>2. PendingOf(work[m], l) = 0
      <4>1. ~(Selling(m) /\ work[m].sold[l] > 0)
        BY <2>1 DEF LotsInv, HandlerOK
      <4> QED
        BY <3>1, <4>1 DEF PendingOf, Selling
    <3> QED
      BY <3>1, <3>2
  <2>5. DOMAIN f = Ids
    OBVIOUS
  <2> HIDE DEF f, g
  <2>6. SumFunctionOnSet(f, Ids) = SumFunctionOnSet(g, Ids)
    BY <2>4, LedgerIntakeAssumption, SumSame
  <2>7. SumFunction(f) = SumFunctionOnSet(g, Ids)
    BY <1>1, <2>5, <2>6
  <2> QED
    BY <2>3, <2>7 DEF f
<1>3. ASSUME NEW m \in Ids, message[m].symbol = s
      PROVE  SumFunction([l \in Ids |-> disposed[<<m, l>>]]) <= message[m].amount
  <2>1. SumFunctionOnSet(SoldBy(m), Ids) <= message[m].amount
    BY <1>3 DEF LotsInv, SaleOK, Whole
  <2>2. DOMAIN SoldBy(m) = Ids /\ SoldBy(m) = [l \in Ids |-> disposed[<<m, l>>]]
    BY DEF SoldBy
  <2> QED
    BY <1>1, <2>1, <2>2
<1> QED
  BY <1>2, <1>3

(* TaxLotManager keeps the lots of a symbol however purchases and sales of *)
(* it are ordered, interleaved and handled again and however old the rows  *)
(* that a sale reads: what a lot holds and what was sold of it make up     *)
(* what was bought, and no sale disposes of more than it sold, until one   *)
(* of the writes that nothing guards tears the symbol.  Another symbol is  *)
(* not affected.                                                           *)
THEOREM TaxLotsAddUp == Spec => []LotsAddUp
<1>1. Init => TypeInv /\ LotsInv
  BY InitType, InitLots
<1>2. TypeInv /\ LotsInv /\ [Next]_vars => (TypeInv /\ LotsInv)'
  BY TypeStep, LotsStep
<1>3. TypeInv /\ LotsInv => LotsAddUp
  BY LotsInvLotsAddUp
<1> QED
  BY <1>1, <1>2, <1>3, PTL DEF Spec

-----------------------------------------------------------------------------
(* The account with everything that is recorded.                           *)

(* It is the fold of what is booked; the reducer starts from the same      *)
(* where the snapshot is the same.                                         *)
LEMMA AccountNext ==
  ASSUME NEW s
  PROVE  /\ Account(s) = Fold(Base(s), booked[s])
         /\ Account(s)' = Fold(Base(s)', booked'[s])
         /\ saved'[s] = saved[s] => Base(s)' = Base(s)
BY DEF Account, Fold, Base

(* A recorded entry is applied to it.                                      *)
LEMMA AccountAppend ==
  ASSUME IntakeType, ViewsType, NEW m \in Ids, RecordEntry(m), UNCHANGED viewVars
  PROVE  Account("actual")' = IF m \in recorded THEN Account("actual")
                              ELSE ApplyEntry(Account("actual"), message[m])
<1> DEFINE V == Solvent("actual")
           b == Base("actual")
           q == booked["actual"]
           e == message[m]
<1>1. Closed(V) /\ b \in V
  BY SolventClosed, BaseType DEF Streams
<1>2. q \in Seq(Message) /\ e \in Message /\ booked \in [Streams -> Seq(Message)]
  BY DEF IntakeType, Streams
<1>3. Base("actual")' = b
  BY AccountNext DEF viewVars
<1>4. booked' = IF m \in recorded THEN booked
                ELSE [booked EXCEPT !["actual"] = Append(@, message[m])]
  BY DEF RecordEntry
<1>5. booked'["actual"] = IF m \in recorded THEN q ELSE Append(q, e)
  BY <1>2, <1>4 DEF Streams
<1>6. Account("actual") = Fold(b, q) /\ Account("actual")' = Fold(b, booked'["actual"])
  BY <1>3, AccountNext
<1> HIDE DEF V, b, q, e
<1>7. Fold(b, Append(q, e)) = ApplyEntry(Fold(b, q), e)
  BY <1>1, <1>2, FoldAppend
<1> QED
  BY <1>5, <1>6, <1>7 DEF e

(* The first k entries are the first k - 1 and one more.                   *)
LEMMA SubSeqAppend ==
  ASSUME NEW q \in Seq(Message), NEW k \in 1 .. Len(q)
  PROVE  /\ SubSeq(q, 1, k) = Append(SubSeq(q, 1, k - 1), q[k])
         /\ SubSeq(q, 1, k - 1) \in Seq(Message) /\ q[k] \in Message
<1>1. SubSeq(q, 1, k - 1) \in Seq(Message) /\ q[k] \in Message /\ SubSeq(q, 1, k) \in Seq(Message)
  OBVIOUS
<1>2. Len(SubSeq(q, 1, k)) = k /\ Len(SubSeq(q, 1, k - 1)) = k - 1
  OBVIOUS
<1>3. \A i \in 1 .. k : SubSeq(q, 1, k)[i] = q[i]
  OBVIOUS
<1>4. \A i \in 1 .. k : Append(SubSeq(q, 1, k - 1), q[k])[i] = q[i]
  OBVIOUS
<1>5. /\ Append(SubSeq(q, 1, k - 1), q[k]) \in Seq(Message)
      /\ Len(Append(SubSeq(q, 1, k - 1), q[k])) = k
  BY <1>1, <1>2
<1> QED
  BY <1>1, <1>2, <1>3, <1>4, <1>5

(* A run of the reducer leaves it as it is.                                *)
LEMMA AccountReduce ==
  ASSUME IntakeType, ViewsType, NEW s \in Streams, Reduce(s), NEW t \in Streams
  PROVE  Account(t)' = Account(t)
<1>1. PICK k \in 1 .. Len(booked[s]) :
        LET entries == SubSeq(booked[s], 1, k)
            current == FoldLeft(ApplyEntry, Base(s), entries)
        IN  /\ saved' = [saved EXCEPT ![s] = current]
            /\ booked' = [booked EXCEPT ![s] = SubSeq(@, k + 1, Len(@))]
  BY DEF Reduce
<1> DEFINE V == Solvent(s)
           b == Base(s)
           q == booked[s]
           current == Fold(b, SubSeq(q, 1, k))
           rest == SubSeq(q, k + 1, Len(q))
<1>2. Closed(V) /\ b \in V
  BY SolventClosed, BaseType
<1>3. booked \in [Streams -> Seq(Message)] /\ saved \in [Streams -> Snapshots]
      /\ q \in Seq(Message) /\ k \in 1 .. Len(q)
  BY <1>1 DEF IntakeType, ViewsType
<1>4. saved' = [saved EXCEPT ![s] = current] /\ booked' = [booked EXCEPT ![s] = rest]
  BY <1>1 DEF Fold
<1>5. CASE t # s
  <2>1. saved'[t] = saved[t] /\ booked'[t] = booked[t]
    BY <1>3, <1>4, <1>5
  <2> QED
    BY <2>1, AccountNext
<1>6. CASE t = s
  <2>1. saved'[s] = current /\ booked'[s] = rest
    BY <1>3, <1>4
  <2>2. current.last # 0
    <3> DEFINE p == SubSeq(q, 1, k - 1)
               e == q[k]
    <3> HIDE DEF V, b, q
    <3>1. p \in Seq(Message) /\ e \in Message /\ SubSeq(q, 1, k) = Append(p, e)
      BY <1>3, SubSeqAppend
    <3> HIDE DEF p, e
    <3>2. Fold(b, p) \in V /\ Fold(b, Append(p, e)) = ApplyEntry(Fold(b, p), e)
      BY <1>2, <3>1, FoldType, FoldAppend
    <3>3. Fold(b, p) \in Snapshots
      BY <3>2 DEF V, Solvent
    <3>4. ApplyEntry(Fold(b, p), e).last = Fold(b, p).last + 1 /\ Fold(b, p).last \in Nat
      BY <3>1, <3>3, EntryEffect DEF Snapshots
    <3>5. current = ApplyEntry(Fold(b, p), e)
      BY <3>1, <3>2
    <3>6. current.last = Fold(b, p).last + 1
      BY <3>4, <3>5
    <3> HIDE DEF current
    <3> QED
      BY <3>4, <3>6
  <2> HIDE DEF current
  <2>3. Base(s)' = current
    BY <2>1, <2>2 DEF Base
  <2>4. Fold(current, rest) = Fold(b, q)
    <3> HIDE DEF V, b, q
    <3>1. k \in 0 .. Len(q)
      BY <1>3
    <3> QED
      BY <1>2, <1>3, <3>1, FoldSplit DEF current
  <2> QED
    BY <1>6, <2>1, <2>3, <2>4, AccountNext
<1> QED
  BY <1>5, <1>6
(* The sum of a function is its sum over its domain.                       *)
LEMMA WholeSum == ASSUME NEW f PROVE SumFunction(f) = SumFunctionOnSet(f, DOMAIN f)
BY DEF SumFunction, SumFunctionOnSet, FoldFunction

(* The deposits that are not in the ledger yet, and their amounts.         *)
Deposits(rec, msg) == {n \in Ids \ rec : msg[n].kind = "DEPOSIT"}

(* The amount of every event.                                              *)
Amounts(msg) == [m \in Ids |-> msg[m].amount]

(* Unrecorded, of the recorded events and the published ones.              *)
UnrecordedOf(rec, msg) == SumFunctionOnSet(Amounts(msg), Deposits(rec, msg))

(* It is the sum that Unrecorded says.                                     *)
LEMMA UnrecordedSum ==
  ASSUME NEW rec, NEW msg \in [Ids -> Message]
  PROVE  /\ SumFunction([m \in {n \in Ids \ rec : msg[n].kind = "DEPOSIT"} |-> msg[m].amount])
              = UnrecordedOf(rec, msg)
         /\ UnrecordedOf(rec, msg) \in Int
<1> DEFINE D == Deposits(rec, msg)
           f == [m \in D |-> msg[m].amount]
           g == Amounts(msg)
<1>1. D \subseteq Ids /\ DOMAIN f = D
  BY DEF Deposits
<1>2. IsFiniteSet(D)
  <2> HIDE DEF D
  <2> QED
    BY <1>1, LedgerIntakeAssumption, FS_Subset
<1>3. \A m \in D : f[m] \in Int /\ g[m] = f[m] /\ g[m] \in Int
  BY <1>1 DEF Amounts, Message
<1>4. f = [m \in {n \in Ids \ rec : msg[n].kind = "DEPOSIT"} |-> msg[m].amount]
  BY DEF Deposits
<1> HIDE DEF f, g, D
<1>5. SumFunctionOnSet(g, D) = SumFunctionOnSet(f, D)
  BY <1>2, <1>3, SumSame
<1>6. SumFunctionOnSet(g, D) \in Int
  BY <1>2, <1>3, SumType
<1>7. SumFunction(f) = SumFunctionOnSet(f, D)
  BY <1>1, WholeSum
<1> QED
  BY <1>4, <1>5, <1>6, <1>7 DEF UnrecordedOf, D, g

(* Unrecorded is its value, in this state and in the next.                 *)
LEMMA UnrecordedIs ==
  /\ message \in [Ids -> Message] =>
       Unrecorded = UnrecordedOf(recorded, message) /\ Unrecorded \in Int
  /\ message' \in [Ids -> Message] =>
       Unrecorded' = UnrecordedOf(recorded', message') /\ Unrecorded' \in Int
<1>1. ASSUME message \in [Ids -> Message]
      PROVE  Unrecorded = UnrecordedOf(recorded, message) /\ Unrecorded \in Int
  <2> DEFINE m1 == message
             r1 == recorded
  <2>1. Unrecorded = SumFunction([m \in {n \in Ids \ r1 : m1[n].kind = "DEPOSIT"}
                                     |-> m1[m].amount])
    BY DEF Unrecorded
  <2>2. m1 \in [Ids -> Message]
    BY <1>1
  <2> HIDE DEF m1, r1
  <2>3. Unrecorded = UnrecordedOf(r1, m1) /\ UnrecordedOf(r1, m1) \in Int
    BY <2>1, <2>2, UnrecordedSum
  <2> QED
    BY <2>3 DEF m1, r1
<1>2. ASSUME message' \in [Ids -> Message]
      PROVE  Unrecorded' = UnrecordedOf(recorded', message') /\ Unrecorded' \in Int
  <2> DEFINE m1 == message'
             r1 == recorded'
  <2>1. Unrecorded' = SumFunction([m \in {n \in Ids \ r1 : m1[n].kind = "DEPOSIT"}
                                     |-> m1[m].amount])
    BY DEF Unrecorded
  <2>2. m1 \in [Ids -> Message]
    BY <1>2
  <2> HIDE DEF m1, r1
  <2>3. Unrecorded' = UnrecordedOf(r1, m1) /\ UnrecordedOf(r1, m1) \in Int
    BY <2>1, <2>2, UnrecordedSum
  <2> QED
    BY <2>3 DEF m1, r1
<1> QED
  BY <1>1, <1>2

(* Recording a deposit takes it out of what is to come.                    *)
LEMMA UnrecordedLess ==
  ASSUME NEW rec, NEW msg \in [Ids -> Message], NEW m \in Ids \ rec
  PROVE  UnrecordedOf(rec \union {m}, msg)
           = UnrecordedOf(rec, msg) - IF msg[m].kind = "DEPOSIT" THEN msg[m].amount ELSE 0
<1> DEFINE D == Deposits(rec, msg)
           E == Deposits(rec \union {m}, msg)
           g == Amounts(msg)
<1>1. IsFiniteSet(D)
  <2>1. D \subseteq Ids
    BY DEF Deposits
  <2> HIDE DEF D
  <2> QED
    BY <2>1, LedgerIntakeAssumption, FS_Subset
<1>2. E = D \ {m} /\ (m \in D <=> msg[m].kind = "DEPOSIT")
  BY DEF Deposits
<1>3. (\A k \in D : g[k] \in Int) /\ g[m] = msg[m].amount
  BY DEF Amounts, Deposits, Message
<1> HIDE DEF D, E, g
<1>4. SumFunctionOnSet(g, D) \in Int
  BY <1>1, <1>3, SumType
<1>5. CASE m \in D
  <2>1. SumFunctionOnSet(g, D) = g[m] + SumFunctionOnSet(g, D \ {m})
    BY <1>1, <1>3, <1>5, SumRemove
  <2>2. SumFunctionOnSet(g, D \ {m}) \in Int
    <3>1. IsFiniteSet(D \ {m}) /\ \A k \in D \ {m} : g[k] \in Int
      BY <1>1, <1>3, FS_Subset
    <3> QED
      BY <3>1, SumType
  <2>3. SumFunctionOnSet(g, E) = SumFunctionOnSet(g, D) - g[m]
    BY <1>2, <1>3, <1>4, <1>5, <2>1, <2>2
  <2> QED
    BY <1>2, <1>3, <1>5, <2>3 DEF UnrecordedOf, D, E, g
<1>6. CASE m \notin D
  <2>1. E = D
    BY <1>2, <1>6
  <2> QED
    BY <1>2, <1>4, <1>6, <2>1 DEF UnrecordedOf, D, E, g
<1> QED
  BY <1>5, <1>6

-----------------------------------------------------------------------------
(* The packet, its verdict and its orders.                                 *)

(* The trade that the packet may have in a symbol.                         *)
TradeOf(x) == Trade(basis.row, basis.allocation, packet.value, x)

(* The order of a symbol is not there, or the fill of an approved trade.   *)
OrderOK(x) ==
  \/ message[OrderOf[x]] = NoMessage
  \/ /\ verdict.result = "APPROVED" /\ TradeOf(x) \in packet.trades
     /\ message[OrderOf[x]] = Fill(TradeOf(x))

(* What is recorded was published; there are orders only of a packet.      *)
OrdersInv ==
  /\ \A m \in recorded : message[m].kind # "none"
  /\ triggers # {} => \A x \in Symbols : OrderOK(x)
  /\ packet.made => triggers # {}
  /\ ~packet.made => packet.trades = {} /\ verdict.result = "none"

(* What the packet is made of.                                             *)
BasisInv ==
  packet.made =>
    /\ basis.row \in Snapshots /\ basis.row.cash + PositionsValue(basis.row) >= 0
    /\ basis.account \in Snapshots
    /\ basis.trigger \in Nat /\ basis.unrecorded \in Int
    /\ basis.allocation \in Allocations
    /\ basis.recorded \subseteq recorded /\ basis.recorded \cap Orders = {}
    /\ packet.value = PositionsValue(basis.row) + basis.row.cash + basis.trigger
    /\ packet.trades = ProposedTrades(basis.row, basis.allocation, packet.value)
    /\ packet.positions = Held(basis.row)

(* An approval is one of the rules, for a mandate that exists.             *)
VerdictInv ==
  verdict.result = "APPROVED" =>
    \E mandate \in Mandates \ {NoMandate} :
      /\ ~Violates(packet, mandate)
      /\ verdict.level = Authority(packet, mandate)
      /\ verdict.mode = mandate.operatingMode

(* The invariant of the decision.                                          *)
DecisionInv == OrdersInv /\ BasisInv /\ VerdictInv

(* Each symbol has an order of its own.                                    *)
LEMMA OrderIds ==
  /\ \A x \in Symbols : OrderOf[x] \in Ids /\ OrderOf[x] \in Orders
  /\ Orders \subseteq Ids
  /\ \A x, y \in Symbols : OrderOf[x] = OrderOf[y] => x = y
<1>1. OrderOf \in [Symbols -> Ids]
  BY PortfolioAssumption
<1>2. \A x, y \in Symbols : OrderOf[x] = OrderOf[y] => x = y
  BY PortfolioAssumption
<1>3. \A x \in Symbols : OrderOf[x] \in Ids /\ OrderOf[x] \in Orders
  BY <1>1 DEF Orders
<1>4. Orders \subseteq Ids
  BY <1>1 DEF Orders
<1> QED
  BY <1>2, <1>3, <1>4

(* The fields of a trade.                                                  *)
LEMMA TradeFields ==
  ASSUME NEW s, NEW a, NEW v, NEW x
  PROVE  /\ Trade(s, a, v, x).symbol = x
         /\ Trade(s, a, v, x).amount = Magnitude(Goal(a, x, v) - Quantity(s, x))
         /\ Trade(s, a, v, x).side =
              IF Goal(a, x, v) - Quantity(s, x) > 0 THEN "BUY" ELSE "SELL"
         /\ Trade(s, a, v, x).weight = IF x \in DOMAIN a THEN a[x] ELSE 0
         /\ Trade(s, a, v, x).class = IF x \in DOMAIN a THEN AssetClass[x] ELSE "OTHER"
BY DEF Trade

(* At the start there is no packet.                                        *)
LEMMA InitDecision == Init => DecisionInv
<1> SUFFICES ASSUME Init PROVE DecisionInv
  OBVIOUS
<1>1. PICK sc \in Scenarios : message = sc.message /\ triggers = sc.triggers
  BY DEF Init
<1>2. /\ recorded = {} /\ packet.made = FALSE /\ packet.trades = {}
      /\ verdict.result = "none"
  BY DEF Init, IntakeInit, AdviceInit, NoPacket, NoVerdict
<1>3. triggers # {} => \A x \in Symbols : message[OrderOf[x]] = NoMessage
  BY <1>1, PortfolioAssumption
<1> QED
  BY <1>2, <1>3 DEF DecisionInv, OrdersInv, OrderOK, BasisInv, VerdictInv

(* Recording an event leaves the decision as it is.                        *)
LEMMA RecordDecision ==
  ASSUME DecisionInv, UNCHANGED <<message, packet, verdict, basis, triggers>>,
         recorded \subseteq recorded',
         \A m \in recorded' \ recorded : message[m].kind # "none"
  PROVE  DecisionInv'
<1>1. OrdersInv'
  <2>1. \A x \in Symbols : OrderOK(x) <=> OrderOK(x)'
    BY DEF OrderOK, TradeOf
  <2> QED
    BY <2>1 DEF DecisionInv, OrdersInv
<1>2. BasisInv'
  BY DEF DecisionInv, BasisInv
<1>3. VerdictInv'
  BY DEF DecisionInv, VerdictInv
<1> QED
  BY <1>1, <1>2, <1>3 DEF DecisionInv

(* Assembling a packet: no order was there, and it is made of the row and  *)
(* the account of this moment.                                             *)
LEMMA AssembleDecision ==
  ASSUME TypeInv, DecisionInv, Assemble
  PROVE  DecisionInv'
<1>1. PICK trigger \in triggers, allocation \in Allocations, risk \in RiskCategories :
       /\ AssemblePacket(LedgerSnapshotRow, trigger, allocation, risk)
       /\ basis' = [row |-> LedgerSnapshotRow, trigger |-> trigger,
                    account |-> Account("actual"),
                    unrecorded |-> Unrecorded, recorded |-> recorded,
                    allocation |-> allocation]
  BY DEF Assemble
<1> DEFINE s == LedgerSnapshotRow
           v == PositionsValue(s) + s.cash + trigger
<1>2. UNCHANGED <<message, recorded, triggers, verdict>> /\ ~packet.made
  BY <1>1 DEF Assemble, AssemblePacket, intakeVars
<1>3. s \in Snapshots /\ s.cash + PositionsValue(s) >= 0
  BY DEF LedgerSnapshotRow, TypeInv, ViewsType, AdviceType, Solvent
<1>4. Account("actual") \in Snapshots
  BY AccountType DEF TypeInv, IntakeType, Streams, Solvent
<1>5. trigger \in Nat /\ triggers # {} /\ allocation \in Allocations
  BY <1>1 DEF TypeInv, AdviceType
<1>6. packet' = [made |-> TRUE, value |-> v, risk |-> risk,
                 trades |-> ProposedTrades(s, allocation, v), positions |-> Held(s)]
  BY <1>1 DEF AssemblePacket
<1>7. basis' = [row |-> s, trigger |-> trigger, account |-> Account("actual"),
                unrecorded |-> Unrecorded, recorded |-> recorded, allocation |-> allocation]
  BY <1>1
<1> HIDE DEF s, v
<1>8. \A x \in Symbols : message[OrderOf[x]] = NoMessage
  BY <1>2, <1>5 DEF DecisionInv, OrdersInv, OrderOK
<1>9. recorded \cap Orders = {}
  <2>1. ASSUME NEW m \in recorded, m \in Orders PROVE FALSE
    <3>1. PICK x \in Symbols : m = OrderOf[x]
      BY <2>1 DEF Orders
    <3>2. message[m] = NoMessage
      BY <1>8, <3>1
    <3>3. NoMessage.kind = "none"
      BY DEF NoMessage
    <3> QED
      BY <2>1, <3>2, <3>3 DEF DecisionInv, OrdersInv
  <2> QED
    BY <2>1
<1>10. /\ packet'.made /\ packet'.value = v
       /\ packet'.trades = ProposedTrades(s, allocation, v) /\ packet'.positions = Held(s)
       /\ basis'.row = s /\ basis'.trigger = trigger /\ basis'.account = Account("actual")
       /\ basis'.recorded = recorded /\ basis'.allocation = allocation
       /\ basis'.unrecorded = Unrecorded
  BY <1>6, <1>7
<1>14. Unrecorded \in Int
  BY UnrecordedIs DEF TypeInv, IntakeType
<1>11. BasisInv'
  BY <1>2, <1>3, <1>4, <1>5, <1>9, <1>10, <1>14 DEF BasisInv, v
<1>12. OrdersInv'
  BY <1>2, <1>5, <1>8, <1>10 DEF DecisionInv, OrdersInv, OrderOK
<1>13. VerdictInv'
  BY <1>2 DEF DecisionInv, OrdersInv, VerdictInv
<1> QED
  BY <1>11, <1>12, <1>13 DEF DecisionInv

(* The verdict is one of the rules.                                        *)
LEMMA CheckDecision ==
  ASSUME DecisionInv, Check
  PROVE  DecisionInv'
<1>1. PICK mandate \in Mandates : CheckCompliance(mandate)
  BY DEF Check
<1>2. UNCHANGED <<message, recorded, triggers, packet, basis>>
      /\ packet.made /\ verdict.result = "none"
  BY <1>1 DEF Check, CheckCompliance, intakeVars
<1>3. verdict' =
       IF mandate = NoMandate
       THEN [result |-> "BLOCKED", level |-> "L2", mode |-> "CONSERVATIVE"]
       ELSE [result |-> IF Violates(packet, mandate) THEN "BLOCKED" ELSE "APPROVED",
             level |-> Authority(packet, mandate),
             mode |-> mandate.operatingMode]
  BY <1>1 DEF CheckCompliance
<1>4. VerdictInv'
  <2>1. SUFFICES ASSUME verdict'.result = "APPROVED"
                 PROVE  /\ mandate \in Mandates \ {NoMandate} /\ ~Violates(packet', mandate)
                        /\ verdict'.level = Authority(packet', mandate)
                        /\ verdict'.mode = mandate.operatingMode
    BY DEF VerdictInv
  <2>2. mandate # NoMandate /\ ~Violates(packet, mandate)
    BY <1>3, <2>1
  <2>3. verdict'.level = Authority(packet, mandate) /\ verdict'.mode = mandate.operatingMode
    BY <1>3, <2>2
  <2> QED
    BY <1>1, <1>2, <2>2, <2>3
<1>5. OrdersInv'
  <2>1. triggers # {} => \A x \in Symbols : message[OrderOf[x]] = NoMessage
    BY <1>2 DEF DecisionInv, OrdersInv, OrderOK
  <2> QED
    BY <1>2, <2>1 DEF DecisionInv, OrdersInv, OrderOK
<1>6. BasisInv'
  BY <1>2 DEF DecisionInv, BasisInv
<1> QED
  BY <1>4, <1>5, <1>6 DEF DecisionInv

(* The trades of a packet are those of its symbols.                        *)
LEMMA PacketTrades ==
  ASSUME TypeInv, DecisionInv, packet.made
  PROVE  /\ \A t \in packet.trades : t.symbol \in Symbols /\ t = TradeOf(t.symbol)
         /\ packet.value \in Nat
<1>1. /\ basis.row \in Snapshots /\ basis.row.cash + PositionsValue(basis.row) >= 0
      /\ basis.trigger \in Nat /\ basis.allocation \in Allocations
      /\ packet.value = PositionsValue(basis.row) + basis.row.cash + basis.trigger
      /\ packet.trades = ProposedTrades(basis.row, basis.allocation, packet.value)
  BY DEF DecisionInv, BasisInv
<1>2. packet.value \in Int
  BY DEF TypeInv, AdviceType, Packets
<1>3. PositionsValue(basis.row) \in Int /\ basis.row.cash \in Int
  BY <1>1, PositionsValueSum DEF Snapshots
<1>4. packet.value \in Nat
  BY <1>1, <1>2, <1>3
<1>5. packet.trades \subseteq {TradeOf(x) : x \in Symbols}
  BY <1>1, <1>2, ProposedType DEF TradeOf
<1>6. \A x \in Symbols : TradeOf(x).symbol = x
  BY TradeFields DEF TradeOf
<1> QED
  BY <1>4, <1>5, <1>6

(* A fill is that of a trade of the approved packet.                       *)
LEMMA ExecuteDecision ==
  ASSUME TypeInv, DecisionInv, NEW t \in packet.trades, Execute(t)
  PROVE  DecisionInv'
<1>1. /\ verdict.result = "APPROVED" /\ message[OrderOf[t.symbol]] = NoMessage
      /\ message' = [message EXCEPT ![OrderOf[t.symbol]] = Fill(t)]
      /\ UNCHANGED <<recorded, triggers, packet, verdict, basis>>
  BY DEF Execute, adviceVars
<1>2. packet.made /\ triggers # {}
  BY DEF DecisionInv, OrdersInv
<1>3. t.symbol \in Symbols /\ t = TradeOf(t.symbol)
  BY <1>2, PacketTrades
<1>4. message \in [Ids -> Message] /\ t \in Trades
  BY DEF TypeInv, IntakeType, AdviceType, Packets
<1>5. /\ message'[OrderOf[t.symbol]] = Fill(t)
      /\ \A m \in Ids : m # OrderOf[t.symbol] => message'[m] = message[m]
  BY <1>1, <1>3, <1>4, OrderIds
<1>6. \A m \in recorded : message'[m].kind # "none"
  <2>1. recorded \subseteq Ids /\ \A m \in recorded : message[m].kind # "none"
    BY DEF TypeInv, IntakeType, DecisionInv, OrdersInv
  <2>2. Fill(t).kind # "none"
    BY <1>4 DEF Fill, Trades
  <2> QED
    BY <1>5, <2>1, <2>2
<1>7. ASSUME NEW x \in Symbols PROVE OrderOK(x)'
  <2>1. TradeOf(x)' = TradeOf(x)
    BY <1>1 DEF TradeOf
  <2>2. OrderOK(x)
    BY <1>2 DEF DecisionInv, OrdersInv
  <2>3. CASE x = t.symbol
    BY <1>1, <1>3, <1>5, <2>1, <2>3 DEF OrderOK
  <2>4. CASE x # t.symbol
    <3>1. message'[OrderOf[x]] = message[OrderOf[x]]
      BY <1>3, <1>5, <2>4, OrderIds
    <3> QED
      BY <1>1, <2>1, <2>2, <3>1 DEF OrderOK
  <2> QED
    BY <2>3, <2>4
<1>8. OrdersInv'
  BY <1>1, <1>2, <1>6, <1>7 DEF OrdersInv
<1>9. BasisInv' /\ VerdictInv'
  BY <1>1 DEF DecisionInv, BasisInv, VerdictInv
<1> QED
  BY <1>8, <1>9 DEF DecisionInv

(* What a step of the handlers, the reducer or the projections keeps.      *)
LEMMA KeepsDecision ==
  ASSUME TypeInv, HandleStep \/ RedeliverStep \/ ViewsStep \/ Shadow \/ UNCHANGED vars
  PROVE  /\ UNCHANGED <<message, packet, verdict, basis, triggers>>
         /\ recorded \subseteq recorded'
         /\ \A m \in recorded' \ recorded : message[m].kind # "none"
<1>1. CASE HandleStep
  <2>1. PICK m \in Ids : HandleEvent(m)
    BY <1>1 DEF HandleStep
  <2>2. UNCHANGED <<packet, verdict, basis, triggers>>
    BY <1>1 DEF HandleStep, adviceVars
  <2> QED
    BY <2>1, <2>2
       DEF HandleEvent, RecordEntry, OpenLot, ReadLots, UpdateLot, PutDisposition
<1>2. CASE RedeliverStep
  BY <1>2 DEF RedeliverStep, RedeliverEvent, adviceVars
<1>3. CASE ViewsStep
  BY <1>3 DEF ViewsStep, ViewsNext, Reduce, Project, intakeVars, adviceVars
<1>4. CASE Shadow
  BY <1>4 DEF Shadow, adviceVars
<1>5. CASE UNCHANGED vars
  BY <1>5 DEF vars, intakeVars, adviceVars
<1> QED
  BY <1>1, <1>2, <1>3, <1>4, <1>5

(* Every step keeps the invariant of the decision.                         *)
LEMMA DecisionStep == TypeInv /\ DecisionInv /\ [Next]_vars => DecisionInv'
<1> SUFFICES ASSUME TypeInv, DecisionInv, [Next]_vars PROVE DecisionInv'
  OBVIOUS
<1>1. CASE HandleStep \/ RedeliverStep \/ ViewsStep \/ Shadow \/ UNCHANGED vars
  BY <1>1, KeepsDecision, RecordDecision
<1>2. CASE Assemble
  BY <1>2, AssembleDecision
<1>3. CASE Check
  BY <1>3, CheckDecision
<1>4. CASE \E t \in packet.trades : Execute(t)
  BY <1>4, ExecuteDecision
<1> QED
  BY <1>1, <1>2, <1>3, <1>4 DEF Next

-----------------------------------------------------------------------------
(* What became of the account since the packet was made.                   *)

(* The shares that a fill adds to the holding.                             *)
Signed(e) ==
  IF e.kind = "BUY" THEN e.amount ELSE IF e.kind = "SELL" THEN -e.amount ELSE 0

(* The shares that the fill of a symbol's order moves, if it is recorded.  *)
FilledOf(rec, msg, x) ==
  IF OrderOf[x] \in rec THEN Signed(msg[OrderOf[x]]) ELSE 0

(* The shares that the recorded fill of the packet's order moved.          *)
Filled(x) == FilledOf(recorded, message, x)

(* For every symbol.                                                       *)
Fills(rec, msg) == [x \in Symbols |-> FilledOf(rec, msg, x)]

(* No cash was withdrawn since the packet was made.                        *)
NoLaterWithdrawal ==
  \A m \in Ids : message[m].kind = "WITHDRAWAL" => m \in basis.recorded

(* The holdings are those the packet found and what its fills moved.       *)
HoldInv ==
  packet.made /\ Grounded => \A x \in Symbols : After(x) = Before(x) + Filled(x)

(* The cash, with what is still to come, is what there was less the price  *)
(* of the fills.                                                           *)
CashInv ==
  packet.made /\ Grounded /\ NoLaterWithdrawal =>
    Account("actual").cash + Unrecorded
      = basis.account.cash + basis.unrecorded
          - SumFunctionOnSet(Fills(recorded, message), Symbols)

(* What became of the account.                                             *)
AccountInv == HoldInv /\ CashInv

(* What fills move is an integer.                                          *)
LEMMA FillsType ==
  ASSUME NEW rec, NEW msg \in [Ids -> Message]
  PROVE  /\ \A x \in Symbols : FilledOf(rec, msg, x) \in Int
         /\ \A x \in Symbols : Fills(rec, msg)[x] = FilledOf(rec, msg, x)
         /\ SumFunctionOnSet(Fills(rec, msg), Symbols) \in Int
<1>1. ASSUME NEW x \in Symbols PROVE FilledOf(rec, msg, x) \in Int
  <2>1. msg[OrderOf[x]] \in Message
    BY OrderIds
  <2> QED
    BY <2>1 DEF FilledOf, Signed, Message
<1> DEFINE f == Fills(rec, msg)
<1>2. \A x \in Symbols : f[x] = FilledOf(rec, msg, x)
  BY DEF Fills
<1>3. \A x \in Symbols : f[x] \in Int
  BY <1>1, <1>2
<1> HIDE DEF f
<1>4. SumFunctionOnSet(f, Symbols) \in Int
  BY <1>3, SymbolsFinite, SumType
<1> QED
  BY <1>1, <1>2, <1>4 DEF f

(* Whether nobody else traded or withdrew depends on the other events.     *)
LEMMA GroundedSame ==
  ASSUME IntakeType, basis' = basis,
         \A m \in Ids : message'[m] = message[m]
           \/ (m \in Orders /\ message[m].kind # "WITHDRAWAL" /\ message'[m].kind # "WITHDRAWAL")
  PROVE  (Grounded' <=> Grounded) /\ (NoLaterWithdrawal' <=> NoLaterWithdrawal)
<1>1. \A m \in Ids \ Orders : message'[m] = message[m]
  OBVIOUS
<1>2. \A m \in Ids : message'[m].kind = "WITHDRAWAL" <=> message[m].kind = "WITHDRAWAL"
  OBVIOUS
<1> QED
  BY <1>1, <1>2 DEF Grounded, NoLaterWithdrawal

(* A step that records nothing new and leaves what is recorded as it is.   *)
LEMMA AccountKept ==
  ASSUME TypeInv, AccountInv,
         Account("actual")' = Account("actual"),
         UNCHANGED <<basis, packet, recorded>>,
         UNCHANGED message
           \/ \E o \in Orders, e \in Message :
                 /\ message' = [message EXCEPT ![o] = e]
                 /\ message[o] = NoMessage /\ e.kind \in {"BUY", "SELL"} /\ o \notin recorded
  PROVE  AccountInv'
<1>1. message \in [Ids -> Message] /\ IntakeType
  BY DEF TypeInv, IntakeType
<1>2. message' \in [Ids -> Message]
  BY <1>1, OrderIds
<1> DEFINE Other(m, kind) ==
             message'[m] = message[m]
               \/ (m \in Orders /\ message[m].kind # kind /\ message'[m].kind # kind)
<1>3. /\ \A m \in Ids : Other(m, "WITHDRAWAL") /\ Other(m, "DEPOSIT")
      /\ \A m \in recorded : message'[m] = message[m]
  <2>1. CASE UNCHANGED message
    BY <2>1
  <2>2. ASSUME NEW o \in Orders, NEW e \in Message,
               message' = [message EXCEPT ![o] = e],
               message[o] = NoMessage, e.kind \in {"BUY", "SELL"}, o \notin recorded
        PROVE  /\ \A m \in Ids : Other(m, "WITHDRAWAL") /\ Other(m, "DEPOSIT")
               /\ \A m \in recorded : message'[m] = message[m]
    <3>1. o \in Ids /\ message[o].kind = "none"
      BY <2>2, OrderIds DEF NoMessage
    <3>2. message'[o] = e /\ \A m \in Ids \ {o} : message'[m] = message[m]
      BY <1>1, <2>2, <3>1
    <3>3. recorded \subseteq Ids
      BY <1>1 DEF IntakeType
    <3> QED
      BY <2>2, <3>1, <3>2, <3>3
  <2> QED
    BY <2>1, <2>2
<1>4. (Grounded' <=> Grounded) /\ (NoLaterWithdrawal' <=> NoLaterWithdrawal)
  BY <1>1, <1>3, GroundedSame
<1>5. \A x \in Symbols : FilledOf(recorded', message', x) = FilledOf(recorded, message, x)
  BY <1>3 DEF FilledOf
<1>6. Fills(recorded', message') = Fills(recorded, message)
  BY <1>5 DEF Fills
<1>7. Unrecorded' = Unrecorded
  <2> DEFINE D == Deposits(recorded, message)
             f == Amounts(message)
             g == Amounts(message')
  <2>1. Deposits(recorded', message') = D
    BY <1>3 DEF Deposits
  <2>2. \A m \in D : f[m] \in Int /\ g[m] = f[m]
    BY <1>1, <1>3 DEF Deposits, Amounts, Message
  <2>3. IsFiniteSet(D)
    <3>1. D \subseteq Ids
      BY DEF Deposits
    <3> HIDE DEF D
    <3> QED
      BY <3>1, LedgerIntakeAssumption, FS_Subset
  <2>4. Unrecorded = SumFunctionOnSet(f, D) /\ Unrecorded' = SumFunctionOnSet(g, D)
    BY <1>1, <1>2, <2>1, UnrecordedIs DEF UnrecordedOf
  <2> HIDE DEF f, g, D
  <2>5. SumFunctionOnSet(g, D) = SumFunctionOnSet(f, D)
    BY <2>2, <2>3, SumSame
  <2> QED
    BY <2>4, <2>5
<1>8. HoldInv'
  BY <1>4, <1>5 DEF AccountInv, HoldInv, After, Before, Filled
<1>9. CashInv'
  BY <1>4, <1>6, <1>7 DEF AccountInv, CashInv
<1> QED
  BY <1>8, <1>9 DEF AccountInv

(* The weight of a symbol in a target.                                     *)
WeightOf(a, x) == IF x \in DOMAIN a THEN a[x] ELSE 0

(* A goal is the weight's part of the value, but for the rounding.         *)
LEMMA GoalBound ==
  ASSUME NEW a \in Allocations, NEW v \in Nat, NEW x \in Symbols
  PROVE  /\ WeightOf(a, x) \in 0 .. 100
         /\ Goal(a, x, v) \in Nat
         /\ 100 * Goal(a, x, v) <= WeightOf(a, x) * v + 50
<1>1. PICK named \in SUBSET Symbols : a \in [named -> 0 .. 100]
  BY AdviceAssumption
<1>2. WeightOf(a, x) \in 0 .. 100
  BY <1>1 DEF WeightOf
<1>3. CASE x \in DOMAIN a
  <2> DEFINE n == a[x] * v
  <2>1. n \in Nat /\ WeightOf(a, x) * v = n
    BY <1>1, <1>3 DEF WeightOf
  <2>2. Goal(a, x, v) = (2 * n + 100) \div 200
    BY <1>3 DEF Goal, Round
  <2> HIDE DEF n
  <2>3. (2 * n + 100) \div 200 \in Nat /\ 100 * ((2 * n + 100) \div 200) <= n + 50
    BY <2>1
  <2> QED
    BY <1>2, <2>1, <2>2, <2>3
<1>4. CASE x \notin DOMAIN a
  <2>1. Goal(a, x, v) = 0 /\ WeightOf(a, x) = 0
    BY <1>4 DEF Goal, WeightOf
  <2> QED
    BY <1>2, <2>1
<1> QED
  BY <1>3, <1>4

(* A purchase or a sale that is not refused moves its amount.              *)
LEMMA SignedMoved ==
  ASSUME NEW s \in Snapshots, NEW e \in Message, ~Refused(s, e), e.kind \in {"BUY", "SELL"}
  PROVE  SharesMoved(s, e) = Signed(e) /\ CashMoved(s, e) = -Signed(e) /\ Signed(e) \in Int
BY DEF SharesMoved, CashMoved, Signed, Message

(* A fill of the packet that is recorded is applied in full.               *)
LEMMA FillApplied ==
  ASSUME TypeInv, DecisionInv, AccountInv, packet.made, Grounded,
         NEW x \in Symbols, OrderOf[x] \notin recorded, message[OrderOf[x]].kind # "none"
  PROVE  /\ ~Refused(Account("actual"), message[OrderOf[x]])
         /\ message[OrderOf[x]].symbol = x
         /\ message[OrderOf[x]].kind \in {"BUY", "SELL"}
         /\ message[OrderOf[x]] = Fill(TradeOf(x))
<1> DEFINE e == message[OrderOf[x]]
           s == Account("actual")
           goal == Goal(basis.allocation, x, packet.value)
           q == Quantity(basis.row, x)
<1>1. e = Fill(TradeOf(x))
  <2>1. OrderOK(x) /\ e # NoMessage
    BY DEF DecisionInv, OrdersInv, NoMessage
  <2> QED
    BY <2>1 DEF OrderOK
<1>2. goal \in Nat /\ q \in Nat
  <2>1. basis.allocation \in Allocations /\ basis.row \in Snapshots
    BY DEF DecisionInv, BasisInv
  <2> QED
    BY <2>1, PacketTrades, GoalBound, QuantityType
<1>3. Quantity(s, x) = q
  <2>1. Filled(x) = 0
    BY DEF Filled, FilledOf
  <2>2. Quantity(s, x) = Quantity(basis.account, x) + Filled(x)
    BY DEF AccountInv, HoldInv, After, Before
  <2>3. Quantity(basis.account, x) = q
    BY DEF Grounded
  <2> QED
    BY <1>2, <2>1, <2>2, <2>3
<1>4. /\ e.symbol = x /\ e.amount = Magnitude(goal - q)
      /\ e.kind = IF goal - q > 0 THEN "BUY" ELSE "SELL"
  <2>1. /\ TradeOf(x).symbol = x /\ TradeOf(x).amount = Magnitude(goal - q)
        /\ TradeOf(x).side = IF goal - q > 0 THEN "BUY" ELSE "SELL"
    BY TradeFields DEF TradeOf
  <2> QED
    BY <1>1, <2>1 DEF Fill
<1>5. ~Refused(s, e)
  <2> HIDE DEF e, s, goal, q
  <2>1. CASE goal - q > 0
    BY <1>4, <2>1 DEF Refused
  <2>2. CASE ~(goal - q > 0)
    <3>1. e.amount = q - goal
      BY <1>2, <1>4, <2>2 DEF Magnitude
    <3> QED
      BY <1>2, <1>3, <1>4, <2>2, <3>1 DEF Refused
  <2> QED
    BY <2>1, <2>2
<1>6. e.kind \in {"BUY", "SELL"}
  BY <1>4
<1> QED
  BY <1>1, <1>4, <1>5, <1>6

(* Recording one more event keeps the account: a fill of the packet moves  *)
(* what it says; nobody else trades; a deposit that is recorded is no      *)
(* longer to come.                                                         *)
LEMMA RecordAccount ==
  ASSUME TypeInv, DecisionInv, AccountInv, NEW m \in Ids, RecordEntry(m), m \notin recorded,
         UNCHANGED <<viewVars, adviceVars, basis>>
  PROVE  AccountInv'
<1> DEFINE e == message[m]
           s == Account("actual")
<1>1. IntakeType /\ ViewsType /\ message \in [Ids -> Message] /\ e \in Message
      /\ recorded \subseteq Ids
  BY DEF TypeInv, IntakeType
<1>2. recorded' = recorded \union {m} /\ message' = message /\ e.kind # "none"
  BY DEF RecordEntry
<1>3. s \in Snapshots
  BY <1>1, AccountType DEF IntakeType, Streams, Solvent
<1>4. Account("actual")' = ApplyEntry(s, e)
  BY <1>1, AccountAppend
<1>5. /\ ApplyEntry(s, e).cash = s.cash + CashMoved(s, e)
      /\ \A x \in Symbols : Quantity(ApplyEntry(s, e), x) =
           Quantity(s, x) + IF x = e.symbol THEN SharesMoved(s, e) ELSE 0
  BY <1>1, <1>3, EntryEffect
<1>6. (Grounded' <=> Grounded) /\ (NoLaterWithdrawal' <=> NoLaterWithdrawal)
  BY <1>1, <1>2, GroundedSame
<1>7. SUFFICES ASSUME packet.made, Grounded
      PROVE  /\ \A x \in Symbols : After(x)' = Before(x) + Filled(x)'
             /\ NoLaterWithdrawal =>
                  Account("actual")'.cash + Unrecorded'
                    = basis.account.cash + basis.unrecorded
                        - SumFunctionOnSet(Fills(recorded', message'), Symbols)
  BY <1>6 DEF AccountInv, HoldInv, CashInv, adviceVars, Before
<1>8. /\ Unrecorded \in Int
      /\ Unrecorded' = Unrecorded - IF e.kind = "DEPOSIT" THEN e.amount ELSE 0
  BY <1>1, <1>2, UnrecordedIs, UnrecordedLess
<1>9. /\ basis.account.cash \in Int /\ basis.unrecorded \in Int /\ s.cash \in Int
      /\ \A x \in Symbols : Before(x) \in Nat /\ Quantity(s, x) \in Nat
  <2>1. basis.account \in Snapshots /\ basis.unrecorded \in Int
    BY <1>7 DEF DecisionInv, BasisInv
  <2> QED
    BY <1>3, <2>1, QuantityType DEF Snapshots, Before
<1>10. /\ \A x \in Symbols : Quantity(s, x) = Before(x) + Filled(x) /\ Filled(x) \in Int
       /\ NoLaterWithdrawal =>
            s.cash + Unrecorded = basis.account.cash + basis.unrecorded
                                    - SumFunctionOnSet(Fills(recorded, message), Symbols)
  BY <1>1, <1>7, FillsType DEF AccountInv, HoldInv, CashInv, After, Filled
<1>11. \A x \in Symbols : After(x)' = Quantity(ApplyEntry(s, e), x)
  BY <1>4 DEF After
<1> DEFINE f == Fills(recorded, message)
           g == Fills(recorded', message')
<1>12. /\ \A x \in Symbols : f[x] \in Int /\ f[x] = Filled(x) /\ g[x] \in Int /\ g[x] = Filled(x)'
       /\ SumFunctionOnSet(f, Symbols) \in Int
  BY <1>1, <1>2, FillsType DEF Filled
<1>13. CASE m \in Orders
  <2>1. PICK y \in Symbols : m = OrderOf[y]
    BY <1>13 DEF Orders
  <2>2. ~Refused(s, e) /\ e.symbol = y /\ e.kind \in {"BUY", "SELL"}
    BY <1>2, <1>7, <2>1, FillApplied
  <2>3. SharesMoved(s, e) = Signed(e) /\ CashMoved(s, e) = -Signed(e) /\ Signed(e) \in Int
    BY <1>1, <1>3, <2>2, SignedMoved
  <2>4. /\ Filled(y) = 0 /\ Filled(y)' = Signed(e)
        /\ \A x \in Symbols \ {y} : Filled(x)' = Filled(x)
    BY <1>2, <2>1, OrderIds DEF Filled, FilledOf
  <2>5. ASSUME NEW x \in Symbols PROVE After(x)' = Before(x) + Filled(x)'
    <3>1. CASE x = y
      BY <1>5, <1>9, <1>10, <1>11, <2>2, <2>3, <2>4, <3>1
    <3>2. CASE x # y
      BY <1>5, <1>9, <1>10, <1>11, <2>2, <2>3, <2>4, <3>2
    <3> QED
      BY <3>1, <3>2
  <2> HIDE DEF f, g, e, s
  <2>6. SumFunctionOnSet(g, Symbols) = SumFunctionOnSet(f, Symbols) - f[y] + g[y]
    <3>1. \A x \in Symbols : f[x] \in Int /\ g[x] \in Int
      BY <1>12
    <3>2. \A x \in Symbols \ {y} : g[x] = f[x]
      BY <1>12, <2>4
    <3> QED
      BY <3>1, <3>2, SymbolsFinite, SumChange
  <2>7. SumFunctionOnSet(g, Symbols) = SumFunctionOnSet(f, Symbols) + Signed(e)
    BY <1>12, <2>3, <2>4, <2>6
  <2>8. Unrecorded' = Unrecorded
    BY <1>8, <2>2
  <2>9. Account("actual")'.cash = s.cash - Signed(e)
    BY <1>4, <1>5, <1>9, <2>3
  <2>10. ASSUME NoLaterWithdrawal
         PROVE  Account("actual")'.cash + Unrecorded'
                  = basis.account.cash + basis.unrecorded - SumFunctionOnSet(g, Symbols)
    <3>1. s.cash + Unrecorded
            = basis.account.cash + basis.unrecorded - SumFunctionOnSet(f, Symbols)
      BY <1>10, <2>10 DEF f
    <3> QED
      BY <1>8, <1>9, <1>12, <2>3, <2>7, <2>8, <2>9, <3>1
  <2> QED
    BY <2>5, <2>10 DEF g
<1>14. CASE m \notin Orders
  <2>1. e.kind \notin {"BUY", "SELL"}
    <3>1. basis.recorded \subseteq recorded
      BY <1>7 DEF DecisionInv, BasisInv
    <3> QED
      BY <1>7, <1>14, <3>1 DEF Grounded
  <2>2. SharesMoved(s, e) = 0
    BY <2>1 DEF SharesMoved
  <2>3. \A x \in Symbols : FilledOf(recorded', message', x) = FilledOf(recorded, message, x)
    BY <1>2, <1>14, OrderIds DEF FilledOf
  <2>4. Fills(recorded', message') = Fills(recorded, message)
    BY <2>3 DEF Fills
  <2>5. \A x \in Symbols : After(x)' = Before(x) + Filled(x)'
    BY <1>5, <1>9, <1>10, <1>11, <2>2, <2>3 DEF Filled
  <2>6. ASSUME NoLaterWithdrawal
        PROVE  Account("actual")'.cash + Unrecorded' = s.cash + Unrecorded
    <3>1. e.kind = "DEPOSIT"
      <4>1. basis.recorded \subseteq recorded
        BY <1>7 DEF DecisionInv, BasisInv
      <4>2. e.kind # "WITHDRAWAL"
        BY <2>6, <4>1 DEF NoLaterWithdrawal
      <4> QED
        BY <1>1, <1>2, <2>1, <4>2 DEF Message
    <3>2. CashMoved(s, e) = e.amount /\ e.amount \in Int
      BY <1>1, <3>1 DEF CashMoved, Refused, Message
    <3> QED
      BY <1>4, <1>5, <1>8, <1>9, <3>1, <3>2
  <2> QED
    BY <1>10, <2>4, <2>5, <2>6
<1> QED
  BY <1>13, <1>14

(* A packet that is being made has no fills.                               *)
LEMMA AssembleAccount ==
  ASSUME TypeInv, TypeInv', DecisionInv, DecisionInv', Assemble
  PROVE  AccountInv'
<1>1. /\ UNCHANGED <<message, recorded, booked, saved>>
      /\ basis'.account = Account("actual") /\ basis'.unrecorded = Unrecorded
      /\ packet'.made
  BY DEF Assemble, AssemblePacket, intakeVars, viewVars
<1>2. Account("actual")' = Account("actual")
  BY <1>1, AccountNext DEF Streams
<1>3. message \in [Ids -> Message]
  BY DEF TypeInv, IntakeType
<1>4. ASSUME NEW x \in Symbols PROVE FilledOf(recorded', message', x) = 0
  <2>1. OrderOf[x] \notin recorded
    BY <1>1, OrderIds DEF DecisionInv, BasisInv, Assemble
  <2> QED
    BY <1>1, <2>1 DEF FilledOf
<1>5. \A x \in Symbols : After(x)' \in Nat /\ Before(x)' = After(x)'
  <2>1. Account("actual") \in Snapshots
    BY AccountType DEF TypeInv, IntakeType, Streams, Solvent
  <2> QED
    BY <1>1, <1>2, <2>1, QuantityType DEF After, Before
<1>6. SumFunctionOnSet(Fills(recorded', message'), Symbols) = 0
  <2> DEFINE f == Fills(recorded', message')
  <2>1. \A x \in Symbols \ {} : f[x] = 0
    BY <1>4 DEF Fills
  <2>2. {} \in SUBSET Symbols /\ \A x \in {} : f[x] \in Int
    OBVIOUS
  <2> HIDE DEF f
  <2>3. SumFunctionOnSet(f, Symbols) = SumFunctionOnSet(f, {})
    BY <2>1, <2>2, SymbolsFinite, SumNonzero
  <2> QED
    BY <2>3, SumEmpty DEF f
<1>7. HoldInv'
  BY <1>4, <1>5 DEF HoldInv, Filled
<1>8. Account("actual").cash \in Int /\ Unrecorded \in Int /\ Unrecorded' = Unrecorded
  <2>1. Account("actual") \in Snapshots
    BY AccountType DEF TypeInv, IntakeType, Streams, Solvent
  <2>2. Unrecorded \in Int
    BY <1>3, UnrecordedIs
  <2>3. Unrecorded' = Unrecorded
    BY <1>1 DEF Unrecorded
  <2> QED
    BY <2>1, <2>2, <2>3 DEF Snapshots
<1>9. CashInv'
  BY <1>1, <1>2, <1>6, <1>8 DEF CashInv
<1> QED
  BY <1>7, <1>9 DEF AccountInv

(* At the start there is no packet.                                        *)
LEMMA InitAccount == Init => AccountInv
<1> SUFFICES ASSUME Init PROVE AccountInv
  OBVIOUS
<1>1. ~packet.made
  BY DEF Init, AdviceInit, NoPacket
<1> QED
  BY <1>1 DEF AccountInv, HoldInv, CashInv

(* Every step keeps the account.                                           *)
LEMMA AccountStep ==
  TypeInv /\ TypeInv' /\ DecisionInv /\ DecisionInv' /\ AccountInv /\ [Next]_vars => AccountInv'
<1> SUFFICES ASSUME TypeInv, TypeInv', DecisionInv, DecisionInv', AccountInv, [Next]_vars
             PROVE  AccountInv'
  OBVIOUS
<1>1. IntakeType /\ ViewsType
  BY DEF TypeInv
<1>2. ASSUME UNCHANGED <<saved, booked>> PROVE Account("actual")' = Account("actual")
  BY <1>2, AccountNext
<1>3. CASE HandleStep
  <2>1. PICK m \in Ids : HandleEvent(m)
    BY <1>3 DEF HandleStep
  <2>2. UNCHANGED <<viewVars, adviceVars, triggers, basis>>
    BY <1>3 DEF HandleStep
  <2>3. CASE RecordEntry(m) /\ m \notin recorded
    BY <2>2, <2>3, RecordAccount
  <2>4. CASE ~RecordEntry(m) \/ m \in recorded
    <3>1. UNCHANGED <<booked, recorded, message>>
      BY <2>1, <2>4
         DEF HandleEvent, RecordEntry, OpenLot, ReadLots, UpdateLot, PutDisposition
    <3> QED
      BY <1>2, <2>2, <3>1, AccountKept DEF viewVars, adviceVars
  <2> QED
    BY <2>3, <2>4
<1>4. CASE RedeliverStep
  <2>1. UNCHANGED <<saved, booked, recorded, message, packet, basis>>
    BY <1>4 DEF RedeliverStep, RedeliverEvent, viewVars, adviceVars
  <2> QED
    BY <1>2, <2>1, AccountKept
<1>5. CASE ViewsStep
  <2>1. UNCHANGED <<recorded, message, packet, basis>>
    BY <1>5 DEF ViewsStep, ViewsNext, Reduce, Project, intakeVars, adviceVars
  <2>2. Account("actual")' = Account("actual")
    <3>1. CASE \E s \in Streams : Reduce(s)
      BY <1>1, <3>1, AccountReduce DEF Streams
    <3>2. CASE \E row \in DOMAIN rows : Project(row)
      BY <1>2, <3>2 DEF Project, intakeVars
    <3> QED
      BY <1>5, <3>1, <3>2 DEF ViewsStep, ViewsNext
  <2> QED
    BY <2>1, <2>2, AccountKept
<1>6. CASE Assemble
  BY <1>6, AssembleAccount
<1>7. CASE Check \/ UNCHANGED vars
  <2>1. UNCHANGED <<saved, booked, recorded, message, packet, basis>>
    BY <1>7 DEF Check, CheckCompliance, intakeVars, viewVars, adviceVars, vars
  <2> QED
    BY <1>2, <2>1, AccountKept
<1>8. CASE Shadow
  <2>1. UNCHANGED <<saved, recorded, message, packet, basis>>
    BY <1>8 DEF Shadow, viewVars, adviceVars
  <2>2. booked'["actual"] = booked["actual"]
    BY <1>1, <1>8 DEF Shadow, IntakeType, Streams
  <2>3. Account("actual")' = Account("actual")
    BY <2>1, <2>2, AccountNext
  <2> QED
    BY <2>1, <2>3, AccountKept
<1>9. CASE \E t \in packet.trades : Execute(t)
  <2>1. PICK t \in packet.trades : Execute(t)
    BY <1>9
  <2> DEFINE o == OrderOf[t.symbol]
             e == Fill(t)
  <2>2. /\ UNCHANGED <<saved, booked, recorded, packet, basis>>
        /\ message[o] = NoMessage /\ message' = [message EXCEPT ![o] = e]
    BY <2>1 DEF Execute, viewVars, adviceVars
  <2>3. t \in Trades
    BY <2>1 DEF TypeInv, AdviceType, Packets
  <2>4. o \in Orders /\ e \in Message /\ e.kind \in {"BUY", "SELL"}
    BY <2>3, OrderIds, FillType DEF Trades, Fill
  <2>5. o \notin recorded
    <3>1. message[o].kind = "none"
      BY <2>2 DEF NoMessage
    <3> QED
      BY <3>1 DEF DecisionInv, OrdersInv
  <2> HIDE DEF o, e
  <2> QED
    BY <1>2, <2>2, <2>4, <2>5, AccountKept
<1> QED
  BY <1>3, <1>4, <1>5, <1>6, <1>7, <1>8, <1>9 DEF Next

(* The inductive invariant of the module.                                  *)
PortfolioInv == TypeInv /\ LotsInv /\ DecisionInv /\ AccountInv

(* The inductive invariant holds in every behaviour: the types, the tax    *)
(* lots, the packet with its verdict and orders, and the account since     *)
(* the packet was made.                                                    *)
THEOREM PortfolioInvariant == Spec => []PortfolioInv
<1>1. Init => PortfolioInv
  BY InitType, InitLots, InitDecision, InitAccount DEF PortfolioInv
<1>2. PortfolioInv /\ [Next]_vars => PortfolioInv'
  BY TypeStep, LotsStep, DecisionStep, AccountStep DEF PortfolioInv
<1> QED
  BY <1>1, <1>2, PTL DEF Spec

-----------------------------------------------------------------------------
(* What an executed packet has done.                                       *)

(* A micro trade is at least 1, and at least what trades are compared      *)
(* with.                                                                   *)
LEMMA MicroTradeNat ==
  ASSUME packet.value \in Int
  PROVE  /\ MicroTrade \in Int /\ MicroTrade >= 1
         /\ Round(packet.value * MICRO_TRADE_EPSILON_BPS, 10000) <= MicroTrade
<1> DEFINE r == Round(packet.value * MICRO_TRADE_EPSILON_BPS, 10000)
           S == {1, r}
<1>1. r \in Int
  <2>1. packet.value * MICRO_TRADE_EPSILON_BPS \in Int
    BY DEF MICRO_TRADE_EPSILON_BPS
  <2> QED
    BY <2>1, RoundType
<1> HIDE DEF r
<1>2. IsFiniteSet(S) /\ S # {} /\ S \subseteq Int
  <2>1. IsFiniteSet({1}) /\ S = {1} \union {r}
    BY FS_Singleton
  <2>2. IsFiniteSet({1} \union {r})
    BY <2>1, FS_AddElement
  <2> QED
    BY <1>1, <2>1, <2>2
<1>3. Max(S) \in S /\ \A y \in S : Max(S) >= y
  <2> HIDE DEF S
  <2> QED
    BY <1>2, MaxElement
<1>4. MicroTrade = Max(S)
  BY DEF MicroTrade, r
<1> QED
  BY <1>1, <1>3, <1>4 DEF r

(* A trade that a packet needs not to have: within a micro trade.          *)
LEMMA TradeNeeded ==
  ASSUME TypeInv, DecisionInv, packet.made, NEW x \in Symbols
  PROVE  LET delta == Target(x) - Quantity(basis.row, x) IN
         /\ delta \in Int /\ Target(x) \in Nat /\ Quantity(basis.row, x) \in Nat
         /\ TradeOf(x) \in packet.trades => delta # 0
         /\ TradeOf(x) \notin packet.trades => Magnitude(delta) < MicroTrade
<1> DEFINE s == basis.row
           a == basis.allocation
           v == packet.value
           delta == Target(x) - Quantity(s, x)
           r == Round(v * MICRO_TRADE_EPSILON_BPS, 10000)
<1>1. s \in Snapshots /\ a \in Allocations /\ v \in Nat
  BY PacketTrades DEF DecisionInv, BasisInv
<1>2. Target(x) = Goal(a, x, v) /\ Target(x) \in Nat
  BY <1>1, GoalBound DEF Target
<1>3. Quantity(s, x) \in Nat
  BY <1>1, QuantityType
<1>4. delta \in Int
  BY <1>2, <1>3
<1>5. TradeOf(x).amount = Magnitude(delta)
  BY <1>2, TradeFields DEF TradeOf
<1>6. packet.trades =
       {t \in {Trade(s, a, v, y) : y \in DOMAIN a \union Held(s)} : t.amount > 0 /\ t.amount >= r}
  BY DEF DecisionInv, BasisInv, ProposedTrades
<1>7. MicroTrade \in Int /\ MicroTrade >= 1 /\ r <= MicroTrade /\ r \in Int
  <2>1. v * MICRO_TRADE_EPSILON_BPS \in Int
    BY <1>1 DEF MICRO_TRADE_EPSILON_BPS
  <2>2. r \in Int
    BY <2>1, RoundType
  <2> QED
    BY <1>1, <2>2, MicroTradeNat
<1>8. Magnitude(delta) \in Nat /\ (Magnitude(delta) > 0 => delta # 0)
  <2> HIDE DEF delta
  <2> QED
    BY <1>4 DEF Magnitude
<1>9. ASSUME x \notin DOMAIN a \union Held(s) PROVE delta = 0
  <2>1. Goal(a, x, v) = 0
    BY <1>9 DEF Goal
  <2>2. Quantity(s, x) = 0
    BY <1>1, <1>9 DEF Quantity, Held, Snapshots
  <2> QED
    BY <1>2, <2>1, <2>2
<1> HIDE DEF r
<1>10. TradeOf(x) \in packet.trades => delta # 0
  BY <1>5, <1>6, <1>8
<1>11. ASSUME TradeOf(x) \notin packet.trades PROVE Magnitude(delta) < MicroTrade
  <2>1. CASE x \in DOMAIN a \union Held(s)
    <3>1. ~(TradeOf(x).amount > 0 /\ TradeOf(x).amount >= r)
      BY <1>6, <1>11, <2>1 DEF TradeOf
    <3> HIDE DEF delta
    <3> QED
      BY <1>5, <1>7, <1>8, <3>1
  <2>2. CASE x \notin DOMAIN a \union Held(s)
    <3>1. Magnitude(delta) = 0
      BY <1>9, <2>2 DEF Magnitude
    <3> QED
      BY <1>7, <3>1
  <2> QED
    BY <2>1, <2>2
<1> QED
  BY <1>2, <1>3, <1>4, <1>10, <1>11

(* When a packet is executed, each trade has brought its symbol to the     *)
(* target, and nothing else was moved.                                     *)
LEMMA ExecutedHoldings ==
  ASSUME PortfolioInv, Executed, Grounded, NEW x \in Symbols
  PROVE  /\ packet.made
         /\ Before(x) = Quantity(basis.row, x) /\ Before(x) \in Nat
         /\ Target(x) \in Nat /\ After(x) \in Nat
         /\ After(x) = IF TradeOf(x) \in packet.trades THEN Target(x) ELSE Before(x)
         /\ Filled(x) = After(x) - Before(x)
         /\ Magnitude(After(x) - Target(x)) < MicroTrade
<1> DEFINE q == Quantity(basis.row, x)
           delta == Target(x) - q
<1>1. TypeInv /\ DecisionInv /\ AccountInv /\ IntakeType
  BY DEF PortfolioInv, TypeInv
<1>2. packet.made /\ triggers # {}
  BY <1>1 DEF Executed, DecisionInv, OrdersInv
<1>3. /\ delta \in Int /\ Target(x) \in Nat /\ q \in Nat
      /\ TradeOf(x) \in packet.trades => delta # 0
      /\ TradeOf(x) \notin packet.trades => Magnitude(delta) < MicroTrade
  BY <1>1, <1>2, TradeNeeded
<1>4. Before(x) = q
  BY DEF Grounded, Before
<1>5. After(x) = Before(x) + Filled(x)
  BY <1>1, <1>2 DEF AccountInv, HoldInv
<1>6. OrderOK(x)
  BY <1>1, <1>2 DEF DecisionInv, OrdersInv
<1>7. MicroTrade \in Int /\ MicroTrade >= 1
  BY <1>1, <1>2, PacketTrades, MicroTradeNat
<1>8. CASE TradeOf(x) \in packet.trades
  <2>1. /\ TradeOf(x).symbol = x
        /\ TradeOf(x).amount = Magnitude(delta)
        /\ TradeOf(x).side = IF delta > 0 THEN "BUY" ELSE "SELL"
    BY TradeFields DEF TradeOf, Target
  <2>2. OrderOf[x] \in recorded
    BY <1>8, <2>1 DEF Executed
  <2>3. message[OrderOf[x]].kind # "none"
    BY <1>1, <2>2 DEF DecisionInv, OrdersInv
  <2>4. message[OrderOf[x]] = Fill(TradeOf(x))
    BY <1>6, <2>3 DEF OrderOK, NoMessage
  <2> HIDE DEF delta
  <2>5. Signed(Fill(TradeOf(x))) = delta
    BY <1>3, <2>1 DEF Fill, Signed, Magnitude
  <2>6. Filled(x) = delta
    BY <2>2, <2>4, <2>5 DEF Filled, FilledOf
  <2>7. After(x) = Target(x)
    BY <1>3, <1>4, <1>5, <2>6 DEF delta
  <2>8. Magnitude(After(x) - Target(x)) = 0
    BY <1>3, <2>7 DEF Magnitude
  <2> QED
    BY <1>2, <1>3, <1>4, <1>7, <1>8, <2>6, <2>7, <2>8 DEF delta
<1>9. CASE TradeOf(x) \notin packet.trades
  <2>1. message[OrderOf[x]].kind = "none"
    BY <1>6, <1>9 DEF OrderOK, NoMessage
  <2>2. OrderOf[x] \notin recorded
    BY <1>1, <2>1 DEF DecisionInv, OrdersInv
  <2>3. Filled(x) = 0
    BY <2>2 DEF Filled, FilledOf
  <2>4. After(x) = q
    BY <1>3, <1>4, <1>5, <2>3
  <2>5. Magnitude(After(x) - Target(x)) = Magnitude(delta)
    BY <1>3, <2>4 DEF Magnitude
  <2> QED
    BY <1>2, <1>3, <1>4, <1>9, <2>3, <2>4, <2>5
<1> QED
  BY <1>8, <1>9

(* The trades of assemble-packet.ts are enough: when they are filled in    *)
(* an account that nobody else traded in, every holding is within a micro  *)
(* trade of its target, what the target does not name included.            *)
THEOREM PacketReaches == Spec => []PacketReachesTarget
<1>1. PortfolioInv => PacketReachesTarget
  BY ExecutedHoldings DEF PacketReachesTarget
<1> QED
  BY <1>1, PortfolioInvariant, PTL

(* A greater factor makes a greater product.                               *)
LEMMA TimesMonotone ==
  ASSUME NEW v \in Nat, NEW a \in Int, NEW b \in Int, a <= b
  PROVE  v * a <= v * b /\ a * v = v * a
<1>1. v * (b - a) >= 0
  OBVIOUS
<1>2. v * (b - a) = v * b - v * a
  OBVIOUS
<1> QED
  BY <1>1, <1>2

(* The weights of the target and the holdings afterwards, of all symbols.  *)
Weights == [x \in Symbols |-> WeightOf(basis.allocation, x)]

(* The holdings, of all symbols.                                           *)
Afterwards == [x \in Symbols |-> After(x)]

(* The weights of the target add up over all symbols.                      *)
LEMMA WeightsSum ==
  ASSUME basis.allocation \in Allocations
  PROVE  /\ \A x \in Symbols : Weights[x] \in Nat
         /\ SumFunctionOnSet(Weights, Symbols) = SumFunction(basis.allocation)
         /\ SumFunction(basis.allocation) \in Int
<1> DEFINE a == basis.allocation
           D == DOMAIN a
<1>1. PICK named \in SUBSET Symbols : a \in [named -> 0 .. 100]
  BY AdviceAssumption
<1>2. D \in SUBSET Symbols /\ IsFiniteSet(D)
  BY <1>1, SymbolsFinite, FS_Subset
<1>3. /\ \A x \in D : a[x] \in Int /\ Weights[x] = a[x]
      /\ \A x \in Symbols \ D : Weights[x] = 0
      /\ \A x \in Symbols : Weights[x] \in Nat
  BY <1>1 DEF Weights, WeightOf
<1>4. SumFunction(a) = SumFunctionOnSet(a, D)
  BY WholeSum
<1> HIDE DEF a, D
<1>5. SumFunctionOnSet(Weights, Symbols) = SumFunctionOnSet(Weights, D)
  <2>1. \A x \in D : Weights[x] \in Int
    BY <1>3
  <2> QED
    BY <1>2, <1>3, <2>1, SymbolsFinite, SumNonzero
<1>6. SumFunctionOnSet(Weights, D) = SumFunctionOnSet(a, D)
  BY <1>2, <1>3, SumSame
<1>7. SumFunctionOnSet(a, D) \in Int
  BY <1>2, <1>3, SumType
<1> QED
  BY <1>3, <1>4, <1>5, <1>6, <1>7 DEF a

(* What is held afterwards is worth no more than the packet's value, but   *)
(* for a micro trade in each symbol.                                       *)
LEMMA AfterwardsBound ==
  ASSUME PortfolioInv, Executed, Grounded, SumFunction(basis.allocation) <= 100
  PROVE  /\ SumFunctionOnSet(Afterwards, Symbols) \in Int
         /\ SumFunctionOnSet(Afterwards, Symbols)
              <= packet.value + Cardinality(Symbols) * MicroTrade
<1> DEFINE v == packet.value
           d == 100 * MicroTrade - 50
           n == Cardinality(Symbols)
           total == SumFunctionOnSet(Afterwards, Symbols)
           weight == SumFunctionOnSet(Weights, Symbols)
<1>1. TypeInv /\ DecisionInv
  BY DEF PortfolioInv
<1>2. packet.made
  BY <1>1 DEF Executed, DecisionInv, OrdersInv
<1>3. v \in Nat /\ basis.allocation \in Allocations
  BY <1>1, <1>2, PacketTrades DEF DecisionInv, BasisInv
<1>4. MicroTrade \in Int /\ MicroTrade >= 1 /\ n \in Nat
  BY <1>3, MicroTradeNat, SymbolsFinite, FS_CardinalityType
<1>5. weight \in Int /\ weight <= 100
  BY <1>3, WeightsSum
<1>6. ASSUME NEW x \in Symbols
      PROVE  /\ Afterwards[x] \in Int /\ Weights[x] \in Int
             /\ 100 * Afterwards[x] <= v * Weights[x] + d
  <2>1. /\ After(x) \in Nat /\ Target(x) \in Nat
        /\ Magnitude(After(x) - Target(x)) < MicroTrade
    BY ExecutedHoldings
  <2>2. After(x) <= Target(x) + MicroTrade - 1
    BY <1>4, <2>1 DEF Magnitude
  <2>3. /\ WeightOf(basis.allocation, x) \in 0 .. 100
        /\ 100 * Target(x) <= WeightOf(basis.allocation, x) * v + 50
    BY <1>3, GoalBound DEF Target
  <2> DEFINE w == WeightOf(basis.allocation, x)
  <2>4. w * v = v * w /\ v * w \in Int
    BY <1>3, <2>3
  <2>5. Afterwards[x] = After(x) /\ Weights[x] = w
    BY DEF Afterwards, Weights
  <2> HIDE DEF w
  <2>6. 100 * After(x) <= v * w + d
    <3>1. 100 * Target(x) <= v * w + 50
      BY <2>3, <2>4 DEF w
    <3> HIDE DEF v
    <3> QED
      BY <1>4, <2>1, <2>2, <2>4, <3>1
  <2> QED
    BY <2>1, <2>3, <2>5, <2>6 DEF w
<1>7. d \in Int /\ v \in Int
  BY <1>3, <1>4
<1> HIDE DEF d, v
<1>8. 100 * total <= v * weight + 0 * weight + d * n
  <2> DEFINE h == 100
             z == 0
  <2>1. h \in Int /\ z \in Int
    OBVIOUS
  <2>2. /\ \A x \in Symbols : Afterwards[x] \in Int /\ Weights[x] \in Int
        /\ \A x \in Symbols : h * Afterwards[x] <= v * Weights[x] + z * Weights[x] + d
    <3>1. ASSUME NEW x \in Symbols
          PROVE  h * Afterwards[x] <= v * Weights[x] + z * Weights[x] + d
      <4>1. v * Weights[x] \in Int /\ z * Weights[x] = 0
        BY <1>6, <1>7
      <4> QED
        BY <1>6, <1>7, <4>1
    <3> QED
      BY <1>6, <3>1
  <2> HIDE DEF h, z
  <2>3. h * total <= v * weight + z * weight + d * n
    BY <1>7, <2>1, <2>2, SymbolsFinite, SumBound
  <2> QED
    BY <2>3 DEF h, z
<1>9. total \in Int
  <2>1. \A x \in Symbols : Afterwards[x] \in Int
    BY <1>6
  <2> QED
    BY <2>1, SymbolsFinite, SumType
<1> HIDE DEF total, weight, n
<1>10. v * weight <= v * 100 /\ v * weight \in Int /\ v \in Nat
  BY <1>3, <1>5, TimesMonotone DEF v
<1>11. d * n = 100 * (n * MicroTrade) - 50 * n /\ n * MicroTrade \in Int
  BY <1>4 DEF d
<1>12. total <= v + n * MicroTrade
  <2> DEFINE p == n * MicroTrade
             u == v * weight
             e == d * n
  <2>1. /\ 100 * total <= u + e /\ u <= 100 * v /\ e = 100 * p - 50 * n
        /\ u \in Int /\ p \in Int /\ e \in Int
    BY <1>4, <1>5, <1>7, <1>8, <1>10, <1>11
  <2> HIDE DEF p, u, e
  <2>2. total <= v + p
    BY <1>4, <1>9, <1>10, <2>1
  <2> QED
    BY <2>2 DEF p
<1> QED
  BY <1>9, <1>12 DEF total, v, n

(* What the fills cost is what is held afterwards less what was held, and  *)
(* that is bounded by the value of the packet, which is what there was.    *)
LEMMA FundedFollows == PortfolioInv => PacketIsFunded
<1> SUFFICES ASSUME PortfolioInv, Executed, Grounded,
                    SumFunction(basis.allocation) <= 100, NoLaterWithdrawal
             PROVE  Account("actual").cash + Unrecorded
                      >= -Overstated - Cardinality(Symbols) * MicroTrade
  BY DEF PacketIsFunded, NoLaterWithdrawal
<1> DEFINE f == Fills(recorded, message)
           g == Afterwards
           h == Holding(basis.row)
           moved == SumFunctionOnSet(f, Symbols)
           total == SumFunctionOnSet(g, Symbols)
           held == PositionsValue(basis.row)
           n == Cardinality(Symbols)
<1>1. TypeInv /\ DecisionInv /\ AccountInv /\ IntakeType /\ ViewsType
  BY DEF PortfolioInv, TypeInv
<1>2. packet.made
  BY <1>1 DEF Executed, DecisionInv, OrdersInv
<1>3. /\ basis.row \in Snapshots /\ basis.account \in Snapshots
      /\ basis.trigger \in Nat /\ basis.unrecorded \in Int
      /\ packet.value = held + basis.row.cash + basis.trigger
  BY <1>1, <1>2 DEF DecisionInv, BasisInv
<1>4. basis.row.cash \in Int /\ basis.account.cash \in Int
  BY <1>3 DEF Snapshots
<1>5. total \in Int /\ total <= packet.value + n * MicroTrade
  BY AfterwardsBound
<1>6. held = SumFunctionOnSet(h, Symbols) /\ held \in Int
  BY <1>3, PositionsValueSum
<1>7. Account("actual").cash + Unrecorded = basis.account.cash + basis.unrecorded - moved
  BY <1>1, <1>2 DEF AccountInv, CashInv
<1>8. Account("actual").cash \in Int /\ Unrecorded \in Int
  <2>1. Account("actual") \in Snapshots
    BY <1>1, AccountType DEF IntakeType, Streams, Solvent
  <2> QED
    BY <1>1, <2>1, UnrecordedIs DEF IntakeType, Snapshots
<1>9. moved \in Int
  BY <1>1, FillsType DEF IntakeType
<1>10. moved <= total - held
  <2> DEFINE u == 1
             w == -1
             z == 0
  <2>1. u \in Int /\ w \in Int /\ z \in Int
    OBVIOUS
  <2>2. ASSUME NEW x \in Symbols
        PROVE  /\ f[x] \in Int /\ g[x] \in Int /\ h[x] \in Int
               /\ u * f[x] <= u * g[x] + w * h[x] + z
    <3>1. f[x] = Filled(x) /\ f[x] \in Int
      BY <1>1, FillsType DEF IntakeType, Filled
    <3>2. g[x] = After(x) /\ h[x] = Before(x) /\ h[x] \in Nat /\ g[x] \in Nat
          /\ Filled(x) = After(x) - Before(x)
      BY ExecutedHoldings DEF Afterwards, Holding
    <3> HIDE DEF f, g, h
    <3> QED
      BY <3>1, <3>2
  <2> HIDE DEF u, w, z, f, g, h
  <2>3. u * moved <= u * total + w * SumFunctionOnSet(h, Symbols) + z * Cardinality(Symbols)
    BY <2>1, <2>2, SymbolsFinite, SumBound
  <2>4. u * moved <= u * total + w * held + z * n /\ n \in Nat
    BY <1>6, <2>3, SymbolsFinite, FS_CardinalityType
  <2> HIDE DEF moved, total, held, n
  <2> QED
    BY <1>5, <1>6, <1>9, <2>4 DEF u, w, z
<1>11. n * MicroTrade \in Int
  <2>1. MicroTrade \in Int
    <3>1. packet.value \in Int
      BY <1>1 DEF TypeInv, AdviceType, Packets
    <3> QED
      BY <3>1, MicroTradeNat
  <2>2. n \in Nat
    BY SymbolsFinite, FS_CardinalityType
  <2> HIDE DEF n
  <2> QED
    BY <2>1, <2>2
<1>12. packet.value \in Int
  BY <1>1 DEF TypeInv, AdviceType, Packets
<1> DEFINE p == n * MicroTrade
<1>13. p \in Int /\ total <= packet.value + p
  BY <1>5, <1>11
<1>14. /\ Overstated \in Int
       /\ Overstated >= basis.row.cash + basis.trigger
                          - (basis.account.cash + basis.unrecorded)
  <2> DEFINE d == basis.row.cash + basis.trigger
                    - (basis.account.cash + basis.unrecorded)
             A == {0, d}
  <2>1. d \in Int
    BY <1>3, <1>4
  <2> HIDE DEF d
  <2>2. IsFiniteSet(A) /\ A \subseteq Int /\ A # {}
    <3>1. IsFiniteSet({0}) /\ A = {0} \union {d}
      BY FS_Singleton
    <3>2. IsFiniteSet(A)
      BY <3>1, FS_AddElement
    <3> QED
      BY <2>1, <3>2
  <2>3. 0 \in A /\ d \in A
    OBVIOUS
  <2> HIDE DEF A
  <2>4. Max(A) \in A /\ \A y \in A : Max(A) >= y
    BY <2>2, MaxElement
  <2>5. Max(A) \in Int /\ Max(A) >= d
    BY <2>2, <2>3, <2>4
  <2> QED
    BY <2>5 DEF A, d, Overstated
<1> HIDE DEF f, g, h, moved, total, held, p
<1>15. Account("actual").cash + Unrecorded >= -Overstated - p
  BY <1>3, <1>4, <1>6, <1>7, <1>8, <1>9, <1>10, <1>12, <1>13, <1>14, <1>5
<1> QED
  BY <1>15 DEF p

(* The packets of assemble-packet.ts overdraw the account by no more than  *)
(* a micro trade in each symbol and the cash that the row and the trigger  *)
(* showed and that was not there, unless the target adds up to more than   *)
(* the whole or cash was withdrawn since.                                  *)
THEOREM PacketFunded == Spec => []PacketIsFunded
BY FundedFollows, PortfolioInvariant, PTL

-----------------------------------------------------------------------------
(* The limits.                                                             *)

(* The limits of an operating mode are numbers.                            *)
LEMMA LimitsNat ==
  ASSUME NEW mandate \in Mandates \ {NoMandate}
  PROVE  LET params == GuardrailParams[mandate.operatingMode] IN
         params.single \in Nat /\ params.turnover \in Nat /\ params.concentration \in Nat
<1>1. mandate.operatingMode \in {"CONSERVATIVE", "BALANCED", "AGGRESSIVE"}
  BY AdviceAssumption
<1> QED
  BY <1>1 DEF GuardrailParams

(* What a trade of an executed packet did.                                 *)
LEMMA ExecutedTrade ==
  ASSUME PortfolioInv, Executed, Grounded, NEW x \in Symbols
  PROVE  /\ packet.made /\ packet.value \in Nat
         /\ TradeOf(x).symbol = x
         /\ TradeOf(x).weight = WeightOf(basis.allocation, x)
         /\ TradeOf(x).side = IF Target(x) - Before(x) > 0 THEN "BUY" ELSE "SELL"
         /\ TradeOf(x).amount = Magnitude(Target(x) - Before(x))
         /\ TradeOf(x).amount \in Nat
         /\ 100 * Target(x) <= WeightOf(basis.allocation, x) * packet.value + 50
         /\ WeightOf(basis.allocation, x) \in 0 .. 100
<1>1. TypeInv /\ DecisionInv /\ packet.made
  BY ExecutedHoldings DEF PortfolioInv
<1>2. packet.value \in Nat /\ basis.allocation \in Allocations
  BY <1>1, PacketTrades DEF DecisionInv, BasisInv
<1>3. Before(x) = Quantity(basis.row, x) /\ Before(x) \in Nat /\ Target(x) \in Nat
  BY ExecutedHoldings
<1>4. Target(x) - Before(x) = Goal(basis.allocation, x, packet.value) - Quantity(basis.row, x)
  BY <1>3 DEF Target
<1>5. /\ TradeOf(x).symbol = x
      /\ TradeOf(x).weight = WeightOf(basis.allocation, x)
      /\ TradeOf(x).side = IF Target(x) - Before(x) > 0 THEN "BUY" ELSE "SELL"
      /\ TradeOf(x).amount = Magnitude(Target(x) - Before(x))
  BY <1>4, TradeFields DEF TradeOf, WeightOf
<1>6. TradeOf(x).amount \in Nat
  BY <1>3, <1>5 DEF Magnitude
<1>7. /\ 100 * Target(x) <= WeightOf(basis.allocation, x) * packet.value + 50
      /\ WeightOf(basis.allocation, x) \in 0 .. 100
  BY <1>2, GoalBound DEF Target
<1> QED
  BY <1>1, <1>2, <1>5, <1>6, <1>7

(* checkConcentrationLimit has bounded the weight of every purchase, and   *)
(* the holding is at its weight.                                           *)
LEMMA ConcentrationFollows ==
  ASSUME PortfolioInv, Executed, Grounded
  PROVE  ConcentrationHeld
<1>1. PICK mandate \in Mandates \ {NoMandate} :
         /\ ~Violates(packet, mandate)
         /\ verdict.mode = mandate.operatingMode
  BY DEF PortfolioInv, DecisionInv, VerdictInv, Executed
<1> DEFINE c == GuardrailParams[verdict.mode].concentration
           v == packet.value
<1>2. c \in Nat
  BY <1>1, LimitsNat
<1> SUFFICES ASSUME NEW t \in packet.trades, t.side = "BUY"
             PROVE  100 * (After(t.symbol) - 1) <= v * c
  BY DEF ConcentrationHeld
<1> DEFINE x == t.symbol
           w == WeightOf(basis.allocation, x)
<1>3. x \in Symbols /\ t = TradeOf(x)
  <2>1. TypeInv /\ DecisionInv /\ packet.made
    BY DEF PortfolioInv, DecisionInv, OrdersInv
  <2> QED
    BY <2>1, PacketTrades
<1> HIDE DEF x
<1>4. t.weight <= c
  <2>1. ~Concentrated(packet, mandate.operatingMode)
    BY <1>1 DEF Violates
  <2>2. t.weight \in Nat /\ ~(t.weight > c)
    BY <1>1, <1>3, <2>1, ExecutedTrade DEF Concentrated
  <2> QED
    BY <1>2, <2>2
<1>5. w \in Nat /\ w <= c /\ 100 * Target(x) <= w * v + 50 /\ v \in Nat
  BY <1>3, <1>4, ExecutedTrade
<1>6. After(x) = Target(x) /\ Target(x) \in Nat
  BY <1>3, ExecutedHoldings
<1> HIDE DEF w, v, c
<1>7. w * v <= v * c /\ w * v \in Int /\ v * c \in Int
  BY <1>2, <1>5, TimesMonotone
<1>8. 100 * (After(x) - 1) <= v * c
  BY <1>5, <1>6, <1>7
<1> QED
  BY <1>8 DEF x

(* The amounts of trades, and what was moved of each symbol.               *)
Amount(trades) == [t \in trades |-> t.amount]

(* The shares moved, either way.                                           *)
Moves == [x \in Symbols |-> Magnitude(After(x) - Before(x))]

(* What an executed packet moves is what its trades say.                   *)
LEMMA MovesTotal ==
  ASSUME PortfolioInv, Executed, Grounded
  PROVE  /\ Total(packet.trades) = SumFunctionOnSet(Moves, Symbols)
         /\ \A x \in Symbols :
              Moves[x] = IF TradeOf(x) \in packet.trades THEN TradeOf(x).amount ELSE 0
<1> DEFINE T == packet.trades
           f == Amount(T)
           e == [t \in T |-> t.symbol]
           R == {e[t] : t \in T}
<1>1. TypeInv /\ DecisionInv /\ packet.made
  BY DEF PortfolioInv, DecisionInv, OrdersInv, Executed
<1>2. IsFiniteSet(T) /\ \A t \in T : t.symbol \in Symbols /\ t = TradeOf(t.symbol)
  BY <1>1, PacketTrades DEF TypeInv, AdviceType
<1>3. ASSUME NEW x \in Symbols
      PROVE  Moves[x] = IF TradeOf(x) \in T THEN TradeOf(x).amount ELSE 0
  <2>1. Moves[x] = Magnitude(After(x) - Before(x))
    BY DEF Moves
  <2>2. /\ Before(x) \in Nat
        /\ After(x) = IF TradeOf(x) \in T THEN Target(x) ELSE Before(x)
    BY ExecutedHoldings
  <2>3. TradeOf(x).amount = Magnitude(Target(x) - Before(x))
    BY ExecutedTrade
  <2>4. Magnitude(Before(x) - Before(x)) = 0
    BY <2>2 DEF Magnitude
  <2> QED
    BY <2>1, <2>2, <2>3, <2>4
<1>4. ASSUME NEW t \in T
      PROVE  f[t] \in Int /\ Moves[e[t]] = f[t] /\ e[t] = t.symbol
  <2>1. f[t] = t.amount /\ e[t] = t.symbol
    BY DEF Amount
  <2>2. t.symbol \in Symbols /\ t = TradeOf(t.symbol)
    BY <1>2
  <2>3. TradeOf(t.symbol).amount \in Nat
    BY <2>2, ExecutedTrade
  <2>4. Moves[t.symbol] = t.amount
    BY <1>3, <2>2
  <2> QED
    BY <2>1, <2>2, <2>3, <2>4
<1>5. \A t, u \in T : e[t] = e[u] => t = u
  BY <1>2, <1>4
<1>6. R \subseteq Symbols
  BY <1>2, <1>4
<1>7. \A x \in Symbols \ R : Moves[x] = 0
  <2> SUFFICES ASSUME NEW x \in Symbols, TradeOf(x) \in T PROVE x \in R
    BY <1>3
  <2>1. TradeOf(x).symbol = x
    BY ExecutedTrade
  <2> QED
    BY <1>4, <2>1
<1>8. \A x \in R : Moves[x] \in Int
  BY <1>4
<1>9. Total(T) = SumFunctionOnSet(f, T)
  BY WholeSum DEF Total, Amount
<1> HIDE DEF f, e, T
<1>10. SumFunctionOnSet(Moves, R) = SumFunctionOnSet(f, T)
  BY <1>2, <1>4, <1>5, SumReindex
<1> HIDE DEF R
<1>11. SumFunctionOnSet(Moves, Symbols) = SumFunctionOnSet(Moves, R)
  BY <1>6, <1>7, <1>8, SymbolsFinite, SumNonzero
<1> QED
  BY <1>3, <1>9, <1>10, <1>11 DEF T

(* The mandate alone is authority only where the thresholds of             *)
(* checkSingleTradeSize and checkTurnoverCap hold of the trades, and       *)
(* these are what was moved.                                               *)
LEMMA AuthorityFollows ==
  ASSUME PortfolioInv, Executed, Grounded
  PROVE  AuthorityHeld
<1>1. PICK mandate \in Mandates \ {NoMandate} :
         /\ verdict.level = Authority(packet, mandate)
         /\ verdict.mode = mandate.operatingMode
  BY DEF PortfolioInv, DecisionInv, VerdictInv, Executed
<1> SUFFICES ASSUME verdict.level = "L1" PROVE AuthorityHeld
  BY DEF AuthorityHeld
<1> DEFINE single == GuardrailParams[verdict.mode].single
           turnover == GuardrailParams[verdict.mode].turnover
           v == packet.value
           T == packet.trades
<1>2. single \in Nat /\ turnover \in Nat
  BY <1>1, LimitsNat
<1>3. ~Oversized(packet, verdict.mode) /\ ~TurnsOver(packet, verdict.mode)
  BY <1>1 DEF Authority
<1>4. v \in Nat /\ TypeInv
  <2>1. TypeInv /\ DecisionInv /\ packet.made
    BY DEF PortfolioInv, DecisionInv, OrdersInv, Executed
  <2> QED
    BY <2>1, PacketTrades
<1>5. ASSUME NEW x \in Symbols
      PROVE  100 * Magnitude(After(x) - Before(x)) <= v * single
  <2>1. Magnitude(After(x) - Before(x)) = Moves[x]
    BY DEF Moves
  <2>2. Moves[x] = IF TradeOf(x) \in T THEN TradeOf(x).amount ELSE 0
    BY MovesTotal
  <2>3. TradeOf(x).amount \in Nat
    BY ExecutedTrade
  <2>4. TradeOf(x) \in T => ~(100 * TradeOf(x).amount > v * single)
    BY <1>3 DEF Oversized
  <2> HIDE DEF v, single, T
  <2>5. v * single \in Nat
    BY <1>2, <1>4
  <2> QED
    BY <2>1, <2>2, <2>3, <2>4, <2>5
<1>6. 100 * SumFunction([x \in Symbols |-> Magnitude(After(x) - Before(x))]) <= v * turnover
  <2>1. SumFunction(Moves) = SumFunctionOnSet(Moves, Symbols)
    BY WholeSum DEF Moves
  <2>2. Total(T) = SumFunctionOnSet(Moves, Symbols)
    BY MovesTotal
  <2>3. ~(100 * Total(T) > v * turnover)
    BY <1>3 DEF TurnsOver
  <2>4. Total(T) \in Int
    <3>1. \A x \in Symbols : Moves[x] \in Int
      BY MovesTotal, ExecutedTrade
    <3> QED
      BY <2>2, <3>1, SymbolsFinite, SumType
  <2> HIDE DEF v, turnover, T
  <2>5. v * turnover \in Nat
    BY <1>2, <1>4
  <2>6. 100 * SumFunction(Moves) <= v * turnover
    BY <2>1, <2>2, <2>3, <2>4, <2>5
  <2> QED
    BY <2>6 DEF Moves
<1> QED
  BY <1>5, <1>6 DEF AuthorityHeld

(* The symbols of equity funds.                                            *)
Equities == {x \in Symbols : AssetClass[x] = "EQUITY"}

(* The weight of a symbol, if the packet trades it.                        *)
TradedWeights ==
  [x \in Symbols |-> IF TradeOf(x) \in packet.trades
                     THEN WeightOf(basis.allocation, x) ELSE 0]

(* The trades that buy them.                                               *)
EquityBuys == {t \in packet.trades : t.class = "EQUITY" /\ t.side = "BUY"}

(* In an initial build everything is bought, and nothing outside the       *)
(* target.                                                                 *)
LEMMA InitialTrades ==
  ASSUME PortfolioInv, Executed, Grounded, InitialBuild(packet), NEW x \in Symbols
  PROVE  /\ Before(x) = 0
         /\ TradeOf(x) \in packet.trades =>
              TradeOf(x).side = "BUY" /\ TradeOf(x).class = AssetClass[x]
<1>1. TypeInv /\ DecisionInv /\ packet.made
  BY DEF PortfolioInv, DecisionInv, OrdersInv, Executed
<1>2. Held(basis.row) = {} /\ basis.row \in Snapshots
  BY <1>1 DEF DecisionInv, BasisInv, InitialBuild
<1>3. Before(x) = Quantity(basis.row, x) /\ Before(x) \in Nat /\ Target(x) \in Nat
  BY ExecutedHoldings
<1>4. Before(x) = 0
  BY <1>2, <1>3 DEF Quantity, Held, Snapshots
<1>5. ASSUME TradeOf(x) \in packet.trades
      PROVE  TradeOf(x).side = "BUY" /\ TradeOf(x).class = AssetClass[x]
  <2>1. Target(x) - Quantity(basis.row, x) # 0
    BY <1>1, <1>5, TradeNeeded
  <2>2. Target(x) - Before(x) > 0 /\ Target(x) # 0
    BY <1>3, <1>4, <2>1
  <2>3. TradeOf(x).side = "BUY"
    BY <2>2, ExecutedTrade
  <2>4. x \in DOMAIN basis.allocation
    BY <2>2 DEF Target, Goal
  <2>5. TradeOf(x).class = AssetClass[x]
    BY <2>4, TradeFields DEF TradeOf
  <2> QED
    BY <2>3, <2>5
<1> QED
  BY <1>4, <1>5

(* What an initial build changes is the weight of the equities it buys.    *)
LEMMA EquityBought ==
  ASSUME PortfolioInv, Executed, Grounded, InitialBuild(packet)
  PROVE  EquityChange(packet.trades) = SumFunctionOnSet(TradedWeights, Equities)
<1> DEFINE T == packet.trades
           B == EquityBuys
           weight == [t \in T |-> t.weight]
           e == [t \in B |-> t.symbol]
           R == {e[t] : t \in B}
<1>1. TypeInv /\ DecisionInv /\ packet.made
  BY DEF PortfolioInv, DecisionInv, OrdersInv, Executed
<1>2. IsFiniteSet(T) /\ \A t \in T : t.symbol \in Symbols /\ t = TradeOf(t.symbol)
  BY <1>1, PacketTrades DEF TypeInv, AdviceType
<1>3. \A t \in T : t.side = "BUY" /\ t.class = AssetClass[t.symbol]
  BY <1>2, InitialTrades
<1>4. {t \in T : t.class = "EQUITY" /\ t.side = "SELL"} = {}
  BY <1>3
<1>5. B \in SUBSET T /\ IsFiniteSet(B)
  BY <1>2, FS_Subset DEF EquityBuys
<1>6. ASSUME NEW t \in B
      PROVE  /\ t \in T /\ weight[t] \in Int /\ e[t] = t.symbol
             /\ TradedWeights[e[t]] = weight[t] /\ e[t] \in Equities
  <2>1. t \in T /\ t.class = "EQUITY" /\ e[t] = t.symbol
    BY DEF EquityBuys
  <2>2. t.symbol \in Symbols /\ t = TradeOf(t.symbol) /\ AssetClass[t.symbol] = "EQUITY"
    BY <1>2, <1>3, <2>1
  <2>3. weight[t] = t.weight
    BY <2>1
  <2>4. t.weight = WeightOf(basis.allocation, t.symbol)
        /\ WeightOf(basis.allocation, t.symbol) \in 0 .. 100
    BY <2>2, ExecutedTrade
  <2>5. TradedWeights[t.symbol] = WeightOf(basis.allocation, t.symbol)
    BY <2>1, <2>2 DEF TradedWeights
  <2> QED
    BY <2>1, <2>2, <2>3, <2>4, <2>5 DEF Equities
<1>7. \A t, u \in B : e[t] = e[u] => t = u
  BY <1>2, <1>6
<1>8. R \subseteq Equities
  BY <1>6
<1>9. \A x \in Equities \ R : TradedWeights[x] = 0
  <2> SUFFICES ASSUME NEW x \in Equities, TradeOf(x) \in T PROVE x \in R
    BY DEF TradedWeights, Equities
  <2>1. x \in Symbols /\ AssetClass[x] = "EQUITY"
    BY DEF Equities
  <2>2. TradeOf(x).symbol = x /\ TradeOf(x).class = "EQUITY" /\ TradeOf(x).side = "BUY"
    BY <2>1, ExecutedTrade, InitialTrades
  <2>3. TradeOf(x) \in B
    BY <2>2 DEF EquityBuys
  <2> QED
    BY <1>6, <2>2, <2>3
<1>10. IsFiniteSet(Equities)
  BY SymbolsFinite, FS_Subset DEF Equities
<1>11. EquityChange(T) = SumFunctionOnSet(weight, B)
  <2>1. EquityChange(T) = SumFunctionOnSet(weight, B) - SumFunctionOnSet(weight, {})
    BY <1>4 DEF EquityChange, EquityBuys
  <2> HIDE DEF weight, B
  <2>2. SumFunctionOnSet(weight, {}) = 0
    BY SumEmpty
  <2>3. SumFunctionOnSet(weight, B) \in Int
    BY <1>5, <1>6, SumType
  <2> QED
    BY <2>1, <2>2, <2>3
<1> HIDE DEF weight, e, B
<1>12. SumFunctionOnSet(TradedWeights, R) = SumFunctionOnSet(weight, B)
  BY <1>5, <1>6, <1>7, SumReindex
<1>13. \A x \in R : TradedWeights[x] \in Int
  BY <1>6
<1> HIDE DEF R
<1>14. SumFunctionOnSet(TradedWeights, Equities) = SumFunctionOnSet(TradedWeights, R)
  BY <1>8, <1>9, <1>10, <1>13, SumNonzero
<1> QED
  BY <1>11, <1>12, <1>14

(* The suitability checker has bounded the weight of the equities bought,  *)
(* and in an initial build there are no others.                            *)
LEMMA SuitabilityFollows ==
  ASSUME PortfolioInv, Executed, Grounded
  PROVE  SuitabilityHeld
<1> SUFFICES ASSUME InitialBuild(packet) PROVE SuitabilityHeld
  BY DEF SuitabilityHeld
<1> DEFINE v == packet.value
           most == MaxEquity[packet.risk]
           E == Equities
           k == Cardinality(E)
           n == Cardinality(Symbols)
           weight == SumFunctionOnSet(TradedWeights, E)
           total == SumFunctionOnSet(Afterwards, E)
           held == [x \in {y \in Symbols : AssetClass[y] = "EQUITY"} |-> After(x)]
<1>1. TypeInv /\ DecisionInv /\ packet.made
  BY DEF PortfolioInv, DecisionInv, OrdersInv, Executed
<1>2. v \in Nat /\ most \in Nat
  <2>1. packet.risk \in RiskCategories
    BY <1>1 DEF TypeInv, AdviceType, Packets
  <2> QED
    BY <1>1, <2>1, PacketTrades DEF RiskCategories, MaxEquity
<1>3. /\ IsFiniteSet(E) /\ E \subseteq Symbols /\ k \in Nat /\ n \in Nat /\ k <= n
  BY SymbolsFinite, FS_Subset, FS_CardinalityType DEF Equities
<1>4. \A x \in E : Afterwards[x] \in Nat /\ Afterwards[x] = After(x)
  BY <1>3, ExecutedHoldings DEF Afterwards
<1>5. ASSUME NEW x \in E
      PROVE  /\ Afterwards[x] \in Int /\ TradedWeights[x] \in Int
             /\ 100 * Afterwards[x] <= v * TradedWeights[x] + 50
  <2> DEFINE w == WeightOf(basis.allocation, x)
  <2>1. x \in Symbols
    BY <1>3
  <2>2. /\ Before(x) = 0 /\ Target(x) \in Nat /\ After(x) \in Nat
        /\ After(x) = IF TradeOf(x) \in packet.trades THEN Target(x) ELSE Before(x)
    BY <2>1, ExecutedHoldings, InitialTrades
  <2>3. w \in 0 .. 100 /\ 100 * Target(x) <= w * v + 50
    BY <2>1, ExecutedTrade
  <2>4. TradedWeights[x] = IF TradeOf(x) \in packet.trades THEN w ELSE 0
    BY <2>1 DEF TradedWeights
  <2> HIDE DEF w, v
  <2>5. w * v = v * w /\ v * w \in Int /\ v * 0 = 0
    BY <1>2, <2>3
  <2>6. CASE TradeOf(x) \in packet.trades
    BY <1>4, <2>2, <2>3, <2>4, <2>5, <2>6
  <2>7. CASE TradeOf(x) \notin packet.trades
    BY <1>4, <2>2, <2>4, <2>5, <2>7
  <2> QED
    BY <2>6, <2>7
<1>6. weight \in Int /\ weight <= most
  <2>1. weight \in Int
    BY <1>3, <1>5, SumType
  <2>2. ~Unsuitable(packet)
    BY DEF PortfolioInv, DecisionInv, VerdictInv, Executed, Violates
  <2>3. ~(weight > most)
    BY <2>2, EquityBought DEF Unsuitable
  <2> HIDE DEF weight, most
  <2> QED
    BY <1>2, <2>1, <2>3
<1>7. total \in Int
  BY <1>3, <1>5, SumType
<1>8. SumFunction(held) = total
  <2>1. SumFunction(held) = SumFunctionOnSet(held, E)
    BY WholeSum DEF Equities
  <2>2. \A x \in E : Afterwards[x] \in Int /\ held[x] = Afterwards[x]
    BY <1>4 DEF Equities
  <2> HIDE DEF held, E
  <2>3. SumFunctionOnSet(held, E) = SumFunctionOnSet(Afterwards, E)
    BY <1>3, <2>2, SumSame
  <2> QED
    BY <2>1, <2>3
<1> HIDE DEF v, E
<1>9. 100 * total <= v * weight + 0 * weight + 50 * k
  <2> DEFINE h == 100
             z == 0
             d == 50
  <2>1. h \in Int /\ z \in Int /\ d \in Int /\ v \in Int
    BY <1>2
  <2>2. ASSUME NEW x \in E
        PROVE  h * Afterwards[x] <= v * TradedWeights[x] + z * TradedWeights[x] + d
    <3>1. v * TradedWeights[x] \in Int /\ z * TradedWeights[x] = 0
      BY <1>5, <2>1
    <3> QED
      BY <1>5, <2>1, <3>1
  <2> HIDE DEF h, z, d
  <2>3. h * total <= v * weight + z * weight + d * k
    BY <1>3, <1>5, <2>1, <2>2, SumBound
  <2> QED
    BY <2>3 DEF h, z, d
<1> HIDE DEF total, weight, k, n, most
<1>10. v * weight <= v * most /\ v * weight \in Int /\ v * most \in Int
  BY <1>2, <1>6, TimesMonotone
<1>11. 100 * (total - n) <= v * most
  <2>1. 100 * total <= v * weight + 50 * k
    <3>1. 0 * weight = 0 /\ v * weight \in Int /\ 50 * k \in Int
      BY <1>3, <1>6, <1>10
    <3> QED
      BY <1>9, <3>1
  <2> QED
    BY <1>3, <1>7, <1>10, <2>1
<1> QED
  BY <1>8, <1>11 DEF SuitabilityHeld, n, v, most

(* What compliance-ctrl approves stays within its limits when it is        *)
(* executed: no purchase passes the concentration limit of the operating   *)
(* mode, what is done on the authority of the mandate stays within its     *)
(* thresholds, an initial build included, and an initial build leaves no   *)
(* more equity than the risk category allows.                              *)
THEOREM ExecutedInLimits == Spec => []ExecutedWithinLimits
<1>1. PortfolioInv => ExecutedWithinLimits
  BY ConcentrationFollows, AuthorityFollows, SuitabilityFollows DEF ExecutedWithinLimits
<1> QED
  BY <1>1, PortfolioInvariant, PTL

-----------------------------------------------------------------------------
(* The ledger and its read models.                                         *)

(* Every snapshot that is saved, published or shown.                       *)
Versions ==
  {saved[s] : s \in Streams} \union {e[2] : e \in published}
    \union {rows[r] : r \in DOMAIN rows}

(* What the comparison of versions by a row relies on: no snapshot is      *)
(* ahead of its stream, and those of one stream and one version are the    *)
(* same account. (NoSnapshot, the version 0, is no account.)               *)
VersionsInv ==
  /\ \A a \in Versions : a.last <= saved[a.stream].last
  /\ \A a, b \in Versions : a.stream = b.stream /\ a.last = b.last /\ a.last > 0 => a = b

(* The reducer raises the version with every entry it folds.               *)
LEMMA FoldLast ==
  ASSUME NEW stream, NEW b \in Solvent(stream), NEW q \in Seq(Message),
         NEW k \in 1 .. Len(q)
  PROVE  Fold(b, SubSeq(q, 1, k)).last > b.last
<1> DEFINE V == Solvent(stream)
           T == {n \in Nat : n + 1 <= Len(q) => Fold(b, SubSeq(q, 1, n + 1)).last > b.last}
<1>1. Closed(V) /\ b \in V /\ b.last \in Nat
  <2>1. Closed(V)
    BY SolventClosed
  <2>2. b \in Snapshots
    BY DEF Solvent
  <2> QED
    BY <2>1, <2>2 DEF Snapshots
<1> HIDE DEF V
<1>2. ASSUME NEW i \in 1 .. Len(q)
      PROVE  /\ SubSeq(q, 1, i - 1) \in Seq(Message)
             /\ Fold(b, SubSeq(q, 1, i - 1)).last \in Nat
             /\ Fold(b, SubSeq(q, 1, i)).last = Fold(b, SubSeq(q, 1, i - 1)).last + 1
  <2> DEFINE p == SubSeq(q, 1, i - 1)
             e == q[i]
  <2>1. p \in Seq(Message) /\ e \in Message /\ SubSeq(q, 1, i) = Append(p, e)
    BY SubSeqAppend
  <2> HIDE DEF p, e
  <2>2. Fold(b, p) \in V /\ Fold(b, Append(p, e)) = ApplyEntry(Fold(b, p), e)
    BY <1>1, <2>1, FoldType, FoldAppend
  <2>3. Fold(b, p) \in Snapshots
    BY <2>2 DEF V, Solvent
  <2>4. ApplyEntry(Fold(b, p), e).last = Fold(b, p).last + 1 /\ Fold(b, p).last \in Nat
    BY <2>1, <2>3, EntryEffect DEF Snapshots
  <2> QED
    BY <2>1, <2>2, <2>4 DEF p
<1>3. Fold(b, SubSeq(q, 1, 0)) = b
  <2>1. SubSeq(q, 1, 0) = <<>>
    OBVIOUS
  <2> QED
    BY <1>1, <2>1, FoldEmpty
<1>4. 0 \in T
  <2>1. SUFFICES ASSUME 0 + 1 <= Len(q) PROVE Fold(b, SubSeq(q, 1, 0 + 1)).last > b.last
    OBVIOUS
  <2>2. 1 \in 1 .. Len(q) /\ 1 - 1 = 0 /\ 0 + 1 = 1
    BY <2>1
  <2>3. Fold(b, SubSeq(q, 1, 1)).last = Fold(b, SubSeq(q, 1, 0)).last + 1
    BY <1>2, <2>2
  <2> QED
    BY <1>1, <1>3, <2>2, <2>3
<1>5. ASSUME NEW n \in T PROVE n + 1 \in T
  <2>1. n \in Nat /\ (n + 1 <= Len(q) => Fold(b, SubSeq(q, 1, n + 1)).last > b.last)
    OBVIOUS
  <2>2. SUFFICES ASSUME (n + 1) + 1 <= Len(q)
                 PROVE  Fold(b, SubSeq(q, 1, (n + 1) + 1)).last > b.last
    BY <2>1
  <2> DEFINE i == (n + 1) + 1
  <2>3. i \in 1 .. Len(q) /\ i - 1 = n + 1 /\ n + 1 <= Len(q)
    BY <2>1, <2>2
  <2> HIDE DEF i
  <2>4. /\ Fold(b, SubSeq(q, 1, n + 1)).last \in Nat
        /\ Fold(b, SubSeq(q, 1, i)).last = Fold(b, SubSeq(q, 1, n + 1)).last + 1
    BY <1>2, <2>3
  <2>5. Fold(b, SubSeq(q, 1, i)).last > b.last
    BY <1>1, <2>1, <2>3, <2>4
  <2> QED
    BY <2>5 DEF i
<1>6. T = Nat
  <2> HIDE DEF T
  <2>1. T \subseteq Nat
    BY DEF T
  <2> QED
    BY <1>4, <1>5, <2>1, NatSetInduction
<1>7. k - 1 \in T /\ (k - 1) + 1 = k /\ k <= Len(q)
  <2>1. k - 1 \in Nat /\ (k - 1) + 1 = k /\ k <= Len(q)
    OBVIOUS
  <2> HIDE DEF T
  <2> QED
    BY <1>6, <2>1
<1> QED
  BY <1>7

(* Every scenario begins with one account and no other snapshot of it.     *)
LEMMA InitVersions == Init => VersionsInv
<1> SUFFICES ASSUME Init PROVE VersionsInv
  OBVIOUS
<1>1. PICK sc \in Scenarios :
       /\ saved = [s \in Streams |-> IF s = "actual" THEN sc.account
                                     ELSE [NoSnapshot EXCEPT !.stream = s]]
       /\ published = {}
       /\ rows = [r \in sc.watched |-> IF ActualRow(r) THEN sc.account
                                      ELSE NoSnapshot]
  BY DEF Init
<1>2. SnapshotOK(sc.account) /\ sc.account.stream = "actual"
  BY PortfolioAssumption
<1>3. sc.account.last \in Nat
  BY <1>2 DEF SnapshotOK
<1> DEFINE z == [NoSnapshot EXCEPT !.stream = "simulated"]
<1>4. /\ NoSnapshot.last = 0 /\ NoSnapshot.stream = "actual"
      /\ z.last = 0 /\ z.stream = "simulated"
  BY DEF NoSnapshot
<1> HIDE DEF z
<1>5. saved["actual"] = sc.account /\ saved["simulated"] = z
  BY <1>1 DEF Streams, z
<1>6. \A a \in Versions : a = sc.account \/ a = NoSnapshot \/ a = z
  BY <1>1, <1>5 DEF Versions, Streams
<1>7. ASSUME NEW a \in Versions
      PROVE  a.last <= saved[a.stream].last
  <2>1. CASE a = sc.account
    BY <1>2, <1>3, <1>5, <2>1
  <2>2. CASE a = NoSnapshot
    BY <1>3, <1>4, <1>5, <2>2
  <2>3. CASE a = z
    BY <1>4, <1>5, <2>3
  <2> QED
    BY <1>6, <2>1, <2>2, <2>3
<1>8. ASSUME NEW a \in Versions, a.last > 0
      PROVE  a = sc.account
  <2>1. a # NoSnapshot /\ a # z
    BY <1>4, <1>8
  <2> QED
    BY <1>6, <2>1
<1> QED
  BY <1>7, <1>8 DEF VersionsInv

(* The reducer saves and publishes a snapshot that is newer than all the   *)
(* snapshots of its stream.                                                *)
LEMMA ReduceVersions ==
  ASSUME IntakeType, ViewsType, VersionsInv, NEW s \in Streams, Reduce(s)
  PROVE  VersionsInv'
<1>1. PICK k \in 1 .. Len(booked[s]) :
        LET entries == SubSeq(booked[s], 1, k)
            current == FoldLeft(ApplyEntry, Base(s), entries)
        IN  /\ saved' = [saved EXCEPT ![s] = current]
            /\ published' = published \union SnapshotToEvents(current, saved[s])
  BY DEF Reduce
<1> DEFINE current == Fold(Base(s), SubSeq(booked[s], 1, k))
<1>2. /\ saved' = [saved EXCEPT ![s] = current]
      /\ published' = published \union SnapshotToEvents(current, saved[s])
      /\ rows' = rows
  BY <1>1 DEF Fold, Reduce
<1>3. /\ saved \in [Streams -> Snapshots] /\ \A t \in Streams : saved[t].stream = t
      /\ \A t \in Streams : saved[t].last \in Nat
      /\ \A a \in Versions : a \in Snapshots /\ a.stream \in Streams /\ a.last \in Nat
  <2>1. \A a \in Versions : a \in Snapshots
    BY DEF ViewsType, Versions, Solvent
  <2> QED
    BY <2>1 DEF ViewsType, Solvent, Snapshots
<1>4. Base(s).last = saved[s].last
  BY <1>3 DEF Base, Snapshots
<1>5. current.last > saved[s].last
  BY <1>1, <1>4, BaseType, FoldLast DEF IntakeType
<1>6. current.last \in Nat /\ current.stream = s
  <2>1. IntakeType' /\ ViewsType'
    BY ReduceType
  <2>2. saved'[s] \in Snapshots /\ saved'[s].stream = s
    BY <2>1 DEF ViewsType, Solvent
  <2>3. saved'[s] = current
    BY <1>2, <1>3
  <2> HIDE DEF current
  <2> QED
    BY <2>2, <2>3 DEF Snapshots
<1> HIDE DEF current
<1>7. Versions' \subseteq Versions \union {current}
  <2>1. \A e \in SnapshotToEvents(current, saved[s]) : e[2] = current
    BY DEF SnapshotToEvents
  <2> QED
    BY <1>2, <1>3, <2>1 DEF Versions
<1>8. /\ saved'[s] = current
      /\ \A t \in Streams : t # s => saved'[t] = saved[t]
  BY <1>2, <1>3
<1>9. ASSUME NEW a \in Versions
      PROVE  a.stream = s => a.last < current.last
  BY <1>3, <1>5, <1>6 DEF VersionsInv
<1>10. \A a \in Versions' : a.last <= saved'[a.stream].last
  BY <1>3, <1>6, <1>7, <1>8, <1>9 DEF VersionsInv
<1>11. ASSUME NEW a \in Versions', NEW b \in Versions',
              a.stream = b.stream, a.last = b.last, a.last > 0
       PROVE  a = b
  <2>1. CASE a \in Versions /\ b \in Versions
    BY <1>11, <2>1 DEF VersionsInv
  <2>2. CASE a = current /\ b = current
    BY <2>2
  <2>3. CASE a = current /\ b \in Versions
    BY <1>3, <1>6, <1>9, <1>11, <2>3
  <2>4. CASE a \in Versions /\ b = current
    BY <1>3, <1>6, <1>9, <1>11, <2>4
  <2> QED
    BY <1>7, <2>1, <2>2, <2>3, <2>4
<1> QED
  BY <1>10, <1>11 DEF VersionsInv

(* A row takes a snapshot that is published.                               *)
LEMMA ProjectVersions ==
  ASSUME ViewsType, VersionsInv, NEW r \in DOMAIN rows, Project(r)
  PROVE  VersionsInv'
<1>1. PICK event \in published : rows' = [rows EXCEPT ![r] = event[2]]
  BY DEF Project
<1>2. saved' = saved /\ published' = published
  BY DEF Project
<1>3. Versions' \subseteq Versions
  BY <1>1, <1>2 DEF Versions, ViewsType
<1> QED
  BY <1>2, <1>3 DEF VersionsInv

(* Every step keeps VersionsInv.                                           *)
LEMMA VersionsStep == TypeInv /\ VersionsInv /\ [Next]_vars => VersionsInv'
<1> SUFFICES ASSUME TypeInv, VersionsInv, [Next]_vars PROVE VersionsInv'
  OBVIOUS
<1>1. CASE ViewsStep
  BY <1>1, ReduceVersions, ProjectVersions DEF ViewsStep, ViewsNext, TypeInv
<1>2. CASE UNCHANGED <<saved, published, rows>>
  BY <1>2 DEF VersionsInv, Versions
<1>3. CASE HandleStep \/ RedeliverStep \/ Assemble \/ Check \/ Shadow \/ UNCHANGED vars
  BY <1>2, <1>3 DEF HandleStep, RedeliverStep, Assemble, Check, Shadow, vars, viewVars
<1>4. ASSUME NEW t \in packet.trades, Execute(t) PROVE VersionsInv'
  BY <1>2, <1>4 DEF Execute, viewVars
<1> QED
  BY <1>1, <1>3, <1>4 DEF Next

(* A version names one account of a stream, and no row or event is ahead   *)
(* of the ledger: two rows that show the same version of a stream show     *)
(* the same account, whatever the order, the delay and the repetition of   *)
(* the events (executeProjectVersioned, snapshotToEvents).                 *)
THEOREM VersionsTrue == Spec => []VersionsInv
<1>1. Init => VersionsInv
  BY InitVersions
<1>2. TypeInv /\ VersionsInv /\ [Next]_vars => VersionsInv'
  BY VersionsStep
<1> QED
  BY <1>1, <1>2, TypeInvariant, PTL DEF Spec

(* The reducer never changes what the account is with everything           *)
(* recorded: however the entries are grouped into batches, replaying them  *)
(* from the last snapshot gives the same account (replay-and-reduce.ts,    *)
(* processGroup).                                                          *)
THEOREM ReducerKeepsAccount ==
  Spec => [][\A s, t \in Streams : Reduce(s) => Account(t)' = Account(t)]_vars
<1>1. TypeInv /\ [Next]_vars
        => [\A s, t \in Streams : Reduce(s) => Account(t)' = Account(t)]_vars
  BY AccountReduce DEF TypeInv
<1> QED
  BY <1>1, TypeInvariant, PTL DEF Spec

-----------------------------------------------------------------------------
(* The rows of the read models follow the account.                         *)

(* The typenames of the rows that are modelled.                            *)
ReadModels ==
  {"PortfolioLatest", "CashBalance", "Position", "PositionSnapshot",
   "PortfolioSummary", "LedgerSnapshot", "TimeTravelAvailability",
   "Simulation", "SimulationPosition"}

(* The stream a row is meant to show.                                      *)
StreamOf(row) == IF ActualRow(row) THEN "actual" ELSE "simulated"

(* What a row shows of one snapshot is what it shows of another.           *)
ShowsSame(row, a, b) ==
  IF row[1] = "LedgerSnapshot" THEN a.positions = b.positions
  ELSE Shown(row, a) = Shown(row, b)

(* The events published that a row is projected from.                      *)
Feeding(row) == {e \in published : Feeds(row, e)}

(* An event is on its way that the row will take.                          *)
Awaited(row) == \E e \in published : Feeds(row, e) /\ NewerVersion(row, e[2])

(* The newest event of a row shows what the account shows; the row is at   *)
(* one of its events, or before all of them.                               *)
RowInv(row) ==
  /\ rows[row].stream = StreamOf(row) \/ rows[row].last = 0
  /\ \A e \in Feeding(row) : e[2].stream = StreamOf(row)
  /\ \/ Feeding(row) = {} /\ ShowsSame(row, rows[row], saved[StreamOf(row)])
     \/ \E e \in Feeding(row) :
          /\ ShowsSame(row, e[2], saved[StreamOf(row)])
          /\ \A d \in Feeding(row) : d[2].last <= e[2].last
  /\ \/ \E e \in Feeding(row) : e[2] = rows[row]
     \/ \A e \in Feeding(row) : rows[row].last < e[2].last

(* A row whose feeds are of one stream.                                    *)
Unmixed(row) ==
  row[1] \in ReadModels /\ (ActualRow(row) => saved["simulated"].last = 0)

(* The invariant of all such rows.                                         *)
RowsInv ==
  /\ \A e \in published : e[2].last > 0
  /\ saved["simulated"].last = 0 => \A e \in published : e[2].stream = "actual"
  /\ \A row \in DOMAIN rows : Unmixed(row) => RowInv(row)

(* Nothing of the account is lost to a row: it shows the account, or an    *)
(* event is on its way.                                                    *)
RowsNotLost ==
  \A row \in DOMAIN rows : row[1] \in ReadModels =>
    /\ ActualRow(row) /\ saved["simulated"].last = 0 => Current(row) \/ Awaited(row)
    /\ ~ActualRow(row) =>
         Shown(row, rows[row]) = Shown(row, saved["simulated"]) \/ Awaited(row)

(* Folding events drops no position: one that is sold out stays, with no   *)
(* shares.                                                                 *)
LEMMA FoldHolds ==
  ASSUME NEW stream, NEW b \in Solvent(stream), NEW q \in Seq(Message)
  PROVE  DOMAIN b.positions \subseteq DOMAIN Fold(b, q).positions
<1> DEFINE D == DOMAIN b.positions
           V == {v \in Solvent(stream) : D \subseteq DOMAIN v.positions}
<1>1. ASSUME NEW v \in V, NEW e \in Message
      PROVE  ApplyEntry(v, e) \in V
  <2>1. v \in Solvent(stream) /\ ApplyEntry(v, e) \in Solvent(stream)
    BY SolventClosed DEF Closed
  <2>2. v \in Snapshots
    BY <2>1 DEF Solvent
  <2>3. DOMAIN v.positions \subseteq DOMAIN ApplyEntry(v, e).positions
    <3>1. PICK held \in SUBSET Symbols :
            v \in [stream : Streams, last : Nat, cash : Int, positions : [held -> Nat]]
      BY <2>2 DEF Snapshots
    <3>2. CASE e.kind = "DEPOSIT"
      BY <3>1, <3>2 DEF ApplyEntry
    <3>3. CASE e.kind = "WITHDRAWAL"
      BY <3>1, <3>3 DEF ApplyEntry
    <3>4. CASE e.kind = "BUY"
      BY <3>1, <3>4 DEF ApplyEntry, WithQuantity
    <3>5. CASE e.kind = "SELL"
      BY <3>1, <3>5 DEF ApplyEntry, WithQuantity
    <3>6. CASE e.kind \notin {"DEPOSIT", "WITHDRAWAL", "BUY", "SELL"}
      BY <3>1, <3>6 DEF ApplyEntry
    <3> QED
      BY <3>2, <3>3, <3>4, <3>5, <3>6
  <2> QED
    BY <2>1, <2>3
<1>2. Closed(V) /\ b \in V
  BY <1>1 DEF Closed
<1> HIDE DEF V
<1>3. Fold(b, q) \in V
  BY <1>2, FoldType
<1> QED
  BY <1>3 DEF V

(* A row that no event of snapshotToEvents feeds shows the same of both    *)
(* snapshots.                                                              *)
LEMMA NoEventSame ==
  ASSUME NEW row, row[1] \in ReadModels, NEW current, NEW previous,
         current.stream = StreamOf(row),
         DOMAIN previous.positions \subseteq DOMAIN current.positions,
         \A e \in SnapshotToEvents(current, previous) : ~Feeds(row, e)
  PROVE  ShowsSame(row, current, previous)
<1>1. <<"LEDGER_ENTRY_RECORDED", current>> \in SnapshotToEvents(current, previous)
  BY DEF SnapshotToEvents
<1>2. \/ <<"BALANCE_UPDATED", current>> \in SnapshotToEvents(current, previous)
      \/ current.cash = previous.cash
  BY DEF SnapshotToEvents
<1>3. \/ <<"PORTFOLIO_UPDATED", current>> \in SnapshotToEvents(current, previous)
      \/ current.positions = previous.positions
  BY DEF SnapshotToEvents
<1>4. CASE row[1] \in {"PortfolioLatest", "CashBalance"}
  BY <1>2, <1>4 DEF Feeds, ShowsSame, Shown
<1>5. CASE row[1] = "Position"
  BY <1>3, <1>5 DEF Feeds, ShowsSame, Shown, Quantity
<1>6. CASE row[1] = "PositionSnapshot"
  BY <1>3, <1>6 DEF Feeds, ShowsSame, Shown, PositionsValue
<1>7. CASE row[1] = "PortfolioSummary"
  BY <1>2, <1>3, <1>7 DEF Feeds, ShowsSame, Shown, Held, PositionsValue
<1>8. CASE row[1] = "LedgerSnapshot"
  BY <1>3, <1>8 DEF Feeds, ShowsSame
<1>9. CASE row[1] = "TimeTravelAvailability"
  BY <1>1, <1>9 DEF Feeds
<1>10. CASE row[1] = "Simulation"
  BY <1>1, <1>10 DEF Feeds, StreamOf, ActualRow
<1>11. CASE row[1] = "SimulationPosition"
  BY <1>1, <1>11 DEF Feeds, StreamOf, ActualRow, ShowsSame, Shown, Quantity
<1> QED
  BY <1>4, <1>5, <1>6, <1>7, <1>8, <1>9, <1>10, <1>11 DEF ReadModels

(* The rows of a simulation are projected from the simulated stream only.  *)
LEMMA SimulatedFeeds ==
  ASSUME NEW row, row[1] \in ReadModels, ~ActualRow(row), NEW e, Feeds(row, e)
  PROVE  e[2].stream = "simulated"
BY DEF ActualRow, Feeds

(* At the start nothing is published, and the rows show the empty          *)
(* account.                                                                *)
LEMMA InitRows == Init => RowsInv
<1> SUFFICES ASSUME Init PROVE RowsInv
  OBVIOUS
<1>1. PICK sc \in Scenarios :
       /\ saved = [s \in Streams |-> IF s = "actual" THEN sc.account
                                     ELSE [NoSnapshot EXCEPT !.stream = s]]
       /\ published = {}
       /\ rows = [r \in sc.watched |-> IF ActualRow(r) THEN sc.account
                                      ELSE NoSnapshot]
  BY DEF Init
<1>2. sc.account.stream = "actual"
  BY PortfolioAssumption
<1> DEFINE z == [NoSnapshot EXCEPT !.stream = "simulated"]
<1>3. /\ NoSnapshot.last = 0 /\ z.cash = NoSnapshot.cash
      /\ z.positions = NoSnapshot.positions
  BY DEF NoSnapshot
<1> HIDE DEF z
<1>4. saved["actual"] = sc.account /\ saved["simulated"] = z
  BY <1>1 DEF Streams, z
<1>5. ASSUME NEW row \in DOMAIN rows, row[1] \in ReadModels
      PROVE  RowInv(row)
  <2>1. Feeding(row) = {}
    BY <1>1 DEF Feeding
  <2>2. CASE ActualRow(row)
    <3>1. rows[row] = sc.account /\ StreamOf(row) = "actual"
      BY <1>1, <2>2 DEF StreamOf
    <3>2. ShowsSame(row, rows[row], saved[StreamOf(row)])
      BY <1>4, <3>1 DEF ShowsSame
    <3> QED
      BY <1>2, <2>1, <3>1, <3>2 DEF RowInv
  <2>3. CASE ~ActualRow(row)
    <3>1. rows[row] = NoSnapshot /\ StreamOf(row) = "simulated"
      BY <1>1, <2>3 DEF StreamOf
    <3>2. ShowsSame(row, NoSnapshot, z)
      BY <1>3, <2>3 DEF ShowsSame, Shown, Quantity, ActualRow
    <3>3. ShowsSame(row, rows[row], saved[StreamOf(row)])
      BY <1>4, <3>1, <3>2
    <3> QED
      BY <1>3, <2>1, <3>1, <3>3 DEF RowInv
  <2> QED
    BY <2>2, <2>3
<1> QED
  BY <1>1, <1>5 DEF RowsInv, Unmixed

(* The reducer publishes an event newer than all before for every row      *)
(* that its batch changes.                                                 *)
LEMMA ReduceRows ==
  ASSUME IntakeType, ViewsType, VersionsInv, RowsInv, NEW s \in Streams, Reduce(s)
  PROVE  RowsInv'
<1>1. PICK k \in 1 .. Len(booked[s]) :
        LET entries == SubSeq(booked[s], 1, k)
            current == FoldLeft(ApplyEntry, Base(s), entries)
        IN  /\ saved' = [saved EXCEPT ![s] = current]
            /\ published' = published \union SnapshotToEvents(current, saved[s])
  BY DEF Reduce
<1> DEFINE current == Fold(Base(s), SubSeq(booked[s], 1, k))
<1>2. /\ saved' = [saved EXCEPT ![s] = current]
      /\ published' = published \union SnapshotToEvents(current, saved[s])
      /\ rows' = rows
  BY <1>1 DEF Fold, Reduce
<1>3. /\ saved \in [Streams -> Snapshots] /\ \A t \in Streams : saved[t].stream = t
      /\ \A t \in Streams : saved[t].last \in Nat
      /\ \A a \in Versions : a.last \in Nat
  <2>1. \A a \in Versions : a \in Snapshots
    BY DEF ViewsType, Versions, Solvent
  <2> QED
    BY <2>1 DEF ViewsType, Solvent, Snapshots
<1>4. Base(s).last = saved[s].last /\ Base(s).positions = saved[s].positions
  BY <1>3 DEF Base, Snapshots
<1>5. SubSeq(booked[s], 1, k) \in Seq(Message)
  <2>1. booked[s] \in Seq(Message)
    BY DEF IntakeType
  <2> QED
    BY <2>1
<1>6. /\ current.last > saved[s].last
      /\ DOMAIN saved[s].positions \subseteq DOMAIN current.positions
  BY <1>1, <1>4, <1>5, BaseType, FoldLast, FoldHolds DEF IntakeType
<1>7. current.last \in Nat /\ current.stream = s
  <2>1. current \in Solvent(s)
    BY <1>5, BaseType, FoldType, SolventClosed
  <2> HIDE DEF current
  <2> QED
    BY <2>1 DEF Solvent, Snapshots
<1> HIDE DEF current
<1>8. /\ saved'[s] = current
      /\ \A t \in Streams : t # s => saved'[t] = saved[t]
  BY <1>2, <1>3
<1>9. \A e \in SnapshotToEvents(current, saved[s]) : e[2] = current
  BY DEF SnapshotToEvents
<1>10. saved'["simulated"].last = 0 => saved["simulated"].last = 0 /\ s = "actual"
  BY <1>3, <1>6, <1>7, <1>8 DEF Streams
<1>11. saved'["simulated"].last = 0 => \A e \in published' : e[2].stream = "actual"
  BY <1>2, <1>7, <1>9, <1>10 DEF RowsInv
<1>12. ASSUME NEW row \in DOMAIN rows, Unmixed(row)'
       PROVE  RowInv(row)'
  <2> DEFINE t == StreamOf(row)
             new == SnapshotToEvents(current, saved[s])
  <2>1. row[1] \in ReadModels /\ RowInv(row) /\ t \in Streams
    BY <1>10, <1>12 DEF Unmixed, RowsInv, StreamOf, Streams
  <2>2. StreamOf(row)' = t /\ rows'[row] = rows[row]
    BY <1>2 DEF StreamOf, ActualRow
  <2>3. Feeding(row)' = Feeding(row) \union {e \in new : Feeds(row, e)}
    BY <1>2 DEF Feeding, Feeds
  <2>4. \A e \in Feeding(row) : e[2] \in Versions
    BY DEF Feeding, Versions
  <2>5. rows[row] \in Versions
    BY DEF Versions
  <2>6. CASE s # t
    <3>1. ~ActualRow(row) /\ t = "simulated"
      BY <1>10, <1>12, <2>6 DEF Unmixed, StreamOf
    <3>2. \A e \in new : ~Feeds(row, e)
      BY <1>7, <1>9, <2>1, <2>6, <3>1, SimulatedFeeds
    <3>3. Feeding(row)' = Feeding(row)
      BY <2>3, <3>2
    <3>4. saved'[t] = saved[t]
      BY <1>8, <2>1, <2>6
    <3>5. \A a, b : ShowsSame(row, a, b)' = ShowsSame(row, a, b)
      BY DEF ShowsSame, Shown, Quantity, Held, PositionsValue
    <3> QED
      BY <2>1, <2>2, <3>3, <3>4, <3>5 DEF RowInv
  <2> HIDE DEF new
  <2>7. CASE s = t
    <3> DEFINE F == Feeding(row)
               G == Feeding(row)'
    <3>1. \A e \in F : e[2].last < current.last /\ e[2].last \in Nat /\ e[2].stream = t
      BY <1>3, <1>6, <1>7, <2>1, <2>4, <2>7 DEF VersionsInv, RowInv
    <3>2. rows[row].last < current.last /\ rows[row].last \in Nat
      BY <1>3, <1>6, <1>7, <2>1, <2>5, <2>7 DEF VersionsInv, RowInv
    <3>3. \A e \in G : e \in F \/ (e \in new /\ e[2] = current)
      BY <1>9, <2>3 DEF new
    <3>4. F \subseteq G
      BY <2>3
    <3>5. \/ \E e \in G : e[2] = rows[row]
          \/ \A e \in G : rows[row].last < e[2].last
      BY <2>1, <3>2, <3>3, <3>4 DEF RowInv
    <3>6. \A e \in G : e[2].stream = t
      BY <1>7, <2>7, <3>1, <3>3
    <3>7. saved'[t] = current
      BY <1>8, <2>7
    <3>8. ASSUME NEW e \in new, Feeds(row, e)
          PROVE  \E d \in G : /\ ShowsSame(row, d[2], current)
                              /\ \A c \in G : c[2].last <= d[2].last
      <4>1. e \in G /\ e[2] = current
        BY <1>9, <2>3, <3>8 DEF new
      <4>2. ShowsSame(row, current, current)
        BY DEF ShowsSame
      <4>3. \A c \in G : c[2].last <= current.last
        BY <1>7, <3>1, <3>3
      <4> QED
        BY <4>1, <4>2, <4>3
    <3>9. ASSUME \A e \in new : ~Feeds(row, e)
          PROVE  G = F /\ \A a : ShowsSame(row, a, saved[t]) => ShowsSame(row, a, current)
      <4>1. ShowsSame(row, current, saved[s])
        BY <1>6, <1>7, <2>1, <2>7, <3>9, NoEventSame DEF new
      <4> QED
        BY <2>3, <2>7, <3>9, <4>1 DEF ShowsSame
    <3> HIDE DEF F, G
    <3>10. \/ G = {} /\ ShowsSame(row, rows[row], current)
           \/ \E d \in G : /\ ShowsSame(row, d[2], current)
                           /\ \A c \in G : c[2].last <= d[2].last
      <4>1. CASE \E e \in new : Feeds(row, e)
        BY <3>8, <4>1
      <4>2. CASE \A e \in new : ~Feeds(row, e)
        <5>1. \/ F = {} /\ ShowsSame(row, rows[row], saved[t])
              \/ \E d \in F : /\ ShowsSame(row, d[2], saved[t])
                              /\ \A c \in F : c[2].last <= d[2].last
          BY <2>1 DEF RowInv, F
        <5> QED
          BY <3>9, <4>2, <5>1
      <4> QED
        BY <4>1, <4>2
    <3>11. \A a, b : ShowsSame(row, a, b)' = ShowsSame(row, a, b)
      BY DEF ShowsSame, Shown, Quantity, Held, PositionsValue
    <3>12. rows[row].stream = t \/ rows[row].last = 0
      BY <2>1 DEF RowInv
    <3> HIDE DEF t
    <3> QED
      BY <2>2, <3>5, <3>6, <3>7, <3>10, <3>11, <3>12 DEF RowInv, G
  <2> QED
    BY <2>6, <2>7
<1>13. \A e \in published' : e[2].last > 0
  <2>1. current.last > 0
    BY <1>3, <1>6, <1>7
  <2> QED
    BY <1>2, <1>9, <2>1 DEF RowsInv
<1> QED
  BY <1>2, <1>11, <1>12, <1>13 DEF RowsInv

(* A projector that takes an event puts the row at it.                     *)
LEMMA ProjectRows ==
  ASSUME ViewsType, RowsInv, NEW r \in DOMAIN rows, Project(r)
  PROVE  RowsInv'
<1>1. PICK event \in published :
        /\ Feeds(r, event)
        /\ rows' = [rows EXCEPT ![r] = event[2]]
  BY DEF Project
<1>2. saved' = saved /\ published' = published
  BY DEF Project
<1>3. ASSUME NEW row \in DOMAIN rows, Unmixed(row)
      PROVE  RowInv(row)'
  <2>1. RowInv(row)
    BY <1>3 DEF RowsInv
  <2>2. Feeding(row)' = Feeding(row) /\ StreamOf(row)' = StreamOf(row)
    BY <1>2 DEF Feeding, Feeds, StreamOf, ActualRow
  <2>3. \A a, b : ShowsSame(row, a, b)' = ShowsSame(row, a, b)
    BY DEF ShowsSame, Shown, Quantity, Held, PositionsValue
  <2>4. CASE row # r
    <3>1. rows'[row] = rows[row]
      BY <1>1, <2>4
    <3> QED
      BY <1>2, <2>1, <2>2, <2>3, <3>1 DEF RowInv
  <2>5. CASE row = r
    <3>1. rows'[row] = event[2] /\ event \in Feeding(row)
      BY <1>1, <2>5 DEF Feeding, ViewsType
    <3> QED
      BY <1>2, <2>1, <2>2, <2>3, <3>1 DEF RowInv
  <2> QED
    BY <2>4, <2>5
<1>4. DOMAIN rows' = DOMAIN rows /\ \A row : Unmixed(row)' = Unmixed(row)
  BY <1>1, <1>2 DEF Unmixed, ActualRow
<1> QED
  BY <1>2, <1>3, <1>4 DEF RowsInv

(* Every step keeps the invariant of the rows.                             *)
LEMMA RowsStep == TypeInv /\ VersionsInv /\ RowsInv /\ [Next]_vars => RowsInv'
<1> SUFFICES ASSUME TypeInv, VersionsInv, RowsInv, [Next]_vars PROVE RowsInv'
  OBVIOUS
<1>1. CASE ViewsStep
  BY <1>1, ReduceRows, ProjectRows DEF ViewsStep, ViewsNext, TypeInv
<1>2. CASE UNCHANGED viewVars
  <2>1. saved' = saved /\ published' = published /\ rows' = rows
    BY <1>2 DEF viewVars
  <2>2. \A row : /\ Feeding(row)' = Feeding(row) /\ StreamOf(row)' = StreamOf(row)
                 /\ Unmixed(row)' = Unmixed(row)
    BY <2>1 DEF Feeding, Feeds, StreamOf, Unmixed, ActualRow
  <2>3. \A row, a, b : ShowsSame(row, a, b)' = ShowsSame(row, a, b)
    BY DEF ShowsSame, Shown, Quantity, Held, PositionsValue
  <2>4. \A row : RowInv(row)' = RowInv(row)
    BY <2>1, <2>2, <2>3 DEF RowInv
  <2> QED
    BY <2>1, <2>2, <2>4 DEF RowsInv
<1>3. CASE HandleStep \/ RedeliverStep \/ Assemble \/ Check \/ Shadow \/ UNCHANGED vars
  BY <1>2, <1>3 DEF HandleStep, RedeliverStep, Assemble, Check, Shadow, vars
<1>4. ASSUME NEW t \in packet.trades, Execute(t) PROVE RowsInv'
  BY <1>2, <1>4 DEF Execute
<1> QED
  BY <1>1, <1>3, <1>4 DEF Next

(* At the newest event a row shows the account; before it the newest       *)
(* event is on its way.                                                    *)
LEMMA RowsFollow == ViewsType /\ VersionsInv /\ RowsInv => RowsNotLost
<1> SUFFICES ASSUME ViewsType, VersionsInv, RowsInv,
                    NEW row \in DOMAIN rows, Unmixed(row), ~Awaited(row)
             PROVE  ShowsSame(row, rows[row], saved[StreamOf(row)])
  BY DEF RowsNotLost, Current, ShowsSame, Unmixed, StreamOf, ActualRow
<1>1. RowInv(row)
  BY DEF RowsInv
<1>2. CASE Feeding(row) = {}
  BY <1>1, <1>2 DEF RowInv
<1>3. CASE Feeding(row) # {}
  <2>1. PICK e \in Feeding(row) :
          /\ ShowsSame(row, e[2], saved[StreamOf(row)])
          /\ \A d \in Feeding(row) : d[2].last <= e[2].last
    BY <1>1, <1>3 DEF RowInv
  <2>2. e[2] \in Versions /\ rows[row] \in Versions
    BY DEF Feeding, Versions
  <2>3. e[2].last \in Nat /\ rows[row].last \in Nat
    BY <2>2 DEF Feeding, ViewsType, Solvent, Snapshots
  <2>4. ~(rows[row].last < e[2].last)
    BY DEF Awaited, Feeding, NewerVersion
  <2>5. PICK d \in Feeding(row) : d[2] = rows[row]
    BY <1>1, <2>4 DEF RowInv
  <2>6. rows[row].last = e[2].last /\ rows[row].stream = e[2].stream
    BY <1>1, <2>1, <2>3, <2>4, <2>5 DEF RowInv
  <2>7. rows[row] = e[2]
    <3>1. e[2].last > 0
      BY DEF Feeding, RowsInv
    <3> QED
      BY <2>2, <2>6, <3>1 DEF VersionsInv
  <2> QED
    BY <2>1, <2>7
<1> QED
  BY <1>2, <1>3

(* Nothing that the reducer saves is lost to the read models of ledger-    *)
(* bff and dashboard-bff: each row shows the account, or an event is on    *)
(* its way that its version guard lets in. This is what RowsCatchUp needs  *)
(* beyond the fairness of the projectors.                                  *)
THEOREM RowsFollowAccount == Spec => []RowsNotLost
<1>1. Init => RowsInv
  BY InitRows
<1>2. TypeInv /\ VersionsInv /\ RowsInv /\ [Next]_vars => RowsInv'
  BY RowsStep
<1>3. TypeInv /\ VersionsInv /\ RowsInv => RowsNotLost
  BY RowsFollow DEF TypeInv
<1> QED
  BY <1>1, <1>2, <1>3, TypeInvariant, VersionsTrue, PTL DEF Spec

=============================================================================
