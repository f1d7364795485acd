--------------------------- MODULE FiniteSetLemmas ---------------------------
(***************************************************************************)
(* Lemmas about finite sets that the proofs of several components rest on: *)
(* the least element of a set of integers, and sums.  Induction over a     *)
(* finite set is by a minimal counterexample: the strict subset ordering is *)
(* well founded, so a nonempty set of finite sets has a minimal member.    *)
(***************************************************************************)
EXTENDS Integers, FiniteSetsExt, FiniteSetTheorems, WellFoundedInduction, TLAPS

\* A nonempty set of subsets of a finite set has a member none of the others
\* is contained in.
LEMMA MinimalMember ==
  ASSUME NEW S, IsFiniteSet(S), NEW Bad \in SUBSET (SUBSET S), Bad # {}
  PROVE  \E T \in Bad : \A U \in SUBSET T : U \in Bad => U = T
<1> DEFINE R == StrictSubsetOrdering(S)
<1>1. IsWellFoundedOn(R, SUBSET S)
  BY FS_StrictSubsetOrderingWellFounded, FS_FiniteSubsetsOfFinite
<1>2. PICK T \in Bad : \A U \in Bad : ~ (<< U, T >> \in R)
  <2> HIDE DEF R
  <2> QED
    BY <1>1, WFMin, Zenon
<1>3. ASSUME NEW U \in SUBSET T, U \in Bad
      PROVE  U = T
  <2>1. U \in SUBSET S /\ T \in SUBSET S
    OBVIOUS
  <2>2. U # T => << U, T >> \in R
    BY <2>1 DEF StrictSubsetOrdering
  <2> QED
    BY <1>2, <1>3, <2>2
<1> QED
  BY <1>3

\* Of sets assigned to the members of a finite nonempty set, one is minimal.
LEMMA MinimalImage ==
  ASSUME NEW S, IsFiniteSet(S), S # {}, NEW below \in [S -> SUBSET S]
  PROVE  \E x \in S : \A y \in S : below[y] \subseteq below[x] => below[y] = below[x]
<1> DEFINE Bad == {below[x] : x \in S}
<1>1. Bad \in SUBSET (SUBSET S) /\ Bad # {}
  OBVIOUS
<1>2. PICK T \in Bad : \A U \in SUBSET T : U \in Bad => U = T
  <2> HIDE DEF Bad
  <2> QED
    BY <1>1, MinimalMember
<1> QED
  BY <1>2

\* A finite nonempty set of integers has a least element, which Min denotes.
LEMMA MinOfIntegers ==
  ASSUME NEW S, IsFiniteSet(S), S # {}
  PROVE  S \subseteq Int => Min(S) \in S /\ \A y \in S : Min(S) <= y
<1> DEFINE below == [x \in S |-> {y \in S : y <= x}]
<1>1. PICK x \in S : \A y \in S : below[y] \subseteq below[x] => below[y] = below[x]
  <2>1. below \in [S -> SUBSET S]
    OBVIOUS
  <2> HIDE DEF below
  <2> QED
    BY <2>1, MinimalImage
<1> SUFFICES ASSUME S \subseteq Int
             PROVE  Min(S) \in S /\ \A y \in S : Min(S) <= y
  OBVIOUS
<1>2. ASSUME NEW y \in S
      PROVE  x <= y
  <2> SUFFICES ASSUME y < x PROVE FALSE
    OBVIOUS
  <2>1. \A z \in S : z <= y => z <= x
    OBVIOUS
  <2>2. below[y] \subseteq below[x]
    BY <2>1
  <2>3. x \in below[x] /\ x \notin below[y]
    OBVIOUS
  <2> QED
    BY <1>1, <2>2, <2>3
<1> QED
  BY <1>2 DEF Min

(* ---- sums ------------------------------------------------------------- *)

\* The sum of f over S.
Sum(f, S) == MapThenSumSet(LAMBDA x : f[x], S)

First(s) == CHOOSE x \in s : TRUE

\* The functions on the subsets of S that the recursion defines.
IsSum(g, f, S) ==
  g = [s \in SUBSET S |-> IF s = {} THEN 0 ELSE f[First(s)] + g[s \ {First(s)}]]

LEMMA SumDef ==
  ASSUME NEW f, NEW S
  PROVE  Sum(f, S) = (CHOOSE g : IsSum(g, f, S))[S]
BY DEF Sum, MapThenSumSet, MapThenFoldSet, IsSum, First

\* On a finite set the recursion has at most one solution, ...
LEMMA SumUnique ==
  ASSUME NEW f, NEW S, IsFiniteSet(S), NEW g, NEW h, IsSum(g, f, S), IsSum(h, f, S)
  PROVE  g = h
<1> DEFINE Bad == {s \in SUBSET S : g[s] # h[s]}
<1>1. SUFFICES ASSUME Bad # {} PROVE FALSE
  BY DEF IsSum
<1>2. PICK T \in Bad : \A U \in SUBSET T : U \in Bad => U = T
  <2>1. Bad \in SUBSET (SUBSET S)
    OBVIOUS
  <2> HIDE DEF Bad
  <2> QED
    BY <1>1, <2>1, MinimalMember
<1>3. T # {}
  BY DEF IsSum
<1>4. First(T) \in T
  BY <1>3 DEF First
<1>5. /\ g[T] = f[First(T)] + g[T \ {First(T)}]
      /\ h[T] = f[First(T)] + h[T \ {First(T)}]
  BY <1>3 DEF IsSum
<1>6. T \ {First(T)} \in SUBSET S /\ T \ {First(T)} \in SUBSET T /\ T \ {First(T)} # T
  BY <1>4
<1>7. g[T \ {First(T)}] = h[T \ {First(T)}]
  BY <1>2, <1>6
<1> QED
  BY <1>5, <1>7

\* ... a solution restricted to a smaller set is one, ...
LEMMA SumRestricts ==
  ASSUME NEW f, NEW S, NEW T \in SUBSET S, NEW g, IsSum(g, f, S)
  PROVE  IsSum([s \in SUBSET T |-> g[s]], f, T)
<1> DEFINE h == [s \in SUBSET T |-> g[s]]
<1>1. ASSUME NEW s \in SUBSET T
      PROVE  h[s] = IF s = {} THEN 0 ELSE f[First(s)] + h[s \ {First(s)}]
  <2>1. s \in SUBSET S /\ s \ {First(s)} \in SUBSET T
    OBVIOUS
  <2> QED
    BY <2>1 DEF IsSum
<1> QED
  BY <1>1 DEF IsSum

\* ... and there is one.
LEMMA SumExists ==
  ASSUME NEW f, NEW S, IsFiniteSet(S)
  PROVE  \E g : IsSum(g, f, S)
<1> DEFINE Bad == {T \in SUBSET S : ~ \E g : IsSum(g, f, T)}
<1>1. SUFFICES ASSUME Bad # {} PROVE FALSE
  OBVIOUS
<1>2. PICK T \in Bad : \A U \in SUBSET T : U \in Bad => U = T
  <2>1. Bad \in SUBSET (SUBSET S)
    OBVIOUS
  <2> HIDE DEF Bad
  <2> QED
    BY <1>1, <2>1, MinimalMember
<1> DEFINE G(U) == CHOOSE g : IsSum(g, f, U)
<1>3. ASSUME NEW U \in SUBSET T, U # T
      PROVE  IsSum(G(U), f, U)
  <2>1. \E g : IsSum(g, f, U)
    BY <1>2, <1>3
  <2> QED
    BY <2>1
<1> DEFINE rest(s) == s \ {First(s)}
           h == [s \in SUBSET T |-> IF s # T THEN G(s)[s]
                                   ELSE IF T = {} THEN 0 ELSE f[First(T)] + G(rest(T))[rest(T)]]
<1>4. ASSUME NEW s \in SUBSET T, s # {}
      PROVE  First(s) \in s /\ rest(s) \in SUBSET T /\ rest(s) \in SUBSET s /\ rest(s) # T
  BY <1>4 DEF First
<1>5. ASSUME NEW s \in SUBSET T
      PROVE  h[s] = IF s = {} THEN 0 ELSE f[First(s)] + h[rest(s)]
  <2>1. CASE s = T /\ s = {}
    BY <2>1
  <2>2. CASE s = T /\ s # {}
    <3>1. h[rest(T)] = G(rest(T))[rest(T)]
      BY <1>4, <2>2
    <3>2. h[T] = f[First(T)] + G(rest(T))[rest(T)]
      BY <2>2
    <3> QED
      BY <2>2, <3>1, <3>2
  <2>3. CASE s # T /\ s = {}
    <3>1. G(s)[s] = 0
      <4>1. IsSum(G(s), f, s) /\ s \in SUBSET s
        BY <1>3, <2>3
      <4> HIDE DEF G
      <4> QED
        BY <2>3, <4>1 DEF IsSum
    <3> QED
      BY <2>3, <3>1
  <2>4. CASE s # T /\ s # {}
    <3>1. IsSum(G(s), f, s) /\ IsSum(G(rest(s)), f, rest(s))
      BY <1>3, <1>4, <2>4
    <3>2. G(s)[s] = f[First(s)] + G(s)[rest(s)]
      <4> HIDE DEF G
      <4> QED
        BY <3>1, <2>4 DEF IsSum
    <3>3. IsSum([u \in SUBSET rest(s) |-> G(s)[u]], f, rest(s))
      <4>1. rest(s) \in SUBSET s
        OBVIOUS
      <4> HIDE DEF G, rest
      <4> QED
        BY <3>1, <4>1, SumRestricts
    <3>4. IsFiniteSet(rest(s))
      BY FS_Subset
    <3>5. [u \in SUBSET rest(s) |-> G(s)[u]] = G(rest(s))
      <4> HIDE DEF G, rest
      <4> QED
        BY <3>1, <3>3, <3>4, SumUnique
    <3>6. G(s)[rest(s)] = G(rest(s))[rest(s)]
      <4>1. [u \in SUBSET rest(s) |-> G(s)[u]][rest(s)] = G(s)[rest(s)]
        OBVIOUS
      <4> HIDE DEF G, rest
      <4> QED
        BY <3>5, <4>1
    <3>7. h[rest(s)] = G(rest(s))[rest(s)]
      BY <1>4, <2>4
    <3>8. h[s] = G(s)[s]
      BY <2>4
    <3> HIDE DEF h, G, rest
    <3> QED
      BY <2>4, <3>2, <3>6, <3>7, <3>8
  <2> QED
    BY <2>1, <2>2, <2>3, <2>4
<1>6. IsSum(h, f, T)
  <2>1. h = [s \in SUBSET T |-> IF s = {} THEN 0 ELSE f[First(s)] + h[rest(s)]]
    <3>1. DOMAIN h = SUBSET T /\ h = [s \in SUBSET T |-> h[s]]
      OBVIOUS
    <3> HIDE DEF h
    <3> QED
      BY <1>5, <3>1
  <2> HIDE DEF h
  <2> QED
    BY <2>1 DEF IsSum
<1> QED
  BY <1>2, <1>6

\* The sum of nothing is zero; otherwise it is one term and the sum of the rest.
LEMMA SumStep ==
  ASSUME NEW f, NEW S, IsFiniteSet(S)
  PROVE  /\ S = {} => Sum(f, S) = 0
         /\ S # {} => Sum(f, S) = f[First(S)] + Sum(f, S \ {First(S)})
<1> DEFINE G(U) == CHOOSE g : IsSum(g, f, U)
           T == S \ {First(S)}
<1>1. IsFiniteSet(T)
  BY FS_Subset
<1>2. IsSum(G(S), f, S) /\ IsSum(G(T), f, T)
  <2>1. (\E g : IsSum(g, f, S)) /\ (\E g : IsSum(g, f, T))
    <3> HIDE DEF T
    <3> QED
      BY <1>1, SumExists
  <2> QED
    BY <2>1
<1>3. Sum(f, S) = G(S)[S] /\ Sum(f, T) = G(T)[T]
  BY SumDef
<1>4. IsSum([u \in SUBSET T |-> G(S)[u]], f, T)
  <2>1. T \in SUBSET S
    OBVIOUS
  <2> HIDE DEF G, T
  <2> QED
    BY <1>2, <2>1, SumRestricts
<1>5. [u \in SUBSET T |-> G(S)[u]] = G(T)
  <2> HIDE DEF G, T
  <2> QED
    BY <1>1, <1>2, <1>4, SumUnique
<1>6. G(S)[T] = G(T)[T]
  <2>1. [u \in SUBSET T |-> G(S)[u]][T] = G(S)[T]
    OBVIOUS
  <2> HIDE DEF G, T
  <2> QED
    BY <1>5, <2>1
<1>7. /\ S = {} => G(S)[S] = 0
      /\ S # {} => G(S)[S] = f[First(S)] + G(S)[T]
  <2>1. S \in SUBSET S
    OBVIOUS
  <2> HIDE DEF G
  <2> QED
    BY <1>2, <2>1 DEF IsSum
<1> HIDE DEF G, T
<1> QED
  BY <1>3, <1>6, <1>7 DEF T

\* Whatever satisfies the recursion gives the sum.
LEMMA SumOfSolution ==
  ASSUME NEW f, NEW S, IsFiniteSet(S), NEW g, IsSum(g, f, S)
  PROVE  Sum(f, S) = g[S]
<1> DEFINE G == CHOOSE h : IsSum(h, f, S)
<1>1. IsSum(G, f, S)
  OBVIOUS
<1>2. Sum(f, S) = G[S]
  BY SumDef
<1> HIDE DEF G
<1>3. G = g
  BY <1>1, SumUnique
<1> QED
  BY <1>2, <1>3

\* What holds of the empty sum and passes from the rest of a sum to the sum
\* holds of every sum.  Good is the set of the subsets it holds of.
LEMMA SumInduction ==
  ASSUME NEW S, IsFiniteSet(S), NEW Good \in SUBSET (SUBSET S), {} \in Good,
         \A T \in SUBSET S :
           T # {} /\ (\A U \in SUBSET T : U # T => U \in Good) => T \in Good
  PROVE  S \in Good
<1> DEFINE Bad == (SUBSET S) \ Good
<1>1. SUFFICES ASSUME Bad # {} PROVE FALSE
  BY SMT
<1>2. PICK T \in Bad : \A U \in SUBSET T : U \in Bad => U = T
  <2>1. Bad \in SUBSET (SUBSET S)
    OBVIOUS
  <2> HIDE DEF Bad
  <2> QED
    BY <1>1, <2>1, MinimalMember
<1> QED
  BY <1>2

\* A sum of integers is an integer, one of naturals a natural.
LEMMA SumIsNumber ==
  ASSUME NEW f, NEW S, IsFiniteSet(S)
  PROVE  /\ (\A x \in S : f[x] \in Int) => Sum(f, S) \in Int
         /\ (\A x \in S : f[x] \in Nat) => Sum(f, S) \in Nat
<1>1. ASSUME NEW N, 0 \in N, \A m, n \in N : m + n \in N, \A x \in S : f[x] \in N
      PROVE  Sum(f, S) \in N
  <2> DEFINE Good == {T \in SUBSET S : Sum(f, T) \in N}
  <2>1. {} \in Good
    BY <1>1, SumStep, FS_EmptySet
  <2>2. ASSUME NEW T \in SUBSET S, T # {}, \A U \in SUBSET T : U # T => U \in Good
        PROVE  T \in Good
    <3>1. First(T) \in T
      BY <2>2 DEF First
    <3>2. Sum(f, T \ {First(T)}) \in N
      BY <2>2, <3>1
    <3>3. Sum(f, T) = f[First(T)] + Sum(f, T \ {First(T)})
      BY <2>2, SumStep, FS_Subset
    <3> QED
      BY <1>1, <3>1, <3>2, <3>3
  <2>3. Good \in SUBSET (SUBSET S)
    OBVIOUS
  <2>4. S \in Good
    <3> HIDE DEF Good
    <3> QED
      BY <2>1, <2>2, <2>3, SumInduction
  <2> QED
    BY <2>4
<1>2. (\A x \in S : f[x] \in Int) => Sum(f, S) \in Int
  BY <1>1
<1>3. (\A x \in S : f[x] \in Nat) => Sum(f, S) \in Nat
  <2>1. 0 \in Nat /\ \A m, n \in Nat : m + n \in Nat
    OBVIOUS
  <2> QED
    BY <1>1, <2>1, Zenon
<1> QED
  BY <1>2, <1>3

\* Any term can be taken out of a sum first.
LEMMA SumRemove ==
  ASSUME NEW f, NEW S, IsFiniteSet(S), \A x \in S : f[x] \in Int, NEW y \in S
  PROVE  Sum(f, S) = f[y] + Sum(f, S \ {y})
<1> DEFINE Good == {T \in SUBSET S : \A z \in T : Sum(f, T) = f[z] + Sum(f, T \ {z})}
<1>1. {} \in Good
  OBVIOUS
<1>2. ASSUME NEW T \in SUBSET S, T # {}, \A U \in SUBSET T : U # T => U \in Good
      PROVE  T \in Good
  <2> DEFINE x == First(T)
  <2>1. x \in T
    BY <1>2 DEF First
  <2>2. Sum(f, T) = f[x] + Sum(f, T \ {x})
    BY <1>2, SumStep, FS_Subset
  <2> HIDE DEF x
  <2>3. ASSUME NEW z \in T, z # x
        PROVE  Sum(f, T) = f[z] + Sum(f, T \ {z})
    <3>1. Sum(f, T \ {x}) = f[z] + Sum(f, (T \ {x}) \ {z})
      <4>1. T \ {x} \in Good
        BY <1>2, <2>1
      <4>2. z \in T \ {x}
        BY <2>3
      <4> QED
        BY <4>1, <4>2
    <3>2. Sum(f, T \ {z}) = f[x] + Sum(f, (T \ {z}) \ {x})
      <4>1. T \ {z} \in Good
        BY <1>2, <2>3
      <4>2. x \in T \ {z}
        BY <2>1, <2>3
      <4> QED
        BY <4>1, <4>2
    <3>3. (T \ {x}) \ {z} = (T \ {z}) \ {x}
      OBVIOUS
    <3>4. /\ f[x] \in Int /\ f[z] \in Int
          /\ Sum(f, (T \ {x}) \ {z}) \in Int
      BY <2>1, SumIsNumber, FS_Subset
    <3> DEFINE rest == Sum(f, (T \ {x}) \ {z})
    <3>5. Sum(f, T) = f[x] + (f[z] + rest)
      BY <2>2, <3>1
    <3>6. Sum(f, T \ {z}) = f[x] + rest
      BY <3>2, <3>3
    <3>7. \A a, b, c \in Int : a + (b + c) = b + (a + c)
      OBVIOUS
    <3>8. f[x] + (f[z] + rest) = f[z] + (f[x] + rest)
      BY <3>4, <3>7, Zenon
    <3> HIDE DEF Good, rest
    <3> QED
      BY <3>5, <3>6, <3>8, Zenon
  <2> QED
    BY <2>2, <2>3
<1>3. Good \in SUBSET (SUBSET S)
  OBVIOUS
<1>4. S \in Good
  <2> HIDE DEF Good
  <2> QED
    BY <1>1, <1>2, <1>3, SumInduction
<1> QED
  BY <1>4

\* A sum depends on its terms only.
LEMMA SumEqual ==
  ASSUME NEW f, NEW g, NEW S, IsFiniteSet(S), \A x \in S : f[x] = g[x]
  PROVE  Sum(f, S) = Sum(g, S)
<1> DEFINE Good == {T \in SUBSET S : Sum(f, T) = Sum(g, T)}
<1>1. {} \in Good
  BY SumStep, FS_EmptySet
<1>2. ASSUME NEW T \in SUBSET S, T # {}, \A U \in SUBSET T : U # T => U \in Good
      PROVE  T \in Good
  <2>1. First(T) \in T
    BY <1>2 DEF First
  <2>2. Sum(f, T \ {First(T)}) = Sum(g, T \ {First(T)})
    BY <1>2, <2>1
  <2>3. /\ Sum(f, T) = f[First(T)] + Sum(f, T \ {First(T)})
        /\ Sum(g, T) = g[First(T)] + Sum(g, T \ {First(T)})
    BY <1>2, SumStep, FS_Subset
  <2> QED
    BY <2>1, <2>2, <2>3
<1>3. Good \in SUBSET (SUBSET S)
  OBVIOUS
<1>4. S \in Good
  <2> HIDE DEF Good
  <2> QED
    BY <1>1, <1>2, <1>3, SumInduction
<1> QED
  BY <1>4

\* The sums of the terms with one more member, or with one term changed.
LEMMA SumAdd ==
  ASSUME NEW f, NEW S, IsFiniteSet(S), NEW y, y \notin S,
         \A x \in S : f[x] \in Int, f[y] \in Int
  PROVE  Sum(f, S \cup {y}) = Sum(f, S) + f[y]
<1>1. IsFiniteSet(S \cup {y})
  BY FS_AddElement
<1>2. Sum(f, S \cup {y}) = f[y] + Sum(f, (S \cup {y}) \ {y})
  <2>1. \A x \in S \cup {y} : f[x] \in Int
    OBVIOUS
  <2>2. y \in S \cup {y}
    OBVIOUS
  <2> QED
    BY <1>1, <2>1, <2>2, SumRemove
<1>3. (S \cup {y}) \ {y} = S
  OBVIOUS
<1>4. Sum(f, S) \in Int
  BY SumIsNumber
<1>5. \A a, b \in Int : a + b = b + a
  OBVIOUS
<1> QED
  BY <1>2, <1>3, <1>4, <1>5, Zenon

LEMMA SumChange ==
  ASSUME NEW f, NEW g, NEW S, IsFiniteSet(S), NEW y \in S,
         \A x \in S : f[x] \in Int /\ g[x] \in Int,
         \A x \in S \ {y} : g[x] = f[x]
  PROVE  Sum(g, S) = Sum(f, S) - f[y] + g[y]
<1>1. IsFiniteSet(S \ {y})
  BY FS_RemoveElement
<1>2. /\ Sum(f, S) = f[y] + Sum(f, S \ {y})
      /\ Sum(g, S) = g[y] + Sum(g, S \ {y})
  BY SumRemove
<1>3. Sum(f, S \ {y}) = Sum(g, S \ {y})
  BY <1>1, SumEqual
<1>4. Sum(f, S \ {y}) \in Int
  BY <1>1, SumIsNumber
<1> QED
  BY <1>2, <1>3, <1>4

LEMMA SumRaise ==
  ASSUME NEW f, NEW g, NEW S, IsFiniteSet(S), NEW y \in S, NEW amount \in Int,
         \A x \in S : f[x] \in Int,
         \A x \in S \ {y} : g[x] = f[x], g[y] = f[y] + amount
  PROVE  Sum(g, S) = Sum(f, S) + amount
<1>1. \A x \in S : f[x] \in Int /\ g[x] \in Int
  OBVIOUS
<1>2. Sum(g, S) = Sum(f, S) - f[y] + g[y]
  BY <1>1, SumChange
<1>3. Sum(f, S) \in Int /\ f[y] \in Int /\ g[y] = f[y] + amount
  BY SumIsNumber
<1> QED
  BY <1>2, <1>3

\* The sum of one term, and of ones.
LEMMA SumOne ==
  ASSUME NEW f, NEW y, f[y] \in Int
  PROVE  Sum(f, {y}) = f[y]
<1> DEFINE S == {y}
<1>1. IsFiniteSet(S) /\ y \in S /\ S \ {y} = {} /\ \A x \in S : f[x] \in Int
  BY FS_Singleton
<1>2. Sum(f, S) = f[y] + Sum(f, {})
  <2> HIDE DEF S
  <2>1. Sum(f, S) = f[y] + Sum(f, S \ {y})
    BY <1>1, SumRemove
  <2> QED
    BY <1>1, <2>1
<1>3. Sum(f, {}) = 0
  BY SumStep, FS_EmptySet
<1> QED
  BY <1>2, <1>3

LEMMA SumOfOnes ==
  ASSUME NEW f, NEW S, IsFiniteSet(S), \A x \in S : f[x] = 1
  PROVE  Sum(f, S) = Cardinality(S)
<1> DEFINE Good == {T \in SUBSET S : Sum(f, T) = Cardinality(T)}
<1>1. {} \in Good
  BY SumStep, FS_EmptySet
<1>2. ASSUME NEW T \in SUBSET S, T # {}, \A U \in SUBSET T : U # T => U \in Good
      PROVE  T \in Good
  <2>1. First(T) \in T
    BY <1>2 DEF First
  <2>2. IsFiniteSet(T)
    BY FS_Subset
  <2>3. Sum(f, T) = f[First(T)] + Sum(f, T \ {First(T)})
    BY <1>2, <2>2, SumStep
  <2>4. Sum(f, T \ {First(T)}) = Cardinality(T \ {First(T)})
    BY <1>2, <2>1
  <2>5. f[First(T)] = 1
    BY <2>1
  <2>6. Cardinality(T \ {First(T)}) = Cardinality(T) - 1 /\ Cardinality(T) \in Nat
    <3> HIDE DEF Good
    <3> QED
      BY <2>1, <2>2, FS_RemoveElement, FS_CardinalityType, Zenon
  <2>7. Sum(f, T) = 1 + (Cardinality(T) - 1)
    BY <2>3, <2>4, <2>5, <2>6, Zenon
  <2>8. \A n \in Nat : 1 + (n - 1) = n
    OBVIOUS
  <2> QED
    BY <2>6, <2>7, <2>8, Zenon
<1>3. Good \in SUBSET (SUBSET S)
  OBVIOUS
<1>4. S \in Good
  <2> HIDE DEF Good
  <2> QED
    BY <1>1, <1>2, <1>3, SumInduction
<1> QED
  BY <1>4

\* Sums of sums, of smaller terms, and of terms some of which are zero.
LEMMA SumPlus ==
  ASSUME NEW f, NEW g, NEW h, NEW S, IsFiniteSet(S),
         \A x \in S : f[x] \in Int /\ g[x] \in Int /\ h[x] = f[x] + g[x]
  PROVE  Sum(h, S) = Sum(f, S) + Sum(g, S)
<1> DEFINE Good == {T \in SUBSET S : Sum(h, T) = Sum(f, T) + Sum(g, T)}
<1>1. {} \in Good
  <2>1. Sum(h, {}) = 0 /\ Sum(f, {}) = 0 /\ Sum(g, {}) = 0
    BY SumStep, FS_EmptySet
  <2> QED
    BY <2>1
<1>2. ASSUME NEW T \in SUBSET S, T # {}, \A U \in SUBSET T : U # T => U \in Good
      PROVE  T \in Good
  <2> DEFINE x == First(T)
             U == T \ {x}
  <2>1. x \in T /\ x \in S
    BY <1>2 DEF First
  <2>2. IsFiniteSet(T) /\ IsFiniteSet(U)
    BY FS_Subset
  <2>3. U \in Good
    BY <1>2, <2>1
  <2>4. /\ Sum(f, T) = f[x] + Sum(f, U)
        /\ Sum(g, T) = g[x] + Sum(g, U)
        /\ Sum(h, T) = h[x] + Sum(h, U)
    BY <1>2, <2>2, SumStep
  <2>5. Sum(f, U) \in Int /\ Sum(g, U) \in Int
    <3> HIDE DEF U
    <3>1. U \in SUBSET S
      BY DEF U
    <3> QED
      BY <2>2, <3>1, SumIsNumber
  <2>6. Sum(h, U) = Sum(f, U) + Sum(g, U)
    BY <2>3
  <2>7. f[x] \in Int /\ g[x] \in Int /\ h[x] = f[x] + g[x]
    BY <2>1
  <2>8. Sum(h, T) = Sum(f, T) + Sum(g, T)
    <3> HIDE DEF x, U
    <3> QED
      BY <2>4, <2>5, <2>6, <2>7
  <2> QED
    BY <2>8
<1>3. Good \in SUBSET (SUBSET S)
  OBVIOUS
<1>4. S \in Good
  <2> HIDE DEF Good
  <2> QED
    BY <1>1, <1>2, <1>3, SumInduction
<1> QED
  BY <1>4

LEMMA SumAtMost ==
  ASSUME NEW f, NEW g, NEW S, IsFiniteSet(S),
         \A x \in S : f[x] \in Int /\ g[x] \in Int /\ f[x] <= g[x]
  PROVE  Sum(f, S) <= Sum(g, S)
<1> DEFINE h == [x \in S |-> g[x] - f[x]]
<1>1. \A x \in S : h[x] \in Nat /\ h[x] \in Int /\ g[x] = f[x] + h[x]
  OBVIOUS
<1> HIDE DEF h
<1>2. Sum(h, S) \in Nat /\ Sum(f, S) \in Int
  BY <1>1, SumIsNumber
<1>3. Sum(g, S) = Sum(f, S) + Sum(h, S)
  BY <1>1, SumPlus
<1> QED
  BY <1>2, <1>3

LEMMA SumOfPart ==
  ASSUME NEW f, NEW S, IsFiniteSet(S), NEW P \in SUBSET S,
         \A x \in S : f[x] \in Int, \A x \in S \ P : f[x] = 0
  PROVE  Sum(f, S) = Sum(f, P)
<1> DEFINE Good == {T \in SUBSET S : Sum(f, T) = Sum(f, T \cap P)}
<1>1. {} \in Good
  OBVIOUS
<1>2. ASSUME NEW T \in SUBSET S, T # {}, \A U \in SUBSET T : U # T => U \in Good
      PROVE  T \in Good
  <2> DEFINE x == First(T)
             U == T \ {x}
  <2>1. x \in T /\ x \in S
    BY <1>2 DEF First
  <2>2. IsFiniteSet(T) /\ IsFiniteSet(T \cap P)
    BY FS_Subset
  <2>3. Sum(f, U) = Sum(f, U \cap P)
    BY <1>2, <2>1
  <2>4. Sum(f, T) = f[x] + Sum(f, U)
    BY <1>2, <2>2, SumStep
  <2>5. CASE x \in P
    <3>1. (T \cap P) \ {x} = U \cap P
      OBVIOUS
    <3>2. Sum(f, T \cap P) = f[x] + Sum(f, (T \cap P) \ {x})
      <4> DEFINE V == T \cap P
      <4>1. x \in V /\ IsFiniteSet(V) /\ \A y \in V : f[y] \in Int
        BY <2>1, <2>2, <2>5
      <4> HIDE DEF V, x
      <4>2. Sum(f, V) = f[x] + Sum(f, V \ {x})
        BY <4>1, SumRemove
      <4> QED
        BY <4>2 DEF V
    <3> QED
      BY <2>3, <2>4, <3>1, <3>2
  <2>6. CASE x \notin P
    <3>1. T \cap P = U \cap P /\ f[x] = 0
      BY <2>1, <2>6
    <3>2. Sum(f, U) \in Int
      <4> HIDE DEF U
      <4>1. U \in SUBSET S /\ IsFiniteSet(U)
        BY <2>2, FS_RemoveElement DEF U
      <4> QED
        BY <4>1, SumIsNumber
    <3>3. Sum(f, T) = Sum(f, U)
      <4> HIDE DEF x, U
      <4> QED
        BY <2>4, <3>1, <3>2
    <3> QED
      BY <2>3, <3>1, <3>3
  <2> QED
    BY <2>5, <2>6
<1>3. Good \in SUBSET (SUBSET S)
  OBVIOUS
<1>4. S \in Good
  <2> HIDE DEF Good
  <2> QED
    BY <1>1, <1>2, <1>3, SumInduction
<1>5. S \cap P = P
  OBVIOUS
<1> QED
  BY <1>4, <1>5

\* One term of a sum of naturals is at most the sum.
LEMMA SumAtLeast ==
  ASSUME NEW f, NEW S, IsFiniteSet(S), \A x \in S : f[x] \in Nat, NEW y \in S
  PROVE  f[y] <= Sum(f, S)
<1>1. Sum(f, S) = f[y] + Sum(f, S \ {y})
  <2>1. \A x \in S : f[x] \in Int
    OBVIOUS
  <2> QED
    BY <2>1, SumRemove
<1>2. Sum(f, S \ {y}) \in Nat
  BY FS_RemoveElement, SumIsNumber
<1> QED
  BY <1>1, <1>2

==============================================================================
