-------------------------------- MODULE Sums --------------------------------
(***************************************************************************)
(* Sums over finite sets, for the proofs about counters: what              *)
(* SumFunctionOnSet of the library computes, whatever order it picks the   *)
(* elements in.  The library defines it by choosing a function over the    *)
(* subsets of S that satisfies a recursion; that such a function exists,   *)
(* and that there is one only, is shown by taking a smallest subset for    *)
(* which it fails (subsets of a finite set are well-founded).              *)
(***************************************************************************)
EXTENDS Integers, FiniteSets, Functions, FiniteSetTheorems, WellFoundedInduction, TLAPS

-----------------------------------------------------------------------------
(* The recursion behind the sum.                                           *)

\* The element taken next, the recursion's equation, and the function the
\* library chooses.

Pick(s) == CHOOSE x \in s : TRUE
Body(f, g, s) == IF s = {} THEN 0 ELSE f[Pick(s)] + g[s \ {Pick(s)}]
Iter(f, S) == CHOOSE g : g = [s \in SUBSET S |-> Body(f, g, s)]

\* The library's sum is that function at the whole set.
LEMMA SumIsIter ==
    ASSUME NEW f, NEW S
    PROVE  SumFunctionOnSet(f, S) = Iter(f, S)[S]
BY DEF SumFunctionOnSet, FoldFunctionOnSet, MapThenFoldSet, Iter, Body, Pick

\* A set of subsets of a finite set has a smallest member.
LEMMA SmallestSubset ==
    ASSUME NEW S, IsFiniteSet(S), NEW T \in SUBSET (SUBSET S), T # {}
    PROVE  \E x \in T : \A y \in T : y \subseteq x => y = x
<1>1. IsWellFoundedOn(StrictSubsetOrdering(S), SUBSET S)
  BY FS_StrictSubsetOrderingWellFounded, FS_FiniteSubsetsOfFinite
<1>2. PICK x \in T : \A y \in T : <<y, x>> \notin StrictSubsetOrdering(S)
  BY <1>1, WFMin
<1>3. \A y \in T : y \subseteq x => y = x
  BY <1>2 DEF StrictSubsetOrdering
<1> QED
  BY <1>3

\* The element taken is one of the set.
LEMMA PickIn == ASSUME NEW s, s # {} PROVE Pick(s) \in s
BY DEF Pick

\* g satisfies the recursion on the subsets of T.
Solves(f, g, T) == g = [s \in SUBSET T |-> Body(f, g, s)]

\* A solution restricted to the subsets of a smaller set is a solution there.
LEMMA SolvedBelow ==
    ASSUME NEW f, NEW g, NEW T, NEW U \in SUBSET T, Solves(f, g, T)
    PROVE  Solves(f, [s \in SUBSET U |-> g[s]], U)
<1> DEFINE h == [s \in SUBSET U |-> g[s]]
<1>1. ASSUME NEW s \in SUBSET U PROVE g[s] = Body(f, h, s)
  <2>1. g[s] = Body(f, g, s)
    BY DEF Solves
  <2>2. s # {} => h[s \ {Pick(s)}] = g[s \ {Pick(s)}]
    OBVIOUS
  <2> QED
    BY <2>1, <2>2 DEF Body
<1> QED
  BY <1>1 DEF Solves

\* The recursion has one solution at most.
LEMMA SolutionsAgree ==
    ASSUME NEW f, NEW g, NEW h, NEW T, IsFiniteSet(T), Solves(f, g, T), Solves(f, h, T)
    PROVE  g = h
<1> DEFINE Bad == {s \in SUBSET T : g[s] # h[s]}
<1>1. ASSUME Bad # {} PROVE FALSE
  <2>1. PICK s \in Bad : \A u \in Bad : u \subseteq s => u = s
    <3>1. Bad \in SUBSET (SUBSET T)
      OBVIOUS
    <3> HIDE DEF Bad
    <3> QED
      BY <1>1, <3>1, SmallestSubset
  <2>2. g[s] = Body(f, g, s) /\ h[s] = Body(f, h, s)
    BY DEF Solves
  <2>3. s # {} => g[s \ {Pick(s)}] = h[s \ {Pick(s)}]
    BY <2>1, PickIn
  <2> QED
    BY <2>2, <2>3 DEF Body
<1> QED
  BY <1>1 DEF Solves

\* It has one, so the function the library chooses satisfies it.
LEMMA IterSolves ==
    ASSUME NEW f, NEW S, IsFiniteSet(S)
    PROVE  Solves(f, Iter(f, S), S)
<1> DEFINE Bad == {T \in SUBSET S : ~ \E g : Solves(f, g, T)}
           Val(T) == Iter(f, T)[T]
<1>1. ASSUME NEW T, \E g : Solves(f, g, T) PROVE Solves(f, Iter(f, T), T)
  BY <1>1 DEF Solves, Iter
<1>2. ASSUME Bad # {} PROVE FALSE
  <2>1. PICK T \in Bad : \A u \in Bad : u \subseteq T => u = T
    <3>1. Bad \in SUBSET (SUBSET S)
      OBVIOUS
    <3> HIDE DEF Bad
    <3> QED
      BY <1>2, <3>1, SmallestSubset
  <2>2. IsFiniteSet(T) /\ \A u \in SUBSET T : IsFiniteSet(u)
    BY FS_Subset
  <2>3. ASSUME NEW u \in SUBSET T, u # T PROVE Solves(f, Iter(f, u), u)
    BY <1>1, <2>1, <2>3
  <2>4. ASSUME NEW u \in SUBSET T, u # T, u # {}
        PROVE  Val(u) = f[Pick(u)] + Val(u \ {Pick(u)})
    <3> DEFINE v == u \ {Pick(u)}
               r == [s \in SUBSET v |-> Iter(f, u)[s]]
    <3>1. Val(u) = f[Pick(u)] + Iter(f, u)[v]
      <4>1. PICK k : k = Iter(f, u) /\ k = [s \in SUBSET u |-> Body(f, k, s)]
        BY <2>3, <2>4 DEF Solves
      <4>2. k[u] = Body(f, k, u)
        BY <4>1
      <4> QED
        BY <2>4, <4>1, <4>2 DEF Body
    <3>2. v \in SUBSET T /\ v # T /\ v \in SUBSET u
      <4>1. Pick(u) \in u
        BY <2>4, PickIn
      <4> QED
        BY <4>1
    <3>3. Solves(f, r, v) /\ Solves(f, Iter(f, v), v)
      <4>1. Solves(f, Iter(f, u), u) /\ Solves(f, Iter(f, v), v)
        BY <2>3, <2>4, <3>2
      <4>2. PICK k : k = Iter(f, u)
        OBVIOUS
      <4> HIDE DEF v
      <4>a. v \in SUBSET u /\ Solves(f, k, u)
        BY <3>2, <4>1, <4>2
      <4>3. Solves(f, [s \in SUBSET v |-> k[s]], v)
        BY <4>a, SolvedBelow
      <4> QED
        BY <4>1, <4>2, <4>3
    <3>4. r = Iter(f, v)
      BY <2>2, <3>2, <3>3, SolutionsAgree
    <3>5. r[v] = Iter(f, u)[v]
      OBVIOUS
    <3> QED
      BY <3>1, <3>4, <3>5
  <2> DEFINE g == [s \in SUBSET T |-> IF s = {} THEN 0 ELSE f[Pick(s)] + Val(s \ {Pick(s)})]
  <2>5. ASSUME NEW u \in SUBSET T, u # T PROVE g[u] = Val(u)
    <3>1. CASE u = {}
      BY <2>3, <2>5, <3>1 DEF Solves, Body
    <3>2. CASE u # {}
      BY <2>4, <2>5, <3>2
    <3> QED
      BY <3>1, <3>2
  <2>6. ASSUME NEW s \in SUBSET T PROVE g[s] = Body(f, g, s)
    <3>1. CASE s = {}
      BY <3>1 DEF Body
    <3>2. CASE s # {}
      <4>1. s \ {Pick(s)} \in SUBSET T /\ s \ {Pick(s)} # T
        BY <3>2, PickIn
      <4>2. g[s \ {Pick(s)}] = Val(s \ {Pick(s)})
        BY <4>1, <2>5
      <4> HIDE DEF Val
      <4> QED
        BY <3>2, <4>2 DEF Body
    <3> QED
      BY <3>1, <3>2
  <2>7. Solves(f, g, T)
    <3>1. g = [s \in SUBSET T |-> g[s]]
      OBVIOUS
    <3> HIDE DEF g
    <3> QED
      BY <2>6, <3>1 DEF Solves
  <2> QED
    BY <2>1, <2>7
<1>3. S \notin Bad
  BY <1>2
<1> QED
  BY <1>1, <1>3

-----------------------------------------------------------------------------
(* What a sum is.                                                          *)

\* The sum over no element.
LEMMA SumOfNone ==
    ASSUME NEW f
    PROVE  SumFunctionOnSet(f, {}) = 0
<1>1. Solves(f, Iter(f, {}), {})
  BY IterSolves, FS_EmptySet
<1>2. PICK g : g = Iter(f, {})
  OBVIOUS
<1>3. g = [s \in SUBSET {} |-> Body(f, g, s)]
  BY <1>1, <1>2 DEF Solves
<1>4. {} \in SUBSET {} /\ Body(f, g, {}) = 0
  BY DEF Body
<1>5. g[{}] = 0
  BY <1>3, <1>4
<1> QED
  BY <1>2, <1>5, SumIsIter

\* The sum unfolds once, at the element the library takes.
LEMMA SumRecursion ==
    ASSUME NEW f, NEW S, IsFiniteSet(S), S # {}
    PROVE  SumFunctionOnSet(f, S) = f[Pick(S)] + SumFunctionOnSet(f, S \ {Pick(S)})
<1> DEFINE v == S \ {Pick(S)}
           r == [s \in SUBSET v |-> Iter(f, S)[s]]
<1>1. IsFiniteSet(v) /\ v \in SUBSET S
  BY FS_Subset
<1>a. Solves(f, Iter(f, S), S) /\ Solves(f, Iter(f, v), v)
  BY <1>1, IterSolves
<1>2. Iter(f, S)[S] = f[Pick(S)] + Iter(f, S)[v]
  <2>1. PICK g : g = Iter(f, S)
    OBVIOUS
  <2>2. g = [s \in SUBSET S |-> Body(f, g, s)]
    BY <1>a, <2>1 DEF Solves
  <2>3. g[S] = Body(f, g, S)
    BY <2>2
  <2> QED
    BY <2>1, <2>3 DEF Body
<1>3. r = Iter(f, v)
  <2>1. PICK g : g = Iter(f, S) /\ Solves(f, g, S)
    BY <1>a
  <2>2. Solves(f, [s \in SUBSET v |-> g[s]], v)
    BY <1>1, <2>1, SolvedBelow
  <2> HIDE DEF v
  <2> QED
    BY <1>1, <1>a, <2>1, <2>2, SolutionsAgree
<1>4. r[v] = Iter(f, S)[v]
  OBVIOUS
<1> QED
  BY <1>2, <1>3, <1>4, SumIsIter

\* A sum of integers is an integer.
LEMMA SumType ==
    ASSUME NEW f, NEW S, IsFiniteSet(S), \A x \in S : f[x] \in Int
    PROVE  SumFunctionOnSet(f, S) \in Int
<1> DEFINE Bad == {T \in SUBSET S : SumFunctionOnSet(f, T) \notin Int}
<1>1. ASSUME Bad # {} PROVE FALSE
  <2>1. PICK T \in Bad : \A u \in Bad : u \subseteq T => u = T
    <3>1. Bad \in SUBSET (SUBSET S)
      OBVIOUS
    <3> HIDE DEF Bad
    <3> QED
      BY <1>1, <3>1, SmallestSubset
  <2>2. T # {}
    BY SumOfNone
  <2>3. Pick(T) \in T /\ T \ {Pick(T)} \notin Bad
    BY <2>1, <2>2, PickIn
  <2> QED
    BY <2>2, <2>3, SumRecursion, FS_Subset
<1> QED
  BY <1>1

\* The sum unfolds at any element: the order does not matter.
LEMMA SumRemove ==
    ASSUME NEW f, NEW S, IsFiniteSet(S), \A x \in S : f[x] \in Int, NEW x \in S
    PROVE  SumFunctionOnSet(f, S) = f[x] + SumFunctionOnSet(f, S \ {x})
<1> DEFINE Good(T, y) == SumFunctionOnSet(f, T) = f[y] + SumFunctionOnSet(f, T \ {y})
           Bad == {T \in SUBSET S : \E y \in T : ~Good(T, y)}
<1>1. ASSUME Bad # {} PROVE FALSE
  <2>1. PICK T \in Bad : \A u \in Bad : u \subseteq T => u = T
    <3>1. Bad \in SUBSET (SUBSET S)
      OBVIOUS
    <3> HIDE DEF Bad
    <3> QED
      BY <1>1, <3>1, SmallestSubset
  <2>2. PICK y \in T : ~Good(T, y)
    OBVIOUS
  <2>3. PICK p \in T : p = Pick(T)
    BY <2>2, PickIn
  <2>4. \A u \in SUBSET S : IsFiniteSet(u) /\ SumFunctionOnSet(f, u) \in Int
    BY FS_Subset, SumType
  <2>5. Good(T, p)
    BY <2>3, <2>4, SumRecursion
  <2>6. p # y
    BY <2>2, <2>5
  <2>7. Good(T \ {p}, y) /\ Good(T \ {y}, p)
    <3>1. T \ {p} \notin Bad /\ T \ {y} \notin Bad
      BY <2>1
    <3> QED
      BY <2>6, <3>1
  <2>8. (T \ {p}) \ {y} = (T \ {y}) \ {p}
    OBVIOUS
  <2>9. PICK v : v = (T \ {p}) \ {y} /\ v \in SUBSET S
    OBVIOUS
  <2>a. SumFunctionOnSet(f, T) \in Int /\ SumFunctionOnSet(f, T \ {p}) \in Int
        /\ SumFunctionOnSet(f, T \ {y}) \in Int /\ SumFunctionOnSet(f, v) \in Int
        /\ f[p] \in Int /\ f[y] \in Int
    BY <2>4, <2>9
  <2> QED
    BY <2>2, <2>5, <2>7, <2>8, <2>9, <2>a
<1> QED
  BY <1>1

\* The sum only depends on the values at the elements summed over.
LEMMA SumSame ==
    ASSUME NEW f, NEW g, NEW S, IsFiniteSet(S), \A x \in S : f[x] = g[x]
    PROVE  SumFunctionOnSet(f, S) = SumFunctionOnSet(g, S)
<1> DEFINE Bad == {T \in SUBSET S : SumFunctionOnSet(f, T) # SumFunctionOnSet(g, T)}
<1>1. ASSUME Bad # {} PROVE FALSE
  <2>1. PICK T \in Bad : \A u \in Bad : u \subseteq T => u = T
    <3>1. Bad \in SUBSET (SUBSET S)
      OBVIOUS
    <3> HIDE DEF Bad
    <3> QED
      BY <1>1, <3>1, SmallestSubset
  <2>2. T # {} /\ IsFiniteSet(T)
    BY SumOfNone, FS_Subset
  <2>3. Pick(T) \in T /\ T \ {Pick(T)} \notin Bad
    BY <2>1, <2>2, PickIn
  <2> QED
    BY <2>2, <2>3, SumRecursion
<1> QED
  BY <1>1

\* One summand changes: the sum changes by as much.
LEMMA SumUpdate ==
    ASSUME NEW f, NEW g, NEW S, IsFiniteSet(S), NEW x \in S,
           \A y \in S : f[y] \in Int /\ g[y] \in Int,
           \A y \in S \ {x} : g[y] = f[y]
    PROVE  /\ SumFunctionOnSet(f, S) \in Int
           /\ SumFunctionOnSet(g, S) = SumFunctionOnSet(f, S) + (g[x] - f[x])
<1> DEFINE T == S \ {x}
<1>1. IsFiniteSet(T)
  BY FS_Subset
<1>2. SumFunctionOnSet(g, T) = SumFunctionOnSet(f, T)
  BY <1>1, SumSame
<1>3. SumFunctionOnSet(f, T) \in Int /\ SumFunctionOnSet(f, S) \in Int
  BY <1>1, SumType
<1>4. /\ SumFunctionOnSet(f, S) = f[x] + SumFunctionOnSet(f, T)
      /\ SumFunctionOnSet(g, S) = g[x] + SumFunctionOnSet(g, T)
  BY SumRemove
<1> HIDE DEF T
<1> QED
  BY <1>2, <1>3, <1>4

\* A sum of zeros.
LEMMA SumOfZeros ==
    ASSUME NEW f, NEW S, IsFiniteSet(S), \A x \in S : f[x] = 0
    PROVE  SumFunctionOnSet(f, S) = 0
<1> DEFINE Bad == {T \in SUBSET S : SumFunctionOnSet(f, T) # 0}
<1>1. ASSUME Bad # {} PROVE FALSE
  <2>1. PICK T \in Bad : \A u \in Bad : u \subseteq T => u = T
    <3>1. Bad \in SUBSET (SUBSET S)
      OBVIOUS
    <3> HIDE DEF Bad
    <3> QED
      BY <1>1, <3>1, SmallestSubset
  <2>2. T # {} /\ IsFiniteSet(T)
    BY SumOfNone, FS_Subset
  <2>3. Pick(T) \in T /\ T \ {Pick(T)} \notin Bad
    BY <2>1, <2>2, PickIn
  <2> QED
    BY <2>2, <2>3, SumRecursion
<1> QED
  BY <1>1

\* Larger summands make a larger sum.
LEMMA SumMonotone ==
    ASSUME NEW f, NEW g, NEW S, IsFiniteSet(S),
           \A x \in S : f[x] \in Int /\ g[x] \in Int /\ f[x] <= g[x]
    PROVE  SumFunctionOnSet(f, S) <= SumFunctionOnSet(g, S)
<1> DEFINE Bad == {T \in SUBSET S : ~(SumFunctionOnSet(f, T) <= SumFunctionOnSet(g, T))}
<1>1. ASSUME Bad # {} PROVE FALSE
  <2>1. PICK T \in Bad : \A u \in Bad : u \subseteq T => u = T
    <3>1. Bad \in SUBSET (SUBSET S)
      OBVIOUS
    <3> HIDE DEF Bad
    <3> QED
      BY <1>1, <3>1, SmallestSubset
  <2>a. \A u \in SUBSET S : IsFiniteSet(u)
    BY FS_Subset
  <2>b. SumFunctionOnSet(f, {}) = 0 /\ SumFunctionOnSet(g, {}) = 0
    BY SumOfNone
  <2>2. T # {} /\ IsFiniteSet(T)
    BY <2>a, <2>b
  <2>3. PICK p \in T : p = Pick(T) /\ T \ {p} \notin Bad
    BY <2>1, <2>2, PickIn
  <2>4. PICK u \in SUBSET S : u = T \ {p} /\ IsFiniteSet(u)
    BY <2>a
  <2>5. SumFunctionOnSet(f, u) <= SumFunctionOnSet(g, u)
    BY <2>3, <2>4
  <2>6. SumFunctionOnSet(f, u) \in Int /\ SumFunctionOnSet(g, u) \in Int
    BY <2>4, SumType
  <2>7. /\ SumFunctionOnSet(f, T) = f[p] + SumFunctionOnSet(f, u)
        /\ SumFunctionOnSet(g, T) = g[p] + SumFunctionOnSet(g, u)
    BY <2>2, <2>3, <2>4, SumRecursion
  <2>8. f[p] \in Int /\ g[p] \in Int /\ f[p] <= g[p]
    OBVIOUS
  <2>9. SumFunctionOnSet(f, T) <= SumFunctionOnSet(g, T)
    BY <2>5, <2>6, <2>7, <2>8
  <2> QED
    BY <2>9
<1> QED
  BY <1>1

\* A sum of naturals is a natural and no less than any of its summands.
LEMMA SumOfNaturals ==
    ASSUME NEW f, NEW S, IsFiniteSet(S), \A x \in S : f[x] \in Nat
    PROVE  /\ SumFunctionOnSet(f, S) \in Nat
           /\ \A x \in S : f[x] <= SumFunctionOnSet(f, S)
<1>1. ASSUME NEW T \in SUBSET S PROVE SumFunctionOnSet(f, T) \in Nat
  <2> DEFINE z == [x \in S |-> 0]
  <2>1. IsFiniteSet(T) /\ \A x \in T : z[x] \in Int /\ f[x] \in Int /\ z[x] <= f[x] /\ z[x] = 0
    <3>1. IsFiniteSet(T)
      BY FS_Subset
    <3> QED
      BY <3>1
  <2> HIDE DEF z
  <2>2. SumFunctionOnSet(z, T) = 0 /\ SumFunctionOnSet(f, T) \in Int
    BY <2>1, SumOfZeros, SumType
  <2>3. SumFunctionOnSet(z, T) <= SumFunctionOnSet(f, T)
    BY <2>1, SumMonotone
  <2> QED
    BY <2>2, <2>3
<1>2. ASSUME NEW x \in S PROVE f[x] <= SumFunctionOnSet(f, S)
  <2>1. SumFunctionOnSet(f, S) = f[x] + SumFunctionOnSet(f, S \ {x})
    <3>1. \A y \in S : f[y] \in Int
      OBVIOUS
    <3> QED
      BY <3>1, SumRemove
  <2>2. SumFunctionOnSet(f, S \ {x}) \in Nat /\ f[x] \in Nat
    BY <1>1
  <2> QED
    BY <2>1, <2>2
<1> QED
  BY <1>1, <1>2

\* Summands that are zero may be left out.
LEMMA SumSupport ==
    ASSUME NEW f, NEW S, IsFiniteSet(S), NEW T \in SUBSET S,
           \A x \in S : f[x] \in Int, \A x \in S \ T : f[x] = 0
    PROVE  SumFunctionOnSet(f, S) = SumFunctionOnSet(f, T)
<1> DEFINE Bad == {U \in SUBSET (S \ T) : SumFunctionOnSet(f, T \cup U) # SumFunctionOnSet(f, T)}
<1>a. IsFiniteSet(S \ T)
  BY FS_Subset
<1>b. \A U \in SUBSET S : IsFiniteSet(U)
  BY FS_Subset
<1>1. ASSUME Bad # {} PROVE FALSE
  <2>1. PICK U \in Bad : \A V \in Bad : V \subseteq U => V = U
    <3>1. Bad \in SUBSET (SUBSET (S \ T))
      OBVIOUS
    <3> HIDE DEF Bad
    <3> QED
      BY <1>1, <1>a, <3>1, SmallestSubset
  <2>2. U # {}
    <3>1. U = {} => T \cup U = T
      OBVIOUS
    <3> QED
      BY <3>1
  <2>3. PICK x \in U : TRUE
    BY <2>2
  <2>a. U \ {x} \in SUBSET (S \ T) /\ U \ {x} \subseteq U /\ U \ {x} # U
    OBVIOUS
  <2>4. PICK V : V = U \ {x} /\ V \in SUBSET (S \ T) /\ V \subseteq U /\ V # U
    BY <2>a
  <2>5. SumFunctionOnSet(f, T \cup V) = SumFunctionOnSet(f, T)
    BY <2>1, <2>4
  <2>6. PICK W \in SUBSET S : W = T \cup U /\ x \in W /\ W \ {x} = T \cup V
    BY <2>3, <2>4
  <2>7. SumFunctionOnSet(f, W) = f[x] + SumFunctionOnSet(f, W \ {x})
    <3>1. IsFiniteSet(W) /\ \A y \in W : f[y] \in Int
      BY <1>b, <2>6
    <3> QED
      BY <2>6, <3>1, SumRemove
  <2>8. SumFunctionOnSet(f, W \ {x}) \in Int /\ f[x] = 0
    <3>1. \A U2 \in SUBSET S : SumFunctionOnSet(f, U2) \in Int
      BY <1>b, SumType
    <3>2. W \ {x} \in SUBSET S /\ x \in S \ T
      BY <2>1, <2>3, <2>6
    <3> QED
      BY <3>1, <3>2
  <2>9. SumFunctionOnSet(f, W) = SumFunctionOnSet(f, W \ {x})
    BY <2>7, <2>8
  <2> QED
    BY <2>1, <2>5, <2>6, <2>9
<1>2. S \ T \notin Bad /\ T \cup (S \ T) = S
  BY <1>1
<1> QED
  BY <1>2

\* The sum of sums.
LEMMA SumPlus ==
    ASSUME NEW f, NEW g, NEW h, NEW S, IsFiniteSet(S),
           \A x \in S : f[x] \in Int /\ g[x] \in Int /\ h[x] = f[x] + g[x]
    PROVE  SumFunctionOnSet(h, S) = SumFunctionOnSet(f, S) + SumFunctionOnSet(g, S)
<1> DEFINE Good(T) == SumFunctionOnSet(h, T) = SumFunctionOnSet(f, T) + SumFunctionOnSet(g, T)
           Bad == {T \in SUBSET S : ~Good(T)}
<1>1. ASSUME Bad # {} PROVE FALSE
  <2>1. PICK T \in Bad : \A u \in Bad : u \subseteq T => u = T
    <3>1. Bad \in SUBSET (SUBSET S)
      OBVIOUS
    <3> HIDE DEF Bad
    <3> QED
      BY <1>1, <3>1, SmallestSubset
  <2>a. \A u \in SUBSET S : IsFiniteSet(u)
    BY FS_Subset
  <2>b. SumFunctionOnSet(f, {}) = 0 /\ SumFunctionOnSet(g, {}) = 0 /\ SumFunctionOnSet(h, {}) = 0
    BY SumOfNone
  <2>c. T \in SUBSET S /\ ~Good(T) /\ Good({})
    BY <2>b
  <2>d. \A u \in SUBSET S : u \subseteq T /\ u # T => Good(u)
    BY <2>1
  <2> HIDE DEF Good, Bad
  <2>2. T # {} /\ IsFiniteSet(T)
    BY <2>a, <2>c
  <2>3. PICK p \in T : p = Pick(T)
    BY <2>2, PickIn
  <2>e. T \ {p} \in SUBSET S /\ T \ {p} \subseteq T /\ T \ {p} # T
    BY <2>c
  <2>4. PICK u \in SUBSET S : u = T \ {p} /\ Good(u)
    BY <2>d, <2>e
  <2>5. SumFunctionOnSet(f, u) \in Int /\ SumFunctionOnSet(g, u) \in Int
    <3>1. IsFiniteSet(u) /\ \A x \in u : f[x] \in Int /\ g[x] \in Int
      BY <2>a, <2>4
    <3> QED
      BY <3>1, SumType
  <2>6. /\ SumFunctionOnSet(f, T) = f[p] + SumFunctionOnSet(f, u)
        /\ SumFunctionOnSet(g, T) = g[p] + SumFunctionOnSet(g, u)
        /\ SumFunctionOnSet(h, T) = h[p] + SumFunctionOnSet(h, u)
    BY <2>2, <2>3, <2>4, SumRecursion
  <2>7. f[p] \in Int /\ g[p] \in Int /\ h[p] = f[p] + g[p]
    BY <2>c
  <2>8. Good(T)
    BY <2>4, <2>5, <2>6, <2>7 DEF Good
  <2> QED
    BY <2>c, <2>8
<1>2. S \notin Bad
  BY <1>1
<1> QED
  BY <1>2
=============================================================================
