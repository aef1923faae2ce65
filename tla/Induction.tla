------------------------------- MODULE Induction -------------------------------
(***************************************************************************)
(* Induction for the proofs about the models, over the naturals and over   *)
(* finite sets, with a set in the place of the predicate; and, with it,    *)
(* what the fold SumFunctionOnSet computes.                                *)
(***************************************************************************)
EXTENDS Integers, Functions, FiniteSetsExt, FiniteSetTheorems, WellFoundedInduction, TLAPS

\* A set of naturals that is not empty has a least element.
LEMMA LeastNatural ==
    ASSUME NEW T \in SUBSET Nat, T # {}
    PROVE  \E n \in T : \A m \in T : n <= m
<1>1. PICK n \in T : \A m \in T : ~(<<m, n>> \in OpToRel(<, Nat))
  BY NatLessThanWellFounded, WFMin
<1>2. \A m \in T : ~(m < n)
  BY <1>1 DEF OpToRel
<1> QED
  BY <1>2

\* What holds of 0, and of the successor of whatever it holds of, holds of every natural.
LEMMA NaturalsIn ==
    ASSUME NEW T, 0 \in T, \A n \in Nat : n \in T => n + 1 \in T
    PROVE  Nat \subseteq T
<1> SUFFICES ASSUME Nat \ T # {} PROVE FALSE
  OBVIOUS
<1>1. PICK n \in Nat \ T : \A m \in Nat \ T : n <= m
  BY LeastNatural
<1>2. n # 0 /\ n - 1 \in Nat /\ n - 1 \notin Nat \ T
  BY <1>1
<1> QED
  BY <1>1, <1>2

\* A bounded set of naturals that is not empty has a greatest element.
LEMMA GreatestNatural ==
    ASSUME NEW T \in SUBSET Nat, T # {}, NEW N \in Nat, \A n \in T : n <= N
    PROVE  \E n \in T : \A m \in T : m <= n
<1> DEFINE D == {N - n : n \in T}
<1>1. \A n \in T : n \in Nat /\ N - n \in Nat /\ N - n \in D
  OBVIOUS
<1>2. D \in SUBSET Nat /\ D # {}
  BY <1>1
<1> HIDE DEF D
<1>3. PICK d \in D : \A e \in D : d <= e
  BY <1>2, LeastNatural
<1>4. PICK n \in T : d = N - n
  BY DEF D
<1>5. ASSUME NEW m \in T PROVE m <= n
  <2>1. N - n <= N - m
    BY <1>1, <1>3, <1>4
  <2> QED
    BY <2>1
<1> QED
  BY <1>5

\* What holds of the empty set, and of a subset with one more element of S whenever it holds
\* of the subset, holds of the finite set S.
LEMMA FiniteSetIn ==
    ASSUME NEW S, IsFiniteSet(S), NEW T, {} \in T,
           \A A \in SUBSET S : \A x \in S \ A : A \in T => A \union {x} \in T
    PROVE  S \in T
<1> SUFFICES ASSUME S \notin T PROVE FALSE
  OBVIOUS
<1> DEFINE B == {A \in SUBSET S : A \notin T}
           N == {Cardinality(A) : A \in B}
<1>1. \A A \in SUBSET S : IsFiniteSet(A) /\ Cardinality(A) \in Nat
  BY FS_Subset, FS_CardinalityType
<1>2. N \in SUBSET Nat /\ N # {}
  BY <1>1
<1>3. PICK n \in N : \A m \in N : n <= m
  BY <1>2, LeastNatural
<1>4. PICK A \in B : n = Cardinality(A)
  OBVIOUS
<1>5. PICK x : x \in A
  BY <1>4
<1>6. Cardinality(A \ {x}) = Cardinality(A) - 1
  BY <1>1, <1>4, <1>5, FS_RemoveElement
<1>7. A \ {x} \notin B
  BY <1>1, <1>3, <1>4, <1>6
<1>8. A \ {x} \in T /\ x \in S \ (A \ {x}) /\ A \ {x} \in SUBSET S
  BY <1>4, <1>5, <1>7
<1>9. (A \ {x}) \union {x} \in T
  BY <1>8
<1>10. (A \ {x}) \union {x} = A
  BY <1>5
<1> QED
  BY <1>4, <1>9, <1>10

\* A set of subsets of a finite set that is not empty has one that none of the others is
\* within.
LEMMA SmallestSubset ==
    ASSUME NEW S, IsFiniteSet(S), NEW B \in SUBSET (SUBSET S), B # {}
    PROVE  \E u \in B : \A v \in SUBSET u : v # u => v \notin B
<1> DEFINE N == {Cardinality(A) : A \in B}
<1>1. \A A \in SUBSET S : IsFiniteSet(A) /\ Cardinality(A) \in Nat
  BY FS_Subset, FS_CardinalityType
<1>2. N \in SUBSET Nat /\ N # {}
  BY <1>1
<1>3. PICK n \in N : \A m \in N : n <= m
  BY <1>2, LeastNatural
<1>4. PICK u \in B : n = Cardinality(u)
  OBVIOUS
<1>5. ASSUME NEW v \in SUBSET u, v # u, v \in B PROVE FALSE
  <2>1. IsFiniteSet(u) /\ Cardinality(u) \in Nat /\ Cardinality(v) \in Nat
    BY <1>1, <1>5
  <2>2. Cardinality(u) <= Cardinality(v)
    BY <1>3, <1>4, <1>5
  <2>3. Cardinality(v) < Cardinality(u)
    BY <1>5, <2>1, <2>2, FS_Subset
  <2> QED
    BY <2>1, <2>2, <2>3
<1> QED
  BY <1>5

--------------------------------------------------------------------------------
(* Sums over finite sets.                                                       *)

\* The element the fold takes first, and the function it builds over the subsets of D.
Taken(s) == CHOOSE x \in s : TRUE

IsSum(it, f, D) ==
    it = [s \in SUBSET D |-> IF s = {} THEN 0 ELSE f[Taken(s)] + it[s \ {Taken(s)}]]

\* Taken takes an element.
LEMMA TakenIn == ASSUME NEW s, s # {} PROVE Taken(s) \in s
  BY DEF Taken

\* Two such functions agree where they are both defined.
LEMMA IsSumUnique ==
    ASSUME NEW f, NEW D, IsFiniteSet(D), NEW E, NEW g, NEW h, IsSum(g, f, D), IsSum(h, f, E),
           NEW s \in SUBSET D, s \in SUBSET E
    PROVE  g[s] = h[s]
<1> DEFINE B == {u \in SUBSET D : u \subseteq E /\ g[u] # h[u]}
<1> SUFFICES ASSUME B # {} PROVE FALSE
  OBVIOUS
<1>1. PICK u \in B : \A v \in SUBSET u : v # u => v \notin B
  BY SmallestSubset
<1>2. u \in SUBSET D /\ u \in SUBSET E /\ g[u] # h[u]
  OBVIOUS
<1>3. CASE u = {}
  BY <1>2, <1>3 DEF IsSum
<1>4. CASE u # {}
  <2> DEFINE v == u \ {Taken(u)}
  <2>1. v \in SUBSET u /\ v # u
    BY <1>4, TakenIn
  <2>2. g[v] = h[v]
    BY <1>1, <1>2, <2>1
  <2>3. g[u] = f[Taken(u)] + g[v] /\ h[u] = f[Taken(u)] + h[v]
    BY <1>2, <1>4 DEF IsSum
  <2> QED
    BY <1>2, <2>2, <2>3
<1> QED
  BY <1>3, <1>4

\* There is one for every finite set.
LEMMA IsSumExists ==
    ASSUME NEW f, NEW D, IsFiniteSet(D)
    PROVE  \E it : IsSum(it, f, D)
<1> DEFINE B == {u \in SUBSET D : ~\E it : IsSum(it, f, u)}
<1> SUFFICES ASSUME B # {} PROVE FALSE
  BY DEF B
<1>0. B \in SUBSET (SUBSET D)
  OBVIOUS
<1>1. PICK u \in B : \A v \in SUBSET u : v # u => v \notin B
  <2> HIDE DEF B
  <2> QED
    BY <1>0, SmallestSubset
<1> DEFINE G(v) == CHOOSE it : IsSum(it, f, v)
           V(v) == G(v)[v]
           it == [s \in SUBSET u |-> IF s = {} THEN 0 ELSE f[Taken(s)] + V(s \ {Taken(s)})]
<1>2. ASSUME NEW v \in SUBSET u, v # u PROVE IsSum(G(v), f, v)
  <2>1. v \in SUBSET D /\ v \notin B
    BY <1>1, <1>2
  <2>2. \E g : IsSum(g, f, v)
    BY <2>1
  <2> QED
    BY <2>2
<1>3. ASSUME NEW v \in SUBSET u, v # u PROVE it[v] = V(v)
  <2>1. IsSum(G(v), f, v)
    BY <1>2, <1>3
  <2>2. CASE v = {}
    <3>1. G(v)[v] = 0
      BY <2>1, <2>2 DEF IsSum
    <3> QED
      BY <2>2, <3>1
  <2>3. CASE v # {}
    <3> DEFINE w == v \ {Taken(v)}
    <3>1. w \in SUBSET u /\ w # u /\ w \in SUBSET v
      BY <1>3
    <3>2. IsSum(G(w), f, w)
      BY <1>2, <3>1
    <3>3. IsFiniteSet(v)
      <4>1. v \in SUBSET D
        BY <1>1
      <4> QED
        BY <4>1, FS_Subset
    <3>4. G(v)[w] = G(w)[w]
      <4> HIDE DEF G, w
      <4> QED
        BY <2>1, <3>1, <3>2, <3>3, IsSumUnique
    <3>5. G(v)[v] = f[Taken(v)] + G(v)[w]
      BY <2>1, <2>3 DEF IsSum
    <3> QED
      BY <2>3, <3>4, <3>5
  <2> QED
    BY <2>2, <2>3
<1>4. ASSUME NEW s \in SUBSET u, s # {} PROVE it[s \ {Taken(s)}] = V(s \ {Taken(s)})
  <2>1. s \ {Taken(s)} \in SUBSET u /\ s \ {Taken(s)} # u
    BY <1>4, TakenIn
  <2> HIDE DEF V, it
  <2> QED
    BY <1>3, <2>1
<1>5. it = [s \in SUBSET u |-> IF s = {} THEN 0 ELSE f[Taken(s)] + it[s \ {Taken(s)}]]
  <2> HIDE DEF V
  <2>1. \A s \in SUBSET u : it[s] = IF s = {} THEN 0 ELSE f[Taken(s)] + it[s \ {Taken(s)}]
    <3> HIDE DEF it
    <3>1. \A s \in SUBSET u : it[s] = IF s = {} THEN 0 ELSE f[Taken(s)] + V(s \ {Taken(s)})
      BY DEF it
    <3> QED
      BY <1>4, <3>1
  <2>2. it = [s \in SUBSET u |-> it[s]]
    OBVIOUS
  <2> HIDE DEF it
  <2> QED
    BY <2>1, <2>2
<1>6. \E g : IsSum(g, f, u)
  <2> HIDE DEF it
  <2> QED
    BY <1>5 DEF IsSum
<1> QED
  BY <1>6

\* So the sum is what the fold says: nothing over the empty set, and one element with the sum
\* of the others over any other.
LEMMA SumIs ==
    ASSUME NEW f, NEW S, IsFiniteSet(S)
    PROVE  \E it : IsSum(it, f, S) /\ SumFunctionOnSet(f, S) = it[S]
<1> DEFINE it == CHOOSE g : IsSum(g, f, S)
<1>1. IsSum(it, f, S)
  BY IsSumExists
<1>2. SumFunctionOnSet(f, S) = it[S]
  BY DEF SumFunctionOnSet, FoldFunctionOnSet, MapThenFoldSet, IsSum, Taken
<1> QED
  BY <1>1, <1>2

\* The sum over a set, by the element that the fold takes first.
LEMMA SumStep ==
    ASSUME NEW f, NEW S, IsFiniteSet(S)
    PROVE  /\ S = {} => SumFunctionOnSet(f, S) = 0
           /\ S # {} => SumFunctionOnSet(f, S)
                          = f[Taken(S)] + SumFunctionOnSet(f, S \ {Taken(S)})
<1>1. PICK g : IsSum(g, f, S) /\ SumFunctionOnSet(f, S) = g[S]
  BY SumIs
<1>2. CASE S = {}
  BY <1>1, <1>2 DEF IsSum
<1>3. CASE S # {}
  <2> DEFINE R == S \ {Taken(S)}
  <2>1. R \in SUBSET S
    OBVIOUS
  <2>2. IsFiniteSet(R)
    BY <2>1, FS_Subset
  <2>3. PICK h : IsSum(h, f, R) /\ SumFunctionOnSet(f, R) = h[R]
    BY <2>2, SumIs
  <2>4. g[R] = h[R]
    <3> HIDE DEF R
    <3> QED
      BY <1>1, <2>1, <2>3, IsSumUnique
  <2>5. g[S] = f[Taken(S)] + g[R]
    BY <1>1, <1>3 DEF IsSum
  <2> QED
    BY <1>1, <1>3, <2>3, <2>4, <2>5
<1> QED
  BY <1>2, <1>3

\* A sum of integers is one, of naturals too.
LEMMA SumType ==
    ASSUME NEW f, NEW S, IsFiniteSet(S), NEW T \in {Int, Nat}, \A x \in S : f[x] \in T
    PROVE  SumFunctionOnSet(f, S) \in T
<1> DEFINE B == {u \in SUBSET S : SumFunctionOnSet(f, u) \notin T}
<1> SUFFICES ASSUME B # {} PROVE FALSE
  OBVIOUS
<1>0. B \in SUBSET (SUBSET S)
  OBVIOUS
<1>1. PICK u \in B : \A v \in SUBSET u : v # u => v \notin B
  <2> HIDE DEF B
  <2> QED
    BY <1>0, SmallestSubset
<1>2. u \in SUBSET S /\ IsFiniteSet(u) /\ SumFunctionOnSet(f, u) \notin T
  BY FS_Subset
<1>3. u # {}
  BY <1>2, SumStep
<1>4. Taken(u) \in u
  BY <1>3, TakenIn
<1> DEFINE v == u \ {Taken(u)}
<1>5. SumFunctionOnSet(f, v) \in T
  BY <1>1, <1>2, <1>4
<1>6. SumFunctionOnSet(f, u) = f[Taken(u)] + SumFunctionOnSet(f, v)
  BY <1>2, <1>3, SumStep
<1>7. f[Taken(u)] \in T
  BY <1>2, <1>4
<1> HIDE DEF v, B
<1> QED
  BY <1>2, <1>5, <1>6, <1>7

\* Any element can be taken first.
LEMMA SumRemove ==
    ASSUME NEW f, NEW S, IsFiniteSet(S), \A y \in S : f[y] \in Int, NEW x \in S
    PROVE  SumFunctionOnSet(f, S) = f[x] + SumFunctionOnSet(f, S \ {x})
<1> DEFINE Sum(u) == SumFunctionOnSet(f, u)
           B == {u \in SUBSET S : \E y \in u : Sum(u) # f[y] + Sum(u \ {y})}
<1> SUFFICES ASSUME B # {} PROVE FALSE
  OBVIOUS
<1>0. B \in SUBSET (SUBSET S)
  OBVIOUS
<1>1. PICK u \in B : \A v \in SUBSET u : v # u => v \notin B
  <2> HIDE DEF B
  <2> QED
    BY <1>0, SmallestSubset
<1>2. PICK y \in u : Sum(u) # f[y] + Sum(u \ {y})
  OBVIOUS
<1>3. \A v \in SUBSET u : v # u => \A z \in v : Sum(v) = f[z] + Sum(v \ {z})
  BY <1>0, <1>1
<1>4. \A v \in SUBSET u : IsFiniteSet(v)
  BY <1>0, FS_Subset
<1>5. \A z \in u : f[z] \in Int
  BY <1>0
<1>6. \A v \in SUBSET u : Sum(v) \in Int
  <2> TAKE v \in SUBSET u
  <2>1. \A z \in v : f[z] \in Int
    BY <1>5
  <2> QED
    BY <1>4, <2>1, SumType
<1> DEFINE t == Taken(u)
<1>7. t \in u
  BY <1>2, TakenIn
<1>8. Sum(u) = f[t] + Sum(u \ {t})
  BY <1>2, <1>4, SumStep
<1> HIDE DEF Sum, B, t
<1>9. y # t
  BY <1>2, <1>8
<1>10. Sum(u \ {t}) = f[y] + Sum((u \ {t}) \ {y})
  BY <1>3, <1>7, <1>9
<1>11. Sum(u \ {y}) = f[t] + Sum((u \ {y}) \ {t})
  BY <1>3, <1>7, <1>9
<1>12. (u \ {t}) \ {y} = (u \ {y}) \ {t}
  OBVIOUS
<1>13. f[y] \in Int /\ f[t] \in Int /\ Sum((u \ {y}) \ {t}) \in Int
  BY <1>5, <1>6, <1>7
<1>14. ASSUME NEW r \in Int, NEW a \in Int, NEW c \in Int PROVE c + (a + r) = a + (c + r)
  OBVIOUS
<1>15. f[t] + (f[y] + Sum((u \ {y}) \ {t})) = f[y] + (f[t] + Sum((u \ {y}) \ {t}))
  BY <1>13, <1>14
<1>16. Sum(u) = f[y] + Sum(u \ {y})
  BY <1>8, <1>10, <1>11, <1>12, <1>15
<1> QED
  BY <1>2, <1>16 DEF Sum

\* An element that was not there adds its value.
LEMMA SumAdd ==
    ASSUME NEW f, NEW S, IsFiniteSet(S), NEW x, x \notin S, \A y \in S \union {x} : f[y] \in Int
    PROVE  SumFunctionOnSet(f, S \union {x}) = f[x] + SumFunctionOnSet(f, S)
<1>1. IsFiniteSet(S \union {x})
  BY FS_AddElement
<1>2. (S \union {x}) \ {x} = S
  OBVIOUS
<1>3. SumFunctionOnSet(f, S \union {x}) = f[x] + SumFunctionOnSet(f, (S \union {x}) \ {x})
  BY <1>1, SumRemove
<1> QED
  BY <1>2, <1>3

\* Only the values on the set count.
LEMMA SumSame ==
    ASSUME NEW f, NEW g, NEW S, IsFiniteSet(S), \A x \in S : f[x] = g[x] /\ f[x] \in Int
    PROVE  SumFunctionOnSet(f, S) = SumFunctionOnSet(g, S)
<1> DEFINE F(u) == SumFunctionOnSet(f, u)
           G(u) == SumFunctionOnSet(g, u)
           B == {u \in SUBSET S : F(u) # G(u)}
<1> SUFFICES ASSUME B # {} PROVE FALSE
  OBVIOUS
<1>0. B \in SUBSET (SUBSET S)
  OBVIOUS
<1>1. PICK u \in B : \A v \in SUBSET u : v # u => v \notin B
  <2> HIDE DEF B
  <2> QED
    BY <1>0, SmallestSubset
<1>2. u \in SUBSET S /\ IsFiniteSet(u) /\ F(u) # G(u)
  BY FS_Subset
<1>3. u # {}
  BY <1>2, SumStep
<1> DEFINE t == Taken(u)
           w == u \ {t}
<1>4. t \in u
  BY <1>3, TakenIn
<1>5. F(u) = f[t] + F(w) /\ G(u) = g[t] + G(w)
  BY <1>2, <1>3, SumStep
<1>6. w \in SUBSET u /\ w # u /\ w \in SUBSET S
  BY <1>2, <1>4
<1>7. F(w) = G(w)
  BY <1>1, <1>6
<1> HIDE DEF F, G, B, t, w
<1> QED
  BY <1>2, <1>4, <1>5, <1>7

\* Two sets with nothing in common add up.
LEMMA SumUnion ==
    ASSUME NEW f, NEW S, NEW T, IsFiniteSet(S), IsFiniteSet(T), S \intersect T = {},
           \A x \in S \union T : f[x] \in Int
    PROVE  SumFunctionOnSet(f, S \union T) = SumFunctionOnSet(f, S) + SumFunctionOnSet(f, T)
<1> DEFINE F(u) == SumFunctionOnSet(f, u)
           B == {u \in SUBSET T : F(S \union u) # F(S) + F(u)}
<1> SUFFICES ASSUME B # {} PROVE FALSE
  OBVIOUS
<1>0. B \in SUBSET (SUBSET T)
  OBVIOUS
<1>1. PICK u \in B : \A v \in SUBSET u : v # u => v \notin B
  <2> HIDE DEF B
  <2> QED
    BY <1>0, SmallestSubset
<1>2. u \in SUBSET T /\ IsFiniteSet(u) /\ F(S \union u) # F(S) + F(u)
  BY FS_Subset
<1>3. F(S) \in Int
  BY SumType
<1>4. u # {}
  <2> SUFFICES ASSUME u = {} PROVE FALSE
    OBVIOUS
  <2>1. S \union u = S
    OBVIOUS
  <2>2. F(u) = 0
    BY <1>2, SumStep
  <2> HIDE DEF F
  <2> QED
    BY <1>2, <1>3, <2>1, <2>2
<1>5. PICK t : t \in u
  BY <1>4
<1> DEFINE w == u \ {t}
<1>6. w \in SUBSET u /\ w # u /\ w \in SUBSET T /\ IsFiniteSet(w) /\ t \notin S \union w
  BY <1>2, <1>5, FS_Subset
<1>7. F(S \union w) = F(S) + F(w)
  BY <1>1, <1>6
<1>8. F(u) = f[t] + F(w)
  BY <1>2, <1>5, SumRemove
<1>9. F(S \union u) = f[t] + F(S \union w)
  <2>1. IsFiniteSet(S \union w)
    BY <1>6, FS_Union
  <2>2. (S \union w) \union {t} = S \union u
    BY <1>5
  <2>3. \A y \in (S \union w) \union {t} : f[y] \in Int
    BY <1>2, <2>2
  <2>4. F((S \union w) \union {t}) = f[t] + F(S \union w)
    <3> HIDE DEF w
    <3> QED
      BY <1>6, <2>1, <2>3, SumAdd
  <2> QED
    BY <2>2, <2>4
<1>10. F(w) \in Int /\ f[t] \in Int
  BY <1>2, <1>5, <1>6, SumType
<1> HIDE DEF F, B, w
<1> QED
  BY <1>2, <1>3, <1>7, <1>8, <1>9, <1>10

\* The parts of a set, told apart by a function on it, add up to the whole.
LEMMA SumPartition ==
    ASSUME NEW f, NEW S, NEW I, IsFiniteSet(S), IsFiniteSet(I), NEW h \in [S -> I],
           \A x \in S : f[x] \in Int,
           NEW p \in [I -> Int],
           \A i \in I : p[i] = SumFunctionOnSet(f, {x \in S : h[x] = i})
    PROVE  SumFunctionOnSet(p, I) = SumFunctionOnSet(f, S)
<1> DEFINE F(u) == SumFunctionOnSet(f, u)
           P(u) == SumFunctionOnSet(p, u)
           Over(v) == {x \in S : h[x] \in v}
           B == {v \in SUBSET I : P(v) # F(Over(v))}
<1>S. ASSUME B # {} PROVE FALSE
  <2>0. B \in SUBSET (SUBSET I)
    OBVIOUS
  <2>1. PICK u \in B : \A v \in SUBSET u : v # u => v \notin B
    <3> HIDE DEF B
    <3> QED
      BY <1>S, <2>0, SmallestSubset
  <2>2. u \in SUBSET I /\ IsFiniteSet(u) /\ P(u) # F(Over(u))
    BY FS_Subset
  <2>3. u # {}
    <3> SUFFICES ASSUME u = {} PROVE FALSE
      OBVIOUS
    <3>1. Over(u) = {}
      OBVIOUS
    <3>2. P(u) = 0
      BY <2>2, SumStep
    <3>3. F({}) = 0
      BY FS_EmptySet, SumStep
    <3> HIDE DEF F, P, Over
    <3> QED
      BY <2>2, <3>1, <3>2, <3>3
  <2>4. PICK t : t \in u
    BY <2>3
  <2> DEFINE w == u \ {t}
             x == {y \in S : h[y] = t}
  <2>5. w \in SUBSET u /\ w # u /\ w \in SUBSET I
    BY <2>2, <2>4
  <2>6. P(w) = F(Over(w))
    BY <2>1, <2>5
  <2>7. P(u) = p[t] + P(w) /\ p[t] = F(x)
    <3>1. P(u) = p[t] + P(w)
      BY <2>2, <2>4, SumRemove
    <3> QED
      BY <2>2, <2>4, <3>1
  <2>8. Over(u) = Over(w) \union x /\ Over(w) \intersect x = {}
    BY <2>4
  <2>9. IsFiniteSet(Over(w)) /\ IsFiniteSet(x)
    BY FS_Subset
  <2>10. \A y \in Over(w) \union x : f[y] \in Int
    OBVIOUS
  <2>11. F(Over(w)) \in Int /\ F(x) \in Int
    <3> HIDE DEF Over, x
    <3> QED
      BY <2>9, <2>10, SumType
  <2>12. F(Over(u)) = F(Over(w)) + F(x)
    <3>1. F(Over(w) \union x) = F(Over(w)) + F(x)
      <4> HIDE DEF Over, x
      <4> QED
        BY <2>8, <2>9, <2>10, SumUnion
    <3> HIDE DEF F, Over, x
    <3> QED
      BY <2>8, <3>1
  <2> HIDE DEF F, P, Over, B, w, x
  <2> QED
    BY <2>2, <2>6, <2>7, <2>11, <2>12
<1>1. Over(I) = S
  OBVIOUS
<1>2. P(I) = F(Over(I))
  BY <1>S
<1>3. P(I) = F(S)
  <2> HIDE DEF F, P, Over
  <2> QED
    BY <1>1, <1>2
<1> QED
  BY <1>3

\* The greatest of a finite set of numbers is in it, and no other is above it.
LEMMA MaxIn ==
    ASSUME NEW S \in SUBSET Nat, IsFiniteSet(S), S # {}
    PROVE  Max(S) \in S /\ \A y \in S : Max(S) >= y
<1> DEFINE T == {A \in SUBSET S : A = {} \/ \E x \in A : \A y \in A : x >= y}
<1>1. {} \in T
  OBVIOUS
<1>2. ASSUME NEW A \in SUBSET S, NEW x \in S \ A, A \in T PROVE A \union {x} \in T
  <2>1. CASE A = {}
    BY <2>1
  <2>2. CASE A # {}
    <3>1. PICK z \in A : \A y \in A : z >= y
      BY <1>2, <2>2
    <3>2. x \in Nat /\ z \in Nat /\ A \subseteq Nat
      OBVIOUS
    <3>3. CASE x >= z
      BY <3>1, <3>2, <3>3
    <3>4. CASE z >= x
      BY <3>1, <3>2, <3>4
    <3> QED
      BY <3>2, <3>3, <3>4
  <2> QED
    BY <2>1, <2>2
<1> HIDE DEF T
<1>3. S \in T
  BY <1>1, <1>2, FiniteSetIn
<1> QED
  BY <1>3 DEF T, Max

\* The recursion by which FoldLeft goes through a sequence of n elements, for a function f
\* from a result and a place in the sequence to the next result.
IsFold(g, n, base, f) == \A s \in SUBSET (1 .. n) :
    g[s] = IF s = {} THEN base ELSE f[<<g[s \ {Max(s)}], Max(s)>>]

\* Such a recursion has a solution.
LEMMA FoldExists ==
    ASSUME NEW n \in Nat, NEW A, NEW base \in A, NEW f \in [A \X (1 .. n) -> A]
    PROVE  \E g \in [SUBSET (1 .. n) -> A] : IsFold(g, n, base, f)
<1> DEFINE Goes(m, g) == \A s \in SUBSET (1 .. m) :
                             g[s] = IF s = {} THEN base ELSE f[<<g[s \ {Max(s)}], Max(s)>>]
           Ends(m) == \E g \in [SUBSET (1 .. m) -> A] : Goes(m, g)
           T == {m \in Nat : m <= n => Ends(m)}
<1>1. Ends(0)
  <2>1. [s \in SUBSET (1 .. 0) |-> base] \in [SUBSET (1 .. 0) -> A]
    OBVIOUS
  <2>2. Goes(0, [s \in SUBSET (1 .. 0) |-> base])
    OBVIOUS
  <2> QED
    BY <2>1, <2>2
<1>2. ASSUME NEW m \in Nat, m + 1 <= n, Ends(m) PROVE Ends(m + 1)
  <2>1. PICK g \in [SUBSET (1 .. m) -> A] : Goes(m, g)
    BY <1>2
  <2> DEFINE h == [s \in SUBSET (1 .. m + 1) |->
                     IF m + 1 \in s THEN f[<<g[s \ {m + 1}], m + 1>>] ELSE g[s]]
  <2>2. \A s \in SUBSET (1 .. m + 1) : s \ {m + 1} \in SUBSET (1 .. m)
    OBVIOUS
  <2>3. \A s \in SUBSET (1 .. m + 1) : m + 1 \notin s => s \in SUBSET (1 .. m)
    BY <2>2
  <2>4. h \in [SUBSET (1 .. m + 1) -> A]
    <3>1. m + 1 \in 1 .. n
      BY <1>2
    <3>2. ASSUME NEW s \in SUBSET (1 .. m + 1), m + 1 \in s
          PROVE  f[<<g[s \ {m + 1}], m + 1>>] \in A
      <4>1. g[s \ {m + 1}] \in A
        BY <2>2
      <4> HIDE DEF Goes
      <4> QED
        BY <3>1, <4>1
    <3>3. ASSUME NEW s \in SUBSET (1 .. m + 1), m + 1 \notin s
          PROVE  g[s] \in A
      BY <2>3, <3>3
    <3> QED
      BY <3>2, <3>3
  <2>5. \A s \in SUBSET (1 .. m) : h[s] = g[s]
    <3> SUFFICES ASSUME NEW s \in SUBSET (1 .. m) PROVE h[s] = g[s]
      OBVIOUS
    <3>1. s \in SUBSET (1 .. m + 1) /\ m + 1 \notin s
      OBVIOUS
    <3> QED
      BY <3>1
  <2>6. ASSUME NEW s \in SUBSET (1 .. m + 1)
        PROVE  h[s] = IF s = {} THEN base ELSE f[<<h[s \ {Max(s)}], Max(s)>>]
    <3>1. CASE m + 1 \in s
      <4>1. Max(s) = m + 1
        <5>1. IsFiniteSet(1 .. m + 1)
          BY FS_Interval
        <5>2. IsFiniteSet(s)
          BY <5>1, FS_Subset
        <5>3. s \in SUBSET Nat
          OBVIOUS
        <5>4. Max(s) \in s /\ Max(s) >= m + 1
          BY <3>1, <5>2, <5>3, MaxIn
        <5>5. Max(s) \in 1 .. m + 1
          BY <5>4
        <5> QED
          BY <5>4, <5>5
      <4>2. h[s] = f[<<g[s \ {m + 1}], m + 1>>]
        BY <3>1
      <4>3. h[s \ {m + 1}] = g[s \ {m + 1}]
        BY <2>2, <2>5
      <4> QED
        BY <3>1, <4>1, <4>2, <4>3
    <3>2. CASE m + 1 \notin s
      <4>1. s \in SUBSET (1 .. m) /\ s \ {Max(s)} \in SUBSET (1 .. m)
        BY <2>3, <3>2
      <4>2. h[s] = g[s] /\ h[s \ {Max(s)}] = g[s \ {Max(s)}]
        BY <2>5, <4>1
      <4>3. g[s] = IF s = {} THEN base ELSE f[<<g[s \ {Max(s)}], Max(s)>>]
        BY <2>1, <4>1
      <4> QED
        BY <4>2, <4>3
    <3> QED
      BY <3>1, <3>2
  <2> HIDE DEF h
  <2> QED
    BY <2>4, <2>6
<1>3. Nat \subseteq T
  <2> HIDE DEF Ends
  <2>1. 0 \in T
    BY <1>1
  <2>2. ASSUME NEW m \in Nat, m \in T PROVE m + 1 \in T
    <3> SUFFICES ASSUME m + 1 <= n PROVE Ends(m + 1)
      OBVIOUS
    <3>1. Ends(m)
      BY <2>2
    <3> QED
      BY <1>2, <3>1
  <2> HIDE DEF T
  <2> QED
    BY <2>1, <2>2, NaturalsIn
<1>4. Ends(n)
  <2> HIDE DEF Ends
  <2> QED
    BY <1>3
<1> QED
  BY <1>4 DEF IsFold
================================================================================
