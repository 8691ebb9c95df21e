----------------------------- MODULE DataLemmas -----------------------------
(***************************************************************************)
(* Facts about lists, numbers and sums that the proofs of several modules  *)
(* use.  The library's induction rules take an operator, which the provers *)
(* cannot instantiate: here induction is over the set of the numbers, or   *)
(* of the finite sets, that something holds of, by way of a least          *)
(* counterexample.                                                         *)
(***************************************************************************)
EXTENDS Integers, Lists, Functions, FiniteSetTheorems, WellFoundedInduction, TLAPS

-----------------------------------------------------------------------------
(* What is at some of the positions of a list *)

\* How many of K there are up to k.
UpTo(K, k) == {j \in K : j <= k}

\* A set of positions is finite, and no larger than the list.
LEMMA PositionsAreFinite ==
    ASSUME NEW n \in Nat, NEW K \in SUBSET (1..n)
    PROVE  IsFiniteSet(K) /\ Cardinality(K) \in 0..n
  <1>1. IsFiniteSet(1..n) /\ Cardinality(1..n) = n
    BY FS_Interval
  <1>2. IsFiniteSet(K) /\ Cardinality(K) <= n
    BY <1>1, FS_Subset
  <1>3. Cardinality(K) \in Nat
    BY <1>2, FS_CardinalityType
  <1> QED
    BY <1>2, <1>3

\* Members of a set of positions are told apart by how many are not above them.
LEMMA CountUpTo ==
    ASSUME NEW n \in Nat, NEW K \in SUBSET (1..n), NEW k \in K
    PROVE  /\ Cardinality(UpTo(K, k)) \in 1..Cardinality(K)
           /\ \A m \in K : k < m => Cardinality(UpTo(K, k)) < Cardinality(UpTo(K, m))
  <1>2. IsFiniteSet(K) /\ Cardinality(K) \in 0..n
    BY PositionsAreFinite
  <1>3. \A m \in K : /\ IsFiniteSet(UpTo(K, m)) /\ Cardinality(UpTo(K, m)) \in Nat
                     /\ Cardinality(UpTo(K, m)) <= Cardinality(K)
    BY <1>2, FS_Subset, FS_CardinalityType DEF UpTo
  <1>4. Cardinality(UpTo(K, k)) # 0
    BY <1>3, FS_EmptySet DEF UpTo
  <1>5. ASSUME NEW m \in K, k < m
        PROVE  Cardinality(UpTo(K, k)) < Cardinality(UpTo(K, m))
    <2>0. K \subseteq Int
      OBVIOUS
    <2>1. UpTo(K, k) \subseteq UpTo(K, m)
      <3>1. \A j \in K : j <= k => j <= m
        BY <1>5, <2>0
      <3> QED
        BY <3>1 DEF UpTo
    <2>2. m \in UpTo(K, m) /\ m \notin UpTo(K, k)
      BY <1>5, <2>0 DEF UpTo
    <2>3. Cardinality(UpTo(K, k)) <= Cardinality(UpTo(K, m))
          /\ Cardinality(UpTo(K, k)) # Cardinality(UpTo(K, m))
      BY <1>3, <2>1, <2>2, FS_Subset
    <2> QED
      BY <1>3, <2>3
  <1> QED
    BY <1>3, <1>4, <1>5, <1>2

\* AtIndices walks through the positions in order and passes each.
LEMMA AtIndicesWalks ==
    ASSUME NEW T, NEW s \in Seq(T), NEW K \in SUBSET (DOMAIN s)
    PROVE  /\ Cardinality(K) \in 0..Len(s)
           /\ AtIndices(s, K) \in Seq(T) /\ Len(AtIndices(s, K)) = Cardinality(K)
           /\ \E at \in [1..Cardinality(K) -> K] :
                 /\ \A i \in 1..Cardinality(K) : AtIndices(s, K)[i] = s[at[i]]
                 /\ \A i, j \in 1..Cardinality(K) : i < j => at[i] < at[j]
                 /\ \A k \in K : \E i \in 1..Cardinality(K) : at[i] = k
  <1> DEFINE c  == Cardinality(K)
             at == [i \in 1..c |-> CHOOSE k \in K : Cardinality(UpTo(K, k)) = i]
             up == [k \in K |-> Cardinality(UpTo(K, k))]
  <1>1. DOMAIN s = 1..Len(s) /\ Len(s) \in Nat
    OBVIOUS
  <1>2. IsFiniteSet(K) /\ c \in 0..Len(s)
    BY <1>1, PositionsAreFinite
  <1>3. up \in [K -> 1..c] /\ \A k, m \in K : k < m => up[k] < up[m]
    BY <1>1, CountUpTo
  <1>4. \A k, m \in K : up[k] = up[m] => k = m
    BY <1>1, <1>3
  <1>5. up \in Surjection(K, 1..c)
    <2>1. up \in Injection(K, 1..c)
      BY <1>3, <1>4 DEF Injection, IsInjective
    <2>2. IsFiniteSet(1..c) /\ Cardinality(1..c) = c
      BY <1>2, FS_Interval
    <2> HIDE DEF up
    <2> QED
      BY <2>1, <2>2, FS_Injection
  <1>6. \A i \in 1..c : \E k \in K : Cardinality(UpTo(K, k)) = i
    BY <1>5 DEF Surjection
  <1>7. at \in [1..c -> K] /\ \A i \in 1..c : up[at[i]] = i
    BY <1>6
  <1>8. \A i, j \in 1..c : i < j => at[i] < at[j]
    <2> SUFFICES ASSUME NEW i \in 1..c, NEW j \in 1..c, i < j, ~(at[i] < at[j])
                 PROVE  FALSE
      OBVIOUS
    <2>1. at[i] \in K /\ at[j] \in K /\ up[at[i]] = i /\ up[at[j]] = j
      BY <1>7
    <2> HIDE DEF at, up
    <2>2. at[j] = at[i] \/ at[j] < at[i]
      BY <1>1, <2>1
    <2> QED
      BY <1>2, <1>3, <2>1, <2>2
  <1>9. \A k \in K : \E i \in 1..c : at[i] = k
    <2> TAKE k \in K
    <2>1. up[k] \in 1..c /\ up[at[up[k]]] = up[k] /\ at[up[k]] \in K
      BY <1>3, <1>7
    <2> HIDE DEF at, up
    <2> QED
      BY <1>4, <2>1
  <1>10. AtIndices(s, K) = [i \in 1..c |-> s[at[i]]]
    BY DEF AtIndices, UpTo
  <1> HIDE DEF at
  <1>11. \A i \in 1..c : s[at[i]] \in T
    BY <1>7
  <1>12. AtIndices(s, K) \in Seq(T) /\ Len(AtIndices(s, K)) = c
         /\ \A i \in 1..c : AtIndices(s, K)[i] = s[at[i]]
    BY <1>2, <1>10, <1>11
  <1>13. at \in [1..c -> K]
    BY <1>7
  <1> HIDE DEF c
  <1>14. \E a \in [1..c -> K] :
            /\ \A i \in 1..c : AtIndices(s, K)[i] = s[a[i]]
            /\ \A i, j \in 1..c : i < j => a[i] < a[j]
            /\ \A k \in K : \E i \in 1..c : a[i] = k
    BY <1>8, <1>9, <1>12, <1>13
  <1> QED
    BY <1>2, <1>12, <1>14 DEF c

-----------------------------------------------------------------------------
(* Induction, over numbers and over finite sets.  What is to be shown is     *)
(* given as the set of the numbers, or of the sets, that it is true of.      *)

LEMMA LeastNumber ==
    ASSUME NEW T \in SUBSET Nat, T # {}
    PROVE  \E x \in T : \A y \in T : x <= y
  <1> DEFINE R == {ss \in Nat \X Nat : ss[1] < ss[2]}
  <1>1. IsWellFoundedOn(R, Nat)
    BY NatLessThanWellFounded DEF OpToRel
  <1> HIDE DEF R
  <1>2. PICK x \in T : \A y \in T : ~(<<y, x>> \in R)
    BY <1>1, WFMin
  <1>3. \A y \in T : ~(y < x)
    BY <1>2 DEF R
  <1> QED
    BY <1>3

LEMMA NumberInduction ==
    ASSUME NEW Good \in SUBSET Nat, 0 \in Good, \A n \in Good : n + 1 \in Good
    PROVE  Good = Nat
  <1> SUFFICES ASSUME Nat \ Good # {}
               PROVE  FALSE
    OBVIOUS
  <1>1. PICK x \in Nat \ Good : \A y \in Nat \ Good : x <= y
    BY LeastNumber
  <1>2. x # 0
    OBVIOUS
  <1>3. x - 1 \in Nat /\ ~(x <= x - 1)
    BY <1>2
  <1>4. x - 1 \in Good
    BY <1>1, <1>3
  <1>5. (x - 1) + 1 \in Good
    BY <1>4
  <1> QED
    BY <1>5

LEMMA SetInduction ==
    ASSUME NEW S, IsFiniteSet(S), NEW Good \in SUBSET (SUBSET S), {} \in Good,
           \A t \in Good : \A x \in S \ t : t \cup {x} \in Good
    PROVE  Good = SUBSET S
  <1> DEFINE Sizes == {n \in Nat : \A t \in SUBSET S : Cardinality(t) = n => t \in Good}
  <1>0. \A t \in SUBSET S : IsFiniteSet(t) /\ Cardinality(t) \in Nat
    BY FS_Subset, FS_CardinalityType
  <1>1. 0 \in Sizes
    BY <1>0, FS_EmptySet
  <1>2. ASSUME NEW n \in Sizes
        PROVE  n + 1 \in Sizes
    <2> SUFFICES ASSUME NEW t \in SUBSET S, Cardinality(t) = n + 1
                 PROVE  t \in Good
      OBVIOUS
    <2>1. IsFiniteSet(t) /\ t # {}
      BY <1>0, FS_EmptySet
    <2>2. PICK x \in t : TRUE
      BY <2>1
    <2>3. IsFiniteSet(t \ {x}) /\ Cardinality(t \ {x}) = n
      <3>1. n \in Nat
        OBVIOUS
      <3>2. IsFiniteSet(t \ {x}) /\ Cardinality(t \ {x}) = Cardinality(t) - 1
        BY <2>1, FS_RemoveElement
      <3> QED
        BY <3>1, <3>2
    <2>4. t \ {x} \in Good
      BY <2>3
    <2>5. t = (t \ {x}) \cup {x} /\ x \in S \ (t \ {x})
      OBVIOUS
    <2> QED
      BY <2>4, <2>5
  <1>3. Sizes = Nat
    <2> HIDE DEF Sizes
    <2>1. Sizes \in SUBSET Nat
      BY DEF Sizes
    <2> QED
      BY <1>1, <1>2, <2>1, NumberInduction
  <1> QED
    BY <1>0, <1>3

-----------------------------------------------------------------------------
(* Sums *)

Some(s) == CHOOSE x \in s : TRUE

\* What the definition of SumFunctionOnSet recurs on.
SumStep(g, f, s) == IF s = {} THEN 0 ELSE f[Some(s)] + g[s \ {Some(s)}]

IsSum(g, f, S) == g = [s \in SUBSET S |-> SumStep(g, f, s)]

LEMMA SumIs ==
    ASSUME NEW f, NEW S
    PROVE  SumFunctionOnSet(f, S) = (CHOOSE g : IsSum(g, f, S))[S]
  BY DEF SumFunctionOnSet, FoldFunctionOnSet, MapThenFoldSet, IsSum, SumStep, Some

LEMMA SumExists ==
    ASSUME NEW S, IsFiniteSet(S), NEW f
    PROVE  \E g : IsSum(g, f, S)
  <1> DEFINE Small(n) == {s \in SUBSET S : Cardinality(s) <= n}
             Good == {n \in Nat : \E g : g = [s \in Small(n) |-> SumStep(g, f, s)]}
  <1>0. \A s \in SUBSET S : IsFiniteSet(s) /\ Cardinality(s) \in Nat
    BY FS_Subset, FS_CardinalityType
  <1>1. 0 \in Good
    <2> DEFINE g == [s \in Small(0) |-> 0]
    <2>1. \A s \in Small(0) : s = {}
      BY <1>0, FS_EmptySet
    <2>2. g = [s \in Small(0) |-> SumStep(g, f, s)]
      BY <2>1 DEF SumStep
    <2> QED
      BY <2>2
  <1>2. ASSUME NEW n \in Good
        PROVE  n + 1 \in Good
    <2>1. PICK h : h = [s \in Small(n) |-> SumStep(h, f, s)]
      OBVIOUS
    <2> DEFINE g == [s \in Small(n + 1) |-> SumStep(h, f, s)]
    <2>2. ASSUME NEW s \in Small(n + 1)
          PROVE  SumStep(h, f, s) = SumStep(g, f, s)
      <3>1. CASE s = {}
        BY <3>1 DEF SumStep
      <3>2. CASE s # {}
        <4> DEFINE t == s \ {Some(s)}
        <4>1. Some(s) \in s
          BY <3>2 DEF Some
        <4>2. Cardinality(t) = Cardinality(s) - 1 /\ t \in SUBSET S
          BY <1>0, <4>1, FS_RemoveElement
        <4>3. t \in Small(n) /\ t \in Small(n + 1)
          BY <1>0, <4>2
        <4>4. g[t] = SumStep(h, f, t) /\ h[t] = SumStep(h, f, t)
          BY <2>1, <4>3
        <4> QED
          BY <3>2, <4>4 DEF SumStep
      <3> QED
        BY <3>1, <3>2
    <2>3. g = [s \in Small(n + 1) |-> SumStep(g, f, s)]
      BY <2>2
    <2>4. n + 1 \in Nat
      OBVIOUS
    <2> HIDE DEF g, Small
    <2> QED
      BY <2>3, <2>4
  <1>3. Good = Nat
    <2> HIDE DEF Good
    <2>1. Good \in SUBSET Nat
      BY DEF Good
    <2> QED
      BY <1>1, <1>2, <2>1, NumberInduction
  <1>4. Cardinality(S) \in Nat
    BY <1>0
  <1>5. PICK g : g = [s \in Small(Cardinality(S)) |-> SumStep(g, f, s)]
    BY <1>3, <1>4
  <1>6. Small(Cardinality(S)) = SUBSET S
    BY FS_Subset
  <1> QED
    BY <1>5, <1>6 DEF IsSum

\* However far the two reach.
LEMMA SumUnique ==
    ASSUME NEW S, NEW T, NEW f, NEW g, IsSum(g, f, S), NEW h, IsSum(h, f, T),
           NEW u, u \subseteq S, u \subseteq T, IsFiniteSet(u)
    PROVE  g[u] = h[u]
  <1> DEFINE Good == {n \in Nat : \A t \in SUBSET u : Cardinality(t) = n => g[t] = h[t]}
  <1>0. \A t \in SUBSET u : /\ IsFiniteSet(t) /\ Cardinality(t) \in Nat
                            /\ g[t] = SumStep(g, f, t) /\ h[t] = SumStep(h, f, t)
    BY FS_Subset, FS_CardinalityType DEF IsSum
  <1>1. 0 \in Good
    <2>1. \A t \in SUBSET u : Cardinality(t) = 0 => t = {}
      BY <1>0, FS_EmptySet
    <2> QED
      BY <1>0, <2>1 DEF SumStep
  <1>2. ASSUME NEW n \in Good
        PROVE  n + 1 \in Good
    <2> SUFFICES ASSUME NEW t \in SUBSET u, Cardinality(t) = n + 1
                 PROVE  g[t] = h[t]
      OBVIOUS
    <2>1. n \in Nat /\ t # {}
      BY <1>0, FS_EmptySet
    <2>2. Some(t) \in t
      BY <2>1 DEF Some
    <2>3. Cardinality(t \ {Some(t)}) = Cardinality(t) - 1
      BY <1>0, <2>2, FS_RemoveElement
    <2>4. g[t \ {Some(t)}] = h[t \ {Some(t)}]
      BY <2>1, <2>3
    <2> QED
      BY <1>0, <2>1, <2>4 DEF SumStep
  <1>3. Good = Nat
    <2> HIDE DEF Good
    <2>1. Good \in SUBSET Nat
      BY DEF Good
    <2> QED
      BY <1>1, <1>2, <2>1, NumberInduction
  <1>4. Cardinality(u) \in Good
    BY <1>0, <1>3
  <1> QED
    BY <1>4

\* The fold, unfolded.
LEMMA SumUnfolds ==
    ASSUME NEW S, IsFiniteSet(S), NEW f
    PROVE  SumFunctionOnSet(f, S) =
             IF S = {} THEN 0 ELSE f[Some(S)] + SumFunctionOnSet(f, S \ {Some(S)})
  <1> DEFINE g == CHOOSE g : IsSum(g, f, S)
             t == S \ {Some(S)}
             h == CHOOSE h : IsSum(h, f, t)
  <1>1. IsFiniteSet(t) /\ t \subseteq S
    BY FS_Subset
  <1>2. IsSum(g, f, S) /\ IsSum(h, f, t)
    BY <1>1, SumExists
  <1>3. SumFunctionOnSet(f, S) = g[S] /\ SumFunctionOnSet(f, t) = h[t]
    BY SumIs
  <1> HIDE DEF g, h
  <1>4. g[t] = h[t]
    BY <1>1, <1>2, SumUnique
  <1>5. g[S] = SumStep(g, f, S)
    BY <1>2 DEF IsSum
  <1> QED
    BY <1>3, <1>4, <1>5 DEF SumStep

LEMMA SumType ==
    ASSUME NEW S, IsFiniteSet(S), NEW f, \A x \in S : f[x] \in Nat
    PROVE  SumFunctionOnSet(f, S) \in Nat /\ SumFunctionOnSet(f, {}) = 0
  <1> DEFINE Good == {n \in Nat : \A t \in SUBSET S :
                        Cardinality(t) = n => SumFunctionOnSet(f, t) \in Nat}
  <1>0. \A t \in SUBSET S : IsFiniteSet(t) /\ Cardinality(t) \in Nat
    BY FS_Subset, FS_CardinalityType
  <1>a. SumFunctionOnSet(f, {}) = 0
    BY SumUnfolds, FS_EmptySet
  <1>1. 0 \in Good
    BY <1>0, <1>a, FS_EmptySet
  <1>2. ASSUME NEW n \in Good
        PROVE  n + 1 \in Good
    <2> SUFFICES ASSUME NEW t \in SUBSET S, Cardinality(t) = n + 1
                 PROVE  SumFunctionOnSet(f, t) \in Nat
      OBVIOUS
    <2>1. n \in Nat /\ t # {}
      BY <1>0, FS_EmptySet
    <2>2. Some(t) \in t
      BY <2>1 DEF Some
    <2>3. Cardinality(t \ {Some(t)}) = n
      BY <1>0, <2>1, <2>2, FS_RemoveElement
    <2>4. SumFunctionOnSet(f, t \ {Some(t)}) \in Nat
      BY <2>3
    <2>5. SumFunctionOnSet(f, t) = f[Some(t)] + SumFunctionOnSet(f, t \ {Some(t)})
      BY <1>0, <2>1, SumUnfolds
    <2> QED
      BY <2>2, <2>4, <2>5
  <1>3. Good = Nat
    <2> HIDE DEF Good
    <2>1. Good \in SUBSET Nat
      BY DEF Good
    <2> QED
      BY <1>1, <1>2, <2>1, NumberInduction
  <1>4. Cardinality(S) \in Good
    BY <1>0, <1>3
  <1> QED
    BY <1>4, <1>a

\* It does not matter which is taken first.
LEMMA SumWithout ==
    ASSUME NEW S, IsFiniteSet(S), NEW f, \A x \in S : f[x] \in Nat, NEW c \in S
    PROVE  SumFunctionOnSet(f, S) = f[c] + SumFunctionOnSet(f, S \ {c})
  <1> DEFINE Good == {n \in Nat : \A t \in SUBSET S : Cardinality(t) = n =>
                        \A x \in t : SumFunctionOnSet(f, t)
                                       = f[x] + SumFunctionOnSet(f, t \ {x})}
  <1>0. \A t \in SUBSET S : IsFiniteSet(t) /\ Cardinality(t) \in Nat
    BY FS_Subset, FS_CardinalityType
  <1>a. ASSUME NEW t \in SUBSET S
        PROVE  SumFunctionOnSet(f, t) \in Nat
    BY <1>0, SumType
  <1>1. 0 \in Good
    BY <1>0, FS_EmptySet
  <1>2. ASSUME NEW n \in Good
        PROVE  n + 1 \in Good
    <2> SUFFICES ASSUME NEW t \in SUBSET S, Cardinality(t) = n + 1, NEW x \in t
                 PROVE  SumFunctionOnSet(f, t) = f[x] + SumFunctionOnSet(f, t \ {x})
      OBVIOUS
    <2> DEFINE s == Some(t)
    <2>1. n \in Nat /\ s \in t
      BY DEF Some
    <2>2. SumFunctionOnSet(f, t) = f[s] + SumFunctionOnSet(f, t \ {s})
      BY <1>0, <2>1, SumUnfolds
    <2> HIDE DEF s
    <2>3. CASE x = s
      BY <2>2, <2>3
    <2>4. CASE x # s
      <3>1. Cardinality(t \ {s}) = n /\ Cardinality(t \ {x}) = n
        BY <1>0, <2>1, FS_RemoveElement
      <3>2. x \in t \ {s} /\ s \in t \ {x}
        BY <2>1, <2>4
      <3>3. /\ SumFunctionOnSet(f, t \ {s}) = f[x] + SumFunctionOnSet(f, (t \ {s}) \ {x})
            /\ SumFunctionOnSet(f, t \ {x}) = f[s] + SumFunctionOnSet(f, (t \ {x}) \ {s})
        BY <3>1, <3>2
      <3>4. (t \ {s}) \ {x} = (t \ {x}) \ {s}
        OBVIOUS
      <3>5. f[x] \in Nat /\ f[s] \in Nat /\ SumFunctionOnSet(f, (t \ {s}) \ {x}) \in Nat
        BY <1>a, <2>1
      <3> QED
        BY <2>2, <3>3, <3>4, <3>5
    <2> QED
      BY <2>3, <2>4
  <1>3. Good = Nat
    <2> HIDE DEF Good
    <2>1. Good \in SUBSET Nat
      BY DEF Good
    <2> QED
      BY <1>1, <1>2, <2>1, NumberInduction
  <1>4. Cardinality(S) \in Good
    BY <1>0, <1>3
  <1> QED
    BY <1>4

LEMMA SumWith ==
    ASSUME NEW S, IsFiniteSet(S), NEW c, c \notin S, NEW f, \A x \in S \cup {c} : f[x] \in Nat
    PROVE  SumFunctionOnSet(f, S \cup {c}) = SumFunctionOnSet(f, S) + f[c]
  <1>1. IsFiniteSet(S \cup {c}) /\ (S \cup {c}) \ {c} = S
    BY FS_AddElement
  <1>2. SumFunctionOnSet(f, S \cup {c}) = f[c] + SumFunctionOnSet(f, S)
    BY <1>1, SumWithout
  <1>3. SumFunctionOnSet(f, S) \in Nat /\ f[c] \in Nat
    BY SumType
  <1> QED
    BY <1>2, <1>3

\* A sum grows with what is summed, and is that of the set.
LEMMA SumGrows ==
    ASSUME NEW S, IsFiniteSet(S), NEW f, NEW g,
           \A x \in S : f[x] \in Nat /\ g[x] \in Nat /\ f[x] <= g[x]
    PROVE  SumFunctionOnSet(f, S) <= SumFunctionOnSet(g, S)
  <1> DEFINE Good == {t \in SUBSET S : SumFunctionOnSet(f, t) <= SumFunctionOnSet(g, t)}
  <1>0. \A t \in SUBSET S : IsFiniteSet(t)
    BY FS_Subset
  <1>1. {} \in Good
    <2>1. SumFunctionOnSet(f, {}) = 0 /\ SumFunctionOnSet(g, {}) = 0
      BY SumType
    <2> QED
      BY <2>1
  <1>2. ASSUME NEW t \in Good, NEW x \in S \ t
        PROVE  t \cup {x} \in Good
    <2>1. /\ SumFunctionOnSet(f, t \cup {x}) = SumFunctionOnSet(f, t) + f[x]
          /\ SumFunctionOnSet(g, t \cup {x}) = SumFunctionOnSet(g, t) + g[x]
      BY <1>0, SumWith
    <2>2. SumFunctionOnSet(f, t) \in Nat /\ SumFunctionOnSet(g, t) \in Nat
      BY <1>0, SumType
    <2> QED
      BY <2>1, <2>2
  <1>3. Good = SUBSET S
    <2> HIDE DEF Good
    <2>1. Good \in SUBSET (SUBSET S)
      BY DEF Good
    <2> QED
      BY <1>1, <1>2, <2>1, SetInduction
  <1> QED
    BY <1>3

LEMMA SumSame ==
    ASSUME NEW S, IsFiniteSet(S), NEW f, NEW g,
           \A x \in S : f[x] \in Nat /\ g[x] = f[x]
    PROVE  SumFunctionOnSet(f, S) = SumFunctionOnSet(g, S)
  <1>1. SumFunctionOnSet(f, S) <= SumFunctionOnSet(g, S)
        /\ SumFunctionOnSet(g, S) <= SumFunctionOnSet(f, S)
    BY SumGrows
  <1>2. SumFunctionOnSet(f, S) \in Nat /\ SumFunctionOnSet(g, S) \in Nat
    BY SumType
  <1> QED
    BY <1>1, <1>2

\* One of them changes.
LEMMA SumChanges ==
    ASSUME NEW S, IsFiniteSet(S), NEW c \in S, NEW f, NEW g,
           \A x \in S : f[x] \in Nat /\ g[x] \in Nat,
           \A x \in S : x # c => g[x] = f[x]
    PROVE  SumFunctionOnSet(g, S) + f[c] = SumFunctionOnSet(f, S) + g[c]
  <1>1. /\ SumFunctionOnSet(f, S) = f[c] + SumFunctionOnSet(f, S \ {c})
        /\ SumFunctionOnSet(g, S) = g[c] + SumFunctionOnSet(g, S \ {c})
    BY SumWithout
  <1>2. IsFiniteSet(S \ {c})
    BY FS_Subset
  <1>3. SumFunctionOnSet(f, S \ {c}) = SumFunctionOnSet(g, S \ {c})
        /\ SumFunctionOnSet(f, S \ {c}) \in Nat
    BY <1>2, SumSame, SumType
  <1> QED
    BY <1>1, <1>3

\* More is summed, and more of each.
LEMMA SumWithin ==
    ASSUME NEW T, IsFiniteSet(T), NEW S \in SUBSET T, NEW f, NEW g,
           \A x \in T : g[x] \in Nat,
           \A x \in S : f[x] \in Nat /\ f[x] <= g[x]
    PROVE  SumFunctionOnSet(f, S) <= SumFunctionOnSet(g, T)
  <1> DEFINE Good == {t \in SUBSET (T \ S) :
                        SumFunctionOnSet(f, S) <= SumFunctionOnSet(g, S \cup t)}
  <1>0. \A t \in SUBSET T : IsFiniteSet(t)
    BY FS_Subset
  <1>a. SumFunctionOnSet(f, S) \in Nat
    BY <1>0, SumType
  <1>1. {} \in Good
    <2>1. SumFunctionOnSet(f, S) <= SumFunctionOnSet(g, S)
      BY <1>0, SumGrows
    <2>2. S \cup {} = S
      OBVIOUS
    <2> QED
      BY <2>1, <2>2
  <1>2. ASSUME NEW t \in Good, NEW x \in (T \ S) \ t
        PROVE  t \cup {x} \in Good
    <2>1. S \cup t \in SUBSET T /\ x \notin S \cup t /\ S \cup (t \cup {x}) = (S \cup t) \cup {x}
      OBVIOUS
    <2>2. SumFunctionOnSet(g, (S \cup t) \cup {x}) = SumFunctionOnSet(g, S \cup t) + g[x]
      BY <1>0, <2>1, SumWith
    <2>3. SumFunctionOnSet(g, S \cup t) \in Nat /\ g[x] \in Nat
      BY <1>0, <2>1, SumType
    <2>4. SumFunctionOnSet(f, S) <= SumFunctionOnSet(g, S \cup t)
      OBVIOUS
    <2> HIDE DEF Good
    <2>5. SumFunctionOnSet(f, S) <= SumFunctionOnSet(g, (S \cup t) \cup {x})
      BY <1>a, <2>2, <2>3, <2>4
    <2>6. t \cup {x} \in SUBSET (T \ S)
      BY DEF Good
    <2> QED
      BY <2>1, <2>5, <2>6 DEF Good
  <1>3. Good = SUBSET (T \ S)
    <2> HIDE DEF Good
    <2>1. Good \in SUBSET (SUBSET (T \ S))
      BY DEF Good
    <2> QED
      BY <1>0, <1>1, <1>2, <2>1, SetInduction
  <1>4. T \ S \in Good /\ S \cup (T \ S) = T
    BY <1>3
  <1> QED
    BY <1>4

\* What is nothing adds nothing.
LEMMA SumExtends ==
    ASSUME NEW T, IsFiniteSet(T), NEW S \in SUBSET T, NEW f, NEW g,
           \A x \in S : f[x] \in Nat /\ g[x] = f[x],
           \A x \in T \ S : g[x] = 0
    PROVE  SumFunctionOnSet(g, T) = SumFunctionOnSet(f, S)
  <1> DEFINE Good == {t \in SUBSET (T \ S) :
                        SumFunctionOnSet(g, S \cup t) = SumFunctionOnSet(f, S)}
  <1>0. \A t \in SUBSET T : IsFiniteSet(t)
    BY FS_Subset
  <1>a. SumFunctionOnSet(f, S) \in Nat
    BY <1>0, SumType
  <1>1. {} \in Good
    <2>1. SumFunctionOnSet(f, S) = SumFunctionOnSet(g, S)
      BY <1>0, SumSame
    <2>2. S \cup {} = S
      OBVIOUS
    <2> QED
      BY <2>1, <2>2
  <1>2. ASSUME NEW t \in Good, NEW x \in (T \ S) \ t
        PROVE  t \cup {x} \in Good
    <2>1. S \cup t \in SUBSET T /\ x \notin S \cup t /\ S \cup (t \cup {x}) = (S \cup t) \cup {x}
      OBVIOUS
    <2>2. \A y \in T : g[y] \in Nat
      OBVIOUS
    <2>3. SumFunctionOnSet(g, (S \cup t) \cup {x}) = SumFunctionOnSet(g, S \cup t) + g[x]
      BY <1>0, <2>1, <2>2, SumWith
    <2>4. SumFunctionOnSet(g, S \cup t) = SumFunctionOnSet(f, S) /\ g[x] = 0
      OBVIOUS
    <2>5. t \cup {x} \in SUBSET (T \ S)
      BY DEF Good
    <2> HIDE DEF Good
    <2>6. SumFunctionOnSet(g, (S \cup t) \cup {x}) = SumFunctionOnSet(f, S)
      BY <1>a, <2>3, <2>4
    <2>7. SumFunctionOnSet(g, S \cup (t \cup {x})) = SumFunctionOnSet(f, S)
      BY <2>1, <2>6, Zenon
    <2> QED
      BY <2>5, <2>7 DEF Good
  <1>3. Good = SUBSET (T \ S)
    <2> HIDE DEF Good
    <2>1. Good \in SUBSET (SUBSET (T \ S))
      BY DEF Good
    <2> QED
      BY <1>0, <1>1, <1>2, <2>1, SetInduction
  <1>4. T \ S \in Good /\ S \cup (T \ S) = T
    BY <1>3
  <1> QED
    BY <1>4
=============================================================================
