-------------------------- MODULE CountingTheorems --------------------------
(***************************************************************************)
(* Facts about finite sets, sums and sequences that follow by counting,    *)
(* which the proofs about the components share.                            *)
(*                                                                         *)
(* Sums: the community modules' SumFunctionOnSet is a fold; it applies a   *)
(* table, chosen to satisfy a recursive equation, to the set.              *)
(* Cardinality(Units(f, S)) gives such a table outright (the sum counts    *)
(* pairs), and a smallest set on which two tables differ cannot exist, so  *)
(* the chosen one is the count.                                            *)
(*                                                                         *)
(* Sequences sorted by distinct keys: the position of an element is the    *)
(* number of smaller ones plus one.  So a sorting permutation exists (the  *)
(* ranks, inverted), and a sorted sequence of smallest elements is a       *)
(* prefix.                                                                 *)
(***************************************************************************)
EXTENDS Integers, FiniteSets, Sequences, SequencesExt, Functions,
        FiniteSetTheorems, SequenceTheorems, WellFoundedInduction, TLAPS

\* f[x] units for every x in S
Units(f, S) == UNION {{x} \X (1..f[x]) : x \in S}

\* g is a table of the partial sums of f over the subsets of S.
IsTable(f, S, g) ==
  g = [s \in SUBSET S |->
         IF s = {} THEN 0
         ELSE LET x == CHOOSE x \in s : TRUE IN f[x] + g[s \ {x}]]

(* The fold is the value at S of a chosen table. *)
LEMMA SumByTable ==
  ASSUME NEW f, NEW S
  PROVE  SumFunctionOnSet(f, S) = (CHOOSE g : IsTable(f, S, g))[S]
BY DEF SumFunctionOnSet, FoldFunctionOnSet, MapThenFoldSet, IsTable

(* A set has finitely many units. *)
LEMMA UnitsFinite ==
  ASSUME NEW f, NEW S, IsFiniteSet(S), \A x \in S : f[x] \in Nat
  PROVE  IsFiniteSet(Units(f, S))
<1> DEFINE u == [x \in S |-> {x} \X (1..f[x])]
           T == {u[x] : x \in S}
<1>1. u \in Surjection(S, T)
  BY DEF Surjection
<1>2. IsFiniteSet(T)
  BY <1>1, FS_Surjection
<1>3. \A t \in T : IsFiniteSet(t)
  <2> TAKE t \in T
  <2>1. PICK x \in S : t = {x} \X (1..f[x])
    OBVIOUS
  <2>2. IsFiniteSet({x})
    BY FS_Singleton
  <2>3. f[x] \in Int
    OBVIOUS
  <2>4. IsFiniteSet(1..f[x])
    BY <2>3, FS_Interval
  <2> QED BY <2>1, <2>2, <2>4, FS_Product
<1>4. Units(f, S) = UNION T
  BY DEF Units
<1> QED BY <1>2, <1>3, <1>4, FS_UNION

(* The first natural numbers, counted. *)
LEMMA IntervalCounts ==
  ASSUME NEW n \in Nat
  PROVE  IsFiniteSet(1..n) /\ Cardinality(1..n) = n
BY FS_Interval

(* One element more adds as many units as its value. *)
LEMMA UnitsAdd ==
  ASSUME NEW f, NEW S, IsFiniteSet(S), \A y \in S : f[y] \in Nat,
         NEW x, x \notin S, f[x] \in Nat
  PROVE  Cardinality(Units(f, S \cup {x})) = Cardinality(Units(f, S)) + f[x]
<1> DEFINE N == {x} \X (1..f[x])
<1>1. IsFiniteSet({x}) /\ Cardinality({x}) = 1
  BY FS_Singleton
<1>2. IsFiniteSet(1..f[x]) /\ Cardinality(1..f[x]) = f[x]
  BY IntervalCounts
<1>3. IsFiniteSet(N) /\ Cardinality(N) = f[x]
  <2>1. IsFiniteSet(N) /\ Cardinality(N) = Cardinality({x}) * Cardinality(1..f[x])
    BY <1>1, <1>2, FS_Product
  <2> HIDE DEF N
  <2> QED BY <1>1, <1>2, <2>1
<1>4. IsFiniteSet(Units(f, S)) /\ Cardinality(Units(f, S)) \in Nat
  BY UnitsFinite, FS_CardinalityType
<1>5. Units(f, S \cup {x}) = Units(f, S) \cup N
  BY DEF Units
<1>6. Units(f, S) \cap N = {}
  BY DEF Units
<1> HIDE DEF N
<1>7. Cardinality(Units(f, S) \cup N)
        = Cardinality(Units(f, S)) + Cardinality(N) - Cardinality(Units(f, S) \cap N)
  BY <1>3, <1>4, FS_Union
<1>8. Cardinality(Units(f, S) \cap N) = 0
  BY <1>6, FS_EmptySet
<1>9. Cardinality(Units(f, S \cup {x})) = Cardinality(Units(f, S)) + Cardinality(N) - 0
  BY <1>5, <1>7, <1>8
<1> QED BY <1>3, <1>4, <1>9

(* Counting units satisfies the equation of the partial sums. *)
LEMMA UnitsTable ==
  ASSUME NEW f, NEW S, IsFiniteSet(S), \A x \in S : f[x] \in Nat
  PROVE  IsTable(f, S, [s \in SUBSET S |-> Cardinality(Units(f, s))])
<1> DEFINE g == [s \in SUBSET S |-> Cardinality(Units(f, s))]
<1>1. ASSUME NEW s \in SUBSET S, s # {}
      PROVE  g[s] = f[CHOOSE x \in s : TRUE] + g[s \ {CHOOSE x \in s : TRUE}]
  <2> DEFINE x == CHOOSE x \in s : TRUE
             r == s \ {x}
  <2>1. x \in s
    BY <1>1
  <2>2. IsFiniteSet(r) /\ r \in SUBSET S /\ s = r \cup {x} /\ x \notin r
    BY <2>1, FS_Subset
  <2>3. Cardinality(Units(f, s)) = Cardinality(Units(f, r)) + f[x]
    <3> HIDE DEF x, r
    <3> QED BY <2>1, <2>2, UnitsAdd
  <2>4. Cardinality(Units(f, r)) \in Nat /\ f[x] \in Nat
    BY <2>1, <2>2, UnitsFinite, FS_CardinalityType
  <2> HIDE DEF x, r
  <2>5. g[s] = f[x] + g[r]
    BY <2>2, <2>3, <2>4
  <2> QED BY <2>5 DEF x, r
<1>2. g[{}] = 0
  BY FS_EmptySet DEF Units
<1> HIDE DEF g
<1>3. g = [s \in SUBSET S |-> g[s]]
  BY DEF g
<1>4. ASSUME NEW s \in SUBSET S
      PROVE  g[s] = IF s = {} THEN 0
                    ELSE LET x == CHOOSE x \in s : TRUE IN f[x] + g[s \ {x}]
  BY <1>1, <1>2
<1>5. IsTable(f, S, g)
  BY <1>3, <1>4 DEF IsTable
<1> QED BY <1>5 DEF g

(* There is only one table: a smallest subset on which two differ has an   *)
(* element, and without it they agree.                                     *)
LEMMA TableUnique ==
  ASSUME NEW f, NEW S, IsFiniteSet(S),
         NEW g, IsTable(f, S, g), NEW h, IsTable(f, S, h)
  PROVE  g[S] = h[S]
<1> SUFFICES ASSUME g[S] # h[S] PROVE FALSE
  OBVIOUS
<1> DEFINE T == {s \in SUBSET S : g[s] # h[s]}
<1>1. T \subseteq FiniteSubsetsOf(S) /\ T # {}
  BY FS_Subset DEF FiniteSubsetsOf
<1>2. PICK s \in T : \A t \in T : <<t, s>> \notin StrictSubsetOrdering(S)
  <2> HIDE DEF T
  <2> QED BY <1>1, FS_StrictSubsetOrderingWellFounded, WFMin
<1>3. CASE s = {}
  BY <1>3 DEF IsTable
<1>4. CASE s # {}
  <2> DEFINE x == CHOOSE x \in s : TRUE
  <2>1. x \in s
    BY <1>4
  <2>2. g[s] = f[x] + g[s \ {x}] /\ h[s] = f[x] + h[s \ {x}]
    BY <1>4 DEF IsTable
  <2>3. s \ {x} \notin T
    BY <1>2, <2>1 DEF StrictSubsetOrdering
  <2> QED BY <2>2, <2>3
<1> QED BY <1>3, <1>4

(* The sum counts units. *)
LEMMA SumCounts ==
  ASSUME NEW f, NEW S, IsFiniteSet(S), \A x \in S : f[x] \in Nat
  PROVE  SumFunctionOnSet(f, S) = Cardinality(Units(f, S))
<1> DEFINE g == [s \in SUBSET S |-> Cardinality(Units(f, s))]
           h == CHOOSE h : IsTable(f, S, h)
<1>1. IsTable(f, S, g)
  BY UnitsTable
<1> HIDE DEF g
<1>2. IsTable(f, S, h)
  BY <1>1
<1> HIDE DEF h
<1>3. g[S] = h[S]
  BY <1>1, <1>2, TableUnique
<1> QED BY <1>3, SumByTable DEF g, h

(* A sum of natural numbers is one. *)
LEMMA SumType ==
  ASSUME NEW f, NEW S, IsFiniteSet(S), \A x \in S : f[x] \in Nat
  PROVE  SumFunctionOnSet(f, S) \in Nat
BY SumCounts, UnitsFinite, FS_CardinalityType

(* Nothing sums to zero. *)
LEMMA SumEmpty ==
  ASSUME NEW f
  PROVE  SumFunctionOnSet(f, {}) = 0
BY SumCounts, FS_EmptySet DEF Units

(* One element more adds its value. *)
LEMMA SumAdd ==
  ASSUME NEW f, NEW S, IsFiniteSet(S), \A y \in S : f[y] \in Nat,
         NEW x, x \notin S, f[x] \in Nat
  PROVE  SumFunctionOnSet(f, S \cup {x}) = SumFunctionOnSet(f, S) + f[x]
<1>1. IsFiniteSet(S \cup {x}) /\ \A y \in S \cup {x} : f[y] \in Nat
  BY FS_AddElement
<1> QED BY <1>1, SumCounts, UnitsAdd

(* The sum depends on the values of the elements only. *)
LEMMA SumSame ==
  ASSUME NEW f, NEW g, NEW S, IsFiniteSet(S), \A x \in S : f[x] \in Nat /\ g[x] = f[x]
  PROVE  SumFunctionOnSet(g, S) = SumFunctionOnSet(f, S)
<1>1. Units(f, S) = Units(g, S)
  BY DEF Units
<1>2. \A x \in S : g[x] \in Nat
  OBVIOUS
<1>3. SumFunctionOnSet(f, S) = Cardinality(Units(f, S))
  BY SumCounts
<1>4. SumFunctionOnSet(g, S) = Cardinality(Units(g, S))
  BY <1>2, SumCounts
<1> QED BY <1>1, <1>3, <1>4

(* A sum can be taken over any other set of the same elements. *)
LEMMA SumReindex ==
  ASSUME NEW I, IsFiniteSet(I), NEW S, NEW b \in Bijection(I, S), NEW f,
         \A x \in S : f[x] \in Nat
  PROVE  SumFunctionOnSet([i \in I |-> f[b[i]]], I) = SumFunctionOnSet(f, S)
<1> DEFINE g == [i \in I |-> f[b[i]]]
<1>1. b \in [I -> S] /\ (\A i, j \in I : b[i] = b[j] => i = j) /\ (\A x \in S : \E i \in I : b[i] = x)
  BY DEF Bijection, Injection, Surjection, IsInjective
<1>2. IsFiniteSet(S)
  BY FS_Bijection DEF ExistsBijection
<1>3. \A i \in I : g[i] \in Nat /\ g[i] = f[b[i]]
  BY <1>1
<1> HIDE DEF g
<1> DEFINE h == [u \in Units(g, I) |-> <<b[u[1]], u[2]>>]
<1>4. \A u \in Units(g, I) : \E i \in I : \E k \in 1..f[b[i]] : u = <<i, k>>
  BY <1>3 DEF Units
<1>5. \A i \in I : \A k \in 1..f[b[i]] : <<i, k>> \in Units(g, I) /\ h[<<i, k>>] = <<b[i], k>>
  BY <1>3 DEF Units
<1>6. h \in [Units(g, I) -> Units(f, S)]
  BY <1>1, <1>4 DEF Units
<1>7. \A u, v \in Units(g, I) : h[u] = h[v] => u = v
  BY <1>1, <1>4
<1>8. \A w \in Units(f, S) : \E u \in Units(g, I) : h[u] = w
  <2> TAKE w \in Units(f, S)
  <2>1. PICK x \in S : \E k \in 1..f[x] : w = <<x, k>>
    BY DEF Units
  <2>2. PICK i \in I : b[i] = x
    BY <1>1
  <2> HIDE DEF h
  <2> QED BY <1>5, <2>1, <2>2
<1> HIDE DEF h
<1>9. h \in Bijection(Units(g, I), Units(f, S))
  BY <1>6, <1>7, <1>8 DEF Bijection, Injection, Surjection, IsInjective
<1>10. IsFiniteSet(Units(g, I))
  BY <1>3, UnitsFinite
<1>11. Cardinality(Units(g, I)) = Cardinality(Units(f, S))
  BY <1>9, <1>10, FS_Bijection DEF ExistsBijection
<1>12. SumFunctionOnSet(g, I) = Cardinality(Units(g, I))
  BY <1>3, SumCounts
<1>13. SumFunctionOnSet(f, S) = Cardinality(Units(f, S))
  BY <1>2, SumCounts
<1> QED BY <1>11, <1>12, <1>13 DEF g

(* Fewer elements have no greater sum. *)
LEMMA SumSubset ==
  ASSUME NEW f, NEW S, IsFiniteSet(S), \A x \in S : f[x] \in Nat, NEW T \in SUBSET S
  PROVE  SumFunctionOnSet(f, T) <= SumFunctionOnSet(f, S)
<1>1. IsFiniteSet(T)
  BY FS_Subset
<1>2. SumFunctionOnSet(f, T) = Cardinality(Units(f, T)) /\ SumFunctionOnSet(f, S) = Cardinality(Units(f, S))
  BY <1>1, SumCounts
<1>3. Units(f, T) \in SUBSET Units(f, S)
  BY DEF Units
<1> QED BY <1>2, <1>3, UnitsFinite, FS_Subset

-----------------------------------------------------------------------------
(* Sequences sorted by a key *)

(* What follows the first n elements of a sequence. *)
LEMMA SuffixItems ==
  ASSUME NEW S, NEW s \in Seq(S), NEW n \in 0..Len(s)
  PROVE  LET u == SubSeq(s, n + 1, Len(s))
         IN  u \in Seq(S) /\ Len(u) = Len(s) - n /\ \A i \in 1..(Len(s) - n) : u[i] = s[n + i]
<1>1. Len(s) \in Nat /\ s \in [1..Len(s) -> S]
  BY LenProperties
<1> DEFINE m == n + 1
           l == Len(s)
           u == SubSeq(s, m, l)
<1>2. m \in Int /\ l \in Int /\ \A i \in m..l : s[i] \in S
  BY <1>1
<1> HIDE DEF m, l
<1>3. /\ u \in Seq(S)
      /\ Len(u) = IF m <= l THEN l - m + 1 ELSE 0
      /\ \A i \in 1..(l - m + 1) : u[i] = s[m + i - 1]
  BY <1>2, SubSeqProperties
<1> HIDE DEF u
<1>4. Len(u) = l - n
  <2>1. l \in Nat /\ n \in Nat /\ n <= l /\ m = n + 1
    BY <1>1 DEF m, l
  <2>2. CASE m <= l
    <3>1. Len(u) = l - m + 1
      BY <1>3, <2>2
    <3> QED BY <2>1, <3>1
  <2>3. CASE ~(m <= l)
    <3>1. Len(u) = 0
      BY <1>3, <2>3
    <3>2. l - n = 0
      BY <2>1, <2>3
    <3> QED BY <3>1, <3>2
  <2> QED BY <2>2, <2>3
<1>5. ASSUME NEW i \in 1..(l - n) PROVE u[i] = s[n + i]
  <2>1. i \in 1..(l - m + 1) /\ m + i - 1 = n + i
    BY <1>1 DEF m, l
  <2> QED BY <1>3, <2>1
<1> QED BY <1>3, <1>4, <1>5 DEF u, m, l

Increasing(s, key) == \A i, j \in 1..Len(s) : i < j => key[s[i]] < key[s[j]]

(* Distinct keys can be sorted: the ranks are a permutation, and its       *)
(* inverse sorts.                                                          *)
LEMMA SortingExists ==
  ASSUME NEW n \in Nat, NEW k \in [1..n -> Nat],
         \A i, j \in 1..n : k[i] = k[j] => i = j
  PROVE  \E p \in [1..n -> 1..n] :
           IsInjective(p) /\ \A i, j \in 1..n : i < j => k[p[i]] < k[p[j]]
<1> DEFINE N == 1..n
           Below(i) == {j \in N : k[j] < k[i]}
           rank == [i \in N |-> Cardinality(Below(i)) + 1]
<1>1. IsFiniteSet(N) /\ Cardinality(N) = n
  BY FS_Interval
<1>2. \A i \in N : IsFiniteSet(Below(i)) /\ Cardinality(Below(i)) \in Nat
  BY <1>1, FS_Subset, FS_CardinalityType
<1>3. \A i \in N : Cardinality(Below(i)) < n
  <2> TAKE i \in N
  <2>1. Below(i) \in SUBSET N /\ Below(i) # N
    OBVIOUS
  <2> HIDE DEF N, Below
  <2> QED BY <1>1, <1>2, <2>1, FS_Subset
<1>a. \A i \in N : rank[i] = Cardinality(Below(i)) + 1
  OBVIOUS
<1>4. \A i, j \in N : k[i] < k[j] => rank[i] < rank[j]
  <2> SUFFICES ASSUME NEW i \in N, NEW j \in N, k[i] < k[j]
               PROVE  rank[i] < rank[j]
    OBVIOUS
  <2>1. k[i] \in Nat /\ k[j] \in Nat /\ \A m \in N : k[m] \in Nat
    OBVIOUS
  <2>2. i \in Below(j) /\ i \notin Below(i)
    BY <2>1
  <2>3. Below(i) \in SUBSET Below(j)
    BY <2>1
  <2> HIDE DEF N, Below, rank
  <2>4. Cardinality(Below(i)) <= Cardinality(Below(j)) /\ Cardinality(Below(i)) # Cardinality(Below(j))
    BY <1>2, <2>2, <2>3, FS_Subset
  <2> QED BY <1>a, <1>2, <2>4
<1>5. rank \in [N -> N]
  <2>1. \A i \in N : Cardinality(Below(i)) + 1 \in N
    <3> HIDE DEF Below
    <3> QED BY <1>2, <1>3
  <2> HIDE DEF N, Below
  <2> QED BY <2>1
<1>6. \A i, j \in N : rank[i] = rank[j] => i = j
  <2> SUFFICES ASSUME NEW i \in N, NEW j \in N, i # j PROVE rank[i] # rank[j]
    OBVIOUS
  <2>1. k[i] < k[j] \/ k[j] < k[i]
    OBVIOUS
  <2>2. rank[i] < rank[j] \/ rank[j] < rank[i]
    <3> HIDE DEF rank, Below, N
    <3> QED BY <1>4, <2>1
  <2>3. rank[i] \in Int /\ rank[j] \in Int
    <3>1. N \subseteq Int
      OBVIOUS
    <3> HIDE DEF rank, Below, N
    <3> QED BY <1>5, <3>1
  <2> HIDE DEF rank, Below
  <2> QED BY <2>2, <2>3
<1> HIDE DEF rank, Below
<1>7. rank \in Injection(N, N)
  BY <1>5, <1>6 DEF Injection, IsInjective
<1>8. rank \in Surjection(N, N)
  <2> HIDE DEF N
  <2> QED BY <1>1, <1>7, FS_Injection
<1>9. \A m \in N : \E i \in N : rank[i] = m
  BY <1>8 DEF Surjection
<1> DEFINE p == [m \in N |-> CHOOSE i \in N : rank[i] = m]
<1>10. \A m \in N : p[m] \in N /\ rank[p[m]] = m
  BY <1>9
<1>11. p \in [N -> N] /\ DOMAIN p = N
  BY <1>9
<1> HIDE DEF p
<1>12. IsInjective(p)
  BY <1>10, <1>11 DEF IsInjective
<1>13. \A i, j \in N : i < j => k[p[i]] < k[p[j]]
  <2> SUFFICES ASSUME NEW i \in N, NEW j \in N, i < j PROVE k[p[i]] < k[p[j]]
    OBVIOUS
  <2>1. p[i] \in N /\ p[j] \in N /\ rank[p[i]] = i /\ rank[p[j]] = j
    BY <1>10
  <2>2. k[p[i]] # k[p[j]]
    BY <2>1
  <2>3. ~ (k[p[j]] < k[p[i]])
    BY <1>4, <2>1
  <2> QED BY <2>1, <2>2, <2>3
<1> QED BY <1>11, <1>12, <1>13

(* A sorted sequence has as many elements as positions. *)
LEMMA IncreasingBijection ==
  ASSUME NEW S, NEW s \in Seq(S), NEW key \in [S -> Nat], Increasing(s, key)
  PROVE  /\ s \in Bijection(1..Len(s), ToSet(s))
         /\ IsFiniteSet(ToSet(s)) /\ Cardinality(ToSet(s)) = Len(s)
<1>1. Len(s) \in Nat /\ DOMAIN s = 1..Len(s) /\ s \in [1..Len(s) -> S]
  BY LenProperties
<1>2. \A i, j \in 1..Len(s) : s[i] = s[j] => i = j
  BY <1>1 DEF Increasing
<1>3. s \in Bijection(1..Len(s), ToSet(s))
  BY <1>1, <1>2 DEF Bijection, Injection, Surjection, IsInjective, ToSet
<1>4. IsFiniteSet(1..Len(s)) /\ Cardinality(1..Len(s)) = Len(s)
  BY <1>1, FS_Interval
<1> QED BY <1>3, <1>4, FS_Bijection DEF ExistsBijection

(* The position of an element is the number of smaller ones plus one. *)
LEMMA IncreasingRank ==
  ASSUME NEW S, NEW s \in Seq(S), NEW key \in [S -> Nat], Increasing(s, key),
         NEW i \in 1..Len(s)
  PROVE  Cardinality({x \in ToSet(s) : key[x] < key[s[i]]}) = i - 1
<1> DEFINE T == {x \in ToSet(s) : key[x] < key[s[i]]}
           b == [j \in 1..(i - 1) |-> s[j]]
<1>1. Len(s) \in Nat /\ DOMAIN s = 1..Len(s) /\ s \in [1..Len(s) -> S]
  BY LenProperties
<1>2. \A j \in 1..Len(s) : key[s[j]] < key[s[i]] <=> j < i
  BY <1>1 DEF Increasing
<1>3. \A j \in 1..(i - 1) : j \in 1..Len(s) /\ s[j] \in T
  BY <1>1, <1>2 DEF ToSet
<1>4. \A x \in T : \E j \in 1..(i - 1) : s[j] = x
  BY <1>1, <1>2 DEF ToSet
<1>5. \A j, m \in 1..Len(s) : s[j] = s[m] => j = m
  BY <1>1 DEF Increasing
<1> HIDE DEF T
<1>6. b \in Bijection(1..(i - 1), T)
  BY <1>3, <1>4, <1>5 DEF Bijection, Injection, Surjection, IsInjective
<1>7. IsFiniteSet(1..(i - 1)) /\ Cardinality(1..(i - 1)) = i - 1
  <2>1. i - 1 \in Int /\ i - 1 >= 0
    BY <1>1
  <2> QED BY <2>1, IntervalCounts
<1>8. Cardinality(T) = i - 1
  BY <1>6, <1>7, FS_Bijection DEF ExistsBijection
<1> QED BY <1>8 DEF T

(* The smallest elements of a sorted sequence, sorted, are a prefix of it. *)
LEMMA SmallestArePrefix ==
  ASSUME NEW S, NEW key \in [S -> Nat],
         NEW s \in Seq(S), Increasing(s, key), NEW t \in Seq(S), Increasing(t, key),
         ToSet(t) \subseteq ToSet(s),
         \A x \in ToSet(t), y \in ToSet(s) \ ToSet(t) : key[x] < key[y]
  PROVE  Len(t) <= Len(s) /\ \A i \in 1..Len(t) : s[i] = t[i]
<1>1. /\ Len(s) \in Nat /\ DOMAIN s = 1..Len(s) /\ s \in [1..Len(s) -> S]
      /\ Len(t) \in Nat /\ DOMAIN t = 1..Len(t) /\ t \in [1..Len(t) -> S]
  BY LenProperties
<1>2. Len(t) <= Len(s)
  <2>1. IsFiniteSet(ToSet(s)) /\ Cardinality(ToSet(s)) = Len(s) /\ Cardinality(ToSet(t)) = Len(t)
    BY IncreasingBijection
  <2>2. Cardinality(ToSet(t)) <= Cardinality(ToSet(s))
    BY <2>1, FS_Subset
  <2> QED BY <2>1, <2>2
<1>3. ASSUME NEW i \in 1..Len(t) PROVE s[i] = t[i]
  <2>1. t[i] \in ToSet(t)
    BY <1>1 DEF ToSet
  <2>2. PICK j \in 1..Len(s) : s[j] = t[i]
    BY <1>1, <2>1 DEF ToSet
  <2>3. ToSet(s) \subseteq S /\ ToSet(t) \subseteq S
    BY <1>1 DEF ToSet
  <2>4. {x \in ToSet(s) : key[x] < key[t[i]]} = {x \in ToSet(t) : key[x] < key[t[i]]}
    BY <2>1, <2>3
  <2>5. Cardinality({x \in ToSet(t) : key[x] < key[t[i]]}) = i - 1
    BY IncreasingRank
  <2>6. Cardinality({x \in ToSet(s) : key[x] < key[s[j]]}) = j - 1
    BY IncreasingRank
  <2>7. i - 1 = j - 1
    BY <2>2, <2>4, <2>5, <2>6
  <2>8. i = j
    BY <1>1, <2>7
  <2> QED BY <2>2, <2>8
<1> QED BY <1>2, <1>3

(* The part of a sorted sequence behind a prefix. *)
LEMMA IncreasingSuffix ==
  ASSUME NEW S, NEW s \in Seq(S), NEW key \in [S -> Nat], Increasing(s, key),
         NEW n \in 0..Len(s)
  PROVE  LET u == SubSeq(s, n + 1, Len(s))
         IN  /\ u \in Seq(S) /\ Increasing(u, key)
             /\ ToSet(u) = {s[i] : i \in (n + 1)..Len(s)}
<1> DEFINE u == SubSeq(s, n + 1, Len(s))
<1>1. Len(s) \in Nat /\ s \in [1..Len(s) -> S]
  BY LenProperties
<1>2. u \in Seq(S) /\ Len(u) = Len(s) - n /\ \A i \in 1..Len(u) : u[i] = s[n + i]
  BY SuffixItems
<1>3. DOMAIN u = 1..Len(u)
  BY <1>2, LenProperties
<1> HIDE DEF u
<1>4. Increasing(u, key)
  <2> SUFFICES ASSUME NEW i \in 1..Len(u), NEW j \in 1..Len(u), i < j
               PROVE  key[u[i]] < key[u[j]]
    BY DEF Increasing
  <2>1. n + i \in 1..Len(s) /\ n + j \in 1..Len(s) /\ n + i < n + j
    BY <1>1, <1>2
  <2>2. key[s[n + i]] < key[s[n + j]]
    BY <2>1 DEF Increasing
  <2> QED BY <1>2, <2>2
<1>5. ASSUME NEW x \in ToSet(u) PROVE x \in {s[i] : i \in (n + 1)..Len(s)}
  <2>1. PICK i \in 1..Len(u) : u[i] = x
    BY <1>3 DEF ToSet
  <2>2. n + i \in (n + 1)..Len(s) /\ s[n + i] = x
    BY <1>1, <1>2, <2>1
  <2> QED BY <2>2
<1>6. ASSUME NEW i \in (n + 1)..Len(s) PROVE s[i] \in ToSet(u)
  <2>1. i - n \in 1..Len(u) /\ u[i - n] = s[i]
    BY <1>1, <1>2
  <2> QED BY <1>3, <2>1 DEF ToSet
<1> QED BY <1>2, <1>4, <1>5, <1>6 DEF u

(* A sorted sequence without one of its elements. *)
LEMMA IncreasingRemove ==
  ASSUME NEW S, NEW s \in Seq(S), NEW key \in [S -> Nat], Increasing(s, key),
         NEW d \in ToSet(s)
  PROVE  LET u == RemoveAt(s, SelectInSeq(s, LAMBDA e : e = d))
         IN  u \in Seq(S) /\ Increasing(u, key) /\ ToSet(u) = ToSet(s) \ {d}
<1>1. Len(s) \in Nat /\ DOMAIN s = 1..Len(s) /\ s \in [1..Len(s) -> S]
  BY LenProperties
<1>2. PICK n \in 1..Len(s) : s[n] = d
  BY <1>1 DEF ToSet
<1>3. \A i, j \in 1..Len(s) : s[i] = s[j] => i = j
  <2> SUFFICES ASSUME NEW i \in 1..Len(s), NEW j \in 1..Len(s), s[i] = s[j], i < j PROVE FALSE
    BY <1>1
  <2>1. key[s[i]] < key[s[j]] /\ key[s[i]] \in Nat
    BY <1>1 DEF Increasing
  <2> QED BY <2>1
<1>4. {i \in 1..Len(s) : s[i] = d} = {n}
  BY <1>2, <1>3
<1>5. Min({n}) = n
  BY <1>1 DEF Min
<1>6. SelectInSeq(s, LAMBDA e : e = d) = n
  BY <1>4, <1>5 DEF SelectInSeq
<1> DEFINE a == SubSeq(s, 1, n - 1)
           b == SubSeq(s, n + 1, Len(s))
           u == a \o b
<1>7. a \in Seq(S) /\ Len(a) = n - 1 /\ \A i \in 1..(n - 1) : a[i] = s[i]
  BY <1>1, SubSeqProperties
<1>8. b \in Seq(S) /\ Len(b) = Len(s) - n /\ \A i \in 1..(Len(s) - n) : b[i] = s[n + i]
  <2>1. n \in 0..Len(s)
    BY <1>1
  <2> QED BY <2>1, SuffixItems
<1> HIDE DEF a, b
<1>c. /\ u \in Seq(S) /\ Len(u) = Len(a) + Len(b)
      /\ \A i \in 1..(Len(a) + Len(b)) : u[i] = IF i <= Len(a) THEN a[i] ELSE b[i - Len(a)]
  BY <1>7, <1>8, ConcatProperties
<1> HIDE DEF u
<1>9. u \in Seq(S) /\ Len(u) = Len(s) - 1
  BY <1>1, <1>7, <1>8, <1>c
<1>10. \A i \in 1..Len(u) : u[i] = IF i < n THEN s[i] ELSE s[i + 1]
  <2> TAKE i \in 1..Len(u)
  <2>1. u[i] = IF i <= Len(a) THEN a[i] ELSE b[i - Len(a)]
    BY <1>c
  <2>2. CASE i < n
    BY <1>1, <1>7, <2>1, <2>2
  <2>3. CASE ~(i < n)
    <3>1. i - (n - 1) \in 1..(Len(s) - n) /\ n + (i - (n - 1)) = i + 1 /\ ~(i <= Len(a))
      BY <1>1, <1>7, <1>9, <2>3
    <3> QED BY <1>7, <1>8, <2>1, <2>3, <3>1
  <2> QED BY <2>2, <2>3
<1> DEFINE at(i) == IF i < n THEN i ELSE i + 1
<1>d. \A i \in 1..Len(u) : at(i) \in 1..Len(s) /\ at(i) # n /\ u[i] = s[at(i)]
  <2> TAKE i \in 1..Len(u)
  <2>1. i \in Nat /\ 1 <= i /\ i <= Len(s) - 1
    BY <1>1, <1>9
  <2>2. at(i) \in 1..Len(s) /\ at(i) # n
    BY <1>1, <2>1
  <2>3. u[i] = s[at(i)]
    BY <1>10
  <2> QED BY <2>2, <2>3
<1>e. \A i, j \in 1..Len(u) : i < j => at(i) < at(j)
  BY <1>1, <1>9, SMTT(30)
<1> HIDE DEF at
<1>11. Increasing(u, key)
  BY <1>d, <1>e DEF Increasing
<1>12. DOMAIN u = 1..Len(u)
  BY <1>9, LenProperties, Zenon
<1>13. ToSet(u) \subseteq ToSet(s) \ {d}
  <2> SUFFICES ASSUME NEW i \in DOMAIN u PROVE u[i] \in ToSet(s) \ {d}
    BY DEF ToSet
  <2>1. at(i) \in 1..Len(s) /\ at(i) # n /\ u[i] = s[at(i)]
    BY <1>d, <1>12
  <2>2. s[at(i)] # d
    BY <1>2, <1>3, <2>1
  <2>3. s[at(i)] \in ToSet(s)
    BY <1>1, <2>1 DEF ToSet
  <2> QED BY <2>1, <2>2, <2>3
<1>14. ASSUME NEW x \in ToSet(s) \ {d} PROVE x \in ToSet(u)
  <2>1. PICK i \in 1..Len(s) : s[i] = x
    BY <1>1 DEF ToSet
  <2>2. i # n
    BY <1>2, <2>1
  <2>3. CASE i < n
    <3>1. i \in 1..Len(u) /\ u[i] = x
      BY <1>1, <1>9, <1>10, <2>1, <2>3
    <3> QED BY <1>12, <3>1 DEF ToSet
  <2>4. CASE i > n
    <3>1. i - 1 \in 1..Len(u) /\ u[i - 1] = x
      BY <1>1, <1>9, <1>10, <2>1, <2>4
    <3> QED BY <1>12, <3>1 DEF ToSet
  <2> QED BY <2>2, <2>3, <2>4
<1> QED BY <1>6, <1>9, <1>11, <1>13, <1>14 DEF u, a, b, RemoveAt

(* Only the keys of its elements decide whether a sequence is sorted. *)
LEMMA IncreasingSame ==
  ASSUME NEW S, NEW s \in Seq(S), NEW key, NEW other, Increasing(s, key),
         \A x \in ToSet(s) : other[x] = key[x]
  PROVE  Increasing(s, other)
<1>1. \A i \in 1..Len(s) : s[i] \in ToSet(s)
  BY LenProperties DEF ToSet
<1> QED BY <1>1 DEF Increasing

(* A greater element at the end. *)
LEMMA IncreasingAppend ==
  ASSUME NEW S, NEW s \in Seq(S), NEW key \in [S -> Nat], Increasing(s, key),
         NEW d \in S, \A x \in ToSet(s) : key[x] < key[d]
  PROVE  /\ Append(s, d) \in Seq(S) /\ Increasing(Append(s, d), key)
         /\ ToSet(Append(s, d)) = ToSet(s) \cup {d}
<1> DEFINE u == Append(s, d)
<1>1. Len(s) \in Nat /\ DOMAIN s = 1..Len(s)
  BY LenProperties
<1>2. /\ u \in Seq(S) /\ Len(u) = Len(s) + 1
      /\ (\A i \in 1..Len(s) : u[i] = s[i]) /\ u[Len(s) + 1] = d
  BY AppendProperties
<1>3. DOMAIN u = 1..Len(u)
  BY <1>2, LenProperties
<1> HIDE DEF u
<1>4. \A i \in 1..Len(s) : s[i] \in ToSet(s)
  BY <1>1, Zenon DEF ToSet
<1>5. Increasing(u, key)
  <2> SUFFICES ASSUME NEW i \in 1..Len(u), NEW j \in 1..Len(u), i < j
               PROVE  key[u[i]] < key[u[j]]
    BY DEF Increasing
  <2>4. Len(u) = Len(s) + 1
    BY <1>2
  <2>0. i \in 1..Len(s)
    BY <1>1, <2>4
  <2>1. i \in 1..Len(s) /\ u[i] = s[i]
    BY <1>2, <2>0
  <2>2. CASE j \in 1..Len(s)
    BY <1>2, <2>1, <2>2 DEF Increasing
  <2>3. CASE j = Len(s) + 1
    BY <1>2, <1>4, <2>1, <2>3
  <2>5. j \in 1..Len(s) \/ j = Len(s) + 1
    BY <1>1, <2>4
  <2> QED BY <2>2, <2>3, <2>5
<1>6. ToSet(u) = ToSet(s) \cup {d}
  <2>1. ToSet(u) \subseteq ToSet(s) \cup {d}
    BY <1>1, <1>2, <1>3 DEF ToSet
  <2>2. \A i \in 1..Len(s) : i \in 1..Len(u) /\ u[i] = s[i]
    BY <1>1, <1>2
  <2>3. ToSet(s) \subseteq ToSet(u)
    BY <1>1, <1>3, <2>2 DEF ToSet
  <2>4. Len(s) + 1 \in DOMAIN u
    BY <1>1, <1>2, <1>3
  <2>5. d \in ToSet(u)
    BY <1>2, <2>4 DEF ToSet
  <2> QED BY <2>1, <2>3, <2>5
<1> QED BY <1>2, <1>5, <1>6 DEF u

(* The elements of joined sequences. *)
LEMMA ConcatItems ==
  ASSUME NEW S, NEW a \in Seq(S), NEW b \in Seq(S)
  PROVE  /\ a \o b \in Seq(S) /\ Len(a \o b) = Len(a) + Len(b)
         /\ ToSet(a \o b) = ToSet(a) \cup ToSet(b)
<1> DEFINE u == a \o b
<1>1. Len(a) \in Nat /\ DOMAIN a = 1..Len(a) /\ Len(b) \in Nat /\ DOMAIN b = 1..Len(b)
  BY LenProperties
<1>2. /\ u \in Seq(S) /\ Len(u) = Len(a) + Len(b)
      /\ \A i \in 1..(Len(a) + Len(b)) : u[i] = IF i <= Len(a) THEN a[i] ELSE b[i - Len(a)]
  BY ConcatProperties
<1>3. DOMAIN u = 1..Len(u)
  BY <1>2, LenProperties
<1> HIDE DEF u
<1>4. ToSet(u) \subseteq ToSet(a) \cup ToSet(b)
  <2>1. ASSUME NEW i \in 1..Len(u)
        PROVE  \/ i \in 1..Len(a) /\ u[i] = a[i]
               \/ i - Len(a) \in 1..Len(b) /\ u[i] = b[i - Len(a)]
    <3>1. i \in 1..(Len(a) + Len(b))
      BY <1>2
    <3>2. u[i] = IF i <= Len(a) THEN a[i] ELSE b[i - Len(a)]
      BY <1>2, <3>1
    <3>3. i <= Len(a) \/ i - Len(a) \in 1..Len(b)
      BY <1>1, <3>1
    <3>4. ~(i <= Len(a)) \/ i \in 1..Len(a)
      BY <1>1, <3>1
    <3>5. CASE i <= Len(a)
      BY <3>2, <3>4, <3>5
    <3>6. CASE ~(i <= Len(a))
      BY <3>2, <3>3, <3>6
    <3> QED BY <3>5, <3>6
  <2> QED BY <1>1, <1>3, <2>1 DEF ToSet
<1>5. ToSet(a) \subseteq ToSet(u)
  <2>1. \A i \in 1..Len(a) : i \in 1..Len(u) /\ u[i] = a[i]
    BY <1>1, <1>2
  <2> QED BY <1>1, <1>3, <2>1 DEF ToSet
<1>6. ASSUME NEW i \in 1..Len(b) PROVE b[i] \in ToSet(u)
  <2>1. Len(a) + i \in 1..Len(u) /\ ~(Len(a) + i <= Len(a)) /\ (Len(a) + i) - Len(a) = i
    BY <1>1, <1>2
  <2>2. u[Len(a) + i] = b[i]
    BY <1>2, <2>1
  <2> QED BY <1>3, <2>1, <2>2 DEF ToSet
<1>7. ToSet(b) \subseteq ToSet(u)
  BY <1>1, <1>6 DEF ToSet
<1> QED BY <1>2, <1>4, <1>5, <1>7 DEF u

\* No element occurs twice.
Distinct(s) == \A i, j \in 1..Len(s) : s[i] = s[j] => i = j

(* Joined sequences without common elements repeat nothing. *)
LEMMA ConcatDistinct ==
  ASSUME NEW S, NEW a \in Seq(S), NEW b \in Seq(S), Distinct(a), Distinct(b),
         ToSet(a) \cap ToSet(b) = {}
  PROVE  Distinct(a \o b)
<1> DEFINE u == a \o b
<1>1. Len(a) \in Nat /\ DOMAIN a = 1..Len(a) /\ Len(b) \in Nat /\ DOMAIN b = 1..Len(b)
  BY LenProperties
<1>2. /\ Len(u) = Len(a) + Len(b)
      /\ \A i \in 1..(Len(a) + Len(b)) : u[i] = IF i <= Len(a) THEN a[i] ELSE b[i - Len(a)]
  BY ConcatProperties
<1> HIDE DEF u
<1>3. \A i \in 1..Len(a), j \in 1..Len(b) : a[i] # b[j]
  BY <1>1 DEF ToSet
<1>4. \A i \in 1..Len(u) : \/ i \in 1..Len(a) /\ u[i] = a[i]
                           \/ i - Len(a) \in 1..Len(b) /\ u[i] = b[i - Len(a)]
  BY <1>1, <1>2
<1>5. Distinct(u)
  BY <1>1, <1>2, <1>3, <1>4 DEF Distinct
<1> QED BY <1>5 DEF u

(* A sorted sequence repeats nothing. *)
LEMMA IncreasingDistinct ==
  ASSUME NEW S, NEW s \in Seq(S), NEW key \in [S -> Nat], Increasing(s, key)
  PROVE  Distinct(s)
<1>1. Len(s) \in Nat /\ s \in [1..Len(s) -> S]
  BY LenProperties
<1> QED BY <1>1 DEF Increasing, Distinct

(* A sequence without repetitions has as many elements as positions. *)
LEMMA DistinctBijection ==
  ASSUME NEW S, NEW s \in Seq(S), Distinct(s)
  PROVE  /\ s \in Bijection(1..Len(s), ToSet(s))
         /\ IsFiniteSet(ToSet(s)) /\ Cardinality(ToSet(s)) = Len(s)
<1>1. Len(s) \in Nat /\ DOMAIN s = 1..Len(s) /\ s \in [1..Len(s) -> S]
  BY LenProperties
<1>2. s \in Bijection(1..Len(s), ToSet(s))
  BY <1>1 DEF Distinct, Bijection, Injection, Surjection, IsInjective, ToSet
<1> QED BY <1>1, <1>2, IntervalCounts, FS_Bijection DEF ExistsBijection

(* An element occurs once in such a sequence, and nothing else does. *)
LEMMA DistinctCount ==
  ASSUME NEW S, NEW s \in Seq(S), Distinct(s), NEW d
  PROVE  Cardinality({i \in DOMAIN s : s[i] = d}) = IF d \in ToSet(s) THEN 1 ELSE 0
<1>1. DOMAIN s = 1..Len(s)
  BY LenProperties
<1>2. CASE d \in ToSet(s)
  <2>1. PICK i \in 1..Len(s) : s[i] = d
    BY <1>1, <1>2 DEF ToSet
  <2>2. {j \in DOMAIN s : s[j] = d} = {i}
    BY <1>1, <2>1 DEF Distinct
  <2> QED BY <1>2, <2>2, FS_Singleton
<1>3. CASE d \notin ToSet(s)
  <2>1. {j \in DOMAIN s : s[j] = d} = {}
    BY <1>3 DEF ToSet
  <2> QED BY <1>3, <2>1, FS_EmptySet
<1> QED BY <1>2, <1>3

(* A set of numbers that is not empty has a smallest one: induction, for a *)
(* property given by the set of its counterexamples.                       *)
LEMMA LeastNumber ==
  ASSUME NEW T \in SUBSET Nat, T # {}
  PROVE  \E m \in T : \A k \in T : m <= k
<1> DEFINE R == {ss \in Nat \X Nat : ss[1] < ss[2]}
<1>1. OpToRel(<, Nat) = R
  BY Zenon DEF OpToRel
<1>2. IsWellFoundedOn(R, Nat)
  BY <1>1, NatLessThanWellFounded, Zenon
<1>3. \A x, y \in Nat : y < x => <<y, x>> \in R
  OBVIOUS
<1> HIDE DEF R
<1>4. PICK x \in T : \A y \in T : ~ (<<y, x>> \in R)
  BY <1>2, WFMin
<1>5. ASSUME NEW y \in T PROVE x <= y
  <2>1. x \in Nat /\ y \in Nat /\ ~(y < x)
    BY <1>3, <1>4
  <2> QED BY <2>1
<1> QED BY <1>5

(* The chosen minimum is the smallest one. *)
LEMMA LeastOf ==
  ASSUME NEW T \in SUBSET Nat, T # {}
  PROVE  Min(T) \in T /\ \A k \in T : Min(T) <= k
BY LeastNumber DEF Min

\* g is computed by step, from first, up to n.
Computes(g, first, step, n) ==
  g[0] = first /\ \A i \in 1..n : g[i] = step[<<i, g[i - 1]>>]

(* A recursive function over an interval exists: a smallest interval on    *)
(* which it does not would have a predecessor on which it does.            *)
LEMMA RecursionExists ==
  ASSUME NEW S, NEW first \in S, NEW n \in Nat, NEW step \in [(1..n) \X S -> S]
  PROVE  \E g \in [0..n -> S] : Computes(g, first, step, n)
<1> DEFINE Has(m) == \E g \in [0..m -> S] : Computes(g, first, step, m)
           T == {m \in 0..n : ~Has(m)}
<1> SUFFICES ASSUME T # {} PROVE FALSE
  OBVIOUS
<1>1. PICK m \in T : \A k \in T : m <= k
  <2>1. T \in SUBSET Nat
    OBVIOUS
  <2> HIDE DEF T
  <2> QED BY <2>1, LeastNumber
<1>2. CASE m = 0
  <2>1. [i \in 0..0 |-> first] \in [0..0 -> S] /\ Computes([i \in 0..0 |-> first], first, step, 0)
    BY DEF Computes
  <2> QED BY <1>2, <2>1
<1>3. CASE m # 0
  <2>1. m \in 1..n /\ m - 1 \in 0..n /\ ~(m <= m - 1)
    BY <1>3
  <2>2. Has(m - 1)
    BY <1>1, <2>1
  <2>3. PICK g \in [0..(m - 1) -> S] : Computes(g, first, step, m - 1)
    BY <2>2
  <2> DEFINE h == [i \in 0..m |-> IF i = m THEN step[<<m, g[m - 1]>>] ELSE g[i]]
  <2>4. step[<<m, g[m - 1]>>] \in S
    <3>1. m - 1 \in 0..(m - 1)
      BY <2>1
    <3>2. g[m - 1] \in S
      BY <3>1
    <3>3. <<m, g[m - 1]>> \in (1..n) \X S
      BY <2>1, <3>2
    <3> QED BY <3>3
  <2>5. h \in [0..m -> S]
    BY <2>1, <2>4
  <2>6. h[0] = first /\ h[m] = step[<<m, h[m - 1]>>]
    <3>1. h[0] = g[0] /\ h[m] = step[<<m, g[m - 1]>>] /\ h[m - 1] = g[m - 1]
      BY <2>1
    <3> QED BY <2>3, <3>1 DEF Computes
  <2>7. ASSUME NEW i \in 1..(m - 1) PROVE h[i] = step[<<i, h[i - 1]>>]
    <3>1. h[i] = g[i] /\ h[i - 1] = g[i - 1]
      BY <2>1
    <3> QED BY <2>3, <3>1 DEF Computes
  <2>8. \A i \in 1..m : i = m \/ i \in 1..(m - 1)
    BY <2>1
  <2> HIDE DEF h
  <2>9. Computes(h, first, step, m)
    BY <2>6, <2>7, <2>8 DEF Computes
  <2> QED BY <2>5, <2>9
<1> QED BY <1>2, <1>3

\* How many elements of P are not above i
RankIn(P, i) == Cardinality({j \in P : j <= i})

(* Ranks number the elements of a finite set of numbers in their order. *)
LEMMA RankOrder ==
  ASSUME NEW P \in SUBSET Int, IsFiniteSet(P)
  PROVE  /\ Cardinality(P) \in Nat
         /\ \A i \in P : RankIn(P, i) \in 1..Cardinality(P)
         /\ \A i, j \in P : i < j => RankIn(P, i) < RankIn(P, j)
         /\ \A k \in 1..Cardinality(P) : \E i \in P : RankIn(P, i) = k
<1> DEFINE Upto(i) == {j \in P : j <= i}
           C == 1..Cardinality(P)
           rank == [i \in P |-> RankIn(P, i)]
<1>1. Cardinality(P) \in Nat
  BY FS_CardinalityType
<1>2. \A i \in P : IsFiniteSet(Upto(i)) /\ Cardinality(Upto(i)) \in Nat
                   /\ Cardinality(Upto(i)) <= Cardinality(P)
  <2> TAKE i \in P
  <2>1. Upto(i) \in SUBSET P
    OBVIOUS
  <2> HIDE DEF Upto
  <2> QED BY <2>1, FS_Subset, FS_CardinalityType
<1>3. \A i \in P : RankIn(P, i) = Cardinality(Upto(i))
  BY DEF RankIn
<1>4. \A i \in P : RankIn(P, i) \in C
  <2> TAKE i \in P
  <2>1. i \in Upto(i)
    OBVIOUS
  <2> HIDE DEF Upto
  <2>2. Cardinality(Upto(i)) # 0
    BY <1>2, <2>1, FS_EmptySet
  <2> QED BY <1>1, <1>2, <1>3, <2>2
<1>5. ASSUME NEW i \in P, NEW j \in P, i < j PROVE RankIn(P, i) < RankIn(P, j)
  <2>a. i \in Int /\ j \in Int /\ \A k \in P : k \in Int
    OBVIOUS
  <2>b. \A k \in P : k <= i => k <= j
    BY <1>5, <2>a
  <2>c. j <= j /\ ~(j <= i)
    BY <1>5, <2>a
  <2>1. Upto(i) \in SUBSET Upto(j) /\ j \in Upto(j) /\ j \notin Upto(i)
    BY <2>b, <2>c
  <2> HIDE DEF Upto
  <2>2. Cardinality(Upto(i)) <= Cardinality(Upto(j)) /\ Cardinality(Upto(i)) # Cardinality(Upto(j))
    BY <1>2, <2>1, FS_Subset
  <2> QED BY <1>2, <1>3, <2>2
<1>6. \A i, j \in P : RankIn(P, i) = RankIn(P, j) => i = j
  <2> SUFFICES ASSUME NEW i \in P, NEW j \in P, RankIn(P, i) = RankIn(P, j), i # j PROVE FALSE
    OBVIOUS
  <2>1. i < j \/ j < i
    OBVIOUS
  <2>2. RankIn(P, i) < RankIn(P, j) \/ RankIn(P, j) < RankIn(P, i)
    BY <1>5, <2>1
  <2>3. RankIn(P, i) \in Nat
    <3> HIDE DEF Upto
    <3> QED BY <1>2, <1>3
  <2> QED BY <2>2, <2>3
<1> HIDE DEF Upto, C
<1>7. rank \in Injection(P, C)
  BY <1>4, <1>6 DEF Injection, IsInjective
<1>8. IsFiniteSet(C) /\ Cardinality(C) = Cardinality(P)
  BY <1>1, IntervalCounts DEF C
<1>9. rank \in Surjection(P, C)
  <2> HIDE DEF rank
  <2> QED BY <1>7, <1>8, FS_Injection
<1>10. \A k \in C : \E i \in P : RankIn(P, i) = k
  BY <1>9 DEF Surjection
<1> QED BY <1>1, <1>4, <1>5, <1>10 DEF C

-----------------------------------------------------------------------------
(* Flattening a sequence of sequences *)

\* f is the table of the flattened prefixes of fs.
IsFlattening(fs, f) ==
  f = [i \in 1..Len(fs) |-> IF i = 1 THEN fs[i] ELSE f[i - 1] \o fs[i]]

\* f holds the flattened prefixes of fs up to n.
Flattens(f, fs, n) == \A i \in 1..n : f[i] = IF i = 1 THEN fs[i] ELSE f[i - 1] \o fs[i]

\* f and g have the same first n entries.
SameUpto(f, g, n) == \A i \in 1..n : f[i] = g[i]

(* A sequence of sequences can be flattened, prefix after prefix. *)
LEMMA FlatteningExists ==
  ASSUME NEW S, NEW fs \in Seq(Seq(S))
  PROVE  \E f \in [1..Len(fs) -> Seq(S)] : IsFlattening(fs, f)
<1> DEFINE n == Len(fs)
           step == [x \in (1..n) \X Seq(S) |-> x[2] \o fs[x[1]]]
<1>1. n \in Nat /\ \A i \in 1..n : fs[i] \in Seq(S)
  BY LenProperties
<1>2. n = Len(fs)
  OBVIOUS
<1> HIDE DEF n
<1>3. step \in [(1..n) \X Seq(S) -> Seq(S)]
  <2>1. ASSUME NEW i \in 1..n, NEW s \in Seq(S) PROVE s \o fs[i] \in Seq(S)
    BY <1>1, ConcatProperties
  <2> QED BY <2>1
<1>4. <<>> \in Seq(S)
  BY EmptySeq
<1>5. PICK g \in [0..n -> Seq(S)] : Computes(g, <<>>, step, n)
  <2> HIDE DEF step
  <2> QED BY <1>1, <1>3, <1>4, RecursionExists
<1> DEFINE f == [i \in 1..n |-> g[i]]
<1>6. f \in [1..n -> Seq(S)] /\ \A i \in 1..n : f[i] = g[i] /\ i \in 0..n /\ i - 1 \in 0..n
  BY <1>1
<1>7. ASSUME NEW i \in 1..n PROVE g[i] = g[i - 1] \o fs[i]
  <2>1. g[i] = step[<<i, g[i - 1]>>]
    BY <1>5 DEF Computes
  <2>2. <<i, g[i - 1]>> \in (1..n) \X Seq(S)
    BY <1>6
  <2> QED BY <2>1, <2>2
<1>8. ASSUME NEW i \in 1..n PROVE f[i] = IF i = 1 THEN fs[i] ELSE f[i - 1] \o fs[i]
  <2>1. CASE i = 1
    <3>1. g[i] = <<>> \o fs[i]
      <4>1. g[0] = <<>> /\ i - 1 = 0
        BY <1>5, <2>1 DEF Computes
      <4> QED BY <1>7, <4>1
    <3>2. <<>> \o fs[i] = fs[i]
      BY <1>1, ConcatEmptySeq
    <3> QED BY <1>6, <2>1, <3>1, <3>2
  <2>2. CASE i # 1
    <3>1. i - 1 \in 1..n
      BY <1>1, <2>2
    <3> QED BY <1>6, <1>7, <2>2, <3>1
  <2> QED BY <2>1, <2>2
<1> HIDE DEF step
<1>9. IsFlattening(fs, f)
  BY <1>2, <1>8 DEF IsFlattening
<1> QED BY <1>2, <1>6, <1>9

(* What is flattened first does not depend on what follows: a first place *)
(* where two tables differ would follow one where they agree.             *)
LEMMA FlatteningsAgree ==
  ASSUME NEW n \in Nat, NEW fs, NEW gs, NEW f, NEW g,
         SameUpto(fs, gs, n), Flattens(f, fs, n), Flattens(g, gs, n)
  PROVE  SameUpto(f, g, n)
<1> DEFINE T == {i \in 1..n : f[i] # g[i]}
<1> SUFFICES ASSUME T # {} PROVE FALSE
  BY DEF SameUpto
<1>1. PICK m \in T : \A k \in T : m <= k
  <2>1. T \in SUBSET Nat
    OBVIOUS
  <2> HIDE DEF T
  <2> QED BY <2>1, LeastNumber
<1>2. m # 1 /\ m \in 1..n
  BY DEF Flattens, SameUpto
<1>3. m - 1 \in 1..n /\ ~(m <= m - 1)
  BY <1>2
<1>4. f[m - 1] = g[m - 1]
  BY <1>1, <1>3
<1>5. f[m] = f[m - 1] \o fs[m] /\ g[m] = g[m - 1] \o gs[m] /\ fs[m] = gs[m]
  BY <1>2 DEF Flattens, SameUpto
<1> QED BY <1>4, <1>5

(* The flattened sequence: the last entry of any table. *)
LEMMA FlattenByTable ==
  ASSUME NEW S, NEW fs \in Seq(Seq(S)), NEW f, IsFlattening(fs, f)
  PROVE  /\ Len(fs) # 0 => FlattenSeq(fs) = f[Len(fs)]
         /\ \A i \in 1..Len(fs) : f[i] \in Seq(S)
         /\ Flattens(f, fs, Len(fs))
<1> DEFINE n == Len(fs)
           h == CHOOSE h : IsFlattening(fs, h)
<1>1. n \in Nat /\ n = Len(fs)
  BY LenProperties
<1>2. n # 0 => FlattenSeq(fs) = h[n]
  BY DEF FlattenSeq, IsFlattening
<1>3. PICK g \in [1..n -> Seq(S)] : IsFlattening(fs, g)
  BY FlatteningExists
<1>4. IsFlattening(fs, h)
  BY <1>3
<1> HIDE DEF h, n
<1>5. ASSUME NEW e, IsFlattening(fs, e)
      PROVE  Flattens(e, fs, n)
  BY <1>1, <1>5, Zenon DEF IsFlattening, Flattens
<1>a. SameUpto(fs, fs, n)
  BY DEF SameUpto
<1>b. Flattens(f, fs, n) /\ Flattens(g, fs, n) /\ Flattens(h, fs, n)
  BY <1>3, <1>4, <1>5
<1>6. SameUpto(h, f, n)
  BY <1>1, <1>a, <1>b, FlatteningsAgree
<1>7. SameUpto(g, f, n)
  BY <1>1, <1>a, <1>b, FlatteningsAgree
<1>8. n # 0 => n \in 1..n
  BY <1>1
<1>9. n # 0 => h[n] = f[n]
  BY <1>6, <1>8 DEF SameUpto
<1>10. \A i \in 1..n : f[i] \in Seq(S)
  BY <1>3, <1>7 DEF SameUpto
<1> QED BY <1>1, <1>2, <1>b, <1>9, <1>10

(* Nothing flattens to nothing. *)
LEMMA FlattenEmpty == FlattenSeq(<<>>) = <<>>
BY DEF FlattenSeq

(* One sequence more is flattened to the end. *)
LEMMA FlattenAppend ==
  ASSUME NEW S, NEW fs \in Seq(Seq(S)), NEW s \in Seq(S)
  PROVE  /\ FlattenSeq(fs) \in Seq(S)
         /\ FlattenSeq(Append(fs, s)) = FlattenSeq(fs) \o s
<1> DEFINE n == Len(fs)
           gs == Append(fs, s)
<1>1. n \in Nat /\ n = Len(fs) /\ \A i \in 1..n : fs[i] \in Seq(S)
  BY LenProperties
<1>2. gs \in Seq(Seq(S)) /\ Len(gs) = n + 1 /\ gs[n + 1] = s /\ \A i \in 1..n : gs[i] = fs[i]
  BY AppendProperties
<1> HIDE DEF n, gs
<1>3. PICK f : IsFlattening(fs, f)
  BY FlatteningExists
<1>4. PICK g : IsFlattening(gs, g)
  BY <1>2, FlatteningExists
<1>5. /\ n # 0 => FlattenSeq(fs) = f[n]
      /\ \A i \in 1..n : f[i] \in Seq(S)
      /\ Flattens(f, fs, n)
  BY <1>1, <1>3, FlattenByTable
<1>6. /\ FlattenSeq(gs) = g[n + 1]
      /\ Flattens(g, gs, n + 1)
  <2>1. n + 1 # 0
    BY <1>1
  <2>2. /\ Len(gs) # 0 => FlattenSeq(gs) = g[Len(gs)]
        /\ Flattens(g, gs, Len(gs))
    BY <1>2, <1>4, FlattenByTable
  <2> QED BY <1>2, <2>1, <2>2
<1>7. \A i \in 1..n : i \in 1..(n + 1)
  BY <1>1
<1>8. SameUpto(f, g, n)
  <2>1. Flattens(g, gs, n)
    BY <1>6, <1>7 DEF Flattens
  <2>2. SameUpto(fs, gs, n)
    BY <1>2 DEF SameUpto
  <2> QED BY <1>1, <1>5, <2>1, <2>2, FlatteningsAgree
<1>9. CASE n = 0
  <2>1. fs = <<>>
    BY <1>1, <1>9, EmptySeq
  <2>2. FlattenSeq(fs) = <<>>
    BY <2>1, FlattenEmpty
  <2>3. FlattenSeq(gs) = s
    <3>1. 1 \in 1..(n + 1) /\ n + 1 = 1
      BY <1>9
    <3>2. g[1] = gs[1]
      BY <1>6, <3>1 DEF Flattens
    <3> QED BY <1>2, <1>6, <3>1, <3>2
  <2>4. <<>> \o s = s /\ <<>> \in Seq(S)
    BY ConcatEmptySeq, EmptySeq
  <2> QED BY <2>2, <2>3, <2>4 DEF gs
<1>10. CASE n # 0
  <2>1. n \in 1..n /\ n + 1 \in 1..(n + 1) /\ n + 1 # 1 /\ (n + 1) - 1 = n
    BY <1>1, <1>10
  <2>2. g[n + 1] = g[n] \o gs[n + 1]
    BY <1>6, <2>1 DEF Flattens
  <2>3. g[n] = FlattenSeq(fs) /\ FlattenSeq(fs) \in Seq(S)
    BY <1>5, <1>8, <1>10, <2>1 DEF SameUpto
  <2> QED BY <1>2, <1>6, <2>2, <2>3 DEF gs
<1> QED BY <1>9, <1>10
=============================================================================
