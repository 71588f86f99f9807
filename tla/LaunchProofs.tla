---------------------------- MODULE LaunchProofs ----------------------------
(***************************************************************************)
(* host/launch.go: what the launch of a native process makes of any        *)
(* command line, any vocabulary and any inherited environment.             *)
(*                                                                         *)
(* Classification: the role of every argument is a recursive function of   *)
(* the line, and the loop keeps step with it: wherever it stops, index is  *)
(* at an argument that is free to be one (IndexFree), and what it has      *)
(* collected so far is the forwarded, grouped, named and native arguments  *)
(* before index, in order (ForwardedSeen, GroupsSeen, NameSeen,            *)
(* NativeSeen), the last error included (FailedSeen).  At the end Seen is  *)
(* all.                                                                    *)
(*                                                                         *)
(* Environment: replaceEnv keeps the others in place and leaves one value, *)
(* so that three replacements leave one of each.                           *)
(*                                                                         *)
(* Argument rules: a harmless stretch of a line is the option that the     *)
(* loop reads at its start, so that there is one way to split a line, the  *)
(* one that the loop takes.                                                *)
(***************************************************************************)
EXTENDS ArgumentRules, CountingTheorems, TLAPS

(* A set of positions is finite. *)
LEMMA PositionsFinite ==
  ASSUME NEW n \in Nat, NEW P \in SUBSET (1..n)
  PROVE  /\ P \in SUBSET Int /\ IsFiniteSet(P) /\ Cardinality(P) \in Nat
<1>1. IsFiniteSet(P) /\ Cardinality(P) \in Nat
  BY IntervalCounts, FS_Subset, FS_CardinalityType
<1>2. P \in SUBSET Int
  OBVIOUS
<1> QED BY <1>1, <1>2

(* The selected element of an element's rank is this element. *)
LEMMA SelectedAt ==
  ASSUME NEW n \in Nat, NEW P \in SUBSET (1..n), NEW s
  PROVE  /\ DOMAIN Selected(s, P) = 1..Cardinality(P)
         /\ \A i \in P : RankIn(P, i) \in 1..Cardinality(P) /\ Selected(s, P)[RankIn(P, i)] = s[i]
<1>1. P \in SUBSET Int /\ IsFiniteSet(P)
  BY PositionsFinite
<1>2. \A i \in P : RankIn(P, i) \in 1..Cardinality(P)
  BY <1>1, RankOrder
<1>3. \A i, j \in P : i < j => RankIn(P, i) < RankIn(P, j)
  BY <1>1, RankOrder
<1>4. Selected(s, P) = [k \in 1..Cardinality(P) |-> s[CHOOSE i \in P : RankIn(P, i) = k]]
  BY DEF Selected, RankIn
<1>5. ASSUME NEW i \in P PROVE (CHOOSE j \in P : RankIn(P, j) = RankIn(P, i)) = i
  <2>1. PICK j \in P : j = (CHOOSE k \in P : RankIn(P, k) = RankIn(P, i))
                       /\ RankIn(P, j) = RankIn(P, i)
    OBVIOUS
  <2>2. ~(RankIn(P, i) < RankIn(P, j)) /\ ~(RankIn(P, j) < RankIn(P, i))
    BY <1>1, <1>2, <2>1, PositionsFinite
  <2>3. ~(i < j) /\ ~(j < i)
    BY <1>3, <2>2
  <2>4. i = j
    BY <1>1, <2>3
  <2> QED BY <2>1, <2>4
<1> QED BY <1>2, <1>4, <1>5

(* What has them at their ranks is the selection. *)
LEMMA SelectedIs ==
  ASSUME NEW n \in Nat, NEW P \in SUBSET (1..n), NEW s, NEW S,
         NEW t \in Seq(S), Len(t) = Cardinality(P),
         \A i \in P : t[RankIn(P, i)] = s[i]
  PROVE  t = Selected(s, P)
<1>1. \A k \in 1..Cardinality(P) : \E i \in P : RankIn(P, i) = k
  BY PositionsFinite, RankOrder
<1>2. Selected(s, P) = [k \in 1..Cardinality(P) |-> Selected(s, P)[k]]
  BY DEF Selected
<1>3. ASSUME NEW k \in 1..Cardinality(P) PROVE Selected(s, P)[k] = t[k]
  <2>1. PICK i \in P : RankIn(P, i) = k
    BY <1>1
  <2>2. Selected(s, P)[RankIn(P, i)] = s[i]
    BY SelectedAt
  <2> QED BY <2>1, <2>2
<1>4. t = [k \in 1..Cardinality(P) |-> t[k]]
  BY LenProperties
<1> QED BY <1>2, <1>3, <1>4

(* The selection is a sequence of what the elements are. *)
LEMMA SelectedType ==
  ASSUME NEW n \in Nat, NEW P \in SUBSET (1..n), NEW s, NEW S, \A i \in P : s[i] \in S
  PROVE  /\ Selected(s, P) \in Seq(S) /\ Len(Selected(s, P)) = Cardinality(P)
<1>1. \A k \in 1..Cardinality(P) : \E i \in P : RankIn(P, i) = k
  BY PositionsFinite, RankOrder
<1>2. \A k \in 1..Cardinality(P) : Selected(s, P)[k] \in S
  BY <1>1, SelectedAt, SMTT(30)
<1>3. Selected(s, P) = [k \in 1..Cardinality(P) |-> Selected(s, P)[k]]
  BY DEF Selected
<1>4. Selected(s, P) \in [1..Cardinality(P) -> S]
  BY <1>2, <1>3
<1>5. Cardinality(P) \in Nat
  BY PositionsFinite
<1>6. Selected(s, P) \in Seq(S)
  BY <1>4, <1>5, SeqDef
<1>7. DOMAIN Selected(s, P) = 1..Cardinality(P)
  BY SelectedAt
<1> QED BY <1>5, <1>6, <1>7, LenProperties

(* Only the elements at the positions count. *)
LEMMA SelectedSame ==
  ASSUME NEW n \in Nat, NEW P \in SUBSET (1..n), NEW s, NEW t, NEW S,
         \A i \in P : s[i] \in S /\ s[i] = t[i]
  PROVE  Selected(s, P) = Selected(t, P)
<1> DEFINE u == Selected(s, P)
<1>1. u \in Seq(S) /\ Len(u) = Cardinality(P)
  BY SelectedType
<1>2. \A i \in P : u[RankIn(P, i)] = t[i]
  BY SelectedAt
<1> HIDE DEF u
<1>3. u = Selected(t, P)
  BY <1>1, <1>2, SelectedIs
<1> QED BY <1>3 DEF u

(* Nothing is selected at no position. *)
LEMMA SelectedNone ==
  ASSUME NEW s
  PROVE  Selected(s, {}) = <<>>
BY FS_EmptySet DEF Selected

(* One position more, behind the others, appends its element. *)
LEMMA SelectedAppend ==
  ASSUME NEW n \in Nat, NEW P \in SUBSET (1..n), NEW s, NEW S, \A i \in P : s[i] \in S,
         NEW m \in 1..n, \A i \in P : i < m, s[m] \in S
  PROVE  Selected(s, P \cup {m}) = Append(Selected(s, P), s[m])
<1> DEFINE Q == P \cup {m}
           t == Append(Selected(s, P), s[m])
           c == Cardinality(P)
<1>1. Q \in SUBSET (1..n) /\ m \notin P
  BY SMT
<1>2. c \in Nat /\ Cardinality(Q) = c + 1 /\ IsFiniteSet(P)
  BY <1>1, PositionsFinite, FS_AddElement
<1>3. Selected(s, P) \in Seq(S) /\ Len(Selected(s, P)) = c
  BY SelectedType
<1>4. /\ t \in Seq(S) /\ Len(t) = c + 1 /\ t[c + 1] = s[m]
      /\ \A k \in 1..c : t[k] = Selected(s, P)[k]
  BY <1>3, AppendProperties
<1>6. \A i \in P : RankIn(Q, i) = RankIn(P, i)
  <2> TAKE i \in P
  <2>1. {j \in Q : j <= i} = {j \in P : j <= i}
    <3>1. i \in Int /\ m \in Int /\ i < m
      OBVIOUS
    <3>2. ~(m <= i)
      BY <3>1
    <3> QED BY <3>2
  <2> QED BY <2>1 DEF RankIn
<1>7. RankIn(Q, m) = c + 1
  <2>1. \A j \in Q : j <= m
    BY <1>1
  <2>2. {j \in Q : j <= m} = Q
    BY <2>1
  <2> QED BY <1>2, <2>2 DEF RankIn
<1> HIDE DEF t, Q
<1>8. \A i \in P : t[RankIn(Q, i)] = s[i]
  BY <1>4, <1>6, SelectedAt
<1>9. \A i \in Q : t[RankIn(Q, i)] = s[i]
  BY <1>4, <1>7, <1>8 DEF Q
<1>10. t = Selected(s, Q)
  <2>1. Q \in SUBSET (1..n) /\ t \in Seq(S) /\ Len(t) = Cardinality(Q)
    BY <1>1, <1>2, <1>4
  <2> QED BY <1>9, <2>1, SelectedIs
<1> QED BY <1>10 DEF t, Q

\* Append by a name of its own, which the provers leave alone
Extended(s, e) == Append(s, e)

(* As many ranks as elements. *)
LEMMA RanksCount ==
  ASSUME NEW n \in Nat, NEW P \in SUBSET (1..n), NEW R \in SUBSET P
  PROVE  Cardinality({RankIn(P, i) : i \in R}) = Cardinality(R)
<1> DEFINE K == {RankIn(P, i) : i \in R}
           f == [i \in R |-> RankIn(P, i)]
<1>1. P \in SUBSET Int /\ IsFiniteSet(P) /\ IsFiniteSet(R)
  BY PositionsFinite, FS_Subset
<1>2. \A i \in P : RankIn(P, i) \in Int
  BY <1>1, RankOrder
<1>3. \A i, j \in P : i < j => RankIn(P, i) < RankIn(P, j)
  BY <1>1, RankOrder
<1>4. ASSUME NEW i \in R, NEW j \in R, RankIn(P, i) = RankIn(P, j) PROVE i = j
  <2>1. i \in P /\ j \in P /\ i \in Int /\ j \in Int
    BY <1>1
  <2>2. ~(RankIn(P, i) < RankIn(P, j)) /\ ~(RankIn(P, j) < RankIn(P, i))
    BY <1>2, <1>4, <2>1
  <2>3. ~(i < j) /\ ~(j < i)
    BY <1>3, <2>1, <2>2
  <2> QED BY <2>1, <2>3
<1>5. f \in Bijection(R, K)
  BY <1>4 DEF Bijection, Injection, Surjection, IsInjective
<1> QED BY <1>1, <1>5, FS_Bijection DEF ExistsBijection

\* The elements that are in E
With(s, E) == Selected(s, {i \in DOMAIN s : s[i] \in E})

(* Such elements make a sequence. *)
LEMMA WithType ==
  ASSUME NEW S, NEW s \in Seq(S), NEW E
  PROVE  With(s, E) \in Seq(S)
<1>1. Len(s) \in Nat /\ DOMAIN s = 1..Len(s) /\ \A i \in 1..Len(s) : s[i] \in S
  BY LenProperties
<1>2. {i \in DOMAIN s : s[i] \in E} \in SUBSET (1..Len(s))
  BY <1>1
<1> QED BY <1>1, <1>2, SelectedType DEF With

(* Selecting twice selects what passes both. *)
LEMMA WithTwice ==
  ASSUME NEW S, NEW s \in Seq(S), NEW D, NEW E
  PROVE  With(With(s, D), E) = With(s, D \cap E)
<1> DEFINE n == Len(s)
           P == {i \in DOMAIN s : s[i] \in D}
           u == Selected(s, P)
           R == {i \in DOMAIN s : s[i] \in D \cap E}
           K == {k \in DOMAIN u : u[k] \in E}
           v == Selected(u, K)
<1>1. n \in Nat /\ DOMAIN s = 1..n /\ \A i \in 1..n : s[i] \in S
  BY LenProperties
<1>2. P \in SUBSET (1..n) /\ R \in SUBSET P /\ R \in SUBSET (1..n) /\ R = {i \in P : s[i] \in E}
  BY <1>1
<1>3. u \in Seq(S) /\ Len(u) = Cardinality(P) /\ DOMAIN u = 1..Cardinality(P)
  BY <1>1, <1>2, SelectedType, SelectedAt
<1>4. \A i \in P : RankIn(P, i) \in DOMAIN u /\ u[RankIn(P, i)] = s[i]
  <2> HIDE DEF P, n
  <2> QED BY <1>1, <1>2, <1>3, SelectedAt
<1>5. /\ Cardinality(P) \in Nat /\ P \in SUBSET Int
      /\ \A i, j \in P : i < j => RankIn(P, i) < RankIn(P, j)
      /\ \A k \in 1..Cardinality(P) : \E i \in P : RankIn(P, i) = k
  <2>1. P \in SUBSET Int /\ IsFiniteSet(P)
    BY <1>1, <1>2, PositionsFinite
  <2> QED BY <2>1, RankOrder
<1> HIDE DEF n, P, u, R
<1>6. K = {RankIn(P, i) : i \in R}
  <2>1. ASSUME NEW k \in K PROVE k \in {RankIn(P, i) : i \in R}
    <3>1. k \in 1..Cardinality(P) /\ u[k] \in E
      BY <1>3
    <3>2. PICK i \in P : RankIn(P, i) = k
      BY <1>5, <3>1
    <3>3. i \in R
      BY <1>2, <1>4, <3>1, <3>2
    <3> QED BY <3>2, <3>3
  <2>2. ASSUME NEW i \in R PROVE RankIn(P, i) \in K
    BY <1>2, <1>4
  <2> QED BY <2>1, <2>2
<1>7. Cardinality(K) = Cardinality(R)
  BY <1>1, <1>2, <1>6, RanksCount
<1>8. K \in SUBSET (1..Cardinality(P)) /\ \A k \in K : u[k] \in S
  BY <1>2, <1>3, <1>4, <1>1, <1>6
<1>9. v \in Seq(S) /\ Len(v) = Cardinality(K) /\ \A k \in K : v[RankIn(K, k)] = u[k]
  <2> HIDE DEF K
  <2> QED BY <1>5, <1>8, SelectedType, SelectedAt
<1> HIDE DEF K, v
<1>10. ASSUME NEW i \in R PROVE v[RankIn(R, i)] = s[i]
  <2> DEFINE Q == {j \in R : j <= i}
             r == RankIn(P, i)
  <2>1. i \in P /\ r \in K /\ u[r] = s[i] /\ r \in 1..Cardinality(P)
    BY <1>2, <1>3, <1>4, <1>6
  <2>2. ASSUME NEW j \in R PROVE j <= i <=> RankIn(P, j) <= r
    <3>1. j \in P /\ i \in Int /\ j \in Int /\ RankIn(P, j) \in Int /\ r \in Int
      BY <1>2, <1>3, <1>4, <1>5, <2>1
    <3>2. CASE j < i
      BY <1>5, <2>1, <3>1, <3>2
    <3>3. CASE i < j
      <4>1. r < RankIn(P, j)
        BY <1>5, <2>1, <3>1, <3>3
      <4> HIDE DEF r
      <4> QED BY <3>1, <3>3, <4>1
    <3>4. CASE i = j
      BY <3>1, <3>4
    <3> QED BY <3>1, <3>2, <3>3, <3>4
  <2> HIDE DEF r
  <2>3. {k \in K : k <= r} = {RankIn(P, j) : j \in Q}
    BY <1>6, <2>2
  <2>4. Q \in SUBSET P
    BY <1>2
  <2> HIDE DEF Q
  <2>5. Cardinality({k \in K : k <= r}) = Cardinality(Q)
    BY <1>1, <1>2, <2>3, <2>4, RanksCount
  <2>6. RankIn(K, r) = RankIn(R, i)
    BY <2>5 DEF RankIn, Q
  <2> QED BY <1>9, <2>1, <2>6
<1>11. \A i \in R : s[i] \in S
  BY <1>1, <1>2
<1>12. v = Selected(s, R)
  <2>1. v \in Seq(S) /\ Len(v) = Cardinality(R)
    BY <1>7, <1>9
  <2> QED BY <1>1, <1>2, <1>10, <2>1, SelectedIs, ZenonT(60)
<1> QED BY <1>12 DEF v, R, K, u, P, With

(* One element more, at the end. *)
LEMMA WithAppend ==
  ASSUME NEW S, NEW s \in Seq(S), NEW e \in S, NEW E
  PROVE  With(Append(s, e), E) = IF e \in E THEN Append(With(s, E), e) ELSE With(s, E)
<1> DEFINE n == Len(s)
           t == Append(s, e)
           P == {i \in DOMAIN s : s[i] \in E}
           Q == {i \in DOMAIN t : t[i] \in E}
<1>1. n \in Nat /\ DOMAIN s = 1..n /\ \A i \in 1..n : s[i] \in S
  BY LenProperties
<1>2. /\ t \in Seq(S) /\ Len(t) = n + 1 /\ t[n + 1] = e /\ \A i \in 1..n : t[i] = s[i]
  BY AppendProperties
<1>3. DOMAIN t = 1..(n + 1)
  BY <1>2, LenProperties
<1> HIDE DEF t
<1>4. P \in SUBSET (1..(n + 1)) /\ \A i \in P : i < n + 1 /\ t[i] \in S /\ s[i] \in S /\ t[i] = s[i]
  BY <1>1, <1>2
<1>5. Q = IF e \in E THEN P \cup {n + 1} ELSE P
  BY <1>1, <1>2, <1>3
<1>6. n + 1 \in Nat /\ n + 1 \in 1..(n + 1)
  BY <1>1
<1> HIDE DEF P, Q, n
<1>7. Selected(t, P) = Selected(s, P)
  BY <1>4, <1>6, SelectedSame
<1>8. Selected(t, P \cup {n + 1}) = Append(Selected(t, P), e)
  BY <1>2, <1>4, <1>6, SelectedAppend, ZenonT(60)
<1> QED BY <1>5, <1>7, <1>8 DEF P, Q, t, With

-----------------------------------------------------------------------------
(* The roles *)

RoleNames == {"start", "end", "rest", "group", "groupValue", "groupAttached", "name", "nameValue",
              "nameAttached", "broken", "option", "optionValue", "native"}

\* The role of argument i behind one of role before
RoleAfter(line, before, i) ==
  CASE before \in {"end", "rest"} -> "rest"
    [] before = "group" -> "groupValue"
    [] before = "name" -> "nameValue"
    [] before = "option" -> "optionValue"
    [] OTHER -> FreeRole(line, i)

(* An argument that is free is one of the listed things. *)
LEMMA FreeRoleType ==
  ASSUME NEW line, NEW i
  PROVE  FreeRole(line, i) \in RoleNames
BY DEF FreeRole, RoleNames

(* The role that an argument gets is a role. *)
LEMMA RoleAfterType ==
  ASSUME NEW line, NEW before \in RoleNames, NEW i
  PROVE  RoleAfter(line, before, i) \in RoleNames
BY FreeRoleType DEF RoleAfter, RoleNames

(* The recursive function of the roles exists, and so it is what it says. *)
LEMMA RoleSteps ==
  ASSUME NEW S, NEW line \in Seq(S)
  PROVE  /\ RoleOf(line) \in [1..Len(line) -> RoleNames]
         /\ Len(line) > 0 => RoleOf(line)[1] = FreeRole(line, 1)
         /\ \A i \in 2..Len(line) : RoleOf(line)[i] = RoleAfter(line, RoleOf(line)[i - 1], i)
<1> DEFINE n == Len(line)
           Table(f) == f = [i \in 0..n |-> IF i = 0 THEN "start"
                                           ELSE RoleAfter(line, f[i - 1], i)]
           role == CHOOSE f : Table(f)
           step == [x \in (1..n) \X RoleNames |-> RoleAfter(line, x[2], x[1])]
<1>1. n \in Nat
  BY LenProperties
<1>2. step \in [(1..n) \X RoleNames -> RoleNames]
  BY RoleAfterType
<1>3. PICK f \in [0..n -> RoleNames] : Computes(f, "start", step, n)
  <2>1. "start" \in RoleNames
    BY DEF RoleNames
  <2> HIDE DEF n, step
  <2> QED BY <1>1, <1>2, <2>1, RecursionExists
<1>4. Table(f)
  <2>1. f[0] = "start"
    BY <1>3 DEF Computes
  <2>2. ASSUME NEW i \in 1..n PROVE f[i] = RoleAfter(line, f[i - 1], i)
    <3>1. f[i] = step[<<i, f[i - 1]>>]
      BY <1>3 DEF Computes
    <3>2. f[i - 1] \in RoleNames
      BY <1>1
    <3>3. <<i, f[i - 1]>> \in (1..n) \X RoleNames
      BY <3>2
    <3> QED BY <3>1, <3>3
  <2>3. \A i \in 0..n : f[i] = IF i = 0 THEN "start" ELSE RoleAfter(line, f[i - 1], i)
    BY <1>1, <2>1, <2>2
  <2> QED BY <2>3
<1>5. Table(role)
  BY <1>4
<1>6. RoleOf(line) = [i \in 1..n |-> role[i]]
  BY DEF RoleOf, RoleAfter
<1> HIDE DEF role, step
<1>7. role[0] = "start" /\ \A i \in 1..n : role[i] = RoleAfter(line, role[i - 1], i)
  <2>1. \A i \in 0..n : role[i] = IF i = 0 THEN "start" ELSE RoleAfter(line, role[i - 1], i)
    BY <1>5
  <2> QED BY <1>1, <2>1
<1>8. \A i \in 0..n : role[i] \in RoleNames
  <2> DEFINE T == {i \in 0..n : role[i] \notin RoleNames}
  <2> SUFFICES ASSUME T # {} PROVE FALSE
    OBVIOUS
  <2>1. T \in SUBSET Nat
    BY <1>1
  <2>2. PICK m \in T : \A k \in T : m <= k
    <3> HIDE DEF T
    <3> QED BY <2>1, LeastNumber
  <2> HIDE DEF n
  <2>3. m # 0
    BY <1>7 DEF RoleNames
  <2>4. m \in 1..n /\ m - 1 \in 0..n /\ ~(m <= m - 1)
    BY <1>1, <2>3
  <2>5. role[m - 1] \in RoleNames
    BY <2>2, <2>4
  <2>6. role[m] \in RoleNames
    BY <1>7, <2>4, <2>5, RoleAfterType
  <2> QED BY <2>6
<1> HIDE DEF n, Table
<1>9. RoleOf(line) \in [1..n -> RoleNames] /\ \A i \in 1..n : RoleOf(line)[i] = role[i]
  <2>1. \A i \in 1..n : i \in 0..n
    BY <1>1
  <2> QED BY <1>6, <1>8, <2>1
<1>10. n > 0 => role[1] = FreeRole(line, 1)
  BY <1>1, <1>7 DEF RoleAfter
<1>11. \A i \in 2..n : role[i] = RoleAfter(line, role[i - 1], i)
  BY <1>1, <1>7
<1>12. \A i \in 2..n : i \in 1..n /\ i - 1 \in 1..n
  BY <1>1
<1>13. n > 0 => 1 \in 1..n
  BY <1>1
<1> QED BY <1>9, <1>10, <1>11, <1>12, <1>13 DEF n

\* The arguments before n with one of some roles
SeenBefore(line, n, roles) == {i \in 1..Len(line) : RoleOf(line)[i] \in roles /\ i < n}

(* They are positions, and all of them in the end. *)
LEMMA SeenPositions ==
  ASSUME NEW S, NEW line \in Seq(S), NEW n, NEW roles
  PROVE  /\ SeenBefore(line, n, roles) \in SUBSET (1..Len(line))
         /\ SeenBefore(line, 1, roles) = {}
         /\ SeenBefore(line, Len(line) + 1, roles) = {i \in DOMAIN RoleOf(line) : RoleOf(line)[i] \in roles}
<1>1. Len(line) \in Nat
  BY LenProperties
<1>2. DOMAIN RoleOf(line) = 1..Len(line)
  BY RoleSteps
<1>3. \A i \in 1..Len(line) : ~(i < 1) /\ i < Len(line) + 1
  BY <1>1
<1> QED BY <1>2, <1>3 DEF SeenBefore

(* A slice of the line, behind others. *)
LEMMA SelectedTail ==
  ASSUME NEW S, NEW line \in Seq(S), NEW k \in 1..Len(line), NEW n \in k..Len(line),
         NEW P \in SUBSET (1..Len(line)), \A i \in P : i < k
  PROVE  Selected(line, P \cup k..n) = Selected(line, P) \o SubSeq(line, k, n)
<1> DEFINE Q == P \cup k..n
           c == Cardinality(P)
           a == Selected(line, P)
           b == SubSeq(line, k, n)
           t == a \o b
<1>0. Len(line) \in Nat /\ \A i \in 1..Len(line) : line[i] \in S
  BY LenProperties
<1>1. n \in Nat /\ k \in Int /\ k >= 1 /\ k <= n /\ n <= Len(line)
  BY <1>0
<1>2. \A i \in 1..n : line[i] \in S
  BY <1>0, <1>1
<1>3. P \in SUBSET (1..n) /\ \A i \in P : i < k /\ i \in Int
  BY <1>1
<1>4. Q \in SUBSET (1..n)
  BY <1>1, <1>3
<1>5. IsFiniteSet(P) /\ c \in Nat
  BY <1>1, <1>3, PositionsFinite
<1>6. \A i \in k..n : IsFiniteSet(k..i) /\ Cardinality(k..i) = i - k + 1 /\ P \cap k..i = {}
  <2> TAKE i \in k..n
  <2>1. IsFiniteSet(k..i) /\ Cardinality(k..i) = i - k + 1
    BY <1>1, FS_Interval
  <2>2. \A j \in P : j \notin k..i
    BY <1>1, <1>3
  <2> QED BY <2>1, <2>2
<1>7. \A i \in k..n : Cardinality(P \cup k..i) = c + (i - k + 1)
  <2> TAKE i \in k..n
  <2>1. IsFiniteSet(k..i) /\ Cardinality(k..i) = i - k + 1 /\ P \cap k..i = {}
    BY <1>6
  <2>2. Cardinality(P \cup k..i) = Cardinality(P) + Cardinality(k..i) - Cardinality(P \cap k..i)
    BY <1>5, <2>1, FS_Union
  <2>3. Cardinality(P \cap k..i) = 0
    BY <2>1, FS_EmptySet
  <2> HIDE DEF c
  <2>4. Cardinality(P \cup k..i) = c + (i - k + 1) - 0
    BY <2>1, <2>2, <2>3 DEF c
  <2> QED BY <1>1, <1>5, <2>4
<1>8. Cardinality(Q) = c + (n - k + 1)
  <2>1. n \in k..n
    BY <1>1
  <2> QED BY <1>7, <2>1
<1>9. a \in Seq(S) /\ Len(a) = c
  BY <1>1, <1>2, <1>3, SelectedType
<1>10. b \in Seq(S) /\ Len(b) = n - k + 1 /\ \A i \in 1..(n - k + 1) : b[i] = line[k + i - 1]
  <2>1. \A i \in k..n : line[i] \in S
    BY <1>1, <1>2
  <2> QED BY <1>1, <2>1, SubSeqProperties
<1> HIDE DEF a, b, c, Q
<1>11. /\ t \in Seq(S) /\ Len(t) = c + (n - k + 1)
       /\ \A i \in 1..(c + (n - k + 1)) : t[i] = IF i <= c THEN a[i] ELSE b[i - c]
  <2>1. /\ t \in Seq(S) /\ Len(t) = Len(a) + Len(b)
        /\ \A i \in 1..(Len(a) + Len(b)) : t[i] = IF i <= Len(a) THEN a[i] ELSE b[i - Len(a)]
    BY <1>9, <1>10, ConcatProperties
  <2> HIDE DEF t
  <2> QED BY <1>9, <1>10, <2>1
<1> HIDE DEF t
<1>12. ASSUME NEW i \in P PROVE t[RankIn(Q, i)] = line[i]
  <2>1. {j \in Q : j <= i} = {j \in P : j <= i}
    <3>1. \A j \in k..n : ~(j <= i)
      BY <1>1, <1>3
    <3> QED BY <3>1 DEF Q
  <2>2. RankIn(Q, i) = RankIn(P, i)
    BY <2>1, Zenon DEF RankIn
  <2>3. RankIn(P, i) \in 1..c /\ a[RankIn(P, i)] = line[i]
    BY <1>1, <1>3, SelectedAt DEF a, c
  <2>4. RankIn(P, i) \in 1..(c + (n - k + 1)) /\ RankIn(P, i) <= c
    BY <1>1, <1>5, <2>3
  <2> QED BY <1>11, <2>2, <2>3, <2>4
<1>13. ASSUME NEW i \in k..n PROVE t[RankIn(Q, i)] = line[i]
  <2>1. {j \in Q : j <= i} = P \cup k..i
    <3>1. \A j \in P : j <= i
      BY <1>1, <1>3
    <3>2. \A j \in k..n : j <= i <=> j \in k..i
      BY <1>1
    <3>3. \A j \in k..i : j \in k..n
      BY <1>1
    <3> QED BY <3>1, <3>2, <3>3 DEF Q
  <2>2. RankIn(Q, i) = c + (i - k + 1)
    BY <1>7, <2>1 DEF RankIn
  <2> DEFINE m == i - k + 1
  <2>3. m \in 1..(n - k + 1) /\ k + m - 1 = i /\ c + m \in 1..(c + (n - k + 1)) /\ ~(c + m <= c) /\ (c + m) - c = m
    BY <1>1, <1>5
  <2> HIDE DEF m
  <2>4. t[c + m] = b[m]
    BY <1>11, <2>3
  <2> QED BY <1>10, <2>2, <2>3, <2>4 DEF m
<1>14. \A i \in Q : t[RankIn(Q, i)] = line[i]
  BY <1>12, <1>13 DEF Q
<1>15. t = Selected(line, Q)
  <2>1. t \in Seq(S) /\ Len(t) = Cardinality(Q)
    BY <1>8, <1>11
  <2> QED BY <1>1, <1>4, <1>14, <2>1, SelectedIs
<1> QED BY <1>15 DEF t, Q, a, b

-----------------------------------------------------------------------------
(* The loop *)

Given == {"groupValue", "groupAttached"}
NameRoles == {"nameValue", "nameAttached"}
Seen(roles) == SeenBefore(args, index, roles)
Taken == [i \in 1..Len(args) |-> ValueOf(i)]

\* The texts that an argument or a flag's value may be
Texts == STRING \cup Tokens \cup {"a", "b", ""}

LoopTypes ==
  /\ args \in Seq(Tokens) /\ environment \in Environments
  /\ identity \in [session : Texts, name : Texts]
  /\ index \in 1..(Len(args) + 1) /\ native \in BOOLEAN /\ projectionError \in {"none", "group", "name"}

\* No flag or option in front of the index waits for the argument there.
IndexFree == index <= Len(args) => Role[index] = FreeRole(args, index)

ForwardedSeen == forwarded = Selected(args, Seen(Kept))
GroupsSeen == groups = Selected(Taken, Seen(Given))
NativeSeen == native <=> \E i \in Seen({"option", "native"}) : args[i] \in Passthrough
FailedSeen ==
  IF Seen({"broken"}) = {} THEN projectionError = "none"
  ELSE \E i \in Seen({"broken"}) :
         (\A j \in Seen({"broken"}) : j <= i) /\ projectionError = Complaint(i)
NameSeen ==
  \/ projectionError # "none"
  \/ /\ Seen(NameRoles) = {} => identity \in Identities
     /\ \A i \in Seen(NameRoles) :
          (\E j \in Seen(NameRoles) : j > i) \/ identity.name = ValueOf(i)

LoopInv ==
  LoopTypes /\ IndexFree /\ ForwardedSeen /\ GroupsSeen /\ NativeSeen /\ FailedSeen /\ NameSeen

\* What has been returned came from the loop as it ended.
Returned ==
  plan.outcome # "none" =>
    \/ path = "" /\ plan = [outcome |-> "error", of |-> "path"]
    \/ /\ path # "" /\ index = Len(args) + 1
       /\ plan = IF native THEN [outcome |-> "native", args |-> args, env |-> environment]
                 ELSE IF projectionError # "none" THEN [outcome |-> "error", of |-> projectionError]
                 ELSE [outcome |-> "plan", args |-> forwarded, env |-> Projected(environment)]

IInv == LoopInv /\ Returned

(* The classes of arguments do not overlap. *)
LEMMA FreeRoleCases ==
  ASSUME NEW line, NEW i, NEW t, t = line[i],
         NEW valued, valued = (i < Len(line) /\ line[i + 1] \notin Blank)
  PROVE  /\ t = EndMark => FreeRole(line, i) = "end"
         /\ t \in GroupFlag => FreeRole(line, i) = IF valued THEN "group" ELSE "broken"
         /\ t \in NameFlag => FreeRole(line, i) = IF valued THEN "name" ELSE "broken"
         /\ t \in DOMAIN GroupAttached =>
              FreeRole(line, i) = IF GroupAttached[t] \in Blank THEN "broken" ELSE "groupAttached"
         /\ t \in DOMAIN NameAttached =>
              FreeRole(line, i) = IF NameAttached[t] \in Blank THEN "broken" ELSE "nameAttached"
         /\ t \notin WrapperFlags \cup {EndMark} =>
              FreeRole(line, i) = IF t \in ConsumesValue THEN "option" ELSE "native"
<1> DEFINE g == IF valued THEN "group" ELSE "broken"
           m == IF valued THEN "name" ELSE "broken"
           ga == IF GroupAttached[t] \in Blank THEN "broken" ELSE "groupAttached"
           na == IF NameAttached[t] \in Blank THEN "broken" ELSE "nameAttached"
           r == FreeRole(line, i)
<1>1. r = CASE t = EndMark -> "end"
            [] t \in GroupFlag -> g
            [] t \in NameFlag -> m
            [] t \in DOMAIN GroupAttached -> ga
            [] t \in DOMAIN NameAttached -> na
            [] t \in ConsumesValue -> "option"
            [] OTHER -> "native"
  BY DEF FreeRole
<1>2. /\ DOMAIN GroupAttached = {"-g=a", "-g="} /\ DOMAIN NameAttached = {"-n=b", "-n="}
      /\ EndMark = "--" /\ GroupFlag = {"-g", "--group"} /\ NameFlag = {"-n", "--peer-name"}
      /\ WrapperFlags = GroupFlag \cup NameFlag \cup DOMAIN GroupAttached \cup DOMAIN NameAttached
  BY DEF GroupAttached, NameAttached, EndMark, GroupFlag, NameFlag, WrapperFlags
<1>0. ConsumesValue \cap (WrapperFlags \cup {EndMark}) = {}
  BY LaunchPlanAssumption
<1> HIDE DEF g, m, ga, na, r
<1>3. t = EndMark => r = "end"
  BY <1>0, <1>1, <1>2
<1>4. t \in GroupFlag => r = g
  BY <1>0, <1>1, <1>2
<1>5. t \in NameFlag => r = m
  BY <1>0, <1>1, <1>2
<1>6. t \in DOMAIN GroupAttached => r = ga
  BY <1>0, <1>1, <1>2
<1>7. t \in DOMAIN NameAttached => r = na
  BY <1>0, <1>1, <1>2
<1>8. t \notin WrapperFlags \cup {EndMark} => r = IF t \in ConsumesValue THEN "option" ELSE "native"
  BY <1>0, <1>1, <1>2
<1> QED BY <1>3, <1>4, <1>5, <1>6, <1>7, <1>8 DEF g, m, ga, na, r

(* The role of the argument at the index. *)
LEMMA RoleHere ==
  ASSUME LoopInv, Looping
  PROVE  /\ index \in 1..Len(args) /\ args[index] \in Texts
         /\ Argument = EndMark => Role[index] = "end"
         /\ Argument \in GroupFlag => Role[index] = IF HasValue THEN "group" ELSE "broken"
         /\ Argument \in NameFlag => Role[index] = IF HasValue THEN "name" ELSE "broken"
         /\ Argument \in DOMAIN GroupAttached =>
              Role[index] = IF GroupAttached[Argument] \in Blank THEN "broken" ELSE "groupAttached"
         /\ Argument \in DOMAIN NameAttached =>
              Role[index] = IF NameAttached[Argument] \in Blank THEN "broken" ELSE "nameAttached"
         /\ Argument \notin WrapperFlags \cup {EndMark} =>
              Role[index] = IF Argument \in ConsumesValue THEN "option" ELSE "native"
<1>1. index \in 1..Len(args) /\ Role[index] = FreeRole(args, index)
  BY LenProperties DEF LoopInv, LoopTypes, IndexFree, Looping
<1>2. args[index] \in Texts
  BY <1>1, LenProperties, ZenonT(60) DEF LoopInv, LoopTypes, Texts
<1>3. HasValue \in BOOLEAN /\ HasValue = (index < Len(args) /\ args[index + 1] \notin Blank)
  BY DEF HasValue
<1> QED BY <1>1, <1>2, <1>3, FreeRoleCases DEF Argument

(* What the loop has seen when it is past argument n. *)
LEMMA Span ==
  ASSUME LoopInv, Looping, NEW n \in index..Len(args), args' = args, index' = n + 1, NEW roles
  PROVE  /\ (\A i \in index..n : Role[i] \in roles) => Seen(roles)' = Seen(roles) \cup index..n
         /\ (\A i \in index..n : Role[i] \notin roles) => Seen(roles)' = Seen(roles)
<1>1. Len(args) \in Nat /\ index \in 1..Len(args)
  BY LenProperties DEF LoopInv, LoopTypes, Looping
<1>2. \A i \in 1..Len(args) : i < n + 1 <=> i < index \/ i \in index..n
  BY <1>1
<1>3. \A i \in index..n : i \in 1..Len(args)
  BY <1>1
<1>4. Seen(roles)' = {i \in 1..Len(args) : Role[i] \in roles /\ (i < index \/ i \in index..n)}
  BY <1>2 DEF Seen, SeenBefore, Role
<1>5. Seen(roles) = {i \in 1..Len(args) : Role[i] \in roles /\ i < index}
  BY DEF Seen, SeenBefore, Role
<1> QED BY <1>3, <1>4, <1>5

(* The argument after one that leaves it free is read like the first. *)
LEMMA FreeAfter ==
  ASSUME LoopInv, NEW n \in 1..Len(args), args' = args, index' = n + 1,
         n = Len(args) \/ Role[n] \notin {"end", "rest", "group", "name", "option"}
  PROVE  IndexFree' /\ index' \in 1..(Len(args) + 1)
<1>1. args \in Seq(Tokens) /\ Len(args) \in Nat
  BY LenProperties DEF LoopInv, LoopTypes
<1>2. index' \in 1..(Len(args) + 1)
  BY <1>1
<1>3. ASSUME n + 1 <= Len(args) PROVE Role[n + 1] = FreeRole(args, n + 1)
  <2>1. n + 1 \in 2..Len(args) /\ (n + 1) - 1 = n /\ n # Len(args)
    BY <1>1, <1>3
  <2>2. Role[n + 1] = RoleAfter(args, Role[n], n + 1)
    BY <1>1, <2>1, RoleSteps DEF Role
  <2> QED BY <2>1, <2>2 DEF RoleAfter
<1> QED BY <1>2, <1>3 DEF IndexFree, Role

(* The value of a flag or option is taken with it. *)
LEMMA RoleNext ==
  ASSUME LoopInv, index \in 1..Len(args), index < Len(args)
  PROVE  /\ index + 1 \in index..Len(args) /\ index + 1 \in 1..Len(args)
         /\ index..(index + 1) = {index, index + 1}
         /\ Role[index] = "group" => Role[index + 1] = "groupValue"
         /\ Role[index] = "name" => Role[index + 1] = "nameValue"
         /\ Role[index] = "option" => Role[index + 1] = "optionValue"
<1>1. args \in Seq(Tokens) /\ Len(args) \in Nat
  BY LenProperties DEF LoopInv, LoopTypes
<1>2. index + 1 \in index..Len(args) /\ index + 1 \in 1..Len(args) /\ index + 1 \in 2..Len(args)
      /\ (index + 1) - 1 = index
  BY <1>1
<1>3. index..(index + 1) = {index, index + 1}
  BY <1>1
<1>4. Role[index + 1] = RoleAfter(args, Role[index], index + 1)
  BY <1>1, <1>2, RoleSteps DEF Role
<1> QED BY <1>2, <1>3, <1>4 DEF RoleAfter

(* What an argument says is a text, and does not change. *)
LEMMA ValueType ==
  ASSUME LoopInv
  PROVE  \A i \in 1..Len(args) : ValueOf(i) \in Texts /\ Taken[i] = ValueOf(i) /\ args[i] \in Tokens
<1> SUFFICES ASSUME NEW i \in 1..Len(args)
             PROVE  ValueOf(i) \in Texts /\ Taken[i] = ValueOf(i) /\ args[i] \in Tokens
  OBVIOUS
<1>1. args[i] \in Tokens /\ args[i] \in Texts /\ args \in Seq(Tokens)
  BY LenProperties DEF LoopInv, LoopTypes, Texts
<1>2. Role[i] = FreeRole(args, i) \/ Role[i] \notin {"groupAttached", "nameAttached"}
  <2>1. CASE i = 1
    BY <1>1, <2>1, RoleSteps DEF Role
  <2>2. CASE i # 1
    <3>1. i \in 2..Len(args)
      BY <2>2
    <3>2. Role[i] = RoleAfter(args, Role[i - 1], i)
      BY <1>1, <3>1, RoleSteps DEF Role
    <3> QED BY <3>2 DEF RoleAfter
  <2> QED BY <2>1, <2>2
<1>3. Role[i] = "groupAttached" => args[i] \in DOMAIN GroupAttached
  BY <1>2 DEF FreeRole
<1>4. Role[i] = "nameAttached" => args[i] \in DOMAIN NameAttached
  BY <1>2 DEF FreeRole
<1>5. "a" \in Texts /\ "b" \in Texts /\ "" \in Texts
  BY DEF Texts
<1>6. /\ \A t \in DOMAIN GroupAttached : GroupAttached[t] \in {"a", ""}
      /\ \A t \in DOMAIN NameAttached : NameAttached[t] \in {"b", ""}
  BY DEF GroupAttached, NameAttached
<1>7. ValueOf(i) \in Texts
  BY <1>1, <1>3, <1>4, <1>5, <1>6 DEF ValueOf
<1>8. Taken[i] = ValueOf(i)
  BY DEF Taken
<1> QED BY <1>1, <1>7, <1>8

(* One argument more has been seen. *)
LEMMA OneMore ==
  ASSUME LoopInv, Looping, args' = args, index' = index + 1, NEW roles
  PROVE  /\ Role[index] \in roles => Seen(roles)' = Seen(roles) \cup {index}
         /\ Role[index] \notin roles => Seen(roles)' = Seen(roles)
<1>1. Len(args) \in Nat /\ index \in 1..Len(args)
  BY LenProperties DEF LoopInv, LoopTypes, Looping
<1>2. index \in index..Len(args) /\ index..index = {index}
  BY <1>1
<1>3. /\ (\A i \in {index} : Role[i] \in roles) => Seen(roles)' = Seen(roles) \cup {index}
      /\ (\A i \in {index} : Role[i] \notin roles) => Seen(roles)' = Seen(roles)
  BY <1>2, Span
<1> QED BY <1>3

(* An argument and its value have been seen. *)
LEMMA TwoMore ==
  ASSUME LoopInv, Looping, index < Len(args), args' = args, index' = index + 2, NEW roles
  PROVE  /\ Role[index] \in roles /\ Role[index + 1] \in roles =>
              Seen(roles)' = Seen(roles) \cup index..(index + 1)
         /\ Role[index] \notin roles /\ Role[index + 1] \notin roles => Seen(roles)' = Seen(roles)
         /\ Role[index] \notin roles /\ Role[index + 1] \in roles =>
              Seen(roles)' = Seen(roles) \cup {index + 1}
<1>1. Len(args) \in Nat /\ index \in 1..Len(args)
  BY LenProperties DEF LoopInv, LoopTypes, Looping
<1>2. \A i \in 1..Len(args) : i < index + 2 <=> i < index \/ i \in {index, index + 1}
  BY <1>1
<1>3. index + 1 \in 1..Len(args) /\ index..(index + 1) = {index, index + 1}
  BY <1>1
<1>4. Seen(roles)' = {i \in 1..Len(args) : Role[i] \in roles
                                          /\ (i < index \/ i \in {index, index + 1})}
  BY <1>2 DEF Seen, SeenBefore, Role
<1>5. Seen(roles) = {i \in 1..Len(args) : Role[i] \in roles /\ i < index}
  BY DEF Seen, SeenBefore, Role
<1> QED BY <1>1, <1>3, <1>4, <1>5

(* What has been seen is in front of the index. *)
LEMMA SeenInFront ==
  ASSUME LoopInv, NEW roles
  PROVE  Seen(roles) \in SUBSET (1..Len(args)) /\ \A i \in Seen(roles) : i < index
BY DEF Seen, SeenBefore

(* What an argument says does not change. *)
LEMMA ValuesStay ==
  ASSUME args' = args
  PROVE  Taken' = Taken /\ \A i : ValueOf(i)' = ValueOf(i)
BY DEF Taken, ValueOf, Role

(* Seeing nothing of a kind and taking nothing of it go together. *)
LEMMA NothingTaken ==
  ASSUME LoopInv, args' = args
  PROVE  /\ Seen(Kept)' = Seen(Kept) /\ forwarded' = forwarded => ForwardedSeen'
         /\ Seen(Given)' = Seen(Given) /\ groups' = groups => GroupsSeen'
         /\ Seen({"option", "native"})' = Seen({"option", "native"}) /\ native' = native => NativeSeen'
         /\ Seen({"broken"})' = Seen({"broken"}) /\ projectionError' = projectionError => FailedSeen'
         /\ Seen(NameRoles)' = Seen(NameRoles) /\ identity' = identity /\ (projectionError # "none" => projectionError' # "none")
              => NameSeen'
<1>1. Taken' = Taken /\ \A i : ValueOf(i)' = ValueOf(i)
  BY ValuesStay
<1>2. Seen(Kept)' = Seen(Kept) /\ forwarded' = forwarded => ForwardedSeen'
  BY DEF LoopInv, ForwardedSeen
<1>3. Seen(Given)' = Seen(Given) /\ groups' = groups => GroupsSeen'
  BY <1>1 DEF LoopInv, GroupsSeen
<1>4. Seen({"option", "native"})' = Seen({"option", "native"}) /\ native' = native => NativeSeen'
  BY DEF LoopInv, NativeSeen
<1>5. Seen({"broken"})' = Seen({"broken"}) /\ projectionError' = projectionError => FailedSeen'
  BY DEF LoopInv, FailedSeen, Complaint
<1>6. Seen(NameRoles)' = Seen(NameRoles) /\ identity' = identity /\ (projectionError # "none" => projectionError' # "none")
              => NameSeen'
  BY <1>1 DEF LoopInv, NameSeen
<1> QED BY <1>2, <1>3, <1>4, <1>5, <1>6

(* One group more. *)
LEMMA GroupNext ==
  ASSUME LoopInv, NEW i \in 1..Len(args), index <= i
  PROVE  Selected(Taken, Seen(Given) \cup {i}) = Extended(Selected(Taken, Seen(Given)), ValueOf(i))
<1> DEFINE P == Seen(Given)
           n == Len(args)
           v == Taken
<1>1. n \in Nat /\ index \in Int /\ i \in Int
  BY LenProperties DEF LoopInv, LoopTypes
<1>2. P \in SUBSET (1..n) /\ \A j \in P : j < index
  BY SeenInFront
<1>3. \A j \in 1..n : v[j] \in Texts /\ v[j] = ValueOf(j)
  BY ValueType
<1>4. i \in 1..n
  OBVIOUS
<1> HIDE DEF P, n, v
<1>5. \A j \in P : v[j] \in Texts /\ j < i
  BY <1>1, <1>2, <1>3
<1>6. v[i] \in Texts /\ v[i] = ValueOf(i)
  BY <1>3, <1>4
<1>7. Selected(v, P \cup {i}) = Append(Selected(v, P), v[i])
  BY <1>1, <1>2, <1>4, <1>5, <1>6, SelectedAppend, ZenonT(60)
<1> QED BY <1>6, <1>7 DEF P, v, Extended

(* Seeing a group and taking it. *)
LEMMA GroupTaken ==
  ASSUME LoopInv, args' = args, NEW i \in 1..Len(args), index <= i,
         Seen(Given)' = Seen(Given) \cup {i}, groups' = Append(groups, ValueOf(i))
  PROVE  GroupsSeen'
<1>1. groups = Selected(Taken, Seen(Given))
  BY DEF LoopInv, GroupsSeen
<1>2. groups' = Extended(groups, ValueOf(i))
  BY DEF Extended
<1>3. groups' = Selected(Taken, Seen(Given)')
  BY <1>1, <1>2, GroupNext
<1> QED BY <1>3, ValuesStay DEF GroupsSeen

(* Seeing a name and taking it, or failing by it. *)
LEMMA NameTaken ==
  ASSUME LoopInv, args' = args, NEW i \in 1..Len(args), index <= i,
         Seen(NameRoles)' = Seen(NameRoles) \cup {i},
         identity' = [identity EXCEPT !.name = ValueOf(i)]
  PROVE  NameSeen'
<1>1. Len(args) \in Nat /\ index \in Int /\ i \in Int
  BY LenProperties DEF LoopInv, LoopTypes
<1>2. \A j \in Seen(NameRoles) : j \in 1..Len(args) /\ j < index
  BY SeenInFront
<1>3. \A j \in Seen(NameRoles) : i > j
  BY <1>1, <1>2
<1>4. identity'.name = ValueOf(i)
  BY DEF LoopInv, LoopTypes
<1>5. \A j : ValueOf(j)' = ValueOf(j)
  BY ValuesStay
<1> QED BY <1>3, <1>4, <1>5 DEF NameSeen

(* Forwarding a slice of the native command line. *)
LEMMA SliceForwarded ==
  ASSUME LoopInv, Looping, args' = args, NEW n \in index..Len(args),
         Seen(Kept)' = Seen(Kept) \cup index..n, forwarded' = forwarded \o SubSeq(args, index, n)
  PROVE  ForwardedSeen'
<1> DEFINE P == Seen(Kept)
<1>1. args \in Seq(Tokens) /\ index \in 1..Len(args)
  BY LenProperties DEF LoopInv, LoopTypes, Looping
<1>2. P \in SUBSET (1..Len(args)) /\ \A i \in P : i < index
  BY SeenInFront
<1>3. forwarded = Selected(args, P)
  BY DEF LoopInv, ForwardedSeen
<1> HIDE DEF P
<1>4. Selected(args, P \cup index..n) = Selected(args, P) \o SubSeq(args, index, n)
  BY <1>1, <1>2, SelectedTail
<1> QED BY <1>3, <1>4 DEF P, ForwardedSeen

(* "--": the rest of the line is native. *)
LEMMA EndOfOptionsKeeps ==
  ASSUME LoopInv, EndOfOptions
  PROVE  LoopInv'
<1> DEFINE n == Len(args)
<1>1. /\ Looping /\ Role[index] = "end" /\ index \in 1..n /\ n \in index..n /\ n \in 1..n
      /\ args \in Seq(Tokens) /\ n \in Nat
  BY RoleHere, LenProperties DEF LoopInv, LoopTypes, EndOfOptions
<1>2. /\ args' = args /\ index' = n + 1 /\ forwarded' = forwarded \o SubSeq(args, index, n)
      /\ UNCHANGED <<environment, identity, groups, native, projectionError>>
  BY DEF EndOfOptions
<1>3. \A i \in index..n : Role[i] \in {"end", "rest"}
  <2> DEFINE T == {i \in index..n : Role[i] \notin {"end", "rest"}}
  <2> SUFFICES ASSUME T # {} PROVE FALSE
    OBVIOUS
  <2>1. T \in SUBSET Nat
    BY <1>1
  <2>2. PICK m \in T : \A k \in T : m <= k
    <3> HIDE DEF T
    <3> QED BY <2>1, LeastNumber
  <2>3. m # index
    BY <1>1
  <2>4. m \in 2..n /\ m - 1 \in index..n /\ ~(m <= m - 1)
    BY <1>1, <2>3
  <2>5. Role[m - 1] \in {"end", "rest"}
    BY <2>2, <2>4
  <2>6. Role[m] = RoleAfter(args, Role[m - 1], m)
    BY <1>1, <2>4, RoleSteps DEF Role
  <2>7. Role[m] = "rest"
    BY <2>5, <2>6 DEF RoleAfter
  <2> QED BY <2>7
<1> HIDE DEF n
<1>4. Seen(Kept)' = Seen(Kept) \cup index..n
  BY <1>1, <1>2, <1>3, Span DEF Kept, n
<1>5. /\ Seen(Given)' = Seen(Given) /\ Seen({"option", "native"})' = Seen({"option", "native"})
      /\ Seen({"broken"})' = Seen({"broken"}) /\ Seen(NameRoles)' = Seen(NameRoles)
  BY <1>1, <1>2, <1>3, Span DEF Given, NameRoles, n
<1>6. ForwardedSeen'
  BY <1>1, <1>2, <1>4, SliceForwarded DEF n
<1>7. GroupsSeen' /\ NativeSeen' /\ FailedSeen' /\ NameSeen'
  BY <1>2, <1>5, NothingTaken
<1>8. IndexFree' /\ index' \in 1..(Len(args) + 1)
  BY <1>1, <1>2, FreeAfter DEF n
<1>9. LoopTypes'
  BY <1>2, <1>8 DEF LoopInv, LoopTypes
<1> QED BY <1>6, <1>7, <1>8, <1>9 DEF LoopInv

(* A flag without a value: the invocation fails unless it is native. *)
LEMMA BrokenKeeps ==
  ASSUME LoopInv, Looping, Role[index] = "broken", args' = args, index' = index + 1,
         projectionError' = Complaint(index),
         UNCHANGED <<environment, forwarded, groups, native>>,
         identity' \in [session : Texts, name : Texts]
  PROVE  LoopInv'
<1>1. index \in 1..Len(args)
  BY RoleHere
<1>2. /\ Seen(Given)' = Seen(Given) /\ Seen({"option", "native"})' = Seen({"option", "native"})
      /\ Seen(Kept)' = Seen(Kept) /\ Seen({"broken"})' = Seen({"broken"}) \cup {index}
  BY OneMore DEF Given, Kept
<1>3. ForwardedSeen' /\ GroupsSeen' /\ NativeSeen'
  BY <1>2, NothingTaken
<1>4. FailedSeen' /\ NameSeen'
  <2>1. \A j \in Seen({"broken"}) : j \in 1..Len(args) /\ j < index
    BY SeenInFront
  <2>2. \A j \in Seen({"broken"})' : j <= index
    BY <1>1, <1>2, <2>1
  <2>3. Complaint(index) # "none"
    BY DEF Complaint
  <2>4. index \in Seen({"broken"})' /\ projectionError' = Complaint(index)
    BY <1>2
  <2>5. \A i : Complaint(i)' = Complaint(i)
    BY DEF Complaint
  <2> QED BY <2>2, <2>3, <2>4, <2>5 DEF FailedSeen, NameSeen
<1>5. IndexFree' /\ index' \in 1..(Len(args) + 1)
  BY <1>1, FreeAfter
<1>6. LoopTypes'
  BY <1>5 DEF LoopInv, LoopTypes, Complaint
<1> QED BY <1>3, <1>4, <1>5, <1>6 DEF LoopInv

(* "-g". *)
LEMMA TakeGroupKeeps ==
  ASSUME LoopInv, TakeGroup
  PROVE  LoopInv'
<1>1. /\ Looping /\ Role[index] = (IF HasValue THEN "group" ELSE "broken") /\ index \in 1..Len(args)
      /\ args' = args /\ UNCHANGED <<environment, identity, forwarded, native>>
  BY RoleHere DEF TakeGroup
<1>2. CASE ~HasValue
  <2>1. Role[index] = "broken" /\ projectionError' = Complaint(index) /\ index' = index + 1 /\ groups' = groups
    BY <1>1, <1>2 DEF TakeGroup, Argument, Complaint
  <2>2. identity' \in [session : Texts, name : Texts]
    BY <1>1 DEF LoopInv, LoopTypes
  <2> QED BY <1>1, <2>1, <2>2, BrokenKeeps
<1>3. CASE HasValue
  <2>1. /\ Role[index] = "group" /\ projectionError' = projectionError /\ index' = index + 2
        /\ groups' = Append(groups, args[index + 1]) /\ index < Len(args)
    BY <1>1, <1>3 DEF TakeGroup, HasValue
  <2>2. Role[index + 1] = "groupValue" /\ index + 1 \in 1..Len(args)
    BY <1>1, <2>1, RoleNext
  <2>3. /\ Seen(Kept)' = Seen(Kept) /\ Seen({"option", "native"})' = Seen({"option", "native"})
        /\ Seen({"broken"})' = Seen({"broken"}) /\ Seen(NameRoles)' = Seen(NameRoles)
        /\ Seen(Given)' = Seen(Given) \cup {index + 1}
    BY <1>1, <2>1, <2>2, TwoMore DEF Kept, NameRoles, Given
  <2>4. ForwardedSeen' /\ NativeSeen' /\ FailedSeen' /\ NameSeen'
    BY <1>1, <2>1, <2>3, NothingTaken
  <2>5. index \in Int /\ index <= index + 1 /\ index' = (index + 1) + 1
    BY <1>1, <2>1
  <2>6. groups' = Append(groups, ValueOf(index + 1))
    BY <2>1, <2>2 DEF ValueOf
  <2>7. GroupsSeen'
    BY <1>1, <2>2, <2>3, <2>5, <2>6, GroupTaken
  <2>8. IndexFree' /\ index' \in 1..(Len(args) + 1)
    BY <1>1, <2>2, <2>5, FreeAfter
  <2>9. LoopTypes'
    BY <1>1, <2>1, <2>8 DEF LoopInv, LoopTypes
  <2> QED BY <2>4, <2>7, <2>8, <2>9 DEF LoopInv
<1> QED BY <1>2, <1>3

(* "-g=...". *)
LEMMA TakeGroupAttachedKeeps ==
  ASSUME LoopInv, TakeGroupAttached
  PROVE  LoopInv'
<1> DEFINE blank == GroupAttached[Argument] \in Blank
<1>1. /\ Looping /\ Role[index] = (IF blank THEN "broken" ELSE "groupAttached") /\ index \in 1..Len(args)
      /\ args' = args /\ index' = index + 1 /\ UNCHANGED <<environment, identity, forwarded, native>>
  BY RoleHere DEF TakeGroupAttached
<1>2. identity' \in [session : Texts, name : Texts]
  BY <1>1 DEF LoopInv, LoopTypes
<1>3. CASE blank
  <2>1. Role[index] = "broken" /\ projectionError' = Complaint(index) /\ groups' = groups
    BY <1>1, <1>3 DEF TakeGroupAttached, Argument, Complaint
  <2> QED BY <1>1, <1>2, <2>1, BrokenKeeps
<1>4. CASE ~blank
  <2>1. /\ Role[index] = "groupAttached" /\ projectionError' = projectionError
        /\ groups' = Append(groups, GroupAttached[args[index]])
    BY <1>1, <1>4 DEF TakeGroupAttached, Argument
  <2>2. /\ Seen(Kept)' = Seen(Kept) /\ Seen({"option", "native"})' = Seen({"option", "native"})
        /\ Seen({"broken"})' = Seen({"broken"}) /\ Seen(NameRoles)' = Seen(NameRoles)
        /\ Seen(Given)' = Seen(Given) \cup {index}
    BY <1>1, <2>1, OneMore DEF Kept, NameRoles, Given
  <2>3. ForwardedSeen' /\ NativeSeen' /\ FailedSeen' /\ NameSeen'
    BY <1>1, <2>1, <2>2, NothingTaken
  <2>4. groups' = Append(groups, ValueOf(index))
    BY <2>1 DEF ValueOf
  <2>5. index <= index
    BY <1>1
  <2>6. GroupsSeen'
    BY <1>1, <2>2, <2>4, <2>5, GroupTaken
  <2>7. IndexFree' /\ index' \in 1..(Len(args) + 1)
    BY <1>1, <2>1, FreeAfter
  <2>8. LoopTypes'
    BY <1>1, <2>1, <2>7 DEF LoopInv, LoopTypes
  <2> QED BY <2>3, <2>6, <2>7, <2>8 DEF LoopInv
<1> QED BY <1>3, <1>4

(* "-n". *)
LEMMA TakeNameKeeps ==
  ASSUME LoopInv, TakeName
  PROVE  LoopInv'
<1>1. /\ Looping /\ Role[index] = (IF HasValue THEN "name" ELSE "broken") /\ index \in 1..Len(args)
      /\ args' = args /\ UNCHANGED <<environment, forwarded, groups, native>>
  BY RoleHere DEF TakeName
<1>2. CASE ~HasValue
  <2>1. Role[index] = "broken" /\ projectionError' = Complaint(index) /\ index' = index + 1 /\ identity' = identity
    BY <1>1, <1>2 DEF TakeName, Argument, Complaint, NameFlag, GroupFlag, GroupAttached
  <2>2. identity' \in [session : Texts, name : Texts]
    BY <2>1 DEF LoopInv, LoopTypes
  <2> QED BY <1>1, <2>1, <2>2, BrokenKeeps
<1>3. CASE HasValue
  <2>1. /\ Role[index] = "name" /\ projectionError' = projectionError /\ index' = index + 2
        /\ identity' = [identity EXCEPT !.name = args[index + 1]] /\ index < Len(args)
    BY <1>1, <1>3 DEF TakeName, HasValue
  <2>2. Role[index + 1] = "nameValue" /\ index + 1 \in 1..Len(args)
    BY <1>1, <2>1, RoleNext
  <2>3. /\ Seen(Kept)' = Seen(Kept) /\ Seen({"option", "native"})' = Seen({"option", "native"})
        /\ Seen({"broken"})' = Seen({"broken"}) /\ Seen(Given)' = Seen(Given)
        /\ Seen(NameRoles)' = Seen(NameRoles) \cup {index + 1}
    BY <1>1, <2>1, <2>2, TwoMore DEF Kept, NameRoles, Given
  <2>4. ForwardedSeen' /\ NativeSeen' /\ FailedSeen' /\ GroupsSeen'
    BY <1>1, <2>1, <2>3, NothingTaken
  <2>5. index \in Int /\ index <= index + 1 /\ index' = (index + 1) + 1
    BY <1>1, <2>1
  <2>6. identity' = [identity EXCEPT !.name = ValueOf(index + 1)]
    BY <2>1, <2>2 DEF ValueOf
  <2>7. NameSeen'
    BY <1>1, <2>2, <2>3, <2>5, <2>6, NameTaken
  <2>8. IndexFree' /\ index' \in 1..(Len(args) + 1)
    BY <1>1, <2>2, <2>5, FreeAfter
  <2>9. identity' \in [session : Texts, name : Texts]
    BY <2>2, <2>6, ValueType DEF LoopInv, LoopTypes
  <2>10. LoopTypes'
    BY <1>1, <2>1, <2>8, <2>9 DEF LoopInv, LoopTypes
  <2> QED BY <2>4, <2>7, <2>8, <2>10 DEF LoopInv
<1> QED BY <1>2, <1>3

(* "-n=...". *)
LEMMA TakeNameAttachedKeeps ==
  ASSUME LoopInv, TakeNameAttached
  PROVE  LoopInv'
<1> DEFINE blank == NameAttached[Argument] \in Blank
<1>1. /\ Looping /\ Role[index] = (IF blank THEN "broken" ELSE "nameAttached") /\ index \in 1..Len(args)
      /\ args' = args /\ index' = index + 1 /\ UNCHANGED <<environment, forwarded, groups, native>>
      /\ identity' = [identity EXCEPT !.name = NameAttached[args[index]]]
      /\ Argument \in DOMAIN NameAttached
  BY RoleHere DEF TakeNameAttached, Argument
<1>2. identity' \in [session : Texts, name : Texts]
  <2>1. \A t \in DOMAIN NameAttached : NameAttached[t] \in {"b", ""}
    BY DEF NameAttached
  <2>2. "b" \in Texts /\ "" \in Texts
    BY DEF Texts
  <2>3. NameAttached[args[index]] \in Texts
    BY <1>1, <2>1, <2>2 DEF Argument
  <2> QED BY <1>1, <2>3 DEF LoopInv, LoopTypes
<1>3. CASE blank
  <2>1. Role[index] = "broken" /\ projectionError' = Complaint(index)
    BY <1>1, <1>3 DEF TakeNameAttached, Argument, Complaint, NameAttached, GroupFlag, GroupAttached
  <2> QED BY <1>1, <1>2, <2>1, BrokenKeeps
<1>4. CASE ~blank
  <2>1. Role[index] = "nameAttached" /\ projectionError' = projectionError
    BY <1>1, <1>4 DEF TakeNameAttached
  <2>2. /\ Seen(Kept)' = Seen(Kept) /\ Seen({"option", "native"})' = Seen({"option", "native"})
        /\ Seen({"broken"})' = Seen({"broken"}) /\ Seen(Given)' = Seen(Given)
        /\ Seen(NameRoles)' = Seen(NameRoles) \cup {index}
    BY <1>1, <2>1, OneMore DEF Kept, NameRoles, Given
  <2>3. ForwardedSeen' /\ NativeSeen' /\ FailedSeen' /\ GroupsSeen'
    BY <1>1, <2>1, <2>2, NothingTaken
  <2>4. identity' = [identity EXCEPT !.name = ValueOf(index)]
    BY <1>1, <2>1 DEF ValueOf
  <2>5. index <= index
    BY <1>1
  <2>6. NameSeen'
    BY <1>1, <2>2, <2>4, <2>5, NameTaken
  <2>7. IndexFree' /\ index' \in 1..(Len(args) + 1)
    BY <1>1, <2>1, FreeAfter
  <2>8. LoopTypes'
    BY <1>1, <1>2, <2>1, <2>7 DEF LoopInv, LoopTypes
  <2> QED BY <2>3, <2>6, <2>7, <2>8 DEF LoopInv
<1> QED BY <1>3, <1>4

(* A native argument, with the value it consumes. *)
LEMMA ForwardKeeps ==
  ASSUME LoopInv, Forward
  PROVE  LoopInv'
<1>1. /\ Looping /\ index \in 1..Len(args) /\ Len(args) \in Nat
      /\ Role[index] = (IF Argument \in ConsumesValue THEN "option" ELSE "native")
      /\ args' = args /\ UNCHANGED <<environment, identity, groups, projectionError>>
      /\ native' = (native \/ args[index] \in Passthrough)
      /\ forwarded' = forwarded \o SubSeq(args, index, LastForwarded) /\ index' = LastForwarded + 1
  BY RoleHere, LenProperties DEF LoopInv, LoopTypes, Forward, Argument
<1>a. index \in Int /\ Len(args) \in Int /\ index <= Len(args)
  BY <1>1
<1> DEFINE n == LastForwarded
<1>2. \/ n = index /\ index' = index + 1 /\ (Role[index] = "native" \/ index = Len(args))
      \/ /\ n = index + 1 /\ index' = index + 2 /\ index < Len(args)
         /\ Role[index] = "option" /\ Role[index + 1] = "optionValue"
  <2>1. CASE Argument \in ConsumesValue /\ index < Len(args)
    <3>1. n = index + 1 /\ Role[index] = "option"
      BY <1>1, <2>1 DEF LastForwarded
    <3>2. Role[index + 1] = "optionValue"
      BY <1>1, <2>1, <3>1, RoleNext
    <3>3. index' = index + 2
      BY <1>1, <3>1
    <3> QED BY <2>1, <3>1, <3>2, <3>3
  <2>2. CASE ~(Argument \in ConsumesValue /\ index < Len(args))
    <3>1. n = index
      BY <2>2 DEF LastForwarded
    <3>2. Role[index] = "native" \/ index = Len(args)
      <4>1. CASE Argument \notin ConsumesValue
        BY <1>1, <4>1, Zenon
      <4>2. CASE ~(index < Len(args))
        <5>1. index = Len(args)
          <6>1. \A i, l \in Int : i <= l /\ ~(i < l) => i = l
            OBVIOUS
          <6> QED BY <1>a, <4>2, <6>1, Zenon
        <5> QED BY <5>1
      <4> QED BY <2>2, <4>1, <4>2, Zenon
    <3> QED BY <1>1, <3>1, <3>2
  <2> QED BY <2>1, <2>2
<1>3. n \in index..Len(args) /\ n \in 1..Len(args)
  BY <1>1, <1>2
<1> HIDE DEF n
<1>4. \A i \in index..n : Role[i] \in {"option", "native", "optionValue"}
  BY <1>1, <1>2
<1>5. Seen(Kept)' = Seen(Kept) \cup index..n
  BY <1>1, <1>3, <1>4, Span DEF Kept, n
<1>6. /\ Seen(Given)' = Seen(Given) /\ Seen({"broken"})' = Seen({"broken"})
      /\ Seen(NameRoles)' = Seen(NameRoles)
  BY <1>1, <1>3, <1>4, Span DEF Given, NameRoles, n
<1>7. Seen({"option", "native"})' = Seen({"option", "native"}) \cup {index}
  <2>1. CASE n = index
    BY <1>1, <1>2, <2>1, OneMore
  <2>2. CASE n # index
    <3>1. {i \in 1..Len(args) : Role[i] \in {"option", "native"} /\ i < index + 2}
            = {i \in 1..Len(args) : Role[i] \in {"option", "native"} /\ i < index} \cup {index}
      <4>1. \A i \in 1..Len(args) : i < index + 2 <=> i < index \/ i = index \/ i = index + 1
        BY <1>1
      <4> QED BY <1>1, <1>2, <2>2, <4>1
    <3>2. args' = args /\ index' = index + 2
      BY <1>1, <1>2, <2>2
    <3> QED BY <3>1, <3>2 DEF Seen, SeenBefore, Role
  <2> QED BY <2>1, <2>2
<1>8. ForwardedSeen'
  BY <1>1, <1>3, <1>5, SliceForwarded DEF n
<1>9. GroupsSeen' /\ FailedSeen' /\ NameSeen'
  BY <1>1, <1>6, NothingTaken
<1>10. NativeSeen'
  BY <1>1, <1>7 DEF LoopInv, NativeSeen
<1>11. IndexFree' /\ index' \in 1..(Len(args) + 1)
  <2>1. n = Len(args) \/ Role[n] \notin {"end", "rest", "group", "name", "option"}
    BY <1>1, <1>2
  <2> QED BY <1>1, <1>3, <2>1, FreeAfter DEF n
<1>12. LoopTypes'
  BY <1>1, <1>11 DEF LoopInv, LoopTypes
<1> QED BY <1>8, <1>9, <1>10, <1>11, <1>12 DEF LoopInv

(* Nothing has been seen when the loop starts. *)
LEMMA InitIInv == Init => IInv
<1> SUFFICES ASSUME Init PROVE IInv
  OBVIOUS
<1>1. args \in Seq(Tokens) /\ Len(args) \in Nat
  <2>1. \E n \in 0..MaxArgs : args \in [1..n -> Tokens]
    BY DEF Init, SeqOf
  <2>2. PICK n \in 0..MaxArgs : args \in [1..n -> Tokens]
    BY <2>1
  <2>3. n \in Nat
    <3>1. MaxArgs \in Nat
      BY LaunchPlanAssumption
    <3> QED BY <2>2, <3>1
  <2>4. args \in Seq(Tokens)
    BY <2>2, <2>3, SeqDef
  <2> QED BY <2>4, LenProperties
<1>a. index = 1
  BY DEF Init
<1>2. \A roles : Seen(roles) = {}
  <2>1. \A i \in 1..Len(args) : ~(i < index)
    BY <1>1, <1>a
  <2> QED BY <2>1 DEF Seen, SeenBefore
<1>3. LoopTypes
  <2>1. identity \in [session : Texts, name : Texts]
    BY LaunchPlanAssumption DEF Init, Texts
  <2>2. 1 \in 1..(Len(args) + 1)
    BY <1>1
  <2>3. environment \in Environments /\ index = 1 /\ native = FALSE /\ projectionError = "none"
    BY DEF Init
  <2> QED BY <1>1, <2>1, <2>2, <2>3 DEF LoopTypes
<1>4. IndexFree
  BY <1>1, <1>a, RoleSteps DEF IndexFree, Role
<1>5. Selected(args, {}) = <<>> /\ Selected(Taken, {}) = <<>>
  BY SelectedNone
<1>6. ForwardedSeen /\ GroupsSeen /\ NativeSeen /\ FailedSeen /\ NameSeen
  BY <1>2, <1>5 DEF Init, ForwardedSeen, GroupsSeen, NativeSeen, FailedSeen, NameSeen
<1>7. Returned
  BY DEF Init, Returned
<1> QED BY <1>3, <1>4, <1>6, <1>7 DEF IInv, LoopInv

(* Every step of the function keeps it. *)
LEMMA Inductive == IInv /\ [Next]_vars => IInv'
<1> SUFFICES ASSUME IInv, [Next]_vars PROVE IInv'
  OBVIOUS
<1>1. CASE EndOfOptions
  BY <1>1, EndOfOptionsKeeps DEF IInv, Returned, EndOfOptions, Looping, Running
<1>2. CASE TakeGroup
  BY <1>2, TakeGroupKeeps DEF IInv, Returned, TakeGroup, Looping, Running
<1>3. CASE TakeGroupAttached
  BY <1>3, TakeGroupAttachedKeeps DEF IInv, Returned, TakeGroupAttached, Looping, Running
<1>4. CASE TakeName
  BY <1>4, TakeNameKeeps DEF IInv, Returned, TakeName, Looping, Running
<1>5. CASE TakeNameAttached
  BY <1>5, TakeNameAttachedKeeps DEF IInv, Returned, TakeNameAttached, Looping, Running
<1>6. CASE Forward
  BY <1>6, ForwardKeeps DEF IInv, Returned, Forward, Looping, Running
<1>7. ASSUME UNCHANGED <<path, args, environment, identity, index, forwarded, groups, native, projectionError>>
      PROVE  LoopInv'
  BY <1>7 DEF IInv, LoopInv, LoopTypes, IndexFree, ForwardedSeen, GroupsSeen, NativeSeen, FailedSeen,
              NameSeen, Seen, Taken, ValueOf, Role, Complaint
<1>8. CASE ReturnPlan
  <2>1. LoopInv'
    BY <1>7, <1>8 DEF ReturnPlan
  <2>2. path' # "" /\ index' = Len(args') + 1
    <3>1. /\ path' = path /\ path # "" /\ args' = args /\ index' = index /\ index > Len(args)
          /\ Len(args) \in Nat /\ index \in 1..(Len(args) + 1)
      BY <1>8, LenProperties DEF ReturnPlan, Running, IInv, LoopInv, LoopTypes
    <3>2. \A n \in Nat : \A i \in 1..(n + 1) : i > n => i = n + 1
      OBVIOUS
    <3>3. index = Len(args) + 1
      BY <3>1, <3>2, Zenon
    <3> QED BY <3>1, <3>3, Zenon
  <2>3. plan' = IF native' THEN [outcome |-> "native", args |-> args', env |-> environment']
                ELSE IF projectionError' # "none" THEN [outcome |-> "error", of |-> projectionError']
                ELSE [outcome |-> "plan", args |-> forwarded', env |-> Projected(environment)']
    BY <1>8 DEF ReturnPlan, Projected
  <2> QED BY <2>1, <2>2, <2>3 DEF IInv, Returned
<1>10. CASE RefusePath
  <2>1. LoopInv'
    BY <1>7, <1>10 DEF RefusePath
  <2> QED BY <1>10, <2>1 DEF RefusePath, IInv, Returned
<1>9. CASE UNCHANGED vars
  <2>1. LoopInv'
    BY <1>7, <1>9 DEF vars
  <2> QED BY <1>9, <2>1 DEF vars, IInv, Returned, Projected
<1> QED BY <1>1, <1>2, <1>3, <1>4, <1>5, <1>6, <1>8, <1>10, <1>9 DEF Next

-----------------------------------------------------------------------------
(* The environment *)

\* The elements of E that do not name the key
Apart(T, key, E) == {e \in T : e[1] # key} \cap E

(* What replaceEnv (lines 209-221) leaves of the elements of a set, and what   *)
(* it adds to them.                                                            *)
LEMMA ReplaceEnv ==
  ASSUME NEW T, NEW env \in Seq(T), NEW key, NEW value, <<key, value>> \in T, NEW E
  PROVE  /\ replaceEnv(env, key, value) \in Seq(T)
         /\ With(replaceEnv(env, key, value), E) =
              IF value # <<>> /\ <<key, value>> \in E
              THEN Extended(With(env, Apart(T, key, E)), <<key, value>>)
              ELSE With(env, Apart(T, key, E))
<1> DEFINE entry == <<key, value>>
           D == {e \in T : e[1] # key}
           kept == With(env, D)
<1>1. entry \in T
  OBVIOUS
<1>2. Selected(env, {i \in DOMAIN env : env[i][1] # key}) = kept
  <2>1. \A i \in DOMAIN env : env[i] \in T
    BY LenProperties
  <2>2. {i \in DOMAIN env : env[i][1] # key} = {i \in DOMAIN env : env[i] \in D}
    BY <2>1
  <2> QED BY <2>2 DEF With
<1>3. kept \in Seq(T)
  BY WithType
<1>4. With(kept, E) = With(env, D \cap E)
  BY WithTwice
<1>5. replaceEnv(env, key, value) = IF value = <<>> THEN kept ELSE Append(kept, entry)
  BY <1>2 DEF replaceEnv
<1> HIDE DEF kept, entry, D
<1>6. With(Append(kept, entry), E) = IF entry \in E THEN Append(With(kept, E), entry) ELSE With(kept, E)
  BY <1>1, <1>3, WithAppend
<1>7. Append(kept, entry) \in Seq(T)
  BY <1>1, <1>3, AppendProperties
<1> QED BY <1>3, <1>4, <1>5, <1>6, <1>7 DEF entry, D, Apart, Extended

\* The entries of one variable
Naming(T, key) == {e \in T : e[1] = key}

(* The variable itself is there once, with the new value, or not at all. *)
LEMMA ReplaceOwn ==
  ASSUME NEW T, NEW env \in Seq(T), NEW key, NEW value, <<key, value>> \in T
  PROVE  With(replaceEnv(env, key, value), Naming(T, key)) =
           IF value = <<>> THEN <<>> ELSE <<<<key, value>>>>
<1> DEFINE K == Naming(T, key)
           D == Apart(T, key, K)
           entry == <<key, value>>
           r == With(replaceEnv(env, key, value), K)
<1>1. D = {} /\ entry \in K
  BY DEF Naming, Apart
<1>2. With(env, {}) = <<>>
  <2>1. {i \in DOMAIN env : env[i] \in {}} = {}
    OBVIOUS
  <2> QED BY <2>1, SelectedNone DEF With
<1>3. r = IF value # <<>> /\ entry \in K THEN Extended(With(env, D), entry) ELSE With(env, D)
  <2> HIDE DEF K
  <2> QED BY ReplaceEnv
<1> HIDE DEF K, D, entry, r
<1>4. r = IF value # <<>> THEN Append(<<>>, entry) ELSE <<>>
  BY <1>1, <1>2, <1>3 DEF Extended
<1>5. Append(<<>>, entry) = <<entry>>
  OBVIOUS
<1> QED BY <1>4, <1>5 DEF r, K, entry

(* The other variables stay as they are. *)
LEMMA ReplaceOther ==
  ASSUME NEW T, NEW env \in Seq(T), NEW key, NEW value, <<key, value>> \in T,
         NEW E \in SUBSET T, \A e \in E : e[1] # key
  PROVE  With(replaceEnv(env, key, value), E) = With(env, E)
<1> DEFINE D == Apart(T, key, E)
           entry == <<key, value>>
           r == With(replaceEnv(env, key, value), E)
<1>1. D = E /\ entry \notin E
  BY DEF Apart
<1>2. r = IF value # <<>> /\ entry \in E THEN Extended(With(env, D), entry) ELSE With(env, D)
  BY ReplaceEnv
<1> HIDE DEF D, entry, r
<1> QED BY <1>1, <1>2 DEF r

(* The projected environment (lines 93-104): every owned variable comes from *)
(* this invocation, every other from the inherited environment.              *)
LEMMA ProjectedValues ==
  ASSUME NEW env \in Seq(STRING \X Seq(STRING)), NEW G, NEW I, NEW N
  PROVE  LET e3 == replaceEnv(replaceEnv(replaceEnv(env, GroupsEnv, G), SessionIDEnv, I), NameEnv, N)
             entry(key, value) == IF value = <<>> THEN <<>> ELSE <<<<key, value>>>>
         IN  /\ Values(e3, GroupsEnv) = entry(GroupsEnv, G)
             /\ Values(e3, SessionIDEnv) = entry(SessionIDEnv, I)
             /\ Values(e3, NameEnv) = entry(NameEnv, N)
             /\ Others(e3) = Others(env)
<1> DEFINE T == (STRING \X Seq(STRING)) \cup {<<GroupsEnv, G>>, <<SessionIDEnv, I>>, <<NameEnv, N>>}
           e1 == replaceEnv(env, GroupsEnv, G)
           e2 == replaceEnv(e1, SessionIDEnv, I)
           e3 == replaceEnv(e2, NameEnv, N)
           KG == Naming(T, GroupsEnv)
           KI == Naming(T, SessionIDEnv)
           KN == Naming(T, NameEnv)
           O == {e \in T : e[1] \notin Owned}
           entry(key, value) == IF value = <<>> THEN <<>> ELSE <<<<key, value>>>>
<1>1. /\ GroupsEnv # SessionIDEnv /\ GroupsEnv # NameEnv /\ SessionIDEnv # NameEnv
      /\ Owned = {GroupsEnv, SessionIDEnv, NameEnv}
  BY DEF GroupsEnv, SessionIDEnv, NameEnv, Owned
<1>2. env \in Seq(T)
  BY SeqMonotonic
<1>3. <<GroupsEnv, G>> \in T /\ <<SessionIDEnv, I>> \in T /\ <<NameEnv, N>> \in T
  OBVIOUS
<1> HIDE DEF T, e1, e2, e3
<1>4. e1 \in Seq(T)
  BY <1>2, <1>3, ReplaceEnv DEF e1
<1>5. e2 \in Seq(T)
  BY <1>3, <1>4, ReplaceEnv DEF e2
<1>6. e3 \in Seq(T)
  BY <1>3, <1>5, ReplaceEnv DEF e3
<1>7. KG \in SUBSET T /\ KI \in SUBSET T /\ KN \in SUBSET T /\ O \in SUBSET T
  BY DEF Naming
<1>g. (\A e \in KG : e[1] # SessionIDEnv) /\ (\A e \in KG : e[1] # NameEnv)
  BY <1>1 DEF Naming
<1>i. \A e \in KI : e[1] # NameEnv
  BY <1>1 DEF Naming
<1>o. /\ \A e \in O : e[1] # GroupsEnv
      /\ \A e \in O : e[1] # SessionIDEnv
      /\ \A e \in O : e[1] # NameEnv
  BY <1>1
<1>8. With(e3, KN) = entry(NameEnv, N)
  BY <1>3, <1>5, ReplaceOwn DEF e3
<1>9. With(e3, KI) = entry(SessionIDEnv, I)
  <2>1. With(e2, KI) = entry(SessionIDEnv, I)
    BY <1>3, <1>4, ReplaceOwn DEF e2
  <2> HIDE DEF KI
  <2>2. With(e3, KI) = With(e2, KI)
    BY <1>3, <1>5, <1>7, <1>i, ReplaceOther DEF e3
  <2> QED BY <2>1, <2>2
<1>10. With(e3, KG) = entry(GroupsEnv, G)
  <2>1. With(e1, KG) = entry(GroupsEnv, G)
    BY <1>2, <1>3, ReplaceOwn DEF e1
  <2> HIDE DEF KG
  <2>2. With(e2, KG) = With(e1, KG)
    BY <1>3, <1>4, <1>7, <1>g, ReplaceOther DEF e2
  <2>3. With(e3, KG) = With(e2, KG)
    BY <1>3, <1>5, <1>7, <1>g, ReplaceOther DEF e3
  <2> QED BY <2>1, <2>2, <2>3
<1>11. With(e3, O) = With(env, O)
  <2> HIDE DEF O
  <2>1. With(e1, O) = With(env, O)
    BY <1>2, <1>3, <1>7, <1>o, ReplaceOther DEF e1
  <2>2. With(e2, O) = With(e1, O)
    BY <1>3, <1>4, <1>7, <1>o, ReplaceOther DEF e2
  <2>3. With(e3, O) = With(e2, O)
    BY <1>3, <1>5, <1>7, <1>o, ReplaceOther, SMTT(30) DEF e3
  <2> QED BY <2>1, <2>2, <2>3
<1>12. \A key : Values(e3, key) = With(e3, Naming(T, key))
  <2> TAKE key
  <2>1. \A i \in DOMAIN e3 : e3[i] \in T
    BY <1>6, LenProperties
  <2>2. {i \in DOMAIN e3 : e3[i][1] = key} = {i \in DOMAIN e3 : e3[i] \in Naming(T, key)}
    BY <2>1 DEF Naming
  <2> QED BY <2>2 DEF Values, With
<1>13. ASSUME NEW e \in Seq(T) PROVE Others(e) = With(e, O)
  <2>1. \A i \in DOMAIN e : e[i] \in T
    BY LenProperties
  <2>2. {i \in DOMAIN e : e[i][1] \notin Owned} = {i \in DOMAIN e : e[i] \in O}
    BY <2>1
  <2> QED BY <2>2 DEF Others, With
<1>14. Others(e3) = Others(env)
  BY <1>2, <1>6, <1>11, <1>13
<1>15. /\ Values(e3, GroupsEnv) = entry(GroupsEnv, G)
       /\ Values(e3, SessionIDEnv) = entry(SessionIDEnv, I)
       /\ Values(e3, NameEnv) = entry(NameEnv, N)
  BY <1>8, <1>9, <1>10, <1>12
<1> QED BY <1>14, <1>15 DEF e3, e2, e1

-----------------------------------------------------------------------------
(* The theorems *)

(* What the loop has seen when it has ended is what there is. *)
LEMMA SeenAll ==
  ASSUME LoopInv, index = Len(args) + 1, NEW roles
  PROVE  Seen(roles) = Positions(roles)
BY SeenPositions DEF LoopInv, LoopTypes, Seen, Positions, Role

(* The invariant gives the classification. *)
LEMMA ClassifiedFromIInv == IInv => ArgumentsClassified
<1> DEFINE broken == Positions({"broken"})
<1> SUFFICES ASSUME IInv, plan.outcome # "none"
             PROVE  plan = IF path = "" THEN [outcome |-> "error", of |-> "path"]
                           ELSE IF IsNative THEN [outcome |-> "native", args |-> args, env |-> environment]
                           ELSE IF broken # {} THEN [outcome |-> "error", of |-> Complaint(Max(broken))]
                           ELSE [outcome |-> "plan", args |-> Selected(args, Positions(Kept)),
                                 env |-> plan.env]
  BY DEF ArgumentsClassified
<1>1. CASE path = ""
  BY <1>1 DEF IInv, Returned
<1>2. CASE path # ""
  <2>1. /\ LoopInv /\ index = Len(args) + 1
        /\ plan = IF native THEN [outcome |-> "native", args |-> args, env |-> environment]
                  ELSE IF projectionError # "none" THEN [outcome |-> "error", of |-> projectionError]
                  ELSE [outcome |-> "plan", args |-> forwarded, env |-> Projected(environment)]
    BY <1>2 DEF IInv, Returned
  <2>2. native <=> IsNative
    BY <2>1, SeenAll DEF LoopInv, NativeSeen, IsNative
  <2>3. Seen({"broken"}) = broken
    BY <2>1, SeenAll
  <2>4. broken \in SUBSET Int
    <3>1. broken \in SUBSET (1..Len(args)) /\ Len(args) \in Nat
      BY <2>1, <2>3, SeenInFront, LenProperties DEF LoopInv, LoopTypes
    <3> QED BY <3>1
  <2> HIDE DEF broken
  <2>5. CASE broken = {}
    <3>1. projectionError = "none"
      BY <2>1, <2>3, <2>5 DEF LoopInv, FailedSeen
    <3>2. forwarded = Selected(args, Positions(Kept))
      BY <2>1, SeenAll DEF LoopInv, ForwardedSeen
    <3> QED BY <1>2, <2>1, <2>2, <2>5, <3>1, <3>2
  <2>6. CASE broken # {}
    <3>1. PICK i \in broken : (\A j \in broken : j <= i) /\ projectionError = Complaint(i)
      BY <2>1, <2>3, <2>6 DEF LoopInv, FailedSeen
    <3>2. Max(broken) = i
      <4>1. \A x \in broken : (\A j \in broken : x >= j) => x = i
        BY <2>4, <3>1
      <4>2. \A j \in broken : i >= j
        BY <2>4, <3>1
      <4> QED BY <4>1, <4>2 DEF Max
    <3>3. projectionError # "none" /\ projectionError = Complaint(Max(broken))
      BY <3>1, <3>2 DEF Complaint
    <3> QED BY <1>2, <2>1, <2>2, <2>6, <3>3
  <2> QED BY <2>5, <2>6
<1> QED BY <1>1, <1>2

(* The invariant gives the environment. *)
LEMMA EnvironmentFromIInv == IInv => EnvironmentOwned
<1> SUFFICES ASSUME IInv, plan.outcome = "plan" PROVE EnvironmentOwned
  BY DEF EnvironmentOwned
<1> DEFINE given == Positions(Given)
           names == Positions(NameRoles)
<1>1. /\ LoopInv /\ index = Len(args) + 1 /\ projectionError = "none" /\ plan.env = Projected(environment)
  <2>1. /\ [outcome |-> "error", of |-> "path"].outcome = "error"
        /\ [outcome |-> "error", of |-> projectionError].outcome = "error"
        /\ [outcome |-> "native", args |-> args, env |-> environment].outcome = "native"
    OBVIOUS
  <2>2. path # "" /\ index = Len(args) + 1 /\ ~native /\ projectionError = "none"
    BY <2>1, Zenon DEF IInv, Returned
  <2>3. plan = [outcome |-> "plan", args |-> forwarded, env |-> Projected(environment)]
    BY <2>2, Zenon DEF IInv, Returned
  <2> QED BY <2>2, <2>3 DEF IInv
<1>2. environment \in Seq(STRING \X Seq(STRING))
  BY <1>1, LaunchPlanAssumption DEF LoopInv, LoopTypes
<1>3. groups = Selected([i \in given |-> ValueOf(i)], given)
  <2>1. groups = Selected(Taken, given)
    BY <1>1, SeenAll DEF LoopInv, GroupsSeen
  <2>2. given \in SUBSET (1..Len(args)) /\ Len(args) \in Nat
    <3>1. Seen(Given) = given
      BY <1>1, SeenAll
    <3> QED BY <1>1, <3>1, SeenInFront, LenProperties DEF LoopInv, LoopTypes
  <2>3. \A i \in given : Taken[i] \in Texts /\ Taken[i] = [j \in given |-> ValueOf(j)][i]
    BY <1>1, <2>2, ValueType
  <2> HIDE DEF given
  <2> QED BY <2>1, <2>2, <2>3, SelectedSame
<1>4. /\ names = {} => identity \in Identities
      /\ \A i \in names : (\E j \in names : j > i) \/ identity.name = ValueOf(i)
  <2>1. Seen(NameRoles) = names
    BY <1>1, SeenAll
  <2> QED BY <1>1, <2>1 DEF LoopInv, NameSeen
<1> DEFINE entry(key, value) == IF value = <<>> THEN <<>> ELSE <<<<key, value>>>>
<1>5. /\ Values(plan.env, GroupsEnv) = entry(GroupsEnv, Encoded(groups))
      /\ Values(plan.env, SessionIDEnv) = entry(SessionIDEnv, Text(identity.session))
      /\ Values(plan.env, NameEnv) = entry(NameEnv, Text(identity.name))
      /\ Others(plan.env) = Others(environment)
  <2> DEFINE G == Encoded(groups)
             I == Text(identity.session)
             N == Text(identity.name)
             env == environment
             e == plan.env
  <2>1. e = replaceEnv(replaceEnv(replaceEnv(env, GroupsEnv, G), SessionIDEnv, I), NameEnv, N)
    BY <1>1 DEF Projected
  <2>2. env \in Seq(STRING \X Seq(STRING))
    BY <1>2
  <2> HIDE DEF G, I, N, e, env
  <2>3. /\ Values(e, GroupsEnv) = entry(GroupsEnv, G) /\ Values(e, SessionIDEnv) = entry(SessionIDEnv, I)
        /\ Values(e, NameEnv) = entry(NameEnv, N) /\ Others(e) = Others(env)
    BY <2>1, <2>2, ProjectedValues
  <2> QED BY <2>3 DEF G, I, N, e, env
<1> QED BY <1>3, <1>4, <1>5 DEF EnvironmentOwned, Given, NameRoles

(* For every command line: what the native process gets, when an error is    *)
(* reported, and that it is the error of the last broken flag.               *)
THEOREM Classified == Spec => []ArgumentsClassified
<1>1. Spec => []IInv
  BY InitIInv, Inductive, PTL DEF Spec
<1> QED BY <1>1, ClassifiedFromIInv, PTL

(* For every command line and inherited environment: the owned variables come *)
(* from this invocation and the others are left alone.                        *)
THEOREM EnvironmentIsOwned == Spec => []EnvironmentOwned
<1>1. Spec => []IInv
  BY InitIInv, Inductive, PTL DEF Spec
<1> QED BY <1>1, EnvironmentFromIInv, PTL

-----------------------------------------------------------------------------
(* BuildArguments *)

\* The option that starts at i is complete and harmless, as the loop decides it.
Accepted(line, i) ==
  /\ ~Unsupported(line[i])
  /\ Detached(line[i]) => i # Len(line)
  /\ Value(line, i) \notin Rules[Cuts[line[i]].name].conflicts

\* The options of a line from i on, each from a start to the next one
NextStart(line, starts, i) == Min({j \in starts : j > i} \cup {Len(line) + 1})
Splitting(line, starts, i) ==
  /\ starts \in SUBSET (i..Len(line)) /\ (i <= Len(line) => i \in starts)
  /\ \A j \in starts : Harmless(SubSeq(line, j, NextStart(line, starts, j) - 1))
Splittable(line, i) == \E starts : Splitting(line, starts, i)

(* A harmless stretch of a line is the option that the loop reads there. *)
LEMMA HarmlessOption ==
  ASSUME NEW line \in Seq(Tokens), NEW i \in 1..Len(line), NEW m \in i..Len(line)
  PROVE  Harmless(SubSeq(line, i, m)) <=> Accepted(line, i) /\ m = OptionEnd(line, i)
<1> DEFINE option == SubSeq(line, i, m)
           cut == Cuts[line[i]]
           rule == Rules[cut.name]
           n == Len(line)
<1>1. n \in Nat /\ n = Len(line) /\ line \in [1..n -> Tokens]
  BY LenProperties
<1>2. i \in 1..n /\ m \in i..n
  BY <1>1
<1>3. \A k \in i..m : line[k] \in Tokens
  BY <1>1, <1>2
<1> HIDE DEF n
<1>4. Len(option) = m - i + 1 /\ option[1] = line[i] /\ (i + 1 <= m => option[2] = line[i + 1])
  <2>1. i \in Int /\ m \in Int /\ i <= m
    BY <1>1, <1>2
  <2>2. /\ Len(option) = IF i <= m THEN m - i + 1 ELSE 0
        /\ \A k \in 1..(m - i + 1) : option[k] = line[i + k - 1]
    <3> HIDE DEF option
    <3> QED BY <1>3, <2>1, SubSeqProperties DEF option
  <2>3. 1 \in 1..(m - i + 1) /\ i + 1 - 1 = i /\ (i + 1 <= m => 2 \in 1..(m - i + 1)) /\ i + 2 - 1 = i + 1
    BY <2>1
  <2> HIDE DEF option
  <2>4. option[1] = line[i + 1 - 1] /\ (i + 1 <= m => option[2] = line[i + 2 - 1])
    BY <2>2, <2>3
  <2> QED BY <2>1, <2>2, <2>3, <2>4
<1>5. line[i] \in Tokens
  BY <1>1, <1>2
<1>6. cut.attached \in BOOLEAN /\ (~cut.attached => cut.value = "")
  BY <1>5, RulesAssumption
<1>7. cut.name \in DOMAIN Rules => rule.takesValue \in BOOLEAN
  BY RulesAssumption
<1>8. Harmless(option)
        <=> /\ cut.name \in DOMAIN Rules
            /\ IF rule.takesValue
               THEN IF cut.attached THEN Len(option) = 1 /\ cut.value \notin rule.conflicts
                    ELSE Len(option) = 2 /\ option[2] \notin rule.conflicts
               ELSE Len(option) = 1 /\ ~cut.attached /\ "" \notin rule.conflicts
  <2> HIDE DEF option
  <2> QED BY <1>4, Zenon DEF Harmless
<1>9. /\ Unsupported(line[i]) <=> cut.name \notin DOMAIN Rules \/ (cut.attached /\ ~rule.takesValue)
      /\ Detached(line[i]) <=> rule.takesValue /\ ~cut.attached
      /\ Value(line, i) = IF Detached(line[i]) THEN line[i + 1] ELSE cut.value
      /\ OptionEnd(line, i) = IF Detached(line[i]) THEN i + 1 ELSE i
  BY Zenon DEF Unsupported, Detached, Value, OptionEnd
<1> HIDE DEF option, rule
<1>10. i \in Int /\ m \in Int /\ n \in Int /\ i <= m /\ m <= n /\ (m - i + 1 = 1 <=> m = i)
       /\ (m - i + 1 = 2 <=> m = i + 1)
  BY <1>1, <1>2
<1>11. Accepted(line, i)
         <=> ~Unsupported(line[i]) /\ (Detached(line[i]) => i # n) /\ Value(line, i) \notin rule.conflicts
  BY <1>1, Zenon DEF Accepted, rule
<1>12. Len(option) = 1 <=> m = i
  BY <1>4, <1>10
<1>13. Len(option) = 2 <=> m = i + 1
  BY <1>4, <1>10
<1>14. m = i + 1 => i # n /\ option[2] = line[i + 1]
  BY <1>4, <1>10
<1> SUFFICES Harmless(option) <=> Accepted(line, i) /\ m = OptionEnd(line, i)
  BY DEF option
<1> HIDE DEF cut
<1>15. CASE cut.name \notin DOMAIN Rules
  BY <1>8, <1>9, <1>11, <1>15
<1>16. CASE cut.name \in DOMAIN Rules /\ rule.takesValue /\ cut.attached
  BY <1>8, <1>9, <1>11, <1>12, <1>16
<1>17. CASE cut.name \in DOMAIN Rules /\ rule.takesValue /\ ~cut.attached
  BY <1>8, <1>9, <1>11, <1>13, <1>14, <1>17
<1>18. CASE cut.name \in DOMAIN Rules /\ ~rule.takesValue
  BY <1>6, <1>8, <1>9, <1>11, <1>12, <1>18
<1> QED BY <1>15, <1>16, <1>17, <1>18

(* An option ends in the line. *)
LEMMA OptionEnds ==
  ASSUME NEW line \in Seq(Tokens), NEW i \in 1..Len(line), Accepted(line, i)
  PROVE  OptionEnd(line, i) \in i..Len(line)
<1>1. Len(line) \in Nat
  BY LenProperties
<1>2. CASE Detached(line[i])
  <2>1. i # Len(line) /\ OptionEnd(line, i) = i + 1
    BY <1>2 DEF Accepted, OptionEnd
  <2> QED BY <1>1, <2>1
<1>3. CASE ~Detached(line[i])
  BY <1>1, <1>3 DEF OptionEnd
<1> QED BY <1>2, <1>3

(* The next start is a start behind this one, or the end. *)
LEMMA NextStarts ==
  ASSUME NEW line \in Seq(Tokens), NEW starts \in SUBSET (1..Len(line)), NEW i \in 1..Len(line)
  PROVE  LET next == NextStart(line, starts, i)
         IN  /\ next \in (i + 1)..(Len(line) + 1) /\ (next <= Len(line) => next \in starts)
             /\ \A j \in starts : j > i => next <= j
<1> DEFINE T == {j \in starts : j > i} \cup {Len(line) + 1}
           n == Len(line)
<1>1. n \in Nat /\ n = Len(line)
  BY LenProperties
<1>2. T \in SUBSET Nat /\ T # {} /\ T = {j \in starts : j > i} \cup {n + 1}
  <2>1. starts \in SUBSET Nat /\ n + 1 \in Nat
    BY <1>1
  <2> HIDE DEF n
  <2>2. T = {j \in starts : j > i} \cup {n + 1}
    BY <1>1
  <2> QED BY <2>1, <2>2
<1> HIDE DEF n
<1>3. NextStart(line, starts, i) = Min(T)
  BY DEF NextStart
<1> HIDE DEF T
<1>4. Min(T) \in T /\ \A j \in T : Min(T) <= j
  BY <1>2, LeastOf
<1>5. Min(T) \in (i + 1)..(n + 1) /\ (Min(T) <= n => Min(T) \in starts)
  BY <1>1, <1>2, <1>4
<1>6. \A j \in starts : j > i => Min(T) <= j
  BY <1>2, <1>4
<1> QED BY <1>1, <1>3, <1>5, <1>6

(* A line is made of options if its first option is complete and harmless *)
(* and the rest is made of options.                                       *)
LEMMA SplittableStep ==
  ASSUME NEW line \in Seq(Tokens), NEW i \in 1..Len(line)
  PROVE  Splittable(line, i) <=> Accepted(line, i) /\ Splittable(line, OptionEnd(line, i) + 1)
<1> DEFINE n == Len(line)
           e == OptionEnd(line, i) + 1
<1>1. n \in Nat /\ n = Len(line) /\ i \in 1..n
  BY LenProperties
<1> HIDE DEF n
<1>2. ASSUME NEW starts, Splitting(line, starts, i)
      PROVE  Accepted(line, i) /\ Splittable(line, e)
  <2> DEFINE next == NextStart(line, starts, i)
             later == {j \in starts : j > i}
  <2>1. /\ starts \in SUBSET (i..n) /\ i \in starts
        /\ \A j \in starts : Harmless(SubSeq(line, j, NextStart(line, starts, j) - 1))
    BY <1>1, <1>2 DEF Splitting
  <2>2. starts \in SUBSET (1..n)
    BY <1>1, <2>1
  <2>3. /\ next \in (i + 1)..(n + 1) /\ (next <= n => next \in starts)
        /\ \A j \in starts : j > i => next <= j
    BY <1>1, <2>2, NextStarts
  <2>4. Harmless(SubSeq(line, i, next - 1))
    BY <2>1
  <2> HIDE DEF next
  <2>5. next - 1 \in i..n /\ next > i /\ next \in Int
    BY <1>1, <2>3
  <2>6. Accepted(line, i) /\ next - 1 = OptionEnd(line, i)
    BY <1>1, <2>4, <2>5, HarmlessOption
  <2>7. next = e
    BY <2>5, <2>6
  <2>8. later \in SUBSET (next..n) /\ (next <= n => next \in later)
    <3>1. ASSUME NEW j \in later PROVE j \in next..n
      <4>1. j \in starts /\ j > i /\ j \in i..n
        BY <2>1
      <4>2. next <= j
        BY <2>3, <4>1
      <4> QED BY <1>1, <2>5, <4>1, <4>2
    <3>2. next <= n => next \in later
      BY <2>3, <2>5
    <3> HIDE DEF later
    <3> QED BY <3>1, <3>2
  <2>9. ASSUME NEW j \in later PROVE Harmless(SubSeq(line, j, NextStart(line, later, j) - 1))
    <3>1. {k \in later : k > j} = {k \in starts : k > j}
      <4>1. starts \in SUBSET Int /\ j \in Int /\ j > i
        BY <1>1, <2>1
      <4>2. \A k \in starts : k > j => k > i
        BY <1>1, <4>1
      <4> QED BY <4>2
    <3>2. NextStart(line, later, j) = NextStart(line, starts, j)
      BY <3>1, Zenon DEF NextStart
    <3> QED BY <2>1, <3>2
  <2> HIDE DEF later
  <2>10. Splitting(line, later, next)
    BY <1>1, <2>8, <2>9 DEF Splitting
  <2> QED BY <2>6, <2>7, <2>10 DEF Splittable
<1>3. ASSUME Accepted(line, i), NEW starts, Splitting(line, starts, e)
      PROVE  Splittable(line, i)
  <2> DEFINE more == starts \cup {i}
             next == NextStart(line, more, i)
  <2>1. OptionEnd(line, i) \in i..n
    BY <1>1, <1>3, OptionEnds
  <2>2. e \in (i + 1)..(n + 1) /\ e - 1 = OptionEnd(line, i)
    BY <1>1, <2>1
  <2> HIDE DEF e
  <2>3. /\ starts \in SUBSET (e..n) /\ (e <= n => e \in starts)
        /\ \A j \in starts : Harmless(SubSeq(line, j, NextStart(line, starts, j) - 1))
    BY <1>1, <1>3 DEF Splitting
  <2>4. more \in SUBSET (i..n) /\ i \in more /\ more \in SUBSET (1..n)
    BY <1>1, <2>2, <2>3
  <2>5. /\ next \in (i + 1)..(n + 1) /\ (next <= n => next \in more)
        /\ \A j \in more : j > i => next <= j
    BY <1>1, <2>4, NextStarts
  <2>6. next = e
    <3> HIDE DEF next
    <3>1. next <= n => next \in starts
      BY <1>1, <2>5
    <3>2. CASE e <= n
      <4>1. next <= e
        BY <1>1, <2>2, <2>3, <2>5, <3>2
      <4>2. next \in starts
        BY <1>1, <2>2, <2>5, <3>1, <3>2, <4>1
      <4> QED BY <1>1, <2>2, <2>3, <2>5, <4>1, <4>2
    <3>3. CASE ~(e <= n)
      <4>1. e = n + 1 /\ starts = {}
        BY <1>1, <2>2, <2>3, <3>3
      <4> QED BY <1>1, <2>5, <3>1, <4>1
    <3> QED BY <3>2, <3>3
  <2>7. Harmless(SubSeq(line, i, next - 1))
    <3>1. next - 1 = OptionEnd(line, i)
      BY <2>2, <2>6
    <3> HIDE DEF next
    <3> QED BY <1>1, <1>3, <2>1, <3>1, HarmlessOption
  <2>8. ASSUME NEW j \in starts PROVE Harmless(SubSeq(line, j, NextStart(line, more, j) - 1))
    <3>1. {k \in more : k > j} = {k \in starts : k > j}
      <4>1. ~(i > j)
        BY <1>1, <2>2, <2>3
      <4> QED BY <4>1
    <3>2. NextStart(line, more, j) = NextStart(line, starts, j)
      BY <3>1, Zenon DEF NextStart
    <3> QED BY <2>3, <3>2
  <2>9. \A j \in more : Harmless(SubSeq(line, j, NextStart(line, more, j) - 1))
    BY <2>7, <2>8
  <2> HIDE DEF more
  <2>10. Splitting(line, more, i)
    BY <1>1, <2>4, <2>9 DEF Splitting
  <2> QED BY <2>10 DEF Splittable
<1> QED BY <1>2, <1>3 DEF Splittable

\* One turn of BuildArguments, its continuation in f
Turn(line, i, f) ==
  IF i = Len(line) + 1 THEN [result |-> <<>>, err |-> "none"]
  ELSE IF Unsupported(line[i]) THEN [result |-> <<>>, err |-> "unsupported"]
  ELSE IF Detached(line[i]) /\ i = Len(line) THEN [result |-> <<>>, err |-> "requires a value"]
  ELSE IF Value(line, i) \in Rules[Cuts[line[i]].name].conflicts THEN [result |-> <<>>, err |-> "conflict"]
  ELSE WithOption(line, i, f[OptionEnd(line, i) + 1])

IsLoop(line, f) == f = [i \in 1..(Len(line) + 1) |-> Turn(line, i, f)]

(* A turn refuses or goes on. *)
LEMMA TurnCases ==
  ASSUME NEW line \in Seq(Tokens), NEW i \in 1..Len(line), NEW f
  PROVE  /\ ~Accepted(line, i) => Turn(line, i, f).result = <<>> /\ Turn(line, i, f).err # "none"
         /\ Accepted(line, i) => Turn(line, i, f) = WithOption(line, i, f[OptionEnd(line, i) + 1])
<1>1. i # Len(line) + 1
  BY LenProperties
<1>2. Accepted(line, i) => Turn(line, i, f) = WithOption(line, i, f[OptionEnd(line, i) + 1])
  BY <1>1, Zenon DEF Turn, Accepted
<1>3. ~Accepted(line, i) => \E kind \in {"unsupported", "requires a value", "conflict"} :
                               Turn(line, i, f) = [result |-> <<>>, err |-> kind]
  BY <1>1, Zenon DEF Turn, Accepted
<1>4. ~Accepted(line, i) => Turn(line, i, f).result = <<>> /\ Turn(line, i, f).err # "none"
  <2> SUFFICES ASSUME ~Accepted(line, i)
               PROVE  Turn(line, i, f).result = <<>> /\ Turn(line, i, f).err # "none"
    OBVIOUS
  <2> DEFINE nothing == <<>>
             turn == Turn(line, i, f)
  <2>1. PICK kind \in {"unsupported", "requires a value", "conflict"} : turn = [result |-> nothing, err |-> kind]
    BY <1>3
  <2>2. kind # "none"
    BY <2>1
  <2> HIDE DEF nothing, turn
  <2>3. turn.result = nothing /\ turn.err # "none"
    BY <2>1, <2>2
  <2> QED BY <2>3 DEF nothing, turn
<1> QED BY <1>2, <1>4

(* A turn looks at the continuation behind its option only. *)
LEMMA TurnSame ==
  ASSUME NEW line \in Seq(Tokens), NEW i \in 1..(Len(line) + 1), NEW f, NEW g,
         \A k \in (i + 1)..(Len(line) + 1) : f[k] = g[k]
  PROVE  Turn(line, i, f) = Turn(line, i, g)
<1>1. Len(line) \in Nat
  BY LenProperties
<1>2. CASE i = Len(line) + 1
  BY <1>2, Zenon DEF Turn
<1>3. CASE i # Len(line) + 1
  <2>1. i \in 1..Len(line)
    BY <1>1, <1>3
  <2>2. CASE Accepted(line, i)
    <3>1. OptionEnd(line, i) \in i..Len(line)
      BY <2>1, <2>2, OptionEnds
    <3>2. OptionEnd(line, i) + 1 \in (i + 1)..(Len(line) + 1)
      BY <1>1, <2>1, <3>1
    <3>3. f[OptionEnd(line, i) + 1] = g[OptionEnd(line, i) + 1]
      BY <3>2
    <3> QED BY <2>1, <2>2, <3>3, TurnCases
  <2>3. CASE ~Accepted(line, i)
    BY <1>3, <2>3, Zenon DEF Turn, Accepted
  <2> QED BY <2>2, <2>3
<1> QED BY <1>2, <1>3

(* The recursive function of the loop exists: it is built from the end. *)
LEMMA LoopExists ==
  ASSUME NEW line \in Seq(Tokens)
  PROVE  \E f : IsLoop(line, f)
<1> DEFINE n == Len(line)
           From(m) == (n + 1 - m)..(n + 1)
           Has(m) == \E f : f = [i \in From(m) |-> Turn(line, i, f)]
           T == {m \in 0..n : ~Has(m)}
<1>1. n \in Nat /\ n = Len(line)
  BY LenProperties
<1> HIDE DEF n
<1>2. T = {}
  <2> SUFFICES ASSUME T # {} PROVE FALSE
    OBVIOUS
  <2>1. PICK m \in T : \A k \in T : m <= k
    <3>1. T \in SUBSET Nat
      BY <1>1
    <3> HIDE DEF T
    <3> QED BY <3>1, LeastNumber
  <2>2. m \in 0..n /\ ~Has(m)
    OBVIOUS
  <2> DEFINE i0 == n + 1 - m
  <2>3. i0 \in 1..(n + 1) /\ From(m) = {i0} \cup ((i0 + 1)..(n + 1)) /\ i0 \notin (i0 + 1)..(n + 1)
    BY <1>1, <2>2
  <2>4. \E f : \A i \in (i0 + 1)..(n + 1) : f[i] = Turn(line, i, f)
    <3>1. CASE m = 0
      <4>1. (i0 + 1)..(n + 1) = {}
        BY <1>1, <3>1
      <4> QED BY <4>1
    <3>2. CASE m # 0
      <4>1. m - 1 \in 0..n /\ ~(m <= m - 1) /\ From(m - 1) = (i0 + 1)..(n + 1)
        BY <1>1, <2>2, <3>2
      <4>2. Has(m - 1)
        BY <2>1, <4>1
      <4>3. PICK f : f = [i \in From(m - 1) |-> Turn(line, i, f)]
        BY <4>2
      <4> HIDE DEF From
      <4>4. \A i \in From(m - 1) : f[i] = Turn(line, i, f)
        BY <4>3, Zenon
      <4> QED BY <4>1, <4>4
    <3> QED BY <3>1, <3>2
  <2> HIDE DEF i0
  <2>5. PICK f : \A i \in (i0 + 1)..(n + 1) : f[i] = Turn(line, i, f)
    BY <2>4
  <2> DEFINE h == [i \in From(m) |-> IF i = i0 THEN Turn(line, i, f) ELSE f[i]]
  <2>6. /\ h[i0] = Turn(line, i0, f)
        /\ \A i \in (i0 + 1)..(n + 1) : h[i] = f[i]
    <3> HIDE DEF From
    <3> QED BY <2>3
  <2>7. h = [i \in From(m) |-> h[i]]
    <3> HIDE DEF From
    <3> QED OBVIOUS
  <2> HIDE DEF h
  <2>8. \A i \in From(m) : h[i] = Turn(line, i, h)
    <3> TAKE i \in From(m)
    <3>1. i \in i0..(n + 1) /\ i \in 1..(n + 1)
      BY <1>1, <2>3
    <3>2. \A k \in (i + 1)..(n + 1) : k \in (i0 + 1)..(n + 1)
      BY <1>1, <2>3, <3>1
    <3>3. \A k \in (i + 1)..(n + 1) : f[k] = h[k]
      BY <2>6, <3>2
    <3>4. Turn(line, i, f) = Turn(line, i, h)
      <4>1. i \in 1..(Len(line) + 1) /\ \A k \in (i + 1)..(Len(line) + 1) : f[k] = h[k]
        BY <1>1, <3>1, <3>3
      <4> QED BY <4>1, TurnSame
    <3>5. i = i0 \/ i \in (i0 + 1)..(n + 1)
      BY <2>3
    <3> HIDE DEF From
    <3> QED BY <2>5, <2>6, <3>4, <3>5
  <2>9. h = [i \in From(m) |-> Turn(line, i, h)]
    <3> HIDE DEF From
    <3> QED BY <2>7, <2>8
  <2> QED BY <2>2, <2>9
<1>3. n \in 0..n /\ From(n) = 1..(n + 1)
  BY <1>1
<1>4. Has(n)
  <2> HIDE DEF Has
  <2> QED BY <1>2, <1>3
<1> HIDE DEF From
<1>5. PICK f : f = [i \in From(n) |-> Turn(line, i, f)]
  BY <1>4
<1> QED BY <1>1, <1>3, <1>5, Zenon DEF IsLoop

(* What the loop makes of a line from any option on. *)
LEMMA LoopResult ==
  ASSUME NEW line \in Seq(Tokens), NEW f, IsLoop(line, f), NEW i \in 1..(Len(line) + 1)
  PROVE  IF Splittable(line, i)
         THEN f[i] = [result |-> SubSeq(line, i, Len(line)), err |-> "none"]
         ELSE f[i].result = <<>> /\ f[i].err # "none"
<1> DEFINE n == Len(line)
           Right(j) == IF Splittable(line, j)
                       THEN f[j] = [result |-> SubSeq(line, j, n), err |-> "none"]
                       ELSE f[j].result = <<>> /\ f[j].err # "none"
           T == {k \in 0..n : ~Right(n + 1 - k)}
<1>1. n \in Nat /\ n = Len(line)
  BY LenProperties
<1> HIDE DEF n
<1>2. \A j \in 1..(n + 1) : f[j] = Turn(line, j, f)
  BY <1>1, Zenon DEF IsLoop
<1>3. ASSUME NEW j \in 1..(n + 1), \A k \in (j + 1)..(n + 1) : Right(k) PROVE Right(j)
  <2>1. CASE j = n + 1
    <3>1. f[j] = [result |-> <<>>, err |-> "none"]
      BY <1>1, <1>2, <2>1, Zenon DEF Turn
    <3>2. SubSeq(line, j, n) = <<>>
      <4>1. n < j /\ j \in Int /\ n \in Int
        BY <1>1, <2>1
      <4> QED BY <4>1, SubSeqEmpty
    <3>3. Splitting(line, {}, j)
      <4>1. ~(j <= n)
        BY <1>1, <2>1
      <4> QED BY <1>1, <4>1 DEF Splitting
    <3> QED BY <3>1, <3>2, <3>3 DEF Splittable
  <2>2. CASE j # n + 1
    <3>1. j \in 1..n
      BY <1>1, <2>2
    <3> DEFINE e == OptionEnd(line, j)
    <3>2. Splittable(line, j) <=> Accepted(line, j) /\ Splittable(line, e + 1)
      BY <1>1, <3>1, SplittableStep
    <3>3. CASE ~Accepted(line, j)
      <4>1. f[j].result = <<>> /\ f[j].err # "none"
        BY <1>1, <1>2, <3>1, <3>3, TurnCases
      <4> QED BY <3>2, <3>3, <4>1
    <3>4. CASE Accepted(line, j)
      <4>1. f[j] = WithOption(line, j, f[e + 1]) /\ e \in j..n
        BY <1>1, <1>2, <3>1, <3>4, TurnCases, OptionEnds
      <4>2. e + 1 \in (j + 1)..(n + 1)
        BY <1>1, <3>1, <4>1
      <4>3. Right(e + 1)
        <5> HIDE DEF Right, e
        <5> QED BY <1>3, <4>2
      <4>4. CASE Splittable(line, e + 1)
        <5>1. f[e + 1] = [result |-> SubSeq(line, e + 1, n), err |-> "none"]
          BY <4>3, <4>4
        <5>2. SubSeq(line, j, e) \o SubSeq(line, e + 1, n) = SubSeq(line, j, n)
          <6>1. j \in 1..(n + 1) /\ e \in (j - 1)..n /\ n \in e..n
            BY <1>1, <3>1, <4>1
          <6> HIDE DEF e
          <6> QED BY <1>1, <6>1, ConcatAdjacentSubSeq
        <5>3. WithOption(line, j, f[e + 1])
                = [result |-> SubSeq(line, j, e) \o SubSeq(line, e + 1, n), err |-> "none"]
          <6> DEFINE rest == SubSeq(line, e + 1, n)
                     option == SubSeq(line, j, e)
          <6>1. WithOption(line, j, f[e + 1])
                  = IF f[e + 1].err = "none" THEN [f[e + 1] EXCEPT !.result = option \o @] ELSE f[e + 1]
            BY Zenon DEF WithOption
          <6>2. f[e + 1] = [result |-> rest, err |-> "none"]
            BY <5>1
          <6> HIDE DEF rest, option, e
          <6> DEFINE later == [result |-> rest, err |-> "none"]
          <6>a. later.err = "none" /\ later.result = rest
            OBVIOUS
          <6> DEFINE joined == option \o rest
          <6>b. [later EXCEPT !.result = joined] = [result |-> joined, err |-> "none"]
            <7> HIDE DEF joined
            <7> QED OBVIOUS
          <6> HIDE DEF joined
          <6> HIDE DEF later
          <6>c. f[e + 1] = later
            BY <6>2 DEF later
          <6>3. WithOption(line, j, f[e + 1]) = [result |-> option \o rest, err |-> "none"]
            BY <6>1, <6>a, <6>b, <6>c, Zenon DEF joined
          <6> QED BY <6>3 DEF rest, option
        <5>4. f[j] = [result |-> SubSeq(line, j, n), err |-> "none"]
          BY <4>1, <5>2, <5>3, Zenon
        <5> QED BY <3>2, <3>4, <4>4, <5>4
      <4>5. CASE ~Splittable(line, e + 1)
        <5>1. f[e + 1].result = <<>> /\ f[e + 1].err # "none"
          BY <4>3, <4>5
        <5>2. WithOption(line, j, f[e + 1]) = f[e + 1]
          BY <5>1, Zenon DEF WithOption
        <5>3. f[j] = f[e + 1]
          BY <4>1, <5>2
        <5> HIDE DEF e
        <5> QED BY <3>2, <4>5, <5>1, <5>3
      <4> QED BY <4>4, <4>5
    <3> QED BY <3>3, <3>4
  <2> QED BY <2>1, <2>2
<1> HIDE DEF Right
<1>4. T = {}
  <2> SUFFICES ASSUME T # {} PROVE FALSE
    OBVIOUS
  <2>1. PICK m \in T : \A k \in T : m <= k
    <3>1. T \in SUBSET Nat
      BY <1>1
    <3> HIDE DEF T
    <3> QED BY <3>1, LeastNumber
  <2>2. m \in 0..n /\ ~Right(n + 1 - m)
    OBVIOUS
  <2> DEFINE j == n + 1 - m
  <2>3. j \in 1..(n + 1)
    BY <1>1, <2>2
  <2>4. ASSUME NEW k \in (j + 1)..(n + 1) PROVE Right(k)
    <3>1. n + 1 - k \in 0..n /\ ~(m <= n + 1 - k) /\ n + 1 - (n + 1 - k) = k
      BY <1>1, <2>2
    <3>2. n + 1 - k \notin T
      BY <2>1, <3>1
    <3> QED BY <3>1, <3>2
  <2> HIDE DEF j, T
  <2>5. Right(j)
    BY <1>3, <2>3, <2>4
  <2> QED BY <2>2, <2>5 DEF j
<1>5. Right(i)
  <2>1. i \in 1..(n + 1) /\ n + 1 - i \in 0..n /\ n + 1 - (n + 1 - i) = i
    BY <1>1
  <2>2. n + 1 - i \notin T
    BY <1>4
  <2> QED BY <2>1, <2>2
<1> QED BY <1>1, <1>5 DEF Right, n

(* BuildArguments accepts what is made of options. *)
LEMMA BuildResult ==
  ASSUME NEW line \in Seq(Tokens)
  PROVE  IF Splittable(line, 1) THEN BuildArguments(line) = [result |-> line, err |-> "none"]
         ELSE BuildArguments(line).result = <<>> /\ BuildArguments(line).err # "none"
<1> DEFINE h == CHOOSE h : IsLoop(line, h)
<1>1. BuildArguments(line) = h[1]
  BY DEF BuildArguments, IsLoop, Turn
<1>2. IsLoop(line, h)
  BY LoopExists
<1> HIDE DEF h
<1>3. 1 \in 1..(Len(line) + 1)
  BY LenProperties
<1>4. SubSeq(line, 1, Len(line)) = line
  BY SubSeqFull
<1>5. IF Splittable(line, 1) THEN h[1] = [result |-> SubSeq(line, 1, Len(line)), err |-> "none"]
      ELSE h[1].result = <<>> /\ h[1].err # "none"
  BY <1>2, <1>3, LoopResult
<1> QED BY <1>1, <1>4, <1>5

(* The rules hold of every command line. *)
LEMMA RulesKept == args \in Seq(Tokens) => TypedFieldsProtected
<1> SUFFICES ASSUME args \in Seq(Tokens) PROVE TypedFieldsProtected
  OBVIOUS
<1> DEFINE n == Len(args)
           Splits(starts) ==
             \A i \in starts : Harmless(SubSeq(args, i, Min({j \in starts : j > i} \cup {n + 1}) - 1))
           Some == \E starts \in SUBSET (1..n) : (n > 0 => 1 \in starts) /\ Splits(starts)
<1>1. n \in Nat
  BY LenProperties
<1>2. Splittable(args, 1) <=> Some
  <2>1. n > 0 <=> 1 <= n
    BY <1>1
  <2> QED BY <2>1 DEF Splittable, Splitting, NextStart
<1>3. IF Some THEN BuildArguments(args) = [result |-> args, err |-> "none"]
      ELSE BuildArguments(args).result = <<>> /\ BuildArguments(args).err # "none"
  BY <1>2, BuildResult
<1> QED BY <1>3, Zenon DEF TypedFieldsProtected

(* For every command line, vocabulary and set of rules, BuildArguments      *)
(* accepts exactly what is made of harmless options, and unchanged.         *)
THEOREM FieldsAreProtected == Spec => []TypedFieldsProtected
<1>1. IInv => args \in Seq(Tokens)
  BY DEF IInv, LoopInv, LoopTypes
<1>2. Spec => []IInv
  BY InitIInv, Inductive, PTL DEF Spec
<1>3. IInv => TypedFieldsProtected
  BY <1>1, RulesKept
<1> QED BY <1>2, <1>3, PTL
=============================================================================
