---------------------------- MODULE DataLemmas ----------------------------
(* Numbers, sequences and folds: what the proofs about the modules have in    *)
(* common.  An induction is done on the smallest member of a set, and a fold  *)
(* by the equation of the recursive function that is inside it.               *)
EXTENDS Integers, Sequences, FiniteSets, FiniteSetsExt, SequencesExt, Functions,
        WellFoundedInduction, FiniteSetTheorems, SequenceTheorems, TLAPS

-----------------------------------------------------------------------------
(* Numbers *)

LEMMA SmallestMember ==
  ASSUME NEW S \in SUBSET Nat, S # {}
  PROVE  \E n \in S : \A m \in S : n <= m
<1>1. PICK n \in S : \A m \in S : ~(<<m, n>> \in OpToRel(<, Nat))
  BY NatLessThanWellFounded, WFMin
<1>2. \A m \in S : ~(m < n)
  BY <1>1 DEF OpToRel
<1> QED
  BY <1>2

LEMMA GreatestMember ==
  ASSUME NEW S \in SUBSET Nat, S # {}, NEW bound \in Nat, \A n \in S : n <= bound
  PROVE  \E n \in S : \A m \in S : m <= n
<1> DEFINE D == {k \in Nat : \E n \in S : k = bound - n}
<1>1. D # {}
  <2>1. PICK n \in S : TRUE
    OBVIOUS
  <2>2. bound - n \in D
    BY <2>1
  <2> QED
    BY <2>2
<1>2. PICK k \in D : \A l \in D : k <= l
  BY <1>1, SmallestMember
<1>3. PICK n \in S : k = bound - n
  BY <1>2
<1>4. \A m \in S : m <= n
  <2> SUFFICES ASSUME NEW m \in S PROVE m <= n
    OBVIOUS
  <2>1. bound - m \in D
    OBVIOUS
  <2>2. k <= bound - m
    BY <1>2, <2>1
  <2> QED
    BY <1>3, <2>2
<1> QED
  BY <1>4

LEMMA NaturalInduction ==
  ASSUME NEW P, 0 \in P, \A n \in Nat : n \in P => n + 1 \in P
  PROVE  Nat \subseteq P
<1> SUFFICES ASSUME NEW k \in Nat, k \notin P PROVE FALSE
  OBVIOUS
<1> DEFINE S == Nat \ P
<1>1. PICK n \in S : \A m \in S : n <= m
  <2>1. S \in SUBSET Nat /\ S # {}
    OBVIOUS
  <2> HIDE DEF S
  <2> QED
    BY <2>1, SmallestMember
<1>2. n \in Nat /\ n # 0
  OBVIOUS
<1>3. n - 1 \in Nat /\ n - 1 \in P /\ (n - 1) + 1 = n
  BY <1>1, <1>2
<1> QED
  BY <1>1, <1>3

-----------------------------------------------------------------------------
(* Sequences from which members are taken or reordered *)

LEMMA Concatenation ==
  ASSUME NEW S, NEW u \in Seq(S), NEW v \in Seq(S)
  PROVE  /\ u \o v \in Seq(S) /\ Len(u \o v) = Len(u) + Len(v)
         /\ \A i \in 1..Len(u \o v) : (u \o v)[i] = IF i <= Len(u) THEN u[i] ELSE v[i - Len(u)]
BY ConcatProperties

LEMMA Removed ==
  ASSUME NEW S, NEW s \in Seq(S), NEW k \in 1..Len(s)
  PROVE  LET t == SubSeq(s, 1, k - 1) \o SubSeq(s, k + 1, Len(s)) IN
         /\ t \in Seq(S) /\ Len(t) = Len(s) - 1
         /\ \A i \in 1..Len(t) : t[i] = IF i < k THEN s[i] ELSE s[i + 1]
<1> DEFINE u == SubSeq(s, 1, k - 1)
           v == SubSeq(s, k + 1, Len(s))
           t == u \o v
<1>1. k \in Nat /\ Len(s) \in Nat /\ k >= 1 /\ k <= Len(s)
  OBVIOUS
<1>2. u \in Seq(S) /\ Len(u) = k - 1 /\ \A i \in 1..(k - 1) : u[i] = s[i]
  BY <1>1
<1>3. v \in Seq(S) /\ Len(v) = Len(s) - k /\ \A i \in 1..(Len(s) - k) : v[i] = s[k + i]
  BY <1>1
<1> SUFFICES /\ t \in Seq(S) /\ Len(t) = Len(s) - 1
             /\ \A i \in 1..Len(t) : t[i] = IF i < k THEN s[i] ELSE s[i + 1]
  OBVIOUS
<1>4. t = u \o v
  OBVIOUS
<1> HIDE DEF t, u, v
<1>5. t \in Seq(S) /\ Len(t) = Len(u) + Len(v)
  BY <1>2, <1>3, <1>4, Concatenation
<1>6. Len(t) = Len(s) - 1
  <2>1. (k - 1) + (Len(s) - k) = Len(s) - 1
    BY <1>1
  <2>2. Len(u) + Len(v) = (k - 1) + (Len(s) - k)
    BY <1>2, <1>3
  <2> QED
    BY <1>5, <2>1, <2>2
<1>7. ASSUME NEW i \in 1..Len(t) PROVE t[i] = IF i < k THEN s[i] ELSE s[i + 1]
  <2>1. i \in Nat /\ i >= 1 /\ i <= Len(s) - 1
    BY <1>1, <1>6
  <2>2. t[i] = IF i <= Len(u) THEN u[i] ELSE v[i - Len(u)]
    BY <1>2, <1>3, <1>4, Concatenation
  <2>3. i >= k => i - (k - 1) \in 1..(Len(s) - k) /\ k + (i - (k - 1)) = i + 1
    BY <1>1, <2>1
  <2>4. CASE i < k
    BY <1>1, <1>2, <2>1, <2>2, <2>4
  <2>5. CASE i >= k
    BY <1>1, <1>2, <1>3, <2>1, <2>2, <2>3, <2>5
  <2> QED
    BY <1>1, <2>1, <2>4, <2>5
<1> QED
  BY <1>5, <1>6, <1>7

(* t holds members of s, each at most once, and none at the places not in P. *)
Picked(t, s, P) ==
  \E m \in [1..Len(t) -> P] : /\ \A i \in 1..Len(t) : t[i] = s[m[i]]
                              /\ \A i, j \in 1..Len(t) : m[i] = m[j] => i = j

LEMMA Inserted ==
  ASSUME NEW S, NEW s \in Seq(S), NEW k \in 1..(Len(s) + 1), NEW e \in S
  PROVE  /\ InsertAt(s, k, e) \in Seq(S) /\ Len(InsertAt(s, k, e)) = Len(s) + 1
         /\ \A i \in 1..(Len(s) + 1) :
              InsertAt(s, k, e)[i] = IF i < k THEN s[i] ELSE IF i = k THEN e ELSE s[i - 1]
<1> DEFINE u == SubSeq(s, 1, k - 1)
           w == <<e>>
           x == u \o w
           v == SubSeq(s, k, Len(s))
           t == x \o v
<1>0. InsertAt(s, k, e) = t
  BY DEF InsertAt
<1>1. k \in Nat /\ Len(s) \in Nat /\ k >= 1 /\ k <= Len(s) + 1
  OBVIOUS
<1>2. u \in Seq(S) /\ Len(u) = k - 1 /\ \A i \in 1..(k - 1) : u[i] = s[i]
  BY <1>1
<1>3. v \in Seq(S) /\ Len(v) = Len(s) - k + 1 /\ \A i \in 1..(Len(s) - k + 1) : v[i] = s[k + i - 1]
  BY <1>1
<1>4. w \in Seq(S) /\ Len(w) = 1 /\ w[1] = e
  OBVIOUS
<1>5. x = u \o w /\ t = x \o v
  OBVIOUS
<1> HIDE DEF t, u, v, w, x
<1>6. /\ x \in Seq(S) /\ Len(x) = Len(u) + Len(w)
      /\ \A i \in 1..Len(x) : x[i] = IF i <= Len(u) THEN u[i] ELSE w[i - Len(u)]
  BY <1>2, <1>4, <1>5, Concatenation
<1>7. Len(x) = k /\ \A i \in 1..k : x[i] = IF i < k THEN s[i] ELSE e
  <2>1. Len(x) = k
    BY <1>1, <1>2, <1>4, <1>6
  <2>2. ASSUME NEW i \in 1..k PROVE x[i] = IF i < k THEN s[i] ELSE e
    <3>1. x[i] = IF i <= k - 1 THEN u[i] ELSE w[i - (k - 1)]
      BY <1>2, <1>6, <2>1
    <3>2. i \in Nat /\ (i < k => i \in 1..(k - 1)) /\ (~(i < k) => i - (k - 1) = 1)
      BY <1>1
    <3> QED
      BY <1>1, <1>2, <1>4, <3>1, <3>2
  <2> QED
    BY <2>1, <2>2
<1>8. /\ t \in Seq(S) /\ Len(t) = Len(x) + Len(v)
      /\ \A i \in 1..Len(t) : t[i] = IF i <= Len(x) THEN x[i] ELSE v[i - Len(x)]
  <2>1. x \in Seq(S) /\ v \in Seq(S) /\ t = x \o v
    BY <1>3, <1>5, <1>6
  <2> QED
    BY <2>1, Concatenation
<1>9. Len(t) = Len(s) + 1
  BY <1>1, <1>3, <1>7, <1>8
<1>10. ASSUME NEW i \in 1..(Len(s) + 1)
       PROVE  t[i] = IF i < k THEN s[i] ELSE IF i = k THEN e ELSE s[i - 1]
  <2>1. t[i] = IF i <= k THEN x[i] ELSE v[i - k]
    BY <1>7, <1>8, <1>9
  <2>2. i \in Nat /\ (i <= k => i \in 1..k)
        /\ (~(i <= k) => i - k \in 1..(Len(s) - k + 1) /\ k + (i - k) - 1 = i - 1)
    BY <1>1
  <2>3. CASE i <= k
    BY <1>1, <1>7, <2>1, <2>2, <2>3
  <2>4. CASE ~(i <= k)
    BY <1>1, <1>3, <2>1, <2>2, <2>4
  <2> QED
    BY <2>3, <2>4
<1> QED
  BY <1>0, <1>8, <1>9, <1>10

-----------------------------------------------------------------------------
(* Folds over finite sets: the recursive function inside MapThenFoldSet exists
   and is determined by its equation. *)

LEMMA SubsetInduction ==
  ASSUME NEW D, IsFiniteSet(D), NEW P,
         \A s \in SUBSET D : (\A x \in s : s \ {x} \in P) => s \in P
  PROVE  SUBSET D \subseteq P
<1> SUFFICES ASSUME NEW r \in SUBSET D, r \notin P PROVE FALSE
  OBVIOUS
<1> DEFINE Sizes == {n \in Nat : \E s \in SUBSET D : s \notin P /\ n = Cardinality(s)}
<1>1. \A s \in SUBSET D : IsFiniteSet(s) /\ Cardinality(s) \in Nat
  BY FS_Subset, FS_CardinalityType
<1>2. Sizes # {}
  BY <1>1
<1>3. PICK n \in Sizes : \A m \in Sizes : n <= m
  BY <1>2, SmallestMember
<1>4. PICK s \in SUBSET D : s \notin P /\ n = Cardinality(s)
  BY <1>3
<1>5. ASSUME NEW x \in s PROVE s \ {x} \in P
  <2>1. Cardinality(s \ {x}) = Cardinality(s) - 1 /\ s \ {x} \in SUBSET D
    BY <1>1, FS_RemoveElement
  <2>2. Cardinality(s \ {x}) \in Nat /\ Cardinality(s) \in Nat
    BY <1>1, <2>1
  <2> SUFFICES ASSUME s \ {x} \notin P PROVE FALSE
    OBVIOUS
  <2>3. PICK m \in Nat : m = Cardinality(s \ {x})
    BY <2>2
  <2> DEFINE t == s \ {x}
  <2>4. t \in SUBSET D /\ t \notin P /\ m = Cardinality(t)
    BY <2>1, <2>3
  <2> HIDE DEF t
  <2>5. m \in Sizes
    BY <2>4
  <2>6. m < n
    BY <1>4, <2>1, <2>2, <2>3
  <2> QED
    BY <1>3, <2>5, <2>6
<1> QED
  BY <1>4, <1>5

(* The equation of a fold whose step is the function g and whose choice of the
   next member is the function choice. *)
FoldOf(it, D, base, choice, g) ==
  \A s \in SUBSET D : it[s] = IF s = {} THEN base ELSE g[<<choice[s], it[s \ {choice[s]}]>>]

LEMMA FoldExists ==
  ASSUME NEW D, IsFiniteSet(D), NEW V, NEW base \in V, NEW choice, NEW g,
         \A s \in SUBSET D : s # {} => choice[s] \in s,
         \A x \in D, v \in V : g[<<x, v>>] \in V
  PROVE  \E it \in [SUBSET D -> V] : FoldOf(it, D, base, choice, g)
<1> DEFINE Small(n) == {s \in SUBSET D : Cardinality(s) <= n}
           Eq(it, s) == it[s] = IF s = {} THEN base ELSE g[<<choice[s], it[s \ {choice[s]}]>>]
           P == {n \in Nat : \E it \in [Small(n) -> V] : \A s \in Small(n) : Eq(it, s)}
<1>1. \A s \in SUBSET D : IsFiniteSet(s) /\ Cardinality(s) \in Nat /\ (Cardinality(s) = 0 <=> s = {})
  BY FS_Subset, FS_CardinalityType, FS_EmptySet
<1>2. 0 \in P
  <2> DEFINE it == [s \in Small(0) |-> base]
  <2>1. \A s \in Small(0) : s = {}
    BY <1>1
  <2>2. it \in [Small(0) -> V] /\ \A s \in Small(0) : Eq(it, s)
    BY <2>1
  <2> QED
    BY <2>2
<1>3. ASSUME NEW n \in Nat, n \in P PROVE n + 1 \in P
  <2>1. PICK it : it \in [Small(n) -> V] /\ \A s \in Small(n) : Eq(it, s)
    BY <1>3
  <2>2. ASSUME NEW s \in Small(n + 1), s # {}
        PROVE  choice[s] \in s /\ s \ {choice[s]} \in Small(n)
    <3>1. choice[s] \in s /\ s \in SUBSET D /\ Cardinality(s) <= n + 1
      BY <2>2
    <3>2. Cardinality(s \ {choice[s]}) = Cardinality(s) - 1
      BY <1>1, <3>1, FS_RemoveElement
    <3>3. Cardinality(s) \in Nat
      BY <1>1, <3>1
    <3> QED
      BY <3>1, <3>2, <3>3
  <2>3. \A s \in Small(n) : s \in Small(n + 1)
    BY <1>1
  <2> DEFINE jt == [s \in Small(n + 1) |-> IF s \in Small(n) THEN it[s]
                                           ELSE g[<<choice[s], it[s \ {choice[s]}]>>]]
  <2>4. ASSUME NEW s \in Small(n + 1), s \notin Small(n)
        PROVE  s # {} /\ g[<<choice[s], it[s \ {choice[s]}]>>] \in V
    <3>1. s # {}
      BY <1>1, <2>4
    <3>2. choice[s] \in D /\ it[s \ {choice[s]}] \in V
      BY <2>1, <2>2, <3>1
    <3> QED
      BY <3>1, <3>2
  <2>5. jt \in [Small(n + 1) -> V]
    BY <2>1, <2>4
  <2>6. \A s \in Small(n) : jt[s] = it[s]
    BY <2>3
  <2>7. \A s \in Small(n + 1) : s \notin Small(n) => jt[s] = g[<<choice[s], it[s \ {choice[s]}]>>]
    OBVIOUS
  <2> HIDE DEF jt
  <2>8. ASSUME NEW s \in Small(n + 1) PROVE Eq(jt, s)
    <3>1. CASE s = {}
      <4>1. s \in Small(n)
        BY <1>1, <3>1
      <4> QED
        BY <2>1, <2>6, <3>1, <4>1
    <3>2. CASE s # {}
      <4>1. s \ {choice[s]} \in Small(n)
        BY <2>2, <3>2
      <4>2. jt[s \ {choice[s]}] = it[s \ {choice[s]}]
        BY <2>6, <4>1
      <4>3. CASE s \in Small(n)
        <5>1. jt[s] = it[s] /\ Eq(it, s)
          BY <2>1, <2>6, <4>3
        <5> QED
          BY <3>2, <4>2, <5>1
      <4>4. CASE s \notin Small(n)
        BY <2>7, <3>2, <4>2, <4>4
      <4> QED
        BY <4>3, <4>4
    <3> QED
      BY <3>1, <3>2
  <2>9. \E kt : kt \in [Small(n + 1) -> V] /\ \A s \in Small(n + 1) : Eq(kt, s)
    BY <2>5, <2>8
  <2>10. n + 1 \in Nat
    OBVIOUS
  <2> QED
    BY <2>9, <2>10, Zenon
<1> HIDE DEF P
<1>4. Cardinality(D) \in P
  BY <1>1, <1>2, <1>3, NaturalInduction
<1>5. PICK it : /\ it \in [Small(Cardinality(D)) -> V]
                /\ \A s \in Small(Cardinality(D)) : Eq(it, s)
  BY <1>4 DEF P
<1>6. Small(Cardinality(D)) = SUBSET D
  BY FS_Subset
<1> QED
  BY <1>5, <1>6 DEF FoldOf

LEMMA FoldValues ==
  ASSUME NEW D, IsFiniteSet(D), NEW V, NEW base \in V, NEW choice, NEW g, NEW it,
         FoldOf(it, D, base, choice, g),
         \A s \in SUBSET D : s # {} => choice[s] \in s,
         \A x \in D, v \in V : g[<<x, v>>] \in V
  PROVE  \A s \in SUBSET D : it[s] \in V
<1> DEFINE P == {s \in SUBSET D : it[s] \in V}
<1>1. ASSUME NEW s \in SUBSET D, \A x \in s : s \ {x} \in P
      PROVE  it[s] \in V
  <2>1. it[s] = IF s = {} THEN base ELSE g[<<choice[s], it[s \ {choice[s]}]>>]
    BY DEF FoldOf
  <2>2. CASE s # {}
    <3>1. choice[s] \in s
      BY <2>2
    <3>2. it[s \ {choice[s]}] \in V
      BY <1>1, <3>1
    <3> QED
      BY <2>1, <2>2, <3>1, <3>2
  <2> QED
    BY <2>1, <2>2
<1>2. \A s \in SUBSET D : (\A x \in s : s \ {x} \in P) => s \in P
  BY <1>1
<1> HIDE DEF P
<1>3. SUBSET D \subseteq P
  BY <1>2, SubsetInduction
<1> QED
  BY <1>3 DEF P

-----------------------------------------------------------------------------
(* Sums *)

Sum(c, S) == MapThenSumSet(LAMBDA x : c[x], S)
Some(s) == CHOOSE x \in s : TRUE
SumOf(it, D, c) == it = [s \in SUBSET D |-> IF s = {} THEN 0 ELSE c[Some(s)] + it[s \ {Some(s)}]]

LEMMA SumOfExists ==
  ASSUME NEW D, IsFiniteSet(D), NEW c, \A x \in D : c[x] \in Int
  PROVE  \E it : SumOf(it, D, c)
<1> DEFINE choice == [s \in SUBSET D |-> Some(s)]
           g == [p \in D \X Int |-> c[p[1]] + p[2]]
<1>1. \A s \in SUBSET D : s # {} => choice[s] \in s /\ choice[s] = Some(s)
  BY DEF Some
<1>2. \A x \in D, v \in Int : g[<<x, v>>] \in Int /\ g[<<x, v>>] = c[x] + v
  OBVIOUS
<1> HIDE DEF choice, g
<1>3. PICK it : it \in [SUBSET D -> Int] /\ FoldOf(it, D, 0, choice, g)
  <2>1. 0 \in Int
    OBVIOUS
  <2> QED
    BY <1>1, <1>2, <2>1, FoldExists
<1>4. ASSUME NEW s \in SUBSET D
      PROVE  it[s] = IF s = {} THEN 0 ELSE c[Some(s)] + it[s \ {Some(s)}]
  <2>1. CASE s = {}
    BY <1>3, <2>1 DEF FoldOf
  <2>2. CASE s # {}
    <3>1. /\ choice[s] = Some(s) /\ Some(s) \in D /\ s \ {Some(s)} \in SUBSET D
          /\ it[s \ {Some(s)}] \in Int
      BY <1>1, <1>3, <2>2
    <3>2. it[s] = g[<<Some(s), it[s \ {Some(s)}]>>]
      BY <1>3, <2>2, <3>1 DEF FoldOf
    <3> QED
      BY <1>2, <2>2, <3>1, <3>2
  <2> QED
    BY <2>1, <2>2
<1>5. it = [s \in SUBSET D |-> IF s = {} THEN 0 ELSE c[Some(s)] + it[s \ {Some(s)}]]
  BY <1>3, <1>4
<1> QED
  BY <1>5 DEF SumOf

LEMMA SumOfUnique ==
  ASSUME NEW D, NEW E, NEW S, IsFiniteSet(S), S \subseteq D, S \subseteq E, NEW c, NEW d,
         \A x \in S : c[x] = d[x], NEW it, NEW jt, SumOf(it, D, c), SumOf(jt, E, d)
  PROVE  it[S] = jt[S]
<1> DEFINE P == {s \in SUBSET S : it[s] = jt[s]}
<1>1. ASSUME NEW s \in SUBSET S, \A x \in s : s \ {x} \in P
      PROVE  it[s] = jt[s]
  <2>1. /\ it[s] = IF s = {} THEN 0 ELSE c[Some(s)] + it[s \ {Some(s)}]
        /\ jt[s] = IF s = {} THEN 0 ELSE d[Some(s)] + jt[s \ {Some(s)}]
    BY DEF SumOf
  <2>2. CASE s # {}
    <3>1. Some(s) \in s
      BY <2>2 DEF Some
    <3> QED
      BY <1>1, <2>1, <3>1
  <2> QED
    BY <2>1, <2>2
<1>2. \A s \in SUBSET S : (\A x \in s : s \ {x} \in P) => s \in P
  BY <1>1
<1> HIDE DEF P
<1>3. SUBSET S \subseteq P
  BY <1>2, SubsetInduction
<1> QED
  BY <1>3 DEF P

LEMMA SumOfInteger ==
  ASSUME NEW D, IsFiniteSet(D), NEW c, \A x \in D : c[x] \in Int, NEW it, SumOf(it, D, c)
  PROVE  \A s \in SUBSET D : it[s] \in Int
<1> DEFINE P == {s \in SUBSET D : it[s] \in Int}
<1>1. ASSUME NEW s \in SUBSET D, \A x \in s : s \ {x} \in P
      PROVE  it[s] \in Int
  <2>1. it[s] = IF s = {} THEN 0 ELSE c[Some(s)] + it[s \ {Some(s)}]
    BY DEF SumOf
  <2>2. CASE s # {}
    <3>1. Some(s) \in s /\ c[Some(s)] \in Int
      BY <2>2 DEF Some
    <3>2. it[s \ {Some(s)}] \in Int
      BY <1>1, <3>1
    <3> QED
      BY <2>1, <2>2, <3>1, <3>2
  <2> QED
    BY <2>1, <2>2
<1>2. \A s \in SUBSET D : (\A x \in s : s \ {x} \in P) => s \in P
  BY <1>1
<1> HIDE DEF P
<1>3. SUBSET D \subseteq P
  BY <1>2, SubsetInduction
<1> QED
  BY <1>3 DEF P

(* Whatever the order in which the members are taken. *)
LEMMA SumOfAny ==
  ASSUME NEW D, IsFiniteSet(D), NEW c, \A x \in D : c[x] \in Int, NEW it, SumOf(it, D, c),
         NEW r \in D
  PROVE  it[D] = c[r] + it[D \ {r}]
<1> DEFINE P == {s \in SUBSET D : \A x \in s : it[s] = c[x] + it[s \ {x}]}
<1>1. ASSUME NEW s \in SUBSET D, \A x \in s : s \ {x} \in P, NEW x \in s
      PROVE  it[s] = c[x] + it[s \ {x}]
  <2> DEFINE y == Some(s)
  <2>1. y \in s
    BY DEF Some
  <2>2. it[s] = c[y] + it[s \ {y}]
    BY DEF SumOf
  <2> HIDE DEF y
  <2>3. CASE x # y
    <3>1. it[s \ {y}] = c[x] + it[(s \ {y}) \ {x}]
      BY <1>1, <2>1, <2>3
    <3>2. it[s \ {x}] = c[y] + it[(s \ {x}) \ {y}]
      BY <1>1, <2>1, <2>3
    <3>3. (s \ {y}) \ {x} = (s \ {x}) \ {y}
      OBVIOUS
    <3>4. c[x] \in Int /\ c[y] \in Int /\ it[(s \ {x}) \ {y}] \in Int
      BY <2>1, SumOfInteger
    <3>5. PICK z \in Int : z = it[(s \ {x}) \ {y}]
      BY <3>4
    <3>6. it[s \ {y}] = c[x] + z /\ it[s \ {x}] = c[y] + z
      BY <3>1, <3>2, <3>3, <3>5
    <3> QED
      BY <2>2, <3>4, <3>6
  <2> QED
    BY <2>2, <2>3
<1>2. \A s \in SUBSET D : (\A x \in s : s \ {x} \in P) => s \in P
  BY <1>1
<1> HIDE DEF P
<1>3. SUBSET D \subseteq P
  BY <1>2, SubsetInduction
<1>4. D \in P
  BY <1>3
<1> QED
  BY <1>4 DEF P

LEMMA SumIsSumOf ==
  ASSUME NEW S, IsFiniteSet(S), NEW c, \A x \in S : c[x] \in Int
  PROVE  \E it : SumOf(it, S, c) /\ Sum(c, S) = it[S]
<1> DEFINE P(it) == it = [s \in SUBSET S |-> IF s = {} THEN 0
                            ELSE c[CHOOSE x \in s : TRUE] + it[s \ {CHOOSE x \in s : TRUE}]]
<1>1. Sum(c, S) = (CHOOSE it : P(it))[S]
  BY Zenon DEF Sum, MapThenSumSet, MapThenFoldSet
<1>2. \A it : P(it) <=> SumOf(it, S, c)
  BY DEF SumOf, Some
<1> HIDE DEF P
<1>3. \E it : P(it)
  <2>1. PICK it : SumOf(it, S, c)
    BY SumOfExists
  <2> QED
    BY <1>2, <2>1
<1>4. P(CHOOSE it : P(it))
  BY <1>3
<1> QED
  BY <1>1, <1>2, <1>4

LEMMA SumEmpty == \A c : Sum(c, {}) = 0
<1> SUFFICES ASSUME NEW c PROVE Sum(c, {}) = 0
  OBVIOUS
<1>1. PICK it : SumOf(it, {}, c) /\ Sum(c, {}) = it[{}]
  BY SumIsSumOf, FS_EmptySet
<1> QED
  BY <1>1 DEF SumOf

LEMMA SumRemoves ==
  ASSUME NEW S, IsFiniteSet(S), NEW c, \A x \in S : c[x] \in Int
  PROVE  /\ Sum(c, S) \in Int
         /\ \A x \in S : Sum(c, S) = c[x] + Sum(c, S \ {x})
<1>1. PICK it : SumOf(it, S, c) /\ Sum(c, S) = it[S]
  BY SumIsSumOf
<1>2. Sum(c, S) \in Int
  BY <1>1, SumOfInteger
<1>4. ASSUME NEW x \in S PROVE it[S] = c[x] + it[S \ {x}]
  BY <1>1, SumOfAny
<1>3. ASSUME NEW x \in S PROVE Sum(c, S) = c[x] + Sum(c, S \ {x})
  <2> DEFINE T == S \ {x}
  <2>1. T \in SUBSET S /\ T \subseteq S /\ IsFiniteSet(T) /\ \A y \in T : c[y] \in Int
    BY FS_Subset
  <2>4. it[S] = c[x] + it[T]
    BY <1>4
  <2> HIDE DEF T
  <2>2. PICK jt : SumOf(jt, T, c) /\ Sum(c, T) = jt[T]
    BY <2>1, SumIsSumOf
  <2>3. it[T] = jt[T]
    BY <1>1, <2>1, <2>2, SumOfUnique
  <2> QED
    BY <1>1, <2>2, <2>3, <2>4 DEF T
<1> QED
  BY <1>2, <1>3

LEMMA SumAgrees ==
  ASSUME NEW S, IsFiniteSet(S), NEW c, NEW d, \A x \in S : c[x] \in Int /\ c[x] = d[x]
  PROVE  Sum(c, S) = Sum(d, S)
<1>1. PICK it : SumOf(it, S, c) /\ Sum(c, S) = it[S]
  BY SumIsSumOf
<1>2. PICK jt : SumOf(jt, S, d) /\ Sum(d, S) = jt[S]
  BY SumIsSumOf
<1>3. it[S] = jt[S]
  BY <1>1, <1>2, SumOfUnique
<1> QED
  BY <1>1, <1>2, <1>3

(* A sum over a part, and over the rest. *)
LEMMA SumSplits ==
  ASSUME NEW T, IsFiniteSet(T), NEW c, \A x \in T : c[x] \in Int, NEW S, S \subseteq T
  PROVE  Sum(c, T) = Sum(c, S) + Sum(c, T \ S)
<1> DEFINE P == {s \in SUBSET T : Sum(c, T) = Sum(c, s) + Sum(c, T \ s)}
<1>1. ASSUME NEW s \in SUBSET T, \A x \in s : s \ {x} \in P
      PROVE  Sum(c, T) = Sum(c, s) + Sum(c, T \ s)
  <2>1. CASE s = {}
    <3>1. T \ s = T /\ Sum(c, T) \in Int /\ Sum(c, s) = 0
      BY <2>1, SumRemoves, SumEmpty
    <3> QED
      BY <3>1
  <2>2. CASE s # {}
    <3>1. PICK x : x \in s
      BY <2>2
    <3>2. PICK r : r = s \ {x}
      OBVIOUS
    <3>3. PICK u : u = T \ r
      OBVIOUS
    <3>4. Sum(c, T) = Sum(c, r) + Sum(c, u)
      BY <1>1, <3>1, <3>2, <3>3
    <3>5. IsFiniteSet(s) /\ IsFiniteSet(r) /\ IsFiniteSet(u) /\ x \in u /\ u \subseteq T /\ r \subseteq T
      BY <3>1, <3>2, <3>3, FS_Subset
    <3>6. Sum(c, s) = c[x] + Sum(c, r) /\ Sum(c, r) \in Int
      <4>1. (\A y \in s : c[y] \in Int) /\ \A y \in r : c[y] \in Int
        BY <3>2
      <4> QED
        BY <3>1, <3>2, <3>5, <4>1, SumRemoves
    <3>7. Sum(c, u) = c[x] + Sum(c, u \ {x}) /\ Sum(c, u) \in Int
      <4>1. \A y \in u : c[y] \in Int
        BY <3>5
      <4> QED
        BY <3>5, <4>1, SumRemoves
    <3>8. u \ {x} = T \ s
      BY <3>1, <3>2, <3>3
    <3>9. PICK rest : rest = Sum(c, T \ s) /\ rest \in Int
      <4>1. IsFiniteSet(T \ s) /\ \A y \in T \ s : c[y] \in Int
        BY FS_Subset
      <4> QED
        BY <4>1, SumRemoves
    <3>10. Sum(c, u) = c[x] + rest
      BY <3>7, <3>8, <3>9
    <3>11. PICK part : part = Sum(c, r) /\ part \in Int
      BY <3>6
    <3>12. c[x] \in Int /\ Sum(c, T) = part + (c[x] + rest) /\ Sum(c, s) = c[x] + part
      BY <3>1, <3>4, <3>6, <3>10, <3>11
    <3> QED
      BY <3>9, <3>11, <3>12
  <2> QED
    BY <2>1, <2>2
<1>2. \A s \in SUBSET T : (\A x \in s : s \ {x} \in P) => s \in P
  BY <1>1
<1> HIDE DEF P
<1>3. SUBSET T \subseteq P
  BY <1>2, SubsetInduction
<1> QED
  BY <1>3 DEF P

LEMMA SumNatural ==
  ASSUME NEW T, IsFiniteSet(T), NEW c, \A x \in T : c[x] \in Nat
  PROVE  Sum(c, T) \in Nat
<1> DEFINE P == {s \in SUBSET T : Sum(c, s) \in Nat}
<1>1. ASSUME NEW s \in SUBSET T, \A x \in s : s \ {x} \in P
      PROVE  Sum(c, s) \in Nat
  <2>1. CASE s = {}
    BY <2>1, SumEmpty
  <2>2. CASE s # {}
    <3>1. PICK x : x \in s
      BY <2>2
    <3>2. IsFiniteSet(s) /\ \A y \in s : c[y] \in Int
      BY FS_Subset
    <3>3. Sum(c, s) = c[x] + Sum(c, s \ {x})
      BY <3>1, <3>2, SumRemoves
    <3>4. c[x] \in Nat /\ Sum(c, s \ {x}) \in Nat
      BY <1>1, <3>1
    <3> QED
      BY <3>3, <3>4
  <2> QED
    BY <2>1, <2>2
<1>2. \A s \in SUBSET T : (\A x \in s : s \ {x} \in P) => s \in P
  BY <1>1
<1> HIDE DEF P
<1>3. SUBSET T \subseteq P
  BY <1>2, SubsetInduction
<1> QED
  BY <1>3 DEF P

\* What each item counts is a part of its own: the sum is the number of all of it.
LEMMA SumOfFibres ==
  ASSUME NEW T, IsFiniteSet(T), NEW I, IsFiniteSet(I), NEW fibre, NEW c,
         \A x \in T : fibre[x] \subseteq I /\ c[x] = Cardinality(fibre[x]),
         \A x, y \in T : x # y => fibre[x] \cap fibre[y] = {},
         \A i \in I : \E x \in T : i \in fibre[x]
  PROVE  Sum(c, T) = Cardinality(I)
<1> DEFINE All(s) == UNION {fibre[x] : x \in s}
           P == {s \in SUBSET T : Sum(c, s) = Cardinality(All(s))}
<1>0. \A x \in T : c[x] \in Int /\ IsFiniteSet(fibre[x])
  <2> SUFFICES ASSUME NEW x \in T PROVE c[x] \in Int /\ IsFiniteSet(fibre[x])
    OBVIOUS
  <2>1. IsFiniteSet(fibre[x]) /\ Cardinality(fibre[x]) \in Nat
    BY FS_Subset, FS_CardinalityType
  <2> QED
    BY <2>1
<1>1. ASSUME NEW s \in SUBSET T, \A x \in s : s \ {x} \in P
      PROVE  Sum(c, s) = Cardinality(All(s))
  <2>1. CASE s = {}
    <3>1. All(s) = {}
      BY <2>1
    <3> QED
      BY <2>1, <3>1, SumEmpty, FS_EmptySet
  <2>2. CASE s # {}
    <3>1. PICK x : x \in s
      BY <2>2
    <3>2. IsFiniteSet(s) /\ \A y \in s : c[y] \in Int
      BY <1>0, FS_Subset
    <3>3. Sum(c, s) = c[x] + Sum(c, s \ {x})
      BY <3>1, <3>2, SumRemoves
    <3>4. Sum(c, s \ {x}) = Cardinality(All(s \ {x}))
      BY <1>1, <3>1
    <3>5. PICK u : u = All(s \ {x})
      OBVIOUS
    <3>6. /\ All(s) = fibre[x] \cup u
          /\ fibre[x] \cap u = {}
          /\ u \subseteq I
      BY <3>1, <3>5
    <3>7. IsFiniteSet(u) /\ IsFiniteSet(fibre[x]) /\ Cardinality({}) = 0
      BY <1>0, <3>1, <3>6, FS_Subset, FS_EmptySet
    <3>8. Cardinality(fibre[x] \cup u) = Cardinality(fibre[x]) + Cardinality(u) - Cardinality(fibre[x] \cap u)
      BY <3>7, FS_Union
    <3>9. Cardinality(u) \in Nat /\ Cardinality(fibre[x]) \in Nat /\ c[x] = Cardinality(fibre[x])
      BY <3>1, <3>7, FS_CardinalityType
    <3> HIDE DEF All
    <3>10. PICK m, n, k : m = Cardinality(u) /\ n = Cardinality(fibre[x]) /\ k = Cardinality(fibre[x] \cup u)
      OBVIOUS
    <3>11. k = n + m - 0 /\ m \in Nat /\ n \in Nat
      BY <3>6, <3>7, <3>8, <3>9, <3>10
    <3>12. k = n + m
      BY ONLY <3>11
    <3> QED
      BY <3>3, <3>4, <3>5, <3>6, <3>9, <3>10, <3>12
  <2> QED
    BY <2>1, <2>2
<1>2. \A s \in SUBSET T : (\A x \in s : s \ {x} \in P) => s \in P
  BY <1>1
<1> HIDE DEF P
<1>3. SUBSET T \subseteq P
  BY <1>2, SubsetInduction
<1>4. T \in P
  BY <1>3
<1>5. Sum(c, T) = Cardinality(All(T))
  BY <1>4 DEF P
<1>6. All(T) = I
  OBVIOUS
<1> QED
  BY <1>5, <1>6

\* Things are grouped by a key, and every group has an item of its own that says how many.
Grouping(I, key, groups, item, items, c) ==
  /\ \A i \in I : key[i] \in groups
  /\ \A g \in groups : \E i \in I : key[i] = g
  /\ \A g \in groups : item[g] \in items
  /\ \A x \in items : \E g \in groups : x = item[g]
  /\ \A g, h \in groups : item[g] = item[h] => g = h
  /\ \A g \in groups : c[item[g]] = Cardinality({i \in I : key[i] = g})

LEMMA Grouped ==
  ASSUME NEW I, IsFiniteSet(I), NEW key, NEW groups, NEW item, NEW items, NEW c,
         Grouping(I, key, groups, item, items, c)
  PROVE  /\ IsFiniteSet(items) /\ \A x \in items : c[x] \in Int
         /\ Sum(c, items) = Cardinality(I)
         /\ Cardinality(items) = Cardinality(groups)
<1> USE DEF Grouping
<1>1. IsFiniteSet(groups)
  <2> DEFINE k == [i \in I |-> key[i]]
  <2>1. k \in Surjection(I, groups)
    BY DEF Surjection
  <2> HIDE DEF k
  <2> QED
    BY <2>1, FS_Surjection
<1>2. IsFiniteSet(items) /\ Cardinality(items) = Cardinality(groups)
  <2> DEFINE f == [g \in groups |-> item[g]]
  <2>1. f \in Bijection(groups, items)
    <3>1. f \in [groups -> items]
      OBVIOUS
    <3>2. \A g, h \in groups : f[g] = f[h] => g = h
      OBVIOUS
    <3>3. \A x \in items : \E g \in groups : f[g] = x
      OBVIOUS
    <3> HIDE DEF f
    <3> QED
      BY <3>1, <3>2, <3>3 DEF Bijection, Injection, Surjection, IsInjective
  <2>2. ExistsBijection(groups, items)
    BY <2>1 DEF ExistsBijection
  <2> QED
    BY <1>1, <2>2, FS_Bijection
<1> DEFINE fibre == [x \in items |-> {i \in I : item[key[i]] = x}]
<1>3. \A x \in items : fibre[x] \subseteq I /\ c[x] = Cardinality(fibre[x])
  <2> SUFFICES ASSUME NEW x \in items PROVE fibre[x] \subseteq I /\ c[x] = Cardinality(fibre[x])
    OBVIOUS
  <2>1. PICK g \in groups : x = item[g]
    OBVIOUS
  <2>2. fibre[x] = {i \in I : item[key[i]] = x}
    OBVIOUS
  <2>3. {i \in I : key[i] = g} = {i \in I : item[key[i]] = x}
    BY <2>1
  <2> HIDE DEF fibre
  <2>4. c[item[g]] = Cardinality({i \in I : key[i] = g})
    OBVIOUS
  <2> HIDE DEF Grouping
  <2>5. fibre[x] \subseteq I
    BY <2>2
  <2> QED
    BY <2>1, <2>2, <2>3, <2>4, <2>5
<1>4. \A x, y \in items : x # y => fibre[x] \cap fibre[y] = {}
  OBVIOUS
<1>5. \A i \in I : \E x \in items : i \in fibre[x]
  <2> SUFFICES ASSUME NEW i \in I PROVE \E x \in items : i \in fibre[x]
    OBVIOUS
  <2>1. item[key[i]] \in items /\ i \in fibre[item[key[i]]]
    OBVIOUS
  <2> QED
    BY <2>1
<1> HIDE DEF fibre
<1>6. Sum(c, items) = Cardinality(I)
  BY <1>2, <1>3, <1>4, <1>5, SumOfFibres
<1>7. \A x \in items : c[x] \in Int
  <2> SUFFICES ASSUME NEW x \in items PROVE c[x] \in Int
    OBVIOUS
  <2>1. c[x] = Cardinality(fibre[x]) /\ IsFiniteSet(fibre[x])
    BY <1>3, FS_Subset
  <2>2. Cardinality(fibre[x]) \in Nat
    BY <2>1, FS_CardinalityType
  <2> QED
    BY <2>1, <2>2
<1> QED
  BY <1>2, <1>6, <1>7

\* The equation of a fold that drops the entries of some places of a list.
FilterOf(it, list, choice, drop) ==
  it = [s \in SUBSET DOMAIN list |->
          IF s = {} THEN <<>>
          ELSE IF choice[s] \in drop THEN it[s \ {choice[s]}]
          ELSE Append(it[s \ {choice[s]}], list[choice[s]])]

\* Such a fold exists, and what it keeps is of the list.
LEMMA FilterKeeps ==
  ASSUME NEW V, NEW list, list \in Seq(V), NEW drop, NEW choice,
         \A s \in SUBSET DOMAIN list : s # {} => choice[s] \in s
  PROVE  /\ \E it : FilterOf(it, list, choice, drop)
         /\ \A it : FilterOf(it, list, choice, drop) => it[DOMAIN list] \in Seq(V)
<1> DEFINE D == DOMAIN list
           W == Seq(V)
           base == <<>>
           g == [x \in D \X W |-> IF x[1] \in drop THEN x[2] ELSE Append(x[2], list[x[1]])]
           Pick(it, s) == IF s = {} THEN base
                          ELSE IF choice[s] \in drop THEN it[s \ {choice[s]}]
                          ELSE Append(it[s \ {choice[s]}], list[choice[s]])
<1>1. IsFiniteSet(D) /\ base \in W
  <2>1. D = 1..Len(list) /\ Len(list) \in Nat
    OBVIOUS
  <2> QED
    BY <2>1, FS_Interval
<1>2. \A x \in D, w \in W : /\ g[<<x, w>>] = IF x \in drop THEN w ELSE Append(w, list[x])
                            /\ g[<<x, w>>] \in W
                            /\ Append(w, list[x]) \in W
  <2>1. \A x \in D : list[x] \in V
    OBVIOUS
  <2>2. \A x \in D, w \in W : Append(w, list[x]) \in W
    BY <2>1
  <2> HIDE DEF D, W
  <2> QED
    BY <2>2
<1>3. \A it : FilterOf(it, list, choice, drop) <=> it = [s \in SUBSET D |-> Pick(it, s)]
  BY DEF FilterOf
<1>4. \A s \in SUBSET D : s # {} => choice[s] \in s
  OBVIOUS
<1> HIDE DEF D, W, base, g
<1>5. \E it : FilterOf(it, list, choice, drop)
  <2>1. PICK it : it \in [SUBSET D -> W] /\ FoldOf(it, D, base, choice, g)
    BY <1>1, <1>2, <1>4, FoldExists
  <2>2. ASSUME NEW s \in SUBSET D PROVE it[s] = Pick(it, s)
    <3>1. CASE s = {}
      BY <2>1, <3>1 DEF FoldOf
    <3>2. CASE s # {}
      <4>1. it[s] = g[<<choice[s], it[s \ {choice[s]}]>>]
        BY <2>1, <3>2 DEF FoldOf
      <4>2. choice[s] \in D /\ it[s \ {choice[s]}] \in W
        BY <1>4, <2>1, <3>2
      <4> QED
        BY <1>2, <3>2, <4>1, <4>2
    <3> QED
      BY <3>1, <3>2
  <2>3. it = [s \in SUBSET D |-> Pick(it, s)]
    <3> HIDE DEF Pick
    <3> QED
      BY <2>1, <2>2
  <2> QED
    BY <1>3, <2>3
<1>6. ASSUME NEW it, FilterOf(it, list, choice, drop) PROVE it[D] \in W
  <2> DEFINE R == {s \in SUBSET D : it[s] \in W}
  <2>1. \A s \in SUBSET D : it[s] = Pick(it, s)
    <3>1. it = [s \in SUBSET D |-> Pick(it, s)]
      BY <1>3, <1>6
    <3>2. PICK f : f = [s \in SUBSET D |-> Pick(it, s)]
      OBVIOUS
    <3>3. \A s \in SUBSET D : f[s] = Pick(it, s)
      BY <3>2
    <3>4. it = f
      BY <3>1, <3>2
    <3> HIDE DEF Pick
    <3> QED
      BY <3>3, <3>4
  <2>2. ASSUME NEW s \in SUBSET D, \A x \in s : s \ {x} \in R
        PROVE  it[s] \in W
    <3>1. CASE s = {}
      BY <1>1, <2>1, <3>1
    <3>2. CASE s # {}
      <4>1. choice[s] \in s /\ choice[s] \in D
        BY <1>4, <3>2
      <4>2. it[s \ {choice[s]}] \in W
        BY <2>2, <4>1
      <4>3. PICK i, w : i = choice[s] /\ w = it[s \ {choice[s]}]
        OBVIOUS
      <4>4. it[s] = IF i \in drop THEN w ELSE Append(w, list[i])
        BY <2>1, <3>2, <4>3
      <4>5. w \in W /\ Append(w, list[i]) \in W
        BY <1>2, <4>1, <4>2, <4>3
      <4> QED
        BY <4>4, <4>5
    <3> QED
      BY <3>1, <3>2
  <2>3. \A s \in SUBSET D : (\A x \in s : s \ {x} \in R) => s \in R
    BY <2>2
  <2> HIDE DEF R
  <2>4. SUBSET D \subseteq R
    BY <1>1, <2>3, SubsetInduction
  <2> QED
    BY <2>4 DEF R
<1> QED
  BY <1>5, <1>6 DEF D, W
=============================================================================
