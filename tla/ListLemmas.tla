----------------------------- MODULE ListLemmas -----------------------------
(***************************************************************************)
(* Facts about numbers, lists and finite sets that the proofs about the    *)
(* components share.  The induction they need is done here, once, on the   *)
(* least natural number of a set.                                          *)
(***************************************************************************)
EXTENDS Lists, SequencesExt, SequenceTheorems, FiniteSetTheorems, WellFoundedInduction, TLAPS

-----------------------------------------------------------------------------
(* Facts about the numbers up to N, and functions defined from one to the next *)

\* Every set of naturals that is not empty has a least one.
LEMMA LeastNatural ==
    ASSUME NEW S \in SUBSET Nat, S # {}
    PROVE  \E m \in S : \A n \in S : m <= n
<1> DEFINE R == OpToRel(<, Nat)
<1>1. IsWellFoundedOn(R, Nat)
  BY NatLessThanWellFounded
<1>2. \A m, n \in Nat : m < n => <<m, n>> \in R
  BY DEF OpToRel
<1> HIDE DEF R
<1>3. PICK m \in S : \A n \in S : ~ (<<n, m>> \in R)
  BY <1>1, WFMin
<1>4. \A n \in S : ~ (n < m)
  BY <1>2, <1>3
<1> QED BY <1>4

\* What holds at 0 and passes on from each number holds up to N.
LEMMA UpTo ==
    ASSUME NEW N \in Nat, NEW P, 0 \in P, \A k \in 1..N : k - 1 \in P => k \in P
    PROVE  0..N \subseteq P
<1> SUFFICES ASSUME (0..N) \ P # {} PROVE FALSE
  OBVIOUS
<1>1. PICK n \in (0..N) \ P : \A m \in (0..N) \ P : n <= m
  <2>1. (0..N) \ P \in SUBSET Nat
    OBVIOUS
  <2> QED BY <2>1, LeastNatural
<1>2. n \in 1..N /\ n - 1 \in 0..N
  BY <1>1
<1>3. n - 1 \in P
  BY <1>1, <1>2
<1> QED BY <1>1, <1>2, <1>3

\* f takes each step in turn.
Iterates(f, n, S, first, step) ==
    f \in [0..n -> S] /\ f[0] = first /\ \A k \in 1..n : f[k] = step[k][f[k - 1]]

LEMMA Recursion ==
    ASSUME NEW N \in Nat, NEW S, NEW first \in S, NEW step \in [1..N -> [S -> S]]
    PROVE  \E f : Iterates(f, N, S, first, step)
<1> DEFINE Good(n, f) == f \in [0..n -> S] /\ f[0] = first /\ \A k \in 1..n : f[k] = step[k][f[k - 1]]
           P == {n \in 0..N : \E f : Good(n, f)}
<1>1. 0 \in P
  <2>1. Good(0, [k \in 0..0 |-> first])
    OBVIOUS
  <2> HIDE DEF Good
  <2> QED BY <2>1
<1>2. ASSUME NEW n \in 1..N, n - 1 \in P PROVE n \in P
  <2>1. PICK f : Good(n - 1, f)
    BY <1>2
  <2> DEFINE g == [k \in 0..n |-> IF k = n THEN step[n][f[n - 1]] ELSE f[k]]
  <2>2. g \in [0..n -> S]
    BY <2>1
  <2>3. g[0] = first /\ \A k \in 1..n : g[k] = step[k][g[k - 1]]
    BY <2>1
  <2> HIDE DEF g
  <2>4. Good(n, g)
    BY <2>2, <2>3
  <2> QED BY <2>4
<1>3. N \in P
  <2> HIDE DEF P
  <2>1. 0..N \subseteq P
    BY <1>1, <1>2, UpTo
  <2> QED BY <2>1
<1> QED BY <1>3 DEF Iterates

-----------------------------------------------------------------------------
(* Lists of the elements of a set *)

\* A list without repetition that is as long as the set is large has all its elements.
LEMMA ListIsOnto ==
    ASSUME NEW S, IsFiniteSet(S), NEW s \in SetToSeqs(S)
    PROVE  s \in Seq(S) /\ Len(s) = Cardinality(S) /\ ToSet(s) = S
<1> DEFINE n == Cardinality(S)
<1>1. n \in Nat /\ IsFiniteSet(1..n) /\ Cardinality(1..n) = n
  BY FS_CardinalityType, FS_Interval
<1>2. s \in [1..n -> S] /\ \A i, j \in 1..n : i # j => s[i] # s[j]
  BY DEF SetToSeqs
<1>3. s \in Injection(1..n, S)
  BY <1>2 DEF Injection, IsInjective
<1>4. s \in Surjection(1..n, S)
  BY <1>1, <1>3, FS_Injection
<1>5. \A t \in S : \E i \in 1..n : s[i] = t
  BY <1>4 DEF Surjection
<1>6. s \in Seq(S) /\ Len(s) = n
  BY <1>1, <1>2
<1> QED BY <1>2, <1>5, <1>6 DEF ToSet

LEMMA SetToSeqIsList ==
    ASSUME NEW S, IsFiniteSet(S)
    PROVE  SetToSeq(S) \in Seq(S) /\ ToSet(SetToSeq(S)) = S
<1> DEFINE D == 1..Cardinality(S)
<1>1. PICK f : f \in Bijection(D, S)
  BY FS_CardinalityType DEF ExistsBijection
<1>2. f \in [D -> S] /\ IsInjective(f)
  BY <1>1 DEF Bijection, Injection
<1>3. SetToSeq(S) \in [D -> S] /\ IsInjective(SetToSeq(S))
  BY <1>2 DEF SetToSeq
<1>4. SetToSeq(S) \in SetToSeqs(S)
  BY <1>3 DEF SetToSeqs, IsInjective
<1> QED BY <1>4, ListIsOnto

\* R orders S.
Orders(R, S) ==
    /\ \A t \in S : <<t, t>> \notin R
    /\ \A t, u \in S : t = u \/ <<t, u>> \in R \/ <<u, t>> \in R
    /\ \A t, u, v \in S : (<<t, u>> \in R /\ <<u, v>> \in R) => <<t, v>> \in R

\* A finite set has a list in any order: each element at the place that counts those before it.
LEMMA OrderedExists ==
    ASSUME NEW S, IsFiniteSet(S), NEW R, Orders(R, S)
    PROVE  \E s \in SetToSeqs(S) : \A i, j \in DOMAIN s : i < j => <<s[i], s[j]>> \in R
<1> DEFINE n == Cardinality(S)
           Smaller(t) == {u \in S : <<u, t>> \in R}
           rank == [t \in S |-> Cardinality(Smaller(t)) + 1]
<1>1. n \in Nat /\ IsFiniteSet(1..n) /\ Cardinality(1..n) = n
  BY FS_CardinalityType, FS_Interval
<1>2. ASSUME NEW t \in S
      PROVE  /\ IsFiniteSet(Smaller(t)) /\ Cardinality(Smaller(t)) \in Nat
             /\ Cardinality(Smaller(t)) + 1 \in 1..n
  <2>1. IsFiniteSet(Smaller(t)) /\ IsFiniteSet(S \ {t})
    BY FS_Subset
  <2>2. Smaller(t) \in SUBSET (S \ {t})
    BY DEF Orders
  <2>3. Cardinality(S \ {t}) = n - 1
    BY FS_RemoveElement
  <2>4. Cardinality(Smaller(t)) <= Cardinality(S \ {t})
    BY <2>1, <2>2, FS_Subset
  <2>5. Cardinality(Smaller(t)) \in Nat
    BY <2>1, FS_CardinalityType
  <2> HIDE DEF n, Smaller
  <2> QED BY <1>1, <2>1, <2>3, <2>4, <2>5
<1>3. ASSUME NEW t \in S, NEW u \in S, <<t, u>> \in R
      PROVE  Cardinality(Smaller(t)) < Cardinality(Smaller(u))
  <2>1. IsFiniteSet(Smaller(u)) /\ Smaller(t) \in SUBSET Smaller(u) /\ Smaller(t) # Smaller(u)
    <3>1. t \in Smaller(u) /\ t \notin Smaller(t)
      BY <1>3 DEF Orders
    <3>2. \A v \in Smaller(t) : <<v, u>> \in R
      BY <1>3 DEF Orders
    <3> QED BY <1>2, <3>1, <3>2
  <2>2. Cardinality(Smaller(t)) <= Cardinality(Smaller(u)) /\ Cardinality(Smaller(t)) # Cardinality(Smaller(u))
    BY <2>1, FS_Subset
  <2>3. Cardinality(Smaller(t)) \in Nat /\ Cardinality(Smaller(u)) \in Nat
    BY <1>2
  <2> HIDE DEF Smaller
  <2> QED BY <2>2, <2>3
<1>4. rank \in [S -> 1..n] /\ \A t \in S : rank[t] = Cardinality(Smaller(t)) + 1
  BY <1>2
<1>5. \A t, u \in S : <<t, u>> \in R => rank[t] < rank[u]
  <2> HIDE DEF Smaller, n, rank
  <2> QED BY <1>2, <1>3, <1>4
<1> HIDE DEF rank, Smaller
<1>6. rank \in Injection(S, 1..n)
  <2>1. \A t, u \in S : t = u \/ <<t, u>> \in R \/ <<u, t>> \in R
    BY DEF Orders
  <2>2. \A t \in S : rank[t] \in Int
    BY <1>4
  <2>3. ASSUME NEW t \in S, NEW u \in S, rank[t] = rank[u] PROVE t = u
    <3>1. rank[t] \in Int /\ ~(rank[t] < rank[u]) /\ ~(rank[u] < rank[t])
      BY <2>2, <2>3
    <3> QED BY <1>5, <2>1, <3>1
  <2> QED BY <1>4, <2>3 DEF Injection, IsInjective
<1>7. \A i \in 1..n : \E t \in S : rank[t] = i
  <2> DEFINE D == 1..n
  <2>1. IsFiniteSet(D) /\ Cardinality(D) = n
    BY <1>1
  <2> HIDE DEF D
  <2>2. rank \in Surjection(S, D)
    BY <1>6, <2>1, FS_Injection DEF D
  <2> QED BY <2>2 DEF Surjection, D
<1> DEFINE s == [i \in 1..n |-> CHOOSE t \in S : rank[t] = i]
<1>8. s \in [1..n -> S] /\ \A i \in 1..n : rank[s[i]] = i
  BY <1>7
<1> HIDE DEF s
<1>9. s \in SetToSeqs(S)
  <2>1. \A i, j \in 1..n : i # j => s[i] # s[j]
    BY <1>8
  <2> QED BY <1>8, <2>1 DEF SetToSeqs
<1>10. ASSUME NEW i \in 1..n, NEW j \in 1..n, i < j PROVE <<s[i], s[j]>> \in R
  <2>1. s[i] \in S /\ s[j] \in S /\ rank[s[i]] = i /\ rank[s[j]] = j
    BY <1>8
  <2>2. s[i] # s[j]
    BY <1>10, <2>1
  <2>3. <<s[j], s[i]>> \in R => j < i
    BY <1>5, <2>1
  <2>4. ~(j < i)
    BY <1>1, <1>10
  <2> QED BY <2>1, <2>2, <2>3, <2>4 DEF Orders
<1>11. DOMAIN s = 1..n
  BY <1>8
<1> QED BY <1>9, <1>10, <1>11

LEMMA AscendingExists ==
    ASSUME NEW S \in SUBSET Int, IsFiniteSet(S)
    PROVE  \E s \in SetToSeqs(S) : \A i, j \in DOMAIN s : i < j => s[i] < s[j]
<1> DEFINE R == {p \in S \X S : p[1] < p[2]}
<1>1. \A t, u \in S : <<t, u>> \in R <=> t < u
  OBVIOUS
<1>2. Orders(R, S)
  <2> HIDE DEF R
  <2> QED BY <1>1 DEF Orders
<1>3. PICK s \in SetToSeqs(S) : \A i, j \in DOMAIN s : i < j => <<s[i], s[j]>> \in R
  <2> HIDE DEF R
  <2> QED BY <1>2, OrderedExists
<1>4. \A i \in DOMAIN s : s[i] \in S
  BY DEF SetToSeqs
<1> QED BY <1>1, <1>3, <1>4

\* A finite set of numbers that is not empty has a greatest.
LEMMA GreatestOf ==
    ASSUME NEW S \in SUBSET Int, IsFiniteSet(S), S # {}
    PROVE  \E m \in S : \A t \in S : t <= m
<1>1. PICK s \in SetToSeqs(S) : \A i, j \in DOMAIN s : i < j => s[i] < s[j]
  BY AscendingExists
<1>2. s \in Seq(S) /\ ToSet(s) = S
  BY ListIsOnto
<1>3. Len(s) \in Nat /\ DOMAIN s = 1..Len(s) /\ \A i \in 1..Len(s) : s[i] \in S
  BY <1>2
<1>4. Len(s) # 0
  BY <1>2, <1>3 DEF ToSet
<1>5. Len(s) \in 1..Len(s)
  BY <1>3, <1>4
<1>6. \A i \in 1..Len(s) : s[i] <= s[Len(s)]
  <2> SUFFICES ASSUME NEW i \in 1..Len(s) PROVE s[i] <= s[Len(s)]
    OBVIOUS
  <2>1. s[i] \in Int /\ s[Len(s)] \in Int
    BY <1>3, <1>5
  <2>2. i < Len(s) => s[i] < s[Len(s)]
    BY <1>1, <1>3, <1>5
  <2> QED BY <1>3, <2>1, <2>2
<1> QED BY <1>2, <1>3, <1>5, <1>6 DEF ToSet

-----------------------------------------------------------------------------
(* One list after the other *)

LEMMA ConcatElements ==
    ASSUME NEW S, NEW a \in Seq(S), NEW b \in Seq(S)
    PROVE  a \o b \in Seq(S) /\ \A x : x \in ToSet(a \o b) <=> x \in ToSet(a) \/ x \in ToSet(b)
<1>1. PICK m \in Nat, n \in Nat : m = Len(a) /\ n = Len(b)
  BY LenProperties
<1>2. PICK c \in Seq(S) : c = a \o b
  BY ConcatProperties
<1>3. Len(c) = m + n /\ \A i \in 1..(m + n) : c[i] = IF i <= m THEN a[i] ELSE b[i - m]
  BY <1>1, <1>2, ConcatProperties
<1>4. /\ ToSet(a) = {a[i] : i \in 1..m} /\ ToSet(b) = {b[i] : i \in 1..n} /\ ToSet(c) = {c[i] : i \in 1..(m + n)}
  BY <1>1, <1>3, LenProperties DEF ToSet
<1>5. ASSUME NEW i \in 1..(m + n)
      PROVE  c[i] \in ToSet(a) \/ c[i] \in ToSet(b)
  <2>1. CASE i <= m
    <3>1. i \in 1..m
      BY <2>1
    <3> QED BY <1>3, <1>4, <2>1, <3>1
  <2>2. CASE ~ (i <= m)
    <3>1. i - m \in 1..n
      BY <2>2
    <3> QED BY <1>3, <1>4, <2>2, <3>1
  <2> QED BY <2>1, <2>2
<1>6. ASSUME NEW i \in 1..m PROVE a[i] \in ToSet(c)
  <2>1. i \in 1..(m + n) /\ i <= m
    OBVIOUS
  <2> QED BY <1>3, <1>4, <2>1
<1>7. ASSUME NEW i \in 1..n PROVE b[i] \in ToSet(c)
  <2>1. m + i \in 1..(m + n) /\ ~ (m + i <= m) /\ (m + i) - m = i
    OBVIOUS
  <2> QED BY <1>3, <1>4, <2>1
<1>8. \A x \in ToSet(c) : x \in ToSet(a) \/ x \in ToSet(b)
  BY <1>4, <1>5
<1>9. \A x \in ToSet(a) : x \in ToSet(c)
  BY <1>4, <1>6
<1>10. \A x \in ToSet(b) : x \in ToSet(c)
  BY <1>4, <1>7
<1> QED BY <1>2, <1>8, <1>9, <1>10

LEMMA FlattenIsList ==
    ASSUME NEW S, NEW lists \in Seq(Seq(S))
    PROVE  /\ FlattenSeq(lists) \in Seq(S)
           /\ \A x : x \in ToSet(FlattenSeq(lists)) <=> \E i \in 1..Len(lists) : x \in ToSet(lists[i])
<1> DEFINE N == Len(lists)
           flatten[i \in 1..N] == IF i = 1 THEN lists[i] ELSE flatten[i - 1] \o lists[i]
           step == [n \in 1..N |-> [l \in Seq(S) |-> l \o lists[n]]]
<1>1. N \in Nat /\ \A n \in 1..N : lists[n] \in Seq(S)
  OBVIOUS
<1>2. CASE N = 0
  <2>1. lists = <<>> /\ FlattenSeq(lists) = <<>>
    <3>1. lists = <<>>
      BY <1>2, EmptySeq
    <3> QED BY <1>2, <3>1 DEF FlattenSeq
  <2>2. FlattenSeq(lists) \in Seq(S) /\ Len(FlattenSeq(lists)) = 0
    BY <2>1, EmptySeq
  <2>3. ToSet(FlattenSeq(lists)) = {}
    BY <2>2 DEF ToSet
  <2>4. ~ \E i : i \in 1..Len(lists)
    BY <1>2
  <2> QED BY <2>2, <2>3, <2>4
<1>3. CASE N # 0
  <2>1. FlattenSeq(lists) = flatten[N]
    BY <1>3 DEF FlattenSeq
  <2>2. step \in [1..N -> [Seq(S) -> Seq(S)]]
    BY <1>1
  <2>3. \A n \in 1..N, l \in Seq(S) : step[n][l] = l \o lists[n]
    OBVIOUS
  <2> HIDE DEF step
  <2>4. PICK none \in Seq(S) : none = <<>>
    BY EmptySeq
  <2>5. PICK f : Iterates(f, N, Seq(S), none, step)
    BY <1>1, <2>2, Recursion
  <2>6. f[0] = none /\ \A n \in 0..N : f[n] \in Seq(S)
    BY <2>5 DEF Iterates
  <2>7. \A n \in 1..N : f[n] = f[n - 1] \o lists[n]
    <3>1. \A n \in 1..N : n - 1 \in 0..N
      BY <1>1
    <3>2. \A n \in 1..N : f[n] = step[n][f[n - 1]]
      BY <2>5 DEF Iterates
    <3> QED BY <2>3, <2>6, <3>1, <3>2
  <2>8. f[1] = lists[1] /\ 1 \in 1..N
    <3>1. 1 \in 1..N /\ 1 - 1 = 0
      BY <1>1, <1>3
    <3>2. f[1] = none \o lists[1]
      BY <2>6, <2>7, <3>1
    <3> QED BY <1>1, <2>4, <3>1, <3>2
  <2> DEFINE g == [n \in 1..N |-> f[n]]
  <2>9. g = [i \in 1..N |-> IF i = 1 THEN lists[i] ELSE g[i - 1] \o lists[i]]
    <3>1. \A i \in 1..N : i # 1 => i - 1 \in 1..N
      BY <1>1
    <3>2. \A i \in 1..N : i # 1 => g[i] = g[i - 1] \o lists[i]
      BY <2>7, <3>1
    <3>3. \A i \in 1..N : g[i] = IF i = 1 THEN lists[i] ELSE g[i - 1] \o lists[i]
      BY <2>8, <3>2
    <3>4. g = [i \in 1..N |-> g[i]]
      OBVIOUS
    <3> HIDE DEF g
    <3> QED BY <3>3, <3>4
  <2> HIDE DEF g
  <2>10. flatten = [i \in 1..N |-> IF i = 1 THEN lists[i] ELSE flatten[i - 1] \o lists[i]]
    BY <2>9
  <2> HIDE DEF flatten
  <2> DEFINE P == {n \in 0..N : n # 0 =>
                     /\ flatten[n] \in Seq(S)
                     /\ \A x : x \in ToSet(flatten[n]) <=> \E i \in 1..n : x \in ToSet(lists[i])}
  <2>11. 0 \in P
    BY <1>1
  <2>12. ASSUME NEW n \in 1..N, n - 1 \in P PROVE n \in P
    <3>1. CASE n = 1
      <4>1. flatten[n] = lists[1]
        BY <2>8, <2>10, <3>1
      <4> QED BY <1>1, <2>8, <3>1, <4>1
    <3>2. CASE n # 1
      <4>1. flatten[n] = flatten[n - 1] \o lists[n]
        BY <2>10, <3>2
      <4>2. /\ flatten[n - 1] \in Seq(S)
            /\ \A x : x \in ToSet(flatten[n - 1]) <=> \E i \in 1..(n - 1) : x \in ToSet(lists[i])
        BY <2>12, <3>2
      <4>3. PICK a \in Seq(S), b \in Seq(S) : a = flatten[n - 1] /\ b = lists[n]
        BY <1>1, <4>2
      <4>4. a \o b \in Seq(S) /\ \A x : x \in ToSet(a \o b) <=> x \in ToSet(a) \/ x \in ToSet(b)
        BY ConcatElements
      <4>5. \A i : i \in 1..n <=> i \in 1..(n - 1) \/ i = n
        BY <1>1
      <4>6. n \in 0..N
        BY <1>1
      <4>7. flatten[n] \in Seq(S)
        BY <4>1, <4>3, <4>4
      <4>8. \A x : x \in ToSet(flatten[n]) <=> \E i \in 1..n : x \in ToSet(lists[i])
        BY <4>1, <4>2, <4>3, <4>4, <4>5
      <4> QED BY <4>6, <4>7, <4>8
    <3> QED BY <3>1, <3>2
  <2>13. N \in P
    <3> HIDE DEF P
    <3>1. 0..N \subseteq P
      BY <1>1, <2>11, <2>12, UpTo
    <3>2. N \in 0..N
      BY <1>1
    <3> QED BY <3>1, <3>2
  <2> QED BY <1>3, <2>1, <2>13
<1> QED BY <1>2, <1>3

-----------------------------------------------------------------------------
(* Lists that have each element of a set once *)

Once(list, S) ==
    /\ list \in Seq(S)
    /\ \A d \in S : \E i \in 1..Len(list) : list[i] = d
    /\ \A i, j \in 1..Len(list) : list[i] = list[j] => i = j

LEMMA OnceEmpty == Once(<<>>, {})
<1>1. PICK none \in Seq({}) : none = <<>>
  BY EmptySeq
<1>2. Len(none) = 0
  BY <1>1, EmptySeq
<1> QED BY <1>1, <1>2 DEF Once

\* How often each element stands in such a list.
LEMMA OnceCount ==
    ASSUME NEW U, NEW S \in SUBSET U, NEW list, Once(list, S)
    PROVE  /\ list \in Seq(U)
           /\ \A d \in U : Cardinality({i \in 1..Len(list) : list[i] = d}) = IF d \in S THEN 1 ELSE 0
<1>1. list \in Seq(S) /\ Len(list) \in Nat /\ \A i \in 1..Len(list) : list[i] \in S
  BY DEF Once
<1>2. list \in Seq(U)
  BY <1>1
<1>3. ASSUME NEW d \in S PROVE Cardinality({i \in 1..Len(list) : list[i] = d}) = 1
  <2>1. PICK i \in 1..Len(list) : list[i] = d
    BY DEF Once
  <2>2. {j \in 1..Len(list) : list[j] = d} = {i}
    BY <2>1 DEF Once
  <2> QED BY <2>2, FS_Singleton
<1>4. ASSUME NEW d \in U \ S PROVE Cardinality({i \in 1..Len(list) : list[i] = d}) = 0
  <2>1. {j \in 1..Len(list) : list[j] = d} = {}
    BY <1>1
  <2> QED BY <2>1, FS_EmptySet
<1> QED BY <1>2, <1>3, <1>4

LEMMA OnceAppend ==
    ASSUME NEW S, NEW list, Once(list, S), NEW d, d \notin S
    PROVE  Once(Append(list, d), S \cup {d})
<1>1. list \in Seq(S) /\ Len(list) \in Nat /\ \A i \in 1..Len(list) : list[i] \in S
  BY DEF Once
<1>2. PICK T : T = S \cup {d}
  OBVIOUS
<1>3. list \in Seq(T) /\ d \in T
  BY <1>1, <1>2
<1>4. PICK c \in Seq(T) : c = Append(list, d)
  BY <1>3, AppendProperties
<1>5. Len(c) = Len(list) + 1 /\ c[Len(list) + 1] = d /\ \A i \in 1..Len(list) : c[i] = list[i]
  BY <1>3, <1>4
<1>6. \A i \in 1..Len(c) : i \in 1..Len(list) \/ i = Len(list) + 1
  BY <1>1, <1>5
<1>7. ASSUME NEW e \in T PROVE \E i \in 1..Len(c) : c[i] = e
  BY <1>1, <1>2, <1>5, SMTT(30) DEF Once
<1>8. ASSUME NEW i \in 1..Len(c), NEW j \in 1..Len(c), c[i] = c[j] PROVE i = j
  BY <1>1, <1>5, <1>6, <1>8 DEF Once
<1> QED BY <1>2, <1>4, <1>7, <1>8 DEF Once

LEMMA OnceConcat ==
    ASSUME NEW S, NEW T, NEW a, NEW b, Once(a, S), Once(b, T), S \cap T = {}
    PROVE  Once(a \o b, S \cup T)
<1>1. PICK U : U = S \cup T
  OBVIOUS
<1>2. /\ a \in Seq(U) /\ \A i \in 1..Len(a) : a[i] \in S
      /\ b \in Seq(U) /\ \A i \in 1..Len(b) : b[i] \in T
  BY <1>1 DEF Once
<1>3. PICK m \in Nat, n \in Nat : m = Len(a) /\ n = Len(b)
  BY <1>2, LenProperties
<1>4. PICK c \in Seq(U) : c = a \o b
  BY <1>2, ConcatProperties
<1>5. Len(c) = m + n /\ \A i \in 1..(m + n) : c[i] = IF i <= m THEN a[i] ELSE b[i - m]
  BY <1>2, <1>3, <1>4, ConcatProperties
<1>6. \A i \in 1..m : i \in 1..(m + n) /\ c[i] = a[i]
  BY <1>5
<1>7. \A i \in 1..n : m + i \in 1..(m + n) /\ c[m + i] = b[i]
  BY <1>5
<1>8. ASSUME NEW i \in 1..(m + n)
      PROVE  \/ i \in 1..m /\ c[i] = a[i] /\ c[i] \in S
             \/ i - m \in 1..n /\ c[i] = b[i - m] /\ c[i] \in T
  <2>1. CASE i <= m
    <3>1. i \in 1..m /\ c[i] = a[i]
      BY <1>5, <2>1
    <3> QED BY <1>2, <1>3, <3>1
  <2>2. CASE ~ (i <= m)
    <3>1. i - m \in 1..n /\ c[i] = b[i - m]
      BY <1>5, <2>2
    <3> QED BY <1>2, <1>3, <3>1
  <2> QED BY <2>1, <2>2
<1>9. ASSUME NEW e \in U PROVE \E i \in 1..Len(c) : c[i] = e
  <2>1. CASE e \in S
    <3>1. PICK i \in 1..m : a[i] = e
      BY <1>3, <2>1 DEF Once
    <3> QED BY <1>5, <1>6, <3>1
  <2>2. CASE e \in T
    <3>1. PICK i \in 1..n : b[i] = e
      BY <1>3, <2>2 DEF Once
    <3> QED BY <1>5, <1>7, <3>1
  <2> QED BY <1>1, <2>1, <2>2
<1>10. ASSUME NEW i \in 1..Len(c), NEW j \in 1..Len(c), c[i] = c[j] PROVE i = j
  <2>1. i \in 1..(m + n) /\ j \in 1..(m + n)
    BY <1>5
  <2>2. CASE i \in 1..m /\ j \in 1..m
    BY <1>3, <1>6, <1>10, <2>2 DEF Once
  <2>3. CASE i - m \in 1..n /\ j - m \in 1..n /\ c[i] = b[i - m] /\ c[j] = b[j - m]
    <3>1. i - m = j - m
      BY <1>3, <1>10, <2>3 DEF Once
    <3> QED BY <2>1, <3>1
  <2> QED BY <1>8, <1>10, <2>1, <2>2, <2>3
<1> QED BY <1>1, <1>4, <1>9, <1>10 DEF Once

\* A list of all the elements of a finite set, as the order of those that come due at once.
LEMMA OnceListed ==
    ASSUME NEW S, IsFiniteSet(S), NEW list \in SetToSeqs(S)
    PROVE  Once(list, S)
<1>1. list \in Seq(S) /\ Len(list) = Cardinality(S) /\ ToSet(list) = S
  BY ListIsOnto
<1>2. \A i, j \in 1..Cardinality(S) : i # j => list[i] # list[j]
  BY DEF SetToSeqs
<1>3. \A d \in S : \E i \in 1..Len(list) : list[i] = d
  BY <1>1 DEF ToSet
<1> QED BY <1>1, <1>2, <1>3 DEF Once

\* Part of a list has the elements at its places.
LEMMA OncePart ==
    ASSUME NEW S, NEW list, Once(list, S), NEW m \in 1..Len(list) + 1, NEW n \in 0..Len(list), m <= n + 1
    PROVE  Once(SubSeq(list, m, n), {list[i] : i \in m..n})
<1>1. PICK T : T = {list[i] : i \in m..n}
  OBVIOUS
<1>2. PICK N \in Nat : N = Len(list)
  BY LenProperties DEF Once
<1>3. list \in Seq(S) /\ m \in 1..(N + 1) /\ n \in 0..N /\ m <= n + 1 /\ \A i \in m..n : i \in 1..N
  BY <1>2 DEF Once
<1>4. PICK c : c = SubSeq(list, m, n)
  OBVIOUS
<1>5. c = [i \in 1..(n - m + 1) |-> list[i + m - 1]]
  BY <1>3, <1>4
<1>6. c \in Seq(T) /\ Len(c) = n - m + 1
  <2>1. n - m + 1 \in Nat
    BY <1>3
  <2>2. \A i \in 1..(n - m + 1) : i + m - 1 \in m..n
    BY <1>3
  <2> QED BY <1>1, <1>5, <2>1, <2>2
<1>7. ASSUME NEW e \in T PROVE \E i \in 1..Len(c) : c[i] = e
  <2>1. PICK i \in m..n : list[i] = e
    BY <1>1
  <2>2. i - m + 1 \in 1..(n - m + 1) /\ (i - m + 1) + m - 1 = i
    BY <1>3
  <2> QED BY <1>5, <1>6, <2>1, <2>2
<1>8. ASSUME NEW i \in 1..Len(c), NEW j \in 1..Len(c), c[i] = c[j] PROVE i = j
  <2>1. /\ i \in 1..(n - m + 1) /\ j \in 1..(n - m + 1)
        /\ i + m - 1 \in 1..N /\ j + m - 1 \in 1..N
    BY <1>3, <1>6
  <2>2. list[i + m - 1] = list[j + m - 1]
    BY <1>5, <1>8, <2>1
  <2>3. i + m - 1 = j + m - 1
    BY <1>2, <2>1, <2>2 DEF Once
  <2> QED BY <1>3, <2>1, <2>3
<1> QED BY <1>1, <1>4, <1>6, <1>7, <1>8 DEF Once

\* A list split at k, with an element put in between.
LEMMA OnceInsert ==
    ASSUME NEW S, NEW list, Once(list, S), NEW d, d \notin S, NEW k \in 1..Len(list) + 1
    PROVE  Once(InsertAt(list, k, d), S \cup {d})
<1>1. PICK n \in Nat : n = Len(list)
  BY LenProperties DEF Once
<1>2. list \in Seq(S) /\ k \in 1..(n + 1) /\ \A i \in 1..n : list[i] \in S
  BY <1>1 DEF Once
<1>3. PICK A : A = {list[i] : i \in 1..(k - 1)}
  OBVIOUS
<1>4. PICK B : B = {list[i] : i \in k..n}
  OBVIOUS
<1>5. Once(SubSeq(list, 1, k - 1), A)
  <2>1. 1 \in 1..Len(list) + 1 /\ k - 1 \in 0..Len(list) /\ 1 <= k - 1 + 1
    BY <1>1, <1>2
  <2> QED BY <1>3, <2>1, OncePart
<1>6. Once(SubSeq(list, k, n), B)
  <2>1. n \in 0..Len(list) /\ k <= n + 1
    BY <1>1, <1>2
  <2> QED BY <1>4, <2>1, OncePart
<1>7. Once(<<d>>, {d})
  <2>1. <<d>> \in Seq({d}) /\ Len(<<d>>) = 1 /\ <<d>>[1] = d
    OBVIOUS
  <2> QED BY <2>1 DEF Once
<1>8. A \cup B = S /\ A \cap B = {} /\ d \notin A /\ d \notin B
  <2>1. \A i \in 1..(k - 1) : i \in 1..n /\ i \notin k..n
    BY <1>2
  <2>2. \A i \in k..n : i \in 1..n
    BY <1>2
  <2>3. \A i \in 1..n : i \in 1..(k - 1) \/ i \in k..n
    BY <1>2
  <2>4. \A e \in S : \E i \in 1..n : list[i] = e
    BY <1>1 DEF Once
  <2>5. \A i, j \in 1..n : list[i] = list[j] => i = j
    BY <1>1 DEF Once
  <2>6. A \subseteq S /\ B \subseteq S
    BY <1>2, <1>3, <1>4, <2>1, <2>2
  <2>7. S \subseteq A \cup B
    BY <1>3, <1>4, <2>3, <2>4
  <2>8. A \cap B = {}
    BY <1>3, <1>4, <2>1, <2>2, <2>5
  <2> QED BY <2>6, <2>7, <2>8
<1>9. Once(SubSeq(list, 1, k - 1) \o <<d>>, A \cup {d})
  BY <1>5, <1>7, <1>8, OnceConcat
<1>10. Once((SubSeq(list, 1, k - 1) \o <<d>>) \o SubSeq(list, k, n), (A \cup {d}) \cup B)
  <2>1. (A \cup {d}) \cap B = {}
    BY <1>8
  <2> QED BY <1>6, <1>9, <2>1, OnceConcat
<1>11. (A \cup {d}) \cup B = S \cup {d}
  BY <1>8
<1> QED BY <1>1, <1>10, <1>11 DEF InsertAt

-----------------------------------------------------------------------------
(* What a list keeps of a set *)

\* f has what each beginning of the list keeps of the set, as Among computes it.
Keeping(f, n, S, list, set) ==
    /\ f \in [0..n -> Seq(S)] /\ f[0] = <<>>
    /\ \A i \in 1..n : f[i] = IF list[i] \in set THEN Append(f[i - 1], list[i]) ELSE f[i - 1]

LEMMA AmongUpTo ==
    ASSUME NEW S, NEW list \in Seq(S), NEW set
    PROVE  \E f : Keeping(f, Len(list), S, list, set) /\ Among(list, set) = f[Len(list)]
<1> DEFINE N == Len(list)
           upTo[i \in 0..Len(list)] ==
               IF i = 0 THEN <<>>
               ELSE IF list[i] \in set THEN Append(upTo[i - 1], list[i]) ELSE upTo[i - 1]
           step == [n \in 1..N |-> [l \in Seq(S) |-> IF list[n] \in set THEN Append(l, list[n]) ELSE l]]
<1>1. N \in Nat /\ \A n \in 1..N : list[n] \in S
  OBVIOUS
<1>2. PICK none \in Seq(S) : none = <<>>
  BY EmptySeq
<1>3. step \in [1..N -> [Seq(S) -> Seq(S)]]
  BY <1>1
<1>4. \A n \in 1..N, l \in Seq(S) : step[n][l] = IF list[n] \in set THEN Append(l, list[n]) ELSE l
  OBVIOUS
<1> HIDE DEF step
<1>5. PICK f : Iterates(f, N, Seq(S), none, step)
  BY <1>1, <1>3, Recursion
<1>6. f \in [0..N -> Seq(S)] /\ f[0] = <<>>
  BY <1>2, <1>5 DEF Iterates
<1>7. \A n \in 1..N : f[n] = IF list[n] \in set THEN Append(f[n - 1], list[n]) ELSE f[n - 1]
  <2>1. \A n \in 1..N : n - 1 \in 0..N /\ f[n] = step[n][f[n - 1]]
    BY <1>1, <1>5 DEF Iterates
  <2> QED BY <1>4, <1>6, <2>1
<1>8. f = [i \in 0..N |-> IF i = 0 THEN <<>>
                          ELSE IF list[i] \in set THEN Append(f[i - 1], list[i]) ELSE f[i - 1]]
  <2>1. f = [i \in 0..N |-> f[i]]
    BY <1>6
  <2>2. \A i \in 0..N : i # 0 => i \in 1..N
    BY <1>1
  <2> QED BY <1>6, <1>7, <2>1, <2>2
<1>9. upTo = [i \in 0..N |-> IF i = 0 THEN <<>>
                             ELSE IF list[i] \in set THEN Append(upTo[i - 1], list[i]) ELSE upTo[i - 1]]
  BY <1>8
<1>10. upTo = f
  <2> DEFINE body(g) == [i \in 0..N |-> IF i = 0 THEN <<>>
                          ELSE IF list[i] \in set THEN Append(g[i - 1], list[i]) ELSE g[i - 1]]
           P == {n \in 0..N : upTo[n] = f[n]}
  <2> HIDE DEF upTo
  <2>1. 0 \in P
    BY <1>1, <1>6, <1>9
  <2>2. ASSUME NEW n \in 1..N, n - 1 \in P PROVE n \in P
    <3>1. n \in 0..N /\ n # 0 /\ upTo[n - 1] = f[n - 1]
      BY <1>1, <2>2
    <3>2. upTo[n] = IF list[n] \in set THEN Append(upTo[n - 1], list[n]) ELSE upTo[n - 1]
      BY <1>9, <3>1
    <3> QED BY <1>7, <3>1, <3>2
  <2>3. \A n \in 0..N : upTo[n] = f[n]
    <3> HIDE DEF P
    <3>1. 0..N \subseteq P
      BY <1>1, <2>1, <2>2, UpTo
    <3> QED BY <3>1 DEF P
  <2> QED BY <1>6, <1>9, <2>3
<1>11. Among(list, set) = upTo[N]
  BY DEF Among
<1> HIDE DEF upTo
<1>12. Keeping(f, N, S, list, set)
  BY <1>6, <1>7 DEF Keeping
<1> QED BY <1>10, <1>11, <1>12

\* Whatever a list keeps is in the set.
LEMMA AmongList ==
    ASSUME NEW S, NEW list \in Seq(S), NEW set
    PROVE  Among(list, set) \in Seq(S \cap set)
<1> DEFINE N == Len(list)
<1>1. N \in Nat /\ \A n \in 1..N : list[n] \in S
  OBVIOUS
<1>2. PICK f : Keeping(f, N, S, list, set) /\ Among(list, set) = f[N]
  BY AmongUpTo
<1> DEFINE P == {n \in 0..N : f[n] \in Seq(S \cap set)}
<1>3. 0 \in P
  BY <1>1, <1>2, EmptySeq DEF Keeping
<1>4. ASSUME NEW n \in 1..N, n - 1 \in P PROVE n \in P
  <2>1. f[n - 1] \in Seq(S \cap set) /\ n \in 0..N
    BY <1>1, <1>4
  <2>2. CASE list[n] \in set
    <3>1. f[n] = Append(f[n - 1], list[n]) /\ list[n] \in S \cap set
      BY <1>1, <1>2, <2>2 DEF Keeping
    <3>2. Append(f[n - 1], list[n]) \in Seq(S \cap set)
      BY <2>1, <3>1, AppendProperties
    <3> QED BY <2>1, <3>1, <3>2
  <2>3. CASE list[n] \notin set
    BY <1>2, <2>1, <2>3 DEF Keeping
  <2> QED BY <2>2, <2>3
<1> HIDE DEF P
<1>5. 0..N \subseteq P
  BY <1>1, <1>3, <1>4, UpTo
<1>6. N \in P
  BY <1>1, <1>5
<1> QED BY <1>2, <1>6 DEF P

\* What stands once in a list stands once in what is kept of it.
LEMMA OnceAmong ==
    ASSUME NEW S, NEW list, Once(list, S), NEW set
    PROVE  Once(Among(list, set), S \cap set)
<1>1. PICK N \in Nat : N = Len(list)
  BY LenProperties DEF Once
<1>2. list \in Seq(S) /\ \A n \in 1..N : list[n] \in S
  BY <1>1 DEF Once
<1>3. PICK f : Keeping(f, N, S, list, set) /\ Among(list, set) = f[N]
  BY <1>1, <1>2, AmongUpTo
<1> DEFINE Kept(n) == {list[i] : i \in 1..n} \cap set
           P == {n \in 0..N : Once(f[n], Kept(n))}
<1>4. 0 \in P
  <2>1. Kept(0) = {}
    OBVIOUS
  <2> HIDE DEF Kept
  <2> QED BY <1>1, <1>3, <2>1, OnceEmpty DEF Keeping
<1>5. ASSUME NEW n \in 1..N, n - 1 \in P PROVE n \in P
  <2>1. Once(f[n - 1], Kept(n - 1)) /\ n \in 0..N
    BY <1>5
  <2>2. \A i : i \in 1..n <=> i \in 1..(n - 1) \/ i = n
    OBVIOUS
  <2>3. list[n] \notin Kept(n - 1)
    <3>1. \A i \in 1..(n - 1) : i \in 1..N /\ i # n
      OBVIOUS
    <3> QED BY <1>1, <3>1 DEF Once
  <2>4. CASE list[n] \in set
    <3>1. f[n] = Append(f[n - 1], list[n])
      BY <1>3, <2>4 DEF Keeping
    <3>2. Kept(n) = Kept(n - 1) \cup {list[n]}
      BY <2>2, <2>4
    <3> HIDE DEF Kept
    <3>3. Once(Append(f[n - 1], list[n]), Kept(n - 1) \cup {list[n]})
      BY <2>1, <2>3, OnceAppend
    <3> QED BY <2>1, <3>1, <3>2, <3>3
  <2>5. CASE list[n] \notin set
    <3>1. f[n] = f[n - 1]
      BY <1>3, <2>5 DEF Keeping
    <3>2. Kept(n) = Kept(n - 1)
      BY <2>2, <2>5
    <3> HIDE DEF Kept
    <3> QED BY <2>1, <3>1, <3>2
  <2> QED BY <2>4, <2>5
<1>6. Kept(N) = S \cap set
  BY <1>1, <1>2 DEF Once
<1> HIDE DEF P
<1>7. 0..N \subseteq P
  BY <1>4, <1>5, UpTo
<1>8. N \in P
  BY <1>7
<1> HIDE DEF Kept
<1> QED BY <1>3, <1>6, <1>8 DEF P
=============================================================================
