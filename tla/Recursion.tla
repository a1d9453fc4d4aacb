----------------------------- MODULE Recursion -----------------------------
(***************************************************************************)
(* Induction over the naturals, and the functions defined by recursion     *)
(* over them, in first-order form: a claim is a set of numbers, a step of  *)
(* a recursion is a function.  Both follow from a fact about finite sets:  *)
(* none can be mapped one to one into a proper part of it.                 *)
(***************************************************************************)
EXTENDS Integers, Sequences, SequencesExt, FiniteSetTheorems, TLAPS

\* A set of numbers that has 0, and with each number the next, has them all:
\* else the numbers up to the one that is missing could be moved up by one
\* within themselves.
LEMMA SetInduction ==
    ASSUME NEW C, 0 \in C, \A k \in Nat : k \in C => k + 1 \in C
    PROVE  \A n \in Nat : n \in C
<1> SUFFICES ASSUME NEW n \in Nat, n \notin C PROVE FALSE
  OBVIOUS
<1> DEFINE A == {k \in 0 .. n : k \in C}
           B == A \ {0}
           f == [k \in A |-> k + 1]
<1>1. IsFiniteSet(A)
  <2>1. A \in SUBSET Nat /\ \A s \in A : s <= n
    OBVIOUS
  <2> QED
    BY <2>1, FS_BoundedSetOfNaturals
<1>2. 0 \in A
  OBVIOUS
<1>3. IsFiniteSet(B) /\ Cardinality(B) = Cardinality(A) - 1 /\ Cardinality(A) \in Nat
  <2> HIDE DEF A
  <2> QED
    BY <1>1, <1>2, FS_RemoveElement, FS_CardinalityType
<1>4. \A k \in A : k \in Nat /\ k + 1 \in B
  <2> SUFFICES ASSUME NEW k \in A PROVE k \in Nat /\ k + 1 \in B
    OBVIOUS
  <2>1. k \in Nat /\ k \in C /\ k # n /\ k <= n
    OBVIOUS
  <2>2. k + 1 \in C /\ k + 1 \in 0 .. n /\ k + 1 # 0
    BY <2>1
  <2> QED
    BY <2>1, <2>2
<1> HIDE DEF A, B
<1>5. f \in Injection(A, B)
  <2>1. f \in [A -> B]
    BY <1>4
  <2>2. \A a, b \in A : f[a] = f[b] => a = b
    BY <1>4
  <2> QED
    BY <2>1, <2>2 DEF Injection, IsInjective
<1>6. Cardinality(A) <= Cardinality(B)
  BY <1>3, <1>5, FS_Injection
<1> QED
  BY <1>3, <1>6

\* f is the recursion from 0 to n that starts with a and goes on with the
\* functions G[1] .. G[n], all on the set V.
IsStep(G, n, V) == G \in [1 .. n -> [V -> V]]
Solves(f, n, V, a, G) ==
    f \in [0 .. n -> V] /\ f[0] = a /\ \A i \in 1 .. n : f[i] = G[i][f[i - 1]]

\* A recursion from 0 to n has a solution: one that has come to k goes on to
\* k + 1.
LEMMA Solution ==
    ASSUME NEW n \in Nat, NEW V, NEW a \in V, NEW G, IsStep(G, n, V)
    PROVE  \E f : Solves(f, n, V, a, G)
<1> USE DEF IsStep, Solves
<1> DEFINE Upto(k, f) == f[0] = a /\ \A i \in 1 .. k : f[i] = G[i][f[i - 1]]
           C == {k \in Nat : k > n \/ \E f \in [0 .. k -> V] : Upto(k, f)}
<1>1. 0 \in C
  <2>1. [i \in 0 .. 0 |-> a] \in [0 .. 0 -> V] /\ Upto(0, [i \in 0 .. 0 |-> a])
    OBVIOUS
  <2> QED
    BY <2>1
<1>2. ASSUME NEW k \in Nat, k \in C PROVE k + 1 \in C
  <2>1. CASE k + 1 > n
    BY <2>1
  <2>2. CASE k + 1 <= n
    <3>1. PICK f \in [0 .. k -> V] : Upto(k, f)
      BY <1>2, <2>2
    <3> DEFINE g == [i \in 0 .. k + 1 |-> IF i <= k THEN f[i] ELSE G[i][f[k]]]
    <3>2. f[k] \in V /\ k + 1 \in 1 .. n
      BY <2>2
    <3>3. g \in [0 .. k + 1 -> V]
      BY <3>2
    <3>4. Upto(k + 1, g)
      <4>1. g[0] = a
        BY <3>1
      <4>2. ASSUME NEW i \in 1 .. k + 1 PROVE g[i] = G[i][g[i - 1]]
        BY <3>1
      <4> QED
        BY <4>1, <4>2
    <3> HIDE DEF g, Upto
    <3> QED
      BY <3>3, <3>4
  <2> QED
    BY <2>1, <2>2, <1>2
<1>3. n \in C
  <2> HIDE DEF C
  <2> QED
    BY <1>1, <1>2, SetInduction
<1> QED
  BY <1>3

\* There is one such recursion.
LEMMA OneSolution ==
    ASSUME NEW n \in Nat, NEW V, NEW a, NEW G, NEW f, Solves(f, n, V, a, G),
           NEW g, g[0] = a, \A i \in 1 .. n : g[i - 1] \in V => g[i] = G[i][g[i - 1]]
    PROVE  \A i \in 0 .. n : g[i] = f[i] /\ g[i] \in V
<1>1. f \in [0 .. n -> V] /\ f[0] = a /\ \A i \in 1 .. n : f[i] = G[i][f[i - 1]]
  BY DEF Solves
<1> DEFINE C == {k \in Nat : k > n \/ g[k] = f[k]}
<1>2. 0 \in C
  BY <1>1
<1>3. ASSUME NEW k \in Nat, k \in C PROVE k + 1 \in C
  <2>1. CASE k + 1 <= n
    <3>1. k + 1 \in 1 .. n /\ (k + 1) - 1 = k /\ k \in 0 .. n /\ g[k] = f[k]
      BY <1>3, <2>1
    <3>2. g[k] \in V
      BY <1>1, <3>1
    <3>3. g[k + 1] = f[k + 1]
      BY <1>1, <3>1, <3>2
    <3> QED
      BY <3>3
  <2> QED
    BY <2>1
<1>4. \A k \in Nat : k \in C
  <2> HIDE DEF C
  <2> QED
    BY <1>2, <1>3, SetInduction
<1>5. ASSUME NEW i \in 0 .. n PROVE g[i] = f[i] /\ g[i] \in V
  <2>1. i \in Nat /\ i \in C
    BY <1>4
  <2> QED
    BY <1>1, <2>1
<1> QED
  BY <1>5

-----------------------------------------------------------------------------
(* Division, and the least of a set of numbers *)

LEMMA Quotient ==
    ASSUME NEW s \in Nat \ {0}, NEW p \in Nat, NEW r \in 0 .. s - 1
    PROVE  (s * p + r) \div s = p /\ (s * p + r) % s = r
<1> DEFINE x == s * p + r
           d == x \div s
           e == x % s
<1>1. s * p \in Nat /\ x \in Nat
  OBVIOUS
<1>2. d \in Nat /\ e \in 0 .. s - 1 /\ x = s * d + e
  <2> HIDE DEF x
  <2> QED
    BY <1>1
<1> HIDE DEF d, e
<1>3. ASSUME NEW a \in Nat, NEW b \in Nat, a < b PROVE s * a + s <= s * b
  <2>1. a + 1 <= b /\ s * (a + 1) = s * a + s
    BY <1>3
  <2>2. s * (a + 1) <= s * b
    BY <2>1
  <2> QED
    BY <2>1, <2>2
<1>4. d = p
  <2>1. ~(d < p) /\ ~(p < d)
    <3>1. d < p => s * d + s <= s * p
      BY <1>2, <1>3
    <3>2. p < d => s * p + s <= s * d
      BY <1>2, <1>3
    <3>3. s * d \in Nat
      BY <1>2
    <3> QED
      BY <1>1, <1>2, <3>1, <3>2, <3>3
  <2> QED
    BY <1>2, <2>1
<1> QED
  BY <1>1, <1>2, <1>4 DEF d, e

LEMMA Times ==
    ASSUME NEW x \in Nat, NEW y \in Nat, NEW s \in Nat
    PROVE  (x + y) * s = x * s + y * s /\ x * s \in Nat
  OBVIOUS

\* Taking off a number that has wrapped leads to the same place as without.
LEMMA WrapsBack ==
    ASSUME NEW U \in Nat \ {0}, NEW size \in Nat, NEW x \in Nat, x <= size, size - x < U
    PROVE  (size - (x % U)) % U = size - x
<1> DEFINE q == x \div U
           r == x % U
<1>1. q \in Nat /\ r \in 0 .. U - 1 /\ x = U * q + r
  OBVIOUS
<1> HIDE DEF q
<1>2. size - x \in 0 .. U - 1
  OBVIOUS
<1>3. U * q \in Nat
  BY <1>1
<1> HIDE DEF r
<1>4. size - r = U * q + (size - x)
  BY <1>1, <1>3
<1>5. (U * q + (size - x)) % U = size - x
  BY <1>1, <1>2, Quotient
<1> QED
  BY <1>4, <1>5 DEF r

\* A set of numbers has a least one.
LEMMA MinIn ==
    ASSUME NEW S, S \subseteq Nat, S # {}
    PROVE  Min(S) \in S
<1> DEFINE C == {n \in Nat : (\E x \in S : x <= n) => \E x \in S : \A y \in S : x <= y}
<1>1. 0 \in C
  OBVIOUS
<1>2. ASSUME NEW k \in Nat, k \in C PROVE k + 1 \in C
  <2> SUFFICES ASSUME NEW x \in S, x <= k + 1
               PROVE  \E z \in S : \A y \in S : z <= y
    OBVIOUS
  <2>1. CASE \E z \in S : z <= k
    BY <1>2, <2>1
  <2>2. CASE ~ \E z \in S : z <= k
    BY <2>2
  <2> QED
    BY <2>1, <2>2
<1>3. \A n \in Nat : n \in C
  <2> HIDE DEF C
  <2> QED
    BY <1>1, <1>2, SetInduction
<1>4. PICK x \in S : TRUE
  OBVIOUS
<1>5. \E z \in S : \A y \in S : z <= y
  BY <1>3, <1>4
<1> QED
  BY <1>5 DEF Min

-----------------------------------------------------------------------------
(* Sums *)

\* Where things that follow each other from `first` on end.
IsSum(f, n, first, len) ==
    /\ f \in [0 .. n -> Nat] /\ f[0] = first
    /\ \A i \in 1 .. n : f[i] = f[i - 1] + len[i]

LEMMA SumExists ==
    ASSUME NEW n \in Nat, NEW first \in Nat, NEW len, \A i \in 1 .. n : len[i] \in Nat
    PROVE  \E f : IsSum(f, n, first, len)
<1> DEFINE G == [i \in 1 .. n |-> [t \in Nat |-> t + len[i]]]
<1>1. IsStep(G, n, Nat)
  BY DEF IsStep
<1>2. \A i \in 1 .. n : \A t \in Nat : G[i][t] = t + len[i]
  OBVIOUS
<1> HIDE DEF G
<1>3. PICK f : Solves(f, n, Nat, first, G)
  BY <1>1, Solution
<1>4. f \in [0 .. n -> Nat] /\ f[0] = first /\ \A i \in 1 .. n : f[i] = G[i][f[i - 1]]
  BY <1>3 DEF Solves
<1>5. IsSum(f, n, first, len)
  <2>1. ASSUME NEW i \in 1 .. n PROVE f[i] = f[i - 1] + len[i]
    <3>1. i - 1 \in 0 .. n /\ f[i] = G[i][f[i - 1]]
      BY <1>4
    <3>2. f[i - 1] \in Nat
      BY <1>4, <3>1
    <3> QED
      BY <1>2, <3>1, <3>2
  <2> QED
    BY <1>4, <2>1 DEF IsSum
<1> QED
  BY <1>5

\* There is only one.
LikeSum(g, n, first, len) ==
    /\ g[0] = first
    /\ \A i \in 1 .. n : len[i] \in Nat /\ (g[i - 1] \in Nat => g[i] = g[i - 1] + len[i])

LEMMA SumUnique ==
    ASSUME NEW n \in Nat, NEW first \in Nat, NEW len, NEW f, NEW g,
           IsSum(f, n, first, len), LikeSum(g, n, first, len)
    PROVE  \A i \in 0 .. n : g[i] = f[i] /\ g[i] \in Nat
<1> DEFINE C == {k \in Nat : k > n \/ (g[k] = f[k] /\ g[k] \in Nat)}
<1>0. /\ f[0] = first /\ \A i \in 1 .. n : f[i] = f[i - 1] + len[i]
      /\ g[0] = first /\ \A i \in 1 .. n : len[i] \in Nat /\ (g[i - 1] \in Nat => g[i] = g[i - 1] + len[i])
  BY DEF IsSum, LikeSum
<1>1. 0 \in C
  BY <1>0
<1>2. ASSUME NEW k \in Nat, k \in C PROVE k + 1 \in C
  <2>1. CASE k + 1 <= n
    <3>1. k + 1 \in 1 .. n /\ (k + 1) - 1 = k /\ g[k] \in Nat /\ g[k] = f[k]
      BY <1>2, <2>1
    <3>2. g[k + 1] = g[k] + len[k + 1] /\ f[k + 1] = f[k] + len[k + 1] /\ len[k + 1] \in Nat
      BY <1>0, <3>1
    <3> QED
      BY <3>1, <3>2
  <2> QED
    BY <2>1
<1>3. \A k \in Nat : k \in C
  <2> HIDE DEF C
  <2> QED
    BY <1>1, <1>2, SetInduction
<1> QED
  BY <1>3

\* Sums of numbers grow, and what comes before a sum is in one of its parts.
SumGrows(e, n) ==
    /\ \A j, k \in 0 .. n : j <= k => e[j] <= e[k]
    /\ \A m \in 0 .. n : \A y \in 1 .. e[m] : \E k \in 1 .. m : e[k - 1] < y /\ y <= e[k]

LEMMA SumsGrow ==
    ASSUME NEW n \in Nat, NEW len, \A i \in 1 .. n : len[i] \in Nat, NEW e, IsSum(e, n, 0, len)
    PROVE  SumGrows(e, n)
<1>1. e \in [0 .. n -> Nat] /\ e[0] = 0 /\ \A i \in 1 .. n : e[i] = e[i - 1] + len[i]
  BY DEF IsSum
<1> DEFINE Good(m) == /\ \A j \in 0 .. m : e[j] <= e[m]
                      /\ \A y \in 1 .. e[m] : \E k \in 1 .. m : e[k - 1] < y /\ y <= e[k]
           C == {m \in Nat : m <= n => Good(m)}
<1>2. 0 \in C
  BY <1>1
<1>3. ASSUME NEW m \in Nat, m \in C PROVE m + 1 \in C
  <2> SUFFICES ASSUME m + 1 <= n PROVE Good(m + 1)
    OBVIOUS
  <2>1. m \in 0 .. n /\ m + 1 \in 1 .. n /\ (m + 1) - 1 = m /\ Good(m)
    BY <1>3
  <2>2. e[m + 1] = e[m] + len[m + 1] /\ e[m] \in Nat /\ len[m + 1] \in Nat
    BY <1>1, <2>1
  <2>3. ASSUME NEW j \in 0 .. m + 1 PROVE e[j] <= e[m + 1]
    <3>1. CASE j = m + 1
      BY <2>2, <3>1
    <3>2. CASE j # m + 1
      <4>1. j \in 0 .. m /\ j \in 0 .. n
        BY <2>1, <3>2
      <4>2. e[j] <= e[m] /\ e[j] \in Nat
        BY <1>1, <2>1, <4>1
      <4> QED
        BY <2>2, <4>2
    <3> QED
      BY <3>1, <3>2
  <2>4. ASSUME NEW y \in 1 .. e[m + 1] PROVE \E k \in 1 .. m + 1 : e[k - 1] < y /\ y <= e[k]
    <3>1. CASE y <= e[m]
      <4>1. y \in 1 .. e[m]
        BY <2>2, <3>1
      <4> QED
        BY <2>1, <4>1
    <3>2. CASE e[m] < y
      <4>1. m + 1 \in 1 .. m + 1 /\ e[(m + 1) - 1] < y /\ y <= e[m + 1]
        BY <2>1, <2>2, <3>2
      <4> QED
        BY <4>1
    <3> QED
      BY <2>2, <3>1, <3>2
  <2> QED
    BY <2>3, <2>4
<1>4. \A m \in Nat : m \in C
  <2> HIDE DEF C
  <2> QED
    BY <1>2, <1>3, SetInduction
<1>5. \A m \in 0 .. n : Good(m)
  BY <1>4
<1> HIDE DEF Good
<1>6. ASSUME NEW j \in 0 .. n, NEW k \in 0 .. n, j <= k PROVE e[j] <= e[k]
  <2>1. j \in 0 .. k /\ Good(k)
    BY <1>5, <1>6
  <2> QED
    BY <2>1 DEF Good
<1>7. ASSUME NEW m \in 0 .. n PROVE \A y \in 1 .. e[m] : \E k \in 1 .. m : e[k - 1] < y /\ y <= e[k]
  BY <1>5 DEF Good
<1> QED
  BY <1>6, <1>7 DEF SumGrows

-----------------------------------------------------------------------------
(* FlattenSeq() *)

LEMMA ConcatFacts ==
    ASSUME NEW S, NEW s \in Seq(S), NEW t \in Seq(S)
    PROVE  /\ s \o t \in Seq(S) /\ Len(s) \in Nat /\ Len(t) \in Nat /\ Len(s \o t) = Len(s) + Len(t)
           /\ \A i \in 1 .. Len(s) + Len(t) :
                 (s \o t)[i] = IF i <= Len(s) THEN s[i] ELSE t[i - Len(s)]
  OBVIOUS

LEMMA ConcatThree ==
    ASSUME NEW S, NEW a \in S, NEW b \in S, NEW s \in Seq(S), NEW t \in Seq(S)
    PROVE  LET all == <<a, b>> \o s \o t IN all \in Seq(S) /\ Len(all) \in Nat /\ Len(all) >= 2
<1>1. <<a, b>> \in Seq(S) /\ Len(<<a, b>>) = 2
  OBVIOUS
<1>2. <<a, b>> \o s \in Seq(S) /\ Len(<<a, b>> \o s) = 2 + Len(s)
  BY <1>1, ConcatFacts
<1>3. (<<a, b>> \o s) \o t \in Seq(S) /\ Len((<<a, b>> \o s) \o t) = 2 + Len(s) + Len(t)
  BY <1>2, ConcatFacts
<1>4. Len(s) \in Nat /\ Len(t) \in Nat
  OBVIOUS
<1> QED
  BY <1>3, <1>4

IsConcat(all, s, t, S) ==
    /\ all \in Seq(S) /\ Len(all) = Len(s) + Len(t)
    /\ \A i \in 1 .. Len(s) + Len(t) : all[i] = IF i <= Len(s) THEN s[i] ELSE t[i - Len(s)]

\* The sequences one after the other, from the first to the last.
LEMMA Flattened ==
    ASSUME NEW S, NEW n \in Nat, NEW ss \in [1 .. n -> Seq(S)]
    PROVE  \E f \in [0 .. n -> Seq(S)] :
              /\ f[0] = << >> /\ \A i \in 1 .. n : f[i] = f[i - 1] \o ss[i]
              /\ FlattenSeq(ss) = f[n]
<1> DEFINE G == [i \in 1 .. n |-> [t \in Seq(S) |-> t \o ss[i]]]
<1>0. Len(ss) = n
  OBVIOUS
<1>1. IsStep(G, n, Seq(S))
  BY DEF IsStep
<1>2. << >> \in Seq(S)
  OBVIOUS
<1>3. PICK f : Solves(f, n, Seq(S), << >>, G)
  <2> HIDE DEF G
  <2> QED
    BY <1>1, <1>2, Solution
<1>4. /\ f \in [0 .. n -> Seq(S)] /\ f[0] = << >>
      /\ \A i \in 1 .. n : f[i] = f[i - 1] \o ss[i]
  <2>1. f \in [0 .. n -> Seq(S)] /\ f[0] = << >> /\ \A i \in 1 .. n : f[i] = G[i][f[i - 1]]
    BY <1>3 DEF Solves
  <2> HIDE DEF G
  <2>2. ASSUME NEW i \in 1 .. n PROVE f[i] = f[i - 1] \o ss[i]
    <3>1. i - 1 \in 0 .. n /\ f[i] = G[i][f[i - 1]]
      BY <2>1
    <3>2. f[i - 1] \in Seq(S)
      BY <2>1, <3>1
    <3>3. \A t \in Seq(S) : G[i][t] = t \o ss[i]
      BY Zenon DEF G
    <3> QED
      BY <3>1, <3>2, <3>3, Zenon
  <2> QED
    BY <2>1, <2>2
<1> HIDE DEF G
<1>5. CASE n = 0
  <2>1. ss = << >>
    BY <1>5
  <2> QED
    BY <1>0, <1>4, <1>5, <2>1 DEF FlattenSeq
<1>6. CASE n > 0
  <2> DEFINE h == [i \in 1 .. n |-> f[i]]
             flatten == CHOOSE g : g = [i \in 1 .. n |-> IF i = 1 THEN ss[i] ELSE g[i - 1] \o ss[i]]
  <2>1. h = [i \in 1 .. n |-> IF i = 1 THEN ss[i] ELSE h[i - 1] \o ss[i]]
    <3>1. ASSUME NEW i \in 1 .. n PROVE f[i] = IF i = 1 THEN ss[i] ELSE h[i - 1] \o ss[i]
      <4>1. CASE i = 1
        <5>1. ss[1] \in Seq(S) /\ f[1] = f[0] \o ss[1]
          <6>1. 1 \in 1 .. n /\ 1 - 1 = 0
            BY <4>1
          <6> QED
            BY <1>4, <6>1
        <5>2. << >> \o ss[1] = ss[1]
          BY <5>1
        <5> QED
          BY <1>4, <4>1, <5>1, <5>2
      <4>2. CASE i # 1
        <5>1. i - 1 \in 1 .. n /\ h[i - 1] = f[i - 1]
          BY <4>2
        <5> QED
          BY <1>4, <4>2, <5>1
      <4> QED
        BY <4>1, <4>2
    <3> QED
      BY <3>1
  <2> HIDE DEF h
  <2>2. flatten = [i \in 1 .. n |-> IF i = 1 THEN ss[i] ELSE flatten[i - 1] \o ss[i]]
    BY <2>1
  <2>3. FlattenSeq(ss) = flatten[n]
    BY <1>0, <1>6 DEF FlattenSeq, flatten
  <2> HIDE DEF flatten
  <2> DEFINE C == {k \in Nat : k = 0 \/ k > n \/ flatten[k] = f[k]}
  <2>4. 0 \in C
    OBVIOUS
  <2>5. ASSUME NEW k \in Nat, k \in C PROVE k + 1 \in C
    <3>1. CASE k + 1 > n
      BY <3>1
    <3>2. CASE k = 0 /\ k + 1 <= n
      <4>0. 1 \in 1 .. n
        BY <3>2
      <4>1. flatten[1] = ss[1] /\ f[1] = f[0] \o ss[1] /\ ss[1] \in Seq(S)
        <5>1. flatten[1] = ss[1]
          BY <2>2, <4>0, Zenon
        <5>2. f[1] = f[1 - 1] \o ss[1]
          BY <1>4, <4>0
        <5> QED
          BY <4>0, <5>1, <5>2
      <4>2. << >> \o ss[1] = ss[1]
        BY <4>1
      <4> QED
        BY <1>4, <3>2, <4>1, <4>2
    <3>3. CASE k > 0 /\ k + 1 <= n
      <4>1. flatten[k] = f[k]
        BY <2>5, <3>3
      <4>2. k + 1 \in 1 .. n /\ k + 1 # 1 /\ (k + 1) - 1 = k
        BY <3>3
      <4>3. flatten[k + 1] = flatten[k] \o ss[k + 1]
        BY <2>2, <4>2
      <4>4. f[k + 1] = f[k] \o ss[k + 1]
        BY <1>4, <4>2
      <4>5. flatten[k + 1] = f[k + 1]
        BY <4>1, <4>3, <4>4, Zenon
      <4> QED
        BY <4>5
    <3> QED
      BY <3>1, <3>2, <3>3
  <2>6. n \in C
    <3> HIDE DEF C
    <3> QED
      BY <2>4, <2>5, SetInduction
  <2>7. FlattenSeq(ss) = f[n]
    BY <1>6, <2>3, <2>6
  <2> HIDE DEF C
  <2> QED
    BY <1>4, <2>7, Zenon
<1>7. n = 0 \/ n > 0
  OBVIOUS
<1> QED
  BY <1>5, <1>6, <1>7, Zenon

\* What is put into the first of the empty sequences at the end comes last.
LEMMA FlattenAppends ==
    ASSUME NEW S, NEW n \in Nat, NEW ss \in [1 .. n -> Seq(S)], NEW c \in 1 .. n, NEW list \in Seq(S),
           \A k \in c .. n : ss[k] = << >>,
           NEW tt \in [1 .. n -> Seq(S)], \A i \in 1 .. n : tt[i] = IF i = c THEN list ELSE ss[i]
    PROVE  IsConcat(FlattenSeq(tt), FlattenSeq(ss), list, S)
<1>0. \A i \in 1 .. n : tt[i] = IF i = c THEN list ELSE ss[i]
  OBVIOUS
<1>1. PICK f \in [0 .. n -> Seq(S)] :
          /\ f[0] = << >> /\ \A i \in 1 .. n : f[i] = f[i - 1] \o ss[i]
          /\ FlattenSeq(ss) = f[n]
  BY Flattened
<1>2. PICK g \in [0 .. n -> Seq(S)] :
          /\ g[0] = << >> /\ \A i \in 1 .. n : g[i] = g[i - 1] \o tt[i]
          /\ FlattenSeq(tt) = g[n]
  BY <1>0, Flattened
<1> DEFINE C == {k \in Nat : k > n \/ g[k] = IF k < c THEN f[k] ELSE f[k] \o list}
<1>3. 0 \in C
  BY <1>1, <1>2
<1>4. ASSUME NEW k \in Nat, k \in C PROVE k + 1 \in C
  <2>1. CASE k + 1 > n
    BY <2>1
  <2>2. CASE k + 1 <= n
    <3>1. /\ k + 1 \in 1 .. n /\ (k + 1) - 1 = k /\ f[k] \in Seq(S) /\ ss[k + 1] \in Seq(S)
          /\ g[k] = IF k < c THEN f[k] ELSE f[k] \o list
      <4>1. f[k] \in Seq(S) /\ ss[k + 1] \in Seq(S) /\ (k + 1) - 1 = k /\ k \in 0 .. n /\ k + 1 \in 1 .. n /\ ~(k > n)
        BY <2>2
      <4>2. g[k] = IF k < c THEN f[k] ELSE f[k] \o list
        BY <1>4, <4>1, Zenon
      <4> QED
        BY <4>1, <4>2, Zenon
    <3>2. f[k + 1] = f[k] \o ss[k + 1] /\ g[k + 1] = g[k] \o tt[k + 1]
      BY <1>1, <1>2, <3>1
    <3>3. CASE k + 1 < c
      <4>1. k < c /\ k + 1 # c
        BY <3>3
      <4>2. tt[k + 1] = ss[k + 1] /\ g[k] = f[k]
        BY <1>0, <3>1, <4>1, Zenon
      <4>3. g[k + 1] = f[k + 1]
        BY <3>2, <4>2, Zenon
      <4> QED
        BY <3>3, <4>3
    <3>4. CASE k + 1 = c
      <4>1. ss[k + 1] = << >> /\ tt[k + 1] = list /\ f[k] \o << >> = f[k]
        BY <1>0, <3>1, <3>4
      <4>2. k < c /\ ~(k + 1 < c)
        BY <3>4
      <4>3. g[k] = f[k] /\ f[k + 1] = f[k] /\ g[k + 1] = f[k] \o list
        BY <3>1, <3>2, <4>1, <4>2, Zenon
      <4>4. g[k + 1] = f[k + 1] \o list /\ ~(k + 1 < c)
        BY <4>2, <4>3, Zenon
      <4>5. g[k + 1] = IF k + 1 < c THEN f[k + 1] ELSE f[k + 1] \o list
        BY <4>4, Zenon
      <4>6. k + 1 \in Nat
        OBVIOUS
      <4> QED
        BY <4>5, <4>6, Zenon
    <3>5. CASE k + 1 > c
      <4>1. ss[k + 1] = << >> /\ tt[k + 1] = << >> /\ f[k] \o << >> = f[k]
        BY <1>0, <3>1, <3>5
      <4>2. f[k] \o list \in Seq(S) /\ (f[k] \o list) \o << >> = f[k] \o list
        BY <3>1
      <4> QED
        BY <3>1, <3>2, <3>5, <4>1, <4>2
    <3> QED
      BY <3>1, <3>3, <3>4, <3>5
  <2> QED
    BY <2>1, <2>2
<1>5. n \in C
  <2> HIDE DEF C
  <2> QED
    BY <1>3, <1>4, SetInduction
<1>6. ~(n > n) /\ ~(n < c)
  OBVIOUS
<1>7. g[n] = f[n] \o list
  BY <1>5, <1>6, Zenon
<1>8. f[n] \in Seq(S) /\ FlattenSeq(ss) = f[n] /\ FlattenSeq(tt) = g[n]
  BY <1>1, <1>2
<1>9. IsConcat(f[n] \o list, f[n], list, S)
  BY <1>8, ConcatFacts DEF IsConcat
<1> QED
  BY <1>7, <1>8, <1>9, Zenon

LEMMA FlattenEmpty ==
    ASSUME NEW S, NEW n \in Nat, NEW ss \in [1 .. n -> Seq(S)], \A k \in 1 .. n : ss[k] = << >>
    PROVE  FlattenSeq(ss) = << >>
<1>1. PICK f \in [0 .. n -> Seq(S)] :
          /\ f[0] = << >> /\ \A i \in 1 .. n : f[i] = f[i - 1] \o ss[i]
          /\ FlattenSeq(ss) = f[n]
  BY Flattened
<1> DEFINE C == {k \in Nat : k > n \/ f[k] = << >>}
<1>2. 0 \in C
  BY <1>1
<1>3. ASSUME NEW k \in Nat, k \in C PROVE k + 1 \in C
  <2>1. CASE k + 1 <= n
    <3>1. k + 1 \in 1 .. n /\ (k + 1) - 1 = k /\ f[k] = << >>
      BY <1>3, <2>1
    <3>2. << >> \o << >> = << >>
      OBVIOUS
    <3> QED
      BY <1>1, <3>1, <3>2
  <2> QED
    BY <2>1
<1>4. n \in C
  <2> HIDE DEF C
  <2> QED
    BY <1>2, <1>3, SetInduction
<1> QED
  BY <1>1, <1>4

\* Where the k-th of the sequences is in all of them.
PartAt(all, e, ss, k) == \A i \in 1 .. Len(ss[k]) : all[e[k - 1] + i] = ss[k][i]

LEMMA FlattenParts ==
    ASSUME NEW S, NEW n \in Nat, NEW ss \in [1 .. n -> Seq(S)]
    PROVE  \E e : /\ IsSum(e, n, 0, [k \in 1 .. n |-> Len(ss[k])])
                  /\ FlattenSeq(ss) \in Seq(S) /\ Len(FlattenSeq(ss)) = e[n]
                  /\ \A k \in 1 .. n : PartAt(FlattenSeq(ss), e, ss, k)
<1>1. PICK f \in [0 .. n -> Seq(S)] :
        /\ f[0] = << >> /\ \A i \in 1 .. n : f[i] = f[i - 1] \o ss[i]
        /\ FlattenSeq(ss) = f[n]
  BY Flattened
<1> DEFINE e == [k \in 0 .. n |-> Len(f[k])]
           len == [k \in 1 .. n |-> Len(ss[k])]
<1>2. \A k \in 1 .. n : IsConcat(f[k], f[k - 1], ss[k], S) /\ Len(f[k - 1]) \in Nat /\ Len(ss[k]) \in Nat
  <2> SUFFICES ASSUME NEW k \in 1 .. n
               PROVE  IsConcat(f[k], f[k - 1], ss[k], S) /\ Len(f[k - 1]) \in Nat /\ Len(ss[k]) \in Nat
    OBVIOUS
  <2>0. k - 1 \in 0 .. n
    OBVIOUS
  <2>1. f[k - 1] \in Seq(S) /\ ss[k] \in Seq(S) /\ f[k] = f[k - 1] \o ss[k]
    BY <1>1, <2>0
  <2> DEFINE a == f[k - 1]
             b == ss[k]
  <2> HIDE DEF a, b
  <2>2. IsConcat(a \o b, a, b, S) /\ Len(a) \in Nat /\ Len(b) \in Nat
    BY <2>1, ConcatFacts DEF IsConcat, a, b
  <2> QED
    BY <2>1, <2>2 DEF a, b
<1>3. IsSum(e, n, 0, len)
  <2>1. e \in [0 .. n -> Nat] /\ e[0] = 0
    BY <1>1
  <2>2. ASSUME NEW i \in 1 .. n PROVE e[i] = e[i - 1] + len[i]
    <3>1. i \in 0 .. n /\ i - 1 \in 0 .. n /\ Len(f[i]) = Len(f[i - 1]) + Len(ss[i])
      BY <1>2 DEF IsConcat
    <3> QED
      BY <3>1
  <2> QED
    BY <2>1, <2>2 DEF IsSum
<1>4. SumGrows(e, n)
  <2>1. \A i \in 1 .. n : len[i] \in Nat
    BY <1>2
  <2> HIDE DEF e, len
  <2> QED
    BY <1>3, <2>1, SumsGrow
<1> DEFINE C == {m \in Nat : m <= n => \A k \in 1 .. m : PartAt(f[m], e, ss, k)}
<1>5. 0 \in C
  OBVIOUS
<1>6. ASSUME NEW m \in Nat, m \in C PROVE m + 1 \in C
  <2> SUFFICES ASSUME m + 1 <= n, NEW k \in 1 .. m + 1
               PROVE  PartAt(f[m + 1], e, ss, k)
    <3> HIDE DEF e
    <3> QED
      OBVIOUS
  <2> SUFFICES ASSUME NEW i \in 1 .. Len(ss[k])
               PROVE  f[m + 1][e[k - 1] + i] = ss[k][i]
    BY Zenon DEF PartAt
  <2>1. m \in 0 .. n /\ m + 1 \in 1 .. n /\ (m + 1) - 1 = m /\ k \in 1 .. n /\ k - 1 \in 0 .. n /\ k \in 0 .. n
    OBVIOUS
  <2> DEFINE a == f[m]
             b == ss[m + 1]
             c == f[m + 1]
             x == e[k - 1] + i
             K == Len(ss[k])
  <2>2. IsConcat(c, a, b, S) /\ Len(a) \in Nat /\ Len(b) \in Nat
    BY <1>2, <2>1
  <2>a. i \in 1 .. K
    OBVIOUS
  <2>3. e[m] = Len(a) /\ e[k - 1] \in Nat /\ e[k] = e[k - 1] + K /\ K \in Nat
    <3>1. len[k] = K /\ e[m] = Len(a)
      BY <2>1
    <3>2. K \in Nat
      BY <1>2, <2>1
    <3> HIDE DEF e, len, K
    <3>3. e[k] = e[k - 1] + len[k] /\ e[k - 1] \in Nat
      BY <1>3, <2>1 DEF IsSum
    <3> QED
      BY <3>1, <3>2, <3>3
  <2> HIDE DEF e, len
  <2>4. CASE k = m + 1
    <3>0. K = Len(b)
      BY <2>4
    <3>1. x = Len(a) + i /\ i \in 1 .. Len(b) /\ x - Len(a) = i /\ ~(x <= Len(a))
      <4>1. k - 1 = m
        BY <2>4
      <4>2. x = e[k - 1] + i /\ e[k - 1] = Len(a) /\ Len(a) \in Nat
        BY <2>2, <2>3, <4>1
      <4>3. i \in 1 .. Len(b) /\ i \in Nat /\ i >= 1
        BY <2>a, <3>0
      <4> HIDE DEF a, b, K, x
      <4> QED
        BY <4>2, <4>3
    <3> HIDE DEF a, b, c, x, K
    <3>2. x \in 1 .. Len(a) + Len(b)
      BY <2>2, <3>1
    <3>3. c[x] = b[i]
      BY <2>2, <3>1, <3>2 DEF IsConcat
    <3> QED
      BY <2>4, <3>3 DEF b, c, x
  <2>5. CASE k # m + 1
    <3>1. k \in 1 .. m /\ k <= m
      BY <2>5
    <3>2. a[x] = ss[k][i]
      BY <1>6, <2>1, <3>1 DEF PartAt
    <3>3. e[k] <= e[m]
      BY <1>4, <2>1, <3>1 DEF SumGrows
    <3> HIDE DEF a, b, c, K
    <3>4. x \in 1 .. Len(a)
      <4>1. e[k - 1] + K <= Len(a) /\ x = e[k - 1] + i /\ e[k - 1] \in Nat /\ K \in Nat
        BY <2>3, <3>3
      <4>2. i \in Nat /\ 1 <= i /\ i <= K
        BY <2>3, <2>a
      <4> DEFINE u == e[k - 1]
                 v == Len(a)
      <4>3. u + K <= v /\ x = u + i /\ u \in Nat /\ K \in Nat /\ v \in Nat
        BY <2>2, <4>1
      <4> HIDE DEF x, u, v
      <4>4. x \in 1 .. v
        BY <4>2, <4>3
      <4> QED
        BY <4>4 DEF v
    <3> HIDE DEF x
    <3>5. c[x] = a[x]
      BY <2>2, <3>4 DEF IsConcat
    <3> QED
      BY <3>2, <3>5 DEF c, x
  <2> QED
    BY <2>4, <2>5
<1>7. n \in C
  <2> HIDE DEF C
  <2> QED
    BY <1>5, <1>6, SetInduction
<1>8. FlattenSeq(ss) = f[n] /\ f[n] \in Seq(S) /\ e[n] = Len(f[n])
  BY <1>1
<1> HIDE DEF e, len
<1>9. \A k \in 1 .. n : PartAt(FlattenSeq(ss), e, ss, k)
  BY <1>7, <1>8
<1> QED
  BY <1>3, <1>8, <1>9 DEF len

-----------------------------------------------------------------------------
(* What a filter keeps of a sequence *)

\* f[i] is what a filter has kept of the first i entries.
Scanning(f, S, n, list, keep) ==
    /\ f \in [0 .. n -> Seq(S)] /\ f[0] = << >>
    /\ \A i \in 1 .. n : f[i] = IF i \in keep THEN Append(f[i - 1], list[i]) ELSE f[i - 1]

\* The k-th entry that a scan of the first n entries returns is list[g[k]], and
\* it returns every one that the filter keeps once.
IsScan(out, g, list, n, keep) ==
    /\ g \in [1 .. Len(out) -> 1 .. n]
    /\ \A k \in 1 .. Len(out) : g[k] \in keep /\ out[k] = list[g[k]]
    /\ \A j, k \in 1 .. Len(out) : g[j] = g[k] => j = k
    /\ \A i \in 1 .. n : i \in keep => \E k \in 1 .. Len(out) : g[k] = i

\* What a filter has kept in the end is a scan of the whole sequence: nothing is
\* kept twice and nothing that it should keep is lost.
LEMMA KeptOnce ==
    ASSUME NEW S, NEW list \in Seq(S), NEW keep, NEW f, Scanning(f, S, Len(list), list, keep)
    PROVE  \E g : IsScan(f[Len(list)], g, list, Len(list), keep)
<1> DEFINE n == Len(list)
<1>1. /\ f \in [0 .. n -> Seq(S)] /\ f[0] = << >>
      /\ \A i \in 1 .. n : f[i] = IF i \in keep THEN Append(f[i - 1], list[i]) ELSE f[i - 1]
  BY DEF Scanning
<1>2. n \in Nat /\ \A i \in 1 .. n : list[i] \in S
  OBVIOUS
<1> HIDE DEF n
<1> DEFINE C == {i \in Nat : i > n \/ \E g : IsScan(f[i], g, list, i, keep)}
<1>3. 0 \in C
  <2>1. Len(f[0]) = 0
    BY <1>1
  <2>2. IsScan(f[0], [k \in 1 .. 0 |-> 0], list, 0, keep)
    BY <2>1 DEF IsScan
  <2> QED
    BY <2>2
<1>4. ASSUME NEW i \in Nat, i \in C PROVE i + 1 \in C
  <2>1. CASE i + 1 > n
    BY <2>1
  <2>2. CASE i + 1 <= n
    <3> DEFINE out == f[i]
               new == f[i + 1]
               m == Len(out)
    <3>1. i + 1 \in 1 .. n /\ (i + 1) - 1 = i /\ i \in 0 .. n
      BY <1>2, <2>2
    <3>2. out \in Seq(S) /\ m \in Nat /\ list[i + 1] \in S
      BY <1>1, <1>2, <3>1
    <3>3. new = IF i + 1 \in keep THEN Append(out, list[i + 1]) ELSE out
      BY <1>1, <3>1
    <3>4. PICK g : IsScan(out, g, list, i, keep)
      BY <1>4, <2>2, <1>2
    <3>5. /\ g \in [1 .. m -> 1 .. i]
          /\ \A k \in 1 .. m : g[k] \in keep /\ out[k] = list[g[k]]
          /\ \A j, k \in 1 .. m : g[j] = g[k] => j = k
          /\ \A a \in 1 .. i : a \in keep => \E k \in 1 .. m : g[k] = a
      BY <3>4 DEF IsScan
    <3> HIDE DEF out, new, m
    <3>6. CASE i + 1 \in keep
      <4> DEFINE h == [k \in 1 .. m + 1 |-> IF k <= m THEN g[k] ELSE i + 1]
      <4>1. Len(new) = m + 1 /\ new[m + 1] = list[i + 1] /\ \A k \in 1 .. m : new[k] = out[k]
        BY <3>2, <3>3, <3>6 DEF m
      <4>2. /\ h \in [1 .. m + 1 -> 1 .. i + 1] /\ h[m + 1] = i + 1
            /\ \A k \in 1 .. m : h[k] = g[k] /\ h[k] \in 1 .. i
        BY <3>2, <3>5
      <4>3. \A k \in 1 .. m + 1 : k = m + 1 \/ k \in 1 .. m
        BY <3>2
      <4> HIDE DEF h
      <4>4. \A k \in 1 .. m + 1 : h[k] \in keep /\ new[k] = list[h[k]]
        BY <3>5, <3>6, <4>1, <4>2, <4>3
      <4>5. \A j, k \in 1 .. m + 1 : h[j] = h[k] => j = k
        BY <3>5, <4>2, <4>3
      <4>6. \A a \in 1 .. i + 1 : a \in keep => \E k \in 1 .. m + 1 : h[k] = a
        <5>1. \A a \in 1 .. i + 1 : a = i + 1 \/ a \in 1 .. i
          OBVIOUS
        <5>2. m + 1 \in 1 .. m + 1 /\ \A k \in 1 .. m : k \in 1 .. m + 1
          BY <3>2
        <5> QED
          BY <3>5, <4>2, <5>1, <5>2
      <4>7. IsScan(new, h, list, i + 1, keep)
        BY <4>1, <4>2, <4>4, <4>5, <4>6 DEF IsScan
      <4> QED
        BY <4>7 DEF new
    <3>7. CASE i + 1 \notin keep
      <4>1. new = out
        BY <3>3, <3>7
      <4>2. \A a \in 1 .. i + 1 : a \in keep => a \in 1 .. i
        BY <3>7
      <4>3. g \in [1 .. m -> 1 .. i + 1]
        BY <3>5
      <4>4. IsScan(new, g, list, i + 1, keep)
        BY <3>5, <4>1, <4>2, <4>3 DEF IsScan, m
      <4> QED
        BY <4>4 DEF new
    <3> QED
      BY <3>6, <3>7
  <2> QED
    BY <1>2, <2>1, <2>2
<1>5. n \in C
  <2> HIDE DEF C
  <2> QED
    BY <1>2, <1>3, <1>4, SetInduction
<1> QED
  BY <1>1, <1>2, <1>5 DEF n
=============================================================================
