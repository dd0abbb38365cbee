----------------------------- MODULE DataLemmas -----------------------------
(***************************************************************************)
(* Facts about numbers and sequences that the proofs about the components  *)
(* share.  Induction is derived from the least-element principle of the    *)
(* library, which takes a set and no predicate as parameter.               *)
(***************************************************************************)
EXTENDS Integers, Sequences, FiniteSets, SequencesExt, FiniteSetTheorems,
        WellFoundedInduction, TLAPS

\* A set of natural numbers that is not empty has a least element.
LEMMA LeastExists ==
  ASSUME NEW S \in SUBSET Nat, S # {}
  PROVE  \E m \in S : \A j \in S : m <= j
<1> DEFINE R == OpToRel(<, Nat)
<1>1. PICK m \in S : \A j \in S : ~(<<j, m>> \in R)
  <2> HIDE DEF R
  <2>1. IsWellFoundedOn(R, Nat)
    BY NatLessThanWellFounded DEF R
  <2>2. QED
    BY <2>1, WFMin
<1>2. \A j \in S : ~(j < m)
  BY <1>1 DEF OpToRel
<1>3. QED
  BY <1>2

\* Induction over the numbers up to n: a set that has 0, and with each number its
\* successor, has them all.
LEMMA Induction ==
  ASSUME NEW n \in Nat, NEW S, 0 \in S, \A i \in 1 .. n : i - 1 \in S => i \in S
  PROVE  \A i \in 0 .. n : i \in S
<1> DEFINE T == {i \in 0 .. n : i \notin S}
<1> SUFFICES ASSUME T # {} PROVE FALSE
  OBVIOUS
<1>1. T \in SUBSET Nat
  OBVIOUS
<1>2. PICK i \in T : \A m \in T : i <= m
  BY <1>1, LeastExists
<1>3. i \in 0 .. n /\ i \notin S /\ i # 0
  OBVIOUS
<1>4. i - 1 \in 0 .. n /\ i - 1 \notin T
  BY <1>2, <1>3
<1>5. QED
  BY <1>3, <1>4

\* A bounded one has a greatest.
LEMMA GreatestExists ==
  ASSUME NEW n \in Nat, NEW S \in SUBSET (1 .. n), S # {}
  PROVE  \E m \in S : \A j \in S : j <= m
<1> DEFINE D == {n - i : i \in S}
<1>1. D \subseteq Nat
  <2>1. \A i \in S : n - i \in Nat
    OBVIOUS
  <2>2. QED
    BY <2>1
<1>2a. D # {}
  <2>1. PICK i \in S : TRUE
    OBVIOUS
  <2>2. n - i \in D
    OBVIOUS
  <2>3. QED
    BY <2>2
<1>2. PICK d \in D : \A e \in D : d <= e
  BY <1>1, <1>2a, LeastExists
<1>3. PICK m \in S : d = n - m
  BY <1>2
<1>4. QED
  BY <1>2, <1>3

\* What Append, SubSeq and \o hold where.
LEMMA AppendElements ==
  ASSUME NEW S, NEW z \in Seq(S), NEW e \in S
  PROVE  /\ Append(z, e) \in Seq(S) /\ Len(Append(z, e)) = Len(z) + 1
         /\ \A j \in 1 .. Len(z) : Append(z, e)[j] = z[j]
         /\ Append(z, e)[Len(z) + 1] = e
OBVIOUS

LEMMA SubSeqElements ==
  ASSUME NEW S, NEW z \in Seq(S), NEW m \in 1 .. Len(z) + 1, NEW n \in m - 1 .. Len(z)
  PROVE  /\ SubSeq(z, m, n) \in Seq(S) /\ Len(SubSeq(z, m, n)) = n - m + 1
         /\ \A j \in 1 .. n - m + 1 : SubSeq(z, m, n)[j] = z[m + j - 1]
OBVIOUS

LEMMA FrontElements ==
  ASSUME NEW S, NEW z \in Seq(S), z # << >>
  PROVE  /\ Front(z) \in Seq(S) /\ Len(Front(z)) = Len(z) - 1
         /\ \A j \in 1 .. Len(z) - 1 : Front(z)[j] = z[j]
<1>1. Len(z) \in Nat \ {0}
  OBVIOUS
<1>2. \A m \in Nat : m <= Len(z) =>
        /\ SubSeq(z, 1, m) \in Seq(S) /\ Len(SubSeq(z, 1, m)) = m
        /\ \A j \in 1 .. m : SubSeq(z, 1, m)[j] = z[j]
  OBVIOUS
<1> DEFINE n == Len(z) - 1
<1>3. n \in Nat /\ n <= Len(z)
  BY <1>1
<1> HIDE DEF n
<1>4. QED
  BY <1>2, <1>3 DEF Front, n

LEMMA ConcatElements ==
  ASSUME NEW S, NEW y \in Seq(S), NEW z \in Seq(S)
  PROVE  /\ y \o z \in Seq(S) /\ Len(y \o z) = Len(y) + Len(z)
         /\ \A j \in 1 .. Len(y) : (y \o z)[j] = y[j]
         /\ \A j \in 1 .. Len(z) : (y \o z)[Len(y) + j] = z[j]
OBVIOUS

\* Sequences are equal when their lengths and elements are.
LEMMA SeqEqual ==
  ASSUME NEW S, NEW y \in Seq(S), NEW z \in Seq(S), Len(y) = Len(z),
         \A j \in 1 .. Len(y) : y[j] = z[j]
  PROVE  y = z
OBVIOUS

\* What RemoveAt leaves.
LEMMA RemoveAtElements ==
  ASSUME NEW S, NEW z \in Seq(S), NEW i \in 1 .. Len(z)
  PROVE  /\ RemoveAt(z, i) \in Seq(S)
         /\ Len(RemoveAt(z, i)) = Len(z) - 1
         /\ \A j \in 1 .. Len(z) - 1 : RemoveAt(z, i)[j] = z[IF j < i THEN j ELSE j + 1]
<1> DEFINE a == SubSeq(z, 1, i - 1)
           b == SubSeq(z, i + 1, Len(z))
<1>1. a \in Seq(S) /\ Len(a) = i - 1 /\ \A j \in 1 .. i - 1 : a[j] = z[j]
  OBVIOUS
<1>2. b \in Seq(S) /\ Len(b) = Len(z) - i /\ \A j \in 1 .. Len(z) - i : b[j] = z[i + j]
  OBVIOUS
<1> HIDE DEF a, b
<1>3. a \o b \in Seq(S) /\ Len(a \o b) = Len(z) - 1
  <2>1. a \in Seq(S) /\ b \in Seq(S)
    BY <1>1, <1>2
  <2>2. a \o b \in Seq(S) /\ Len(a \o b) = Len(a) + Len(b)
    BY <2>1
  <2>3. Len(a) + Len(b) = Len(z) - 1
    BY <1>1, <1>2
  <2>4. QED
    BY <2>2, <2>3
<1>4. \A j \in 1 .. Len(z) - 1 : (a \o b)[j] = IF j <= Len(a) THEN a[j] ELSE b[j - Len(a)]
  BY <1>1, <1>2
<1>5. \A j \in 1 .. Len(z) - 1 : (a \o b)[j] = z[IF j < i THEN j ELSE j + 1]
  BY <1>1, <1>2, <1>4
<1>6. QED
  BY <1>3, <1>5 DEF RemoveAt, a, b

\* Taking an element out of a sequence without repetitions takes it out of its set.
LEMMA RemoveAtSet ==
  ASSUME NEW S, NEW z \in Seq(S), IsInjective(z), NEW i \in 1 .. Len(z)
  PROVE  /\ ToSet(RemoveAt(z, i)) = ToSet(z) \ {z[i]}
         /\ IsInjective(RemoveAt(z, i))
<1> DEFINE r == RemoveAt(z, i)
<1>1. /\ r \in Seq(S) /\ Len(r) = Len(z) - 1
      /\ \A j \in 1 .. Len(z) - 1 : r[j] = z[IF j < i THEN j ELSE j + 1]
  BY RemoveAtElements
<1> HIDE DEF r
<1>2. \A a, b \in 1 .. Len(z) : z[a] = z[b] => a = b
  BY DEF IsInjective
<1>3. IsInjective(r)
  BY <1>1, <1>2 DEF IsInjective
<1>4. ASSUME NEW j \in 1 .. Len(r)
      PROVE  r[j] \in ToSet(z) \ {z[i]}
  <2>1. PICK n \in 1 .. Len(z) : n # i /\ r[j] = z[n]
    <3>1. CASE j < i
      BY <1>1, <3>1
    <3>2. CASE ~(j < i)
      <4>1. r[j] = z[j + 1] /\ j + 1 \in 1 .. Len(z) /\ j + 1 # i
        BY <1>1, <3>2
      <4>2. QED
        BY <4>1
    <3>3. QED
      BY <3>1, <3>2
  <2>2. QED
    BY <1>2, <2>1 DEF ToSet
<1>5. ASSUME NEW j \in 1 .. Len(z), j # i
      PROVE  z[j] \in ToSet(r)
  <2>1. CASE j < i
    <3>1. r[j] = z[j] /\ j \in 1 .. Len(r)
      BY <1>1, <2>1
    <3>2. QED
      BY <1>1, <3>1 DEF ToSet
  <2>2. CASE j > i
    <3>1. r[j - 1] = z[j] /\ j - 1 \in 1 .. Len(r)
      BY <1>1, <2>2
    <3>2. QED
      BY <1>1, <3>1 DEF ToSet
  <2>3. QED
    BY <1>5, <2>1, <2>2
<1>6. QED
  BY <1>1, <1>3, <1>4, <1>5 DEF ToSet, r

\* Appending a new element.
LEMMA AppendSet ==
  ASSUME NEW S, NEW z \in Seq(S), IsInjective(z), NEW e \in S, e \notin ToSet(z)
  PROVE  /\ ToSet(Append(z, e)) = ToSet(z) \cup {e}
         /\ IsInjective(Append(z, e))
<1> DEFINE r == Append(z, e)
<1>1. r \in Seq(S) /\ Len(r) = Len(z) + 1 /\ r[Len(z) + 1] = e /\ \A j \in 1 .. Len(z) : r[j] = z[j]
  OBVIOUS
<1>2. \A a, b \in 1 .. Len(z) : z[a] = z[b] => a = b
  BY DEF IsInjective
<1>3. \A a \in 1 .. Len(z) : z[a] # e
  BY DEF ToSet
<1> HIDE DEF r
<1>4. IsInjective(r)
  BY <1>1, <1>2, <1>3 DEF IsInjective
<1>5. ToSet(r) = ToSet(z) \cup {e}
  BY <1>1 DEF ToSet
<1>6. QED
  BY <1>4, <1>5 DEF r

\* What the steps keep, the last of n steps has.
LEMMA StaysIn ==
  ASSUME NEW n \in Nat, NEW S, NEW f, f[0] \in S, \A i \in 1 .. n : f[i - 1] \in S => f[i] \in S
  PROVE  f[n] \in S /\ \A i \in 0 .. n : f[i] \in S
<1> DEFINE T == {i \in 0 .. n : f[i] \in S}
<1>1. 0 \in T /\ \A i \in 1 .. n : i - 1 \in T => i \in T
  OBVIOUS
<1> HIDE DEF T
<1>2. \A i \in 0 .. n : i \in T
  BY <1>1, Induction
<1>3. n \in T
  BY <1>2
<1>4. QED
  BY <1>2, <1>3 DEF T

\* f begins with b and goes on by G.
IsIteration(f, n, S, b, G) ==
    f \in [0 .. n -> S] /\ f[0] = b /\ \A i \in 1 .. n : f[i] = G[<<f[i - 1], i>>]

\* A function on the numbers up to n can be defined by recursion.
LEMMA IterationExists ==
  ASSUME NEW n \in Nat, NEW S, NEW b \in S, NEW G \in [S \X (1 .. n) -> S]
  PROVE  \E f : IsIteration(f, n, S, b, G)
<1> DEFINE Is(f, m) == IsIteration(f, m, S, b, G)
           T == {m \in 0 .. n : \E f : Is(f, m)}
<1>1. 0 \in T
  <2> DEFINE f == [i \in 0 .. 0 |-> b]
  <2>1. Is(f, 0)
    BY DEF IsIteration
  <2> HIDE DEF f, Is
  <2>2. QED
    BY <2>1
<1>2. ASSUME NEW m \in 1 .. n, m - 1 \in T PROVE m \in T
  <2>1. PICK f : Is(f, m - 1)
    BY <1>2
  <2> DEFINE g == [i \in 0 .. m |-> IF i = m THEN G[<<f[m - 1], m>>] ELSE f[i]]
  <2>2. f[m - 1] \in S /\ <<f[m - 1], m>> \in S \X (1 .. n)
    BY <2>1 DEF IsIteration
  <2>3. G[<<f[m - 1], m>>] \in S
    BY <2>2
  <2>4. \A i \in 0 .. m : g[i] \in S
    BY <2>1, <2>3 DEF IsIteration
  <2>5. g[m] = G[<<f[m - 1], m>>] /\ \A i \in 0 .. m - 1 : g[i] = f[i]
    OBVIOUS
  <2>6. g \in [0 .. m -> S]
    BY <2>4
  <2> HIDE DEF g
  <2>7. g[0] = b
    BY <2>1, <2>5 DEF IsIteration
  <2>8. ASSUME NEW i \in 1 .. m PROVE g[i] = G[<<g[i - 1], i>>]
    <3>1. g[i - 1] = f[i - 1]
      BY <2>5
    <3>2. CASE i = m
      BY <2>5, <3>1, <3>2
    <3>3. CASE i # m
      <4>1. i \in 1 .. m - 1 /\ g[i] = f[i]
        BY <2>5, <3>3
      <4>2. QED
        BY <2>1, <3>1, <4>1 DEF IsIteration
    <3>4. QED
      BY <3>2, <3>3
  <2>9. Is(g, m)
    BY <2>6, <2>7, <2>8 DEF IsIteration
  <2> HIDE DEF Is
  <2>10. QED
    BY <2>9
<1> HIDE DEF T
<1>3. \A m \in 0 .. n : m \in T
  BY <1>1, <1>2, Induction
<1>4. n \in T
  BY <1>3
<1>5. QED
  BY <1>4 DEF T

\* Quotient and remainder of natural numbers ...
LEMMA Division ==
  ASSUME NEW n \in Nat, NEW d \in Nat \ {0}
  PROVE  n \div d \in Nat /\ n % d \in 0 .. d - 1 /\ n = d * (n \div d) + (n % d)
BY SMT

\* ... are the only ones.
LEMMA DivisionUnique ==
  ASSUME NEW d \in Nat \ {0}, NEW p \in Nat, NEW q \in Nat,
         NEW r \in 0 .. d - 1, NEW s \in 0 .. d - 1, d * p + r = d * q + s
  PROVE  p = q /\ r = s
<1>1. ASSUME NEW x \in Nat, NEW y \in Nat, NEW u \in 0 .. d - 1, NEW v \in 0 .. d - 1,
             d * x + u = d * y + v
      PROVE  ~(x < y)
  <2> SUFFICES ASSUME x < y PROVE FALSE
    OBVIOUS
  <2>1. d * (x + 1) <= d * y
    BY SMT
  <2>2. d * (x + 1) = d * x + d
    BY SMT
  <2>3. QED
    BY <1>1, <2>1, <2>2
<1>2. ~(p < q) /\ ~(q < p)
  BY <1>1
<1>3. QED
  BY <1>2

LEMMA DivisionIs ==
  ASSUME NEW d \in Nat \ {0}, NEW q \in Nat, NEW r \in 0 .. d - 1
  PROVE  (d * q + r) \div d = q /\ (d * q + r) % d = r
<1>1. d * q + r \in Nat
  BY SMT
<1>2. QED
  BY <1>1, Division, DivisionUnique

\* What is below a multiple has a quotient below the factor.
LEMMA QuotientBelow ==
  ASSUME NEW m \in Nat, NEW d \in Nat \ {0}, NEW n \in Nat, n < m * d
  PROVE  n \div d \in 0 .. m - 1
<1> DEFINE q == n \div d
           r == n % d
<1>1. q \in Nat /\ r \in 0 .. d - 1 /\ n = d * q + r
  BY Division
<1> HIDE DEF q, r
<1>2. d * q \in Nat /\ m * d \in Nat /\ d * q <= n
  BY <1>1
<1>3. q >= m => d * q >= m * d
  BY <1>1
<1>4. q < m
  BY <1>1, <1>2, <1>3
<1>5. QED
  BY <1>1, <1>4 DEF q
=============================================================================
