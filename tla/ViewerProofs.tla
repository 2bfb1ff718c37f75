---------------------------- MODULE ViewerProofs ----------------------------
(***************************************************************************)
(* The table of the web viewer's page shows a piece of the log without a   *)
(* gap, a double row or a row out of order (Viewer.tla, RowsContiguous),   *)
(* for every value of the constants.                                       *)
(***************************************************************************)
EXTENDS Viewer, SequenceTheorems, FiniteSetTheorems, WellFoundedInduction, TLAPS

-----------------------------------------------------------------------------
(* Numbers: induction in the form it has for a set, and sums.              *)

\* Induction over the naturals for sets: a set of numbers has a least one.
LEMMA LeastNat ==
    ASSUME NEW T \in SUBSET Nat, T # {}
    PROVE  \E n \in T : \A m \in T : n <= m
<1> DEFINE R == {ss \in Nat \X Nat : ss[1] < ss[2]}
<1>1. IsWellFoundedOn(R, Nat)
  BY NatLessThanWellFounded DEF OpToRel
<1>2. \A x, y \in Nat : y < x => <<y, x>> \in R
  OBVIOUS
<1> HIDE DEF R
<1>3. PICK x \in T : \A y \in T : ~(<<y, x>> \in R)
  BY <1>1, WFMin
<1>4. \A y \in T : ~(y < x)
  BY <1>2, <1>3
<1> QED
  BY <1>4

\* A set with 0 and every successor has every number.
LEMMA NatInd ==
    ASSUME NEW T, 0 \in T, \A n \in Nat : n \in T => n + 1 \in T
    PROVE  Nat \subseteq T
<1> DEFINE C == Nat \ T
<1> SUFFICES ASSUME C # {} PROVE FALSE
  OBVIOUS
<1>1. PICK n \in C : \A m \in C : n <= m
  BY LeastNat
<1> QED
  BY <1>1

\* The recursive function that sums up weights exists.
LEMMA SumExists ==
    ASSUME NEW w
    PROVE  \E f : f = [n \in Nat |-> IF n = 0 THEN 0 ELSE f[n - 1] + w[n]]
<1> DEFINE Sat(g, N) == g = [n \in 0..N |-> IF n = 0 THEN 0 ELSE g[n - 1] + w[n]]
<1>1. \A N \in Nat : \E g : Sat(g, N)
  <2> DEFINE T == {N \in Nat : \E g : Sat(g, N)}
  <2>1. 0 \in T
    <3>1. Sat([n \in 0..0 |-> 0], 0)
      OBVIOUS
    <3> QED
      BY <3>1
  <2>2. ASSUME NEW N \in Nat, N \in T
        PROVE  N + 1 \in T
    <3>1. PICK g : Sat(g, N)
      BY <2>2
    <3> DEFINE h == [n \in 0..(N + 1) |-> IF n <= N THEN g[n] ELSE g[N] + w[N + 1]]
    <3>2. \A n \in 0..N : g[n] = IF n = 0 THEN 0 ELSE g[n - 1] + w[n]
      BY <3>1
    <3>3. ASSUME NEW n \in 0..(N + 1)
          PROVE  h[n] = IF n = 0 THEN 0 ELSE h[n - 1] + w[n]
      <4>1. CASE n <= N
        BY <3>2, <4>1
      <4>2. CASE n = N + 1
        BY <4>2
      <4> QED
        BY <4>1, <4>2
    <3>4. Sat(h, N + 1)
      BY <3>3
    <3> HIDE DEF h, Sat
    <3> QED
      BY <3>4
  <2> HIDE DEF T
  <2>3. Nat \subseteq T
    BY <2>1, <2>2, NatInd
  <2> QED
    BY <2>3 DEF T
<1>2. ASSUME NEW N \in Nat, NEW M \in Nat, N <= M, NEW g, NEW h, Sat(g, N), Sat(h, M)
      PROVE  \A n \in 0..N : g[n] = h[n]
  <2> DEFINE T == {n \in Nat : n <= N => g[n] = h[n]}
  <2>0. /\ \A n \in 0..N : g[n] = IF n = 0 THEN 0 ELSE g[n - 1] + w[n]
        /\ \A n \in 0..M : h[n] = IF n = 0 THEN 0 ELSE h[n - 1] + w[n]
    BY <1>2
  <2>1. 0 \in T
    BY <1>2, <2>0
  <2>2. ASSUME NEW n \in Nat, n \in T
        PROVE  n + 1 \in T
    <3>1. CASE n + 1 <= N
      BY <1>2, <2>0, <2>2, <3>1
    <3> QED
      BY <3>1
  <2> HIDE DEF T
  <2>3. Nat \subseteq T
    BY <2>1, <2>2, NatInd
  <2> QED
    BY <2>3 DEF T
<1> DEFINE G == [N \in Nat |-> CHOOSE g : Sat(g, N)]
           f == [n \in Nat |-> G[n][n]]
<1>3. \A N \in Nat : Sat(G[N], N)
  BY <1>1
<1> HIDE DEF G
<1>4. ASSUME NEW n \in Nat
      PROVE  f[n] = IF n = 0 THEN 0 ELSE f[n - 1] + w[n]
  <2>1. G[n][n] = IF n = 0 THEN 0 ELSE G[n][n - 1] + w[n]
    <3> DEFINE g == G[n]
    <3>1. Sat(g, n)
      BY <1>3
    <3> HIDE DEF g
    <3>2. g[n] = IF n = 0 THEN 0 ELSE g[n - 1] + w[n]
      BY <3>1
    <3> QED
      BY <3>2 DEF g
  <2>2. CASE n # 0
    <3>1. n - 1 \in Nat /\ Sat(G[n - 1], n - 1) /\ Sat(G[n], n)
      BY <1>3, <2>2
    <3> HIDE DEF Sat
    <3>2. G[n - 1][n - 1] = G[n][n - 1]
      BY <1>2, <2>2, <3>1
    <3> QED
      BY <2>1, <2>2, <3>1, <3>2
  <2> QED
    BY <2>1, <2>2
<1>5. f = [n \in Nat |-> IF n = 0 THEN 0 ELSE f[n - 1] + w[n]]
  BY <1>4
<1> QED
  BY <1>5

-----------------------------------------------------------------------------
(* The offsets of a chain of files.                                        *)

\* What Offsets() computes.
Sums(f, c) == \A n \in Nat : f[n] = IF n = 0 THEN 0 ELSE f[n - 1] + Len(c[n])

\* The recursive function of Offsets() exists.
LEMMA OffsetsSum == ASSUME NEW c PROVE Sums(Offsets(c), c)
<1> DEFINE w == [n \in Nat |-> Len(c[n])]
           upto[n \in Nat] == IF n = 0 THEN 0 ELSE upto[n - 1] + Len(c[n])
<1>1. PICK g : g = [n \in Nat |-> IF n = 0 THEN 0 ELSE g[n - 1] + w[n]]
  <2> HIDE DEF w
  <2> QED
    BY SumExists
<1>2. g = [n \in Nat |-> IF n = 0 THEN 0 ELSE g[n - 1] + Len(c[n])]
  BY <1>1
<1>3. upto = [n \in Nat |-> IF n = 0 THEN 0 ELSE upto[n - 1] + Len(c[n])]
  BY <1>2
<1>4. Offsets(c) = upto
  BY DEF Offsets
<1> HIDE DEF upto
<1>5. Sums(upto, c)
  BY <1>3 DEF Sums
<1> QED
  BY <1>4, <1>5

\* A file is a sequence of bytes, a chain a sequence of files that hold some.
Files == Seq(Nat)
Chains == {c \in Seq(Files) : \A i \in DOMAIN c : c[i] # <<>>}

\* The offsets of a chain begin with 0 and grow by the length of each file.
LEMMA OffsetsStep ==
    ASSUME NEW c \in Chains
    PROVE  /\ Offsets(c)[0] = 0
           /\ \A n \in 0..Len(c) : Offsets(c)[n] \in Nat
           /\ \A n \in 1..Len(c) : /\ Len(c[n]) \in Nat \ {0}
                                   /\ Offsets(c)[n] = Offsets(c)[n - 1] + Len(c[n])
<1> DEFINE f == Offsets(c)
<1>1. Sums(f, c)
  BY OffsetsSum
<1> HIDE DEF f
<1>2. Len(c) \in Nat /\ \A n \in 1..Len(c) : c[n] \in Seq(Nat) /\ c[n] # <<>>
  BY DEF Chains, Files
<1>3. ASSUME NEW n \in 1..Len(c) PROVE Len(c[n]) \in Nat \ {0}
  BY <1>2
<1>4. f[0] = 0
  BY <1>1 DEF Sums
<1>5. \A n \in 1..Len(c) : f[n] = f[n - 1] + Len(c[n])
  BY <1>1, <1>2 DEF Sums
<1> DEFINE T == {n \in Nat : n <= Len(c) => f[n] \in Nat}
<1>6. 0 \in T
  BY <1>4
<1>7. ASSUME NEW n \in Nat, n \in T
      PROVE  n + 1 \in T
  <2> SUFFICES ASSUME n + 1 <= Len(c) PROVE f[n + 1] \in Nat
    OBVIOUS
  <2>1. n + 1 \in 1..Len(c) /\ f[n] \in Nat
    BY <1>2, <1>7
  <2>2. f[n + 1] = f[n] + Len(c[n + 1])
    BY <1>5, <2>1
  <2> QED
    BY <1>3, <2>1, <2>2
<1> HIDE DEF T
<1>8. Nat \subseteq T
  BY <1>6, <1>7, NatInd
<1>9. \A n \in 0..Len(c) : f[n] \in Nat
  BY <1>8, <1>2 DEF T
<1> QED
  BY <1>3, <1>4, <1>5, <1>9 DEF f

\* Later files begin later.
LEMMA OffsetsGrow ==
    ASSUME NEW c \in Chains, NEW m \in 0..Len(c), NEW n \in 0..Len(c), m <= n
    PROVE  Offsets(c)[m] <= Offsets(c)[n]
<1> DEFINE f == Offsets(c)
           T == {k \in Nat : m + k <= Len(c) => f[m] <= f[m + k]}
<1>0. Len(c) \in Nat
  BY DEF Chains
<1>1. /\ \A k \in 0..Len(c) : f[k] \in Nat
      /\ \A k \in 1..Len(c) : Len(c[k]) \in Nat \ {0} /\ f[k] = f[k - 1] + Len(c[k])
  BY OffsetsStep
<1> HIDE DEF f
<1>2. 0 \in T
  BY <1>0, <1>1
<1>3. ASSUME NEW k \in Nat, k \in T
      PROVE  k + 1 \in T
  <2> SUFFICES ASSUME m + (k + 1) <= Len(c) PROVE f[m] <= f[m + (k + 1)]
    OBVIOUS
  <2> DEFINE x == m + (k + 1)
  <2>1. x \in 1..Len(c) /\ x - 1 = m + k /\ m + k \in 0..Len(c)
    BY <1>0
  <2> HIDE DEF x
  <2>2. f[x] = f[m + k] + Len(c[x]) /\ f[m + k] \in Nat /\ Len(c[x]) \in Nat /\ f[m] \in Nat
    BY <1>1, <2>1
  <2>3. f[m] <= f[m + k]
    BY <1>3, <1>0, <2>1
  <2> QED
    BY <2>2, <2>3 DEF x
<1> HIDE DEF T
<1>4. Nat \subseteq T
  BY <1>2, <1>3, NatInd
<1>5. n - m \in T /\ m + (n - m) = n
  BY <1>0, <1>4
<1> QED
  BY <1>5 DEF T, f

-----------------------------------------------------------------------------
(* Lines in order.                                                         *)

\* Lines at places below some bound, no two at the same.
Spread(S) ==
    /\ \A k, l \in S : k.at = l.at => k = l
    /\ \E n \in Nat : \A l \in S : l.at \in Nat /\ l.at < n

\* s lists the lines of S by their places.
Lists(s, S) ==
    /\ s \in Seq(S)
    /\ \A i, j \in DOMAIN s : i < j => s[i].at < s[j].at
    /\ \A l \in S : \E i \in DOMAIN s : s[i] = l

\* Spread lines can be listed.
LEMMA CanList ==
    ASSUME NEW S, Spread(S)
    PROVE  \E s : Lists(s, S)
<1> DEFINE T == {n \in Nat : \A U \in SUBSET S :
                    (\A l \in U : l.at < n) => \E s : Lists(s, U)}
<1>0. \A l \in S : l.at \in Nat
  BY DEF Spread
<1>1. 0 \in T
  <2> SUFFICES ASSUME NEW U \in SUBSET S, \A l \in U : l.at < 0
               PROVE  \E s : Lists(s, U)
    OBVIOUS
  <2>1. U = {}
    BY <1>0
  <2>2. Lists(<<>>, U)
    BY <2>1 DEF Lists
  <2> QED
    BY <2>2
<1>2. ASSUME NEW n \in Nat, n \in T
      PROVE  n + 1 \in T
  <2> SUFFICES ASSUME NEW U \in SUBSET S, \A l \in U : l.at < n + 1
               PROVE  \E s : Lists(s, U)
    OBVIOUS
  <2>1. CASE \A l \in U : l.at # n
    <3>1. \A l \in U : l.at < n
      BY <1>0, <2>1
    <3> QED
      BY <1>2, <3>1
  <2>2. CASE \E l \in U : l.at = n
    <3>1. PICK m \in U : m.at = n
      BY <2>2
    <3> DEFINE V == U \ {m}
    <3>2. \A l \in V : l.at < n
      BY <1>0, <3>1 DEF Spread
    <3>3. PICK s : Lists(s, V)
      BY <1>2, <3>2
    <3> DEFINE t == Append(s, m)
    <3>4. s \in Seq(V) /\ s \in Seq(U) /\ Len(s) \in Nat /\ DOMAIN s = 1..Len(s)
      BY <3>3 DEF Lists
    <3>5. /\ t \in Seq(U) /\ DOMAIN t = 1..(Len(s) + 1)
          /\ \A i \in 1..Len(s) : t[i] = s[i] /\ t[i] \in V
          /\ t[Len(s) + 1] = m
      BY <3>4
    <3> HIDE DEF t, V
    <3>6. \A i, j \in DOMAIN t : i < j => t[i].at < t[j].at
      <4> SUFFICES ASSUME NEW i \in DOMAIN t, NEW j \in DOMAIN t, i < j
                   PROVE  t[i].at < t[j].at
        OBVIOUS
      <4>1. i \in 1..Len(s)
        BY <3>4, <3>5
      <4>2. CASE j \in 1..Len(s)
        <5>1. s[i].at < s[j].at
          BY <3>3, <3>4, <4>1, <4>2 DEF Lists
        <5> QED
          BY <5>1, <3>5, <4>1, <4>2
      <4>3. CASE j = Len(s) + 1
        BY <3>1, <3>2, <3>5, <4>1, <4>3
      <4> QED
        BY <3>5, <3>4, <4>2, <4>3
    <3>7. ASSUME NEW l \in U
          PROVE  \E i \in DOMAIN t : t[i] = l
      <4>1. CASE l = m
        BY <3>4, <3>5, <4>1
      <4>2. CASE l # m
        <5>1. PICK i \in DOMAIN s : s[i] = l
          BY <3>3, <4>2 DEF Lists, V
        <5> QED
          BY <5>1, <3>4, <3>5
      <4> QED
        BY <4>1, <4>2
    <3>8. Lists(t, U)
      BY <3>5, <3>6, <3>7 DEF Lists
    <3> QED
      BY <3>8
  <2> QED
    BY <2>1, <2>2
<1> HIDE DEF T
<1>3. Nat \subseteq T
  BY <1>1, <1>2, NatInd
<1>4. PICK n \in Nat : \A l \in S : l.at < n
  BY DEF Spread
<1>5. n \in T
  BY <1>3
<1> QED
  BY <1>4, <1>5 DEF T

\* InOrder() lists the lines it is given.
LEMMA InOrderLists ==
    ASSUME NEW S, Spread(S)
    PROVE  Lists(InOrder(S), S)
<1> DEFINE n == Cardinality(S)
           Rising(s) == \A i, j \in 1..n : i < j => s[i].at < s[j].at
<1>0. \A l \in S : l.at \in Nat
  BY DEF Spread
<1>1. PICK t : Lists(t, S)
  BY CanList
<1>2. t \in Seq(S) /\ Len(t) \in Nat /\ DOMAIN t = 1..Len(t) /\ t \in [1..Len(t) -> S]
  BY <1>1 DEF Lists
<1>3. t \in Bijection(1..Len(t), S)
  <2>1. ASSUME NEW i \in 1..Len(t), NEW j \in 1..Len(t), t[i] = t[j]
        PROVE  i = j
    <3>1. t[i].at \in Nat /\ t[j].at = t[i].at
      BY <1>0, <1>2, <2>1
    <3>2. ~(i < j) /\ ~(j < i)
      BY <1>1, <1>2, <3>1 DEF Lists
    <3> QED
      BY <1>2, <3>2
  <2> QED
    BY <1>1, <1>2, <2>1 DEF Lists, Bijection, Injection, Surjection, IsInjective
<1>4. IsFiniteSet(1..Len(t)) /\ Cardinality(1..Len(t)) = Len(t)
  BY <1>2, FS_Interval
<1>5. IsFiniteSet(S) /\ n = Len(t)
  BY <1>3, <1>4, FS_Bijection DEF ExistsBijection
<1>6. t \in [1..n -> S] /\ Rising(t)
  BY <1>1, <1>2, <1>5 DEF Lists
<1> DEFINE s == InOrder(S)
<1>7. s \in [1..n -> S] /\ Rising(s)
  <2> HIDE DEF n
  <2>1. s = CHOOSE u \in [1..n -> S] : Rising(u)
    BY DEF InOrder, n
  <2> HIDE DEF Rising, s
  <2> QED
    BY <1>6, <2>1
<1> HIDE DEF s, n
<1>8. n \in Nat /\ s \in Seq(S) /\ DOMAIN s = 1..n
  BY <1>2, <1>5, <1>7
<1>9. s \in Injection(1..n, S)
  <2>1. ASSUME NEW i \in 1..n, NEW j \in 1..n, s[i] = s[j]
        PROVE  i = j
    <3>1. s[i].at \in Nat /\ s[j].at = s[i].at
      BY <1>0, <1>7, <2>1
    <3>2. ~(i < j) /\ ~(j < i)
      BY <1>7, <3>1
    <3> QED
      BY <1>8, <3>2
  <2> QED
    BY <1>7, <2>1 DEF Injection, IsInjective
<1>10. s \in Surjection(1..n, S)
  BY <1>4, <1>5, <1>9, FS_Injection DEF n
<1>11. \A l \in S : \E i \in 1..n : s[i] = l
  BY <1>10 DEF Surjection
<1> QED
  BY <1>7, <1>8, <1>11 DEF Lists, s

-----------------------------------------------------------------------------
(* Places in a chain and lines in a file.                                  *)

\* Where the i-th file of a chain begins.
Begin(c, i) == Offsets(c)[i - 1]
Total(c) == Offsets(c)[Len(c)]

\* The i-th file of a chain, and its place in the stream.
LEMMA FileIs ==
    ASSUME NEW c \in Chains, NEW i \in 1..Len(c)
    PROVE  /\ c[i] \in Files /\ Len(c[i]) \in Nat \ {0}
           /\ DOMAIN c[i] = 1..Len(c[i])
           /\ Begin(c, i) \in Nat /\ Total(c) \in Nat /\ Len(c) \in Nat
           /\ Begin(c, i) + Len(c[i]) <= Total(c)
<1>1. Len(c) \in Nat /\ c[i] \in Files
  BY DEF Chains
<1>2. Len(c[i]) \in Nat \ {0} /\ Offsets(c)[i] = Offsets(c)[i - 1] + Len(c[i])
  BY OffsetsStep
<1>3. i - 1 \in 0..Len(c) /\ i \in 0..Len(c) /\ Len(c) \in 0..Len(c)
  BY <1>1
<1>4. Offsets(c)[i - 1] \in Nat /\ Offsets(c)[Len(c)] \in Nat
  BY <1>3, OffsetsStep
<1>5. Offsets(c)[i] <= Offsets(c)[Len(c)]
  BY <1>1, <1>3, OffsetsGrow
<1>6. DOMAIN c[i] = 1..Len(c[i])
  BY <1>1 DEF Files
<1> QED
  BY <1>1, <1>2, <1>4, <1>5, <1>6 DEF Begin, Total

\* A later file begins where an earlier one has ended.
LEMMA LaterBegins ==
    ASSUME NEW c \in Chains, NEW i \in 1..Len(c), NEW k \in 1..Len(c), i < k
    PROVE  Begin(c, i) + Len(c[i]) <= Begin(c, k)
<1>1. Len(c) \in Nat
  BY DEF Chains
<1>2. Offsets(c)[i] = Offsets(c)[i - 1] + Len(c[i])
  BY OffsetsStep
<1>3. i \in 0..Len(c) /\ k - 1 \in 0..Len(c) /\ i <= k - 1
  BY <1>1
<1>4. Offsets(c)[i] <= Offsets(c)[k - 1]
  BY <1>3, OffsetsGrow
<1> QED
  BY <1>2, <1>4 DEF Begin

\* A place in the stream is in one file, at one position.
LEMMA PlaceUnique ==
    ASSUME NEW c \in Chains, NEW i \in 1..Len(c), NEW k \in 1..Len(c),
           NEW a \in Nat, NEW b \in Nat, a < Len(c[i]), b < Len(c[k]),
           Begin(c, i) + a = Begin(c, k) + b
    PROVE  i = k /\ a = b
<1>1. /\ Begin(c, i) \in Nat /\ Len(c[i]) \in Nat
      /\ Begin(c, k) \in Nat /\ Len(c[k]) \in Nat /\ Len(c) \in Nat
  BY FileIs
<1>2. ~(i < k)
  <2> SUFFICES ASSUME i < k PROVE FALSE
    OBVIOUS
  <2>1. Begin(c, i) + Len(c[i]) <= Begin(c, k)
    BY LaterBegins
  <2> QED
    BY <1>1, <2>1
<1>3. ~(k < i)
  <2> SUFFICES ASSUME k < i PROVE FALSE
    OBVIOUS
  <2>1. Begin(c, k) + Len(c[k]) <= Begin(c, i)
    BY LaterBegins
  <2> QED
    BY <1>1, <2>1
<1>4. i = k
  BY <1>1, <1>2, <1>3
<1> QED
  BY <1>1, <1>4

\* A set of numbers has the minimum that Min() takes.
LEMMA MinIs ==
    ASSUME NEW S \in SUBSET Nat, S # {}
    PROVE  Min(S) \in S /\ \A y \in S : Min(S) <= y
<1>1. \E x \in S : \A y \in S : x <= y
  BY LeastNat
<1> QED
  BY <1>1 DEF Min

\* A bounded set of numbers has the maximum that Max() takes.
LEMMA MaxIs ==
    ASSUME NEW S \in SUBSET Nat, S # {}, NEW b \in Nat, \A y \in S : y <= b
    PROVE  Max(S) \in S /\ \A y \in S : y <= Max(S)
<1> DEFINE T == {b - y : y \in S}
<1>1. T \in SUBSET Nat /\ T # {}
  <2>1. \A y \in S : b - y \in Nat
    OBVIOUS
  <2>2. PICK y \in S : TRUE
    OBVIOUS
  <2>3. b - y \in T
    OBVIOUS
  <2>4. \A z \in T : z \in Nat
    BY <2>1
  <2> QED
    BY <2>3, <2>4, Zenon
<1>2. PICK m \in T : \A y \in T : m <= y
  BY <1>1, LeastNat
<1>3. PICK x \in S : m = b - x
  BY <1>2
<1>4. ASSUME NEW y \in S PROVE x >= y
  <2>1. b - x <= b - y
    BY <1>2, <1>3
  <2> QED
    BY <2>1
<1>5. \E z \in S : \A y \in S : z >= y
  BY <1>4
<1>6. Max(S) \in S /\ \A y \in S : Max(S) >= y
  BY <1>5 DEF Max
<1> QED
  BY <1>6

\* The end of the line that begins at a position: its newline, or the end of
\* the file.
LEMMA EndOfLineIs ==
    ASSUME NEW f \in Files, NEW s \in Nat, s < Len(f)
    PROVE  /\ EndOfLine(f, s) \in s + 1 .. Len(f) + 1
           /\ EndOfLine(f, s) # Len(f) + 1 => f[EndOfLine(f, s)] = Newline
           /\ \A x \in s + 1 .. Len(f) : f[x] = Newline => EndOfLine(f, s) <= x
<1> DEFINE S == {e \in s + 1 .. Len(f) : f[e] = Newline} \cup {Len(f) + 1}
<1>1. Len(f) \in Nat
  BY DEF Files
<1>2. S \in SUBSET Nat /\ S # {}
  BY <1>1
<1>3. EndOfLine(f, s) = Min(S)
  BY DEF EndOfLine
<1>4. Min(S) \in S /\ \A y \in S : Min(S) <= y
  BY <1>2, MinIs
<1> QED
  BY <1>1, <1>3, <1>4

\* A record is one byte, once or twice.
LEMMA BodyIs ==
    ASSUME NEW r
    PROVE  /\ Len(Body(r)) \in 1..2
           /\ DOMAIN Body(r) = 1..Len(Body(r))
           /\ \A i \in 1..Len(Body(r)) : Body(r)[i] = r
<1>1. Body(r) = <<r>> \/ Body(r) = <<r, r>>
  BY DEF Body
<1>2. CASE Body(r) = <<r>>
  BY <1>2
<1>3. CASE Body(r) = <<r, r>>
  BY <1>3
<1> QED
  BY <1>1, <1>2, <1>3

\* The bytes of record r from position s of a file, and the same as a line.
BytesAt(f, s, r) ==
    /\ s + Len(Body(r)) <= Len(f)
    /\ \A j \in 1..Len(Body(r)) : f[s + j] = r
LineAt(f, s, r) ==
    /\ BytesAt(f, s, r)
    /\ s + Len(Body(r)) = Len(f) \/ f[s + Len(Body(r)) + 1] = Newline

\* A line that reads as a record is one.
LEMMA TokIsLine ==
    ASSUME NEW f \in Files, NEW s \in Nat, s < Len(f), NEW r \in Nat \ {0},
           SubSeq(f, s + 1, EndOfLine(f, s) - 1) = Body(r)
    PROVE  LineAt(f, s, r)
<1> DEFINE e == EndOfLine(f, s)
           n == Len(Body(r))
           t == SubSeq(f, s + 1, e - 1)
<1>1. /\ Len(f) \in Nat /\ e \in s + 1 .. Len(f) + 1
      /\ e # Len(f) + 1 => f[e] = Newline
  BY EndOfLineIs DEF Files
<1>2. /\ n \in 1..2 /\ \A i \in 1..n : Body(r)[i] = r
  BY BodyIs
<1> HIDE DEF e, n
<1>3. /\ Len(t) = e - 1 - s
      /\ \A j \in 1..(e - 1 - s) : t[j] = f[s + j]
  BY <1>1 DEF Files
<1>4. t = Body(r)
  BY DEF e
<1>5. e - 1 - s = n
  BY <1>3, <1>4 DEF n
<1> HIDE DEF t
<1>6. \A j \in 1..n : f[s + j] = r
  BY <1>2, <1>3, <1>4, <1>5
<1>7. s + n = e - 1 /\ s + n <= Len(f)
  BY <1>1, <1>2, <1>5
<1>8. s + n = Len(f) \/ f[s + n + 1] = Newline
  BY <1>1, <1>2, <1>7
<1> QED
  BY <1>6, <1>7, <1>8 DEF LineAt, BytesAt, n

\* And a record reads as a line with its bytes.
LEMMA LineIsTok ==
    ASSUME NEW f \in Files, NEW s \in Nat, s < Len(f), NEW r \in Nat \ {0},
           LineAt(f, s, r)
    PROVE  SubSeq(f, s + 1, EndOfLine(f, s) - 1) = Body(r)
<1> DEFINE e == EndOfLine(f, s)
           n == Len(Body(r))
           t == SubSeq(f, s + 1, e - 1)
<1>1. /\ Len(f) \in Nat /\ e \in s + 1 .. Len(f) + 1
      /\ e # Len(f) + 1 => f[e] = Newline
      /\ \A x \in s + 1 .. Len(f) : f[x] = Newline => e <= x
  BY EndOfLineIs DEF Files
<1>2. /\ n \in 1..2 /\ DOMAIN Body(r) = 1..n /\ \A i \in 1..n : Body(r)[i] = r
  BY BodyIs
<1>3. /\ s + n <= Len(f) /\ \A j \in 1..n : f[s + j] = r
      /\ s + n = Len(f) \/ f[s + n + 1] = Newline
  BY DEF LineAt, BytesAt
<1> HIDE DEF e, n
<1>4. e = s + n + 1
  <2>1. ~(e <= s + n)
    <3> SUFFICES ASSUME e <= s + n PROVE FALSE
      OBVIOUS
    <3>1. e - s \in 1..n /\ e = s + (e - s)
      BY <1>1, <1>2
    <3>2. f[e] = r
      BY <1>3, <3>1
    <3>3. f[e] = Newline
      BY <1>1, <1>2, <1>3
    <3> QED
      BY <3>2, <3>3 DEF Newline
  <2>2. e <= s + n + 1
    <3>1. CASE s + n = Len(f)
      BY <1>1, <1>2, <3>1
    <3>2. CASE s + n # Len(f)
      <4>1. s + n + 1 \in s + 1 .. Len(f) /\ f[s + n + 1] = Newline
        BY <1>1, <1>2, <1>3, <3>2
      <4> QED
        BY <1>1, <4>1
    <3> QED
      BY <3>1, <3>2
  <2> QED
    BY <1>1, <1>2, <2>1, <2>2
<1>5. /\ t \in Seq(Nat) /\ Len(t) = n /\ DOMAIN t = 1..n
      /\ \A j \in 1..n : t[j] = f[s + j]
  <2>1. s + 1 \in 1..Len(f) + 1 /\ e - 1 \in 0..Len(f) /\ e - 1 = s + n
    BY <1>1, <1>2, <1>3, <1>4
  <2> QED
    BY <1>1, <1>2, <1>3, <2>1 DEF Files
<1> HIDE DEF t
<1>6. Body(r) \in Seq(Nat)
  BY DEF Body
<1>7. Len(t) = Len(Body(r)) /\ \A i \in 1..Len(t) : t[i] = Body(r)[i]
  BY <1>2, <1>3, <1>5 DEF n
<1>8. t = Body(r)
  BY <1>5, <1>6, <1>7, SeqEqual
<1> QED
  BY <1>8 DEF t, e

-----------------------------------------------------------------------------
(* Where the records stand.  p[r] is the place at which record r was       *)
(* written, counted from the beginning of the log, deleted files included; *)
(* g is the number of bytes that were deleted.                             *)

Numbers == Nat \ {0}

\* The w records that were written stand one after the other, before place e.
Placed(p, w, e) ==
    /\ w \in Nat /\ e \in Nat /\ p \in [1..w -> Nat]
    /\ \A r, s \in 1..w : r < s => p[r] < p[s]
    /\ \A r \in 1..w : p[r] < e

\* A byte of a chain is a newline or belongs to the record at its place.
Belongs(b, x, w, p) ==
    b = Newline \/ (b \in 1..w /\ p[b] < x /\ x <= p[b] + Len(Body(b)))
Holds(c, g, w, p) ==
    \A i \in 1..Len(c) : \A j \in 1..Len(c[i]) :
        Belongs(c[i][j], g + Begin(c, i) + j, w, p)

\* A line of the file begins at position s.
LineStart(f, s) == s = 0 \/ f[s] = Newline

\* Record r stands as a whole line at place x.
Stands(c, g, x, r) ==
    \E i \in 1..Len(c) : \E s \in 0..Len(c[i]) - 1 :
        /\ x = g + Begin(c, i) + s
        /\ LineStart(c[i], s) /\ LineAt(c[i], s, r)

\* No record stands across place x.
Aligned(c, g, x) ==
    \A y \in Nat, r \in Numbers :
        Stands(c, g, y, r) => ~(y < x /\ x < y + Len(Body(r)))

\* The bytes of a record are where the record was written.
LEMMA BytesPlace ==
    ASSUME NEW c \in Chains, NEW g \in Nat, NEW w, NEW p, NEW e,
           Placed(p, w, e), Holds(c, g, w, p),
           NEW i \in 1..Len(c), NEW s \in Nat, NEW r \in Numbers,
           BytesAt(c[i], s, r)
    PROVE  r \in 1..w /\ p[r] = g + Begin(c, i) + s
<1> DEFINE n == Len(Body(r))
           f == c[i]
           b == Begin(c, i)
<1>1. Len(f) \in Nat /\ b \in Nat
  BY FileIs
<1>2. n \in 1..2
  BY BodyIs
<1>3. s + n <= Len(f) /\ \A j \in 1..n : f[s + j] = r
  BY DEF BytesAt
<1>4. \A j \in 1..Len(f) : Belongs(f[j], g + b + j, w, p)
  BY DEF Holds
<1> DEFINE z == Len(f)
<1> HIDE DEF f, b, n, z
<1>5. 1 \in 1..n /\ n \in 1..n /\ s + 1 \in 1..z /\ s + n \in 1..z
  <2>1. z \in Nat /\ s + n <= z
    BY <1>1, <1>3 DEF z
  <2> QED
    BY <1>2, <2>1
<1>6. f[s + 1] = r /\ f[s + n] = r
  BY <1>3, <1>5
<1>7. Belongs(r, g + b + (s + 1), w, p) /\ Belongs(r, g + b + (s + n), w, p)
  BY <1>4, <1>5, <1>6 DEF z
<1>8. /\ r \in 1..w /\ p[r] < g + b + (s + 1)
      /\ g + b + (s + n) <= p[r] + n
  BY <1>7 DEF Belongs, Newline, Numbers, n
<1> DEFINE y == p[r]
<1>9. y \in Nat
  BY <1>8 DEF Placed
<1> HIDE DEF y
<1>10. y < g + b + (s + 1) /\ g + b + (s + n) <= y + n
  BY <1>8 DEF y
<1>11. y = g + b + s
  BY <1>1, <1>2, <1>9, <1>10
<1> QED
  BY <1>8, <1>11 DEF b, y

\* A record that stands as a line is where it was written.
LEMMA StandsPlace ==
    ASSUME NEW c \in Chains, NEW g \in Nat, NEW w, NEW p, NEW e,
           Placed(p, w, e), Holds(c, g, w, p),
           NEW x, NEW r \in Numbers, Stands(c, g, x, r)
    PROVE  r \in 1..w /\ p[r] = x /\ x \in Nat
<1>a. PICK i \in 1..Len(c) : \E s \in 0..Len(c[i]) - 1 :
             x = g + Begin(c, i) + s /\ BytesAt(c[i], s, r)
  BY DEF Stands, LineAt
<1>1. PICK s \in 0..Len(c[i]) - 1 : x = g + Begin(c, i) + s /\ BytesAt(c[i], s, r)
  BY <1>a
<1>2. Len(c[i]) \in Nat /\ Begin(c, i) \in Nat
  BY FileIs
<1>3. s \in Nat
  BY <1>2
<1>4. r \in 1..w /\ p[r] = g + Begin(c, i) + s
  BY <1>1, <1>3, BytesPlace
<1> QED
  BY <1>1, <1>2, <1>3, <1>4

\* A record that stands as a line lies within the chain.
LEMMA StandsWithin ==
    ASSUME NEW c \in Chains, NEW g \in Nat, NEW x, NEW r, Stands(c, g, x, r)
    PROVE  x \in Nat /\ g <= x /\ x + Len(Body(r)) <= g + Total(c)
<1>a. PICK i \in 1..Len(c) : \E s \in 0..Len(c[i]) - 1 :
             x = g + Begin(c, i) + s /\ s + Len(Body(r)) <= Len(c[i])
  BY DEF Stands, LineAt, BytesAt
<1>1. PICK s \in 0..Len(c[i]) - 1 : x = g + Begin(c, i) + s /\ s + Len(Body(r)) <= Len(c[i])
  BY <1>a
<1>2. /\ Len(c[i]) \in Nat /\ Begin(c, i) \in Nat /\ Total(c) \in Nat
      /\ Begin(c, i) + Len(c[i]) <= Total(c)
  BY FileIs
<1>3. Len(Body(r)) \in Nat
  BY BodyIs
<1> DEFINE n == Len(Body(r))
           z == Len(c[i])
           b == Begin(c, i)
           t == Total(c)
<1>4. /\ x = g + b + s /\ s + n <= z /\ z \in Nat /\ b \in Nat /\ t \in Nat
      /\ b + z <= t /\ n \in Nat /\ s \in 0..z - 1
  BY <1>1, <1>2, <1>3
<1> HIDE DEF n, z, b, t
<1>5. x \in Nat /\ g <= x /\ x + n <= g + t
  BY <1>4
<1> QED
  BY <1>5 DEF n, t

\* A place within a record that stands as a line is in the file of that line.
LEMMA PlaceWithin ==
    ASSUME NEW c \in Chains, NEW g \in Nat, NEW y \in Nat, NEW r \in Numbers,
           Stands(c, g, y, r),
           NEW i \in 1..Len(c), NEW s \in Nat, s < Len(c[i]),
           y < g + Begin(c, i) + s, g + Begin(c, i) + s < y + Len(Body(r))
    PROVE  s # 0 /\ c[i][s] = r /\ c[i][s + 1] = r
<1> DEFINE n == Len(Body(r))
           x == g + Begin(c, i) + s
<1>a. PICK k \in 1..Len(c) : \E u \in 0..Len(c[k]) - 1 :
             y = g + Begin(c, k) + u /\ BytesAt(c[k], u, r)
  BY DEF Stands, LineAt
<1>1. PICK u \in 0..Len(c[k]) - 1 : y = g + Begin(c, k) + u /\ BytesAt(c[k], u, r)
  BY <1>a
<1>2. /\ Len(c[i]) \in Nat /\ Begin(c, i) \in Nat
      /\ Len(c[k]) \in Nat /\ Begin(c, k) \in Nat
  BY FileIs
<1>3. n \in 1..2
  BY BodyIs
<1>4. u + n <= Len(c[k]) /\ \A j \in 1..n : c[k][u + j] = r
  BY <1>1 DEF BytesAt
<1> DEFINE d == x - y
           b == Begin(c, i)
           a == Begin(c, k)
           z == Len(c[k])
<1>b. /\ b \in Nat /\ a \in Nat /\ z \in Nat /\ u \in 0..z - 1
      /\ x = g + b + s /\ y = g + a + u /\ y < x /\ x < y + n /\ u + n <= z
  BY <1>1, <1>2, <1>4
<1> HIDE DEF n, x, b, a, z
<1>5. d \in Nat /\ 0 < d /\ d < n /\ u \in Nat
  BY <1>b, <1>3
<1>c. b + s = a + (u + d) /\ u + d \in Nat /\ u + d < z
  BY <1>b, <1>3
<1> HIDE DEF d
<1>6. Begin(c, i) + s = Begin(c, k) + (u + d)
  BY <1>c DEF a, b
<1>7. u + d \in Nat /\ u + d < Len(c[k])
  BY <1>c DEF z
<1>8. i = k /\ s = u + d
  BY <1>6, <1>7, PlaceUnique
<1>9. d \in 1..n /\ d + 1 \in 1..n /\ s + 1 = u + (d + 1)
  BY <1>3, <1>5, <1>8
<1> QED
  BY <1>4, <1>5, <1>8, <1>9

\* A record that is read, even from within a line, does not begin within
\* another one.
LEMMA BytesAligned ==
    ASSUME NEW c \in Chains, NEW g \in Nat, NEW w, NEW p, NEW e,
           Placed(p, w, e), Holds(c, g, w, p),
           NEW i \in 1..Len(c), NEW s \in Nat, s < Len(c[i]), NEW r \in Numbers,
           BytesAt(c[i], s, r)
    PROVE  Aligned(c, g, g + Begin(c, i) + s)
<1> DEFINE x == g + Begin(c, i) + s
<1> SUFFICES ASSUME NEW y \in Nat, NEW q \in Numbers, Stands(c, g, y, q),
                    y < x, x < y + Len(Body(q))
             PROVE  FALSE
  BY DEF Aligned
<1>1. c[i][s + 1] = q
  <2>1. y < g + Begin(c, i) + s /\ g + Begin(c, i) + s < y + Len(Body(q))
    OBVIOUS
  <2> QED
    BY <2>1, PlaceWithin
<1>2. 1 \in 1..Len(Body(r))
  <2> DEFINE n == Len(Body(r))
  <2>1. n \in 1..2
    BY BodyIs
  <2> HIDE DEF n
  <2>2. 1 \in 1..n
    BY <2>1
  <2> QED
    BY <2>2 DEF n
<1>3. c[i][s + 1] = r
  BY <1>2 DEF BytesAt
<1>4. p[r] = x
  BY BytesPlace
<1>5. p[q] = y
  BY StandsPlace
<1> QED
  BY <1>1, <1>3, <1>4, <1>5

\* Nor does a line begin within a record.
LEMMA StartAligned ==
    ASSUME NEW c \in Chains, NEW g \in Nat,
           NEW i \in 1..Len(c), NEW s \in Nat, s < Len(c[i]), LineStart(c[i], s)
    PROVE  Aligned(c, g, g + Begin(c, i) + s)
<1> DEFINE x == g + Begin(c, i) + s
<1> SUFFICES ASSUME NEW y \in Nat, NEW q \in Numbers, Stands(c, g, y, q),
                    y < x, x < y + Len(Body(q))
             PROVE  FALSE
  BY DEF Aligned
<1>1. s # 0 /\ c[i][s] = q
  BY PlaceWithin
<1> QED
  BY <1>1 DEF LineStart, Newline, Numbers

\* Nor does the chain end within one.
LEMMA EndAligned ==
    ASSUME NEW c \in Chains, NEW g \in Nat
    PROVE  Aligned(c, g, g + Total(c))
<1> SUFFICES ASSUME NEW y \in Nat, NEW q \in Numbers, Stands(c, g, y, q),
                    g + Total(c) < y + Len(Body(q))
             PROVE  FALSE
  BY DEF Aligned
<1>1. y + Len(Body(q)) <= g + Total(c)
  BY StandsWithin
<1>2. Len(c) \in Nat
  BY DEF Chains
<1>3. Total(c) \in Nat /\ Len(Body(q)) \in Nat
  BY <1>2, OffsetsStep, BodyIs DEF Total
<1> QED
  BY <1>1, <1>3

-----------------------------------------------------------------------------
(* How minilog changes the chain: it appends to the last file, or to a new *)
(* one, and deletes the first.                                             *)

\* Chains that begin alike have the same offsets there.
LEMMA SameOffsets ==
    ASSUME NEW c \in Chains, NEW d \in Chains, NEW n \in Nat,
           n <= Len(c), n <= Len(d), \A i \in 1..n : c[i] = d[i]
    PROVE  \A m \in 0..n : Offsets(c)[m] = Offsets(d)[m]
<1> DEFINE a == Offsets(c)
           b == Offsets(d)
           T == {m \in Nat : m <= n => a[m] = b[m]}
<1>0. Len(c) \in Nat /\ Len(d) \in Nat
  BY DEF Chains
<1>1. a[0] = 0 /\ b[0] = 0
  BY OffsetsStep
<1>2. ASSUME NEW m \in 1..n PROVE a[m] = a[m - 1] + Len(c[m]) /\ b[m] = b[m - 1] + Len(c[m])
  <2>1. m \in 1..Len(c) /\ m \in 1..Len(d) /\ c[m] = d[m]
    BY <1>0
  <2>2. a[m] = a[m - 1] + Len(c[m])
    BY <2>1, OffsetsStep
  <2>3. b[m] = b[m - 1] + Len(d[m])
    BY <2>1, OffsetsStep
  <2> QED
    BY <2>1, <2>2, <2>3
<1> HIDE DEF a, b
<1>3. 0 \in T
  BY <1>1
<1>4. ASSUME NEW m \in Nat, m \in T
      PROVE  m + 1 \in T
  <2> SUFFICES ASSUME m + 1 <= n PROVE a[m + 1] = b[m + 1]
    OBVIOUS
  <2>1. m + 1 \in 1..n /\ (m + 1) - 1 = m
    OBVIOUS
  <2>2. a[m + 1] = a[m] + Len(c[m + 1]) /\ b[m + 1] = b[m] + Len(c[m + 1])
    BY <1>2, <2>1
  <2>3. a[m] = b[m]
    BY <1>4
  <2> QED
    BY <2>2, <2>3
<1> HIDE DEF T
<1>5. Nat \subseteq T
  BY <1>3, <1>4, NatInd
<1> QED
  BY <1>5 DEF T, a, b

\* The bytes that a write of record r appends: of r alone, and newlines behind.
Written(t, r) ==
    /\ t \in Files /\ t # <<>> /\ t[1] = r
    /\ \A j \in 1..Len(t) : t[j] = Newline \/ (t[j] = r /\ j <= Len(Body(r)))

\* The places once another record was written, at place x.
More(p, w, x) == [r \in 1..w + 1 |-> IF r = w + 1 THEN x ELSE p[r]]

\* What a write does: the chain d, longer than c, has the lines of c and
\* others behind.
Grows(c, d, g, w, p) ==
    /\ d \in Chains /\ d # <<>> /\ Total(c) \in Nat /\ Total(d) \in Nat /\ Total(c) < Total(d)
    /\ Holds(d, g, w + 1, More(p, w, g + Total(c)))
    /\ Placed(More(p, w, g + Total(c)), w + 1, g + Total(d))
    /\ \A x \in Nat, r \in Numbers :
          Stands(d, g, x, r) => Stands(c, g, x, r) \/ x >= g + Total(c)

\* One more record has its place behind the others.
LEMMA PlacedMore ==
    ASSUME NEW p, NEW w, NEW x \in Nat, NEW e \in Nat, Placed(p, w, x), x < e
    PROVE  Placed(More(p, w, x), w + 1, e)
<1> DEFINE q == More(p, w, x)
<1>1. /\ w \in Nat /\ p \in [1..w -> Nat]
      /\ \A r, s \in 1..w : r < s => p[r] < p[s]
      /\ \A r \in 1..w : p[r] < x
  BY DEF Placed
<1>2. /\ q \in [1..w + 1 -> Nat] /\ q[w + 1] = x
      /\ \A r \in 1..w : q[r] = p[r] /\ p[r] \in Nat
  BY <1>1 DEF More
<1> HIDE DEF q
<1>3. \A r \in 1..w + 1 : r \in 1..w \/ r = w + 1
  BY <1>1
<1>4. ASSUME NEW r \in 1..w + 1, NEW s \in 1..w + 1, r < s
      PROVE  q[r] < q[s]
  <2>1. r \in 1..w
    BY <1>1, <1>3, <1>4
  <2>2. CASE s \in 1..w
    <3>1. p[r] < p[s]
      BY <1>1, <1>4, <2>1, <2>2
    <3>2. q[r] = p[r] /\ q[s] = p[s]
      BY <1>2, <2>1, <2>2
    <3> QED
      BY <3>1, <3>2
  <2>3. CASE s = w + 1
    BY <1>1, <1>2, <2>1, <2>3
  <2> QED
    BY <1>3, <2>2, <2>3
<1>5. ASSUME NEW r \in 1..w + 1 PROVE q[r] < e
  <2>1. CASE r \in 1..w
    BY <1>1, <1>2, <2>1
  <2>2. CASE r = w + 1
    BY <1>2, <2>2
  <2> QED
    BY <1>3, <2>1, <2>2
<1>6. w + 1 \in Nat
  BY <1>1
<1> QED
  BY <1>2, <1>4, <1>5, <1>6 DEF Placed, q

\* A byte that belonged to a record still does.
LEMMA BelongsMore ==
    ASSUME NEW b, NEW x \in Nat, NEW w \in Nat, NEW p, NEW y, Belongs(b, x, w, p)
    PROVE  Belongs(b, x, w + 1, More(p, w, y))
<1>1. CASE b = Newline
  BY <1>1 DEF Belongs
<1>2. CASE b \in 1..w /\ p[b] < x /\ x <= p[b] + Len(Body(b))
  <2>1. b \in 1..w + 1 /\ b # w + 1
    BY <1>2
  <2>2. More(p, w, y)[b] = p[b]
    BY <2>1 DEF More
  <2> QED
    BY <1>2, <2>1, <2>2 DEF Belongs
<1> QED
  BY <1>1, <1>2 DEF Belongs

\* A byte of what was written belongs to the new record.
LEMMA BelongsNew ==
    ASSUME NEW w \in Nat, NEW p, NEW y \in Nat, NEW t, Written(t, w + 1),
           NEW j \in 1..Len(t)
    PROVE  Belongs(t[j], y + j, w + 1, More(p, w, y))
<1>1. t[j] = Newline \/ (t[j] = w + 1 /\ j <= Len(Body(w + 1)))
  BY DEF Written
<1>2. w + 1 \in 1..w + 1
  OBVIOUS
<1>3. More(p, w, y)[w + 1] = y
  BY <1>2 DEF More
<1>4. Len(Body(w + 1)) \in Nat
  BY BodyIs
<1> DEFINE n == Len(Body(w + 1))
<1>5. ASSUME t[j] = w + 1, j <= n
      PROVE  Belongs(t[j], y + j, w + 1, More(p, w, y))
  <2>1. y < y + j /\ y + j <= y + n
    <3>1. n \in Nat
      BY <1>4
    <3> HIDE DEF n
    <3> QED
      BY <1>5, <3>1
  <2> QED
    BY <1>2, <1>3, <1>5, <2>1 DEF Belongs
<1> QED
  BY <1>1, <1>5 DEF Belongs

\* A write to a new file.
LEMMA GrowsNew ==
    ASSUME NEW c \in Chains, NEW g \in Nat, NEW w, NEW p,
           Placed(p, w, g + Total(c)), Holds(c, g, w, p),
           NEW t, Written(t, w + 1)
    PROVE  Grows(c, Append(c, t), g, w, p)
<1> DEFINE d == Append(c, t)
           n == Len(c)
<1>1. c \in Seq(Files) /\ n \in Nat /\ t \in Files /\ t # <<>>
  BY DEF Chains, Written
<1>2. /\ d \in Seq(Files) /\ Len(d) = n + 1 /\ d[n + 1] = t
      /\ \A i \in 1..n : d[i] = c[i]
  BY <1>1
<1>3. d \in Chains
  <2>1. ASSUME NEW i \in DOMAIN d PROVE d[i] # <<>>
    <3>1. i \in 1..n \/ i = n + 1
      BY <1>1, <1>2
    <3>2. \A k \in 1..n : c[k] # <<>>
      BY <1>1 DEF Chains
    <3> QED
      BY <1>1, <1>2, <3>1, <3>2
  <2> QED
    BY <1>2, <2>1 DEF Chains
<1> HIDE DEF d, n
<1>4. \A m \in 0..n : Offsets(c)[m] = Offsets(d)[m]
  <2>1. n <= Len(c) /\ n <= Len(d) /\ \A i \in 1..n : c[i] = d[i]
    BY <1>1, <1>2 DEF n
  <2> QED
    BY <1>1, <1>3, <2>1, SameOffsets
<1>5. \A i \in 1..n : Begin(d, i) = Begin(c, i)
  BY <1>1, <1>4 DEF Begin
<1>6. Begin(d, n + 1) = Total(c)
  BY <1>1, <1>4 DEF Begin, Total, n
<1>7. /\ Total(c) \in Nat /\ Total(d) = Total(c) + Len(t)
      /\ Len(t) \in Nat \ {0} /\ Total(d) \in Nat
  <2>1. n + 1 \in 1..Len(d) /\ (n + 1) - 1 = n /\ n \in 0..n
    BY <1>1, <1>2
  <2>2. Len(d[n + 1]) \in Nat \ {0} /\ Offsets(d)[n + 1] = Offsets(d)[n] + Len(d[n + 1])
    BY <1>3, <2>1, OffsetsStep
  <2>3. Offsets(c)[n] \in Nat
    BY <2>1, OffsetsStep DEF n
  <2>4. Total(c) = Offsets(c)[n] /\ Total(d) = Offsets(d)[n + 1]
    BY <1>2 DEF Total, n
  <2> QED
    BY <1>2, <1>4, <2>1, <2>2, <2>3, <2>4
<1> DEFINE q == More(p, w, g + Total(c))
           e == Total(c)
<1>8. w \in Nat /\ g + e \in Nat
  BY <1>7 DEF Placed
<1>9. Placed(q, w + 1, g + Total(d))
  <2>1. g + e < g + Total(d) /\ g + Total(d) \in Nat
    BY <1>7
  <2> QED
    BY <1>8, <2>1, PlacedMore
<1>10. ASSUME NEW i \in 1..Len(d), NEW j \in 1..Len(d[i])
       PROVE  Belongs(d[i][j], g + Begin(d, i) + j, w + 1, q)
  <2>1. CASE i \in 1..n
    <3>1. d[i] = c[i] /\ Begin(d, i) = Begin(c, i) /\ Begin(c, i) \in Nat
      BY <1>2, <1>5, <2>1, FileIs DEF n
    <3>2. Belongs(c[i][j], g + Begin(c, i) + j, w, p)
      BY <2>1, <3>1 DEF Holds, n
    <3>3. g + Begin(c, i) + j \in Nat
      BY <3>1
    <3> QED
      BY <1>8, <3>1, <3>2, <3>3, BelongsMore
  <2>2. CASE i = n + 1
    <3>1. d[i] = t /\ Begin(d, i) = e
      BY <1>2, <1>6, <2>2
    <3> QED
      BY <1>8, <3>1, BelongsNew
  <2> QED
    BY <1>1, <1>2, <2>1, <2>2
<1>11. ASSUME NEW x \in Nat, NEW r \in Numbers, Stands(d, g, x, r)
       PROVE  Stands(c, g, x, r) \/ x >= g + Total(c)
  <2>1. PICK i \in 1..Len(d) : \E s \in 0..Len(d[i]) - 1 :
               x = g + Begin(d, i) + s /\ LineStart(d[i], s) /\ LineAt(d[i], s, r)
    BY <1>11 DEF Stands
  <2>2. PICK s \in 0..Len(d[i]) - 1 :
               x = g + Begin(d, i) + s /\ LineStart(d[i], s) /\ LineAt(d[i], s, r)
    BY <2>1
  <2>3. CASE i \in 1..n
    <3>1. d[i] = c[i] /\ Begin(d, i) = Begin(c, i)
      BY <1>2, <1>5, <2>3
    <3>2. Stands(c, g, x, r)
      BY <2>2, <2>3, <3>1 DEF Stands, n
    <3> QED
      BY <3>2
  <2>4. CASE i = n + 1
    <3>1. x = g + e + s /\ e \in Nat /\ s \in Nat
      BY <1>2, <1>6, <1>7, <2>2, <2>4
    <3> HIDE DEF e
    <3>2. x >= g + e
      BY <3>1
    <3> QED
      BY <3>2 DEF e
  <2> QED
    BY <1>1, <1>2, <2>3, <2>4
<1>12. Holds(d, g, w + 1, q)
  BY <1>10 DEF Holds
<1>13. Total(c) < Total(d) /\ d # <<>>
  BY <1>1, <1>2, <1>7
<1> QED
  BY <1>3, <1>7, <1>9, <1>11, <1>12, <1>13 DEF Grows, d

\* A line of a file that goes on is a line of the file, unless it begins behind:
\* what is appended to an unfinished line is no part of a record before.
LEMMA LineOfLonger ==
    ASSUME NEW a \in Files, NEW t, NEW w \in Nat, Written(t, w + 1),
           \A j \in 1..Len(a) : a[j] # w + 1,
           NEW s \in Nat, s < Len(a), NEW r \in Numbers, LineAt(a \o t, s, r)
    PROVE  LineAt(a, s, r)
<1> DEFINE f == a \o t
           n == Len(Body(r))
           z == Len(a)
<1>1. z \in Nat /\ t \in Files /\ Len(t) \in Nat \ {0} /\ t[1] = w + 1
  BY DEF Written, Files
<1>2. /\ \A j \in 1..z : f[j] = a[j]
      /\ f[z + 1] = t[1]
  BY <1>1 DEF Files
<1>3. n \in 1..2
  BY BodyIs
<1>4. /\ \A j \in 1..n : f[s + j] = r
      /\ s + n = Len(f) \/ f[s + n + 1] = Newline
      /\ s + n <= Len(f)
  BY DEF LineAt, BytesAt
<1>5. s < z /\ Len(f) = z + Len(t)
  BY <1>1 DEF Files
<1>a. \A j \in 1..z : a[j] # w + 1
  OBVIOUS
<1> HIDE DEF f, n, z
<1>6. s + n <= z
  <2> SUFFICES ASSUME s + n > z PROVE FALSE
    BY <1>1, <1>3
  <2>1. z + 1 - s \in 1..n /\ s + (z + 1 - s) = z + 1
    BY <1>1, <1>3, <1>5
  <2>2. f[z + 1] = r
    BY <1>4, <2>1
  <2>3. 1 \in 1..n /\ s + 1 \in 1..z
    BY <1>1, <1>3, <1>5
  <2>4. a[s + 1] = r
    BY <1>2, <1>4, <2>3
  <2> QED
    BY <1>1, <1>2, <1>a, <2>2, <2>3, <2>4
<1>7. \A j \in 1..n : a[s + j] = r
  <2> SUFFICES ASSUME NEW j \in 1..n PROVE a[s + j] = r
    OBVIOUS
  <2>1. s + j \in 1..z
    BY <1>1, <1>3, <1>6
  <2> QED
    BY <1>2, <1>4, <2>1
<1>8. s + n = z \/ a[s + n + 1] = Newline
  <2> SUFFICES ASSUME s + n # z PROVE a[s + n + 1] = Newline
    OBVIOUS
  <2>1. s + n + 1 \in 1..z
    BY <1>1, <1>3, <1>6
  <2>2. f[s + n + 1] = Newline
    BY <1>1, <1>3, <1>4, <1>5, <1>6
  <2> QED
    BY <1>2, <2>1, <2>2
<1> QED
  BY <1>6, <1>7, <1>8 DEF LineAt, BytesAt, n, z

\* A write to the last file.
LEMMA GrowsLast ==
    ASSUME NEW b \in Chains, NEW a \in Files, a # <<>>, NEW g \in Nat, NEW w, NEW p,
           Placed(p, w, g + Total(Append(b, a))), Holds(Append(b, a), g, w, p),
           NEW t, Written(t, w + 1)
    PROVE  Grows(Append(b, a), Append(b, a \o t), g, w, p)
<1> DEFINE c == Append(b, a)
           f == a \o t
           d == Append(b, f)
           n == Len(b)
<1>1. b \in Seq(Files) /\ n \in Nat /\ t \in Files /\ t # <<>>
  BY DEF Chains, Written
<1>a. f \in Files /\ f # <<>> /\ Len(f) = Len(a) + Len(t) /\ Len(a) \in Nat /\ Len(t) \in Nat \ {0}
  BY <1>1 DEF Files
<1>b. /\ \A j \in 1..Len(a) : f[j] = a[j]
      /\ \A j \in 1..Len(t) : f[Len(a) + j] = t[j]
  BY <1>1 DEF Files
<1> HIDE DEF f
<1>2. /\ d \in Seq(Files) /\ Len(d) = n + 1 /\ d[n + 1] = f
      /\ c \in Seq(Files) /\ Len(c) = n + 1 /\ c[n + 1] = a
      /\ \A i \in 1..n : d[i] = c[i] /\ c[i] = b[i]
  BY <1>1, <1>a
<1>3. d \in Chains /\ c \in Chains
  <2>1. \A k \in 1..n : b[k] # <<>>
    BY <1>1 DEF Chains
  <2>2. ASSUME NEW i \in 1..n + 1 PROVE d[i] # <<>> /\ c[i] # <<>>
    <3>1. i \in 1..n \/ i = n + 1
      BY <1>1
    <3> QED
      BY <1>a, <1>2, <2>1, <3>1
  <2> HIDE DEF d, c, n
  <2>3. DOMAIN d = 1..n + 1 /\ DOMAIN c = 1..n + 1
    BY <1>1, <1>2
  <2> QED
    BY <1>2, <2>2, <2>3 DEF Chains
<1>c. Placed(p, w, g + Total(c)) /\ Holds(c, g, w, p)
  OBVIOUS
<1> HIDE DEF d, c, n
<1>4. \A m \in 0..n : Offsets(c)[m] = Offsets(d)[m]
  <2>1. n <= Len(c) /\ n <= Len(d) /\ \A i \in 1..n : c[i] = d[i]
    BY <1>1, <1>2
  <2> QED
    BY <1>1, <1>3, <2>1, SameOffsets
<1>5. \A i \in 1..n + 1 : Begin(d, i) = Begin(c, i)
  <2> SUFFICES ASSUME NEW i \in 1..n + 1 PROVE Begin(d, i) = Begin(c, i)
    OBVIOUS
  <2>1. i - 1 \in 0..n
    BY <1>1
  <2> QED
    BY <1>4, <2>1 DEF Begin
<1> DEFINE y == Begin(c, n + 1)
           e == Total(c)
<1>7. /\ y \in Nat /\ e = y + Len(a) /\ Total(d) = e + Len(t)
      /\ e \in Nat /\ Total(d) \in Nat
  <2>1. n + 1 \in 1..Len(d) /\ n + 1 \in 1..Len(c) /\ (n + 1) - 1 = n
    BY <1>1, <1>2
  <2>2. Offsets(d)[n + 1] = Offsets(d)[n] + Len(d[n + 1])
    BY <1>3, <2>1, OffsetsStep
  <2>3. Offsets(c)[n + 1] = Offsets(c)[n] + Len(c[n + 1])
    BY <1>3, <2>1, OffsetsStep
  <2>4. /\ e = Offsets(c)[n + 1] /\ Total(d) = Offsets(d)[n + 1]
        /\ y = Offsets(c)[n] /\ Offsets(d)[n] = Offsets(c)[n]
    BY <1>1, <1>2, <1>4, <2>1 DEF Total, Begin
  <2>5. y \in Nat
    BY <1>3, <2>1, FileIs
  <2>6. e = y + Len(a) /\ Total(d) = y + (Len(a) + Len(t))
    BY <1>a, <1>2, <2>2, <2>3, <2>4
  <2> QED
    BY <1>a, <2>5, <2>6
<1> DEFINE q == More(p, w, g + e)
<1>8. w \in Nat /\ g + e \in Nat
  BY <1>7, <1>c DEF Placed
<1>9. Placed(q, w + 1, g + Total(d))
  <2>1. g + e < g + Total(d) /\ g + Total(d) \in Nat
    BY <1>7, <1>a
  <2> QED
    BY <1>8, <1>c, <2>1, PlacedMore
<1>10. ASSUME NEW i \in 1..Len(d), NEW j \in 1..Len(d[i])
       PROVE  Belongs(d[i][j], g + Begin(d, i) + j, w + 1, q)
  <2>0. i \in 1..n + 1 /\ i \in 1..Len(c) /\ Begin(d, i) = Begin(c, i) /\ Begin(c, i) \in Nat
    BY <1>2, <1>3, <1>5, FileIs
  <2>1. ASSUME j \in 1..Len(c[i]), d[i][j] = c[i][j]
        PROVE  Belongs(d[i][j], g + Begin(d, i) + j, w + 1, q)
    <3>2. Belongs(c[i][j], g + Begin(c, i) + j, w, p)
      BY <1>c, <2>0, <2>1 DEF Holds
    <3>3. g + Begin(c, i) + j \in Nat
      BY <2>0
    <3> QED
      BY <1>8, <2>0, <2>1, <3>2, <3>3, BelongsMore
  <2>2. CASE i \in 1..n
    BY <1>2, <2>1, <2>2
  <2>3. CASE i = n + 1 /\ j <= Len(a)
    BY <1>a, <1>b, <1>2, <2>1, <2>3
  <2>4. CASE i = n + 1 /\ j > Len(a)
    <3> DEFINE k == j - Len(a)
               z == Len(a)
               v == Len(t)
    <3>1. z \in Nat /\ v \in Nat /\ j \in 1..(z + v) /\ j > z
      BY <1>a, <1>2, <2>4
    <3>2. e = y + z
      BY <1>7
    <3> HIDE DEF z, v, y, e
    <3>3. k \in 1..v /\ z + k = j
      BY <3>1 DEF k, z
    <3>4. g + y + j = (g + e) + k
      BY <1>7, <3>1, <3>2 DEF k, z, y, e
    <3> HIDE DEF k
    <3>5. d[i][j] = t[k]
      BY <1>b, <1>2, <2>4, <3>3 DEF z, v
    <3>6. Belongs(t[k], (g + e) + k, w + 1, q)
      BY <1>8, <3>3, BelongsNew DEF v
    <3>7. Begin(d, i) = y
      BY <2>0, <2>4 DEF y
    <3> QED
      BY <3>4, <3>5, <3>6, <3>7
  <2> QED
    BY <1>1, <1>2, <1>a, <2>2, <2>3, <2>4
<1>11. ASSUME NEW x \in Nat, NEW r \in Numbers, Stands(d, g, x, r)
       PROVE  Stands(c, g, x, r) \/ x >= g + e
  <2>1. PICK i \in 1..Len(d) : \E s \in 0..Len(d[i]) - 1 :
               x = g + Begin(d, i) + s /\ LineStart(d[i], s) /\ LineAt(d[i], s, r)
    BY <1>11 DEF Stands
  <2>2. PICK s \in 0..Len(d[i]) - 1 :
               x = g + Begin(d, i) + s /\ LineStart(d[i], s) /\ LineAt(d[i], s, r)
    BY <2>1
  <2>0. i \in 1..n + 1 /\ i \in 1..Len(c) /\ Begin(d, i) = Begin(c, i)
    BY <1>2, <1>5
  <2>3. CASE i \in 1..n
    <3>1. d[i] = c[i]
      BY <1>2, <2>3
    <3>2. Stands(c, g, x, r)
      BY <2>0, <2>2, <2>3, <3>1 DEF Stands
    <3> QED
      BY <3>2
  <2>4. CASE i = n + 1 /\ s < Len(a)
    <3>1. s \in Nat /\ c[i] = a /\ d[i] = f
      BY <1>a, <1>2, <2>4
    <3>2. \A j \in 1..Len(a) : a[j] # w + 1
      <4> SUFFICES ASSUME NEW j \in 1..Len(a) PROVE a[j] # w + 1
        OBVIOUS
      <4>1. Belongs(a[j], g + Begin(c, i) + j, w, p)
        BY <1>c, <2>0, <3>1 DEF Holds
      <4> QED
        BY <1>8, <4>1 DEF Belongs, Newline
    <3>3. LineAt(a, s, r)
      BY <1>8, <2>2, <2>4, <3>1, <3>2, LineOfLonger DEF f
    <3>4. LineStart(a, s)
      <4>1. CASE s = 0
        BY <4>1 DEF LineStart
      <4>2. CASE s # 0
        <5>1. s \in 1..Len(a)
          BY <1>a, <2>4, <3>1, <4>2
        <5>2. f[s] = a[s] /\ f[s] = Newline
          BY <1>b, <2>2, <3>1, <4>2, <5>1 DEF LineStart
        <5> QED
          BY <5>2 DEF LineStart
      <4> QED
        BY <4>1, <4>2
    <3>5. s \in 0..Len(c[i]) - 1
      BY <1>a, <2>4, <3>1
    <3>6. Stands(c, g, x, r)
      BY <2>0, <2>2, <3>1, <3>3, <3>4, <3>5 DEF Stands
    <3> QED
      BY <3>6
  <2>5. CASE i = n + 1 /\ ~(s < Len(a))
    <3> DEFINE z == Len(a)
    <3>1. x = g + y + s /\ e = y + z /\ z \in Nat /\ s \in Nat /\ ~(s < z) /\ y \in Nat
      BY <1>a, <1>2, <1>7, <2>0, <2>2, <2>5
    <3> HIDE DEF z, y, e
    <3>2. x >= g + e
      BY <3>1
    <3> QED
      BY <3>2
  <2> QED
    BY <1>1, <1>2, <2>3, <2>4, <2>5
<1>12. Holds(d, g, w + 1, q)
  BY <1>10 DEF Holds
<1>13. e < Total(d) /\ d # <<>>
  BY <1>1, <1>2, <1>7, <1>a
<1> QED
  BY <1>3, <1>7, <1>9, <1>11, <1>12, <1>13 DEF Grows, d, c, f

-----------------------------------------------------------------------------
(* The oldest file is deleted.                                             *)

\* The files that are left begin where they did, if what is gone is counted.
LEMMA DeletedOffsets ==
    ASSUME NEW c \in Chains, c # <<>>
    PROVE  /\ Tail(c) \in Chains /\ Len(Tail(c)) = Len(c) - 1 /\ Len(c) \in Nat \ {0}
           /\ \A i \in 1..Len(Tail(c)) : Tail(c)[i] = c[i + 1]
           /\ \A m \in 0..Len(Tail(c)) :
                Offsets(c)[m + 1] = Len(c[1]) + Offsets(Tail(c))[m]
<1> DEFINE d == Tail(c)
           f == Offsets(c)
           g == Offsets(d)
           n == Len(d)
<1>1. /\ d \in Seq(Files) /\ Len(d) = Len(c) - 1 /\ Len(c) \in Nat \ {0}
      /\ \A i \in 1..Len(d) : d[i] = c[i + 1]
  BY DEF Chains
<1>2. \A i \in 1..Len(d) : d[i] # <<>>
  <2>1. DOMAIN c = 1..Len(c) /\ \A i \in 1..Len(c) : c[i] # <<>>
    BY DEF Chains
  <2>2. \A i \in 1..Len(d) : i + 1 \in 1..Len(c)
    BY <1>1
  <2> HIDE DEF d
  <2> QED BY <2>1, <2>2, <1>1
<1>3. d \in Chains
  <2>1. DOMAIN d = 1..Len(d)
    BY <1>1
  <2> HIDE DEF d
  <2> QED BY <2>1, <1>1, <1>2 DEF Chains
<1>4. /\ f[0] = 0 /\ f[1] = f[0] + Len(c[1]) /\ Len(c[1]) \in Nat
      /\ \A k \in 1..n : f[k + 1] = f[k] + Len(d[k])
  <2>1. \A k \in 1..Len(c) : Len(c[k]) \in Nat \ {0} /\ f[k] = f[k - 1] + Len(c[k])
    BY OffsetsStep
  <2>2. \A k \in 1..n : k + 1 \in 1..Len(c) /\ (k + 1) - 1 = k
    BY <1>1
  <2>3. \A k \in 1..n : f[k + 1] = f[k] + Len(d[k])
    BY <2>1, <2>2, <1>1
  <2>4. 1 \in 1..Len(c) /\ f[0] = 0
    BY <1>1, OffsetsStep
  <2> QED BY <2>1, <2>3, <2>4
<1>5. /\ g[0] = 0 /\ \A k \in 0..n : g[k] \in Nat
      /\ \A k \in 1..n : Len(d[k]) \in Nat /\ g[k] = g[k - 1] + Len(d[k])
  BY <1>3, OffsetsStep
<1> DEFINE T == {m \in Nat : m <= n => f[m + 1] = Len(c[1]) + g[m]}
<1>6. 0 \in T
  BY <1>4, <1>5
<1>7. \A m \in Nat : m \in T => m + 1 \in T
  <2> SUFFICES ASSUME NEW m \in T, m + 1 <= n
               PROVE  f[(m + 1) + 1] = Len(c[1]) + g[m + 1]
    OBVIOUS
  <2>1. m \in Nat /\ m \in 0..n /\ m + 1 \in 1..n /\ (m + 1) - 1 = m
    BY <1>1
  <2>2. f[(m + 1) + 1] = f[m + 1] + Len(d[m + 1])
    BY <2>1, <1>4
  <2>3. g[m + 1] = g[m] + Len(d[m + 1]) /\ Len(d[m + 1]) \in Nat /\ g[m] \in Nat
    BY <2>1, <1>5
  <2>4. f[m + 1] = Len(c[1]) + g[m]
    BY <2>1
  <2> HIDE DEF T, f, g, d, n
  <2> QED BY <2>2, <2>3, <2>4, <1>4
<1> HIDE DEF T
<1>8. Nat \subseteq T
  BY <1>6, <1>7, NatInd
<1>9. \A m \in 0..n : f[m + 1] = Len(c[1]) + g[m]
  BY <1>8, <1>1 DEF T
<1> QED BY <1>1, <1>3, <1>9

\* What a deletion does: the chain d has a part of the lines of c, in their place.
Loses(c, d, g, h, w, p) ==
    /\ d \in Chains /\ h \in Nat /\ g <= h
    /\ h + Total(d) = g + Total(c)
    /\ Holds(d, h, w, p)
    /\ \A x \in Nat, r \in Numbers : Stands(d, h, x, r) => Stands(c, g, x, r)

LEMMA LosesFirst ==
    ASSUME NEW c \in Chains, c # <<>>, NEW g \in Nat, NEW w, NEW p, Holds(c, g, w, p)
    PROVE  Loses(c, Tail(c), g, g + Len(c[1]), w, p)
<1> DEFINE d == Tail(c)
           z == Len(c[1])
           h == g + z
<1>1. /\ d \in Chains /\ Len(d) = Len(c) - 1 /\ Len(c) \in Nat \ {0}
      /\ \A i \in 1..Len(d) : d[i] = c[i + 1]
      /\ \A m \in 0..Len(d) : Offsets(c)[m + 1] = z + Offsets(d)[m]
  BY DeletedOffsets
<1>2. z \in Nat /\ h \in Nat
  BY <1>1, FileIs
<1>3. ASSUME NEW i \in 1..Len(d)
      PROVE  /\ i + 1 \in 1..Len(c) /\ d[i] = c[i + 1]
             /\ Begin(d, i) \in Nat /\ Begin(c, i + 1) \in Nat
             /\ h + Begin(d, i) = g + Begin(c, i + 1)
  <2>1. i + 1 \in 1..Len(c) /\ d[i] = c[i + 1] /\ i - 1 \in 0..Len(d) /\ (i + 1) - 1 = (i - 1) + 1
    BY <1>1
  <2>2. Offsets(c)[(i - 1) + 1] = z + Offsets(d)[i - 1]
    BY <2>1, <1>1
  <2>3. Begin(c, i + 1) = z + Begin(d, i)
    BY <2>1, <2>2 DEF Begin
  <2>4. Begin(d, i) \in Nat /\ Begin(c, i + 1) \in Nat
    BY <2>1, <1>1, FileIs
  <2> QED BY <2>1, <2>3, <2>4, <1>2
<1>4. h + Total(d) = g + Total(c)
  <2>1. Len(d) \in 0..Len(d) /\ Len(d) + 1 = Len(c)
    BY <1>1
  <2>2. Offsets(c)[Len(d) + 1] = z + Offsets(d)[Len(d)] /\ Offsets(d)[Len(d)] \in Nat
    BY <2>1, <1>1, OffsetsStep
  <2>3. Total(c) = z + Total(d) /\ Total(d) \in Nat
    BY <2>1, <2>2 DEF Total
  <2> QED BY <2>3, <1>2
<1>5. Holds(d, h, w, p)
  <2> SUFFICES ASSUME NEW i \in 1..Len(d), NEW j \in 1..Len(d[i])
               PROVE  Belongs(d[i][j], h + Begin(d, i) + j, w, p)
    BY DEF Holds
  <2>1. Belongs(c[i + 1][j], g + Begin(c, i + 1) + j, w, p)
    BY <1>3 DEF Holds
  <2> QED BY <2>1, <1>3
<1>6. ASSUME NEW x \in Nat, NEW r \in Numbers, Stands(d, h, x, r)
      PROVE  Stands(c, g, x, r)
  <2>1. PICK i \in 1..Len(d) : \E s \in 0..Len(d[i]) - 1 :
               /\ x = h + Begin(d, i) + s
               /\ LineStart(d[i], s) /\ LineAt(d[i], s, r)
    BY <1>6 DEF Stands
  <2>2. PICK s \in 0..Len(d[i]) - 1 :
               /\ x = h + Begin(d, i) + s
               /\ LineStart(d[i], s) /\ LineAt(d[i], s, r)
    BY <2>1
  <2>3. /\ i + 1 \in 1..Len(c) /\ s \in 0..Len(c[i + 1]) - 1
        /\ x = g + Begin(c, i + 1) + s
        /\ LineStart(c[i + 1], s) /\ LineAt(c[i + 1], s, r)
    BY <1>3, <2>2
  <2> QED BY <2>3 DEF Stands
<1>7. g <= h
  BY <1>2
<1> QED BY <1>1, <1>2, <1>4, <1>5, <1>6, <1>7 DEF Loses

-----------------------------------------------------------------------------
(* The files of the model, and what the table and the answers say of them. *)

\* The place of the end of the log, counted from the first byte ever written.
End == gone + TailOffset

\* The lines that are whole records, by their places.
Marks == {m \in [at : Nat, rec : Numbers] : Stands(Chain, gone, m.at, m.rec)}

\* The records are on the disk at the places p, as far as they are there.
DiskOK(p) ==
    /\ rotated \in Chains /\ active \in Files
    /\ gone \in Nat /\ written \in Nat
    /\ Placed(p, written, End)
    /\ Holds(Chain, gone, written, p)

\* All that matters of the disk: the marks, the end, the bytes that are gone, the
\* number of records and their places.
View(p) == [marks |-> Marks, end |-> End, gone |-> gone, written |-> written,
            places |-> p]

\* What every view has.
Sound(D) ==
    /\ D.end \in Nat /\ D.gone \in Nat /\ D.written \in Nat /\ D.gone <= D.end
    /\ D.places \in [1..D.written -> Nat]
    /\ \A r, s \in 1..D.written : r < s => D.places[r] < D.places[s]
    /\ \A r \in 1..D.written : D.places[r] < D.end
    /\ D.marks \subseteq [at : Nat, rec : Numbers]
    /\ \A m \in D.marks : /\ m.rec \in 1..D.written /\ D.places[m.rec] = m.at
                          /\ m.at + Len(Body(m.rec)) <= D.end

\* The disk of view E is that of view D some steps later.
Later(D, E) ==
    /\ D.end <= E.end /\ D.gone <= E.gone /\ D.written <= E.written
    /\ \A r \in 1..D.written : E.places[r] = D.places[r]
    /\ \A m \in E.marks : m \in D.marks \/ m.at >= D.end

LEMMA ChainIs ==
    ASSUME rotated \in Chains, active \in Files
    PROVE  /\ Chain \in Chains /\ TailOffset = Total(Chain) /\ TailOffset \in Nat
           /\ \A i : StartOf(i) = Begin(Chain, i)
           /\ TailOffset # 0 => Chain # <<>>
<1>1. Chain \in Chains
  <2>1. CASE active = <<>>
    BY <2>1 DEF Chain
  <2>2. CASE active # <<>>
    <3>1. Append(rotated, active) \in Seq(Files)
      BY DEF Chains
    <3>2. ASSUME NEW i \in DOMAIN Append(rotated, active)
          PROVE  Append(rotated, active)[i] # <<>>
      BY <2>2 DEF Chains
    <3>3. Append(rotated, active) \in Chains
      BY <3>1, <3>2 DEF Chains
    <3> QED BY <3>3, <2>2 DEF Chain
  <2> QED BY <2>1, <2>2
<1>2. TailOffset = Total(Chain)
  BY DEF TailOffset, Total
<1>3. Len(Chain) \in Nat /\ Len(<<>>) = 0
  BY <1>1 DEF Chains
<1>4. Total(Chain) \in Nat /\ (Len(Chain) = 0 => Total(Chain) = 0)
  BY <1>1, <1>3, OffsetsStep DEF Total
<1> QED BY <1>1, <1>2, <1>3, <1>4 DEF StartOf, Begin

LEMMA ViewSound ==
    ASSUME NEW p, DiskOK(p)
    PROVE  Sound(View(p)) /\ End \in Nat /\ End = gone + Total(Chain)
<1>1. /\ Chain \in Chains /\ gone \in Nat /\ End = gone + Total(Chain) /\ Total(Chain) \in Nat
      /\ Placed(p, written, End) /\ Holds(Chain, gone, written, p) /\ written \in Nat
  BY ChainIs DEF DiskOK, End
<1>2. End \in Nat /\ gone <= End
  BY <1>1
<1>3. ASSUME NEW m \in Marks
      PROVE  /\ m.rec \in 1..written /\ p[m.rec] = m.at
             /\ m.at + Len(Body(m.rec)) <= End
  <2>1. m.at \in Nat /\ m.rec \in Numbers /\ Stands(Chain, gone, m.at, m.rec)
    BY DEF Marks
  <2>2. m.rec \in 1..written /\ p[m.rec] = m.at
    BY <1>1, <2>1, StandsPlace
  <2>3. m.at + Len(Body(m.rec)) <= gone + Total(Chain)
    BY <1>1, <2>1, StandsWithin
  <2> QED BY <1>1, <2>2, <2>3
<1>4. Marks \subseteq [at : Nat, rec : Numbers]
  BY DEF Marks
<1>5. /\ View(p).marks = Marks /\ View(p).end = End /\ View(p).gone = gone
      /\ View(p).written = written /\ View(p).places = p
  BY DEF View
<1> QED BY <1>1, <1>2, <1>3, <1>4, <1>5 DEF Sound, Placed

LEMMA ViewIs ==
    ASSUME NEW p
    PROVE  /\ View(p).marks = Marks /\ View(p).end = End /\ View(p).gone = gone
           /\ View(p).written = written /\ View(p).places = p
  BY DEF View

\* A write appends the bytes t.
LEMMA AppendStep ==
    ASSUME NEW p, DiskOK(p), NEW t, Written(t, written + 1),
           active' = active \o t, written' = written + 1, UNCHANGED <<rotated, gone>>
    PROVE  \E q : DiskOK(q)' /\ Later(View(p), View(q)')
<1> DEFINE q == More(p, written, gone + Total(Chain))
           c == Chain
<1>1. /\ c \in Chains /\ TailOffset = Total(c) /\ Total(c) \in Nat /\ gone \in Nat /\ End = gone + Total(c)
      /\ rotated \in Chains /\ active \in Files /\ written \in Nat
      /\ Placed(p, written, gone + Total(c)) /\ Holds(c, gone, written, p)
  BY ChainIs DEF DiskOK, End
<1>2. t \in Files /\ t # <<>>
  BY DEF Written
<1>3. active' \in Files /\ active' # <<>>
  <2>1. active \o t \in Seq(Nat) /\ Len(active \o t) = Len(active) + Len(t)
    BY <1>1, <1>2 DEF Files
  <2>2. Len(t) \in Nat /\ Len(active) \in Nat /\ Len(t) # 0
    BY <1>1, <1>2 DEF Files
  <2>3. Len(active \o t) # 0 /\ Len(<<>>) = 0
    BY <2>1, <2>2
  <2> QED BY <2>1, <2>3 DEF Files
<1>4. Chain' = Append(rotated, active \o t)
  BY <1>3 DEF Chain
<1>5. Grows(c, Chain', gone, written, p)
  <2>1. CASE active = <<>>
    <3>1. active \o t = t /\ c = rotated
      BY <2>1, <1>2 DEF Files, Chain
    <3>2. Grows(c, Append(c, t), gone, written, p)
      BY <1>1, GrowsNew
    <3> QED BY <1>4, <3>1, <3>2
  <2>2. CASE active # <<>>
    <3>1. c = Append(rotated, active)
      BY <2>2 DEF Chain
    <3>2. Grows(Append(rotated, active), Append(rotated, active \o t), gone, written, p)
      BY <1>1, <2>2, <3>1, GrowsLast
    <3> QED BY <1>4, <3>1, <3>2
  <2> QED BY <2>1, <2>2
<1>6. /\ Chain' \in Chains /\ Total(Chain') \in Nat /\ Total(c) < Total(Chain')
      /\ Holds(Chain', gone, written + 1, q) /\ Placed(q, written + 1, gone + Total(Chain'))
      /\ \A x \in Nat, r \in Numbers :
           Stands(Chain', gone, x, r) => Stands(c, gone, x, r) \/ x >= gone + Total(c)
  BY <1>5 DEF Grows
<1>7. End' = gone + Total(Chain')
  BY <1>1 DEF End, TailOffset, Total
<1>8. \A r \in 1..written : q[r] = p[r]
  BY <1>1 DEF More
<1>9. \A m \in Marks' : m \in Marks \/ m.at >= End
  BY <1>1, <1>6 DEF Marks
<1> HIDE DEF q, c
<1>10. PICK z : z = q
  OBVIOUS
<1>11. DiskOK(z)'
  BY <1>1, <1>3, <1>6, <1>7, <1>10 DEF DiskOK
<1>12. End <= End' /\ gone <= gone' /\ written <= written'
  BY <1>1, <1>6, <1>7
<1>13. Later(View(p), View(z)')
  <2>1. /\ View(z)'.marks = Marks' /\ View(z)'.end = End' /\ View(z)'.gone = gone'
        /\ View(z)'.written = written' /\ View(z)'.places = z
    BY DEF View
  <2> QED BY <2>1, <1>8, <1>9, <1>10, <1>12, ViewIs DEF Later
<1> QED BY <1>11, <1>13

\* What Write and WriteCut append.
LEMMA WrittenBytes ==
    ASSUME NEW r \in Numbers
    PROVE  /\ Written(Body(r) \o <<Newline>>, r)
           /\ Len(Body(r)) > 1 => Written(Tail(Body(r)), r)
<1> DEFINE b == Body(r)
           n == Len(b)
           t == b \o <<Newline>>
<1>1. n \in 1..2 /\ \A i \in 1..n : b[i] = r
  BY BodyIs
<1>2. b \in Seq(Nat)
  BY DEF Body, Numbers
<1>3. <<Newline>> \in Seq(Nat) /\ Len(<<Newline>>) = 1 /\ <<Newline>>[1] = Newline
  BY DEF Newline
<1> HIDE DEF b
<1>4. t \in Seq(Nat) /\ Len(t) = n + 1
  BY <1>2, <1>3
<1>5. \A i \in 1..n : t[i] = r
  BY <1>1, <1>2, <1>3
<1>6. t[n + 1] = Newline
  BY <1>1, <1>2, <1>3
<1>7. Written(t, r)
  <2> HIDE DEF t
  <2>1. t # <<>> /\ t[1] = r
    <3>1. Len(t) # 0 /\ 1 \in 1..n /\ Len(<<>>) = 0
      BY <1>1, <1>4
    <3> QED BY <3>1, <1>5
  <2>2. \A j \in 1..Len(t) : t[j] = Newline \/ (t[j] = r /\ j <= n)
    BY <1>1, <1>4, <1>5, <1>6
  <2> QED BY <2>1, <2>2, <1>4 DEF Written, Files, b
<1>8. ASSUME n > 1 PROVE Written(Tail(b), r)
  <2>1. Tail(b) \in Seq(Nat) /\ Len(Tail(b)) = 1 /\ Tail(b)[1] = b[2] /\ b[2] = r
    BY <1>1, <1>2, <1>8
  <2> DEFINE u == Tail(b)
  <2>2. u \in Seq(Nat) /\ Len(u) = 1 /\ u[1] = r
    BY <2>1
  <2> HIDE DEF u
  <2>3. u # <<>> /\ 1 <= n
    BY <2>2, <1>1
  <2>4. \A j \in 1..Len(u) : u[j] = r /\ j <= n
    BY <2>2, <2>3
  <2>5. Written(u, r)
    BY <2>2, <2>3, <2>4 DEF Written, Files, b
  <2> QED BY <2>5 DEF u
<1> QED BY <1>7, <1>8 DEF b

\* Every step of minilog keeps the disk in order and the marks in their places.
LEMMA DiskStep ==
    ASSUME NEW p, DiskOK(p), Write \/ WriteCut \/ Rotate
    PROVE  \E q : DiskOK(q)' /\ Later(View(p), View(q)')
<1>1. written \in Nat /\ written + 1 \in Numbers
  BY DEF DiskOK, Numbers
<1>2. CASE Write
  <2>1. active' = active \o (Body(written + 1) \o <<Newline>>)
    <3>1. active \in Seq(Nat) /\ Body(written + 1) \in Seq(Nat) /\ <<Newline>> \in Seq(Nat)
      BY <1>1 DEF DiskOK, Files, Body, Newline
    <3>2. active' = (active \o Body(written + 1)) \o <<Newline>>
      BY <1>2 DEF Write
    <3>3. (active \o Body(written + 1)) \o <<Newline>> = active \o (Body(written + 1) \o <<Newline>>)
      <4> DEFINE a == active
                 b == Body(written + 1)
                 e == <<Newline>>
      <4>1. a \in Seq(Nat) /\ b \in Seq(Nat) /\ e \in Seq(Nat)
        BY <3>1
      <4> HIDE DEF a, b, e
      <4>2. (a \o b) \o e = a \o (b \o e)
        BY <4>1, ConcatAssociative, SMTT(30)
      <4> QED BY <4>2, Zenon DEF a, b, e
    <3> QED BY <3>2, <3>3, Zenon
  <2> QED BY <1>1, <1>2, <2>1, WrittenBytes, AppendStep DEF Write
<1>3. CASE WriteCut
  BY <1>1, <1>3, WrittenBytes, AppendStep DEF WriteCut
<1>4. CASE Rotate
  <2>1. /\ rotated \in Chains /\ active \in Files /\ active # <<>> /\ gone \in Nat
        /\ Placed(p, written, End) /\ Holds(Chain, gone, written, p)
        /\ Chain \in Chains /\ TailOffset = Total(Chain) /\ Total(Chain) \in Nat
    BY <1>4, ChainIs DEF DiskOK, Rotate
  <2>2. /\ active' = <<>> /\ active' \in Files /\ written' = written /\ Chain' = rotated'
        /\ End' = gone' + Total(rotated')
        /\ End = gone + Total(Chain) /\ End \in Nat
    BY <1>4, <2>1 DEF Rotate, Files, Chain, End, TailOffset, Total
  <2>3. Chain = Append(rotated, active)
    BY <2>1 DEF Chain
  <2>4. Loses(Chain, rotated', gone, gone', written, p)
    <3>1. CASE Len(rotated) < MaxFiles
      <4>1. rotated' = Chain /\ gone' = gone
        BY <3>1, <1>4, <2>3 DEF Rotate
      <4> QED BY <4>1, <2>1 DEF Loses
    <3>2. CASE ~(Len(rotated) < MaxFiles)
      <4>1. rotated' = Append(Tail(rotated), active) /\ gone' = gone + Len(Head(rotated))
        BY <3>2, <1>4 DEF Rotate
      <4>2. rotated \in Seq(Files) /\ Len(rotated) \in Nat \ {0}
        BY <3>2, <2>1, PositiveLimits DEF Chains
      <4>3. Head(rotated) = Chain[1] /\ Chain # <<>>
        BY <4>2, <2>1, <2>3
      <4>4. Append(Tail(rotated), active) = Tail(Append(rotated, active))
        BY <4>2, <2>1, AppendProperties, HeadTailProperties, SeqEqual
      <4> QED BY <4>1, <4>3, <4>4, <2>1, <2>3, LosesFirst
    <3> QED BY <3>1, <3>2
  <2>5. /\ rotated' \in Chains /\ gone' \in Nat /\ gone <= gone' /\ End' = End
        /\ Holds(rotated', gone', written, p)
        /\ \A x \in Nat, r \in Numbers :
             Stands(rotated', gone', x, r) => Stands(Chain, gone, x, r)
    BY <2>2, <2>4 DEF Loses
  <2>6. DiskOK(p)'
    BY <1>1, <2>1, <2>2, <2>5 DEF DiskOK
  <2>7. Marks' \subseteq Marks
    BY <2>2, <2>5 DEF Marks
  <2>8. /\ View(p)'.marks = Marks' /\ View(p)'.end = End' /\ View(p)'.gone = gone'
        /\ View(p)'.written = written' /\ View(p)'.places = p
    BY DEF View
  <2>9. Later(View(p), View(p)')
    BY <1>1, <2>2, <2>5, <2>7, <2>8, ViewIs DEF Later
  <2> QED BY <2>6, <2>9
<1> QED BY <1>2, <1>3, <1>4

\* A step that leaves the disk alone leaves its view.
LEMMA DiskKept ==
    ASSUME NEW p, UNCHANGED disk
    PROVE  (DiskOK(p) => DiskOK(p)') /\ View(p)' = View(p)
  BY DEF disk, DiskOK, View, Marks, End, TailOffset, Chain, Stands, Holds

-----------------------------------------------------------------------------
(* What a read of the chain finds.                                         *)

\* The file an offset falls in holds it; an offset behind the end is taken for
\* the end.
LEMMA FileAtIs ==
    ASSUME rotated \in Chains, active \in Files, Chain # <<>>, NEW o \in Nat
    PROVE  LET f == FileAt(o)
           IN  /\ f.file \in 1..Len(Chain) /\ f.at \in 0..Len(Chain[f.file])
               /\ o < Total(Chain) => /\ f.at < Len(Chain[f.file])
                                      /\ Begin(Chain, f.file) + f.at = o
               /\ o >= Total(Chain) => /\ f.at = Len(Chain[f.file])
                                       /\ Begin(Chain, f.file) + f.at = Total(Chain)
<1> DEFINE c == Chain
           n == Len(c)
<1>1. /\ c \in Chains /\ TailOffset = Total(c) /\ Total(c) \in Nat
      /\ \A i : StartOf(i) = Begin(c, i)
  BY ChainIs
<1>2. n \in Nat \ {0} /\ DOMAIN c = 1..n
  BY <1>1 DEF Chains
<1>3. /\ \A i \in 1..n : Begin(c, i) \in Nat /\ Len(c[i]) \in Nat
      /\ Begin(c, 1) = 0 /\ Begin(c, n) + Len(c[n]) = Total(c)
      /\ \A i \in 1..n : i # 1 => i - 1 \in 1..n /\ Begin(c, i) = Begin(c, i - 1) + Len(c[i - 1])
  <2>1. \A i \in 1..n : Begin(c, i) \in Nat /\ Len(c[i]) \in Nat
    BY <1>1, FileIs
  <2>2. Begin(c, 1) = 0
    BY <1>1, OffsetsStep DEF Begin
  <2>3. Begin(c, n) + Len(c[n]) = Total(c)
    BY <1>1, <1>2, OffsetsStep DEF Begin, Total
  <2>4. ASSUME NEW i \in 1..n, i # 1
        PROVE  i - 1 \in 1..n /\ Begin(c, i) = Begin(c, i - 1) + Len(c[i - 1])
    <3>1. i - 1 \in 1..n
      BY <1>2, <2>4
    <3> QED BY <1>1, <3>1, OffsetsStep DEF Begin
  <2> QED BY <2>1, <2>2, <2>3, <2>4
<1>4. CASE o >= Total(c)
  <2>1. FileAt(o) = [file |-> n, at |-> Len(c[n])]
    BY <1>1, <1>4 DEF FileAt
  <2>2. n \in 1..n /\ Len(c[n]) \in 0..Len(c[n])
    BY <1>2, <1>3
  <2> HIDE DEF n, c
  <2>3. ~(o < Total(c))
    BY <1>1, <1>4
  <2> QED BY <2>1, <2>2, <2>3, <1>3 DEF c, n
<1>5. CASE ~(o >= Total(c))
  <2> DEFINE S == {k \in 1..n : o < Begin(c, k) + Len(c[k])}
             i == Min(S)
  <2>1. FileAt(o) = [file |-> i, at |-> o - Begin(c, i)]
    BY <1>1, <1>2, <1>5 DEF FileAt
  <2>2. n \in S
    <3>1. o < Total(c) /\ n \in 1..n
      BY <1>1, <1>2, <1>5
    <3> QED BY <3>1, <1>3
  <2>3. S \subseteq Nat /\ S # {}
    BY <1>2, <2>2
  <2>4. i \in S /\ \A y \in S : i <= y
    <3> HIDE DEF S
    <3> QED BY <2>3, MinIs
  <2> HIDE DEF i
  <2>5. i \in 1..n /\ o < Begin(c, i) + Len(c[i])
    BY <2>4
  <2>6. Begin(c, i) <= o
    <3>1. CASE i = 1
      BY <3>1, <1>3
    <3>2. CASE i # 1
      <4>1. i - 1 \in 1..n /\ Begin(c, i) = Begin(c, i - 1) + Len(c[i - 1])
        BY <3>2, <2>5, <1>3
      <4>2. i - 1 \notin S
        BY <2>4, <2>5, <1>2
      <4>3. ~(o < Begin(c, i - 1) + Len(c[i - 1]))
        BY <4>1, <4>2
      <4>4. Begin(c, i) \in Nat
        BY <1>3, <2>5
      <4> QED BY <4>1, <4>3, <4>4
    <3> QED BY <3>1, <3>2
  <2> DEFINE b == Begin(c, i)
             z == Len(c[i])
             t == Total(c)
  <2>7. b \in Nat /\ z \in Nat /\ t \in Nat /\ b <= o /\ o < b + z /\ ~(o >= t)
    BY <1>1, <1>3, <1>5, <2>5, <2>6
  <2> HIDE DEF b, z, t
  <2>8. o - b \in 0..z /\ o - b < z /\ b + (o - b) = o
    BY <2>7
  <2> QED BY <2>1, <2>5, <2>7, <2>8 DEF b, z, t
<1> QED BY <1>4, <1>5

\* The line at position s of the i-th file.
Line(i, s) ==
    [at   |-> StartOf(i) + s,
     tok  |-> SubSeq(Chain[i], s + 1, EndOfLine(Chain[i], s) - 1),
     next |-> StartOf(i) + NextInFile(Chain[i], EndOfLine(Chain[i], s))]

\* The lines that ReadForward() goes through.
ForwardLines(o) ==
    UNION {LinesOf(i, IF i = FileAt(o).file THEN FileAt(o).at ELSE 0) :
             i \in FileAt(o).file .. Len(Chain)}

LEMMA LinesOfIs ==
    ASSUME NEW i, NEW b, NEW l
    PROVE  l \in LinesOf(i, b) <=>
             \E s \in b .. Len(Chain[i]) - 1 :
                (s = b \/ Chain[i][s] = Newline) /\ l = Line(i, s)
  BY DEF LinesOf, Line

\* They are lines of a file from the offset on; only the first may be the rest
\* of one.
LEMMA ForwardIs ==
    ASSUME rotated \in Chains, active \in Files, Chain # <<>>, NEW o \in Nat,
           NEW l \in ForwardLines(o)
    PROVE  \E i \in 1..Len(Chain) : \E s \in 0..Len(Chain[i]) - 1 :
             /\ l = Line(i, s) /\ l.at = Begin(Chain, i) + s
             /\ o <= l.at
             /\ LineStart(Chain[i], s) \/ l.at = o
<1> DEFINE c == Chain
           k == FileAt(o).file
           u == FileAt(o).at
<1>1. /\ c \in Chains /\ Total(c) \in Nat /\ Len(c) \in Nat
      /\ \A i : StartOf(i) = Begin(c, i)
  BY ChainIs DEF Chains
<1>2. /\ k \in 1..Len(c) /\ u \in 0..Len(c[k])
      /\ o < Total(c) => u < Len(c[k]) /\ Begin(c, k) + u = o
      /\ o >= Total(c) => u = Len(c[k]) /\ Begin(c, k) + u = Total(c)
  BY FileAtIs
<1>3. PICK i \in k .. Len(c) : l \in LinesOf(i, IF i = k THEN u ELSE 0)
  BY DEF ForwardLines
<1> DEFINE b == IF i = k THEN u ELSE 0
<1>4. PICK s \in b .. Len(c[i]) - 1 : (s = b \/ c[i][s] = Newline) /\ l = Line(i, s)
  BY <1>3, LinesOfIs
<1>5. l.at = Begin(c, i) + s
  BY <1>4, <1>1 DEF Line
<1> HIDE DEF c, k, u
<1>6. i \in 1..Len(c) /\ k <= i
  BY <1>1, <1>2
<1>7. /\ Len(c[i]) \in Nat /\ Begin(c, i) \in Nat /\ Begin(c, k) \in Nat /\ Len(c[k]) \in Nat
      /\ Begin(c, k) + Len(c[k]) <= Total(c)
  BY <1>1, <1>2, <1>6, FileIs
<1>8. s \in 0..Len(c[i]) - 1
  BY <1>2, <1>7, <1>4
<1>9. CASE i = k
  <2>1. s >= u /\ u < Len(c[k])
    BY <1>9, <1>4, <1>7, <1>8, <1>2
  <2>2. ~(o >= Total(c)) /\ o < Total(c)
    BY <2>1, <1>1, <1>2, <1>7
  <2>3. Begin(c, k) + u = o
    BY <2>2, <1>2
  <2>4. o <= Begin(c, i) + s
    BY <2>1, <2>3, <1>9, <1>7, <1>2, <1>8
  <2>5. s = u => Begin(c, i) + s = o
    BY <2>3, <1>9
  <2> QED BY <1>4, <1>5, <1>6, <1>8, <1>9, <2>4, <2>5 DEF LineStart, c
<1>10. CASE i # k
  <2>1. Begin(c, k) + Len(c[k]) <= Begin(c, i)
    BY <1>10, <1>6, <1>1, <1>2, LaterBegins
  <2>2. LineStart(c[i], s)
    BY <1>4, <1>10 DEF LineStart
  <2> DEFINE x == Begin(c, k)
             y == Begin(c, i)
             z == Len(c[k])
             t == Total(c)
  <2>3. /\ x \in Nat /\ y \in Nat /\ z \in Nat /\ t \in Nat /\ x + z <= y /\ u \in 0..z
        /\ s \in Nat /\ (o < t => x + u = o)
    BY <1>7, <2>1, <1>1, <1>2, <1>8
  <2>4. y + s < t
    <3>1. y + Len(c[i]) <= t
      BY <1>1, <1>6, FileIs
    <3>2. s + 1 <= Len(c[i])
      BY <1>7, <1>8
    <3> DEFINE z2 == Len(c[i])
    <3>3. z2 \in Nat /\ y + z2 <= t /\ s + 1 <= z2
      BY <3>1, <3>2, <1>7
    <3> HIDE DEF x, y, z, t, z2
    <3> QED BY <3>3, <2>3
  <2>5. o >= t => x + z = t
    BY <1>2
  <2> HIDE DEF x, y, z, t
  <2>6. o <= y + s
    BY <2>3, <2>4, <2>5
  <2> QED BY <1>4, <1>5, <1>6, <1>8, <2>2, <2>6 DEF y, c
<1> QED BY <1>9, <1>10

\* No line from the offset on is left out.
LEMMA ForwardHas ==
    ASSUME rotated \in Chains, active \in Files, Chain # <<>>, NEW o \in Nat,
           NEW i \in 1..Len(Chain), NEW s \in 0..Len(Chain[i]) - 1,
           LineStart(Chain[i], s), o <= Begin(Chain, i) + s
    PROVE  Line(i, s) \in ForwardLines(o)
<1> DEFINE c == Chain
           k == FileAt(o).file
           u == FileAt(o).at
<1>1. c \in Chains /\ Total(c) \in Nat /\ Len(c) \in Nat
  BY ChainIs DEF Chains
<1>2. /\ k \in 1..Len(c) /\ u \in 0..Len(c[k])
      /\ o < Total(c) => u < Len(c[k]) /\ Begin(c, k) + u = o
  BY FileAtIs
<1>3. /\ Len(c[i]) \in Nat /\ Begin(c, i) \in Nat /\ Begin(c, k) \in Nat /\ Len(c[k]) \in Nat
      /\ Begin(c, i) + Len(c[i]) <= Total(c)
  BY <1>1, <1>2, FileIs
<1>4. i < k => Begin(c, i) + Len(c[i]) <= Begin(c, k)
  BY <1>1, <1>2, LaterBegins
<1> DEFINE x == Begin(c, k)
           y == Begin(c, i)
           z == Len(c[i])
           t == Total(c)
           b == IF i = k THEN u ELSE 0
<1>5. /\ x \in Nat /\ y \in Nat /\ z \in Nat /\ t \in Nat /\ Len(c) \in Nat
      /\ y + z <= t /\ (i < k => y + z <= x) /\ s \in 0..z - 1 /\ o <= y + s
      /\ (o < t => x + u = o) /\ u \in 0..Len(c[k]) /\ Len(c[k]) \in Nat
      /\ k \in 1..Len(c) /\ i \in 1..Len(c) /\ (i = k => x = y)
  BY <1>1, <1>2, <1>3, <1>4
<1>6. s = 0 \/ c[i][s] = Newline
  BY DEF LineStart
<1>7. \E q \in b .. Len(c[i]) - 1 : (q = b \/ c[i][q] = Newline) /\ Line(i, s) = Line(i, q)
  <2> HIDE DEF c, k, u, x, y, z, t
  <2>1. o < t /\ x + u = o
    BY <1>5
  <2>2. i >= k
    BY <1>5, <2>1
  <2>3. i = k => u <= s
    BY <1>5, <2>1
  <2>4. s \in b .. z - 1
    BY <1>5, <2>2, <2>3
  <2>5. s = 0 => s = b
    BY <2>3, <1>5
  <2> QED BY <2>4, <2>5, <1>6 DEF z
<1>8. Line(i, s) \in LinesOf(i, b)
  BY <1>7, LinesOfIs
<1>9. i \in k .. Len(c)
  <2> HIDE DEF c, k, u, x, y, z, t
  <2> QED BY <1>5
<1> QED BY <1>8, <1>9 DEF ForwardLines

\* The next place of a line.
LEMMA LineNext ==
    ASSUME rotated \in Chains, active \in Files,
           NEW i \in 1..Len(Chain), NEW s \in 0..Len(Chain[i]) - 1
    PROVE  LET l == Line(i, s)
               f == Chain[i]
           IN  /\ l.at = Begin(Chain, i) + s /\ l.at \in Nat /\ l.at < Total(Chain)
               /\ l.next \in Nat /\ l.at < l.next
               /\ l.next <= Begin(Chain, i) + Len(f) /\ l.next <= Total(Chain)
               /\ \A x \in s + 1 .. Len(f) : f[x] = Newline => l.next <= Begin(Chain, i) + x
               /\ l.tok = SubSeq(f, s + 1, EndOfLine(f, s) - 1)
<1> DEFINE c == Chain
           f == c[i]
           e == EndOfLine(f, s)
           b == Begin(c, i)
           n == NextInFile(f, e)
           z == Len(f)
           t == Total(c)
<1>1. c \in Chains /\ StartOf(i) = Begin(c, i)
  BY ChainIs
<1>2. f \in Files /\ z \in Nat /\ b \in Nat /\ t \in Nat /\ b + z <= t
  BY <1>1, FileIs
<1>3. e \in s + 1 .. z + 1 /\ \A x \in s + 1 .. z : f[x] = Newline => e <= x
  BY <1>2, EndOfLineIs
<1>4. n \in {e, z} /\ n <= e /\ n <= z
  <2>1. {e, z} \subseteq Nat
    BY <1>2, <1>3
  <2> QED BY <2>1, MinIs DEF NextInFile
<1>5. Line(i, s) = [at |-> b + s, tok |-> SubSeq(f, s + 1, e - 1), next |-> b + n]
  BY <1>1 DEF Line
<1> HIDE DEF e, n
<1>6. /\ b + s \in Nat /\ b + s < t /\ b + n \in Nat /\ b + s < b + n /\ b + n <= b + z
      /\ b + n <= t /\ \A x \in s + 1 .. z : f[x] = Newline => b + n <= b + x
  <2>1. s \in 0..z - 1
    OBVIOUS
  <2> HIDE DEF b, z, t, f
  <2> QED BY <1>2, <1>3, <1>4, <2>1
<1>7. /\ Line(i, s).at = b + s /\ Line(i, s).next = b + n
      /\ Line(i, s).tok = SubSeq(f, s + 1, e - 1)
  <2> DEFINE v == b + s
             w == b + n
             k == SubSeq(f, s + 1, e - 1)
  <2>1. Line(i, s) = [at |-> v, tok |-> k, next |-> w]
    BY <1>5
  <2> HIDE DEF v, w, k
  <2>2. Line(i, s).at = v /\ Line(i, s).next = w /\ Line(i, s).tok = k
    BY <2>1
  <2> QED BY <2>2 DEF v, w, k
<1> QED BY <1>6, <1>7 DEF e

\* The lines are in different places, and each ends before the next.
LEMMA ForwardOrder ==
    ASSUME rotated \in Chains, active \in Files, Chain # <<>>, NEW o \in Nat
    PROVE  /\ Spread(ForwardLines(o))
           /\ \A l \in ForwardLines(o) :
                /\ l.at \in Nat /\ l.next \in Nat /\ o <= l.at /\ l.at < l.next
                /\ l.next <= Total(Chain)
           /\ \A k, l \in ForwardLines(o) : k.at < l.at => k.next <= l.at
<1> DEFINE c == Chain
<1>1. c \in Chains /\ Total(c) \in Nat
  BY ChainIs
<1>2. ASSUME NEW l \in ForwardLines(o)
      PROVE  /\ l.at \in Nat /\ l.next \in Nat /\ o <= l.at /\ l.at < l.next
             /\ l.next <= Total(c) /\ l.at < Total(c)
  <2>1. PICK i \in 1..Len(c) : \E s \in 0..Len(c[i]) - 1 :
               l = Line(i, s) /\ l.at = Begin(c, i) + s /\ o <= l.at
    BY ForwardIs
  <2>2. PICK s \in 0..Len(c[i]) - 1 : l = Line(i, s) /\ o <= l.at
    BY <2>1
  <2> QED BY <2>2, LineNext
<1>3. ASSUME NEW k \in ForwardLines(o), NEW l \in ForwardLines(o)
      PROVE  (k.at = l.at => k = l) /\ (k.at < l.at => k.next <= l.at)
  <2>1. PICK i \in 1..Len(c) : \E s \in 0..Len(c[i]) - 1 :
               k = Line(i, s) /\ k.at = Begin(c, i) + s /\ o <= k.at
    BY ForwardIs
  <2>2. PICK s \in 0..Len(c[i]) - 1 : k = Line(i, s) /\ k.at = Begin(c, i) + s /\ o <= k.at
    BY <2>1
  <2>3. PICK j \in 1..Len(c) : \E u \in 0..Len(c[j]) - 1 :
               /\ l = Line(j, u) /\ l.at = Begin(c, j) + u
               /\ LineStart(c[j], u) \/ l.at = o
    BY ForwardIs
  <2>4. PICK u \in 0..Len(c[j]) - 1 :
               /\ l = Line(j, u) /\ l.at = Begin(c, j) + u
               /\ LineStart(c[j], u) \/ l.at = o
    BY <2>3
  <2>5. /\ Len(c[i]) \in Nat /\ Begin(c, i) \in Nat /\ Len(c[j]) \in Nat /\ Begin(c, j) \in Nat
    BY <1>1, FileIs
  <2>6. /\ k.next \in Nat /\ k.next <= Begin(c, i) + Len(c[i])
        /\ \A x \in s + 1 .. Len(c[i]) : c[i][x] = Newline => k.next <= Begin(c, i) + x
    BY <2>2, LineNext
  <2>7. s \in Nat /\ u \in Nat /\ s < Len(c[i]) /\ u < Len(c[j]) /\ i \in Nat /\ j \in Nat
    BY <2>5
  <2>8. k.at = l.at => k = l
    BY <1>1, <2>2, <2>4, <2>7, PlaceUnique
  <2>9. ASSUME k.at < l.at PROVE k.next <= l.at
    <3>1. CASE i < j
      <4>1. Begin(c, i) + Len(c[i]) <= Begin(c, j)
        BY <1>1, <3>1, LaterBegins
      <4> HIDE DEF c
      <4> QED BY <4>1, <2>4, <2>5, <2>6, <2>7, SMTT(30)
    <3>2. CASE i = j
      <4> HIDE DEF c
      <4>1. s < u /\ l.at # o
        BY <3>2, <2>9, <2>2, <2>4, <2>5, <2>7
      <4>2. u \in s + 1 .. Len(c[i]) /\ u # 0
        BY <4>1, <3>2, <2>5, <2>7
      <4>3. c[i][u] = Newline
        BY <4>1, <4>2, <2>4, <3>2 DEF LineStart
      <4> QED BY <4>2, <4>3, <2>4, <2>6, <3>2
    <3>3. CASE j < i
      <4>1. Begin(c, j) + Len(c[j]) <= Begin(c, i)
        BY <1>1, <3>3, LaterBegins
      <4> HIDE DEF c
      <4> QED BY <4>1, <2>9, <2>2, <2>4, <2>5, <2>7
    <3> QED BY <3>1, <3>2, <3>3, <2>7
  <2> QED BY <2>8, <2>9
<1> HIDE DEF c
<1>4. Spread(ForwardLines(o))
  BY <1>1, <1>2, <1>3 DEF Spread
<1> QED BY <1>2, <1>3, <1>4 DEF c

-----------------------------------------------------------------------------
(* What an answer makes of the lines.                                      *)

TableRows == [at : Nat, rec : Numbers]

LEMMA RecordsAre == Records \subseteq Numbers
  BY PositiveLimits DEF Records, Numbers

\* The rows of an answer are its lines that are records, by their places.
LEMMA RowsOfIs ==
    ASSUME NEW lines, Spread(Range(lines))
    PROVE  LET q == RowsOf(lines)
           IN  /\ q \in Seq(TableRows)
               /\ \A i, j \in DOMAIN q : i < j => q[i].at < q[j].at
               /\ \A i \in DOMAIN q : \E l \in Range(lines) :
                    l.at = q[i].at /\ l.tok = Body(q[i].rec)
               /\ \A l \in Range(lines), r \in Records :
                    l.tok = Body(r) => \E i \in DOMAIN q : q[i].at = l.at
<1> DEFINE S == {l \in Range(lines) : \E r \in Records : l.tok = Body(r)}
           s == InOrder(S)
           n == Len(s)
           q == RowsOf(lines)
<1>1. Spread(S)
  BY DEF Spread
<1> HIDE DEF S
<1>2. Lists(s, S)
  BY <1>1, InOrderLists
<1>3. s \in Seq(S) /\ n \in Nat /\ DOMAIN s = 1..n
  BY <1>2 DEF Lists
<1>4. q = [i \in 1..n |-> [at |-> s[i].at, rec |-> s[i].tok[1]]]
  BY <1>3 DEF RowsOf, S
<1>5. \A i, j \in 1..n : i < j => s[i].at < s[j].at
  BY <1>2, <1>3 DEF Lists
<1> HIDE DEF s, q, n
<1>6. ASSUME NEW i \in 1..n
      PROVE  /\ q[i].at = s[i].at /\ q[i] \in TableRows
             /\ s[i] \in Range(lines) /\ s[i].tok = Body(q[i].rec)
  <2>1. s[i] \in S
    BY <1>3
  <2>2. PICK r \in Records : s[i].tok = Body(r)
    BY <2>1 DEF S
  <2>3. Body(r)[1] = r
    BY BodyIs
  <2>4. s[i].at \in Nat /\ r \in Numbers
    BY <2>1, <1>1, RecordsAre DEF Spread
  <2>5. q[i] = [at |-> s[i].at, rec |-> r]
    BY <1>4, <2>2, <2>3
  <2> QED BY <2>1, <2>2, <2>4, <2>5 DEF S, TableRows
<1>7. q \in Seq(TableRows) /\ DOMAIN q = 1..n
  <2>1. q \in [1..n -> TableRows]
    BY <1>4, <1>6
  <2> QED BY <2>1, <1>3
<1>8. ASSUME NEW l \in Range(lines), NEW r \in Records, l.tok = Body(r)
      PROVE  \E i \in 1..n : q[i].at = l.at
  <2>1. l \in S
    BY <1>8 DEF S
  <2>2. PICK i \in 1..n : s[i] = l
    BY <2>1, <1>2, <1>3 DEF Lists
  <2> QED BY <2>2, <1>6
<1>9. \A i, j \in 1..n : i < j => q[i].at < q[j].at
  BY <1>5, <1>6
<1>10. \A i \in 1..n : \E l \in Range(lines) : l.at = q[i].at /\ l.tok = Body(q[i].rec)
  BY <1>6
<1> QED BY <1>7, <1>8, <1>9, <1>10 DEF q

\* An answer without lines has no rows.
LEMMA NoRows ==
    RowsOf(<<>>) = <<>>
<1>1. Range(<<>>) = {}
  BY DEF Range
<1>2. Spread(Range(<<>>))
  <2>1. 0 \in Nat
    OBVIOUS
  <2> QED BY <1>1, <2>1 DEF Spread
<1>3. RowsOf(<<>>) \in Seq(TableRows) /\ \A i \in DOMAIN RowsOf(<<>>) : \E l \in Range(<<>>) : TRUE
  BY <1>2, RowsOfIs
<1> DEFINE q == RowsOf(<<>>)
<1> HIDE DEF q
<1>4. q \in Seq(TableRows) /\ DOMAIN q = {}
  BY <1>1, <1>3 DEF q
<1>5. q = <<>>
  BY <1>4
<1> QED BY <1>5 DEF q

\* One read collects no more than there is.
LEMMA CollectedIs ==
    ASSUME NEW S, NEW lines \in Seq(S)
    PROVE  Collected(lines) \in 0..Len(lines)
<1> DEFINE b == Min({Batch, Len(lines)})
           T == {n \in 0..b : n < 2 \/ Size(SubSeq(lines, 1, n)) <= MaxResponseBytes}
<1>1. b \in Nat /\ b <= Len(lines) /\ Len(lines) \in Nat
  <2>1. {Batch, Len(lines)} \subseteq Nat
    BY PositiveLimits
  <2> QED BY <2>1, MinIs
<1> HIDE DEF b
<1>2. 0 \in T /\ T \subseteq Nat /\ \A y \in T : y <= b
  BY <1>1
<1> HIDE DEF T
<1>3. Max(T) \in T
  BY <1>1, <1>2, MaxIs
<1>4. Collected(lines) = Max(T)
  BY DEF Collected, T, b
<1> DEFINE m == Collected(lines)
           z == Len(lines)
<1>5. m \in Nat /\ m <= b /\ b \in Nat /\ b <= z /\ z \in Nat
  BY <1>1, <1>2, <1>3, <1>4
<1> HIDE DEF m, z
<1>6. m \in 0..z
  BY <1>5
<1> QED BY <1>6 DEF m, z

\* ReadForward() returns every line that matches from the offset to the place it
\* goes on from, and no other.
LEMMA ReadForwardIs ==
    ASSUME rotated \in Chains, active \in Files, Chain # <<>>, NEW o \in Nat
    PROVE  LET a == ReadForward(o)
           IN  /\ Spread(Range(a.lines)) /\ Range(a.lines) \subseteq ForwardLines(o)
               /\ a.first \in Nat /\ a.next \in Nat /\ o <= a.next
               /\ a.lines = <<>> => a.next = o
               /\ a.lines # <<>> => a.next <= Total(Chain)
               /\ \A l \in Range(a.lines) : l.at < a.next
               /\ \A l \in ForwardLines(o) :
                    (Match(l.tok) /\ l.at < a.next) => l \in Range(a.lines)
<1> DEFINE F == ForwardLines(o)
           S == {l \in F : Match(l.tok)}
           s == InOrder(S)
           z == Len(s)
           n == Collected(s)
           R == {l \in F : /\ n = Batch => l.at <= s[n].at
                           /\ n < z => l.at < s[n + 1].at}
           N == {l.next : l \in R}
           v == SubSeq(s, 1, n)
           first == IF n = 0 THEN o ELSE s[1].at
           next == IF n = 0 THEN o ELSE Max(N)
           t == Total(Chain)
<1>1. ReadForward(o) = [lines |-> v, first |-> first, next |-> next]
  BY DEF ReadForward, ForwardLines
<1>2. /\ Spread(F) /\ t \in Nat
      /\ \A l \in F : /\ l.at \in Nat /\ l.next \in Nat /\ o <= l.at /\ l.at < l.next
                      /\ l.next <= t
      /\ \A k, l \in F : k.at < l.at => k.next <= l.at
  BY ForwardOrder, ChainIs
<1> HIDE DEF F, t
<1>3. Spread(S) /\ S \subseteq F
  BY <1>2 DEF Spread
<1>4. Lists(s, S)
  BY <1>3, InOrderLists
<1> HIDE DEF S, s
<1>5. s \in Seq(S) /\ z \in Nat /\ DOMAIN s = 1..z
  BY <1>4 DEF Lists
<1>6. n \in 0..z
  BY <1>5, CollectedIs
<1>7. \A i \in 1..z : s[i] \in F /\ s[i].at \in Nat
  BY <1>5, <1>3, <1>2
<1>8. \A i, j \in 1..z : i < j => s[i].at < s[j].at
  BY <1>4, <1>5 DEF Lists
<1> HIDE DEF z, n
<1>9. v \in Seq(S) /\ Len(v) = n /\ \A i \in 1..n : i \in 1..z /\ v[i] = s[i]
  BY <1>5, <1>6 DEF z
<1> HIDE DEF v
<1>10. Range(v) = {s[i] : i \in 1..n}
  <2>1. DOMAIN v = 1..n
    BY <1>9, <1>6
  <2> QED BY <2>1, <1>9 DEF Range
<1>11. Range(v) \subseteq F /\ Spread(Range(v))
  <2>1. Range(v) \subseteq F
    BY <1>10, <1>7, <1>9
  <2> QED BY <2>1, <1>2 DEF Spread
<1>12. (v = <<>>) <=> (n = 0)
  BY <1>9, <1>6
<1>13. CASE n = 0
  <2>1. first = o /\ next = o /\ Range(v) = {} /\ v = <<>>
    BY <1>13, <1>10, <1>12
  <2>2. \A l \in F : ~(l.at < o)
    BY <1>2
  <2> HIDE DEF next, first
  <2> QED BY <1>1, <1>11, <2>1, <2>2 DEF F
<1>14. CASE n # 0
  <2>1. n \in 1..z /\ 1 \in 1..z /\ s[n] \in F /\ s[n].at \in Nat /\ s[1].at \in Nat
    BY <1>14, <1>6, <1>7, <1>5
  <2>2. s[n] \in R
    <3>1. n < z => s[n].at < s[n + 1].at
      BY <2>1, <1>8, <1>5
    <3> QED BY <2>1, <3>1
  <2>3. R \subseteq F
    OBVIOUS
  <2>4. \A l \in R : n < z => l.at < s[n + 1].at
    OBVIOUS
  <2> HIDE DEF R
  <2>5. N \subseteq Nat /\ N # {} /\ \A y \in N : y <= t
    BY <2>2, <2>3, <1>2
  <2>6. \A l \in R : l.next \in N
    OBVIOUS
  <2>7. \A y \in N : \E l \in R : y = l.next
    OBVIOUS
  <2> HIDE DEF N
  <2>8. Max(N) \in N /\ \A y \in N : y <= Max(N)
    BY <2>5, <1>2, MaxIs
  <2>9. next \in N /\ \A y \in N : y <= next
    BY <2>8, <1>14
  <2> HIDE DEF next, first
  <2>10. next \in Nat /\ next <= t
    BY <2>5, <2>9
  <2>11. PICK m \in R : next = m.next
    BY <2>9, <2>7
  <2>12. s[n].at < next /\ o <= next
    <3>1. s[n].next <= next /\ s[n].at < s[n].next /\ o <= s[n].at /\ s[n].next \in Nat
      BY <2>1, <2>2, <2>6, <2>9, <1>2
    <3> QED BY <3>1, <2>1, <2>10
  <2>13. \A l \in Range(v) : l.at < next
    <3>1. ASSUME NEW i \in 1..n PROVE s[i].at < next
      <4>1. i \in 1..z /\ s[i].at \in Nat /\ (i = n \/ s[i].at < s[n].at)
        BY <1>5, <1>6, <1>7, <1>8, <2>1
      <4> QED BY <4>1, <2>12, <2>10, <2>1
    <3> QED BY <3>1, <1>10
  <2>14. ASSUME NEW l \in F, Match(l.tok), l.at < next
         PROVE  l \in Range(v)
    <3>1. l \in S
      BY <2>14 DEF S
    <3>2. PICK j \in 1..z : s[j] = l
      BY <3>1, <1>4, <1>5 DEF Lists
    <3>3. l.at <= m.at /\ m.at \in Nat /\ l.at \in Nat
      <4>1. m \in F /\ m.at \in Nat /\ m.next \in Nat /\ l.at \in Nat
        BY <2>3, <1>2
      <4>2. ~(m.at < l.at)
        BY <4>1, <2>11, <2>14, <1>2
      <4> QED BY <4>1, <4>2
    <3>4. j <= n
      <4>1. SUFFICES ASSUME ~(j <= n) PROVE FALSE
        OBVIOUS
      <4>2. n < z /\ n + 1 \in 1..z /\ (j = n + 1 \/ n + 1 < j)
        BY <4>1, <2>1, <1>5, <1>6
      <4>3. m.at < s[n + 1].at
        BY <2>4, <4>2
      <4>4. s[n + 1].at <= s[j].at /\ s[n + 1].at \in Nat
        BY <4>2, <1>7, <1>8
      <4> QED BY <4>3, <4>4, <3>2, <3>3
    <3>5. j \in 1..n
      BY <3>4, <1>6, <1>5
    <3> QED BY <3>2, <3>5, <1>10
  <2>15. v # <<>> /\ first \in Nat
    BY <1>12, <1>14, <2>1 DEF first
  <2>16. ReadForward(o).lines = v /\ ReadForward(o).next = next /\ ReadForward(o).first = first
    BY <1>1
  <2> QED BY <2>16, <1>11, <2>10, <2>12, <2>13, <2>14, <2>15 DEF F, t
<1> QED BY <1>13, <1>14

-----------------------------------------------------------------------------
(* What rows say of the disk; g is what was gone when their offsets were   *)
(* counted.                                                                *)

\* No mark stands across place x.
Unbroken(D, x) == \A m \in D.marks : ~(m.at < x /\ x < m.at + Len(Body(m.rec)))

\* Record r was written at place x, and no other line goes over it.
RowOK(D, x, r) == r \in 1..D.written /\ D.places[r] = x /\ Unbroken(D, x)

Shows(D, q, g) ==
    /\ q \in Seq(TableRows)
    /\ \A i, j \in DOMAIN q : i < j => q[i].at < q[j].at
    /\ \A i \in DOMAIN q : RowOK(D, q[i].at + g, q[i].rec)

Within(q, lo, hi) == \A i \in DOMAIN q : lo <= q[i].at /\ q[i].at < hi

\* Every record sought that stands between lo and hi has its row; with CoversTo,
\* every one that ends before hi.
Sought == Records \cap Matching
Covers(D, q, g, lo, hi) ==
    \A m \in D.marks :
        (m.rec \in Sought /\ lo + g <= m.at /\ m.at < hi + g)
            => \E i \in DOMAIN q : q[i].at + g = m.at
CoversTo(D, q, g, lo, hi) ==
    \A m \in D.marks :
        (m.rec \in Sought /\ lo + g <= m.at /\ m.at + Len(Body(m.rec)) <= hi + g)
            => \E i \in DOMAIN q : q[i].at + g = m.at

\* A line of an answer that reads as a record has the bytes of one.
Reads(l) ==
    \E i \in 1..Len(Chain) : \E s \in 0..Len(Chain[i]) - 1 :
        /\ l.at = Begin(Chain, i) + s
        /\ \A r \in Numbers : l.tok = Body(r) => BytesAt(Chain[i], s, r)

LEMMA LinesShow ==
    ASSUME NEW p, DiskOK(p), NEW lines, Spread(Range(lines)),
           \A l \in Range(lines) : Reads(l)
    PROVE  Shows(View(p), RowsOf(lines), gone)
<1> DEFINE q == RowsOf(lines)
           D == View(p)
<1>1. /\ q \in Seq(TableRows)
      /\ \A i, j \in DOMAIN q : i < j => q[i].at < q[j].at
      /\ \A i \in DOMAIN q : \E l \in Range(lines) :
           l.at = q[i].at /\ l.tok = Body(q[i].rec)
  BY RowsOfIs
<1> HIDE DEF q
<1>2. /\ Chain \in Chains /\ gone \in Nat /\ End = gone + Total(Chain)
      /\ Placed(p, written, End) /\ Holds(Chain, gone, written, p)
  BY ChainIs, ViewSound DEF DiskOK
<1>3. D.marks = Marks /\ D.written = written /\ D.places = p
  BY ViewIs
<1> HIDE DEF D
<1>4. ASSUME NEW k \in DOMAIN q
      PROVE  RowOK(D, q[k].at + gone, q[k].rec)
  <2> DEFINE r == q[k].rec
             x == q[k].at + gone
  <2>1. q[k] \in TableRows
    BY <1>1
  <2>2. r \in Numbers /\ q[k].at \in Nat
    BY <2>1 DEF TableRows
  <2>3. PICK l \in Range(lines) : l.at = q[k].at /\ l.tok = Body(r)
    BY <1>1
  <2>4. PICK i \in 1..Len(Chain) : \E s \in 0..Len(Chain[i]) - 1 :
              l.at = Begin(Chain, i) + s /\ BytesAt(Chain[i], s, r)
    BY <2>2, <2>3 DEF Reads
  <2>5. PICK s \in 0..Len(Chain[i]) - 1 : l.at = Begin(Chain, i) + s /\ BytesAt(Chain[i], s, r)
    BY <2>4
  <2>6. Begin(Chain, i) \in Nat /\ Len(Chain[i]) \in Nat
    BY <1>2, FileIs
  <2>7. s \in Nat /\ s < Len(Chain[i])
    BY <2>6
  <2>8. x = gone + Begin(Chain, i) + s
    BY <2>3, <2>5, <2>6, <2>7, <1>2
  <2>9. r \in 1..written /\ p[r] = x
    BY <1>2, <2>2, <2>5, <2>7, <2>8, BytesPlace
  <2>10. Aligned(Chain, gone, x)
    BY <1>2, <2>2, <2>5, <2>7, <2>8, BytesAligned
  <2>11. Unbroken(D, x)
    BY <2>10, <1>3 DEF Unbroken, Aligned, Marks
  <2> QED BY <2>9, <2>11, <1>3 DEF RowOK
<1> QED BY <1>1, <1>4 DEF Shows, q, D

\* A mark is the line of a record.
LEMMA MarkIs ==
    ASSUME rotated \in Chains, active \in Files, gone \in Nat, NEW m \in Marks
    PROVE  /\ m.at \in Nat /\ m.rec \in Numbers
           /\ \E i \in 1..Len(Chain) : \E s \in 0..Len(Chain[i]) - 1 :
                /\ m.at = gone + Begin(Chain, i) + s
                /\ LineStart(Chain[i], s) /\ LineAt(Chain[i], s, m.rec)
  BY DEF Marks, Stands

LEMMA ForwardReads ==
    ASSUME rotated \in Chains, active \in Files, Chain # <<>>, NEW o \in Nat,
           NEW l \in ForwardLines(o)
    PROVE  Reads(l)
<1> DEFINE c == Chain
<1>1. c \in Chains
  BY ChainIs
<1>2. PICK i \in 1..Len(c) : \E s \in 0..Len(c[i]) - 1 :
             l = Line(i, s) /\ l.at = Begin(c, i) + s
  BY ForwardIs
<1>3. PICK s \in 0..Len(c[i]) - 1 : l = Line(i, s) /\ l.at = Begin(c, i) + s
  BY <1>2
<1>4. c[i] \in Files /\ Len(c[i]) \in Nat
  BY <1>1, FileIs
<1>5. l.tok = SubSeq(c[i], s + 1, EndOfLine(c[i], s) - 1)
  BY <1>3, LineNext
<1>6. ASSUME NEW r \in Numbers, l.tok = Body(r)
      PROVE  BytesAt(c[i], s, r)
  <2>1. s \in Nat /\ s < Len(c[i])
    BY <1>4
  <2>2. LineAt(c[i], s, r)
    BY <1>4, <1>5, <1>6, <2>1, TokIsLine DEF Numbers
  <2> QED BY <2>2 DEF LineAt
<1> QED BY <1>3, <1>6 DEF Reads

LEMMA ForwardMarks ==
    ASSUME rotated \in Chains, active \in Files, gone \in Nat, Chain # <<>>,
           NEW o \in Nat, NEW m \in Marks, o + gone <= m.at
    PROVE  \E l \in ForwardLines(o) : l.at + gone = m.at /\ l.tok = Body(m.rec)
<1> DEFINE c == Chain
<1>1. c \in Chains
  BY ChainIs
<1>2. PICK i \in 1..Len(c) : \E s \in 0..Len(c[i]) - 1 :
             /\ m.at = gone + Begin(c, i) + s
             /\ LineStart(c[i], s) /\ LineAt(c[i], s, m.rec)
  BY MarkIs
<1>3. PICK s \in 0..Len(c[i]) - 1 :
             /\ m.at = gone + Begin(c, i) + s
             /\ LineStart(c[i], s) /\ LineAt(c[i], s, m.rec)
  BY <1>2
<1>4. c[i] \in Files /\ Len(c[i]) \in Nat /\ Begin(c, i) \in Nat
  BY <1>1, FileIs
<1>5. s \in Nat /\ s < Len(c[i]) /\ o <= Begin(c, i) + s /\ m.at = (Begin(c, i) + s) + gone
  BY <1>3, <1>4
<1>6. Line(i, s) \in ForwardLines(o)
  BY <1>3, <1>5, ForwardHas
<1>7. Line(i, s).at = Begin(c, i) + s /\ Line(i, s).tok = SubSeq(c[i], s + 1, EndOfLine(c[i], s) - 1)
  BY LineNext
<1>8. Line(i, s).tok = Body(m.rec)
  BY <1>3, <1>4, <1>5, <1>7, MarkIs, LineIsTok DEF Numbers
<1> QED BY <1>5, <1>6, <1>7, <1>8

LEMMA SoughtMatch ==
    ASSUME NEW r \in Sought
    PROVE  Match(Body(r)) /\ r \in Records /\ r \in Numbers
<1>1. r \in Matching /\ r \in Records /\ r \in Numbers
  BY RecordsAre DEF Sought
<1>2. 1 \in DOMAIN Body(r) /\ Body(r)[1] = r
  BY BodyIs
<1> QED BY <1>1, <1>2 DEF Match

\* What the answer to a poll is, if the poll begins where the cursor stands.
LEMMA ForwardAnswer ==
    ASSUME NEW p, DiskOK(p), Chain # <<>>, NEW o \in Nat
    PROVE  LET a == ReadForward(o)
               q == RowsOf(a.lines)
           IN  /\ Shows(View(p), q, gone)
               /\ a.first \in Nat /\ a.next \in Nat /\ o <= a.next
               /\ a.lines = <<>> => a.next = o
               /\ a.lines # <<>> => a.next <= TailOffset
               /\ Within(q, o, a.next)
               /\ Covers(View(p), q, gone, o, a.next)
<1> DEFINE a == ReadForward(o)
           q == RowsOf(a.lines)
           R == Range(a.lines)
<1>1. rotated \in Chains /\ active \in Files /\ gone \in Nat /\ TailOffset = Total(Chain)
  BY ChainIs DEF DiskOK
<1>2. /\ Spread(R) /\ R \subseteq ForwardLines(o)
      /\ a.first \in Nat /\ a.next \in Nat /\ o <= a.next
      /\ a.lines = <<>> => a.next = o
      /\ a.lines # <<>> => a.next <= Total(Chain)
      /\ \A l \in R : l.at < a.next
      /\ \A l \in ForwardLines(o) : (Match(l.tok) /\ l.at < a.next) => l \in R
  BY <1>1, ReadForwardIs
<1>3. \A l \in R : Reads(l)
  BY <1>1, <1>2, ForwardReads
<1>4. Shows(View(p), q, gone)
  BY <1>2, <1>3, LinesShow
<1>5. /\ \A i \in DOMAIN q : \E l \in R : l.at = q[i].at
      /\ \A l \in R, r \in Records : l.tok = Body(r) => \E i \in DOMAIN q : q[i].at = l.at
  BY <1>2, RowsOfIs
<1>6. \A l \in ForwardLines(o) : o <= l.at /\ l.at \in Nat
  BY <1>1, ForwardOrder
<1> HIDE DEF a, q, R
<1>7. Within(q, o, a.next)
  BY <1>2, <1>5, <1>6 DEF Within
<1>8. Covers(View(p), q, gone, o, a.next)
  <2> SUFFICES ASSUME NEW m \in Marks, m.rec \in Sought, o + gone <= m.at, m.at < a.next + gone
               PROVE  \E i \in DOMAIN q : q[i].at + gone = m.at
    BY ViewIs DEF Covers
  <2>1. PICK l \in ForwardLines(o) : l.at + gone = m.at /\ l.tok = Body(m.rec)
    BY <1>1, ForwardMarks
  <2>2. l.at < a.next
    BY <2>1, <1>1, <1>2, <1>6
  <2>3. l \in R
    BY <2>1, <2>2, <1>2, SoughtMatch
  <2>4. PICK i \in DOMAIN q : q[i].at = l.at
    BY <2>1, <2>3, <1>5, SoughtMatch
  <2> QED BY <2>1, <2>4
<1> QED BY <1>1, <1>2, <1>4, <1>7, <1>8 DEF a, q

-----------------------------------------------------------------------------
(* The same for a read backwards.                                          *)

\* Where ReadBackward() begins.
BackFrom(o) ==
    IF FileAt(o).at = 0 /\ FileAt(o).file > 1
    THEN [file |-> FileAt(o).file - 1, at |-> Len(Chain[FileAt(o).file - 1])]
    ELSE FileAt(o)

\* How much of the i-th file it reads, and the line at position s of that.
Part(i, o) == IF i = BackFrom(o).file THEN BackFrom(o).at ELSE Len(Chain[i])
FirstOf(i, b) == SubSeq(Chain[i], 1, b)
Token(f, s) == SubSeq(f, s + 1, EndOfLine(f, s) - 1)
BackLine(i, b, s) == [at |-> StartOf(i) + s, tok |-> Token(FirstOf(i, b), s)]
BackLines(o) ==
    UNION {LinesBefore(i, IF i = BackFrom(o).file THEN BackFrom(o).at
                          ELSE Len(Chain[i])) : i \in 1 .. BackFrom(o).file}

LEMMA BackFromIs ==
    ASSUME rotated \in Chains, active \in Files, Chain # <<>>, NEW o \in Nat
    PROVE  LET f == BackFrom(o)
           IN  /\ f.file \in 1..Len(Chain) /\ f.at \in 0..Len(Chain[f.file])
               /\ o < Total(Chain) => Begin(Chain, f.file) + f.at = o
               /\ o >= Total(Chain) => Begin(Chain, f.file) + f.at = Total(Chain)
<1> DEFINE c == Chain
           k == FileAt(o).file
           u == FileAt(o).at
<1>1. c \in Chains /\ Total(c) \in Nat /\ Len(c) \in Nat
  BY ChainIs DEF Chains
<1>2. /\ k \in 1..Len(c) /\ u \in 0..Len(c[k])
      /\ o < Total(c) => Begin(c, k) + u = o
      /\ o >= Total(c) => Begin(c, k) + u = Total(c)
  BY FileAtIs
<1>3. CASE u = 0 /\ k > 1
  <2>1. BackFrom(o) = [file |-> k - 1, at |-> Len(c[k - 1])]
    BY <1>3 DEF BackFrom
  <2> HIDE DEF c, k, u
  <2>2. k - 1 \in 1..Len(c)
    BY <1>1, <1>2, <1>3
  <2>3. Begin(c, k) = Begin(c, k - 1) + Len(c[k - 1])
    BY <1>1, <2>2, OffsetsStep DEF Begin
  <2>4. Len(c[k - 1]) \in Nat /\ Begin(c, k - 1) \in Nat /\ Begin(c, k) \in Nat
    BY <1>1, <1>2, <2>2, FileIs
  <2>5. Begin(c, k - 1) + Len(c[k - 1]) = Begin(c, k) + u
    BY <2>3, <2>4, <1>3
  <2>6. Len(c[k - 1]) \in 0..Len(c[k - 1])
    BY <2>4
  <2> DEFINE j == k - 1
  <2> HIDE DEF j
  <2>7. BackFrom(o).file = j /\ BackFrom(o).at = Len(c[j])
    BY <2>1 DEF j
  <2>8. j \in 1..Len(c) /\ Begin(c, j) + Len(c[j]) = Begin(c, k) + u /\ Len(c[j]) \in 0..Len(c[j])
    BY <2>2, <2>5, <2>6 DEF j
  <2> QED BY <2>7, <2>8, <1>2 DEF c
<1>4. CASE ~(u = 0 /\ k > 1)
  <2>1. BackFrom(o) = FileAt(o)
    BY <1>4 DEF BackFrom
  <2> QED BY <2>1, <1>2
<1> QED BY <1>3, <1>4

LEMMA LinesBeforeIs ==
    ASSUME NEW i, NEW b, NEW l
    PROVE  l \in LinesBefore(i, b) <=>
             \E s \in 0 .. b - 1 :
                (s = 0 \/ FirstOf(i, b)[s] = Newline) /\ l = BackLine(i, b, s)
  BY DEF LinesBefore, BackLine, FirstOf, Token

LEMMA BackLineIs ==
    ASSUME NEW i, NEW b, NEW s
    PROVE  /\ BackLine(i, b, s).at = StartOf(i) + s
           /\ BackLine(i, b, s).tok = Token(FirstOf(i, b), s)
  BY DEF BackLine

\* The first bytes of a file.
LEMMA PartIs ==
    ASSUME NEW f \in Files, NEW b \in 0..Len(f)
    PROVE  LET h == SubSeq(f, 1, b)
           IN  /\ h \in Files /\ Len(h) = b /\ \A j \in 1..b : h[j] = f[j]
<1>1. f \in Seq(Nat) /\ Len(f) \in Nat
  BY DEF Files
<1>2. \A j \in 1..b : j \in 1..Len(f) /\ f[j] \in Nat
  BY <1>1
<1> QED BY <1>1, <1>2 DEF Files

LEMMA BackIs ==
    ASSUME rotated \in Chains, active \in Files, Chain # <<>>, NEW o \in Nat,
           NEW l \in BackLines(o)
    PROVE  \E i \in 1..Len(Chain) : \E s \in 0..Len(Chain[i]) - 1 :
             /\ l = BackLine(i, Part(i, o), s) /\ l.at = Begin(Chain, i) + s
             /\ Part(i, o) \in 0..Len(Chain[i]) /\ s < Part(i, o)
             /\ l.at < o /\ l.at < Total(Chain)
             /\ LineStart(Chain[i], s)
<1> DEFINE c == Chain
           k == BackFrom(o).file
           u == BackFrom(o).at
<1>1. /\ c \in Chains /\ Total(c) \in Nat /\ Len(c) \in Nat
      /\ \A i : StartOf(i) = Begin(c, i)
  BY ChainIs DEF Chains
<1>2. /\ k \in 1..Len(c) /\ u \in 0..Len(c[k])
      /\ o < Total(c) => Begin(c, k) + u = o
      /\ o >= Total(c) => Begin(c, k) + u = Total(c)
  BY BackFromIs
<1>3. PICK i \in 1..k : l \in LinesBefore(i, Part(i, o))
  BY DEF BackLines, Part
<1> DEFINE b == Part(i, o)
<1>4. b = IF i = k THEN u ELSE Len(c[i])
  BY DEF Part
<1>5. PICK s \in 0 .. b - 1 :
            (s = 0 \/ FirstOf(i, b)[s] = Newline) /\ l = BackLine(i, b, s)
  BY <1>3, LinesBeforeIs
<1>6. l.at = Begin(c, i) + s
  <2>1. BackLine(i, b, s).at = StartOf(i) + s
    BY BackLineIs
  <2> HIDE DEF b
  <2> QED BY <2>1, <1>5, <1>1
<1> HIDE DEF c, k, u, b
<1>7. i \in 1..Len(c) /\ (i = k \/ i < k)
  BY <1>1, <1>2
<1>8. /\ c[i] \in Files /\ Len(c[i]) \in Nat /\ Begin(c, i) \in Nat
      /\ Begin(c, k) \in Nat /\ Len(c[k]) \in Nat
      /\ Begin(c, k) + Len(c[k]) <= Total(c)
      /\ Begin(c, i) + Len(c[i]) <= Total(c)
  BY <1>1, <1>2, <1>7, FileIs
<1>9. b \in 0..Len(c[i])
  BY <1>4, <1>8, <1>2
<1>10. s \in 0..Len(c[i]) - 1 /\ s < b /\ s \in Nat
  BY <1>9, <1>5, <1>8
<1>11. LineStart(c[i], s)
  <2>1. s # 0 => FirstOf(i, b)[s] = c[i][s]
    BY <1>8, <1>9, <1>10, PartIs DEF FirstOf, c
  <2> QED BY <2>1, <1>5 DEF LineStart
<1>12. i < k => Begin(c, i) + Len(c[i]) <= Begin(c, k)
  BY <1>1, <1>2, <1>7, LaterBegins
<1> DEFINE x == Begin(c, k)
           y == Begin(c, i)
           z == Len(c[i])
           t == Total(c)
<1>13. /\ x \in Nat /\ y \in Nat /\ z \in Nat /\ t \in Nat /\ y + z <= t /\ u \in Nat
       /\ (i < k => y + z <= x) /\ (i = k => x = y /\ b = u) /\ (i < k => b = z) /\ s < b /\ s < z
       /\ (o < t => x + u = o) /\ (o >= t => x + u = t) /\ s \in Nat /\ b \in Nat
  <2>1. u \in Nat /\ s < Len(c[i])
    BY <1>2, <1>8, <1>10
  <2>2. i < k => i # k
    BY <1>2
  <2> QED BY <1>1, <1>2, <1>4, <1>8, <1>9, <1>10, <1>12, <2>1, <2>2
<1>14. y + s < o /\ y + s < t
  <2> HIDE DEF x, y, z, t
  <2>1. y + s < x + u /\ y + s < t
    BY <1>13, <1>7
  <2>2. o < t \/ o >= t
    BY <1>13
  <2> QED BY <1>13, <2>1, <2>2
<1> QED BY <1>5, <1>6, <1>7, <1>9, <1>10, <1>11, <1>14 DEF c, b

LEMMA BackReads ==
    ASSUME rotated \in Chains, active \in Files, Chain # <<>>, NEW o \in Nat,
           NEW l \in BackLines(o)
    PROVE  Reads(l)
<1> DEFINE c == Chain
<1>1. c \in Chains
  BY ChainIs
<1>2. PICK i \in 1..Len(c) : \E s \in 0..Len(c[i]) - 1 :
             /\ l = BackLine(i, Part(i, o), s) /\ l.at = Begin(c, i) + s
             /\ Part(i, o) \in 0..Len(c[i]) /\ s < Part(i, o)
  BY BackIs
<1>3. PICK s \in 0..Len(c[i]) - 1 :
             /\ l = BackLine(i, Part(i, o), s) /\ l.at = Begin(c, i) + s
             /\ Part(i, o) \in 0..Len(c[i]) /\ s < Part(i, o)
  BY <1>2
<1> DEFINE b == Part(i, o)
           h == FirstOf(i, b)
<1>4. c[i] \in Files /\ Len(c[i]) \in Nat
  BY <1>1, FileIs
<1>5. h \in Files /\ Len(h) = b /\ \A j \in 1..b : h[j] = c[i][j]
  BY <1>3, <1>4, PartIs DEF FirstOf
<1>6. l.tok = Token(h, s)
  BY <1>3, BackLineIs
<1>7. s \in Nat /\ s < b /\ b \in Nat /\ b <= Len(c[i])
  BY <1>3, <1>4
<1> HIDE DEF h, b
<1>8. ASSUME NEW r \in Numbers, l.tok = Body(r)
      PROVE  BytesAt(c[i], s, r)
  <2>1. LineAt(h, s, r)
    BY <1>5, <1>6, <1>7, <1>8, TokIsLine DEF Numbers, Token
  <2> DEFINE n == Len(Body(r))
  <2>2. n \in Nat
    BY BodyIs
  <2>3. s + n <= b /\ \A j \in 1..n : h[s + j] = r
    BY <2>1, <1>5 DEF LineAt, BytesAt
  <2> HIDE DEF n
  <2>4. ASSUME NEW j \in 1..n PROVE c[i][s + j] = r
    <3>1. s + j \in 1..b
      BY <2>2, <2>3, <1>7
    <3> HIDE DEF c
    <3> QED BY <3>1, <2>3, <1>5
  <2>5. s + n <= Len(c[i])
    BY <2>2, <2>3, <1>4, <1>7
  <2> QED BY <2>4, <2>5 DEF BytesAt, n
<1> QED BY <1>3, <1>8 DEF Reads

\* No line that is a whole record before the offset is left out.
LEMMA BackMarks ==
    ASSUME rotated \in Chains, active \in Files, gone \in Nat, Chain # <<>>,
           NEW o \in Nat, NEW m \in Marks, m.at + Len(Body(m.rec)) <= o + gone
    PROVE  \E l \in BackLines(o) : l.at + gone = m.at /\ l.tok = Body(m.rec)
<1> DEFINE c == Chain
           k == BackFrom(o).file
           u == BackFrom(o).at
           r == m.rec
           n == Len(Body(r))
<1>1. /\ c \in Chains /\ Total(c) \in Nat /\ Len(c) \in Nat
      /\ \A i : StartOf(i) = Begin(c, i)
  BY ChainIs DEF Chains
<1>2. /\ k \in 1..Len(c) /\ u \in 0..Len(c[k])
      /\ o < Total(c) => Begin(c, k) + u = o
      /\ o >= Total(c) => Begin(c, k) + u = Total(c)
  BY BackFromIs
<1>a. PICK i \in 1..Len(c) : \E s \in 0..Len(c[i]) - 1 :
             /\ m.at = gone + Begin(c, i) + s
             /\ LineStart(c[i], s) /\ LineAt(c[i], s, r)
  BY MarkIs
<1>3. PICK s \in 0..Len(c[i]) - 1 :
             /\ m.at = gone + Begin(c, i) + s
             /\ LineStart(c[i], s) /\ LineAt(c[i], s, r)
  BY <1>a
<1>4. r \in Numbers /\ n \in Nat \ {0}
  <2>1. r \in Numbers
    BY MarkIs
  <2>2. n \in 1..2
    BY BodyIs
  <2> HIDE DEF n
  <2> QED BY <2>1, <2>2
<1> DEFINE b == Part(i, o)
<1>5. b = IF i = k THEN u ELSE Len(c[i])
  BY DEF Part
<1>6. m.at + n <= o + gone
  OBVIOUS
<1> HIDE DEF c, k, u, b, r, n
<1>7. /\ c[i] \in Files /\ Len(c[i]) \in Nat /\ Begin(c, i) \in Nat
      /\ Begin(c, k) \in Nat /\ Len(c[k]) \in Nat
      /\ Begin(c, i) + Len(c[i]) <= Total(c)
  BY <1>1, <1>2, FileIs
<1>8. /\ s + n <= Len(c[i]) /\ \A j \in 1..n : c[i][s + j] = r
      /\ s + n = Len(c[i]) \/ c[i][s + n + 1] = Newline
  BY <1>3 DEF LineAt, BytesAt, n
<1>9. k < i => Begin(c, k) + Len(c[k]) <= Begin(c, i)
  BY <1>1, <1>2, LaterBegins
<1> DEFINE x == Begin(c, k)
           y == Begin(c, i)
           z == Len(c[i])
           t == Total(c)
<1>10. /\ x \in Nat /\ y \in Nat /\ z \in Nat /\ t \in Nat /\ u \in Nat /\ s \in Nat /\ n \in Nat \ {0}
       /\ y + z <= t /\ (k < i => x + u <= y) /\ (i = k => x = y) /\ s + n <= z
       /\ (o < t => x + u = o) /\ (o >= t => x + u = t)
       /\ m.at = gone + y + s /\ m.at + n <= o + gone /\ gone \in Nat
  <2>1. u \in Nat /\ u <= Len(c[k]) /\ s \in Nat
    BY <1>2, <1>7, <1>3
  <2>2. k < i => x + u <= y
    BY <2>1, <1>9, <1>7
  <2> QED BY <1>1, <1>2, <1>3, <1>4, <1>6, <1>7, <1>8, <2>1, <2>2
<1>11. ~(k < i) /\ (i = k => s + n <= u)
  <2> HIDE DEF x, y, z, t
  <2>1. y + s + n <= o /\ y + s + n <= t
    BY <1>10
  <2>2. o < t \/ o >= t
    BY <1>10
  <2>3. y + s + n <= x + u
    BY <2>1, <2>2, <1>10
  <2> QED BY <2>3, <1>10
<1>12. b \in 0..z /\ s + n <= b /\ i \in 1..k
  <2>1. i \in 1..k
    BY <1>11, <1>2, <1>1
  <2>2. CASE i = k
    <3>1. b = u /\ b \in 0..z /\ s + n <= u
      BY <2>2, <1>5, <1>2, <1>11
    <3> QED BY <3>1, <2>1
  <2>3. CASE i # k
    <3>1. b = z
      BY <2>3, <1>5
    <3> HIDE DEF z
    <3> QED BY <3>1, <2>1, <1>10
  <2> QED BY <2>2, <2>3
<1> DEFINE h == FirstOf(i, b)
<1>13. h \in Files /\ Len(h) = b /\ \A j \in 1..b : h[j] = c[i][j]
  BY <1>12, <1>7, PartIs DEF FirstOf, c
<1> HIDE DEF h, x, y, z, t
<1>14. LineAt(h, s, r)
  <2>1. \A j \in 1..n : s + j \in 1..b
    BY <1>10, <1>12
  <2>2. \A j \in 1..n : h[s + j] = r
    BY <2>1, <1>13, <1>8
  <2>3. s + n = b \/ h[s + n + 1] = Newline
    <3>1. s + n # b => s + n + 1 \in 1..b /\ s + n # z
      BY <1>10, <1>12
    <3> QED BY <3>1, <1>13, <1>8 DEF z
  <2> QED BY <2>2, <2>3, <1>12, <1>13 DEF LineAt, BytesAt, n
<1>15. s \in Nat /\ s < Len(h) /\ s \in 0..b - 1
  BY <1>10, <1>12, <1>13
<1>16. Token(h, s) = Body(r)
  BY <1>4, <1>13, <1>14, <1>15, LineIsTok DEF Token, Numbers
<1>17. s = 0 \/ h[s] = Newline
  <2>1. s # 0 => s \in 1..b
    BY <1>15, <1>12
  <2> QED BY <2>1, <1>13, <1>3 DEF LineStart
<1>18. BackLine(i, b, s) \in LinesBefore(i, b)
  BY <1>15, <1>17, LinesBeforeIs DEF h
<1>19. BackLine(i, b, s) \in BackLines(o)
  BY <1>18, <1>12 DEF BackLines, Part, b, k
<1>20. BackLine(i, b, s).at = y + s /\ BackLine(i, b, s).tok = Body(r)
  BY <1>16, <1>1, BackLineIs DEF h, y
<1>21. y + s + gone = m.at
  BY <1>10
<1> QED BY <1>19, <1>20, <1>21 DEF r

LEMMA BackOrder ==
    ASSUME rotated \in Chains, active \in Files, Chain # <<>>, NEW o \in Nat
    PROVE  /\ Spread(BackLines(o))
           /\ \A l \in BackLines(o) : l.at \in Nat /\ l.at < o /\ l.at < Total(Chain)
<1> DEFINE c == Chain
<1>1. c \in Chains
  BY ChainIs
<1>2. ASSUME NEW l \in BackLines(o)
      PROVE  l.at \in Nat /\ l.at < o /\ l.at < Total(Chain)
  <2>1. PICK i \in 1..Len(c) : \E s \in 0..Len(c[i]) - 1 :
               l.at = Begin(c, i) + s /\ l.at < o /\ l.at < Total(Chain)
    BY BackIs
  <2>2. Begin(c, i) \in Nat /\ Len(c[i]) \in Nat
    BY <1>1, FileIs
  <2> QED BY <2>1, <2>2
<1>3. ASSUME NEW k \in BackLines(o), NEW l \in BackLines(o), k.at = l.at
      PROVE  k = l
  <2>1. PICK i \in 1..Len(c) : \E s \in 0..Len(c[i]) - 1 :
               k = BackLine(i, Part(i, o), s) /\ k.at = Begin(c, i) + s
    BY BackIs
  <2>2. PICK s \in 0..Len(c[i]) - 1 : k = BackLine(i, Part(i, o), s) /\ k.at = Begin(c, i) + s
    BY <2>1
  <2>3. PICK j \in 1..Len(c) : \E u \in 0..Len(c[j]) - 1 :
               l = BackLine(j, Part(j, o), u) /\ l.at = Begin(c, j) + u
    BY BackIs
  <2>4. PICK u \in 0..Len(c[j]) - 1 : l = BackLine(j, Part(j, o), u) /\ l.at = Begin(c, j) + u
    BY <2>3
  <2>5. Len(c[i]) \in Nat /\ Len(c[j]) \in Nat
    BY <1>1, FileIs
  <2>6. s \in Nat /\ u \in Nat /\ s < Len(c[i]) /\ u < Len(c[j])
    BY <2>5
  <2>7. i = j /\ s = u
    BY <1>1, <1>3, <2>2, <2>4, <2>6, PlaceUnique
  <2> QED BY <2>2, <2>4, <2>7
<1>4. Spread(BackLines(o))
  BY <1>2, <1>3 DEF Spread
<1> QED BY <1>2, <1>4

LEMMA ReverseIs ==
    ASSUME NEW S, NEW s \in Seq(S)
    PROVE  /\ Reverse(s) \in Seq(S) /\ Len(Reverse(s)) = Len(s)
           /\ \A i \in 1..Len(s) : Reverse(s)[i] = s[(Len(s) - i) + 1]
<1> DEFINE n == Len(s)
           t == Reverse(s)
<1>1. n \in Nat /\ \A i \in 1..n : s[i] \in S
  OBVIOUS
<1>2. t = [i \in 1..n |-> s[(n - i) + 1]]
  BY DEF Reverse
<1> HIDE DEF n, t
<1>3. \A i \in 1..n : (n - i) + 1 \in 1..n
  BY <1>1
<1>4. t \in [1..n -> S] /\ \A i \in 1..n : t[i] = s[(n - i) + 1]
  BY <1>1, <1>2, <1>3
<1>5. t \in Seq(S) /\ Len(t) = n
  BY <1>1, <1>4
<1> QED BY <1>4, <1>5 DEF n, t

\* ReadBackward() returns every line that matches from the place of the first one
\* to the offset, and no other.
LEMMA ReadBackwardIs ==
    ASSUME rotated \in Chains, active \in Files, Chain # <<>>,
           NEW o \in Nat, NEW since \in Nat
    PROVE  LET a == ReadBackward(o, since)
           IN  /\ Spread(Range(a.lines)) /\ Range(a.lines) \subseteq BackLines(o)
               /\ a.first \in Nat /\ a.next = o /\ a.first <= o
               /\ a.lines = <<>> => a.first = o
               /\ \A l \in Range(a.lines) : a.first <= l.at
               /\ a.lines # <<>> =>
                    /\ \E l \in BackLines(o) : l.at = a.first
                    /\ \A l \in BackLines(o) :
                         (Match(l.tok) /\ a.first <= l.at) => l \in Range(a.lines)
<1> DEFINE F == BackLines(o)
           S == {l \in F : l.at >= since /\ Match(l.tok)}
           s == InOrder(S)
           z == Len(s)
           w == Reverse(s)
           n == IF o = 0 \/ o <= since THEN 0 ELSE Collected(w)
           v == SubSeq(w, 1, n)
           y == Reverse(v)
           first == IF n = 0 THEN o ELSE w[n].at
<1>1. ReadBackward(o, since) = [lines |-> y, first |-> first, next |-> o]
  BY DEF ReadBackward, BackLines, BackFrom
<1>2. Spread(F) /\ \A l \in F : l.at \in Nat /\ l.at < o
  BY BackOrder
<1> HIDE DEF F
<1>3. Spread(S) /\ S \subseteq F
  BY <1>2 DEF Spread
<1>4. Lists(s, S)
  BY <1>3, InOrderLists
<1> HIDE DEF S, s
<1>5. s \in Seq(S) /\ z \in Nat /\ DOMAIN s = 1..z
  BY <1>4 DEF Lists
<1>6. w \in Seq(S) /\ Len(w) = z /\ \A i \in 1..z : w[i] = s[(z - i) + 1]
  BY <1>5, ReverseIs
<1> HIDE DEF w, z
<1>7. n \in 0..z
  <2>1. Collected(w) \in 0..z
    BY <1>6, CollectedIs
  <2> QED BY <2>1, <1>5
<1>8. \A i \in 1..z : s[i] \in F /\ s[i].at \in Nat /\ s[i].at < o /\ s[i].at >= since
  <2>1. \A i \in 1..z : s[i] \in S
    BY <1>5
  <2>2. \A l \in S : l \in F /\ l.at >= since
    BY DEF S
  <2> QED BY <2>1, <2>2, <1>2
<1>9. \A i, j \in 1..z : i < j => s[i].at < s[j].at
  BY <1>4, <1>5 DEF Lists
<1> HIDE DEF n
<1>10. v \in Seq(S) /\ Len(v) = n /\ \A i \in 1..n : i \in 1..z /\ v[i] = w[i]
  BY <1>5, <1>6, <1>7
<1> HIDE DEF v
<1>11. y \in Seq(S) /\ Len(y) = n /\ \A i \in 1..n : y[i] = v[(n - i) + 1]
  BY <1>10, ReverseIs
<1> HIDE DEF y
<1>12. \A i \in 1..n : (z - n) + i \in 1..z /\ y[i] = s[(z - n) + i]
  <2> SUFFICES ASSUME NEW i \in 1..n PROVE (z - n) + i \in 1..z /\ y[i] = s[(z - n) + i]
    OBVIOUS
  <2> DEFINE j == (n - i) + 1
  <2>1. j \in 1..n /\ (z - j) + 1 = (z - n) + i /\ (z - n) + i \in 1..z /\ j \in 1..z
    BY <1>5, <1>7
  <2>2. y[i] = v[j]
    BY <1>11
  <2> HIDE DEF j
  <2>3. y[i] = s[(z - j) + 1]
    BY <2>1, <2>2, <1>6, <1>10
  <2> QED BY <2>1, <2>3
<1>13. Range(y) = {y[i] : i \in 1..n}
  <2>1. DOMAIN y = 1..n
    BY <1>11, <1>7
  <2> QED BY <2>1 DEF Range
<1>14. Range(y) \subseteq F /\ Spread(Range(y))
  <2>1. Range(y) \subseteq F
    BY <1>13, <1>12, <1>8
  <2> QED BY <2>1, <1>2 DEF Spread
<1>15. (y = <<>>) <=> (n = 0)
  BY <1>11, <1>7
<1>16. CASE n = 0
  <2>1. first = o /\ Range(y) = {} /\ y = <<>>
    BY <1>16, <1>13, <1>15
  <2> HIDE DEF first
  <2>2. ReadBackward(o, since).lines = y /\ ReadBackward(o, since).next = o
        /\ ReadBackward(o, since).first = first
    BY <1>1
  <2> QED BY <2>2, <1>14, <2>1 DEF F
<1>17. CASE n # 0
  <2> DEFINE h == (z - n) + 1
  <2>1. n \in 1..z /\ 1 \in 1..n /\ h \in 1..z
    BY <1>17, <1>5, <1>7
  <2>2. first = s[h].at
    BY <2>1, <1>17, <1>6
  <2>3. s[h] \in F /\ s[h].at \in Nat /\ s[h].at < o /\ s[h].at >= since
    BY <2>1, <1>8
  <2> HIDE DEF first
  <2>4. \A l \in Range(y) : first <= l.at
    <3>1. ASSUME NEW i \in 1..n PROVE first <= y[i].at
      <4> DEFINE j == (z - n) + i
      <4>1. j \in 1..z /\ y[i] = s[j]
        BY <1>12
      <4>2. j = h \/ h < j
        BY <1>5, <1>7
      <4> HIDE DEF j, h
      <4> QED BY <4>1, <4>2, <2>1, <2>2, <2>3, <1>8, <1>9
    <3> QED BY <3>1, <1>13
  <2>5. ASSUME NEW l \in F, Match(l.tok), first <= l.at
        PROVE  l \in Range(y)
    <3>1. l.at \in Nat /\ l.at >= since
      BY <2>2, <2>3, <2>5, <1>2
    <3>2. l \in S
      BY <2>5, <3>1 DEF S
    <3>3. PICK j \in 1..z : s[j] = l
      BY <3>2, <1>4, <1>5 DEF Lists
    <3>4. ~(j < h)
      BY <3>3, <2>1, <2>2, <2>3, <2>5, <3>1, <1>9
    <3> DEFINE i == j - (z - n)
    <3>5. i \in 1..n /\ (z - n) + i = j
      BY <3>4, <1>5, <1>7
    <3>6. y[i] = s[j]
      BY <3>5, <1>12
    <3> HIDE DEF i
    <3> QED BY <3>3, <3>5, <3>6, <1>13
  <2>6. /\ ReadBackward(o, since).lines = y /\ ReadBackward(o, since).next = o
        /\ ReadBackward(o, since).first = first
    BY <1>1
  <2>7. y # <<>> /\ first \in Nat /\ first <= o
    BY <1>15, <1>17, <2>2, <2>3
  <2> HIDE DEF h
  <2> QED BY <2>2, <2>3, <2>4, <2>5, <2>6, <2>7, <1>14 DEF F
<1> QED BY <1>16, <1>17

\* What the answer to a request for an older page, or for the tail, is.
LEMMA BackwardAnswer ==
    ASSUME NEW p, DiskOK(p), Chain # <<>>, NEW o \in Nat, NEW since \in Nat
    PROVE  LET a == ReadBackward(o, since)
               q == RowsOf(a.lines)
           IN  /\ Shows(View(p), q, gone)
               /\ a.first \in Nat /\ a.next = o /\ a.first <= o
               /\ a.lines = <<>> => a.first = o
               /\ Within(q, a.first, o)
               /\ a.lines # <<>> =>
                    /\ Unbroken(View(p), a.first + gone)
                    /\ CoversTo(View(p), q, gone, a.first, o)
<1> DEFINE a == ReadBackward(o, since)
           q == RowsOf(a.lines)
           R == Range(a.lines)
           F == BackLines(o)
<1>1. rotated \in Chains /\ active \in Files /\ gone \in Nat /\ Chain \in Chains
  BY ChainIs DEF DiskOK
<1>2. /\ Spread(R) /\ R \subseteq F
      /\ a.first \in Nat /\ a.next = o /\ a.first <= o
      /\ a.lines = <<>> => a.first = o
      /\ \A l \in R : a.first <= l.at
      /\ a.lines # <<>> =>
           /\ \E l \in F : l.at = a.first
           /\ \A l \in F : (Match(l.tok) /\ a.first <= l.at) => l \in R
  BY <1>1, ReadBackwardIs
<1>3. \A l \in R : Reads(l)
  BY <1>1, <1>2, BackReads
<1>4. Shows(View(p), q, gone)
  BY <1>2, <1>3, LinesShow
<1>5. /\ \A i \in DOMAIN q : \E l \in R : l.at = q[i].at
      /\ \A l \in R, r \in Records : l.tok = Body(r) => \E i \in DOMAIN q : q[i].at = l.at
  BY <1>2, RowsOfIs
<1>6. \A l \in F : l.at < o /\ l.at \in Nat
  BY <1>1, BackOrder
<1> HIDE DEF a, q, R
<1>7. Within(q, a.first, o)
  BY <1>2, <1>5, <1>6 DEF Within
<1>8. ASSUME a.lines # <<>> PROVE Unbroken(View(p), a.first + gone)
  <2>1. PICK l \in F : l.at = a.first
    BY <1>2, <1>8
  <2>2. PICK i \in 1..Len(Chain) : \E s \in 0..Len(Chain[i]) - 1 :
              l.at = Begin(Chain, i) + s /\ LineStart(Chain[i], s)
    BY <1>1, BackIs
  <2>3. PICK s \in 0..Len(Chain[i]) - 1 : l.at = Begin(Chain, i) + s /\ LineStart(Chain[i], s)
    BY <2>2
  <2>4. Begin(Chain, i) \in Nat /\ Len(Chain[i]) \in Nat
    BY <1>1, FileIs
  <2>5. s \in Nat /\ s < Len(Chain[i])
    BY <2>4
  <2>6. Aligned(Chain, gone, gone + Begin(Chain, i) + s)
    BY <1>1, <2>3, <2>5, StartAligned
  <2>7. a.first + gone = gone + Begin(Chain, i) + s
    BY <1>1, <2>1, <2>3, <2>4, <2>5
  <2>8. Aligned(Chain, gone, a.first + gone)
    BY <2>6, <2>7
  <2> QED BY <2>8, ViewIs DEF Unbroken, Aligned, Marks
<1>9. ASSUME a.lines # <<>> PROVE CoversTo(View(p), q, gone, a.first, o)
  <2> SUFFICES ASSUME NEW m \in Marks, m.rec \in Sought, a.first + gone <= m.at,
                      m.at + Len(Body(m.rec)) <= o + gone
               PROVE  \E i \in DOMAIN q : q[i].at + gone = m.at
    BY ViewIs DEF CoversTo
  <2>1. PICK l \in F : l.at + gone = m.at /\ l.tok = Body(m.rec)
    BY <1>1, BackMarks
  <2>2. a.first <= l.at
    BY <2>1, <1>1, <1>2, <1>6
  <2>3. l \in R
    BY <2>1, <2>2, <1>2, <1>9, SoughtMatch
  <2>4. PICK i \in DOMAIN q : q[i].at = l.at
    BY <2>1, <2>3, <1>5, SoughtMatch
  <2> QED BY <2>1, <2>4
<1> QED BY <1>2, <1>4, <1>7, <1>8, <1>9 DEF a, q

-----------------------------------------------------------------------------
(* What is known of an answer from the moment the server gives it.         *)

\* A poll from offset o that does not begin at a clear beyond it.
PollOK(D, o, a) ==
    LET q == RowsOf(a.lines)
    IN  /\ o <= a.next
        /\ a.lines = <<>> => a.next = o
        /\ a.lines # <<>> => a.next <= a.tail
        /\ Within(q, o, a.next)
        /\ Covers(D, q, a.gone, o, a.next)

LoadOK(D, a) ==
    LET q == RowsOf(a.lines)
    IN  /\ a.first <= a.tail
        /\ a.first # 0 => Unbroken(D, a.first + a.gone)
        /\ Within(q, a.first, a.tail)
        /\ (a.first # 0 \/ q # <<>>) => Covers(D, q, a.gone, a.first, a.tail)

OlderOK(D, o, a) ==
    LET q == RowsOf(a.lines)
    IN  /\ a.first <= o
        /\ Unbroken(D, a.first + a.gone)
        /\ Within(q, a.first, o)
        /\ CoversTo(D, q, a.gone, a.first, o)

AnswerOK(D, dir, o, clear, a) ==
    /\ a.first \in Nat /\ a.next \in Nat /\ a.tail \in Nat /\ a.gone \in Nat
    /\ a.gone <= D.gone /\ a.tail + a.gone <= D.end
    /\ Shows(D, RowsOf(a.lines), a.gone)
    /\ (dir = "forward" /\ clear.at <= o) => PollOK(D, o, a)
    /\ dir = "tail" => LoadOK(D, a)
    /\ (dir = "backward" /\ a.lines # <<>> /\ o <= a.tail) => OlderOK(D, o, a)

LEMMA NoneShows == ASSUME NEW D, NEW g PROVE Shows(D, <<>>, g)
  BY DEF Shows

\* With nothing to read the answer is empty.
LEMMA EmptyAnswer ==
    ASSUME NEW D, Sound(D), NEW dir, NEW o \in Nat, NEW clear, NEW a,
           a.lines = <<>>, a.first = 0, a.next \in Nat, dir = "forward" => a.next = o,
           a.tail \in Nat, a.gone = D.gone, a.tail + a.gone = D.end
    PROVE  AnswerOK(D, dir, o, clear, a)
<1>1. RowsOf(a.lines) = <<>>
  BY NoRows
<1>2. D.gone \in Nat /\ D.end \in Nat /\ D.marks \subseteq [at : Nat, rec : Numbers]
  BY DEF Sound
<1>3. \A lo, hi : Within(<<>>, lo, hi)
  BY DEF Within
<1>4. dir = "forward" => Covers(D, <<>>, a.gone, o, a.next)
  <2> SUFFICES ASSUME a.next = o, NEW m \in D.marks, o + a.gone <= m.at, m.at < o + a.gone
               PROVE  FALSE
    BY DEF Covers
  <2>1. m.at \in Nat
    BY <1>2
  <2> QED BY <2>1, <1>2
<1>5. dir = "forward" => PollOK(D, o, a)
  BY <1>1, <1>3, <1>4 DEF PollOK
<1>6. LoadOK(D, a)
  BY <1>1, <1>3 DEF LoadOK
<1>7. Shows(D, RowsOf(a.lines), a.gone)
  BY <1>1, NoneShows
<1>8. a.gone <= D.gone /\ a.tail + a.gone <= D.end
  BY <1>2
<1> QED BY <1>2, <1>5, <1>6, <1>7, <1>8 DEF AnswerOK

\* The answer of the server, whatever the request.
LEMMA ServedAnswer ==
    ASSUME NEW p, DiskOK(p), NEW req, req.dir \in {"forward", "backward", "tail"},
           req.offset \in Nat, req.clear.at \in Nat
    PROVE  /\ AnswerOK(View(p), req.dir, req.offset, req.clear, Lines(req))
           /\ Lines(req).gone = gone /\ Lines(req).tail = TailOffset
<1> DEFINE D == View(p)
           o == IF req.dir = "tail" THEN TailOffset ELSE req.offset
           none == TailOffset = 0 \/ (req.clear.set /\ req.clear.at >= TailOffset)
           from == Max({o, req.clear.at})
           a == Lines(req)
<1>1. /\ rotated \in Chains /\ active \in Files /\ gone \in Nat /\ TailOffset \in Nat
      /\ TailOffset # 0 => Chain # <<>>
      /\ Sound(D) /\ End = gone + TailOffset /\ D.end = End /\ D.gone = gone
      /\ TailOffset = Total(Chain) /\ Chain \in Chains
  BY ChainIs, ViewSound, ViewIs DEF DiskOK, End
<1>2. o \in Nat
  BY <1>1
<1>3. a.tail = TailOffset /\ a.gone = gone
  BY DEF Lines
<1>4. a.tail \in Nat /\ a.gone \in Nat /\ a.tail + a.gone = D.end
  BY <1>1, <1>3
<1>5. a.gone <= D.gone /\ a.tail + a.gone <= D.end
  BY <1>1, <1>4, <1>3
<1>6. CASE none
  <2>1. a.lines = <<>> /\ a.first = 0 /\ a.next = o
    BY <1>6 DEF Lines
  <2> HIDE DEF a
  <2>2. AnswerOK(D, req.dir, req.offset, req.clear, a)
    <3>1. req.dir = "forward" => a.next = req.offset
      BY <2>1
    <3>2. a.next \in Nat /\ a.gone = D.gone
      BY <2>1, <1>1, <1>2, <1>3
    <3> HIDE DEF D
    <3> QED BY <2>1, <3>1, <3>2, <1>1, <1>4, EmptyAnswer
  <2> QED BY <2>2, <1>3 DEF a
<1>7. CASE ~none /\ req.dir = "forward"
  <2>1. Chain # <<>> /\ o = req.offset
    BY <1>1, <1>7
  <2>2. from \in {o, req.clear.at} /\ o <= from
    <3>1. {o, req.clear.at} \subseteq Nat /\ {o, req.clear.at} # {}
      BY <1>2
    <3> DEFINE b == o + req.clear.at
    <3>2. b \in Nat /\ \A y \in {o, req.clear.at} : y <= b
      BY <1>2
    <3> HIDE DEF b, o
    <3> QED BY <3>1, <3>2, MaxIs
  <2>3. from \in Nat /\ (req.clear.at <= req.offset => from = req.offset)
    BY <2>1, <2>2, <1>2
  <2> HIDE DEF from
  <2> DEFINE f == ReadForward(from)
  <2>4. a.lines = f.lines /\ a.first = f.first /\ a.next = f.next
    BY <1>7 DEF Lines, from
  <2> DEFINE q == RowsOf(f.lines)
  <2>5. /\ Shows(D, q, gone)
        /\ f.first \in Nat /\ f.next \in Nat /\ from <= f.next
        /\ f.lines = <<>> => f.next = from
        /\ f.lines # <<>> => f.next <= TailOffset
        /\ Within(q, from, f.next)
        /\ Covers(D, q, gone, from, f.next)
    BY <2>1, <2>3, ForwardAnswer
  <2> HIDE DEF a, f, q, D
  <2>6. RowsOf(a.lines) = q
    BY <2>4 DEF q
  <2>7. req.clear.at <= req.offset => PollOK(D, req.offset, a)
    BY <2>3, <2>4, <2>5, <2>6, <1>3 DEF PollOK
  <2>8. AnswerOK(D, req.dir, req.offset, req.clear, a)
    BY <2>4, <2>5, <2>6, <2>7, <1>3, <1>4, <1>5, <1>7 DEF AnswerOK
  <2> QED BY <2>8, <1>3 DEF a, D
<1>8. CASE ~none /\ req.dir # "forward"
  <2>1. Chain # <<>>
    BY <1>1, <1>8
  <2> DEFINE f == ReadBackward(o, req.clear.at)
             q == RowsOf(f.lines)
  <2>2. a.lines = f.lines /\ a.first = f.first /\ a.next = f.next
    BY <1>8 DEF Lines
  <2>3. /\ Shows(D, q, gone)
        /\ f.first \in Nat /\ f.next = o /\ f.first <= o
        /\ f.lines = <<>> => f.first = o
        /\ Within(q, f.first, o)
        /\ f.lines # <<>> => /\ Unbroken(D, f.first + gone)
                             /\ CoversTo(D, q, gone, f.first, o)
    BY <2>1, <1>2, BackwardAnswer
  <2>4. f.lines = <<>> => q = <<>>
    BY NoRows
  <2> HIDE DEF a, f, q
  <2>5. RowsOf(a.lines) = q
    BY <2>2 DEF q, f
  <2>6. ASSUME req.dir = "tail" PROVE LoadOK(D, a)
    <3>1. o = a.tail /\ o = TailOffset
      BY <2>6, <1>3
    <3>2. CASE f.lines = <<>>
      <4>1. a.first = a.tail /\ q = <<>>
        BY <3>1, <3>2, <2>2, <2>3, <2>4
      <4>2. Unbroken(D, a.first + a.gone)
        <5>1. Aligned(Chain, gone, gone + Total(Chain))
          BY <1>1, EndAligned
        <5>2. a.first + a.gone = gone + Total(Chain)
          BY <4>1, <1>1, <1>3
        <5> QED BY <5>1, <5>2, ViewIs DEF Unbroken, Aligned, Marks
      <4>3. Covers(D, q, a.gone, a.first, a.tail)
        <5> SUFFICES ASSUME NEW m \in D.marks, a.first + a.gone <= m.at, m.at < a.tail + a.gone
                     PROVE  FALSE
          BY DEF Covers
        <5>1. m.at \in Nat
          BY <1>1 DEF Sound
        <5> QED BY <5>1, <4>1, <1>4
      <4> QED BY <2>2, <2>3, <2>5, <3>1, <4>1, <4>2, <4>3 DEF LoadOK
    <3>3. CASE f.lines # <<>>
      <4>1. Covers(D, q, a.gone, a.first, a.tail)
        <5> SUFFICES ASSUME NEW m \in D.marks, m.rec \in Sought,
                            a.first + a.gone <= m.at, m.at < a.tail + a.gone
                     PROVE  \E i \in DOMAIN q : q[i].at + a.gone = m.at
          BY DEF Covers
        <5>1. m.at + Len(Body(m.rec)) <= o + gone
          BY <1>1, <1>3, <1>4, <3>1 DEF Sound
        <5> QED BY <5>1, <3>3, <2>2, <2>3, <1>3 DEF CoversTo
      <4> HIDE DEF D
      <4> QED BY <2>2, <2>3, <2>5, <3>1, <3>3, <4>1, <1>3 DEF LoadOK
    <3> QED BY <3>2, <3>3
  <2>7. (req.dir = "backward" /\ a.lines # <<>>) => OlderOK(D, req.offset, a)
    <3> HIDE DEF D
    <3> QED BY <2>2, <2>3, <2>5, <1>3 DEF OlderOK
  <2>8. a.first \in Nat /\ a.next \in Nat
    BY <2>2, <2>3, <1>2
  <2> HIDE DEF D
  <2>9. AnswerOK(D, req.dir, req.offset, req.clear, a)
    BY <2>3, <2>5, <2>6, <2>7, <2>8, <1>3, <1>4, <1>5, <1>8 DEF AnswerOK
  <2> QED BY <2>9, <1>3 DEF a, D
<1> QED BY <1>6, <1>7, <1>8

-----------------------------------------------------------------------------
(* What is known stays true while minilog goes on.                         *)

LEMMA UnbrokenLater ==
    ASSUME NEW D, NEW E, Sound(D), Sound(E), Later(D, E),
           NEW x \in Nat, x <= D.end, Unbroken(D, x)
    PROVE  Unbroken(E, x)
<1> SUFFICES ASSUME NEW m \in E.marks, m.at < x, x < m.at + Len(Body(m.rec))
             PROVE  FALSE
  BY DEF Unbroken
<1>1. m \notin D.marks
  BY DEF Unbroken
<1>2. m.at >= D.end /\ m.at \in Nat /\ D.end \in Nat
  BY <1>1 DEF Later, Sound
<1> QED BY <1>2

LEMMA ShowsLater ==
    ASSUME NEW D, NEW E, Sound(D), Sound(E), Later(D, E), NEW q, NEW g \in Nat,
           Shows(D, q, g)
    PROVE  Shows(E, q, g)
<1>1. q \in Seq(TableRows) /\ \A i, j \in DOMAIN q : i < j => q[i].at < q[j].at
  BY DEF Shows
<1>2. ASSUME NEW i \in DOMAIN q PROVE RowOK(E, q[i].at + g, q[i].rec)
  <2> DEFINE r == q[i].rec
             x == q[i].at + g
  <2>1. r \in 1..D.written /\ D.places[r] = x /\ Unbroken(D, x)
    BY DEF Shows, RowOK
  <2> HIDE DEF r, x
  <2>2. D.written \in Nat /\ E.written \in Nat /\ D.written <= E.written
    BY DEF Sound, Later
  <2>3. r \in 1..E.written /\ E.places[r] = x
    BY <2>1, <2>2 DEF Later
  <2>4. x \in Nat /\ x < D.end /\ D.end \in Nat
    BY <2>1 DEF Sound
  <2>5. Unbroken(E, x)
    BY <2>1, <2>4, UnbrokenLater
  <2> QED BY <2>3, <2>5 DEF RowOK, r, x
<1> QED BY <1>1, <1>2 DEF Shows

LEMMA CoversLater ==
    ASSUME NEW D, NEW E, Sound(D), Sound(E), Later(D, E), NEW q, NEW g \in Nat,
           NEW lo \in Nat, NEW hi \in Nat, lo < hi => hi + g <= D.end
    PROVE  /\ Covers(D, q, g, lo, hi) => Covers(E, q, g, lo, hi)
           /\ (lo < hi /\ CoversTo(D, q, g, lo, hi)) => CoversTo(E, q, g, lo, hi)
<1>1. ASSUME Covers(D, q, g, lo, hi), NEW m \in E.marks, m.rec \in Sought,
             lo + g <= m.at, m.at < hi + g
      PROVE  \E i \in DOMAIN q : q[i].at + g = m.at
  <2>1. m.at \in Nat /\ D.end \in Nat
    BY DEF Sound
  <2>2. m \in D.marks
    BY <1>1, <2>1 DEF Later
  <2> QED BY <1>1, <2>2 DEF Covers
<1>2. ASSUME lo < hi, CoversTo(D, q, g, lo, hi), NEW m \in E.marks, m.rec \in Sought,
             lo + g <= m.at, m.at + Len(Body(m.rec)) <= hi + g
      PROVE  \E i \in DOMAIN q : q[i].at + g = m.at
  <2>1. m.at \in Nat /\ D.end \in Nat /\ Len(Body(m.rec)) \in 1..2
    BY BodyIs DEF Sound
  <2> DEFINE n == Len(Body(m.rec))
  <2>2. m.at < D.end
    <3>1. n \in 1..2 /\ m.at + n <= hi + g
      BY <2>1, <1>2
    <3> HIDE DEF n
    <3> QED BY <3>1, <1>2, <2>1
  <2>3. m \in D.marks
    BY <2>1, <2>2 DEF Later
  <2> QED BY <1>2, <2>3 DEF CoversTo
<1> QED BY <1>1, <1>2 DEF Covers, CoversTo

LEMMA AnswerLater ==
    ASSUME NEW D, NEW E, Sound(D), Sound(E), Later(D, E),
           NEW dir, NEW o \in Nat, NEW clear, NEW a, AnswerOK(D, dir, o, clear, a)
    PROVE  AnswerOK(E, dir, o, clear, a)
<1> DEFINE q == RowsOf(a.lines)
<1>1. /\ a.first \in Nat /\ a.next \in Nat /\ a.tail \in Nat /\ a.gone \in Nat
      /\ a.gone <= D.gone /\ a.tail + a.gone <= D.end /\ Shows(D, q, a.gone)
  BY DEF AnswerOK
<1>2. /\ D.end \in Nat /\ E.end \in Nat /\ D.gone \in Nat /\ E.gone \in Nat
      /\ D.end <= E.end /\ D.gone <= E.gone
  BY DEF Sound, Later
<1>3. a.gone <= E.gone /\ a.tail + a.gone <= E.end
  BY <1>1, <1>2
<1>4. Shows(E, q, a.gone)
  BY <1>1, ShowsLater
<1> HIDE DEF q
<1>5. ASSUME PollOK(D, o, a) PROVE PollOK(E, o, a)
  <2>1. /\ o <= a.next /\ (a.lines = <<>> => a.next = o) /\ (a.lines # <<>> => a.next <= a.tail)
        /\ Within(q, o, a.next) /\ Covers(D, q, a.gone, o, a.next)
    BY <1>5 DEF PollOK, q
  <2>2. ASSUME o < a.next PROVE a.next + a.gone <= D.end
    <3>1. a.next <= a.tail
      BY <2>1, <2>2
    <3> DEFINE n == a.next
               t == a.tail
               g == a.gone
               e == D.end
    <3>2. n \in Nat /\ t \in Nat /\ g \in Nat /\ e \in Nat /\ n <= t /\ t + g <= e
      BY <3>1, <1>1, <1>2
    <3> HIDE DEF n, t, g, e
    <3>3. n + g <= e
      BY <3>2
    <3> QED BY <3>3 DEF n, g, e
  <2>3. Covers(E, q, a.gone, o, a.next)
    BY <2>1, <2>2, <1>1, CoversLater
  <2> QED BY <2>1, <2>3 DEF PollOK, q
<1>6. ASSUME LoadOK(D, a) PROVE LoadOK(E, a)
  <2>1. /\ a.first <= a.tail /\ (a.first # 0 => Unbroken(D, a.first + a.gone))
        /\ Within(q, a.first, a.tail)
        /\ (a.first # 0 \/ q # <<>>) => Covers(D, q, a.gone, a.first, a.tail)
    BY <1>6 DEF LoadOK, q
  <2>2. a.first + a.gone \in Nat /\ a.first + a.gone <= D.end
    BY <2>1, <1>1, <1>2
  <2>3. a.first # 0 => Unbroken(E, a.first + a.gone)
    BY <2>1, <2>2, UnbrokenLater
  <2>4. (a.first # 0 \/ q # <<>>) => Covers(E, q, a.gone, a.first, a.tail)
    BY <2>1, <1>1, CoversLater
  <2> QED BY <2>1, <2>3, <2>4 DEF LoadOK, q
<1>7. ASSUME OlderOK(D, o, a), o <= a.tail PROVE OlderOK(E, o, a)
  <2>1. /\ a.first <= o /\ Unbroken(D, a.first + a.gone)
        /\ Within(q, a.first, o) /\ CoversTo(D, q, a.gone, a.first, o)
    BY <1>7 DEF OlderOK, q
  <2>2. /\ a.first + a.gone \in Nat /\ a.first + a.gone <= D.end
        /\ o + a.gone <= D.end
    BY <2>1, <1>7, <1>1, <1>2
  <2>3. Unbroken(E, a.first + a.gone)
    BY <2>1, <2>2, UnbrokenLater
  <2>4. CoversTo(E, q, a.gone, a.first, o)
    <3>1. CASE a.first < o
      BY <3>1, <2>1, <2>2, <1>1, CoversLater
    <3>2. CASE ~(a.first < o)
      <4> SUFFICES ASSUME NEW m \in E.marks, a.first + a.gone <= m.at,
                          m.at + Len(Body(m.rec)) <= o + a.gone
                   PROVE  FALSE
        BY DEF CoversTo
      <4>1. m.at \in Nat /\ Len(Body(m.rec)) \in 1..2
        BY BodyIs DEF Sound
      <4> DEFINE n == Len(Body(m.rec))
             f == a.first
             g == a.gone
             w == m.at
      <4>2. n \in 1..2 /\ w + n <= o + g /\ f + g <= w
        BY <4>1
      <4>3. f \in Nat /\ g \in Nat /\ w \in Nat /\ o \in Nat /\ ~(f < o)
        BY <4>1, <3>2, <1>1
      <4> HIDE DEF n, f, g, w
      <4> QED BY <4>2, <4>3
    <3> QED BY <3>1, <3>2
  <2> QED BY <2>1, <2>3, <2>4 DEF OlderOK, q
<1> QED BY <1>1, <1>3, <1>4, <1>5, <1>6, <1>7 DEF AnswerOK, q

-----------------------------------------------------------------------------
(* Tables.                                                                 *)

\* The rows q are the records sought from lo to hi, and whole lines only.
TableOK(D, q, g, lo, hi) ==
    Shows(D, q, g) /\ Within(q, lo, hi) /\ Covers(D, q, g, lo, hi)

LEMMA EmptyTable ==
    ASSUME NEW D, Sound(D), NEW g \in Nat, NEW x \in Nat
    PROVE  TableOK(D, <<>>, g, x, x)
<1>1. Within(<<>>, x, x)
  BY DEF Within
<1>2. Covers(D, <<>>, g, x, x)
  <2> SUFFICES ASSUME NEW m \in D.marks, x + g <= m.at, m.at < x + g PROVE FALSE
    BY DEF Covers
  <2>1. m.at \in Nat
    BY DEF Sound
  <2> QED BY <2>1
<1> QED BY <1>1, <1>2, NoneShows DEF TableOK

\* A table and the one that goes on where it ends.
LEMMA JoinTables ==
    ASSUME NEW D, Sound(D), NEW g \in Nat, NEW lo \in Nat, NEW mid \in Nat, NEW hi \in Nat,
           NEW q, NEW t, TableOK(D, q, g, lo, mid), TableOK(D, t, g, mid, hi),
           lo <= mid, mid <= hi
    PROVE  TableOK(D, q \o t, g, lo, hi)
<1> DEFINE m == Len(q)
           n == Len(t)
           v == q \o t
<1>1. /\ q \in Seq(TableRows) /\ t \in Seq(TableRows)
      /\ \A i, j \in DOMAIN q : i < j => q[i].at < q[j].at
      /\ \A i, j \in DOMAIN t : i < j => t[i].at < t[j].at
      /\ \A i \in DOMAIN q : RowOK(D, q[i].at + g, q[i].rec)
      /\ \A i \in DOMAIN t : RowOK(D, t[i].at + g, t[i].rec)
      /\ \A i \in DOMAIN q : lo <= q[i].at /\ q[i].at < mid
      /\ \A i \in DOMAIN t : mid <= t[i].at /\ t[i].at < hi
      /\ Covers(D, q, g, lo, mid) /\ Covers(D, t, g, mid, hi)
  BY DEF TableOK, Shows, Within
<1>2. /\ m \in Nat /\ n \in Nat /\ DOMAIN q = 1..m /\ DOMAIN t = 1..n
      /\ \A i \in 1..m : q[i].at \in Nat
      /\ \A i \in 1..n : t[i].at \in Nat
  <2>1. m \in Nat /\ n \in Nat /\ DOMAIN q = 1..m /\ DOMAIN t = 1..n
    BY <1>1
  <2>2. \A i \in 1..m : q[i] \in TableRows
    BY <1>1
  <2>3. \A i \in 1..n : t[i] \in TableRows
    BY <1>1
  <2> QED BY <2>1, <2>2, <2>3 DEF TableRows
<1>3. /\ v \in Seq(TableRows) /\ DOMAIN v = 1..(m + n)
      /\ \A i \in 1..m : v[i] = q[i]
      /\ \A i \in 1..n : v[m + i] = t[i]
  BY <1>1, <1>2
<1> HIDE DEF v, m, n
<1>4. ASSUME NEW i \in 1..(m + n)
      PROVE  \/ i \in 1..m /\ v[i] = q[i]
             \/ i - m \in 1..n /\ v[i] = t[i - m] /\ i > m
  <2>1. i \in 1..m \/ (i - m \in 1..n /\ i = m + (i - m) /\ i > m)
    BY <1>2
  <2> QED BY <2>1, <1>3
<1>5. \A i \in 1..(m + n) : RowOK(D, v[i].at + g, v[i].rec) /\ lo <= v[i].at /\ v[i].at < hi
  <2> SUFFICES ASSUME NEW i \in 1..(m + n)
               PROVE  RowOK(D, v[i].at + g, v[i].rec) /\ lo <= v[i].at /\ v[i].at < hi
    OBVIOUS
  <2>1. CASE i \in 1..m /\ v[i] = q[i]
    <3>1. lo <= q[i].at /\ q[i].at < mid /\ q[i].at \in Nat /\ RowOK(D, q[i].at + g, q[i].rec)
      BY <2>1, <1>1, <1>2
    <3>2. q[i].at < hi
      BY <3>1
    <3> QED BY <2>1, <3>1, <3>2
  <2>2. CASE i - m \in 1..n /\ v[i] = t[i - m] /\ i > m
    <3> DEFINE k == i - m
    <3>1. mid <= t[k].at /\ t[k].at < hi /\ t[k].at \in Nat /\ RowOK(D, t[k].at + g, t[k].rec)
      BY <2>2, <1>1, <1>2
    <3>2. v[i] = t[k]
      BY <2>2
    <3> HIDE DEF k
    <3>3. lo <= t[k].at
      BY <3>1
    <3> QED BY <3>1, <3>2, <3>3
  <2> QED BY <2>1, <2>2, <1>4
<1>6. ASSUME NEW i \in 1..(m + n), NEW j \in 1..(m + n), i < j
      PROVE  v[i].at < v[j].at
  <2>1. CASE j \in 1..m /\ v[j] = q[j]
    <3>1. i \in 1..m
      BY <1>6, <2>1, <1>2
    <3> QED BY <3>1, <2>1, <1>1, <1>2, <1>3, <1>6
  <2>2. CASE j - m \in 1..n /\ v[j] = t[j - m] /\ j > m
    <3> DEFINE k == j - m
    <3>1. k \in 1..n /\ v[j] = t[k]
      BY <2>2
    <3>2. CASE i \in 1..m /\ v[i] = q[i]
      <4> HIDE DEF k
      <4>1. q[i].at < mid /\ mid <= t[k].at /\ q[i].at \in Nat /\ t[k].at \in Nat
        BY <3>1, <3>2, <1>1, <1>2
      <4>2. q[i].at < t[k].at
        BY <4>1
      <4> QED BY <4>2, <3>1, <3>2
    <3>3. CASE i - m \in 1..n /\ v[i] = t[i - m] /\ i > m
      <4> DEFINE l == i - m
      <4>1. l \in 1..n /\ v[i] = t[l] /\ l < k
        BY <3>3, <1>6, <1>2
      <4> HIDE DEF k, l
      <4> QED BY <4>1, <3>1, <1>1, <1>2
    <3> QED BY <3>2, <3>3, <1>4
  <2> QED BY <2>1, <2>2, <1>4
<1>7. Covers(D, v, g, lo, hi)
  <2> SUFFICES ASSUME NEW x \in D.marks, x.rec \in Sought, lo + g <= x.at, x.at < hi + g
               PROVE  \E i \in 1..(m + n) : v[i].at + g = x.at
    BY <1>3 DEF Covers
  <2>1. x.at \in Nat
    BY DEF Sound
  <2>2. CASE x.at < mid + g
    <3>1. PICK i \in 1..m : q[i].at + g = x.at
      BY <2>2, <1>1, <1>2 DEF Covers
    <3>2. i \in 1..(m + n) /\ v[i] = q[i]
      BY <1>2, <1>3
    <3> QED BY <3>1, <3>2
  <2>3. CASE ~(x.at < mid + g)
    <3>1. mid + g <= x.at
      BY <2>3, <2>1
    <3>2. PICK i \in 1..n : t[i].at + g = x.at
      BY <3>1, <1>1, <1>2 DEF Covers
    <3>3. m + i \in 1..(m + n) /\ v[m + i] = t[i]
      BY <1>2, <1>3
    <3> QED BY <3>2, <3>3
  <2> QED BY <2>2, <2>3
<1> QED BY <1>3, <1>5, <1>6, <1>7 DEF TableOK, Shows, Within, v

\* The end of a table from its b-th row on.
LEMMA TableEnd ==
    ASSUME NEW D, Sound(D), NEW g \in Nat, NEW lo \in Nat, NEW hi \in Nat,
           NEW q, TableOK(D, q, g, lo, hi), NEW b \in 1..Len(q)
    PROVE  LET t == SubSeq(q, b, Len(q))
           IN  /\ TableOK(D, t, g, q[b].at, hi) /\ t # <<>> /\ t[1] = q[b]
               /\ q[b].at \in Nat /\ q[b].at < hi /\ lo <= q[b].at
               /\ Unbroken(D, q[b].at + g)
<1> DEFINE n == Len(q)
           t == SubSeq(q, b, n)
           z == (n - b) + 1
<1>1. /\ q \in Seq(TableRows)
      /\ \A i, j \in DOMAIN q : i < j => q[i].at < q[j].at
      /\ \A i \in DOMAIN q : RowOK(D, q[i].at + g, q[i].rec)
      /\ \A i \in DOMAIN q : lo <= q[i].at /\ q[i].at < hi
      /\ Covers(D, q, g, lo, hi)
  BY DEF TableOK, Shows, Within
<1>2. n \in Nat /\ DOMAIN q = 1..n /\ \A i \in 1..n : q[i] \in TableRows /\ q[i].at \in Nat
  <2>1. n \in Nat /\ DOMAIN q = 1..n /\ \A i \in 1..n : q[i] \in TableRows
    BY <1>1
  <2>2. \A x \in TableRows : x.at \in Nat
    BY DEF TableRows
  <2> QED BY <2>1, <2>2
<1>4. b \in 1..n
  OBVIOUS
<1>3. t \in Seq(TableRows) /\ Len(t) = z /\ \A i \in 1..z : t[i] = q[(b + i) - 1]
  <2>1. b \in Nat /\ n \in Nat /\ b <= n /\ n <= Len(q) /\ 1 <= b /\ b <= n + 1
    BY <1>2, <1>4
  <2>2. \A i \in b..n : q[i] \in TableRows
    BY <1>2, <2>1
  <2>3. t \in Seq(TableRows) /\ Len(t) = z
    BY <2>1, <2>2, <1>1, SubSeqProperties
  <2>4. \A i \in 1..z : t[i] = q[(b + i) - 1]
    BY <2>1, <1>1
  <2> QED BY <2>3, <2>4
<1> HIDE DEF t, n
<1>5. z \in Nat \ {0} /\ \A i \in 1..z : (b + i) - 1 \in b..n /\ (b + i) - 1 \in 1..n
  BY <1>2, <1>4
<1>6. DOMAIN t = 1..z /\ t # <<>> /\ t[1] = q[b]
  <2>1. DOMAIN t = 1..z
    BY <1>3, <1>5
  <2>2. t # <<>>
    BY <1>3, <1>5
  <2>3. 1 \in 1..z /\ (b + 1) - 1 = b
    BY <1>5, <1>4, <1>2
  <2> QED BY <2>1, <2>2, <2>3, <1>3
<1> HIDE DEF z
<1>7. \A i \in b..n : i \in 1..n /\ q[b].at <= q[i].at
  <2> SUFFICES ASSUME NEW i \in b..n PROVE i \in 1..n /\ q[b].at <= q[i].at
    OBVIOUS
  <2>1. i \in 1..n /\ (i = b \/ b < i)
    BY <1>2, <1>4
  <2> QED BY <2>1, <1>1, <1>2, <1>4, SMTT(30)
<1>8. \A i \in 1..z : RowOK(D, t[i].at + g, t[i].rec) /\ q[b].at <= t[i].at /\ t[i].at < hi
  BY <1>3, <1>5, <1>7, <1>1, <1>2
<1>9. ASSUME NEW i \in 1..z, NEW j \in 1..z, i < j PROVE t[i].at < t[j].at
  <2> DEFINE k == (b + i) - 1
             l == (b + j) - 1
  <2>1. k \in 1..n /\ l \in 1..n /\ t[i] = q[k] /\ t[j] = q[l]
    BY <1>3, <1>5
  <2>2. k < l
    BY <1>4, <1>5, <1>9, <1>2
  <2> HIDE DEF k, l
  <2> QED BY <2>1, <2>2, <1>1, <1>2
<1>10. Covers(D, t, g, q[b].at, hi)
  <2> SUFFICES ASSUME NEW x \in D.marks, x.rec \in Sought, q[b].at + g <= x.at, x.at < hi + g
               PROVE  \E i \in 1..z : t[i].at + g = x.at
    BY <1>6 DEF Covers
  <2>1. x.at \in Nat /\ q[b].at \in Nat /\ lo <= q[b].at
    BY <1>1, <1>2, <1>4 DEF Sound
  <2>2. lo + g <= x.at
    BY <2>1
  <2>3. PICK k \in 1..n : q[k].at + g = x.at
    BY <2>2, <1>1, <1>2 DEF Covers
  <2>4. ~(k < b)
    <3>1. q[k].at \in Nat /\ q[b].at <= q[k].at
      BY <2>1, <2>3, <1>2
    <3>2. k < b => q[k].at < q[b].at
      BY <1>1, <1>2, <1>4
    <3> QED BY <3>1, <3>2, <2>1
  <2> DEFINE i == (k - b) + 1
  <2>5. i \in 1..z /\ (b + i) - 1 = k
    BY <2>4, <1>2, <1>4 DEF z
  <2> HIDE DEF i
  <2> QED BY <2>3, <2>5, <1>3
<1>11. q[b].at \in Nat /\ q[b].at < hi /\ lo <= q[b].at /\ Unbroken(D, q[b].at + g)
  BY <1>1, <1>2, <1>4 DEF RowOK
<1>12. TableOK(D, t, g, q[b].at, hi)
  BY <1>3, <1>6, <1>8, <1>9, <1>10 DEF TableOK, Shows, Within
<1> QED BY <1>6, <1>11, <1>12 DEF t, n

-----------------------------------------------------------------------------
(* The table of the page: the rows q between the two cursors of the page.  *)

\* Where the table begins: with an offset of 0 there is nothing above, or nothing
\* is known of it.
From(q, top, tail) ==
    IF top # 0 THEN top ELSE IF q # <<>> THEN q[1].at ELSE tail

PageTable(D, q, top, tail, g) ==
    /\ TableOK(D, q, g, From(q, top, tail), tail)
    /\ (q # <<>> \/ top # 0) => tail + g <= D.end
    /\ top # 0 => top <= tail /\ Unbroken(D, top + g)

LEMMA EmptyPage ==
    ASSUME NEW D, Sound(D), NEW tail \in Nat, NEW g \in Nat
    PROVE  PageTable(D, <<>>, 0, tail, g)
<1>1. From(<<>>, 0, tail) = tail
  BY DEF From
<1> QED BY <1>1, EmptyTable DEF PageTable

LEMMA FromIs ==
    ASSUME NEW q \in Seq(TableRows), NEW top \in Nat, NEW tail \in Nat
    PROVE  From(q, top, tail) \in Nat
<1>1. q # <<>> => 1 \in DOMAIN q
  OBVIOUS
<1>2. q # <<>> => q[1] \in TableRows
  BY <1>1
<1>3. \A x \in TableRows : x.at \in Nat
  BY DEF TableRows
<1> QED BY <1>2, <1>3 DEF From

\* A table whose cursor at the top is 0 begins with its first row.
LEMMA FromFirst ==
    ASSUME NEW D, Sound(D), NEW g \in Nat, NEW lo \in Nat, NEW hi \in Nat,
           NEW q, TableOK(D, q, g, lo, hi)
    PROVE  TableOK(D, q, g, From(q, 0, hi), hi)
<1>1. CASE q = <<>>
  BY <1>1, EmptyTable DEF From
<1>2. CASE q # <<>>
  <2>1. q \in Seq(TableRows)
    BY DEF TableOK, Shows
  <2>2. 1 \in 1..Len(q)
    BY <1>2, <2>1
  <2>3. TableOK(D, SubSeq(q, 1, Len(q)), g, q[1].at, hi)
    BY <2>2, TableEnd
  <2>4. SubSeq(q, 1, Len(q)) = q
    BY <2>1
  <2> QED BY <2>3, <2>4, <1>2 DEF From
<1> QED BY <1>1, <1>2

LEMMA PageLater ==
    ASSUME NEW D, NEW E, Sound(D), Sound(E), Later(D, E), NEW q, NEW top \in Nat,
           NEW tail \in Nat, NEW g \in Nat, PageTable(D, q, top, tail, g)
    PROVE  PageTable(E, q, top, tail, g)
<1> DEFINE lo == From(q, top, tail)
<1>1. /\ Shows(D, q, g) /\ Within(q, lo, tail) /\ Covers(D, q, g, lo, tail)
      /\ (q # <<>> \/ top # 0) => tail + g <= D.end
      /\ top # 0 => top <= tail /\ Unbroken(D, top + g)
  BY DEF PageTable, TableOK
<1>2. lo \in Nat
  BY <1>1, FromIs DEF Shows
<1>3. D.end \in Nat /\ E.end \in Nat /\ D.end <= E.end
  BY DEF Sound, Later
<1>4. lo < tail => tail + g <= D.end
  BY <1>1, <1>2 DEF From
<1> HIDE DEF lo
<1>5. Covers(E, q, g, lo, tail)
  BY <1>1, <1>2, <1>4, CoversLater
<1>6. Shows(E, q, g)
  BY <1>1, ShowsLater
<1>7. (q # <<>> \/ top # 0) => tail + g <= E.end
  BY <1>1, <1>3
<1>8. top # 0 => Unbroken(E, top + g)
  <2>1. top # 0 => top + g \in Nat /\ top + g <= D.end
    BY <1>1, <1>3
  <2> QED BY <2>1, <1>1, UnbrokenLater
<1> QED BY <1>1, <1>5, <1>6, <1>7, <1>8 DEF PageTable, TableOK, lo

\* The tables v, with or without its first rows, after the answer of a poll.
PollTables(D, v, top, a, g) ==
    /\ PageTable(D, v, top, a.next, g) /\ v \in Seq(TableRows)
    /\ a.lines # <<>> => \A b \in 1..Len(v) :
         /\ PageTable(D, SubSeq(v, b, Len(v)), v[b].at, a.next, g)
         /\ SubSeq(v, b, Len(v)) # <<>> /\ SubSeq(v, b, Len(v))[1] = v[b]

\* The rows of a poll are appended, and those above MAX_ROWS go.
LEMMA PollTable ==
    ASSUME NEW D, Sound(D), NEW q, NEW top \in Nat, NEW tail \in Nat, NEW g \in Nat,
           PageTable(D, q, top, tail, g),
           NEW a, a.next \in Nat, a.tail \in Nat, a.gone = g, a.tail + g <= D.end,
           Shows(D, RowsOf(a.lines), g), PollOK(D, tail, a)
    PROVE  PollTables(D, q \o RowsOf(a.lines), top, a, g)
<1> DEFINE t == RowsOf(a.lines)
           v == q \o t
           lo == From(q, top, tail)
           next == a.next
<1>1. /\ tail <= next /\ (a.lines = <<>> => next = tail) /\ (a.lines # <<>> => next <= a.tail)
      /\ TableOK(D, t, g, tail, next)
  BY DEF PollOK, TableOK
<1>2. /\ TableOK(D, q, g, lo, tail) /\ q \in Seq(TableRows)
      /\ (q # <<>> \/ top # 0) => tail + g <= D.end
      /\ top # 0 => top <= tail /\ Unbroken(D, top + g)
  BY DEF PageTable, TableOK, Shows
<1>3. a.lines = <<>> => t = <<>>
  BY NoRows
<1>4. D.end \in Nat /\ lo \in Nat
  BY <1>2, FromIs DEF Sound
<1> HIDE DEF t, next
<1>5. lo <= tail
  <2>1. CASE top = 0 /\ q # <<>>
    <3>1. lo = q[1].at /\ 1 \in DOMAIN q
      BY <2>1, <1>2 DEF From
    <3>2. q[1].at < tail
      BY <3>1, <1>2 DEF TableOK, Within
    <3> QED BY <3>1, <3>2, <1>4
  <2>2. CASE ~(top = 0 /\ q # <<>>)
    BY <2>2, <1>2 DEF From
  <2> QED BY <2>1, <2>2
<1>6. next \in Nat
  BY DEF next
<1> HIDE DEF lo
<1>7. TableOK(D, v, g, lo, next)
  BY <1>1, <1>2, <1>4, <1>5, <1>6, JoinTables
<1>8. v \in Seq(TableRows)
  BY <1>7 DEF TableOK, Shows
<1>9. TableOK(D, v, g, From(v, top, next), next)
  <2>1. CASE top # 0
    BY <2>1, <1>7 DEF From, lo
  <2>2. CASE top = 0
    BY <2>2, <1>4, <1>6, <1>7, FromFirst
  <2> QED BY <2>1, <2>2
<1>10. (v # <<>> \/ top # 0) => next + g <= D.end
  <2>1. CASE a.lines # <<>>
    BY <2>1, <1>1, <1>4, <1>6
  <2>2. CASE a.lines = <<>>
    <3>1. v = q /\ next = tail
      BY <2>2, <1>1, <1>2, <1>3
    <3> QED BY <3>1, <1>2
  <2> QED BY <2>1, <2>2
<1>11. PageTable(D, v, top, next, g)
  BY <1>1, <1>2, <1>6, <1>9, <1>10 DEF PageTable
<1> HIDE DEF v
<1>12. ASSUME a.lines # <<>>, NEW b \in 1..Len(v)
       PROVE  /\ PageTable(D, SubSeq(v, b, Len(v)), v[b].at, next, g)
              /\ SubSeq(v, b, Len(v)) # <<>> /\ SubSeq(v, b, Len(v))[1] = v[b]
  <2> DEFINE w == SubSeq(v, b, Len(v))
  <2>1. /\ TableOK(D, w, g, v[b].at, next) /\ w # <<>> /\ w[1] = v[b]
        /\ v[b].at \in Nat /\ v[b].at < next /\ Unbroken(D, v[b].at + g)
    BY <1>4, <1>6, <1>7, TableEnd, SMTT(30)
  <2> HIDE DEF w
  <2>2. From(w, v[b].at, next) = v[b].at
    BY <2>1 DEF From
  <2>3. next + g <= D.end
    BY <1>12, <1>1, <1>4, <1>6
  <2>4. v[b].at <= next
    BY <2>1, <1>6
  <2> QED BY <2>1, <2>2, <2>3, <2>4 DEF PageTable, w
<1> QED BY <1>8, <1>11, <1>12 DEF t, next, v, PollTables

\* The rows of an older page are put above.
LEMMA OlderTable ==
    ASSUME NEW D, Sound(D), NEW q, NEW top \in Nat, NEW tail \in Nat, NEW g \in Nat,
           PageTable(D, q, top, tail, g), top # 0,
           NEW a, a.first \in Nat, a.gone = g,
           Shows(D, RowsOf(a.lines), g), OlderOK(D, top, a)
    PROVE  PageTable(D, RowsOf(a.lines) \o q, a.first, tail, g)
<1> DEFINE t == RowsOf(a.lines)
           v == t \o q
           first == a.first
<1>1. /\ first <= top /\ Unbroken(D, first + g) /\ first \in Nat /\ D.end \in Nat
      /\ Shows(D, t, g) /\ Within(t, first, top) /\ CoversTo(D, t, g, first, top)
  BY DEF OlderOK, Sound
<1>2. /\ TableOK(D, q, g, top, tail) /\ tail + g <= D.end /\ top <= tail /\ Unbroken(D, top + g)
  BY DEF PageTable, From
<1> HIDE DEF t, first
<1>3. Covers(D, t, g, first, top)
  <2> SUFFICES ASSUME NEW m \in D.marks, m.rec \in Sought, first + g <= m.at, m.at < top + g
               PROVE  \E i \in DOMAIN t : t[i].at + g = m.at
    BY DEF Covers
  <2> DEFINE n == Len(Body(m.rec))
  <2>1. n \in 1..2 /\ m.at \in Nat
    BY BodyIs DEF Sound
  <2>2. ~(top + g < m.at + n)
    BY <1>2 DEF Unbroken
  <2> HIDE DEF n
  <2>3. m.at + n <= top + g
    BY <2>1, <2>2
  <2> QED BY <2>3, <1>1 DEF CoversTo, n
<1>4. TableOK(D, t, g, first, top)
  BY <1>1, <1>3 DEF TableOK
<1>5. TableOK(D, v, g, first, tail)
  BY <1>1, <1>2, <1>4, JoinTables
<1> HIDE DEF v
<1>6. TableOK(D, v, g, From(v, first, tail), tail)
  <2>1. CASE first # 0
    BY <2>1, <1>5 DEF From
  <2>2. CASE first = 0
    BY <2>2, <1>1, <1>5, FromFirst
  <2> QED BY <2>1, <2>2
<1>7. first <= tail
  BY <1>1, <1>2
<1>8. PageTable(D, v, first, tail, g)
  BY <1>1, <1>2, <1>6, <1>7 DEF PageTable
<1> QED BY <1>8 DEF v, t, first

\* The rows of a load are the table.
LEMMA LoadTable ==
    ASSUME NEW D, Sound(D),
           NEW a, a.first \in Nat, a.tail \in Nat, a.gone \in Nat, a.tail + a.gone <= D.end,
           Shows(D, RowsOf(a.lines), a.gone), LoadOK(D, a)
    PROVE  PageTable(D, RowsOf(a.lines), a.first, a.tail, a.gone)
<1> DEFINE t == RowsOf(a.lines)
<1>1. /\ a.first <= a.tail /\ (a.first # 0 => Unbroken(D, a.first + a.gone))
      /\ Shows(D, t, a.gone) /\ Within(t, a.first, a.tail)
      /\ (a.first # 0 \/ t # <<>>) => Covers(D, t, a.gone, a.first, a.tail)
  BY DEF LoadOK
<1> HIDE DEF t
<1>2. CASE a.first # 0
  BY <1>1, <1>2 DEF PageTable, TableOK, From, t
<1>3. CASE a.first = 0 /\ t # <<>>
  <2>1. TableOK(D, t, a.gone, a.first, a.tail)
    BY <1>1, <1>3 DEF TableOK
  <2>2. TableOK(D, t, a.gone, From(t, 0, a.tail), a.tail)
    BY <2>1, FromFirst
  <2> QED BY <2>2, <1>3 DEF PageTable, t
<1>4. CASE a.first = 0 /\ t = <<>>
  BY <1>4, EmptyPage DEF t
<1> QED BY <1>2, <1>3, <1>4

-----------------------------------------------------------------------------
(* The invariant.                                                          *)

Types ==
    /\ rows \in Seq(TableRows) /\ topOffset \in Nat /\ tailOffset \in Nat
    /\ base \in Nat /\ clearOffset.at \in Nat

DirOf(k) ==
    CASE k = "poll" -> "forward" [] k = "older" -> "backward" [] OTHER -> "tail"

\* The fields of a request, before and after its answer.
Shape(f) ==
    \/ /\ f.answered = FALSE
       /\ f = [dir |-> f.dir, offset |-> f.offset, clear |-> f.clear,
               stale |-> f.stale, answered |-> FALSE]
    \/ /\ f.answered = TRUE
       /\ f = [dir |-> f.dir, offset |-> f.offset, clear |-> f.clear,
               stale |-> f.stale, answered |-> TRUE, resp |-> f.resp]

FlightOK(D, f, dir) ==
    f # Idle =>
        /\ Shape(f) /\ f.dir = dir
        /\ f.offset \in Nat /\ f.clear.at \in Nat /\ f.stale \in BOOLEAN
        /\ f.answered = TRUE => AnswerOK(D, dir, f.offset, f.clear, f.resp)

Loading == \E l \in Loads : UnderWay(l)

\* A poll or an older page that is not out of date goes on from the cursors.
FlightsOK(D) ==
    /\ flights = [k \in Kinds |-> flights[k]]
    /\ \A k \in Kinds : FlightOK(D, flights[k], DirOf(k))
    /\ (Loading /\ UnderWay("poll")) => flights["poll"].stale = TRUE
    /\ (Loading /\ UnderWay("older")) => flights["older"].stale = TRUE
    /\ (UnderWay("poll") /\ flights["poll"].stale # TRUE)
          => flights["poll"].offset = tailOffset
    /\ UnderWay("older") => flights["older"].offset # 0

OlderAhead(D) ==
    LET f == flights["older"]
    IN  (f # Idle /\ f.stale # TRUE) =>
            /\ f.offset + base <= D.end
            /\ (f.answered = TRUE /\ f.resp.gone = base) => f.offset <= f.resp.tail

PageOK(D) ==
    exact =>
        /\ PageTable(D, rows, topOffset, tailOffset, base)
        /\ Loading => rows = <<>> /\ topOffset = 0
        /\ OlderAhead(D)

PageInv(D) == Types /\ FlightsOK(D) /\ PageOK(D)

\* The invariant: there are places for the records written, such that what is on
\* the disk, under way and in the table agrees with them.
Inv == \E p : DiskOK(p) /\ PageInv(View(p))

LEMMA InitInv == Init => Inv
<1> SUFFICES ASSUME Init PROVE Inv
  OBVIOUS
<1> DEFINE p == [r \in 1..0 |-> 0]
           D == View(p)
<1>1. Chain = <<>> /\ rotated = <<>> /\ active = <<>> /\ gone = 0 /\ written = 0
  BY DEF Init, Chain
<1>2. <<>> \in Chains /\ <<>> \in Files /\ Len(<<>>) = 0
  BY DEF Chains, Files
<1>3. TailOffset = 0
  BY <1>1, <1>2, OffsetsStep DEF TailOffset
<1>4. End = 0
  BY <1>1, <1>3 DEF End
<1>5. Placed(p, 0, 0)
  BY DEF Placed
<1>6. Holds(<<>>, 0, 0, p)
  BY <1>2 DEF Holds
<1> HIDE DEF p
<1>7. DiskOK(p)
  BY <1>1, <1>2, <1>4, <1>5, <1>6 DEF DiskOK
<1>8. Sound(D)
  BY <1>7, ViewSound
<1> HIDE DEF D
<1>9. /\ rows = <<>> /\ topOffset = 0 /\ tailOffset = 0 /\ base = 0 /\ clearOffset = NoClear
      /\ flights = [k \in Kinds |->
           IF k = "load"
           THEN [dir |-> "tail", offset |-> 0, clear |-> NoClear, stale |-> FALSE,
                 answered |-> FALSE]
           ELSE Idle]
  BY DEF Init, TailRequest
<1>10. Types
  BY <1>9 DEF Types, NoClear
<1>11. FlightsOK(D)
  <2>1. /\ flights["poll"] = Idle /\ flights["older"] = Idle /\ flights["reload"] = Idle
        /\ flights["again"] = Idle
        /\ flights["load"] = [dir |-> "tail", offset |-> 0, clear |-> NoClear,
                              stale |-> FALSE, answered |-> FALSE]
    BY <1>9 DEF Kinds
  <2>2. flights = [k \in Kinds |-> flights[k]]
    BY <1>9
  <2>3. FlightOK(D, flights["load"], DirOf("load"))
    BY <2>1 DEF FlightOK, Shape, DirOf, NoClear
  <2>4. \A k \in Kinds : FlightOK(D, flights[k], DirOf(k))
    BY <2>1, <2>3 DEF Kinds, FlightOK
  <2> QED BY <2>1, <2>2, <2>4 DEF FlightsOK, UnderWay
<1>12. PageOK(D)
  <2>1. PageTable(D, rows, topOffset, tailOffset, base)
    BY <1>8, <1>9, EmptyPage
  <2>2. flights["older"] = Idle
    BY <1>9 DEF Kinds
  <2> QED BY <1>9, <2>1, <2>2 DEF PageOK, OlderAhead
<1> QED BY <1>7, <1>10, <1>11, <1>12 DEF Inv, PageInv, D

-----------------------------------------------------------------------------
(* The steps.                                                              *)

LEMMA KindsAre ==
    /\ Kinds = {"poll", "older", "load", "again", "reload"}
    /\ Loads = {"load", "again", "reload"}
    /\ Loads \subseteq Kinds
    /\ DirOf("poll") = "forward" /\ DirOf("older") = "backward"
    /\ \A l \in Loads : DirOf(l) = "tail"
    /\ \A k \in Kinds : DirOf(k) \in {"forward", "backward", "tail"}
  BY DEF Kinds, Loads, DirOf

\* minilog writes, rotates, deletes.
LEMMA DiskInv ==
    ASSUME NEW D, NEW E, Sound(D), Sound(E), Later(D, E), PageInv(D), UNCHANGED page
    PROVE  PageInv(E)'
<1>1. /\ rows' = rows /\ topOffset' = topOffset /\ tailOffset' = tailOffset /\ base' = base
      /\ clearOffset' = clearOffset /\ flights' = flights /\ exact' = exact
  BY DEF page
<1>2. Types /\ Types'
  BY <1>1 DEF PageInv, Types
<1>3. ASSUME NEW k \in Kinds PROVE FlightOK(E, flights[k], DirOf(k))
  <2>1. FlightOK(D, flights[k], DirOf(k))
    BY DEF PageInv, FlightsOK
  <2> QED BY <2>1, AnswerLater DEF FlightOK
<1>4. FlightsOK(E)'
  <2>1. FlightsOK(E)
    BY <1>3 DEF PageInv, FlightsOK
  <2> QED BY <2>1, <1>1 DEF FlightsOK, Loading, UnderWay
<1>5. ASSUME exact PROVE PageTable(E, rows, topOffset, tailOffset, base)
  <2>1. PageTable(D, rows, topOffset, tailOffset, base)
    BY <1>5 DEF PageInv, PageOK
  <2> QED BY <2>1, <1>2, PageLater DEF Types
<1>6. ASSUME exact PROVE OlderAhead(E)
  <2> DEFINE f == flights["older"]
  <2> SUFFICES ASSUME f # Idle, f.stale # TRUE
               PROVE  /\ f.offset + base <= E.end
                      /\ (f.answered = TRUE /\ f.resp.gone = base) => f.offset <= f.resp.tail
    BY DEF OlderAhead
  <2>1. /\ f.offset + base <= D.end
        /\ (f.answered = TRUE /\ f.resp.gone = base) => f.offset <= f.resp.tail
    BY <1>6 DEF PageInv, PageOK, OlderAhead
  <2>2. f.offset \in Nat
    BY KindsAre DEF PageInv, FlightsOK, FlightOK
  <2>3. D.end \in Nat /\ E.end \in Nat /\ D.end <= E.end
    BY DEF Sound, Later
  <2> HIDE DEF f
  <2> QED BY <2>1, <2>2, <2>3, <1>2 DEF Types
<1>7. PageOK(E)
  BY <1>5, <1>6 DEF PageInv, PageOK
<1>8. PageOK(E)'
  BY <1>1, <1>7 DEF PageOK, Loading, UnderWay, OlderAhead
<1> QED BY <1>2, <1>4, <1>8 DEF PageInv

\* A request ends, with or without an answer.
LEMMA FlightEnds ==
    ASSUME NEW D, FlightsOK(D), NEW k \in Kinds, flights' = [flights EXCEPT ![k] = Idle],
           \/ k = "poll" \/ tailOffset' = tailOffset
           \/ UnderWay("poll") => flights["poll"].stale = TRUE
    PROVE  /\ FlightsOK(D)' /\ (Loading' => Loading)
           /\ flights'[k] = Idle /\ \A j \in Kinds : j # k => flights'[j] = flights[j]
<1>1. flights = [j \in Kinds |-> flights[j]]
  BY DEF FlightsOK
<1>2. flights'[k] = Idle /\ \A j \in Kinds : j # k => flights'[j] = flights[j]
  BY <1>1
<1>3. flights' = [j \in Kinds |-> flights'[j]]
  BY <1>1
<1>4. \A j \in Kinds : FlightOK(D, flights'[j], DirOf(j))
  BY <1>2 DEF FlightsOK, FlightOK
<1>5. \A j \in Kinds : UnderWay(j)' => UnderWay(j) /\ flights'[j] = flights[j] /\ j # k
  BY <1>2 DEF UnderWay
<1>6. Loading' => Loading
  BY <1>5, KindsAre DEF Loading
<1>7. "poll" \in Kinds /\ "older" \in Kinds
  BY KindsAre
<1>8. (Loading' /\ UnderWay("poll")') => flights'["poll"].stale = TRUE
  BY <1>5, <1>6, <1>7 DEF FlightsOK
<1>9. (Loading' /\ UnderWay("older")') => flights'["older"].stale = TRUE
  BY <1>5, <1>6, <1>7 DEF FlightsOK
<1>10. (UnderWay("poll")' /\ flights'["poll"].stale # TRUE)
          => flights'["poll"].offset = tailOffset'
  BY <1>5, <1>7 DEF FlightsOK
<1>11. UnderWay("older")' => flights'["older"].offset # 0
  BY <1>5, <1>7 DEF FlightsOK
<1>12. FlightsOK(D)'
  BY <1>3, <1>4, <1>8, <1>9, <1>10, <1>11 DEF FlightsOK
<1> QED BY <1>2, <1>6, <1>12

\* A request fails; nothing else changes but the counter and the timer.
LEMMA FailedStep ==
    ASSUME NEW D, PageInv(D), PollFailed \/ OlderFailed \/ (\E k \in Loads : LoadFailed(k))
    PROVE  PageInv(D)'
<1>1. PICK k \in Kinds : flights' = [flights EXCEPT ![k] = Idle]
  BY KindsAre DEF PollFailed, OlderFailed, LoadFailed
<1>2. /\ rows' = rows /\ topOffset' = topOffset /\ tailOffset' = tailOffset /\ base' = base
      /\ clearOffset' = clearOffset /\ exact' = exact
  BY DEF PollFailed, OlderFailed, LoadFailed
<1>3. /\ FlightsOK(D)' /\ (Loading' => Loading)
      /\ flights'[k] = Idle /\ \A j \in Kinds : j # k => flights'[j] = flights[j]
  BY <1>1, <1>2, FlightEnds DEF PageInv
<1>4. Types'
  BY <1>2 DEF PageInv, Types
<1>5. flights'["older"] = Idle \/ flights'["older"] = flights["older"]
  BY <1>3, KindsAre
<1>6. exact => OlderAhead(D)'
  BY <1>2, <1>5 DEF PageInv, PageOK, OlderAhead
<1>7. PageOK(D)'
  BY <1>2, <1>3, <1>6 DEF PageInv, PageOK
<1> QED BY <1>3, <1>4, <1>7 DEF PageInv

\* The fields of a request that begins.
LEMMA RequestIs ==
    ASSUME NEW dir, NEW o
    PROVE  LET f == Request(dir, o)
           IN  /\ f.dir = dir /\ f.offset = o /\ f.clear = clearOffset /\ f.answered = FALSE
               /\ f.stale \in BOOLEAN /\ (Loading => f.stale = TRUE)
               /\ f = [dir |-> dir, offset |-> o, clear |-> clearOffset,
                       stale |-> f.stale, answered |-> FALSE]
<1> DEFINE b == \E l \in Loads : UnderWay(l)
<1>1. Request(dir, o) = [dir |-> dir, offset |-> o, clear |-> clearOffset,
                         stale |-> b, answered |-> FALSE]
  BY DEF Request
<1>2. b \in BOOLEAN /\ (Loading => b = TRUE)
  BY DEF Loading
<1> HIDE DEF b
<1> QED BY <1>1, <1>2

\* A poll or an older page is asked for.
LEMMA BeginStep ==
    ASSUME NEW D, Sound(D), PageInv(D), PollTail \/ LoadOlder
    PROVE  PageInv(D)'
<1>1. /\ rows' = rows /\ topOffset' = topOffset /\ tailOffset' = tailOffset /\ base' = base
      /\ clearOffset' = clearOffset /\ exact' = exact
  BY DEF PollTail, LoadOlder
<1>2. Types /\ Types'
  BY <1>1 DEF PageInv, Types
<1>3. PICK k \in {"poll", "older"} :
         /\ ~UnderWay(k)
         /\ \/ k = "poll" /\ flights' = [flights EXCEPT ![k] = Request("forward", tailOffset)]
            \/ /\ k = "older" /\ flights' = [flights EXCEPT ![k] = Request("backward", topOffset)]
               /\ topOffset # 0
  <2>1. CASE PollTail
    BY <2>1 DEF PollTail, Polling
  <2>2. CASE LoadOlder
    BY <2>2 DEF LoadOlder
  <2> QED BY <2>1, <2>2
<1> DEFINE o == IF k = "poll" THEN tailOffset ELSE topOffset
           f == Request(DirOf(k), o)
<1>4. /\ flights' = [flights EXCEPT ![k] = f] /\ o \in Nat /\ k \in Kinds
      /\ (k = "poll" => o = tailOffset) /\ (k = "older" => o = topOffset)
  BY <1>2, <1>3, KindsAre DEF Types
<1> HIDE DEF o
<1>5. /\ f.dir = DirOf(k) /\ f.offset = o /\ f.clear = clearOffset /\ f.answered = FALSE
      /\ f.stale \in BOOLEAN /\ (Loading => f.stale = TRUE)
      /\ f = [dir |-> f.dir, offset |-> f.offset, clear |-> f.clear,
              stale |-> f.stale, answered |-> FALSE]
  <2>1. /\ f.dir = DirOf(k) /\ f.offset = o /\ f.clear = clearOffset /\ f.answered = FALSE
        /\ f.stale \in BOOLEAN /\ (Loading => f.stale = TRUE)
        /\ f = [dir |-> DirOf(k), offset |-> o, clear |-> clearOffset,
                stale |-> f.stale, answered |-> FALSE]
    BY RequestIs
  <2> HIDE DEF f
  <2> QED BY <2>1
<1> HIDE DEF f
<1>6. FlightOK(D, f, DirOf(k))
  BY <1>2, <1>4, <1>5 DEF FlightOK, Shape, Types
<1>7. flights = [j \in Kinds |-> flights[j]]
  BY DEF PageInv, FlightsOK
<1>8. flights'[k] = f /\ \A j \in Kinds : j # k => flights'[j] = flights[j]
  BY <1>4, <1>7
<1>9. flights' = [j \in Kinds |-> flights'[j]]
  BY <1>4, <1>7
<1>10. \A j \in Kinds : FlightOK(D, flights'[j], DirOf(j))
  BY <1>6, <1>8 DEF PageInv, FlightsOK
<1>11. Loading' <=> Loading
  BY <1>3, <1>8, KindsAre DEF Loading, UnderWay
<1>12. "poll" \in Kinds /\ "older" \in Kinds
  BY KindsAre
<1>13. (Loading' /\ UnderWay("poll")') => flights'["poll"].stale = TRUE
  BY <1>5, <1>8, <1>11, <1>12 DEF PageInv, FlightsOK, UnderWay
<1>14. (Loading' /\ UnderWay("older")') => flights'["older"].stale = TRUE
  BY <1>5, <1>8, <1>11, <1>12 DEF PageInv, FlightsOK, UnderWay
<1>15. (UnderWay("poll")' /\ flights'["poll"].stale # TRUE)
          => flights'["poll"].offset = tailOffset'
  BY <1>1, <1>4, <1>5, <1>8, <1>12 DEF PageInv, FlightsOK, UnderWay
<1>16. UnderWay("older")' => flights'["older"].offset # 0
  BY <1>3, <1>4, <1>5, <1>8, <1>12 DEF PageInv, FlightsOK, UnderWay
<1>17. FlightsOK(D)'
  BY <1>9, <1>10, <1>13, <1>14, <1>15, <1>16 DEF FlightsOK
<1>18. exact => OlderAhead(D)'
  <2>1. CASE k = "poll"
    BY <2>1, <1>1, <1>8, <1>12 DEF PageInv, PageOK, OlderAhead
  <2>2. CASE k = "older"
    <3>1. exact => topOffset + base <= D.end
      <4>1. D.end \in Nat /\ topOffset # 0
        BY <2>2, <1>3 DEF Sound
      <4>2. exact => topOffset <= tailOffset /\ tailOffset + base <= D.end
        BY <4>1 DEF PageInv, PageOK, PageTable
      <4> QED BY <4>1, <4>2, <1>2 DEF Types
    <3>2. flights'["older"].offset = topOffset /\ flights'["older"].answered = FALSE
      BY <2>2, <1>4, <1>5, <1>8
    <3> QED BY <3>1, <3>2, <1>1 DEF OlderAhead
  <2> QED BY <2>1, <2>2
<1>19. PageOK(D)'
  BY <1>1, <1>11, <1>18 DEF PageInv, PageOK
<1> QED BY <1>2, <1>17, <1>19 DEF PageInv

\* The server answers.
LEMMA ServeStep ==
    ASSUME NEW p, DiskOK(p), NEW D, D = View(p), PageInv(D), NEW k \in Kinds, Serve(k)
    PROVE  PageInv(D)'
<1> DEFINE r == flights[k]
           a == Lines(r)
           f == [dir |-> r.dir, offset |-> r.offset, clear |-> r.clear,
                 stale |-> r.stale, answered |-> TRUE, resp |-> a]
<1>1. /\ rows' = rows /\ topOffset' = topOffset /\ tailOffset' = tailOffset /\ base' = base
      /\ clearOffset' = clearOffset /\ exact' = exact
      /\ r # Idle /\ flights' = [flights EXCEPT ![k] = f]
  BY DEF Serve, UnderWay
<1>2. Types /\ Types'
  BY <1>1 DEF PageInv, Types
<1>3. /\ Shape(r) /\ r.dir = DirOf(k) /\ r.offset \in Nat /\ r.clear.at \in Nat
      /\ r.stale \in BOOLEAN /\ DirOf(k) \in {"forward", "backward", "tail"}
  BY <1>1, KindsAre DEF PageInv, FlightsOK, FlightOK
<1>4. AnswerOK(D, r.dir, r.offset, r.clear, a) /\ a.gone = gone /\ a.tail = TailOffset
  BY <1>3, ServedAnswer
<1> HIDE DEF r, a
<1>5. /\ f.dir = r.dir /\ f.offset = r.offset /\ f.clear = r.clear /\ f.stale = r.stale
      /\ f.answered = TRUE /\ f.resp = a
  OBVIOUS
<1>6. Shape(f)
  BY DEF Shape
<1>7. f # Idle
  <2>1. Idle.dir = "none"
    BY DEF Idle
  <2> QED BY <2>1, <1>5, <1>3
<1> HIDE DEF f
<1>8. FlightOK(D, f, DirOf(k))
  BY <1>3, <1>4, <1>5, <1>6 DEF FlightOK
<1>9. flights = [j \in Kinds |-> flights[j]]
  BY DEF PageInv, FlightsOK
<1>10. flights'[k] = f /\ \A j \in Kinds : j # k => flights'[j] = flights[j]
  BY <1>1, <1>9
<1>11. flights' = [j \in Kinds |-> flights'[j]]
  BY <1>1, <1>9
<1>12. \A j \in Kinds : FlightOK(D, flights'[j], DirOf(j))
  BY <1>8, <1>10 DEF PageInv, FlightsOK
<1>13. \A j \in Kinds : /\ UnderWay(j)' <=> UnderWay(j)
                        /\ flights'[j].stale = flights[j].stale
                        /\ flights'[j].offset = flights[j].offset
  BY <1>1, <1>5, <1>7, <1>10 DEF UnderWay, r
<1>14. "poll" \in Kinds /\ "older" \in Kinds /\ (Loading' <=> Loading)
  BY <1>13, KindsAre DEF Loading
<1>15. FlightsOK(D)'
  BY <1>1, <1>11, <1>12, <1>13, <1>14 DEF PageInv, FlightsOK
<1>16. exact => OlderAhead(D)'
  <2>1. CASE k # "older"
    BY <2>1, <1>1, <1>10, <1>14 DEF PageInv, PageOK, OlderAhead
  <2>2. CASE k = "older"
    <3> SUFFICES ASSUME exact, f.stale # TRUE
                 PROVE  f.offset + base <= D.end /\ (a.gone = base => f.offset <= a.tail)
      BY <2>2, <1>1, <1>5, <1>10 DEF OlderAhead
    <3>1. f.offset + base <= D.end
      BY <2>2, <1>1, <1>5 DEF PageInv, PageOK, OlderAhead, r
    <3>2. D.end = gone + TailOffset /\ TailOffset \in Nat /\ gone \in Nat
      BY ViewIs, ChainIs DEF End, DiskOK
    <3>3. a.gone = base => f.offset <= a.tail
      BY <3>1, <3>2, <1>2, <1>3, <1>4, <1>5 DEF Types
    <3> QED BY <3>1, <3>3
  <2> QED BY <2>1, <2>2
<1>17. PageOK(D)'
  BY <1>1, <1>14, <1>16 DEF PageInv, PageOK
<1> QED BY <1>2, <1>15, <1>17 DEF PageInv

\* A request comes to be out of date.
Outdated(f) == [f EXCEPT !.stale = TRUE]

LEMMA SetStale ==
    ASSUME NEW d, NEW o, NEW c, NEW s, NEW b, NEW x, NEW f,
           f = [dir |-> d, offset |-> o, clear |-> c, stale |-> s, answered |-> b]
    PROVE  [f EXCEPT !.stale = x]
             = [dir |-> d, offset |-> o, clear |-> c, stale |-> x, answered |-> b]
  OBVIOUS

LEMMA SetStaleAnswered ==
    ASSUME NEW d, NEW o, NEW c, NEW s, NEW b, NEW a, NEW x, NEW f,
           f = [dir |-> d, offset |-> o, clear |-> c, stale |-> s, answered |-> b,
                resp |-> a]
    PROVE  [f EXCEPT !.stale = x]
             = [dir |-> d, offset |-> o, clear |-> c, stale |-> x, answered |-> b,
                resp |-> a]
  OBVIOUS

LEMMA OutdatedIs ==
    ASSUME NEW D, NEW dir \in {"forward", "backward", "tail"}, NEW f, f # Idle,
           FlightOK(D, f, dir)
    PROVE  /\ FlightOK(D, Outdated(f), dir) /\ Outdated(f) # Idle
           /\ Outdated(f).stale = TRUE /\ Outdated(f).offset = f.offset
<1> DEFINE g == Outdated(f)
<1>1. Shape(f) /\ f.dir = dir /\ f.offset \in Nat /\ f.clear.at \in Nat
      /\ (f.answered = TRUE => AnswerOK(D, dir, f.offset, f.clear, f.resp))
  BY DEF FlightOK
<1>2. /\ g.dir = f.dir /\ g.offset = f.offset /\ g.clear = f.clear /\ g.stale = TRUE
      /\ g.answered = f.answered /\ (f.answered = TRUE => g.resp = f.resp) /\ Shape(g)
  <2>1. CASE f.answered = FALSE
    <3>1. f = [dir |-> f.dir, offset |-> f.offset, clear |-> f.clear,
               stale |-> f.stale, answered |-> FALSE]
      BY <2>1, <1>1 DEF Shape
    <3> DEFINE d == f.dir
               o == f.offset
               c == f.clear
               s == f.stale
    <3> HIDE DEF d, o, c, s
    <3>2. f = [dir |-> d, offset |-> o, clear |-> c, stale |-> s, answered |-> FALSE]
      BY <3>1 DEF d, o, c, s
    <3> DEFINE x == TRUE
               b == FALSE
    <3> HIDE DEF x, b
    <3>a. f = [dir |-> d, offset |-> o, clear |-> c, stale |-> s, answered |-> b]
      BY <3>2 DEF b
    <3>b. [f EXCEPT !.stale = x]
            = [dir |-> d, offset |-> o, clear |-> c, stale |-> x, answered |-> b]
      BY <3>a, SetStale
    <3>3. g = [dir |-> d, offset |-> o, clear |-> c, stale |-> TRUE, answered |-> FALSE]
      BY <3>b, Zenon DEF Outdated, x, b
    <3> HIDE DEF g
    <3>4. /\ g.dir = d /\ g.offset = o /\ g.clear = c /\ g.stale = TRUE /\ g.answered = FALSE
      BY <3>3
    <3>5. Shape(g)
      BY <3>3, <3>4 DEF Shape
    <3> QED BY <3>4, <3>5, <2>1 DEF d, o, c
  <2>2. CASE f.answered = TRUE
    <3>1. f = [dir |-> f.dir, offset |-> f.offset, clear |-> f.clear,
               stale |-> f.stale, answered |-> TRUE, resp |-> f.resp]
      BY <2>2, <1>1 DEF Shape
    <3> DEFINE d == f.dir
               o == f.offset
               c == f.clear
               s == f.stale
               a == f.resp
    <3> HIDE DEF d, o, c, s, a
    <3>2. f = [dir |-> d, offset |-> o, clear |-> c, stale |-> s, answered |-> TRUE, resp |-> a]
      BY <3>1 DEF d, o, c, s, a
    <3> DEFINE x == TRUE
               b == TRUE
    <3> HIDE DEF x, b
    <3>a. f = [dir |-> d, offset |-> o, clear |-> c, stale |-> s, answered |-> b, resp |-> a]
      BY <3>2 DEF b
    <3>b. [f EXCEPT !.stale = x]
            = [dir |-> d, offset |-> o, clear |-> c, stale |-> x, answered |-> b, resp |-> a]
      BY <3>a, SetStaleAnswered
    <3>3. g = [dir |-> d, offset |-> o, clear |-> c, stale |-> TRUE, answered |-> TRUE, resp |-> a]
      BY <3>b, Zenon DEF Outdated, x, b
    <3> HIDE DEF g
    <3>4. /\ g.dir = d /\ g.offset = o /\ g.clear = c /\ g.stale = TRUE /\ g.answered = TRUE
          /\ g.resp = a
      BY <3>3
    <3>5. Shape(g)
      BY <3>3, <3>4 DEF Shape
    <3> QED BY <3>4, <3>5, <2>2 DEF d, o, c, a
  <2> QED BY <2>1, <2>2, <1>1 DEF Shape
<1> HIDE DEF g
<1>3. g # Idle
  <2>1. Idle.dir = "none"
    BY DEF Idle
  <2> QED BY <2>1, <1>1, <1>2
<1>4. FlightOK(D, g, dir)
  BY <1>1, <1>2 DEF FlightOK
<1> QED BY <1>2, <1>3, <1>4 DEF g

\* A load begins: the table is empty, and what is under way is out of date.
LEMMA LoadBegins ==
    ASSUME NEW D, Sound(D), PageInv(D), NEW k \in Loads, NEW others,
           others = flights \/ others = [flights EXCEPT !["poll"] = Idle],
           BeginLoad(k, others), clearOffset'.at \in Nat,
           tailOffset' = tailOffset, base' = base
    PROVE  PageInv(D)'
<1> DEFINE f == [dir |-> "tail", offset |-> 0, clear |-> clearOffset', stale |-> FALSE,
                 answered |-> FALSE]
<1>1. rows' = <<>> /\ topOffset' = 0
  BY DEF BeginLoad
<1>2. Types /\ Types'
  BY <1>1 DEF PageInv, Types
<1>4. flights' = [q \in Kinds |-> IF q = k THEN f
                                 ELSE IF others[q] = Idle THEN Idle ELSE Outdated(others[q])]
  BY DEF BeginLoad, Outdated, TailRequest
<1>5. FlightOK(D, f, "tail")
  BY DEF FlightOK, Shape
<1> HIDE DEF f
<1>6. flights = [j \in Kinds |-> flights[j]] /\ "poll" \in Kinds /\ "older" \in Kinds
      /\ k # "poll" /\ k # "older" /\ DirOf(k) = "tail"
  BY KindsAre DEF PageInv, FlightsOK
<1>7. \A j \in Kinds : others[j] = Idle \/ others[j] = flights[j]
  BY <1>6
<1>8. flights' = [j \in Kinds |-> flights'[j]]
  BY <1>4
<1>9. ASSUME NEW j \in Kinds, j # k, flights'[j] # Idle
      PROVE  /\ FlightOK(D, flights'[j], DirOf(j)) /\ flights'[j].stale = TRUE
             /\ flights[j] # Idle /\ flights'[j].offset = flights[j].offset
  <2>1. flights'[j] = Outdated(flights[j]) /\ flights[j] # Idle
    BY <1>4, <1>7, <1>9
  <2>2. FlightOK(D, flights[j], DirOf(j)) /\ DirOf(j) \in {"forward", "backward", "tail"}
    BY KindsAre DEF PageInv, FlightsOK
  <2> DEFINE h == flights[j]
             d == DirOf(j)
  <2> HIDE DEF h, d
  <2>a. h # Idle /\ FlightOK(D, h, d) /\ d \in {"forward", "backward", "tail"}
    BY <2>1, <2>2 DEF h, d
  <2>b. FlightOK(D, Outdated(h), d) /\ Outdated(h).stale = TRUE /\ Outdated(h).offset = h.offset
    BY <2>a, OutdatedIs
  <2>3. /\ FlightOK(D, Outdated(flights[j]), DirOf(j))
        /\ Outdated(flights[j]).stale = TRUE
        /\ Outdated(flights[j]).offset = flights[j].offset
    BY <2>b DEF h, d
  <2> QED BY <2>1, <2>3
<1>10. \A j \in Kinds : FlightOK(D, flights'[j], DirOf(j))
  <2> SUFFICES ASSUME NEW j \in Kinds PROVE FlightOK(D, flights'[j], DirOf(j))
    OBVIOUS
  <2>1. CASE j = k
    BY <2>1, <1>4, <1>5, <1>6
  <2>2. CASE j # k /\ flights'[j] # Idle
    BY <2>2, <1>9
  <2>3. CASE flights'[j] = Idle
    BY <2>3 DEF FlightOK
  <2> QED BY <2>1, <2>2, <2>3
<1>11. UnderWay("poll")' => flights'["poll"].stale = TRUE
  BY <1>6, <1>9 DEF UnderWay
<1>12. UnderWay("older")' => flights'["older"].stale = TRUE /\ flights'["older"].offset # 0
  BY <1>6, <1>9 DEF UnderWay, PageInv, FlightsOK
<1>13. FlightsOK(D)'
  BY <1>8, <1>10, <1>11, <1>12 DEF FlightsOK
<1>14. OlderAhead(D)'
  BY <1>12 DEF OlderAhead, UnderWay
<1>15. PageTable(D, rows', topOffset', tailOffset', base')
  BY <1>1, <1>2, EmptyPage DEF Types
<1>16. PageOK(D)'
  BY <1>1, <1>14, <1>15 DEF PageOK
<1> QED BY <1>2, <1>13, <1>16 DEF PageInv

LEMMA LoadBeginsStep ==
    ASSUME NEW D, Sound(D), PageInv(D),
           PollRegressed \/ (\E k \in {"load", "again"}, reset \in BOOLEAN : UserLoads(k, reset))
    PROVE  PageInv(D)'
<1>1. "load" \in Loads /\ "again" \in Loads /\ "reload" \in Loads
  BY DEF Loads
<1>2. clearOffset.at \in Nat /\ NoClear.at \in Nat
  BY DEF PageInv, Types, NoClear
<1>3. CASE PollRegressed
  BY <1>1, <1>2, <1>3, LoadBegins DEF PollRegressed
<1>4. CASE \E k \in {"load", "again"}, reset \in BOOLEAN : UserLoads(k, reset)
  BY <1>1, <1>2, <1>4, LoadBegins DEF UserLoads
<1> QED BY <1>3, <1>4

\* The table is cleared by the user.
LEMMA ClearStep ==
    ASSUME NEW D, Sound(D), PageInv(D), ClearView
    PROVE  PageInv(D)'
<1>1. /\ rows' = <<>> /\ topOffset' = 0 /\ tailOffset' = tailOffset /\ base' = base /\ exact' = exact
      /\ clearOffset' = [set |-> TRUE, at |-> tailOffset]
  BY DEF ClearView
<1>2. Types /\ Types'
  BY <1>1 DEF PageInv, Types
<1>3. flights = [j \in Kinds |-> flights[j]] /\ "poll" \in Kinds /\ "older" \in Kinds
  BY KindsAre DEF PageInv, FlightsOK
<1>4. /\ flights' = [j \in Kinds |-> flights'[j]]
      /\ \A j \in Kinds : j # "older" => flights'[j] = flights[j]
      /\ flights'["older"] = IF UnderWay("older") THEN Outdated(flights["older"]) ELSE Idle
  <2>1. CASE UnderWay("older")
    <3>1. flights' = [flights EXCEPT !["older"] = Outdated(flights["older"])]
      BY <2>1 DEF ClearView, Outdated
    <3> QED BY <3>1, <2>1, <1>3
  <2>2. CASE ~UnderWay("older")
    BY <2>2, <1>3 DEF ClearView, UnderWay
  <2> QED BY <2>1, <2>2
<1>5. FlightOK(D, flights["older"], "backward")
  BY <1>3, KindsAre DEF PageInv, FlightsOK
<1>6. UnderWay("older") => /\ FlightOK(D, flights'["older"], "backward") /\ flights'["older"] # Idle
                           /\ flights'["older"].stale = TRUE
                           /\ flights'["older"].offset = flights["older"].offset
  <2> SUFFICES ASSUME UnderWay("older")
               PROVE  /\ FlightOK(D, Outdated(flights["older"]), "backward")
                      /\ Outdated(flights["older"]) # Idle
                      /\ Outdated(flights["older"]).stale = TRUE
                      /\ Outdated(flights["older"]).offset = flights["older"].offset
    BY <1>4
  <2>1. flights["older"] # Idle /\ "backward" \in {"forward", "backward", "tail"}
    BY DEF UnderWay
  <2> QED BY <2>1, <1>5, OutdatedIs
<1>7. UnderWay("older")' => UnderWay("older")
  BY <1>4 DEF UnderWay
<1>8. \A j \in Kinds : FlightOK(D, flights'[j], DirOf(j))
  <2>1. FlightOK(D, flights'["older"], "backward")
    BY <1>6, <1>7 DEF FlightOK, UnderWay
  <2> QED BY <2>1, <1>4, KindsAre DEF PageInv, FlightsOK
<1>9. Loading' <=> Loading
  BY <1>4, KindsAre DEF Loading, UnderWay
<1>10. FlightsOK(D)'
  BY <1>1, <1>3, <1>4, <1>6, <1>7, <1>8, <1>9 DEF PageInv, FlightsOK, UnderWay
<1>11. OlderAhead(D)'
  BY <1>6, <1>7 DEF OlderAhead, UnderWay
<1>12. PageTable(D, rows', topOffset', tailOffset', base')
  BY <1>1, <1>2, EmptyPage DEF Types
<1>13. PageOK(D)'
  BY <1>1, <1>11, <1>12 DEF PageOK
<1> QED BY <1>2, <1>10, <1>13 DEF PageInv

-----------------------------------------------------------------------------
(* The answers.                                                            *)

LEMMA AnswerIs ==
    ASSUME NEW D, PageInv(D), NEW k \in Kinds, UnderWay(k), flights[k].answered
    PROVE  LET f == flights[k]
               a == f.resp
           IN  /\ AnswerOK(D, DirOf(k), f.offset, f.clear, a)
               /\ f.offset \in Nat /\ f.clear.at \in Nat
               /\ f.answered = TRUE /\ (f.stale = TRUE \/ f.stale = FALSE)
               /\ a.first \in Nat /\ a.next \in Nat /\ a.tail \in Nat /\ a.gone \in Nat
               /\ a.tail + a.gone <= D.end
               /\ Shows(D, RowsOf(a.lines), a.gone) /\ RowsOf(a.lines) \in Seq(TableRows)
<1> DEFINE f == flights[k]
           a == f.resp
<1>1. f # Idle /\ FlightOK(D, f, DirOf(k)) /\ f.answered
  BY DEF PageInv, FlightsOK, UnderWay
<1> HIDE DEF f
<1>2. Shape(f) /\ f.offset \in Nat /\ f.clear.at \in Nat /\ f.stale \in BOOLEAN
      /\ (f.answered = TRUE => AnswerOK(D, DirOf(k), f.offset, f.clear, a))
  BY <1>1 DEF FlightOK
<1>3. f.answered = TRUE
  BY <1>1, <1>2 DEF Shape
<1>4. AnswerOK(D, DirOf(k), f.offset, f.clear, a)
  BY <1>2, <1>3
<1>5. f.stale = TRUE \/ f.stale = FALSE
  BY <1>2
<1> HIDE DEF a
<1>6. /\ a.first \in Nat /\ a.next \in Nat /\ a.tail \in Nat /\ a.gone \in Nat
      /\ a.tail + a.gone <= D.end /\ Shows(D, RowsOf(a.lines), a.gone)
  BY <1>4 DEF AnswerOK
<1>7. RowsOf(a.lines) \in Seq(TableRows)
  BY <1>6 DEF Shows
<1> QED BY <1>2, <1>3, <1>4, <1>5, <1>6, <1>7 DEF f, a

\* What is known of an answer that does not blur the table.
LEMMA BlursIs ==
    ASSUME NEW D, PageInv(D), NEW k \in Kinds, UnderWay(k), flights[k].answered, ~Blurs(k)
    PROVE  LET f == flights[k]
           IN  /\ f.stale # TRUE
               /\ \A l \in Loads \ {k} : ~UnderWay(l)
               /\ k \notin Loads => f.resp.gone = base
               /\ k = "poll" => f.clear.at <= f.offset
               /\ k = "older" => f.resp.lines = <<>> \/ f.offset = topOffset
<1> DEFINE f == flights[k]
<1>1. f.stale = FALSE /\ (k = "poll" => ~(f.clear.at > f.offset))
  BY AnswerIs DEF Blurs
<1>2. f.clear.at \in Nat /\ f.offset \in Nat
  BY AnswerIs
<1>3. /\ (\A l \in Loads \ {k} : ~UnderWay(l)) /\ (k \notin Loads => f.resp.gone = base)
      /\ k = "older" => f.resp.lines = <<>> \/ f.offset = topOffset
  BY DEF Blurs
<1> HIDE DEF f
<1>4. k = "poll" => f.clear.at <= f.offset
  BY <1>1, <1>2
<1>5. f.stale # TRUE
  BY <1>1
<1> QED BY <1>3, <1>4, <1>5 DEF f

LEMMA EmptyJoin ==
    ASSUME NEW q \in Seq(TableRows)
    PROVE  <<>> \o q = q /\ q \o <<>> = q
  OBVIOUS

LEMMA JoinRows ==
    ASSUME NEW q \in Seq(TableRows), NEW t \in Seq(TableRows)
    PROVE  q \o t \in Seq(TableRows)
  OBVIOUS

\* The answer of a load.
LEMMA LoadAnsweredStep ==
    ASSUME NEW D, Sound(D), PageInv(D), NEW k \in Loads, LoadAnswered(k)
    PROVE  PageInv(D)'
<1> DEFINE f == flights[k]
           a == f.resp
           t == RowsOf(a.lines)
<1>1. /\ UnderWay(k) /\ flights[k].answered /\ tailOffset' = a.tail /\ topOffset' = a.first
      /\ rows' = rows \o t /\ base' = a.gone /\ exact' = (exact /\ ~Blurs(k))
      /\ flights' = [flights EXCEPT ![k] = Idle] /\ clearOffset' = clearOffset
  BY DEF LoadAnswered
<1>2. k \in Kinds /\ DirOf(k) = "tail"
  BY KindsAre
<1>3. /\ AnswerOK(D, "tail", f.offset, f.clear, a)
      /\ a.first \in Nat /\ a.next \in Nat /\ a.tail \in Nat /\ a.gone \in Nat
      /\ a.tail + a.gone <= D.end /\ Shows(D, t, a.gone) /\ t \in Seq(TableRows)
  BY <1>1, <1>2, AnswerIs
<1>4. Loading
  BY <1>1 DEF Loading
<1>5. /\ (UnderWay("poll") => flights["poll"].stale = TRUE)
      /\ (UnderWay("older") => flights["older"].stale = TRUE)
  BY <1>4 DEF PageInv, FlightsOK
<1>6. /\ FlightsOK(D)' /\ (Loading' => Loading)
      /\ flights'[k] = Idle /\ \A j \in Kinds : j # k => flights'[j] = flights[j]
  BY <1>1, <1>2, <1>5, FlightEnds DEF PageInv
<1>7. LoadOK(D, a)
  BY <1>3 DEF AnswerOK
<1> HIDE DEF t, a, f
<1>8. rows \in Seq(TableRows) /\ clearOffset.at \in Nat
  BY DEF PageInv, Types
<1>9. Types'
  BY <1>1, <1>3, <1>8, JoinRows DEF Types
<1>10. ASSUME exact' PROVE PageTable(D, rows', topOffset', tailOffset', base')
  <2>1. rows = <<>>
    BY <1>10, <1>1, <1>4 DEF PageInv, PageOK
  <2>2. rows' = t
    BY <2>1, <1>1, <1>3, EmptyJoin
  <2>3. PageTable(D, t, a.first, a.tail, a.gone)
    BY <1>3, <1>7, LoadTable DEF t
  <2> QED BY <2>2, <2>3, <1>1
<1>11. ASSUME exact' PROVE ~Loading'
  <2>1. \A l \in Loads \ {k} : ~UnderWay(l)
    BY <1>11, <1>1, <1>2, BlursIs
  <2> QED BY <2>1, <1>6, KindsAre DEF Loading, UnderWay
<1>12. OlderAhead(D)'
  BY <1>5, <1>6, <1>2, KindsAre DEF OlderAhead, UnderWay
<1>13. PageOK(D)'
  BY <1>10, <1>11, <1>12 DEF PageOK
<1> QED BY <1>6, <1>9, <1>13 DEF PageInv

\* The answer of an older page.
LEMMA OlderAnsweredStep ==
    ASSUME NEW D, Sound(D), PageInv(D), OlderAnswered
    PROVE  PageInv(D)'
<1> DEFINE f == flights["older"]
           a == f.resp
           t == RowsOf(a.lines)
<1>1. /\ UnderWay("older") /\ flights["older"].answered
      /\ topOffset' = (IF a.lines # <<>> THEN a.first ELSE topOffset)
      /\ rows' = t \o rows
      /\ exact' = (exact /\ ~Blurs("older"))
      /\ flights' = [flights EXCEPT !["older"] = Idle] /\ clearOffset' = clearOffset
      /\ tailOffset' = tailOffset /\ base' = base
  BY DEF OlderAnswered
<1>2. "older" \in Kinds /\ DirOf("older") = "backward" /\ "older" \notin Loads
  BY KindsAre
<1>3. /\ AnswerOK(D, "backward", f.offset, f.clear, a) /\ f.offset \in Nat
      /\ f.answered = TRUE
      /\ a.first \in Nat /\ a.next \in Nat /\ a.tail \in Nat /\ a.gone \in Nat
      /\ a.tail + a.gone <= D.end /\ Shows(D, t, a.gone) /\ t \in Seq(TableRows)
  BY <1>1, <1>2, AnswerIs
<1>4. /\ FlightsOK(D)' /\ (Loading' => Loading)
      /\ flights'["older"] = Idle /\ \A j \in Kinds : j # "older" => flights'[j] = flights[j]
  BY <1>1, <1>2, FlightEnds DEF PageInv
<1>5. f.offset # 0
  BY <1>1 DEF PageInv, FlightsOK
<1>6. exact' => /\ exact /\ f.stale # TRUE /\ a.gone = base /\ ~Loading
                /\ (a.lines = <<>> \/ f.offset = topOffset)
  BY <1>1, <1>2, BlursIs DEF Loading
<1>7. exact' => f.offset <= a.tail
  BY <1>1, <1>3, <1>6 DEF PageInv, PageOK, OlderAhead, UnderWay
<1>8. a.lines = <<>> => t = <<>>
  BY NoRows
<1> HIDE DEF t, a, f
<1>9. rows \in Seq(TableRows) /\ clearOffset.at \in Nat /\ topOffset \in Nat /\ tailOffset \in Nat
      /\ base \in Nat
  BY DEF PageInv, Types
<1>10. Types'
  <2>1. topOffset' \in Nat
    BY <1>1, <1>3, <1>9
  <2> QED BY <2>1, <1>1, <1>3, <1>9, JoinRows DEF Types
<1>11. ASSUME exact' PROVE PageTable(D, rows', topOffset', tailOffset', base')
  <2>1. PageTable(D, rows, topOffset, tailOffset, base)
    BY <1>11, <1>6 DEF PageInv, PageOK
  <2>2. CASE a.lines = <<>>
    <3>1. rows' = rows /\ topOffset' = topOffset
      BY <2>2, <1>1, <1>8, <1>9, EmptyJoin
    <3> QED BY <3>1, <2>1, <1>1
  <2>3. CASE a.lines # <<>>
    <3>1. OlderOK(D, topOffset, a) /\ topOffset # 0
      BY <2>3, <1>11, <1>3, <1>5, <1>6, <1>7 DEF AnswerOK
    <3>2. Shows(D, RowsOf(a.lines), base) /\ a.gone = base /\ a.first \in Nat
      BY <1>11, <1>3, <1>6 DEF t
    <3>3. PageTable(D, RowsOf(a.lines) \o rows, a.first, tailOffset, base)
      BY <2>1, <3>1, <3>2, <1>9, OlderTable
    <3> QED BY <3>3, <2>3, <1>1 DEF t
  <2> QED BY <2>2, <2>3
<1>12. exact' => ~Loading'
  BY <1>4, <1>6
<1>13. OlderAhead(D)'
  BY <1>4 DEF OlderAhead
<1>14. PageOK(D)'
  BY <1>11, <1>12, <1>13 DEF PageOK
<1> QED BY <1>4, <1>10, <1>14 DEF PageInv

\* The answer of a poll.
LEMMA PollAnsweredStep ==
    ASSUME NEW D, Sound(D), PageInv(D), PollAnswered
    PROVE  PageInv(D)'
<1> DEFINE f == flights["poll"]
           a == f.resp
           t == RowsOf(a.lines)
           v == rows \o t
           prunes == a.lines # <<>> /\ Len(v) > MaxRows
           b == Max({1, Len(v) - MaxRows + 1})
<1>1. /\ UnderWay("poll") /\ flights["poll"].answered
      /\ tailOffset' = a.next /\ base' = a.gone
      /\ rows' = (IF prunes THEN SubSeq(v, b, Len(v)) ELSE v)
      /\ topOffset' = (IF prunes THEN rows'[1].at ELSE topOffset)
      /\ exact' = (exact /\ ~Blurs("poll"))
      /\ flights' = [flights EXCEPT !["poll"] = Idle] /\ clearOffset' = clearOffset
  BY DEF PollAnswered, Advanced, Pruned
<1>2. "poll" \in Kinds /\ DirOf("poll") = "forward" /\ "poll" \notin Loads
  BY KindsAre
<1>3. /\ AnswerOK(D, "forward", f.offset, f.clear, a) /\ f.offset \in Nat
      /\ a.first \in Nat /\ a.next \in Nat /\ a.tail \in Nat /\ a.gone \in Nat
      /\ a.tail + a.gone <= D.end /\ Shows(D, t, a.gone) /\ t \in Seq(TableRows)
  BY <1>1, <1>2, AnswerIs
<1>4. /\ FlightsOK(D)' /\ (Loading' => Loading)
      /\ flights'["poll"] = Idle /\ \A j \in Kinds : j # "poll" => flights'[j] = flights[j]
  BY <1>1, <1>2, FlightEnds DEF PageInv
<1>5. exact' => /\ exact /\ f.stale # TRUE /\ a.gone = base /\ ~Loading
                /\ f.clear.at <= f.offset
  BY <1>1, <1>2, BlursIs DEF Loading
<1>6. exact' => f.offset = tailOffset
  BY <1>1, <1>5 DEF PageInv, FlightsOK
<1>7. rows \in Seq(TableRows) /\ clearOffset.at \in Nat /\ topOffset \in Nat /\ tailOffset \in Nat
      /\ base \in Nat
  BY DEF PageInv, Types
<1> HIDE DEF t, a, f
<1>8. v \in Seq(TableRows) /\ Len(v) \in Nat
  BY <1>3, <1>7, JoinRows
<1> HIDE DEF v
<1>9. MaxRows \in Nat \ {0}
  BY PositiveLimits
<1>10. prunes => b \in 1..Len(v)
  <2> DEFINE n == Len(v)
  <2>1. n \in Nat
    BY <1>8
  <2> SUFFICES ASSUME n > MaxRows PROVE Max({1, n - MaxRows + 1}) \in 1..n
    OBVIOUS
  <2> HIDE DEF n
  <2>2. n - MaxRows + 1 \in 1..n /\ n - MaxRows + 1 >= 1
    BY <2>1, <1>9
  <2>3. \E m \in {1, n - MaxRows + 1} : \A j \in {1, n - MaxRows + 1} : j <= m
    BY <2>2, <2>1, <1>9
  <2>4. Max({1, n - MaxRows + 1}) \in {1, n - MaxRows + 1}
    BY <2>3 DEF Max
  <2> QED BY <2>4, <2>2, <2>1
<1> HIDE DEF b
<1>11. prunes => /\ rows' = SubSeq(v, b, Len(v)) /\ rows' \in Seq(TableRows) /\ rows'[1] = v[b]
                 /\ v[b] \in TableRows /\ topOffset' = v[b].at
  <2> SUFFICES ASSUME prunes
               PROVE  /\ rows' = SubSeq(v, b, Len(v)) /\ rows' \in Seq(TableRows)
                      /\ rows'[1] = v[b] /\ v[b] \in TableRows /\ topOffset' = v[b].at
    OBVIOUS
  <2>1. b \in 1..Len(v)
    BY <1>10
  <2>2. rows' = SubSeq(v, b, Len(v)) /\ topOffset' = rows'[1].at
    BY <1>1
  <2>3. SubSeq(v, b, Len(v)) \in Seq(TableRows) /\ SubSeq(v, b, Len(v))[1] = v[b]
        /\ v[b] \in TableRows
    BY <2>1, <1>8
  <2> QED BY <2>2, <2>3
<1>12. ~prunes => rows' = v /\ topOffset' = topOffset
  BY <1>1
<1>13. Types'
  <2>1. \A x \in TableRows : x.at \in Nat
    BY DEF TableRows
  <2>2. rows' \in Seq(TableRows) /\ topOffset' \in Nat
    BY <2>1, <1>7, <1>8, <1>11, <1>12
  <2> QED BY <2>2, <1>1, <1>3, <1>7 DEF Types
<1>14. ASSUME exact' PROVE PageTable(D, rows', topOffset', tailOffset', base')
  <2>1. PageTable(D, rows, topOffset, tailOffset, base)
    BY <1>14, <1>5 DEF PageInv, PageOK
  <2>2. PollOK(D, tailOffset, a)
    BY <1>14, <1>3, <1>5, <1>6 DEF AnswerOK
  <2>3. Shows(D, RowsOf(a.lines), base) /\ a.gone = base /\ a.tail + base <= D.end
    BY <1>14, <1>3, <1>5 DEF t
  <2>4. PollTables(D, rows \o RowsOf(a.lines), topOffset, a, base)
    BY <2>1, <2>2, <2>3, <1>3, <1>7, PollTable
  <2>5. /\ PageTable(D, v, topOffset, a.next, base)
        /\ a.lines # <<>> => \A j \in 1..Len(v) :
                 PageTable(D, SubSeq(v, j, Len(v)), v[j].at, a.next, base)
    BY <2>4 DEF v, t, PollTables
  <2>6. CASE prunes
    <3>1. PageTable(D, SubSeq(v, b, Len(v)), v[b].at, a.next, base)
      BY <2>5, <2>6, <1>10
    <3>2. rows' = SubSeq(v, b, Len(v)) /\ topOffset' = v[b].at /\ tailOffset' = a.next
          /\ base' = base
      BY <2>3, <2>6, <1>1, <1>11
    <3> QED BY <3>1, <3>2
  <2>7. CASE ~prunes
    <3>1. rows' = v /\ topOffset' = topOffset /\ tailOffset' = a.next /\ base' = base
      BY <2>3, <2>7, <1>1, <1>12
    <3> QED BY <3>1, <2>5
  <2> QED BY <2>6, <2>7
<1>15. exact' => ~Loading'
  BY <1>4, <1>5
<1>16. exact' => OlderAhead(D)'
  <2>1. flights'["older"] = flights["older"]
    BY <1>4, KindsAre
  <2>2. exact' => exact /\ base' = base
    BY <1>1, <1>5
  <2> QED BY <2>1, <2>2 DEF PageInv, PageOK, OlderAhead
<1>17. PageOK(D)'
  BY <1>14, <1>15, <1>16 DEF PageOK
<1> QED BY <1>4, <1>13, <1>17 DEF PageInv

-----------------------------------------------------------------------------
(* The theorem.                                                            *)

LEMMA ViewNext ==
    ASSUME NEW p, NEW E, DiskOK(p)', View(p)' = E, PageInv(E)'
    PROVE  Inv'
<1>1. FlightsOK(View(p))'
  BY DEF PageInv, FlightsOK
<1>2. PageOK(View(p))'
  BY DEF PageInv, PageOK, OlderAhead
<1>3. PageInv(View(p))'
  BY <1>1, <1>2 DEF PageInv
<1> QED BY <1>3 DEF Inv

LEMMA SoundNext ==
    ASSUME NEW p
    PROVE  DiskOK(p)' => Sound(View(p))'
<1>1. DiskOK(p) => Sound(View(p))
  BY ViewSound
<1> QED BY <1>1, PTL

LEMMA NextInv == Inv /\ [Next]_vars => Inv'
<1> SUFFICES ASSUME Inv, [Next]_vars PROVE Inv'
  OBVIOUS
<1>1. PICK p : DiskOK(p) /\ PageInv(View(p))
  BY DEF Inv
<1>2. PICK D : D = View(p)
  OBVIOUS
<1>3. Sound(D)
  BY <1>1, <1>2, ViewSound
<1>4. PageInv(D)
  BY <1>1, <1>2
<1>5. ASSUME UNCHANGED disk, PageInv(D)' PROVE Inv'
  <2>1. DiskOK(p)' /\ View(p)' = D
    BY <1>1, <1>2, <1>5, DiskKept
  <2> QED BY <2>1, <1>5, ViewNext
<1>6. CASE Write \/ WriteCut \/ Rotate
  <2>1. PICK q : DiskOK(q)' /\ Later(View(p), View(q)')
    BY <1>1, <1>6, DiskStep
  <2>2. PICK E : E = View(q)'
    OBVIOUS
  <2>3. Sound(E)
    BY <2>1, <2>2, SoundNext
  <2>4. UNCHANGED page
    BY <1>6 DEF Write, WriteCut, Rotate
  <2>5. PageInv(E)'
    BY <1>2, <1>3, <1>4, <2>1, <2>2, <2>3, <2>4, DiskInv
  <2> QED BY <2>1, <2>2, <2>5, ViewNext
<1>7. ASSUME NEW k \in Kinds, Serve(k) PROVE Inv'
  <2>1. UNCHANGED disk
    BY <1>7 DEF Serve
  <2>2. PageInv(D)'
    BY <1>1, <1>2, <1>4, <1>7, ServeStep
  <2> QED BY <2>1, <2>2, <1>5
<1>8. CASE PollTail \/ LoadOlder
  BY <1>8, <1>3, <1>4, <1>5, BeginStep DEF PollTail, LoadOlder
<1>9. CASE PollFailed \/ OlderFailed \/ (\E k \in Loads : LoadFailed(k))
  BY <1>9, <1>4, <1>5, FailedStep DEF PollFailed, OlderFailed, LoadFailed
<1>10. CASE \/ PollRegressed
            \/ \E k \in {"load", "again"}, reset \in BOOLEAN : UserLoads(k, reset)
  BY <1>10, <1>3, <1>4, <1>5, LoadBeginsStep DEF PollRegressed, UserLoads
<1>11. CASE PollAnswered
  BY <1>11, <1>3, <1>4, <1>5, PollAnsweredStep DEF PollAnswered
<1>12. CASE OlderAnswered
  BY <1>12, <1>3, <1>4, <1>5, OlderAnsweredStep DEF OlderAnswered
<1>13. ASSUME NEW k \in Loads, LoadAnswered(k) PROVE Inv'
  BY <1>13, <1>3, <1>4, <1>5, LoadAnsweredStep DEF LoadAnswered
<1>14. CASE ClearView
  BY <1>14, <1>3, <1>4, <1>5, ClearStep DEF ClearView
<1>15. CASE UNCHANGED vars
  <2>1. UNCHANGED disk /\ UNCHANGED page
    BY <1>15 DEF vars
  <2>2. Later(D, D)
    BY <1>3 DEF Later, Sound
  <2>3. PageInv(D)'
    BY <2>1, <2>2, <1>3, <1>4, DiskInv
  <2> QED BY <2>1, <2>3, <1>5
<1> QED BY <1>6, <1>7, <1>8, <1>9, <1>10, <1>11, <1>12, <1>13, <1>14, <1>15 DEF Next, Page

\* A whole line of the log that passes the filter stands at its place.
LEMMA WholeStands ==
    ASSUME rotated \in Chains, active \in Files, gone \in Nat, NEW l \in Whole
    PROVE  \E m \in Marks : m.rec \in Sought /\ m.rec = l.tok[1]
<1>1. PICK i \in DOMAIN Chain : l \in LinesOf(i, 0)
  BY DEF Whole
<1>2. PICK r \in Sought : l.tok = Body(r)
  BY DEF Whole, Sought
<1> DEFINE c == Chain
           f == Chain[i]
<1>3. c \in Chains /\ i \in 1..Len(c) /\ StartOf(i) = Begin(c, i)
  BY <1>1, ChainIs DEF Chains
<1>4. PICK s \in 0..Len(f) - 1 : (s = 0 \/ f[s] = Newline) /\ l = Line(i, s)
  BY <1>1, LinesOfIs
<1>5. f \in Files /\ Len(f) \in Nat /\ Begin(c, i) \in Nat
  BY <1>3, FileIs
<1>6. l.tok = SubSeq(f, s + 1, EndOfLine(f, s) - 1)
  BY <1>4 DEF Line
<1>7. r \in Numbers
  BY RecordsAre DEF Sought
<1>8. LineAt(f, s, r) /\ LineStart(f, s)
  <2>1. r \in Nat \ {0} /\ s \in Nat /\ s < Len(f)
    BY <1>4, <1>5, <1>7 DEF Numbers
  <2>2. SubSeq(f, s + 1, EndOfLine(f, s) - 1) = Body(r)
    BY <1>2, <1>6
  <2> HIDE DEF f
  <2>3. LineAt(f, s, r)
    BY <1>5, <2>1, <2>2, TokIsLine
  <2> QED BY <2>3, <1>4 DEF LineStart
<1> DEFINE x == gone + Begin(c, i) + s
<1>9. x \in Nat
  BY <1>4, <1>5
<1>10. Stands(Chain, gone, x, r)
  BY <1>3, <1>4, <1>8 DEF Stands
<1> HIDE DEF x
<1> DEFINE m == [at |-> x, rec |-> r]
<1>11. m \in Marks
  BY <1>7, <1>9, <1>10 DEF Marks
<1>12. Body(r)[1] = r
  BY <1>7 DEF Body
<1> QED BY <1>2, <1>11, <1>12

\* The records of a table and their places rise together.
LEMMA ShowsRise ==
    ASSUME NEW D, Sound(D), NEW g \in Nat, NEW q, Shows(D, q, g)
    PROVE  /\ \A i \in DOMAIN q : /\ q[i].at \in Nat /\ q[i].rec \in 1..D.written
                                  /\ D.places[q[i].rec] = q[i].at + g
           /\ \A i, j \in DOMAIN q : i < j => q[i].rec < q[j].rec
<1>1. ASSUME NEW i \in DOMAIN q
      PROVE  q[i].at \in Nat /\ q[i].rec \in 1..D.written /\ D.places[q[i].rec] = q[i].at + g
  <2>1. q[i] \in TableRows
    BY DEF Shows
  <2> QED BY <2>1 DEF Shows, RowOK, TableRows
<1>2. ASSUME NEW i \in DOMAIN q, NEW j \in DOMAIN q, i < j PROVE q[i].rec < q[j].rec
  <2> DEFINE r == q[i].rec
             s == q[j].rec
             x == q[i].at
             y == q[j].at
  <2>1. /\ r \in 1..D.written /\ s \in 1..D.written /\ x \in Nat /\ y \in Nat
        /\ D.places[r] = x + g /\ D.places[s] = y + g
    BY <1>1
  <2>2. x < y
    BY <1>2 DEF Shows
  <2> HIDE DEF r, s, x, y
  <2>3. D.written \in Nat /\ (s < r => D.places[s] < D.places[r])
    BY <2>1 DEF Sound
  <2>4. r < s
    BY <2>1, <2>2, <2>3
  <2> QED BY <2>4 DEF r, s
<1> QED BY <1>1, <1>2

LEMMA InvContiguous == Inv => RowsContiguous
<1> SUFFICES ASSUME Inv, exact
             PROVE  /\ \A i, j \in DOMAIN rows : i < j => rows[i].rec < rows[j].rec
                    /\ rows # <<>> =>
                         \A l \in Whole :
                            (rows[1].rec < l.tok[1] /\ l.tok[1] < rows[Len(rows)].rec)
                                => \E i \in DOMAIN rows : rows[i].rec = l.tok[1]
  BY DEF RowsContiguous
<1>1. PICK p : DiskOK(p) /\ PageInv(View(p))
  BY DEF Inv
<1> DEFINE D == View(p)
           lo == From(rows, topOffset, tailOffset)
<1>2. Sound(D) /\ D.marks = Marks
  BY <1>1, ViewSound, ViewIs
<1>3. /\ Shows(D, rows, base) /\ Within(rows, lo, tailOffset)
      /\ Covers(D, rows, base, lo, tailOffset)
  BY <1>1 DEF PageInv, PageOK, PageTable, TableOK
<1>4. rows \in Seq(TableRows) /\ base \in Nat /\ tailOffset \in Nat /\ lo \in Nat
  BY <1>1, FromIs DEF PageInv, Types
<1>5. rotated \in Chains /\ active \in Files /\ gone \in Nat
  BY <1>1 DEF DiskOK
<1> HIDE DEF D, lo
<1>6. /\ \A i \in DOMAIN rows : /\ rows[i].at \in Nat /\ rows[i].rec \in 1..D.written
                                /\ D.places[rows[i].rec] = rows[i].at + base
      /\ \A i, j \in DOMAIN rows : i < j => rows[i].rec < rows[j].rec
  BY <1>2, <1>3, <1>4, ShowsRise
<1>7. ASSUME rows # <<>>, NEW l \in Whole,
             rows[1].rec < l.tok[1], l.tok[1] < rows[Len(rows)].rec
      PROVE  \E i \in DOMAIN rows : rows[i].rec = l.tok[1]
  <2>1. PICK m \in Marks : m.rec \in Sought /\ m.rec = l.tok[1]
    BY <1>5, WholeStands
  <2>2. /\ m \in D.marks /\ m.at \in Nat /\ m.rec \in 1..D.written /\ D.places[m.rec] = m.at
    BY <1>2, <2>1 DEF Sound
  <2>3. /\ D.written \in Nat /\ D.places \in [1..D.written -> Nat]
        /\ \A r, s \in 1..D.written : r < s => D.places[r] < D.places[s]
    BY <1>2 DEF Sound
  <2>4. 1 \in DOMAIN rows /\ Len(rows) \in DOMAIN rows
    BY <1>4, <1>7
  <2> DEFINE n == Len(rows)
  <2>5. rows[1].at + base < m.at
    BY <1>6, <1>7, <2>1, <2>2, <2>3, <2>4
  <2>6. m.at < rows[n].at + base
    BY <1>6, <1>7, <2>1, <2>2, <2>3, <2>4
  <2>7. lo <= rows[1].at /\ rows[n].at < tailOffset /\ rows[1].at \in Nat /\ rows[n].at \in Nat
    BY <1>3, <1>6, <2>4 DEF Within
  <2> HIDE DEF n
  <2>8. lo + base <= m.at /\ m.at < tailOffset + base
    BY <1>4, <2>2, <2>5, <2>6, <2>7, SMTT(30)
  <2>9. PICK i \in DOMAIN rows : rows[i].at + base = m.at
    BY <1>3, <2>1, <2>2, <2>8 DEF Covers
  <2> DEFINE r == rows[i].rec
             s == m.rec
  <2>10. r \in 1..D.written /\ D.places[r] = D.places[s] /\ s \in 1..D.written
    BY <1>6, <2>2, <2>9
  <2> HIDE DEF r, s
  <2>11. ~(r < s) /\ ~(s < r)
    BY <2>3, <2>10
  <2>12. r = s
    BY <2>10, <2>11, <2>3
  <2> QED BY <2>12, <2>1 DEF r, s
<1> QED BY <1>6, <1>7

\* The table of the page is a piece of the log without a gap, a double row or a
\* row out of order, whatever the order in which minilog writes, rotates and
\* deletes, the server answers and the page applies its polls, older pages, loads
\* and clears (loadTail(), pollTail(), loadOlder(), clearView() of app.js with
\* ReadForward() and ReadBackward() of reader.go); after the answers that Blurs
\* names, until the next load.
THEOREM ViewerContiguous == Spec => []RowsContiguous
<1> QED BY InitInv, NextInv, InvContiguous, PTL DEF Spec

=============================================================================
