-------------------------- MODULE DeltaChainProofs --------------------------
(***************************************************************************)
(* The chain of deltas, for any set of nodes, any longest delta and epoch  *)
(* counters of any width.                                                  *)
(***************************************************************************)
EXTENDS DeltaChain, SequenceTheorems, WellFoundedInduction, TLAPS

-----------------------------------------------------------------------------
(* Data.                                                                   *)

\* A nonempty set of naturals has a least element.
LEMMA LeastNatural ==
  ASSUME NEW T, T \subseteq Nat, T # {}
  PROVE  \E n \in T : \A m \in T : n <= m
  <1> DEFINE R == OpToRel(<, Nat)
  <1>1. IsWellFoundedOn(R, Nat)
    BY NatLessThanWellFounded
  <1>2. ASSUME NEW x \in Nat, NEW y \in Nat, <<x, y>> \notin R PROVE y <= x
    <2>1. R = {ss \in Nat \X Nat : ss[1] < ss[2]}
      BY DEF OpToRel
    <2> HIDE DEF R
    <2> QED BY <1>2, <2>1
  <1> HIDE DEF R
  <1>3. PICK n \in T : \A m \in T : <<m, n>> \notin R
    BY <1>1, WFMin
  <1>4. \A m \in T : n <= m
    <2> TAKE m \in T
    <2>1. m \in Nat /\ n \in Nat
      OBVIOUS
    <2>2. <<m, n>> \notin R
      BY <1>3
    <2> QED BY <2>1, <2>2, <1>2
  <1> QED BY <1>4

\* Induction: what fails nowhere first fails nowhere.
LEMMA NoFirstFailure ==
  ASSUME NEW T, T \subseteq Nat, 0 \notin T, \A n \in T : n - 1 \in T
  PROVE  T = {}
  <1> SUFFICES ASSUME T # {} PROVE FALSE
    OBVIOUS
  <1>1. PICK n \in T : \A m \in T : n <= m
    BY LeastNatural
  <1>2. n \in Nat /\ n - 1 \in T
    BY <1>1
  <1> QED BY <1>1, <1>2

\* What grows with every step is larger further on.
LEMMA Monotone ==
  ASSUME NEW N \in Nat, NEW f \in [0..N -> Int], \A j \in 1..N : f[j - 1] <= f[j]
  PROVE  \A i, j \in 0..N : i <= j => f[i] <= f[j]
  <1> SUFFICES ASSUME NEW i \in 0..N PROVE \A j \in 0..N : i <= j => f[i] <= f[j]
    OBVIOUS
  <1> DEFINE T == {j \in 0..N : i <= j /\ ~(f[i] <= f[j])}
  <1>1. T \subseteq Nat /\ 0 \notin T
    OBVIOUS
  <1>2. ASSUME NEW j \in T PROVE j - 1 \in T
    <2>1. j \in 0..N /\ i <= j /\ ~(f[i] <= f[j])
      OBVIOUS
    <2>2. j # i
      BY <2>1
    <2>3. j - 1 \in 0..N /\ j \in 1..N /\ i <= j - 1
      BY <2>1, <2>2
    <2>4. f[i] \in Int /\ f[j - 1] \in Int /\ f[j] \in Int /\ f[j - 1] <= f[j]
      BY <2>1, <2>3
    <2> QED BY <2>1, <2>3, <2>4
  <1>3. T = {}
    <2> HIDE DEF T
    <2> QED BY <1>1, <1>2, NoFirstFailure
  <1> QED BY <1>3

\* The sums of a sequence exist.
LEMMA SumsExist ==
  ASSUME NEW N \in Nat, NEW a \in [1..N -> Int]
  PROVE  \E f \in [0..N -> Int] : f[0] = 0 /\ \A j \in 1..N : f[j] = f[j - 1] + a[j]
  <1> DEFINE P(n) == \E f \in [0..n -> Int] : f[0] = 0 /\ \A j \in 1..n : f[j] = f[j - 1] + a[j]
             T == {n \in 0..N : ~P(n)}
  <1>1. T \subseteq Nat
    OBVIOUS
  <1>2. 0 \notin T
    <2> DEFINE z == [j \in 0..0 |-> 0]
    <2>1. z \in [0..0 -> Int] /\ z[0] = 0 /\ 1..0 = {}
      OBVIOUS
    <2> HIDE DEF z
    <2>2. P(0)
      BY <2>1
    <2> HIDE DEF P
    <2> QED BY <2>2
  <1>3. ASSUME NEW n \in T PROVE n - 1 \in T
    <2>1. n \in 0..N /\ n # 0
      <3> HIDE DEF P
      <3> QED BY <1>2
    <2>2. n - 1 \in 0..N /\ n \in 1..N
      BY <2>1
    <2>3. ASSUME P(n - 1) PROVE P(n)
      <3>1. PICK f \in [0..n - 1 -> Int] :
              f[0] = 0 /\ \A j \in 1..n - 1 : f[j] = f[j - 1] + a[j]
        BY <2>3
      <3> DEFINE g == [j \in 0..n |-> IF j = n THEN f[n - 1] + a[n] ELSE f[j]]
      <3>2. g \in [0..n -> Int]
        BY <2>2, <3>1
      <3>3. g[0] = 0
        BY <2>2, <3>1
      <3>4. ASSUME NEW j \in 1..n PROVE g[j] = g[j - 1] + a[j]
        BY <2>2, <3>1, <3>4
      <3> HIDE DEF g
      <3> QED BY <3>2, <3>3, <3>4
    <2> HIDE DEF P
    <2> QED BY <2>2, <2>3
  <1>4. T = {}
    <2> HIDE DEF T
    <2> QED BY <1>1, <1>2, <1>3, NoFirstFailure
  <1>5. P(N)
    <2> HIDE DEF P
    <2>1. N \in 0..N
      OBVIOUS
    <2> QED BY <1>4, <2>1
  <1> QED BY <1>5

\* Sum adds up the deltas, one node at a time.
LEMMA SumIs ==
  ASSUME NEW S, NEW list \in Seq(S), NEW deltas \in [S -> Nat]
  PROVE  /\ Sum(list, deltas, 0) = 0
         /\ \A i \in 1..Len(list) : Sum(list, deltas, i) = Sum(list, deltas, i - 1) + deltas[list[i]]
         /\ \A i \in 0..Len(list) : Sum(list, deltas, i) \in Nat
         /\ \A i, j \in 0..Len(list) : i <= j => Sum(list, deltas, i) <= Sum(list, deltas, j)
  <1> DEFINE N == Len(list)
             a == [j \in 1..N |-> deltas[list[j]]]
             Step(g) == [j \in 0..N |-> IF j = 0 THEN 0 ELSE g[j - 1] + deltas[list[j]]]
             s == CHOOSE g : g = Step(g)
  <1>1. N \in Nat /\ \A j \in 1..N : list[j] \in S
    BY LenProperties, ElementOfSeq
  <1>2. a \in [1..N -> Int] /\ \A i \in 1..N : a[i] = deltas[list[i]] /\ a[i] \in Nat
    <2> HIDE DEF N
    <2> QED BY <1>1
  <1>6. \A i \in 0..N : Sum(list, deltas, i) = s[i]
    BY DEF Sum
  <1>a. \A g : g = Step(g) <=> g = [j \in 0..N |-> IF j = 0 THEN 0 ELSE g[j - 1] + a[j]]
    <2> TAKE g
    <2>1. Step(g) = [j \in 0..N |-> IF j = 0 THEN 0 ELSE g[j - 1] + a[j]]
      <3> HIDE DEF N
      <3> QED BY <1>1
    <2> QED BY <2>1
  <1> HIDE DEF N, a
  <1>3. PICK f \in [0..N -> Int] : f[0] = 0 /\ \A j \in 1..N : f[j] = f[j - 1] + a[j]
    BY <1>1, <1>2, SumsExist
  <1>4. f = Step(f)
    <2>1. f = [j \in 0..N |-> IF j = 0 THEN 0 ELSE f[j - 1] + a[j]]
      BY <1>1, <1>3
    <2> HIDE DEF Step
    <2> QED BY <2>1, <1>a
  <1>5. s = [j \in 0..N |-> IF j = 0 THEN 0 ELSE s[j - 1] + a[j]]
    <2> HIDE DEF Step
    <2>1. s = Step(s)
      BY <1>4
    <2> QED BY <2>1, <1>a
  <1> HIDE DEF s, Step
  <1>7. \A j \in 0..N : s[j] = f[j]
    <2> DEFINE T == {j \in 0..N : s[j] # f[j]}
    <2>1. T \subseteq Nat /\ 0 \notin T
      BY <1>1, <1>3, <1>5
    <2>2. ASSUME NEW j \in T PROVE j - 1 \in T
      <3>1. j \in 1..N /\ j - 1 \in 0..N
        BY <1>1, <2>1
      <3>2. s[j] = s[j - 1] + a[j] /\ f[j] = f[j - 1] + a[j]
        BY <1>1, <1>3, <1>5, <3>1
      <3> QED BY <3>1, <3>2
    <2>3. T = {}
      <3> HIDE DEF T
      <3> QED BY <2>1, <2>2, NoFirstFailure
    <2> QED BY <2>3
  <1>11. \A i \in 1..N : i \in 0..N /\ i - 1 \in 0..N
    BY <1>1
  <1>13. 0 \in 0..N
    BY <1>1
  <1>8. \A j \in 1..N : f[j - 1] \in Int /\ f[j] = f[j - 1] + a[j] /\ a[j] \in Nat
    BY <1>2, <1>3, <1>11
  <1>9. \A i, j \in 0..N : i <= j => f[i] <= f[j]
    <2>1. \A j \in 1..N : f[j - 1] <= f[j]
      <3> TAKE j \in 1..N
      <3>1. f[j - 1] \in Int /\ f[j] = f[j - 1] + a[j] /\ a[j] \in Nat
        BY <1>8
      <3> QED BY <3>1
    <2> QED BY <1>1, <2>1, Monotone
  <1>10. \A i \in 0..N : f[i] \in Nat
    <2> TAKE i \in 0..N
    <2>1. f[0] <= f[i] /\ f[i] \in Int
      BY <1>1, <1>9, <1>13
    <2> QED BY <1>3, <2>1
  <1>14. Sum(list, deltas, 0) = 0
    BY <1>3, <1>6, <1>7, <1>13
  <1>15. \A i \in 1..N : Sum(list, deltas, i) = Sum(list, deltas, i - 1) + deltas[list[i]]
    <2> TAKE i \in 1..N
    <2>1. Sum(list, deltas, i) = f[i] /\ Sum(list, deltas, i - 1) = f[i - 1]
      BY <1>6, <1>7, <1>11
    <2> QED BY <1>2, <1>8, <2>1
  <1>16. \A i \in 0..N : Sum(list, deltas, i) \in Nat
    BY <1>6, <1>7, <1>10
  <1>17. \A i, j \in 0..N : i <= j => Sum(list, deltas, i) <= Sum(list, deltas, j)
    BY <1>6, <1>7, <1>9
  <1> QED BY <1>14, <1>15, <1>16, <1>17 DEF N

\* Counters of E values wrap around at most once.
LEMMA Wraps ==
  ASSUME NEW E \in Nat, NEW x \in Nat
  PROVE  /\ x < E => x % E = x
         /\ E > 0 /\ E <= x /\ x < E + E => x % E = x - E
  OBVIOUS

\* f adds up the deltas of a list
AddsUp(list, deltas, f) ==
  /\ f[0] = 0
  /\ \A j \in 1..Len(list) : f[j] = f[j - 1] + deltas[list[j]]

\* Sums are the only function that adds up the deltas.
LEMMA SumUnique ==
  ASSUME NEW S, NEW list \in Seq(S), NEW deltas \in [S -> Nat],
         NEW f, AddsUp(list, deltas, f)
  PROVE  \A j \in 0..Len(list) : Sum(list, deltas, j) = f[j]
  <1>x. f[0] = 0 /\ \A j \in 1..Len(list) : f[j] = f[j - 1] + deltas[list[j]]
    BY DEF AddsUp
  <1> DEFINE N == Len(list)
             T == {j \in 0..N : Sum(list, deltas, j) # f[j]}
  <1>0. N \in Nat
    BY LenProperties
  <1>1. T \subseteq Nat /\ 0 \notin T
    BY <1>0, <1>x, SumIs
  <1>2. ASSUME NEW j \in T PROVE j - 1 \in T
    <2>1. j \in 1..N /\ j - 1 \in 0..N
      BY <1>0, <1>1
    <2>2. Sum(list, deltas, j) = Sum(list, deltas, j - 1) + deltas[list[j]]
      BY <2>1, SumIs
    <2>3. f[j] = f[j - 1] + deltas[list[j]]
      BY <1>x, <2>1
    <2> QED BY <2>1, <2>2, <2>3
  <1>3. T = {}
    <2> HIDE DEF T
    <2> QED BY <1>1, <1>2, NoFirstFailure
  <1> QED BY <1>3

\* A sum is 0 as long as every delta in it is.
LEMMA ZeroSum ==
  ASSUME NEW S, NEW list \in Seq(S), NEW deltas \in [S -> Nat], NEW i \in 0..Len(list)
  PROVE  Sum(list, deltas, i) = 0 <=> \A k \in 1..i : deltas[list[k]] = 0
  <1> DEFINE N == Len(list)
             F(j) == Sum(list, deltas, j)
  <1>0. N \in Nat /\ \A j \in 1..N : list[j] \in S /\ j \in 0..N /\ j - 1 \in 0..N
    BY LenProperties, ElementOfSeq
  <1>1. /\ F(0) = 0
        /\ \A j \in 1..N : F(j) = F(j - 1) + deltas[list[j]]
        /\ \A j \in 0..N : F(j) \in Nat
        /\ \A j, k \in 0..N : j <= k => F(j) <= F(k)
    BY SumIs
  <1> HIDE DEF F
  <1>2. ASSUME F(i) = 0, NEW k \in 1..i PROVE deltas[list[k]] = 0
    <2>1. k \in 1..N /\ k \in 0..N /\ k - 1 \in 0..N
      BY <1>0
    <2>2. F(k) <= F(i) /\ F(k) = F(k - 1) + deltas[list[k]] /\ F(k) \in Nat /\ F(k - 1) \in Nat
      BY <1>1, <2>1
    <2>3. deltas[list[k]] \in Nat
      BY <1>0, <2>1
    <2> QED BY <1>2, <2>2, <2>3
  <1>3. ASSUME \A k \in 1..i : deltas[list[k]] = 0 PROVE F(i) = 0
    <2> DEFINE T == {j \in 0..i : F(j) # 0}
    <2>1. T \subseteq Nat /\ 0 \notin T
      BY <1>1
    <2>2. ASSUME NEW j \in T PROVE j - 1 \in T
      <3>1. j \in 1..i /\ j - 1 \in 0..i /\ j \in 1..N
        BY <1>0, <1>1
      <3>2. F(j) = F(j - 1) + 0 /\ F(j - 1) \in Nat
        BY <1>0, <1>1, <1>3, <3>1
      <3> QED BY <3>1, <3>2
    <2>3. T = {}
      <3> HIDE DEF T
      <3> QED BY <2>1, <2>2, NoFirstFailure
    <2> QED BY <1>0, <2>3
  <1> QED BY <1>2, <1>3 DEF F

-----------------------------------------------------------------------------
(* What each operation does to the sums.                                   *)

\* t is s with e put in at p
Inserted(S, s, p, e, t) ==
  /\ t \in Seq(S)
  /\ Len(t) = Len(s) + 1
  /\ \A j \in 1..Len(s) + 1 : t[j] = IF j < p THEN s[j] ELSE IF j = p THEN e ELSE s[j - 1]

\* An insertion puts an element at its place and moves the later ones up.
LEMMA InsertAtIs ==
  ASSUME NEW S, NEW s \in Seq(S), NEW p \in 1..Len(s) + 1, NEW e \in S
  PROVE  Inserted(S, s, p, e, InsertAt(s, p, e))
  <1> DEFINE a == SubSeq(s, 1, p - 1)
             b == SubSeq(s, p, Len(s))
  <1>1. Len(s) \in Nat /\ p \in Int /\ \A j \in 1..Len(s) : s[j] \in S
    BY LenProperties, ElementOfSeq
  <1>2. a \in Seq(S) /\ Len(a) = p - 1 /\ \A j \in 1..p - 1 : a[j] = s[j]
    <2>1. \A j \in 1..p - 1 : s[j] \in S
      BY <1>1
    <2>2. p - 1 \in Int /\ 1 \in Int
      BY <1>1
    <2> QED BY <1>1, <2>1, <2>2, SubSeqProperties
  <1>3. b \in Seq(S) /\ Len(b) = Len(s) - p + 1 /\ \A j \in 1..Len(s) - p + 1 : b[j] = s[p + j - 1]
    <2>1. \A j \in p..Len(s) : s[j] \in S
      BY <1>1
    <2> QED BY <1>1, <2>1, SubSeqProperties
  <1> HIDE DEF a, b
  <1>4. <<e>> \in Seq(S) /\ Len(<<e>>) = 1 /\ <<e>>[1] = e
    OBVIOUS
  <1> DEFINE o == <<e>>
  <1>5. o \in Seq(S) /\ Len(o) = 1 /\ o[1] = e
    BY <1>4
  <1> HIDE DEF o
  <1> DEFINE c == a \o o
  <1>6. c \in Seq(S) /\ Len(c) = p /\ \A j \in 1..p : c[j] = IF j < p THEN s[j] ELSE e
    <2>1. c \in Seq(S) /\ Len(c) = Len(a) + Len(o)
          /\ \A i \in 1..Len(a) + Len(o) : c[i] = IF i <= Len(a) THEN a[i] ELSE o[i - Len(a)]
      BY <1>2, <1>5, ConcatProperties
    <2> HIDE DEF c
    <2>2. Len(c) = p
      BY <1>1, <1>2, <1>5, <2>1
    <2>3. ASSUME NEW j \in 1..p PROVE c[j] = IF j < p THEN s[j] ELSE e
      <3>1. c[j] = IF j <= p - 1 THEN a[j] ELSE o[j - (p - 1)]
        BY <1>1, <1>2, <1>5, <2>1
      <3>2. CASE j < p
        BY <1>1, <1>2, <3>1, <3>2
      <3>3. CASE j = p
        BY <1>1, <1>5, <3>1, <3>3
      <3> QED BY <1>1, <3>2, <3>3
    <2> QED BY <2>1, <2>2, <2>3
  <1> HIDE DEF c
  <1> DEFINE r == c \o b
  <1>7. /\ r \in Seq(S) /\ Len(r) = Len(s) + 1
        /\ \A j \in 1..Len(s) + 1 : r[j] = IF j <= p THEN c[j] ELSE b[j - p]
    <2>1. r \in Seq(S) /\ Len(r) = Len(c) + Len(b)
          /\ \A i \in 1..Len(c) + Len(b) : r[i] = IF i <= Len(c) THEN c[i] ELSE b[i - Len(c)]
      BY <1>3, <1>6, ConcatProperties
    <2> HIDE DEF r
    <2>2. Len(c) + Len(b) = Len(s) + 1 /\ Len(c) = p
      BY <1>1, <1>3, <1>6
    <2>3. r \in Seq(S) /\ Len(r) = Len(s) + 1
          /\ \A j \in 1..Len(s) + 1 : r[j] = IF j <= p THEN c[j] ELSE b[j - p]
      BY <2>1, <2>2
    <2> QED BY <2>3
  <1> HIDE DEF r
  <1>8. ASSUME NEW j \in 1..Len(s) + 1
        PROVE  r[j] = IF j < p THEN s[j] ELSE IF j = p THEN e ELSE s[j - 1]
    <2>1. CASE j <= p
      BY <1>1, <1>6, <1>7, <2>1
    <2>2. CASE j > p
      <3>1. j - p \in 1..Len(s) - p + 1 /\ p + (j - p) - 1 = j - 1
        BY <1>1, <2>2
      <3>2. b[j - p] = s[j - 1]
        BY <1>3, <3>1
      <3> QED BY <1>1, <1>7, <2>2, <3>2
    <2> QED BY <1>1, <2>1, <2>2
  <1>9. InsertAt(s, p, e) = r
    BY DEF InsertAt, a, b, c, o, r
  <1> QED BY <1>7, <1>8, <1>9 DEF Inserted

\* a timer of d ticks belongs at p
Belongs(list, deltas, d, p) ==
  /\ p \in 1..Len(list) + 1
  /\ Sum(list, deltas, p - 1) <= d
  /\ p <= Len(list) => Sum(list, deltas, p) > d

\* deltas2 has a node n put in at p, rest after the node before it
Resettled(S, list, deltas, n, p, rest, deltas2) ==
  /\ deltas2 \in [S -> Int]
  /\ deltas2[n] = rest
  /\ p <= Len(list) => deltas2[list[p]] = deltas[list[p]] - rest
  /\ \A m \in S : m # n /\ (p <= Len(list) => m # list[p]) => deltas2[m] = deltas[m]

\* the due times of list2 are those of the list with d put in at p
DuesKept(list, deltas, d, p, list2, deltas2) ==
  \A j \in 0..Len(list) + 1 :
    /\ j < p => Sum(list2, deltas2, j) = Sum(list, deltas, j)
    /\ j = p => Sum(list2, deltas2, j) = d
    /\ j > p => Sum(list2, deltas2, j) = Sum(list, deltas, j - 1)

\* An insertion where the walk stopped moves nobody's due time.
LEMMA InsertSums ==
  ASSUME NEW S, NEW list \in Seq(S), IsInjective(list), NEW deltas \in [S -> Nat],
         NEW n \in S, n \notin ToSet(list), NEW d \in Nat, NEW p, Belongs(list, deltas, d, p),
         NEW list2, Inserted(S, list, p, n, list2),
         NEW deltas2, Resettled(S, list, deltas, n, p, d - Sum(list, deltas, p - 1), deltas2)
  PROVE  /\ IsInjective(list2)
         /\ deltas2 \in [S -> Nat]
         /\ DuesKept(list, deltas, d, p, list2, deltas2)
  <1> DEFINE rest == d - Sum(list, deltas, p - 1)
  <1> DEFINE N == Len(list)
             F(j) == Sum(list, deltas, j)
  <1>0. /\ N \in Nat /\ DOMAIN list = 1..N
        /\ \A j \in 1..N : list[j] \in S /\ list[j] # n /\ j \in 0..N /\ j - 1 \in 0..N
    BY LenProperties, ElementOfSeq DEF ToSet
  <1>1. \A j, k \in 1..N : list[j] = list[k] => j = k
    BY <1>0 DEF IsInjective
  <1>2. /\ F(0) = 0
        /\ \A j \in 1..N : F(j) = F(j - 1) + deltas[list[j]]
        /\ \A j \in 0..N : F(j) \in Nat
    <2>1. /\ Sum(list, deltas, 0) = 0
          /\ \A i \in 1..Len(list) : Sum(list, deltas, i) = Sum(list, deltas, i - 1) + deltas[list[i]]
          /\ \A i \in 0..Len(list) : Sum(list, deltas, i) \in Nat
      BY SumIs
    <2> QED BY <2>1
  <1>3. /\ list2 \in Seq(S) /\ Len(list2) = N + 1
        /\ \A j \in 1..N + 1 : list2[j] =
             IF j < p THEN list[j] ELSE IF j = p THEN n ELSE list[j - 1]
    BY DEF Inserted
  <1>4. p \in 1..N + 1 /\ p - 1 \in 0..N /\ rest = d - F(p - 1) /\ F(p - 1) <= d
        /\ (p <= N => F(p) > d)
    BY <1>0 DEF Belongs
  <1>5. rest \in Nat
    BY <1>2, <1>4
  <1>8. /\ deltas2 \in [S -> Int]
        /\ deltas2[n] = rest
        /\ p <= N => deltas2[list[p]] = deltas[list[p]] - rest
        /\ \A m \in S : m # n /\ (p <= N => m # list[p]) => deltas2[m] = deltas[m]
    BY DEF Resettled
  <1> HIDE DEF F, N, rest
  <1>6. p <= N => /\ F(p) = F(p - 1) + deltas[list[p]] /\ list[p] \in S /\ deltas[list[p]] \in Nat
                  /\ deltas[list[p]] - rest \in Nat
    <2> SUFFICES ASSUME p <= N PROVE /\ F(p) = F(p - 1) + deltas[list[p]] /\ list[p] \in S
                                     /\ deltas[list[p]] \in Nat /\ deltas[list[p]] - rest \in Nat
      OBVIOUS
    <2>1. p \in 1..N
      BY <1>0, <1>4
    <2>2. F(p) = F(p - 1) + deltas[list[p]] /\ F(p) > d /\ F(p - 1) \in Nat /\ F(p) \in Nat
      BY <1>2, <1>0, <1>4, <2>1
    <2>3. list[p] \in S /\ deltas[list[p]] \in Nat
      BY <1>0, <2>1
    <2> QED BY <1>4, <1>5, <2>2, <2>3
  <1>9. deltas2 \in [S -> Nat]
    <2>1. ASSUME NEW m \in S PROVE deltas2[m] \in Nat
      BY <1>5, <1>6, <1>8
    <2> QED BY <1>8, <2>1
  <1>10. ASSUME NEW j \in 1..N + 1
         PROVE  /\ j < p => /\ j \in 1..N /\ list2[j] = list[j]
                            /\ list[j] # n /\ (p <= N => list[j] # list[p])
                /\ j = p => list2[j] = n
                /\ j > p => /\ j - 1 \in 1..N /\ p \in 1..N /\ list2[j] = list[j - 1]
                            /\ list[j - 1] # n /\ (list[j - 1] = list[p] => j = p + 1)
    <2>0. N \in Nat /\ p \in Nat /\ j \in Nat
      BY <1>0, <1>4
    <2>1. list2[j] = IF j < p THEN list[j] ELSE IF j = p THEN n ELSE list[j - 1]
      BY <1>3
    <2>2. CASE j < p
      <3>1. j \in 1..N /\ list2[j] = list[j]
        BY <1>4, <2>0, <2>1, <2>2
      <3>2. list[j] # n
        BY <1>0, <3>1
      <3>3. ASSUME p <= N PROVE list[j] # list[p]
        <4>1. p \in 1..N /\ j # p
          BY <1>4, <2>0, <2>2, <3>3
        <4> QED BY <1>1, <3>1, <4>1
      <3> QED BY <2>0, <2>2, <3>1, <3>2, <3>3
    <2>3. CASE j = p
      BY <2>0, <2>1, <2>3
    <2>4. CASE j > p
      <3>1. j - 1 \in 1..N /\ p \in 1..N
        BY <1>4, <2>0, <2>4
      <3>2. list2[j] = list[j - 1]
        BY <2>0, <2>1, <2>4
      <3>3. list[j - 1] # n
        BY <1>0, <3>1
      <3>4. list[j - 1] = list[p] => j - 1 = p
        BY <1>1, <3>1
      <3>5. list[j - 1] = list[p] => j = p + 1
        BY <2>0, <3>4
      <3> QED BY <2>0, <2>4, <3>1, <3>2, <3>3, <3>5
    <2> QED BY <2>0, <2>2, <2>3, <2>4
  <1>11. IsInjective(list2)
    <2>1. DOMAIN list2 = 1..N + 1
      BY <1>3, LenProperties
    <2> SUFFICES ASSUME NEW i \in 1..N + 1, NEW j \in 1..N + 1, list2[i] = list2[j], i < j PROVE FALSE
      <3>1. 1..N + 1 \subseteq Int
        BY <1>0
      <3>2. ASSUME NEW i \in 1..N + 1, NEW j \in 1..N + 1, list2[i] = list2[j] PROVE i = j
        <4>1. ~(i < j) /\ ~(j < i)
          BY <3>2
        <4> QED BY <3>1, <4>1
      <3> QED BY <2>1, <3>2 DEF IsInjective
    <2>0. i \in Nat /\ j \in Nat /\ p \in Nat /\ N \in Nat
      BY <1>0, <1>4
    <2>2. CASE i < p /\ j < p
      <3>1. i \in 1..N /\ j \in 1..N /\ list[i] = list[j]
        BY <1>10, <2>2
      <3>2. i = j
        BY <1>1, <3>1
      <3> QED BY <2>0, <3>2
    <2>3. CASE i < p /\ j = p
      BY <1>10, <2>0, <2>3
    <2>4. CASE i < p /\ j > p
      <3>1. i \in 1..N /\ j - 1 \in 1..N /\ list[i] = list[j - 1]
        BY <1>10, <2>0, <2>4
      <3>2. i = j - 1
        BY <1>1, <3>1
      <3> QED BY <2>0, <2>4, <3>2
    <2>5. CASE i = p /\ j > p
      BY <1>10, <2>0, <2>5
    <2>6. CASE i > p /\ j > p
      <3>1. i - 1 \in 1..N /\ j - 1 \in 1..N /\ list[i - 1] = list[j - 1]
        BY <1>10, <2>0, <2>6
      <3>2. i - 1 = j - 1
        BY <1>1, <3>1
      <3> QED BY <2>0, <3>2
    <2> QED BY <2>0, <2>2, <2>3, <2>4, <2>5, <2>6
  <1> DEFINE f == [j \in 0..N + 1 |-> IF j < p THEN F(j) ELSE IF j = p THEN d ELSE F(j - 1)]
  <1>12. /\ DOMAIN f = 0..N + 1
         /\ \A j \in 0..N + 1 : j < p => f[j] = F(j)
         /\ f[p] = d
         /\ \A j \in 0..N + 1 : j > p => f[j] = F(j - 1)
    BY <1>0, <1>4
  <1>13. f = [j \in DOMAIN f |-> f[j]]
    OBVIOUS
  <1> HIDE DEF f
  <1>14. f \in [0..N + 1 -> Int] /\ f[0] = 0
    <2>1. ASSUME NEW j \in 0..N + 1 PROVE f[j] \in Int
      <3>0. N \in Nat /\ p \in Nat /\ j \in Nat
        BY <1>0, <1>4
      <3>1. CASE j < p
        <4>1. j \in 0..N
          BY <1>4, <3>0, <3>1
        <4> QED BY <1>2, <1>12, <3>1, <4>1
      <3>2. CASE j = p
        BY <1>12, <3>2
      <3>3. CASE j > p
        <4>1. j - 1 \in 0..N
          BY <1>4, <3>0, <3>3
        <4> QED BY <1>2, <1>12, <3>3, <4>1
      <3> QED BY <3>0, <3>1, <3>2, <3>3
    <2>2. 0 \in 0..N + 1 /\ 0 < p
      BY <1>0, <1>4
    <2>3. f[0] = 0
      BY <1>2, <1>12, <2>2
    <2> QED BY <1>12, <1>13, <2>1, <2>3
  <1>15. ASSUME NEW j \in 1..N + 1 PROVE f[j] = f[j - 1] + deltas2[list2[j]]
    <2>0. N \in Nat /\ p \in Nat /\ j \in Nat /\ j \in 0..N + 1 /\ j - 1 \in 0..N + 1
      BY <1>0, <1>4
    <2>1. CASE j < p
      <3>1. j \in 1..N /\ list2[j] = list[j] /\ deltas2[list[j]] = deltas[list[j]]
        BY <1>0, <1>8, <1>10, <2>1
      <3>2. f[j] = F(j)
        BY <1>12, <2>0, <2>1
      <3>3. j - 1 < p
        BY <2>0, <2>1
      <3>4. f[j - 1] = F(j - 1)
        BY <1>12, <2>0, <3>3
      <3> QED BY <1>2, <3>1, <3>2, <3>4
    <2>2. CASE j = p
      <3>1. list2[j] = n /\ deltas2[n] = rest
        BY <1>8, <1>10, <2>2
      <3>2. f[j] = d
        BY <1>12, <2>2
      <3>3. j - 1 < p
        BY <2>0, <2>2
      <3>4. f[j - 1] = F(p - 1)
        BY <1>12, <2>0, <2>2, <3>3
      <3>5. F(p - 1) \in Nat
        BY <1>2, <1>4
      <3> QED BY <1>4, <3>1, <3>2, <3>4, <3>5
    <2>3. CASE j = p + 1
      <3>0. j > p /\ j - 1 = p
        BY <2>0, <2>3
      <3>1. p \in 1..N /\ p <= N /\ list2[j] = list[p]
        BY <1>10, <2>0, <3>0
      <3>2. deltas2[list[p]] = deltas[list[p]] - rest
        BY <1>8, <3>1
      <3>3. f[j] = F(p) /\ f[j - 1] = d
        BY <1>12, <2>0, <3>0
      <3>4. F(p - 1) \in Nat /\ F(p) = F(p - 1) + deltas[list[p]] /\ deltas[list[p]] \in Nat
        BY <1>2, <1>4, <1>6, <3>1
      <3> HIDE DEF F
      <3>5. rest = d - F(p - 1) /\ rest \in Nat
        BY <1>4, <1>5
      <3>6. deltas2[list2[j]] = deltas[list[p]] - rest
        BY <3>1, <3>2
      <3>7. ASSUME NEW x \in Nat, NEW y \in Nat PROVE x + y = d + (y - (d - x))
        OBVIOUS
      <3>8. F(p) = d + (deltas[list[p]] - rest)
        BY <3>4, <3>5, <3>7
      <3> QED BY <3>3, <3>6, <3>8
    <2>4. CASE j > p + 1
      <3>0. j > p /\ j # p + 1 /\ j - 1 > p
        BY <2>0, <2>4
      <3>1. j - 1 \in 1..N /\ list2[j] = list[j - 1] /\ p \in 1..N /\ list[j - 1] # n /\ list[j - 1] # list[p]
        BY <1>10, <3>0
      <3>2. deltas2[list[j - 1]] = deltas[list[j - 1]]
        BY <1>0, <1>8, <3>1
      <3>3. f[j] = F(j - 1) /\ f[j - 1] = F((j - 1) - 1)
        BY <1>12, <2>0, <3>0
      <3>4. F(j - 1) = F((j - 1) - 1) + deltas[list[j - 1]]
        BY <1>2, <3>1
      <3> QED BY <3>1, <3>2, <3>3, <3>4
    <2>5. j < p \/ j = p \/ j = p + 1 \/ j > p + 1
      BY <2>0
    <2> QED BY <2>1, <2>2, <2>3, <2>4, <2>5
  <1>16. \A j \in 0..N + 1 : Sum(list2, deltas2, j) = f[j]
    <2>1. Len(list2) = N + 1 /\ list2 \in Seq(S)
      BY <1>3
    <2>2. AddsUp(list2, deltas2, f)
      BY <1>14, <1>15, <2>1 DEF AddsUp
    <2>3. \A j \in 0..Len(list2) : Sum(list2, deltas2, j) = f[j]
      BY <1>9, <2>1, <2>2, SumUnique
    <2> QED BY <2>1, <2>3
  <1>17. ASSUME NEW j \in 0..N + 1
         PROVE  /\ j < p => Sum(list2, deltas2, j) = F(j)
                /\ j = p => Sum(list2, deltas2, j) = d
                /\ j > p => Sum(list2, deltas2, j) = F(j - 1)
    BY <1>12, <1>16
  <1> QED BY <1>9, <1>11, <1>17 DEF F, N, DuesKept

\* deltaChainInsert walks past the nodes that are due before or with the new
\* one, and is left with what the new one needs after them.
LEMMA SlotIs ==
  ASSUME dq \in Seq(Node), delta \in [Node -> Nat], NEW d \in Nat
  PROVE  /\ Belongs(dq, delta, d, Slot(d).at)
         /\ Slot(d).rest = d - Sum(dq, delta, Slot(d).at - 1)
  <1> DEFINE N == Len(dq)
             Step(g) == [i \in 0..N |-> IF i = 0 THEN d ELSE g[i - 1] - delta[dq[i]]]
             r == CHOOSE g : g = Step(g)
             Stops(i) == i > N \/ delta[dq[i]] > r[i - 1]
             at == CHOOSE i \in 1..N + 1 : Stops(i) /\ \A j \in 1..i - 1 : ~Stops(j)
             F(j) == Sum(dq, delta, j)
  <1>1. Slot(d) = [at |-> at, rest |-> r[at - 1]]
    BY DEF Slot
  <1>2. N \in Nat /\ \A j \in 1..N : dq[j] \in Node /\ j \in 0..N /\ j - 1 \in 0..N /\ delta[dq[j]] \in Nat
    BY LenProperties, ElementOfSeq
  <1>3. /\ F(0) = 0
        /\ \A j \in 1..N : F(j) = F(j - 1) + delta[dq[j]]
        /\ \A j \in 0..N : F(j) \in Nat
    <2>1. /\ Sum(dq, delta, 0) = 0
          /\ \A i \in 1..Len(dq) : Sum(dq, delta, i) = Sum(dq, delta, i - 1) + delta[dq[i]]
          /\ \A i \in 0..Len(dq) : Sum(dq, delta, i) \in Nat
      BY SumIs
    <2> QED BY <2>1
  <1> HIDE DEF N, F
  <1> DEFINE w == [i \in 0..N |-> d - F(i)]
  <1>4. w = Step(w)
    <2>1. ASSUME NEW i \in 0..N PROVE w[i] = IF i = 0 THEN d ELSE w[i - 1] - delta[dq[i]]
      <3>1. CASE i = 0
        BY <1>3, <3>1
      <3>2. CASE i # 0
        <4>1. i \in 1..N /\ i - 1 \in 0..N
          BY <1>2, <3>2
        <4>2. F(i) = F(i - 1) + delta[dq[i]] /\ F(i - 1) \in Nat /\ delta[dq[i]] \in Nat
          BY <1>2, <1>3, <4>1
        <4>3. w[i] = d - F(i) /\ w[i - 1] = d - F(i - 1)
          BY <4>1
        <4> HIDE DEF w
        <4> QED BY <3>2, <4>2, <4>3
      <3> QED BY <3>1, <3>2
    <2> QED BY <2>1
  <1> HIDE DEF w
  <1>5. r = Step(r)
    BY <1>4
  <1> HIDE DEF r
  <1>6. \A i \in 0..N : r[i] = IF i = 0 THEN d ELSE r[i - 1] - delta[dq[i]]
    BY <1>5
  <1>7. \A i \in 0..N : r[i] = d - F(i)
    <2> DEFINE T == {j \in 0..N : r[j] # d - F(j)}
    <2>1. T \subseteq Nat /\ 0 \notin T
      <3>1. 0 \in 0..N
        BY <1>2
      <3>2. r[0] = d - F(0)
        BY <1>3, <1>6, <3>1
      <3> QED BY <1>2, <3>2
    <2>2. ASSUME NEW j \in T PROVE j - 1 \in T
      <3>1. j \in 1..N /\ j - 1 \in 0..N /\ j # 0 /\ j \in 0..N
        BY <1>2, <2>1
      <3>2. r[j] = r[j - 1] - delta[dq[j]]
        BY <1>6, <3>1
      <3>3. F(j) = F(j - 1) + delta[dq[j]] /\ F(j - 1) \in Nat /\ delta[dq[j]] \in Nat
        BY <1>2, <1>3, <3>1
      <3> QED BY <3>1, <3>2, <3>3
    <2>3. T = {}
      <3> HIDE DEF T
      <3> QED BY <2>1, <2>2, NoFirstFailure
    <2> QED BY <2>3
  <1>8. \A j \in 1..N : Stops(j) <=> F(j) > d
    <2> TAKE j \in 1..N
    <2>1. j \in 1..N /\ j - 1 \in 0..N /\ ~(j > N)
      BY <1>2
    <2>2. r[j - 1] = d - F(j - 1)
      BY <1>7, <2>1
    <2>3. F(j) = F(j - 1) + delta[dq[j]] /\ F(j - 1) \in Nat /\ delta[dq[j]] \in Nat
      BY <1>2, <1>3, <2>1
    <2> QED BY <2>1, <2>2, <2>3
  <1>9. Stops(N + 1)
    BY <1>2
  <1> HIDE DEF Stops
  <1>10. \E i \in 1..N + 1 : Stops(i) /\ \A j \in 1..i - 1 : ~Stops(j)
    <2> DEFINE T == {i \in 1..N + 1 : Stops(i)}
    <2>1. T \subseteq Nat /\ T # {}
      BY <1>2, <1>9
    <2> HIDE DEF T
    <2>2. PICK n \in T : \A m \in T : n <= m
      BY <2>1, LeastNatural
    <2>3. n \in 1..N + 1 /\ Stops(n)
      BY DEF T
    <2>4. ASSUME NEW j \in 1..n - 1 PROVE ~Stops(j)
      <3>1. j \in 1..N + 1 /\ ~(n <= j)
        BY <1>2, <2>3
      <3>2. j \notin T
        BY <2>2, <3>1
      <3> QED BY <3>1, <3>2 DEF T
    <2> QED BY <2>3, <2>4
  <1>11. at \in 1..N + 1 /\ Stops(at) /\ \A j \in 1..at - 1 : ~Stops(j)
    BY <1>10
  <1> HIDE DEF at
  <1>12. F(at - 1) <= d
    <2>1. CASE at = 1
      BY <1>3, <2>1
    <2>2. CASE at # 1
      <3>1. at - 1 \in 1..N /\ at - 1 \in 1..at - 1
        BY <1>2, <1>11, <2>2
      <3>2. ~(F(at - 1) > d)
        BY <1>8, <1>11, <3>1
      <3>3. F(at - 1) \in Nat
        BY <1>2, <1>3, <3>1
      <3> QED BY <3>2, <3>3
    <2> QED BY <2>1, <2>2
  <1>13. at <= N => F(at) > d
    <2> SUFFICES ASSUME at <= N PROVE F(at) > d
      OBVIOUS
    <2>1. at \in 1..N
      BY <1>2, <1>11
    <2> QED BY <1>8, <1>11, <2>1
  <1>14. r[at - 1] = d - F(at - 1)
    <2>1. at - 1 \in 0..N
      BY <1>2, <1>11
    <2> QED BY <1>7, <2>1
  <1>15. Slot(d).at = at /\ Slot(d).rest = r[at - 1]
    BY <1>1
  <1> QED BY <1>11, <1>12, <1>13, <1>14, <1>15 DEF Belongs, F, N

\* the first node of the chain that has not expired is one tick closer
Ticked(deltas2) ==
  deltas2 = [n \in Node |->
    IF \E i \in DOMAIN dq : dq[i] = n /\ delta[n] # 0 /\ \A j \in 1..i - 1 : delta[dq[j]] = 0
    THEN delta[n] - 1 ELSE delta[n]]

\* A tick takes one from every sum that is not 0.
LEMMA TickSums ==
  ASSUME dq \in Seq(Node), IsInjective(dq), delta \in [Node -> Nat],
         NEW deltas2, Ticked(deltas2)
  PROVE  /\ deltas2 \in [Node -> Nat]
         /\ \A j \in 0..Len(dq) : Sum(dq, deltas2, j) =
              IF Sum(dq, delta, j) = 0 THEN 0 ELSE Sum(dq, delta, j) - 1
  <1> DEFINE N == Len(dq)
             F(j) == Sum(dq, delta, j)
             First(i) == delta[dq[i]] # 0 /\ \A j \in 1..i - 1 : delta[dq[j]] = 0
  <1>2. /\ N \in Nat /\ DOMAIN dq = 1..N
        /\ \A j \in 1..N : dq[j] \in Node /\ j \in 0..N /\ j - 1 \in 0..N /\ delta[dq[j]] \in Nat
    BY LenProperties, ElementOfSeq
  <1>3. /\ F(0) = 0
        /\ \A j \in 1..N : F(j) = F(j - 1) + delta[dq[j]]
        /\ \A j \in 0..N : F(j) \in Nat
    <2>1. /\ Sum(dq, delta, 0) = 0
          /\ \A i \in 1..Len(dq) : Sum(dq, delta, i) = Sum(dq, delta, i - 1) + delta[dq[i]]
          /\ \A i \in 0..Len(dq) : Sum(dq, delta, i) \in Nat
      BY SumIs
    <2> QED BY <2>1
  <1>4. \A i \in 0..N : F(i) = 0 <=> \A k \in 1..i : delta[dq[k]] = 0
    BY ZeroSum
  <1>5. \A i, j \in 1..N : dq[i] = dq[j] => i = j
    BY <1>2 DEF IsInjective
  <1>6. \A i \in 1..N : deltas2[dq[i]] = IF First(i) THEN delta[dq[i]] - 1 ELSE delta[dq[i]]
    BY <1>2, <1>5 DEF Ticked
  <1>7. deltas2 \in [Node -> Nat]
    <2>1. ASSUME NEW n \in Node PROVE deltas2[n] \in Nat
      BY DEF Ticked
    <2> QED BY <2>1 DEF Ticked
  <1> HIDE DEF N, F
  <1>8. \A i \in 1..N : First(i) <=> F(i - 1) = 0 /\ F(i) # 0
    <2> TAKE i \in 1..N
    <2>1. i - 1 \in 0..N /\ F(i) = F(i - 1) + delta[dq[i]] /\ delta[dq[i]] \in Nat
      BY <1>2, <1>3
    <2>2. F(i - 1) = 0 <=> \A j \in 1..i - 1 : delta[dq[j]] = 0
      BY <1>4, <2>1
    <2> QED BY <2>1, <2>2
  <1> HIDE DEF First
  <1> DEFINE f == [j \in 0..N |-> IF F(j) = 0 THEN 0 ELSE F(j) - 1]
  <1>9. f[0] = 0
    BY <1>2, <1>3
  <1>10. ASSUME NEW j \in 1..N PROVE f[j] = f[j - 1] + deltas2[dq[j]]
    <2>1. j \in 0..N /\ j - 1 \in 0..N
      BY <1>2
    <2>2. f[j] = (IF F(j) = 0 THEN 0 ELSE F(j) - 1) /\ f[j - 1] = IF F(j - 1) = 0 THEN 0 ELSE F(j - 1) - 1
      BY <2>1
    <2> HIDE DEF f
    <2>3. F(j) = F(j - 1) + delta[dq[j]] /\ F(j - 1) \in Nat /\ F(j) \in Nat /\ delta[dq[j]] \in Nat
      BY <1>2, <1>3, <2>1
    <2>4. CASE First(j)
      <3>1. F(j - 1) = 0 /\ F(j) # 0 /\ deltas2[dq[j]] = delta[dq[j]] - 1
        BY <1>6, <1>8, <2>4
      <3> QED BY <2>2, <2>3, <3>1
    <2>5. CASE ~First(j)
      <3>1. (F(j - 1) # 0 \/ F(j) = 0) /\ deltas2[dq[j]] = delta[dq[j]]
        BY <1>6, <1>8, <2>5
      <3> QED BY <2>2, <2>3, <3>1
    <2> QED BY <2>4, <2>5
  <1>11. \A j \in 0..N : f[j] = IF F(j) = 0 THEN 0 ELSE F(j) - 1
    OBVIOUS
  <1> HIDE DEF f
  <1>12. AddsUp(dq, deltas2, f)
    BY <1>9, <1>10 DEF AddsUp, N
  <1>13. \A j \in 0..N : Sum(dq, deltas2, j) = f[j]
    <2>1. \A j \in 0..Len(dq) : Sum(dq, deltas2, j) = f[j]
      BY <1>7, <1>12, SumUnique
    <2> QED BY <2>1 DEF N
  <1>14. \A j \in 0..N : Sum(dq, deltas2, j) = IF F(j) = 0 THEN 0 ELSE F(j) - 1
    BY <1>11, <1>13
  <1> QED BY <1>7, <1>14 DEF N, F

\* the node behind the first inherits what was left of it
Inherited(list, deltas, deltas2) ==
  /\ Len(list) > 1 => deltas2[list[2]] = deltas[list[2]] + deltas[list[1]]
  /\ \A j \in 3..Len(list) : deltas2[list[j]] = deltas[list[j]]

\* A pop leaves the sums of the nodes behind the first alone.
LEMMA PopSums ==
  ASSUME NEW S, NEW list \in Seq(S), list # <<>>, IsInjective(list), NEW deltas \in [S -> Nat],
         NEW deltas2 \in [S -> Nat],
         Inherited(list, deltas, deltas2)
  PROVE  /\ Tail(list) \in Seq(S) /\ Len(Tail(list)) = Len(list) - 1 /\ IsInjective(Tail(list))
         /\ \A j \in 1..Len(list) - 1 : Tail(list)[j] = list[j + 1]
         /\ \A j \in 1..Len(list) - 1 : Sum(Tail(list), deltas2, j) = Sum(list, deltas, j + 1)
  <1> DEFINE N == Len(list)
             F(j) == Sum(list, deltas, j)
             t == Tail(list)
  <1>2. /\ N \in Nat /\ N # 0 /\ DOMAIN list = 1..N
        /\ \A j \in 1..N : list[j] \in S /\ j \in 0..N /\ j - 1 \in 0..N /\ deltas[list[j]] \in Nat
    BY LenProperties, ElementOfSeq, EmptySeq
  <1>3. /\ F(0) = 0
        /\ \A j \in 1..N : F(j) = F(j - 1) + deltas[list[j]]
        /\ \A j \in 0..N : F(j) \in Nat
    <2>1. /\ Sum(list, deltas, 0) = 0
          /\ \A i \in 1..Len(list) : Sum(list, deltas, i) = Sum(list, deltas, i - 1) + deltas[list[i]]
          /\ \A i \in 0..Len(list) : Sum(list, deltas, i) \in Nat
      BY SumIs
    <2> QED BY <2>1
  <1>4. t \in Seq(S) /\ Len(t) = N - 1 /\ \A j \in 1..N - 1 : t[j] = list[j + 1]
    <2>1. /\ Tail(list) \in Seq(S) /\ Len(Tail(list)) = Len(list) - 1
          /\ \A i \in 1..Len(Tail(list)) : Tail(list)[i] = list[i + 1]
      BY HeadTailProperties
    <2> QED BY <2>1
  <1> HIDE DEF t
  <1>5. \A i, j \in 1..N : list[i] = list[j] => i = j
    BY <1>2 DEF IsInjective
  <1>6. IsInjective(t)
    <2>1. DOMAIN t = 1..N - 1
      BY <1>4, LenProperties
    <2>2. ASSUME NEW i \in 1..N - 1, NEW j \in 1..N - 1, t[i] = t[j] PROVE i = j
      <3>1. i + 1 \in 1..N /\ j + 1 \in 1..N /\ list[i + 1] = list[j + 1]
        BY <1>2, <1>4, <2>2
      <3>2. i + 1 = j + 1
        BY <1>5, <3>1
      <3> QED BY <1>2, <3>2
    <2> QED BY <2>1, <2>2 DEF IsInjective
  <1>7. /\ N > 1 => deltas2[list[2]] = deltas[list[2]] + deltas[list[1]]
        /\ \A j \in 3..N : deltas2[list[j]] = deltas[list[j]]
    BY DEF Inherited
  <1> HIDE DEF N, F
  <1> DEFINE f == [j \in 0..N - 1 |-> IF j = 0 THEN 0 ELSE F(j + 1)]
  <1>8. f[0] = 0 /\ \A j \in 1..N - 1 : f[j] = F(j + 1)
    BY <1>2
  <1> HIDE DEF f
  <1>9. ASSUME NEW j \in 1..N - 1 PROVE f[j] = f[j - 1] + deltas2[t[j]]
    <2>0. j \in Nat /\ j + 1 \in 1..N /\ (j + 1) - 1 = j /\ j \in 1..N
      BY <1>2
    <2>1. t[j] = list[j + 1] /\ F(j + 1) = F(j) + deltas[list[j + 1]]
      BY <1>3, <1>4, <2>0
    <2>2. CASE j = 1
      <3>1. N > 1 /\ 1 \in 1..N /\ 2 \in 1..N
        BY <1>2, <2>2
      <3>2. F(1) = F(0) + deltas[list[1]] /\ deltas[list[1]] \in Nat /\ deltas[list[2]] \in Nat
        <4>1. F(1) = F(1 - 1) + deltas[list[1]]
          BY <1>3, <3>1
        <4> QED BY <1>2, <3>1, <4>1
      <3>3. f[j] = F(2) /\ f[j - 1] = 0 /\ F(2) = F(1) + deltas[list[2]] /\ t[j] = list[2]
        BY <1>8, <2>1, <2>2
      <3>4. deltas2[t[j]] = deltas[list[2]] + deltas[list[1]]
        BY <1>7, <3>1, <3>3
      <3> QED BY <1>3, <3>2, <3>3, <3>4
    <2>3. CASE j # 1
      <3>1. j - 1 \in 1..N - 1 /\ (j - 1) + 1 = j /\ j + 1 \in 3..N
        BY <1>2, <2>3
      <3>2. f[j] = F(j + 1) /\ f[j - 1] = F(j)
        BY <1>8, <3>1
      <3>3. deltas2[list[j + 1]] = deltas[list[j + 1]]
        BY <1>7, <3>1
      <3> QED BY <2>1, <3>2, <3>3
    <2> QED BY <2>2, <2>3
  <1>10. AddsUp(t, deltas2, f)
    BY <1>4, <1>8, <1>9 DEF AddsUp
  <1>11. \A j \in 0..N - 1 : Sum(t, deltas2, j) = f[j]
    <2>1. \A j \in 0..Len(t) : Sum(t, deltas2, j) = f[j]
      BY <1>4, <1>10, SumUnique
    <2> QED BY <1>4, <2>1
  <1>12. \A j \in 1..N - 1 : Sum(t, deltas2, j) = F(j + 1)
    <2> TAKE j \in 1..N - 1
    <2>1. j \in 0..N - 1
      BY <1>2
    <2> QED BY <1>8, <1>11, <2>1
  <1> QED BY <1>4, <1>6, <1>12 DEF N, F, t

-----------------------------------------------------------------------------
(* The inductive invariant.                                                *)

\* the values the variables take
TypeOK ==
  /\ dq \in Seq(Node) /\ IsInjective(dq)
  /\ delta \in [Node -> Nat]
  /\ expectedEpoch \in [Node -> 0..EpochSize - 1]
  /\ currentEpoch \in 0..EpochSize - 1

\* every node in the chain is due within MaxDelta, in the epoch it expects
\* unless it has expired
DueAsExpected ==
  \A i \in 1..Len(dq) :
    /\ Left(i) <= MaxDelta
    /\ Left(i) > 0 => expectedEpoch[dq[i]] = (currentEpoch + Left(i)) % EpochSize

IInv == TypeOK /\ DueAsExpected

\* The sums of the chain, as the code reads them.
LEMMA LeftIs ==
  ASSUME TypeOK
  PROVE  /\ Len(dq) \in Nat /\ DOMAIN dq = 1..Len(dq)
         /\ \A i \in 1..Len(dq) : dq[i] \in Node
         /\ Left(0) = 0
         /\ \A i \in 1..Len(dq) : Left(i) = Left(i - 1) + delta[dq[i]]
         /\ \A i \in 0..Len(dq) : Left(i) \in Nat
         /\ \A i, j \in 0..Len(dq) : i <= j => Left(i) <= Left(j)
  <1>1. dq \in Seq(Node) /\ delta \in [Node -> Nat]
    BY DEF TypeOK
  <1>2. Len(dq) \in Nat /\ DOMAIN dq = 1..Len(dq) /\ \A i \in 1..Len(dq) : dq[i] \in Node
    BY <1>1, LenProperties, ElementOfSeq
  <1>3. /\ Sum(dq, delta, 0) = 0
        /\ \A i \in 1..Len(dq) : Sum(dq, delta, i) = Sum(dq, delta, i - 1) + delta[dq[i]]
        /\ \A i \in 0..Len(dq) : Sum(dq, delta, i) \in Nat
        /\ \A i, j \in 0..Len(dq) : i <= j => Sum(dq, delta, i) <= Sum(dq, delta, j)
    BY <1>1, SumIs
  <1> QED BY <1>2, <1>3 DEF Left

\* The same around an addition.
LEMMA WrapsOnce ==
  ASSUME NEW E \in Nat, NEW c \in Nat, NEW x \in Nat, c < E, x < E
  PROVE  /\ (c + x) % E = IF c + x < E THEN c + x ELSE c + x - E
         /\ (c + 1) % E = IF c + 1 < E THEN c + 1 ELSE 0
         /\ (x + E) % E = x
         /\ x % E = x
  OBVIOUS

\* Adding to an epoch, and how much later one epoch is than another.
LEMMA Epochs ==
  ASSUME NEW c \in 0..EpochSize - 1, NEW x \in Nat, x < EpochSize
  PROVE  /\ (c + x) % EpochSize \in 0..EpochSize - 1
         /\ (((c + x) % EpochSize) + (EpochSize - c)) % EpochSize = x
         /\ (c + 1) % EpochSize \in 0..EpochSize - 1
         /\ x > 0 => (((c + 1) % EpochSize) + (x - 1)) % EpochSize = (c + x) % EpochSize
  <1>0. EpochSize \in Nat /\ c \in Nat /\ c < EpochSize /\ EpochSize > 0 /\ EpochSize - c \in Nat
    BY EpochsOutlastTimers
  <1> DEFINE mod(y) == y % EpochSize
             e == mod(c + x)
  <1>1. /\ mod(c + x) = IF c + x < EpochSize THEN c + x ELSE c + x - EpochSize
        /\ mod(c + 1) = IF c + 1 < EpochSize THEN c + 1 ELSE 0
        /\ mod(x + EpochSize) = x
        /\ mod(x) = x
    BY <1>0, WrapsOnce
  <1>2. ASSUME x > 0 PROVE mod(x - 1) = x - 1
    BY <1>0, <1>2, Wraps
  <1> HIDE DEF mod
  <1>3. e = IF c + x < EpochSize THEN c + x ELSE c + x - EpochSize
    BY <1>1
  <1> HIDE DEF e
  <1>4. e \in 0..EpochSize - 1
    BY <1>0, <1>3
  <1>5. mod(e + (EpochSize - c)) = x
    <2>1. e + (EpochSize - c) = x \/ e + (EpochSize - c) = x + EpochSize
      BY <1>0, <1>3
    <2> QED BY <1>1, <2>1
  <1>6. ASSUME x > 0 PROVE mod(mod(c + 1) + (x - 1)) = e
    <2>1. CASE c + 1 < EpochSize
      <3>1. mod(c + 1) = c + 1
        BY <1>1, <2>1
      <3>2. (c + 1) + (x - 1) = c + x
        BY <1>0
      <3> QED BY <3>1, <3>2 DEF e
    <2>2. CASE ~(c + 1 < EpochSize)
      <3>1. mod(c + 1) = 0 /\ 0 + (x - 1) = x - 1
        BY <1>0, <1>1, <2>2
      <3>2. e = x - 1
        BY <1>0, <1>3, <1>6, <2>2
      <3> QED BY <1>2, <1>6, <3>1, <3>2
    <2> QED BY <2>1, <2>2
  <1>7. mod(c + 1) \in 0..EpochSize - 1
    BY <1>0, <1>1
  <1> QED BY <1>4, <1>5, <1>6, <1>7 DEF e, mod

-----------------------------------------------------------------------------
(* One step of each operation.                                             *)

\* What deltaChainInsert does: the node goes where it belongs, every other
\* due time stays, and the invariant is kept.
LEMMA InsertStep ==
  ASSUME IInv, NEW n \in Node, NEW d \in 0..MaxDelta, Insert(n, d)
  PROVE  /\ IInv'
         /\ n \notin ToSet(dq)
         /\ \E p : /\ Belongs(dq, delta, d, p)
                   /\ Inserted(Node, dq, p, n, dq')
                   /\ DuesKept(dq, delta, d, p, dq', delta')
  <1> DEFINE p == Slot(d).at
             rest == Slot(d).rest
             N == Len(dq)
  <1>0. d \in Nat /\ d <= MaxDelta /\ d < EpochSize
    BY EpochsOutlastTimers
  <1>1. /\ dq \in Seq(Node) /\ IsInjective(dq) /\ delta \in [Node -> Nat]
        /\ N \in Nat /\ DOMAIN dq = 1..N /\ \A i \in 1..N : dq[i] \in Node
        /\ \A i \in 0..N : Left(i) \in Nat
    BY LeftIs DEF IInv, TypeOK
  <1>2. Belongs(dq, delta, d, p) /\ rest = d - Sum(dq, delta, p - 1)
    BY <1>0, <1>1, SlotIs
  <1>3. /\ n \notin ToSet(dq) /\ dq' = InsertAt(dq, p, n)
        /\ delta' = [m \in Node |->
              CASE m = n -> rest
                [] p <= N /\ m = dq[p] -> delta[m] - rest
                [] m # n /\ ~(p <= N /\ m = dq[p]) -> delta[m]]
        /\ expectedEpoch' = [expectedEpoch EXCEPT ![n] = (currentEpoch + d) % EpochSize]
        /\ currentEpoch' = currentEpoch
    BY DEF Insert
  <1> HIDE DEF p, rest, N
  <1>4. p \in 1..N + 1 /\ p - 1 \in 0..N /\ rest \in Nat
    <2>1. p \in 1..N + 1 /\ Left(p - 1) <= d /\ rest = d - Left(p - 1)
      BY <1>2 DEF Belongs, Left, N
    <2>2. p - 1 \in 0..N
      BY <1>1, <2>1
    <2>3. Left(p - 1) \in Nat
      BY <1>1, <2>2
    <2> QED BY <1>0, <2>1, <2>2, <2>3
  <1>5. \A i \in 1..N : dq[i] # n
    BY <1>1, <1>3 DEF ToSet
  <1>6. Inserted(Node, dq, p, n, dq')
    <2>1. Inserted(Node, dq, p, n, InsertAt(dq, p, n))
      BY <1>1, <1>4, InsertAtIs DEF N
    <2> QED BY <1>3, <2>1
  <1>7. Resettled(Node, dq, delta, n, p, rest, delta')
    <2>1. p <= N => dq[p] \in Node /\ dq[p] # n
      BY <1>1, <1>4, <1>5
    <2>2. ASSUME NEW m \in Node PROVE delta'[m] \in Int
      <3>1. delta[m] \in Nat
        BY <1>1
      <3> QED BY <1>3, <1>4, <3>1
    <2>3. delta' \in [Node -> Int]
      BY <1>3, <2>2
    <2>4. delta'[n] = rest
      BY <1>3, <2>1
    <2>5. p <= N => delta'[dq[p]] = delta[dq[p]] - rest
      BY <1>3, <2>1
    <2>6. \A m \in Node : m # n /\ (p <= N => m # dq[p]) => delta'[m] = delta[m]
      BY <1>3
    <2> QED BY <2>3, <2>4, <2>5, <2>6 DEF Resettled, N
  <1>8. IsInjective(dq') /\ delta' \in [Node -> Nat] /\ DuesKept(dq, delta, d, p, dq', delta')
    <2> DEFINE r == d - Sum(dq, delta, p - 1)
               list2 == dq'
               deltas2 == delta'
    <2>1. Resettled(Node, dq, delta, n, p, r, deltas2) /\ Inserted(Node, dq, p, n, list2)
      BY <1>2, <1>6, <1>7
    <2> HIDE DEF list2, deltas2
    <2>2. /\ IsInjective(list2)
          /\ deltas2 \in [Node -> Nat]
          /\ DuesKept(dq, delta, d, p, list2, deltas2)
      BY <1>0, <1>1, <1>2, <1>3, <2>1, InsertSums
    <2> QED BY <2>2 DEF list2, deltas2
  <1>9. /\ Len(dq') = N + 1 /\ dq' \in Seq(Node)
        /\ \A j \in 1..N + 1 : dq'[j] = IF j < p THEN dq[j] ELSE IF j = p THEN n ELSE dq[j - 1]
    BY <1>6 DEF Inserted, N
  <1>11. /\ expectedEpoch'[n] = (currentEpoch + d) % EpochSize
         /\ \A m \in Node : m # n => expectedEpoch'[m] = expectedEpoch[m]
         /\ expectedEpoch' \in [Node -> 0..EpochSize - 1]
    <2>1. (currentEpoch + d) % EpochSize \in 0..EpochSize - 1
      BY <1>0, Epochs DEF IInv, TypeOK
    <2> QED BY <1>3, <2>1 DEF IInv, TypeOK
  <1>12. TypeOK'
    BY <1>3, <1>8, <1>9, <1>11 DEF IInv, TypeOK
  <1>13. \A i \in 1..N : /\ Left(i) <= MaxDelta
                         /\ Left(i) > 0 => expectedEpoch[dq[i]] = (currentEpoch + Left(i)) % EpochSize
    BY DEF IInv, DueAsExpected, N
  <1>14. ASSUME NEW i \in 1..N + 1
         PROVE  /\ Left(i)' <= MaxDelta
                /\ Left(i)' > 0 => expectedEpoch'[dq'[i]] = (currentEpoch' + Left(i)') % EpochSize
    <2>0. i \in Nat /\ p \in Nat /\ N \in Nat /\ i \in 0..N + 1
      BY <1>1, <1>4
    <2> DEFINE dq2 == dq'
               delta2 == delta'
    <2>4. DuesKept(dq, delta, d, p, dq2, delta2) /\ i \in 0..Len(dq) + 1
      BY <1>8, <2>0 DEF N
    <2> HIDE DEF dq2, delta2
    <2>5. /\ i < p => Sum(dq2, delta2, i) = Sum(dq, delta, i)
          /\ i = p => Sum(dq2, delta2, i) = d
          /\ i > p => Sum(dq2, delta2, i) = Sum(dq, delta, i - 1)
      BY <2>4 DEF DuesKept
    <2>1. CASE i < p
      <3>0. i \in 1..N
        BY <1>4, <2>0, <2>1
      <3>1. i \in 1..N /\ dq'[i] = dq[i] /\ Left(i)' = Left(i)
        <4>1. dq'[i] = dq[i]
          BY <1>9, <2>1
        <4>2. Left(i)' = Left(i)
          BY <2>5, <2>1 DEF Left, dq2, delta2
        <4> QED BY <3>0, <4>1, <4>2
      <3>2. expectedEpoch'[dq[i]] = expectedEpoch[dq[i]]
        BY <1>1, <1>5, <1>11, <3>1
      <3> QED BY <1>3, <1>13, <3>1, <3>2
    <2>2. CASE i = p
      <3>1. dq'[i] = n /\ Left(i)' = d
        <4>1. dq'[i] = n
          BY <1>9, <2>0, <2>2
        <4>2. Left(i)' = d
          BY <2>5, <2>2 DEF Left, dq2, delta2
        <4> QED BY <4>1, <4>2
      <3> QED BY <1>0, <1>3, <1>11, <3>1
    <2>3. CASE i > p
      <3>0. i - 1 \in 1..N
        BY <1>4, <2>0, <2>3
      <3>1. i - 1 \in 1..N /\ dq'[i] = dq[i - 1] /\ Left(i)' = Left(i - 1)
        <4>1. dq'[i] = dq[i - 1]
          BY <1>9, <2>0, <2>3
        <4>2. Left(i)' = Left(i - 1)
          BY <2>5, <2>3 DEF Left, dq2, delta2
        <4> QED BY <3>0, <4>1, <4>2
      <3>2. expectedEpoch'[dq[i - 1]] = expectedEpoch[dq[i - 1]]
        BY <1>1, <1>5, <1>11, <3>1
      <3> QED BY <1>3, <1>13, <3>1, <3>2
    <2> QED BY <2>0, <2>1, <2>2, <2>3
  <1>15. DueAsExpected'
    BY <1>9, <1>14 DEF DueAsExpected
  <1> QED BY <1>2, <1>3, <1>6, <1>8, <1>12, <1>15 DEF IInv

\* What deltaChainTick does: every node that has not expired is due one tick
\* sooner.
LEMMA TickStep ==
  ASSUME IInv, Tick
  PROVE  /\ IInv'
         /\ dq' = dq
         /\ \A j \in 0..Len(dq) : Left(j)' = IF Left(j) = 0 THEN 0 ELSE Left(j) - 1
  <1> DEFINE N == Len(dq)
  <1>1. /\ dq \in Seq(Node) /\ IsInjective(dq) /\ delta \in [Node -> Nat]
        /\ N \in Nat /\ DOMAIN dq = 1..N /\ \A i \in 1..N : dq[i] \in Node
        /\ \A i \in 0..N : Left(i) \in Nat
        /\ currentEpoch \in 0..EpochSize - 1
    BY LeftIs DEF IInv, TypeOK
  <1>2. /\ dq' = dq
        /\ delta' = [n \in Node |->
             IF \E i \in DOMAIN dq : dq[i] = n /\ delta[n] # 0 /\ \A j \in 1..i - 1 : delta[dq[j]] = 0
             THEN delta[n] - 1 ELSE delta[n]]
        /\ expectedEpoch' = expectedEpoch
        /\ currentEpoch' = (currentEpoch + 1) % EpochSize
    BY DEF Tick
  <1>3. /\ delta' \in [Node -> Nat]
        /\ \A j \in 0..Len(dq) : Sum(dq, delta', j) =
              IF Sum(dq, delta, j) = 0 THEN 0 ELSE Sum(dq, delta, j) - 1
    BY <1>1, <1>2, TickSums DEF Ticked
  <1>4. \A j \in 0..N : Left(j)' = IF Left(j) = 0 THEN 0 ELSE Left(j) - 1
    BY <1>2, <1>3 DEF Left
  <1>5. currentEpoch' \in 0..EpochSize - 1
    <2>1. 0 \in Nat /\ 0 < EpochSize
      BY EpochsOutlastTimers
    <2> QED BY <1>1, <1>2, <2>1, Epochs
  <1>6. TypeOK'
    BY <1>2, <1>3, <1>5 DEF IInv, TypeOK
  <1> HIDE DEF N
  <1>7. ASSUME NEW i \in 1..N
        PROVE  /\ Left(i)' <= MaxDelta
               /\ Left(i)' > 0 => expectedEpoch[dq[i]] = (currentEpoch' + Left(i)') % EpochSize
    <2>0. /\ Left(i) \in Nat /\ Left(i) <= MaxDelta /\ i \in 0..N
          /\ Left(i) > 0 => expectedEpoch[dq[i]] = (currentEpoch + Left(i)) % EpochSize
      BY <1>1 DEF IInv, DueAsExpected, N
    <2>1. Left(i)' = IF Left(i) = 0 THEN 0 ELSE Left(i) - 1
      BY <1>4, <2>0
    <2>2. MaxDelta \in Nat /\ MaxDelta < EpochSize
      BY EpochsOutlastTimers
    <2>3. CASE Left(i) = 0
      BY <2>1, <2>2, <2>3
    <2>4. CASE Left(i) # 0
      <3>1. Left(i) > 0 /\ Left(i)' = Left(i) - 1 /\ Left(i) < EpochSize /\ EpochSize \in Nat
        BY <2>0, <2>1, <2>2, <2>4, EpochsOutlastTimers
      <3>2. (((currentEpoch + 1) % EpochSize) + (Left(i) - 1)) % EpochSize = (currentEpoch + Left(i)) % EpochSize
        <4> DEFINE x == Left(i)
        <4>1. x \in Nat /\ x < EpochSize /\ x > 0
          BY <2>0, <3>1
        <4> HIDE DEF x
        <4>2. (((currentEpoch + 1) % EpochSize) + (x - 1)) % EpochSize = (currentEpoch + x) % EpochSize
          BY <1>1, <4>1, Epochs
        <4> QED BY <4>2 DEF x
      <3>3. expectedEpoch[dq[i]] = (currentEpoch + Left(i)) % EpochSize
        BY <2>0, <3>1
      <3>4. expectedEpoch[dq[i]] = (currentEpoch' + Left(i)') % EpochSize
        BY <1>2, <3>1, <3>2, <3>3
      <3>5. Left(i)' <= MaxDelta
        BY <2>0, <2>2, <3>1
      <3> QED BY <3>4, <3>5
    <2> QED BY <2>3, <2>4
  <1>8. DueAsExpected'
    BY <1>2, <1>7 DEF DueAsExpected, N
  <1> QED BY <1>2, <1>4, <1>6, <1>8 DEF IInv, N

\* What both ways of popping do: the first node leaves, and the others are
\* due when they were.
LEMMA PopStep ==
  ASSUME IInv, PopExpired \/ Pop
  PROVE  /\ IInv'
         /\ dq # <<>> /\ dq' = Tail(dq)
         /\ Len(dq') = Len(dq) - 1
         /\ \A j \in 1..Len(dq) - 1 : dq'[j] = dq[j + 1] /\ Left(j)' = Left(j + 1)
         /\ delta'[dq[1]] = Left(1)
         /\ PopExpired => Left(1) = 0
  <1> DEFINE N == Len(dq)
  <1>1. /\ dq \in Seq(Node) /\ IsInjective(dq) /\ delta \in [Node -> Nat]
        /\ N \in Nat /\ DOMAIN dq = 1..N /\ \A i \in 1..N : dq[i] \in Node
        /\ \A i \in 0..N : Left(i) \in Nat
        /\ Left(0) = 0 /\ \A i \in 1..N : Left(i) = Left(i - 1) + delta[dq[i]]
        /\ \A i, j \in 1..N : dq[i] = dq[j] => i = j
    BY LeftIs DEF IInv, TypeOK, IsInjective
  <1>2. dq # <<>> /\ dq' = Tail(dq) /\ UNCHANGED <<expectedEpoch, currentEpoch>>
    BY DEF Pop, PopExpired
  <1>3. N \in Nat /\ N >= 1 /\ 1 \in 1..N
    BY <1>1, <1>2, EmptySeq
  <1>4. Left(1) = delta[dq[1]] /\ delta[dq[1]] \in Nat
    <2>1. Left(1) = Left(1 - 1) + delta[dq[1]]
      BY <1>1, <1>3
    <2>2. delta[dq[1]] \in Nat
      BY <1>1, <1>3
    <2> QED BY <1>1, <2>1, <2>2
  <1>5. PopExpired => delta' = delta /\ delta[dq[1]] = 0
    <2>1. Head(dq) = dq[1]
      BY <1>1, <1>2
    <2> QED BY <2>1 DEF PopExpired
  <1>6. Pop => delta' = IF N = 1 THEN delta ELSE [delta EXCEPT ![dq[2]] = delta[dq[2]] + delta[dq[1]]]
    BY DEF Pop
  <1>7. /\ delta' \in [Node -> Nat]
        /\ Inherited(dq, delta, delta')
        /\ delta'[dq[1]] = delta[dq[1]]
    <2>1. CASE PopExpired
      <3>1. N > 1 => dq[2] \in Node /\ delta[dq[2]] \in Nat
        BY <1>1
      <3>2. delta' = delta /\ delta[dq[1]] = 0
        BY <1>5, <2>1
      <3>3. N > 1 => delta[dq[2]] = delta[dq[2]] + delta[dq[1]]
        BY <3>1, <3>2
      <3> QED BY <1>1, <3>2, <3>3 DEF Inherited
    <2>2. CASE Pop /\ N = 1
      <3>1. delta' = delta
        BY <1>6, <2>2
      <3>2. ~(N > 1) /\ 3..N = {}
        BY <2>2
      <3> QED BY <1>1, <3>1, <3>2 DEF Inherited
    <2>3. CASE Pop /\ N # 1
      <3>1. 2 \in 1..N /\ dq[2] \in Node /\ dq[1] \in Node /\ dq[1] # dq[2]
        BY <1>1, <1>3, <2>3
      <3>2. delta' = [delta EXCEPT ![dq[2]] = delta[dq[2]] + delta[dq[1]]]
        BY <1>6, <2>3
      <3>3. delta[dq[2]] + delta[dq[1]] \in Nat
        BY <1>1, <3>1
      <3>4. delta' \in [Node -> Nat] /\ delta'[dq[2]] = delta[dq[2]] + delta[dq[1]]
            /\ \A m \in Node : m # dq[2] => delta'[m] = delta[m]
        BY <1>1, <3>1, <3>2, <3>3
      <3>5. \A j \in 3..N : dq[j] \in Node /\ dq[j] # dq[2]
        <4> TAKE j \in 3..N
        <4>1. j \in 1..N /\ j # 2
          BY <1>3
        <4> QED BY <1>1, <3>1, <4>1
      <3> QED BY <3>1, <3>4, <3>5 DEF Inherited
    <2> QED BY <2>1, <2>2, <2>3
  <1>8. /\ Tail(dq) \in Seq(Node) /\ Len(Tail(dq)) = N - 1 /\ IsInjective(Tail(dq))
        /\ \A j \in 1..N - 1 : Tail(dq)[j] = dq[j + 1]
        /\ \A j \in 1..N - 1 : Sum(Tail(dq), delta', j) = Sum(dq, delta, j + 1)
    <2> DEFINE deltas2 == delta'
    <2>1. deltas2 \in [Node -> Nat] /\ Inherited(dq, delta, deltas2)
      BY <1>7
    <2> HIDE DEF deltas2
    <2>2. /\ Tail(dq) \in Seq(Node) /\ Len(Tail(dq)) = Len(dq) - 1 /\ IsInjective(Tail(dq))
          /\ \A j \in 1..Len(dq) - 1 : Tail(dq)[j] = dq[j + 1]
          /\ \A j \in 1..Len(dq) - 1 : Sum(Tail(dq), deltas2, j) = Sum(dq, delta, j + 1)
      BY <1>1, <1>2, <2>1, PopSums
    <2> QED BY <2>2 DEF deltas2
  <1>9. Len(dq') = N - 1 /\ \A j \in 1..N - 1 : dq'[j] = dq[j + 1] /\ Left(j)' = Left(j + 1)
    BY <1>2, <1>8 DEF Left
  <1>10. TypeOK'
    BY <1>2, <1>7, <1>8 DEF IInv, TypeOK
  <1>11. \A i \in 1..N : /\ Left(i) <= MaxDelta
                         /\ Left(i) > 0 => expectedEpoch[dq[i]] = (currentEpoch + Left(i)) % EpochSize
    BY DEF IInv, DueAsExpected
  <1> HIDE DEF N
  <1>12. ASSUME NEW i \in 1..N - 1
         PROVE  /\ Left(i)' <= MaxDelta
                /\ Left(i)' > 0 => expectedEpoch'[dq'[i]] = (currentEpoch' + Left(i)') % EpochSize
    <2>1. i + 1 \in 1..N
      BY <1>3
    <2> QED BY <1>2, <1>9, <1>11, <2>1
  <1>13. DueAsExpected'
    BY <1>9, <1>12 DEF DueAsExpected
  <1> QED BY <1>2, <1>4, <1>5, <1>7, <1>9, <1>10, <1>13 DEF IInv, N

\* The invariant holds from the start and every step keeps it.
LEMMA Inductive ==
  /\ Init => IInv
  /\ IInv /\ [Next]_vars => IInv'
  <1>1. Init => IInv
    <2> SUFFICES ASSUME Init PROVE IInv
      OBVIOUS
    <2>1. 0 \in 0..EpochSize - 1 /\ FirstEpoch \in 0..EpochSize - 1
      BY EpochsOutlastTimers
    <2>2. dq = <<>> /\ delta = [n \in Node |-> 0] /\ expectedEpoch = [n \in Node |-> 0] /\ currentEpoch = FirstEpoch
      BY DEF Init
    <2>3. dq \in Seq(Node) /\ Len(dq) = 0 /\ DOMAIN dq = {} /\ 1..Len(dq) = {}
      BY <2>2
    <2>4. TypeOK
      BY <2>1, <2>2, <2>3 DEF TypeOK, IsInjective
    <2>5. DueAsExpected
      BY <2>3 DEF DueAsExpected
    <2> QED BY <2>4, <2>5 DEF IInv
  <1>2. IInv /\ [Next]_vars => IInv'
    <2> SUFFICES ASSUME IInv, [Next]_vars PROVE IInv'
      OBVIOUS
    <2>1. ASSUME NEW n \in Node, NEW d \in 0..MaxDelta, Insert(n, d) PROVE IInv'
      BY <2>1, InsertStep
    <2>2. CASE Tick
      BY <2>2, TickStep
    <2>3. CASE PopExpired \/ Pop
      BY <2>3, PopStep
    <2>4. CASE UNCHANGED vars
      BY <2>4 DEF IInv, TypeOK, DueAsExpected, Left, vars
    <2> QED BY <2>1, <2>2, <2>3, <2>4 DEF Next
  <1> QED BY <1>1, <1>2

\* What the epochs say of a node is what the deltas add up to.
LEMMA EpochsSayLeft ==
  ASSUME IInv, NEW i \in 1..Len(dq), Left(i) > 0
  PROVE  TimeUntil(dq[i]) = Left(i)
  <1>1. /\ Left(i) \in Nat /\ Left(i) <= MaxDelta
        /\ expectedEpoch[dq[i]] = (currentEpoch + Left(i)) % EpochSize
        /\ currentEpoch \in 0..EpochSize - 1
    <2>1. i \in 0..Len(dq)
      BY LeftIs DEF IInv
    <2> QED BY <2>1, LeftIs DEF IInv, TypeOK, DueAsExpected
  <1>2. Left(i) < EpochSize
    BY <1>1, EpochsOutlastTimers
  <1> DEFINE x == Left(i)
  <1>3. x \in Nat /\ x < EpochSize
    BY <1>1, <1>2
  <1> HIDE DEF x
  <1>4. (((currentEpoch + x) % EpochSize) + (EpochSize - currentEpoch)) % EpochSize = x
    BY <1>1, <1>3, Epochs
  <1> QED BY <1>1, <1>4 DEF x, TimeUntil

-----------------------------------------------------------------------------
(* The theorems.                                                           *)

\* deltaChainTimeUntil never disagrees with the deltas of a node that has
\* not expired: the two bookkeepings of the chain stay together through any
\* insertions, ticks and pops, and across the wrap-around of the epochs.
THEOREM EpochsKeepTime == Spec => []EpochsAgree
  <1>1. IInv => EpochsAgree
    BY EpochsSayLeft, LeftIs DEF EpochsAgree, IInv
  <1> QED BY <1>1, Inductive, PTL DEF Spec

\* deltaChainPop leaves in the popped node all of its remaining time.
THEOREM PopsKeepTime == Spec => PoppedWithTimeLeft
  <1> DEFINE A == \A n \in Node : n \in ToSet(dq) /\ n \notin ToSet(dq)' =>
                    delta'[n] = 0 \/ delta'[n] = TimeUntil(n)
  <1>1. IInv /\ [Next]_vars => [A]_vars
    <2> SUFFICES ASSUME IInv, Next, NEW n \in Node, n \in ToSet(dq), n \notin ToSet(dq)'
                 PROVE  delta'[n] = 0 \/ delta'[n] = TimeUntil(n)
      BY DEF vars
    <2>1. PICK k \in 1..Len(dq) : n = dq[k]
      BY LeftIs DEF IInv, ToSet
    <2>2. Len(dq) \in Nat /\ \A j \in 1..Len(dq') : dq'[j] # n
      <3>1. IInv'
        BY Inductive
      <3>2. DOMAIN dq' = 1..Len(dq')
        BY <3>1, LenProperties DEF IInv, TypeOK
      <3> QED BY <3>2, LeftIs DEF IInv, ToSet
    <2>3. ASSUME NEW m \in Node, NEW d \in 0..MaxDelta, Insert(m, d) PROVE FALSE
      <3>1. PICK p : Belongs(dq, delta, d, p) /\ Inserted(Node, dq, p, m, dq')
        BY <2>3, InsertStep
      <3>2. /\ p \in 1..Len(dq) + 1 /\ Len(dq') = Len(dq) + 1
            /\ \A j \in 1..Len(dq) + 1 : dq'[j] = IF j < p THEN dq[j] ELSE IF j = p THEN m ELSE dq[j - 1]
        BY <3>1 DEF Belongs, Inserted
      <3>3. CASE k < p
        <4>1. k \in 1..Len(dq') /\ dq'[k] = dq[k]
          BY <2>2, <3>2, <3>3
        <4> QED BY <2>1, <2>2, <4>1
      <3>4. CASE ~(k < p)
        <4>1. k + 1 \in 1..Len(dq') /\ dq'[k + 1] = dq[k]
          BY <2>2, <3>2, <3>4
        <4> QED BY <2>1, <2>2, <4>1
      <3> QED BY <3>3, <3>4
    <2>4. CASE Tick
      BY <2>1, <2>2, <2>4 DEF Tick
    <2>5. CASE PopExpired \/ Pop
      <3>1. /\ Len(dq') = Len(dq) - 1 /\ delta'[dq[1]] = Left(1)
            /\ \A j \in 1..Len(dq) - 1 : dq'[j] = dq[j + 1]
        BY <2>5, PopStep
      <3>2. k = 1
        <4> SUFFICES ASSUME k # 1 PROVE FALSE
          OBVIOUS
        <4>1. k - 1 \in 1..Len(dq) - 1 /\ (k - 1) + 1 = k
          BY <2>2
        <4> QED BY <2>1, <2>2, <3>1, <4>1
      <3>3. 1 \in 1..Len(dq) /\ 1 \in 0..Len(dq)
        BY <2>2, <3>2
      <3>4. Left(1) \in Nat
        BY <3>3, LeftIs DEF IInv
      <3>5. Left(1) > 0 => TimeUntil(dq[1]) = Left(1)
        BY <3>3, EpochsSayLeft
      <3> QED BY <2>1, <3>1, <3>2, <3>4, <3>5
    <2> QED BY <2>3, <2>4, <2>5 DEF Next
  <1>2. Spec => [][A]_vars
    BY <1>1, Inductive, PTL DEF Spec
  <1> QED BY <1>2 DEF PoppedWithTimeLeft

\* the queue of timers that the chain stands for
Timers == [i \in DOMAIN dq |-> [node |-> dq[i], left |-> Left(i)]]

\* it is a sequence with a timer for each node
TimersOfNodes ==
  /\ Timers \in Seq([node : Node, left : Nat]) /\ Len(Timers) = Len(dq)
  /\ DOMAIN Timers = 1..Len(dq)
  /\ \A i \in 1..Len(dq) : Timers[i] = [node |-> dq[i], left |-> Left(i)]

\* The mapped queue is a sequence of timers.
LEMMA TimersAre == TypeOK => TimersOfNodes
  <1> SUFFICES ASSUME TypeOK PROVE TimersOfNodes
    OBVIOUS
  <1>1. /\ Len(dq) \in Nat /\ DOMAIN dq = 1..Len(dq)
        /\ \A i \in 1..Len(dq) : dq[i] \in Node /\ i \in 0..Len(dq)
        /\ \A i \in 0..Len(dq) : Left(i) \in Nat
    BY LeftIs
  <1>2. Timers = [i \in 1..Len(dq) |-> [node |-> dq[i], left |-> Left(i)]]
    BY <1>1 DEF Timers
  <1>3. \A i \in 1..Len(dq) : [node |-> dq[i], left |-> Left(i)] \in [node : Node, left : Nat]
    BY <1>1
  <1>4. Timers \in [1..Len(dq) -> [node : Node, left : Nat]]
    BY <1>2, <1>3
  <1>5. Timers \in Seq([node : Node, left : Nat]) /\ Len(Timers) = Len(dq)
    BY <1>1, <1>2, <1>4
  <1> QED BY <1>2, <1>5 DEF TimersOfNodes

\* An insertion into the chain is an insertion into the queue.
LEMMA InsertRefines ==
  ASSUME IInv, NEW n \in Node, NEW d \in 0..MaxDelta, Insert(n, d)
  PROVE  /\ n \notin {Timers[i].node : i \in DOMAIN Timers}
         /\ \E i \in 1..Len(Timers) + 1 :
              /\ \A j \in DOMAIN Timers : j < i <=> Timers[j].left <= d
              /\ Timers' = InsertAt(Timers, i, [node |-> n, left |-> d])
  <1> DEFINE N == Len(dq)
             T == [node : Node, left : Nat]
             e == [node |-> n, left |-> d]
             q == Timers
             q2 == Timers'
             dq2 == dq'
             delta2 == delta'
             F(j) == Sum(dq, delta, j)
             G(j) == Sum(dq2, delta2, j)
  <1>1. IInv' /\ n \notin ToSet(dq)
    BY InsertStep
  <1>2. PICK p : /\ Belongs(dq, delta, d, p)
                 /\ Inserted(Node, dq, p, n, dq2)
                 /\ DuesKept(dq, delta, d, p, dq2, delta2)
    BY InsertStep
  <1>3. /\ q \in Seq(T) /\ Len(q) = N /\ DOMAIN q = 1..N
        /\ \A i \in 1..N : q[i] = [node |-> dq[i], left |-> F(i)]
        /\ N \in Nat /\ DOMAIN dq = 1..N
        /\ \A i \in 0..N : F(i) \in Nat
        /\ \A i, j \in 0..N : i <= j => F(i) <= F(j)
    BY TimersAre, LeftIs DEF IInv, Left, TimersOfNodes
  <1>4. q2 \in Seq(T) /\ Len(q2) = Len(dq2) /\ \A i \in 1..Len(dq2) : q2[i] = [node |-> dq2[i], left |-> G(i)]
    <2>1. /\ Timers' \in Seq(T) /\ Len(Timers') = Len(dq')
          /\ \A i \in 1..Len(dq') : (Timers')[i] = [node |-> dq'[i], left |-> Left(i)']
      <3>1. TypeOK' => TimersOfNodes'
        BY TimersAre, PTL
      <3> QED BY <1>1, <3>1 DEF IInv, TimersOfNodes
    <2> QED BY <2>1 DEF Left
  <1> HIDE DEF q, q2, dq2, delta2, N, T
  <1>5. /\ p \in 1..N + 1 /\ F(p - 1) <= d /\ (p <= N => F(p) > d)
        /\ Len(dq2) = N + 1
        /\ \A j \in 1..N + 1 : dq2[j] = IF j < p THEN dq[j] ELSE IF j = p THEN n ELSE dq[j - 1]
        /\ \A j \in 0..N + 1 : /\ j < p => G(j) = F(j)
                               /\ j = p => G(j) = d
                               /\ j > p => G(j) = F(j - 1)
    BY <1>2 DEF Belongs, Inserted, DuesKept, N
  <1> HIDE DEF F, G
  <1>6. \A j \in DOMAIN q : j < p <=> q[j].left <= d
    <2> TAKE j \in DOMAIN q
    <2>1. j \in 1..N /\ j \in 0..N /\ p - 1 \in 0..N /\ q[j].left = F(j) /\ F(j) \in Nat
      BY <1>3, <1>5
    <2>2. CASE j < p
      <3>1. F(j) <= F(p - 1) /\ F(p - 1) \in Nat
        BY <1>3, <1>5, <2>1, <2>2
      <3>2. d \in Nat /\ F(p - 1) <= d
        BY <1>5, EpochsOutlastTimers
      <3> QED BY <2>1, <2>2, <3>1, <3>2
    <2>3. CASE ~(j < p)
      <3>1. p \in 0..N /\ p <= N /\ p <= j
        BY <1>3, <1>5, <2>1, <2>3
      <3>2. F(p) > d /\ F(p) <= F(j) /\ F(p) \in Nat /\ d \in Nat
        BY <1>3, <1>5, <2>1, <3>1, EpochsOutlastTimers
      <3> QED BY <2>1, <2>3, <3>2
    <2> QED BY <2>2, <2>3
  <1>7. q2 = InsertAt(q, p, e)
    <2> DEFINE r == InsertAt(q, p, e)
    <2>1. e \in T
      BY EpochsOutlastTimers DEF T
    <2>2. Inserted(T, q, p, e, r)
      BY <1>3, <1>5, <2>1, InsertAtIs
    <2> HIDE DEF r, e
    <2>3. /\ r \in Seq(T) /\ Len(r) = N + 1
          /\ \A j \in 1..N + 1 : r[j] = IF j < p THEN q[j] ELSE IF j = p THEN e ELSE q[j - 1]
      BY <1>3, <2>2 DEF Inserted
    <2>4. ASSUME NEW j \in 1..N + 1 PROVE q2[j] = r[j]
      <3>0. j \in 0..N + 1 /\ j \in Nat /\ p \in Nat /\ q2[j] = [node |-> dq2[j], left |-> G(j)]
        BY <1>3, <1>4, <1>5
      <3>1. CASE j < p
        <4>1. dq2[j] = dq[j] /\ G(j) = F(j) /\ r[j] = q[j] /\ j \in 1..N
          BY <1>3, <1>5, <2>3, <3>0, <3>1
        <4> QED BY <1>3, <3>0, <4>1
      <3>2. CASE j = p
        <4>1. dq2[j] = n /\ G(j) = d /\ r[j] = e
          BY <1>5, <2>3, <3>0, <3>2
        <4> QED BY <3>0, <4>1 DEF e
      <3>3. CASE j > p
        <4>1. dq2[j] = dq[j - 1] /\ G(j) = F(j - 1) /\ r[j] = q[j - 1] /\ j - 1 \in 1..N
          BY <1>3, <1>5, <2>3, <3>0, <3>3
        <4> QED BY <1>3, <3>0, <4>1
      <3> QED BY <3>0, <3>1, <3>2, <3>3
    <2>5. Len(q2) = N + 1
      BY <1>4, <1>5
    <2> QED BY <1>4, <2>3, <2>4, <2>5, SeqEqual DEF r
  <1>8. n \notin {q[i].node : i \in DOMAIN q}
    <2>1. \A i \in 1..N : dq[i] # n
      BY <1>1, <1>3 DEF ToSet
    <2> QED BY <1>3, <2>1
  <1>9. p \in 1..Len(q) + 1
    BY <1>3, <1>5
  <1> QED BY <1>6, <1>7, <1>8, <1>9 DEF q, q2, e

\* A tick of the chain is a tick of the queue.
LEMMA TickRefines ==
  ASSUME IInv, Tick
  PROVE  Timers' = [i \in DOMAIN Timers |->
           [Timers[i] EXCEPT !.left = IF @ = 0 THEN 0 ELSE @ - 1]]
  <1>1. IInv' /\ dq' = dq /\ \A j \in 0..Len(dq) : Left(j)' = IF Left(j) = 0 THEN 0 ELSE Left(j) - 1
    BY TickStep
  <1>2. /\ Len(dq) \in Nat /\ DOMAIN Timers = 1..Len(dq)
        /\ \A i \in 1..Len(dq) : Timers[i] = [node |-> dq[i], left |-> Left(i)]
        /\ DOMAIN dq = 1..Len(dq)
    BY TimersAre, LeftIs DEF IInv, TimersOfNodes
  <1>3. Timers' = [i \in 1..Len(dq) |-> [node |-> dq[i], left |-> Left(i)']]
    BY <1>1, <1>2 DEF Timers
  <1>4. ASSUME NEW i \in 1..Len(dq)
        PROVE  [node |-> dq[i], left |-> Left(i)']
                 = [Timers[i] EXCEPT !.left = IF @ = 0 THEN 0 ELSE @ - 1]
    <2>1. i \in 0..Len(dq)
      BY <1>2
    <2>2. Left(i)' = IF Left(i) = 0 THEN 0 ELSE Left(i) - 1
      BY <1>1, <2>1
    <2> QED BY <1>2, <2>2
  <1> QED BY <1>2, <1>3, <1>4

\* Popping a node is popping its timer.
LEMMA PopRefines ==
  ASSUME IInv, PopExpired \/ Pop
  PROVE  /\ Timers # <<>> /\ Timers' = Tail(Timers)
         /\ PopExpired => Head(Timers).left = 0
  <1> DEFINE N == Len(dq)
             T == [node : Node, left : Nat]
             q == Timers
             q2 == Timers'
             t == Tail(q)
  <1>1. /\ IInv' /\ dq # <<>> /\ Len(dq') = N - 1
        /\ \A j \in 1..N - 1 : dq'[j] = dq[j + 1] /\ Left(j)' = Left(j + 1)
        /\ PopExpired => Left(1) = 0
    BY PopStep
  <1>2. /\ q \in Seq(T) /\ Len(q) = N
        /\ \A i \in 1..N : q[i] = [node |-> dq[i], left |-> Left(i)]
        /\ N \in Nat /\ dq \in Seq(Node)
    BY TimersAre, LeftIs DEF IInv, TypeOK, TimersOfNodes
  <1>3. N # 0 /\ 1 \in 1..N
    BY <1>1, <1>2, EmptySeq
  <1>4. /\ Timers' \in Seq(T) /\ Len(Timers') = Len(dq')
        /\ \A i \in 1..Len(dq') : (Timers')[i] = [node |-> dq'[i], left |-> Left(i)']
    <2>1. TypeOK' => TimersOfNodes'
      BY TimersAre, PTL
    <2> QED BY <1>1, <2>1 DEF IInv, TimersOfNodes
  <1> HIDE DEF N, T
  <1>5. \A i \in 1..N - 1 : (Timers')[i] = [node |-> dq[i + 1], left |-> Left(i + 1)]
    BY <1>1, <1>4
  <1> HIDE DEF q
  <1>6. q # <<>>
    <2>1. Len(<<>>) = 0
      OBVIOUS
    <2> QED BY <1>2, <1>3, <2>1
  <1>7. t \in Seq(T) /\ Len(t) = N - 1 /\ \A i \in 1..N - 1 : t[i] = q[i + 1]
    BY <1>2, <1>6, HeadTailProperties
  <1> HIDE DEF t
  <1>8. q2 = t
    <2>1. q2 \in Seq(T) /\ Len(q2) = N - 1
      BY <1>1, <1>4
    <2>2. \A i \in 1..N - 1 : q2[i] = t[i]
      <3> TAKE i \in 1..N - 1
      <3>1. i + 1 \in 1..N
        BY <1>2
      <3>2. q[i + 1] = [node |-> dq[i + 1], left |-> Left(i + 1)]
        BY <1>2, <3>1
      <3> QED BY <1>5, <1>7, <3>2
    <2> HIDE DEF q2
    <2> QED BY <1>7, <2>1, <2>2, SeqEqual
  <1>9. PopExpired => Head(q).left = 0
    <2>1. Head(q) = q[1]
      BY <1>2, <1>6
    <2> QED BY <1>1, <1>2, <1>3, <2>1
  <1> QED BY <1>6, <1>8, <1>9 DEF q, t

\* The chain implements the queue of timers: an insertion, a tick or a pop
\* never moves the due time of another node, and the nodes come out earliest
\* first and, among equals, in the order they went in.
THEOREM ChainIsTimerQueue == Spec => ImplementsTimerQueue
  <1>1. Init => TQ!Init
    <2> SUFFICES ASSUME Init PROVE TQ!Init
      OBVIOUS
    <2>1. dq = <<>> /\ DOMAIN dq = {}
      BY DEF Init
    <2>2. [i \in DOMAIN dq |-> [node |-> dq[i], left |-> Left(i)]] = <<>>
      BY <2>1
    <2> QED BY <2>2 DEF TQ!Init
  <1>2. IInv /\ [Next]_vars
          => [TQ!Next]_([i \in DOMAIN dq |-> [node |-> dq[i], left |-> Left(i)]])
    <2> SUFFICES ASSUME IInv, [Next]_vars PROVE TQ!Next \/ UNCHANGED Timers
      BY DEF Timers
    <2>1. ASSUME NEW n \in Node, NEW d \in 0..MaxDelta, Insert(n, d) PROVE TQ!Next
      <3>1. TQ!Insert(n, d)
        <4>1. \A q, i, e : TQ!InsertAt(q, i, e) = InsertAt(q, i, e)
          BY DEF TQ!InsertAt, InsertAt
        <4>2. PICK i \in 1..Len(Timers) + 1 :
                 /\ \A j \in DOMAIN Timers : j < i <=> Timers[j].left <= d
                 /\ Timers' = TQ!InsertAt(Timers, i, [node |-> n, left |-> d])
          BY <2>1, <4>1, InsertRefines
        <4>3. n \notin {Timers[k].node : k \in DOMAIN Timers}
          BY <2>1, InsertRefines
        <4> QED BY <4>2, <4>3 DEF TQ!Insert, TQ!Nodes, Timers
      <3> QED BY <3>1 DEF TQ!Next
    <2>2. CASE Tick
      <3>1. TQ!Tick
        BY <2>2, TickRefines DEF TQ!Tick, Timers
      <3> QED BY <3>1 DEF TQ!Next
    <2>3. CASE PopExpired
      <3>1. TQ!PopExpired
        BY <2>3, PopRefines DEF TQ!PopExpired, Timers
      <3> QED BY <3>1 DEF TQ!Next
    <2>4. CASE Pop
      <3>1. TQ!Pop
        BY <2>4, PopRefines DEF TQ!Pop, Timers
      <3> QED BY <3>1 DEF TQ!Next
    <2>5. CASE UNCHANGED vars
      BY <2>5 DEF vars, Timers, Left
    <2> QED BY <2>1, <2>2, <2>3, <2>4, <2>5 DEF Next
  <1> QED BY <1>1, <1>2, Inductive, PTL DEF Spec, TQ!Spec, ImplementsTimerQueue
=============================================================================
