-------------------------- MODULE KTickSchedProofs --------------------------
(***************************************************************************)
(* The tick machine with each of the scheduling policies, for any threads, *)
(* priorities, time slices, frames and deadlines: the composition          *)
(* implements KTick, and the policy's structures follow the machine.  With *)
(* EDF and the burst-cooldown server its deadlines follow the time.        *)
(***************************************************************************)
EXTENDS EdfDeadlines, KTickProofs, WellFoundedInduction

-----------------------------------------------------------------------------
(* Data.                                                                   *)

\* A nonempty set of naturals has a least element.
LEMMA LeastNatural ==
  ASSUME NEW T, T \subseteq Nat, T # {}
  PROVE  \E n \in T : \A m \in T : n <= m
  <1> DEFINE R == OpToRel(<, Nat)
  <1>1. IsWellFoundedOn(R, Nat)
    BY NatLessThanWellFounded
  <1>2. ASSUME NEW x \in Nat, NEW y \in Nat, <<x, y>> \notin R PROVE y <= x
    <2>1. R = {ss \in Nat \X Nat : ss[1] < ss[2]}
      BY DEF OpToRel
    <2> HIDE DEF R
    <2> QED BY <1>2, <2>1
  <1> HIDE DEF R
  <1>3. PICK n \in T : \A m \in T : <<m, n>> \notin R
    BY <1>1, WFMin
  <1>4. \A m \in T : n <= m
    <2> TAKE m \in T
    <2>1. m \in Nat /\ n \in Nat
      OBVIOUS
    <2>2. <<m, n>> \notin R
      BY <1>3
    <2> QED BY <2>1, <2>2, <1>2
  <1> QED BY <1>4

\* Induction: what fails nowhere first fails nowhere.
LEMMA NoFirstFailure ==
  ASSUME NEW T, T \subseteq Nat, 0 \notin T, \A n \in T : n - 1 \in T
  PROVE  T = {}
  <1> SUFFICES ASSUME T # {} PROVE FALSE
    OBVIOUS
  <1>1. PICK n \in T : \A m \in T : n <= m
    BY LeastNatural
  <1>2. n \in Nat /\ n - 1 \in T
    BY <1>1
  <1> QED BY <1>1, <1>2

\* A nonempty finite set of naturals has a greatest element.
LEMMA GreatestNatural ==
  ASSUME NEW S, S \subseteq Nat, IsFiniteSet(S), S # {}
  PROVE  \E b \in S : \A c \in S : b >= c
  <1> DEFINE n == Cardinality(S)
  <1>1. n \in Nat /\ ExistsBijection(1..n, S)
    BY FS_CardinalityType
  <1>2. PICK f \in Bijection(1..n, S) : TRUE
    BY <1>1 DEF ExistsBijection
  <1>3. f \in [1..n -> S] /\ \A b \in S : \E i \in 1..n : f[i] = b
    BY <1>2 DEF Bijection, Surjection
  <1>10. \A i \in 1..n : f[i] \in S /\ f[i] \in Nat
    <2> HIDE DEF n
    <2> QED BY <1>3
  <1> DEFINE P(k) == \E i \in 1..k : \A j \in 1..k : f[i] >= f[j]
             T == {k \in 0..n : k > 0 /\ ~P(k)}
  <1> HIDE DEF n
  <1>4. T \subseteq Nat /\ 0 \notin T
    <2> HIDE DEF P
    <2> QED BY <1>1
  <1>5. ASSUME NEW k \in T PROVE k - 1 \in T
    <2>1. k \in 1..n /\ ~P(k)
      <3> HIDE DEF P
      <3> QED BY <1>1
    <2>2. k > 1
      <3>1. k = 1 => P(1)
        BY <1>10, <2>1
      <3> QED BY <1>1, <2>1, <3>1
    <2>3. ASSUME NEW i \in 1..k - 1, \A j \in 1..k - 1 : f[i] >= f[j]
          PROVE  \E h \in 1..k : \A j \in 1..k : f[h] >= f[j]
      <3> HIDE DEF P, T
      <3>1. /\ i \in 1..k /\ k \in 1..k
            /\ \A j \in 1..k : j \in 1..n /\ (j = k \/ j \in 1..k - 1)
        BY <1>1, <2>1
      <3>2. \A j \in 1..k : f[j] \in Nat
        BY <1>10, <3>1
      <3>3. CASE f[i] >= f[k]
        BY <2>3, <3>1, <3>2, <3>3
      <3>4. CASE f[k] >= f[i]
        <4>1. ASSUME NEW j \in 1..k PROVE f[k] >= f[j]
          BY <2>3, <3>1, <3>2, <3>4
        <4> QED BY <3>1, <4>1
      <3>5. f[i] \in Nat /\ f[k] \in Nat
        BY <3>1, <3>2
      <3>6. f[i] >= f[k] \/ f[k] >= f[i]
        BY <3>5
      <3> QED BY <3>3, <3>4, <3>6
    <2>5. P(k - 1) => P(k)
      BY <2>3
    <2>4. k - 1 \in 0..n /\ k - 1 > 0
      BY <1>1, <2>1, <2>2
    <2> HIDE DEF P
    <2> QED BY <2>1, <2>4, <2>5
  <1>6. T = {}
    <2> HIDE DEF T
    <2> QED BY <1>4, <1>5, NoFirstFailure
  <1>7. n \in 0..n /\ n > 0
    <2>1. PICK i \in 1..n : TRUE
      BY <1>3
    <2> QED BY <1>1, <2>1
  <1>8. P(n)
    <2> HIDE DEF P
    <2> QED BY <1>6, <1>7
  <1>9. PICK i \in 1..n : \A j \in 1..n : f[i] >= f[j]
    BY <1>8
  <1> QED BY <1>3, <1>9

\* A set of positions with every position before each of its own is a prefix.
LEMMA PrefixIs ==
  ASSUME NEW n \in Nat, NEW B, B \subseteq 1..n, \A i \in B : \A j \in 1..n : j < i => j \in B
  PROVE  Cardinality(B) \in 0..n /\ B = 1..Cardinality(B)
  <1> DEFINE T == {j \in 1..n + 1 : j \notin B}
  <1>1. T \subseteq Nat /\ n + 1 \in T
    OBVIOUS
  <1>2. PICK k \in T : \A m \in T : k <= m
    BY <1>1, LeastNatural
  <1>3. k \in 1..n + 1 /\ B = 1..k - 1
    <2>1. k \in 1..n + 1 /\ k \notin B /\ \A m \in 1..n + 1 : m \notin B => k <= m
      BY <1>2
    <2>2. ASSUME NEW i \in B PROVE i < k
      BY <2>1
    <2>3. ASSUME NEW i \in 1..k - 1 PROVE i \in B
      BY <2>1
    <2>4. B \subseteq 1..k - 1
      <3> SUFFICES ASSUME NEW i \in B PROVE i \in 1..k - 1
        OBVIOUS
      <3>1. i < k /\ i \in 1..n
        BY <2>2
      <3> QED BY <2>1, <3>1
    <2> HIDE DEF T
    <2> QED BY <2>1, <2>3, <2>4
  <1>4. Cardinality(1..k - 1) = k - 1
    <2>1. k - 1 \in Int /\ 1 \in Int /\ k \in Int
      BY <1>3
    <2>2. Cardinality(1..k - 1) = IF 1 > k - 1 THEN 0 ELSE k - 1 - 1 + 1
      BY <2>1, FS_Interval
    <2> QED BY <1>3, <2>2
  <1> QED BY <1>3, <1>4

\* An order of a finite set lists each of its elements once.
LEMMA OrderIs ==
  ASSUME NEW S, IsFiniteSet(S), NEW order \in SetToSeqs(S)
  PROVE  order \in Seq(S) /\ IsInjective(order) /\ ToSet(order) = S
  <1> DEFINE n == Cardinality(S)
  <1>1. n \in Nat /\ order \in [1..n -> S] /\ \A i, j \in 1..n : i # j => order[i] # order[j]
    BY FS_CardinalityType DEF SetToSeqs
  <1>2. IsFiniteSet(1..n) /\ Cardinality(1..n) = n
    <2>1. 1 \in Int /\ n \in Int
      BY <1>1
    <2>2. IsFiniteSet(1..n) /\ Cardinality(1..n) = IF 1 > n THEN 0 ELSE n - 1 + 1
      BY <2>1, FS_Interval
    <2> QED BY <1>1, <2>2
  <1> HIDE DEF n
  <1>3. order \in Seq(S) /\ DOMAIN order = 1..n /\ IsInjective(order)
    BY <1>1 DEF IsInjective
  <1>4. order \in Injection(1..n, S)
    BY <1>1, <1>3 DEF Injection, IsInjective
  <1>5. order \in Surjection(1..n, S)
    BY <1>2, <1>4, FS_Injection DEF n
  <1> QED BY <1>3, <1>5 DEF ToSet, Surjection

\* Taking the first element away leaves the others.
LEMMA PopFirst ==
  ASSUME NEW S, NEW s \in Seq(S), s # <<>>, IsInjective(s)
  PROVE  /\ Head(s) \in ToSet(s) /\ Head(s) \in S /\ Head(s) = s[1] /\ 1 \in DOMAIN s
         /\ Tail(s) \in Seq(S) /\ IsInjective(Tail(s))
         /\ Len(Tail(s)) = Len(s) - 1 /\ \A i \in 1..Len(s) - 1 : Tail(s)[i] = s[i + 1]
         /\ ToSet(Tail(s)) = ToSet(s) \ {Head(s)}
         /\ Len(s) = 1 <=> ToSet(Tail(s)) = {}
  <1> DEFINE r == Tail(s)
  <1>1. Len(s) \in Nat \ {0} /\ DOMAIN s = 1..Len(s) /\ Head(s) = s[1] /\ s[1] \in S
    BY EmptySeq, LenProperties, ElementOfSeq
  <1>2. r \in Seq(S) /\ Len(r) = Len(s) - 1 /\ \A i \in 1..Len(s) - 1 : r[i] = s[i + 1]
    <2>1. r \in Seq(S) /\ Len(r) = Len(s) - 1 /\ \A i \in 1..Len(r) : r[i] = s[i + 1]
      BY HeadTailProperties
    <2> HIDE DEF r
    <2> QED BY <2>1
  <1>3. DOMAIN r = 1..Len(s) - 1
    BY <1>2, LenProperties
  <1> HIDE DEF r
  <1>4. IsInjective(r)
    <2> SUFFICES ASSUME NEW i \in 1..Len(s) - 1, NEW j \in 1..Len(s) - 1, r[i] = r[j] PROVE i = j
      BY <1>3 DEF IsInjective
    <2>1. i + 1 \in DOMAIN s /\ j + 1 \in DOMAIN s /\ s[i + 1] = s[j + 1]
      BY <1>1, <1>2
    <2>2. i + 1 = j + 1
      BY <2>1 DEF IsInjective
    <2> QED BY <2>2
  <1>5. ToSet(r) \subseteq ToSet(s) \ {s[1]}
    <2> SUFFICES ASSUME NEW i \in 1..Len(s) - 1 PROVE r[i] \in ToSet(s) /\ r[i] # s[1]
      BY <1>3 DEF ToSet
    <2>1. i + 1 \in DOMAIN s /\ 1 \in DOMAIN s /\ i + 1 # 1 /\ r[i] = s[i + 1]
      BY <1>1, <1>2
    <2> QED BY <2>1 DEF ToSet, IsInjective
  <1>6. ToSet(s) \ {s[1]} \subseteq ToSet(r)
    <2> SUFFICES ASSUME NEW i \in 1..Len(s), s[i] # s[1] PROVE s[i] \in ToSet(r)
      BY <1>1 DEF ToSet
    <2>1. i - 1 \in 1..Len(s) - 1 /\ r[i - 1] = s[i]
      BY <1>1, <1>2
    <2> QED BY <1>3, <2>1 DEF ToSet
  <1>7. Len(s) = 1 <=> ToSet(r) = {}
    <2>1. Len(s) = 1 => DOMAIN r = {}
      BY <1>3
    <2>2. Len(s) # 1 => 1 \in DOMAIN r
      BY <1>1, <1>3
    <2> QED BY <2>1, <2>2 DEF ToSet
  <1>8. Head(s) \in ToSet(s)
    BY <1>1 DEF ToSet
  <1> QED BY <1>1, <1>2, <1>4, <1>5, <1>6, <1>7, <1>8 DEF r

\* t is s with e put in at p
Inserted(S, s, p, e, t) ==
  /\ t \in Seq(S)
  /\ Len(t) = Len(s) + 1
  /\ \A j \in 1..Len(s) + 1 : t[j] = IF j < p THEN s[j] ELSE IF j = p THEN e ELSE s[j - 1]

\* An insertion puts an element at its place and moves the later ones up.
LEMMA InsertAtIs ==
  ASSUME NEW S, NEW s \in Seq(S), NEW p \in 1..Len(s) + 1, NEW e \in S
  PROVE  Inserted(S, s, p, e, InsertAt(s, p, e))
  <1> DEFINE a == SubSeq(s, 1, p - 1)
             b == SubSeq(s, p, Len(s))
  <1>1. Len(s) \in Nat /\ p \in Int /\ \A j \in 1..Len(s) : s[j] \in S
    BY LenProperties, ElementOfSeq
  <1>2. a \in Seq(S) /\ Len(a) = p - 1 /\ \A j \in 1..p - 1 : a[j] = s[j]
    <2>1. \A j \in 1..p - 1 : s[j] \in S
      BY <1>1
    <2>2. p - 1 \in Int /\ 1 \in Int
      BY <1>1
    <2> QED BY <1>1, <2>1, <2>2, SubSeqProperties
  <1>3. b \in Seq(S) /\ Len(b) = Len(s) - p + 1 /\ \A j \in 1..Len(s) - p + 1 : b[j] = s[p + j - 1]
    <2>1. \A j \in p..Len(s) : s[j] \in S
      BY <1>1
    <2> QED BY <1>1, <2>1, SubSeqProperties
  <1> HIDE DEF a, b
  <1>4. <<e>> \in Seq(S) /\ Len(<<e>>) = 1 /\ <<e>>[1] = e
    OBVIOUS
  <1> DEFINE o == <<e>>
  <1>5. o \in Seq(S) /\ Len(o) = 1 /\ o[1] = e
    BY <1>4
  <1> HIDE DEF o
  <1> DEFINE c == a \o o
  <1>6. c \in Seq(S) /\ Len(c) = p /\ \A j \in 1..p : c[j] = IF j < p THEN s[j] ELSE e
    <2>1. c \in Seq(S) /\ Len(c) = Len(a) + Len(o)
          /\ \A i \in 1..Len(a) + Len(o) : c[i] = IF i <= Len(a) THEN a[i] ELSE o[i - Len(a)]
      BY <1>2, <1>5, ConcatProperties
    <2> HIDE DEF c
    <2>2. Len(c) = p
      BY <1>1, <1>2, <1>5, <2>1
    <2>3. ASSUME NEW j \in 1..p PROVE c[j] = IF j < p THEN s[j] ELSE e
      <3>1. c[j] = IF j <= p - 1 THEN a[j] ELSE o[j - (p - 1)]
        BY <1>1, <1>2, <1>5, <2>1
      <3>2. CASE j < p
        BY <1>1, <1>2, <3>1, <3>2
      <3>3. CASE j = p
        BY <1>1, <1>5, <3>1, <3>3
      <3> QED BY <1>1, <3>2, <3>3
    <2> QED BY <2>1, <2>2, <2>3
  <1> HIDE DEF c
  <1> DEFINE r == c \o b
  <1>7. /\ r \in Seq(S) /\ Len(r) = Len(s) + 1
        /\ \A j \in 1..Len(s) + 1 : r[j] = IF j <= p THEN c[j] ELSE b[j - p]
    <2>1. r \in Seq(S) /\ Len(r) = Len(c) + Len(b)
          /\ \A i \in 1..Len(c) + Len(b) : r[i] = IF i <= Len(c) THEN c[i] ELSE b[i - Len(c)]
      BY <1>3, <1>6, ConcatProperties
    <2> HIDE DEF r
    <2>2. Len(c) + Len(b) = Len(s) + 1 /\ Len(c) = p
      BY <1>1, <1>3, <1>6
    <2>3. r \in Seq(S) /\ Len(r) = Len(s) + 1
          /\ \A j \in 1..Len(s) + 1 : r[j] = IF j <= p THEN c[j] ELSE b[j - p]
      BY <2>1, <2>2
    <2> QED BY <2>3
  <1> HIDE DEF r
  <1>8. ASSUME NEW j \in 1..Len(s) + 1
        PROVE  r[j] = IF j < p THEN s[j] ELSE IF j = p THEN e ELSE s[j - 1]
    <2>1. CASE j <= p
      BY <1>1, <1>6, <1>7, <2>1
    <2>2. CASE j > p
      <3>1. j - p \in 1..Len(s) - p + 1 /\ p + (j - p) - 1 = j - 1
        BY <1>1, <2>2
      <3>2. b[j - p] = s[j - 1]
        BY <1>3, <3>1
      <3> QED BY <1>1, <1>7, <2>2, <3>2
    <2> QED BY <1>1, <2>1, <2>2
  <1>9. InsertAt(s, p, e) = r
    BY DEF InsertAt, a, b, c, o, r
  <1> QED BY <1>7, <1>8, <1>9 DEF Inserted

-----------------------------------------------------------------------------
(* The policy's state between two of its operations.                       *)

\* Round robin: the queues hold the ready threads R, each in the queue of its
\* priority, and the bitmap tells which are not empty.
HeldRr(s, R) ==
  /\ s \in [qs : [Rr!Prios -> Seq(Thread)], activeQs : SUBSET Rr!Prios, remaining : [Thread -> Int]]
  /\ \A p \in Rr!Prios : ToSet(s.qs[p]) = {t \in R : Prio[t] = p} /\ IsInjective(s.qs[p])
  /\ s.activeQs = {Prio[t] : t \in R}

\* Cyclic: the ready threads are counted.
HeldCyclic(s, R) ==
  /\ s \in [clock : 0..Len(Frames), numReady : Nat, remaining : [Thread -> Int]]
  /\ s.numReady = Cardinality(R)

Sorted(s) == \A i, j \in DOMAIN s.chain : i < j => s.left[s.chain[i]] <= s.left[s.chain[j]]

\* Earliest deadline first: the chain holds the ready threads by the time left
\* to their deadlines.
HeldEdf(s, R) ==
  /\ s \in [chain : Seq(Thread), left : [Thread -> Nat]]
  /\ ToSet(s.chain) = R /\ IsInjective(s.chain)
  /\ Sorted(s)

Held(s, R) ==
  /\ policy = "RR" => HeldRr(s, R)
  /\ policy = "CYCLIC" => HeldCyclic(s, R)
  /\ policy = "EDF" => HeldEdf(s, R)

\* what is left to a thread of its time slice or to its deadline
TimeLeft(s, t) == IF policy = "EDF" THEN s.left[t] ELSE s.remaining[t]

\* what the tick may leave: a time slice may be used up, a deadline is renewed
Charged(s, t) == IF policy = "EDF" THEN s.left[t] > 0 ELSE s.remaining[t] >= 0

\* EDF: the time l to the deadline of thread t, when it is ready again
Fresh(t, l) == IF l = 0 THEN VirtualDeadline[t] ELSE l

\* EDF with BCS: what a tick on the core leaves of it, by m's budget
Paid(m, t, l) == IF m.currentBudget[t] = 0 THEN Edf!Monus(l - 1, period[t]) ELSE Fresh(t, l - 1)

\* in the step from s to n the policy charges thread t, in state from, so
PaidFor(m, from, s, n, t) ==
  policy = "EDF" /\ BCS /\ from # "THREAD_DEFTICK_SLEEP" => n.left[t] = Paid(m, t, s.left[t])

\* none of the threads R goes before t
First(s, R, t) ==
  /\ policy = "RR" => \A u \in R : Prio[u] <= Prio[t]
  /\ policy = "EDF" => \A u \in R : s.left[t] <= s.left[u]

\* The policy's state s follows the machine m, at any time in a handler.
Follows(m, s) ==
  /\ Held(s, Ready(m))
  /\ \A t \in Thread : m.state[t] \in DefTickStates => TimeLeft(s, t) > 0
  /\ \A t \in Thread : m.state[t] = "PENDING" => Charged(s, t)

\* before the running thread is charged
Uncharged(m, s) ==
  /\ Follows(m, s)
  /\ \A t \in Thread : m.running = t => TimeLeft(s, t) > 0

\* once it is charged
Ticked(m, s) ==
  /\ Follows(m, s)
  /\ \A t \in Thread : m.running = t => Charged(s, t) \/ (policy = "EDF" /\ m.currentBudget[t] = 0)

\* Between two handlers: the running thread, or the one preempted by LSRs that
\* met no tick since, is the policy's choice.
AtRest(m, s) ==
  /\ Uncharged(m, s)
  /\ \A t \in Thread : m.state[t] \in {"RUNNING", "DEFTICK_PENDING"} => First(s, Ready(m), t)

SInv == policy \in {"RR", "CYCLIC", "EDF"} /\ IInv /\ AtRest(Machine, sched)

-----------------------------------------------------------------------------
(* Round robin.                                                            *)

\* bitmapFls finds the highest queue that is not empty.
LEMMA FlsIs ==
  ASSUME NEW bits, bits \subseteq Nat, IsFiniteSet(bits), NEW low \in Nat
  PROVE  LET b == Rr!Fls(bits, low)
         IN  /\ b = -1 \/ (b \in bits /\ b >= low)
             /\ \A c \in bits : c >= low => b # -1 /\ b >= c
  <1> DEFINE set == {b \in bits : b >= low}
             top == CHOOSE b \in set : \A c \in set : b >= c
  <1>1. Rr!Fls(bits, low) = IF set = {} THEN -1 ELSE top
    BY DEF Rr!Fls
  <1>2. CASE set = {}
    BY <1>1, <1>2
  <1>3. CASE set # {}
    <2>1. IsFiniteSet(set) /\ set \subseteq Nat
      BY FS_Subset
    <2>2. top \in set /\ \A c \in set : top >= c
      BY <1>3, <2>1, GreatestNatural
    <2>3. top \in Nat
      BY <2>1, <2>2
    <2> HIDE DEF top
    <2> QED BY <1>1, <1>3, <2>2, <2>3
  <1> QED BY <1>2, <1>3

\* The priorities in use.
LEMMA PriosAre ==
  /\ Rr!Prios \subseteq Nat
  /\ \A t \in Thread : Prio[t] \in Nat /\ Prio[t] \in Rr!Prios
  /\ \A R \in SUBSET Thread : LET bits == {Prio[t] : t \in R}
                              IN  IsFiniteSet(bits) /\ bits \subseteq Nat /\ bits \subseteq Rr!Prios
  <1>1. \A t \in Thread : Prio[t] \in Nat /\ Prio[t] \in Rr!Prios
    BY PolicyConfiguration DEF Rr!Prios
  <1>2. ASSUME NEW R \in SUBSET Thread PROVE IsFiniteSet({Prio[t] : t \in R})
    <2>1. IsFiniteSet(R)
      BY PolicyConfiguration, FS_Subset
    <2> DEFINE S == {Prio[t] : t \in R}
               f == [t \in R |-> Prio[t]]
    <2>2. f \in Surjection(R, S)
      BY DEF Surjection
    <2> QED BY <2>1, <2>2, FS_Surjection
  <1>3. Rr!Prios \subseteq Nat
    BY <1>1 DEF Rr!Prios
  <1> QED BY <1>1, <1>2, <1>3

\* A thread that is pushed waits behind those of its priority.
LEMMA RrPush ==
  ASSUME NEW R \in SUBSET Thread, NEW s, HeldRr(s, R), NEW t \in Thread, t \notin R
  PROVE  HeldRr(Rr!Push(s, t), R \cup {t}) /\ Rr!Push(s, t).remaining = s.remaining
  <1> DEFINE n == Rr!Push(s, t)
             Q == R \cup {t}
             q == [s.qs EXCEPT ![Prio[t]] = Append(@, t)]
  <1>1. /\ s \in [qs : [Rr!Prios -> Seq(Thread)], activeQs : SUBSET Rr!Prios, remaining : [Thread -> Int]]
        /\ s.qs \in [Rr!Prios -> Seq(Thread)]
        /\ \A p \in Rr!Prios : ToSet(s.qs[p]) = {u \in R : Prio[u] = p} /\ IsInjective(s.qs[p])
        /\ s.activeQs = {Prio[u] : u \in R}
        /\ Prio[t] \in Rr!Prios
    BY PriosAre DEF HeldRr
  <1>2. n = [s EXCEPT !.qs = q, !.activeQs = s.activeQs \cup {Prio[t]}]
    BY DEF Rr!Push
  <1>3. /\ Append(s.qs[Prio[t]], t) \in Seq(Thread)
        /\ ToSet(Append(s.qs[Prio[t]], t)) = ToSet(s.qs[Prio[t]]) \cup {t}
        /\ IsInjective(Append(s.qs[Prio[t]], t))
    <2>1. s.qs[Prio[t]] \in Seq(Thread) /\ t \notin ToSet(s.qs[Prio[t]]) /\ IsInjective(s.qs[Prio[t]])
      BY <1>1
    <2> QED BY <2>1, PushOnStack
  <1>4. /\ q \in [Rr!Prios -> Seq(Thread)]
        /\ \A p \in Rr!Prios : q[p] = IF p = Prio[t] THEN Append(s.qs[p], t) ELSE s.qs[p]
    BY <1>1, <1>3
  <1> HIDE DEF n, q
  <1>5. /\ n \in [qs : [Rr!Prios -> Seq(Thread)], activeQs : SUBSET Rr!Prios, remaining : [Thread -> Int]]
        /\ n.qs = q /\ n.activeQs = s.activeQs \cup {Prio[t]} /\ n.remaining = s.remaining
    BY <1>1, <1>2, <1>4
  <1>6. ASSUME NEW p \in Rr!Prios
        PROVE  ToSet(n.qs[p]) = {u \in Q : Prio[u] = p} /\ IsInjective(n.qs[p])
    <2>1. CASE p = Prio[t]
      <3>1. n.qs[p] = Append(s.qs[Prio[t]], t)
        BY <1>4, <1>5, <2>1
      <3>2. {u \in Q : Prio[u] = p} = {u \in R : Prio[u] = p} \cup {t}
        BY <2>1
      <3> QED BY <1>1, <1>3, <2>1, <3>1, <3>2
    <2>2. CASE p # Prio[t]
      <3>1. n.qs[p] = s.qs[p]
        BY <1>4, <1>5, <2>2
      <3>2. {u \in Q : Prio[u] = p} = {u \in R : Prio[u] = p}
        BY <2>2
      <3> QED BY <1>1, <3>1, <3>2
    <2> QED BY <2>1, <2>2
  <1>7. n.activeQs = {Prio[u] : u \in Q}
    BY <1>1, <1>5
  <1> QED BY <1>5, <1>6, <1>7 DEF HeldRr, n

\* The first thread of the highest queue is popped, with a new time slice.
LEMMA RrPop ==
  ASSUME NEW R \in SUBSET Thread, NEW s, HeldRr(s, R)
  PROVE  LET p == Rr!Pop(s)
         IN  /\ R = {} => p.task = Idle /\ p.sched = s
             /\ R # {} => /\ p.task \in R
                          /\ HeldRr(p.sched, R \ {p.task})
                          /\ \A u \in R : Prio[u] <= Prio[p.task]
                          /\ p.sched.remaining = [s.remaining EXCEPT ![p.task] = Timeslice[p.task]]
  <1> DEFINE idx == Rr!Fls(s.activeQs, 0)
             p == Rr!Pop(s)
  <1>1. /\ s \in [qs : [Rr!Prios -> Seq(Thread)], activeQs : SUBSET Rr!Prios, remaining : [Thread -> Int]]
        /\ s.qs \in [Rr!Prios -> Seq(Thread)] /\ s.activeQs \in SUBSET Rr!Prios
        /\ s.remaining \in [Thread -> Int]
        /\ \A i \in Rr!Prios : ToSet(s.qs[i]) = {u \in R : Prio[u] = i} /\ IsInjective(s.qs[i])
        /\ s.activeQs = {Prio[u] : u \in R}
    BY DEF HeldRr
  <1>2. IsFiniteSet(s.activeQs) /\ s.activeQs \subseteq Nat
    BY <1>1, PriosAre
  <1>3. /\ idx = -1 \/ (idx \in s.activeQs /\ idx >= 0)
        /\ \A c \in s.activeQs : idx # -1 /\ idx >= c
    BY <1>2, FlsIs
  <1>4. ASSUME R = {} PROVE p.task = Idle /\ p.sched = s
    <2>1. idx = -1
      BY <1>1, <1>3, <1>4
    <2> QED BY <2>1 DEF Rr!Pop
  <1>5. ASSUME R # {}
        PROVE  /\ p.task \in R
               /\ HeldRr(p.sched, R \ {p.task})
               /\ \A u \in R : Prio[u] <= Prio[p.task]
               /\ p.sched.remaining = [s.remaining EXCEPT ![p.task] = Timeslice[p.task]]
    <2>1. idx \in s.activeQs /\ idx \in Rr!Prios /\ idx \in Nat /\ ~(idx < 0)
          /\ \A u \in R : Prio[u] <= idx
      <3>1. PICK u \in R : TRUE
        BY <1>5
      <3>2. Prio[u] \in s.activeQs
        BY <1>1, <3>1
      <3>3. idx # -1
        BY <1>3, <3>2
      <3> HIDE DEF idx
      <3>4. idx \in s.activeQs /\ idx \in Nat /\ idx \in Rr!Prios
        BY <1>1, <1>2, <1>3, <3>3
      <3>5. \A v \in R : idx >= Prio[v] /\ Prio[v] \in Nat
        <4> TAKE v \in R
        <4>1. Prio[v] \in s.activeQs /\ v \in Thread
          BY <1>1
        <4> QED BY <1>3, <4>1, PriosAre
      <3>6. \A v \in R : Prio[v] <= idx
        BY <3>4, <3>5
      <3> QED BY <3>4, <3>6
    <2> DEFINE old == s.qs[idx]
               t == Head(old)
               q == [s.qs EXCEPT ![idx] = Tail(@)]
               a == IF Len(old) = 1 THEN s.activeQs \ {idx} ELSE s.activeQs
               r == [s.remaining EXCEPT ![t] = Timeslice[t]]
    <2>2. /\ old \in Seq(Thread) /\ IsInjective(old) /\ ToSet(old) = {u \in R : Prio[u] = idx}
          /\ old # <<>>
      <3>1. \E u \in R : Prio[u] = idx
        BY <1>1, <2>1
      <3> QED BY <1>1, <2>1, <3>1, EmptyStack
    <2>3. p.task = t /\ p.sched = [s EXCEPT !.qs = q, !.activeQs = a, !.remaining = r]
      BY <2>1 DEF Rr!Pop
    <2> HIDE DEF p, idx
    <2>4. /\ t \in ToSet(old) /\ Tail(old) \in Seq(Thread) /\ IsInjective(Tail(old))
          /\ ToSet(Tail(old)) = ToSet(old) \ {t}
          /\ Len(old) = 1 <=> ToSet(Tail(old)) = {}
      BY <2>2, PopFirst
    <2> HIDE DEF old, t
    <2>5. t \in R /\ Prio[t] = idx /\ t \in Thread /\ Timeslice[t] \in Nat \ {0}
      BY <2>2, <2>4, PolicyConfiguration
    <2>6. /\ q \in [Rr!Prios -> Seq(Thread)]
          /\ \A i \in Rr!Prios : q[i] = IF i = idx THEN Tail(old) ELSE s.qs[i]
      BY <1>1, <2>1, <2>4 DEF old
    <2>7. a \in SUBSET Rr!Prios /\ a = {Prio[u] : u \in R \ {t}}
      <3>1. CASE Len(old) = 1
        <4>1. \A u \in R \ {t} : Prio[u] # idx
          BY <2>2, <2>4, <3>1
        <4> QED BY <1>1, <2>5, <3>1, <4>1
      <3>2. CASE Len(old) # 1
        <4>1. PICK u \in R \ {t} : Prio[u] = idx
          BY <2>2, <2>4, <3>2
        <4> QED BY <1>1, <2>5, <3>2, <4>1
      <3> QED BY <3>1, <3>2
    <2>8. r \in [Thread -> Int]
      BY <1>1, <2>5
    <2> HIDE DEF q, a, r
    <2>9. /\ p.sched \in [qs : [Rr!Prios -> Seq(Thread)], activeQs : SUBSET Rr!Prios, remaining : [Thread -> Int]]
          /\ p.sched.qs = q /\ p.sched.activeQs = a /\ p.sched.remaining = r
      BY <1>1, <2>3, <2>6, <2>7, <2>8
    <2>10. ASSUME NEW i \in Rr!Prios
           PROVE  ToSet(p.sched.qs[i]) = {u \in R \ {t} : Prio[u] = i} /\ IsInjective(p.sched.qs[i])
      <3>1. CASE i = idx
        BY <2>2, <2>4, <2>6, <2>9, <3>1
      <3>2. CASE i # idx
        BY <1>1, <2>5, <2>6, <2>9, <3>2
      <3> QED BY <3>1, <3>2
    <2>11. HeldRr(p.sched, R \ {t})
      BY <2>7, <2>9, <2>10 DEF HeldRr
    <2> QED BY <2>1, <2>3, <2>5, <2>9, <2>11 DEF r
  <1> QED BY <1>4, <1>5

\* A tick is taken from the time slice.
LEMMA RrTick ==
  ASSUME NEW R \in SUBSET Thread, NEW s, HeldRr(s, R), NEW t \in Thread
  PROVE  LET n == Rr!TickCallback(s, t)
         IN  HeldRr(n, R) /\ n.remaining = [s.remaining EXCEPT ![t] = @ - 1]
  <1> DEFINE n == Rr!TickCallback(s, t)
             r == [s.remaining EXCEPT ![t] = @ - 1]
  <1>1. /\ s \in [qs : [Rr!Prios -> Seq(Thread)], activeQs : SUBSET Rr!Prios, remaining : [Thread -> Int]]
        /\ s.remaining \in [Thread -> Int]
    BY DEF HeldRr
  <1>2. n = [s EXCEPT !.remaining = r] /\ r \in [Thread -> Int]
    BY <1>1 DEF Rr!TickCallback
  <1> HIDE DEF n, r
  <1>3. /\ n \in [qs : [Rr!Prios -> Seq(Thread)], activeQs : SUBSET Rr!Prios, remaining : [Thread -> Int]]
        /\ n.qs = s.qs /\ n.activeQs = s.activeQs /\ n.remaining = r
    BY <1>1, <1>2
  <1>4. HeldRr(n, R)
    BY <1>3 DEF HeldRr
  <1> QED BY <1>3, <1>4 DEF n, r

\* A thread makes room for one of a higher priority, or of its own once its
\* time slice is used up; alone at its priority it starts another slice.
LEMMA RrAsk ==
  ASSUME NEW R \in SUBSET Thread, NEW s, HeldRr(s, R), NEW t \in Thread
  PROVE  LET asked == Rr!ShouldReschedule(s, t)
         IN  /\ HeldRr(asked.sched, R)
             /\ \A u \in Thread \ {t} : asked.sched.remaining[u] = s.remaining[u]
             /\ asked.yes \in BOOLEAN
             /\ asked.yes => R # {}
             /\ ~asked.yes /\ s.remaining[t] >= 0 =>
                  asked.sched.remaining[t] > 0 /\ \A u \in R : Prio[u] <= Prio[t]
             /\ s.remaining[t] > 0 /\ (\A u \in R : Prio[u] <= Prio[t]) => ~asked.yes
  <1> DEFINE asked == Rr!ShouldReschedule(s, t)
             idx == Rr!Fls(s.activeQs, Prio[t])
             done == s.remaining[t] = 0
             r == IF idx < Prio[t] /\ done THEN [s.remaining EXCEPT ![t] = Timeslice[t]] ELSE s.remaining
  <1>1. /\ s \in [qs : [Rr!Prios -> Seq(Thread)], activeQs : SUBSET Rr!Prios, remaining : [Thread -> Int]]
        /\ s.remaining \in [Thread -> Int] /\ s.remaining[t] \in Int
        /\ s.activeQs = {Prio[u] : u \in R}
    BY DEF HeldRr
  <1>2. Prio[t] \in Nat /\ Timeslice[t] \in Nat \ {0} /\ t # Idle
    BY PolicyConfiguration, Configuration
  <1>3. IsFiniteSet(s.activeQs) /\ s.activeQs \subseteq Nat
    BY <1>1, PriosAre
  <1>4. /\ idx = -1 \/ (idx \in s.activeQs /\ idx >= Prio[t])
        /\ \A c \in s.activeQs : c >= Prio[t] => idx # -1 /\ idx >= c
    BY <1>2, <1>3, FlsIs
  <1>5. /\ asked.yes = (idx > Prio[t] \/ (idx = Prio[t] /\ done))
        /\ asked.sched = IF idx < Prio[t] /\ done THEN [s EXCEPT !.remaining[t] = Timeslice[t]] ELSE s
    BY <1>2 DEF Rr!ShouldReschedule
  <1>6. /\ asked.sched \in [qs : [Rr!Prios -> Seq(Thread)], activeQs : SUBSET Rr!Prios, remaining : [Thread -> Int]]
        /\ asked.sched.qs = s.qs /\ asked.sched.activeQs = s.activeQs /\ asked.sched.remaining = r
    <2> HIDE DEF asked, idx
    <2>1. CASE idx < Prio[t] /\ done
      <3>1. r = [s.remaining EXCEPT ![t] = Timeslice[t]] /\ r \in [Thread -> Int]
        BY <1>1, <1>2, <2>1
      <3>2. asked.sched = [s EXCEPT !.remaining = r]
        BY <1>1, <1>5, <2>1, <3>1
      <3> HIDE DEF r
      <3> QED BY <1>1, <3>1, <3>2
    <2>2. CASE ~(idx < Prio[t] /\ done)
      BY <1>1, <1>5, <2>2
    <2> QED BY <2>1, <2>2
  <1>7. HeldRr(asked.sched, R)
    <2> HIDE DEF asked, r
    <2> QED BY <1>6 DEF HeldRr
  <1>8. \A u \in R : Prio[u] \in s.activeQs /\ Prio[u] \in Nat
    BY <1>1, PriosAre
  <1> HIDE DEF asked, idx
  <1>9. idx \in Int /\ (idx # -1 => idx \in s.activeQs /\ idx >= Prio[t])
    BY <1>3, <1>4
  <1>15. asked.yes <=> (idx > Prio[t] \/ (idx = Prio[t] /\ done))
    BY <1>5
  <1>10. ASSUME asked.yes PROVE R # {}
    <2>1. idx # -1
      BY <1>2, <1>10, <1>15
    <2> QED BY <1>1, <1>9, <2>1
  <1>11. ASSUME ~asked.yes, s.remaining[t] >= 0
         PROVE  asked.sched.remaining[t] > 0 /\ \A u \in R : Prio[u] <= Prio[t]
    <2>1. idx = -1 \/ (idx = Prio[t] /\ ~done)
      BY <1>1, <1>2, <1>9, <1>11, <1>15
    <2>2. asked.sched.remaining[t] > 0
      BY <1>1, <1>2, <1>6, <1>11, <2>1
    <2>3. ASSUME NEW u \in R PROVE Prio[u] <= Prio[t]
      BY <1>2, <1>4, <1>8, <2>1
    <2> QED BY <2>2, <2>3
  <1>12. ASSUME s.remaining[t] > 0, \A u \in R : Prio[u] <= Prio[t] PROVE ~asked.yes
    <2>1. ~done
      BY <1>12
    <2>2. ~(idx > Prio[t])
      <3>1. CASE idx = -1
        BY <1>2, <3>1
      <3>2. CASE idx # -1
        BY <1>1, <1>2, <1>8, <1>9, <1>12, <3>2
      <3> QED BY <3>1, <3>2
    <2> QED BY <1>5, <2>1, <2>2
  <1>13. \A u \in Thread \ {t} : asked.sched.remaining[u] = s.remaining[u]
    BY <1>1, <1>6
  <1>14. asked.yes \in BOOLEAN
    BY <1>5
  <1> QED BY <1>7, <1>10, <1>11, <1>12, <1>13, <1>14 DEF asked

-----------------------------------------------------------------------------
(* Cyclic.                                                                 *)

\* One more thread is ready.
LEMMA CyclicPush ==
  ASSUME NEW R \in SUBSET Thread, NEW s, HeldCyclic(s, R), NEW t \in Thread, t \notin R
  PROVE  HeldCyclic(Cyclic!Push(s, t), R \cup {t}) /\ Cyclic!Push(s, t).remaining = s.remaining
  <1> DEFINE n == Cyclic!Push(s, t)
  <1>1. /\ s \in [clock : 0..Len(Frames), numReady : Nat, remaining : [Thread -> Int]]
        /\ s.numReady = Cardinality(R) /\ s.numReady \in Nat
    BY DEF HeldCyclic
  <1>2. n = [s EXCEPT !.numReady = s.numReady + 1]
    BY <1>1 DEF Cyclic!Push
  <1> HIDE DEF n
  <1>3. /\ n \in [clock : 0..Len(Frames), numReady : Nat, remaining : [Thread -> Int]]
        /\ n.numReady = s.numReady + 1 /\ n.remaining = s.remaining
    BY <1>1, <1>2
  <1>4. Cardinality(R \cup {t}) = Cardinality(R) + 1
    <2>1. IsFiniteSet(R)
      BY PolicyConfiguration, FS_Subset
    <2> QED BY <2>1, FS_AddElement
  <1> QED BY <1>1, <1>3, <1>4 DEF HeldCyclic, n

\* A position of a circle once round is the same position.
LEMMA FrameWraps ==
  ASSUME NEW n \in Nat, NEW x \in Nat, x < n
  PROVE  x % n = x /\ (n + x) % n = x
  OBVIOUS

\* The next frame of a ready thread is found wherever the clock stands, and
\* the clock moves behind it.
LEMMA CyclicPop ==
  ASSUME NEW R \in SUBSET Thread, NEW s, HeldCyclic(s, R)
  PROVE  LET p == Cyclic!Pop(s, R)
         IN  /\ R = {} => p.task = Idle /\ p.sched = s
             /\ R # {} => /\ p.task \in R
                          /\ HeldCyclic(p.sched, R \ {p.task})
                          /\ p.sched.remaining = [s.remaining EXCEPT ![p.task] = Timeslice[p.task]]
  <1> DEFINE p == Cyclic!Pop(s, R)
             frame(i) == (s.clock + i) % Len(Frames)
             owned == {i \in 0..Len(Frames) - 1 : Frames[frame(i) + 1] \in R}
             c == CHOOSE i \in owned : \A j \in owned : i <= j
             first == frame(c)
             t == Frames[first + 1]
  <1>1. /\ s \in [clock : 0..Len(Frames), numReady : Nat, remaining : [Thread -> Int]]
        /\ s.numReady = Cardinality(R) /\ s.numReady \in Nat /\ s.clock \in 0..Len(Frames)
        /\ s.remaining \in [Thread -> Int]
    BY DEF HeldCyclic
  <1>2. IsFiniteSet(R)
    BY PolicyConfiguration, FS_Subset
  <1>3. s.numReady = 0 <=> R = {}
    BY <1>1, <1>2, FS_EmptySet
  <1>4. ASSUME R = {} PROVE p.task = Idle /\ p.sched = s
    BY <1>3, <1>4 DEF Cyclic!Pop
  <1>5. ASSUME R # {}
        PROVE  /\ p.task \in R
               /\ HeldCyclic(p.sched, R \ {p.task})
               /\ p.sched.remaining = [s.remaining EXCEPT ![p.task] = Timeslice[p.task]]
    <2>1. Len(Frames) \in Nat /\ Frames \in Seq(Thread \cup {NoTask}) /\ DOMAIN Frames = 1..Len(Frames)
      BY PolicyConfiguration, LenProperties
    <2>2. PICK k \in 1..Len(Frames) : Frames[k] \in R
      <3>1. PICK u \in R : TRUE
        BY <1>5
      <3>2. u \in ToSet(Frames)
        BY <3>1, PolicyConfiguration
      <3> QED BY <2>1, <3>1, <3>2 DEF ToSet
    <2> DEFINE n == Len(Frames)
    <2>3. n \in Nat \ {0} /\ s.clock \in 0..n
      BY <1>1, <2>1, <2>2
    <2>4. owned # {}
      <3>1. \E i \in 0..n - 1 : (s.clock + i) % n = k - 1
        <4> DEFINE x == s.clock
        <4>1. x \in Nat /\ x <= n /\ k \in 1..n
          BY <2>2, <2>3
        <4> HIDE DEF x, n
        <4>2. CASE x <= k - 1
          <5>1. k - 1 - x \in 0..n - 1 /\ x + (k - 1 - x) = k - 1 /\ k - 1 \in 0..n - 1
            BY <2>3, <4>1, <4>2
          <5>2. (k - 1) % n = k - 1
            BY <2>3, <5>1, FrameWraps
          <5>3. \E i \in 0..n - 1 : (x + i) % n = k - 1
            BY <5>1, <5>2
          <5> QED BY <5>3 DEF x
        <4>3. CASE x > k - 1
          <5>1. n + k - 1 - x \in 0..n - 1 /\ x + (n + k - 1 - x) = n + (k - 1) /\ k - 1 \in 0..n - 1
            BY <2>3, <4>1, <4>3
          <5>2. (n + (k - 1)) % n = k - 1
            BY <2>3, <5>1, FrameWraps
          <5>3. \E i \in 0..n - 1 : (x + i) % n = k - 1
            BY <5>1, <5>2
          <5> QED BY <5>3 DEF x
        <4> QED BY <2>3, <4>1, <4>2, <4>3 DEF x
      <3>2. PICK i \in 0..n - 1 : (s.clock + i) % n = k - 1
        BY <3>1
      <3>3. k - 1 + 1 = k
        BY <2>1
      <3> QED BY <2>2, <3>2, <3>3
    <2>5. c \in owned
      <3>1. owned \subseteq Nat
        BY <2>3
      <3> HIDE DEF owned
      <3> QED BY <2>4, <3>1, LeastNatural
    <2>6. c \in 0..n - 1 /\ t \in R
      BY <2>5
    <2> HIDE DEF c
    <2>7. first \in 0..n - 1
      BY <1>1, <2>3, <2>6
    <2>8. p.task = t /\ p.sched = [s EXCEPT !.clock = first + 1, !.numReady = s.numReady - 1,
                                            !.remaining[t] = Timeslice[t]]
      BY <1>1, <1>3, <1>5 DEF Cyclic!Pop, c
    <2> DEFINE r == [s.remaining EXCEPT ![t] = Timeslice[t]]
    <2> HIDE DEF t, first, p
    <2>9. t \in Thread /\ Timeslice[t] \in Nat
      BY <2>6, PolicyConfiguration
    <2>10. r \in [Thread -> Int] /\ p.sched = [s EXCEPT !.clock = first + 1, !.numReady = s.numReady - 1, !.remaining = r]
      BY <1>1, <2>8, <2>9
    <2>11. first + 1 \in 0..Len(Frames) /\ s.numReady - 1 \in Nat
      BY <1>1, <1>3, <1>5, <2>3, <2>7
    <2> HIDE DEF r, n
    <2>12. /\ p.sched \in [clock : 0..Len(Frames), numReady : Nat, remaining : [Thread -> Int]]
           /\ p.sched.numReady = s.numReady - 1 /\ p.sched.remaining = r
      BY <1>1, <2>10, <2>11
    <2>13. Cardinality(R \ {t}) = Cardinality(R) - 1
      BY <1>2, <2>6, FS_RemoveElement
    <2> QED BY <1>1, <2>6, <2>8, <2>12, <2>13 DEF HeldCyclic, r
  <1> QED BY <1>4, <1>5

\* A tick is taken from the time slice.
LEMMA CyclicTick ==
  ASSUME NEW R \in SUBSET Thread, NEW s, HeldCyclic(s, R), NEW t \in Thread
  PROVE  LET n == Cyclic!TickCallback(s, t)
         IN  HeldCyclic(n, R) /\ n.remaining = [s.remaining EXCEPT ![t] = @ - 1]
  <1> DEFINE n == Cyclic!TickCallback(s, t)
             r == [s.remaining EXCEPT ![t] = @ - 1]
  <1>1. /\ s \in [clock : 0..Len(Frames), numReady : Nat, remaining : [Thread -> Int]]
        /\ s.remaining \in [Thread -> Int]
    BY DEF HeldCyclic
  <1>2. n = [s EXCEPT !.remaining = r] /\ r \in [Thread -> Int]
    BY <1>1 DEF Cyclic!TickCallback
  <1> HIDE DEF n, r
  <1>3. /\ n \in [clock : 0..Len(Frames), numReady : Nat, remaining : [Thread -> Int]]
        /\ n.clock = s.clock /\ n.numReady = s.numReady /\ n.remaining = r
    BY <1>1, <1>2
  <1>4. HeldCyclic(n, R)
    BY <1>3 DEF HeldCyclic
  <1> QED BY <1>3, <1>4 DEF n, r

\* Once its time slice is used up a thread makes room for another, if there
\* is one, or else starts another slice.
LEMMA CyclicAsk ==
  ASSUME NEW R \in SUBSET Thread, NEW s, HeldCyclic(s, R), NEW t \in Thread
  PROVE  LET asked == Cyclic!ShouldReschedule(s, t)
         IN  /\ HeldCyclic(asked.sched, R)
             /\ \A u \in Thread \ {t} : asked.sched.remaining[u] = s.remaining[u]
             /\ asked.yes \in BOOLEAN
             /\ asked.yes => R # {}
             /\ ~asked.yes /\ s.remaining[t] >= 0 => asked.sched.remaining[t] > 0
             /\ s.remaining[t] > 0 => ~asked.yes
  <1> DEFINE asked == Cyclic!ShouldReschedule(s, t)
             again == s.remaining[t] = 0 /\ s.numReady = 0
             r == IF again THEN [s.remaining EXCEPT ![t] = Timeslice[t]] ELSE s.remaining
  <1>1. /\ s \in [clock : 0..Len(Frames), numReady : Nat, remaining : [Thread -> Int]]
        /\ s.numReady = Cardinality(R) /\ s.numReady \in Nat
        /\ s.remaining \in [Thread -> Int] /\ s.remaining[t] \in Int
    BY DEF HeldCyclic
  <1>2. Timeslice[t] \in Nat \ {0} /\ t # Idle
    BY PolicyConfiguration, Configuration
  <1>3. s.numReady = 0 <=> R = {}
    <2>1. IsFiniteSet(R)
      BY PolicyConfiguration, FS_Subset
    <2> QED BY <1>1, <2>1, FS_EmptySet
  <1>4. /\ asked.yes <=> s.numReady > 0 /\ s.remaining[t] = 0
        /\ asked.yes \in BOOLEAN
        /\ asked.sched = IF again THEN [s EXCEPT !.remaining[t] = Timeslice[t]] ELSE s
    BY <1>2 DEF Cyclic!ShouldReschedule
  <1>5. /\ asked.sched \in [clock : 0..Len(Frames), numReady : Nat, remaining : [Thread -> Int]]
        /\ asked.sched.numReady = s.numReady /\ asked.sched.remaining = r
    <2> HIDE DEF asked
    <2>1. CASE again
      <3>1. r = [s.remaining EXCEPT ![t] = Timeslice[t]] /\ r \in [Thread -> Int]
        BY <1>1, <1>2, <2>1
      <3>2. asked.sched = [s EXCEPT !.remaining = r]
        BY <1>1, <1>4, <2>1, <3>1
      <3> HIDE DEF r
      <3> QED BY <1>1, <3>1, <3>2
    <2>2. CASE ~again
      BY <1>1, <1>4, <2>2
    <2> QED BY <2>1, <2>2
  <1> HIDE DEF asked
  <1>6. HeldCyclic(asked.sched, R)
    <2> HIDE DEF r
    <2> QED BY <1>1, <1>5 DEF HeldCyclic
  <1>7. \A u \in Thread \ {t} : asked.sched.remaining[u] = s.remaining[u]
    BY <1>1, <1>5
  <1>8. ASSUME ~asked.yes, s.remaining[t] >= 0 PROVE asked.sched.remaining[t] > 0
    BY <1>1, <1>2, <1>4, <1>5, <1>8
  <1>9. asked.yes => R # {} /\ ~(s.remaining[t] > 0)
    BY <1>1, <1>3, <1>4
  <1> QED BY <1>4, <1>6, <1>7, <1>8, <1>9 DEF asked

-----------------------------------------------------------------------------
(* Earliest deadline first.                                                *)

\* What is known of a chain.
LEMMA EdfParts ==
  ASSUME NEW R \in SUBSET Thread, NEW s, HeldEdf(s, R)
  PROVE  /\ s \in [chain : Seq(Thread), left : [Thread -> Nat]]
         /\ s.chain \in Seq(Thread) /\ s.left \in [Thread -> Nat]
         /\ Len(s.chain) \in Nat /\ DOMAIN s.chain = 1..Len(s.chain)
         /\ \A i \in 1..Len(s.chain) : s.chain[i] \in Thread /\ s.chain[i] \in R /\ s.left[s.chain[i]] \in Nat
         /\ \A u \in R : \E i \in 1..Len(s.chain) : s.chain[i] = u
         /\ \A i, j \in 1..Len(s.chain) : i <= j => s.left[s.chain[i]] <= s.left[s.chain[j]]
         /\ s.chain = <<>> <=> R = {}
  <1>1. s \in [chain : Seq(Thread), left : [Thread -> Nat]] /\ ToSet(s.chain) = R /\ Sorted(s)
    BY DEF HeldEdf
  <1>2. s.chain \in Seq(Thread) /\ s.left \in [Thread -> Nat]
    BY <1>1
  <1>3. Len(s.chain) \in Nat /\ DOMAIN s.chain = 1..Len(s.chain)
        /\ \A i \in 1..Len(s.chain) : s.chain[i] \in Thread
    BY <1>2, LenProperties, ElementOfSeq
  <1>4. \A i \in 1..Len(s.chain) : s.chain[i] \in R /\ s.left[s.chain[i]] \in Nat
    BY <1>1, <1>2, <1>3 DEF ToSet
  <1>5. \A u \in R : \E i \in 1..Len(s.chain) : s.chain[i] = u
    BY <1>1, <1>3 DEF ToSet
  <1>6. ASSUME NEW i \in 1..Len(s.chain), NEW j \in 1..Len(s.chain), i <= j
        PROVE  s.left[s.chain[i]] <= s.left[s.chain[j]]
    <2>1. CASE i = j
      BY <1>4, <2>1
    <2>2. CASE i < j
      BY <1>1, <1>3, <2>2 DEF Sorted
    <2> QED BY <1>6, <2>1, <2>2
  <1>7. s.chain = <<>> <=> R = {}
    <2>1. s.chain = <<>> => R = {}
      BY <1>1, EmptyStack
    <2>2. s.chain # <<>> => 1 \in 1..Len(s.chain)
      BY <1>2, <1>3, EmptySeq
    <2> QED BY <1>4, <2>1, <2>2
  <1> QED BY <1>1, <1>2, <1>3, <1>4, <1>5, <1>6, <1>7

\* The types of a chain.
LEMMA EdfTyped ==
  ASSUME NEW R \in SUBSET Thread, NEW s, HeldEdf(s, R)
  PROVE  /\ s.left \in [Thread -> Nat]
         /\ \A u \in Thread : s.left[u] \in Nat
         /\ \A i \in DOMAIN s.chain : s.chain[i] \in R
  BY DEF HeldEdf, ToSet

\* The head of the chain, the thread with the least time, is taken off.
LEMMA EdfPopHead ==
  ASSUME NEW R \in SUBSET Thread, NEW s, HeldEdf(s, R), s.chain # <<>>
  PROVE  LET n == [s EXCEPT !.chain = Tail(@)]
         IN  /\ Head(s.chain) \in R /\ Head(s.chain) = s.chain[1]
             /\ HeldEdf(n, R \ {Head(s.chain)})
             /\ n.left = s.left /\ Len(n.chain) = Len(s.chain) - 1
             /\ \A i \in 1..Len(s.chain) - 1 : n.chain[i] = s.chain[i + 1]
             /\ \A u \in R : s.left[Head(s.chain)] <= s.left[u]
  <1> DEFINE n == [s EXCEPT !.chain = Tail(@)]
             t == Head(s.chain)
  <1>1. /\ s \in [chain : Seq(Thread), left : [Thread -> Nat]]
        /\ s.chain \in Seq(Thread) /\ s.left \in [Thread -> Nat]
        /\ Len(s.chain) \in Nat /\ DOMAIN s.chain = 1..Len(s.chain)
        /\ \A u \in R : \E i \in 1..Len(s.chain) : s.chain[i] = u
        /\ \A i, j \in 1..Len(s.chain) : i <= j => s.left[s.chain[i]] <= s.left[s.chain[j]]
    BY EdfParts
  <1>2. IsInjective(s.chain) /\ ToSet(s.chain) = R
    BY DEF HeldEdf
  <1>3. /\ t \in R /\ t = s.chain[1] /\ 1 \in 1..Len(s.chain)
        /\ Tail(s.chain) \in Seq(Thread) /\ IsInjective(Tail(s.chain))
        /\ Len(Tail(s.chain)) = Len(s.chain) - 1
        /\ \A i \in 1..Len(s.chain) - 1 : Tail(s.chain)[i] = s.chain[i + 1]
        /\ ToSet(Tail(s.chain)) = R \ {t}
    BY <1>1, <1>2, PopFirst
  <1>4. n \in [chain : Seq(Thread), left : [Thread -> Nat]] /\ n.chain = Tail(s.chain) /\ n.left = s.left
    BY <1>1, <1>3
  <1> HIDE DEF n, t
  <1>5. DOMAIN n.chain = 1..Len(s.chain) - 1
    BY <1>3, <1>4, LenProperties
  <1>6. Sorted(n)
    <2> SUFFICES ASSUME NEW i \in 1..Len(s.chain) - 1, NEW j \in 1..Len(s.chain) - 1, i < j
                 PROVE  n.left[n.chain[i]] <= n.left[n.chain[j]]
      BY <1>5 DEF Sorted
    <2>1. i + 1 \in 1..Len(s.chain) /\ j + 1 \in 1..Len(s.chain) /\ i + 1 <= j + 1
      BY <1>1
    <2>2. n.left[n.chain[i]] = s.left[s.chain[i + 1]] /\ n.left[n.chain[j]] = s.left[s.chain[j + 1]]
      BY <1>3, <1>4
    <2> QED BY <1>1, <2>1, <2>2
  <1>7. HeldEdf(n, R \ {t})
    BY <1>3, <1>4, <1>6 DEF HeldEdf
  <1>8. ASSUME NEW u \in R PROVE s.left[t] <= s.left[u]
    <2>1. PICK i \in 1..Len(s.chain) : s.chain[i] = u
      BY <1>1
    <2>2. 1 <= i
      OBVIOUS
    <2> QED BY <1>1, <1>3, <2>1, <2>2
  <1> QED BY <1>3, <1>4, <1>7, <1>8 DEF n, t

\* The threads of the chain whose deadline expired are among the first k.
ExpiredUpTo(s, k) == \A i \in 1..Len(s.chain) : s.left[s.chain[i]] = 0 => i <= k

\* An insertion keeps the chain sorted, and leaves expired threads where they are.
LEMMA EdfInsert ==
  ASSUME NEW R \in SUBSET Thread, NEW s, HeldEdf(s, R), NEW t \in Thread, t \notin R, NEW d \in Nat
  PROVE  LET n == Edf!Insert(s, t, d)
         IN  /\ HeldEdf(n, R \cup {t})
             /\ n.left[t] = d /\ \A u \in Thread \ {t} : n.left[u] = s.left[u]
             /\ Len(n.chain) = Len(s.chain) + 1
             /\ \A k \in Nat : d > 0 /\ ExpiredUpTo(s, k) => ExpiredUpTo(n, k)
  <1> DEFINE n == Edf!Insert(s, t, d)
             before == {i \in DOMAIN s.chain : s.left[s.chain[i]] <= d}
             p == Cardinality(before) + 1
             c == InsertAt(s.chain, p, t)
             l == [s.left EXCEPT ![t] = d]
             len == Len(s.chain)
  <1>1. /\ s \in [chain : Seq(Thread), left : [Thread -> Nat]]
        /\ s.chain \in Seq(Thread) /\ s.left \in [Thread -> Nat]
        /\ len \in Nat /\ DOMAIN s.chain = 1..len
        /\ \A i \in 1..len : s.chain[i] \in R /\ s.left[s.chain[i]] \in Nat
        /\ \A i, j \in 1..len : i <= j => s.left[s.chain[i]] <= s.left[s.chain[j]]
    BY EdfParts
  <1>2. IsInjective(s.chain) /\ ToSet(s.chain) = R
    BY DEF HeldEdf
  <1>3. p \in 1..len + 1 /\ before = 1..p - 1
    <2>1. before \subseteq 1..len
      BY <1>1
    <2>2. ASSUME NEW i \in before, NEW j \in 1..len, j < i PROVE j \in before
      <3>1. i \in 1..len /\ s.left[s.chain[i]] <= d /\ j <= i
        BY <1>1, <2>2
      <3>2. s.left[s.chain[j]] <= s.left[s.chain[i]]
        BY <1>1, <3>1
      <3>3. s.left[s.chain[j]] <= d
        BY <1>1, <3>1, <3>2
      <3> QED BY <1>1, <3>3
    <2> HIDE DEF before
    <2>3. Cardinality(before) \in 0..len /\ before = 1..Cardinality(before)
      BY <1>1, <2>1, <2>2, PrefixIs
    <2> QED BY <1>1, <2>3
  <1>4. \A i \in 1..len : s.left[s.chain[i]] <= d <=> i < p
    <2> TAKE i \in 1..len
    <2>1. s.left[s.chain[i]] <= d <=> i \in before
      BY <1>1
    <2>2. i \in before <=> i \in 1..p - 1
      BY <1>3
    <2> HIDE DEF before, p
    <2> QED BY <1>1, <1>3, <2>1, <2>2
  <1>18. n = [s EXCEPT !.chain = InsertAt(@, p, t), !.left[t] = d]
    BY DEF Edf!Insert, Edf!InsertAt, InsertAt, Edf!Cardinality, Cardinality
  <1> HIDE DEF before, p, n
  <1>5. n = [s EXCEPT !.chain = c, !.left = l]
    BY <1>1, <1>18
  <1>6. Inserted(Thread, s.chain, p, t, c)
    BY <1>1, <1>3, InsertAtIs
  <1> HIDE DEF c
  <1>7. /\ c \in Seq(Thread) /\ Len(c) = len + 1
        /\ \A j \in 1..len + 1 : c[j] = IF j < p THEN s.chain[j] ELSE IF j = p THEN t ELSE s.chain[j - 1]
    BY <1>6 DEF Inserted
  <1>8. /\ n \in [chain : Seq(Thread), left : [Thread -> Nat]]
        /\ n.chain = c /\ n.left = l
    BY <1>1, <1>5, <1>7
  <1>9. DOMAIN c = 1..len + 1
    BY <1>7, LenProperties
  <1>10. \A i \in 1..len : l[s.chain[i]] = s.left[s.chain[i]] /\ s.chain[i] # t
    BY <1>1
  <1>11. l[t] = d
    BY <1>1
  <1> HIDE DEF l
  <1>12. \A j \in 1..len + 1 :
           /\ j < p => j \in 1..len /\ c[j] = s.chain[j] /\ l[c[j]] = s.left[s.chain[j]]
           /\ j = p => c[j] = t /\ l[c[j]] = d
           /\ j > p => j - 1 \in 1..len /\ c[j] = s.chain[j - 1] /\ l[c[j]] = s.left[s.chain[j - 1]]
    <2> TAKE j \in 1..len + 1
    <2>1. CASE j < p
      BY <1>1, <1>3, <1>7, <1>10, <2>1
    <2>2. CASE j = p
      BY <1>1, <1>3, <1>7, <1>11, <2>2
    <2>3. CASE j > p
      <3>1. j - 1 \in 1..len /\ c[j] = s.chain[j - 1]
        BY <1>1, <1>3, <1>7, <2>3
      <3> QED BY <1>3, <1>10, <2>3, <3>1
    <2> QED BY <1>1, <1>3, <2>1, <2>2, <2>3
  <1> HIDE DEF len
  <1>13. Sorted(n)
    <2> SUFFICES ASSUME NEW i \in 1..len + 1, NEW j \in 1..len + 1, i < j PROVE l[c[i]] <= l[c[j]]
      BY <1>8, <1>9 DEF Sorted
    <2>1. CASE j < p
      <3>1. i < p /\ i <= j
        BY <1>1, <1>3, <2>1
      <3>2. /\ i \in 1..len /\ l[c[i]] = s.left[s.chain[i]]
            /\ j \in 1..len /\ l[c[j]] = s.left[s.chain[j]]
        BY <1>12, <2>1, <3>1
      <3> QED BY <1>1, <3>1, <3>2
    <2>2. CASE j = p
      <3>1. i \in 1..len /\ i < p /\ l[c[i]] = s.left[s.chain[i]] /\ l[c[j]] = d
        BY <1>12, <2>2
      <3> QED BY <1>4, <3>1
    <2>3. CASE j > p
      <3>1. j - 1 \in 1..len /\ l[c[j]] = s.left[s.chain[j - 1]]
        BY <1>12, <2>3
      <3>2. CASE i < p
        <4>1. i \in 1..len /\ l[c[i]] = s.left[s.chain[i]] /\ i <= j - 1
          BY <1>1, <1>3, <1>12, <2>3, <3>2
        <4> QED BY <1>1, <3>1, <4>1
      <3>3. CASE i = p
        <4>1. l[c[i]] = d /\ ~(j - 1 < p)
          BY <1>1, <1>3, <1>12, <2>3, <3>3
        <4>2. ~(s.left[s.chain[j - 1]] <= d) /\ s.left[s.chain[j - 1]] \in Nat
          BY <1>1, <1>4, <3>1, <4>1
        <4> QED BY <3>1, <4>1, <4>2
      <3>4. CASE i > p
        <4>1. i - 1 \in 1..len /\ l[c[i]] = s.left[s.chain[i - 1]] /\ i - 1 <= j - 1
          BY <1>1, <1>3, <1>12, <3>4
        <4> QED BY <1>1, <3>1, <4>1
      <3> QED BY <1>3, <3>2, <3>3, <3>4
    <2> QED BY <1>3, <2>1, <2>2, <2>3
  <1>14. IsInjective(c)
    <2> SUFFICES ASSUME NEW i \in 1..len + 1, NEW j \in 1..len + 1, c[i] = c[j], i # j PROVE FALSE
      BY <1>9 DEF IsInjective
    <2> DEFINE old(k) == IF k < p THEN k ELSE k - 1
    <2>1. \A k \in 1..len + 1 : k # p => old(k) \in 1..len /\ c[k] = s.chain[old(k)] /\ c[k] # t
      BY <1>3, <1>10, <1>12
    <2>2. i # p /\ j # p
      BY <1>3, <1>12, <2>1
    <2>3. old(i) # old(j)
      BY <1>3, <2>2
    <2> HIDE DEF old
    <2> QED BY <1>1, <1>2, <2>1, <2>2, <2>3 DEF IsInjective
  <1>15. ToSet(c) = R \cup {t}
    <2>1. ASSUME NEW j \in 1..len + 1 PROVE c[j] \in R \cup {t}
      <3>1. CASE j < p
        BY <1>1, <1>12, <3>1
      <3>2. CASE j = p
        BY <1>12, <3>2
      <3>3. CASE j > p
        BY <1>1, <1>12, <3>3
      <3> QED BY <1>3, <3>1, <3>2, <3>3
    <2>2. ASSUME NEW i \in 1..len PROVE \E j \in 1..len + 1 : c[j] = s.chain[i]
      <3>1. CASE i < p
        BY <1>1, <1>12, <3>1
      <3>2. CASE i >= p
        <4>1. i + 1 \in 1..len + 1 /\ i + 1 > p /\ i + 1 - 1 = i
          BY <1>1, <1>3, <3>2
        <4>2. c[i + 1] = s.chain[i]
          BY <1>12, <4>1
        <4> QED BY <4>1, <4>2
      <3> QED BY <1>3, <3>1, <3>2
    <2>3. c[p] = t
      BY <1>3, <1>12
    <2>4. ToSet(c) \subseteq R \cup {t}
      BY <1>9, <2>1 DEF ToSet
    <2>5. R \subseteq ToSet(c)
      BY <1>1, <1>2, <1>9, <2>2 DEF ToSet
    <2>6. t \in ToSet(c)
      BY <1>3, <1>9, <2>3 DEF ToSet
    <2> QED BY <2>4, <2>5, <2>6
  <1>16. HeldEdf(n, R \cup {t})
    BY <1>8, <1>13, <1>14, <1>15 DEF HeldEdf
  <1>19. ASSUME NEW k \in Nat, d > 0, \A i \in 1..len : s.left[s.chain[i]] = 0 => i <= k,
                NEW i \in 1..len + 1, n.left[n.chain[i]] = 0
         PROVE  i <= k
    <2>1. l[c[i]] = 0
      BY <1>8, <1>19
    <2>2. CASE i < p
      BY <1>12, <1>19, <2>1, <2>2
    <2>3. CASE i = p
      BY <1>12, <1>19, <2>1, <2>3
    <2>4. CASE i > p
      <3>1. i - 1 \in 1..len /\ s.left[s.chain[i - 1]] = 0
        BY <1>12, <2>1, <2>4
      <3>2. i - 1 < p
        BY <1>4, <1>19, <3>1
      <3> QED BY <1>3, <2>4, <3>2
    <2> QED BY <1>3, <2>2, <2>3, <2>4
  <1>17. \A k \in Nat : d > 0 /\ ExpiredUpTo(s, k) => ExpiredUpTo(n, k)
    BY <1>7, <1>8, <1>19 DEF ExpiredUpTo, len
  <1>20. n.left[t] = d /\ \A u \in Thread \ {t} : n.left[u] = s.left[u]
    BY <1>1, <1>8 DEF l
  <1>21. Len(n.chain) = Len(s.chain) + 1
    BY <1>7, <1>8 DEF len
  <1> QED BY <1>16, <1>17, <1>20, <1>21 DEF n

\* kSchedFixupChainEdf for a state r of the policy: the thread in front is renewed if it expired.
Renewed(r) ==
  LET t == Head(r.chain)
  IN  IF r.left[t] > 0 THEN r ELSE Edf!Insert([r EXCEPT !.chain = Tail(@)], t, VirtualDeadline[t])

\* s after i threads were looked at: of the threads R in the chain only those
\* at the last positions may have expired still, and who has more time than
\* before was renewed.
Fixed(s, R, i, r) ==
  /\ HeldEdf(r, R) /\ Len(r.chain) = Len(s.chain)
  /\ ExpiredUpTo(r, Len(s.chain) - i)
  /\ \A u \in Thread : \/ r.left[u] = s.left[u]
                       \/ u \in R /\ s.left[u] = 0 /\ r.left[u] = VirtualDeadline[u]

\* One thread more is looked at.
LEMMA EdfRenewed ==
  ASSUME NEW R \in SUBSET Thread, NEW s, HeldEdf(s, R), NEW i \in Nat, i < Len(s.chain),
         NEW r, Fixed(s, R, i, r)
  PROVE  Fixed(s, R, i + 1, Renewed(r))
  <1> DEFINE n == Len(s.chain)
             t == Head(r.chain)
             q == [r EXCEPT !.chain = Tail(@)]
             v == Edf!Insert(q, t, VirtualDeadline[t])
  <1>1. n \in Nat /\ Len(r.chain) = n /\ HeldEdf(r, R)
        /\ ExpiredUpTo(r, n - i)
        /\ r.left \in [Thread -> Nat] /\ s.left \in [Thread -> Nat]
        /\ (\A j \in 1..n : r.chain[j] \in Thread /\ r.left[r.chain[j]] \in Nat)
        /\ (\A j, k \in 1..n : j <= k => r.left[r.chain[j]] <= r.left[r.chain[k]])
    BY EdfParts DEF Fixed
  <1>2. r.chain # <<>>
    <2>1. 1 \in 1..n
      BY <1>1
    <2>2. \E u : u \in R
      BY <1>1, <2>1, EdfParts
    <2> QED BY <1>1, <2>2, EdfParts
  <1> HIDE DEF n
  <1>3. /\ t \in R /\ t = r.chain[1] /\ t \in Thread
        /\ HeldEdf(q, R \ {t}) /\ q.left = r.left /\ Len(q.chain) = n - 1
        /\ \A j \in 1..n - 1 : q.chain[j] = r.chain[j + 1]
    BY <1>1, <1>2, EdfPopHead
  <1>4. VirtualDeadline[t] \in Nat \ {0} /\ r.left[t] \in Nat
    BY <1>1, <1>3, PolicyConfiguration
  <1>5. CASE r.left[t] > 0
    <2>1. Renewed(r) = r
      BY <1>5 DEF Renewed
    <2>2. \A k \in 1..n : r.left[r.chain[k]] # 0
      <3> TAKE k \in 1..n
      <3>1. 1 \in 1..n /\ 1 <= k
        BY <1>1
      <3>2. r.left[t] <= r.left[r.chain[k]]
        BY <1>1, <1>3, <3>1
      <3> QED BY <1>1, <1>4, <1>5, <3>2
    <2>3. n - (i + 1) \in Int /\ ExpiredUpTo(r, n - (i + 1))
      BY <1>1, <2>2 DEF ExpiredUpTo
    <2> QED BY <2>1, <2>3 DEF Fixed, n
  <1>6. CASE ~(r.left[t] > 0)
    <2>1. Renewed(r) = v /\ r.left[t] = 0
      BY <1>4, <1>6 DEF Renewed
    <2> HIDE DEF q, t
    <2>2. /\ HeldEdf(v, (R \ {t}) \cup {t})
          /\ v.left[t] = VirtualDeadline[t] /\ \A u \in Thread \ {t} : v.left[u] = q.left[u]
          /\ Len(v.chain) = Len(q.chain) + 1
          /\ \A k \in Nat : VirtualDeadline[t] > 0 /\ ExpiredUpTo(q, k) => ExpiredUpTo(v, k)
      <3> DEFINE S == R \ {t}
      <3>1. t \notin S /\ S \in SUBSET Thread /\ HeldEdf(q, S) /\ VirtualDeadline[t] \in Nat /\ t \in Thread
        BY <1>3, <1>4
      <3> HIDE DEF S
      <3> QED BY <3>1, EdfInsert DEF S
    <2> HIDE DEF v
    <2>3. HeldEdf(v, R) /\ Len(v.chain) = n
      <3>1. (R \ {t}) \cup {t} = R
        BY <1>3
      <3>2. HeldEdf(v, R)
        BY <2>2, <3>1
      <3>3. Len(v.chain) = n
        BY <1>1, <1>3, <2>2
      <3> QED BY <3>2, <3>3
    <2>4. ExpiredUpTo(v, n - (i + 1))
      <3> DEFINE k == n - (i + 1)
      <3>1. k \in Nat /\ VirtualDeadline[t] > 0
        BY <1>1, <1>4 DEF n
      <3>2. ASSUME NEW h \in 1..n - 1, q.left[q.chain[h]] = 0 PROVE h <= k
        <4>1. r.left[r.chain[h + 1]] = 0 /\ h + 1 \in 1..n
          BY <1>1, <1>3, <3>2
        <4>2. h + 1 <= n - i
          BY <1>1, <4>1 DEF ExpiredUpTo
        <4> QED BY <1>1, <4>2
      <3> HIDE DEF k
      <3>3. ExpiredUpTo(q, k)
        BY <1>3, <3>2 DEF ExpiredUpTo
      <3> QED BY <2>2, <3>1, <3>3 DEF k
    <2>5. \A u \in Thread : \/ v.left[u] = s.left[u]
                            \/ u \in R /\ s.left[u] = 0 /\ v.left[u] = VirtualDeadline[u]
      <3> TAKE u \in Thread
      <3>1. v.left[u] = IF u = t THEN VirtualDeadline[t] ELSE r.left[u]
        BY <1>1, <1>3, <2>2
      <3>2. \/ r.left[u] = s.left[u]
            \/ u \in R /\ s.left[u] = 0 /\ r.left[u] = VirtualDeadline[u]
        BY DEF Fixed
      <3> QED BY <1>3, <1>4, <2>1, <3>1, <3>2
    <2> QED BY <2>1, <2>3, <2>4, <2>5 DEF Fixed, n
  <1> QED BY <1>5, <1>6

\* Threads whose deadline expired while they waited start another one; no
\* ready thread is left without time.
LEMMA EdfFixup ==
  ASSUME NEW R \in SUBSET Thread, NEW s, HeldEdf(s, R)
  PROVE  LET f == Edf!FixupChain(s)
         IN  /\ HeldEdf(f, R)
             /\ \A u \in R : f.left[u] > 0
             /\ \A u \in Thread : \/ f.left[u] = s.left[u]
                                  \/ u \in R /\ s.left[u] = 0 /\ f.left[u] = VirtualDeadline[u]
  <1> DEFINE n == Len(s.chain)
             Step(g) == [i \in 0..n |-> IF i = 0 THEN s ELSE Renewed(g[i - 1])]
             f == CHOOSE g : g = Step(g)
             fix == Edf!FixupChain(s)
  <1>1. n \in Nat
    BY EdfParts
  <1>2. fix = f[n]
    BY DEF Edf!FixupChain, Renewed
  <1> HIDE DEF n
  <1> DEFINE P(k) == \E g : g = [i \in 0..k |-> IF i = 0 THEN s ELSE Renewed(g[i - 1])]
             T == {k \in 0..n : ~P(k)}
  <1>3. P(n)
    <2>1. T \subseteq Nat /\ 0 \notin T
      <3> DEFINE z == [i \in 0..0 |-> s]
      <3>1. z = [i \in 0..0 |-> IF i = 0 THEN s ELSE Renewed(z[i - 1])]
        OBVIOUS
      <3> HIDE DEF z
      <3>2. P(0)
        BY <3>1
      <3> HIDE DEF P
      <3> QED BY <1>1, <3>2
    <2>2. ASSUME NEW k \in T PROVE k - 1 \in T
      <3>1. k \in 1..n /\ k - 1 \in 0..n
        <4> HIDE DEF P
        <4> QED BY <1>1, <2>1
      <3>2. ASSUME P(k - 1) PROVE P(k)
        <4>1. PICK g : g = [i \in 0..k - 1 |-> IF i = 0 THEN s ELSE Renewed(g[i - 1])]
          BY <3>2
        <4> DEFINE h == [i \in 0..k |-> IF i = k THEN Renewed(g[k - 1]) ELSE g[i]]
        <4>2. ASSUME NEW i \in 0..k PROVE h[i] = IF i = 0 THEN s ELSE Renewed(h[i - 1])
          <5>1. CASE i = k
            BY <3>1, <5>1
          <5>2. CASE i # k
            <6>1. i \in 0..k - 1 /\ (i # 0 => i - 1 \in 0..k /\ i - 1 # k)
              BY <3>1, <5>2
            <6>2. h[i] = g[i] /\ (i # 0 => h[i - 1] = g[i - 1])
              BY <6>1, <5>2
            <6> HIDE DEF h
            <6> QED BY <4>1, <6>1, <6>2
          <5> QED BY <5>1, <5>2
        <4>3. h = [i \in 0..k |-> h[i]]
          OBVIOUS
        <4> HIDE DEF h
        <4>4. h = [i \in 0..k |-> IF i = 0 THEN s ELSE Renewed(h[i - 1])]
          BY <4>2, <4>3
        <4> QED BY <4>4
      <3> HIDE DEF P
      <3> QED BY <3>1, <3>2
    <2>3. T = {}
      <3> HIDE DEF T
      <3> QED BY <2>1, <2>2, NoFirstFailure
    <2> HIDE DEF P
    <2> QED BY <1>1, <2>3
  <1>4. \E g : g = Step(g)
    BY <1>3
  <1>5. f = Step(f)
    <2> HIDE DEF Step
    <2> QED BY <1>4
  <1> HIDE DEF f, P, T
  <1>6. f[0] = s /\ \A i \in 1..n : f[i] = Renewed(f[i - 1])
    BY <1>1, <1>5
  <1> HIDE DEF Step
  <1>7. Fixed(s, R, 0, f[0])
    <2>1. HeldEdf(s, R) /\ \A k \in 1..n : k <= n - 0
      BY <1>1
    <2> QED BY <1>6, <2>1 DEF Fixed, ExpiredUpTo, n
  <1>8. Fixed(s, R, n, f[n])
    <2> DEFINE U == {k \in 0..n : ~Fixed(s, R, k, f[k])}
    <2>1. U \subseteq Nat /\ 0 \notin U
      BY <1>1, <1>7
    <2>2. ASSUME NEW k \in U PROVE k - 1 \in U
      <3>1. k \in 1..n /\ k - 1 \in Nat /\ k - 1 < n /\ k - 1 + 1 = k
        BY <1>1, <2>1
      <3>2. Fixed(s, R, k - 1, f[k - 1]) => Fixed(s, R, k, f[k])
        <4>1. ASSUME Fixed(s, R, k - 1, f[k - 1]) PROVE Fixed(s, R, k - 1 + 1, Renewed(f[k - 1]))
          BY <3>1, <4>1, EdfRenewed DEF n
        <4> QED BY <1>6, <3>1, <4>1
      <3>3. k - 1 \in 0..n
        BY <1>1, <3>1
      <3> QED BY <3>2, <3>3
    <2>3. U = {}
      <3> HIDE DEF U
      <3> QED BY <2>1, <2>2, NoFirstFailure
    <2> QED BY <1>1, <2>3
  <1>9. Fixed(s, R, n, fix)
    BY <1>2, <1>8
  <1> HIDE DEF fix
  <1>10. HeldEdf(fix, R) /\ Len(fix.chain) = n
    BY <1>9 DEF Fixed, n
  <1>11. ASSUME NEW u \in R PROVE fix.left[u] > 0
    <2>1. PICK k \in 1..n : fix.chain[k] = u
      <3>1. \A w \in R : \E k \in 1..Len(fix.chain) : fix.chain[k] = w
        BY <1>10, EdfParts, Zenon
      <3> QED BY <1>10, <3>1
    <2>2. fix.left[u] \in Nat
      BY <1>10, <2>1, EdfParts
    <2>3. fix.left[u] = 0 => k <= n - n
      BY <1>9, <1>10, <2>1 DEF Fixed, ExpiredUpTo, n
    <2> QED BY <1>1, <2>1, <2>2, <2>3
  <1> QED BY <1>9, <1>10, <1>11 DEF Fixed, fix

\* A thread that is pushed keeps the time it has left, if any.
LEMMA EdfPush ==
  ASSUME NEW R \in SUBSET Thread, NEW s, HeldEdf(s, R), NEW t \in Thread, t \notin R
  PROVE  LET n == Edf!Push(s, t)
         IN  /\ HeldEdf(n, R \cup {t}) /\ \A u \in Thread \ {t} : n.left[u] = s.left[u]
             /\ n.left[t] = Fresh(t, s.left[t])
  <1> DEFINE d == IF s.left[t] = 0 THEN VirtualDeadline[t] ELSE s.left[t]
  <1>1. d \in Nat
    BY PolicyConfiguration, EdfTyped
  <1>2. Edf!Push(s, t) = Edf!Insert(s, t, d)
    BY DEF Edf!Push
  <1> HIDE DEF d
  <1> DEFINE n == Edf!Insert(s, t, d)
  <1>3. /\ HeldEdf(n, R \cup {t})
        /\ n.left[t] = d /\ \A u \in Thread \ {t} : n.left[u] = s.left[u]
        /\ Len(n.chain) = Len(s.chain) + 1
        /\ \A k \in Nat : d > 0 /\ ExpiredUpTo(s, k) => ExpiredUpTo(n, k)
    BY <1>1, EdfInsert
  <1> HIDE DEF n
  <1> QED BY <1>2, <1>3 DEF n, d, Fresh

\* The thread popped has time left, and none of the others has less.
LEMMA EdfPop ==
  ASSUME NEW R \in SUBSET Thread, NEW s, HeldEdf(s, R)
  PROVE  LET p == Edf!Pop(s)
         IN  /\ \A u \in Thread \ R : p.sched.left[u] = s.left[u]
             /\ R = {} => p.task = Idle /\ HeldEdf(p.sched, R)
             /\ R # {} => /\ p.task \in R
                          /\ HeldEdf(p.sched, R \ {p.task})
                          /\ p.sched.left[p.task] > 0
                          /\ \A u \in R : p.sched.left[p.task] <= p.sched.left[u]
  <1> DEFINE f == Edf!FixupChain(s)
             p == Edf!Pop(s)
             n == [f EXCEPT !.chain = Tail(@)]
  <1>1. p = IF f.chain = <<>> THEN [task |-> Idle, sched |-> f]
            ELSE [task |-> Head(f.chain), sched |-> n]
    BY DEF Edf!Pop
  <1>2. /\ HeldEdf(f, R)
        /\ \A u \in R : f.left[u] > 0
        /\ \A u \in Thread \ R : f.left[u] = s.left[u]
    BY EdfFixup
  <1> HIDE DEF f, p
  <1>3. f.chain = <<>> <=> R = {}
    BY <1>2, EdfParts
  <1>4. CASE R = {}
    <2>1. p.task = Idle /\ p.sched = f
      BY <1>1, <1>3, <1>4
    <2>2. HeldEdf(p.sched, R)
      BY <1>2, <2>1
    <2> QED BY <1>2, <1>4, <2>1, <2>2 DEF p
  <1>5. CASE R # {}
    <2>1. /\ Head(f.chain) \in R /\ HeldEdf(n, R \ {Head(f.chain)}) /\ n.left = f.left
          /\ \A u \in R : f.left[Head(f.chain)] <= f.left[u]
      BY <1>2, <1>3, <1>5, EdfPopHead
    <2>2. p.task = Head(f.chain) /\ p.sched = n
      BY <1>1, <1>3, <1>5
    <2> HIDE DEF n
    <2> DEFINE h == Head(f.chain)
    <2>3. p.task = h /\ h \in R /\ p.sched.left = f.left
      BY <2>1, <2>2
    <2>4. HeldEdf(p.sched, R \ {h}) /\ \A u \in R : f.left[h] <= f.left[u]
      BY <2>1, <2>2
    <2> HIDE DEF h
    <2>5. HeldEdf(p.sched, R \ {p.task})
      BY <2>3, <2>4
    <2>6. p.sched.left[p.task] > 0 /\ \A u \in R : p.sched.left[p.task] <= p.sched.left[u]
      BY <1>2, <2>3, <2>4
    <2>7. \A u \in Thread \ R : p.sched.left[u] = s.left[u]
      BY <1>2, <2>3
    <2> QED BY <1>5, <2>3, <2>5, <2>6, <2>7 DEF p
  <1> QED BY <1>4, <1>5 DEF p

\* With the time the deadlines of all ready threads come closer, and their order stays.
LEMMA EdfTicks ==
  ASSUME NEW R \in SUBSET Thread, NEW s, HeldEdf(s, R)
  PROVE  LET n == Edf!TickTransitionCallback(s)
         IN  HeldEdf(n, R) /\ \A u \in Thread \ R : n.left[u] = s.left[u]
  <1> DEFINE n == Edf!TickTransitionCallback(s)
             l == [u \in Thread |-> IF u \in R THEN Edf!Monus(s.left[u], 1) ELSE s.left[u]]
  <1>1. /\ s \in [chain : Seq(Thread), left : [Thread -> Nat]] /\ s.left \in [Thread -> Nat]
        /\ ToSet(s.chain) = R /\ IsInjective(s.chain) /\ Sorted(s)
        /\ \A i \in DOMAIN s.chain : s.chain[i] \in R
    <2>1. s.left \in [Thread -> Nat] /\ \A i \in DOMAIN s.chain : s.chain[i] \in R
      BY EdfTyped
    <2> QED BY <2>1 DEF HeldEdf
  <1>2. n = [s EXCEPT !.left = l]
    BY <1>1 DEF Edf!TickTransitionCallback, Edf!ToSet, ToSet
  <1>3. \A a \in Nat : Edf!Monus(a, 1) \in Nat /\ \A b \in Nat : a <= b => Edf!Monus(a, 1) <= Edf!Monus(b, 1)
    BY DEF Edf!Monus
  <1> HIDE DEF n
  <1>4. l \in [Thread -> Nat]
    BY <1>1, <1>3
  <1>5. \A i \in DOMAIN s.chain : l[s.chain[i]] = Edf!Monus(s.left[s.chain[i]], 1) /\ s.left[s.chain[i]] \in Nat
    BY <1>1
  <1>6. \A u \in Thread \ R : l[u] = s.left[u]
    OBVIOUS
  <1> HIDE DEF l
  <1>7. n \in [chain : Seq(Thread), left : [Thread -> Nat]] /\ n.chain = s.chain /\ n.left = l
    BY <1>1, <1>2, <1>4
  <1>8. Sorted(n)
    BY <1>1, <1>3, <1>5, <1>7 DEF Sorted
  <1>9. HeldEdf(n, R)
    BY <1>1, <1>7, <1>8 DEF HeldEdf
  <1> QED BY <1>6, <1>7, <1>9 DEF n

\* n is s once thread t was charged.
EdfCharged(R, s, t, sleep, throttled, timeLeft, n) ==
  /\ HeldEdf(n, R)
  /\ \A u \in Thread \ {t} : n.left[u] = s.left[u]
  /\ sleep = 0 /\ ~throttled => n.left[t] > 0
  /\ sleep = 0 => n.left[t] = IF throttled THEN Edf!Monus(s.left[t] - 1, timeLeft)
                              ELSE Fresh(t, s.left[t] - 1)

\* A thread that is charged is not in the chain; if it stays on the core, or
\* just was preempted, it has time left afterwards.
LEMMA EdfTick ==
  ASSUME NEW R \in SUBSET Thread, NEW s, HeldEdf(s, R), NEW t \in Thread, t \notin R, s.left[t] > 0,
         NEW sleep \in Nat, NEW throttled \in BOOLEAN, NEW timeLeft \in Nat
  PROVE  EdfCharged(R, s, t, sleep, throttled, timeLeft, Edf!TickCallback(s, t, sleep, throttled, timeLeft))
  <1> DEFINE n == Edf!TickCallback(s, t, sleep, throttled, timeLeft)
             expired == sleep > 0 /\ s.left[t] < sleep
             rest == IF expired THEN 0 ELSE s.left[t] - (IF sleep = 0 THEN 1 ELSE sleep)
             d == CASE throttled -> Edf!Monus(rest, timeLeft)
                    [] ~throttled /\ rest = 0 /\ ~expired -> VirtualDeadline[t]
                    [] ~throttled /\ (rest # 0 \/ expired) -> rest
             l == [s.left EXCEPT ![t] = d]
  <1>1. /\ s \in [chain : Seq(Thread), left : [Thread -> Nat]] /\ s.left \in [Thread -> Nat]
        /\ ToSet(s.chain) = R /\ IsInjective(s.chain) /\ Sorted(s)
        /\ \A i \in DOMAIN s.chain : s.chain[i] \in R
    <2>1. s.left \in [Thread -> Nat] /\ \A i \in DOMAIN s.chain : s.chain[i] \in R
      BY EdfTyped
    <2> QED BY <2>1 DEF HeldEdf
  <1>2. n = [s EXCEPT !.left[t] = d]
    BY DEF Edf!TickCallback
  <1>3. VirtualDeadline[t] \in Nat \ {0} /\ s.left[t] \in Nat \ {0}
    BY <1>1, PolicyConfiguration
  <1>4. rest \in Nat
    BY <1>3
  <1>11. ASSUME sleep = 0
         PROVE  d = IF throttled THEN Edf!Monus(s.left[t] - 1, timeLeft) ELSE Fresh(t, s.left[t] - 1)
    <2>1. ~expired /\ rest = s.left[t] - 1
      BY <1>11
    <2> HIDE DEF rest, expired
    <2> QED BY <2>1 DEF Fresh
  <1>5. d \in Nat /\ (sleep = 0 /\ ~throttled => d > 0)
    <2>1. CASE throttled
      <3>1. Edf!Monus(rest, timeLeft) \in Nat
        <4> HIDE DEF rest
        <4> QED BY <1>4 DEF Edf!Monus
      <3>2. d = Edf!Monus(rest, timeLeft)
        BY <2>1
      <3> HIDE DEF d, rest
      <3> QED BY <2>1, <3>1, <3>2
    <2>2. CASE ~throttled /\ rest = 0 /\ ~expired
      <3>1. d = VirtualDeadline[t]
        <4> HIDE DEF rest, expired
        <4> QED BY <2>2
      <3> HIDE DEF d, rest
      <3> QED BY <1>3, <3>1
    <2>3. CASE ~throttled /\ (rest # 0 \/ expired)
      <3>1. d = rest
        <4> HIDE DEF rest, expired
        <4> QED BY <2>3
      <3>2. sleep = 0 => rest # 0
        BY <2>3
      <3> HIDE DEF d, rest
      <3> QED BY <1>4, <3>1, <3>2
    <2> HIDE DEF d, rest, expired
    <2> QED BY <2>1, <2>2, <2>3
  <1> HIDE DEF d, n
  <1>6. n = [s EXCEPT !.left = l] /\ l \in [Thread -> Nat]
    BY <1>1, <1>2, <1>5
  <1>7. (\A i \in DOMAIN s.chain : l[s.chain[i]] = s.left[s.chain[i]])
        /\ (\A u \in Thread \ {t} : l[u] = s.left[u]) /\ l[t] = d
    BY <1>1
  <1> HIDE DEF l
  <1>8. n \in [chain : Seq(Thread), left : [Thread -> Nat]] /\ n.chain = s.chain /\ n.left = l
    BY <1>1, <1>6
  <1>9. Sorted(n)
    BY <1>1, <1>7, <1>8 DEF Sorted
  <1>10. HeldEdf(n, R)
    BY <1>1, <1>8, <1>9 DEF HeldEdf
  <1> QED BY <1>5, <1>7, <1>8, <1>10, <1>11 DEF EdfCharged, n

\* A thread makes room for one with less time left, and only for such a one.
LEMMA EdfAsk ==
  ASSUME NEW R \in SUBSET Thread, NEW s, HeldEdf(s, R), NEW t \in Thread, t \notin R
  PROVE  LET asked == Edf!ShouldReschedule(s, t)
         IN  /\ HeldEdf(asked.sched, R)
             /\ \A u \in Thread \ R : asked.sched.left[u] = s.left[u]
             /\ asked.yes \in BOOLEAN
             /\ asked.yes => R # {}
             /\ ~asked.yes => \A u \in R : asked.sched.left[t] <= asked.sched.left[u]
             /\ s.left[t] > 0 /\ (\A u \in R : s.left[t] <= s.left[u]) => ~asked.yes
  <1> DEFINE f == Edf!FixupChain(s)
             asked == Edf!ShouldReschedule(s, t)
  <1>1. /\ asked.sched = f /\ asked.yes \in BOOLEAN
        /\ asked.yes <=> f.chain # <<>> /\ f.left[Head(f.chain)] < f.left[t]
    <2>1. t # Idle
      BY Configuration
    <2> QED BY <2>1 DEF Edf!ShouldReschedule
  <1>2. /\ HeldEdf(f, R)
        /\ \A u \in Thread \ R : f.left[u] = s.left[u]
        /\ \A u \in R : f.left[u] = s.left[u] \/ s.left[u] = 0
    BY EdfFixup
  <1> HIDE DEF f, asked
  <1>3. f.left \in [Thread -> Nat] /\ s.left \in [Thread -> Nat] /\ (f.chain = <<>> <=> R = {})
    BY <1>2, EdfParts
  <1>4. R # {} => Head(f.chain) \in R /\ \A u \in R : f.left[Head(f.chain)] <= f.left[u]
    BY <1>2, <1>3, EdfPopHead
  <1>5. ASSUME ~asked.yes, NEW u \in R PROVE f.left[t] <= f.left[u]
    <2>1. Head(f.chain) \in R /\ f.left[Head(f.chain)] <= f.left[u]
      BY <1>4, <1>5
    <2>2. ~(f.left[Head(f.chain)] < f.left[t])
      BY <1>1, <1>3, <1>5
    <2>3. f.left[Head(f.chain)] \in Nat /\ f.left[u] \in Nat /\ f.left[t] \in Nat
      BY <1>3, <2>1
    <2> QED BY <2>1, <2>2, <2>3
  <1>6. ASSUME s.left[t] > 0, \A u \in R : s.left[t] <= s.left[u], asked.yes PROVE FALSE
    <2> DEFINE h == Head(f.chain)
    <2>1. h \in R /\ f.left[h] < f.left[t] /\ h \in Thread
      BY <1>1, <1>3, <1>4, <1>6
    <2> HIDE DEF h
    <2>2. f.left[t] = s.left[t] /\ s.left[t] <= s.left[h] /\ s.left[t] \in Nat /\ s.left[h] \in Nat
      BY <1>2, <1>3, <1>6, <2>1
    <2>3. f.left[h] = s.left[h]
      BY <1>2, <1>6, <2>1, <2>2
    <2> QED BY <2>1, <2>2, <2>3
  <1> QED BY <1>1, <1>2, <1>3, <1>5, <1>6 DEF asked

-----------------------------------------------------------------------------
(* Any policy: what kTick.c may rely on when it calls one.                 *)

PolicyOK == policy \in {"RR", "CYCLIC", "EDF"}

\* the threads T have as much time left in n as they have in s
Kept(s, n, T) == \A u \in T : TimeLeft(n, u) = TimeLeft(s, u)

\* The ready threads are threads, and the idle task is not one of them.
LEMMA ReadyIs ==
  ASSUME NEW m
  PROVE  Ready(m) \in SUBSET Thread /\ Idle \notin Ready(m) /\ Idle \notin Thread
  BY Configuration DEF Ready

\* A thread that is pushed joins the ready ones.
LEMMA PushHeld ==
  ASSUME PolicyOK, NEW R \in SUBSET Thread, NEW s, Held(s, R), NEW t \in Thread, t \notin R
  PROVE  /\ Held(Push(s, t), R \cup {t}) /\ Kept(s, Push(s, t), Thread \ {t})
         /\ policy = "EDF" => Push(s, t).left[t] = Fresh(t, s.left[t])
  <1>1. t # Idle
    BY Configuration
  <1>2. CASE policy = "RR"
    <2> DEFINE n == Rr!Push(s, t)
    <2>1. Push(s, t) = n
      BY <1>1, <1>2 DEF Push
    <2>2. HeldRr(s, R)
      BY <1>2 DEF Held
    <2>3. HeldRr(n, R \cup {t}) /\ n.remaining = s.remaining
      BY <2>2, RrPush
    <2> HIDE DEF n
    <2> QED BY <1>2, <2>1, <2>3 DEF Held, Kept, TimeLeft
  <1>3. CASE policy = "CYCLIC"
    <2> DEFINE n == Cyclic!Push(s, t)
    <2>1. Push(s, t) = n
      BY <1>1, <1>3 DEF Push
    <2>2. HeldCyclic(s, R)
      BY <1>3 DEF Held
    <2>3. HeldCyclic(n, R \cup {t}) /\ n.remaining = s.remaining
      BY <2>2, CyclicPush
    <2> HIDE DEF n
    <2> QED BY <1>3, <2>1, <2>3 DEF Held, Kept, TimeLeft
  <1>4. CASE policy = "EDF"
    <2> DEFINE n == Edf!Push(s, t)
    <2>1. Push(s, t) = n
      BY <1>1, <1>4 DEF Push
    <2>2. HeldEdf(s, R)
      BY <1>4 DEF Held
    <2>3. /\ HeldEdf(n, R \cup {t}) /\ \A u \in Thread \ {t} : n.left[u] = s.left[u]
          /\ n.left[t] = Fresh(t, s.left[t])
      BY <2>2, EdfPush
    <2> HIDE DEF n
    <2> QED BY <1>4, <2>1, <2>3 DEF Held, Kept, TimeLeft
  <1> QED BY <1>2, <1>3, <1>4 DEF PolicyOK

\* A ready thread is popped whenever there is one: it has time left, and none
\* that stays goes before it.
LEMMA PopHeld ==
  ASSUME PolicyOK, NEW m, NEW s, Held(s, Ready(m))
  PROVE  LET p == Pop(m, s)
             R == Ready(m)
         IN  /\ Kept(s, p.sched, Thread \ R)
             /\ R = {} => p.task = Idle /\ Held(p.sched, R)
             /\ R # {} => /\ p.task \in R
                          /\ Held(p.sched, R \ {p.task})
                          /\ TimeLeft(p.sched, p.task) > 0
                          /\ First(p.sched, R \ {p.task}, p.task)
  <1> DEFINE R == Ready(m)
             p == Pop(m, s)
  <1>1. R \in SUBSET Thread
    BY ReadyIs
  <1>2. \A t \in Thread : Timeslice[t] > 0
    BY PolicyConfiguration
  <1> DEFINE Goal == /\ Kept(s, p.sched, Thread \ R)
                     /\ R = {} => p.task = Idle /\ Held(p.sched, R)
                     /\ R # {} => /\ p.task \in R
                                  /\ Held(p.sched, R \ {p.task})
                                  /\ TimeLeft(p.sched, p.task) > 0
                                  /\ First(p.sched, R \ {p.task}, p.task)
  <1>3. CASE policy = "RR"
    <2>1. HeldRr(s, R) /\ p = Rr!Pop(s)
      BY <1>3 DEF Held, Pop
    <2>2. s.remaining \in [Thread -> Int]
      BY <2>1 DEF HeldRr
    <2> HIDE DEF R, p
    <2>3. /\ R = {} => p.task = Idle /\ p.sched = s
          /\ R # {} => /\ p.task \in R
                       /\ HeldRr(p.sched, R \ {p.task})
                       /\ \A u \in R : Prio[u] <= Prio[p.task]
                       /\ p.sched.remaining = [s.remaining EXCEPT ![p.task] = Timeslice[p.task]]
      BY <1>1, <2>1, RrPop
    <2>4. ASSUME R = {} PROVE Goal
      BY <1>3, <2>1, <2>3, <2>4 DEF Held, Kept, TimeLeft
    <2>5. ASSUME R # {} PROVE Goal
      <3>1. p.task \in R /\ p.task \in Thread
        BY <1>1, <2>3, <2>5
      <3>2. p.sched.remaining[p.task] = Timeslice[p.task]
            /\ \A u \in Thread \ R : p.sched.remaining[u] = s.remaining[u]
        BY <2>2, <2>3, <2>5, <3>1
      <3>3. Kept(s, p.sched, Thread \ R) /\ TimeLeft(p.sched, p.task) > 0
        BY <1>2, <1>3, <3>1, <3>2 DEF Kept, TimeLeft
      <3>4. Held(p.sched, R \ {p.task}) /\ First(p.sched, R \ {p.task}, p.task)
        BY <1>3, <2>3, <2>5 DEF Held, First
      <3> QED BY <2>5, <3>1, <3>3, <3>4
    <2>6. Goal
      BY <2>4, <2>5
    <2> QED BY <2>6 DEF p, R
  <1>4. CASE policy = "CYCLIC"
    <2>1. HeldCyclic(s, R) /\ p = Cyclic!Pop(s, R)
      BY <1>4 DEF Held, Pop
    <2>2. s.remaining \in [Thread -> Int]
      BY <2>1 DEF HeldCyclic
    <2> HIDE DEF R, p
    <2>3. /\ R = {} => p.task = Idle /\ p.sched = s
          /\ R # {} => /\ p.task \in R
                       /\ HeldCyclic(p.sched, R \ {p.task})
                       /\ p.sched.remaining = [s.remaining EXCEPT ![p.task] = Timeslice[p.task]]
      BY <1>1, <2>1, CyclicPop
    <2>4. ASSUME R = {} PROVE Goal
      BY <1>4, <2>1, <2>3, <2>4 DEF Held, Kept, TimeLeft
    <2>5. ASSUME R # {} PROVE Goal
      <3>1. p.task \in R /\ p.task \in Thread
        BY <1>1, <2>3, <2>5
      <3>2. p.sched.remaining[p.task] = Timeslice[p.task]
            /\ \A u \in Thread \ R : p.sched.remaining[u] = s.remaining[u]
        BY <2>2, <2>3, <2>5, <3>1
      <3>3. Kept(s, p.sched, Thread \ R) /\ TimeLeft(p.sched, p.task) > 0
        BY <1>2, <1>4, <3>1, <3>2 DEF Kept, TimeLeft
      <3>4. Held(p.sched, R \ {p.task}) /\ First(p.sched, R \ {p.task}, p.task)
        BY <1>4, <2>3, <2>5 DEF Held, First
      <3> QED BY <2>5, <3>1, <3>3, <3>4
    <2>6. Goal
      BY <2>4, <2>5
    <2> QED BY <2>6 DEF p, R
  <1>5. CASE policy = "EDF"
    <2> DEFINE q == Edf!Pop(s)
    <2>1. HeldEdf(s, R) /\ p = q
      BY <1>5 DEF Held, Pop
    <2> HIDE DEF R, p
    <2>3. /\ \A u \in Thread \ R : q.sched.left[u] = s.left[u]
          /\ R = {} => q.task = Idle /\ HeldEdf(q.sched, R)
          /\ R # {} => /\ q.task \in R
                       /\ HeldEdf(q.sched, R \ {q.task})
                       /\ q.sched.left[q.task] > 0
                       /\ \A u \in R : q.sched.left[q.task] <= q.sched.left[u]
      BY <1>1, <2>1, EdfPop
    <2> HIDE DEF q
    <2>6. Goal
      BY <1>5, <2>1, <2>3 DEF Held, First, Kept, TimeLeft
    <2> QED BY <2>6 DEF p, R
  <1> QED BY <1>3, <1>4, <1>5 DEF PolicyOK

\* With the time only the deadlines of ready threads come closer.
LEMMA TicksHeld ==
  ASSUME PolicyOK, NEW R \in SUBSET Thread, NEW s, Held(s, R)
  PROVE  LET n == TickTransitionCallback(s) IN Held(n, R) /\ Kept(s, n, Thread \ R)
  <1>1. CASE policy # "EDF"
    BY <1>1 DEF TickTransitionCallback, Kept
  <1>2. CASE policy = "EDF"
    <2> DEFINE n == Edf!TickTransitionCallback(s)
    <2>1. TickTransitionCallback(s) = n /\ HeldEdf(s, R)
      BY <1>2 DEF TickTransitionCallback, Held
    <2>2. HeldEdf(n, R) /\ \A u \in Thread \ R : n.left[u] = s.left[u]
      BY <2>1, EdfTicks
    <2> HIDE DEF n
    <2> QED BY <1>2, <2>1, <2>2 DEF Held, Kept, TimeLeft
  <1> QED BY <1>1, <1>2

\* A thread that is charged uses up its time slice at most, and if it neither
\* sleeps nor is throttled it has time left to a deadline.
LEMMA TickHeld ==
  ASSUME PolicyOK, NEW m, NEW R \in SUBSET Thread, NEW s, Held(s, R), NEW t \in Thread, t \notin R,
         TimeLeft(s, t) > 0, m.sleepTicks[t] \in Nat, m.replenishIn[t] \in Nat, period[t] \in Nat, NEW from
  PROVE  LET n == TickCallback(m, s, t, from)
         IN  /\ Held(n, R) /\ Kept(s, n, Thread \ {t})
             /\ \/ Charged(n, t)
                \/ policy = "EDF" /\ (m.currentBudget[t] = 0 \/ from = "THREAD_DEFTICK_SLEEP")
             /\ PaidFor(m, from, s, n, t)
  <1> DEFINE n == TickCallback(m, s, t, from)
             Goal == /\ Held(n, R) /\ Kept(s, n, Thread \ {t})
                     /\ \/ Charged(n, t)
                        \/ policy = "EDF" /\ (m.currentBudget[t] = 0 \/ from = "THREAD_DEFTICK_SLEEP")
                     /\ PaidFor(m, from, s, n, t)
  <1>3. CASE policy = "RR"
    <2>1. HeldRr(s, R) /\ n = Rr!TickCallback(s, t) /\ s.remaining[t] > 0
      BY <1>3 DEF Held, TickCallback, TimeLeft
    <2>2. s.remaining \in [Thread -> Int]
      BY <2>1 DEF HeldRr
    <2> HIDE DEF n
    <2>3. HeldRr(n, R) /\ n.remaining = [s.remaining EXCEPT ![t] = @ - 1]
      BY <2>1, RrTick
    <2>4. (\A u \in Thread \ {t} : n.remaining[u] = s.remaining[u]) /\ n.remaining[t] >= 0
      BY <2>1, <2>2, <2>3
    <2>5. Goal
      BY <1>3, <2>3, <2>4 DEF Held, Kept, TimeLeft, Charged, PaidFor
    <2> QED BY <2>5 DEF n
  <1>4. CASE policy = "CYCLIC"
    <2>1. HeldCyclic(s, R) /\ n = Cyclic!TickCallback(s, t) /\ s.remaining[t] > 0
      BY <1>4 DEF Held, TickCallback, TimeLeft
    <2>2. s.remaining \in [Thread -> Int]
      BY <2>1 DEF HeldCyclic
    <2> HIDE DEF n
    <2>3. HeldCyclic(n, R) /\ n.remaining = [s.remaining EXCEPT ![t] = @ - 1]
      BY <2>1, CyclicTick
    <2>4. (\A u \in Thread \ {t} : n.remaining[u] = s.remaining[u]) /\ n.remaining[t] >= 0
      BY <2>1, <2>2, <2>3
    <2>5. Goal
      BY <1>4, <2>3, <2>4 DEF Held, Kept, TimeLeft, Charged, PaidFor
    <2> QED BY <2>5 DEF n
  <1>5. CASE policy = "EDF"
    <2> DEFINE sleep == IF from = "THREAD_DEFTICK_SLEEP" THEN m.sleepTicks[t] ELSE 0
               throttled == m.currentBudget[t] = 0
               timeLeft == IF BCS \/ period[t] = 0 THEN period[t] ELSE m.replenishIn[t]
               q == Edf!TickCallback(s, t, sleep, throttled, timeLeft)
    <2>1. HeldEdf(s, R) /\ n = q /\ s.left[t] > 0
      BY <1>5 DEF Held, TickCallback, TimeLeft
    <2>2. sleep \in Nat /\ throttled \in BOOLEAN /\ timeLeft \in Nat
      OBVIOUS
    <2> HIDE DEF n, sleep, throttled, timeLeft
    <2>3. EdfCharged(R, s, t, sleep, throttled, timeLeft, q)
      BY <2>1, <2>2, EdfTick, Zenon
    <2> HIDE DEF q
    <2>4. q.left[t] > 0 \/ m.currentBudget[t] = 0 \/ from = "THREAD_DEFTICK_SLEEP"
      BY <2>3 DEF EdfCharged, sleep, throttled
    <2>6. BCS /\ from # "THREAD_DEFTICK_SLEEP" => q.left[t] = Paid(m, t, s.left[t])
      BY <2>3 DEF EdfCharged, Paid, sleep, throttled, timeLeft
    <2>5. Goal
      BY <1>5, <2>1, <2>3, <2>4, <2>6 DEF EdfCharged, Held, Kept, TimeLeft, Charged, PaidFor
    <2> QED BY <2>5 DEF n
  <1> QED BY <1>3, <1>4, <1>5 DEF PolicyOK

\* A thread that runs is asked to make room only for another one; if it goes
\* on it has time left and none goes before it.  One of which this holds
\* already does go on.
LEMMA AskHeld ==
  ASSUME PolicyOK, NEW m, NEW s, Held(s, Ready(m)), m.running \in Thread, m.running \notin Ready(m)
  PROVE  LET asked == ShouldReschedule(m, s)
             R == Ready(m)
             t == m.running
         IN  /\ Held(asked.sched, R) /\ Kept(s, asked.sched, Thread \ (R \cup {t}))
             /\ asked.yes \in BOOLEAN /\ (asked.yes => R # {})
             /\ ~asked.yes /\ Charged(s, t) => TimeLeft(asked.sched, t) > 0 /\ First(asked.sched, R, t)
             /\ TimeLeft(s, t) > 0 /\ First(s, R, t) => ~asked.yes
  <1> DEFINE asked == ShouldReschedule(m, s)
             R == Ready(m)
             t == m.running
             Goal == /\ Held(asked.sched, R) /\ Kept(s, asked.sched, Thread \ (R \cup {t}))
                     /\ asked.yes \in BOOLEAN /\ (asked.yes => R # {})
                     /\ ~asked.yes /\ Charged(s, t) => TimeLeft(asked.sched, t) > 0 /\ First(asked.sched, R, t)
                     /\ TimeLeft(s, t) > 0 /\ First(s, R, t) => ~asked.yes
  <1>1. R \in SUBSET Thread
    BY ReadyIs
  <1>2. Held(s, R) /\ t \in Thread /\ t \notin R
    OBVIOUS
  <1>3. CASE policy = "RR"
    <2> DEFINE a == Rr!ShouldReschedule(s, t)
    <2>1. HeldRr(s, R) /\ asked = a
      BY <1>2, <1>3 DEF Held, ShouldReschedule
    <2> HIDE DEF R, t, asked
    <2>2. /\ HeldRr(a.sched, R)
          /\ \A u \in Thread \ {t} : a.sched.remaining[u] = s.remaining[u]
          /\ a.yes \in BOOLEAN
          /\ a.yes => R # {}
          /\ ~a.yes /\ s.remaining[t] >= 0 =>
               a.sched.remaining[t] > 0 /\ \A u \in R : Prio[u] <= Prio[t]
          /\ s.remaining[t] > 0 /\ (\A u \in R : Prio[u] <= Prio[t]) => ~a.yes
      BY <1>1, <1>2, <2>1, RrAsk
    <2> HIDE DEF a
    <2>3. Goal
      BY <1>2, <1>3, <2>1, <2>2 DEF Held, Kept, TimeLeft, Charged, First
    <2> QED BY <2>3 DEF R, t, asked
  <1>4. CASE policy = "CYCLIC"
    <2> DEFINE a == Cyclic!ShouldReschedule(s, t)
    <2>1. HeldCyclic(s, R) /\ asked = a
      BY <1>2, <1>4 DEF Held, ShouldReschedule
    <2> HIDE DEF R, t, asked
    <2>2. /\ HeldCyclic(a.sched, R)
          /\ \A u \in Thread \ {t} : a.sched.remaining[u] = s.remaining[u]
          /\ a.yes \in BOOLEAN
          /\ a.yes => R # {}
          /\ ~a.yes /\ s.remaining[t] >= 0 => a.sched.remaining[t] > 0
          /\ s.remaining[t] > 0 => ~a.yes
      BY <1>1, <1>2, <2>1, CyclicAsk
    <2> HIDE DEF a
    <2>3. Goal
      BY <1>2, <1>4, <2>1, <2>2 DEF Held, Kept, TimeLeft, Charged, First
    <2> QED BY <2>3 DEF R, t, asked
  <1>5. CASE policy = "EDF"
    <2> DEFINE a == Edf!ShouldReschedule(s, t)
    <2>1. HeldEdf(s, R) /\ asked = a
      BY <1>2, <1>5 DEF Held, ShouldReschedule
    <2> HIDE DEF R, t, asked
    <2>2. /\ HeldEdf(a.sched, R)
          /\ \A u \in Thread \ R : a.sched.left[u] = s.left[u]
          /\ a.yes \in BOOLEAN
          /\ a.yes => R # {}
          /\ ~a.yes => \A u \in R : a.sched.left[t] <= a.sched.left[u]
          /\ s.left[t] > 0 /\ (\A u \in R : s.left[t] <= s.left[u]) => ~a.yes
      BY <1>1, <1>2, <2>1, EdfAsk
    <2> HIDE DEF a
    <2>3. Goal
      BY <1>2, <1>5, <2>1, <2>2 DEF Held, Kept, TimeLeft, Charged, First
    <2> QED BY <2>3 DEF R, t, asked
  <1> QED BY <1>3, <1>4, <1>5 DEF PolicyOK

\* Idle makes room for any thread.
LEMMA AskIdle ==
  ASSUME PolicyOK, NEW m, NEW s, Held(s, Ready(m)), m.running = Idle
  PROVE  LET asked == ShouldReschedule(m, s)
         IN  asked.sched = s /\ asked.yes \in BOOLEAN /\ (asked.yes <=> Ready(m) # {})
  <1> DEFINE asked == ShouldReschedule(m, s)
             R == Ready(m)
  <1>1. R \in SUBSET Thread /\ Idle \notin Thread
    BY ReadyIs
  <1>2. CASE policy = "RR"
    <2>1. s.activeQs = {Prio[u] : u \in R}
      BY <1>2 DEF Held, HeldRr
    <2>2. asked = [yes |-> s.activeQs # {}, sched |-> s]
      BY <1>2 DEF ShouldReschedule, Rr!ShouldReschedule
    <2> HIDE DEF asked
    <2>3. asked.sched = s /\ asked.yes \in BOOLEAN /\ (asked.yes <=> s.activeQs # {})
      BY <2>2
    <2> QED BY <2>1, <2>3 DEF asked
  <1>3. CASE policy = "CYCLIC"
    <2>1. s.numReady = Cardinality(R) /\ s.numReady \in Nat
      BY <1>3 DEF Held, HeldCyclic
    <2>2. s.numReady = 0 <=> R = {}
      <3>1. IsFiniteSet(R)
        BY <1>1, PolicyConfiguration, FS_Subset
      <3> QED BY <2>1, <3>1, FS_EmptySet
    <2>3. asked.sched = s /\ asked.yes \in BOOLEAN /\ (asked.yes <=> s.numReady > 0)
      BY <1>1, <1>3 DEF ShouldReschedule, Cyclic!ShouldReschedule
    <2> HIDE DEF asked
    <2> QED BY <2>1, <2>2, <2>3 DEF asked
  <1>4. CASE policy = "EDF"
    <2>1. HeldEdf(s, R)
      BY <1>4 DEF Held
    <2>2. s.chain = <<>> <=> R = {}
      BY <1>1, <2>1, EdfParts
    <2>3. asked.sched = s /\ asked.yes \in BOOLEAN /\ (asked.yes <=> s.chain # <<>>)
      BY <1>4 DEF ShouldReschedule, Edf!ShouldReschedule
    <2> QED BY <2>2, <2>3
  <1> QED BY <1>2, <1>3, <1>4 DEF PolicyOK

\* A policy that holds no thread yet.
LEMMA EmptyHeld ==
  ASSUME PolicyOK
  PROVE  LET empty == CASE policy = "RR" -> Rr!Empty
                        [] policy = "CYCLIC" -> Cyclic!Empty
                        [] policy = "EDF" -> Edf!Empty
         IN  Held(empty, {})
  <1>1. CASE policy = "RR"
    <2> DEFINE e == Rr!Empty
    <2>1. /\ e \in [qs : [Rr!Prios -> Seq(Thread)], activeQs : SUBSET Rr!Prios, remaining : [Thread -> Int]]
          /\ e.activeQs = {} /\ \A p \in Rr!Prios : e.qs[p] = <<>>
      BY EmptyStack DEF Rr!Empty
    <2>2. HeldRr(e, {})
      <3> HIDE DEF e
      <3> QED BY <2>1, EmptyStack DEF HeldRr
    <2> QED BY <1>1, <2>2 DEF Held
  <1>2. CASE policy = "CYCLIC"
    <2> DEFINE e == Cyclic!Empty
    <2>1. /\ e \in [clock : 0..Len(Frames), numReady : Nat, remaining : [Thread -> Int]]
          /\ e.numReady = 0
      <3>1. Len(Frames) \in Nat
        BY PolicyConfiguration, LenProperties
      <3> QED BY <3>1 DEF Cyclic!Empty
    <2>2. HeldCyclic(e, {})
      <3> HIDE DEF e
      <3> QED BY <2>1, FS_EmptySet DEF HeldCyclic
    <2> QED BY <1>2, <2>2 DEF Held
  <1>3. CASE policy = "EDF"
    <2> DEFINE e == Edf!Empty
    <2>1. e \in [chain : Seq(Thread), left : [Thread -> Nat]] /\ e.chain = <<>>
      BY EmptyStack DEF Edf!Empty
    <2>2. HeldEdf(e, {})
      <3> HIDE DEF e
      <3>1. Sorted(e)
        BY <2>1 DEF Sorted
      <3> QED BY <2>1, <3>1, EmptyStack DEF HeldEdf
    <2> QED BY <1>3, <2>2 DEF Held
  <1> QED BY <1>1, <1>2, <1>3 DEF PolicyOK

-----------------------------------------------------------------------------
(* Several threads at once.                                                *)

\* The first k threads of an order.
Taken(order, k) == {order[j] : j \in 1..k}

\* Thread by thread they become the whole set.
LEMMA TakenIs ==
  ASSUME NEW S, NEW order \in Seq(S), IsInjective(order), ToSet(order) = S
  PROVE  /\ Len(order) \in Nat
         /\ Taken(order, 0) = {} /\ Taken(order, Len(order)) = S
         /\ \A k \in 1..Len(order) :
              /\ order[k] \in S /\ order[k] \notin Taken(order, k - 1)
              /\ Taken(order, k) = Taken(order, k - 1) \cup {order[k]}
              /\ Taken(order, k) \subseteq S /\ Taken(order, k - 1) \subseteq S
  <1>1. Len(order) \in Nat /\ DOMAIN order = 1..Len(order)
    BY LenProperties
  <1>2. Taken(order, 0) = {} /\ Taken(order, Len(order)) = S
    BY <1>1 DEF Taken, ToSet
  <1>3. ASSUME NEW k \in 1..Len(order)
        PROVE  /\ order[k] \in S /\ order[k] \notin Taken(order, k - 1)
               /\ Taken(order, k) = Taken(order, k - 1) \cup {order[k]}
               /\ Taken(order, k) \subseteq S /\ Taken(order, k - 1) \subseteq S
    <2>1. order[k] \in S /\ \A j \in 1..k : order[j] \in S
      BY <1>1 DEF ToSet
    <2>2. \A j \in 1..k - 1 : j \in DOMAIN order /\ k \in DOMAIN order /\ j # k /\ j \in 1..k
      BY <1>1
    <2>3. order[k] \notin Taken(order, k - 1)
      BY <2>2 DEF Taken, IsInjective
    <2>4. 1..k = (1..k - 1) \cup {k}
      BY <1>1
    <2>5. Taken(order, k) = Taken(order, k - 1) \cup {order[k]}
      BY <2>4 DEF Taken
    <2>6. Taken(order, k) \subseteq S /\ Taken(order, k - 1) \subseteq S
      BY <2>1, <2>2 DEF Taken
    <2> QED BY <2>1, <2>3, <2>5, <2>6
  <1> QED BY <1>1, <1>2, <1>3

\* Threads that are pushed in any order all join the ready ones.
LEMMA PushAllHeld ==
  ASSUME PolicyOK, NEW R \in SUBSET Thread, NEW s, Held(s, R),
         NEW S \in SUBSET Thread, S \cap R = {}, NEW order \in SetToSeqs(S)
  PROVE  /\ Held(PushAll(s, order), R \cup S) /\ Kept(s, PushAll(s, order), Thread \ S)
         /\ policy = "EDF" => \A t \in S : PushAll(s, order).left[t] = Fresh(t, s.left[t])
  <1> DEFINE n == Len(order)
             Step(g) == [i \in 0..n |-> IF i = 0 THEN s ELSE Push(g[i - 1], order[i])]
             f == CHOOSE g : g = Step(g)
  <1>0. order \in Seq(S) /\ IsInjective(order) /\ ToSet(order) = S
    <2>1. IsFiniteSet(S)
      BY PolicyConfiguration, FS_Subset
    <2> QED BY <2>1, OrderIs
  <1>1. n \in Nat
    BY <1>0, LenProperties
  <1>2. PushAll(s, order) = f[n]
    BY DEF PushAll
  <1> DEFINE P(k) == \E g : g = [i \in 0..k |-> IF i = 0 THEN s ELSE Push(g[i - 1], order[i])]
             T == {k \in 0..n : ~P(k)}
  <1>3. P(n)
    <2>1. T \subseteq Nat /\ 0 \notin T
      <3> DEFINE z == [i \in 0..0 |-> s]
      <3>1. z = [i \in 0..0 |-> IF i = 0 THEN s ELSE Push(z[i - 1], order[i])]
        OBVIOUS
      <3> HIDE DEF z
      <3>2. P(0)
        BY <3>1
      <3> HIDE DEF P
      <3> QED BY <1>1, <3>2
    <2>2. ASSUME NEW k \in T PROVE k - 1 \in T
      <3>1. k \in 1..n /\ k - 1 \in 0..n
        <4> HIDE DEF P
        <4> QED BY <1>1, <2>1
      <3>2. ASSUME P(k - 1) PROVE P(k)
        <4>1. PICK g : g = [i \in 0..k - 1 |-> IF i = 0 THEN s ELSE Push(g[i - 1], order[i])]
          BY <3>2
        <4> DEFINE h == [i \in 0..k |-> IF i = k THEN Push(g[k - 1], order[k]) ELSE g[i]]
        <4>2. ASSUME NEW i \in 0..k PROVE h[i] = IF i = 0 THEN s ELSE Push(h[i - 1], order[i])
          <5>1. CASE i = k
            BY <3>1, <5>1
          <5>2. CASE i # k
            <6>1. i \in 0..k - 1 /\ (i # 0 => i - 1 \in 0..k /\ i - 1 # k)
              BY <3>1, <5>2
            <6>2. h[i] = g[i] /\ (i # 0 => h[i - 1] = g[i - 1])
              BY <6>1, <5>2
            <6> HIDE DEF h
            <6> QED BY <4>1, <6>1, <6>2
          <5> QED BY <5>1, <5>2
        <4>3. h = [i \in 0..k |-> h[i]]
          OBVIOUS
        <4> HIDE DEF h
        <4>4. h = [i \in 0..k |-> IF i = 0 THEN s ELSE Push(h[i - 1], order[i])]
          BY <4>2, <4>3
        <4> QED BY <4>4
      <3> HIDE DEF P
      <3> QED BY <3>1, <3>2
    <2>3. T = {}
      <3> HIDE DEF T
      <3> QED BY <2>1, <2>2, NoFirstFailure
    <2> HIDE DEF P
    <2> QED BY <1>1, <2>3
  <1>4. \E g : g = Step(g)
    BY <1>3
  <1>5. f = Step(f)
    <2> HIDE DEF Step
    <2> QED BY <1>4
  <1> HIDE DEF f, P, T
  <1>6. f[0] = s /\ \A i \in 1..n : f[i] = Push(f[i - 1], order[i])
    BY <1>1, <1>5
  <1> HIDE DEF Step
  <1> DEFINE Q(k) == /\ Held(f[k], R \cup Taken(order, k))
                     /\ Kept(s, f[k], Thread \ Taken(order, k))
                     /\ policy = "EDF" => \A t \in Taken(order, k) : f[k].left[t] = Fresh(t, s.left[t])
             U == {k \in 0..n : ~Q(k)}
  <1>7. /\ Taken(order, 0) = {} /\ Taken(order, n) = S
        /\ \A k \in 1..n : /\ order[k] \in S /\ order[k] \notin Taken(order, k - 1)
                           /\ Taken(order, k) = Taken(order, k - 1) \cup {order[k]}
                           /\ Taken(order, k) \subseteq S /\ Taken(order, k - 1) \subseteq S
    BY <1>0, TakenIs
  <1>8. Q(0)
    <2>1. R \cup Taken(order, 0) = R
      BY <1>7
    <2> QED BY <1>6, <1>7, <2>1 DEF Kept
  <1>9. ASSUME NEW k \in 1..n, Q(k - 1) PROVE Q(k)
    <2> DEFINE A == R \cup Taken(order, k - 1)
               t == order[k]
               x == f[k - 1]
    <2>1. A \in SUBSET Thread /\ t \in Thread /\ t \in S /\ t \notin A /\ A \cup {t} = R \cup Taken(order, k)
      BY <1>7
    <2> DEFINE B == Taken(order, k - 1)
    <2>2. /\ Held(x, A) /\ Kept(s, x, Thread \ B) /\ f[k] = Push(x, t)
          /\ policy = "EDF" => \A u \in B : x.left[u] = Fresh(u, s.left[u])
          /\ Taken(order, k) = B \cup {t} /\ t \notin B /\ B \subseteq Thread
      BY <1>6, <1>7, <1>9
    <2> HIDE DEF A, B, t, x
    <2>3. /\ Held(Push(x, t), A \cup {t}) /\ Kept(x, Push(x, t), Thread \ {t})
          /\ policy = "EDF" => Push(x, t).left[t] = Fresh(t, x.left[t])
      BY <2>1, <2>2, PushHeld
    <2>4. Kept(s, Push(x, t), Thread \ (B \cup {t}))
      BY <2>1, <2>2, <2>3 DEF Kept
    <2>5. ASSUME policy = "EDF", NEW u \in B \cup {t}
          PROVE  Push(x, t).left[u] = Fresh(u, s.left[u])
      <3>1. CASE u = t
        <4>1. x.left[t] = s.left[t]
          BY <2>1, <2>2, <2>5 DEF Kept, TimeLeft
        <4> QED BY <2>3, <2>5, <3>1, <4>1
      <3>2. CASE u # t
        <4>1. Push(x, t).left[u] = x.left[u]
          BY <2>2, <2>3, <2>5, <3>2 DEF Kept, TimeLeft
        <4> QED BY <2>2, <2>5, <3>2, <4>1
      <3> QED BY <3>1, <3>2
    <2> QED BY <2>1, <2>2, <2>3, <2>4, <2>5
  <1>10. U = {}
    <2>1. U \subseteq Nat /\ 0 \notin U
      <3> HIDE DEF Q
      <3> QED BY <1>1, <1>8
    <2>2. ASSUME NEW k \in U PROVE k - 1 \in U
      <3> HIDE DEF Q
      <3>1. k \in 1..n /\ k - 1 \in 0..n
        BY <1>1, <2>1
      <3> QED BY <1>9, <3>1
    <2> HIDE DEF U
    <2> QED BY <2>1, <2>2, NoFirstFailure
  <1>11. Q(n)
    <2> HIDE DEF Q
    <2> QED BY <1>1, <1>10
  <1> QED BY <1>2, <1>7, <1>11

\* A stack turned around holds what it held.
LEMMA ReverseIs ==
  ASSUME NEW S, NEW r \in Seq(S), IsInjective(r)
  PROVE  Reverse(r) \in Seq(S) /\ IsInjective(Reverse(r)) /\ ToSet(Reverse(r)) = ToSet(r)
  <1> DEFINE v == Reverse(r)
  <1>1. Len(r) \in Nat /\ DOMAIN r = 1..Len(r) /\ \A i \in 1..Len(r) : r[i] \in S
    BY LenProperties, ElementOfSeq
  <1>2. v = [i \in 1..Len(r) |-> r[(Len(r) - i) + 1]]
    BY DEF Reverse
  <1> HIDE DEF v
  <1>3. \A i \in 1..Len(r) : (Len(r) - i) + 1 \in 1..Len(r)
    BY <1>1
  <1>4. v \in [1..Len(r) -> S] /\ DOMAIN v = 1..Len(r) /\ \A i \in 1..Len(r) : v[i] = r[(Len(r) - i) + 1]
    BY <1>1, <1>2, <1>3
  <1>5. v \in Seq(S)
    BY <1>1, <1>4
  <1>6. IsInjective(v)
    <2> SUFFICES ASSUME NEW i \in 1..Len(r), NEW j \in 1..Len(r), v[i] = v[j] PROVE i = j
      BY <1>4 DEF IsInjective
    <2>1. (Len(r) - i) + 1 = (Len(r) - j) + 1
      BY <1>1, <1>3, <1>4 DEF IsInjective
    <2> QED BY <1>1, <2>1
  <1>7. ASSUME NEW i \in 1..Len(r) PROVE v[i] \in ToSet(r) /\ r[i] \in ToSet(v)
    <2> DEFINE j == (Len(r) - i) + 1
    <2>1. j \in 1..Len(r) /\ v[i] = r[j] /\ v[j] = r[(Len(r) - j) + 1] /\ (Len(r) - j) + 1 = i
      BY <1>1, <1>3, <1>4
    <2> HIDE DEF j
    <2> QED BY <1>1, <1>4, <2>1 DEF ToSet
  <1>8. ToSet(v) = ToSet(r)
    BY <1>1, <1>4, <1>7 DEF ToSet
  <1> QED BY <1>5, <1>6, <1>8 DEF v

\* The deferred tick of one task, in the machine's step from m to n.
Settle(m, n, s, t) ==
  LET charged == TickCallback(n, s, t, m.state[t])
  IN  IF n.state[t] = "READY" THEN Push(charged, t) ELSE charged

\* what is left to a thread that met its deferred tick
Settled(m, n, s, t) ==
  \/ Charged(s, t)
  \/ policy = "EDF" /\ (n.currentBudget[t] = 0 \/ m.state[t] = "THREAD_DEFTICK_SLEEP")

\* EDF with BCS: the time that is left to its deadline
SettledTime(m, n, s, r, t) ==
  policy = "EDF" /\ BCS /\ m.state[t] # "THREAD_DEFTICK_SLEEP" =>
    r.left[t] = IF n.state[t] = "READY" THEN Fresh(t, Paid(n, t, s.left[t])) ELSE Paid(n, t, s.left[t])

\* The policy's part in a step from m to n that settles the deferred ticks.
Settles(m, n, s) ==
  /\ m.deferred \in Seq(Thread \cup {Idle}) /\ IsInjective(m.deferred)
  /\ \A t \in Thread : t \in ToSet(m.deferred) => t \notin Ready(m) /\ TimeLeft(s, t) > 0
  /\ n.state[Idle] # "READY" \/ Idle \notin ToSet(m.deferred)
  /\ \A t \in Thread : n.sleepTicks[t] \in Nat /\ n.replenishIn[t] \in Nat /\ period[t] \in Nat

\* Of the threads A that met their deferred ticks those that are ready joined
\* the ready threads of m.
SettledUpTo(m, n, s, A, r) ==
  /\ Held(r, Ready(m) \cup {t \in Thread : t \in A /\ n.state[t] = "READY"})
  /\ Kept(s, r, Thread \ A)
  /\ \A t \in Thread : t \in A => SettledTime(m, n, s, r, t)
  /\ \A t \in Thread : t \in A /\ n.state[t] # "READY" => Settled(m, n, r, t)

\* One deferred tick more.
LEMMA SettleHeld ==
  ASSUME PolicyOK, NEW m, NEW n, NEW s, Settles(m, n, s), NEW A \in SUBSET (Thread \cup {Idle}),
         NEW x, SettledUpTo(m, n, s, A, x), NEW t \in ToSet(m.deferred), t \notin A
  PROVE  SettledUpTo(m, n, s, A \cup {t}, Settle(m, n, x, t))
  <1> DEFINE R == Ready(m) \cup {u \in Thread : u \in A /\ n.state[u] = "READY"}
             Q == Ready(m) \cup {u \in Thread : u \in A \cup {t} /\ n.state[u] = "READY"}
             y == TickCallback(n, x, t, m.state[t])
             z == Settle(m, n, x, t)
  <1>1. /\ R \in SUBSET Thread /\ Held(x, R) /\ Kept(s, x, Thread \ A)
        /\ \A u \in Thread : u \in A /\ n.state[u] # "READY" => Settled(m, n, x, u)
        /\ \A u \in Thread : u \in A => SettledTime(m, n, s, x, u)
    BY ReadyIs DEF SettledUpTo
  <1>2. t \in Thread \cup {Idle} /\ Idle \notin Thread
    BY ReadyIs DEF Settles, ToSet
  <1>3. CASE t \notin Thread
    <2>1. z = x
      BY <1>2, <1>3 DEF Settle, Settles, TickCallback
    <2>2. Q = R
      BY <1>3
    <2> HIDE DEF R, Q, z
    <2>3. Held(z, Q) /\ Kept(s, z, Thread \ (A \cup {t}))
      BY <1>1, <2>1, <2>2 DEF Kept
    <2>4. \A u \in Thread : u \in A \cup {t} /\ n.state[u] # "READY" => Settled(m, n, z, u)
      BY <1>1, <1>3, <2>1
    <2>5. \A u \in Thread : u \in A \cup {t} => SettledTime(m, n, s, z, u)
      BY <1>1, <1>3, <2>1
    <2> QED BY <2>3, <2>4, <2>5 DEF SettledUpTo, Q, z
  <1>4. CASE t \in Thread
    <2>1. t \notin Ready(m) /\ TimeLeft(s, t) > 0
          /\ n.sleepTicks[t] \in Nat /\ n.replenishIn[t] \in Nat /\ period[t] \in Nat
      BY <1>4 DEF Settles
    <2>2. t \notin R
      BY <2>1
    <2>3. TimeLeft(x, t) > 0
      BY <1>1, <1>4, <2>1 DEF Kept
    <2>4. z = IF n.state[t] = "READY" THEN Push(y, t) ELSE y
      BY DEF Settle
    <2>5. Q = IF n.state[t] = "READY" THEN R \cup {t} ELSE R
      BY <1>4
    <2> HIDE DEF R, Q, z
    <2>6. /\ Held(y, R) /\ Kept(x, y, Thread \ {t}) /\ Settled(m, n, y, t)
          /\ PaidFor(n, m.state[t], x, y, t)
      <3> DEFINE from == m.state[t]
      <3> HIDE DEF from
      <3> DEFINE v == TickCallback(n, x, t, from)
      <3>2. /\ R \in SUBSET Thread /\ Held(x, R) /\ t \in Thread
            /\ n.sleepTicks[t] \in Nat /\ n.replenishIn[t] \in Nat /\ period[t] \in Nat
        BY <1>1, <1>4, <2>1
      <3>1. /\ Held(v, R) /\ Kept(x, v, Thread \ {t})
            /\ \/ Charged(v, t)
               \/ policy = "EDF" /\ (n.currentBudget[t] = 0 \/ from = "THREAD_DEFTICK_SLEEP")
            /\ PaidFor(n, from, x, v, t)
        BY <3>2, <2>2, <2>3, TickHeld
      <3> QED BY <3>1 DEF Settled, from
    <2> HIDE DEF y
    <2>12. policy = "EDF" => x.left[t] = s.left[t]
      BY <1>1, <1>4, <2>1 DEF Kept, TimeLeft
    <2>7. ASSUME n.state[t] = "READY"
          PROVE  Held(z, Q) /\ Kept(x, z, Thread \ {t}) /\ SettledTime(m, n, s, z, t)
      <3>1. /\ Held(Push(y, t), R \cup {t}) /\ Kept(y, Push(y, t), Thread \ {t})
            /\ policy = "EDF" => Push(y, t).left[t] = Fresh(t, y.left[t])
        BY <1>1, <1>4, <2>2, <2>6, PushHeld
      <3>2. z = Push(y, t) /\ Q = R \cup {t}
        BY <2>4, <2>5, <2>7
      <3>3. Kept(x, Push(y, t), Thread \ {t})
        BY <2>6, <3>1 DEF Kept
      <3>4. SettledTime(m, n, s, z, t)
        BY <2>6, <2>7, <2>12, <3>1, <3>2 DEF SettledTime, PaidFor
      <3> QED BY <3>1, <3>2, <3>3, <3>4
    <2>8. ASSUME n.state[t] # "READY"
          PROVE  /\ Held(z, Q) /\ Kept(x, z, Thread \ {t}) /\ Settled(m, n, z, t)
                 /\ SettledTime(m, n, s, z, t)
      <3>1. z = y /\ Q = R
        BY <2>4, <2>5, <2>8
      <3>2. SettledTime(m, n, s, z, t)
        BY <2>6, <2>8, <2>12, <3>1 DEF SettledTime, PaidFor
      <3> QED BY <2>6, <3>1, <3>2
    <2>9. /\ Held(z, Q) /\ Kept(x, z, Thread \ {t}) /\ (n.state[t] # "READY" => Settled(m, n, z, t))
          /\ SettledTime(m, n, s, z, t)
      BY <2>7, <2>8
    <2>10. Kept(s, z, Thread \ (A \cup {t}))
      BY <1>1, <2>9 DEF Kept
    <2>11. ASSUME NEW u \in Thread, u \in A \cup {t}, n.state[u] # "READY" PROVE Settled(m, n, z, u)
      <3>1. CASE u = t
        BY <2>9, <2>11, <3>1
      <3>2. CASE u # t
        <4>1. Settled(m, n, x, u) /\ TimeLeft(z, u) = TimeLeft(x, u)
          BY <1>1, <2>9, <2>11, <3>2 DEF Kept
        <4> QED BY <4>1 DEF Settled, Charged, TimeLeft
      <3> QED BY <3>1, <3>2
    <2>13. ASSUME NEW u \in Thread, u \in A \cup {t} PROVE SettledTime(m, n, s, z, u)
      <3>1. CASE u = t
        BY <2>9, <3>1
      <3>2. CASE u # t
        <4>1. SettledTime(m, n, s, x, u) /\ TimeLeft(z, u) = TimeLeft(x, u)
          BY <1>1, <2>9, <2>13, <3>2 DEF Kept
        <4> QED BY <4>1 DEF SettledTime, TimeLeft
      <3> QED BY <3>1, <3>2
    <2> QED BY <2>9, <2>10, <2>11, <2>13 DEF SettledUpTo, Q, z
  <1> QED BY <1>3, <1>4

\* All deferred ticks.
LEMMA SettleAllHeld ==
  ASSUME PolicyOK, NEW m, NEW n, NEW s, Settles(m, n, s), Held(s, Ready(m))
  PROVE  SettledUpTo(m, n, s, ToSet(m.deferred), SettleAll(m, n, s, Reverse(m.deferred)))
  <1> DEFINE order == Reverse(m.deferred)
             len == Len(order)
             D == ToSet(m.deferred)
             Step(g) == [i \in 0..len |-> IF i = 0 THEN s ELSE Settle(m, n, g[i - 1], order[i])]
             f == CHOOSE g : g = Step(g)
  <1>0. /\ D \subseteq Thread \cup {Idle}
        /\ order \in Seq(D) /\ IsInjective(order) /\ ToSet(order) = D
    <2>1. m.deferred \in Seq(D) /\ IsInjective(m.deferred)
      BY LenProperties, ElementOfSeq DEF Settles, ToSet
    <2>2. D \subseteq Thread \cup {Idle}
      BY DEF Settles, ToSet
    <2> HIDE DEF D, order
    <2> QED BY <2>1, <2>2, ReverseIs DEF D, order
  <1> HIDE DEF order, D
  <1>1. len \in Nat
    BY <1>0, LenProperties
  <1>2. SettleAll(m, n, s, order) = f[len]
    BY DEF SettleAll, Settle
  <1> DEFINE P(k) == \E g : g = [i \in 0..k |-> IF i = 0 THEN s ELSE Settle(m, n, g[i - 1], order[i])]
             T == {k \in 0..len : ~P(k)}
  <1>3. P(len)
    <2>1. T \subseteq Nat /\ 0 \notin T
      <3> DEFINE z == [i \in 0..0 |-> s]
      <3>1. z = [i \in 0..0 |-> IF i = 0 THEN s ELSE Settle(m, n, z[i - 1], order[i])]
        OBVIOUS
      <3> HIDE DEF z
      <3>2. P(0)
        BY <3>1
      <3> HIDE DEF P
      <3> QED BY <1>1, <3>2
    <2>2. ASSUME NEW k \in T PROVE k - 1 \in T
      <3>1. k \in 1..len /\ k - 1 \in 0..len
        <4> HIDE DEF P
        <4> QED BY <1>1, <2>1
      <3>2. ASSUME P(k - 1) PROVE P(k)
        <4>1. PICK g : g = [i \in 0..k - 1 |-> IF i = 0 THEN s ELSE Settle(m, n, g[i - 1], order[i])]
          BY <3>2
        <4> DEFINE h == [i \in 0..k |-> IF i = k THEN Settle(m, n, g[k - 1], order[k]) ELSE g[i]]
        <4>2. ASSUME NEW i \in 0..k PROVE h[i] = IF i = 0 THEN s ELSE Settle(m, n, h[i - 1], order[i])
          <5>1. CASE i = k
            BY <3>1, <5>1
          <5>2. CASE i # k
            <6>1. i \in 0..k - 1 /\ (i # 0 => i - 1 \in 0..k /\ i - 1 # k)
              BY <3>1, <5>2
            <6>2. h[i] = g[i] /\ (i # 0 => h[i - 1] = g[i - 1])
              BY <6>1, <5>2
            <6> HIDE DEF h
            <6> QED BY <4>1, <6>1, <6>2
          <5> QED BY <5>1, <5>2
        <4>3. h = [i \in 0..k |-> h[i]]
          OBVIOUS
        <4> HIDE DEF h
        <4>4. h = [i \in 0..k |-> IF i = 0 THEN s ELSE Settle(m, n, h[i - 1], order[i])]
          BY <4>2, <4>3
        <4> QED BY <4>4
      <3> HIDE DEF P
      <3> QED BY <3>1, <3>2
    <2>3. T = {}
      <3> HIDE DEF T
      <3> QED BY <2>1, <2>2, NoFirstFailure
    <2> HIDE DEF P
    <2> QED BY <1>1, <2>3
  <1>4. \E g : g = Step(g)
    BY <1>3
  <1>5. f = Step(f)
    <2> HIDE DEF Step
    <2> QED BY <1>4
  <1> HIDE DEF f, P, T
  <1>6. f[0] = s /\ \A i \in 1..len : f[i] = Settle(m, n, f[i - 1], order[i])
    BY <1>1, <1>5
  <1> HIDE DEF Step
  <1> DEFINE Q(k) == SettledUpTo(m, n, s, Taken(order, k), f[k])
             U == {k \in 0..len : ~Q(k)}
  <1>7. /\ Taken(order, 0) = {} /\ Taken(order, len) = D
        /\ \A k \in 1..len : /\ order[k] \in D /\ order[k] \notin Taken(order, k - 1)
                             /\ Taken(order, k) = Taken(order, k - 1) \cup {order[k]}
                             /\ Taken(order, k) \subseteq D /\ Taken(order, k - 1) \subseteq D
    BY <1>0, TakenIs
  <1>8. Q(0)
    <2>1. Ready(m) \cup {t \in Thread : t \in {} /\ n.state[t] = "READY"} = Ready(m)
      OBVIOUS
    <2>2. SettledUpTo(m, n, s, {}, s)
      BY <2>1 DEF SettledUpTo, Kept
    <2> QED BY <1>6, <1>7, <2>2
  <1>9. ASSUME NEW k \in 1..len, Q(k - 1) PROVE Q(k)
    <2> DEFINE A == Taken(order, k - 1)
               t == order[k]
               x == f[k - 1]
    <2>1. A \in SUBSET (Thread \cup {Idle}) /\ t \in D /\ t \notin A /\ A \cup {t} = Taken(order, k)
      BY <1>0, <1>7
    <2>2. SettledUpTo(m, n, s, A, x) /\ f[k] = Settle(m, n, x, t)
      BY <1>6, <1>9
    <2> HIDE DEF A, t, x
    <2>3. SettledUpTo(m, n, s, A \cup {t}, Settle(m, n, x, t))
      BY <2>1, <2>2, SettleHeld DEF D
    <2> QED BY <2>1, <2>2, <2>3
  <1>10. U = {}
    <2>1. U \subseteq Nat /\ 0 \notin U
      <3> HIDE DEF Q
      <3> QED BY <1>1, <1>8
    <2>2. ASSUME NEW k \in U PROVE k - 1 \in U
      <3> HIDE DEF Q
      <3>1. k \in 1..len /\ k - 1 \in 0..len
        BY <1>1, <2>1
      <3> QED BY <1>9, <3>1
    <2> HIDE DEF U
    <2> QED BY <2>1, <2>2, NoFirstFailure
  <1>11. Q(len)
    <2> HIDE DEF Q
    <2> QED BY <1>1, <1>10
  <1> QED BY <1>2, <1>7, <1>11 DEF D, order

-----------------------------------------------------------------------------
(* The phases of the tick with the policy.                                 *)

\* From m to n threads come back, ready or still without budget; the others
\* stay where they are.
ComesBack(m, n) ==
  \A t \in Thread :
    \/ n.state[t] = m.state[t]
    \/ /\ m.state[t] \in {"THREAD_THROTTLED", "THREAD_SLEEP"}
       /\ n.state[t] \in {"READY", "THREAD_THROTTLED"}

\* A replenishment changes no budget but those whose period is over.
LEMMA ReplenishmentIs ==
  ASSUME NEW m \in MachineType
  PROVE  LET n == ReplenishmentPeriod(m)
         IN  /\ ComesBack(m, n) /\ n.running = m.running /\ n.deferred = m.deferred
             /\ \A t \in Thread : m.replenishIn[t] # 1 => n.currentBudget[t] = m.currentBudget[t]
  <1> DEFINE n == ReplenishmentPeriod(m)
             expired == {t \in Thread : m.replenishIn[t] = 1}
  <1>1. Thread \subseteq Task
    BY DEF Task
  <1>2. n.running = m.running /\ n.deferred = m.deferred
    BY DEF ReplenishmentPeriod, MachineType
  <1>3. n.state = [t \in Task |->
            IF t \in expired /\ m.state[t] = "THREAD_THROTTLED" THEN "READY" ELSE m.state[t]]
    BY DEF ReplenishmentPeriod, MachineType
  <1>4. n.currentBudget = [t \in Thread |-> IF t \in expired THEN budget[t] ELSE m.currentBudget[t]]
    BY DEF ReplenishmentPeriod, MachineType
  <1> HIDE DEF n
  <1> QED BY <1>1, <1>2, <1>3, <1>4 DEF ComesBack, n

\* Who does not sleep is not woken.
LEMMA SleepPeriodIs ==
  ASSUME NEW m \in MachineType, TimersOK(m)
  PROVE  LET n == SleepPeriod(m)
         IN  /\ ComesBack(m, n) /\ n.running = m.running /\ n.deferred = m.deferred
             /\ \A t \in Thread : m.state[t] # "THREAD_SLEEP" => n.currentBudget[t] = m.currentBudget[t]
  <1> DEFINE n == SleepPeriod(m)
             woken == {t \in Thread : m.sleepIn[t] = 1}
             sleptThrough(t) == IF BCS THEN m.sleepTicks[t] > period[t] ELSE period[t] = 0
             refilled == {t \in woken : m.currentBudget[t] = 0 /\ sleptThrough(t)}
             throttled == {t \in woken \ refilled : m.currentBudget[t] = 0}
  <1>1. Thread \subseteq Task
    BY DEF Task
  <1>2. n.running = m.running /\ n.deferred = m.deferred
    BY DEF SleepPeriod, MachineType
  <1>3. n.state = [t \in Task |-> CASE t \notin woken -> m.state[t]
                                    [] t \in throttled -> "THREAD_THROTTLED"
                                    [] t \in woken \ throttled -> "READY"]
    BY DEF SleepPeriod, MachineType
  <1>4. n.currentBudget = [t \in Thread |-> IF t \in refilled THEN budget[t] ELSE m.currentBudget[t]]
    BY DEF SleepPeriod, MachineType
  <1>5. \A t \in woken : m.state[t] = "THREAD_SLEEP"
    BY DEF TimersOK
  <1>6. refilled \subseteq woken /\ throttled \subseteq woken /\ woken \subseteq Thread
    OBVIOUS
  <1> HIDE DEF n, refilled, throttled, woken
  <1>7. ComesBack(m, n)
    <2> SUFFICES ASSUME NEW t \in Thread
                 PROVE  \/ n.state[t] = m.state[t]
                        \/ /\ m.state[t] \in {"THREAD_THROTTLED", "THREAD_SLEEP"}
                           /\ n.state[t] \in {"READY", "THREAD_THROTTLED"}
      BY DEF ComesBack
    <2>1. t \in Task
      BY <1>1
    <2>2. CASE t \notin woken
      BY <1>3, <1>6, <2>1, <2>2
    <2>3. CASE t \in throttled
      BY <1>3, <1>5, <1>6, <2>1, <2>3
    <2>4. CASE t \in woken \ throttled
      BY <1>3, <1>5, <1>6, <2>1, <2>4
    <2> QED BY <2>2, <2>3, <2>4
  <1>8. \A t \in Thread : m.state[t] # "THREAD_SLEEP" => n.currentBudget[t] = m.currentBudget[t]
    BY <1>4, <1>5, <1>6
  <1> QED BY <1>2, <1>7, <1>8 DEF n

\* Whoever left the core during the tick goes on; a preempted thread that has
\* a budget stays pending.
LEMMA DeferredIs ==
  ASSUME ParamsOK, NEW m, Ticking(m)
  PROVE  LET n == HandleDeferredTicks(m)
         IN  /\ n.deferred = <<>> /\ n.running = m.running
             /\ n.sleepTicks = m.sleepTicks
             /\ \A t \in Thread : t \notin ToSet(m.deferred) => n.state[t] = m.state[t]
             /\ \A t \in Thread : t \in ToSet(m.deferred) =>
                  /\ n.state[t] \in {"THREAD_THROTTLED", "THREAD_SLEEP", "PENDING", "READY"}
                  /\ n.state[t] = "PENDING" => m.state[t] = "DEFTICK_PENDING"
             /\ Idle \in ToSet(m.deferred) => n.state[Idle] # "READY"
  <1> DEFINE n == HandleDeferredTicks(m)
             deferred == ToSet(m.deferred)
             charged == deferred \cap Thread
             left(t) == IF m.state[t] = "THREAD_DEFTICK_THROTTLE" THEN 0
                        ELSE m.currentBudget[t] - 1
             sleeps(t) == m.state[t] = "THREAD_DEFTICK_SLEEP"
             throttled == {t \in charged : ~sleeps(t) /\ left(t) = 0 /\ MustThrottle(m, t)}
             next(t) == CASE t \in throttled -> "THREAD_THROTTLED"
                          [] t \notin throttled /\ sleeps(t) -> "THREAD_SLEEP"
                          [] t \notin throttled /\ m.state[t] = "DEFTICK_PENDING" -> "PENDING"
                          [] t \notin throttled /\ m.state[t] \in
                               {"THREAD_DEFTICK_YIELD", "THREAD_DEFTICK_THROTTLE"} -> "READY"
  <1>1. m \in MachineType /\ Thread \subseteq Task /\ Idle \in Task /\ Idle \notin Thread
    BY Configuration DEF Ticking, Task
  <1>2. n.deferred = <<>> /\ n.running = m.running /\ n.sleepTicks = m.sleepTicks
    BY <1>1 DEF HandleDeferredTicks, MachineType
  <1>3. n.state = [t \in Task |-> IF t \in deferred THEN next(t) ELSE m.state[t]]
    BY <1>1 DEF HandleDeferredTicks, MachineType
  <1>4. \A t \in Task : t \in deferred <=> m.state[t] \in DefTickStates
    BY DEF Ticking, DeferredOK
  <1>5. Idle \in deferred => m.state[Idle] = "DEFTICK_PENDING" /\ Idle \notin throttled
    BY <1>1, <1>4 DEF Ticking, StatesOK, IdleStates, DefTickStates, DefTickThreadStates
  <1> HIDE DEF n, throttled, deferred
  <1>6. \A t \in Thread : t \notin deferred => n.state[t] = m.state[t]
    BY <1>1, <1>3
  <1>7. ASSUME NEW t \in Task, t \in deferred
        PROVE  /\ n.state[t] \in {"THREAD_THROTTLED", "THREAD_SLEEP", "PENDING", "READY"}
               /\ n.state[t] = "PENDING" => m.state[t] = "DEFTICK_PENDING"
               /\ m.state[t] = "DEFTICK_PENDING" /\ t \notin throttled => n.state[t] = "PENDING"
    <2>1. n.state[t] = next(t) /\ m.state[t] \in DefTickStates
      BY <1>3, <1>4, <1>7
    <2>2. CASE t \in throttled
      BY <2>1, <2>2
    <2>3. CASE t \notin throttled /\ sleeps(t)
      BY <2>1, <2>3
    <2>4. CASE t \notin throttled /\ m.state[t] = "DEFTICK_PENDING"
      BY <2>1, <2>4
    <2>5. CASE t \notin throttled /\ m.state[t] \in {"THREAD_DEFTICK_YIELD", "THREAD_DEFTICK_THROTTLE"}
      BY <2>1, <2>5
    <2> QED BY <2>1, <2>2, <2>3, <2>4, <2>5 DEF DefTickStates, DefTickThreadStates
  <1>8. Idle \in deferred => n.state[Idle] # "READY"
    BY <1>1, <1>5, <1>7
  <1> QED BY <1>1, <1>2, <1>6, <1>7, <1>8 DEF n, deferred

\* The tick moves the deadlines of the ready threads only.
LEMMA TransitionHeld ==
  ASSUME PolicyOK, NEW m, Ticking(m), NEW s, Uncharged(m, s)
  PROVE  Uncharged(m, TickTransitionCallback(s))
  <1> DEFINE n == TickTransitionCallback(s)
             R == Ready(m)
  <1>1. Held(n, R) /\ Kept(s, n, Thread \ R)
    BY ReadyIs, TicksHeld DEF Uncharged, Follows
  <1>2. \A t \in Thread : m.running = t => m.state[t] = "RUNNING"
    BY DEF Ticking, SlotsOK, Task
  <1>3. \A t \in Thread : m.state[t] \in DefTickStates \cup {"PENDING", "RUNNING"} => t \in Thread \ R
    BY DEF Ready, DefTickStates, DefTickThreadStates
  <1> HIDE DEF n
  <1>4. \A t \in Thread : m.state[t] \in DefTickStates \cup {"PENDING", "RUNNING"}
          => TimeLeft(n, t) = TimeLeft(s, t) /\ (Charged(s, t) => Charged(n, t))
    BY <1>1, <1>3 DEF Kept, Charged, TimeLeft
  <1> HIDE DEF R
  <1> QED BY <1>1, <1>2, <1>4 DEF Uncharged, Follows, n, R

\* EDF: who comes back has the time left that it left with, or a new deadline.
Readied(m, n, s, r) ==
  policy = "EDF" =>
    \A t \in Thread : r.left[t] = IF t \in Ready(n) \ Ready(m) THEN Fresh(t, s.left[t]) ELSE s.left[t]

\* The policy follows when threads come back.
LEMMA PushReadiedHeld ==
  ASSUME PolicyOK, NEW m, NEW n, ComesBack(m, n), NEW s, Follows(m, s),
         NEW c \in PushReadied(Core(m, s), n)
  PROVE  /\ c = Core(n, c.sched) /\ Follows(n, c.sched) /\ Readied(m, n, s, c.sched)
         /\ \A t \in Thread : m.state[t] = "RUNNING" =>
              TimeLeft(c.sched, t) = TimeLeft(s, t) /\ (Charged(s, t) => Charged(c.sched, t))
  <1> DEFINE S == Ready(n) \ Ready(m)
  <1>1. PICK order \in SetToSeqs(S) : c = Core(n, PushAll(s, order))
    BY DEF PushReadied, Core
  <1> DEFINE r == PushAll(s, order)
  <1>2. c = Core(n, r) /\ c.sched = r
    BY <1>1 DEF Core
  <1>3. /\ Ready(m) \in SUBSET Thread /\ S \in SUBSET Thread /\ S \cap Ready(m) = {}
        /\ Held(s, Ready(m)) /\ Ready(m) \cup S = Ready(n)
    <2>1. Ready(m) \subseteq Ready(n)
      BY DEF Ready, ComesBack
    <2> QED BY <2>1, ReadyIs DEF Follows
  <1>4. \A t \in Thread : m.state[t] \in DefTickStates \cup {"PENDING", "RUNNING"}
          => t \in Thread \ S /\ n.state[t] = m.state[t]
    BY DEF ComesBack, Ready, DefTickStates, DefTickThreadStates
  <1>5. \A t \in Thread : n.state[t] \in DefTickStates \cup {"PENDING"} => n.state[t] = m.state[t]
    BY DEF ComesBack, DefTickStates, DefTickThreadStates
  <1> HIDE DEF S
  <1>6. /\ Held(r, Ready(m) \cup S) /\ Kept(s, r, Thread \ S)
        /\ policy = "EDF" => \A t \in S : r.left[t] = Fresh(t, s.left[t])
    BY <1>3, PushAllHeld
  <1> HIDE DEF r
  <1>7. \A t \in Thread : m.state[t] \in DefTickStates \cup {"PENDING", "RUNNING"}
          => TimeLeft(r, t) = TimeLeft(s, t) /\ (Charged(s, t) => Charged(r, t))
    BY <1>4, <1>6 DEF Kept, Charged, TimeLeft
  <1>8. Follows(n, r)
    BY <1>3, <1>5, <1>6, <1>7 DEF Follows
  <1>9. Readied(m, n, s, r)
    BY <1>6 DEF Readied, Kept, TimeLeft, S
  <1> QED BY <1>2, <1>7, <1>8, <1>9

\* Replenishments, before the running thread is charged and after.
LEMMA ReplenishHeld ==
  ASSUME PolicyOK, NEW m, Ticking(m), NEW s, NEW c \in Replenish(Core(m, s))
  PROVE  /\ c = Core(ReplenishmentPeriod(m), c.sched)
         /\ Uncharged(m, s) => /\ Uncharged(ReplenishmentPeriod(m), c.sched)
                              /\ Readied(m, ReplenishmentPeriod(m), s, c.sched)
         /\ Ticked(m, s) /\ (\A t \in Thread : m.running = t /\ m.currentBudget[t] = 0 => m.replenishIn[t] # 1)
              => Ticked(ReplenishmentPeriod(m), c.sched)
  <1> DEFINE n == ReplenishmentPeriod(m)
  <1>1. c \in PushReadied(Core(m, s), n)
    BY DEF Replenish, Core
  <1>2. /\ ComesBack(m, n) /\ n.running = m.running
        /\ \A t \in Thread : m.replenishIn[t] # 1 => n.currentBudget[t] = m.currentBudget[t]
    BY ReplenishmentIs DEF Ticking
  <1>3. \A t \in Thread : m.running = t => m.state[t] = "RUNNING"
    BY DEF Ticking, SlotsOK, Task
  <1>4. c = Core(n, c.sched)
    BY <1>1 DEF PushReadied, Core
  <1> HIDE DEF n
  <1>5. ASSUME Follows(m, s)
        PROVE  /\ Follows(n, c.sched) /\ Readied(m, n, s, c.sched)
               /\ \A t \in Thread : m.state[t] = "RUNNING" =>
                    TimeLeft(c.sched, t) = TimeLeft(s, t) /\ (Charged(s, t) => Charged(c.sched, t))
    BY <1>1, <1>2, <1>5, PushReadiedHeld
  <1>6. Uncharged(m, s) => Uncharged(n, c.sched) /\ Readied(m, n, s, c.sched)
    BY <1>2, <1>3, <1>5 DEF Uncharged
  <1>7. Ticked(m, s) /\ (\A t \in Thread : m.running = t /\ m.currentBudget[t] = 0 => m.replenishIn[t] # 1)
          => Ticked(n, c.sched)
    BY <1>2, <1>3, <1>5 DEF Ticked
  <1> QED BY <1>4, <1>6, <1>7 DEF n

\* Sleepers wake up last.
LEMMA WakeUpHeld ==
  ASSUME PolicyOK, NEW m, Ticking(m), NEW s, NEW c \in WakeUp(Core(m, s)), Ticked(m, s)
  PROVE  /\ c = Core(SleepPeriod(m), c.sched) /\ Ticked(SleepPeriod(m), c.sched)
         /\ Readied(m, SleepPeriod(m), s, c.sched)
  <1> DEFINE n == SleepPeriod(m)
  <1>1. c \in PushReadied(Core(m, s), n)
    BY DEF WakeUp, Core
  <1>2. /\ ComesBack(m, n) /\ n.running = m.running
        /\ \A t \in Thread : m.state[t] # "THREAD_SLEEP" => n.currentBudget[t] = m.currentBudget[t]
    BY SleepPeriodIs DEF Ticking
  <1>3. \A t \in Thread : m.running = t => m.state[t] = "RUNNING"
    BY DEF Ticking, SlotsOK, Task
  <1>4. c = Core(n, c.sched)
    BY <1>1 DEF PushReadied, Core
  <1> HIDE DEF n
  <1>5. /\ Follows(n, c.sched) /\ Readied(m, n, s, c.sched)
        /\ \A t \in Thread : m.state[t] = "RUNNING" =>
             TimeLeft(c.sched, t) = TimeLeft(s, t) /\ (Charged(s, t) => Charged(c.sched, t))
    BY <1>1, <1>2, PushReadiedHeld DEF Ticked
  <1>6. Ticked(n, c.sched)
    BY <1>2, <1>3, <1>5 DEF Ticked
  <1> QED BY <1>4, <1>5, <1>6 DEF n

\* Every thread that left the core during the tick is charged by the policy,
\* and those that are ready again are pushed.
LEMMA SettleDeferredHeld ==
  ASSUME ParamsOK, PolicyOK, NEW m, Sound(m), NEW s, Uncharged(m, s),
         NEW c \in SettleDeferred(Core(m, s))
  PROVE  /\ c = Core(HandleDeferredTicks(m), c.sched) /\ Uncharged(HandleDeferredTicks(m), c.sched)
         /\ Kept(s, c.sched, Thread \ ToSet(m.deferred))
         /\ \A t \in Thread : t \in ToSet(m.deferred) =>
              SettledTime(m, HandleDeferredTicks(m), s, c.sched, t)
  <1> DEFINE n == HandleDeferredTicks(m)
             r == SettleAll(m, n, s, Reverse(m.deferred))
             D == ToSet(m.deferred)
  <1>1. c = Core(n, r) /\ c.sched = r
    BY DEF SettleDeferred, Core
  <1>2. Ticking(m) /\ m \in MachineType
    BY DEF Sound, Ticking
  <1>3. Ticking(n)
    BY <1>2, HandleDeferredTicksSound
  <1>4. /\ n.deferred = <<>> /\ n.running = m.running
        /\ n.sleepTicks = m.sleepTicks
        /\ \A t \in Thread : t \notin D => n.state[t] = m.state[t]
        /\ \A t \in Thread : t \in D =>
             /\ n.state[t] \in {"THREAD_THROTTLED", "THREAD_SLEEP", "PENDING", "READY"}
             /\ n.state[t] = "PENDING" => m.state[t] = "DEFTICK_PENDING"
        /\ Idle \in D => n.state[Idle] # "READY"
    BY <1>2, DeferredIs
  <1> HIDE DEF n, D
  <1>5. \A t \in Thread : t \in D <=> m.state[t] \in DefTickStates
    BY <1>2 DEF Ticking, DeferredOK, Task, D
  <1>6. Settles(m, n, s)
    <2>1. m.deferred \in Seq(Thread \cup {Idle}) /\ IsInjective(m.deferred)
      BY <1>2 DEF MachineType, Ticking, DeferredOK
    <2>2. \A t \in Thread : t \in D => t \notin Ready(m) /\ TimeLeft(s, t) > 0
      BY <1>5 DEF Uncharged, Follows, Ready, DefTickStates, DefTickThreadStates
    <2>3. \A t \in Thread : n.sleepTicks[t] \in Nat /\ n.replenishIn[t] \in Nat /\ period[t] \in Nat
      BY <1>3, Configuration DEF ParamsOK, Ticking, MachineType
    <2> QED BY <1>4, <2>1, <2>2, <2>3 DEF Settles, D
  <1>7. SettledUpTo(m, n, s, D, r)
    BY <1>6, SettleAllHeld DEF Uncharged, Follows, D
  <1> HIDE DEF r
  <1>8. Ready(n) = Ready(m) \cup {t \in Thread : t \in D /\ n.state[t] = "READY"}
    BY <1>4, <1>5 DEF Ready, DefTickStates, DefTickThreadStates
  <1>9. Held(r, Ready(n)) /\ Kept(s, r, Thread \ D)
    BY <1>7, <1>8 DEF SettledUpTo
  <1>10. \A t \in Thread : n.state[t] \notin DefTickStates
    BY <1>4, <1>5 DEF DefTickStates, DefTickThreadStates
  <1>11. ASSUME NEW t \in Thread, n.state[t] = "PENDING" PROVE Charged(r, t)
    <2>1. CASE t \in D
      <3>1. Settled(m, n, r, t) /\ m.state[t] = "DEFTICK_PENDING"
        BY <1>4, <1>7, <1>11, <2>1 DEF SettledUpTo
      <3>2. n.currentBudget[t] > 0 /\ n.currentBudget[t] \in Nat
        BY <1>3, <1>11 DEF Ticking, BudgetsOK, MachineType
      <3> QED BY <3>1, <3>2 DEF Settled
    <2>2. CASE t \notin D
      <3>1. m.state[t] = "PENDING"
        BY <1>4, <1>11, <2>2
      <3>2. Charged(s, t) /\ TimeLeft(r, t) = TimeLeft(s, t)
        BY <1>9, <2>2, <3>1 DEF Uncharged, Follows, Kept
      <3> QED BY <3>2 DEF Charged, TimeLeft
    <2> QED BY <2>1, <2>2
  <1>12. ASSUME NEW t \in Thread, n.running = t PROVE TimeLeft(r, t) > 0
    <2>1. m.state[t] = "RUNNING"
      BY <1>2, <1>4, <1>12 DEF Ticking, SlotsOK, Task
    <2>2. t \notin D
      BY <1>5, <2>1 DEF DefTickStates, DefTickThreadStates
    <2>3. TimeLeft(s, t) > 0
      BY <1>4, <1>12 DEF Uncharged
    <2> QED BY <1>9, <2>2, <2>3 DEF Kept
  <1>13. Uncharged(n, r)
    BY <1>9, <1>10, <1>11, <1>12 DEF Uncharged, Follows
  <1>14. \A t \in Thread : t \in D => SettledTime(m, n, s, r, t)
    BY <1>7 DEF SettledUpTo
  <1> QED BY <1>1, <1>9, <1>13, <1>14 DEF n, D

\* The running thread is charged.  Under DS whoever is left without budget
\* is not replenished on the same tick.
LEMMA ChargeHeld ==
  ASSUME ParamsOK, PolicyOK, NEW m, Sound(m), NEW s, Uncharged(m, s), NEW c \in Charge(Core(m, s))
  PROVE  /\ c = Core(ChargeRunningTask(m), c.sched) /\ Ticked(ChargeRunningTask(m), c.sched)
         /\ ChargeRunningTask(m).deferred = m.deferred
         /\ Kept(s, c.sched, Thread \ {m.running})
         /\ \A t \in Thread : m.running = t => PaidFor(ChargeRunningTask(m), "RUNNING", s, c.sched, t)
         /\ ~BCS => \A t \in Thread :
              ChargeRunningTask(m).running = t /\ ChargeRunningTask(m).currentBudget[t] = 0
                => ChargeRunningTask(m).replenishIn[t] # 1
  <1> DEFINE n == ChargeRunningTask(m)
             r == TickCallback(n, s, n.running, "RUNNING")
             t == m.running
  <1>1. c = Core(n, r) /\ c.sched = r
    BY DEF Charge, Core
  <1>2. Ticking(m) /\ m \in MachineType
    BY DEF Sound, Ticking
  <1>3. Ticking(n) /\ n.running = m.running
    BY ChargeRunningTaskSound
  <1>4. n.state = m.state /\ n.deferred = m.deferred /\ n.replenishIn = m.replenishIn
    BY <1>2 DEF ChargeRunningTask, MachineType
  <1>5. Ready(n) = Ready(m)
    BY <1>4 DEF Ready
  <1>6. CASE t \notin Thread
    <2>1. r = s
      BY <1>3, <1>6 DEF TickCallback
    <2> HIDE DEF r, n
    <2>2. Ticked(n, r)
      BY <1>3, <1>4, <1>5, <1>6, <2>1 DEF Uncharged, Follows, Ticked
    <2> QED BY <1>1, <1>3, <1>4, <1>6, <2>1, <2>2 DEF n, Kept
  <1>7. CASE t \in Thread
    <2>1. /\ m.state[t] = "RUNNING" /\ TimeLeft(s, t) > 0 /\ t \notin Ready(m)
          /\ m.currentBudget \in [Thread -> Nat] /\ m.currentBudget[t] > 0 /\ m.currentBudget[t] \in Nat
      BY <1>2, <1>7 DEF Ticking, SlotsOK, Task, Uncharged, Ready, MachineType, Sound
    <2>2. budget[t] \in Nat \ {0} /\ period[t] \in Nat
      BY <1>7, Configuration DEF ParamsOK
    <2>3. n.currentBudget[t] = 0 => MustThrottle(m, t)
      <3>1. n = [m EXCEPT !.currentBudget[t] =
                   IF m.currentBudget[t] - 1 = 0 /\ ~MustThrottle(m, t) THEN budget[t]
                   ELSE m.currentBudget[t] - 1]
        BY <1>7 DEF ChargeRunningTask
      <3>2. n.currentBudget[t] = IF m.currentBudget[t] - 1 = 0 /\ ~MustThrottle(m, t) THEN budget[t]
                                 ELSE m.currentBudget[t] - 1
        <4> HIDE DEF n, t
        <4> QED BY <1>2, <1>7, <2>1, <3>1 DEF MachineType
      <3> QED BY <2>1, <2>2, <3>2
    <2>4. ~BCS /\ n.currentBudget[t] = 0 => n.replenishIn[t] # 1
      BY <1>4, <2>3 DEF MustThrottle
    <2>5. n.sleepTicks[t] \in Nat /\ n.replenishIn[t] \in Nat
      BY <1>3, <1>7 DEF Ticking, MachineType
    <2>6. Held(s, Ready(m)) /\ Ready(m) \in SUBSET Thread
      BY ReadyIs DEF Uncharged, Follows
    <2> DEFINE q == TickCallback(n, s, t, "RUNNING")
    <2>7. r = q
      BY <1>3
    <2> HIDE DEF n, t, r
    <2>8. /\ Held(q, Ready(m)) /\ Kept(s, q, Thread \ {t})
          /\ \/ Charged(q, t)
             \/ policy = "EDF" /\ (n.currentBudget[t] = 0 \/ "RUNNING" = "THREAD_DEFTICK_SLEEP")
          /\ PaidFor(n, "RUNNING", s, q, t)
      BY <1>7, <2>1, <2>2, <2>5, <2>6, TickHeld
    <2> HIDE DEF q
    <2>9. \A u \in Thread : m.state[u] \in DefTickStates \cup {"PENDING"} =>
            TimeLeft(q, u) = TimeLeft(s, u) /\ (Charged(s, u) => Charged(q, u))
      BY <2>1, <2>8 DEF Kept, Charged, TimeLeft, DefTickStates, DefTickThreadStates
    <2>10. Follows(n, q)
      BY <1>4, <1>5, <2>8, <2>9 DEF Uncharged, Follows
    <2>11. Ticked(n, q)
      BY <1>3, <2>8, <2>10 DEF Ticked, t
    <2> QED BY <1>1, <1>3, <1>4, <2>4, <2>7, <2>8, <2>11 DEF n, t
  <1> QED BY <1>6, <1>7

\* The four phases with the policy, in the order of either algorithm.
LEMMA TickCoreHeld ==
  ASSUME ParamsOK, PolicyOK, NEW m, Sound(m), NEW s, Uncharged(m, s), NEW c \in TickCore(Core(m, s))
  PROVE  /\ c = Core(c.machine, c.sched) /\ c.machine \in TickPhases(m)
         /\ Ticked(c.machine, c.sched)
         /\ \A t \in Thread : c.machine.state[t] # "DEFTICK_PENDING"
  <1> DEFINE u == TickTransitionCallback(s)
  <1>1. Ticking(m) /\ Uncharged(m, u)
    BY TransitionHeld DEF Sound
  <1> HIDE DEF u
  <1>2. ASSUME NEW n, Ticking(n), n.deferred = <<>>, NEW t \in Thread PROVE n.state[t] # "DEFTICK_PENDING"
    <2>1. ToSet(n.deferred) = {}
      BY <1>2, EmptyStack
    <2> QED BY <1>2, <2>1 DEF Ticking, DeferredOK, DefTickStates, Task
  <1>3. CASE BCS
    <2>11. PICK c1 \in Replenish(Core(m, u)) : \E b \in SettleDeferred(c1) : \E d \in Charge(b) : c \in WakeUp(d)
      BY <1>3 DEF TickCore, Core, u
    <2>12. PICK c2 \in SettleDeferred(c1) : \E d \in Charge(c2) : c \in WakeUp(d)
      BY <2>11
    <2>1. PICK c3 \in Charge(c2) : c \in WakeUp(c3)
      BY <2>12
    <2> DEFINE m1 == ReplenishmentPeriod(m)
               m2 == HandleDeferredTicks(m1)
               m3 == ChargeRunningTask(m2)
               m4 == SleepPeriod(m3)
    <2>2. c1 = Core(m1, c1.sched) /\ Uncharged(m1, c1.sched)
      BY <1>1, <2>1, ReplenishHeld
    <2>3. Sound(m1)
      BY <1>1, ReplenishmentPeriodSound
    <2> HIDE DEF m1
    <2>4. c2 = Core(m2, c2.sched) /\ Uncharged(m2, c2.sched)
      BY <2>1, <2>2, <2>3, SettleDeferredHeld
    <2>5. Sound(m2) /\ m2.deferred = <<>>
      BY <2>3, HandleDeferredTicksSound, DeferredIs DEF Sound
    <2> HIDE DEF m2
    <2>6. c3 = Core(m3, c3.sched) /\ Ticked(m3, c3.sched) /\ m3.deferred = <<>>
      BY <2>1, <2>4, <2>5, ChargeHeld
    <2>7. Ticking(m3)
      BY <2>5, ChargeRunningTaskSound
    <2> HIDE DEF m3
    <2>8. c = Core(m4, c.sched) /\ Ticked(m4, c.sched)
      BY <2>1, <2>6, <2>7, WakeUpHeld
    <2>9. Ticking(m4) /\ m4.deferred = <<>>
      BY <2>6, <2>7, SleepPeriodSound, SleepPeriodIs DEF Ticking
    <2> HIDE DEF m4
    <2>10. c.machine = m4 /\ m4 \in TickPhases(m)
      BY <1>3, <2>8 DEF Core, TickPhases, m1, m2, m3, m4
    <2> QED BY <1>2, <2>8, <2>9, <2>10
  <1>4. CASE ~BCS
    <2>11. PICK c1 \in SettleDeferred(Core(m, u)) : \E b \in Charge(c1) : \E d \in Replenish(b) : c \in WakeUp(d)
      BY <1>4 DEF TickCore, Core, u
    <2>12. PICK c2 \in Charge(c1) : \E d \in Replenish(c2) : c \in WakeUp(d)
      BY <2>11
    <2>1. PICK c3 \in Replenish(c2) : c \in WakeUp(c3)
      BY <2>12
    <2> DEFINE m1 == HandleDeferredTicks(m)
               m2 == ChargeRunningTask(m1)
               m3 == ReplenishmentPeriod(m2)
               m4 == SleepPeriod(m3)
    <2>2. c1 = Core(m1, c1.sched) /\ Uncharged(m1, c1.sched)
      BY <1>1, <2>1, SettleDeferredHeld
    <2>3. Sound(m1) /\ m1.deferred = <<>>
      BY <1>1, HandleDeferredTicksSound, DeferredIs
    <2> HIDE DEF m1
    <2>4. /\ c2 = Core(m2, c2.sched) /\ Ticked(m2, c2.sched) /\ m2.deferred = <<>>
          /\ \A t \in Thread : m2.running = t /\ m2.currentBudget[t] = 0 => m2.replenishIn[t] # 1
      BY <1>4, <2>1, <2>2, <2>3, ChargeHeld
    <2>5. Ticking(m2)
      BY <2>3, ChargeRunningTaskSound
    <2> HIDE DEF m2
    <2>6. c3 = Core(m3, c3.sched) /\ Ticked(m3, c3.sched)
      BY <2>1, <2>4, <2>5, ReplenishHeld
    <2>7. Ticking(m3) /\ m3.deferred = <<>>
      BY <2>4, <2>5, ReplenishmentPeriodSound, ReplenishmentIs DEF Ticking
    <2> HIDE DEF m3
    <2>8. c = Core(m4, c.sched) /\ Ticked(m4, c.sched)
      BY <2>1, <2>6, <2>7, WakeUpHeld
    <2>9. Ticking(m4) /\ m4.deferred = <<>>
      BY <2>7, SleepPeriodSound, SleepPeriodIs DEF Ticking
    <2> HIDE DEF m4
    <2>10. c.machine = m4 /\ m4 \in TickPhases(m)
      BY <1>4, <2>8 DEF Core, TickPhases, m1, m2, m3, m4
    <2> QED BY <1>2, <2>8, <2>9, <2>10
  <1> QED BY <1>3, <1>4

-----------------------------------------------------------------------------
(* The rescheduling point and kTickReschedule with the policy.             *)

\* The policy's choice takes the empty core, and nobody ready goes before it.
LEMMA RunPoppedHeld ==
  ASSUME ParamsOK, PolicyOK, NEW m, Sound(m), m.running = NoTask, m.pending = NoTask,
         NEW s, Follows(m, s), NEW c \in RunPopped(Core(m, s))
  PROVE  c = Core(c.machine, c.sched) /\ c.machine \in RunNext(m) /\ AtRest(c.machine, c.sched)
  <1> DEFINE p == Pop(m, s)
             t == p.task
             r == p.sched
             n == LoadNextState(m, t, "RUNNING")
             R == Ready(m)
  <1>1. c = Core(n, r) /\ c.machine = n /\ c.sched = r
    BY DEF RunPopped, Core
  <1>2. /\ Kept(s, r, Thread \ R)
        /\ R = {} => t = Idle /\ Held(r, R)
        /\ R # {} => /\ t \in R /\ Held(r, R \ {t})
                     /\ TimeLeft(r, t) > 0 /\ First(r, R \ {t}, t)
    BY PopHeld DEF Follows
  <1>3. n \in RunNext(m)
    BY <1>2 DEF RunNext
  <1>4. /\ m \in MachineType /\ Ticking(m) /\ Idle \in Task /\ Idle \notin Thread /\ Thread \subseteq Task
        /\ R \subseteq Thread /\ \A u \in Thread : u \in R <=> m.state[u] = "READY"
    BY Configuration DEF Sound, Ticking, Task, Ready
  <1>5. t \in Task /\ m.state[t] = "READY" /\ (t \in Thread <=> t \in R)
    <2>1. CASE R = {}
      <3>1. t = Idle
        BY <1>2, <2>1
      <3>2. m.state[Idle] = "READY"
        BY <1>4, Configuration DEF Ticking, StatesOK, SlotsOK, IdleStates
      <3> QED BY <1>4, <2>1, <3>1, <3>2
    <2>2. CASE R # {}
      BY <1>2, <1>4, <2>2
    <2> QED BY <2>1, <2>2
  <1> HIDE DEF p, r, t
  <1>6. n.state = [m.state EXCEPT ![t] = "RUNNING"] /\ n.running = t
    BY <1>4, <1>5 DEF LoadNextState, DefTickThreadStates, MachineType
  <1>7. m.state \in [Task -> States]
    BY <1>4 DEF MachineType
  <1> HIDE DEF n
  <1>8. \A u \in Task : u # t => n.state[u] = m.state[u]
    BY <1>6, <1>7
  <1>9. n.state[t] = "RUNNING"
    BY <1>5, <1>6, <1>7
  <1>10. Ready(n) = R \ {t}
    BY <1>4, <1>8, <1>9 DEF Ready
  <1>11. Held(r, Ready(n))
    BY <1>2, <1>4, <1>5, <1>10
  <1> HIDE DEF R
  <1>12. \A u \in Thread : n.state[u] \in DefTickStates \cup {"PENDING"} =>
           /\ n.state[u] = m.state[u] /\ TimeLeft(r, u) = TimeLeft(s, u)
           /\ Charged(s, u) => Charged(r, u)
    <2> SUFFICES ASSUME NEW u \in Thread, n.state[u] \in DefTickStates \cup {"PENDING"}
                 PROVE  /\ n.state[u] = m.state[u] /\ TimeLeft(r, u) = TimeLeft(s, u)
                        /\ Charged(s, u) => Charged(r, u)
      OBVIOUS
    <2>1. u # t /\ u \in Task
      BY <1>4, <1>9 DEF DefTickStates, DefTickThreadStates
    <2>2. n.state[u] = m.state[u]
      BY <1>8, <2>1
    <2>3. u \notin R
      BY <1>4, <2>2 DEF DefTickStates, DefTickThreadStates
    <2>4. TimeLeft(r, u) = TimeLeft(s, u)
      BY <1>2, <2>3 DEF Kept
    <2> QED BY <2>2, <2>4 DEF Charged, TimeLeft
  <1>13. Follows(n, r)
    BY <1>11, <1>12 DEF Follows
  <1>14. \A u \in Thread : n.running = u => TimeLeft(r, u) > 0
    BY <1>2, <1>5, <1>6
  <1>15. \A u \in Thread : n.state[u] \in {"RUNNING", "DEFTICK_PENDING"} => u = t
    <2>1. \A u \in Task : m.state[u] \notin {"RUNNING", "DEFTICK_PENDING"}
      BY <1>4, NoTaskNotThread, Configuration DEF Ticking, SlotsOK
    <2> QED BY <1>4, <1>8, <2>1
  <1>16. \A u \in Thread : n.state[u] \in {"RUNNING", "DEFTICK_PENDING"} => First(r, Ready(n), u)
    BY <1>2, <1>5, <1>10, <1>15
  <1>17. AtRest(n, r)
    BY <1>13, <1>14, <1>16 DEF AtRest, Uncharged
  <1> QED BY <1>1, <1>3, <1>17

\* The running thread, or idle, makes room: it is pushed if it may go on.
LEMMA ReplaceHeld ==
  ASSUME ParamsOK, PolicyOK, NEW m, Ticking(m), m.running \in Thread \cup {Idle},
         NEW s, Follows(m, s), NEW to,
         \/ to = "READY" /\ (m.running \in Thread => m.currentBudget[m.running] > 0)
         \/ to = "THREAD_THROTTLED" /\ m.running \in Thread /\ m.currentBudget[m.running] = 0,
         NEW c \in Replace(Core(m, s), to)
  PROVE  /\ c = Core(c.machine, c.sched) /\ AtRest(c.machine, c.sched)
         /\ c.machine \in RunNext(LoadNextState(LeaveRunning(m), m.running, to))
  <1> DEFINE r == m.running
             k == LoadNextState(LeaveRunning(m), r, to)
             x == IF to = "READY" THEN Push(s, r) ELSE s
  <1>1. c \in RunPopped(Core(k, x))
    BY DEF Replace, Core
  <1>2. /\ m \in MachineType /\ r \in Task /\ r \notin Lsr /\ Thread \subseteq Task /\ Idle \notin Thread
        /\ m.state \in [Task -> States] /\ m.state[r] = "RUNNING" /\ m.pending = NoTask
    BY Configuration, NoTaskNotThread DEF Ticking, MachineType, Task, SlotsOK
  <1>3. Sound(k) /\ k.running = NoTask /\ k.pending = NoTask
    <2>1. CASE to = "READY" /\ (r \in Thread => m.currentBudget[r] > 0)
      BY <1>2, <2>1, LeaveReadyOrFailed
    <2>2. CASE to = "THREAD_THROTTLED" /\ r \in Thread /\ m.currentBudget[r] = 0
      BY <1>2, <2>2, LeaveThrottled
    <2> QED BY <2>1, <2>2
  <1>4. k.state = [m.state EXCEPT ![r] = to]
    <2>1. CASE to = "READY"
      BY <1>2, <2>1 DEF LoadNextState, LeaveRunning, DefTickThreadStates, MachineType
    <2>2. CASE to = "THREAD_THROTTLED"
      BY <1>2, <2>2 DEF LoadNextState, LeaveRunning, DefTickThreadStates, MachineType
    <2> QED BY <2>1, <2>2
  <1>5. to \in {"READY", "THREAD_THROTTLED"} /\ (to = "THREAD_THROTTLED" => r \in Thread)
    OBVIOUS
  <1> HIDE DEF k
  <1>6. k.state[r] = to /\ \A u \in Task : u # r => k.state[u] = m.state[u]
    BY <1>2, <1>4
  <1>7. /\ Ready(m) \in SUBSET Thread /\ r \notin Ready(m) /\ Held(s, Ready(m))
        /\ Ready(k) = IF to = "READY" /\ r \in Thread THEN Ready(m) \cup {r} ELSE Ready(m)
    BY <1>2, <1>5, <1>6 DEF Ready, Follows
  <1>8. Held(x, Ready(k)) /\ Kept(s, x, Thread \ {r})
    <2>1. CASE to = "READY" /\ r \in Thread
      <3> HIDE DEF r
      <3>1. Held(Push(s, r), Ready(m) \cup {r}) /\ Kept(s, Push(s, r), Thread \ {r})
        BY <1>7, <2>1, PushHeld
      <3> QED BY <1>7, <2>1, <3>1
    <2>2. CASE ~(to = "READY" /\ r \in Thread)
      <3>1. x = s
        BY <1>5, <2>2 DEF Push
      <3> HIDE DEF x
      <3> QED BY <1>7, <2>2, <3>1 DEF Kept
    <2> QED BY <2>1, <2>2
  <1> HIDE DEF x, r
  <1>9. \A u \in Thread : k.state[u] \in DefTickStates \cup {"PENDING"} =>
          /\ k.state[u] = m.state[u] /\ TimeLeft(x, u) = TimeLeft(s, u)
          /\ Charged(s, u) => Charged(x, u)
    <2> SUFFICES ASSUME NEW u \in Thread, k.state[u] \in DefTickStates \cup {"PENDING"}
                 PROVE  /\ k.state[u] = m.state[u] /\ TimeLeft(x, u) = TimeLeft(s, u)
                        /\ Charged(s, u) => Charged(x, u)
      OBVIOUS
    <2>1. u # r /\ u \in Task
      BY <1>2, <1>5, <1>6 DEF DefTickStates, DefTickThreadStates
    <2>2. TimeLeft(x, u) = TimeLeft(s, u)
      BY <1>8, <2>1 DEF Kept
    <2> QED BY <1>6, <2>1, <2>2 DEF Charged, TimeLeft
  <1>10. Follows(k, x)
    BY <1>8, <1>9 DEF Follows
  <1> QED BY <1>1, <1>3, <1>10, RunPoppedHeld DEF k, r

\* A policy only asks to reschedule a thread that met a tick, and when
\* another thread is ready; whoever stays is the policy's choice.
LEMMA AskPolicyHeld ==
  ASSUME ParamsOK, PolicyOK, NEW m, Ticking(m), m.running # NoTask, NEW s, Ticked(m, s),
         \A t \in Thread : m.state[t] # "DEFTICK_PENDING",
         NEW ticked \in BOOLEAN,
         ticked \/ \A t \in Thread : m.running = t => TimeLeft(s, t) > 0 /\ First(s, Ready(m), t),
         NEW c \in AskPolicy(Core(m, s))
  PROVE  /\ c = Core(c.machine, c.sched) /\ AtRest(c.machine, c.sched)
         /\ c.machine \in ReschedulingPoint(m, ticked)
  <1> DEFINE r == m.running
             budgetDone == r \in Thread /\ m.currentBudget[r] = 0
             asked == ShouldReschedule(m, s)
             replaced(to) == RunNext(LoadNextState(LeaveRunning(m), r, to))
             Goal == /\ c = Core(c.machine, c.sched) /\ AtRest(c.machine, c.sched)
                     /\ c.machine \in ReschedulingPoint(m, ticked)
  <1>1. /\ r \in Task /\ Idle \notin Thread \cup Lsr /\ Thread \cap Lsr = {} /\ Follows(m, s)
        /\ m.state[r] = "RUNNING" /\ Ready(m) \in SUBSET Thread /\ r \notin Ready(m)
        /\ \A t \in Thread : m.state[t] = "RUNNING" => t = r
        /\ r \in Thread => m.currentBudget[r] \in Nat
    BY Configuration DEF Ticking, MachineType, SlotsOK, Task, Ticked, Ready
  <1>2. ASSUME NEW x, Follows(m, x), c = Core(m, x), m \in ReschedulingPoint(m, ticked),
               r \in Thread => TimeLeft(x, r) > 0 /\ First(x, Ready(m), r)
        PROVE  Goal
    <2>1. AtRest(m, x)
      BY <1>1, <1>2 DEF AtRest, Uncharged
    <2> QED BY <1>2, <2>1 DEF Core
  <1>3. ASSUME NEW x, Follows(m, x), NEW to, r \notin Lsr, c \in Replace(Core(m, x), to),
               \/ to = "READY" /\ ~budgetDone
               \/ to = "THREAD_THROTTLED" /\ budgetDone,
               replaced(to) \subseteq ReschedulingPoint(m, ticked)
        PROVE  Goal
    <2>1. r \in Thread \cup {Idle}
      BY <1>1, <1>3 DEF Task
    <2>2. \/ to = "READY" /\ (r \in Thread => m.currentBudget[r] > 0)
          \/ to = "THREAD_THROTTLED" /\ r \in Thread /\ m.currentBudget[r] = 0
      BY <1>1, <1>3
    <2>3. /\ c = Core(c.machine, c.sched) /\ AtRest(c.machine, c.sched)
          /\ c.machine \in replaced(to)
      BY <1>3, <2>1, <2>2, ReplaceHeld
    <2> QED BY <1>3, <2>3
  <1>4. CASE r \in Lsr
    <2>1. c = Core(m, s)
      BY <1>1, <1>4 DEF AskPolicy, Core
    <2>2. m \in ReschedulingPoint(m, ticked)
      BY <1>1, <1>4 DEF ReschedulingPoint
    <2> QED BY <1>1, <1>2, <1>4, <2>1, <2>2
  <1>5. CASE budgetDone
    <2>1. c \in Replace(Core(m, s), "THREAD_THROTTLED")
      BY <1>1, <1>5 DEF AskPolicy, Core
    <2>2. replaced("THREAD_THROTTLED") \subseteq ReschedulingPoint(m, ticked)
      BY <1>1, <1>5 DEF ReschedulingPoint
    <2> QED BY <1>1, <1>3, <1>5, <2>1, <2>2
  <1>6. CASE r \notin Lsr /\ ~budgetDone
    <2>1. c \in IF asked.yes THEN Replace(Core(m, asked.sched), "READY") ELSE {Core(m, asked.sched)}
      BY <1>1, <1>6 DEF AskPolicy, Core
    <2>2. CASE r = Idle
      <3>1. asked.sched = s /\ asked.yes \in BOOLEAN /\ (asked.yes <=> Ready(m) # {})
        BY <1>1, <2>2, AskIdle DEF Follows
      <3>2. ReschedulingPoint(m, ticked) = IF Ready(m) = {} THEN {m} ELSE replaced("READY")
        BY <1>1, <2>2 DEF ReschedulingPoint
      <3>3. CASE asked.yes
        BY <1>1, <1>3, <1>6, <2>1, <3>1, <3>2, <3>3
      <3>4. CASE ~asked.yes
        BY <1>1, <1>2, <2>1, <2>2, <3>1, <3>2, <3>4
      <3> QED BY <3>3, <3>4
    <2>3. CASE r \in Thread
      <3>1. Held(s, Ready(m)) /\ Charged(s, r)
        BY <1>1, <1>6, <2>3 DEF Ticked, Follows
      <3>2. /\ Held(asked.sched, Ready(m)) /\ Kept(s, asked.sched, Thread \ (Ready(m) \cup {r}))
            /\ asked.yes \in BOOLEAN /\ (asked.yes => Ready(m) # {})
            /\ ~asked.yes /\ Charged(s, r) => TimeLeft(asked.sched, r) > 0 /\ First(asked.sched, Ready(m), r)
            /\ TimeLeft(s, r) > 0 /\ First(s, Ready(m), r) => ~asked.yes
        BY <1>1, <2>3, <3>1, AskHeld
      <3>3. ReschedulingPoint(m, ticked) =
              {m} \cup IF ticked /\ Ready(m) # {} THEN replaced("READY") ELSE {}
        BY <1>1, <1>6, <2>3 DEF ReschedulingPoint
      <3> DEFINE x == asked.sched
                 yes == asked.yes
      <3> HIDE DEF asked
      <3>4. \A u \in Thread : m.state[u] \in DefTickStates \cup {"PENDING"} =>
              TimeLeft(x, u) = TimeLeft(s, u) /\ (Charged(s, u) => Charged(x, u))
        <4> SUFFICES ASSUME NEW u \in Thread, m.state[u] \in DefTickStates \cup {"PENDING"}
                     PROVE  TimeLeft(x, u) = TimeLeft(s, u) /\ (Charged(s, u) => Charged(x, u))
          OBVIOUS
        <4>1. u # r /\ u \notin Ready(m)
          BY <1>1 DEF Ready, DefTickStates, DefTickThreadStates
        <4>2. TimeLeft(x, u) = TimeLeft(s, u)
          BY <3>2, <4>1 DEF Kept
        <4> QED BY <4>2 DEF Charged, TimeLeft
      <3> HIDE DEF x
      <3>5. Follows(m, x)
        BY <1>1, <3>2, <3>4 DEF Follows, x
      <3>6. CASE yes
        <4>1. ticked /\ Ready(m) # {}
          BY <2>3, <3>2, <3>6
        <4>2. c \in Replace(Core(m, x), "READY")
          BY <2>1, <3>6 DEF x
        <4>3. replaced("READY") \subseteq ReschedulingPoint(m, ticked)
          BY <3>3, <4>1
        <4> QED BY <1>3, <1>6, <3>5, <4>2, <4>3
      <3>7. CASE ~yes
        <4>1. c = Core(m, x)
          BY <2>1, <3>7 DEF x
        <4>2. TimeLeft(x, r) > 0 /\ First(x, Ready(m), r)
          BY <3>1, <3>2, <3>7 DEF x
        <4> QED BY <1>2, <3>3, <3>5, <4>1, <4>2
      <3> QED BY <3>6, <3>7
    <2> QED BY <1>1, <1>6, <2>2, <2>3 DEF Task
  <1> QED BY <1>4, <1>5, <1>6

\* Nothing below zero, and what is left is enough for one more tick.
LEMMA LeftIsCharged ==
  ASSUME PolicyOK, NEW R, NEW s, Held(s, R), NEW t \in Thread, TimeLeft(s, t) > 0
  PROVE  Charged(s, t)
  <1>1. CASE policy = "EDF"
    BY <1>1 DEF TimeLeft, Charged
  <1>2. CASE policy # "EDF"
    <2>1. s.remaining[t] \in Int
      BY <1>2 DEF PolicyOK, Held, HeldRr, HeldCyclic
    <2> QED BY <1>2, <2>1 DEF TimeLeft, Charged
  <1> QED BY <1>1, <1>2

\* From m to n the running thread may leave for its deferred tick or for good;
\* no other thread moves, and none takes the core.
Departs(m, n) ==
  /\ \A t \in Thread :
       \/ n.state[t] = m.state[t]
       \/ m.running = t /\ m.state[t] = "RUNNING" /\ n.state[t] \in DefTickStates \cup {"FAILURE"}
  /\ \A t \in Thread : n.running = t => m.running = t

\* The policy needs no word of that.
LEMMA DepartureHeld ==
  ASSUME NEW m, NEW s, AtRest(m, s), NEW n, Departs(m, n)
  PROVE  AtRest(n, s)
  <1>1. Ready(n) = Ready(m)
    BY DEF Departs, Ready, DefTickStates, DefTickThreadStates
  <1>2. Follows(n, s)
    BY <1>1 DEF AtRest, Uncharged, Follows, Departs, DefTickStates, DefTickThreadStates
  <1>3. \A t \in Thread : n.running = t => TimeLeft(s, t) > 0
    BY DEF AtRest, Uncharged, Departs
  <1>4. ASSUME NEW t \in Thread, n.state[t] \in {"RUNNING", "DEFTICK_PENDING"} PROVE First(s, Ready(n), t)
    <2>1. m.state[t] \in {"RUNNING", "DEFTICK_PENDING"}
      BY <1>4 DEF Departs
    <2> QED BY <1>1, <2>1 DEF AtRest
  <1> QED BY <1>2, <1>3, <1>4 DEF AtRest, Uncharged

\* The task the LSRs had preempted goes on, unless the policy asks for
\* another one, which it only does if a tick came in between.
LEMMA ResumeHeld ==
  ASSUME ParamsOK, PolicyOK, NEW m, Sound(m), m.running = NoTask, m.pending # NoTask,
         NEW s, AtRest(m, s), NEW c \in ResumePreempted(Core(m, s))
  PROVE  c = Core(c.machine, c.sched) /\ c.machine \in ResumePending(m) /\ AtRest(c.machine, c.sched)
  <1> DEFINE p == m.pending
             unticked == m.state[p] = "DEFTICK_PENDING"
             left == [m EXCEPT !.pending = NoTask,
                               !.deferred = IF unticked THEN Front(@) ELSE @]
             k == LoadNextState(left, p, "RUNNING")
  <1>1. c \in AskPolicy(Core(k, s))
    BY DEF ResumePreempted, Core
  <1>2. Sound(k) /\ k.running \in Thread \cup {Idle} /\ k.pending = NoTask
    BY RunPendingSound
  <1>3. ResumePending(m) = ReschedulingPoint(k, ~unticked)
    BY DEF ResumePending
  <1>4. /\ m \in MachineType /\ Ticking(m) /\ m.state \in [Task -> States]
        /\ p \in Thread \cup {Idle} /\ p \in Task /\ Thread \subseteq Task
        /\ m.state[p] \in {"PENDING", "DEFTICK_PENDING"}
        /\ \A t \in Thread : m.state[t] \in {"PENDING", "DEFTICK_PENDING"} => t = p
        /\ \A t \in Thread : m.state[t] # "RUNNING"
    BY NoTaskNotThread, Configuration DEF Sound, Ticking, MachineType, Task, SlotsOK
  <1>5. k.state = [m.state EXCEPT ![p] = "RUNNING"] /\ k.running = p
    BY <1>4 DEF LoadNextState, DefTickThreadStates, MachineType
  <1> HIDE DEF k, left
  <1>6. k.state[p] = "RUNNING" /\ \A t \in Task : t # p => k.state[t] = m.state[t]
    BY <1>4, <1>5
  <1>7. Ready(k) = Ready(m)
    BY <1>4, <1>6 DEF Ready
  <1>8. \A t \in Thread : k.state[t] # "DEFTICK_PENDING"
    BY <1>4, <1>6
  <1>9. Follows(k, s)
    BY <1>4, <1>6, <1>7 DEF AtRest, Uncharged, Follows, DefTickStates, DefTickThreadStates
  <1>10. ASSUME p \in Thread, unticked PROVE TimeLeft(s, p) > 0 /\ First(s, Ready(k), p)
    BY <1>7, <1>10 DEF AtRest, Uncharged, Follows, DefTickStates
  <1>11. ASSUME p \in Thread PROVE Charged(s, p)
    <2>1. CASE unticked
      BY <1>9, <1>10, <1>11, <2>1, LeftIsCharged DEF Follows
    <2>2. CASE m.state[p] = "PENDING"
      BY <1>11, <2>2 DEF AtRest, Uncharged, Follows
    <2> QED BY <1>4, <2>1, <2>2
  <1>12. Ticked(k, s)
    BY <1>5, <1>9, <1>11 DEF Ticked
  <1> DEFINE ticked == ~unticked
  <1>13. /\ ticked \in BOOLEAN
         /\ ticked \/ \A t \in Thread : k.running = t => TimeLeft(s, t) > 0 /\ First(s, Ready(k), t)
    BY <1>5, <1>10
  <1>14. k.running # NoTask /\ Ticking(k)
    BY <1>2, NoTaskNotThread DEF Sound
  <1> HIDE DEF ticked
  <1>15. /\ c = Core(c.machine, c.sched) /\ AtRest(c.machine, c.sched)
         /\ c.machine \in ReschedulingPoint(k, ticked)
    BY <1>1, <1>8, <1>12, <1>13, <1>14, AskPolicyHeld
  <1> QED BY <1>3, <1>15 DEF ticked

\* kTickReschedule with the policy does what it does in KTick.
LEMMA DispatchHeld ==
  ASSUME ParamsOK, PolicyOK, NEW m, Sound(m), NEW s, AtRest(m, s), NEW c \in Dispatch(Core(m, s))
  PROVE  c = Core(c.machine, c.sched) /\ c.machine \in Reschedule(m) /\ AtRest(c.machine, c.sched)
  <1>1. /\ m \in MachineType /\ Ticking(m) /\ m.running \in Task \cup {NoTask}
        /\ Thread \cap Lsr = {} /\ Idle \notin Lsr /\ NoTask \notin Lsr /\ Thread \subseteq Task
        /\ m.state \in [Task -> States]
    BY Configuration, NoTaskNotThread DEF Sound, Ticking, MachineType, Task
  <1>2. CASE m.running # NoTask \/ m.pendingLsrs # <<>>
    <2>1. PICK n \in Reschedule(m) : c = Core(n, s)
      BY <1>2 DEF Dispatch, Core
    <2>2. Departs(m, n)
      <3>1. CASE m.running \in Lsr \/ (m.running # NoTask /\ m.pendingLsrs = <<>>)
        <4>1. n = m
          BY <1>1, <2>1, <3>1 DEF Reschedule
        <4> QED BY <4>1 DEF Departs
      <3>2. CASE m.running \notin Lsr /\ m.pendingLsrs # <<>>
        <4> DEFINE preempted == IF m.running = NoTask THEN m
                                ELSE LoadNextState(LeaveRunning(m), m.running, "DEFTICK_PENDING")
                   l == Last(m.pendingLsrs)
        <4>1. n = RunTopLsr(preempted)
          BY <1>1, <2>1, <3>2 DEF Reschedule
        <4>2. /\ Sound(preempted) /\ preempted.running = NoTask /\ preempted.pendingLsrs = m.pendingLsrs
              /\ Departs(m, preempted)
          <5>1. CASE m.running = NoTask
            BY <5>1 DEF Departs
          <5>2. CASE m.running # NoTask
            <6>1. m.running \in Thread \cup {Idle} /\ (m.running \in Thread => m.currentBudget[m.running] > 0)
              BY <1>1, <3>2, <5>2 DEF Sound, Task
            <6>2. m.state[m.running] = "RUNNING" /\ m.running \in Task
              BY <1>1, <5>2 DEF Ticking, SlotsOK
            <6>3. preempted.state = [m.state EXCEPT ![m.running] = "DEFTICK_PENDING"]
              BY <1>1, <5>2, <6>2 DEF LoadNextState, LeaveRunning, DefTickThreadStates, MachineType
            <6>4. /\ Sound(preempted) /\ preempted.running = NoTask
                  /\ preempted.pendingLsrs = m.pendingLsrs
              BY <1>1, <5>2, <6>1, LeavePreempted
            <6> HIDE DEF preempted
            <6>5. Departs(m, preempted)
              BY <1>1, <6>2, <6>3, <6>4, NoTaskNotThread DEF Departs, DefTickStates
            <6> QED BY <6>4, <6>5
          <5> QED BY <5>1, <5>2
        <4> HIDE DEF preempted
        <4>3. preempted \in MachineType /\ l \in Lsr /\ l \notin Thread /\ l \in Task
          <5>1. m.pendingLsrs \in Seq(Lsr) /\ IsInjective(m.pendingLsrs)
            BY <1>1 DEF MachineType, Ticking, LsrsOK
          <5>2. l \in Lsr
            BY <3>2, <5>1, PopFromStack
          <5> HIDE DEF l
          <5> QED BY <1>1, <4>2, <5>2 DEF Sound, Ticking, Task
        <4>4. \A t \in Thread : n.state[t] = preempted.state[t]
          <5>1. n = LoadNextState([preempted EXCEPT !.pendingLsrs = Front(@)], l, "RUNNING")
            BY <4>1, <4>2 DEF RunTopLsr
          <5> HIDE DEF l
          <5>2. preempted.state \in [Task -> States]
            BY <4>3 DEF MachineType
          <5>3. n.state = preempted.state \/ n.state = [preempted.state EXCEPT ![l] = "RUNNING"]
            BY <4>3, <5>1 DEF LoadNextState, DefTickThreadStates, MachineType
          <5> QED BY <1>1, <4>3, <5>2, <5>3
        <4>5. n.running \notin Thread
          BY <1>1, <3>2, <4>1, <4>2, RunTopLsrSound
        <4> QED BY <4>2, <4>4, <4>5 DEF Departs
      <3> QED BY <1>1, <1>2, <3>1, <3>2
    <2>3. AtRest(n, s)
      BY <2>2, DepartureHeld
    <2> QED BY <2>1, <2>3 DEF Core
  <1>3. CASE m.running = NoTask /\ m.pendingLsrs = <<>> /\ m.pending = NoTask
    <2>1. c \in RunPopped(Core(m, s))
      BY <1>3 DEF Dispatch, Core
    <2>2. Reschedule(m) = RunNext(m)
      BY <1>1, <1>3 DEF Reschedule
    <2>3. Follows(m, s)
      BY DEF AtRest, Uncharged
    <2> QED BY <1>3, <2>1, <2>2, <2>3, RunPoppedHeld
  <1>4. CASE m.running = NoTask /\ m.pendingLsrs = <<>> /\ m.pending # NoTask
    <2>1. c \in ResumePreempted(Core(m, s))
      BY <1>4 DEF Dispatch, Core
    <2>2. Reschedule(m) = ResumePending(m)
      BY <1>1, <1>4 DEF Reschedule
    <2> QED BY <1>4, <2>1, <2>2, ResumeHeld
  <1> QED BY <1>2, <1>3, <1>4

-----------------------------------------------------------------------------
(* The specification.                                                      *)

\* The plugins push every thread, in some order, to empty structures.
LEMMA SInitSound == SInit => Init /\ SInv
  <1> SUFFICES ASSUME SInit PROVE Init /\ SInv
    OBVIOUS
  <1> DEFINE empty == CASE policy = "RR" -> Rr!Empty
                        [] policy = "CYCLIC" -> Cyclic!Empty
                        [] policy = "EDF" -> Edf!Empty
             m == Machine
  <1>1. Init /\ PolicyOK
    BY PolicyConfiguration DEF SInit, PolicyOK
  <1>2. PICK order \in SetToSeqs(Thread) : sched = PushAll(empty, order)
    BY DEF SInit
  <1>3. Held(empty, {})
    BY <1>1, EmptyHeld
  <1> HIDE DEF empty
  <1>4. Held(sched, Thread)
    <2>1. /\ {} \in SUBSET Thread /\ Thread \in SUBSET Thread /\ Thread \cap {} = {}
          /\ {} \cup Thread = Thread
      OBVIOUS
    <2>2. Held(PushAll(empty, order), {} \cup Thread)
      BY <1>1, <1>3, <2>1, PushAllHeld
    <2> QED BY <1>2, <2>1, <2>2
  <1>5. IInv
    BY <1>1, InitSound
  <1>6. m.running = NoTask /\ \A t \in Thread : m.state[t] = "READY"
    BY <1>1, Configuration DEF Init, Machine, Task
  <1> HIDE DEF m
  <1>7. Ready(m) = Thread
    BY <1>6 DEF Ready
  <1>8. AtRest(m, sched)
    BY <1>4, <1>6, <1>7, NoTaskNotThread
       DEF AtRest, Uncharged, Follows, DefTickStates, DefTickThreadStates
  <1> QED BY <1>1, <1>5, <1>8 DEF SInv, PolicyOK, m

\* A step that leaves a sound machine and a policy that follows it.
LEMMA ContinueHeld ==
  ASSUME ParamsOK, PolicyOK, NEW c, Sound(c.machine), Working(c.machine),
         AtRest(c.machine, c.sched), Continue(c)
  PROVE  SInv'
  <1> DEFINE n == c.machine
             x == c.sched
  <1>1. Becomes(n) /\ sched' = x /\ policy' = policy
    BY DEF Continue
  <1>2. IInv'
    BY <1>1, BecomesSound
  <1>3. n \in MachineType
    BY DEF Sound, Ticking
  <1>4. Machine' = n
    BY <1>1, <1>3 DEF Becomes, Machine, MachineType
  <1> HIDE DEF n, x
  <1>5. Ready(Machine)' = Ready(n)
    BY <1>4 DEF Ready
  <1>6. AtRest(n, x)
    BY DEF n, x
  <1>7. Held(sched, Ready(Machine))'
    <2>1. Held(x, Ready(n))
      BY <1>6 DEF AtRest, Uncharged, Follows
    <2> QED BY <1>1, <1>5, <2>1 DEF Held, HeldRr, HeldCyclic, HeldEdf, Sorted
  <1>8. \A t \in Thread : /\ TimeLeft(sched, t)' = TimeLeft(x, t)
                          /\ Charged(sched, t)' <=> Charged(x, t)
                          /\ First(sched, Ready(Machine), t)' <=> First(x, Ready(n), t)
    BY <1>1, <1>5 DEF TimeLeft, Charged, First
  <1>9. Follows(Machine, sched)'
    BY <1>4, <1>6, <1>7, <1>8 DEF AtRest, Uncharged, Follows
  <1>10. Uncharged(Machine, sched)'
    BY <1>4, <1>6, <1>8, <1>9 DEF AtRest, Uncharged
  <1>11. AtRest(Machine, sched)'
    BY <1>4, <1>6, <1>8, <1>10 DEF AtRest
  <1> QED BY <1>1, <1>2, <1>11 DEF SInv, PolicyOK

\* A running task that leaves the core tells the policy nothing; kTickReschedule
\* finds its successor.
LEMMA SwitchHeld ==
  ASSUME SInv, NEW m, Sound(m), m.running = runningTask, AtRest(m, sched), NEW s,
         \/ /\ runningTask \in Thread /\ s \in DefTickThreadStates
            /\ s = "THREAD_DEFTICK_SLEEP" => m.sleepTicks[runningTask] > 0
         \/ runningTask \in Lsr /\ s = "LSR_DORMANT"
         \/ runningTask \in Thread \cup Lsr /\ s = "FAILURE",
         SwitchTo(m, s)
  PROVE  SInv' /\ SwitchRunningTask(m, s)
  <1> DEFINE t == runningTask
             k == LoadNextState(LeaveRunning(m), t, s)
  <1>1. PICK c \in Dispatch(Core(k, sched)) : Continue(c)
    BY DEF SwitchTo
  <1>2. ParamsOK /\ PolicyOK
    BY DEF SInv, IInv, PolicyOK
  <1>3. Sound(k) /\ k.running = NoTask
    BY <1>2, LeaveSound
  <1>4. /\ m \in MachineType /\ t \in Task /\ m.state[t] = "RUNNING" /\ m.state \in [Task -> States]
        /\ Thread \cap Lsr = {} /\ Thread \subseteq Task
    BY Configuration DEF Sound, Ticking, MachineType, SlotsOK, Task
  <1>5. k.state = [m.state EXCEPT ![t] = s]
    BY <1>4 DEF LoadNextState, LeaveRunning, DefTickThreadStates, MachineType
  <1> HIDE DEF k
  <1>6. Departs(m, k)
    BY <1>3, <1>4, <1>5, NoTaskNotThread DEF Departs, DefTickStates
  <1>7. AtRest(k, sched)
    BY <1>6, DepartureHeld
  <1>8. c.machine \in Reschedule(k) /\ AtRest(c.machine, c.sched)
    BY <1>1, <1>2, <1>3, <1>7, DispatchHeld
  <1>9. Sound(c.machine) /\ Working(c.machine)
    BY <1>2, <1>3, <1>8, RescheduleSound, NoTaskNotThread
  <1>10. SInv'
    BY <1>1, <1>2, <1>8, <1>9, ContinueHeld
  <1>11. SwitchRunningTask(m, s)
    BY <1>1, <1>8 DEF SwitchRunningTask, Continue, k
  <1> QED BY <1>10, <1>11

\* A tick.
LEMMA STickHeld == SInv /\ STick => SInv' /\ Tick
  <1> SUFFICES ASSUME SInv, STick PROVE SInv' /\ Tick
    OBVIOUS
  <1> DEFINE m == Machine
  <1>1. PICK c \in TickCore(Core(m, sched)) : \E d \in AskPolicy(c) : Continue(d)
    BY DEF STick, Composed
  <1>2. PICK d \in AskPolicy(c) : Continue(d)
    BY <1>1
  <1>3. ParamsOK /\ PolicyOK /\ Sound(m) /\ Working(m) /\ AtRest(m, sched) /\ m.running # NoTask
    BY DEF SInv, IInv, PolicyOK, STick, Machine
  <1>4. Tick <=> \E a \in TickPhases(m) : \E b \in ReschedulingPoint(a, TRUE) : Becomes(b)
    BY DEF Tick, STick
  <1> HIDE DEF m
  <1> DEFINE n == c.machine
             s == c.sched
  <1>5. /\ c = Core(n, s) /\ n \in TickPhases(m) /\ Ticked(n, s)
        /\ \A t \in Thread : n.state[t] # "DEFTICK_PENDING"
    BY <1>1, <1>3, TickCoreHeld DEF AtRest
  <1>6. Ticking(n) /\ n.running # NoTask
    BY <1>3, <1>5, TickPhasesSound
  <1>7. d \in AskPolicy(Core(n, s))
    BY <1>2, <1>5
  <1> HIDE DEF n, s
  <1>8. AtRest(d.machine, d.sched) /\ d.machine \in ReschedulingPoint(n, TRUE)
    <2> DEFINE ticked == TRUE
    <2>1. ticked /\ ticked \in BOOLEAN
      OBVIOUS
    <2> HIDE DEF ticked
    <2>2. AtRest(d.machine, d.sched) /\ d.machine \in ReschedulingPoint(n, ticked)
      BY <1>3, <1>5, <1>6, <1>7, <2>1, AskPolicyHeld
    <2> QED BY <2>2 DEF ticked
  <1>9. Sound(d.machine) /\ Working(d.machine)
    BY <1>3, <1>5, <1>8, TickSound
  <1>10. SInv'
    BY <1>2, <1>3, <1>8, <1>9, ContinueHeld
  <1>11. Tick
    BY <1>2, <1>4, <1>5, <1>8 DEF Continue
  <1> QED BY <1>10, <1>11

\* Pushing the current task aside, and the LSRs of a vector, moves no thread
\* but the running one.
LEMMA PushesDepart ==
  ASSUME NEW m, Sound(m), NEW v \in Vector
  PROVE  /\ Departs(m, LsrPushCurrent(m))
         /\ Departs(m, LsrPushAll(m, v))
  <1>1. /\ m \in MachineType /\ Ticking(m) /\ m.running \in Task \cup {NoTask}
        /\ Thread \cap Lsr = {} /\ Idle \notin Lsr /\ NoTask \notin Task /\ Thread \subseteq Task
        /\ m.state \in [Task -> States] /\ Lsr \subseteq Task /\ Idle \in Task
    BY Configuration DEF Sound, Ticking, MachineType, Task
  <1>2. Departs(m, LsrPushCurrent(m))
    <2> DEFINE n == LsrPushCurrent(m)
               r == m.running
    <2>1. CASE r = NoTask
      <3>1. n = m
        BY <1>1, <2>1 DEF LsrPushCurrent
      <3> QED BY <3>1 DEF Departs
    <2>2. CASE r \in Task
      <3>1. m.state[r] = "RUNNING"
        BY <1>1, <2>2 DEF Ticking, SlotsOK
      <3> DEFINE to == IF r \in Lsr THEN "LSR_PENDING" ELSE "DEFTICK_PENDING"
      <3>2. n = LoadNextState(LeaveRunning(m), r, to)
        BY <1>1, <2>2 DEF LsrPushCurrent, Task
      <3>3. n.state = [m.state EXCEPT ![r] = to] /\ n.running = NoTask
        <4>1. CASE r \in Lsr
          BY <1>1, <2>2, <3>1, <3>2, <4>1 DEF LoadNextState, LeaveRunning, DefTickThreadStates, MachineType
        <4>2. CASE r \notin Lsr
          BY <1>1, <2>2, <3>1, <3>2, <4>2 DEF LoadNextState, LeaveRunning, DefTickThreadStates, MachineType
        <4> QED BY <4>1, <4>2
      <3> HIDE DEF n
      <3> QED BY <1>1, <2>2, <3>1, <3>3 DEF Departs, DefTickStates, n
    <2> QED BY <1>1, <2>1, <2>2
  <1>3. Departs(m, LsrPushAll(m, v))
    <2> DEFINE n == LsrPushAll(m, v)
    <2>1. \A t \in ToSet(m.lsrs[v]) : t \in Lsr
      <3>1. m.lsrs[v] \in Seq(Lsr)
        BY <1>1 DEF MachineType
      <3> QED BY <3>1, LenProperties, ElementOfSeq DEF ToSet
    <2>2. /\ n.state = [t \in Task |-> IF t \in ToSet(m.lsrs[v]) THEN "LSR_PENDING" ELSE m.state[t]]
          /\ n.running = m.running
      BY <1>1 DEF LsrPushAll, MachineType
    <2> HIDE DEF n
    <2> QED BY <1>1, <2>1, <2>2 DEF Departs, n
  <1> QED BY <1>2, <1>3

\* An external interrupt.
LEMMA SInterruptHeld ==
  ASSUME SInv, NEW v \in Vector, SExternalInterrupt(v)
  PROVE  SInv' /\ ExternalInterrupt(v)
  <1> DEFINE m == Machine
  <1>1. ParamsOK /\ PolicyOK /\ Sound(m) /\ Working(m) /\ AtRest(m, sched)
    BY DEF SInv, IInv, PolicyOK
  <1>2. PICK pushCurrent \in PushCurrents :
          \E c \in Dispatch(Core(LsrPushAll(IF pushCurrent THEN LsrPushCurrent(m) ELSE m, v), sched)) : Continue(c)
    BY Zenon DEF SExternalInterrupt
  <1> DEFINE k == IF pushCurrent THEN LsrPushCurrent(m) ELSE m
             l == LsrPushAll(k, v)
  <1>3. PICK c \in Dispatch(Core(l, sched)) : Continue(c)
    BY <1>2
  <1>4. (\E n \in Reschedule(l) : Becomes(n)) => ExternalInterrupt(v)
    BY DEF SExternalInterrupt, ExternalInterrupt
  <1> HIDE DEF m
  <1>5. Sound(k) /\ (k.running = Idle => Ready(k) = {}) /\ AtRest(k, sched)
    <2>1. CASE pushCurrent
      <3> DEFINE a == LsrPushCurrent(m)
      <3>1. Sound(a) /\ (a = m \/ a.running = NoTask) /\ Departs(m, a)
        BY <1>1, LsrPushCurrentSound, PushesDepart
      <3> HIDE DEF a
      <3>2. AtRest(a, sched)
        BY <1>1, <3>1, DepartureHeld
      <3>3. k = a
        BY <2>1 DEF a
      <3> HIDE DEF k
      <3> QED BY <1>1, <3>1, <3>2, <3>3, NoTaskNotThread DEF Working, k
    <2>2. CASE ~pushCurrent
      BY <1>1, <2>2 DEF Working
    <2> QED BY <2>1, <2>2
  <1> HIDE DEF k
  <1>6. Sound(l) /\ (l.running = Idle => Ready(l) = {})
    BY <1>1, <1>5, LsrPushAllSound
  <1>7. Departs(k, l)
    BY <1>5, PushesDepart
  <1> HIDE DEF l
  <1>8. AtRest(l, sched)
    BY <1>5, <1>7, DepartureHeld
  <1>9. c.machine \in Reschedule(l) /\ AtRest(c.machine, c.sched)
    BY <1>1, <1>3, <1>6, <1>8, DispatchHeld
  <1>10. Sound(c.machine) /\ Working(c.machine)
    BY <1>1, <1>6, <1>9, RescheduleSound
  <1>11. SInv'
    BY <1>1, <1>3, <1>9, <1>10, ContinueHeld
  <1>12. \E n \in Reschedule(l) : Becomes(n)
    BY <1>3, <1>9 DEF Continue
  <1> QED BY <1>4, <1>11, <1>12 DEF k, l

\* Every step keeps the invariant and is a step of KTick.
LEMMA SNextHeld == SInv /\ [SNext]_schedVars => SInv' /\ [Next]_vars
  <1> SUFFICES ASSUME SInv, [SNext]_schedVars PROVE SInv' /\ [Next]_vars
    OBVIOUS
  <1> DEFINE m == Machine
  <1>1. /\ ParamsOK /\ PolicyOK /\ Sound(m) /\ Working(m) /\ AtRest(m, sched)
        /\ m.running = runningTask
    BY DEF SInv, IInv, PolicyOK, Machine
  <1>2. CASE SHandoff
    <2>1. PICK c \in Dispatch(Core(m, sched)) : Continue(c)
      BY <1>2 DEF SHandoff, Composed
    <2>2. (\E n \in Reschedule(m) : Becomes(n)) => Handoff
      BY <1>2 DEF SHandoff, Handoff
    <2> HIDE DEF m
    <2>3. c.machine \in Reschedule(m) /\ AtRest(c.machine, c.sched)
      BY <1>1, <2>1, DispatchHeld
    <2>4. Sound(c.machine) /\ Working(c.machine)
      BY <1>1, <2>3, RescheduleSound DEF Working
    <2>5. SInv'
      BY <1>1, <2>1, <2>3, <2>4, ContinueHeld
    <2>6. Handoff
      BY <2>1, <2>2, <2>3 DEF Continue
    <2> QED BY <2>5, <2>6 DEF Next
  <1>3. CASE STick
    BY <1>3, STickHeld DEF Next
  <1>4. CASE SYield
    <2> HIDE DEF m
    <2>1. runningTask \in Thread /\ SwitchTo(m, "THREAD_DEFTICK_YIELD")
      BY <1>4 DEF SYield, m
    <2>2. SInv' /\ SwitchRunningTask(m, "THREAD_DEFTICK_YIELD")
      BY <1>1, <2>1, SwitchHeld DEF DefTickThreadStates
    <2> QED BY <2>1, <2>2 DEF Next, Yield, m
  <1>5. CASE SThrottle
    <2> HIDE DEF m
    <2>1. runningTask \in Thread /\ SwitchTo(m, "THREAD_DEFTICK_THROTTLE")
      BY <1>5 DEF SThrottle, m
    <2>2. SInv' /\ SwitchRunningTask(m, "THREAD_DEFTICK_THROTTLE")
      BY <1>1, <2>1, SwitchHeld DEF DefTickThreadStates
    <2> QED BY <2>1, <2>2 DEF Next, Throttle, m
  <1>6. ASSUME NEW ticks \in Sleeps, SSleep(ticks) PROVE SInv' /\ [Next]_vars
    <2> HIDE DEF m
    <2> DEFINE k == [m EXCEPT !.sleepTicks[runningTask] = ticks]
    <2>1. runningTask \in Thread /\ SwitchTo(k, "THREAD_DEFTICK_SLEEP")
      BY <1>6 DEF SSleep, m
    <2>2. ticks \in Nat \ {0}
      BY Configuration
    <2>3. Sound(k) /\ k.running = runningTask /\ k.sleepTicks[runningTask] > 0
      BY <1>1, <2>1, <2>2, SleepTicksSound
    <2>4. Departs(m, k)
      <3>1. k.state = m.state /\ k.running = m.running
        BY <1>1 DEF Sound, Ticking, MachineType
      <3> QED BY <3>1 DEF Departs
    <2>5. SwitchRunningTask(k, "THREAD_DEFTICK_SLEEP") => Sleep(ticks)
      BY <2>1 DEF Sleep, m
    <2> HIDE DEF k
    <2>6. AtRest(k, sched)
      BY <1>1, <2>4, DepartureHeld
    <2>7. SInv' /\ SwitchRunningTask(k, "THREAD_DEFTICK_SLEEP")
      BY <2>1, <2>3, <2>6, SwitchHeld DEF DefTickThreadStates
    <2> QED BY <2>5, <2>7 DEF Next
  <1>7. CASE SLsrDone
    <2> HIDE DEF m
    <2>1. runningTask \in Lsr /\ SwitchTo(m, "LSR_DORMANT")
      BY <1>7 DEF SLsrDone, m
    <2>2. SInv' /\ SwitchRunningTask(m, "LSR_DORMANT")
      BY <1>1, <2>1, SwitchHeld
    <2> QED BY <2>1, <2>2 DEF Next, LsrDone, m
  <1>8. CASE SFailure
    <2> HIDE DEF m
    <2>1. runningTask \in Thread \cup Lsr /\ SwitchTo(m, "FAILURE")
      BY <1>8 DEF SFailure, m
    <2>2. SInv' /\ SwitchRunningTask(m, "FAILURE")
      BY <1>1, <2>1, SwitchHeld
    <2> QED BY <2>1, <2>2 DEF Next, Failure, m
  <1>9. ASSUME NEW v \in Vector, SExternalInterrupt(v) PROVE SInv' /\ [Next]_vars
    BY <1>9, SInterruptHeld DEF Next
  <1>10. CASE UNCHANGED schedVars
    <2>1. Continue(Core(m, sched)) /\ UNCHANGED vars
      BY <1>10 DEF schedVars, vars, Continue, Becomes, Machine, Core, params
    <2> HIDE DEF m
    <2> DEFINE c == Core(m, sched)
    <2>2. c.machine = m /\ c.sched = sched
      BY DEF Core
    <2> HIDE DEF c
    <2>3. SInv'
      BY <1>1, <2>1, <2>2, ContinueHeld DEF c
    <2> QED BY <2>1, <2>3
  <1> QED BY <1>2, <1>3, <1>4, <1>5, <1>6, <1>7, <1>8, <1>9, <1>10 DEF SNext, STickless

\* Whatever the policy, the threads and their parameters, the machine and the
\* policy's structures stay in step.
THEOREM PolicyInvariance == SSpec => []SInv
  BY SInitSound, SNextHeld, PTL DEF SSpec

\* Every policy keeps the contract KTick asks of it, so that all that is
\* proved of KTick holds with each of them.
THEOREM PolicyImplements == SSpec => ImplementsKTick
  BY PolicyInvariance, SInitSound, SNextHeld, PTL DEF SSpec, ImplementsKTick, Spec

\* The policy holds exactly the ready threads, each in its one place: no queue
\* or chain loses a thread, and none is queued twice.
THEOREM ReadyHeld == SSpec => []ReadyHeldByPolicy
  <1>1. SInv => ReadyHeldByPolicy
    BY DEF SInv, AtRest, Uncharged, Follows, Held, HeldRr, HeldCyclic, HeldEdf, Sorted, ReadyHeldByPolicy
  <1> QED BY <1>1, PolicyInvariance, PTL

\* No time slice and no time to a deadline is counted below zero.
THEOREM TicksLeft == SSpec => []TicksLeftToCharge
  <1>1. SInv => TicksLeftToCharge
    <2> SUFFICES ASSUME SInv, NEW t \in Chargeable
                 PROVE  IF policy = "EDF" THEN sched.left[t] > 0 ELSE sched.remaining[t] > 0
      BY DEF TicksLeftToCharge
    <2>1. TimeLeft(sched, t) > 0
      BY DEF SInv, IInv, Sound, Ticking, SlotsOK, Task, AtRest, Uncharged, Follows, Machine, Chargeable
    <2> QED BY <2>1 DEF TimeLeft
  <1> QED BY <1>1, PolicyInvariance, PTL

\* RR: no ready thread ever outranks the one that runs.
THEOREM HighestPriority == SSpec => []HighestPriorityRuns
  <1>1. SInv => HighestPriorityRuns
    BY DEF SInv, IInv, Sound, Ticking, SlotsOK, Task, AtRest, First, Ready, Machine, HighestPriorityRuns
  <1> QED BY <1>1, PolicyInvariance, PTL

\* EDF: no ready thread ever has less time to its deadline than the one that
\* runs.
THEOREM EarliestDeadline == SSpec => []EarliestDeadlineRuns
  <1>1. SInv => EarliestDeadlineRuns
    BY DEF SInv, IInv, Sound, Ticking, SlotsOK, Task, AtRest, First, Ready, Machine, EarliestDeadlineRuns
  <1> QED BY <1>1, PolicyInvariance, PTL

-----------------------------------------------------------------------------
(* EDF: the deadlines against time, with BCS, no LSRs and no sleep.        *)

Awake == {"READY", "RUNNING", "THREAD_DEFTICK_YIELD", "THREAD_DEFTICK_THROTTLE"}

Sleepless(m) ==
  m.pending = NoTask /\ \A t \in Thread : m.state[t] \in Awake \cup {"THREAD_THROTTLED", "FAILURE"}

\* Between two handlers, d being the time to each deadline: the policy knows
\* it, or what will be left of it when the thread comes back.
OnTime(m, s, d) ==
  /\ Sleepless(m)
  /\ \A t \in Thread :
       /\ m.state[t] \in Awake => s.left[t] = d[t] /\ d[t] > 0
       /\ m.state[t] = "THREAD_THROTTLED" => s.left[t] = Edf!Monus(d[t], m.replenishIn[t])

\* the time to the deadline at the end of the tick
Passed(d, t) == Edf!Monus(d[t], 1)

\* Within the tick: the ready threads and the throttled ones have lived it,
\* though a deadline may have expired in the chain; the others have not.
OnTick(m, s, d) ==
  /\ Sleepless(m)
  /\ \A t \in Thread :
       /\ m.state[t] = "READY" => s.left[t] \in {Passed(d, t), Fresh(t, Passed(d, t))}
       /\ m.state[t] \in Awake \ {"READY"} => s.left[t] = d[t] /\ d[t] > 0
       /\ m.state[t] = "THREAD_THROTTLED" => s.left[t] = Edf!Monus(Passed(d, t), m.replenishIn[t])

\* Once the running thread was charged, the time of its cooldown too if it
\* has to leave.
OnCharge(m, s, d) ==
  /\ Sleepless(m)
  /\ \A t \in Thread :
       /\ m.state[t] \notin {"THREAD_DEFTICK_YIELD", "THREAD_DEFTICK_THROTTLE"}
       /\ m.state[t] = "READY" => s.left[t] \in {Passed(d, t), Fresh(t, Passed(d, t))}
       /\ m.state[t] = "RUNNING" =>
            s.left[t] = IF m.currentBudget[t] = 0 THEN Edf!Monus(Passed(d, t), period[t])
                        ELSE Fresh(t, Passed(d, t))
       /\ m.state[t] = "THREAD_THROTTLED" => s.left[t] = Edf!Monus(Passed(d, t), m.replenishIn[t])

\* After the rescheduling point no deadline is left expired.
Elapsed(m, s, d) ==
  /\ Sleepless(m)
  /\ \A t \in Thread :
       /\ m.state[t] \notin {"THREAD_DEFTICK_YIELD", "THREAD_DEFTICK_THROTTLE"}
       /\ m.state[t] \in {"READY", "RUNNING"} => s.left[t] = Fresh(t, Passed(d, t))
       /\ m.state[t] = "THREAD_THROTTLED" => s.left[t] = Edf!Monus(Passed(d, t), m.replenishIn[t])

DInv == policy = "EDF" /\ BCS /\ due \in [Thread -> Nat] /\ OnTime(Machine, sched, due)

\* The moves of the throttled threads: the last tick of the cooldown makes
\* them ready.
LEMMA ReplenishmentMoves ==
  ASSUME BCS, NEW m, Ticking(m)
  PROVE  LET n == ReplenishmentPeriod(m)
         IN  /\ n.pending = m.pending
             /\ \A t \in Thread :
                  \/ m.state[t] # "THREAD_THROTTLED" /\ n.state[t] = m.state[t]
                  \/ m.state[t] = "THREAD_THROTTLED" /\ m.replenishIn[t] = 1 /\ n.state[t] = "READY"
                  \/ /\ m.state[t] = "THREAD_THROTTLED" /\ n.state[t] = m.state[t]
                     /\ m.replenishIn[t] > 1 /\ n.replenishIn[t] = m.replenishIn[t] - 1
  <1> DEFINE n == ReplenishmentPeriod(m)
             expired == {t \in Thread : m.replenishIn[t] = 1}
  <1>1. m \in MachineType /\ m.replenishIn \in [Thread -> Nat] /\ Thread \subseteq Task
    BY DEF Ticking, MachineType, Task
  <1>2. n.pending = m.pending
    BY <1>1 DEF ReplenishmentPeriod, MachineType
  <1>3. n.state = [t \in Task |->
            IF t \in expired /\ m.state[t] = "THREAD_THROTTLED" THEN "READY" ELSE m.state[t]]
    BY <1>1 DEF ReplenishmentPeriod, MachineType
  <1>4. n.replenishIn = [t \in Thread |->
            CASE t \in expired -> IF BCS THEN 0 ELSE period[t]
              [] t \notin expired -> IF m.replenishIn[t] = 0 THEN 0 ELSE m.replenishIn[t] - 1]
    BY <1>1 DEF ReplenishmentPeriod, MachineType
  <1>5. \A t \in Thread : m.state[t] = "THREAD_THROTTLED" => m.replenishIn[t] > 0
    BY DEF Ticking, TimersOK
  <1> HIDE DEF n
  <1>6. ASSUME NEW t \in Thread
        PROVE  \/ m.state[t] # "THREAD_THROTTLED" /\ n.state[t] = m.state[t]
               \/ m.state[t] = "THREAD_THROTTLED" /\ m.replenishIn[t] = 1 /\ n.state[t] = "READY"
               \/ /\ m.state[t] = "THREAD_THROTTLED" /\ n.state[t] = m.state[t]
                  /\ m.replenishIn[t] > 1 /\ n.replenishIn[t] = m.replenishIn[t] - 1
    BY <1>1, <1>3, <1>4, <1>5
  <1> QED BY <1>2, <1>6 DEF n

\* The moves of those that left the core.
LEMMA DeferredMoves ==
  ASSUME BCS, ParamsOK, NEW m, Ticking(m), Sleepless(m)
  PROVE  LET n == HandleDeferredTicks(m)
         IN  /\ n.pending = m.pending
             /\ \A t \in Thread : t \notin ToSet(m.deferred) =>
                  n.state[t] = m.state[t] /\ n.replenishIn[t] = m.replenishIn[t]
             /\ \A t \in Thread : t \in ToSet(m.deferred) =>
                  \/ n.state[t] = "READY"
                  \/ n.state[t] = "THREAD_THROTTLED" /\ n.currentBudget[t] = 0 /\ n.replenishIn[t] = period[t]
  <1> DEFINE n == HandleDeferredTicks(m)
             deferred == ToSet(m.deferred)
             charged == deferred \cap Thread
             left(t) == IF m.state[t] = "THREAD_DEFTICK_THROTTLE" THEN 0
                        ELSE m.currentBudget[t] - 1
             sleeps(t) == m.state[t] = "THREAD_DEFTICK_SLEEP"
             throttled == {t \in charged : ~sleeps(t) /\ left(t) = 0 /\ MustThrottle(m, t)}
             next(t) == CASE t \in throttled -> "THREAD_THROTTLED"
                          [] t \notin throttled /\ sleeps(t) -> "THREAD_SLEEP"
                          [] t \notin throttled /\ m.state[t] = "DEFTICK_PENDING" -> "PENDING"
                          [] t \notin throttled /\ m.state[t] \in
                               {"THREAD_DEFTICK_YIELD", "THREAD_DEFTICK_THROTTLE"} -> "READY"
  <1>1. m \in MachineType /\ Thread \subseteq Task /\ m.pending = NoTask
    BY DEF Ticking, Task, Sleepless
  <1>2. n.state = [t \in Task |-> IF t \in deferred THEN next(t) ELSE m.state[t]]
    BY <1>1 DEF HandleDeferredTicks, MachineType
  <1>3. n.replenishIn = [t \in Thread |-> IF BCS /\ t \in throttled THEN period[t] ELSE m.replenishIn[t]]
    BY <1>1 DEF HandleDeferredTicks, MachineType
  <1>4. n.currentBudget = [t \in Thread |->
            CASE t \notin charged -> m.currentBudget[t]
              [] t \in charged /\ (left(t) > 0 \/ sleeps(t) \/ t \in throttled) -> left(t)
              [] t \in charged /\ left(t) = 0 /\ ~sleeps(t) /\ t \notin throttled -> budget[t]]
    BY <1>1 DEF HandleDeferredTicks, MachineType
  <1>5. n.pending = m.pending
    <2>1. n.pending = IF m.pending \in throttled THEN NoTask ELSE m.pending
      BY <1>1 DEF HandleDeferredTicks, MachineType
    <2> HIDE DEF n, throttled
    <2> QED BY <1>1, <2>1
  <1>6. \A t \in Task : t \in deferred <=> m.state[t] \in DefTickStates
    BY DEF Ticking, DeferredOK
  <1>7. \A t \in throttled : t \in charged /\ left(t) = 0
    OBVIOUS
  <1> HIDE DEF n, throttled, deferred
  <1>8. ASSUME NEW t \in Thread, t \notin deferred
        PROVE  n.state[t] = m.state[t] /\ n.replenishIn[t] = m.replenishIn[t]
    BY <1>1, <1>2, <1>3, <1>7, <1>8
  <1>9. ASSUME NEW t \in Thread, t \in deferred
        PROVE  \/ n.state[t] = "READY"
               \/ n.state[t] = "THREAD_THROTTLED" /\ n.currentBudget[t] = 0 /\ n.replenishIn[t] = period[t]
    <2>1. m.state[t] \in {"THREAD_DEFTICK_YIELD", "THREAD_DEFTICK_THROTTLE"} /\ t \in Task
      BY <1>1, <1>6, <1>9 DEF Sleepless, Awake, DefTickStates, DefTickThreadStates
    <2>2. n.state[t] = next(t)
      BY <1>2, <1>9, <2>1
    <2>3. CASE t \in throttled
      <3>1. n.state[t] = "THREAD_THROTTLED" /\ n.replenishIn[t] = period[t]
        BY <1>3, <2>2, <2>3
      <3>2. n.currentBudget[t] = left(t) /\ left(t) = 0
        BY <1>4, <1>7, <2>3
      <3> QED BY <3>1, <3>2
    <2>4. CASE t \notin throttled
      BY <2>1, <2>2, <2>4
    <2> QED BY <2>3, <2>4
  <1> QED BY <1>5, <1>8, <1>9 DEF n, deferred

\* Where nobody sleeps nobody wakes up.
LEMMA NobodyWakes ==
  ASSUME NEW m, Ticking(m), Sleepless(m)
  PROVE  LET n == SleepPeriod(m)
         IN  /\ n.pending = m.pending
             /\ \A t \in Thread : n.state[t] = m.state[t] /\ n.replenishIn[t] = m.replenishIn[t]
                                  /\ n.currentBudget[t] = m.currentBudget[t]
  <1> DEFINE n == SleepPeriod(m)
             woken == {t \in Thread : m.sleepIn[t] = 1}
             sleptThrough(t) == IF BCS THEN m.sleepTicks[t] > period[t] ELSE period[t] = 0
             refilled == {t \in woken : m.currentBudget[t] = 0 /\ sleptThrough(t)}
             throttled == {t \in woken \ refilled : m.currentBudget[t] = 0}
  <1>1. m \in MachineType /\ Thread \subseteq Task
    BY DEF Ticking, Task
  <1>2. woken = {}
    <2>1. \A t \in Thread : m.sleepIn[t] # 1
      BY DEF Ticking, TimersOK, Sleepless, Awake
    <2> QED BY <2>1
  <1>3. refilled = {} /\ throttled = {}
    BY <1>2
  <1>4. n.pending = m.pending
    BY <1>1 DEF SleepPeriod, MachineType
  <1>5. n.state = [t \in Task |-> CASE t \notin woken -> m.state[t]
                                    [] t \in throttled -> "THREAD_THROTTLED"
                                    [] t \in woken \ throttled -> "READY"]
    BY <1>1 DEF SleepPeriod, MachineType
  <1>6. n.currentBudget = [t \in Thread |-> IF t \in refilled THEN budget[t] ELSE m.currentBudget[t]]
    BY <1>1 DEF SleepPeriod, MachineType
  <1>7. n.replenishIn = [t \in Thread |->
            IF BCS /\ t \in throttled THEN period[t] - (m.sleepTicks[t] - 1) ELSE m.replenishIn[t]]
    BY <1>1 DEF SleepPeriod, MachineType
  <1> HIDE DEF n, woken, refilled, throttled
  <1>8. ASSUME NEW t \in Thread PROVE n.state[t] = m.state[t]
    <2>1. t \in Task /\ t \notin woken /\ t \notin throttled
      BY <1>1, <1>2, <1>3
    <2> QED BY <1>5, <2>1
  <1> QED BY <1>3, <1>4, <1>6, <1>7, <1>8 DEF n

\* The arithmetic of the deadlines.
LEMMA MonusIs ==
  ASSUME NEW a \in Nat, NEW b \in Nat
  PROVE  /\ Edf!Monus(a, b) \in Nat
         /\ a > 0 => Edf!Monus(a, 1) = a - 1
         /\ Edf!Monus(Edf!Monus(a, 1), b) = Edf!Monus(a, b + 1)
  BY DEF Edf!Monus

\* A deadline that is renewed has time left.
LEMMA FreshIs ==
  ASSUME NEW t \in Thread, NEW a \in Nat
  PROVE  /\ Fresh(t, a) \in Nat /\ Fresh(t, a) > 0
         /\ a > 0 => Fresh(t, a) = a
         /\ Fresh(t, Fresh(t, a)) = Fresh(t, a)
  <1>1. VirtualDeadline[t] \in Nat \ {0}
    BY PolicyConfiguration
  <1> QED BY <1>1 DEF Fresh

\* The tick takes one from the deadlines of the ready threads.
LEMMA TicksTime ==
  ASSUME policy = "EDF", NEW m, NEW s, Held(s, Ready(m))
  PROVE  \A t \in Thread : TickTransitionCallback(s).left[t] =
           IF m.state[t] = "READY" THEN Edf!Monus(s.left[t], 1) ELSE s.left[t]
  <1>1. HeldEdf(s, Ready(m))
    BY DEF Held
  <1>2. s.left \in [Thread -> Nat] /\ s \in [chain : Seq(Thread), left : [Thread -> Nat]]
        /\ ToSet(s.chain) = Ready(m)
    BY <1>1 DEF HeldEdf
  <1>3. TickTransitionCallback(s) = Edf!TickTransitionCallback(s)
    BY DEF TickTransitionCallback
  <1>4. Edf!TickTransitionCallback(s).left =
          [t \in Thread |-> IF t \in Ready(m) THEN Edf!Monus(s.left[t], 1) ELSE s.left[t]]
    BY <1>2 DEF Edf!TickTransitionCallback, Edf!ToSet, ToSet
  <1> QED BY <1>3, <1>4 DEF Ready

\* First phase: the tick itself, and the end of cooldowns.
LEMMA ReplenishTime ==
  ASSUME policy = "EDF", BCS, NEW d \in [Thread -> Nat],
         NEW m, Ticking(m), NEW s, Uncharged(m, s), OnTime(m, s, d),
         NEW c \in Replenish(Core(m, TickTransitionCallback(s)))
  PROVE  OnTick(ReplenishmentPeriod(m), c.sched, d)
  <1> DEFINE n == ReplenishmentPeriod(m)
             u == TickTransitionCallback(s)
             r == c.sched
  <1>1. PolicyOK
    BY DEF PolicyOK
  <1>2. Uncharged(m, u)
    BY <1>1, TransitionHeld
  <1>3. \A t \in Thread : u.left[t] = IF m.state[t] = "READY" THEN Edf!Monus(s.left[t], 1) ELSE s.left[t]
    BY TicksTime DEF Uncharged, Follows
  <1> HIDE DEF u
  <1>4. Readied(m, n, u, r)
    BY <1>1, <1>2, ReplenishHeld DEF u
  <1>5. /\ n.pending = m.pending
        /\ \A t \in Thread :
             \/ m.state[t] # "THREAD_THROTTLED" /\ n.state[t] = m.state[t]
             \/ m.state[t] = "THREAD_THROTTLED" /\ m.replenishIn[t] = 1 /\ n.state[t] = "READY"
             \/ /\ m.state[t] = "THREAD_THROTTLED" /\ n.state[t] = m.state[t]
                /\ m.replenishIn[t] > 1 /\ n.replenishIn[t] = m.replenishIn[t] - 1
    BY ReplenishmentMoves
  <1> HIDE DEF n, r
  <1>6. m.replenishIn \in [Thread -> Nat]
    BY DEF Ticking, MachineType
  <1>7. Sleepless(n)
    BY <1>5 DEF OnTime, Sleepless, Awake
  <1>8. ASSUME NEW t \in Thread
        PROVE  /\ n.state[t] = "READY" => r.left[t] \in {Passed(d, t), Fresh(t, Passed(d, t))}
               /\ n.state[t] \in Awake \ {"READY"} => r.left[t] = d[t] /\ d[t] > 0
               /\ n.state[t] = "THREAD_THROTTLED" => r.left[t] = Edf!Monus(Passed(d, t), n.replenishIn[t])
    <2>1. d[t] \in Nat /\ m.replenishIn[t] \in Nat
      BY <1>6
    <2>2. r.left[t] = IF t \in Ready(n) \ Ready(m) THEN Fresh(t, u.left[t]) ELSE u.left[t]
      BY <1>4 DEF Readied
    <2>3. CASE m.state[t] # "THREAD_THROTTLED" /\ n.state[t] = m.state[t]
      <3>1. r.left[t] = u.left[t]
        BY <2>2, <2>3 DEF Ready
      <3>2. m.state[t] \in Awake => s.left[t] = d[t] /\ d[t] > 0
        BY DEF OnTime
      <3> QED BY <1>3, <2>3, <3>1, <3>2 DEF Passed, Awake
    <2>4. CASE m.state[t] = "THREAD_THROTTLED" /\ m.replenishIn[t] = 1 /\ n.state[t] = "READY"
      <3>1. r.left[t] = Fresh(t, u.left[t])
        BY <2>2, <2>4 DEF Ready
      <3>2. u.left[t] = Edf!Monus(d[t], 1)
        BY <1>3, <2>4 DEF OnTime
      <3> QED BY <2>4, <3>1, <3>2 DEF Passed
    <2>5. CASE /\ m.state[t] = "THREAD_THROTTLED" /\ n.state[t] = m.state[t]
               /\ m.replenishIn[t] > 1 /\ n.replenishIn[t] = m.replenishIn[t] - 1
      <3>1. r.left[t] = Edf!Monus(d[t], m.replenishIn[t])
        BY <1>3, <2>2, <2>5 DEF Ready, OnTime
      <3> DEFINE b == m.replenishIn[t] - 1
      <3>2. b \in Nat /\ b + 1 = m.replenishIn[t]
        BY <2>1, <2>5
      <3> HIDE DEF b
      <3>3. Edf!Monus(Passed(d, t), b) = Edf!Monus(d[t], b + 1)
        BY <2>1, <3>2, MonusIs DEF Passed
      <3>4. n.replenishIn[t] = b
        BY <2>5 DEF b
      <3> QED BY <2>5, <3>1, <3>2, <3>3, <3>4 DEF Awake
    <2> QED BY <1>5, <2>3, <2>4, <2>5
  <1> QED BY <1>7, <1>8 DEF OnTick, n, r

\* Second phase: those that left the core pay for the tick.
LEMMA SettleTime ==
  ASSUME policy = "EDF", BCS, ParamsOK, NEW d \in [Thread -> Nat],
         NEW m, Sound(m), NEW s, Uncharged(m, s), OnTick(m, s, d),
         NEW c \in SettleDeferred(Core(m, s))
  PROVE  OnTick(HandleDeferredTicks(m), c.sched, d)
  <1> DEFINE n == HandleDeferredTicks(m)
             r == c.sched
             D == ToSet(m.deferred)
  <1>1. PolicyOK /\ Ticking(m) /\ Sleepless(m)
    BY DEF PolicyOK, Sound, OnTick
  <1>2. Kept(s, r, Thread \ D) /\ \A t \in Thread : t \in D => SettledTime(m, n, s, r, t)
    BY <1>1, SettleDeferredHeld
  <1>3. /\ n.pending = m.pending
        /\ \A t \in Thread : t \notin D => n.state[t] = m.state[t] /\ n.replenishIn[t] = m.replenishIn[t]
        /\ \A t \in Thread : t \in D =>
             \/ n.state[t] = "READY"
             \/ n.state[t] = "THREAD_THROTTLED" /\ n.currentBudget[t] = 0 /\ n.replenishIn[t] = period[t]
    BY <1>1, DeferredMoves
  <1>4. Ticking(n)
    BY <1>1, HandleDeferredTicksSound
  <1> HIDE DEF n, r, D
  <1>5. Sleepless(n)
    BY <1>1, <1>3 DEF Sleepless, Awake
  <1>6. ASSUME NEW t \in Thread
        PROVE  /\ n.state[t] = "READY" => r.left[t] \in {Passed(d, t), Fresh(t, Passed(d, t))}
               /\ n.state[t] \in Awake \ {"READY"} => r.left[t] = d[t] /\ d[t] > 0
               /\ n.state[t] = "THREAD_THROTTLED" => r.left[t] = Edf!Monus(Passed(d, t), n.replenishIn[t])
    <2>1. CASE t \notin D
      <3>1. r.left[t] = s.left[t]
        BY <1>2, <2>1 DEF Kept, TimeLeft
      <3> QED BY <1>3, <2>1, <3>1 DEF OnTick
    <2>2. CASE t \in D
      <3>1. m.state[t] \in {"THREAD_DEFTICK_YIELD", "THREAD_DEFTICK_THROTTLE"}
        BY <1>1, <2>2 DEF Ticking, DeferredOK, Task, D, Sleepless, Awake, DefTickStates, DefTickThreadStates
      <3>2. s.left[t] = d[t] /\ d[t] > 0 /\ d[t] \in Nat
        BY <3>1 DEF OnTick, Awake
      <3>3. r.left[t] = IF n.state[t] = "READY" THEN Fresh(t, Paid(n, t, d[t])) ELSE Paid(n, t, d[t])
        BY <1>2, <2>2, <3>1, <3>2 DEF SettledTime
      <3>4. Passed(d, t) = d[t] - 1 /\ Passed(d, t) \in Nat
        BY <3>2, MonusIs DEF Passed
      <3>5. CASE n.state[t] = "READY"
        <4>1. n.currentBudget[t] # 0
          BY <1>4, <3>5 DEF Ticking, BudgetsOK, MachineType
        <4>2. Paid(n, t, d[t]) = Fresh(t, Passed(d, t))
          BY <3>4, <4>1 DEF Paid
        <4> QED BY <3>3, <3>4, <3>5, <4>2, FreshIs DEF Awake
      <3>6. CASE n.state[t] = "THREAD_THROTTLED" /\ n.currentBudget[t] = 0 /\ n.replenishIn[t] = period[t]
        <4>1. Paid(n, t, d[t]) = Edf!Monus(Passed(d, t), n.replenishIn[t])
          BY <3>4, <3>6 DEF Paid
        <4> QED BY <3>3, <3>6, <4>1 DEF Awake
      <3> QED BY <1>3, <2>2, <3>5, <3>6
    <2> QED BY <2>1, <2>2
  <1> QED BY <1>5, <1>6 DEF OnTick, n, r

\* Third phase: so does the running thread.
LEMMA ChargeTime ==
  ASSUME policy = "EDF", BCS, ParamsOK, NEW d \in [Thread -> Nat],
         NEW m, Sound(m), m.deferred = <<>>, NEW s, Uncharged(m, s), OnTick(m, s, d),
         NEW c \in Charge(Core(m, s))
  PROVE  OnCharge(ChargeRunningTask(m), c.sched, d)
  <1> DEFINE n == ChargeRunningTask(m)
             r == c.sched
  <1>1. PolicyOK /\ Ticking(m) /\ Sleepless(m) /\ m \in MachineType
    BY DEF PolicyOK, Sound, Ticking, OnTick
  <1>2. /\ Kept(s, r, Thread \ {m.running})
        /\ \A t \in Thread : m.running = t => PaidFor(n, "RUNNING", s, r, t)
    BY <1>1, ChargeHeld
  <1>3. n.state = m.state /\ n.pending = m.pending /\ n.replenishIn = m.replenishIn
    BY <1>1 DEF ChargeRunningTask, MachineType
  <1>4. \A t \in Thread : m.state[t] \notin DefTickStates
    <2>1. ToSet(m.deferred) = {}
      BY EmptyStack
    <2> QED BY <1>1, <2>1 DEF Ticking, DeferredOK, Task
  <1> HIDE DEF n, r
  <1>5. Sleepless(n)
    BY <1>1, <1>3 DEF Sleepless
  <1>6. ASSUME NEW t \in Thread
        PROVE  /\ n.state[t] \notin {"THREAD_DEFTICK_YIELD", "THREAD_DEFTICK_THROTTLE"}
               /\ n.state[t] = "READY" => r.left[t] \in {Passed(d, t), Fresh(t, Passed(d, t))}
               /\ n.state[t] = "RUNNING" =>
                    r.left[t] = IF n.currentBudget[t] = 0 THEN Edf!Monus(Passed(d, t), period[t])
                                ELSE Fresh(t, Passed(d, t))
               /\ n.state[t] = "THREAD_THROTTLED" => r.left[t] = Edf!Monus(Passed(d, t), n.replenishIn[t])
    <2>1. CASE m.running = t
      <3>1. m.state[t] = "RUNNING"
        BY <1>1, <2>1 DEF Ticking, SlotsOK, Task
      <3>2. s.left[t] = d[t] /\ d[t] > 0 /\ d[t] \in Nat
        BY <3>1 DEF OnTick, Awake
      <3>3. r.left[t] = Paid(n, t, d[t])
        BY <1>2, <2>1, <3>2 DEF PaidFor
      <3>4. Passed(d, t) = d[t] - 1
        BY <3>2, MonusIs DEF Passed
      <3> QED BY <1>3, <3>1, <3>3, <3>4 DEF Paid
    <2>2. CASE m.running # t
      <3>1. m.state[t] # "RUNNING"
        BY <1>1, <2>2 DEF Ticking, SlotsOK, Task
      <3>2. r.left[t] = s.left[t]
        BY <1>2, <2>2 DEF Kept, TimeLeft
      <3> QED BY <1>3, <1>4, <3>1, <3>2 DEF OnTick, DefTickStates, DefTickThreadStates
    <2> QED BY <2>1, <2>2
  <1> QED BY <1>5, <1>6 DEF OnCharge, n, r

\* Last phase: nobody slept.
LEMMA WakeTime ==
  ASSUME policy = "EDF", NEW d, NEW m, Ticking(m), NEW s, Ticked(m, s), OnCharge(m, s, d),
         NEW c \in WakeUp(Core(m, s))
  PROVE  OnCharge(SleepPeriod(m), c.sched, d)
  <1> DEFINE n == SleepPeriod(m)
             r == c.sched
  <1>1. PolicyOK /\ Sleepless(m)
    BY DEF PolicyOK, OnCharge
  <1>2. Readied(m, n, s, r)
    BY <1>1, WakeUpHeld
  <1>3. /\ n.pending = m.pending
        /\ \A t \in Thread : n.state[t] = m.state[t] /\ n.replenishIn[t] = m.replenishIn[t]
                             /\ n.currentBudget[t] = m.currentBudget[t]
    BY <1>1, NobodyWakes
  <1> HIDE DEF n, r
  <1>4. \A t \in Thread : r.left[t] = s.left[t]
    BY <1>2, <1>3 DEF Readied, Ready
  <1> QED BY <1>3, <1>4 DEF OnCharge, Sleepless, n, r

\* The whole tick, up to the rescheduling point.
LEMMA TickCoreTime ==
  ASSUME policy = "EDF", BCS, ParamsOK, NEW d \in [Thread -> Nat],
         NEW m, Sound(m), NEW s, Uncharged(m, s), OnTime(m, s, d), NEW c \in TickCore(Core(m, s))
  PROVE  OnCharge(c.machine, c.sched, d)
  <1> DEFINE u == TickTransitionCallback(s)
  <1>1. PolicyOK /\ Ticking(m) /\ Uncharged(m, u)
    BY TransitionHeld DEF Sound, PolicyOK
  <1>2. PICK c1 \in Replenish(Core(m, u)) : \E b \in SettleDeferred(c1) : \E e \in Charge(b) : c \in WakeUp(e)
    BY DEF TickCore, Core
  <1>3. PICK c2 \in SettleDeferred(c1) : \E e \in Charge(c2) : c \in WakeUp(e)
    BY <1>2
  <1>4. PICK c3 \in Charge(c2) : c \in WakeUp(c3)
    BY <1>3
  <1> DEFINE m1 == ReplenishmentPeriod(m)
             m2 == HandleDeferredTicks(m1)
             m3 == ChargeRunningTask(m2)
             m4 == SleepPeriod(m3)
  <1>5. c1 = Core(m1, c1.sched) /\ Uncharged(m1, c1.sched) /\ OnTick(m1, c1.sched, d)
    BY <1>1, <1>2, ReplenishHeld, ReplenishTime
  <1>6. Sound(m1)
    BY <1>1, ReplenishmentPeriodSound
  <1> HIDE DEF m1, u
  <1>7. c2 = Core(m2, c2.sched) /\ Uncharged(m2, c2.sched) /\ OnTick(m2, c2.sched, d)
    BY <1>1, <1>3, <1>5, <1>6, SettleDeferredHeld, SettleTime
  <1>8. Sound(m2) /\ m2.deferred = <<>>
    BY <1>6, HandleDeferredTicksSound, DeferredIs DEF Sound
  <1> HIDE DEF m2
  <1>9. c3 = Core(m3, c3.sched) /\ Ticked(m3, c3.sched) /\ OnCharge(m3, c3.sched, d)
    BY <1>1, <1>4, <1>7, <1>8, ChargeHeld, ChargeTime
  <1>10. Ticking(m3)
    BY <1>8, ChargeRunningTaskSound
  <1> HIDE DEF m3
  <1>11. c = Core(m4, c.sched) /\ OnCharge(m4, c.sched, d)
    BY <1>1, <1>4, <1>9, <1>10, WakeUpHeld, WakeTime
  <1> HIDE DEF m4
  <1>12. c.machine = m4
    BY <1>11 DEF Core
  <1> QED BY <1>11, <1>12

\* A pop renews the deadlines that expired in the chain.
LEMMA PopTime ==
  ASSUME policy = "EDF", NEW m, NEW s, Held(s, Ready(m))
  PROVE  \A t \in Thread : Pop(m, s).sched.left[t] =
           IF m.state[t] = "READY" THEN Fresh(t, s.left[t]) ELSE s.left[t]
  <1> DEFINE f == Edf!FixupChain(s)
             R == Ready(m)
  <1>1. HeldEdf(s, R) /\ R \in SUBSET Thread
    BY ReadyIs DEF Held
  <1>2. /\ HeldEdf(f, R) /\ \A u \in R : f.left[u] > 0
        /\ \A u \in Thread : \/ f.left[u] = s.left[u]
                             \/ u \in R /\ s.left[u] = 0 /\ f.left[u] = VirtualDeadline[u]
    BY <1>1, EdfFixup
  <1> DEFINE n == [f EXCEPT !.chain = Tail(@)]
  <1>3. Pop(m, s).sched = IF f.chain = <<>> THEN f ELSE n
    BY DEF Pop, Edf!Pop
  <1> HIDE DEF f
  <1>4. n.left = f.left
    BY <1>2 DEF HeldEdf
  <1> HIDE DEF n
  <1>5. Pop(m, s).sched.left = f.left
    BY <1>3, <1>4
  <1>6. \A u \in R : f.left[u] = Fresh(u, s.left[u])
    BY <1>1, <1>2 DEF Fresh
  <1> QED BY <1>2, <1>5, <1>6 DEF Ready

\* So does the question whether to reschedule a thread.
LEMMA AskTime ==
  ASSUME policy = "EDF", NEW m, NEW s, Held(s, Ready(m)), m.running \in Thread
  PROVE  \A t \in Thread : ShouldReschedule(m, s).sched.left[t] =
           IF m.state[t] = "READY" THEN Fresh(t, s.left[t]) ELSE s.left[t]
  <1> DEFINE f == Edf!FixupChain(s)
             R == Ready(m)
  <1>1. HeldEdf(s, R) /\ R \in SUBSET Thread /\ Idle \notin Thread
    BY ReadyIs DEF Held
  <1>2. /\ HeldEdf(f, R) /\ \A u \in R : f.left[u] > 0
        /\ \A u \in Thread : \/ f.left[u] = s.left[u]
                             \/ u \in R /\ s.left[u] = 0 /\ f.left[u] = VirtualDeadline[u]
    BY <1>1, EdfFixup
  <1>3. ShouldReschedule(m, s).sched = f
    BY <1>1 DEF ShouldReschedule, Edf!ShouldReschedule
  <1> HIDE DEF f
  <1>4. \A u \in R : f.left[u] = Fresh(u, s.left[u])
    BY <1>1, <1>2 DEF Fresh
  <1> QED BY <1>2, <1>3, <1>4 DEF Ready

\* The choice of a successor moves it alone.
LEMMA RunPoppedMoves ==
  ASSUME policy = "EDF", NEW m, Ticking(m), m.running = NoTask, NEW s, Held(s, Ready(m)),
         NEW c \in RunPopped(Core(m, s))
  PROVE  /\ c.machine.pending = m.pending
         /\ \A t \in Thread :
              /\ c.sched.left[t] = IF m.state[t] = "READY" THEN Fresh(t, s.left[t]) ELSE s.left[t]
              /\ \/ c.machine.state[t] = m.state[t]
                 \/ m.state[t] = "READY" /\ c.machine.state[t] = "RUNNING"
              /\ c.machine.replenishIn[t] = m.replenishIn[t]
  <1> DEFINE p == Pop(m, s)
             t == p.task
             n == LoadNextState(m, t, "RUNNING")
             R == Ready(m)
  <1>1. c.machine = n /\ c.sched = p.sched
    BY DEF RunPopped, Core
  <1>2. t \in R \cup {Idle}
    BY PopHeld DEF PolicyOK
  <1>3. \A u \in Thread : p.sched.left[u] = IF m.state[u] = "READY" THEN Fresh(u, s.left[u]) ELSE s.left[u]
    BY PopTime
  <1>4. m \in MachineType /\ R \subseteq Thread /\ Idle \notin Thread /\ Thread \subseteq Task /\ t \in Task
        /\ \A u \in Task : m.state[u] # "RUNNING"
    BY <1>2, Configuration DEF Ticking, SlotsOK, Task, Ready
  <1> HIDE DEF p, t, R
  <1>5. n = [m EXCEPT !.state[t] = "RUNNING", !.running = t]
    BY <1>4 DEF LoadNextState, DefTickThreadStates
  <1>6. n.state = [m.state EXCEPT ![t] = "RUNNING"] /\ n.pending = m.pending /\ n.replenishIn = m.replenishIn
        /\ m.state \in [Task -> States]
    BY <1>4, <1>5 DEF MachineType
  <1> HIDE DEF n
  <1>7. ASSUME NEW u \in Thread
        PROVE  \/ n.state[u] = m.state[u]
               \/ m.state[u] = "READY" /\ n.state[u] = "RUNNING"
    <2>1. CASE u = t
      <3>1. m.state[u] = "READY"
        BY <1>2, <1>4, <2>1 DEF R, Ready
      <3> QED BY <1>4, <1>6, <2>1, <3>1
    <2>2. CASE u # t
      <3>1. u \in Task
        BY <1>4
      <3>2. n.state[u] = m.state[u]
        BY <1>6, <2>2, <3>1
      <3> QED BY <3>2
    <2> QED BY <2>1, <2>2
  <1> QED BY <1>1, <1>3, <1>6, <1>7

\* The running task makes room for another.
LEMMA ReplaceTime ==
  ASSUME policy = "EDF", BCS, ParamsOK, NEW d \in [Thread -> Nat],
         NEW m, Ticking(m), m.running \in Thread \cup {Idle},
         NEW s, Follows(m, s), OnCharge(m, s, d), NEW to,
         \/ to = "READY" /\ (m.running \in Thread => m.currentBudget[m.running] > 0)
         \/ to = "THREAD_THROTTLED" /\ m.running \in Thread /\ m.currentBudget[m.running] = 0,
         NEW c \in Replace(Core(m, s), to)
  PROVE  Elapsed(c.machine, c.sched, d)
  <1> DEFINE r == m.running
             k == LoadNextState(LeaveRunning(m), r, to)
             x == IF to = "READY" THEN Push(s, r) ELSE s
  <1>1. c \in RunPopped(Core(k, x))
    BY DEF Replace, Core
  <1>2. /\ m \in MachineType /\ r \in Task /\ r \notin Lsr /\ Thread \subseteq Task /\ Idle \notin Thread
        /\ m.state \in [Task -> States] /\ m.state[r] = "RUNNING" /\ m.pending = NoTask
        /\ m.replenishIn \in [Thread -> Nat] /\ PolicyOK
    BY Configuration, NoTaskNotThread DEF Ticking, MachineType, Task, SlotsOK, PolicyOK
  <1>3. Ticking(k) /\ k.running = NoTask /\ k.pending = NoTask
    <2>1. CASE to = "READY" /\ (r \in Thread => m.currentBudget[r] > 0)
      BY <1>2, <2>1, LeaveReadyOrFailed DEF Sound
    <2>2. CASE to = "THREAD_THROTTLED" /\ r \in Thread /\ m.currentBudget[r] = 0
      BY <1>2, <2>2, LeaveThrottled DEF Sound
    <2> QED BY <2>1, <2>2
  <1>4. /\ k.state = [m.state EXCEPT ![r] = to]
        /\ k.replenishIn = IF to = "READY" THEN m.replenishIn ELSE [m.replenishIn EXCEPT ![r] = period[r]]
    <2>1. CASE to = "READY"
      BY <1>2, <2>1 DEF LoadNextState, LeaveRunning, DefTickThreadStates, MachineType
    <2>2. CASE to = "THREAD_THROTTLED"
      BY <1>2, <2>2 DEF LoadNextState, LeaveRunning, DefTickThreadStates, MachineType
    <2> QED BY <2>1, <2>2
  <1>5. to \in {"READY", "THREAD_THROTTLED"} /\ (to = "THREAD_THROTTLED" => r \in Thread)
    OBVIOUS
  <1> HIDE DEF k
  <1>6. k.state[r] = to /\ \A u \in Task : u # r => k.state[u] = m.state[u]
    BY <1>2, <1>4
  <1>7. /\ Ready(m) \in SUBSET Thread /\ r \notin Ready(m) /\ Held(s, Ready(m))
        /\ Ready(k) = IF to = "READY" /\ r \in Thread THEN Ready(m) \cup {r} ELSE Ready(m)
    BY <1>2, <1>5, <1>6 DEF Ready, Follows
  <1>8. /\ Held(x, Ready(k)) /\ \A u \in Thread \ {r} : x.left[u] = s.left[u]
        /\ r \in Thread => x.left[r] = IF to = "READY" THEN Fresh(r, s.left[r]) ELSE s.left[r]
    <2>1. CASE to = "READY" /\ r \in Thread
      <3> HIDE DEF r
      <3>1. /\ Held(Push(s, r), Ready(m) \cup {r}) /\ Kept(s, Push(s, r), Thread \ {r})
            /\ Push(s, r).left[r] = Fresh(r, s.left[r])
        <4>1. PolicyOK
          BY DEF PolicyOK
        <4> QED BY <1>7, <2>1, <4>1, PushHeld
      <3> QED BY <1>7, <2>1, <3>1 DEF Kept, TimeLeft
    <2>2. CASE ~(to = "READY" /\ r \in Thread)
      <3>1. x = s
        BY <1>5, <2>2 DEF Push
      <3> HIDE DEF x
      <3> QED BY <1>5, <1>7, <2>2, <3>1
    <2> QED BY <2>1, <2>2
  <1> HIDE DEF x
  <1>9. /\ c.machine.pending = NoTask
        /\ \A t \in Thread :
             /\ c.sched.left[t] = IF k.state[t] = "READY" THEN Fresh(t, x.left[t]) ELSE x.left[t]
             /\ \/ c.machine.state[t] = k.state[t]
                \/ k.state[t] = "READY" /\ c.machine.state[t] = "RUNNING"
             /\ c.machine.replenishIn[t] = k.replenishIn[t]
    BY <1>1, <1>3, <1>8, RunPoppedMoves
  <1> DEFINE n == c.machine
             y == c.sched
  <1>10. ASSUME NEW t \in Thread
         PROVE  /\ n.state[t] \in {"READY", "RUNNING", "THREAD_THROTTLED", "FAILURE"}
                /\ n.state[t] \in {"READY", "RUNNING"} => y.left[t] = Fresh(t, Passed(d, t))
                /\ n.state[t] = "THREAD_THROTTLED" => y.left[t] = Edf!Monus(Passed(d, t), n.replenishIn[t])
    <2> HIDE DEF n, y
    <2> DEFINE e == Passed(d, t)
    <2>1. e \in Nat
      BY MonusIs DEF Passed
    <2>2. Fresh(t, Fresh(t, e)) = Fresh(t, e)
      BY <2>1, FreshIs
    <2>3. CASE t = r
      <3>1. k.state[t] = to
        BY <1>6, <2>3
      <3>2. s.left[t] = IF m.currentBudget[t] = 0 THEN Edf!Monus(e, period[t]) ELSE Fresh(t, e)
        BY <1>2, <2>3 DEF OnCharge
      <3>3. CASE to = "READY"
        <4>1. s.left[t] = Fresh(t, e)
          BY <2>3, <3>2, <3>3
        <4>2. y.left[t] = Fresh(t, e)
          BY <1>8, <1>9, <2>2, <2>3, <3>1, <3>3, <4>1 DEF y
        <4> QED BY <1>9, <3>1, <3>3, <4>2 DEF n
      <3>4. CASE to = "THREAD_THROTTLED"
        <4>1. s.left[t] = Edf!Monus(e, period[t])
          BY <2>3, <3>2, <3>4
        <4>2. n.replenishIn[t] = period[t]
          BY <1>2, <1>4, <1>9, <2>3, <3>4 DEF n
        <4>3. y.left[t] = Edf!Monus(e, period[t]) /\ n.state[t] = "THREAD_THROTTLED"
          BY <1>8, <1>9, <2>3, <3>1, <3>4, <4>1 DEF y, n
        <4> QED BY <4>2, <4>3
      <3> QED BY <1>5, <3>3, <3>4
    <2>4. CASE t # r
      <3>1. k.state[t] = m.state[t] /\ x.left[t] = s.left[t] /\ n.replenishIn[t] = m.replenishIn[t]
        <4>1. k.replenishIn[t] = m.replenishIn[t]
          BY <1>2, <1>4, <2>4
        <4> QED BY <1>2, <1>6, <1>8, <1>9, <2>4, <4>1 DEF n
      <3>2. m.state[t] \in {"READY", "THREAD_THROTTLED", "FAILURE"}
        <4>1. m.state[t] # "RUNNING"
          BY <1>2, <2>4 DEF Ticking, SlotsOK
        <4> QED BY <4>1 DEF OnCharge, Sleepless, Awake
      <3>3. CASE m.state[t] = "READY"
        <4>1. s.left[t] \in {e, Fresh(t, e)}
          BY <3>3 DEF OnCharge
        <4>2. y.left[t] = Fresh(t, e)
          BY <1>9, <2>2, <3>1, <3>3, <4>1 DEF y
        <4> QED BY <1>9, <3>1, <3>3, <4>2 DEF n
      <3>4. CASE m.state[t] = "THREAD_THROTTLED"
        <4>1. y.left[t] = Edf!Monus(e, n.replenishIn[t])
          BY <1>9, <3>1, <3>4 DEF y, OnCharge
        <4> QED BY <1>9, <3>1, <3>4, <4>1 DEF n
      <3>5. CASE m.state[t] = "FAILURE"
        BY <1>9, <3>1, <3>5 DEF n
      <3> QED BY <3>2, <3>3, <3>4, <3>5
    <2> QED BY <2>3, <2>4
  <1> QED BY <1>9, <1>10 DEF Elapsed, Sleepless, Awake

\* The rescheduling point leaves no deadline expired.
LEMMA AskPolicyTime ==
  ASSUME policy = "EDF", BCS, ParamsOK, NEW d \in [Thread -> Nat],
         NEW m, Ticking(m), m.running \in Thread \cup {Idle},
         NEW s, Follows(m, s), OnCharge(m, s, d), NEW c \in AskPolicy(Core(m, s))
  PROVE  Elapsed(c.machine, c.sched, d)
  <1> DEFINE r == m.running
             budgetDone == r \in Thread /\ m.currentBudget[r] = 0
             asked == ShouldReschedule(m, s)
  <1>1. /\ Idle \notin Thread \cup Lsr /\ Thread \cap Lsr = {} /\ r \notin Lsr /\ PolicyOK
        /\ m.state[r] = "RUNNING" /\ Held(s, Ready(m)) /\ Ready(m) \in SUBSET Thread
        /\ \A t \in Thread : m.state[t] = "RUNNING" => t = r
        /\ r \in Thread => m.currentBudget[r] \in Nat
    BY Configuration DEF Ticking, MachineType, SlotsOK, Task, Follows, Ready, PolicyOK
  <1>2. CASE budgetDone
    <2>1. c \in Replace(Core(m, s), "THREAD_THROTTLED")
      BY <1>1, <1>2 DEF AskPolicy, Core
    <2> QED BY <1>2, <2>1, ReplaceTime
  <1>3. CASE ~budgetDone
    <2>1. c \in IF asked.yes THEN Replace(Core(m, asked.sched), "READY") ELSE {Core(m, asked.sched)}
      BY <1>1, <1>3 DEF AskPolicy, Core
    <2>2. r \in Thread => m.currentBudget[r] > 0
      BY <1>1, <1>3
    <2>3. CASE r = Idle
      <3>1. asked.sched = s /\ asked.yes \in BOOLEAN /\ (asked.yes <=> Ready(m) # {})
        BY <1>1, <2>3, AskIdle
      <3> DEFINE yes == asked.yes
                 x == asked.sched
      <3>2. c \in IF yes THEN Replace(Core(m, x), "READY") ELSE {Core(m, x)}
        BY <2>1
      <3>3. x = s /\ yes \in BOOLEAN /\ (yes <=> Ready(m) # {})
        BY <3>1
      <3> HIDE DEF yes, x, asked
      <3>4. CASE yes
        <4>1. c \in Replace(Core(m, s), "READY")
          BY <3>2, <3>3, <3>4
        <4> QED BY <2>2, <4>1, ReplaceTime
      <3>5. CASE ~yes
        <4>1. c.machine = m /\ c.sched = s
          BY <3>2, <3>3, <3>5 DEF Core
        <4>2. \A t \in Thread : m.state[t] \notin {"READY", "RUNNING"}
          BY <1>1, <2>3, <3>3, <3>5 DEF Ready
        <4> QED BY <4>1, <4>2 DEF OnCharge, Elapsed
      <3> QED BY <3>3, <3>4, <3>5
    <2>4. CASE r \in Thread
      <3> DEFINE yes == asked.yes
                 x == asked.sched
      <3>1. r \notin Ready(m)
        BY <1>1 DEF Ready
      <3>2. Held(x, Ready(m)) /\ yes \in BOOLEAN
        BY <1>1, <2>4, <3>1, AskHeld
      <3>3. \A t \in Thread : x.left[t] = IF m.state[t] = "READY" THEN Fresh(t, s.left[t]) ELSE s.left[t]
        BY <1>1, <2>4, AskTime
      <3>4. c \in IF yes THEN Replace(Core(m, x), "READY") ELSE {Core(m, x)}
        BY <2>1
      <3> HIDE DEF yes, x, asked
      <3>5. ASSUME NEW t \in Thread, m.state[t] = "READY"
            PROVE  x.left[t] = Fresh(t, Passed(d, t))
        <4>1. Passed(d, t) \in Nat
          BY MonusIs DEF Passed
        <4>2. s.left[t] \in {Passed(d, t), Fresh(t, Passed(d, t))}
          BY <3>5 DEF OnCharge
        <4> QED BY <3>3, <3>5, <4>1, <4>2, FreshIs
      <3>6. OnCharge(m, x, d)
        BY <3>3, <3>5 DEF OnCharge
      <3>7. CASE yes
        <4>1. c \in Replace(Core(m, x), "READY")
          BY <3>4, <3>7
        <4>2. Follows(m, x)
          BY <3>2 DEF Follows, OnCharge, Sleepless, Awake, DefTickStates, DefTickThreadStates
        <4> QED BY <2>2, <3>6, <4>1, <4>2, ReplaceTime
      <3>8. CASE ~yes
        <4>1. c.machine = m /\ c.sched = x
          BY <3>4, <3>8 DEF Core
        <4>2. ASSUME NEW t \in Thread, m.state[t] = "RUNNING"
              PROVE  x.left[t] = Fresh(t, Passed(d, t))
          <5>1. t = r /\ m.currentBudget[t] # 0
            BY <1>1, <1>3, <2>4, <4>2
          <5> QED BY <3>6, <4>2, <5>1 DEF OnCharge
        <4> QED BY <3>5, <3>6, <4>1, <4>2 DEF OnCharge, Elapsed
      <3> QED BY <3>2, <3>7, <3>8
    <2> QED BY <2>3, <2>4
  <1> QED BY <1>2, <1>3

\* What the tick leaves is in step with what time does to the deadlines.
LEMMA ElapseTime ==
  ASSUME due \in [Thread -> Nat], NEW c, c.machine \in MachineType, Elapsed(c.machine, c.sched, due),
         Continue(c), Elapse
  PROVE  due' \in [Thread -> Nat] /\ OnTime(Machine, sched, due)'
  <1> DEFINE n == c.machine
             x == c.sched
  <1>1. n \in MachineType /\ Becomes(n) /\ sched' = x
    BY DEF Continue
  <1>2. Machine' = n /\ state' = n.state
    BY <1>1 DEF Becomes, Machine, MachineType
  <1>3. due' = [t \in Thread |->
          IF due[t] <= 1 THEN IF n.state[t] \in {"READY", "RUNNING", "PENDING"}
                              THEN VirtualDeadline[t] ELSE 0
          ELSE due[t] - 1]
    BY <1>2 DEF Elapse
  <1>4. /\ Sleepless(n)
        /\ \A t \in Thread :
             /\ n.state[t] \notin {"THREAD_DEFTICK_YIELD", "THREAD_DEFTICK_THROTTLE"}
             /\ n.state[t] \in {"READY", "RUNNING"} => x.left[t] = Fresh(t, Passed(due, t))
             /\ n.state[t] = "THREAD_THROTTLED" => x.left[t] = Edf!Monus(Passed(due, t), n.replenishIn[t])
    BY DEF Elapsed
  <1>5. n.replenishIn \in [Thread -> Nat]
    BY <1>1 DEF MachineType
  <1> HIDE DEF n, x
  <1>6. ASSUME NEW t \in Thread
        PROVE  /\ due'[t] \in Nat
               /\ n.state[t] \in Awake => x.left[t] = due'[t] /\ due'[t] > 0
               /\ n.state[t] = "THREAD_THROTTLED" => x.left[t] = Edf!Monus(due'[t], n.replenishIn[t])
    <2>1. due[t] \in Nat /\ VirtualDeadline[t] \in Nat \ {0} /\ n.replenishIn[t] \in Nat
      BY <1>5, PolicyConfiguration
    <2>2. due'[t] = IF due[t] <= 1 THEN IF n.state[t] \in {"READY", "RUNNING", "PENDING"}
                                        THEN VirtualDeadline[t] ELSE 0
                    ELSE due[t] - 1
      BY <1>3
    <2>3. Passed(due, t) = IF due[t] <= 1 THEN 0 ELSE due[t] - 1
      BY <2>1 DEF Passed, Edf!Monus
    <2>4. due'[t] \in Nat
      BY <2>1, <2>2
    <2>5. CASE n.state[t] \in Awake
      <3>1. n.state[t] \in {"READY", "RUNNING"}
        BY <1>4, <2>5 DEF Awake
      <3>2. x.left[t] = due'[t]
        BY <1>4, <2>1, <2>2, <2>3, <3>1 DEF Fresh
      <3>3. due'[t] > 0
        BY <2>1, <2>2, <3>1
      <3> QED BY <2>4, <3>1, <3>2, <3>3
    <2>6. CASE n.state[t] = "THREAD_THROTTLED"
      <3>1. due'[t] = Passed(due, t)
        BY <2>2, <2>3, <2>6
      <3> QED BY <1>4, <2>4, <2>6, <3>1 DEF Awake
    <2> QED BY <2>4, <2>5, <2>6
  <1>7. due' \in [Thread -> Nat]
    BY <1>3, <1>6
  <1>8. OnTime(n, x, due')
    BY <1>4, <1>6 DEF OnTime
  <1>9. OnTime(n, x, due') => OnTime(Machine', sched', due')
    BY <1>1, <1>2 DEF x
  <1> QED BY <1>7, <1>8, <1>9 DEF OnTime, Sleepless, Awake

\* Without LSRs the stacks of LSRs are empty.
LEMMA NoLsrs ==
  ASSUME Lsr = {}, NEW m, m \in MachineType
  PROVE  m.pendingLsrs = <<>> /\ \A v \in Vector : m.lsrs[v] = <<>>
  <1>1. m.pendingLsrs \in Seq(Lsr) /\ \A v \in Vector : m.lsrs[v] \in Seq(Lsr)
    BY DEF MachineType
  <1>2. ASSUME NEW q \in Seq(Lsr), q # <<>> PROVE FALSE
    <2>1. 1 \in 1..Len(q)
      BY <1>2, EmptySeq, LenProperties
    <2>2. q[1] \in Lsr
      BY <2>1, ElementOfSeq
    <2> QED BY <2>2
  <1> QED BY <1>1, <1>2

\* Time stands still in a step that is no tick.
LEMMA ContinueTime ==
  ASSUME DInv, NEW c, c.machine \in MachineType, OnTime(c.machine, c.sched, due),
         Continue(c), UNCHANGED due
  PROVE  DInv'
  <1> DEFINE n == c.machine
             x == c.sched
  <1>1. Becomes(n) /\ sched' = x /\ policy' = policy /\ n \in MachineType /\ OnTime(n, x, due)
    BY DEF Continue
  <1>2. Machine' = n /\ algorithm' = algorithm
    BY <1>1 DEF Becomes, Machine, MachineType, params
  <1> HIDE DEF n, x
  <1>3. OnTime(Machine, sched, due)'
    BY <1>1, <1>2 DEF OnTime, Sleepless, Awake
  <1> QED BY <1>1, <1>2, <1>3 DEF DInv, BCS

\* A thread that is chosen when the core is empty had time left.
LEMMA DispatchTime ==
  ASSUME policy = "EDF", Lsr = {}, NEW d \in [Thread -> Nat],
         NEW m, Sound(m), m.running = NoTask, NEW s, Follows(m, s), OnTime(m, s, d),
         NEW c \in Dispatch(Core(m, s))
  PROVE  OnTime(c.machine, c.sched, d)
  <1>1. Ticking(m) /\ m \in MachineType /\ m.pending = NoTask /\ Held(s, Ready(m))
    BY DEF Sound, Ticking, OnTime, Sleepless, Follows
  <1>2. m.pendingLsrs = <<>>
    BY <1>1, NoLsrs
  <1>3. c \in RunPopped(Core(m, s))
    BY <1>1, <1>2 DEF Dispatch, Core
  <1>4. /\ c.machine.pending = m.pending
        /\ \A t \in Thread :
             /\ c.sched.left[t] = IF m.state[t] = "READY" THEN Fresh(t, s.left[t]) ELSE s.left[t]
             /\ \/ c.machine.state[t] = m.state[t]
                \/ m.state[t] = "READY" /\ c.machine.state[t] = "RUNNING"
             /\ c.machine.replenishIn[t] = m.replenishIn[t]
    BY <1>1, <1>3, RunPoppedMoves
  <1>5. ASSUME NEW t \in Thread PROVE c.sched.left[t] = s.left[t]
    <2>1. m.state[t] = "READY" => s.left[t] = d[t] /\ d[t] > 0
      BY DEF OnTime, Awake
    <2> QED BY <1>4, <2>1 DEF Fresh
  <1> QED BY <1>4, <1>5 DEF OnTime, Sleepless, Awake

\* The running thread leaves; what its deadline will lose, it loses at the tick.
LEMMA SwitchTime ==
  ASSUME SInv, DInv, Lsr = {}, runningTask \in Thread, NEW s,
         s \in {"THREAD_DEFTICK_YIELD", "THREAD_DEFTICK_THROTTLE", "FAILURE"},
         SwitchTo(Machine, s), UNCHANGED due
  PROVE  DInv'
  <1> DEFINE m == Machine
             t == runningTask
             k == LoadNextState(LeaveRunning(m), t, s)
  <1>1. PICK c \in Dispatch(Core(k, sched)) : Continue(c)
    BY DEF SwitchTo
  <1>2. /\ ParamsOK /\ PolicyOK /\ Sound(m) /\ AtRest(m, sched) /\ m.running = t
        /\ policy = "EDF" /\ due \in [Thread -> Nat] /\ OnTime(m, sched, due)
    BY DEF SInv, IInv, PolicyOK, DInv, Machine
  <1> HIDE DEF m
  <1>3. Sound(k) /\ k.running = NoTask
    BY <1>2, LeaveSound DEF DefTickThreadStates
  <1>4. /\ m \in MachineType /\ t \in Task /\ m.state[t] = "RUNNING" /\ m.state \in [Task -> States]
        /\ Thread \cap Lsr = {} /\ Thread \subseteq Task
    BY <1>2, Configuration DEF Sound, Ticking, MachineType, SlotsOK, Task
  <1>5. k.state = [m.state EXCEPT ![t] = s] /\ k.pending = m.pending /\ k.replenishIn = m.replenishIn
    BY <1>4 DEF LoadNextState, LeaveRunning, DefTickThreadStates, MachineType
  <1> HIDE DEF k
  <1>6. Departs(m, k)
    BY <1>2, <1>3, <1>4, <1>5, NoTaskNotThread DEF Departs, DefTickStates, DefTickThreadStates
  <1>7. AtRest(k, sched)
    BY <1>2, <1>6, DepartureHeld
  <1>8. OnTime(k, sched, due)
    <2>1. ASSUME NEW u \in Thread
          PROVE  \/ k.state[u] = m.state[u]
                 \/ m.state[u] = "RUNNING" /\ k.state[u] = s
      BY <1>4, <1>5
    <2> QED BY <1>2, <1>5, <2>1 DEF OnTime, Sleepless, Awake
  <1>9. OnTime(c.machine, c.sched, due)
    BY <1>1, <1>2, <1>3, <1>7, <1>8, DispatchTime DEF AtRest, Uncharged
  <1>10. c.machine \in Reschedule(k)
    BY <1>1, <1>2, <1>3, <1>7, DispatchHeld
  <1>11. c.machine \in MachineType
    BY <1>2, <1>3, <1>10, RescheduleSound, NoTaskNotThread DEF Sound, Ticking
  <1> QED BY <1>1, <1>9, <1>11, ContinueTime

\* A tick.
LEMMA STickTime ==
  ASSUME SInv, DInv, Lsr = {}, STick, Elapse
  PROVE  DInv'
  <1> DEFINE m == Machine
  <1>1. PICK c \in TickCore(Core(m, sched)) : \E e \in AskPolicy(c) : Continue(e)
    BY DEF STick, Composed
  <1>2. PICK e \in AskPolicy(c) : Continue(e)
    BY <1>1
  <1>3. /\ ParamsOK /\ PolicyOK /\ Sound(m) /\ Working(m) /\ Uncharged(m, sched) /\ m.running # NoTask
        /\ policy = "EDF" /\ BCS /\ due \in [Thread -> Nat] /\ OnTime(m, sched, due)
    BY DEF SInv, IInv, PolicyOK, DInv, STick, AtRest, Machine
  <1> HIDE DEF m
  <1> DEFINE n == c.machine
             s == c.sched
  <1>4. /\ c = Core(n, s) /\ n \in TickPhases(m) /\ Ticked(n, s)
        /\ \A t \in Thread : n.state[t] # "DEFTICK_PENDING"
    BY <1>1, <1>3, TickCoreHeld
  <1>5. OnCharge(n, s, due)
    BY <1>1, <1>3, TickCoreTime
  <1>6. Ticking(n) /\ n.running # NoTask
    BY <1>3, <1>4, TickPhasesSound
  <1>7. n.running \in Thread \cup {Idle}
    BY <1>6 DEF Ticking, MachineType, Task
  <1>8. e \in AskPolicy(Core(n, s))
    BY <1>2, <1>4
  <1> HIDE DEF n, s
  <1>9. Elapsed(e.machine, e.sched, due)
    BY <1>3, <1>4, <1>5, <1>6, <1>7, <1>8, AskPolicyTime DEF Ticked
  <1>10. e.machine \in MachineType
    <2> DEFINE ticked == TRUE
    <2>1. ticked /\ ticked \in BOOLEAN
      OBVIOUS
    <2> HIDE DEF ticked
    <2>2. e.machine \in ReschedulingPoint(n, ticked)
      BY <1>3, <1>4, <1>6, <1>8, <2>1, AskPolicyHeld
    <2> QED BY <1>3, <1>4, <2>2, TickSound DEF Sound, Ticking, ticked
  <1>11. due' \in [Thread -> Nat] /\ OnTime(Machine, sched, due)'
    BY <1>2, <1>3, <1>9, <1>10, ElapseTime
  <1>12. policy' = policy /\ algorithm' = algorithm
    BY <1>2 DEF Continue, Becomes, params
  <1> QED BY <1>3, <1>11, <1>12 DEF DInv, BCS

\* Every deadline starts when its thread is pushed.
LEMMA DInitTime == DInit /\ BCS => DInv
  <1> SUFFICES ASSUME DInit, BCS PROVE DInv
    OBVIOUS
  <1>1. SInit /\ Init /\ policy = "EDF" /\ PolicyOK /\ due = VirtualDeadline
    BY DEF DInit, SInit, PolicyOK
  <1>2. PICK order \in SetToSeqs(Thread) : sched = PushAll(Edf!Empty, order)
    BY <1>1 DEF SInit
  <1>3. Held(Edf!Empty, {})
    <2> DEFINE empty == CASE policy = "RR" -> Rr!Empty
                          [] policy = "CYCLIC" -> Cyclic!Empty
                          [] policy = "EDF" -> Edf!Empty
    <2>1. Held(empty, {})
      BY <1>1, EmptyHeld
    <2> QED BY <1>1, <2>1
  <1>4. \A t \in Thread : PushAll(Edf!Empty, order).left[t] = Fresh(t, Edf!Empty.left[t])
    <2>1. {} \in SUBSET Thread /\ Thread \in SUBSET Thread /\ Thread \cap {} = {}
      OBVIOUS
    <2> QED BY <1>1, <1>3, <2>1, PushAllHeld
  <1>5. \A t \in Thread : sched.left[t] = VirtualDeadline[t]
    BY <1>2, <1>4 DEF Fresh, Edf!Empty
  <1>6. due \in [Thread -> Nat] /\ \A t \in Thread : due[t] > 0 /\ due[t] = VirtualDeadline[t]
    BY <1>1, PolicyConfiguration
  <1>7. Machine.pending = NoTask /\ \A t \in Thread : Machine.state[t] = "READY"
    BY <1>1, Configuration DEF Init, Machine, Task
  <1> QED BY <1>1, <1>5, <1>6, <1>7 DEF DInv, OnTime, Sleepless, Awake

\* Every step keeps the deadlines and the time together.
LEMMA DNextTime ==
  ASSUME Sleeps = {}, Lsr = {}, SInv, DInv, [DNext]_<<schedVars, due>>
  PROVE  DInv'
  <1> DEFINE m == Machine
  <1>1. /\ ParamsOK /\ PolicyOK /\ Sound(m) /\ Working(m) /\ AtRest(m, sched) /\ m.running = runningTask
        /\ policy = "EDF" /\ due \in [Thread -> Nat] /\ OnTime(m, sched, due) /\ m \in MachineType
    BY DEF SInv, IInv, PolicyOK, DInv, Machine, Sound, Ticking
  <1>2. CASE STick /\ Elapse
    BY <1>2, STickTime
  <1>3. CASE SHandoff /\ UNCHANGED due
    <2>1. PICK c \in Dispatch(Core(m, sched)) : Continue(c)
      BY <1>3 DEF SHandoff, Composed
    <2>2. m.running = NoTask
      BY <1>1, <1>3 DEF SHandoff
    <2> HIDE DEF m
    <2>3. OnTime(c.machine, c.sched, due)
      BY <1>1, <2>1, <2>2, DispatchTime DEF AtRest, Uncharged
    <2>4. c.machine \in Reschedule(m)
      BY <1>1, <2>1, DispatchHeld
    <2>5. c.machine \in MachineType
      BY <1>1, <2>4, RescheduleSound DEF Working, Sound, Ticking
    <2> QED BY <1>3, <2>1, <2>3, <2>5, ContinueTime
  <1>4. CASE SYield /\ UNCHANGED due
    BY <1>4, SwitchTime DEF SYield
  <1>5. CASE SThrottle /\ UNCHANGED due
    BY <1>5, SwitchTime DEF SThrottle
  <1>6. CASE SFailure /\ UNCHANGED due
    BY <1>6, SwitchTime DEF SFailure
  <1>7. ASSUME NEW v \in Vector, SExternalInterrupt(v) PROVE FALSE
    <2>1. lsrs[v] # <<>>
      BY <1>7 DEF SExternalInterrupt
    <2>2. m.lsrs[v] = <<>>
      BY <1>1, NoLsrs
    <2> QED BY <2>1, <2>2 DEF Machine
  <1>8. CASE UNCHANGED <<schedVars, due>>
    <2>1. Machine' = Machine /\ sched' = sched /\ policy' = policy /\ algorithm' = algorithm /\ due' = due
      BY <1>8 DEF schedVars, vars, params, Machine
    <2> QED BY <2>1 DEF DInv, OnTime, Sleepless, BCS
  <1>9. ~SLsrDone /\ ~(\E ticks \in Sleeps : SSleep(ticks))
    BY DEF SLsrDone
  <1> QED BY <1>2, <1>3, <1>4, <1>5, <1>6, <1>7, <1>8, <1>9 DEF DNext, STickless

\* The history variable only observes.
LEMMA DeadlinesObserve == DSpec => SSpec
  <1>1. DInit => SInit
    BY DEF DInit
  <1>2. [DNext]_<<schedVars, due>> => [SNext]_schedVars
    BY DEF DNext, SNext
  <1> QED BY <1>1, <1>2, PTL DEF DSpec, SSpec

\* The policy always knows the time to a deadline, or what will be left of it
\* when the cooldown of its thread is over.
LEMMA DeadlineInvariance ==
  ASSUME Sleeps = {}, Lsr = {}
  PROVE  DSpec /\ BCS => []DInv
  <1>1. SInv /\ DInv /\ [DNext]_<<schedVars, due>> => DInv'
    BY DNextTime
  <1> QED BY <1>1, DInitTime, DeadlinesObserve, PolicyInvariance, PTL DEF DSpec

\* With the burst-cooldown server, on a core without LSRs whose threads do not
\* sleep, the deadlines the policy compares are what time made of them: the
\* cooldown it takes off beforehand is exactly the time the thread is away.
THEOREM DeadlineTime ==
  ASSUME Sleeps = {}, Lsr = {}
  PROVE  DSpec /\ BCS => []DeadlinesAreTime
  <1>1. DInv => DeadlinesAreTime
    BY DEF DInv, OnTime, Awake, Machine, DeadlinesAreTime
  <1> QED BY <1>1, DeadlineInvariance, PTL

\* There the promise of edf.md holds, which the deferrable server breaks: the
\* thread that runs is the one whose deadline comes soonest.
THEOREM SoonestDeadline ==
  ASSUME Sleeps = {}, Lsr = {}
  PROVE  DSpec /\ BCS => []SoonestDeadlineRuns
  <1>1. SInv /\ DInv => SoonestDeadlineRuns
    <2> SUFFICES ASSUME SInv, DInv, runningTask \in Thread, NEW t \in Thread, state[t] = "READY"
                 PROVE  due[runningTask] <= due[t]
      BY DEF SoonestDeadlineRuns
    <2>1. state[runningTask] = "RUNNING"
      BY DEF SInv, IInv, Sound, Ticking, SlotsOK, Task, Machine
    <2>2. sched.left[runningTask] <= sched.left[t]
      BY <2>1 DEF SInv, DInv, AtRest, First, Ready, Machine
    <2> QED BY <2>1, <2>2 DEF DInv, OnTime, Awake, Machine
  <1> QED BY <1>1, DeadlineInvariance, DeadlinesObserve, PolicyInvariance, PTL

=============================================================================
