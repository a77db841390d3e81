----------------------------- MODULE IsrProofs -----------------------------
(***************************************************************************)
(* The lock, the task priority, the bookkeeping of ia32eIsrHandler and the *)
(* release of LSRs, for any tasks, vectors, cores and NMIs.  A handler can *)
(* be interrupted between any two of its assignments, so that what the     *)
(* per-CPU data hold is said of every prefix of the frames: it is what the *)
(* last handler in it that has set a field, and not restored it, has set   *)
(* it to.                                                                  *)
(***************************************************************************)
EXTENDS Isr, Naturals, FiniteSetTheorems, SequenceTheorems, TLAPS

-----------------------------------------------------------------------------
(***************************************************************************)
(* Mutual exclusion of the queue lock, for any number of cores. The links  *)
(* in memory, which lag behind, are tied to the order of the exchanges:    *)
(* the core at a position has found its predecessor at the tail, a         *)
(* predecessor knows its successor exactly when that has linked itself,    *)
(* and only the first node is ever unlocked.                               *)
(***************************************************************************)

LockTypeOK ==
  /\ tail \in Node \cup {None}
  /\ next \in [Node -> Node \cup {None}]
  /\ state \in [Node -> {"locked", "unlocked"}]
  /\ prev \in [Node -> Node \cup {None}]
  /\ lockPc \in [Node -> {"idle", "link", "spin", "held", "cas", "await", "unlock"}]
  /\ queue \in Seq(Node)

\* The queue holds exactly the cores that have exchanged and not left, once.
Queued ==
  /\ \A i, j \in 1..Len(queue) : queue[i] = queue[j] => i = j
  /\ \A n \in Node : lockPc[n] # "idle" <=> \E i \in 1..Len(queue) : queue[i] = n

Holding == {"held", "cas", "await", "unlock"}

\* Only the first core has the lock, or is told that it has.
FirstOnly ==
  \A i \in 1..Len(queue) :
    /\ lockPc[queue[i]] \in Holding => i = 1
    /\ state[queue[i]] = "unlocked" => i = 1
    /\ lockPc[queue[i]] = "link" => i > 1

\* The memory of the lock against the queue.
Linked ==
  /\ tail = IF queue = <<>> THEN None ELSE queue[Len(queue)]
  /\ \A i \in 2..Len(queue) : prev[queue[i]] = queue[i - 1]
  /\ \A i \in 1..Len(queue) :
       next[queue[i]] = IF i < Len(queue) /\ lockPc[queue[i + 1]] # "link"
                        THEN queue[i + 1] ELSE None
  /\ \A n \in Node : lockPc[n] = "unlock" => next[n] # None
  /\ \A n \in Node : lockPc[n] = "await" => Len(queue) > 1

LockInv == LockTypeOK /\ Queued /\ FirstOnly /\ Linked

\* Nobody is queued at first.
LEMMA LockInitInv == LockInit => LockInv
  <1> SUFFICES ASSUME LockInit PROVE LockInv
    OBVIOUS
  <1>1. Len(queue) = 0 /\ 1..Len(queue) = {} /\ 2..Len(queue) = {}
    BY DEF LockInit
  <1>2. LockTypeOK
    BY DEF LockInit, LockTypeOK
  <1> QED BY <1>1, <1>2 DEF LockInit, LockInv, Queued, FirstOnly, Linked

\* An exchange queues the core behind the others.
LEMMA ExchangeInv ==
  ASSUME LockInv, NEW n \in Node, Exchange(n)
  PROVE  LockInv'
  <1> USE NoneIsNoNode
  <1> DEFINE k == Len(queue)
  <1>1. /\ queue' \in Seq(Node) /\ k \in Nat
        /\ Len(queue') = k + 1
        /\ \A i \in 1..k : queue'[i] = queue[i] /\ queue[i] \in Node
        /\ queue'[k + 1] = n
        /\ queue' # <<>>
    BY AppendProperties, LenProperties, ElementOfSeq, EmptySeq DEF Exchange, LockInv, LockTypeOK
  <1>2. \A i \in 1..k : queue[i] # n
    BY DEF Exchange, LockInv, Queued
  <1> HIDE DEF k
  <1> DEFINE pc == IF tail = None THEN "held" ELSE "link"
  <1>3. /\ lockPc' = [lockPc EXCEPT ![n] = pc] /\ pc \in {"held", "link"}
        /\ next' = [next EXCEPT ![n] = None]
        /\ state' = [state EXCEPT ![n] = "locked"]
        /\ prev' = [prev EXCEPT ![n] = tail]
        /\ tail' = n
    BY DEF Exchange, LockGoto
  <1>4. LockTypeOK'
    BY <1>1, <1>3 DEF LockInv, LockTypeOK
  <1>5. tail = IF k = 0 THEN None ELSE queue[k]
    BY <1>1, EmptySeq DEF LockInv, Linked, LockTypeOK, k
  <1>6. pc = "held" <=> k = 0
    BY <1>1, <1>5
  <1> HIDE DEF pc
  <1>p. /\ lockPc'[n] = pc /\ next'[n] = None /\ state'[n] = "locked" /\ prev'[n] = tail
        /\ \A m \in Node \ {n} : /\ lockPc'[m] = lockPc[m] /\ next'[m] = next[m]
                                 /\ state'[m] = state[m] /\ prev'[m] = prev[m]
    BY <1>3 DEF LockInv, LockTypeOK
  <1>7. Queued'
    <2>1. ASSUME NEW i \in 1..Len(queue'), NEW j \in 1..Len(queue'), queue'[i] = queue'[j]
          PROVE  i = j
      BY <1>1, <1>2, <2>1 DEF LockInv, Queued, k
    <2>2. ASSUME NEW m \in Node
          PROVE  lockPc'[m] # "idle" <=> \E i \in 1..Len(queue') : queue'[i] = m
      <3>1. CASE m = n
        BY <1>1, <1>3, <1>p, <3>1
      <3>2. CASE m # n
        <4>1. lockPc[m] # "idle" <=> \E i \in 1..k : queue[i] = m
          BY DEF LockInv, Queued, k
        <4> QED BY <1>1, <1>p, <3>2, <4>1
      <3> QED BY <3>1, <3>2
    <2> QED BY <2>1, <2>2 DEF Queued
  <1>8. FirstOnly'
    <2> SUFFICES ASSUME NEW i \in 1..Len(queue')
                 PROVE  /\ lockPc'[queue'[i]] \in Holding => i = 1
                        /\ state'[queue'[i]] = "unlocked" => i = 1
                        /\ lockPc'[queue'[i]] = "link" => i > 1
      BY DEF FirstOnly
    <2>1. CASE i = k + 1
      BY <1>1, <1>3, <1>6, <1>p, <2>1 DEF Holding
    <2>2. CASE i \in 1..k
      BY <1>1, <1>2, <1>p, <2>2 DEF LockInv, FirstOnly, k
    <2> QED BY <1>1, <2>1, <2>2
  <1>9. Linked'
    <2>1. tail' = IF queue' = <<>> THEN None ELSE queue'[Len(queue')]
      BY <1>1, <1>3
    <2>2. ASSUME NEW i \in 2..Len(queue') PROVE prev'[queue'[i]] = queue'[i - 1]
      <3>1. CASE i = k + 1
        BY <1>1, <1>5, <1>p, <3>1
      <3>2. CASE i \in 2..k
        BY <1>1, <1>2, <1>p, <3>2 DEF LockInv, Linked, k
      <3> QED BY <1>1, <3>1, <3>2
    <2>3. ASSUME NEW i \in 1..Len(queue')
          PROVE  next'[queue'[i]] = IF i < Len(queue') /\ lockPc'[queue'[i + 1]] # "link"
                                    THEN queue'[i + 1] ELSE None
      <3>1. CASE i = k + 1
        BY <1>1, <1>p, <3>1
      <3>2. CASE i = k
        BY <1>1, <1>2, <1>3, <1>6, <1>p, <3>2 DEF LockInv, Linked, k
      <3>3. CASE i \in 1..k - 1
        BY <1>1, <1>2, <1>p, <3>3 DEF LockInv, Linked, k
      <3> QED BY <1>1, <3>1, <3>2, <3>3
    <2>4. ASSUME NEW m \in Node
          PROVE  /\ lockPc'[m] = "unlock" => next'[m] # None
                 /\ lockPc'[m] = "await" => Len(queue') > 1
      BY <1>1, <1>3, <1>p DEF LockInv, Linked, k
    <2> QED BY <2>1, <2>2, <2>3, <2>4 DEF Linked
  <1> QED BY <1>4, <1>7, <1>8, <1>9 DEF LockInv

\* A core that holds the lock is the first of the queue.
LEMMA HolderFirst ==
  ASSUME LockInv, NEW n \in Node, lockPc[n] \in Holding
  PROVE  /\ Len(queue) \in Nat \ {0} /\ queue[1] = n /\ Head(queue) = n
         /\ \A i \in 1..Len(queue) : queue[i] \in Node
  <1>1. PICK i \in 1..Len(queue) : queue[i] = n
    BY DEF LockInv, Queued, Holding
  <1>2. i = 1
    BY <1>1 DEF LockInv, FirstOnly
  <1>3. Len(queue) \in Nat /\ queue \in Seq(Node)
    BY LenProperties DEF LockInv, LockTypeOK
  <1> QED BY <1>1, <1>2, <1>3, ElementOfSeq, EmptySeq

\* A step of a queued core that changes nothing but its own program counter.
LEMMA PcStep ==
  ASSUME LockInv, NEW n \in Node, lockPc[n] \notin {"idle", "link"},
         UNCHANGED <<tail, next, state, prev, queue>>,
         NEW step \in {"spin", "held", "cas", "await", "unlock"},
         lockPc' = [lockPc EXCEPT ![n] = step],
         step \in Holding => Len(queue) \in Nat \ {0} /\ queue[1] = n,
         step = "unlock" => next[n] # None,
         step = "await" => Len(queue) > 1
  PROVE  LockInv'
  <1>1. lockPc'[n] = step /\ \A m \in Node \ {n} : lockPc'[m] = lockPc[m]
    BY DEF LockInv, LockTypeOK
  <1>2. /\ queue \in Seq(Node) /\ Len(queue) \in Nat
        /\ \A i \in 1..Len(queue) : queue[i] \in Node
    BY LenProperties, ElementOfSeq DEF LockInv, LockTypeOK
  <1>3. LockTypeOK'
    BY DEF LockInv, LockTypeOK
  <1>4. Queued'
    <2>1. ASSUME NEW m \in Node
          PROVE  lockPc'[m] # "idle" <=> \E i \in 1..Len(queue) : queue[i] = m
      BY <1>1 DEF LockInv, Queued
    <2> QED BY <2>1 DEF LockInv, Queued
  <1>5. FirstOnly'
    <2> SUFFICES ASSUME NEW i \in 1..Len(queue)
                 PROVE  /\ lockPc'[queue[i]] \in Holding => i = 1
                        /\ state[queue[i]] = "unlocked" => i = 1
                        /\ lockPc'[queue[i]] = "link" => i > 1
      BY DEF FirstOnly
    <2>1. CASE queue[i] = n
      <3>1. step \in Holding => i = 1
        BY <1>2, <2>1 DEF LockInv, Queued
      <3> QED BY <1>1, <2>1, <3>1 DEF LockInv, FirstOnly
    <2>2. CASE queue[i] # n
      BY <1>1, <1>2, <2>2 DEF LockInv, FirstOnly
    <2> QED BY <2>1, <2>2
  <1>6. Linked'
    <2>1. \A m \in Node : lockPc'[m] = "link" <=> lockPc[m] = "link"
      BY <1>1
    <2>2. ASSUME NEW i \in 1..Len(queue)
          PROVE  next[queue[i]] = IF i < Len(queue) /\ lockPc'[queue[i + 1]] # "link"
                                  THEN queue[i + 1] ELSE None
      BY <1>2, <2>1 DEF LockInv, Linked
    <2>3. ASSUME NEW m \in Node
          PROVE  /\ lockPc'[m] = "unlock" => next[m] # None
                 /\ lockPc'[m] = "await" => Len(queue) > 1
      BY <1>1 DEF LockInv, Linked
    <2> QED BY <2>2, <2>3 DEF LockInv, Linked
  <1> QED BY <1>3, <1>4, <1>5, <1>6 DEF LockInv

\* A link tells the predecessor, which is still queued, of its successor.
LEMMA LinkInv ==
  ASSUME LockInv, NEW n \in Node, Link(n)
  PROVE  LockInv'
  <1> USE NoneIsNoNode
  <1>1. /\ queue \in Seq(Node) /\ Len(queue) \in Nat
        /\ \A i \in 1..Len(queue) : queue[i] \in Node
    BY LenProperties, ElementOfSeq DEF LockInv, LockTypeOK
  <1>2. PICK k \in 1..Len(queue) : queue[k] = n
    BY DEF Link, LockInv, Queued
  <1>3. k > 1 /\ prev[n] = queue[k - 1] /\ queue[k - 1] \in Node /\ queue[k - 1] # n
    BY <1>1, <1>2 DEF Link, LockInv, FirstOnly, Linked, Queued
  <1>4. /\ next' = [next EXCEPT ![queue[k - 1]] = n]
        /\ lockPc' = [lockPc EXCEPT ![n] = "spin"]
        /\ lockPc[n] = "link"
        /\ UNCHANGED <<tail, state, prev, queue>>
    BY <1>3 DEF Link, LockGoto
  <1>5. /\ lockPc'[n] = "spin" /\ \A m \in Node \ {n} : lockPc'[m] = lockPc[m]
        /\ next'[queue[k - 1]] = n
        /\ \A m \in Node \ {queue[k - 1]} : next'[m] = next[m]
    BY <1>3, <1>4 DEF LockInv, LockTypeOK
  <1>6. LockTypeOK'
    BY <1>3, <1>4 DEF LockInv, LockTypeOK
  <1>7. Queued'
    <2>1. ASSUME NEW m \in Node
          PROVE  lockPc'[m] # "idle" <=> \E i \in 1..Len(queue) : queue[i] = m
      BY <1>4, <1>5 DEF LockInv, Queued
    <2> QED BY <1>4, <2>1 DEF LockInv, Queued
  <1>8. FirstOnly'
    <2> SUFFICES ASSUME NEW i \in 1..Len(queue)
                 PROVE  /\ lockPc'[queue[i]] \in Holding => i = 1
                        /\ state[queue[i]] = "unlocked" => i = 1
                        /\ lockPc'[queue[i]] = "link" => i > 1
      BY <1>4 DEF FirstOnly
    <2> QED BY <1>1, <1>4, <1>5 DEF LockInv, FirstOnly, Holding
  <1>9. Linked'
    <2>1. ASSUME NEW i \in 1..Len(queue)
          PROVE  next'[queue[i]] = IF i < Len(queue) /\ lockPc'[queue[i + 1]] # "link"
                                   THEN queue[i + 1] ELSE None
      <3>1. CASE i = k - 1
        BY <1>1, <1>2, <1>3, <1>5, <3>1
      <3>2. CASE i # k - 1
        <4>1. queue[i] # queue[k - 1] /\ (i < Len(queue) => queue[i + 1] # n)
          BY <1>1, <1>2, <1>3, <3>2 DEF LockInv, Queued
        <4> QED BY <1>1, <1>5, <4>1 DEF LockInv, Linked
      <3> QED BY <3>1, <3>2
    <2>2. ASSUME NEW m \in Node
          PROVE  /\ lockPc'[m] = "unlock" => next'[m] # None
                 /\ lockPc'[m] = "await" => Len(queue) > 1
      BY <1>4, <1>5 DEF LockInv, Linked
    <2> QED BY <1>4, <2>1, <2>2 DEF LockInv, Linked
  <1> QED BY <1>6, <1>7, <1>8, <1>9 DEF LockInv

\* A successful compare and exchange leaves nobody behind.
LEMMA LastLeavesInv ==
  ASSUME LockInv, NEW n \in Node, lockPc[n] = "cas", tail = n, LockGoto(n, "idle"),
         tail' = None, queue' = Tail(queue), UNCHANGED <<next, state, prev>>
  PROVE  LockInv'
  <1>1. /\ Len(queue) \in Nat \ {0} /\ queue[1] = n
        /\ \A i \in 1..Len(queue) : queue[i] \in Node
    BY HolderFirst DEF Holding
  <1>2. queue # <<>> /\ queue \in Seq(Node)
    BY <1>1, EmptySeq DEF LockInv, LockTypeOK
  <1>3. Len(queue) = 1
    <2>1. queue[Len(queue)] = n
      BY <1>2 DEF LockInv, Linked
    <2>2. 1 \in 1..Len(queue) /\ Len(queue) \in 1..Len(queue)
      BY <1>1
    <2> QED BY <1>1, <2>1, <2>2 DEF LockInv, Queued
  <1>4. queue' \in Seq(Node) /\ Len(queue') = 0 /\ queue' = <<>>
    BY <1>2, <1>3, HeadTailProperties, EmptySeq
  <1>5. /\ lockPc' = [lockPc EXCEPT ![n] = "idle"]
        /\ lockPc'[n] = "idle" /\ \A m \in Node \ {n} : lockPc'[m] = lockPc[m]
    BY DEF LockGoto, LockInv, LockTypeOK
  <1>6. \A m \in Node : lockPc'[m] = "idle"
    BY <1>1, <1>3, <1>5 DEF LockInv, Queued
  <1>7. LockTypeOK'
    BY <1>4, <1>5 DEF LockInv, LockTypeOK
  <1> QED BY <1>4, <1>6, <1>7 DEF LockInv, Queued, FirstOnly, Linked

\* The first core leaves to its successor, which has linked itself.
LEMMA UnlockInv ==
  ASSUME LockInv, NEW n \in Node, Unlock(n)
  PROVE  LockInv'
  <1> USE NoneIsNoNode
  <1>1. /\ Len(queue) \in Nat \ {0} /\ queue[1] = n
        /\ \A i \in 1..Len(queue) : queue[i] \in Node
    BY HolderFirst DEF Unlock, Holding
  <1>2. Len(queue) > 1 /\ next[n] = queue[2] /\ lockPc[queue[2]] # "link"
    BY <1>1 DEF Unlock, LockInv, Linked
  <1>3. queue # <<>> /\ queue \in Seq(Node)
    BY <1>1, EmptySeq DEF LockInv, LockTypeOK
  <1>4. /\ queue' \in Seq(Node) /\ Len(queue') = Len(queue) - 1
        /\ \A i \in 1..Len(queue) - 1 : queue'[i] = queue[i + 1] /\ queue'[i] \in Node
    BY <1>1, <1>3, HeadTailProperties, ElementOfSeq DEF Unlock
  <1>5. /\ lockPc' = [lockPc EXCEPT ![n] = "idle"]
        /\ state' = [state EXCEPT ![queue[2]] = "unlocked"]
        /\ UNCHANGED <<tail, next, prev>>
    BY <1>2 DEF Unlock, LockGoto
  <1>6. /\ lockPc'[n] = "idle" /\ \A m \in Node \ {n} : lockPc'[m] = lockPc[m]
        /\ \A m \in Node \ {queue[2]} : state'[m] = state[m]
    BY <1>5 DEF LockInv, LockTypeOK
  <1>7. \A i \in 2..Len(queue) : queue[i] # n
    BY <1>1 DEF LockInv, Queued
  <1>8. LockTypeOK'
    BY <1>1, <1>2, <1>4, <1>5 DEF LockInv, LockTypeOK
  <1>9. Queued'
    <2>1. ASSUME NEW i \in 1..Len(queue'), NEW j \in 1..Len(queue'), queue'[i] = queue'[j]
          PROVE  i = j
      <3>1. i + 1 \in 1..Len(queue) /\ j + 1 \in 1..Len(queue)
        BY <1>1, <1>4
      <3>2. queue[i + 1] = queue[j + 1]
        BY <1>1, <1>4, <2>1
      <3>3. i + 1 = j + 1
        BY <3>1, <3>2 DEF LockInv, Queued
      <3> QED BY <3>3
    <2>2. ASSUME NEW m \in Node
          PROVE  lockPc'[m] # "idle" <=> \E i \in 1..Len(queue') : queue'[i] = m
      <3>1. CASE m = n
        <4>1. ASSUME NEW i \in 1..Len(queue') PROVE queue'[i] # m
          <5>1. i + 1 \in 2..Len(queue) /\ queue'[i] = queue[i + 1]
            BY <1>1, <1>4
          <5> QED BY <1>7, <3>1, <5>1
        <4> QED BY <1>6, <3>1, <4>1
      <3>2. CASE m # n
        <4>1. lockPc[m] # "idle" <=> \E i \in 1..Len(queue) : queue[i] = m
          BY DEF LockInv, Queued
        <4>2. (\E i \in 1..Len(queue) : queue[i] = m) <=> \E i \in 1..Len(queue') : queue'[i] = m
          <5>1. ASSUME NEW i \in 1..Len(queue), queue[i] = m
                PROVE  \E j \in 1..Len(queue') : queue'[j] = m
            <6>1. i - 1 \in 1..Len(queue') /\ queue'[i - 1] = m
              BY <1>1, <1>4, <3>2, <5>1
            <6> QED BY <6>1
          <5>2. ASSUME NEW j \in 1..Len(queue'), queue'[j] = m
                PROVE  \E i \in 1..Len(queue) : queue[i] = m
            <6>1. j + 1 \in 1..Len(queue) /\ queue[j + 1] = m
              BY <1>1, <1>4, <5>2
            <6> QED BY <6>1
          <5> QED BY <5>1, <5>2
        <4> QED BY <1>6, <3>2, <4>1, <4>2
      <3> QED BY <3>1, <3>2
    <2> QED BY <2>1, <2>2 DEF Queued
  <1>10. FirstOnly'
    <2> SUFFICES ASSUME NEW i \in 1..Len(queue')
                 PROVE  /\ lockPc'[queue'[i]] \in Holding => i = 1
                        /\ state'[queue'[i]] = "unlocked" => i = 1
                        /\ lockPc'[queue'[i]] = "link" => i > 1
      BY DEF FirstOnly
    <2>1. /\ queue'[i] = queue[i + 1] /\ i + 1 \in 2..Len(queue)
          /\ lockPc'[queue'[i]] = lockPc[queue[i + 1]]
      BY <1>1, <1>4, <1>6, <1>7
    <2>2. lockPc[queue[i + 1]] \notin Holding
      BY <1>1, <2>1 DEF LockInv, FirstOnly
    <2>3. state'[queue'[i]] = "unlocked" => i = 1
      <3>1. CASE i = 1
        BY <3>1
      <3>2. CASE i # 1
        <4>1. queue[i + 1] # queue[2]
          BY <1>1, <1>2, <2>1, <3>2 DEF LockInv, Queued
        <4> QED BY <1>1, <1>6, <2>1, <4>1 DEF LockInv, FirstOnly
      <3> QED BY <3>1, <3>2
    <2>4. lockPc[queue[i + 1]] = "link" => i > 1
      BY <1>1, <1>2, <2>1
    <2> QED BY <2>1, <2>2, <2>3, <2>4
  <1>11. Linked'
    <2>1. tail' = IF queue' = <<>> THEN None ELSE queue'[Len(queue')]
      BY <1>1, <1>2, <1>3, <1>4, <1>5, EmptySeq DEF LockInv, Linked
    <2>2. ASSUME NEW i \in 2..Len(queue') PROVE prev'[queue'[i]] = queue'[i - 1]
      <3> DEFINE j == i - 1
      <3>0. j \in 1..Len(queue) - 1 /\ i \in 1..Len(queue) - 1 /\ i = j + 1
        BY <1>1, <1>4
      <3> HIDE DEF j
      <3>1. queue'[i] = queue[i + 1] /\ queue'[j] = queue[i] /\ i + 1 \in 2..Len(queue)
        BY <1>1, <1>4, <3>0
      <3>2. prev[queue[i + 1]] = queue[(i + 1) - 1]
        BY <3>1 DEF LockInv, Linked
      <3> QED BY <1>1, <1>5, <3>0, <3>1, <3>2
    <2>3. ASSUME NEW i \in 1..Len(queue')
          PROVE  next'[queue'[i]] = IF i < Len(queue') /\ lockPc'[queue'[i + 1]] # "link"
                                    THEN queue'[i + 1] ELSE None
      <3>1. CASE i < Len(queue')
        <4>1. queue'[i] = queue[i + 1] /\ queue'[i + 1] = queue[i + 2] /\ i + 2 \in 2..Len(queue)
          BY <1>1, <1>4, <3>1
        <4>2. lockPc'[queue[i + 2]] = lockPc[queue[i + 2]]
          BY <1>1, <1>6, <1>7, <4>1
        <4>3. next[queue[i + 1]] = IF lockPc[queue[i + 2]] # "link" THEN queue[i + 2] ELSE None
          BY <1>1, <4>1 DEF LockInv, Linked
        <4> QED BY <1>5, <3>1, <4>1, <4>2, <4>3
      <3>2. CASE i = Len(queue')
        <4>1. queue'[i] = queue[Len(queue)]
          BY <1>1, <1>4, <3>2
        <4>2. next[queue[Len(queue)]] = None
          BY <1>1 DEF LockInv, Linked
        <4> QED BY <1>1, <1>4, <1>5, <3>2, <4>1, <4>2
      <3> QED BY <1>1, <1>4, <3>1, <3>2
    <2>4. ASSUME NEW m \in Node
          PROVE  /\ lockPc'[m] = "unlock" => next'[m] # None
                 /\ lockPc'[m] = "await" => Len(queue') > 1
      <3>1. m # n => lockPc[m] \notin Holding
        BY <1>1, HolderFirst
      <3> QED BY <1>5, <1>6, <3>1 DEF Holding
    <2> QED BY <2>1, <2>2, <2>3, <2>4 DEF Linked
  <1> QED BY <1>8, <1>9, <1>10, <1>11 DEF LockInv

\* Every step of every core keeps the invariant.
LEMMA LockNextInv == LockInv /\ [LockNext]_lockVars => LockInv'
  <1> SUFFICES ASSUME LockInv, [LockNext]_lockVars PROVE LockInv'
    OBVIOUS
  <1>1. CASE UNCHANGED lockVars
    BY <1>1 DEF lockVars, LockInv, LockTypeOK, Queued, FirstOnly, Linked
  <1>2. CASE LockNext
    <2> PICK n \in Node : Exchange(n) \/ Link(n) \/ Spin(n) \/ Release(n)
      BY <1>2 DEF LockNext
    <2>1. CASE Exchange(n)
      BY <2>1, ExchangeInv
    <2>2. CASE Link(n)
      BY <2>2, LinkInv
    <2>3. CASE Spin(n)
      <3>1. PICK i \in 1..Len(queue) : queue[i] = n
        BY <2>3 DEF Spin, LockInv, Queued
      <3>2. i = 1 /\ Len(queue) \in Nat
        BY <2>3, <3>1, LenProperties DEF Spin, LockInv, FirstOnly, LockTypeOK
      <3>3. Len(queue) \in Nat \ {0} /\ queue[1] = n
        BY <3>1, <3>2
      <3> QED BY <2>3, <3>3, PcStep DEF Spin, LockGoto, Holding
    <2>4. CASE ReadNext(n)
      <3>1. Len(queue) \in Nat \ {0} /\ queue[1] = n
        BY <2>4, HolderFirst DEF ReadNext, Holding
      <3>2. CASE next[n] = None
        BY <2>4, <3>1, <3>2, PcStep DEF ReadNext, LockGoto
      <3>3. CASE next[n] # None
        BY <2>4, <3>1, <3>3, PcStep DEF ReadNext, LockGoto
      <3> QED BY <3>2, <3>3
    <2>5. CASE CompareExchange(n)
      <3>1. Len(queue) \in Nat \ {0} /\ queue[1] = n
        BY <2>5, HolderFirst DEF CompareExchange, Holding
      <3>2. CASE tail = n
        BY <2>5, <3>2, LastLeavesInv DEF CompareExchange
      <3>3. CASE tail # n
        <4>1. Len(queue) > 1
          BY <3>1, <3>3, EmptySeq DEF LockInv, Linked
        <4> QED BY <2>5, <3>1, <3>3, <4>1, PcStep DEF CompareExchange, LockGoto
      <3> QED BY <3>2, <3>3
    <2>6. CASE AwaitNext(n)
      <3>1. Len(queue) \in Nat \ {0} /\ queue[1] = n
        BY <2>6, HolderFirst DEF AwaitNext, Holding
      <3> QED BY <2>6, <3>1, PcStep DEF AwaitNext, LockGoto
    <2>7. CASE Unlock(n)
      BY <2>7, UnlockInv
    <2> QED BY <2>1, <2>2, <2>3, <2>4, <2>5, <2>6, <2>7 DEF Release
  <1> QED BY <1>1, <1>2

\* The invariant says that a holder is the first of the queue.
LEMMA LockInvExcludes == LockInv => MutualExclusion
  <1> SUFFICES ASSUME LockInv, NEW n \in Node, Holds(n)
               PROVE  queue # <<>> /\ n = Head(queue)
    BY DEF MutualExclusion
  <1> QED BY HolderFirst, EmptySeq DEF Holds, Holding

\* At most one core holds the lock at any time, in the order of their
\* exchanges, however many cores compete and however late they link themselves
\* (__mcsAcquire, __mcsRelease).
THEOREM LockExcludes == LockSpec => []MutualExclusion
  <1>1. LockInit => LockInv
    BY LockInitInv
  <1>2. LockInv /\ [LockNext]_lockVars => LockInv'
    BY LockNextInv
  <1>3. LockInv => MutualExclusion
    BY LockInvExcludes
  <1> QED BY <1>1, <1>2, <1>3, PTL DEF LockSpec

-----------------------------------------------------------------------------
(* The task priority register, for any set of tasks and any priorities.    *)
(* The three properties of Tpr are inductive together: the exactness of    *)
(* the counters is what makes a reload find the highest priority, and what *)
(* makes it unnecessary everywhere else.                                   *)

TasksAt(p, S) == {t \in S : TaskTpr[t] = p}

TprInv == TypeOK /\ CountsAreExact /\ TprIsHighest

\* Any set of activated tasks can be counted.
LEMMA TasksAtFinite ==
  ASSUME NEW S, S \subseteq Task, NEW p
  PROVE  IsFiniteSet(TasksAt(p, S)) /\ Cardinality(TasksAt(p, S)) \in Nat
  <1>1. TasksAt(p, S) \subseteq Task
    BY DEF TasksAt
  <1>2. IsFiniteSet(TasksAt(p, S))
    BY <1>1, Priorities, FS_Subset
  <1> QED BY <1>2, FS_CardinalityType

\* A counter is positive exactly when some task has its priority.
LEMMA CountPositive ==
  ASSUME NEW S, S \subseteq Task, NEW p
  PROVE  Cardinality(TasksAt(p, S)) > 0 <=> \E t \in S : TaskTpr[t] = p
  <1>1. IsFiniteSet(TasksAt(p, S)) /\ Cardinality(TasksAt(p, S)) \in Nat
    BY TasksAtFinite
  <1>2. Cardinality(TasksAt(p, S)) = 0 <=> TasksAt(p, S) = {}
    BY <1>1, FS_EmptySet
  <1> QED BY <1>1, <1>2 DEF TasksAt

\* A reload from exact counters loads the highest priority.
LEMMA ReloadIsHighest ==
  ASSUME NEW S, S \subseteq Task, NEW count, NEW p \in Prio,
         count \in [Prio -> Nat],
         \A q \in Prio : count[q] = Cardinality(TasksAt(q, S)),
         ReloadTpr(count, p)
  PROVE  /\ \A t \in S : TaskTpr[t] <= p
         /\ p = 1 \/ \E t \in S : TaskTpr[t] = p
  <1>1. \A q \in Prio : count[q] > 0 <=> \E t \in S : TaskTpr[t] = q
    BY CountPositive
  <1>2. \A t \in S : TaskTpr[t] \in Prio /\ count[TaskTpr[t]] > 0
    BY <1>1, Priorities DEF Prio
  <1>3. CASE count[p] > 0 /\ \A q \in Prio : q > p => count[q] = 0
    <2>1. ASSUME NEW t \in S PROVE TaskTpr[t] <= p
      BY <1>2, <1>3, <2>1, Priorities DEF Prio
    <2> QED BY <1>1, <1>3, <2>1
  <1>4. CASE p = 1 /\ \A q \in Prio : count[q] = 0
    BY <1>2, <1>4, Priorities DEF Prio
  <1> QED BY <1>3, <1>4 DEF ReloadTpr

\* Nothing is counted and nothing loaded before the plugins run.
LEMMA TprInitInv == Init => TprInv
  <1> SUFFICES ASSUME Init PROVE TprInv
    OBVIOUS
  <1>1. TypeOK
    BY Priorities DEF Init, TypeOK, Prio
  <1>2. CountsAreExact
    <2>1. \A p \in Prio : {t \in activated : TaskTpr[t] = p} = {}
      BY DEF Init
    <2> QED BY <2>1, FS_EmptySet DEF Init, CountsAreExact, Prio
  <1> QED BY <1>1, <1>2 DEF TprInv, TprIsHighest, Init

\* Reporting a task active keeps the counters exact and the register highest.
LEMMA ActivationInv ==
  ASSUME TprInv, NEW t \in Task, CallbackActivation(t)
  PROVE  TprInv'
  <1> USE DEF TprInv, TypeOK, CallbackActivation
  <1>0. TaskTpr[t] \in Prio
    BY Priorities DEF Prio
  <1>1. TypeOK'
    BY <1>0 DEF Prio
  <1>2. ASSUME NEW p \in Prio
        PROVE  tprCount'[p] = Cardinality(TasksAt(p, activated'))
    <2>1. IsFiniteSet(TasksAt(p, activated)) /\ Cardinality(TasksAt(p, activated)) \in Nat
      BY TasksAtFinite
    <2>2. tprCount[p] = Cardinality(TasksAt(p, activated))
      BY DEF CountsAreExact, TasksAt
    <2>3. CASE TaskTpr[t] = p
      <3>1. TasksAt(p, activated') = TasksAt(p, activated) \cup {t} /\ t \notin TasksAt(p, activated)
        BY <2>3 DEF TasksAt
      <3>2. Cardinality(TasksAt(p, activated')) = Cardinality(TasksAt(p, activated)) + 1
        BY <2>1, <3>1, FS_AddElement
      <3> QED BY <2>2, <2>3, <3>2, <1>0
    <2>4. CASE TaskTpr[t] # p
      <3>1. TasksAt(p, activated') = TasksAt(p, activated)
        BY <2>4 DEF TasksAt
      <3> QED BY <2>2, <2>4, <3>1, <1>0
    <2> QED BY <2>3, <2>4
  <1>3. CountsAreExact'
    BY <1>2 DEF CountsAreExact, TasksAt
  <1>4. TprIsHighest'
    <2> SUFFICES ASSUME handoffDone
                 PROVE  /\ \A u \in activated' : TaskTpr[u] <= tpr'
                        /\ tpr' = 1 \/ \E u \in activated' : TaskTpr[u] = tpr'
      BY DEF TprIsHighest
    <2>1. CASE TaskTpr[t] > tpr
      <3>1. tpr' \in Prio /\ ReloadTpr(tprCount', tpr')
        BY <2>1
      <3>2. \A p \in Prio : tprCount'[p] = Cardinality(TasksAt(p, activated'))
        BY <1>2
      <3>3. tprCount' \in [Prio -> Nat] /\ activated' \subseteq Task
        BY <1>1
      <3> HIDE DEF TprInv, TypeOK, CallbackActivation
      <3> QED BY <3>1, <3>2, <3>3, ReloadIsHighest
    <2>2. CASE ~(TaskTpr[t] > tpr)
      <3>1. tpr' = tpr /\ TaskTpr[t] <= tpr
        BY <2>2, <1>0 DEF Prio
      <3> QED BY <3>1 DEF TprIsHighest
    <2> QED BY <2>1, <2>2
  <1> QED BY <1>1, <1>3, <1>4

\* So does reporting that it no longer is: unless the last task of the top
\* priority goes, the register may stay.
LEMMA ResponseInv ==
  ASSUME TprInv, NEW t \in Task, CallbackResponse(t)
  PROVE  TprInv'
  <1> USE DEF TprInv, TypeOK, CallbackResponse
  <1>0. TaskTpr[t] \in Prio
    BY Priorities DEF Prio
  <1>2. ASSUME NEW p \in Prio
        PROVE  tprCount'[p] = Cardinality(TasksAt(p, activated')) /\ tprCount'[p] \in Nat
    <2>1. IsFiniteSet(TasksAt(p, activated)) /\ Cardinality(TasksAt(p, activated)) \in Nat
      BY TasksAtFinite
    <2>2. tprCount[p] = Cardinality(TasksAt(p, activated))
      BY DEF CountsAreExact, TasksAt
    <2>3. CASE TaskTpr[t] = p
      <3>1. TasksAt(p, activated') = TasksAt(p, activated) \ {t} /\ t \in TasksAt(p, activated)
        BY <2>3 DEF TasksAt
      <3>2. Cardinality(TasksAt(p, activated) \ {t}) = Cardinality(TasksAt(p, activated)) - 1
        BY <2>1, <3>1, FS_RemoveElement
      <3>3. Cardinality(TasksAt(p, activated)) > 0
        BY <2>3, CountPositive
      <3>4. tprCount'[p] = tprCount[p] - 1
        BY <2>3, <1>0
      <3> HIDE DEF TprInv, TypeOK, CallbackResponse
      <3> QED BY <2>1, <2>2, <3>1, <3>2, <3>3, <3>4
    <2>4. CASE TaskTpr[t] # p
      <3>1. TasksAt(p, activated') = TasksAt(p, activated)
        BY <2>4 DEF TasksAt
      <3> QED BY <2>1, <2>2, <2>4, <3>1, <1>0
    <2> QED BY <2>3, <2>4
  <1>1. TypeOK'
    BY <1>0, <1>2 DEF Prio
  <1>3. CountsAreExact'
    BY <1>2 DEF CountsAreExact, TasksAt
  <1>4. TprIsHighest'
    <2> SUFFICES /\ \A u \in activated' : TaskTpr[u] <= tpr'
                 /\ tpr' = 1 \/ \E u \in activated' : TaskTpr[u] = tpr'
      BY DEF TprIsHighest
    <2>1. CASE TaskTpr[t] = tpr /\ tprCount'[TaskTpr[t]] = 0
      <3>1. tpr' \in Prio /\ ReloadTpr(tprCount', tpr')
        BY <2>1
      <3>2. \A p \in Prio : tprCount'[p] = Cardinality(TasksAt(p, activated'))
        BY <1>2
      <3>3. tprCount' \in [Prio -> Nat] /\ activated' \subseteq Task
        BY <1>1
      <3> HIDE DEF TprInv, TypeOK, CallbackResponse
      <3> QED BY <3>1, <3>2, <3>3, ReloadIsHighest
    <2>2. CASE TaskTpr[t] = tpr /\ tprCount'[TaskTpr[t]] # 0
      <3>1. tpr' = tpr
        BY <2>2
      <3>2. \E u \in activated' : TaskTpr[u] = tpr
        BY <1>0, <1>1, <1>2, <2>2, CountPositive
      <3> QED BY <3>1, <3>2 DEF TprIsHighest
    <2>3. CASE TaskTpr[t] # tpr
      <3>1. tpr' = tpr
        BY <2>3
      <3> QED BY <2>3, <3>1 DEF TprIsHighest
    <2> QED BY <2>1, <2>2, <2>3
  <1> QED BY <1>1, <1>3, <1>4

\* The handoff loads the register from counters that are exact.
LEMMA HandoffInv ==
  ASSUME TprInv, CallbackCpuHandoff
  PROVE  TprInv'
  <1> USE DEF TprInv, TypeOK, CallbackCpuHandoff
  <1>1. TypeOK' /\ CountsAreExact'
    BY DEF CountsAreExact
  <1>2. \A p \in Prio : tprCount[p] = Cardinality(TasksAt(p, activated))
    BY DEF CountsAreExact, TasksAt
  <1>3. /\ \A u \in activated : TaskTpr[u] <= tpr'
        /\ tpr' = 1 \/ \E u \in activated : TaskTpr[u] = tpr'
    BY <1>2, ReloadIsHighest
  <1> QED BY <1>1, <1>3 DEF TprIsHighest

\* Every step of the specification preserves the invariant.
LEMMA TprNextInv == TprInv /\ [Next]_vars => TprInv'
  <1> SUFFICES ASSUME TprInv, [Next]_vars PROVE TprInv'
    OBVIOUS
  <1>1. ASSUME NEW t \in Task, CallbackActivation(t) PROVE TprInv'
    BY <1>1, ActivationInv
  <1>2. ASSUME NEW t \in Task, CallbackResponse(t) PROVE TprInv'
    BY <1>2, ResponseInv
  <1>3. CASE PluginsDone
    BY <1>3 DEF PluginsDone, TprInv, TypeOK, CountsAreExact, TprIsHighest
  <1>4. CASE CallbackCpuHandoff
    BY <1>4, HandoffInv
  <1>5. CASE UNCHANGED vars
    BY <1>5 DEF vars, TprInv, TypeOK, CountsAreExact, TprIsHighest
  <1> QED BY <1>1, <1>2, <1>3, <1>4, <1>5 DEF Next

\* Every reachable state is well typed.
THEOREM TprTypeCorrect == Spec => []TypeOK
  <1>1. TprInv => TypeOK
    BY DEF TprInv
  <1> QED BY TprInitInv, TprNextInv, <1>1, PTL DEF Spec

\* The counters of ia32eCallbackActivation and ia32eCallbackResponse never
\* drift from the tasks they count.
THEOREM CountsCorrect == Spec => []CountsAreExact
  <1>1. TprInv => CountsAreExact
    BY DEF TprInv
  <1> QED BY TprInitInv, TprNextInv, <1>1, PTL DEF Spec

\* From the handoff on the register holds the highest priority of a
\* schedulable task (thread.md), on any core with any tasks.
THEOREM TprCorrect == Spec => []TprIsHighest
  <1>1. TprInv => TprIsHighest
    BY DEF TprInv
  <1> QED BY TprInitInv, TprNextInv, <1>1, PTL DEF Spec

-----------------------------------------------------------------------------
(* The handlers under way.                                                 *)

\* the steps of a handler at which it has set a field and not restored it
InnerSteps == {"main", "ticks", "eoi", "restore inIsr", "halted"}
IsrSet == {"set external", "set frame", "set top"} \cup InnerSteps
ExtSet == {"set frame", "set top", "restore external"} \cup InnerSteps
FrameSet == {"set top", "restore external", "restore frame"} \cup InnerSteps
TopSet == {"restore external", "restore frame", "restore top"} \cup InnerSteps
EarlySteps == {"read", "set inIsr", "set external", "set frame", "set top"}
Accepted == EarlySteps \cup {"main", "eoi"}
Steps == EarlySteps \cup TopSet

Vectors2 == Line \cup {KFakeIsr, Spurious, NmiVector, UserException, KernelException}
Frame == [vector : Vectors2, step : Steps, wasInIsr : BOOLEAN, wasExternal : BOOLEAN,
          external : BOOLEAN, oldFrame : Nat]

\* what the first n of the frames f have left in inIsr, external and
\* currentFrame
Inside(f, n) == \E j \in 1..n : f[j].step \in IsrSet
ExternalAt(f, n) ==
  \E j \in 1..n : /\ f[j].step \in ExtSet /\ f[j].external
                  /\ \A k \in j + 1..n : f[k].step \notin ExtSet
FrameAt(f, n, c) ==
  /\ c \in 0..n
  /\ c > 0 => f[c].step \in FrameSet
  /\ \A k \in c + 1..n : f[k].step \notin FrameSet

FrameTypes ==
  /\ frames \in Seq(Frame)
  /\ inIsr \in BOOLEAN /\ external \in BOOLEAN /\ currentFrame \in Nat /\ topFrame \in Nat

\* Only NMIs and exceptions of the kernel nest, and what a step is for.
Kinds ==
  \A i \in 1..Len(frames) :
    /\ i > 1 => frames[i].vector \in {NmiVector, KernelException}
    /\ frames[i].step = "ticks" => frames[i].vector \in {KFakeIsr, UserException}
    /\ frames[i].step = "halted" => frames[i].vector = KernelException

Current ==
  /\ inIsr <=> Inside(frames, Len(frames))
  /\ external <=> ExternalAt(frames, Len(frames))
  /\ FrameAt(frames, Len(frames), currentFrame)

Saved ==
  \A i \in 1..Len(frames) : frames[i].step # "read" =>
    /\ frames[i].wasInIsr <=> Inside(frames, i - 1)
    /\ frames[i].wasExternal <=> ExternalAt(frames, i - 1)
    /\ FrameAt(frames, i - 1, frames[i].oldFrame)
    /\ frames[i].external <=> frames[i].vector \in Line

TopIs ==
  /\ topFrame > 0 => /\ topFrame <= Len(frames)
                     /\ frames[topFrame].step \in TopSet
                     /\ ~frames[topFrame].wasInIsr
  /\ \A i \in 1..Len(frames) :
       frames[i].step \in InnerSteps /\ ~frames[i].wasInIsr => topFrame = i

\* An interrupt of a device or another core comes only when no handler runs.
InService ==
  apicIsr = {v \in Line : frames # <<>> /\ frames[1].vector = v /\ frames[1].step \in Accepted}

\* the LSRs that wait, and those an interrupt under way has been accepted for
Waiting ==
  /\ lsrs \in [Line -> SUBSET Lsr]
  /\ \A v \in Line : \A l \in lsrs[v] : LsrVector[l] = v /\ l \notin activated
  /\ ~handoffDone => activated \cap Lsr = {}

AcceptedFor ==
  frames # <<>> /\ frames[1].vector \in Line \ {KEvent} /\ frames[1].step \in EarlySteps =>
    \A l \in Lsr : TaskTpr[l] = Class(frames[1].vector) => l \notin activated

Book == FrameTypes /\ Kinds /\ Current /\ Saved /\ TopIs

-----------------------------------------------------------------------------
(* Frames.                                                                 *)

\* What prefixes say depends on nothing behind them.
LEMMA Lower ==
  ASSUME NEW f, NEW g, NEW n \in Nat, \A k \in 1..n : g[k] = f[k]
  PROVE  \A m \in 0..n : /\ Inside(g, m) <=> Inside(f, m)
                         /\ ExternalAt(g, m) <=> ExternalAt(f, m)
                         /\ \A c : FrameAt(g, m, c) <=> FrameAt(f, m, c)
  <1> TAKE m \in 0..n
  <1>0. \A k \in 1..m : g[k] = f[k]
    OBVIOUS
  <1>1. Inside(g, m) <=> Inside(f, m)
    BY <1>0 DEF Inside
  <1>2. ExternalAt(g, m) <=> ExternalAt(f, m)
    <2>1. ASSUME NEW j \in 1..m PROVE \A k \in j + 1..m : g[k] = f[k]
      BY <1>0
    <2> QED BY <1>0, <2>1 DEF ExternalAt
  <1>3. ASSUME NEW c PROVE FrameAt(g, m, c) <=> FrameAt(f, m, c)
    <2>1. ASSUME c \in 0..m PROVE /\ c > 0 => g[c] = f[c]
                                  /\ \A k \in c + 1..m : g[k] = f[k]
      BY <1>0, <2>1
    <2> QED BY <2>1 DEF FrameAt
  <1> QED BY <1>1, <1>2, <1>3

\* What one more handler adds to a prefix.
LEMMA OneMore ==
  ASSUME NEW f, NEW n \in Nat \ {0}
  PROVE  /\ Inside(f, n) <=> f[n].step \in IsrSet \/ Inside(f, n - 1)
         /\ f[n].step \in ExtSet => (ExternalAt(f, n) <=> f[n].external)
         /\ f[n].step \notin ExtSet => (ExternalAt(f, n) <=> ExternalAt(f, n - 1))
         /\ f[n].step \in FrameSet => FrameAt(f, n, n)
         /\ f[n].step \notin FrameSet => \A c : FrameAt(f, n - 1, c) <=> FrameAt(f, n, c)
  <1>0. 1..n = 1..n - 1 \cup {n} /\ n \in 1..n /\ n - 1 \in Nat /\ n + 1..n = {}
    OBVIOUS
  <1>1. Inside(f, n) <=> f[n].step \in IsrSet \/ Inside(f, n - 1)
    BY <1>0 DEF Inside
  <1>2. ASSUME f[n].step \in ExtSet PROVE ExternalAt(f, n) <=> f[n].external
    <2>1. \A j \in 1..n : (\A k \in j + 1..n : f[k].step \notin ExtSet) => j = n
      <3> SUFFICES ASSUME NEW j \in 1..n, j # n PROVE \E k \in j + 1..n : f[k].step \in ExtSet
        OBVIOUS
      <3>1. n \in j + 1..n
        OBVIOUS
      <3> QED BY <1>2, <3>1
    <2> QED BY <1>0, <1>2, <2>1 DEF ExternalAt
  <1>3. ASSUME f[n].step \notin ExtSet PROVE ExternalAt(f, n) <=> ExternalAt(f, n - 1)
    <2>1. ASSUME NEW j \in 1..n - 1
          PROVE  (\A k \in j + 1..n : f[k].step \notin ExtSet)
                   <=> \A k \in j + 1..n - 1 : f[k].step \notin ExtSet
      <3>1. j + 1..n = (j + 1..n - 1) \cup {n}
        OBVIOUS
      <3> QED BY <1>3, <3>1
    <2> QED BY <1>0, <1>3, <2>1 DEF ExternalAt
  <1>4. ASSUME f[n].step \in FrameSet PROVE FrameAt(f, n, n)
    BY <1>0, <1>4 DEF FrameAt
  <1>5. ASSUME f[n].step \notin FrameSet, NEW c PROVE FrameAt(f, n - 1, c) <=> FrameAt(f, n, c)
    <2>1. ASSUME c \in 0..n - 1
          PROVE  (\A k \in c + 1..n : f[k].step \notin FrameSet)
                   <=> \A k \in c + 1..n - 1 : f[k].step \notin FrameSet
      <3>1. c + 1..n = (c + 1..n - 1) \cup {n}
        BY <2>1
      <3> QED BY <1>5, <3>1
    <2>2. c \in 0..n /\ (c > 0 => f[c].step \in FrameSet) => c \in 0..n - 1
      BY <1>5
    <2>3. c \in 0..n - 1 => c \in 0..n
      OBVIOUS
    <2> QED BY <2>1, <2>2, <2>3 DEF FrameAt
  <1> QED BY <1>1, <1>2, <1>3, <1>4, <1>5

\* Nothing has been set in no frames.
LEMMA Nothing ==
  ASSUME NEW f PROVE ~Inside(f, 0) /\ ~ExternalAt(f, 0) /\ \A c : FrameAt(f, 0, c) <=> c = 0
  <1>1. 1..0 = {} /\ 0..0 = {0}
    OBVIOUS
  <1>2. \A c : c = 0 => c + 1..0 = {}
    OBVIOUS
  <1> QED BY <1>1, <1>2 DEF Inside, ExternalAt, FrameAt

\* One handler, which field was set last.
LEMMA FrameAtUnique ==
  ASSUME NEW f, NEW n \in Nat, NEW c, NEW d, FrameAt(f, n, c), FrameAt(f, n, d)
  PROVE  c = d
  <1>1. c \in 0..n /\ d \in 0..n
    BY DEF FrameAt
  <1>2. ~(c < d)
    <2> SUFFICES ASSUME c < d PROVE FALSE
      OBVIOUS
    <2>1. d \in c + 1..n /\ d > 0
      BY <1>1
    <2> QED BY <2>1 DEF FrameAt
  <1>3. ~(d < c)
    <2> SUFFICES ASSUME d < c PROVE FALSE
      OBVIOUS
    <2>1. c \in d + 1..n /\ c > 0
      BY <1>1
    <2> QED BY <2>1 DEF FrameAt
  <1> QED BY <1>1, <1>2, <1>3

\* No vector that a device or another core sends is one of the processor's.
LEMMA LineIs ==
  /\ Line \subseteq 32..254
  /\ {KFakeIsr, Spurious, NmiVector, UserException, KernelException} \cap Line = {}
  <1>1. \A l \in Lsr : LsrVector[l] \in 32..239
    BY Vectors
  <1> QED BY <1>1 DEF Line, KEvent, KFakeIsr, Spurious, NmiVector, UserException, KernelException

-----------------------------------------------------------------------------
(* The bookkeeping.                                                        *)

\* the per-CPU fields fit the innermost handler e over the frames below it
Fits(e, ins, ext, cur, topf) ==
  LET n == Len(frames)
  IN  /\ ins <=> e.step \in IsrSet \/ Inside(frames, n - 1)
      /\ e.step \in ExtSet => (ext <=> e.external)
      /\ e.step \notin ExtSet => (ext <=> ExternalAt(frames, n - 1))
      /\ e.step \in FrameSet => cur = n
      /\ e.step \notin FrameSet => FrameAt(frames, n - 1, cur)
      /\ e.step # "read" => /\ e.wasInIsr <=> Inside(frames, n - 1)
                            /\ e.wasExternal <=> ExternalAt(frames, n - 1)
                            /\ FrameAt(frames, n - 1, e.oldFrame)
                            /\ e.external <=> e.vector \in Line
      /\ topf = n => e.step \in TopSet /\ ~e.wasInIsr
      /\ e.step \in InnerSteps /\ ~e.wasInIsr => topf = n

\* The frames are a sequence of frames.
LEMMA FramesAre ==
  ASSUME FrameTypes
  PROVE  /\ Len(frames) \in Nat /\ DOMAIN frames = 1..Len(frames)
         /\ \A i \in 1..Len(frames) : frames[i] \in Frame
         /\ frames = <<>> <=> Len(frames) = 0
  BY LenProperties, ElementOfSeq, EmptySeq DEF FrameTypes

\* The bookkeeping is right about the innermost handler.
LEMMA TopFits ==
  ASSUME Book, frames # <<>>
  PROVE  Fits(Top, inIsr, external, currentFrame, topFrame)
  <1> DEFINE n == Len(frames)
             e == frames[n]
  <1>1. n \in Nat \ {0} /\ e \in Frame /\ n \in 1..n
    BY FramesAre DEF Book
  <1>2. /\ Inside(frames, n) <=> e.step \in IsrSet \/ Inside(frames, n - 1)
        /\ e.step \in ExtSet => (ExternalAt(frames, n) <=> e.external)
        /\ e.step \notin ExtSet => (ExternalAt(frames, n) <=> ExternalAt(frames, n - 1))
        /\ e.step \in FrameSet => FrameAt(frames, n, n)
        /\ e.step \notin FrameSet => \A c : FrameAt(frames, n - 1, c) <=> FrameAt(frames, n, c)
    BY <1>1, OneMore
  <1>3. /\ inIsr <=> Inside(frames, n)
        /\ external <=> ExternalAt(frames, n)
        /\ FrameAt(frames, n, currentFrame)
    BY DEF Book, Current
  <1>4. e.step \in FrameSet => currentFrame = n
    BY <1>1, <1>2, <1>3, FrameAtUnique
  <1>5. e.step # "read" => /\ e.wasInIsr <=> Inside(frames, n - 1)
                           /\ e.wasExternal <=> ExternalAt(frames, n - 1)
                           /\ FrameAt(frames, n - 1, e.oldFrame)
                           /\ e.external <=> e.vector \in Line
    BY <1>1 DEF Book, Saved
  <1>6. /\ topFrame = n => e.step \in TopSet /\ ~e.wasInIsr
        /\ e.step \in InnerSteps /\ ~e.wasInIsr => topFrame = n
    BY <1>1 DEF Book, TopIs
  <1> HIDE DEF n, e
  <1>7. Top = e
    BY DEF Top, e, n
  <1> QED BY <1>2, <1>3, <1>4, <1>5, <1>6, <1>7 DEF Fits, n

\* the innermost handler becomes g, and the per-CPU fields follow it
Becomes(g) ==
  /\ frames # <<>> /\ g \in Frame
  /\ frames' = [frames EXCEPT ![Len(frames)] = g]
  /\ g.vector = Top.vector
  /\ g.step = "ticks" => g.vector \in {KFakeIsr, UserException}
  /\ g.step = "halted" => g.vector = KernelException
  /\ inIsr' \in BOOLEAN /\ external' \in BOOLEAN /\ currentFrame' \in Nat /\ topFrame' \in Nat
  /\ topFrame' = topFrame \/ topFrame' = Len(frames)
  /\ Fits(g, inIsr', external', currentFrame', topFrame')

\* There is an innermost handler.
LEMMA TopExists ==
  ASSUME Book, frames # <<>>
  PROVE  /\ Len(frames) \in Nat \ {0} /\ Len(frames) \in 1..Len(frames)
         /\ Len(frames) - 1 \in Nat /\ Len(frames) - 1 \in 0..Len(frames) - 1
         /\ \A k \in 1..Len(frames) - 1 : k \in 1..Len(frames)
         /\ Top \in Frame /\ frames[Len(frames)] = Top
  <1>1. Len(frames) \in Nat \ {0}
    BY FramesAre DEF Book
  <1>2. \A n \in Nat \ {0} : /\ n \in 1..n /\ n - 1 \in Nat /\ n - 1 \in 0..n - 1
                           /\ \A k \in 1..n - 1 : k \in 1..n
    OBVIOUS
  <1>3. Top \in Frame
    BY <1>1, <1>2, FramesAre DEF Book, Top
  <1> QED BY <1>1, <1>2, <1>3 DEF Top

\* Only NMIs and faults of the kernel interrupt a handler.
LEMMA Alone ==
  ASSUME Book, frames # <<>>, Top.vector \notin {NmiVector, KernelException}
  PROVE  Len(frames) = 1
  <1>1. Len(frames) \in Nat \ {0} /\ Len(frames) \in 1..Len(frames) /\ frames[Len(frames)] = Top
    BY TopExists
  <1>2. Len(frames) > 1 => Top.vector \in {NmiVector, KernelException}
    BY <1>1 DEF Book, Kinds
  <1>3. ~(Len(frames) > 1)
    BY <1>2
  <1>4. \A n \in Nat \ {0} : ~(n > 1) => n = 1
    OBVIOUS
  <1> QED BY <1>1, <1>3, <1>4

\* One element of a sequence is replaced.
LEMMA ReplaceTop ==
  ASSUME NEW S, NEW q \in Seq(S), NEW e \in S, NEW i \in 1..Len(q)
  PROVE  /\ [q EXCEPT ![i] = e] \in Seq(S)
         /\ Len([q EXCEPT ![i] = e]) = Len(q)
         /\ [q EXCEPT ![i] = e][i] = e
         /\ \A k \in 1..Len(q) : k # i => [q EXCEPT ![i] = e][k] = q[k]
  OBVIOUS

\* A change of the innermost handler that its fields follow.
LEMMA TopBook ==
  ASSUME Book, NEW g, Becomes(g)
  PROVE  Book'
  <1> DEFINE n == Len(frames)
             f == frames'
  <1>0. /\ frames # <<>> /\ g \in Frame
        /\ f = [frames EXCEPT ![n] = g]
        /\ g.vector = Top.vector
        /\ g.step = "ticks" => g.vector \in {KFakeIsr, UserException}
        /\ g.step = "halted" => g.vector = KernelException
        /\ inIsr' \in BOOLEAN /\ external' \in BOOLEAN /\ currentFrame' \in Nat /\ topFrame' \in Nat
    BY DEF Becomes
  <1>1. n \in Nat \ {0} /\ n \in 1..n /\ n - 1 \in Nat
    BY <1>0, TopExists
  <1>2. /\ f \in Seq(Frame) /\ Len(f) = n /\ f[n] = g
        /\ \A k \in 1..n - 1 : f[k] = frames[k] /\ k \in 1..n
    <2>1. frames \in Seq(Frame)
      BY DEF Book, FrameTypes
    <2> HIDE DEF n
    <2>2. \A k \in 1..n - 1 : k \in 1..n /\ k # n
      BY <1>1
    <2>3. f \in Seq(Frame) /\ Len(f) = n /\ f[n] = g /\ \A k \in 1..n : k # n => f[k] = frames[k]
      BY <1>0, <1>1, <2>1, ReplaceTop DEF n
    <2> QED BY <2>2, <2>3
  <1> HIDE DEF n, f
  <1>3. \A m \in 0..n - 1 : /\ Inside(f, m) <=> Inside(frames, m)
                            /\ ExternalAt(f, m) <=> ExternalAt(frames, m)
                            /\ \A c : FrameAt(f, m, c) <=> FrameAt(frames, m, c)
    BY <1>1, <1>2, Lower
  <1>4. /\ Inside(f, n) <=> g.step \in IsrSet \/ Inside(f, n - 1)
        /\ g.step \in ExtSet => (ExternalAt(f, n) <=> g.external)
        /\ g.step \notin ExtSet => (ExternalAt(f, n) <=> ExternalAt(f, n - 1))
        /\ g.step \in FrameSet => FrameAt(f, n, n)
        /\ g.step \notin FrameSet => \A c : FrameAt(f, n - 1, c) <=> FrameAt(f, n, c)
    BY <1>1, <1>2, OneMore
  <1>5. n - 1 \in 0..n - 1
    BY <1>1
  <1>6. /\ inIsr' <=> g.step \in IsrSet \/ Inside(frames, n - 1)
        /\ g.step \in ExtSet => (external' <=> g.external)
        /\ g.step \notin ExtSet => (external' <=> ExternalAt(frames, n - 1))
        /\ g.step \in FrameSet => currentFrame' = n
        /\ g.step \notin FrameSet => FrameAt(frames, n - 1, currentFrame')
        /\ g.step # "read" => /\ g.wasInIsr <=> Inside(frames, n - 1)
                              /\ g.wasExternal <=> ExternalAt(frames, n - 1)
                              /\ FrameAt(frames, n - 1, g.oldFrame)
                              /\ g.external <=> g.vector \in Line
        /\ topFrame' = n => g.step \in TopSet /\ ~g.wasInIsr
        /\ g.step \in InnerSteps /\ ~g.wasInIsr => topFrame' = n
    BY DEF Becomes, Fits, n
  <1>7. g.vector = frames[n].vector
    BY <1>0 DEF Top, n
  <1>8. topFrame' = topFrame \/ topFrame' = n
    BY DEF Becomes, n
  <1>9. FrameTypes'
    BY <1>0, <1>2 DEF FrameTypes, f
  <1>10. Kinds'
    <2>1. ASSUME NEW i \in 1..n
          PROVE  /\ i > 1 => f[i].vector \in {NmiVector, KernelException}
                 /\ f[i].step = "ticks" => f[i].vector \in {KFakeIsr, UserException}
                 /\ f[i].step = "halted" => f[i].vector = KernelException
      <3>1. CASE i = n
        BY <1>0, <1>1, <1>2, <1>7, <3>1 DEF Book, Kinds, n
      <3>2. CASE i # n
        <4>1. i \in 1..n - 1
          BY <1>1, <3>2
        <4> QED BY <1>2, <4>1 DEF Book, Kinds, n
      <3> QED BY <3>1, <3>2
    <2> QED BY <1>2, <2>1 DEF Kinds, f
  <1>11. Current'
    <2>1. inIsr' <=> Inside(f, n)
      BY <1>3, <1>4, <1>5, <1>6
    <2>2. external' <=> ExternalAt(f, n)
      BY <1>3, <1>4, <1>5, <1>6
    <2>3. FrameAt(f, n, currentFrame')
      BY <1>3, <1>4, <1>5, <1>6
    <2> QED BY <1>2, <2>1, <2>2, <2>3 DEF Current, f
  <1>12. Saved'
    <2>1. ASSUME NEW i \in 1..n, f[i].step # "read"
          PROVE  /\ f[i].wasInIsr <=> Inside(f, i - 1)
                 /\ f[i].wasExternal <=> ExternalAt(f, i - 1)
                 /\ FrameAt(f, i - 1, f[i].oldFrame)
                 /\ f[i].external <=> f[i].vector \in Line
      <3>0. i - 1 \in 0..n - 1
        BY <1>1
      <3>1. CASE i = n
        BY <1>2, <1>3, <1>5, <1>6, <2>1, <3>1
      <3>2. CASE i # n
        <4>1. i \in 1..n - 1 /\ f[i] = frames[i] /\ i \in 1..Len(frames)
          BY <1>1, <1>2, <3>2 DEF n
        <4>2. /\ frames[i].wasInIsr <=> Inside(frames, i - 1)
              /\ frames[i].wasExternal <=> ExternalAt(frames, i - 1)
              /\ FrameAt(frames, i - 1, frames[i].oldFrame)
              /\ frames[i].external <=> frames[i].vector \in Line
          BY <2>1, <4>1 DEF Book, Saved
        <4> QED BY <1>3, <3>0, <4>1, <4>2
      <3> QED BY <3>1, <3>2
    <2> QED BY <1>2, <2>1 DEF Saved, f
  <1>13. TopIs'
    <2>1. ASSUME NEW i \in 1..n - 1, frames[i].step \in InnerSteps, ~frames[i].wasInIsr
          PROVE  topFrame' = i
      <3>1. topFrame = i
        BY <1>1, <1>2, <2>1 DEF Book, TopIs, n
      <3>2. Inside(frames, n - 1)
        BY <2>1 DEF Inside, IsrSet
      <3>3. topFrame' # n
        <4>1. "read" \notin TopSet
          BY DEF TopSet, InnerSteps
        <4> QED BY <1>6, <3>2, <4>1
      <3> QED BY <1>8, <3>1, <3>3
    <2>2. topFrame' > 0 => /\ topFrame' <= n
                           /\ f[topFrame'].step \in TopSet
                           /\ ~f[topFrame'].wasInIsr
      <3>1. CASE topFrame' = n
        BY <1>1, <1>2, <1>6, <3>1
      <3>2. CASE topFrame' # n /\ topFrame' > 0
        <4>1. topFrame' = topFrame /\ topFrame \in 1..n - 1
          BY <1>1, <1>8, <3>2 DEF Book, TopIs, FrameTypes, n
        <4>2. frames[topFrame].step \in TopSet /\ ~frames[topFrame].wasInIsr
          BY <4>1 DEF Book, TopIs
        <4> QED BY <1>1, <1>2, <4>1, <4>2
      <3> QED BY <3>1, <3>2
    <2>3. ASSUME NEW i \in 1..n, f[i].step \in InnerSteps, ~f[i].wasInIsr PROVE topFrame' = i
      <3>1. CASE i = n
        BY <1>2, <1>6, <2>3, <3>1
      <3>2. CASE i # n
        <4>1. i \in 1..n - 1
          BY <1>1, <3>2
        <4> QED BY <1>2, <2>1, <2>3, <4>1
      <3> QED BY <3>1, <3>2
    <2> QED BY <1>2, <2>2, <2>3 DEF TopIs, f
  <1> QED BY <1>9, <1>10, <1>11, <1>12, <1>13 DEF Book

\* A handler starts.
LEMMA PushBook ==
  ASSUME Book, NEW v \in Vectors2, Push(v), UNCHANGED cpuVars,
         frames # <<>> => v \in {NmiVector, KernelException}
  PROVE  /\ Book'
         /\ Len(frames') = Len(frames) + 1
         /\ frames'[Len(frames) + 1].vector = v /\ frames'[Len(frames) + 1].step = "read"
         /\ \A k \in 1..Len(frames) : frames'[k] = frames[k]
  <1> DEFINE n == Len(frames)
             f == frames'
             e == [vector |-> v, step |-> "read", wasInIsr |-> FALSE,
                   wasExternal |-> FALSE, external |-> FALSE, oldFrame |-> 0]
  <1>0. e \in Frame
    BY DEF Frame, Steps, EarlySteps
  <1>1. n \in Nat /\ (n > 0 => frames # <<>>)
    BY FramesAre, EmptySeq DEF Book
  <1>2. /\ f \in Seq(Frame) /\ Len(f) = n + 1 /\ f[n + 1] = e
        /\ \A k \in 1..n : f[k] = frames[k]
    <2>1. frames \in Seq(Frame) /\ f = Append(frames, e)
      BY DEF Book, FrameTypes, Push
    <2> QED BY <1>0, <2>1, AppendProperties
  <1>3. \A m \in 0..n : /\ Inside(f, m) <=> Inside(frames, m)
                        /\ ExternalAt(f, m) <=> ExternalAt(frames, m)
                        /\ \A c : FrameAt(f, m, c) <=> FrameAt(frames, m, c)
    BY <1>1, <1>2, Lower
  <1>4. /\ e.step = "read" /\ e.vector = v
        /\ "read" \notin IsrSet \cup ExtSet \cup FrameSet \cup InnerSteps
    BY DEF IsrSet, ExtSet, FrameSet, InnerSteps
  <1>5. n + 1 \in Nat \ {0} /\ (n + 1) - 1 = n /\ n \in 0..n
    BY <1>1
  <1> HIDE DEF n, f, e
  <1>6. /\ Inside(f, n + 1) <=> Inside(f, n)
        /\ ExternalAt(f, n + 1) <=> ExternalAt(f, n)
        /\ \A c : FrameAt(f, n, c) <=> FrameAt(f, n + 1, c)
    BY <1>2, <1>4, <1>5, OneMore
  <1>7. inIsr' = inIsr /\ external' = external /\ currentFrame' = currentFrame /\ topFrame' = topFrame
    BY DEF cpuVars
  <1>9. FrameTypes'
    BY <1>2, <1>7 DEF FrameTypes, Book, f
  <1>10. Kinds'
    <2>1. ASSUME NEW i \in 1..n + 1
          PROVE  /\ i > 1 => f[i].vector \in {NmiVector, KernelException}
                 /\ f[i].step = "ticks" => f[i].vector \in {KFakeIsr, UserException}
                 /\ f[i].step = "halted" => f[i].vector = KernelException
      <3>1. CASE i = n + 1
        BY <1>1, <1>2, <1>4, <3>1
      <3>2. CASE i # n + 1
        <4>1. i \in 1..n
          BY <1>1, <3>2
        <4> QED BY <1>2, <4>1 DEF Book, Kinds, n
      <3> QED BY <3>1, <3>2
    <2> QED BY <1>2, <2>1 DEF Kinds, f
  <1>11. Current'
    <2>1. /\ inIsr <=> Inside(frames, n)
          /\ external <=> ExternalAt(frames, n)
          /\ FrameAt(frames, n, currentFrame)
      BY DEF Book, Current, n
    <2>2. /\ inIsr' <=> Inside(f, n + 1)
          /\ external' <=> ExternalAt(f, n + 1)
          /\ FrameAt(f, n + 1, currentFrame')
      BY <1>3, <1>5, <1>6, <1>7, <2>1
    <2> QED BY <1>2, <2>2 DEF Current, f
  <1>12. Saved'
    <2>1. ASSUME NEW i \in 1..n + 1, f[i].step # "read"
          PROVE  /\ f[i].wasInIsr <=> Inside(f, i - 1)
                 /\ f[i].wasExternal <=> ExternalAt(f, i - 1)
                 /\ FrameAt(f, i - 1, f[i].oldFrame)
                 /\ f[i].external <=> f[i].vector \in Line
      <3>1. i # n + 1
        BY <1>2, <1>4, <2>1
      <3>2. i \in 1..n /\ i - 1 \in 0..n
        BY <1>1, <3>1
      <3>3. f[i] = frames[i]
        BY <1>2, <3>2
      <3>4. /\ frames[i].wasInIsr <=> Inside(frames, i - 1)
            /\ frames[i].wasExternal <=> ExternalAt(frames, i - 1)
            /\ FrameAt(frames, i - 1, frames[i].oldFrame)
            /\ frames[i].external <=> frames[i].vector \in Line
        BY <2>1, <3>2, <3>3 DEF Book, Saved, n
      <3> QED BY <1>3, <3>2, <3>3, <3>4
    <2> QED BY <1>2, <2>1 DEF Saved, f
  <1>13. TopIs'
    <2>1. /\ topFrame > 0 => /\ topFrame <= n
                             /\ frames[topFrame].step \in TopSet
                             /\ ~frames[topFrame].wasInIsr
          /\ \A i \in 1..n : frames[i].step \in InnerSteps /\ ~frames[i].wasInIsr => topFrame = i
          /\ topFrame \in Nat
      BY DEF Book, TopIs, FrameTypes, n
    <2>2. topFrame > 0 => topFrame \in 1..n /\ topFrame <= n + 1
      BY <1>1, <2>1
    <2>3. topFrame > 0 => /\ topFrame <= n + 1
                          /\ f[topFrame].step \in TopSet
                          /\ ~f[topFrame].wasInIsr
      BY <1>2, <2>1, <2>2
    <2>4. ASSUME NEW i \in 1..n + 1, f[i].step \in InnerSteps, ~f[i].wasInIsr PROVE topFrame = i
      <3>1. i # n + 1
        BY <1>2, <1>4, <2>4
      <3>2. i \in 1..n
        BY <1>1, <3>1
      <3> QED BY <1>2, <2>1, <2>4, <3>2
    <2> QED BY <1>2, <1>7, <2>3, <2>4 DEF TopIs, f
  <1> QED BY <1>2, <1>4, <1>9, <1>10, <1>11, <1>12, <1>13 DEF Book, n, f

\* A handler returns to the code it interrupted.
LEMMA PopBook ==
  ASSUME Book, RestoreTop
  PROVE  /\ Book'
         /\ Len(frames') = Len(frames) - 1
         /\ \A k \in 1..Len(frames) - 1 : frames'[k] = frames[k]
  <1> DEFINE n == Len(frames)
             f == frames'
  <1>0. /\ frames # <<>> /\ Top.step = "restore top" /\ f = SubSeq(frames, 1, n - 1)
        /\ topFrame' = IF Top.wasInIsr THEN topFrame ELSE 0
        /\ inIsr' = inIsr /\ external' = external /\ currentFrame' = currentFrame
    BY DEF RestoreTop, AtStep
  <1>1. n \in Nat \ {0} /\ n - 1 \in Nat /\ n \in 1..n /\ \A k \in 1..n - 1 : k \in 1..n
    BY <1>0, TopExists
  <1>2. /\ f \in Seq(Frame) /\ Len(f) = n - 1
        /\ \A k \in 1..n - 1 : f[k] = frames[k]
    <2>1. frames \in Seq(Frame) /\ \A k \in 1..n - 1 : frames[k] \in Frame
      BY <1>1, FramesAre DEF Book, FrameTypes
    <2>2. 1 \in Int /\ n - 1 \in Int /\ (IF 1 <= n - 1 THEN (n - 1) - 1 + 1 ELSE 0) = n - 1
          /\ \A k \in 1..n - 1 : 1 + k - 1 = k
      <3> HIDE DEF n
      <3>1. 1 <= n - 1 \/ n - 1 = 0
        BY <1>1
      <3> QED BY <1>1, <3>1
    <2>3. /\ SubSeq(frames, 1, n - 1) \in Seq(Frame)
          /\ Len(SubSeq(frames, 1, n - 1)) = IF 1 <= n - 1 THEN (n - 1) - 1 + 1 ELSE 0
          /\ \A i \in 1..(n - 1) - 1 + 1 : SubSeq(frames, 1, n - 1)[i] = frames[1 + i - 1]
      BY <2>1, <2>2, SubSeqProperties
    <2>4. \A k \in 1..n - 1 : k \in 1..(n - 1) - 1 + 1
      BY <1>1
    <2> HIDE DEF n
    <2> QED BY <1>0, <2>2, <2>3, <2>4
  <1>3. \A m \in 0..n - 1 : /\ Inside(f, m) <=> Inside(frames, m)
                            /\ ExternalAt(f, m) <=> ExternalAt(frames, m)
                            /\ \A c : FrameAt(f, m, c) <=> FrameAt(frames, m, c)
    BY <1>1, <1>2, Lower
  <1>5. n - 1 \in 0..n - 1
    BY <1>1
  <1>6. "restore top" \notin IsrSet \cup ExtSet \cup FrameSet \cup InnerSteps /\ "restore top" # "read"
    BY DEF IsrSet, ExtSet, FrameSet, InnerSteps
  <1>7. Fits(Top, inIsr, external, currentFrame, topFrame)
    BY <1>0, TopFits
  <1>8. /\ inIsr <=> Inside(frames, n - 1)
        /\ external <=> ExternalAt(frames, n - 1)
        /\ FrameAt(frames, n - 1, currentFrame)
        /\ Top.wasInIsr <=> Inside(frames, n - 1)
        /\ topFrame = n => ~Top.wasInIsr
    BY <1>0, <1>6, <1>7 DEF Fits
  <1> HIDE DEF n, f
  <1>9. FrameTypes'
    BY <1>0, <1>2 DEF FrameTypes, Book, f
  <1>10. Kinds'
    <2>1. ASSUME NEW i \in 1..n - 1
          PROVE  /\ i > 1 => f[i].vector \in {NmiVector, KernelException}
                 /\ f[i].step = "ticks" => f[i].vector \in {KFakeIsr, UserException}
                 /\ f[i].step = "halted" => f[i].vector = KernelException
      BY <1>1, <1>2 DEF Book, Kinds, n
    <2> QED BY <1>2, <2>1 DEF Kinds, f
  <1>11. Current'
    <2>1. /\ inIsr' <=> Inside(f, n - 1)
          /\ external' <=> ExternalAt(f, n - 1)
          /\ FrameAt(f, n - 1, currentFrame')
      BY <1>0, <1>3, <1>5, <1>8
    <2> QED BY <1>2, <2>1 DEF Current, f
  <1>12. Saved'
    <2>1. ASSUME NEW i \in 1..n - 1, f[i].step # "read"
          PROVE  /\ f[i].wasInIsr <=> Inside(f, i - 1)
                 /\ f[i].wasExternal <=> ExternalAt(f, i - 1)
                 /\ FrameAt(f, i - 1, f[i].oldFrame)
                 /\ f[i].external <=> f[i].vector \in Line
      <3>1. i \in 1..n /\ i - 1 \in 0..n - 1 /\ f[i] = frames[i]
        BY <1>1, <1>2
      <3>2. /\ frames[i].wasInIsr <=> Inside(frames, i - 1)
            /\ frames[i].wasExternal <=> ExternalAt(frames, i - 1)
            /\ FrameAt(frames, i - 1, frames[i].oldFrame)
            /\ frames[i].external <=> frames[i].vector \in Line
        BY <2>1, <3>1 DEF Book, Saved, n
      <3> QED BY <1>3, <3>1, <3>2
    <2> QED BY <1>2, <2>1 DEF Saved, f
  <1>13. TopIs'
    <2>1. /\ topFrame > 0 => /\ topFrame <= n
                             /\ frames[topFrame].step \in TopSet
                             /\ ~frames[topFrame].wasInIsr
          /\ \A i \in 1..n : frames[i].step \in InnerSteps /\ ~frames[i].wasInIsr => topFrame = i
          /\ topFrame \in Nat
      BY DEF Book, TopIs, FrameTypes, n
    <2>2. topFrame' > 0 => topFrame' = topFrame /\ topFrame \in 1..n - 1
      <3>1. CASE Top.wasInIsr
        <4>1. topFrame # n
          BY <1>8, <3>1
        <4>2. topFrame' = topFrame
          BY <1>0, <3>1, Zenon
        <4>3. topFrame > 0 => topFrame \in 1..n - 1
          BY <1>1, <2>1, <4>1
        <4> QED BY <4>2, <4>3
      <3>2. CASE ~Top.wasInIsr
        <4>1. topFrame' = 0
          BY <1>0, <3>2, Zenon
        <4> QED BY <4>1
      <3> QED BY <3>1, <3>2
    <2>3. topFrame' > 0 => /\ topFrame' <= n - 1
                           /\ f[topFrame'].step \in TopSet
                           /\ ~f[topFrame'].wasInIsr
      BY <1>1, <1>2, <2>1, <2>2
    <2>4. ASSUME NEW i \in 1..n - 1, f[i].step \in InnerSteps, ~f[i].wasInIsr PROVE topFrame' = i
      <3>1. i \in 1..n /\ f[i] = frames[i]
        BY <1>1, <1>2
      <3>2. Inside(frames, n - 1)
        BY <2>4, <3>1 DEF Inside, IsrSet
      <3>3. topFrame = i
        BY <2>1, <2>4, <3>1
      <3> QED BY <1>0, <1>8, <3>2, <3>3
    <2> QED BY <1>2, <2>3, <2>4 DEF TopIs, f
  <1> QED BY <1>2, <1>9, <1>10, <1>11, <1>12, <1>13 DEF Book, n, f

\* what the rest of the core can tell of a change of the innermost handler
TopMoves(s) ==
  /\ frames # <<>> /\ Len(frames') = Len(frames)
  /\ frames'[Len(frames)].vector = Top.vector /\ frames'[Len(frames)].step = s
  /\ \A k \in 1..Len(frames) : k # Len(frames) => frames'[k] = frames[k]

\* A change of the innermost handler touches no other one.
LEMMA BecomesMoves ==
  ASSUME Book, NEW g, Becomes(g)
  PROVE  TopMoves(g.step)
  <1>1. frames \in Seq(Frame) /\ Len(frames) \in 1..Len(frames) /\ g \in Frame
        /\ frames # <<>> /\ frames' = [frames EXCEPT ![Len(frames)] = g]
        /\ g.vector = Top.vector
    BY TopExists DEF Book, FrameTypes, Becomes
  <1>2. /\ Len(frames') = Len(frames) /\ frames'[Len(frames)] = g
        /\ \A k \in 1..Len(frames) : k # Len(frames) => frames'[k] = frames[k]
    BY <1>1, ReplaceTop
  <1> QED BY <1>1, <1>2 DEF TopMoves

\* the innermost handler goes to step s, and its fields say so
Moves(s) ==
  /\ frames # <<>> /\ s \in Steps /\ StepTo(s)
  /\ s = "ticks" => Top.vector \in {KFakeIsr, UserException}
  /\ s = "halted" => Top.vector = KernelException
  /\ inIsr' \in BOOLEAN /\ external' \in BOOLEAN /\ currentFrame' \in Nat /\ topFrame' \in Nat
  /\ topFrame' = topFrame \/ topFrame' = Len(frames)
  /\ Fits([Top EXCEPT !.step = s], inIsr', external', currentFrame', topFrame')

\* Going to the next step is such a change.
LEMMA MovesBook ==
  ASSUME Book, NEW s, Moves(s)
  PROVE  Book' /\ TopMoves(s)
  <1> DEFINE g == [Top EXCEPT !.step = s]
  <1>1. frames # <<>> /\ s \in Steps /\ StepTo(s)
    BY DEF Moves
  <1>2. Top \in Frame /\ frames[Len(frames)] = Top
    BY <1>1, TopExists
  <1>3. g \in Frame /\ g.step = s /\ g.vector = Top.vector
    BY <1>1, <1>2 DEF Frame
  <1>4. frames' = [frames EXCEPT ![Len(frames)] = g]
    BY <1>1, <1>2 DEF StepTo
  <1>5. Becomes(g)
    <2> HIDE DEF g
    <2>1. Fits(g, inIsr', external', currentFrame', topFrame')
      BY DEF Moves, g
    <2> QED BY <1>1, <1>3, <1>4, <2>1 DEF Becomes, Moves
  <1> HIDE DEF g
  <1> QED BY <1>3, <1>5, TopBook, BecomesMoves

\* the per-CPU data are of their types
LEMMA CpuTypes ==
  ASSUME Book
  PROVE  inIsr \in BOOLEAN /\ external \in BOOLEAN /\ currentFrame \in Nat /\ topFrame \in Nat
  BY DEF Book, FrameTypes

\* Each assignment of ia32eIsrHandler on its way in leaves the fields as the
\* bookkeeping has them.
LEMMA SetInIsrBook == ASSUME Book, SetInIsr PROVE Book' /\ TopMoves("set external")
  <1>1. /\ frames # <<>> /\ Top.step = "set inIsr" /\ StepTo("set external")
        /\ inIsr' = TRUE /\ external' = external /\ currentFrame' = currentFrame
        /\ topFrame' = topFrame
    BY DEF SetInIsr, AtStep
  <1>2. Fits(Top, inIsr, external, currentFrame, topFrame) /\ Top \in Frame
    BY <1>1, TopFits, TopExists
  <1>3. Fits([Top EXCEPT !.step = "set external"], inIsr', external', currentFrame', topFrame')
    BY <1>1, <1>2 DEF Fits, Frame, IsrSet, ExtSet, FrameSet, TopSet, InnerSteps
  <1>4. Moves("set external")
    BY <1>1, <1>3, CpuTypes DEF Moves, Steps, EarlySteps
  <1> QED BY <1>4, MovesBook

\* The same, of cpu->external.
LEMMA SetExternalBook == ASSUME Book, SetExternal PROVE Book' /\ TopMoves("set frame")
  <1>1. /\ frames # <<>> /\ Top.step = "set external" /\ StepTo("set frame")
        /\ inIsr' = inIsr /\ external' = Top.external
        /\ currentFrame' = currentFrame /\ topFrame' = topFrame
    BY DEF SetExternal, AtStep
  <1>2. Fits(Top, inIsr, external, currentFrame, topFrame) /\ Top \in Frame
    BY <1>1, TopFits, TopExists
  <1>3. Fits([Top EXCEPT !.step = "set frame"], inIsr', external', currentFrame', topFrame')
    BY <1>1, <1>2 DEF Fits, Frame, IsrSet, ExtSet, FrameSet, TopSet, InnerSteps
  <1>4. Moves("set frame")
    BY <1>1, <1>2, <1>3, CpuTypes, TopExists DEF Moves, Frame, Steps, EarlySteps, TopSet, InnerSteps
  <1> QED BY <1>4, MovesBook

\* The same, of cpu->currentFrame.
LEMMA SetFrameBook == ASSUME Book, SetFrame PROVE Book' /\ TopMoves("set top")
  <1>1. /\ frames # <<>> /\ Top.step = "set frame" /\ StepTo("set top")
        /\ inIsr' = inIsr /\ external' = external
        /\ currentFrame' = Len(frames) /\ topFrame' = topFrame
    BY DEF SetFrame, AtStep
  <1>2. Fits(Top, inIsr, external, currentFrame, topFrame) /\ Top \in Frame
    BY <1>1, TopFits, TopExists
  <1>3. Fits([Top EXCEPT !.step = "set top"], inIsr', external', currentFrame', topFrame')
    BY <1>1, <1>2 DEF Fits, Frame, IsrSet, ExtSet, FrameSet, TopSet, InnerSteps
  <1>4. Moves("set top")
    BY <1>1, <1>2, <1>3, CpuTypes, TopExists DEF Moves, Frame, Steps, EarlySteps, TopSet, InnerSteps
  <1> QED BY <1>4, MovesBook

\* The same, of cpu->topFrame.
LEMMA SetTopBook == ASSUME Book, SetTop PROVE Book' /\ TopMoves("main")
  <1>1. /\ frames # <<>> /\ Top.step = "set top" /\ StepTo("main")
        /\ inIsr' = inIsr /\ external' = external
        /\ currentFrame' = currentFrame /\ topFrame' = IF Top.wasInIsr THEN topFrame ELSE Len(frames)
    BY DEF SetTop, AtStep
  <1>2. Fits(Top, inIsr, external, currentFrame, topFrame) /\ Top \in Frame
    BY <1>1, TopFits, TopExists
  <1>3. Fits([Top EXCEPT !.step = "main"], inIsr', external', currentFrame', topFrame')
    BY <1>1, <1>2 DEF Fits, Frame, IsrSet, ExtSet, FrameSet, TopSet, InnerSteps
  <1>4. Moves("main")
    BY <1>1, <1>2, <1>3, CpuTypes, TopExists DEF Moves, Frame, Steps, EarlySteps, TopSet, InnerSteps
  <1> QED BY <1>4, MovesBook

\* So does each assignment on its way out.
LEMMA RestoreInIsrBook == ASSUME Book, RestoreInIsr PROVE Book' /\ TopMoves("restore external")
  <1>1. /\ frames # <<>> /\ Top.step = "restore inIsr" /\ StepTo("restore external")
        /\ inIsr' = Top.wasInIsr /\ external' = external
        /\ currentFrame' = currentFrame /\ topFrame' = topFrame
    BY DEF RestoreInIsr, AtStep
  <1>2. Fits(Top, inIsr, external, currentFrame, topFrame) /\ Top \in Frame
    BY <1>1, TopFits, TopExists
  <1>3. Fits([Top EXCEPT !.step = "restore external"], inIsr', external', currentFrame', topFrame')
    BY <1>1, <1>2 DEF Fits, Frame, IsrSet, ExtSet, FrameSet, TopSet, InnerSteps
  <1>4. Moves("restore external")
    BY <1>1, <1>2, <1>3, CpuTypes, TopExists DEF Moves, Frame, Steps, EarlySteps, TopSet, InnerSteps
  <1> QED BY <1>4, MovesBook

\* The same, of cpu->external.
LEMMA RestoreExternalBook == ASSUME Book, RestoreExternal PROVE Book' /\ TopMoves("restore frame")
  <1>1. /\ frames # <<>> /\ Top.step = "restore external" /\ StepTo("restore frame")
        /\ inIsr' = inIsr /\ external' = Top.wasExternal
        /\ currentFrame' = currentFrame /\ topFrame' = topFrame
    BY DEF RestoreExternal, AtStep
  <1>2. Fits(Top, inIsr, external, currentFrame, topFrame) /\ Top \in Frame
    BY <1>1, TopFits, TopExists
  <1>3. Fits([Top EXCEPT !.step = "restore frame"], inIsr', external', currentFrame', topFrame')
    BY <1>1, <1>2 DEF Fits, Frame, IsrSet, ExtSet, FrameSet, TopSet, InnerSteps
  <1>4. Moves("restore frame")
    BY <1>1, <1>2, <1>3, CpuTypes, TopExists DEF Moves, Frame, Steps, EarlySteps, TopSet, InnerSteps
  <1> QED BY <1>4, MovesBook

\* The same, of cpu->currentFrame.
LEMMA RestoreFrameBook == ASSUME Book, RestoreFrame PROVE Book' /\ TopMoves("restore top")
  <1>1. /\ frames # <<>> /\ Top.step = "restore frame" /\ StepTo("restore top")
        /\ inIsr' = inIsr /\ external' = external
        /\ currentFrame' = Top.oldFrame /\ topFrame' = topFrame
    BY DEF RestoreFrame, AtStep
  <1>2. Fits(Top, inIsr, external, currentFrame, topFrame) /\ Top \in Frame
    BY <1>1, TopFits, TopExists
  <1>3. Fits([Top EXCEPT !.step = "restore top"], inIsr', external', currentFrame', topFrame')
    BY <1>1, <1>2 DEF Fits, Frame, IsrSet, ExtSet, FrameSet, TopSet, InnerSteps
  <1>4. Moves("restore top")
    BY <1>1, <1>2, <1>3, CpuTypes, TopExists DEF Moves, Frame, Steps, EarlySteps, TopSet, InnerSteps
  <1> QED BY <1>4, MovesBook

\* What a handler reads first is what it will restore, and an interrupt of a
\* device or another core is told by the vectors in service.
LEMMA ReadCpuBook ==
  ASSUME Book, InService, ReadCpu
  PROVE  Book' /\ TopMoves("set inIsr")
  <1> DEFINE g == [Top EXCEPT !.step = "set inIsr", !.wasInIsr = inIsr, !.wasExternal = external,
                              !.external = ~inIsr /\ Top.vector \in apicIsr,
                              !.oldFrame = currentFrame]
             n == Len(frames)
  <1>1. /\ frames # <<>> /\ Top.step = "read"
        /\ inIsr' = inIsr /\ external' = external
        /\ currentFrame' = currentFrame /\ topFrame' = topFrame
    BY DEF ReadCpu, AtStep, cpuVars
  <1>2. /\ Top \in Frame /\ frames[n] = Top /\ n \in Nat \ {0} /\ n \in 1..n
        /\ Fits(Top, inIsr, external, currentFrame, topFrame)
    BY <1>1, TopFits, TopExists
  <1>3. frames' = [frames EXCEPT ![n] = g]
    BY <1>1, <1>2 DEF ReadCpu
  <1>4. /\ g \in Frame /\ g.step = "set inIsr" /\ g.vector = Top.vector
        /\ g.wasInIsr = inIsr /\ g.wasExternal = external /\ g.oldFrame = currentFrame
        /\ g.external = (~inIsr /\ Top.vector \in apicIsr)
    BY <1>2, CpuTypes DEF Frame, Steps, EarlySteps
  <1> HIDE DEF g
  <1>5. /\ inIsr <=> Inside(frames, n - 1)
        /\ external <=> ExternalAt(frames, n - 1)
        /\ FrameAt(frames, n - 1, currentFrame)
        /\ topFrame # n
    BY <1>1, <1>2 DEF Fits, IsrSet, ExtSet, FrameSet, TopSet, InnerSteps
  <1>6. g.external <=> Top.vector \in Line
    <2>1. Top.vector \in apicIsr => Top.vector \in Line
      BY DEF InService
    <2>2. ASSUME Top.vector \in Line PROVE ~inIsr /\ Top.vector \in apicIsr
      <3>1. n = 1
        <4>1. Top.vector \notin {NmiVector, KernelException}
          BY <2>2, LineIs
        <4> QED BY <1>1, <4>1, Alone
      <3>2. ~inIsr
        BY <1>5, <3>1, Nothing
      <3>3. Top.vector \in apicIsr
        BY <1>1, <1>2, <2>2, <3>1 DEF InService, Accepted, EarlySteps
      <3> QED BY <3>2, <3>3
    <2> QED BY <1>4, <2>1, <2>2
  <1>7. Fits(g, inIsr', external', currentFrame', topFrame')
    BY <1>1, <1>4, <1>5, <1>6 DEF Fits, IsrSet, ExtSet, FrameSet, TopSet, InnerSteps
  <1>8. Becomes(g)
    BY <1>1, <1>2, <1>3, <1>4, <1>7, CpuTypes DEF Becomes
  <1> QED BY <1>4, <1>8, TopBook, BecomesMoves

\* A handler's main part and its end leave the bookkeeping alone.
LEMMA InnerMove ==
  ASSUME Book, frames # <<>>, Top.step \in InnerSteps \ {"restore inIsr"},
         NEW s \in InnerSteps, StepTo(s), UNCHANGED cpuVars,
         s = "ticks" => Top.vector \in {KFakeIsr, UserException},
         s = "halted" => Top.vector = KernelException
  PROVE  Book' /\ TopMoves(s)
  <1>1. /\ inIsr' = inIsr /\ external' = external
        /\ currentFrame' = currentFrame /\ topFrame' = topFrame
    BY DEF cpuVars
  <1>2. Fits(Top, inIsr, external, currentFrame, topFrame) /\ Top \in Frame
    BY TopFits, TopExists
  <1>3. Fits([Top EXCEPT !.step = s], inIsr', external', currentFrame', topFrame')
    BY <1>1, <1>2 DEF Fits, Frame, IsrSet, ExtSet, FrameSet, TopSet, InnerSteps
  <1>4. Moves(s)
    BY <1>1, <1>3, CpuTypes DEF Moves, Steps, TopSet
  <1> QED BY <1>4, MovesBook

\* The main part of a handler sees its own frame and its own kind, and what it
\* handles tells how deep it is.
LEMMA MainIs ==
  ASSUME Book, frames # <<>>, Top.step \in {"main", "ticks"}
  PROVE  /\ inIsr /\ currentFrame = Len(frames) /\ Vector = Top.vector
         /\ external <=> Top.external
         /\ external <=> Vector \in Line
         /\ Vector \in Line \cup {KFakeIsr, UserException} => Len(frames) = 1
  <1>1. Fits(Top, inIsr, external, currentFrame, topFrame) /\ Top \in Frame
        /\ frames[Len(frames)] = Top /\ Len(frames) \in Nat \ {0} /\ Len(frames) \in 1..Len(frames)
    BY TopFits, TopExists
  <1>2. /\ inIsr /\ currentFrame = Len(frames)
        /\ external <=> Top.external
        /\ Top.external <=> Top.vector \in Line
    BY <1>1 DEF Fits, IsrSet, ExtSet, FrameSet, InnerSteps
  <1>3. Vector = Top.vector
    BY <1>1, <1>2 DEF Vector
  <1>4. ASSUME Top.vector \in Line \cup {KFakeIsr, UserException} PROVE Len(frames) = 1
    <2>1. Top.vector \notin {NmiVector, KernelException}
      BY <1>4, LineIs DEF NmiVector, KernelException, KFakeIsr, UserException
    <2> QED BY <2>1, Alone
  <1> QED BY <1>2, <1>3, <1>4

-----------------------------------------------------------------------------
(* Interrupts in service, and the LSRs they are for.                       *)

\* A step of the innermost handler that is none of acknowledging.
LEMMA ServiceKept ==
  ASSUME Book, InService, NEW s, TopMoves(s), apicIsr' = apicIsr,
         Top.vector \in Line => (Top.step \in Accepted <=> s \in Accepted)
  PROVE  InService'
  <1>1. /\ Len(frames) \in Nat \ {0} /\ Len(frames) \in 1..Len(frames)
        /\ frames[Len(frames)] = Top /\ frames # <<>> /\ Len(frames') = Len(frames)
        /\ frames'[Len(frames)].vector = Top.vector /\ frames'[Len(frames)].step = s
    BY TopExists DEF TopMoves
  <1>2. frames' # <<>>
    BY <1>1, EmptySeq
  <1>3. CASE Len(frames) = 1
    BY <1>1, <1>2, <1>3 DEF InService
  <1>4. CASE Len(frames) # 1
    <2>1. frames'[1] = frames[1]
      BY <1>1, <1>4 DEF TopMoves
    <2> QED BY <1>1, <1>2, <2>1 DEF InService
  <1> QED BY <1>3, <1>4

\* Nor does one that changes no frame acknowledge anything.
LEMMA ServiceSame ==
  ASSUME InService, UNCHANGED <<apicIsr, frames>>
  PROVE  InService'
  BY DEF InService

\* An interrupt in service stays accepted for LSRs that are not active, while
\* no LSR is activated.
LEMMA AcceptedKept ==
  ASSUME Book, AcceptedFor, NEW s, TopMoves(s),
         s \in EarlySteps => Top.step \in EarlySteps,
         activated' \cap Lsr \subseteq activated
  PROVE  AcceptedFor'
  <1>1. /\ Len(frames) \in Nat \ {0} /\ Len(frames) \in 1..Len(frames)
        /\ frames[Len(frames)] = Top /\ frames # <<>> /\ Len(frames') = Len(frames)
        /\ frames'[Len(frames)].vector = Top.vector /\ frames'[Len(frames)].step = s
    BY TopExists DEF TopMoves
  <1>3. CASE Len(frames) = 1
    BY <1>1, <1>3 DEF AcceptedFor
  <1>4. CASE Len(frames) # 1
    <2>1. frames'[1] = frames[1]
      BY <1>1, <1>4 DEF TopMoves
    <2> QED BY <1>1, <2>1 DEF AcceptedFor
  <1> QED BY <1>3, <1>4

\* The same, without a change of a frame.
LEMMA AcceptedSame ==
  ASSUME AcceptedFor, UNCHANGED frames, activated' \cap Lsr \subseteq activated
  PROVE  AcceptedFor'
  BY DEF AcceptedFor

\* A core whose only handler is past its first steps has not accepted anything
\* new.
LEMMA AcceptedMain ==
  ASSUME Book, Len(frames') = 1, frames'[1].step \notin EarlySteps
  PROVE  AcceptedFor'
  BY DEF AcceptedFor

\* what holds of the handlers and of the LSRs
Handling == Book /\ InService /\ Waiting /\ AcceptedFor

\* The assignments of ia32eIsrHandler.
LEMMA BookkeepingHandling ==
  ASSUME Handling, Bookkeeping
  PROVE  Handling'
  <1>1. Book /\ InService /\ Waiting /\ AcceptedFor
    BY DEF Handling
  <1>2. UNCHANGED <<activated, handoffDone, lsrs, apicIsr>>
    BY DEF Bookkeeping, vars
  <1>3. Waiting'
    BY <1>1, <1>2 DEF Waiting
  <1>4. ASSUME NEW s, Book', TopMoves(s), Top.step \in Steps, s \in Steps,
               Top.step \in Accepted <=> s \in Accepted,
               s \in EarlySteps => Top.step \in EarlySteps
        PROVE  Handling'
    <2>1. InService'
      BY <1>1, <1>2, <1>4, ServiceKept
    <2>2. AcceptedFor'
      BY <1>1, <1>2, <1>4, AcceptedKept
    <2> QED BY <1>3, <1>4, <2>1, <2>2 DEF Handling
  <1>5. /\ {"read", "set inIsr", "set external", "set frame", "set top"} \subseteq EarlySteps \cap Accepted
        /\ {"restore inIsr", "restore external", "restore frame", "restore top"} \cap (EarlySteps \cup Accepted) = {}
        /\ "main" \in Accepted \ EarlySteps
        /\ {"read", "set inIsr", "set external", "set frame", "set top", "main",
            "restore inIsr", "restore external", "restore frame", "restore top"} \subseteq Steps
    BY DEF EarlySteps, Accepted, Steps, TopSet, InnerSteps
  <1>6. CASE ReadCpu
    <2>1. Top.step = "read"
      BY <1>6 DEF ReadCpu, AtStep
    <2> QED BY <1>1, <1>4, <1>5, <1>6, <2>1, ReadCpuBook
  <1>7. CASE SetInIsr
    <2>1. Top.step = "set inIsr"
      BY <1>7 DEF SetInIsr, AtStep
    <2> QED BY <1>1, <1>4, <1>5, <1>7, <2>1, SetInIsrBook
  <1>8. CASE SetExternal
    <2>1. Top.step = "set external"
      BY <1>8 DEF SetExternal, AtStep
    <2> QED BY <1>1, <1>4, <1>5, <1>8, <2>1, SetExternalBook
  <1>9. CASE SetFrame
    <2>1. Top.step = "set frame"
      BY <1>9 DEF SetFrame, AtStep
    <2> QED BY <1>1, <1>4, <1>5, <1>9, <2>1, SetFrameBook
  <1>10. CASE SetTop
    <2>1. Top.step = "set top"
      BY <1>10 DEF SetTop, AtStep
    <2> QED BY <1>1, <1>4, <1>5, <1>10, <2>1, SetTopBook
  <1>11. CASE RestoreInIsr
    <2>1. Top.step = "restore inIsr"
      BY <1>11 DEF RestoreInIsr, AtStep
    <2> QED BY <1>1, <1>4, <1>5, <1>11, <2>1, RestoreInIsrBook
  <1>12. CASE RestoreExternal
    <2>1. Top.step = "restore external"
      BY <1>12 DEF RestoreExternal, AtStep
    <2> QED BY <1>1, <1>4, <1>5, <1>12, <2>1, RestoreExternalBook
  <1>13. CASE RestoreFrame
    <2>1. Top.step = "restore frame"
      BY <1>13 DEF RestoreFrame, AtStep
    <2> QED BY <1>1, <1>4, <1>5, <1>13, <2>1, RestoreFrameBook
  <1>14. CASE RestoreTop
    <2>1. /\ Book' /\ Len(frames') = Len(frames) - 1
          /\ \A k \in 1..Len(frames) - 1 : frames'[k] = frames[k]
      BY <1>1, <1>14, PopBook
    <2>2. frames # <<>> /\ Top.step = "restore top" /\ Len(frames) \in Nat \ {0}
      BY <1>1, <1>14, TopExists DEF RestoreTop, AtStep
    <2>3. CASE Len(frames) = 1
      <3>1. frames' = <<>>
        <4>1. frames' \in Seq(Frame)
          BY <2>1 DEF Book, FrameTypes
        <4>2. Len(frames') = 0
          BY <2>1, <2>3
        <4> QED BY <4>1, <4>2, EmptySeq
      <3>2. Top = frames[1] /\ frames[1].step \notin Accepted
        BY <1>5, <2>2, <2>3 DEF Top
      <3> QED BY <1>1, <1>2, <1>3, <2>1, <3>1, <3>2 DEF Handling, InService, AcceptedFor
    <2>4. CASE Len(frames) # 1
      <3>1. frames'[1] = frames[1] /\ Len(frames') # 0
        <4>1. 1 \in 1..Len(frames) - 1 /\ Len(frames) - 1 # 0
          <5>1. \A n \in Nat \ {0} : n # 1 => 1 \in 1..n - 1 /\ n - 1 # 0
            OBVIOUS
          <5> QED BY <2>2, <2>4, <5>1
        <4> QED BY <2>1, <4>1
      <3>2. frames' # <<>>
        BY <3>1, EmptySeq
      <3> QED BY <1>1, <1>2, <1>3, <2>1, <2>2, <3>1, <3>2 DEF Handling, InService, AcceptedFor
    <2> QED BY <2>3, <2>4
  <1> QED BY <1>6, <1>7, <1>8, <1>9, <1>10, <1>11, <1>12, <1>13, <1>14 DEF Bookkeeping

\* A handler that starts for something else than a device or another core.
LEMMA PushHandling ==
  ASSUME Handling, NEW v \in Vectors2 \ Line, Push(v),
         UNCHANGED <<vars, cpuVars, lsrs, apicIsr>>,
         frames # <<>> => v \in {NmiVector, KernelException}
  PROVE  Handling'
  <1>1. Book /\ InService /\ Waiting /\ AcceptedFor /\ Len(frames) \in Nat
        /\ (Len(frames) = 0 <=> frames = <<>>)
    BY FramesAre DEF Handling, Book
  <1>2. UNCHANGED <<activated, handoffDone, lsrs, apicIsr>>
    BY DEF vars
  <1>3. /\ Book' /\ Len(frames') = Len(frames) + 1
        /\ frames'[Len(frames) + 1].vector = v
        /\ \A k \in 1..Len(frames) : frames'[k] = frames[k]
    BY <1>1, PushBook
  <1>4. frames' # <<>>
    BY <1>1, <1>3, EmptySeq
  <1>5. Waiting'
    BY <1>1, <1>2 DEF Waiting
  <1>6. CASE frames = <<>>
    <2>1. frames'[1].vector \notin Line
      BY <1>1, <1>3, <1>6
    <2> QED BY <1>1, <1>2, <1>3, <1>5, <1>6, <2>1 DEF Handling, InService, AcceptedFor
  <1>7. CASE frames # <<>>
    <2>1. frames'[1] = frames[1]
      BY <1>1, <1>3, <1>7
    <2> QED BY <1>1, <1>2, <1>3, <1>4, <1>5, <1>7, <2>1 DEF Handling, InService, AcceptedFor
  <1> QED BY <1>6, <1>7

\* An interrupt is accepted above the task priority, below which are all the
\* tasks that are active.
LEMMA AcceptHandling ==
  ASSUME TprInv, Handling, NEW v \in Line, Accept(v)
  PROVE  Handling'
  <1>1. Book /\ InService /\ Waiting /\ AcceptedFor /\ frames = <<>> /\ Len(frames) = 0
    BY FramesAre DEF Handling, Book, Accept, Interruptible
  <1>2. /\ UNCHANGED <<activated, handoffDone, lsrs, cpuVars>>
        /\ apicIsr' = apicIsr \cup {v} /\ Push(v) /\ Class(v) > tpr
    BY DEF vars, Accept
  <1>3. /\ Book' /\ Len(frames') = 1
        /\ frames'[1].vector = v /\ frames'[1].step = "read"
    <2>1. v \in Vectors2
      BY DEF Vectors2
    <2> QED BY <1>1, <1>2, <2>1, PushBook
  <1>4. frames' # <<>>
    BY <1>3, EmptySeq
  <1>5. Waiting'
    BY <1>1, <1>2 DEF Waiting
  <1>6. InService'
    <2>1. apicIsr = {}
      BY <1>1 DEF InService
    <2>2. "read" \in Accepted
      BY DEF Accepted, EarlySteps
    <2> QED BY <1>2, <1>3, <1>4, <2>1, <2>2 DEF InService
  <1>7. ASSUME NEW l \in Lsr, TaskTpr[l] = Class(v), l \in activated PROVE FALSE
    <2>1. handoffDone
      BY <1>1, <1>7 DEF Waiting
    <2>2. TaskTpr[l] <= tpr /\ l \in Task
      BY <1>7, <2>1, Vectors DEF TprInv, TprIsHighest
    <2>3. TaskTpr[l] \in Nat /\ tpr \in Nat
      BY <2>2, Priorities DEF TprInv, TypeOK, Prio
    <2> QED BY <1>2, <1>7, <2>2, <2>3
  <1>8. AcceptedFor'
    BY <1>2, <1>3, <1>7 DEF AcceptedFor
  <1> QED BY <1>3, <1>5, <1>6, <1>8 DEF Handling

\* The EOI acknowledges the one interrupt in service, and an NMI or a fault
\* sends none.
LEMMA EoiHandling ==
  ASSUME Handling, Eoi
  PROVE  Handling'
  <1>1. Book /\ InService /\ Waiting /\ AcceptedFor
    BY DEF Handling
  <1>2. /\ UNCHANGED <<activated, handoffDone, lsrs, cpuVars>>
        /\ frames # <<>> /\ Top.step = "eoi" /\ StepTo("restore inIsr")
        /\ Top.external => apicIsr' = {v \in apicIsr : \E w \in apicIsr : w > v}
        /\ ~Top.external => apicIsr' = apicIsr
    BY DEF vars, Eoi, AtStep
  <1>3. Book' /\ TopMoves("restore inIsr")
    BY <1>1, <1>2, InnerMove DEF InnerSteps
  <1>4. Waiting'
    BY <1>1, <1>2 DEF Waiting
  <1>5. AcceptedFor'
    <2>1. "restore inIsr" \notin EarlySteps
      BY DEF EarlySteps
    <2> QED BY <1>1, <1>2, <1>3, <2>1, AcceptedKept
  <1>6. Fits(Top, inIsr, external, currentFrame, topFrame) /\ Top \in Frame
    BY <1>1, <1>2, TopFits, TopExists
  <1>7. Top.external <=> Top.vector \in Line
    BY <1>2, <1>6 DEF Fits
  <1>8. CASE Top.vector \in Line
    <2>1. Len(frames) = 1
      BY <1>1, <1>2, <1>8, LineIs, Alone
    <2>2. apicIsr = {Top.vector}
      <3>1. frames[1] = Top /\ frames[1].step \in Accepted
        <4>1. frames[1] = Top
          BY <2>1 DEF Top
        <4> QED BY <1>2, <4>1 DEF Accepted
      <3>2. \A v : v \in apicIsr <=> v \in Line /\ frames # <<>> /\ frames[1].vector = v
                                   /\ frames[1].step \in Accepted
        BY <1>1 DEF InService
      <3>3. \A v : v \in apicIsr <=> v = Top.vector
        <4>1. frames[1].vector = Top.vector /\ frames[1].step \in Accepted
          BY <3>1
        <4>2. frames # <<>>
          BY <1>2
        <4>3. ASSUME NEW v, v \in apicIsr PROVE v = Top.vector
          BY <3>2, <4>1, <4>3
        <4>4. Top.vector \in apicIsr
          BY <1>8, <3>2, <4>1, <4>2
        <4> QED BY <4>3, <4>4
      <3> QED BY <3>3
    <2>3. ~(Top.vector > Top.vector)
      <3>1. Top.vector \in 32..254
        BY <1>8, LineIs
      <3>2. \A x \in 32..254 : ~(x > x)
        OBVIOUS
      <3> QED BY <3>1, <3>2
    <2>4. apicIsr' = {}
      <3>1. apicIsr' = {v \in {Top.vector} : \E w \in {Top.vector} : w > v}
        <4>1. apicIsr' = {v \in apicIsr : \E w \in apicIsr : w > v}
          BY <1>2, <1>7, <1>8, Zenon
        <4> QED BY <2>2, <4>1
      <3>2. ASSUME NEW x \in apicIsr' PROVE FALSE
        <4>1. x = Top.vector /\ \E w \in {Top.vector} : w > x
          BY <3>1
        <4> QED BY <2>3, <4>1, Zenon
      <3> QED BY <3>2
    <2>5. frames'[1].step = "restore inIsr" /\ "restore inIsr" \notin Accepted
      BY <1>3, <2>1 DEF TopMoves, Accepted, EarlySteps
    <2>6. InService'
      BY <2>4, <2>5 DEF InService
    <2> QED BY <1>3, <1>4, <1>5, <2>6 DEF Handling
  <1>9. CASE Top.vector \notin Line
    <2>1. InService'
      BY <1>1, <1>2, <1>3, <1>7, <1>9, ServiceKept
    <2> QED BY <1>3, <1>4, <1>5, <2>1 DEF Handling
  <1> QED BY <1>8, <1>9

\* The bookkeeping is about the frames and the per-CPU data.
LEMMA BookSame ==
  ASSUME Book, UNCHANGED <<frames, cpuVars>>
  PROVE  Book'
  BY DEF Book, FrameTypes, Kinds, Current, Saved, TopIs, cpuVars

\* What happens to threads concerns no LSR.
LEMMA ThreadsWait ==
  ASSUME Waiting, NEW t \in Task \ Lsr, CallbackActivation(t) \/ CallbackResponse(t),
         UNCHANGED lsrs
  PROVE  Waiting' /\ activated' \cap Lsr \subseteq activated
  <1>1. activated' \cap Lsr = activated \cap Lsr /\ handoffDone' = handoffDone
    BY DEF CallbackActivation, CallbackResponse
  <1> QED BY <1>1 DEF Waiting

\* A handler's main part that moves on, while no LSR becomes active.
LEMMA MainMoves ==
  ASSUME Handling, frames # <<>>, Top.step \in {"main", "ticks"},
         NEW s \in {"main", "ticks", "eoi", "halted"}, StepTo(s),
         s = "ticks" => Top.vector \in {KFakeIsr, UserException},
         s = "halted" => Top.vector = KernelException,
         UNCHANGED <<apicIsr, cpuVars>>,
         Waiting', activated' \cap Lsr \subseteq activated
  PROVE  Handling'
  <1>1. Book /\ InService /\ AcceptedFor
    BY DEF Handling
  <1>2. s \in InnerSteps /\ s \notin EarlySteps /\ Top.step \in InnerSteps \ {"restore inIsr"}
        /\ UNCHANGED cpuVars /\ apicIsr' = apicIsr
    BY DEF InnerSteps, EarlySteps
  <1>3. Book' /\ TopMoves(s)
    BY <1>1, <1>2, InnerMove
  <1>4. ASSUME Top.vector \in Line PROVE Top.step \in Accepted <=> s \in Accepted
    <2>1. s # "ticks" /\ s # "halted"
      BY <1>4, LineIs
    <2>2. Top.step # "ticks"
      <3>1. Len(frames) \in 1..Len(frames) /\ frames[Len(frames)] = Top
        BY <1>1, TopExists
      <3>2. Top.step = "ticks" => Top.vector \in {KFakeIsr, UserException}
        BY <1>1, <3>1 DEF Book, Kinds
      <3> QED BY <1>4, <3>2, LineIs
    <2> QED BY <2>1, <2>2 DEF Accepted
  <1>5. InService'
    BY <1>1, <1>2, <1>3, <1>4, ServiceKept
  <1>6. AcceptedFor'
    BY <1>1, <1>2, <1>3, AcceptedKept
  <1> QED BY <1>3, <1>5, <1>6 DEF Handling

\* The ticks of a rescheduling point move threads.
LEMMA TicksHandling ==
  ASSUME Handling, Ticks
  PROVE  Handling'
  <1>1. Book /\ InService /\ Waiting /\ AcceptedFor
    BY DEF Handling
  <1>2. frames # <<>> /\ Top.step = "ticks" /\ UNCHANGED <<apicIsr, cpuVars>> /\ UNCHANGED lsrs
    BY DEF Ticks, AtStep
  <1>3. CASE ThreadMoves /\ UNCHANGED frames
    <2>1. Waiting' /\ activated' \cap Lsr \subseteq activated
      BY <1>1, <1>2, <1>3, ThreadsWait DEF ThreadMoves
    <2> QED BY <1>1, <1>2, <1>3, <2>1, BookSame, ServiceSame, AcceptedSame DEF Handling
  <1>4. CASE Return /\ UNCHANGED vars
    <2>1. Waiting' /\ activated' \cap Lsr \subseteq activated
      BY <1>1, <1>2, <1>4 DEF Waiting, vars
    <2> QED BY <1>2, <1>4, <2>1, MainMoves DEF Return
  <1> QED BY <1>3, <1>4 DEF Ticks

\* The main part of a handler releases LSRs only for a vector that keeps its
\* core from all others.
LEMMA MainHandling ==
  ASSUME Handling, IsrMain
  PROVE  Handling'
  <1>1. Book /\ InService /\ Waiting /\ AcceptedFor
    BY DEF Handling
  <1>2. frames # <<>> /\ Top.step = "main" /\ UNCHANGED <<apicIsr, cpuVars>>
    BY DEF IsrMain, AtStep
  <1>3. /\ Vector = Top.vector
        /\ external <=> Vector \in Line
        /\ Vector \in Line => Len(frames) = 1 /\ Top = frames[1]
    BY <1>1, <1>2, MainIs DEF Top
  <1>4. ASSUME UNCHANGED <<vars, lsrs>>
        PROVE  Waiting' /\ activated' \cap Lsr \subseteq activated
    BY <1>1, <1>4 DEF Waiting, vars
  <1>5. CASE NothingToDo
    <2>1. Waiting' /\ activated' \cap Lsr \subseteq activated /\ StepTo("eoi")
      BY <1>4, <1>5 DEF NothingToDo, Return
    <2> QED BY <1>2, <2>1, MainMoves
  <1>6. CASE EventHandler
    <2>1. UNCHANGED lsrs
      BY <1>6 DEF EventHandler
    <2>2. CASE ThreadMoves /\ UNCHANGED frames
      <3>1. Waiting' /\ activated' \cap Lsr \subseteq activated
        BY <1>1, <2>1, <2>2, ThreadsWait DEF ThreadMoves
      <3> QED BY <1>1, <1>2, <2>2, <3>1, BookSame, ServiceSame, AcceptedSame DEF Handling
    <2>3. CASE CallbackCpuHandoff /\ Return
      <3>1. Waiting' /\ activated' \cap Lsr \subseteq activated
        BY <1>1, <2>1, <2>3 DEF Waiting, CallbackCpuHandoff
      <3> QED BY <1>2, <2>3, <3>1, MainMoves DEF Return
    <2>4. CASE Return /\ UNCHANGED vars
      BY <1>2, <1>4, <2>1, <2>4, MainMoves DEF Return
    <2> QED BY <1>6, <2>2, <2>3, <2>4 DEF EventHandler
  <1>7. CASE FakeIsr
    <2>1. Top.vector = KFakeIsr /\ StepTo("ticks")
      BY <1>3, <1>7 DEF FakeIsr
    <2>2. Waiting' /\ activated' \cap Lsr \subseteq activated
      <3>1. CASE CallbackCpuHandoff /\ UNCHANGED lsrs
        BY <1>1, <3>1 DEF Waiting, CallbackCpuHandoff
      <3>2. ASSUME NEW t \in Task, Finish(t)
            PROVE  Waiting' /\ activated' \cap Lsr \subseteq activated
        <4>1. t \in activated /\ activated' = activated \ {t} /\ handoffDone' /\ handoffDone
          BY <3>2 DEF Finish, CallbackResponse
        <4>2. CASE t \in Lsr /\ lsrs' = [lsrs EXCEPT ![LsrVector[t]] = @ \cup {t}]
          <5>1. lsrs' \in [Line -> SUBSET Lsr] /\ LsrVector[t] \in Line
            BY <1>1, <4>2 DEF Waiting, Line
          <5>2. ASSUME NEW v \in Line, NEW l \in lsrs'[v] PROVE LsrVector[l] = v /\ l \notin activated'
            <6>1. l \in lsrs[v] \/ (l = t /\ v = LsrVector[t])
              <7>1. lsrs \in [Line -> SUBSET Lsr]
                BY <1>1 DEF Waiting
              <7>2. CASE v = LsrVector[t]
                <8>1. lsrs'[v] = lsrs[v] \cup {t}
                  BY <4>2, <7>1, <7>2
                <8> QED BY <5>2, <7>2, <8>1
              <7>3. CASE v # LsrVector[t]
                <8>1. lsrs'[v] = lsrs[v]
                  BY <4>2, <7>1, <7>3
                <8> QED BY <8>1
              <7> QED BY <7>2, <7>3
            <6> QED BY <1>1, <4>1, <6>1 DEF Waiting
          <5> QED BY <4>1, <5>1, <5>2 DEF Waiting
        <4>3. CASE UNCHANGED lsrs
          BY <1>1, <4>1, <4>3 DEF Waiting
        <4> QED BY <3>2, <4>2, <4>3 DEF Finish
      <3>3. CASE UNCHANGED <<vars, lsrs>>
        BY <1>4, <3>3
      <3> QED BY <1>7, <3>1, <3>2, <3>3 DEF FakeIsr
    <2> QED BY <1>2, <2>1, <2>2, MainMoves
  <1>8. CASE UserHandler
    <2>1. Top.vector = UserException /\ UNCHANGED lsrs
      BY <1>3, <1>8 DEF UserHandler
    <2>2. ASSUME NEW t \in Task, CallbackResponse(t), StepTo("ticks") PROVE Handling'
      <3>1. Waiting' /\ activated' \cap Lsr \subseteq activated
        BY <1>1, <2>1, <2>2 DEF Waiting, CallbackResponse
      <3> QED BY <1>2, <2>1, <2>2, <3>1, MainMoves
    <2>3. CASE Return /\ UNCHANGED vars
      BY <1>2, <1>4, <2>1, <2>3, MainMoves DEF Return
    <2> QED BY <1>8, <2>2, <2>3 DEF UserHandler
  <1>9. CASE ExternalHandler
    <2>1. CASE handoffDone /\ lsrs[Vector] # {}
      <3>1. PICK l \in lsrs[Vector] : /\ lsrs' = [lsrs EXCEPT ![Vector] = @ \ {l}]
                                      /\ CallbackActivation(l)
        BY <1>9, <2>1 DEF ExternalHandler
      <3>2. UNCHANGED frames /\ Vector \in Line
        BY <1>3, <1>9, <2>1 DEF ExternalHandler
      <3>3. activated' = activated \cup {l} /\ handoffDone' = handoffDone
        BY <3>1 DEF CallbackActivation
      <3>4. Waiting'
        <4>1. lsrs' \in [Line -> SUBSET Lsr]
          BY <1>1, <3>1, <3>2 DEF Waiting
        <4>2. ASSUME NEW v \in Line, NEW k \in lsrs'[v] PROVE LsrVector[k] = v /\ k \notin activated'
          <5>1. k \in lsrs[v] /\ (v = Vector => k # l)
            BY <1>1, <3>1, <3>2, <4>2 DEF Waiting
          <5>2. LsrVector[k] = v /\ k \notin activated /\ LsrVector[l] = Vector
            BY <1>1, <3>2, <5>1 DEF Waiting
          <5> QED BY <3>3, <5>1, <5>2
        <4> QED BY <2>1, <3>3, <4>1, <4>2 DEF Waiting
      <3>5. frames'[1].step = "main" /\ Len(frames') = 1
        BY <1>2, <1>3, <3>2
      <3>6. AcceptedFor'
        BY <1>1, <3>5, AcceptedMain DEF EarlySteps
      <3> QED BY <1>1, <1>2, <3>2, <3>4, <3>6, BookSame, ServiceSame DEF Handling
    <2>2. CASE ~(handoffDone /\ lsrs[Vector] # {})
      <3>1. StepTo("eoi") /\ UNCHANGED <<vars, lsrs>>
        BY <1>9, <2>2 DEF ExternalHandler, Return
      <3> QED BY <1>2, <1>4, <3>1, MainMoves
    <2> QED BY <2>1, <2>2
  <1>10. CASE KernelHandler
    <2>1. /\ Top.vector = KernelException /\ UNCHANGED <<vars, lsrs>>
          /\ \E s \in {"main", "halted"} : StepTo(s)
      BY <1>3, <1>10 DEF KernelHandler
    <2> QED BY <1>2, <1>4, <2>1, MainMoves
  <1> QED BY <1>5, <1>6, <1>7, <1>8, <1>9, <1>10 DEF IsrMain

-----------------------------------------------------------------------------
(* The theorems.                                                           *)

\* the inductive invariant
IInv == TprInv /\ LockInv /\ Handling

\* the starts of any core: some LSRs may have failed, and so may the kernel of
\* some cores
AnyStart == \E dormant \in SUBSET Lsr, halted \in SUBSET Node : IsrStart(dormant, halted)

CoreSpec == AnyStart /\ [][IsrNext]_allVars

\* A core starts outside of any handler.
LEMMA StartInv == AnyStart => IInv
  <1> SUFFICES ASSUME NEW dormant \in SUBSET Lsr, NEW halted \in SUBSET Node,
                      IsrStart(dormant, halted)
               PROVE  IInv
    BY DEF AnyStart
  <1>1. TprInv /\ LockInv
    BY TprInitInv, LockInitInv DEF IsrStart
  <1>2. /\ frames = <<>> /\ Len(frames) = 0 /\ 1..Len(frames) = {} /\ apicIsr = {}
        /\ inIsr = FALSE /\ external = FALSE /\ currentFrame = 0 /\ topFrame = 0
        /\ activated = {} /\ lsrs = [v \in Line |-> {l \in dormant : LsrVector[l] = v}]
    BY EmptySeq DEF IsrStart, Init
  <1>3. Book
    <2>1. FrameTypes
      BY <1>2, EmptySeq DEF FrameTypes
    <2>2. Current
      BY <1>2, Nothing DEF Current
    <2> QED BY <1>2, <2>1, <2>2 DEF Book, Kinds, Saved, TopIs
  <1>4. InService /\ AcceptedFor
    BY <1>2 DEF InService, AcceptedFor
  <1>5. Waiting
    BY <1>2 DEF Waiting
  <1> QED BY <1>1, <1>3, <1>4, <1>5 DEF IInv, Handling

\* What a core does to its tasks is what Tpr says of the callbacks.
LEMMA StepsOfTpr == Handling /\ [IsrNext]_allVars => [Next]_vars
  <1> SUFFICES ASSUME Handling, [IsrNext]_allVars PROVE [Next]_vars
    OBVIOUS
  <1>1. ASSUME Plugins PROVE [Next]_vars
    BY <1>1 DEF Plugins, Next
  <1>2. ASSUME IsrMain PROVE [Next]_vars
    <2>1. ASSUME NothingToDo \/ KernelHandler PROVE UNCHANGED vars
      BY <2>1 DEF NothingToDo, KernelHandler
    <2>2. ASSUME EventHandler PROVE [Next]_vars
      BY <2>2 DEF EventHandler, ThreadMoves, Next
    <2>3. ASSUME FakeIsr PROVE [Next]_vars
      BY <2>3 DEF FakeIsr, Finish, Next
    <2>4. ASSUME UserHandler PROVE [Next]_vars
      BY <2>4 DEF UserHandler, Next
    <2>5. ASSUME ExternalHandler PROVE [Next]_vars
      <3>1. CASE handoffDone /\ lsrs[Vector] # {}
        <4>1. PICK l \in lsrs[Vector] : CallbackActivation(l)
          BY <2>5, <3>1 DEF ExternalHandler
        <4>2. l \in Task
          <5>1. Book /\ Waiting /\ AtStep("main") /\ external
            BY <1>2, <2>5 DEF Handling, IsrMain, ExternalHandler
          <5>2. Vector \in Line
            BY <5>1, MainIs DEF AtStep
          <5> QED BY <5>1, <5>2, Vectors DEF Waiting
        <4> QED BY <4>1, <4>2 DEF Next
      <3>2. CASE ~(handoffDone /\ lsrs[Vector] # {})
        BY <2>5, <3>2 DEF ExternalHandler
      <3> QED BY <3>1, <3>2
    <2> QED BY <1>2, <2>1, <2>2, <2>3, <2>4, <2>5 DEF IsrMain
  <1>3. ASSUME Ticks PROVE [Next]_vars
    BY <1>3 DEF Ticks, ThreadMoves, Next
  <1>4. ASSUME Bookkeeping \/ Eoi \/ SelfIpi \/ Nmi \/ KernelFault PROVE UNCHANGED vars
    BY <1>4 DEF Bookkeeping, Eoi, SelfIpi, Nmi, KernelFault
  <1>5. ASSUME NEW v, Request(v) \/ Accept(v) \/ Trap(v) PROVE UNCHANGED vars
    BY <1>5 DEF Request, Accept, Trap
  <1>6. ASSUME NEW c, OtherFault(c) \/ OtherHandler(c) PROVE UNCHANGED vars
    BY <1>6 DEF OtherFault, OtherHandler
  <1>7. ASSUME UNCHANGED allVars PROVE UNCHANGED vars
    BY <1>7 DEF allVars
  <1> QED BY <1>1, <1>2, <1>3, <1>4, <1>5, <1>6, <1>7 DEF IsrNext, Handlers

\* What the cores do to the lock of the exception report is what McsLock says
\* of its holders.
LEMMA StepsOfLock == [IsrNext]_allVars => [LockNext]_lockVars
  <1>1. ThisCore \in Node
    BY Vectors
  <1>2. ASSUME IsrMain PROVE [LockNext]_lockVars
    BY <1>1, <1>2 DEF IsrMain, NothingToDo, EventHandler, FakeIsr, UserHandler,
                ExternalHandler, KernelHandler, LockStep, LockNext
  <1>3. ASSUME NEW c \in Node, OtherFault(c) \/ OtherHandler(c) PROVE [LockNext]_lockVars
    BY <1>3 DEF OtherFault, OtherHandler, LockNext
  <1>4. ASSUME Bookkeeping \/ Eoi \/ Ticks \/ SelfIpi \/ Nmi \/ KernelFault \/ Plugins
        PROVE  UNCHANGED lockVars
    BY <1>4 DEF Bookkeeping, Eoi, Ticks, SelfIpi, Nmi, KernelFault, Plugins
  <1>5. ASSUME NEW v, Request(v) \/ Accept(v) \/ Trap(v) PROVE UNCHANGED lockVars
    BY <1>5 DEF Request, Accept, Trap
  <1>7. ASSUME UNCHANGED allVars PROVE UNCHANGED lockVars
    BY <1>7 DEF allVars
  <1> QED BY <1>2, <1>3, <1>4, <1>5, <1>7 DEF IsrNext, Handlers

\* What changes neither the handlers nor the LSRs.
LEMMA HandlingSame ==
  ASSUME Handling, UNCHANGED <<frames, cpuVars, apicIsr, lsrs>>, handoffDone' = handoffDone,
         activated' \cap Lsr = activated \cap Lsr
  PROVE  Handling'
  <1>1. Book'
    BY BookSame DEF Handling
  <1> QED BY <1>1 DEF Handling, InService, Waiting, AcceptedFor

\* Every step of the core, and of the others, keeps the invariant.
LEMMA IsrNextInv == IInv /\ [IsrNext]_allVars => IInv'
  <1> SUFFICES ASSUME IInv, [IsrNext]_allVars PROVE IInv'
    OBVIOUS
  <1>1. TprInv /\ LockInv /\ Handling
    BY DEF IInv
  <1>2. TprInv' /\ LockInv'
    BY <1>1, StepsOfTpr, StepsOfLock, TprNextInv, LockNextInv
  <1>3. {KFakeIsr, Spurious, NmiVector, UserException, KernelException} \subseteq Vectors2 \ Line
    BY LineIs DEF Vectors2
  <1>4. ASSUME Plugins PROVE Handling'
    <2>1. UNCHANGED <<frames, cpuVars, apicIsr, lsrs>>
      BY <1>4 DEF Plugins, isrVars
    <2>2. handoffDone' = handoffDone /\ activated' \cap Lsr = activated \cap Lsr
      <3>1. CASE PluginsDone
        BY <3>1 DEF PluginsDone
      <3>2. ASSUME NEW t \in Task \ Lsr, CallbackActivation(t)
            PROVE  handoffDone' = handoffDone /\ activated' \cap Lsr = activated \cap Lsr
        BY <3>2 DEF CallbackActivation
      <3> QED BY <1>4, <3>1, <3>2 DEF Plugins
    <2> QED BY <1>1, <2>1, <2>2, HandlingSame
  <1>5. ASSUME NEW v \in Line, Request(v) PROVE Handling'
    BY <1>1, <1>5, HandlingSame DEF Request, vars
  <1>6. ASSUME NEW v \in Line, Accept(v) PROVE Handling'
    BY <1>1, <1>6, AcceptHandling
  <1>7. ASSUME NEW v \in {Spurious, UserException}, Trap(v) PROVE Handling'
    <2>1. Push(v) /\ UNCHANGED <<vars, cpuVars, lsrs, apicIsr>> /\ frames = <<>>
      BY <1>7 DEF Trap, Interruptible
    <2>2. v \in Vectors2 \ Line
      BY <1>3
    <2> QED BY <1>1, <2>1, <2>2, PushHandling
  <1>8. ASSUME SelfIpi PROVE Handling'
    <2>1. Push(KFakeIsr) /\ UNCHANGED <<vars, cpuVars, lsrs, apicIsr>> /\ frames = <<>>
      BY <1>8 DEF SelfIpi, Interruptible
    <2> QED BY <1>1, <1>3, <2>1, PushHandling
  <1>9. ASSUME Nmi PROVE Handling'
    <2>1. Push(NmiVector) /\ UNCHANGED <<vars, cpuVars, lsrs, apicIsr>>
      BY <1>9 DEF Nmi
    <2> QED BY <1>1, <1>3, <2>1, PushHandling
  <1>10. ASSUME KernelFault PROVE Handling'
    <2>1. Push(KernelException) /\ UNCHANGED <<vars, cpuVars, lsrs, apicIsr>>
      BY <1>10 DEF KernelFault
    <2> QED BY <1>1, <1>3, <2>1, PushHandling
  <1>11. ASSUME Handlers PROVE Handling'
    BY <1>1, <1>11, BookkeepingHandling, EoiHandling, TicksHandling, MainHandling DEF Handlers
  <1>12. ASSUME NEW c \in Node, OtherFault(c) \/ OtherHandler(c) PROVE Handling'
    BY <1>1, <1>12, HandlingSame DEF OtherFault, OtherHandler, vars, isrVars
  <1>13. ASSUME UNCHANGED allVars PROVE Handling'
    BY <1>1, <1>13, HandlingSame DEF allVars, vars, isrVars
  <1>14. Handling'
    BY <1>4, <1>5, <1>6, <1>7, <1>8, <1>9, <1>10, <1>11, <1>12, <1>13 DEF IsrNext
  <1> QED BY <1>2, <1>14 DEF IInv

\* The invariant says of the innermost and outermost frame what the handlers
\* rely on.
LEMMA FramesMatchIInv == IInv => FramesMatch
  <1> SUFFICES ASSUME IInv PROVE FramesMatch
    OBVIOUS
  <1>1. Book /\ InService
    BY DEF IInv, Handling
  <1>2. /\ Len(frames) \in Nat /\ DOMAIN frames = 1..Len(frames)
        /\ frames = <<>> <=> Len(frames) = 0
    BY <1>1, FramesAre DEF Book
  <1>3. ASSUME frames = <<>>
        PROVE  ~inIsr /\ ~external /\ currentFrame = 0 /\ topFrame = 0 /\ apicIsr = {}
    <2>1. ~inIsr /\ ~external /\ currentFrame = 0
      BY <1>1, <1>2, <1>3, Nothing DEF Book, Current
    <2>2. topFrame = 0
      BY <1>1, <1>2, <1>3 DEF Book, TopIs, FrameTypes
    <2> QED BY <1>1, <1>3, <2>1, <2>2 DEF InService
  <1>4. ASSUME AtStep("main")
        PROVE  inIsr /\ currentFrame = Len(frames) /\ external = Top.external
    <2>1. /\ inIsr /\ currentFrame = Len(frames)
          /\ external <=> Top.external
      BY <1>1, <1>4, MainIs DEF AtStep
    <2>2. Top \in Frame /\ external \in BOOLEAN
      BY <1>1, <1>4, TopExists, CpuTypes DEF AtStep
    <2> QED BY <2>1, <2>2 DEF Frame
  <1>5. ASSUME NEW i \in DOMAIN frames, frames[i].step \in {"main", "ticks"}
        PROVE  topFrame = i <=> ~frames[i].wasInIsr
    <2>0. i \in 1..Len(frames) /\ frames[i].step \in InnerSteps
      BY <1>2, <1>5 DEF InnerSteps
    <2>1. i \in 1..Len(frames) /\ i > 0 /\ frames[i].step \in InnerSteps
      BY <1>2, <2>0
    <2>2. topFrame = i => ~frames[i].wasInIsr
      BY <1>1, <2>1 DEF Book, TopIs
    <2>3. ~frames[i].wasInIsr => topFrame = i
      BY <1>1, <2>1 DEF Book, TopIs
    <2> QED BY <2>2, <2>3
  <1>6. apicIsr = {frames[i].vector : i \in {j \in DOMAIN frames :
          frames[j].vector \in Line /\ frames[j].step \in
            {"read", "set inIsr", "set external", "set frame", "set top", "main", "eoi"}}}
    <2>1. ASSUME NEW j \in DOMAIN frames, frames[j].vector \in Line PROVE j = 1
      <3>1. frames[j].vector \notin {NmiVector, KernelException}
        BY <2>1, LineIs
      <3> QED BY <1>1, <1>2, <3>1 DEF Book, Kinds
    <2>2. frames # <<>> => 1 \in DOMAIN frames
      BY <1>2
    <2>3. Accepted = {"read", "set inIsr", "set external", "set frame", "set top", "main", "eoi"}
      BY DEF Accepted, EarlySteps
    <2>4. frames = <<>> => DOMAIN frames = {}
      BY <1>2
    <2> DEFINE S == {j \in DOMAIN frames : frames[j].vector \in Line /\ frames[j].step \in
                       {"read", "set inIsr", "set external", "set frame", "set top", "main", "eoi"}}
    <2>5. \A v : v \in apicIsr <=> v \in Line /\ frames # <<>> /\ frames[1].vector = v
                                 /\ frames[1].step \in Accepted
      BY <1>1 DEF InService
    <2>6. ASSUME NEW v, v \in apicIsr PROVE \E i \in S : v = frames[i].vector
      <3>1. 1 \in S /\ v = frames[1].vector
        BY <2>2, <2>3, <2>5, <2>6
      <3> QED BY <3>1
    <2>7. ASSUME NEW i \in S PROVE frames[i].vector \in apicIsr
      <3>1. i = 1 /\ frames # <<>>
        BY <2>1, <2>4
      <3> QED BY <2>3, <2>5, <3>1
    <2>8. apicIsr = {frames[i].vector : i \in S}
      BY <2>6, <2>7
    <2> QED BY <2>8
  <1>7. \A i \in DOMAIN frames :
          frames[i].step \in {"main", "ticks"} => (topFrame = i <=> ~frames[i].wasInIsr)
    BY <1>5
  <1> QED BY <1>3, <1>4, <1>6, <1>7 DEF FramesMatch

\* And of the LSRs, that none is active that waits at a vector.
LEMMA LsrsIInv == IInv => LsrsReleasedTogether
  <1> SUFFICES ASSUME IInv PROVE LsrsReleasedTogether
    OBVIOUS
  <1>1. Book /\ Waiting /\ AcceptedFor
    BY DEF IInv, Handling
  <1>2. DOMAIN frames = 1..Len(frames) /\ (frames = <<>> <=> Len(frames) = 0)
    BY <1>1, FramesAre DEF Book
  <1>3. \A v \in Line : lsrs[v] \cap activated = {}
    BY <1>1 DEF Waiting
  <1>4. ASSUME NEW i \in DOMAIN frames, frames[i].vector \in Line \ {KEvent},
               frames[i].step \in {"read", "set inIsr", "set external", "set frame", "set top"},
               NEW l \in Lsr, TaskTpr[l] = Class(frames[i].vector)
        PROVE  l \notin activated
    <2>1. frames[i].vector \notin {NmiVector, KernelException}
      BY <1>4, LineIs
    <2>2. i = 1
      BY <1>1, <1>2, <2>1 DEF Book, Kinds
    <2>3. frames # <<>> /\ frames[1].step \in EarlySteps
      <3>1. frames # <<>>
        BY <1>2
      <3> QED BY <1>4, <2>2, <3>1 DEF EarlySteps
    <2> QED BY <1>1, <1>4, <2>2, <2>3 DEF AcceptedFor
  <1> QED BY <1>3, <1>4 DEF LsrsReleasedTogether

\* The invariant holds whatever the core has been through.
THEOREM CoreInvariant == CoreSpec => []IInv
  BY StartInv, IsrNextInv, PTL DEF CoreSpec

\* The specification that is checked is a core of which nothing has failed yet.
THEOREM CoreOfIsrSpec == IsrSpec => CoreSpec
  <1>1. IsrInit => AnyStart
    BY DEF IsrInit, AnyStart
  <1> QED BY <1>1, PTL DEF IsrSpec, CoreSpec

\* Each handler of ia32eIsrHandler leaves the per-CPU data as the code it
\* interrupted has them, at whatever step NMIs and faults of the kernel come,
\* and an interrupt stays in service until its own EOI.
THEOREM FramesRestored == CoreSpec => []FramesMatch
  BY CoreInvariant, FramesMatchIInv, PTL

\* ia32eIsrExternalHandler never releases an LSR that is active, since the task
\* priority has kept its interrupt away.
THEOREM LsrsReleased == CoreSpec => []LsrsReleasedTogether
  BY CoreInvariant, LsrsIInv, PTL

\* The handlers use the activation, response and handoff callbacks as Tpr
\* says, at whatever point of them they are interrupted.
THEOREM CoreDrivesTpr == CoreSpec => Spec
  <1>1. AnyStart => Init
    BY DEF AnyStart, IsrStart
  <1>2. IInv /\ [IsrNext]_allVars => [Next]_vars
    BY StepsOfTpr DEF IInv
  <1> QED BY <1>1, <1>2, CoreInvariant, PTL DEF CoreSpec, Spec

\* The cores whose kernels fault use the lock of the exception report as McsLock
\* says.
THEOREM CoreUsesLock == CoreSpec => LockSpec
  <1>1. AnyStart => LockInit
    BY DEF AnyStart, IsrStart
  <1> QED BY <1>1, StepsOfLock, PTL DEF CoreSpec, LockSpec

\* At most one core reports a fault of its kernel.
THEOREM OneReport == CoreSpec => []MutualExclusion
  BY CoreUsesLock, LockExcludes, PTL

\* The counters and the register of the task priority are right whatever
\* interrupts the handlers that change them.
THEOREM CorePriority == CoreSpec => [](CountsAreExact /\ TprIsHighest)
  BY CoreDrivesTpr, CountsCorrect, TprCorrect, PTL
=============================================================================
