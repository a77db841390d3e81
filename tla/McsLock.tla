------------------------------ MODULE McsLock ------------------------------
(***************************************************************************)
(* The queue lock of include/lib/mcsLock.h, one step per atomic access. A  *)
(* core that wants the lock puts a node of its own behind the tail and     *)
(* spins on that node; the core that leaves unlocks its successor's node,  *)
(* for which it may have to wait until the successor has linked itself.    *)
(***************************************************************************)
EXTENDS Sequences

CONSTANTS Node,  \* one mcsNode_t per core that takes the lock
          None

ASSUME NoneIsNoNode == None \notin Node

VARIABLES
  tail,   \* lock->tail
  next,   \* node -> its successor
  state,  \* node -> "locked" or "unlocked"
  prev,   \* node -> prev, what __mcsAcquire found at the tail
  lockPc, \* node -> its next step
  queue   \* history: the nodes in the order of their exchange

lockVars == <<tail, next, state, prev, lockPc, queue>>

LockInit ==
  /\ tail = None
  /\ next = [n \in Node |-> None]
  /\ state = [n \in Node |-> "locked"]
  /\ prev = [n \in Node |-> None]
  /\ lockPc = [n \in Node |-> "idle"]
  /\ queue = <<>>

LockGoto(n, step) == lockPc' = [lockPc EXCEPT ![n] = step]

\* __mcsNodeInit, on a node that nobody sees yet, and the exchange of
\* __mcsAcquire
Exchange(n) ==
  /\ lockPc[n] = "idle"
  /\ next' = [next EXCEPT ![n] = None]
  /\ state' = [state EXCEPT ![n] = "locked"]
  /\ prev' = [prev EXCEPT ![n] = tail]
  /\ tail' = n
  /\ queue' = Append(queue, n)
  /\ LockGoto(n, IF tail = None THEN "held" ELSE "link")

Link(n) ==
  /\ lockPc[n] = "link"
  /\ next' = [next EXCEPT ![prev[n]] = n]
  /\ LockGoto(n, "spin")
  /\ UNCHANGED <<tail, state, prev, queue>>

Spin(n) ==
  /\ lockPc[n] = "spin" /\ state[n] = "unlocked"
  /\ LockGoto(n, "held")
  /\ UNCHANGED <<tail, next, state, prev, queue>>

\* __mcsRelease
ReadNext(n) ==
  /\ lockPc[n] = "held"
  /\ LockGoto(n, IF next[n] = None THEN "cas" ELSE "unlock")
  /\ UNCHANGED <<tail, next, state, prev, queue>>

\* (bug: the tail is cleared without looking whether it still is the node)
CompareExchangeBlind(n) ==
  /\ lockPc[n] = "cas"
  /\ LockGoto(n, "idle") /\ tail' = None /\ queue' = Tail(queue)
  /\ UNCHANGED <<next, state, prev>>

CompareExchange(n) ==
  /\ lockPc[n] = "cas"
  /\ \/ tail = n /\ LockGoto(n, "idle") /\ tail' = None /\ queue' = Tail(queue)
     \/ tail # n /\ LockGoto(n, "await") /\ UNCHANGED <<tail, queue>>
  /\ UNCHANGED <<next, state, prev>>

\* (bug: the releasing core does not wait for its successor's link)
AwaitNextNot(n) ==
  /\ lockPc[n] = "await"
  /\ LockGoto(n, "idle") /\ queue' = Tail(queue)
  /\ UNCHANGED <<tail, next, state, prev>>

AwaitNext(n) ==
  /\ lockPc[n] = "await" /\ next[n] # None
  /\ LockGoto(n, "unlock")
  /\ UNCHANGED <<tail, next, state, prev, queue>>

Unlock(n) ==
  /\ lockPc[n] = "unlock"
  /\ state' = [state EXCEPT ![next[n]] = "unlocked"]
  /\ LockGoto(n, "idle") /\ queue' = Tail(queue)
  /\ UNCHANGED <<tail, next, prev>>

Release(n) == ReadNext(n) \/ CompareExchange(n) \/ AwaitNext(n) \/ Unlock(n)

LockNext == \E n \in Node : Exchange(n) \/ Link(n) \/ Spin(n) \/ Release(n)

LockSpec == LockInit /\ [][LockNext]_lockVars
-----------------------------------------------------------------------------

Holds(n) == lockPc[n] \in {"held", "cas", "await", "unlock"}

\* At most one core holds the lock, and they hold it in the order of their
\* exchanges: the windows between an exchange and its link, and between the
\* two reads of a release, let no other one in and none past.
MutualExclusion ==
  \A n \in Node : Holds(n) => queue # <<>> /\ n = Head(queue)
=============================================================================
