----------------------------- MODULE DeltaChain -----------------------------
(***************************************************************************)
(* include/lib/dsa/deltaChain.h: timers kept in a list, each with only its *)
(* distance (delta) from the one before it, so that a tick touches a       *)
(* single node.  expectedEpoch and currentEpoch are free-running counters  *)
(* of EpochSize values (2^32 in the code) used to ask for the time left.   *)
(*                                                                         *)
(* kTick keeps the replenishment and the sleep chain this way, the EDF     *)
(* policy its ready threads.  The chain implements TimerQueue.             *)
(***************************************************************************)
EXTENDS Integers, Sequences, SequencesExt

CONSTANTS Node, MaxDelta,
          EpochSize,   \* number of epochs before the counters wrap around
          FirstEpoch   \* where the epoch counter starts

ASSUME EpochsOutlastTimers ==
  MaxDelta \in Nat /\ EpochSize \in Nat /\ MaxDelta < EpochSize /\ FirstEpoch \in 0..EpochSize - 1

VARIABLES
  dq,             \* the list, front first
  delta,          \* node -> node->delta; kept by a node that was popped
  expectedEpoch,  \* node -> node->expectedEpoch
  currentEpoch    \* chain->currentEpoch

vars == <<dq, delta, expectedEpoch, currentEpoch>>

\* Where the loop of deltaChainInsert stops for a delta of d, and what is
\* left of d there: rest[i] is what is left after the first i nodes.
Slot(d) ==
  LET rest[i \in 0..Len(dq)] == IF i = 0 THEN d ELSE rest[i - 1] - delta[dq[i]]
      Stops(i) == i > Len(dq) \/ delta[dq[i]] > rest[i - 1]
      at == CHOOSE i \in 1..Len(dq) + 1 : Stops(i) /\ \A j \in 1..i - 1 : ~Stops(j)
  IN  [at |-> at, rest |-> rest[at - 1]]

\* the deltas of the first i nodes of a list
Sum(list, deltas, i) ==
  LET sum[j \in 0..Len(list)] == IF j = 0 THEN 0 ELSE sum[j - 1] + deltas[list[j]]
  IN  sum[i]

\* ticks until the i-th node of the chain expires
Left(i) == Sum(dq, delta, i)

Init ==
  /\ dq = <<>>
  /\ delta = [n \in Node |-> 0]
  /\ expectedEpoch = [n \in Node |-> 0]
  /\ currentEpoch = FirstEpoch

\* (bug: the node inserted before takes no time from the next one)
InsertKeepsNext(n, d) ==
  /\ n \notin ToSet(dq)
  /\ dq' = InsertAt(dq, Slot(d).at, n)
  /\ delta' = [delta EXCEPT ![n] = Slot(d).rest]
  /\ expectedEpoch' = [expectedEpoch EXCEPT ![n] = (currentEpoch + d) % EpochSize]
  /\ UNCHANGED currentEpoch

\* deltaChainInsert
Insert(n, d) ==
  /\ n \notin ToSet(dq)
  /\ LET slot == Slot(d)
     IN  /\ dq' = InsertAt(dq, slot.at, n)
         /\ delta' = [m \in Node |->
              CASE m = n -> slot.rest
                [] slot.at <= Len(dq) /\ m = dq[slot.at] -> delta[m] - slot.rest
                [] m # n /\ ~(slot.at <= Len(dq) /\ m = dq[slot.at]) -> delta[m]]
  /\ expectedEpoch' = [expectedEpoch EXCEPT ![n] = (currentEpoch + d) % EpochSize]
  /\ UNCHANGED currentEpoch

\* (bug: every node gets one tick closer to the one before it)
TickEveryNode ==
  /\ delta' = [n \in Node |-> IF n \in ToSet(dq) /\ delta[n] # 0 THEN delta[n] - 1 ELSE delta[n]]
  /\ currentEpoch' = (currentEpoch + 1) % EpochSize
  /\ UNCHANGED <<dq, expectedEpoch>>

\* deltaChainTick: the first node that has not expired gets one tick closer
Tick ==
  /\ delta' = [n \in Node |->
       IF \E i \in DOMAIN dq : dq[i] = n /\ delta[n] # 0 /\ \A j \in 1..i - 1 : delta[dq[j]] = 0
       THEN delta[n] - 1 ELSE delta[n]]
  /\ currentEpoch' = (currentEpoch + 1) % EpochSize
  /\ UNCHANGED <<dq, expectedEpoch>>

\* deltaChainPopExpired
PopExpired ==
  /\ dq # <<>> /\ delta[Head(dq)] = 0
  /\ dq' = Tail(dq)
  /\ UNCHANGED <<delta, expectedEpoch, currentEpoch>>

\* (bug: what was left of a popped node is lost)
PopForgetsRest ==
  /\ dq # <<>>
  /\ dq' = Tail(dq)
  /\ UNCHANGED <<delta, expectedEpoch, currentEpoch>>

\* deltaChainPop: the next node inherits what was left of the popped one
Pop ==
  /\ dq # <<>>
  /\ dq' = Tail(dq)
  /\ delta' = IF Len(dq) = 1 THEN delta ELSE [delta EXCEPT ![dq[2]] = @ + delta[dq[1]]]
  /\ UNCHANGED <<expectedEpoch, currentEpoch>>

Next ==
  \/ \E n \in Node, d \in 0..MaxDelta : Insert(n, d)
  \/ Tick
  \/ PopExpired
  \/ Pop

Spec == Init /\ [][Next]_vars

\* deltaChainTimeUntil
TimeUntil(n) == (expectedEpoch[n] + (EpochSize - currentEpoch)) % EpochSize
-----------------------------------------------------------------------------

\* The chain behaves as a queue of timers with absolute times: an insertion,
\* a pop or a tick never moves the due time of another node.
TQ == INSTANCE TimerQueue WITH
        timers <- [i \in DOMAIN dq |-> [node |-> dq[i], left |-> Left(i)]]
ImplementsTimerQueue == TQ!Spec

\* The two bookkeepings agree: what the epochs say of a node that has not
\* expired is what the deltas before it add up to, across the wrap-around of
\* the counters (kTickThrottleTimeLeft relies on it).
EpochsAgree ==
  \A i \in DOMAIN dq : Left(i) > 0 => TimeUntil(dq[i]) = Left(i)

\* A popped node takes its whole remaining time with it: what the EDF policy
\* reads as the time to the deadline of the thread it runs.
PoppedWithTimeLeft ==
  [][\A n \in Node : n \in ToSet(dq) /\ n \notin ToSet(dq)' =>
       delta'[n] = 0 \/ delta'[n] = TimeUntil(n)]_vars
=============================================================================
