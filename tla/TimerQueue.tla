----------------------------- MODULE TimerQueue -----------------------------
(***************************************************************************)
(* What a delta chain (include/lib/dsa/deltaChain.h) promises its users,   *)
(* with no deltas in it: a queue of timers, each with the ticks it has     *)
(* left, served earliest first and, among equals, in order of insertion.   *)
(***************************************************************************)
EXTENDS Naturals, Sequences, SequencesExt

CONSTANTS Node,     \* the timers
          MaxDelta  \* longest time a timer is set to

VARIABLE timers     \* sequence of [node, left] records

Nodes(q) == {q[i].node : i \in DOMAIN q}

Init == timers = <<>>

Insert(n, d) ==
  /\ n \notin Nodes(timers)
  /\ \E i \in 1..Len(timers) + 1 :
       /\ \A j \in DOMAIN timers : j < i <=> timers[j].left <= d
       /\ timers' = InsertAt(timers, i, [node |-> n, left |-> d])

Tick ==
  timers' = [i \in DOMAIN timers |->
    [timers[i] EXCEPT !.left = IF @ = 0 THEN 0 ELSE @ - 1]]

PopExpired == timers # <<>> /\ Head(timers).left = 0 /\ timers' = Tail(timers)

Pop == timers # <<>> /\ timers' = Tail(timers)

Next ==
  \/ \E n \in Node, d \in 0..MaxDelta : Insert(n, d)
  \/ Tick
  \/ PopExpired
  \/ Pop

Spec == Init /\ [][Next]_timers
=============================================================================
