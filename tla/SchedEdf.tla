------------------------------ MODULE SchedEdf ------------------------------
(***************************************************************************)
(* The earliest deadline first policy                                      *)
(* (src/workhorse/kSched/kSchedPolicy/kSchedEdf.c): the ready threads in a *)
(* delta chain by the time to their deadlines.  left[t] is that time, for  *)
(* a thread in the chain and for one that was popped with it (modules      *)
(* DeltaChain and TimerQueue).                                             *)
(***************************************************************************)
EXTENDS Integers, Sequences, FiniteSets, SequencesExt

CONSTANTS Thread, Idle,
          VirtualDeadline  \* thread -> param.paramEdf.virtualDeadline

Empty == [chain |-> <<>>, left |-> [t \in Thread |-> 0]]

Monus(a, b) == IF a < b THEN 0 ELSE a - b

\* deltaChainInsert: behind everything that expires no later
Insert(s, t, d) ==
  LET before == {i \in DOMAIN s.chain : s.left[s.chain[i]] <= d}
  IN  [s EXCEPT !.chain = InsertAt(@, Cardinality(before) + 1, t), !.left[t] = d]

\* kSchedFixupChainEdf: as long as there is a thread in front whose deadline
\* expired while it was waiting, that thread starts a new one
FixupChain(s) ==
  LET fixed[i \in 0..Len(s.chain)] ==
        IF i = 0 THEN s
        ELSE LET r == fixed[i - 1]
                 t == Head(r.chain)
             IN  IF r.left[t] > 0 THEN r
                 ELSE Insert([r EXCEPT !.chain = Tail(@)], t, VirtualDeadline[t])
  IN  fixed[Len(s.chain)]

\* kSchedTickTransitionCallbackEdf, deltaChainTick
TickTransitionCallback(s) ==
  [s EXCEPT !.left = [t \in Thread |->
     IF t \in ToSet(s.chain) THEN Monus(@[t], 1) ELSE @[t]]]

\* (bug: a thread that gave up the core gets a new deadline)
PushRenews(s, t) == Insert(s, t, VirtualDeadline[t])

\* kSchedTaskPushEdf
Push(s, t) == Insert(s, t, IF s.left[t] = 0 THEN VirtualDeadline[t] ELSE s.left[t])

\* kSchedTaskPopEdf
Pop(s) ==
  LET f == FixupChain(s)
  IN  IF f.chain = <<>> THEN [task |-> Idle, sched |-> f]
      ELSE [task |-> Head(f.chain), sched |-> [f EXCEPT !.chain = Tail(@)]]

\* (bug: a deadline that is reached is not renewed)
TickCallbackNoRenewal(s, t, sleep, throttled, timeLeft) ==
  LET expired == sleep > 0 /\ s.left[t] < sleep
      rest == IF expired THEN 0 ELSE s.left[t] - (IF sleep = 0 THEN 1 ELSE sleep)
  IN  [s EXCEPT !.left[t] = IF throttled THEN Monus(rest, timeLeft) ELSE rest]

\* kSchedTaskTickCallbackEdf.  sleep: ticks the thread asks to sleep for, 0
\* if it does not; throttled: its budget ran out; timeLeft: until it comes
\* back.  The time it will be away is taken from its deadline beforehand.
TickCallback(s, t, sleep, throttled, timeLeft) ==
  LET expired == sleep > 0 /\ s.left[t] < sleep
      rest == IF expired THEN 0 ELSE s.left[t] - (IF sleep = 0 THEN 1 ELSE sleep)
  IN  [s EXCEPT !.left[t] =
         CASE throttled -> Monus(rest, timeLeft)
           [] ~throttled /\ rest = 0 /\ ~expired -> VirtualDeadline[t]
           [] ~throttled /\ (rest # 0 \/ expired) -> rest]

\* (bug: relative deadlines are compared instead of the time left to them)
ShouldRescheduleRelative(s, t) ==
  IF t = Idle THEN [yes |-> s.chain # <<>>, sched |-> s]
  ELSE LET f == FixupChain(s)
       IN  [yes |-> f.chain # <<>> /\ VirtualDeadline[Head(f.chain)] < VirtualDeadline[t],
            sched |-> f]

\* kSchedShouldRescheduleEdf for thread or idle t
ShouldReschedule(s, t) ==
  IF t = Idle THEN [yes |-> s.chain # <<>>, sched |-> s]
  ELSE LET f == FixupChain(s)
       IN  [yes |-> f.chain # <<>> /\ f.left[Head(f.chain)] < f.left[t], sched |-> f]
=============================================================================
