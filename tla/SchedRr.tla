------------------------------ MODULE SchedRr ------------------------------
(***************************************************************************)
(* The round robin policy (src/workhorse/kSched/kSchedPolicy/kSchedRr.c):  *)
(* a FIFO queue of ready threads per priority, a bitmap of the queues that *)
(* are not empty, and what is left of the time slice of each thread.       *)
(* Operations are operators on the record of one core's scheduler.  (The   *)
(* window epochs it counts for LSRs and idle are statistics nothing reads.)*)
(***************************************************************************)
EXTENDS Integers, Sequences, FiniteSets, SequencesExt

CONSTANTS Thread, Idle,
          Prio,       \* thread -> param.paramRr.prio
          Timeslice   \* thread -> param.paramRr.timesliceTicks

Prios == {Prio[t] : t \in Thread}

Empty == [qs |-> [p \in Prios |-> <<>>], activeQs |-> {},
          remaining |-> [t \in Thread |-> 0]]

\* (bug: the bitmap is not told of the first thread of a queue)
PushInactive(s, t) == [s EXCEPT !.qs[Prio[t]] = Append(@, t)]

\* kSchedTaskPushRr
Push(s, t) ==
  [s EXCEPT !.qs[Prio[t]] = Append(@, t), !.activeQs = @ \cup {Prio[t]}]

\* bitmapFls: the last bit set from lowBound on, -1 if there is none
Fls(bits, lowBound) ==
  LET set == {b \in bits : b >= lowBound}
  IN  IF set = {} THEN -1 ELSE CHOOSE b \in set : \A c \in set : b >= c

\* kSchedTaskPopRr
Pop(s) ==
  LET idx == Fls(s.activeQs, 0)
  IN  IF idx < 0 THEN [task |-> Idle, sched |-> s]
      ELSE LET t == Head(s.qs[idx])
           IN  [task |-> t,
                sched |-> [s EXCEPT
                  !.qs[idx] = Tail(@),
                  !.activeQs = IF Len(s.qs[idx]) = 1 THEN @ \ {idx} ELSE @,
                  !.remaining[t] = Timeslice[t]]]

\* kSchedTaskTickCallbackRr.  remainingTimesliceTicks is unsigned: going
\* below zero is what must not happen.
TickCallback(s, t) == [s EXCEPT !.remaining[t] = @ - 1]

\* (bug: only the thread's own queue counts)
ShouldRescheduleOwnQueue(s, t) ==
  LET done == t \in Thread /\ s.remaining[t] = 0
      alone == t \in Thread /\ Prio[t] \notin s.activeQs
  IN  [yes |-> IF t = Idle THEN s.activeQs # {} ELSE done /\ ~alone,
       sched |-> IF done /\ alone THEN [s EXCEPT !.remaining[t] = Timeslice[t]] ELSE s]

\* kSchedShouldRescheduleRr for thread or idle t: a thread alone at its
\* priority starts a new slice
ShouldReschedule(s, t) ==
  IF t = Idle THEN [yes |-> s.activeQs # {}, sched |-> s]
  ELSE LET idx == Fls(s.activeQs, Prio[t])
           done == s.remaining[t] = 0
       IN  [yes |-> idx > Prio[t] \/ (idx = Prio[t] /\ done),
            sched |-> IF idx < Prio[t] /\ done
                      THEN [s EXCEPT !.remaining[t] = Timeslice[t]] ELSE s]
=============================================================================
