---------------------------- MODULE SchedCyclic ----------------------------
(***************************************************************************)
(* The cyclic policy (src/workhorse/kSched/kSchedPolicy/kSchedCyclic.c): a *)
(* fixed table of frames, each owned by one thread, walked in a circle.    *)
(* The frame table is filled at the first push of every thread, before the *)
(* core starts; it is a constant here.                                     *)
(***************************************************************************)
EXTENDS Integers, Sequences

CONSTANTS Thread, Idle,
          Frames,     \* sequence of threads; NoTask, the NULL pointer, for a frame without owner
          Timeslice   \* thread -> param.paramCyclic.timesliceTicks

Empty == [clock |-> 0, numReady |-> 0, remaining |-> [t \in Thread |-> 0]]

\* kSchedTaskPushCyclic
Push(s, t) == [s EXCEPT !.numReady = @ + 1]

\* (bug: the clock stays on the frame that was chosen)
PopKeepsFrame(s, ready) ==
  IF s.numReady = 0 THEN [task |-> Idle, sched |-> s]
  ELSE LET frame(i) == (s.clock + i) % Len(Frames)
           due == {i \in 0..Len(Frames) - 1 : Frames[frame(i) + 1] \in ready}
           first == frame(CHOOSE i \in due : \A j \in due : i <= j)
           t == Frames[first + 1]
       IN  [task |-> t,
            sched |-> [s EXCEPT !.clock = first, !.numReady = @ - 1,
                                !.remaining[t] = Timeslice[t]]]

\* (bug: the thread popped still counts as ready)
PopStillReady(s, ready) ==
  LET p == PopKeepsFrame(s, ready)
  IN  IF p.task = Idle THEN p ELSE [p EXCEPT !.sched.numReady = s.numReady]

\* kSchedTaskPopCyclic, which looks at the states of the tasks: ready is the
\* set of those in state READY
Pop(s, ready) ==
  IF s.numReady = 0 THEN [task |-> Idle, sched |-> s]
  ELSE LET frame(i) == (s.clock + i) % Len(Frames)
           due == {i \in 0..Len(Frames) - 1 : Frames[frame(i) + 1] \in ready}
           first == frame(CHOOSE i \in due : \A j \in due : i <= j)
           t == Frames[first + 1]
       IN  [task |-> t,
            sched |-> [s EXCEPT !.clock = first + 1, !.numReady = @ - 1,
                                !.remaining[t] = Timeslice[t]]]

\* kSchedTaskTickCallbackCyclic
TickCallback(s, t) == [s EXCEPT !.remaining[t] = @ - 1]

\* kSchedShouldRescheduleCyclic for thread or idle t
ShouldReschedule(s, t) ==
  [yes |-> s.numReady > 0 /\ (t = Idle \/ s.remaining[t] = 0),
   sched |-> IF t \in Thread /\ s.remaining[t] = 0 /\ s.numReady = 0
             THEN [s EXCEPT !.remaining[t] = Timeslice[t]] ELSE s]
=============================================================================
