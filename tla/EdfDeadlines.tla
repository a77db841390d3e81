---------------------------- MODULE EdfDeadlines ----------------------------
(***************************************************************************)
(* The deadlines of the EDF policy against time.  KTickSched is observed   *)
(* by one history variable, the time to the deadline of each thread, which *)
(* every tick shortens by one wherever the thread is.  The policy knows a  *)
(* deadline only as a number it corrects beforehand for the time a thread  *)
(* will be away; the two must agree when it chooses.                       *)
(***************************************************************************)
EXTENDS KTickSched

VARIABLE due  \* thread -> ticks until its deadline, 0 once it passed

\* edf.md: an expired deadline is reset the next time the task becomes ready
Elapse ==
  due' = [t \in Thread |->
    IF due[t] <= 1 THEN IF state'[t] \in {"READY", "RUNNING", "PENDING"}
                        THEN VirtualDeadline[t] ELSE 0
    ELSE due[t] - 1]

DInit == SInit /\ policy = "EDF" /\ due = VirtualDeadline
DNext == (STick /\ Elapse) \/ (STickless /\ UNCHANGED due)
DSpec == DInit /\ [][DNext]_<<schedVars, due>>
-----------------------------------------------------------------------------

\* Whenever the policy compares two deadlines they are what time made of
\* them: away or not, throttled or preempted, a thread's deadline came
\* closer by one with each tick.
DeadlinesAreTime ==
  policy = "EDF" =>
    \A t \in Thread : state[t] \in {"READY", "RUNNING"} => sched.left[t] = due[t]

\* "The scheduler always selects the task whose deadline will expire the
\* soonest" (edf.md).
SoonestDeadlineRuns ==
  runningTask \in Thread =>
    \A t \in Thread : state[t] = "READY" => due[runningTask] <= due[t]
=============================================================================
