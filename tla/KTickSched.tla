----------------------------- MODULE KTickSched -----------------------------
(***************************************************************************)
(* The tick machine composed with a scheduling policy                      *)
(* (src/workhorse/kSched/kSched.c calls the policy through kSchedOps_t).   *)
(* KTick leaves every decision of the policy open; here each one is what   *)
(* SchedRr, SchedCyclic or SchedEdf computes, and the question is whether  *)
(* the composition implements KTick.                                       *)
(*                                                                         *)
(* A core is KTick's machine and the policy's state beside it.  KTick's    *)
(* phases move the tasks; the operators here follow them with the calls    *)
(* kTick.c makes to the policy on the same path.                           *)
(***************************************************************************)
EXTENDS KTick, Integers

CONSTANTS
  Policies,         \* build options KSCHED_POLICY_* to consider
  Prio, Timeslice,  \* RR, cyclic: thread -> its parameters
  Frames,           \* cyclic: the frame table, NoTask for a frame without owner
  VirtualDeadline   \* EDF: thread -> its parameter

\* kPluginInitTaskThread refuses time slices and deadlines of 0 and threads
\* without a frame, and gives every frame to one thread at most.
ASSUME PolicyConfiguration ==
  /\ IsFiniteSet(Thread)
  /\ Policies \subseteq {"RR", "CYCLIC", "EDF"}
  /\ Prio \in [Thread -> Nat]
  /\ Timeslice \in [Thread -> Nat \ {0}]
  /\ Frames \in Seq(Thread \cup {NoTask})
  /\ Thread \subseteq ToSet(Frames)
  /\ VirtualDeadline \in [Thread -> Nat \ {0}]

VARIABLES policy, sched

Rr == INSTANCE SchedRr
Cyclic == INSTANCE SchedCyclic
Edf == INSTANCE SchedEdf

schedVars == <<vars, policy, sched>>

-----------------------------------------------------------------------------
(* kSched.c: the call is passed on to the policy.                          *)

\* kSchedTaskPush; an idle task is not queued
Push(s, t) ==
  IF t = Idle THEN s
  ELSE CASE policy = "RR" -> Rr!Push(s, t)
         [] policy = "CYCLIC" -> Cyclic!Push(s, t)
         [] policy = "EDF" -> Edf!Push(s, t)

\* kSchedTaskPop
Pop(m, s) == CASE policy = "RR" -> Rr!Pop(s)
               [] policy = "CYCLIC" -> Cyclic!Pop(s, Ready(m))
               [] policy = "EDF" -> Edf!Pop(s)

\* kSchedTaskTickCallback on task t, still in state from, once it was charged
TickCallback(m, s, t, from) ==
  IF t \notin Thread THEN s
  ELSE CASE policy = "RR" -> Rr!TickCallback(s, t)
         [] policy = "CYCLIC" -> Cyclic!TickCallback(s, t)
         [] policy = "EDF" -> Edf!TickCallback(s, t,
              IF from = "THREAD_DEFTICK_SLEEP" THEN m.sleepTicks[t] ELSE 0,
              m.currentBudget[t] = 0,
              IF BCS \/ period[t] = 0 THEN period[t] ELSE m.replenishIn[t])

\* kSchedTickTransitionCallback
TickTransitionCallback(s) == IF policy = "EDF" THEN Edf!TickTransitionCallback(s) ELSE s

\* kSchedShouldReschedule
ShouldReschedule(m, s) ==
  CASE policy = "RR" -> Rr!ShouldReschedule(s, m.running)
    [] policy = "CYCLIC" -> Cyclic!ShouldReschedule(s, m.running)
    [] policy = "EDF" -> Edf!ShouldReschedule(s, m.running)

-----------------------------------------------------------------------------
(* kTick.c with its calls to the policy.  (As in KTick operators yield     *)
(* sets, so that each step starts from a value.)                           *)

Core(m, s) == [machine |-> m, sched |-> s]
Composed == Core(Machine, sched)

\* the policy's state after the pushes of a sequence of threads
PushAll(s, order) ==
  LET pushed[i \in 0..Len(order)] == IF i = 0 THEN s ELSE Push(pushed[i - 1], order[i])
  IN  pushed[Len(order)]

\* The threads a phase made ready are pushed.  Those of one phase leave the
\* delta chain in the order of their insertion, which KTick does not keep.
PushReadied(c, n) ==
  {Core(n, PushAll(c.sched, order)) : order \in SetToSeqs(Ready(n) \ Ready(c.machine))}

Replenish(c) == UNION {PushReadied(c, n) : n \in {ReplenishmentPeriod(c.machine)}}
WakeUp(c) == UNION {PushReadied(c, n) : n \in {SleepPeriod(c.machine)}}

\* the policy's part in the loop of kTickHandleDeferredTicks, which takes the
\* machine from m to n
SettleAll(m, n, s, order) ==
  LET settled[i \in 0..Len(order)] ==
        IF i = 0 THEN s
        ELSE LET t == order[i]
                 charged == TickCallback(n, settled[i - 1], t, m.state[t])
             IN  IF n.state[t] = "READY" THEN Push(charged, t) ELSE charged
  IN  settled[Len(order)]

\* kTickHandleDeferredTicks, top of the stack first
SettleDeferred(c) ==
  {Core(n, SettleAll(c.machine, n, c.sched, Reverse(c.machine.deferred))) :
     n \in {HandleDeferredTicks(c.machine)}}

\* kTickRunningTask
Charge(c) ==
  {Core(n, TickCallback(n, c.sched, n.running, "RUNNING")) : n \in {ChargeRunningTask(c.machine)}}

\* kTickTransition up to the rescheduling point
TickCore(c) ==
  LET ticked == Core(c.machine, TickTransitionCallback(c.sched))
      deferred(S) == UNION {SettleDeferred(d) : d \in S}
      charged(S) == UNION {Charge(d) : d \in S}
      replenished(S) == UNION {Replenish(d) : d \in S}
      woken(S) == UNION {WakeUp(d) : d \in S}
  IN  IF BCS THEN woken(charged(deferred(replenished({ticked}))))
             ELSE woken(replenished(charged(deferred({ticked}))))

\* kTickTaskLoadNextState(kTickSchedTaskPop(), K_TASK_STATE_RUNNING)
RunPopped(c) ==
  {Core(LoadNextState(c.machine, p.task, "RUNNING"), p.sched) : p \in {Pop(c.machine, c.sched)}}

\* the running task goes to state s and makes room for another
Replace(c, s) ==
  LET r == c.machine.running
      left == Core(LoadNextState(LeaveRunning(c.machine), r, s),
                   IF s = "READY" THEN Push(c.sched, r) ELSE c.sched)
  IN  UNION {RunPopped(d) : d \in {left}}

\* kTickReschedulingPoint
AskPolicy(c) ==
  LET r == c.machine.running
      budgetDone == r \in Thread /\ c.machine.currentBudget[r] = 0
      answered(asked) == Core(c.machine, asked.sched)
  IN  CASE r \in Lsr -> {c}
        [] budgetDone -> Replace(c, "THREAD_THROTTLED")
        [] r \notin Lsr /\ ~budgetDone ->
             UNION {IF asked.yes THEN Replace(answered(asked), "READY") ELSE {answered(asked)} :
                      asked \in {ShouldReschedule(c.machine, c.sched)}}

\* the tail of kTickReschedule; see ResumePending
ResumePreempted(c) ==
  LET m == c.machine
      p == m.pending
      n == [m EXCEPT !.pending = NoTask,
                     !.deferred = IF m.state[p] = "DEFTICK_PENDING" THEN Front(@) ELSE @]
  IN  UNION {AskPolicy(Core(resumed, c.sched)) : resumed \in {LoadNextState(n, p, "RUNNING")}}

\* kTickReschedule; where the policy has no part, it does what Reschedule does
Dispatch(c) ==
  LET m == c.machine
  IN  CASE m.running # NoTask \/ m.pendingLsrs # <<>> -> {Core(n, c.sched) : n \in Reschedule(m)}
        [] m.running = NoTask /\ m.pendingLsrs = <<>> /\ m.pending = NoTask -> RunPopped(c)
        [] m.running = NoTask /\ m.pendingLsrs = <<>> /\ m.pending # NoTask -> ResumePreempted(c)

-----------------------------------------------------------------------------

\* the plugins pushed the threads in some order
SInit ==
  /\ Init
  /\ policy \in Policies
  /\ \E order \in SetToSeqs(Thread) :
       sched = PushAll(CASE policy = "RR" -> Rr!Empty
                         [] policy = "CYCLIC" -> Cyclic!Empty
                         [] policy = "EDF" -> Edf!Empty, order)

Continue(c) == Becomes(c.machine) /\ sched' = c.sched /\ UNCHANGED policy

SwitchTo(m, s) ==
  \E left \in {LoadNextState(LeaveRunning(m), runningTask, s)} :
    \E c \in Dispatch(Core(left, sched)) : Continue(c)

SHandoff == runningTask = NoTask /\ \E c \in Dispatch(Composed) : Continue(c)
STick ==
  /\ runningTask # NoTask
  /\ \E c \in TickCore(Composed) : \E d \in AskPolicy(c) : Continue(d)
SYield == runningTask \in Thread /\ SwitchTo(Machine, "THREAD_DEFTICK_YIELD")
SThrottle == runningTask \in Thread /\ SwitchTo(Machine, "THREAD_DEFTICK_THROTTLE")
SSleep(n) ==
  /\ runningTask \in Thread
  /\ SwitchTo([Machine EXCEPT !.sleepTicks[runningTask] = n], "THREAD_DEFTICK_SLEEP")
SLsrDone == runningTask \in Lsr /\ SwitchTo(Machine, "LSR_DORMANT")
SFailure == runningTask \in Thread \cup Lsr /\ SwitchTo(Machine, "FAILURE")
SExternalInterrupt(v) ==
  /\ runningTask # NoTask /\ Deliverable(v) /\ lsrs[v] # <<>>
  /\ \E pushCurrent \in PushCurrents :
       LET m == IF pushCurrent THEN LsrPushCurrent(Machine) ELSE Machine
       IN  \E c \in Dispatch(Core(LsrPushAll(m, v), sched)) : Continue(c)

STickless ==
  \/ SHandoff
  \/ SYield
  \/ SThrottle
  \/ \E n \in Sleeps : SSleep(n)
  \/ SLsrDone
  \/ SFailure
  \/ \E v \in Vector : SExternalInterrupt(v)

SNext == STick \/ STickless

SSpec == SInit /\ [][SNext]_schedVars

\* The core is handed off in the end, and the periodic tick keeps coming.
SFairness == WF_schedVars(SHandoff) /\ WF_schedVars(STick)
-----------------------------------------------------------------------------

\* Every policy does what KTick asks of one: it pops a thread whenever one is
\* ready and idle otherwise, and asks to preempt a thread only after a tick
\* and when another one is ready.
ImplementsKTick == Spec

\* The policy and the tick machine agree on who is ready: every ready thread
\* is in exactly one place of the policy's structures, and nobody else is.
ReadyHeldByPolicy ==
  LET ready == Ready(Machine)
  IN  CASE policy = "RR" ->
             /\ \A p \in Rr!Prios :
                  /\ ToSet(sched.qs[p]) = {t \in ready : Prio[t] = p}
                  /\ IsInjective(sched.qs[p])
             /\ sched.activeQs = {Prio[t] : t \in ready}
        [] policy = "CYCLIC" -> sched.numReady = Cardinality(ready)
        [] policy = "EDF" ->
             /\ ToSet(sched.chain) = ready
             /\ IsInjective(sched.chain)
             /\ \A i, j \in DOMAIN sched.chain :
                  i < j => sched.left[sched.chain[i]] <= sched.left[sched.chain[j]]

Chargeable == {t \in Thread : state[t] \in DefTickStates \cup {"RUNNING"}}

\* Nothing unsigned goes below zero, and nothing that is at zero stays there
\* while a tick may come: time slices (RR, cyclic) and time to the deadline
\* (EDF, the K_DYNAMIC_ASSERT of kSchedEdf.c).
TicksLeftToCharge ==
  \A t \in Chargeable :
    IF policy = "EDF" THEN sched.left[t] > 0 ELSE sched.remaining[t] > 0

\* RR: no ready thread outranks the one that runs (rr.md).
HighestPriorityRuns ==
  policy = "RR" /\ runningTask \in Thread =>
    \A t \in Thread : state[t] = "READY" => Prio[t] <= Prio[runningTask]

\* EDF: no ready thread has less time to its deadline, as the policy keeps
\* it, than the one that runs.
EarliestDeadlineRuns ==
  policy = "EDF" /\ runningTask \in Thread =>
    \A t \in Thread : state[t] = "READY" => sched.left[runningTask] <= sched.left[t]

\* A ready thread is served, as long as LSRs leave the core from time to
\* time: with the cyclic policy every thread, with RR those of the highest
\* priority.
NoStarvation ==
  []<>(runningTask \notin Lsr) =>
    \A t \in Thread :
      /\ state[t] = "READY"
      /\ policy = "CYCLIC" \/ (policy = "RR" /\ \A u \in Thread : Prio[u] <= Prio[t])
      ~> state[t] # "READY"
=============================================================================
