------------------------------- MODULE KTick -------------------------------
(***************************************************************************)
(* The tick machine of one core (src/workhorse/kTick/kTick.c) with the     *)
(* routines that drive it: the tick, the scheduling control syscalls, the  *)
(* failure path of exceptions and the delivery of LSRs.  Cores share no    *)
(* task and no machine, so one core is the whole story.                    *)
(*                                                                         *)
(* Every handler runs with interrupts disabled, hence as one step.  Each C *)
(* function is an operator from machine records to machine records (or to  *)
(* the set of records it may leave behind, where the policy decides), and  *)
(* an action is the composition the handler calls.                         *)
(*                                                                         *)
(* The scheduling policy is kept abstract, as kSchedOps_t does: a pop      *)
(* returns some ready thread, or idle when there is none.  Delta chains    *)
(* are kept as the number of ticks until each node expires, 0 for a node   *)
(* that is not in the chain; module DeltaChain shows that this is what the *)
(* chain of deltas computes.                                               *)
(***************************************************************************)
EXTENDS Naturals, Sequences, FiniteSets, SequencesExt

CONSTANTS
  Thread, Lsr,   \* the tasks of this core
  Idle,          \* its idle task
  NoTask,        \* the NULL task pointer
  Vector,        \* interrupt vectors monitored by LSRs
  LsrVector,     \* LSR -> the vector it monitors
  VectorPrio,    \* vector -> priority class (ia32e: vector / 16)
  ThreadTpr,     \* thread -> task priority it asks for
  Budgets,       \* budgets a plugin may give a thread
  Periods,       \* periods a plugin may give a thread
  Sleeps,        \* sleep lengths in ticks
  PushCurrents   \* does the port push the current task before new LSRs?

Task == Thread \cup Lsr \cup {Idle}

\* kPluginInitTaskThread refuses a budget of 0; kSysSchedCtrl makes a sleep
\* of 0 a nop; the ports refuse LSR priorities 0, 1 and 15 and threads get a
\* task priority of at least 1.
ASSUME Configuration ==
  /\ Idle \notin Thread \cup Lsr
  /\ Thread \cap Lsr = {}
  /\ IsFiniteSet(Lsr)
  /\ NoTask \notin Task
  /\ LsrVector \in [Lsr -> Vector]
  /\ VectorPrio \in [Vector -> 2..14]
  /\ ThreadTpr \in [Thread -> 1..14]
  /\ Budgets \subseteq Nat \ {0}
  /\ Periods \subseteq Nat
  /\ Sleeps \subseteq Nat \ {0}
  /\ PushCurrents \subseteq BOOLEAN

VARIABLES
  state,            \* task -> kSchedState_t
  runningTask,      \* machine->runningTask
  pendingTaskLsr,   \* machine->pendingTaskLsr
  deferredTicks,    \* machine->deferredTicks, top of the stack last
  pendingLsrChain,  \* machine->pendingLsrChain, top of the stack last
  lsrs,             \* vector -> cpu->lsrs[vector], top of the stack last
  currentBudget,    \* thread -> tick.currentBudget
  replenishIn,      \* thread -> ticks until tick.replenishNode expires
  sleepIn,          \* thread -> ticks until tick.sleepNode expires
  sleepTicks,       \* thread -> tick.sleepTicks
  budget, period,   \* thread -> tick.budget, tick.period, set by the plugin
  algorithm         \* KSCHED_ALGORITHM, a build option

\* what is decided before the core starts and no handler changes
params == <<budget, period, algorithm>>
vars == <<state, runningTask, pendingTaskLsr, deferredTicks, pendingLsrChain,
          lsrs, currentBudget, replenishIn, sleepIn, sleepTicks, params>>

\* The burst-cooldown server, or else the deferrable server.
BCS == algorithm = "BCS"

\* A thread that left the core before its tick: it is charged at the tick.
DefTickThreadStates ==
  {"THREAD_DEFTICK_YIELD", "THREAD_DEFTICK_THROTTLE", "THREAD_DEFTICK_SLEEP"}
DefTickStates == DefTickThreadStates \cup {"DEFTICK_PENDING"}
InactiveStates == {"THREAD_THROTTLED", "LSR_DORMANT", "THREAD_SLEEP", "FAILURE"}
ThreadStates == DefTickStates \cup
  {"READY", "RUNNING", "PENDING", "THREAD_THROTTLED", "THREAD_SLEEP", "FAILURE"}
LsrStates == {"LSR_DORMANT", "LSR_PENDING", "RUNNING", "FAILURE"}
IdleStates == {"READY", "RUNNING", "DEFTICK_PENDING", "PENDING"}

Activated(s) == s \notin InactiveStates

-----------------------------------------------------------------------------
(* The machine as a record, so that a handler is a composition of phases.  *)

Machine ==
  [state |-> state, running |-> runningTask, pending |-> pendingTaskLsr,
   deferred |-> deferredTicks, pendingLsrs |-> pendingLsrChain, lsrs |-> lsrs,
   currentBudget |-> currentBudget, replenishIn |-> replenishIn,
   sleepIn |-> sleepIn, sleepTicks |-> sleepTicks]

Becomes(m) ==
  /\ state' = m.state
  /\ runningTask' = m.running
  /\ pendingTaskLsr' = m.pending
  /\ deferredTicks' = m.deferred
  /\ pendingLsrChain' = m.pendingLsrs
  /\ lsrs' = m.lsrs
  /\ currentBudget' = m.currentBudget
  /\ replenishIn' = m.replenishIn
  /\ sleepIn' = m.sleepIn
  /\ sleepTicks' = m.sleepTicks
  /\ UNCHANGED params

Ready(m) == {t \in Thread : m.state[t] = "READY"}

\* kTickTaskLoadNextState for the states a single task is moved to outside
\* the loops of the tick.  (The loops move sets of tasks; see below.)
LoadNextState(m, t, s) ==
  LET n == [m EXCEPT !.state[t] = s]
  IN  CASE m.state[t] = s -> m
        [] m.state[t] # s /\ s = "RUNNING" -> [n EXCEPT !.running = t]
        [] m.state[t] # s /\ s = "THREAD_THROTTLED" ->
             IF BCS THEN [n EXCEPT !.replenishIn[t] = period[t]] ELSE n
        [] m.state[t] # s /\ s = "LSR_DORMANT" ->
             [n EXCEPT !.lsrs[LsrVector[t]] = Append(@, t)]
        [] m.state[t] # s /\ s \in DefTickThreadStates ->
             [n EXCEPT !.deferred = Append(@, t)]
        [] m.state[t] # s /\ s = "DEFTICK_PENDING" ->
             [n EXCEPT !.pending = t, !.deferred = Append(@, t)]
        [] m.state[t] # s /\ s = "LSR_PENDING" ->
             [n EXCEPT !.pendingLsrs = Append(@, t)]
        [] m.state[t] # s /\ s \in {"READY", "FAILURE"} -> n

\* kTickPrepareLeaveRunningState
LeaveRunning(m) == [m EXCEPT !.running = NoTask]

\* kTickTaskLoadNextState(kTickSchedTaskPop(), K_TASK_STATE_RUNNING)
RunNext(m) ==
  {LoadNextState(m, t, "RUNNING") : t \in IF Ready(m) = {} THEN {Idle} ELSE Ready(m)}

\* (bug: the period is compared with 1)
MustThrottleLongPeriods(m, t) == period[t] > 1 /\ (BCS \/ m.replenishIn[t] > 1)

\* (bug: the case of the deferrable server is missing)
MustThrottleBcsOnly(m, t) == period[t] > 0 /\ BCS

\* Does a thread whose budget ran out have to wait for its period?  With DS
\* a replenishment due on this very tick spares it.
MustThrottle(m, t) == period[t] > 0 /\ (BCS \/ m.replenishIn[t] > 1)

-----------------------------------------------------------------------------
(* The phases of kTickTransition.                                          *)

\* kTickReplenishmentPeriod
ReplenishmentPeriod(m) ==
  LET expired == {t \in Thread : m.replenishIn[t] = 1}
  IN  [m EXCEPT
        !.replenishIn = [t \in Thread |->
            CASE t \in expired -> IF BCS THEN 0 ELSE period[t]
              [] t \notin expired -> IF @[t] = 0 THEN 0 ELSE @[t] - 1],
        !.currentBudget = [t \in Thread |-> IF t \in expired THEN budget[t] ELSE @[t]],
        !.state = [t \in Task |->
            IF t \in expired /\ @[t] = "THREAD_THROTTLED" THEN "READY" ELSE @[t]]]

\* kTickHandleDeferredTicks: every thread that left the core during this
\* tick pays for it and moves on; a preempted idle task just stays pending.
HandleDeferredTicks(m) ==
  LET deferred == ToSet(m.deferred)
      charged == deferred \cap Thread
      left(t) == IF m.state[t] = "THREAD_DEFTICK_THROTTLE" THEN 0
                 ELSE m.currentBudget[t] - 1
      sleeps(t) == m.state[t] = "THREAD_DEFTICK_SLEEP"
      throttled == {t \in charged : ~sleeps(t) /\ left(t) = 0 /\ MustThrottle(m, t)}
      next(t) == CASE t \in throttled -> "THREAD_THROTTLED"
                   [] t \notin throttled /\ sleeps(t) -> "THREAD_SLEEP"
                   [] t \notin throttled /\ m.state[t] = "DEFTICK_PENDING" -> "PENDING"
                   [] t \notin throttled /\ m.state[t] \in
                        {"THREAD_DEFTICK_YIELD", "THREAD_DEFTICK_THROTTLE"} -> "READY"
  IN  [m EXCEPT
        !.deferred = <<>>,
        !.state = [t \in Task |-> IF t \in deferred THEN next(t) ELSE @[t]],
        !.pending = IF @ \in throttled THEN NoTask ELSE @,
        !.currentBudget = [t \in Thread |->
            CASE t \notin charged -> @[t]
              [] t \in charged /\ (left(t) > 0 \/ sleeps(t) \/ t \in throttled) -> left(t)
              [] t \in charged /\ left(t) = 0 /\ ~sleeps(t) /\ t \notin throttled -> budget[t]],
        !.sleepIn = [t \in Thread |->
            IF t \in charged /\ sleeps(t) THEN m.sleepTicks[t] ELSE @[t]],
        !.replenishIn = [t \in Thread |->
            IF BCS /\ t \in throttled THEN period[t] ELSE @[t]]]

\* (bug: a budget without a period is not refilled)
ChargeRunningTaskNoRefill(m) ==
  IF m.running \notin Thread THEN m ELSE [m EXCEPT !.currentBudget[m.running] = @ - 1]

\* kTickRunningTask
ChargeRunningTask(m) ==
  IF m.running \notin Thread THEN m
  ELSE LET t == m.running
           left == m.currentBudget[t] - 1
       IN  [m EXCEPT !.currentBudget[t] =
              IF left = 0 /\ ~MustThrottle(m, t) THEN budget[t] ELSE left]

\* (bug: whoever wakes up is ready, with a budget or not)
SleepPeriodAlwaysReady(m) ==
  [m EXCEPT !.sleepIn = [t \in Thread |-> IF @[t] = 0 THEN 0 ELSE @[t] - 1],
            !.state = [t \in Task |->
              IF t \in Thread /\ m.sleepIn[t] = 1 THEN "READY" ELSE @[t]]]

\* kTickSleepPeriod.  BCS credits the time slept to the cooldown: tick.lag is
\* set here and consumed by kTickTaskLoadNextState on the same path.
SleepPeriod(m) ==
  LET woken == {t \in Thread : m.sleepIn[t] = 1}
      sleptThrough(t) == IF BCS THEN m.sleepTicks[t] > period[t] ELSE period[t] = 0
      refilled == {t \in woken : m.currentBudget[t] = 0 /\ sleptThrough(t)}
      throttled == {t \in woken \ refilled : m.currentBudget[t] = 0}
  IN  [m EXCEPT
        !.sleepIn = [t \in Thread |-> IF @[t] = 0 THEN 0 ELSE @[t] - 1],
        !.currentBudget = [t \in Thread |-> IF t \in refilled THEN budget[t] ELSE @[t]],
        !.state = [t \in Task |-> CASE t \notin woken -> @[t]
                                    [] t \in throttled -> "THREAD_THROTTLED"
                                    [] t \in woken \ throttled -> "READY"],
        !.replenishIn = [t \in Thread |->
            IF BCS /\ t \in throttled THEN period[t] - (m.sleepTicks[t] - 1) ELSE @[t]]]

\* (bug: an idle core waits for more than a ready thread)
ReschedulingPointIdleStays(m, ticked) ==
  {m} \cup IF ticked /\ m.running \in Thread /\ Ready(m) # {}
           THEN RunNext(LoadNextState(LeaveRunning(m), m.running, "READY")) ELSE {}

\* kTickReschedulingPoint.  A policy only asks to reschedule a thread when
\* another one is ready, and (ticked) not before the thread met a tick.
ReschedulingPoint(m, ticked) ==
  LET r == m.running
      budgetDone == r \in Thread /\ m.currentBudget[r] = 0
      replaced(s) == RunNext(LoadNextState(LeaveRunning(m), r, s))
  IN  CASE budgetDone -> replaced("THREAD_THROTTLED")
        [] r \in Lsr -> {m}
        [] r = Idle -> IF Ready(m) = {} THEN {m} ELSE replaced("READY")
        [] r \in Thread /\ ~budgetDone ->
             {m} \cup IF ticked /\ Ready(m) # {} THEN replaced("READY") ELSE {}

\* (bug: the order of the deferrable server for both algorithms)
TickPhasesDsOrder(m) ==
  {SleepPeriod(ReplenishmentPeriod(ChargeRunningTask(HandleDeferredTicks(m))))}

\* (bug: sleepers are ticked before those that just went to sleep join them)
TickPhasesSleepFirst(m) ==
  {ChargeRunningTask(HandleDeferredTicks(ReplenishmentPeriod(SleepPeriod(m))))}

\* kTickTransition up to the rescheduling point: the one machine it leaves,
\* as a set, so that each phase starts from a value
TickPhases(m) ==
  IF BCS
  THEN {SleepPeriod(c) : c \in {ChargeRunningTask(b) : b \in
         {HandleDeferredTicks(a) : a \in {ReplenishmentPeriod(m)}}}}
  ELSE {SleepPeriod(c) : c \in {ReplenishmentPeriod(b) : b \in
         {ChargeRunningTask(a) : a \in {HandleDeferredTicks(m)}}}}

-----------------------------------------------------------------------------
(* Rescheduling outside the tick.                                          *)

\* (bug: the deferred tick of a task that resumes unticked stays queued)
ResumePendingStillDeferred(m) ==
  ReschedulingPoint(LoadNextState([m EXCEPT !.pending = NoTask], m.pending, "RUNNING"),
                    m.state[m.pending] # "DEFTICK_PENDING")

\* the tail of kTickReschedule: back to the task the LSRs preempted
ResumePending(m) ==
  LET p == m.pending
      unticked == m.state[p] = "DEFTICK_PENDING"
      n == [m EXCEPT !.pending = NoTask,
                     !.deferred = IF unticked THEN Front(@) ELSE @]
  IN  ReschedulingPoint(LoadNextState(n, p, "RUNNING"), ~unticked)

RunTopLsr(m) ==
  LoadNextState([m EXCEPT !.pendingLsrs = Front(@)], Last(m.pendingLsrs), "RUNNING")

\* kTickReschedule
Reschedule(m) ==
  LET preempted == IF m.running = NoTask THEN m
                   ELSE LoadNextState(LeaveRunning(m), m.running, "DEFTICK_PENDING")
  IN  CASE m.running \in Lsr \/ (m.running # NoTask /\ m.pendingLsrs = <<>>) -> {m}
        [] m.running \notin Lsr /\ m.pendingLsrs # <<>> -> {RunTopLsr(preempted)}
        [] m.running = NoTask /\ m.pendingLsrs = <<>> /\ m.pending = NoTask -> RunNext(m)
        [] m.running = NoTask /\ m.pendingLsrs = <<>> /\ m.pending # NoTask ->
             ResumePending(m)

\* (bug: a preempted LSR is treated like a preempted thread)
LsrPushCurrentAnyTask(m) ==
  IF m.running = NoTask THEN m
  ELSE LoadNextState(LeaveRunning(m), m.running, "DEFTICK_PENDING")

\* kTickLsrPushCurrent
LsrPushCurrent(m) ==
  CASE m.running = NoTask -> m
    [] m.running \in Lsr -> LoadNextState(LeaveRunning(m), m.running, "LSR_PENDING")
    [] m.running \in Thread \cup {Idle} ->
         LoadNextState(LeaveRunning(m), m.running, "DEFTICK_PENDING")

\* (bug: new LSRs are queued behind the preempted ones)
LsrPushAllBehind(m, v) ==
  [m EXCEPT !.lsrs[v] = <<>>,
            !.pendingLsrs = Reverse(m.lsrs[v]) \o @,
            !.state = [t \in Task |-> IF t \in ToSet(m.lsrs[v]) THEN "LSR_PENDING" ELSE @[t]]]

\* every kTickLsrPush of ia32eIsrExternalHandler's loop
LsrPushAll(m, v) ==
  [m EXCEPT !.lsrs[v] = <<>>,
            !.pendingLsrs = @ \o Reverse(m.lsrs[v]),
            !.state = [t \in Task |-> IF t \in ToSet(m.lsrs[v]) THEN "LSR_PENDING" ELSE @[t]]]

-----------------------------------------------------------------------------
(* Initial states: the plugins have run, the core is not handed off yet.   *)

Init ==
  /\ budget \in [Thread -> Budgets]
  /\ period \in [Thread -> Periods]
  /\ algorithm \in {"BCS", "DS"}
  /\ state = [t \in Task |-> IF t \in Lsr THEN "LSR_DORMANT" ELSE "READY"]
  /\ runningTask = NoTask
  /\ pendingTaskLsr = NoTask
  /\ deferredTicks = <<>>
  /\ pendingLsrChain = <<>>
  /\ lsrs = [v \in Vector |-> SetToSeq({l \in Lsr : LsrVector[l] = v})]
  /\ currentBudget = budget
  /\ replenishIn = IF BCS THEN [t \in Thread |-> 0] ELSE period
  /\ sleepIn = [t \in Thread |-> 0]
  /\ sleepTicks = [t \in Thread |-> 0]

\* kPerCpuHandoff: nothing else happens on the core before it
Handoff == /\ runningTask = NoTask
           /\ \E m \in Reschedule(Machine) : Becomes(m)

\* kTickTransition
Tick == /\ runningTask # NoTask
        /\ \E m \in TickPhases(Machine) :
             \E n \in ReschedulingPoint(m, TRUE) : Becomes(n)

\* kTickSwitchRunningTask
SwitchRunningTask(m, s) ==
  \E n \in Reschedule(LoadNextState(LeaveRunning(m), runningTask, s)) : Becomes(n)

\* (bug: a yield with no deferred tick)
YieldUncharged == runningTask \in Thread /\ SwitchRunningTask(Machine, "READY")

\* kSysSchedCtrl.  The type check and the write of sleepTicks come before the
\* self IPI, with interrupts enabled; both concern the caller alone, and
\* sleepTicks is read only once it sleeps, so they are part of the step.
Yield == runningTask \in Thread /\ SwitchRunningTask(Machine, "THREAD_DEFTICK_YIELD")
Throttle == runningTask \in Thread /\ SwitchRunningTask(Machine, "THREAD_DEFTICK_THROTTLE")
LsrDone == runningTask \in Lsr /\ SwitchRunningTask(Machine, "LSR_DORMANT")
Sleep(n) ==
  /\ runningTask \in Thread
  /\ SwitchRunningTask([Machine EXCEPT !.sleepTicks[runningTask] = n], "THREAD_DEFTICK_SLEEP")

\* kSchedCtrlFailure, and kExceptionHandler when it cannot invoke the domain
Failure == runningTask \in Thread \cup Lsr /\ SwitchRunningTask(Machine, "FAILURE")

\* The task priority register holds the highest priority of an activated
\* task, 1 at least (module Tpr); a vector is delivered only above it.
TaskPrio(t) == CASE t \in Thread -> ThreadTpr[t]
                 [] t \in Lsr -> VectorPrio[LsrVector[t]]
                 [] t = Idle -> 1
\* (bug: a vector is delivered at the priority of the core)
DeliverableAtPrio(v) == \A t \in Task : Activated(state[t]) => TaskPrio(t) <= VectorPrio[v]

Deliverable(v) == \A t \in Task : Activated(state[t]) => TaskPrio(t) < VectorPrio[v]

\* ia32eIsrExternalHandler; ports differ in whether they push the current task
ExternalInterrupt(v) ==
  /\ runningTask # NoTask
  /\ Deliverable(v)
  /\ lsrs[v] # <<>>
  /\ \E pushCurrent \in PushCurrents :
       LET m == IF pushCurrent THEN LsrPushCurrent(Machine) ELSE Machine
       IN  \E n \in Reschedule(LsrPushAll(m, v)) : Becomes(n)

Next ==
  \/ Handoff
  \/ Tick
  \/ Yield
  \/ Throttle
  \/ \E n \in Sleeps : Sleep(n)
  \/ LsrDone
  \/ Failure
  \/ \E v \in Vector : ExternalInterrupt(v)

Spec == Init /\ [][Next]_vars

\* The tick timer is periodic and outranks everything: ticks keep coming.
FairSpec == Spec /\ WF_vars(Tick)
-----------------------------------------------------------------------------
(* Properties.                                                             *)

TypeOK ==
  /\ state \in [Task -> ThreadStates \cup LsrStates \cup IdleStates]
  /\ \A t \in Thread : state[t] \in ThreadStates
  /\ \A l \in Lsr : state[l] \in LsrStates
  /\ state[Idle] \in IdleStates
  /\ runningTask \in Task \cup {NoTask}
  /\ pendingTaskLsr \in Thread \cup {Idle, NoTask}
  /\ deferredTicks \in Seq(Thread \cup {Idle})
  /\ pendingLsrChain \in Seq(Lsr)
  /\ lsrs \in [Vector -> Seq(Lsr)]
  /\ currentBudget \in [Thread -> Nat]
  /\ replenishIn \in [Thread -> Nat]
  /\ sleepIn \in [Thread -> Nat]
  /\ sleepTicks \in [Thread -> Nat]
  /\ budget \in [Thread -> Budgets]
  /\ period \in [Thread -> Periods]
  /\ algorithm \in {"BCS", "DS"}

\* Every task is held by the one structure its state names and by no other:
\* the running slot, the pending slot, the stack of deferred ticks, the two
\* LSR stacks, the sleep chain and the replenishment chain.  A task missing
\* from all of them is lost; one in two is scheduled twice.
Placement ==
  /\ \A t \in Task :
       /\ state[t] = "RUNNING" <=> runningTask = t
       /\ state[t] \in {"PENDING", "DEFTICK_PENDING"} <=> pendingTaskLsr = t
       /\ state[t] \in DefTickStates <=> t \in ToSet(deferredTicks)
       /\ state[t] = "LSR_PENDING" <=> t \in ToSet(pendingLsrChain)
       /\ \A v \in Vector : t \in ToSet(lsrs[v]) <=>
             t \in Lsr /\ state[t] = "LSR_DORMANT" /\ LsrVector[t] = v
  /\ \A t \in Thread :
       /\ state[t] = "THREAD_SLEEP" <=> sleepIn[t] > 0
       /\ replenishIn[t] > 0 <=> IF BCS THEN state[t] = "THREAD_THROTTLED" ELSE period[t] > 0
  /\ IsInjective(deferredTicks) /\ IsInjective(pendingLsrChain)
  /\ \A v \in Vector : IsInjective(lsrs[v])

\* The K_DYNAMIC_ASSERTs of kTick.c that a schedule could break: whoever may
\* be charged still has budget, whoever waits for a replenishment has none,
\* and the deferred tick popped when a preempted task resumes is its own.
DynamicAsserts ==
  /\ \A t \in Thread :
       /\ state[t] \in DefTickStates \cup {"READY", "RUNNING", "PENDING"} => currentBudget[t] > 0
       /\ state[t] = "THREAD_THROTTLED" => currentBudget[t] = 0 /\ period[t] > 0
  /\ pendingTaskLsr # NoTask /\ state[pendingTaskLsr] = "DEFTICK_PENDING"
       => Last(deferredTicks) = pendingTaskLsr

\* The core never idles or serves a thread while an LSR waits, only an LSR
\* keeps a preempted task waiting, and idle runs only if nothing is ready.
WorkConserving ==
  runningTask # NoTask =>
    /\ pendingLsrChain # <<>> \/ pendingTaskLsr # NoTask => runningTask \in Lsr
    /\ runningTask = Idle => \A t \in Thread : state[t] # "READY"

\* LSRs nest: the stack of preempted LSRs rises in priority from bottom to
\* top, equal priorities belonging to one vector, and the running LSR is on
\* top of it all.  This is what lets kTickReschedule pop without searching.
LsrNesting ==
  LET prio(l) == VectorPrio[LsrVector[l]]
      Below(k, l) == prio(k) < prio(l) \/ LsrVector[k] = LsrVector[l]
  IN  /\ \A i, j \in DOMAIN pendingLsrChain :
           i < j => Below(pendingLsrChain[i], pendingLsrChain[j])
      /\ runningTask \in Lsr =>
           \A i \in DOMAIN pendingLsrChain : Below(pendingLsrChain[i], runningTask)

\* LSR priorities are respected across steps: only an LSR of a higher
\* priority takes the core from a running LSR that is not finished.
LsrPreemption ==
  [][\A l \in Lsr : runningTask = l /\ state'[l] = "LSR_PENDING" =>
       runningTask' \in Lsr /\ VectorPrio[LsrVector[runningTask']] > VectorPrio[LsrVector[l]]]_vars

\* Ticks alone bring every throttled or sleeping thread back.
Replenished ==
  \A t \in Thread :
    state[t] \in {"THREAD_THROTTLED", "THREAD_SLEEP"} ~>
      state[t] \notin {"THREAD_THROTTLED", "THREAD_SLEEP"}

\* "The calling task is immediately throttled on the next tick"
\* (syscalls.md), stated for BCS because the next line of that document has
\* the deferrable server replenish on the same tick.
ThrottledOnNextTick ==
  [][BCS => \A t \in Thread :
       state[t] = "THREAD_DEFTICK_THROTTLE" /\ state'[t] # state[t]
         => state'[t] = "THREAD_THROTTLED"]_vars
=============================================================================
