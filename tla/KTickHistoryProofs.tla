------------------------- MODULE KTickHistoryProofs -------------------------
(***************************************************************************)
(* What the tick machine promises over time, for any threads, LSRs,        *)
(* budgets, periods, sleeps and either algorithm: who is charged, how much *)
(* of the core a budget buys, how long a sleep and a cooldown last.        *)
(***************************************************************************)
EXTENDS KTickHistory, KTickProofs

-----------------------------------------------------------------------------
(* What a handler other than the tick does to the threads.                 *)

\* The next tick charges t.
Owes(m, t) == m.state[t] \in DefTickStates \cup {"RUNNING"}

\* Budgets and timers stand still.
SameTimes(m, n) ==
  /\ n.currentBudget = m.currentBudget /\ n.replenishIn = m.replenishIn
  /\ n.sleepIn = m.sleepIn /\ n.sleepTicks = m.sleepTicks

\* The core changes hands between threads that are awake: a thread is taken
\* from the policy, resumed and perhaps replaced at once, or preempted.
Shift(a, b) ==
  \/ a = b
  \/ a \in {"READY", "PENDING", "DEFTICK_PENDING"} /\ b = "RUNNING"
  \/ a = "PENDING" /\ b = "READY"
  \/ a = "RUNNING" /\ b = "DEFTICK_PENDING"

Shifts(m, n) == \A t \in Thread : Shift(m.state[t], n.state[t])

\* Only t moves, to s.
MovesTo(m, n, t, s) == SameTimes(m, n) /\ n.state = [m.state EXCEPT ![t] = s]

\* A single task moves to another state, and nothing happens to the timers
\* unless it is throttled.
LEMMA OneMoves ==
  ASSUME NEW m \in MachineType, NEW t \in Task,
         NEW s \in {"RUNNING", "LSR_DORMANT", "LSR_PENDING", "READY", "FAILURE", "DEFTICK_PENDING",
                    "THREAD_DEFTICK_YIELD", "THREAD_DEFTICK_THROTTLE", "THREAD_DEFTICK_SLEEP"},
         m.state[t] # s
  PROVE  MovesTo(m, LoadNextState(m, t, s), t, s)
  BY DEF MovesTo, LoadNextState, SameTimes, MachineType, DefTickThreadStates

\* A core that is left to nobody touches no timer.
LEMMA LeavingIs ==
  ASSUME NEW m, Ticking(m), NEW t \in Task, m.running = t,
         NEW s \in {"LSR_DORMANT", "LSR_PENDING", "READY", "FAILURE", "DEFTICK_PENDING",
                    "THREAD_DEFTICK_YIELD", "THREAD_DEFTICK_THROTTLE", "THREAD_DEFTICK_SLEEP"}
  PROVE  MovesTo(m, LoadNextState(LeaveRunning(m), t, s), t, s) /\ m.state[t] = "RUNNING"
  <1> DEFINE k == LeaveRunning(m)
  <1>1. m \in MachineType /\ m.state[t] = "RUNNING"
    BY DEF Ticking, SlotsOK
  <1>2. k \in MachineType /\ SameTimes(m, k) /\ k.state = m.state
    BY <1>1 DEF LeaveRunning, MachineType, SameTimes
  <1> HIDE DEF k
  <1>3. MovesTo(k, LoadNextState(k, t, s), t, s)
    <2>1. k.state[t] # s /\ s \in {"RUNNING", "LSR_DORMANT", "LSR_PENDING", "READY", "FAILURE",
            "DEFTICK_PENDING", "THREAD_DEFTICK_YIELD", "THREAD_DEFTICK_THROTTLE", "THREAD_DEFTICK_SLEEP"}
      BY <1>1, <1>2
    <2> QED BY <1>2, <2>1, OneMoves
  <1>4. \A n : MovesTo(k, n, t, s) => MovesTo(m, n, t, s)
    BY <1>2 DEF MovesTo, SameTimes
  <1> QED BY <1>1, <1>3, <1>4 DEF k

\* The policy gives the empty core to a ready thread or to idle.
LEMMA RunNextIs ==
  ASSUME NEW m \in MachineType, NEW n \in RunNext(m)
  PROVE  /\ SameTimes(m, n)
         /\ \A u \in Thread : \/ n.state[u] = m.state[u]
                              \/ m.state[u] = "READY" /\ n.state[u] = "RUNNING"
  <1>1. PICK t \in IF Ready(m) = {} THEN {Idle} ELSE Ready(m) : n = LoadNextState(m, t, "RUNNING")
    BY DEF RunNext
  <1>2. /\ m.state \in [Task -> States] /\ Thread \subseteq Task /\ Idle \notin Thread
        /\ t \in Task /\ (t \in Thread => m.state[t] = "READY")
    BY <1>1, Configuration DEF MachineType, Ready, Task
  <1>3. CASE m.state[t] = "RUNNING"
    BY <1>1, <1>2, <1>3 DEF LoadNextState, SameTimes
  <1>4. CASE m.state[t] # "RUNNING"
    <2>1. SameTimes(m, n) /\ n.state = [m.state EXCEPT ![t] = "RUNNING"]
      BY <1>1, <1>2, <1>4, OneMoves DEF MovesTo
    <2> QED BY <1>2, <2>1
  <1> QED BY <1>3, <1>4

\* Whoever leaves the core still in the same tick has a tick to pay, and
\* kTickReschedule takes nobody's tick away.
LEMMA RescheduleShifts ==
  ASSUME ParamsOK, NEW m, Sound(m), NEW n \in Reschedule(m)
  PROVE  SameTimes(m, n) /\ Shifts(m, n)
  <1>1. /\ m \in MachineType /\ m.state \in [Task -> States] /\ m.running \in Task \cup {NoTask}
        /\ Thread \subseteq Task /\ Thread \cap Lsr = {} /\ Lsr \subseteq Task /\ Idle \notin Lsr
        /\ Idle \notin Thread /\ NoTask \notin Task
    BY Configuration DEF Sound, Ticking, MachineType, Task
  <1>2. CASE m.running \in Lsr \/ (m.running # NoTask /\ m.pendingLsrs = <<>>)
    BY <1>1, <1>2, NoTaskNotThread DEF Reschedule, SameTimes, Shifts, Shift
  <1>3. CASE m.running \notin Lsr /\ m.pendingLsrs # <<>>
    <2> DEFINE p == IF m.running = NoTask THEN m
                    ELSE LoadNextState(LeaveRunning(m), m.running, "DEFTICK_PENDING")
    <2>1. n = RunTopLsr(p)
      BY <1>1, <1>3 DEF Reschedule
    <2>2. Sound(p) /\ p.running = NoTask /\ p.pendingLsrs = m.pendingLsrs
      <3>1. CASE m.running = NoTask
        BY <3>1
      <3>2. CASE m.running # NoTask
        <4>1. m.running \in Thread \cup {Idle} /\ (m.running \in Thread => m.currentBudget[m.running] > 0)
          BY <1>1, <1>3, <3>2 DEF Sound, Task
        <4>2. Ticking(m)
          BY DEF Sound
        <4> QED BY <3>2, <4>1, <4>2, LeavePreempted
      <3> QED BY <3>1, <3>2
    <2>3. SameTimes(m, p) /\ Shifts(m, p)
      <3>1. CASE m.running = NoTask
        BY <3>1 DEF SameTimes, Shifts, Shift
      <3>2. CASE m.running # NoTask
        <4>1. /\ SameTimes(m, p) /\ p.state = [m.state EXCEPT ![m.running] = "DEFTICK_PENDING"]
              /\ m.state[m.running] = "RUNNING"
          <5>1. m.running \in Task /\ p = LoadNextState(LeaveRunning(m), m.running, "DEFTICK_PENDING")
            BY <1>1, <3>2
          <5> HIDE DEF p
          <5> QED BY <5>1, LeavingIs DEF MovesTo, Sound
        <4> HIDE DEF p
        <4> QED BY <1>1, <4>1 DEF Shifts, Shift
      <3> QED BY <3>1, <3>2
    <2> HIDE DEF p
    <2> DEFINE l == Last(p.pendingLsrs)
               q == [p EXCEPT !.pendingLsrs = Front(@)]
    <2>4. l \in Lsr /\ p.state[l] = "LSR_PENDING" /\ Front(p.pendingLsrs) \in Seq(Lsr) /\ p \in MachineType
      <3>1. p.pendingLsrs \in Seq(Lsr) /\ p.pendingLsrs # <<>> /\ LsrsOK(p) /\ p \in MachineType
        BY <1>3, <2>2 DEF Sound, Ticking, MachineType
      <3>2. l \in ToSet(p.pendingLsrs) /\ l \in Lsr /\ Front(p.pendingLsrs) \in Seq(Lsr)
        BY <3>1, PopFromStack DEF LsrsOK
      <3> QED BY <1>1, <3>1, <3>2 DEF LsrsOK
    <2>5. q \in MachineType /\ q.state = p.state /\ SameTimes(p, q)
      BY <2>4 DEF MachineType, SameTimes
    <2>6. n = LoadNextState(q, l, "RUNNING")
      BY <2>1 DEF RunTopLsr
    <2> HIDE DEF q, l
    <2>7. SameTimes(q, n) /\ n.state = [q.state EXCEPT ![l] = "RUNNING"]
      BY <1>1, <2>4, <2>5, <2>6, OneMoves DEF MovesTo
    <2>8. \A t \in Thread : n.state[t] = p.state[t]
      BY <1>1, <2>4, <2>5, <2>7 DEF MachineType
    <2> QED BY <2>3, <2>5, <2>7, <2>8 DEF SameTimes, Shifts
  <1>4. CASE m.running = NoTask /\ m.pendingLsrs = <<>> /\ m.pending = NoTask
    <2>1. n \in RunNext(m)
      BY <1>1, <1>4 DEF Reschedule
    <2> QED BY <1>1, <2>1, RunNextIs DEF Shifts, Shift
  <1>5. CASE m.running = NoTask /\ m.pendingLsrs = <<>> /\ m.pending # NoTask
    <2> DEFINE p == m.pending
               unticked == m.state[p] = "DEFTICK_PENDING"
               q == [m EXCEPT !.pending = NoTask, !.deferred = IF unticked THEN Front(@) ELSE @]
               k == LoadNextState(q, p, "RUNNING")
    <2>1. n \in ReschedulingPoint(k, ~unticked)
      BY <1>1, <1>5 DEF Reschedule, ResumePending
    <2>2. Sound(k) /\ k.running \in Thread \cup {Idle}
      BY <1>5, RunPendingSound
    <2>3. p \in Thread \cup {Idle} /\ p \in Task /\ m.state[p] \in {"PENDING", "DEFTICK_PENDING"}
      BY <1>1, <1>5 DEF Sound, Ticking, SlotsOK, MachineType, Task
    <2>4. SameTimes(m, k) /\ k.state = [m.state EXCEPT ![p] = "RUNNING"] /\ k.running = p
      <3>1. q \in MachineType /\ q.state = m.state /\ SameTimes(m, q)
        <4>1. (IF unticked THEN Front(m.deferred) ELSE m.deferred) \in Seq(Thread \cup {Idle})
          <5>1. m.deferred \in Seq(Thread \cup {Idle}) /\ DeferredOK(m) /\ SlotsOK(m)
            BY <1>1 DEF Sound, Ticking, MachineType
          <5>2. unticked => m.deferred # <<>>
            BY <2>3, <5>1, EmptyStack DEF DeferredOK, DefTickStates
          <5> QED BY <5>1, <5>2, PopFromStack
        <4>2. q = [m EXCEPT !.pending = NoTask,
                            !.deferred = IF unticked THEN Front(m.deferred) ELSE m.deferred]
          BY <1>1 DEF MachineType
        <4> HIDE DEF q, unticked
        <4> QED BY <1>1, <4>1, <4>2 DEF MachineType, SameTimes
      <3> HIDE DEF q
      <3>2. SameTimes(q, k) /\ k.state = [q.state EXCEPT ![p] = "RUNNING"] /\ k.running = p
        <4>1. k = [q EXCEPT !.state[p] = "RUNNING", !.running = p]
          <5>1. q.state[p] # "RUNNING"
            BY <2>3, <3>1
          <5> QED BY <3>1, <5>1 DEF LoadNextState, DefTickThreadStates, MachineType
        <4> HIDE DEF k
        <4> QED BY <3>1, <4>1 DEF SameTimes, MachineType
      <3> QED BY <3>1, <3>2 DEF SameTimes
    <2> HIDE DEF k, p, q
    <2>5. SameTimes(m, k) /\ Shifts(m, k) /\ (p \in Thread => k.state[p] = "RUNNING")
      BY <1>1, <2>3, <2>4 DEF Shifts, Shift
    <2>6. CASE n = k
      BY <2>5, <2>6
    <2>7. CASE n # k
      <3> DEFINE r == LoadNextState(LeaveRunning(k), p, "READY")
      <3>1. n \in RunNext(r) /\ (p \in Thread => ~unticked)
        <4>1. ~(p \in Thread /\ k.currentBudget[p] = 0)
          BY <2>2, <2>4 DEF Sound, Ticking, MachineType
        <4>2. CASE p = Idle
          BY <1>1, <2>1, <2>4, <2>7, <4>1, <4>2 DEF ReschedulingPoint
        <4>3. CASE p \in Thread
          BY <1>1, <2>1, <2>4, <2>7, <4>1, <4>3 DEF ReschedulingPoint
        <4> QED BY <2>3, <4>2, <4>3
      <3>2. SameTimes(k, r) /\ r.state = [k.state EXCEPT ![p] = "READY"]
        BY <2>2, <2>3, <2>4, LeavingIs DEF MovesTo, Sound
      <3>3. r \in MachineType
        <4>1. /\ Ticking(k) /\ p \in Task /\ k.running = p /\ p \notin Lsr
              /\ p \in Thread => k.currentBudget[p] > 0
          BY <1>1, <2>2, <2>3, <2>4 DEF Sound
        <4>2. Sound(r)
          BY <4>1, LeaveReadyOrFailed
        <4> QED BY <4>2 DEF Sound, Ticking
      <3> HIDE DEF r
      <3>4. SameTimes(r, n) /\ \A u \in Thread : \/ n.state[u] = r.state[u]
                                                 \/ r.state[u] = "READY" /\ n.state[u] = "RUNNING"
        BY <3>1, <3>3, RunNextIs
      <3>5. SameTimes(m, n)
        BY <2>5, <3>2, <3>4 DEF SameTimes
      <3>6. ASSUME NEW u \in Thread PROVE Shift(m.state[u], n.state[u])
        <4>1. CASE u = p
          <5>1. m.state[p] = "PENDING" /\ r.state[p] = "READY"
            BY <1>1, <2>3, <2>4, <3>1, <3>2, <4>1
          <5> QED BY <3>4, <4>1, <5>1 DEF Shift
        <4>2. CASE u # p
          <5>1. r.state[u] = m.state[u]
            BY <1>1, <2>4, <3>2, <4>2
          <5> QED BY <3>4, <5>1 DEF Shift
        <4> QED BY <4>1, <4>2
      <3> QED BY <3>5, <3>6 DEF Shifts
    <2> QED BY <2>6, <2>7
  <1> QED BY <1>1, <1>2, <1>3, <1>4, <1>5

\* The LSRs of a vector are released, and the running task makes room.
LEMMA ReleaseShifts ==
  ASSUME ParamsOK, NEW m, Sound(m), NEW v \in Vector, NEW k, k \in {m, LsrPushCurrent(m)}
  PROVE  LET n == LsrPushAll(k, v)
         IN  /\ SameTimes(m, n)
             /\ \A t \in Thread : \/ n.state[t] = m.state[t]
                                  \/ m.state[t] = "RUNNING" /\ n.state[t] = "DEFTICK_PENDING"
  <1>1. /\ m \in MachineType /\ m.state \in [Task -> States] /\ m.running \in Task \cup {NoTask}
        /\ Thread \subseteq Task /\ Thread \cap Lsr = {} /\ Lsr \subseteq Task /\ Idle \notin Lsr
        /\ Idle \notin Thread /\ NoTask \notin Task
    BY Configuration DEF Sound, Ticking, MachineType, Task
  <1>2. /\ SameTimes(m, k)
        /\ \A t \in Thread : \/ k.state[t] = m.state[t]
                             \/ m.state[t] = "RUNNING" /\ k.state[t] = "DEFTICK_PENDING"
    <2>1. CASE k = m
      BY <2>1 DEF SameTimes
    <2>2. CASE k = LsrPushCurrent(m) /\ m.running \in Lsr
      <3>1. k = LoadNextState(LeaveRunning(m), m.running, "LSR_PENDING")
        BY <1>1, <2>2, NoTaskNotThread DEF LsrPushCurrent
      <3>2. MovesTo(m, k, m.running, "LSR_PENDING")
        BY <1>1, <2>2, <3>1, LeavingIs DEF Sound
      <3> QED BY <1>1, <2>2, <3>2 DEF MovesTo
    <2>3. CASE k = LsrPushCurrent(m) /\ m.running \in Thread \cup {Idle}
      <3>1. k = LoadNextState(LeaveRunning(m), m.running, "DEFTICK_PENDING")
        BY <1>1, <2>3, NoTaskNotThread DEF LsrPushCurrent
      <3>2. MovesTo(m, k, m.running, "DEFTICK_PENDING") /\ m.state[m.running] = "RUNNING"
        BY <1>1, <2>3, <3>1, LeavingIs DEF Task, Sound
      <3> QED BY <1>1, <2>3, <3>2 DEF MovesTo
    <2>4. CASE k = LsrPushCurrent(m) /\ m.running = NoTask
      <3>1. k = m
        BY <2>4, NoTaskNotThread DEF LsrPushCurrent
      <3> QED BY <3>1 DEF SameTimes
    <2> QED BY <1>1, <2>1, <2>2, <2>3, <2>4 DEF Task
  <1>3. Sound(k)
    BY LsrPushCurrentSound
  <1> DEFINE n == LsrPushAll(k, v)
             pushed == ToSet(k.lsrs[v])
  <1>4. k \in MachineType /\ k.lsrs[v] \in Seq(Lsr)
    BY <1>3 DEF Sound, Ticking, MachineType
  <1>5. pushed \subseteq Lsr
    BY <1>4, ElementOfSeq, LenProperties DEF ToSet
  <1>6. /\ SameTimes(k, n)
        /\ n.state = [t \in Task |-> IF t \in pushed THEN "LSR_PENDING" ELSE k.state[t]]
    <2>1. n = [k EXCEPT !.lsrs = [k.lsrs EXCEPT ![v] = <<>>],
                        !.pendingLsrs = k.pendingLsrs \o Reverse(k.lsrs[v]),
                        !.state = [t \in Task |-> IF t \in pushed THEN "LSR_PENDING" ELSE k.state[t]]]
      BY <1>4 DEF LsrPushAll, MachineType
    <2> HIDE DEF n, pushed
    <2> QED BY <1>4, <2>1 DEF SameTimes, MachineType
  <1> HIDE DEF n, pushed
  <1>7. \A t \in Thread : n.state[t] = k.state[t]
    BY <1>1, <1>5, <1>6
  <1>8. SameTimes(m, n)
    BY <1>2, <1>6 DEF SameTimes
  <1> QED BY <1>2, <1>7, <1>8 DEF n

\* All the handlers but the tick.
Other ==
  \/ Handoff \/ Yield \/ Throttle \/ LsrDone \/ Failure
  \/ \E ticks \in Sleeps : Sleep(ticks)
  \/ \E v \in Vector : ExternalInterrupt(v)

\* What they may do to the threads: only the running thread asks to leave, or
\* fails, and only it sets the length of its sleep.
OtherStep(m, n) ==
  /\ n.currentBudget = m.currentBudget /\ n.replenishIn = m.replenishIn /\ n.sleepIn = m.sleepIn
  /\ \A t \in Thread :
       /\ m.running # t => n.sleepTicks[t] = m.sleepTicks[t] /\ Shift(m.state[t], n.state[t])
       /\ m.running = t => \/ Shift(m.state[t], n.state[t]) /\ n.sleepTicks[t] = m.sleepTicks[t]
                           \/ n.state[t] \in DefTickThreadStates \cup {"FAILURE"}

\* The machine after a step is the one the handler leaves behind.
LEMMA MachineBecomes ==
  ASSUME NEW n \in MachineType, Becomes(n)
  PROVE  Machine' = n
  BY DEF Becomes, Machine, MachineType

\* The self IPI of a system call.
LEMMA SwitchIs ==
  ASSUME ParamsOK, NEW m, Sound(m), m.running = runningTask, runningTask \in Thread \cup Lsr, NEW s,
         \/ /\ runningTask \in Thread /\ s \in DefTickThreadStates
            /\ s = "THREAD_DEFTICK_SLEEP" => m.sleepTicks[runningTask] > 0
         \/ runningTask \in Lsr /\ s = "LSR_DORMANT"
         \/ runningTask \in Thread \cup Lsr /\ s = "FAILURE",
         SwitchRunningTask(m, s)
  PROVE  /\ OtherStep(m, Machine') /\ Machine'.sleepTicks = m.sleepTicks
         /\ runningTask \in Thread =>
              Machine'.state[runningTask] \in DefTickThreadStates \cup {"FAILURE"}
  <1> DEFINE t == runningTask
             k == LoadNextState(LeaveRunning(m), t, s)
  <1>1. Sound(k) /\ k.running = NoTask
    BY LeaveSound
  <1>2. t \in Task /\ m \in MachineType /\ Thread \subseteq Task /\ Thread \cap Lsr = {}
    BY Configuration DEF Task, Sound, Ticking
  <1>3. MovesTo(m, k, t, s)
    <2>1. s \in {"LSR_DORMANT", "LSR_PENDING", "READY", "FAILURE", "DEFTICK_PENDING",
                 "THREAD_DEFTICK_YIELD", "THREAD_DEFTICK_THROTTLE", "THREAD_DEFTICK_SLEEP"}
      BY DEF DefTickThreadStates
    <2> QED BY <1>2, <2>1, LeavingIs DEF Sound
  <1>4. PICK n \in Reschedule(k) : Becomes(n)
    BY DEF SwitchRunningTask
  <1> HIDE DEF k, t
  <1>5. SameTimes(k, n) /\ Shifts(k, n)
    BY <1>1, <1>4, RescheduleShifts
  <1>6. n \in MachineType
    BY <1>1, <1>4, RescheduleSound, NoTaskNotThread DEF Sound, Ticking
  <1>7. Machine' = n
    BY <1>4, <1>6, MachineBecomes
  <1>8. SameTimes(m, n)
    BY <1>3, <1>5 DEF MovesTo, SameTimes
  <1>9. ASSUME NEW u \in Thread, u # t PROVE Shift(m.state[u], n.state[u])
    BY <1>2, <1>3, <1>5, <1>9 DEF MovesTo, Shifts, MachineType
  <1>10. ASSUME t \in Thread PROVE n.state[t] \in DefTickThreadStates \cup {"FAILURE"}
    <2>1. k.state[t] = s /\ s \in DefTickThreadStates \cup {"FAILURE"}
      BY <1>2, <1>3, <1>10 DEF MovesTo, MachineType, t
    <2>2. Shift(s, n.state[t])
      BY <1>5, <1>10, <2>1 DEF Shifts
    <2> QED BY <2>1, <2>2 DEF Shift, DefTickThreadStates
  <1> QED BY <1>7, <1>8, <1>9, <1>10 DEF OtherStep, SameTimes, t

\* Every handler but the tick moves the threads like this.
LEMMA OtherIs == IInv /\ Other => OtherStep(Machine, Machine')
  <1> SUFFICES ASSUME IInv, Other PROVE OtherStep(Machine, Machine')
    OBVIOUS
  <1> DEFINE m == Machine
  <1>1. ParamsOK /\ Sound(m) /\ Working(m) /\ m.running = runningTask /\ Thread \cap Lsr = {}
    BY Configuration DEF IInv, Machine
  <1>2. \A n : SameTimes(m, n) /\ Shifts(m, n) => OtherStep(m, n)
    BY DEF SameTimes, Shifts, OtherStep
  <1>3. CASE Handoff
    <2>1. PICK n \in Reschedule(m) : Becomes(n)
      BY <1>3 DEF Handoff
    <2> HIDE DEF m
    <2>2. SameTimes(m, n) /\ Shifts(m, n) /\ n \in MachineType
      BY <1>1, <2>1, RescheduleShifts, RescheduleSound DEF Working, Sound, Ticking
    <2>3. Machine' = n
      BY <2>1, <2>2, MachineBecomes
    <2> QED BY <1>2, <2>2, <2>3 DEF m
  <1>4. ASSUME NEW s, SwitchRunningTask(m, s), runningTask \in Thread \cup Lsr,
               \/ runningTask \in Thread /\ s \in {"THREAD_DEFTICK_YIELD", "THREAD_DEFTICK_THROTTLE"}
               \/ runningTask \in Lsr /\ s = "LSR_DORMANT"
               \/ runningTask \in Thread \cup Lsr /\ s = "FAILURE"
        PROVE  OtherStep(m, Machine')
    <2> HIDE DEF m
    <2>1. s \in {"THREAD_DEFTICK_YIELD", "THREAD_DEFTICK_THROTTLE"} =>
            s \in DefTickThreadStates /\ s # "THREAD_DEFTICK_SLEEP"
      BY DEF DefTickThreadStates
    <2> QED BY <1>1, <1>4, <2>1, SwitchIs
  <1>5. CASE Yield \/ Throttle \/ LsrDone \/ Failure
    BY <1>4, <1>5 DEF Yield, Throttle, LsrDone, Failure
  <1>6. ASSUME NEW ticks \in Sleeps, Sleep(ticks) PROVE OtherStep(m, Machine')
    <2> HIDE DEF m
    <2> DEFINE k == [m EXCEPT !.sleepTicks[runningTask] = ticks]
    <2>1. runningTask \in Thread /\ SwitchRunningTask(k, "THREAD_DEFTICK_SLEEP")
      BY <1>6 DEF Sleep, m
    <2>2. ticks \in Nat \ {0}
      BY Configuration
    <2>3. Sound(k) /\ k.running = runningTask /\ k.sleepTicks[runningTask] > 0
      BY <1>1, <2>1, <2>2, SleepTicksSound
    <2>4. m \in MachineType
      BY <1>1 DEF Sound, Ticking
    <2>5. /\ k.state = m.state /\ k.currentBudget = m.currentBudget
          /\ k.replenishIn = m.replenishIn /\ k.sleepIn = m.sleepIn
          /\ \A t \in Thread : t # runningTask => k.sleepTicks[t] = m.sleepTicks[t]
      BY <2>4 DEF MachineType
    <2> HIDE DEF k
    <2>6. /\ OtherStep(k, Machine') /\ Machine'.sleepTicks = k.sleepTicks
          /\ Machine'.state[runningTask] \in DefTickThreadStates \cup {"FAILURE"}
      BY <1>1, <2>1, <2>3, SwitchIs DEF DefTickThreadStates
    <2> QED BY <1>1, <2>1, <2>3, <2>5, <2>6 DEF OtherStep
  <1>7. ASSUME NEW v \in Vector, ExternalInterrupt(v) PROVE OtherStep(m, Machine')
    <2>1. PICK pushCurrent \in PushCurrents :
            \E n \in Reschedule(LsrPushAll(IF pushCurrent THEN LsrPushCurrent(m) ELSE m, v)) : Becomes(n)
      BY <1>7, Zenon DEF ExternalInterrupt
    <2> DEFINE k == IF pushCurrent THEN LsrPushCurrent(m) ELSE m
               l == LsrPushAll(k, v)
    <2>2. PICK n \in Reschedule(l) : Becomes(n)
      BY <2>1
    <2>3. k \in {m, LsrPushCurrent(m)} /\ Sound(k) /\ (k.running = Idle => Ready(k) = {})
      BY <1>1, LsrPushCurrentSound, NoTaskNotThread DEF Working
    <2> HIDE DEF k, m
    <2>4. /\ SameTimes(m, l)
          /\ \A t \in Thread : \/ l.state[t] = m.state[t]
                               \/ m.state[t] = "RUNNING" /\ l.state[t] = "DEFTICK_PENDING"
      BY <1>1, <2>3, ReleaseShifts
    <2>5. Sound(l) /\ (l.running = Idle => Ready(l) = {})
      BY <1>1, <2>3, LsrPushAllSound
    <2> HIDE DEF l
    <2>6. SameTimes(l, n) /\ Shifts(l, n) /\ n \in MachineType
      BY <1>1, <2>2, <2>5, RescheduleShifts, RescheduleSound DEF Sound, Ticking
    <2>7. Machine' = n
      BY <2>2, <2>6, MachineBecomes
    <2>8. SameTimes(m, n) /\ Shifts(m, n)
      BY <2>4, <2>6 DEF SameTimes, Shifts, Shift
    <2> QED BY <1>2, <2>7, <2>8 DEF m
  <1> QED BY <1>3, <1>5, <1>6, <1>7 DEF Other

-----------------------------------------------------------------------------
(* What the phases of a tick do to each thread.                            *)

\* kTickReplenishmentPeriod: an expired period gives the budget back.
Replenishes(m, n) ==
  /\ n.sleepIn = m.sleepIn /\ n.sleepTicks = m.sleepTicks
  /\ n.running = m.running
  /\ \A t \in Thread :
       LET expired == m.replenishIn[t] = 1
       IN  /\ n.currentBudget[t] = IF expired THEN budget[t] ELSE m.currentBudget[t]
           /\ n.replenishIn[t] = IF expired THEN IF BCS THEN 0 ELSE period[t]
                                 ELSE IF m.replenishIn[t] = 0 THEN 0 ELSE m.replenishIn[t] - 1
           /\ n.state[t] = IF expired /\ m.state[t] = "THREAD_THROTTLED" THEN "READY" ELSE m.state[t]

\* An expired replenishment node is that of kTickReplenishmentPeriod, whatever the
\* thread is doing.
LEMMA ReplenishmentPeriodIs ==
  ASSUME NEW m \in MachineType
  PROVE  Replenishes(m, ReplenishmentPeriod(m))
  <1> DEFINE n == ReplenishmentPeriod(m)
             expired == {t \in Thread : m.replenishIn[t] = 1}
             newReplenish == [t \in Thread |->
               CASE t \in expired -> IF BCS THEN 0 ELSE period[t]
                 [] t \notin expired -> IF m.replenishIn[t] = 0 THEN 0 ELSE m.replenishIn[t] - 1]
             newBudget == [t \in Thread |-> IF t \in expired THEN budget[t] ELSE m.currentBudget[t]]
             newState == [t \in Task |->
               IF t \in expired /\ m.state[t] = "THREAD_THROTTLED" THEN "READY" ELSE m.state[t]]
  <1>1. n = [m EXCEPT !.replenishIn = newReplenish, !.currentBudget = newBudget, !.state = newState]
    BY DEF ReplenishmentPeriod, MachineType
  <1> HIDE DEF n, newReplenish, newBudget, newState
  <1>2. /\ n.state = newState /\ n.replenishIn = newReplenish /\ n.currentBudget = newBudget
        /\ n.sleepIn = m.sleepIn /\ n.sleepTicks = m.sleepTicks /\ n.running = m.running
    BY <1>1 DEF MachineType
  <1>3. Thread \subseteq Task
    BY DEF Task
  <1> QED BY <1>2, <1>3 DEF Replenishes, newReplenish, newBudget, newState, n

\* kTickRunningTask: whoever holds the core pays, and a budget without a
\* period, or with one that ends now, is refilled.
Charges(m, n) ==
  /\ n.sleepIn = m.sleepIn /\ n.sleepTicks = m.sleepTicks /\ n.replenishIn = m.replenishIn
  /\ n.running = m.running /\ n.state = m.state
  /\ \A t \in Thread :
       n.currentBudget[t] = IF m.running # t THEN m.currentBudget[t]
                            ELSE IF m.currentBudget[t] - 1 = 0 /\ ~MustThrottle(m, t)
                                 THEN budget[t] ELSE m.currentBudget[t] - 1

\* kTickRunningTask charges the running thread and nobody else.
LEMMA ChargeRunningTaskIs ==
  ASSUME NEW m \in MachineType
  PROVE  Charges(m, ChargeRunningTask(m))
  <1> DEFINE n == ChargeRunningTask(m)
             r == m.running
             paid == IF m.currentBudget[r] - 1 = 0 /\ ~MustThrottle(m, r)
                     THEN budget[r] ELSE m.currentBudget[r] - 1
  <1>1. CASE r \notin Thread
    BY <1>1 DEF ChargeRunningTask, Charges
  <1>2. CASE r \in Thread
    <2>1. n = [m EXCEPT !.currentBudget[r] = paid]
      BY <1>2 DEF ChargeRunningTask
    <2> HIDE DEF n, paid
    <2>2. /\ n.currentBudget = [m.currentBudget EXCEPT ![r] = paid] /\ n.state = m.state
          /\ n.sleepIn = m.sleepIn /\ n.sleepTicks = m.sleepTicks /\ n.replenishIn = m.replenishIn
          /\ n.running = m.running
      BY <2>1 DEF MachineType
    <2>3. m.currentBudget \in [Thread -> Nat]
      BY DEF MachineType
    <2> QED BY <2>2, <2>3 DEF Charges, paid, n
  <1> QED BY <1>1, <1>2

\* The budget a deferred thread has left, and whether it has to wait for more.
LeftOver(m, t) == IF m.state[t] = "THREAD_DEFTICK_THROTTLE" THEN 0 ELSE m.currentBudget[t] - 1
Sleepy(m, t) == m.state[t] = "THREAD_DEFTICK_SLEEP"
Throttles(m, t) == ~Sleepy(m, t) /\ LeftOver(m, t) = 0 /\ MustThrottle(m, t)

\* kTickHandleDeferredTicks: every thread that left the core pays and moves on.
HandlesDeferred(m, n) ==
  /\ n.sleepTicks = m.sleepTicks /\ n.running = m.running
  /\ \A t \in Thread : m.state[t] \notin DefTickStates =>
       /\ n.state[t] = m.state[t] /\ n.currentBudget[t] = m.currentBudget[t]
       /\ n.sleepIn[t] = m.sleepIn[t] /\ n.replenishIn[t] = m.replenishIn[t]
  /\ \A t \in Thread : m.state[t] \in DefTickStates =>
       /\ n.state[t] = IF Throttles(m, t) THEN "THREAD_THROTTLED"
                       ELSE IF Sleepy(m, t) THEN "THREAD_SLEEP"
                       ELSE IF m.state[t] = "DEFTICK_PENDING" THEN "PENDING" ELSE "READY"
       /\ n.currentBudget[t] = IF LeftOver(m, t) = 0 /\ ~Sleepy(m, t) /\ ~Throttles(m, t)
                               THEN budget[t] ELSE LeftOver(m, t)
       /\ n.sleepIn[t] = IF Sleepy(m, t) THEN m.sleepTicks[t] ELSE m.sleepIn[t]
       /\ n.replenishIn[t] = IF BCS /\ Throttles(m, t) THEN period[t] ELSE m.replenishIn[t]

\* The stack of deferred ticks holds each thread that owes a tick once, so each is
\* charged once.
LEMMA HandleDeferredTicksIs ==
  ASSUME NEW m, Ticking(m)
  PROVE  HandlesDeferred(m, HandleDeferredTicks(m))
  <1> DEFINE n == HandleDeferredTicks(m)
             deferred == ToSet(m.deferred)
             charged == deferred \cap Thread
             left(t) == LeftOver(m, t)
             throttled == {t \in charged : Throttles(m, t)}
             next(t) == CASE t \in throttled -> "THREAD_THROTTLED"
                          [] t \notin throttled /\ Sleepy(m, t) -> "THREAD_SLEEP"
                          [] t \notin throttled /\ m.state[t] = "DEFTICK_PENDING" -> "PENDING"
                          [] t \notin throttled /\ m.state[t] \in
                               {"THREAD_DEFTICK_YIELD", "THREAD_DEFTICK_THROTTLE"} -> "READY"
             newState == [t \in Task |-> IF t \in deferred THEN next(t) ELSE m.state[t]]
             newPending == IF m.pending \in throttled THEN NoTask ELSE m.pending
             newBudget == [t \in Thread |->
               CASE t \notin charged -> m.currentBudget[t]
                 [] t \in charged /\ (left(t) > 0 \/ Sleepy(m, t) \/ t \in throttled) -> left(t)
                 [] t \in charged /\ left(t) = 0 /\ ~Sleepy(m, t) /\ t \notin throttled -> budget[t]]
             newSleep == [t \in Thread |->
               IF t \in charged /\ Sleepy(m, t) THEN m.sleepTicks[t] ELSE m.sleepIn[t]]
             newReplenish == [t \in Thread |->
               IF BCS /\ t \in throttled THEN period[t] ELSE m.replenishIn[t]]
  <1>1. n = [m EXCEPT !.deferred = <<>>, !.state = newState, !.pending = newPending,
                      !.currentBudget = newBudget, !.sleepIn = newSleep, !.replenishIn = newReplenish]
    BY Zenon DEF HandleDeferredTicks, Throttles, LeftOver, Sleepy
  <1>2. /\ m \in MachineType /\ Thread \subseteq Task
        /\ \A t \in Thread : t \in deferred <=> m.state[t] \in DefTickStates
        /\ \A t \in Thread : m.state[t] \in DefTickStates => m.currentBudget[t] > 0
        /\ m.currentBudget \in [Thread -> Nat]
    BY DEF Ticking, DeferredOK, BudgetsOK, MachineType, Task
  <1> HIDE DEF n, newState, newPending, newBudget, newSleep, newReplenish, deferred
  <1>3. /\ n.state = newState /\ n.currentBudget = newBudget /\ n.replenishIn = newReplenish
        /\ n.sleepIn = newSleep
        /\ n.running = m.running /\ n.sleepTicks = m.sleepTicks
    BY <1>1, <1>2 DEF MachineType
  <1>4. ASSUME NEW t \in Thread, m.state[t] \notin DefTickStates
        PROVE  /\ n.state[t] = m.state[t] /\ n.currentBudget[t] = m.currentBudget[t]
               /\ n.sleepIn[t] = m.sleepIn[t] /\ n.replenishIn[t] = m.replenishIn[t]
    BY <1>2, <1>3, <1>4 DEF newState, newBudget, newSleep, newReplenish
  <1>5. ASSUME NEW t \in Thread, m.state[t] \in DefTickStates
        PROVE  /\ n.state[t] = IF Throttles(m, t) THEN "THREAD_THROTTLED"
                               ELSE IF Sleepy(m, t) THEN "THREAD_SLEEP"
                               ELSE IF m.state[t] = "DEFTICK_PENDING" THEN "PENDING" ELSE "READY"
               /\ n.currentBudget[t] = IF LeftOver(m, t) = 0 /\ ~Sleepy(m, t) /\ ~Throttles(m, t)
                                       THEN budget[t] ELSE LeftOver(m, t)
               /\ n.sleepIn[t] = IF Sleepy(m, t) THEN m.sleepTicks[t] ELSE m.sleepIn[t]
               /\ n.replenishIn[t] = IF BCS /\ Throttles(m, t) THEN period[t] ELSE m.replenishIn[t]
    <2>1. t \in deferred /\ t \in charged /\ t \in Task /\ (t \in throttled <=> Throttles(m, t))
      BY <1>2, <1>5
    <2>2. n.state[t] = IF Throttles(m, t) THEN "THREAD_THROTTLED"
                       ELSE IF Sleepy(m, t) THEN "THREAD_SLEEP"
                       ELSE IF m.state[t] = "DEFTICK_PENDING" THEN "PENDING" ELSE "READY"
      <3>1. n.state[t] = next(t)
        BY <1>3, <2>1 DEF newState
      <3> HIDE DEF throttled
      <3> QED BY <1>5, <2>1, <3>1 DEF Sleepy, DefTickStates, DefTickThreadStates
    <2>3. LeftOver(m, t) \in Nat
      BY <1>2, <1>5 DEF LeftOver
    <2>4. n.currentBudget[t] = IF LeftOver(m, t) = 0 /\ ~Sleepy(m, t) /\ ~Throttles(m, t)
                               THEN budget[t] ELSE LeftOver(m, t)
      <3> HIDE DEF throttled, charged
      <3> QED BY <1>3, <2>1, <2>3 DEF newBudget
    <2> HIDE DEF throttled, charged
    <2> QED BY <1>3, <2>1, <2>2, <2>4 DEF newSleep, newReplenish
  <1> QED BY <1>3, <1>4, <1>5 DEF HandlesDeferred, n

\* kTickSleepPeriod: the time slept counts towards the cooldown.
SleptThrough(m, t) == IF BCS THEN m.sleepTicks[t] > period[t] ELSE period[t] = 0

WakesUp(m, n) ==
  /\ n.sleepTicks = m.sleepTicks /\ n.running = m.running
  /\ \A t \in Thread : n.sleepIn[t] = IF m.sleepIn[t] = 0 THEN 0 ELSE m.sleepIn[t] - 1
  /\ \A t \in Thread : m.sleepIn[t] # 1 =>
       /\ n.state[t] = m.state[t] /\ n.currentBudget[t] = m.currentBudget[t]
       /\ n.replenishIn[t] = m.replenishIn[t]
  /\ \A t \in Thread : m.sleepIn[t] = 1 =>
       LET broke == m.currentBudget[t] = 0
       IN  /\ n.state[t] = IF broke /\ ~SleptThrough(m, t) THEN "THREAD_THROTTLED" ELSE "READY"
           /\ n.currentBudget[t] = IF broke /\ SleptThrough(m, t) THEN budget[t] ELSE m.currentBudget[t]
           /\ n.replenishIn[t] = IF BCS /\ broke /\ ~SleptThrough(m, t)
                                 THEN period[t] - (m.sleepTicks[t] - 1) ELSE m.replenishIn[t]

\* kTickSleepPeriod wakes up a thread on the last tick of its sleep.
LEMMA SleepPeriodIs ==
  ASSUME NEW m \in MachineType
  PROVE  WakesUp(m, SleepPeriod(m))
  <1> DEFINE n == SleepPeriod(m)
             woken == {t \in Thread : m.sleepIn[t] = 1}
             refilled == {t \in woken : m.currentBudget[t] = 0 /\ SleptThrough(m, t)}
             throttled == {t \in woken \ refilled : m.currentBudget[t] = 0}
             newSleep == [t \in Thread |-> IF m.sleepIn[t] = 0 THEN 0 ELSE m.sleepIn[t] - 1]
             newBudget == [t \in Thread |-> IF t \in refilled THEN budget[t] ELSE m.currentBudget[t]]
             newState == [t \in Task |-> CASE t \notin woken -> m.state[t]
                                           [] t \in throttled -> "THREAD_THROTTLED"
                                           [] t \in woken \ throttled -> "READY"]
             newReplenish == [t \in Thread |->
               IF BCS /\ t \in throttled THEN period[t] - (m.sleepTicks[t] - 1) ELSE m.replenishIn[t]]
  <1>1. n = [m EXCEPT !.sleepIn = newSleep, !.currentBudget = newBudget, !.state = newState,
                      !.replenishIn = newReplenish]
    BY Zenon DEF SleepPeriod, SleptThrough
  <1> HIDE DEF n, newState, newBudget, newSleep, newReplenish
  <1>2. /\ n.state = newState /\ n.currentBudget = newBudget /\ n.replenishIn = newReplenish
        /\ n.sleepIn = newSleep
        /\ n.running = m.running /\ n.sleepTicks = m.sleepTicks
    BY <1>1 DEF MachineType
  <1>3. Thread \subseteq Task
    BY DEF Task
  <1>4. ASSUME NEW t \in Thread
        PROVE  /\ t \in woken <=> m.sleepIn[t] = 1
               /\ t \in refilled <=> m.sleepIn[t] = 1 /\ m.currentBudget[t] = 0 /\ SleptThrough(m, t)
               /\ t \in throttled <=> m.sleepIn[t] = 1 /\ m.currentBudget[t] = 0 /\ ~SleptThrough(m, t)
    OBVIOUS
  <1> HIDE DEF woken, refilled, throttled
  <1>5. ASSUME NEW t \in Thread
        PROVE  n.state[t] = IF t \notin woken THEN m.state[t]
                            ELSE IF t \in throttled THEN "THREAD_THROTTLED" ELSE "READY"
    BY <1>2, <1>3, <1>4 DEF newState
  <1> QED BY <1>2, <1>4, <1>5 DEF WakesUp, newSleep, newBudget, newReplenish, n

\* The rescheduling point of a tick: whoever holds the core is throttled if
\* the budget is gone, and may be replaced otherwise.
Replaces(m, n) ==
  /\ n.currentBudget = m.currentBudget /\ n.sleepIn = m.sleepIn /\ n.sleepTicks = m.sleepTicks
  /\ \A t \in Thread :
       IF m.running = t /\ m.currentBudget[t] = 0
       THEN /\ n.state[t] = "THREAD_THROTTLED"
            /\ n.replenishIn[t] = IF BCS THEN period[t] ELSE m.replenishIn[t]
       ELSE /\ n.replenishIn[t] = m.replenishIn[t]
            /\ \/ n.state[t] = m.state[t]
               \/ {m.state[t], n.state[t]} = {"READY", "RUNNING"}

\* The rescheduling point touches no budget and no timer that is running, and moves
\* only threads that are ready or on the core.
LEMMA ReschedulingPointIs ==
  ASSUME ParamsOK, NEW m, Ticking(m), m.running # NoTask, NEW n \in ReschedulingPoint(m, TRUE)
  PROVE  Replaces(m, n)
  <1> DEFINE r == m.running
             budgetDone == r \in Thread /\ m.currentBudget[r] = 0
             left(s) == LoadNextState(LeaveRunning(m), r, s)
  <1>1. /\ m \in MachineType /\ m.state \in [Task -> States] /\ Thread \subseteq Task
        /\ r \in Task /\ Idle \notin Thread \cup Lsr /\ Thread \cap Lsr = {} /\ m.state[r] = "RUNNING"
        /\ \A t \in Thread : m.state[t] = "RUNNING" <=> r = t
    BY Configuration DEF Ticking, SlotsOK, MachineType, Task
  <1>2. CASE budgetDone
    <2>1. n \in RunNext(left("THREAD_THROTTLED"))
      BY <1>1, <1>2 DEF ReschedulingPoint
    <2>2. left("THREAD_THROTTLED") \in MachineType
      BY <1>2, LeaveThrottled DEF Sound, Ticking
    <2> DEFINE k == left("THREAD_THROTTLED")
    <2>3. /\ k.state = [m.state EXCEPT ![r] = "THREAD_THROTTLED"]
          /\ k.replenishIn = IF BCS THEN [m.replenishIn EXCEPT ![r] = period[r]] ELSE m.replenishIn
          /\ k.currentBudget = m.currentBudget /\ k.sleepIn = m.sleepIn /\ k.sleepTicks = m.sleepTicks
      <3>1. k = IF BCS THEN [m EXCEPT !.running = NoTask, !.state[r] = "THREAD_THROTTLED",
                                      !.replenishIn[r] = period[r]]
                ELSE [m EXCEPT !.running = NoTask, !.state[r] = "THREAD_THROTTLED"]
        BY <1>1 DEF LoadNextState, LeaveRunning, MachineType, DefTickThreadStates
      <3> HIDE DEF k
      <3> QED BY <1>1, <3>1 DEF MachineType
    <2> HIDE DEF k
    <2>4. SameTimes(k, n) /\ \A u \in Thread : \/ n.state[u] = k.state[u]
                                               \/ k.state[u] = "READY" /\ n.state[u] = "RUNNING"
      BY <2>1, <2>2, RunNextIs DEF k
    <2>5. m.replenishIn \in [Thread -> Nat]
      BY <1>1 DEF MachineType
    <2> QED BY <1>1, <1>2, <2>3, <2>4, <2>5 DEF Replaces, SameTimes
  <1>3. CASE ~budgetDone /\ n = m
    BY <1>3 DEF Replaces
  <1>4. CASE ~budgetDone /\ n # m
    <2>1. r \notin Lsr /\ n \in RunNext(left("READY"))
      <3>1. r \notin Lsr
        BY <1>1, <1>4 DEF ReschedulingPoint
      <3>2. r = Idle \/ r \in Thread
        BY <1>1, <3>1 DEF Task
      <3> QED BY <1>1, <1>4, <3>1, <3>2 DEF ReschedulingPoint
    <2>2. MovesTo(m, left("READY"), r, "READY")
      BY <1>1, LeavingIs
    <2>3. left("READY") \in MachineType
      <3>1. Sound(left("READY"))
        <4>1. r \in Thread => m.currentBudget[r] > 0
          BY <1>1, <1>4 DEF MachineType
        <4> QED BY <1>1, <2>1, <4>1, LeaveReadyOrFailed
      <3> QED BY <3>1 DEF Sound, Ticking
    <2> DEFINE k == left("READY")
    <2> HIDE DEF k
    <2>4. SameTimes(k, n) /\ \A u \in Thread : \/ n.state[u] = k.state[u]
                                               \/ k.state[u] = "READY" /\ n.state[u] = "RUNNING"
      BY <2>1, <2>3, RunNextIs DEF k
    <2>5. SameTimes(m, k) /\ k.state = [m.state EXCEPT ![r] = "READY"]
      BY <2>2 DEF MovesTo, k
    <2> QED BY <1>1, <1>4, <2>4, <2>5 DEF Replaces, SameTimes
  <1> QED BY <1>2, <1>3, <1>4

\* What a thread may expect to hold about its own record in a sound machine.
LEMMA ThreadFacts ==
  ASSUME ParamsOK, NEW m, Sound(m), NEW t \in Thread
  PROVE  /\ m.state[t] \in ThreadStates
         /\ m.currentBudget[t] \in Nat /\ m.replenishIn[t] \in Nat
         /\ m.sleepIn[t] \in Nat /\ m.sleepTicks[t] \in Nat
         /\ budget[t] \in Nat \ {0} /\ period[t] \in Nat
         /\ m.running = t <=> m.state[t] = "RUNNING"
         /\ m.state[t] = "THREAD_SLEEP" <=> m.sleepIn[t] > 0
         /\ m.replenishIn[t] > 0 <=> IF BCS THEN m.state[t] = "THREAD_THROTTLED" ELSE period[t] > 0
         /\ m.state[t] \in {"THREAD_DEFTICK_SLEEP", "THREAD_SLEEP"} => m.sleepTicks[t] > 0
         /\ m.state[t] \in DefTickStates \cup {"READY", "PENDING", "RUNNING"} => m.currentBudget[t] > 0
         /\ m.state[t] = "THREAD_THROTTLED" => m.currentBudget[t] = 0 /\ period[t] > 0
  <1>1. m \in MachineType /\ t \in Task
    BY DEF Sound, Ticking, Task
  <1>2. budget[t] \in Nat \ {0} /\ period[t] \in Nat
    BY Configuration DEF ParamsOK
  <1>3. /\ m.currentBudget[t] \in Nat /\ m.replenishIn[t] \in Nat
        /\ m.sleepIn[t] \in Nat /\ m.sleepTicks[t] \in Nat
    BY <1>1 DEF MachineType
  <1>4. m.state[t] \in ThreadStates /\ (m.running = t <=> m.state[t] = "RUNNING")
    BY <1>1 DEF Sound, Ticking, StatesOK, SlotsOK
  <1>5. /\ m.state[t] = "THREAD_SLEEP" <=> m.sleepIn[t] > 0
        /\ m.replenishIn[t] > 0 <=> IF BCS THEN m.state[t] = "THREAD_THROTTLED" ELSE period[t] > 0
        /\ m.state[t] \in {"THREAD_DEFTICK_SLEEP", "THREAD_SLEEP"} => m.sleepTicks[t] > 0
    BY DEF Sound, Ticking, TimersOK
  <1>6. /\ m.state[t] \in DefTickStates \cup {"READY", "PENDING", "RUNNING"} => m.currentBudget[t] > 0
        /\ m.state[t] = "THREAD_THROTTLED" => m.currentBudget[t] = 0 /\ period[t] > 0
    BY <1>4 DEF Sound, Ticking, BudgetsOK
  <1> QED BY <1>2, <1>3, <1>4, <1>5, <1>6

\* A tick does this to the state and the sleep of a thread with either
\* algorithm, ...
TickMoves(m, n, t) ==
  /\ n.sleepTicks = m.sleepTicks
  /\ n.state[t] \notin DefTickStates
  /\ n.state[t] = "FAILURE" <=> m.state[t] = "FAILURE"
  /\ n.state[t] = "THREAD_SLEEP" => m.state[t] \in {"THREAD_SLEEP", "THREAD_DEFTICK_SLEEP"}
  /\ m.state[t] = "THREAD_SLEEP" => n.sleepIn[t] = m.sleepIn[t] - 1
  /\ m.state[t] = "THREAD_DEFTICK_SLEEP" => n.sleepIn[t] = m.sleepTicks[t] - 1

\* ... this to its budget with the burst-cooldown server, ...
TickPaysBcs(m, n, t) ==
  /\ Owes(m, t) => /\ n.currentBudget[t] \in {m.currentBudget[t] - 1, 0} \/ period[t] = 0
                   /\ n.currentBudget[t] = 0 =>
                        \/ n.state[t] = "THREAD_THROTTLED" /\ n.replenishIn[t] = period[t]
                        \/ n.state[t] = "THREAD_SLEEP" /\ m.state[t] = "THREAD_DEFTICK_SLEEP"
  /\ ~Owes(m, t) /\ m.currentBudget[t] > 0 => n.currentBudget[t] = m.currentBudget[t]
  /\ m.state[t] = "THREAD_THROTTLED" =>
       IF m.replenishIn[t] = 1 THEN n.currentBudget[t] = budget[t]
       ELSE /\ n.currentBudget[t] = 0 /\ n.state[t] = "THREAD_THROTTLED"
            /\ n.replenishIn[t] = m.replenishIn[t] - 1
  /\ m.state[t] = "THREAD_SLEEP" /\ m.currentBudget[t] = 0 =>
       /\ m.sleepIn[t] # 1 => n.currentBudget[t] = 0 /\ n.state[t] = "THREAD_SLEEP"
       /\ m.sleepIn[t] = 1 /\ m.sleepTicks[t] > period[t] => n.currentBudget[t] = budget[t]
       /\ m.sleepIn[t] = 1 /\ m.sleepTicks[t] <= period[t] =>
            /\ n.currentBudget[t] = 0 /\ n.state[t] = "THREAD_THROTTLED"
            /\ n.replenishIn[t] = period[t] - (m.sleepTicks[t] - 1)

\* ... and this with the deferrable server.
TickPaysDs(m, n, t) ==
  period[t] > 0 =>
    /\ m.replenishIn[t] = 1 => n.currentBudget[t] = budget[t]
    /\ m.replenishIn[t] # 1 /\ m.state[t] # "FAILURE" =>
         n.currentBudget[t] <= IF Owes(m, t) THEN m.currentBudget[t] - 1 ELSE m.currentBudget[t]

\* The phases of a tick in the order of the burst-cooldown server, which replenishes
\* first.
LEMMA TickIsBcs ==
  ASSUME ParamsOK, BCS, NEW m, Sound(m), m.running # NoTask,
         NEW a \in TickPhases(m), NEW n \in ReschedulingPoint(a, TRUE), NEW t \in Thread
  PROVE  TickMoves(m, n, t) /\ TickPaysBcs(m, n, t)
  <1> DEFINE b == ReplenishmentPeriod(m)
             c == HandleDeferredTicks(b)
             d == ChargeRunningTask(c)
  <1>1. a = SleepPeriod(d)
    BY DEF TickPhases
  <1>2. Sound(b) /\ Sound(c) /\ Ticking(d) /\ Ticking(a) /\ a.running = m.running
    <2>1. Sound(b)
      BY ReplenishmentPeriodSound DEF Sound
    <2> HIDE DEF b
    <2>2. Sound(c)
      BY <2>1, HandleDeferredTicksSound DEF Sound
    <2> HIDE DEF c
    <2>3. Ticking(d)
      BY <2>2, ChargeRunningTaskSound
    <2> QED BY <2>1, <2>2, <2>3, TickPhasesSound
  <1>3. m \in MachineType /\ b \in MachineType /\ c \in MachineType /\ d \in MachineType
    BY <1>2 DEF Sound, Ticking
  <1>4. Replenishes(m, b)
    BY <1>3, ReplenishmentPeriodIs
  <1> HIDE DEF b
  <1>5. HandlesDeferred(b, c)
    BY <1>2, HandleDeferredTicksIs DEF Sound
  <1> HIDE DEF c
  <1>6. Charges(c, d)
    BY <1>3, ChargeRunningTaskIs
  <1> HIDE DEF d
  <1>7. WakesUp(d, a)
    BY <1>1, <1>3, SleepPeriodIs
  <1>8. Replaces(a, n)
    BY <1>2, ReschedulingPointIs
  <1>9. /\ m.state[t] \in ThreadStates
        /\ m.currentBudget[t] \in Nat /\ m.replenishIn[t] \in Nat
        /\ m.sleepIn[t] \in Nat /\ m.sleepTicks[t] \in Nat
        /\ budget[t] \in Nat \ {0} /\ period[t] \in Nat
        /\ m.running = t <=> m.state[t] = "RUNNING"
        /\ m.state[t] = "THREAD_SLEEP" <=> m.sleepIn[t] > 0
        /\ m.replenishIn[t] > 0 <=> m.state[t] = "THREAD_THROTTLED"
        /\ m.state[t] \in {"THREAD_DEFTICK_SLEEP", "THREAD_SLEEP"} => m.sleepTicks[t] > 0
        /\ m.state[t] \in DefTickStates \cup {"READY", "PENDING", "RUNNING"} => m.currentBudget[t] > 0
        /\ m.state[t] = "THREAD_THROTTLED" => m.currentBudget[t] = 0 /\ period[t] > 0
    BY ThreadFacts
  <1>10. /\ b.running = m.running /\ c.running = m.running /\ d.running = m.running
         /\ b.sleepTicks = m.sleepTicks /\ c.sleepTicks = m.sleepTicks
         /\ d.sleepTicks = m.sleepTicks /\ a.sleepTicks = m.sleepTicks /\ n.sleepTicks = m.sleepTicks
         /\ b.sleepIn[t] = m.sleepIn[t] /\ n.sleepIn[t] = a.sleepIn[t]
         /\ n.currentBudget[t] = a.currentBudget[t]
    BY <1>4, <1>5, <1>6, <1>7, <1>8 DEF Replenishes, HandlesDeferred, Charges, WakesUp, Replaces
  <1>11. ASSUME m.state[t] \notin DefTickStates \cup {"RUNNING", "THREAD_SLEEP"}
         PROVE  /\ n.state[t] = b.state[t] \/ {b.state[t], n.state[t]} = {"READY", "RUNNING"}
                /\ n.currentBudget[t] = b.currentBudget[t] /\ n.replenishIn[t] = b.replenishIn[t]
    <2>1. b.state[t] \notin DefTickStates
      BY <1>4, <1>9, <1>11 DEF Replenishes, DefTickStates, DefTickThreadStates
    <2>2. /\ c.state[t] = b.state[t] /\ c.currentBudget[t] = b.currentBudget[t]
          /\ c.sleepIn[t] = 0 /\ c.replenishIn[t] = b.replenishIn[t]
      BY <1>5, <1>9, <1>10, <1>11, <2>1 DEF HandlesDeferred
    <2>3. /\ d.state[t] = b.state[t] /\ d.currentBudget[t] = b.currentBudget[t]
          /\ d.sleepIn[t] = 0 /\ d.replenishIn[t] = b.replenishIn[t] /\ m.running # t
      BY <1>6, <1>9, <1>10, <1>11, <2>2 DEF Charges
    <2>4. /\ a.state[t] = b.state[t] /\ a.currentBudget[t] = b.currentBudget[t]
          /\ a.replenishIn[t] = b.replenishIn[t]
      BY <1>7, <2>3 DEF WakesUp
    <2> QED BY <1>2, <1>8, <1>10, <2>3, <2>4 DEF Replaces
  <1>12. CASE m.state[t] \in {"READY", "PENDING", "FAILURE"}
    <2>1. /\ b.state[t] = m.state[t] /\ b.currentBudget[t] = m.currentBudget[t]
      BY <1>4, <1>9, <1>12 DEF Replenishes
    <2>2. m.state[t] \notin DefTickStates \cup {"RUNNING", "THREAD_SLEEP"}
      BY <1>12 DEF DefTickStates, DefTickThreadStates
    <2> QED BY <1>9, <1>10, <1>11, <1>12, <2>1, <2>2
            DEF TickMoves, TickPaysBcs, Owes, DefTickStates, DefTickThreadStates
  <1>13. CASE m.state[t] = "THREAD_THROTTLED"
    <2>1. m.state[t] \notin DefTickStates \cup {"RUNNING", "THREAD_SLEEP"}
      BY <1>13 DEF DefTickStates, DefTickThreadStates
    <2>2. IF m.replenishIn[t] = 1
          THEN b.state[t] = "READY" /\ b.currentBudget[t] = budget[t]
          ELSE /\ b.state[t] = m.state[t] /\ b.currentBudget[t] = m.currentBudget[t]
               /\ b.replenishIn[t] = m.replenishIn[t] - 1
      BY <1>4, <1>9, <1>13 DEF Replenishes
    <2> QED BY <1>9, <1>10, <1>11, <1>13, <2>1, <2>2
            DEF TickMoves, TickPaysBcs, Owes, DefTickStates, DefTickThreadStates
  <1>14. ASSUME m.state[t] # "THREAD_THROTTLED"
         PROVE  b.state[t] = m.state[t] /\ b.currentBudget[t] = m.currentBudget[t]
    BY <1>4, <1>9, <1>14 DEF Replenishes
  <1>15. CASE m.state[t] = "THREAD_SLEEP"
    <2>1. /\ c.state[t] = "THREAD_SLEEP" /\ c.currentBudget[t] = m.currentBudget[t]
          /\ c.sleepIn[t] = m.sleepIn[t]
      BY <1>5, <1>10, <1>14, <1>15 DEF HandlesDeferred, DefTickStates, DefTickThreadStates
    <2>2. /\ d.state[t] = "THREAD_SLEEP" /\ d.currentBudget[t] = m.currentBudget[t]
          /\ d.sleepIn[t] = m.sleepIn[t] /\ m.running # t
      BY <1>6, <1>9, <1>10, <1>15, <2>1 DEF Charges
    <2>3. a.sleepIn[t] = m.sleepIn[t] - 1
      BY <1>7, <1>9, <1>15, <2>2 DEF WakesUp
    <2>4. CASE m.sleepIn[t] # 1
      <3>1. a.state[t] = "THREAD_SLEEP" /\ a.currentBudget[t] = m.currentBudget[t]
        BY <1>7, <2>2, <2>4 DEF WakesUp
      <3>2. n.state[t] = "THREAD_SLEEP"
        BY <1>2, <1>8, <2>2, <3>1 DEF Replaces
      <3> QED BY <1>9, <1>10, <1>15, <2>3, <2>4, <3>1, <3>2
              DEF TickMoves, TickPaysBcs, Owes, DefTickStates, DefTickThreadStates
    <2>5. CASE m.sleepIn[t] = 1
      <3>1. LET broke == m.currentBudget[t] = 0
                through == m.sleepTicks[t] > period[t]
            IN  /\ a.state[t] = IF broke /\ ~through THEN "THREAD_THROTTLED" ELSE "READY"
                /\ a.currentBudget[t] = IF broke /\ through THEN budget[t] ELSE m.currentBudget[t]
                /\ broke /\ ~through => a.replenishIn[t] = period[t] - (m.sleepTicks[t] - 1)
        BY <1>7, <1>10, <2>2, <2>5 DEF WakesUp, SleptThrough
      <3>2. /\ n.state[t] = a.state[t] \/ {a.state[t], n.state[t]} = {"READY", "RUNNING"}
            /\ n.replenishIn[t] = a.replenishIn[t]
        BY <1>2, <1>8, <2>2 DEF Replaces
      <3>3. n.state[t] \in {"THREAD_THROTTLED", "READY", "RUNNING"}
        BY <3>1, <3>2
      <3>4. CASE m.currentBudget[t] = 0 /\ m.sleepTicks[t] <= period[t]
        BY <1>9, <1>10, <1>15, <2>3, <2>5, <3>1, <3>2, <3>3, <3>4
           DEF TickMoves, TickPaysBcs, Owes, DefTickStates, DefTickThreadStates
      <3>5. CASE ~(m.currentBudget[t] = 0 /\ m.sleepTicks[t] <= period[t])
        <4>1. n.currentBudget[t] = IF m.currentBudget[t] = 0 THEN budget[t] ELSE m.currentBudget[t]
          BY <1>9, <1>10, <3>1, <3>5
        <4> QED BY <1>9, <1>10, <1>15, <2>3, <2>5, <3>3, <3>5, <4>1
           DEF TickMoves, TickPaysBcs, Owes, DefTickStates, DefTickThreadStates
      <3> QED BY <3>4, <3>5
    <2> QED BY <2>4, <2>5
  <1>16. CASE m.state[t] = "RUNNING"
    <2>1. /\ c.state[t] = "RUNNING" /\ c.currentBudget[t] = m.currentBudget[t] /\ c.sleepIn[t] = 0
      BY <1>5, <1>9, <1>10, <1>14, <1>16 DEF HandlesDeferred, DefTickStates, DefTickThreadStates
    <2>2. /\ d.state[t] = "RUNNING" /\ d.sleepIn[t] = 0
          /\ d.currentBudget[t] # m.currentBudget[t] - 1 => d.currentBudget[t] > 0 /\ period[t] = 0
      <3>1. /\ d.state[t] = c.state[t] /\ d.sleepIn[t] = c.sleepIn[t]
            /\ d.currentBudget[t] = IF c.currentBudget[t] - 1 = 0 /\ ~MustThrottle(c, t)
                                    THEN budget[t] ELSE c.currentBudget[t] - 1
        BY <1>6, <1>9, <1>10, <1>16 DEF Charges
      <3>2. ~MustThrottle(c, t) => period[t] = 0
        BY <1>9 DEF MustThrottle
      <3> QED BY <1>9, <2>1, <3>1, <3>2
    <2>3. a.state[t] = "RUNNING" /\ a.currentBudget[t] = d.currentBudget[t]
      BY <1>7, <2>2 DEF WakesUp
    <2>4. /\ n.currentBudget[t] = 0 => n.state[t] = "THREAD_THROTTLED" /\ n.replenishIn[t] = period[t]
          /\ n.state[t] \in {"RUNNING", "READY", "THREAD_THROTTLED"}
      BY <1>2, <1>8, <1>9, <1>10, <1>16, <2>3 DEF Replaces
    <2> QED BY <1>9, <1>10, <1>16, <2>2, <2>3, <2>4
            DEF TickMoves, TickPaysBcs, Owes, DefTickStates, DefTickThreadStates
  <1>17. CASE m.state[t] \in DefTickStates
    <2> DEFINE left == IF m.state[t] = "THREAD_DEFTICK_THROTTLE" THEN 0 ELSE m.currentBudget[t] - 1
               sleepy == m.state[t] = "THREAD_DEFTICK_SLEEP"
               gone == ~sleepy /\ left = 0 /\ period[t] > 0
    <2>1. m.state[t] # "THREAD_THROTTLED" /\ m.state[t] # "THREAD_SLEEP" /\ m.running # t
      BY <1>9, <1>17 DEF DefTickStates, DefTickThreadStates
    <2>2. (Throttles(b, t) <=> gone) /\ (Sleepy(b, t) <=> sleepy) /\ LeftOver(b, t) = left
      BY <1>14, <2>1 DEF Throttles, Sleepy, LeftOver, MustThrottle
    <2>3. /\ c.state[t] = IF gone THEN "THREAD_THROTTLED" ELSE IF sleepy THEN "THREAD_SLEEP"
                          ELSE IF m.state[t] = "DEFTICK_PENDING" THEN "PENDING" ELSE "READY"
          /\ c.currentBudget[t] = IF left = 0 /\ ~sleepy /\ ~gone THEN budget[t] ELSE left
          /\ c.sleepIn[t] = IF sleepy THEN m.sleepTicks[t] ELSE 0
          /\ gone => c.replenishIn[t] = period[t]
      BY <1>5, <1>9, <1>10, <1>14, <1>17, <2>1, <2>2 DEF HandlesDeferred
    <2>4. /\ d.state[t] = c.state[t] /\ d.currentBudget[t] = c.currentBudget[t]
          /\ d.sleepIn[t] = c.sleepIn[t] /\ d.replenishIn[t] = c.replenishIn[t]
      BY <1>6, <1>10, <2>1 DEF Charges
    <2>5. /\ n.state[t] = a.state[t] \/ {a.state[t], n.state[t]} = {"READY", "RUNNING"}
          /\ n.replenishIn[t] = a.replenishIn[t]
      BY <1>2, <1>8, <2>1 DEF Replaces
    <2>6. left \in Nat /\ left <= m.currentBudget[t] - 1 /\ (left = 0 \/ left = m.currentBudget[t] - 1)
      BY <1>9, <1>17
    <2>7. CASE ~sleepy
      <3>1. /\ a.state[t] = c.state[t] /\ a.currentBudget[t] = c.currentBudget[t]
            /\ a.replenishIn[t] = c.replenishIn[t]
        BY <1>7, <2>3, <2>4, <2>7 DEF WakesUp
      <3>2. /\ c.state[t] \in {"THREAD_THROTTLED", "PENDING", "READY"}
            /\ c.currentBudget[t] \in {m.currentBudget[t] - 1, 0} \/ period[t] = 0
            /\ c.currentBudget[t] = 0 => c.state[t] = "THREAD_THROTTLED" /\ c.replenishIn[t] = period[t]
        BY <1>9, <2>3, <2>6, <2>7
      <3> HIDE DEF sleepy
      <3>3. /\ n.state[t] \in {"THREAD_THROTTLED", "PENDING", "READY", "RUNNING"}
            /\ c.state[t] = "THREAD_THROTTLED" => n.state[t] = "THREAD_THROTTLED"
        BY <2>5, <3>1, <3>2
      <3> QED BY <1>9, <1>10, <1>17, <2>1, <2>5, <2>7, <3>1, <3>2, <3>3
              DEF TickMoves, TickPaysBcs, Owes, DefTickStates, DefTickThreadStates, sleepy
    <2>8. CASE sleepy
      <3>1. /\ d.state[t] = "THREAD_SLEEP" /\ d.currentBudget[t] = m.currentBudget[t] - 1
            /\ d.sleepIn[t] = m.sleepTicks[t] /\ m.sleepTicks[t] > 0
        BY <1>9, <2>3, <2>4, <2>8
      <3>2. a.sleepIn[t] = m.sleepTicks[t] - 1
        BY <1>7, <1>9, <3>1 DEF WakesUp
      <3>3. CASE m.sleepTicks[t] # 1
        <4>1. a.state[t] = "THREAD_SLEEP" /\ a.currentBudget[t] = m.currentBudget[t] - 1
          BY <1>7, <3>1, <3>3 DEF WakesUp
        <4>2. n.state[t] = "THREAD_SLEEP"
          BY <2>5, <4>1
        <4> QED BY <1>9, <1>10, <2>8, <3>2, <4>1, <4>2
                DEF TickMoves, TickPaysBcs, Owes, DefTickStates, DefTickThreadStates
      <3>4. CASE m.sleepTicks[t] = 1
        <4>1. LET broke == m.currentBudget[t] - 1 = 0
                  through == 1 > period[t]
              IN  /\ a.state[t] = IF broke /\ ~through THEN "THREAD_THROTTLED" ELSE "READY"
                  /\ a.currentBudget[t] = IF broke /\ through THEN budget[t] ELSE m.currentBudget[t] - 1
                  /\ broke /\ ~through => a.replenishIn[t] = period[t] - (1 - 1)
          BY <1>7, <1>10, <3>1, <3>4 DEF WakesUp, SleptThrough
        <4> QED BY <1>9, <1>10, <2>5, <2>8, <3>2, <4>1
                DEF TickMoves, TickPaysBcs, Owes, DefTickStates, DefTickThreadStates
      <3> QED BY <3>3, <3>4
    <2> QED BY <2>7, <2>8
  <1> QED BY <1>9, <1>12, <1>13, <1>15, <1>16, <1>17 DEF ThreadStates

\* The same phases in the order of the deferrable server, which replenishes last.
LEMMA TickIsDs ==
  ASSUME ParamsOK, ~BCS, NEW m, Sound(m), m.running # NoTask,
         NEW a \in TickPhases(m), NEW n \in ReschedulingPoint(a, TRUE), NEW t \in Thread
  PROVE  TickMoves(m, n, t) /\ TickPaysDs(m, n, t)
  <1> DEFINE b == HandleDeferredTicks(m)
             c == ChargeRunningTask(b)
             d == ReplenishmentPeriod(c)
  <1>1. a = SleepPeriod(d)
    BY DEF TickPhases
  <1>2. Ticking(m) /\ Sound(b) /\ Ticking(c) /\ Ticking(d) /\ Ticking(a) /\ a.running = m.running
    <2>1. Sound(b)
      BY HandleDeferredTicksSound DEF Sound
    <2> HIDE DEF b
    <2>2. Ticking(c)
      BY <2>1, ChargeRunningTaskSound
    <2> HIDE DEF c
    <2>3. Ticking(d)
      BY <2>2, ReplenishmentPeriodSound
    <2> QED BY <2>1, <2>2, <2>3, TickPhasesSound DEF Sound
  <1>3. m \in MachineType /\ b \in MachineType /\ c \in MachineType /\ d \in MachineType
    BY <1>2 DEF Sound, Ticking
  <1>4. HandlesDeferred(m, b)
    BY <1>2, HandleDeferredTicksIs
  <1> HIDE DEF b
  <1>5. Charges(b, c)
    BY <1>3, ChargeRunningTaskIs
  <1> HIDE DEF c
  <1>6. Replenishes(c, d)
    BY <1>3, ReplenishmentPeriodIs
  <1> HIDE DEF d
  <1>7. WakesUp(d, a)
    BY <1>1, <1>3, SleepPeriodIs
  <1>8. Replaces(a, n)
    BY <1>2, ReschedulingPointIs
  <1>9. /\ m.state[t] \in ThreadStates
        /\ m.currentBudget[t] \in Nat /\ m.replenishIn[t] \in Nat
        /\ m.sleepIn[t] \in Nat /\ m.sleepTicks[t] \in Nat
        /\ budget[t] \in Nat \ {0} /\ period[t] \in Nat
        /\ m.running = t <=> m.state[t] = "RUNNING"
        /\ m.state[t] = "THREAD_SLEEP" <=> m.sleepIn[t] > 0
        /\ m.replenishIn[t] > 0 <=> period[t] > 0
        /\ m.state[t] \in {"THREAD_DEFTICK_SLEEP", "THREAD_SLEEP"} => m.sleepTicks[t] > 0
        /\ m.state[t] \in DefTickStates \cup {"READY", "PENDING", "RUNNING"} => m.currentBudget[t] > 0
        /\ m.state[t] = "THREAD_THROTTLED" => m.currentBudget[t] = 0 /\ period[t] > 0
    BY ThreadFacts
  <1>10. /\ b.running = m.running /\ c.running = m.running /\ d.running = m.running
         /\ b.sleepTicks = m.sleepTicks /\ c.sleepTicks = m.sleepTicks
         /\ d.sleepTicks = m.sleepTicks /\ a.sleepTicks = m.sleepTicks /\ n.sleepTicks = m.sleepTicks
         /\ c.sleepIn[t] = b.sleepIn[t] /\ d.sleepIn[t] = b.sleepIn[t] /\ n.sleepIn[t] = a.sleepIn[t]
         /\ n.currentBudget[t] = a.currentBudget[t] /\ c.state[t] = b.state[t]
    BY <1>4, <1>5, <1>6, <1>7, <1>8 DEF Replenishes, HandlesDeferred, Charges, WakesUp, Replaces
  <1>11. m.state[t] \notin DefTickStates =>
           /\ b.state[t] = m.state[t] /\ b.currentBudget[t] = m.currentBudget[t]
           /\ b.sleepIn[t] = m.sleepIn[t] /\ b.replenishIn[t] = m.replenishIn[t]
    BY <1>4 DEF HandlesDeferred
  <1> DEFINE left == LeftOver(m, t)
             sleepy == m.state[t] = "THREAD_DEFTICK_SLEEP"
  <1>12. m.state[t] \in DefTickStates =>
           /\ b.state[t] \in {"THREAD_THROTTLED", "THREAD_SLEEP", "PENDING", "READY"}
           /\ b.state[t] = "THREAD_SLEEP" <=> sleepy
           /\ b.sleepIn[t] = IF sleepy THEN m.sleepTicks[t] ELSE 0
           /\ b.replenishIn[t] = m.replenishIn[t]
           /\ left \in Nat /\ left <= m.currentBudget[t] - 1
           /\ period[t] > 0 /\ m.replenishIn[t] # 1 => b.currentBudget[t] = left
    <2> SUFFICES ASSUME m.state[t] \in DefTickStates
                 PROVE  /\ b.state[t] \in {"THREAD_THROTTLED", "THREAD_SLEEP", "PENDING", "READY"}
                        /\ b.state[t] = "THREAD_SLEEP" <=> sleepy
                        /\ b.sleepIn[t] = IF sleepy THEN m.sleepTicks[t] ELSE 0
                        /\ b.replenishIn[t] = m.replenishIn[t]
                        /\ left \in Nat /\ left <= m.currentBudget[t] - 1
                        /\ period[t] > 0 /\ m.replenishIn[t] # 1 => b.currentBudget[t] = left
      OBVIOUS
    <2>1. left \in Nat /\ left <= m.currentBudget[t] - 1
      BY <1>9 DEF LeftOver
    <2>2. m.state[t] # "THREAD_SLEEP" /\ m.sleepIn[t] = 0
      BY <1>9 DEF DefTickStates, DefTickThreadStates
    <2>3. (Sleepy(m, t) <=> sleepy) /\ (Throttles(m, t) => ~sleepy)
      BY DEF Throttles, Sleepy
    <2>4. period[t] > 0 /\ m.replenishIn[t] # 1 => (left = 0 /\ ~sleepy => Throttles(m, t))
      BY <1>9 DEF Throttles, Sleepy, MustThrottle
    <2>5. /\ b.state[t] = IF Throttles(m, t) THEN "THREAD_THROTTLED"
                          ELSE IF Sleepy(m, t) THEN "THREAD_SLEEP"
                          ELSE IF m.state[t] = "DEFTICK_PENDING" THEN "PENDING" ELSE "READY"
          /\ b.currentBudget[t] = IF left = 0 /\ ~Sleepy(m, t) /\ ~Throttles(m, t) THEN budget[t] ELSE left
          /\ b.sleepIn[t] = IF Sleepy(m, t) THEN m.sleepTicks[t] ELSE m.sleepIn[t]
          /\ b.replenishIn[t] = m.replenishIn[t]
      BY <1>4 DEF HandlesDeferred
    <2> HIDE DEF left, sleepy
    <2> QED BY <2>1, <2>2, <2>3, <2>4, <2>5
  <1> HIDE DEF left
  \* the state and the sleep of the thread through the rest of the tick
  <1>13. /\ b.state[t] \notin DefTickStates /\ b.sleepIn[t] \in Nat
         /\ b.state[t] = "FAILURE" <=> m.state[t] = "FAILURE"
         /\ b.state[t] = "THREAD_SLEEP" <=> m.state[t] = "THREAD_SLEEP" \/ sleepy
         /\ b.state[t] = "THREAD_SLEEP" <=> b.sleepIn[t] > 0
         /\ b.state[t] = "RUNNING" <=> m.running = t
         /\ b.state[t] = "THREAD_SLEEP" =>
              b.sleepIn[t] = IF sleepy THEN m.sleepTicks[t] ELSE m.sleepIn[t]
    BY <1>9, <1>11, <1>12 DEF DefTickStates, DefTickThreadStates
  <1>14. \/ d.state[t] = b.state[t]
         \/ b.state[t] = "THREAD_THROTTLED" /\ d.state[t] = "READY"
    BY <1>6, <1>10 DEF Replenishes
  <1>15. /\ a.sleepIn[t] = IF b.sleepIn[t] = 0 THEN 0 ELSE b.sleepIn[t] - 1
         /\ \/ a.state[t] = d.state[t]
            \/ b.sleepIn[t] = 1 /\ a.state[t] \in {"READY", "THREAD_THROTTLED"}
         /\ b.sleepIn[t] = 1 => a.state[t] \in {"READY", "THREAD_THROTTLED"}
    BY <1>7, <1>10 DEF WakesUp
  <1>16. \/ n.state[t] = a.state[t]
         \/ {a.state[t], n.state[t]} = {"READY", "RUNNING"}
         \/ m.running = t /\ n.state[t] = "THREAD_THROTTLED"
    BY <1>2, <1>8 DEF Replaces
  <1>17. TickMoves(m, n, t)
    <2>1. /\ a.state[t] \notin DefTickStates
          /\ a.state[t] = "FAILURE" <=> m.state[t] = "FAILURE"
          /\ a.state[t] = "THREAD_SLEEP" => b.state[t] = "THREAD_SLEEP"
      BY <1>13, <1>14, <1>15 DEF DefTickStates, DefTickThreadStates
    <2>2. /\ n.state[t] \notin DefTickStates
          /\ n.state[t] = "FAILURE" <=> m.state[t] = "FAILURE"
          /\ n.state[t] = "THREAD_SLEEP" => b.state[t] = "THREAD_SLEEP"
      BY <1>9, <1>16, <2>1 DEF DefTickStates, DefTickThreadStates
    <2> QED BY <1>9, <1>10, <1>13, <1>15, <2>2 DEF TickMoves
  <1>18. TickPaysDs(m, n, t)
    <2> SUFFICES ASSUME period[t] > 0 PROVE TickPaysDs(m, n, t)
      BY DEF TickPaysDs
    <2>1. c.replenishIn[t] = m.replenishIn[t] /\ b.replenishIn[t] = m.replenishIn[t]
      BY <1>5, <1>11, <1>12 DEF Charges
    <2>2. d.currentBudget[t] = IF m.replenishIn[t] = 1 THEN budget[t] ELSE c.currentBudget[t]
      BY <1>6, <2>1 DEF Replenishes
    <2>3. a.currentBudget[t] = d.currentBudget[t]
      BY <1>7, <1>9 DEF WakesUp, SleptThrough
    <2>4. ASSUME m.replenishIn[t] # 1, m.state[t] # "FAILURE"
          PROVE  c.currentBudget[t] <= IF Owes(m, t) THEN m.currentBudget[t] - 1 ELSE m.currentBudget[t]
      <3>1. MustThrottle(b, t)
        BY <1>9, <2>1, <2>4 DEF MustThrottle
      <3>2. c.currentBudget[t] = IF m.running = t THEN b.currentBudget[t] - 1 ELSE b.currentBudget[t]
        BY <1>5, <1>10, <3>1 DEF Charges
      <3>3. m.state[t] \in DefTickStates => m.running # t
        BY <1>9 DEF DefTickStates, DefTickThreadStates
      <3> QED BY <1>9, <1>11, <1>12, <2>4, <3>2, <3>3 DEF Owes
    <2> QED BY <1>10, <2>2, <2>3, <2>4 DEF TickPaysDs
  <1> QED BY <1>17, <1>18

-----------------------------------------------------------------------------
(* Counting the ticks in a window.                                         *)

\* The ticks, counted back from the last one, that the window w marks.
Ages(w) == {j \in 0 .. Len(w) - 1 : w[Len(w) - j]}

\* A set of ages is finite, and as large as the set of marks.
LEMMA MarksAreAges ==
  ASSUME NEW w \in Seq(BOOLEAN)
  PROVE  /\ IsFiniteSet(Ages(w)) /\ Ages(w) \subseteq Nat
         /\ Cardinality({i \in DOMAIN w : w[i]}) <= Cardinality(Ages(w))
  <1> DEFINE marks == {i \in DOMAIN w : w[i]}
             f == [i \in marks |-> Len(w) - i]
  <1>1. Len(w) \in Nat /\ DOMAIN w = 1 .. Len(w)
    OBVIOUS
  <1>2. Ages(w) \subseteq 0 .. Len(w) - 1 /\ IsFiniteSet(0 .. Len(w) - 1)
    BY <1>1, FS_Interval DEF Ages
  <1>3. IsFiniteSet(Ages(w)) /\ Ages(w) \subseteq Nat
    BY <1>1, <1>2, FS_Subset
  <1>4. ASSUME NEW i \in marks PROVE Len(w) - i \in Ages(w) /\ i \in Nat
    <2>1. i \in 1 .. Len(w) /\ w[i]
      BY <1>1
    <2>2. Len(w) - i \in 0 .. Len(w) - 1 /\ Len(w) - (Len(w) - i) = i
      BY <1>1, <2>1
    <2> QED BY <2>1, <2>2 DEF Ages
  <1> HIDE DEF marks
  <1>5. f \in Injection(marks, Ages(w))
    <2>1. f \in [marks -> Ages(w)]
      BY <1>4
    <2>2. \A i, j \in marks : f[i] = f[j] => i = j
      BY <1>1, <1>4
    <2> QED BY <2>1, <2>2 DEF Injection, IsInjective
  <1>6. Cardinality(marks) <= Cardinality(Ages(w))
    BY <1>3, <1>5, FS_Injection
  <1> QED BY <1>3, <1>6 DEF marks

\* A tick makes every mark one older, adds its own and forgets the oldest.
LEMMA WindowMoves ==
  ASSUME NEW w \in Seq(BOOLEAN), NEW held \in BOOLEAN, NEW n \in Nat \ {0}
  PROVE  /\ LastOf(Append(w, held), n) \in Seq(BOOLEAN)
         /\ Len(LastOf(Append(w, held), n)) <= n
         /\ \A j \in Ages(LastOf(Append(w, held), n)) :
              IF j = 0 THEN held ELSE j - 1 \in Ages(w)
  <1> DEFINE a == Append(w, held)
             v == LastOf(a, n)
             l == Len(a)
             m == IF l <= n THEN l ELSE n
  <1>1. /\ a \in Seq(BOOLEAN) /\ l = Len(w) + 1 /\ l \in Nat /\ Len(w) \in Nat
        /\ a[l] = held /\ \A i \in 1 .. Len(w) : a[i] = w[i]
    OBVIOUS
  <1>2. m \in Nat /\ m <= n /\ m <= l
    BY <1>1
  <1> HIDE DEF a
  <1>3. v \in Seq(BOOLEAN) /\ Len(v) = m /\ \A i \in 1 .. m : v[i] = a[i + (l - m)]
    <2>1. CASE l <= n
      <3>1. v = a /\ m = l
        BY <2>1 DEF LastOf
      <3>2. \A i \in 1 .. l : i + (l - l) = i
        BY <1>1
      <3> HIDE DEF v, m
      <3> QED BY <1>1, <3>1, <3>2
    <2>2. CASE l > n
      <3> DEFINE p == l - n + 1
      <3>1. v = SubSeq(a, p, l) /\ m = n
        BY <1>1, <2>2 DEF LastOf
      <3>2. /\ p \in Int /\ p <= l /\ l - p + 1 = n /\ \A i \in p .. l : i \in 1 .. l
            /\ \A i \in 1 .. n : p + i - 1 = i + (l - n)
        BY <1>1, <2>2
      <3>3. \A i \in p .. l : a[i] \in BOOLEAN
        BY <1>1, <3>2
      <3> HIDE DEF p, v, m
      <3>4. /\ SubSeq(a, p, l) \in Seq(BOOLEAN) /\ Len(SubSeq(a, p, l)) = n
            /\ \A i \in 1 .. n : SubSeq(a, p, l)[i] = a[p + i - 1]
        BY <1>1, <3>2, <3>3, SubSeqProperties
      <3> QED BY <3>1, <3>2, <3>4
    <2> HIDE DEF v, m
    <2> QED BY <1>1, <2>1, <2>2
  <1> HIDE DEF v, m
  <1>4. ASSUME NEW j \in Ages(v) PROVE IF j = 0 THEN held ELSE j - 1 \in Ages(w)
    <2>1. j \in 0 .. m - 1 /\ v[m - j]
      BY <1>3, <1>4 DEF Ages
    <2>2. m - j \in 1 .. m /\ (m - j) + (l - m) = l - j
      BY <1>1, <1>2, <2>1
    <2>3. a[l - j]
      BY <1>3, <2>1, <2>2
    <2>4. CASE j = 0
      BY <1>1, <2>3, <2>4
    <2>5. CASE j # 0
      <3>1. l - j = Len(w) - (j - 1) /\ l - j \in 1 .. Len(w) /\ j - 1 \in 0 .. Len(w) - 1
        BY <1>1, <1>2, <2>1, <2>5
      <3>2. w[Len(w) - (j - 1)]
        BY <1>1, <2>3, <3>1
      <3> QED BY <2>5, <3>1, <3>2 DEF Ages
    <2> QED BY <2>4, <2>5
  <1> QED BY <1>2, <1>3, <1>4 DEF a, v

\* Growing older changes no count.
LEMMA CountShifts ==
  ASSUME NEW A \in SUBSET Nat, IsFiniteSet(A), NEW B \in SUBSET Nat, NEW held \in BOOLEAN,
         \A j \in B : IF j = 0 THEN held ELSE j - 1 \in A
  PROVE  IsFiniteSet(B) /\ Cardinality(B) <= Cardinality(A) + (IF held THEN 1 ELSE 0)
  <1> DEFINE old == B \ {0}
             f == [j \in old |-> j - 1]
  <1>1. f \in [old -> A] /\ \A i, j \in old : f[i] = f[j] => i = j
    OBVIOUS
  <1>2. f \in Injection(old, A)
    BY <1>1 DEF Injection, IsInjective
  <1>3. IsFiniteSet(old) /\ Cardinality(old) <= Cardinality(A)
    BY <1>2, FS_Injection
  <1>4. Cardinality(old) \in Nat /\ Cardinality(A) \in Nat
    BY <1>3, FS_CardinalityType
  <1>5. CASE 0 \in B
    <2>1. held /\ B = old \cup {0} /\ 0 \notin old
      BY <1>5
    <2>2. IsFiniteSet(B) /\ Cardinality(B) = Cardinality(old) + 1
      BY <1>3, <2>1, FS_AddElement
    <2> QED BY <1>3, <1>4, <2>1, <2>2
  <1>6. CASE 0 \notin B
    <2>1. B = old
      BY <1>6
    <2> QED BY <1>3, <1>4, <2>1
  <1> QED BY <1>5, <1>6

\* The marks of a window are those since the last replenishment, k ticks ago,
\* and those at least a period older: no more than the budget.
LEMMA WindowBound ==
  ASSUME NEW Q \in Nat \ {0}, NEW P \in Nat \ {0}, NEW k \in Nat,
         NEW A \in SUBSET Nat, IsFiniteSet(A),
         \A j \in A : j < IF Q <= P THEN P ELSE Q + P,
         \A j \in A : j < k \/ j >= k + P,
         Cardinality({j \in A : j < k}) <= Q
  PROVE  Cardinality(A) <= Q
  <1> DEFINE recent == {j \in A : j < k}
             old == A \ recent
  <1>1. IsFiniteSet(recent) /\ IsFiniteSet(old) /\ A = recent \cup old
    BY FS_Subset
  <1>2. CASE Q <= P
    BY <1>2, \A j \in A : j \in recent
  <1>3. CASE Q > P
    <2>1. old \subseteq k + P .. Q + P - 1 /\ recent \subseteq 0 .. k - 1
      <3>1. \A j \in old : j \in Nat /\ j >= k + P /\ j < Q + P
        BY <1>3
      <3>2. \A j \in recent : j \in Nat /\ j < k
        OBVIOUS
      <3> HIDE DEF old, recent
      <3> QED BY <3>1, <3>2
    <2>2. /\ IsFiniteSet(k + P .. Q + P - 1)
          /\ Cardinality(k + P .. Q + P - 1) = IF k >= Q THEN 0 ELSE Q - k
          /\ IsFiniteSet(0 .. k - 1) /\ Cardinality(0 .. k - 1) = k
      <3>1. k + P \in Int /\ Q + P - 1 \in Int /\ k - 1 \in Int
        OBVIOUS
      <3>2. /\ IsFiniteSet(k + P .. Q + P - 1)
            /\ Cardinality(k + P .. Q + P - 1) =
                 IF k + P > Q + P - 1 THEN 0 ELSE (Q + P - 1) - (k + P) + 1
        BY <3>1, FS_Interval
      <3>3. /\ IsFiniteSet(0 .. k - 1)
            /\ Cardinality(0 .. k - 1) = IF 0 > k - 1 THEN 0 ELSE (k - 1) - 0 + 1
        BY <3>1, FS_Interval
      <3> QED BY <3>2, <3>3
    <2>3. Cardinality(old) <= IF k >= Q THEN 0 ELSE Q - k
      BY <2>1, <2>2, FS_Subset
    <2>4. Cardinality(recent) <= k
      BY <2>1, <2>2, FS_Subset
    <2>5. Cardinality(recent) \in Nat /\ Cardinality(old) \in Nat
      BY <1>1, FS_CardinalityType
    <2>6. Cardinality(A) = Cardinality(recent) + Cardinality(old)
      <3>1. recent \cap old = {}
        OBVIOUS
      <3> HIDE DEF recent, old
      <3>2. Cardinality(recent \cup old) = Cardinality(recent) + Cardinality(old) - Cardinality(recent \cap old)
        BY <1>1, FS_Union
      <3> QED BY <1>1, <2>5, <3>1, <3>2, FS_EmptySet
    <2>7. Cardinality(recent) <= Q
      OBVIOUS
    <2> HIDE DEF recent, old
    <2>8. CASE k >= Q
      BY <2>3, <2>5, <2>6, <2>7, <2>8
    <2>9. CASE k < Q
      BY <2>3, <2>4, <2>5, <2>6, <2>9
    <2> QED BY <2>8, <2>9
  <1> QED BY <1>2, <1>3

-----------------------------------------------------------------------------
(* The invariant.                                                          *)

\* Ticks a thread may still hold the core in before its next replenishment.
Rights(t) == IF state[t] = "FAILURE" THEN IF t \in ran THEN 1 ELSE 0 ELSE currentBudget[t]

HistTypes ==
  /\ ran \subseteq Thread
  /\ window \in [Thread -> Seq(BOOLEAN)]
  /\ used \in [Thread -> Nat] /\ slept \in [Thread -> Nat] /\ cool \in [Thread -> Nat]

\* Ticks asleep and ticks still to sleep make up the sleep asked for.
SleptIs(t) ==
  IF state[t] = "THREAD_SLEEP" THEN slept[t] + sleepIn[t] = sleepTicks[t] ELSE slept[t] = 0

\* A thread without budget waits for its period, or began to in its sleep.
CoolIs(t) ==
  /\ currentBudget[t] > 0 => cool[t] = 0
  /\ currentBudget[t] = 0 =>
       \/ state[t] = "THREAD_THROTTLED" /\ cool[t] + replenishIn[t] = period[t]
       \/ state[t] = "THREAD_SLEEP" /\ slept[t] = cool[t] + 1

\* Since its replenishment k ticks ago the thread has held the core in no more
\* ticks than it paid for; before that, not for a period; and not at all since
\* its budget ran out.
SpentSince(t, k) ==
  /\ Cardinality({j \in Ages(window[t]) : j < k}) + Rights(t) <= budget[t]
  /\ \A j \in Ages(window[t]) : j < k \/ j >= k + period[t]
  /\ currentBudget[t] = 0 => \A j \in Ages(window[t]) : j >= cool[t]

WindowIs(t) ==
  /\ period[t] > 0 => Len(window[t]) <= WindowLength(t) /\ \E k \in Nat : SpentSince(t, k)
  /\ period[t] = 0 => window[t] = <<>>

\* With the deferrable server ticks spent and ticks left fit the budget.
UsedIs(t) == period[t] > 0 => used[t] + Rights(t) <= budget[t]

HInv ==
  /\ HistTypes /\ ChargedIffRan
  /\ \A t \in Thread : SleptIs(t)
  /\ BCS => \A t \in Thread : CoolIs(t) /\ WindowIs(t)
  /\ ~BCS => \A t \in Thread : UsedIs(t)

\* Watching the machine does not restrict it.
LEMMA HStep == IInv /\ [HNext]_allVars => IInv' /\ [Next]_vars
  <1>1. [HNext]_allVars => [Next]_vars
    BY DEF HNext, Next, allVars, vars
  <1> QED BY <1>1, NextSound

\* What holds of every thread of the machine, in terms of the variables.
Recorded(t) ==
  /\ state[t] \in ThreadStates
  /\ currentBudget[t] \in Nat /\ replenishIn[t] \in Nat
  /\ sleepIn[t] \in Nat /\ sleepTicks[t] \in Nat
  /\ budget[t] \in Nat \ {0} /\ period[t] \in Nat
  /\ runningTask = t <=> state[t] = "RUNNING"
  /\ state[t] = "THREAD_SLEEP" <=> sleepIn[t] > 0
  /\ replenishIn[t] > 0 <=> IF BCS THEN state[t] = "THREAD_THROTTLED" ELSE period[t] > 0
  /\ state[t] \in {"THREAD_DEFTICK_SLEEP", "THREAD_SLEEP"} => sleepTicks[t] > 0
  /\ state[t] \in DefTickStates \cup {"READY", "PENDING", "RUNNING"} => currentBudget[t] > 0
  /\ state[t] = "THREAD_THROTTLED" => currentBudget[t] = 0 /\ period[t] > 0

AllRecorded == \A t \in Thread : Recorded(t)

\* A sound machine says so, ...
LEMMA Records == IInv => AllRecorded
  <1> SUFFICES ASSUME IInv, NEW t \in Thread PROVE Recorded(t)
    BY DEF AllRecorded
  <1>1. ParamsOK /\ Sound(Machine)
    BY DEF IInv
  <1> DEFINE m == Machine
  <1>2. /\ m.state = state /\ m.currentBudget = currentBudget /\ m.replenishIn = replenishIn
        /\ m.sleepIn = sleepIn /\ m.sleepTicks = sleepTicks /\ m.running = runningTask
    BY DEF Machine
  <1> HIDE DEF m
  <1> QED BY <1>1, <1>2, ThreadFacts DEF m, Recorded

\* ... after a step as before it.
LEMMA RecordsNext == IInv' => AllRecorded'
  BY Records, PTL

\* No step changes the configuration of the core.
LEMMA Fixed == [HNext]_allVars => UNCHANGED params
  <1>1. \A n : Becomes(n) => UNCHANGED params
    BY DEF Becomes
  <1> QED BY <1>1 DEF HNext, allVars, vars, Handoff, Tick, Yield, Throttle, Sleep, LsrDone, Failure,
                      ExternalInterrupt, SwitchRunningTask

\* The tick as one step of the machine.
LEMMA TickIs ==
  ASSUME IInv, Tick, NEW t \in Thread
  PROVE  /\ TickMoves(Machine, Machine', t)
         /\ BCS => TickPaysBcs(Machine, Machine', t)
         /\ ~BCS => TickPaysDs(Machine, Machine', t)
  <1> DEFINE m == Machine
  <1>1. ParamsOK /\ Sound(m) /\ m.running = runningTask /\ runningTask # NoTask
    BY DEF IInv, Machine, Tick
  <1>2. PICK a \in TickPhases(m) : \E n \in ReschedulingPoint(a, TRUE) : Becomes(n)
    BY DEF Tick
  <1>3. PICK n \in ReschedulingPoint(a, TRUE) : Becomes(n)
    BY <1>2
  <1> HIDE DEF m
  <1>4. n \in MachineType
    BY <1>1, TickPhasesSound, ReschedulingPointSound DEF Sound, Ticking
  <1>5. Machine' = n
    BY <1>4, <1>3, MachineBecomes
  <1>6. TickMoves(m, n, t) /\ (BCS => TickPaysBcs(m, n, t)) /\ (~BCS => TickPaysDs(m, n, t))
    BY <1>1, TickIsBcs, TickIsDs
  <1> QED BY <1>5, <1>6 DEF m

-----------------------------------------------------------------------------
(* Every step keeps the invariant.                                         *)

\* Before the handoff nothing has happened yet.
LEMMA HistoryStarts == HInit => HInv
  <1> SUFFICES ASSUME HInit PROVE HInv
    OBVIOUS
  <1>1. IInv
    BY InitSound DEF HInit
  <1>2. ASSUME NEW t \in Thread
        PROVE  state[t] = "READY" /\ currentBudget[t] = budget[t] /\ budget[t] \in Nat \ {0}
    BY <1>1, <1>2, Records, Configuration DEF HInit, Init, Task, AllRecorded, Recorded
  <1>3. \A t \in Thread : window[t] = <<>> /\ used[t] = 0 /\ slept[t] = 0 /\ cool[t] = 0 /\ t \notin ran
    BY DEF HInit
  <1>4. HistTypes
    BY DEF HInit, HistTypes
  <1>5. ChargedIffRan
    BY <1>2, <1>3 DEF ChargedIffRan, DefTickStates, DefTickThreadStates
  <1>6. \A t \in Thread : SleptIs(t) /\ CoolIs(t) /\ UsedIs(t)
    BY <1>2, <1>3 DEF SleptIs, CoolIs, UsedIs, Rights
  <1>7. ASSUME NEW t \in Thread PROVE WindowIs(t)
    <2>1. Ages(window[t]) = {} /\ Len(window[t]) = 0
      BY <1>3 DEF Ages
    <2>2. {j \in Ages(window[t]) : j < 0} = {} /\ Rights(t) = budget[t]
      BY <1>2, <2>1 DEF Rights
    <2>3. Cardinality({j \in Ages(window[t]) : j < 0}) + Rights(t) <= budget[t]
      BY <1>2, <2>2, FS_EmptySet
    <2>4. SpentSince(t, 0)
      BY <2>1, <2>3 DEF SpentSince
    <2>5. period[t] > 0 => Len(window[t]) <= WindowLength(t)
      BY <1>1, <2>1, Records DEF WindowLength, AllRecorded, Recorded
    <2> QED BY <1>3, <2>4, <2>5 DEF WindowIs
  <1> QED BY <1>4, <1>5, <1>6, <1>7 DEF HInv

\* Whoever takes the core owes the tick, and nobody gets away without paying.
LEMMA OtherCharges ==
  ASSUME IInv, IInv', HistTypes, ChargedIffRan, OtherStep(Machine, Machine'), ObserveOther
  PROVE  HistTypes' /\ ChargedIffRan'
  <1>1. HistTypes'
    BY DEF HistTypes, ObserveOther
  <1>2. ASSUME NEW t \in Thread, state'[t] # "FAILURE"
        PROVE  t \in ran' <=> state'[t] \in DefTickStates \cup {"RUNNING"}
    <2>1. t \in ran' <=> t \in ran \/ runningTask' = t
      BY DEF ObserveOther
    <2>2. /\ runningTask = t <=> state[t] = "RUNNING"
          /\ (runningTask = t <=> state[t] = "RUNNING")'
      BY Records, RecordsNext DEF AllRecorded, Recorded
    <2>3. /\ runningTask # t => Shift(state[t], state'[t])
          /\ runningTask = t => \/ Shift(state[t], state'[t])
                                \/ state'[t] \in DefTickThreadStates \cup {"FAILURE"}
      BY DEF OtherStep, Machine
    <2>4. state[t] # "FAILURE"
      BY <1>2, <2>2, <2>3 DEF Shift
    <2>5. t \in ran <=> state[t] \in DefTickStates \cup {"RUNNING"}
      BY <2>4 DEF ChargedIffRan
    <2> QED BY <1>2, <2>1, <2>2, <2>3, <2>5 DEF Shift, DefTickStates, DefTickThreadStates
  <1> QED BY <1>1, <1>2 DEF ChargedIffRan

\* Nothing else that is counted moves between two ticks.
LEMMA OtherKeeps ==
  ASSUME IInv, IInv', HInv, UNCHANGED params, OtherStep(Machine, Machine'), ObserveOther
  PROVE  HInv'
  <1>1. HistTypes' /\ ChargedIffRan'
    BY OtherCharges DEF HInv
  <1>2. ASSUME NEW t \in Thread
        PROVE  /\ SleptIs(t)' /\ (BCS => CoolIs(t)' /\ WindowIs(t)') /\ (~BCS => UsedIs(t)')
    <2>1. /\ currentBudget'[t] = currentBudget[t] /\ replenishIn'[t] = replenishIn[t]
          /\ sleepIn'[t] = sleepIn[t]
          /\ runningTask # t => sleepTicks'[t] = sleepTicks[t] /\ Shift(state[t], state'[t])
          /\ runningTask = t => \/ Shift(state[t], state'[t])
                                \/ state'[t] \in DefTickThreadStates \cup {"FAILURE"}
      BY DEF OtherStep, Machine
    <2>2. /\ runningTask = t <=> state[t] = "RUNNING"
          /\ runningTask' = t <=> state'[t] = "RUNNING"
          /\ currentBudget[t] \in Nat /\ state[t] \in ThreadStates
          /\ state[t] = "RUNNING" => currentBudget[t] > 0
          /\ state[t] = "THREAD_SLEEP" <=> sleepIn[t] > 0
          /\ state'[t] = "THREAD_SLEEP" <=> sleepIn'[t] > 0
          /\ budget[t] \in Nat \ {0}
      BY Records, RecordsNext DEF AllRecorded, Recorded
    <2>3. /\ window' = window /\ used' = used /\ slept' = slept /\ cool' = cool
          /\ t \in ran' <=> t \in ran \/ runningTask' = t
      BY DEF ObserveOther
    <2>4. budget' = budget /\ period' = period
      BY DEF params
    <2>5. SleptIs(t)'
      BY <2>1, <2>2, <2>3 DEF HInv, SleptIs, Shift
    <2>6. CoolIs(t) => CoolIs(t)'
      BY <2>1, <2>2, <2>3, <2>4 DEF CoolIs, Shift
    <2>7. Rights(t) \in Nat /\ Rights(t)' \in Nat /\ Rights(t)' <= Rights(t)
      <3>1. CASE state[t] = "FAILURE"
        <4>1. state'[t] = "FAILURE" /\ (t \in ran' <=> t \in ran)
          BY <2>1, <2>2, <2>3, <3>1 DEF Shift
        <4> QED BY <3>1, <4>1 DEF Rights
      <3>2. CASE state[t] # "FAILURE" /\ state'[t] = "FAILURE"
        <4>1. currentBudget[t] > 0
          BY <2>1, <2>2, <3>2 DEF Shift
        <4> QED BY <2>2, <3>2, <4>1 DEF Rights
      <3>3. CASE state[t] # "FAILURE" /\ state'[t] # "FAILURE"
        BY <2>1, <2>2, <3>3 DEF Rights
      <3> QED BY <3>1, <3>2, <3>3
    <2>8. ASSUME ~BCS PROVE UsedIs(t)'
      <3>1. UsedIs(t) /\ used[t] \in Nat
        BY <2>8 DEF HInv, HistTypes
      <3> HIDE DEF Rights
      <3> QED BY <2>2, <2>3, <2>4, <2>7, <3>1 DEF UsedIs
    <2>9. ASSUME BCS, period[t] > 0 PROVE WindowIs(t)'
      <3>1. WindowIs(t) /\ window[t] \in Seq(BOOLEAN)
        BY <2>9 DEF HInv, HistTypes
      <3>2. PICK k \in Nat : SpentSince(t, k)
        BY <2>9, <3>1 DEF WindowIs
      <3>3. Cardinality({j \in Ages(window[t]) : j < k}) \in Nat
        BY <3>1, MarksAreAges, FS_Subset, FS_CardinalityType
      <3>4. SpentSince(t, k)'
        BY <2>1, <2>2, <2>3, <2>4, <2>7, <3>2, <3>3 DEF SpentSince
      <3> QED BY <2>3, <2>4, <2>9, <3>1, <3>4 DEF WindowIs, WindowLength
    <2>10. ASSUME BCS, ~(period[t] > 0) PROVE WindowIs(t)'
      BY <2>3, <2>4, <2>10 DEF HInv, WindowIs
    <2> QED BY <2>5, <2>6, <2>8, <2>9, <2>10 DEF HInv
  <1> QED BY <1>1, <1>2 DEF HInv, params, BCS

\* What a tick leaves of a thread, in terms of the variables.
Ticked(t) ==
  /\ sleepTicks' = sleepTicks
  /\ state'[t] \notin DefTickStates
  /\ state'[t] = "FAILURE" <=> state[t] = "FAILURE"
  /\ state'[t] = "THREAD_SLEEP" => state[t] \in {"THREAD_SLEEP", "THREAD_DEFTICK_SLEEP"}
  /\ state[t] = "THREAD_SLEEP" => sleepIn'[t] = sleepIn[t] - 1
  /\ state[t] = "THREAD_DEFTICK_SLEEP" => sleepIn'[t] = sleepTicks[t] - 1
  /\ runningTask' = t => state'[t] = "RUNNING"
  /\ state'[t] = "RUNNING" => runningTask' = t
  /\ state'[t] = "THREAD_SLEEP" <=> sleepIn'[t] > 0

\* A tick does that.
LEMMA TickedAll == ASSUME IInv, IInv', Tick, NEW t \in Thread PROVE Ticked(t)
  BY TickIs, RecordsNext DEF TickMoves, Machine, Ticked, AllRecorded, Recorded

\* Sleeping threads count the tick, and those that woke up have counted enough.
LEMMA TickSleeps ==
  ASSUME IInv, IInv', HistTypes, Tick, ObserveTick, NEW t \in Thread, SleptIs(t)
  PROVE  /\ SleptIs(t)'
         /\ Asleep(t) /\ ~Asleep(t)' => slept[t] + 1 = sleepTicks[t]
         /\ state'[t] = "THREAD_SLEEP" => slept'[t] = slept[t] + 1
         /\ Asleep(t)' <=> state'[t] = "THREAD_SLEEP"
         /\ state[t] = "THREAD_DEFTICK_SLEEP" => slept[t] = 0
  <1>1. Ticked(t)
    BY TickedAll
  <1>2. /\ sleepIn[t] \in Nat /\ sleepIn'[t] \in Nat /\ sleepTicks[t] \in Nat
        /\ state[t] = "THREAD_SLEEP" <=> sleepIn[t] > 0
        /\ state'[t] = "THREAD_SLEEP" <=> sleepIn'[t] > 0
        /\ state[t] \in {"THREAD_DEFTICK_SLEEP", "THREAD_SLEEP"} => sleepTicks[t] > 0
    BY Records, RecordsNext DEF AllRecorded, Recorded
  <1>3. slept[t] \in Nat /\ slept'[t] = IF Asleep(t) /\ Asleep(t)' THEN slept[t] + 1 ELSE 0
    BY DEF HistTypes, ObserveTick
  <1>4. Asleep(t)' <=> state'[t] = "THREAD_SLEEP"
    BY <1>1 DEF Ticked, Asleep, DefTickStates, DefTickThreadStates
  <1>5. state'[t] = "THREAD_SLEEP" => Asleep(t)
    BY <1>1 DEF Ticked, Asleep
  <1>6. CASE state[t] = "THREAD_SLEEP"
    BY <1>1, <1>2, <1>3, <1>4, <1>6 DEF SleptIs, Asleep, Ticked
  <1>7. CASE state[t] = "THREAD_DEFTICK_SLEEP"
    BY <1>1, <1>2, <1>3, <1>4, <1>7 DEF SleptIs, Asleep, Ticked
  <1>8. CASE ~Asleep(t)
    <2>1. state'[t] # "THREAD_SLEEP" /\ state[t] # "THREAD_DEFTICK_SLEEP" /\ slept'[t] = 0
      BY <1>3, <1>5, <1>8 DEF Asleep
    <2> QED BY <1>4, <1>8, <2>1 DEF SleptIs
  <1> QED BY <1>6, <1>7, <1>8 DEF Asleep

\* The window moves on by one tick.
LEMMA TickObserved ==
  ASSUME IInv, HistTypes, ObserveTick, BCS, NEW t \in Thread, period[t] > 0
  PROVE  /\ window'[t] \in Seq(BOOLEAN) /\ Len(window'[t]) <= WindowLength(t)
         /\ \A j \in Ages(window'[t]) : IF j = 0 THEN t \in ran ELSE j - 1 \in Ages(window[t])
  <1> DEFINE held == t \in ran
             n == WindowLength(t)
             w == window[t]
  <1>1. held \in BOOLEAN
    OBVIOUS
  <1>2. n \in Nat \ {0} /\ w \in Seq(BOOLEAN)
    BY Records DEF AllRecorded, Recorded, WindowLength, HistTypes
  <1>3. window'[t] = LastOf(Append(w, held), n)
    BY DEF ObserveTick
  <1> HIDE DEF held, n, w
  <1>4. /\ LastOf(Append(w, held), n) \in Seq(BOOLEAN) /\ Len(LastOf(Append(w, held), n)) <= n
        /\ \A j \in Ages(LastOf(Append(w, held), n)) : IF j = 0 THEN held ELSE j - 1 \in Ages(w)
    BY <1>1, <1>2, WindowMoves
  <1> QED BY <1>3, <1>4 DEF held, n, w

\* The tick charges those that held the core, and starts over.
LEMMA TickCharges ==
  ASSUME IInv, IInv', HistTypes, Tick, ObserveTick, UNCHANGED params
  PROVE  HistTypes' /\ ChargedIffRan'
  <1>1. HistTypes'
    <2>1. ran' \subseteq Thread
      BY DEF ObserveTick
    <2>2. ASSUME NEW t \in Thread PROVE window'[t] \in Seq(BOOLEAN)
      <3>1. CASE BCS /\ period[t] > 0
        BY <3>1, TickObserved
      <3>2. CASE ~(BCS /\ period[t] > 0)
        <4>1. window'[t] = <<>>
          BY <3>2 DEF ObserveTick
        <4> QED BY <4>1
      <3> QED BY <3>1, <3>2
    <2>3. ASSUME NEW t \in Thread PROVE used'[t] \in Nat /\ slept'[t] \in Nat /\ cool'[t] \in Nat
      <3>1. used[t] \in Nat /\ slept[t] \in Nat /\ cool[t] \in Nat /\ period[t] \in Nat
        BY Records DEF AllRecorded, Recorded, HistTypes
      <3>2. used'[t] \in {0, used[t], used[t] + 1}
        <4>1. used'[t] = CASE BCS \/ period[t] = 0 \/ replenishIn[t] = 1 -> 0
                         [] ~BCS /\ period[t] > 0 /\ replenishIn[t] # 1 /\ t \in ran -> used[t] + 1
                         [] ~BCS /\ period[t] > 0 /\ replenishIn[t] # 1 /\ t \notin ran -> used[t]
          BY DEF ObserveTick
        <4> QED BY <3>1, <4>1
      <3>3. slept'[t] \in {0, slept[t] + 1} /\ cool'[t] \in {0, cool[t] + 1}
        BY DEF ObserveTick
      <3> QED BY <3>1, <3>2, <3>3
    <2>4. /\ window' = [t \in Thread |-> window'[t]] /\ used' = [t \in Thread |-> used'[t]]
          /\ slept' = [t \in Thread |-> slept'[t]] /\ cool' = [t \in Thread |-> cool'[t]]
      <3> DEFINE w(t) == IF BCS /\ period[t] > 0 THEN LastOf(Append(window[t], t \in ran), WindowLength(t))
                         ELSE <<>>
                 u(t) == CASE BCS \/ period[t] = 0 \/ replenishIn[t] = 1 -> 0
                           [] ~BCS /\ period[t] > 0 /\ replenishIn[t] # 1 /\ t \in ran -> used[t] + 1
                           [] ~BCS /\ period[t] > 0 /\ replenishIn[t] # 1 /\ t \notin ran -> used[t]
                 s(t) == IF Asleep(t) /\ Asleep(t)' THEN slept[t] + 1 ELSE 0
                 c(t) == IF BCS /\ currentBudget[t] = 0 /\ currentBudget'[t] = 0 THEN cool[t] + 1 ELSE 0
      <3>1. /\ window' = [t \in Thread |-> w(t)] /\ used' = [t \in Thread |-> u(t)]
            /\ slept' = [t \in Thread |-> s(t)] /\ cool' = [t \in Thread |-> c(t)]
        BY DEF ObserveTick
      <3> HIDE DEF w, u, s, c
      <3> QED BY <3>1
    <2> QED BY <2>1, <2>2, <2>3, <2>4 DEF HistTypes
  <1>2. ASSUME NEW t \in Thread
        PROVE  t \in ran' <=> state'[t] \in DefTickStates \cup {"RUNNING"}
    BY TickedAll DEF Ticked, ObserveTick
  <1> QED BY <1>1, <1>2 DEF ChargedIffRan

\* What the tick pays with the burst-cooldown server: the cooldown, which a
\* sleep may only prolong.
LEMMA TickCools ==
  ASSUME IInv, IInv', HInv, Tick, ObserveTick, UNCHANGED params, BCS, NEW t \in Thread
  PROVE  /\ CoolIs(t)'
         /\ currentBudget[t] = 0 /\ currentBudget'[t] > 0 =>
              \/ cool[t] + 1 = period[t]
              \/ cool[t] + 1 > period[t] /\ state[t] = "THREAD_SLEEP"
  <1>1. /\ Owes(Machine, t) <=> state[t] \in DefTickStates \cup {"RUNNING"}
        /\ TickPaysBcs(Machine, Machine', t)
    BY TickIs DEF Owes, Machine
  <1>2. /\ state[t] \in DefTickStates \cup {"RUNNING"} /\ currentBudget'[t] = 0 =>
               \/ state'[t] = "THREAD_THROTTLED" /\ replenishIn'[t] = period[t]
               \/ state'[t] = "THREAD_SLEEP" /\ state[t] = "THREAD_DEFTICK_SLEEP"
        /\ state[t] \notin DefTickStates \cup {"RUNNING"} /\ currentBudget[t] > 0 =>
             currentBudget'[t] = currentBudget[t]
        /\ state[t] = "THREAD_THROTTLED" =>
             IF replenishIn[t] = 1 THEN currentBudget'[t] = budget[t]
             ELSE /\ currentBudget'[t] = 0 /\ state'[t] = "THREAD_THROTTLED"
                  /\ replenishIn'[t] = replenishIn[t] - 1
        /\ state[t] = "THREAD_SLEEP" /\ currentBudget[t] = 0 =>
             /\ sleepIn[t] # 1 => currentBudget'[t] = 0 /\ state'[t] = "THREAD_SLEEP"
             /\ sleepIn[t] = 1 /\ sleepTicks[t] > period[t] => currentBudget'[t] = budget[t]
             /\ sleepIn[t] = 1 /\ sleepTicks[t] <= period[t] =>
                  /\ currentBudget'[t] = 0 /\ state'[t] = "THREAD_THROTTLED"
                  /\ replenishIn'[t] = period[t] - (sleepTicks[t] - 1)
    BY <1>1 DEF TickPaysBcs, Machine
  <1>3. /\ state'[t] = "THREAD_SLEEP" => slept'[t] = slept[t] + 1
        /\ state[t] = "THREAD_DEFTICK_SLEEP" => slept[t] = 0
    BY TickSleeps DEF HInv
  <1>4. /\ currentBudget[t] \in Nat /\ currentBudget'[t] \in Nat /\ replenishIn[t] \in Nat
        /\ sleepIn[t] \in Nat /\ sleepTicks[t] \in Nat /\ period[t] \in Nat /\ budget[t] \in Nat \ {0}
        /\ state[t] = "THREAD_THROTTLED" => replenishIn[t] > 0
        /\ state[t] \in DefTickStates \cup {"RUNNING"} => currentBudget[t] > 0
    BY Records, RecordsNext DEF AllRecorded, Recorded
  <1>5. /\ slept[t] \in Nat /\ cool[t] \in Nat /\ CoolIs(t)
        /\ state[t] = "THREAD_SLEEP" => slept[t] + sleepIn[t] = sleepTicks[t]
    BY DEF HInv, HistTypes, SleptIs
  <1>6. cool'[t] = IF currentBudget[t] = 0 /\ currentBudget'[t] = 0 THEN cool[t] + 1 ELSE 0
    BY DEF ObserveTick
  <1>7. period'[t] = period[t]
    BY DEF params
  <1>8. CASE currentBudget[t] > 0
    <2>1. currentBudget'[t] = 0 => state[t] \in DefTickStates \cup {"RUNNING"}
      BY <1>2, <1>4, <1>8
    <2> QED BY <1>2, <1>3, <1>4, <1>6, <1>7, <1>8, <2>1 DEF CoolIs
  <1>9. CASE currentBudget[t] = 0 /\ state[t] = "THREAD_THROTTLED"
    <2>1. cool[t] + replenishIn[t] = period[t]
      BY <1>5, <1>9 DEF CoolIs
    <2>2. CASE replenishIn[t] = 1
      BY <1>2, <1>4, <1>5, <1>6, <1>9, <2>1, <2>2 DEF CoolIs
    <2>3. CASE replenishIn[t] # 1
      BY <1>2, <1>4, <1>5, <1>6, <1>7, <1>9, <2>1, <2>3 DEF CoolIs
    <2> QED BY <2>2, <2>3
  <1>10. CASE currentBudget[t] = 0 /\ state[t] = "THREAD_SLEEP"
    <2>1. slept[t] = cool[t] + 1 /\ slept[t] + sleepIn[t] = sleepTicks[t]
      BY <1>5, <1>10 DEF CoolIs
    <2>2. CASE sleepIn[t] # 1
      BY <1>2, <1>3, <1>4, <1>5, <1>6, <1>7, <1>10, <2>1, <2>2 DEF CoolIs
    <2>3. CASE sleepIn[t] = 1 /\ sleepTicks[t] > period[t]
      BY <1>2, <1>4, <1>5, <1>6, <1>10, <2>1, <2>3 DEF CoolIs
    <2>4. CASE sleepIn[t] = 1 /\ sleepTicks[t] <= period[t]
      BY <1>2, <1>4, <1>5, <1>6, <1>7, <1>10, <2>1, <2>4 DEF CoolIs
    <2> QED BY <1>4, <2>2, <2>3, <2>4
  <1> QED BY <1>4, <1>5, <1>8, <1>9, <1>10 DEF CoolIs

\* The rights of a thread that does not get its budget back shrink by the tick
\* it is charged.
LEMMA TickSpends ==
  ASSUME IInv, IInv', HInv, Tick, ObserveTick, UNCHANGED params, NEW t \in Thread, period[t] > 0,
         IF BCS THEN currentBudget[t] > 0 ELSE replenishIn[t] # 1
  PROVE  Rights(t)' + (IF t \in ran THEN 1 ELSE 0) <= Rights(t)
  <1>1. Ticked(t) /\ (BCS => TickPaysBcs(Machine, Machine', t)) /\ (~BCS => TickPaysDs(Machine, Machine', t))
    BY TickedAll, TickIs
  <1>2. CASE state[t] = "FAILURE"
    <2>1. state'[t] = "FAILURE" /\ t \notin ran'
      BY <1>1, <1>2 DEF Ticked, ObserveTick
    <2> QED BY <1>2, <2>1 DEF Rights
  <1>3. CASE state[t] # "FAILURE"
    <2>1. state'[t] # "FAILURE" /\ (t \in ran <=> Owes(Machine, t))
      BY <1>1, <1>3 DEF Ticked, HInv, ChargedIffRan, Owes, Machine
    <2>2. /\ currentBudget[t] \in Nat /\ currentBudget'[t] \in Nat
          /\ Owes(Machine, t) => currentBudget[t] > 0
      BY Records, RecordsNext DEF AllRecorded, Recorded, Owes, Machine
    <2>3. currentBudget'[t] <= IF Owes(Machine, t) THEN currentBudget[t] - 1 ELSE currentBudget[t]
      <3>1. CASE BCS
        <4>1. /\ Owes(Machine, t) => currentBudget'[t] \in {currentBudget[t] - 1, 0} \/ period[t] = 0
              /\ ~Owes(Machine, t) /\ currentBudget[t] > 0 => currentBudget'[t] = currentBudget[t]
          BY <1>1, <3>1 DEF TickPaysBcs, Machine
        <4> QED BY <2>2, <3>1, <4>1
      <3>2. CASE ~BCS
        BY <1>1, <1>3, <3>2 DEF TickPaysDs, Machine
      <3> QED BY <3>1, <3>2
    <2> QED BY <1>3, <2>1, <2>2, <2>3 DEF Rights
  <1> QED BY <1>2, <1>3

\* The window after a tick: one tick further from the replenishment, or at it.
LEMMA TickWindow ==
  ASSUME IInv, IInv', HInv, Tick, ObserveTick, UNCHANGED params, BCS, NEW t \in Thread, period[t] > 0
  PROVE  WindowIs(t)'
  <1> DEFINE A == Ages(window[t])
             B == Ages(window'[t])
             held == t \in ran
  <1>1. /\ window[t] \in Seq(BOOLEAN) /\ window'[t] \in Seq(BOOLEAN)
        /\ Len(window'[t]) <= WindowLength(t)
        /\ \A j \in B : IF j = 0 THEN held ELSE j - 1 \in A
    BY TickObserved DEF HInv, HistTypes
  <1>2. A \subseteq Nat /\ IsFiniteSet(A) /\ B \subseteq Nat /\ IsFiniteSet(B) /\ held \in BOOLEAN
    <2>1. held \in BOOLEAN
      OBVIOUS
    <2> QED BY <1>1, <2>1, MarksAreAges
  <1>3. /\ period'[t] = period[t] /\ budget'[t] = budget[t] /\ WindowLength(t)' = WindowLength(t)
        /\ Ages(window[t])' = B
    BY DEF params, WindowLength
  <1>4. /\ currentBudget[t] \in Nat /\ currentBudget'[t] \in Nat /\ period[t] \in Nat /\ budget[t] \in Nat \ {0}
        /\ cool[t] \in Nat /\ cool'[t] \in Nat /\ CoolIs(t)
        /\ held /\ state[t] # "FAILURE" => currentBudget[t] > 0
    <2>1. HistTypes' /\ HistTypes /\ ChargedIffRan /\ CoolIs(t)
      BY TickCharges DEF HInv
    <2> QED BY <2>1, Records, RecordsNext DEF AllRecorded, Recorded, HistTypes, ChargedIffRan
  <1>5. cool'[t] = IF currentBudget[t] = 0 /\ currentBudget'[t] = 0 THEN cool[t] + 1 ELSE 0
    BY DEF ObserveTick
  <1>6. PICK k \in Nat : SpentSince(t, k)
    BY DEF HInv, WindowIs
  <1>7. /\ Cardinality({j \in A : j < k}) + Rights(t) <= budget[t]
        /\ \A j \in A : j < k \/ j >= k + period[t]
        /\ currentBudget[t] = 0 => \A j \in A : j >= cool[t]
    BY <1>6 DEF SpentSince
  <1>8. /\ Rights(t) \in Nat /\ Rights(t)' \in Nat
        /\ Rights(t)' = IF state'[t] = "FAILURE" THEN IF t \in ran' THEN 1 ELSE 0 ELSE currentBudget'[t]
    BY <1>4 DEF Rights
  <1>9. currentBudget[t] = 0 => state[t] \in {"THREAD_THROTTLED", "THREAD_SLEEP"} /\ ~held
    BY <1>4 DEF CoolIs
  <1> HIDE DEF A, B, held
  \* no replenishment: every age grows by one, and so does k
  <1>10. CASE currentBudget[t] > 0 \/ currentBudget'[t] = 0
    <2>1. Rights(t)' + (IF held THEN 1 ELSE 0) <= Rights(t)
      <3>1. CASE currentBudget[t] > 0
        BY <3>1, TickSpends DEF held
      <3>2. CASE currentBudget[t] = 0
        <4>1. currentBudget'[t] = 0 /\ state'[t] # "FAILURE" /\ ~held
          <5>1. Ticked(t)
            BY TickedAll
          <5> QED BY <1>9, <1>10, <3>2, <5>1 DEF Ticked
        <4> QED BY <1>8, <4>1
      <3> QED BY <1>4, <3>1, <3>2
    <2>2. Cardinality({j \in B : j < k + 1}) <= Cardinality({j \in A : j < k}) + (IF held THEN 1 ELSE 0)
      <3> DEFINE R == {j \in A : j < k}
                 S == {j \in B : j < k + 1}
      <3>1. R \in SUBSET Nat /\ IsFiniteSet(R) /\ S \in SUBSET Nat
        BY <1>2, FS_Subset
      <3>2. \A j \in S : IF j = 0 THEN held ELSE j - 1 \in R
        BY <1>1, <1>2
      <3> HIDE DEF R, S
      <3>3. Cardinality(S) <= Cardinality(R) + (IF held THEN 1 ELSE 0)
        BY <1>2, <3>1, <3>2, CountShifts
      <3> QED BY <3>3 DEF R, S
    <2>3. Cardinality({j \in B : j < k + 1}) \in Nat /\ Cardinality({j \in A : j < k}) \in Nat
      BY <1>2, FS_Subset, FS_CardinalityType
    <2>4. Cardinality({j \in B : j < k + 1}) + Rights(t)' <= budget[t]
      BY <1>4, <1>7, <1>8, <2>1, <2>2, <2>3
    <2>5. \A j \in B : j < k + 1 \/ j >= k + 1 + period[t]
      BY <1>1, <1>2, <1>4, <1>7
    <2>6. currentBudget'[t] = 0 => \A j \in B : j >= cool'[t]
      BY <1>1, <1>2, <1>4, <1>5, <1>7, <1>9
    <2>7. SpentSince(t, k + 1)'
      BY <1>3, <2>4, <2>5, <2>6 DEF SpentSince
    <2> QED BY <1>1, <1>3, <2>7 DEF WindowIs
  \* the budget comes back, a period after the thread last held the core
  <1>11. CASE currentBudget[t] = 0 /\ currentBudget'[t] > 0
    <2>1. cool[t] + 1 >= period[t]
      BY <1>4, <1>11, TickCools
    <2>2. \A j \in B : j >= 0 + period[t]
      BY <1>1, <1>2, <1>4, <1>7, <1>9, <1>11, <2>1
    <2>3. {j \in B : j < 0} = {}
      <3>1. \A j \in B : ~(j < 0)
        BY <1>2
      <3> QED BY <3>1
    <2>4. Rights(t)' <= budget[t]
      <3>1. Ticked(t) /\ TickPaysBcs(Machine, Machine', t)
        BY TickedAll, TickIs
      <3>2. currentBudget'[t] = budget[t]
        <4>1. /\ state[t] = "THREAD_THROTTLED" =>
                   currentBudget'[t] = 0 \/ currentBudget'[t] = budget[t]
              /\ state[t] = "THREAD_SLEEP" =>
                   currentBudget'[t] = 0 \/ currentBudget'[t] = budget[t]
          <5>1. sleepIn[t] \in Nat /\ sleepTicks[t] \in Nat
            BY Records DEF AllRecorded, Recorded
          <5> QED BY <1>4, <1>11, <3>1, <5>1 DEF TickPaysBcs, Machine
        <4> QED BY <1>4, <1>9, <1>11, <4>1
      <3> QED BY <1>4, <1>8, <3>2
    <2>5. SpentSince(t, 0)'
      <3>1. Cardinality({j \in B : j < 0}) + Rights(t)' <= budget[t]
        <4>1. Cardinality({j \in B : j < 0}) = 0
          BY <2>3, FS_EmptySet
        <4> HIDE DEF Rights
        <4> QED BY <1>8, <2>4, <4>1
      <3>2. \A j \in B : j < 0 \/ j >= 0 + period[t]
        BY <2>2
      <3> QED BY <1>3, <1>11, <3>1, <3>2 DEF SpentSince
    <2> QED BY <1>1, <1>3, <2>5 DEF WindowIs
  <1> QED BY <1>4, <1>10, <1>11

\* With the deferrable server every period starts with a fresh budget.
LEMMA TickUses ==
  ASSUME IInv, IInv', HInv, Tick, ObserveTick, UNCHANGED params, ~BCS, NEW t \in Thread
  PROVE  UsedIs(t)'
  <1>1. /\ currentBudget[t] \in Nat /\ currentBudget'[t] \in Nat /\ period[t] \in Nat /\ budget[t] \in Nat \ {0}
        /\ used[t] \in Nat
    BY Records, RecordsNext DEF AllRecorded, Recorded, HInv, HistTypes
  <1>2. /\ period'[t] = period[t] /\ budget'[t] = budget[t]
        /\ Rights(t) \in Nat /\ Rights(t)' \in Nat
        /\ Rights(t)' = IF state'[t] = "FAILURE" THEN IF t \in ran' THEN 1 ELSE 0 ELSE currentBudget'[t]
    BY <1>1 DEF params, Rights
  <1>3. CASE period[t] > 0 /\ replenishIn[t] = 1
    <2>1. used'[t] = 0
      BY <1>3 DEF ObserveTick
    <2>2. currentBudget'[t] = budget[t]
      <3>1. TickPaysDs(Machine, Machine', t)
        BY TickIs
      <3> QED BY <1>3, <3>1 DEF TickPaysDs, Machine
    <2> QED BY <1>1, <1>2, <2>1, <2>2 DEF UsedIs
  <1>4. CASE period[t] > 0 /\ replenishIn[t] # 1
    <2>1. used'[t] = IF t \in ran THEN used[t] + 1 ELSE used[t]
      BY <1>4 DEF ObserveTick
    <2>2. Rights(t)' + (IF t \in ran THEN 1 ELSE 0) <= Rights(t)
      BY <1>4, TickSpends
    <2>3. used[t] + Rights(t) <= budget[t]
      BY <1>4 DEF HInv, UsedIs
    <2> HIDE DEF Rights
    <2> QED BY <1>1, <1>2, <2>1, <2>2, <2>3 DEF UsedIs
  <1> QED BY <1>2, <1>3, <1>4 DEF UsedIs

\* All of it together.
LEMMA TickKeeps ==
  ASSUME IInv, IInv', HInv, Tick, ObserveTick, UNCHANGED params
  PROVE  HInv'
  <1>1. HistTypes' /\ ChargedIffRan'
    BY TickCharges DEF HInv
  <1>2. ASSUME NEW t \in Thread PROVE SleptIs(t)'
    BY TickSleeps DEF HInv
  <1>3. BCS' <=> BCS
    BY DEF params, BCS
  <1>4. ASSUME BCS, NEW t \in Thread PROVE CoolIs(t)' /\ WindowIs(t)'
    <2>1. CASE period[t] > 0
      BY <1>4, <2>1, TickCools, TickWindow
    <2>2. CASE ~(period[t] > 0)
      BY <1>4, <2>2, TickCools DEF WindowIs, params, ObserveTick
    <2> QED BY <2>1, <2>2
  <1>5. ASSUME ~BCS, NEW t \in Thread PROVE UsedIs(t)'
    BY <1>5, TickUses
  <1> QED BY <1>1, <1>2, <1>3, <1>4, <1>5 DEF HInv

-----------------------------------------------------------------------------
(* The theorems.                                                           *)

\* A step, tick or not.
LEMMA HistoryKeeps == IInv /\ HInv /\ [HNext]_allVars => HInv'
  <1> SUFFICES ASSUME IInv, HInv, [HNext]_allVars PROVE HInv'
    OBVIOUS
  <1>1. IInv' /\ UNCHANGED params
    BY HStep, Fixed
  <1>2. CASE Tick /\ ObserveTick
    BY <1>1, <1>2, TickKeeps
  <1>3. CASE Other /\ ObserveOther
    BY <1>1, <1>3, OtherIs, OtherKeeps
  <1>4. CASE UNCHANGED allVars
    BY <1>4 DEF allVars, vars, histVars, params, HInv, HistTypes, ChargedIffRan, SleptIs, CoolIs, WindowIs,
                SpentSince, WindowLength, UsedIs, Rights, BCS
  <1> QED BY <1>2, <1>3, <1>4 DEF HNext, Other

\* The machine and its history keep their invariants.
LEMMA HistoryInvariant == HSpec => [](IInv /\ HInv)
  <1>1. HInit => IInv /\ HInv
    BY InitSound, HistoryStarts DEF HInit
  <1>2. (IInv /\ HInv) /\ [HNext]_allVars => (IInv /\ HInv)'
    BY HStep, HistoryKeeps
  <1> QED BY <1>1, <1>2, PTL DEF HSpec

\* A tick charges exactly the threads that held the core since the one before,
\* whatever they did to leave it (kTickHandleDeferredTicks, kTickRunningTask).
THEOREM NoFreeTicks == HSpec => []ChargedIffRan
  <1>1. HInv => ChargedIffRan
    BY DEF HInv
  <1> QED BY <1>1, HistoryInvariant, PTL

\* The burst-cooldown server: a thread of budget Q and period P holds the core
\* in at most Q of any P consecutive ticks, of any Q + P when Q > P.
THEOREM WindowIsBounded == HSpec => []BcsWindow
  <1>1. IInv /\ HInv => BcsWindow
    <2> SUFFICES ASSUME IInv, HInv, BCS, NEW t \in Thread
                 PROVE  Cardinality({i \in DOMAIN window[t] : window[t][i]}) <= budget[t]
      BY DEF BcsWindow
    <2>1. budget[t] \in Nat \ {0} /\ period[t] \in Nat /\ window[t] \in Seq(BOOLEAN) /\ currentBudget[t] \in Nat
      BY Records DEF AllRecorded, Recorded, HInv, HistTypes
    <2> DEFINE A == Ages(window[t])
               marks == {i \in DOMAIN window[t] : window[t][i]}
    <2>2. /\ IsFiniteSet(A) /\ A \subseteq Nat /\ Cardinality(marks) <= Cardinality(A)
          /\ \A j \in A : j < Len(window[t])
      BY <2>1, MarksAreAges DEF Ages
    <2>3. CASE period[t] > 0
      <3>1. PICK k \in Nat : SpentSince(t, k)
        BY <2>3 DEF HInv, WindowIs
      <3>2. Len(window[t]) <= WindowLength(t) /\ Rights(t) \in Nat
        BY <2>1, <2>3 DEF HInv, WindowIs, Rights
      <3>3. /\ Cardinality({j \in A : j < k}) + Rights(t) <= budget[t]
            /\ \A j \in A : j < k \/ j >= k + period[t]
        BY <3>1 DEF SpentSince
      <3>4. Cardinality({j \in A : j < k}) \in Nat
        BY <2>2, FS_Subset, FS_CardinalityType
      <3>5. Cardinality({j \in A : j < k}) <= budget[t]
        BY <2>1, <3>2, <3>3, <3>4
      <3>6. \A j \in A : j < IF budget[t] <= period[t] THEN period[t] ELSE budget[t] + period[t]
        BY <2>1, <2>2, <3>2 DEF WindowLength
      <3>7. Cardinality(A) <= budget[t]
        <4> DEFINE Q == budget[t]
                   P == period[t]
        <4>1. /\ Q \in Nat \ {0} /\ P \in Nat \ {0} /\ A \in SUBSET Nat /\ IsFiniteSet(A)
              /\ \A j \in A : j < IF Q <= P THEN P ELSE Q + P
              /\ \A j \in A : j < k \/ j >= k + P
              /\ Cardinality({j \in A : j < k}) <= Q
          BY <2>1, <2>2, <2>3, <3>3, <3>5, <3>6
        <4> HIDE DEF A, Q, P
        <4>2. Cardinality(A) <= Q
          BY <4>1, WindowBound
        <4> QED BY <4>2 DEF Q
      <3>8. Cardinality(marks) \in Nat /\ Cardinality(A) \in Nat
        <4>1. DOMAIN window[t] = 1 .. Len(window[t]) /\ Len(window[t]) \in Nat
          BY <2>1
        <4>2. marks \subseteq 1 .. Len(window[t])
          BY <4>1
        <4>3. IsFiniteSet(1 .. Len(window[t]))
          BY <4>1, FS_Interval
        <4> HIDE DEF marks, A
        <4> QED BY <2>2, <4>2, <4>3, FS_Subset, FS_CardinalityType
      <3> HIDE DEF A, marks
      <3> QED BY <2>1, <2>2, <3>7, <3>8 DEF marks
    <2>4. CASE period[t] = 0
      <3>1. window[t] = <<>>
        BY <2>4 DEF HInv, WindowIs
      <3>2. marks = {}
        BY <3>1
      <3>3. Cardinality(marks) = 0
        BY <3>2, FS_EmptySet
      <3> QED BY <2>1, <3>3
    <2> QED BY <2>1, <2>3, <2>4
  <1> QED BY <1>1, HistoryInvariant, PTL

\* The deferrable server: no more than the budget between two replenishments.
THEOREM ServerIsBounded == HSpec => []DsBudget
  <1>1. IInv /\ HInv => DsBudget
    <2> SUFFICES ASSUME IInv, HInv, ~BCS, NEW t \in Thread, period[t] > 0
                 PROVE  used[t] + (IF t \in ran THEN 1 ELSE 0) <= budget[t]
      BY DEF DsBudget
    <2>1. /\ budget[t] \in Nat /\ currentBudget[t] \in Nat /\ used[t] \in Nat
          /\ state[t] \in DefTickStates \cup {"RUNNING"} => currentBudget[t] > 0
      BY Records DEF AllRecorded, Recorded, HInv, HistTypes
    <2>2. used[t] + Rights(t) <= budget[t] /\ ChargedIffRan
      BY DEF HInv, UsedIs
    <2> QED BY <2>1, <2>2 DEF Rights, ChargedIffRan
  <1> QED BY <1>1, HistoryInvariant, PTL

\* A thread that asked to sleep n ticks is back at the n-th, whatever happens
\* on the core meanwhile (kTickSleepPeriod).
THEOREM SleepIsExact == HSpec => SleepExact
  <1> DEFINE Exact == \A t \in Thread : state'[t] # "FAILURE" /\ Asleep(t) /\ ~Asleep(t)' =>
                        slept[t] + 1 = sleepTicks[t]
  <1>1. (IInv /\ HInv) /\ [HNext]_allVars => [Exact]_allVars
    <2> SUFFICES ASSUME IInv, HInv, HNext, NEW t \in Thread,
                        state'[t] # "FAILURE", Asleep(t), ~Asleep(t)'
                 PROVE  slept[t] + 1 = sleepTicks[t]
      OBVIOUS
    <2>1. IInv' /\ UNCHANGED params
      BY HStep, Fixed
    <2>2. CASE Tick /\ ObserveTick
      BY <2>1, <2>2, TickSleeps DEF HInv
    <2>3. CASE Other /\ ObserveOther
      <3>1. runningTask # t
        BY Records DEF AllRecorded, Recorded, Asleep
      <3>2. Shift(state[t], state'[t])
        BY <2>3, <3>1, OtherIs DEF OtherStep, Machine
      <3> QED BY <3>2 DEF Shift, Asleep
    <2> QED BY <2>2, <2>3 DEF HNext, Other
  <1> HIDE DEF Exact
  <1>2. HSpec => [][Exact]_allVars
    BY <1>1, HistoryInvariant, PTL DEF HSpec
  <1> QED BY <1>2 DEF SleepExact, Exact

\* With the burst-cooldown server a budget that ran out is back a period later,
\* or when the sleep that outlasted the period ends.
THEOREM CooldownIsAPeriod == HSpec => BcsCooldown
  <1> DEFINE Cools == BCS => \A t \in Thread : currentBudget[t] = 0 /\ currentBudget'[t] > 0 =>
                        \/ cool[t] + 1 = period[t]
                        \/ cool[t] + 1 > period[t] /\ state[t] = "THREAD_SLEEP"
  <1>1. (IInv /\ HInv) /\ [HNext]_allVars => [Cools]_allVars
    <2> SUFFICES ASSUME IInv, HInv, HNext, BCS, NEW t \in Thread, currentBudget[t] = 0, currentBudget'[t] > 0
                 PROVE  \/ cool[t] + 1 = period[t]
                        \/ cool[t] + 1 > period[t] /\ state[t] = "THREAD_SLEEP"
      OBVIOUS
    <2>1. IInv' /\ UNCHANGED params
      BY HStep, Fixed
    <2>2. CASE Tick /\ ObserveTick
      BY <2>1, <2>2, TickCools
    <2>3. CASE Other /\ ObserveOther
      BY <2>3, OtherIs DEF OtherStep, Machine
    <2> QED BY <2>2, <2>3 DEF HNext, Other
  <1> HIDE DEF Cools
  <1>2. HSpec => [][Cools]_allVars
    BY <1>1, HistoryInvariant, PTL DEF HSpec
  <1> QED BY <1>2 DEF BcsCooldown, Cools
=============================================================================
