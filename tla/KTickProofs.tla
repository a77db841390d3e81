---------------------------- MODULE KTickProofs ----------------------------
(***************************************************************************)
(* The tick machine for any threads, LSRs, budgets, periods and policy.    *)
(***************************************************************************)
EXTENDS KTick, FiniteSetTheorems, SequenceTheorems, TLAPS

-----------------------------------------------------------------------------
(* Sequences without repetition as stacks, the top last: what a push, a pop *)
(* and moving one stack onto another (which reverses it) do to the set of   *)
(* elements, and that they never repeat an element.                         *)

\* A push of a new element adds it on top and keeps the stack free of repetition.
LEMMA PushOnStack ==
  ASSUME NEW S, NEW s \in Seq(S), NEW e \in S
  PROVE  /\ Append(s, e) \in Seq(S)
         /\ ToSet(Append(s, e)) = ToSet(s) \cup {e}
         /\ Last(Append(s, e)) = e
         /\ IsInjective(s) /\ e \notin ToSet(s) => IsInjective(Append(s, e))
  <1> DEFINE a == Append(s, e)
  <1>1. /\ a \in Seq(S)
        /\ Len(s) \in Nat /\ DOMAIN s = 1..Len(s)
        /\ Len(a) = Len(s) + 1 /\ DOMAIN a = 1..Len(s) + 1
        /\ \A i \in 1..Len(s) : a[i] = s[i]
        /\ a[Len(s) + 1] = e
    BY AppendProperties, LenProperties
  <1> HIDE DEF a
  <1>2. ToSet(a) = ToSet(s) \cup {e}
    BY <1>1 DEF ToSet
  <1>3. ASSUME IsInjective(s), e \notin ToSet(s) PROVE IsInjective(a)
    BY <1>1, <1>3 DEF IsInjective, ToSet
  <1>4. Last(a) = e
    BY <1>1 DEF Last
  <1> QED BY <1>1, <1>2, <1>3, <1>4 DEF a

\* A pop takes the top away, and only it if nothing repeats.
LEMMA PopFromStack ==
  ASSUME NEW S, NEW s \in Seq(S), s # <<>>
  PROVE  /\ Front(s) \in Seq(S)
         /\ Last(s) \in ToSet(s) /\ Last(s) \in S
         /\ IsInjective(s) => IsInjective(Front(s)) /\ ToSet(Front(s)) = ToSet(s) \ {Last(s)}
  <1> DEFINE f == Front(s)
  <1>1. Len(s) \in Nat \ {0} /\ DOMAIN s = 1..Len(s) /\ \A i \in 1..Len(s) : s[i] \in S
    BY EmptySeq, LenProperties, ElementOfSeq
  <1>2. f \in Seq(S) /\ Len(f) = Len(s) - 1 /\ \A i \in 1..Len(s) - 1 : f[i] = s[i]
    <2>1. \A i \in 1..Len(s) - 1 : s[i] \in S
      BY <1>1
    <2> QED BY <1>1, <2>1, SubSeqProperties DEF Front
  <1>3. DOMAIN f = 1..Len(s) - 1
    BY <1>2, LenProperties
  <1> HIDE DEF f
  <1>4. Last(s) \in ToSet(s) /\ Last(s) \in S
    BY <1>1 DEF Last, ToSet
  <1>5. ASSUME IsInjective(s) PROVE IsInjective(f) /\ ToSet(f) = ToSet(s) \ {Last(s)}
    BY <1>1, <1>2, <1>3, <1>5 DEF IsInjective, ToSet, Last
  <1> QED BY <1>2, <1>4, <1>5 DEF f

\* Popping all of r onto s leaves the elements of both, none twice if they
\* had none in common.
LEMMA MoveStack ==
  ASSUME NEW S, NEW s \in Seq(S), NEW r \in Seq(S)
  PROVE  /\ s \o Reverse(r) \in Seq(S)
         /\ ToSet(s \o Reverse(r)) = ToSet(s) \cup ToSet(r)
         /\ IsInjective(s) /\ IsInjective(r) /\ ToSet(s) \cap ToSet(r) = {}
              => IsInjective(s \o Reverse(r))
  <1> DEFINE v == Reverse(r)
             c == s \o v
  <1>1. /\ Len(s) \in Nat /\ DOMAIN s = 1..Len(s)
        /\ Len(r) \in Nat /\ DOMAIN r = 1..Len(r) /\ \A i \in 1..Len(r) : r[i] \in S
    BY LenProperties, ElementOfSeq
  <1>2. v \in Seq(S) /\ Len(v) = Len(r) /\ \A i \in 1..Len(r) : v[i] = r[Len(r) - i + 1]
    <2>1. v \in [1..Len(r) -> S]
      BY <1>1 DEF Reverse
    <2>2. v \in Seq(S)
      BY <1>1, <2>1
    <2> QED BY <1>1, <2>1, <2>2, LenProperties DEF Reverse
  <1> HIDE DEF v
  <1>3. /\ c \in Seq(S) /\ Len(c) = Len(s) + Len(r) /\ DOMAIN c = 1..Len(s) + Len(r)
        /\ \A i \in 1..Len(s) + Len(r) :
             c[i] = IF i <= Len(s) THEN s[i] ELSE r[Len(r) - (i - Len(s)) + 1]
    <2>1. /\ s \o v \in Seq(S) /\ Len(s \o v) = Len(s) + Len(v)
          /\ \A i \in 1..Len(s) + Len(v) : (s \o v)[i] = IF i <= Len(s) THEN s[i] ELSE v[i - Len(s)]
      <3>1. v \in Seq(S)
        BY <1>2
      <3> QED BY <3>1, ConcatProperties, Zenon
    <2>2. /\ c \in Seq(S) /\ Len(c) = Len(s) + Len(r)
          /\ \A i \in 1..Len(s) + Len(r) : c[i] = IF i <= Len(s) THEN s[i] ELSE v[i - Len(s)]
      BY <1>2, <2>1
    <2> HIDE DEF c
    <2>3. DOMAIN c = 1..Len(s) + Len(r)
      BY <2>2, LenProperties
    <2>4. ASSUME NEW i \in 1..Len(s) + Len(r), i > Len(s)
          PROVE  v[i - Len(s)] = r[Len(r) - (i - Len(s)) + 1]
      <3>1. i - Len(s) \in 1..Len(r)
        BY <1>1, <2>4
      <3> QED BY <1>2, <3>1
    <2> QED BY <1>1, <2>2, <2>3, <2>4
  <1> HIDE DEF c
  <1>4. ToSet(c) \subseteq ToSet(s) \cup ToSet(r)
    <2> SUFFICES ASSUME NEW i \in 1..Len(s) + Len(r) PROVE c[i] \in ToSet(s) \cup ToSet(r)
      BY <1>3 DEF ToSet
    <2>1. CASE i <= Len(s)
      BY <1>1, <1>3, <2>1 DEF ToSet
    <2>2. CASE i > Len(s)
      <3>1. c[i] = r[Len(r) - (i - Len(s)) + 1] /\ Len(r) - (i - Len(s)) + 1 \in 1..Len(r)
        BY <1>1, <1>3, <2>2
      <3> QED BY <1>1, <3>1 DEF ToSet
    <2> QED BY <1>1, <2>1, <2>2
  <1>5. ToSet(s) \subseteq ToSet(c)
    BY <1>1, <1>3 DEF ToSet
  <1>6. ToSet(r) \subseteq ToSet(c)
    <2> SUFFICES ASSUME NEW i \in 1..Len(r) PROVE r[i] \in ToSet(c)
      BY <1>1 DEF ToSet
    <2> DEFINE j == Len(s) + (Len(r) - i + 1)
    <2>1. j \in 1..Len(s) + Len(r) /\ c[j] = r[i]
      BY <1>1, <1>3
    <2> QED BY <1>3, <2>1 DEF ToSet
  <1>7. ASSUME IsInjective(s), IsInjective(r), ToSet(s) \cap ToSet(r) = {}
        PROVE  IsInjective(c)
    <2> SUFFICES ASSUME NEW i \in 1..Len(s) + Len(r), NEW j \in 1..Len(s) + Len(r), c[i] = c[j]
                 PROVE  i = j
      BY <1>3 DEF IsInjective
    <2>1. ASSUME NEW k \in 1..Len(s) + Len(r), k > Len(s)
          PROVE  /\ Len(r) - (k - Len(s)) + 1 \in 1..Len(r)
                 /\ c[k] = r[Len(r) - (k - Len(s)) + 1]
                 /\ c[k] \in ToSet(r)
      <3>1. Len(r) - (k - Len(s)) + 1 \in 1..Len(r)
        BY <1>1, <2>1
      <3>2. c[k] = r[Len(r) - (k - Len(s)) + 1]
        BY <1>1, <1>3, <2>1
      <3> QED BY <1>1, <3>1, <3>2 DEF ToSet
    <2>2. ASSUME NEW k \in 1..Len(s) + Len(r), k <= Len(s)
           PROVE  k \in 1..Len(s) /\ c[k] = s[k] /\ c[k] \in ToSet(s)
      <3>1. k \in 1..Len(s) /\ c[k] = s[k]
        BY <1>1, <1>3, <2>2
      <3> QED BY <1>1, <3>1 DEF ToSet
    <2>3. CASE i <= Len(s) /\ j <= Len(s)
      BY <1>1, <1>7, <2>2, <2>3 DEF IsInjective
    <2>4. CASE i > Len(s) /\ j > Len(s)
      <3>1. Len(r) - (i - Len(s)) + 1 = Len(r) - (j - Len(s)) + 1
        BY <1>1, <1>7, <2>1, <2>4 DEF IsInjective
      <3> QED BY <1>1, <3>1
    <2>5. CASE i <= Len(s) /\ j > Len(s)
      BY <1>7, <2>1, <2>2, <2>5
    <2>6. CASE i > Len(s) /\ j <= Len(s)
      BY <1>7, <2>1, <2>2, <2>6
    <2> QED BY <1>1, <2>3, <2>4, <2>5, <2>6
  <1> QED BY <1>3, <1>4, <1>5, <1>6, <1>7 DEF c, v

\* The empty stack holds nothing.
LEMMA EmptyStack ==
  ASSUME NEW S
  PROVE  <<>> \in Seq(S) /\ ToSet(<<>>) = {} /\ IsInjective(<<>>)
  BY EmptySeq DEF ToSet, IsInjective

\* A finite set as a stack, in some order.
LEMMA SetAsStack ==
  ASSUME NEW T, IsFiniteSet(T)
  PROVE  SetToSeq(T) \in Seq(T) /\ ToSet(SetToSeq(T)) = T /\ IsInjective(SetToSeq(T))
  <1> DEFINE n == Cardinality(T)
             f == SetToSeq(T)
  <1>1. n \in Nat /\ ExistsBijection(1..n, T)
    BY FS_CardinalityType
  <1>2. PICK g \in Bijection(1..n, T) : TRUE
    BY <1>1 DEF ExistsBijection
  <1>3. g \in [1..n -> T] /\ IsInjective(g)
    BY <1>2 DEF Bijection, Injection, IsInjective
  <1>4. f \in [1..n -> T] /\ IsInjective(f)
    BY <1>3 DEF SetToSeq
  <1> HIDE DEF f
  <1>5. f \in Seq(T) /\ DOMAIN f = 1..n
    BY <1>1, <1>4
  <1>6. IsFiniteSet(1..n) /\ Cardinality(1..n) = n
    BY <1>1, FS_Interval
  <1>7. f \in Injection(1..n, T)
    BY <1>4 DEF Injection, IsInjective
  <1>8. f \in Surjection(1..n, T)
    BY <1>6, <1>7, FS_Injection
  <1>9. ToSet(f) = T
    BY <1>5, <1>8 DEF ToSet, Surjection
  <1> QED BY <1>4, <1>5, <1>9 DEF f

-----------------------------------------------------------------------------

USE DEF BCS

States == ThreadStates \cup LsrStates \cup IdleStates

\* What the plugins set and no handler changes.
ParamsOK ==
  /\ budget \in [Thread -> Budgets]
  /\ period \in [Thread -> Periods]
  /\ algorithm \in {"BCS", "DS"}

(***************************************************************************)
(* The inductive invariant, a predicate on machine records because it has  *)
(* to hold between the phases of a handler too.  Each part is about one    *)
(* structure of the machine and the states of the tasks it holds.          *)
(***************************************************************************)
MachineType ==
  [state : [Task -> States], running : Task \cup {NoTask},
   pending : Thread \cup {Idle, NoTask}, deferred : Seq(Thread \cup {Idle}),
   pendingLsrs : Seq(Lsr), lsrs : [Vector -> Seq(Lsr)],
   currentBudget : [Thread -> Nat], replenishIn : [Thread -> Nat],
   sleepIn : [Thread -> Nat], sleepTicks : [Thread -> Nat]]

StatesOK(m) ==
  /\ \A t \in Thread : m.state[t] \in ThreadStates
  /\ \A l \in Lsr : m.state[l] \in LsrStates
  /\ m.state[Idle] \in IdleStates

\* the running slot and the pending slot; only an LSR keeps a task pending
SlotsOK(m) ==
  /\ \A t \in Task : m.state[t] = "RUNNING" <=> m.running = t
  /\ \A t \in Task : m.state[t] \in {"PENDING", "DEFTICK_PENDING"} <=> m.pending = t
  /\ m.pending # NoTask => m.running \in Lsr \cup {NoTask}

DeferredOK(m) ==
  /\ \A t \in Task : m.state[t] \in DefTickStates <=> t \in ToSet(m.deferred)
  /\ IsInjective(m.deferred)
  /\ m.pending # NoTask /\ m.state[m.pending] = "DEFTICK_PENDING"
       => Last(m.deferred) = m.pending

LsrsOK(m) ==
  /\ \A t \in Task : m.state[t] = "LSR_PENDING" <=> t \in ToSet(m.pendingLsrs)
  /\ IsInjective(m.pendingLsrs)
  /\ \A v \in Vector :
       /\ IsInjective(m.lsrs[v])
       /\ \A t \in Task : t \in ToSet(m.lsrs[v]) <=>
            t \in Lsr /\ m.state[t] = "LSR_DORMANT" /\ LsrVector[t] = v

TimersOK(m) ==
  \A t \in Thread :
    /\ m.state[t] = "THREAD_SLEEP" <=> m.sleepIn[t] > 0
    /\ m.replenishIn[t] > 0 <=>
         IF BCS THEN m.state[t] = "THREAD_THROTTLED" ELSE period[t] > 0
    /\ m.state[t] \in {"THREAD_DEFTICK_SLEEP", "THREAD_SLEEP"} => m.sleepTicks[t] > 0

BudgetsOK(m) ==
  \A t \in Thread :
    /\ m.state[t] \in DefTickStates \cup {"READY", "PENDING"} => m.currentBudget[t] > 0
    /\ m.state[t] = "THREAD_THROTTLED" => m.currentBudget[t] = 0 /\ period[t] > 0

\* Within a tick the running thread may be out of budget, if it has a period.
RunningPays(m) ==
  \A t \in Thread : m.running = t /\ m.currentBudget[t] = 0 => period[t] > 0

Ticking(m) ==
  /\ m \in MachineType
  /\ StatesOK(m) /\ SlotsOK(m) /\ DeferredOK(m) /\ LsrsOK(m) /\ TimersOK(m)
  /\ BudgetsOK(m) /\ RunningPays(m)

Sound(m) ==
  /\ Ticking(m)
  /\ \A t \in Thread : m.running = t => m.currentBudget[t] > 0

\* Work goes on: LSRs wait only for an LSR, and idle runs only if it must.
Working(m) ==
  /\ m.running \notin Lsr \cup {NoTask} => m.pendingLsrs = <<>>
  /\ m.running = Idle => Ready(m) = {}

\* The NULL task is no task.
LEMMA NoTaskNotThread == NoTask \notin Thread /\ NoTask \notin Lsr /\ NoTask # Idle
  BY Configuration DEF Task

-----------------------------------------------------------------------------
(* Leaving the core: the running task moves to a state of another          *)
(* structure.                                                              *)

\* The core is left to nobody and no task but the leaving one is touched.
LEMMA LeaveDeferred ==
  ASSUME ParamsOK, NEW m, Ticking(m), NEW t \in Thread, m.running = t,
         m.currentBudget[t] > 0, NEW s \in DefTickThreadStates,
         s = "THREAD_DEFTICK_SLEEP" => m.sleepTicks[t] > 0
  PROVE  /\ Sound(LoadNextState(LeaveRunning(m), t, s))
         /\ LoadNextState(LeaveRunning(m), t, s).running = NoTask
  <1> DEFINE n == LoadNextState(LeaveRunning(m), t, s)
  <1>1. /\ m \in MachineType /\ m.state[t] = "RUNNING"
        /\ t \in Task /\ t # Idle /\ t \notin Lsr /\ NoTask \notin Task
    BY Configuration DEF Ticking, SlotsOK, Task
  <1>2. n = [m EXCEPT !.running = NoTask, !.state[t] = s, !.deferred = Append(@, t)]
    BY <1>1 DEF LoadNextState, LeaveRunning, DefTickThreadStates, MachineType
  <1>3. m.deferred \in Seq(Thread \cup {Idle}) /\ m.state \in [Task -> States] /\ s \in States
    BY <1>1 DEF MachineType, States, ThreadStates, DefTickStates
  <1>4. /\ Append(m.deferred, t) \in Seq(Thread \cup {Idle})
        /\ ToSet(Append(m.deferred, t)) = ToSet(m.deferred) \cup {t}
        /\ t \notin ToSet(m.deferred)
        /\ IsInjective(Append(m.deferred, t))
    <2>1. t \notin ToSet(m.deferred) /\ IsInjective(m.deferred)
      BY <1>1 DEF Ticking, DeferredOK, DefTickStates, DefTickThreadStates
    <2> QED BY <1>3, <2>1, PushOnStack
  <1> HIDE DEF n
  <1>5. /\ n.state = [m.state EXCEPT ![t] = s] /\ n.running = NoTask /\ n.pending = m.pending
        /\ n.deferred = Append(m.deferred, t) /\ n.pendingLsrs = m.pendingLsrs /\ n.lsrs = m.lsrs
        /\ n.currentBudget = m.currentBudget /\ n.replenishIn = m.replenishIn
        /\ n.sleepIn = m.sleepIn /\ n.sleepTicks = m.sleepTicks
    BY <1>1, <1>2 DEF MachineType
  <1>6. n \in MachineType
    BY <1>1, <1>2, <1>3, <1>4 DEF MachineType
  <1>7. StatesOK(n)
    BY <1>1, <1>3, <1>5 DEF Ticking, StatesOK, Task, ThreadStates, DefTickStates
  <1>8. SlotsOK(n)
    BY <1>1, <1>3, <1>5 DEF Ticking, SlotsOK, DefTickThreadStates
  <1>9. DeferredOK(n)
    BY <1>1, <1>3, <1>4, <1>5 DEF Ticking, SlotsOK, DeferredOK, DefTickStates
  <1>10. LsrsOK(n)
    BY <1>1, <1>3, <1>5 DEF Ticking, LsrsOK, DefTickThreadStates
  <1>11. TimersOK(n)
    BY <1>1, <1>3, <1>5 DEF Ticking, TimersOK, DefTickThreadStates
  <1>12. BudgetsOK(n)
    BY <1>1, <1>3, <1>5 DEF Ticking, BudgetsOK, DefTickThreadStates, Task
  <1>13. RunningPays(n) /\ \A u \in Thread : n.running # u
    BY <1>5, NoTaskNotThread DEF RunningPays
  <1>14. Sound(n)
    BY <1>6, <1>7, <1>8, <1>9, <1>10, <1>11, <1>12, <1>13 DEF Sound, Ticking
  <1> QED BY <1>5, <1>14 DEF n

\* Back to the policy's ready threads, or out of the system for good.
LEMMA LeaveReadyOrFailed ==
  ASSUME ParamsOK, NEW m, Ticking(m), NEW t \in Task, m.running = t, NEW s,
         \/ s = "READY" /\ t \notin Lsr
         \/ s = "FAILURE" /\ t # Idle,
         t \in Thread => m.currentBudget[t] > 0
  PROVE  /\ Sound(LoadNextState(LeaveRunning(m), t, s))
         /\ LoadNextState(LeaveRunning(m), t, s).running = NoTask
         /\ LoadNextState(LeaveRunning(m), t, s).pending = m.pending
         /\ LoadNextState(LeaveRunning(m), t, s).pendingLsrs = m.pendingLsrs
  <1> DEFINE n == LoadNextState(LeaveRunning(m), t, s)
  <1>1. m \in MachineType /\ m.state[t] = "RUNNING" /\ NoTask \notin Task /\ Idle \notin Thread \cup Lsr
    BY Configuration DEF Ticking, SlotsOK
  <1>2. n = [m EXCEPT !.running = NoTask, !.state[t] = s]
    BY <1>1 DEF LoadNextState, LeaveRunning, DefTickThreadStates, MachineType
  <1>3. m.state \in [Task -> States] /\ s \in States
    BY <1>1 DEF MachineType, States, ThreadStates
  <1> HIDE DEF n
  <1>5. /\ n.state = [m.state EXCEPT ![t] = s] /\ n.running = NoTask /\ n.pending = m.pending
        /\ n.deferred = m.deferred /\ n.pendingLsrs = m.pendingLsrs /\ n.lsrs = m.lsrs
        /\ n.currentBudget = m.currentBudget /\ n.replenishIn = m.replenishIn
        /\ n.sleepIn = m.sleepIn /\ n.sleepTicks = m.sleepTicks
    BY <1>1, <1>2 DEF MachineType
  <1>6. n \in MachineType
    BY <1>1, <1>2, <1>3 DEF MachineType
  <1>7. StatesOK(n)
    BY <1>1, <1>3, <1>5 DEF Ticking, StatesOK, Task, ThreadStates, LsrStates, IdleStates
  <1>8. SlotsOK(n)
    BY <1>1, <1>3, <1>5 DEF Ticking, SlotsOK
  <1>9. DeferredOK(n)
    BY <1>1, <1>3, <1>5 DEF Ticking, SlotsOK, DeferredOK, DefTickStates, DefTickThreadStates
  <1>10. LsrsOK(n)
    BY <1>1, <1>3, <1>5 DEF Ticking, LsrsOK
  <1>11. TimersOK(n)
    BY <1>1, <1>3, <1>5 DEF Ticking, TimersOK
  <1>12. BudgetsOK(n)
    BY <1>1, <1>3, <1>5 DEF Ticking, BudgetsOK, DefTickStates, DefTickThreadStates, Task
  <1>13. RunningPays(n) /\ \A u \in Thread : n.running # u
    BY <1>5, NoTaskNotThread DEF RunningPays
  <1>14. Sound(n)
    BY <1>6, <1>7, <1>8, <1>9, <1>10, <1>11, <1>12, <1>13 DEF Sound, Ticking
  <1> QED BY <1>5, <1>14 DEF n

\* Out of budget: under BCS the wait for the next budget begins.
LEMMA LeaveThrottled ==
  ASSUME ParamsOK, NEW m, Ticking(m), NEW t \in Thread, m.running = t, m.currentBudget[t] = 0
  PROVE  /\ Sound(LoadNextState(LeaveRunning(m), t, "THREAD_THROTTLED"))
         /\ LoadNextState(LeaveRunning(m), t, "THREAD_THROTTLED").running = NoTask
         /\ LoadNextState(LeaveRunning(m), t, "THREAD_THROTTLED").pending = m.pending
         /\ LoadNextState(LeaveRunning(m), t, "THREAD_THROTTLED").pendingLsrs = m.pendingLsrs
  <1> DEFINE n == LoadNextState(LeaveRunning(m), t, "THREAD_THROTTLED")
  <1>1. /\ m \in MachineType /\ m.state[t] = "RUNNING" /\ period[t] > 0 /\ period[t] \in Nat
        /\ t \in Task /\ t # Idle /\ t \notin Lsr /\ NoTask \notin Task
    BY Configuration DEF Ticking, SlotsOK, RunningPays, ParamsOK, Task
  <1>2. n = [m EXCEPT !.running = NoTask, !.state[t] = "THREAD_THROTTLED",
                      !.replenishIn[t] = IF BCS THEN period[t] ELSE @]
    BY <1>1 DEF LoadNextState, LeaveRunning, DefTickThreadStates, MachineType
  <1>3. m.state \in [Task -> States] /\ "THREAD_THROTTLED" \in States /\ m.replenishIn \in [Thread -> Nat]
    BY <1>1 DEF MachineType, States, ThreadStates
  <1> HIDE DEF n
  <1>5. /\ n.state = [m.state EXCEPT ![t] = "THREAD_THROTTLED"] /\ n.running = NoTask
        /\ n.replenishIn = [m.replenishIn EXCEPT ![t] = IF BCS THEN period[t] ELSE @]
        /\ n.pending = m.pending
        /\ n.deferred = m.deferred /\ n.pendingLsrs = m.pendingLsrs /\ n.lsrs = m.lsrs
        /\ n.currentBudget = m.currentBudget
        /\ n.sleepIn = m.sleepIn /\ n.sleepTicks = m.sleepTicks
    BY <1>1, <1>2 DEF MachineType
  <1>6. n \in MachineType
    BY <1>1, <1>2, <1>3 DEF MachineType
  <1>7. StatesOK(n)
    BY <1>1, <1>3, <1>5 DEF Ticking, StatesOK, Task, ThreadStates
  <1>8. SlotsOK(n)
    BY <1>1, <1>3, <1>5 DEF Ticking, SlotsOK
  <1>9. DeferredOK(n)
    BY <1>1, <1>3, <1>5 DEF Ticking, SlotsOK, DeferredOK, DefTickStates, DefTickThreadStates
  <1>10. LsrsOK(n)
    BY <1>1, <1>3, <1>5 DEF Ticking, LsrsOK
  <1>11. TimersOK(n)
    BY <1>1, <1>3, <1>5 DEF Ticking, TimersOK, Task
  <1>12. BudgetsOK(n)
    BY <1>1, <1>3, <1>5 DEF Ticking, BudgetsOK, DefTickStates, DefTickThreadStates, Task
  <1>13. RunningPays(n) /\ \A u \in Thread : n.running # u
    BY <1>5, NoTaskNotThread DEF RunningPays
  <1>14. Sound(n)
    BY <1>6, <1>7, <1>8, <1>9, <1>10, <1>11, <1>12, <1>13 DEF Sound, Ticking
  <1> QED BY <1>5, <1>14 DEF n

\* Preempted by an LSR: pending, and charged at the next tick.
LEMMA LeavePreempted ==
  ASSUME ParamsOK, NEW m, Ticking(m), NEW t \in Thread \cup {Idle}, m.running = t,
         t \in Thread => m.currentBudget[t] > 0
  PROVE  /\ Sound(LoadNextState(LeaveRunning(m), t, "DEFTICK_PENDING"))
         /\ LoadNextState(LeaveRunning(m), t, "DEFTICK_PENDING").running = NoTask
         /\ LoadNextState(LeaveRunning(m), t, "DEFTICK_PENDING").pendingLsrs = m.pendingLsrs
         /\ LoadNextState(LeaveRunning(m), t, "DEFTICK_PENDING").lsrs = m.lsrs
  <1> DEFINE n == LoadNextState(LeaveRunning(m), t, "DEFTICK_PENDING")
  <1>1. /\ m \in MachineType /\ m.state[t] = "RUNNING" /\ t \in Task /\ t \notin Lsr
        /\ NoTask \notin Task /\ Idle \notin Thread
    BY Configuration DEF Ticking, SlotsOK, Task
  <1>2. n = [m EXCEPT !.running = NoTask, !.state[t] = "DEFTICK_PENDING",
                      !.pending = t, !.deferred = Append(@, t)]
    BY <1>1 DEF LoadNextState, LeaveRunning, DefTickThreadStates, MachineType
  <1>3. /\ m.deferred \in Seq(Thread \cup {Idle}) /\ m.state \in [Task -> States]
        /\ "DEFTICK_PENDING" \in States
    BY <1>1 DEF MachineType, States, ThreadStates, DefTickStates
  <1>4. /\ Append(m.deferred, t) \in Seq(Thread \cup {Idle})
        /\ ToSet(Append(m.deferred, t)) = ToSet(m.deferred) \cup {t}
        /\ Last(Append(m.deferred, t)) = t
        /\ IsInjective(Append(m.deferred, t))
    <2>1. t \notin ToSet(m.deferred) /\ IsInjective(m.deferred)
      BY <1>1 DEF Ticking, DeferredOK, DefTickStates, DefTickThreadStates
    <2> QED BY <1>3, <2>1, PushOnStack
  <1> HIDE DEF n
  <1>5. /\ n.state = [m.state EXCEPT ![t] = "DEFTICK_PENDING"] /\ n.running = NoTask
        /\ n.pending = t /\ n.deferred = Append(m.deferred, t)
        /\ n.pendingLsrs = m.pendingLsrs /\ n.lsrs = m.lsrs
        /\ n.currentBudget = m.currentBudget /\ n.replenishIn = m.replenishIn
        /\ n.sleepIn = m.sleepIn /\ n.sleepTicks = m.sleepTicks
    BY <1>1, <1>2 DEF MachineType
  <1>6. n \in MachineType
    BY <1>1, <1>2, <1>3, <1>4 DEF MachineType
  <1>7. StatesOK(n)
    BY <1>1, <1>3, <1>5 DEF Ticking, StatesOK, Task, ThreadStates, IdleStates, DefTickStates
  <1>8. SlotsOK(n)
    <2>1. m.pending = NoTask
      BY <1>1, NoTaskNotThread DEF Ticking, SlotsOK
    <2> QED BY <1>1, <1>3, <1>5, <2>1 DEF Ticking, SlotsOK
  <1>9. DeferredOK(n)
    BY <1>1, <1>3, <1>4, <1>5 DEF Ticking, DeferredOK, DefTickStates
  <1>10. LsrsOK(n)
    BY <1>1, <1>3, <1>5 DEF Ticking, LsrsOK
  <1>11. TimersOK(n)
    BY <1>1, <1>3, <1>5 DEF Ticking, TimersOK, Task
  <1>12. BudgetsOK(n)
    BY <1>1, <1>3, <1>5 DEF Ticking, BudgetsOK, DefTickStates, DefTickThreadStates, Task
  <1>13. RunningPays(n) /\ \A u \in Thread : n.running # u
    BY <1>5, NoTaskNotThread DEF RunningPays
  <1>14. Sound(n)
    BY <1>6, <1>7, <1>8, <1>9, <1>10, <1>11, <1>12, <1>13 DEF Sound, Ticking
  <1> QED BY <1>5, <1>14 DEF n

\* A finished LSR goes back to monitoring its vector.
LEMMA LeaveDormant ==
  ASSUME ParamsOK, NEW m, Ticking(m), NEW t \in Lsr, m.running = t
  PROVE  /\ Sound(LoadNextState(LeaveRunning(m), t, "LSR_DORMANT"))
         /\ LoadNextState(LeaveRunning(m), t, "LSR_DORMANT").running = NoTask
  <1> DEFINE n == LoadNextState(LeaveRunning(m), t, "LSR_DORMANT")
             w == LsrVector[t]
  <1>1. /\ m \in MachineType /\ m.state[t] = "RUNNING" /\ t \in Task /\ t \notin Thread /\ t # Idle
        /\ NoTask \notin Task /\ w \in Vector
    BY Configuration DEF Ticking, SlotsOK, Task
  <1>2. n = [m EXCEPT !.running = NoTask, !.state[t] = "LSR_DORMANT", !.lsrs[w] = Append(@, t)]
    BY <1>1 DEF LoadNextState, LeaveRunning, DefTickThreadStates, MachineType
  <1>3. m.lsrs \in [Vector -> Seq(Lsr)] /\ m.state \in [Task -> States] /\ "LSR_DORMANT" \in States
    BY <1>1 DEF MachineType, States, LsrStates
  <1>4. /\ Append(m.lsrs[w], t) \in Seq(Lsr)
        /\ ToSet(Append(m.lsrs[w], t)) = ToSet(m.lsrs[w]) \cup {t}
        /\ IsInjective(Append(m.lsrs[w], t))
    <2>1. t \notin ToSet(m.lsrs[w]) /\ IsInjective(m.lsrs[w]) /\ m.lsrs[w] \in Seq(Lsr)
      BY <1>1, <1>3 DEF Ticking, LsrsOK
    <2> QED BY <2>1, PushOnStack
  <1> HIDE DEF n
  <1>5. /\ n.state = [m.state EXCEPT ![t] = "LSR_DORMANT"] /\ n.running = NoTask
        /\ n.lsrs = [m.lsrs EXCEPT ![w] = Append(m.lsrs[w], t)]
        /\ n.pending = m.pending /\ n.deferred = m.deferred /\ n.pendingLsrs = m.pendingLsrs
        /\ n.currentBudget = m.currentBudget /\ n.replenishIn = m.replenishIn
        /\ n.sleepIn = m.sleepIn /\ n.sleepTicks = m.sleepTicks
    BY <1>1, <1>2 DEF MachineType
  <1>6. n \in MachineType
    BY <1>1, <1>2, <1>3, <1>4 DEF MachineType
  <1>7. StatesOK(n)
    BY <1>1, <1>3, <1>5 DEF Ticking, StatesOK, Task, LsrStates
  <1>8. SlotsOK(n)
    BY <1>1, <1>3, <1>5 DEF Ticking, SlotsOK
  <1>9. DeferredOK(n)
    BY <1>1, <1>3, <1>5, NoTaskNotThread DEF Ticking, SlotsOK, DeferredOK, DefTickStates, DefTickThreadStates
  <1>10. LsrsOK(n)
    BY <1>1, <1>3, <1>4, <1>5 DEF Ticking, LsrsOK
  <1>11. TimersOK(n)
    BY <1>1, <1>3, <1>5 DEF Ticking, TimersOK, Task
  <1>12. BudgetsOK(n)
    BY <1>1, <1>3, <1>5 DEF Ticking, BudgetsOK, Task
  <1>13. RunningPays(n) /\ \A u \in Thread : n.running # u
    BY <1>5, NoTaskNotThread DEF RunningPays
  <1>14. Sound(n)
    BY <1>6, <1>7, <1>8, <1>9, <1>10, <1>11, <1>12, <1>13 DEF Sound, Ticking
  <1> QED BY <1>5, <1>14 DEF n

\* An LSR preempted by others waits on top of those it had preempted itself.
LEMMA LeaveLsrPending ==
  ASSUME ParamsOK, NEW m, Ticking(m), NEW t \in Lsr, m.running = t
  PROVE  /\ Sound(LoadNextState(LeaveRunning(m), t, "LSR_PENDING"))
         /\ LoadNextState(LeaveRunning(m), t, "LSR_PENDING").running = NoTask
         /\ LoadNextState(LeaveRunning(m), t, "LSR_PENDING").lsrs = m.lsrs
  <1> DEFINE n == LoadNextState(LeaveRunning(m), t, "LSR_PENDING")
  <1>1. /\ m \in MachineType /\ m.state[t] = "RUNNING" /\ t \in Task /\ t \notin Thread /\ t # Idle
        /\ NoTask \notin Task
    BY Configuration DEF Ticking, SlotsOK, Task
  <1>2. n = [m EXCEPT !.running = NoTask, !.state[t] = "LSR_PENDING", !.pendingLsrs = Append(@, t)]
    BY <1>1 DEF LoadNextState, LeaveRunning, DefTickThreadStates, MachineType
  <1>3. m.pendingLsrs \in Seq(Lsr) /\ m.state \in [Task -> States] /\ "LSR_PENDING" \in States
    BY <1>1 DEF MachineType, States, LsrStates
  <1>4. /\ Append(m.pendingLsrs, t) \in Seq(Lsr)
        /\ ToSet(Append(m.pendingLsrs, t)) = ToSet(m.pendingLsrs) \cup {t}
        /\ IsInjective(Append(m.pendingLsrs, t))
    <2>1. t \notin ToSet(m.pendingLsrs) /\ IsInjective(m.pendingLsrs)
      BY <1>1 DEF Ticking, LsrsOK
    <2> QED BY <1>3, <2>1, PushOnStack
  <1> HIDE DEF n
  <1>5. /\ n.state = [m.state EXCEPT ![t] = "LSR_PENDING"] /\ n.running = NoTask
        /\ n.pendingLsrs = Append(m.pendingLsrs, t)
        /\ n.pending = m.pending /\ n.deferred = m.deferred /\ n.lsrs = m.lsrs
        /\ n.currentBudget = m.currentBudget /\ n.replenishIn = m.replenishIn
        /\ n.sleepIn = m.sleepIn /\ n.sleepTicks = m.sleepTicks
    BY <1>1, <1>2 DEF MachineType
  <1>6. n \in MachineType
    BY <1>1, <1>2, <1>3, <1>4 DEF MachineType
  <1>7. StatesOK(n)
    BY <1>1, <1>3, <1>5 DEF Ticking, StatesOK, Task, LsrStates
  <1>8. SlotsOK(n)
    BY <1>1, <1>3, <1>5 DEF Ticking, SlotsOK
  <1>9. DeferredOK(n)
    BY <1>1, <1>3, <1>5, NoTaskNotThread DEF Ticking, SlotsOK, DeferredOK, DefTickStates, DefTickThreadStates
  <1>10. LsrsOK(n)
    BY <1>1, <1>3, <1>4, <1>5 DEF Ticking, LsrsOK
  <1>11. TimersOK(n)
    BY <1>1, <1>3, <1>5 DEF Ticking, TimersOK, Task
  <1>12. BudgetsOK(n)
    BY <1>1, <1>3, <1>5 DEF Ticking, BudgetsOK, Task
  <1>13. RunningPays(n) /\ \A u \in Thread : n.running # u
    BY <1>5, NoTaskNotThread DEF RunningPays
  <1>14. Sound(n)
    BY <1>6, <1>7, <1>8, <1>9, <1>10, <1>11, <1>12, <1>13 DEF Sound, Ticking
  <1> QED BY <1>5, <1>14 DEF n

-----------------------------------------------------------------------------
(* Taking the core.                                                        *)

\* A ready thread, or idle when there is none, takes the empty core.
LEMMA RunReady ==
  ASSUME ParamsOK, NEW m, Sound(m), m.running = NoTask, m.pending = NoTask,
         NEW t \in Thread \cup {Idle}, m.state[t] = "READY"
  PROVE  /\ Sound(LoadNextState(m, t, "RUNNING"))
         /\ LoadNextState(m, t, "RUNNING").running = t
         /\ LoadNextState(m, t, "RUNNING").pendingLsrs = m.pendingLsrs
         /\ t = Idle => Ready(LoadNextState(m, t, "RUNNING")) = Ready(m)
  <1> DEFINE n == LoadNextState(m, t, "RUNNING")
  <1>1. m \in MachineType /\ Ticking(m) /\ t \in Task /\ t \notin Lsr /\ NoTask \notin Task
        /\ Idle \notin Thread /\ m.state[t] # "RUNNING"
    BY Configuration DEF Sound, Ticking, Task
  <1>2. n = [m EXCEPT !.state[t] = "RUNNING", !.running = t]
    BY <1>1 DEF LoadNextState, DefTickThreadStates, MachineType
  <1>3. m.state \in [Task -> States] /\ "RUNNING" \in States
    BY <1>1 DEF MachineType, States, ThreadStates
  <1> HIDE DEF n
  <1>5. /\ n.state = [m.state EXCEPT ![t] = "RUNNING"] /\ n.running = t
        /\ n.pendingLsrs = m.pendingLsrs
        /\ n.pending = m.pending /\ n.deferred = m.deferred /\ n.lsrs = m.lsrs
        /\ n.currentBudget = m.currentBudget /\ n.replenishIn = m.replenishIn
        /\ n.sleepIn = m.sleepIn /\ n.sleepTicks = m.sleepTicks
    BY <1>1, <1>2 DEF MachineType
  <1>6. n \in MachineType
    BY <1>1, <1>2, <1>3 DEF MachineType
  <1>7. StatesOK(n)
    BY <1>1, <1>3, <1>5 DEF Ticking, StatesOK, Task, ThreadStates, IdleStates
  <1>8. SlotsOK(n)
    BY <1>1, <1>3, <1>5 DEF Ticking, SlotsOK
  <1>9. DeferredOK(n)
    BY <1>1, <1>3, <1>5 DEF Ticking, DeferredOK, DefTickStates, DefTickThreadStates
  <1>10. LsrsOK(n)
    BY <1>1, <1>3, <1>5 DEF Ticking, LsrsOK
  <1>11. TimersOK(n)
    BY <1>1, <1>3, <1>5 DEF Ticking, TimersOK, Task
  <1>12. BudgetsOK(n)
    BY <1>1, <1>3, <1>5 DEF Ticking, BudgetsOK, DefTickStates, DefTickThreadStates, Task
  <1>13. \A u \in Thread : n.running = u => n.currentBudget[u] > 0
    BY <1>1, <1>5 DEF Ticking, BudgetsOK
  <1>14. RunningPays(n)
    BY <1>6, <1>13 DEF RunningPays, MachineType
  <1>15. Sound(n)
    BY <1>6, <1>7, <1>8, <1>9, <1>10, <1>11, <1>12, <1>13, <1>14 DEF Sound, Ticking
  <1>16. t = Idle => Ready(n) = Ready(m)
    BY <1>1, <1>3, <1>5 DEF Ready, Task
  <1> QED BY <1>5, <1>15, <1>16 DEF n

\* kTickSchedTaskPop always finds someone to run.
LEMMA RunNextSound ==
  ASSUME ParamsOK, NEW m, Sound(m), m.running = NoTask, m.pending = NoTask, NEW n \in RunNext(m)
  PROVE  /\ Sound(n) /\ n.running \in Thread \cup {Idle}
         /\ n.pendingLsrs = m.pendingLsrs
         /\ n.running = Idle => Ready(n) = {}
  <1>1. PICK t \in IF Ready(m) = {} THEN {Idle} ELSE Ready(m) : n = LoadNextState(m, t, "RUNNING")
    BY DEF RunNext
  <1>2. CASE Ready(m) # {}
    <2>1. t \in Thread /\ m.state[t] = "READY"
      BY <1>1, <1>2 DEF Ready
    <2> QED BY <1>1, <2>1, RunReady, Configuration
  <1>3. CASE Ready(m) = {}
    <2>1. t = Idle /\ Idle \in Task
      BY <1>1, <1>3 DEF Task
    <2>2. m.state[Idle] = "READY"
      BY <2>1, Configuration DEF Sound, Ticking, StatesOK, SlotsOK, IdleStates, Task
    <2> QED BY <1>1, <1>3, <2>1, <2>2, RunReady
  <1> QED BY <1>2, <1>3

\* The top of the stack of pending LSRs runs.
LEMMA RunTopLsrSound ==
  ASSUME ParamsOK, NEW m, Sound(m), m.running = NoTask, m.pendingLsrs # <<>>
  PROVE  Sound(RunTopLsr(m)) /\ RunTopLsr(m).running \in Lsr
  <1> DEFINE n == RunTopLsr(m)
             l == Last(m.pendingLsrs)
  <1>1. /\ m \in MachineType /\ Ticking(m) /\ m.pendingLsrs \in Seq(Lsr) /\ NoTask \notin Task
        /\ IsInjective(m.pendingLsrs)
    BY Configuration DEF Sound, Ticking, MachineType, LsrsOK
  <1>2. /\ Front(m.pendingLsrs) \in Seq(Lsr) /\ IsInjective(Front(m.pendingLsrs))
        /\ ToSet(Front(m.pendingLsrs)) = ToSet(m.pendingLsrs) \ {l}
        /\ l \in ToSet(m.pendingLsrs) /\ l \in Lsr
    BY <1>1, PopFromStack
  <1>3. l \in Task /\ l \notin Thread /\ l # Idle /\ m.state[l] = "LSR_PENDING"
    BY <1>1, <1>2, Configuration DEF Ticking, LsrsOK, Task
  <1> HIDE DEF l
  <1>4. n = [m EXCEPT !.state[l] = "RUNNING", !.running = l, !.pendingLsrs = Front(@)]
    BY <1>1, <1>3 DEF RunTopLsr, LoadNextState, DefTickThreadStates, MachineType, l
  <1>5. m.state \in [Task -> States] /\ "RUNNING" \in States
    BY <1>1 DEF MachineType, States, ThreadStates
  <1> HIDE DEF n
  <1>6. /\ n.state = [m.state EXCEPT ![l] = "RUNNING"] /\ n.running = l
        /\ n.pendingLsrs = Front(m.pendingLsrs)
        /\ n.pending = m.pending /\ n.deferred = m.deferred /\ n.lsrs = m.lsrs
        /\ n.currentBudget = m.currentBudget /\ n.replenishIn = m.replenishIn
        /\ n.sleepIn = m.sleepIn /\ n.sleepTicks = m.sleepTicks
    BY <1>1, <1>4 DEF MachineType
  <1>7. n \in MachineType
    BY <1>1, <1>2, <1>3, <1>4, <1>5 DEF MachineType
  <1>8. StatesOK(n)
    BY <1>1, <1>3, <1>5, <1>6 DEF Ticking, StatesOK, Task, LsrStates
  <1>9. SlotsOK(n)
    BY <1>1, <1>2, <1>3, <1>5, <1>6 DEF Ticking, SlotsOK
  <1>10. DeferredOK(n)
    BY <1>1, <1>3, <1>5, <1>6, NoTaskNotThread DEF Ticking, SlotsOK, DeferredOK, DefTickStates, DefTickThreadStates
  <1>11. LsrsOK(n)
    BY <1>1, <1>2, <1>3, <1>5, <1>6 DEF Ticking, LsrsOK
  <1>12. TimersOK(n)
    BY <1>1, <1>3, <1>5, <1>6 DEF Ticking, TimersOK, Task
  <1>13. BudgetsOK(n)
    BY <1>1, <1>3, <1>5, <1>6 DEF Ticking, BudgetsOK, Task
  <1>14. RunningPays(n) /\ \A u \in Thread : n.running # u
    BY <1>3, <1>6 DEF RunningPays
  <1>15. Sound(n)
    BY <1>7, <1>8, <1>9, <1>10, <1>11, <1>12, <1>13, <1>14 DEF Sound, Ticking
  <1> QED BY <1>2, <1>6, <1>15 DEF n

\* The task the LSRs had preempted runs again; if it met no tick meanwhile,
\* its deferred tick, on top of the stack, is dropped.
LEMMA RunPendingSound ==
  ASSUME ParamsOK, NEW m, Sound(m), m.running = NoTask, m.pending # NoTask
  PROVE  LET unticked == m.state[m.pending] = "DEFTICK_PENDING"
             left == [m EXCEPT !.pending = NoTask,
                               !.deferred = IF unticked THEN Front(@) ELSE @]
             n == LoadNextState(left, m.pending, "RUNNING")
         IN  /\ Sound(n) /\ n.running \in Thread \cup {Idle} /\ n.pending = NoTask
             /\ n.pendingLsrs = m.pendingLsrs
  <1> DEFINE p == m.pending
             unticked == m.state[p] = "DEFTICK_PENDING"
             left == [m EXCEPT !.pending = NoTask,
                               !.deferred = IF unticked THEN Front(@) ELSE @]
             n == LoadNextState(left, p, "RUNNING")
             d == IF unticked THEN Front(m.deferred) ELSE m.deferred
  <1>1. /\ m \in MachineType /\ Ticking(m) /\ m.deferred \in Seq(Thread \cup {Idle})
        /\ NoTask \notin Task /\ p \in Thread \cup {Idle} /\ p \in Task /\ p \notin Lsr
        /\ Idle \notin Thread /\ m.state[p] \in {"PENDING", "DEFTICK_PENDING"}
    BY Configuration DEF Sound, Ticking, MachineType, SlotsOK, Task
  <1>2. /\ d \in Seq(Thread \cup {Idle}) /\ IsInjective(d)
        /\ ToSet(d) = ToSet(m.deferred) \ {p}
    <2>1. CASE unticked
      <3>1. p \in ToSet(m.deferred) /\ Last(m.deferred) = p /\ IsInjective(m.deferred)
        BY <1>1, <2>1 DEF Ticking, DeferredOK, DefTickStates
      <3>2. m.deferred # <<>>
        BY <3>1, EmptyStack
      <3> QED BY <1>1, <2>1, <3>1, <3>2, PopFromStack
    <2>2. CASE ~unticked
      BY <1>1, <2>2 DEF Ticking, DeferredOK, DefTickStates, DefTickThreadStates
    <2> QED BY <2>1, <2>2
  <1>3. m.state \in [Task -> States] /\ "RUNNING" \in States
    BY <1>1 DEF MachineType, States, ThreadStates
  <1>4. n = [m EXCEPT !.state[p] = "RUNNING", !.running = p, !.pending = NoTask, !.deferred = d]
    BY <1>1 DEF LoadNextState, DefTickThreadStates, MachineType
  <1> HIDE DEF n, d, p
  <1>5. /\ n.state = [m.state EXCEPT ![p] = "RUNNING"] /\ n.running = p /\ n.pending = NoTask
        /\ n.deferred = d /\ n.pendingLsrs = m.pendingLsrs /\ n.lsrs = m.lsrs
        /\ n.currentBudget = m.currentBudget /\ n.replenishIn = m.replenishIn
        /\ n.sleepIn = m.sleepIn /\ n.sleepTicks = m.sleepTicks
    BY <1>1, <1>4 DEF MachineType
  <1>6. n \in MachineType
    BY <1>1, <1>2, <1>3, <1>4 DEF MachineType
  <1>7. StatesOK(n)
    BY <1>1, <1>3, <1>5 DEF Ticking, StatesOK, Task, ThreadStates, IdleStates
  <1>8. SlotsOK(n)
    <2>1. \A t \in Task : m.state[t] # "RUNNING"
      BY <1>1 DEF Ticking, SlotsOK
    <2>2. \A t \in Task : m.state[t] \in {"PENDING", "DEFTICK_PENDING"} => t = p
      BY <1>1 DEF Ticking, SlotsOK, p
    <2> QED BY <1>1, <1>3, <1>5, <2>1, <2>2 DEF SlotsOK
  <1>9. DeferredOK(n)
    BY <1>1, <1>2, <1>3, <1>5 DEF Ticking, DeferredOK, DefTickStates, DefTickThreadStates
  <1>10. LsrsOK(n)
    BY <1>1, <1>3, <1>5 DEF Ticking, LsrsOK
  <1>11. TimersOK(n)
    BY <1>1, <1>3, <1>5 DEF Ticking, TimersOK, Task
  <1>12. BudgetsOK(n)
    BY <1>1, <1>3, <1>5 DEF Ticking, BudgetsOK, DefTickStates, DefTickThreadStates, Task
  <1>13. \A u \in Thread : n.running = u => n.currentBudget[u] > 0
    BY <1>1, <1>5 DEF Ticking, BudgetsOK, DefTickStates
  <1>14. RunningPays(n)
    BY <1>6, <1>13 DEF RunningPays, MachineType
  <1>15. Sound(n)
    BY <1>6, <1>7, <1>8, <1>9, <1>10, <1>11, <1>12, <1>13, <1>14 DEF Sound, Ticking
  <1> QED BY <1>1, <1>5, <1>15 DEF n, p

-----------------------------------------------------------------------------
(* The rescheduling point and kTickReschedule.                             *)

\* Whoever must or may be replaced is, and the core is never left empty.
LEMMA ReschedulingPointSound ==
  ASSUME ParamsOK, NEW m, Ticking(m), m.running # NoTask,
         NEW ticked, NEW n \in ReschedulingPoint(m, ticked)
  PROVE  /\ Sound(n) /\ n.running # NoTask
         /\ (m.running \notin Lsr => m.pendingLsrs = <<>>) => Working(n)
  <1> DEFINE r == m.running
             budgetDone == r \in Thread /\ m.currentBudget[r] = 0
             replaced(s) == RunNext(LoadNextState(LeaveRunning(m), r, s))
  <1>1. /\ r \in Task /\ Idle \notin Thread \cup Lsr /\ Thread \cap Lsr = {}
        /\ m.currentBudget \in [Thread -> Nat]
    BY Configuration DEF Ticking, MachineType, Task
  <1>2. ASSUME r \notin Lsr PROVE m.pending = NoTask
    BY <1>2 DEF Ticking, SlotsOK
  <1> DEFINE Goal == /\ Sound(n) /\ n.running # NoTask
                     /\ (r \notin Lsr => m.pendingLsrs = <<>>) => Working(n)
  <1>3. ASSUME NEW k, Sound(k), k.running = NoTask, k.pending = NoTask,
               k.pendingLsrs = m.pendingLsrs, r \notin Lsr, n \in RunNext(k)
        PROVE  Goal
    BY <1>3, RunNextSound, NoTaskNotThread DEF Working
  <1>4. CASE budgetDone
    <2>1. n \in replaced("THREAD_THROTTLED")
      BY <1>1, <1>4 DEF ReschedulingPoint
    <2> QED BY <1>1, <1>2, <1>3, <1>4, <2>1, LeaveThrottled
  <1>5. ASSUME ~budgetDone, n = m, r = Idle => Ready(m) = {} PROVE Goal
    BY <1>1, <1>5 DEF Sound, Working
  <1>6. ASSUME ~budgetDone, r \notin Lsr, n \in replaced("READY")
        PROVE  Goal
    BY <1>1, <1>2, <1>3, <1>6, LeaveReadyOrFailed
  <1>7. CASE ~budgetDone
    <2>1. CASE r \in Lsr
      BY <1>1, <1>5, <1>7, <2>1 DEF ReschedulingPoint
    <2>2. CASE r = Idle
      BY <1>1, <1>5, <1>6, <1>7, <2>2 DEF ReschedulingPoint
    <2>3. CASE r \in Thread
      BY <1>1, <1>5, <1>6, <1>7, <2>3 DEF ReschedulingPoint
    <2> QED BY <1>1, <2>1, <2>2, <2>3 DEF Task
  <1> QED BY <1>4, <1>7

\* kTickReschedule fills an empty core and lets pending LSRs in, and whatever
\* it chooses leaves every task in the one structure its state names.
LEMMA RescheduleSound ==
  ASSUME ParamsOK, NEW m, Sound(m), m.running = Idle => Ready(m) = {}, NEW n \in Reschedule(m)
  PROVE  Sound(n) /\ n.running # NoTask /\ Working(n)
  <1>1. /\ Ticking(m) /\ m.running \in Task \cup {NoTask}
        /\ Thread \cap Lsr = {} /\ Idle \notin Lsr /\ NoTask \notin Lsr
    BY Configuration, NoTaskNotThread DEF Sound, Ticking, MachineType
  <1>2. CASE m.running \in Lsr \/ (m.running # NoTask /\ m.pendingLsrs = <<>>)
    BY <1>1, <1>2 DEF Reschedule, Working
  <1>3. CASE m.running \notin Lsr /\ m.pendingLsrs # <<>>
    <2> DEFINE preempted == IF m.running = NoTask THEN m
                            ELSE LoadNextState(LeaveRunning(m), m.running, "DEFTICK_PENDING")
    <2>1. n = RunTopLsr(preempted)
      BY <1>1, <1>3 DEF Reschedule
    <2>2. Sound(preempted) /\ preempted.running = NoTask /\ preempted.pendingLsrs = m.pendingLsrs
      <3>1. CASE m.running = NoTask
        BY <3>1
      <3>2. CASE m.running # NoTask
        <4>1. m.running \in Thread \cup {Idle} /\ (m.running \in Thread => m.currentBudget[m.running] > 0)
          BY <1>1, <1>3, <3>2 DEF Sound, Task
        <4> QED BY <1>1, <3>2, <4>1, LeavePreempted
      <3> QED BY <3>1, <3>2
    <2> HIDE DEF preempted
    <2> QED BY <1>1, <1>3, <2>1, <2>2, RunTopLsrSound DEF Working
  <1>4. CASE m.running = NoTask /\ m.pendingLsrs = <<>> /\ m.pending = NoTask
    BY <1>1, <1>4, RunNextSound, NoTaskNotThread DEF Reschedule, Working
  <1>5. CASE m.running = NoTask /\ m.pendingLsrs = <<>> /\ m.pending # NoTask
    <2>1. n \in ResumePending(m)
      BY <1>1, <1>5 DEF Reschedule
    <2> DEFINE unticked == m.state[m.pending] = "DEFTICK_PENDING"
               left == [m EXCEPT !.pending = NoTask,
                                 !.deferred = IF unticked THEN Front(@) ELSE @]
               k == LoadNextState(left, m.pending, "RUNNING")
    <2>2. Sound(k) /\ k.running \in Thread \cup {Idle} /\ k.pendingLsrs = <<>>
      BY <1>5, RunPendingSound
    <2>3. n \in ReschedulingPoint(k, ~unticked)
      BY <2>1 DEF ResumePending
    <2> HIDE DEF k
    <2> QED BY <2>2, <2>3, ReschedulingPointSound, NoTaskNotThread DEF Sound
  <1> QED BY <1>2, <1>3, <1>4, <1>5

\* The current task goes where its kind goes when LSRs come.
LEMMA LsrPushCurrentSound ==
  ASSUME ParamsOK, NEW m, Sound(m)
  PROVE  /\ Sound(LsrPushCurrent(m))
         /\ LsrPushCurrent(m) = m \/ LsrPushCurrent(m).running = NoTask
  <1>1. /\ Ticking(m) /\ m.running \in Task \cup {NoTask}
        /\ Thread \cap Lsr = {} /\ Idle \notin Lsr /\ NoTask \notin Lsr \cup Thread \cup {Idle}
    BY Configuration, NoTaskNotThread DEF Sound, Ticking, MachineType
  <1>2. CASE m.running = NoTask
    BY <1>1, <1>2 DEF LsrPushCurrent
  <1>3. CASE m.running \in Lsr
    <2>1. LsrPushCurrent(m) = LoadNextState(LeaveRunning(m), m.running, "LSR_PENDING")
      BY <1>1, <1>3 DEF LsrPushCurrent
    <2> QED BY <1>1, <1>3, <2>1, LeaveLsrPending
  <1>4. CASE m.running \in Thread \cup {Idle}
    <2>1. LsrPushCurrent(m) = LoadNextState(LeaveRunning(m), m.running, "DEFTICK_PENDING")
      BY <1>1, <1>4 DEF LsrPushCurrent
    <2>2. m.running \in Thread => m.currentBudget[m.running] > 0
      BY DEF Sound
    <2> QED BY <1>1, <1>4, <2>1, <2>2, LeavePreempted
  <1> QED BY <1>1, <1>2, <1>3, <1>4 DEF Task

\* All the LSRs of a vector change stacks, and states, together.
LEMMA LsrPushAllSound ==
  ASSUME ParamsOK, NEW m, Sound(m), NEW v \in Vector
  PROVE  /\ Sound(LsrPushAll(m, v))
         /\ LsrPushAll(m, v).running = m.running /\ Ready(LsrPushAll(m, v)) = Ready(m)
  <1> DEFINE n == LsrPushAll(m, v)
             pushed == ToSet(m.lsrs[v])
             stack == m.pendingLsrs \o Reverse(m.lsrs[v])
  <1>1. /\ m \in MachineType /\ Ticking(m) /\ NoTask \notin Task
        /\ Thread \cap Lsr = {} /\ Idle \notin Lsr /\ Lsr \subseteq Task
        /\ m.pendingLsrs \in Seq(Lsr) /\ m.lsrs \in [Vector -> Seq(Lsr)] /\ m.lsrs[v] \in Seq(Lsr)
    BY Configuration DEF Sound, Ticking, MachineType, Task
  <1>2. /\ IsInjective(m.pendingLsrs) /\ IsInjective(m.lsrs[v])
        /\ \A t \in Task : m.state[t] = "LSR_PENDING" <=> t \in ToSet(m.pendingLsrs)
        /\ \A t \in Task : t \in pushed <=>
             t \in Lsr /\ m.state[t] = "LSR_DORMANT" /\ LsrVector[t] = v
    BY <1>1 DEF Ticking, LsrsOK
  <1>3. ToSet(m.pendingLsrs) \subseteq Lsr /\ pushed \subseteq Lsr
    BY <1>1, ElementOfSeq, LenProperties DEF ToSet
  <1>4. stack \in Seq(Lsr) /\ ToSet(stack) = ToSet(m.pendingLsrs) \cup pushed /\ IsInjective(stack)
    <2>1. ToSet(m.pendingLsrs) \cap pushed = {}
      BY <1>1, <1>2, <1>3
    <2> QED BY <1>1, <1>2, <2>1, MoveStack
  <1>5. n = [m EXCEPT !.lsrs = [m.lsrs EXCEPT ![v] = <<>>], !.pendingLsrs = stack,
              !.state = [t \in Task |-> IF t \in pushed THEN "LSR_PENDING" ELSE m.state[t]]]
    BY <1>1 DEF LsrPushAll, MachineType
  <1>6. m.state \in [Task -> States] /\ "LSR_PENDING" \in States
    BY <1>1 DEF MachineType, States, LsrStates
  <1>7. <<>> \in Seq(Lsr) /\ ToSet(<<>>) = {} /\ IsInjective(<<>>)
    BY EmptyStack
  <1> HIDE DEF n, pushed, stack
  <1>8. /\ n.state = [t \in Task |-> IF t \in pushed THEN "LSR_PENDING" ELSE m.state[t]]
        /\ n.running = m.running /\ n.pendingLsrs = stack
        /\ n.lsrs = [m.lsrs EXCEPT ![v] = <<>>]
        /\ n.pending = m.pending /\ n.deferred = m.deferred
        /\ n.currentBudget = m.currentBudget /\ n.replenishIn = m.replenishIn
        /\ n.sleepIn = m.sleepIn /\ n.sleepTicks = m.sleepTicks
    BY <1>1, <1>5 DEF MachineType
  <1>9. n \in MachineType
    BY <1>1, <1>4, <1>5, <1>6, <1>7 DEF MachineType
  <1>10. StatesOK(n)
    BY <1>1, <1>3, <1>8 DEF Ticking, StatesOK, Task, LsrStates
  <1>11. SlotsOK(n)
    BY <1>1, <1>2, <1>3, <1>8 DEF Ticking, SlotsOK
  <1>12. DeferredOK(n)
    <2>1. m.pending \in Thread \cup {Idle, NoTask}
      BY <1>1 DEF MachineType
    <2> QED BY <1>1, <1>2, <1>3, <1>8, <2>1, NoTaskNotThread DEF Ticking, DeferredOK, DefTickStates, DefTickThreadStates, Task
  <1>13. LsrsOK(n)
    BY <1>1, <1>2, <1>3, <1>4, <1>7, <1>8 DEF Ticking, LsrsOK
  <1>14. TimersOK(n)
    BY <1>1, <1>3, <1>8 DEF Ticking, TimersOK, Task
  <1>15. BudgetsOK(n)
    BY <1>1, <1>3, <1>8 DEF Ticking, BudgetsOK, Task
  <1>16. RunningPays(n) /\ \A u \in Thread : n.running = u => n.currentBudget[u] > 0
    BY <1>8 DEF Sound, Ticking, RunningPays
  <1>17. Sound(n)
    BY <1>9, <1>10, <1>11, <1>12, <1>13, <1>14, <1>15, <1>16 DEF Sound, Ticking
  <1>18. Ready(n) = Ready(m)
    BY <1>1, <1>3, <1>8 DEF Ready, Task
  <1> QED BY <1>8, <1>17, <1>18 DEF n

-----------------------------------------------------------------------------
(* The phases of a tick.                                                   *)

\* Expired periods give budgets back: a throttled thread is ready again and
\* whoever holds the core keeps it.
LEMMA ReplenishmentPeriodSound ==
  ASSUME ParamsOK, NEW m, Ticking(m)
  PROVE  LET n == ReplenishmentPeriod(m)
         IN  /\ Ticking(n) /\ (Sound(m) => Sound(n))
             /\ n.running = m.running /\ n.pendingLsrs = m.pendingLsrs
  <1> DEFINE n == ReplenishmentPeriod(m)
             expired == {t \in Thread : m.replenishIn[t] = 1}
             newReplenish == [t \in Thread |->
               IF t \in expired THEN IF BCS THEN 0 ELSE period[t]
               ELSE IF m.replenishIn[t] = 0 THEN 0 ELSE m.replenishIn[t] - 1]
             newBudget == [t \in Thread |-> IF t \in expired THEN budget[t] ELSE m.currentBudget[t]]
             newState == [t \in Task |->
               IF t \in expired /\ m.state[t] = "THREAD_THROTTLED" THEN "READY" ELSE m.state[t]]
  <1>1. /\ m \in MachineType /\ NoTask \notin Task
        /\ Thread \cap Lsr = {} /\ Idle \notin Lsr /\ Idle \notin Thread /\ Thread \subseteq Task
        /\ m.state \in [Task -> States] /\ "READY" \in States
        /\ m.replenishIn \in [Thread -> Nat] /\ m.currentBudget \in [Thread -> Nat]
        /\ m.pending \in Thread \cup {Idle, NoTask}
    BY Configuration DEF Ticking, MachineType, Task, States, ThreadStates
  <1>2. \A t \in Thread : budget[t] \in Nat \ {0} /\ period[t] \in Nat
    BY Configuration DEF ParamsOK
  <1>3. n = [m EXCEPT !.replenishIn = newReplenish, !.currentBudget = newBudget, !.state = newState]
    <2>1. ASSUME NEW t \in Thread
          PROVE  (CASE t \in expired -> IF BCS THEN 0 ELSE period[t]
                    [] t \notin expired -> IF m.replenishIn[t] = 0 THEN 0 ELSE m.replenishIn[t] - 1)
                 = newReplenish[t]
      OBVIOUS
    <2> QED BY <1>1, <2>1 DEF ReplenishmentPeriod, MachineType
  <1>4. newReplenish \in [Thread -> Nat] /\ newBudget \in [Thread -> Nat] /\ newState \in [Task -> States]
    BY <1>1, <1>2
  <1> HIDE DEF n, newReplenish, newBudget, newState
  <1>5. /\ n.state = newState /\ n.replenishIn = newReplenish /\ n.currentBudget = newBudget
        /\ n.running = m.running /\ n.pending = m.pending /\ n.deferred = m.deferred
        /\ n.pendingLsrs = m.pendingLsrs /\ n.lsrs = m.lsrs
        /\ n.sleepIn = m.sleepIn /\ n.sleepTicks = m.sleepTicks
    BY <1>1, <1>3 DEF MachineType
  <1>6. n \in MachineType
    BY <1>1, <1>3, <1>4 DEF MachineType
  <1>7. \A t \in Task : \/ n.state[t] = m.state[t]
                        \/ t \in Thread /\ m.state[t] = "THREAD_THROTTLED" /\ n.state[t] = "READY"
    BY <1>5 DEF newState
  <1>8. StatesOK(n)
    BY <1>1, <1>7 DEF Ticking, StatesOK, Task, ThreadStates
  <1>9. SlotsOK(n)
    BY <1>1, <1>5, <1>7 DEF Ticking, SlotsOK
  <1>10. DeferredOK(n)
    BY <1>1, <1>5, <1>7, NoTaskNotThread DEF Ticking, DeferredOK, DefTickStates, DefTickThreadStates, Task
  <1>11. LsrsOK(n)
    BY <1>1, <1>5, <1>7 DEF Ticking, LsrsOK
  <1>12. TimersOK(n)
    BY <1>1, <1>2, <1>5 DEF Ticking, TimersOK, newState, newReplenish
  <1>13. BudgetsOK(n)
    BY <1>1, <1>2, <1>5 DEF Ticking, BudgetsOK, TimersOK, newState, newBudget, DefTickStates, DefTickThreadStates
  <1>14. \A t \in Thread : n.currentBudget[t] = 0 => m.currentBudget[t] = 0
    BY <1>1, <1>2, <1>5 DEF newBudget
  <1>15. Ticking(n)
    <2>1. RunningPays(n)
      BY <1>5, <1>14 DEF Ticking, RunningPays
    <2> QED BY <1>6, <1>8, <1>9, <1>10, <1>11, <1>12, <1>13, <2>1 DEF Ticking
  <1>16. Sound(m) => Sound(n)
    <2>1. n.currentBudget \in [Thread -> Nat]
      BY <1>4, <1>5
    <2> QED BY <1>5, <1>14, <1>15, <2>1 DEF Sound
  <1> QED BY <1>5, <1>15, <1>16 DEF n

\* Whoever runs is out of budget afterwards only if it has a period to wait.
LEMMA ChargeRunningTaskSound ==
  ASSUME ParamsOK, NEW m, Sound(m)
  PROVE  LET n == ChargeRunningTask(m)
         IN  Ticking(n) /\ n.running = m.running /\ n.pendingLsrs = m.pendingLsrs
  <1> DEFINE t == m.running
             n == ChargeRunningTask(m)
             left == m.currentBudget[t] - 1
             paid == IF left = 0 /\ ~MustThrottle(m, t) THEN budget[t] ELSE left
  <1>1. CASE t \notin Thread
    BY <1>1 DEF Sound, ChargeRunningTask
  <1>2. CASE t \in Thread
    <2>1. /\ m \in MachineType /\ Ticking(m) /\ t \in Task /\ m.state[t] = "RUNNING"
          /\ m.currentBudget \in [Thread -> Nat] /\ m.currentBudget[t] > 0
      BY <1>2 DEF Sound, Ticking, SlotsOK, MachineType, Task
    <2>2. budget[t] \in Nat \ {0} /\ period[t] \in Nat
      BY <1>2, Configuration DEF ParamsOK
    <2>3. paid \in Nat /\ (paid = 0 => period[t] > 0)
      BY <1>2, <2>1, <2>2 DEF MustThrottle
    <2>4. n = [m EXCEPT !.currentBudget[t] = paid]
      BY <1>2, <2>1 DEF ChargeRunningTask
    <2> HIDE DEF n, paid, t
    <2>5. /\ n.currentBudget = [m.currentBudget EXCEPT ![t] = paid]
          /\ n.state = m.state /\ n.replenishIn = m.replenishIn
          /\ n.running = m.running /\ n.pending = m.pending /\ n.deferred = m.deferred
          /\ n.pendingLsrs = m.pendingLsrs /\ n.lsrs = m.lsrs
          /\ n.sleepIn = m.sleepIn /\ n.sleepTicks = m.sleepTicks
      BY <2>1, <2>4 DEF MachineType
    <2>6. n \in MachineType
      BY <1>2, <2>1, <2>3, <2>4 DEF MachineType
    <2>7. StatesOK(n) /\ SlotsOK(n) /\ DeferredOK(n) /\ LsrsOK(n) /\ TimersOK(n)
      BY <2>1, <2>5 DEF Ticking, StatesOK, SlotsOK, DeferredOK, LsrsOK, TimersOK
    <2>8. BudgetsOK(n)
      BY <2>1, <2>5 DEF Ticking, BudgetsOK, DefTickStates, DefTickThreadStates
    <2>9. RunningPays(n)
      BY <1>2, <2>1, <2>3, <2>5 DEF RunningPays, t
    <2>10. Ticking(n)
      BY <2>6, <2>7, <2>8, <2>9 DEF Ticking
    <2> QED BY <2>5, <2>10 DEF n
  <1> QED BY <1>1, <1>2

\* Every thread that left the core during the tick pays and moves on.
LEMMA HandleDeferredTicksSound ==
  ASSUME ParamsOK, NEW m, Ticking(m)
  PROVE  LET n == HandleDeferredTicks(m)
         IN  /\ Ticking(n) /\ (Sound(m) => Sound(n))
             /\ n.running = m.running /\ n.pendingLsrs = m.pendingLsrs
  <1> DEFINE n == HandleDeferredTicks(m)
             charged == ToSet(m.deferred) \cap Thread
             left(t) == IF m.state[t] = "THREAD_DEFTICK_THROTTLE" THEN 0
                        ELSE m.currentBudget[t] - 1
             sleeps(t) == m.state[t] = "THREAD_DEFTICK_SLEEP"
             throttled == {t \in charged : ~sleeps(t) /\ left(t) = 0 /\ MustThrottle(m, t)}
             newState == [t \in Task |->
               IF t \notin ToSet(m.deferred) THEN m.state[t]
               ELSE IF t \in throttled THEN "THREAD_THROTTLED"
               ELSE IF sleeps(t) THEN "THREAD_SLEEP"
               ELSE IF m.state[t] = "DEFTICK_PENDING" THEN "PENDING" ELSE "READY"]
             newPending == IF m.pending \in throttled THEN NoTask ELSE m.pending
             newBudget == [t \in Thread |->
               IF t \notin charged THEN m.currentBudget[t]
               ELSE IF left(t) = 0 /\ ~sleeps(t) /\ t \notin throttled THEN budget[t] ELSE left(t)]
             newSleep == [t \in Thread |->
               IF t \in charged /\ sleeps(t) THEN m.sleepTicks[t] ELSE m.sleepIn[t]]
             newReplenish == [t \in Thread |->
               IF BCS /\ t \in throttled THEN period[t] ELSE m.replenishIn[t]]
  <1>1. /\ m \in MachineType /\ NoTask \notin Task /\ NoTask \notin Thread /\ NoTask # Idle
        /\ Thread \cap Lsr = {} /\ Idle \notin Lsr /\ Idle \notin Thread
        /\ Thread \subseteq Task /\ Lsr \subseteq Task /\ Idle \in Task
        /\ m.state \in [Task -> States] /\ m.deferred \in Seq(Thread \cup {Idle})
        /\ m.replenishIn \in [Thread -> Nat] /\ m.currentBudget \in [Thread -> Nat]
        /\ m.sleepIn \in [Thread -> Nat] /\ m.sleepTicks \in [Thread -> Nat]
        /\ m.pending \in Thread \cup {Idle, NoTask}
    BY Configuration, NoTaskNotThread DEF Ticking, MachineType, Task
  <1>2. \A t \in Thread : budget[t] \in Nat \ {0} /\ period[t] \in Nat
    BY Configuration DEF ParamsOK
  <1>3. \A t \in Task : t \in ToSet(m.deferred) <=> m.state[t] \in DefTickStates
    BY DEF Ticking, DeferredOK
  <1>4. \A t \in charged : /\ m.state[t] \in DefTickStates /\ m.currentBudget[t] > 0 /\ left(t) \in Nat
                           /\ t \in throttled => period[t] > 0 /\ left(t) = 0
    BY <1>1, <1>3 DEF Ticking, BudgetsOK, MustThrottle
  <1>5. ToSet(m.deferred) \subseteq Thread \cup {Idle}
    BY <1>1, ElementOfSeq, LenProperties DEF ToSet
  <1>6. /\ Idle \in ToSet(m.deferred) => m.state[Idle] = "DEFTICK_PENDING"
        /\ \A l \in Lsr : l \notin ToSet(m.deferred)
    BY <1>1, <1>3, <1>5 DEF Ticking, StatesOK, IdleStates, DefTickStates, DefTickThreadStates
  <1>7. n = [m EXCEPT !.deferred = <<>>, !.state = newState, !.pending = newPending,
                      !.currentBudget = newBudget, !.sleepIn = newSleep, !.replenishIn = newReplenish]
    <2> DEFINE next(t) == CASE t \in throttled -> "THREAD_THROTTLED"
                   [] t \notin throttled /\ sleeps(t) -> "THREAD_SLEEP"
                   [] t \notin throttled /\ m.state[t] = "DEFTICK_PENDING" -> "PENDING"
                   [] t \notin throttled /\ m.state[t] \in
                        {"THREAD_DEFTICK_YIELD", "THREAD_DEFTICK_THROTTLE"} -> "READY"
               sourceState == [t \in Task |-> IF t \in ToSet(m.deferred) THEN next(t) ELSE m.state[t]]
               sourceBudget == [t \in Thread |->
            CASE t \notin charged -> m.currentBudget[t]
              [] t \in charged /\ (left(t) > 0 \/ sleeps(t) \/ t \in throttled) -> left(t)
              [] t \in charged /\ left(t) = 0 /\ ~sleeps(t) /\ t \notin throttled -> budget[t]]
    <2>1. n = [m EXCEPT !.deferred = <<>>, !.state = sourceState, !.pending = newPending,
                        !.currentBudget = sourceBudget, !.sleepIn = newSleep,
                        !.replenishIn = newReplenish]
      BY Zenon DEF HandleDeferredTicks
    <2> HIDE DEF n, throttled, left, charged
    <2>2. sourceState = newState
      BY <1>3 DEF DefTickStates, DefTickThreadStates
    <2>3. sourceBudget = newBudget
      BY <1>1, <1>4
    <2> HIDE DEF newState, newBudget, newSleep, newReplenish, newPending, sourceState, sourceBudget
    <2> QED BY <2>1, <2>2, <2>3, Zenon
  <1>8. /\ newState \in [Task -> States] /\ newPending \in Thread \cup {Idle, NoTask}
        /\ newBudget \in [Thread -> Nat] /\ newSleep \in [Thread -> Nat]
        /\ newReplenish \in [Thread -> Nat]
    <2>1. {"THREAD_THROTTLED", "THREAD_SLEEP", "PENDING", "READY"} \subseteq States
      BY DEF States, ThreadStates, DefTickStates
    <2> HIDE DEF throttled, left, charged
    <2> QED BY <1>1, <1>2, <1>4, <2>1
  <1> HIDE DEF n, newState, newBudget, newSleep, newReplenish, newPending
  <1>9. /\ n.state = newState /\ n.currentBudget = newBudget /\ n.replenishIn = newReplenish
        /\ n.sleepIn = newSleep /\ n.pending = newPending /\ n.deferred = <<>>
        /\ n.running = m.running /\ n.pendingLsrs = m.pendingLsrs /\ n.lsrs = m.lsrs
        /\ n.sleepTicks = m.sleepTicks
    BY <1>1, <1>7 DEF MachineType
  <1>10. <<>> \in Seq(Thread \cup {Idle}) /\ ToSet(<<>>) = {} /\ IsInjective(<<>>)
    BY EmptyStack
  <1>11. n \in MachineType
    BY <1>1, <1>7, <1>8, <1>10 DEF MachineType
  <1> HIDE DEF left, charged, throttled
  <1>12. /\ \A t \in Task : t \notin ToSet(m.deferred) => n.state[t] = m.state[t]
         /\ \A t \in charged :
              n.state[t] = IF t \in throttled THEN "THREAD_THROTTLED"
                           ELSE IF sleeps(t) THEN "THREAD_SLEEP"
                           ELSE IF m.state[t] = "DEFTICK_PENDING" THEN "PENDING" ELSE "READY"
         /\ Idle \in ToSet(m.deferred) => n.state[Idle] = "PENDING"
    BY <1>1, <1>6, <1>9 DEF newState, charged, throttled
  <1>13. \A t \in Thread : t \in charged <=> t \in ToSet(m.deferred)
    BY DEF charged
  <1>14. throttled \subseteq charged /\ charged \subseteq Thread
    BY DEF charged, throttled
  <1>15. \A t \in Task : t \in ToSet(m.deferred) =>
           /\ n.state[t] \in {"THREAD_THROTTLED", "THREAD_SLEEP", "PENDING", "READY"}
           /\ n.state[t] = "PENDING" <=> m.state[t] = "DEFTICK_PENDING" /\ t \notin throttled
    BY <1>1, <1>5, <1>6, <1>12, <1>13, <1>14
  <1>16. StatesOK(n)
    BY <1>1, <1>6, <1>12, <1>15 DEF Ticking, StatesOK, ThreadStates, DefTickStates, IdleStates
  <1>17. SlotsOK(n)
    <2>1. \A t \in Task : n.state[t] = "RUNNING" <=> m.state[t] = "RUNNING"
      BY <1>3, <1>12, <1>15 DEF DefTickStates, DefTickThreadStates
    <2>2. \A t \in Task : n.state[t] \in {"PENDING", "DEFTICK_PENDING"}
                            <=> m.state[t] \in {"PENDING", "DEFTICK_PENDING"} /\ t \notin throttled
      BY <1>3, <1>12, <1>13, <1>14, <1>15 DEF DefTickStates, DefTickThreadStates
    <2>3. \A t \in Task : m.state[t] \in {"PENDING", "DEFTICK_PENDING"} <=> m.pending = t
      BY DEF Ticking, SlotsOK
    <2>4. \A t \in Task : n.pending = t <=> m.pending = t /\ t \notin throttled
      BY <1>1, <1>9 DEF newPending
    <2>5. n.pending # NoTask => m.pending # NoTask
      BY <1>9 DEF newPending
    <2> QED BY <1>9, <2>1, <2>2, <2>3, <2>4, <2>5 DEF Ticking, SlotsOK
  <1>18. DeferredOK(n)
    <2>1. \A t \in Task : n.state[t] \notin DefTickStates
      BY <1>3, <1>12, <1>15 DEF DefTickStates, DefTickThreadStates
    <2> QED BY <1>1, <1>8, <1>9, <1>10, <2>1 DEF DeferredOK, DefTickStates, Task
  <1>19. LsrsOK(n)
    <2>1. \A t \in Task : \A s \in {"LSR_PENDING", "LSR_DORMANT"} : n.state[t] = s <=> m.state[t] = s
      BY <1>3, <1>12, <1>15 DEF DefTickStates, DefTickThreadStates
    <2> QED BY <1>9, <2>1 DEF Ticking, LsrsOK
  <1>20. TimersOK(n)
    <2>1. ASSUME NEW t \in Thread, t \notin charged
          PROVE  /\ n.state[t] = m.state[t] /\ n.sleepIn[t] = m.sleepIn[t]
                 /\ n.replenishIn[t] = m.replenishIn[t]
      BY <1>1, <1>9, <1>12, <1>13, <1>14, <2>1 DEF newSleep, newReplenish
    <2>2. ASSUME NEW t \in Thread, t \in charged
          PROVE  /\ n.state[t] = "THREAD_SLEEP" <=> n.sleepIn[t] > 0
                 /\ n.replenishIn[t] > 0 <=>
                      IF BCS THEN n.state[t] = "THREAD_THROTTLED" ELSE period[t] > 0
                 /\ n.state[t] \in {"THREAD_DEFTICK_SLEEP", "THREAD_SLEEP"} => m.sleepTicks[t] > 0
      <3>1. /\ m.state[t] \in DefTickStates /\ ~(m.sleepIn[t] > 0)
            /\ m.replenishIn[t] > 0 <=> ~BCS /\ period[t] > 0
            /\ sleeps(t) => m.sleepTicks[t] > 0
        BY <1>1, <1>3, <1>13, <2>2, Configuration DEF Ticking, TimersOK, DefTickStates, DefTickThreadStates
      <3>2. t \in throttled => period[t] > 0 /\ ~sleeps(t)
        BY <1>4 DEF throttled
      <3>3. /\ n.sleepIn[t] = IF sleeps(t) THEN m.sleepTicks[t] ELSE m.sleepIn[t]
            /\ n.replenishIn[t] = IF BCS /\ t \in throttled THEN period[t] ELSE m.replenishIn[t]
        BY <1>9, <2>2 DEF newSleep, newReplenish
      <3> QED BY <1>12, <2>2, <3>1, <3>2, <3>3, Configuration
    <2> QED BY <1>9, <2>1, <2>2 DEF Ticking, TimersOK
  <1>21. BudgetsOK(n)
    BY <1>1, <1>2, <1>3, <1>4, <1>9, <1>12, <1>13, <1>14
       DEF Ticking, BudgetsOK, newBudget, DefTickStates, DefTickThreadStates
  <1>22. \A t \in Thread : m.running = t => n.currentBudget[t] = m.currentBudget[t]
    BY <1>1, <1>3, <1>9, <1>13 DEF Ticking, SlotsOK, newBudget, DefTickStates, DefTickThreadStates
  <1>23. Ticking(n)
    <2>1. RunningPays(n)
      BY <1>9, <1>22 DEF Ticking, RunningPays
    <2> QED BY <1>11, <1>16, <1>17, <1>18, <1>19, <1>20, <1>21, <2>1 DEF Ticking
  <1>24. Sound(m) => Sound(n)
    BY <1>9, <1>22, <1>23 DEF Sound
  <1> QED BY <1>9, <1>23, <1>24 DEF n

\* Whoever slept long enough wakes up, ready or still owing its period.
LEMMA SleepPeriodSound ==
  ASSUME ParamsOK, NEW m, Ticking(m)
  PROVE  LET n == SleepPeriod(m)
         IN  Ticking(n) /\ n.running = m.running /\ n.pendingLsrs = m.pendingLsrs
  <1> DEFINE n == SleepPeriod(m)
             woken == {t \in Thread : m.sleepIn[t] = 1}
             sleptThrough(t) == IF BCS THEN m.sleepTicks[t] > period[t] ELSE period[t] = 0
             refilled == {t \in woken : m.currentBudget[t] = 0 /\ sleptThrough(t)}
             throttled == {t \in woken \ refilled : m.currentBudget[t] = 0}
             newSleep == [t \in Thread |-> IF m.sleepIn[t] = 0 THEN 0 ELSE m.sleepIn[t] - 1]
             newBudget == [t \in Thread |-> IF t \in refilled THEN budget[t] ELSE m.currentBudget[t]]
             newState == [t \in Task |->
               IF t \notin woken THEN m.state[t]
               ELSE IF t \in throttled THEN "THREAD_THROTTLED" ELSE "READY"]
             newReplenish == [t \in Thread |->
               IF BCS /\ t \in throttled THEN period[t] - (m.sleepTicks[t] - 1) ELSE m.replenishIn[t]]
  <1>1. /\ m \in MachineType /\ NoTask \notin Task
        /\ Thread \cap Lsr = {} /\ Idle \notin Lsr /\ Idle \notin Thread /\ Thread \subseteq Task
        /\ m.state \in [Task -> States] /\ {"READY", "THREAD_THROTTLED"} \subseteq States
        /\ m.replenishIn \in [Thread -> Nat] /\ m.currentBudget \in [Thread -> Nat]
        /\ m.sleepIn \in [Thread -> Nat] /\ m.sleepTicks \in [Thread -> Nat]
        /\ m.pending \in Thread \cup {Idle, NoTask}
    BY Configuration DEF Ticking, MachineType, Task, States, ThreadStates
  <1>2. \A t \in Thread : budget[t] \in Nat \ {0} /\ period[t] \in Nat
    BY Configuration DEF ParamsOK
  <1>3. n = [m EXCEPT !.sleepIn = newSleep, !.currentBudget = newBudget, !.state = newState,
                      !.replenishIn = newReplenish]
    <2> DEFINE sourceState == [t \in Task |-> CASE t \notin woken -> m.state[t]
                                                [] t \in throttled -> "THREAD_THROTTLED"
                                                [] t \in woken \ throttled -> "READY"]
    <2>1. n = [m EXCEPT !.sleepIn = newSleep, !.currentBudget = newBudget, !.state = sourceState,
                        !.replenishIn = newReplenish]
      BY Zenon DEF SleepPeriod
    <2> HIDE DEF n
    <2>2. throttled \subseteq woken
      OBVIOUS
    <2> HIDE DEF woken, throttled
    <2>3. sourceState = newState
      BY <2>2
    <2> HIDE DEF newSleep, newBudget, newState, newReplenish, sourceState
    <2> QED BY <2>1, <2>3, Zenon
  <1>4. \A t \in Thread : t \in throttled =>
          /\ m.currentBudget[t] = 0 /\ period[t] > 0
          /\ BCS => period[t] - (m.sleepTicks[t] - 1) \in Nat \ {0}
    <2> SUFFICES ASSUME NEW t \in Thread, t \in throttled
                 PROVE  /\ m.currentBudget[t] = 0 /\ period[t] > 0
                        /\ BCS => period[t] - (m.sleepTicks[t] - 1) \in Nat \ {0}
      OBVIOUS
    <2>1. /\ m.sleepIn[t] = 1 /\ m.currentBudget[t] = 0 /\ ~sleptThrough(t)
          /\ m.sleepTicks[t] \in Nat /\ period[t] \in Nat
      BY <1>1, <1>2
    <2>2. m.sleepTicks[t] > 0
      BY <2>1 DEF Ticking, TimersOK
    <2> QED BY <2>1, <2>2
  <1>5. /\ \A t \in Thread : t \in woken => m.state[t] = "THREAD_SLEEP" /\ m.sleepIn[t] = 1
        /\ throttled \subseteq woken /\ woken \subseteq Thread
        /\ \A t \in woken : t \notin throttled => t \in refilled \/ m.currentBudget[t] > 0
        /\ \A t \in throttled : t \notin refilled
    BY <1>1 DEF Ticking, TimersOK
  <1> HIDE DEF refilled, throttled
  <1>6. /\ newSleep \in [Thread -> Nat] /\ newBudget \in [Thread -> Nat]
        /\ newState \in [Task -> States] /\ newReplenish \in [Thread -> Nat]
    BY <1>1, <1>2, <1>4
  <1> HIDE DEF n, newSleep, newBudget, newState, newReplenish
  <1>7. /\ n.state = newState /\ n.currentBudget = newBudget /\ n.replenishIn = newReplenish
        /\ n.sleepIn = newSleep /\ n.pending = m.pending /\ n.deferred = m.deferred
        /\ n.running = m.running /\ n.pendingLsrs = m.pendingLsrs /\ n.lsrs = m.lsrs
        /\ n.sleepTicks = m.sleepTicks
    BY <1>1, <1>3 DEF MachineType
  <1>8. n \in MachineType
    BY <1>1, <1>3, <1>6 DEF MachineType
  <1>9. \A t \in Task :
          n.state[t] = IF t \notin woken THEN m.state[t]
                       ELSE IF t \in throttled THEN "THREAD_THROTTLED" ELSE "READY"
    BY <1>7 DEF newState
  <1>10. \A t \in Task : \/ n.state[t] = m.state[t]
                         \/ /\ t \in Thread /\ m.state[t] = "THREAD_SLEEP"
                            /\ n.state[t] \in {"READY", "THREAD_THROTTLED"}
    BY <1>5, <1>9
  <1>11. StatesOK(n)
    BY <1>1, <1>10 DEF Ticking, StatesOK, Task, ThreadStates
  <1>12. SlotsOK(n)
    BY <1>1, <1>7, <1>10 DEF Ticking, SlotsOK
  <1>13. DeferredOK(n)
    BY <1>1, <1>7, <1>10, NoTaskNotThread DEF Ticking, DeferredOK, DefTickStates, DefTickThreadStates, Task
  <1>14. LsrsOK(n)
    BY <1>1, <1>7, <1>10 DEF Ticking, LsrsOK
  <1>15. TimersOK(n)
    BY <1>1, <1>2, <1>4, <1>5, <1>7, <1>9, Configuration DEF Ticking, TimersOK, newSleep, newReplenish
  <1>16. BudgetsOK(n)
    <2> SUFFICES ASSUME NEW t \in Thread
                 PROVE  /\ n.state[t] \in DefTickStates \cup {"READY", "PENDING"} => n.currentBudget[t] > 0
                        /\ n.state[t] = "THREAD_THROTTLED" => n.currentBudget[t] = 0 /\ period[t] > 0
      BY DEF BudgetsOK
    <2>1. CASE t \in throttled
      BY <1>1, <1>4, <1>5, <1>7, <1>9, <2>1 DEF newBudget, DefTickStates, DefTickThreadStates
    <2>2. CASE t \in woken /\ t \notin throttled
      <3>1. n.currentBudget[t] > 0
        BY <1>2, <1>5, <1>7, <2>2 DEF newBudget
      <3> QED BY <1>1, <1>9, <2>2, <3>1
    <2>3. CASE t \notin woken
      <3>1. n.state[t] = m.state[t] /\ (n.currentBudget[t] = m.currentBudget[t])
        <4>1. t \notin refilled
          BY <2>3 DEF refilled
        <4> QED BY <1>1, <1>7, <1>9, <2>3, <4>1 DEF newBudget
      <3> QED BY <3>1 DEF Ticking, BudgetsOK
    <2> QED BY <1>5, <2>1, <2>2, <2>3
  <1>17. RunningPays(n)
    BY <1>1, <1>2, <1>7 DEF Ticking, RunningPays, newBudget
  <1>18. Ticking(n)
    BY <1>8, <1>11, <1>12, <1>13, <1>14, <1>15, <1>16, <1>17 DEF Ticking
  <1> QED BY <1>7, <1>18 DEF n

\* The four phases of a tick, in the order of either algorithm, leave the LSRs
\* alone.
LEMMA TickPhasesSound ==
  ASSUME ParamsOK, NEW m, Sound(m), NEW a \in TickPhases(m)
  PROVE  Ticking(a) /\ a.running = m.running /\ a.pendingLsrs = m.pendingLsrs
  <1>1. CASE BCS
    <2> DEFINE b == ReplenishmentPeriod(m)
               c == HandleDeferredTicks(b)
               d == ChargeRunningTask(c)
    <2>1. a = SleepPeriod(d)
      BY <1>1 DEF TickPhases
    <2>2. Sound(b) /\ b.running = m.running /\ b.pendingLsrs = m.pendingLsrs
      BY ReplenishmentPeriodSound DEF Sound
    <2> HIDE DEF b
    <2>3. Sound(c) /\ c.running = m.running /\ c.pendingLsrs = m.pendingLsrs
      BY <2>2, HandleDeferredTicksSound DEF Sound
    <2> HIDE DEF c
    <2>4. Ticking(d) /\ d.running = m.running /\ d.pendingLsrs = m.pendingLsrs
      BY <2>3, ChargeRunningTaskSound
    <2> HIDE DEF d
    <2> QED BY <2>1, <2>4, SleepPeriodSound
  <1>2. CASE ~BCS
    <2> DEFINE b == HandleDeferredTicks(m)
               c == ChargeRunningTask(b)
               d == ReplenishmentPeriod(c)
    <2>1. a = SleepPeriod(d)
      BY <1>2 DEF TickPhases
    <2>2. Sound(b) /\ b.running = m.running /\ b.pendingLsrs = m.pendingLsrs
      BY HandleDeferredTicksSound DEF Sound
    <2> HIDE DEF b
    <2>3. Ticking(c) /\ c.running = m.running /\ c.pendingLsrs = m.pendingLsrs
      BY <2>2, ChargeRunningTaskSound
    <2> HIDE DEF c
    <2>4. Ticking(d) /\ d.running = m.running /\ d.pendingLsrs = m.pendingLsrs
      BY <2>3, ReplenishmentPeriodSound
    <2> HIDE DEF d
    <2> QED BY <2>1, <2>4, SleepPeriodSound
  <1> QED BY <1>1, <1>2

\* A whole tick, its phases and then the rescheduling point, leaves a sound
\* machine and the core at work.
LEMMA TickSound ==
  ASSUME ParamsOK, NEW m, Sound(m), Working(m), m.running # NoTask,
         NEW a \in TickPhases(m), NEW n \in ReschedulingPoint(a, TRUE)
  PROVE  Sound(n) /\ Working(n)
  <1>1. Ticking(a) /\ a.running = m.running /\ a.pendingLsrs = m.pendingLsrs
    BY TickPhasesSound
  <1> QED BY <1>1, ReschedulingPointSound DEF Working

-----------------------------------------------------------------------------
(* The specification.                                                      *)

\* The inductive invariant.
IInv == ParamsOK /\ Sound(Machine) /\ Working(Machine)

\* kPluginInit* leaves every thread ready with a full budget, every LSR
\* monitoring its vector, and nothing running.
LEMMA InitSound == Init => IInv
  <1> SUFFICES ASSUME Init PROVE IInv
    OBVIOUS
  <1> DEFINE m == Machine
             onVector(v) == {l \in Lsr : LsrVector[l] = v}
  <1>1. ParamsOK /\ \A t \in Thread : budget[t] \in Nat \ {0} /\ period[t] \in Nat
    BY Configuration DEF Init, ParamsOK
  <1>2. /\ NoTask \notin Task /\ Thread \cap Lsr = {} /\ Idle \notin Lsr /\ Idle \notin Thread
        /\ NoTask \notin Thread /\ NoTask # Idle
        /\ Thread \subseteq Task /\ Lsr \subseteq Task /\ Idle \in Task
    BY Configuration, NoTaskNotThread DEF Task
  <1>3. ASSUME NEW v \in Vector
        PROVE  /\ SetToSeq(onVector(v)) \in Seq(Lsr)
               /\ ToSet(SetToSeq(onVector(v))) = onVector(v)
               /\ IsInjective(SetToSeq(onVector(v)))
    <2>1. IsFiniteSet(onVector(v))
      BY Configuration, FS_Subset
    <2>2. SetToSeq(onVector(v)) \in Seq(onVector(v)) /\ Seq(onVector(v)) \subseteq Seq(Lsr)
      BY <2>1, SetAsStack
    <2> QED BY <2>1, <2>2, SetAsStack
  <1>4. /\ <<>> \in Seq(Thread \cup {Idle}) /\ <<>> \in Seq(Lsr)
        /\ ToSet(<<>>) = {} /\ IsInjective(<<>>)
    BY EmptyStack
  <1>5. /\ m.state = [t \in Task |-> IF t \in Lsr THEN "LSR_DORMANT" ELSE "READY"]
        /\ m.running = NoTask /\ m.pending = NoTask /\ m.deferred = <<>> /\ m.pendingLsrs = <<>>
        /\ m.lsrs = [v \in Vector |-> SetToSeq(onVector(v))]
        /\ m.currentBudget = budget
        /\ m.replenishIn = IF BCS THEN [t \in Thread |-> 0] ELSE period
        /\ m.sleepIn = [t \in Thread |-> 0] /\ m.sleepTicks = [t \in Thread |-> 0]
    BY DEF Init, Machine
  <1>6. m \in MachineType
    <2>1. {"LSR_DORMANT", "READY"} \subseteq States
      BY DEF States, LsrStates, ThreadStates
    <2>2. m.state \in [Task -> States]
      BY <1>5, <2>1
    <2>3. m.lsrs \in [Vector -> Seq(Lsr)]
      BY <1>3, <1>5
    <2>4. /\ m.currentBudget \in [Thread -> Nat] /\ m.replenishIn \in [Thread -> Nat]
          /\ m.sleepIn \in [Thread -> Nat] /\ m.sleepTicks \in [Thread -> Nat]
      BY <1>1, <1>5, Configuration DEF ParamsOK
    <2> QED BY <1>4, <1>5, <2>2, <2>3, <2>4 DEF Machine, MachineType
  <1> HIDE DEF m
  <1>7. \A t \in Task : m.state[t] = IF t \in Lsr THEN "LSR_DORMANT" ELSE "READY"
    BY <1>5
  <1>8. StatesOK(m) /\ SlotsOK(m) /\ DeferredOK(m)
    BY <1>2, <1>4, <1>5, <1>7
       DEF StatesOK, SlotsOK, DeferredOK, ThreadStates, LsrStates, IdleStates, DefTickStates, DefTickThreadStates
  <1>9. LsrsOK(m)
    <2>1. \A t \in Task : m.state[t] = "LSR_PENDING" <=> t \in ToSet(m.pendingLsrs)
      BY <1>4, <1>5, <1>7
    <2>2. ASSUME NEW v \in Vector
          PROVE  /\ IsInjective(m.lsrs[v])
                 /\ \A t \in Task : t \in ToSet(m.lsrs[v]) <=>
                      t \in Lsr /\ m.state[t] = "LSR_DORMANT" /\ LsrVector[t] = v
      <3>1. m.lsrs[v] = SetToSeq(onVector(v))
        BY <1>5
      <3>2. IsInjective(m.lsrs[v]) /\ ToSet(m.lsrs[v]) = onVector(v)
        BY <1>3, <3>1
      <3> QED BY <1>7, <3>2
    <2> QED BY <1>4, <1>5, <2>1, <2>2 DEF LsrsOK
  <1>10. TimersOK(m) /\ BudgetsOK(m) /\ RunningPays(m) /\ \A t \in Thread : m.running # t
    BY <1>1, <1>2, <1>5, <1>7, Configuration
       DEF TimersOK, BudgetsOK, RunningPays, DefTickStates, DefTickThreadStates
  <1>11. Sound(m)
    BY <1>6, <1>8, <1>9, <1>10 DEF Sound, Ticking
  <1>12. Working(m)
    BY <1>2, <1>5 DEF Working
  <1> QED BY <1>1, <1>11, <1>12 DEF IInv, m

\* A step that leaves a sound machine behind preserves the invariant.
LEMMA BecomesSound ==
  ASSUME ParamsOK, NEW n, Sound(n), Working(n), Becomes(n)
  PROVE  IInv'
  <1>1. n \in MachineType /\ Ticking(n)
    BY DEF Sound, Ticking
  <1>2. Machine' = n /\ budget' = budget /\ period' = period /\ algorithm' = algorithm
    BY <1>1 DEF Becomes, Machine, MachineType, params
  <1>3. ParamsOK'
    BY <1>2 DEF ParamsOK
  <1>4. TimersOK(Machine)'
    BY <1>1, <1>2 DEF Ticking, TimersOK
  <1>5. BudgetsOK(Machine)' /\ RunningPays(Machine)'
    BY <1>1, <1>2 DEF Ticking, BudgetsOK, RunningPays
  <1>6. /\ (Machine \in MachineType)' /\ StatesOK(Machine)' /\ SlotsOK(Machine)'
        /\ DeferredOK(Machine)' /\ LsrsOK(Machine)'
    BY <1>1, <1>2 DEF Ticking, StatesOK, SlotsOK, DeferredOK, LsrsOK
  <1>7. (\A t \in Thread : Machine.running = t => Machine.currentBudget[t] > 0)'
    BY <1>2 DEF Sound
  <1>8. Working(Machine)'
    BY <1>2 DEF Working, Ready
  <1> QED BY <1>3, <1>4, <1>5, <1>6, <1>7, <1>8 DEF IInv, Sound, Ticking

\* A running task that leaves in a state its kind may enter leaves a sound
\* machine.
LEMMA LeaveSound ==
  ASSUME ParamsOK, NEW m, Sound(m), NEW t, m.running = t, NEW s,
         \/ /\ t \in Thread /\ s \in DefTickThreadStates
            /\ s = "THREAD_DEFTICK_SLEEP" => m.sleepTicks[t] > 0
         \/ t \in Lsr /\ s = "LSR_DORMANT"
         \/ t \in Thread \cup Lsr /\ s = "FAILURE"
  PROVE  LET k == LoadNextState(LeaveRunning(m), t, s)
         IN  Sound(k) /\ k.running = NoTask
  <1>1. Ticking(m) /\ \A u \in Thread : m.running = u => m.currentBudget[u] > 0
    BY DEF Sound
  <1>2. CASE t \in Thread /\ s \in DefTickThreadStates
    <2>1. s = "THREAD_DEFTICK_SLEEP" => m.sleepTicks[t] > 0
      BY <1>2 DEF DefTickThreadStates
    <2> QED BY <1>1, <1>2, <2>1, LeaveDeferred
  <1>3. CASE t \in Lsr /\ s = "LSR_DORMANT"
    BY <1>1, <1>3, LeaveDormant
  <1>4. CASE t \in Thread \cup Lsr /\ s = "FAILURE"
    <2>1. t \in Task /\ t # Idle
      BY <1>4, Configuration DEF Task
    <2> QED BY <1>1, <1>4, <2>1, LeaveReadyOrFailed
  <1> QED BY <1>2, <1>3, <1>4

\* So is whatever kTickReschedule makes of it.
LEMMA SwitchSound ==
  ASSUME IInv, NEW m, Sound(m), m.running = runningTask, NEW s,
         \/ /\ runningTask \in Thread /\ s \in DefTickThreadStates
            /\ s = "THREAD_DEFTICK_SLEEP" => m.sleepTicks[runningTask] > 0
         \/ runningTask \in Lsr /\ s = "LSR_DORMANT"
         \/ runningTask \in Thread \cup Lsr /\ s = "FAILURE",
         SwitchRunningTask(m, s)
  PROVE  IInv'
  <1> DEFINE k == LoadNextState(LeaveRunning(m), runningTask, s)
  <1>1. ParamsOK
    BY DEF IInv
  <1>2. Sound(k) /\ k.running = NoTask
    BY <1>1, LeaveSound
  <1>3. PICK n \in Reschedule(k) : Becomes(n)
    BY DEF SwitchRunningTask
  <1> HIDE DEF k
  <1>4. Sound(n) /\ Working(n)
    BY <1>1, <1>2, <1>3, RescheduleSound, NoTaskNotThread
  <1> QED BY <1>1, <1>3, <1>4, BecomesSound

\* The length of a sleep is written before the thread leaves.
LEMMA SleepTicksSound ==
  ASSUME NEW m, Sound(m), NEW t \in Thread, m.running = t, NEW ticks \in Nat \ {0}
  PROVE  LET k == [m EXCEPT !.sleepTicks[t] = ticks]
         IN  /\ Sound(k) /\ k.running = t /\ k.sleepTicks[t] > 0
             /\ k.pendingLsrs = m.pendingLsrs
  <1> DEFINE k == [m EXCEPT !.sleepTicks[t] = ticks]
             newTicks == [m.sleepTicks EXCEPT ![t] = ticks]
  <1>1. m \in MachineType
    BY DEF Sound, Ticking
  <1>2. /\ k.sleepTicks = newTicks
        /\ k.state = m.state /\ k.replenishIn = m.replenishIn /\ k.currentBudget = m.currentBudget
        /\ k.running = m.running /\ k.pending = m.pending /\ k.deferred = m.deferred
        /\ k.pendingLsrs = m.pendingLsrs /\ k.lsrs = m.lsrs /\ k.sleepIn = m.sleepIn
    BY <1>1 DEF MachineType
  <1>3. k \in MachineType /\ k.sleepTicks[t] > 0
    <2>1. m.sleepTicks \in [Thread -> Nat]
      BY <1>1 DEF MachineType
    <2>2. newTicks \in [Thread -> Nat] /\ newTicks[t] > 0
      BY <2>1
    <2>3. k = [m EXCEPT !.sleepTicks = newTicks]
      OBVIOUS
    <2> HIDE DEF k, newTicks
    <2> QED BY <1>1, <1>2, <2>2, <2>3 DEF MachineType
  <1>4. TimersOK(k)
    BY <1>1, <1>2 DEF Sound, Ticking, TimersOK, MachineType
  <1> HIDE DEF k
  <1>5. StatesOK(k) /\ SlotsOK(k) /\ DeferredOK(k) /\ LsrsOK(k)
    BY <1>2 DEF Sound, Ticking, StatesOK, SlotsOK, DeferredOK, LsrsOK
  <1>6. BudgetsOK(k) /\ RunningPays(k) /\ \A u \in Thread : k.running = u => k.currentBudget[u] > 0
    BY <1>2 DEF Sound, Ticking, BudgetsOK, RunningPays
  <1>7. Sound(k)
    BY <1>3, <1>4, <1>5, <1>6 DEF Sound, Ticking
  <1> QED BY <1>2, <1>3, <1>7 DEF k

\* Every step of the specification preserves the invariant.
LEMMA NextSound == IInv /\ [Next]_vars => IInv'
  <1> SUFFICES ASSUME IInv, [Next]_vars PROVE IInv'
    OBVIOUS
  <1> DEFINE m == Machine
  <1>1. ParamsOK /\ Sound(m) /\ Working(m) /\ m.running = runningTask /\ Thread \cap Lsr = {}
    BY Configuration DEF IInv, Machine
  <1>2. CASE Handoff
    <2>1. PICK n \in Reschedule(m) : Becomes(n)
      BY <1>2 DEF Handoff
    <2> HIDE DEF m
    <2> QED BY <1>1, <2>1, RescheduleSound, BecomesSound DEF Working
  <1>3. CASE Tick
    <2>1. PICK a \in TickPhases(m) : \E n \in ReschedulingPoint(a, TRUE) : Becomes(n)
      BY <1>3 DEF Tick
    <2>2. PICK n \in ReschedulingPoint(a, TRUE) : Becomes(n)
      BY <2>1
    <2>3. m.running # NoTask
      BY <1>1, <1>3 DEF Tick
    <2> HIDE DEF m
    <2> QED BY <1>1, <2>1, <2>2, <2>3, TickSound, BecomesSound
  <1>4. CASE Yield
    <2> HIDE DEF m
    <2>1. runningTask \in Thread /\ SwitchRunningTask(m, "THREAD_DEFTICK_YIELD")
      BY <1>4 DEF Yield, m
    <2> QED BY <1>1, <2>1, SwitchSound DEF DefTickThreadStates
  <1>5. CASE Throttle
    <2> HIDE DEF m
    <2>1. runningTask \in Thread /\ SwitchRunningTask(m, "THREAD_DEFTICK_THROTTLE")
      BY <1>5 DEF Throttle, m
    <2> QED BY <1>1, <2>1, SwitchSound DEF DefTickThreadStates
  <1>6. ASSUME NEW ticks \in Sleeps, Sleep(ticks) PROVE IInv'
    <2> HIDE DEF m
    <2> DEFINE k == [m EXCEPT !.sleepTicks[runningTask] = ticks]
    <2>1. runningTask \in Thread /\ SwitchRunningTask(k, "THREAD_DEFTICK_SLEEP")
      BY <1>6 DEF Sleep, m
    <2>2. ticks \in Nat \ {0}
      BY Configuration
    <2>3. Sound(k) /\ k.running = runningTask /\ k.sleepTicks[runningTask] > 0
      BY <1>1, <2>1, <2>2, SleepTicksSound
    <2> HIDE DEF k
    <2> QED BY <1>1, <2>1, <2>3, SwitchSound DEF DefTickThreadStates
  <1>7. CASE LsrDone
    <2> HIDE DEF m
    <2>1. runningTask \in Lsr /\ SwitchRunningTask(m, "LSR_DORMANT")
      BY <1>7 DEF LsrDone, m
    <2> QED BY <1>1, <2>1, SwitchSound
  <1>8. CASE Failure
    <2> HIDE DEF m
    <2>1. runningTask \in Thread \cup Lsr /\ SwitchRunningTask(m, "FAILURE")
      BY <1>8 DEF Failure, m
    <2> QED BY <1>1, <2>1, SwitchSound
  <1>9. ASSUME NEW v \in Vector, ExternalInterrupt(v) PROVE IInv'
    <2>1. PICK pushCurrent \in PushCurrents :
            \E n \in Reschedule(LsrPushAll(IF pushCurrent THEN LsrPushCurrent(m) ELSE m, v)) : Becomes(n)
      BY <1>9, Zenon DEF ExternalInterrupt
    <2> DEFINE k == IF pushCurrent THEN LsrPushCurrent(m) ELSE m
    <2>2. Sound(k) /\ (k.running = Idle => Ready(k) = {})
      BY <1>1, LsrPushCurrentSound, NoTaskNotThread DEF Working
    <2>3. PICK n \in Reschedule(LsrPushAll(k, v)) : Becomes(n)
      BY <2>1
    <2> HIDE DEF k
    <2> DEFINE l == LsrPushAll(k, v)
    <2>4. Sound(l) /\ (l.running = Idle => Ready(l) = {})
      BY <1>1, <2>2, LsrPushAllSound
    <2> QED BY <1>1, <2>3, <2>4, RescheduleSound, BecomesSound
  <1>10. CASE UNCHANGED vars
    <2>1. Becomes(m)
      BY <1>10 DEF vars, Becomes, Machine, params
    <2> QED BY <1>1, <2>1, BecomesSound
  <1> QED BY <1>2, <1>3, <1>4, <1>5, <1>6, <1>7, <1>8, <1>9, <1>10 DEF Next

\* The invariant holds in every state of every execution.
THEOREM Invariance == Spec => []IInv
  BY InitSound, NextSound, PTL DEF Spec

\* Every variable keeps its type: in particular no budget or timer of a
\* thread ever wraps below zero, and each kind of task stays in its states.
THEOREM TypeCorrect == Spec => []TypeOK
  <1>1. IInv => TypeOK
    BY DEF IInv, ParamsOK, Sound, Ticking, MachineType, StatesOK, Machine, TypeOK, States
  <1> QED BY <1>1, Invariance, PTL

\* Every task is at all times in the one structure of the machine that its
\* state names, whatever the tasks, the budgets, the policy and the port.
THEOREM PlacementCorrect == Spec => []Placement
  <1>1. IInv => Placement
    <2> SUFFICES ASSUME Sound(Machine) PROVE Placement
      BY DEF IInv
    <2>1. SlotsOK(Machine) /\ DeferredOK(Machine) /\ LsrsOK(Machine) /\ TimersOK(Machine)
      BY DEF Sound, Ticking
    <2> QED BY <2>1 DEF SlotsOK, DeferredOK, LsrsOK, TimersOK, Machine, Placement
  <1> QED BY <1>1, Invariance, PTL

\* None of the K_DYNAMIC_ASSERTs of kTick.c about budgets and the stack of
\* deferred ticks can fail.
THEOREM DynamicAssertsHold == Spec => []DynamicAsserts
  <1>1. IInv => DynamicAsserts
    <2> SUFFICES ASSUME Sound(Machine) PROVE DynamicAsserts
      BY DEF IInv
    <2>1. SlotsOK(Machine) /\ DeferredOK(Machine) /\ BudgetsOK(Machine)
      BY DEF Sound, Ticking
    <2> QED BY <2>1 DEF Sound, Ticking, SlotsOK, DeferredOK, BudgetsOK, Machine, DynamicAsserts, Task
  <1> QED BY <1>1, Invariance, PTL

\* The core never serves a thread, or idles, while an LSR waits, and never
\* idles while a thread is ready.
THEOREM WorkConservingHolds == Spec => []WorkConserving
  <1>1. IInv => WorkConserving
    BY NoTaskNotThread DEF IInv, Sound, Ticking, SlotsOK, Working, Machine, Ready, WorkConserving
  <1> QED BY <1>1, Invariance, PTL

-----------------------------------------------------------------------------
(* LSRs nest.  The stack of pending LSRs rises in priority from bottom to   *)
(* top, and the running LSR is on top of it, for any LSRs, vectors and      *)
(* priorities of a port that pushes the running task aside before the new   *)
(* LSRs.                                                                    *)

\* LSR k may wait below LSR l.
Below(k, l) ==
  VectorPrio[LsrVector[k]] < VectorPrio[LsrVector[l]] \/ LsrVector[k] = LsrVector[l]

AllBelow(s, l) == \A i \in DOMAIN s : Below(s[i], l)

Rises(s) == \A i, j \in DOMAIN s : i < j => Below(s[i], s[j])

Nested(m) == Rises(m.pendingLsrs) /\ (m.running \in Lsr => AllBelow(m.pendingLsrs, m.running))

\* No LSR waits: nothing to order.
LEMMA EmptyNested ==
  ASSUME NEW m, m.pendingLsrs = <<>>
  PROVE  Nested(m)
  BY EmptySeq DEF Nested, Rises, AllBelow

\* A pop leaves a rising stack, all of it below what was popped.
LEMMA PopRises ==
  ASSUME NEW s \in Seq(Lsr), s # <<>>, Rises(s)
  PROVE  Rises(Front(s)) /\ AllBelow(Front(s), Last(s))
  <1>1. Len(s) \in Nat \ {0} /\ DOMAIN s = 1..Len(s) /\ \A i \in 1..Len(s) : s[i] \in Lsr
    BY EmptySeq, LenProperties, ElementOfSeq
  <1>2. /\ Front(s) \in Seq(Lsr) /\ Len(Front(s)) = Len(s) - 1
        /\ \A i \in 1..Len(s) - 1 : Front(s)[i] = s[i]
    BY <1>1, SubSeqProperties DEF Front
  <1>3. DOMAIN Front(s) = 1..Len(s) - 1
    BY <1>2, LenProperties
  <1> QED BY <1>1, <1>2, <1>3 DEF Rises, AllBelow, Last

\* So does the push of an LSR that all of the stack may wait below.
LEMMA PushRises ==
  ASSUME NEW s \in Seq(Lsr), NEW l \in Lsr, Rises(s), AllBelow(s, l)
  PROVE  Rises(Append(s, l))
  <1> DEFINE a == Append(s, l)
  <1>1. /\ Len(s) \in Nat /\ DOMAIN s = 1..Len(s) /\ DOMAIN a = 1..Len(s) + 1
        /\ \A i \in 1..Len(s) : a[i] = s[i]
        /\ a[Len(s) + 1] = l
    BY AppendProperties, LenProperties
  <1> HIDE DEF a
  <1>2. Rises(a)
    BY <1>1 DEF Rises, AllBelow
  <1> QED BY <1>2 DEF a

\* So does the release of all the LSRs of a vector above the stack, and one of
\* them is then on top.
LEMMA ReleaseRises ==
  ASSUME NEW s \in Seq(Lsr), NEW r \in Seq(Lsr), NEW v \in Vector, Rises(s),
         \A i \in DOMAIN s : VectorPrio[LsrVector[s[i]]] < VectorPrio[v],
         \A i \in DOMAIN r : LsrVector[r[i]] = v
  PROVE  /\ Rises(s \o Reverse(r))
         /\ r # <<>> => s \o Reverse(r) # <<>> /\ LsrVector[Last(s \o Reverse(r))] = v
  <1> DEFINE c == s \o Reverse(r)
  <1>1. /\ Len(s) \in Nat /\ DOMAIN s = 1..Len(s)
        /\ Len(r) \in Nat /\ DOMAIN r = 1..Len(r) /\ \A i \in 1..Len(r) : r[i] \in Lsr
    BY LenProperties, ElementOfSeq
  <1>2. /\ Reverse(r) \in Seq(Lsr) /\ Len(Reverse(r)) = Len(r)
        /\ \A i \in 1..Len(r) : Reverse(r)[i] = r[Len(r) - i + 1]
    <2>1. Reverse(r) \in [1..Len(r) -> Lsr]
      BY <1>1 DEF Reverse
    <2> QED BY <1>1, <2>1, LenProperties DEF Reverse
  <1>3. ASSUME NEW i \in 1..Len(r) PROVE LsrVector[Reverse(r)[i]] = v
    <2>1. Len(r) - i + 1 \in 1..Len(r)
      BY <1>1
    <2> QED BY <1>1, <1>2, <2>1
  <1>4. /\ c \in Seq(Lsr) /\ Len(c) = Len(s) + Len(r)
        /\ \A i \in 1..Len(s) + Len(r) : c[i] = IF i <= Len(s) THEN s[i] ELSE Reverse(r)[i - Len(s)]
    <2> DEFINE w == Reverse(r)
    <2>1. w \in Seq(Lsr) /\ Len(w) = Len(r)
      BY <1>2
    <2> HIDE DEF w
    <2>2. /\ s \o w \in Seq(Lsr) /\ Len(s \o w) = Len(s) + Len(w)
          /\ \A i \in 1..Len(s) + Len(w) : (s \o w)[i] = IF i <= Len(s) THEN s[i] ELSE w[i - Len(s)]
      BY <2>1, ConcatProperties
    <2> QED BY <2>1, <2>2 DEF w
  <1>5. DOMAIN c = 1..Len(s) + Len(r)
    BY <1>4, LenProperties
  <1> HIDE DEF c
  <1>6. ASSUME NEW i \in 1..Len(s) + Len(r)
        PROVE  IF i <= Len(s) THEN c[i] = s[i] /\ VectorPrio[LsrVector[c[i]]] < VectorPrio[v]
               ELSE LsrVector[c[i]] = v
    <2>1. CASE i <= Len(s)
      BY <1>1, <1>4, <2>1
    <2>2. CASE ~(i <= Len(s))
      <3>1. i - Len(s) \in 1..Len(r)
        BY <1>1, <2>2
      <3> QED BY <1>3, <1>4, <2>2, <3>1
    <2> QED BY <2>1, <2>2
  <1>7. Rises(c)
    <2> SUFFICES ASSUME NEW i \in 1..Len(s) + Len(r), NEW j \in 1..Len(s) + Len(r), i < j
                 PROVE  Below(c[i], c[j])
      BY <1>5 DEF Rises
    <2>1. CASE j <= Len(s)
      BY <1>1, <1>6, <2>1 DEF Rises
    <2>2. CASE ~(j <= Len(s))
      BY <1>1, <1>6, <2>2 DEF Below
    <2> QED BY <2>1, <2>2
  <1>8. ASSUME r # <<>> PROVE c # <<>> /\ LsrVector[Last(c)] = v
    <2>1. Len(r) > 0
      BY <1>1, <1>8, EmptySeq
    <2>2. Len(c) \in 1..Len(s) + Len(r) /\ ~(Len(c) <= Len(s))
      BY <1>1, <1>4, <2>1
    <2>3. c # <<>>
      BY <1>4, <1>1, <2>1, EmptySeq
    <2> QED BY <1>6, <2>2, <2>3 DEF Last
  <1> QED BY <1>7, <1>8 DEF c

-----------------------------------------------------------------------------

\* The rescheduling point does not touch a running LSR, and brings none.
LEMMA ReschedulingPointLsrs ==
  ASSUME ParamsOK, NEW m, Ticking(m), m.running # NoTask,
         NEW ticked, NEW n \in ReschedulingPoint(m, ticked)
  PROVE  IF m.running \in Lsr THEN n = m ELSE n.running \notin Lsr
  <1> DEFINE r == m.running
             replaced(s) == RunNext(LoadNextState(LeaveRunning(m), r, s))
  <1>1. /\ r \in Task /\ Idle \notin Thread \cup Lsr /\ Thread \cap Lsr = {}
        /\ m.currentBudget \in [Thread -> Nat]
    BY Configuration DEF Ticking, MachineType, Task
  <1>2. CASE r \in Lsr
    BY <1>1, <1>2 DEF ReschedulingPoint
  <1>3. CASE r \notin Lsr
    <2>1. m.pending = NoTask
      BY <1>3 DEF Ticking, SlotsOK
    <2>2. \/ n = m
          \/ n \in replaced("READY") /\ (r \in Thread => m.currentBudget[r] > 0)
          \/ n \in replaced("THREAD_THROTTLED") /\ r \in Thread /\ m.currentBudget[r] = 0
      <3>1. CASE r = Idle
        BY <1>1, <3>1 DEF ReschedulingPoint
      <3>2. CASE r \in Thread
        BY <1>1, <3>2 DEF ReschedulingPoint
      <3> QED BY <1>1, <1>3, <3>1, <3>2 DEF Task
    <2>3. ASSUME NEW k, Sound(k), k.running = NoTask, k.pending = NoTask, n \in RunNext(k)
          PROVE  n.running \notin Lsr
      BY <1>1, <2>3, RunNextSound
    <2>4. CASE n = m
      BY <1>3, <2>4
    <2>5. CASE n \in replaced("READY") /\ (r \in Thread => m.currentBudget[r] > 0)
      BY <1>1, <1>3, <2>1, <2>3, <2>5, LeaveReadyOrFailed
    <2>6. CASE n \in replaced("THREAD_THROTTLED") /\ r \in Thread /\ m.currentBudget[r] = 0
      BY <1>1, <2>1, <2>3, <2>6, LeaveThrottled
    <2> QED BY <1>3, <2>2, <2>4, <2>5, <2>6
  <1> QED BY <1>2, <1>3

\* kTickReschedule runs the top of the stack, over the rest of it.
LEMMA RescheduleNested ==
  ASSUME ParamsOK, NEW m, Sound(m), m.running = Idle => Ready(m) = {},
         m.running \notin Lsr, Rises(m.pendingLsrs), NEW n \in Reschedule(m)
  PROVE  /\ Nested(n) /\ ToSet(n.pendingLsrs) \subseteq ToSet(m.pendingLsrs)
         /\ m.pendingLsrs # <<>> => n.running = Last(m.pendingLsrs)
  <1>1. /\ Ticking(m) /\ m.running \in Task \cup {NoTask} /\ m.pendingLsrs \in Seq(Lsr)
        /\ Thread \cap Lsr = {} /\ Idle \notin Lsr /\ NoTask \notin Lsr
        /\ IsInjective(m.pendingLsrs)
    BY Configuration, NoTaskNotThread DEF Sound, Ticking, MachineType, LsrsOK
  <1>2. CASE m.pendingLsrs # <<>>
    <2> DEFINE preempted == IF m.running = NoTask THEN m
                            ELSE LoadNextState(LeaveRunning(m), m.running, "DEFTICK_PENDING")
               l == Last(m.pendingLsrs)
    <2>1. n = RunTopLsr(preempted)
      BY <1>1, <1>2 DEF Reschedule
    <2>2. Sound(preempted) /\ preempted.running = NoTask /\ preempted.pendingLsrs = m.pendingLsrs
      <3>1. CASE m.running = NoTask
        BY <3>1
      <3>2. CASE m.running # NoTask
        <4>1. m.running \in Thread \cup {Idle} /\ (m.running \in Thread => m.currentBudget[m.running] > 0)
          BY <1>1, <3>2 DEF Sound, Task
        <4> QED BY <1>1, <3>2, <4>1, LeavePreempted
      <3> QED BY <3>1, <3>2
    <2> HIDE DEF preempted
    <2>3. /\ Rises(Front(m.pendingLsrs)) /\ AllBelow(Front(m.pendingLsrs), l) /\ l \in Lsr
          /\ ToSet(Front(m.pendingLsrs)) \subseteq ToSet(m.pendingLsrs) /\ l \in ToSet(m.pendingLsrs)
      BY <1>1, <1>2, PopRises, PopFromStack
    <2>4. preempted \in MachineType /\ preempted.state[l] = "LSR_PENDING"
      <3>1. l \in Task
        BY <2>3 DEF Task
      <3> QED BY <2>2, <2>3, <3>1 DEF Sound, Ticking, LsrsOK
    <2>5. n.running = l /\ n.pendingLsrs = Front(m.pendingLsrs)
      BY <2>1, <2>2, <2>4 DEF RunTopLsr, LoadNextState, DefTickThreadStates, MachineType
    <2> QED BY <1>2, <2>3, <2>5 DEF Nested
  <1>3. CASE m.pendingLsrs = <<>>
    <2>1. n.running \notin Lsr
      <3>1. CASE m.running # NoTask
        BY <1>1, <1>3, <3>1 DEF Reschedule
      <3>2. CASE m.running = NoTask /\ m.pending = NoTask
        BY <1>1, <1>3, <3>2, RunNextSound DEF Reschedule
      <3>3. CASE m.running = NoTask /\ m.pending # NoTask
        <4>1. n \in ResumePending(m)
          BY <1>1, <1>3, <3>3 DEF Reschedule
        <4> DEFINE unticked == m.state[m.pending] = "DEFTICK_PENDING"
                   left == [m EXCEPT !.pending = NoTask,
                                     !.deferred = IF unticked THEN Front(@) ELSE @]
                   k == LoadNextState(left, m.pending, "RUNNING")
        <4>2. Sound(k) /\ k.running \in Thread \cup {Idle}
          BY <3>3, RunPendingSound
        <4>3. n \in ReschedulingPoint(k, ~unticked)
          BY <4>1 DEF ResumePending
        <4> HIDE DEF k
        <4> QED BY <1>1, <4>2, <4>3, ReschedulingPointLsrs, NoTaskNotThread DEF Sound
      <3> QED BY <3>1, <3>2, <3>3
    <2>2. n.running # NoTask /\ Working(n)
      BY RescheduleSound
    <2>3. n.pendingLsrs = <<>>
      BY <2>1, <2>2 DEF Working
    <2> QED BY <1>3, <2>3, EmptyNested
  <1> QED BY <1>2, <1>3

\* A tick leaves the LSRs as they are.
LEMMA TickLsrs ==
  ASSUME ParamsOK, NEW m, Sound(m), Working(m), m.running # NoTask, Nested(m),
         NEW a \in TickPhases(m), NEW n \in ReschedulingPoint(a, TRUE)
  PROVE  Nested(n) /\ (m.running \in Lsr => n.running = m.running)
  <1>1. Ticking(a) /\ a.running = m.running /\ a.pendingLsrs = m.pendingLsrs
    BY TickPhasesSound
  <1>2. CASE m.running \in Lsr
    <2>1. n = a
      BY <1>1, <1>2, ReschedulingPointLsrs
    <2> QED BY <1>1, <2>1 DEF Nested
  <1>3. CASE m.running \notin Lsr
    <2>1. n.running \notin Lsr
      BY <1>1, <1>3, ReschedulingPointLsrs
    <2>2. n.running # NoTask /\ Working(n)
      BY <1>1, <1>3, ReschedulingPointSound DEF Working
    <2>3. n.pendingLsrs = <<>>
      BY <2>1, <2>2 DEF Working
    <2> QED BY <1>3, <2>3, EmptyNested
  <1> QED BY <1>2, <1>3

\* A task that leaves the core leaves the stack, and itself off it.
LEMMA SwitchLsrs ==
  ASSUME ParamsOK, NEW m, Sound(m), Rises(m.pendingLsrs), NEW t, m.running = t, NEW s,
         \/ /\ t \in Thread /\ s \in DefTickThreadStates
            /\ s = "THREAD_DEFTICK_SLEEP" => m.sleepTicks[t] > 0
         \/ t \in Lsr /\ s = "LSR_DORMANT"
         \/ t \in Thread \cup Lsr /\ s = "FAILURE",
         NEW n \in Reschedule(LoadNextState(LeaveRunning(m), t, s))
  PROVE  Nested(n) /\ (t \in Lsr => n.state[t] # "LSR_PENDING")
  <1> DEFINE k == LoadNextState(LeaveRunning(m), t, s)
  <1>1. Sound(k) /\ k.running = NoTask /\ NoTask \notin Lsr /\ NoTask # Idle
    BY LeaveSound, NoTaskNotThread
  <1>2. /\ m \in MachineType /\ t \in Task /\ m.state[t] = "RUNNING" /\ Lsr \subseteq Task
        /\ Thread \cap Lsr = {}
    BY Configuration DEF Sound, Ticking, SlotsOK, Task
  <1>3. k.pendingLsrs = m.pendingLsrs
    BY <1>2 DEF LoadNextState, LeaveRunning, DefTickThreadStates, MachineType
  <1>4. t \notin ToSet(m.pendingLsrs)
    BY <1>2 DEF Sound, Ticking, LsrsOK
  <1> HIDE DEF k
  <1>5. Nested(n) /\ ToSet(n.pendingLsrs) \subseteq ToSet(k.pendingLsrs)
    BY <1>1, <1>3, RescheduleNested DEF k
  <1>6. Sound(n)
    BY <1>1, RescheduleSound DEF k
  <1>7. n.state[t] # "LSR_PENDING"
    BY <1>2, <1>3, <1>4, <1>5, <1>6 DEF Sound, Ticking, LsrsOK
  <1> QED BY <1>5, <1>7

\* A vector is delivered above every LSR that runs or waits, so its LSRs go on
\* top of them all.
LEMMA InterruptLsrs ==
  ASSUME ParamsOK, NEW m, Sound(m), Working(m), m.running # NoTask, Nested(m),
         NEW v \in Vector, m.lsrs[v] # <<>>,
         \A l \in Lsr : Activated(m.state[l]) => VectorPrio[LsrVector[l]] < VectorPrio[v],
         NEW n \in Reschedule(LsrPushAll(LsrPushCurrent(m), v))
  PROVE  Nested(n) /\ n.running \in Lsr /\ LsrVector[n.running] = v
  <1> DEFINE k == LsrPushCurrent(m)
             p == LsrPushAll(k, v)
  <1>1. /\ m \in MachineType /\ m.pendingLsrs \in Seq(Lsr) /\ m.lsrs \in [Vector -> Seq(Lsr)]
        /\ m.running \in Task /\ m.state[m.running] = "RUNNING" /\ Lsr \subseteq Task
        /\ Thread \cap Lsr = {} /\ Idle \notin Lsr \cup Thread /\ NoTask \notin Lsr /\ NoTask # Idle
    BY Configuration, NoTaskNotThread DEF Sound, Ticking, MachineType, SlotsOK, Task
  <1>2. Sound(k) /\ k.running = NoTask
    <2>1. LsrPushCurrent(m).running = NoTask
      <3>1. CASE m.running \in Lsr
        BY <1>1, <3>1
          DEF LsrPushCurrent, LoadNextState, LeaveRunning, DefTickThreadStates, MachineType
      <3>2. CASE m.running \in Thread \cup {Idle}
        BY <1>1, <3>2
          DEF LsrPushCurrent, LoadNextState, LeaveRunning, DefTickThreadStates, MachineType
      <3> QED BY <1>1, <3>1, <3>2 DEF Task
    <2> QED BY <2>1, LsrPushCurrentSound
  <1>3. /\ k.pendingLsrs = IF m.running \in Lsr THEN Append(m.pendingLsrs, m.running) ELSE m.pendingLsrs
        /\ k.lsrs = m.lsrs
    <2>1. CASE m.running \in Lsr
      BY <1>1, <2>1
          DEF LsrPushCurrent, LoadNextState, LeaveRunning, DefTickThreadStates, MachineType
    <2>2. CASE m.running \in Thread \cup {Idle}
      BY <1>1, <2>2
          DEF LsrPushCurrent, LoadNextState, LeaveRunning, DefTickThreadStates, MachineType
    <2> QED BY <1>1, <2>1, <2>2 DEF Task
  <1> HIDE DEF k
  <1>4. k.pendingLsrs \in Seq(Lsr) /\ Rises(k.pendingLsrs)
    <2>1. CASE m.running \in Lsr
      BY <1>1, <1>3, <2>1, PushRises, PushOnStack DEF Nested
    <2>2. CASE m.running \notin Lsr
      BY <1>1, <1>3, <2>2 DEF Nested
    <2> QED BY <2>1, <2>2
  <1>5. \A l \in Lsr : l \in ToSet(k.pendingLsrs) => VectorPrio[LsrVector[l]] < VectorPrio[v]
    <2> SUFFICES ASSUME NEW l \in Lsr, l \in ToSet(k.pendingLsrs)
                 PROVE  Activated(m.state[l])
      OBVIOUS
    <2>1. l \in ToSet(m.pendingLsrs) \/ l = m.running
      BY <1>1, <1>3, PushOnStack
    <2>2. m.state[l] \in {"LSR_PENDING", "RUNNING"}
      BY <1>1, <2>1 DEF Sound, Ticking, LsrsOK
    <2> QED BY <2>2 DEF Activated, InactiveStates
  <1>6. \A i \in DOMAIN k.pendingLsrs :
          k.pendingLsrs[i] \in Lsr /\ k.pendingLsrs[i] \in ToSet(k.pendingLsrs)
    BY <1>4, ElementOfSeq, LenProperties DEF ToSet
  <1>7. m.lsrs[v] \in Seq(Lsr) /\ \A i \in DOMAIN m.lsrs[v] : LsrVector[m.lsrs[v][i]] = v
    <2>1. \A i \in DOMAIN m.lsrs[v] : m.lsrs[v][i] \in Lsr /\ m.lsrs[v][i] \in ToSet(m.lsrs[v])
      BY <1>1, ElementOfSeq, LenProperties DEF ToSet
    <2> QED BY <1>1, <2>1 DEF Sound, Ticking, LsrsOK
  <1>8. p.pendingLsrs = k.pendingLsrs \o Reverse(m.lsrs[v])
    BY <1>2, <1>3 DEF LsrPushAll, Sound, Ticking, MachineType
  <1>9. /\ Rises(p.pendingLsrs) /\ p.pendingLsrs # <<>>
        /\ LsrVector[Last(p.pendingLsrs)] = v
    BY <1>4, <1>5, <1>6, <1>7, <1>8, ReleaseRises
  <1>10. Sound(p) /\ p.running = NoTask
    BY <1>2, LsrPushAllSound
  <1> HIDE DEF p
  <1>11. Nested(n) /\ n.running = Last(p.pendingLsrs)
    BY <1>1, <1>9, <1>10, RescheduleNested DEF p, k
  <1>12. Last(p.pendingLsrs) \in Lsr
    BY <1>9, <1>10, PopFromStack DEF Sound, Ticking, MachineType
  <1> QED BY <1>9, <1>11, <1>12

-----------------------------------------------------------------------------
(* The specification.                                                      *)

\* The inductive invariant.
NestedInv == IInv /\ Nested(Machine)

\* What a step does to the LSRs: it leaves them nested, and one that was running
\* waits only for one of a higher priority.
LsrStep ==
  /\ Nested(Machine)'
  /\ \A l \in Lsr : runningTask = l /\ state'[l] = "LSR_PENDING" =>
       runningTask' \in Lsr /\ VectorPrio[LsrVector[runningTask']] > VectorPrio[LsrVector[l]]

\* A machine that a step leaves becomes the next state of the variables.
LEMMA BecomesNested ==
  ASSUME NEW n, Becomes(n), Nested(n)
  PROVE  Nested(Machine)'
  <1>1. (Machine.pendingLsrs)' = n.pendingLsrs /\ (Machine.running)' = n.running
    BY DEF Becomes, Machine
  <1> QED BY <1>1 DEF Nested, Rises, AllBelow

\* The task that gives up the core, of either kind.
LEMMA SwitchStep ==
  ASSUME NestedInv, NEW m, Sound(m), m.running = runningTask,
         m.pendingLsrs = Machine.pendingLsrs, NEW s,
         \/ /\ runningTask \in Thread /\ s \in DefTickThreadStates
            /\ s = "THREAD_DEFTICK_SLEEP" => m.sleepTicks[runningTask] > 0
         \/ runningTask \in Lsr /\ s = "LSR_DORMANT"
         \/ runningTask \in Thread \cup Lsr /\ s = "FAILURE",
         SwitchRunningTask(m, s)
  PROVE  LsrStep
  <1>1. PICK n \in Reschedule(LoadNextState(LeaveRunning(m), runningTask, s)) : Becomes(n)
    BY DEF SwitchRunningTask
  <1>2. ParamsOK /\ Rises(m.pendingLsrs)
    BY DEF NestedInv, IInv, Nested
  <1>3. Nested(n) /\ (runningTask \in Lsr => n.state[runningTask] # "LSR_PENDING")
    BY <1>1, <1>2, SwitchLsrs
  <1>4. state' = n.state
    BY <1>1 DEF Becomes
  <1> QED BY <1>1, <1>3, <1>4, BecomesNested DEF LsrStep

\* On a port that pushes the running task, every step keeps the LSRs nested and
\* lets only higher ones in.
LEMMA NextLsrs ==
  ASSUME PushCurrents = {TRUE}, NestedInv, [Next]_vars
  PROVE  Nested(Machine)' /\ (UNCHANGED vars \/ LsrStep)
  <1> DEFINE m == Machine
  <1>1. /\ ParamsOK /\ Sound(m) /\ Working(m) /\ Nested(m)
        /\ m.running = runningTask /\ m.state = state /\ m.lsrs = lsrs
        /\ Thread \cap Lsr = {} /\ NoTask \notin Lsr /\ Lsr \subseteq Task
    BY Configuration, NoTaskNotThread DEF NestedInv, IInv, Machine, Task
  <1>2. CASE Handoff
    <2>1. PICK n \in Reschedule(m) : Becomes(n)
      BY <1>2 DEF Handoff
    <2>2. runningTask = NoTask /\ NoTask # Idle
      BY <1>2, NoTaskNotThread DEF Handoff
    <2> HIDE DEF m
    <2>3. Nested(n)
      BY <1>1, <2>1, <2>2, RescheduleNested DEF Nested
    <2> QED BY <1>1, <2>1, <2>2, <2>3, BecomesNested DEF LsrStep
  <1>3. CASE Tick
    <2>1. PICK a \in TickPhases(m) : \E n \in ReschedulingPoint(a, TRUE) : Becomes(n)
      BY <1>3 DEF Tick
    <2>2. PICK n \in ReschedulingPoint(a, TRUE) : Becomes(n)
      BY <2>1
    <2>3. m.running # NoTask
      BY <1>1, <1>3 DEF Tick
    <2> HIDE DEF m
    <2>4. Nested(n) /\ (runningTask \in Lsr => n.running = runningTask)
      BY <1>1, <2>1, <2>2, <2>3, TickLsrs
    <2>5. Sound(n)
      BY <1>1, <2>1, <2>2, <2>3, TickSound
    <2>6. runningTask \in Lsr => state'[runningTask] = "RUNNING"
      BY <1>1, <2>2, <2>4, <2>5 DEF Sound, Ticking, SlotsOK, Becomes
    <2> QED BY <2>2, <2>4, <2>6, BecomesNested DEF LsrStep
  <1>4. ASSUME Yield PROVE LsrStep
    <2>1. /\ runningTask \in Thread /\ SwitchRunningTask(m, "THREAD_DEFTICK_YIELD")
          /\ m.pendingLsrs = Machine.pendingLsrs
      BY <1>4 DEF Yield
    <2> HIDE DEF m
    <2> QED BY <1>1, <2>1, SwitchStep DEF DefTickThreadStates
  <1>5. ASSUME Throttle PROVE LsrStep
    <2>1. /\ runningTask \in Thread /\ SwitchRunningTask(m, "THREAD_DEFTICK_THROTTLE")
          /\ m.pendingLsrs = Machine.pendingLsrs
      BY <1>5 DEF Throttle
    <2> HIDE DEF m
    <2> QED BY <1>1, <2>1, SwitchStep DEF DefTickThreadStates
  <1>6. ASSUME NEW ticks \in Sleeps, Sleep(ticks) PROVE LsrStep
    <2> DEFINE k == [m EXCEPT !.sleepTicks[runningTask] = ticks]
    <2>1. runningTask \in Thread /\ SwitchRunningTask(k, "THREAD_DEFTICK_SLEEP")
      BY <1>6 DEF Sleep
    <2>2. ticks \in Nat \ {0}
      BY Configuration
    <2> HIDE DEF m
    <2>3. /\ Sound(k) /\ k.running = runningTask /\ k.sleepTicks[runningTask] > 0
          /\ k.pendingLsrs = m.pendingLsrs
      BY <1>1, <2>1, <2>2, SleepTicksSound
    <2> HIDE DEF k
    <2>4. k.pendingLsrs = Machine.pendingLsrs
      BY <2>3 DEF m
    <2> QED BY <2>1, <2>3, <2>4, SwitchStep DEF DefTickThreadStates
  <1>7. ASSUME LsrDone PROVE LsrStep
    <2>1. /\ runningTask \in Lsr /\ SwitchRunningTask(m, "LSR_DORMANT")
          /\ m.pendingLsrs = Machine.pendingLsrs
      BY <1>7 DEF LsrDone
    <2> HIDE DEF m
    <2> QED BY <1>1, <2>1, SwitchStep
  <1>8. ASSUME Failure PROVE LsrStep
    <2>1. /\ runningTask \in Thread \cup Lsr /\ SwitchRunningTask(m, "FAILURE")
          /\ m.pendingLsrs = Machine.pendingLsrs
      BY <1>8 DEF Failure
    <2> HIDE DEF m
    <2> QED BY <1>1, <2>1, SwitchStep
  <1>9. ASSUME NEW v \in Vector, ExternalInterrupt(v) PROVE LsrStep
    <2>1. PICK n \in Reschedule(LsrPushAll(LsrPushCurrent(m), v)) : Becomes(n)
      BY <1>9, PushCurrents = {TRUE} DEF ExternalInterrupt
    <2>2. /\ m.running # NoTask /\ m.lsrs[v] # <<>>
          /\ \A l \in Lsr : Activated(m.state[l]) => VectorPrio[LsrVector[l]] < VectorPrio[v]
      <3>1. runningTask # NoTask /\ lsrs[v] # <<>> /\ Deliverable(v)
        BY <1>9 DEF ExternalInterrupt
      <3>2. ASSUME NEW l \in Lsr PROVE TaskPrio(l) = VectorPrio[LsrVector[l]]
        <4>1. l \notin Thread /\ l # Idle
          BY Configuration
        <4> QED BY <4>1 DEF TaskPrio
      <3>3. \A l \in Lsr : Activated(state[l]) => VectorPrio[LsrVector[l]] < VectorPrio[v]
        BY <1>1, <3>1, <3>2 DEF Deliverable
      <3> HIDE DEF m
      <3> QED BY <1>1, <3>1, <3>3
    <2> HIDE DEF m
    <2>3. Nested(n) /\ n.running \in Lsr /\ LsrVector[n.running] = v
      BY <1>1, <2>1, <2>2, InterruptLsrs
    <2>4. \A l \in Lsr : runningTask = l => VectorPrio[LsrVector[l]] < VectorPrio[v]
      BY <1>1, <2>2 DEF Sound, Ticking, SlotsOK, Activated, InactiveStates
    <2>5. VectorPrio \in [Vector -> 2..14] /\ LsrVector \in [Lsr -> Vector]
      BY Configuration
    <2>6. runningTask' = n.running
      BY <2>1 DEF Becomes
    <2> QED BY <2>1, <2>3, <2>4, <2>5, <2>6, BecomesNested DEF LsrStep
  <1>10. CASE UNCHANGED vars
    <2>1. Nested(m)'
      BY <1>1, <1>10 DEF vars, Machine, Nested, Rises, AllBelow
    <2> QED BY <1>10, <2>1
  <1> QED BY <1>2, <1>3, <1>4, <1>5, <1>6, <1>7, <1>8, <1>9, <1>10 DEF Next, LsrStep

\* No LSR waits at first.
LEMMA InitNested == Init => NestedInv
  BY InitSound, EmptyNested DEF Init, NestedInv, Machine

\* On a port that pushes the running task, kTickReschedule may pop the stack of
\* pending LSRs without searching: its top is always of the highest priority.
THEOREM Nesting == ASSUME PushCurrents = {TRUE} PROVE Spec => []LsrNesting
  <1>1. NestedInv /\ [Next]_vars => NestedInv'
    BY NextSound, NextLsrs DEF NestedInv
  <1>2. NestedInv => LsrNesting
    BY DEF NestedInv, Nested, Rises, AllBelow, Below, Machine, LsrNesting
  <1> QED BY <1>1, <1>2, InitNested, PTL DEF Spec

\* On such a port a running LSR is pushed aside only for one of a higher
\* priority, which runs in its place.
THEOREM Preemption == ASSUME PushCurrents = {TRUE} PROVE Spec => LsrPreemption
  <1> DEFINE Preempts == \A l \in Lsr : runningTask = l /\ state'[l] = "LSR_PENDING" =>
       runningTask' \in Lsr /\ VectorPrio[LsrVector[runningTask']] > VectorPrio[LsrVector[l]]
  <1>1. NestedInv /\ [Next]_vars => NestedInv'
    BY NextSound, NextLsrs DEF NestedInv
  <1>2. NestedInv /\ [Next]_vars => [Preempts]_vars
    BY NextLsrs DEF LsrStep
  <1> QED BY <1>1, <1>2, InitNested, PTL DEF Spec, LsrPreemption
=============================================================================
