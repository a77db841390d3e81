---------------------------- MODULE KTickHistory ----------------------------
(***************************************************************************)
(* What the tick machine promises over time.  KTick is observed by         *)
(* history variables that read nothing but which thread held the core,     *)
(* how many ticks went by and when a budget ran out or came back; none of  *)
(* them restricts a step.                                                  *)
(***************************************************************************)
EXTENDS KTick

VARIABLES
  ran,     \* threads that held the core since the last tick
  window,  \* BCS: thread -> for its last ticks, did it hold the core in it?
  used,    \* DS: thread -> ticks it held the core in since its replenishment
  slept,   \* thread -> ticks since it asked to sleep
  cool     \* BCS: thread -> ticks since its budget ran out

histVars == <<ran, window, used, slept, cool>>
allVars == <<vars, histVars>>

Asleep(t) == state[t] \in {"THREAD_DEFTICK_SLEEP", "THREAD_SLEEP"}

\* the length of the window of bcs.md
WindowLength(t) == IF budget[t] <= period[t] THEN period[t] ELSE budget[t] + period[t]

LastOf(s, n) == IF Len(s) <= n THEN s ELSE SubSeq(s, Len(s) - n + 1, Len(s))

HInit ==
  /\ Init
  /\ ran = {}
  /\ window = [t \in Thread |-> <<>>]
  /\ used = [t \in Thread |-> 0]
  /\ slept = [t \in Thread |-> 0]
  /\ cool = [t \in Thread |-> 0]

ObserveTick ==
  /\ ran' = {runningTask'} \cap Thread
  /\ window' = [t \in Thread |->
       IF BCS /\ period[t] > 0 THEN LastOf(Append(window[t], t \in ran), WindowLength(t))
       ELSE <<>>]
  /\ used' = [t \in Thread |->
       CASE BCS \/ period[t] = 0 \/ replenishIn[t] = 1 -> 0
         [] ~BCS /\ period[t] > 0 /\ replenishIn[t] # 1 /\ t \in ran -> used[t] + 1
         [] ~BCS /\ period[t] > 0 /\ replenishIn[t] # 1 /\ t \notin ran -> used[t]]
  /\ slept' = [t \in Thread |-> IF Asleep(t) /\ Asleep(t)' THEN slept[t] + 1 ELSE 0]
  /\ cool' = [t \in Thread |->
       IF BCS /\ currentBudget[t] = 0 /\ currentBudget'[t] = 0 THEN cool[t] + 1 ELSE 0]

ObserveOther ==
  /\ ran' = ran \cup ({runningTask'} \cap Thread)
  /\ UNCHANGED <<window, used, slept, cool>>

HNext ==
  \/ Tick /\ ObserveTick
  \/ Handoff /\ ObserveOther
  \/ Yield /\ ObserveOther
  \/ Throttle /\ ObserveOther
  \/ \E n \in Sleeps : Sleep(n) /\ ObserveOther
  \/ LsrDone /\ ObserveOther
  \/ Failure /\ ObserveOther
  \/ \E v \in Vector : ExternalInterrupt(v) /\ ObserveOther

HSpec == HInit /\ [][HNext]_allVars

-----------------------------------------------------------------------------

\* No free ticks and no double charge: the threads the next tick charges are
\* exactly those that held the core since the last one, whatever yields,
\* sleeps and LSRs came in between (the comment in kTickHandleDeferredTicks).
ChargedIffRan ==
  \A t \in Thread : state[t] # "FAILURE" =>
    (t \in ran <=> state[t] \in DefTickStates \cup {"RUNNING"})

\* The invariant of bcs.md: with budget Q and period P a thread holds the core
\* in at most Q ticks of any P consecutive ones (of any Q + P when Q > P).
BcsWindow ==
  BCS => \A t \in Thread :
    Cardinality({i \in DOMAIN window[t] : window[t][i]}) <= budget[t]

\* A deferrable server never holds the core in more than budget ticks between
\* two replenishments (ds.md).
DsBudget ==
  ~BCS => \A t \in Thread : period[t] > 0 =>
    used[t] + (IF t \in ran THEN 1 ELSE 0) <= budget[t]

\* A sleep of n ticks ends with the n-th tick, the one under way when the
\* thread called counted as the first (syscalls.md).
SleepExact ==
  [][\A t \in Thread : state'[t] # "FAILURE" /\ Asleep(t) /\ ~Asleep(t)' =>
       slept[t] + 1 = sleepTicks[t]]_allVars

\* Under BCS a budget that ran out comes back exactly one period later, time
\* asleep included; only a longer sleep delays it, to the moment it ends.
BcsCooldown ==
  [][BCS => \A t \in Thread : currentBudget[t] = 0 /\ currentBudget'[t] > 0 =>
       \/ cool[t] + 1 = period[t]
       \/ cool[t] + 1 > period[t] /\ state[t] = "THREAD_SLEEP"]_allVars
=============================================================================
