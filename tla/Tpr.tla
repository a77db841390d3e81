-------------------------------- MODULE Tpr --------------------------------
(***************************************************************************)
(* The task priority of one core (arch/x86_64/ia32e/src/ia32eCpu.c): the   *)
(* scheduler reports every activation and response of a task, the core     *)
(* counts the activated tasks per priority and keeps its TPR register at   *)
(* the highest priority with a task, so that no interrupt at or below it   *)
(* is delivered.  Activations before the handoff, of tasks the plugins     *)
(* create, are only counted; the handoff loads the register.               *)
(***************************************************************************)
EXTENDS Naturals, FiniteSets

CONSTANTS Task,     \* threads and LSRs of the core
          MaxPrio,  \* ARRAY_LEN(cpu->tprCount)
          TaskTpr   \* task -> its priority

ASSUME Priorities ==
  /\ MaxPrio \in Nat \ {0}
  /\ TaskTpr \in [Task -> 1..MaxPrio]
  /\ IsFiniteSet(Task)

VARIABLES
  activated,    \* tasks reported active
  tprCount,     \* cpu->tprCount, indexed from 1
  tpr,          \* cpu->tpr, and CR8 from the handoff on
  gPluginsDone,
  handoffDone   \* cpu->handoffDone

vars == <<activated, tprCount, tpr, gPluginsDone, handoffDone>>

Prio == 1..MaxPrio

\* ia32eReloadTpr: from the top down to the first priority with a task, else 1
ReloadTpr(count, p) ==
  \/ p \in Prio /\ count[p] > 0 /\ \A q \in Prio : q > p => count[q] = 0
  \/ p = 1 /\ \A q \in Prio : count[q] = 0

Init ==
  /\ activated = {}
  /\ tprCount = [p \in Prio |-> 0]
  /\ tpr = 0
  /\ gPluginsDone = FALSE
  /\ handoffDone = FALSE

\* (bug: the register is not raised for a new task)
CallbackActivationNoReload(t) ==
  /\ t \notin activated
  /\ gPluginsDone => handoffDone
  /\ activated' = activated \cup {t}
  /\ tprCount' = [tprCount EXCEPT ![TaskTpr[t]] = @ + 1]
  /\ UNCHANGED <<tpr, gPluginsDone, handoffDone>>

\* ia32eCallbackActivation.  Between the end of the plugins and the handoff a
\* core activates nothing.
CallbackActivation(t) ==
  /\ t \notin activated
  /\ gPluginsDone => handoffDone
  /\ activated' = activated \cup {t}
  /\ tprCount' = [tprCount EXCEPT ![TaskTpr[t]] = @ + 1]
  /\ IF gPluginsDone /\ TaskTpr[t] > tpr
     THEN tpr' \in Prio /\ ReloadTpr(tprCount', tpr')
     ELSE tpr' = tpr
  /\ UNCHANGED <<gPluginsDone, handoffDone>>

\* ia32eCallbackResponse
CallbackResponse(t) ==
  /\ t \in activated
  /\ handoffDone
  /\ activated' = activated \ {t}
  /\ tprCount' = [tprCount EXCEPT ![TaskTpr[t]] = @ - 1]
  /\ IF TaskTpr[t] = tpr /\ tprCount'[TaskTpr[t]] = 0
     THEN tpr' \in Prio /\ ReloadTpr(tprCount', tpr')
     ELSE tpr' = tpr
  /\ UNCHANGED <<gPluginsDone, handoffDone>>

\* kStart, once every plugin has run
PluginsDone ==
  /\ ~gPluginsDone
  /\ gPluginsDone' = TRUE
  /\ UNCHANGED <<activated, tprCount, tpr, handoffDone>>

\* (bug: the register is not loaded at the handoff)
CallbackCpuHandoffNoReload ==
  /\ gPluginsDone /\ ~handoffDone
  /\ handoffDone' = TRUE
  /\ UNCHANGED <<activated, tprCount, tpr, gPluginsDone>>

\* ia32eCallbackCpuHandoff
CallbackCpuHandoff ==
  /\ gPluginsDone /\ ~handoffDone
  /\ tpr' \in Prio /\ ReloadTpr(tprCount, tpr')
  /\ handoffDone' = TRUE
  /\ UNCHANGED <<activated, tprCount, gPluginsDone>>

Next ==
  \/ \E t \in Task : CallbackActivation(t)
  \/ \E t \in Task : CallbackResponse(t)
  \/ PluginsDone
  \/ CallbackCpuHandoff

Spec == Init /\ [][Next]_vars
-----------------------------------------------------------------------------

TypeOK ==
  /\ activated \subseteq Task
  /\ tprCount \in [Prio -> Nat]
  /\ tpr \in Prio \cup {0}
  /\ gPluginsDone \in BOOLEAN /\ handoffDone \in BOOLEAN
  /\ handoffDone => gPluginsDone

\* The counters are those of the activated tasks, whatever the order in which
\* the ticks, syscalls and LSRs of the core moved tasks in and out.
CountsAreExact ==
  \A p \in Prio : tprCount[p] = Cardinality({t \in activated : TaskTpr[t] = p})

\* The promise of thread.md: once the core is handed off, its TPR is the
\* highest priority of a schedulable task, and 1 when there is none; the
\* assertions of ia32eCallbackResponse (tpr <= cpu->tpr) follow.
TprIsHighest ==
  handoffDone =>
    /\ \A t \in activated : TaskTpr[t] <= tpr
    /\ tpr = 1 \/ \E t \in activated : TaskTpr[t] = tpr
=============================================================================
