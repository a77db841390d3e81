---------------------------- MODULE MCSchedTime ----------------------------
(***************************************************************************)
(* The three policies over time, on two threads and one LSR with nearly    *)
(* all parameters: RR and the cyclic policy with LSRs and sleep, EDF with  *)
(* the time to its deadlines and without the two, which make them drift.   *)
(***************************************************************************)
EXTENDS EdfDeadlines

CONSTANTS t1, t2, l1, v1

MCThread == {t1, t2}
MCLsr == {l1}
MCVector == {v1}
MCLsrVector == l1 :> v1
MCVectorPrio == v1 :> 3
MCThreadTpr == [t \in Thread |-> 1]
MCBudgets == {1, 2}
MCPeriods == {0, 2, 3}
MCSleeps == {1}
MCPushCurrents == {TRUE}
MCPolicies == {"RR", "CYCLIC", "EDF"}
MCPrio == [t \in Thread |-> 0]
MCTimeslice == t1 :> 2 @@ t2 :> 1

\* the last frame has no owner
MCFrames == <<t1, t2, t1, NoTask>>
MCVirtualDeadline == t1 :> 4 @@ t2 :> 5

TInit ==
  /\ SInit
  /\ due = VirtualDeadline
  /\ policy = "EDF" => BCS
  /\ policy # "EDF" => budget[t2] = 1 /\ \A t \in Thread : period[t] # 3

ServeNext == policy # "EDF" /\ SNext /\ UNCHANGED due
DeadlineTick == policy = "EDF" /\ STick /\ Elapse
DeadlineSwitch == policy = "EDF" /\ (SHandoff \/ SYield \/ SThrottle \/ SFailure) /\ UNCHANGED due

TNext == ServeNext \/ DeadlineTick \/ DeadlineSwitch

TSpec == TInit /\ [][TNext]_<<schedVars, due>> /\ SFairness
=============================================================================
