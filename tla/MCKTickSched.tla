---------------------------- MODULE MCKTickSched ----------------------------
(***************************************************************************)
(* KTickSched on a small core: three threads, one LSR.  The first two      *)
(* share a priority; the first owns two of the four frames.                *)
(***************************************************************************)
EXTENDS KTickSched

CONSTANTS t1, t2, t3, l1, v1

MCThread == {t1, t2, t3}
MCLsr == {l1}
MCVector == {v1}
MCLsrVector == l1 :> v1
MCVectorPrio == v1 :> 3
MCThreadTpr == [t \in Thread |-> 1]
MCBudgets == {1, 2}
MCPeriods == {0, 2}
MCSleeps == {1}
MCPushCurrents == {TRUE}
MCPolicies == {"RR", "CYCLIC", "EDF"}
MCPrio == [t \in Thread |-> IF t = t3 THEN 1 ELSE 0]
MCTimeslice == [t \in Thread |-> IF t = t1 THEN 2 ELSE 1]
MCFrames == <<t1, t2, t1, t3>>
MCVirtualDeadline ==
  [t \in Thread |-> CASE t = t1 -> 2 [] t = t2 -> 3 [] t = t3 -> 4]

\* one assignment of budgets and periods
MCInit ==
  /\ SInit
  /\ budget = (t1 :> 1 @@ t2 :> 1 @@ t3 :> 2)
  /\ period = (t1 :> 0 @@ t2 :> 2 @@ t3 :> 2)

MCSpec == MCInit /\ [][SNext]_schedVars
=============================================================================
