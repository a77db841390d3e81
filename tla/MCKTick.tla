------------------------------ MODULE MCKTick ------------------------------
(***************************************************************************)
(* KTick with its fairness, on a core of two threads and one LSR.          *)
(***************************************************************************)
EXTENDS KTick

CONSTANTS t1, t2, l1, v1

MCThread == {t1, t2}
MCLsr == {l1}
MCVector == {v1}
MCLsrVector == l1 :> v1
MCVectorPrio == v1 :> 3
MCThreadTpr == t1 :> 1 @@ t2 :> 4
MCBudgets == {1, 2}
MCPeriods == {0, 1, 3}
MCSleeps == {1, 3}
MCIa32ePort == {TRUE}
=============================================================================
