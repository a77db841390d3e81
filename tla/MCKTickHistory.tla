--------------------------- MODULE MCKTickHistory ---------------------------
(***************************************************************************)
(* The tick machine and its history on a small core: two threads whose     *)
(* interrupt priorities lie below and between those of three LSRs on two   *)
(* vectors. Budgets and periods are chosen so that either thread throttles *)
(* within a period, across one, or never.                                  *)
(***************************************************************************)
EXTENDS KTickHistory

CONSTANTS t1, t2, l1, l2, l3, v1, v2

MCThread == {t1, t2}
MCLsr == {l1, l2, l3}
MCVector == {v1, v2}
MCLsrVector == l1 :> v1 @@ l2 :> v1 @@ l3 :> v2
MCVectorPrio == v1 :> 3 @@ v2 :> 5
MCThreadTpr == t1 :> 1 @@ t2 :> 4
MCBudgets == {1, 2}
MCPeriods == {0, 1, 3}
MCSleeps == {1, 3}
MCPushCurrents == {TRUE}

MCInit ==
  /\ HInit
  /\ budget \in {t1 :> 2 @@ t2 :> 1, t1 :> 1 @@ t2 :> 2}
  /\ <<period[t1], period[t2]>> \in {<<1, 3>>, <<3, 0>>, <<0, 3>>}

MCSpec == MCInit /\ [][HNext]_allVars
=============================================================================
