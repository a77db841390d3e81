--------------------------- MODULE MCEdfDeadlines ---------------------------
(***************************************************************************)
(* EdfDeadlines with the deferrable server, on three threads without LSRs  *)
(* and without sleep, the other known sources of drift.                    *)
(***************************************************************************)
EXTENDS EdfDeadlines

CONSTANTS t1, t2, t3

MCThread == {t1, t2, t3}
MCLsrVector == [l \in {} |-> l]
MCThreadTpr == t1 :> 1 @@ t2 :> 1 @@ t3 :> 1
MCBudgets == {1, 2}
MCPeriods == {0, 2, 3}
MCPushCurrents == {TRUE}
MCPolicies == {"EDF"}
MCPrio == t1 :> 0 @@ t2 :> 0 @@ t3 :> 0
MCTimeslice == t1 :> 1 @@ t2 :> 1 @@ t3 :> 1
MCFrames == <<t1, t2, t3>>
MCVirtualDeadline == t1 :> 4 @@ t2 :> 5 @@ t3 :> 7

MCDsSpec == DInit /\ ~BCS /\ [][DNext]_<<schedVars, due>>
=============================================================================
