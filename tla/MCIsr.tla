------------------------------- MODULE MCIsr -------------------------------
(***************************************************************************)
(* Isr with a thread and three LSRs, two of which share a vector, an NMI,  *)
(* and two other cores.  A run has all the LSRs; or the NMI, and the one   *)
(* LSR that has not failed before; or the faults of other cores.           *)
(***************************************************************************)
EXTENDS Isr, TLC

CONSTANTS t, a, b, c, c1, c2, c3

MCTask == {t, a, b, c}
MCLsr == {a, b, c}
MCTaskTpr == t :> 1 @@ a :> 2 @@ b :> 2 @@ c :> 3
MCLsrVector == a :> 32 @@ b :> 32 @@ c :> 48

MCInit ==
  \E dormant \in {{}, {a}, Lsr} :
    /\ IsrStart(dormant, IF dormant = {} THEN {} ELSE {c2, c3})
    /\ nmisLeft = IF dormant = {a} THEN MaxNmi ELSE 0

MCSpec == MCInit /\ [][IsrNext]_allVars /\ Progress
=============================================================================
