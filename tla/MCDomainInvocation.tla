------------------------- MODULE MCDomainInvocation -------------------------
(***************************************************************************)
(* Two tasks of a client domain, 0, that invoke a server, 1: with their    *)
(* exceptions, the stacks fill up and both tasks are in and out of both    *)
(* domains in any combination.  Domain 2 has no valid entry point.  The    *)
(* parameter 5 names the server when its upper bits are cut off.           *)
(***************************************************************************)
EXTENDS DomainInvocation, TLC

CONSTANTS t1, t2, a, high

MCTask == {t1, t2}
MCDomain == 0..2
MCFirstDomain == t1 :> 0 @@ t2 :> 0
MCInvokePermMap == 0 :> {1, 2} @@ 1 :> {} @@ 2 :> {}
MCValid == 0 :> {} @@ 1 :> {"ipc", "arithmetic"} @@ 2 :> {}
MCParam == {2, 5}
MCSymmetry == Permutations(MCTask)
MCAddress == {a, high}
MCCanonical == {a}
=============================================================================
