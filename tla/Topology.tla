------------------------------ MODULE Topology ------------------------------
(***************************************************************************)
(* Where a core sits in the machine, as ia32eThisTopology                  *)
(* (arch/x86_64/ia32e/src/ia32eCpu.c) reads it from CPUID: the first of    *)
(* the leaves 0x1f, 0x0b and 1/4 that says something usable splits the id  *)
(* of the local APIC into a package, a core and a thread.                  *)
(*                                                                         *)
(* A cpuid record holds the full id, the levels of 0x1f and of 0x0b as     *)
(* sequences of [type, span] (empty: not supported), and the thread and    *)
(* core counts of the leaves 1 and 4.  The span of a level is the number   *)
(* of ids below it, 1 << shift; 1 is a shift of 0.                         *)
(***************************************************************************)
EXTENDS Naturals, Sequences, FiniteSets, FiniteSetsExt

\* 0x1f: the last level of a type counts, if there is one.
Span0x1f(levels, type) ==
  LET last == {i \in DOMAIN levels : /\ levels[i].type = type
                                     /\ \A j \in DOMAIN levels : levels[j].type = type => j <= i}
  IN  IF last = {} THEN 1 ELSE levels[CHOOSE i \in last : TRUE].span

\* cpu->topology: the id in three fields, by the ids of a core and of a package
Split(id, smt, core) ==
  [threadId |-> id % smt, coreId |-> (id % core) \div smt, pkgId |-> id \div core]

Topology0x1f(cpuid) ==
  LET smt == Span0x1f(cpuid.leaf1f, "smt")
      core == Span0x1f(cpuid.leaf1f, "core")
  IN  Split(cpuid.id, smt, IF core = 1 THEN smt ELSE core)

\* 0x0b: of its first two levels, the first of a type counts.
Span0x0b(levels, type) ==
  CASE levels[1].type = type -> levels[1].span
    [] levels[1].type # type /\ levels[2].type = type -> levels[2].span
    [] OTHER -> 1

Usable0x0b(cpuid) ==
  /\ Len(cpuid.leaf0b) >= 2
  /\ cpuid.leaf0b[1].type \in {"smt", "core"}
  /\ LET core == Span0x0b(cpuid.leaf0b, "core")
     IN  core = 1 \/ core >= Span0x0b(cpuid.leaf0b, "smt")

\* (bug: a package without a level for cores has one core, as for 0x1f)
Topology0x0bOneCore(cpuid) ==
  LET smt == Span0x0b(cpuid.leaf0b, "smt")
      core == Span0x0b(cpuid.leaf0b, "core")
  IN  IF core # 1 THEN Split(cpuid.id, smt, core)
      ELSE [threadId |-> cpuid.id % smt, coreId |-> 0, pkgId |-> 0]

Topology0x0b(cpuid) ==
  LET smt == Span0x0b(cpuid.leaf0b, "smt")
      core == Span0x0b(cpuid.leaf0b, "core")
  IN  IF core # 1 THEN Split(cpuid.id, smt, core)
      ELSE [threadId |-> cpuid.id % smt, coreId |-> cpuid.id, pkgId |-> 0]

\* halving n until it is 1 leaves the greatest power of two up to n
PowerOfTwo(n) == Max({1} \cup {p \in {2, 4, 8, 16, 32, 64, 128} : p <= n})

\* The leaves 1 and 4 know 8 bits of the id.
LegacyId(cpuid) == cpuid.id % 256

TopologyLegacy(cpuid) ==
  LET id == LegacyId(cpuid)
      smt == PowerOfTwo(cpuid.threads \div cpuid.cores)
  IN  IF cpuid.threads < 2 THEN [threadId |-> 0, coreId |-> id, pkgId |-> 0]
      ELSE Split(id, smt, smt * PowerOfTwo(cpuid.cores))

\* the id it finds on the way
ThisLapicId(cpuid) ==
  IF cpuid.leaf1f # <<>> \/ Usable0x0b(cpuid) THEN cpuid.id ELSE LegacyId(cpuid)

ThisTopology(cpuid) ==
  IF cpuid.leaf1f # <<>> THEN Topology0x1f(cpuid)
  ELSE IF Usable0x0b(cpuid) THEN Topology0x0b(cpuid)
  ELSE TopologyLegacy(cpuid)
=============================================================================
