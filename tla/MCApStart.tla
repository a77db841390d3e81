----------------------------- MODULE MCApStart ------------------------------
(***************************************************************************)
(* Four cores on machines of all kinds, the last six of which do not get   *)
(* as far as the first rendezvous.                                         *)
(***************************************************************************)
EXTENDS ApStart

CONSTANTS bsp, ap1, ap2, ap3

MCOther == {ap1, ap2, ap3}

Lapic(id) == [type |-> "lapic", id |-> id, enabled |-> TRUE]
X2apic(id) == [type |-> "x2apic", id |-> id, enabled |-> TRUE]
Disabled(id) == [type |-> "lapic", id |-> id, enabled |-> FALSE]
Ioapic == [type |-> "ioapic"]
Cut == [type |-> "cut"]
Level(type, shift) == [type |-> type, span |-> 2^shift]

\* the ids of the cores and what every core says of its topology
Cpuids(ids, leaf1f, leaf0b, threads, cores) ==
  [c \in {bsp, ap1, ap2, ap3} |->
    [id |-> ids[c], leaf1f |-> leaf1f, leaf0b |-> leaf0b,
     threads |-> threads, cores |-> cores]]
Ids(a, b, c, d) == bsp :> a @@ ap1 :> b @@ ap2 :> c @@ ap3 :> d
All(v) == Ids(v, v, v, v)

Modern == \* leaf 0x1f with a level that is neither, x2APIC ids above 8 bits
  [madt |-> <<X2apic(256), Ioapic, X2apic(257), X2apic(258), X2apic(260)>>,
   cpuid |-> Cpuids(Ids(256, 257, 258, 260),
       <<Level("smt", 1), Level("module", 1), Level("core", 2)>>, <<>>, 4, 2),
   x2apic |-> All(TRUE), broken |-> All(FALSE), hpet |-> TRUE, crystal |-> FALSE,
   vtx |-> All({"vmx", "ad", "safe", "works"})]
NoSmt == \* 0x1f without SMT and without cores; the boot processor is in the middle
  [Modern EXCEPT !.madt = <<Lapic(0), Lapic(1), Disabled(7), Lapic(2), Cut, Lapic(9)>>,
     !.cpuid = Cpuids(Ids(1, 0, 2, 9), <<Level("smt", 0)>>, <<>>, 3, 1)]
OneCore == \* 0x0b, one core with two threads, the others are disabled or not listed
  [Modern EXCEPT !.madt = <<Lapic(0), Lapic(1), Disabled(2)>>,
     !.cpuid = Cpuids(Ids(0, 1, 2, 3), <<>>, <<Level("core", 1), Level("smt", 1)>>, 2, 1),
     !.crystal = TRUE, !.vtx = Ids({"vmx", "safe", "works"}, {}, {}, {})]
NoCore == \* 0x0b without a level for cores
  [Modern EXCEPT !.madt = <<Lapic(2), Lapic(0), Lapic(1), Lapic(3)>>,
     !.cpuid = Cpuids(Ids(0, 1, 2, 3), <<>>, <<Level("smt", 1), Level("inval", 0)>>, 2, 1),
     !.x2apic = All(FALSE), !.hpet = FALSE,
     !.vtx = Ids({}, {"vmx", "ad", "safe"}, {"vmx", "ad", "works"}, {"vmx", "safe", "works"})]
Legacy == \* an unusable 0x0b: the leaves 1 and 4
  [Modern EXCEPT !.madt = <<Lapic(3), Lapic(4), Lapic(5), Lapic(6)>>,
     !.cpuid = Cpuids(Ids(3, 4, 5, 6), <<>>, <<Level("core", 1), Level("smt", 2)>>, 4, 2),
     !.x2apic = All(FALSE), !.vtx = All({"ad", "safe", "works"})]
Differing == \* two cores that report differently and come out at one place
  [Modern EXCEPT !.madt = <<Lapic(5), Lapic(10), Lapic(6), Lapic(7)>>,
     !.cpuid = Ids([id |-> 5, leaf1f |-> <<>>, leaf0b |-> <<Level("smt", 0), Level("smt", 3)>>,
                    threads |-> 2, cores |-> 1],
                   [id |-> 10, leaf1f |-> <<Level("smt", 1), Level("core", 4)>>, leaf0b |-> <<>>,
                    threads |-> 2, cores |-> 1],
                   [id |-> 6, leaf1f |-> <<>>, leaf0b |-> <<>>, threads |-> 8, cores |-> 2],
                   [id |-> 7, leaf1f |-> <<>>, leaf0b |-> <<>>, threads |-> 8, cores |-> 2])]
Single == [Legacy EXCEPT !.cpuid = Cpuids(Ids(3, 4, 5, 6), <<>>, <<>>, 1, 1)]
TooMany == [Modern EXCEPT !.madt = @ \o <<Lapic(8), Lapic(9)>>]
TooManyIoapics == [Modern EXCEPT !.madt = @ \o <<Ioapic, Ioapic>>]
NoBsp == [Modern EXCEPT !.madt = <<X2apic(257), X2apic(258)>>]
Locked == [Legacy EXCEPT !.broken = All(TRUE)]
ApLocked == [Legacy EXCEPT !.broken = Ids(FALSE, FALSE, TRUE, FALSE)]
Mixed == [Modern EXCEPT !.x2apic = Ids(TRUE, TRUE, FALSE, TRUE)]

MCMachines ==
  {Modern, NoSmt, OneCore, NoCore, Legacy, Differing, Single,
   TooMany, TooManyIoapics, NoBsp, Locked, ApLocked, Mixed}
=============================================================================
