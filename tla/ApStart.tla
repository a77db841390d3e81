------------------------------ MODULE ApStart -------------------------------
(***************************************************************************)
(* How the cores of the machine come up (arch/x86_64/ia32e/src/            *)
(* ia32eInit.c, ia32eApic.c and ia32eCpu.c), up to the first rendezvous:   *)
(* the boot processor reads the firmware's table of processors and starts  *)
(* them one at a time.  It passes each its stack through one global        *)
(* variable and waits for a counter that the started core increments when  *)
(* it has set itself up.  A core finds its own per-CPU data by the id of   *)
(* its local APIC.                                                         *)
(*                                                                         *)
(* A machine is what the firmware and the processors say: the MADT, the    *)
(* cpuid record of each core, which cores have an x2APIC, which have an    *)
(* unusable xAPIC, how far the checks of VT-x get on each, whether there   *)
(* is an HPET and whether CPUID tells the frequency of the APIC timer.     *)
(***************************************************************************)
EXTENDS Rendezvous, Topology, SequencesExt

CONSTANTS Machines,   \* the machines to start from
          MaxCpus,    \* CONFIG_KMAX_CPUS
          MaxIoapics  \* CONFIG_X86_64_IA32E_MAX_IOAPICS

VARIABLES
  machine,        \* the machine, which never changes
  cpuTable,       \* global->cpuTable up to numCpus: their APIC ids and flags
  x2apic,         \* the system uses x2APICs
  apic,           \* cpu -> the mode of its local APIC
  slot,           \* the place in cpuTable ApWakeup is at
  apRsp,          \* ia32eApRsp: the slot whose stack the next core takes
  sp,             \* cpu -> the slot whose wakeup stack it is on
  me,             \* cpu -> the slot its GS base points to
  topology,       \* cpu -> its cpu->topology
  wokenCount,     \* the cores ApWakeup started
  numCpusOnline,  \* the cores that reported
  hpetOn,         \* does the main counter of the HPET run?
  vcpuCapable,    \* the cores with cpuFlags.vcpuCapable
  eptAd,          \* the cores with cpuFlags.eptAd
  allEptAd        \* gFlags.allEptAd

vtxVars == <<vcpuCapable, eptAd, allEptAd>>
startVars == <<machine, cpuTable, x2apic, apic, slot, apRsp, sp, me, topology,
               wokenCount, numCpusOnline, hpetOn, vtxVars>>

quietVars == <<calling, fn, rendezvous, sent, irr, armed, handoffDone, runs, desync>>

Nowhere == [threadId |-> 0, coreId |-> 0, pkgId |-> 0]

StartInit ==
  /\ Quiet
  /\ online = {}
  /\ pc = [c \in Cpu |-> IF c = Sender THEN "madt" ELSE "off"]
  /\ machine \in Machines
  /\ cpuTable = <<>>
  /\ x2apic = FALSE
  /\ apic = [c \in Cpu |-> "reset"]
  /\ slot = 1 /\ apRsp = 0
  /\ sp = [c \in Cpu |-> 0] /\ me = [c \in Cpu |-> 0]
  /\ topology = [c \in Cpu |-> Nowhere]
  /\ wokenCount = 0 /\ numCpusOnline = 0
  /\ hpetOn = FALSE
  /\ vcpuCapable = {} /\ eptAd = {} /\ allEptAd = FALSE

Goto(c, label) == pc' = [pc EXCEPT ![c] = label]
LapicId(c) == ThisLapicId(machine.cpuid[c])

-----------------------------------------------------------------------------
(* The boot processor.                                                     *)

\* an entry that does not fit ends the table
Entries(madt) ==
  LET cut == {i \in DOMAIN madt : madt[i].type = "cut"}
  IN  IF cut = {} THEN madt ELSE SubSeq(madt, 1, Min(cut) - 1)

\* the entries of processors and of I/O APICs; overrides are left out
Processors(madt) == SelectSeq(madt, LAMBDA e : e.type \in {"lapic", "x2apic"})
Ioapics(madt) == SelectSeq(madt, LAMBDA e : e.type = "ioapic")

\* What the code takes on trust: the firmware lists no processor twice, no two
\* cores have one id, and a core that has but the legacy leaves has an id of
\* the 8 bits they tell.  Nothing says that the cores report alike.
ASSUME MachinesAssumption ==
  \A m \in Machines :
    /\ LET table == Processors(Entries(m.madt))
       IN  /\ table \in Seq([type : STRING, id : Nat, enabled : BOOLEAN])
           /\ \A i, j \in DOMAIN table : table[i].id = table[j].id => i = j
    /\ \A c, d \in Cpu : m.cpuid[c].id = m.cpuid[d].id => c = d
    /\ \A c \in Cpu :
         /\ m.cpuid[c].id \in Nat
         /\ m.cpuid[c].leaf1f \in Seq([type : STRING, span : Nat \ {0}])
         /\ m.cpuid[c].leaf0b \in Seq([type : STRING, span : Nat \ {0}])
         /\ m.cpuid[c].threads \in Nat /\ m.cpuid[c].cores \in Nat \ {0}
         /\ m.cpuid[c].leaf1f = <<>> /\ ~Usable0x0b(m.cpuid[c]) => m.cpuid[c].id < 256

MadtParser ==
  LET entries == Entries(machine.madt)
      table == Processors(entries)
      mine == {i \in DOMAIN table : table[i].id = LapicId(Sender)}
      fits == Len(table) <= MaxCpus /\ Len(Ioapics(entries)) <= MaxIoapics
  IN  /\ pc[Sender] = "madt"
      /\ IF fits /\ mine # {}
         THEN /\ cpuTable' = [i \in DOMAIN table |->
                   [apicId |-> table[i].id, enabled |-> table[i].enabled]]
              /\ me' = [me EXCEPT ![Sender] = Max(mine)]
              /\ topology' = [topology EXCEPT ![Sender] = ThisTopology(machine.cpuid[Sender])]
              /\ online' = {Sender}
              /\ Goto(Sender, "apicConfig")
         ELSE Goto(Sender, "panic") /\ UNCHANGED <<cpuTable, me, topology, online>>
      /\ UNCHANGED <<machine, x2apic, apic, slot, apRsp, sp, wokenCount,
                     numCpusOnline, hpetOn, vtxVars, quietVars>>

ApicConfig ==
  /\ pc[Sender] = "apicConfig"
  /\ x2apic' = machine.x2apic[Sender]
  /\ IF ~x2apic' /\ machine.broken[Sender]
     THEN Goto(Sender, "panic") /\ UNCHANGED <<apic, hpetOn>>
     ELSE /\ apic' = [apic EXCEPT ![Sender] = "disabled"]
          /\ hpetOn' = machine.hpet
          /\ Goto(Sender, "wakeup")
  /\ UNCHANGED <<machine, cpuTable, slot, apRsp, sp, me, topology, wokenCount,
                 numCpusOnline, online, vtxVars, quietVars>>

Skipped(s) ==
  \/ cpuTable[s].apicId = cpuTable[me[Sender]].apicId
  \/ ~cpuTable[s].enabled

\* ia32eApWakeup looks at the next processor, or is through
ApWakeup ==
  /\ pc[Sender] = "wakeup"
  /\ IF slot > Len(cpuTable) THEN Goto(Sender, "cpuInit") /\ UNCHANGED <<slot, apRsp>>
     ELSE IF Skipped(slot) THEN slot' = slot + 1 /\ UNCHANGED <<pc, apRsp>>
     ELSE apRsp' = slot /\ Goto(Sender, "init") /\ UNCHANGED slot
  /\ UNCHANGED <<machine, cpuTable, x2apic, apic, sp, me, topology, wokenCount,
                 numCpusOnline, hpetOn, online, vtxVars, quietVars>>

Target == {c \in Other : machine.cpuid[c].id = cpuTable[slot].apicId}

\* ia32eApicWakeup: INIT, which resets the core, ...
SendInit ==
  /\ pc[Sender] = "init"
  /\ pc' = [c \in Cpu |-> IF c = Sender THEN "sipi1"
                          ELSE IF c \in Target THEN "waitSipi" ELSE pc[c]]
  /\ UNCHANGED <<startVars, online, quietVars>>

\* ... then the start-up IPI twice; a core still in reset may miss the first
SendSipi ==
  /\ pc[Sender] \in {"sipi1", "sipi2"}
  /\ \E starts \in SUBSET Target :
       /\ pc[Sender] = "sipi2" => starts = Target
       /\ pc' = [c \in Cpu |->
             IF c = Sender THEN (IF pc[c] = "sipi1" THEN "sipi2" ELSE "awaitOnline")
             ELSE IF c \in starts /\ pc[c] = "waitSipi" THEN "entry" ELSE pc[c]]
  /\ wokenCount' = IF pc[Sender] = "sipi2" THEN wokenCount + 1 ELSE wokenCount
  /\ UNCHANGED <<machine, cpuTable, x2apic, apic, slot, apRsp, sp, me, topology,
                 numCpusOnline, hpetOn, online, vtxVars, quietVars>>

\* (bug: the next core is started without waiting for the last one)
AwaitOnlineNot ==
  /\ pc[Sender] = "awaitOnline"
  /\ slot' = slot + 1
  /\ Goto(Sender, "wakeup")
  /\ UNCHANGED <<machine, cpuTable, x2apic, apic, apRsp, sp, me, topology,
                 wokenCount, numCpusOnline, hpetOn, online, vtxVars, quietVars>>

AwaitOnline ==
  /\ pc[Sender] = "awaitOnline"
  /\ numCpusOnline = wokenCount
  /\ slot' = slot + 1
  /\ Goto(Sender, "wakeup")
  /\ UNCHANGED <<machine, cpuTable, x2apic, apic, apRsp, sp, me, topology,
                 wokenCount, numCpusOnline, hpetOn, online, vtxVars, quietVars>>

\* Extended page tables use accessed and dirty flags if all cores have them.
GlobalVtxInit == allEptAd' = (vcpuCapable # {} /\ online \subseteq eptAd)

\* ia32eBspConfig, after ia32eCpuInit: interrupts on, then the handover to kStart
BspConfig ==
  /\ pc[Sender] = "on"
  /\ numCpusOnline' = numCpusOnline + 1
  /\ hpetOn' = FALSE
  /\ GlobalVtxInit
  /\ Goto(Sender, "boot")
  /\ UNCHANGED <<machine, cpuTable, x2apic, apic, slot, apRsp, sp, me, topology,
                 wokenCount, vcpuCapable, eptAd, online, quietVars>>

-----------------------------------------------------------------------------
(* A started core.                                                         *)

\* the wakeup code takes the stack it finds in ia32eApRsp
LoadRsp(c) ==
  /\ pc[c] = "entry"
  /\ sp' = [sp EXCEPT ![c] = apRsp]
  /\ Goto(c, "apStart")
  /\ UNCHANGED <<machine, cpuTable, x2apic, apic, slot, apRsp, me, topology,
                 wokenCount, numCpusOnline, hpetOn, online, vtxVars, quietVars>>

\* ia32eCpuApStart: the first slot with the id of this local APIC
Identify(c) ==
  /\ pc[c] = "apStart"
  /\ me' = [me EXCEPT ![c] = SelectInSeq(cpuTable, LAMBDA e : e.apicId = LapicId(c))]
  /\ topology' = [topology EXCEPT ![c] = ThisTopology(machine.cpuid[c])]
  /\ online' = online \cup {c}
  /\ Goto(c, "apicSync")
  /\ UNCHANGED <<machine, cpuTable, x2apic, apic, slot, apRsp, sp, wokenCount,
                 numCpusOnline, hpetOn, vtxVars, quietVars>>

ApApicSync(c) ==
  /\ pc[c] = "apicSync"
  /\ IF machine.x2apic[c] # x2apic \/ (~x2apic /\ machine.broken[c])
     THEN Goto(c, "panic") /\ UNCHANGED apic
     ELSE /\ apic' = [apic EXCEPT ![c] = "disabled"]
          /\ Goto(c, "cpuInit")
  /\ UNCHANGED <<machine, cpuTable, x2apic, slot, apRsp, sp, me, topology,
                 wokenCount, numCpusOnline, hpetOn, online, vtxVars, quietVars>>

\* ia32eCpuInit turns the local APIC on and finds out its frequency.  Without
\* help from CPUID it counts the ticks of a counter that must be running.
CpuInit(c) ==
  /\ pc[c] = "cpuInit"
  /\ apic' = [apic EXCEPT ![c] = IF x2apic THEN "x2apic" ELSE "xapic"]
  /\ Goto(c, "calibrate")
  /\ UNCHANGED <<machine, cpuTable, x2apic, slot, apRsp, sp, me, topology,
                 wokenCount, numCpusOnline, hpetOn, online, vtxVars, quietVars>>

Calibrate(c) ==
  /\ pc[c] = "calibrate"
  /\ machine.crystal \/ (machine.hpet => hpetOn)
  /\ Goto(c, "vtxInit")
  /\ UNCHANGED <<startVars, online, quietVars>>

\* The checks of ia32eCpuVtxInit: the core needs VMX, as the firmware left it,
\* with all controls ("vmx"); the control registers must come out as
\* configured ("safe") and VMXON must work ("works").
CpuVtxInit(c) ==
  LET has == machine.vtx[c]
  IN  /\ pc[c] = "vtxInit"
      /\ eptAd' = eptAd \cup {d \in {c} : {"vmx", "ad"} \subseteq has}
      /\ vcpuCapable' = vcpuCapable \cup {d \in {c} : {"vmx", "safe", "works"} \subseteq has}
      /\ Goto(c, "on")
      /\ UNCHANGED <<machine, cpuTable, x2apic, apic, slot, apRsp, sp, me, topology,
                     wokenCount, numCpusOnline, hpetOn, allEptAd, online, quietVars>>

\* the core reports and halts, with interrupts on
Report(c) ==
  /\ c # Sender /\ pc[c] = "on"
  /\ numCpusOnline' = numCpusOnline + 1
  /\ Goto(c, "out")
  /\ UNCHANGED <<machine, cpuTable, x2apic, apic, slot, apRsp, sp, me, topology,
                 wokenCount, hpetOn, online, vtxVars, quietVars>>
-----------------------------------------------------------------------------

BspStarts ==
  MadtParser \/ ApicConfig \/ ApWakeup \/ SendInit \/ SendSipi \/ AwaitOnline \/ BspConfig

CoreStarts(c) ==
  LoadRsp(c) \/ Identify(c) \/ ApApicSync(c) \/ CpuInit(c)
  \/ Calibrate(c) \/ CpuVtxInit(c) \/ Report(c)

StartNext ==
  \/ BspStarts
  \/ \E c \in Cpu : CoreStarts(c)
  \/ Next /\ UNCHANGED startVars

\* All of it is straight-line code that nothing interrupts.
StartFairness ==
  /\ Fairness
  /\ WF_<<vars, startVars>>(BspStarts)
  /\ \A c \in Cpu : WF_<<vars, startVars>>(CoreStarts(c))

StartSpec == StartInit /\ [][StartNext]_<<vars, startVars>> /\ StartFairness
-----------------------------------------------------------------------------

\* what the firmware lists as usable
Enabled ==
  {c \in Cpu : c = Sender \/ \E s \in DOMAIN cpuTable :
                   cpuTable[s].enabled /\ cpuTable[s].apicId = LapicId(c)}

\* A core that counts as online is itself: no two share a per-CPU structure or a
\* wakeup stack, and each is on the stack of its own per-CPU structure.  When the
\* kernel starts, exactly the cores that the firmware enabled are online, set up and
\* waiting, and the page tables of virtual machines rely on no flag that a core able
\* to run one lacks.
CoresStarted ==
  /\ \A c \in online :
       /\ cpuTable[me[c]].apicId = machine.cpuid[c].id
       /\ c # Sender => sp[c] = me[c]
       /\ \A d \in online \ {c} : me[c] # me[d]
  /\ pc[Sender] = "boot" =>
       /\ online = Enabled /\ numCpusOnline = Cardinality(online)
       /\ \A c \in online : pc[c] \in {"boot", "out"} /\ apic[c] # "disabled"
       /\ allEptAd => vcpuCapable \subseteq eptAd

\* their CPUID says the same of everything but the id
Alike(c, d) ==
  \A leaf \in {"leaf1f", "leaf0b", "threads", "cores"} :
    machine.cpuid[c][leaf] = machine.cpuid[d][leaf]

\* Two cores that report alike are not given one place: the thread, the core and
\* the package of cpu->topology tell them apart, with whichever leaf
\* ia32eThisTopology took.  Cores that report differently may share one.
PlacesDiffer ==
  \A c, d \in online : c # d /\ Alike(c, d) => topology[c] # topology[d]

\* The boot processor spins for nothing for ever, unless another core stopped
\* in a panic: neither for a core to start, nor for the counter of a
\* calibration, nor in a rendezvous.
SpinsEnd ==
  \A s \in {"awaitOnline", "calibrate", "spin"} :
    pc[Sender] = s ~> pc[Sender] # s \/ \E c \in Other : pc[c] = "panic"
=============================================================================
