----------------------------- MODULE VcpuProofs -----------------------------
(***************************************************************************)
(* The virtual processors of one virtual machine, for any number of them,  *)
(* whatever their guests do and whichever vectors they use.                *)
(***************************************************************************)
EXTENDS Vcpu, WellFoundedInduction, TLAPS

Byte == 0..255
Modes == {"NORMAL", "NMI", "INIT", "SIPI"}
Events == {None} \cup ({"int", "nmi", "exception", "advance"} \X Byte)

Steps == {"boot", "enter", "guest", "send", "receive", "power", "read power", "sleep power",
          "init", "sipi", "read sipi", "sleep sipi", "reset", "esr", "irr", "dequeue",
          "inject", "injected", "failed", "halted"}

Latches == [initPending : BOOLEAN, waitForSipi : BOOLEAN, sipiPending : BOOLEAN,
            nmiPending : BOOLEAN, irr : SUBSET Byte, sivr : BOOLEAN]
Apics == [poweredOn : BOOLEAN, tpr : 0..15, irr : SUBSET Byte, isr : SUBSET Byte,
          lvtTimer : LvtTimers \cup {[vector |-> 0, masked |-> FALSE, periodic |-> FALSE]},
          lvtError : LvtErrors \cup {[vector |-> 0, masked |-> FALSE]},
          pendingEsr : BOOLEAN, initCount : BOOLEAN]
EventQueues == [synthetic : Events, plugin : Events, lost : Events]
Vmcss == [if : BOOLEAN, shadow : {"none", "sti", "mov ss"}, nmiBlocked : BOOLEAN,
          entry : Events, timer : BOOLEAN, nmiWindow : BOOLEAN, intWindow : BOOLEAN]
Packets == [to : Vcpu, mode : Modes, vector : Byte]

TypeOK ==
  /\ task \in [Vcpu -> Task]
  /\ at \in [Vcpu -> Steps]
  /\ latch \in [Vcpu -> Latches]
  /\ receiverEsr \subseteq Vcpu
  /\ apic \in [Vcpu -> Apics]
  /\ event \in [Vcpu -> EventQueues]
  /\ vmcs \in [Vcpu -> Vmcss]
  /\ sending \in [Vcpu -> SUBSET Packets]
  /\ tripleFault \in BOOLEAN

-----------------------------------------------------------------------------
(* Data.                                                                   *)

\* A nonempty set of naturals has a least element.
LEMMA LeastNatural ==
  ASSUME NEW T, T \subseteq Nat, T # {}
  PROVE  \E n \in T : \A m \in T : n <= m
  <1> DEFINE R == OpToRel(<, Nat)
  <1>1. IsWellFoundedOn(R, Nat)
    BY NatLessThanWellFounded
  <1>2. ASSUME NEW x \in Nat, NEW y \in Nat, <<x, y>> \notin R PROVE y <= x
    <2>1. R = {ss \in Nat \X Nat : ss[1] < ss[2]}
      BY DEF OpToRel
    <2> HIDE DEF R
    <2> QED BY <1>2, <2>1
  <1> HIDE DEF R
  <1>3. PICK n \in T : \A m \in T : <<m, n>> \notin R
    BY <1>1, WFMin
  <1>4. \A m \in T : n <= m
    <2> TAKE m \in T
    <2>1. m \in Nat /\ n \in Nat
      OBVIOUS
    <2>2. <<m, n>> \notin R
      BY <1>3
    <2> QED BY <2>1, <2>2, <1>2
  <1> QED BY <1>4

\* Max returns the greatest of some vectors.
LEMMA MaxOf ==
  ASSUME NEW S, S \subseteq Byte, S # {}
  PROVE  Max(S) \in S /\ \A j \in S : j <= Max(S)
  <1> DEFINE T == {255 - x : x \in S}
  <1>0. \A x \in S : x \in 0..255 /\ 255 - x \in Nat
    BY DEF Byte
  <1>1. T \subseteq Nat /\ T # {}
    BY <1>0
  <1>2. PICK n \in T : \A m \in T : n <= m
    BY <1>1, LeastNatural
  <1>3. PICK x \in S : n = 255 - x
    OBVIOUS
  <1>4. \A y \in S : x >= y
    <2> TAKE y \in S
    <2>1. n <= 255 - y
      BY <1>2
    <2> QED BY <2>1, <1>3 DEF Byte
  <1>5. \E z \in S : \A y \in S : z >= y
    BY <1>4
  <1>6. Max(S) \in S /\ \A y \in S : Max(S) >= y
    BY <1>5 DEF Max
  <1>7. ASSUME NEW j \in S PROVE j <= Max(S)
    BY <1>6, <1>7 DEF Byte
  <1> QED BY <1>6, <1>7

-----------------------------------------------------------------------------
(* Types.                                                                  *)

\* What a guest is told about is an event.
LEMMA EventTypes ==
  /\ None \in Events /\ Nmi \in Events /\ Fault \in Events /\ Advance \in Events
  /\ \A i \in Byte : Interrupt(i) \in Events
  /\ PluginEvents \subseteq Events
  <1>1. None \in Events /\ Nmi \in Events /\ Fault \in Events /\ Advance \in Events
    BY DEF Events, Nmi, Fault, Advance, Byte
  <1>2. \A i \in Byte : Interrupt(i) \in Events
    BY DEF Events, Interrupt
  <1>3. \A i \in Vector : Interrupt(i) \in Events
    BY <1>2, Machine DEF Byte
  <1> QED BY <1>1, <1>2, <1>3 DEF PluginEvents

\* The guests' timers and error vectors.
LEMMA Lvts ==
  /\ \A t \in LvtTimers \cup {[vector |-> 0, masked |-> FALSE, periodic |-> FALSE]} :
       t.vector \in Byte /\ t.periodic \in BOOLEAN
  /\ \A t \in LvtErrors \cup {[vector |-> 0, masked |-> FALSE]} : t.vector \in Byte
  <1>1. Vector \cup {0} \subseteq Byte
    BY Machine DEF Byte
  <1> DEFINE t0 == [vector |-> 0, masked |-> FALSE, periodic |-> FALSE]
             e0 == [vector |-> 0, masked |-> FALSE]
  <1>4. t0.vector \in Byte /\ t0.periodic \in BOOLEAN /\ e0.vector \in Byte
    BY DEF Byte
  <1>2. \A t \in LvtTimers : t.vector \in Byte /\ t.periodic \in BOOLEAN
    BY <1>1, Machine
  <1>3. \A t \in LvtErrors : t.vector \in Byte
    BY <1>1, Machine
  <1> HIDE DEF t0, e0
  <1>5. \A t \in LvtTimers \cup {t0} : t.vector \in Byte /\ t.periodic \in BOOLEAN
    BY <1>2, <1>4
  <1>6. \A t \in LvtErrors \cup {e0} : t.vector \in Byte
    BY <1>3, <1>4
  <1> QED BY <1>5, <1>6 DEF t0, e0

\* The records of one vCPU.
LEMMA Parts ==
  ASSUME TypeOK, NEW v \in Vcpu
  PROVE  /\ task[v] \in Task /\ at[v] \in Steps /\ latch[v] \in Latches /\ apic[v] \in Apics
         /\ event[v] \in EventQueues /\ vmcs[v] \in Vmcss /\ sending[v] \subseteq Packets
  BY DEF TypeOK

\* A packet leaves latches.
LEMMA PacketType ==
  ASSUME NEW l \in Latches, NEW mode \in Modes, NEW vector \in Byte, NEW self \in BOOLEAN
  PROVE  Packet(l, mode, vector, self) \in Latches
  <1>1. [l EXCEPT !.irr = @ \cup {vector}] \in Latches
    BY DEF Latches
  <1>2. [l EXCEPT !.nmiPending = TRUE] \in Latches
    BY DEF Latches
  <1>3. [l EXCEPT !.initPending = ~l.waitForSipi, !.sipiPending = FALSE] \in Latches
    BY DEF Latches
  <1>4. [l EXCEPT !.sipiPending = TRUE] \in Latches
    BY DEF Latches
  <1> QED BY <1>1, <1>2, <1>3, <1>4 DEF Packet, Modes

\* Sending a packet touches latches and error bits only.
LEMMA SendPacketType ==
  ASSUME TypeOK, NEW from \in Vcpu, NEW to \in Vcpu, NEW mode \in Modes, NEW vector \in Byte,
         SendPacket(from, to, mode, vector)
  PROVE  latch' \in [Vcpu -> Latches] /\ receiverEsr' \subseteq Vcpu
  <1>1. Packet(latch[to], mode, vector, from = to) \in Latches
    BY PacketType, Parts
  <1>2. latch' = [latch EXCEPT ![to] = Packet(latch[to], mode, vector, from = to)]
    BY DEF SendPacket
  <1>3. IllegalVector(from, to, mode, vector) \subseteq Vcpu
    BY DEF IllegalVector, Modes, Byte
  <1> QED BY <1>1, <1>2, <1>3 DEF SendPacket, TypeOK

\* The machine starts in a well-typed state.
LEMMA InitType == Init => TypeOK
  <1> SUFFICES ASSUME Init PROVE TypeOK
    OBVIOUS
  <1>1. [initPending |-> FALSE, waitForSipi |-> FALSE, sipiPending |-> FALSE,
         nmiPending |-> FALSE, irr |-> {}, sivr |-> FALSE] \in Latches
    BY DEF Latches
  <1>2. [poweredOn |-> FALSE, tpr |-> 0, irr |-> {}, isr |-> {},
         lvtTimer |-> [vector |-> 0, masked |-> FALSE, periodic |-> FALSE],
         lvtError |-> [vector |-> 0, masked |-> FALSE],
         pendingEsr |-> FALSE, initCount |-> FALSE] \in Apics
    BY DEF Apics
  <1>3. [synthetic |-> None, plugin |-> None, lost |-> None] \in EventQueues
    BY EventTypes DEF EventQueues
  <1>4. [if |-> FALSE, shadow |-> "none", nmiBlocked |-> FALSE, entry |-> None,
         timer |-> FALSE, nmiWindow |-> FALSE, intWindow |-> FALSE] \in Vmcss
    BY EventTypes DEF Vmcss
  <1> QED BY <1>1, <1>2, <1>3, <1>4 DEF Init, TypeOK, Steps

\* A synthetic event is queued.
LEMMA QueueSyntheticType ==
  ASSUME TypeOK, NEW v \in Vcpu, NEW e \in Events, QueueSynthetic(v, e)
  PROVE  event' \in [Vcpu -> EventQueues] /\ at' \in [Vcpu -> Steps]
  <1>1. [event[v] EXCEPT !.synthetic = e] \in EventQueues
    BY Parts DEF EventQueues
  <1>2. event' = [event EXCEPT ![v] = [event[v] EXCEPT !.synthetic = e]]
    BY DEF QueueSynthetic
  <1> QED BY <1>1, <1>2 DEF QueueSynthetic, Goto, Steps, TypeOK

\* A plugin queues its event, beside one that was lost.
LEMMA QueuePluginType ==
  ASSUME TypeOK, NEW v \in Vcpu, NEW lost \in Events, NEW e \in PluginEvents,
         QueuePlugin(v, lost, e)
  PROVE  event' \in [Vcpu -> EventQueues] /\ receiverEsr' \subseteq Vcpu
  <1> DEFINE p == IF e \in {Interrupt(i) : i \in 0..15} THEN event[v].plugin ELSE e
  <1>1. event[v] \in EventQueues
    BY Parts
  <1>2. p \in Events
    BY <1>1, EventTypes DEF EventQueues
  <1>3. event' = [event EXCEPT ![v].lost = lost, ![v].plugin = p]
    BY DEF QueuePlugin
  <1> HIDE DEF p
  <1>4. [event[v] EXCEPT !.lost = lost, !.plugin = p] \in EventQueues
    BY <1>1, <1>2 DEF EventQueues
  <1>5. event' \in [Vcpu -> EventQueues]
    BY <1>3, <1>4 DEF TypeOK
  <1>6. receiverEsr' \subseteq Vcpu
    BY DEF QueuePlugin, TypeOK
  <1> QED BY <1>5, <1>6

\* What a guest does up to an exit that needs no register of the x2APIC.
LEMMA PlainExitType ==
  ASSUME TypeOK, NEW v \in Vcpu,
         \/ ExtIntr(v) \/ WindowOpens(v) \/ Instruction(v) \/ Exception(v) \/ PluginExit(v)
         \/ ExitDuringDelivery(v) \/ EntryFails(v) \/ Shutdown(v)
  PROVE  TypeOK'
  <1>p. /\ at[v] \in Steps /\ event[v] \in EventQueues /\ vmcs[v] \in Vmcss
    BY Parts
  <1>1. CASE ExtIntr(v)
    <2>1. PICK unblock \in BOOLEAN : vmcs' = [vmcs EXCEPT ![v].nmiBlocked = @ /\ ~unblock]
      BY <1>1 DEF ExtIntr
    <2>2. [vmcs[v] EXCEPT !.nmiBlocked = @ /\ ~unblock] \in Vmcss
      BY <1>p DEF Vmcss
    <2>3. vmcs' \in [Vcpu -> Vmcss]
      BY <2>1, <2>2 DEF TypeOK
    <2> QED BY <1>1, <2>3 DEF ExtIntr, TypeOK, Goto, Steps
  <1>2. CASE WindowOpens(v)
    BY <1>2 DEF WindowOpens, TypeOK, Goto, Steps
  <1>3. CASE Instruction(v)
    <2>1. QueueSynthetic(v, Advance) \/ QueueSynthetic(v, Fault)
      BY <1>3 DEF Instruction, Cpuid, Ud, Vmcall, CrAccess, Rdmsr, Wrmsr
    <2>2. event' \in [Vcpu -> EventQueues] /\ at' \in [Vcpu -> Steps]
      BY <2>1, EventTypes, QueueSyntheticType
    <2> QED BY <1>3, <2>2 DEF Instruction, TypeOK
  <1>4. CASE Exception(v)
    <2>1. PICK unblock \in BOOLEAN : vmcs' = [vmcs EXCEPT ![v].nmiBlocked = @ /\ ~unblock]
      BY <1>4 DEF Exception
    <2>2. [vmcs[v] EXCEPT !.nmiBlocked = @ /\ ~unblock] \in Vmcss
      BY <1>p DEF Vmcss
    <2>3. vmcs' \in [Vcpu -> Vmcss]
      BY <2>1, <2>2 DEF TypeOK
    <2>4. QueueSynthetic(v, Fault) \/ (Goto(v, "receive") /\ UNCHANGED event)
      BY <1>4 DEF Exception
    <2>5. event' \in [Vcpu -> EventQueues] /\ at' \in [Vcpu -> Steps]
      BY <2>4, EventTypes, QueueSyntheticType DEF TypeOK, Goto, Steps
    <2> QED BY <1>4, <2>3, <2>5 DEF Exception, TypeOK
  <1>5. CASE PluginExit(v)
    <2>1. PICK e \in PluginEvents : QueuePlugin(v, event[v].lost, e)
      BY <1>5 DEF PluginExit
    <2>2. event[v].lost \in Events
      BY <1>p DEF EventQueues
    <2>3. event' \in [Vcpu -> EventQueues] /\ receiverEsr' \subseteq Vcpu
      BY <2>1, <2>2, QueuePluginType
    <2> QED BY <1>5, <2>3 DEF PluginExit, TypeOK, Goto, Steps
  <1>6. CASE ExitDuringDelivery(v)
    <2> DEFINE lost == vmcs[v].entry
    <2>1. lost \in Events
      BY <1>p DEF Vmcss
    <2>2. event' \in [Vcpu -> EventQueues] /\ receiverEsr' \subseteq Vcpu
      <3>1. CASE \E e \in PluginEvents : QueuePlugin(v, lost, e)
        BY <2>1, <3>1, QueuePluginType
      <3>2. CASE /\ event' = [event EXCEPT ![v].lost = lost, ![v].synthetic = Fault]
                 /\ UNCHANGED receiverEsr
        <4> HIDE DEF lost
        <4>1. [event[v] EXCEPT !.lost = lost, !.synthetic = Fault] \in EventQueues
          BY <1>p, <2>1, EventTypes DEF EventQueues
        <4> QED BY <3>2, <4>1 DEF TypeOK
      <3> QED BY <1>6, <3>1, <3>2 DEF ExitDuringDelivery
    <2>5. [vmcs[v] EXCEPT !.entry = None] \in Vmcss
      BY <1>p, EventTypes DEF Vmcss
    <2>6. vmcs' \in [Vcpu -> Vmcss]
      BY <1>6, <2>5 DEF ExitDuringDelivery, TypeOK
    <2> QED BY <1>6, <2>2, <2>6 DEF ExitDuringDelivery, TypeOK, Goto, Steps
  <1>7. CASE EntryFails(v) \/ Shutdown(v)
    BY <1>7 DEF EntryFails, Shutdown, HandleVcpuFailure, TypeOK, Goto, Steps
  <1> QED BY <1>1, <1>2, <1>3, <1>4, <1>5, <1>6, <1>7

\* What a guest does to its x2APIC.
LEMMA RegisterExitType ==
  ASSUME TypeOK, NEW v \in Vcpu,
         \/ VmxPreempt(v) \/ WriteTpr(v) \/ WriteEoi(v) \/ WriteSivr(v) \/ WriteEsr(v)
         \/ WriteLvt(v) \/ WriteInitCount(v) \/ WriteIcr(v) \/ WriteSelfIpi(v) \/ ReadIrr(v)
  PROVE  TypeOK'
  <1>p. /\ at[v] \in Steps /\ latch[v] \in Latches /\ apic[v] \in Apics
        /\ event[v] \in EventQueues /\ vmcs[v] \in Vmcss /\ task[v] \in Task
    BY Parts
  <1>q. QueueSynthetic(v, Advance) =>
          event' \in [Vcpu -> EventQueues] /\ at' \in [Vcpu -> Steps]
    BY EventTypes, QueueSyntheticType
  <1>1. CASE VmxPreempt(v)
    <2> DEFINE lvt == apic[v].lvtTimer
               e == IF ~lvt.masked /\ lvt.vector > 15 THEN Interrupt(lvt.vector) ELSE None
    <2>1. lvt.vector \in Byte /\ lvt.periodic \in BOOLEAN
      BY <1>p, Lvts DEF Apics
    <2>2. e \in Events
      BY <2>1, EventTypes
    <2>3. event' = [event EXCEPT ![v].synthetic = e]
      BY <1>1 DEF VmxPreempt
    <2>4. vmcs' = [vmcs EXCEPT ![v].timer = lvt.periodic]
      BY <1>1 DEF VmxPreempt
    <2> HIDE DEF lvt, e
    <2>5. [event[v] EXCEPT !.synthetic = e] \in EventQueues
      BY <1>p, <2>2 DEF EventQueues
    <2>6. event' \in [Vcpu -> EventQueues]
      BY <2>3, <2>5 DEF TypeOK
    <2>7. [vmcs[v] EXCEPT !.timer = lvt.periodic] \in Vmcss
      BY <1>p, <2>1 DEF Vmcss
    <2>8. vmcs' \in [Vcpu -> Vmcss]
      BY <2>4, <2>7 DEF TypeOK
    <2> QED BY <1>1, <2>6, <2>8 DEF VmxPreempt, TypeOK, Goto, Steps
  <1>2. CASE WriteTpr(v)
    <2>1. PICK t \in Tprs : apic' = [apic EXCEPT ![v].tpr = t]
      BY <1>2 DEF WriteTpr
    <2>2. [apic[v] EXCEPT !.tpr = t] \in Apics
      BY <1>p, Machine DEF Apics
    <2>3. apic' \in [Vcpu -> Apics]
      BY <2>1, <2>2 DEF TypeOK
    <2> QED BY <1>2, <1>q, <2>3 DEF WriteTpr, TypeOK
  <1>3. CASE WriteEoi(v)
    <2> DEFINE served == IF latch[v].sivr THEN apic[v].isr \ {Isrv(apic[v])} ELSE apic[v].isr
    <2>1. apic' = [apic EXCEPT ![v].isr = served]
      BY <1>3 DEF WriteEoi
    <2>2. served \in SUBSET Byte
      BY <1>p DEF Apics
    <2> HIDE DEF served
    <2>3. [apic[v] EXCEPT !.isr = served] \in Apics
      BY <1>p, <2>2 DEF Apics
    <2>4. apic' \in [Vcpu -> Apics]
      BY <2>1, <2>3 DEF TypeOK
    <2> QED BY <1>3, <1>q, <2>4 DEF WriteEoi, TypeOK
  <1>4. CASE WriteSivr(v)
    <2>1. PICK enable \in BOOLEAN :
            /\ latch' = [latch EXCEPT ![v].sivr = enable]
            /\ vmcs' = [vmcs EXCEPT ![v].timer = @ /\ enable]
      BY <1>4 DEF WriteSivr
    <2>2. [latch[v] EXCEPT !.sivr = enable] \in Latches
      BY <1>p DEF Latches
    <2>3. [vmcs[v] EXCEPT !.timer = @ /\ enable] \in Vmcss
      BY <1>p DEF Vmcss
    <2>4. latch' \in [Vcpu -> Latches] /\ vmcs' \in [Vcpu -> Vmcss]
      BY <2>1, <2>2, <2>3 DEF TypeOK
    <2> QED BY <1>4, <1>q, <2>4 DEF WriteSivr, TypeOK
  <1>5. CASE WriteEsr(v)
    <2>1. [apic[v] EXCEPT !.pendingEsr = @ /\ ~latch[v].sivr] \in Apics
      BY <1>p DEF Apics
    <2>2. apic' \in [Vcpu -> Apics]
      BY <1>5, <2>1 DEF WriteEsr, TypeOK
    <2> QED BY <1>5, <1>q, <2>2 DEF WriteEsr, TypeOK
  <1>6. CASE WriteLvt(v)
    <2>1. \A lvt \in LvtTimers : [apic[v] EXCEPT !.lvtTimer = lvt] \in Apics
      BY <1>p DEF Apics
    <2>2. \A lvt \in LvtErrors : [apic[v] EXCEPT !.lvtError = lvt] \in Apics
      BY <1>p DEF Apics
    <2>3. apic' \in [Vcpu -> Apics]
      BY <1>6, <2>1, <2>2 DEF WriteLvt, TypeOK
    <2> QED BY <1>6, <1>q, <2>3 DEF WriteLvt, TypeOK
  <1>7. CASE WriteInitCount(v)
    <2>1. PICK count \in BOOLEAN : /\ apic' = [apic EXCEPT ![v].initCount = count]
                                   /\ vmcs' = [vmcs EXCEPT ![v].timer = count]
      BY <1>7 DEF WriteInitCount
    <2>2. [apic[v] EXCEPT !.initCount = count] \in Apics
      BY <1>p DEF Apics
    <2>3. [vmcs[v] EXCEPT !.timer = count] \in Vmcss
      BY <1>p DEF Vmcss
    <2>4. apic' \in [Vcpu -> Apics] /\ vmcs' \in [Vcpu -> Vmcss]
      BY <2>1, <2>2, <2>3 DEF TypeOK
    <2> QED BY <1>7, <1>q, <2>4 DEF WriteInitCount, TypeOK
  <1>8. CASE WriteIcr(v)
    <2>1. PICK dest \in (SUBSET Vcpu) \ {{}}, ipi \in task[v].sends :
            sending' = [sending EXCEPT ![v] =
              {[to |-> u, mode |-> ipi[1], vector |-> ipi[2]] : u \in dest}]
      BY <1>8 DEF WriteIcr
    <2>2. ipi[1] \in Modes /\ ipi[2] \in Byte
      BY <1>p, Machine DEF Modes, Byte
    <2>3. {[to |-> u, mode |-> ipi[1], vector |-> ipi[2]] : u \in dest} \subseteq Packets
      BY <2>2 DEF Packets
    <2>4. sending' \in [Vcpu -> SUBSET Packets]
      BY <2>1, <2>3 DEF TypeOK
    <2>5. [event[v] EXCEPT !.synthetic = Advance] \in EventQueues
      BY <1>p, EventTypes DEF EventQueues
    <2>6. event' \in [Vcpu -> EventQueues]
      BY <1>8, <2>5 DEF WriteIcr, TypeOK
    <2> QED BY <1>8, <2>4, <2>6 DEF WriteIcr, TypeOK, Goto, Steps
  <1>9. CASE WriteSelfIpi(v)
    <2>1. PICK i \in Vector : SendPacket(v, v, "NORMAL", i)
      BY <1>9 DEF WriteSelfIpi
    <2>2. i \in Byte /\ "NORMAL" \in Modes
      BY Machine DEF Byte, Modes
    <2>3. latch' \in [Vcpu -> Latches] /\ receiverEsr' \subseteq Vcpu
      BY <2>1, <2>2, SendPacketType
    <2> QED BY <1>9, <1>q, <2>3 DEF WriteSelfIpi, TypeOK
  <1>10. CASE ReadIrr(v)
    <2>1. [apic[v] EXCEPT !.irr = @ \cup latch[v].irr] \in Apics
      BY <1>p DEF Apics, Latches
    <2>2. [latch[v] EXCEPT !.irr = {}] \in Latches
      BY <1>p DEF Latches
    <2>3. apic' \in [Vcpu -> Apics]
      BY <1>10, <2>1 DEF ReadIrr, CheckLatchedIrr, TypeOK
    <2>4. latch' \in [Vcpu -> Latches]
      BY <1>10, <2>2 DEF ReadIrr, TypeOK
    <2> QED BY <1>10, <1>q, <2>3, <2>4 DEF ReadIrr, TypeOK
  <1> QED BY <1>1, <1>2, <1>3, <1>4, <1>5, <1>6, <1>7, <1>8, <1>9, <1>10

\* What the emulator does before the events of the vCPU.
LEMMA StartupType ==
  ASSUME TypeOK, NEW v \in Vcpu,
         \/ Boot(v) \/ TripleFaultReceive(v) \/ CheckPower(v) \/ CheckInit(v) \/ CheckSipi(v)
         \/ Reset(v) \/ Release(v)
  PROVE  TypeOK'
  <1>p. /\ at[v] \in Steps /\ latch[v] \in Latches /\ apic[v] \in Apics
        /\ event[v] \in EventQueues /\ vmcs[v] \in Vmcss /\ task[v] \in Task
    BY Parts
  <1>f. HandleVcpuFailure(v) => TypeOK'
    BY DEF HandleVcpuFailure, Goto, Steps, TypeOK
  <1>r. ASSUME NEW next \in Steps, VcpuReset(v, next)
        PROVE  /\ vmcs' \in [Vcpu -> Vmcss] /\ at' \in [Vcpu -> Steps]
               /\ UNCHANGED <<task, latch, receiverEsr, event, sending, tripleFault>>
    <2>1. VmcsSetupBase(vmcs[v]) \in Vmcss
      BY <1>p DEF VmcsSetupBase, Vmcss
    <2>2. VmcsSetupGuest(VmcsSetupBase(vmcs[v])) \in Vmcss
      BY <2>1 DEF VmcsSetupGuest, Vmcss
    <2>3. vmcs' = [vmcs EXCEPT ![v] = VmcsSetupGuest(VmcsSetupBase(vmcs[v]))]
      BY <1>r DEF VcpuReset
    <2>4. at' \in [Vcpu -> Steps]
      BY <1>r DEF VcpuReset, X2apicReset, Goto, TypeOK, Steps
    <2> QED BY <1>r, <2>2, <2>3, <2>4 DEF VcpuReset, TypeOK
  <1>a. [apic[v] EXCEPT !.poweredOn = TRUE] \in Apics
    BY <1>p DEF Apics
  <1>b. ASSUME apic' = [apic EXCEPT ![v].poweredOn = TRUE]
        PROVE  apic' \in [Vcpu -> Apics]
    BY <1>a, <1>b DEF TypeOK
  <1>1. CASE Boot(v)
    <2>1. CASE VcpuReset(v, "enter") /\ apic' = [apic EXCEPT ![v].poweredOn = TRUE]
      BY <2>1, <1>r, <1>b DEF TypeOK, Steps
    <2>2. CASE ResetFails(v)
      BY <2>2, <1>f DEF ResetFails
    <2>3. CASE /\ Goto(v, "receive")
               /\ UNCHANGED <<task, latch, receiverEsr, apic, event, vmcs, sending, tripleFault>>
      BY <2>3 DEF Goto, TypeOK, Steps
    <2> QED BY <1>1, <2>1, <2>2, <2>3 DEF Boot
  <1>2. CASE TripleFaultReceive(v)
    <2>1. CASE HandleVcpuFailure(v)
      BY <2>1, <1>f
    <2>2. CASE ~HandleVcpuFailure(v)
      <3>1. at' \in [Vcpu -> Steps]
        BY <1>2, <2>2, <1>p DEF TripleFaultReceive, Goto, TypeOK, Steps, Apics
      <3> QED BY <1>2, <2>2, <3>1 DEF TripleFaultReceive, TypeOK
    <2> QED BY <2>1, <2>2
  <1>3. CASE CheckPower(v)
    <2>1. apic' \in [Vcpu -> Apics]
      BY <1>3, <1>b DEF CheckPower, TypeOK
    <2>2. at' \in [Vcpu -> Steps]
      BY <1>3 DEF CheckPower, Wait, Goto, TypeOK, Steps
    <2> QED BY <1>3, <2>1, <2>2 DEF CheckPower, TypeOK
  <1>4. CASE CheckInit(v)
    <2>1. [latch[v] EXCEPT !.initPending = FALSE, !.waitForSipi = TRUE,
                           !.nmiPending = FALSE, !.irr = {}] \in Latches
      BY <1>p DEF Latches
    <2>2. latch' \in [Vcpu -> Latches]
      <3>1. CASE UNCHANGED latch
        BY <3>1 DEF TypeOK
      <3>2. CASE latch' = [latch EXCEPT ![v].initPending = FALSE, ![v].waitForSipi = TRUE,
                                        ![v].nmiPending = FALSE, ![v].irr = {}]
        BY <3>2, <2>1 DEF TypeOK
      <3> QED BY <1>4, <3>1, <3>2 DEF CheckInit
    <2>3. at' \in [Vcpu -> Steps]
      BY <1>4 DEF CheckInit, Goto, TypeOK, Steps
    <2> QED BY <1>4, <2>2, <2>3 DEF CheckInit, TypeOK
  <1>5. CASE CheckSipi(v)
    <2>1. [latch[v] EXCEPT !.waitForSipi = ~latch[v].sipiPending, !.sipiPending = FALSE] \in Latches
      BY <1>p DEF Latches
    <2>2. latch' \in [Vcpu -> Latches]
      BY <1>5, <2>1 DEF CheckSipi, TypeOK
    <2>3. at' \in [Vcpu -> Steps]
      BY <1>5 DEF CheckSipi, Wait, Goto, TypeOK, Steps
    <2> QED BY <1>5, <2>2, <2>3 DEF CheckSipi, TypeOK
  <1>6. CASE Reset(v)
    <2>1. CASE VcpuReset(v, "esr") /\ UNCHANGED apic
      BY <2>1, <1>r DEF TypeOK, Steps
    <2>2. CASE ResetFails(v)
      BY <2>2, <1>f DEF ResetFails
    <2> QED BY <1>6, <2>1, <2>2 DEF Reset
  <1>7. CASE Release(v)
    BY <1>7 DEF Release, Goto, TypeOK, Steps
  <1> QED BY <1>1, <1>2, <1>3, <1>4, <1>5, <1>6, <1>7

\* How the emulator chooses what to inject, and how the guest goes on.
LEMMA EventManagerType ==
  ASSUME TypeOK, NEW v \in Vcpu,
         \/ CheckReceiverEsr(v) \/ EmptyLatchedIrr(v) \/ DequeueEvents(v) \/ Inject(v)
         \/ Enter(v) \/ GuestRuns(v)
  PROVE  TypeOK'
  <1>p. /\ at[v] \in Steps /\ latch[v] \in Latches /\ apic[v] \in Apics
        /\ event[v] \in EventQueues /\ vmcs[v] \in Vmcss /\ task[v] \in Task
    BY Parts
  <1>i. /\ latch[v].irr \subseteq Byte /\ apic[v].irr \subseteq Byte /\ apic[v].isr \subseteq Byte
        /\ Vector \subseteq Byte
    BY <1>p, Machine DEF Latches, Apics, Byte
  <1>1. CASE CheckReceiverEsr(v)
    <2>1. PICK new \in SUBSET Byte : latch' = [latch EXCEPT ![v].irr = @ \cup new]
      <3> DEFINE lvt == apic[v].lvtError
                 new == IF /\ v \in receiverEsr /\ ~apic[v].pendingEsr
                           /\ ~lvt.masked /\ lvt.vector > 15 /\ latch[v].sivr
                        THEN {lvt.vector} ELSE {}
      <3>1. lvt.vector \in Byte
        BY <1>p, Lvts DEF Apics
      <3>2. latch' = [latch EXCEPT ![v].irr = @ \cup new]
        BY <1>1 DEF CheckReceiverEsr
      <3>3. new \in SUBSET Byte
        BY <3>1
      <3> QED BY <3>2, <3>3
    <2>2. [latch[v] EXCEPT !.irr = @ \cup new] \in Latches
      BY <1>p DEF Latches
    <2>3. latch' \in [Vcpu -> Latches]
      BY <2>1, <2>2 DEF TypeOK
    <2>4. [apic[v] EXCEPT !.pendingEsr = @ \/ v \in receiverEsr] \in Apics
      BY <1>p DEF Apics
    <2>5. apic' \in [Vcpu -> Apics]
      BY <1>1, <2>4 DEF CheckReceiverEsr, TypeOK
    <2> QED BY <1>1, <2>3, <2>5 DEF CheckReceiverEsr, TypeOK, Goto, Steps
  <1>2. CASE EmptyLatchedIrr(v)
    <2>1. [apic[v] EXCEPT !.irr = @ \cup latch[v].irr] \in Apics
      BY <1>p DEF Apics, Latches
    <2>2. [latch[v] EXCEPT !.irr = {}] \in Latches
      BY <1>p DEF Latches
    <2>3. apic' \in [Vcpu -> Apics]
      BY <1>2, <2>1 DEF EmptyLatchedIrr, CheckLatchedIrr, TypeOK
    <2>4. latch' \in [Vcpu -> Latches]
      BY <1>2, <2>2 DEF EmptyLatchedIrr, TypeOK
    <2> QED BY <1>2, <2>3, <2>4 DEF EmptyLatchedIrr, TypeOK, Goto, Steps
  <1>3. CASE DequeueEvents(v)
    <2> DEFINE nmi == Nmi \in {event[v].synthetic, event[v].plugin}
               new == {i \in Vector : latch[v].sivr /\ event[v].synthetic = Interrupt(i)}
               plug == {i \in Vector : latch[v].sivr /\ event[v].plugin = Interrupt(i)}
    <2>1. new \subseteq Byte /\ plug \subseteq Byte /\ nmi \in BOOLEAN
      BY <1>i
    <2>2. /\ latch' = [latch EXCEPT ![v].nmiPending = @ \/ nmi, ![v].irr = @ \cup new]
          /\ apic' = [apic EXCEPT ![v].irr = @ \cup plug]
      BY <1>3 DEF DequeueEvents
    <2> HIDE DEF nmi, new, plug
    <2>3. [latch[v] EXCEPT !.nmiPending = @ \/ nmi, !.irr = @ \cup new] \in Latches
      BY <1>p, <2>1 DEF Latches
    <2>4. [apic[v] EXCEPT !.irr = @ \cup plug] \in Apics
      BY <1>p, <2>1 DEF Apics
    <2>5. latch' \in [Vcpu -> Latches] /\ apic' \in [Vcpu -> Apics]
      <3>1. latch' \in [Vcpu -> Latches]
        BY <2>2, <2>3 DEF TypeOK
      <3>2. apic' \in [Vcpu -> Apics]
        BY <2>2, <2>4 DEF TypeOK
      <3> QED BY <3>1, <3>2
    <2>6. PICK e \in Events, s \in {"none", "sti", "mov ss"} :
            vmcs' = [vmcs EXCEPT ![v].entry = e, ![v].shadow = s]
      <3>1. /\ Fault \in Events /\ event[v].lost \in Events /\ vmcs[v].entry \in Events
            /\ vmcs[v].shadow \in {"none", "sti", "mov ss"}
        BY <1>p, EventTypes DEF EventQueues, Vmcss
      <3>2. PICK faults \in BOOLEAN, skips \in BOOLEAN : vmcs' = [vmcs EXCEPT
              ![v].entry = IF faults THEN Fault
                           ELSE IF event[v].lost # None THEN event[v].lost ELSE vmcs[v].entry,
              ![v].shadow = IF skips THEN "none" ELSE vmcs[v].shadow]
        <4> DEFINE e == event[v]
                   queued == {e.synthetic, e.plugin}
                   sk == Advance \in queued
                   fa(trap) == Fault \in queued \/ (sk /\ trap)
        <4>1. PICK trap \in BOOLEAN : vmcs' = [vmcs EXCEPT
              ![v].entry = IF fa(trap) THEN Fault ELSE IF e.lost # None THEN e.lost ELSE @,
              ![v].shadow = IF sk THEN "none" ELSE @]
          BY <1>3 DEF DequeueEvents
        <4>2. fa(trap) \in BOOLEAN /\ sk \in BOOLEAN
          OBVIOUS
        <4> HIDE DEF fa, sk
        <4> QED BY <4>1, <4>2
      <3> QED BY <3>1, <3>2
    <2>7. [vmcs[v] EXCEPT !.entry = e, !.shadow = s] \in Vmcss
      BY <1>p DEF Vmcss
    <2>8. vmcs' \in [Vcpu -> Vmcss]
      BY <2>6, <2>7 DEF TypeOK
    <2>9. [synthetic |-> None, plugin |-> None, lost |-> None] \in EventQueues
      BY EventTypes DEF EventQueues
    <2>10. event' \in [Vcpu -> EventQueues]
      BY <1>3, <2>9 DEF DequeueEvents, TypeOK
    <2>11. at' \in [Vcpu -> Steps]
      BY <1>3 DEF DequeueEvents, Goto, TypeOK, Steps
    <2> QED BY <1>3, <2>5, <2>8, <2>10, <2>11 DEF DequeueEvents, TypeOK
  <1>4. CASE Inject(v)
    <2> DEFINE free == at[v] = "inject"
               nmi == /\ free /\ latch[v].nmiPending /\ ~vmcs[v].nmiBlocked
                      /\ vmcs[v].shadow # "mov ss"
               int == free /\ ~nmi /\ Pending(v) # {} /\ vmcs[v].if /\ vmcs[v].shadow = "none"
               irr == IF int THEN apic[v].irr \ Pending(v) ELSE apic[v].irr
               isr == IF int THEN apic[v].isr \cup Pending(v) ELSE apic[v].isr
               e == CASE nmi -> Nmi
                      [] int -> Interrupt(Max(Pending(v)))
                      [] OTHER -> vmcs[v].entry
               n == Window(latch[v].nmiPending, nmi)
               w == Window(Pending(v) # {}, int)
    <2>1. /\ latch' = [latch EXCEPT ![v].nmiPending = @ /\ ~nmi]
          /\ apic' = [apic EXCEPT ![v].irr = irr, ![v].isr = isr]
          /\ vmcs' = [vmcs EXCEPT ![v].entry = e, ![v].nmiWindow = n, ![v].intWindow = w]
          /\ Goto(v, "enter")
          /\ UNCHANGED <<task, receiverEsr, event, sending, tripleFault>>
      BY <1>4 DEF Inject
    <2>2. irr \subseteq Byte /\ isr \subseteq Byte /\ nmi \in BOOLEAN /\ n \in BOOLEAN /\ w \in BOOLEAN
      <3>1. Pending(v) \subseteq Byte
        BY <1>i DEF Pending
      <3> HIDE DEF nmi, int
      <3>2. irr \subseteq Byte /\ isr \subseteq Byte
        BY <1>i, <3>1
      <3>3. nmi \in BOOLEAN
        BY DEF nmi
      <3>4. n \in BOOLEAN /\ w \in BOOLEAN
        BY <1>p DEF Window, Latches
      <3> QED BY <3>2, <3>3, <3>4
    <2>3. e \in Events
      <3>1. int => Max(Pending(v)) \in Byte
        BY <1>i, MaxOf DEF Pending
      <3>2. vmcs[v].entry \in Events
        BY <1>p DEF Vmcss
      <3> HIDE DEF int, nmi
      <3> QED BY <3>1, <3>2, EventTypes
    <2> HIDE DEF free, nmi, int, irr, isr, e, n, w
    <2>4. [latch[v] EXCEPT !.nmiPending = @ /\ ~nmi] \in Latches
      BY <1>p, <2>2 DEF Latches
    <2>5. [apic[v] EXCEPT !.irr = irr, !.isr = isr] \in Apics
      BY <1>p, <2>2 DEF Apics
    <2>6. [vmcs[v] EXCEPT !.entry = e, !.nmiWindow = n, !.intWindow = w] \in Vmcss
      BY <1>p, <2>2, <2>3 DEF Vmcss
    <2>7. latch' \in [Vcpu -> Latches] /\ apic' \in [Vcpu -> Apics] /\ vmcs' \in [Vcpu -> Vmcss]
      BY <2>1, <2>4, <2>5, <2>6 DEF TypeOK
    <2> QED BY <2>1, <2>7 DEF TypeOK, Goto, Steps
  <1>5. CASE Enter(v)
    <2> DEFINE e == vmcs[v].entry
               c == [vmcs[v] EXCEPT !.entry = None, !.if = @ /\ e = None,
                      !.shadow = IF e = None THEN @ ELSE "none", !.nmiBlocked = @ \/ e = Nmi]
    <2>1. c \in Vmcss
      BY <1>p, EventTypes DEF Vmcss
    <2>2. vmcs' = [vmcs EXCEPT ![v] = c]
      BY <1>5 DEF Enter
    <2>3. vmcs' \in [Vcpu -> Vmcss]
      BY <2>1, <2>2 DEF TypeOK
    <2> QED BY <1>5, <2>3 DEF Enter, TypeOK, Goto, Steps
  <1>6. CASE GuestRuns(v)
    <2>1. /\ [vmcs[v] EXCEPT !.if = TRUE, !.shadow = "sti"] \in Vmcss
          /\ [vmcs[v] EXCEPT !.if = FALSE, !.shadow = "none"] \in Vmcss
          /\ [vmcs[v] EXCEPT !.shadow = "mov ss"] \in Vmcss
          /\ [vmcs[v] EXCEPT !.nmiBlocked = FALSE, !.shadow = "none"] \in Vmcss
          /\ [vmcs[v] EXCEPT !.shadow = "none"] \in Vmcss
      BY <1>p DEF Vmcss
    <2>2. \/ vmcs' = [vmcs EXCEPT ![v].if = TRUE, ![v].shadow = "sti"]
          \/ vmcs' = [vmcs EXCEPT ![v].if = FALSE, ![v].shadow = "none"]
          \/ vmcs' = [vmcs EXCEPT ![v].shadow = "mov ss"]
          \/ vmcs' = [vmcs EXCEPT ![v].nmiBlocked = FALSE, ![v].shadow = "none"]
          \/ vmcs' = [vmcs EXCEPT ![v].shadow = "none"]
      BY <1>6 DEF GuestRuns
    <2>3. vmcs' \in [Vcpu -> Vmcss]
      BY <2>1, <2>2 DEF TypeOK
    <2> QED BY <1>6, <2>3 DEF GuestRuns, TypeOK
  <1> QED BY <1>1, <1>2, <1>3, <1>4, <1>5, <1>6

\* What one vCPU sends another.
LEMMA SendType ==
  ASSUME TypeOK, NEW v \in Vcpu, SendIpi(v) \/ RouteIpi(v)
  PROVE  TypeOK'
  <1>1. CASE SendIpi(v)
    <2>1. PICK p \in sending[v] :
            /\ SendPacket(v, p.to, p.mode, p.vector)
            /\ sending' = [sending EXCEPT ![v] = @ \ {p}]
            /\ Goto(v, IF sending'[v] = {} THEN "receive" ELSE "send")
      BY <1>1 DEF SendIpi
    <2>2. p.to \in Vcpu /\ p.mode \in Modes /\ p.vector \in Byte
      BY Parts DEF Packets
    <2>3. latch' \in [Vcpu -> Latches] /\ receiverEsr' \subseteq Vcpu
      BY <2>1, <2>2, SendPacketType
    <2>4. sending' \in [Vcpu -> SUBSET Packets] /\ at' \in [Vcpu -> Steps]
      BY <2>1 DEF TypeOK, Goto, Steps
    <2> QED BY <1>1, <2>3, <2>4 DEF SendIpi, TypeOK
  <1>2. CASE RouteIpi(v)
    <2>1. Vector \subseteq Byte /\ 2 \in Byte /\ "NORMAL" \in Modes /\ "NMI" \in Modes
      BY Machine DEF Byte, Modes
    <2>2. PICK mode \in Modes, i \in Byte : SendPacket(v, v, mode, i)
      BY <1>2, <2>1 DEF RouteIpi
    <2>3. latch' \in [Vcpu -> Latches] /\ receiverEsr' \subseteq Vcpu
      BY <2>2, SendPacketType
    <2> QED BY <1>2, <2>3 DEF RouteIpi, TypeOK
  <1> QED BY <1>1, <1>2

\* Every step of a machine, or none, keeps the types.
LEMMA NextType == TypeOK /\ [Next]_vars => TypeOK'
  <1> SUFFICES ASSUME TypeOK, [Next]_vars PROVE TypeOK'
    OBVIOUS
  <1>1. CASE UNCHANGED vars
    BY <1>1 DEF vars, TypeOK
  <1>2. ASSUME NEW v \in Vcpu,
          Emulator(v) \/ Exit(v) \/ Enter(v) \/ GuestRuns(v) \/ Release(v) \/ RouteIpi(v)
        PROVE TypeOK'
    BY <1>2, StartupType, EventManagerType, SendType, PlainExitType, RegisterExitType
       DEF Emulator, EventManager, Exit
  <1> QED BY <1>1, <1>2 DEF Next

-----------------------------------------------------------------------------
(* What a step leaves alone.                                               *)

\* The part of LatchConsistent about one latch.
Agrees(l) == /\ ~(l.initPending /\ l.waitForSipi)
             /\ l.sipiPending => l.initPending \/ l.waitForSipi

SipiSteps == {"sipi", "read sipi", "sleep sipi"}
Open == {"enter", "guest"}

\* A step that injects nothing and takes no INIT and no SIPI, as a vCPU sees it.
Quiet(u) ==
  /\ latch'[u].waitForSipi = latch[u].waitForSipi
  /\ Agrees(latch[u]) => Agrees(latch'[u])
  /\ at'[u] \in SipiSteps => at[u] \in SipiSteps
  /\ apic'[u].isr \subseteq apic[u].isr
  /\ Requested(u) \subseteq Requested(u)'
  /\ at'[u] \in Open => \/ at[u] = "boot" /\ ~vmcs'[u].intWindow /\ apic'[u].irr = apic[u].irr
                        \/ /\ at[u] \in Open /\ apic'[u] = apic[u]
                           /\ latch'[u].sivr = latch[u].sivr
                           /\ vmcs'[u].intWindow = vmcs[u].intWindow
  /\ at'[u] = "boot" => at[u] = "boot" /\ apic'[u].irr = apic[u].irr

Same(u) == latch'[u] = latch[u] /\ at'[u] = at[u] /\ apic'[u] = apic[u] /\ vmcs'[u] = vmcs[u]

Step(v) == Emulator(v) \/ Exit(v) \/ Enter(v) \/ GuestRuns(v) \/ Release(v) \/ RouteIpi(v)

Received(u, v) == \E mode \in Modes, vector \in Byte :
  latch' = [latch EXCEPT ![u] = Packet(latch[u], mode, vector, v = u)]

\* A packet keeps what is requested and what the latches agree on.
LEMMA PacketKeeps ==
  ASSUME NEW l \in Latches, NEW mode \in Modes, NEW vector \in Byte, NEW self \in BOOLEAN
  PROVE  LET p == Packet(l, mode, vector, self) IN
         /\ p.waitForSipi = l.waitForSipi /\ p.sivr = l.sivr
         /\ l.irr \subseteq p.irr
         /\ Agrees(l) => Agrees(p)
  <1>1. CASE mode = "NORMAL" /\ l.sivr /\ vector > 15
    BY <1>1 DEF Packet, Latches, Agrees
  <1>2. CASE mode = "NORMAL" /\ ~(l.sivr /\ vector > 15)
    BY <1>2 DEF Packet, Latches, Agrees
  <1>3. CASE mode = "NMI"
    BY <1>3 DEF Packet, Latches, Agrees
  <1>4. CASE mode = "INIT"
    BY <1>4 DEF Packet, Latches, Agrees
  <1>5. CASE mode = "SIPI"
    BY <1>5 DEF Packet, Latches, Agrees
  <1> QED BY <1>1, <1>2, <1>3, <1>4, <1>5 DEF Modes

\* What does not change is quiet.
LEMMA SameIsQuiet ==
  ASSUME TypeOK, NEW u \in Vcpu, Same(u)
  PROVE  Quiet(u)
  BY DEF Same, Quiet, Agrees, Requested

\* A vCPU that sends a packet leaves the rest of the machine alone.
LEMMA SendIsQuiet ==
  ASSUME TypeOK, NEW v \in Vcpu, SendIpi(v) \/ RouteIpi(v) \/ WriteSelfIpi(v), NEW w \in Vcpu
  PROVE  Quiet(w)
  <1>1. PICK u \in Vcpu, mode \in Modes, vector \in Byte : SendPacket(v, u, mode, vector)
    <2>1. CASE SendIpi(v)
      <3>1. PICK p \in sending[v] : SendPacket(v, p.to, p.mode, p.vector)
        BY <2>1 DEF SendIpi
      <3>2. p.to \in Vcpu /\ p.mode \in Modes /\ p.vector \in Byte
        BY Parts DEF Packets
      <3> QED BY <3>1, <3>2
    <2>2. CASE RouteIpi(v) \/ WriteSelfIpi(v)
      <3>1. Vector \subseteq Byte /\ 2 \in Byte /\ "NORMAL" \in Modes /\ "NMI" \in Modes
        BY Machine DEF Byte, Modes
      <3>2. \E mode \in Modes, vector \in Byte : SendPacket(v, v, mode, vector)
        BY <2>2, <3>1 DEF RouteIpi, WriteSelfIpi
      <3> QED BY <3>2
    <2> QED BY <2>1, <2>2
  <1> DEFINE p == Packet(latch[u], mode, vector, v = u)
  <1>2. latch' = [latch EXCEPT ![u] = p]
    BY <1>1 DEF SendPacket
  <1>3. /\ p.waitForSipi = latch[u].waitForSipi /\ p.sivr = latch[u].sivr
        /\ latch[u].irr \subseteq p.irr
        /\ Agrees(latch[u]) => Agrees(p)
    BY PacketKeeps, Parts
  <1> HIDE DEF p
  <1>4. /\ latch'[w].waitForSipi = latch[w].waitForSipi /\ latch'[w].sivr = latch[w].sivr
        /\ latch[w].irr \subseteq latch'[w].irr
        /\ Agrees(latch[w]) => Agrees(latch'[w])
    BY <1>2, <1>3 DEF TypeOK
  <1>5. /\ UNCHANGED apic /\ UNCHANGED vmcs
        /\ at'[w] = at[w] \/ at'[w] \in {"receive", "send"}
    BY DEF SendIpi, RouteIpi, WriteSelfIpi, QueueSynthetic, Goto, TypeOK
  <1> QED BY <1>4, <1>5 DEF Quiet, Requested, SipiSteps, Open

\* The steps of the guest, its exits and what the emulator does for them.
LEMMA ExitIsQuiet ==
  ASSUME TypeOK, NEW v \in Vcpu, Exit(v) \/ Enter(v) \/ GuestRuns(v) \/ Release(v), NEW w \in Vcpu
  PROVE  Quiet(w)
  <1>p. /\ at[v] \in Steps /\ latch[v] \in Latches /\ apic[v] \in Apics /\ vmcs[v] \in Vmcss
        /\ at[w] \in Steps /\ latch[w] \in Latches /\ apic[w] \in Apics /\ vmcs[w] \in Vmcss
    BY Parts
  <1>0. ASSUME w # v, Exit(v) \/ Enter(v) \/ GuestRuns(v) \/ Release(v), ~WriteSelfIpi(v)
        PROVE  Same(w)
    BY <1>0 DEF Same, TypeOK, Goto, Exit, Enter, GuestRuns, Release, ExtIntr, WindowOpens,
      Instruction, Cpuid, Ud, Vmcall, CrAccess, Rdmsr, Wrmsr, Exception, PluginExit,
      ExitDuringDelivery, EntryFails, HandleVcpuFailure, VmxPreempt, WriteTpr, WriteEoi,
      WriteSivr, WriteEsr, WriteLvt, WriteInitCount, WriteIcr, Shutdown, ReadIrr, QueueSynthetic
  <1>1. CASE WriteSelfIpi(v)
    BY <1>1, SendIsQuiet
  <1>2. CASE w # v /\ ~WriteSelfIpi(v)
    BY <1>0, <1>2, SameIsQuiet
  <1>3. CASE w = v /\ ~WriteSelfIpi(v)
    <2>1. CASE ExtIntr(v) \/ WindowOpens(v) \/ Instruction(v) \/ Exception(v) \/ PluginExit(v)
               \/ ExitDuringDelivery(v) \/ EntryFails(v) \/ VmxPreempt(v) \/ WriteIcr(v)
               \/ Shutdown(v)
      <3>1. UNCHANGED <<latch, apic>> /\ at'[v] \in {"receive", "send", "failed"}
        BY <2>1 DEF Goto, TypeOK, ExtIntr, WindowOpens, Instruction, Cpuid, Ud, Vmcall, CrAccess,
          Rdmsr, Wrmsr, Exception, PluginExit, ExitDuringDelivery, EntryFails, HandleVcpuFailure,
          VmxPreempt, WriteIcr, Shutdown, QueueSynthetic
      <3> QED BY <1>3, <3>1 DEF Quiet, Agrees, Requested, SipiSteps, Open
    <2>2. CASE WriteTpr(v) \/ WriteEoi(v) \/ WriteEsr(v) \/ WriteLvt(v) \/ WriteInitCount(v)
      <3>1. /\ UNCHANGED latch /\ at'[v] = "receive"
            /\ apic'[v].irr = apic[v].irr /\ apic'[v].isr \subseteq apic[v].isr
        <4>1. UNCHANGED latch /\ at'[v] = "receive"
          BY <2>2 DEF Goto, TypeOK, WriteTpr, WriteEoi, WriteEsr, WriteLvt, WriteInitCount,
            QueueSynthetic
        <4>2. CASE WriteTpr(v)
          <5>1. PICK tpr \in Tprs : apic' = [apic EXCEPT ![v].tpr = tpr]
            BY <4>2 DEF WriteTpr
          <5>2. apic'[v] = [apic[v] EXCEPT !.tpr = tpr]
            BY <5>1 DEF TypeOK
          <5> QED BY <5>2, <4>1, <1>p DEF Apics
        <4>3. CASE WriteEoi(v)
          <5> DEFINE served == IF latch[v].sivr THEN apic[v].isr \ {Isrv(apic[v])} ELSE apic[v].isr
          <5>1. apic' = [apic EXCEPT ![v].isr = served]
            BY <4>3 DEF WriteEoi
          <5>2. served \subseteq apic[v].isr
            OBVIOUS
          <5> HIDE DEF served
          <5>3. apic'[v] = [apic[v] EXCEPT !.isr = served]
            BY <5>1 DEF TypeOK
          <5> QED BY <5>2, <5>3, <4>1, <1>p DEF Apics
        <4>4. CASE WriteEsr(v)
          <5>1. apic' = [apic EXCEPT ![v].pendingEsr = @ /\ ~latch[v].sivr]
            BY <4>4 DEF WriteEsr
          <5>2. apic'[v] = [apic[v] EXCEPT !.pendingEsr = @ /\ ~latch[v].sivr]
            BY <5>1 DEF TypeOK
          <5> QED BY <5>2, <4>1, <1>p DEF Apics
        <4>5. CASE WriteLvt(v)
          <5>1. \/ \E lvt \in LvtTimers : apic' = [apic EXCEPT ![v].lvtTimer = lvt]
                \/ \E lvt \in LvtErrors : apic' = [apic EXCEPT ![v].lvtError = lvt]
            BY <4>5 DEF WriteLvt
          <5>2. \/ \E lvt \in LvtTimers : apic'[v] = [apic[v] EXCEPT !.lvtTimer = lvt]
                \/ \E lvt \in LvtErrors : apic'[v] = [apic[v] EXCEPT !.lvtError = lvt]
            BY <5>1 DEF TypeOK
          <5> QED BY <5>2, <4>1, <1>p DEF Apics
        <4>6. CASE WriteInitCount(v)
          <5>1. PICK count \in BOOLEAN : apic' = [apic EXCEPT ![v].initCount = count]
            BY <4>6 DEF WriteInitCount
          <5>2. apic'[v] = [apic[v] EXCEPT !.initCount = count]
            BY <5>1 DEF TypeOK
          <5> QED BY <5>2, <4>1, <1>p DEF Apics
        <4> QED BY <2>2, <4>1, <4>2, <4>3, <4>4, <4>5, <4>6
      <3> QED BY <1>3, <3>1 DEF Quiet, Agrees, Requested, SipiSteps, Open
    <2>3. CASE WriteSivr(v)
      <3>1. PICK enable \in BOOLEAN : latch' = [latch EXCEPT ![v].sivr = enable]
        BY <2>3 DEF WriteSivr
      <3>2. /\ latch'[v].waitForSipi = latch[v].waitForSipi
            /\ latch'[v].initPending = latch[v].initPending
            /\ latch'[v].sipiPending = latch[v].sipiPending
            /\ latch'[v].irr = latch[v].irr
        BY <3>1, <1>p DEF TypeOK, Latches
      <3>3. UNCHANGED apic /\ at'[v] = "receive"
        BY <2>3 DEF WriteSivr, QueueSynthetic, Goto, TypeOK
      <3> QED BY <1>3, <3>2, <3>3 DEF Quiet, Agrees, Requested, SipiSteps, Open
    <2>4. CASE ReadIrr(v)
      <3>1. latch' = [latch EXCEPT ![v].irr = {}]
        BY <2>4 DEF ReadIrr
      <3>2. /\ latch'[v].waitForSipi = latch[v].waitForSipi
            /\ latch'[v].initPending = latch[v].initPending
            /\ latch'[v].sipiPending = latch[v].sipiPending
        BY <3>1, <1>p DEF TypeOK, Latches
      <3>3. at'[v] = "receive"
        BY <2>4 DEF ReadIrr, QueueSynthetic, Goto, TypeOK
      <3>4. apic'[v].irr = apic[v].irr \cup latch[v].irr /\ apic'[v].isr = apic[v].isr
        BY <2>4, <1>p DEF ReadIrr, CheckLatchedIrr, TypeOK, Apics
      <3> QED BY <1>3, <3>2, <3>3, <3>4 DEF Quiet, Agrees, Requested, SipiSteps, Open
    <2>5. CASE Enter(v) \/ GuestRuns(v)
      <3>1. UNCHANGED <<latch, apic>> /\ vmcs'[v].intWindow = vmcs[v].intWindow
        <4>1. CASE Enter(v)
          <5>1. vmcs' = [vmcs EXCEPT ![v].entry = None, ![v].if = @ /\ vmcs[v].entry = None,
                  ![v].shadow = IF vmcs[v].entry = None THEN @ ELSE "none",
                  ![v].nmiBlocked = @ \/ vmcs[v].entry = Nmi]
            BY <4>1 DEF Enter
          <5>2. vmcs'[v].intWindow = vmcs[v].intWindow
            BY <5>1, <1>p DEF TypeOK, Vmcss
          <5> QED BY <4>1, <5>2 DEF Enter
        <4>2. CASE GuestRuns(v)
          <5>1. \/ vmcs' = [vmcs EXCEPT ![v].if = TRUE, ![v].shadow = "sti"]
                \/ vmcs' = [vmcs EXCEPT ![v].if = FALSE, ![v].shadow = "none"]
                \/ vmcs' = [vmcs EXCEPT ![v].shadow = "mov ss"]
                \/ vmcs' = [vmcs EXCEPT ![v].nmiBlocked = FALSE, ![v].shadow = "none"]
                \/ vmcs' = [vmcs EXCEPT ![v].shadow = "none"]
            BY <4>2 DEF GuestRuns
          <5>2. \/ vmcs'[v] = [vmcs[v] EXCEPT !.if = TRUE, !.shadow = "sti"]
                \/ vmcs'[v] = [vmcs[v] EXCEPT !.if = FALSE, !.shadow = "none"]
                \/ vmcs'[v] = [vmcs[v] EXCEPT !.shadow = "mov ss"]
                \/ vmcs'[v] = [vmcs[v] EXCEPT !.nmiBlocked = FALSE, !.shadow = "none"]
                \/ vmcs'[v] = [vmcs[v] EXCEPT !.shadow = "none"]
            BY <5>1 DEF TypeOK
          <5>3. vmcs'[v].intWindow = vmcs[v].intWindow
            BY <5>2, <1>p DEF Vmcss
          <5> QED BY <4>2, <5>3 DEF GuestRuns
        <4> QED BY <2>5, <4>1, <4>2
      <3>2. at[v] \in Open /\ at'[v] \in Open
        BY <2>5, <1>p DEF Enter, GuestRuns, InGuest, Goto, TypeOK, Open
      <3> QED BY <1>3, <3>1, <3>2 DEF Quiet, Agrees, Requested, SipiSteps, Open
    <2>6. CASE Release(v)
      <3>1. UNCHANGED <<latch, apic, vmcs>>
        BY <2>6 DEF Release
      <3>2. \/ at'[v] = "power"
            \/ at[v] = "sleep sipi" /\ at'[v] = "sipi"
        BY <2>6 DEF Release, Goto, TypeOK
      <3> QED BY <1>3, <3>1, <3>2 DEF Quiet, Agrees, Requested, SipiSteps, Open
    <2> QED BY <1>3, <2>1, <2>2, <2>3, <2>4, <2>5, <2>6 DEF Exit
  <1> QED BY <1>1, <1>2, <1>3

\* Most of what the emulator does before a VM entry.
LEMMA EmulatorIsQuiet ==
  ASSUME TypeOK, NEW v \in Vcpu,
         \/ Boot(v) \/ TripleFaultReceive(v) \/ CheckPower(v) \/ Reset(v)
         \/ CheckReceiverEsr(v) \/ EmptyLatchedIrr(v) \/ DequeueEvents(v),
         NEW w \in Vcpu
  PROVE  Quiet(w)
  <1>p. /\ at[v] \in Steps /\ latch[v] \in Latches /\ apic[v] \in Apics /\ vmcs[v] \in Vmcss
    BY Parts
  <1>1. CASE w # v
    <2>1. Same(w)
      BY <1>1 DEF Same, TypeOK, Goto, Boot, VcpuReset, X2apicReset, ResetFails, HandleVcpuFailure,
        TripleFaultReceive, CheckPower, Wait, Reset, CheckReceiverEsr, EmptyLatchedIrr, DequeueEvents
    <2> QED BY <2>1, SameIsQuiet
  <1>2. CASE w = v
    <2> SUFFICES Quiet(v)
      BY <1>2
    <2>f. ASSUME HandleVcpuFailure(v) PROVE Quiet(v)
      <3>1. UNCHANGED <<latch, apic>> /\ at'[v] = "failed"
        BY <2>f DEF HandleVcpuFailure, Goto, TypeOK
      <3> QED BY <3>1 DEF Quiet, Agrees, Requested, SipiSteps, Open
    <2>r. ASSUME NEW next, VcpuReset(v, next)
          PROVE  ~vmcs'[v].intWindow /\ at'[v] \in {"halted", next} /\ UNCHANGED latch
      <3>1. vmcs'[v] = VmcsSetupGuest(VmcsSetupBase(vmcs[v]))
        BY <2>r DEF VcpuReset, TypeOK
      <3>2. ~vmcs'[v].intWindow
        BY <3>1, <1>p DEF VmcsSetupGuest, VmcsSetupBase, Vmcss
      <3> QED BY <2>r, <3>2 DEF VcpuReset, X2apicReset, Goto, TypeOK
    <2>a. ASSUME apic' = [apic EXCEPT ![v].poweredOn = TRUE]
          PROVE  apic'[v].irr = apic[v].irr /\ apic'[v].isr = apic[v].isr
      BY <2>a, <1>p DEF TypeOK, Apics
    <2>1. CASE Boot(v)
      <3>1. CASE VcpuReset(v, "enter") /\ apic' = [apic EXCEPT ![v].poweredOn = TRUE]
        <4>1. at[v] = "boot"
          BY <2>1 DEF Boot
        <4>2. ~vmcs'[v].intWindow /\ at'[v] \in {"halted", "enter"} /\ UNCHANGED latch
          BY <3>1, <2>r
        <4>3. apic'[v].irr = apic[v].irr /\ apic'[v].isr = apic[v].isr
          BY <3>1, <2>a
        <4> QED BY <4>1, <4>2, <4>3 DEF Quiet, Agrees, Requested, SipiSteps, Open
      <3>2. CASE ResetFails(v)
        BY <3>2, <2>f DEF ResetFails
      <3>3. CASE Goto(v, "receive") /\ UNCHANGED <<latch, apic, vmcs>>
        <4>1. at'[v] = "receive"
          BY <3>3 DEF Goto, TypeOK
        <4> QED BY <3>3, <4>1 DEF Quiet, Agrees, Requested, SipiSteps, Open
      <3> QED BY <2>1, <3>1, <3>2, <3>3 DEF Boot
    <2>2. CASE TripleFaultReceive(v)
      <3>1. CASE HandleVcpuFailure(v)
        BY <3>1, <2>f
      <3>2. CASE ~HandleVcpuFailure(v)
        <4>1. UNCHANGED <<latch, apic, vmcs>>
          BY <2>2, <3>2 DEF TripleFaultReceive
        <4>2. at'[v] \in {"init", "power", "read power"} \/ (at[v] = "sipi" /\ at'[v] = "read sipi")
          BY <2>2, <3>2, <1>p DEF TripleFaultReceive, Goto, TypeOK, Apics
        <4> QED BY <4>1, <4>2 DEF Quiet, Agrees, Requested, SipiSteps, Open
      <3> QED BY <3>1, <3>2
    <2>3. CASE CheckPower(v)
      <3>1. apic'[v].irr = apic[v].irr /\ apic'[v].isr = apic[v].isr
        BY <2>3, <2>a DEF CheckPower
      <3>2. UNCHANGED latch /\ at'[v] \in {"init", "power", "sleep power"}
        BY <2>3 DEF CheckPower, Wait, Goto, TypeOK
      <3> QED BY <3>1, <3>2 DEF Quiet, Agrees, Requested, SipiSteps, Open
    <2>4. CASE Reset(v)
      <3>1. CASE VcpuReset(v, "esr") /\ UNCHANGED apic
        <4>1. at'[v] \in {"halted", "esr"} /\ UNCHANGED latch
          BY <3>1, <2>r
        <4> QED BY <3>1, <4>1 DEF Quiet, Agrees, Requested, SipiSteps, Open
      <3>2. CASE ResetFails(v)
        BY <3>2, <2>f DEF ResetFails
      <3> QED BY <2>4, <3>1, <3>2 DEF Reset
    <2>5. CASE CheckReceiverEsr(v)
      <3>1. \E new : latch' = [latch EXCEPT ![v].irr = @ \cup new]
        BY <2>5 DEF CheckReceiverEsr
      <3>2. /\ latch'[v].waitForSipi = latch[v].waitForSipi
            /\ latch'[v].initPending = latch[v].initPending
            /\ latch'[v].sipiPending = latch[v].sipiPending
            /\ latch[v].irr \subseteq latch'[v].irr
        BY <3>1, <1>p DEF TypeOK, Latches
      <3>3. apic'[v] = [apic[v] EXCEPT !.pendingEsr = @ \/ v \in receiverEsr]
        BY <2>5 DEF CheckReceiverEsr, TypeOK
      <3>4. apic'[v].irr = apic[v].irr /\ apic'[v].isr = apic[v].isr
        BY <3>3, <1>p DEF Apics
      <3>5. at'[v] = "irr"
        BY <2>5 DEF CheckReceiverEsr, Goto, TypeOK
      <3> QED BY <3>2, <3>4, <3>5 DEF Quiet, Agrees, Requested, SipiSteps, Open
    <2>6. CASE EmptyLatchedIrr(v)
      <3>1. latch' = [latch EXCEPT ![v].irr = {}]
        BY <2>6 DEF EmptyLatchedIrr
      <3>2. /\ latch'[v].waitForSipi = latch[v].waitForSipi
            /\ latch'[v].initPending = latch[v].initPending
            /\ latch'[v].sipiPending = latch[v].sipiPending
        BY <3>1, <1>p DEF TypeOK, Latches
      <3>3. at'[v] = "dequeue"
        BY <2>6 DEF EmptyLatchedIrr, Goto, TypeOK
      <3>4. apic'[v].irr = apic[v].irr \cup latch[v].irr /\ apic'[v].isr = apic[v].isr
        BY <2>6, <1>p DEF EmptyLatchedIrr, CheckLatchedIrr, TypeOK, Apics
      <3> QED BY <3>2, <3>3, <3>4 DEF Quiet, Agrees, Requested, SipiSteps, Open
    <2>7. CASE DequeueEvents(v)
      <3>1. PICK nmi \in BOOLEAN, new \in SUBSET Vector, plug \in SUBSET Vector :
              /\ latch' = [latch EXCEPT ![v].nmiPending = @ \/ nmi, ![v].irr = @ \cup new]
              /\ apic' = [apic EXCEPT ![v].irr = @ \cup plug]
        <4> DEFINE nmi == Nmi \in {event[v].synthetic, event[v].plugin}
                   new == {i \in Vector : latch[v].sivr /\ event[v].synthetic = Interrupt(i)}
                   plug == {i \in Vector : latch[v].sivr /\ event[v].plugin = Interrupt(i)}
        <4>1. /\ latch' = [latch EXCEPT ![v].nmiPending = @ \/ nmi, ![v].irr = @ \cup new]
              /\ apic' = [apic EXCEPT ![v].irr = @ \cup plug]
          BY <2>7 DEF DequeueEvents
        <4>2. nmi \in BOOLEAN /\ new \in SUBSET Vector /\ plug \in SUBSET Vector
          OBVIOUS
        <4> HIDE DEF nmi, new, plug
        <4> QED BY <4>1, <4>2
      <3>2. /\ latch'[v] = [latch[v] EXCEPT !.nmiPending = @ \/ nmi, !.irr = @ \cup new]
            /\ apic'[v] = [apic[v] EXCEPT !.irr = @ \cup plug]
        BY <3>1 DEF TypeOK
      <3>3. /\ latch'[v].waitForSipi = latch[v].waitForSipi
            /\ latch'[v].initPending = latch[v].initPending
            /\ latch'[v].sipiPending = latch[v].sipiPending
            /\ latch[v].irr \subseteq latch'[v].irr
        BY <3>2, <1>p DEF Latches
      <3>4. apic[v].irr \subseteq apic'[v].irr /\ apic'[v].isr = apic[v].isr
        BY <3>2, <1>p DEF Apics
      <3>5. at'[v] \in {"inject", "injected"}
        BY <2>7 DEF DequeueEvents, Goto, TypeOK
      <3> QED BY <3>3, <3>4, <3>5 DEF Quiet, Agrees, Requested, SipiSteps, Open
    <2> QED BY <2>1, <2>2, <2>3, <2>4, <2>5, <2>6, <2>7
  <1> QED BY <1>1, <1>2

\* Only three steps are not quiet.
LEMMA StepIsQuiet ==
  ASSUME TypeOK, NEW v \in Vcpu, Step(v), ~CheckInit(v), ~CheckSipi(v), ~Inject(v), NEW w \in Vcpu
  PROVE  Quiet(w)
  BY SendIsQuiet, ExitIsQuiet, EmulatorIsQuiet DEF Step, Emulator, EventManager

\* Those three leave the other vCPUs alone.
LEMMA OthersAreQuiet ==
  ASSUME TypeOK, NEW v \in Vcpu, CheckInit(v) \/ CheckSipi(v) \/ Inject(v),
         NEW w \in Vcpu, w # v
  PROVE  Quiet(w)
  <1>1. Same(w)
    BY DEF Same, TypeOK, Goto, CheckInit, CheckSipi, Wait, Inject
  <1> QED BY <1>1, SameIsQuiet

-----------------------------------------------------------------------------
(* The latches.                                                            *)

\* The INIT and SIPI latches agree with each other and with the vCPU's step.
LEMMA LatchStep == TypeOK /\ LatchConsistent /\ [Next]_vars => LatchConsistent'
  <1> SUFFICES ASSUME TypeOK, LatchConsistent, [Next]_vars, NEW w \in Vcpu
               PROVE  /\ Agrees(latch'[w])
                      /\ at'[w] \in SipiSteps => latch'[w].waitForSipi
    BY DEF LatchConsistent, Agrees, SipiSteps
  <1>0. Agrees(latch[w]) /\ (at[w] \in SipiSteps => latch[w].waitForSipi)
    BY DEF LatchConsistent, Agrees, SipiSteps
  <1>q. ASSUME Quiet(w)
        PROVE  Agrees(latch'[w]) /\ (at'[w] \in SipiSteps => latch'[w].waitForSipi)
    BY <1>0, <1>q DEF Quiet
  <1>1. CASE UNCHANGED vars
    BY <1>0, <1>1 DEF vars
  <1>2. ASSUME NEW v \in Vcpu, Step(v)
        PROVE  Agrees(latch'[w]) /\ (at'[w] \in SipiSteps => latch'[w].waitForSipi)
    <2>p. latch[v] \in Latches
      BY Parts
    <2>1. CASE CheckInit(v) /\ w = v
      <3>1. CASE latch[v].initPending
        <4>1. latch'[v] = [latch[v] EXCEPT !.initPending = FALSE, !.waitForSipi = TRUE,
                                           !.nmiPending = FALSE, !.irr = {}]
          BY <2>1, <3>1 DEF CheckInit, TypeOK
        <4>2. latch'[v].waitForSipi /\ ~latch'[v].initPending
          BY <4>1, <2>p DEF Latches
        <4> QED BY <4>2, <2>1 DEF Agrees
      <3>2. CASE ~latch[v].initPending
        BY <1>0, <2>1, <3>2 DEF CheckInit, Goto, TypeOK, SipiSteps
      <3> QED BY <3>1, <3>2
    <2>2. CASE CheckSipi(v) /\ w = v
      <3>1. latch' = [latch EXCEPT ![v].waitForSipi = ~latch[v].sipiPending,
                                   ![v].sipiPending = FALSE]
        BY <2>2 DEF CheckSipi
      <3>2. latch'[v] = [latch[v] EXCEPT !.waitForSipi = ~latch[v].sipiPending,
                                         !.sipiPending = FALSE]
        BY <3>1 DEF TypeOK
      <3>3. /\ latch'[v].waitForSipi = ~latch[v].sipiPending
            /\ latch'[v].sipiPending = FALSE
            /\ latch'[v].initPending = latch[v].initPending
        BY <3>2, <2>p DEF Latches
      <3>4. at[v] = "read sipi"
        BY <2>2 DEF CheckSipi
      <3>5. latch[v].waitForSipi /\ ~latch[v].initPending
        BY <1>0, <2>2, <3>4 DEF Agrees, SipiSteps
      <3>6. at'[v] \in SipiSteps => ~latch[v].sipiPending
        BY <2>2 DEF CheckSipi, Goto, Wait, TypeOK, SipiSteps
      <3> QED BY <2>2, <3>3, <3>5, <3>6 DEF Agrees
    <2>3. CASE Inject(v) /\ w = v
      <3>1. latch'[v].waitForSipi = latch[v].waitForSipi
            /\ latch'[v].initPending = latch[v].initPending
            /\ latch'[v].sipiPending = latch[v].sipiPending
        <4>1. \E nmi \in BOOLEAN : latch' = [latch EXCEPT ![v].nmiPending = @ /\ ~nmi]
          BY <2>3 DEF Inject
        <4> QED BY <4>1, <2>p DEF TypeOK, Latches
      <3>2. at'[v] = "enter"
        BY <2>3 DEF Inject, Goto, TypeOK
      <3> QED BY <1>0, <2>3, <3>1, <3>2 DEF Agrees, SipiSteps
    <2>4. CASE w # v \/ ~(CheckInit(v) \/ CheckSipi(v) \/ Inject(v))
      BY <1>2, <1>q, <2>4, StepIsQuiet, OthersAreQuiet
    <2> QED BY <2>1, <2>2, <2>3, <2>4
  <1> QED BY <1>1, <1>2 DEF Next, Step

-----------------------------------------------------------------------------
(* What is in service, and the window.                                     *)

\* Nothing in service is of a higher class than the processor priority, which
\* is a priority.
LEMMA PprIsAbove ==
  ASSUME NEW a \in Apics
  PROVE  /\ Ppr(a) \in 0..15
         /\ \A j \in a.isr : Class(j) <= Ppr(a)
  <1>1. a.tpr \in 0..15 /\ a.isr \subseteq Byte
    BY DEF Apics
  <1>2. Isrv(a) \in Byte /\ \A j \in a.isr : j <= Isrv(a)
    <2>1. CASE a.isr = {}
      BY <2>1 DEF Isrv, Byte
    <2>2. CASE a.isr # {}
      BY <1>1, <2>2, MaxOf DEF Isrv
    <2> QED BY <2>1, <2>2
  <1>3. \A i \in Byte : Class(i) \in 0..15
    BY DEF Byte, Class
  <1>4. \A i, j \in Byte : i <= j => Class(i) <= Class(j)
    BY DEF Byte, Class
  <1> DEFINE S == {a.tpr, Class(Isrv(a))}
  <1>5. S \subseteq Byte /\ S # {}
    BY <1>1, <1>2, <1>3 DEF Byte
  <1>6. Max(S) \in S /\ \A x \in S : x <= Max(S)
    BY <1>5, MaxOf
  <1>7. Class(Isrv(a)) <= Max(S) /\ Max(S) \in 0..15
    BY <1>1, <1>2, <1>3, <1>6
  <1>8. ASSUME NEW j \in a.isr PROVE Class(j) <= Max(S)
    <2>1. Class(j) <= Class(Isrv(a)) /\ Class(j) \in 0..15 /\ Class(Isrv(a)) \in 0..15
      BY <1>1, <1>2, <1>3, <1>4
    <2> HIDE DEF S
    <2> QED BY <2>1, <1>7
  <1> QED BY <1>7, <1>8 DEF Ppr

\* An injection takes the one pending interrupt, which is above all that is in
\* service, into service, and closes the window; or it takes none, and opens the
\* window if there is one.
LEMMA InjectStep ==
  ASSUME TypeOK, NEW v \in Vcpu, Inject(v)
  PROVE  /\ latch'[v].irr = latch[v].irr /\ latch'[v].sivr = latch[v].sivr
         /\ at'[v] = "enter"
         /\ apic'[v] \in Apics
         /\ \/ \E m \in apic[v].irr :
                 /\ \A i \in apic[v].irr : i <= m
                 /\ Ppr(apic[v]) < Class(m)
                 /\ apic'[v].irr = apic[v].irr \ {m}
                 /\ apic'[v].isr = apic[v].isr \cup {m}
                 /\ ~vmcs'[v].intWindow
            \/ /\ apic'[v] = apic[v]
               /\ vmcs'[v].intWindow <=> Pending(v) # {}
  <1>p. latch[v] \in Latches /\ apic[v] \in Apics /\ vmcs[v] \in Vmcss
    BY Parts
  <1>t. apic'[v] \in Apics
    BY EventManagerType DEF TypeOK
  <1> DEFINE free == at[v] = "inject"
             nmi == /\ free /\ latch[v].nmiPending /\ ~vmcs[v].nmiBlocked
                    /\ vmcs[v].shadow # "mov ss"
             int == free /\ ~nmi /\ Pending(v) # {} /\ vmcs[v].if /\ vmcs[v].shadow = "none"
             irr == IF int THEN apic[v].irr \ Pending(v) ELSE apic[v].irr
             isr == IF int THEN apic[v].isr \cup Pending(v) ELSE apic[v].isr
             e == CASE nmi -> Nmi
                    [] int -> Interrupt(Max(Pending(v)))
                    [] OTHER -> vmcs[v].entry
             n == Window(latch[v].nmiPending, nmi)
             w == Window(Pending(v) # {}, int)
  <1>1. /\ latch' = [latch EXCEPT ![v].nmiPending = @ /\ ~nmi]
        /\ apic' = [apic EXCEPT ![v].irr = irr, ![v].isr = isr]
        /\ vmcs' = [vmcs EXCEPT ![v].entry = e, ![v].nmiWindow = n, ![v].intWindow = w]
        /\ Goto(v, "enter")
    BY DEF Inject
  <1>2. w <=> Pending(v) # {} /\ ~int
    BY DEF Window
  <1>3. int => Pending(v) # {}
    OBVIOUS
  <1>4. /\ int => irr = apic[v].irr \ Pending(v) /\ isr = apic[v].isr \cup Pending(v)
        /\ ~int => irr = apic[v].irr /\ isr = apic[v].isr
    OBVIOUS
  <1> HIDE DEF free, nmi, int, irr, isr, e, n, w
  <1>5. /\ apic'[v].irr = irr /\ apic'[v].isr = isr
        /\ irr = apic[v].irr /\ isr = apic[v].isr => apic'[v] = apic[v]
    <2>1. apic'[v] = [apic[v] EXCEPT !.irr = irr, !.isr = isr]
      BY <1>1 DEF TypeOK
    <2>2. apic'[v].irr = irr /\ apic'[v].isr = isr
      BY <2>1, <1>p DEF Apics
    <2>3. \A a \in Apics : [a EXCEPT !.irr = a.irr, !.isr = a.isr] = a
      BY DEF Apics
    <2>4. ASSUME irr = apic[v].irr, isr = apic[v].isr PROVE apic'[v] = apic[v]
      BY <2>1, <2>3, <2>4, <1>p, Zenon
    <2> QED BY <2>2, <2>4
  <1>6. vmcs'[v].intWindow = w
    <2>1. vmcs'[v] = [vmcs[v] EXCEPT !.entry = e, !.nmiWindow = n, !.intWindow = w]
      BY <1>1 DEF TypeOK
    <2> QED BY <2>1, <1>p DEF Vmcss
  <1>7. latch'[v].irr = latch[v].irr /\ latch'[v].sivr = latch[v].sivr
    <2>1. latch'[v] = [latch[v] EXCEPT !.nmiPending = @ /\ ~nmi]
      BY <1>1 DEF TypeOK
    <2> QED BY <2>1, <1>p DEF Latches
  <1>8. at'[v] = "enter"
    BY <1>1 DEF Goto, TypeOK
  <1>9. CASE int
    <2>1. PICK m \in Pending(v) : TRUE
      BY <1>3, <1>9
    <2>2. /\ m \in apic[v].irr /\ m = Max(apic[v].irr) /\ Ppr(apic[v]) < Class(m)
          /\ Pending(v) = {m}
      BY <2>1 DEF Pending
    <2>3. \A i \in apic[v].irr : i <= m
      BY <2>2, <1>p, MaxOf DEF Apics
    <2> QED BY <1>t, <1>2, <1>4, <1>5, <1>6, <1>7, <1>8, <1>9, <2>2, <2>3
  <1>10. CASE ~int
    <2>1. apic'[v] = apic[v]
      BY <1>4, <1>5, <1>10
    <2>2. vmcs'[v].intWindow <=> Pending(v) # {}
      BY <1>2, <1>6, <1>10
    <2> QED BY <1>t, <1>7, <1>8, <2>1, <2>2
  <1> QED BY <1>9, <1>10

\* The interrupts in service are of different classes.
LEMMA ServiceStep == TypeOK /\ OneServicePerClass /\ [Next]_vars => OneServicePerClass'
  <1> SUFFICES ASSUME TypeOK, OneServicePerClass, [Next]_vars, NEW w \in Vcpu,
                      NEW i \in apic'[w].isr, NEW j \in apic'[w].isr, Class(i) = Class(j)
               PROVE  i = j
    BY DEF OneServicePerClass
  <1>0. \A x, y \in apic[w].isr : Class(x) = Class(y) => x = y
    BY DEF OneServicePerClass
  <1>q. ASSUME Quiet(w) PROVE i = j
    BY <1>0, <1>q DEF Quiet
  <1>1. CASE UNCHANGED vars
    BY <1>0, <1>1 DEF vars
  <1>2. ASSUME NEW v \in Vcpu, Step(v) PROVE i = j
    <2>1. CASE (CheckInit(v) \/ CheckSipi(v)) /\ w = v
      <3>1. UNCHANGED apic
        BY <2>1 DEF CheckInit, CheckSipi
      <3> QED BY <3>1, <1>0
    <2>2. CASE Inject(v) /\ w = v
      <3>p. apic[v] \in Apics
        BY Parts
      <3>1. CASE apic'[v] = apic[v]
        BY <3>1, <2>2, <1>0
      <3>2. CASE apic'[v] # apic[v]
        <4>1. PICK m \in apic[v].irr : /\ Ppr(apic[v]) < Class(m)
                                       /\ apic'[v].isr = apic[v].isr \cup {m}
          BY <2>2, <3>2, InjectStep
        <4>2. \A x \in apic[v].isr : Class(x) < Class(m)
          <5> TAKE x \in apic[v].isr
          <5>1. Ppr(apic[v]) \in 0..15 /\ Class(x) <= Ppr(apic[v])
            BY <3>p, PprIsAbove
          <5>2. Class(x) \in Int /\ Class(m) \in Int
            BY <3>p DEF Apics, Byte, Class
          <5> QED BY <4>1, <5>1, <5>2
        <4>3. \A x \in apic[v].isr : Class(x) # Class(m)
          <5> TAKE x \in apic[v].isr
          <5>1. Class(x) \in Int /\ Class(m) \in Int
            BY <3>p DEF Apics, Byte, Class
          <5> QED BY <4>2, <5>1
        <4> QED BY <4>1, <4>3, <1>0, <2>2
      <3> QED BY <3>1, <3>2
    <2>3. CASE w # v \/ ~(CheckInit(v) \/ CheckSipi(v) \/ Inject(v))
      BY <1>2, <1>q, <2>3, StepIsQuiet, OthersAreQuiet
    <2> QED BY <2>1, <2>2, <2>3
  <1> QED BY <1>1, <1>2 DEF Next, Step

\* A vCPU that is not booted has requested nothing.
Booting == \A v \in Vcpu : at[v] = "boot" => apic[v].irr = {}

\* The window is open exactly for a guest that has an interrupt to get.
LEMMA WindowStep ==
  TypeOK /\ Booting /\ WindowMatchesIrr /\ [Next]_vars => (Booting /\ WindowMatchesIrr)'
  <1> SUFFICES ASSUME TypeOK, Booting, WindowMatchesIrr, [Next]_vars, NEW w \in Vcpu
               PROVE  /\ at'[w] = "boot" => apic'[w].irr = {}
                      /\ at'[w] \in Open => (vmcs'[w].intWindow <=> Pending(w)' # {})
    BY DEF Booting, WindowMatchesIrr, Open
  <1>0. /\ at[w] = "boot" => apic[w].irr = {}
        /\ at[w] \in Open => (vmcs[w].intWindow <=> Pending(w) # {})
    BY DEF Booting, WindowMatchesIrr, Open
  <1>q. ASSUME Quiet(w)
        PROVE  /\ at'[w] = "boot" => apic'[w].irr = {}
               /\ at'[w] \in Open => (vmcs'[w].intWindow <=> Pending(w)' # {})
    BY <1>0, <1>q DEF Quiet, Pending
  <1>1. CASE UNCHANGED vars
    BY <1>0, <1>1 DEF vars, Pending
  <1>2. ASSUME NEW v \in Vcpu, Step(v)
        PROVE  /\ at'[w] = "boot" => apic'[w].irr = {}
               /\ at'[w] \in Open => (vmcs'[w].intWindow <=> Pending(w)' # {})
    <2>1. CASE (CheckInit(v) \/ CheckSipi(v)) /\ w = v
      BY <2>1 DEF CheckInit, CheckSipi, Goto, Wait, TypeOK, Open
    <2>2. CASE Inject(v) /\ w = v
      <3>p. apic[v] \in Apics /\ apic'[v] \in Apics
        BY <2>2, Parts, InjectStep
      <3>1. CASE apic'[v] = apic[v] /\ (vmcs'[v].intWindow <=> Pending(v) # {})
        BY <3>1, <2>2, InjectStep DEF Pending
      <3>2. CASE ~(apic'[v] = apic[v] /\ (vmcs'[v].intWindow <=> Pending(v) # {}))
        <4>1. PICK m \in apic[v].irr : /\ \A i \in apic[v].irr : i <= m
                                       /\ Ppr(apic[v]) < Class(m)
                                       /\ apic'[v].irr = apic[v].irr \ {m}
                                       /\ apic'[v].isr = apic[v].isr \cup {m}
                                       /\ ~vmcs'[v].intWindow
          BY <2>2, <3>2, InjectStep
        <4>2. ASSUME NEW i \in apic'[v].irr PROVE ~(Ppr(apic'[v]) < Class(i))
          <5>1. i \in 0..255 /\ m \in 0..255 /\ i <= m
            BY <3>p, <4>1 DEF Apics, Byte
          <5>2. Class(i) <= Class(m) /\ Class(i) \in Int /\ Class(m) \in Int
            BY <5>1 DEF Class
          <5>3. Ppr(apic'[v]) \in 0..15 /\ Class(m) <= Ppr(apic'[v])
            BY <3>p, <4>1, PprIsAbove
          <5> QED BY <5>2, <5>3
        <4>3. Pending(v)' = {}
          BY <4>2 DEF Pending
        <4>4. at'[v] = "enter"
          BY <2>2, InjectStep
        <4> QED BY <2>2, <4>1, <4>3, <4>4
      <3> QED BY <3>1, <3>2
    <2>3. CASE w # v \/ ~(CheckInit(v) \/ CheckSipi(v) \/ Inject(v))
      BY <1>2, <1>q, <2>3, StepIsQuiet, OthersAreQuiet
    <2> QED BY <2>1, <2>2, <2>3
  <1> QED BY <1>1, <1>2 DEF Next, Step

\* What is requested stays so until it is in service; an INIT drops what is latched.
LEMMA RequestStep ==
  ASSUME TypeOK, [Next]_vars, NEW w \in Vcpu, NEW i \in Requested(w) \ Requested(w)'
  PROVE  i \in apic'[w].isr \/ (at[w] = "init" /\ at'[w] = "sipi" /\ i \in latch[w].irr)
  <1>q. ~Quiet(w)
    BY DEF Quiet
  <1>1. CASE UNCHANGED vars
    BY <1>1 DEF vars, Requested
  <1>2. ASSUME NEW v \in Vcpu, Step(v)
        PROVE  i \in apic'[w].isr \/ (at[w] = "init" /\ at'[w] = "sipi" /\ i \in latch[w].irr)
    <2>p. latch[v] \in Latches
      BY Parts
    <2>1. CASE CheckInit(v) /\ w = v
      <3>1. CASE UNCHANGED latch
        BY <2>1, <3>1 DEF CheckInit, Requested
      <3>2. CASE at'[v] = "sipi"
        BY <2>1, <3>2 DEF CheckInit, Requested
      <3> QED BY <2>1, <3>1, <3>2 DEF CheckInit, Goto, TypeOK
    <2>2. CASE CheckSipi(v) /\ w = v
      <3>1. latch'[v] = [latch[v] EXCEPT !.waitForSipi = ~latch[v].sipiPending,
                                         !.sipiPending = FALSE]
        BY <2>2 DEF CheckSipi, TypeOK
      <3>2. latch'[v].irr = latch[v].irr /\ UNCHANGED apic
        BY <2>2, <3>1, <2>p DEF CheckSipi, Latches
      <3> QED BY <2>2, <3>2 DEF Requested
    <2>3. CASE Inject(v) /\ w = v
      BY <2>3, InjectStep DEF Requested
    <2>4. CASE w # v \/ ~(CheckInit(v) \/ CheckSipi(v) \/ Inject(v))
      BY <1>2, <1>q, <2>4, StepIsQuiet, OthersAreQuiet
    <2> QED BY <2>1, <2>2, <2>3, <2>4
  <1> QED BY <1>1, <1>2 DEF Next, Step

-----------------------------------------------------------------------------
(* The theorems.                                                           *)

\* What the machine starts with.
LEMMA InitHolds == Init => LatchConsistent /\ OneServicePerClass /\ Booting /\ WindowMatchesIrr
  BY DEF Init, LatchConsistent, OneServicePerClass, Booting, WindowMatchesIrr

\* Every reachable state of a virtual machine is well typed.
THEOREM TypeCorrect == Spec => []TypeOK
  <1>1. Init => TypeOK
    BY InitType
  <1>2. TypeOK /\ [Next]_vars => TypeOK'
    BY NextType
  <1> QED BY <1>1, <1>2, PTL DEF Spec

\* The INIT and SIPI latches of a vCPU tell the others what it does, however the
\* vCPUs send, receive, fail and are reset.
THEOREM LatchesConsistent == Spec => []LatchConsistent
  <1>1. Init => LatchConsistent
    BY InitHolds
  <1>2. TypeOK /\ LatchConsistent /\ [Next]_vars => LatchConsistent'
    BY LatchStep
  <1> QED BY <1>1, <1>2, TypeCorrect, PTL DEF Spec

\* No two interrupts of one class are in service, whatever the guest writes to its
\* task priority, its EOI register and its APIC.
THEOREM ServiceNests == Spec => []OneServicePerClass
  <1>1. Init => OneServicePerClass
    BY InitHolds
  <1>2. TypeOK /\ OneServicePerClass /\ [Next]_vars => OneServicePerClass'
    BY ServiceStep
  <1> QED BY <1>1, <1>2, TypeCorrect, PTL DEF Spec

\* A guest runs with the window open exactly while its IRR holds an interrupt it may
\* get, whatever is still in the latch.
THEOREM WindowFollowsIrr == Spec => []WindowMatchesIrr
  <1>1. Init => Booting /\ WindowMatchesIrr
    BY InitHolds
  <1>2. TypeOK /\ (Booting /\ WindowMatchesIrr) /\ [Next]_vars => (Booting /\ WindowMatchesIrr)'
    BY WindowStep
  <1> QED BY <1>1, <1>2, TypeCorrect, PTL DEF Spec

\* No step of any vCPU loses an interrupt the APIC accepted, but for an INIT.
THEOREM NoInterruptIsLost == Spec => InterruptsAreKept
  <1>1. TypeOK /\ [Next]_vars =>
          [\A v \in Vcpu : \A i \in Requested(v) \ Requested(v)' :
             i \in apic[v].isr' \/ (at[v] = "init" /\ at[v]' = "sipi" /\ i \in latch[v].irr)]_vars
    BY RequestStep
  <1> QED BY <1>1, TypeCorrect, PTL DEF Spec, InterruptsAreKept
=============================================================================
