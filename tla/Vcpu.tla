-------------------------------- MODULE Vcpu --------------------------------
(***************************************************************************)
(* The virtual processors of one virtual machine (ia32eEmulator.c): each   *)
(* is a task that alternates between its guest and the emulator, which     *)
(* handles the VM exit, receives what the other vCPUs latched for it, and  *)
(* chooses the one event to inject on the next VM entry.                   *)
(*                                                                         *)
(* Other vCPUs touch a vCPU only through its latches, each access under    *)
(* the vCPU's latch lock and therefore one step here, through the atomic   *)
(* receiverEsr, and through the machine's tripleFault flag.  The rest of   *)
(* the state is the vCPU's own.                                            *)
(*                                                                         *)
(* ia32eEmulatorX2apicReset stores through a task pointer it never sets.   *)
(* What that does depends on what the core has mapped at address 0: either *)
(* the kernel faults and the core halts in its exception handler, or the   *)
(* stores land elsewhere and the x2APIC keeps its state; both happen here. *)
(***************************************************************************)
EXTENDS Integers, FiniteSetsExt

CONSTANTS
  Vcpu,       \* the vCPU IDs, 0..numVcpus-1
  Task,       \* what a vCPU's task may be: an LSR or a thread, what its guest
              \* does, and the <<mode, vector>> of the IPIs it sends
  Vector,     \* interrupt vectors in use
  Tprs,       \* task priorities the guests set
  LvtTimers,  \* values the guests give to LVT_TIMER
  LvtErrors,  \* and to LVT_ERROR
  None

Bsp == 0

ASSUME Machine ==
  /\ Bsp \in Vcpu /\ Vcpu \subseteq Nat
  /\ \A t \in Task : /\ t.lsr \in BOOLEAN
                     /\ t.sends \subseteq {"NORMAL", "NMI", "INIT", "SIPI"} \X (0..255)
  /\ Vector \subseteq 0..255
  /\ Tprs \subseteq 0..15
  /\ LvtTimers \subseteq [vector : Vector \cup {0}, masked : BOOLEAN, periodic : BOOLEAN]
  /\ LvtErrors \subseteq [vector : Vector \cup {0}, masked : BOOLEAN]

VARIABLES
  task,        \* vCPU -> its task; does not change
  at,          \* vCPU -> "guest", the next step of the emulator, or how it ended
  latch,       \* vCPU -> what its latch lock guards: x2apic.latch, latchedIrr, sivr
  receiverEsr, \* vCPUs with an error bit in x2apic.receiverEsr
  apic,        \* vCPU -> the rest of its x2APIC
  event,       \* vCPU -> syntheticEvent, pluginEvent and lostEvent
  vmcs,        \* vCPU -> its VMCS: guest state and controls
  sending,     \* vCPU -> the packets of its ICR write not yet sent
  tripleFault  \* domain->archInfo.ia32eInfo.tripleFault

vars == <<task, at, latch, receiverEsr, apic, event, vmcs, sending, tripleFault>>

\* Events: an exception, an NMI, an interrupt by its vector; advance skips
\* the instruction that caused the exit.
Interrupt(i) == <<"int", i>>
Nmi == <<"nmi", 2>>
Fault == <<"exception", 0>>
Advance == <<"advance", 0>>
PluginEvents == {None, Advance, Fault, Nmi} \cup {Interrupt(i) : i \in Vector}

Class(i) == i \div 16

Init ==
  /\ task \in [Vcpu -> Task]
  /\ at = [v \in Vcpu |-> "boot"]
  /\ latch = [v \in Vcpu |-> [initPending |-> FALSE, waitForSipi |-> FALSE,
       sipiPending |-> FALSE, nmiPending |-> FALSE, irr |-> {}, sivr |-> FALSE]]
  /\ receiverEsr = {}
  /\ apic = [v \in Vcpu |-> [poweredOn |-> FALSE, tpr |-> 0, irr |-> {}, isr |-> {},
       lvtTimer |-> [vector |-> 0, masked |-> FALSE, periodic |-> FALSE],
       lvtError |-> [vector |-> 0, masked |-> FALSE],
       pendingEsr |-> FALSE, initCount |-> FALSE]]
  /\ event = [v \in Vcpu |-> [synthetic |-> None, plugin |-> None, lost |-> None]]
  /\ vmcs = [v \in Vcpu |-> [if |-> FALSE, shadow |-> "none", nmiBlocked |-> FALSE,
       entry |-> None, timer |-> FALSE, nmiWindow |-> FALSE, intWindow |-> FALSE]]
  /\ sending = [v \in Vcpu |-> {}]
  /\ tripleFault = FALSE

Goto(v, step) == at' = [at EXCEPT ![v] = step]

\* ia32eEmulatorHandleVcpuFailure
HandleVcpuFailure(v) ==
  /\ tripleFault' = TRUE
  /\ Goto(v, "failed")
  /\ UNCHANGED <<task, latch, receiverEsr, apic, event, vmcs, sending>>

-----------------------------------------------------------------------------
(* The x2APIC.                                                             *)

Isrv(a) == IF a.isr = {} THEN 0 ELSE Max(a.isr)

\* (bug: what is in service does not count)
PprIsTpr(a) == a.tpr

Ppr(a) == Max({a.tpr, Class(Isrv(a))})

\* (bug: an INIT that finds the vCPU waiting for its SIPI restarts it)
PacketInitAgain(l, mode, vector, self) ==
  IF mode = "INIT" /\ ~self THEN [l EXCEPT !.initPending = TRUE, !.sipiPending = FALSE] ELSE
  IF mode = "SIPI" /\ ~self /\ (l.waitForSipi \/ l.initPending)
    THEN [l EXCEPT !.sipiPending = TRUE] ELSE l

\* the receiver's latches after a packet of ia32eEmulatorX2apicSendPacket
Packet(l, mode, vector, self) ==
  CASE mode = "NORMAL" /\ l.sivr /\ vector > 15 -> [l EXCEPT !.irr = @ \cup {vector}]
    [] mode = "NMI" -> [l EXCEPT !.nmiPending = TRUE]
    [] mode = "INIT" /\ ~self ->
         [l EXCEPT !.initPending = ~l.waitForSipi, !.sipiPending = FALSE]
    [] mode = "SIPI" /\ ~self /\ (l.waitForSipi \/ l.initPending) ->
         [l EXCEPT !.sipiPending = TRUE]
    [] OTHER -> l

\* the vCPUs that see an error in such a packet: the sender, and the receiver
\* when its APIC is enabled
IllegalVector(from, to, mode, vector) ==
  CASE mode # "NORMAL" \/ vector > 15 -> {}
    [] mode = "NORMAL" /\ vector <= 15 /\ latch[to].sivr -> {from, to}
    [] mode = "NORMAL" /\ vector <= 15 /\ ~latch[to].sivr -> {f \in {from} : latch[f].sivr}

SendPacket(from, to, mode, vector) ==
  /\ latch' = [latch EXCEPT ![to] = Packet(@, mode, vector, from = to)]
  /\ receiverEsr' = receiverEsr \cup IllegalVector(from, to, mode, vector)

\* ia32eEmulatorX2apicHandleIcrWrite sends one packet after the other, in the
\* order of the vCPU IDs
SendIpi(v) ==
  /\ at[v] = "send"
  /\ \E p \in sending[v] :
       /\ \A q \in sending[v] : p.to <= q.to
       /\ SendPacket(v, p.to, p.mode, p.vector)
       /\ sending' = [sending EXCEPT ![v] = @ \ {p}]
       /\ Goto(v, IF sending'[v] = {} THEN "receive" ELSE "send")
  /\ UNCHANGED <<task, apic, event, vmcs, tripleFault>>

\* ia32eEmulatorIpiRouter, run by a vCPU of another machine
RouteIpi(to) ==
  /\ "routed" \in task[to].does
  /\ \/ \E i \in Vector : i > 15 /\ SendPacket(to, to, "NORMAL", i)
     \/ SendPacket(to, to, "NMI", 2)
  /\ UNCHANGED <<task, at, apic, event, vmcs, sending, tripleFault>>

-----------------------------------------------------------------------------
(* The guest between two VM exits, and the exits.                          *)

InGuest(v, kind) == at[v] = "guest" /\ kind \in task[v].does

IsInterrupt(e) == e \in {Interrupt(i) : i \in Vector}

\* the processor's checks on the guest state and the event of a VM entry
Enterable(c) ==
  /\ c.shadow = "sti" => c.if
  /\ IsInterrupt(c.entry) => c.if /\ c.shadow = "none"
  /\ c.entry = Nmi => c.shadow # "mov ss"

\* The event is delivered through an interrupt gate.
Enter(v) ==
  LET e == vmcs[v].entry IN
  /\ at[v] = "enter" /\ Enterable(vmcs[v])
  /\ vmcs' = [vmcs EXCEPT ![v].entry = None, ![v].if = @ /\ e = None,
       ![v].shadow = IF e = None THEN @ ELSE "none", ![v].nmiBlocked = @ \/ e = Nmi]
  /\ Goto(v, "guest")
  /\ UNCHANGED <<task, latch, receiverEsr, apic, event, sending, tripleFault>>

\* ia32eEmulatorDispatcher, or ia32eEmulatorVcpuFailureEntry
EntryFails(v) == at[v] = "enter" /\ ~Enterable(vmcs[v]) /\ HandleVcpuFailure(v)

GuestRuns(v) ==
  /\ \/ /\ InGuest(v, "sti") /\ ~vmcs[v].if
        /\ vmcs' = [vmcs EXCEPT ![v].if = TRUE, ![v].shadow = "sti"]
     \/ /\ InGuest(v, "cli") /\ vmcs[v].if
        /\ vmcs' = [vmcs EXCEPT ![v].if = FALSE, ![v].shadow = "none"]
     \/ /\ InGuest(v, "mov ss")
        /\ vmcs' = [vmcs EXCEPT ![v].shadow = "mov ss"]
     \/ /\ InGuest(v, "iret")
        /\ vmcs' = [vmcs EXCEPT ![v].nmiBlocked = FALSE, ![v].shadow = "none"]
     \/ /\ at[v] = "guest" /\ vmcs[v].shadow # "none"
        /\ vmcs' = [vmcs EXCEPT ![v].shadow = "none"]
  /\ UNCHANGED <<task, at, latch, receiverEsr, apic, event, sending, tripleFault>>

\* ia32eEmulatorExtIntr: an interrupt of the host. The exit may have undone
\* the NMI unblocking of an IRET.
ExtIntr(v) ==
  /\ at[v] = "guest"
  /\ \E unblock \in BOOLEAN :
       vmcs' = [vmcs EXCEPT ![v].nmiBlocked = @ /\ ~unblock]
  /\ Goto(v, "receive")
  /\ UNCHANGED <<task, latch, receiverEsr, apic, event, sending, tripleFault>>

\* ia32eEmulatorNop: a window opens
WindowOpens(v) ==
  /\ at[v] = "guest" /\ vmcs[v].shadow = "none"
  /\ \/ vmcs[v].intWindow /\ vmcs[v].if
     \/ vmcs[v].nmiWindow /\ ~vmcs[v].nmiBlocked
  /\ Goto(v, "receive")
  /\ UNCHANGED <<task, latch, receiverEsr, apic, event, vmcs, sending, tripleFault>>

\* the emulator is done with the exit and queues a synthetic event
QueueSynthetic(v, e) ==
  /\ event' = [event EXCEPT ![v].synthetic = e]
  /\ Goto(v, "receive")

\* WBINVD likewise
Cpuid(v) == InGuest(v, "advance") /\ QueueSynthetic(v, Advance)

\* SGX, VMX and XSAVE instructions
Ud(v) == InGuest(v, "fault") /\ QueueSynthetic(v, Fault)

\* a system call, outside CPL 0 a fault
Vmcall(v) ==
  \/ InGuest(v, "advance") /\ QueueSynthetic(v, Advance)
  \/ InGuest(v, "fault") /\ QueueSynthetic(v, Fault)

\* CR0, when the value is valid, and reads of CR8; for writes of CR8 see WriteTpr
CrAccess(v) ==
  \/ InGuest(v, "advance") /\ QueueSynthetic(v, Advance)
  \/ InGuest(v, "fault") /\ QueueSynthetic(v, Fault)

\* A register that the emulator has, or that neither it nor a plugin has; for the
\* IRR see ReadIrr, for the plugin PluginExit.
Rdmsr(v) ==
  \/ InGuest(v, "advance") /\ QueueSynthetic(v, Advance)
  \/ InGuest(v, "fault") /\ QueueSynthetic(v, Fault)

\* likewise: the registers that only the guest reads
Wrmsr(v) ==
  \/ InGuest(v, "advance") /\ QueueSynthetic(v, Advance)
  \/ InGuest(v, "fault") /\ QueueSynthetic(v, Fault)

Instruction(v) ==
  /\ Cpuid(v) \/ Ud(v) \/ Vmcall(v) \/ CrAccess(v) \/ Rdmsr(v) \/ Wrmsr(v)
  /\ UNCHANGED <<task, latch, receiverEsr, apic, vmcs, sending, tripleFault>>

\* an exception of the guest, or an NMI of the host, which the host handles
\* within the exit; either may have undone the NMI unblocking of an IRET
Exception(v) ==
  /\ \/ InGuest(v, "fault") /\ QueueSynthetic(v, Fault)
     \/ at[v] = "guest" /\ Goto(v, "receive") /\ UNCHANGED event
  /\ \E unblock \in BOOLEAN :
       vmcs' = [vmcs EXCEPT ![v].nmiBlocked = @ /\ ~unblock]
  /\ UNCHANGED <<task, latch, receiverEsr, apic, sending, tripleFault>>

\* ia32eEmulatorCallbackQueueEventSynthetic, in an exit that found this event lost
QueuePlugin(v, lost, e) ==
  LET illegal == e \in {Interrupt(i) : i \in 0..15} IN
  /\ event' = [event EXCEPT ![v].lost = lost, ![v].plugin = IF illegal THEN @ ELSE e]
  /\ receiverEsr' = receiverEsr \cup (IF illegal /\ latch[v].sivr THEN {v} ELSE {})

\* exits a plugin handles (I/O, EPT, other MSRs), or that fail
PluginExit(v) ==
  /\ InGuest(v, "plugin")
  /\ \E e \in PluginEvents : QueuePlugin(v, event[v].lost, e)
  /\ Goto(v, "receive")
  /\ UNCHANGED <<task, latch, apic, vmcs, sending, tripleFault>>

\* ia32eEmulatorCatchLostEvent: the delivery itself exits, for an exception or
\* for an EPT fault that a plugin handles
ExitDuringDelivery(v) ==
  LET lost == vmcs[v].entry IN
  /\ at[v] = "enter" /\ Enterable(vmcs[v])
  /\ lost # None /\ "lost" \in task[v].does
  /\ vmcs' = [vmcs EXCEPT ![v].entry = None]
  /\ \/ /\ event' = [event EXCEPT ![v].lost = lost, ![v].synthetic = Fault]
        /\ UNCHANGED receiverEsr
     \/ \E e \in PluginEvents : QueuePlugin(v, lost, e)
  /\ Goto(v, "receive")
  /\ UNCHANGED <<task, latch, apic, sending, tripleFault>>

-----------------------------------------------------------------------------
(* The x2APIC registers: ia32eEmulatorWrmsr, ia32eEmulatorRdmsr.           *)

WriteTpr(v) ==
  /\ InGuest(v, "tpr")
  /\ \E tpr \in Tprs : apic' = [apic EXCEPT ![v].tpr = tpr]
  /\ QueueSynthetic(v, Advance)
  /\ UNCHANGED <<task, latch, receiverEsr, vmcs, sending, tripleFault>>

WriteEoi(v) ==
  /\ InGuest(v, "eoi")
  /\ apic' = [apic EXCEPT ![v].isr = IF latch[v].sivr THEN @ \ {Isrv(apic[v])} ELSE @]
  /\ QueueSynthetic(v, Advance)
  /\ UNCHANGED <<task, latch, receiverEsr, vmcs, sending, tripleFault>>

WriteSivr(v) ==
  /\ InGuest(v, "sivr")
  /\ \E enable \in BOOLEAN :
       /\ latch' = [latch EXCEPT ![v].sivr = enable]
       /\ vmcs' = [vmcs EXCEPT ![v].timer = @ /\ enable]
  /\ QueueSynthetic(v, Advance)
  /\ UNCHANGED <<task, receiverEsr, apic, sending, tripleFault>>

WriteEsr(v) ==
  /\ InGuest(v, "esr")
  /\ apic' = [apic EXCEPT ![v].pendingEsr = @ /\ ~latch[v].sivr]
  /\ QueueSynthetic(v, Advance)
  /\ UNCHANGED <<task, latch, receiverEsr, vmcs, sending, tripleFault>>

WriteLvt(v) ==
  /\ \/ /\ InGuest(v, "timer")
        /\ \E lvt \in LvtTimers : apic' = [apic EXCEPT ![v].lvtTimer = lvt]
     \/ /\ InGuest(v, "error")
        /\ \E lvt \in LvtErrors : apic' = [apic EXCEPT ![v].lvtError = lvt]
  /\ QueueSynthetic(v, Advance)
  /\ UNCHANGED <<task, latch, receiverEsr, vmcs, sending, tripleFault>>

\* TIMER_INIT_COUNT and ia32eEmulatorX2apicResetCounter
WriteInitCount(v) ==
  /\ InGuest(v, "timer")
  /\ \E count \in BOOLEAN :
       /\ apic' = [apic EXCEPT ![v].initCount = count]
       /\ vmcs' = [vmcs EXCEPT ![v].timer = count]
  /\ QueueSynthetic(v, Advance)
  /\ UNCHANGED <<task, latch, receiverEsr, sending, tripleFault>>

\* ICR, by ia32eEmulatorX2apicHandleIcrWrite: any set of vCPUs has a logical
\* destination or a shorthand
WriteIcr(v) ==
  /\ InGuest(v, "icr")
  /\ \E dest \in (SUBSET Vcpu) \ {{}}, ipi \in task[v].sends :
       sending' = [sending EXCEPT ![v] =
         {[to |-> u, mode |-> ipi[1], vector |-> ipi[2]] : u \in dest}]
  /\ event' = [event EXCEPT ![v].synthetic = Advance]
  /\ Goto(v, "send")
  /\ UNCHANGED <<task, latch, receiverEsr, apic, vmcs, tripleFault>>

WriteSelfIpi(v) ==
  /\ InGuest(v, "self ipi")
  /\ \E i \in Vector : SendPacket(v, v, "NORMAL", i)
  /\ QueueSynthetic(v, Advance)
  /\ UNCHANGED <<task, apic, vmcs, sending, tripleFault>>

\* the SHUTDOWN register, a triple fault or task switch, an access no plugin
\* handles
Shutdown(v) == InGuest(v, "shutdown") /\ HandleVcpuFailure(v)

\* what CheckLatchedIrr does to the APIC; (bug: it forgets what was requested)
CheckLatchedIrrAssigns(a, latched) == [a EXCEPT !.irr = latched]

CheckLatchedIrr(a, latched) == [a EXCEPT !.irr = @ \cup latched]

ReadIrr(v) ==
  /\ InGuest(v, "irr")
  /\ apic' = [apic EXCEPT ![v] = CheckLatchedIrr(@, latch[v].irr)]
  /\ latch' = [latch EXCEPT ![v].irr = {}]
  /\ QueueSynthetic(v, Advance)
  /\ UNCHANGED <<task, receiverEsr, vmcs, sending, tripleFault>>

\* The timer reaches 0. A periodic one starts again.
VmxPreempt(v) ==
  LET lvt == apic[v].lvtTimer IN
  /\ at[v] = "guest" /\ vmcs[v].timer
  /\ event' = [event EXCEPT ![v].synthetic =
       IF ~lvt.masked /\ lvt.vector > 15 THEN Interrupt(lvt.vector) ELSE None]
  /\ receiverEsr' = receiverEsr \cup
       (IF ~lvt.masked /\ lvt.vector <= 15 THEN {v} ELSE {})
  /\ vmcs' = [vmcs EXCEPT ![v].timer = lvt.periodic]
  /\ Goto(v, "receive")
  /\ UNCHANGED <<task, latch, apic, sending, tripleFault>>

Exit(v) ==
  \/ ExtIntr(v) \/ WindowOpens(v) \/ Instruction(v) \/ Exception(v) \/ PluginExit(v)
  \/ ExitDuringDelivery(v) \/ EntryFails(v) \/ VmxPreempt(v)
  \/ WriteTpr(v) \/ WriteEoi(v) \/ WriteSivr(v) \/ WriteEsr(v) \/ WriteLvt(v)
  \/ WriteInitCount(v) \/ WriteIcr(v) \/ WriteSelfIpi(v) \/ Shutdown(v) \/ ReadIrr(v)

-----------------------------------------------------------------------------
(* ia32eEmulatorEventManager, before the next VM entry.                    *)

\* the controls start with no timer and no window; what is to be injected and
\* the interruptibility of the guest are not written
VmcsSetupBase(c) == [c EXCEPT !.timer = FALSE, !.nmiWindow = FALSE, !.intWindow = FALSE]

VmcsSetupGuest(c) == [c EXCEPT !.if = FALSE]

\* see the head of the module
X2apicReset(v, next) == Goto(v, "halted") \/ Goto(v, next)

VcpuReset(v, next) ==
  /\ vmcs' = [vmcs EXCEPT ![v] = VmcsSetupGuest(VmcsSetupBase(@))]
  /\ X2apicReset(v, next)
  /\ UNCHANGED <<task, latch, receiverEsr, event, sending, tripleFault>>

\* ia32eEmulatorRegsReset: the plugin refuses to reset its part
ResetFails(v) == "reset fails" \in task[v].does /\ HandleVcpuFailure(v)

\* ia32eEmulatorBootManager
Boot(v) ==
  /\ at[v] = "boot"
  /\ \/ v = Bsp /\ VcpuReset(v, "enter") /\ apic' = [apic EXCEPT ![v].poweredOn = TRUE]
     \/ v = Bsp /\ ResetFails(v)
     \/ /\ v # Bsp /\ Goto(v, "receive")
        /\ UNCHANGED <<task, latch, receiverEsr, apic, event, vmcs, sending, tripleFault>>

\* the steps that run ia32eEmulatorTripleFaultReceive; (bug: not while the
\* vCPU waits for its SIPI)
ReceivingButSipi == {"receive", "power"}

Receiving == {"receive", "power", "sipi"}

TripleFaultReceive(v) ==
  /\ at[v] \in {"receive", "power", "sipi"}
  /\ \/ tripleFault /\ at[v] \in Receiving /\ HandleVcpuFailure(v)
     \/ /\ ~tripleFault \/ at[v] \notin Receiving
        /\ Goto(v, CASE at[v] = "receive" /\ apic[v].poweredOn -> "init"
                     [] at[v] = "receive" /\ ~apic[v].poweredOn -> "power"
                     [] at[v] = "power" -> "read power"
                     [] at[v] = "sipi" -> "read sipi")
        /\ UNCHANGED <<task, latch, receiverEsr, apic, event, vmcs, sending, tripleFault>>

\* ia32eEmulatorWait: a thread yields and tries again; an LSR is done, until
\* its interrupt releases it again
Wait(v, step) ==
  Goto(v, IF ~task[v].lsr THEN step ELSE IF step = "power" THEN "sleep power" ELSE "sleep sipi")

Release(v) ==
  /\ \/ at[v] = "sleep power" /\ Goto(v, "power")
     \/ at[v] = "sleep sipi" /\ Goto(v, "sipi")
  /\ UNCHANGED <<task, latch, receiverEsr, apic, event, vmcs, sending, tripleFault>>

CheckPower(v) ==
  /\ at[v] = "read power"
  /\ \/ latch[v].initPending /\ Goto(v, "init") /\ apic' = [apic EXCEPT ![v].poweredOn = TRUE]
     \/ ~latch[v].initPending /\ Wait(v, "power") /\ UNCHANGED apic
  /\ UNCHANGED <<task, latch, receiverEsr, event, vmcs, sending, tripleFault>>

CheckInit(v) ==
  /\ at[v] = "init"
  /\ \/ /\ latch[v].initPending /\ Goto(v, "sipi")
        /\ latch' = [latch EXCEPT ![v].initPending = FALSE, ![v].waitForSipi = TRUE,
                                  ![v].nmiPending = FALSE, ![v].irr = {}]
     \/ ~latch[v].initPending /\ Goto(v, "esr") /\ UNCHANGED latch
  /\ UNCHANGED <<task, receiverEsr, apic, event, vmcs, sending, tripleFault>>

CheckSipi(v) ==
  /\ at[v] = "read sipi"
  /\ latch' = [latch EXCEPT ![v].waitForSipi = ~latch[v].sipiPending, ![v].sipiPending = FALSE]
  /\ IF latch[v].sipiPending THEN Goto(v, "reset") ELSE Wait(v, "sipi")
  /\ UNCHANGED <<task, receiverEsr, apic, event, vmcs, sending, tripleFault>>

Reset(v) ==
  /\ at[v] = "reset"
  /\ \/ VcpuReset(v, "esr") /\ UNCHANGED apic
     \/ ResetFails(v)

CheckReceiverEsr(v) ==
  LET lvt == apic[v].lvtError
      raise == v \in receiverEsr /\ ~apic[v].pendingEsr /\ ~lvt.masked /\ lvt.vector > 15
  IN
  /\ at[v] = "esr"
  /\ receiverEsr' = receiverEsr \ {v}
  /\ latch' = [latch EXCEPT ![v].irr = @ \cup
       IF raise /\ latch[v].sivr THEN {lvt.vector} ELSE {}]
  /\ apic' = [apic EXCEPT ![v].pendingEsr = @ \/ v \in receiverEsr]
  /\ Goto(v, "irr")
  /\ UNCHANGED <<task, event, vmcs, sending, tripleFault>>

EmptyLatchedIrr(v) ==
  /\ at[v] = "irr"
  /\ apic' = [apic EXCEPT ![v] = CheckLatchedIrr(@, latch[v].irr)]
  /\ latch' = [latch EXCEPT ![v].irr = {}]
  /\ Goto(v, "dequeue")
  /\ UNCHANGED <<task, receiverEsr, event, vmcs, sending, tripleFault>>

\* The events of the last exit, in this order. One that is delivered at once
\* replaces the one before it, as does the trap of a guest that steps past an
\* instruction it skips; without that trap an interrupt may still follow.
DequeueEvents(v) ==
  LET e == event[v]
      queued == {e.synthetic, e.plugin}
      nmi == Nmi \in queued
  IN
  /\ at[v] = "dequeue"
  /\ \E trap \in BOOLEAN :
       LET skips == Advance \in queued
           faults == Fault \in queued \/ (skips /\ trap)
       IN
       /\ skips \/ ~trap
       /\ vmcs' = [vmcs EXCEPT
            ![v].entry = IF faults THEN Fault ELSE IF e.lost # None THEN e.lost ELSE @,
            ![v].shadow = IF skips THEN "none" ELSE @]
       /\ Goto(v, IF faults \/ (e.lost # None /\ ~skips) THEN "injected" ELSE "inject")
  /\ latch' = [latch EXCEPT ![v].nmiPending = @ \/ nmi, ![v].irr = @ \cup
       {i \in Vector : latch[v].sivr /\ e.synthetic = Interrupt(i)}]
  /\ apic' = [apic EXCEPT ![v].irr = @ \cup
       {i \in Vector : latch[v].sivr /\ e.plugin = Interrupt(i)}]
  /\ event' = [event EXCEPT ![v] = [synthetic |-> None, plugin |-> None, lost |-> None]]
  /\ UNCHANGED <<task, receiverEsr, sending, tripleFault>>

\* x2APIC interrupts the guest may get now
Pending(v) ==
  {i \in apic[v].irr : latch[v].sivr /\ i = Max(apic[v].irr) /\ Ppr(apic[v]) < Class(i)}

\* (bug: what has just been injected opens a window, too)
WindowForAll(pending, injected) == pending

Window(pending, injected) == pending /\ ~injected

\* Steps 6 and 7: an NMI, or an interrupt, if nothing is injected yet; what
\* stays pending opens a window.
Inject(v) ==
  LET free == at[v] = "inject"
      nmi == free /\ latch[v].nmiPending /\ ~vmcs[v].nmiBlocked /\ vmcs[v].shadow # "mov ss"
      int == free /\ ~nmi /\ Pending(v) # {} /\ vmcs[v].if /\ vmcs[v].shadow = "none"
  IN
  /\ at[v] \in {"inject", "injected"}
  /\ latch' = [latch EXCEPT ![v].nmiPending = @ /\ ~nmi]
  /\ apic' = [apic EXCEPT ![v].irr = IF int THEN @ \ Pending(v) ELSE @,
                          ![v].isr = IF int THEN @ \cup Pending(v) ELSE @]
  /\ vmcs' = [vmcs EXCEPT
       ![v].entry = CASE nmi -> Nmi
                      [] int -> Interrupt(Max(Pending(v)))
                      [] OTHER -> @,
       ![v].nmiWindow = Window(latch[v].nmiPending, nmi),
       ![v].intWindow = Window(Pending(v) # {}, int)]
  /\ Goto(v, "enter")
  /\ UNCHANGED <<task, receiverEsr, event, sending, tripleFault>>

EventManager(v) ==
  \/ TripleFaultReceive(v) \/ CheckPower(v) \/ CheckInit(v) \/ CheckSipi(v) \/ Reset(v)
  \/ CheckReceiverEsr(v) \/ EmptyLatchedIrr(v) \/ DequeueEvents(v) \/ Inject(v)

Emulator(v) == Boot(v) \/ SendIpi(v) \/ EventManager(v)

Next == \E v \in Vcpu :
  Emulator(v) \/ Exit(v) \/ Enter(v) \/ GuestRuns(v) \/ Release(v) \/ RouteIpi(v)

\* The policy keeps giving a thread its time. Its guest cannot keep the core:
\* the host's tick ends it.
Fairness == \A v \in Vcpu :
  /\ WF_vars(~task[v].lsr /\ Emulator(v))
  /\ WF_vars(~task[v].lsr /\ (Enter(v) \/ EntryFails(v)))
  /\ WF_vars(~task[v].lsr /\ ExtIntr(v))

Spec == Init /\ [][Next]_vars /\ Fairness

-----------------------------------------------------------------------------
(* Properties.                                                             *)

\* The interrupts a vCPU has in service are of different priority classes:
\* one interrupts another only if it is more urgent, whatever the guest did to
\* its task priority, its EOIs and its APIC in between.
OneServicePerClass == \A v \in Vcpu : \A i, j \in apic[v].isr :
  Class(i) = Class(j) => i = j

\* A guest runs with the interrupt window open exactly while the IRR of its APIC
\* holds an interrupt that it may get: otherwise that interrupt stays until some
\* other exit, or the vCPU exits forever.  This is about the IRR alone.  What is
\* still in the latch counts as soon as the vCPU empties it, before its next entry.
WindowMatchesIrr == \A v \in Vcpu : at[v] \in {"enter", "guest"} =>
  (vmcs[v].intWindow <=> Pending(v) # {})

\* The INIT and SIPI latches that the other vCPUs set tell them what the vCPU
\* does: it waits for a SIPI or has an INIT to notice, never both, and a SIPI is
\* only latched for one that comes to read it.
LatchConsistent == \A v \in Vcpu :
  /\ ~(latch[v].initPending /\ latch[v].waitForSipi)
  /\ latch[v].sipiPending => latch[v].initPending \/ latch[v].waitForSipi
  /\ at[v] \in {"sipi", "read sipi", "sleep sipi"} => latch[v].waitForSipi

Requested(v) == latch[v].irr \cup apic[v].irr

\* ia32eEmulator.c:3139 says of what follows it that it will "trigger an exit if we
\* have any events still pending": whatever the APIC accepted, in the latch or in
\* the IRR, and the guest may get by its priority, opens the interrupt window.
PendingOpensWindow == \A v \in Vcpu : at[v] = "enter" =>
  \A i \in Requested(v) :
    latch[v].sivr /\ Ppr(apic[v]) < Class(i) => vmcs[v].intWindow

\* An interrupt that the APIC accepted is kept, in the latch and then in the
\* IRR, until it is in service; only an INIT drops it, and only from the latch.
InterruptsAreKept == [][
  \A v \in Vcpu : \A i \in Requested(v) \ Requested(v)' :
    i \in apic[v].isr' \/ (at[v] = "init" /\ at[v]' = "sipi" /\ i \in latch[v].irr)]_vars

Ended(v) == at[v] \in {"failed", "halted"}

\* What is latched for a vCPU that is a thread is read, whatever it does, and
\* when one vCPU of the machine fails the others stop too.
EveryVcpuResponds == \A v \in Vcpu :
  /\ ~task[v].lsr /\ (latch[v].initPending \/ latch[v].sipiPending) ~>
       Ended(v) \/ ~(latch[v].initPending \/ latch[v].sipiPending)
  /\ ~task[v].lsr /\ latch[v].irr # {} ~>
       Ended(v) \/ latch[v].irr = {} \/ latch[v].waitForSipi
  /\ ~task[v].lsr /\ tripleFault ~> Ended(v)
=============================================================================
