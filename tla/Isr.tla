-------------------------------- MODULE Isr --------------------------------
(***************************************************************************)
(* Interrupts and exceptions of one core: delivery by its local APIC above *)
(* the task priority, the bookkeeping of ia32eIsrHandler, the release of   *)
(* the LSRs of a vector, and the exception lock that this core shares with *)
(* the others, on which a fault of the kernel ends.                        *)
(*                                                                         *)
(* The handlers run with interrupts disabled, but an NMI comes between any *)
(* two of their steps, and an exception of the kernel in the middle of     *)
(* one. Every assignment to the per-CPU data is a step. System calls that  *)
(* change a task's state disable interrupts and are one step each.         *)
(***************************************************************************)
EXTENDS Tpr, McsLock

CONSTANTS Lsr,        \* the LSRs among the tasks
          LsrVector,  \* LSR -> the vector that releases it
          ThisCore,   \* one of the nodes of the exception lock
          MaxNmi      \* bound on the NMIs that this core gets

KEvent == 254
KFakeIsr == 253
Spurious == 255
NmiVector == 2
UserException == 0   \* any exception of user code
KernelException == 14

Class(vector) == vector \div 16

ASSUME Vectors ==
  /\ Lsr \subseteq Task /\ ThisCore \in Node
  /\ \A l \in Lsr : LsrVector[l] \in 32..239 /\ Class(LsrVector[l]) = TaskTpr[l]

VARIABLES
  apicIrr,      \* vectors requested at the local APIC
  apicIsr,      \* vectors in service
  lsrs,         \* cpu->lsrs: vector -> its dormant LSRs
  frames,       \* the frames of the handlers under way, innermost last
  inIsr, external, currentFrame, topFrame,  \* of the per-CPU data; a frame is
                \* its position in frames, and 0 is NULL
  selfIpiFn,    \* cpu->selfIpiFn is set
  faulted,      \* cores whose kernel raised an exception
  nmisLeft

cpuVars == <<inIsr, external, currentFrame, topFrame>>
isrVars == <<apicIrr, apicIsr, lsrs, frames, cpuVars, selfIpiFn, faulted, nmisLeft>>
allVars == <<vars, lockVars, isrVars>>

Line == {LsrVector[l] : l \in Lsr} \cup {KEvent}

\* Some LSRs may have failed, and so may the kernel of other cores.
IsrStart(dormant, halted) ==
  /\ Init /\ LockInit
  /\ apicIrr = {} /\ apicIsr = {}
  /\ lsrs = [v \in Line |-> {l \in dormant : LsrVector[l] = v}]
  /\ frames = <<>>
  /\ inIsr = FALSE /\ external = FALSE /\ currentFrame = 0 /\ topFrame = 0
  /\ selfIpiFn = FALSE
  /\ faulted = halted

IsrInit == IsrStart(Lsr, {}) /\ nmisLeft = MaxNmi

-----------------------------------------------------------------------------
(* The processor.                                                          *)

Push(vector) ==
  frames' = Append(frames, [vector |-> vector, step |-> "read", wasInIsr |-> FALSE,
                            wasExternal |-> FALSE, external |-> FALSE, oldFrame |-> 0])

\* No handler runs, and interrupts are enabled.
Interruptible == frames = <<>> /\ ThisCore \notin faulted

Request(v) ==
  /\ apicIrr' = apicIrr \cup {v}
  /\ UNCHANGED <<vars, lockVars, apicIsr, lsrs, frames, cpuVars, selfIpiFn, faulted, nmisLeft>>

\* the most urgent request above the task priority
Accept(v) ==
  /\ Interruptible
  /\ v \in apicIrr /\ \A w \in apicIrr \cup apicIsr : w <= v
  /\ v \notin apicIsr /\ Class(v) > tpr
  /\ apicIrr' = apicIrr \ {v} /\ apicIsr' = apicIsr \cup {v}
  /\ Push(v)
  /\ UNCHANGED <<vars, lockVars, lsrs, cpuVars, selfIpiFn, faulted, nmisLeft>>

\* what else starts a handler in code that can be interrupted
Trap(vector) ==
  /\ Interruptible
  /\ \/ vector = Spurious
     \/ vector = UserException /\ handoffDone /\ activated # {}
  /\ Push(vector)
  /\ UNCHANGED <<vars, lockVars, apicIrr, apicIsr, lsrs, cpuVars, selfIpiFn, faulted, nmisLeft>>

\* ia32eCpuSelfIpi: the handoff by the boot processor, or a scheduling call of
\* the running task
SelfIpi ==
  /\ Interruptible /\ gPluginsDone
  /\ handoffDone => activated # {}
  /\ selfIpiFn' = TRUE
  /\ Push(KFakeIsr)
  /\ UNCHANGED <<vars, lockVars, apicIrr, apicIsr, lsrs, cpuVars, faulted, nmisLeft>>

Nmi ==
  /\ nmisLeft > 0 /\ \A i \in DOMAIN frames : frames[i].vector # NmiVector
  /\ Push(NmiVector)
  /\ nmisLeft' = nmisLeft - 1
  /\ UNCHANGED <<vars, lockVars, apicIrr, apicIsr, lsrs, cpuVars, selfIpiFn, faulted>>

\* a handler's main part, or kernel code outside of one, faults
KernelFault ==
  /\ ThisCore \notin faulted
  /\ frames # <<>> => frames[Len(frames)].step = "main"
  /\ faulted' = faulted \cup {ThisCore}
  /\ Push(KernelException)
  /\ UNCHANGED <<vars, lockVars, apicIrr, apicIsr, lsrs, cpuVars, selfIpiFn, nmisLeft>>

-----------------------------------------------------------------------------
(* ia32eIsrHandler.                                                        *)

Top == frames[Len(frames)]
AtStep(step) == frames # <<>> /\ Top.step = step
StepTo(step) == frames' = [frames EXCEPT ![Len(frames)].step = step]

ReadCpu ==
  /\ AtStep("read")
  /\ frames' = [frames EXCEPT ![Len(frames)] =
       [@ EXCEPT !.step = "set inIsr", !.wasInIsr = inIsr, !.wasExternal = external,
                 !.external = ~inIsr /\ Top.vector \in apicIsr,
                 !.oldFrame = currentFrame]]
  /\ UNCHANGED cpuVars

SetInIsr ==
  /\ AtStep("set inIsr") /\ StepTo("set external")
  /\ inIsr' = TRUE /\ UNCHANGED <<external, currentFrame, topFrame>>

SetExternal ==
  /\ AtStep("set external") /\ StepTo("set frame")
  /\ external' = Top.external /\ UNCHANGED <<inIsr, currentFrame, topFrame>>

SetFrame ==
  /\ AtStep("set frame") /\ StepTo("set top")
  /\ currentFrame' = Len(frames) /\ UNCHANGED <<inIsr, external, topFrame>>

\* (bug: a nested handler becomes the one whose frame is switched)
SetTopAlways ==
  /\ AtStep("set top") /\ StepTo("main")
  /\ topFrame' = Len(frames) /\ UNCHANGED <<inIsr, external, currentFrame>>

SetTop ==
  /\ AtStep("set top") /\ StepTo("main")
  /\ topFrame' = IF Top.wasInIsr THEN topFrame ELSE Len(frames)
  /\ UNCHANGED <<inIsr, external, currentFrame>>

RestoreInIsr ==
  /\ AtStep("restore inIsr") /\ StepTo("restore external")
  /\ inIsr' = Top.wasInIsr /\ UNCHANGED <<external, currentFrame, topFrame>>

RestoreExternal ==
  /\ AtStep("restore external") /\ StepTo("restore frame")
  /\ external' = Top.wasExternal /\ UNCHANGED <<inIsr, currentFrame, topFrame>>

RestoreFrame ==
  /\ AtStep("restore frame") /\ StepTo("restore top")
  /\ currentFrame' = Top.oldFrame /\ UNCHANGED <<inIsr, external, topFrame>>

RestoreTop ==
  /\ AtStep("restore top")
  /\ topFrame' = IF Top.wasInIsr THEN topFrame ELSE 0
  /\ frames' = SubSeq(frames, 1, Len(frames) - 1)
  /\ UNCHANGED <<inIsr, external, currentFrame>>

Bookkeeping ==
  /\ \/ ReadCpu \/ SetInIsr \/ SetExternal \/ SetFrame \/ SetTop
     \/ RestoreInIsr \/ RestoreExternal \/ RestoreFrame \/ RestoreTop
  /\ UNCHANGED <<vars, lockVars, apicIrr, apicIsr, lsrs, selfIpiFn, faulted, nmisLeft>>

Eoi ==
  /\ AtStep("eoi") /\ StepTo("restore inIsr")
  /\ apicIsr' = IF Top.external THEN {v \in apicIsr : \E w \in apicIsr : w > v} ELSE apicIsr
  /\ UNCHANGED <<vars, lockVars, apicIrr, lsrs, cpuVars, selfIpiFn, faulted, nmisLeft>>

-----------------------------------------------------------------------------
(* ia32eIsrMain, which goes by the vector of cpu->currentFrame and by      *)
(* cpu->external.                                                          *)

Vector == frames[currentFrame].vector
Return == StepTo("eoi")

\* what a tick or a rescheduling does to the threads, one after the other
ThreadMoves == \E t \in Task \ Lsr : CallbackActivation(t) \/ CallbackResponse(t)

\* A spurious interrupt, or an NMI: its routine, if set, touches none of this.
NothingToDo ==
  /\ Vector \in {Spurious, NmiVector}
  /\ Return
  /\ UNCHANGED <<vars, lockVars, lsrs, selfIpiFn, faulted>>

\* ia32eIsrEventHandler: the tick, or a routine of a rendezvous, of which the
\* handoff is one
EventHandler ==
  /\ Vector = KEvent
  /\ \/ handoffDone /\ ThreadMoves /\ UNCHANGED frames
     \/ CallbackCpuHandoff /\ Return
     \/ Return /\ UNCHANGED vars
  /\ UNCHANGED <<lockVars, lsrs, selfIpiFn, faulted>>

\* The running task stops to be schedulable: kTickTaskLoadNextState queues an
\* LSR that is done at its vector, and nothing that has failed.
Finish(t) ==
  /\ handoffDone
  /\ CallbackResponse(t)
  /\ \/ t \in Lsr /\ lsrs' = [lsrs EXCEPT ![LsrVector[t]] = @ \cup {t}]
     \/ UNCHANGED lsrs

\* the self IPI: kHandoff, or a kSchedCtrl routine, that may leave the running
\* task active and reach a rescheduling point
FakeIsr ==
  /\ Vector = KFakeIsr /\ selfIpiFn
  /\ \/ CallbackCpuHandoff /\ UNCHANGED lsrs
     \/ \E t \in Task : Finish(t)
     \/ handoffDone /\ UNCHANGED <<vars, lsrs>>
  /\ StepTo("ticks")
  /\ UNCHANGED <<lockVars, selfIpiFn, faulted>>

\* ia32eExceptionHandlerUser: a task whose exception nobody takes fails
UserHandler ==
  /\ Vector = UserException
  /\ \/ \E t \in Task : CallbackResponse(t) /\ StepTo("ticks")
     \/ Return /\ UNCHANGED vars
  /\ UNCHANGED <<lockVars, lsrs, selfIpiFn, faulted>>

\* the rest of both: the rescheduling point, and cpu->selfIpiFn = NULL
Ticks ==
  /\ AtStep("ticks")
  /\ \/ handoffDone /\ ThreadMoves /\ UNCHANGED <<frames, selfIpiFn>>
     \/ Return /\ selfIpiFn' = (selfIpiFn /\ Vector # KFakeIsr) /\ UNCHANGED vars
  /\ UNCHANGED <<lockVars, apicIrr, apicIsr, lsrs, cpuVars, faulted, nmisLeft>>

\* ia32eIsrExternalHandler
ExternalHandler ==
  /\ external /\ Vector # KEvent
  /\ IF handoffDone /\ lsrs[Vector] # {}
     THEN /\ \E l \in lsrs[Vector] :
               /\ lsrs' = [lsrs EXCEPT ![Vector] = @ \ {l}]
               /\ CallbackActivation(l)
          /\ UNCHANGED frames
     ELSE Return /\ UNCHANGED <<vars, lsrs>>
  /\ UNCHANGED <<lockVars, selfIpiFn, faulted>>

LockStep(c) == Exchange(c) \/ Link(c) \/ Spin(c) \/ Release(c)

\* ia32eExceptionHandlerKernel: a report under the lock, then hlt for good
KernelHandler ==
  /\ ~external /\ Vector = KernelException
  /\ LockStep(ThisCore)
  /\ StepTo(IF lockPc'[ThisCore] = "idle" THEN "halted" ELSE "main")
  /\ UNCHANGED <<vars, lsrs, selfIpiFn, faulted>>

IsrMain ==
  /\ AtStep("main")
  /\ \/ NothingToDo \/ EventHandler \/ FakeIsr \/ UserHandler
     \/ ExternalHandler \/ KernelHandler
  /\ UNCHANGED <<apicIrr, apicIsr, cpuVars, nmisLeft>>

-----------------------------------------------------------------------------
(* The rest of the machine.                                                *)

\* the plugins, on the boot processor
Plugins ==
  /\ ~gPluginsDone
  /\ PluginsDone \/ \E t \in Task \ Lsr : CallbackActivation(t)
  /\ UNCHANGED <<lockVars, isrVars>>

\* The kernel of another core faults, early in its start or later.
OtherFault(c) ==
  /\ c # ThisCore /\ c \notin faulted
  /\ Exchange(c)
  /\ faulted' = faulted \cup {c}
  /\ UNCHANGED <<vars, apicIrr, apicIsr, lsrs, frames, cpuVars, selfIpiFn, nmisLeft>>

OtherHandler(c) ==
  /\ c # ThisCore
  /\ Link(c) \/ Spin(c) \/ Release(c)
  /\ UNCHANGED <<vars, isrVars>>

Handlers == Bookkeeping \/ IsrMain \/ Ticks \/ Eoi

IsrNext ==
  \/ Plugins
  \/ \E v \in Line : Request(v) \/ Accept(v)
  \/ \E v \in {Spurious, UserException} : Trap(v)
  \/ SelfIpi \/ Nmi \/ KernelFault
  \/ Handlers
  \/ \E c \in Node : OtherFault(c) \/ OtherHandler(c)

\* A core in a handler goes on, and so does each core at the exception lock.
Progress == WF_allVars(Handlers) /\ \A c \in Node : WF_allVars(OtherHandler(c))

IsrSpec == IsrInit /\ [][IsrNext]_allVars /\ Progress
-----------------------------------------------------------------------------

\* Whatever NMIs and exceptions come between the assignments of
\* ia32eIsrHandler: its main part sees its own frame and its own kind, the
\* frame a task switch replaces is the outermost, no handler leaves anything
\* behind, and each accepted interrupt is in service until its own EOI.
FramesMatch ==
  /\ frames = <<>> =>
       ~inIsr /\ ~external /\ currentFrame = 0 /\ topFrame = 0 /\ apicIsr = {}
  /\ AtStep("main") => inIsr /\ currentFrame = Len(frames) /\ external = Top.external
  /\ \A i \in DOMAIN frames :
       frames[i].step \in {"main", "ticks"} => (topFrame = i <=> ~frames[i].wasInIsr)
  /\ apicIsr = {frames[i].vector : i \in {j \in DOMAIN frames :
         frames[j].vector \in Line /\ frames[j].step \in
           {"read", "set inIsr", "set external", "set frame", "set top", "main", "eoi"}}}

\* The LSRs that wait at their vectors are the dormant ones, and an interrupt
\* that the core accepts finds every LSR of its priority, which the task
\* priority has kept it from, dormant or failed: none is released while active,
\* as ia32eIsrExternalHandler asserts.
LsrsReleasedTogether ==
  /\ \A v \in Line : lsrs[v] \cap activated = {}
  /\ \A i \in DOMAIN frames :
       (frames[i].vector \in Line \ {KEvent} /\ frames[i].step \in
          {"read", "set inIsr", "set external", "set frame", "set top"}) =>
         \A l \in Lsr : TaskTpr[l] = Class(frames[i].vector) => l \notin activated

Halted(c) ==
  /\ lockPc[c] = "idle"
  /\ c = ThisCore => \E i \in DOMAIN frames : frames[i].step = "halted"

\* A core whose kernel faults reports it and halts, however many others fault
\* at the same time: again and again, none is still at it.
EveryFaultHalts == []<>(\A c \in faulted : Halted(c))
=============================================================================
