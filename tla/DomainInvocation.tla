-------------------------- MODULE DomainInvocation --------------------------
(***************************************************************************)
(* Domains and invocations on one core: IPCs, returns and exceptions move  *)
(* a task between domains (kDomainUniverse.c, kSyscall.c,                  *)
(* kExceptionHandler.c), and the ia32e port moves the core between address *)
(* spaces (ia32eCpu.c, ia32eEntry.S).                                      *)
(*                                                                         *)
(* A system call runs with interrupts enabled, so that the core may switch *)
(* tasks between any two of its steps; an exception is handled with        *)
(* interrupts disabled.  The registers of a system call lie on the stack   *)
(* of its task, and the core holds a pointer to them: syscallRegs is the   *)
(* task whose registers it points to.                                      *)
(***************************************************************************)
EXTENDS Integers, Sequences

CONSTANTS Task, Idle, NoTask,
          Domain,        \* the IDs in the domain table
          FirstDomain,   \* task -> the domain it was created in
          InvokePermMap, \* domain -> the domains it may invoke
          Valid,         \* domain -> the invocation types it has valid entry points for
          Bound,         \* ARRAY_LEN(task->domain.invocationStack)
          Param,         \* values of an IPC's parameter
          IdSpan,        \* UINT32_MAX + 1
          Address,       \* user addresses
          Canonical,     \* those whose upper bits agree
          Start          \* domain->invocationInfo._start

Exception == {"vmem fault", "illegal opcode", "alignment", "debug", "arithmetic", "other"}

ASSUME Universe ==
  /\ Bound \in Nat \ {0}
  /\ Domain \subseteq Nat
  /\ Idle \notin Task /\ NoTask \notin Task \cup {Idle}
  /\ FirstDomain \in [Task -> Domain]
  /\ InvokePermMap \in [Domain -> SUBSET Domain]
  /\ Valid \in [Domain -> SUBSET (Exception \cup {"ipc"})]
  /\ Canonical \subseteq Address /\ Start \in Canonical

VARIABLES
  running,         \* machine->runningTask
  failed,          \* tasks in state FAILURE
  curDomain,       \* task->domain.curDomain
  invocationStack, \* the entries below task->domain.invocationStackDepth
  at,              \* task -> what it executes: user code, or a step of a system call
  rip,             \* task -> where its user code is; during a system call, rcx
                   \* among the registers on its stack
  newPc,           \* task -> newPc of kInvocationCtrlDoIpc and kInvocationCtrlDoReturn
  ret,             \* task -> its system call and what that returns
  syscallRegs,     \* cpu->syscallRegs
  savedRegs,       \* task -> task->ctx.ia32eCtx.syscallRegs
  cr3,             \* the domain whose page tables the core uses
  iopb             \* the domain whose I/O permissions the core uses

task == <<curDomain, invocationStack>>
code == <<at, rip, newPc, ret>>
core == <<syscallRegs, savedRegs, cr3, iopb>>
vars == <<running, failed, task, code, core>>

Entry(d, type) == <<d, type>>
EntryPoint == {Entry(d, type) : d \in Domain, type \in Exception \cup {"ipc"}}

EINVAL == -22

NoAnswer == <<"none", 0, 0, 0>>

\* ia32eCpuDomainInfoInit lets no domain in whose entry points are not canonical
IsCanonical(a) == a \in Canonical \/ a \in EntryPoint

Init ==
  /\ running \in Task
  /\ failed = {}
  /\ curDomain = FirstDomain
  /\ invocationStack = [t \in Task |-> <<>>]
  /\ at = [t \in Task |-> "user"]
  /\ rip = [t \in Task |-> Start]
  /\ newPc = rip
  /\ ret = [t \in Task |-> NoAnswer]
  /\ syscallRegs = NoTask
  /\ savedRegs = [t \in Task \cup {Idle} |-> NoTask]
  /\ cr3 = FirstDomain[running]
  /\ iopb = cr3
-----------------------------------------------------------------------------
(* The invocation stack of the running task (kDomainUniverse.c).           *)

Depth(t) == Len(invocationStack[t])
Top(t) == invocationStack[t][Depth(t)]

\* (bug: the bound is checked with the entry already counted)
CanPushOneMore(t, d, type) == Depth(t) <= Bound /\ type \in Valid[d]

CanPush(t, d, type) == Depth(t) < Bound /\ type \in Valid[d]

\* (bug: the entry remembers the invoked domain)
PushInvokedDomain(t, d, type, returnAddress) ==
  /\ curDomain' = [curDomain EXCEPT ![t] = d]
  /\ invocationStack' = [invocationStack EXCEPT ![t] =
       Append(@, [from |-> d, type |-> type, ret |-> returnAddress])]

\* kDomainPushInvocationEntry, when it succeeds
Push(t, d, type, returnAddress) ==
  /\ curDomain' = [curDomain EXCEPT ![t] = d]
  /\ invocationStack' = [invocationStack EXCEPT ![t] =
       Append(@, [from |-> curDomain[t], type |-> type, ret |-> returnAddress])]

\* kDomainPopInvocationEntry, when it succeeds
Pop(t) ==
  /\ curDomain' = [curDomain EXCEPT ![t] = Top(t).from]
  /\ invocationStack' = [invocationStack EXCEPT ![t] = SubSeq(@, 1, Depth(t) - 1)]

\* kDomainUniverseAuthenticateInvocation
Authenticated(d, invoking) ==
  d \in Domain /\ "ipc" \in Valid[d] /\ d \in InvokePermMap[invoking]
-----------------------------------------------------------------------------
(* The core.                                                               *)

\* (bug: the pointer is not saved with the task)
SwitchToKeepsRegs(next) ==
  /\ running' = next
  /\ IF next = Idle THEN UNCHANGED <<cr3, iopb>>
     ELSE cr3' = curDomain[next] /\ iopb' = curDomain[next]
  /\ UNCHANGED <<savedRegs, syscallRegs>>

\* the core switches tasks: ia32eCpuTaskSaveCtx, then, unless the next one is
\* the idle task, ia32eCpuEnterDomain, and ia32eCpuTaskRestoreCtx
SwitchTo(next) ==
  /\ running' = next
  /\ savedRegs' = [savedRegs EXCEPT ![running] = syscallRegs]
  /\ syscallRegs' = savedRegs[next]
  /\ IF next = Idle THEN UNCHANGED <<cr3, iopb>>
     ELSE cr3' = curDomain[next] /\ iopb' = curDomain[next]

\* a tick or an interrupt has the core run another task
Preempt ==
  /\ \E next \in (Task \ failed) \cup {Idle} : next # running /\ SwitchTo(next)
  /\ UNCHANGED <<failed, task, code>>

\* the task never runs again; which one does, the scheduler says
SwitchToFailure(t) ==
  /\ failed' = failed \cup {t}
  /\ \E next \in (Task \ failed') \cup {Idle} : SwitchTo(next)

\* ia32eExceptionHandlerUser and kExceptionHandler
TakeException(t, type) ==
  /\ at[t] = "user"
  /\ IF CanPush(t, curDomain[t], type)
     THEN /\ Push(t, curDomain[t], type, rip[t])
          /\ rip' = [rip EXCEPT ![t] = Entry(curDomain[t], type)]
          /\ UNCHANGED <<running, failed, core>>
     ELSE SwitchToFailure(t) /\ UNCHANGED <<task, rip>>
  /\ UNCHANGED <<at, newPc, ret>>
-----------------------------------------------------------------------------
(* A system call: __ia32eSyscallEntry, ia32eSyscallHandlerStrict,          *)
(* ia32eSyscallHandler and kSyscallHandler.                                *)

Goto(t, step) == at' = [at EXCEPT ![t] = step]

Question == {"available", "domain", "invoker", "type", "address"}

Request ==
  ((Question \cup {"return", "fail"}) \X {0})
    \cup ({"ipc"} \X {p % IdSpan : p \in Param}) \cup ({"redirect"} \X Address)

\* the processor leaves the address of the next instruction in rcx
Syscall(t) ==
  /\ at[t] = "user"
  /\ rip' \in {[rip EXCEPT ![t] = a] : a \in Address}
  /\ Goto(t, "entry")
  /\ UNCHANGED <<running, failed, task, newPc, ret, core>>

PointToRegs(t) ==
  /\ at[t] = "entry"
  /\ syscallRegs' = t
  /\ Goto(t, "handler")
  /\ UNCHANGED <<running, failed, task, rip, newPc, ret, savedRegs, cr3, iopb>>

Reply(t, r, err, value) == ret' = [ret EXCEPT ![t] = <<r[1], r[2], err, value>>]

Refuse(t, r) == Reply(t, r, EINVAL, 0) /\ Goto(t, "done") /\ UNCHANGED <<task, newPc>>

\* an exception left the last entry, which its handler may inspect and change
Excepted(t) == Depth(t) > 0 /\ Top(t).type # "ipc"

\* kInvocationCtrlGet..., kSysGetDomId
Ask(t, r) ==
  IF \/ r[1] \in {"invoker", "type"} /\ Depth(t) = 0
     \/ r[1] = "address" /\ ~Excepted(t)
  THEN Refuse(t, r)
  ELSE /\ Reply(t, r, 0, CASE r[1] = "available" -> Bound - Depth(t)
                        [] r[1] = "domain" -> curDomain[t]
                        [] r[1] = "invoker" -> Top(t).from
                        [] r[1] = "type" -> Top(t).type
                        [] r[1] = "address" -> Top(t).ret)
       /\ Goto(t, "done")
       /\ UNCHANGED <<task, newPc>>

\* the invocation moved the task: the core follows if the domain is another one
Enter(t, d) == Goto(t, IF d = curDomain[t] THEN "setReturn" ELSE "enterDomain")

\* kInvocationCtrlDoIpc
DoIpc(t, r) ==
  LET d == r[2] IN
  IF Authenticated(d, curDomain[t]) /\ CanPush(t, d, "ipc")
  THEN /\ Push(t, d, "ipc", rip[syscallRegs])
       /\ newPc' = [newPc EXCEPT ![t] = Entry(d, "ipc")]
       /\ Reply(t, r, 0, 0)
       /\ Enter(t, d)
  ELSE Refuse(t, r)

\* (bug: the core is left in the address space of the callee)
DoReturnStays(t, r) ==
  IF Depth(t) > 0
  THEN /\ Pop(t)
       /\ newPc' = [newPc EXCEPT ![t] = Top(t).ret]
       /\ Reply(t, r, 0, 0)
       /\ Goto(t, "setReturn")
  ELSE Refuse(t, r)

\* kInvocationCtrlDoReturn
DoReturn(t, r) ==
  IF Depth(t) > 0
  THEN /\ Pop(t)
       /\ newPc' = [newPc EXCEPT ![t] = Top(t).ret]
       /\ Reply(t, r, 0, 0)
       /\ Enter(t, Top(t).from)
  ELSE Refuse(t, r)

\* kInvocationCtrlSetReturnAddress
SetReturnAddress(t, r) ==
  IF Excepted(t)
  THEN /\ invocationStack' = [invocationStack EXCEPT ![t][Depth(t)].ret = r[2]]
       /\ Reply(t, r, 0, 0)
       /\ Goto(t, "done")
       /\ UNCHANGED <<curDomain, newPc>>
  ELSE Refuse(t, r)

\* kSysInvocationCtrl, kSysGetDomId, and the failure kSysSchedCtrl is asked for
Handler(t) ==
  /\ at[t] = "handler"
  /\ \E r \in Request :
       \/ r[1] \in Question /\ Ask(t, r)
       \/ r[1] = "ipc" /\ DoIpc(t, r)
       \/ r[1] = "return" /\ DoReturn(t, r)
       \/ r[1] = "redirect" /\ SetReturnAddress(t, r)
       \/ r[1] = "fail" /\ Reply(t, r, 0, 0) /\ Goto(t, "fail") /\ UNCHANGED <<task, newPc>>
  /\ UNCHANGED <<running, failed, rip, core>>

\* ia32eCpuEnterDomain: the page tables, then the I/O permissions
EnterDomain(t) ==
  /\ \/ at[t] = "enterDomain" /\ cr3' = curDomain[t] /\ Goto(t, "copyIopb") /\ UNCHANGED iopb
     \/ at[t] = "copyIopb" /\ iopb' = curDomain[t] /\ Goto(t, "setReturn") /\ UNCHANGED cr3
  /\ UNCHANGED <<running, failed, task, rip, newPc, ret, syscallRegs, savedRegs>>

\* ia32eCpuSyscallSetReturnAddress
SyscallSetReturnAddress(t) ==
  /\ at[t] = "setReturn"
  /\ rip' = [rip EXCEPT ![syscallRegs] = newPc[t]]
  /\ newPc' = [newPc EXCEPT ![t] = Start]
  /\ Goto(t, "done")
  /\ UNCHANGED <<running, failed, task, ret, core>>

ForgetRegs(t) ==
  /\ at[t] = "done"
  /\ syscallRegs' = NoTask
  /\ ret' = [ret EXCEPT ![t] = NoAnswer]
  /\ Goto(t, "strict")
  /\ UNCHANGED <<running, failed, task, rip, newPc, savedRegs, cr3, iopb>>

\* The type the strict handler passes: WORKHORSE_INVOCATION_TYPE_OTHER is 6,
\* and so is K_INVOCATION_EXCEPTION_ARITHMETIC.
StrictType == "arithmetic"

\* ia32eSyscallHandlerStrict: a task must not return to an address the
\* processor would refuse
Strict(t) ==
  /\ at[t] = "strict"
  /\ IF IsCanonical(rip[t]) THEN Goto(t, "exit") /\ UNCHANGED <<task, rip>>
     ELSE IF CanPush(t, curDomain[t], StrictType)
     THEN /\ Push(t, curDomain[t], StrictType, rip[t])
          /\ rip' = [rip EXCEPT ![t] = Entry(curDomain[t], StrictType)]
          /\ Goto(t, "exit")
     ELSE Goto(t, "fail") /\ UNCHANGED <<task, rip>>
  /\ UNCHANGED <<running, failed, newPc, ret, core>>

\* kSchedCtrlFailure, in the interrupt the core sends itself
SchedCtrlFailure(t) ==
  /\ at[t] = "fail"
  /\ SwitchToFailure(t)
  /\ UNCHANGED <<task, code>>

Sysret(t) ==
  /\ at[t] = "exit"
  /\ Goto(t, "user")
  /\ UNCHANGED <<running, failed, task, rip, newPc, ret, core>>
-----------------------------------------------------------------------------

Step(t) ==
  \/ \E type \in Exception : TakeException(t, type)
  \/ Syscall(t) \/ PointToRegs(t) \/ Handler(t) \/ EnterDomain(t)
  \/ SyscallSetReturnAddress(t) \/ ForgetRegs(t) \/ Strict(t)
  \/ SchedCtrlFailure(t) \/ Sysret(t)

Next == Preempt \/ \E t \in Task : t = running /\ Step(t)

Spec == Init /\ [][Next]_vars
-----------------------------------------------------------------------------

Place == Address \cup EntryPoint
Call == [from : Domain, type : Exception \cup {"ipc"}, ret : Place]

TypeOK ==
  /\ running \in (Task \ failed) \cup {Idle}
  /\ failed \subseteq Task
  /\ curDomain \in [Task -> Domain]
  /\ invocationStack \in [Task -> Seq(Call)]
  /\ \A t \in Task : Depth(t) <= Bound
  /\ at \in [Task -> {"user", "entry", "handler", "enterDomain", "copyIopb", "setReturn",
                      "done", "strict", "fail", "exit"}]
  /\ rip \in [Task -> Place] /\ newPc \in [Task -> Place] /\ DOMAIN ret = Task
  /\ syscallRegs \in Task \cup {NoTask}
  /\ savedRegs \in [Task \cup {Idle} -> Task \cup {NoTask}]
  /\ cr3 \in Domain /\ iopb \in Domain

\* A task never executes user code in the address space or with the I/O
\* permissions of a domain other than its own, wherever the core switched
\* tasks while an invocation was under way.
RunsInOwnDomain ==
  running \in Task /\ at[running] = "user" =>
    cr3 = curDomain[running] /\ iopb = curDomain[running]

\* Where a task stands: in the middle of an invocation, where it goes.
Where == [t \in Task |->
  IF at[t] \in {"enterDomain", "copyIopb", "setReturn"} THEN newPc[t] ELSE rip[t]]

C == INSTANCE CallStack WITH
       dom <- curDomain, pc <- Where, calls <- invocationStack, answer <- ret,
       Entry <- LAMBDA d, type : <<d, type>>,
       Handles <- LAMBDA d, type : type \in Valid[d],
       MayCall <- LAMBDA d, e : e \in InvokePermMap[d] /\ e \in Domain

\* Whatever the core switches to in the middle of its system calls, each task
\* has a call stack of its own (CallStack): the registers written are its own,
\* an invocation enters and returns once, and no call is refused without cause.
ImplementsCallStack == C!Spec

\* The strict handler names the invocation "other" when a return address is
\* not canonical (ia32eCpu.c:1752).
NonCanonicalIsOther ==
  [][\A t \in Task :
       at[t] = "strict" /\ at'[t] = "exit" /\ Depth(t)' > Depth(t) => Top(t)'.type = "other"]_vars
=============================================================================
