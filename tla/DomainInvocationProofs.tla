----------------------- MODULE DomainInvocationProofs -----------------------
(***************************************************************************)
(* Invocations on a core that switches tasks anywhere inside them, for any *)
(* tasks, domains, permissions and bound: every task runs in the address   *)
(* space of its own domain, a system call writes the registers of its own  *)
(* task, and the model implements the stack of calls of CallStack.         *)
(***************************************************************************)
EXTENDS DomainInvocation, SequenceTheorems, TLAPS

Calling == {"handler", "enterDomain", "copyIopb", "setReturn", "done"}

\* Whose registers the core may point to while t runs, or has saved for t.
Points(t, regs) ==
  /\ at[t] \in Calling => regs = t
  /\ at[t] = "fail" => regs \in {t, NoTask}
  /\ at[t] \notin Calling \cup {"fail"} => regs = NoTask

\* Between the instructions of a system call the core points to the registers
\* of the task that makes it, and each task has its own pointer saved.
OwnRegs ==
  /\ running \in Task => Points(running, syscallRegs)
  /\ running = Idle => syscallRegs = NoTask
  /\ \A t \in Task : t # running => Points(t, savedRegs[t])
  /\ running # Idle => savedRegs[Idle] = NoTask

\* The core is in the domain of the running task, except on the way to it.
InDomain ==
  running \in Task =>
    /\ at[running] # "enterDomain" => cr3 = curDomain[running]
    /\ at[running] \notin {"enterDomain", "copyIopb"} => iopb = curDomain[running]

\* A task on its way to failure asked for it, or could not be told of its
\* return address.
FailsForCause ==
  \A t \in Task : at[t] = "fail" =>
    ret[t] = <<"fail", 0, 0, 0>> \/ ~CanPush(t, curDomain[t], StrictType)

Inv == TypeOK /\ OwnRegs /\ InDomain /\ FailsForCause

\* The tasks start in their own code, the running one in its domain.
LEMMA InitInv == Init => Inv
  <1> SUFFICES ASSUME Init PROVE Inv
    OBVIOUS
  <1> USE Universe
  <1>1. Start \in Place /\ Start \in Address
    BY DEF Place
  <1>2. \A t \in Task : invocationStack[t] \in Seq(Call) /\ Depth(t) = 0
    BY EmptySeq DEF Init, Depth
  <1>3. TypeOK
    BY <1>1, <1>2 DEF Init, TypeOK
  <1>4. OwnRegs /\ InDomain /\ FailsForCause
    BY DEF Init, OwnRegs, Points, Calling, InDomain, FailsForCause
  <1> QED BY <1>3, <1>4 DEF Inv

\* A push or a pop keeps the types and the bound.
LEMMA PushType ==
  ASSUME TypeOK, NEW t \in Task, NEW d \in Domain, NEW type \in Exception \cup {"ipc"},
         NEW a \in Place, CanPush(t, d, type), Push(t, d, type, a)
  PROVE  /\ curDomain' \in [Task -> Domain] /\ invocationStack' \in [Task -> Seq(Call)]
         /\ \A u \in Task : Depth(u)' <= Bound
         /\ curDomain'[t] = d
         /\ \A u \in Task \ {t} : curDomain'[u] = curDomain[u] /\ Depth(u)' = Depth(u)
  <1> USE Universe
  <1> DEFINE e == [from |-> curDomain[t], type |-> type, ret |-> a]
  <1>1. e \in Call /\ invocationStack[t] \in Seq(Call)
    BY DEF TypeOK, Call
  <1>2. /\ Append(invocationStack[t], e) \in Seq(Call)
        /\ Len(Append(invocationStack[t], e)) = Len(invocationStack[t]) + 1
    BY <1>1, AppendProperties
  <1>3. Len(invocationStack[t]) \in Nat
    BY <1>1, LenProperties
  <1>4. invocationStack' = [invocationStack EXCEPT ![t] = Append(invocationStack[t], e)]
    BY DEF Push
  <1> HIDE DEF e
  <1>5. invocationStack' \in [Task -> Seq(Call)]
    BY <1>2, <1>4 DEF TypeOK
  <1>6. \A u \in Task : Depth(u)' <= Bound
    BY <1>2, <1>3, <1>4 DEF TypeOK, Depth, CanPush
  <1>7. \A u \in Task \ {t} : curDomain'[u] = curDomain[u] /\ Depth(u)' = Depth(u)
    BY <1>4 DEF Push, TypeOK, Depth
  <1>8. curDomain' \in [Task -> Domain] /\ curDomain'[t] = d
    BY DEF Push, TypeOK
  <1> QED BY <1>5, <1>6, <1>7, <1>8

\* The last entry is an entry.
LEMMA TopType ==
  ASSUME TypeOK, NEW t \in Task, Depth(t) > 0
  PROVE  Top(t) \in Call /\ Depth(t) \in Nat \ {0}
  <1>1. invocationStack[t] \in Seq(Call) /\ Depth(t) \in Nat
    BY LenProperties DEF TypeOK, Depth
  <1> QED BY <1>1, ElementOfSeq DEF Depth, Top

\* A pop keeps the types and the bound, and leads back to where the entry came from.
LEMMA PopType ==
  ASSUME TypeOK, NEW t \in Task, Depth(t) > 0, Pop(t)
  PROVE  /\ curDomain' \in [Task -> Domain] /\ invocationStack' \in [Task -> Seq(Call)]
         /\ \A u \in Task : Depth(u)' <= Bound
         /\ curDomain'[t] = Top(t).from
         /\ \A u \in Task \ {t} : curDomain'[u] = curDomain[u] /\ Depth(u)' = Depth(u)
  <1> USE Universe
  <1> DEFINE s == SubSeq(invocationStack[t], 1, Depth(t) - 1)
  <1>1. invocationStack[t] \in Seq(Call) /\ Depth(t) \in Nat \ {0} /\ Top(t) \in Call
    BY TopType DEF TypeOK
  <1>2. \A i \in 1..Depth(t) - 1 : invocationStack[t][i] \in Call
    BY <1>1, ElementOfSeq DEF Depth
  <1>3. s \in Seq(Call) /\ Len(s) <= Depth(t)
    BY <1>1, <1>2, SubSeqProperties
  <1>4. invocationStack' = [invocationStack EXCEPT ![t] = s]
    BY DEF Pop
  <1> HIDE DEF s
  <1>5. invocationStack' \in [Task -> Seq(Call)]
    BY <1>3, <1>4 DEF TypeOK
  <1>6. Len(s) \in Nat /\ Len(s) <= Bound
    BY <1>1, <1>3, LenProperties DEF TypeOK
  <1>7. \A u \in Task : Depth(u)' <= Bound
    BY <1>4, <1>6 DEF TypeOK, Depth
  <1>8. \A u \in Task \ {t} : curDomain'[u] = curDomain[u] /\ Depth(u)' = Depth(u)
    BY <1>4 DEF Pop, TypeOK, Depth
  <1>9. curDomain' \in [Task -> Domain] /\ curDomain'[t] = Top(t).from
    BY <1>1 DEF Pop, TypeOK, Call
  <1> QED BY <1>5, <1>7, <1>8, <1>9

\* A switch to another task, or to the same, keeps what the core points to.
LEMMA SwitchInv ==
  ASSUME Inv, NEW next \in (Task \ failed') \cup {Idle},
         running # next, SwitchTo(next), failed' \in SUBSET Task,
         UNCHANGED <<task, code>>
  PROVE  Inv'
  <1> USE Universe
  <1>1. TypeOK'
    BY DEF Inv, TypeOK, SwitchTo, task, code, Depth
  <1>2. OwnRegs'
    <2>1. /\ savedRegs'[running] = syscallRegs
          /\ \A t \in (Task \cup {Idle}) \ {running} : savedRegs'[t] = savedRegs[t]
          /\ syscallRegs' = savedRegs[next] /\ running' = next
      BY DEF Inv, TypeOK, SwitchTo
    <2>2. UNCHANGED at
      BY DEF code
    <2> QED BY <2>1, <2>2 DEF Inv, TypeOK, OwnRegs, Points
  <1>3. InDomain'
    BY DEF Inv, TypeOK, SwitchTo, InDomain, task, code
  <1>4. FailsForCause'
    BY DEF Inv, FailsForCause, CanPush, Depth, task, code
  <1> QED BY <1>1, <1>2, <1>3, <1>4 DEF Inv

\* A step of the running task t that leaves tasks and core where they are:
\* it moves t within its code, and may change its domain if t goes there next.
LEMMA CodeInv ==
  ASSUME Inv, NEW t \in Task, t = running,
         NEW step \in {"user", "entry", "handler", "enterDomain", "copyIopb", "setReturn",
                       "done", "strict", "fail", "exit"},
         Goto(t, step),
         running' = running, failed' = failed, savedRegs' = savedRegs,
         curDomain' \in [Task -> Domain] /\ invocationStack' \in [Task -> Seq(Call)],
         \A u \in Task : Depth(u)' <= Bound,
         \A u \in Task \ {t} : /\ curDomain'[u] = curDomain[u] /\ Depth(u)' = Depth(u)
                               /\ ret'[u] = ret[u],
         rip' \in [Task -> Place] /\ newPc' \in [Task -> Place] /\ DOMAIN ret' = Task,
         syscallRegs' \in {t, NoTask}, cr3' \in Domain, iopb' \in Domain,
         step \in Calling => syscallRegs' = t,
         step \notin Calling \cup {"fail"} => syscallRegs' = NoTask,
         step # "enterDomain" => cr3' = curDomain'[t],
         step \notin {"enterDomain", "copyIopb"} => iopb' = curDomain'[t],
         step = "fail" => \/ ret'[t] = <<"fail", 0, 0, 0>>
                          \/ ~(Depth(t)' < Bound /\ StrictType \in Valid[curDomain'[t]])
  PROVE  Inv'
  <1> USE Universe
  <1>1. /\ at' \in [Task -> {"user", "entry", "handler", "enterDomain", "copyIopb", "setReturn",
                             "done", "strict", "fail", "exit"}]
        /\ at'[t] = step /\ \A u \in Task \ {t} : at'[u] = at[u]
    BY DEF Inv, TypeOK, Goto
  <1>2. TypeOK'
    BY <1>1 DEF Inv, TypeOK
  <1>3. OwnRegs'
    BY <1>1 DEF Inv, TypeOK, OwnRegs, Points, Calling
  <1>4. InDomain'
    BY <1>1 DEF Inv, InDomain
  <1>5. FailsForCause'
    <2> SUFFICES ASSUME NEW u \in Task, at'[u] = "fail"
                 PROVE  ret'[u] = <<"fail", 0, 0, 0>> \/ ~CanPush(u, curDomain[u], StrictType)'
      BY DEF FailsForCause
    <2>1. CASE u = t
      BY <1>1, <2>1 DEF CanPush
    <2>2. CASE u # t
      BY <1>1, <2>2 DEF Inv, FailsForCause, CanPush
    <2> QED BY <2>1, <2>2
  <1> QED BY <1>2, <1>3, <1>4, <1>5 DEF Inv

\* What the invariant says of a running task at a place in its code.
LEMMA AtRunning ==
  ASSUME Inv, NEW t \in Task, t = running
  PROVE  /\ at[t] \in Calling => syscallRegs = t
         /\ at[t] \in {"user", "entry", "strict", "exit"} => syscallRegs = NoTask
         /\ syscallRegs \in {t, NoTask}
         /\ at[t] # "enterDomain" => cr3 = curDomain[t]
         /\ at[t] \notin {"enterDomain", "copyIopb"} => iopb = curDomain[t]
         /\ t \notin failed
  BY Universe DEF Inv, TypeOK, OwnRegs, Points, Calling, InDomain

\* Tasks may stand at the entry points of domains.
LEMMA EntryPlace ==
  ASSUME NEW d \in Domain, NEW type \in Exception \cup {"ipc"}
  PROVE  Entry(d, type) \in Place
  BY DEF Place, EntryPoint

\* An exception enters its own domain, or ends the task.
LEMMA ExceptionInv ==
  ASSUME Inv, NEW t \in Task, t = running, NEW type \in Exception, TakeException(t, type)
  PROVE  Inv'
  <1> USE Universe
  <1>1. CASE CanPush(t, curDomain[t], type)
    <2>1. /\ Push(t, curDomain[t], type, rip[t])
          /\ rip' = [rip EXCEPT ![t] = Entry(curDomain[t], type)]
          /\ UNCHANGED <<running, failed, core, at, newPc, ret>> /\ at[t] = "user"
      BY <1>1 DEF TakeException
    <2>2. curDomain[t] \in Domain /\ rip[t] \in Place /\ Entry(curDomain[t], type) \in Place
      BY EntryPlace DEF Inv, TypeOK
    <2>3. /\ curDomain' \in [Task -> Domain] /\ invocationStack' \in [Task -> Seq(Call)]
          /\ \A u \in Task : Depth(u)' <= Bound
          /\ curDomain'[t] = curDomain[t]
          /\ \A u \in Task \ {t} : curDomain'[u] = curDomain[u] /\ Depth(u)' = Depth(u)
      BY <1>1, <2>1, <2>2, PushType DEF Inv
    <2>4. Goto(t, "user")
      BY <2>1 DEF Goto, Inv, TypeOK
    <2>5. rip' \in [Task -> Place]
      BY <2>1, <2>2 DEF Inv, TypeOK
    <2> QED BY <2>1, <2>3, <2>4, <2>5, AtRunning, CodeInv DEF Inv, TypeOK, core, Calling
  <1>2. CASE ~CanPush(t, curDomain[t], type)
    <2>1. SwitchToFailure(t) /\ UNCHANGED <<task, code>>
      BY <1>2 DEF TakeException, code
    <2> QED BY <2>1, SwitchInv DEF SwitchToFailure, Inv, TypeOK
  <1> QED BY <1>1, <1>2

\* A reply changes the answer of its own task only.
LEMMA ReplyType ==
  ASSUME Inv, NEW t \in Task, NEW r, NEW err, NEW value, Reply(t, r, err, value)
  PROVE  /\ DOMAIN ret' = Task /\ ret'[t] = <<r[1], r[2], err, value>>
         /\ \A u \in Task \ {t} : ret'[u] = ret[u]
  BY DEF Inv, TypeOK, Reply

\* The end of a system call that leaves the domain alone.
LEMMA ReplyInv ==
  ASSUME Inv, NEW t \in Task, t = running, at[t] = "handler",
         NEW r, NEW err, NEW value, Reply(t, r, err, value),
         NEW step \in {"done", "fail"}, Goto(t, step),
         step = "fail" => <<r[1], r[2], err, value>> = <<"fail", 0, 0, 0>>,
         UNCHANGED <<running, failed, rip, core, task, newPc>>
  PROVE  Inv'
  BY ReplyType, AtRunning, CodeInv DEF Inv, TypeOK, core, task, Calling, Depth

\* A refused system call changes nothing but its answer.
LEMMA RefuseInv ==
  ASSUME Inv, NEW t \in Task, t = running, at[t] = "handler", NEW r, Refuse(t, r),
         UNCHANGED <<running, failed, rip, core>>
  PROVE  Inv'
  BY ReplyInv DEF Refuse

\* The end of an invocation: the core follows the task to its new domain.
LEMMA EnterInv ==
  ASSUME Inv, NEW t \in Task, t = running, at[t] = "handler",
         NEW r, Reply(t, r, 0, 0), NEW d \in Domain, Enter(t, d),
         UNCHANGED <<running, failed, rip, core>>,
         /\ curDomain' \in [Task -> Domain] /\ invocationStack' \in [Task -> Seq(Call)]
         /\ \A u \in Task : Depth(u)' <= Bound
         /\ curDomain'[t] = d
         /\ \A u \in Task \ {t} : curDomain'[u] = curDomain[u] /\ Depth(u)' = Depth(u),
         newPc' \in [Task -> Place]
  PROVE  Inv'
  <1>1. CASE d = curDomain[t]
    <2>1. Goto(t, "setReturn")
      BY <1>1 DEF Enter
    <2> QED BY <1>1, <2>1, ReplyType, AtRunning, CodeInv DEF Inv, TypeOK, core, Calling
  <1>2. CASE d # curDomain[t]
    <2>1. Goto(t, "enterDomain")
      BY <1>2 DEF Enter
    <2> QED BY <2>1, ReplyType, AtRunning, CodeInv DEF Inv, TypeOK, core, Calling
  <1> QED BY <1>1, <1>2

\* An IPC pushes an entry and enters the domain it names (kInvocationCtrlDoIpc).
LEMMA IpcInv ==
  ASSUME Inv, NEW t \in Task, t = running, at[t] = "handler", NEW r, DoIpc(t, r),
         UNCHANGED <<running, failed, rip, core>>
  PROVE  Inv'
  <1> DEFINE d == r[2]
  <1>1. CASE Authenticated(d, curDomain[t]) /\ CanPush(t, d, "ipc")
    <2>1. /\ Push(t, d, "ipc", rip[t]) /\ newPc' = [newPc EXCEPT ![t] = Entry(d, "ipc")]
          /\ Reply(t, r, 0, 0) /\ Enter(t, d) /\ d \in Domain
      BY <1>1, AtRunning DEF DoIpc, Authenticated, Calling
    <2>2. rip[t] \in Place /\ Entry(d, "ipc") \in Place
      BY <2>1, EntryPlace DEF Inv, TypeOK
    <2> HIDE DEF d
    <2>3. newPc' \in [Task -> Place]
      BY <2>1, <2>2 DEF Inv, TypeOK
    <2>4. /\ curDomain' \in [Task -> Domain] /\ invocationStack' \in [Task -> Seq(Call)]
          /\ \A u \in Task : Depth(u)' <= Bound
          /\ curDomain'[t] = d
          /\ \A u \in Task \ {t} : curDomain'[u] = curDomain[u] /\ Depth(u)' = Depth(u)
      BY <1>1, <2>1, <2>2, PushType DEF Inv
    <2> QED BY <2>1, <2>3, <2>4, EnterInv
  <1>2. CASE ~(Authenticated(d, curDomain[t]) /\ CanPush(t, d, "ipc"))
    BY <1>2, RefuseInv DEF DoIpc
  <1> QED BY <1>1, <1>2

\* A return pops an entry and enters the domain it came from (kInvocationCtrlDoReturn).
LEMMA ReturnInv ==
  ASSUME Inv, NEW t \in Task, t = running, at[t] = "handler", NEW r, DoReturn(t, r),
         UNCHANGED <<running, failed, rip, core>>
  PROVE  Inv'
  <1>1. CASE Depth(t) > 0
    <2>1. /\ Pop(t) /\ newPc' = [newPc EXCEPT ![t] = Top(t).ret]
          /\ Reply(t, r, 0, 0) /\ Enter(t, Top(t).from)
      BY <1>1 DEF DoReturn
    <2>2. Top(t).ret \in Place /\ Top(t).from \in Domain
      BY <1>1, TopType DEF Inv, Call
    <2>3. newPc' \in [Task -> Place]
      BY <2>1, <2>2 DEF Inv, TypeOK
    <2> QED BY <1>1, <2>1, <2>2, <2>3, PopType, EnterInv DEF Inv
  <1>2. CASE ~(Depth(t) > 0)
    BY <1>2, RefuseInv DEF DoReturn
  <1> QED BY <1>1, <1>2

\* A new return address is written into the last entry only.
LEMMA RedirectInv ==
  ASSUME Inv, NEW t \in Task, t = running, at[t] = "handler", NEW r, r[2] \in Address,
         SetReturnAddress(t, r), UNCHANGED <<running, failed, rip, core>>
  PROVE  Inv'
  <1>1. CASE Excepted(t)
    <2> DEFINE s == invocationStack[t]
               e == [Top(t) EXCEPT !.ret = r[2]]
    <2>1. /\ invocationStack' = [invocationStack EXCEPT ![t] = [s EXCEPT ![Depth(t)] = e]]
          /\ Reply(t, r, 0, 0) /\ Goto(t, "done") /\ UNCHANGED <<curDomain, newPc>>
      BY <1>1 DEF SetReturnAddress, Top
    <2>2. /\ s \in Seq(Call) /\ Top(t) \in Call /\ Depth(t) \in Nat \ {0} /\ Depth(t) = Len(s)
      BY <1>1, TopType DEF Inv, TypeOK, Excepted, Depth
    <2>3. e \in Call
      BY <2>2 DEF Call, Place
    <2> HIDE DEF e
    <2>4. [s EXCEPT ![Depth(t)] = e] \in Seq(Call) /\ Len([s EXCEPT ![Depth(t)] = e]) = Len(s)
      BY <2>2, <2>3, ExceptSeq
    <2>5. /\ invocationStack' \in [Task -> Seq(Call)]
          /\ \A u \in Task : Depth(u)' = Depth(u)
      BY <2>1, <2>4 DEF Inv, TypeOK, Depth
    <2> QED BY <2>1, <2>5, ReplyType, AtRunning, CodeInv DEF Inv, TypeOK, core, Calling
  <1>2. CASE ~Excepted(t)
    BY <1>2, RefuseInv DEF SetReturnAddress
  <1> QED BY <1>1, <1>2

\* What is asked for, and with which argument.
LEMMA Requests ==
  ASSUME NEW r \in Request
  PROVE  /\ r[1] \in Question \cup {"return", "fail"} => r = <<r[1], 0>> /\ r[2] = 0
         /\ r[1] = "redirect" => r[2] \in Address
  BY DEF Request, Question

\* Every system call of invocation control keeps the invariant.
LEMMA HandlerInv ==
  ASSUME Inv, NEW t \in Task, t = running, Handler(t)
  PROVE  Inv'
  <1>0. at[t] = "handler" /\ UNCHANGED <<running, failed, rip, core>>
    BY DEF Handler
  <1> PICK r \in Request :
         \/ r[1] \in Question /\ Ask(t, r)
         \/ r[1] = "ipc" /\ DoIpc(t, r)
         \/ r[1] = "return" /\ DoReturn(t, r)
         \/ r[1] = "redirect" /\ SetReturnAddress(t, r)
         \/ r[1] = "fail" /\ Reply(t, r, 0, 0) /\ Goto(t, "fail") /\ UNCHANGED <<task, newPc>>
    BY DEF Handler
  <1>1. CASE r[1] \in Question /\ Ask(t, r)
    BY <1>0, <1>1, RefuseInv, ReplyInv DEF Ask
  <1>2. CASE r[1] = "ipc" /\ DoIpc(t, r)
    BY <1>0, <1>2, IpcInv
  <1>3. CASE r[1] = "return" /\ DoReturn(t, r)
    BY <1>0, <1>3, ReturnInv
  <1>4. CASE r[1] = "redirect" /\ SetReturnAddress(t, r)
    BY <1>0, <1>4, Requests, RedirectInv
  <1>5. CASE r[1] = "fail" /\ Reply(t, r, 0, 0) /\ Goto(t, "fail") /\ UNCHANGED <<task, newPc>>
    <2>1. r[2] = 0
      BY <1>5, Requests
    <2> QED BY <1>0, <1>5, <2>1, ReplyInv
  <1> QED BY <1>1, <1>2, <1>3, <1>4, <1>5

\* The check of the return address keeps the invariant, whatever it finds.
LEMMA StrictInv ==
  ASSUME Inv, NEW t \in Task, t = running, Strict(t)
  PROVE  Inv'
  <1>0. at[t] = "strict" /\ UNCHANGED <<running, failed, newPc, ret, core>>
    BY DEF Strict
  <1>1. CASE IsCanonical(rip[t])
    BY <1>0, <1>1, AtRunning, CodeInv DEF Strict, Inv, TypeOK, core, task, Calling, Depth
  <1>2. CASE ~IsCanonical(rip[t]) /\ CanPush(t, curDomain[t], StrictType)
    <2>1. /\ Push(t, curDomain[t], StrictType, rip[t]) /\ Goto(t, "exit")
          /\ rip' = [rip EXCEPT ![t] = Entry(curDomain[t], StrictType)]
      BY <1>2 DEF Strict
    <2>2. StrictType \in Exception
      BY DEF StrictType, Exception
    <2>3. curDomain[t] \in Domain /\ rip[t] \in Place /\ Entry(curDomain[t], StrictType) \in Place
      BY <2>2, EntryPlace DEF Inv, TypeOK
    <2>4. /\ curDomain' \in [Task -> Domain] /\ invocationStack' \in [Task -> Seq(Call)]
          /\ \A u \in Task : Depth(u)' <= Bound
          /\ curDomain'[t] = curDomain[t]
          /\ \A u \in Task \ {t} : curDomain'[u] = curDomain[u] /\ Depth(u)' = Depth(u)
      BY <1>2, <2>1, <2>2, <2>3, PushType DEF Inv
    <2>5. rip' \in [Task -> Place]
      BY <2>1, <2>3 DEF Inv, TypeOK
    <2> QED BY <1>0, <2>1, <2>4, <2>5, AtRunning, CodeInv DEF Inv, TypeOK, core, Calling
  <1>3. CASE ~IsCanonical(rip[t]) /\ ~CanPush(t, curDomain[t], StrictType)
    <2>1. Goto(t, "fail") /\ UNCHANGED <<task, rip>>
      BY <1>3 DEF Strict
    <2> QED BY <1>0, <1>3, <2>1, AtRunning, CodeInv
              DEF Inv, TypeOK, core, task, Calling, Depth, CanPush
  <1> QED BY <1>1, <1>2, <1>3

\* The steps of a system call that only copy registers and tables.
LEMMA CopyInv ==
  ASSUME Inv, NEW t \in Task, t = running,
         \/ Syscall(t) \/ PointToRegs(t) \/ EnterDomain(t)
         \/ SyscallSetReturnAddress(t) \/ ForgetRegs(t) \/ Sysret(t)
  PROVE  Inv'
  <1> USE Universe
  <1> USE AtRunning, CodeInv DEF Calling, task, core, Depth
  <1>1. CASE Syscall(t)
    <2>1. PICK a \in Address : rip' = [rip EXCEPT ![t] = a]
      BY <1>1 DEF Syscall
    <2>2. rip' \in [Task -> Place]
      BY <2>1 DEF Inv, TypeOK, Place
    <2>3. /\ at[t] = "user" /\ Goto(t, "entry")
          /\ UNCHANGED <<running, failed, task, newPc, ret, core>>
      BY <1>1 DEF Syscall
    <2> QED BY <2>2, <2>3 DEF Inv, TypeOK
  <1>2. CASE PointToRegs(t)
    BY <1>2 DEF PointToRegs, Inv, TypeOK
  <1>3. CASE EnterDomain(t)
    <2>1. CASE at[t] = "enterDomain"
      BY <1>3, <2>1 DEF EnterDomain, Inv, TypeOK
    <2>2. CASE at[t] = "copyIopb"
      BY <1>3, <2>2 DEF EnterDomain, Inv, TypeOK
    <2> QED BY <1>3, <2>1, <2>2 DEF EnterDomain
  <1>4. CASE SyscallSetReturnAddress(t)
    <2>1. rip' \in [Task -> Place] /\ newPc' \in [Task -> Place]
      BY <1>4 DEF SyscallSetReturnAddress, Inv, TypeOK, Place
    <2> QED BY <1>4, <2>1 DEF SyscallSetReturnAddress, Inv, TypeOK
  <1>5. CASE ForgetRegs(t)
    <2>1. DOMAIN ret' = Task /\ \A u \in Task \ {t} : ret'[u] = ret[u]
      BY <1>5 DEF ForgetRegs, Inv, TypeOK
    <2> QED BY <1>5, <2>1 DEF ForgetRegs, Inv, TypeOK
  <1>6. CASE Sysret(t)
    BY <1>6 DEF Sysret, Inv, TypeOK
  <1> QED BY <1>1, <1>2, <1>3, <1>4, <1>5, <1>6

\* Every step keeps the invariant.
LEMMA NextInv == Inv /\ [Next]_vars => Inv'
  <1> SUFFICES ASSUME Inv, [Next]_vars PROVE Inv'
    OBVIOUS
  <1>1. CASE UNCHANGED vars
    BY <1>1 DEF vars, task, code, core, Inv, TypeOK, OwnRegs, Points, InDomain, FailsForCause,
                CanPush, Depth
  <1>2. CASE Preempt
    BY <1>2, SwitchInv DEF Preempt, Inv, TypeOK
  <1>3. ASSUME NEW t \in Task, t = running, Step(t) PROVE Inv'
    <2>1. CASE \E type \in Exception : TakeException(t, type)
      BY <1>3, <2>1, ExceptionInv
    <2>2. CASE Handler(t)
      BY <1>3, <2>2, HandlerInv
    <2>3. CASE Strict(t)
      BY <1>3, <2>3, StrictInv
    <2>4. CASE SchedCtrlFailure(t)
      <3>1. PICK next \in (Task \ failed') \cup {Idle} : SwitchTo(next)
        BY <2>4 DEF SchedCtrlFailure, SwitchToFailure
      <3>2. failed' = failed \cup {t} /\ UNCHANGED <<task, code>>
        BY <2>4 DEF SchedCtrlFailure, SwitchToFailure
      <3>3. failed' \in SUBSET Task /\ running # next
        BY <1>3, <3>2, Universe DEF Inv, TypeOK
      <3> QED BY <3>1, <3>2, <3>3, SwitchInv
    <2> QED BY <1>3, <2>1, <2>2, <2>3, <2>4, CopyInv DEF Step
  <1> QED BY <1>1, <1>2, <1>3 DEF Next

\* The core is always where its running task is, and writes its registers only.
THEOREM Invariance == Spec => []Inv
  BY InitInv, NextInv, PTL DEF Spec

\* No task ever executes user code with the page tables or the I/O permissions
\* of another domain, wherever its invocations were preempted
\* (ia32eCpuEnterDomain, ia32eCpuTaskRestoreCtx).
THEOREM OwnDomain == Spec => []RunsInOwnDomain
  <1>1. Inv => RunsInOwnDomain
    BY DEF Inv, InDomain, RunsInOwnDomain
  <1> QED BY <1>1, Invariance, PTL
-----------------------------------------------------------------------------
(* The refinement.                                                         *)

Away == {"enterDomain", "copyIopb", "setReturn"}

\* A step of t moves the others nowhere.
LEMMA WhereStep ==
  ASSUME Inv, NEW t \in Task, NEW step, Goto(t, step),
         \A u \in Task \ {t} : rip'[u] = rip[u] /\ newPc'[u] = newPc[u]
  PROVE  Where' = [Where EXCEPT ![t] = IF step \in Away THEN newPc'[t] ELSE rip'[t]]
  <1>1. at'[t] = step /\ \A u \in Task \ {t} : at'[u] = at[u]
    BY DEF Inv, TypeOK, Goto
  <1> QED BY <1>1 DEF Where, Away

\* A step of t within its code, or one that moves none.
LEMMA RunRefines ==
  ASSUME Inv, NEW t \in Task, t = running, NEW step, Goto(t, step),
         UNCHANGED <<failed, task>>,
         ret' = ret \/ ret' = [ret EXCEPT ![t] = NoAnswer],
         \A u \in Task \ {t} : rip'[u] = rip[u] /\ newPc'[u] = newPc[u],
         (IF step \in Away THEN newPc'[t] ELSE rip'[t]) \in Address \cup {Where[t]}
  PROVE  C!Next
  <1> DEFINE a == IF step \in Away THEN newPc'[t] ELSE rip'[t]
  <1>1. Where' = [Where EXCEPT ![t] = a] /\ a \in Address \cup {Where[t]}
    BY WhereStep
  <1>2. C!Run(t)
    BY <1>1 DEF C!Run, C!Answer, NoAnswer, task
  <1>3. t \in Task \ failed
    BY AtRunning
  <1> QED BY <1>2, <1>3 DEF C!Next

\* A push in the code is a push on the stack of calls.
LEMMA PushRefines ==
  ASSUME Inv, NEW t \in Task, NEW d, NEW type, Where[t] = rip[t],
         CanPush(t, d, type), Push(t, d, type, rip[t]), failed' = failed,
         Where' = [Where EXCEPT ![t] = Entry(d, type)]
  PROVE  C!Push(t, d, type)
  BY DEF C!Push, C!CanTake, Push, CanPush, Depth, Entry

\* An exception is raised or, if nobody can take it, ends the task.
LEMMA ExceptionRefines ==
  ASSUME Inv, NEW t \in Task, t = running, NEW type \in Exception, TakeException(t, type)
  PROVE  C!Next
  <1>0. at[t] = "user" /\ t \in Task \ failed /\ UNCHANGED <<at, newPc, ret>>
    BY AtRunning DEF TakeException
  <1>1. Goto(t, "user") /\ Where[t] = rip[t]
    BY <1>0 DEF Goto, Inv, TypeOK, Where
  <1>2. CASE CanPush(t, curDomain[t], type)
    <2>1. /\ Push(t, curDomain[t], type, rip[t]) /\ failed' = failed
          /\ rip' = [rip EXCEPT ![t] = Entry(curDomain[t], type)]
      BY <1>2 DEF TakeException
    <2>2. /\ \A u \in Task \ {t} : rip'[u] = rip[u] /\ newPc'[u] = newPc[u]
          /\ rip'[t] = Entry(curDomain[t], type)
      BY <1>0, <2>1 DEF Inv, TypeOK
    <2>3. Where' = [Where EXCEPT ![t] = Entry(curDomain[t], type)]
      BY <1>1, <2>2, WhereStep DEF Away
    <2>4. C!Raise(t, type)
      BY <1>0, <1>1, <1>2, <2>1, <2>3, PushRefines DEF C!Raise
    <2> QED BY <1>0, <2>4 DEF C!Next
  <1>3. CASE ~CanPush(t, curDomain[t], type)
    <2>1. failed' = failed \cup {t} /\ UNCHANGED <<task, rip>>
      BY <1>3 DEF TakeException, SwitchToFailure
    <2>2. Where' = Where
      BY <1>0, <2>1 DEF Where
    <2>3. C!Fail(t)
      BY <1>0, <1>3, <2>1, <2>2 DEF C!Fail, C!CanTake, CanPush, Depth, task
    <2> QED BY <1>0, <2>3 DEF C!Next
  <1> QED BY <1>2, <1>3

\* What a step of the handler leaves as it was.
LEMMA AtHandler ==
  ASSUME Inv, NEW t \in Task, t = running, Handler(t)
  PROVE  /\ at[t] = "handler" /\ syscallRegs = t /\ t \in Task \ failed
         /\ failed' = failed /\ rip' = rip
         /\ Where[t] = rip[t]
  BY AtRunning DEF Handler, Calling, Where

\* The end of a system call that moved nobody.
LEMMA DoneRefines ==
  ASSUME Inv, NEW t \in Task, t = running, Handler(t), NEW step \in {"done", "fail"},
         Goto(t, step), UNCHANGED newPc
  PROVE  Where' = Where
  <1>1. Where' = [Where EXCEPT ![t] = rip[t]]
    BY AtHandler, WhereStep DEF Away
  <1> QED BY <1>1, AtHandler DEF Where

\* What the code refuses may be refused.
LEMMA RefuseRefines ==
  ASSUME Inv, NEW t \in Task, t = running, Handler(t), NEW r \in Request, Refuse(t, r),
         C!Refusable(t, r[1], r[2])
  PROVE  C!Next
  <1>1. Where' = Where
    BY DoneRefines DEF Refuse
  <1>2. C!Refuse(t)
    BY <1>1, AtHandler DEF C!Refuse, C!Answer, C!EINVAL, EINVAL, Refuse, Reply, task
  <1> QED BY <1>2, AtHandler DEF C!Next

\* Answers are those of the stack of calls.
LEMMA AskRefines ==
  ASSUME Inv, NEW t \in Task, t = running, Handler(t), NEW r \in Request,
         r[1] \in Question, Ask(t, r)
  PROVE  C!Next
  <1> USE TopType DEF C!Top, Top, Depth
  <1>0. r[2] = 0 /\ Len(invocationStack[t]) \in Nat
    BY Requests, LenProperties DEF Inv, TypeOK
  <1>1. Excepted(t) <=> C!TookException(t)
    BY <1>0, EmptySeq DEF C!TookException, Excepted, Inv, TypeOK
  <1>2. Depth(t) = 0 <=> invocationStack[t] = <<>>
    BY <1>0, EmptySeq DEF Inv, TypeOK
  <1> DEFINE refused == \/ r[1] \in {"invoker", "type"} /\ Depth(t) = 0
                        \/ r[1] = "address" /\ ~Excepted(t)
  <1>3. CASE refused
    <2>1. C!Refusable(t, r[1], r[2])
      BY <1>1, <1>2, <1>3 DEF C!Refusable
    <2> QED BY <1>3, <2>1, RefuseRefines DEF Ask
  <1>4. CASE ~refused
    <2>1. /\ Reply(t, r, 0, CASE r[1] = "available" -> Bound - Depth(t)
                           [] r[1] = "domain" -> curDomain[t]
                           [] r[1] = "invoker" -> Top(t).from
                           [] r[1] = "type" -> Top(t).type
                           [] r[1] = "address" -> Top(t).ret)
          /\ Goto(t, "done") /\ UNCHANGED <<task, newPc>>
      BY <1>4 DEF Ask
    <2>2. Where' = Where
      BY <2>1, DoneRefines
    <2>3. C!Ask(t)
      <3> USE <1>0, <1>1, <1>2, <1>4, <2>1, <2>2, AtHandler DEF C!Ask, C!Answer, Reply, task
      <3>1. CASE r[1] = "available"
        BY <3>1
      <3>2. CASE r[1] = "domain"
        BY <3>2
      <3>3. CASE r[1] = "invoker"
        BY <3>3
      <3>4. CASE r[1] = "type"
        BY <3>4
      <3>5. CASE r[1] = "address"
        BY <3>5
      <3> QED BY <3>1, <3>2, <3>3, <3>4, <3>5 DEF Question
    <2> QED BY <2>3, AtHandler DEF C!Next
  <1> QED BY <1>3, <1>4

\* An IPC of the code is an IPC of the stack of calls.
LEMMA IpcRefines ==
  ASSUME Inv, NEW t \in Task, t = running, Handler(t), NEW r \in Request,
         r[1] = "ipc", DoIpc(t, r)
  PROVE  C!Next
  <1> DEFINE d == r[2]
  <1>1. CASE Authenticated(d, curDomain[t]) /\ CanPush(t, d, "ipc")
    <2>1. /\ Push(t, d, "ipc", rip[t]) /\ newPc' = [newPc EXCEPT ![t] = Entry(d, "ipc")]
          /\ Reply(t, r, 0, 0) /\ Enter(t, d)
      BY <1>1, AtHandler DEF DoIpc
    <2>2. PICK step \in {"setReturn", "enterDomain"} : Goto(t, step)
      BY <2>1 DEF Enter
    <2>3. /\ newPc'[t] = Entry(d, "ipc")
          /\ \A u \in Task \ {t} : rip'[u] = rip[u] /\ newPc'[u] = newPc[u]
      BY <2>1, AtHandler DEF Inv, TypeOK
    <2>4. Where' = [Where EXCEPT ![t] = Entry(d, "ipc")]
      BY <2>2, <2>3, WhereStep DEF Away
    <2>5. C!Push(t, d, "ipc")
      BY <1>1, <2>1, <2>4, AtHandler, PushRefines
    <2>6. C!Ipc(t, d) /\ d \in Domain
      BY <1>1, <2>1, <2>5 DEF C!Ipc, C!Done, C!Answer, Authenticated, Reply
    <2> QED BY <2>6, AtHandler DEF C!Next
  <1>2. CASE ~(Authenticated(d, curDomain[t]) /\ CanPush(t, d, "ipc"))
    <2>1. C!Refusable(t, r[1], r[2])
      BY <1>2 DEF C!Refusable, C!CanTake, Authenticated, CanPush, Depth
    <2> QED BY <1>2, <2>1, RefuseRefines DEF DoIpc
  <1> QED BY <1>1, <1>2

\* A return of the code is a return of the stack of calls.
LEMMA ReturnRefines ==
  ASSUME Inv, NEW t \in Task, t = running, Handler(t), NEW r \in Request,
         r[1] = "return", DoReturn(t, r)
  PROVE  C!Next
  <1>0. r[2] = 0
    BY Requests
  <1>1. Len(invocationStack[t]) \in Nat /\ (Depth(t) > 0 <=> invocationStack[t] # <<>>)
    BY EmptySeq, LenProperties DEF Depth, Inv, TypeOK
  <1>2. CASE Depth(t) > 0
    <2>1. /\ Pop(t) /\ newPc' = [newPc EXCEPT ![t] = Top(t).ret]
          /\ Reply(t, r, 0, 0) /\ Enter(t, Top(t).from)
      BY <1>2 DEF DoReturn
    <2>2. PICK step \in {"setReturn", "enterDomain"} : Goto(t, step)
      BY <2>1 DEF Enter
    <2>3. /\ newPc'[t] = Top(t).ret
          /\ \A u \in Task \ {t} : rip'[u] = rip[u] /\ newPc'[u] = newPc[u]
      BY <2>1, AtHandler DEF Inv, TypeOK
    <2>4. Where' = [Where EXCEPT ![t] = Top(t).ret]
      BY <2>2, <2>3, WhereStep DEF Away
    <2>5. C!Return(t)
      BY <1>0, <1>1, <1>2, <2>1, <2>4, AtHandler
         DEF C!Return, C!Top, C!Done, C!Answer, Pop, Reply, Top, Depth
    <2> QED BY <2>5, AtHandler DEF C!Next
  <1>3. CASE ~(Depth(t) > 0)
    <2>1. C!Refusable(t, r[1], r[2])
      BY <1>1, <1>3 DEF C!Refusable
    <2> QED BY <1>3, <2>1, RefuseRefines DEF DoReturn
  <1> QED BY <1>2, <1>3

\* A handler redirects the exception it handles.
LEMMA RedirectRefines ==
  ASSUME Inv, NEW t \in Task, t = running, Handler(t), NEW r \in Request,
         r[1] = "redirect", SetReturnAddress(t, r)
  PROVE  C!Next
  <1>0. r[2] \in Address
    BY Requests
  <1>1. Excepted(t) <=> C!TookException(t)
    BY EmptySeq, LenProperties DEF C!TookException, C!Top, Excepted, Top, Depth, Inv, TypeOK
  <1>2. CASE Excepted(t)
    <2>1. /\ invocationStack' = [invocationStack EXCEPT ![t][Depth(t)].ret = r[2]]
          /\ Reply(t, r, 0, 0) /\ Goto(t, "done") /\ UNCHANGED <<curDomain, newPc>>
      BY <1>2 DEF SetReturnAddress
    <2>2. Where' = Where
      BY <2>1, DoneRefines
    <2>3. C!Redirect(t, r[2])
      BY <1>1, <1>2, <2>1, <2>2, AtHandler DEF C!Redirect, C!Done, C!Answer, Reply, Depth
    <2> QED BY <1>0, <2>3, AtHandler DEF C!Next
  <1>3. CASE ~Excepted(t)
    <2>1. C!Refusable(t, r[1], r[2])
      BY <1>1, <1>3 DEF C!Refusable
    <2> QED BY <1>3, <2>1, RefuseRefines DEF SetReturnAddress
  <1> QED BY <1>2, <1>3

\* A system call of the code is one operation of the stack of calls, at one step.
LEMMA HandlerRefines ==
  ASSUME Inv, NEW t \in Task, t = running, Handler(t)
  PROVE  C!Next
  <1> PICK r \in Request :
         \/ r[1] \in Question /\ Ask(t, r)
         \/ r[1] = "ipc" /\ DoIpc(t, r)
         \/ r[1] = "return" /\ DoReturn(t, r)
         \/ r[1] = "redirect" /\ SetReturnAddress(t, r)
         \/ r[1] = "fail" /\ Reply(t, r, 0, 0) /\ Goto(t, "fail") /\ UNCHANGED <<task, newPc>>
    BY DEF Handler
  <1>1. CASE r[1] = "fail" /\ Reply(t, r, 0, 0) /\ Goto(t, "fail") /\ UNCHANGED <<task, newPc>>
    <2>1. r[2] = 0
      BY <1>1, Requests
    <2>2. Where' = Where
      BY <1>1, DoneRefines
    <2>3. C!AskToFail(t)
      BY <1>1, <2>1, <2>2, AtHandler DEF C!AskToFail, C!Done, C!Answer, Reply, task
    <2> QED BY <2>3, AtHandler DEF C!Next
  <1> QED BY <1>1, AskRefines, IpcRefines, ReturnRefines, RedirectRefines

\* A return to an address that is not canonical raises an exception, or ends the task.
LEMMA StrictRefines ==
  ASSUME Inv, NEW t \in Task, t = running, Strict(t)
  PROVE  C!Next
  <1>0. at[t] = "strict" /\ t \in Task \ failed /\ UNCHANGED <<failed, newPc, ret>>
    BY AtRunning DEF Strict
  <1>1. Where[t] = rip[t]
    BY <1>0 DEF Where
  <1>2. CASE IsCanonical(rip[t]) \/ ~CanPush(t, curDomain[t], StrictType)
    <2>1. UNCHANGED <<task, rip>> /\ \E step \in {"exit", "fail"} : Goto(t, step)
      BY <1>2 DEF Strict
    <2> QED BY <1>0, <1>1, <2>1, RunRefines DEF Away
  <1>3. CASE ~IsCanonical(rip[t]) /\ CanPush(t, curDomain[t], StrictType)
    <2>1. /\ Push(t, curDomain[t], StrictType, rip[t]) /\ Goto(t, "exit")
          /\ rip' = [rip EXCEPT ![t] = Entry(curDomain[t], StrictType)]
      BY <1>3 DEF Strict
    <2>2. /\ \A u \in Task \ {t} : rip'[u] = rip[u] /\ newPc'[u] = newPc[u]
          /\ rip'[t] = Entry(curDomain[t], StrictType)
      BY <1>0, <2>1 DEF Inv, TypeOK
    <2>3. Where' = [Where EXCEPT ![t] = Entry(curDomain[t], StrictType)]
      BY <2>1, <2>2, WhereStep DEF Away
    <2>4. C!Raise(t, StrictType) /\ StrictType \in Exception
      BY <1>0, <1>1, <1>3, <2>1, <2>3, PushRefines DEF C!Raise, StrictType, Exception
    <2> QED BY <1>0, <2>4 DEF C!Next
  <1> QED BY <1>2, <1>3

\* The other steps of a system call complete a move that was made already.
LEMMA CopyRefines ==
  ASSUME Inv, NEW t \in Task, t = running,
         \/ Syscall(t) \/ PointToRegs(t) \/ EnterDomain(t)
         \/ SyscallSetReturnAddress(t) \/ ForgetRegs(t) \/ Sysret(t)
  PROVE  C!Next
  <1> USE RunRefines DEF Away
  <1>1. CASE Syscall(t)
    <2>1. PICK a \in Address : rip' = [rip EXCEPT ![t] = a]
      BY <1>1 DEF Syscall
    <2>2. /\ rip'[t] = a /\ \A u \in Task \ {t} : rip'[u] = rip[u]
          /\ Goto(t, "entry") /\ UNCHANGED <<failed, task, newPc, ret>>
      BY <1>1, <2>1 DEF Syscall, Inv, TypeOK
    <2> QED BY <2>2
  <1>2. CASE PointToRegs(t)
    BY <1>2 DEF PointToRegs, Where
  <1>3. CASE EnterDomain(t)
    <2>1. PICK step \in {"copyIopb", "setReturn"} : Goto(t, step)
      BY <1>3 DEF EnterDomain
    <2> QED BY <1>3, <2>1 DEF EnterDomain, Where
  <1>4. CASE SyscallSetReturnAddress(t)
    <2>1. /\ syscallRegs = t /\ at[t] = "setReturn" /\ Goto(t, "done")
          /\ UNCHANGED <<failed, task, ret>>
          /\ rip' = [rip EXCEPT ![t] = newPc[t]] /\ newPc' = [newPc EXCEPT ![t] = Start]
      BY <1>4, AtRunning DEF SyscallSetReturnAddress, Calling
    <2>2. /\ rip'[t] = newPc[t]
          /\ \A u \in Task \ {t} : rip'[u] = rip[u] /\ newPc'[u] = newPc[u]
      BY <2>1 DEF Inv, TypeOK
    <2>3. Where[t] = newPc[t]
      BY <2>1 DEF Where
    <2> QED BY <2>1, <2>2, <2>3
  <1>5. CASE ForgetRegs(t)
    BY <1>5 DEF ForgetRegs, Where
  <1>6. CASE Sysret(t)
    BY <1>6 DEF Sysret, Where
  <1> QED BY <1>1, <1>2, <1>3, <1>4, <1>5, <1>6

\* Every step is a step of the stacks of calls, or none.
LEMMA NextRefines == Inv /\ [Next]_vars => [C!Next]_C!vars
  <1> SUFFICES ASSUME Inv, [Next]_vars PROVE [C!Next]_C!vars
    OBVIOUS
  <1>1. CASE UNCHANGED vars \/ Preempt
    <2>1. UNCHANGED <<failed, task, code>>
      BY <1>1 DEF vars, Preempt
    <2> QED BY <2>1 DEF C!vars, Where, task, code
  <1>2. ASSUME NEW t \in Task, t = running, Step(t) PROVE C!Next
    <2>1. CASE \E type \in Exception : TakeException(t, type)
      BY <1>2, <2>1, ExceptionRefines
    <2>2. CASE Handler(t)
      BY <1>2, <2>2, HandlerRefines
    <2>3. CASE Strict(t)
      BY <1>2, <2>3, StrictRefines
    <2>4. CASE SchedCtrlFailure(t)
      <3>1. /\ at[t] = "fail" /\ failed' = failed \cup {t} /\ UNCHANGED <<task, code>>
            /\ t \in Task \ failed
        BY <1>2, <2>4, AtRunning DEF SchedCtrlFailure, SwitchToFailure
      <3>2. Where' = Where /\ StrictType \in Exception
        BY <3>1 DEF Where, code, StrictType, Exception
      <3>3. C!Fail(t)
        BY <3>1, <3>2 DEF C!Fail, C!CanTake, CanPush, Depth, Inv, FailsForCause, task, code
      <3> QED BY <3>1, <3>3 DEF C!Next
    <2> QED BY <1>2, <2>1, <2>2, <2>3, <2>4, CopyRefines DEF Step
  <1> QED BY <1>1, <1>2 DEF Next

\* Wherever the core switches tasks inside their system calls, each has a
\* bounded stack of its own calls: it enters and returns once, to where it came
\* from, and nothing is refused without cause (kSyscall.c, kDomainUniverse.c).
THEOREM Refinement == Spec => ImplementsCallStack
  <1>1. Init => C!Init
    BY DEF Init, C!Init, Where, NoAnswer
  <1>2. Inv /\ [Next]_vars => [C!Next]_C!vars
    BY NextRefines
  <1> QED BY <1>1, <1>2, Invariance, PTL DEF Spec, C!Spec, ImplementsCallStack
=============================================================================
