----------------------------- MODULE CallStack -----------------------------
(***************************************************************************)
(* What invocations promise (doc/api/syscalls.md): each task has a bounded *)
(* stack of calls.  An IPC or an exception continues the task at an entry  *)
(* point of the invoked domain and remembers where it came from; a return  *)
(* continues it exactly there, or, after an exception, where the handler   *)
(* said.  A system call is refused only for a reason, and a task fails     *)
(* only because it asked to or because nothing could take its exception.   *)
(* Every operation is one step, whatever else the core runs.               *)
(***************************************************************************)
EXTENDS Integers, Sequences

CONSTANTS Task, Domain, Address,
          Request,         \* operations with their arguments, 0 for none
          Exception,       \* the kinds of exceptions
          FirstDomain,     \* task -> the domain it was created in
          Start,           \* where tasks start
          Entry(_, _),     \* domain, kind -> entry point
          Handles(_, _),   \* domain, kind -> is that entry point valid?
          MayCall(_, _),   \* domain, domain -> may the first invoke the second?
          Bound            \* the capacity of an invocation stack

VARIABLES
  dom,      \* task -> the domain it executes in
  pc,       \* task -> where it executes
  calls,    \* task -> its pending calls
  answer,   \* task -> its last system call and the answer to it
  failed    \* the tasks in failure state

vars == <<dom, pc, calls, answer, failed>>

Top(t) == calls[t][Len(calls[t])]
TookException(t) == calls[t] # <<>> /\ Top(t).type # "ipc"
CanTake(t, d, kind) == Len(calls[t]) < Bound /\ Handles(d, kind)

\* the answer to a request: an error or none, and a value
Answer(t, op, arg, err, value) ==
  answer' = [answer EXCEPT ![t] = <<op, arg, err, value>>]

Done(t, op, arg) == Answer(t, op, arg, 0, 0)

EINVAL == -22

Init ==
  /\ dom = FirstDomain
  /\ pc = [t \in Task |-> Start]
  /\ calls = [t \in Task |-> <<>>]
  /\ answer = [t \in Task |-> <<"none", 0, 0, 0>>]
  /\ failed = {}

\* the task executes its own code, and may forget the last answer
Run(t) ==
  /\ pc' \in {[pc EXCEPT ![t] = a] : a \in Address \cup {pc[t]}}
  /\ \/ UNCHANGED answer
     \/ Answer(t, "none", 0, 0, 0)
  /\ UNCHANGED <<dom, calls, failed>>

Push(t, d, kind) ==
  /\ CanTake(t, d, kind)
  /\ calls' = [calls EXCEPT ![t] = Append(@, [from |-> dom[t], type |-> kind, ret |-> pc[t]])]
  /\ dom' = [dom EXCEPT ![t] = d]
  /\ pc' = [pc EXCEPT ![t] = Entry(d, kind)]
  /\ UNCHANGED failed

Ipc(t, d) == MayCall(dom[t], d) /\ Push(t, d, "ipc") /\ Done(t, "ipc", d)

Raise(t, kind) == Push(t, dom[t], kind) /\ UNCHANGED answer

Return(t) ==
  /\ calls[t] # <<>>
  /\ dom' = [dom EXCEPT ![t] = Top(t).from]
  /\ pc' = [pc EXCEPT ![t] = Top(t).ret]
  /\ calls' = [calls EXCEPT ![t] = SubSeq(@, 1, Len(@) - 1)]
  /\ Done(t, "return", 0)
  /\ UNCHANGED failed

\* a handler has the exception return somewhere else
Redirect(t, a) ==
  /\ TookException(t)
  /\ calls' = [calls EXCEPT ![t][Len(calls[t])].ret = a]
  /\ Done(t, "redirect", a)
  /\ UNCHANGED <<dom, pc, failed>>

\* questions about the stack
Ask(t) ==
  /\ \/ Answer(t, "available", 0, 0, Bound - Len(calls[t]))
     \/ Answer(t, "domain", 0, 0, dom[t])
     \/ calls[t] # <<>> /\ Answer(t, "type", 0, 0, Top(t).type)
     \/ calls[t] # <<>> /\ Answer(t, "invoker", 0, 0, Top(t).from)
     \/ TookException(t) /\ Answer(t, "address", 0, 0, Top(t).ret)
  /\ UNCHANGED <<dom, pc, calls, failed>>

\* why a request may be refused
Refusable(t, op, arg) ==
  \/ op \in {"return", "type", "invoker"} /\ calls[t] = <<>>
  \/ op \in {"address", "redirect"} /\ ~TookException(t)
  \/ op = "ipc" /\ ~(MayCall(dom[t], arg) /\ CanTake(t, arg, "ipc"))

Refuse(t) ==
  /\ \E r \in Request : Refusable(t, r[1], r[2]) /\ Answer(t, r[1], r[2], EINVAL, 0)
  /\ UNCHANGED <<dom, pc, calls, failed>>

Fail(t) ==
  /\ \/ answer[t] = <<"fail", 0, 0, 0>>
     \/ \E kind \in Exception : ~CanTake(t, dom[t], kind)
  /\ failed' = failed \cup {t}
  /\ UNCHANGED <<dom, pc, calls, answer>>

AskToFail(t) == Done(t, "fail", 0) /\ UNCHANGED <<dom, pc, calls, failed>>

Next ==
  \E t \in Task \ failed :
    \/ Run(t) \/ Return(t) \/ Ask(t) \/ Refuse(t) \/ AskToFail(t) \/ Fail(t)
    \/ \E d \in Domain : Ipc(t, d)
    \/ \E kind \in Exception : Raise(t, kind)
    \/ \E a \in Address : Redirect(t, a)

Spec == Init /\ [][Next]_vars
=============================================================================
