----------------------------- MODULE Rendezvous -----------------------------
(***************************************************************************)
(* How the cores act together (arch/x86_64/ia32e/src/ia32eCpu.c): one      *)
(* core, the event sender, has every core run a routine in interrupt       *)
(* context and spins until all have.  The boot uses it to initialise the   *)
(* schedulers and to hand the cores off; unless ticks are desynchronized,  *)
(* each tick is such a rendezvous too.                                     *)
(*                                                                         *)
(* IPIs and timer interrupts share one vector: a core holds at most one of *)
(* them pending, and tells them apart by who it is and how far it got.     *)
(***************************************************************************)
EXTENDS Naturals, FiniteSets

CONSTANTS Sender,  \* ipiData.ipiSender, the boot processor
          Other    \* the other cores

Cpu == {Sender} \cup Other

ASSUME Cores == Sender \notin Other /\ IsFiniteSet(Other)

VARIABLES
  pc,           \* cpu -> what it is doing
  online,       \* the cores with cpuFlags.online
  calling,      \* cpu -> its fn, the routine it was asked to run
  fn,           \* global->ipiData.fn
  rendezvous,   \* global->ipiData.rendezvous
  sent,         \* the cores the sender sent its IPI to in this rendezvous
  irr,          \* cpu -> is the event vector pending in its local APIC?
  armed,        \* cpu -> does its timer tick?
  handoffDone,  \* cpu->handoffDone
  runs,         \* cpu -> times it ran the routine of this rendezvous
  desync        \* CONFIG_KTICK_DESYNCHRONIZED, a build option

vars == <<pc, online, calling, fn, rendezvous, sent, irr, armed,
          handoffDone, runs, desync>>

Routine == {"kSchedInit", "kPerCpuHandoff", "kTickTransition"}

\* nothing was asked of any core yet
Quiet ==
  /\ calling = [c \in Cpu |-> "NULL"]
  /\ fn = "NULL"
  /\ rendezvous = 0
  /\ sent = {}
  /\ irr = [c \in Cpu |-> FALSE]
  /\ armed = [c \in Cpu |-> FALSE]
  /\ handoffDone = [c \in Cpu |-> FALSE]
  /\ runs = [c \in Cpu |-> 0]
  /\ desync \in BOOLEAN

Init ==
  /\ Quiet
  /\ online = Cpu
  /\ pc = [c \in Cpu |-> IF c = Sender THEN "boot" ELSE "out"]

\* the core runs the routine it was asked to
Run(c) ==
  LET handoff == calling[c] = "kPerCpuHandoff"
  IN  /\ handoffDone' = [handoffDone EXCEPT ![c] = @ \/ handoff]
      /\ armed' = [armed EXCEPT ![c] = @ \/ (handoff /\ (desync \/ c = Sender))]

-----------------------------------------------------------------------------
(* ia32eCpuInvokeAllRendezvous, on the sender.                             *)

Invoke(f) ==
  /\ rendezvous' = 0
  /\ calling' = [calling EXCEPT ![Sender] = f]
  /\ pc' = [pc EXCEPT ![Sender] = "publish"]
  /\ sent' = {}
  /\ runs' = [c \in Cpu |-> 0]

\* kStart, before and after the plugins
KStart ==
  /\ \/ pc[Sender] = "boot" /\ Invoke("kSchedInit")
     \/ pc[Sender] = "plugins" /\ Invoke("kPerCpuHandoff")
  /\ UNCHANGED <<fn, irr, armed, handoffDone, desync, online>>

Publish ==
  /\ pc[Sender] = "publish"
  /\ fn' = calling[Sender]
  /\ pc' = [pc EXCEPT ![Sender] = "send"]
  /\ UNCHANGED <<calling, rendezvous, sent, irr, armed, handoffDone, runs, desync, online>>

\* (bug: the IPIs go out before the routine is published)
SendUnpublished(c) ==
  /\ pc[Sender] \in {"publish", "send"}
  /\ c \in online \ ({Sender} \cup sent)
  /\ irr' = [irr EXCEPT ![c] = TRUE]
  /\ sent' = sent \cup {c}
  /\ UNCHANGED <<pc, calling, fn, rendezvous, armed, handoffDone, runs, desync, online>>

Send(c) ==
  /\ pc[Sender] = "send"
  /\ c \in online \ ({Sender} \cup sent)
  /\ irr' = [irr EXCEPT ![c] = TRUE]
  /\ sent' = sent \cup {c}
  /\ UNCHANGED <<pc, calling, fn, rendezvous, armed, handoffDone, runs, desync, online>>

RunOwn ==
  /\ pc[Sender] = "send" /\ sent = online \ {Sender}
  /\ Run(Sender)
  /\ runs' = [runs EXCEPT ![Sender] = @ + 1]
  /\ pc' = [pc EXCEPT ![Sender] = "spin"]
  /\ UNCHANGED <<calling, fn, rendezvous, sent, irr, desync, online>>

\* (bug: the sender waits for one core less)
ReturnOneEarly ==
  /\ pc[Sender] = "spin"
  /\ rendezvous + 1 >= Cardinality(sent)
  /\ fn' = "NULL"
  /\ pc' = [pc EXCEPT ![Sender] = IF calling[Sender] = "kSchedInit" THEN "plugins" ELSE "out"]
  /\ UNCHANGED <<calling, rendezvous, sent, irr, armed, handoffDone, runs, desync, online>>

Return ==
  /\ pc[Sender] = "spin"
  /\ rendezvous = Cardinality(sent)
  /\ fn' = "NULL"
  /\ pc' = [pc EXCEPT ![Sender] = IF calling[Sender] = "kSchedInit" THEN "plugins" ELSE "out"]
  /\ UNCHANGED <<calling, rendezvous, sent, irr, armed, handoffDone, runs, desync, online>>

-----------------------------------------------------------------------------
(* ia32eIsrEventHandler.                                                   *)

\* the periodic timer; a tick that finds the last one pending is lost
Timer(c) ==
  /\ armed[c]
  /\ irr' = [irr EXCEPT ![c] = TRUE]
  /\ UNCHANGED <<pc, calling, fn, rendezvous, sent, armed, handoffDone, runs, desync, online>>

\* (bug: with desynchronized ticks every event is a tick)
InvitedToSynchronized(c) == c # Sender /\ ~desync

InvitedTo(c) == c # Sender /\ (desync => ~handoffDone[c])

\* the core takes the interrupt: an invitation, or its own tick
Event(c) ==
  /\ pc[c] = "out" /\ irr[c]
  /\ irr' = [irr EXCEPT ![c] = FALSE]
  /\ \/ InvitedTo(c) /\ pc' = [pc EXCEPT ![c] = "invited"]
        /\ UNCHANGED <<calling, rendezvous, sent, runs>>
     \/ ~InvitedTo(c) /\ ~desync /\ Invoke("kTickTransition")
     \/ ~InvitedTo(c) /\ desync
        /\ pc' = [pc EXCEPT ![c] = "tick"]
        /\ calling' = [calling EXCEPT ![c] = "kTickTransition"]
        /\ UNCHANGED <<rendezvous, sent, runs>>
  /\ UNCHANGED <<fn, armed, handoffDone, desync, online>>

ReadFn(c) ==
  /\ pc[c] = "invited"
  /\ calling' = [calling EXCEPT ![c] = fn]
  /\ pc' = [pc EXCEPT ![c] = IF fn = "NULL" THEN "out" ELSE "call"]
  /\ UNCHANGED <<fn, rendezvous, sent, irr, armed, handoffDone, runs, desync, online>>

Call(c) ==
  /\ pc[c] = "call"
  /\ Run(c)
  /\ runs' = [runs EXCEPT ![c] = @ + 1]
  /\ pc' = [pc EXCEPT ![c] = "add"]
  /\ UNCHANGED <<calling, fn, rendezvous, sent, irr, desync, online>>

\* (bug: the increment is not atomic and may be lost)
AddLost(c) ==
  /\ pc[c] = "add"
  /\ rendezvous' \in {rendezvous, rendezvous + 1}
  /\ pc' = [pc EXCEPT ![c] = "out"]
  /\ UNCHANGED <<calling, fn, sent, irr, armed, handoffDone, runs, desync, online>>

Add(c) ==
  /\ pc[c] = "add"
  /\ rendezvous' = rendezvous + 1
  /\ pc' = [pc EXCEPT ![c] = "out"]
  /\ UNCHANGED <<calling, fn, sent, irr, armed, handoffDone, runs, desync, online>>

\* a desynchronized tick
OwnTick(c) ==
  /\ pc[c] = "tick"
  /\ Run(c)
  /\ pc' = [pc EXCEPT ![c] = "out"]
  /\ UNCHANGED <<calling, fn, rendezvous, sent, irr, runs, desync, online>>

-----------------------------------------------------------------------------

Next ==
  \/ KStart
  \/ Publish
  \/ \E c \in Other : Send(c)
  \/ RunOwn
  \/ Return
  \/ \E c \in Cpu : Timer(c)
  \/ \E c \in Cpu : Event(c)
  \/ \E c \in Other : ReadFn(c)
  \/ \E c \in Other : Call(c)
  \/ \E c \in Other : Add(c)
  \/ \E c \in Cpu : OwnTick(c)

Spec == Init /\ [][Next]_vars

\* Code on a core runs on, and interrupts are masked for bounded times only.
Fairness ==
  /\ WF_vars(KStart) /\ WF_vars(Publish) /\ WF_vars(RunOwn) /\ WF_vars(Return)
  /\ \A c \in Other :
       /\ WF_vars(Send(c))
       /\ WF_vars(Event(c)) /\ WF_vars(ReadFn(c)) /\ WF_vars(Call(c)) /\ WF_vars(Add(c))
-----------------------------------------------------------------------------

\* "Returns once every core has finished executing the routine"
\* (kCpuInterface.md): between two rendezvous every core has run the last
\* routine, exactly once, and none is still about to.
EveryCoreRanOnce ==
  pc[Sender] \in {"plugins", "out", "tick"} =>
    /\ \A c \in online : runs[c] = 1
    /\ \A c \in online \ {Sender} : pc[c] \in {"out", "tick"}

\* A core that takes part runs the routine of the rendezvous under way and
\* never finds fn cleared or not yet set.
RightRoutine ==
  \A c \in Other :
    /\ pc[c] = "invited" => fn = calling[Sender] /\ fn # "NULL"
    /\ pc[c] = "call" => calling[c] = calling[Sender] /\ pc[Sender] \in {"send", "spin"}

\* No core takes a tick before it was handed off, when it has no running task.
NoTickBeforeHandoff ==
  \A c \in Cpu :
    pc[c] \in {"call", "tick"} /\ calling[c] = "kTickTransition" => handoffDone[c]
=============================================================================
