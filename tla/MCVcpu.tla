------------------------------- MODULE MCVcpu -------------------------------
(***************************************************************************)
(* A virtual machine of two vCPUs. What their guests do is chosen once, so  *)
(* that each kind of behaviour is explored with the others that bear on     *)
(* it: interrupts and priorities, timer and errors, start and shutdown.     *)
(***************************************************************************)
EXTENDS Vcpu

MCVcpu == {0, 1}
MCVector == {33, 34}
MCTprs == {0, 2}
MCLvtTimers == {[vector |-> 33, masked |-> FALSE, periodic |-> TRUE],
                [vector |-> 0, masked |-> FALSE, periodic |-> FALSE]}
MCLvtErrors == {[vector |-> 34, masked |-> FALSE], [vector |-> 0, masked |-> TRUE]}

Thread(does, sends) == [lsr |-> FALSE, does |-> does, sends |-> sends]

INIT == <<"INIT", 0>>
SIPI == <<"SIPI", 8>>
NMI == <<"NMI", 2>>

Starter == Thread({"icr", "shutdown"}, {INIT, SIPI, <<"NORMAL", 33>>})
Idle == Thread({}, {})
Interrupted == Thread({"sivr", "sti", "tpr", "eoi", "self ipi", "irr", "icr"}, {})
Timed == Thread({"sivr", "timer", "error", "esr", "icr"}, {<<"NORMAL", 0>>})
Routed == Thread({"sivr", "routed"}, {})
Hosted == Thread({"sivr", "sti", "plugin", "lost"}, {})
Nested == Thread({"advance", "fault", "sti", "cli", "mov ss", "iret", "icr"}, {NMI})
Started == Thread({"sivr", "reset fails"}, {})
StartedLsr == [lsr |-> TRUE, does |-> {"sti", "advance", "lost"}, sends |-> {}]

MCTask == {Starter, Idle, Interrupted, Timed, Routed, Hosted, Nested, Started, StartedLsr}

\* the guests of the two vCPUs
MCInit == Init /\ <<task[0], task[1]>> \in
  {<<Starter, Started>>, <<Starter, StartedLsr>>, <<Interrupted, Idle>>, <<Timed, Idle>>,
   <<Routed, Idle>>, <<Hosted, Idle>>, <<Nested, Idle>>}

\* a vCPU by itself, whose guest uses the timer
OneVcpu == {0}
TimerTask == {Thread({"sivr", "timer"}, {})}

MCSpec == MCInit /\ [][Next]_vars /\ Fairness
=============================================================================
