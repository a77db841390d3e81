# Verification of WorkhorseRT

WorkhorseRT is a small real-time kernel in C.  Plugins linked into the image
create *tasks* (threads and LSRs, low-latency service routines bound to an
interrupt vector) and *domains* (address spaces tasks invoke one another's code
in).  Each core schedules its own tasks, driven by a periodic tick.  On Intel
processors a task can also run a virtual processor of a virtual machine.

This directory holds TLA+ modules of the kernel, TLC configurations that check
them on small instances, and TLAPS proofs for instances of any size.  Paths
below are relative to the repository.

## 1. The system

| Component | State | Operations | Modules |
|---|---|---|---|
| Tick machine, `src/workhorse/kTick/kTick.c` | per core: running task, pending task, stack of deferred ticks, stack of preempted LSRs, replenishment chain, sleep chain; per task: state, budget | `kTickTransition`, `kTickReschedule`, `kTickSwitchRunningTask`, `kTickLsrPush`, `kTickLsrPushCurrent` | `KTick`, `KTickHistory`, `KTickProofs`, `KTickHistoryProofs` |
| Scheduling control, `src/workhorse/kSyscall/kSyscall.c`, `src/import/*` | none of their own | yield, throttle, LSR done, failure, sleep; tick; LSR delivery; exception | `KTick` |
| Delta chain, `include/lib/dsa/deltaChain.h` | list of nodes with deltas, epoch counter | insert, tick, pop, pop expired, time until | `DeltaChain`, `TimerQueue`, `DeltaChainProofs` |
| Policies, `src/workhorse/kSched/kSchedPolicy/` | ready queue (RR), deadline chain (EDF), frame table (Cyclic) | push, pop, tick callback, should-reschedule | `SchedRr`, `SchedCyclic`, `SchedEdf`, `KTickSched`, `KTickSchedProofs`, `EdfDeadlines` |
| Domains, `src/workhorse/kDomainUniverse/`, invocation control in `kSyscall.c` | domain table; per task a stack of invocations; per core the domain, page tables, I/O bitmap and system call registers in use | authenticate, push, pop, read; IPC, return, exception | `DomainInvocation`, `CallStack`, `DomainInvocationProofs` |
| Boot, `src/workhorse/kStart.c` | `gPluginsDone` | initialise schedulers, run plugins, hand off | `Rendezvous`, `ApStart`, `Tpr`, `KTick` |
| Rendezvous, `arch/x86_64/ia32e/src/ia32eCpu.c` | `ipiData` shared by the cores; per core `handoffDone`, the pending event vector | invoke on all cores, event handler, timer | `Rendezvous`, `ApStartProofs` |
| Interrupts, `ia32eCpu.c`, `ia32eEntry.S` | per core: the frames of nested handlers, `inIsr`, `external`, `selfIpiFn`; vectors requested and in service | entry, classification, LSR release, event, self IPI, exceptions, NMI | `Isr`, `IsrProofs` |
| Task priority, `ia32eCpu.c` | counters per priority, the priority register | activation, response, handoff callbacks | `Tpr`, driven by `Isr`; `IsrProofs` |
| MCS lock, `include/lib/mcsLock.h` | tail, list of waiters | acquire, release | `McsLock`, `IsrProofs` |
| Processor start-up, `ia32eInit.c`, `ia32eCpu.c`, `ia32eApic.c` | table of processors, stack hand-over, count of cores online, modes of the local APICs | read the MADT, wake, initialise, calibrate, report | `ApStart`, `Topology` |
| Virtual processors, `ia32eEmulator.c`, `ia32eCpuVtx.c` | per vCPU: latches shared with the others, IRR, ISR, pending exception, windows, timer, power state | VM entry and exit, IPIs, INIT and SIPI, event injection, waiting, triple fault | `Vcpu`, `VcpuProofs` |
| Console, page tables, search for ACPI tables, export tables | hardware, tables written once | | not modelled |

**How they interact.**  A timer interrupt, or the IPI of the core that owns the
timer, enters `kTickHandler` and `kTickTransition`.  System calls of the
running task that give up the core go through a *self IPI*: a fake interrupt
frame built with interrupts disabled, on which `kTickSwitchRunningTask` runs.
Device interrupts put every LSR dormant on their vector on the stack of pending
LSRs and call `kTickReschedule`.  The tick machine calls the policy (push, pop,
should-reschedule) and the port (context switch, activation and response
callbacks).  The callbacks keep the task priority register at the highest
priority of a schedulable task; this in turn decides which interrupts the core
takes.  System calls that invoke a domain run with interrupts enabled and may be
preempted anywhere.  Cores share no task and no tick machine; they meet in
`ia32eCpuInvokeAllRendezvous`, at the locks of the console and of exceptions,
and through the latches of virtual processors on different cores.

**What is hard.**  A task is in one of six intrusive structures named only by
its state.  Ticks are deferred when a task leaves the core, and settled in two
different orders depending on the algorithm (burst-cooldown server BCS,
deferrable server DS).  LSRs preempt LSRs and the thread below them while ticks
arrive.  Off-by-one ticks hide in throttling, sleeping and cooling down.
Timers are relative to one another.  Rendezvous rely on one counter, and one
vector is shared with the timer.  An invocation changes four things of the core
one after the other, with interrupts enabled.  NMIs and exceptions come between
any two stores of the interrupt bookkeeping.  Cores start through one global
variable and identify themselves by an id the firmware chose.  A virtual
processor may decide to wait while another one latches its interrupt.
`PROJECT.json` lists each of these hazards at its line, with the properties that
cover it.

**What makes each part correct.**  Tick machine: no task is lost or held twice;
no budget is overdrawn, refilled early or left at zero for ever; LSRs come
first, in order of priority; the core never idles with work to do.  Delta
chain: a queue of timers with absolute due times.  Policies: the highest
priority, the earliest deadline or the next frame runs, each with a full
timeslice, and nobody who is ready is forgotten.  Domains: each task sees a
bounded stack of calls, and runs in the address space of its own domain.
Rendezvous: every core runs the right routine exactly once, and the sender gets
away.  Interrupts: each handler leaves the frames and flags as it found them,
and the LSRs of a vector become pending together.  Task priority: the highest
of the schedulable tasks.  Lock: one holder, and every core gets its turn.
Start-up: every enabled core comes up once, as itself, on its own stack.
Virtual processors: an interrupt sent to one that takes interrupts is kept
until it is serviced, and a triple fault stops all of them.

## 2. The modules

**`KTick`** models one core.  A C function is an operator from machine records
to machine records (or to the set of those it may leave behind, where the policy
decides), and an action is the composition the handler calls:
`kTickReplenishmentPeriod`, `kTickHandleDeferredTicks`, `kTickRunningTask`,
`kTickSleepPeriod` and `kTickReschedulingPoint` are `ReplenishmentPeriod`,
`HandleDeferredTicks`, `ChargeRunningTask`, `SleepPeriod` and
`ReschedulingPoint`; `kTickTransition` is `Tick`.  Each action is one step,
because each handler runs with interrupts disabled.  Four modelling decisions:

* *Policy.*  A pop returns any ready thread, or idle if there is none.  A
  thread may be preempted only if another one is ready and after a tick; idle is
  replaced exactly when a thread is ready.  `KTickSched` shows that the three
  policies behave like this, so what holds here holds under each of them.
* *Timers* are the ticks a node has left; `DeltaChain` shows that the chains
  compute that.
* *Sleep.*  The type check and the write of `sleepTicks` precede the self IPI
  with interrupts enabled.  Both concern the calling thread alone and nobody
  reads `sleepTicks` before it sleeps, so they belong to the step.
* *Algorithm.*  BCS or DS is a build option; the variable `algorithm` is chosen
  in `Init` and never changes, so one run covers both builds.

The constant `PushCurrents` says whether the port pushes the running task aside
before the new LSRs (`{TRUE}` for ia32e); the proofs cover any port.
`tick.lag` is set and consumed within `kTickSleepPeriod`, so it is no variable.

**`KTickHistory`** adds history variables (who held the core since the last
tick, how often, how long somebody slept or cooled down) and states what the
machine promises over time.  They read the machine and restrict nothing, so one
run checks the invariants of `KTick` and these together.

**`SchedRr`**, **`SchedCyclic`**, **`SchedEdf`** are the three policies as operators
on the record of one core's scheduler, one for each function of `kSchedOps_t`.
The EDF chain is kept as a sorted sequence with the time left of each thread,
which `DeltaChain` shows to be what the deltas mean.  **`KTickSched`** composes
them with the tick machine: a machine is `KTick`'s record with the policy's
state in one more field, the phases of `KTick` move the tasks, and the operators
of `KTickSched` make the calls to the policy that `kTick.c` makes on the same
path, in the same order.  What the loops of `kTick.c` and `kSchedFixupChainEdf` do
to the policy (`PushAll`, `SettleAll`, `FixupChain`) are recursive functions over
the sequence they walk.  The policy is a build option, chosen in `Init`.  What
was a choice in `KTick` is computed here, and `ImplementsKTick` (every behaviour
is one of `KTick`'s `Spec`) says that each policy keeps the contract `KTick`
relies on.  Threads that leave a delta chain on the same tick are pushed in any
order.

**`EdfDeadlines`** observes `KTickSched` with the time to each deadline, which
every tick shortens wherever the thread is, and compares it with the number the
policy keeps and corrects beforehand.

**`TimerQueue`** is the abstract specification of a delta chain: timers with
absolute ticks left, first come first served among equals.  **`DeltaChain`** is
the code: deltas and wrapping epochs.  It implements `TimerQueue` under the
mapping that sums the deltas.

**`CallStack`** is the abstract specification of invocations, taken from
`doc/api/syscalls.md`: per task a domain, a place and a bounded stack of calls;
each operation is one step and is refused only for a reason.
**`DomainInvocation`** is the code.  A system call is a sequence of steps: point
the core at the registers, the handler (checks, push or pop), the page tables,
the I/O bitmap, the return address, forget the registers, the strict check.
Between any two of them the core may switch to another task and back; exceptions
and the failure of a task run with interrupts disabled and are one step.
`cr3` and `iopb` are what the core has loaded; `syscallRegs` is the task whose
registers its pointer points to; the domain of an IPC is its parameter modulo
`IdSpan`, which stands for 2^32.  In the refinement a call takes effect with its
handler, and the mapped program counter of a task is where it is going from then
on (`Where`).  Permissions, entry points and the table of
domains are constants, because plugins build them once, before the handoff.

**`McsLock`** has one step for each access to shared memory of acquire and
release, with the queue in order of the exchanges as a history variable.
**`Isr`** extends `Tpr` and `McsLock`: one core whose handlers nest, each
assignment to the per-CPU fields a step, as an NMI may come between any two.  A
vector is delivered when its class exceeds those in service and the task
priority; the handler releases all LSRs of the vector, or takes the event, or
runs the self IPI.  A fault of the kernel takes the lock of the exception
report, for which other cores that fault compete, and halts.  System calls that
change a task's state are one step, because they disable interrupts.

**`Tpr`** models the three callbacks that maintain the task priority register,
with the phase before the handoff in which plugins activate tasks but no
register is loaded.  `KTick` uses its result in `Deliverable`.

**`Rendezvous`** models all cores that are online: publishing the routine, one
IPI after another, reading the routine, running it, the increment of the counter
and the spin are steps of their own, interleaved with the timer.  A pending
vector is one bit per core.  `desync`, the build option that gives every core
its own timer, is chosen in `Init`.

**`ApStart`** extends `Rendezvous` with everything before: the boot processor
reads the firmware's table, checks it against the limits of the build, switches
its APIC mode, starts the others one at a time through the global stack variable
and waits for the counter; a started core finds its slot, initialises its APIC,
VT-x and topology, calibrates its timer against the HPET, and reports.  The
variable `machine` is the hardware, chosen in `Init`: the MADT, the CPUID
records, the features of each core, which may differ between cores.  Every
`panic` of the code is an end of the boot.  **`Topology`** holds the decoding of
the CPUID leaves, as operators: from the id and the spans of the levels to the
three fields of `cpu->topology`, thread, core and package.

**`Vcpu`** models the virtual processors of one machine.  A vCPU alternates
between its guest, which may do what the record `task[v].does` allows, and the
emulator, whose steps are the accesses to what other vCPUs share: the latch
under its lock, `receiverEsr`, `tripleFault`.  Injection of exceptions,
interrupts and NMIs with the two windows, priorities of the x2APIC, the timer,
INIT and SIPI and waiting for them, and the return of a plugin's hook with an
event are actions of it.  The critical sections of the MCS lock are one step
here, which `McsLock` justifies.

**`KTickProofs`**, **`KTickHistoryProofs`**, **`KTickSchedProofs`**,
**`DeltaChainProofs`**, **`DomainInvocationProofs`**, **`IsrProofs`** (with `Tpr` and
`McsLock`), **`ApStartProofs`** and **`VcpuProofs`** hold the proofs.
The modules whose names begin with `MC` give the constants their values for TLC.
Operators marked *(bug: ...)* are mutated forms of the definition that follows
them; no specification uses them.  They document, for each property, a plausible
mistake that it catches.

## 3. The runs

| Run | Instance | What it shows |
|---|---|---|
| `ktick` | 2 threads, 3 LSRs on 2 vectors, budgets 1 and 2, three combinations of the periods 0, 1, 3, sleeps 1 and 3, both algorithms | no task lost or doubled (`TypeOK`, `Placement`), assertions of kTick.c (`DynamicAsserts`), no idling with work (`WorkConserving`), LSR stack sorted (`LsrNesting`), LSRs yield only to higher ones (`LsrPreemption`); exactly those that ran are charged (`ChargedIffRan`), the window of `doc/sched/algorithm/bcs.md` (`BcsWindow`), at most a budget per replenishment (`DsBudget`), sleeps last as asked (`SleepExact`), cooldowns last one period (`BcsCooldown`) |
| `ktick_sched` | 3 threads (budgets 1, 1, 2, periods 0, 2, 2, sleep 1), one LSR, 2 priorities, slices 1 and 2, 4 frames, deadlines 2, 3, 4, all policies, both algorithms | the policies implement the contract of `KTick` (`ImplementsKTick`), hold exactly the ready threads (`ReadyHeldByPolicy`), never charge an empty slice or deadline (`TicksLeftToCharge`), and run the highest priority (`HighestPriorityRuns`) or the earliest deadline (`EarliestDeadlineRuns`) |
| `sched_time` | 2 threads; RR and cyclic with one LSR and sleep, EDF under BCS without them | ticks alone bring back every throttled or sleeping thread (`Replenished`); under RR and cyclic no ready thread starves (`NoStarvation`); the deadlines EDF keeps are what time made of them (`DeadlinesAreTime`) |
| `delta_chain` | 3 nodes, deltas 0-3, 5 epochs | refinement of `TimerQueue`; epochs agree with deltas across the wrap-around (`EpochsAgree`); a popped node keeps its time (`PoppedWithTimeLeft`) |
| `rendezvous` | 4 cores on 12 machines: all CPUID leaves, ids up to 260, disabled and missing cores, too many cores or I/O APICs, no entry of the boot processor, locked and mixed APIC modes, features of VT-x on some cores, leaves that differ between cores; both timer options | every enabled core starts once, as itself (`CoresStarted`); cores that report alike are at different places (`PlacesDiffer`); right routine (`RightRoutine`), once per core (`EveryCoreRanOnce`), no tick before the handoff (`NoTickBeforeHandoff`), no endless spin (`SpinsEnd`) |
| `isr` | one core with a thread and 3 LSRs, two on one vector, one NMI, two other cores that fault | nested handlers do not disturb one another (`FramesMatch`), LSRs of a vector become pending together (`LsrsReleasedTogether`), the register holds the highest priority of an activated task (`TprIsHighest`), one core at a time reports a fault (`MutualExclusion`), and each of them halts (`EveryFaultHalts`) |
| `invocation` | 2 tasks, a client, a server and a domain without entry points, stacks of 2, canonical and other addresses, a parameter beyond 32 bits | each task sees a bounded stack of its own calls (`ImplementsCallStack`) and runs in its own domain (`RunsInOwnDomain`), wherever it is preempted |
| `vcpu` | 2 vCPUs, 2 vectors of one class, 7 pairs of guests: starting a thread or an LSR, interrupts and priorities, timer and errors, IPIs routed to the host, events of a plugin, nested faults and NMIs | one interrupt per class in service (`OneServicePerClass`), the interrupt window open exactly while the IRR holds an interrupt for the guest (`WindowMatchesIrr`), INIT and SIPI latches that tell the truth (`LatchConsistent`), no interrupt lost (`InterruptsAreKept`), every latch read and every machine stopped after a triple fault (`EveryVcpuResponds`) |
| `throttle_next_tick`, `edf_ds_deadlines`, `strict_syscall`, `timer_window` | as `sched_time` without a policy, 3 threads under EDF and DS without LSR and sleep, `invocation`, one vCPU whose guest enables its APIC and its timer | the disagreements of section 5 |

**Why the bounds are enough.**  Two threads are the least with which one is
preempted, deferred or throttled while another is served; the deferred stack
then holds both, and idle can be pending above them.  Three LSRs on two vectors
give one delivery of two LSRs and an LSR preempted by one of another vector.
Budgets 1 and 2 are the budget that ends with the next tick and one that does
not.  Periods 0, 1 and 3 are no period, one that ends with the tick that starts
it, and one that leaves room for a shorter sleep; sleeps are shorter than,
equal to (in the sum with the tick under way) and longer than a period.  The
three combinations in `ktick` give each period to the thread below the LSRs, and
two of them to the one between.  No counter is cut off: budgets, timers and epochs are
finite by themselves, so every run explores all the reachable states.  With the
policies, two threads share a priority and one outranks them, one owns two of
the frames, and deadlines are shorter and longer than the cooldown.
`sched_time` (its specification is in `MCSchedTime`) lets no LSR come and no
thread sleep under EDF, because there the policy's deadlines are known to drift
(section 5).  Its two threads have the deadlines 4 and 5: a throttled thread may
come back with or without time left, before or after the deadline of the other.

A stack of two invocations is filled by an IPC and an exception, by two
exceptions, and refuses a third; two tasks of one domain are the least that can
disturb each other's registers and address space, and they are interchangeable,
so that run uses symmetry (it checks safety only).  Of the machines of
`rendezvous` there is one for each way through `ia32eThisTopology` and for each
panic before the first rendezvous; with three others besides
the sender one has counted, another still runs, and a third is not yet asked.
In `isr`, `MaxNmi = 1`: the processor blocks an NMI while another one is
handled, so one NMI at any point is all that nests, and the second of two in
sequence finds what the first one found.  The three kinds of instance (all LSRs;
the NMI and one LSR; the faults of other cores) keep apart what does not
interact.  Two vectors of one class are the least with which a pending interrupt
waits for one in service; two vCPUs are a sender and a receiver, in both
directions.

**Fairness.**  `KTick`'s `FairSpec` has weak fairness of `Tick` only: the timer
is periodic, its vector outranks every task and no code keeps interrupts
disabled for ever.  No task is assumed ever to yield or finish.
`SFairness` of `KTickSched` adds that the core is handed off.  `NoStarvation` has as a premise
that LSRs leave the core from time to time, which is up to their authors.  In
`Rendezvous` code on a core runs on and a pending event is taken, because
interrupts are masked for bounded times; nothing is assumed of the timer.
`ApStart` adds that the straight-line code of the start runs on.  In `Isr`,
`Progress` says that a core inside a handler goes on, and so does a core at the
exception lock; no interrupt is assumed to come.  In `Vcpu` a vCPU that is a
thread gets its time, as `sched_time` shows for the policies, and its guest is
left for the host's tick again and again; nothing is assumed of vCPUs that are
LSRs, which run when their vector comes, nor of what a guest does.

**Deadlock** is checked in the runs of `KTick`, of the policies and of the delta
chain.  The others say `CHECK_DEADLOCK FALSE`, because the system may stop: a
panic ends the boot, a core halts after a fault of its kernel, all tasks may
have failed, and a virtual machine ends.

## 4. The proofs

**The tick machine.**  `KTickProofs` proves, for any set of threads, any finite
set of LSRs, any vectors and priorities, budgets, periods, sleeps and either
algorithm:

* `TypeCorrect`: `Spec => []TypeOK`
* `PlacementCorrect`: `Spec => []Placement`
* `DynamicAssertsHold`: `Spec => []DynamicAsserts`
* `WorkConservingHolds`: `Spec => []WorkConserving`

The only assumption is `Configuration` in `KTick`: the checks that
`kPluginInitTaskThread`, `kSysSchedCtrl` and the port make on parameters.
None of the four is inductive alone.  That a resumed task's
deferred tick is on top of the stack needs the order of that stack; that a
charge finds budget needs to know which timers run; both need placement.
`IInv` conjoins, for the machine as a record, the states each kind of task may
have (`StatesOK`), the running and pending slots (`SlotsOK`), the deferred stack
(`DeferredOK`), the LSR stacks (`LsrsOK`), the timers (`TimersOK`), and the
budgets (`BudgetsOK`, `RunningPays`).  `Sound` is what holds between handlers,
`Ticking` what holds inside a tick, where the running thread may have run out of
budget; `Working` is the part about idling, which does not hold while the core is
empty.  There is one lemma for each way a task leaves the core (deferred, ready,
throttled, preempted, dormant, pushed back) and for each way one takes it, one
for each phase of a tick, one for `Reschedule` and one for the rescheduling
point; `NextSound` puts the actions together.  The lemmas at the beginning of the
module say what a push, a pop and a drain do to the set and to the distinctness
of the elements of a stack.

**LSRs.**  The last part of `KTickProofs` proves `Nesting`: `Spec =>
[]LsrNesting`, and `Preemption`: `Spec => LsrPreemption`, from the additional
hypothesis that the port pushes the running task aside before the new LSRs
(`PushCurrents = {TRUE}`), as ia32e does.  The strengthening of `IInv` is
`Nested`: the stack rises in priority, equal priorities only within a vector, and
the running LSR is above all of it.  An interrupt keeps it because a vector is
delivered only above the priority of every activated task (`Deliverable`, which
`Tpr` and `Isr` justify); an LSR that ends keeps it because its successor is the
top of the stack.

**Time.**  `KTickHistoryProofs` proves of `HSpec`, from `Configuration` alone and
for every budget, period and sleep, what the tick machine promises over time:

* `NoFreeTicks`: `HSpec => []ChargedIffRan`
* `WindowIsBounded`: `HSpec => []BcsWindow`
* `ServerIsBounded`: `HSpec => []DsBudget`
* `SleepIsExact`: `HSpec => SleepExact`
* `CooldownIsAPeriod`: `HSpec => BcsCooldown`

There are two halves.  The first says of each handler what it may do to a
thread: outside the tick budgets and timers stand still and a thread moves only
as `Shift` says, unless it is the one that leaves the core (`OtherIs`); one lemma
for each phase of the tick, composed in the order of either algorithm, gives
what a whole tick does (`TickIsBcs`, `TickIsDs`).  The second is the invariant
`HInv` of machine and history.  `SleptIs`: ticks slept and ticks still to sleep
make up the sleep asked for.  `CoolIs`: a thread without budget is throttled, with
cooldown and time to its replenishment adding up to the period, or asleep since
just before.  `UsedIs`: ticks used and ticks left fit the budget.  `SpentSince`:
there is a `k`, the ticks since the last replenishment, such that the ticks held
in the last `k` and the budget left fit the budget, that the thread did not hold
the core for a period before those, and not at all since its budget ran out.
`BcsWindow` follows by counting (`WindowBound`): if a window of `P` ticks reaches
past the replenishment, everything before it is free; of a window of `Q + P`
ticks `k` lie after the replenishment, `P` before it are free, and only `Q - k`
are left.

**Policies.**  `KTickSchedProofs` proves of `SSpec`, for any finite set of threads,
any priorities, slices, deadlines and frame tables, and everything `KTickProofs`
leaves open:

* `PolicyImplements`: `SSpec => ImplementsKTick`
* `ReadyHeld`: `SSpec => []ReadyHeldByPolicy`
* `TicksLeft`: `SSpec => []TicksLeftToCharge`
* `HighestPriority`: `SSpec => []HighestPriorityRuns`
* `EarliestDeadline`: `SSpec => []EarliestDeadlineRuns`

The first carries every theorem about `KTick` over to each policy.  The
assumptions are `Configuration` and `PolicyConfiguration`, the checks of
`kPluginInitTaskThread`.  The proof has three layers.  At the bottom each policy by
itself: `Held(s, R)` says that its structures hold exactly the threads `R` (for
RR, the queues and the bitmap; for the cyclic policy, the count and where in the
frame table it is; for EDF, the chain in order of time left), and there is a
lemma for each of its functions: a push adds a thread, a pop takes the `First`
one and leaves idle only if `R` is empty, a callback changes only the time of
the thread it is for, and a policy asks to preempt only if somebody is ready.
`kSchedFixupChainEdf` is the hard one: the loop ends with the chain sorted and no
expired deadline in it, because a renewed thread goes behind all the expired ones
(`EdfFixup`).

The middle layer puts the three together (`PushHeld`, `PopHeld`, `TickHeld`,
`AskHeld`, and `Kept`: the time of all the other threads stands) and follows them
through the loops of the tick.  Inside a tick less is true than outside: a running
thread whose slice is used up has nothing left until the policy is asked.  So the
invariant is `Uncharged` up to the charge of the running thread and `Ticked` after
it, and the rescheduling point leads from the latter back to `AtRest`.  At rest the
policy holds exactly the ready threads, everybody who may be charged has ticks
left, and the thread that runs, or that LSRs preempted since the last tick
(`DEFTICK_PENDING`), comes first among the ready ones (`First`).  A tick changes the time of a preempted
thread, so its place after the LSR is regained only because
`kTickReschedule` asks the policy again when it resumes it.

`SInv` conjoins that with the invariant `IInv` of the tick machine.  Each step of
the composition is shown to be the step of `KTick` with the same name, so what
`KTickProofs` says of the machine is cited and not proved again.

**Deadlines.**  The end of `KTickSchedProofs` is about EDF against time.  Assuming
`Sleeps = {}` and `Lsr = {}` (section 5 says what goes wrong with either) it proves

* `DeadlineTime`: `DSpec /\ BCS => []DeadlinesAreTime`
* `SoonestDeadline`: `DSpec /\ BCS => []SoonestDeadlineRuns`

for any threads, budgets, periods and deadlines: what `doc/sched/policy/edf.md`
promises, and the run `edf_ds_deadlines` refutes for DS, holds with BCS.  Between
two handlers a thread that is ready, runs or has left the core since the last tick
has the time `due` to its deadline in the policy, and a throttled one has what
will be left of it after its cooldown, `due` less `replenishIn`, or 0 (`OnTime`).
Within a tick the threads live through it in the order of the phases, so the
invariant has a form for each place: `OnTick` when the ready and the throttled
have, `OnCharge` when all have and one without budget has its cooldown taken off,
`Elapsed` when the rescheduling point has renewed what expired in the chain.  The
step that could fail is the first: the chain of deadlines and the chain of
replenishments are ticked one after the other, and a thread that is throttled for
one more tick must lose exactly that one (`MonusIs`).  The lemmas of the layers
above say for this which time a charge leaves (`PaidFor`), which a push
(`Fresh`), and that nothing else changes.

**Timers.**  `DeltaChainProofs` proves `EpochsKeepTime`, `PopsKeepTime` and
`ChainIsTimerQueue` (`Spec => ImplementsTimerQueue`) for any nodes, any longest
delta and any width of the epochs that exceeds it.  The invariant is that
every node is due within `MaxDelta` and, unless it has expired, in the epoch it
expects.  `Left` is a sum along the list, so facts about it are proved by the
least counterexample: a set of indices that is not empty has a least one
(`NoFirstFailure`, from the well-foundedness of `<`).  In the refinement an
insertion into the list of deltas maps to the insertion at the place of the due
time, and settling a tick to every timer getting one tick closer.

**Task priority.**  The second part of `IsrProofs` proves `TypeOK`,
`CountsAreExact` and `TprIsHighest` of `Tpr` for any finite set of tasks and any
number of priorities.  Exact counters are the strengthening that `TprIsHighest`
needs, since a response reloads the register from them; no run checks them by
themselves.

**Interrupts.**  The rest of `IsrProofs` is about a core and its nested handlers,
for any LSRs and lines, any number of other cores, NMIs at any moment, and any
start (some LSRs may have failed, some cores halted: `CoreSpec`, of which `IsrSpec`
is a case by `CoreOfIsrSpec`).  It proves `FramesRestored`: `CoreSpec =>
[]FramesMatch`, `LsrsReleased`: `CoreSpec => []LsrsReleasedTogether`, that the
core implements `Tpr`'s `Spec` (`CoreDrivesTpr`) and `LockSpec` (`CoreUsesLock`),
and hence `CountsAreExact`, `TprIsHighest` (`CorePriority`) and `MutualExclusion`
(`OneReport`) where the core itself runs the callbacks and the lock.  The
invariant is an induction on the nesting: it says of every prefix of the stack of
frames what its handlers have left in the per-CPU fields (`Inside`, `ExternalAt`,
`FrameAt`), that the fields hold what all frames together left (`Current`), and
that each handler saved what those below it had left (`Saved`); then a handler
that restores what it saved leaves what the shorter prefix says.  Only NMIs and
faults of the kernel nest (`Kinds`), so one line at most is in service
(`InService`).  The LSRs registered on a line are not activated (`Waiting`), and
after a line was accepted none of its LSRs is, because the priority register
would have held it back (`AcceptedFor`, from `TprIsHighest`).

**The lock.**  `IsrProofs` begins with the lock and proves `LockExcludes`: `LockSpec =>
[]MutualExclusion` for any number of cores.  The invariant ties the list to the
order of the exchanges: the tail is the last of the queue and every node that
waits is in it once (`Queued`), only the first may hold or leave (`FirstOnly`),
and each node is linked to the one that came after it, or that one is still about
to do so (`Linked`).

**Invocations.**  `DomainInvocationProofs` proves `OwnDomain`: `Spec =>
[]RunsInOwnDomain`, and `Refinement`: `Spec => ImplementsCallStack`, for any
tasks, domains, permissions, entry points and bound.  The invariant says, besides
types, whose registers the core and each saved context point to while a system
call is under way (`OwnRegs`), which of the page tables and the I/O bitmap already
belong to the current domain in each step of an entry (`InDomain`), and that a
task about to fail is one whose exception nothing could take (`FailsForCause`).
The refinement then has one lemma for each kind of step: a handler maps to the
abstract operation, its refusal to a refusal, and the steps around it stutter.

**Start and rendezvous.**  `ApStartProofs` proves of `StartSpec`, for any finite
number of cores and any machines, whichever of their cores are enabled, present or
stop in a panic:

* `StartsAllCores`: `StartSpec => []CoresStarted`
* `PlacesTellCoresApart`: `StartSpec => []PlacesDiffer`
* `OnlineRanOnce`: `StartSpec => []EveryCoreRanOnce`
* `OnlineReadsRight`: `StartSpec => []RightRoutine`
* `OnlineTicksAfterHandoff`: `StartSpec => []NoTickBeforeHandoff`

and the last three (`RanOnce`, `ReadsRight`, `TicksAfterHandoff`) also of the
`Spec` of `Rendezvous`, in which all cores are online from the beginning.  The
assumptions are `Cores` and, in `ApStart`, `MachinesAssumption`: the firmware
lists no processor twice, no two cores have one id, and a core with no more than
the legacy CPUID leaves has an id of eight bits.  The code takes these three on
trust: `ia32eMadtParser` keeps the last entry with the boot processor's id where
`ia32eCpuApStart` takes the first, and neither looks for a second.  (The rest of
the assumption gives the fields of the CPUID records their types.)

The invariant of the start (`BootInv`) says that every other core is through, off,
or the one the boot processor waits for (`OthersAt`), that the slot it is at is
the one whose stack it passes (`SlotAt`), and that the two counters count the
cores that reported and those it started (`Counted`).  It goes on from the wait
because the counters agree: one core more has reported than it was through with,
and only the one it started could.  A core finds its own structure because its
id is in one slot only, which is the slot of the stack it was given.

`PlacesDiffer` is about cores whose CPUID differs in nothing but the id: then one
leaf and one pair of spans split both ids, and the three fields give the id back
(`SplitDiffers`: ids of one package and one core are less than a core apart, and
ids of one thread are a multiple of it apart; no power of two is needed).  Without
that premise it is false: a core with leaf 0x0b, no level for cores and the id 5
is at thread 0, core 5, package 0, and so is one with leaf 0x1f, levels of 1 and 4
bits and the id 10; a machine of the run has two such cores.  Nothing else in the
kernel reads `cpu->topology` today.

The invariant of the rendezvous (`Inv`), which begins where the start ends
(`WaitingInv`), says that a core online has not been asked, is asked or has run the routine
(`Situation`), that the counter is the number of cores that ran it and added one
(`CounterExact`), where the sender is in its rendezvous (`SenderAt`), which cores
may tick before, during and after that of the handoff (`Handoff`), and that the
cores that never started do nothing (`Absent`).

**Virtual processors.**  `VcpuProofs` proves, for any number of vCPUs, whatever
their guests do, any vectors, local vector tables and events of the plugin:
`LatchesConsistent`, `ServiceNests`, `WindowFollowsIrr` (`Spec => []` of
`LatchConsistent`, `OneServicePerClass`, `WindowMatchesIrr`) and
`NoInterruptIsLost` (`Spec => InterruptsAreKept`).  Each is inductive with the
types, but for `WindowMatchesIrr`, which needs that a vCPU that boots has no
interrupt yet (`Booting`).  Each has one lemma for each group of steps: a step of
one vCPU touches another only through its latch, and that only as `Received`
says.  `WindowMatchesIrr` is what the emulator computes, from the IRR; that this is
less than what is pending is the finding `timer_window`.  `InterruptsAreKept` ends
where an interrupt is put in service: when its delivery then exits and the plugin
answers with an exception or skips the instruction, the guest does not see it,
though its APIC has it in service.

*Model-checked only.*  Liveness (`Replenished`, `NoStarvation`, `SpinsEnd`,
`EveryFaultHalts`, `EveryVcpuResponds`), which is out of the prover's reach, as is
`ENABLED`.

## 5. Findings

`doc/api/syscalls.md` says of `WORKHORSE_SCHED_CTRL_THROTTLE` that "the calling
task is immediately throttled on the next tick".  `kTickHandleDeferredTicks`
throttles only a thread with a period; one with period 0 has its budget refilled
on that tick and is ready at once.  The run `throttle_next_tick` shows it under
BCS, where the exception the document makes (a DS replenishment on the same
tick) does not apply.

`doc/sched/policy/edf.md` says that the EDF scheduler "always selects the task
whose deadline will expire the soonest".  When a thread is throttled,
`kSchedTaskTickCallbackEdf` takes one tick from its deadline for the tick under
way and then the time until its replenishment.  With DS that time, read before
the replenishment chain is ticked, includes the tick under way once more, so the
thread comes back with one tick too few; when nothing is left it is given a
whole new deadline and one with a later deadline runs first.  The run
`edf_ds_deadlines` shows it in four steps.  With BCS the correction is exact
(`sched_time`, and `DeadlineTime` for every instance), with two exceptions
outside that run: a thread that goes to
sleep with its last tick of budget has both the sleep and the period taken from
its deadline, although it sleeps and cools down at the same time; and the
deadline of a thread preempted by an LSR stands still after the first tick.

`ia32eSyscallHandlerStrict` (`ia32eCpu.c:1752`) delivers an exception of type
`WORKHORSE_INVOCATION_TYPE_OTHER`, a constant of the user's enumeration, to a
function that takes the kernel's.  The numbers differ by one, and the domain's
handler for arithmetic exceptions is entered instead.  The run `strict_syscall`
shows it.

`ia32eEmulatorEventManager` says that it will "trigger an exit if we have any
events still pending" (`ia32eEmulator.c:3139`), but it looks for them in the IRR
only.  The interrupt of the guest's timer goes from the queue of synthetic events
to the vCPU's own latch (`ia32eEmulator.c:2893`) after
`ia32eEmulatorX2apicCheckLatchedIrr` has emptied it (`ia32eEmulator.c:3084`).  So
the guest is entered with a deliverable interrupt that is neither injected nor has
a window, and gets it after some other exit, at the latest that of the host's
tick.  The run `timer_window` shows it on one vCPU, so that no other one can have
sent it anything.  What other vCPUs latch after that point waits likewise.

Met while modelling, without a run of their own:

* An exit during the delivery of an event can leave an exception, or an instruction
  to skip, beside the lost event: the assertion at `ia32eEmulator.c:2857` fails
  (and so do those at 2901, 2925, 2949 and 2973).  The last event wins: an
  exception replaces the lost event, and after a skip an interrupt may.
* `ia32eEmulatorX2apicReset` stores through a task pointer that it never sets
  (`ia32eEmulator.c:2721-2723`).  In `Vcpu` either the core halts in its exception
  handler or the x2APIC keeps its state.
* `ia32eEmulatorRegsReset` clears the task's saved MSR area (`ia32eEmulator.c:2771`),
  which the core that runs the task does not use until the next switch.
* The preemption timer can be armed with the APIC disabled, upon which the
  assertion of its handler (`ia32eEmulator.c:2379`) fails; assertions only print,
  in debug builds.  A periodic count below the divisor gives a timer value of 0
  (`ia32eEmulator.c:2400`).
* The calibration of the APIC timer multiplies in 32 bits (`ia32eApic.c:440`),
  and the 24-bit ACPI timer that stands in for the HPET is subtracted in 64.
* `ia32eIsrHandler` tests `vector`, which is still 0, before it reads it from the
  frame (`ia32eCpu.c:1695`).

## 6. What is not modelled

General, debug and floating point registers of tasks, page tables, TLBs and
PCIDs, registers of the I/O APIC, the search for ACPI tables, the console and the
mode switches of the assembly code: hardware access, represented by its effect (a
handler is one step; a vector is delivered above the priority; a started core
loads its stack).  What a VM exit does to the registers, memory and MSRs of a
guest, and the VMCS fields that never change.  Wording of messages and argument
parsing.  The duration of a tick.  The rendezvous with which
`ia32eFinalizeHighMap` flushes the TLBs once before the kernel starts: it is the
modelled function with another routine.  The try-lock of the MCS lock has no caller.
The Coq theory of the delta chain in `theories/` is the authors' own.

A data race on `ipiData.fn` (a plain variable, published before the IPIs) is
modelled as an ordered store: the IPI is sent by an opaque call after it, and the
architecture keeps stores in order.

## 7. Plan

`VtxContext`: which VMCS and which per-core MSR area are loaded when tasks with
vCPUs are switched, entered, fail or move to another domain.
