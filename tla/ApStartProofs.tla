--------------------------- MODULE ApStartProofs ---------------------------
(***************************************************************************)
(* The start and the rendezvous of any number of cores, on any machine.    *)
(*                                                                         *)
(* First the rendezvous.  The counter the sender waits for is tied to the  *)
(* cores: it is the number of those that have run the routine and said so. *)
(* A core is in one of four situations (Situation), and whether it has     *)
(* been handed off follows from how far the sender got.                    *)
(*                                                                         *)
(* Then the start, which ends in the state the rendezvous begin from: at   *)
(* each place of the boot processor the other cores are through, not yet   *)
(* started, or the one it waits for (OthersAt), and the two counters count *)
(* them (Counted).                                                         *)
(***************************************************************************)
EXTENDS ApStart, FiniteSetTheorems, TLAPS

Calls == Routine \cup {"NULL"}

\* the other cores that take part
Peers == online \ {Sender}

TypeOK ==
  /\ pc \in [Cpu -> {"boot", "publish", "send", "spin", "plugins", "out", "tick",
                     "invited", "call", "add", "off"}]
  /\ online \subseteq Cpu /\ Sender \in online
  /\ calling \in [Cpu -> Calls] /\ fn \in Calls
  /\ rendezvous \in Nat
  /\ sent \subseteq Peers
  /\ irr \in [Cpu -> BOOLEAN] /\ armed \in [Cpu -> BOOLEAN]
  /\ handoffDone \in [Cpu -> BOOLEAN]
  /\ runs \in [Cpu -> {0, 1}]
  /\ desync \in BOOLEAN

\* Cores that never started do nothing.
Absent == \A c \in Cpu \ online : pc[c] = "off" /\ ~armed[c]

Ticking(c) == desync /\ handoffDone[c]

NotAsked(c) == c \notin sent /\ runs[c] = 0 /\ pc[c] = "out" /\ ~irr[c]

Asked(c) ==
  /\ c \in sent /\ runs[c] = 0 /\ ~Ticking(c)
  /\ \/ pc[c] = "out" /\ irr[c]
     \/ pc[c] = "invited" /\ ~irr[c]
     \/ pc[c] = "call" /\ ~irr[c] /\ calling[c] = calling[Sender]

HasRun(c) ==
  /\ c \in sent /\ runs[c] = 1 /\ pc[c] \in {"add", "out", "tick"}
  /\ irr[c] \/ pc[c] = "tick" => Ticking(c)

\* How far another core is with the rendezvous under way, or the last one.
Situation == \A c \in Peers : NotAsked(c) \/ Asked(c) \/ HasRun(c)

\* Cores that have run the routine and told the sender.
Told == {c \in Peers : runs[c] = 1 /\ pc[c] # "add"}

CounterExact == rendezvous = Cardinality(Told)

\* What the sender has done so far.
SenderAt ==
  /\ pc[Sender] \in {"boot", "publish", "send", "spin", "plugins", "out", "tick"}
  /\ pc[Sender] \in {"boot", "publish"} => sent = {}
  /\ pc[Sender] \in {"publish", "send", "spin"} => calling[Sender] \in Routine
  /\ pc[Sender] \in {"publish", "send"} => runs[Sender] = 0
  /\ pc[Sender] \in {"send", "spin"} => fn = calling[Sender]
  /\ pc[Sender] \in {"spin", "plugins", "out", "tick"} => sent = Peers /\ runs[Sender] = 1
  /\ pc[Sender] \in {"plugins", "out", "tick"} => Told = Peers
  /\ pc[Sender] = "plugins" => calling[Sender] = "kSchedInit"
  /\ pc[Sender] = "tick" => desync /\ calling[Sender] = "kTickTransition"

Before == \/ pc[Sender] \in {"boot", "plugins"}
          \/ pc[Sender] \in {"publish", "send", "spin"} /\ calling[Sender] = "kSchedInit"
During == pc[Sender] \in {"publish", "send", "spin"} /\ calling[Sender] = "kPerCpuHandoff"
After == \/ pc[Sender] \in {"out", "tick"}
         \/ /\ pc[Sender] \in {"publish", "send", "spin"} /\ calling[Sender] = "kTickTransition"
            /\ ~desync

\* Which cores have been handed off, and so may have ticks of their own.
Handoff ==
  /\ Before \/ During \/ After
  /\ Before => \A c \in online : ~handoffDone[c]
  /\ During => \A c \in online : handoffDone[c] <=> runs[c] = 1
  /\ After => \A c \in online : handoffDone[c]
  /\ \A c \in online : armed[c] => handoffDone[c] /\ (desync \/ c = Sender)
  /\ irr[Sender] => handoffDone[Sender]
  /\ \A c \in online : pc[c] = "tick" => calling[c] = "kTickTransition" /\ handoffDone[c]

Inv == TypeOK /\ Absent /\ Situation /\ CounterExact /\ SenderAt /\ Handoff

\* The sets of cores that the counter counts are finite.
LEMMA ToldFinite ==
  ASSUME online \subseteq Cpu, NEW S \in SUBSET Peers
  PROVE  IsFiniteSet(S) /\ Cardinality(S) \in Nat
  <1>1. S \subseteq Other
    BY DEF Peers, Cpu
  <1> QED BY <1>1, Cores, FS_Subset, FS_CardinalityType

\* The cores that take part wait; nothing was asked of any core.
Waiting ==
  /\ Quiet
  /\ online \subseteq Cpu /\ Sender \in online
  /\ pc = [c \in Cpu |-> IF c = Sender THEN "boot" ELSE IF c \in online THEN "out" ELSE "off"]

\* The rendezvous start from there.
LEMMA WaitingInv == Waiting => Inv
  <1> SUFFICES ASSUME Waiting PROVE Inv
    OBVIOUS
  <1> USE Cores DEF Waiting, Quiet, Cpu, Peers
  <1>1. TypeOK
    BY DEF TypeOK, Calls
  <1>2. Situation /\ Absent
    BY DEF Situation, NotAsked, Absent
  <1>3. CounterExact
    <2>1. Told = {}
      BY DEF Told
    <2> QED BY <2>1, FS_EmptySet DEF CounterExact
  <1>4. SenderAt /\ Handoff
    BY DEF SenderAt, Handoff, Before, During, After
  <1> QED BY <1>1, <1>2, <1>3, <1>4 DEF Inv

\* When all cores take part there is no more to it.
LEMMA InitInv == Init => Inv
  BY WaitingInv, Cores DEF Init, Waiting, Cpu

\* Who takes part does not change with the rendezvous.
LEMMA PeersAre ==
  ASSUME Inv, online' = online
  PROVE  /\ Peers \subseteq Other /\ Sender \notin Peers /\ online = {Sender} \cup Peers
         /\ online \subseteq Cpu /\ Peers' = Peers
  BY DEF Inv, TypeOK, Peers, Cpu

\* A core that does something takes part.
LEMMA Present == ASSUME Inv, NEW c \in Cpu, pc[c] # "off" PROVE c \in online
  BY DEF Inv, Absent

\* Between two rendezvous every other core is out of the last one.
LEMMA AllOut ==
  ASSUME Inv, pc[Sender] \in {"boot", "plugins", "out"},
         pc[Sender] = "out" => ~desync
  PROVE  \A c \in Peers : pc[c] = "out" /\ ~irr[c]
  <1> SUFFICES ASSUME NEW c \in Peers PROVE pc[c] = "out" /\ ~irr[c]
    OBVIOUS
  <1>1. ~Ticking(c)
    BY DEF Inv, Handoff, Before, Ticking, Peers
  <1>2. CASE pc[Sender] = "boot"
    BY <1>2 DEF Inv, Situation, NotAsked, Asked, HasRun, SenderAt
  <1>3. CASE pc[Sender] # "boot"
    <2>1. runs[c] = 1 /\ pc[c] # "add"
      BY <1>3 DEF Inv, SenderAt, Told
    <2> QED BY <1>1, <2>1 DEF Inv, Situation, NotAsked, Asked, HasRun
  <1> QED BY <1>2, <1>3

\* The start of a rendezvous resets what the last one left.
LEMMA InvokeInv ==
  ASSUME Inv, NEW f \in Routine, Invoke(f),
         UNCHANGED <<fn, armed, handoffDone, desync, online>>,
         irr' \in [Cpu -> BOOLEAN], \A c \in Peers : irr'[c] = irr[c],
         irr'[Sender] => irr[Sender],
         \/ pc[Sender] = "boot" /\ f = "kSchedInit"
         \/ pc[Sender] = "plugins" /\ f = "kPerCpuHandoff"
         \/ pc[Sender] = "out" /\ f = "kTickTransition" /\ ~desync
  PROVE  Inv'
  <1>p. /\ Peers \subseteq Other /\ Sender \notin Peers
        /\ online = {Sender} \cup Peers /\ Peers' = Peers
    BY PeersAre
  <1> USE Cores, <1>p DEF Cpu
  <1>0. /\ pc'[Sender] = "publish" /\ calling'[Sender] = f
        /\ \A c \in Other : pc'[c] = pc[c] /\ calling'[c] = calling[c]
        /\ \A c \in online : runs'[c] = 0
        /\ sent' = {} /\ rendezvous' = 0
    BY DEF Invoke, Inv, TypeOK
  <1>1. TypeOK'
    BY DEF Inv, TypeOK, Invoke, Calls
  <1>2. Situation'
    BY <1>0, AllOut DEF Situation, NotAsked
  <1>3. CounterExact'
    <2>1. Told' = {}
      BY <1>0 DEF Told
    <2> QED BY <1>0, <2>1, FS_EmptySet DEF CounterExact
  <1>4. SenderAt'
    BY <1>0 DEF SenderAt
  <1>5. Handoff'
    <2>1. \A c \in Peers : pc'[c] = "out"
      BY <1>0, AllOut
    <2>2. /\ \A c \in online : armed'[c] => handoffDone'[c] /\ (desync' \/ c = Sender)
          /\ irr'[Sender] => handoffDone'[Sender]
          /\ \A c \in online : pc'[c] = "tick" => calling'[c] = "kTickTransition" /\ handoffDone'[c]
      BY <1>0, <2>1 DEF Inv, Handoff
    <2>3. CASE f = "kSchedInit"
      BY <1>0, <2>2, <2>3 DEF Inv, Handoff, Before, During, After
    <2>4. CASE f = "kPerCpuHandoff"
      BY <1>0, <2>2, <2>4 DEF Inv, Handoff, Before, During, After
    <2>5. CASE f = "kTickTransition"
      BY <1>0, <2>2, <2>5 DEF Inv, Handoff, Before, During, After
    <2> QED BY <2>3, <2>4, <2>5 DEF Routine
  <1>9. Absent'
    BY <1>0 DEF Inv, TypeOK, Absent
  <1> QED BY <1>1, <1>2, <1>3, <1>4, <1>5, <1>9 DEF Inv

\* The boot starts a rendezvous before and after the plugins.
LEMMA KStartInv == ASSUME Inv, KStart PROVE Inv'
  BY InvokeInv DEF KStart, Routine, Inv, TypeOK

\* What the cores will read is the routine of this rendezvous.
LEMMA PublishInv == ASSUME Inv, Publish PROVE Inv'
  <1>p. /\ Peers \subseteq Other /\ Sender \notin Peers
        /\ online = {Sender} \cup Peers /\ Peers' = Peers
    BY PeersAre DEF Publish
  <1> USE Cores, <1>p DEF Cpu
  <1>0. /\ pc'[Sender] = "send" /\ \A c \in Other : pc'[c] = pc[c]
        /\ fn' = calling[Sender] /\ pc[Sender] = "publish"
        /\ UNCHANGED <<calling, rendezvous, sent, irr, armed, handoffDone, runs, desync, online>>
    BY DEF Publish, Inv, TypeOK
  <1>1. TypeOK'
    BY DEF Publish, Inv, TypeOK
  <1>2. Situation'
    BY <1>0 DEF Inv, Situation, NotAsked, Asked, HasRun, Ticking
  <1>3. CounterExact'
    <2>1. Told' = Told
      BY <1>0 DEF Told
    <2> QED BY <1>0, <2>1 DEF Inv, CounterExact
  <1>4. SenderAt'
    BY <1>0 DEF Inv, SenderAt
  <1>5. Handoff'
    BY <1>0 DEF Inv, Handoff, Before, During, After
  <1>9. Absent'
    BY <1>0 DEF Inv, TypeOK, Absent
  <1> QED BY <1>1, <1>2, <1>3, <1>4, <1>5, <1>9 DEF Inv

\* An IPI invites a core that had none pending.
LEMMA SendInv == ASSUME Inv, NEW c \in Peers, Send(c) PROVE Inv'
  <1>p. /\ Peers \subseteq Other /\ Sender \notin Peers
        /\ online = {Sender} \cup Peers /\ Peers' = Peers
    BY PeersAre DEF Send
  <1> USE Cores, <1>p DEF Cpu
  <1>0. /\ pc[Sender] = "send" /\ c \notin sent /\ sent' = sent \cup {c}
        /\ irr'[c] = TRUE /\ \A d \in Cpu \ {c} : irr'[d] = irr[d]
        /\ UNCHANGED <<pc, calling, fn, rendezvous, armed, handoffDone, runs, desync, online>>
    BY DEF Send, Inv, TypeOK
  <1>1. TypeOK'
    BY DEF Send, Inv, TypeOK
  <1>2. Situation'
    <2> SUFFICES ASSUME NEW d \in Peers PROVE (NotAsked(d) \/ Asked(d) \/ HasRun(d))'
      BY DEF Situation
    <2>1. CASE d = c
      <3>1. NotAsked(c)
        BY <1>0 DEF Inv, Situation, Asked, HasRun
      <3>2. ~Ticking(c)
        BY <1>0, <3>1 DEF Inv, SenderAt, Handoff, Before, During, After, Ticking, NotAsked, Routine
      <3> QED BY <1>0, <2>1, <3>1, <3>2 DEF NotAsked, Asked, Ticking
    <2>2. CASE d # c
      BY <1>0, <2>2 DEF Inv, Situation, NotAsked, Asked, HasRun, Ticking
    <2> QED BY <2>1, <2>2
  <1>3. CounterExact'
    <2>1. Told' = Told
      BY <1>0 DEF Told
    <2> QED BY <1>0, <2>1 DEF Inv, CounterExact
  <1>4. SenderAt'
    BY <1>0 DEF Inv, SenderAt
  <1>5. Handoff'
    BY <1>0 DEF Inv, Handoff, Before, During, After
  <1>9. Absent'
    BY <1>0 DEF Inv, TypeOK, Absent
  <1> QED BY <1>1, <1>2, <1>3, <1>4, <1>5, <1>9 DEF Inv

\* The sender runs the routine when all were asked.
LEMMA RunOwnInv == ASSUME Inv, RunOwn PROVE Inv'
  <1>p. /\ Peers \subseteq Other /\ Sender \notin Peers
        /\ online = {Sender} \cup Peers /\ Peers' = Peers
    BY PeersAre DEF RunOwn
  <1> USE Cores, <1>p DEF Cpu
  <1>0. /\ pc[Sender] = "send" /\ sent = Peers /\ runs[Sender] = 0
        /\ pc'[Sender] = "spin" /\ \A c \in Other : pc'[c] = pc[c]
        /\ runs'[Sender] = 1 /\ \A c \in Peers : runs'[c] = runs[c]
        /\ handoffDone'[Sender] = (handoffDone[Sender] \/ calling[Sender] = "kPerCpuHandoff")
        /\ armed'[Sender] = (armed[Sender] \/ calling[Sender] = "kPerCpuHandoff")
        /\ \A c \in Other : handoffDone'[c] = handoffDone[c] /\ armed'[c] = armed[c]
        /\ UNCHANGED <<calling, fn, rendezvous, sent, irr, desync, online>>
    BY DEF RunOwn, Run, Inv, TypeOK, SenderAt
  <1>1. TypeOK'
    <2>1. runs' \in [Cpu -> {0, 1}]
      BY <1>0 DEF RunOwn, Inv, TypeOK
    <2> QED BY <2>1 DEF RunOwn, Run, Inv, TypeOK
  <1>2. Situation'
    BY <1>0 DEF Inv, Situation, NotAsked, Asked, HasRun, Ticking
  <1>3. CounterExact'
    <2>1. Told' = Told
      BY <1>0 DEF Told
    <2> QED BY <1>0, <2>1 DEF Inv, CounterExact
  <1>4. SenderAt'
    BY <1>0 DEF Inv, SenderAt
  <1>5. Handoff'
    <2>1. /\ Before' <=> Before
          /\ During' <=> During
          /\ After' <=> After
      BY <1>0 DEF Before, During, After
    <2>2. calling[Sender] = "kPerCpuHandoff" <=> During
      BY <1>0 DEF During
    <2>3. Before => ~During
      BY DEF Before, During
    <2>4. \A c \in online : handoffDone[c] \in BOOLEAN
      BY DEF Inv, TypeOK
    <2>5. Before' => \A c \in online : ~handoffDone'[c]
      BY <1>0, <2>1, <2>2, <2>3 DEF Inv, Handoff
    <2>6. During' => \A c \in online : handoffDone'[c] <=> runs'[c] = 1
      BY <1>0, <2>1, <2>2, <2>4 DEF Inv, Handoff
    <2>7. After' => \A c \in online : handoffDone'[c]
      BY <1>0, <2>1 DEF Inv, Handoff
    <2>8. \A c \in online : armed'[c] => handoffDone'[c] /\ (desync \/ c = Sender)
      BY <1>0 DEF Inv, Handoff
    <2> QED BY <1>0, <2>1, <2>5, <2>6, <2>7, <2>8 DEF Inv, Handoff
  <1>9. Absent'
    BY <1>0 DEF Inv, TypeOK, Absent
  <1> QED BY <1>1, <1>2, <1>3, <1>4, <1>5, <1>9 DEF Inv

\* The counter reaches the number of cores only when all have told.
LEMMA ReturnInv == ASSUME Inv, Return PROVE Inv'
  <1>p. /\ Peers \subseteq Other /\ Sender \notin Peers
        /\ online = {Sender} \cup Peers /\ Peers' = Peers
    BY PeersAre DEF Return
  <1> USE Cores, <1>p DEF Cpu
  <1>0. /\ pc[Sender] = "spin" /\ rendezvous = Cardinality(sent) /\ fn' = "NULL"
        /\ pc'[Sender] = (IF calling[Sender] = "kSchedInit" THEN "plugins" ELSE "out")
        /\ \A c \in Other : pc'[c] = pc[c]
        /\ UNCHANGED <<calling, rendezvous, sent, irr, armed, handoffDone, runs, desync, online>>
    BY DEF Return, Inv, TypeOK
  <1>1. Told = Peers
    <2>1. Told \subseteq Peers /\ Cardinality(Told) = Cardinality(Peers)
      BY <1>0 DEF Told, Inv, CounterExact, SenderAt
    <2> QED BY <2>1, FS_Subset
  <1>2. Told' = Told
    BY <1>0 DEF Told
  <1>3. TypeOK'
    BY DEF Return, Inv, TypeOK, Calls
  <1>4. Situation'
    BY <1>0 DEF Inv, Situation, NotAsked, Asked, HasRun, Ticking
  <1>5. SenderAt' /\ CounterExact'
    BY <1>0, <1>1, <1>2 DEF Inv, SenderAt, CounterExact
  <1>6. Handoff'
    <2>1. \A c \in online : runs[c] = 1
      BY <1>0, <1>1 DEF Told, Inv, SenderAt
    <2> QED BY <1>0, <2>1 DEF Inv, SenderAt, Handoff, Before, During, After, Routine
  <1>9. Absent'
    BY <1>0 DEF Inv, TypeOK, Absent
  <1> QED BY <1>3, <1>4, <1>5, <1>6, <1>9 DEF Inv

\* A timer fires only on a core that no rendezvous will ask again with it.
LEMMA TimerInv == ASSUME Inv, NEW c \in Cpu, Timer(c) PROVE Inv'
  <1>p. /\ Peers \subseteq Other /\ Sender \notin Peers
        /\ online = {Sender} \cup Peers /\ Peers' = Peers
    BY PeersAre DEF Timer
  <1> USE Cores, <1>p DEF Cpu
  <1>0. /\ armed[c] /\ irr'[c] = TRUE /\ \A d \in Cpu \ {c} : irr'[d] = irr[d]
        /\ UNCHANGED <<pc, calling, fn, rendezvous, sent, armed, handoffDone, runs, desync, online>>
    BY DEF Timer, Inv, TypeOK
  <1>1. TypeOK'
    BY DEF Timer, Inv, TypeOK
  <1>2. Situation'
    <2> SUFFICES ASSUME NEW d \in Peers PROVE (NotAsked(d) \/ Asked(d) \/ HasRun(d))'
      BY DEF Situation
    <2>1. CASE d = c
      <3>1. Ticking(c)
        BY <1>0, <2>1 DEF Inv, Handoff, Ticking
      <3>2. ~NotAsked(c)
        BY <2>1, <3>1 DEF Inv, SenderAt, Handoff, Before, During, After, Ticking, NotAsked,
                          Told, Routine
      <3>3. HasRun(c)
        BY <2>1, <3>1, <3>2 DEF Inv, Situation, Asked
      <3> QED BY <1>0, <2>1, <3>1, <3>3 DEF HasRun, Ticking
    <2>2. CASE d # c
      BY <1>0, <2>2 DEF Inv, Situation, NotAsked, Asked, HasRun, Ticking
    <2> QED BY <2>1, <2>2
  <1>3. CounterExact'
    <2>1. Told' = Told
      BY <1>0 DEF Told
    <2> QED BY <1>0, <2>1 DEF Inv, CounterExact
  <1>4. SenderAt' /\ Handoff'
    <2>1. Told' = Told
      BY <1>0 DEF Told
    <2> QED BY <1>0, <2>1 DEF Inv, SenderAt, Handoff, Before, During, After
  <1>9. Absent'
    BY <1>0 DEF Inv, TypeOK, Absent
  <1> QED BY <1>1, <1>2, <1>3, <1>4, <1>9 DEF Inv

\* A step of another core c that keeps the counter, and of which the sender
\* and the others see nothing.
LEMMA OtherStep ==
  ASSUME Inv, NEW c \in Peers,
         pc' \in [Cpu -> {"boot", "publish", "send", "spin", "plugins", "out", "tick",
                          "invited", "call", "add", "off"}],
         \A d \in Cpu \ {c} : pc'[d] = pc[d] /\ calling'[d] = calling[d]
                              /\ irr'[d] = irr[d] /\ runs'[d] = runs[d]
                              /\ handoffDone'[d] = handoffDone[d] /\ armed'[d] = armed[d],
         calling' \in [Cpu -> Calls], irr' \in [Cpu -> BOOLEAN], runs' \in [Cpu -> {0, 1}],
         handoffDone' \in [Cpu -> BOOLEAN], armed' \in [Cpu -> BOOLEAN],
         UNCHANGED <<fn, sent, desync, online>>,
         rendezvous' \in Nat, CounterExact', Told \subseteq Told',
         (NotAsked(c) \/ Asked(c) \/ HasRun(c))',
         During => (handoffDone'[c] <=> runs'[c] = 1),
         ~During => handoffDone'[c] = handoffDone[c],
         armed'[c] => handoffDone'[c] /\ desync,
         pc'[c] = "tick" => calling'[c] = "kTickTransition" /\ handoffDone'[c]
  PROVE  Inv'
  <1>p. /\ Peers \subseteq Other /\ Sender \notin Peers
        /\ online = {Sender} \cup Peers /\ Peers' = Peers
    BY PeersAre
  <1> USE Cores, <1>p DEF Cpu
  <1>1. TypeOK'
    BY DEF Inv, TypeOK
  <1>2. Situation'
    <2> SUFFICES ASSUME NEW d \in Peers, d # c PROVE (NotAsked(d) \/ Asked(d) \/ HasRun(d))'
      BY DEF Situation
    <2> QED BY DEF Inv, Situation, NotAsked, Asked, HasRun, Ticking
  <1>3. SenderAt'
    <2>1. Told' \subseteq Peers
      BY DEF Told
    <2> QED BY <2>1 DEF Inv, SenderAt
  <1>4. Handoff'
    BY DEF Inv, Handoff, Before, During, After
  <1>9. Absent'
    BY DEF Inv, TypeOK, Absent
  <1> QED BY <1>1, <1>2, <1>3, <1>4, <1>9 DEF Inv

\* A core that is out takes the event for what it is.
LEMMA EventInv == ASSUME Inv, NEW c \in Cpu, Event(c) PROVE Inv'
  <1>p. /\ Peers \subseteq Other /\ Sender \notin Peers
        /\ online = {Sender} \cup Peers /\ Peers' = Peers
    BY PeersAre DEF Event, Invoke
  <1> USE Cores, <1>p DEF Cpu
  <1>0. /\ pc[c] = "out" /\ irr[c]
        /\ irr' \in [Cpu -> BOOLEAN]
        /\ irr'[c] = FALSE /\ \A d \in Cpu \ {c} : irr'[d] = irr[d]
        /\ UNCHANGED <<fn, armed, handoffDone, desync, online>>
    BY DEF Event, Inv, TypeOK
  <1>here. c # Sender => c \in Peers
    BY <1>0, Present
  <1>1. CASE c = Sender /\ ~desync
    <2>1. Invoke("kTickTransition")
      BY <1>1 DEF Event, InvitedTo
    <2> QED BY <1>0, <1>1, <2>1, InvokeInv DEF Routine
  <1>2. CASE c = Sender /\ desync
    <2>1. /\ pc' = [pc EXCEPT ![c] = "tick"]
          /\ calling' = [calling EXCEPT ![c] = "kTickTransition"]
          /\ UNCHANGED <<rendezvous, sent, runs>>
      BY <1>2 DEF Event, InvitedTo
    <2>2. /\ pc'[Sender] = "tick" /\ calling'[Sender] = "kTickTransition"
          /\ \A d \in Peers : pc'[d] = pc[d] /\ calling'[d] = calling[d]
      BY <1>2, <2>1 DEF Inv, TypeOK
    <2>3. TypeOK'
      BY <1>0, <2>1 DEF Inv, TypeOK, Calls, Routine
    <2>4. Told' = Told /\ \A d \in Peers : HasRun(d)
      BY <1>0, <1>2, <2>1, <2>2 DEF Told, Inv, SenderAt, Situation, NotAsked, Asked
    <2>5. Situation'
      BY <1>0, <1>2, <2>1, <2>2, <2>4 DEF Situation, HasRun, Ticking
    <2>6. CounterExact' /\ SenderAt'
      BY <1>0, <1>2, <2>1, <2>2, <2>4 DEF Inv, CounterExact, SenderAt
    <2>7. Handoff'
      BY <1>0, <1>2, <2>1, <2>2 DEF Inv, Handoff, Before, During, After
    <2>9. Absent'
      BY <1>0, <1>2, <2>1 DEF Inv, TypeOK, Absent
    <2> QED BY <2>3, <2>5, <2>6, <2>7, <2>9 DEF Inv
  <1>3. CASE c # Sender /\ InvitedTo(c)
    <2>1. pc' = [pc EXCEPT ![c] = "invited"] /\ UNCHANGED <<calling, rendezvous, sent, runs>>
      BY <1>3 DEF Event
    <2>2. pc'[c] = "invited" /\ \A d \in Cpu \ {c} : pc'[d] = pc[d]
      BY <2>1 DEF Inv, TypeOK
    <2>3. Asked(c)
      BY <1>0, <1>3, <1>here DEF InvitedTo, Inv, Situation, NotAsked, HasRun, Ticking
    <2>4. Asked(c)'
      BY <1>0, <2>1, <2>2, <2>3 DEF Asked, Ticking
    <2>5. Told' = Told
      BY <1>0, <2>1, <2>2, <2>3 DEF Told, Asked
    <2>6. CounterExact'
      BY <2>1, <2>5 DEF Inv, CounterExact
    <2> QED BY <1>0, <1>3, <1>here, <2>1, <2>2, <2>4, <2>5, <2>6, OtherStep DEF Inv, TypeOK, Handoff
  <1>4. CASE c # Sender /\ ~InvitedTo(c)
    <2>1. /\ pc' = [pc EXCEPT ![c] = "tick"] /\ desync /\ handoffDone[c]
          /\ calling' = [calling EXCEPT ![c] = "kTickTransition"]
          /\ UNCHANGED <<rendezvous, sent, runs>>
      BY <1>4 DEF Event, InvitedTo
    <2>2. /\ pc'[c] = "tick" /\ calling'[c] = "kTickTransition"
          /\ \A d \in Cpu \ {c} : pc'[d] = pc[d] /\ calling'[d] = calling[d]
      BY <2>1 DEF Inv, TypeOK
    <2>3. HasRun(c)
      BY <1>0, <1>4, <1>here, <2>1 DEF Inv, Situation, NotAsked, Asked, Ticking
    <2>4. HasRun(c)'
      BY <1>0, <2>1, <2>2, <2>3 DEF HasRun, Ticking
    <2>5. Told' = Told
      BY <1>0, <2>1, <2>2 DEF Told
    <2>6. CounterExact'
      BY <2>1, <2>5 DEF Inv, CounterExact
    <2> QED BY <1>0, <1>4, <1>here, <2>1, <2>2, <2>4, <2>5, <2>6, OtherStep
            DEF Inv, TypeOK, Handoff, Calls, Routine
  <1> QED BY <1>1, <1>2, <1>3, <1>4

\* The routine of an invited core is set, and is that of the sender.
LEMMA InvitedReads ==
  ASSUME Inv, NEW c \in Peers, pc[c] = "invited"
  PROVE  pc[Sender] \in {"send", "spin"} /\ fn = calling[Sender] /\ fn \in Routine /\ fn # "NULL"
  <1>1. c \in sent /\ runs[c] = 0
    BY DEF Inv, Situation, NotAsked, Asked, HasRun
  <1>2. pc[Sender] \in {"send", "spin"}
    BY <1>1 DEF Inv, SenderAt, Told
  <1> QED BY <1>2 DEF Inv, SenderAt, Routine

\* An invited core finds a routine to call.
LEMMA ReadFnInv == ASSUME Inv, NEW c \in Peers, ReadFn(c) PROVE Inv'
  <1>p. /\ Peers \subseteq Other /\ Sender \notin Peers
        /\ online = {Sender} \cup Peers /\ Peers' = Peers
    BY PeersAre DEF ReadFn
  <1> USE Cores, <1>p DEF Cpu
  <1>0. /\ pc[c] = "invited" /\ pc' = [pc EXCEPT ![c] = "call"]
        /\ calling' = [calling EXCEPT ![c] = fn] /\ fn = calling[Sender]
        /\ UNCHANGED <<fn, rendezvous, sent, irr, armed, handoffDone, runs, desync, online>>
    BY InvitedReads DEF ReadFn
  <1>1. /\ pc'[c] = "call" /\ calling'[c] = fn
        /\ \A d \in Cpu \ {c} : pc'[d] = pc[d] /\ calling'[d] = calling[d]
    BY <1>0 DEF Inv, TypeOK
  <1>2. Asked(c) /\ Asked(c)'
    BY <1>0, <1>1 DEF Inv, Situation, NotAsked, HasRun, Asked, Ticking
  <1>3. Told' = Told
    BY <1>0, <1>1, <1>2 DEF Told, Asked
  <1>4. CounterExact'
    BY <1>0, <1>3 DEF Inv, CounterExact
  <1> QED BY <1>0, <1>1, <1>2, <1>3, <1>4, OtherStep DEF Inv, TypeOK, Handoff

\* A core runs the routine once, and is handed off by the handoff only.
LEMMA CallInv == ASSUME Inv, NEW c \in Peers, Call(c) PROVE Inv'
  <1>p. /\ Peers \subseteq Other /\ Sender \notin Peers
        /\ online = {Sender} \cup Peers /\ Peers' = Peers
    BY PeersAre DEF Call
  <1> USE Cores, <1>p DEF Cpu
  <1>0. Asked(c) /\ calling[c] = calling[Sender] /\ pc[c] = "call"
    BY DEF Call, Inv, Situation, NotAsked, Asked, HasRun
  <1>1. pc[Sender] \in {"send", "spin"} /\ calling[Sender] \in Routine
    BY <1>0 DEF Asked, Inv, SenderAt, Told
  <1>2. /\ pc'[c] = "add" /\ runs'[c] = 1
        /\ handoffDone'[c] = (handoffDone[c] \/ calling[c] = "kPerCpuHandoff")
        /\ armed'[c] = (armed[c] \/ (calling[c] = "kPerCpuHandoff" /\ (desync \/ c = Sender)))
        /\ \A d \in Cpu \ {c} : /\ pc'[d] = pc[d] /\ runs'[d] = runs[d]
                                /\ handoffDone'[d] = handoffDone[d] /\ armed'[d] = armed[d]
        /\ UNCHANGED <<calling, fn, rendezvous, sent, irr, desync, online>>
    BY <1>0 DEF Call, Run, Asked, Inv, TypeOK
  <1>3. /\ runs' \in [Cpu -> {0, 1}] /\ handoffDone' \in [Cpu -> BOOLEAN]
        /\ armed' \in [Cpu -> BOOLEAN]
        /\ pc' \in [Cpu -> {"boot", "publish", "send", "spin", "plugins", "out", "tick",
                            "invited", "call", "add", "off"}]
    <2>1. runs' = [runs EXCEPT ![c] = 1]
      BY <1>0 DEF Call, Asked, Inv, TypeOK
    <2> QED BY <2>1 DEF Call, Run, Inv, TypeOK
  <1>4. HasRun(c)'
    BY <1>0, <1>2 DEF Asked, HasRun
  <1>5. Told' = Told
    BY <1>0, <1>2 DEF Told, Asked
  <1>6. CounterExact'
    BY <1>2, <1>5 DEF Inv, CounterExact
  <1>7. /\ During => (handoffDone'[c] <=> runs'[c] = 1)
        /\ ~During => handoffDone'[c] = handoffDone[c]
    <2>1. During <=> calling[c] = "kPerCpuHandoff"
      BY <1>0, <1>1 DEF During
    <2>2. handoffDone[c] \in BOOLEAN
      BY DEF Inv, TypeOK
    <2> QED BY <1>2, <2>1, <2>2
  <1>8. armed'[c] => handoffDone'[c] /\ desync
    BY <1>2 DEF Inv, Handoff
  <1> QED BY <1>2, <1>3, <1>4, <1>5, <1>6, <1>7, <1>8, OtherStep DEF Inv, TypeOK

\* The increment counts the core that makes it.
LEMMA AddInv == ASSUME Inv, NEW c \in Peers, Add(c) PROVE Inv'
  <1>p. /\ Peers \subseteq Other /\ Sender \notin Peers
        /\ online = {Sender} \cup Peers /\ Peers' = Peers
    BY PeersAre DEF Add
  <1> USE Cores, <1>p DEF Cpu
  <1>0. /\ pc[c] = "add" /\ pc' = [pc EXCEPT ![c] = "out"] /\ rendezvous' = rendezvous + 1
        /\ UNCHANGED <<calling, fn, sent, irr, armed, handoffDone, runs, desync, online>>
    BY DEF Add
  <1>1. pc'[c] = "out" /\ \A d \in Cpu \ {c} : pc'[d] = pc[d]
    BY <1>0 DEF Inv, TypeOK
  <1>2. HasRun(c) /\ HasRun(c)'
    BY <1>0, <1>1 DEF Inv, Situation, NotAsked, Asked, HasRun, Ticking
  <1>3. Told' = Told \cup {c} /\ c \notin Told
    BY <1>0, <1>1, <1>2 DEF Told, HasRun
  <1>4. CounterExact'
    <2>1. IsFiniteSet(Told)
      BY ToldFinite DEF Told
    <2>2. Cardinality(Told \cup {c}) = Cardinality(Told) + 1
      BY <1>3, <2>1, FS_AddElement
    <2> QED BY <1>0, <1>3, <2>2 DEF Inv, CounterExact
  <1>5. pc' \in [Cpu -> {"boot", "publish", "send", "spin", "plugins", "out", "tick",
                         "invited", "call", "add", "off"}]
    BY <1>0 DEF Inv, TypeOK
  <1> QED BY <1>0, <1>1, <1>2, <1>3, <1>4, <1>5, OtherStep DEF Inv, TypeOK, Handoff

\* A tick of a core's own leaves the rendezvous alone.
LEMMA OwnTickInv == ASSUME Inv, NEW c \in Cpu, OwnTick(c) PROVE Inv'
  <1>p. /\ Peers \subseteq Other /\ Sender \notin Peers
        /\ online = {Sender} \cup Peers /\ Peers' = Peers
    BY PeersAre DEF OwnTick
  <1> USE Cores, <1>p DEF Cpu
  <1>0. pc[c] = "tick" /\ calling[c] = "kTickTransition" /\ c \in online
    BY Present DEF OwnTick, Inv, Handoff
  <1>1. /\ pc' = [pc EXCEPT ![c] = "out"]
        /\ handoffDone' = handoffDone /\ armed' = armed
        /\ UNCHANGED <<calling, fn, rendezvous, sent, irr, runs, desync, online>>
    BY <1>0 DEF OwnTick, Run, Inv, TypeOK
  <1>2. pc'[c] = "out" /\ \A d \in Cpu \ {c} : pc'[d] = pc[d]
    BY <1>1 DEF Inv, TypeOK
  <1>3. Told' = Told
    BY <1>0, <1>1, <1>2 DEF Told
  <1>4. TypeOK' /\ CounterExact'
    BY <1>1, <1>3 DEF Inv, TypeOK, CounterExact
  <1>5. Situation'
    BY <1>0, <1>1, <1>2 DEF Inv, Situation, NotAsked, Asked, HasRun, Ticking
  <1>6. SenderAt' /\ Handoff'
    BY <1>0, <1>1, <1>2, <1>3 DEF Inv, SenderAt, Handoff, Before, During, After
  <1>9. Absent'
    BY <1>0, <1>1, <1>2 DEF Inv, TypeOK, Absent
  <1> QED BY <1>4, <1>5, <1>6, <1>9 DEF Inv

\* Every step of every core keeps the invariant.
LEMMA NextInv == Inv /\ [Next]_vars => Inv'
  <1> SUFFICES ASSUME Inv, [Next]_vars PROVE Inv'
    OBVIOUS
  <1>1. CASE UNCHANGED vars
    <2>1. Told' = Told /\ Peers' = Peers
      BY <1>1 DEF vars, Told, Peers
    <2> QED BY <1>1, <2>1 DEF vars, Inv, TypeOK, Absent, Situation, NotAsked, Asked, HasRun, Ticking,
                              CounterExact, SenderAt, Handoff, Before, During, After
  <1>2. CASE Next
    <2>1. CASE KStart \/ Publish \/ RunOwn \/ Return
      BY <2>1, KStartInv, PublishInv, RunOwnInv, ReturnInv
    <2>2. ASSUME NEW c \in Other, Send(c) \/ ReadFn(c) \/ Call(c) \/ Add(c)
          PROVE  Inv'
      <3>1. c \in Peers
        BY <2>2, Present, Cores DEF Peers, Cpu, Send, ReadFn, Call, Add
      <3> QED BY <2>2, <3>1, SendInv, ReadFnInv, CallInv, AddInv
    <2>3. ASSUME NEW c \in Cpu, Timer(c) \/ Event(c) \/ OwnTick(c)
          PROVE  Inv'
      BY <2>3, TimerInv, EventInv, OwnTickInv
    <2> QED BY <1>2, <2>1, <2>2, <2>3 DEF Next
  <1> QED BY <1>1, <1>2

\* The cores fit together only if all that take part ran the routine.
LEMMA InvRanOnce == Inv => EveryCoreRanOnce
  <1> SUFFICES ASSUME Inv, pc[Sender] \in {"plugins", "out", "tick"}, NEW c \in online
               PROVE  runs[c] = 1 /\ (c # Sender => pc[c] \in {"out", "tick"})
    BY DEF EveryCoreRanOnce
  <1>1. CASE c = Sender
    BY <1>1 DEF Inv, SenderAt
  <1>2. CASE c \in Peers
    BY <1>2 DEF Inv, SenderAt, Told, Situation, NotAsked, Asked, HasRun
  <1> QED BY <1>1, <1>2 DEF Peers

\* A core that was asked reads the sender's routine.
LEMMA InvReadsRight == Inv => RightRoutine
  <1> SUFFICES ASSUME Inv, NEW c \in Other, pc[c] \in {"invited", "call"}
               PROVE  /\ pc[c] = "invited" => fn = calling[Sender] /\ fn # "NULL"
                      /\ pc[c] = "call" => /\ calling[c] = calling[Sender]
                                           /\ pc[Sender] \in {"send", "spin"}
    BY DEF RightRoutine
  <1>1. c \in Peers
    BY Present, Cores DEF Peers, Cpu
  <1>2. ASSUME pc[c] = "call"
        PROVE  calling[c] = calling[Sender] /\ pc[Sender] \in {"send", "spin"}
    <2>1. c \in sent /\ runs[c] = 0 /\ calling[c] = calling[Sender]
      BY <1>1, <1>2 DEF Inv, Situation, NotAsked, Asked, HasRun
    <2> QED BY <1>1, <2>1 DEF Inv, SenderAt, Told
  <1> QED BY <1>1, <1>2, InvitedReads

\* A tick is only for a core that was handed off.
LEMMA InvTicksAfterHandoff == Inv => NoTickBeforeHandoff
  <1> SUFFICES ASSUME Inv, NEW c \in Cpu, pc[c] \in {"call", "tick"},
                      calling[c] = "kTickTransition"
               PROVE  handoffDone[c]
    BY DEF NoTickBeforeHandoff
  <1>1. c \in online
    BY Present
  <1>2. CASE pc[c] = "tick"
    BY <1>1, <1>2 DEF Inv, Handoff
  <1>3. CASE pc[c] = "call"
    <2>1. c \in Peers
      BY <1>1, <1>3 DEF Peers, Inv, SenderAt
    <2>2. c \in sent /\ runs[c] = 0 /\ calling[Sender] = "kTickTransition"
      BY <1>3, <2>1 DEF Inv, Situation, NotAsked, Asked, HasRun
    <2>3. pc[Sender] \in {"send", "spin"}
      BY <2>1, <2>2 DEF Inv, SenderAt, Told
    <2>4. After
      BY <2>2, <2>3 DEF Inv, Handoff, Before, During
    <2> QED BY <1>1, <2>4 DEF Inv, Handoff
  <1> QED BY <1>2, <1>3

\* What the sender and the other cores are at fits together, whatever the
\* number of cores.
THEOREM Invariance == Spec => []Inv
  BY InitInv, NextInv, PTL DEF Spec

\* When the sender goes on, every core has run the routine exactly once, and
\* none is still about to (ia32eCpuInvokeAllRendezvous).
THEOREM RanOnce == Spec => []EveryCoreRanOnce
  BY Invariance, InvRanOnce, PTL

\* A core that was asked finds the routine it was asked to run, not the last
\* one, the next one or none (ia32eIsrEventHandler).
THEOREM ReadsRight == Spec => []RightRoutine
  BY Invariance, InvReadsRight, PTL

\* No core takes a tick before it was handed off (kPerCpuHandoff), although
\* ticks and invitations come with one vector.
THEOREM TicksAfterHandoff == Spec => []NoTickBeforeHandoff
  BY Invariance, InvTicksAfterHandoff, PTL

-----------------------------------------------------------------------------
(* The start of the cores, one at a time, up to the first rendezvous.      *)

\* where the boot processor is until the kernel starts
Booting == {"madt", "apicConfig", "panic", "wakeup", "init", "sipi1", "sipi2", "awaitOnline",
            "cpuInit", "calibrate", "vtxInit", "on"}
Starting == {"init", "sipi1", "sipi2", "awaitOnline"}

\* where a started core is until it reports
Working == {"entry", "apStart", "apicSync", "cpuInit", "calibrate", "vtxInit", "on"}

Labels == Booting \cup Working \cup {"off", "waitSipi", "out"}

Id(c) == machine.cpuid[c].id

StartTypeOK ==
  /\ machine \in Machines
  /\ cpuTable \in Seq([apicId : Nat, enabled : BOOLEAN])
  /\ \A i, j \in DOMAIN cpuTable : cpuTable[i].apicId = cpuTable[j].apicId => i = j
  /\ apic \in [Cpu -> {"reset", "disabled", "xapic", "x2apic"}]
  /\ slot \in Nat \ {0} /\ apRsp \in Nat
  /\ sp \in [Cpu -> Nat] /\ me \in [Cpu -> Nat]
  /\ topology \in [Cpu -> {Nowhere} \cup {ThisTopology(machine.cpuid[c]) : c \in Cpu}]
  /\ wokenCount \in Nat /\ numCpusOnline \in Nat
  /\ online \subseteq Cpu /\ vcpuCapable \subseteq online

\* a core that found its own per-CPU structure, on the stack of that one
Itself(c) ==
  /\ me[c] \in DOMAIN cpuTable /\ cpuTable[me[c]].apicId = Id(c)
  /\ c # Sender => sp[c] = me[c]
  /\ topology[c] = ThisTopology(machine.cpuid[c])

\* the cores that the boot processor is through with
Done == {c \in Other : \E s \in DOMAIN cpuTable :
            s < slot /\ ~Skipped(s) /\ cpuTable[s].apicId = Id(c)}

\* The boot processor starts no core before the last one reported.
OthersAt ==
  /\ \A c \in Other :
       \/ pc[c] = IF c \in Done THEN "out" ELSE "off"
       \/ c \in Target /\ pc[Sender] \in {"sipi1", "sipi2", "awaitOnline"}
  /\ pc[Sender] = "sipi1" => \A c \in Target : pc[c] = "waitSipi"
  /\ pc[Sender] \in {"sipi2", "awaitOnline"} =>
       \A c \in Target :
         \/ pc[c] \in Working \cup {"out", "panic"}
         \/ pc[c] = "waitSipi" /\ pc[Sender] = "sipi2"

\* How far each core is.
CoresAt ==
  /\ pc[Sender] \notin {"madt", "panic"} => Sender \in online
  /\ \A c \in Other :
       /\ c \in online <=> pc[c] \notin {"off", "waitSipi", "entry", "apStart"}
       /\ pc[c] = "apStart" => sp[c] = slot
  /\ \A c \in Cpu : pc[c] \in {"calibrate", "vtxInit", "on", "out"} => apic[c] \in {"xapic", "x2apic"}

SlotAt ==
  /\ pc[Sender] \in {"madt", "apicConfig", "panic"} => slot = 1
  /\ pc[Sender] \in Starting => slot \in DOMAIN cpuTable /\ ~Skipped(slot) /\ apRsp = slot
  /\ pc[Sender] \in {"cpuInit", "calibrate", "vtxInit", "on"} => slot > Len(cpuTable)

Reported == {c \in Other : pc[c] = "out"}

Counted ==
  /\ numCpusOnline = Cardinality(Reported)
  /\ wokenCount = Cardinality(Done) + IF pc[Sender] = "awaitOnline" THEN 1 ELSE 0

BootInv ==
  /\ Quiet /\ pc \in [Cpu -> Labels]
  /\ OthersAt /\ CoresAt /\ SlotAt /\ Counted

\* What the boot leaves to the kernel.
Booted ==
  /\ online = Enabled /\ numCpusOnline = Cardinality(online)
  /\ \A c \in online : apic[c] # "disabled"
  /\ allEptAd => vcpuCapable \subseteq eptAd

StartInv ==
  /\ StartTypeOK
  /\ \A c \in online : Itself(c)
  /\ pc[Sender] \in Booting => BootInv
  /\ pc[Sender] \notin Booting => Inv /\ Booted

\* A core of the machine says the whole of its id, whatever leaf it has it from.
LEMMA SaysItsId ==
  ASSUME machine \in Machines, NEW c \in Cpu
  PROVE  LapicId(c) = Id(c) /\ Id(c) \in Nat
  <1> DEFINE id == machine.cpuid[c]
  <1>1. /\ id.id \in Nat
        /\ id.leaf1f = <<>> /\ ~Usable0x0b(id) => id.id < 256
    BY MachinesAssumption
  <1>2. id.id < 256 => id.id % 256 = id.id
    BY <1>1
  <1> QED BY <1>1, <1>2 DEF LapicId, Id, ThisLapicId, LegacyId

\* Division leaves a remainder.
LEMMA Division ==
  ASSUME NEW n \in Nat, NEW d \in Nat \ {0}
  PROVE  /\ n \div d \in Nat /\ n % d \in 0..(d - 1)
         /\ n = d * (n \div d) + (n % d)
  OBVIOUS

\* A product that is not 0 is no smaller than its factors.
LEMMA Multiple ==
  ASSUME NEW d \in Nat \ {0}, NEW k \in Int, d * k < d, 0 - d < d * k
  PROVE  k = 0
  <1>1. ASSUME k >= 1 PROVE FALSE
    BY <1>1
  <1>2. ASSUME k <= -1 PROVE FALSE
    BY <1>2
  <1> QED BY <1>1, <1>2

\* The three fields tell the id, whatever the spans are: the ids of one package
\* and core differ by less than the span of a core, those of one thread by a
\* multiple of it.
LEMMA SplitDiffers ==
  ASSUME NEW x \in Nat, NEW y \in Nat, NEW smt \in Nat \ {0}, NEW core \in Nat \ {0},
         Split(x, smt, core) = Split(y, smt, core)
  PROVE  x = y
  <1>1. /\ x % smt = y % smt /\ x \div core = y \div core
        /\ (x % core) \div smt = (y % core) \div smt
    BY DEF Split
  <1>2. x % core \in Nat /\ y % core \in Nat
    BY Division
  <1> DEFINE tx == (x % core) % smt  ty == (y % core) % smt
             q == (x % core) \div smt
  <1>3. /\ tx \in 0..(smt - 1) /\ ty \in 0..(smt - 1)
        /\ (x % core) = smt * q + tx /\ (y % core) = smt * q + ty /\ q \in Nat
    BY <1>1, <1>2, Division
  <1>4. x - y = tx - ty
    <2>1. x = core * (x \div core) + (x % core) /\ y = core * (x \div core) + (y % core)
      BY <1>1, Division
    <2>2. x \div core \in Nat
      BY Division
    <2>3. (x % core) - (y % core) = tx - ty
      BY <1>2, <1>3
    <2> QED BY <1>2, <1>3, <2>1, <2>2, <2>3
  <1>6. x \div smt \in Nat /\ y \div smt \in Nat
    BY Division
  <1>5. x - y = smt * (x \div smt - y \div smt)
    <2>1. x = smt * (x \div smt) + (x % smt) /\ y = smt * (y \div smt) + (y % smt)
      BY Division
    <2>2. x % smt \in 0..(smt - 1)
      BY Division
    <2>3. y = smt * (y \div smt) + (x % smt)
      BY <1>1, <2>1
    <2> DEFINE a == x \div smt  b == y \div smt  r == x % smt
    <2>4. a \in Nat /\ b \in Nat /\ r \in Int /\ x = smt * a + r /\ y = smt * b + r
      BY <1>6, <2>1, <2>2, <2>3
    <2> HIDE DEF a, b, r
    <2>5. x - y = smt * (a - b)
      BY <2>4
    <2> QED BY <2>5 DEF a, b
  <1>7. x \div smt - y \div smt = 0
    BY <1>3, <1>4, <1>5, <1>6, Multiple
  <1> QED BY <1>5, <1>7

\* What a sequence holds is of the set it is over.
LEMMA ElementOfSeq == ASSUME NEW S, NEW t \in Seq(S), NEW i \in DOMAIN t PROVE t[i] \in S
  OBVIOUS

\* A span counts ids: it is never 0.
LEMMA SpansPositive ==
  ASSUME machine \in Machines, NEW c \in Cpu, NEW type
  PROVE  /\ Span0x1f(machine.cpuid[c].leaf1f, type) \in Nat \ {0}
         /\ Usable0x0b(machine.cpuid[c]) =>
              Span0x0b(machine.cpuid[c].leaf0b, type) \in Nat \ {0}
  <1> DEFINE Levels == [type : STRING, span : Nat \ {0}]
  <1>1. machine.cpuid[c].leaf1f \in Seq(Levels) /\ machine.cpuid[c].leaf0b \in Seq(Levels)
    BY MachinesAssumption
  <1>2. ASSUME NEW levels \in Seq(Levels), NEW i \in DOMAIN levels
        PROVE  levels[i].span \in Nat \ {0}
    <2>1. levels[i] \in Levels
      <3> HIDE DEF Levels
      <3> QED BY <1>2, ElementOfSeq
    <2> QED BY <2>1
  <1>3. ASSUME NEW levels \in Seq(Levels) PROVE Span0x1f(levels, type) \in Nat \ {0}
    <2> DEFINE last == {i \in DOMAIN levels :
           /\ levels[i].type = type
           /\ \A j \in DOMAIN levels : levels[j].type = type => j <= i}
    <2>1. Span0x1f(levels, type) = IF last = {} THEN 1 ELSE levels[CHOOSE i \in last : TRUE].span
      BY DEF Span0x1f
    <2>2. last \subseteq DOMAIN levels
      OBVIOUS
    <2> HIDE DEF last
    <2>3. CASE last = {}
      BY <2>1, <2>3
    <2>4. CASE last # {}
      <3>1. (CHOOSE i \in last : TRUE) \in DOMAIN levels
        BY <2>2, <2>4
      <3> QED BY <1>2, <2>1, <2>4, <3>1
    <2> QED BY <2>3, <2>4
  <1>4. ASSUME NEW levels \in Seq(Levels), Len(levels) >= 2
        PROVE  Span0x0b(levels, type) \in Nat \ {0}
    <2>1. 1 \in DOMAIN levels /\ 2 \in DOMAIN levels
      BY <1>4
    <2> QED BY <1>2, <2>1 DEF Span0x0b
  <1> HIDE DEF Levels
  <1> QED BY <1>1, <1>3, <1>4 DEF Usable0x0b

\* The loop that halves n ends at a power of two.
LEMMA PowerPositive == ASSUME NEW n \in Nat PROVE PowerOfTwo(n) \in Nat \ {0}
  <1> DEFINE S == {1} \cup {p \in {2, 4, 8, 16, 32, 64, 128} : p <= n}
  <1>1. \E x \in S : \A y \in S : x >= y
    <2>1. CASE n < 2
      BY <2>1
    <2>2. CASE n \in 2..3
      BY <2>2
    <2>3. CASE n \in 4..7
      BY <2>3
    <2>4. CASE n \in 8..15
      BY <2>4
    <2>5. CASE n \in 16..31
      BY <2>5
    <2>6. CASE n \in 32..63
      BY <2>6
    <2>7. CASE n \in 64..127
      BY <2>7
    <2>8. CASE n >= 128
      BY <2>8
    <2> QED BY <2>1, <2>2, <2>3, <2>4, <2>5, <2>6, <2>7, <2>8
  <1>2. PowerOfTwo(n) = Max(S)
    BY DEF PowerOfTwo
  <1>3. Max(S) \in S
    BY <1>1 DEF Max
  <1>4. S \subseteq Nat \ {0}
    OBVIOUS
  <1> QED BY <1>2, <1>3, <1>4

\* Two cores that report alike and have different ids are at different places.
LEMMA PlaceTellsId ==
  ASSUME machine \in Machines, NEW c \in Cpu, NEW d \in Cpu, Alike(c, d),
         ThisTopology(machine.cpuid[c]) = ThisTopology(machine.cpuid[d])
  PROVE  Id(c) = Id(d)
  <1> DEFINE x == machine.cpuid[c]  y == machine.cpuid[d]
  <1>1. /\ x.leaf1f = y.leaf1f /\ x.leaf0b = y.leaf0b
        /\ x.threads = y.threads /\ x.cores = y.cores
    BY DEF Alike
  <1>2. /\ x.id \in Nat /\ y.id \in Nat /\ x.threads \in Nat /\ x.cores \in Nat \ {0}
        /\ x.leaf1f = <<>> /\ ~Usable0x0b(x) => x.id < 256 /\ y.id < 256
        /\ Usable0x0b(x) <=> Usable0x0b(y)
    BY <1>1, MachinesAssumption DEF Usable0x0b
  <1> SUFFICES x.id = y.id
    BY DEF Id
  <1>3. CASE x.leaf1f # <<>>
    <2> DEFINE smt == Span0x1f(x.leaf1f, "smt")  core == Span0x1f(x.leaf1f, "core")
    <2>1. smt \in Nat \ {0} /\ core \in Nat \ {0}
      BY SpansPositive
    <2>2. /\ ThisTopology(x) = Split(x.id, smt, IF core = 1 THEN smt ELSE core)
          /\ ThisTopology(y) = Split(y.id, smt, IF core = 1 THEN smt ELSE core)
      BY <1>1, <1>3 DEF ThisTopology, Topology0x1f
    <2> HIDE DEF smt, core
    <2> QED BY <1>2, <2>1, <2>2, SplitDiffers
  <1>4. CASE x.leaf1f = <<>> /\ Usable0x0b(x)
    <2> DEFINE smt == Span0x0b(x.leaf0b, "smt")  core == Span0x0b(x.leaf0b, "core")
    <2>1. smt \in Nat \ {0} /\ core \in Nat \ {0}
      BY <1>4, SpansPositive
    <2>2. ThisTopology(x) = Topology0x0b(x) /\ ThisTopology(y) = Topology0x0b(y)
      BY <1>1, <1>2, <1>4 DEF ThisTopology
    <2>3. CASE core # 1
      <3>1. Split(x.id, smt, core) = Split(y.id, smt, core)
        BY <1>1, <2>2, <2>3 DEF Topology0x0b
      <3> HIDE DEF smt, core
      <3> QED BY <1>2, <2>1, <3>1, SplitDiffers
    <2>4. CASE core = 1
      <3>1. Topology0x0b(x).coreId = x.id
        BY <2>4 DEF Topology0x0b
      <3>2. Topology0x0b(y).coreId = y.id
        BY <1>1, <2>4 DEF Topology0x0b
      <3> QED BY <2>2, <3>1, <3>2
    <2> QED BY <2>3, <2>4
  <1>5. CASE x.leaf1f = <<>> /\ ~Usable0x0b(x)
    <2>1. ThisTopology(x) = TopologyLegacy(x) /\ ThisTopology(y) = TopologyLegacy(y)
      BY <1>1, <1>2, <1>5 DEF ThisTopology
    <2>2. LegacyId(x) = x.id /\ LegacyId(y) = y.id
      BY <1>2, <1>5 DEF LegacyId
    <2>3. CASE x.threads < 2
      <3>1. TopologyLegacy(x).coreId = x.id
        BY <2>2, <2>3 DEF TopologyLegacy
      <3>2. TopologyLegacy(y).coreId = y.id
        BY <1>1, <2>2, <2>3 DEF TopologyLegacy
      <3> QED BY <2>1, <3>1, <3>2
    <2>4. CASE ~(x.threads < 2)
      <3> DEFINE smt == PowerOfTwo(x.threads \div x.cores)  cores == PowerOfTwo(x.cores)
      <3>1. smt \in Nat \ {0} /\ cores \in Nat \ {0}
        BY <1>2, Division, PowerPositive
      <3>2. Split(x.id, smt, smt * cores) = Split(y.id, smt, smt * cores)
        BY <1>1, <2>1, <2>2, <2>4 DEF TopologyLegacy
      <3> HIDE DEF smt, cores
      <3>3. smt * cores \in Nat \ {0}
        BY <3>1
      <3> QED BY <1>2, <3>1, <3>2, <3>3, SplitDiffers
    <2> QED BY <2>3, <2>4
  <1> QED BY <1>3, <1>4, <1>5

\* No two cores have one id.
LEMMA IdsDiffer ==
  ASSUME machine \in Machines, NEW c \in Cpu, NEW d \in Cpu, Id(c) = Id(d)
  PROVE  c = d
  BY MachinesAssumption DEF Id

\* At most one core is being started, and it was not started before.
LEMMA OneTarget ==
  ASSUME StartTypeOK, slot \in DOMAIN cpuTable
  PROVE  /\ Target \subseteq Other /\ Target \cap Done = {}
         /\ \A c, d \in Target : c = d
  <1>1. \A c \in Target : c \in Other /\ Id(c) = cpuTable[slot].apicId
    BY DEF Target, Id
  <1>2. \A c, d \in Target : c = d
    BY <1>1, IdsDiffer DEF StartTypeOK, Cpu
  <1>3. ASSUME NEW c \in Target, c \in Done PROVE FALSE
    <2>1. PICK s \in DOMAIN cpuTable : s < slot /\ cpuTable[s].apicId = Id(c)
      BY <1>3 DEF Done
    <2>2. s = slot
      BY <1>1, <1>3, <2>1 DEF StartTypeOK
    <2> QED BY <2>1, <2>2 DEF StartTypeOK
  <1> QED BY <1>1, <1>2, <1>3

\* What the table says is as it was while the boot processor stays at its slot.
LEMMA SameTable ==
  ASSUME UNCHANGED <<machine, cpuTable, slot>>, me'[Sender] = me[Sender]
  PROVE  /\ Done' = Done /\ Target' = Target
         /\ \A s : Skipped(s)' <=> Skipped(s)
         /\ \A c : Id(c)' = Id(c)
  <1>1. \A s : Skipped(s)' <=> Skipped(s)
    BY DEF Skipped
  <1>2. \A c : Id(c)' = Id(c)
    BY DEF Id
  <1> QED BY <1>1, <1>2 DEF Done, Target

\* The cores that the counters count are finitely many.
LEMMA CountsAreNumbers ==
  /\ IsFiniteSet(Done) /\ Cardinality(Done) \in Nat
  /\ IsFiniteSet(Reported) /\ Cardinality(Reported) \in Nat
  <1>1. Done \subseteq Other /\ Reported \subseteq Other
    BY DEF Done, Reported
  <1> QED BY <1>1, Cores, FS_Subset, FS_CardinalityType

\* The boot processor begins alone.
LEMMA StartInitInv == StartInit => StartInv
  <1> SUFFICES ASSUME StartInit PROVE StartInv
    OBVIOUS
  <1> USE Cores DEF StartInit, Cpu
  <1>0. pc[Sender] = "madt" /\ \A c \in Other : pc[c] = "off"
    OBVIOUS
  <1>1. StartTypeOK
    <2>1. cpuTable \in Seq([apicId : Nat, enabled : BOOLEAN]) /\ DOMAIN cpuTable = {}
      OBVIOUS
    <2> QED BY <2>1 DEF StartTypeOK
  <1>2. Done = {} /\ Reported = {}
    BY <1>0 DEF Done, Reported
  <1>3. Counted
    BY <1>0, <1>2, FS_EmptySet DEF Counted
  <1>4. OthersAt /\ SlotAt /\ CoresAt
    BY <1>0, <1>2 DEF OthersAt, SlotAt, CoresAt, Starting
  <1>5. Quiet /\ pc \in [Cpu -> Labels] /\ online = {}
    BY DEF Labels, Booting
  <1> HIDE DEF StartInit
  <1> QED BY <1>0, <1>1, <1>3, <1>4, <1>5 DEF StartInv, BootInv, Booting

-----------------------------------------------------------------------------
(* A started core, up to its report.                                       *)

\* Only the core that the boot processor waits for is at work.
LEMMA WorkingIsTarget ==
  ASSUME BootInv, NEW c \in Other, pc[c] \in Working
  PROVE  c \in Target /\ pc[Sender] \in {"sipi2", "awaitOnline"}
  BY DEF BootInv, OthersAt, Working

\* A step of that core which keeps to itself.
LEMMA CoreStep ==
  ASSUME StartInv, pc[Sender] \in Booting, NEW c \in Other, pc[c] \in Working,
         NEW l \in Working \cup {"out", "panic"}, pc' = [pc EXCEPT ![c] = l],
         pc[c] \notin {"entry", "apStart"} => l \notin {"entry", "apStart"},
         UNCHANGED <<machine, cpuTable, slot, apRsp, wokenCount, quietVars>>,
         \A d \in Cpu \ {c} : /\ me'[d] = me[d] /\ sp'[d] = sp[d]
                              /\ topology'[d] = topology[d] /\ apic'[d] = apic[d],
         StartTypeOK',
         online' = online \cup {d \in {c} : l \notin {"entry", "apStart"}},
         c \in online' => Itself(c)',
         l = "apStart" => sp'[c] = slot,
         l \in {"calibrate", "vtxInit", "on", "out"} => apic'[c] \in {"xapic", "x2apic"},
         numCpusOnline' = numCpusOnline + IF l = "out" THEN 1 ELSE 0
  PROVE  StartInv'
  <1> USE Cores DEF Cpu
  <1>0. /\ BootInv /\ c \in Target /\ pc[Sender] \in {"sipi2", "awaitOnline"}
        /\ slot \in DOMAIN cpuTable
    BY WorkingIsTarget DEF StartInv, BootInv, SlotAt, Starting
  <1>1. /\ pc'[c] = l /\ \A d \in Cpu \ {c} : pc'[d] = pc[d]
        /\ pc' \in [Cpu -> Labels]
    <2>1. l \in Labels
      BY DEF Working, Labels, Booting
    <2> QED BY <1>0, <2>1 DEF BootInv
  <1>2. /\ Done' = Done /\ Target' = Target /\ Target \cap Done = {}
        /\ \A s : Skipped(s)' <=> Skipped(s)
        /\ \A d : Id(d)' = Id(d)
    BY <1>0, SameTable, OneTarget DEF StartInv
  <1>3. Quiet'
    BY <1>0 DEF BootInv, Quiet, quietVars
  <1>4. OthersAt'
    BY <1>0, <1>1, <1>2 DEF BootInv, OthersAt, Working
  <1>5. CoresAt'
    <2>1. Sender \in online' /\ pc'[Sender] = pc[Sender] /\ apic'[Sender] = apic[Sender]
      BY <1>0, <1>1 DEF BootInv, CoresAt
    <2>2. c \in online <=> pc[c] \notin {"entry", "apStart"}
      BY <1>0 DEF BootInv, CoresAt, Working
    <2>3. c \in online' <=> l \notin {"off", "waitSipi", "entry", "apStart"}
      BY <2>2 DEF Working
    <2>4. \A d \in Cpu \ {c} : d \in online' <=> d \in online
      OBVIOUS
    <2> QED BY <1>0, <1>1, <2>1, <2>3, <2>4 DEF BootInv, CoresAt
  <1>6. SlotAt'
    BY <1>0, <1>1, <1>2 DEF BootInv, SlotAt, Starting
  <1>7. Counted'
    <2>1. wokenCount' = Cardinality(Done') + IF pc'[Sender] = "awaitOnline" THEN 1 ELSE 0
      BY <1>0, <1>1, <1>2 DEF BootInv, Counted
    <2>2. CASE l = "out"
      <3>1. Reported' = Reported \cup {c} /\ c \notin Reported
        BY <1>1, <2>2 DEF Reported, Working
      <3>2. Cardinality(Reported \cup {c}) = Cardinality(Reported) + 1
        BY <3>1, CountsAreNumbers, FS_AddElement
      <3> QED BY <1>0, <2>1, <2>2, <3>1, <3>2 DEF BootInv, Counted
    <2>3. CASE l # "out"
      <3>1. Reported' = Reported
        BY <1>1, <2>3 DEF Reported, Working
      <3> QED BY <1>0, <2>1, <2>3, <3>1, CountsAreNumbers DEF BootInv, Counted
    <2> QED BY <2>2, <2>3
  <1>8. \A d \in online' : Itself(d)'
    <2> SUFFICES ASSUME NEW d \in online', d # c PROVE Itself(d)'
      OBVIOUS
    <2>1. d \in online /\ d \in Cpu
      BY DEF StartInv, StartTypeOK
    <2> QED BY <1>2, <2>1 DEF StartInv, Itself
  <1>9. pc'[Sender] \in Booting
    BY <1>0, <1>1
  <1> QED BY <1>1, <1>3, <1>4, <1>5, <1>6, <1>7, <1>8, <1>9 DEF StartInv, BootInv

\* The core takes the stack that was left for it.
LEMMA LoadRspInv ==
  ASSUME StartInv, pc[Sender] \in Booting, NEW c \in Other, LoadRsp(c) PROVE StartInv'
  <1> USE Cores DEF Cpu
  <1>0. /\ BootInv /\ pc[c] = "entry" /\ c \notin online
        /\ pc[Sender] \in {"sipi2", "awaitOnline"} /\ apRsp = slot
    BY WorkingIsTarget DEF LoadRsp, StartInv, BootInv, SlotAt, CoresAt, Starting, Working
  <1>1. /\ sp'[c] = slot /\ \A d \in Cpu \ {c} : sp'[d] = sp[d]
        /\ sp' \in [Cpu -> Nat]
    BY <1>0 DEF LoadRsp, StartInv, StartTypeOK
  <1>2. StartTypeOK'
    BY <1>1 DEF LoadRsp, StartInv, StartTypeOK, vtxVars
  <1>3. /\ pc' = [pc EXCEPT ![c] = "apStart"]
        /\ UNCHANGED <<machine, cpuTable, slot, apRsp, wokenCount, quietVars, me, topology, apic,
                       numCpusOnline, online>>
    BY DEF LoadRsp, Goto
  <1>4. /\ online' = online \cup {d \in {c} : "apStart" \notin {"entry", "apStart"}}
        /\ numCpusOnline' = numCpusOnline + IF "apStart" = "out" THEN 1 ELSE 0
    BY <1>3 DEF StartInv, StartTypeOK
  <1>5. pc[c] \in Working /\ "apStart" \in Working \cup {"out", "panic"}
    BY <1>0 DEF Working
  <1> QED BY <1>0, <1>1, <1>2, <1>3, <1>4, <1>5, CoreStep

\* The core finds its own structure, the one whose stack it is on.
LEMMA IdentifyInv ==
  ASSUME StartInv, pc[Sender] \in Booting, NEW c \in Other, Identify(c) PROVE StartInv'
  <1> USE Cores DEF Cpu
  <1>0. /\ BootInv /\ StartTypeOK /\ pc[c] = "apStart" /\ sp[c] = slot
        /\ slot \in DOMAIN cpuTable /\ cpuTable[slot].apicId = Id(c)
    BY WorkingIsTarget DEF Identify, StartInv, BootInv, SlotAt, CoresAt, Starting, Working,
                           Target, Id
  <1>1. me' = [me EXCEPT ![c] = slot]
    <2> DEFINE I == {i \in 1..Len(cpuTable) : cpuTable[i].apicId = LapicId(c)}
    <2>1. I = {slot}
      BY <1>0, SaysItsId DEF StartTypeOK
    <2>2. Min({slot}) = slot
      BY <1>0 DEF Min, StartTypeOK
    <2>3. SelectInSeq(cpuTable, LAMBDA e : e.apicId = LapicId(c)) = slot
      BY <2>1, <2>2 DEF SelectInSeq
    <2> QED BY <2>3 DEF Identify
  <1>2. /\ me'[c] = slot /\ \A d \in Cpu \ {c} : me'[d] = me[d]
        /\ me' \in [Cpu -> Nat]
    BY <1>0, <1>1 DEF StartTypeOK
  <1>3. /\ topology'[c] = ThisTopology(machine.cpuid[c])
        /\ \A d \in Cpu \ {c} : topology'[d] = topology[d]
        /\ topology' \in [Cpu -> {Nowhere} \cup {ThisTopology(machine.cpuid[d]) : d \in Cpu}]
    BY <1>0 DEF Identify, StartTypeOK
  <1>4. StartTypeOK'
    BY <1>0, <1>2, <1>3 DEF Identify, StartTypeOK, vtxVars
  <1>5. Itself(c)'
    BY <1>0, <1>2, <1>3 DEF Identify, Itself, Id
  <1>6. /\ pc' = [pc EXCEPT ![c] = "apicSync"] /\ online' = online \cup {c}
        /\ UNCHANGED <<machine, cpuTable, slot, apRsp, sp, wokenCount, quietVars, apic,
                       numCpusOnline>>
    BY DEF Identify, Goto
  <1>7. /\ online' = online \cup {d \in {c} : "apicSync" \notin {"entry", "apStart"}}
        /\ numCpusOnline' = numCpusOnline + IF "apicSync" = "out" THEN 1 ELSE 0
    BY <1>0, <1>6 DEF StartTypeOK
  <1>8. pc[c] \in Working /\ "apicSync" \in Working \cup {"out", "panic"}
    BY <1>0 DEF Working
  <1> QED BY <1>0, <1>2, <1>3, <1>4, <1>5, <1>6, <1>7, <1>8, CoreStep

\* A step after which the core still is who it is, but for its local APIC and
\* what it knows of VT-x.
LEMMA CoreGoes ==
  ASSUME StartInv, pc[Sender] \in Booting, NEW c \in Other,
         pc[c] \in Working \ {"entry", "apStart"},
         NEW l \in (Working \cup {"out", "panic"}) \ {"entry", "apStart"},
         pc' = [pc EXCEPT ![c] = l],
         UNCHANGED <<machine, cpuTable, slot, apRsp, sp, me, topology, wokenCount, online,
                     quietVars>>,
         \A d \in Cpu \ {c} : apic'[d] = apic[d],
         apic' \in [Cpu -> {"reset", "disabled", "xapic", "x2apic"}],
         l \in {"calibrate", "vtxInit", "on", "out"} => apic'[c] \in {"xapic", "x2apic"},
         vcpuCapable' \subseteq vcpuCapable \cup {c},
         numCpusOnline' = numCpusOnline + IF l = "out" THEN 1 ELSE 0
  PROVE  StartInv'
  <1> USE Cores DEF Cpu
  <1>0. BootInv /\ StartTypeOK /\ c \in online
    BY DEF StartInv, BootInv, CoresAt, Working
  <1>1. StartTypeOK'
    BY <1>0 DEF StartTypeOK
  <1>2. Itself(c)'
    BY <1>0 DEF StartInv, Itself, Id
  <1> QED BY <1>0, <1>1, <1>2, CoreStep DEF Working

\* An interrupt controller that does not fit stops the core.
LEMMA ApApicSyncInv ==
  ASSUME StartInv, pc[Sender] \in Booting, NEW c \in Other, ApApicSync(c) PROVE StartInv'
  <1> USE Cores DEF Cpu
  <1>0. pc[c] = "apicSync" /\ StartTypeOK
    BY DEF ApApicSync, StartInv
  <1>1. /\ apic' \in [Cpu -> {"reset", "disabled", "xapic", "x2apic"}]
        /\ \A d \in Cpu \ {c} : apic'[d] = apic[d]
    BY <1>0 DEF ApApicSync, StartTypeOK
  <1>2. PICK l \in {"panic", "cpuInit"} : pc' = [pc EXCEPT ![c] = l]
    BY DEF ApApicSync, Goto
  <1>3. UNCHANGED <<machine, cpuTable, slot, apRsp, sp, me, topology, wokenCount, online,
                    quietVars, numCpusOnline, vcpuCapable>>
    BY DEF ApApicSync, vtxVars
  <1>4. /\ numCpusOnline' = numCpusOnline + IF l = "out" THEN 1 ELSE 0
        /\ vcpuCapable' \subseteq vcpuCapable \cup {c}
    BY <1>0, <1>3 DEF StartTypeOK
  <1>5. /\ pc[c] \in Working \ {"entry", "apStart"}
        /\ l \in (Working \cup {"out", "panic"}) \ {"entry", "apStart"}
        /\ l \notin {"calibrate", "vtxInit", "on", "out"}
    BY <1>0 DEF Working
  <1> QED BY <1>1, <1>2, <1>3, <1>4, <1>5, CoreGoes

\* The core turns its local APIC on.
LEMMA CpuInitInv ==
  ASSUME StartInv, pc[Sender] \in Booting, NEW c \in Other, CpuInit(c) PROVE StartInv'
  <1> USE Cores DEF Cpu
  <1>0. pc[c] = "cpuInit" /\ StartTypeOK
    BY DEF CpuInit, StartInv
  <1>1. /\ apic' \in [Cpu -> {"reset", "disabled", "xapic", "x2apic"}]
        /\ \A d \in Cpu \ {c} : apic'[d] = apic[d]
        /\ apic'[c] \in {"xapic", "x2apic"}
    BY <1>0 DEF CpuInit, StartTypeOK
  <1>3. /\ pc' = [pc EXCEPT ![c] = "calibrate"]
        /\ UNCHANGED <<machine, cpuTable, slot, apRsp, sp, me, topology, wokenCount, online,
                       quietVars, numCpusOnline, vcpuCapable>>
    BY DEF CpuInit, Goto, vtxVars
  <1>4. /\ numCpusOnline' = numCpusOnline + IF "calibrate" = "out" THEN 1 ELSE 0
        /\ vcpuCapable' \subseteq vcpuCapable \cup {c}
    BY <1>0, <1>3 DEF StartTypeOK
  <1>5. /\ pc[c] \in Working \ {"entry", "apStart"}
        /\ "calibrate" \in (Working \cup {"out", "panic"}) \ {"entry", "apStart"}
    BY <1>0 DEF Working
  <1> QED BY <1>1, <1>3, <1>4, <1>5, CoreGoes

\* The local APIC of a core that calibrates it is on.
LEMMA CalibrateInv ==
  ASSUME StartInv, pc[Sender] \in Booting, NEW c \in Other, Calibrate(c) PROVE StartInv'
  <1> USE Cores DEF Cpu
  <1>0. pc[c] = "calibrate" /\ StartTypeOK /\ apic[c] \in {"xapic", "x2apic"}
    BY DEF Calibrate, StartInv, BootInv, CoresAt
  <1>2. apic' = apic /\ apic' \in [Cpu -> {"reset", "disabled", "xapic", "x2apic"}]
    BY <1>0 DEF Calibrate, startVars, StartTypeOK
  <1>3. /\ pc' = [pc EXCEPT ![c] = "vtxInit"]
        /\ UNCHANGED <<machine, cpuTable, slot, apRsp, sp, me, topology, wokenCount, online,
                       quietVars, numCpusOnline, vcpuCapable>>
    BY DEF Calibrate, Goto, startVars, vtxVars
  <1>4. /\ numCpusOnline' = numCpusOnline + IF "vtxInit" = "out" THEN 1 ELSE 0
        /\ vcpuCapable' \subseteq vcpuCapable \cup {c}
    BY <1>0, <1>3 DEF StartTypeOK
  <1>5. /\ pc[c] \in Working \ {"entry", "apStart"}
        /\ "vtxInit" \in (Working \cup {"out", "panic"}) \ {"entry", "apStart"}
    BY <1>0 DEF Working
  <1> QED BY <1>0, <1>2, <1>3, <1>4, <1>5, CoreGoes

\* A core says of itself only whether it can run virtual machines.
LEMMA CpuVtxInitInv ==
  ASSUME StartInv, pc[Sender] \in Booting, NEW c \in Other, CpuVtxInit(c) PROVE StartInv'
  <1> USE Cores DEF Cpu
  <1>0. pc[c] = "vtxInit" /\ StartTypeOK /\ apic[c] \in {"xapic", "x2apic"}
    BY DEF CpuVtxInit, StartInv, BootInv, CoresAt
  <1>1. vcpuCapable' \subseteq vcpuCapable \cup {c}
    BY DEF CpuVtxInit
  <1>2. apic' = apic /\ apic' \in [Cpu -> {"reset", "disabled", "xapic", "x2apic"}]
    BY <1>0 DEF CpuVtxInit, startVars, StartTypeOK
  <1>3. /\ pc' = [pc EXCEPT ![c] = "on"]
        /\ UNCHANGED <<machine, cpuTable, slot, apRsp, sp, me, topology, wokenCount, online,
                       quietVars, numCpusOnline>>
    BY DEF CpuVtxInit, Goto
  <1>4. /\ numCpusOnline' = numCpusOnline + IF "on" = "out" THEN 1 ELSE 0
        /\ vcpuCapable' \subseteq vcpuCapable \cup {c}
    BY <1>0, <1>1, <1>3 DEF StartTypeOK
  <1>5. /\ pc[c] \in Working \ {"entry", "apStart"}
        /\ "on" \in (Working \cup {"out", "panic"}) \ {"entry", "apStart"}
    BY <1>0 DEF Working
  <1> QED BY <1>0, <1>2, <1>3, <1>4, <1>5, CoreGoes

\* The counter counts the report.
LEMMA ReportInv ==
  ASSUME StartInv, pc[Sender] \in Booting, NEW c \in Other, Report(c) PROVE StartInv'
  <1> USE Cores DEF Cpu
  <1>0. pc[c] = "on" /\ StartTypeOK /\ apic[c] \in {"xapic", "x2apic"}
    BY DEF Report, StartInv, BootInv, CoresAt
  <1>1. StartTypeOK'
    BY <1>0 DEF Report, StartTypeOK, vtxVars
  <1> QED BY <1>0, <1>1, CoreGoes DEF Report, Goto, vtxVars, Working, StartTypeOK

-----------------------------------------------------------------------------
(* The boot processor, up to the first rendezvous.                         *)

\* A step of the boot processor of which the other cores see nothing, at the
\* same slot.
LEMMA BspStep ==
  ASSUME StartInv, pc[Sender] \in Booting \ Starting, NEW l \in Booting \ Starting,
         pc' = [pc EXCEPT ![Sender] = l],
         UNCHANGED <<machine, cpuTable, slot, sp, me, topology, wokenCount, numCpusOnline,
                     online, quietVars>>,
         l \notin {"madt", "panic"} => Sender \in online,
         l \in {"madt", "apicConfig", "panic"} => slot = 1,
         l \in {"cpuInit", "calibrate", "vtxInit", "on"} => slot > Len(cpuTable),
         l \in {"calibrate", "vtxInit", "on"} => apic'[Sender] \in {"xapic", "x2apic"},
         \A c \in Other : apic'[c] = apic[c],
         apic' \in [Cpu -> {"reset", "disabled", "xapic", "x2apic"}],
         apRsp' \in Nat, vcpuCapable' \subseteq vcpuCapable \cup {c \in {Sender} : c \in online}
  PROVE  StartInv'
  <1> USE Cores DEF Cpu
  <1>0. BootInv /\ StartTypeOK
    BY DEF StartInv
  <1>1. /\ pc'[Sender] = l /\ \A c \in Other : pc'[c] = pc[c]
        /\ pc' \in [Cpu -> Labels]
    BY <1>0 DEF BootInv, Labels
  <1>2. /\ Done' = Done
        /\ \A s : Skipped(s)' <=> Skipped(s)
        /\ \A d : Id(d)' = Id(d)
    BY SameTable
  <1>3. Quiet'
    BY <1>0 DEF BootInv, Quiet, quietVars
  <1>4. OthersAt'
    BY <1>0, <1>1, <1>2 DEF BootInv, OthersAt, Starting
  <1>5. CoresAt'
    BY <1>0, <1>1 DEF BootInv, CoresAt, Labels, Booting
  <1>6. SlotAt'
    BY <1>1, <1>2 DEF SlotAt
  <1>7. Counted'
    <2>1. Reported' = Reported
      BY <1>1 DEF Reported
    <2> QED BY <1>0, <1>1, <1>2, <2>1 DEF BootInv, Counted, Starting
  <1>8. StartTypeOK'
    BY <1>0 DEF StartTypeOK
  <1>9. \A c \in online' : Itself(c)'
    BY <1>2 DEF StartInv, Itself
  <1> QED BY <1>1, <1>3, <1>4, <1>5, <1>6, <1>7, <1>8, <1>9 DEF StartInv, BootInv

\* The boot processor finds itself in the table, or the boot ends here.
LEMMA MadtParserInv == ASSUME StartInv, MadtParser PROVE StartInv'
  <1> USE Cores DEF Cpu
  <1>0. /\ pc[Sender] = "madt" /\ pc[Sender] \in Booting \ Starting
        /\ BootInv /\ StartTypeOK /\ slot = 1
    BY DEF MadtParser, StartInv, BootInv, SlotAt, Booting, Starting
  <1> DEFINE table == Processors(Entries(machine.madt))
             mine == {i \in DOMAIN table : table[i].id = LapicId(Sender)}
             fits == Len(table) <= MaxCpus /\ Len(Ioapics(Entries(machine.madt))) <= MaxIoapics
  <1>1. CASE ~(fits /\ mine # {})
    <2>1. /\ pc' = [pc EXCEPT ![Sender] = "panic"]
          /\ UNCHANGED <<machine, cpuTable, slot, sp, me, topology, wokenCount, numCpusOnline,
                         online, quietVars, apic, apRsp, vcpuCapable>>
      BY <1>1 DEF MadtParser, Goto, vtxVars
    <2>2. "panic" \in Booting \ Starting
      BY DEF Booting, Starting
    <2> QED BY <1>0, <2>1, <2>2, BspStep DEF StartTypeOK
  <1>2. CASE fits /\ mine # {}
    <2>1. /\ cpuTable' = [i \in DOMAIN table |-> [apicId |-> table[i].id, enabled |-> table[i].enabled]]
          /\ me' = [me EXCEPT ![Sender] = Max(mine)]
          /\ topology' = [topology EXCEPT ![Sender] = ThisTopology(machine.cpuid[Sender])]
          /\ online' = {Sender}
          /\ pc' = [pc EXCEPT ![Sender] = "apicConfig"]
      BY <1>2 DEF MadtParser, Goto
    <2>2. UNCHANGED <<machine, apic, slot, apRsp, sp, wokenCount, numCpusOnline, quietVars, vtxVars>>
      BY DEF MadtParser
    <2>3. /\ table \in Seq([type : STRING, id : Nat, enabled : BOOLEAN])
          /\ \A i, j \in DOMAIN table : table[i].id = table[j].id => i = j
      BY <1>0, MachinesAssumption DEF StartTypeOK
    <2>4. /\ cpuTable' \in Seq([apicId : Nat, enabled : BOOLEAN])
          /\ DOMAIN cpuTable' = DOMAIN table /\ DOMAIN table = 1..Len(table) /\ Len(table) \in Nat
          /\ \A i \in DOMAIN table : cpuTable'[i].apicId = table[i].id
      <3>1. DOMAIN table = 1..Len(table) /\ Len(table) \in Nat
        BY <2>3
      <3>2. \A i \in DOMAIN table : table[i].id \in Nat /\ table[i].enabled \in BOOLEAN
        <4> SUFFICES ASSUME NEW i \in DOMAIN table
                     PROVE  table[i].id \in Nat /\ table[i].enabled \in BOOLEAN
          OBVIOUS
        <4> DEFINE Entry == [type : STRING, id : Nat, enabled : BOOLEAN]
        <4>1. table \in Seq(Entry)
          BY <2>3
        <4>2. table[i] \in Entry
          <5> HIDE DEF Entry, table
          <5> QED BY <4>1, ElementOfSeq
        <4> QED BY <4>2
      <3> QED BY <2>1, <3>1, <3>2
    <2>5. PICK s \in DOMAIN table : table[s].id = LapicId(Sender) /\ mine = {s}
      BY <1>2, <2>3
    <2>6. Max({s}) = s
      BY <2>4, <2>5 DEF Max
    <2>7. me'[Sender] = s /\ me' \in [Cpu -> Nat]
      <3>1. Max(mine) = s /\ s \in Nat
        <4>1. s \in Nat
          BY <2>4, <2>5
        <4>2. Max(mine) = Max({s})
          <5> HIDE DEF mine
          <5> QED BY <2>5
        <4> QED BY <2>6, <4>1, <4>2
      <3>2. me' = [me EXCEPT ![Sender] = s]
        BY <2>1, <3>1
      <3> QED BY <1>0, <3>1, <3>2 DEF StartTypeOK
    <2>8. /\ pc'[Sender] = "apicConfig" /\ \A c \in Other : pc'[c] = pc[c]
          /\ pc' \in [Cpu -> Labels]
      BY <1>0, <2>1 DEF BootInv, Labels, Booting
    <2>9. /\ Done = {} /\ Done' = {} /\ Reported' = Reported
          /\ \A c \in Other : pc[c] = "off" /\ c \notin online
      <3>1. Done = {} /\ Done' = {}
        BY <1>0, <2>2, <2>4 DEF Done, StartTypeOK
      <3>2. \A c \in Other : pc[c] = "off"
        BY <1>0, <3>1 DEF BootInv, OthersAt
      <3> QED BY <1>0, <2>8, <3>1, <3>2 DEF BootInv, CoresAt, Reported
    <2>10. StartTypeOK'
      <3>1. \A i, j \in DOMAIN cpuTable' : cpuTable'[i].apicId = cpuTable'[j].apicId => i = j
        BY <2>3, <2>4
      <3>2. topology' \in [Cpu -> {Nowhere} \cup {ThisTopology(machine.cpuid[c]) : c \in Cpu}]
        BY <1>0, <2>1 DEF StartTypeOK
      <3>3. vcpuCapable' \subseteq online'
        BY <1>0, <2>1, <2>2, <2>9 DEF StartTypeOK, vtxVars
      <3>4. cpuTable' \in Seq([apicId : Nat, enabled : BOOLEAN]) /\ UNCHANGED machine
        BY <1>0, <2>2, <2>4, <2>7
      <3>5. /\ apic' \in [Cpu -> {"reset", "disabled", "xapic", "x2apic"}]
            /\ slot' \in Nat \ {0} /\ apRsp' \in Nat
            /\ sp' \in [Cpu -> Nat] /\ me' \in [Cpu -> Nat]
        BY <1>0, <2>1, <2>2, <2>4, <2>7 DEF StartTypeOK
      <3>6. wokenCount' \in Nat /\ numCpusOnline' \in Nat /\ online' \subseteq Cpu
        BY <1>0, <2>1, <2>2 DEF StartTypeOK
      <3>7. /\ machine' \in Machines
            /\ topology' \in [Cpu -> {Nowhere} \cup {ThisTopology(machine'.cpuid[c]) : c \in Cpu}]
        BY <1>0, <3>2, <3>4 DEF StartTypeOK
      <3> QED BY <3>1, <3>3, <3>4, <3>5, <3>6, <3>7 DEF StartTypeOK
    <2>11. \A c \in online' : Itself(c)'
      <3>1. topology'[Sender] = ThisTopology(machine.cpuid[Sender])
        BY <1>0, <2>1 DEF StartTypeOK
      <3>2. table[s].id = Id(Sender)
        BY <1>0, <2>5, SaysItsId DEF StartTypeOK
      <3> QED BY <2>1, <2>2, <2>4, <2>5, <2>7, <3>1, <3>2 DEF Itself, Id
    <2>12. Quiet'
      BY <1>0, <2>2 DEF BootInv, Quiet, quietVars
    <2>13. OthersAt' /\ SlotAt' /\ Counted'
      BY <1>0, <2>2, <2>8, <2>9 DEF BootInv, OthersAt, SlotAt, Counted, Starting
    <2>14. CoresAt'
      BY <2>1, <2>8, <2>9 DEF CoresAt
    <2>15. pc'[Sender] \in Booting
      BY <2>8 DEF Booting
    <2> QED BY <2>8, <2>10, <2>11, <2>12, <2>13, <2>14, <2>15 DEF StartInv, BootInv
  <1> QED BY <1>1, <1>2

\* An unusable interrupt controller ends the boot.
LEMMA ApicConfigInv == ASSUME StartInv, ApicConfig PROVE StartInv'
  <1> USE Cores DEF Cpu
  <1>0. /\ pc[Sender] = "apicConfig" /\ StartTypeOK /\ Sender \in online /\ slot = 1
        /\ pc[Sender] \in Booting \ Starting
    BY DEF ApicConfig, StartInv, BootInv, CoresAt, SlotAt, Booting, Starting
  <1>1. PICK l \in {"panic", "wakeup"} : pc' = [pc EXCEPT ![Sender] = l]
    BY DEF ApicConfig, Goto
  <1>2. /\ apic' \in [Cpu -> {"reset", "disabled", "xapic", "x2apic"}]
        /\ \A c \in Other : apic'[c] = apic[c]
    BY <1>0 DEF ApicConfig, StartTypeOK
  <1>3. UNCHANGED <<machine, cpuTable, slot, sp, me, topology, wokenCount, numCpusOnline,
                    online, quietVars, apRsp, vcpuCapable>>
    BY DEF ApicConfig, vtxVars
  <1>4. l \in Booting \ Starting /\ l \notin {"cpuInit", "calibrate", "vtxInit", "on"}
    BY DEF Booting, Starting
  <1>5. apRsp' \in Nat /\ vcpuCapable' \subseteq vcpuCapable
    BY <1>0, <1>3 DEF StartTypeOK
  <1> QED BY <1>0, <1>1, <1>2, <1>3, <1>4, <1>5, BspStep

\* The boot processor is set up as every core is.
LEMMA BspSetupInv ==
  ASSUME StartInv, CpuInit(Sender) \/ Calibrate(Sender) \/ CpuVtxInit(Sender) PROVE StartInv'
  <1> USE Cores DEF Cpu
  <1>0. /\ pc[Sender] \in {"cpuInit", "calibrate", "vtxInit"} /\ StartTypeOK
        /\ Sender \in online /\ slot > Len(cpuTable) /\ pc[Sender] \in Booting \ Starting
        /\ pc[Sender] # "cpuInit" => apic[Sender] \in {"xapic", "x2apic"}
    BY DEF CpuInit, Calibrate, CpuVtxInit, StartInv, BootInv, CoresAt, SlotAt, Booting, Starting
  <1>1. PICK l \in {"calibrate", "vtxInit", "on"} : pc' = [pc EXCEPT ![Sender] = l]
    BY DEF CpuInit, Calibrate, CpuVtxInit, Goto
  <1>2. /\ apic' \in [Cpu -> {"reset", "disabled", "xapic", "x2apic"}]
        /\ \A c \in Other : apic'[c] = apic[c]
        /\ apic'[Sender] \in {"xapic", "x2apic"}
    <2>1. CASE CpuInit(Sender)
      BY <1>0, <2>1 DEF CpuInit, StartTypeOK
    <2>2. CASE Calibrate(Sender) \/ CpuVtxInit(Sender)
      BY <1>0, <2>2 DEF Calibrate, CpuVtxInit, startVars, StartTypeOK
    <2> QED BY <2>1, <2>2
  <1>3. UNCHANGED <<machine, cpuTable, slot, sp, me, topology, wokenCount, numCpusOnline,
                    online, quietVars, apRsp>>
    BY DEF CpuInit, Calibrate, CpuVtxInit, startVars
  <1>4. vcpuCapable' \subseteq vcpuCapable \cup {c \in {Sender} : c \in online}
    BY <1>0 DEF CpuInit, Calibrate, CpuVtxInit, startVars, vtxVars
  <1>5. l \in Booting \ Starting /\ l \notin {"madt", "apicConfig", "panic"}
    BY DEF Booting, Starting
  <1>6. apRsp' \in Nat
    BY <1>0, <1>3 DEF StartTypeOK
  <1> QED BY <1>0, <1>1, <1>2, <1>3, <1>4, <1>5, <1>6, BspStep

\* A step of the boot processor that starts the next core or goes on from it.
LEMMA WakeupStep ==
  ASSUME StartInv, pc[Sender] \in Booting, NEW l \in Booting, Sender \in online,
         pc'[Sender] = l, pc' \in [Cpu -> Labels],
         UNCHANGED <<machine, cpuTable, apic, sp, me, topology, numCpusOnline, vcpuCapable,
                     online, quietVars>>,
         apRsp' \in Nat, slot' \in Nat \ {0}, wokenCount' \in Nat,
         l \notin {"calibrate", "vtxInit", "on", "out"},
         Reported' = Reported,
         wokenCount' = Cardinality(Done') + IF l = "awaitOnline" THEN 1 ELSE 0,
         \A c \in Other : pc'[c] = pc[c] \/ (c \notin online /\ pc'[c] \in {"waitSipi", "entry"}),
         \A c \in Other : pc'[c] = "apStart" => sp[c] = slot',
         OthersAt', SlotAt'
  PROVE  StartInv'
  <1> USE Cores DEF Cpu
  <1>0. BootInv /\ StartTypeOK
    BY DEF StartInv
  <1>1. Quiet'
    BY <1>0 DEF BootInv, Quiet, quietVars
  <1>2. CoresAt'
    <2>1. \A c \in Other : pc'[c] = pc[c] \/ (c \notin online /\ pc'[c] \in {"waitSipi", "entry"})
      OBVIOUS
    <2> QED BY <1>0, <2>1 DEF BootInv, CoresAt
  <1>3. Counted'
    BY <1>0 DEF BootInv, Counted
  <1>4. StartTypeOK'
    BY <1>0 DEF StartTypeOK
  <1>5. \A c \in online' : Itself(c)'
    BY DEF StartInv, Itself, Id
  <1> QED BY <1>1, <1>2, <1>3, <1>4, <1>5 DEF StartInv, BootInv

\* The slot goes on past processors that are not to be started.
LEMMA ApWakeupInv == ASSUME StartInv, ApWakeup PROVE StartInv'
  <1> USE Cores DEF Cpu
  <1>0. /\ pc[Sender] = "wakeup" /\ BootInv /\ StartTypeOK /\ Sender \in online
        /\ slot \in Nat /\ Len(cpuTable) \in Nat /\ DOMAIN cpuTable = 1..Len(cpuTable)
    BY DEF ApWakeup, StartInv, BootInv, CoresAt, Booting, StartTypeOK
  <1>1. /\ UNCHANGED <<machine, cpuTable, apic, sp, me, topology, numCpusOnline, vcpuCapable,
                       online, quietVars, wokenCount>>
        /\ \A s : Skipped(s)' <=> Skipped(s)
        /\ \A c : Id(c)' = Id(c)
    BY DEF ApWakeup, vtxVars, Skipped, Id
  <1>2. PICK l \in {"cpuInit", "wakeup", "init"} : pc' = [pc EXCEPT ![Sender] = l]
    <2>1. pc' = pc => pc' = [pc EXCEPT ![Sender] = "wakeup"]
      BY <1>0 DEF BootInv
    <2> QED BY <2>1 DEF ApWakeup, Goto
  <1>3. /\ pc'[Sender] = l /\ \A c \in Other : pc'[c] = pc[c]
        /\ pc' \in [Cpu -> Labels] /\ l \in Booting
    BY <1>0, <1>2 DEF BootInv, Labels, Booting
  <1>4. Done' = Done
    <2>1. CASE slot' = slot
      BY <1>1, <2>1, SameTable
    <2>2. CASE slot' # slot
      <3>1. slot' = slot + 1 /\ Skipped(slot)
        BY <2>2 DEF ApWakeup
      <3>2. \A s \in DOMAIN cpuTable : s < slot + 1 /\ ~Skipped(s) <=> s < slot /\ ~Skipped(s)
        BY <1>0, <3>1
      <3> QED BY <1>1, <3>1, <3>2 DEF Done
    <2> QED BY <2>1, <2>2
  <1>5. OthersAt'
    BY <1>0, <1>3, <1>4 DEF BootInv, OthersAt
  <1>6. \A c \in Other : pc'[c] \in {"out", "off"}
    BY <1>0, <1>3 DEF BootInv, OthersAt
  <1>7. SlotAt' /\ slot' \in Nat \ {0} /\ apRsp' \in Nat
    <2>0. slot # 0
      BY <1>0 DEF StartTypeOK
    <2>1. CASE slot > Len(cpuTable)
      BY <1>0, <1>1, <1>3, <2>1 DEF ApWakeup, Goto, SlotAt, Starting, StartTypeOK
    <2>2. CASE ~(slot > Len(cpuTable)) /\ Skipped(slot)
      BY <1>0, <1>1, <1>3, <2>2 DEF ApWakeup, Goto, SlotAt, Starting, StartTypeOK
    <2>3. CASE ~(slot > Len(cpuTable)) /\ ~Skipped(slot)
      BY <1>0, <1>1, <1>3, <2>0, <2>3 DEF ApWakeup, Goto, SlotAt, Starting, StartTypeOK
    <2> QED BY <2>1, <2>2, <2>3
  <1>8. Reported' = Reported
    BY <1>3 DEF Reported
  <1>9. wokenCount' = Cardinality(Done') + IF l = "awaitOnline" THEN 1 ELSE 0
    BY <1>0, <1>1, <1>4 DEF BootInv, Counted
  <1>10. pc[Sender] \in Booting /\ wokenCount' \in Nat
    BY <1>0, <1>1 DEF Booting, StartTypeOK
  <1>11. /\ \A c \in Other : pc'[c] = "apStart" => sp[c] = slot'
         /\ l \notin {"calibrate", "vtxInit", "on", "out"}
    BY <1>6
  <1> QED BY <1>0, <1>1, <1>3, <1>5, <1>7, <1>8, <1>9, <1>10, <1>11, WakeupStep

\* INIT puts the core, which was never started, in reset.
LEMMA SendInitInv == ASSUME StartInv, SendInit PROVE StartInv'
  <1> USE Cores DEF Cpu
  <1>0. /\ pc[Sender] = "init" /\ BootInv /\ StartTypeOK /\ Sender \in online
        /\ slot \in DOMAIN cpuTable /\ ~Skipped(slot) /\ apRsp = slot
    BY DEF SendInit, StartInv, BootInv, CoresAt, SlotAt, Booting, Starting
  <1>1. UNCHANGED <<machine, cpuTable, apic, sp, me, topology, numCpusOnline, vcpuCapable,
                    online, quietVars, slot, apRsp, wokenCount>>
    BY DEF SendInit, startVars, vtxVars
  <1>2. /\ Done' = Done /\ Target' = Target /\ Target \subseteq Other /\ Target \cap Done = {}
        /\ \A s : Skipped(s)' <=> Skipped(s)
    BY <1>0, <1>1, SameTable, OneTarget
  <1>3. /\ pc'[Sender] = "sipi1" /\ \A c \in Target : pc'[c] = "waitSipi"
        /\ \A c \in Other \ Target : pc'[c] = pc[c]
        /\ pc' \in [Cpu -> Labels]
    BY <1>0, <1>2 DEF SendInit, BootInv, Labels, Booting
  <1>4. \A c \in Other : pc[c] = IF c \in Done THEN "out" ELSE "off"
    BY <1>0 DEF BootInv, OthersAt
  <1>5. OthersAt' /\ SlotAt'
    BY <1>0, <1>1, <1>2, <1>3, <1>4 DEF OthersAt, SlotAt, Starting
  <1>6. /\ \A c \in Other : /\ pc'[c] = pc[c] \/ (c \notin online /\ pc'[c] \in {"waitSipi", "entry"})
                            /\ pc'[c] # "apStart"
        /\ Reported' = Reported
    BY <1>0, <1>2, <1>3, <1>4 DEF BootInv, CoresAt, Reported
  <1>7. wokenCount' = Cardinality(Done') + IF "sipi1" = "awaitOnline" THEN 1 ELSE 0
    BY <1>0, <1>1, <1>2 DEF BootInv, Counted
  <1>8. /\ pc[Sender] \in Booting /\ "sipi1" \in Booting
        /\ apRsp' \in Nat /\ slot' \in Nat \ {0} /\ wokenCount' \in Nat
    BY <1>0, <1>1 DEF Booting, StartTypeOK
  <1> QED BY <1>0, <1>1, <1>3, <1>5, <1>6, <1>7, <1>8, WakeupStep

\* The start-up IPIs start the core in reset and nothing else.
LEMMA SendSipiInv == ASSUME StartInv, SendSipi PROVE StartInv'
  <1> USE Cores DEF Cpu
  <1>0. /\ pc[Sender] \in {"sipi1", "sipi2"} /\ BootInv /\ StartTypeOK /\ Sender \in online
        /\ slot \in DOMAIN cpuTable /\ ~Skipped(slot) /\ apRsp = slot
    BY DEF SendSipi, StartInv, BootInv, CoresAt, SlotAt, Booting, Starting
  <1>1. UNCHANGED <<machine, cpuTable, apic, sp, me, topology, numCpusOnline, vcpuCapable,
                    online, quietVars, slot, apRsp>>
    BY DEF SendSipi, vtxVars
  <1>2. /\ Done' = Done /\ Target' = Target /\ Target \subseteq Other /\ Target \cap Done = {}
        /\ \A s : Skipped(s)' <=> Skipped(s)
    BY <1>0, <1>1, SameTable, OneTarget
  <1> DEFINE after == IF pc[Sender] = "sipi1" THEN "sipi2" ELSE "awaitOnline"
  <1>3. PICK starts \in SUBSET Target :
          /\ pc[Sender] = "sipi2" => starts = Target
          /\ pc' = [c \in Cpu |-> IF c = Sender THEN after
                                ELSE IF c \in starts /\ pc[c] = "waitSipi" THEN "entry" ELSE pc[c]]
    BY DEF SendSipi
  <1>4. /\ pc'[Sender] = after
        /\ \A c \in starts : pc'[c] = IF pc[c] = "waitSipi" THEN "entry" ELSE pc[c]
        /\ \A c \in Other \ starts : pc'[c] = pc[c]
    BY <1>2, <1>3
  <1>5. pc' \in [Cpu -> Labels]
    <2>1. \A c \in Cpu : pc[c] \in Labels
      BY <1>0 DEF BootInv
    <2>2. "entry" \in Labels /\ after \in Labels
      BY DEF Labels, Working, Booting
    <2> QED BY <1>3, <2>1, <2>2
  <1>6. \A c \in Other : pc[c] = "waitSipi" => c \notin online
    BY <1>0 DEF BootInv, CoresAt
  <1>7. /\ \A c \in Other : pc'[c] = pc[c] \/ (c \notin online /\ pc'[c] \in {"waitSipi", "entry"})
        /\ Reported' = Reported
    BY <1>3, <1>4, <1>6 DEF Reported
  <1>8. \A c \in Other : pc'[c] = "apStart" => sp[c] = slot'
    BY <1>0, <1>1, <1>4 DEF BootInv, CoresAt
  <1>9. OthersAt'
    <2>1. \A c \in Other \ Target : pc'[c] = IF c \in Done THEN "out" ELSE "off"
      BY <1>0, <1>3, <1>4 DEF BootInv, OthersAt
    <2>2. CASE pc[Sender] = "sipi1"
      <3>1. \A c \in Target : pc[c] = "waitSipi"
        BY <1>0, <2>2 DEF BootInv, OthersAt
      <3>2. \A c \in Target : pc'[c] \in {"waitSipi", "entry"}
        BY <1>2, <1>4, <3>1
      <3> QED BY <1>2, <1>4, <2>1, <2>2, <3>2 DEF OthersAt, Working
    <2>3. CASE pc[Sender] = "sipi2"
      <3>1. \A c \in Target : pc[c] \in Working \cup {"out", "panic"} \/ pc[c] = "waitSipi"
        BY <1>0, <2>3 DEF BootInv, OthersAt
      <3>2. \A c \in Target : pc'[c] \in Working \cup {"out", "panic"}
        BY <1>3, <1>4, <2>3, <3>1 DEF Working
      <3> QED BY <1>2, <1>4, <2>1, <2>3, <3>2 DEF OthersAt
    <2> QED BY <1>0, <2>2, <2>3
  <1>10. SlotAt'
    BY <1>0, <1>1, <1>2, <1>4 DEF SlotAt, Starting
  <1>11. wokenCount' = Cardinality(Done') + IF after = "awaitOnline" THEN 1 ELSE 0
    BY <1>0, <1>2, CountsAreNumbers DEF SendSipi, BootInv, Counted
  <1>12. /\ pc[Sender] \in Booting /\ after \in Booting
         /\ after \notin {"calibrate", "vtxInit", "on", "out"}
         /\ apRsp' \in Nat /\ slot' \in Nat \ {0} /\ wokenCount' \in Nat
    BY <1>0, <1>1 DEF SendSipi, Booting, StartTypeOK
  <1> HIDE DEF after
  <1> QED BY <1>0, <1>1, <1>4, <1>5, <1>7, <1>8, <1>9, <1>10, <1>11, <1>12, WakeupStep

\* The boot processor goes on when the core it started has reported, and that
\* core is the only one that could.
LEMMA AwaitOnlineInv == ASSUME StartInv, AwaitOnline PROVE StartInv'
  <1> USE Cores DEF Cpu
  <1>0. /\ pc[Sender] = "awaitOnline" /\ BootInv /\ StartTypeOK /\ Sender \in online
        /\ slot \in DOMAIN cpuTable /\ ~Skipped(slot) /\ apRsp = slot
        /\ numCpusOnline = wokenCount
    BY DEF AwaitOnline, StartInv, BootInv, CoresAt, SlotAt, Booting, Starting
  <1>1. UNCHANGED <<machine, cpuTable, apic, sp, me, topology, numCpusOnline, vcpuCapable,
                    online, quietVars, wokenCount, apRsp>> /\ slot' = slot + 1
    BY DEF AwaitOnline, vtxVars
  <1>2. /\ pc'[Sender] = "wakeup" /\ \A c \in Other : pc'[c] = pc[c]
        /\ pc' \in [Cpu -> Labels]
    BY <1>0 DEF AwaitOnline, Goto, BootInv, Labels, Booting
  <1>3. Target \subseteq Other /\ Target \cap Done = {} /\ \A c, d \in Target : c = d
    BY <1>0, OneTarget
  <1>4. Done' = Done \cup Target
    <2>1. /\ slot \in Nat /\ DOMAIN cpuTable \subseteq Nat
      BY <1>0 DEF StartTypeOK
    <2>2. \A s \in DOMAIN cpuTable : s < slot + 1 <=> s < slot \/ s = slot
      BY <2>1
    <2>3. \A s : Skipped(s)' <=> Skipped(s)
      BY <1>1 DEF Skipped
    <2>4. \A c \in Other : c \in Done' <=> c \in Done \/ c \in Target
      BY <1>0, <1>1, <2>2, <2>3 DEF Done, Target, Id
    <2> QED BY <1>3, <2>4 DEF Done
  <1>5. \E c \in Target : pc[c] = "out" /\ Cardinality(Done') = Cardinality(Done) + 1
    <2>1. Cardinality(Reported) = Cardinality(Done) + 1
      BY <1>0 DEF BootInv, Counted
    <2>2. Reported # Done
      BY <2>1, CountsAreNumbers
    <2>3. \A c \in Other \ Target : c \in Reported <=> c \in Done
      BY <1>0 DEF BootInv, OthersAt, Reported
    <2>4. PICK c \in Target : c \in Reported
      BY <1>3, <2>2, <2>3 DEF Reported, Done
    <2>5. Done' = Done \cup {c} /\ c \notin Done
      BY <1>3, <1>4, <2>4
    <2>6. Cardinality(Done \cup {c}) = Cardinality(Done) + 1
      BY <2>5, CountsAreNumbers, FS_AddElement
    <2> QED BY <2>4, <2>5, <2>6 DEF Reported
  <1>6. OthersAt'
    <2>1. \A c \in Other : pc'[c] = IF c \in Done' THEN "out" ELSE "off"
      BY <1>0, <1>2, <1>3, <1>4, <1>5 DEF BootInv, OthersAt
    <2> QED BY <1>2, <2>1 DEF OthersAt
  <1>7. SlotAt'
    BY <1>2 DEF SlotAt, Starting
  <1>8. Reported' = Reported /\ \A c \in Other : pc'[c] # "apStart"
    BY <1>2, <1>6 DEF Reported, OthersAt
  <1>9. wokenCount' = Cardinality(Done') + IF "wakeup" = "awaitOnline" THEN 1 ELSE 0
    BY <1>0, <1>1, <1>5, CountsAreNumbers DEF BootInv, Counted
  <1>10. /\ pc[Sender] \in Booting /\ "wakeup" \in Booting
         /\ apRsp' \in Nat /\ slot' \in Nat \ {0} /\ wokenCount' \in Nat
    BY <1>0, <1>1 DEF Booting, StartTypeOK
  <1> QED BY <1>0, <1>1, <1>2, <1>6, <1>7, <1>8, <1>9, <1>10, WakeupStep

\* The kernel finds the enabled cores online, set up and waiting.
LEMMA BspConfigInv == ASSUME StartInv, BspConfig PROVE StartInv'
  <1> USE Cores DEF Cpu
  <1>0. /\ pc[Sender] = "on" /\ BootInv /\ StartTypeOK /\ Sender \in online
        /\ slot > Len(cpuTable) /\ apic[Sender] \in {"xapic", "x2apic"}
    BY DEF BspConfig, StartInv, BootInv, CoresAt, SlotAt, Booting
  <1>1. /\ UNCHANGED <<machine, cpuTable, apic, sp, me, topology, vcpuCapable, eptAd, apRsp,
                       online, quietVars, wokenCount, slot>>
        /\ numCpusOnline' = numCpusOnline + 1 /\ pc' = [pc EXCEPT ![Sender] = "boot"]
    BY DEF BspConfig, Goto
  <1>2. \A c \in Other : pc[c] = IF c \in Done THEN "out" ELSE "off"
    BY <1>0 DEF BootInv, OthersAt
  <1>3. online = {Sender} \cup Done /\ Sender \notin Done
    <2>1. \A c \in Other : c \in online <=> c \in Done
      BY <1>0, <1>2 DEF BootInv, CoresAt
    <2> QED BY <1>0, <2>1 DEF Done, StartTypeOK
  <1>4. Waiting'
    <2>1. Quiet'
      BY <1>0, <1>1 DEF BootInv, Quiet, quietVars
    <2>2. pc' = [c \in Cpu |-> IF c = Sender THEN "boot" ELSE IF c \in online THEN "out" ELSE "off"]
      BY <1>0, <1>1, <1>2, <1>3 DEF BootInv
    <2> QED BY <1>0, <1>1, <2>1, <2>2 DEF Waiting, StartTypeOK
  <1>5. Inv'
    BY <1>4, WaitingInv, PTL
  <1>6. Booted'
    <2>1. online = Enabled
      <3>1. \A c \in Other : c \in Done <=> c \in Enabled
        <4> SUFFICES ASSUME NEW c \in Other PROVE c \in Done <=> c \in Enabled
          OBVIOUS
        <4>1. Id(c) # Id(Sender) /\ LapicId(c) = Id(c)
          BY <1>0, IdsDiffer, SaysItsId DEF StartTypeOK
        <4>2. cpuTable[me[Sender]].apicId = Id(Sender)
          BY <1>0 DEF StartInv, Itself
        <4>3. \A s \in DOMAIN cpuTable : s < slot
          BY <1>0 DEF StartTypeOK
        <4> QED BY <4>1, <4>2, <4>3 DEF Done, Enabled, Skipped
      <3> QED BY <1>3, <3>1 DEF Enabled, Done
    <2>2. Enabled' = Enabled
      BY <1>1 DEF Enabled, LapicId
    <2>3. numCpusOnline' = Cardinality(online)
      <3>1. Reported = Done
        BY <1>2 DEF Reported, Done
      <3>2. Cardinality(Done \cup {Sender}) = Cardinality(Done) + 1
        BY <1>3, CountsAreNumbers, FS_AddElement
      <3>3. online = Done \cup {Sender}
        BY <1>3
      <3> QED BY <1>0, <1>1, <3>1, <3>2, <3>3 DEF BootInv, Counted
    <2>4. \A c \in online : apic[c] # "disabled"
      BY <1>0, <1>2, <1>3 DEF BootInv, CoresAt, Done
    <2>5. allEptAd' => vcpuCapable' \subseteq eptAd'
      BY <1>0, <1>1 DEF BspConfig, GlobalVtxInit, StartTypeOK
    <2> QED BY <1>1, <2>1, <2>2, <2>3, <2>4, <2>5 DEF Booted
  <1>7. StartTypeOK'
    BY <1>0, <1>1 DEF StartTypeOK
  <1>8. \A c \in online' : Itself(c)'
    BY <1>1 DEF StartInv, Itself, Id
  <1>9. pc'[Sender] \notin Booting
    BY <1>0, <1>1 DEF BootInv, Booting
  <1> QED BY <1>5, <1>6, <1>7, <1>8, <1>9 DEF StartInv

-----------------------------------------------------------------------------
(* All steps.                                                              *)

\* Nothing of the rendezvous happens before the kernel starts.
LEMMA NoneInvited == ASSUME StartInv, pc[Sender] \in Booting PROVE ~Next
  <1> USE Cores DEF Cpu
  <1>1. BootInv
    BY DEF StartInv
  <1>2. \A c \in Other : pc[c] \notin {"invited", "call", "add", "tick"}
    BY <1>1 DEF BootInv, Labels, Booting, Working
  <1>3. \A c \in Cpu : ~irr[c] /\ ~armed[c]
    BY <1>1 DEF BootInv, Quiet
  <1> QED BY <1>2, <1>3 DEF Next, KStart, Publish, Send, RunOwn, Return, Timer, Event, ReadFn,
                            Call, Add, OwnTick, Booting

\* No core comes online with the kernel running.
LEMMA OnlineStays == Next => online' = online
  BY DEF Next, KStart, Publish, Send, RunOwn, Return, Timer, Event, ReadFn, Call, Add, OwnTick

\* Nothing of the boot happens once the kernel runs.
LEMMA NoneStarts ==
  ASSUME StartInv, pc[Sender] \notin Booting
  PROVE  ~BspStarts /\ \A c \in Cpu : ~CoreStarts(c)
  <1>1. \A c \in Cpu : pc[c] \notin Working /\ pc[c] \notin Booting
    BY DEF StartInv, Inv, TypeOK, Working, Booting
  <1>2. pc[Sender] \notin Booting
    OBVIOUS
  <1> QED BY <1>1, <1>2 DEF BspStarts, CoreStarts, MadtParser, ApicConfig, ApWakeup, SendInit, SendSipi,
                     AwaitOnline, BspConfig, LoadRsp, Identify, ApApicSync, CpuInit, Calibrate,
                     CpuVtxInit, Report, Booting, Working

\* Every step keeps the invariant.
LEMMA StartNextInv == StartInv /\ [StartNext]_<<vars, startVars>> => StartInv'
  <1> SUFFICES ASSUME StartInv, [StartNext]_<<vars, startVars>> PROVE StartInv'
    OBVIOUS
  <1>1. CASE UNCHANGED <<vars, startVars>> \/ (Next /\ UNCHANGED startVars)
    <2>1. UNCHANGED <<machine, cpuTable, x2apic, apic, slot, apRsp, sp, me, topology, wokenCount,
                      numCpusOnline, hpetOn, vcpuCapable, eptAd, allEptAd, online>>
      BY <1>1, OnlineStays DEF startVars, vtxVars, vars
    <2>2. /\ StartTypeOK' /\ \A c \in online' : Itself(c)'
          /\ Enabled' = Enabled
      BY <2>1 DEF StartInv, StartTypeOK, Itself, Id, Enabled, LapicId
    <2>3. CASE pc[Sender] \in Booting
      <3>1. UNCHANGED vars
        BY <1>1, <2>3, NoneInvited
      <3>2. UNCHANGED <<pc, calling, fn, rendezvous, sent, irr, armed, handoffDone, runs, desync>>
        BY <3>1 DEF vars
      <3>3. Done' = Done /\ Target' = Target /\ \A s : Skipped(s)' <=> Skipped(s)
        BY <2>1, SameTable
      <3>4. Reported' = Reported
        BY <3>2 DEF Reported
      <3>5. Quiet'
        BY <2>3, <3>2 DEF StartInv, BootInv, Quiet
      <3>6. OthersAt' /\ CoresAt' /\ SlotAt' /\ Counted'
        BY <2>1, <2>3, <3>2, <3>3, <3>4 DEF StartInv, BootInv, OthersAt, CoresAt, SlotAt, Counted
      <3> QED BY <2>2, <2>3, <3>2, <3>5, <3>6 DEF StartInv, BootInv
    <2>4. CASE pc[Sender] \notin Booting
      <3>1. Inv'
        BY <1>1, <2>4, NextInv DEF StartInv, vars
      <3>2. pc'[Sender] \notin Booting
        BY <3>1 DEF Inv, SenderAt, Booting
      <3>3. Booted'
        BY <2>1, <2>2, <2>4 DEF StartInv, Booted
      <3> QED BY <2>2, <3>1, <3>2, <3>3 DEF StartInv
    <2> QED BY <2>3, <2>4
  <1>2. CASE BspStarts
    BY <1>2, MadtParserInv, ApicConfigInv, ApWakeupInv, SendInitInv, SendSipiInv, AwaitOnlineInv,
       BspConfigInv DEF BspStarts
  <1>3. ASSUME NEW c \in Cpu, CoreStarts(c) PROVE StartInv'
    <2>1. pc[Sender] \in Booting
      BY <1>3, NoneStarts
    <2>2. CASE c \in Other
      BY <1>3, <2>1, <2>2, LoadRspInv, IdentifyInv, ApApicSyncInv, CpuInitInv, CalibrateInv,
         CpuVtxInitInv, ReportInv DEF CoreStarts
    <2>3. CASE c = Sender
      <3>1. CpuInit(Sender) \/ Calibrate(Sender) \/ CpuVtxInit(Sender)
        BY <1>3, <2>1, <2>3 DEF CoreStarts, LoadRsp, Identify, ApApicSync, Report, Booting
      <3> QED BY <3>1, BspSetupInv
    <2> QED BY <2>2, <2>3 DEF Cpu
  <1> QED BY <1>1, <1>2, <1>3 DEF StartNext

\* The invariant of a system that starts its cores and then runs.
THEOREM StartInvariance == StartSpec => []StartInv
  BY StartInitInv, StartNextInv, PTL DEF StartSpec

\* Before the first rendezvous nobody runs, is invited or has a tick.
LEMMA BootIsQuiet ==
  ASSUME StartInv, pc[Sender] \in Booting
  PROVE  EveryCoreRanOnce /\ RightRoutine /\ NoTickBeforeHandoff
  <1>1. \A c \in Cpu : pc[c] \notin {"invited", "call", "tick"}
    BY DEF StartInv, BootInv, Labels, Booting, Working
  <1> QED BY <1>1 DEF EveryCoreRanOnce, RightRoutine, NoTickBeforeHandoff, Booting, Cpu

\* A core that counts as online is itself: no two cores share a per-CPU
\* structure or a stack, and the kernel starts with
\* exactly the enabled cores, set up and waiting (ia32eApWakeup,
\* ia32eCpuApStart, ia32eBspConfig).
THEOREM StartsAllCores == StartSpec => []CoresStarted
  <1>1. StartInv => CoresStarted
    <2> SUFFICES ASSUME StartInv PROVE CoresStarted
      OBVIOUS
    <2> USE Cores DEF Cpu
    <2>1. machine \in Machines /\ online \subseteq Cpu
      BY DEF StartInv, StartTypeOK
    <2>2. \A c \in online : /\ cpuTable[me[c]].apicId = machine.cpuid[c].id
                            /\ c # Sender => sp[c] = me[c]
      BY DEF StartInv, Itself, Id
    <2>3. ASSUME NEW c \in online, NEW d \in online \ {c}
          PROVE  me[c] # me[d]
      <3>1. Id(c) # Id(d)
        BY <2>1, IdsDiffer
      <3> QED BY <2>2, <3>1 DEF Id
    <2>4. ASSUME pc[Sender] = "boot"
          PROVE  /\ online = Enabled /\ numCpusOnline = Cardinality(online)
                 /\ \A c \in online : pc[c] \in {"boot", "out"} /\ apic[c] # "disabled"
                 /\ allEptAd => vcpuCapable \subseteq eptAd
      <3>1. Inv /\ Booted
        BY <2>4 DEF StartInv, Booting
      <3>2. \A c \in Peers : pc[c] = "out"
        BY <2>4, <3>1, AllOut
      <3> QED BY <2>4, <3>1, <3>2 DEF Booted, Peers
    <2> QED BY <2>2, <2>3, <2>4 DEF CoresStarted
  <1> QED BY <1>1, StartInvariance, PTL

\* The thread, the core and the package that ia32eThisTopology reads tell apart
\* any two online cores whose CPUID differs in nothing but the id, whatever the
\* number and the size of their levels.
THEOREM PlacesTellCoresApart == StartSpec => []PlacesDiffer
  <1>1. StartInv => PlacesDiffer
    <2> SUFFICES ASSUME StartInv, NEW c \in online, NEW d \in online, c # d, Alike(c, d)
                 PROVE  topology[c] # topology[d]
      BY DEF PlacesDiffer
    <2>1. machine \in Machines /\ c \in Cpu /\ d \in Cpu
      BY DEF StartInv, StartTypeOK
    <2>2. /\ topology[c] = ThisTopology(machine.cpuid[c])
          /\ topology[d] = ThisTopology(machine.cpuid[d])
      BY DEF StartInv, Itself
    <2>3. Id(c) # Id(d)
      BY <2>1, IdsDiffer
    <2> QED BY <2>1, <2>2, <2>3, PlaceTellsId
  <1> QED BY <1>1, StartInvariance, PTL

\* With the cores that came online, whichever they are, the sender goes on
\* only when each has run the routine exactly once.
THEOREM OnlineRanOnce == StartSpec => []EveryCoreRanOnce
  <1>1. StartInv => EveryCoreRanOnce
    BY BootIsQuiet, InvRanOnce DEF StartInv
  <1> QED BY <1>1, StartInvariance, PTL

\* With the cores that came online, a core that was asked finds the routine
\* it was asked to run.
THEOREM OnlineReadsRight == StartSpec => []RightRoutine
  <1>1. StartInv => RightRoutine
    BY BootIsQuiet, InvReadsRight DEF StartInv
  <1> QED BY <1>1, StartInvariance, PTL

\* With the cores that came online, and those that did not, no core takes a
\* tick before it was handed off.
THEOREM OnlineTicksAfterHandoff == StartSpec => []NoTickBeforeHandoff
  <1>1. StartInv => NoTickBeforeHandoff
    BY BootIsQuiet, InvTicksAfterHandoff DEF StartInv
  <1> QED BY <1>1, StartInvariance, PTL
=============================================================================
