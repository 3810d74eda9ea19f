-------------------------------- MODULE Smp ---------------------------------
(***************************************************************************)
(* Bringing up the processors: smp_init and core_init (src/sys/smp.c) with *)
(* the parts of gdt.c, sched.c, lapic.c and pit.c they share between       *)
(* processors, up to sched_init on the boot processor.                     *)
(*                                                                         *)
(* All application processors run core_init at the same time (the line that*)
(* made the boot processor wait for each one is commented out).  Locks that*)
(* are held here are always released; the timeout of spinlock_acquire is   *)
(* left out.  What a processor does alone (MSRs, CR0, CR4, its stacks and  *)
(* its idle thread's fields) is part of the neighbouring step.             *)
(***************************************************************************)
EXTENDS Processors, Integers, FiniteSets

CONSTANT Reloads  \* TRUE: the build reads cpus_running in every round of the
                  \* loop that waits for it; FALSE: it keeps the first value
                  \* in a register, which C allows for a plain uint64_t

ASSUME SmpAssumption == /\ IsFiniteSet(Cpus) /\ Bsp \in Cpus
                        /\ NULL \notin Cpus /\ Reloads \in BOOLEAN

VARIABLES started,       \* processors that the loop of smp_init has passed
          pc,
          gdt_lock, tss, \* gdt[9]: whose TSS the shared descriptor names
          tr,            \* tr[c]: whose TSS the task register of c names
          queue, next, prev,   \* the ring of idle threads; c's is called c
          lapic_lock,
          pit,           \* who programmed the interval timer last
          cpus_running,
          reg,           \* cpus_running as a processor has loaded it
          timer,         \* the one-shot timer is armed
          isr            \* sched_vector is installed

tables == <<gdt_lock, tss, tr>>
ring == <<queue, next, prev>>
clock == <<lapic_lock, pit>>
count == <<cpus_running, reg>>
sched == <<timer, isr>>
vars == <<started, pc, tables, ring, clock, count, sched>>

\* The value a processor's variables have before anything wrote them.
Nobody == [c \in Cpus |-> NULL]

Init == /\ started = {}
        /\ pc = [c \in Cpus |-> IF c = Bsp THEN "loop" ELSE "off"]
        /\ gdt_lock = 0 /\ tss = NULL /\ tr = Nobody
        /\ queue = [start |-> NULL, end |-> NULL, lock |-> 0]
        /\ next = Nobody /\ prev = Nobody
        /\ lapic_lock = 0 /\ pit = NULL
        /\ cpus_running = 0 /\ reg = [c \in Cpus |-> 0]
        /\ timer = [c \in Cpus |-> FALSE] /\ isr = FALSE

Goto(c, from, to) == pc[c] = from /\ pc' = [pc EXCEPT ![c] = to]

-----------------------------------------------------------------------------
(* smp_init, on the boot processor *)

\* One round of the loop: an application processor is sent to core_init, or
\* core_init is called for the boot processor itself.
StartCore == /\ pc[Bsp] = "loop"
             /\ \E c \in Cpus \ started :
                  /\ started' = started \cup {c}
                  /\ pc' = [pc EXCEPT ![c] = "tss"]
             /\ UNCHANGED <<tables, ring, clock, count, sched>>

\* The loop is over; cpus_running is read for the first time.
Wait == /\ Goto(Bsp, "loop", "wait")
        /\ started = Cpus
        /\ reg' = [reg EXCEPT ![Bsp] = cpus_running]
        /\ UNCHANGED <<started, tables, ring, clock, cpus_running, sched>>

\* Fault: the loop does not look at the counter again.
WaitAgainForNothing == /\ pc[Bsp] = "wait"
                       /\ reg[Bsp] # Cardinality(Cpus) /\ Reloads
                       /\ UNCHANGED vars

WaitAgain == /\ pc[Bsp] = "wait"
             /\ reg[Bsp] # Cardinality(Cpus)
             /\ Reloads
             /\ reg' = [reg EXCEPT ![Bsp] = cpus_running]
             /\ UNCHANGED <<started, pc, tables, ring, clock, cpus_running, sched>>

\* Fault: the loop ends one processor early.
PitInitEarly == /\ Goto(Bsp, "wait", "sched_init")
                /\ reg[Bsp] >= Cardinality(Cpus) - 1
                /\ pit' = Bsp
                /\ UNCHANGED <<started, tables, ring, lapic_lock, count, sched>>

\* All processors are counted; _start goes on to pit_init.
PitInit == /\ Goto(Bsp, "wait", "sched_init")
           /\ reg[Bsp] = Cardinality(Cpus)
           /\ pit' = Bsp
           /\ UNCHANGED <<started, tables, ring, lapic_lock, count, sched>>

-----------------------------------------------------------------------------
(* core_init, on every processor *)

\* Fault: gdt_load_tss without its lock.
WriteTssUnlocked(c) == /\ Goto(c, "tss", "ltr")
                       /\ tss' = c
                       /\ UNCHANGED <<started, gdt_lock, tr, ring, clock, count, sched>>

\* gdt_load_tss: the one descriptor that all processors use, then ltr.
WriteTss(c) == /\ Goto(c, "tss", "ltr")
               /\ gdt_lock = 0
               /\ gdt_lock' = 1
               /\ tss' = c
               /\ UNCHANGED <<started, tr, ring, clock, count, sched>>

LoadTss(c) == /\ Goto(c, "ltr", "enqueue")
              /\ tr' = [tr EXCEPT ![c] = tss]
              /\ gdt_lock' = 0
              /\ UNCHANGED <<started, tss, ring, clock, count, sched>>

\* Fault: sched_enqueue_thread without its lock.
EnqueueUnlocked(c) ==
  LET end == IF NULL \in {queue.start, queue.end} THEN c ELSE queue.end
  IN /\ Goto(c, "enqueue", "link")
     /\ queue' = [queue EXCEPT !.start = IF end = c THEN c ELSE @, !.end = end]
     /\ prev' = [prev EXCEPT ![c] = end]
     /\ UNCHANGED <<started, tables, next, clock, count, sched>>

\* sched_enqueue_thread(idle_thread): the first one finds an empty queue.
EnqueueLock(c) ==
  LET end == IF NULL \in {queue.start, queue.end} THEN c ELSE queue.end
  IN /\ Goto(c, "enqueue", "link")
     /\ queue.lock = 0
     /\ queue' = [start |-> IF end = c THEN c ELSE queue.start,
                  end |-> end, lock |-> 1]
     /\ prev' = [prev EXCEPT ![c] = end]
     /\ UNCHANGED <<started, tables, next, clock, count, sched>>

EnqueueLink(c) ==
  /\ Goto(c, "link", "calibrate")
  /\ next' = [next EXCEPT ![queue.end] = c, ![c] = queue.start]
  /\ prev' = [prev EXCEPT ![queue.start] = c]
  /\ queue' = [queue EXCEPT !.end = c, !.lock = 0]
  /\ UNCHANGED <<started, tables, clock, count, sched>>

\* Fault: lapic_calibrate without its lock.
CalibrateUnlocked(c) == /\ Goto(c, "calibrate", "calibrate_last")
                        /\ pit' = c
                        /\ UNCHANGED <<started, tables, ring, lapic_lock, count, sched>>

\* lapic_calibrate: reprogram the interval timer and read it, let the local
\* APIC timer run down, read the interval timer again.
CalibrateFirst(c) == /\ Goto(c, "calibrate", "calibrate_last")
                     /\ lapic_lock = 0
                     /\ lapic_lock' = 1
                     /\ pit' = c
                     /\ UNCHANGED <<started, tables, ring, count, sched>>

CalibrateLast(c) == /\ Goto(c, "calibrate_last", "count")
                    /\ lapic_lock' = 0
                    /\ UNCHANGED <<started, tables, ring, pit, count, sched>>

\* cpus_running++ is a load and a store.
CountLoad(c) == /\ Goto(c, "count", "store")
                /\ reg' = [reg EXCEPT ![c] = cpus_running]
                /\ UNCHANGED <<started, tables, ring, clock, cpus_running, sched>>

\* Fault: the counter is counted down.
CountStoreDown(c) == /\ Goto(c, "store", IF c = Bsp THEN "loop" ELSE "await")
                     /\ cpus_running' = reg[c] - 1
                     /\ reg' = [reg EXCEPT ![c] = 0]
                     /\ UNCHANGED <<started, tables, ring, clock, sched>>

\* core_init returns on the boot processor and is over on the others.
CountStore(c) == /\ Goto(c, "store", IF c = Bsp THEN "loop" ELSE "await")
                 /\ cpus_running' = reg[c] + 1
                 /\ reg' = [reg EXCEPT ![c] = 0]
                 /\ UNCHANGED <<started, tables, ring, clock, sched>>

-----------------------------------------------------------------------------
\* sched_init installs sched_vector; the thread it makes is Sched's concern.
SchedInit == /\ Goto(Bsp, "sched_init", "await")
             /\ isr' = TRUE
             /\ UNCHANGED <<started, tables, ring, clock, count, timer>>

\* sched_await
Await(c) == /\ Goto(c, "await", "hlt")
            /\ timer' = [timer EXCEPT ![c] = TRUE]
            /\ UNCHANGED <<started, tables, ring, clock, count, isr>>

\* The timer fires.  sched_vector acknowledges it; isr_generic does not, and
\* the local APIC then holds back this vector for good.
Tick(c) == /\ Goto(c, "hlt", IF isr THEN "sched_vector" ELSE "unacknowledged")
           /\ timer[c]
           /\ timer' = [timer EXCEPT ![c] = FALSE]
           /\ UNCHANGED <<started, tables, ring, clock, count, isr>>

Core(c) == \/ WriteTss(c) \/ LoadTss(c) \/ EnqueueLock(c) \/ EnqueueLink(c)
           \/ CalibrateFirst(c) \/ CalibrateLast(c) \/ CountLoad(c)
           \/ CountStore(c) \/ Await(c) \/ Tick(c)

Boot == StartCore \/ Wait \/ WaitAgain \/ PitInit \/ SchedInit

Next == Boot \/ \E c \in Cpus : Core(c)

Spec == Init /\ [][Next]_vars

\* Every processor keeps executing.
FairSpec == Spec /\ WF_vars(Boot) /\ \A c \in Cpus : WF_vars(Core(c))

-----------------------------------------------------------------------------
Optional == Cpus \cup {NULL}

TypeOK ==
  /\ started \subseteq Cpus
  /\ pc \in [Cpus -> {"off", "loop", "wait", "tss", "ltr", "enqueue", "link",
                      "calibrate", "calibrate_last", "count", "store",
                      "sched_init", "await", "hlt", "sched_vector",
                      "unacknowledged"}]
  /\ gdt_lock \in {0, 1} /\ tss \in Optional /\ tr \in [Cpus -> Optional]
  /\ queue \in [start : Optional, end : Optional, lock : {0, 1}]
  /\ next \in [Cpus -> Optional] /\ prev \in [Cpus -> Optional]
  /\ lapic_lock \in {0, 1} /\ pit \in Optional
  /\ cpus_running \in Nat /\ reg \in [Cpus -> Nat]
  /\ timer \in [Cpus -> BOOLEAN] /\ isr \in BOOLEAN

\* The boot processor has left smp_init.
Left == pc[Bsp] \in {"sched_init", "await", "hlt", "sched_vector", "unacknowledged"}

\* Processors that have run their cpus_running++ to the end.
Counted == {c \in started :
              pc[c] \in {"loop", "wait", "sched_init", "await", "hlt",
                         "sched_vector", "unacknowledged"}}

\* The boot processor leaves smp_init only when every processor has finished
\* core_init, although the counter it waits for is not updated atomically: a
\* lost update makes the count too small, never too large.
NobodyLeftBehind == Left => Counted = Cpus

\* Every processor's task register names its own TSS, with its own interrupt
\* stacks, although all of them load it through the same descriptor.
OwnTss == \A c \in Cpus : tr[c] \in {c, NULL}

\* Nobody, not even pit_init, reprograms the interval timer while a processor
\* measures its local APIC timer against it.
CalibrationUndisturbed == \A c \in Cpus : pc[c] = "calibrate_last" => pit = c

\* Following next from a comes to b.
Reaches(a, b) ==
  \A S \in SUBSET Cpus : a \in S /\ (\A c \in S : next[c] \in S) => b \in S

\* Idle threads that sched_enqueue_thread has linked.
Linked == {c \in started : pc[c] \notin {"tss", "ltr", "enqueue", "link"}}

\* Whenever the queue is unlocked, the idle threads linked so far form a single
\* ring from queue.start to queue.end, with prev the inverse of next.
IdleRing ==
  queue.lock = 0 =>
    /\ \A a, b \in Linked : Reaches(a, b)
    /\ \A a \in Linked : next[a] \in Linked /\ prev[next[a]] = a
    /\ Linked # {} => queue.start \in Linked /\ next[queue.end] = queue.start

\* The wait in smp_init ends once every processor is counted.
WaitEnds == (cpus_running = Cardinality(Cpus)) ~> Left
=============================================================================
