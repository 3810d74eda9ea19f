------------------------------- MODULE Sched --------------------------------
(***************************************************************************)
(* The scheduler, src/proc/sched.c, from the moment sched_init has         *)
(* installed sched_vector: the ring of threads, the timer interrupt that   *)
(* walks it without a lock, the creation of threads, and dequeue_and_die.  *)
(*                                                                         *)
(* One action is one C statement that touches memory other processors read *)
(* or write; statements between two such accesses are folded into one      *)
(* action.  The idle thread of processor c is called c.  A thread that has *)
(* been freed keeps its contents (kheap_free does not overwrite them); what*)
(* a processor does once it runs a freed thread, or returns into the code  *)
(* after the last statement of dequeue_and_die, is undefined and is not    *)
(* followed: "zombie" and "fell" are terminal.                             *)
(***************************************************************************)
EXTENDS Processors, Integers

CONSTANTS Threads,       \* the threads made by sched_kernel/user_thread
          Root,          \* the thread of kernel_thread, made by sched_init
          Creates,       \* Creates[t]: threads that the code of t makes
          Ends,          \* threads whose code is known to call dequeue_and_die
          TIME_QUANTUM   \* milliseconds

ASSUME SchedAssumption == /\ Bsp \in Cpus /\ Root \in Threads
                          /\ Cpus \cap Threads = {}
                          /\ NULL \notin Cpus \cup Threads
                          /\ Creates \in [Threads -> SUBSET Threads]
                          /\ Ends \subseteq Threads
                          /\ TIME_QUANTUM \in Nat \ {0}

VARIABLES next, prev,     \* the ring
          queue,          \* queue.start, queue.end, queue.lock
          running, enqueued, lock,  \* fields of a thread
          freed,          \* threads given to kheap_free
          current,        \* this_cpu()->current_thread
          timer,          \* one-shot count of the local APIC; 0: it is off
          ipi,            \* the scheduling vector is pending as an IPI
          pc,
          ret,            \* where the interrupted code continues
          old, nxt,       \* current_thread and next_thread in sched_vector
          arg,            \* the thread that sched_enqueue_thread is given
          todo            \* todo[t]: threads t has still to make

ring == <<next, prev, queue>>
flags == <<running, enqueued, lock, freed>>
hw == <<timer, ipi>>
scan == <<ret, old, nxt>>
vars == <<ring, flags, hw, scan, current, pc, arg, todo>>

Nodes == Cpus \cup Threads

\* Fault: idle threads get a time slice like all others.
TimesliceForAll(n) == TIME_QUANTUM

\* Idle threads are made with kheap_calloc and blocked = true; their timeslice
\* stays 0.  All others get TIME_QUANTUM.
Blocked(n) == n \in Cpus
Timeslice(n) == IF n \in Cpus THEN 0 ELSE TIME_QUANTUM

\* s closes the processors into one ring.
IsRing(s) == \A S \in SUBSET Cpus :
               S # {} /\ S # Cpus => \E c \in S : s[c] \notin S

\* core_init has put the idle threads into the ring, in whatever order.  The
\* application processors wait in sched_await; their first tick is still
\* to come or has already been spent.  The Bsp is in sched_init, about to make
\* the first thread, with interrupts off.
Init == /\ \E s, p \in [Cpus -> Cpus], first \in Cpus :
             /\ IsRing(s)
             /\ \A c \in Cpus : p[s[c]] = c
             /\ next = [n \in Nodes |-> IF n \in Cpus THEN s[n] ELSE NULL]
             /\ prev = [n \in Nodes |-> IF n \in Cpus THEN p[n] ELSE NULL]
             /\ queue = [start |-> first, end |-> p[first], lock |-> 0]
        /\ running = [n \in Nodes |-> FALSE]
        /\ enqueued = [n \in Nodes |-> n \in Cpus]
        /\ lock = [n \in Nodes |-> 0]
        /\ freed = {}
        /\ current = [c \in Cpus |-> c]
        /\ timer \in [Cpus -> {0, TIME_QUANTUM}] /\ timer[Bsp] = 0
        /\ ipi = [c \in Cpus |-> FALSE]
        /\ pc = [c \in Cpus |-> IF c = Bsp THEN "enqueue" ELSE "hlt"]
        /\ ret = [c \in Cpus |-> "hlt"]
        /\ old = [c \in Cpus |-> c]
        /\ nxt = [c \in Cpus |-> NULL]
        /\ arg = [c \in Cpus |-> IF c = Bsp THEN Root ELSE NULL]
        /\ todo = Creates

Goto(c, from, to) == pc[c] = from /\ pc' = [pc EXCEPT ![c] = to]

-----------------------------------------------------------------------------
(* sched_enqueue_thread(arg[c]).  Its first test, of the enqueued flag, is *)
(* false for a thread just made with kheap_calloc, and queue.start is set. *)

\* Fault: the flag is set before the thread is linked.
EnqueueLockAndFlag(c) ==
  /\ Goto(c, "enqueue", "link")
  /\ queue.lock = 0
  /\ queue' = [queue EXCEPT !.lock = 1]
  /\ prev' = [prev EXCEPT ![arg[c]] = queue.end]
  /\ enqueued' = [enqueued EXCEPT ![arg[c]] = TRUE]
  /\ UNCHANGED <<next, running, lock, freed, hw, scan, current, arg, todo>>

EnqueueLock(c) == /\ Goto(c, "enqueue", "link")
                  /\ queue.lock = 0
                  /\ queue' = [queue EXCEPT !.lock = 1]
                  /\ prev' = [prev EXCEPT ![arg[c]] = queue.end]
                  /\ UNCHANGED <<next, flags, hw, scan, current, arg, todo>>

EnqueueLink(c) == /\ Goto(c, "link", "link_next")
                  /\ next' = [next EXCEPT ![queue.end] = arg[c]]
                  /\ queue' = [queue EXCEPT !.end = arg[c]]
                  /\ UNCHANGED <<prev, flags, hw, scan, current, arg, todo>>

\* Fault: the new last thread points to itself; queue.end is already the thread.
EnqueueNextToEnd(c) == /\ Goto(c, "link_next", "link_prev")
                       /\ next' = [next EXCEPT ![arg[c]] = queue.end]
                       /\ UNCHANGED <<prev, queue, flags, hw, scan, current, arg, todo>>

EnqueueNext(c) == /\ Goto(c, "link_next", "link_prev")
                  /\ next' = [next EXCEPT ![arg[c]] = queue.start]
                  /\ UNCHANGED <<prev, queue, flags, hw, scan, current, arg, todo>>

EnqueuePrev(c) == /\ Goto(c, "link_prev", "flag")
                  /\ prev' = [prev EXCEPT ![queue.start] = arg[c]]
                  /\ queue' = [queue EXCEPT !.lock = 0]
                  /\ UNCHANGED <<next, flags, hw, scan, current, arg, todo>>

\* The flag is set after the unlock.  sched_init goes on to sched_await, which
\* arms the timer; a thread goes on with its code.
EnqueueFlag(c) ==
  /\ pc[c] = "flag"
  /\ enqueued' = [enqueued EXCEPT ![arg[c]] = TRUE]
  /\ arg' = [arg EXCEPT ![c] = NULL]
  /\ IF current[c] = c
     THEN /\ pc' = [pc EXCEPT ![c] = "hlt"]
          /\ timer' = [timer EXCEPT ![c] = TIME_QUANTUM]
     ELSE pc' = [pc EXCEPT ![c] = "run"] /\ UNCHANGED timer
  /\ UNCHANGED <<ring, running, lock, freed, ipi, scan, current, todo>>

-----------------------------------------------------------------------------
(* The code of a thread. *)

Create(c) == /\ Goto(c, "run", "enqueue")
             /\ \E t \in todo[current[c]] :
                  /\ arg' = [arg EXCEPT ![c] = t]
                  /\ todo' = [todo EXCEPT ![current[c]] = @ \ {t}]
             /\ UNCHANGED <<ring, flags, hw, scan, current>>

\* dequeue_and_die: interrupts off, timer off, then dequeue_thread.
Die(c) == /\ pc[c] = "run"
          /\ todo[current[c]] = {}
          /\ timer' = [timer EXCEPT ![c] = 0]
          /\ pc' = [pc EXCEPT ![c] =
                      IF enqueued[current[c]] THEN "unlink_prev" ELSE "free"]
          /\ UNCHANGED <<ring, flags, ipi, scan, current, arg, todo>>

UnlinkPrev(c) ==
  LET t == current[c]
  IN /\ Goto(c, "unlink_prev", "unlink_next")
     /\ prev' = [prev EXCEPT ![next[t]] = prev[t]]
     /\ UNCHANGED <<next, queue, flags, hw, scan, current, arg, todo>>

UnlinkNext(c) ==
  LET t == current[c]
  IN /\ Goto(c, "unlink_next", "unlock")
     /\ next' = [next EXCEPT ![prev[t]] = next[t]]
     /\ UNCHANGED <<prev, queue, flags, hw, scan, current, arg, todo>>

DequeueUnlock(c) == /\ Goto(c, "unlock", "unflag")
                    /\ lock' = [lock EXCEPT ![current[c]] = 0]
                    /\ UNCHANGED <<ring, running, enqueued, freed, hw, scan,
                                   current, arg, todo>>

DequeueFlags(c) == /\ Goto(c, "unflag", "free")
                   /\ enqueued' = [enqueued EXCEPT ![current[c]] = FALSE]
                   /\ running' = [running EXCEPT ![current[c]] = FALSE]
                   /\ UNCHANGED <<ring, lock, freed, hw, scan, current, arg, todo>>

\* Fault: the dying thread does not call for sched_vector.
DieFreeWithoutIpi(c) == /\ Goto(c, "free", "dead")
                        /\ freed' = freed \cup {current[c]}
                        /\ current' = [current EXCEPT ![c] = c]
                        /\ UNCHANGED <<ring, running, enqueued, lock, hw, scan, arg, todo>>

\* The rest of dequeue_and_die: free the thread, become idle, interrupts on,
\* send the scheduling vector to itself.
DieFree(c) == /\ Goto(c, "free", "dead")
              /\ freed' = freed \cup {current[c]}
              /\ current' = [current EXCEPT ![c] = c]
              /\ ipi' = [ipi EXCEPT ![c] = TRUE]
              /\ UNCHANGED <<ring, running, enqueued, lock, timer, scan, arg, todo>>

-----------------------------------------------------------------------------
(* sched_vector *)

\* The timer runs out, or the IPI arrives, while interrupts are on.  The saved
\* frame of a running thread is where it continues when it is picked again.
Interrupt(c) ==
  /\ pc[c] \in {"hlt", "run", "dead"}
  /\ \/ timer[c] > 0 /\ timer' = [timer EXCEPT ![c] = 0] /\ UNCHANGED ipi
     \/ ipi[c] /\ ipi' = [ipi EXCEPT ![c] = FALSE] /\ UNCHANGED timer
  /\ ret' = [ret EXCEPT ![c] = pc[c]]
  /\ old' = [old EXCEPT ![c] = current[c]]
  /\ nxt' = [nxt EXCEPT ![c] = next[current[c]]]
  /\ pc' = [pc EXCEPT ![c] = "scan"]
  /\ UNCHANGED <<ring, flags, current, arg, todo>>

\* The loop of get_next_thread: its condition and the two flags it looks at.
ScanTest(c) ==
  /\ pc[c] = "scan"
  /\ pc' = [pc EXCEPT ![c] =
              IF nxt[c] \in {old[c], NULL} THEN "none"
              ELSE IF Blocked(nxt[c]) \/ running[nxt[c]] THEN "advance"
              ELSE "try"]
  /\ UNCHANGED <<ring, flags, hw, scan, current, arg, todo>>

ScanAdvance(c) == /\ Goto(c, "advance", "scan")
                  /\ nxt' = [nxt EXCEPT ![c] = next[nxt[c]]]
                  /\ UNCHANGED <<ring, flags, hw, ret, old, current, arg, todo>>

\* Fault: the thread found is taken although another processor has its lock.
ScanTryAnyway(c) == /\ Goto(c, "try", "stop_old")
                    /\ lock' = [lock EXCEPT ![nxt[c]] = 1]
                    /\ UNCHANGED <<ring, running, enqueued, freed, hw, scan, current,
                                   arg, todo>>

\* spinlock_test_and_acq on the thread found.
ScanTry(c) ==
  /\ pc[c] = "try"
  /\ IF lock[nxt[c]] = 0
     THEN /\ pc' = [pc EXCEPT ![c] = "stop_old"]
          /\ lock' = [lock EXCEPT ![nxt[c]] = 1]
     ELSE pc' = [pc EXCEPT ![c] = "advance"] /\ UNCHANGED lock
  /\ UNCHANGED <<ring, running, enqueued, freed, hw, scan, current, arg, todo>>

\* Nothing to run: rearm with the timeslice of the current thread and return.
\* After dequeue_and_die there is nothing to return to.
Stay(c) ==
  /\ pc[c] = "none"
  /\ timer' = [timer EXCEPT ![c] = Timeslice(old[c])]
  /\ pc' = [pc EXCEPT ![c] = IF ret[c] = "dead" THEN "fell" ELSE ret[c]]
  /\ nxt' = [nxt EXCEPT ![c] = NULL]
  /\ UNCHANGED <<ring, flags, ipi, ret, old, current, arg, todo>>

StopOld(c) == /\ Goto(c, "stop_old", "leave_old")
              /\ running' = [running EXCEPT ![old[c]] = FALSE]
              /\ UNCHANGED <<ring, enqueued, lock, freed, hw, scan, current,
                             arg, todo>>

\* Fault: the lock is released by a decrement; an idle thread's is not held.
LeaveOldByDecrement(c) ==
  /\ Goto(c, "leave_old", "switch")
  /\ lock' = [lock EXCEPT ![old[c]] = @ - 1]
  /\ current' = [current EXCEPT ![c] = nxt[c]]
  /\ timer' = [timer EXCEPT ![c] = Timeslice(old[c])]
  /\ UNCHANGED <<ring, running, enqueued, freed, ipi, scan, arg, todo>>

\* The timer is set to the timeslice of the thread that is left.
LeaveOld(c) == /\ Goto(c, "leave_old", "switch")
               /\ lock' = [lock EXCEPT ![old[c]] = 0]
               /\ current' = [current EXCEPT ![c] = nxt[c]]
               /\ timer' = [timer EXCEPT ![c] = Timeslice(old[c])]
               /\ UNCHANGED <<ring, running, enqueued, freed, ipi, scan, arg, todo>>

\* switch_to_thread
SwitchTo(c) ==
  /\ pc[c] = "switch"
  /\ running' = [running EXCEPT ![nxt[c]] = TRUE]
  /\ pc' = [pc EXCEPT ![c] = IF nxt[c] \in freed THEN "zombie" ELSE "run"]
  /\ old' = [old EXCEPT ![c] = c]
  /\ nxt' = [nxt EXCEPT ![c] = NULL]
  /\ ret' = [ret EXCEPT ![c] = "hlt"]
  /\ UNCHANGED <<ring, enqueued, lock, freed, hw, current, arg, todo>>

-----------------------------------------------------------------------------
\* What a processor does on its own, once it has started.
Step(c) == \/ EnqueueLock(c) \/ EnqueueLink(c) \/ EnqueueNext(c)
           \/ EnqueuePrev(c) \/ EnqueueFlag(c) \/ Create(c)
           \/ UnlinkPrev(c) \/ UnlinkNext(c) \/ DequeueUnlock(c)
           \/ DequeueFlags(c) \/ DieFree(c)
           \/ Interrupt(c) \/ ScanTest(c) \/ ScanAdvance(c) \/ ScanTry(c)
           \/ Stay(c) \/ StopOld(c) \/ LeaveOld(c) \/ SwitchTo(c)

Next == \E c \in Cpus : Step(c) \/ Die(c)

Spec == Init /\ [][Next]_vars

\* Processors keep executing and interrupts are delivered.  A thread reaches
\* its dequeue_and_die only if it is one of Ends: a user program may run on.
EndingThreadDies(c) == current[c] \in Ends /\ Die(c)
FairSpec == /\ Spec
            /\ \A c \in Cpus : WF_vars(Step(c)) /\ WF_vars(EndingThreadDies(c))

-----------------------------------------------------------------------------
TypeOK ==
  /\ next \in [Nodes -> Nodes \cup {NULL}]
  /\ prev \in [Nodes -> Nodes \cup {NULL}]
  /\ queue \in [start : Nodes, end : Nodes, lock : {0, 1}]
  /\ running \in [Nodes -> BOOLEAN] /\ enqueued \in [Nodes -> BOOLEAN]
  /\ lock \in [Nodes -> {0, 1}] /\ freed \subseteq Threads
  /\ current \in [Cpus -> Nodes] /\ old \in [Cpus -> Nodes]
  /\ nxt \in [Cpus -> Nodes \cup {NULL}]
  /\ timer \in [Cpus -> {0, TIME_QUANTUM}] /\ ipi \in [Cpus -> BOOLEAN]
  /\ pc \in [Cpus -> {"enqueue", "link", "link_next", "link_prev", "flag",
                      "run", "unlink_prev", "unlink_next", "unlock", "unflag",
                      "free", "dead", "hlt", "scan", "advance", "try", "none",
                      "stop_old", "leave_old", "switch", "zombie", "fell"}]
  /\ ret \in [Cpus -> {"hlt", "run", "dead"}]
  /\ arg \in [Cpus -> Threads \cup {NULL}]
  /\ todo \in [Threads -> SUBSET Threads]

\* The processor runs t: from LeaveOld until it leaves t or, in dequeue_thread,
\* has released the lock of t.
Runs(c, t) == current[c] = t /\ pc[c] \notin {"unflag", "free"}

\* No thread runs on two processors, although sched_vector looks at the flags
\* of a thread without holding a lock.
OneProcessorPerThread ==
  \A t \in Threads : \A c, d \in Cpus : Runs(c, t) /\ Runs(d, t) => c = d

\* A timer is armed only on a processor that idles, so no thread is ever
\* preempted: LeaveOld and Stay use the timeslice of the thread left behind,
\* and that is the idle thread's 0.  Because of this the window after
\* lapic_timer_oneshot, in which interrupts are on and the interrupt stack of
\* sched_vector is still in use, is never interrupted by sched_vector itself.
TimerOnlyWhileIdle ==
  \A c \in Cpus : timer[c] > 0 => pc[c] = "hlt" /\ current[c] = c

\* dequeue_thread follows next and prev only after sched_enqueue_thread has set
\* both, even for a thread that starts while it is still being linked.
UnlinkHasNeighbours ==
  \A c \in Cpus : pc[c] \in {"unlink_prev", "unlink_next"} =>
    next[current[c]] # NULL /\ prev[current[c]] # NULL

\* b is on the chain of next pointers that starts at a.
Reaches(a, b) ==
  \A S \in SUBSET Nodes :
    a \in S /\ (\A n \in S : next[n] \in S \cup {NULL}) => b \in S

\* Threads whose sched_enqueue_thread has ended and whose dequeue_thread has not
\* unlinked them.
InRing == {n \in Nodes : enqueued[n]}
            \ {current[c] : c \in {d \in Cpus : pc[d] \in {"unlock", "unflag"}}}

\* While nobody changes the ring, every thread in it is found from every other
\* one, also when two neighbours have left it at the same time: dequeue_thread
\* takes no queue lock.
RingConnected ==
  queue.lock = 0 /\ (\A c \in Cpus : pc[c] \notin {"unlink_prev", "unlink_next"})
  => \A a, b \in InRing : Reaches(a, b)

\* Every thread that an ending thread makes gets to run: a processor that gives
\* up its thread looks for another one.
EveryThreadRuns == \A t \in Threads : <>(\E c \in Cpus : current[c] = t)

\* A thread that dequeue_thread has removed from the ring is not run again.
DeadThreadNotPicked == \A c \in Cpus : pc[c] # "zombie"
=============================================================================
