-------------------------- MODULE InterruptProofs ---------------------------
(***************************************************************************)
(* Proofs about Sched and Console: the timer interrupt that walks the ring  *)
(* of threads, and printf in the threads and the handlers that interrupt    *)
(* them and one another.                                                    *)
(*                                                                         *)
(* Sched, for any processors, any threads and any pattern of thread         *)
(* creation: the inductive invariant says which thread and which neighbours *)
(* a processor has at each place in the code (PlaceInv), that the           *)
(* per-thread locks have one holder (LockInv) and that linked threads have  *)
(* neighbours (LinkInv).                                                    *)
(*                                                                         *)
(* Console, for any processors and any number of calls: the inductive       *)
(* invariant (PrintInv) says that one call at most holds print_lock, that   *)
(* the locks of the two devices are held by that call only (DeviceLocks),   *)
(* and what it relies on: the buffer of itoa is its own, and what has been  *)
(* sent and shown ends with its last piece (HolderInv).                     *)
(***************************************************************************)
EXTENDS Sched, Console, TLAPS

-----------------------------------------------------------------------------
(* The scheduler *)

\* The places of a processor, by what it has a hold of.
Enqueueing == {"enqueue", "link", "link_next", "link_prev", "flag"}
InThread == {"run", "unlink_prev", "unlink_next", "unlock", "unflag", "free",
             "switch", "zombie"}
InVector == {"scan", "advance", "try", "none", "stop_old", "leave_old"}
Idling == {"hlt", "dead", "fell"}

\* Which threads a processor has its hands on.
PlaceInvOf(c) ==
  /\ pc[c] \in Enqueueing => arg[c] \in Threads /\ current[c] \in Threads \cup {c}
  /\ pc[c] \in InThread => current[c] \in Threads
  /\ pc[c] \in Idling \cup InVector => current[c] = c
  /\ pc[c] \in InVector => old[c] = c /\ ret[c] \in {"hlt", "dead"}
  /\ pc[c] = "advance" => nxt[c] \in Nodes
  /\ pc[c] \in {"try", "stop_old", "leave_old"} => nxt[c] \in Threads
  /\ pc[c] = "switch" => nxt[c] = current[c]
  /\ timer[c] > 0 => pc[c] = "hlt"
  /\ ipi[c] => pc[c] = "dead"

PlaceInv == \A c \in Cpus : PlaceInvOf(c)

\* c has the lock of t: it runs t, or has just won it in get_next_thread.
Holds(c, t) == \/ Runs(c, t)
               \/ pc[c] \in {"stop_old", "leave_old"} /\ nxt[c] = t

\* The lock of a thread has one holder.
LockInv == \A t \in Threads :
             /\ \A c \in Cpus : Holds(c, t) => lock[t] = 1
             /\ \A c, d \in Cpus : Holds(c, t) /\ Holds(d, t) => c = d

\* A linked thread has neighbours.
LinkInv ==
  /\ \A n \in Nodes : enqueued[n] => next[n] # NULL /\ prev[n] # NULL
  /\ \A c \in Cpus :
       /\ pc[c] \in Enqueueing \ {"enqueue"} => prev[arg[c]] # NULL
       /\ pc[c] \in {"link_prev", "flag"} => next[arg[c]] # NULL
  /\ UnlinkHasNeighbours

\* The inductive invariant of Sched.
IInv == TypeOK /\ PlaceInv /\ LockInv /\ LinkInv
-----------------------------------------------------------------------------
\* sched_init starts in a state that satisfies the invariant.
LEMMA InitIInv == Init => IInv
<1> SUFFICES ASSUME Init PROVE IInv
  OBVIOUS
<1> USE SchedAssumption DEF Init, Nodes
<1>1. TypeOK
  BY DEF TypeOK
<1>2. ASSUME NEW c \in Cpus PROVE PlaceInvOf(c)
  <2>1. pc[c] = (IF c = Bsp THEN "enqueue" ELSE "hlt") /\ current[c] = c
        /\ (c = Bsp => timer[c] = 0 /\ arg[c] = Root) /\ ~ipi[c]
    OBVIOUS
  <2> QED BY <2>1 DEF PlaceInvOf, Enqueueing, InThread, InVector, Idling
<1>3. LockInv
  BY DEF LockInv, Holds, Runs
<1>4. ASSUME NEW n \in Nodes, enqueued[n] PROVE next[n] # NULL /\ prev[n] # NULL
  <2>1. n \in Cpus
    BY <1>4, Zenon
  <2> QED BY <2>1
<1>5. LinkInv
  <2>1. \A c \in Cpus : pc[c] \in {"enqueue", "hlt"}
    BY Zenon
  <2> QED BY <1>4, <2>1, Zenon DEF LinkInv, UnlinkHasNeighbours, Enqueueing
<1> QED BY <1>1, <1>2, <1>3, <1>5 DEF IInv, PlaceInv

\* Every step keeps the types.
LEMMA TypeStep == ASSUME IInv, [Next]_vars PROVE TypeOK'
<1> USE DEF IInv, Goto, ring, flags, hw, scan, TypeOK, Nodes
<1>1. ASSUME NEW c \in Cpus, EnqueueLock(c) PROVE TypeOK'
  BY <1>1, Zenon DEF EnqueueLock, PlaceInv, PlaceInvOf, Enqueueing
<1>2. ASSUME NEW c \in Cpus, EnqueueLink(c) PROVE TypeOK'
  BY <1>2, Zenon DEF EnqueueLink, PlaceInv, PlaceInvOf, Enqueueing
<1>3. ASSUME NEW c \in Cpus, EnqueueNext(c) PROVE TypeOK'
  BY <1>3, Zenon DEF EnqueueNext
<1>4. ASSUME NEW c \in Cpus, EnqueuePrev(c) PROVE TypeOK'
  BY <1>4, Zenon DEF EnqueuePrev
<1>5. ASSUME NEW c \in Cpus, EnqueueFlag(c) PROVE TypeOK'
  <2>1. CASE current[c] = c
    BY <1>5, <2>1, Zenon DEF EnqueueFlag
  <2>2. CASE ~(current[c] = c)
    BY <1>5, <2>2, Zenon DEF EnqueueFlag
  <2> QED BY <2>1, <2>2
<1>6. ASSUME NEW c \in Cpus, Create(c) PROVE TypeOK'
  BY <1>6 DEF Create, PlaceInv, PlaceInvOf, InThread
<1>7. ASSUME NEW c \in Cpus, Die(c) PROVE TypeOK'
  BY <1>7 DEF Die
<1>8. ASSUME NEW c \in Cpus, UnlinkPrev(c) PROVE TypeOK'
  BY <1>8, Zenon DEF UnlinkPrev
<1>9. ASSUME NEW c \in Cpus, UnlinkNext(c) PROVE TypeOK'
  BY <1>9, Zenon DEF UnlinkNext
<1>10. ASSUME NEW c \in Cpus, DequeueUnlock(c) PROVE TypeOK'
  BY <1>10 DEF DequeueUnlock
<1>11. ASSUME NEW c \in Cpus, DequeueFlags(c) PROVE TypeOK'
  BY <1>11 DEF DequeueFlags
<1>12. ASSUME NEW c \in Cpus, DieFree(c) PROVE TypeOK'
  BY <1>12 DEF DieFree, PlaceInv, PlaceInvOf, InThread
<1>13. ASSUME NEW c \in Cpus, Interrupt(c) PROVE TypeOK'
  <2>1. /\ next[current[c]] \in Nodes \cup {NULL}
        /\ current[c] \in Nodes /\ pc[c] \in {"hlt", "run", "dead"}
    BY <1>13 DEF Interrupt
  <2>2. timer' \in [Cpus -> {0, TIME_QUANTUM}] /\ ipi' \in [Cpus -> BOOLEAN]
    BY <1>13, Zenon DEF Interrupt
  <2>3. ret' \in [Cpus -> {"hlt", "run", "dead"}] /\ old' \in [Cpus -> Nodes]
        /\ nxt' \in [Cpus -> Nodes \cup {NULL}]
    BY <1>13, <2>1 DEF Interrupt
  <2> QED BY <1>13, <2>2, <2>3 DEF Interrupt
<1>14. ASSUME NEW c \in Cpus, ScanTest(c) PROVE TypeOK'
  BY <1>14 DEF ScanTest
<1>15. ASSUME NEW c \in Cpus, ScanAdvance(c) PROVE TypeOK'
  BY <1>15 DEF ScanAdvance, PlaceInv, PlaceInvOf, InVector
<1>16. ASSUME NEW c \in Cpus, ScanTry(c) PROVE TypeOK'
  <2>1. CASE lock[nxt[c]] = 0
    BY <1>16, <2>1 DEF ScanTry
  <2>2. CASE ~(lock[nxt[c]] = 0)
    BY <1>16, <2>2 DEF ScanTry
  <2> QED BY <2>1, <2>2
<1>17. ASSUME NEW c \in Cpus, Stay(c) PROVE TypeOK'
  BY <1>17 DEF Stay, PlaceInv, PlaceInvOf, InVector, Timeslice
<1>18. ASSUME NEW c \in Cpus, StopOld(c) PROVE TypeOK'
  BY <1>18 DEF StopOld
<1>19. ASSUME NEW c \in Cpus, LeaveOld(c) PROVE TypeOK'
  BY <1>19 DEF LeaveOld, PlaceInv, PlaceInvOf, InVector, Timeslice
<1>20. ASSUME NEW c \in Cpus, SwitchTo(c) PROVE TypeOK'
  BY <1>20, Zenon DEF SwitchTo
<1>21. CASE UNCHANGED vars
  BY <1>21, Zenon DEF vars
<1> QED
  BY <1>1, <1>2, <1>3, <1>4, <1>5, <1>6, <1>7, <1>8, <1>9, <1>10, <1>11, <1>12, <1>13, <1>14, <1>15, <1>16, <1>17, <1>18, <1>19, <1>20, <1>21, Zenon
     DEF Next, Step

\* Every step leads to a place that fits its thread.
LEMMA PlaceStep == ASSUME IInv, [Next]_vars PROVE PlaceInv'
<1> USE DEF IInv, Goto, ring, flags, hw, scan, TypeOK, PlaceInv, PlaceInvOf, Nodes,
           Enqueueing, InThread, InVector, Idling
<1>1. ASSUME NEW c \in Cpus, EnqueueLock(c) PROVE PlaceInv'
  BY <1>1 DEF EnqueueLock
<1>2. ASSUME NEW c \in Cpus, EnqueueLink(c) PROVE PlaceInv'
  BY <1>2 DEF EnqueueLink
<1>3. ASSUME NEW c \in Cpus, EnqueueNext(c) PROVE PlaceInv'
  BY <1>3 DEF EnqueueNext
<1>4. ASSUME NEW c \in Cpus, EnqueuePrev(c) PROVE PlaceInv'
  BY <1>4 DEF EnqueuePrev
<1>5. ASSUME NEW c \in Cpus, EnqueueFlag(c) PROVE PlaceInv'
  <2>1. CASE current[c] = c
    BY <1>5, <2>1, SchedAssumption DEF EnqueueFlag
  <2>2. CASE ~(current[c] = c)
    BY <1>5, <2>2, SchedAssumption DEF EnqueueFlag
  <2> QED BY <2>1, <2>2
<1>6. ASSUME NEW c \in Cpus, Create(c) PROVE PlaceInv'
  BY <1>6, SchedAssumption DEF Create
<1>7. ASSUME NEW c \in Cpus, Die(c) PROVE PlaceInv'
  BY <1>7 DEF Die
<1>8. ASSUME NEW c \in Cpus, UnlinkPrev(c) PROVE PlaceInv'
  BY <1>8 DEF UnlinkPrev
<1>9. ASSUME NEW c \in Cpus, UnlinkNext(c) PROVE PlaceInv'
  BY <1>9 DEF UnlinkNext
<1>10. ASSUME NEW c \in Cpus, DequeueUnlock(c) PROVE PlaceInv'
  BY <1>10 DEF DequeueUnlock
<1>11. ASSUME NEW c \in Cpus, DequeueFlags(c) PROVE PlaceInv'
  BY <1>11 DEF DequeueFlags
<1>12. ASSUME NEW c \in Cpus, DieFree(c) PROVE PlaceInv'
  BY <1>12, SchedAssumption DEF DieFree
<1>13. ASSUME NEW c \in Cpus, Interrupt(c) PROVE PlaceInv'
  BY <1>13, SchedAssumption DEF Interrupt
<1>14. ASSUME NEW c \in Cpus, ScanTest(c) PROVE PlaceInv'
  BY <1>14, SchedAssumption DEF ScanTest, Blocked
<1>15. ASSUME NEW c \in Cpus, ScanAdvance(c) PROVE PlaceInv'
  BY <1>15 DEF ScanAdvance
<1>16. ASSUME NEW c \in Cpus, ScanTry(c) PROVE PlaceInv'
  <2>1. CASE lock[nxt[c]] = 0
    BY <1>16, <2>1 DEF ScanTry
  <2>2. CASE ~(lock[nxt[c]] = 0)
    BY <1>16, <2>2 DEF ScanTry
  <2> QED BY <2>1, <2>2
<1>17. ASSUME NEW c \in Cpus, Stay(c) PROVE PlaceInv'
  BY <1>17, SchedAssumption DEF Stay, Timeslice
<1>18. ASSUME NEW c \in Cpus, StopOld(c) PROVE PlaceInv'
  BY <1>18 DEF StopOld
<1>19. ASSUME NEW c \in Cpus, LeaveOld(c) PROVE PlaceInv'
  BY <1>19, SchedAssumption DEF LeaveOld, Timeslice
<1>20. ASSUME NEW c \in Cpus, SwitchTo(c) PROVE PlaceInv'
  BY <1>20, SchedAssumption DEF SwitchTo
<1>21. CASE UNCHANGED vars
  BY <1>21, Zenon DEF vars
<1> QED
  BY <1>1, <1>2, <1>3, <1>4, <1>5, <1>6, <1>7, <1>8, <1>9, <1>10, <1>11, <1>12, <1>13, <1>14, <1>15, <1>16, <1>17, <1>18, <1>19, <1>20, <1>21, Zenon
     DEF Next, Step

\* Every step keeps the per-thread locks exclusive.
LEMMA LockStep == ASSUME IInv, [Next]_vars PROVE LockInv'
<1> USE DEF IInv, Goto, ring, flags, hw, scan, TypeOK, PlaceInv, PlaceInvOf, Nodes,
           Enqueueing, InThread, InVector, Idling, LockInv, Holds, Runs
<1>1. ASSUME NEW c \in Cpus, EnqueueLock(c) PROVE LockInv'
  BY <1>1 DEF EnqueueLock
<1>2. ASSUME NEW c \in Cpus, EnqueueLink(c) PROVE LockInv'
  BY <1>2 DEF EnqueueLink
<1>3. ASSUME NEW c \in Cpus, EnqueueNext(c) PROVE LockInv'
  BY <1>3 DEF EnqueueNext
<1>4. ASSUME NEW c \in Cpus, EnqueuePrev(c) PROVE LockInv'
  BY <1>4 DEF EnqueuePrev
<1>5. ASSUME NEW c \in Cpus, EnqueueFlag(c) PROVE LockInv'
  <2>1. /\ pc[c] = "flag" /\ lock' = lock /\ current' = current /\ nxt' = nxt
        /\ \E q \in {"hlt", "run"} : pc' = [pc EXCEPT ![c] = q]
    BY <1>5 DEF EnqueueFlag
  <2>2. \A d \in Cpus, t \in Threads : Holds(d, t)' => Holds(d, t)
    BY <2>1
  <2> QED BY <2>1, <2>2
<1>6. ASSUME NEW c \in Cpus, Create(c) PROVE LockInv'
  BY <1>6 DEF Create
<1>7. ASSUME NEW c \in Cpus, Die(c) PROVE LockInv'
  BY <1>7 DEF Die
<1>8. ASSUME NEW c \in Cpus, UnlinkPrev(c) PROVE LockInv'
  BY <1>8 DEF UnlinkPrev
<1>9. ASSUME NEW c \in Cpus, UnlinkNext(c) PROVE LockInv'
  BY <1>9 DEF UnlinkNext
<1>10. ASSUME NEW c \in Cpus, DequeueUnlock(c) PROVE LockInv'
  <2>1. current[c] \in Threads /\ pc[c] = "unlock" /\ current' = current
        /\ nxt' = nxt /\ lock' = [lock EXCEPT ![current[c]] = 0]
        /\ pc' = [pc EXCEPT ![c] = "unflag"]
    BY <1>10, Zenon DEF DequeueUnlock
  <2>2. ASSUME NEW t \in Threads, NEW d \in Cpus, Holds(d, t)'
        PROVE  Holds(d, t) /\ t # current[c]
    <3>1. d # c
      BY <2>1, <2>2
    <3>2. Holds(d, t)
      BY <2>1, <2>2, <3>1
    <3> QED BY <2>1, <3>1, <3>2, Zenon
  <2> QED BY <2>1, <2>2
<1>11. ASSUME NEW c \in Cpus, DequeueFlags(c) PROVE LockInv'
  BY <1>11 DEF DequeueFlags
<1>12. ASSUME NEW c \in Cpus, DieFree(c) PROVE LockInv'
  BY <1>12, SchedAssumption DEF DieFree
<1>13. ASSUME NEW c \in Cpus, Interrupt(c) PROVE LockInv'
  BY <1>13 DEF Interrupt
<1>14. ASSUME NEW c \in Cpus, ScanTest(c) PROVE LockInv'
  BY <1>14 DEF ScanTest, Blocked
<1>15. ASSUME NEW c \in Cpus, ScanAdvance(c) PROVE LockInv'
  BY <1>15 DEF ScanAdvance
<1>16. ASSUME NEW c \in Cpus, ScanTry(c) PROVE LockInv'
  <2> DEFINE t == nxt[c]
  <2>1. pc[c] = "try" /\ t \in Threads /\ current' = current /\ nxt' = nxt
    BY <1>16, Zenon DEF ScanTry
  <2>2. CASE lock[t] = 0
    <3>1. pc' = [pc EXCEPT ![c] = "stop_old"] /\ lock' = [lock EXCEPT ![t] = 1]
      BY <1>16, <2>2 DEF ScanTry
    <3>2. \A d \in Cpus : ~Holds(d, t)
      BY <2>1, <2>2
    <3>3. \A d \in Cpus, u \in Threads : Holds(d, u)' => Holds(d, u) \/ (d = c /\ u = t)
      BY <2>1, <3>1
    <3>4. ASSUME NEW u \in Threads, NEW d \in Cpus, Holds(d, u)' PROVE lock'[u] = 1
      BY <3>1, <3>3, <3>4
    <3>5. ASSUME NEW u \in Threads, NEW d \in Cpus, NEW e \in Cpus, Holds(d, u)', Holds(e, u)'
          PROVE  d = e
      BY <3>2, <3>3, <3>5, SMTT(20)
    <3> QED BY <3>4, <3>5, Zenon
  <2>3. CASE lock[t] # 0
    <3>1. pc' = [pc EXCEPT ![c] = "advance"] /\ lock' = lock
      BY <1>16, <2>3, Zenon DEF ScanTry
    <3>2. \A d \in Cpus, u \in Threads : Holds(d, u)' => Holds(d, u)
      BY <2>1, <3>1
    <3> QED BY <3>1, <3>2
  <2> QED BY <2>2, <2>3, Zenon
<1>17. ASSUME NEW c \in Cpus, Stay(c) PROVE LockInv'
  BY <1>17, SchedAssumption DEF Stay
<1>18. ASSUME NEW c \in Cpus, StopOld(c) PROVE LockInv'
  BY <1>18 DEF StopOld
<1>19. ASSUME NEW c \in Cpus, LeaveOld(c) PROVE LockInv'
  BY <1>19, SchedAssumption DEF LeaveOld
<1>20. ASSUME NEW c \in Cpus, SwitchTo(c) PROVE LockInv'
  BY <1>20 DEF SwitchTo
<1>21. CASE UNCHANGED vars
  BY <1>21, Zenon DEF vars
<1> QED
  BY <1>1, <1>2, <1>3, <1>4, <1>5, <1>6, <1>7, <1>8, <1>9, <1>10, <1>11, <1>12, <1>13, <1>14, <1>15, <1>16, <1>17, <1>18, <1>19, <1>20, <1>21, Zenon
     DEF Next, Step

\* No step takes a neighbour away from a linked thread.
LEMMA LinkStep == ASSUME IInv, [Next]_vars PROVE LinkInv'
<1> USE DEF IInv, Goto, ring, flags, hw, scan, TypeOK, PlaceInv, PlaceInvOf, Nodes,
           Enqueueing, InThread, InVector, Idling,
           LinkInv, UnlinkHasNeighbours
<1>1. ASSUME NEW c \in Cpus, EnqueueLock(c) PROVE LinkInv'
  BY <1>1, SchedAssumption DEF EnqueueLock
<1>2. ASSUME NEW c \in Cpus, EnqueueLink(c) PROVE LinkInv'
  BY <1>2, SchedAssumption DEF EnqueueLink
<1>3. ASSUME NEW c \in Cpus, EnqueueNext(c) PROVE LinkInv'
  BY <1>3, SchedAssumption DEF EnqueueNext
<1>4. ASSUME NEW c \in Cpus, EnqueuePrev(c) PROVE LinkInv'
  BY <1>4, SchedAssumption DEF EnqueuePrev
<1>5. ASSUME NEW c \in Cpus, EnqueueFlag(c) PROVE LinkInv'
  <2>1. CASE current[c] = c
    BY <1>5, <2>1, SchedAssumption DEF EnqueueFlag
  <2>2. CASE ~(current[c] = c)
    BY <1>5, <2>2, SchedAssumption DEF EnqueueFlag
  <2> QED BY <2>1, <2>2, Zenon
<1>6. ASSUME NEW c \in Cpus, Create(c) PROVE LinkInv'
  BY <1>6, SchedAssumption DEF Create
<1>7. ASSUME NEW c \in Cpus, Die(c) PROVE LinkInv'
  BY <1>7 DEF Die
<1>8. ASSUME NEW c \in Cpus, UnlinkPrev(c) PROVE LinkInv'
  BY <1>8, SchedAssumption DEF UnlinkPrev
<1>9. ASSUME NEW c \in Cpus, UnlinkNext(c) PROVE LinkInv'
  BY <1>9, SchedAssumption DEF UnlinkNext
<1>10. ASSUME NEW c \in Cpus, DequeueUnlock(c) PROVE LinkInv'
  BY <1>10 DEF DequeueUnlock
<1>11. ASSUME NEW c \in Cpus, DequeueFlags(c) PROVE LinkInv'
  BY <1>11 DEF DequeueFlags
<1>12. ASSUME NEW c \in Cpus, DieFree(c) PROVE LinkInv'
  BY <1>12 DEF DieFree
<1>13. ASSUME NEW c \in Cpus, Interrupt(c) PROVE LinkInv'
  BY <1>13 DEF Interrupt
<1>14. ASSUME NEW c \in Cpus, ScanTest(c) PROVE LinkInv'
  BY <1>14 DEF ScanTest, Blocked
<1>15. ASSUME NEW c \in Cpus, ScanAdvance(c) PROVE LinkInv'
  BY <1>15 DEF ScanAdvance
<1>16. ASSUME NEW c \in Cpus, ScanTry(c) PROVE LinkInv'
  <2>1. CASE lock[nxt[c]] = 0
    BY <1>16, <2>1 DEF ScanTry
  <2>2. CASE ~(lock[nxt[c]] = 0)
    BY <1>16, <2>2 DEF ScanTry
  <2> QED BY <2>1, <2>2, Zenon
<1>17. ASSUME NEW c \in Cpus, Stay(c) PROVE LinkInv'
  BY <1>17 DEF Stay
<1>18. ASSUME NEW c \in Cpus, StopOld(c) PROVE LinkInv'
  BY <1>18 DEF StopOld
<1>19. ASSUME NEW c \in Cpus, LeaveOld(c) PROVE LinkInv'
  BY <1>19 DEF LeaveOld
<1>20. ASSUME NEW c \in Cpus, SwitchTo(c) PROVE LinkInv'
  BY <1>20 DEF SwitchTo
<1>21. CASE UNCHANGED vars
  BY <1>21 DEF vars
<1> QED
  BY <1>1, <1>2, <1>3, <1>4, <1>5, <1>6, <1>7, <1>8, <1>9, <1>10, <1>11, <1>12, <1>13, <1>14, <1>15, <1>16, <1>17, <1>18, <1>19, <1>20, <1>21, Zenon
     DEF Next, Step

-----------------------------------------------------------------------------
\* The inductive invariant holds in every reachable state.
THEOREM Invariance == Spec => []IInv
<1>1. IInv /\ [Next]_vars => IInv'
  BY TypeStep, PlaceStep, LockStep, LinkStep DEF IInv
<1> QED BY InitIInv, <1>1, PTL DEF Spec

\* Type correctness of the scheduler.
THEOREM TypeCorrect == Spec => []TypeOK
<1>1. IInv => TypeOK
  BY DEF IInv
<1> QED BY Invariance, <1>1, PTL

\* No thread is ever run by two processors, however many there are of either:
\* the compare-and-swap in get_next_thread is enough.
THEOREM ThreadExclusion == Spec => []OneProcessorPerThread
<1>1. IInv => OneProcessorPerThread
  BY DEF IInv, LockInv, Holds, OneProcessorPerThread
<1> QED BY Invariance, <1>1, PTL

\* The scheduling timer is armed on idle processors only: no thread is preempted
\* and sched_vector does not interrupt itself.
THEOREM NeverPreempted == Spec => []TimerOnlyWhileIdle
<1>1. IInv => TimerOnlyWhileIdle
  BY DEF IInv, PlaceInv, PlaceInvOf, Idling, TimerOnlyWhileIdle
<1> QED BY Invariance, <1>1, PTL

\* dequeue_thread never follows a null neighbour.
THEOREM UnlinkSafe == Spec => []UnlinkHasNeighbours
<1>1. IInv => UnlinkHasNeighbours
  BY DEF IInv, LinkInv
<1> QED BY Invariance, <1>1, PTL

-----------------------------------------------------------------------------
(* printf *)

\* Calls of printf of any number of pieces.
Format == {s \in Seq({"string", "number"}) : Len(s) >= 1}
Places == {"acquire", "convert", "serial_acquire", "serial", "console_acquire", "console",
           "next", "return", "halted"}
Frame == [kind : {"thread", "interrupt", "exception"}, call : Nat, pieces : Format, at : Nat,
          then : Seq(Format), after : {"return", "halted"}, pc : Places]
Piece == [call : Nat, at : Nat, of : Nat, val : Nat]

\* A call is at one of its pieces, and before it has the lock at the first.
AtPiece(f) == f.at \in 1 .. Len(f.pieces) /\ (f.pc = "acquire" => f.at = 1)

\* The calls on all processors are well formed, and at one of their pieces.
StackOK == /\ stack \in [Cpus -> Seq(Frame)]
           /\ \A c \in Cpus : \A i \in DOMAIN stack[c] : AtPiece(stack[c][i])

\* How many pieces of a call have been sent to the serial port.
Sent(f) == IF f.pc \in {"convert", "serial_acquire", "serial"} THEN f.at - 1 ELSE f.at
\* The piece a call has sent last.
SentPiece(f) == [call |-> f.call, at |-> Sent(f), of |-> Len(f.pieces), val |-> f.call]

\* The last call that has printed has printed everything.
Complete == serial # <<>> => serial[Len(serial)].at = serial[Len(serial)].of

\* It is about to be shown on the screen.
Showing(f) == f.pc \in {"console_acquire", "console"}

\* What the call that holds print_lock relies on.
HolderInv(f) ==
  /\ f.pc \in {"serial_acquire", "serial", "console_acquire", "console"} /\ IsNumber(f) =>
       buffer = f.call
  /\ IF Sent(f) = 0 THEN Complete
                    ELSE serial # <<>> /\ serial[Len(serial)] = SentPiece(f)
  /\ IF Showing(f) THEN term_context /\ Shows(1) ELSE Shows(0)

\* Call i of processor c has print_lock.
HolderIs(c, i) == c \in Cpus /\ i \in DOMAIN stack[c] /\ HoldsLock(stack[c][i])
\* One call at most has print_lock.
OneHolder == \A c, d, i, j : HolderIs(c, i) /\ HolderIs(d, j) => c = d /\ i = j

\* The devices are locked by that call only.
DeviceLocks == /\ serial_lock = 1 => \E c, i : HolderIs(c, i) /\ stack[c][i].pc = "serial"
               /\ console_lock = 1 => \E c, i : HolderIs(c, i) /\ stack[c][i].pc = "console"

LogOK == /\ serial \in Seq(Piece) /\ screen \in Seq(Piece) /\ Whole(serial)
         /\ ~term_context => screen = <<>>

\* The inductive invariant of Console.
PrintInv == /\ StackOK /\ LogOK
            /\ calls \in Nat /\ term_context \in BOOLEAN
            /\ print_lock \in {0, 1} /\ serial_lock \in {0, 1} /\ console_lock \in {0, 1}
            /\ OneHolder /\ DeviceLocks
            /\ \A c, i : HolderIs(c, i) => print_lock = 1 /\ HolderInv(stack[c][i])
            /\ (\A c, i : ~HolderIs(c, i)) => Complete /\ Shows(0)

-----------------------------------------------------------------------------
\* The ends of a sequence.
LEMMA EndFacts ==
  ASSUME NEW T, NEW s \in Seq(T), s # <<>>
  PROVE  /\ Interrupted(s) \in Seq(T) /\ Len(Interrupted(s)) = Len(s) - 1
         /\ Len(s) \in Nat /\ Len(s) > 0
         /\ \A i \in 1 .. Len(s) - 1 : Interrupted(s)[i] = s[i]
         /\ s[Len(s)] \in T
<1>1. Len(s) \in Nat /\ Len(s) > 0 /\ \A i \in 1 .. Len(s) : s[i] \in T
  OBVIOUS
<1>2. PICK n \in Nat : n = Len(s) - 1
  BY <1>1
<1>3. \A i \in 1 .. n : s[i] \in T
  BY <1>1, <1>2
<1>4. Interrupted(s) \in [1 .. n -> T] /\ \A i \in 1 .. n : Interrupted(s)[i] = s[i]
  BY <1>2, <1>3 DEF Interrupted
<1>5. PICK t : t = Interrupted(s)
  OBVIOUS
<1>6. t \in Seq(T) /\ Len(t) = n
  BY <1>4, <1>5
<1> QED BY <1>1, <1>2, <1>4, <1>5, <1>6

\* Sequences with an element appended.
LEMMA AppendFacts ==
  ASSUME NEW T, NEW s \in Seq(T), NEW x \in T
  PROVE  /\ Append(s, x) \in Seq(T) /\ Len(Append(s, x)) = Len(s) + 1 /\ Len(s) \in Nat
         /\ Append(s, x)[Len(s) + 1] = x /\ Append(s, x) # <<>>
         /\ \A i \in 1 .. Len(s) : Append(s, x)[i] = s[i]
OBVIOUS

\* The elements of a sequence.
LEMMA SeqFacts ==
  ASSUME NEW T, NEW s \in Seq(T)
  PROVE  /\ Len(s) \in Nat /\ DOMAIN s = 1 .. Len(s) /\ \A i \in 1 .. Len(s) : s[i] \in T
         /\ s # <<>> <=> Len(s) > 0
OBVIOUS

\* The running call of a processor.
LEMMA TopFacts ==
  ASSUME StackOK, NEW c \in Cpus, stack[c] # <<>>
  PROVE  /\ Len(stack[c]) \in DOMAIN stack[c] /\ Len(stack[c]) \in Nat
         /\ Running(c) = stack[c][Len(stack[c])]
         /\ Running(c) \in Frame /\ AtPiece(Running(c))
<1>1. stack[c] \in Seq(Frame)
  BY DEF StackOK
<1>2. /\ Len(stack[c]) \in Nat /\ Len(stack[c]) > 0 /\ DOMAIN stack[c] = 1 .. Len(stack[c])
      /\ Running(c) = stack[c][Len(stack[c])] /\ Running(c) \in Frame
  BY <1>1, EndFacts, SeqFacts, Zenon DEF Running
<1> QED BY <1>2 DEF StackOK

\* The running call is replaced, by itself at another place or by the next call.
LEMMA ReplaceTop ==
  ASSUME StackOK, NEW c \in Cpus, stack[c] # <<>>,
         NEW g \in Frame, AtPiece(g),
         stack' = [stack EXCEPT ![c] = Append(Interrupted(@), g)]
  PROVE  /\ StackOK'
         /\ \A d \in Cpus : DOMAIN stack'[d] = DOMAIN stack[d]
         /\ stack'[c][Len(stack[c])] = g
         /\ \A d \in Cpus : \A i \in DOMAIN stack[d] :
              d # c \/ i # Len(stack[c]) => stack'[d][i] = stack[d][i]
<1>1. stack \in [Cpus -> Seq(Frame)]
  BY DEF StackOK
<1> DEFINE s == stack[c]
           t == Append(Interrupted(s), g)
<1>2. s \in Seq(Frame) /\ s # <<>>
  BY <1>1
<1>3. /\ Interrupted(s) \in Seq(Frame) /\ Len(Interrupted(s)) = Len(s) - 1 /\ Len(s) \in Nat /\ Len(s) > 0
      /\ \A i \in 1 .. Len(s) - 1 : Interrupted(s)[i] = s[i]
      /\ DOMAIN s = 1 .. Len(s)
  BY <1>2, EndFacts, SeqFacts
<1>4. /\ t \in Seq(Frame) /\ Len(t) = Len(s) /\ t[Len(s)] = g /\ DOMAIN t = 1 .. Len(s)
      /\ \A i \in 1 .. Len(s) - 1 : t[i] = s[i]
  BY <1>3, AppendFacts, SeqFacts
<1> HIDE DEF t
<1>5. stack' \in [Cpus -> Seq(Frame)] /\ \A d \in Cpus : stack'[d] = IF d = c THEN t ELSE stack[d]
  BY <1>1, <1>4 DEF t
<1>6. \A i \in DOMAIN s : i # Len(s) => i \in 1 .. Len(s) - 1
  BY <1>3
<1>7. \A d \in Cpus : DOMAIN stack'[d] = DOMAIN stack[d]
  BY <1>3, <1>4, <1>5
<1>8. \A d \in Cpus : \A i \in DOMAIN stack[d] :
        d # c \/ i # Len(s) => stack'[d][i] = stack[d][i]
  BY <1>4, <1>5, <1>6, Zenon
<1>9. stack'[c][Len(s)] = g
  BY <1>4, <1>5, Zenon
<1>10. ASSUME NEW d \in Cpus, NEW i \in DOMAIN stack'[d]
       PROVE  AtPiece(stack'[d][i])
  <2>1. CASE d = c /\ i = Len(s)
    BY <1>9, <2>1
  <2>2. CASE ~(d = c /\ i = Len(s))
    BY <1>7, <1>8, <2>2 DEF StackOK
  <2> QED BY <2>1, <2>2
<1> QED BY <1>5, <1>7, <1>8, <1>9, <1>10 DEF StackOK

\* A call begins on top of the others.
LEMMA PushTop ==
  ASSUME StackOK, NEW c \in Cpus, NEW g \in Frame, AtPiece(g),
         stack' = [stack EXCEPT ![c] = Append(stack[c], g)]
  PROVE  /\ StackOK'
         /\ \A d \in Cpus : \A i : i \in DOMAIN stack'[d] <=>
                                     i \in DOMAIN stack[d] \/ (d = c /\ i = Len(stack[c]) + 1)
         /\ Len(stack[c]) + 1 \notin DOMAIN stack[c]
         /\ stack'[c][Len(stack[c]) + 1] = g
         /\ \A d \in Cpus : \A i \in DOMAIN stack[d] : stack'[d][i] = stack[d][i]
<1>1. stack \in [Cpus -> Seq(Frame)]
  BY DEF StackOK
<1> DEFINE s == stack[c]
           t == Append(s, g)
<1>2. s \in Seq(Frame) /\ DOMAIN s = 1 .. Len(s) /\ Len(s) \in Nat
  BY <1>1, SeqFacts
<1>4. /\ t \in Seq(Frame) /\ t[Len(s) + 1] = g /\ DOMAIN t = 1 .. Len(s) + 1
      /\ \A i \in 1 .. Len(s) : t[i] = s[i]
  BY <1>2, AppendFacts, SeqFacts
<1> HIDE DEF t
<1>5. stack' \in [Cpus -> Seq(Frame)] /\ \A d \in Cpus : stack'[d] = IF d = c THEN t ELSE stack[d]
  BY <1>1, <1>4 DEF t
<1>6. \A i : i \in DOMAIN t <=> i \in DOMAIN s \/ i = Len(s) + 1
  BY <1>2, <1>4
<1>7. \A d \in Cpus : \A i : i \in DOMAIN stack'[d] <=>
                               i \in DOMAIN stack[d] \/ (d = c /\ i = Len(s) + 1)
  BY <1>5, <1>6
<1>8. \A d \in Cpus : \A i \in DOMAIN stack[d] : stack'[d][i] = stack[d][i]
  BY <1>2, <1>4, <1>5
<1>9. stack'[c][Len(s) + 1] = g /\ Len(s) + 1 \notin DOMAIN s
  BY <1>2, <1>4, <1>5
<1>10. ASSUME NEW d \in Cpus, NEW i \in DOMAIN stack'[d]
       PROVE  AtPiece(stack'[d][i])
  <2>1. CASE d = c /\ i = Len(s) + 1
    BY <1>9, <2>1
  <2>2. CASE i \in DOMAIN stack[d]
    BY <1>8, <2>2, Zenon DEF StackOK
  <2> QED BY <1>7, <2>1, <2>2
<1> QED BY <1>5, <1>7, <1>8, <1>9, <1>10 DEF StackOK

\* The running call is left.
LEMMA PopTop ==
  ASSUME StackOK, NEW c \in Cpus, stack[c] # <<>>, stack' = [stack EXCEPT ![c] = Interrupted(@)]
  PROVE  /\ StackOK'
         /\ \A d \in Cpus : \A i : i \in DOMAIN stack'[d] <=>
                                     i \in DOMAIN stack[d] /\ (d # c \/ i # Len(stack[c]))
         /\ \A d \in Cpus : \A i \in DOMAIN stack'[d] : stack'[d][i] = stack[d][i]
<1>1. stack \in [Cpus -> Seq(Frame)]
  BY DEF StackOK
<1> DEFINE s == stack[c]
           t == Interrupted(s)
<1>2. s \in Seq(Frame) /\ s # <<>>
  BY <1>1
<1>3. /\ t \in Seq(Frame) /\ Len(t) = Len(s) - 1 /\ Len(s) \in Nat /\ Len(s) > 0
      /\ \A i \in 1 .. Len(s) - 1 : t[i] = s[i]
      /\ DOMAIN s = 1 .. Len(s)
  BY <1>2, EndFacts, SeqFacts, Zenon
<1>4. DOMAIN t = 1 .. Len(s) - 1
  BY <1>3, SeqFacts
<1> HIDE DEF t
<1>5. stack' \in [Cpus -> Seq(Frame)] /\ \A d \in Cpus : stack'[d] = IF d = c THEN t ELSE stack[d]
  BY <1>1, <1>3 DEF t
<1>6. \A i : i \in DOMAIN t <=> i \in DOMAIN s /\ i # Len(s)
  BY <1>3, <1>4
<1>7. \A d \in Cpus : \A i : i \in DOMAIN stack'[d] <=>
                               i \in DOMAIN stack[d] /\ (d # c \/ i # Len(s))
  BY <1>5, <1>6
<1>8. \A d \in Cpus : \A i \in DOMAIN stack'[d] : stack'[d][i] = stack[d][i]
  BY <1>3, <1>4, <1>5
<1>10. \A d \in Cpus : \A i \in DOMAIN stack'[d] :
         AtPiece(stack'[d][i])
  BY <1>7, <1>8 DEF StackOK
<1> QED BY <1>5, <1>7, <1>8, <1>10 DEF StackOK

\* Nobody prints yet.
LEMMA PrintInitInv == PrintInit => PrintInv
<1> SUFFICES ASSUME PrintInit PROVE PrintInv
  OBVIOUS
<1>1. \A c \in Cpus : stack[c] = <<>> /\ DOMAIN stack[c] = {}
  <2>1. \A c \in Cpus : stack[c] = <<>>
    BY Zenon DEF PrintInit
  <2>2. DOMAIN <<>> = {}
    OBVIOUS
  <2> QED BY <2>1, <2>2, Zenon
<1>2. StackOK
  BY <1>1 DEF PrintInit, StackOK
<1>3. \A c, i : ~HolderIs(c, i)
  BY <1>1 DEF HolderIs
<1>4. LogOK /\ Complete /\ Shows(0)
  BY DEF PrintInit, LogOK, Whole, Complete, Shows
<1>5. /\ calls \in Nat /\ term_context \in BOOLEAN
      /\ print_lock \in {0, 1} /\ serial_lock \in {0, 1} /\ console_lock \in {0, 1}
  BY Zenon DEF PrintInit
<1>6. OneHolder /\ DeviceLocks
  BY <1>3 DEF OneHolder, DeviceLocks, PrintInit
<1> QED BY <1>2, <1>3, <1>4, <1>5, <1>6 DEF PrintInv

\* The records that make up a call.
LEMMA CallFacts ==
  ASSUME PrintInv, NEW kind \in {"thread", "interrupt", "exception"},
         NEW fmts \in Seq(Format), fmts # <<>>, NEW after \in {"return", "halted"}
  PROVE  LET g == Call(kind, fmts, after)
         IN g \in Frame /\ AtPiece(g) /\ g.pc = "acquire" /\ ~HoldsLock(g)
<1>1. Head(fmts) \in Format /\ Tail(fmts) \in Seq(Format)
  OBVIOUS
<1>2. calls + 1 \in Nat
  BY DEF PrintInv
<1>3. Len(Head(fmts)) \in Nat /\ Len(Head(fmts)) >= 1
  BY <1>1 DEF Format
<1> DEFINE p == Head(fmts)
           t == Tail(fmts)
           g == Call(kind, fmts, after)
<1> HIDE DEF p, t
<1>4. g = [kind |-> kind, call |-> calls + 1, pieces |-> p, at |-> 1, then |-> t,
           after |-> after, pc |-> "acquire"]
  BY Zenon DEF Call, p, t
<1> HIDE DEF g
<1>5. g \in Frame
  BY <1>1, <1>2, <1>4 DEF Frame, Places, p, t
<1>6. g.at = 1 /\ g.pieces = p /\ g.pc = "acquire"
  BY <1>4, Zenon
<1> QED BY <1>3, <1>5, <1>6 DEF HoldsLock, g, p, AtPiece

\* A call that has moved on.
Moved(f, at, place) == [kind |-> f.kind, call |-> f.call, pieces |-> f.pieces, at |-> at,
                     then |-> f.then, after |-> f.after, pc |-> place]

\* The frame of a call after a step keeps the call and its pieces.
LEMMA MovedFacts ==
  ASSUME NEW f \in Frame, NEW at \in Nat, NEW place \in Places
  PROVE  /\ Moved(f, at, place) \in Frame /\ Moved(f, at, place).at = at /\ Moved(f, at, place).pc = place
         /\ Moved(f, at, place).call = f.call /\ Moved(f, at, place).pieces = f.pieces
BY Zenon DEF Moved, Frame

\* The formats in use.
LEMMA Formats ==
  /\ str \in Format /\ hex \in Format /\ str \o num \in Format
  /\ <<str>> \in Seq(Format) /\ <<hex>> \in Seq(Format) /\ <<str \o num>> \in Seq(Format)
  /\ <<str \o num, hex>> \in Seq(Format) /\ <<str, str \o num>> \in Seq(Format)
<1>1. str \in Format /\ hex \in Format /\ str \o num \in Format
  BY SMTT(20) DEF str, hex, num, Format
<1> QED BY <1>1, SMTT(20)

\* Calls come and go, but not the one that holds print_lock.
LEMMA QuietStep ==
  ASSUME PrintInv, StackOK', calls' \in Nat,
         UNCHANGED <<print_lock, serial_lock, console_lock, buffer, serial, screen>>,
         term_context' = term_context \/ term_context' = TRUE,
         \A c, i : HolderIs(c, i)' <=> HolderIs(c, i),
         \A c, i : HolderIs(c, i) => stack'[c][i] = stack[c][i]
  PROVE  PrintInv'
<1>1. LogOK'
  BY Zenon DEF PrintInv, LogOK, Whole
<1>2. OneHolder'
  BY Zenon DEF PrintInv, OneHolder
<1>3. DeviceLocks'
  BY SMTT(20) DEF PrintInv, DeviceLocks
<1>4. \A f : HolderInv(f) => HolderInv(f)'
  <2>1. (Complete' <=> Complete) /\ (Shows(0)' <=> Shows(0)) /\ (Shows(1)' <=> Shows(1))
    BY Zenon DEF Complete, Shows
  <2> QED BY <2>1, SMTT(20) DEF HolderInv, IsNumber, Sent, SentPiece, Showing
<1>5. \A c, i : HolderIs(c, i)' => print_lock' = 1 /\ HolderInv(stack[c][i])'
  BY <1>4, Zenon DEF PrintInv
<1>6. (\A c, i : ~HolderIs(c, i)) => Complete' /\ Shows(0)'
  BY Zenon DEF PrintInv, Complete, Shows
<1> QED BY <1>1, <1>2, <1>3, <1>5, <1>6, Zenon DEF PrintInv

\* The one call that holds print_lock goes on: everything else depends on nothing that
\* it changes.
LEMMA HolderStep ==
  ASSUME PrintInv, NEW c \in Cpus, stack[c] # <<>>,
         \A d, i : HolderIs(d, i) => d = c /\ i = Len(stack[c]),
         NEW g \in Frame, AtPiece(g),
         stack' = [stack EXCEPT ![c] = Append(Interrupted(@), g)],
         LogOK', UNCHANGED <<calls, term_context>>,
         print_lock' = 1 \/ ~HoldsLock(g), print_lock' \in {0, 1},
         serial_lock' \in {0, 1}, console_lock' \in {0, 1},
         serial_lock' = 1 => g.pc = "serial", console_lock' = 1 => g.pc = "console",
         HoldsLock(g) => HolderInv(g)',
         ~HoldsLock(g) => Complete' /\ Shows(0)'
  PROVE  PrintInv'
<1>n. PICK n : n = Len(stack[c])
  BY Zenon
<1>0. StackOK /\ OneHolder
  BY Zenon DEF PrintInv
<1>1. n \in DOMAIN stack[c] /\ Running(c) = stack[c][n]
  BY <1>0, <1>n, TopFacts, Zenon
<1>2. /\ StackOK'
      /\ \A d \in Cpus : DOMAIN stack'[d] = DOMAIN stack[d]
      /\ stack'[c][n] = g
      /\ \A d \in Cpus : \A i \in DOMAIN stack[d] :
           d # c \/ i # n => stack'[d][i] = stack[d][i]
  <2>1. /\ StackOK'
        /\ \A d \in Cpus : DOMAIN stack'[d] = DOMAIN stack[d]
        /\ stack'[c][Len(stack[c])] = g
        /\ \A d \in Cpus : \A i \in DOMAIN stack[d] :
             d # c \/ i # Len(stack[c]) => stack'[d][i] = stack[d][i]
    BY <1>0, ReplaceTop, Zenon
  <2> QED BY <1>n, <2>1
<1>4. ASSUME NEW d, NEW i, HolderIs(d, i)' PROVE d = c /\ i = n /\ HoldsLock(g) /\ stack'[d][i] = g
  <2>1. d \in Cpus /\ i \in DOMAIN stack[d] /\ HoldsLock(stack'[d][i])
    BY <1>2, <1>4 DEF HolderIs
  <2>2. d = c /\ i = n
    <3>1. SUFFICES ASSUME d # c \/ i # n PROVE FALSE
      BY Zenon
    <3>2. HolderIs(d, i)
      BY <1>2, <2>1, <3>1, Zenon DEF HolderIs
    <3> QED BY <1>n, <3>1, <3>2
  <2> QED BY <1>2, <2>1, <2>2, Zenon
<1>5. HoldsLock(g) => HolderIs(c, n)'
  BY <1>1, <1>2 DEF HolderIs
<1>6. OneHolder'
  BY <1>4 DEF OneHolder
<1>7. g.pc \in {"serial", "console"} => HoldsLock(g)
  BY DEF HoldsLock
<1>8. DeviceLocks'
  <2>1. serial_lock' = 1 => HolderIs(c, n)' /\ stack'[c][n].pc = "serial"
    BY <1>2, <1>5, <1>7, Zenon
  <2>2. console_lock' = 1 => HolderIs(c, n)' /\ stack'[c][n].pc = "console"
    BY <1>2, <1>5, <1>7, Zenon
  <2> QED BY <2>1, <2>2, Zenon DEF DeviceLocks
<1>9. ASSUME NEW d, NEW i, HolderIs(d, i)' PROVE print_lock' = 1 /\ HolderInv(stack[d][i])'
  <2>1. HoldsLock(g) /\ stack'[d][i] = g
    BY <1>4, <1>9, Zenon
  <2>2. HolderInv(stack[d][i])' <=> HolderInv(g)'
    BY <2>1, Zenon DEF HolderInv, IsNumber, Sent, SentPiece, Showing
  <2> QED BY <2>1, <2>2, Zenon
<1>10. (\A d, i : ~HolderIs(d, i)') => Complete' /\ Shows(0)'
  BY <1>5, Zenon
<1>11. calls' \in Nat /\ term_context' \in BOOLEAN
  BY Zenon DEF PrintInv
<1> QED BY <1>2, <1>6, <1>8, <1>9, <1>10, <1>11, Zenon DEF PrintInv

\* What is known of the call that holds print_lock when it runs.
LEMMA HolderFacts ==
  ASSUME PrintInv, NEW c \in Cpus, NEW place \in Places, Active(c, place)
  PROVE  /\ StackOK /\ stack[c] # <<>> /\ Running(c) \in Frame /\ AtPiece(Running(c)) /\ Running(c).pc = place
         /\ Running(c).at \in Nat /\ Running(c).call \in Nat /\ Len(Running(c).pieces) \in Nat
         /\ HoldsLock(Running(c)) =>
              /\ print_lock = 1 /\ HolderInv(Running(c))
              /\ \A d, i : HolderIs(d, i) => d = c /\ i = Len(stack[c])
              /\ serial_lock = 1 => place = "serial"
              /\ console_lock = 1 => place = "console"
         /\ print_lock = 0 => \A d, i : ~HolderIs(d, i)
<1>1. StackOK /\ stack[c] # <<>> /\ Running(c).pc = place
  BY Zenon DEF Active, PrintInv
<1>2. /\ Len(stack[c]) \in DOMAIN stack[c] /\ Running(c) = stack[c][Len(stack[c])]
      /\ Running(c) \in Frame /\ AtPiece(Running(c))
  BY <1>1, TopFacts, Zenon
<1>3. Running(c).at \in Nat /\ Running(c).call \in Nat /\ Len(Running(c).pieces) \in Nat
  BY <1>2 DEF Frame, Format
<1>4. print_lock = 0 => \A d, i : ~HolderIs(d, i)
  BY DEF PrintInv
<1>5. ASSUME HoldsLock(Running(c))
      PROVE  /\ print_lock = 1 /\ HolderInv(Running(c))
             /\ \A d, i : HolderIs(d, i) => d = c /\ i = Len(stack[c])
             /\ serial_lock = 1 => place = "serial"
             /\ console_lock = 1 => place = "console"
  <2>1. HolderIs(c, Len(stack[c]))
    BY <1>2, <1>5, Zenon DEF HolderIs
  <2>2. \A d, i : HolderIs(d, i) => d = c /\ i = Len(stack[c])
    BY <2>1 DEF PrintInv, OneHolder
  <2>3. print_lock = 1 /\ HolderInv(Running(c))
    BY <1>2, <2>1, Zenon DEF PrintInv
  <2>4. (serial_lock = 1 => place = "serial") /\ (console_lock = 1 => place = "console")
    BY <1>1, <1>2, <2>2, Zenon DEF PrintInv, DeviceLocks
  <2> QED BY <2>2, <2>3, <2>4
<1> QED BY <1>1, <1>2, <1>3, <1>4, <1>5, Zenon

\* The running call of c has become g, which is at this piece and place.
WentOn(c, at, to, g) ==
  /\ AtPiece(g) /\ stack' = [stack EXCEPT ![c] = Append(Interrupted(@), g)]
  /\ g.at = at /\ g.pc = to /\ g.call = Running(c).call /\ g.pieces = Running(c).pieces

\* GoOn replaces the running call by itself, moved.
LEMMA GoOnFacts ==
  ASSUME PrintInv, NEW c \in Cpus, NEW place \in Places, Active(c, place),
         NEW at \in 1 .. Len(Running(c).pieces), NEW to \in Places \ {"acquire"}, GoOn(c, at, to)
  PROVE  \E g \in Frame : WentOn(c, at, to, g)
<1>1. Running(c) \in Frame /\ Len(Running(c).pieces) \in Nat
  BY HolderFacts, Zenon
<1>2. PICK g : g = Moved(Running(c), at, to)
  BY Zenon
<1>3. at \in Nat
  BY <1>1, SMTT(20)
<1>4. g \in Frame /\ g.at = at /\ g.pc = to /\ g.call = Running(c).call /\ g.pieces = Running(c).pieces
  <2>1. to \in Places
    BY ZenonT(30)
  <2>2. /\ Moved(Running(c), at, to) \in Frame /\ Moved(Running(c), at, to).at = at
        /\ Moved(Running(c), at, to).pc = to /\ Moved(Running(c), at, to).call = Running(c).call
        /\ Moved(Running(c), at, to).pieces = Running(c).pieces
    BY <1>1, <1>3, <2>1, MovedFacts, SMTT(20)
  <2> QED BY <1>2, <2>2, Zenon
<1>5. stack' = [stack EXCEPT ![c] = Append(Interrupted(@), g)]
  BY <1>2, Zenon DEF GoOn, Moved
<1> QED BY <1>4, <1>5, Zenon DEF WentOn, AtPiece

\* A call takes print_lock: nobody had it, and everything sent before is complete.
LEMMA AcquireStep == ASSUME PrintInv, NEW c \in Cpus, Acquire(c) PROVE PrintInv'
<1>1. Active(c, "acquire") /\ print_lock = 0 /\ "acquire" \in Places /\ "convert" \in Places \ {"acquire"}
  BY ZenonT(30) DEF Acquire, Places
<1>2. /\ stack[c] # <<>> /\ Running(c).pc = "acquire" /\ AtPiece(Running(c))
      /\ \A d, i : ~HolderIs(d, i)
  BY <1>1, HolderFacts, ZenonT(30)
<1>3. PICK g \in Frame : /\ AtPiece(g) /\ stack' = [stack EXCEPT ![c] = Append(Interrupted(@), g)]
                         /\ g.at = 1 /\ g.pc = "convert"
  <2>1. Running(c).at \in 1 .. Len(Running(c).pieces) /\ Running(c).at = 1
    BY <1>2, Zenon DEF AtPiece
  <2>2. GoOn(c, 1, "convert")
    BY <2>1, Zenon DEF Acquire, Continue
  <2>3. 1 \in 1 .. Len(Running(c).pieces)
    BY <2>1, Zenon
  <2>4. PICK g \in Frame : WentOn(c, 1, "convert", g)
    BY <1>1, <2>2, <2>3, GoOnFacts, Zenon
  <2> QED BY <2>4, Zenon DEF WentOn
<1>4. /\ print_lock' = 1
      /\ UNCHANGED <<serial_lock, console_lock, buffer, term_context, serial, screen, calls>>
  BY ZenonT(30) DEF Acquire
<1>5. Complete /\ Shows(0) /\ LogOK
  BY <1>2, ZenonT(30) DEF PrintInv
<1>6. Complete' /\ Shows(0)' /\ LogOK'
  BY <1>4, <1>5, Zenon DEF Complete, Shows, LogOK, Whole
<1>7. HolderInv(g)'
  BY <1>3, <1>6, SMTT(20) DEF HolderInv, Sent, Showing
<1>8. serial_lock \in {0, 1} /\ console_lock \in {0, 1} /\ serial_lock # 1 /\ console_lock # 1
  BY <1>2, Zenon DEF PrintInv, DeviceLocks
<1> QED BY <1>2, <1>3, <1>4, <1>6, <1>7, <1>8, HolderStep, ZenonT(30)

\* Two calls at the same piece that have sent and shown the same of it.
LEMMA SameStage ==
  ASSUME NEW f, NEW g, g.at = f.at, g.call = f.call, g.pieces = f.pieces,
         g.pc \in {"convert", "serial_acquire", "serial"} <=> f.pc \in {"convert", "serial_acquire", "serial"},
         g.pc \in {"console_acquire", "console"} <=> f.pc \in {"console_acquire", "console"}
  PROVE  /\ IsNumber(g) = IsNumber(f) /\ Sent(g) = Sent(f) /\ SentPiece(g) = SentPiece(f)
         /\ Showing(g) = Showing(f)
<1>1. IsNumber(g) = IsNumber(f) /\ Sent(g) = Sent(f) /\ SentPiece(g) = SentPiece(f)
  BY Zenon DEF IsNumber, Sent, SentPiece
<1>2. Showing(g) = Showing(f)
  BY SMTT(20) DEF Showing
<1> QED BY <1>1, <1>2, Zenon

\* The steps that only move on, under print_lock, and take the locks of the devices.
LEMMA MoveStep ==
  ASSUME PrintInv, NEW c \in Cpus, Convert(c) \/ serial_out(c) \/ console_write(c)
  PROVE  PrintInv'
<1> DEFINE f == Running(c)
<1>1. PICK place \in Places : Active(c, place) /\ place \in {"convert", "serial_acquire", "console_acquire"}
  BY Zenon DEF Convert, serial_out, console_write, Places
<1>2. /\ stack[c] # <<>> /\ f \in Frame /\ AtPiece(f) /\ f.pc = place
      /\ f.at \in Nat /\ f.call \in Nat /\ Len(f.pieces) \in Nat /\ HoldsLock(f)
      /\ print_lock = 1 /\ HolderInv(f)
      /\ \A d, i : HolderIs(d, i) => d = c /\ i = Len(stack[c])
      /\ serial_lock # 1 /\ console_lock # 1
  <2>1. f.pc = place
    BY <1>1, HolderFacts, Zenon
  <2>2. HoldsLock(f)
    BY <1>1, <2>1, Zenon DEF HoldsLock
  <2> QED BY <1>1, <2>1, <2>2, HolderFacts, Zenon
<1> DEFINE to == IF place = "convert" THEN "serial_acquire"
                 ELSE IF place = "serial_acquire" THEN "serial" ELSE "console"
<1>3. GoOn(c, f.at, to)
  BY <1>1, <1>2, Zenon DEF Convert, serial_out, console_write, Continue, Active
<1>4. PICK g \in Frame : /\ AtPiece(g) /\ stack' = [stack EXCEPT ![c] = Append(Interrupted(@), g)]
                         /\ g.at = f.at /\ g.pc = to /\ g.call = f.call /\ g.pieces = f.pieces
  <2>1. f.at \in 1 .. Len(f.pieces) /\ to \in Places \ {"acquire"}
    BY <1>2, Zenon DEF AtPiece, Places
  <2>2. PICK g \in Frame : WentOn(c, f.at, to, g)
    BY <1>1, <1>3, <2>1, GoOnFacts, Zenon
  <2> QED BY <2>2, Zenon DEF WentOn
<1>5. UNCHANGED <<print_lock, term_context, serial, screen, calls>>
  BY Zenon DEF Convert, serial_out, console_write
<1>6. IF place = "convert" THEN UNCHANGED <<serial_lock, console_lock>>
                                /\ buffer' = IF IsNumber(f) THEN f.call ELSE buffer
      ELSE IF place = "serial_acquire" THEN UNCHANGED <<console_lock, buffer>> /\ serial_lock' = 1
      ELSE UNCHANGED <<serial_lock, buffer>> /\ console_lock' = 1
  BY <1>1, <1>2, Zenon DEF Convert, serial_out, console_write, Active
<1>7. serial_lock' \in {0, 1} /\ console_lock' \in {0, 1} /\ serial_lock \in {0, 1} /\ console_lock \in {0, 1}
  BY <1>6, Zenon DEF PrintInv
<1>8. LogOK'
  BY <1>5, Zenon DEF PrintInv, LogOK, Whole
<1>9. IsNumber(g) = IsNumber(f) /\ Sent(g) = Sent(f) /\ SentPiece(g) = SentPiece(f) /\ Showing(g) = Showing(f)
  <2>1. /\ g.pc \in {"convert", "serial_acquire", "serial"} <=> f.pc \in {"convert", "serial_acquire", "serial"}
        /\ g.pc \in {"console_acquire", "console"} <=> f.pc \in {"console_acquire", "console"}
    BY <1>1, <1>2, <1>4, Zenon
  <2> QED BY <1>4, <2>1, SameStage, Zenon
<1>10. (Complete' <=> Complete) /\ (Shows(0)' <=> Shows(0)) /\ (Shows(1)' <=> Shows(1))
  BY <1>5, Zenon DEF Complete, Shows
<1>11. IsNumber(f) /\ g.pc \in {"serial_acquire", "serial", "console_acquire", "console"} => buffer' = f.call
  <2>1. CASE place = "convert"
    BY <1>6, <2>1, Zenon
  <2>2. CASE place # "convert"
    <3>1. f.pc \in {"serial_acquire", "serial", "console_acquire", "console"}
      BY <1>1, <1>2, <2>2, Zenon
    <3>2. buffer' = buffer
      BY <1>6, <2>2, Zenon
    <3> QED BY <1>2, <3>1, <3>2, Zenon DEF HolderInv
  <2> QED BY <2>1, <2>2, Zenon
<1>12. IF Sent(f) = 0 THEN Complete'
       ELSE serial' # <<>> /\ serial'[Len(serial')] = SentPiece(f)
  BY <1>2, <1>5, <1>10, Zenon DEF HolderInv
<1>13. IF Showing(f) THEN term_context' /\ Shows(1)' ELSE Shows(0)'
  BY <1>2, <1>5, <1>10, Zenon DEF HolderInv
<1>14. HolderInv(g)'
  <2>1. /\ IsNumber(g)' = IsNumber(f) /\ Sent(g)' = Sent(f) /\ SentPiece(g)' = SentPiece(f)
        /\ Showing(g)' = Showing(f)
    BY <1>9, Zenon DEF IsNumber, Sent, SentPiece, Showing
  <2> QED BY <1>4, <1>11, <1>12, <1>13, <2>1, Zenon DEF HolderInv
<1>15. (serial_lock' = 1 => g.pc = "serial") /\ (console_lock' = 1 => g.pc = "console")
  BY <1>1, <1>2, <1>4, <1>6, Zenon
<1>16. print_lock' = 1 /\ HoldsLock(g)
  BY <1>2, <1>4, <1>5, ZenonT(30) DEF HoldsLock
<1> HIDE DEF f
<1> QED BY <1>2, <1>4, <1>5, <1>7, <1>8, <1>14, <1>15, <1>16, HolderStep, Zenon

\* What the running call, which holds print_lock, gives out is its own piece.
LEMMA OwnOutput ==
  ASSUME NEW f \in Frame, HolderInv(f), f.pc \in {"serial", "console"}
  PROVE  Output(f) = [call |-> f.call, at |-> f.at, of |-> Len(f.pieces), val |-> f.call]
BY ZenonT(30) DEF HolderInv, Output

\* The piece is sent to the serial port, behind those of its own call.
LEMMA TransmitStep == ASSUME PrintInv, NEW c \in Cpus, Transmit(c) PROVE PrintInv'
<1>n. PICK f : f = Running(c)
  BY Zenon
<1>1. Active(c, "serial") /\ "serial" \in Places
  BY ZenonT(30) DEF Transmit, Places
<1>2. /\ stack[c] # <<>> /\ f \in Frame /\ AtPiece(f) /\ f.pc = "serial"
      /\ f.at \in Nat /\ f.call \in Nat /\ Len(f.pieces) \in Nat
      /\ print_lock = 1 /\ HolderInv(f)
      /\ \A d, i : HolderIs(d, i) => d = c /\ i = Len(stack[c])
      /\ console_lock # 1
  <2>1. f.pc = "serial"
    BY <1>n, <1>1, HolderFacts, Zenon
  <2>2. HoldsLock(f)
    BY <2>1, Zenon DEF HoldsLock
  <2> QED BY <1>n, <1>1, <2>1, <2>2, HolderFacts, Zenon
<1>3. PICK to : to = IF term_context THEN "console_acquire" ELSE "next"
  BY ZenonT(30)
<1>4. PICK g \in Frame : /\ AtPiece(g) /\ stack' = [stack EXCEPT ![c] = Append(Interrupted(@), g)]
                         /\ g.at = f.at /\ g.pc = to /\ g.call = f.call /\ g.pieces = f.pieces
  <2>1. f.at \in 1 .. Len(f.pieces) /\ to \in Places \ {"acquire"}
    BY <1>2, <1>3, Zenon DEF AtPiece, Places
  <2>2. GoOn(c, f.at, to)
    BY <1>n, <1>3, Zenon DEF Transmit, Continue
  <2>3. PICK g \in Frame : WentOn(c, f.at, to, g)
    BY <1>n, <1>1, <2>1, <2>2, GoOnFacts, Zenon
  <2> QED BY <1>n, <2>3, Zenon DEF WentOn
<1>5. PICK p : p = [call |-> f.call, at |-> f.at, of |-> Len(f.pieces), val |-> f.call]
  BY ZenonT(30)
<1>6. /\ serial' = Append(serial, p) /\ serial_lock' = 0
      /\ UNCHANGED <<print_lock, console_lock, buffer, term_context, screen, calls>>
  <2>1. Output(f) = p
    BY <1>2, <1>5, OwnOutput, ZenonT(30)
  <2> QED BY <1>n, <2>1, ZenonT(30) DEF Transmit
<1>7. /\ p \in Piece /\ p.call = f.call /\ p.val = f.call /\ p.at = f.at /\ p.of = Len(f.pieces)
  BY <1>2, <1>5, Zenon DEF Piece
<1>8. serial \in Seq(Piece) /\ screen \in Seq(Piece) /\ Whole(serial) /\ (~term_context => screen = <<>>)
  BY Zenon DEF PrintInv, LogOK
<1>9. PICK n : n = Len(serial)
  BY ZenonT(30)
<1>10. /\ n \in Nat /\ serial' \in Seq(Piece) /\ serial' # <<>> /\ Len(serial') = n + 1
       /\ serial'[n + 1] = p /\ \A i \in 1 .. n : serial'[i] = serial[i]
       /\ DOMAIN serial = 1 .. n /\ DOMAIN serial' = 1 .. n + 1
  <2>1. serial' \in Seq(Piece) /\ Len(serial') = n + 1
    BY <1>6, <1>7, <1>8, <1>9, AppendFacts, ZenonT(30)
  <2>2. DOMAIN serial = 1 .. n /\ DOMAIN serial' = 1 .. n + 1
    BY <1>8, <1>9, <2>1, SeqFacts, Zenon
  <2>3. n \in Nat /\ serial' # <<>> /\ serial'[n + 1] = p /\ \A i \in 1 .. n : serial'[i] = serial[i]
    BY <1>6, <1>7, <1>8, <1>9, AppendFacts, SMTT(20)
  <2> QED BY <2>1, <2>2, <2>3, ZenonT(30)
<1>11. /\ f.at = 1 => Complete
       /\ f.at # 1 => n > 0 /\ serial[n].call = f.call /\ serial[n].at = f.at - 1
                            /\ serial[n].of = Len(f.pieces)
  <2>1. Sent(f) = f.at - 1
    BY <1>2, ZenonT(30) DEF Sent
  <2>2. f.at = 1 => Complete
    BY <1>2, <2>1, SMTT(20) DEF HolderInv
  <2>3. f.at # 1 => serial # <<>> /\ serial[n] = SentPiece(f)
    BY <1>2, <1>9, <2>1, SMTT(20) DEF HolderInv
  <2>4. serial # <<>> => n > 0
    BY <1>8, <1>9, SeqFacts, Zenon
  <2> QED BY <2>1, <2>2, <2>3, <2>4, SMTT(20) DEF SentPiece
<1>12. Whole(serial)'
  <2>1. SUFFICES ASSUME NEW i \in 1 .. n + 1
                 PROVE  /\ serial'[i].val = serial'[i].call
                        /\ IF serial'[i].at = 1
                           THEN i > 1 => serial'[i - 1].at = serial'[i - 1].of
                           ELSE /\ i > 1 /\ serial'[i - 1].at = serial'[i].at - 1
                                /\ serial'[i - 1].call = serial'[i].call
                                /\ serial'[i - 1].of = serial'[i].of
    BY <1>10, Zenon DEF Whole
  <2>2. CASE i \in 1 .. n
    <3>1. serial'[i] = serial[i] /\ (i > 1 => serial'[i - 1] = serial[i - 1])
      BY <1>10, <2>2, SMTT(20)
    <3>2. i \in DOMAIN serial
      BY <1>10, <2>2, Zenon
    <3> QED BY <1>8, <3>1, <3>2, Zenon DEF Whole
  <2>3. CASE i = n + 1
    <3>1. serial'[i] = p /\ (n > 0 => serial'[i - 1] = serial[n])
      BY <1>10, <2>3
    <3>2. i > 1 <=> n > 0
      BY <1>10, <2>3
    <3>3. ASSUME p.at = 1, n > 0 PROVE serial[n].at = serial[n].of
      <4>1. serial # <<>>
        BY <1>8, <1>9, <3>3, SeqFacts, Zenon
      <4> QED BY <1>7, <1>9, <1>11, <3>3, <4>1, Zenon DEF Complete
    <3> QED BY <1>7, <1>11, <3>1, <3>2, <3>3, Zenon
  <2> QED BY <1>10, <2>2, <2>3, SMTT(20)
<1>13. LogOK'
  BY <1>6, <1>8, <1>10, <1>12, Zenon DEF LogOK
<1>14. Shows(0)
  BY <1>2 DEF HolderInv, Showing
<1>15. IF term_context THEN Shows(1)' ELSE Shows(0)'
  <2>1. Len(screen) \in Nat /\ DOMAIN screen = 1 .. Len(screen)
    BY <1>8, SeqFacts, Zenon
  <2>2. CASE term_context
    <3>1. Len(screen) <= n /\ \A i \in 1 .. Len(screen) : screen[i] = serial[n - Len(screen) + i]
      <4>1. Len(screen) + 0 <= n
        BY <1>9, <1>14, Zenon DEF Shows
      <4>2. \A i \in 1 .. Len(screen) : screen[i] = serial[n - 0 - Len(screen) + i]
        BY <1>9, <1>14, <2>1 DEF Shows
      <4>3. n - 0 = n /\ Len(screen) + 0 = Len(screen)
        BY <1>10, <2>1
      <4> QED BY <4>1, <4>2, <4>3, Zenon
    <3>2. Len(screen) + 1 <= n + 1 /\ n + 1 - 1 = n
      BY <1>10, <2>1, <3>1
    <3>3. \A i \in 1 .. Len(screen) : n - Len(screen) + i \in 1 .. n
      BY <1>10, <2>1, <3>1
    <3>4. \A i \in 1 .. Len(screen) : screen[i] = serial'[n + 1 - 1 - Len(screen) + i]
      BY <1>10, <3>1, <3>2, <3>3
    <3> QED BY <1>6, <1>10, <2>1, <2>2, <3>2, <3>4 DEF Shows
  <2>3. CASE ~term_context
    <3>1. screen' = <<>> /\ Len(screen') = 0 /\ DOMAIN screen' = {}
      BY <1>6, <1>8, <2>3
    <3> QED BY <1>10, <2>3, <3>1 DEF Shows
  <2> QED BY <2>2, <2>3
<1>16. HolderInv(g)'
  <2>1. IsNumber(g)' = IsNumber(f) /\ Sent(g)' = f.at /\ SentPiece(g)' = p
    BY <1>2, <1>3, <1>4, <1>5, Zenon DEF IsNumber, Sent, SentPiece
  <2>2. Showing(g)' <=> term_context'
    BY <1>3, <1>4, <1>6, Zenon DEF Showing
  <2>3. IsNumber(f) => buffer' = f.call
    BY <1>2, <1>6, Zenon DEF HolderInv
  <2>4. f.at # 0
    BY <1>2 DEF AtPiece
  <2>5. serial'[Len(serial')] = p
    BY <1>10, Zenon
  <2> QED BY <1>4, <1>6, <1>10, <1>15, <2>1, <2>2, <2>3, <2>4, <2>5, Zenon DEF HolderInv
<1>17. print_lock' = 1 /\ console_lock' \in {0, 1} /\ console_lock' # 1
  BY <1>2, <1>6, Zenon DEF PrintInv
<1>18. HoldsLock(g)
  BY <1>3, <1>4 DEF HoldsLock
<1> QED BY <1>2, <1>4, <1>6, <1>13, <1>16, <1>17, <1>18, HolderStep, ZenonT(30)

\* The piece is shown: it is the last one that was sent.
LEMMA ShowStep == ASSUME PrintInv, NEW c \in Cpus, Show(c) PROVE PrintInv'
<1>n. PICK f : f = Running(c)
  BY Zenon
<1>1. Active(c, "console") /\ "console" \in Places /\ "next" \in Places \ {"acquire"}
  BY Zenon DEF Show, Places
<1>2. /\ stack[c] # <<>> /\ f \in Frame /\ AtPiece(f) /\ f.pc = "console"
      /\ f.at \in Nat /\ f.call \in Nat /\ Len(f.pieces) \in Nat
      /\ print_lock = 1 /\ HolderInv(f)
      /\ \A d, i : HolderIs(d, i) => d = c /\ i = Len(stack[c])
      /\ serial_lock # 1
  <2>1. f.pc = "console"
    BY <1>n, <1>1, HolderFacts, Zenon
  <2>2. HoldsLock(f)
    BY <2>1, Zenon DEF HoldsLock
  <2> QED BY <1>n, <1>1, <2>1, <2>2, HolderFacts, Zenon
<1>4. PICK g \in Frame : /\ AtPiece(g) /\ stack' = [stack EXCEPT ![c] = Append(Interrupted(@), g)]
                         /\ g.at = f.at /\ g.pc = "next" /\ g.call = f.call /\ g.pieces = f.pieces
  <2>1. f.at \in 1 .. Len(f.pieces)
    BY <1>2, Zenon DEF AtPiece
  <2>2. GoOn(c, f.at, "next")
    BY <1>n, Zenon DEF Show, Continue
  <2>3. PICK g \in Frame : WentOn(c, f.at, "next", g)
    BY <1>n, <1>1, <2>1, <2>2, GoOnFacts, Zenon
  <2> QED BY <1>n, <2>3, Zenon DEF WentOn
<1>5. PICK p : p = [call |-> f.call, at |-> f.at, of |-> Len(f.pieces), val |-> f.call]
  BY Zenon
<1>6. /\ screen' = Append(screen, p) /\ console_lock' = 0
      /\ UNCHANGED <<print_lock, serial_lock, buffer, term_context, serial, calls>>
  <2>1. Output(f) = p
    BY <1>2, <1>5, OwnOutput, Zenon
  <2> QED BY <1>n, <2>1, Zenon DEF Show
<1>7. p \in Piece
  BY <1>2, <1>5, Zenon DEF Piece
<1>8. serial \in Seq(Piece) /\ screen \in Seq(Piece) /\ Whole(serial)
  BY Zenon DEF PrintInv, LogOK
<1>9. PICK n, m : n = Len(serial) /\ m = Len(screen)
  BY Zenon
<1>10. /\ n \in Nat /\ m \in Nat /\ screen' \in Seq(Piece) /\ Len(screen') = m + 1
       /\ screen'[m + 1] = p /\ \A i \in 1 .. m : screen'[i] = screen[i]
       /\ DOMAIN screen = 1 .. m /\ DOMAIN screen' = 1 .. m + 1
  <2>1. screen' \in Seq(Piece) /\ Len(screen') = m + 1
    BY <1>6, <1>7, <1>8, <1>9, AppendFacts, Zenon
  <2>2. DOMAIN screen = 1 .. m /\ DOMAIN screen' = 1 .. m + 1
    BY <1>8, <1>9, <2>1, SeqFacts, Zenon
  <2> QED BY <1>6, <1>7, <1>8, <1>9, <2>1, <2>2, AppendFacts, SeqFacts, SMTT(20)
<1>11. term_context /\ Shows(1) /\ serial # <<>> /\ serial[n] = p
  <2>1. Sent(f) = f.at /\ f.at # 0
    BY <1>2, SMTT(20) DEF Sent, AtPiece
  <2>2. SentPiece(f) = p
    BY <1>5, <2>1, Zenon DEF SentPiece
  <2>3. Showing(f)
    BY <1>2, Zenon DEF Showing
  <2> QED BY <1>2, <1>9, <2>1, <2>2, <2>3, Zenon DEF HolderInv
<1>12. LogOK'
  BY <1>6, <1>8, <1>10, <1>11, Zenon DEF LogOK, Whole
<1>13. Shows(0)'
  <2>1. m + 1 <= n /\ \A i \in 1 .. m : screen[i] = serial[n - 1 - m + i]
    BY <1>9, <1>10, <1>11, Zenon DEF Shows
  <2>2. m + 1 + 0 <= n
    BY <1>10, <2>1, SMTT(20)
  <2>3. ASSUME NEW i \in 1 .. m + 1
        PROVE  screen'[i] = serial[n - 0 - (m + 1) + i]
    <3>1. CASE i \in 1 .. m
      <4>1. n - 0 - (m + 1) + i = n - 1 - m + i
        BY <1>10, <3>1, SMTT(20)
      <4> QED BY <1>10, <2>1, <3>1, <4>1, Zenon
    <3>2. CASE i = m + 1
      <4>1. n - 0 - (m + 1) + i = n
        BY <1>10, <3>2
      <4> QED BY <1>10, <1>11, <3>2, <4>1, Zenon
    <3>3. i \in 1 .. m \/ i = m + 1
      BY <1>10, SMTT(20)
    <3> QED BY <3>1, <3>2, <3>3, Zenon
  <2> QED BY <1>6, <1>9, <1>10, <2>2, <2>3, ZenonT(30) DEF Shows
<1>14. HolderInv(g)'
  <2>1. Sent(g)' = f.at /\ SentPiece(g)' = p
    BY <1>2, <1>4, <1>5, Zenon DEF Sent, SentPiece
  <2>2. ~Showing(g)'
    BY <1>4, Zenon DEF Showing
  <2>3. serial'[Len(serial')] = p /\ serial' # <<>>
    BY <1>6, <1>9, <1>11, Zenon
  <2>4. f.at # 0
    BY <1>2, SMTT(20) DEF AtPiece
  <2> QED BY <1>4, <1>13, <2>1, <2>2, <2>3, <2>4, Zenon DEF HolderInv
<1>15. print_lock' = 1 /\ serial_lock' \in {0, 1} /\ serial_lock' # 1 /\ HoldsLock(g)
  BY <1>2, <1>4, <1>6, Zenon DEF PrintInv, HoldsLock
<1> QED BY <1>2, <1>4, <1>6, <1>12, <1>14, <1>15, HolderStep, Zenon

\* The next piece, or the end of the call.
LEMMA PieceEnds ==
  ASSUME PrintInv, NEW c \in Cpus, NextPiece(c) \/ Release(c)
  PROVE  PrintInv'
<1>n. PICK f : f = Running(c)
  BY Zenon
<1>1. Active(c, "next") /\ "next" \in Places /\ {"convert", "return"} \subseteq Places \ {"acquire"}
  BY Zenon DEF NextPiece, Release, Places
<1>2. /\ stack[c] # <<>> /\ f \in Frame /\ AtPiece(f) /\ f.pc = "next"
      /\ f.at \in Nat /\ f.call \in Nat /\ Len(f.pieces) \in Nat
      /\ print_lock = 1 /\ HolderInv(f)
      /\ \A d, i : HolderIs(d, i) => d = c /\ i = Len(stack[c])
      /\ serial_lock # 1 /\ console_lock # 1
  <2>1. f.pc = "next"
    BY <1>n, <1>1, HolderFacts, Zenon
  <2>2. HoldsLock(f)
    BY <2>1, Zenon DEF HoldsLock
  <2> QED BY <1>n, <1>1, <2>1, <2>2, HolderFacts, Zenon
<1>3. /\ UNCHANGED <<serial_lock, console_lock, buffer, term_context, serial, screen, calls>>
      /\ serial_lock \in {0, 1} /\ console_lock \in {0, 1} /\ LogOK
  BY DEF NextPiece, Release, PrintInv
<1>4. LogOK'
  BY <1>3, Zenon DEF LogOK, Whole
<1>5. /\ f.at # 0 /\ f.at \in 1 .. Len(f.pieces)
      /\ serial # <<>> /\ serial[Len(serial)] = SentPiece(f) /\ Sent(f) = f.at /\ Shows(0)
  <2>1. f.at # 0 /\ f.at \in 1 .. Len(f.pieces)
    BY <1>2 DEF AtPiece
  <2>2. Sent(f) = f.at /\ ~Showing(f)
    BY <1>2, Zenon DEF Sent, Showing
  <2> QED BY <1>2, <2>1, <2>2, Zenon DEF HolderInv
<1>6. Shows(0)'
  BY <1>3, <1>5 DEF Shows
<1>7. CASE NextPiece(c)
  <2>n. PICK n : n = f.at + 1
    BY Zenon
  <2>1. n \in 1 .. Len(Running(c).pieces) /\ Sent(f) = n - 1
    <3>1. f.at < Len(f.pieces) /\ f.at \in Nat /\ Len(f.pieces) \in Nat /\ Sent(f) = f.at
      BY <1>n, <1>2, <1>5, <1>7, Zenon DEF NextPiece
    <3>2. n \in 1 .. Len(f.pieces) /\ Sent(f) = n - 1
      BY <2>n, <3>1, SMTT(20)
    <3> QED BY <1>n, <3>2, Zenon
  <2>2. GoOn(c, n, "convert") /\ print_lock' = 1
    BY <1>n, <1>2, <1>7, <2>n, Zenon DEF NextPiece
  <2>p. "convert" \in Places \ {"acquire"}
    BY <1>1, Zenon
  <2>3. PICK g \in Frame : /\ AtPiece(g) /\ stack' = [stack EXCEPT ![c] = Append(Interrupted(@), g)]
                           /\ g.at = n /\ g.pc = "convert"
                           /\ g.call = Running(c).call /\ g.pieces = Running(c).pieces
    <3>1. PICK g \in Frame : WentOn(c, n, "convert", g)
      BY <1>1, <2>1, <2>2, <2>p, GoOnFacts, Zenon
    <3> QED BY <3>1, Zenon DEF WentOn
  <2>4. Sent(g)' = f.at /\ SentPiece(g)' = SentPiece(f)
    <3>1. Sent(g)' = n - 1
      BY <2>3, Zenon DEF Sent
    <3>2. f.at = n - 1
      BY <1>5, <2>1, ZenonT(30)
    <3> QED BY <1>n, <2>1, <2>3, <3>1, <3>2, Zenon DEF SentPiece
  <2>5. ~Showing(g)' /\ HoldsLock(g)
    BY <2>3, Zenon DEF Showing, HoldsLock
  <2>6. HolderInv(g)'
    BY <1>3, <1>5, <1>6, <2>3, <2>4, <2>5, ZenonT(30) DEF HolderInv
  <2> QED BY <1>2, <1>3, <1>4, <2>2, <2>3, <2>5, <2>6, HolderStep, Zenon
<1>8. CASE Release(c)
  <2>1. GoOn(c, f.at, "return") /\ print_lock' = 0 /\ f.at = Len(f.pieces)
    BY <1>n, <1>2, <1>8, ZenonT(30) DEF Release, Continue
  <2>2. PICK g \in Frame : /\ AtPiece(g) /\ stack' = [stack EXCEPT ![c] = Append(Interrupted(@), g)]
                           /\ g.pc = "return"
    <3>1. PICK g \in Frame : WentOn(c, f.at, "return", g)
      BY <1>n, <1>1, <1>5, <2>1, GoOnFacts, Zenon
    <3> QED BY <3>1, Zenon DEF WentOn
  <2>3. ~HoldsLock(g)
    BY <2>2, Zenon DEF HoldsLock
  <2>4. Complete'
    BY <1>3, <1>5, <2>1, SMTT(20) DEF Complete, SentPiece
  <2> QED BY <1>2, <1>3, <1>4, <1>6, <2>1, <2>2, <2>3, <2>4, HolderStep, ZenonT(30)
<1> QED BY <1>7, <1>8, Zenon

Devices == <<print_lock, serial_lock, console_lock, buffer, serial, screen>>

\* A call that does not hold print_lock is replaced, pushed or popped.
LEMMA QuietReplace ==
  ASSUME PrintInv, NEW c \in Cpus, stack[c] # <<>>, ~HoldsLock(Running(c)),
         NEW g \in Frame, AtPiece(g), ~HoldsLock(g),
         stack' = [stack EXCEPT ![c] = Append(Interrupted(@), g)],
         UNCHANGED Devices, UNCHANGED term_context, calls' \in Nat
  PROVE  PrintInv'
<1>1. StackOK
  BY Zenon DEF PrintInv
<1>2. PICK n : n = Len(stack[c])
  BY Zenon
<1>3. /\ StackOK'
      /\ \A d \in Cpus : DOMAIN stack'[d] = DOMAIN stack[d]
      /\ stack'[c][n] = g /\ stack[c][n] = Running(c)
      /\ \A d \in Cpus : \A i \in DOMAIN stack[d] :
           d # c \/ i # n => stack'[d][i] = stack[d][i]
  <2>1. /\ StackOK'
        /\ \A d \in Cpus : DOMAIN stack'[d] = DOMAIN stack[d]
        /\ stack'[c][Len(stack[c])] = g
        /\ \A d \in Cpus : \A i \in DOMAIN stack[d] :
             d # c \/ i # Len(stack[c]) => stack'[d][i] = stack[d][i]
    BY <1>1, ReplaceTop, Zenon
  <2>2. stack[c][Len(stack[c])] = Running(c)
    BY <1>1, TopFacts
  <2> QED BY <1>2, <2>1, <2>2, Zenon
<1>4. \A d, i : /\ HolderIs(d, i)' <=> HolderIs(d, i)
                /\ HolderIs(d, i) => stack'[d][i] = stack[d][i]
  <2> SUFFICES ASSUME NEW d \in Cpus, NEW i \in DOMAIN stack[d]
               PROVE  /\ HoldsLock(stack'[d][i]) <=> HoldsLock(stack[d][i])
                      /\ HoldsLock(stack[d][i]) => stack'[d][i] = stack[d][i]
    BY <1>3, Zenon DEF HolderIs
  <2>1. CASE d = c /\ i = n
    BY <1>3, <2>1, Zenon
  <2>2. CASE d # c \/ i # n
    BY <1>3, <2>2
  <2> QED BY <2>1, <2>2, Zenon
<1> QED BY <1>3, <1>4, QuietStep, ZenonT(30) DEF Devices

\* A call that begins above others does not have print_lock.
LEMMA QuietPush ==
  ASSUME PrintInv, NEW c \in Cpus, NEW g \in Frame, AtPiece(g), ~HoldsLock(g),
         stack' = [stack EXCEPT ![c] = Append(stack[c], g)],
         UNCHANGED Devices, UNCHANGED term_context, calls' \in Nat
  PROVE  PrintInv'
<1>1. StackOK
  BY DEF PrintInv
<1>2. PICK n : n = Len(stack[c]) + 1
  BY Zenon
<1>3. /\ StackOK'
      /\ \A d \in Cpus : \A i : i \in DOMAIN stack'[d] <=>
                                  i \in DOMAIN stack[d] \/ (d = c /\ i = n)
      /\ n \notin DOMAIN stack[c] /\ stack'[c][n] = g
      /\ \A d \in Cpus : \A i \in DOMAIN stack[d] : stack'[d][i] = stack[d][i]
  <2>1. /\ StackOK'
        /\ \A d \in Cpus : \A i : i \in DOMAIN stack'[d] <=>
                                    i \in DOMAIN stack[d] \/ (d = c /\ i = Len(stack[c]) + 1)
        /\ Len(stack[c]) + 1 \notin DOMAIN stack[c]
        /\ stack'[c][Len(stack[c]) + 1] = g
        /\ \A d \in Cpus : \A i \in DOMAIN stack[d] : stack'[d][i] = stack[d][i]
    BY <1>1, PushTop, Zenon
  <2> QED BY <1>2, <2>1
<1>4. \A d, i : /\ HolderIs(d, i)' <=> HolderIs(d, i)
                /\ HolderIs(d, i) => stack'[d][i] = stack[d][i]
  <2> SUFFICES ASSUME NEW d \in Cpus, NEW i
               PROVE  /\ HolderIs(d, i)' <=> HolderIs(d, i)
                      /\ HolderIs(d, i) => stack'[d][i] = stack[d][i]
    BY Zenon DEF HolderIs
  <2>1. CASE d = c /\ i = n
    BY <1>3, <2>1, Zenon DEF HolderIs
  <2>2. CASE ~(d = c /\ i = n)
    BY <1>3, <2>2, SMTT(20) DEF HolderIs
  <2> QED BY <2>1, <2>2, Zenon
<1> QED BY <1>3, <1>4, QuietStep, Zenon DEF Devices

\* A call that is over does not have print_lock.
LEMMA QuietPop ==
  ASSUME PrintInv, NEW c \in Cpus, stack[c] # <<>>, ~HoldsLock(Running(c)),
         stack' = [stack EXCEPT ![c] = Interrupted(@)],
         UNCHANGED Devices, UNCHANGED term_context, calls' \in Nat
  PROVE  PrintInv'
<1>1. StackOK
  BY DEF PrintInv
<1>2. PICK n : n = Len(stack[c])
  BY Zenon
<1>3. /\ StackOK'
      /\ \A d \in Cpus : \A i : i \in DOMAIN stack'[d] <=>
                                  i \in DOMAIN stack[d] /\ (d # c \/ i # n)
      /\ stack[c][n] = Running(c)
      /\ \A d \in Cpus : \A i \in DOMAIN stack'[d] : stack'[d][i] = stack[d][i]
  <2>1. /\ StackOK'
        /\ \A d \in Cpus : \A i : i \in DOMAIN stack'[d] <=>
                                    i \in DOMAIN stack[d] /\ (d # c \/ i # Len(stack[c]))
        /\ \A d \in Cpus : \A i \in DOMAIN stack'[d] : stack'[d][i] = stack[d][i]
    BY <1>1, PopTop, Zenon
  <2>2. stack[c][Len(stack[c])] = Running(c)
    BY <1>1, TopFacts, Zenon
  <2> QED BY <1>2, <2>1, <2>2
<1>4. \A d, i : /\ HolderIs(d, i)' <=> HolderIs(d, i)
                /\ HolderIs(d, i) => stack'[d][i] = stack[d][i]
  <2> SUFFICES ASSUME NEW d \in Cpus, NEW i
               PROVE  /\ HolderIs(d, i)' <=> HolderIs(d, i)
                      /\ HolderIs(d, i) => stack'[d][i] = stack[d][i]
    BY Zenon DEF HolderIs
  <2>1. CASE d = c /\ i = n
    BY <1>3, <2>1, Zenon DEF HolderIs
  <2>2. CASE ~(d = c /\ i = n)
    BY <1>3, <2>2, SMTT(20) DEF HolderIs
  <2> QED BY <2>1, <2>2, Zenon
<1> QED BY <1>3, <1>4, QuietStep DEF Devices

\* console_init
LEMMA ConsoleInitStep == ASSUME PrintInv, console_init PROVE PrintInv'
<1>1. StackOK' /\ calls' \in Nat
  BY Zenon DEF console_init, PrintInv, StackOK
<1>2. \A c, i : (HolderIs(c, i)' <=> HolderIs(c, i)) /\ stack'[c][i] = stack[c][i]
  BY Zenon DEF console_init, HolderIs
<1> QED BY <1>1, <1>2, QuietStep, Zenon DEF console_init

\* A thread calls printf.
LEMMA ThreadPrintsStep == ASSUME PrintInv, NEW c \in Cpus, ThreadPrints(c) PROVE PrintInv'
<1>1. PICK fmt \in {str, hex} : Begin(c, <<Call("thread", <<fmt>>, "return")>>)
  BY Zenon DEF ThreadPrints
<1>2. PICK g : g = Call("thread", <<fmt>>, "return")
  BY Zenon
<1>3. g \in Frame /\ AtPiece(g) /\ ~HoldsLock(g)
  <2>1. <<fmt>> \in Seq(Format) /\ <<fmt>> # <<>>
    BY Formats, Zenon
  <2> QED BY <1>2, <2>1, CallFacts, Zenon
<1>4. stack[c] = <<>>
  BY Zenon DEF ThreadPrints
<1>5. stack' = [stack EXCEPT ![c] = Append(stack[c], g)]
  BY <1>1, <1>2, <1>4 DEF Begin
<1>6. UNCHANGED Devices /\ UNCHANGED term_context /\ calls' \in Nat
  BY <1>1 DEF Begin, Devices, PrintInv
<1> QED BY <1>3, <1>5, <1>6, QuietPush, Zenon

\* A handler or an exception prints on top of what it interrupted.
LEMMA InterruptStep == ASSUME PrintInv, NEW c \in Cpus, HandlerPrints(c) \/ Exception(c) PROVE PrintInv'
<1>1. PICK kind \in {"interrupt", "exception"}, fmts \in Seq(Format), after \in {"return", "halted"} :
        fmts # <<>> /\ Begin(c, Append(stack[c], Call(kind, fmts, after)))
  <2>1. CASE HandlerPrints(c)
    <3>1. PICK fmt \in {str \o num, str} :
            Begin(c, Append(stack[c], Call("interrupt", <<fmt>>, "return")))
      BY <2>1, Zenon DEF HandlerPrints
    <3>2. <<fmt>> \in Seq(Format) /\ <<fmt>> # <<>>
      BY Formats, Zenon
    <3> QED BY <3>1, <3>2, Zenon
  <2>2. CASE Exception(c)
    <3>1. <<str \o num, hex>> \in Seq(Format) /\ <<str \o num, hex>> # <<>>
      BY Formats
    <3> QED BY <2>2, <3>1, Zenon DEF Exception
  <2> QED BY <2>1, <2>2
<1>2. PICK g : g = Call(kind, fmts, after)
  BY Zenon
<1>3. g \in Frame /\ AtPiece(g) /\ ~HoldsLock(g)
  BY <1>1, <1>2, CallFacts, Zenon
<1>5. stack' = [stack EXCEPT ![c] = Append(stack[c], g)]
  BY <1>1, <1>2, Zenon DEF Begin
<1>6. UNCHANGED Devices /\ UNCHANGED term_context /\ calls' \in Nat
  BY <1>1 DEF Begin, Devices, PrintInv
<1> QED BY <1>3, <1>5, <1>6, QuietPush, Zenon

\* A call that has not begun or has ended makes room for the next.
LEMMA NextCall ==
  ASSUME PrintInv, NEW c \in Cpus, stack[c] # <<>>, ~HoldsLock(Running(c)),
         NEW kind \in {"thread", "interrupt", "exception"},
         NEW fmts \in Seq(Format), fmts # <<>>, NEW after \in {"return", "halted"},
         Begin(c, Append(Interrupted(stack[c]), Call(kind, fmts, after)))
  PROVE  PrintInv'
<1>2. PICK g : g = Call(kind, fmts, after)
  BY Zenon
<1>3. g \in Frame /\ AtPiece(g) /\ ~HoldsLock(g)
  BY <1>2, CallFacts, Zenon
<1>5. stack' = [stack EXCEPT ![c] = Append(Interrupted(@), g)]
  BY <1>2, Zenon DEF Begin
<1>6. UNCHANGED Devices /\ UNCHANGED term_context /\ calls' \in Nat
  BY DEF Begin, Devices, PrintInv
<1> QED BY <1>3, <1>5, <1>6, QuietReplace, Zenon

\* A call that gives up waiting prints its message on top of itself.
LEMMA TimeoutStep == ASSUME PrintInv, NEW c \in Cpus, Timeout(c) PROVE PrintInv'
<1>1. Active(c, "acquire") /\ "acquire" \in Places
  BY Zenon DEF Timeout, Places
<1>2. stack[c] # <<>> /\ Running(c) \in Frame /\ Running(c).pc = "acquire"
  BY <1>1, HolderFacts, Zenon
<1>3. ~HoldsLock(Running(c)) /\ Running(c).kind \in {"thread", "interrupt", "exception"}
  BY <1>2 DEF HoldsLock, Frame
<1>4. <<str, str \o num>> \in Seq(Format) /\ <<str, str \o num>> # <<>>
  BY Formats, Zenon
<1> QED BY <1>2, <1>3, <1>4, NextCall, Zenon DEF Timeout

\* A call returns, goes on to the next format, or halts.
LEMMA ReturnStep == ASSUME PrintInv, NEW c \in Cpus, Return(c) PROVE PrintInv'
<1>1. Active(c, "return") /\ "return" \in Places /\ "halted" \in Places \ {"acquire"}
  BY Zenon DEF Return, Places
<1>2. stack[c] # <<>> /\ Running(c) \in Frame /\ Running(c).pc = "return" /\ AtPiece(Running(c))
  BY <1>1, HolderFacts, Zenon
<1>3. /\ ~HoldsLock(Running(c)) /\ Running(c).kind \in {"thread", "interrupt", "exception"}
      /\ Running(c).then \in Seq(Format) /\ Running(c).after \in {"return", "halted"}
  BY <1>2, Zenon DEF HoldsLock, Frame
<1>4. CASE Running(c).then # <<>>
  <2>1. Begin(c, Append(Interrupted(stack[c]),
                        Call(Running(c).kind, Running(c).then, Running(c).after)))
    BY <1>4, Zenon DEF Return
  <2> QED BY <1>2, <1>3, <1>4, <2>1, NextCall, Zenon
<1>5. CASE Running(c).then = <<>>
  <2>1. UNCHANGED Devices /\ UNCHANGED term_context /\ calls' \in Nat
    BY <1>5, Zenon DEF Return, Devices, PrintInv
  <2>2. CASE Running(c).after = "halted"
    <3>1. GoOn(c, Running(c).at, "halted")
      BY <1>5, <2>2, Zenon DEF Return, Continue
    <3>2. Running(c).at \in 1 .. Len(Running(c).pieces)
      BY <1>2, Zenon DEF AtPiece
    <3>3. PICK g \in Frame : /\ AtPiece(g) /\ stack' = [stack EXCEPT ![c] = Append(Interrupted(@), g)]
                             /\ g.pc = "halted"
      <4>1. PICK g \in Frame : WentOn(c, Running(c).at, "halted", g)
        BY <1>1, <3>1, <3>2, GoOnFacts, Zenon
      <4> QED BY <4>1, Zenon DEF WentOn
    <3>4. ~HoldsLock(g)
      BY <3>3, Zenon DEF HoldsLock
    <3> QED BY <1>2, <1>3, <2>1, <3>3, <3>4, QuietReplace, Zenon
  <2>3. CASE Running(c).after # "halted"
    <3>1. stack' = [stack EXCEPT ![c] = Interrupted(@)]
      BY <1>5, <2>3, Zenon DEF Return
    <3> QED BY <1>2, <1>3, <2>1, <3>1, QuietPop, Zenon
  <2> QED BY <2>2, <2>3, Zenon
<1> QED BY <1>4, <1>5, Zenon

-----------------------------------------------------------------------------
\* Every step of printf and of its callers keeps what the call that holds print_lock
\* relies on.
LEMMA PrintNextInv == ASSUME PrintInv, [PrintNext]_print PROVE PrintInv'
<1>1. CASE UNCHANGED print
  <2>1. StackOK' /\ calls' \in Nat
    BY <1>1 DEF print, PrintInv, StackOK
  <2>2. \A c, i : (HolderIs(c, i)' <=> HolderIs(c, i)) /\ stack'[c][i] = stack[c][i]
    BY <1>1 DEF print, HolderIs
  <2> QED BY <1>1, <2>1, <2>2, QuietStep DEF print
<1>2. CASE console_init
  BY <1>2, ConsoleInitStep
<1>3. ASSUME NEW c \in Cpus, ThreadPrints(c) \/ HandlerPrints(c) \/ Exception(c) \/ Timeout(c)
      PROVE  PrintInv'
  BY <1>3, ThreadPrintsStep, InterruptStep, TimeoutStep, ZenonT(30)
<1>4. ASSUME NEW c \in Cpus, PrintStep(c)
      PROVE  PrintInv'
  BY <1>4, AcquireStep, MoveStep, TransmitStep, ShowStep, PieceEnds, ReturnStep, Zenon DEF PrintStep
<1> QED BY <1>1, <1>2, <1>3, <1>4, Zenon DEF PrintNext

\* The invariant of printf: print_lock belongs to one call on one processor, the locks of
\* the devices are taken only under it, and what has been sent ends with the piece that
\* this call sent last, or with a whole call.
THEOREM PrintInvariance == PrintSpec => []PrintInv
<1>1. PrintInit => PrintInv
  BY PrintInitInv, Zenon
<1>2. PrintInv /\ [PrintNext]_print => PrintInv'
  BY PrintNextInv, Zenon
<1> QED BY <1>1, <1>2, PTL DEF PrintSpec

\* Whatever interrupts it and whoever else prints, the text of a call comes out in one
\* piece and with its own numbers, and the screen shows what the serial port was sent: for
\* any number of processors and of calls.
THEOREM OutputAlwaysWhole == PrintSpec => []OutputWhole
<1>1. PrintInv => OutputWhole
  <2> SUFFICES ASSUME PrintInv PROVE \E lag \in 0 .. 1 : Shows(lag)
    BY ZenonT(30) DEF OutputWhole, PrintInv, LogOK
  <2>1. Shows(0) \/ Shows(1)
    BY Zenon DEF PrintInv, HolderInv
  <2> QED BY <2>1, SMTT(20)
<1> QED BY <1>1, PrintInvariance, PTL

\* A printf that has print_lock never waits for the lock of a device.
THEOREM DevicesAlwaysFree == PrintSpec => []DevicesFree
<1>1. PrintInv => DevicesFree
  <2> SUFFICES ASSUME PrintInv, NEW c \in Cpus
               PROVE  /\ Active(c, "serial_acquire") => serial_lock = 0
                      /\ Active(c, "console_acquire") => console_lock = 0
    BY ZenonT(30) DEF DevicesFree
  <2>1. serial_lock \in {0, 1} /\ console_lock \in {0, 1}
    BY ZenonT(30) DEF PrintInv
  <2>2. ASSUME NEW place \in {"serial_acquire", "console_acquire"}, Active(c, place)
        PROVE  serial_lock # 1 /\ console_lock # 1
    <3>1. place \in Places
      BY Zenon DEF Places
    <3>2. Running(c).pc = place
      BY <2>2 DEF Active
    <3>3. HoldsLock(Running(c))
      BY <3>2 DEF HoldsLock
    <3> QED BY <2>2, <3>1, <3>3, HolderFacts, Zenon
  <2> QED BY <2>1, <2>2, Zenon
<1> QED BY <1>1, PrintInvariance, PTL
=============================================================================
