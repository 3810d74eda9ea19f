------------------------------ MODULE CpuProofs ------------------------------
(***************************************************************************)
(* Proofs about Smp, for any finite set of processors and for either       *)
(* build of the waiting loop; about Context, for any number of processors  *)
(* and threads; and about Files, for any table size, any files and any     *)
(* width of int.                                                           *)
(*                                                                         *)
(* The inductive invariant of Smp says which places belong to which        *)
(* processor (BootInv), that the two locks have one holder (TableInv,      *)
(* ClockInv), that no copy of cpus_running is ever larger than the number  *)
(* of processors that have finished core_init (CountInv), and what the     *)
(* queue of idle threads looks like between the halves of                  *)
(* sched_enqueue_thread (RingInv).                                         *)
(*                                                                         *)
(* The one of Context says where both base registers name the processor    *)
(* (BothBases), and how deep the kernel stack is in a system call          *)
(* (SyscallFrame).                                                         *)
(*                                                                         *)
(* The one of Files says that nothing is written in the slots from         *)
(* current_filde on (SlotInv), and that vfs_lock is free outside of the    *)
(* calls; with it the slots map to the table of descriptors that FileTable *)
(* promises.                                                               *)
(***************************************************************************)
EXTENDS Smp, Context, Files, TLAPS, FiniteSetTheorems

-----------------------------------------------------------------------------
(* The processors start *)

\* What a processor is at before and after startup_ap wakes it.
BootInv == \A c \in Cpus :
             /\ c \notin started => pc[c] = (IF c = Bsp THEN "loop" ELSE "off")
             /\ c # Bsp => pc[c] \notin {"loop", "wait", "sched_init"}

\* The TSS of each processor is its own.
TableInv == /\ OwnTss
            /\ \A c \in Cpus : pc[c] = "ltr" => gdt_lock = 1 /\ tss = c

\* Who calibrates has lapic_lock and the timer.
ClockInv == \A c \in Cpus : pc[c] = "calibrate_last" => lapic_lock = 1 /\ pit = c

\* cpus_running counts no processor that has not finished.
CountInv == /\ cpus_running <= Cardinality(Counted)
            /\ \A c \in Cpus : reg[c] <= Cardinality(Counted)
            /\ NobodyLeftBehind

\* The linked idle threads are a ring at all times; while a processor is between
\* the two halves of sched_enqueue_thread it alone holds queue.lock, and only
\* its own thread's prev and an empty queue's ends are ahead of the ring.
RingInv ==
  /\ \A c \in Cpus : pc[c] = "link" =>
       /\ queue.lock = 1 /\ prev[c] = queue.end
       /\ \A d \in Cpus : pc[d] = "link" => c = d
       /\ Linked = {} => queue.start = c /\ queue.end = c
  /\ Linked = {} /\ queue.lock = 0 => queue.start = NULL /\ queue.end = NULL
  /\ Linked # {} =>
       queue.start \in Linked /\ queue.end \in Linked /\ next[queue.end] = queue.start
  /\ \A a \in Linked : next[a] \in Linked /\ prev[next[a]] = a
  /\ \A a, b \in Linked : Reaches(a, b)

\* The inductive invariant of Smp.
IInv == TypeOK /\ BootInv /\ TableInv /\ ClockInv /\ CountInv /\ RingInv
-----------------------------------------------------------------------------
\* The processors counted are a finite set, and as many as there are only if
\* they are all.
LEMMA CountedFinite ==
  ASSUME started \subseteq Cpus
  PROVE  /\ IsFiniteSet(Counted) /\ Cardinality(Counted) \in Nat
         /\ Cardinality(Cpus) \in Nat
         /\ Cardinality(Counted) <= Cardinality(Cpus)
         /\ Cardinality(Counted) = Cardinality(Cpus) => Counted = Cpus
<1>1. Counted \in SUBSET Cpus
  BY DEF Counted
<1>2. IsFiniteSet(Cpus)
  BY SmpAssumption
<1> QED BY <1>1, <1>2, FS_Subset, FS_CardinalityType

\* The state in which smp_init begins.
LEMMA InitIInv == Init => IInv
<1> SUFFICES ASSUME Init PROVE IInv
  OBVIOUS
<1> USE SmpAssumption DEF Init, Nobody
<1>1. TypeOK
  BY Zenon DEF TypeOK, Optional
<1>2. BootInv /\ TableInv /\ ClockInv
  BY DEF BootInv, TableInv, OwnTss, ClockInv
<1>3. Cardinality(Counted) \in Nat
  BY CountedFinite
<1>4. CountInv
  BY <1>3 DEF CountInv, NobodyLeftBehind, Left
<1>5. Linked = {}
  BY DEF Linked
<1>6. RingInv
  BY <1>5 DEF RingInv
<1> QED BY <1>1, <1>2, <1>4, <1>6 DEF IInv

\* Every step keeps the types.
LEMMA TypeStep == ASSUME IInv, [Next]_vars PROVE TypeOK'
<1> USE SmpAssumption DEF IInv, TypeOK, Optional, Goto, tables, ring, clock, count, sched
<1>1. ASSUME Boot PROVE TypeOK'
  <2>1. CASE StartCore
    BY <2>1 DEF StartCore
  <2>2. CASE Wait \/ WaitAgain
    BY <2>2 DEF Wait, WaitAgain
  <2>3. CASE PitInit
    BY <2>3 DEF PitInit
  <2>4. CASE SchedInit
    BY <2>4 DEF SchedInit
  <2> QED BY <1>1, <2>1, <2>2, <2>3, <2>4, Zenon DEF Boot
<1>2. ASSUME NEW c \in Cpus, EnqueueLock(c) PROVE TypeOK'
  <2> DEFINE end == IF NULL \in {queue.start, queue.end} THEN c ELSE queue.end
  <2>1. end \in Cpus \cup {NULL} /\ queue.start \in Cpus \cup {NULL}
    OBVIOUS
  <2>2. /\ queue' = [start |-> IF end = c THEN c ELSE queue.start,
                     end |-> end, lock |-> 1]
        /\ prev' = [prev EXCEPT ![c] = end]
    BY <1>2 DEF EnqueueLock
  <2> HIDE DEF end
  <2>3. queue' \in [start : Optional, end : Optional, lock : {0, 1}]
    BY <2>1, <2>2
  <2>4. prev' \in [Cpus -> Optional]
    BY <2>1, <2>2
  <2> QED BY <1>2, <2>3, <2>4 DEF EnqueueLock
<1>3. ASSUME NEW c \in Cpus, EnqueueLink(c) PROVE TypeOK'
  BY <1>3, Zenon DEF EnqueueLink
<1>4. ASSUME NEW c \in Cpus, CountStore(c) PROVE TypeOK'
  BY <1>4 DEF CountStore
<1>5. ASSUME NEW c \in Cpus, Tick(c) PROVE TypeOK'
  BY <1>5 DEF Tick
<1>6. ASSUME NEW c \in Cpus, WriteTss(c) \/ LoadTss(c) PROVE TypeOK'
  BY <1>6 DEF WriteTss, LoadTss
<1>7. ASSUME NEW c \in Cpus, CalibrateFirst(c) \/ CalibrateLast(c) PROVE TypeOK'
  BY <1>7 DEF CalibrateFirst, CalibrateLast
<1>8. ASSUME NEW c \in Cpus, CountLoad(c) \/ Await(c) PROVE TypeOK'
  <2>1. CASE CountLoad(c)
    BY <2>1, SMTT(20) DEF CountLoad
  <2>2. CASE Await(c)
    BY <2>2, SMTT(20) DEF Await
  <2> QED BY <1>8, <2>1, <2>2, Zenon
<1>9. CASE UNCHANGED vars
  BY <1>9, SMTT(20) DEF vars
<1> QED BY <1>1, <1>2, <1>3, <1>4, <1>5, <1>6, <1>7, <1>8, <1>9, Zenon DEF Next, Core

\* Only the boot processor runs smp_init, and nobody moves before it is started.
LEMMA BootStep == ASSUME IInv, [Next]_vars PROVE BootInv'
<1> USE SmpAssumption DEF IInv, TypeOK, BootInv, Goto
<1>1. ASSUME Boot PROVE BootInv'
  BY <1>1, SMTT(20) DEF Boot, StartCore, Wait, WaitAgain, PitInit, SchedInit
<1>2. ASSUME NEW c \in Cpus, Core(c) PROVE BootInv'
  BY <1>2, SMTT(20) DEF Core, WriteTss, LoadTss, EnqueueLock, EnqueueLink, CalibrateFirst,
              CalibrateLast, CountLoad, CountStore, Await, Tick
<1>3. CASE UNCHANGED vars
  BY <1>3, SMTT(20) DEF vars
<1> QED BY <1>1, <1>2, <1>3, Zenon DEF Next

\* Between the write of the descriptor and ltr nobody else writes it.
LEMMA TableStep == ASSUME IInv, [Next]_vars PROVE TableInv'
<1> USE SmpAssumption DEF IInv, TypeOK, TableInv, OwnTss, Goto, tables
<1>1. ASSUME Boot PROVE TableInv'
  BY <1>1, SMTT(20) DEF Boot, StartCore, Wait, WaitAgain, PitInit, SchedInit
<1>2. ASSUME NEW c \in Cpus, WriteTss(c) PROVE TableInv'
  BY <1>2, SMTT(20) DEF WriteTss
<1>3. ASSUME NEW c \in Cpus, LoadTss(c) PROVE TableInv'
  BY <1>3, SMTT(20) DEF LoadTss
<1>4. ASSUME NEW c \in Cpus, Core(c), ~WriteTss(c), ~LoadTss(c) PROVE TableInv'
  BY <1>4, SMTT(20) DEF Core, EnqueueLock, EnqueueLink, CalibrateFirst, CalibrateLast,
              CountLoad, CountStore, Await, Tick
<1>5. CASE UNCHANGED vars
  BY <1>5, SMTT(20) DEF vars
<1> QED BY <1>1, <1>2, <1>3, <1>4, <1>5, SMTT(20) DEF Next

\* Between the two readings of the interval timer nobody else programs it: the
\* processors are kept out by lapic_lock, and pit_init because by then no
\* processor is left in core_init.
LEMMA ClockStep == ASSUME IInv, [Next]_vars PROVE ClockInv'
<1> USE SmpAssumption DEF IInv, TypeOK, ClockInv, Goto, clock
<1>1. CASE PitInit
  <2>1. reg[Bsp] <= Cardinality(Counted) /\ reg[Bsp] = Cardinality(Cpus)
    BY <1>1, SMTT(20) DEF PitInit, CountInv
  <2>2. Counted = Cpus
    BY <2>1, CountedFinite
  <2>3. \A c \in Cpus : pc[c] # "calibrate_last"
    BY <2>2, Zenon DEF Counted
  <2> QED BY <1>1, <2>3, SMTT(20) DEF PitInit
<1>2. CASE StartCore \/ Wait \/ WaitAgain \/ SchedInit
  BY <1>2, SMTT(20) DEF StartCore, Wait, WaitAgain, SchedInit
<1>3. ASSUME NEW c \in Cpus, CalibrateFirst(c) PROVE ClockInv'
  BY <1>3, SMTT(20) DEF CalibrateFirst
<1>4. ASSUME NEW c \in Cpus, CalibrateLast(c) PROVE ClockInv'
  <2>1. ASSUME NEW d \in Cpus, pc'[d] = "calibrate_last" PROVE FALSE
    <3>1. d # c /\ pc[d] = "calibrate_last" /\ pc[c] = "calibrate_last"
      BY <1>4, <2>1, SMTT(20) DEF CalibrateLast
    <3> QED BY <3>1, SMTT(20)
  <2> QED BY <2>1, SMTT(20)
<1>5. ASSUME NEW c \in Cpus, Core(c), ~CalibrateFirst(c), ~CalibrateLast(c)
      PROVE ClockInv'
  BY <1>5, SMTT(20) DEF Core, WriteTss, LoadTss, EnqueueLock, EnqueueLink, CountLoad,
              CountStore, Await, Tick
<1>6. CASE UNCHANGED vars
  BY <1>6, Zenon DEF vars
<1> QED BY <1>1, <1>2, <1>3, <1>4, <1>5, <1>6, Zenon DEF Next, Boot

\* CountStore is the only step after which one more processor is counted.
LEMMA CountedStep ==
  ASSUME IInv, [Next]_vars
  PROVE  \/ Counted' = Counted /\ cpus_running' = cpus_running
         \/ \E c \in Cpus : /\ CountStore(c)
                            /\ Counted' = Counted \cup {c} /\ c \notin Counted
<1> USE SmpAssumption DEF IInv, TypeOK, BootInv, Counted, Goto, count
<1>1. CASE Boot
  BY <1>1, SMTT(20) DEF Boot, StartCore, Wait, WaitAgain, PitInit, SchedInit
<1>2. ASSUME NEW c \in Cpus, CountStore(c)
      PROVE Counted' = Counted \cup {c} /\ c \notin Counted
  BY <1>2, SMTT(20) DEF CountStore
<1>3. ASSUME NEW c \in Cpus, Core(c), ~CountStore(c)
      PROVE Counted' = Counted /\ cpus_running' = cpus_running
  BY <1>3, SMTT(20) DEF Core, WriteTss, LoadTss, EnqueueLock, EnqueueLink, CalibrateFirst,
              CalibrateLast, CountLoad, Await, Tick
<1>4. CASE UNCHANGED vars
  BY <1>4, SMTT(20) DEF vars
<1> QED BY <1>1, <1>2, <1>3, <1>4, SMTT(20) DEF Next

\* A processor's copy of the counter is the old one, a fresh one or none.
LEMMA RegStep ==
  ASSUME IInv, [Next]_vars, NEW d \in Cpus
  PROVE  reg'[d] \in {reg[d], cpus_running, 0}
<1> USE SmpAssumption DEF IInv, TypeOK, count
<1>1. CASE Boot
  BY <1>1, Zenon DEF Boot, StartCore, Wait, WaitAgain, PitInit, SchedInit
<1>2. ASSUME NEW c \in Cpus, Core(c) PROVE reg'[d] \in {reg[d], cpus_running, 0}
  BY <1>2, SMTT(20) DEF Core, WriteTss, LoadTss, EnqueueLock, EnqueueLink, CalibrateFirst,
              CalibrateLast, CountLoad, CountStore, Await, Tick
<1>3. CASE UNCHANGED vars
  BY <1>3, SMTT(20) DEF vars
<1> QED BY <1>1, <1>2, <1>3, Zenon DEF Next

\* The boot processor leaves smp_init by way of PitInit.
LEMMA LeftStep == ASSUME IInv, [Next]_vars, Left' PROVE Left \/ PitInit
<1> USE SmpAssumption DEF IInv, TypeOK, Left, Goto
<1>1. CASE Boot
  BY <1>1, SMTT(20) DEF Boot, StartCore, Wait, WaitAgain, SchedInit
<1>2. ASSUME NEW c \in Cpus, Core(c) PROVE Left
  BY <1>2, SMTT(20) DEF Core, WriteTss, LoadTss, EnqueueLock, EnqueueLink, CalibrateFirst,
              CalibrateLast, CountLoad, CountStore, Await, Tick
<1>3. CASE UNCHANGED vars
  BY <1>3, SMTT(20) DEF vars
<1> QED BY <1>1, <1>2, <1>3, Zenon DEF Next

\* No copy of the counter runs ahead of the processors that are counted, so the
\* boot processor sees the full count only when everybody is.
LEMMA CountStep == ASSUME IInv, [Next]_vars PROVE CountInv'
<1> DEFINE n == Cardinality(Counted)
<1>1. /\ n \in Nat /\ IsFiniteSet(Counted) /\ Cardinality(Cpus) \in Nat
      /\ n <= Cardinality(Cpus) /\ (n = Cardinality(Cpus) => Counted = Cpus)
  BY CountedFinite, SMTT(20) DEF IInv, TypeOK
<1>2. /\ cpus_running \in Nat /\ cpus_running <= n
      /\ \A c \in Cpus : reg[c] \in Nat /\ reg[c] <= n
  BY SMTT(20) DEF IInv, TypeOK, CountInv
<1>3. /\ Counted \subseteq Counted'
      /\ n' \in Nat /\ n <= n' /\ cpus_running' <= n'
  <2>1. CASE Counted' = Counted /\ cpus_running' = cpus_running
    BY <1>1, <1>2, <2>1
  <2>2. ASSUME NEW c \in Cpus, CountStore(c), Counted' = Counted \cup {c},
               c \notin Counted
        PROVE <1>3!:
    <3>1. n' = n + 1
      BY <1>1, <2>2, FS_AddElement, Zenon
    <3>2. cpus_running' = reg[c] + 1
      BY <2>2 DEF CountStore
    <3> HIDE DEF n
    <3> QED BY <1>1, <1>2, <2>2, <3>1, <3>2
  <2> QED BY <2>1, <2>2, CountedStep
<1>4. ASSUME NEW d \in Cpus PROVE reg'[d] <= n'
  <2>1. reg'[d] \in {reg[d], cpus_running, 0}
    BY RegStep
  <2> HIDE DEF n
  <2> QED BY <1>1, <1>2, <1>3, <2>1
<1>5. ASSUME Left' PROVE Counted' = Cpus
  <2>1. Counted = Cpus
    <3>1. CASE Left
      BY <3>1, SMTT(20) DEF IInv, CountInv, NobodyLeftBehind
    <3>2. CASE PitInit
      <4>1. reg[Bsp] = Cardinality(Cpus)
        BY <3>2, SMTT(20) DEF PitInit
      <4> HIDE DEF n
      <4> QED BY <1>1, <1>2, <4>1, SmpAssumption, SMTT(20)
    <3> QED BY <3>1, <3>2, <1>5, LeftStep, SMTT(20)
  <2>2. Counted' \subseteq Cpus
    BY TypeStep, ZenonT(30) DEF TypeOK, Counted
  <2> QED BY <1>3, <2>1, <2>2, Zenon
<1> QED BY <1>3, <1>4, <1>5, SMTT(20) DEF CountInv, NobodyLeftBehind

\* Only the second half of sched_enqueue_thread links a thread.
LEMMA LinkedStep ==
  ASSUME IInv, [Next]_vars
  PROVE  \/ Linked' = Linked
         \/ \E c \in Cpus : EnqueueLink(c) /\ Linked' = Linked \cup {c} /\ c \notin Linked
<1> USE SmpAssumption DEF IInv, TypeOK, BootInv, Linked, Goto
<1>1. CASE Boot
  BY <1>1, SMTT(20) DEF Boot, StartCore, Wait, WaitAgain, PitInit, SchedInit
<1>2. ASSUME NEW c \in Cpus, EnqueueLink(c)
      PROVE  Linked' = Linked \cup {c} /\ c \notin Linked
  BY <1>2, SMTT(20) DEF EnqueueLink
<1>3. ASSUME NEW c \in Cpus, Core(c), ~EnqueueLink(c) PROVE Linked' = Linked
  BY <1>3, SMTT(20) DEF Core, WriteTss, LoadTss, EnqueueLock, CalibrateFirst,
              CalibrateLast, CountLoad, CountStore, Await, Tick
<1>4. CASE UNCHANGED vars
  BY <1>4, SMTT(20) DEF vars
<1> QED BY <1>1, <1>2, <1>3, <1>4, SMTT(20) DEF Next

\* A thread linked between the end and the start of a ring joins the ring: a set
\* closed under the new next, cut down to the old ring, is closed under the old.
LEMMA RingGrows ==
  ASSUME IInv, NEW c \in Cpus, c \notin Linked, Linked # {},
         Linked' = Linked \cup {c}, \A x \in Linked : x # queue.end => next'[x] = next[x],
         next'[queue.end] = c, next'[c] = queue.start
  PROVE  \A a, b \in Linked' : Reaches(a, b)'
<1> SUFFICES ASSUME NEW a \in Linked \cup {c}, NEW b \in Linked \cup {c}, NEW S \in SUBSET Cpus,
                    a \in S, \A x \in S : next'[x] \in S
             PROVE  b \in S
  BY Zenon DEF Reaches
<1>0. /\ queue.start \in Linked /\ queue.end \in Linked /\ next[queue.end] = queue.start
      /\ \A x \in Linked : next[x] \in Linked
      /\ \A x, y \in Linked : Reaches(x, y)
      /\ Linked \subseteq Cpus
  BY ZenonT(30) DEF IInv, RingInv, TypeOK, Linked
<1>1. \A x \in S \cap Linked : next[x] \in S \cap Linked
  BY <1>0, SMTT(20)
<1>2. PICK x \in Linked : x \in S
  BY <1>0, Zenon
<1>3. Linked \subseteq S
  <2> SUFFICES ASSUME NEW y \in Linked PROVE y \in S
    OBVIOUS
  <2>1. Reaches(x, y) /\ S \cap Linked \in SUBSET Cpus /\ x \in S \cap Linked
    BY <1>0, <1>2, SMTT(20)
  <2> QED BY <1>1, <2>1, Zenon DEF Reaches
<1> QED BY <1>0, <1>3, SMTT(20)

\* The ring stays a ring.
LEMMA RingStep == ASSUME IInv, [Next]_vars PROVE RingInv'
<1>0. /\ TypeOK /\ RingInv /\ \A c \in Cpus : pc[c] = "link" \/ pc[c] = "enqueue" => c \notin Linked
  BY SMTT(20) DEF IInv, Linked
<1>1. ASSUME NEW c \in Cpus, EnqueueLock(c) PROVE RingInv'
  <2>1. Linked' = Linked
    BY <1>0, <1>1, Zenon DEF EnqueueLock, Goto, Linked, TypeOK
  <2>2. /\ queue.lock = 0 /\ pc[c] = "enqueue" /\ next' = next
        /\ pc' = [pc EXCEPT ![c] = "link"] /\ queue'.lock = 1 /\ prev'[c] = queue'.end
        /\ \A d \in Cpus : d # c => prev'[d] = prev[d]
    BY <1>0, <1>1, Zenon DEF EnqueueLock, Goto, TypeOK
  <2>3. CASE Linked = {}
    <3>1. queue'.start = c /\ queue'.end = c
      BY <1>0, <1>1, <2>2, <2>3, Zenon DEF EnqueueLock, RingInv
    <3> QED BY <1>0, <2>1, <2>2, <2>3, <3>1, SMTT(20) DEF RingInv, TypeOK
  <2>4. CASE Linked # {}
    <3>1. queue.start \in Cpus /\ queue.end \in Cpus /\ queue.end # c
      BY <1>0, <2>2, <2>4, SMTT(20) DEF RingInv, Linked, TypeOK
    <3>2. queue'.start = queue.start /\ queue'.end = queue.end
      BY <1>1, <3>1, SmpAssumption, Zenon DEF EnqueueLock
    <3>3. \A a, b \in Linked : Reaches(a, b)'
      BY <1>0, <2>2, Zenon DEF RingInv, Reaches
    <3>4. \A a \in Linked : next'[a] \in Linked /\ prev'[next'[a]] = a
      BY <1>0, <2>2, <3>1, SMTT(20) DEF RingInv, Linked, TypeOK
    <3>5. \A d \in Cpus : pc'[d] = "link" => d = c
      BY <1>0, <2>2, SMTT(20) DEF RingInv, TypeOK
    <3> QED BY <1>0, <2>1, <2>2, <2>4, <3>2, <3>3, <3>4, <3>5, SMTT(20) DEF RingInv
  <2> QED BY <2>3, <2>4, Zenon
<1>2. ASSUME NEW c \in Cpus, EnqueueLink(c) PROVE RingInv'
  <2>1. Linked' = Linked \cup {c} /\ c \notin Linked
    BY <1>0, <1>2, SMTT(20) DEF EnqueueLink, Goto, Linked, TypeOK, IInv, BootInv
  <2>2. /\ pc[c] = "link" /\ queue'.lock = 0 /\ queue'.start = queue.start /\ queue'.end = c
        /\ next' = [next EXCEPT ![queue.end] = c, ![c] = queue.start]
        /\ prev' = [prev EXCEPT ![queue.start] = c] /\ prev[c] = queue.end
        /\ \A d \in Cpus : pc'[d] # "link"
    BY <1>0, <1>2, SMTT(20) DEF EnqueueLink, Goto, TypeOK, RingInv
  <2>3. CASE Linked = {}
    <3>1. queue.start = c /\ queue.end = c /\ Linked' = {c} /\ next'[c] = c /\ prev'[c] = c
      BY <1>0, <2>1, <2>2, <2>3, Zenon DEF RingInv, TypeOK
    <3> QED BY <2>2, <3>1, Zenon DEF RingInv, Reaches
  <2>4. CASE Linked # {}
    <3>1. /\ queue.start \in Linked /\ queue.end \in Linked /\ next[queue.end] = queue.start
          /\ Linked \subseteq Cpus
      BY <1>0, <2>4, SMTT(20) DEF RingInv, Linked, TypeOK
    <3>2. /\ \A x \in Linked : x # queue.end => next'[x] = next[x]
          /\ next'[queue.end] = c /\ next'[c] = queue.start
      BY <1>0, <2>1, <2>2, <3>1, Zenon DEF TypeOK
    <3>3. \A a, b \in Linked' : Reaches(a, b)'
      BY <2>1, <2>4, <3>2, RingGrows, Zenon
    <3>4. ASSUME NEW a \in Linked' PROVE next'[a] \in Linked' /\ prev'[next'[a]] = a
      <4>1. CASE a = c
        BY <1>0, <2>1, <2>2, <3>1, <3>2, <4>1, Zenon DEF TypeOK
      <4>2. CASE a = queue.end
        BY <1>0, <2>1, <2>2, <3>1, <3>2, <4>2, ZenonT(30) DEF TypeOK
      <4>3. CASE a # c /\ a # queue.end
        <5>1. a \in Linked /\ next[a] \in Linked /\ prev[next[a]] = a /\ prev[next[queue.end]] = queue.end
          BY <1>0, <2>1, <3>1, <4>3, Zenon DEF RingInv
        <5>2. next[a] # queue.start
          BY <3>1, <4>3, <5>1, Zenon
        <5> QED BY <1>0, <2>1, <2>2, <3>1, <3>2, <4>3, <5>1, <5>2, SMTT(20) DEF TypeOK
      <4> QED BY <4>1, <4>2, <4>3, Zenon
    <3> QED BY <2>1, <2>2, <3>1, <3>2, <3>3, <3>4, Zenon DEF RingInv
  <2> QED BY <2>3, <2>4, SMTT(20)
<1>3. ASSUME Linked' = Linked, queue' = queue, next' = next, prev' = prev,
             \A d \in Cpus : pc'[d] = "link" => pc[d] = "link"
      PROVE  RingInv'
  BY <1>0, <1>3, Zenon DEF RingInv, Reaches
<1> DEFINE Quiet == /\ queue' = queue /\ next' = next /\ prev' = prev
                    /\ \A d \in Cpus : pc'[d] = "link" => pc[d] = "link"
<1>4. ASSUME ~\E c \in Cpus : EnqueueLock(c) \/ EnqueueLink(c) PROVE Quiet
  <2> USE <1>0, <1>4, SmpAssumption DEF TypeOK, Goto, ring
  <2>1. CASE Boot
    BY <2>1, ZenonT(30) DEF Boot, StartCore, Wait, WaitAgain, PitInit, SchedInit
  <2>2. ASSUME NEW c \in Cpus, Core(c) PROVE Quiet
    BY <2>2, SMTT(20) DEF Core, WriteTss, LoadTss, CalibrateFirst,
                CalibrateLast, CountLoad, CountStore, Await, Tick
  <2>3. CASE UNCHANGED vars
    BY <2>3, SMTT(20) DEF vars
  <2> QED BY <2>1, <2>2, <2>3, Zenon DEF Next
<1> QED BY <1>1, <1>2, <1>3, <1>4, LinkedStep, SMTT(20)

\* The inductive invariant holds throughout the boot.
THEOREM Invariance == Spec => []IInv
<1>1. IInv /\ [Next]_vars => IInv'
  BY TypeStep, BootStep, TableStep, ClockStep, CountStep, RingStep, SMTT(20) DEF IInv
<1> QED BY InitIInv, <1>1, PTL DEF Spec

\* Type correctness of the boot.
THEOREM TypeCorrect == Spec => []TypeOK
<1>1. IInv => TypeOK
  BY SMTT(20) DEF IInv
<1> QED BY Invariance, <1>1, PTL

\* core_init gives every processor its own TSS, for any number of processors.
THEOREM OwnTssAlways == Spec => []OwnTss
<1>1. IInv => OwnTss
  BY SMTT(20) DEF IInv, TableInv
<1> QED BY Invariance, <1>1, PTL

\* The unlocked cpus_running++ can lose counts but never lets smp_init end while
\* a processor is still in core_init, whether or not the build reads the counter
\* again in the waiting loop.
THEOREM NobodyLeft == Spec => []NobodyLeftBehind
<1>1. IInv => NobodyLeftBehind
  BY DEF IInv, CountInv
<1> QED BY Invariance, <1>1, PTL

\* No processor's timer is calibrated against an interval timer that another one
\* or pit_init has reprogrammed in between.
THEOREM CalibrationAlone == Spec => []CalibrationUndisturbed
<1>1. IInv => CalibrationUndisturbed
  BY Zenon DEF IInv, ClockInv, CalibrationUndisturbed
<1> QED BY Invariance, <1>1, PTL

\* However the processors' calls of sched_enqueue_thread interleave, the idle
\* threads linked so far are one ring from queue.start to queue.end whenever the
\* queue is unlocked.
THEOREM IdleRingAlways == Spec => []IdleRing
<1>1. IInv => IdleRing
  BY Zenon DEF IInv, RingInv, IdleRing
<1> QED BY Invariance, <1>1, PTL

-----------------------------------------------------------------------------
(* The registers that name the processor *)

\* From the switch to a user thread on, until it dies, both registers of a
\* processor hold its cpu_local_t: this is why the missing swaps do no harm.
Switched == {"user", "switch", "swapped"}
\* Where the entry code has set both base registers.
BothSet(c) == \/ place[c] \in Switched \cup {"syscall"}
              \/ place[c] = "irq" /\ back[c].irq \in Switched

\* GS_BASE is always the processor's own, KERNEL_GS_BASE from there on.
BothBases == \A c \in Cpus : gs[c] = c /\ (BothSet(c) => kgs[c] = c)

\* A system call is one frame deep in the kernel stack of its thread.
SyscallFrame == \A c \in Cpus :
                  /\ kernel_stack[c] = 0
                  /\ place[c] = "syscall" => sp[c] = -24
                  /\ place[c] # "syscall" => user_sp[c]

\* The inductive invariant of Context.
ContextInv == ContextTypeOK /\ BothBases /\ SyscallFrame

\* The invariant holds when the processors start to schedule.
LEMMA ContextStarts == ContextInit => ContextInv
BY ContextAssumption
   DEF ContextInit, ContextInv, ContextTypeOK, BothBases, SyscallFrame, BothSet, Switched

\* No stub swaps: the segment it compares with is nobody's.
LEMMA NeverSwaps ==
  ASSUME NEW c \in Cpus, NEW p, SwapIfUser(c, Cs(p))
  PROVE  UNCHANGED <<gs, kgs>>
BY DEF SwapIfUser, Cs, TESTED_CS, USER_CS, KERNEL_CS

\* A device interrupt, wherever interrupts are on.
LEMMA IrqStep ==
  ASSUME ContextInv, NEW c \in Cpus, Irq(c)
  PROVE  ContextInv'
<1>1. /\ place[c] \in InterruptsOn
      /\ place' = [place EXCEPT ![c] = "irq"]
      /\ back' = [back EXCEPT ![c].irq = place[c]]
      /\ UNCHANGED <<gs, kgs, next_thread, ready, kernel_stack, sp, user_sp>>
  BY NeverSwaps, Zenon DEF Irq, IsrEnter, stack
<1>2. ContextTypeOK'
  BY <1>1 DEF ContextInv, ContextTypeOK, InterruptsOn
<1>3. BothBases'
  BY <1>1 DEF ContextInv, ContextTypeOK, BothBases, BothSet, Switched, InterruptsOn
<1>4. SyscallFrame'
  BY <1>1 DEF ContextInv, ContextTypeOK, SyscallFrame, InterruptsOn
<1> QED BY <1>2, <1>3, <1>4 DEF ContextInv

\* The return of a device interrupt to where it struck.
LEMMA IrqReturnStep ==
  ASSUME ContextInv, NEW c \in Cpus, IrqReturn(c)
  PROVE  ContextInv'
<1>1. /\ place[c] = "irq"
      /\ place' = [place EXCEPT ![c] = back[c].irq]
      /\ back' = [back EXCEPT ![c].irq = "idle"]
      /\ UNCHANGED <<gs, kgs, next_thread, ready, kernel_stack, sp, user_sp>>
  BY NeverSwaps, Zenon DEF IrqReturn, IsrReturn, stack
<1>2. ContextTypeOK'
  BY <1>1 DEF ContextInv, ContextTypeOK
<1>3. BothBases'
  BY <1>1 DEF ContextInv, ContextTypeOK, BothBases, BothSet, Switched
<1>4. SyscallFrame'
  BY <1>1 DEF ContextInv, ContextTypeOK, SyscallFrame
<1> QED BY <1>2, <1>3, <1>4 DEF ContextInv

\* sched_vector comes, finds no thread and returns.
LEMMA SchedStep ==
  ASSUME ContextInv, NEW c \in Cpus, SchedVector(c) \/ SchedNone(c) \/ SchedReturn(c)
  PROVE  ContextInv'
<1>1. /\ place[c] \in {"idle", "dead", "sched", "leaving"}
      /\ \E p \in {"idle", "dead", "sched", "leaving"} : place' = [place EXCEPT ![c] = p]
      /\ \E p \in {"idle", "dead"} : back' = [back EXCEPT ![c].sched = p]
      /\ UNCHANGED <<gs, kgs, next_thread, ready, kernel_stack, sp, user_sp>>
  <2>1. CASE SchedVector(c)
    BY <2>1, NeverSwaps, Zenon DEF SchedVector, IsrEnter, stack
  <2>2. CASE SchedReturn(c)
    BY <2>2, NeverSwaps, Zenon DEF SchedReturn, IsrReturn, stack
  <2>3. CASE SchedNone(c)
    <3>1. back' = [back EXCEPT ![c].sched = back[c].sched]
      BY <2>3 DEF SchedNone, ContextInv, ContextTypeOK
    <3>2. back[c].sched \in {"idle", "dead"}
      BY DEF ContextInv, ContextTypeOK
    <3> QED BY <2>3, <3>1, <3>2, Zenon DEF SchedNone, stack
  <2> QED BY <2>1, <2>2, <2>3
<1>2. PICK p \in {"idle", "dead", "sched", "leaving"} : place' = [place EXCEPT ![c] = p]
  BY <1>1, Zenon
<1>3. PICK q \in {"idle", "dead"} : back' = [back EXCEPT ![c].sched = q]
  BY <1>1, Zenon
<1>4. ContextTypeOK'
  BY <1>1, <1>2, <1>3 DEF ContextInv, ContextTypeOK
<1>5. BothBases'
  BY <1>1, <1>2, <1>3 DEF ContextInv, ContextTypeOK, BothBases, BothSet, Switched
<1>6. SyscallFrame'
  BY <1>1, <1>2 DEF ContextInv, ContextTypeOK, SyscallFrame
<1> QED BY <1>4, <1>5, <1>6 DEF ContextInv

\* sched_vector finds a thread and leaves the one it interrupted.
LEMMA SchedFoundStep ==
  ASSUME ContextInv, NEW c \in Cpus, SchedFound(c)
  PROVE  ContextInv'
<1>1. PICK t \in ready :
        /\ ready' = ready \ {t}
        /\ next_thread' = [next_thread EXCEPT ![c] = t]
        /\ kgs' = [kgs EXCEPT ![c] = IF CsOf(t) = TESTED_CS THEN NULL ELSE gs[c]]
  BY Zenon DEF SchedFound
<1>2. kgs' = [kgs EXCEPT ![c] = c]
  <2>1. CsOf(t) # TESTED_CS
    BY DEF CsOf, TESTED_CS, USER_CS, KERNEL_CS
  <2>2. gs[c] = c
    BY SMTT(20) DEF ContextInv, BothBases
  <2> QED BY <1>1, <2>1, <2>2
<1>3. /\ place[c] = "sched"
      /\ place' = [place EXCEPT ![c] = "switch"]
      /\ back' = [back EXCEPT ![c].sched = "idle"]
      /\ UNCHANGED <<gs, kernel_stack, sp, user_sp>>
  BY SMTT(20) DEF SchedFound, stack
<1>4. ContextTypeOK'
  BY <1>1, <1>2, <1>3, SMTT(20) DEF ContextInv, ContextTypeOK
<1>5. BothBases'
  BY <1>2, <1>3, SMTT(20) DEF ContextInv, ContextTypeOK, BothBases, BothSet, Switched
<1>6. SyscallFrame'
  BY <1>3, SMTT(20) DEF ContextInv, ContextTypeOK, SyscallFrame
<1> QED BY <1>4, <1>5, <1>6 DEF ContextInv

\* The two halves of switch_to_thread, before and after its swapgs.
LEMMA SwitchStep ==
  ASSUME ContextInv, NEW c \in Cpus, SwitchSwap(c) \/ SwitchToThread(c)
  PROVE  ContextInv'
<1>1. CASE SwitchSwap(c)
  BY <1>1, SMTT(20) DEF SwitchSwap, Swap, stack, ContextInv, ContextTypeOK,
              BothBases, SyscallFrame, BothSet, Switched
<1>2. CASE SwitchToThread(c)
  BY <1>2, SMTT(20) DEF SwitchToThread, stack, ContextInv, ContextTypeOK,
              BothBases, SyscallFrame, BothSet, Switched
<1> QED BY <1>1, <1>2, Zenon

\* A system call, its return, and a thread that dies in one.
LEMMA SyscallStep ==
  ASSUME ContextInv, NEW c \in Cpus, Syscall(c) \/ Sysret(c) \/ Die(c)
  PROVE  ContextInv'
<1>1. CASE Syscall(c)
  BY <1>1, SMTT(20) DEF Syscall, Swap, Saved, ContextInv, ContextTypeOK, BothBases, SyscallFrame,
              BothSet, Switched
<1>2. CASE Sysret(c)
  <2>1. (sp[c] + Restored = kernel_stack[c] - 1) = TRUE
    BY <1>2, SMTT(20) DEF Sysret, Restored, ContextInv, SyscallFrame
  <2>2. user_sp' = [user_sp EXCEPT ![c] = TRUE]
    BY <1>2, <2>1, Zenon DEF Sysret
  <2>3. /\ place[c] = "syscall" /\ place' = [place EXCEPT ![c] = "user"]
        /\ sp' = [sp EXCEPT ![c] = 0]
        /\ gs' = [gs EXCEPT ![c] = kgs[c]] /\ kgs' = [kgs EXCEPT ![c] = gs[c]]
        /\ UNCHANGED <<back, next_thread, ready, kernel_stack>>
    BY <1>2, SMTT(20) DEF Sysret, Swap
  <2>4. ContextTypeOK'
    BY <2>2, <2>3, SMTT(20) DEF ContextInv, ContextTypeOK
  <2>5. BothBases'
    BY <2>3, SMTT(20) DEF ContextInv, ContextTypeOK, BothBases, BothSet, Switched
  <2>6. SyscallFrame'
    BY <2>2, <2>3, Zenon DEF ContextInv, ContextTypeOK, SyscallFrame
  <2> QED BY <2>4, <2>5, <2>6, Zenon DEF ContextInv
<1>3. CASE Die(c)
  BY <1>3, SMTT(20) DEF Die, ContextInv, ContextTypeOK, BothBases, SyscallFrame, BothSet, Switched
<1> QED BY <1>1, <1>2, <1>3, Zenon

\* The inductive invariant holds on every path through the assembly stubs.
THEOREM ContextInvariance == ContextSpec => []ContextInv
<1>1. ContextInv /\ [ContextNext]_context => ContextInv'
  <2> SUFFICES ASSUME ContextInv, [ContextNext]_context PROVE ContextInv'
    BY Zenon
  <2>1. CASE UNCHANGED context
    BY <2>1, Zenon DEF context, ContextInv, ContextTypeOK, BothBases, SyscallFrame, BothSet, Switched
  <2>2. CASE ContextNext
    BY <2>2, IrqStep, IrqReturnStep, SchedStep, SchedFoundStep, SwitchStep, SyscallStep, Zenon
       DEF ContextNext
  <2> QED BY <2>1, <2>2, SMTT(20)
<1> QED BY <1>1, ContextStarts, PTL DEF ContextSpec

\* The registers and the stack words have their types.
THEOREM ContextTypeCorrect == ContextSpec => []ContextTypeOK
<1>1. ContextInv => ContextTypeOK
  BY Zenon DEF ContextInv
<1> QED BY <1>1, ContextInvariance, PTL

\* this_cpu() is right in all kernel code, on any number of processors.
THEOREM OwnCpuAlways == ContextSpec => []KernelSeesItsCpu
<1>1. ContextInv => KernelSeesItsCpu
  BY Zenon DEF ContextInv, BothBases, KernelSeesItsCpu
<1> QED BY <1>1, ContextInvariance, PTL

\* System calls return to the caller's stack and leave the kernel's at its top.
THEOREM StackBalanced == ContextSpec => []StackReturned
<1>1. ContextInv => StackReturned
  BY Zenon DEF ContextInv, SyscallFrame, StackReturned
<1> QED BY <1>1, ContextInvariance, PTL

-----------------------------------------------------------------------------
(* The descriptors of a process *)

\* The values of an int.
Ints == -INT_MAX - 1 .. INT_MAX
Node == [file : Nodes, offset : Ints]

\* The table of slots: only those below current_filde and the cwd are written.
SlotInv == /\ fildes \in [Slots \cup {AT_FDCWD} -> Node \cup {Unwritten}]
           /\ fildes[AT_FDCWD] # Unwritten
           /\ \A s \in Slots : s >= current_filde => fildes[s] = Unwritten

\* The inductive invariant of Files.
FilesInv == FilesTypeOK /\ SlotInv /\ (mode = "user" => vfs_lock = 0)

-----------------------------------------------------------------------------
\* Remainders, which the conversion to int is made of.
LEMMA ModSmall == ASSUME NEW a \in Nat, NEW b \in Nat, a < b PROVE a % b = a
OBVIOUS

\* A remainder is smaller than the divisor.
LEMMA ModRange == ASSUME NEW a \in Int, NEW b \in Nat, b > 0 PROVE a % b \in Int /\ 0 <= a % b /\ a % b < b
OBVIOUS

\* Storing a position in an int: it fits, and is kept if it did before.
LEMMA ToIntFacts ==
  ASSUME NEW x \in Int
  PROVE  ToInt(x) \in Ints /\ (x \in Ints => ToInt(x) = x)
<1> DEFINE b == 2 * (INT_MAX + 1)
           a == x + INT_MAX + 1
<1>1. INT_MAX \in Nat
  BY FilesAssumption
<1>2. a \in Int /\ b \in Nat /\ b > 0
  BY <1>1
<1>3. ToInt(x) = (a % b) - (INT_MAX + 1)
  BY DEF ToInt
<1>4. x \in Ints => a \in Nat /\ a < b
  BY <1>1 DEF Ints
<1>5. a % b \in Int /\ 0 <= a % b /\ a % b < b
  <2> HIDE DEF a, b
  <2> QED BY <1>2, ModRange, SMTT(20)
<1>6. x \in Ints => a % b = a
  <2> HIDE DEF a, b
  <2> QED BY <1>2, <1>4, ModSmall, SMTT(20)
<1>7. ToInt(x) \in Ints
  <2> DEFINE m == a % b
  <2>1. m \in Int /\ 0 <= m /\ m < 2 * (INT_MAX + 1) /\ ToInt(x) = m - (INT_MAX + 1)
    BY <1>3, <1>5, SMTT(20)
  <2> HIDE DEF m
  <2> QED BY <1>1, <2>1, SMTT(20) DEF Ints
<1>8. x \in Ints => ToInt(x) = x
  BY <1>1, <1>3, <1>6, SMTT(20)
<1> QED BY <1>7, <1>8

\* A descriptor that fd_to_node finds a written node for.
LEMMA UsableNode ==
  ASSUME FilesInv, NEW fd, Usable(fd), fildes[fd] # Unwritten
  PROVE  /\ fd \in Slots \cup {AT_FDCWD} /\ fildes[fd] \in Node /\ fd \in Written
         /\ fildes[fd].file \in Nodes /\ fildes[fd].offset \in Ints
BY Zenon DEF FilesInv, SlotInv, Usable, BadFd, Node, Written

\* A read returns a count, and no more than what is left.
LEMMA ReadCountFacts ==
  ASSUME NEW node \in Node, NEW bytes \in Nat
  PROVE  LET left == FileSize[node.file] - node.offset
         IN /\ ReadCount(node, bytes) \in Nat
            /\ left >= 0 => ReadCount(node, bytes) <= left
<1>1. FileSize[node.file] \in Nat /\ node.offset \in Int
  BY FilesAssumption, SMTT(20) DEF Node, Ints
<1> QED BY <1>1, SMTT(20) DEF ReadCount

\* syscall_seek computes an integer, before it is stored in an int.
LEMMA NewOffType ==
  ASSUME NEW node \in Node, NEW offset \in Int,
         NEW whence \in {"SEEK_SET", "SEEK_CUR", "SEEK_END", "invalid"}
  PROVE  NewOff(node, whence, offset) \in Int
<1>1. FileSize[node.file] \in Nat /\ node.offset \in Int
  BY FilesAssumption, SMTT(20) DEF Node, Ints
<1>2. CASE whence = "SEEK_SET"
  BY <1>2, SMTT(20) DEF NewOff
<1>3. CASE whence = "SEEK_CUR"
  BY <1>1, <1>3 DEF NewOff
<1>4. CASE whence = "SEEK_END"
  BY <1>1, <1>4 DEF NewOff
<1>5. CASE whence = "invalid"
  BY <1>5 DEF NewOff
<1> QED BY <1>2, <1>3, <1>4, <1>5, Zenon

\* What a call may do, seen from the table of slots: nothing, move the position of
\* one descriptor, or write the next slot.
Untouched == fildes' = fildes /\ current_filde' = current_filde
\* What syscall_seek and syscall_read do to a slot.
Moved(fd, p) == /\ fd \in Written
                /\ SetOffset(fd, p)
                /\ current_filde' = current_filde
\* What syscall_openat does to the table.
Opened(node) == /\ current_filde \in Slots
                /\ fildes' = [fildes EXCEPT ![current_filde] = [file |-> node, offset |-> 0]]
                /\ current_filde' = current_filde + 1

\* A read.
LEMMA ReadFacts ==
  ASSUME FilesInv, Read
  PROVE  \/ Untouched /\ mode' = "fault" /\ ret' = ret
         \/ \E fd \in Written :
              LET left == FileSize[fildes[fd].file] - fildes[fd].offset
              IN /\ Moved(fd, fildes[fd].offset + ret') /\ mode' = mode
                 /\ ret' \in Nat /\ (left >= 0 => ret' <= left)
<1>1. PICK fd \in Fds, bytes \in Counts :
         LET node == fildes[fd]
             n    == ReadCount(node, bytes)
         IN /\ Usable(fd) /\ node # Unwritten
            /\ IF node.file \in Dirs /\ (n > 0 \/ node.offset = 0)
               THEN Stop("fault") /\ UNCHANGED fildes
               ELSE SetOffset(fd, node.offset + n) /\ Return(n)
  BY Zenon DEF Read
<1> DEFINE n == ReadCount(fildes[fd], bytes)
<1>2. current_filde' = current_filde
  BY Zenon DEF Read
<1>3. fd \in Written /\ fildes[fd] \in Node /\ bytes \in Nat
  BY <1>1, UsableNode, FilesAssumption, Zenon
<1>4. n \in Nat /\ (FileSize[fildes[fd].file] - fildes[fd].offset >= 0 =>
                      n <= FileSize[fildes[fd].file] - fildes[fd].offset)
  BY <1>3, ReadCountFacts, Zenon
<1>5. CASE Stop("fault") /\ UNCHANGED fildes
  BY <1>2, <1>5, Zenon DEF Stop, Untouched
<1>6. CASE SetOffset(fd, fildes[fd].offset + n) /\ Return(n)
  <2>1. ret' = n /\ mode' = mode
    BY <1>6, Zenon DEF Return
  <2>2. SetOffset(fd, fildes[fd].offset + n)
    BY <1>6
  <2> HIDE DEF n
  <2> QED BY <1>2, <1>3, <1>4, <2>1, <2>2, Zenon DEF Moved
<1> QED BY <1>1, <1>5, <1>6, Zenon

\* A seek.
LEMMA SeekFacts ==
  ASSUME FilesInv, Seek
  PROVE  \/ Untouched /\ mode' = mode /\ ret' = -1
         \/ \E fd \in Written : Moved(fd, ret') /\ mode' = mode /\ ret' \in Nat
<1>1. PICK fd \in Fds, offset \in Offsets,
           whence \in {"SEEK_SET", "SEEK_CUR", "SEEK_END", "invalid"} :
         LET new_off == NewOff(fildes[fd], whence, offset)
         IN /\ Usable(fd) /\ fildes[fd] # Unwritten
            /\ IF new_off < 0
               THEN Return(-1) /\ UNCHANGED fildes
               ELSE SetOffset(fd, new_off) /\ Return(new_off)
  BY DEF Seek
<1> DEFINE p == NewOff(fildes[fd], whence, offset)
<1>2. current_filde' = current_filde
  BY Zenon DEF Seek
<1>3. fd \in Written /\ fildes[fd] \in Node /\ offset \in Int
  BY <1>1, UsableNode, FilesAssumption, Zenon
<1>4. p \in Int
  BY <1>3, NewOffType, Zenon
<1> HIDE DEF p
<1>5. CASE p < 0
  BY <1>1, <1>2, <1>5, Zenon DEF Return, Untouched, p
<1>6. CASE ~(p < 0)
  <2>1. p \in Nat /\ SetOffset(fd, p) /\ ret' = p /\ mode' = mode
    BY <1>1, <1>4, <1>6 DEF Return, p
  <2> QED BY <1>2, <1>3, <2>1, Zenon DEF Moved
<1> QED BY <1>5, <1>6, Zenon

\* The remaining calls, case by case.
LEMMA OtherFacts ==
  ASSUME FilesInv,
         \/ CallSpins \/ CallUnwritten \/ OpenThroughFile \/ OpenSpins \/ OpenMissing
         \/ OpenCreate \/ OpenCreateInFile \/ ReadBad \/ SeekBad
  PROVE  /\ Untouched
         /\ \/ mode' = mode /\ mode = "user" /\ ret' = -1 /\ vfs_lock' = vfs_lock
            \/ ret' = ret /\ mode' \in {"deadlock", "fault", "undefined"}
         /\ fildes_lock' \in {0, 1} /\ vfs_lock' \in {0, 1}
<1> USE DEF Untouched, Return, Stop, FilesInv, FilesTypeOK, DirGiven, Usable, LockAfter
<1>1. CASE CallSpins \/ CallUnwritten \/ OpenCreateInFile
  BY <1>1, Zenon DEF CallSpins, CallUnwritten, OpenCreateInFile
<1>2. CASE OpenThroughFile \/ OpenSpins \/ OpenMissing
  BY <1>2, Zenon DEF OpenThroughFile, OpenSpins, OpenMissing
<1>3. CASE OpenCreate
  BY <1>3, Zenon DEF OpenCreate
<1>4. CASE ReadBad \/ SeekBad
  BY <1>4, Zenon DEF ReadBad, SeekBad
<1> QED BY <1>1, <1>2, <1>3, <1>4, Zenon

\* The initial state of a process.
LEMMA FilesStarts == FilesInit => FilesInv
<1> SUFFICES ASSUME FilesInit PROVE FilesInv
  OBVIOUS
<1>0. /\ INT_MAX \in Nat /\ MAX_FILDES \in Nat /\ AT_FDCWD \notin Slots /\ Root \in Nodes
      /\ Unwritten \notin [file : Nodes, offset : Int]
  BY FilesAssumption DEF Slots
<1> DEFINE r == [file |-> Root, offset |-> 0]
<1>1. r \in Node /\ r # Unwritten /\ r.file = Root /\ r.offset = 0
  <2>1. r \in [file : Nodes, offset : Int] /\ 0 \in Ints
    BY <1>0 DEF Ints
  <2> QED BY <1>0, <2>1, Zenon DEF Node
<1>2. fildes = [s \in Slots \cup {AT_FDCWD} |-> IF s = AT_FDCWD THEN r ELSE Unwritten]
  BY Zenon DEF FilesInit
<1> HIDE DEF r
<1>3. SlotInv
  BY <1>0, <1>1, <1>2, Zenon DEF SlotInv
<1>4. FilesTypeOK
  BY <1>0, <1>1, <1>2 DEF FilesTypeOK, FilesInit, Ints, Node
<1> QED BY <1>3, <1>4, Zenon DEF FilesInv, FilesInit

\* A move changes the offset in one slot and no more.
LEMMA MovedFacts ==
  ASSUME FilesInv, NEW fd, NEW p \in Int, Moved(fd, p)
  PROVE  /\ fd \in Slots \cup {AT_FDCWD} /\ fildes[fd] # Unwritten
         /\ fildes' \in [Slots \cup {AT_FDCWD} -> Node \cup {Unwritten}]
         /\ fildes'[fd] # Unwritten /\ fildes'[fd].file = fildes[fd].file
         /\ fildes'[fd].offset = ToInt(p)
         /\ \A d \in Slots \cup {AT_FDCWD} : d # fd => fildes'[d] = fildes[d]
         /\ Written' = Written
<1>0. /\ fildes \in [Slots \cup {AT_FDCWD} -> Node \cup {Unwritten}]
      /\ Unwritten \notin [file : Nodes, offset : Int]
  BY FilesAssumption, Zenon DEF FilesInv, SlotInv
<1>1. fd \in Slots \cup {AT_FDCWD} /\ fildes[fd] # Unwritten /\ fildes[fd] \in Node
  BY <1>0, Zenon DEF Moved, Written
<1> DEFINE r == [file |-> fildes[fd].file, offset |-> ToInt(p)]
<1>2. ToInt(p) \in Ints /\ fildes[fd].file \in Nodes
  BY <1>1, ToIntFacts, Zenon DEF Node
<1>3. r \in Node /\ r # Unwritten /\ r.file = fildes[fd].file /\ r.offset = ToInt(p)
  <2>1. Ints \subseteq Int
    BY FilesAssumption DEF Ints
  <2>2. r \in [file : Nodes, offset : Int]
    BY <1>2, <2>1, Zenon
  <2> QED BY <1>0, <1>2, <2>2, Zenon DEF Node
<1>4. fildes' = [fildes EXCEPT ![fd] = r]
  BY DEF Moved, SetOffset
<1> HIDE DEF r
<1>5. /\ fildes' \in [Slots \cup {AT_FDCWD} -> Node \cup {Unwritten}] /\ fildes'[fd] = r
      /\ \A d \in Slots \cup {AT_FDCWD} : d # fd => fildes'[d] = fildes[d]
  BY <1>0, <1>1, <1>3, <1>4
<1>6. Written' = Written
  BY <1>0, <1>1, <1>3, <1>5, Zenon DEF Written
<1> QED BY <1>1, <1>3, <1>5, <1>6, Zenon

\* An open writes one slot, which was not written before.
LEMMA OpenedFacts ==
  ASSUME FilesInv, NEW node \in Nodes, Opened(node)
  PROVE  /\ current_filde \in Slots /\ fildes[current_filde] = Unwritten
         /\ fildes' \in [Slots \cup {AT_FDCWD} -> Node \cup {Unwritten}]
         /\ fildes'[current_filde] = [file |-> node, offset |-> 0]
         /\ fildes'[current_filde] # Unwritten
         /\ \A d \in Slots \cup {AT_FDCWD} : d # current_filde => fildes'[d] = fildes[d]
         /\ Written' = Written \cup {current_filde}
<1>0. /\ fildes \in [Slots \cup {AT_FDCWD} -> Node \cup {Unwritten}]
      /\ Unwritten \notin [file : Nodes, offset : Int]
  BY FilesAssumption, Zenon DEF FilesInv, SlotInv
<1> DEFINE r == [file |-> node, offset |-> 0]
<1>1. r \in Node /\ r # Unwritten
  <2>1. 0 \in Ints /\ r \in [file : Nodes, offset : Int]
    BY FilesAssumption DEF Ints
  <2> QED BY <1>0, <2>1, Zenon DEF Node
<1>2. current_filde \in Slots /\ fildes' = [fildes EXCEPT ![current_filde] = r]
  BY Zenon DEF Opened
<1>3. fildes[current_filde] = Unwritten
  BY <1>2 DEF FilesInv, SlotInv, Slots
<1>7. r = [file |-> node, offset |-> 0]
  OBVIOUS
<1> HIDE DEF r
<1>4. /\ fildes' \in [Slots \cup {AT_FDCWD} -> Node \cup {Unwritten}] /\ fildes'[current_filde] = r
      /\ \A d \in Slots \cup {AT_FDCWD} : d # current_filde => fildes'[d] = fildes[d]
  BY <1>0, <1>1, <1>2, Zenon
<1>5. Written' = Written \cup {current_filde}
  BY <1>0, <1>1, <1>2, <1>4, Zenon DEF Written
<1> QED BY <1>1, <1>2, <1>3, <1>4, <1>5, <1>7, Zenon

\* syscall_openat of something that exists fills one slot and touches no lock.
LEMMA OpenFoundFacts ==
  ASSUME OpenFound
  PROVE  \E node \in Nodes : /\ Opened(node) /\ ret' = current_filde /\ mode' = mode
                             /\ fildes_lock' = fildes_lock /\ vfs_lock' = vfs_lock
BY Zenon DEF OpenFound, Opened, Return

\* Every call keeps the invariant.
LEMMA FilesStep == ASSUME FilesInv, [FilesNext]_files PROVE FilesInv'
<1>0. /\ fildes \in [Slots \cup {AT_FDCWD} -> Node \cup {Unwritten}] /\ fildes[AT_FDCWD] # Unwritten
      /\ \A s \in Slots : s >= current_filde => fildes[s] = Unwritten
      /\ FilesTypeOK /\ (mode = "user" => vfs_lock = 0)
      /\ MAX_FILDES \in Nat /\ AT_FDCWD \notin Slots /\ Ints \subseteq Int
  BY FilesAssumption DEF FilesInv, SlotInv, Slots, Ints
<1>t. ASSUME SlotInv', current_filde' \in -1 .. MAX_FILDES, fildes_lock' \in {0, 1}, vfs_lock' \in {0, 1},
             mode' \in {"user", "deadlock", "fault", "undefined"}, ret' \in Int
      PROVE  FilesTypeOK'
  BY <1>t, Zenon DEF SlotInv, FilesTypeOK, Node, Ints
<1>1. ASSUME NEW fd, NEW p \in Int, Moved(fd, p) PROVE SlotInv'
  <2>1. current_filde' = current_filde
    BY <1>1, Zenon DEF Moved
  <2> QED BY <1>0, <1>1, <2>1, MovedFacts, Zenon DEF SlotInv
<1>2. CASE Read
  <2>1. UNCHANGED <<current_filde, fildes_lock, vfs_lock>>
    BY <1>2, Zenon DEF Read
  <2>2. /\ mode' = mode \/ mode' = "fault"
        /\ ret' \in Int
        /\ SlotInv'
    <3>1. CASE Untouched /\ mode' = "fault" /\ ret' = ret
      BY <1>0, <3>1, Zenon DEF Untouched, SlotInv, FilesTypeOK
    <3>2. ASSUME NEW fd \in Written, Moved(fd, fildes[fd].offset + ret'), mode' = mode, ret' \in Nat
          PROVE  <2>2!:
      <4>1. fildes[fd].offset \in Int
        BY <1>0, Zenon DEF Written, Node
      <4> QED BY <1>1, <3>2, <4>1
    <3> QED BY <1>2, <3>1, <3>2, ReadFacts, Zenon
  <2> QED BY <1>0, <1>t, <2>1, <2>2, Zenon DEF FilesInv, FilesTypeOK
<1>3. CASE Seek
  <2>1. UNCHANGED <<current_filde, fildes_lock, vfs_lock>>
    BY <1>3, Zenon DEF Seek
  <2>2. mode' = mode /\ ret' \in Int /\ SlotInv'
    <3>1. CASE Untouched /\ mode' = mode /\ ret' = -1
      BY <1>0, <3>1, SMTT(20) DEF Untouched, SlotInv
    <3>2. ASSUME NEW fd \in Written, Moved(fd, ret'), mode' = mode, ret' \in Nat
          PROVE  <2>2!:
      BY <1>1, <3>2, SMTT(20)
    <3> QED BY <1>3, <3>1, <3>2, SeekFacts, Zenon
  <2> QED BY <1>0, <1>t, <2>1, <2>2, Zenon DEF FilesInv, FilesTypeOK
<1>4. CASE OpenFound
  <2>1. PICK node \in Nodes : /\ Opened(node) /\ ret' = current_filde /\ mode' = mode
                              /\ fildes_lock' = fildes_lock /\ vfs_lock' = vfs_lock
    BY <1>4, OpenFoundFacts, SMTT(20)
  <2>2. current_filde' = current_filde + 1 /\ current_filde \in 0 .. MAX_FILDES - 1
    BY <2>1, SMTT(20) DEF Opened, Slots
  <2>3. SlotInv'
    <3>1. \A s \in Slots : s >= current_filde + 1 => s >= current_filde /\ s # current_filde
      BY <2>2, SMTT(20) DEF Slots
    <3>2. AT_FDCWD # current_filde
      BY <1>0, <2>2, ZenonT(30) DEF Slots
    <3> QED BY <1>0, <2>1, <2>2, <3>1, <3>2, OpenedFacts, Zenon DEF SlotInv
  <2> QED BY <1>0, <1>t, <2>1, <2>2, <2>3, SMTT(20) DEF FilesInv, FilesTypeOK
<1>5. CASE \/ CallSpins \/ CallUnwritten \/ OpenThroughFile \/ OpenSpins \/ OpenMissing
           \/ OpenCreate \/ OpenCreateInFile \/ ReadBad \/ SeekBad
  <2>1. /\ Untouched
        /\ \/ mode' = mode /\ mode = "user" /\ ret' = -1 /\ vfs_lock' = vfs_lock
           \/ ret' = ret /\ mode' \in {"deadlock", "fault", "undefined"}
        /\ fildes_lock' \in {0, 1} /\ vfs_lock' \in {0, 1}
    BY <1>5, OtherFacts, SMTT(20)
  <2>2. SlotInv'
    BY <1>0, <2>1, SMTT(20) DEF SlotInv, Untouched
  <2> QED BY <1>0, <1>t, <2>1, <2>2, SMTT(20) DEF FilesInv, FilesTypeOK, Untouched
<1>6. CASE UNCHANGED files
  BY <1>6, SMTT(20) DEF files, FilesInv, SlotInv, FilesTypeOK
<1> QED BY <1>2, <1>3, <1>4, <1>5, <1>6, SMTT(20) DEF FilesNext

\* The descriptors of a process keep their invariant.
THEOREM FilesInvariance == FilesSpec => []FilesInv
BY FilesStarts, FilesStep, PTL DEF FilesSpec

\* The descriptors of a process have their types.
THEOREM FilesTypeCorrect == FilesSpec => []FilesTypeOK
<1>1. FilesInv => FilesTypeOK
  BY SMTT(20) DEF FilesInv
<1> QED BY <1>1, FilesInvariance, PTL

\* Every call that comes back has released vfs_lock, and a successful one the lock
\* of the vector.
THEOREM LocksAlwaysReleased == FilesSpec => LocksReleased
<1> DEFINE Released == mode' = "user" => /\ vfs_lock' = 0
                                         /\ ret' >= 0 => fildes_lock' = fildes_lock
<1>1. ASSUME FilesInv, FilesInv', [FilesNext]_files PROVE [Released]_files
  <2>0. mode' = "user" => vfs_lock' = 0
    BY <1>1, Zenon DEF FilesInv
  <2>1. CASE Read \/ Seek
    BY <2>0, <2>1, Zenon DEF Read, Seek
  <2>2. CASE OpenFound
    BY <2>0, <2>2, OpenFoundFacts, Zenon
  <2>3. CASE \/ CallSpins \/ CallUnwritten \/ OpenThroughFile \/ OpenSpins \/ OpenMissing
             \/ OpenCreate \/ OpenCreateInFile \/ ReadBad \/ SeekBad
    <3>1. mode' # "user" \/ ret' = -1
      BY <1>1, <2>3, OtherFacts
    <3>2. ~(-1 >= 0)
      OBVIOUS
    <3> QED BY <2>0, <3>1, <3>2, Zenon
  <2> QED BY <1>1, <2>1, <2>2, <2>3, Zenon DEF FilesNext
<1> QED BY <1>1, FilesInvariance, PTL DEF LocksReleased, FilesSpec

-----------------------------------------------------------------------------
(* The refinement of FileTable *)

\* The table of descriptors that the slots stand for.
Open == [s \in Written |-> [file |-> fildes[s].file, pos |-> fildes[s].offset]]

\* The fields of a slot.
LEMMA NodeFields ==
  \A r, node, off : r = [file |-> node, offset |-> off] => r.file = node /\ r.offset = off
OBVIOUS

\* A position that moves in a slot moves in the table.
LEMMA MoveMaps ==
  ASSUME FilesInv, NEW fd \in Written, NEW p \in Int, -INT_MAX - 1 <= p, Moved(fd, p)
  PROVE  Table!Move(fd, p)
<1>1. /\ fildes'[fd].file = fildes[fd].file /\ fildes'[fd].offset = ToInt(p)
      /\ \A d \in Slots \cup {AT_FDCWD} : d # fd => fildes'[d] = fildes[d]
      /\ Written' = Written
  BY MovedFacts, Zenon
<1>2. Written \subseteq Slots \cup {AT_FDCWD}
  BY Zenon DEF Written, FilesInv, SlotInv
<1>3. p <= INT_MAX => ToInt(p) = p
  BY ToIntFacts, FilesAssumption, SMTT(20) DEF Ints
<1>4. \A d \in Written : d # fd => Open'[d] = Open[d]
  BY <1>1, <1>2, Zenon DEF Open
<1>5. Open'[fd].file = Open[fd].file /\ Open'[fd].pos = ToInt(p)
  BY <1>1, Zenon DEF Open
<1>6. DOMAIN Open' = DOMAIN Open /\ DOMAIN Open = Written
  BY <1>1, SMTT(20) DEF Open
<1> QED BY <1>3, <1>4, <1>5, <1>6, Zenon DEF Table!Move, Open

\* Every step of the calls is a step of the table, or changes nothing in it.
LEMMA FilesMaps == ASSUME FilesInv, [FilesNext]_files PROVE [Table!Next]_(Table!vars)
<1>0. \A s \in Written : fildes[s].offset \in Ints /\ fildes[s].file \in Nodes
  BY SMTT(20) DEF FilesInv, SlotInv, Written, Node
<1>i. INT_MAX \in Nat
  BY FilesAssumption, Zenon
<1>u. ASSUME fildes' = fildes PROVE Open' = Open
  BY <1>u, Zenon DEF Open, Written
<1>1. CASE Read
  <2>1. CASE Untouched /\ ret' = ret
    BY <1>u, <2>1, Zenon DEF Untouched, Table!vars, Open
  <2>2. ASSUME NEW fd \in Written, Moved(fd, fildes[fd].offset + ret'), ret' \in Nat,
               FileSize[fildes[fd].file] - fildes[fd].offset >= 0 =>
                 ret' <= FileSize[fildes[fd].file] - fildes[fd].offset
        PROVE  Table!Read
    <3>1. fildes[fd].offset + ret' \in Int /\ -INT_MAX - 1 <= fildes[fd].offset + ret'
      BY <1>0, <1>i, <2>2, SMTT(20) DEF Ints
    <3>a. PICK p \in Int : p = fildes[fd].offset + ret'
      BY <3>1, SMTT(20)
    <3>2. Table!Move(fd, p)
      <4>1. Moved(fd, p) /\ -INT_MAX - 1 <= p
        BY <2>2, <3>1, <3>a, Zenon DEF Moved, SetOffset
      <4> QED BY <4>1, MoveMaps, Zenon
    <3>3. DOMAIN Open = Written /\ Open[fd].pos = fildes[fd].offset /\ Open[fd].file = fildes[fd].file
      BY SMTT(20) DEF Open
    <3>4. ret' >= 0
      BY <2>2
    <3>5. FileSize[Open[fd].file] - Open[fd].pos >= 0 => ret' <= FileSize[Open[fd].file] - Open[fd].pos
      BY <2>2, <3>3, Zenon
    <3>6. Table!Move(fd, Open[fd].pos + ret')
      BY <3>a, <3>2, <3>3, Zenon DEF Table!Move
    <3> QED BY <3>3, <3>4, <3>5, <3>6, Zenon DEF Table!Read, Open
  <2> QED BY <1>1, <2>1, <2>2, ReadFacts, Zenon DEF Table!Next
<1>2. CASE Seek
  <2>1. CASE Untouched /\ ret' = -1
    BY <1>u, <2>1, Zenon DEF Untouched, Table!Next, Table!Fail, Open
  <2>2. ASSUME NEW fd \in Written, Moved(fd, ret'), ret' \in Nat PROVE Table!Seek
    <3>1. ret' \in Int /\ -INT_MAX - 1 <= ret'
      BY <1>i, <2>2
    <3>a. PICK p \in Int : p = ret'
      BY <3>1
    <3>2. Table!Move(fd, p)
      <4>1. Moved(fd, p) /\ -INT_MAX - 1 <= p
        BY <2>2, <3>1, <3>a, Zenon DEF Moved, SetOffset
      <4> QED BY <4>1, MoveMaps, Zenon
    <3>3. DOMAIN Open = Written
      BY SMTT(20) DEF Open
    <3>4. ret' >= 0
      BY <2>2, SMTT(20)
    <3>5. Table!Move(fd, ret')
      BY <3>a, <3>2, Zenon DEF Table!Move
    <3> QED BY <3>3, <3>4, <3>5, Zenon DEF Table!Seek, Open
  <2> QED BY <1>2, <2>1, <2>2, SeekFacts, Zenon DEF Table!Next
<1>3. CASE OpenFound
  <2>1. PICK node \in Nodes : Opened(node) /\ ret' = current_filde
    BY <1>3, OpenFoundFacts, ZenonT(30)
  <2>2. /\ current_filde \in Slots /\ fildes[current_filde] = Unwritten
        /\ fildes'[current_filde] = [file |-> node, offset |-> 0]
        /\ \A d \in Slots \cup {AT_FDCWD} : d # current_filde => fildes'[d] = fildes[d]
        /\ Written' = Written \cup {current_filde}
    BY <2>1, OpenedFacts, ZenonT(30)
  <2>3. ret' \in Nat \ DOMAIN Open
    BY <2>1, <2>2, FilesAssumption, SMTT(20) DEF Open, Written, Slots
  <2>4. Open' = [d \in DOMAIN Open \cup {ret'} |->
                   IF d = ret' THEN [file |-> node, pos |-> 0] ELSE Open[d]]
    <3>1. Written \subseteq Slots \cup {AT_FDCWD} /\ DOMAIN Open = Written
      BY ZenonT(30) DEF Written, FilesInv, SlotInv, Open
    <3>2. Open' = [d \in Written' |-> [file |-> fildes'[d].file, pos |-> fildes'[d].offset]]
      BY ZenonT(30) DEF Open
    <3>3. ASSUME NEW d \in Written'
          PROVE  [file |-> fildes'[d].file, pos |-> fildes'[d].offset] =
                   IF d = ret' THEN [file |-> node, pos |-> 0] ELSE Open[d]
      <4>1. CASE d = ret'
        <5>1. fildes'[d] = [file |-> node, offset |-> 0]
          BY <2>1, <2>2, <4>1, Zenon
        <5>2. fildes'[d].file = node /\ fildes'[d].offset = 0
          BY <5>1, NodeFields, Zenon
        <5> QED BY <4>1, <5>2, Zenon
      <4>2. CASE d # ret'
        <5>1. d \in Written /\ fildes'[d] = fildes[d]
          BY <2>1, <2>2, <3>1, <4>2, Zenon
        <5> QED BY <4>2, <5>1, Zenon DEF Open
      <4> QED BY <4>1, <4>2, Zenon
    <3> QED BY <2>1, <2>2, <3>1, <3>2, <3>3, ZenonT(30)
  <2>5. Table!Open
    BY <2>3, <2>4, ZenonT(30) DEF Table!Open, Open
  <2> QED BY <2>5, SMTT(20) DEF Table!Next
<1>4. CASE \/ CallSpins \/ CallUnwritten \/ OpenThroughFile \/ OpenSpins \/ OpenMissing
           \/ OpenCreate \/ OpenCreateInFile \/ ReadBad \/ SeekBad
  <2>1. Untouched /\ (ret' = -1 \/ ret' = ret)
    BY <1>4, OtherFacts, ZenonT(30)
  <2> QED BY <1>u, <2>1, ZenonT(30) DEF Untouched, Table!Next, Table!Fail, Table!vars, Open
<1>5. CASE UNCHANGED files
  BY <1>u, <1>5, Zenon DEF files, Table!vars, Open
<1> QED BY <1>1, <1>2, <1>3, <1>4, <1>5, Zenon DEF FilesNext

\* The descriptors of a new process are an empty table but for AT_FDCWD.
LEMMA FilesInitMaps == FilesInit => Table!Init
<1> SUFFICES ASSUME FilesInit PROVE Table!Init
  OBVIOUS
<1> DEFINE r == [file |-> Root, offset |-> 0]
<1>1. fildes = [s \in Slots \cup {AT_FDCWD} |-> IF s = AT_FDCWD THEN r ELSE Unwritten] /\ ret = 0
  BY Zenon DEF FilesInit
<1>2. r # Unwritten /\ r.file = Root /\ r.offset = 0
  <2>1. r \in [file : Nodes, offset : Int] /\ Unwritten \notin [file : Nodes, offset : Int]
    BY FilesAssumption
  <2> QED BY <2>1, Zenon
<1> HIDE DEF r
<1>3. Written = {AT_FDCWD} /\ fildes[AT_FDCWD] = r
  BY <1>1, <1>2, Zenon DEF Written
<1>4. Open = [fd \in {AT_FDCWD} |-> [file |-> Root, pos |-> 0]]
  BY <1>2, <1>3 DEF Open
<1> QED BY <1>1, <1>4, Zenon DEF Table!Init, Open

\* The slots, copies of nodes and locks of a process implement a table of
\* independent descriptors, whatever current_filde was in memory.
THEOREM FilesImplementTable == FilesSpec => ImplementsFileTable
BY FilesInitMaps, FilesMaps, FilesInvariance, PTL DEF FilesSpec, ImplementsFileTable, Table!Spec
=============================================================================
