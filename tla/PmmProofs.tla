----------------------------- MODULE PmmProofs ------------------------------
(***************************************************************************)
(* Proofs about Pmm, for any number of processors and frames and any       *)
(* requests. The inductive invariant adds to Exclusive the mutual          *)
(* exclusion of pmm_lock, the loop invariant of the scan, and that a run   *)
(* on its way back to the allocator still belongs to its caller. The       *)
(* memory maps that pmm_init starts from may have any number of regions.   *)
(*                                                                         *)
(* And about Initramfs, for archives of any number of entries of any       *)
(* sizes: the walk has given back exactly the frames behind it, so that    *)
(* what it has yet to read is intact.                                      *)
(***************************************************************************)
EXTENDS PmmInit, Initramfs, TLAPS, WellFoundedInduction

\* The caller is between spinlock_acquire and spinlock_release.
Holds(c) == pc[c] \in {"scan", "clear"}

\* pmm_lock is a lock: its word is 1 while it is held, by one caller only.
LockInv == /\ \A c \in Cpus : Holds(c) => pmm_lock = 1
           /\ \A c, d \in Cpus : Holds(c) /\ Holds(d) => c = d

\* The loop invariant of pmm_malloc: available_frames is the length of the
\* free run that ends right below frame, and no run that lies wholly below
\* frame is long enough.
ScanInvOf(c) ==
  /\ frame[c] >= 1
  /\ avail[c] < want[c]
  /\ avail[c] < frame[c]
  /\ frame[c] <= Limit \/ avail[c] = 0
  /\ \A f \in Frames : frame[c] - avail[c] <= f /\ f < frame[c] => bitmap[f] = 0
  /\ frame[c] - avail[c] - 1 \in Frames \ {0} => bitmap[frame[c] - avail[c] - 1] = 1
  /\ \A b \in Frames :
       b + want[c] <= frame[c] => ~IsFreeRun(Unset(bitmap), b, want[c])

ScanInv == \A c \in Cpus : pc[c] = "scan" /\ want[c] > 0 => ScanInvOf(c)

\* pmm_free is only called with frames of the caller.
FreeInv == \A c \in Cpus : pc[c] \in {"free_lock", "clear"} =>
             Run(ptr[c], want[c]) \subseteq owned[c]

\* The inductive invariant of Pmm.
IInv == TypeOK /\ LockInv /\ ScanInv /\ FreeInv /\ Exclusive
-----------------------------------------------------------------------------
\* The number of frames pmm_alloc computes is a natural number.
LEMMA FramesForType == \A s \in Sizes : FramesFor(s) \in Nat
<1>1. SUFFICES ASSUME NEW s \in Sizes PROVE FramesFor(s) \in Nat
  OBVIOUS
<1>2. s \in Nat /\ FRAME_SIZE \in Nat /\ FRAME_SIZE > 0
  BY SizesAssumption
<1>3. s + (FRAME_SIZE - 1) \in Nat
  BY <1>2
<1> QED BY <1>2, <1>3 DEF FramesFor

\* Marking or clearing a run in the bitmap removes it from or adds it to the
\* free frames.
LEMMA MarkRun ==
  ASSUME NEW m \in [Frames -> {0, 1}], NEW S \in SUBSET Frames
  PROVE  /\ Unset([f \in Frames |-> IF f \in S THEN 1 ELSE m[f]]) = Unset(m) \ S
         /\ Unset([f \in Frames |-> IF f \in S THEN 0 ELSE m[f]]) = Unset(m) \cup S
BY DEF Unset

\* The step in which the scan succeeds takes the lowest run that fits.
LEMMA TakeIsFirstFit ==
  ASSUME IInv, NEW c \in Cpus, ScanTake(c), want[c] > 0
  PROVE  IsFirstFit(Unset(bitmap), frame[c] - want[c] + 1, want[c])
<1> DEFINE first == frame[c] - want[c] + 1
<1>1. ScanInvOf(c)
  BY DEF IInv, ScanInv, ScanTake, Goto
<1>2. /\ frame[c] \in Nat /\ avail[c] \in Nat /\ want[c] \in Nat
      /\ frame[c] \in Frames /\ bitmap[frame[c]] \in {0, 1}
  BY <1>1, LimitAssumption DEF IInv, TypeOK, ScanTake, Frames, ScanInvOf
<1>3. bitmap[frame[c]] = 0 /\ avail[c] + 1 = want[c]
  BY <1>1, <1>2 DEF ScanTake, Counted, ScanInvOf
<1>4. first = frame[c] - avail[c] /\ first >= 1 /\ first + want[c] <= Limit
  BY <1>1, <1>2, <1>3, LimitAssumption DEF ScanInvOf, ScanTake
<1>5. Run(first, want[c]) \subseteq Unset(bitmap)
  BY <1>1, <1>2, <1>3, <1>4, LimitAssumption DEF ScanInvOf, Run, Unset, Frames
<1>6. ASSUME NEW a \in 1 .. first - 1
      PROVE  ~IsFreeRun(Unset(bitmap), a, want[c])
  <2>1. a \in Frames /\ a + want[c] <= frame[c]
    BY <1>2, <1>4, LimitAssumption DEF Frames
  <2> QED BY <2>1, <1>1 DEF ScanInvOf
<1> HIDE DEF first
<1>7. IsFirstFit(Unset(bitmap), first, want[c])
  BY <1>4, <1>5, <1>6 DEF IsFirstFit, IsFreeRun
<1> QED BY <1>7 DEF first
-----------------------------------------------------------------------------
\* pmm_init leaves a state in which the invariant holds.
LEMMA InitIInv == Init => IInv
<1> SUFFICES ASSUME Init PROVE IInv
  OBVIOUS
<1>1. TypeOK
  BY DEF Init, TypeOK, NULL, Kinds
<1>2. LockInv /\ ScanInv /\ FreeInv
  BY DEF Init, LockInv, Holds, ScanInv, FreeInv
<1>3. Exclusive
  BY DEF Init, Exclusive, Disjoint
<1> QED BY <1>1, <1>2, <1>3 DEF IInv

\* Every step keeps the types.
LEMMA TypeStep == ASSUME IInv, [Next]_vars PROVE TypeOK'
<1> USE DEF IInv, TypeOK
<1>1. ASSUME NEW c \in Cpus, Malloc(c) PROVE TypeOK'
  <2>1. want' \in [Cpus -> Nat] /\ kind' \in [Cpus -> Kinds]
    BY <1>1, FramesForType, SizesAssumption DEF Malloc, Kinds
  <2> QED BY <1>1, <2>1 DEF Malloc, Goto
<1>2. ASSUME NEW c \in Cpus, Free(c) PROVE TypeOK'
  BY <1>2, LimitAssumption DEF Free, Goto, Frames
<1>3. ASSUME NEW c \in Cpus, StartScan(c) PROVE TypeOK'
  BY <1>3 DEF StartScan, Acquire, Goto
<1>4. ASSUME NEW c \in Cpus, ScanReset(c) \/ ScanCount(c) PROVE TypeOK'
  BY <1>4 DEF ScanReset, ScanCount, Counted
<1>5. ASSUME NEW c \in Cpus, ScanTake(c) PROVE TypeOK'
  <2> DEFINE first == frame[c] - want[c] + 1
  <2>1. first \in Nat /\ Run(first, want[c]) \subseteq Frames
    <3>1. CASE want[c] > 0
      BY <1>5, <3>1, TakeIsFirstFit, LimitAssumption
         DEF IsFirstFit, IsFreeRun, Unset
    <3>2. CASE want[c] = 0
      BY <3>2 DEF Run
    <3> QED BY <3>1, <3>2
  <2> QED BY <1>5, <2>1 DEF ScanTake, Goto, ForgetScan
<1>6. ASSUME NEW c \in Cpus, ScanFail(c) \/ MallocReturn(c) PROVE TypeOK'
  BY <1>6 DEF ScanFail, MallocReturn, Forget, ForgetScan, Goto, NULL, Kinds
<1>7. ASSUME NEW c \in Cpus, StartClear(c) \/ Clear(c) PROVE TypeOK'
  BY <1>7 DEF StartClear, Clear, Acquire, Goto, Forget, NULL, Kinds
<1>8. CASE UNCHANGED vars
  BY <1>8 DEF vars
<1> QED BY <1>1, <1>2, <1>3, <1>4, <1>5, <1>6, <1>7, <1>8 DEF Next, Step

\* Every step keeps pmm_lock a lock.
LEMMA LockStep == ASSUME IInv, [Next]_vars PROVE LockInv'
<1> USE DEF IInv, TypeOK, LockInv, Holds
<1>1. ASSUME NEW c \in Cpus, Malloc(c) \/ Free(c) \/ MallocReturn(c)
      PROVE  LockInv'
  BY <1>1 DEF Malloc, Free, MallocReturn, Goto
<1>2. ASSUME NEW c \in Cpus, StartScan(c) \/ StartClear(c) PROVE LockInv'
  BY <1>2 DEF StartScan, StartClear, Acquire, Goto
<1>3. ASSUME NEW c \in Cpus, ScanReset(c) \/ ScanCount(c) PROVE LockInv'
  BY <1>3 DEF ScanReset, ScanCount
<1>4. ASSUME NEW c \in Cpus, ScanTake(c) \/ ScanFail(c) \/ Clear(c)
      PROVE  LockInv'
  BY <1>4 DEF ScanTake, ScanFail, Clear, Goto
<1>5. CASE UNCHANGED vars
  BY <1>5 DEF vars
<1> QED BY <1>1, <1>2, <1>3, <1>4, <1>5 DEF Next, Step

\* Nobody else's step disturbs the scan of a caller that holds the lock.
LEMMA ScanFrame ==
  ASSUME IInv, NEW d \in Cpus, ScanInvOf(d), UNCHANGED bitmap,
         frame'[d] = frame[d], avail'[d] = avail[d], want'[d] = want[d]
  PROVE  ScanInvOf(d)'
BY DEF ScanInvOf, IsFreeRun, Unset

\* Every step keeps the loop invariant of the scans in progress.
LEMMA ScanStep == ASSUME IInv, [Next]_vars PROVE ScanInv'
<1> USE DEF IInv, TypeOK
<1> SUFFICES ASSUME NEW d \in Cpus, (pc[d] = "scan")', (want[d] > 0)'
             PROVE  ScanInvOf(d)'
  BY DEF ScanInv
<1>1. ASSUME NEW c \in Cpus, Malloc(c) \/ Free(c) \/ MallocReturn(c) \/ StartClear(c)
      PROVE  ScanInvOf(d)'
  <2>1. d # c /\ pc[d] = "scan" /\ want[d] > 0
    BY <1>1 DEF Malloc, Free, MallocReturn, StartClear, Acquire, Goto, Forget
  <2> QED BY <1>1, <2>1, ScanFrame
          DEF ScanInv, Malloc, Free, MallocReturn, StartClear, Forget
<1>2. ASSUME NEW c \in Cpus, StartScan(c) PROVE ScanInvOf(d)'
  <2>1. CASE d = c
    BY <1>2, <2>1 DEF StartScan, ScanInvOf, IsFreeRun, Frames
  <2>2. CASE d # c
    BY <1>2, <2>2, ScanFrame DEF StartScan, Acquire, Goto, ScanInv
  <2> QED BY <2>1, <2>2
<1>3. ASSUME NEW c \in Cpus, ScanTake(c) \/ ScanFail(c) \/ Clear(c)
      PROVE  ScanInvOf(d)'
  \* c held the lock and d holds it after the step, which no step allows
  BY <1>3, LockStep, Zenon DEF LockInv, Holds, ScanTake, ScanFail, Clear, Goto
<1>4. ASSUME NEW c \in Cpus, ScanReset(c) PROVE ScanInvOf(d)'
  <2>1. d = c /\ want[d] > 0 /\ pc[d] = "scan"
    BY <1>4 DEF ScanReset, LockInv, Holds
  <2>2. ScanInvOf(c)
    BY <2>1 DEF ScanInv
  <2>3. frame'[c] = frame[c] + 1 /\ avail'[c] = 0 /\ want'[c] = want[c]
        /\ bitmap' = bitmap /\ bitmap[frame[c]] = 1 /\ frame[c] \in Frames
    BY <1>4, <2>2, LimitAssumption DEF ScanReset, ScanInvOf, Frames
  <2>n. frame[c] \in Nat /\ avail[c] \in Nat /\ want[c] \in Nat
    BY SMTT(20)
  <2> HIDE DEF IInv, TypeOK
  <2>4. ASSUME NEW b \in Frames, b + want[c] <= frame[c] + 1
        PROVE  ~IsFreeRun(Unset(bitmap), b, want[c])
    <3>1. CASE b + want[c] <= frame[c]
      BY <3>1, <2>2, SMTT(20) DEF ScanInvOf
    <3>2. CASE b + want[c] = frame[c] + 1
      <4>1. frame[c] \in Run(b, want[c])
        BY <3>2, <2>n, <2>1, LimitAssumption, SMTT(20) DEF Run, Frames
      <4> QED BY <4>1, <2>3, SMTT(20) DEF IsFreeRun, Unset
    <3> QED BY <2>4, <2>n, <3>1, <3>2, LimitAssumption, SMTT(20) DEF Frames
  <2>5. (frame[c] + 1) - 0 - 1 = frame[c]
        /\ \A f \in Frames : ~((frame[c] + 1) - 0 <= f /\ f < frame[c] + 1)
    BY <2>n, LimitAssumption, SMTT(20) DEF Frames
  <2> QED BY <2>n, <2>1, <2>2, <2>3, <2>4, <2>5 DEF ScanInvOf
<1>5. ASSUME NEW c \in Cpus, ScanCount(c) PROVE ScanInvOf(d)'
  <2>1. d = c /\ want[d] > 0 /\ pc[d] = "scan"
    BY <1>5, SMTT(20) DEF ScanCount, LockInv, Holds
  <2>2. ScanInvOf(c)
    BY <2>1, SMTT(20) DEF ScanInv
  <2>3. frame'[c] = frame[c] + 1 /\ avail'[c] = avail[c] + 1
        /\ avail[c] + 1 # want[c] /\ want'[c] = want[c]
        /\ bitmap' = bitmap /\ bitmap[frame[c]] = 0 /\ frame[c] \in Frames
    BY <1>5, <2>2, LimitAssumption, SMTT(20) DEF ScanCount, Counted, ScanInvOf, Frames
  <2>n. frame[c] \in Nat /\ avail[c] \in Nat /\ want[c] \in Nat
    BY SMTT(20)
  <2> HIDE DEF IInv, TypeOK
  <2>4. ASSUME NEW b \in Frames, b + want[c] <= frame[c] + 1
        PROVE  ~IsFreeRun(Unset(bitmap), b, want[c])
    <3>1. CASE b + want[c] <= frame[c]
      BY <3>1, <2>2 DEF ScanInvOf
    <3>2. CASE b + want[c] = frame[c] + 1 /\ 1 <= b
      \* the run would contain the frame in use just below the current one
      <4> DEFINE g == frame[c] - avail[c] - 1
      <4>0. b \in Nat /\ b <= g /\ g < b + want[c] /\ g < Limit
        BY <3>2, <2>n, <2>2, <2>3, LimitAssumption DEF ScanInvOf, Frames
      <4>1. g \in Frames \ {0} /\ g \in Run(b, want[c])
        BY <4>0, <3>2, <2>n, LimitAssumption DEF Frames, Run
      <4>2. g \notin Unset(bitmap)
        BY <4>1, <2>2 DEF ScanInvOf, Unset
      <4> QED BY <4>1, <4>2 DEF IsFreeRun
    <3>3. CASE b = 0
      BY <3>3 DEF IsFreeRun
    <3> QED BY <2>4, <2>n, <3>1, <3>2, <3>3, LimitAssumption DEF Frames
  <2>5. \A f \in Frames : (frame[c] + 1) - (avail[c] + 1) <= f /\ f < frame[c] + 1
                            => bitmap[f] = 0
    BY <2>n, <2>2, <2>3, LimitAssumption DEF ScanInvOf, Frames
  <2>6. (frame[c] + 1) - (avail[c] + 1) - 1 = frame[c] - avail[c] - 1
    BY <2>n
  <2>7. frame[c] + 1 <= Limit
    BY <2>3, LimitAssumption DEF Frames
  <2> QED BY <2>n, <2>1, <2>2, <2>3, <2>4, <2>5, <2>6, <2>7, SMTT(20) DEF ScanInvOf
<1>6. CASE UNCHANGED vars
  BY <1>6, ScanFrame, Zenon DEF vars, ScanInv
<1> QED BY <1>1, <1>2, <1>3, <1>4, <1>5, <1>6 DEF Next, Step

\* The frames a caller is about to give back stay its own until it has.
LEMMA FreeStep == ASSUME IInv, [Next]_vars PROVE FreeInv'
<1> USE DEF IInv, TypeOK, FreeInv
<1> SUFFICES ASSUME NEW d \in Cpus, (pc[d] \in {"free_lock", "clear"})'
             PROVE  (Run(ptr[d], want[d]) \subseteq owned[d])'
  OBVIOUS
<1>1. ASSUME NEW c \in Cpus, Free(c)
      PROVE  (Run(ptr[d], want[d]) \subseteq owned[d])'
  BY <1>1 DEF Free, Goto
<1>2. ASSUME NEW c \in Cpus, Malloc(c) \/ MallocReturn(c)
      PROVE  (Run(ptr[d], want[d]) \subseteq owned[d])'
  BY <1>2 DEF Malloc, MallocReturn, Goto, Forget
<1>3. ASSUME NEW c \in Cpus, StartScan(c) \/ StartClear(c)
      PROVE  (Run(ptr[d], want[d]) \subseteq owned[d])'
  BY <1>3 DEF StartScan, StartClear, Acquire, Goto
<1>4. ASSUME NEW c \in Cpus, ScanReset(c) \/ ScanCount(c) \/ ScanFail(c)
      PROVE  (Run(ptr[d], want[d]) \subseteq owned[d])'
  BY <1>4 DEF ScanReset, ScanCount, ScanFail, Goto
<1>5. ASSUME NEW c \in Cpus, ScanTake(c) \/ Clear(c)
      PROVE  (Run(ptr[d], want[d]) \subseteq owned[d])'
  BY <1>5 DEF ScanTake, Clear, Goto, Forget
<1>6. CASE UNCHANGED vars
  BY <1>6 DEF vars
<1> QED BY <1>1, <1>2, <1>3, <1>4, <1>5, <1>6, Zenon DEF Next, Step

\* What ScanTake does to the free frames and to the frames in hand.
LEMMA TakeEffect ==
  ASSUME IInv, NEW c \in Cpus, ScanTake(c)
  PROVE  \E S \in SUBSET Unset(bitmap) :
           /\ S = Run(frame[c] - want[c] + 1, want[c])
           /\ Unset(bitmap)' = Unset(bitmap) \ S
           /\ owned' = [owned EXCEPT ![c] = @ \cup S]
<1> DEFINE S == Run(frame[c] - want[c] + 1, want[c])
<1>1. S \subseteq Unset(bitmap)
  <2>1. CASE want[c] > 0
    BY <2>1, TakeIsFirstFit DEF IsFirstFit, IsFreeRun
  <2>2. CASE want[c] = 0
    BY <2>2 DEF Run, IInv, TypeOK
  <2> QED BY <2>1, <2>2 DEF IInv, TypeOK
<1>2. bitmap' = [f \in Frames |-> IF f \in S THEN 1 ELSE bitmap[f]]
      /\ owned' = [owned EXCEPT ![c] = @ \cup S]
  BY DEF ScanTake
<1> HIDE DEF S
<1>3. Unset(bitmap)' = Unset(bitmap) \ S
  BY <1>1, <1>2, MarkRun, SMTT(20) DEF Unset, IInv, TypeOK
<1>4. S \in SUBSET Unset(bitmap) /\ S = Run(frame[c] - want[c] + 1, want[c])
  BY <1>1, SMTT(20) DEF S
<1> QED BY <1>2, <1>3, <1>4, Zenon

\* What Clear does to them: the run of the caller becomes free.
LEMMA ClearEffect ==
  ASSUME IInv, NEW c \in Cpus, Clear(c)
  PROVE  \E S \in SUBSET owned[c] :
           /\ Unset(bitmap)' = Unset(bitmap) \cup S
           /\ owned' = [owned EXCEPT ![c] = @ \ S]
<1> DEFINE S == Run(ptr[c], want[c])
<1>1. S \subseteq owned[c] /\ S \subseteq Frames
  BY SMTT(20) DEF Clear, Goto, IInv, FreeInv, TypeOK
<1>2. bitmap' = [f \in Frames |-> IF f \in S THEN 0 ELSE bitmap[f]]
      /\ owned' = [owned EXCEPT ![c] = @ \ S]
  BY SMTT(20) DEF Clear
<1> HIDE DEF S
<1>3. Unset(bitmap)' = Unset(bitmap) \cup S
  BY <1>1, <1>2, MarkRun, SMTT(20) DEF Unset, IInv, TypeOK
<1> QED BY <1>1, <1>2, <1>3, ZenonT(30)

\* All other steps leave the bitmap and the frames in hand alone.
LEMMA OtherSteps ==
  ASSUME IInv, [Next]_vars, \A c \in Cpus : ~ScanTake(c) /\ ~Clear(c)
  PROVE  UNCHANGED <<bitmap, owned>>
BY SMTT(20) DEF Next, Step, Malloc, Free, StartScan, ScanReset, ScanCount, ScanFail,
       MallocReturn, StartClear, vars

\* Every step keeps the frames in hand disjoint and marked.
LEMMA ExclusiveStep == ASSUME IInv, [Next]_vars PROVE Exclusive'
<1>1. ASSUME NEW c \in Cpus, ScanTake(c) PROVE Exclusive'
  <2>1. PICK S \in SUBSET Unset(bitmap) :
               /\ Unset(bitmap)' = Unset(bitmap) \ S
               /\ owned' = [owned EXCEPT ![c] = @ \cup S]
    BY <1>1, TakeEffect, SMTT(20)
  <2> QED BY <2>1, SMTT(20) DEF IInv, TypeOK, Exclusive, Disjoint
<1>2. ASSUME NEW c \in Cpus, Clear(c) PROVE Exclusive'
  <2>1. PICK S \in SUBSET owned[c] :
               /\ Unset(bitmap)' = Unset(bitmap) \cup S
               /\ owned' = [owned EXCEPT ![c] = @ \ S]
    BY <1>2, ClearEffect
  <2> QED BY <2>1, SMTT(20) DEF IInv, TypeOK, Exclusive, Disjoint
<1>3. CASE \A c \in Cpus : ~ScanTake(c) /\ ~Clear(c)
  BY <1>3, OtherSteps, SMTT(20) DEF IInv, Exclusive, Disjoint, Unset
<1> QED BY <1>1, <1>2, <1>3, SMTT(20)

-----------------------------------------------------------------------------
\* The inductive invariant holds in every reachable state.
THEOREM Invariance == Spec => []IInv
<1>1. IInv /\ [Next]_vars => IInv'
  BY TypeStep, LockStep, ScanStep, FreeStep, ExclusiveStep, SMTT(20) DEF IInv
<1> QED BY InitIInv, <1>1, PTL DEF Spec

\* Type correctness of the allocator.
THEOREM TypeCorrect == Spec => []TypeOK
<1>1. IInv => TypeOK
  BY SMTT(20) DEF IInv
<1> QED BY Invariance, <1>1, PTL

\* No two callers of pmm_malloc ever hold the same frame, and no frame in use
\* is offered again, for any number of processors and frames.
THEOREM ExclusiveAlways == Spec => []Exclusive
<1>1. IInv => Exclusive
  BY SMTT(20) DEF IInv
<1> QED BY Invariance, <1>1, PTL

\* pmm_malloc returns NULL only if there is no free run of the size asked for.
THEOREM NullMeansFull == Spec => NullOnlyWhenFull
<1> DEFINE A == \A c \in Cpus :
                  /\ pc[c] = "scan" /\ pc'[c] = "returned"
                  /\ want[c] > 0 /\ ptr'[c] = NULL
                  => \A b \in Frames : ~IsFreeRun(Unset(bitmap), b, want[c])
<1>1. ASSUME IInv, [Next]_vars PROVE [A]_vars
  <2> SUFFICES ASSUME NEW c \in Cpus, pc[c] = "scan", pc'[c] = "returned",
                      want[c] > 0, ptr'[c] = NULL,
                      NEW b \in Frames, IsFreeRun(Unset(bitmap), b, want[c])
               PROVE  FALSE
    BY ZenonT(30)
  <2>1. ScanTake(c) \/ ScanFail(c)
    BY <1>1, SMTT(20) DEF IInv, TypeOK, Next, Step, Malloc, Free, StartScan, ScanReset,
       ScanCount, ScanTake, ScanFail, MallocReturn, StartClear, Clear, Acquire,
       Goto, vars
  <2>2. CASE ScanTake(c)
    <3>1. frame[c] - want[c] + 1 >= 1
      BY <1>1, <2>2, TakeIsFirstFit, ZenonT(30) DEF IsFirstFit, IsFreeRun
    <3>2. ptr'[c] = frame[c] - want[c] + 1
      BY <1>1, <2>2, ZenonT(30) DEF ScanTake, IInv, TypeOK
    <3> QED BY <3>1, <3>2, <1>1, SMTT(20) DEF NULL, IInv, TypeOK
  <2>3. CASE ScanFail(c)
    <3>1. ScanInvOf(c) /\ frame[c] >= Limit
      BY <1>1, <2>3, ZenonT(30) DEF IInv, ScanInv, ScanFail
    <3>2. b + want[c] <= frame[c]
      BY <1>1, <3>1, LimitAssumption DEF IsFreeRun, Frames, IInv, TypeOK
    <3> QED BY <3>1, <3>2, ZenonT(30) DEF ScanInvOf
  <2> QED BY <2>1, <2>2, <2>3, SMTT(20)
<1> QED BY Invariance, <1>1, PTL DEF Spec, NullOnlyWhenFull

\* No step of pmm_malloc or pmm_free loses a frame or makes one: what is free and
\* what is in somebody's hands stays the same, together.  With it, MemoryConserved
\* only has to hold after pmm_init.
THEOREM PoolStays == Spec => [][Pool' = Pool]_vars
<1>1. ASSUME IInv, [Next]_vars PROVE [Pool' = Pool]_vars
  <2>1. ASSUME NEW c \in Cpus, ScanTake(c) PROVE Pool' = Pool
    <3>1. PICK S \in SUBSET Unset(bitmap) :
                 /\ Unset(bitmap)' = Unset(bitmap) \ S
                 /\ owned' = [owned EXCEPT ![c] = @ \cup S]
      BY <1>1, <2>1, TakeEffect
    <3>2. \A d \in Cpus : owned'[d] = IF d = c THEN owned[c] \cup S ELSE owned[d]
      BY <1>1, <3>1 DEF IInv, TypeOK
    <3> QED BY <3>1, <3>2 DEF Pool
  <2>2. ASSUME NEW c \in Cpus, Clear(c) PROVE Pool' = Pool
    <3>1. PICK S \in SUBSET owned[c] :
                 /\ Unset(bitmap)' = Unset(bitmap) \cup S
                 /\ owned' = [owned EXCEPT ![c] = @ \ S]
      BY <1>1, <2>2, ClearEffect
    <3>2. \A d \in Cpus : owned'[d] = IF d = c THEN owned[c] \ S ELSE owned[d]
      BY <1>1, <3>1 DEF IInv, TypeOK
    <3> QED BY <3>1, <3>2 DEF Pool
  <2>3. CASE \A c \in Cpus : ~ScanTake(c) /\ ~Clear(c)
    BY <1>1, <2>3, OtherSteps DEF Pool, Unset
  <2> QED BY <2>1, <2>2, <2>3
<1> QED BY Invariance, <1>1, PTL DEF Spec

\* pmm.c implements FrameAllocator: every call takes effect in one step, a
\* successful pmm_malloc with the lowest run that fits.
THEOREM Refinement == Spec => ImplementsFrameAllocator
<1>1. Init => FA!Init
  <2> SUFFICES ASSUME Init PROVE FA!Init
    OBVIOUS
  <2>1. FA!Frames = Frames /\ Unset(bitmap) \subseteq Frames
    BY DEF FA!Frames, Frames, Unset
  <2> QED BY <2>1 DEF Init, FA!Init, FA!Disjoint, Disjoint
<1>2. ASSUME IInv, [Next]_vars PROVE [FA!Next]_(FA!vars)
  <2>1. ASSUME NEW c \in Cpus, ScanTake(c) PROVE [FA!Next]_(FA!vars)
    <3> DEFINE b == frame[c] - want[c] + 1
    <3>1. PICK S \in SUBSET Unset(bitmap) :
                 /\ S = Run(b, want[c])
                 /\ Unset(bitmap)' = Unset(bitmap) \ S
                 /\ owned' = [owned EXCEPT ![c] = @ \cup S]
      BY <1>2, <2>1, TakeEffect
    <3>2. CASE want[c] = 0
      <4>1. S = {}
        BY <1>2, <3>1, <3>2 DEF Run, IInv, TypeOK
      <4> QED BY <1>2, <3>1, <4>1 DEF FA!vars, IInv, TypeOK
    <3>3. CASE want[c] > 0
      <4>1. IsFirstFit(Unset(bitmap), b, want[c])
        BY <1>2, <2>1, <3>3, TakeIsFirstFit
      <4>2. b \in 1 .. Limit /\ want[c] \in 1 .. Limit
        BY <1>2, <3>3, <4>1, LimitAssumption DEF IsFirstFit, IsFreeRun, IInv, TypeOK
      <4>3. FA!IsFirstFit(Unset(bitmap), b, want[c]) /\ S = FA!Run(b, want[c])
        BY <4>1, <3>1 DEF IsFirstFit, IsFreeRun, Run,
           FA!IsFirstFit, FA!IsFreeRun, FA!Run
      <4> HIDE DEF b
      <4>4. FA!Alloc(c)
        BY <3>1, <4>2, <4>3, Zenon DEF FA!Alloc
      <4> QED BY <4>4 DEF FA!Next
    <3> QED BY <1>2, <3>2, <3>3 DEF IInv, TypeOK
  <2>2. ASSUME NEW c \in Cpus, Clear(c) PROVE [FA!Next]_(FA!vars)
    BY <1>2, <2>2, ClearEffect DEF FA!Next, FA!Release
  <2>3. CASE \A c \in Cpus : ~ScanTake(c) /\ ~Clear(c)
    BY <1>2, <2>3, OtherSteps DEF FA!vars, Unset
  <2> QED BY <2>1, <2>2, <2>3
<1> QED BY Invariance, <1>1, <1>2, PTL DEF Spec, FA!Spec, ImplementsFrameAllocator

-----------------------------------------------------------------------------
(* pmm_init *)

\* Multiples of the frame size.
LEMMA MulOrder ==
  ASSUME NEW F \in Nat, F > 0, NEW a \in Int, NEW b \in Int
  PROVE  /\ a * F \in Int
         /\ a <= b <=> a * F <= b * F
         /\ a < b <=> a * F < b * F
         /\ a < b <=> a * F + F <= b * F
         /\ a * F + b * F = (a + b) * F
         /\ (a + 1) * F = a * F + F
OBVIOUS

\* Division by the frame size, from the bounds of the quotient and to them.
LEMMA DivUnique ==
  ASSUME NEW F \in Nat, F > 0, NEW a \in Int, NEW x \in Int, a * F <= x, x < a * F + F
  PROVE  x \div F = a
OBVIOUS

\* Division rounds down.
LEMMA DivBounds ==
  ASSUME NEW F \in Nat, F > 0, NEW x \in Int
  PROVE  /\ x \div F \in Int /\ (x \div F) * F <= x /\ x < (x \div F) * F + F
         /\ x % F = 0 => x = (x \div F) * F
         /\ x \in Nat => x \div F \in Nat
OBVIOUS
\* A set of numbers has a smallest element.
LEMMA SmallestOf ==
  ASSUME NEW S \in SUBSET Nat, S # {}
  PROVE  \E m \in S : \A k \in S : m <= k
<1> DEFINE R == OpToRel(<, Nat)
<1>1. \A x, y \in Nat : x < y => <<x, y>> \in R
  BY DEF OpToRel
<1>2. IsWellFoundedOn(R, Nat)
  BY NatLessThanWellFounded, Zenon
<1> HIDE DEF R
<1>3. PICK m \in S : \A k \in S : ~(<<k, m>> \in R)
  BY <1>2, WFMin, Zenon
<1>4. \A k \in S : ~(k < m)
  BY <1>1, <1>3, Zenon
<1>5. \A k \in S : m <= k
  BY <1>4
<1> QED BY <1>5

\* The frames of a region of whole frames.
First(r) == r.base \div FRAME_SIZE
\* The whole frames of a region.
Count(r) == r.length \div FRAME_SIZE

\* FramesOf goes through a region of whole frames byte by byte; this is what it finds.
LEMMA RegionFrames ==
  ASSUME NEW r, r.base \in Nat, r.length \in Nat, WholeFrames(r)
  PROVE  /\ First(r) \in Nat /\ Count(r) \in Nat
         /\ r.base = First(r) * FRAME_SIZE /\ r.length = Count(r) * FRAME_SIZE
         /\ FramesOf(r) = Run(First(r), Count(r))
<1> DEFINE F == FRAME_SIZE
           B == First(r)
           N == Count(r)
<1>0. F \in Nat /\ F > 0
  BY SizesAssumption
<1>1. B \in Nat /\ N \in Nat /\ r.base = B * F /\ r.length = N * F
  BY <1>0, DivBounds DEF First, Count, WholeFrames
<1> HIDE DEF F, B, N
<1>2. ASSUME NEW f \in FramesOf(r) PROVE f \in Run(B, N)
  <2>1. PICK t \in 0 .. r.length - 1 : t % F = 0 /\ f = (r.base + t) \div F
    BY DEF FramesOf, F
  <2> DEFINE j == t \div F
  <2>2. j \in Nat /\ t = j * F /\ t \in Nat /\ t < N * F
    BY <1>0, <1>1, <2>1, DivBounds
  <2> HIDE DEF j
  <2>3. j < N /\ r.base + t = (B + j) * F
    BY <1>0, <1>1, <2>2, MulOrder
  <2>4. f = B + j
    <3>1. B + j \in Int /\ (B + j) * F <= r.base + t /\ r.base + t < (B + j) * F + F
      BY <1>0, <1>1, <2>2, <2>3, MulOrder
    <3>2. r.base + t \in Int
      BY <1>1, <2>2
    <3> QED BY <1>0, <2>1, <3>1, <3>2, DivUnique, Zenon
  <2> QED BY <1>1, <2>2, <2>3, <2>4 DEF Run
<1>3. ASSUME NEW f \in Run(B, N) PROVE f \in FramesOf(r)
  <2> DEFINE j == f - B
             t == j * F
  <2>1. f \in Int /\ j \in Nat /\ j < N
    BY <1>1, <1>3 DEF Run
  <2> HIDE DEF j
  <2>2. t \in Int /\ 0 <= t /\ t < r.length
    <3>1. 0 * F = 0
      BY <1>0
    <3> QED BY <1>0, <1>1, <2>1, <3>1, MulOrder
  <2>3. t % F = 0
    BY <1>0, <2>1
  <2>4. (r.base + t) \div F = f
    <3>1. r.base + t = f * F
      BY <1>0, <1>1, <2>1, MulOrder DEF j
    <3>2. f * F \in Int /\ f * F <= f * F /\ f * F < f * F + F
      BY <1>0, <2>1, MulOrder
    <3> QED BY <1>0, <2>1, <3>1, <3>2, DivUnique
  <2> HIDE DEF t
  <2>5. t \in {n \in 0 .. r.length - 1 : n % FRAME_SIZE = 0}
    BY <1>1, <2>2, <2>3 DEF F
  <2> QED BY <2>4, <2>5 DEF FramesOf, F
<1> QED BY <1>1, <1>2, <1>3, Zenon DEF F, B, N

\* The bits of the bitmap are in the frames that bitmap_size counts, and in no other:
\* the two roundings cancel out under Boots.
LEMMA BitmapFrames ==
  ASSUME NEW m, Boots(m), limit(m) = Limit, NEW B \in Nat
  PROVE  LET S == bitmap_size(m) \div FRAME_SIZE
         IN /\ S \in Nat /\ bitmap_size(m) = S * FRAME_SIZE
            /\ {(B * FRAME_SIZE + f \div BITS) \div FRAME_SIZE : f \in Frames} = Run(B, S)
<1> DEFINE F == FRAME_SIZE
           q == Limit \div BITS
           S == (q + F - 1) \div F
<1>0. F \in Nat /\ F > 0 /\ BITS \in Nat /\ BITS > 0 /\ Limit \in Nat
  BY SizesAssumption, MemoryMapsAssumption, LimitAssumption
<1>1. /\ q \in Nat /\ q * BITS <= Limit /\ Limit < q * BITS + BITS
      /\ Limit % BITS = 0 => Limit = q * BITS
  BY <1>0, DivBounds
<1>2. Limit % BITS # 0 => q % F # 0
  BY DEF Boots
<1>3. bitmap_size(m) = S * F
  BY DEF bitmap_size, ALIGN_UP
<1> HIDE DEF q
<1>4. S \in Nat /\ S * F <= q + F - 1 /\ q + F - 1 < S * F + F
  <2>1. q + F - 1 \in Nat
    BY <1>0, <1>1
  <2> QED BY <1>0, <2>1, DivBounds
<1> HIDE DEF F, S
<1>5. S * F \in Nat /\ q <= S * F /\ S * F - F < q /\ (S * F) \div F = S
  <2>1. S * F \in Int /\ S * F <= S * F /\ S * F < S * F + F
    BY <1>0, <1>4, MulOrder
  <2>2. (S * F) \div F = S
    BY <1>0, <1>4, <2>1, DivUnique
  <2>3. 0 * F = 0 /\ 0 <= S
    BY <1>0, <1>4
  <2>4. 0 <= S * F
    BY <1>0, <1>4, <2>3, MulOrder
  <2> QED BY <1>0, <1>1, <1>4, <2>1, <2>2, <2>4
<1>6. Limit % BITS # 0 => q < S * F
  <2>1. (S * F) % F = 0
    BY <1>0, <1>4
  <2> QED BY <1>1, <1>2, <1>5, <2>1
<1>7. ASSUME NEW x \in Int, NEW e \in Int, NEW d \in Int, e * F <= d, d < e * F + F, x = B * F + d
      PROVE  x \div F = B + e
  <2>1. (B + e) * F = B * F + e * F /\ B * F \in Int /\ e * F \in Int
    BY <1>0, MulOrder
  <2>2. (B + e) * F <= x /\ x < (B + e) * F + F /\ B + e \in Int
    BY <1>7, <2>1, <1>0
  <2> QED BY <1>0, <2>2, DivUnique
<1>8. ASSUME NEW f \in Frames PROVE (B * F + f \div BITS) \div F \in Run(B, S)
  <2> DEFINE d == f \div BITS
             e == d \div F
  <2>1. f \in Nat /\ f < Limit
    BY <1>0 DEF Frames
  <2>2. d \in Nat /\ d * BITS <= f
    BY <1>0, <2>1, DivBounds
  <2> HIDE DEF d
  <2>3. e \in Nat /\ e * F <= d /\ d < e * F + F
    BY <1>0, <2>2, DivBounds
  <2> HIDE DEF e
  <2>4. d < S * F
    <3>1. CASE Limit % BITS = 0
      <4>1. d * BITS < q * BITS
        BY <1>0, <1>1, <2>1, <2>2, <3>1, MulOrder
      <4>2. d < q
        BY <1>0, <1>1, <2>2, <4>1, MulOrder
      <4> QED BY <1>1, <1>5, <2>2, <4>2
    <3>2. CASE Limit % BITS # 0
      <4>1. d * BITS \in Int /\ q * BITS \in Int /\ (q + 1) * BITS = q * BITS + BITS
        BY <1>0, <1>1, <2>2, MulOrder
      <4>2. d * BITS < (q + 1) * BITS
        BY <1>0, <1>1, <2>1, <2>2, <4>1
      <4>3. d < q + 1
        BY <1>0, <1>1, <2>2, <4>2, MulOrder
      <4> QED BY <1>1, <1>5, <1>6, <2>2, <3>2, <4>3
    <3> QED BY <3>1, <3>2
  <2>5. e < S
    <3>1. e * F < S * F
      BY <1>0, <1>5, <2>2, <2>3, <2>4, MulOrder
    <3> QED BY <1>0, <1>4, <2>3, <3>1, MulOrder
  <2>6. (B * F + d) \div F = B + e
    <3>1. B * F + d \in Int
      BY <1>0, <2>2, MulOrder
    <3> QED BY <1>7, <2>2, <2>3, <3>1
  <2>7. (B * F + f \div BITS) \div F = B + e
    BY <2>6 DEF d
  <2>8. B + e \in Run(B, S)
    BY <1>4, <2>3, <2>5 DEF Run
  <2> QED BY <2>7, <2>8
<1>9. ASSUME NEW x \in Run(B, S)
      PROVE  \E f \in Frames : x = (B * F + f \div BITS) \div F
  <2> DEFINE e == x - B
             d == e * F
             f == d * BITS
  <2>1. e \in Nat /\ e < S /\ x = B + e
    BY <1>4, <1>9 DEF Run
  <2> HIDE DEF e
  <2>2. d \in Nat /\ d < q
    <3>1. d \in Int /\ d + F <= S * F
      BY <1>0, <1>4, <2>1, MulOrder
    <3>2. 0 * F = 0 /\ 0 <= e
      BY <1>0, <2>1
    <3>3. 0 <= d
      BY <1>0, <2>1, <3>2, MulOrder
    <3> HIDE DEF d
    <3> QED BY <1>0, <1>1, <1>5, <3>1, <3>3
  <2>3. e * F <= d /\ d < e * F + F
    BY <1>0, <2>1, MulOrder
  <2> HIDE DEF d
  <2>4. f \in Nat /\ f < Limit
    <3>1. f \in Int /\ f < q * BITS
      BY <1>0, <1>1, <2>2, MulOrder
    <3>2. 0 * BITS = 0 /\ 0 <= d
      BY <1>0, <2>2
    <3>3. 0 <= f
      BY <1>0, <2>2, <3>2, MulOrder
    <3> HIDE DEF f
    <3> QED BY <1>0, <1>1, <3>1, <3>3
  <2>5. f \div BITS = d
    <3>1. d * BITS <= f /\ f < d * BITS + BITS /\ f \in Int
      BY <1>0, <2>2, <2>4
    <3> HIDE DEF f
    <3> QED BY <1>0, <2>2, <3>1, DivUnique
  <2> HIDE DEF f
  <2>6. (B * F + d) \div F = B + e
    <3>1. B * F + d \in Int
      BY <1>0, <2>2, MulOrder
    <3> QED BY <1>7, <2>1, <2>2, <2>3, <3>1
  <2> QED BY <1>0, <2>1, <2>4, <2>5, <2>6 DEF Frames
<1>10. {(B * F + f \div BITS) \div F : f \in Frames} = Run(B, S)
  BY <1>8, <1>9
<1>11. bitmap_size(m) \div F = S
  BY <1>3, <1>5, Zenon
<1> QED BY <1>3, <1>4, <1>10, <1>11 DEF F

\* The region that the bitmap is put in.
LEMMA MapFacts ==
  ASSUME NEW m \in MemoryMaps, Fitting(m) # {}
  PROVE  LET b == Min(Fitting(m))
         IN /\ b \in DOMAIN m /\ m[b].type = "usable" /\ m[b].length >= bitmap_size(m)
            /\ \A i \in DOMAIN m : m[i] \in Region
<1>1. m \in Seq(Region)
  BY MemoryMapsAssumption
<1>2. DOMAIN m \subseteq Nat /\ \A i \in DOMAIN m : m[i] \in Region
  <2> DEFINE R == Region
  <2>1. m \in Seq(R)
    BY <1>1
  <2> HIDE DEF R
  <2>2. DOMAIN m = 1 .. Len(m) /\ Len(m) \in Nat /\ \A i \in DOMAIN m : m[i] \in R
    BY <2>1
  <2> QED BY <2>2 DEF R
<1>3. Fitting(m) \in SUBSET Nat
  BY <1>2, SMTT(20) DEF Fitting, Regions
<1>4. PICK b \in Fitting(m) : \A k \in Fitting(m) : b <= k
  BY <1>3, SmallestOf, SMTT(20)
<1>5. Min(Fitting(m)) \in Fitting(m)
  BY <1>4, SMTT(20) DEF Min
<1> QED BY <1>2, <1>5 DEF Fitting, Regions

\* The memory of the map, as frames: what is usable or holds the modules, without the
\* bitmap.
LEMMA BootPool ==
  ASSUME BootInit
  PROVE  MemoryConserved
<1> DEFINE F == FRAME_SIZE
<1>0. F \in Nat /\ F > 0
  BY SizesAssumption, SMTT(20)
<1>1. PICK m \in MemoryMaps :
        /\ Boots(m) /\ limit(m) = Limit
        /\ memory = Memory(m)
        /\ bitmap = pmm_init(m)
        /\ owned = [c \in Cpus |->
             IF c = Boot
             THEN Frames \cap UNION {FramesOf(m[i]) : i \in Regions(m, "modules")}
             ELSE {}]
  BY Zenon DEF BootInit
<1> DEFINE b == Min(Fitting(m))
           S == bitmap_size(m) \div F
           B == First(m[b])
<1>2. /\ b \in DOMAIN m /\ m[b].type = "usable" /\ m[b].length >= bitmap_size(m)
      /\ \A i \in DOMAIN m : m[i] \in Region
  BY <1>1, MapFacts, SMTT(20) DEF Boots
<1>3. /\ \A i \in DOMAIN m : m[i].type # "reserved" => WholeFrames(m[i])
      /\ \A i, j \in DOMAIN m : i # j /\ m[i].type = "usable" => Apart(m[i], m[j])
  BY MemoryMapsAssumption, SMTT(20)
<1> HIDE DEF b
<1>4. ASSUME NEW i \in DOMAIN m, m[i].type # "reserved"
      PROVE  /\ First(m[i]) \in Nat /\ Count(m[i]) \in Nat
             /\ m[i].base = First(m[i]) * F /\ m[i].length = Count(m[i]) * F
             /\ FramesOf(m[i]) = Run(First(m[i]), Count(m[i]))
  <2>1. m[i].base \in Nat /\ m[i].length \in Nat /\ WholeFrames(m[i])
    BY <1>2, <1>3, <1>4, Zenon DEF Region
  <2> QED BY <2>1, RegionFrames, Zenon
<1>5. /\ S \in Nat /\ bitmap_size(m) = S * F
      /\ {(B * F + f \div BITS) \div F : f \in Frames} = Run(B, S)
  <2>1. B \in Nat
    BY <1>2, <1>4, SMTT(20)
  <2> HIDE DEF B
  <2> QED BY <1>1, <2>1, BitmapFrames, SMTT(20)
<1> HIDE DEF S
<1>6. Cut(m) = [m EXCEPT ![b] = [base |-> m[b].base + S * F, length |-> m[b].length - S * F,
                                 type |-> m[b].type]]
  <2>1. m[b] \in Region
    BY <1>2, Zenon
  <2> QED BY <1>5, <2>1, SMTT(20) DEF Cut, b, Region
<1> DEFINE r == Cut(m)[b]
<1>7. FramesOf(r) = Run(B + S, Count(m[b]) - S)
  <2>1. r = [base |-> m[b].base + S * F, length |-> m[b].length - S * F, type |-> m[b].type]
    <3>1. m \in [DOMAIN m -> Region]
      BY <1>2, MemoryMapsAssumption
    <3> QED BY <1>2, <1>6, <3>1, SMTT(20)
  <2> DEFINE N == Count(m[b])
  <2>2. /\ B \in Nat /\ N \in Nat /\ m[b].base = B * F /\ m[b].length = N * F
    BY <1>2, <1>4
  <2> HIDE DEF B, N, r
  <2>3. S <= N
    BY <1>0, <1>2, <1>5, <2>2, MulOrder
  <2>4. r.base = (B + S) * F /\ r.length = (N - S) * F
    BY <1>0, <1>5, <2>1, <2>2, MulOrder
  <2>5. B + S \in Nat /\ N - S \in Nat
    BY <1>5, <2>2, <2>3
  <2>6. r.base \div F = B + S /\ r.length \div F = N - S /\ r.base % F = 0 /\ r.length % F = 0
        /\ r.base \in Nat /\ r.length \in Nat
    <3>1. ASSUME NEW a \in Nat PROVE (a * F) \div F = a /\ (a * F) % F = 0 /\ a * F \in Nat
      <4>1. a * F \in Int /\ a * F <= a * F /\ a * F < a * F + F
        BY <1>0, MulOrder
      <4>2. 0 * F = 0 /\ 0 <= a
        BY <1>0
      <4>3. 0 <= a * F
        BY <1>0, <4>2, MulOrder
      <4> QED BY <1>0, <4>1, <4>3, DivUnique
    <3> QED BY <2>4, <2>5, <3>1
  <2>7. WholeFrames(r) /\ First(r) = B + S /\ Count(r) = N - S
    BY <2>6 DEF WholeFrames, First, Count
  <2> QED BY <2>6, <2>7, RegionFrames, SMTT(20) DEF N
<1>8. \A i \in DOMAIN m : i # b => Cut(m)[i] = m[i]
  BY <1>2, <1>6
<1>9. ASSUME NEW i \in DOMAIN m, m[i].type # "reserved", NEW f \in Frames
      PROVE  f \in FramesOf(m[i]) <=> /\ m[i].base <= f * FRAME_SIZE
                                      /\ (f + 1) * FRAME_SIZE <= m[i].base + m[i].length
  <2> DEFINE A == First(m[i])
             N == Count(m[i])
  <2>1. A \in Nat /\ N \in Nat /\ m[i].base = A * F /\ m[i].length = N * F /\ FramesOf(m[i]) = Run(A, N)
    BY <1>4, <1>9
  <2>2. f \in Nat
    BY LimitAssumption DEF Frames
  <2> HIDE DEF A, N
  <2>3. m[i].base + m[i].length = (A + N) * F
    BY <1>0, <2>1, MulOrder
  <2>4. A <= f <=> A * F <= f * F
    BY <1>0, <2>1, <2>2, MulOrder
  <2>5. f + 1 <= A + N <=> (f + 1) * F <= (A + N) * F
    BY <1>0, <2>1, <2>2, MulOrder
  <2> QED BY <2>1, <2>2, <2>3, <2>4, <2>5, SMTT(20) DEF Run
<1>10. ASSUME NEW i \in DOMAIN m, m[i].type # "reserved", i # b
       PROVE  FramesOf(m[i]) \cap Run(B, Count(m[b])) = {}
  <2> DEFINE A == First(m[i])
             N == Count(m[i])
             C == Count(m[b])
  <2>1. A \in Nat /\ N \in Nat /\ m[i].base = A * F /\ m[i].length = N * F /\ FramesOf(m[i]) = Run(A, N)
    BY <1>4, <1>10, Zenon
  <2>2. B \in Nat /\ C \in Nat /\ m[b].base = B * F /\ m[b].length = C * F
    BY <1>2, <1>4, Zenon
  <2>3. Apart(m[b], m[i])
    BY <1>2, <1>3, <1>10, Zenon
  <2> HIDE DEF A, B, C, N
  <2>4. (B + C) * F <= A * F \/ (A + N) * F <= B * F
    BY <1>0, <2>1, <2>2, <2>3, MulOrder DEF Apart
  <2>5. B + C <= A \/ A + N <= B
    BY <1>0, <2>1, <2>2, <2>4, MulOrder
  <2> QED BY <2>1, <2>2, <2>5 DEF Run, C
<1>11. FramesOf(m[b]) = Run(B, Count(m[b])) /\ B \in Nat /\ Count(m[b]) \in Nat /\ S <= Count(m[b])
  <2> DEFINE N == Count(m[b])
  <2>1. /\ B \in Nat /\ N \in Nat /\ m[b].base = B * F /\ m[b].length = N * F
        /\ FramesOf(m[b]) = Run(B, N)
    BY <1>2, <1>4, Zenon
  <2> HIDE DEF B, N
  <2>2. S <= N
    BY <1>0, <1>2, <1>5, <2>1, MulOrder
  <2> QED BY <2>1, <2>2, Zenon DEF N
<1>12. FramesOf(r) = FramesOf(m[b]) \ Run(B, S) /\ Run(B, S) \subseteq Run(B, Count(m[b]))
  <2> HIDE DEF B, r
  <2> QED BY <1>5, <1>7, <1>11 DEF Run
<1>13. ASSUME NEW f \in Frames
       PROVE  f \in Memory(m) <=> /\ \E i \in DOMAIN m : m[i].type # "reserved" /\ f \in FramesOf(m[i])
                                  /\ f \notin Run(B, S)
  <2>1. m[b].base = B * F
    BY <1>2, <1>4, Zenon
  <2> HIDE DEF B
  <2>2. Memory(m) = {g \in Frames : \E i \in DOMAIN m : /\ m[i].type # "reserved"
                                      /\ m[i].base <= g * FRAME_SIZE
                                      /\ (g + 1) * FRAME_SIZE <= m[i].base + m[i].length}
                    \ Run(B, S)
    BY <1>5, <2>1, Zenon DEF Memory, b
  <2> QED BY <1>9, <2>2, Zenon
<1>14. ASSUME NEW f \in Frames
       PROVE  f \in Unset(bitmap) <=> \E i \in DOMAIN m : m[i].type = "usable" /\ f \in FramesOf(Cut(m)[i])
  BY <1>1 DEF Unset, pmm_init, Regions
<1>15. ASSUME NEW f \in Frames
       PROVE  f \in UNION {owned[c] : c \in Cpus} <=>
                \E i \in DOMAIN m : m[i].type = "modules" /\ f \in FramesOf(m[i])
  <2>1. UNION {owned[c] : c \in Cpus} = Frames \cap UNION {FramesOf(m[i]) : i \in Regions(m, "modules")}
    <3>1. Boot \in Cpus
      BY MemoryMapsAssumption
    <3> QED BY <1>1, <3>1, Zenon
  <2> QED BY <2>1 DEF Regions
<1>16. \A i \in DOMAIN m : m[i].type \in {"usable", "modules", "reserved"}
  BY <1>2, SMTT(20) DEF Region
<1>17. ASSUME NEW f \in Frames
       PROVE  f \in Unset(bitmap) \cup UNION {owned[c] : c \in Cpus} <=> f \in Memory(m)
  <2> HIDE DEF B, r
  <2>1. ASSUME f \in Unset(bitmap) PROVE f \in Memory(m)
    <3>1. PICK i \in DOMAIN m : m[i].type = "usable" /\ f \in FramesOf(Cut(m)[i])
      BY <1>14, <2>1, Zenon
    <3>2. CASE i = b
      BY <1>2, <1>12, <1>13, <3>1, <3>2, Zenon DEF r
    <3>3. CASE i # b
      BY <1>8, <1>10, <1>12, <1>13, <3>1, <3>3, ZenonT(30)
    <3> QED BY <3>2, <3>3, SMTT(20)
  <2>2. ASSUME f \in UNION {owned[c] : c \in Cpus} PROVE f \in Memory(m)
    <3>1. PICK i \in DOMAIN m : m[i].type = "modules" /\ f \in FramesOf(m[i])
      BY <1>15, <2>2, Zenon
    <3> QED BY <1>2, <1>10, <1>12, <1>13, <3>1, SMTT(20)
  <2>3. ASSUME f \in Memory(m) PROVE f \in Unset(bitmap) \cup UNION {owned[c] : c \in Cpus}
    <3>1. PICK i \in DOMAIN m : m[i].type # "reserved" /\ f \in FramesOf(m[i])
      BY <1>13, <2>3, SMTT(20)
    <3>2. f \notin Run(B, S)
      BY <1>13, <2>3, SMTT(20)
    <3>3. CASE m[i].type = "modules"
      BY <1>15, <3>1, <3>3, Zenon
    <3>4. CASE m[i].type = "usable" /\ i # b
      BY <1>8, <1>14, <3>1, <3>4, Zenon
    <3>5. CASE i = b
      BY <1>2, <1>12, <1>14, <3>1, <3>2, <3>5, Zenon DEF r
    <3> QED BY <1>16, <3>1, <3>3, <3>4, <3>5, Zenon
  <2> QED BY <2>1, <2>2, <2>3, SMTT(20)
<1>18. Pool \subseteq Frames /\ Memory(m) \subseteq Frames
  <2>1. UNION {owned[c] : c \in Cpus} \subseteq Frames
    BY <1>1, SMTT(20)
  <2>2. Unset(bitmap) \subseteq Frames /\ Memory(m) \subseteq Frames
    BY SMTT(20) DEF Unset, Memory
  <2> QED BY <2>1, <2>2, SMTT(20) DEF Pool
<1> QED BY <1>1, <1>17, <1>18, SMTT(20) DEF MemoryConserved, Pool

\* From pmm_init on, what is free or in use is the memory of the map without the
\* bitmap: pmm_init gets it right for every memory map, and no call changes it.
THEOREM MemoryKept == BootSpec => []MemoryConserved
<1>1. BootInit => Init /\ MemoryConserved
  BY BootPool, Zenon DEF BootInit
<1>2. [Next /\ UNCHANGED memory]_<<vars, memory>> => [Next]_vars
  BY SMTT(20)
<1>3. /\ MemoryConserved
      /\ [Pool' = Pool]_vars
      /\ [Next /\ UNCHANGED memory]_<<vars, memory>>
      => MemoryConserved'
  BY SMTT(20) DEF MemoryConserved, Pool, Unset, vars
<1>4. BootSpec => Spec
  BY <1>1, <1>2, PTL DEF BootSpec, Spec
<1> QED BY <1>1, <1>3, <1>4, PoolStays, PTL DEF BootSpec

-----------------------------------------------------------------------------
(* The walk over the archive *)

\* The invariant is the type invariant with UnreadKept and LostOnlyByReuse: a frame is
\* given back at most once because all frames given back lie below the reader.
WalkInv == WalkTypeOK /\ UnreadKept /\ LostOnlyByReuse

\* An element of a sequence.
LEMMA ElementType ==
  ASSUME NEW S, NEW s \in Seq(S), NEW i \in 1 .. Len(s)
  PROVE  s[i] \in S
BY SMTT(20)

\* The entry at current_file is well formed.
LEMMA CurrentType ==
  ASSUME WalkTypeOK, AtEntry
  PROVE  /\ Current.sectors \in Nat
         /\ Current.parent \in Nat /\ Current.parent < Len(headers) + 1
<1>1. /\ archive \in Seq([kind : EntryKinds, sectors : Nat, parent : Nat])
      /\ \A i \in DOMAIN archive : archive[i].parent < i
  BY ArchivesAssumption, Zenon DEF WalkTypeOK
<1>2. Len(headers) + 1 \in 1 .. Len(archive)
  BY <1>1, SMTT(20) DEF WalkTypeOK, AtEntry
<1>3. Current \in [kind : EntryKinds, sectors : Nat, parent : Nat]
  <2> DEFINE S == [kind : EntryKinds, sectors : Nat, parent : Nat]
  <2>1. archive \in Seq(S)
    BY <1>1
  <2> HIDE DEF S
  <2>2. archive[Len(headers) + 1] \in S
    BY <1>2, <2>1, ElementType
  <2> QED BY <2>2 DEF Current, S
<1>4. archive[Len(headers) + 1].parent < Len(headers) + 1
  BY <1>1, <1>2
<1> QED BY <1>3, <1>4, SMTT(20) DEF Current

\* As long as no header has been overwritten every path can be followed.  That TRUE
\* everywhere solves the recursion shows that found is defined by it, since a
\* directory comes before what is in it; the first entry that is not found would
\* have to be in a directory that is not found either.
LEMMA FoundUnlessTaken ==
  ASSUME WalkTypeOK, \A j \in DOMAIN headers : FrameOf(headers[j]) \notin taken,
         NEW i \in 0 .. Len(headers)
  PROVE  Found(i)
<1> DEFINE D == 0 .. Len(headers)
           G(f) == [j \in D |-> j > 0 => FrameOf(headers[j]) \notin taken /\ f[archive[j].parent]]
           found == CHOOSE f : f = G(f)
           all == [j \in D |-> TRUE]
<1>0. Len(headers) \in Nat /\ DOMAIN headers = 1 .. Len(headers)
  BY DEF WalkTypeOK
<1>1. \A j \in D : j > 0 => archive[j].parent \in D /\ archive[j].parent < j
  <2>1. /\ archive \in Seq([kind : EntryKinds, sectors : Nat, parent : Nat])
        /\ \A j \in DOMAIN archive : archive[j].parent < j
    BY ArchivesAssumption, Zenon DEF WalkTypeOK
  <2>2. \A j \in 1 .. Len(archive) : archive[j] \in [kind : EntryKinds, sectors : Nat, parent : Nat]
    BY <2>1, ElementType, Zenon
  <2>3. \A j \in 1 .. Len(archive) : archive[j].parent \in Nat /\ archive[j].parent < j
    BY <2>1, <2>2
  <2> QED BY <1>0, <2>1, <2>3, SMTT(20) DEF WalkTypeOK
<1>2. all = G(all)
  BY <1>0, <1>1
<1>3. found = G(found)
  <2> HIDE DEF G, all
  <2> QED BY <1>2
<1>4. Found(i) = found[i]
  BY DEF Found
<1> HIDE DEF found
<1>5. \A j \in D : found[j] = (j > 0 => FrameOf(headers[j]) \notin taken /\ found[archive[j].parent])
  BY <1>3, Zenon
<1> SUFFICES ASSUME ~found[i] PROVE FALSE
  BY <1>4
<1> DEFINE S == {j \in D : ~found[j]}
<1>6. S \in SUBSET Nat /\ S # {}
  BY <1>0
<1> HIDE DEF S
<1>7. PICK m \in S : \A k \in S : m <= k
  BY <1>6, SmallestOf
<1>8. m \in D /\ ~found[m]
  BY DEF S
<1>9. m > 0 /\ ~found[archive[m].parent]
  <2>1. m > 0 => FrameOf(headers[m]) \notin taken
    BY <1>0, <1>8
  <2> HIDE DEF D
  <2> QED BY <1>5, <1>8, <2>1, Zenon
<1>10. archive[m].parent \in S
  BY <1>1, <1>8, <1>9 DEF S
<1> QED BY <1>0, <1>1, <1>7, <1>8, <1>9, <1>10

\* pmm_free gets frames between the one current_file is in and the one it moves
\* to: the rounding of position and length never adds up to a frame too many.
LEMMA FreedBounds ==
  ASSUME NEW p \in Nat, NEW n \in Nat,
         NEW f \in FrameOf(p) .. FrameOf(p) + ((1 + n) \div 8) - 1
  PROVE  f \in Nat /\ p < 8 * f + 8 /\ 8 * f + 8 <= p + 1 + n
BY DEF FrameOf

\* The walk moves on behind an entry and gives its frames back.
LEMMA AdvanceStep ==
  ASSUME WalkInv, AtEntry, Advance(Current)
  PROVE  WalkInv'
<1> DEFINE n == Current.sectors
<1>1. n \in Nat /\ pos \in Nat
  BY CurrentType DEF WalkInv, WalkTypeOK
<1>2. /\ headers' = Append(headers, pos)
      /\ free' = free \cup FreedFrames(Current)
      /\ pos' = pos + 1 + n
      /\ archive' = archive /\ taken' = taken /\ stage' = stage
  BY DEF Advance
<1>3. ASSUME NEW f \in FreedFrames(Current)
      PROVE  f \in Nat /\ pos < 8 * f + 8 /\ 8 * f + 8 <= pos'
  <2>1. f \in FrameOf(pos) .. FrameOf(pos) + ((1 + n) \div 8) - 1
    BY <1>3 DEF FreedFrames
  <2> QED BY <1>1, <1>2, <2>1, FreedBounds
<1>4. \A f \in free \cup taken : f \in Nat /\ 8 * f + 8 <= pos
  BY DEF WalkInv, WalkTypeOK, UnreadKept
<1>5. free' \cap taken' = {}
  <2>1. SUFFICES ASSUME NEW f \in free', f \in taken PROVE FALSE
    BY <1>2
  <2>2. f \notin free
    BY <2>1 DEF WalkInv, WalkTypeOK
  <2>3. f \in FreedFrames(Current)
    BY <1>2, <2>1, <2>2
  <2>4. pos < 8 * f + 8 /\ 8 * f + 8 <= pos /\ f \in Nat
    BY <1>3, <1>4, <2>1, <2>3
  <2> QED BY <1>1, <2>4
<1>6. UnreadKept'
  <2>1. SUFFICES ASSUME NEW f \in (free \cup taken)' PROVE 8 * f + 8 <= pos'
    BY DEF UnreadKept
  <2>2. CASE f \in FreedFrames(Current)
    BY <1>3, <2>2
  <2>3. CASE f \in free \cup taken
    BY <1>1, <1>2, <1>4, <2>3
  <2> QED BY <1>2, <2>1, <2>2, <2>3
<1>7. headers' \in Seq(Nat) /\ Len(headers') = Len(headers) + 1
  BY <1>1, <1>2 DEF WalkInv, WalkTypeOK
<1>8. Len(headers) + 1 <= Len(archive)
  <2>1. archive \in Seq([kind : EntryKinds, sectors : Nat, parent : Nat])
    BY ArchivesAssumption, Zenon DEF WalkInv, WalkTypeOK
  <2> QED BY <2>1 DEF WalkInv, WalkTypeOK, AtEntry
<1>9. \A f \in (free \cup taken)' : f \in Nat
  BY <1>2, <1>3, <1>4
<1>10. WalkTypeOK'
  BY <1>1, <1>2, <1>5, <1>7, <1>8, <1>9 DEF WalkInv, WalkTypeOK
<1>11. LostOnlyByReuse'
  BY <1>2 DEF AtEntry, LostOnlyByReuse
<1> QED BY <1>6, <1>10, <1>11 DEF WalkInv

\* Somebody allocates a frame that was given back.
LEMMA ReuseStep ==
  ASSUME WalkInv, Reuse
  PROVE  WalkInv'
<1>1. PICK f \in free : free' = free \ {f} /\ taken' = taken \cup {f}
  BY DEF Reuse
<1>2. UNCHANGED <<archive, headers, pos, stage>>
  BY DEF Reuse
<1> QED BY <1>1, <1>2 DEF WalkInv, WalkTypeOK, UnreadKept, LostOnlyByReuse, FrameOf

\* The assertions: vfs_create has not found the directory, or a file is not there.
LEMMA LostStep ==
  ASSUME WalkInv, CreateFails \/ Done \/ OpenInit
  PROVE  LostOnlyByReuse'
<1>1. Len(headers) \in Nat /\ DOMAIN headers = 1 .. Len(headers) /\ WalkTypeOK
  BY DEF WalkInv, WalkTypeOK
<1>2. headers' = headers /\ taken' = taken
  BY DEF CreateFails, Done, OpenInit
<1>3. CASE stage' # "assert"
  BY <1>3 DEF LostOnlyByReuse
<1>4. ASSUME NEW i \in 0 .. Len(headers), ~Found(i)
      PROVE  LostOnlyByReuse'
  BY <1>1, <1>2, <1>4, FoundUnlessTaken DEF LostOnlyByReuse
<1>5. CASE CreateFails
  <2>1. AtEntry /\ ~Found(Current.parent)
    BY <1>5 DEF CreateFails
  <2>2. Current.parent \in 0 .. Len(headers)
    BY <1>1, <2>1, CurrentType
  <2> QED BY <1>4, <2>1, <2>2
<1>6. CASE OpenInit /\ stage' = "assert"
  <2>1. PICK i \in DOMAIN headers : ~Found(i)
    BY <1>6 DEF OpenInit
  <2> QED BY <1>1, <1>4, <2>1
<1>7. CASE Done
  BY <1>7, <1>3 DEF Done
<1> QED BY <1>3, <1>5, <1>6, <1>7

\* Every step of the walk.
LEMMA WalkStep ==
  ASSUME WalkInv, [WalkNext]_walk
  PROVE  WalkInv'
<1>1. CASE Create
  BY <1>1, AdvanceStep DEF Create
<1>2. CASE Skip
  BY <1>2, AdvanceStep DEF Skip
<1>3. CASE Reuse
  BY <1>3, ReuseStep
<1>4. CASE CreateFails \/ Done \/ OpenInit
  <2>1. UNCHANGED <<archive, headers, pos, free, taken>> /\ stage' \in {"walk", "done", "assert"}
    BY <1>4 DEF CreateFails, Done, OpenInit
  <2>2. LostOnlyByReuse'
    BY <1>4, LostStep
  <2> QED BY <2>1, <2>2 DEF WalkInv, WalkTypeOK, UnreadKept
<1>5. CASE UNCHANGED walk
  BY <1>5 DEF walk, WalkInv, WalkTypeOK, UnreadKept, LostOnlyByReuse, FrameOf
<1> QED BY <1>1, <1>2, <1>3, <1>4, <1>5 DEF WalkNext

\* The walk keeps its invariant.
THEOREM WalkInvariance == WalkSpec => []WalkInv
<1>1. WalkInit => WalkInv
  BY DEF WalkInit, WalkInv, WalkTypeOK, UnreadKept, LostOnlyByReuse
<1>2. WalkInv /\ [WalkNext]_walk => WalkInv'
  BY WalkStep
<1> QED BY <1>1, <1>2, PTL DEF WalkSpec

\* initramfs_init gives back no frame that it still has to read from.
THEOREM UnreadAlwaysKept == WalkSpec => []UnreadKept
<1>1. WalkInv => UnreadKept
  BY DEF WalkInv
<1> QED BY <1>1, WalkInvariance, PTL

\* An entry that is not found has lost a header on its path to the new owner of a frame.
THEOREM LostOnlyWhenReused == WalkSpec => []LostOnlyByReuse
<1>1. WalkInv => LostOnlyByReuse
  BY DEF WalkInv
<1> QED BY <1>1, WalkInvariance, PTL

\* initramfs_init gives back no frame twice.
THEOREM NoDoubleFree == WalkSpec => FreedOnce
<1> DEFINE Once == AtEntry /\ headers' # headers =>
                     FreedFrames(Current) \cap (free \cup taken) = {}
<1>1. ASSUME WalkInv PROVE [Once]_walk
  <2>1. SUFFICES ASSUME AtEntry, NEW f \in FreedFrames(Current), f \in free \cup taken
                 PROVE  FALSE
    OBVIOUS
  <2>2. f \in FrameOf(pos) .. FrameOf(pos) + ((1 + Current.sectors) \div 8) - 1
    BY <2>1 DEF FreedFrames
  <2>3. Current.sectors \in Nat /\ pos \in Nat
    BY <1>1, <2>1, CurrentType DEF WalkInv, WalkTypeOK
  <2>4. f \in Nat /\ pos < 8 * f + 8
    BY <2>2, <2>3, FreedBounds
  <2>5. 8 * f + 8 <= pos
    BY <1>1, <2>1 DEF WalkInv, UnreadKept
  <2> QED BY <2>3, <2>4, <2>5
<1> QED BY <1>1, WalkInvariance, PTL DEF FreedOnce
=============================================================================
