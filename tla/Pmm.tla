-------------------------------- MODULE Pmm ---------------------------------
(***************************************************************************)
(* The physical memory manager, src/memory/pmm.c: pmm_malloc, pmm_calloc,  *)
(* pmm_alloc and pmm_free called concurrently by several processors.       *)
(*                                                                         *)
(* The scan of pmm_malloc is modelled one loop iteration at a time, because *)
(* its loop invariant is what makes the allocator correct.  The bit loops  *)
(* that mark or clear a whole run, and the release of the lock after them, *)
(* are one step: bitmap is only touched under pmm_lock.                    *)
(***************************************************************************)
EXTENDS FrameRuns

CONSTANTS FRAME_SIZE,  \* bytes per frame
          Wants,       \* frame counts that callers pass to pmm_malloc/calloc
          Sizes        \* byte counts that callers pass to pmm_alloc

ASSUME SizesAssumption == /\ FRAME_SIZE \in Nat \ {0}
                          /\ Wants \subseteq Nat
                          /\ Sizes \subseteq Nat \ {0}

VARIABLES bitmap,    \* 1 for a frame in use, 0 for a free one
          owned,     \* owned[c]: frames handed to c and not yet given back
          pmm_lock,  \* the spinlock word
          pc,        \* where each caller is
          kind,      \* which entry point the caller used
          want,      \* wanted_frames, and frames in pmm_free
          frame,     \* the loop variable of the scan
          avail,     \* available_frames
          ptr        \* the frame returned by pmm_malloc or passed to pmm_free

vars == <<bitmap, pmm_lock, owned, pc, kind, want, frame, avail, ptr>>

NULL == 0
Kinds == {"malloc", "calloc", "alloc"}

\* The frames a bitmap calls free.
Unset(m) == {f \in Frames : m[f] = 0}

\* pmm_alloc rounds its byte count up to whole frames.
FramesFor(size) == (size + (FRAME_SIZE - 1)) \div FRAME_SIZE

Init == /\ bitmap \in [Frames -> {0, 1}]
         /\ owned \in [Cpus -> SUBSET (Frames \ Unset(bitmap))]
         /\ Disjoint(owned)
         /\ pmm_lock = 0
         /\ pc = [c \in Cpus |-> "ready"]
         /\ kind = [c \in Cpus |-> "malloc"]
         /\ want = [c \in Cpus |-> 0]
         /\ frame = [c \in Cpus |-> 0]
         /\ avail = [c \in Cpus |-> 0]
         /\ ptr = [c \in Cpus |-> NULL]

-----------------------------------------------------------------------------
Goto(c, from, to) == pc[c] = from /\ pc' = [pc EXCEPT ![c] = to]

\* Fault: the lock is taken by a store instead of a compare-and-swap.
AcquireByStore(c, from, to) == Goto(c, from, to) /\ pmm_lock' = 1

\* spinlock_acquire: the CAS that succeeds.  A failing one changes nothing.
Acquire(c, from, to) == /\ Goto(c, from, to)
                        /\ pmm_lock = 0
                        /\ pmm_lock' = 1

\* The arguments and the result of a call are gone when it has returned.
Forget(c) == /\ kind' = [kind EXCEPT ![c] = "malloc"]
             /\ want' = [want EXCEPT ![c] = 0]
             /\ ptr' = [ptr EXCEPT ![c] = NULL]

\* So are the variables of the scan.
ForgetScan(c) == /\ frame' = [frame EXCEPT ![c] = 0]
                 /\ avail' = [avail EXCEPT ![c] = 0]

\* A caller enters pmm_malloc, directly or through pmm_calloc or pmm_alloc.
Malloc(c) ==
  /\ Goto(c, "ready", "malloc_lock")
  /\ \/ \E k \in {"malloc", "calloc"}, w \in Wants :
          /\ kind' = [kind EXCEPT ![c] = k]
          /\ want' = [want EXCEPT ![c] = w]
     \/ \E s \in Sizes :
          /\ kind' = [kind EXCEPT ![c] = "alloc"]
          /\ want' = [want EXCEPT ![c] = FramesFor(s)]
  /\ UNCHANGED <<bitmap, pmm_lock, owned, frame, avail, ptr>>

StartScan(c) == /\ Acquire(c, "malloc_lock", "scan")
                /\ frame' = [frame EXCEPT ![c] = 1]
                /\ avail' = [avail EXCEPT ![c] = 0]
                /\ UNCHANGED <<bitmap, owned, kind, want, ptr>>

\* available_frames after the increment at the top of the loop body
Counted(c) == IF bitmap[frame[c]] = 0 THEN avail[c] + 1 ELSE avail[c]

\* Fault: available_frames is not reset behind a frame in use.
ScanResetKeepsCount(c) ==
  /\ pc[c] = "scan" /\ frame[c] < Limit
  /\ bitmap[frame[c]] = 1 /\ avail[c] # want[c]
  /\ frame' = [frame EXCEPT ![c] = @ + 1]
  /\ UNCHANGED <<bitmap, pmm_lock, owned, pc, kind, want, avail, ptr>>

\* A frame in use breaks the run: start counting again behind it.
ScanReset(c) == /\ pc[c] = "scan"
                /\ frame[c] < Limit
                /\ bitmap[frame[c]] = 1
                /\ avail[c] # want[c]
                /\ avail' = [avail EXCEPT ![c] = 0]
                /\ frame' = [frame EXCEPT ![c] = @ + 1]
                /\ UNCHANGED <<bitmap, pmm_lock, owned, pc, kind, want, ptr>>

\* A free frame makes the run longer, but not yet long enough.
ScanCount(c) == /\ pc[c] = "scan"
                /\ frame[c] < Limit
                /\ bitmap[frame[c]] = 0
                /\ Counted(c) # want[c]
                /\ avail' = [avail EXCEPT ![c] = Counted(c)]
                /\ frame' = [frame EXCEPT ![c] = @ + 1]
                /\ UNCHANGED <<bitmap, pmm_lock, owned, pc, kind, want, ptr>>

\* The run is long enough: mark it, step back to its first frame, unlock.
ScanTake(c) ==
  LET first == frame[c] - want[c] + 1
      run   == Run(first, want[c])
  IN /\ Goto(c, "scan", "returned")
     /\ frame[c] < Limit
     /\ Counted(c) = want[c]
     /\ bitmap' = [f \in Frames |-> IF f \in run THEN 1 ELSE bitmap[f]]
     /\ ptr' = [ptr EXCEPT ![c] = first]
     /\ owned' = [owned EXCEPT ![c] = @ \cup run]
     /\ pmm_lock' = 0
     /\ ForgetScan(c)
     /\ UNCHANGED <<kind, want>>

\* Faults: the result of a failed scan and its loop bound.
ScanFailResult(c, result, bound) ==
  /\ Goto(c, "scan", "returned")
  /\ frame[c] >= bound
  /\ ptr' = [ptr EXCEPT ![c] = result]
  /\ pmm_lock' = 0
  /\ ForgetScan(c)
  /\ UNCHANGED <<bitmap, owned, kind, want>>
ScanFailMinusOne(c) == ScanFailResult(c, -1, Limit)
ScanFailTooEarly(c) == ScanFailResult(c, NULL, Limit - 1)

\* The loop ran off the end: unlock and return NULL.
ScanFail(c) == /\ Goto(c, "scan", "returned")
               /\ frame[c] >= Limit
               /\ ptr' = [ptr EXCEPT ![c] = NULL]
               /\ pmm_lock' = 0
               /\ ForgetScan(c)
               /\ UNCHANGED <<bitmap, owned, kind, want>>

\* pmm_calloc and pmm_alloc clear the frames through the direct map without
\* looking at the pointer first.  For NULL that writes to the page at
\* HHDM_OFFSET, which vmm_init leaves unmapped: the processor stops in
\* exception_handler.  pmm_malloc returns the pointer as it is.
MallocReturn(c) ==
  /\ pc[c] = "returned"
  /\ pc' = [pc EXCEPT ![c] =
              IF kind[c] # "malloc" /\ ptr[c] = NULL /\ want[c] > 0
              THEN "fault" ELSE "ready"]
  /\ Forget(c)
  /\ UNCHANGED <<bitmap, pmm_lock, owned, frame, avail>>

\* A caller gives back a run of frames that it holds (possibly an empty one:
\* initramfs_init frees zero frames for a small file).
Free(c) ==
  /\ Goto(c, "ready", "free_lock")
  /\ \E b \in Frames, w \in 0 .. Limit :
       /\ Run(b, w) \subseteq owned[c]
       /\ ptr' = [ptr EXCEPT ![c] = b]
       /\ want' = [want EXCEPT ![c] = w]
  /\ UNCHANGED <<bitmap, pmm_lock, owned, kind, frame, avail>>

StartClear(c) == /\ Acquire(c, "free_lock", "clear")
                 /\ UNCHANGED <<bitmap, owned, kind, want, frame, avail, ptr>>

\* Fault: pmm_free returns without unlocking.
ClearKeepsLock(c) ==
  LET run == Run(ptr[c], want[c])
  IN /\ Goto(c, "clear", "ready")
     /\ bitmap' = [f \in Frames |-> IF f \in run THEN 0 ELSE bitmap[f]]
     /\ owned' = [owned EXCEPT ![c] = @ \ run]
     /\ Forget(c)
     /\ UNCHANGED <<pmm_lock, frame, avail>>

Clear(c) ==
  LET run == Run(ptr[c], want[c])
  IN /\ Goto(c, "clear", "ready")
     /\ bitmap' = [f \in Frames |-> IF f \in run THEN 0 ELSE bitmap[f]]
     /\ owned' = [owned EXCEPT ![c] = @ \ run]
     /\ pmm_lock' = 0
     /\ Forget(c)
     /\ UNCHANGED <<frame, avail>>

Step(c) == \/ StartScan(c) \/ ScanReset(c) \/ ScanCount(c) \/ ScanTake(c)
           \/ ScanFail(c) \/ MallocReturn(c) \/ StartClear(c) \/ Clear(c)

Next == \E c \in Cpus : Malloc(c) \/ Free(c) \/ Step(c)

Spec == Init /\ [][Next]_vars

\* A processor that is inside a call keeps executing it.
FairSpec == Spec /\ \A c \in Cpus : WF_vars(Step(c))
-----------------------------------------------------------------------------
TypeOK == /\ bitmap \in [Frames -> {0, 1}]
          /\ owned \in [Cpus -> SUBSET Frames]
          /\ pmm_lock \in {0, 1}
          /\ pc \in [Cpus -> {"ready", "malloc_lock", "scan", "returned",
                              "fault", "free_lock", "clear"}]
          /\ kind \in [Cpus -> Kinds]
          /\ want \in [Cpus -> Nat]
          /\ frame \in [Cpus -> Nat]
          /\ avail \in [Cpus -> Nat]
          /\ ptr \in [Cpus -> Nat]

\* No frame is in the hands of two callers, and none that a caller holds is
\* offered again: pmm_malloc marks what it returns and pmm_free only clears
\* what it was given, however the calls of the processors interleave.
Exclusive == /\ Disjoint(owned)
             /\ \A c \in Cpus : owned[c] \cap Unset(bitmap) = {}

\* pmm_malloc answers NULL only when no run of the size asked for is free: the
\* scan with its reset of available_frames overlooks none.
NullOnlyWhenFull ==
  [][\A c \in Cpus :
       /\ pc[c] = "scan" /\ pc'[c] = "returned"
       /\ want[c] > 0 /\ ptr'[c] = NULL
       => \A b \in Frames : ~IsFreeRun(Unset(bitmap), b, want[c])]_vars

\* The frames that are free or in somebody's hands.
Pool == Unset(bitmap) \cup UNION {owned[c] : c \in Cpus}

\* Every successful call takes the lowest run that fits and every pmm_free
\* returns frames of its caller, as one indivisible step each.
FA == INSTANCE FrameAllocator WITH free <- Unset(bitmap)
ImplementsFrameAllocator == FA!Spec

\* The allocator's lock is released again by whoever takes it: no path through
\* pmm_malloc or pmm_free keeps it.
LockIsReleased == (pmm_lock = 1) ~> (pmm_lock = 0)
=============================================================================
