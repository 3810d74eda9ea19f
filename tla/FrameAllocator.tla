--------------------------- MODULE FrameAllocator ---------------------------
(***************************************************************************)
(* What the physical memory manager (src/memory/pmm.c) promises to its     *)
(* callers, with no lock, no bitmap and no scan: a set of free frames and, *)
(* for every caller, the set of frames it was handed.                      *)
(***************************************************************************)
EXTENDS FrameRuns

VARIABLES free,   \* the frames whose bit is clear
          owned   \* owned[c]: frames handed to c and not yet given back

vars == <<free, owned>>

Init == /\ free \in SUBSET Frames
        /\ owned \in [Cpus -> SUBSET (Frames \ free)]
        /\ Disjoint(owned)

Alloc(c) == \E b, w \in 1 .. Limit :
              /\ IsFirstFit(free, b, w)
              /\ free' = free \ Run(b, w)
              /\ owned' = [owned EXCEPT ![c] = @ \cup Run(b, w)]

Release(c) == \E S \in SUBSET owned[c] :
                /\ free' = free \cup S
                /\ owned' = [owned EXCEPT ![c] = @ \ S]

Next == \E c \in Cpus : Alloc(c) \/ Release(c)

Spec == Init /\ [][Next]_vars
=============================================================================
