----------------------------- MODULE FrameRuns ------------------------------
(***************************************************************************)
(* Runs of physical frames: the vocabulary shared by the specification of  *)
(* the physical memory manager (FrameAllocator), its implementation (Pmm)  *)
(* and its users.                                                          *)
(*                                                                         *)
(* A frame is named by its number, the address divided by FRAME_SIZE, so   *)
(* frame 0 is the null pointer and is never handed out.                    *)
(***************************************************************************)
EXTENDS Integers

CONSTANTS Cpus,   \* the callers: one kernel context per processor
          Limit   \* pmm.c's `limit`: frames 0 .. Limit-1 have a bit

ASSUME LimitAssumption == Limit \in Nat

Frames == 0 .. Limit - 1

\* The w frames from b on.
Run(b, w) == b .. b + w - 1

\* The run can be handed out: it avoids frame 0, ends below Limit, is free.
IsFreeRun(S, b, w) == /\ b >= 1
                      /\ b + w <= Limit
                      /\ Run(b, w) \subseteq S

\* The run is the lowest one that can be handed out.
IsFirstFit(S, b, w) == /\ IsFreeRun(S, b, w)
                       /\ \A a \in 1 .. b - 1 : ~IsFreeRun(S, a, w)

Disjoint(o) == \A c, d \in Cpus : c # d => o[c] \cap o[d] = {}
=============================================================================
