------------------------------- MODULE MCPmm --------------------------------
(* Pmm for TLC, started by pmm_init from memory maps of three regions, one  *)
(* behind the other and not all from frame 0 on.  A byte has two bits, and  *)
(* the bitmap of five frames fills a part of one frame.                     *)
EXTENDS PmmInit

MCMemoryMaps ==
  {[i \in 1 .. 3 |-> [base |-> b[i] * FRAME_SIZE, length |-> (b[i + 1] - b[i]) * FRAME_SIZE,
                      type |-> t[i]]] :
     b \in {c \in [1 .. 4 -> {0, 1, 2, 3, 5, 6}] : \A i \in 1 .. 3 : c[i] < c[i + 1]},
     t \in [1 .. 3 -> {"usable", "modules", "reserved"}]}

MCSpec == BootSpec /\ \A c \in Cpus : WF_vars(Step(c))
=============================================================================
