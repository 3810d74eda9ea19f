------------------------------ MODULE MCKheap -------------------------------
(* Kheap for TLC, with the sizes of the real program. *)
EXTENDS Kheap, TLC

Symmetry == Permutations(Cpus)
=============================================================================
