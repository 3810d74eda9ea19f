--------------------------- MODULE AddressSpaces ----------------------------
(***************************************************************************)
(* What the page tables of src/memory/vmm.c promise: every address space is *)
(* a map from pages to frames, a call maps one page of one space, and the  *)
(* kernel's half of all spaces is the one that the kernel made at boot.    *)
(***************************************************************************)
CONSTANTS Spaces,       \* one for each process, and the kernel's own
          kernel,
          Pages,
          KernelPages,  \* the upper half
          Targets,      \* what a page can be mapped to
          NULL

VARIABLE map   \* map[s]: a frame or NULL for every page; NULL before s exists

Init == map = [s \in Spaces |-> NULL]

Empty == [p \in Pages |-> NULL]

New(s) == /\ map[s] = NULL
          /\ s # kernel => map[kernel] # NULL
          /\ map' = [map EXCEPT ![s] =
                       IF s = kernel THEN Empty
                       ELSE [p \in Pages |-> IF p \in KernelPages THEN map[kernel][p] ELSE NULL]]

\* The kernel maps its pages before there is any other space.
Map(s) == /\ map[s] # NULL
          /\ s = kernel => \A t \in Spaces \ {kernel} : map[t] = NULL
          /\ \E p \in IF s = kernel THEN Pages ELSE Pages \ KernelPages :
               LET f == map'[s][p]
               IN f \in Targets /\ map' = [map EXCEPT ![s] = [@ EXCEPT ![p] = f]]

Next == \E s \in Spaces : New(s) \/ Map(s)

Spec == Init /\ [][Next]_map
=============================================================================
