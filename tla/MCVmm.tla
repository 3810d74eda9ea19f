------------------------------- MODULE MCVmm --------------------------------
(* Vmm for TLC: tables of two entries, so 8 user pages and 8 kernel pages.   *)
(* Programs load a page, load one without data, which elf_load refuses, or   *)
(* are no executables; the stack ends where the anonymous pages begin.       *)
EXTENDS Vmm

Load(v, n, size) == [kind |-> "load", virt |-> v, pages |-> n, filesz |-> size]
Other(k) == [kind |-> k, virt |-> 0, pages |-> 1, filesz |-> 0]

MCPrograms == { <<Other("other"), Load(0, 1, 1)>>,
                <<Load(1, 1, 0)>>, <<Other("bad")>> }
=============================================================================
