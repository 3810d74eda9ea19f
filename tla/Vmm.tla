-------------------------------- MODULE Vmm ---------------------------------
(***************************************************************************)
(* Page tables, src/memory/vmm.c: vmm_init, vmm_new_pagemap, vmm_map_page  *)
(* and vmm_map_pages with get_next_level, and their callers: elf_load      *)
(* (src/lib/elf.c), the user stack of sched_user_thread (src/proc/sched.c) *)
(* and syscall_mmap (src/sys/syscalls/syscalls.c).                         *)
(*                                                                         *)
(* A processor works for one process: it loads the program, makes the      *)
(* stack, and runs the thread that calls mmap.  Addresses count pages.  An *)
(* entry is the frame it holds, or NULL if its present bit is clear; the    *)
(* flags of all user entries are the same, since prot has no other bits.    *)
(* pmm_calloc is the step that Pmm is proved to implement.  A clean table  *)
(* has no entry; out of memory, pmm_calloc faults (MallocReturn of Pmm).    *)
(***************************************************************************)
EXTENDS FrameRuns, Sequences

CONSTANTS kernel,            \* the owner of kernel_pagemap
          ENTRIES,           \* entries of a table: 512
          KERNEL_OFFSET,     \* first page of the kernel image, and its frame
          KernelPhys,
          KernelLength,      \* pages of the kernel image
          HHDM_OFFSET,       \* first page of the direct map
          PhysEnd,           \* frames 1 .. PhysEnd-1 are mapped: 4 GB
          Programs,          \* program headers of the files that are loaded
          STACK_SIZE,        \* pages of a user stack
          thread_stack_top,
          AnonBase,          \* the first anon_base
          Lengths, Hints,    \* pages and fixed addresses that programs ask for
          NULL

Spaces == Cpus \cup {kernel}
Index  == 0 .. ENTRIES - 1
Half   == ENTRIES \div 2                 \* vmm_new_pagemap copies from here on
Pages  == [1 .. 4 -> Index]
KernelPages == {p \in Pages : p[4] >= Half}

\* What a table frame is: 4 for the top down to 1 for the one that maps pages.
DATA    == 0
PAGEMAP == 5   \* the frame of a pagemap_t

\* The four indices in a virtual address.
PageOf(v) == [k \in 1 .. 4 |->
                CASE k = 1 -> v % ENTRIES
                  [] k = 2 -> (v \div ENTRIES) % ENTRIES
                  [] k = 3 -> ((v \div ENTRIES) \div ENTRIES) % ENTRIES
                  [] k = 4 -> (((v \div ENTRIES) \div ENTRIES) \div ENTRIES) % ENTRIES]

IsUser(v) == v \in Nat /\ PageOf(v) \notin KernelPages

Headers == [kind : {"load", "other", "bad"}, virt : Nat, pages : Nat \ {0}, filesz : Nat]

\* Programs, stacks and fixed addresses lie in user space with all their pages.
ASSUME VmmAssumption ==
  /\ kernel \notin Cpus /\ NULL \notin Nat /\ NULL \notin Spaces
  /\ NULL \notin [Pages -> 0 .. Limit \cup {NULL}]
  /\ ENTRIES \in Nat \ {0}
  /\ KERNEL_OFFSET \in Nat /\ KernelPhys \in Nat /\ KernelLength \in Nat
  /\ KernelPhys + KernelLength <= Limit
  /\ HHDM_OFFSET \in Nat /\ PhysEnd \in 1 .. Limit
  /\ Programs \subseteq Seq(Headers)
  /\ \A prog \in Programs : \A i \in DOMAIN prog :
       \A j \in 0 .. prog[i].pages - 1 : IsUser(prog[i].virt + j)
  /\ STACK_SIZE \in Nat \ {0} /\ thread_stack_top \in Nat /\ AnonBase \in Nat
  /\ \A j \in 0 .. STACK_SIZE : IsUser(thread_stack_top - STACK_SIZE + j)
  /\ Lengths \subseteq Nat \ {0} /\ Hints \subseteq Nat

VARIABLES owner,      \* owner[f]: the space that frame f was allocated for
          level,      \* level[f]: what it was allocated as
          table,      \* table[f]: the entries, if f is a table
          top,        \* pagemap->top
          vmm_lock,
          pc,
          ret,        \* where the caller of vmm_map_pages goes on
          todo,       \* the pages that vmm_map_pages has yet to map
          cur, depth, \* the table that the walk is in, and its level
          headers,    \* the program headers elf_load has yet to look at
          anon_base

frames == <<owner, level>>
walk   == <<cur, depth>>
vars == <<owner, level, table, top, vmm_lock, pc, ret, todo, cur, depth, headers, anon_base>>

\* The loops of vmm_init: the image, then every frame twice.
BootMap == [i \in 1 .. KernelLength + 2 * (PhysEnd - 1) |->
              LET j == i - KernelLength - 1
                  f == 1 + (j \div 2)
              IN IF i <= KernelLength
                 THEN [virt |-> KERNEL_OFFSET + i - 1, phys |-> KernelPhys + i - 1]
                 ELSE [virt |-> IF j % 2 = 0 THEN f ELSE HHDM_OFFSET + f, phys |-> f]]

Init == /\ owner = [f \in Frames |-> NULL]
        /\ level = [f \in Frames |-> DATA]
        /\ table = [f \in Frames |-> [i \in Index |-> NULL]]
        /\ top = [s \in Spaces |-> NULL]
        /\ vmm_lock = 0
        /\ pc = [s \in Spaces |-> "new"]
        /\ ret = [s \in Spaces |-> IF s = kernel THEN "ready" ELSE "load"]
        /\ todo = [s \in Spaces |-> IF s = kernel THEN BootMap ELSE <<>>]
        /\ cur = [s \in Spaces |-> NULL]
        /\ depth = [s \in Spaces |-> 0]
        /\ headers \in [Cpus -> Programs]
        /\ anon_base = [c \in Cpus |-> AnonBase]

-----------------------------------------------------------------------------
Goto(s, from, to) == pc[s] = from /\ pc' = [pc EXCEPT ![s] = to]

Free == {f \in Frames : owner[f] = NULL}

\* pmm_calloc(n), for space s.
Calloc(s, b, n, l) ==
  /\ IsFirstFit(Free, b, n)
  /\ owner' = [f \in Frames |-> IF f \in Run(b, n) THEN s ELSE owner[f]]
  /\ level' = [f \in Frames |-> IF f \in Run(b, n) THEN l ELSE level[f]]

NoRun(n) == \A b \in Frames : ~IsFreeRun(Free, b, n)

\* vmm_new_pagemap, and vmm_init for the kernel, which comes first.
NewPagemap(s) ==
  /\ Goto(s, "new", "top")
  /\ s # kernel => pc[kernel] = "ready"
  /\ \E b \in Frames : Calloc(s, b, 1, PAGEMAP)
  /\ UNCHANGED <<table, top, vmm_lock, ret, todo, walk, headers, anon_base>>

\* Fault: the copy leaves out the first entry of the kernel's half.
NewTopSkipsEntry(s) ==
  \E b \in Frames :
    /\ Goto(s, "top", "map")
    /\ Calloc(s, b, 1, 4)
    /\ top' = [top EXCEPT ![s] = b]
    /\ table' = [table EXCEPT ![b] = [i \in Index |->
                   IF s # kernel /\ i > Half THEN table[top[kernel]][i] ELSE NULL]]
    /\ UNCHANGED <<vmm_lock, ret, todo, walk, headers, anon_base>>

\* The top table.  The upper half is copied without the lock: nobody changes the
\* kernel's top table any more.
NewTop(s) ==
  \E b \in Frames :
    /\ Goto(s, "top", "map")
    /\ Calloc(s, b, 1, 4)
    /\ top' = [top EXCEPT ![s] = b]
    /\ table' = [table EXCEPT ![b] = [i \in Index |->
                   IF s # kernel /\ i >= Half THEN table[top[kernel]][i] ELSE NULL]]
    /\ UNCHANGED <<vmm_lock, ret, todo, walk, headers, anon_base>>

-----------------------------------------------------------------------------
(* vmm_map_pages, one vmm_map_page after the other *)

virt(s) == Head(todo[s]).virt
phys(s) == Head(todo[s]).phys

MapLock(s) == /\ pc[s] = "map" /\ todo[s] # <<>>
              /\ vmm_lock = 0 /\ vmm_lock' = 1
              /\ pc' = [pc EXCEPT ![s] = "walk"]
              /\ cur' = [cur EXCEPT ![s] = top[s]]
              /\ depth' = [depth EXCEPT ![s] = 4]
              /\ UNCHANGED <<frames, table, top, ret, todo, headers, anon_base>>

Entry(s) == table[cur[s]][PageOf(virt(s))[depth[s]]]

Descend(s, f) == /\ cur' = [cur EXCEPT ![s] = f]
                 /\ depth' = [depth EXCEPT ![s] = @ - 1]
                 /\ UNCHANGED <<top, vmm_lock, pc, ret, todo, headers, anon_base>>

\* get_next_level finds the next table.
NextLevel(s) == /\ pc[s] = "walk" /\ depth[s] > 1
                /\ Entry(s) # NULL
                /\ Descend(s, Entry(s))
                /\ UNCHANGED <<frames, table>>

\* It makes one.
NewLevel(s) ==
  /\ pc[s] = "walk" /\ depth[s] > 1
  /\ Entry(s) = NULL
  /\ \E b \in Frames :
       /\ Calloc(s, b, 1, depth[s] - 1)
       /\ table' = [table EXCEPT ![cur[s]][PageOf(virt(s))[depth[s]]] = b,
                                 ![b] = [i \in Index |-> NULL]]
       /\ Descend(s, b)

\* Fault: the lowest table is indexed with the bits of the level above.
SetEntryWrongIndex(s) ==
  /\ pc[s] = "walk" /\ depth[s] = 1
  /\ table' = [table EXCEPT ![cur[s]][PageOf(virt(s))[2]] = phys(s)]
  /\ vmm_lock' = 0
  /\ pc' = [pc EXCEPT ![s] = "map"]
  /\ todo' = [todo EXCEPT ![s] = Tail(@)]
  /\ UNCHANGED <<frames, top, ret, walk, headers, anon_base>>

\* Fault: the lock is kept.
SetEntryKeepsLock(s) ==
  /\ pc[s] = "walk" /\ depth[s] = 1
  /\ table' = [table EXCEPT ![cur[s]][PageOf(virt(s))[1]] = phys(s)]
  /\ pc' = [pc EXCEPT ![s] = "map"]
  /\ todo' = [todo EXCEPT ![s] = Tail(@)]
  /\ UNCHANGED <<frames, top, vmm_lock, ret, walk, headers, anon_base>>

SetEntry(s) ==
  /\ pc[s] = "walk" /\ depth[s] = 1
  /\ table' = [table EXCEPT ![cur[s]][PageOf(virt(s))[1]] = phys(s)]
  /\ vmm_lock' = 0
  /\ pc' = [pc EXCEPT ![s] = "map"]
  /\ todo' = [todo EXCEPT ![s] = Tail(@)]
  /\ UNCHANGED <<frames, top, ret, walk, headers, anon_base>>

MapDone(s) == /\ todo[s] = <<>> /\ Goto(s, "map", ret[s])
              /\ UNCHANGED <<frames, table, top, vmm_lock, ret, todo, walk, headers, anon_base>>

-----------------------------------------------------------------------------
(* The callers.  n frames from b on are to be mapped from page v on. *)

MapPages(c, v, b, n, then) ==
  /\ todo' = [todo EXCEPT ![c] = [i \in 1 .. n |-> [virt |-> v + i - 1, phys |-> b + i - 1]]]
  /\ ret' = [ret EXCEPT ![c] = then]
  /\ pc' = [pc EXCEPT ![c] = "map"]
  /\ UNCHANGED <<table, top, vmm_lock, walk>>

More(c) == pc[c] = "load" /\ headers[c] # <<>>
Header(c) == Head(headers[c])

\* elf_load, PT_LOAD: what is mapped there already is replaced.
LoadSegment(c) ==
  /\ More(c) /\ Header(c).kind = "load"
  /\ \E b \in Frames :
       /\ Calloc(c, b, Header(c).pages, DATA)
       /\ MapPages(c, Header(c).virt, b, Header(c).pages, "read")
  /\ UNCHANGED <<headers, anon_base>>

\* The data is read into the frames; assert() wants at least one byte.
ReadSegment(c) ==
  /\ Goto(c, "read", IF Header(c).filesz > 0 THEN "load" ELSE "halted")
  /\ headers' = [headers EXCEPT ![c] = Tail(@)]
  /\ UNCHANGED <<frames, table, top, vmm_lock, ret, todo, walk, anon_base>>

\* Other headers map nothing.  If elf_load refuses a file, kernel_thread stops.
OtherHeader(c) ==
  /\ More(c) /\ Header(c).kind # "load"
  /\ pc' = [pc EXCEPT ![c] = IF Header(c).kind = "bad" THEN "halted" ELSE "load"]
  /\ headers' = [headers EXCEPT ![c] = Tail(@)]
  /\ UNCHANGED <<frames, table, top, vmm_lock, ret, todo, walk, anon_base>>

\* Fault: two pages more than the stack has.
UserStackTwoMore(c) ==
  /\ pc[c] = "load" /\ headers[c] = <<>>
  /\ \E b \in Frames :
       /\ Calloc(c, b, STACK_SIZE, DATA)
       /\ MapPages(c, thread_stack_top - STACK_SIZE, b, STACK_SIZE + 2, "run")
  /\ UNCHANGED <<headers, anon_base>>

\* sched_user_thread maps one page more than the stack has, above its top.
UserStack(c) ==
  /\ pc[c] = "load" /\ headers[c] = <<>>
  /\ \E b \in Frames :
       /\ Calloc(c, b, STACK_SIZE, DATA)
       /\ MapPages(c, thread_stack_top - STACK_SIZE, b, STACK_SIZE + 1, "run")
  /\ UNCHANGED <<headers, anon_base>>

\* Bound: anonymous mappings end where user space ends; memory ends before that.
FitsInSpace(v, n) == \A j \in 0 .. n - 1 : IsUser(v + j)

\* syscall_mmap with MAP_ANON, at anon_base or (MAP_FIXED) at the hint.  Calls
\* that it refuses, and calls for no pages, change nothing.
Mmap(c) ==
  /\ pc[c] = "run"
  /\ \E n \in Lengths, fixed \in BOOLEAN :
     \E v \in IF fixed THEN Hints \ {0} ELSE {anon_base[c]}, b \in Frames :
       /\ FitsInSpace(v, n)
       /\ anon_base' = [anon_base EXCEPT ![c] = IF fixed THEN @ ELSE @ + n]
       /\ Calloc(c, b, n, DATA)
       /\ MapPages(c, v, b, n, "run")
  /\ UNCHANGED headers

\* pmm_calloc finds no memory and faults, inside get_next_level with vmm_lock held.
OutOfMemory(s) ==
  /\ \/ pc[s] = "top" /\ NoRun(1)
     \/ pc[s] = "new" /\ NoRun(1) /\ (s # kernel => pc[kernel] = "ready")
     \/ pc[s] = "walk" /\ depth[s] > 1 /\ Entry(s) = NULL /\ NoRun(1)
     \/ /\ s # kernel
        /\ \/ More(s) /\ Header(s).kind = "load" /\ NoRun(Header(s).pages)
           \/ pc[s] = "load" /\ headers[s] = <<>> /\ NoRun(STACK_SIZE)
           \/ pc[s] = "run" /\ \E n \in Lengths : NoRun(n)
  /\ pc' = [pc EXCEPT ![s] = "fault"]
  /\ UNCHANGED <<frames, table, top, vmm_lock, ret, todo, walk, headers, anon_base>>

MapStep(s) == MapLock(s) \/ NextLevel(s) \/ NewLevel(s) \/ SetEntry(s) \/ MapDone(s)

Next == \/ \E s \in Spaces : NewPagemap(s) \/ NewTop(s) \/ MapStep(s) \/ OutOfMemory(s)
        \/ \E c \in Cpus : \/ LoadSegment(c) \/ ReadSegment(c) \/ OtherHeader(c)
                           \/ UserStack(c) \/ Mmap(c)

Spec == Init /\ [][Next]_vars

\* A processor that is inside vmm_map_pages keeps executing it.
FairSpec == Spec /\ \A s \in Spaces : WF_vars(MapStep(s) \/ (pc[s] = "walk" /\ OutOfMemory(s)))

-----------------------------------------------------------------------------
TypeOK == /\ owner \in [Frames -> Spaces \cup {NULL}]
          /\ level \in [Frames -> 0 .. 5]
          /\ table \in [Frames -> [Index -> 0 .. Limit \cup {NULL}]]
          /\ top \in [Spaces -> Frames \cup {NULL}]
          /\ vmm_lock \in {0, 1}
          /\ pc \in [Spaces -> {"new", "top", "map", "walk", "ready", "load", "read",
                                "run", "halted", "fault"}]
          /\ ret \in [Spaces -> {"ready", "load", "read", "run"}]
          /\ todo \in [Spaces -> Seq([virt : Nat, phys : 0 .. Limit])]
          /\ cur \in [Spaces -> Frames \cup {NULL}]
          /\ depth \in [Spaces -> 0 .. 4]
          /\ headers \in [Cpus -> Seq(Headers)]
          /\ anon_base \in [Cpus -> Nat]

\* What the processor finds for page p in space s.
At(f, i) == IF f = NULL THEN NULL ELSE table[f][i]
Pml3(s, p) == At(top[s], p[4])
Pml2(s, p) == At(Pml3(s, p), p[3])
Pml1(s, p) == At(Pml2(s, p), p[2])
Translate(s, p) == At(Pml1(s, p), p[1])

map == [s \in Spaces |-> IF top[s] = NULL THEN NULL ELSE [p \in Pages |-> Translate(s, p)]]

\* vmm_map_page maps exactly the page it is asked to map, whatever tables it has
\* to make on the way and whoever else is mapping; a new address space has the
\* kernel's half and nothing else, and the kernel's half is the same in all.
AS == INSTANCE AddressSpaces WITH Targets <- 0 .. Limit
ImplementsAddressSpaces == AS!Spec

\* What a process has mapped in its half was allocated for it, as memory and not
\* as a page table, with one exception: the page above the stack, which
\* sched_user_thread maps to the frame behind the stack's.
FramesOwned ==
  \A c \in Cpus, p \in Pages \ KernelPages :
    LET f == Translate(c, p)
    IN f # NULL /\ p # PageOf(thread_stack_top) => f \in Frames /\ owner[f] = c /\ level[f] = DATA

\* vmm_lock is released by whoever takes it, unless memory runs out: then the
\* fault in get_next_level leaves it taken.
LockReleasedOrFault == (vmm_lock = 1) ~> (vmm_lock = 0 \/ \E s \in Spaces : pc[s] = "fault")
=============================================================================
