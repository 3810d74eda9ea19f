----------------------------- MODULE VmmTables ------------------------------
(***************************************************************************)
(* The first half of the proofs about Vmm, for any number of processes,    *)
(* frames and entries.  The inductive invariant IInv says that the tables  *)
(* form trees: an entry points one level down to a table of the same owner, *)
(* no table has two entries that point to it, except those of the kernel's *)
(* half, and a walk is where the indices lead.  Here is what each step does *)
(* to the tables, and that the types, the trees and the kernel's half are  *)
(* kept; VmmProofs goes on to the walks and to whose frames are mapped.    *)
(***************************************************************************)
EXTENDS Vmm, TLAPS


\* Each space has one top table, and free frames are not tables.
TopInv ==
  /\ \A s \in Spaces : top[s] # NULL =>
       top[s] \in Frames /\ owner[top[s]] = s /\ level[top[s]] = 4
  /\ \A f \in Frames : level[f] = 4 => owner[f] \in Spaces /\ top[owner[f]] = f
  /\ \A f \in Frames : owner[f] = NULL => level[f] = DATA

\* An entry above the lowest level leads to a table one level down; entries of
\* the kernel's half lead to tables of the kernel, others to the space's own.
LevelInv ==
  \A f \in Frames, i \in Index :
    level[f] \in 2 .. 4 /\ table[f][i] # NULL =>
      /\ table[f][i] \in Frames
      /\ level[table[f][i]] = level[f] - 1
      /\ owner[table[f][i]] = IF level[f] = 4 /\ i >= Half THEN kernel ELSE owner[f]

\* Two entries with the same table are the same entry, or the copies of one of
\* the kernel's.
UniqueAt(f, g, i, j) ==
  level[f] \in 2 .. 4 /\ level[g] \in 2 .. 4 /\ table[f][i] = table[g][j] /\ table[f][i] # NULL =>
    i = j /\ (f = g \/ (level[f] = 4 /\ level[g] = 4 /\ i >= Half))
UniqueInv == \A f, g \in Frames, i, j \in Index : UniqueAt(f, g, i, j)

\* The kernel has finished when others begin, and they have its half.
KernelInv ==
  /\ ret[kernel] = "ready" /\ pc[kernel] \notin {"load", "read", "run"}
  /\ pc[kernel] = "ready" => top[kernel] # NULL
  /\ \A c \in Cpus : pc[c] # "new" => pc[kernel] = "ready"
  /\ \A c \in Cpus : top[c] # NULL =>
       /\ pc[c] # "new"
       /\ \A i \in Index : i >= Half => table[top[c]][i] = table[top[kernel]][i]

\* The table of level k on the way to page p.
OnWay(s, p, k) == CASE k = 4 -> top[s]
                    [] k = 3 -> Pml3(s, p)
                    [] k = 2 -> Pml2(s, p)
                    [] k = 1 -> Pml1(s, p)

\* A walk is in the table that the indices lead to, a table of the space itself.
Walking(t) == /\ todo[t] # <<>> /\ depth[t] \in 1 .. 4
              /\ cur[t] \in Frames /\ cur[t] = OnWay(t, PageOf(virt(t)), depth[t])
              /\ level[cur[t]] = depth[t] /\ owner[cur[t]] = t

\* There is a top table once it is made, and a header while its segment is loaded.
WalkInvOf(t) ==
  /\ pc[t] \in {"new", "top"} => top[t] = NULL
  /\ pc[t] \notin {"new", "top", "fault"} => top[t] # NULL
  /\ pc[t] = "walk" => Walking(t)
  /\ t \in Cpus /\ pc[t] = "read" => headers[t] # <<>>
  /\ t \in Cpus /\ pc[t] \in {"new", "top", "map", "walk"} /\ ret[t] = "read" => headers[t] # <<>>

WalkInv == \A t \in Spaces : WalkInvOf(t)

\* Processes only map user pages.
UserInv ==
  /\ \A c \in Cpus, i \in Nat : i \in DOMAIN todo[c] => IsUser(todo[c][i].virt)
  /\ \A c \in Cpus, i \in Nat : i \in DOMAIN headers[c] =>
       \A j \in 0 .. headers[c][i].pages - 1 : IsUser(headers[c][i].virt + j)

\* Frame f is memory of process c.
Memory(c, f) == f \in Frames /\ owner[f] = c /\ level[f] = DATA

\* The entry above the stack.
IsAboveStack(c, f, i) == /\ f = Pml1(c, PageOf(thread_stack_top))
                         /\ i = PageOf(thread_stack_top)[1]

\* What a process has mapped or is about to map is its memory, except there.
OwnedInv ==
  /\ \A c \in Cpus, f \in Frames, i \in Index :
       level[f] = 1 /\ owner[f] = c /\ table[f][i] # NULL =>
         Memory(c, table[f][i]) \/ IsAboveStack(c, f, i)
  /\ \A c \in Cpus, i \in Nat : i \in DOMAIN todo[c] =>
       Memory(c, todo[c][i].phys) \/ todo[c][i].virt = thread_stack_top

\* The inductive invariant of Vmm.
IInv == TypeOK /\ TopInv /\ LevelInv /\ UniqueInv /\ KernelInv /\ WalkInv /\ UserInv /\ OwnedInv
-----------------------------------------------------------------------------
\* The indices of an address are indices of tables.
LEMMA PageType == \A v \in Nat : PageOf(v) \in Pages
<1> SUFFICES ASSUME NEW v \in Nat PROVE PageOf(v) \in Pages
  OBVIOUS
<1>0. ENTRIES \in Nat /\ ENTRIES > 0
  BY VmmAssumption
<1>1. v \div ENTRIES \in Nat
  BY <1>0
<1>2. (v \div ENTRIES) \div ENTRIES \in Nat
  BY <1>0, <1>1
<1>3. ((v \div ENTRIES) \div ENTRIES) \div ENTRIES \in Nat
  BY <1>0, <1>2
<1>4. \A x \in Nat : x % ENTRIES \in Index
  BY <1>0 DEF Index
<1> QED BY <1>1, <1>2, <1>3, <1>4 DEF PageOf, Pages

\* A function on 1 .. n is a sequence.
LEMMA SeqIntro == ASSUME NEW R, NEW n \in Nat, NEW q \in [1 .. n -> R] PROVE q \in Seq(R)
OBVIOUS

\* The pages of vmm_init have their types.
LEMMA BootMapType == BootMap \in Seq([virt : Nat, phys : 0 .. Limit])
<1> DEFINE n == KernelLength + 2 * (PhysEnd - 1)
<1>1. n \in Nat /\ KernelLength \in Nat /\ PhysEnd \in Nat /\ Limit \in Nat
  BY VmmAssumption, LimitAssumption
<1>2. ASSUME NEW i \in 1 .. n PROVE BootMap[i] \in [virt : Nat, phys : 0 .. Limit]
  <2> DEFINE j == i - KernelLength - 1
             f == 1 + (j \div 2)
  <2>1. CASE i <= KernelLength
    <3>1. BootMap[i] = [virt |-> KERNEL_OFFSET + i - 1, phys |-> KernelPhys + i - 1]
      BY <2>1 DEF BootMap
    <3> QED BY <3>1, <2>1, <1>1, VmmAssumption
  <2>2. CASE i > KernelLength
    <3>1. j \in Nat /\ j < 2 * (PhysEnd - 1)
      BY <2>2, <1>1
    <3>2. f \in Nat /\ f <= PhysEnd - 1
      BY <3>1, <1>1
    <3>3. BootMap[i] = [virt |-> IF j % 2 = 0 THEN f ELSE HHDM_OFFSET + f, phys |-> f]
      BY <2>2, <1>1 DEF BootMap
    <3> HIDE DEF f, j
    <3> QED BY <3>2, <3>3, <1>1, VmmAssumption
  <2> QED BY <2>1, <2>2, <1>1
<1>3. DOMAIN BootMap = 1 .. n /\ BootMap = [i \in DOMAIN BootMap |-> BootMap[i]]
  BY DEF BootMap
<1> HIDE DEF n
<1>4. BootMap \in [1 .. n -> [virt : Nat, phys : 0 .. Limit]]
  BY <1>2, <1>3
<1> QED BY <1>1, <1>4, SeqIntro, Zenon

\* What pmm_calloc hands out was free and belongs to the caller; nothing else
\* changes.
LEMMA CallocFacts ==
  ASSUME TypeOK, TopInv, NEW s \in Spaces, NEW b \in Frames, NEW n \in Nat, NEW l \in 0 .. 5,
         Calloc(s, b, n, l)
  PROVE  /\ owner' \in [Frames -> Spaces \cup {NULL}] /\ level' \in [Frames -> 0 .. 5]
         /\ Run(b, n) \subseteq Frames
         /\ \A f \in Run(b, n) : /\ owner[f] = NULL /\ level[f] = DATA
                                 /\ owner'[f] = s /\ level'[f] = l
         /\ \A f \in Frames : f \notin Run(b, n) => owner'[f] = owner[f] /\ level'[f] = level[f]
<1>1. Run(b, n) \subseteq Free
  BY DEF Calloc, IsFirstFit, IsFreeRun
<1>2. Run(b, n) \subseteq Frames /\ \A f \in Run(b, n) : owner[f] = NULL /\ level[f] = DATA
  BY <1>1 DEF Free, TopInv
<1> QED BY <1>2 DEF Calloc, TypeOK

\* One frame is the run of length 1.
LEMMA RunOne == \A b \in Frames : Run(b, 1) = {b}
BY LimitAssumption DEF Run, Frames

\* What MapPages leaves to be mapped.
LEMMA MapPagesTodo ==
  ASSUME TypeOK, NEW c \in Cpus, NEW v \in Nat, NEW b \in Nat, NEW n \in Nat, NEW then,
         b + n - 1 <= Limit, MapPages(c, v, b, n, then)
  PROVE  /\ todo' \in [Spaces -> Seq([virt : Nat, phys : 0 .. Limit])]
         /\ todo'[c] = [i \in 1 .. n |-> [virt |-> v + i - 1, phys |-> b + i - 1]]
         /\ \A s \in Spaces : s # c => todo'[s] = todo[s]
<1> DEFINE q == [i \in 1 .. n |-> [virt |-> v + i - 1, phys |-> b + i - 1]]
<1>1. \A i \in 1 .. n : v + i - 1 \in Nat /\ b + i - 1 \in 0 .. Limit
  BY LimitAssumption
<1>2. q \in Seq([virt : Nat, phys : 0 .. Limit])
  BY <1>1
<1>3. c \in Spaces /\ todo' = [todo EXCEPT ![c] = q]
  BY DEF MapPages, Spaces
<1> HIDE DEF q
<1>4. todo' \in [Spaces -> Seq([virt : Nat, phys : 0 .. Limit])] /\ todo'[c] = q
      /\ \A s \in Spaces : s # c => todo'[s] = todo[s]
  BY <1>2, <1>3, Zenon DEF TypeOK
<1> QED BY <1>4, Zenon DEF q
-----------------------------------------------------------------------------
\* The first page to map, and the rest, have their types.
LEMMA HeadTail ==
  ASSUME TypeOK, NEW s \in Spaces, todo[s] # <<>>
  PROVE  /\ virt(s) \in Nat /\ phys(s) \in 0 .. Limit
         /\ 1 \in DOMAIN todo[s] /\ virt(s) = todo[s][1].virt /\ phys(s) = todo[s][1].phys
         /\ Tail(todo[s]) \in Seq([virt : Nat, phys : 0 .. Limit])
         /\ \A i \in Nat : i \in DOMAIN Tail(todo[s]) =>
              /\ i + 1 \in DOMAIN todo[s]
              /\ Tail(todo[s])[i] = todo[s][i + 1]
<1> DEFINE R == [virt : Nat, phys : 0 .. Limit]
<1>1. todo[s] \in Seq(R)
  BY Zenon DEF TypeOK
<1> HIDE DEF R
<1>2. /\ 1 \in DOMAIN todo[s] /\ Head(todo[s]) = todo[s][1] /\ todo[s][1] \in R
      /\ Tail(todo[s]) \in Seq(R)
      /\ \A i \in Nat : i \in DOMAIN Tail(todo[s]) =>
           i + 1 \in DOMAIN todo[s] /\ Tail(todo[s])[i] = todo[s][i + 1]
  BY <1>1
<1> QED BY <1>2, Zenon DEF virt, phys, R

\* The same for program headers.
LEMMA HeaderType ==
  ASSUME TypeOK, NEW c \in Cpus, headers[c] # <<>>
  PROVE  /\ Header(c) \in Headers /\ Header(c) = headers[c][1] /\ 1 \in DOMAIN headers[c]
         /\ Tail(headers[c]) \in Seq(Headers)
         /\ \A i \in Nat : i \in DOMAIN Tail(headers[c]) =>
              /\ i + 1 \in DOMAIN headers[c]
              /\ Tail(headers[c])[i] = headers[c][i + 1]
<1>1. headers[c] \in Seq(Headers)
  BY DEF TypeOK
<1> HIDE DEF Headers
<1> QED BY <1>1 DEF Header

\* The frames and the pages that a caller of MapPages passes.
LEMMA CallerFacts ==
  ASSUME TypeOK, TopInv, NEW c \in Cpus, NEW b \in Frames, NEW n \in Nat,
         Calloc(c, b, n, DATA)
  PROVE  /\ b \in Nat /\ b + n <= Limit
         /\ \A i \in 1 .. n : b + i - 1 \in Run(b, n)
BY LimitAssumption DEF Calloc, IsFirstFit, IsFreeRun, Run, Frames

\* Every step keeps the types.
LEMMA TypeStep == ASSUME IInv, [Next]_vars PROVE TypeOK'
<1> USE DEF IInv
<1>0. /\ Cpus \subseteq Spaces /\ kernel \in Spaces /\ NULL \notin Nat
      /\ 0 \in 0 .. 5 /\ 4 \in 0 .. 5 /\ 5 \in 0 .. 5 /\ 1 \in Nat
  BY VmmAssumption DEF Spaces
<1>a. ASSUME NEW s \in Spaces, NewPagemap(s) PROVE TypeOK'
  <2>1. PICK b \in Frames : Calloc(s, b, 1, PAGEMAP)
    BY <1>a DEF NewPagemap
  <2>2. owner' \in [Frames -> Spaces \cup {NULL}] /\ level' \in [Frames -> 0 .. 5]
    BY <1>0, <2>1, CallocFacts DEF PAGEMAP
  <2> QED BY <1>a, <2>2, Zenon DEF NewPagemap, Goto, TypeOK, walk
<1>b. ASSUME NEW s \in Spaces, NewTop(s) PROVE TypeOK'
  <2>1. PICK b \in Frames :
          /\ Calloc(s, b, 1, 4)
          /\ top' = [top EXCEPT ![s] = b]
          /\ table' = [table EXCEPT ![b] = [i \in Index |->
                   IF s # kernel /\ i >= Half THEN table[top[kernel]][i] ELSE NULL]]
    BY <1>b, Zenon DEF NewTop
  <2>2. owner' \in [Frames -> Spaces \cup {NULL}] /\ level' \in [Frames -> 0 .. 5]
    BY <1>0, <2>1, CallocFacts
  <2>3. s # kernel => top[kernel] \in Frames
    BY <1>b, <1>0 DEF NewTop, Goto, KernelInv, TopInv, Spaces
  <2>4. [i \in Index |-> IF s # kernel /\ i >= Half THEN table[top[kernel]][i] ELSE NULL]
          \in [Index -> 0 .. Limit \cup {NULL}]
    BY <2>3 DEF TypeOK
  <2>5. table' \in [Frames -> [Index -> 0 .. Limit \cup {NULL}]]
    BY <2>1, <2>4 DEF TypeOK
  <2> QED BY <1>b, <2>1, <2>2, <2>5, Zenon DEF NewTop, Goto, TypeOK, walk
<1>c. ASSUME NEW s \in Spaces, MapLock(s) PROVE TypeOK'
  <2>1. top[s] \in Frames \cup {NULL} /\ 4 \in 0 .. 4
    BY DEF TypeOK
  <2>2. cur' \in [Spaces -> Frames \cup {NULL}] /\ depth' \in [Spaces -> 0 .. 4]
    BY <1>c, <2>1 DEF MapLock, TypeOK
  <2> QED BY <1>c, <2>2, Zenon DEF MapLock, TypeOK, frames
<1>d. ASSUME NEW s \in Spaces, NextLevel(s) PROVE TypeOK'
  <2>1. Entry(s) \in Frames /\ depth[s] - 1 \in 0 .. 4
    <3>1. /\ pc[s] = "walk" /\ depth[s] \in 2 .. 4 /\ cur[s] \in Frames
          /\ level[cur[s]] = depth[s] /\ todo[s] # <<>>
      BY <1>d DEF NextLevel, WalkInv, WalkInvOf, Walking
    <3>2. PageOf(virt(s))[depth[s]] \in Index
      BY <3>1, HeadTail, PageType DEF Pages
    <3> QED BY <1>d, <3>1, <3>2 DEF NextLevel, Entry, LevelInv
  <2> QED BY <1>d, <2>1, Zenon DEF NextLevel, Descend, TypeOK, frames
<1>e. ASSUME NEW s \in Spaces, NewLevel(s) PROVE TypeOK'
  <2>0. /\ pc[s] = "walk" /\ depth[s] \in 2 .. 4 /\ cur[s] \in Frames
        /\ level[cur[s]] = depth[s] /\ todo[s] # <<>>
    BY <1>e DEF NewLevel, WalkInv, WalkInvOf, Walking
  <2> DEFINE k == PageOf(virt(s))[depth[s]]
  <2>1. PICK b \in Frames :
          /\ Calloc(s, b, 1, depth[s] - 1)
          /\ table' = [table EXCEPT ![cur[s]][k] = b, ![b] = [i \in Index |-> NULL]]
          /\ Descend(s, b)
    BY <1>e, Zenon DEF NewLevel
  <2>2. owner' \in [Frames -> Spaces \cup {NULL}] /\ level' \in [Frames -> 0 .. 5]
    BY <1>0, <2>0, <2>1, CallocFacts
  <2>3. k \in Index
    BY <2>0, HeadTail, PageType DEF Pages
  <2>4. b \in 0 .. Limit
    BY LimitAssumption DEF Frames
  <2> HIDE DEF k
  <2>5. table' \in [Frames -> [Index -> 0 .. Limit \cup {NULL}]]
    BY <2>0, <2>1, <2>3, <2>4, Zenon DEF TypeOK
  <2>6. cur' \in [Spaces -> Frames \cup {NULL}] /\ depth' \in [Spaces -> 0 .. 4]
    BY <2>0, <2>1 DEF Descend, TypeOK
  <2> QED BY <2>1, <2>2, <2>5, <2>6, Zenon DEF Descend, TypeOK
<1>f. ASSUME NEW s \in Spaces, SetEntry(s) PROVE TypeOK'
  <2>0. pc[s] = "walk" /\ depth[s] = 1 /\ cur[s] \in Frames /\ todo[s] # <<>>
    BY <1>f DEF SetEntry, WalkInv, WalkInvOf, Walking
  <2> DEFINE k == PageOf(virt(s))[1]
  <2>1. k \in Index /\ phys(s) \in 0 .. Limit
        /\ Tail(todo[s]) \in Seq([virt : Nat, phys : 0 .. Limit])
    <3>1. /\ virt(s) \in Nat /\ phys(s) \in 0 .. Limit
          /\ Tail(todo[s]) \in Seq([virt : Nat, phys : 0 .. Limit])
      BY <2>0, HeadTail, Zenon
    <3> QED BY <3>1, PageType DEF Pages
  <2>2. table' = [table EXCEPT ![cur[s]][k] = phys(s)]
    BY <1>f DEF SetEntry
  <2> HIDE DEF k
  <2>3. table' \in [Frames -> [Index -> 0 .. Limit \cup {NULL}]]
    BY <2>0, <2>1, <2>2 DEF TypeOK
  <2> QED BY <1>f, <2>1, <2>3, Zenon DEF SetEntry, TypeOK, frames, walk
<1>g. ASSUME NEW s \in Spaces, MapDone(s) PROVE TypeOK'
  BY <1>g, Zenon DEF MapDone, Goto, TypeOK, frames, walk
<1>h. ASSUME NEW s \in Spaces, OutOfMemory(s) PROVE TypeOK'
  BY <1>h, Zenon DEF OutOfMemory, TypeOK, frames, walk
<1>i. ASSUME NEW c \in Cpus, LoadSegment(c) PROVE TypeOK'
  <2>1. PICK b \in Frames : /\ Calloc(c, b, Header(c).pages, DATA)
                           /\ MapPages(c, Header(c).virt, b, Header(c).pages, "read")
    BY <1>i DEF LoadSegment
  <2>2. Header(c).pages \in Nat /\ Header(c).virt \in Nat
    BY <1>i, HeaderType, SMTT(20) DEF LoadSegment, More, Headers
  <2>3. owner' \in [Frames -> Spaces \cup {NULL}] /\ level' \in [Frames -> 0 .. 5]
    BY <1>0, <2>1, <2>2, CallocFacts, SMTT(20) DEF DATA
  <2>4. b \in Nat /\ b + Header(c).pages - 1 <= Limit
    BY <2>1, <2>2, CallerFacts, LimitAssumption, SMTT(20)
  <2>5. todo' \in [Spaces -> Seq([virt : Nat, phys : 0 .. Limit])]
    BY <2>1, <2>2, <2>4, MapPagesTodo, Zenon
  <2> QED BY <1>0, <1>i, <2>1, <2>3, <2>5, Zenon DEF LoadSegment, MapPages, TypeOK, walk
<1>j. ASSUME NEW c \in Cpus, ReadSegment(c) \/ OtherHeader(c) PROVE TypeOK'
  <2>1. headers' \in [Cpus -> Seq(Headers)]
    <3>1. CASE headers[c] # <<>>
      BY <3>1, <1>j, HeaderType, ZenonT(40) DEF ReadSegment, OtherHeader, TypeOK
    <3>2. CASE headers[c] = <<>>
      <4>1. pc[c] = "read" /\ c \in Spaces
        BY <1>0, <3>2, <1>j, SMTT(20) DEF ReadSegment, OtherHeader, More, Goto
      <4>2. WalkInvOf(c)
        BY <4>1, SMTT(20) DEF WalkInv
      <4>3. headers[c] # <<>>
        BY <4>1, <4>2, SMTT(20) DEF WalkInvOf
      <4> QED BY <3>2, <4>3, SMTT(20)
    <3> QED BY <3>1, <3>2, SMTT(20)
  <2> QED BY <1>0, <1>j, <2>1, ZenonT(40) DEF ReadSegment, OtherHeader, Goto, TypeOK, frames, walk
<1>k. ASSUME NEW c \in Cpus, UserStack(c) PROVE TypeOK'
  <2>1. PICK b \in Frames :
          /\ Calloc(c, b, STACK_SIZE, DATA)
          /\ MapPages(c, thread_stack_top - STACK_SIZE, b, STACK_SIZE + 1, "run")
    BY <1>k DEF UserStack
  <2>2. STACK_SIZE \in Nat /\ STACK_SIZE + 1 \in Nat /\ thread_stack_top - STACK_SIZE \in Nat
    BY VmmAssumption DEF IsUser
  <2>3. owner' \in [Frames -> Spaces \cup {NULL}] /\ level' \in [Frames -> 0 .. 5]
    BY <1>0, <2>1, <2>2, CallocFacts DEF DATA
  <2>4. b \in Nat /\ b + (STACK_SIZE + 1) - 1 <= Limit
    BY <2>1, <2>2, CallerFacts, LimitAssumption
  <2>5. todo' \in [Spaces -> Seq([virt : Nat, phys : 0 .. Limit])]
    BY <2>1, <2>2, <2>4, MapPagesTodo, Zenon
  <2> QED BY <1>0, <1>k, <2>1, <2>3, <2>5, Zenon DEF UserStack, MapPages, TypeOK, walk
<1>l. ASSUME NEW c \in Cpus, Mmap(c) PROVE TypeOK'
  <2>1. PICK n \in Lengths, fixed \in BOOLEAN : \E v \in IF fixed THEN Hints \ {0} ELSE {anon_base[c]}, b \in Frames :
          /\ anon_base' = [anon_base EXCEPT ![c] = IF fixed THEN @ ELSE @ + n]
          /\ Calloc(c, b, n, DATA)
          /\ MapPages(c, v, b, n, "run")
    BY <1>l, Zenon DEF Mmap
  <2>2. PICK v \in IF fixed THEN Hints \ {0} ELSE {anon_base[c]}, b \in Frames :
          Calloc(c, b, n, DATA) /\ MapPages(c, v, b, n, "run")
    BY <2>1
  <2>3. n \in Nat /\ v \in Nat /\ anon_base' \in [Cpus -> Nat]
    BY <2>1, <2>2, VmmAssumption DEF TypeOK
  <2>4. owner' \in [Frames -> Spaces \cup {NULL}] /\ level' \in [Frames -> 0 .. 5]
    BY <1>0, <2>2, <2>3, CallocFacts DEF DATA
  <2>5. b \in Nat /\ b + n - 1 <= Limit
    BY <2>2, <2>3, CallerFacts, LimitAssumption, SMTT(40)
  <2>6. todo' \in [Spaces -> Seq([virt : Nat, phys : 0 .. Limit])]
    BY <2>2, <2>3, <2>5, MapPagesTodo, Zenon
  <2> QED BY <1>0, <1>l, <2>2, <2>3, <2>4, <2>6, Zenon DEF Mmap, MapPages, TypeOK, walk
<1>m. CASE UNCHANGED vars
  BY <1>m, Zenon DEF vars, TypeOK
<1> QED BY <1>a, <1>b, <1>c, <1>d, <1>e, <1>f, <1>g, <1>h, <1>i, <1>j, <1>k, <1>l, <1>m
        DEF Next, MapStep
-----------------------------------------------------------------------------
(* Ways through the tables *)

\* What is found on the way to a page is a table of the right level, of the
\* space or, in the kernel's half, of the kernel.
LEMMA WayFacts ==
  ASSUME TypeOK, TopInv, LevelInv, NEW s \in Spaces, NEW p \in Pages
  PROVE  /\ top[s] # NULL => top[s] \in Frames /\ level[top[s]] = 4 /\ owner[top[s]] = s
         /\ Pml3(s, p) # NULL => /\ top[s] # NULL /\ Pml3(s, p) = table[top[s]][p[4]]
                                /\ Pml3(s, p) \in Frames /\ level[Pml3(s, p)] = 3
                                /\ owner[Pml3(s, p)] = IF p[4] >= Half THEN kernel ELSE s
         /\ Pml2(s, p) # NULL => /\ Pml3(s, p) # NULL /\ Pml2(s, p) = table[Pml3(s, p)][p[3]]
                                /\ Pml2(s, p) \in Frames /\ level[Pml2(s, p)] = 2
                                /\ owner[Pml2(s, p)] = IF p[4] >= Half THEN kernel ELSE s
         /\ Pml1(s, p) # NULL => /\ Pml2(s, p) # NULL /\ Pml1(s, p) = table[Pml2(s, p)][p[2]]
                                /\ Pml1(s, p) \in Frames /\ level[Pml1(s, p)] = 1
                                /\ owner[Pml1(s, p)] = IF p[4] >= Half THEN kernel ELSE s
<1>0. p[1] \in Index /\ p[2] \in Index /\ p[3] \in Index /\ p[4] \in Index
  BY DEF Pages
<1>1. top[s] # NULL => top[s] \in Frames /\ level[top[s]] = 4 /\ owner[top[s]] = s
  BY DEF TopInv
<1>2. Pml3(s, p) # NULL => /\ top[s] # NULL /\ Pml3(s, p) = table[top[s]][p[4]]
                         /\ Pml3(s, p) \in Frames /\ level[Pml3(s, p)] = 3
                         /\ owner[Pml3(s, p)] = IF p[4] >= Half THEN kernel ELSE s
  BY <1>0, <1>1, SMTT(20) DEF LevelInv, Pml3, At
<1>3. Pml2(s, p) # NULL => /\ Pml3(s, p) # NULL /\ Pml2(s, p) = table[Pml3(s, p)][p[3]]
                         /\ Pml2(s, p) \in Frames /\ level[Pml2(s, p)] = 2
                         /\ owner[Pml2(s, p)] = IF p[4] >= Half THEN kernel ELSE s
  BY <1>0, <1>2, SMTT(20) DEF LevelInv, Pml2, At
<1>4. Pml1(s, p) # NULL => /\ Pml2(s, p) # NULL /\ Pml1(s, p) = table[Pml2(s, p)][p[2]]
                         /\ Pml1(s, p) \in Frames /\ level[Pml1(s, p)] = 1
                         /\ owner[Pml1(s, p)] = IF p[4] >= Half THEN kernel ELSE s
  BY <1>0, <1>3, SMTT(20) DEF LevelInv, Pml1, At
<1> QED BY <1>1, <1>2, <1>3, <1>4

\* Two ways to one lowest table agree in the three upper indices, and are of one
\* space or in the kernel's half.
LEMMA WayUnique ==
  ASSUME TypeOK, TopInv, LevelInv, UniqueInv,
         NEW s \in Spaces, NEW p \in Pages, NEW t \in Spaces, NEW q \in Pages,
         Pml1(s, p) # NULL, Pml1(s, p) = Pml1(t, q)
  PROVE  p[4] = q[4] /\ p[3] = q[3] /\ p[2] = q[2] /\ (s = t \/ p[4] >= Half)
<1>0. /\ p[1] \in Index /\ p[2] \in Index /\ p[3] \in Index /\ p[4] \in Index
      /\ q[1] \in Index /\ q[2] \in Index /\ q[3] \in Index /\ q[4] \in Index
  BY SMTT(40) DEF Pages
<1>1. Pml2(s, p) = Pml2(t, q) /\ p[2] = q[2] /\ Pml2(s, p) # NULL
  BY <1>0, WayFacts, SMTT(40) DEF UniqueInv, UniqueAt
<1>2. Pml3(s, p) = Pml3(t, q) /\ p[3] = q[3] /\ Pml3(s, p) # NULL
  BY <1>0, <1>1, WayFacts, SMTT(40) DEF UniqueInv, UniqueAt
<1>3. p[4] = q[4] /\ (top[s] = top[t] \/ p[4] >= Half)
  BY <1>0, <1>2, WayFacts, SMTT(40) DEF UniqueInv, UniqueAt
<1> QED BY <1>1, <1>2, <1>3, WayFacts, SMTT(20)

\* Entries that are only added leave the ways as they are.
LEMMA WayGrows ==
  ASSUME TypeOK, TopInv, LevelInv, NEW s \in Spaces, NEW p \in Pages, top'[s] = top[s],
         \A f \in Frames, i \in Index :
           level[f] \in 2 .. 4 /\ table[f][i] # NULL => table'[f][i] = table[f][i]
  PROVE  /\ Pml3(s, p) # NULL => Pml3(s, p)' = Pml3(s, p)
         /\ Pml2(s, p) # NULL => Pml2(s, p)' = Pml2(s, p)
         /\ Pml1(s, p) # NULL => Pml1(s, p)' = Pml1(s, p)
<1>0. p[1] \in Index /\ p[2] \in Index /\ p[3] \in Index /\ p[4] \in Index
  BY SMTT(20) DEF Pages
<1>w. /\ Pml3(s, p) # NULL => /\ top[s] \in Frames /\ level[top[s]] = 4
                             /\ Pml3(s, p) = table[top[s]][p[4]]
      /\ Pml2(s, p) # NULL => /\ Pml3(s, p) # NULL /\ Pml3(s, p) \in Frames
                             /\ level[Pml3(s, p)] = 3 /\ Pml2(s, p) = table[Pml3(s, p)][p[3]]
      /\ Pml1(s, p) # NULL => /\ Pml2(s, p) # NULL /\ Pml2(s, p) \in Frames
                             /\ level[Pml2(s, p)] = 2 /\ Pml1(s, p) = table[Pml2(s, p)][p[2]]
      /\ Pml3(s, p) # NULL => top[s] # NULL
  BY WayFacts, ZenonT(60)
<1>x. 4 \in 2 .. 4 /\ 3 \in 2 .. 4 /\ 2 \in 2 .. 4
  BY SMTT(20)
<1>1. Pml3(s, p) # NULL => Pml3(s, p)' = Pml3(s, p)
  <2>1. Pml3(s, p) # NULL => table'[top[s]][p[4]] = table[top[s]][p[4]]
    BY <1>0, <1>w, <1>x, ZenonT(60)
  <2> QED BY <1>w, <2>1, ZenonT(60) DEF Pml3, At
<1>2. Pml2(s, p) # NULL => Pml2(s, p)' = Pml2(s, p)
  <2>1. Pml2(s, p) # NULL => table'[Pml3(s, p)][p[3]] = table[Pml3(s, p)][p[3]]
    BY <1>0, <1>w, <1>x, ZenonT(60)
  <2> QED BY <1>1, <1>w, <2>1, ZenonT(60) DEF Pml2, At
<1>3. Pml1(s, p) # NULL => Pml1(s, p)' = Pml1(s, p)
  <2>1. Pml1(s, p) # NULL => table'[Pml2(s, p)][p[2]] = table[Pml2(s, p)][p[2]]
    BY <1>0, <1>w, <1>x, ZenonT(60)
  <2> QED BY <1>2, <1>w, <2>1, ZenonT(60) DEF Pml1, At
<1> QED BY <1>1, <1>2, <1>3, SMTT(20)
-----------------------------------------------------------------------------
(* The structure of the tables *)

\* Memory that is handed out for data leaves the structure alone.
LEMMA StructData ==
  ASSUME TypeOK, TopInv, LevelInv, UniqueInv, table' = table, top' = top,
         \A f \in Frames : \/ owner'[f] = owner[f] /\ level'[f] = level[f]
                           \/ /\ owner[f] = NULL /\ level[f] = DATA
                              /\ owner'[f] # NULL /\ level'[f] \in {DATA, PAGEMAP}
  PROVE  TopInv' /\ LevelInv' /\ UniqueInv'
<1>1. TopInv'
  BY VmmAssumption DEF TopInv, DATA, PAGEMAP
<1>2. \A f \in Frames : level'[f] \in 1 .. 4 => level'[f] = level[f] /\ owner'[f] = owner[f]
  BY DEF DATA, PAGEMAP
<1>3. \A f \in Frames : level[f] \in 1 .. 4 => level'[f] = level[f] /\ owner'[f] = owner[f]
  BY DEF DATA, PAGEMAP
<1>4. LevelInv'
  BY <1>2, <1>3 DEF LevelInv, TypeOK
<1>5. UniqueInv'
  BY <1>2 DEF UniqueInv, UniqueAt
<1> QED BY <1>1, <1>4, <1>5

\* Frame b was free, and is now a table of level l of space s.
Fresh(s, b, l) ==
  /\ b \in Frames /\ owner[b] = NULL /\ level[b] = DATA /\ owner'[b] = s /\ level'[b] = l
  /\ \A f \in Frames : f # b => owner'[f] = owner[f] /\ level'[f] = level[f]

\* A run of one frame is a fresh frame.
LEMMA FreshFacts ==
  ASSUME TypeOK, TopInv, NEW s \in Spaces, NEW b \in Frames, NEW l \in 0 .. 5, Calloc(s, b, 1, l)
  PROVE  Fresh(s, b, l)
<1>1. 1 \in Nat /\ Run(b, 1) = {b}
  BY RunOne
<1> QED BY <1>1, CallocFacts DEF Fresh

\* NewTop, entry by entry.
LEMMA NewTopFacts ==
  ASSUME IInv, NEW s \in Spaces, NewTop(s)
  PROVE  \E b \in Frames :
           /\ Fresh(s, b, 4) /\ top[s] = NULL /\ top'[s] = b
           /\ \A t \in Spaces : t # s => top'[t] = top[t]
           /\ \A f \in Frames : f # b => table'[f] = table[f]
           /\ \A i \in Index :
                table'[b][i] = IF s # kernel /\ i >= Half THEN table[top[kernel]][i] ELSE NULL
           /\ s # kernel => /\ pc[kernel] = "ready" /\ top[kernel] \in Frames
                            /\ level[top[kernel]] = 4 /\ owner[top[kernel]] = kernel
           /\ s = kernel => \A c \in Cpus : pc[c] = "new"
<1> USE DEF IInv
<1>1. PICK b \in Frames :
        /\ Calloc(s, b, 1, 4)
        /\ top' = [top EXCEPT ![s] = b]
        /\ table' = [table EXCEPT ![b] = [i \in Index |->
                 IF s # kernel /\ i >= Half THEN table[top[kernel]][i] ELSE NULL]]
  BY Zenon DEF NewTop
<1>2. pc[s] = "top" /\ top[s] = NULL
  BY DEF NewTop, Goto, WalkInv, WalkInvOf, Walking
<1>3. Fresh(s, b, 4)
  <2>1. 4 \in 0 .. 5
    OBVIOUS
  <2> QED BY <1>1, <2>1, FreshFacts
<1>4. kernel \in Spaces /\ (s = kernel \/ s \in Cpus)
  BY DEF Spaces
<1>5. s # kernel => /\ pc[kernel] = "ready" /\ top[kernel] \in Frames
                    /\ level[top[kernel]] = 4 /\ owner[top[kernel]] = kernel
  BY <1>2, <1>4 DEF KernelInv, TopInv
<1>6. s = kernel => \A c \in Cpus : pc[c] = "new"
  BY <1>2, Zenon DEF KernelInv
<1>7. /\ top'[s] = b /\ \A t \in Spaces : t # s => top'[t] = top[t]
      /\ \A f \in Frames : f # b => table'[f] = table[f]
      /\ \A i \in Index :
           table'[b][i] = IF s # kernel /\ i >= Half THEN table[top[kernel]][i] ELSE NULL
  BY <1>1 DEF TypeOK
<1> QED BY <1>2, <1>3, <1>5, <1>6, <1>7

\* The index that a walk is about to use; a process is not in the kernel's half.
LEMMA WalkFacts ==
  ASSUME IInv, NEW s \in Spaces, pc[s] = "walk"
  PROVE  /\ todo[s] # <<>> /\ depth[s] \in 1 .. 4 /\ cur[s] \in Frames
         /\ level[cur[s]] = depth[s] /\ owner[cur[s]] = s
         /\ PageOf(virt(s)) \in Pages /\ PageOf(virt(s))[depth[s]] \in Index
         /\ s # kernel => PageOf(virt(s)) \notin KernelPages /\ ~(PageOf(virt(s))[4] >= Half)
<1> USE DEF IInv
<1>1. /\ todo[s] # <<>> /\ depth[s] \in 1 .. 4 /\ cur[s] \in Frames
      /\ level[cur[s]] = depth[s] /\ owner[cur[s]] = s
  BY ZenonT(60) DEF WalkInv, WalkInvOf, Walking
<1>2. virt(s) \in Nat /\ 1 \in DOMAIN todo[s] /\ virt(s) = todo[s][1].virt
  BY <1>1, HeadTail, ZenonT(60)
<1>3. PageOf(virt(s)) \in Pages
  BY <1>2, PageType
<1>4. PageOf(virt(s))[depth[s]] \in Index
  BY <1>1, <1>3 DEF Pages
<1>5. ASSUME s # kernel PROVE PageOf(virt(s)) \notin KernelPages
  <2>1. s \in Cpus /\ 1 \in Nat
    BY <1>5 DEF Spaces
  <2>2. IsUser(virt(s))
    BY <1>2, <2>1 DEF UserInv
  <2> QED BY <2>2 DEF IsUser
<1>6. s # kernel => ~(PageOf(virt(s))[4] >= Half)
  BY <1>3, <1>5 DEF KernelPages
<1> QED BY <1>1, <1>3, <1>4, <1>5, <1>6, ZenonT(60)

\* The step that makes table b, entered at k of the table space s has reached.
NewTable(s, b, k) ==
  /\ Fresh(s, b, depth[s] - 1) /\ k = PageOf(virt(s))[depth[s]]
  /\ pc[s] = "walk" /\ depth[s] \in 2 .. 4 /\ cur[s] # b
  /\ table[cur[s]][k] = NULL /\ table'[cur[s]][k] = b
  /\ \A i \in Index : i # k => table'[cur[s]][i] = table[cur[s]][i]
  /\ \A i \in Index : table'[b][i] = NULL
  /\ \A f \in Frames : f # b /\ f # cur[s] => table'[f] = table[f]
  /\ depth[s] = 4 /\ k >= Half => s = kernel
  /\ Descend(s, b) /\ top' = top

\* NewLevel, entry by entry.
LEMMA NewLevelFacts ==
  ASSUME IInv, NEW s \in Spaces, NewLevel(s)
  PROVE  \E b \in Frames, k \in Index : NewTable(s, b, k)
<1> USE DEF IInv
<1>0. pc[s] = "walk" /\ depth[s] > 1 /\ Entry(s) = NULL
  BY DEF NewLevel
<1>1. PICK b \in Frames :
        /\ Calloc(s, b, 1, depth[s] - 1)
        /\ table' = [table EXCEPT ![cur[s]][PageOf(virt(s))[depth[s]]] = b,
                                 ![b] = [i \in Index |-> NULL]]
        /\ Descend(s, b)
  BY Zenon DEF NewLevel
<1> DEFINE k == PageOf(virt(s))[depth[s]]
<1>2. /\ depth[s] \in 2 .. 4 /\ depth[s] - 1 \in 0 .. 5 /\ cur[s] \in Frames
      /\ owner[cur[s]] = s /\ k \in Index
  BY <1>0, WalkFacts
<1>3. Fresh(s, b, depth[s] - 1)
  BY <1>1, <1>2, FreshFacts
<1>4. cur[s] # b
  BY <1>2, <1>3, VmmAssumption, ZenonT(60) DEF Fresh
<1>5. depth[s] = 4 /\ k >= Half => s = kernel
  BY <1>0, WalkFacts
<1>6. table[cur[s]][k] = NULL
  BY <1>0 DEF Entry
<1> HIDE DEF k
<1>7. table' = [table EXCEPT ![cur[s]][k] = b, ![b] = [i \in Index |-> NULL]]
  BY <1>1 DEF k
<1>8. /\ table'[cur[s]][k] = b
      /\ \A i \in Index : i # k => table'[cur[s]][i] = table[cur[s]][i]
      /\ \A i \in Index : table'[b][i] = NULL
      /\ \A f \in Frames : f # b /\ f # cur[s] => table'[f] = table[f]
  BY <1>2, <1>4, <1>7 DEF TypeOK
<1>9. k = PageOf(virt(s))[depth[s]]
  BY DEF k
<1>10. top' = top
  BY <1>1, Zenon DEF Descend
<1>11. NewTable(s, b, k)
  BY <1>0, <1>1, <1>2, <1>3, <1>4, <1>5, <1>6, <1>8, <1>9, <1>10, ZenonT(60) DEF NewTable
<1> QED BY <1>2, <1>11, Zenon

\* SetEntry, entry by entry.
LEMMA SetEntryFacts ==
  ASSUME IInv, NEW s \in Spaces, SetEntry(s)
  PROVE  /\ pc[s] = "walk" /\ depth[s] = 1
         /\ cur[s] \in Frames /\ level[cur[s]] = 1 /\ owner[cur[s]] = s
         /\ cur[s] = Pml1(s, PageOf(virt(s))) /\ PageOf(virt(s)) \in Pages
         /\ PageOf(virt(s))[1] \in Index /\ phys(s) \in 0 .. Limit
         /\ todo[s] # <<>> /\ todo' = [todo EXCEPT ![s] = Tail(@)]
         /\ table'[cur[s]][PageOf(virt(s))[1]] = phys(s)
         /\ \A i \in Index : i # PageOf(virt(s))[1] => table'[cur[s]][i] = table[cur[s]][i]
         /\ \A f \in Frames : f # cur[s] => table'[f] = table[f]
         /\ owner' = owner /\ level' = level /\ top' = top
<1> USE DEF IInv
<1> DEFINE k == PageOf(virt(s))[1]
<1>0. pc[s] = "walk" /\ depth[s] = 1 /\ table' = [table EXCEPT ![cur[s]][k] = phys(s)]
      /\ todo' = [todo EXCEPT ![s] = Tail(@)] /\ owner' = owner /\ level' = level /\ top' = top
  BY SMTT(20) DEF SetEntry, frames
<1>1. /\ cur[s] \in Frames /\ level[cur[s]] = 1 /\ owner[cur[s]] = s /\ todo[s] # <<>>
      /\ PageOf(virt(s)) \in Pages /\ k \in Index
  BY <1>0, WalkFacts, SMTT(20)
<1>2. cur[s] = Pml1(s, PageOf(virt(s)))
  BY <1>0, SMTT(20) DEF WalkInv, WalkInvOf, Walking, OnWay
<1>3. phys(s) \in 0 .. Limit
  BY <1>1, HeadTail, SMTT(20)
<1> HIDE DEF k
<1>4. /\ table'[cur[s]][k] = phys(s)
      /\ \A i \in Index : i # k => table'[cur[s]][i] = table[cur[s]][i]
      /\ \A f \in Frames : f # cur[s] => table'[f] = table[f]
  BY <1>0, <1>1, SMTT(20) DEF TypeOK
<1> QED BY <1>0, <1>1, <1>2, <1>3, <1>4, SMTT(20) DEF k

\* A step that changes no table, and at most hands out memory for data.
DataStep ==
  /\ table' = table /\ top' = top
  /\ \A f \in Frames : \/ owner'[f] = owner[f] /\ level'[f] = level[f]
                       \/ /\ owner[f] = NULL /\ level[f] = DATA
                          /\ owner'[f] # NULL /\ level'[f] \in {DATA, PAGEMAP}

\* pmm_calloc for data is such a step.
LEMMA CallocData ==
  ASSUME TypeOK, TopInv, NEW s \in Spaces, NEW b \in Frames, NEW n \in Nat, NEW l \in {DATA, PAGEMAP},
         Calloc(s, b, n, l), table' = table, top' = top
  PROVE  DataStep
<1>1. l \in 0 .. 5 /\ s # NULL
  BY VmmAssumption, SMTT(40) DEF DATA, PAGEMAP
<1> QED BY <1>1, CallocFacts, SMTT(20) DEF DataStep

\* Four kinds of steps.
LEMMA StepKinds ==
  ASSUME IInv, [Next]_vars
  PROVE  DataStep \/ \E s \in Spaces : NewTop(s) \/ NewLevel(s) \/ SetEntry(s)
<1> USE DEF IInv
<1>0. Cpus \subseteq Spaces /\ 1 \in Nat /\ DATA \in {DATA, PAGEMAP} /\ PAGEMAP \in {DATA, PAGEMAP}
  BY DEF Spaces
<1>a. ASSUME NEW s \in Spaces, NewPagemap(s) PROVE DataStep
  BY <1>0, <1>a, CallocData DEF NewPagemap
<1>b. ASSUME NEW s \in Spaces, MapLock(s) \/ NextLevel(s) \/ MapDone(s) \/ OutOfMemory(s)
      PROVE DataStep
  BY <1>b, ZenonT(60) DEF MapLock, NextLevel, MapDone, OutOfMemory, Descend, DataStep, frames
<1>c. ASSUME NEW c \in Cpus, ReadSegment(c) \/ OtherHeader(c) PROVE DataStep
  BY <1>c, ZenonT(60) DEF ReadSegment, OtherHeader, DataStep, frames
<1>d. ASSUME NEW c \in Cpus, LoadSegment(c) PROVE DataStep
  <2>1. Header(c).pages \in Nat
    BY <1>d, HeaderType, ZenonT(60) DEF LoadSegment, More, Headers
  <2> QED BY <1>0, <1>d, <2>1, CallocData DEF LoadSegment, MapPages
<1>e. ASSUME NEW c \in Cpus, UserStack(c) PROVE DataStep
  BY <1>0, <1>e, CallocData, VmmAssumption, ZenonT(60) DEF UserStack, MapPages
<1>f. ASSUME NEW c \in Cpus, Mmap(c) PROVE DataStep
  <2>1. PICK n \in Lengths, b \in Frames :
          Calloc(c, b, n, DATA) /\ table' = table /\ top' = top
    BY <1>f DEF Mmap, MapPages
  <2>2. n \in Nat
    BY VmmAssumption
  <2> QED BY <1>0, <2>1, <2>2, CallocData
<1>g. CASE UNCHANGED vars
  BY <1>g DEF vars, DataStep
<1> QED BY <1>a, <1>b, <1>c, <1>d, <1>e, <1>f, <1>g, SMTT(20) DEF Next, MapStep

\* LevelInv for one given entry.
LEMMA LevelUse ==
  ASSUME LevelInv, NEW f \in Frames, NEW i \in Index, level[f] \in 2 .. 4, table[f][i] # NULL
  PROVE  /\ table[f][i] \in Frames
         /\ level[table[f][i]] = level[f] - 1
         /\ level[table[f][i]] \in 1 .. 4
         /\ owner[table[f][i]] = IF level[f] = 4 /\ i >= Half THEN kernel ELSE owner[f]
<1>1. /\ table[f][i] \in Frames
      /\ level[table[f][i]] = level[f] - 1
      /\ owner[table[f][i]] = IF level[f] = 4 /\ i >= Half THEN kernel ELSE owner[f]
  BY ZenonT(60) DEF LevelInv
<1>2. level[table[f][i]] \in 1 .. 4
  BY <1>1, SMTT(40)
<1> QED BY <1>1, <1>2, Zenon

\* UniqueInv for four given values.
LEMMA UniqueUse ==
  ASSUME UniqueInv, NEW f \in Frames, NEW g \in Frames, NEW i \in Index, NEW j \in Index,
         level[f] \in 2 .. 4, level[g] \in 2 .. 4, table[f][i] = table[g][j], table[f][i] # NULL
  PROVE  i = j /\ (f = g \/ (level[f] = 4 /\ level[g] = 4 /\ i >= Half))
<1> USE DEF UniqueInv, UniqueAt
<1>1. i = j
  BY SMTT(30)
<1>2. f = g \/ (level[f] = 4 /\ level[g] = 4 /\ i >= Half)
  BY SMTT(30)
<1> QED BY <1>1, <1>2

\* Every step keeps the structure.
LEMMA StructStep == ASSUME IInv, TypeOK', [Next]_vars PROVE TopInv' /\ LevelInv' /\ UniqueInv'
<1> USE DEF IInv
<1>0. kernel \in Spaces /\ NULL \notin Spaces /\ NULL \notin Nat
  BY VmmAssumption DEF Spaces
<1>1. CASE DataStep
  BY <1>1, StructData DEF DataStep
<1>2. ASSUME NEW s \in Spaces, NewTop(s) PROVE TopInv' /\ LevelInv' /\ UniqueInv'
  <2>1. PICK b \in Frames :
           /\ Fresh(s, b, 4) /\ top[s] = NULL /\ top'[s] = b
           /\ \A t \in Spaces : t # s => top'[t] = top[t]
           /\ \A f \in Frames : f # b => table'[f] = table[f]
           /\ \A i \in Index :
                table'[b][i] = IF s # kernel /\ i >= Half THEN table[top[kernel]][i] ELSE NULL
           /\ s # kernel => /\ top[kernel] \in Frames
                            /\ level[top[kernel]] = 4 /\ owner[top[kernel]] = kernel
    BY <1>2, NewTopFacts
  <2>2. \A f \in Frames : f = b \/ (level'[f] = level[f] /\ owner'[f] = owner[f] /\ table'[f] = table[f])
    BY <2>1, ZenonT(60) DEF Fresh
  <2>3. TopInv'
    <3>1. \A t \in Spaces : top'[t] # NULL =>
            top'[t] \in Frames /\ owner'[top'[t]] = t /\ level'[top'[t]] = 4
      BY <1>0, <2>1 DEF TopInv, Fresh
    <3>2. ASSUME NEW f \in Frames, level'[f] = 4 PROVE owner'[f] \in Spaces /\ top'[owner'[f]] = f
      <4>1. CASE f = b
        BY <4>1, <2>1 DEF Fresh
      <4>2. CASE f # b
        <5>1. f # NULL
          BY <1>0, LimitAssumption DEF Frames
        <5>2. level[f] = 4 /\ owner'[f] = owner[f]
          BY <3>2, <4>2, <2>2
        <5>3. owner[f] \in Spaces /\ top[owner[f]] = f
          BY <5>2 DEF TopInv
        <5> QED BY <5>1, <5>2, <5>3, <2>1
      <4> QED BY <4>1, <4>2, ZenonT(60)
    <3>3. \A f \in Frames : owner'[f] = NULL => level'[f] = DATA
      BY <1>0, <2>1 DEF TopInv, Fresh
    <3> QED BY <3>1, <3>2, <3>3 DEF TopInv
  <2>4. \A f \in Frames : level[f] \in 1 .. 4 => f # b
    BY <2>1 DEF Fresh, DATA
  <2>5. LevelInv'
    <3> SUFFICES ASSUME NEW f \in Frames, NEW i \in Index, level'[f] \in 2 .. 4, table'[f][i] # NULL
                 PROVE  /\ table'[f][i] \in Frames
                        /\ level'[table'[f][i]] = level'[f] - 1
                        /\ owner'[table'[f][i]] =
                             IF level'[f] = 4 /\ i >= Half THEN kernel ELSE owner'[f]
      BY ZenonT(60) DEF LevelInv
    <3>1. CASE f = b
      <4>1. /\ table'[f][i] = table[top[kernel]][i] /\ s # kernel /\ i >= Half
            /\ level'[f] = 4
        BY <3>1, <2>1, ZenonT(60) DEF Fresh
      <4>2. /\ table[top[kernel]][i] \in Frames /\ level[table[top[kernel]][i]] = 3
            /\ owner[table[top[kernel]][i]] = kernel
        BY <4>1, <2>1, SMTT(40) DEF LevelInv
      <4>a. 4 - 1 = 3 /\ 3 \in 1 .. 4
        OBVIOUS
      <4>3. level'[f] - 1 = 3 /\ table[top[kernel]][i] # b
        BY <4>a, <4>1, <4>2, <2>4, ZenonT(60)
      <4> QED BY <4>1, <4>2, <4>3, <2>2, ZenonT(60)
    <3>2. CASE f # b
      <4>1. table'[f][i] = table[f][i] /\ level'[f] = level[f] /\ owner'[f] = owner[f]
        BY <3>2, <2>2
      <4>2. /\ table[f][i] \in Frames /\ level[table[f][i]] = level[f] - 1
            /\ owner[table[f][i]] = IF level[f] = 4 /\ i >= Half THEN kernel ELSE owner[f]
        BY <4>1, LevelUse, ZenonT(60)
      <4>3. table[f][i] # b
        BY <4>1, <2>4, LevelUse, ZenonT(60)
      <4> QED BY <4>1, <4>2, <4>3, <2>2, ZenonT(60)
    <3> QED BY <3>1, <3>2
  <2>6. UniqueInv'
    <3> SUFFICES ASSUME NEW f \in Frames, NEW g \in Frames, NEW i \in Index, NEW j \in Index
                 PROVE  UniqueAt(f, g, i, j)'
      BY ZenonT(60) DEF UniqueInv
    <3> SUFFICES ASSUME level'[f] \in 2 .. 4, level'[g] \in 2 .. 4,
                        table'[f][i] = table'[g][j], table'[f][i] # NULL
                 PROVE  i = j /\ (f = g \/ (level'[f] = 4 /\ level'[g] = 4 /\ i >= Half))
      BY ZenonT(60) DEF UniqueAt
    <3> DEFINE o(x) == IF x = b THEN top[kernel] ELSE x
    <3>1. ASSUME NEW x \in Frames, NEW m \in Index, level'[x] \in 2 .. 4, table'[x][m] # NULL
          PROVE  /\ o(x) \in Frames /\ level'[x] = level[o(x)] /\ table'[x][m] = table[o(x)][m]
                 /\ x = b => m >= Half
      BY <3>1, <2>1, <2>2, ZenonT(60) DEF Fresh
    <3>2. /\ o(f) \in Frames /\ level'[f] = level[o(f)] /\ table'[f][i] = table[o(f)][i]
          /\ f = b => i >= Half
      BY <3>1, ZenonT(60)
    <3>3. /\ o(g) \in Frames /\ level'[g] = level[o(g)] /\ table'[g][j] = table[o(g)][j]
          /\ g = b => j >= Half
      BY <3>1, ZenonT(60)
    <3>4. i = j /\ (o(f) = o(g) \/ (level[o(f)] = 4 /\ level[o(g)] = 4 /\ i >= Half))
      <4> HIDE DEF o
      <4>1. /\ level[o(f)] \in 2 .. 4 /\ level[o(g)] \in 2 .. 4
            /\ table[o(f)][i] = table[o(g)][j] /\ table[o(f)][i] # NULL
        BY <3>2, <3>3, Zenon
      <4>2. UniqueAt(o(f), o(g), i, j)
        BY <3>2, <3>3, ZenonT(60) DEF UniqueInv
      <4> QED BY <4>1, <4>2, ZenonT(60) DEF UniqueAt
    <3>5. level'[b] = 4
      BY <2>1, ZenonT(60) DEF Fresh
    <3> QED BY <3>2, <3>3, <3>4, <3>5, ZenonT(60)
  <2> QED BY <2>3, <2>5, <2>6
<1>3. ASSUME NEW s \in Spaces, NewLevel(s) PROVE TopInv' /\ LevelInv' /\ UniqueInv'
  <2>0. PICK b \in Frames, k \in Index : NewTable(s, b, k)
    BY <1>3, NewLevelFacts, Zenon
  <2>1. /\ Fresh(s, b, depth[s] - 1) /\ pc[s] = "walk" /\ depth[s] \in 2 .. 4 /\ cur[s] # b
        /\ table[cur[s]][k] = NULL /\ table'[cur[s]][k] = b
        /\ \A i \in Index : i # k => table'[cur[s]][i] = table[cur[s]][i]
        /\ \A i \in Index : table'[b][i] = NULL
        /\ \A f \in Frames : f # b /\ f # cur[s] => table'[f] = table[f]
        /\ depth[s] = 4 /\ k >= Half => s = kernel
        /\ top' = top
    BY <2>0, ZenonT(60) DEF NewTable
  <2>2. cur[s] \in Frames /\ level[cur[s]] = depth[s] /\ owner[cur[s]] = s
    BY <2>1, WalkFacts, ZenonT(60)
  <2>3. /\ \A f \in Frames : f = b \/ (level'[f] = level[f] /\ owner'[f] = owner[f])
        /\ level'[b] = depth[s] - 1 /\ owner'[b] = s /\ owner[b] = NULL
    BY <2>1, ZenonT(60) DEF Fresh
  <2>4. \A f \in Frames : level[f] \in 1 .. 4 => f # b
    <3>1. level[b] = DATA
      BY <2>1, Zenon DEF Fresh
    <3>2. DATA \notin 1 .. 4
      BY DEF DATA
    <3> QED BY <3>1, <3>2, Zenon
  <2>5. TopInv'
    <3>1. \A t \in Spaces : top[t] # NULL =>
            top[t] \in Frames /\ top[t] # b /\ owner[top[t]] = t /\ level[top[t]] = 4
      BY <1>0, <2>3, ZenonT(60) DEF TopInv
    <3>2. level'[b] # 4
      <4>1. depth[s] \in 2 .. 4
        BY <2>1, Zenon
      <4>2. depth[s] - 1 # 4
        BY <4>1, SMTT(40)
      <4> QED BY <2>3, <4>2, Zenon
    <3>3. \A t \in Spaces : top'[t] # NULL =>
            top'[t] \in Frames /\ owner'[top'[t]] = t /\ level'[top'[t]] = 4
      BY <2>1, <2>3, <3>1, ZenonT(60)
    <3>4. \A f \in Frames : level'[f] = 4 => owner'[f] \in Spaces /\ top'[owner'[f]] = f
      <4> SUFFICES ASSUME NEW f \in Frames, level'[f] = 4
                   PROVE  owner'[f] \in Spaces /\ top'[owner'[f]] = f
        OBVIOUS
      <4>1. f # b
        BY <3>2, Zenon
      <4>2. level'[f] = level[f] /\ owner'[f] = owner[f]
        BY <2>3, <4>1, Zenon
      <4>3. owner[f] \in Spaces /\ top[owner[f]] = f
        BY <4>2, Zenon DEF TopInv
      <4>4. top' = top
        BY <2>1, Zenon
      <4> QED BY <4>2, <4>3, <4>4, Zenon
    <3>5. \A f \in Frames : owner'[f] = NULL => level'[f] = DATA
      BY <1>0, <2>3, ZenonT(60) DEF TopInv
    <3> QED BY <3>3, <3>4, <3>5, ZenonT(60) DEF TopInv
  <2>6. ASSUME NEW f \in Frames, NEW i \in Index, level'[f] \in 2 .. 4, table'[f][i] # NULL
        PROVE  /\ f # b /\ level'[f] = level[f] /\ owner'[f] = owner[f]
               /\ \/ f = cur[s] /\ i = k /\ table'[f][i] = b
                  \/ table'[f][i] = table[f][i] /\ table'[f][i] # b
    <3>1. f # b
      BY <2>6, <2>1, ZenonT(60)
    <3>2. level'[f] = level[f] /\ owner'[f] = owner[f]
      BY <3>1, <2>3, ZenonT(60)
    <3>3. CASE f = cur[s] /\ i = k
      BY <3>1, <3>2, <3>3, <2>1
    <3>4. CASE ~(f = cur[s] /\ i = k)
      <4>1. table'[f][i] = table[f][i]
        BY <3>1, <3>4, <2>1, ZenonT(60)
      <4>2. table[f][i] \in Frames /\ level[table[f][i]] \in 1 .. 4
        BY <4>1, <3>2, <2>6, LevelUse, ZenonT(60)
      <4> QED BY <4>1, <4>2, <3>1, <3>2, <2>4, ZenonT(60)
    <3> QED BY <3>3, <3>4, ZenonT(60)
  <2>7. LevelInv'
    <3> SUFFICES ASSUME NEW f \in Frames, NEW i \in Index, level'[f] \in 2 .. 4, table'[f][i] # NULL
                 PROVE  /\ table'[f][i] \in Frames
                        /\ level'[table'[f][i]] = level'[f] - 1
                        /\ owner'[table'[f][i]] =
                             IF level'[f] = 4 /\ i >= Half THEN kernel ELSE owner'[f]
      BY ZenonT(60) DEF LevelInv
    <3>1. CASE f = cur[s] /\ i = k /\ table'[f][i] = b
      BY <3>1, <2>1, <2>2, <2>3, <2>6, ZenonT(60)
    <3>2. CASE table'[f][i] = table[f][i] /\ table'[f][i] # b
      <4>1. level'[f] = level[f] /\ owner'[f] = owner[f]
        BY <2>6, Zenon
      <4>2. /\ table[f][i] \in Frames /\ level[table[f][i]] = level[f] - 1
            /\ owner[table[f][i]] = IF level[f] = 4 /\ i >= Half THEN kernel ELSE owner[f]
        BY <4>1, <3>2, LevelUse, ZenonT(60)
      <4>3. /\ level'[table[f][i]] = level[table[f][i]] /\ owner'[table[f][i]] = owner[table[f][i]]
        BY <4>2, <3>2, <2>3, ZenonT(60)
      <4> QED BY <4>1, <4>2, <4>3, <3>2, ZenonT(60)
    <3> QED BY <3>1, <3>2, <2>6, ZenonT(60)
  <2>8. UniqueInv'
    <3> SUFFICES ASSUME NEW f \in Frames, NEW g \in Frames, NEW i \in Index, NEW j \in Index
                 PROVE  UniqueAt(f, g, i, j)'
      BY ZenonT(60) DEF UniqueInv
    <3> SUFFICES ASSUME level'[f] \in 2 .. 4, level'[g] \in 2 .. 4,
                        table'[f][i] = table'[g][j], table'[f][i] # NULL
                 PROVE  i = j /\ (f = g \/ (level'[f] = 4 /\ level'[g] = 4 /\ i >= Half))
      BY ZenonT(60) DEF UniqueAt
    <3>a. /\ level'[f] = level[f]
          /\ \/ f = cur[s] /\ i = k /\ table'[f][i] = b
             \/ table'[f][i] = table[f][i] /\ table'[f][i] # b
      BY <2>6, ZenonT(60)
    <3>b. /\ level'[g] = level[g]
          /\ \/ g = cur[s] /\ j = k /\ table'[g][j] = b
             \/ table'[g][j] = table[g][j] /\ table'[g][j] # b
      <4>1. table'[g][j] # NULL
        OBVIOUS
      <4> QED BY <4>1, <2>6
    <3>1. CASE table'[f][i] = b
      BY <3>1, <3>a, <3>b, ZenonT(60)
    <3>2. CASE table'[f][i] # b
      <4>1. /\ level[f] \in 2 .. 4 /\ level[g] \in 2 .. 4
            /\ table[f][i] = table[g][j] /\ table[f][i] # NULL
        BY <3>2, <3>a, <3>b, ZenonT(60)
      <4>2. i = j /\ (f = g \/ (level[f] = 4 /\ level[g] = 4 /\ i >= Half))
        BY <4>1, UniqueUse, SMTT(40)
      <4> QED BY <3>a, <3>b, <4>2, ZenonT(60)
    <3> QED BY <3>1, <3>2, ZenonT(60)
  <2> QED BY <2>5, <2>7, <2>8, ZenonT(60)
<1>4. ASSUME NEW s \in Spaces, SetEntry(s) PROVE TopInv' /\ LevelInv' /\ UniqueInv'
  <2>1. /\ level[cur[s]] = 1 /\ owner' = owner /\ level' = level /\ top' = top
        /\ \A f \in Frames : f # cur[s] => table'[f] = table[f]
    BY <1>4, SetEntryFacts, ZenonT(60)
  <2>2. \A f \in Frames : level[f] \in 2 .. 4 => table'[f] = table[f]
    BY <2>1, SMTT(40)
  <2>3. TopInv'
    BY <2>1, ZenonT(60) DEF TopInv
  <2>4. LevelInv'
    BY <2>1, <2>2, SMTT(20) DEF LevelInv
  <2>5. UniqueInv'
    BY <2>1, <2>2, SMTT(20) DEF UniqueInv, UniqueAt
  <2> QED BY <2>3, <2>4, <2>5, SMTT(40)
<1> QED BY <1>1, <1>2, <1>3, <1>4, StepKinds


-----------------------------------------------------------------------------
(* The kernel first *)

\* Nothing that is allocated or entered above the lowest level goes away.
LEMMA GrowStep ==
  ASSUME IInv, [Next]_vars
  PROVE  /\ \A f \in Frames : owner[f] # NULL => owner'[f] = owner[f] /\ level'[f] = level[f]
         /\ \A t \in Spaces : top[t] # NULL => top'[t] = top[t]
         /\ \A f \in Frames, i \in Index :
              level[f] \in 2 .. 4 /\ table[f][i] # NULL => table'[f][i] = table[f][i]
<1> USE DEF IInv
<1> DEFINE Grown ==
         /\ \A f \in Frames : owner[f] # NULL => owner'[f] = owner[f] /\ level'[f] = level[f]
         /\ \A t \in Spaces : top[t] # NULL => top'[t] = top[t]
         /\ \A f \in Frames, i \in Index :
              level[f] \in 2 .. 4 /\ table[f][i] # NULL => table'[f][i] = table[f][i]
<1>1. CASE DataStep
  BY <1>1, Zenon DEF DataStep
<1>2. ASSUME NEW s \in Spaces, NewTop(s) PROVE Grown
  <2>1. PICK b \in Frames :
           /\ Fresh(s, b, 4) /\ top[s] = NULL
           /\ \A t \in Spaces : t # s => top'[t] = top[t]
           /\ \A f \in Frames : f # b => table'[f] = table[f]
    BY <1>2, NewTopFacts, SMTT(20)
  <2> QED BY <2>1, SMTT(20) DEF Fresh, DATA
<1>3. ASSUME NEW s \in Spaces, NewLevel(s) PROVE Grown
  <2>0. PICK b \in Frames, k \in Index : NewTable(s, b, k)
    BY <1>3, NewLevelFacts, Zenon
  <2>1. /\ Fresh(s, b, depth[s] - 1) /\ table[cur[s]][k] = NULL
        /\ \A i \in Index : i # k => table'[cur[s]][i] = table[cur[s]][i]
        /\ \A f \in Frames : f # b /\ f # cur[s] => table'[f] = table[f]
        /\ top' = top
    BY <2>0, ZenonT(60) DEF NewTable
  <2>2. \A f \in Frames : level[f] \in 2 .. 4 => f # b
    BY <2>1, SMTT(20) DEF Fresh, DATA
  <2>3. \A f \in Frames : owner[f] # NULL => owner'[f] = owner[f] /\ level'[f] = level[f]
    BY <2>1, Zenon DEF Fresh
  <2> QED BY <2>1, <2>2, <2>3, SMTT(20)
<1>4. ASSUME NEW s \in Spaces, SetEntry(s) PROVE Grown
  BY <1>4, SetEntryFacts, SMTT(40)
<1> QED BY <1>1, <1>2, <1>3, <1>4, StepKinds, Zenon

\* The kernel maps its pages before anybody else starts.
LEMMA ControlStep ==
  ASSUME IInv, [Next]_vars
  PROVE  /\ ret'[kernel] = "ready" /\ pc'[kernel] \notin {"load", "read", "run"}
         /\ pc'[kernel] = "ready" => top[kernel] # NULL
         /\ \A c \in Cpus : pc'[c] # "new" => pc'[kernel] = "ready"
         /\ \A c \in Cpus : pc[c] # "new" => pc'[c] # "new"
<1> USE DEF IInv
<1>0. /\ kernel \notin Cpus /\ kernel \in Spaces /\ Cpus \subseteq Spaces
      /\ \A s \in Spaces : s = kernel \/ s \in Cpus
  BY VmmAssumption, SMTT(20) DEF Spaces
<1>1. /\ ret[kernel] = "ready" /\ pc[kernel] \notin {"load", "read", "run"}
      /\ pc[kernel] = "ready" => top[kernel] # NULL
      /\ pc[kernel] = "map" => top[kernel] # NULL
      /\ \A c \in Cpus : pc[c] # "new" => pc[kernel] = "ready"
      /\ pc \in [Spaces -> {"new", "top", "map", "walk", "ready", "load", "read",
                             "run", "halted", "fault"}]
      /\ ret \in [Spaces -> {"ready", "load", "read", "run"}]
  BY <1>0, Zenon DEF KernelInv, WalkInv, WalkInvOf, Walking, TypeOK
<1>2. ASSUME NEW s \in Spaces, NEW w \in {"top", "map", "walk", "ready", "load", "read",
                                         "run", "halted", "fault"},
             pc' = [pc EXCEPT ![s] = w], ret'[kernel] = ret[kernel],
             s = kernel => pc[s] # "ready" /\ w \notin {"load", "read", "run"},
             s = kernel /\ w = "ready" => pc[s] = "map",
             s # kernel => pc[kernel] = "ready"
      PROVE  /\ ret'[kernel] = "ready" /\ pc'[kernel] \notin {"load", "read", "run"}
             /\ pc'[kernel] = "ready" => top[kernel] # NULL
             /\ \A c \in Cpus : pc'[c] # "new" => pc'[kernel] = "ready"
             /\ \A c \in Cpus : pc[c] # "new" => pc'[c] # "new"
  <2>1. CASE s = kernel
    BY <1>0, <1>1, <1>2, <2>1
  <2>2. CASE s # kernel
    BY <1>0, <1>1, <1>2, <2>2
  <2> QED BY <2>1, <2>2, SMTT(20)
<1>3. ASSUME pc' = pc, ret' = ret
      PROVE  /\ ret'[kernel] = "ready" /\ pc'[kernel] \notin {"load", "read", "run"}
             /\ pc'[kernel] = "ready" => top[kernel] # NULL
             /\ \A c \in Cpus : pc'[c] # "new" => pc'[kernel] = "ready"
             /\ \A c \in Cpus : pc[c] # "new" => pc'[c] # "new"
  BY <1>1, <1>3
<1>4. \A s \in Spaces : s # kernel /\ pc[s] # "new" => pc[kernel] = "ready"
  BY <1>0, <1>1
<1> DEFINE G == /\ ret'[kernel] = "ready" /\ pc'[kernel] \notin {"load", "read", "run"}
                /\ pc'[kernel] = "ready" => top[kernel] # NULL
                /\ \A c \in Cpus : pc'[c] # "new" => pc'[kernel] = "ready"
                /\ \A c \in Cpus : pc[c] # "new" => pc'[c] # "new"
<1>5. ASSUME NEW s \in Spaces, NewPagemap(s) PROVE G
  <2>1. /\ pc[s] = "new" /\ pc' = [pc EXCEPT ![s] = "top"] /\ ret' = ret
        /\ s # kernel => pc[kernel] = "ready"
    BY <1>5, SMTT(40) DEF NewPagemap, Goto
  <2> QED BY <1>2, <2>1, Zenon
<1>6. ASSUME NEW s \in Spaces, NewTop(s) PROVE G
  <2>1. pc[s] = "top" /\ pc' = [pc EXCEPT ![s] = "map"] /\ ret' = ret
    BY <1>6, SMTT(40) DEF NewTop, Goto
  <2> QED BY <1>2, <1>4, <2>1, Zenon
<1>7. ASSUME NEW s \in Spaces, MapLock(s) PROVE G
  <2>1. pc[s] = "map" /\ pc' = [pc EXCEPT ![s] = "walk"] /\ ret' = ret
    BY <1>7 DEF MapLock
  <2> QED BY <1>2, <1>4, <2>1, Zenon
<1>8. ASSUME NEW s \in Spaces, NextLevel(s) \/ NewLevel(s) PROVE G
  BY <1>3, <1>8, Zenon DEF NextLevel, NewLevel, Descend
<1>9. ASSUME NEW s \in Spaces, SetEntry(s) PROVE G
  <2>1. pc[s] = "walk" /\ pc' = [pc EXCEPT ![s] = "map"] /\ ret' = ret
    BY <1>9, SMTT(40) DEF SetEntry
  <2> QED BY <1>2, <1>4, <2>1, Zenon
<1>10. ASSUME NEW s \in Spaces, MapDone(s) PROVE G
  <2>1. pc[s] = "map" /\ pc' = [pc EXCEPT ![s] = ret[s]] /\ ret' = ret
    BY <1>10 DEF MapDone, Goto
  <2>2. ret[s] \in {"top", "map", "walk", "ready", "load", "read", "run", "halted", "fault"}
        /\ (s = kernel => ret[s] = "ready")
    BY <1>1, SMTT(40)
  <2> QED BY <1>2, <1>4, <2>1, <2>2, Zenon
<1>11. ASSUME NEW s \in Spaces, OutOfMemory(s) PROVE G
  <2>1. /\ pc' = [pc EXCEPT ![s] = "fault"] /\ ret' = ret
        /\ s = kernel => pc[s] \in {"top", "new", "walk"}
        /\ s # kernel /\ pc[s] = "new" => pc[kernel] = "ready"
    BY <1>11, SMTT(40) DEF OutOfMemory, More
  <2> QED BY <1>2, <1>4, <2>1, Zenon
<1>12. ASSUME NEW c \in Cpus, NEW w \in {"map", "load", "halted"}, pc[c] # "new",
              pc' = [pc EXCEPT ![c] = w], ret'[kernel] = ret[kernel]
       PROVE  G
  BY <1>0, <1>2, <1>4, <1>12, Zenon
<1>13. ASSUME NEW c \in Cpus, LoadSegment(c) PROVE G
  <2>1. pc[c] # "new" /\ pc' = [pc EXCEPT ![c] = "map"] /\ ret'[kernel] = ret[kernel]
    BY <1>0, <1>13, Zenon DEF LoadSegment, More, MapPages, TypeOK
  <2> QED BY <1>12, <2>1, Zenon
<1>14. ASSUME NEW c \in Cpus, ReadSegment(c) PROVE G
  <2>1. /\ pc[c] # "new" /\ ret'[kernel] = ret[kernel]
        /\ pc' = [pc EXCEPT ![c] = "load"] \/ pc' = [pc EXCEPT ![c] = "halted"]
    BY <1>14, Zenon DEF ReadSegment, Goto
  <2> QED BY <1>12, <2>1
<1>15. ASSUME NEW c \in Cpus, OtherHeader(c) PROVE G
  <2>1. /\ pc[c] # "new" /\ ret'[kernel] = ret[kernel]
        /\ pc' = [pc EXCEPT ![c] = "load"] \/ pc' = [pc EXCEPT ![c] = "halted"]
    BY <1>15, Zenon DEF OtherHeader, More
  <2> QED BY <1>12, <2>1
<1>16. ASSUME NEW c \in Cpus, UserStack(c) PROVE G
  <2>1. pc[c] # "new" /\ pc' = [pc EXCEPT ![c] = "map"] /\ ret'[kernel] = ret[kernel]
    BY <1>0, <1>16, Zenon DEF UserStack, MapPages, TypeOK
  <2> QED BY <1>12, <2>1, Zenon
<1>17. ASSUME NEW c \in Cpus, Mmap(c) PROVE G
  <2>1. pc[c] # "new" /\ pc' = [pc EXCEPT ![c] = "map"] /\ ret'[kernel] = ret[kernel]
    BY <1>0, <1>17, Zenon DEF Mmap, MapPages, TypeOK
  <2> QED BY <1>12, <2>1, Zenon
<1>18. CASE UNCHANGED vars
  BY <1>3, <1>18, Zenon DEF vars
<1> QED BY <1>5, <1>6, <1>7, <1>8, <1>9, <1>10, <1>11, <1>13, <1>14, <1>15, <1>16, <1>17, <1>18, Zenon
        DEF Next, MapStep

\* All spaces keep the kernel's half.
LEMMA KernelStep == ASSUME IInv, [Next]_vars PROVE KernelInv'
<1> USE DEF IInv
<1>0. /\ kernel \notin Cpus /\ kernel \in Spaces /\ Cpus \subseteq Spaces
      /\ NULL \notin Spaces /\ \A s \in Spaces : s = kernel \/ s \in Cpus
  BY VmmAssumption, Zenon DEF Spaces
<1>1. /\ \A c \in Cpus : pc[c] # "new" => pc'[c] # "new"
      /\ \A t \in Spaces : top[t] # NULL => top'[t] = top[t]
  BY ControlStep, GrowStep, Zenon
<1> DEFINE Same(c) == top'[c] # NULL =>
             /\ pc'[c] # "new"
             /\ \A i \in Index : i >= Half => table'[top'[c]][i] = table'[top'[kernel]][i]
<1>2. ASSUME NEW c \in Cpus, top[c] # NULL
      PROVE  /\ pc[kernel] = "ready" /\ pc[c] # "new" /\ pc'[c] # "new"
             /\ top'[c] = top[c] /\ top'[kernel] = top[kernel]
             /\ top[c] \in Frames /\ level[top[c]] = 4 /\ owner[top[c]] = c
             /\ top[kernel] \in Frames /\ level[top[kernel]] = 4 /\ owner[top[kernel]] = kernel
             /\ \A i \in Index : i >= Half => table[top[c]][i] = table[top[kernel]][i]
  <2>1. pc[c] # "new" /\ pc[kernel] = "ready" /\ top[kernel] # NULL
    BY <1>2, Zenon DEF KernelInv
  <2> QED BY <1>0, <1>1, <1>2, <2>1, Zenon DEF KernelInv, TopInv
<1>3. ASSUME NEW c \in Cpus, DataStep PROVE Same(c)
  BY <1>2, <1>3, SMTT(20) DEF DataStep
<1>4. ASSUME NEW c \in Cpus, NEW s \in Spaces, NewTop(s) PROVE Same(c)
  <2>1. PICK b \in Frames :
           /\ Fresh(s, b, 4) /\ top[s] = NULL /\ top'[s] = b
           /\ \A t \in Spaces : t # s => top'[t] = top[t]
           /\ \A f \in Frames : f # b => table'[f] = table[f]
           /\ \A i \in Index :
                table'[b][i] = IF s # kernel /\ i >= Half THEN table[top[kernel]][i] ELSE NULL
           /\ s # kernel => /\ pc[kernel] = "ready" /\ top[kernel] \in Frames
                            /\ level[top[kernel]] = 4 /\ owner[top[kernel]] = kernel
           /\ s = kernel => \A d \in Cpus : pc[d] = "new"
    BY <1>4, NewTopFacts, Zenon
  <2>2. owner[b] = NULL
    BY <2>1, Zenon DEF Fresh
  <2>a. /\ s # kernel => top[kernel] \in Frames /\ owner[top[kernel]] = kernel
        /\ \A t \in Spaces : t # s => top'[t] = top[t]
        /\ \A f \in Frames : f # b => table'[f] = table[f]
    BY <2>1, Zenon
  <2>3. CASE s = kernel
    <3>1. top[c] = NULL /\ top'[c] = top[c]
      BY <1>0, <1>2, <2>1, <2>3, Zenon
    <3> QED BY <3>1, Zenon
  <2>4. CASE s = c
    <3>1. pc[c] # "new"
      BY <1>4, <2>4, Zenon DEF NewTop, Goto
    <3>2. top[kernel] # b /\ top'[kernel] = top[kernel]
      BY <1>0, <2>a, <2>2, <2>4, Zenon
    <3> QED BY <1>0, <1>1, <2>1, <2>4, <3>1, <3>2, SMTT(20)
  <2>5. CASE s # kernel /\ s # c
    <3>1. top[kernel] # b /\ top'[kernel] = top[kernel] /\ top'[c] = top[c]
      BY <1>0, <2>a, <2>2, <2>5, Zenon
    <3>2. top[c] # NULL => top[c] # b
      <4>1. top[c] # NULL => owner[top[c]] = c
        BY <1>2, Zenon
      <4> QED BY <1>0, <2>2, <4>1, Zenon
    <3> QED BY <1>2, <2>a, <3>1, <3>2, SMTT(20)
  <2> QED BY <2>3, <2>4, <2>5, Zenon
<1>5. ASSUME NEW c \in Cpus, NEW s \in Spaces, NewLevel(s) PROVE Same(c)
  <2>0. PICK b \in Frames, k \in Index : NewTable(s, b, k)
    BY <1>5, NewLevelFacts, Zenon
  <2>1. /\ Fresh(s, b, depth[s] - 1) /\ pc[s] = "walk"
        /\ \A i \in Index : i # k => table'[cur[s]][i] = table[cur[s]][i]
        /\ \A f \in Frames : f # b /\ f # cur[s] => table'[f] = table[f]
        /\ depth[s] = 4 /\ k >= Half => s = kernel
        /\ top' = top
    BY <2>0, ZenonT(60) DEF NewTable
  <2>2. owner[b] = NULL /\ cur[s] \in Frames /\ owner[cur[s]] = s /\ level[cur[s]] = depth[s]
    BY <2>1, WalkFacts, Zenon DEF Fresh
  <2>3. CASE s = kernel
    BY <1>2, <2>1, <2>3, Zenon
  <2>4. CASE s # kernel
    <3> SUFFICES ASSUME top[c] # NULL, NEW i \in Index, i >= Half
                 PROVE  /\ pc'[c] # "new"
                        /\ table'[top[c]][i] = table[top[c]][i]
                        /\ table'[top[kernel]][i] = table[top[kernel]][i]
      BY <1>2, <2>1, SMTT(20)
    <3>0. owner[top[c]] = c /\ owner[top[kernel]] = kernel
      BY <1>2, Zenon
    <3>1. top[kernel] # b /\ top[kernel] # cur[s] /\ top[c] # b
      BY <1>0, <2>2, <2>4, <3>0, Zenon
    <3>2. top[c] = cur[s] => i # k
      BY <1>2, <2>1, <2>2, <2>4, SMTT(20)
    <3> QED BY <1>2, <2>1, <3>1, <3>2, Zenon
  <2> QED BY <2>3, <2>4, Zenon
<1>6. ASSUME NEW c \in Cpus, NEW s \in Spaces, SetEntry(s) PROVE Same(c)
  <2>1. /\ level[cur[s]] = 1 /\ top' = top
        /\ \A f \in Frames : f # cur[s] => table'[f] = table[f]
    BY <1>6, SetEntryFacts, Zenon
  <2>2. \A f \in Frames : level[f] = 4 => f # cur[s]
    BY <2>1, SMTT(20)
  <2>3. CASE top[c] # NULL
    <3>1. /\ pc'[c] # "new" /\ top'[c] = top[c] /\ top'[kernel] = top[kernel]
          /\ top[c] \in Frames /\ level[top[c]] = 4 /\ top[kernel] \in Frames /\ level[top[kernel]] = 4
          /\ \A i \in Index : i >= Half => table[top[c]][i] = table[top[kernel]][i]
      BY <1>2, <2>3, Zenon
    <3>2. table'[top[c]] = table[top[c]] /\ table'[top[kernel]] = table[top[kernel]]
      BY <2>1, <2>2, <3>1, Zenon
    <3> QED BY <3>1, <3>2, Zenon
  <2>4. CASE top[c] = NULL
    BY <2>1, <2>4, Zenon
  <2> QED BY <2>3, <2>4, Zenon
<1>7. \A c \in Cpus : Same(c)
  BY <1>3, <1>4, <1>5, <1>6, StepKinds, Zenon
<1>8. /\ ret'[kernel] = "ready" /\ pc'[kernel] \notin {"load", "read", "run"}
      /\ pc'[kernel] = "ready" => top'[kernel] # NULL
      /\ \A c \in Cpus : pc'[c] # "new" => pc'[kernel] = "ready"
  BY <1>0, <1>1, ControlStep, SMTT(20)
<1> QED BY <1>7, <1>8, SMTT(20) DEF KernelInv
-----------------------------------------------------------------------------
(* The walks *)

\* One level down is where the index leads.
LEMMA WayDown ==
  ASSUME NEW s, NEW p, NEW d \in 2 .. 4
  PROVE  /\ OnWay(s, p, d - 1) = At(OnWay(s, p, d), p[d])
         /\ OnWay(s, p, d - 1)' = At(OnWay(s, p, d), p[d])'
<1>1. CASE d = 4
  BY <1>1, SMTT(20) DEF OnWay, Pml3
<1>2. CASE d = 3
  BY <1>2, SMTT(20) DEF OnWay, Pml2
<1>3. CASE d = 2
  BY <1>3, SMTT(20) DEF OnWay, Pml1
<1> QED BY <1>1, <1>2, <1>3, SMTT(20)

\* A way that is there stays.
LEMMA WayStays ==
  ASSUME IInv, [Next]_vars, NEW s \in Spaces, NEW p \in Pages, NEW d \in 1 .. 4,
         OnWay(s, p, d) # NULL
  PROVE  OnWay(s, p, d)' = OnWay(s, p, d)
<1> USE DEF IInv
<1>0. /\ \A t \in Spaces : top[t] # NULL => top'[t] = top[t]
      /\ \A f \in Frames, i \in Index :
           level[f] \in 2 .. 4 /\ table[f][i] # NULL => table'[f][i] = table[f][i]
  BY GrowStep, Zenon
<1>1. /\ d = 4 => OnWay(s, p, d) = top[s] /\ OnWay(s, p, d)' = top'[s]
      /\ d = 3 => OnWay(s, p, d) = Pml3(s, p) /\ OnWay(s, p, d)' = Pml3(s, p)'
      /\ d = 2 => OnWay(s, p, d) = Pml2(s, p) /\ OnWay(s, p, d)' = Pml2(s, p)'
      /\ d = 1 => OnWay(s, p, d) = Pml1(s, p) /\ OnWay(s, p, d)' = Pml1(s, p)'
  BY SMTT(20) DEF OnWay
<1>2. top[s] # NULL
  <2>1. d = 4 \/ d = 3 \/ d = 2 \/ d = 1
    BY SMTT(20)
  <2>2. /\ Pml3(s, p) # NULL => top[s] # NULL
        /\ Pml2(s, p) # NULL => Pml3(s, p) # NULL
        /\ Pml1(s, p) # NULL => Pml2(s, p) # NULL
    BY Zenon DEF Pml3, Pml2, Pml1, At
  <2> QED BY <1>1, <2>1, <2>2, SMTT(20)
<1>3. /\ Pml3(s, p) # NULL => Pml3(s, p)' = Pml3(s, p)
      /\ Pml2(s, p) # NULL => Pml2(s, p)' = Pml2(s, p)
      /\ Pml1(s, p) # NULL => Pml1(s, p)' = Pml1(s, p)
  BY <1>0, <1>2, WayGrows, Zenon
<1> QED BY <1>0, <1>1, <1>2, <1>3, SMTT(20)

\* A walk that does not move stays right.
LEMMA WalkStays ==
  ASSUME IInv, [Next]_vars, NEW t \in Spaces, pc[t] = "walk",
         todo'[t] = todo[t], cur'[t] = cur[t], depth'[t] = depth[t]
  PROVE  Walking(t)'
<1> USE DEF IInv
<1>1. Walking(t) /\ NULL \notin Frames /\ NULL \notin Spaces
  <2>1. Walking(t)
    BY Zenon DEF WalkInv, WalkInvOf
  <2>2. NULL \notin Frames
    BY VmmAssumption, LimitAssumption, SMTT(20) DEF Frames
  <2>3. NULL \notin Spaces
    BY VmmAssumption, Zenon
  <2> QED BY <2>1, <2>2, <2>3, Zenon
<1>2. PageOf(virt(t)) \in Pages /\ (virt(t))' = virt(t)
  <2>1. PageOf(virt(t)) \in Pages
    BY WalkFacts, Zenon
  <2>2. (virt(t))' = virt(t)
    BY Zenon DEF virt
  <2> QED BY <2>1, <2>2, Zenon
<1>3. OnWay(t, PageOf(virt(t)), depth[t])' = OnWay(t, PageOf(virt(t)), depth[t])
  <2>1. OnWay(t, PageOf(virt(t)), depth[t]) # NULL
    BY <1>1, Zenon DEF Walking
  <2> DEFINE p == PageOf(virt(t))
             d == depth[t]
  <2>2. p \in Pages /\ d \in 1 .. 4 /\ OnWay(t, p, d) # NULL
    BY <1>1, <1>2, <2>1, Zenon DEF Walking
  <2>3. PageOf(virt(t))' = p /\ depth'[t] = d
    BY <1>2, SMTT(20) DEF PageOf
  <2>4. ASSUME NEW q \in Pages, NEW e \in 1 .. 4, OnWay(t, q, e) # NULL
        PROVE  OnWay(t, q, e)' = OnWay(t, q, e)
    BY <2>4, WayStays, SMTT(20)
  <2> HIDE DEF p, d
  <2>5. PICK q \in Pages, e \in 1 .. 4 : q = p /\ e = d
    BY <2>2, ZenonT(30)
  <2>6. OnWay(t, q, e)' = OnWay(t, q, e)
    BY <2>2, <2>4, <2>5, Zenon
  <2> QED BY <2>3, <2>5, <2>6, Zenon DEF OnWay, Pml1, Pml2, Pml3, At, p, d
<1>4. level'[cur[t]] = level[cur[t]] /\ owner'[cur[t]] = owner[cur[t]]
  BY <1>1, GrowStep, ZenonT(30) DEF Walking
<1> QED BY <1>1, <1>3, <1>4, Zenon DEF Walking

\* A space that does not move keeps its part of WalkInv.
LEMMA Bystander ==
  ASSUME IInv, [Next]_vars, NEW t \in Spaces, top'[t] = top[t], pc'[t] = pc[t], ret'[t] = ret[t],
         todo'[t] = todo[t], cur'[t] = cur[t], depth'[t] = depth[t],
         t \in Cpus => headers'[t] = headers[t]
  PROVE  WalkInvOf(t)'
<1>1. WalkInvOf(t)
  BY SMTT(40) DEF IInv, WalkInv
<1>2. pc[t] = "walk" => Walking(t)'
  BY WalkStays, ZenonT(60)
<1> QED BY <1>1, <1>2, ZenonT(30) DEF WalkInvOf
=============================================================================
