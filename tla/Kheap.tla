------------------------------- MODULE Kheap --------------------------------
(***************************************************************************)
(* The kernel heap, src/memory/kheap.c: a list of free blocks under         *)
(* kheap_lock, refilled with whole frames from the physical memory manager *)
(* (whose pmm_malloc is the single step that Pmm is proved to implement).  *)
(*                                                                         *)
(* A block is named by the address of its header, with HHDM_OFFSET taken   *)
(* off; HEADER_SIZE bytes of header are followed by size bytes for the     *)
(* caller.  A call holds kheap_lock from its first to its last access, so  *)
(* it is one step, except that kheap_alloc releases the lock between the   *)
(* refill and the search it starts over.                                   *)
(***************************************************************************)
EXTENDS FrameRuns, Sequences, FiniteSets

CONSTANTS FRAME_SIZE,
          HEADER_SIZE,  \* 24
          NODE_SIZE,    \* sizeof(alloc_node_t), 32
          Sizes,        \* byte counts asked for
          MaxBlocks     \* bound: blocks in use at a time

ASSUME HeapAssumption == /\ FRAME_SIZE \in Nat \ {0} /\ 1 \in Frames
                         /\ HEADER_SIZE \in 1 .. FRAME_SIZE /\ NODE_SIZE \in Nat
                         /\ Sizes \subseteq Nat \ {0}
                         /\ "nobody" \notin Cpus

VARIABLES free_list,   \* the addresses of the free blocks, in list order
          size,        \* the size field of every block header
          used,        \* used[b]: who has block b; "nobody" after a realloc
          kheap_lock,
          frames,      \* frames that the physical memory manager has free
          heap,        \* frames that the heap has obtained
          pc,
          want,        \* the size asked for
          from,        \* the block that kheap_realloc replaces, or None
          merged       \* history: coalesce_dll has merged two blocks

vars == <<free_list, size, used, kheap_lock, frames, heap, pc, want, from, merged>>

None == -1
Owners == Cpus \cup {"nobody"}

\* The block that follows b in memory.
EndOf(b) == b + HEADER_SIZE + size[b]

Init == /\ free_list = <<FRAME_SIZE>>
        /\ size = [b \in {FRAME_SIZE} |-> FRAME_SIZE - HEADER_SIZE]
        /\ used = [b \in {} |-> "nobody"]
        /\ kheap_lock = 0
        /\ frames = Frames \ {0, 1}
        /\ heap = {1}
        /\ pc = [c \in Cpus |-> "ready"]
        /\ want = [c \in Cpus |-> 0]
        /\ from = [c \in Cpus |-> None]
        /\ merged = FALSE

\* c is at this place.  Once coalesce_dll has made a free block overlap others,
\* callers overwrite headers and what the heap does next is not followed.
At(c, place) == pc[c] = place /\ ~merged

With(f, b, v) == [x \in DOMAIN f \cup {b} |-> IF x = b THEN v ELSE f[x]]
Without(f, b) == [x \in DOMAIN f \ {b} |-> f[x]]

\* The blocks of a list, the list with b linked in at place i, and the list with the
\* block at place i unlinked.
Members(l) == {l[j] : j \in DOMAIN l}
Linked(l, i, b) == [j \in 1 .. Len(l) + 1 |->
                      IF j < i THEN l[j] ELSE IF j = i THEN b ELSE l[j - 1]]
Unlinked(l, i) == [j \in 1 .. Len(l) - 1 |-> IF j < i THEN l[j] ELSE l[j + 1]]

-----------------------------------------------------------------------------
(* coalesce_dll: merge a block into its predecessor in the list when it    *)
(* starts where prevBlock + prevBlock->size + HEADER_SIZE points; this is  *)
(* arithmetic on alloc_node_t pointers, in units of NODE_SIZE.             *)

MergeNext(acc, b) ==
  LET p == acc.prev
  IN IF p # None /\ p + NODE_SIZE * (acc.size[p] + HEADER_SIZE) = b
     THEN [list |-> acc.list, prev |-> p,
           size |-> Without([acc.size EXCEPT ![p] = @ + acc.size[b] + HEADER_SIZE], b)]
     ELSE [list |-> Append(acc.list, b), prev |-> b, size |-> acc.size]

Coalesced(l, s) ==
  LET merge[i \in 0 .. Len(l)] == IF i = 0 THEN [list |-> <<>>, prev |-> None, size |-> s]
                                  ELSE MergeNext(merge[i - 1], l[i])
  IN merge[Len(l)]

SetCoalesced(l, s) == LET r == Coalesced(l, s)
                      IN /\ free_list' = r.list /\ size' = r.size
                         /\ merged' = (merged \/ r.list # l)

-----------------------------------------------------------------------------
\* kheap_alloc(s), kheap_calloc(s) or kheap_realloc(NULL, s) is called.
Alloc(c) == /\ At(c, "ready")
            /\ Cardinality(DOMAIN used) < MaxBlocks
            /\ \E s \in Sizes : want' = [want EXCEPT ![c] = s]
            /\ pc' = [pc EXCEPT ![c] = "alloc"]
            /\ UNCHANGED <<free_list, size, used, kheap_lock, frames, heap, from, merged>>

\* Fault: the block is enlarged where it is.
ReallocInPlace(c) == /\ At(c, "ready")
                     /\ \E b \in DOMAIN used, s \in Sizes :
                          /\ used[b] = c /\ s > size[b]
                          /\ size' = [size EXCEPT ![b] = s]
                     /\ UNCHANGED <<free_list, used, kheap_lock, frames, heap, pc,
                                    want, from, merged>>

\* kheap_realloc(b, s) for a larger s: the old block is copied and never freed.
Realloc(c) == /\ At(c, "ready")
              /\ Cardinality(DOMAIN used) < MaxBlocks
              /\ \E b \in DOMAIN used, s \in Sizes :
                   /\ used[b] = c /\ s > size[b]
                   /\ want' = [want EXCEPT ![c] = s]
                   /\ from' = [from EXCEPT ![c] = b]
              /\ pc' = [pc EXCEPT ![c] = "alloc"]
              /\ UNCHANGED <<free_list, size, used, kheap_lock, frames, heap, merged>>

Fits(c) == {i \in DOMAIN free_list : size[free_list[i]] >= want[c]}
IsFirst(i, S) == i \in S /\ \A j \in S : i <= j

\* Faults: a block is split when the rest has no room for a header; the header
\* of the rest is not subtracted from its size.
AllocFitSplit(c, least, header) ==
  /\ At(c, "alloc") /\ kheap_lock = 0
  /\ \E i \in DOMAIN free_list :
       LET b    == free_list[i]
           rest == size[b] - want[c]
           new  == b + HEADER_SIZE + want[c]
       IN /\ IsFirst(i, Fits(c))
          /\ rest >= least
          /\ free_list' = [free_list EXCEPT ![i] = new]
          /\ size' = With([size EXCEPT ![b] = want[c]], new, rest - header)
          /\ used' = With(used, b, c)
  /\ pc' = [pc EXCEPT ![c] = "ready"]
  /\ want' = [want EXCEPT ![c] = 0]
  /\ from' = [from EXCEPT ![c] = None]
  /\ UNCHANGED <<kheap_lock, frames, heap, merged>>
AllocFitTightSplit(c) == AllocFitSplit(c, 0, HEADER_SIZE)
AllocFitLongRest(c) == AllocFitSplit(c, HEADER_SIZE, 0)

\* The first block that fits is split if the rest has room for a header, and
\* leaves the list.
AllocFit(c) ==
  /\ At(c, "alloc") /\ kheap_lock = 0
  /\ \E i \in DOMAIN free_list :
       LET b    == free_list[i]
           rest == size[b] - want[c]
           new  == b + HEADER_SIZE + want[c]
       IN /\ IsFirst(i, Fits(c))
          /\ IF rest >= HEADER_SIZE
             THEN /\ free_list' = [free_list EXCEPT ![i] = new]
                  /\ size' = With([size EXCEPT ![b] = want[c]], new, rest - HEADER_SIZE)
             ELSE free_list' = Unlinked(free_list, i) /\ UNCHANGED size
          /\ used' = With([x \in DOMAIN used |->
                             IF x = from[c] THEN "nobody" ELSE used[x]], b, c)
  /\ pc' = [pc EXCEPT ![c] = "ready"]
  /\ want' = [want EXCEPT ![c] = 0]
  /\ from' = [from EXCEPT ![c] = None]
  /\ UNCHANGED <<kheap_lock, frames, heap, merged>>

\* Nothing fits: take frames for the block and its header, append them to the
\* list as one block, coalesce, unlock and search again.  When there are no
\* frames, add_block writes to HHDM_OFFSET, which is not mapped: the processor
\* stops with the lock held.
AllocGrow(c) ==
  LET n == (want[c] + HEADER_SIZE + FRAME_SIZE - 1) \div FRAME_SIZE
  IN /\ At(c, "alloc") /\ kheap_lock = 0
     /\ Fits(c) = {}
     /\ \/ \E f \in Frames :
             /\ IsFirstFit(frames, f, n)
             /\ frames' = frames \ Run(f, n)
             /\ heap' = heap \cup Run(f, n)
             /\ SetCoalesced(Append(free_list, f * FRAME_SIZE),
                  With(size, f * FRAME_SIZE, n * FRAME_SIZE - HEADER_SIZE))
             /\ UNCHANGED <<kheap_lock, pc>>
        \/ /\ \A f \in Frames : ~IsFirstFit(frames, f, n)
           /\ kheap_lock' = 1
           /\ pc' = [pc EXCEPT ![c] = "stopped"]
           /\ UNCHANGED <<free_list, size, frames, heap, merged>>
     /\ UNCHANGED <<used, want, from>>

\* kheap_free hands a block to pmm_free instead of the list if it is large and
\* the address HEADER_SIZE below its header is the start of a frame.
FreedAsFrames(b) == /\ size[b] + NODE_SIZE >= FRAME_SIZE
                    /\ (b - HEADER_SIZE) % FRAME_SIZE = 0

\* kheap_free into the list: before the first block at a higher address, at the
\* front if there is none.
Free(c) ==
  /\ At(c, "ready") /\ kheap_lock = 0
  /\ \E b \in DOMAIN used :
       /\ used[b] = c /\ ~FreedAsFrames(b)
       /\ LET above == {i \in DOMAIN free_list : free_list[i] > b}
          IN \E i \in 1 .. Len(free_list) + 1 :
               /\ IF above = {} THEN i = 1 ELSE IsFirst(i, above)
               /\ SetCoalesced(Linked(free_list, i, b), size)
       /\ used' = Without(used, b)
  /\ UNCHANGED <<kheap_lock, frames, heap, pc, want, from>>

\* The address for pmm_free is again arithmetic on alloc_node_t pointers: it
\* subtracts NODE_SIZE * HHDM_OFFSET and points outside of all memory.  Clearing
\* its bit in the bitmap faults, and the processor stops with the lock held.
FreeFrames(c) ==
  /\ At(c, "ready") /\ kheap_lock = 0
  /\ \E b \in DOMAIN used : used[b] = c /\ FreedAsFrames(b)
  /\ kheap_lock' = 1
  /\ pc' = [pc EXCEPT ![c] = "fault"]
  /\ UNCHANGED <<free_list, size, used, frames, heap, want, from, merged>>

\* spinlock_acquire gives up on a lock that is not released: the processor
\* prints "deadlock" and stops in assert(0).
Deadlocked(c) == /\ At(c, "ready") \/ At(c, "alloc")
                 /\ kheap_lock = 1
                 /\ pc' = [pc EXCEPT ![c] = "deadlock"]
                 /\ UNCHANGED <<free_list, size, used, kheap_lock, frames, heap,
                                want, from, merged>>

Next == \E c \in Cpus : \/ Alloc(c) \/ Realloc(c) \/ AllocFit(c) \/ AllocGrow(c)
                        \/ Free(c) \/ FreeFrames(c) \/ Deadlocked(c)

Spec == Init /\ [][Next]_vars

-----------------------------------------------------------------------------
FreeBlocks == Members(free_list)
Blocks == FreeBlocks \cup DOMAIN used

TypeOK == /\ free_list \in Seq(Nat) /\ DOMAIN size \subseteq Nat
          /\ \A b \in DOMAIN size : size[b] \in Nat
          /\ \A b \in DOMAIN used : used[b] \in Owners
          /\ Blocks \subseteq DOMAIN size
          /\ kheap_lock \in {0, 1} /\ merged \in BOOLEAN
          /\ frames \subseteq Frames /\ heap \subseteq Frames
          /\ \A c \in Cpus : pc[c] \in {"ready", "alloc", "stopped", "fault", "deadlock"}
          /\ \A c \in Cpus : want[c] \in Sizes \cup {0}
          /\ \A c \in Cpus : from[c] \in DOMAIN used \cup {None}

\* Whether a byte belongs to a block, and the bytes at which that may change.
InBlock(x) == \E b \in Blocks : b <= x /\ x < EndOf(b)
Edges == Blocks \cup {EndOf(b) : b \in Blocks} \cup {f * FRAME_SIZE : f \in 0 .. Limit}

\* As long as coalesce_dll has merged nothing: whenever a caller can enter the
\* heap, its frames are cut into blocks without gap or overlap.  No two blocks,
\* free or in use, share a byte, and the bytes of all blocks are those of the
\* frames obtained.
Tiled == kheap_lock = 0 /\ ~merged =>
         /\ FreeBlocks \cap DOMAIN used = {}
         /\ \A i, j \in DOMAIN free_list : free_list[i] = free_list[j] => i = j
         /\ \A a, b \in Blocks : a < b => EndOf(a) <= b
         /\ \A x \in Edges : InBlock(x) <=> x \div FRAME_SIZE \in heap

\* Splitting and refilling change free blocks only: a block in use keeps its
\* place and its size until its owner frees it, or coalesce_dll merges blocks.
UsedBlocksStay ==
  [][~merged => \A b \in DOMAIN used : b \in DOMAIN used' => size'[b] = size[b]]_vars

\* A block that is handed out is no longer part of anything in the free list
\* ("remove block from list since its getting allocated").
UsedBlocksNotFree ==
  \A f \in FreeBlocks, u \in DOMAIN used : EndOf(f) <= u \/ EndOf(u) <= f
=============================================================================
