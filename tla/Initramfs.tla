----------------------------- MODULE Initramfs ------------------------------
(***************************************************************************)
(* initramfs_init (src/fs/initramfs.c): the walk over the tar archive that *)
(* the boot loader has left in memory.  Every file and directory is created *)
(* in the VFS, and the frames behind the reader are given back to the       *)
(* physical memory manager on the way.                                     *)
(*                                                                         *)
(* Positions count sectors of 512 bytes from the start of the archive, which*)
(* is the start of a frame.  vfs_create_node stores the pointer it is given *)
(* as the key of the parent's hashmap, and basename returns a pointer into *)
(* the tar header: a node is found as long as its header is not overwritten.*)
(* An archive lists a directory before what is in it, and no name twice.   *)
(***************************************************************************)
EXTENDS Integers, Sequences

CONSTANT Archives  \* sequences of entries: kind, sectors of data, and the
                   \* number of the directory the entry is in (0: the root)

EntryKinds == {"file", "dir", "other"}

ASSUME ArchivesAssumption ==
  \A a \in Archives : /\ a \in Seq([kind : EntryKinds, sectors : Nat, parent : Nat])
                      /\ \A i \in DOMAIN a : a[i].parent < i

VARIABLES archive,
          headers,  \* headers[i]: where entry i, already visited, starts
          pos,      \* current_file
          free,     \* frames given back and not yet allocated again
          taken,    \* frames given back and since allocated and overwritten
          stage

walk == <<archive, headers, pos, free, taken, stage>>

FrameOf(s) == s \div 8

WalkInit == /\ archive \in Archives
            /\ headers = <<>> /\ pos = 0
            /\ free = {} /\ taken = {}
            /\ stage = "walk"

-----------------------------------------------------------------------------
\* The entry at current_file; the loop ends at a block that is not a header.
AtEntry == stage = "walk" /\ Len(headers) < Len(archive)
Current == archive[Len(headers) + 1]

\* Fault: a frame that is partly read is given back with the entry.
FreedFramesUp(e) == FrameOf(pos) .. FrameOf(pos) + ((1 + e.sectors + 7) \div 8) - 1

\* pmm_free is given the address of the header and as many frames as header and
\* data fill.
FreedFrames(e) == FrameOf(pos) .. FrameOf(pos) + ((1 + e.sectors) \div 8) - 1

\* The end of the loop body.
Advance(e) == /\ headers' = Append(headers, pos)
              /\ free' = free \cup FreedFrames(e)
              /\ pos' = pos + 1 + e.sectors
              /\ UNCHANGED <<archive, taken, stage>>

\* Fault: a name is gone as soon as its frame is given back.
FoundUnfreed(i) == LET found[j \in 0 .. Len(headers)] ==
                         j > 0 => /\ FrameOf(headers[j]) \notin free \cup taken
                                  /\ found[archive[j].parent]
                   IN found[i]

\* The path of entry i can be followed: no name on it has been overwritten.
Found(i) == LET found[j \in 0 .. Len(headers)] ==
                  j > 0 => /\ FrameOf(headers[j]) \notin taken
                           /\ found[archive[j].parent]
            IN found[i]

\* vfs_create succeeds, and the data is copied.
Create == AtEntry /\ Current.kind # "other" /\ Found(Current.parent) /\ Advance(Current)

\* vfs_create does not find the parent and returns NULL: assert(node).
CreateFails == /\ AtEntry /\ Current.kind # "other" /\ ~Found(Current.parent)
               /\ stage' = "assert"
               /\ UNCHANGED <<archive, headers, pos, free, taken>>

\* Links and devices are passed over.
Skip == AtEntry /\ Current.kind = "other" /\ Advance(Current)

Done == /\ stage = "walk" /\ Len(headers) = Len(archive)
        /\ stage' = "done"
        /\ UNCHANGED <<archive, headers, pos, free, taken>>

\* Some caller of pmm_malloc, such as the heap for a new node, gets the frame.
Reuse == /\ \E f \in free : free' = free \ {f} /\ taken' = taken \cup {f}
         /\ UNCHANGED <<archive, headers, pos, stage>>

\* kernel_thread goes on to open a file and asserts that it is there.
OpenInit == /\ stage = "done"
            /\ \E i \in DOMAIN headers :
                 /\ archive[i].kind = "file"
                 /\ stage' = IF Found(i) THEN "done" ELSE "assert"
            /\ UNCHANGED <<archive, headers, pos, free, taken>>

WalkNext == Create \/ CreateFails \/ Skip \/ Done \/ Reuse \/ OpenInit

WalkSpec == WalkInit /\ [][WalkNext]_walk

-----------------------------------------------------------------------------
\* The variables have their types, and a frame given back is free or taken.
WalkTypeOK == /\ archive \in Archives
              /\ headers \in Seq(Nat) /\ Len(headers) <= Len(archive) /\ pos \in Nat
              /\ \A f \in free \cup taken : f \in Nat
              /\ free \cap taken = {}
              /\ stage \in {"walk", "done", "assert"}

\* The reader never outruns itself: no sector from current_file on, be it data,
\* a header or the block that ends the archive, is in a frame that has been
\* given back, whatever the sizes of the entries.
UnreadKept == \A f \in free \cup taken : 8 * f + 8 <= pos

\* No frame is given back twice: by the second time it could belong to somebody
\* else.
FreedOnce == [][AtEntry /\ headers' # headers =>
                  FreedFrames(Current) \cap (free \cup taken) = {}]_walk

\* The assertions on the result of vfs_create and on init_node only fail after a frame
\* with the header of an entry has been handed out again: as long as nobody writes to
\* what was given back, every entry is created below its directory and is found.
LostOnlyByReuse == stage = "assert" => \E i \in DOMAIN headers : FrameOf(headers[i]) \in taken
=============================================================================
