------------------------------- MODULE Files --------------------------------
(***************************************************************************)
(* The descriptors of a process: syscall_openat, syscall_read and          *)
(* syscall_seek (src/sys/syscalls/syscalls.c) over vfs_open, fd_to_node and *)
(* node_to_fd (src/fs/vfs.c), the vector of descriptors (src/lib/vector.c) *)
(* and tmpfs_read (src/fs/tmpfs.c).                                        *)
(*                                                                         *)
(* A process has one thread, so its calls follow one another.  A slot of   *)
(* fildes holds a copy of a vfs_node_t: the file it stands for and the     *)
(* copy's own offset.  Which node a path leads to is an input.  What happens*)
(* after a call through a slot that was never written is not followed.      *)
(***************************************************************************)
EXTENDS Integers

CONSTANTS MAX_FILDES,
          Nodes,      \* files and directories
          Dirs,       \* directories: their data is NULL
          FileSize,   \* FileSize[f]: st_size
          Root,       \* the node that vfs_init makes, cwd of the process; a path
                      \* to it leads on to the directory mounted there
          AT_FDCWD,
          INT_MAX,    \* largest int
          Fds,        \* descriptors that programs pass
          Counts,     \* byte counts that programs pass
          Offsets,    \* offsets that programs pass
          Unwritten   \* memory nobody has written

ASSUME FilesAssumption ==
  /\ MAX_FILDES \in Nat /\ INT_MAX \in Nat /\ AT_FDCWD \in Int \ Nat
  /\ Root \in Dirs /\ Dirs \subseteq Nodes
  /\ Unwritten \notin Nodes \cup [file : Nodes, offset : Int]
  /\ FileSize \in [Nodes -> Nat] /\ FileSize[Root] = 0
  /\ Fds \subseteq Int /\ Counts \subseteq Nat /\ Offsets \subseteq Int

VARIABLES fildes,         \* the slots, and the cwd under AT_FDCWD
          current_filde,
          fildes_lock,    \* the lock of the vector
          vfs_lock,
          mode,
          ret             \* the result of the last call

files == <<fildes, current_filde, fildes_lock, vfs_lock, mode, ret>>

Slots == 0 .. MAX_FILDES - 1

\* Fault: the position is stored in 64 bits.
ToIntUnbounded(x) == x

\* The int that an off_t or a uint64_t becomes when it is stored in node->offset.
ToInt(x) == ((x + INT_MAX + 1) % (2 * (INT_MAX + 1))) - (INT_MAX + 1)

\* sched_process: vector_resize leaves the slots as they are in memory, and
\* current_filde is never set.
FilesInit ==
  /\ fildes = [s \in Slots \cup {AT_FDCWD} |->
                 IF s = AT_FDCWD THEN [file |-> Root, offset |-> 0] ELSE Unwritten]
  /\ current_filde \in -1 .. MAX_FILDES
  /\ fildes_lock = 0 /\ vfs_lock = 0
  /\ mode = "user" /\ ret = 0

-----------------------------------------------------------------------------
(* fd_to_node.  The cwd needs no lock.  vector_get spins for ever on a lock *)
(* that is not free; out of range it returns 0 and keeps the lock.          *)

Spins(fd) == fd # AT_FDCWD /\ fildes_lock = 1
BadFd(fd) == fd \notin Slots \cup {AT_FDCWD}
Usable(fd) == mode = "user" /\ ~Spins(fd) /\ ~BadFd(fd)

\* The lock after fd_to_node(fd).
LockAfter(fd) == IF BadFd(fd) THEN 1 ELSE fildes_lock

\* node->offset = p
SetOffset(fd, p) == fildes' = [fildes EXCEPT ![fd] = [file |-> @.file, offset |-> ToInt(p)]]

Return(r) == ret' = r /\ UNCHANGED mode
Stop(how) == mode' = how /\ UNCHANGED ret

\* Any call with a descriptor, when an earlier one has left the vector locked.
\* spinlock_acquire ends in assert(0).
CallSpins == /\ mode = "user" /\ \E fd \in Fds : Spins(fd)
             /\ Stop("deadlock")
             /\ UNCHANGED <<fildes, current_filde, fildes_lock, vfs_lock>>

\* A slot nobody has written: a read or an openat calls through its pointers, a
\* seek writes to it and says that it worked.
CallUnwritten == /\ \E fd \in Fds : Usable(fd) /\ fildes[fd] = Unwritten
                 /\ Stop("undefined")
                 /\ UNCHANGED <<fildes, current_filde, fildes_lock, vfs_lock>>

-----------------------------------------------------------------------------
(* syscall_openat *)

\* fd_to_node(dirfd) has found a node, or nothing, which means the root.  The node
\* need not be a directory: a path that starts with "/" does not use it.
DirGiven(dirfd) == /\ mode = "user" /\ ~Spins(dirfd)
                   /\ ~BadFd(dirfd) => fildes[dirfd] # Unwritten

\* A path through a regular file or through "." or "..": the children of these are
\* NULL, and reading them faults with vfs_lock held.
OpenThroughFile == /\ \E dirfd \in Fds : DirGiven(dirfd) /\ fildes_lock' = LockAfter(dirfd)
                   /\ vfs_lock = 0 /\ vfs_lock' = 1
                   /\ Stop("fault")
                   /\ UNCHANGED <<fildes, current_filde>>

\* Fault: current_filde is not advanced.
OpenAtSameSlot == /\ \E dirfd \in Fds : DirGiven(dirfd) /\ LockAfter(dirfd) = 0
                  /\ vfs_lock = 0 /\ current_filde \in Slots
                  /\ \E node \in Nodes \ {Root} :
                       fildes' = [fildes EXCEPT ![current_filde] = [file |-> node, offset |-> 0]]
                  /\ Return(current_filde)
                  /\ UNCHANGED <<current_filde, fildes_lock, vfs_lock>>

\* vfs_open finds the node and vector_replace copies it into the next slot; its
\* offset is 0, since only copies are ever read.  node_to_fd finds the slot again.
OpenFound == /\ \E dirfd \in Fds : DirGiven(dirfd) /\ LockAfter(dirfd) = 0
             /\ vfs_lock = 0 /\ current_filde \in Slots
             /\ \E node \in Nodes \ {Root} :
                  fildes' = [fildes EXCEPT ![current_filde] = [file |-> node, offset |-> 0]]
             /\ current_filde' = current_filde + 1
             /\ Return(current_filde)
             /\ UNCHANGED <<fildes_lock, vfs_lock>>

\* vector_replace asks vector_get for a slot that does not exist, or the vector is
\* locked since fd_to_node: it spins for ever, with vfs_lock held.
OpenSpins == /\ \E dirfd \in Fds : /\ DirGiven(dirfd)
                                   /\ LockAfter(dirfd) = 1 \/ current_filde \notin Slots
             /\ vfs_lock = 0
             /\ fildes_lock' = 1 /\ vfs_lock' = 1
             /\ Stop("deadlock")
             /\ UNCHANGED <<fildes, current_filde>>

\* Fault: the path for a missing file does not release vfs_lock.
OpenMissingKeepsLock == /\ \E dirfd \in Fds : DirGiven(dirfd) /\ fildes_lock' = LockAfter(dirfd)
                        /\ vfs_lock = 0 /\ vfs_lock' = 1
                        /\ Return(-1)
                        /\ UNCHANGED <<fildes, current_filde>>

\* There is no such file, and it is not to be created or its parent is missing.
OpenMissing == /\ \E dirfd \in Fds : DirGiven(dirfd) /\ fildes_lock' = LockAfter(dirfd)
               /\ vfs_lock = 0
               /\ Return(-1)
               /\ UNCHANGED <<fildes, current_filde, vfs_lock>>

\* O_CREAT: what vfs_create makes of its second argument, the address of the
\* function basename, is not a slot, nor is NULL: vector_get_index returns -1 and
\* keeps the lock.  It spins if fd_to_node has kept it already.
OpenCreate == /\ \E dirfd \in Fds : /\ DirGiven(dirfd)
                                    /\ IF LockAfter(dirfd) = 0 THEN Return(-1)
                                                               ELSE Stop("deadlock")
              /\ vfs_lock = 0
              /\ fildes_lock' = 1
              /\ UNCHANGED <<fildes, current_filde, vfs_lock>>

\* With a path from the root, path_to_parent answers dirfd itself.  If that is a
\* regular file, vfs_create reads its children.
OpenCreateInFile == /\ \E dirfd \in Fds : /\ Usable(dirfd) /\ fildes[dirfd] # Unwritten
                                          /\ fildes[dirfd].file \notin Dirs
                    /\ vfs_lock = 0
                    /\ Stop("fault")
                    /\ UNCHANGED <<fildes, current_filde, fildes_lock, vfs_lock>>

-----------------------------------------------------------------------------
(* syscall_read *)

\* tmpfs_read: max = st_size - offset is unsigned, and huge beyond the end.
ReadCount(node, count) ==
  LET max == FileSize[node.file] - node.offset
  IN IF max >= 0 /\ count > max THEN max ELSE count

ReadBad == /\ mode = "user"
           /\ \E fd \in Fds : ~Spins(fd) /\ BadFd(fd)
           /\ fildes_lock' = 1
           /\ Return(-1)
           /\ UNCHANGED <<fildes, current_filde, vfs_lock>>

\* memcpy asserts that its source is not NULL, and a directory's data is: it stops
\* there, or faults at the addresses above it, with the node locked.
Read == /\ \E fd \in Fds, count \in Counts :
             LET node == fildes[fd]
                 n    == ReadCount(node, count)
             IN /\ Usable(fd) /\ node # Unwritten
                /\ IF node.file \in Dirs /\ (n > 0 \/ node.offset = 0)
                   THEN Stop("fault") /\ UNCHANGED fildes
                   ELSE SetOffset(fd, node.offset + n) /\ Return(n)
        /\ UNCHANGED <<current_filde, fildes_lock, vfs_lock>>

-----------------------------------------------------------------------------
(* syscall_seek *)

NewOff(node, whence, offset) ==
  CASE whence = "SEEK_SET" -> offset
    [] whence = "SEEK_CUR" -> node.offset + offset
    [] whence = "SEEK_END" -> FileSize[node.file] + offset
    [] OTHER -> -1   \* refused, like a negative offset

\* A bad descriptor: the node is NULL and is used all the same, unless the new
\* offset is refused before that.
SeekBad == /\ mode = "user"
           /\ \E fd \in Fds : ~Spins(fd) /\ BadFd(fd)
           /\ fildes_lock' = 1
           /\ Return(-1) \/ Stop("fault")
           /\ UNCHANGED <<fildes, current_filde, vfs_lock>>

Seek == /\ \E fd \in Fds, offset \in Offsets,
              whence \in {"SEEK_SET", "SEEK_CUR", "SEEK_END", "invalid"} :
             LET new_off == NewOff(fildes[fd], whence, offset)
             IN /\ Usable(fd) /\ fildes[fd] # Unwritten
                /\ IF new_off < 0
                   THEN Return(-1) /\ UNCHANGED fildes
                   ELSE SetOffset(fd, new_off) /\ Return(new_off)
        /\ UNCHANGED <<current_filde, fildes_lock, vfs_lock>>

FilesNext == \/ CallSpins \/ CallUnwritten
             \/ OpenThroughFile \/ OpenFound \/ OpenSpins \/ OpenMissing
             \/ OpenCreate \/ OpenCreateInFile
             \/ ReadBad \/ Read \/ SeekBad \/ Seek

FilesSpec == FilesInit /\ [][FilesNext]_files

-----------------------------------------------------------------------------
\* The variables have their types; positions stay in the range of int.
FilesTypeOK ==
  /\ \A s \in DOMAIN fildes :
       fildes[s] # Unwritten => /\ fildes[s].file \in Nodes
                                /\ fildes[s].offset \in -INT_MAX - 1 .. INT_MAX
  /\ current_filde \in -1 .. MAX_FILDES
  /\ fildes_lock \in {0, 1} /\ vfs_lock \in {0, 1}
  /\ mode \in {"user", "deadlock", "fault", "undefined"}
  /\ ret \in Int

\* Descriptors are independent: each open gets one of its own, reads and seeks
\* move only their own position, by as much as they say, and a read never goes
\* past the end of the file it started inside of.  This holds whatever value
\* current_filde had in memory.
Written == {s \in DOMAIN fildes : fildes[s] # Unwritten}
Table == INSTANCE FileTable
           WITH open <- [s \in Written |-> [file |-> fildes[s].file, pos |-> fildes[s].offset]]
ImplementsFileTable == Table!Spec

\* A call that returns to the program has released vfs_lock, which all processes
\* share, on every path through vfs_open; and one that succeeds leaves the lock of the
\* vector as it found it: only failing calls keep it.
LocksReleased == [][mode' = "user" => /\ vfs_lock' = 0
                                      /\ ret' >= 0 => fildes_lock' = fildes_lock]_files
=============================================================================
