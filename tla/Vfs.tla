-------------------------------- MODULE Vfs ---------------------------------
(***************************************************************************)
(* The tree of the virtual file system: nodes and paths (src/fs/vfs.c), the *)
(* hash maps their children are kept in (src/lib/hashmap.c), and the nodes  *)
(* of tmpfs (src/fs/tmpfs.c), the file system that is mounted on the root. *)
(*                                                                         *)
(* initramfs_init fills the tree before there is a program; after that     *)
(* openat adds to it.  Nothing is ever removed, and one thread at a time   *)
(* walks it.  A node is its number in the order of creation, NULL is 0.    *)
(* Keys are taken to keep their value: Initramfs is about those that do not.*)
(***************************************************************************)
EXTENDS Integers, Sequences, FiniteSetsExt, Functions

CONSTANTS Names,       \* what files and directories are called
          Hash,        \* Hash[name]: hash(name) % entry_count
          FRAME_SIZE,
          Sizes,       \* bytes of data in the files of the archive
          MaxDepth,    \* bound: segments in a path
          MaxNodes     \* bound: nodes

DOT == "."
DOTDOT == ".."
SLASH == "/"
EMPTY == ""       \* what strtok returns between two slashes
CODE == "code"    \* the name openat creates: the bytes of the function basename

ASSUME VfsAssumption ==
  /\ {DOT, DOTDOT, SLASH, EMPTY, CODE} \cap Names = {}
  /\ Names \cup {DOT, DOTDOT, SLASH, EMPTY, CODE} \subseteq DOMAIN Hash
  /\ FRAME_SIZE \in Nat \ {0} /\ Sizes \subseteq Nat
  /\ MaxDepth \in Nat /\ MaxNodes \in Nat

NULL == 0
FAULT == -1   \* an access through a NULL pointer
ROOT == 1     \* the variable root, the first node

VARIABLES nodes,  \* the nodes
          phase   \* "initramfs", "user", or how the kernel stopped

vfs == <<nodes, phase>>

-----------------------------------------------------------------------------
(* Hash maps: entry_count chains.  The head of a chain is an entry nobody    *)
(* has set, with a key of length 0 and no value: the empty key finds it.    *)

NoTable == <<>>
NewTable == [b \in {Hash[k] : k \in DOMAIN Hash} |-> <<>>]

\* The position of a key in its chain, or 0.
hashmap_entry_get(table, key) ==
  LET chain == table[Hash[key]]
      found == {i \in DOMAIN chain : chain[i].key = key}
  IN IF found = {} THEN 0 ELSE Min(found)

hashmap_get(table, key) ==
  LET i == hashmap_entry_get(table, key)
  IN IF i = 0 THEN NULL ELSE table[Hash[key]][i].val

hashmap_set(table, key, val) ==
  LET i == hashmap_entry_get(table, key)
  IN [table EXCEPT ![Hash[key]] =
        IF i # 0 THEN [@ EXCEPT ![i].val = val]
                 ELSE Append(@, [key |-> key, val |-> val])]

-----------------------------------------------------------------------------
(* Nodes.  The operators take the nodes and give the nodes after the call;  *)
(* a call that creates a node adds it at the end.                          *)

IsDir(ns, n) == ns[n].children # NoTable

\* reduce_node: through mount points and links.
reduce_node(ns, n) ==
  LET reduce[m \in DOMAIN ns] == IF ns[m].mountpoint # NULL THEN reduce[ns[m].mountpoint]
                                 ELSE IF ns[m].link # NULL THEN reduce[ns[m].link]
                                 ELSE m
  IN reduce[n]

\* node->data: bytes allocated, st_blocks, st_size, and the end of what was written.
NoData == [alloc |-> 0, blocks |-> 0, size |-> 0, end |-> 0]

SetChild(ns, dir, name, n) == [ns EXCEPT ![dir].children = hashmap_set(@, name, n)]

vfs_create_node(ns, parent, name, dir) ==
  SetChild(Append(ns, [name |-> name, parent |-> parent,
                       children |-> IF dir THEN NewTable ELSE NoTable,
                       mountpoint |-> NULL, link |-> NULL, data |-> NoData]),
           parent, name, Len(ns) + 1)

\* Fault: "." is not set again after ".." was made under its name.
create_dot_once(ns, parent, node) ==
  LET dot    == Len(ns) + 1
      dotdot == Len(ns) + 2
      made   == vfs_create_node(vfs_create_node(ns, node, DOT, FALSE), node, DOT, FALSE)
      linked == [made EXCEPT ![dot].link = node, ![dotdot].link = parent]
  IN SetChild(linked, node, DOTDOT, dotdot)

\* create_dot gives both nodes the name "." and then sets their keys.
create_dot(ns, parent, node) ==
  LET dot    == Len(ns) + 1
      dotdot == Len(ns) + 2
      made   == vfs_create_node(vfs_create_node(ns, node, DOT, FALSE), node, DOT, FALSE)
      linked == [made EXCEPT ![dot].link = node, ![dotdot].link = parent]
  IN SetChild(SetChild(linked, node, DOT, dot), node, DOTDOT, dotdot)

\* tmpfs_create: a regular file gets a frame of zeros, and st_size says so.  For a
\* directory st_size is the same, but there are no data.
tmpfs_create(ns, parent, name, dir) ==
  [vfs_create_node(ns, parent, name, dir) EXCEPT ![Len(ns) + 1].data =
     [alloc |-> IF dir THEN 0 ELSE FRAME_SIZE, blocks |-> 1, size |-> FRAME_SIZE, end |-> 0]]

\* Fault: the file grows one byte too late.
tmpfs_write_late(ns, n, count, offset) ==
  LET page == (offset + count) \div FRAME_SIZE
      grow == IF ns[n].data.blocks < page
              THEN [alloc |-> (page + 1) * FRAME_SIZE, blocks |-> page + 1,
                    size |-> offset + count, end |-> ns[n].data.end]
              ELSE ns[n].data
  IN [ns EXCEPT ![n].data = [grow EXCEPT !.end = Max({@, offset + count})]]

\* tmpfs_write: kheap_realloc when the blocks do not reach beyond the last byte.
\* Only then is st_size set.
tmpfs_write(ns, n, count, offset) ==
  LET page == (offset + count) \div FRAME_SIZE
      grow == IF ns[n].data.blocks <= page
              THEN [alloc |-> (page + 1) * FRAME_SIZE, blocks |-> page + 1,
                    size |-> offset + count, end |-> ns[n].data.end]
              ELSE ns[n].data
  IN [ns EXCEPT ![n].data = [grow EXCEPT !.end = Max({@, offset + count})]]

tmpfs_mount(ns, target, name) == tmpfs_create(ns, target, name, TRUE)

\* vfs_mount of tmpfs on target, found with parent: a new directory takes its place.
vfs_mount(ns, parent, target, name) ==
  create_dot([tmpfs_mount(ns, target, name) EXCEPT ![target].mountpoint = Len(ns) + 1],
             parent, Len(ns) + 1)

\* vfs_init: the root, which is no file system's, and tmpfs mounted on it.  The path
\* "/" leads vfs_mount to the root, and basename makes "/" of it.
vfs_init ==
  LET root == [name |-> EMPTY, parent |-> NULL, children |-> NewTable,
               mountpoint |-> NULL, link |-> NULL, data |-> NoData]
  IN vfs_mount(<<root>>, ROOT, ROOT, SLASH)

-----------------------------------------------------------------------------
(* Paths: whether they start with a slash, and the segments that strtok     *)
(* finds once the slashes in front and one at the end are gone.             *)

Segments == Names \cup {DOT, DOTDOT, EMPTY}
Paths == {path \in [abs : BOOLEAN, segs : UNION {[1 .. n -> Segments] : n \in 0 .. MaxDepth}] :
            path.segs # <<>> => path.segs[1] # EMPTY}

\* One round of the loop of path_to_node.  A segment that is missing ends the walk; its
\* parent is answered if it is the last one.  The nodes on the way are not reduced: the
\* children of a file, and of "." and "..", are NULL.
NextSegment(ns, before, seg) ==
  IF before.result = NULL THEN [parent |-> NULL, result |-> NULL]
  ELSE IF before.result = FAULT \/ ~IsDir(ns, before.result)
  THEN [parent |-> NULL, result |-> FAULT]
  ELSE LET n == hashmap_get(ns[before.result].children, seg)
       IN [parent |-> IF n # NULL /\ IsDir(ns, n) THEN n ELSE before.parent, result |-> n]

path_to_node(ns, parent, path) ==
  LET top == reduce_node(ns, parent)
      at[i \in 0 .. Len(path.segs)] ==
        IF i = 0
        THEN [parent |-> top, result |-> IF path.abs THEN reduce_node(ns, ROOT) ELSE top]
        ELSE NextSegment(ns, at[i - 1], path.segs[i])
  IN IF path = [abs |-> FALSE, segs |-> <<>>]
     THEN [parent |-> NULL, result |-> NULL]
     ELSE at[Len(path.segs)]

basename(path) == path.segs[Len(path.segs)]
Relative(name) == [abs |-> FALSE, segs |-> <<name>>]

\* Fault: an existing file is not noticed.
vfs_create_again(ns, parent, path, dir) ==
  LET p2n == path_to_node(ns, parent, path)
      new == tmpfs_create(ns, p2n.parent, basename(path), dir)
  IN IF p2n.parent = NULL THEN ns
     ELSE IF dir THEN create_dot(new, p2n.parent, Len(ns) + 1) ELSE new

\* vfs_create.  The same nodes: it has returned NULL.
vfs_create(ns, parent, path, dir) ==
  LET p2n == path_to_node(ns, parent, path)
      new == tmpfs_create(ns, p2n.parent, basename(path), dir)
  IN IF p2n.parent = NULL \/ p2n.result # NULL THEN ns
     ELSE IF dir THEN create_dot(new, p2n.parent, Len(ns) + 1) ELSE new

-----------------------------------------------------------------------------
VfsInit == nodes = vfs_init /\ phase = "initramfs"

\* initramfs_init: the names of archive entries are ordinary paths.
EntryPaths == {path \in Paths : path.segs # <<>> /\ EMPTY \notin Range(path.segs)}

\* The calls of vfs_create that make a node, by what they make of the nodes.
Created(dir) == {vfs_create(nodes, ROOT, path, dir) : path \in EntryPaths} \ {nodes}

\* One entry: a directory is created, or a file is and its data is copied.
Entry == /\ phase = "initramfs" /\ Len(nodes) + 3 <= MaxNodes
         /\ \/ nodes' \in Created(TRUE)
            \/ \E made \in Created(FALSE), size \in Sizes :
                 nodes' = tmpfs_write(made, Len(nodes) + 1, size, 0)
         /\ UNCHANGED phase

\* vfs_create returns NULL, and that is asserted not to happen.
EntryFails == /\ phase = "initramfs"
              /\ {path \in EntryPaths : /\ path_to_node(nodes, ROOT, path).result # FAULT
                                        /\ vfs_create(nodes, ROOT, path, FALSE) = nodes} # {}
              /\ phase' = "assert" /\ UNCHANGED nodes

EndOfArchive == phase = "initramfs" /\ phase' = "user" /\ UNCHANGED nodes

\* Where walks can start: path_to_node reduces the node it is given.
Starts == {reduce_node(nodes, n) : n \in DOMAIN nodes}

\* syscall_openat with O_CREAT, from any node a descriptor can stand for: vfs_open has
\* not found the path, and path_to_parent finds where it should have been.
Parents == {p2n.parent : p2n \in
              {r \in {path_to_node(nodes, dir, path) : dir \in Starts, path \in Paths} :
                 r.result = NULL}} \ {NULL}

\* vfs_create makes a file there under the name CODE, once.
OpenatCreates == /\ phase = "user" /\ Len(nodes) < MaxNodes
                 /\ \E parent \in Parents :
                      /\ IsDir(nodes, parent)
                      /\ nodes' = vfs_create(nodes, parent, Relative(CODE), FALSE)
                 /\ UNCHANGED phase

\* A path through a file, "." or ".."; or openat with O_CREAT and a path from the root,
\* when the descriptor stands for a file.
Faults == /\ phase \in {"initramfs", "user"}
          /\ \/ FAULT \in {path_to_node(nodes, ROOT, path).result : path \in EntryPaths}
             \/ phase = "user" /\ {parent \in Parents : ~IsDir(nodes, parent)} # {}
          /\ phase' = "fault" /\ UNCHANGED nodes

VfsNext == Entry \/ EntryFails \/ EndOfArchive \/ OpenatCreates \/ Faults

VfsSpec == VfsInit /\ [][VfsNext]_vfs

-----------------------------------------------------------------------------
(* The tree as the name and parent fields of the nodes tell it.             *)

Links == {n \in DOMAIN nodes : nodes[n].link # NULL}
Tree == DOMAIN nodes \ (Links \cup {ROOT})

\* The directory above; there is none above the directory mounted on the root.
Above(n) == IF nodes[n].parent = ROOT THEN n ELSE nodes[n].parent

\* The node that a segment names in directory d.
Named(d, seg) == LET found == {n \in Tree : nodes[n].parent = d /\ nodes[n].name = seg}
                 IN IF seg = DOT THEN d
                    ELSE IF seg = DOTDOT THEN Above(d)
                    ELSE IF found = {} THEN NULL ELSE CHOOSE n \in found : TRUE

\* Where segment i leads to from n: a node, NULL, or FAULT for a segment in something
\* that is not a directory, "." and ".." being none.
Turn(n, segs, i) ==
  IF n \in {NULL, FAULT} THEN n
  ELSE IF ~IsDir(nodes, n) \/ (i > 1 /\ segs[i - 1] \in {DOT, DOTDOT}) THEN FAULT
  ELSE Named(n, segs[i])

\* Where a path ends.
Destination(d, segs) ==
  LET to[i \in 0 .. Len(segs)] == IF i = 0 THEN d ELSE Turn(to[i - 1], segs, i)
  IN to[Len(segs)]

\* The hash tables, the links and the mount agree with the names and the parents: from
\* any node, path_to_node answers the node the path names, a "." or ".." that leads to
\* it, or nothing where there is none, and a missing last segment comes with the
\* directory it belongs to.  (For "/name" that directory is only right when the walk
\* starts at the root: parent_node is not moved with current_node.)
PathsLead ==
  \A d \in Starts, path \in Paths :
    LET p2n  == path_to_node(nodes, d, path)
        from == reduce_node(nodes, IF path.abs THEN ROOT ELSE d)
        res  == IF p2n.result \in {NULL, FAULT} THEN p2n.result
                                               ELSE reduce_node(nodes, p2n.result)
    IN path # [abs |-> FALSE, segs |-> <<>>] =>
         /\ from \in Tree
         /\ res = Destination(from, path.segs)
         /\ res = NULL /\ p2n.parent # NULL /\ (path.abs => Len(path.segs) > 1 \/ d = from) =>
              p2n.parent = Destination(from, SubSeq(path.segs, 1, Len(path.segs) - 1))

\* Creating a node, with the "." and ".." of a directory, changes nothing for the paths
\* that led somewhere before: vfs_create never replaces a key.
PathsStay == [][nodes' # nodes =>
                /\ \A n \in DOMAIN nodes : reduce_node(nodes', n) = reduce_node(nodes, n)
                /\ \A d \in Starts, path \in Paths :
                     LET before == path_to_node(nodes, d, path)
                     IN before.result # NULL => path_to_node(nodes', d, path) = before]_vfs

\* What tmpfs_write has copied lies inside the buffer, and a reader, who stops at
\* st_size, gets all of it and nothing beyond the buffer.
DataFits == \A n \in Tree : LET data == nodes[n].data
                            IN ~IsDir(nodes, n) => /\ data.end <= data.size
                                                   /\ data.size <= data.alloc
=============================================================================
