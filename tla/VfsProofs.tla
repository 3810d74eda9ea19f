----------------------------- MODULE VfsProofs ------------------------------
(***************************************************************************)
(* The first half of the proofs about Vfs, for trees of any size, any      *)
(* names and any hash function.                                            *)
(*                                                                         *)
(* A tree is sound (TreeInv) when every node is a directory, a file or a   *)
(* link of the directory it stands in (ShapeInv), when the table of a      *)
(* directory leads to exactly the nodes that have it as their parent,      *)
(* under their names (KidInv), and when the bytes of a file fit the        *)
(* blocks it has (DataInv). Here is what the hash table and the tmpfs      *)
(* operations do to a tree.                                                *)
(***************************************************************************)
EXTENDS Vfs, TLAPS, WellFoundedInduction

\* A set of numbers has a smallest element: induction over the entries.
LEMMA SmallestOf ==
  ASSUME NEW S \in SUBSET Nat, S # {}
  PROVE  \E m \in S : \A k \in S : m <= k
<1> DEFINE R == OpToRel(<, Nat)
<1>1. \A x, y \in Nat : x < y => <<x, y>> \in R
  BY DEF OpToRel
<1>2. IsWellFoundedOn(R, Nat)
  BY NatLessThanWellFounded, Zenon
<1> HIDE DEF R
<1>3. PICK m \in S : \A k \in S : ~(<<k, m>> \in R)
  BY <1>2, WFMin, Zenon
<1>4. \A k \in S : ~(k < m)
  BY <1>1, <1>3, Zenon
<1>5. \A k \in S : m <= k
  BY <1>4
<1> QED BY <1>5

-----------------------------------------------------------------------------
(* The hash maps of the tree *)

\* Keys, and tables: a chain of entries per bucket.
Keys == DOMAIN Hash
\* The tables of any size, and their entries.
Buckets == {Hash[k] : k \in Keys}
HashEntry == [key : Keys, val : Nat]
Tables == [Buckets -> Seq(HashEntry)]

\* i is the position of the first entry of a chain with a key, or 0.
IsFirst(c, key, i) ==
  \/ i = 0 /\ \A j \in 1 .. Len(c) : c[j].key # key
  \/ i \in 1 .. Len(c) /\ c[i].key = key /\ \A j \in 1 .. i - 1 : c[j].key # key

\* hashmap_entry_get answers the first entry with the key.
LEMMA EntryGet ==
  ASSUME NEW t \in Tables, NEW k \in Keys
  PROVE  IsFirst(t[Hash[k]], k, hashmap_entry_get(t, k))
<1> DEFINE c == t[Hash[k]]
           I == {i \in 1 .. Len(c) : c[i].key = k}
<1>1. c \in Seq(HashEntry)
  BY DEF Tables, Buckets
<1>2. hashmap_entry_get(t, k) = IF I # {} THEN Min(I) ELSE 0
  <2>1. DOMAIN c = 1 .. Len(c)
    BY <1>1
  <2> QED BY <2>1 DEF hashmap_entry_get
<1> HIDE DEF c
<1>3. CASE I = {}
  BY <1>2, <1>3 DEF IsFirst, c
<1>4. CASE I # {}
  <2>1. I \in SUBSET Nat
    BY <1>1
  <2>2. \E m \in I : \A n \in I : m <= n
    <3> HIDE DEF I
    <3> QED BY <1>4, <2>1, SmallestOf
  <2> DEFINE m == Min(I)
  <2>3. m \in I /\ \A n \in I : m <= n
    <3> HIDE DEF I
    <3> QED BY <2>2 DEF Min
  <2>4. hashmap_entry_get(t, k) = m
    BY <1>2, <1>4
  <2> HIDE DEF m
  <2>5. \A j \in 1 .. m - 1 : j \in 1 .. Len(c) /\ ~(m <= j)
    BY <1>1, <2>3
  <2>6. IsFirst(c, k, m)
    BY <2>3, <2>5 DEF IsFirst
  <2> QED BY <2>4, <2>6 DEF c
<1> QED BY <1>3, <1>4

\* There is only one first entry.
LEMMA FirstUnique ==
  ASSUME NEW c \in Seq(HashEntry), NEW k, NEW i, NEW j, IsFirst(c, k, i), IsFirst(c, k, j)
  PROVE  i = j
<1>1. CASE i = 0
  BY <1>1 DEF IsFirst
<1>2. CASE j = 0
  BY <1>2 DEF IsFirst
<1>3. CASE i # 0 /\ j # 0
  <2>1. i \in 1 .. Len(c) /\ j \in 1 .. Len(c) /\ Len(c) \in Nat
    BY <1>3 DEF IsFirst
  <2>2. ~(i < j) /\ ~(j < i)
    BY <1>3, <2>1 DEF IsFirst
  <2> QED BY <2>1, <2>2
<1> QED BY <1>1, <1>2, <1>3

\* A new table is empty.
LEMMA NewTableGet ==
  /\ NewTable \in Tables
  /\ \A k \in Keys : hashmap_get(NewTable, k) = NULL
<1>1. NewTable \in Tables
  <2>1. <<>> \in Seq(HashEntry)
    OBVIOUS
  <2> QED BY <2>1 DEF NewTable, Tables, Buckets, Keys
<1>2. ASSUME NEW k \in Keys PROVE hashmap_get(NewTable, k) = NULL
  <2>1. NewTable[Hash[k]] = <<>>
    BY DEF NewTable, Keys
  <2>2. IsFirst(<<>>, k, hashmap_entry_get(NewTable, k))
    BY <1>1, <2>1, EntryGet
  <2>3. hashmap_entry_get(NewTable, k) = 0
    BY <2>2 DEF IsFirst
  <2> QED BY <2>3 DEF hashmap_get
<1> QED BY <1>1, <1>2

\* A table is not NULL.
LEMMA TableIsTable == NoTable \notin Tables
<1>1. DOT \in Keys /\ Hash[DOT] \in Buckets
  BY VfsAssumption DEF Buckets, Keys
<1>2. ASSUME NoTable \in Tables PROVE FALSE
  <2>1. DOMAIN NoTable = Buckets
    BY <1>2 DEF Tables
  <2>2. DOMAIN NoTable = {}
    BY DEF NoTable
  <2> QED BY <1>1, <2>1, <2>2
<1> QED BY <1>2

\* The value of a key.
LEMMA GetType ==
  ASSUME NEW t \in Tables, NEW k \in Keys
  PROVE  hashmap_get(t, k) \in Nat
<1> DEFINE c == t[Hash[k]]
           i == hashmap_entry_get(t, k)
<1>1. c \in Seq(HashEntry)
  BY DEF Tables, Buckets
<1>2. IsFirst(c, k, i)
  BY EntryGet
<1>3. hashmap_get(t, k) = IF i = 0 THEN NULL ELSE c[i].val
  BY DEF hashmap_get
<1> HIDE DEF c, i
<1>4. i # 0 => c[i] \in HashEntry
  BY <1>1, <1>2 DEF IsFirst
<1>5. i # 0 => c[i].val \in Nat
  BY <1>4 DEF HashEntry
<1> QED BY <1>3, <1>5 DEF NULL

\* Chain d is chain c with value v for key k.
ChainWith(c, k, v, d) ==
  /\ d \in Seq(HashEntry)
  /\ \E j : j # 0 /\ IsFirst(d, k, j) /\ d[j].val = v
  /\ \A x, j : x # k /\ IsFirst(c, x, j) =>
       /\ IsFirst(d, x, j)
       /\ j # 0 => d[j].val = c[j].val

\* An entry that is found is given the value.
LEMMA ChainReplace ==
  ASSUME NEW c \in Seq(HashEntry), NEW k \in Keys, NEW v \in Nat, NEW i, i # 0, IsFirst(c, k, i)
  PROVE  ChainWith(c, k, v, [c EXCEPT ![i].val = v])
<1> DEFINE e == [key |-> k, val |-> v]
           d == [c EXCEPT ![i].val = v]
<1>1. e \in HashEntry
  BY DEF HashEntry
<1>2. i \in 1 .. Len(c) /\ c[i].key = k /\ \A j \in 1 .. i - 1 : c[j].key # k
  BY DEF IsFirst
<1>3. c[i] \in HashEntry
  BY <1>2
<1>4. [c[i] EXCEPT !.val = v] = e
  BY <1>2, <1>3 DEF HashEntry
<1>5. d = [c EXCEPT ![i] = e]
  BY <1>4, Zenon
<1>6. d \in Seq(HashEntry) /\ Len(d) = Len(c) /\ d[i] = e
      /\ \A j \in 1 .. Len(c) : j # i => d[j] = c[j]
  <2> HIDE DEF e, d
  <2> QED BY <1>1, <1>2, <1>5
<1> HIDE DEF d
<1>7. \A j \in 1 .. Len(c) : d[j].key = c[j].key
  BY <1>2, <1>6
<1>8. IsFirst(d, k, i) /\ d[i].val = v
  BY <1>2, <1>6 DEF IsFirst
<1>9. ASSUME NEW x, NEW j, x # k, IsFirst(c, x, j)
      PROVE  IsFirst(d, x, j) /\ (j # 0 => d[j].val = c[j].val)
  <2>1. IsFirst(d, x, j)
    <3>1. CASE j = 0
      BY <1>6, <1>7, <1>9, <3>1 DEF IsFirst
    <3>2. CASE j # 0
      <4>1. j \in 1 .. Len(c) /\ c[j].key = x /\ \A y \in 1 .. j - 1 : c[y].key # x
        BY <1>9, <3>2 DEF IsFirst
      <4>2. /\ j \in 1 .. Len(d) /\ d[j].key = c[j].key
            /\ \A y \in 1 .. j - 1 : d[y].key = c[y].key
        BY <1>6, <1>7, <4>1
      <4> QED BY <4>1, <4>2 DEF IsFirst
    <3> QED BY <3>1, <3>2
  <2>2. j # 0 => j \in 1 .. Len(c) /\ j # i
    BY <1>2, <1>9 DEF IsFirst
  <2> QED BY <1>6, <2>1, <2>2
<1>10. ChainWith(c, k, v, d)
  BY <1>6, <1>8, <1>9 DEF ChainWith
<1> QED BY <1>10 DEF d

\* A new entry is put at the end.
LEMMA ChainAppend ==
  ASSUME NEW c \in Seq(HashEntry), NEW k \in Keys, NEW v \in Nat, IsFirst(c, k, 0)
  PROVE  ChainWith(c, k, v, Append(c, [key |-> k, val |-> v]))
<1> DEFINE e == [key |-> k, val |-> v]
           d == Append(c, e)
           n == Len(c) + 1
<1>1. e \in HashEntry
  BY DEF HashEntry
<1>2. \A j \in 1 .. Len(c) : c[j].key # k
  BY DEF IsFirst
<1>3. d \in Seq(HashEntry) /\ Len(d) = n /\ d[n] = e /\ n \in Nat /\ Len(c) \in Nat
      /\ \A j \in 1 .. Len(c) : d[j] = c[j]
  <2> HIDE DEF e
  <2> QED BY <1>1
<1>4. \A j \in 1 .. n : j = n \/ j \in 1 .. Len(c)
  BY <1>3
<1> HIDE DEF d
<1>5. n # 0 /\ IsFirst(d, k, n) /\ d[n].val = v
  BY <1>2, <1>3 DEF IsFirst
<1>6. ASSUME NEW x, NEW j, x # k, IsFirst(c, x, j)
      PROVE  IsFirst(d, x, j) /\ (j # 0 => d[j].val = c[j].val)
  <2>1. CASE j = 0
    BY <1>3, <1>4, <1>6, <2>1 DEF IsFirst
  <2>2. CASE j # 0
    <3>1. j \in 1 .. Len(c) /\ c[j].key = x /\ \A y \in 1 .. j - 1 : c[y].key # x
      BY <1>6, <2>2 DEF IsFirst
    <3>2. j \in 1 .. Len(d) /\ d[j] = c[j] /\ \A y \in 1 .. j - 1 : d[y] = c[y]
      BY <1>3, <3>1
    <3> QED BY <3>1, <3>2 DEF IsFirst
  <2> QED BY <2>1, <2>2
<1>7. ChainWith(c, k, v, d)
  BY <1>3, <1>5, <1>6 DEF ChainWith
<1> QED BY <1>7 DEF d

\* hashmap_set gives one key its value and leaves the others alone.
LEMMA SetGet ==
  ASSUME NEW t \in Tables, NEW k \in Keys, NEW v \in Nat
  PROVE  /\ hashmap_set(t, k, v) \in Tables
         /\ \A x \in Keys : hashmap_get(hashmap_set(t, k, v), x) =
                              IF x = k THEN v ELSE hashmap_get(t, x)
<1> DEFINE b == Hash[k]
           i == hashmap_entry_get(t, k)
           d == IF i # 0 THEN [t[b] EXCEPT ![i].val = v]
                         ELSE Append(t[b], [key |-> k, val |-> v])
           u == hashmap_set(t, k, v)
<1>1. u = [t EXCEPT ![b] = d]
  BY DEF hashmap_set
<1>2. b \in Buckets /\ t[b] \in Seq(HashEntry) /\ IsFirst(t[b], k, i)
  BY EntryGet DEF Tables, Buckets
<1>3. ChainWith(t[b], k, v, d)
  <2>1. PICK c, j : c = t[b] /\ j = i
    OBVIOUS
  <2>2. d = IF j # 0 THEN [c EXCEPT ![j].val = v] ELSE Append(c, [key |-> k, val |-> v])
    BY <2>1
  <2>3. c \in Seq(HashEntry) /\ IsFirst(c, k, j)
    BY <1>2, <2>1
  <2> HIDE DEF b, i, d
  <2>4. ChainWith(c, k, v, d)
    BY <2>2, <2>3, ChainReplace, ChainAppend
  <2> QED BY <2>1, <2>4
<1> HIDE DEF d, u, i
<1>4. u \in Tables /\ u[b] = d /\ \A a \in Buckets : a # b => u[a] = t[a]
  BY <1>1, <1>2, <1>3 DEF Tables, ChainWith
<1>5. \A x \in Keys, s \in Tables : LET j == hashmap_entry_get(s, x)
        IN IsFirst(s[Hash[x]], x, j) /\ hashmap_get(s, x) = IF j = 0 THEN NULL ELSE s[Hash[x]][j].val
  BY EntryGet DEF hashmap_get
<1>6. hashmap_get(u, k) = v
  <2>1. PICK j : j # 0 /\ IsFirst(d, k, j) /\ d[j].val = v
    BY <1>3 DEF ChainWith
  <2>2. hashmap_entry_get(u, k) = j
    <3>1. d \in Seq(HashEntry) /\ IsFirst(d, k, hashmap_entry_get(u, k))
      BY <1>3, <1>4, <1>5 DEF ChainWith
    <3> QED BY <2>1, <3>1, FirstUnique
  <2> QED BY <1>4, <1>5, <2>1, <2>2
<1>7. ASSUME NEW x \in Keys, x # k PROVE hashmap_get(u, x) = hashmap_get(t, x)
  <2> DEFINE j == hashmap_entry_get(t, x)
  <2>1. IsFirst(t[Hash[x]], x, j) /\ hashmap_get(t, x) = IF j = 0 THEN NULL ELSE t[Hash[x]][j].val
    BY <1>5
  <2>2. u[Hash[x]] \in Seq(HashEntry) /\ Hash[x] \in Buckets
    BY <1>4 DEF Tables, Buckets
  <2> HIDE DEF j
  <2>3. IsFirst(u[Hash[x]], x, j) /\ (j # 0 => u[Hash[x]][j].val = t[Hash[x]][j].val)
    <3>1. CASE Hash[x] = b
      BY <1>3, <1>4, <1>7, <2>1, <3>1 DEF ChainWith
    <3>2. CASE Hash[x] # b
      BY <1>4, <2>1, <2>2, <3>2
    <3> QED BY <3>1, <3>2
  <2>4. hashmap_entry_get(u, x) = j
    <3>1. IsFirst(u[Hash[x]], x, hashmap_entry_get(u, x))
      BY <1>4, <1>5
    <3> QED BY <2>2, <2>3, <3>1, FirstUnique
  <2> QED BY <1>4, <1>5, <2>1, <2>3, <2>4
<1> QED BY <1>4, <1>6, <1>7 DEF u

-----------------------------------------------------------------------------
(* What the operations make of the nodes *)

\* Nodes of any names and any sizes.
FileData == [alloc : Nat, blocks : Nat, size : Nat, end : Nat]
TreeNode == [name : Keys, parent : Nat, children : Tables \cup {NoTable},
             mountpoint : Nat, link : Nat, data : FileData]
Forest == Seq(TreeNode)

\* What directory d has under a key.
Kid(ns, d, k) == hashmap_get(ns[d].children, k)

\* A new node.
Fresh(name, parent, dir, link, data) ==
  [name |-> name, parent |-> parent, children |-> IF dir THEN NewTable ELSE NoTable,
   mountpoint |-> NULL, link |-> link, data |-> data]

\* Two nodes differ at most in their children.
SameNode(a, b) == /\ a.name = b.name /\ a.parent = b.parent
                  /\ a.mountpoint = b.mountpoint /\ a.link = b.link /\ a.data = b.data

\* In ms directory d has the value v under key k; apart from that, and from nodes that
\* are new, it is ns.
KidSet(ns, d, k, v, ms) ==
  /\ ms \in Forest
  /\ \A i \in 1 .. Len(ns) : i # d => ms[i] = ns[i]
  /\ SameNode(ms[d], ns[d]) /\ ms[d].children \in Tables
  /\ \A x \in Keys : Kid(ms, d, x) = IF x = k THEN v ELSE Kid(ns, d, x)

\* Nodes have their type.
LEMMA NodeType ==
  ASSUME NEW ns \in Forest, NEW i \in 1 .. Len(ns)
  PROVE  ns[i] \in TreeNode
BY DEF Forest

\* A new node has its type.
LEMMA FreshType ==
  ASSUME NEW name \in Keys, NEW parent \in Nat, NEW dir \in BOOLEAN, NEW link \in Nat,
         NEW data \in FileData
  PROVE  Fresh(name, parent, dir, link, data) \in TreeNode
<1>1. (IF dir THEN NewTable ELSE NoTable) \in Tables \cup {NoTable}
  BY NewTableGet
<1> QED BY <1>1 DEF Fresh, TreeNode, NULL

\* SetChild.
LEMMA SetChildEffect ==
  ASSUME NEW ns \in Forest, NEW d \in 1 .. Len(ns), ns[d].children \in Tables,
         NEW k \in Keys, NEW v \in Nat
  PROVE  KidSet(ns, d, k, v, SetChild(ns, d, k, v)) /\ Len(SetChild(ns, d, k, v)) = Len(ns)
<1> DEFINE t == hashmap_set(ns[d].children, k, v)
<1>1. PICK r, ms : /\ r = [ns[d] EXCEPT !.children = t] /\ ms = [ns EXCEPT ![d] = r]
                   /\ ms = SetChild(ns, d, k, v)
  BY Zenon DEF SetChild
<1>2. t \in Tables /\ \A x \in Keys : hashmap_get(t, x) = IF x = k THEN v ELSE Kid(ns, d, x)
  <2>1. PICK c : c = ns[d].children
    OBVIOUS
  <2>2. c \in Tables
    BY <2>1
  <2>3. /\ hashmap_set(c, k, v) \in Tables
        /\ \A x \in Keys : hashmap_get(hashmap_set(c, k, v), x) =
                             IF x = k THEN v ELSE hashmap_get(c, x)
    BY <2>2, SetGet
  <2> QED BY <2>1, <2>3 DEF Kid
<1> HIDE DEF t
<1>3. ns[d] \in TreeNode
  BY NodeType
<1>4. r \in TreeNode /\ r.children = t /\ SameNode(r, ns[d])
  BY <1>1, <1>2, <1>3 DEF TreeNode, SameNode
<1>5. /\ ms \in Forest /\ Len(ms) = Len(ns) /\ ms[d] = r
      /\ \A j \in 1 .. Len(ns) : j # d => ms[j] = ns[j]
  <2>1. ms = [ns EXCEPT ![d] = r] /\ r \in TreeNode
    BY <1>1, <1>4
  <2> QED BY <2>1 DEF Forest
<1>6. \A x \in Keys : Kid(ms, d, x) = hashmap_get(t, x)
  BY <1>4, <1>5 DEF Kid
<1>7. KidSet(ns, d, k, v, ms) /\ Len(ms) = Len(ns)
  BY <1>2, <1>4, <1>5, <1>6 DEF KidSet
<1> QED BY <1>1, <1>7

\* vfs_create_node: a new node at the end, and its name in the table of its parent.
LEMMA CreateNodeEffect ==
  ASSUME NEW ns \in Forest, NEW d \in 1 .. Len(ns), ns[d].children \in Tables,
         NEW k \in Keys, NEW dir \in BOOLEAN,
         NEW ms, ms = vfs_create_node(ns, d, k, dir)
  PROVE  /\ KidSet(ns, d, k, Len(ns) + 1, ms) /\ Len(ms) = Len(ns) + 1
         /\ ms[Len(ns) + 1] = Fresh(k, d, dir, NULL, NoData)
<1>1. PICK r, os, q : /\ r = Fresh(k, d, dir, NULL, NoData) /\ os = Append(ns, r)
                      /\ q = Len(ns) + 1 /\ ms = SetChild(os, d, k, q)
  BY Zenon DEF vfs_create_node, Fresh
<1>2. Len(ns) \in Nat /\ q \in Nat /\ d \in Nat
  BY <1>1 DEF Forest
<1>3. r \in TreeNode
  <2>1. NoData \in FileData /\ NULL \in Nat
    BY DEF NoData, FileData, NULL
  <2> QED BY <1>1, <1>2, <2>1, FreshType
<1>4. /\ os \in Forest /\ Len(os) = q /\ os[q] = r
      /\ \A j \in 1 .. Len(ns) : os[j] = ns[j]
  <2>1. os = Append(ns, r) /\ r \in TreeNode /\ q = Len(ns) + 1
    BY <1>1, <1>3
  <2> QED BY <2>1 DEF Forest
<1>5. d \in 1 .. Len(os) /\ os[d] = ns[d] /\ d # q /\ q \in 1 .. Len(os)
  <2>1. d \in 1 .. q /\ d # q /\ q \in 1 .. q
    BY <1>1, <1>2
  <2> QED BY <1>4, <2>1
<1>6. KidSet(os, d, k, q, ms) /\ Len(ms) = q
  <2>1. os[d].children \in Tables
    BY <1>5
  <2>2. KidSet(os, d, k, q, SetChild(os, d, k, q)) /\ Len(SetChild(os, d, k, q)) = Len(os)
    BY <1>2, <1>4, <1>5, <2>1, SetChildEffect
  <2> QED BY <1>1, <1>4, <2>2
<1>7. \A x \in Keys : Kid(os, d, x) = Kid(ns, d, x)
  BY <1>5 DEF Kid
<1>8. ms[q] = r
  BY <1>4, <1>5, <1>6 DEF KidSet
<1>9. \A i \in 1 .. Len(ns) : i # d => ms[i] = ns[i]
  <2>1. \A i \in 1 .. Len(ns) : i \in 1 .. Len(os)
    BY <1>1, <1>2, <1>4
  <2> QED BY <1>4, <1>6, <2>1 DEF KidSet
<1>10. KidSet(ns, d, k, q, ms)
  BY <1>5, <1>6, <1>7, <1>9 DEF KidSet
<1> QED BY <1>1, <1>6, <1>8, <1>10

\* The data of a new file or directory of tmpfs.
NewData(dir) == [alloc |-> IF dir THEN 0 ELSE FRAME_SIZE, blocks |-> 1, size |-> FRAME_SIZE,
                 end |-> 0]

\* A field of a new node.
LEMMA FreshFields ==
  ASSUME NEW name \in Keys, NEW parent \in Nat, NEW dir \in BOOLEAN, NEW link \in Nat,
         NEW data \in FileData
  PROVE  /\ \A l \in Nat : [Fresh(name, parent, dir, link, data) EXCEPT !.link = l] =
                             Fresh(name, parent, dir, l, data)
         /\ \A x \in FileData : [Fresh(name, parent, dir, link, data) EXCEPT !.data = x] =
                                  Fresh(name, parent, dir, link, x)
BY DEF Fresh

\* Changing a node that is new does not disturb what KidSet says of the others.
LEMMA NewNodeSet ==
  ASSUME NEW ns \in Forest, NEW d \in 1 .. Len(ns), NEW k, NEW v, NEW os, NEW ms,
         KidSet(ns, d, k, v, os),
         ms \in Forest, \A i \in 1 .. Len(ns) : ms[i] = os[i]
  PROVE  KidSet(ns, d, k, v, ms)
<1>1. ms[d] = os[d]
  OBVIOUS
<1>2. \A x \in Keys : Kid(ms, d, x) = Kid(os, d, x)
  BY <1>1 DEF Kid
<1> QED BY <1>1, <1>2 DEF KidSet

\* tmpfs_create.
LEMMA TmpfsCreateEffect ==
  ASSUME NEW ns \in Forest, NEW d \in 1 .. Len(ns), ns[d].children \in Tables,
         NEW k \in Keys, NEW dir \in BOOLEAN,
         NEW ms, ms = tmpfs_create(ns, d, k, dir)
  PROVE  /\ KidSet(ns, d, k, Len(ns) + 1, ms) /\ Len(ms) = Len(ns) + 1
         /\ ms[Len(ns) + 1] = Fresh(k, d, dir, NULL, NewData(dir))
<1>1. PICK os, q, x : /\ os = vfs_create_node(ns, d, k, dir) /\ q = Len(ns) + 1
                      /\ x = NewData(dir) /\ ms = [os EXCEPT ![q].data = x]
  BY Zenon DEF tmpfs_create, NewData
<1>2. /\ KidSet(ns, d, k, q, os) /\ Len(os) = q
      /\ os[q] = Fresh(k, d, dir, NULL, NoData)
  BY <1>1, CreateNodeEffect
<1>3. /\ Len(ns) \in Nat /\ d \in Nat /\ NoData \in FileData /\ NULL \in Nat
  BY DEF Forest, NoData, FileData, NULL
<1>4. x \in FileData
  BY <1>1, VfsAssumption DEF NewData, FileData
<1>5. [os[q] EXCEPT !.data = x] = Fresh(k, d, dir, NULL, x)
  BY <1>2, <1>3, <1>4, FreshFields
<1>6. PICK r : r = Fresh(k, d, dir, NULL, x)
  OBVIOUS
<1>7. r \in TreeNode
  BY <1>3, <1>4, <1>6, FreshType
<1>8. ms = [os EXCEPT ![q] = r]
  BY <1>1, <1>5, <1>6, Zenon
<1>9. /\ ms \in Forest /\ Len(ms) = q /\ ms[q] = r
      /\ \A i \in 1 .. Len(ns) : ms[i] = os[i]
  <2>1. os \in Forest /\ Len(os) = Len(ns) + 1 /\ q = Len(ns) + 1
    BY <1>1, <1>2 DEF KidSet
  <2>2. q \in 1 .. Len(os) /\ \A i \in 1 .. Len(ns) : i \in 1 .. Len(os) /\ i # q
    BY <1>3, <2>1
  <2>3. /\ ms \in Forest /\ Len(ms) = Len(os) /\ ms[q] = r
        /\ \A i \in 1 .. Len(os) : i # q => ms[i] = os[i]
    <3>1. os \in Seq(TreeNode) /\ q \in 1 .. Len(os)
      BY <2>1, <2>2 DEF Forest
    <3>2. ms \in Seq(TreeNode) /\ Len(ms) = Len(os)
      BY <1>7, <1>8, <3>1
    <3>3. ms[q] = r /\ \A i \in 1 .. Len(os) : i # q => ms[i] = os[i]
      BY <1>7, <1>8, <3>1
    <3> QED BY <3>2, <3>3 DEF Forest
  <2> QED BY <2>1, <2>2, <2>3
<1>10. KidSet(ns, d, k, q, ms)
  BY <1>2, <1>9, NewNodeSet
<1> QED BY <1>1, <1>6, <1>9, <1>10

\* What create_dot makes: node n has "." and "..", the two nodes that are new.
DotsMade(ns, parent, n, ms) ==
  /\ ms \in Forest /\ Len(ms) = Len(ns) + 2
  /\ \A i \in 1 .. Len(ns) : i # n => ms[i] = ns[i]
  /\ SameNode(ms[n], ns[n]) /\ ms[n].children \in Tables
  /\ \A x \in Keys : Kid(ms, n, x) = IF x = DOTDOT THEN Len(ns) + 2
                                     ELSE IF x = DOT THEN Len(ns) + 1 ELSE Kid(ns, n, x)
  /\ ms[Len(ns) + 1] = Fresh(DOT, n, FALSE, n, NoData)
  /\ ms[Len(ns) + 2] = Fresh(DOT, n, FALSE, parent, NoData)

\* create_dot.
LEMMA CreateDotEffect ==
  ASSUME NEW ns \in Forest, NEW n \in 1 .. Len(ns), ns[n].children \in Tables,
         NEW parent \in Nat
  PROVE  DotsMade(ns, parent, n, create_dot(ns, parent, n))
<1>1. PICK p, q, os, bs, cs, ds, es :
        /\ p = Len(ns) + 1 /\ q = Len(ns) + 2
        /\ os = vfs_create_node(ns, n, DOT, FALSE) /\ bs = vfs_create_node(os, n, DOT, FALSE)
        /\ cs = [bs EXCEPT ![p].link = n, ![q].link = parent]
        /\ ds = SetChild(cs, n, DOT, p) /\ es = SetChild(ds, n, DOTDOT, q)
        /\ es = create_dot(ns, parent, n)
  BY Zenon DEF create_dot
<1>2. /\ Len(ns) \in Nat /\ n \in Nat /\ NoData \in FileData /\ NULL \in Nat
      /\ DOT \in Keys /\ DOTDOT \in Keys /\ DOT # DOTDOT
  BY VfsAssumption DEF Forest, NoData, FileData, NULL, Keys, DOT, DOTDOT
<1>3. /\ p \in Nat /\ q = p + 1 /\ q \in Nat /\ n # p /\ n # q
      /\ \A i \in 1 .. Len(ns) : i \in 1 .. p /\ i \in 1 .. q /\ i # p /\ i # q
      /\ p \in 1 .. p /\ p \in 1 .. q /\ q \in 1 .. q /\ p # q
      /\ n \in 1 .. p /\ n \in 1 .. q
  BY <1>1, <1>2
<1>4. /\ KidSet(ns, n, DOT, p, os) /\ Len(os) = p
      /\ os[p] = Fresh(DOT, n, FALSE, NULL, NoData)
  BY <1>1, <1>2, CreateNodeEffect, Zenon
<1>5. os \in Forest /\ os[n].children \in Tables /\ n \in 1 .. Len(os)
  BY <1>3, <1>4 DEF KidSet
<1>6. /\ KidSet(os, n, DOT, q, bs) /\ Len(bs) = q
      /\ bs[q] = Fresh(DOT, n, FALSE, NULL, NoData)
  <2>1. bs = vfs_create_node(os, n, DOT, FALSE) /\ q = Len(os) + 1 /\ DOT \in Keys
    BY <1>1, <1>2, <1>3, <1>4, Zenon
  <2> QED BY <1>5, <2>1, CreateNodeEffect, Zenon
<1>7. bs[p] = Fresh(DOT, n, FALSE, NULL, NoData) /\ bs \in Forest
  BY <1>3, <1>4, <1>6, Zenon DEF KidSet
<1>8. PICK r, t : r = Fresh(DOT, n, FALSE, n, NoData) /\ t = Fresh(DOT, n, FALSE, parent, NoData)
  BY Zenon
<1>9. r \in TreeNode /\ t \in TreeNode
  BY <1>2, <1>8, FreshType, Zenon
<1>10. [bs[p] EXCEPT !.link = n] = r /\ [bs[q] EXCEPT !.link = parent] = t
  <2>1. \A l \in Nat : [Fresh(DOT, n, FALSE, NULL, NoData) EXCEPT !.link = l] =
                       Fresh(DOT, n, FALSE, l, NoData)
    BY DEF Fresh
  <2> QED BY <1>2, <1>6, <1>7, <1>8, <2>1, Zenon
<1>11. cs = [bs EXCEPT ![p] = r, ![q] = t]
  BY <1>1, <1>3, <1>10, Zenon
<1>12. /\ cs \in Forest /\ Len(cs) = q /\ cs[p] = r /\ cs[q] = t
       /\ \A i \in 1 .. Len(ns) : cs[i] = bs[i]
  BY <1>3, <1>6, <1>7, <1>9, <1>11 DEF Forest
<1>13. cs[n] = bs[n] /\ n \in 1 .. Len(cs) /\ cs[n].children \in Tables
  BY <1>3, <1>6, <1>12 DEF KidSet
<1>14. KidSet(cs, n, DOT, p, ds) /\ Len(ds) = q
  <2>1. KidSet(cs, n, DOT, p, SetChild(cs, n, DOT, p)) /\ Len(SetChild(cs, n, DOT, p)) = Len(cs)
    BY <1>2, <1>3, <1>12, <1>13, SetChildEffect
  <2> QED BY <1>1, <1>12, <2>1, Zenon
<1>15. ds \in Forest /\ n \in 1 .. Len(ds) /\ ds[n].children \in Tables
  BY <1>3, <1>14 DEF KidSet
<1>16. KidSet(ds, n, DOTDOT, q, es) /\ Len(es) = q
  <2>1. /\ KidSet(ds, n, DOTDOT, q, SetChild(ds, n, DOTDOT, q))
        /\ Len(SetChild(ds, n, DOTDOT, q)) = Len(ds)
    BY <1>2, <1>3, <1>15, SetChildEffect
  <2> QED BY <1>1, <1>14, <2>1
<1>17. es[p] = r /\ es[q] = t
  BY <1>3, <1>12, <1>14, <1>16 DEF KidSet
<1>18. ASSUME NEW i \in 1 .. Len(ns), i # n PROVE es[i] = ns[i]
  <2>1. i \in 1 .. Len(os) /\ i \in 1 .. Len(cs) /\ i \in 1 .. Len(ds)
    BY <1>3, <1>4, <1>12, <1>14, Zenon
  <2> QED BY <1>4, <1>6, <1>12, <1>14, <1>16, <1>18, <2>1 DEF KidSet
<1>19. SameNode(es[n], ns[n])
  BY <1>4, <1>6, <1>13, <1>14, <1>16, Zenon DEF KidSet, SameNode
<1>20. ASSUME NEW x \in Keys
       PROVE  Kid(es, n, x) = IF x = DOTDOT THEN q ELSE IF x = DOT THEN p ELSE Kid(ns, n, x)
  <2>1. Kid(cs, n, x) = Kid(bs, n, x)
    BY <1>13 DEF Kid
  <2> QED BY <1>2, <1>4, <1>6, <1>14, <1>16, <2>1 DEF KidSet
<1>21. es \in Forest /\ es[n].children \in Tables
  BY <1>16 DEF KidSet
<1>22. DotsMade(ns, parent, n, es)
  BY <1>1, <1>8, <1>16, <1>17, <1>18, <1>19, <1>20, <1>21, Zenon DEF DotsMade
<1> QED BY <1>1, <1>22

-----------------------------------------------------------------------------
(* The invariant of the tree *)

MOUNT == 2   \* the directory that is mounted on the root

\* The nodes of the tree proper, links and the mount point left out.
TreeOf(ns) == {n \in 1 .. Len(ns) : ns[n].link = NULL /\ n # ROOT}
DirsOf(ns) == {n \in TreeOf(ns) : IsDir(ns, n)}
Fits(data) == data.end <= data.size /\ data.size <= data.alloc

\* The mount, the links, and what names can be.
ShapeInv(ns) ==
  /\ ns \in Forest /\ ROOT \in 1 .. Len(ns)
  /\ ns[ROOT].mountpoint = MOUNT /\ ns[ROOT].link = NULL
  /\ MOUNT \in DirsOf(ns) /\ ns[MOUNT].parent = ROOT
  /\ \A n \in 1 .. Len(ns) :
       /\ n # ROOT => ns[n].mountpoint = NULL
       /\ ns[n].link # NULL => ns[n].children = NoTable /\ ns[n].link \in DirsOf(ns) \cup {ROOT}
  /\ \A n \in TreeOf(ns) : /\ ns[n].name \notin {DOT, DOTDOT}
                           /\ n # MOUNT => ns[n].parent \in DirsOf(ns)

\* The tables of the directories say what the names and the parents say.
KidInv(ns) ==
  /\ \A d \in DirsOf(ns) :
       /\ Kid(ns, d, DOT) \in 1 .. Len(ns) /\ ns[Kid(ns, d, DOT)].link = d
       /\ Kid(ns, d, DOTDOT) \in 1 .. Len(ns) /\ ns[Kid(ns, d, DOTDOT)].link = ns[d].parent
       /\ \A k \in Keys \ {DOT, DOTDOT} :
            LET n == Kid(ns, d, k)
            IN n = NULL \/ (n \in TreeOf(ns) /\ ns[n].parent = d /\ ns[n].name = k)
  /\ \A n \in TreeOf(ns) \ {MOUNT} : Kid(ns, ns[n].parent, ns[n].name) = n

\* What has been written to a file is in its blocks.
DataInv(ns) == \A n \in TreeOf(ns) : ~IsDir(ns, n) => Fits(ns[n].data)

\* The inductive invariant of Vfs.
TreeInv(ns) == ShapeInv(ns) /\ KidInv(ns) /\ DataInv(ns)

\* A node q with name k has been added to directory d.
Added(ns, d, k, ms) ==
  LET q == Len(ns) + 1
  IN /\ KidSet(ns, d, k, q, ms) /\ q <= Len(ms)
     /\ ms[q].name = k /\ ms[q].parent = d /\ ms[q].link = NULL /\ ms[q].mountpoint = NULL

\* ms is ns with one more file, or one more directory and its links.
FileAdded(ns, d, k, ms) ==
  LET q == Len(ns) + 1
  IN /\ Added(ns, d, k, ms) /\ Len(ms) = q
     /\ ms[q].children = NoTable /\ Fits(ms[q].data)

DirAdded(ns, d, k, ms) ==
  LET q == Len(ns) + 1
  IN /\ Added(ns, d, k, ms) /\ Len(ms) = q + 2
     /\ ms[q].children \in Tables
     /\ \A x \in Keys : Kid(ms, q, x) = IF x = DOTDOT THEN q + 2 ELSE IF x = DOT THEN q + 1 ELSE NULL
     /\ ms[q + 1].children = NoTable /\ ms[q + 1].mountpoint = NULL /\ ms[q + 1].link = q
     /\ ms[q + 2].children = NoTable /\ ms[q + 2].mountpoint = NULL /\ ms[q + 2].link = d

\* A directory has a table.
LEMMA DirHasTable ==
  ASSUME NEW ns \in Forest, NEW n \in 1 .. Len(ns)
  PROVE  IsDir(ns, n) <=> ns[n].children \in Tables
<1>1. ns[n] \in TreeNode
  BY NodeType
<1>2. ns[n].children \in Tables \cup {NoTable}
  BY <1>1 DEF TreeNode
<1> QED BY <1>2, TableIsTable DEF IsDir

\* What adding a node means for the nodes there were.
LEMMA OldNodes ==
  ASSUME NEW ns \in Forest, NEW d \in 1 .. Len(ns), IsDir(ns, d), NEW k, NEW v, NEW ms,
         KidSet(ns, d, k, v, ms), Len(ns) <= Len(ms),
         NEW i \in 1 .. Len(ns)
  PROVE  /\ i \in 1 .. Len(ms) /\ SameNode(ms[i], ns[i]) /\ (IsDir(ms, i) <=> IsDir(ns, i))
         /\ i # d => ms[i] = ns[i]
         /\ \A x \in Keys : Kid(ms, i, x) = IF i = d /\ x = k THEN v ELSE Kid(ns, i, x)
<1>1. i \in 1 .. Len(ms) /\ ms \in Forest
  BY DEF KidSet, Forest
<1>2. CASE i = d
  <2>1. IsDir(ms, i) /\ IsDir(ns, i)
    BY <1>1, <1>2, DirHasTable DEF KidSet
  <2> QED BY <1>1, <1>2, <2>1 DEF KidSet
<1>3. CASE i # d
  <2>1. ms[i] = ns[i]
    BY <1>3 DEF KidSet
  <2> QED BY <1>1, <1>3, <2>1 DEF SameNode, IsDir, Kid
<1> QED BY <1>2, <1>3

\* The tree and its directories after a node has been added.
LEMMA AddedNodes ==
  ASSUME NEW ns, ShapeInv(ns), NEW d \in DirsOf(ns), NEW k, NEW ms, NEW q, q = Len(ns) + 1,
         Added(ns, d, k, ms)
  PROVE  /\ q \in Nat /\ q # ROOT /\ q # MOUNT /\ d \in 1 .. Len(ns) /\ ms \in Forest
         /\ Len(ms) \in Nat /\ q \in 1 .. Len(ms) /\ q \notin 1 .. Len(ns) /\ q \in TreeOf(ms)
         /\ \A i \in 1 .. Len(ns) :
              /\ i \in 1 .. Len(ms) /\ SameNode(ms[i], ns[i]) /\ (IsDir(ms, i) <=> IsDir(ns, i))
              /\ i # d => ms[i] = ns[i]
              /\ \A x \in Keys : Kid(ms, i, x) = IF i = d /\ x = k THEN q ELSE Kid(ns, i, x)
              /\ i \in TreeOf(ms) <=> i \in TreeOf(ns)
              /\ i \in DirsOf(ms) <=> i \in DirsOf(ns)
<1>1. /\ ns \in Forest /\ Len(ns) \in Nat /\ MOUNT \in 1 .. Len(ns)
      /\ d \in 1 .. Len(ns) /\ IsDir(ns, d)
  BY DEF ShapeInv, DirsOf, TreeOf, Forest
<1>2. KidSet(ns, d, k, q, ms) /\ q <= Len(ms) /\ ms[q].link = NULL
  BY DEF Added
<1>3. ms \in Forest /\ Len(ms) \in Nat
  BY <1>2 DEF KidSet, Forest
<1>4. /\ q \in Nat /\ q # ROOT /\ q # MOUNT /\ q \in 1 .. Len(ms) /\ q \notin 1 .. Len(ns)
      /\ Len(ns) <= Len(ms)
  BY <1>1, <1>2, <1>3 DEF ROOT, MOUNT
<1>5. q \in TreeOf(ms)
  BY <1>2, <1>4 DEF TreeOf
<1>6. ASSUME NEW i \in 1 .. Len(ns)
      PROVE  /\ i \in 1 .. Len(ms) /\ SameNode(ms[i], ns[i]) /\ (IsDir(ms, i) <=> IsDir(ns, i))
             /\ i # d => ms[i] = ns[i]
             /\ \A x \in Keys : Kid(ms, i, x) = IF i = d /\ x = k THEN q ELSE Kid(ns, i, x)
  BY <1>1, <1>2, <1>4, OldNodes
<1>7. ASSUME NEW i \in 1 .. Len(ns)
      PROVE  (i \in TreeOf(ms) <=> i \in TreeOf(ns)) /\ (i \in DirsOf(ms) <=> i \in DirsOf(ns))
  BY <1>6 DEF TreeOf, DirsOf, SameNode
<1> QED BY <1>1, <1>3, <1>4, <1>5, <1>6, <1>7, Zenon

\* What has been added is a file, or a directory with its "." and ".."; whatever
\* else is new are the links.
NodeAdded(ns, d, k, ms) ==
  LET q == Len(ns) + 1
  IN /\ Added(ns, d, k, ms)
     /\ \A i \in q + 1 .. Len(ms) : /\ ms[i].children = NoTable /\ ms[i].mountpoint = NULL
                                    /\ ms[i].link = d \/ (ms[i].link = q /\ IsDir(ms, q))
     /\ IsDir(ms, q) =>
          /\ Kid(ms, q, DOT) \in q + 1 .. Len(ms) /\ ms[Kid(ms, q, DOT)].link = q
          /\ Kid(ms, q, DOTDOT) \in q + 1 .. Len(ms) /\ ms[Kid(ms, q, DOTDOT)].link = d
          /\ \A x \in Keys \ {DOT, DOTDOT} : Kid(ms, q, x) = NULL
     /\ ~IsDir(ms, q) => Fits(ms[q].data)

\* A new node leaves the tree as it should be.
LEMMA NodeKeepsInv ==
  ASSUME NEW ns, TreeInv(ns), NEW d \in DirsOf(ns), NEW k \in Keys \ {DOT, DOTDOT},
         Kid(ns, d, k) = NULL, NEW ms, NodeAdded(ns, d, k, ms)
  PROVE  TreeInv(ms)
<1>1. PICK q : q = Len(ns) + 1
  OBVIOUS
<1>2. ShapeInv(ns) /\ KidInv(ns) /\ DataInv(ns)
  BY DEF TreeInv
<1>3. /\ Added(ns, d, k, ms) /\ ms[q].name = k /\ ms[q].parent = d /\ ms[q].link = NULL
      /\ ms[q].mountpoint = NULL /\ q <= Len(ms)
      /\ \A i \in q + 1 .. Len(ms) : /\ ms[i].children = NoTable /\ ms[i].mountpoint = NULL
                                     /\ ms[i].link = d \/ (ms[i].link = q /\ IsDir(ms, q))
      /\ ~IsDir(ms, q) => Fits(ms[q].data)
  BY <1>1, Zenon DEF NodeAdded, Added
<1>4. /\ q \in Nat /\ q # ROOT /\ q # MOUNT /\ d \in 1 .. Len(ns) /\ ms \in Forest
      /\ Len(ms) \in Nat /\ q \in 1 .. Len(ms) /\ q \notin 1 .. Len(ns) /\ q \in TreeOf(ms)
  BY <1>1, <1>2, <1>3, AddedNodes, SMTT(20)
<1>5. \A i \in 1 .. Len(ns) :
        /\ i \in 1 .. Len(ms) /\ SameNode(ms[i], ns[i]) /\ (IsDir(ms, i) <=> IsDir(ns, i))
        /\ i # d => ms[i] = ns[i]
        /\ \A x \in Keys : Kid(ms, i, x) = IF i = d /\ x = k THEN q ELSE Kid(ns, i, x)
        /\ i \in TreeOf(ms) <=> i \in TreeOf(ns)
        /\ i \in DirsOf(ms) <=> i \in DirsOf(ns)
  BY <1>1, <1>2, <1>3, AddedNodes, SMTT(20)
<1>6. /\ \A i \in 1 .. Len(ms) : i = q \/ i \in q + 1 .. Len(ms) \/ i \in 1 .. Len(ns)
      /\ \A i \in q + 1 .. Len(ms) : i \in 1 .. Len(ms) /\ i # ROOT /\ i # q /\ i \notin 1 .. Len(ns)
      /\ q # NULL /\ d # NULL
  <2>1. q \in Nat /\ Len(ns) \in Nat /\ q = Len(ns) + 1 /\ Len(ns) # 0
    BY <1>1, <1>2, <1>4, SMTT(20) DEF ShapeInv, Forest, ROOT
  <2> QED BY <1>4, <2>1, SMTT(20) DEF ROOT, NULL
<1>7. IsDir(ms, q) =>
        /\ Kid(ms, q, DOT) \in q + 1 .. Len(ms) /\ ms[Kid(ms, q, DOT)].link = q
        /\ Kid(ms, q, DOTDOT) \in q + 1 .. Len(ms) /\ ms[Kid(ms, q, DOTDOT)].link = d
        /\ \A x \in Keys \ {DOT, DOTDOT} : Kid(ms, q, x) = NULL
  BY <1>1, Zenon DEF NodeAdded
<1>8. /\ \A i \in TreeOf(ms) : i = q \/ (i \in 1 .. Len(ns) /\ i \in TreeOf(ns))
      /\ \A i \in DirsOf(ms) : (i = q /\ IsDir(ms, q)) \/ (i \in 1 .. Len(ns) /\ i \in DirsOf(ns))
      /\ IsDir(ms, q) => q \in DirsOf(ms)
      /\ \A i \in DirsOf(ns) : i \in DirsOf(ms) /\ i \in 1 .. Len(ns)
      /\ \A i \in TreeOf(ns) : i \in TreeOf(ms) /\ i \in 1 .. Len(ns)
  <2>1. \A i \in q + 1 .. Len(ms) : i \notin TreeOf(ms)
    BY <1>3, <1>6, SMTT(20) DEF TreeOf
  <2> QED BY <1>4, <1>5, <1>6, <2>1, Zenon DEF TreeOf, DirsOf
<1>9. ShapeInv(ms)
  <2>1. /\ ROOT \in 1 .. Len(ns) /\ ns[ROOT].mountpoint = MOUNT /\ ns[ROOT].link = NULL
        /\ MOUNT \in DirsOf(ns) /\ ns[MOUNT].parent = ROOT
    BY <1>2, Zenon DEF ShapeInv
  <2>2. /\ ROOT \in 1 .. Len(ms) /\ ms[ROOT].mountpoint = MOUNT /\ ms[ROOT].link = NULL
        /\ MOUNT \in DirsOf(ms) /\ ms[MOUNT].parent = ROOT
    BY <1>5, <1>8, <2>1, Zenon DEF SameNode
  <2>3. ASSUME NEW n \in 1 .. Len(ms)
        PROVE  /\ n # ROOT => ms[n].mountpoint = NULL
               /\ ms[n].link # NULL =>
                    ms[n].children = NoTable /\ ms[n].link \in DirsOf(ms) \cup {ROOT}
    <3>1. CASE n = q
      BY <1>3, <3>1, Zenon
    <3>2. CASE n \in q + 1 .. Len(ms)
      BY <1>3, <1>8, <3>2, Zenon
    <3>3. CASE n \in 1 .. Len(ns)
      <4>1. SameNode(ms[n], ns[n]) /\ (IsDir(ms, n) <=> IsDir(ns, n))
        BY <1>5, <3>3, Zenon
      <4>2. n # ROOT => ms[n].mountpoint = NULL
        BY <1>2, <3>3, <4>1, Zenon DEF ShapeInv, SameNode
      <4>3. ms[n].link # NULL => ns[n].children = NoTable /\ ns[n].link \in DirsOf(ns) \cup {ROOT}
        BY <1>2, <3>3, <4>1, Zenon DEF ShapeInv, SameNode
      <4>4. ms[n].link # NULL => ms[n].children = NoTable
        BY <4>1, <4>3, Zenon DEF IsDir
      <4> QED BY <1>8, <4>1, <4>2, <4>3, <4>4, Zenon DEF SameNode
    <3> QED BY <1>6, <3>1, <3>2, <3>3, Zenon
  <2>4. ASSUME NEW n \in TreeOf(ms)
        PROVE  ms[n].name \notin {DOT, DOTDOT} /\ (n # MOUNT => ms[n].parent \in DirsOf(ms))
    <3>1. CASE n = q
      BY <1>3, <1>8, <3>1, Zenon
    <3>2. CASE n \in 1 .. Len(ns) /\ n \in TreeOf(ns)
      <4>1. SameNode(ms[n], ns[n])
        BY <1>5, <3>2, Zenon
      <4>2. ns[n].name \notin {DOT, DOTDOT} /\ (n # MOUNT => ns[n].parent \in DirsOf(ns))
        BY <1>2, <3>2, Zenon DEF ShapeInv
      <4> QED BY <1>8, <4>1, <4>2 DEF SameNode
    <3> QED BY <1>8, <3>1, <3>2, Zenon
  <2> QED BY <1>4, <2>2, <2>3, <2>4, Zenon DEF ShapeInv
<1>10. KidInv(ms)
  <2>1. ASSUME NEW e \in DirsOf(ms)
        PROVE  /\ Kid(ms, e, DOT) \in 1 .. Len(ms) /\ ms[Kid(ms, e, DOT)].link = e
               /\ Kid(ms, e, DOTDOT) \in 1 .. Len(ms)
               /\ ms[Kid(ms, e, DOTDOT)].link = ms[e].parent
    <3>1. DOT \in Keys /\ DOTDOT \in Keys /\ DOT # DOTDOT
      BY VfsAssumption, Zenon DEF Keys, DOT, DOTDOT
    <3>2. CASE e = q
      BY <1>3, <1>4, <1>6, <1>7, <1>8, <3>2, Zenon
    <3> SUFFICES ASSUME e # q
                 PROVE  /\ Kid(ms, e, DOT) \in 1 .. Len(ms) /\ ms[Kid(ms, e, DOT)].link = e
                        /\ Kid(ms, e, DOTDOT) \in 1 .. Len(ms)
                        /\ ms[Kid(ms, e, DOTDOT)].link = ms[e].parent
      BY <3>2
    <3>3. e \in DirsOf(ns) /\ e \in 1 .. Len(ns) /\ ms[e].parent = ns[e].parent
      BY <1>5, <1>8 DEF SameNode
    <3>4. Kid(ms, e, DOT) = Kid(ns, e, DOT) /\ Kid(ms, e, DOTDOT) = Kid(ns, e, DOTDOT)
      BY <1>5, <3>3, <3>1, Zenon
    <3>5. /\ Kid(ns, e, DOT) \in 1 .. Len(ns) /\ ns[Kid(ns, e, DOT)].link = e
          /\ Kid(ns, e, DOTDOT) \in 1 .. Len(ns) /\ ns[Kid(ns, e, DOTDOT)].link = ns[e].parent
      BY <1>2, <3>3 DEF KidInv
    <3> QED BY <1>5, <3>3, <3>4, <3>5 DEF SameNode
  <2>2. ASSUME NEW e \in DirsOf(ms), NEW x \in Keys \ {DOT, DOTDOT}
        PROVE  LET n == Kid(ms, e, x)
               IN n = NULL \/ (n \in TreeOf(ms) /\ ms[n].parent = e /\ ms[n].name = x)
    <3>1. CASE e = q
      <4>1. Kid(ms, e, x) = NULL
        BY <1>4, <1>7, <1>8, <3>1
      <4> QED BY <4>1, Zenon
    <3> SUFFICES ASSUME e # q
                 PROVE  LET n == Kid(ms, e, x)
                        IN n = NULL \/ (n \in TreeOf(ms) /\ ms[n].parent = e /\ ms[n].name = x)
      BY <3>1
    <3>2. e \in DirsOf(ns) /\ e \in 1 .. Len(ns)
      BY <1>8, Zenon
    <3>3. CASE e = d /\ x = k
      <4>1. Kid(ms, e, x) = q
        BY <1>5, <3>2, <3>3
      <4> QED BY <1>3, <1>4, <3>3, <4>1
    <3>4. CASE ~(e = d /\ x = k)
      <4>1. PICK n : n = Kid(ns, e, x)
        BY SMTT(20)
      <4>2. Kid(ms, e, x) = n
        BY <1>5, <3>2, <3>4, <4>1, Zenon
      <4>3. n = NULL \/ (n \in TreeOf(ns) /\ ns[n].parent = e /\ ns[n].name = x)
        BY <1>2, <3>2, <4>1, SMTT(20) DEF KidInv
      <4>4. n = NULL \/ (n \in TreeOf(ms) /\ ms[n].parent = e /\ ms[n].name = x)
        BY <1>5, <1>8, <4>3, Zenon DEF SameNode
      <4> QED BY <4>2, <4>4, SMTT(20)
    <3> QED BY <3>3, <3>4
  <2>3. ASSUME NEW n \in TreeOf(ms) \ {MOUNT} PROVE Kid(ms, ms[n].parent, ms[n].name) = n
    <3>1. CASE n = q
      BY <1>3, <1>4, <1>5, <3>1, SMTT(20)
    <3>2. CASE n \in 1 .. Len(ns) /\ n \in TreeOf(ns)
      <4>1. PICK e, x : e = ns[n].parent /\ x = ns[n].name
        BY SMTT(20)
      <4>2. ms[n].parent = e /\ ms[n].name = x
        BY <1>5, <3>2, <4>1, Zenon DEF SameNode
      <4>3. e \in DirsOf(ns) /\ e \in 1 .. Len(ns) /\ Kid(ns, e, x) = n
        BY <1>2, <1>8, <2>3, <3>2, <4>1, Zenon DEF ShapeInv, KidInv
      <4>4. x \in Keys
        BY <1>2, <3>2, <4>1, NodeType DEF TreeNode, ShapeInv
      <4>5. n # NULL
        BY <3>2 DEF NULL
      <4>6. Kid(ms, e, x) = n
        BY <1>5, <4>3, <4>4, <4>5, Zenon
      <4> QED BY <4>2, <4>6, SMTT(20)
    <3> QED BY <1>8, <2>3, <3>1, <3>2, Zenon
  <2> QED BY <2>1, <2>2, <2>3, Zenon DEF KidInv
<1>11. DataInv(ms)
  <2> SUFFICES ASSUME NEW n \in TreeOf(ms), ~IsDir(ms, n) PROVE Fits(ms[n].data)
    BY Zenon DEF DataInv
  <2>1. CASE n = q
    BY <1>3, <2>1
  <2>2. CASE n \in 1 .. Len(ns) /\ n \in TreeOf(ns)
    BY <1>2, <1>5, <2>2 DEF DataInv, SameNode
  <2> QED BY <1>8, <2>1, <2>2
<1> QED BY <1>9, <1>10, <1>11 DEF TreeInv

\* A file.
LEMMA FileKeepsInv ==
  ASSUME NEW ns, TreeInv(ns), NEW d \in DirsOf(ns), NEW k \in Keys \ {DOT, DOTDOT},
         Kid(ns, d, k) = NULL, NEW ms, FileAdded(ns, d, k, ms)
  PROVE  TreeInv(ms)
<1>1. PICK q : q = Len(ns) + 1
  OBVIOUS
<1>2. /\ Added(ns, d, k, ms) /\ Len(ms) = q /\ ms[q].children = NoTable /\ Fits(ms[q].data)
      /\ q \in Nat /\ ~(\E i \in q + 1 .. Len(ms) : TRUE)
  BY <1>1 DEF FileAdded, TreeInv, ShapeInv, Forest
<1>3. ~IsDir(ms, q)
  BY <1>2, Zenon DEF IsDir
<1>4. NodeAdded(ns, d, k, ms)
  BY <1>1, <1>2, <1>3, Zenon DEF NodeAdded
<1> QED BY <1>4, NodeKeepsInv, Zenon

\* A directory, with its "." and "..".
LEMMA DirKeepsInv ==
  ASSUME NEW ns, TreeInv(ns), NEW d \in DirsOf(ns), NEW k \in Keys \ {DOT, DOTDOT},
         Kid(ns, d, k) = NULL, NEW ms, DirAdded(ns, d, k, ms)
  PROVE  TreeInv(ms)
<1>1. PICK q : q = Len(ns) + 1
  OBVIOUS
<1>2. /\ Added(ns, d, k, ms) /\ Len(ms) = q + 2 /\ ms[q].children \in Tables
      /\ \A x \in Keys : Kid(ms, q, x) = IF x = DOTDOT THEN q + 2
                                         ELSE IF x = DOT THEN q + 1 ELSE NULL
      /\ ms[q + 1].children = NoTable /\ ms[q + 1].mountpoint = NULL /\ ms[q + 1].link = q
      /\ ms[q + 2].children = NoTable /\ ms[q + 2].mountpoint = NULL /\ ms[q + 2].link = d
  BY <1>1 DEF DirAdded
<1>3. /\ \A i \in q + 1 .. Len(ms) : i = q + 1 \/ i = q + 2
      /\ q + 1 \in q + 1 .. Len(ms) /\ q + 2 \in q + 1 .. Len(ms)
  <2>1. Len(ms) = q + 2
    BY <1>2, SMTT(20)
  <2>2. q \in Nat
    BY <1>1, SMTT(20) DEF TreeInv, ShapeInv, Forest
  <2> QED BY <2>1, <2>2, SMTT(20)
<1>4. IsDir(ms, q)
  BY <1>2, TableIsTable, SMTT(20) DEF IsDir
<1>5. DOT \in Keys /\ DOTDOT \in Keys /\ DOT # DOTDOT
  BY VfsAssumption, Zenon DEF Keys, DOT, DOTDOT
<1>6. /\ \A i \in q + 1 .. Len(ms) : /\ ms[i].children = NoTable /\ ms[i].mountpoint = NULL
                                     /\ ms[i].link = d \/ (ms[i].link = q /\ IsDir(ms, q))
      /\ Kid(ms, q, DOT) = q + 1 /\ Kid(ms, q, DOTDOT) = q + 2
      /\ \A x \in Keys \ {DOT, DOTDOT} : Kid(ms, q, x) = NULL
  BY <1>2, <1>3, <1>4, <1>5, Zenon
<1>7. NodeAdded(ns, d, k, ms)
  BY <1>1, <1>2, <1>3, <1>4, <1>6, SMTT(20) DEF NodeAdded
<1> QED BY <1>7, NodeKeepsInv

\* The larger of two numbers.
LEMMA MaxOfTwo ==
  ASSUME NEW a \in Int, NEW b \in Int
  PROVE  Max({a, b}) = IF a >= b THEN a ELSE b
<1>1. PICK m : m = (IF a >= b THEN a ELSE b)
  BY SMTT(20)
<1>2. m \in {a, b} /\ \A y \in {a, b} : m >= y
  BY <1>1, SMTT(20)
<1>3. \A x \in {a, b} : (\A y \in {a, b} : x >= y) => x = m
  BY <1>1, SMTT(20)
<1> QED BY <1>1, <1>2, <1>3, SMTT(20) DEF Max

\* The fields of a new node.
LEMMA FreshParts ==
  ASSUME NEW name, NEW parent, NEW dir \in BOOLEAN, NEW link, NEW data, NEW r,
         r = Fresh(name, parent, dir, link, data)
  PROVE  /\ r.name = name /\ r.parent = parent /\ r.link = link /\ r.mountpoint = NULL
         /\ r.children = (IF dir THEN NewTable ELSE NoTable) /\ r.data = data
BY DEF Fresh

\* tmpfs_create in a directory.
LEMMA NewNode ==
  ASSUME NEW ns, ShapeInv(ns), NEW d \in DirsOf(ns), NEW k \in Keys, NEW dir \in BOOLEAN,
         NEW ms, ms = tmpfs_create(ns, d, k, dir), NEW q, q = Len(ns) + 1
  PROVE  /\ Added(ns, d, k, ms) /\ Len(ms) = q /\ ms[q].data = NewData(dir)
         /\ ms[q].children = IF dir THEN NewTable ELSE NoTable
<1>1. ns \in Forest /\ d \in 1 .. Len(ns) /\ IsDir(ns, d) /\ Len(ns) \in Nat
  BY DEF ShapeInv, DirsOf, TreeOf, Forest
<1>2. ns[d].children \in Tables
  BY <1>1, DirHasTable
<1>3. PICK r, x : r = ms[q] /\ x = NewData(dir)
  BY Zenon
<1>4. KidSet(ns, d, k, q, ms) /\ Len(ms) = q /\ r = Fresh(k, d, dir, NULL, x)
  BY <1>1, <1>2, <1>3, TmpfsCreateEffect, Zenon
<1>5. /\ r.name = k /\ r.parent = d /\ r.link = NULL /\ r.mountpoint = NULL
      /\ r.children = (IF dir THEN NewTable ELSE NoTable) /\ r.data = x
  BY <1>4, FreshParts
<1>6. q <= q
  BY <1>1
<1> QED BY <1>3, <1>4, <1>5, <1>6, Zenon DEF Added

\* tmpfs_create of a regular file.
LEMMA NewFile ==
  ASSUME NEW ns, ShapeInv(ns), NEW d \in DirsOf(ns), NEW k \in Keys, NEW dir \in BOOLEAN, ~dir,
         NEW ms, ms = tmpfs_create(ns, d, k, dir)
  PROVE  FileAdded(ns, d, k, ms) /\ ms[Len(ns) + 1].data = NewData(dir)
<1>1. PICK q : q = Len(ns) + 1
  OBVIOUS
<1>2. /\ Added(ns, d, k, ms) /\ Len(ms) = q /\ ms[q].data = NewData(dir)
      /\ ms[q].children = NoTable
  BY <1>1, NewNode
<1>3. Fits(NewData(dir))
  <2>1. NewData(dir) = [alloc |-> FRAME_SIZE, blocks |-> 1, size |-> FRAME_SIZE, end |-> 0]
    BY DEF NewData
  <2> QED BY <2>1, VfsAssumption DEF Fits
<1> QED BY <1>1, <1>2, <1>3 DEF FileAdded

\* The blocks of a page count reach beyond the last byte.
LEMMA PagesReach ==
  ASSUME NEW count \in Nat
  PROVE  LET page == count \div FRAME_SIZE
         IN /\ page \in Nat /\ (page + 1) * FRAME_SIZE \in Nat
            /\ count <= (page + 1) * FRAME_SIZE
            /\ ~(1 <= page) => count <= FRAME_SIZE
<1>1. FRAME_SIZE \in Nat /\ FRAME_SIZE # 0
  BY VfsAssumption
<1>2. PICK page : page = count \div FRAME_SIZE
  OBVIOUS
<1>3. page \in Nat
  BY <1>1, <1>2
<1>4. count <= (page + 1) * FRAME_SIZE /\ (page + 1) * FRAME_SIZE \in Nat
  BY <1>1, <1>2, <1>3
<1>5. ~(1 <= page) => count <= FRAME_SIZE
  <2>1. ~(1 <= page) => page = 0
    BY <1>3
  <2> QED BY <1>1, <1>4, <2>1
<1> QED BY <1>2, <1>3, <1>4, <1>5

\* tmpfs_write into a new file: the file grows exactly when the data need it.
LEMMA GrownData ==
  ASSUME NEW count \in Nat, NEW page, page = count \div FRAME_SIZE,
         NEW dir \in BOOLEAN, ~dir, NEW x, x = NewData(dir),
         NEW y, y = IF x.blocks <= page
                    THEN [alloc |-> (page + 1) * FRAME_SIZE, blocks |-> page + 1,
                          size |-> count, end |-> x.end]
                    ELSE x
  PROVE  y \in FileData /\ y.end = 0 /\ count <= y.size /\ y.size <= y.alloc
<1>1. PICK g : g = (page + 1) * FRAME_SIZE
  OBVIOUS
<1>2. page \in Nat /\ g \in Nat /\ count <= g /\ (~(1 <= page) => count <= FRAME_SIZE)
  BY <1>1, PagesReach
<1>3. FRAME_SIZE \in Nat
  BY VfsAssumption
<1>4. x.blocks = 1 /\ x.end = 0
  BY DEF NewData
<1>5. CASE 1 <= page
  <2>1. y = [alloc |-> g, blocks |-> page + 1, size |-> count, end |-> 0]
    BY <1>1, <1>4, <1>5
  <2> QED BY <1>2, <2>1 DEF FileData
<1>6. CASE ~(1 <= page)
  <2>1. y = [alloc |-> FRAME_SIZE, blocks |-> 1, size |-> FRAME_SIZE, end |-> 0]
    BY <1>4, <1>6 DEF NewData
  <2> QED BY <1>2, <1>3, <1>6, <2>1 DEF FileData
<1> QED BY <1>5, <1>6

\* The data of a file that was empty, after a write that fits.
LEMMA EndOfData ==
  ASSUME NEW count \in Nat, NEW y \in FileData, y.end = 0, count <= y.size, y.size <= y.alloc,
         NEW z, z = [y EXCEPT !.end = Max({@, count})]
  PROVE  z \in FileData /\ Fits(z)
<1>1. Max({0, count}) = count
  BY MaxOfTwo
<1>2. z = [y EXCEPT !.end = count]
  BY <1>1
<1>3. z \in FileData /\ z.end = count /\ z.size = y.size /\ z.alloc = y.alloc
  BY <1>2, Zenon DEF FileData
<1> QED BY <1>3 DEF Fits

\* tmpfs_write to a new file leaves a tree with that file.
LEMMA WrittenFile ==
  ASSUME NEW ns, ShapeInv(ns), NEW d \in DirsOf(ns), NEW k \in Keys, NEW dir \in BOOLEAN, ~dir,
         NEW ms, FileAdded(ns, d, k, ms), ms[Len(ns) + 1].data = NewData(dir),
         NEW count \in Nat, NEW os, os = tmpfs_write(ms, Len(ns) + 1, count, 0)
  PROVE  FileAdded(ns, d, k, os)
<1>1. PICK q : q = Len(ns) + 1
  OBVIOUS
<1>2. PICK page, x, y, z :
        /\ page = count \div FRAME_SIZE /\ x = ms[q].data
        /\ y = IF x.blocks <= page
               THEN [alloc |-> (page + 1) * FRAME_SIZE, blocks |-> page + 1,
                     size |-> count, end |-> x.end]
               ELSE x
        /\ z = [y EXCEPT !.end = Max({@, count})]
        /\ os = [ms EXCEPT ![q].data = z]
  <2>1. 0 + count = count
    BY SMTT(20)
  <2> QED BY <1>1, <2>1, Zenon DEF tmpfs_write
<1>3. x = NewData(dir)
  BY <1>1, <1>2, SMTT(20)
<1>4. z \in FileData /\ Fits(z)
  <2>1. y \in FileData /\ y.end = 0 /\ count <= y.size /\ y.size <= y.alloc
    BY <1>2, <1>3, GrownData, SMTT(20)
  <2> QED BY <1>2, <2>1, EndOfData, Zenon
<1>5. /\ Added(ns, d, k, ms) /\ Len(ms) = q /\ ms[q].children = NoTable /\ KidSet(ns, d, k, q, ms)
      /\ ms[q].name = k /\ ms[q].parent = d /\ ms[q].link = NULL /\ ms[q].mountpoint = NULL
  BY <1>1, Zenon DEF FileAdded, Added
<1>6. /\ ns \in Forest /\ Len(ns) \in Nat /\ ms \in Forest /\ q \in 1 .. Len(ms) /\ q \in Nat
      /\ d \in 1 .. Len(ns)
  BY <1>1, <1>5, SMTT(20) DEF ShapeInv, Forest, KidSet, DirsOf, TreeOf
<1>7. ms[q] \in TreeNode
  BY <1>6, NodeType, SMTT(20)
<1>8. PICK r : r = [ms[q] EXCEPT !.data = z]
  BY Zenon
<1>9. /\ r \in TreeNode /\ r.children = NoTable /\ r.data = z
      /\ r.name = k /\ r.parent = d /\ r.link = NULL /\ r.mountpoint = NULL
  BY <1>4, <1>5, <1>7, <1>8, SMTT(20) DEF TreeNode
<1>10. os = [ms EXCEPT ![q] = r]
  BY <1>2, <1>8, Zenon
<1>11. /\ os \in Forest /\ Len(os) = q /\ os[q] = r
       /\ \A i \in 1 .. Len(ns) : os[i] = ms[i]
  BY <1>1, <1>5, <1>6, <1>9, <1>10 DEF Forest
<1>12. KidSet(ns, d, k, q, os)
  BY <1>5, <1>6, <1>11, NewNodeSet
<1>13. q <= q
  BY <1>6
<1> QED BY <1>1, <1>4, <1>9, <1>11, <1>12, <1>13, Zenon DEF FileAdded, Added

\* create_dot in a new directory.
LEMMA NewDir ==
  ASSUME NEW ns, ShapeInv(ns), NEW d \in DirsOf(ns), NEW k \in Keys,
         NEW ms, Added(ns, d, k, ms), Len(ms) = Len(ns) + 1,
         ms[Len(ns) + 1].children = NewTable,
         NEW os, os = create_dot(ms, d, Len(ns) + 1)
  PROVE  DirAdded(ns, d, k, os)
<1>1. ns \in Forest /\ d \in 1 .. Len(ns) /\ Len(ns) \in Nat /\ d \in Nat
  BY DEF ShapeInv, DirsOf, TreeOf, Forest
<1>2. PICK q : q = Len(ns) + 1
  OBVIOUS
<1>3. Added(ns, d, k, ms) /\ Len(ms) = q /\ ms[q].children = NewTable
  BY <1>2, Zenon
<1>4. /\ ms[q].name = k /\ ms[q].parent = d /\ ms[q].link = NULL /\ ms[q].mountpoint = NULL
      /\ KidSet(ns, d, k, q, ms) /\ ms \in Forest
  BY <1>2, <1>3 DEF Added, KidSet
<1>5. ms[q].children \in Tables /\ \A x \in Keys : Kid(ms, q, x) = NULL
  BY <1>3, NewTableGet DEF Kid
<1>6. q \in 1 .. Len(ms) /\ q <= q + 2
  BY <1>1, <1>2, <1>3
<1>7. DotsMade(ms, d, q, os)
  BY <1>1, <1>2, <1>4, <1>5, <1>6, CreateDotEffect, Zenon
<1>8. /\ os \in Forest /\ Len(os) = q + 2
      /\ \A i \in 1 .. Len(ms) : i # q => os[i] = ms[i]
      /\ SameNode(os[q], ms[q]) /\ os[q].children \in Tables
      /\ \A x \in Keys : Kid(os, q, x) = IF x = DOTDOT THEN q + 2
                                         ELSE IF x = DOT THEN q + 1 ELSE NULL
  BY <1>3, <1>5, <1>7, Zenon DEF DotsMade
<1>9. \A i \in 1 .. Len(ns) : os[i] = ms[i]
  <2>1. \A i \in 1 .. Len(ns) : i \in 1 .. Len(ms) /\ i # q
    BY <1>1, <1>2, SMTT(20)
  <2> QED BY <1>8, <2>1, Zenon
<1>10. KidSet(ns, d, k, q, os)
  BY <1>1, <1>4, <1>8, <1>9, NewNodeSet, Zenon
<1>11. /\ os[q].name = k /\ os[q].parent = d /\ os[q].link = NULL /\ os[q].mountpoint = NULL
  BY <1>4, <1>8, SMTT(20) DEF SameNode
<1>12. /\ os[q + 1] = Fresh(DOT, q, FALSE, q, NoData)
       /\ os[q + 2] = Fresh(DOT, q, FALSE, d, NoData)
  BY <1>3, <1>7, Zenon DEF DotsMade
<1>13. /\ os[q + 1].children = NoTable /\ os[q + 1].mountpoint = NULL /\ os[q + 1].link = q
       /\ os[q + 2].children = NoTable /\ os[q + 2].mountpoint = NULL /\ os[q + 2].link = d
  BY <1>12, SMTT(20) DEF Fresh
<1> QED BY <1>2, <1>6, <1>8, <1>10, <1>11, <1>13, Zenon DEF DirAdded, Added

\* The root and the directory mounted on it, with its "." and "..".
LEMMA MountedInv ==
  ASSUME NEW ms \in Forest, Len(ms) = 2,
         ms[1].mountpoint = 2, ms[1].link = NULL,
         ms[2].name = SLASH, ms[2].parent = 1, ms[2].link = NULL, ms[2].mountpoint = NULL,
         ms[2].children = NewTable,
         NEW es, es = create_dot(ms, 1, 2)
  PROVE  TreeInv(es)
<1>1. ms[2].children \in Tables /\ \A x \in Keys : Kid(ms, 2, x) = NULL
  BY NewTableGet, SMTT(20) DEF Kid
<1>2. DotsMade(ms, 1, 2, es)
  BY <1>1, CreateDotEffect, SMTT(20)
<1>3. /\ es \in Forest /\ Len(es) = 4 /\ es[1] = ms[1] /\ SameNode(es[2], ms[2])
      /\ es[2].children \in Tables
      /\ \A x \in Keys : Kid(es, 2, x) = IF x = DOTDOT THEN 4 ELSE IF x = DOT THEN 3 ELSE NULL
  BY <1>1, <1>2, SMTT(20) DEF DotsMade
<1>4. /\ es[3] = Fresh(DOT, 2, FALSE, 2, NoData) /\ es[4] = Fresh(DOT, 2, FALSE, 1, NoData)
  <2>1. Len(ms) + 1 = 3 /\ Len(ms) + 2 = 4
    OBVIOUS
  <2> QED BY <1>2, <2>1, Zenon DEF DotsMade
<1>5. /\ es[3].children = NoTable /\ es[3].mountpoint = NULL /\ es[3].link = 2
      /\ es[4].children = NoTable /\ es[4].mountpoint = NULL /\ es[4].link = 1
  BY <1>4 DEF Fresh
<1>6. /\ es[2].name = SLASH /\ es[2].parent = 1 /\ es[2].link = NULL /\ es[2].mountpoint = NULL
      /\ es[1].mountpoint = 2 /\ es[1].link = NULL /\ IsDir(es, 2)
  BY <1>3, TableIsTable DEF SameNode, IsDir
<1>7. \A n \in 1 .. Len(es) : n = 1 \/ n = 2 \/ n = 3 \/ n = 4
  <2>1. \A n \in 1 .. 4 : n = 1 \/ n = 2 \/ n = 3 \/ n = 4
    OBVIOUS
  <2> QED BY <1>3, <2>1, Zenon
<1>8. 1 \in 1 .. Len(es) /\ 2 \in 1 .. Len(es) /\ 3 \in 1 .. Len(es) /\ 4 \in 1 .. Len(es)
  <2>1. 1 \in 1 .. 4 /\ 2 \in 1 .. 4 /\ 3 \in 1 .. 4 /\ 4 \in 1 .. 4
    OBVIOUS
  <2> QED BY <1>3, <2>1, Zenon
<1>9. TreeOf(es) = {2} /\ DirsOf(es) = {2}
  BY <1>5, <1>6, <1>7, <1>8 DEF TreeOf, DirsOf, ROOT, NULL
<1>10. ShapeInv(es)
  <2>1. ASSUME NEW n \in 1 .. Len(es)
        PROVE  /\ n # ROOT => es[n].mountpoint = NULL
               /\ es[n].link # NULL =>
                    es[n].children = NoTable /\ es[n].link \in DirsOf(es) \cup {ROOT}
    BY <1>5, <1>6, <1>7, <1>9 DEF ROOT
  <2>2. SLASH \notin {DOT, DOTDOT}
    BY Zenon DEF SLASH, DOT, DOTDOT
  <2> QED BY <1>3, <1>6, <1>8, <1>9, <2>1, <2>2, Zenon DEF ShapeInv, ROOT, MOUNT
<1>11. KidInv(es)
  <2>1. DOT \in Keys /\ DOTDOT \in Keys /\ DOT # DOTDOT
    BY VfsAssumption DEF Keys, DOT, DOTDOT
  <2>2. Kid(es, 2, DOT) = 3 /\ Kid(es, 2, DOTDOT) = 4
    BY <1>3, <2>1, Zenon
  <2>3. \A k \in Keys \ {DOT, DOTDOT} : Kid(es, 2, k) = NULL
    BY <1>3, Zenon
  <2> QED BY <1>5, <1>6, <1>8, <1>9, <2>2, <2>3, Zenon DEF KidInv, MOUNT
<1>12. DataInv(es)
  BY <1>6, <1>9, Zenon DEF DataInv
<1> QED BY <1>10, <1>11, <1>12, SMTT(20) DEF TreeInv

\* vfs_init leaves the tree as it should be.
LEMMA InitInv == TreeInv(vfs_init)
<1>1. PICK dir, root, rs, os, ms, r, t :
        /\ dir = TRUE /\ root = Fresh(EMPTY, NULL, dir, NULL, NoData) /\ rs = <<root>>
        /\ os = tmpfs_create(rs, 1, SLASH, dir) /\ r = [os[1] EXCEPT !.mountpoint = 2]
        /\ ms = [os EXCEPT ![1] = r] /\ t = os[2]
  BY Zenon
<1>2. vfs_init = create_dot(ms, 1, 2)
  <2>1. Len(rs) + 1 = 2
    BY <1>1
  <2>2. root = [name |-> EMPTY, parent |-> NULL, children |-> NewTable,
                mountpoint |-> NULL, link |-> NULL, data |-> NoData]
    BY <1>1 DEF Fresh
  <2>3. vfs_init = vfs_mount(rs, 1, 1, SLASH)
    BY <1>1, <2>2, Zenon DEF vfs_init, ROOT
  <2>4. vfs_mount(rs, 1, 1, SLASH) =
          create_dot([tmpfs_create(rs, 1, SLASH, TRUE) EXCEPT ![1].mountpoint = 2], 1, 2)
    BY <2>1, Zenon DEF vfs_mount, tmpfs_mount
  <2>5. [os EXCEPT ![1].mountpoint = 2] = ms
    BY <1>1, Zenon
  <2> QED BY <1>1, <2>3, <2>4, <2>5, Zenon
<1>3. NoData \in FileData /\ EMPTY \in Keys /\ SLASH \in Keys /\ NULL \in Nat /\ dir \in BOOLEAN
  BY <1>1, VfsAssumption DEF NoData, FileData, Keys, NULL
<1>4. root \in TreeNode
  BY <1>1, <1>3, FreshType, Zenon
<1>5. rs \in Forest /\ Len(rs) = 1 /\ rs[1] = root
  <2>1. rs = <<root>>
    BY <1>1
  <2> QED BY <1>4, <2>1 DEF Forest
<1>6. root.mountpoint = NULL /\ root.link = NULL /\ root.children = NewTable
  <2>1. root = Fresh(EMPTY, NULL, TRUE, NULL, NoData)
    BY <1>1
  <2> QED BY <2>1 DEF Fresh
<1>7. rs[1].children \in Tables
  BY <1>5, <1>6, NewTableGet
<1>8. /\ KidSet(rs, 1, SLASH, 2, os) /\ Len(os) = 2
      /\ t = Fresh(SLASH, 1, dir, NULL, NewData(dir))
  <2>1. 1 \in 1 .. Len(rs) /\ Len(rs) + 1 = 2
    BY <1>5
  <2>2. os = tmpfs_create(rs, 1, SLASH, dir) /\ t = os[2] /\ SLASH \in Keys /\ dir \in BOOLEAN
    BY <1>1, <1>3
  <2>3. PICK d, k, q, x : d = 1 /\ k = SLASH /\ q = Len(rs) + 1 /\ x = NewData(dir)
    OBVIOUS
  <2>4. /\ rs \in Forest /\ d \in 1 .. Len(rs) /\ rs[d].children \in Tables /\ k \in Keys
        /\ dir \in BOOLEAN /\ os = tmpfs_create(rs, d, k, dir)
    BY <1>5, <1>7, <2>1, <2>2, <2>3, Zenon
  <2>5. /\ KidSet(rs, d, k, q, os) /\ Len(os) = q
        /\ os[q] = Fresh(k, d, dir, NULL, x)
    BY <2>3, <2>4, TmpfsCreateEffect
  <2> QED BY <2>1, <2>2, <2>3, <2>5, Zenon
<1>9. /\ t.name = SLASH /\ t.parent = 1 /\ t.link = NULL /\ t.mountpoint = NULL
      /\ t.children = NewTable
  <2>1. t.name = SLASH /\ t.parent = 1 /\ t.link = NULL /\ t.mountpoint = NULL
        /\ t.children = IF dir THEN NewTable ELSE NoTable
    BY <1>3, <1>8, FreshParts
  <2> QED BY <1>1, <2>1, Zenon
<1>10. os \in Forest /\ SameNode(os[1], rs[1])
  BY <1>8 DEF KidSet
<1>11. os[1] \in TreeNode
  <2>1. 1 \in 1 .. Len(os)
    BY <1>8
  <2> QED BY <1>10, <2>1, NodeType
<1>12. r \in TreeNode /\ r.mountpoint = 2 /\ r.link = NULL
  <2>1. os[1].link = NULL
    BY <1>5, <1>6, <1>10 DEF SameNode
  <2>2. r = [os[1] EXCEPT !.mountpoint = 2]
    BY <1>1
  <2> QED BY <1>11, <2>1, <2>2 DEF TreeNode
<1>13. ms \in Forest /\ Len(ms) = 2 /\ ms[1] = r /\ ms[2] = t
  <2>1. os \in Forest /\ Len(os) = 2 /\ ms = [os EXCEPT ![1] = r] /\ t = os[2]
    BY <1>1, <1>8, <1>10, Zenon
  <2> QED BY <1>12, <2>1 DEF Forest
<1> QED BY <1>2, <1>9, <1>12, <1>13, MountedInv
=============================================================================
