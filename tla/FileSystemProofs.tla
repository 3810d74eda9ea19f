-------------------------- MODULE FileSystemProofs --------------------------
(***************************************************************************)
(* The second half of the proofs about Vfs: with what VfsProofs shows of   *)
(* the operations on one node, that path_to_node ends where the names of   *)
(* the path say, that every operation of the file system keeps the tree    *)
(* sound, and that the path of a node leads back to it and stays what it   *)
(* was. What a walk over the segments of a path computes is shown by       *)
(* induction over the segments, in the form that no segment is the first   *)
(* where it goes wrong (SmallestOf).                                       *)
(***************************************************************************)
EXTENDS VfsProofs

\* reduce_node: from the root to the directory mounted on it, from a link to its
\* directory, and no further.
LEMMA Reduced ==
  ASSUME NEW ns, ShapeInv(ns), NEW n \in 1 .. Len(ns)
  PROVE  reduce_node(ns, n) = IF n = ROOT THEN MOUNT
                              ELSE IF ns[n].link = NULL THEN n
                              ELSE IF ns[n].link = ROOT THEN MOUNT ELSE ns[n].link
<1> DEFINE Red(f) == [m \in DOMAIN ns |->
                        IF ns[m].mountpoint # NULL THEN f[ns[m].mountpoint]
                        ELSE IF ns[m].link # NULL THEN f[ns[m].link] ELSE m]
           Is(m) == IF m = ROOT THEN MOUNT
                    ELSE IF ns[m].link = NULL THEN m
                    ELSE IF ns[m].link = ROOT THEN MOUNT ELSE ns[m].link
           h == [m \in DOMAIN ns |-> Is(m)]
<1>1. reduce_node(ns, n) = (CHOOSE f : f = Red(f))[n]
  BY DEF reduce_node
<1>2. /\ DOMAIN ns = 1 .. Len(ns) /\ ROOT \in 1 .. Len(ns) /\ ns[ROOT].mountpoint = MOUNT
      /\ MOUNT \in DirsOf(ns) /\ NULL # MOUNT /\ ROOT # MOUNT /\ NULL # ROOT
  BY DEF ShapeInv, Forest, NULL, ROOT, MOUNT
<1>3. \A m \in DirsOf(ns) : m \in 1 .. Len(ns) /\ ns[m].link = NULL /\ m # ROOT
  BY DEF DirsOf, TreeOf
<1>4. \A m \in 1 .. Len(ns) :
        /\ m # ROOT => ns[m].mountpoint = NULL
        /\ ns[m].link # NULL => ns[m].link \in DirsOf(ns) \cup {ROOT}
  BY DEF ShapeInv
<1>5. ASSUME NEW f, f = Red(f), NEW m \in 1 .. Len(ns) PROVE f[m] = Is(m)
  <2>1. \A i \in 1 .. Len(ns) :
          f[i] = IF ns[i].mountpoint # NULL THEN f[ns[i].mountpoint]
                 ELSE IF ns[i].link # NULL THEN f[ns[i].link] ELSE i
    BY <1>2, <1>5
  <2>2. \A i \in DirsOf(ns) : f[i] = i
    BY <1>3, <1>4, <2>1
  <2>3. f[ROOT] = MOUNT
    BY <1>2, <2>1, <2>2, Zenon
  <2> QED BY <1>2, <1>4, <2>1, <2>2, <2>3, Zenon
<1>6. h = Red(h)
  <2>1. \A m \in 1 .. Len(ns) : h[m] = Is(m)
    BY <1>2
  <2>2. \A m \in DirsOf(ns) : h[m] = m
    BY <1>3, <2>1
  <2>3. h[ROOT] = MOUNT
    BY <1>2, <2>1
  <2> HIDE DEF h
  <2>4. ASSUME NEW m \in 1 .. Len(ns)
        PROVE  Is(m) = IF ns[m].mountpoint # NULL THEN h[ns[m].mountpoint]
                       ELSE IF ns[m].link # NULL THEN h[ns[m].link] ELSE m
    BY <1>2, <1>4, <2>2, <2>3
  <2> QED BY <1>2, <2>4 DEF h
<1> HIDE DEF Red, Is, h
<1>7. \E f : f = Red(f)
  BY <1>6
<1>8. PICK g : g = (CHOOSE f : f = Red(f))
  OBVIOUS
<1>9. g = Red(g)
  BY <1>7, <1>8
<1>10. g[n] = Is(n)
  BY <1>5, <1>9
<1> QED BY <1>1, <1>8, <1>10 DEF Is

\* What is reached is a node of the tree, and such a node stays where it is.
LEMMA ReducedInTree ==
  ASSUME NEW ns, ShapeInv(ns), NEW n \in 1 .. Len(ns)
  PROVE  /\ reduce_node(ns, n) \in TreeOf(ns)
         /\ n \in TreeOf(ns) => reduce_node(ns, n) = n
         /\ reduce_node(ns, ROOT) = MOUNT
<1>1. /\ ROOT \in 1 .. Len(ns) /\ MOUNT \in DirsOf(ns)
      /\ \A m \in 1 .. Len(ns) : ns[m].link # NULL => ns[m].link \in DirsOf(ns) \cup {ROOT}
  BY DEF ShapeInv
<1>2. \A m \in DirsOf(ns) : m \in TreeOf(ns)
  BY DEF DirsOf
<1>3. PICK r, s : r = reduce_node(ns, n) /\ s = reduce_node(ns, ROOT)
  OBVIOUS
<1>4. /\ r = IF n = ROOT THEN MOUNT ELSE IF ns[n].link = NULL THEN n
             ELSE IF ns[n].link = ROOT THEN MOUNT ELSE ns[n].link
      /\ s = MOUNT
  BY <1>1, <1>3, Reduced
<1>5. r \in TreeOf(ns) /\ (n \in TreeOf(ns) => r = n)
  BY <1>1, <1>2, <1>4 DEF TreeOf
<1> QED BY <1>3, <1>4, <1>5

-----------------------------------------------------------------------------
(* Walks *)

\* Where the loop of path_to_node starts.
WalkStart(ns, parent, path) ==
  [parent |-> reduce_node(ns, parent),
   result |-> IF path.abs THEN reduce_node(ns, ROOT) ELSE reduce_node(ns, parent)]

EmptyPath == [abs |-> FALSE, segs |-> <<>>]

\* What it does, segment after segment.
Rounds(m, ns, parent, path) ==
  /\ m[0] = WalkStart(ns, parent, path)
  /\ \A i \in 1 .. Len(path.segs) : m[i] = NextSegment(ns, m[i - 1], path.segs[i])
  /\ path_to_node(ns, parent, path) =
       IF path = EmptyPath THEN [parent |-> NULL, result |-> NULL] ELSE m[Len(path.segs)]

\* The loop can be followed from segment to segment: its recursive definition has a
\* solution.
LEMMA WalkSteps ==
  ASSUME NEW ns, NEW parent, NEW path, Len(path.segs) \in Nat
  PROVE  \E m : Rounds(m, ns, parent, path)
<1> DEFINE N == Len(path.segs)
           G(n, f) == [i \in 0 .. n |-> IF i = 0 THEN WalkStart(ns, parent, path) ELSE NextSegment(ns, f[i - 1], path.segs[i])]
           Bad == {n \in 0 .. N : ~\E f : f = G(n, f)}
<1>1. Bad = {}
  <2> SUFFICES ASSUME Bad # {} PROVE FALSE
    OBVIOUS
  <2>1. Bad \in SUBSET Nat
    OBVIOUS
  <2>2. PICK n \in Bad : \A k \in Bad : n <= k
    <3> HIDE DEF Bad
    <3> QED BY <2>1, SmallestOf
  <2>3. n \in 0 .. N /\ ~\E f : f = G(n, f)
    OBVIOUS
  <2>4. CASE n = 0
    <3> DEFINE f == [i \in 0 .. 0 |-> WalkStart(ns, parent, path)]
    <3>1. \A i \in 0 .. 0 : i = 0
      OBVIOUS
    <3>2. f = G(0, f)
      BY <3>1
    <3> QED BY <2>3, <2>4, <3>2, Zenon
  <2>5. CASE n # 0
    <3>1. n - 1 \in 0 .. N /\ n \in Nat /\ ~(n <= n - 1)
      BY <2>3, <2>5
    <3>2. PICK f : f = G(n - 1, f)
      <4>1. n - 1 \notin Bad
        <5> HIDE DEF Bad
        <5> QED BY <2>2, <3>1
      <4> QED BY <3>1, <4>1
    <3> DEFINE g == [i \in 0 .. n |-> IF i = n THEN NextSegment(ns, f[n - 1], path.segs[n]) ELSE f[i]]
    <3>3. \A i \in 0 .. n - 1 : f[i] = IF i = 0 THEN WalkStart(ns, parent, path) ELSE NextSegment(ns, f[i - 1], path.segs[i])
      BY <3>2
    <3>4. ASSUME NEW i \in 0 .. n
          PROVE  g[i] = IF i = 0 THEN WalkStart(ns, parent, path) ELSE NextSegment(ns, g[i - 1], path.segs[i])
      <4>1. CASE i = n
        <5>1. g[i] = NextSegment(ns, f[n - 1], path.segs[n]) /\ i # 0
          BY <2>5, <4>1
        <5>2. n - 1 \in 0 .. n /\ n - 1 # n
          BY <3>1
        <5>3. g[n - 1] = f[n - 1]
          BY <5>2
        <5> HIDE DEF g
        <5> QED BY <4>1, <5>1, <5>3
      <4>2. CASE i # n
        <5>1. i \in 0 .. n - 1 /\ (i # 0 => i - 1 \in 0 .. n /\ i - 1 # n)
          BY <3>1, <4>2
        <5>2. g[i] = f[i] /\ (i # 0 => g[i - 1] = f[i - 1])
          BY <4>2, <5>1
        <5> HIDE DEF g
        <5> QED BY <3>3, <5>1, <5>2
      <4> QED BY <4>1, <4>2
    <3>5. g = G(n, g)
      <4>1. g = [i \in 0 .. n |-> g[i]]
        OBVIOUS
      <4> HIDE DEF g
      <4> QED BY <3>4, <4>1, Zenon
    <3> QED BY <2>3, <3>5, Zenon
  <2> QED BY <2>4, <2>5
<1>2. \E f : f = G(N, f)
  BY <1>1
<1> DEFINE m == CHOOSE f : f = G(N, f)
<1>3. m = G(N, m)
  <2> HIDE DEF G
  <2> QED BY <1>2
<1>4. path_to_node(ns, parent, path) =
        IF path = EmptyPath THEN [parent |-> NULL, result |-> NULL] ELSE m[N]
  BY DEF path_to_node, WalkStart, EmptyPath
<1> HIDE DEF m
<1>5. m[0] = WalkStart(ns, parent, path) /\ \A i \in 1 .. N : m[i] = NextSegment(ns, m[i - 1], path.segs[i])
  <2>1. 0 \in 0 .. N /\ \A i \in 1 .. N : i \in 0 .. N /\ i # 0
    OBVIOUS
  <2>2. \A i \in 0 .. N : m[i] = IF i = 0 THEN WalkStart(ns, parent, path) ELSE NextSegment(ns, m[i - 1], path.segs[i])
    <3> HIDE DEF N
    <3> QED BY <1>3, Zenon
  <2> QED BY <2>1, <2>2
<1>6. Rounds(m, ns, parent, path)
  BY <1>4, <1>5 DEF Rounds
<1> QED BY <1>6

\* The same for the walk over names and parents.
Turns(m, d, segs) == /\ m[0] = d
                     /\ \A i \in 1 .. Len(segs) : m[i] = Turn(m[i - 1], segs, i)
                     /\ Destination(d, segs) = m[Len(segs)]

\* The recursion that Destination is defined by has a solution, by induction.
LEMMA TurnSteps ==
  ASSUME NEW d, NEW segs, Len(segs) \in Nat
  PROVE  \E m : Turns(m, d, segs)
<1> DEFINE N == Len(segs)
           G(n, f) == [i \in 0 .. n |-> IF i = 0 THEN d ELSE Turn(f[i - 1], segs, i)]
           Bad == {n \in 0 .. N : ~\E f : f = G(n, f)}
<1>1. Bad = {}
  <2> SUFFICES ASSUME Bad # {} PROVE FALSE
    OBVIOUS
  <2>1. Bad \in SUBSET Nat
    OBVIOUS
  <2>2. PICK n \in Bad : \A k \in Bad : n <= k
    <3> HIDE DEF Bad
    <3> QED BY <2>1, SmallestOf
  <2>3. n \in 0 .. N /\ ~\E f : f = G(n, f)
    OBVIOUS
  <2>4. CASE n = 0
    <3> DEFINE f == [i \in 0 .. 0 |-> d]
    <3>1. \A i \in 0 .. 0 : i = 0
      OBVIOUS
    <3>2. f = G(0, f)
      BY <3>1
    <3> QED BY <2>3, <2>4, <3>2, Zenon
  <2>5. CASE n # 0
    <3>1. n - 1 \in 0 .. N /\ n \in Nat /\ ~(n <= n - 1)
      BY <2>3, <2>5
    <3>2. PICK f : f = G(n - 1, f)
      <4>1. n - 1 \notin Bad
        <5> HIDE DEF Bad
        <5> QED BY <2>2, <3>1
      <4> QED BY <3>1, <4>1
    <3> DEFINE g == [i \in 0 .. n |-> IF i = n THEN Turn(f[n - 1], segs, n) ELSE f[i]]
    <3>3. \A i \in 0 .. n - 1 : f[i] = IF i = 0 THEN d ELSE Turn(f[i - 1], segs, i)
      BY <3>2
    <3>4. ASSUME NEW i \in 0 .. n
          PROVE  g[i] = IF i = 0 THEN d ELSE Turn(g[i - 1], segs, i)
      <4>1. CASE i = n
        <5>1. g[i] = Turn(f[n - 1], segs, n) /\ i # 0
          BY <2>5, <4>1
        <5>2. n - 1 \in 0 .. n /\ n - 1 # n
          BY <3>1
        <5>3. g[n - 1] = f[n - 1]
          BY <5>2
        <5> HIDE DEF g
        <5> QED BY <4>1, <5>1, <5>3
      <4>2. CASE i # n
        <5>1. i \in 0 .. n - 1 /\ (i # 0 => i - 1 \in 0 .. n /\ i - 1 # n)
          BY <3>1, <4>2
        <5>2. g[i] = f[i] /\ (i # 0 => g[i - 1] = f[i - 1])
          BY <4>2, <5>1
        <5> HIDE DEF g
        <5> QED BY <3>3, <5>1, <5>2
      <4> QED BY <4>1, <4>2
    <3>5. g = G(n, g)
      <4>1. g = [i \in 0 .. n |-> g[i]]
        OBVIOUS
      <4> HIDE DEF g
      <4> QED BY <3>4, <4>1, Zenon
    <3> QED BY <2>3, <3>5, Zenon
  <2> QED BY <2>4, <2>5
<1>2. \E f : f = G(N, f)
  BY <1>1
<1> DEFINE m == CHOOSE f : f = G(N, f)
<1>3. m = G(N, m)
  <2> HIDE DEF G
  <2> QED BY <1>2
<1>4. Destination(d, segs) = m[N]
  BY DEF Destination
<1> HIDE DEF m
<1>5. m[0] = d /\ \A i \in 1 .. N : m[i] = Turn(m[i - 1], segs, i)
  <2>1. 0 \in 0 .. N /\ \A i \in 1 .. N : i \in 0 .. N /\ i # 0
    OBVIOUS
  <2>2. \A i \in 0 .. N : m[i] = IF i = 0 THEN d ELSE Turn(m[i - 1], segs, i)
    <3> HIDE DEF N
    <3> QED BY <1>3, Zenon
  <2> QED BY <2>1, <2>2
<1>6. Turns(m, d, segs)
  BY <1>4, <1>5 DEF Turns
<1> QED BY <1>6

\* What a directory has under a name is what the names and the parents say.
LEMMA NamedKid ==
  ASSUME TreeInv(nodes), NEW n \in DirsOf(nodes), NEW seg \in Keys, NEW k, k = Kid(nodes, n, seg)
  PROVE  /\ k = NULL => Named(n, seg) = NULL
         /\ k # NULL => /\ k \in 1 .. Len(nodes) /\ k # ROOT
                        /\ Named(n, seg) = reduce_node(nodes, k)
                        /\ (nodes[k].link # NULL) <=> seg \in {DOT, DOTDOT}
<1>1. ShapeInv(nodes) /\ KidInv(nodes)
  BY DEF TreeInv
<1>2. /\ nodes \in Forest /\ DOMAIN nodes = 1 .. Len(nodes) /\ n \in 1 .. Len(nodes)
      /\ n # ROOT /\ n # NULL /\ nodes[ROOT].link = NULL /\ nodes[MOUNT].parent = ROOT
      /\ NULL \notin 1 .. Len(nodes) /\ NULL # ROOT
  BY <1>1 DEF ShapeInv, DirsOf, TreeOf, Forest, NULL, ROOT
<1>3. Tree = TreeOf(nodes)
  BY <1>2 DEF Tree, Links, TreeOf
<1>4. CASE seg = DOT
  <2>1. k \in 1 .. Len(nodes) /\ nodes[k].link = n
    BY <1>1, <1>4 DEF KidInv
  <2>2. k # ROOT /\ k # NULL
    BY <1>2, <2>1
  <2>3. reduce_node(nodes, k) = n
    BY <1>1, <1>2, <2>1, <2>2, Reduced
  <2>4. Named(n, seg) = n
    BY <1>4 DEF Named
  <2> QED BY <1>2, <1>4, <2>1, <2>2, <2>3, <2>4
<1>5. CASE seg = DOTDOT
  <2>1. DOT # DOTDOT
    BY DEF DOT, DOTDOT
  <2>2. PICK p : p = nodes[n].parent
    OBVIOUS
  <2>3. k \in 1 .. Len(nodes) /\ nodes[k].link = p
    BY <1>1, <1>5, <2>2 DEF KidInv
  <2>4. IF n = MOUNT THEN p = ROOT ELSE p \in DirsOf(nodes)
    BY <1>1, <1>2, <2>2 DEF ShapeInv, DirsOf
  <2>5. p # NULL /\ (p \in DirsOf(nodes) => p # ROOT)
    BY <1>2, <2>4 DEF DirsOf, TreeOf
  <2>6. k # ROOT /\ k # NULL
    BY <1>2, <2>3, <2>5
  <2>7. reduce_node(nodes, k) = IF p = ROOT THEN MOUNT ELSE p
    BY <1>1, <2>3, <2>5, <2>6, Reduced
  <2>8. Named(n, seg) = IF p = ROOT THEN n ELSE p
    BY <1>5, <2>1, <2>2 DEF Named, Above
  <2>9. Named(n, seg) = reduce_node(nodes, k)
    BY <2>4, <2>5, <2>7, <2>8
  <2> QED BY <1>5, <2>3, <2>5, <2>6, <2>9
<1>6. CASE seg \notin {DOT, DOTDOT}
  <2> DEFINE found == {m \in Tree : nodes[m].parent = n /\ nodes[m].name = seg}
  <2>1. Named(n, seg) = IF found = {} THEN NULL ELSE CHOOSE m \in found : TRUE
    BY <1>6 DEF Named
  <2>2. k = NULL \/ (k \in TreeOf(nodes) /\ nodes[k].parent = n /\ nodes[k].name = seg)
    BY <1>1, <1>6 DEF KidInv
  <2>3. \A m \in found : m = k
    <3> SUFFICES ASSUME NEW m \in found PROVE m = k
      OBVIOUS
    <3>1. m \in TreeOf(nodes) /\ nodes[m].parent = n /\ nodes[m].name = seg
      BY <1>3
    <3>2. m # MOUNT
      BY <1>2, <3>1
    <3>3. Kid(nodes, nodes[m].parent, nodes[m].name) = m
      BY <1>1, <3>1, <3>2 DEF KidInv
    <3> QED BY <3>1, <3>3
  <2>4. CASE k = NULL
    <3>1. found = {}
      BY <1>2, <1>3, <2>3, <2>4 DEF TreeOf
    <3> QED BY <2>1, <2>4, <3>1
  <2>5. CASE k # NULL
    <3>1. k \in TreeOf(nodes) /\ nodes[k].parent = n /\ nodes[k].name = seg
      BY <2>2, <2>5
    <3>2. k \in found
      BY <1>3, <3>1
    <3> HIDE DEF found
    <3>3. (CHOOSE m \in found : TRUE) = k
      BY <2>3, <3>2
    <3>4. Named(n, seg) = k
      BY <2>1, <3>2, <3>3
    <3>5. k \in 1 .. Len(nodes) /\ k # ROOT /\ nodes[k].link = NULL
      BY <3>1 DEF TreeOf
    <3>6. reduce_node(nodes, k) = k
      BY <1>1, <3>1, <3>5, ReducedInTree
    <3> QED BY <1>6, <2>5, <3>4, <3>5, <3>6
  <2> QED BY <2>4, <2>5
<1> QED BY <1>4, <1>5, <1>6

\* Walk a of path_to_node and walk t over names and parents are at the same place after
\* segment i.  A "." or ".." is recognised by its link.
Follows(a, t, segs, i) ==
  /\ a.result = NULL => t = NULL
  /\ a.result = FAULT => t = FAULT
  /\ a.result \notin {NULL, FAULT} =>
       /\ a.result \in 1 .. Len(nodes) /\ a.result # ROOT
       /\ t = reduce_node(nodes, a.result)
       /\ (nodes[a.result].link # NULL) <=> (i > 0 /\ segs[i] \in {DOT, DOTDOT})

\* They stay together.
LEMMA FollowsNext ==
  ASSUME TreeInv(nodes), NEW segs, NEW i \in Nat \ {0}, segs[i] \in Keys,
         NEW a, NEW t, Follows(a, t, segs, i - 1),
         NEW b, b = NextSegment(nodes, a, segs[i]), NEW u, u = Turn(t, segs, i)
  PROVE  Follows(b, u, segs, i)
<1>1. ShapeInv(nodes) /\ NULL # FAULT /\ NULL \notin 1 .. Len(nodes) /\ FAULT \notin 1 .. Len(nodes)
  BY DEF TreeInv, NULL, FAULT
<1>2. i > 0 /\ (i - 1 > 0 <=> i > 1)
  OBVIOUS
<1>3. CASE a.result = NULL
  <2>1. b.result = NULL
    BY <1>3 DEF NextSegment
  <2>2. u = NULL
    BY <1>3 DEF Follows, Turn
  <2> QED BY <1>1, <2>1, <2>2 DEF Follows
<1>4. CASE a.result = FAULT
  <2>1. b.result = FAULT
    BY <1>1, <1>4 DEF NextSegment
  <2>2. u = FAULT
    BY <1>4 DEF Follows, Turn
  <2> QED BY <1>1, <2>1, <2>2 DEF Follows
<1>5. CASE a.result \notin {NULL, FAULT}
  <2>1. PICK n : n = a.result
    OBVIOUS
  <2>2. /\ n \in 1 .. Len(nodes) /\ n # ROOT /\ n # NULL /\ n # FAULT
        /\ t = reduce_node(nodes, n)
        /\ (nodes[n].link # NULL) <=> (i > 1 /\ segs[i - 1] \in {DOT, DOTDOT})
    BY <1>2, <1>5, <2>1 DEF Follows
  <2>3. t \in TreeOf(nodes) /\ (n \in TreeOf(nodes) => t = n)
    BY <1>1, <2>2, ReducedInTree
  <2>4. t \notin {NULL, FAULT}
    BY <1>1, <2>3, Zenon DEF TreeOf
  <2>5. CASE ~IsDir(nodes, n)
    <3>1. b.result = FAULT
      BY <2>1, <2>2, <2>5, Zenon DEF NextSegment
    <3>2. nodes[n].link = NULL => n \in TreeOf(nodes)
      BY <2>2 DEF TreeOf
    <3>3. u = FAULT
      BY <2>2, <2>3, <2>4, <2>5, <3>2, Zenon DEF Turn
    <3> QED BY <1>1, <3>1, <3>3 DEF Follows
  <2>6. CASE IsDir(nodes, n)
    <3>1. nodes[n].link = NULL
      BY <1>1, <2>2, <2>6, Zenon DEF ShapeInv, IsDir
    <3>2. n \in DirsOf(nodes) /\ t = n
      BY <2>2, <2>3, <2>6, <3>1, Zenon DEF TreeOf, DirsOf
    <3>3. PICK k : k = Kid(nodes, n, segs[i])
      BY Zenon
    <3>4. b.result = k
      BY <2>1, <2>2, <2>6, <3>3, Zenon DEF NextSegment, Kid
    <3>5. u = Named(n, segs[i])
      BY <2>2, <2>4, <2>6, <3>1, <3>2, Zenon DEF Turn
    <3>6. /\ k = NULL => u = NULL
          /\ k # NULL => /\ k \in 1 .. Len(nodes) /\ k # ROOT
                         /\ u = reduce_node(nodes, k)
                         /\ (nodes[k].link # NULL) <=> segs[i] \in {DOT, DOTDOT}
      BY <3>2, <3>3, <3>5, NamedKid, Zenon
    <3> QED BY <1>1, <1>2, <3>4, <3>6, Zenon DEF Follows
  <2> QED BY <2>5, <2>6
<1> QED BY <1>3, <1>4, <1>5

\* The paths the kernel walks.
LEMMA PathType ==
  ASSUME NEW path \in Paths
  PROVE  /\ path.segs \in Seq(Keys) /\ Len(path.segs) \in Nat /\ path.abs \in BOOLEAN
         /\ \A i \in 1 .. Len(path.segs) : path.segs[i] \in Keys
         /\ (path # EmptyPath /\ Len(path.segs) = 0) => path.abs
<1>1. /\ path \in [abs : BOOLEAN, segs : UNION {[1 .. n -> Segments] : n \in 0 .. MaxDepth}]
  BY DEF Paths
<1>2. PICK n \in 0 .. MaxDepth : path.segs \in [1 .. n -> Segments]
  BY <1>1
<1>3. n \in Nat
  BY VfsAssumption
<1>4. \A s \in Segments : s \in Keys
  BY VfsAssumption DEF Segments, Keys
<1>5. path.segs \in [1 .. n -> Keys]
  BY <1>2, <1>4
<1>6. path.segs \in Seq(Keys) /\ Len(path.segs) \in Nat
  BY <1>3, <1>5
<1>7. ASSUME path # EmptyPath, Len(path.segs) = 0 PROVE path.abs
  <2>1. path.segs = <<>>
    BY <1>6, <1>7
  <2>2. path = [abs |-> path.abs, segs |-> path.segs]
    BY <1>1
  <2>3. path.abs # FALSE
    BY <1>7, <2>1, <2>2, Zenon DEF EmptyPath
  <2> QED BY <1>1, <2>3, Zenon
<1> QED BY <1>1, <1>6, <1>7

\* The two walks of a path.
Walks(segs, N, at, to) ==
  /\ N \in Nat /\ \A i \in 1 .. N : segs[i] \in Keys
  /\ at[0].result \in TreeOf(nodes) /\ to[0] = at[0].result
  /\ \A i \in 1 .. N : /\ at[i] = NextSegment(nodes, at[i - 1], segs[i])
                       /\ to[i] = Turn(to[i - 1], segs, i)

\* Induction over the segments: path_to_node is where the names say at each of them.
LEMMA WalksFollow ==
  ASSUME TreeInv(nodes), NEW segs, NEW N, NEW at, NEW to, Walks(segs, N, at, to)
  PROVE  \A i \in 0 .. N : Follows(at[i], to[i], segs, i)
<1> DEFINE Bad == {i \in 0 .. N : ~Follows(at[i], to[i], segs, i)}
<1>1. N \in Nat
  BY DEF Walks
<1> SUFFICES ASSUME Bad # {} PROVE FALSE
  OBVIOUS
<1>2. Bad \in SUBSET Nat
  BY <1>1
<1>3. PICK i \in Bad : \A j \in Bad : i <= j
  <2> HIDE DEF Bad
  <2> QED BY <1>2, SmallestOf
<1>4. i \in 0 .. N /\ ~Follows(at[i], to[i], segs, i)
  OBVIOUS
<1>5. CASE i = 0
  <2>1. PICK n : n = at[0].result
    OBVIOUS
  <2>2. n \in TreeOf(nodes) /\ to[0] = n
    BY <2>1 DEF Walks
  <2>3. n \in 1 .. Len(nodes) /\ n # ROOT /\ nodes[n].link = NULL
    BY <2>2 DEF TreeOf
  <2>4. reduce_node(nodes, n) = n
    BY <2>2, <2>3, ReducedInTree, Zenon DEF TreeInv
  <2>5. n # NULL /\ n # FAULT /\ ~(0 > 0)
    BY <2>3 DEF NULL, FAULT
  <2>6. Follows(at[0], to[0], segs, 0)
    BY <2>1, <2>2, <2>3, <2>4, <2>5 DEF Follows
  <2> QED BY <1>4, <1>5, <2>6
<1>6. CASE i # 0
  <2>1. i \in Nat \ {0} /\ i \in 1 .. N /\ i - 1 \in 0 .. N /\ ~(i <= i - 1)
    BY <1>1, <1>4, <1>6
  <2>2. Follows(at[i - 1], to[i - 1], segs, i - 1)
    <3>1. i - 1 \notin Bad
      <4> HIDE DEF Bad
      <4> QED BY <1>3, <2>1
    <3> QED BY <2>1, <3>1
  <2>3. /\ segs[i] \in Keys /\ at[i] = NextSegment(nodes, at[i - 1], segs[i])
        /\ to[i] = Turn(to[i - 1], segs, i)
    BY <2>1 DEF Walks
  <2>4. Follows(at[i], to[i], segs, i)
    BY <2>1, <2>2, <2>3, FollowsNext, Zenon
  <2> QED BY <1>4, <2>4
<1> QED BY <1>5, <1>6

\* A segment that leads nowhere from a directory.
LEMMA MissingSegment ==
  ASSUME NEW ns, NEW before, NEW seg,
         NextSegment(ns, before, seg).result = NULL, NextSegment(ns, before, seg).parent # NULL
  PROVE  /\ before.result # NULL /\ before.result # FAULT /\ IsDir(ns, before.result)
         /\ Kid(ns, before.result, seg) = NULL
         /\ NextSegment(ns, before, seg).parent = before.parent
<1>1. NULL # FAULT
  BY DEF NULL, FAULT
<1>2. before.result # NULL /\ before.result # FAULT /\ IsDir(ns, before.result)
  BY <1>1 DEF NextSegment
<1> QED BY <1>2 DEF NextSegment, Kid

\* A missing last segment: the walk has come to a directory that has no such name, and
\* the parent that is answered is that directory, unless there was only one segment.
LEMMA LastMissing ==
  ASSUME TreeInv(nodes), NEW segs, NEW N, NEW at, NEW to, Walks(segs, N, at, to), N # 0,
         at[N].result = NULL, at[N].parent # NULL
  PROVE  /\ at[N - 1].result \in DirsOf(nodes) /\ to[N - 1] = at[N - 1].result
         /\ Kid(nodes, at[N - 1].result, segs[N]) = NULL
         /\ segs[N] \in Keys \ {DOT, DOTDOT}
         /\ at[N].parent = at[N - 1].parent
         /\ N # 1 => at[N].parent = at[N - 1].result
<1>1. /\ N \in 1 .. N /\ N - 1 \in 0 .. N /\ N \in Nat
      /\ N # 1 => N - 1 \in 1 .. N /\ (N - 1) - 1 \in 0 .. N
  BY DEF Walks
<1>2. PICK a, n, k : /\ a = at[N - 1] /\ n = a.result /\ k = Kid(nodes, n, segs[N])
  OBVIOUS
<1>3. Follows(a, to[N - 1], segs, N - 1)
  BY <1>1, <1>2, WalksFollow, Zenon
<1>4. /\ at[N] = NextSegment(nodes, a, segs[N]) /\ segs[N] \in Keys
      /\ N # 1 => a = NextSegment(nodes, at[(N - 1) - 1], segs[N - 1])
  BY <1>1, <1>2 DEF Walks
<1>5. /\ a.result # NULL /\ a.result # FAULT /\ IsDir(nodes, a.result)
      /\ Kid(nodes, a.result, segs[N]) = NULL /\ at[N].parent = a.parent
  <2>1. NextSegment(nodes, a, segs[N]).result = NULL /\ NextSegment(nodes, a, segs[N]).parent # NULL
    BY <1>4, Zenon
  <2>2. /\ a.result # NULL /\ a.result # FAULT /\ IsDir(nodes, a.result)
        /\ Kid(nodes, a.result, segs[N]) = NULL
        /\ NextSegment(nodes, a, segs[N]).parent = a.parent
    BY <2>1, MissingSegment
  <2> QED BY <1>4, <2>2, Zenon
<1>6. n # NULL /\ n # FAULT /\ IsDir(nodes, n)
  BY <1>2, <1>5, Zenon
<1>7. k = NULL /\ at[N].parent = a.parent
  BY <1>2, <1>5, Zenon
<1>8. n \in 1 .. Len(nodes) /\ n # ROOT /\ to[N - 1] = reduce_node(nodes, n)
  BY <1>2, <1>3, <1>6, Zenon DEF Follows
<1>9. n \in DirsOf(nodes)
  <2>1. nodes[n].link # NULL => nodes[n].children = NoTable
    BY <1>8 DEF TreeInv, ShapeInv
  <2>2. nodes[n].link = NULL
    BY <1>6, <2>1 DEF IsDir
  <2>3. n \in TreeOf(nodes)
    BY <1>8, <2>2, SMTT(20) DEF TreeOf
  <2> QED BY <1>6, <2>3, Zenon DEF DirsOf
<1>10. to[N - 1] = n
  BY <1>8, <1>9, ReducedInTree, Zenon DEF TreeInv, DirsOf
<1>11. segs[N] \notin {DOT, DOTDOT}
  <2>1. NULL \notin 1 .. Len(nodes)
    BY SMTT(20) DEF NULL
  <2>2. Kid(nodes, n, DOT) # NULL /\ Kid(nodes, n, DOTDOT) # NULL
    BY <1>9, <2>1, SMTT(20) DEF TreeInv, KidInv
  <2> QED BY <1>2, <1>7, <2>2, Zenon
<1>12. N # 1 => a.parent = n
  <2>1. N # 1 => a.result = n /\ a.parent = n
    <3>1. SUFFICES ASSUME N # 1 PROVE a.parent = n
      BY <1>2, SMTT(20)
    <3>2. PICK b, s : b = at[(N - 1) - 1] /\ s = segs[N - 1]
      BY SMTT(20)
    <3>3. a = NextSegment(nodes, b, s)
      BY <1>4, <3>1, <3>2, Zenon
    <3> QED BY <1>2, <1>6, <3>3, SMTT(20) DEF NextSegment
  <2> QED BY <2>1, SMTT(20)
<1> QED BY <1>2, <1>4, <1>7, <1>9, <1>10, <1>11, <1>12, Zenon

\* The walk of a prefix is a prefix of the walk.
LEMMA PrefixTurns ==
  ASSUME NEW segs \in Seq(Keys), NEW N, N = Len(segs), N # 0, NEW d, NEW to,
         Turns(to, d, segs)
  PROVE  Destination(d, SubSeq(segs, 1, N - 1)) = to[N - 1]
<1>1. PICK ss : ss = SubSeq(segs, 1, N - 1)
  BY Zenon
<1>2. N \in Nat /\ N - 1 \in Nat /\ Len(ss) = N - 1 /\ \A i \in 1 .. N - 1 : ss[i] = segs[i]
  BY <1>1
<1>3. PICK m : /\ m[0] = d /\ \A i \in 1 .. Len(ss) : m[i] = Turn(m[i - 1], ss, i)
               /\ Destination(d, ss) = m[Len(ss)]
  <2>1. \E m : Turns(m, d, ss)
    BY <1>2, TurnSteps, Zenon
  <2> QED BY <2>1 DEF Turns
<1> DEFINE Bad == {i \in 0 .. N - 1 : m[i] # to[i]}
<1>4. Bad = {}
  <2> SUFFICES ASSUME Bad # {} PROVE FALSE
    OBVIOUS
  <2>1. Bad \in SUBSET Nat
    BY <1>2
  <2>2. PICK i \in Bad : \A j \in Bad : i <= j
    <3> HIDE DEF Bad
    <3> QED BY <2>1, SmallestOf
  <2>3. i \in 0 .. N - 1 /\ m[i] # to[i]
    OBVIOUS
  <2>4. i # 0
    BY <1>3, <2>3 DEF Turns
  <2>5. i \in 1 .. N - 1 /\ i \in 1 .. N /\ i - 1 \in 0 .. N - 1 /\ ~(i <= i - 1)
        /\ (i > 1 => i - 1 \in 1 .. N - 1)
    BY <1>2, <2>3, <2>4
  <2>6. m[i - 1] = to[i - 1]
    <3>1. i - 1 \notin Bad
      <4> HIDE DEF Bad
      <4> QED BY <2>2, <2>5
    <3> QED BY <2>5, <3>1
  <2>7. m[i] = Turn(m[i - 1], ss, i) /\ to[i] = Turn(to[i - 1], segs, i)
    BY <1>2, <1>3, <2>5, Zenon DEF Turns
  <2>8. ss[i] = segs[i] /\ (i > 1 => ss[i - 1] = segs[i - 1])
    BY <1>2, <2>5, Zenon
  <2>9. Turn(m[i - 1], ss, i) = Turn(m[i - 1], segs, i)
    BY <2>8 DEF Turn
  <2> QED BY <2>3, <2>6, <2>7, <2>9
<1>5. N - 1 \in 0 .. N - 1
  BY <1>2
<1>6. m[N - 1] = to[N - 1]
  BY <1>4, <1>5, Zenon
<1> QED BY <1>1, <1>2, <1>3, <1>6, SMTT(20)

\* Both walks of a path, from any node.
LEMMA PathWalks ==
  ASSUME TreeInv(nodes), NEW start \in 1 .. Len(nodes), NEW path, path.segs \in Seq(Keys),
         path # EmptyPath, NEW from, from = reduce_node(nodes, IF path.abs THEN ROOT ELSE start),
         path.abs \in BOOLEAN
  PROVE  \E at, to : /\ Walks(path.segs, Len(path.segs), at, to)
                     /\ at[0].parent = reduce_node(nodes, start) /\ at[0].result = from
                     /\ path_to_node(nodes, start, path) = at[Len(path.segs)]
                     /\ Turns(to, from, path.segs)
<1>1. PICK segs, N, top : segs = path.segs /\ N = Len(segs) /\ top = reduce_node(nodes, start)
  OBVIOUS
<1>2. ShapeInv(nodes) /\ ROOT \in 1 .. Len(nodes)
  BY DEF TreeInv, ShapeInv
<1>3. segs \in Seq(Keys) /\ N \in Nat /\ \A i \in 1 .. N : segs[i] \in Keys
  BY <1>1
<1>4. PICK at : Rounds(at, nodes, start, path)
  BY <1>1, <1>3, WalkSteps, Zenon
<1>5. PICK to : Turns(to, from, segs)
  BY <1>1, <1>3, TurnSteps, Zenon
<1>6. from \in TreeOf(nodes)
  BY <1>2, ReducedInTree
<1>7. at[0] = WalkStart(nodes, start, path)
  BY <1>4 DEF Rounds
<1>8. at[0].parent = top /\ at[0].result = from
  <2>1. WalkStart(nodes, start, path) = [parent |-> top, result |-> from]
    BY <1>1 DEF WalkStart
  <2> QED BY <1>7, <2>1
<1>9. \A i \in 1 .. N : at[i] = NextSegment(nodes, at[i - 1], segs[i])
  BY <1>1, <1>4, Zenon DEF Rounds
<1>10. path_to_node(nodes, start, path) = at[N]
  BY <1>1, <1>4 DEF Rounds
<1>11. to[0] = from /\ \A i \in 1 .. N : to[i] = Turn(to[i - 1], segs, i)
  BY <1>1, <1>5, Zenon DEF Turns
<1>12. Walks(segs, N, at, to)
  BY <1>3, <1>6, <1>8, <1>9, <1>11, Zenon DEF Walks
<1> QED BY <1>1, <1>5, <1>8, <1>10, <1>12, Zenon

\* What path_to_node answers, by what the names and the parents say.
LEMMA PathLeads ==
  ASSUME TreeInv(nodes), NEW d \in TreeOf(nodes), NEW path, path.segs \in Seq(Keys),
         path # EmptyPath, NEW from, from = reduce_node(nodes, IF path.abs THEN ROOT ELSE d),
         path.abs \in BOOLEAN, NEW p2n, p2n = path_to_node(nodes, d, path),
         NEW res, res = IF p2n.result \in {NULL, FAULT} THEN p2n.result
                                                        ELSE reduce_node(nodes, p2n.result)
  PROVE  /\ from \in TreeOf(nodes)
         /\ res = Destination(from, path.segs)
         /\ res = NULL /\ p2n.parent # NULL /\ (path.abs => Len(path.segs) > 1 \/ d = from) =>
              p2n.parent = Destination(from, SubSeq(path.segs, 1, Len(path.segs) - 1))
<1>1. PICK segs, N : segs = path.segs /\ N = Len(segs)
  BY Zenon
<1>2. ShapeInv(nodes) /\ ROOT \in 1 .. Len(nodes) /\ d \in 1 .. Len(nodes) /\ N \in Nat
  BY <1>1 DEF TreeInv, ShapeInv, TreeOf
<1>3. from \in TreeOf(nodes) /\ reduce_node(nodes, d) = d
  BY <1>2, ReducedInTree, Zenon
<1>4. PICK at, to : /\ Walks(segs, N, at, to) /\ at[0].parent = d /\ at[0].result = from
                    /\ p2n = at[N] /\ Turns(to, from, segs)
  BY <1>1, <1>2, <1>3, PathWalks, SMTT(20)
<1>5. Follows(at[N], to[N], segs, N)
  <2>1. N \in 0 .. N
    BY <1>2
  <2> QED BY <1>4, <2>1, WalksFollow
<1>6. Destination(from, segs) = to[N]
  BY <1>1, <1>4, Zenon DEF Turns
<1>7. res = to[N]
  BY <1>4, <1>5, Zenon DEF Follows
<1>8. ASSUME res = NULL, p2n.parent # NULL, path.abs => N > 1 \/ d = from
      PROVE  p2n.parent = Destination(from, SubSeq(segs, 1, N - 1))
  <2>1. \A n \in TreeOf(nodes) : n # NULL
    BY DEF TreeOf, NULL
  <2>2. at[N].result = NULL
    <3>1. NULL # FAULT
      BY DEF NULL, FAULT
    <3>2. CASE p2n.result \notin {NULL, FAULT}
      <4>1. p2n.result \in 1 .. Len(nodes)
        BY <1>4, <1>5, <3>2, Zenon DEF Follows
      <4>2. reduce_node(nodes, p2n.result) \in TreeOf(nodes)
        BY <1>2, <4>1, ReducedInTree, Zenon
      <4>3. res = reduce_node(nodes, p2n.result)
        BY <3>2, Zenon
      <4> QED BY <1>8, <2>1, <4>2, <4>3, Zenon
    <3> QED BY <1>4, <1>8, <3>1, <3>2, Zenon
  <2>3. N # 0
    BY <1>3, <1>4, <2>1, <2>2, Zenon
  <2>4. /\ to[N - 1] = at[N - 1].result /\ at[N].parent = at[N - 1].parent
        /\ N # 1 => at[N].parent = at[N - 1].result
    BY <1>4, <1>8, <2>2, <2>3, LastMissing
  <2>5. N = 1 => at[0].parent = at[0].result
    <3>1. N = 1 => ~(N > 1)
      BY <1>2
    <3>2. ~path.abs => from = d
      BY <1>3, Zenon
    <3> QED BY <1>4, <1>8, <3>1, <3>2, Zenon
  <2>6. at[N].parent = to[N - 1]
    <3>1. N = 1 => N - 1 = 0
      OBVIOUS
    <3> QED BY <2>4, <2>5, <3>1, Zenon
  <2>7. Destination(from, SubSeq(segs, 1, N - 1)) = to[N - 1]
    <3>1. segs \in Seq(Keys) /\ N = Len(segs) /\ Turns(to, from, segs)
      BY <1>1, <1>4, Zenon
    <3> QED BY <2>3, <3>1, PrefixTurns, Zenon
  <2> QED BY <1>4, <2>6, <2>7, Zenon
<1> QED BY <1>1, <1>3, <1>6, <1>7, <1>8, Zenon

\* PathsLead follows from the invariant.
LEMMA InvLeads == TreeInv(nodes) => PathsLead
<1> SUFFICES ASSUME TreeInv(nodes) PROVE PathsLead
  BY Zenon
<1>1. /\ ShapeInv(nodes) /\ DOMAIN nodes = 1 .. Len(nodes) /\ Tree = TreeOf(nodes)
  BY DEF TreeInv, ShapeInv, Forest, Tree, Links, TreeOf
<1>2. \A d \in Starts : d \in TreeOf(nodes)
  BY <1>1, ReducedInTree DEF Starts
<1>3. ASSUME NEW d \in Starts, NEW path \in Paths, path # EmptyPath,
             NEW p2n, p2n = path_to_node(nodes, d, path),
             NEW from, from = reduce_node(nodes, IF path.abs THEN ROOT ELSE d),
             NEW res, res = IF p2n.result \in {NULL, FAULT} THEN p2n.result
                                                            ELSE reduce_node(nodes, p2n.result)
      PROVE  /\ from \in Tree
             /\ res = Destination(from, path.segs)
             /\ res = NULL /\ p2n.parent # NULL /\ (path.abs => Len(path.segs) > 1 \/ d = from) =>
                  p2n.parent = Destination(from, SubSeq(path.segs, 1, Len(path.segs) - 1))
  <2>1. path.segs \in Seq(Keys) /\ path.abs \in BOOLEAN
    BY PathType, Zenon
  <2> QED BY <1>1, <1>2, <1>3, <2>1, PathLeads
<1> QED BY <1>3 DEF PathsLead, EmptyPath

\* Where vfs_create puts a node: in a directory that has no such name.
LEMMA MissingIn ==
  ASSUME TreeInv(nodes), NEW start \in 1 .. Len(nodes), NEW path, path.segs \in Seq(Keys),
         path.abs \in BOOLEAN, path # EmptyPath,
         NEW p2n, p2n = path_to_node(nodes, start, path), p2n.result = NULL, p2n.parent # NULL
  PROVE  /\ p2n.parent \in TreeOf(nodes)
         /\ ~path.abs \/ reduce_node(nodes, start) = MOUNT =>
              /\ p2n.parent \in DirsOf(nodes) /\ basename(path) \in Keys \ {DOT, DOTDOT}
              /\ Kid(nodes, p2n.parent, basename(path)) = NULL
<1>1. PICK segs, N, from, top :
        /\ segs = path.segs /\ N = Len(segs) /\ top = reduce_node(nodes, start)
        /\ from = reduce_node(nodes, IF path.abs THEN ROOT ELSE start)
  BY Zenon
<1>2. ShapeInv(nodes) /\ ROOT \in 1 .. Len(nodes) /\ N \in Nat
  BY <1>1 DEF TreeInv, ShapeInv
<1>3. /\ from \in TreeOf(nodes) /\ top \in TreeOf(nodes)
      /\ ~path.abs \/ top = MOUNT => from = top
  BY <1>1, <1>2, ReducedInTree, Zenon
<1>4. PICK at, to : /\ Walks(segs, N, at, to) /\ at[0].parent = top /\ at[0].result = from
                    /\ p2n = at[N]
  BY <1>1, PathWalks
<1>5. N # 0
  <2>1. from # NULL
    BY <1>3 DEF TreeOf, NULL
  <2> QED BY <1>4, <2>1
<1>6. PICK n : n = at[N - 1].result
  BY Zenon
<1>7. /\ n \in DirsOf(nodes) /\ Kid(nodes, n, segs[N]) = NULL /\ segs[N] \in Keys \ {DOT, DOTDOT}
      /\ p2n.parent = at[N - 1].parent /\ (N # 1 => p2n.parent = n)
  BY <1>4, <1>5, <1>6, LastMissing
<1>8. basename(path) = segs[N]
  BY <1>1, Zenon DEF basename
<1>9. N = 1 => p2n.parent = top /\ n = from
  <2>1. N = 1 => N - 1 = 0
    OBVIOUS
  <2> QED BY <1>4, <1>6, <1>7, <2>1, Zenon
<1>10. n \in TreeOf(nodes)
  BY <1>7 DEF DirsOf
<1> QED BY <1>1, <1>3, <1>7, <1>8, <1>9, <1>10, Zenon

\* A file or a directory has been added.
Grown(ns, ms) ==
  \E d \in DirsOf(ns), k \in Keys \ {DOT, DOTDOT} :
    /\ Kid(ns, d, k) = NULL
    /\ FileAdded(ns, d, k, ms) \/ DirAdded(ns, d, k, ms)

\* The same for a file that has not been written yet.
FileMade(ns, dir, ms) ==
  \E d \in DirsOf(ns), k \in Keys \ {DOT, DOTDOT} :
    /\ Kid(ns, d, k) = NULL
    /\ FileAdded(ns, d, k, ms) /\ ms[Len(ns) + 1].data = NewData(dir)

\* vfs_create.
LEMMA CreateGrows ==
  ASSUME TreeInv(nodes), NEW start \in 1 .. Len(nodes), NEW path, path.segs \in Seq(Keys),
         path.abs \in BOOLEAN, ~path.abs \/ reduce_node(nodes, start) = MOUNT,
         NEW dir \in BOOLEAN, NEW ms, ms = vfs_create(nodes, start, path, dir), ms # nodes
  PROVE  IF dir THEN Grown(nodes, ms) ELSE FileMade(nodes, dir, ms)
<1>1. PICK p2n, d, k, os : /\ p2n = path_to_node(nodes, start, path) /\ d = p2n.parent
                           /\ k = basename(path) /\ os = tmpfs_create(nodes, d, k, dir)
  BY Zenon
<1>2. /\ d # NULL /\ p2n.result = NULL
      /\ ms = IF dir THEN create_dot(os, d, Len(nodes) + 1) ELSE os
  BY <1>1 DEF vfs_create
<1>3. path # EmptyPath
  <2>1. SUFFICES ASSUME path = EmptyPath PROVE FALSE
    OBVIOUS
  <2>2. Len(path.segs) \in Nat
    OBVIOUS
  <2>3. PICK at : Rounds(at, nodes, start, path)
    BY <2>2, WalkSteps, Zenon
  <2>4. p2n = [parent |-> NULL, result |-> NULL]
    BY <1>1, <2>1, <2>3, SMTT(20) DEF Rounds
  <2> QED BY <1>1, <1>2, <2>4
<1>4. d \in DirsOf(nodes) /\ k \in Keys \ {DOT, DOTDOT} /\ Kid(nodes, d, k) = NULL
  BY <1>1, <1>2, <1>3, MissingIn, SMTT(20)
<1>5. ShapeInv(nodes) /\ k \in Keys
  BY <1>4, SMTT(20) DEF TreeInv
<1>6. CASE dir
  <2>1. PICK q : q = Len(nodes) + 1
    BY SMTT(20)
  <2>2. /\ Added(nodes, d, k, os) /\ Len(os) = q
        /\ os[q].children = IF dir THEN NewTable ELSE NoTable
    BY <1>1, <1>4, <1>5, <2>1, NewNode, SMTT(20)
  <2>3. Added(nodes, d, k, os) /\ Len(os) = q /\ os[q].children = NewTable
    BY <1>6, <2>2, SMTT(20)
  <2>4. ms = create_dot(os, d, q)
    BY <1>2, <1>6, <2>1, Zenon
  <2>5. DirAdded(nodes, d, k, ms)
    BY <1>4, <1>5, <2>1, <2>3, <2>4, NewDir, Zenon
  <2> QED BY <1>4, <1>6, <2>5, Zenon DEF Grown
<1>7. CASE ~dir
  <2>1. ms = tmpfs_create(nodes, d, k, dir)
    BY <1>1, <1>2, <1>7, Zenon
  <2>2. FileAdded(nodes, d, k, ms) /\ ms[Len(nodes) + 1].data = NewData(dir)
    BY <1>4, <1>5, <1>7, <2>1, NewFile
  <2> QED BY <1>4, <1>7, <2>2, Zenon DEF FileMade
<1> QED BY <1>6, <1>7

\* tmpfs_write into it.
LEMMA WriteGrows ==
  ASSUME NEW ns, TreeInv(ns), NEW dir \in BOOLEAN, ~dir, NEW ms, FileMade(ns, dir, ms)
  PROVE  /\ Grown(ns, ms)
         /\ \A count \in Nat : Grown(ns, tmpfs_write(ms, Len(ns) + 1, count, 0))
<1>1. PICK d \in DirsOf(ns), k \in Keys \ {DOT, DOTDOT} :
        /\ Kid(ns, d, k) = NULL /\ FileAdded(ns, d, k, ms)
        /\ ms[Len(ns) + 1].data = NewData(dir)
  BY DEF FileMade
<1>2. ShapeInv(ns) /\ k \in Keys
  BY DEF TreeInv
<1>3. Grown(ns, ms)
  BY <1>1 DEF Grown
<1>4. ASSUME NEW count \in Nat, NEW os, os = tmpfs_write(ms, Len(ns) + 1, count, 0)
      PROVE  Grown(ns, os)
  <2>1. FileAdded(ns, d, k, os)
    BY <1>1, <1>2, <1>4, WrittenFile, Zenon
  <2> QED BY <1>1, <2>1 DEF Grown
<1> QED BY <1>3, <1>4

\* What has been added leaves the tree as it should be.
LEMMA GrownInv ==
  ASSUME NEW ns, TreeInv(ns), NEW ms, Grown(ns, ms)
  PROVE  TreeInv(ms)
BY FileKeepsInv, DirKeepsInv DEF Grown

\* The entries of the archive.
LEMMA CreatedGrows ==
  ASSUME TreeInv(nodes), NEW dir \in BOOLEAN, NEW ms \in Created(dir)
  PROVE  IF dir THEN Grown(nodes, ms) ELSE FileMade(nodes, dir, ms)
<1>1. PICK path \in EntryPaths : ms = vfs_create(nodes, ROOT, path, dir) /\ ms # nodes
  BY DEF Created
<1>2. path.segs \in Seq(Keys) /\ path.abs \in BOOLEAN
  BY PathType DEF EntryPaths
<1>3. ROOT \in 1 .. Len(nodes) /\ reduce_node(nodes, ROOT) = MOUNT
  <2>1. ShapeInv(nodes) /\ ROOT \in 1 .. Len(nodes)
    BY Zenon DEF TreeInv, ShapeInv
  <2> QED BY <2>1, ReducedInTree, Zenon
<1> QED BY <1>1, <1>2, <1>3, CreateGrows, Zenon

\* What openat gets for the parent of a missing file is a node of the tree.
LEMMA ParentsInTree ==
  ASSUME TreeInv(nodes), NEW parent \in Parents
  PROVE  parent \in TreeOf(nodes)
<1>1. PICK d \in Starts, path \in Paths :
        \E p2n : /\ p2n = path_to_node(nodes, d, path) /\ p2n.result = NULL
                 /\ parent = p2n.parent /\ parent # NULL
  BY DEF Parents
<1>2. PICK p2n : /\ p2n = path_to_node(nodes, d, path) /\ p2n.result = NULL
                 /\ parent = p2n.parent /\ parent # NULL
  BY <1>1, Zenon
<1>3. ShapeInv(nodes) /\ DOMAIN nodes = 1 .. Len(nodes)
  BY DEF TreeInv, ShapeInv, Forest
<1>4. d \in 1 .. Len(nodes)
  BY <1>3, ReducedInTree DEF Starts, TreeOf
<1>5. path.segs \in Seq(Keys) /\ path.abs \in BOOLEAN /\ Len(path.segs) \in Nat
  BY PathType
<1>6. path # EmptyPath
  <2>1. SUFFICES ASSUME path = EmptyPath PROVE FALSE
    OBVIOUS
  <2>2. PICK at : Rounds(at, nodes, d, path)
    BY <1>5, WalkSteps, Zenon
  <2>3. p2n = [parent |-> NULL, result |-> NULL]
    BY <1>2, <2>1, <2>2 DEF Rounds
  <2> QED BY <1>2, <2>3
<1> QED BY <1>2, <1>4, <1>5, <1>6, MissingIn, Zenon

\* A step leaves the nodes alone or adds to them.
LEMMA StepGrows ==
  ASSUME TreeInv(nodes), [VfsNext]_vfs
  PROVE  nodes' = nodes \/ Grown(nodes, nodes')
<1>1. CASE Entry
  <2>1. CASE nodes' \in Created(TRUE)
    <3>1. PICK dir, ms : dir = TRUE /\ ms = nodes'
      OBVIOUS
    <3>2. dir \in BOOLEAN /\ ms \in Created(dir)
      BY <2>1, <3>1, Zenon
    <3>3. IF dir THEN Grown(nodes, ms) ELSE FileMade(nodes, dir, ms)
      BY <3>2, CreatedGrows
    <3> QED BY <3>1, <3>3
  <2>2. CASE \E made \in Created(FALSE), size \in Sizes :
               nodes' = tmpfs_write(made, Len(nodes) + 1, size, 0)
    <3>1. PICK made \in Created(FALSE), size \in Sizes :
            nodes' = tmpfs_write(made, Len(nodes) + 1, size, 0)
      BY <2>2, Zenon
    <3>2. PICK dir : dir = FALSE
      BY Zenon
    <3>3. dir \in BOOLEAN /\ made \in Created(dir) /\ ~dir /\ size \in Nat
      BY <3>1, <3>2, VfsAssumption, Zenon
    <3>4. FileMade(nodes, dir, made)
      BY <3>3, CreatedGrows
    <3>5. Grown(nodes, tmpfs_write(made, Len(nodes) + 1, size, 0))
      BY <3>3, <3>4, WriteGrows
    <3> QED BY <3>1, <3>5
  <2> QED BY <1>1, <2>1, <2>2, Zenon DEF Entry
<1>2. CASE OpenatCreates
  <2>1. PICK parent \in Parents :
          IsDir(nodes, parent) /\ nodes' = vfs_create(nodes, parent, Relative(CODE), FALSE)
    BY <1>2, Zenon DEF OpenatCreates
  <2>2. parent \in 1 .. Len(nodes)
    BY ParentsInTree DEF TreeOf
  <2>3. PICK path, dir, ms : path = Relative(CODE) /\ dir = FALSE /\ ms = nodes'
    BY Zenon
  <2>4. path.abs = FALSE /\ path.segs = <<CODE>>
    BY <2>3 DEF Relative
  <2>5. path.segs \in Seq(Keys) /\ path.abs \in BOOLEAN /\ ~path.abs
    <3>1. CODE \in Keys
      BY VfsAssumption DEF Keys
    <3>2. <<CODE>> \in Seq(Keys)
      BY <3>1
    <3> QED BY <2>4, <3>2, Zenon
  <2>6. ms = vfs_create(nodes, parent, path, dir) /\ dir \in BOOLEAN
    BY <2>1, <2>3, Zenon
  <2>7. CASE ms # nodes
    <3>1. FileMade(nodes, dir, ms)
      <4>1. IF dir THEN Grown(nodes, ms) ELSE FileMade(nodes, dir, ms)
        BY <2>2, <2>5, <2>6, <2>7, CreateGrows
      <4> QED BY <2>3, <4>1
    <3>2. ~dir
      BY <2>3
    <3>3. Grown(nodes, ms)
      BY <2>6, <3>1, <3>2, WriteGrows, Zenon
    <3> QED BY <2>3, <3>3
  <2> QED BY <2>3, <2>7
<1>3. CASE EntryFails \/ EndOfArchive \/ Faults \/ UNCHANGED vfs
  BY <1>3, Zenon DEF EntryFails, EndOfArchive, Faults, vfs
<1> QED BY <1>1, <1>2, <1>3 DEF VfsNext

\* The invariant of the tree holds at all times.
THEOREM TreeSound == VfsSpec => []TreeInv(nodes)
<1>1. VfsInit => TreeInv(nodes)
  BY InitInv DEF VfsInit
<1>2. TreeInv(nodes) /\ [VfsNext]_vfs => TreeInv(nodes)'
  BY StepGrows, GrownInv
<1> QED BY <1>1, <1>2, PTL DEF VfsSpec

\* path_to_node leads where the names and the parents of the nodes say.
THEOREM PathsAlwaysLead == VfsSpec => []PathsLead
BY TreeSound, InvLeads, PTL

\* DataFits follows from the invariant.
LEMMA InvFits == TreeInv(nodes) => DataFits
<1>1. ASSUME TreeInv(nodes) PROVE Tree = TreeOf(nodes)
  BY <1>1 DEF TreeInv, ShapeInv, Forest, Tree, Links, TreeOf
<1> QED BY <1>1 DEF TreeInv, DataInv, Fits, DataFits

\* What tmpfs_write has copied lies inside the buffer and inside st_size.
THEOREM DataAlwaysFits == VfsSpec => []DataFits
BY TreeSound, InvFits, PTL

\* What adding leaves as it was: mounts and links, which nodes are directories, and the
\* children there were.
Kept(ns, ms) ==
  \A i \in 1 .. Len(ns) :
    /\ i \in 1 .. Len(ms) /\ ms[i].link = ns[i].link /\ (IsDir(ms, i) <=> IsDir(ns, i))
    /\ \A x \in Keys : Kid(ns, i, x) # NULL => Kid(ms, i, x) = Kid(ns, i, x)

\* A tree that has grown by one node keeps the others.
LEMMA GrownKeeps ==
  ASSUME NEW ns, TreeInv(ns), NEW ms, Grown(ns, ms)
  PROVE  Kept(ns, ms)
<1>1. PICK d \in DirsOf(ns), k \in Keys \ {DOT, DOTDOT} :
        Kid(ns, d, k) = NULL /\ (FileAdded(ns, d, k, ms) \/ DirAdded(ns, d, k, ms))
  BY Zenon DEF Grown
<1>2. Added(ns, d, k, ms)
  BY <1>1 DEF FileAdded, DirAdded
<1>3. PICK q : q = Len(ns) + 1
  OBVIOUS
<1>4. ShapeInv(ns)
  BY Zenon DEF TreeInv
<1>5. \A i \in 1 .. Len(ns) :
        /\ i \in 1 .. Len(ms) /\ SameNode(ms[i], ns[i]) /\ (IsDir(ms, i) <=> IsDir(ns, i))
        /\ \A x \in Keys : Kid(ms, i, x) = IF i = d /\ x = k THEN q ELSE Kid(ns, i, x)
  BY <1>2, <1>3, <1>4, AddedNodes
<1> QED BY <1>1, <1>5 DEF Kept, SameNode

\* reduce_node leads where it did.
LEMMA ReducedStays ==
  ASSUME NEW ns, ShapeInv(ns), NEW ms, ShapeInv(ms), Kept(ns, ms), NEW n \in 1 .. Len(ns)
  PROVE  reduce_node(ms, n) = reduce_node(ns, n)
<1>1. n \in 1 .. Len(ms) /\ ms[n].link = ns[n].link
  BY DEF Kept
<1>2. PICK r, s, l : r = reduce_node(ns, n) /\ s = reduce_node(ms, n) /\ l = ns[n].link
  BY Zenon
<1>3. r = IF n = ROOT THEN MOUNT ELSE IF l = NULL THEN n ELSE IF l = ROOT THEN MOUNT ELSE l
  BY <1>2, Reduced, Zenon
<1>4. s = IF n = ROOT THEN MOUNT ELSE IF l = NULL THEN n ELSE IF l = ROOT THEN MOUNT ELSE l
  BY <1>1, <1>2, Reduced, Zenon
<1> QED BY <1>2, <1>3, <1>4, Zenon

\* One segment further: what was found is found again.
LEMMA SegmentStays ==
  ASSUME TreeInv(nodes), NEW ms, Kept(nodes, ms), NEW seg \in Keys, NEW a, NEW t, NEW segs, NEW i,
         Follows(a, t, segs, i), NextSegment(nodes, a, seg).result # NULL
  PROVE  NextSegment(ms, a, seg) = NextSegment(nodes, a, seg)
<1>1. NULL # FAULT
  BY DEF NULL, FAULT
<1>2. PICK n : n = a.result
  BY Zenon
<1>3. CASE n = FAULT
  BY <1>1, <1>2, <1>3, Zenon DEF NextSegment
<1>4. CASE n = NULL
  BY <1>2, <1>4, Zenon DEF NextSegment
<1>5. CASE n \notin {NULL, FAULT}
  <2>1. n \in 1 .. Len(nodes) /\ n # ROOT
    BY <1>2, <1>5, SMTT(20) DEF Follows
  <2>2. IsDir(ms, n) <=> IsDir(nodes, n)
    BY <2>1, Zenon DEF Kept
  <2>3. CASE ~IsDir(nodes, n)
    BY <1>2, <1>5, <2>2, <2>3, ZenonT(30) DEF NextSegment
  <2>4. CASE IsDir(nodes, n)
    <3>1. PICK k, j : k = Kid(nodes, n, seg) /\ j = Kid(ms, n, seg)
      BY Zenon
    <3>2. NextSegment(nodes, a, seg) =
            [parent |-> IF k # NULL /\ IsDir(nodes, k) THEN k ELSE a.parent, result |-> k]
      BY <1>2, <1>5, <2>4, <3>1, Zenon DEF NextSegment, Kid
    <3>3. NextSegment(ms, a, seg) =
            [parent |-> IF j # NULL /\ IsDir(ms, j) THEN j ELSE a.parent, result |-> j]
      BY <1>2, <1>5, <2>2, <2>4, <3>1, ZenonT(30) DEF NextSegment, Kid
    <3>4. k # NULL
      BY <3>2, SMTT(20)
    <3>5. j = k
      BY <2>1, <3>1, <3>4, Zenon DEF Kept
    <3>6. k \in 1 .. Len(nodes)
      <4>1. nodes[n].link # NULL => nodes[n].children = NoTable
        BY <2>1, Zenon DEF TreeInv, ShapeInv
      <4>2. nodes[n].link = NULL
        BY <2>4, <4>1, Zenon DEF IsDir
      <4>3. n \in DirsOf(nodes)
        BY <2>1, <2>4, <4>2, Zenon DEF DirsOf, TreeOf
      <4> QED BY <3>1, <3>4, <4>3, NamedKid, Zenon
    <3>7. IsDir(ms, k) <=> IsDir(nodes, k)
      BY <3>6, Zenon DEF Kept
    <3> QED BY <3>2, <3>3, <3>5, <3>7, SMTT(20)
  <2> QED BY <2>3, <2>4, Zenon
<1> QED BY <1>3, <1>4, <1>5

\* A walk that has found nothing goes on finding nothing.
LEMMA LostStays ==
  ASSUME NEW ns, NEW before, NEW seg, before.result = NULL
  PROVE  NextSegment(ns, before, seg).result = NULL
BY DEF NextSegment

\* A walk that found something finds it again, with the same parent.
LEMMA WalkStays ==
  ASSUME TreeInv(nodes), NEW ms, Kept(nodes, ms), NEW segs, NEW N, NEW at, NEW to,
         Walks(segs, N, at, to), NEW bt, bt[0] = at[0],
         \A i \in 1 .. N : bt[i] = NextSegment(ms, bt[i - 1], segs[i])
  PROVE  \A i \in 0 .. N : at[i].result # NULL => bt[i] = at[i]
<1> DEFINE Bad == {i \in 0 .. N : ~(at[i].result # NULL => bt[i] = at[i])}
<1>1. N \in Nat
  BY Zenon DEF Walks
<1> SUFFICES ASSUME Bad # {} PROVE FALSE
  BY Zenon
<1>2. Bad \in SUBSET Nat
  BY <1>1
<1>3. PICK i \in Bad : \A j \in Bad : i <= j
  <2> HIDE DEF Bad
  <2> QED BY <1>2, SmallestOf, Zenon
<1>4. i \in 0 .. N /\ at[i].result # NULL /\ bt[i] # at[i]
  BY Zenon
<1>5. i # 0
  BY <1>4, Zenon
<1>6. i \in 1 .. N /\ i - 1 \in 0 .. N /\ ~(i <= i - 1)
  BY <1>1, <1>4, <1>5
<1>7. PICK a, seg : a = at[i - 1] /\ seg = segs[i]
  BY Zenon
<1>8. at[i] = NextSegment(nodes, a, seg) /\ seg \in Keys
  BY <1>6, <1>7, Zenon DEF Walks
<1>9. a.result # NULL
  <2>1. SUFFICES ASSUME a.result = NULL PROVE FALSE
    BY Zenon
  <2>2. NextSegment(nodes, a, seg).result = NULL
    BY <2>1, LostStays, ZenonT(30)
  <2> QED BY <1>4, <1>8, <2>2, Zenon
<1>10. bt[i - 1] = a
  <2>1. i - 1 \notin Bad
    <3> HIDE DEF Bad
    <3> QED BY <1>3, <1>6, Zenon
  <2> QED BY <1>6, <1>7, <1>9, <2>1, Zenon
<1>11. bt[i] = NextSegment(ms, a, seg)
  BY <1>6, <1>7, <1>10, Zenon
<1>12. Follows(a, to[i - 1], segs, i - 1)
  BY <1>6, <1>7, WalksFollow, Zenon
<1>13. NextSegment(ms, a, seg) = NextSegment(nodes, a, seg)
  BY <1>4, <1>8, <1>12, SegmentStays, Zenon
<1> QED BY <1>4, <1>8, <1>11, <1>13, Zenon

\* path_to_node answers what it answered.
LEMMA PathStays ==
  ASSUME TreeInv(nodes), NEW ms, TreeInv(ms), Kept(nodes, ms), NEW d \in 1 .. Len(nodes),
         NEW path \in Paths, path_to_node(nodes, d, path).result # NULL
  PROVE  path_to_node(ms, d, path) = path_to_node(nodes, d, path)
<1>1. PICK segs, N, from, top :
        /\ segs = path.segs /\ N = Len(segs) /\ top = reduce_node(nodes, d)
        /\ from = reduce_node(nodes, IF path.abs THEN ROOT ELSE d)
  BY Zenon
<1>2. segs \in Seq(Keys) /\ N \in Nat /\ path.abs \in BOOLEAN
  BY <1>1, PathType, SMTT(20)
<1>3. /\ ShapeInv(nodes) /\ ShapeInv(ms) /\ ROOT \in 1 .. Len(nodes)
  BY SMTT(20) DEF TreeInv, ShapeInv
<1>4. PICK mt : Rounds(mt, ms, d, path)
  BY <1>1, <1>2, WalkSteps, Zenon
<1>5. PICK nt : Rounds(nt, nodes, d, path)
  BY <1>1, <1>2, WalkSteps, Zenon
<1>6. path # EmptyPath
  <2>1. SUFFICES ASSUME path = EmptyPath PROVE FALSE
    BY Zenon
  <2>2. path_to_node(nodes, d, path) = [parent |-> NULL, result |-> NULL]
    BY <1>5, <2>1, Zenon DEF Rounds
  <2> QED BY <2>2, SMTT(20)
<1>7. nt[0] = WalkStart(nodes, d, path) /\ mt[0] = WalkStart(ms, d, path)
  BY <1>4, <1>5, Zenon DEF Rounds
<1>8. /\ \A i \in 1 .. N : /\ mt[i] = NextSegment(ms, mt[i - 1], segs[i])
                           /\ nt[i] = NextSegment(nodes, nt[i - 1], segs[i])
      /\ path_to_node(nodes, d, path) = nt[N] /\ path_to_node(ms, d, path) = mt[N]
  BY <1>1, <1>4, <1>5, <1>6, Zenon DEF Rounds
<1>9. reduce_node(ms, d) = top /\ reduce_node(ms, ROOT) = reduce_node(nodes, ROOT)
  BY <1>1, <1>3, ReducedStays, Zenon
<1>10. /\ WalkStart(nodes, d, path) = [parent |-> top, result |-> from]
       /\ WalkStart(ms, d, path) = [parent |-> top, result |-> from]
  BY <1>1, <1>2, <1>9, Zenon DEF WalkStart
<1>11. PICK to : Turns(to, from, segs)
  BY <1>1, <1>2, TurnSteps, Zenon
<1>12. Walks(segs, N, nt, to)
  <2>1. from \in TreeOf(nodes)
    BY <1>1, <1>2, <1>3, ReducedInTree, Zenon
  <2>2. to[0] = from /\ \A i \in 1 .. N : to[i] = Turn(to[i - 1], segs, i)
    BY <1>1, <1>11, Zenon DEF Turns
  <2>3. nt[0].result = from
    BY <1>7, <1>10, SMTT(20)
  <2>4. \A i \in 1 .. N : segs[i] \in Keys
    BY <1>1, <1>2, SMTT(20)
  <2> QED BY <1>2, <1>8, <2>1, <2>2, <2>3, <2>4, Zenon DEF Walks
<1>13. mt[0] = nt[0]
  BY <1>7, <1>10, ZenonT(30)
<1>14. nt[N].result # NULL => mt[N] = nt[N]
  <2>1. N \in 0 .. N
    BY <1>2, SMTT(20)
  <2> QED BY <1>8, <1>12, <1>13, <2>1, WalkStays, SMTT(20)
<1> QED BY <1>8, <1>14, SMTT(20)

\* A step changes nothing for the paths that led somewhere before.
THEOREM PathsAlwaysStay == VfsSpec => PathsStay
<1> DEFINE Reduces(n) == reduce_node(nodes', n) = reduce_node(nodes, n)
           Answers(d, path) == LET before == path_to_node(nodes, d, path)
                               IN before.result # NULL => path_to_node(nodes', d, path) = before
           Stays == nodes' # nodes => /\ \A n \in DOMAIN nodes : Reduces(n)
                                      /\ \A d \in Starts, path \in Paths : Answers(d, path)
<1>1. TreeInv(nodes) /\ TreeInv(nodes)' /\ [VfsNext]_vfs => [Stays]_vfs
  <2> SUFFICES ASSUME TreeInv(nodes), TreeInv(nodes'), [VfsNext]_vfs, nodes' # nodes
               PROVE  /\ \A n \in DOMAIN nodes : Reduces(n)
                      /\ \A d \in Starts, path \in Paths : Answers(d, path)
    BY SMTT(20)
  <2>1. Kept(nodes, nodes')
    BY StepGrows, GrownKeeps, ZenonT(30)
  <2>2. ShapeInv(nodes) /\ ShapeInv(nodes') /\ DOMAIN nodes = 1 .. Len(nodes)
    BY SMTT(20) DEF TreeInv, ShapeInv, Forest
  <2>3. ASSUME NEW n \in DOMAIN nodes PROVE Reduces(n)
    BY <2>1, <2>2, ReducedStays, SMTT(20)
  <2>4. ASSUME NEW d \in Starts, NEW path \in Paths PROVE Answers(d, path)
    <3>1. d \in 1 .. Len(nodes)
      BY <2>2, ReducedInTree, SMTT(20) DEF Starts, TreeOf
    <3> QED BY <2>1, <3>1, PathStays, Zenon
  <2> QED BY <2>3, <2>4, SMTT(20)
<1>2. VfsSpec => [][Stays]_vfs
  <2> HIDE DEF Stays
  <2> QED BY <1>1, TreeSound, PTL DEF VfsSpec
<1> QED BY <1>2, SMTT(20) DEF PathsStay
=============================================================================
