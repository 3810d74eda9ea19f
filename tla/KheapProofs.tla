---------------------------- MODULE KheapProofs -----------------------------
(***************************************************************************)
(* Proofs about Kheap, for any frame and header sizes, any sizes asked for *)
(* and any number of callers.  The inductive invariant says that the bytes *)
(* of the blocks are exactly those of the frames obtained (Tiling), that   *)
(* no block is twice in the free list, and that a block that kheap_realloc *)
(* copies stays its caller's until it is done.                             *)
(***************************************************************************)
EXTENDS Kheap, TLAPS, WellFoundedInduction

-----------------------------------------------------------------------------
(* Numbers *)

\* Multiples of the frame size.
LEMMA MulOrder ==
  ASSUME NEW F \in Nat, F > 0, NEW a \in Int, NEW b \in Int
  PROVE  /\ a * F \in Int
         /\ a <= b <=> a * F <= b * F
         /\ a < b <=> a * F < b * F
         /\ a * F + b * F = (a + b) * F
         /\ a >= 0 => a * F >= 0
OBVIOUS

\* The frame of a byte.
LEMMA DivBounds ==
  ASSUME NEW F \in Nat, F > 0, NEW x \in Int
  PROVE  /\ x \div F \in Int /\ (x \div F) * F <= x /\ x < (x \div F) * F + F
         /\ x \in Nat => x \div F \in Nat
OBVIOUS

\* The frame of a byte.
LEMMA DivUnique ==
  ASSUME NEW F \in Nat, F > 0, NEW a \in Int, NEW x \in Int, a * F <= x, x < a * F + F
  PROVE  x \div F = a
OBVIOUS

\* The bytes of a run of frames.
LEMMA DivRun ==
  ASSUME NEW F \in Nat, F > 0, NEW f \in Int, NEW n \in Int, NEW x \in Int
  PROVE  x \div F \in f .. f + n - 1 <=> f * F <= x /\ x < (f + n) * F
<1>1. PICK q \in Int : q = x \div F
  BY DivBounds
<1>2. q * F <= x /\ x < q * F + F
  BY <1>1, DivBounds
<1>3. /\ (f <= q <=> f * F <= q * F) /\ (q < f + n <=> q * F < (f + n) * F)
      /\ (q + 1 <= f + n <=> (q + 1) * F <= (f + n) * F) /\ (q < f <=> (q + 1) * F <= f * F)
      /\ (q + 1) * F = q * F + F
      /\ f * F \in Int /\ q * F \in Int /\ (f + n) * F \in Int
  BY MulOrder
<1>4. q \in f .. f + n - 1 <=> f <= q /\ q + 1 <= f + n
  OBVIOUS
<1> QED BY <1>1, <1>2, <1>3, <1>4

\* A set of numbers has a smallest element.
LEMMA SmallestOf ==
  ASSUME NEW S \in SUBSET Nat, S # {}
  PROVE  \E m \in S : \A k \in S : m <= k
<1> DEFINE R == OpToRel(<, Nat)
<1>1. \A x, y \in Nat : x < y => <<x, y>> \in R
  BY DEF OpToRel
<1>2. IsWellFoundedOn(R, Nat)
  BY NatLessThanWellFounded, Zenon
<1> HIDE DEF R
<1>3. PICK m \in S : \A k \in S : ~(<<k, m>> \in R)
  BY <1>2, WFMin, Zenon
<1>4. \A k \in S : ~(k < m)
  BY <1>1, <1>3, Zenon
<1> QED BY <1>4

-----------------------------------------------------------------------------
(* The free list *)

\* A list as the function that it is.
LEMMA ListIntro ==
  ASSUME NEW m, NEW n \in Nat, DOMAIN m = 1 .. n, m = [j \in 1 .. n |-> m[j]],
         \A j \in 1 .. n : m[j] \in Nat
  PROVE  m \in Seq(Nat) /\ Len(m) = n
<1>1. m \in [1 .. n -> Nat]
  OBVIOUS
<1> QED BY <1>1

\* What is where in a list with a block linked in.
LEMMA LinkedFacts ==
  ASSUME NEW l \in Seq(Nat), NEW i \in 1 .. Len(l) + 1, NEW b \in Nat
  PROVE  /\ Linked(l, i, b) \in Seq(Nat) /\ Len(Linked(l, i, b)) = Len(l) + 1
         /\ \A j \in 1 .. Len(l) + 1 :
              Linked(l, i, b)[j] = IF j < i THEN l[j] ELSE IF j = i THEN b ELSE l[j - 1]
<1>1. PICK n \in Nat : n = Len(l) + 1
  OBVIOUS
<1>2. PICK m : m = Linked(l, i, b)
  OBVIOUS
<1>3. /\ DOMAIN m = 1 .. n /\ m = [j \in 1 .. n |-> m[j]]
      /\ \A j \in 1 .. n : m[j] = IF j < i THEN l[j] ELSE IF j = i THEN b ELSE l[j - 1]
  BY <1>1, <1>2 DEF Linked
<1>4. \A j \in 1 .. n : m[j] \in Nat
  BY <1>1, <1>3, SMTT(20)
<1>5. m \in Seq(Nat) /\ Len(m) = n
  BY <1>3, <1>4, ListIntro
<1> QED BY <1>1, <1>2, <1>3, <1>5

\* What is where in a list with a block taken out.
LEMMA UnlinkedFacts ==
  ASSUME NEW l \in Seq(Nat), NEW i \in 1 .. Len(l)
  PROVE  /\ Unlinked(l, i) \in Seq(Nat) /\ Len(Unlinked(l, i)) = Len(l) - 1
         /\ \A j \in 1 .. Len(l) - 1 :
              Unlinked(l, i)[j] = IF j < i THEN l[j] ELSE l[j + 1]
<1>1. PICK n \in Nat : n = Len(l) - 1
  OBVIOUS
<1>2. PICK m : m = Unlinked(l, i)
  OBVIOUS
<1>3. /\ DOMAIN m = 1 .. n /\ m = [j \in 1 .. n |-> m[j]]
      /\ \A j \in 1 .. n : m[j] = IF j < i THEN l[j] ELSE l[j + 1]
  BY <1>1, <1>2 DEF Unlinked
<1>4. \A j \in 1 .. n : m[j] \in Nat
  BY <1>1, <1>3, SMTT(20)
<1>5. m \in Seq(Nat) /\ Len(m) = n
  BY <1>3, <1>4, ListIntro
<1> QED BY <1>1, <1>2, <1>3, <1>5

-----------------------------------------------------------------------------
(* coalesce_dll *)

\* The fold of coalesce_dll begins with nothing behind it.
Start(s) == [list |-> <<>>, prev |-> None, size |-> s]

\* The loop of coalesce_dll can be followed from block to block: its recursive definition
\* has a solution.
LEMMA CoalescedSteps ==
  ASSUME NEW l, Len(l) \in Nat, NEW s
  PROVE  \E m : /\ m[0] = Start(s)
                /\ \A i \in 1 .. Len(l) : m[i] = MergeNext(m[i - 1], l[i])
                /\ Coalesced(l, s) = m[Len(l)]
<1> DEFINE N == Len(l)
           G(n, f) == [i \in 0 .. n |-> IF i = 0 THEN Start(s) ELSE MergeNext(f[i - 1], l[i])]
           Bad == {n \in 0 .. N : ~\E f : f = G(n, f)}
<1>1. Bad = {}
  <2> SUFFICES ASSUME Bad # {} PROVE FALSE
    OBVIOUS
  <2>1. Bad \in SUBSET Nat
    OBVIOUS
  <2>2. PICK n \in Bad : \A k \in Bad : n <= k
    <3> HIDE DEF Bad
    <3> QED BY <2>1, SmallestOf
  <2>3. n \in 0 .. N /\ ~\E f : f = G(n, f)
    OBVIOUS
  <2>4. CASE n = 0
    <3> DEFINE f == [i \in 0 .. 0 |-> Start(s)]
    <3>1. \A i \in 0 .. 0 : i = 0
      OBVIOUS
    <3>2. f = G(0, f)
      BY <3>1
    <3> QED BY <2>3, <2>4, <3>2, Zenon
  <2>5. CASE n # 0
    <3>1. n - 1 \in 0 .. N /\ n \in Nat /\ ~(n <= n - 1)
      BY <2>3, <2>5
    <3>2. PICK f : f = G(n - 1, f)
      <4>1. n - 1 \notin Bad
        <5> HIDE DEF Bad
        <5> QED BY <2>2, <3>1
      <4> QED BY <3>1, <4>1
    <3> DEFINE g == [i \in 0 .. n |-> IF i = n THEN MergeNext(f[n - 1], l[n]) ELSE f[i]]
    <3>3. \A i \in 0 .. n - 1 : f[i] = IF i = 0 THEN Start(s) ELSE MergeNext(f[i - 1], l[i])
      BY <3>2
    <3>4. ASSUME NEW i \in 0 .. n
          PROVE  g[i] = IF i = 0 THEN Start(s) ELSE MergeNext(g[i - 1], l[i])
      <4>1. CASE i = n
        <5>1. g[i] = MergeNext(f[n - 1], l[n]) /\ i # 0
          BY <2>5, <4>1
        <5>2. n - 1 \in 0 .. n /\ n - 1 # n
          BY <3>1
        <5>3. g[n - 1] = f[n - 1]
          BY <5>2
        <5> HIDE DEF g
        <5> QED BY <4>1, <5>1, <5>3
      <4>2. CASE i # n
        <5>1. i \in 0 .. n - 1 /\ (i # 0 => i - 1 \in 0 .. n /\ i - 1 # n)
          BY <3>1, <4>2
        <5>2. g[i] = f[i] /\ (i # 0 => g[i - 1] = f[i - 1])
          BY <4>2, <5>1
        <5> HIDE DEF g
        <5> QED BY <3>3, <5>1, <5>2
      <4> QED BY <4>1, <4>2
    <3>5. g = G(n, g)
      <4>1. g = [i \in 0 .. n |-> g[i]]
        OBVIOUS
      <4> HIDE DEF g
      <4> QED BY <3>4, <4>1, Zenon
    <3> QED BY <2>3, <3>5, Zenon
  <2> QED BY <2>4, <2>5
<1>2. \E f : f = G(N, f)
  BY <1>1
<1> DEFINE m == CHOOSE f : f = G(N, f)
<1>3. m = G(N, m)
  <2> HIDE DEF G
  <2> QED BY <1>2
<1>4. Coalesced(l, s) = m[N]
  BY DEF Coalesced, Start
<1> HIDE DEF m
<1>5. m[0] = Start(s) /\ \A i \in 1 .. N : m[i] = MergeNext(m[i - 1], l[i])
  <2>1. 0 \in 0 .. N /\ \A i \in 1 .. N : i \in 0 .. N /\ i # 0
    OBVIOUS
  <2>2. \A i \in 0 .. N : m[i] = IF i = 0 THEN Start(s) ELSE MergeNext(m[i - 1], l[i])
    <3> HIDE DEF N
    <3> QED BY <1>3, Zenon
  <2> QED BY <2>1, <2>2
<1> QED BY <1>4, <1>5

\* What the loop knows after i blocks.
Merging(l, s, i, a) ==
  /\ a.list \in Seq(Nat) /\ Len(a.list) <= i
  /\ DOMAIN a.size \subseteq DOMAIN s /\ \A b \in DOMAIN a.size : a.size[b] \in Nat
  /\ \A b \in DOMAIN s : (\A j \in 1 .. i : l[j] # b) => b \in DOMAIN a.size /\ a.size[b] = s[b]
  /\ \A j \in 1 .. Len(a.list) : /\ a.list[j] \in DOMAIN a.size
                                 /\ \E k \in 1 .. i : a.list[j] = l[k]
  /\ a.prev = None \/ (a.prev \in DOMAIN a.size /\ \E k \in 1 .. i : a.prev = l[k])
  /\ Len(a.list) = i => a.size = s

\* One round of coalesce_dll: without a merge it leaves list and sizes alone.
LEMMA MergeStep ==
  ASSUME NEW l \in Seq(Nat), \A j, k \in 1 .. Len(l) : l[j] = l[k] => j = k,
         NEW s, \A j \in 1 .. Len(l) : l[j] \in DOMAIN s,
         NEW i \in 1 .. Len(l), NEW a, Merging(l, s, i - 1, a)
  PROVE  Merging(l, s, i, MergeNext(a, l[i]))
<1> DEFINE b == l[i]
           p == a.prev
<1>0. HEADER_SIZE \in Nat /\ i \in Nat /\ i - 1 \in Nat /\ 1 .. i - 1 \subseteq 1 .. i /\ b \in Nat
      /\ 1 .. i \subseteq 1 .. Len(l) /\ i \in 1 .. i /\ i \notin 1 .. i - 1
  BY HeapAssumption
<1>1. \A k \in 1 .. i - 1 : l[k] # b
  BY <1>0
<1>2. b \in DOMAIN a.size /\ b \in DOMAIN s
  BY <1>1, Zenon DEF Merging
<1>3. /\ a.list \in Seq(Nat) /\ Len(a.list) <= i - 1 /\ Len(a.list) \in Nat
      /\ DOMAIN a.size \subseteq DOMAIN s /\ \A x \in DOMAIN a.size : a.size[x] \in Nat
  BY DEF Merging
<1>4. CASE p # None /\ p + NODE_SIZE * (a.size[p] + HEADER_SIZE) = b
  <2> DEFINE z == Without([a.size EXCEPT ![p] = @ + a.size[b] + HEADER_SIZE], b)
  <2>1. MergeNext(a, b) = [list |-> a.list, prev |-> p, size |-> z]
    BY <1>4 DEF MergeNext
  <2>2. p \in DOMAIN a.size /\ \E k \in 1 .. i - 1 : p = l[k]
    BY <1>4 DEF Merging
  <2>3. /\ DOMAIN z = DOMAIN a.size \ {b} /\ p # b
        /\ \A x \in DOMAIN z : z[x] = IF x = p THEN a.size[p] + a.size[b] + HEADER_SIZE ELSE a.size[x]
    BY <1>1, <2>2 DEF Without
  <2> HIDE DEF z
  <2>4. \A x \in DOMAIN z : z[x] \in Nat
    <3>1. a.size[p] \in Nat /\ a.size[b] \in Nat
      BY <1>2, <1>3, <2>2, Zenon
    <3>2. a.size[p] + a.size[b] + HEADER_SIZE \in Nat
      <4>1. \A x, y, h \in Nat : x + y + h \in Nat
        OBVIOUS
      <4>2. HEADER_SIZE \in Nat
        BY <1>0
      <4> HIDE DEF b, p
      <4> QED BY <3>1, <4>1, <4>2, Zenon
    <3>3. \A x \in DOMAIN z : x \in DOMAIN a.size
      BY <2>3
    <3> HIDE DEF b, p
    <3> QED BY <1>3, <2>3, <3>2, <3>3, Zenon
  <2>5. \A x \in DOMAIN s : (\A j \in 1 .. i : l[j] # x) => x \in DOMAIN z /\ z[x] = s[x]
    <3> SUFFICES ASSUME NEW x \in DOMAIN s, \A j \in 1 .. i : l[j] # x
                 PROVE  x \in DOMAIN z /\ z[x] = s[x]
      OBVIOUS
    <3>1. x # b /\ x # p
      BY <1>0, <2>2
    <3>2. x \in DOMAIN a.size /\ a.size[x] = s[x]
      BY <1>0 DEF Merging
    <3> QED BY <2>3, <3>1, <3>2
  <2>6. \A j \in 1 .. Len(a.list) : a.list[j] \in DOMAIN z /\ \E k \in 1 .. i : a.list[j] = l[k]
    <3> SUFFICES ASSUME NEW j \in 1 .. Len(a.list)
                 PROVE  a.list[j] \in DOMAIN z /\ \E k \in 1 .. i : a.list[j] = l[k]
      OBVIOUS
    <3>1. a.list[j] \in DOMAIN a.size
      BY DEF Merging
    <3>2. PICK k \in 1 .. i - 1 : a.list[j] = l[k]
      BY DEF Merging
    <3>3. k \in 1 .. i /\ l[k] # b
      BY <1>0, <1>1
    <3> QED BY <2>3, <3>1, <3>2, <3>3
  <2>7. p \in DOMAIN z /\ \E k \in 1 .. i : p = l[k]
    BY <1>0, <2>2, <2>3
  <2>8. Len(a.list) <= i /\ Len(a.list) # i
    BY <1>0, <1>3
  <2>9. DOMAIN z \subseteq DOMAIN s
    BY <1>3, <2>3
  <2> HIDE DEF b, p
  <2> QED BY <1>3, <2>1, <2>4, <2>5, <2>6, <2>7, <2>8, <2>9 DEF Merging, b
<1>5. CASE ~(p # None /\ p + NODE_SIZE * (a.size[p] + HEADER_SIZE) = b)
  <2> DEFINE t == Append(a.list, b)
  <2>1. MergeNext(a, b) = [list |-> t, prev |-> b, size |-> a.size]
    BY <1>5 DEF MergeNext
  <2>2. /\ t \in Seq(Nat) /\ Len(t) = Len(a.list) + 1
        /\ \A j \in 1 .. Len(t) : t[j] = IF j <= Len(a.list) THEN a.list[j] ELSE b
    <3>1. PICK u \in Seq(Nat) : u = a.list
      BY <1>3
    <3>2. PICK x \in Nat : x = b
      BY <1>0
    <3>3. /\ Append(u, x) \in Seq(Nat) /\ Len(Append(u, x)) = Len(u) + 1 /\ Len(u) \in Nat
          /\ \A j \in 1 .. Len(u) : Append(u, x)[j] = u[j]
          /\ Append(u, x)[Len(u) + 1] = x
      OBVIOUS
    <3>4. \A j \in 1 .. Len(u) + 1 : Append(u, x)[j] = IF j <= Len(u) THEN u[j] ELSE x
      BY <3>3
    <3>5. t = Append(u, x)
      BY <3>1, <3>2
    <3> HIDE DEF t, b
    <3> QED BY <3>1, <3>2, <3>3, <3>4, <3>5, Zenon
  <2> HIDE DEF t
  <2>3. Len(t) <= i /\ (Len(t) = i => Len(a.list) = i - 1)
    BY <1>0, <1>3, <2>2
  <2>4. \A j \in 1 .. Len(t) : t[j] \in DOMAIN a.size /\ \E k \in 1 .. i : t[j] = l[k]
    <3> SUFFICES ASSUME NEW j \in 1 .. Len(t)
                 PROVE  t[j] \in DOMAIN a.size /\ \E k \in 1 .. i : t[j] = l[k]
      OBVIOUS
    <3>1. CASE j <= Len(a.list)
      <4>1. j \in 1 .. Len(a.list) /\ t[j] = a.list[j]
        BY <1>3, <2>2, <3>1
      <4> QED BY <1>0, <4>1 DEF Merging
    <3>2. CASE ~(j <= Len(a.list))
      BY <1>0, <1>2, <2>2, <3>2, Zenon
    <3> QED BY <3>1, <3>2
  <2>5. \A x \in DOMAIN s : (\A j \in 1 .. i : l[j] # x) => x \in DOMAIN a.size /\ a.size[x] = s[x]
    BY <1>0, Zenon DEF Merging
  <2>6. Len(t) = i => a.size = s
    BY <2>3 DEF Merging
  <2>7. b \in DOMAIN a.size /\ \E k \in 1 .. i : b = l[k]
    BY <1>0, <1>2
  <2> HIDE DEF b, p
  <2>8. t \in Seq(Nat)
    BY <2>2
  <2> QED BY <1>3, <2>1, <2>3, <2>4, <2>5, <2>6, <2>7, <2>8 DEF Merging, b
<1> QED BY <1>4, <1>5

\* coalesce_dll keeps its hands off blocks that are not in the list, and all others when it
\* takes none out of it.
LEMMA CoalescedFacts ==
  ASSUME NEW l \in Seq(Nat), \A j, k \in 1 .. Len(l) : l[j] = l[k] => j = k,
         NEW s, \A j \in 1 .. Len(l) : l[j] \in DOMAIN s, \A b \in DOMAIN s : s[b] \in Nat
  PROVE  /\ Merging(l, s, Len(l), Coalesced(l, s))
         /\ Coalesced(l, s).list = l => Coalesced(l, s).size = s
<1> DEFINE N == Len(l)
<1>0. N \in Nat
  OBVIOUS
<1>1. PICK m : /\ m[0] = Start(s)
               /\ \A i \in 1 .. N : m[i] = MergeNext(m[i - 1], l[i])
               /\ Coalesced(l, s) = m[N]
  BY <1>0, CoalescedSteps, Zenon
<1> DEFINE Bad == {i \in 0 .. N : ~Merging(l, s, i, m[i])}
<1>2. Merging(l, s, 0, Start(s))
  BY DEF Merging, Start
<1>3. Bad = {}
  <2> SUFFICES ASSUME Bad # {} PROVE FALSE
    OBVIOUS
  <2>1. Bad \in SUBSET Nat
    OBVIOUS
  <2>2. PICK n \in Bad : \A k \in Bad : n <= k
    <3> HIDE DEF Bad
    <3> QED BY <2>1, SmallestOf
  <2>3. n \in 0 .. N /\ ~Merging(l, s, n, m[n])
    OBVIOUS
  <2>4. n # 0
    BY <1>1, <1>2, <2>3
  <2>5. n \in 1 .. N /\ n - 1 \in 0 .. N /\ ~(n <= n - 1)
    BY <1>0, <2>3, <2>4
  <2>6. Merging(l, s, n - 1, m[n - 1])
    <3>1. n - 1 \notin Bad
      <4> HIDE DEF Bad
      <4> QED BY <2>2, <2>5
    <3> QED BY <2>5, <3>1
  <2>7. Merging(l, s, n, MergeNext(m[n - 1], l[n]))
    BY <2>5, <2>6, MergeStep, Zenon
  <2> QED BY <1>1, <2>3, <2>5, <2>7
<1>4. Merging(l, s, N, m[N])
  BY <1>0, <1>3
<1> QED BY <1>1, <1>4 DEF Merging

-----------------------------------------------------------------------------
(* Blocks and frames *)

\* The blocks B with the sizes s do not overlap, and their bytes are those of the frames H.
End(s, b) == b + HEADER_SIZE + s[b]
\* A byte of one of the blocks.
Inside(B, s, x) == \E b \in B : b <= x /\ x < End(s, b)
\* The blocks B cover the frames H, and no byte twice.
Tiling(B, s, H) ==
  /\ B \subseteq Nat /\ B \subseteq DOMAIN s /\ \A b \in B : s[b] \in Nat
  /\ \A a, b \in B : a < b => End(s, a) <= b
  /\ \A x \in Nat : Inside(B, s, x) <=> x \div FRAME_SIZE \in H

\* A block is cut in two.
LEMMA SplitTiling ==
  ASSUME NEW B, NEW s, NEW H, Tiling(B, s, H), NEW b \in B,
         NEW w \in Nat, NEW r \in Nat, s[b] = w + HEADER_SIZE + r,
         NEW t, NEW new, new = b + HEADER_SIZE + w,
         B \cup {new} \subseteq DOMAIN t, t[b] = w, t[new] = r,
         \A x \in B \ {b} : t[x] = s[x]
  PROVE  Tiling(B \cup {new}, t, H) /\ new \notin B
<1>0. HEADER_SIZE \in Nat /\ HEADER_SIZE > 0
  BY HeapAssumption
<1>1. /\ B \subseteq Nat /\ \A x \in B : s[x] \in Nat
      /\ \A x, y \in B : x < y => End(s, x) <= y
      /\ b \in Nat /\ new \in Nat
  BY <1>0 DEF Tiling
<1>2. /\ End(s, b) = new + HEADER_SIZE + r /\ End(t, b) = new /\ End(t, new) = End(s, b)
      /\ b < new /\ new < End(s, b) /\ End(s, b) \in Nat
  BY <1>0, <1>1 DEF End
<1>3. \A x \in B \ {b} : End(t, x) = End(s, x)
  BY DEF End
<1>4. \A x \in B : End(s, x) \in Nat /\ x < End(s, x)
  BY <1>0, <1>1 DEF End
<1>5. new \notin B
  BY <1>1, <1>2
<1>6. \A x, y \in B \cup {new} : x < y => End(t, x) <= y
  <2> SUFFICES ASSUME NEW x \in B \cup {new}, NEW y \in B \cup {new}, x < y
               PROVE  End(t, x) <= y
    OBVIOUS
  <2>1. CASE x = new
    <3>1. y \in B /\ b < y
      BY <1>1, <1>2, <2>1
    <3> QED BY <1>1, <1>2, <2>1, <3>1
  <2>2. CASE x = b
    BY <1>1, <1>2, <2>2
  <2>3. CASE x \in B \ {b}
    <3>1. CASE y = new
      <4>1. x < b
        <5>1. ~(b < x)
          BY <1>1, <1>2, <2>3, <3>1
        <5> QED BY <1>1, <2>3, <5>1
      <4>2. End(s, x) <= b
        BY <1>1, <2>3, <4>1
      <4> QED BY <1>1, <1>2, <1>3, <1>4, <2>3, <3>1, <4>2
    <3>2. CASE y \in B
      BY <1>1, <1>3, <2>3, <3>2
    <3> QED BY <3>1, <3>2
  <2> QED BY <2>1, <2>2, <2>3
<1>7. ASSUME NEW x \in Nat
      PROVE  Inside(B \cup {new}, t, x) <=> Inside(B, s, x)
  <2>1. ASSUME Inside(B, s, x) PROVE Inside(B \cup {new}, t, x)
    <3>1. PICK a \in B : a <= x /\ x < End(s, a)
      BY <2>1 DEF Inside
    <3>2. CASE a # b
      BY <1>3, <3>1, <3>2 DEF Inside
    <3>3. CASE a = b
      <4>1. (b <= x /\ x < End(t, b)) \/ (new <= x /\ x < End(t, new))
        BY <1>1, <1>2, <3>1, <3>3
      <4> QED BY <4>1 DEF Inside
    <3> QED BY <3>2, <3>3
  <2>2. ASSUME Inside(B \cup {new}, t, x) PROVE Inside(B, s, x)
    <3>1. PICK a \in B \cup {new} : a <= x /\ x < End(t, a)
      BY <2>2 DEF Inside
    <3>2. CASE a \in B \ {b}
      BY <1>3, <3>1, <3>2 DEF Inside
    <3>3. CASE a = b \/ a = new
      <4>1. b <= x /\ x < End(s, b)
        BY <1>1, <1>2, <3>1, <3>3
      <4> QED BY <4>1 DEF Inside
    <3> QED BY <3>2, <3>3
  <2> QED BY <2>1, <2>2
<1>8. \A x \in B \cup {new} : t[x] \in Nat
  BY <1>1
<1> QED BY <1>1, <1>5, <1>6, <1>7, <1>8, Zenon DEF Tiling

\* Frames are added as one block.
LEMMA GrowTiling ==
  ASSUME NEW B, NEW s, NEW H, Tiling(B, s, H),
         NEW f \in Nat, NEW n \in Nat, Run(f, n) \cap H = {},
         NEW t, NEW new, new = f * FRAME_SIZE,
         B \cup {new} \subseteq DOMAIN t, t[new] = n * FRAME_SIZE - HEADER_SIZE, t[new] \in Nat,
         \A x \in B : x # new => t[x] = s[x]
  PROVE  Tiling(B \cup {new}, t, H \cup Run(f, n)) /\ new \notin B
<1>0. HEADER_SIZE \in Nat /\ HEADER_SIZE > 0 /\ FRAME_SIZE \in Nat /\ FRAME_SIZE > 0
  BY HeapAssumption
<1>1. /\ B \subseteq Nat /\ \A x \in B : s[x] \in Nat
      /\ \A x, y \in B : x < y => End(s, x) <= y
  BY DEF Tiling
<1>2. new \in Nat /\ End(t, new) \in Nat /\ new < End(t, new) /\ End(t, new) = (f + n) * FRAME_SIZE
  <2>1. /\ new \in Int /\ n * FRAME_SIZE \in Int /\ new >= 0
        /\ new + n * FRAME_SIZE = (f + n) * FRAME_SIZE
    BY <1>0, MulOrder
  <2> QED BY <1>0, <2>1 DEF End
<1>3. \A x \in Nat : new <= x /\ x < End(t, new) <=> x \div FRAME_SIZE \in Run(f, n)
  BY <1>0, <1>2, DivRun DEF Run
<1>4. \A x \in Nat : ~(Inside(B, s, x) /\ new <= x /\ x < End(t, new))
  BY <1>3 DEF Tiling
<1>5. \A x \in B : End(s, x) \in Nat /\ x < End(s, x)
  BY <1>0, <1>1 DEF End
<1>6. new \notin B
  <2>1. ASSUME new \in B PROVE Inside(B, s, new)
    BY <1>1, <1>5, <2>1 DEF Inside
  <2> QED BY <1>2, <1>4, <2>1
<1>7. \A x \in B : t[x] = s[x] /\ End(t, x) = End(s, x)
  BY <1>6 DEF End
<1>8. \A x, y \in B \cup {new} : x < y => End(t, x) <= y
  <2> SUFFICES ASSUME NEW x \in B \cup {new}, NEW y \in B \cup {new}, x < y
               PROVE  End(t, x) <= y
    OBVIOUS
  <2>1. CASE x = new /\ y \in B
    <3>1. Inside(B, s, y)
      BY <1>1, <1>5, <2>1 DEF Inside
    <3>2. ~(y < End(t, new))
      BY <1>1, <1>2, <1>4, <2>1, <3>1
    <3> QED BY <1>1, <1>2, <2>1, <3>2
  <2>2. CASE x \in B /\ y = new
    <3>1. ~(new < End(s, x))
      <4>1. new < End(s, x) => Inside(B, s, new)
        BY <1>1, <1>2, <2>2 DEF Inside
      <4> QED BY <1>2, <1>4, <4>1
    <3> QED BY <1>2, <1>5, <1>7, <2>2, <3>1
  <2>3. CASE x \in B /\ y \in B
    BY <1>1, <1>7, <2>3
  <2> QED BY <1>2, <2>1, <2>2, <2>3
<1>9. ASSUME NEW x \in Nat
      PROVE  Inside(B \cup {new}, t, x) <=> x \div FRAME_SIZE \in H \cup Run(f, n)
  <2>1. Inside(B \cup {new}, t, x) <=> Inside(B, s, x) \/ (new <= x /\ x < End(t, new))
    BY <1>7 DEF Inside
  <2> QED BY <1>3, <2>1 DEF Tiling
<1>10. \A x \in B \cup {new} : t[x] \in Nat
  BY <1>1, <1>7
<1> QED BY <1>1, <1>2, <1>6, <1>8, <1>9, <1>10, Zenon DEF Tiling

-----------------------------------------------------------------------------
(* What the list holds, and each block once *)

\* No block is twice in a list.
NoDup(l) == \A j, k \in 1 .. Len(l) : l[j] = l[k] => j = k

\* The blocks of a list.
LEMMA ListSet ==
  ASSUME NEW l \in Seq(Nat)
  PROVE  /\ Len(l) \in Nat /\ DOMAIN l = 1 .. Len(l) /\ \A j \in 1 .. Len(l) : l[j] \in Nat
         /\ \A x : x \in Members(l) <=> \E j \in 1 .. Len(l) : l[j] = x
BY DEF Members

\* Linking a new block in adds it, once.
LEMMA InsertList ==
  ASSUME NEW l \in Seq(Nat), NEW i \in 1 .. Len(l) + 1, NEW b \in Nat, NoDup(l), b \notin Members(l)
  PROVE  /\ Linked(l, i, b) \in Seq(Nat) /\ NoDup(Linked(l, i, b))
         /\ Members(Linked(l, i, b)) = Members(l) \cup {b}
<1>1. PICK m : m = Linked(l, i, b)
  OBVIOUS
<1>2. /\ m \in Seq(Nat) /\ Len(m) = Len(l) + 1
      /\ \A j \in 1 .. Len(l) + 1 : m[j] = IF j < i THEN l[j] ELSE IF j = i THEN b ELSE l[j - 1]
  <2>1. /\ Linked(l, i, b) \in Seq(Nat) /\ Len(Linked(l, i, b)) = Len(l) + 1
        /\ \A j \in 1 .. Len(l) + 1 :
             Linked(l, i, b)[j] = IF j < i THEN l[j] ELSE IF j = i THEN b ELSE l[j - 1]
    BY LinkedFacts
  <2> QED BY <1>1, <2>1, Zenon
<1>3. Len(l) \in Nat /\ i \in Nat /\ \A j \in 1 .. Len(l) : l[j] # b
  BY ListSet
<1>4. \A j \in 1 .. Len(l) + 1 : /\ j < i => j \in 1 .. Len(l)
                                 /\ j > i => j - 1 \in 1 .. Len(l)
  BY <1>3
<1>5. NoDup(m)
  <2> SUFFICES ASSUME NEW j \in 1 .. Len(l) + 1, NEW k \in 1 .. Len(l) + 1, m[j] = m[k]
               PROVE  j = k
    BY <1>2 DEF NoDup
  <2>1. j \in Int /\ k \in Int /\ i \in Int
    BY <1>3
  <2>2. m[i] = b
    BY <1>2, <1>3
  <2>3. ASSUME NEW n \in 1 .. Len(l) + 1, n # i
        PROVE  \E p \in 1 .. Len(l) : m[n] = l[p] /\ p = (IF n < i THEN n ELSE n - 1)
    <3>1. n < i \/ (n > i /\ ~(n < i))
      BY <2>1, <2>3
    <3> QED BY <1>2, <1>4, <2>3, <3>1, Zenon
  <2>4. ASSUME NEW n \in 1 .. Len(l) + 1, n # i PROVE m[n] # b
    BY <1>3, <2>3, <2>4, Zenon
  <2>5. CASE j = i \/ k = i
    BY <2>2, <2>4, <2>5
  <2>6. CASE j # i /\ k # i
    <3>1. PICK p \in 1 .. Len(l) : m[j] = l[p] /\ p = (IF j < i THEN j ELSE j - 1)
      BY <2>3, <2>6, Zenon
    <3>2. PICK q \in 1 .. Len(l) : m[k] = l[q] /\ q = (IF k < i THEN k ELSE k - 1)
      BY <2>3, <2>6, Zenon
    <3>3. p = q
      BY <3>1, <3>2, Zenon DEF NoDup
    <3> QED BY <2>1, <2>6, <3>1, <3>2, <3>3
  <2> QED BY <2>5, <2>6
<1>6. ASSUME NEW x PROVE x \in Members(m) <=> x \in Members(l) \cup {b}
  <2>1. x \in Members(m) => x \in Members(l) \cup {b}
    <3> SUFFICES ASSUME NEW j \in 1 .. Len(l) + 1, x = m[j] PROVE x \in Members(l) \cup {b}
      BY <1>2, ListSet
    <3>1. j < i \/ j = i \/ j > i
      BY <1>3
    <3>2. x = b \/ \E p \in 1 .. Len(l) : x = l[p]
      BY <1>2, <1>3, <1>4, <3>1, Zenon
    <3> QED BY <3>2, ListSet
  <2>2. ASSUME NEW p \in 1 .. Len(l) PROVE l[p] \in Members(m)
    <3>1. CASE p < i
      <4>1. p \in 1 .. Len(l) + 1 /\ m[p] = l[p]
        BY <1>2, <1>3, <3>1
      <4> QED BY <1>2, <4>1, ListSet, Zenon
    <3>2. CASE ~(p < i)
      <4>1. p + 1 \in 1 .. Len(l) + 1 /\ p + 1 > i /\ p + 1 - 1 = p
        BY <1>3, <3>2
      <4>2. m[p + 1] = l[p]
        BY <1>2, <1>3, <4>1, SMTT(20)
      <4> QED BY <1>2, <4>1, <4>2, ListSet, Zenon
    <3> QED BY <3>1, <3>2
  <2>3. b \in Members(m)
    <3>1. m[i] = b
      BY <1>2, <1>3
    <3> QED BY <1>2, <3>1, ListSet
  <2>4. x \in Members(l) => x \in Members(m)
    BY <2>2, ListSet
  <2> QED BY <2>1, <2>3, <2>4
<1> QED BY <1>1, <1>2, <1>5, <1>6

\* Unlinking takes away that block only.
LEMMA RemoveList ==
  ASSUME NEW l \in Seq(Nat), NEW i \in 1 .. Len(l), NoDup(l)
  PROVE  /\ Unlinked(l, i) \in Seq(Nat) /\ NoDup(Unlinked(l, i))
         /\ Members(Unlinked(l, i)) = Members(l) \ {l[i]}
<1>1. PICK m : m = Unlinked(l, i)
  OBVIOUS
<1>2. /\ m \in Seq(Nat) /\ Len(m) = Len(l) - 1
      /\ \A j \in 1 .. Len(l) - 1 : m[j] = IF j < i THEN l[j] ELSE l[j + 1]
  BY <1>1, UnlinkedFacts, Zenon
<1>3. Len(l) \in Nat /\ i \in Nat
  BY ListSet
<1>4. ASSUME NEW j \in 1 .. Len(l) - 1
      PROVE  \E p \in 1 .. Len(l) : m[j] = l[p] /\ p # i /\ p = (IF j < i THEN j ELSE j + 1)
  <2>1. CASE j < i
    BY <1>2, <1>3, <2>1
  <2>2. CASE ~(j < i)
    <3>1. j + 1 \in 1 .. Len(l) /\ j + 1 # i
      BY <1>3, <2>2
    <3> QED BY <1>2, <2>2, <3>1
  <2> QED BY <2>1, <2>2
<1>5. NoDup(m)
  <2> SUFFICES ASSUME NEW j \in 1 .. Len(l) - 1, NEW k \in 1 .. Len(l) - 1, m[j] = m[k]
               PROVE  j = k
    BY <1>2 DEF NoDup
  <2>1. PICK p \in 1 .. Len(l) : m[j] = l[p] /\ p # i /\ p = (IF j < i THEN j ELSE j + 1)
    BY <1>4
  <2>2. PICK q \in 1 .. Len(l) : m[k] = l[q] /\ q # i /\ q = (IF k < i THEN k ELSE k + 1)
    BY <1>4
  <2>3. p = q
    BY <2>1, <2>2, Zenon DEF NoDup
  <2> QED BY <1>3, <2>1, <2>2, <2>3, SMTT(20)
<1>6. ASSUME NEW x PROVE x \in Members(m) <=> x \in Members(l) \ {l[i]}
  <2>1. x \in Members(m) => x \in Members(l) \ {l[i]}
    <3>0. x \in Members(m) => \E j \in 1 .. Len(m) : m[j] = x
      BY <1>2, ListSet
    <3> SUFFICES ASSUME NEW j \in 1 .. Len(l) - 1, x = m[j] PROVE x \in Members(l) \ {l[i]}
      BY <1>2, <3>0
    <3>1. PICK p \in 1 .. Len(l) : m[j] = l[p] /\ p # i
      BY <1>4
    <3>2. l[p] # l[i]
      BY <3>1 DEF NoDup
    <3> QED BY <3>1, <3>2, ListSet
  <2>2. ASSUME NEW p \in 1 .. Len(l), p # i PROVE l[p] \in Members(m)
    <3>1. CASE p < i
      <4>1. p \in 1 .. Len(l) - 1
        BY <1>3, <3>1
      <4>2. m[p] = l[p]
        BY <1>2, <3>1, <4>1
      <4> QED BY <1>2, <4>1, <4>2, ListSet, Zenon
    <3>2. CASE ~(p < i)
      <4>1. p - 1 \in 1 .. Len(l) - 1 /\ ~(p - 1 < i) /\ p - 1 + 1 = p
        BY <1>3, <2>2, <3>2
      <4>2. m[p - 1] = l[p]
        BY <1>2, <4>1, Zenon
      <4> QED BY <1>2, <4>1, <4>2, ListSet, Zenon
    <3> QED BY <3>1, <3>2
  <2>3. x \in Members(l) \ {l[i]} => x \in Members(m)
    <3> SUFFICES ASSUME NEW p \in 1 .. Len(l), x = l[p], x # l[i] PROVE x \in Members(m)
      BY ListSet
    <3>1. p # i
      OBVIOUS
    <3> QED BY <2>2, <3>1
  <2> QED BY <2>1, <2>3
<1> QED BY <1>1, <1>2, <1>5, <1>6

\* Appending a new block adds it, once.
LEMMA AppendList ==
  ASSUME NEW l \in Seq(Nat), NEW b \in Nat, NoDup(l), b \notin Members(l)
  PROVE  /\ Append(l, b) \in Seq(Nat) /\ NoDup(Append(l, b))
         /\ Members(Append(l, b)) = Members(l) \cup {b}
<1>1. PICK m : m = Append(l, b)
  BY Zenon
<1>2. /\ m \in Seq(Nat) /\ Len(m) = Len(l) + 1
      /\ \A j \in 1 .. Len(l) : m[j] = l[j]
      /\ m[Len(l) + 1] = b
  BY <1>1
<1>3. Len(l) \in Nat /\ \A j \in 1 .. Len(l) : l[j] # b
  BY ListSet
<1>4. \A j \in 1 .. Len(l) + 1 : j \in 1 .. Len(l) \/ j = Len(l) + 1
  BY <1>3
<1>5. NoDup(m)
  BY <1>2, <1>3, <1>4, Zenon DEF NoDup
<1>6. ASSUME NEW x PROVE x \in Members(m) <=> x \in Members(l) \cup {b}
  <2>1. x \in Members(m) <=> \E j \in 1 .. Len(l) + 1 : m[j] = x
    BY <1>2, ListSet
  <2>2. x \in Members(l) <=> \E j \in 1 .. Len(l) : l[j] = x
    BY ListSet
  <2>3. Len(l) + 1 \in 1 .. Len(l) + 1 /\ \A j \in 1 .. Len(l) : j \in 1 .. Len(l) + 1
    BY <1>3
  <2> QED BY <1>2, <1>4, <2>1, <2>2, <2>3, Zenon
<1> QED BY <1>1, <1>2, <1>5, <1>6

\* The rest of a split block takes its place.
LEMMA ReplaceList ==
  ASSUME NEW l \in Seq(Nat), NEW i \in 1 .. Len(l), NEW b \in Nat, NoDup(l), b \notin Members(l)
  PROVE  /\ [l EXCEPT ![i] = b] \in Seq(Nat) /\ NoDup([l EXCEPT ![i] = b])
         /\ Members([l EXCEPT ![i] = b]) = (Members(l) \ {l[i]}) \cup {b}
<1>1. PICK m : m = [l EXCEPT ![i] = b]
  BY Zenon
<1>2. /\ m \in Seq(Nat) /\ Len(m) = Len(l)
      /\ \A j \in 1 .. Len(l) : m[j] = IF j = i THEN b ELSE l[j]
  BY <1>1
<1>3. \A j \in 1 .. Len(l) : l[j] # b
  BY ListSet
<1>5. NoDup(m)
  BY <1>2, <1>3, Zenon DEF NoDup
<1>6. ASSUME NEW x PROVE x \in Members(m) <=> x \in (Members(l) \ {l[i]}) \cup {b}
  <2>1. x \in Members(m) <=> \E j \in 1 .. Len(l) : m[j] = x
    BY <1>2, ListSet
  <2>2. x \in Members(l) <=> \E j \in 1 .. Len(l) : l[j] = x
    BY ListSet
  <2>3. \A j \in 1 .. Len(l) : j # i => l[j] # l[i]
    BY DEF NoDup
  <2> QED BY <1>2, <2>1, <2>2, <2>3, Zenon
<1> QED BY <1>1, <1>2, <1>5, <1>6, Zenon

-----------------------------------------------------------------------------
(* The invariant *)

Places == {"ready", "alloc", "stopped", "fault", "deadlock"}

\* A caller that is copying a block has it until it is done.
CallInv == /\ pc \in [Cpus -> Places]
           /\ want \in [Cpus -> Sizes \cup {0}]
           /\ from \in [Cpus -> Nat \cup {None}]
           /\ \A c \in Cpus : pc[c] = "ready" => from[c] = None
           /\ \A c \in Cpus : from[c] # None => from[c] \in DOMAIN used /\ used[from[c]] = c

\* Frames are free, in the heap, or neither, and never both.
FrameInv == /\ frames \subseteq Frames /\ heap \subseteq Frames /\ frames \cap heap = {}
            /\ kheap_lock \in {0, 1} /\ merged \in BOOLEAN
            /\ \A b \in DOMAIN used : used[b] \in Owners

\* The types of what coalesce_dll changes, and what holds until it merges blocks.
BlockType == /\ free_list \in Seq(Nat) /\ DOMAIN size \subseteq Nat
             /\ \A b \in DOMAIN size : size[b] \in Nat
             /\ Blocks \subseteq DOMAIN size
\* Until coalesce_dll merges two blocks, they tile the heap.
BlockInv == ~merged => /\ NoDup(free_list)
                       /\ FreeBlocks \cap DOMAIN used = {}
                       /\ Tiling(Blocks, size, heap)

\* The inductive invariant of Kheap.
IInv == CallInv /\ FrameInv /\ BlockType /\ BlockInv

\* The sizes that the assumption gives.
LEMMA SizesFacts ==
  /\ HEADER_SIZE \in Nat /\ HEADER_SIZE > 0 /\ FRAME_SIZE \in Nat /\ FRAME_SIZE > 0
  /\ HEADER_SIZE <= FRAME_SIZE
  /\ Sizes \cup {0} \subseteq Nat /\ None \notin Nat /\ "nobody" \notin Cpus
BY HeapAssumption DEF None

\* kheap_init: one block in one frame.
LEMMA InitInv == Init => IInv
<1> SUFFICES ASSUME Init PROVE IInv
  OBVIOUS
<1> USE SizesFacts
<1>1. CallInv
  BY DEF Init, CallInv, Places
<1>2. FrameInv
  BY HeapAssumption, Zenon DEF Init, FrameInv
<1>3. free_list = <<FRAME_SIZE>> /\ free_list \in Seq(Nat) /\ NoDup(free_list)
  BY DEF Init, NoDup
<1>4. FreeBlocks = {FRAME_SIZE} /\ DOMAIN used = {} /\ Blocks = {FRAME_SIZE}
  <2>1. FreeBlocks = {FRAME_SIZE}
    BY <1>3 DEF FreeBlocks, Members
  <2> QED BY <2>1 DEF Init, Blocks
<1>5. DOMAIN size = {FRAME_SIZE} /\ size[FRAME_SIZE] = FRAME_SIZE - HEADER_SIZE
  BY DEF Init
<1>6. BlockType
  BY <1>3, <1>4, <1>5 DEF BlockType
<1>7. Tiling(Blocks, size, heap)
  <2>1. heap = {1}
    BY DEF Init
  <2>2. Tiling({}, size, {})
    BY DEF Tiling, Inside
  <2>3. Run(1, 1) = {1}
    BY DEF Run
  <2>4. FRAME_SIZE = 1 * FRAME_SIZE /\ size[FRAME_SIZE] = 1 * FRAME_SIZE - HEADER_SIZE
    BY <1>5
  <2>5. size[FRAME_SIZE] \in Nat
    BY <1>5
  <2>6. Tiling({} \cup {FRAME_SIZE}, size, {} \cup Run(1, 1))
    <3>1. Run(1, 1) \cap {} = {} /\ {} \cup {FRAME_SIZE} \subseteq DOMAIN size
      BY <1>5
    <3> HIDE SizesFacts
    <3> QED BY <2>2, <2>4, <2>5, <3>1, GrowTiling
  <2>7. {} \cup {FRAME_SIZE} = Blocks /\ {} \cup Run(1, 1) = heap
    BY <1>4, <2>1, <2>3
  <2> QED BY <2>6, <2>7
<1> QED BY <1>1, <1>2, <1>3, <1>4, <1>6, <1>7 DEF IInv, BlockInv

\* coalesce_dll, given what its caller has made of the list, of the blocks in use and of
\* the frames.
LEMMA CoalesceStep ==
  ASSUME NEW l \in Seq(Nat), NoDup(l), NEW s, DOMAIN s \subseteq Nat, \A b \in DOMAIN s : s[b] \in Nat,
         ~merged, SetCoalesced(l, s),
         Members(l) \cup DOMAIN used' \subseteq DOMAIN s, Members(l) \cap DOMAIN used' = {},
         Tiling(Members(l) \cup DOMAIN used', s, heap')
  PROVE  /\ BlockType' /\ BlockInv' /\ merged' \in BOOLEAN
         /\ \A b \in DOMAIN used' : size'[b] = s[b]
<1> DEFINE r == Coalesced(l, s)
<1>1. free_list' = r.list /\ size' = r.size /\ merged' = (r.list # l)
  BY DEF SetCoalesced
<1>2. \A j \in 1 .. Len(l) : l[j] \in DOMAIN s
  BY ListSet
<1>3. Merging(l, s, Len(l), r) /\ (r.list = l => r.size = s)
  BY <1>2, CoalescedFacts, Zenon DEF NoDup
<1> HIDE DEF r
<1>4. /\ r.list \in Seq(Nat) /\ DOMAIN r.size \subseteq DOMAIN s
      /\ \A b \in DOMAIN r.size : r.size[b] \in Nat
  BY <1>3 DEF Merging
<1>5. \A b \in DOMAIN used' : b \in DOMAIN r.size /\ r.size[b] = s[b]
  <2> SUFFICES ASSUME NEW b \in DOMAIN used' PROVE b \in DOMAIN r.size /\ r.size[b] = s[b]
    OBVIOUS
  <2>1. b \in DOMAIN s /\ \A j \in 1 .. Len(l) : l[j] # b
    BY ListSet
  <2> QED BY <1>3, <2>1, SMTT(20) DEF Merging
<1>6. FreeBlocks' \subseteq DOMAIN r.size
  <2>1. \A j \in 1 .. Len(r.list) : r.list[j] \in DOMAIN r.size
    BY <1>3 DEF Merging
  <2>2. FreeBlocks' = Members(r.list)
    BY <1>1 DEF FreeBlocks
  <2>3. PICK u \in Seq(Nat) : u = r.list
    BY <1>4
  <2>4. \A x \in Members(u) : \E j \in 1 .. Len(u) : u[j] = x
    BY ListSet
  <2> QED BY <2>1, <2>2, <2>3, <2>4
<1>7. BlockType'
  BY <1>1, <1>4, <1>5, <1>6 DEF BlockType, Blocks
<1>8. ASSUME ~merged' PROVE NoDup(free_list)' /\ (FreeBlocks \cap DOMAIN used = {})'
                            /\ Tiling(Blocks, size, heap)'
  <2>1. free_list' = l /\ size' = s
    BY <1>1, <1>3, <1>8, Zenon
  <2>2. FreeBlocks' = Members(l) /\ Blocks' = Members(l) \cup DOMAIN used'
    BY <2>1 DEF FreeBlocks, Blocks
  <2>3. Tiling(Blocks, size, heap)' <=> Tiling(Blocks', size', heap')
    BY DEF Tiling, Inside, End
  <2>4. NoDup(free_list)' <=> NoDup(free_list')
    BY DEF NoDup
  <2> QED BY <2>1, <2>2, <2>3, <2>4
<1> QED BY <1>1, <1>5, <1>7, <1>8 DEF BlockInv

-----------------------------------------------------------------------------
(* The steps *)

\* The blocks in use that stay in use keep their sizes.
Stay == \A b \in DOMAIN used : b \in DOMAIN used' => size'[b] = size[b]

\* Steps that leave the heap as it is.
LEMMA SameHeap ==
  ASSUME FrameInv, BlockType, BlockInv, kheap_lock' \in {0, 1},
         UNCHANGED <<free_list, size, used, frames, heap, merged>>
  PROVE  FrameInv' /\ BlockType' /\ BlockInv' /\ Stay
<1>1. FrameInv' /\ Stay
  BY DEF FrameInv, Stay
<1>2. BlockType'
  BY DEF BlockType, Blocks, FreeBlocks
<1>3. BlockInv'
  BY DEF BlockInv, Blocks, FreeBlocks, Tiling, Inside, End, NoDup
<1> QED BY <1>1, <1>2, <1>3

\* A call of kheap_alloc.
LEMMA AllocStep == ASSUME IInv, NEW c \in Cpus, Alloc(c) PROVE IInv' /\ Stay
<1>1. CallInv'
  BY SMTT(20) DEF IInv, CallInv, Alloc, At, Places
<1>2. FrameInv' /\ BlockType' /\ BlockInv' /\ Stay
  BY SameHeap, SMTT(20) DEF Alloc, IInv, FrameInv
<1> QED BY <1>1, <1>2 DEF IInv

\* A call of kheap_realloc.
LEMMA ReallocStep == ASSUME IInv, NEW c \in Cpus, Realloc(c) PROVE IInv' /\ Stay
<1>1. PICK b \in DOMAIN used, z \in Sizes :
        /\ used[b] = c /\ want' = [want EXCEPT ![c] = z] /\ from' = [from EXCEPT ![c] = b]
  BY Zenon DEF Realloc
<1>2. b \in Nat
  BY SMTT(20) DEF IInv, BlockType, Blocks
<1>3. CallInv'
  BY <1>1, <1>2, SMTT(20) DEF IInv, CallInv, Realloc, Places
<1>4. FrameInv' /\ BlockType' /\ BlockInv' /\ Stay
  BY SameHeap, SMTT(20) DEF Realloc, IInv, FrameInv
<1> QED BY <1>3, <1>4, SMTT(20) DEF IInv

\* The way out of kheap_free that keeps the lock, and the assertion after it.
LEMMA StopStep == ASSUME IInv, NEW c \in Cpus, FreeFrames(c) \/ Deadlocked(c) PROVE IInv' /\ Stay
<1>1. CallInv'
  BY SMTT(20) DEF IInv, CallInv, FreeFrames, Deadlocked, Places
<1>2. FrameInv' /\ BlockType' /\ BlockInv' /\ Stay
  <2>1. kheap_lock' \in {0, 1} /\ UNCHANGED <<free_list, size, used, frames, heap, merged>>
    BY SMTT(20) DEF FreeFrames, Deadlocked, IInv, FrameInv
  <2> QED BY <2>1, SameHeap, SMTT(20) DEF IInv
<1> QED BY <1>1, <1>2, SMTT(20) DEF IInv

\* A block is found, split or not, and leaves the list.
LEMMA AllocFitStep == ASSUME IInv, NEW c \in Cpus, AllocFit(c) PROVE IInv' /\ Stay
<1>0. /\ ~merged /\ NoDup(free_list) /\ FreeBlocks \cap DOMAIN used = {}
      /\ Tiling(Blocks, size, heap) /\ free_list \in Seq(Nat)
      /\ DOMAIN size \subseteq Nat /\ (\A x \in DOMAIN size : size[x] \in Nat)
      /\ Blocks \subseteq DOMAIN size
  BY DEF AllocFit, At, IInv, BlockInv, BlockType
<1> DEFINE Fit(i, b, rest, new) ==
             /\ IF rest >= HEADER_SIZE
                THEN /\ free_list' = [free_list EXCEPT ![i] = new]
                     /\ size' = With([size EXCEPT ![b] = want[c]], new, rest - HEADER_SIZE)
                ELSE free_list' = Unlinked(free_list, i) /\ UNCHANGED size
             /\ used' = With([x \in DOMAIN used |-> IF x = from[c] THEN "nobody" ELSE used[x]], b, c)
<1>1. PICK i \in DOMAIN free_list :
        /\ i \in Fits(c)
        /\ Fit(i, free_list[i], size[free_list[i]] - want[c], free_list[i] + HEADER_SIZE + want[c])
  BY Zenon DEF AllocFit, IsFirst
<1>2. i \in 1 .. Len(free_list) /\ size[free_list[i]] >= want[c]
  BY <1>0, <1>1, ListSet DEF Fits
<1>3. PICK b : b = free_list[i]
  OBVIOUS
<1>4. b \in FreeBlocks /\ b \in Blocks /\ b \in Nat /\ b \in DOMAIN size /\ b \notin DOMAIN used
      /\ size[b] \in Nat /\ size[b] >= want[c] /\ want[c] \in Nat
  <2>1. b \in FreeBlocks
    BY <1>0, <1>2, <1>3, ListSet DEF FreeBlocks
  <2>2. want[c] \in Nat
    BY SizesFacts DEF IInv, CallInv
  <2> QED BY <1>0, <1>2, <1>3, <2>1, <2>2 DEF Blocks
<1>5. PICK rest, new : rest = size[b] - want[c] /\ new = b + HEADER_SIZE + want[c]
  OBVIOUS
<1>6. Fit(i, b, rest, new)
  <2> HIDE DEF Fit
  <2> QED BY <1>1, <1>3, <1>5
<1>7. DOMAIN used' = DOMAIN used \cup {b}
      /\ \A x \in DOMAIN used' : used'[x] = IF x = b THEN c
                                            ELSE IF x = from[c] THEN "nobody" ELSE used[x]
  BY <1>6 DEF With
<1>8. CallInv'
  <2>1. /\ pc' = [pc EXCEPT ![c] = "ready"] /\ want' = [want EXCEPT ![c] = 0]
        /\ from' = [from EXCEPT ![c] = None]
    BY DEF AllocFit
  <2>2. CallInv
    BY DEF IInv
  <2>3. pc' \in [Cpus -> Places] /\ want' \in [Cpus -> Sizes \cup {0}] /\ from' \in [Cpus -> Nat \cup {None}]
    BY <2>1, <2>2 DEF CallInv, Places
  <2>4. ASSUME NEW d \in Cpus PROVE pc'[d] = "ready" => from'[d] = None
    BY <2>1, <2>2 DEF CallInv
  <2>5. ASSUME NEW d \in Cpus, from'[d] # None
        PROVE  from'[d] \in DOMAIN used' /\ used'[from'[d]] = d
    <3>1. d # c /\ from'[d] = from[d]
      BY <2>1, <2>2, <2>5 DEF CallInv
    <3>2. from[d] \in DOMAIN used /\ used[from[d]] = d
      BY <2>2, <2>5, <3>1 DEF CallInv
    <3>3. from[d] # from[c]
      BY <2>2, <2>5, <3>1, <3>2 DEF CallInv
    <3> QED BY <1>4, <1>7, <3>1, <3>2, <3>3
  <2> QED BY <2>3, <2>4, <2>5 DEF CallInv
<1>9. FrameInv'
  <2>1. UNCHANGED <<kheap_lock, frames, heap, merged>>
    BY DEF AllocFit
  <2>2. \A x \in DOMAIN used' : used'[x] \in Owners
    BY <1>7 DEF IInv, FrameInv, Owners
  <2> QED BY <2>1, <2>2 DEF IInv, FrameInv
<1>10. heap' = heap /\ merged' = merged
  BY DEF AllocFit
<1>11. CASE rest >= HEADER_SIZE
  <2>0. PICK left : left = rest - HEADER_SIZE
    OBVIOUS
  <2>1. left \in Nat /\ size[b] = want[c] + HEADER_SIZE + left /\ new \in Nat /\ new # b
    BY <1>4, <1>5, <1>11, <2>0, SizesFacts
  <2>2. /\ DOMAIN size' = DOMAIN size \cup {new} /\ size'[new] = left /\ size'[b] = want[c]
        /\ \A x \in DOMAIN size : x # b /\ x # new => size'[x] = size[x]
    BY <1>4, <1>6, <1>11, <2>0, <2>1 DEF With
  <2>3. PICK t : t = size'
    OBVIOUS
  <2>4. Tiling(Blocks \cup {new}, t, heap) /\ new \notin Blocks
    <3>1. new \notin Blocks
      <4>2. /\ b < new /\ new < End(size, b) /\ End(size, b) \in Nat
        BY <1>4, <1>5, <2>1, SizesFacts DEF End
      <4> QED BY <1>0, <1>4, <2>1, <4>2 DEF Tiling
    <3>2. Blocks \cup {new} \subseteq DOMAIN t /\ t[b] = want[c] /\ t[new] = left
          /\ \A x \in Blocks \ {b} : t[x] = size[x]
      BY <1>0, <2>2, <2>3, <3>1
    <3>3. PICK B, z, H, w : B = Blocks /\ z = size /\ H = heap /\ w = want[c]
      OBVIOUS
    <3>4. /\ Tiling(B, z, H) /\ b \in B /\ w \in Nat /\ z[b] = w + HEADER_SIZE + left
          /\ new = b + HEADER_SIZE + w /\ B \cup {new} \subseteq DOMAIN t
          /\ t[b] = w /\ t[new] = left /\ \A x \in B \ {b} : t[x] = z[x]
      BY <1>0, <1>4, <1>5, <2>1, <3>2, <3>3
    <3>5. Tiling(B \cup {new}, t, H)
      BY <2>1, <3>4, SplitTiling
    <3> QED BY <3>1, <3>3, <3>5
  <2>5. new \notin FreeBlocks
    BY <2>4 DEF Blocks
  <2>6. /\ free_list' \in Seq(Nat) /\ NoDup(free_list') /\ Members(free_list') = (FreeBlocks \ {b}) \cup {new}
    <3>1. PICK l \in Seq(Nat) : l = free_list
      BY <1>0
    <3>2. NoDup(l) /\ new \notin Members(l) /\ i \in 1 .. Len(l)
      BY <1>0, <1>2, <2>5, <3>1 DEF FreeBlocks
    <3>3. /\ [l EXCEPT ![i] = new] \in Seq(Nat) /\ NoDup([l EXCEPT ![i] = new])
          /\ Members([l EXCEPT ![i] = new]) = (Members(l) \ {l[i]}) \cup {new}
      BY <2>1, <3>2, ReplaceList, Zenon
    <3>4. free_list' = [l EXCEPT ![i] = new] /\ Members(l) = FreeBlocks /\ l[i] = b
      BY <1>3, <1>6, <1>11, <3>1 DEF FreeBlocks
    <3> QED BY <3>3, <3>4, Zenon
  <2>7. FreeBlocks' = (FreeBlocks \ {b}) \cup {new} /\ Blocks' = Blocks \cup {new}
    BY <1>4, <1>7, <2>6 DEF FreeBlocks, Blocks
  <2>8. BlockType'
    <3>1. \A x \in DOMAIN size' : size'[x] \in Nat
      BY <1>0, <1>4, <2>1, <2>2, Zenon
    <3> QED BY <1>0, <2>1, <2>2, <2>6, <2>7, <3>1 DEF BlockType
  <2>9. BlockInv'
    <3>1. (FreeBlocks \cap DOMAIN used)' = {}
      BY <1>0, <1>7, <2>1, <2>4, <2>7 DEF Blocks
    <3>2. Tiling(Blocks, size, heap)'
      <4>1. Tiling(Blocks, size, heap)' <=> Tiling(Blocks', size', heap')
        BY DEF Tiling, Inside, End
      <4> QED BY <1>10, <2>3, <2>4, <2>7, <4>1
    <3>3. NoDup(free_list)'
      BY <2>6 DEF NoDup
    <3> QED BY <3>1, <3>2, <3>3 DEF BlockInv
  <2>10. Stay
    BY <1>0, <1>4, <2>2, <2>4 DEF Stay, Blocks
  <2> QED BY <1>8, <1>9, <2>8, <2>9, <2>10 DEF IInv
<1>12. CASE ~(rest >= HEADER_SIZE)
  <2>1. free_list' = Unlinked(free_list, i) /\ size' = size
    BY <1>6, <1>12
  <2>2. free_list' \in Seq(Nat) /\ NoDup(free_list') /\ Members(free_list') = FreeBlocks \ {b}
    BY <1>0, <1>2, <1>3, <2>1, RemoveList DEF FreeBlocks
  <2>3. FreeBlocks' = FreeBlocks \ {b} /\ Blocks' = Blocks
    BY <1>4, <1>7, <2>2 DEF FreeBlocks, Blocks
  <2>4. BlockType'
    BY <1>0, <2>1, <2>2, <2>3 DEF BlockType
  <2>5. BlockInv'
    <3>1. (FreeBlocks \cap DOMAIN used)' = {}
      BY <1>0, <1>7, <2>3
    <3>2. Tiling(Blocks, size, heap)'
      <4>1. Tiling(Blocks, size, heap)' <=> Tiling(Blocks', size', heap')
        BY DEF Tiling, Inside, End
      <4> QED BY <1>0, <1>10, <2>1, <2>3, <4>1
    <3>3. NoDup(free_list)'
      BY <2>2 DEF NoDup
    <3> QED BY <3>1, <3>2, <3>3 DEF BlockInv
  <2>6. Stay
    BY <2>1 DEF Stay
  <2> QED BY <1>8, <1>9, <2>4, <2>5, <2>6 DEF IInv
<1> QED BY <1>11, <1>12

\* The frames that a refill asks for have room for the block and its header.
LEMMA EnoughFrames ==
  ASSUME NEW w \in Nat, NEW n, n = (w + HEADER_SIZE + FRAME_SIZE - 1) \div FRAME_SIZE
  PROVE  n \in Nat /\ n * FRAME_SIZE - HEADER_SIZE \in Nat
<1>1. PICK y \in Nat : y = w + HEADER_SIZE + FRAME_SIZE - 1
  BY SizesFacts
<1>2. n \in Nat /\ y < n * FRAME_SIZE + FRAME_SIZE
  BY <1>1, SizesFacts, DivBounds
<1>3. n * FRAME_SIZE \in Int
  BY <1>2, SizesFacts, MulOrder
<1>4. PICK m \in Int : m = n * FRAME_SIZE
  BY <1>3
<1> QED BY <1>1, <1>2, <1>4, SizesFacts

\* Frames are added as one block at the end of the list, or there are none.
LEMMA AllocGrowStep == ASSUME IInv, NEW c \in Cpus, AllocGrow(c) PROVE IInv' /\ Stay
<1>0. /\ ~merged /\ NoDup(free_list) /\ FreeBlocks \cap DOMAIN used = {}
      /\ Tiling(Blocks, size, heap) /\ free_list \in Seq(Nat)
      /\ DOMAIN size \subseteq Nat /\ (\A x \in DOMAIN size : size[x] \in Nat)
      /\ Blocks \subseteq DOMAIN size
  BY DEF AllocGrow, At, IInv, BlockInv, BlockType
<1>1. PICK n : n = (want[c] + HEADER_SIZE + FRAME_SIZE - 1) \div FRAME_SIZE
  OBVIOUS
<1>2. n \in Nat /\ n * FRAME_SIZE - HEADER_SIZE \in Nat
  <2>1. want[c] \in Nat
    BY SizesFacts DEF IInv, CallInv
  <2> QED BY <1>1, <2>1, EnoughFrames
<1>3. UNCHANGED <<used, want, from>>
  BY DEF AllocGrow
<1>4. ASSUME NEW f \in Frames, IsFirstFit(frames, f, n), frames' = frames \ Run(f, n),
             heap' = heap \cup Run(f, n), UNCHANGED <<kheap_lock, pc>>,
             SetCoalesced(Append(free_list, f * FRAME_SIZE),
                          With(size, f * FRAME_SIZE, n * FRAME_SIZE - HEADER_SIZE))
      PROVE  IInv' /\ Stay
  <2>1. PICK new : new = f * FRAME_SIZE
    OBVIOUS
  <2>2. PICK t : t = With(size, new, n * FRAME_SIZE - HEADER_SIZE)
    OBVIOUS
  <2>3. /\ DOMAIN t = DOMAIN size \cup {new} /\ t[new] = n * FRAME_SIZE - HEADER_SIZE
        /\ \A x \in DOMAIN size : x # new => t[x] = size[x]
    BY <2>2 DEF With
  <2>4. f \in Nat /\ new \in Nat
    <3>1. f \in Nat
      BY LimitAssumption DEF Frames
    <3>2. new \in Int /\ new >= 0
      BY <2>1, <3>1, SizesFacts, MulOrder
    <3> QED BY <3>1, <3>2
  <2>5. Run(f, n) \subseteq frames
    BY <1>4 DEF IsFirstFit, IsFreeRun
  <2>6. Tiling(Blocks \cup {new}, t, heap') /\ new \notin Blocks
    <3>1. PICK B, z, H : B = Blocks /\ z = size /\ H = heap
      OBVIOUS
    <3>2. Run(f, n) \cap H = {}
      BY <2>5, <3>1 DEF IInv, FrameInv
    <3>3. /\ Tiling(B, z, H) /\ B \cup {new} \subseteq DOMAIN t /\ t[new] \in Nat
          /\ \A x \in B : x # new => t[x] = z[x]
      BY <1>0, <1>2, <2>3, <3>1
    <3>4. Tiling(B \cup {new}, t, H \cup Run(f, n)) /\ new \notin B
      BY <1>2, <2>1, <2>3, <2>4, <3>2, <3>3, GrowTiling
    <3> QED BY <1>4, <3>1, <3>4
  <2>7. PICK l : l = Append(free_list, new)
    BY Zenon
  <2>8. l \in Seq(Nat) /\ NoDup(l) /\ Members(l) = FreeBlocks \cup {new}
    <3>1. new \notin Members(free_list)
      BY <2>6 DEF Blocks, FreeBlocks
    <3> QED BY <1>0, <2>4, <2>7, <3>1, AppendList DEF FreeBlocks
  <2>9. SetCoalesced(l, t)
    BY <1>4, <2>1, <2>2, <2>7
  <2>10. /\ Members(l) \cup DOMAIN used' = Blocks \cup {new}
         /\ Members(l) \cap DOMAIN used' = {}
    BY <1>0, <1>3, <2>6, <2>8 DEF Blocks
  <2>11. DOMAIN t \subseteq Nat /\ \A x \in DOMAIN t : t[x] \in Nat
    BY <1>0, <1>2, <2>3, <2>4, Zenon
  <2>12. /\ BlockType' /\ BlockInv' /\ merged' \in BOOLEAN
         /\ \A x \in DOMAIN used' : size'[x] = t[x]
    <3>1. Members(l) \cup DOMAIN used' \subseteq DOMAIN t
      BY <1>0, <2>3, <2>10
    <3>2. Tiling(Members(l) \cup DOMAIN used', t, heap')
      BY <2>6, <2>10
    <3> QED BY <1>0, <2>8, <2>9, <2>10, <2>11, <3>1, <3>2, CoalesceStep, Zenon
  <2>13. Stay
    <3>1. \A x \in DOMAIN used : x \in DOMAIN size /\ x # new
      BY <1>0, <2>6 DEF Blocks
    <3> QED BY <1>3, <2>3, <2>12, <3>1 DEF Stay
  <2>14. FrameInv'
    <3>1. Run(f, n) \subseteq Frames
      BY <2>5, SMTT(20) DEF IInv, FrameInv
    <3> QED BY <1>3, <1>4, <2>12, <3>1 DEF IInv, FrameInv
  <2>15. CallInv'
    BY <1>3, <1>4, SMTT(20) DEF IInv, CallInv
  <2> QED BY <2>12, <2>13, <2>14, <2>15 DEF IInv
<1>5. ASSUME kheap_lock' = 1, pc' = [pc EXCEPT ![c] = "stopped"],
             UNCHANGED <<free_list, size, frames, heap, merged>>
      PROVE  IInv' /\ Stay
  <2>1. CallInv'
    BY <1>3, <1>5, SMTT(20) DEF IInv, CallInv, Places
  <2>2. FrameInv' /\ BlockType' /\ BlockInv' /\ Stay
    BY <1>3, <1>5, SameHeap, SMTT(20) DEF IInv
  <2> QED BY <2>1, <2>2, SMTT(20) DEF IInv
<1> QED BY <1>1, <1>4, <1>5 DEF AllocGrow

\* A block goes back to its place in the list.
LEMMA FreeStep == ASSUME IInv, NEW c \in Cpus, Free(c) PROVE IInv' /\ Stay
<1>0. /\ ~merged /\ NoDup(free_list) /\ FreeBlocks \cap DOMAIN used = {}
      /\ Tiling(Blocks, size, heap) /\ free_list \in Seq(Nat)
      /\ DOMAIN size \subseteq Nat /\ (\A x \in DOMAIN size : size[x] \in Nat)
      /\ Blocks \subseteq DOMAIN size
  BY SMTT(20) DEF Free, At, IInv, BlockInv, BlockType
<1>1. PICK b \in DOMAIN used, i \in 1 .. Len(free_list) + 1 :
        used[b] = c /\ used' = Without(used, b) /\ SetCoalesced(Linked(free_list, i, b), size)
  BY SMTT(20) DEF Free
<1>4. b \in Nat /\ b \notin FreeBlocks
  BY <1>0, SMTT(20) DEF Blocks
<1>5. PICK l : l = Linked(free_list, i, b)
  BY SMTT(20)
<1>6. l \in Seq(Nat) /\ NoDup(l) /\ Members(l) = FreeBlocks \cup {b}
  <2>1. PICK k \in Seq(Nat) : k = free_list
    BY <1>0, SMTT(20)
  <2>2. NoDup(k) /\ b \notin Members(k) /\ i \in 1 .. Len(k) + 1
    BY <1>0, <1>4, <2>1, SMTT(20) DEF FreeBlocks
  <2>3. /\ Linked(k, i, b) \in Seq(Nat) /\ NoDup(Linked(k, i, b))
        /\ Members(Linked(k, i, b)) = Members(k) \cup {b}
    BY <1>4, <2>2, InsertList, SMTT(20)
  <2> QED BY <1>5, <2>1, <2>3, SMTT(20) DEF FreeBlocks
<1>7. DOMAIN used' = DOMAIN used \ {b} /\ \A x \in DOMAIN used' : used'[x] = used[x]
  BY <1>1, SMTT(20) DEF Without
<1>8. Members(l) \cup DOMAIN used' = Blocks /\ Members(l) \cap DOMAIN used' = {}
  BY <1>0, <1>1, <1>6, <1>7, SMTT(20) DEF Blocks
<1>9. UNCHANGED <<kheap_lock, frames, heap, pc, want, from>>
  BY SMTT(20) DEF Free
<1>10. /\ BlockType' /\ BlockInv' /\ merged' \in BOOLEAN
       /\ \A x \in DOMAIN used' : size'[x] = size[x]
  <2>1. SetCoalesced(l, size)
    BY <1>1, <1>5, SMTT(20)
  <2>2. Tiling(Members(l) \cup DOMAIN used', size, heap')
    BY <1>0, <1>8, <1>9, Zenon
  <2>3. Members(l) \cup DOMAIN used' \subseteq DOMAIN size
    BY <1>0, <1>8
  <2> QED BY <1>0, <1>6, <1>8, <2>1, <2>2, <2>3, CoalesceStep, Zenon
<1>11. FrameInv'
  BY <1>7, <1>9, <1>10 DEF IInv, FrameInv
<1>12. CallInv'
  <2>1. CallInv /\ pc[c] = "ready"
    BY Zenon DEF IInv, Free, At
  <2>2. ASSUME NEW d \in Cpus, from[d] # None
        PROVE  from[d] \in DOMAIN used' /\ used'[from[d]] = d
    <3>1. d # c /\ from[d] \in DOMAIN used /\ used[from[d]] = d
      BY <2>1, <2>2, Zenon DEF CallInv
    <3>2. from[d] # b
      BY <1>1, <3>1, Zenon
    <3> QED BY <1>7, <3>1, <3>2
  <2> QED BY <1>9, <2>1, <2>2, Zenon DEF CallInv
<1>13. Stay
  BY <1>10 DEF Stay
<1> QED BY <1>10, <1>11, <1>12, <1>13, SMTT(20) DEF IInv

-----------------------------------------------------------------------------
\* Every step of the heap keeps the invariant, and the sizes of the blocks in use.
LEMMA NextInv == ASSUME IInv, [Next]_vars PROVE IInv' /\ Stay
<1>1. CASE UNCHANGED vars
  <2>1. CallInv'
    BY <1>1 DEF vars, IInv, CallInv
  <2>2. FrameInv' /\ BlockType' /\ BlockInv' /\ Stay
    BY <1>1, SameHeap DEF vars, IInv, FrameInv
  <2> QED BY <2>1, <2>2 DEF IInv
<1>2. CASE Next
  BY <1>2, AllocStep, ReallocStep, AllocFitStep, AllocGrowStep, FreeStep, StopStep DEF Next
<1> QED BY <1>1, <1>2

\* The blocks, the free list and the frames of the heap stay as the invariant says.
THEOREM HeapInvariance == Spec => []IInv
<1>1. IInv /\ [Next]_vars => IInv'
  BY NextInv
<1> QED BY <1>1, InitInv, PTL DEF Spec

\* The fields and lists of the heap are what they should be, even after a wrong merge.
THEOREM HeapTypeCorrect == Spec => []TypeOK
<1>1. IInv => TypeOK
  <2> SUFFICES ASSUME IInv PROVE TypeOK
    OBVIOUS
  <2>1. \A c \in Cpus : from[c] \in DOMAIN used \cup {None}
    BY Zenon DEF IInv, CallInv
  <2>2. \A c \in Cpus : pc[c] \in Places /\ want[c] \in Sizes \cup {0}
    BY Zenon DEF IInv, CallInv
  <2> QED BY <2>1, <2>2 DEF IInv, FrameInv, BlockType, TypeOK, Places
<1> QED BY <1>1, HeapInvariance, PTL

\* Until coalesce_dll merges blocks, the frames of the heap are cut into blocks without gap
\* or overlap, each of them in use or once in the free list: for all sizes of frames and of
\* headers, all sizes asked for and all numbers of processors.
THEOREM HeapTiled == Spec => []Tiled
<1>1. IInv => Tiled
  <2> SUFFICES ASSUME IInv, ~merged
               PROVE  /\ FreeBlocks \cap DOMAIN used = {}
                      /\ \A i, j \in DOMAIN free_list : free_list[i] = free_list[j] => i = j
                      /\ \A a, b \in Blocks : a < b => EndOf(a) <= b
                      /\ \A x \in Edges : InBlock(x) <=> x \div FRAME_SIZE \in heap
    BY DEF Tiled
  <2>1. /\ NoDup(free_list) /\ free_list \in Seq(Nat) /\ FreeBlocks \cap DOMAIN used = {}
        /\ Tiling(Blocks, size, heap)
    BY DEF IInv, BlockInv, BlockType
  <2>2. \A i, j \in DOMAIN free_list : free_list[i] = free_list[j] => i = j
    BY <2>1, ListSet DEF NoDup
  <2>3. \A a, b \in Blocks : a < b => EndOf(a) <= b
    BY <2>1 DEF Tiling, End, EndOf
  <2>4. Edges \subseteq Nat
    <3>1. Blocks \subseteq Nat /\ \A b \in Blocks : size[b] \in Nat
      BY <2>1 DEF Tiling
    <3>2. \A b \in Blocks : EndOf(b) \in Nat
      BY <3>1, SizesFacts DEF EndOf
    <3>3. ASSUME NEW f \in 0 .. Limit PROVE f * FRAME_SIZE \in Nat
      <4>1. f * FRAME_SIZE \in Int /\ f * FRAME_SIZE >= 0
        BY LimitAssumption, SizesFacts, MulOrder
      <4> QED BY <4>1
    <3> QED BY <3>1, <3>2, <3>3, Zenon DEF Edges
  <2>5. \A x \in Nat : InBlock(x) <=> x \div FRAME_SIZE \in heap
    BY <2>1 DEF Tiling, Inside, End, InBlock, EndOf
  <2> QED BY <2>1, <2>2, <2>3, <2>4, <2>5
<1> QED BY <1>1, HeapInvariance, PTL

\* A block in use keeps its size until it is freed.
THEOREM HeapUsedBlocksStay == Spec => UsedBlocksStay
<1>1. IInv /\ [Next]_vars =>
        [~merged => \A b \in DOMAIN used : b \in DOMAIN used' => size'[b] = size[b]]_vars
  BY NextInv DEF Stay
<1> QED BY <1>1, HeapInvariance, PTL DEF Spec, UsedBlocksStay
=============================================================================
