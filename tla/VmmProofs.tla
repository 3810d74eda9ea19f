----------------------------- MODULE VmmProofs ------------------------------
(***************************************************************************)
(* The second half of the proofs about Vmm: with what VmmTables shows about *)
(* the tables, that a walk stays where the indices lead, that user pages   *)
(* are entered in user tables, whose frames are mapped, and that the page  *)
(* tables implement AddressSpaces.                                         *)
(***************************************************************************)
EXTENDS VmmTables

\* Every step keeps the walks right.
LEMMA WalkStep == ASSUME IInv, TypeOK', [Next]_vars PROVE WalkInv'
<1> USE DEF IInv
<1>0. /\ kernel \notin Cpus /\ Cpus \subseteq Spaces /\ NULL \notin Frames /\ NULL \notin Spaces
      /\ \A t \in Spaces : WalkInvOf(t)
  BY VmmAssumption, LimitAssumption DEF WalkInv, Spaces, Frames
<1> SUFFICES ASSUME NEW t \in Spaces PROVE WalkInvOf(t)'
  BY DEF WalkInv
<1>a. ASSUME NEW s \in Spaces, NewPagemap(s) PROVE WalkInvOf(t)'
  <2>1. CASE s = t
    BY <1>0, <1>a, <2>1 DEF NewPagemap, Goto, WalkInvOf, TypeOK
  <2>2. CASE s # t
    BY <1>a, <2>2, Bystander, Zenon DEF NewPagemap, Goto, TypeOK, walk
  <2> QED BY <2>1, <2>2
<1>b. ASSUME NEW s \in Spaces, NewTop(s) PROVE WalkInvOf(t)'
  <2>0. PICK b \in Frames : top' = [top EXCEPT ![s] = b]
    BY <1>b, Zenon DEF NewTop
  <2>1. CASE s = t
    <3>1. /\ top'[t] # NULL /\ pc[t] = "top" /\ pc'[t] = "map" /\ ret' = ret /\ headers' = headers
      <4>1. top'[t] # NULL
        BY <1>0, <2>0, <2>1, SMTT(40) DEF TypeOK
      <4>2. pc[t] = "top" /\ pc'[t] = "map" /\ ret' = ret /\ headers' = headers
        BY <1>b, <2>1, ZenonT(60) DEF NewTop, Goto, TypeOK
      <4> QED BY <4>1, <4>2, Zenon
    <3> QED BY <1>0, <3>1 DEF WalkInvOf
  <2>2. CASE s # t
    <3>1. /\ top'[t] = top[t] /\ pc'[t] = pc[t] /\ ret' = ret /\ headers' = headers
          /\ todo' = todo /\ cur' = cur /\ depth' = depth
      BY <1>b, <2>0, <2>2, SMTT(40) DEF NewTop, Goto, TypeOK, walk
    <3> QED BY <3>1, Bystander, ZenonT(60)
  <2> QED BY <2>1, <2>2
<1>c. ASSUME NEW s \in Spaces, MapLock(s) PROVE WalkInvOf(t)'
  <2>1. CASE s = t
    <3>1. /\ pc[t] = "map" /\ pc'[t] = "walk" /\ top' = top /\ todo' = todo /\ level' = level
          /\ owner' = owner /\ cur'[t] = top[t] /\ depth'[t] = 4 /\ todo[t] # <<>>
          /\ ret' = ret /\ headers' = headers
      BY <1>c, <2>1 DEF MapLock, TypeOK, frames
    <3>2. top[t] # NULL /\ top[t] \in Frames /\ level[top[t]] = 4 /\ owner[top[t]] = t
      BY <1>0, <3>1 DEF WalkInvOf, TopInv
    <3>3. Walking(t)'
      BY <3>1, <3>2 DEF Walking, OnWay
    <3> QED BY <1>0, <3>1, <3>2, <3>3, ZenonT(60) DEF WalkInvOf
  <2>2. CASE s # t
    BY <1>c, <2>2, Bystander, ZenonT(40) DEF MapLock, TypeOK
  <2> QED BY <2>1, <2>2, SMTT(40)
<1>d. ASSUME NEW s \in Spaces, NextLevel(s) PROVE WalkInvOf(t)'
  <2>1. CASE s = t
    <3> DEFINE p == PageOf(virt(t))
               d == depth[t]
    <3>1. /\ pc[t] = "walk" /\ pc' = pc /\ top' = top /\ todo' = todo /\ level' = level
          /\ owner' = owner /\ table' = table /\ cur'[t] = Entry(t) /\ depth'[t] = d - 1
          /\ ret' = ret /\ headers' = headers /\ d > 1 /\ Entry(t) # NULL
      BY <1>d, <2>1 DEF NextLevel, Descend, TypeOK, frames
    <3>w. /\ todo[t] # <<>> /\ d \in 1 .. 4 /\ cur[t] \in Frames /\ p[d] \in Index
          /\ level[cur[t]] = d /\ owner[cur[t]] = t
          /\ t # kernel => ~(p[4] >= Half)
      BY <3>1, WalkFacts, ZenonT(60)
    <3>2. /\ todo[t] # <<>> /\ d \in 2 .. 4 /\ cur[t] \in Frames /\ p[d] \in Index
          /\ level[cur[t]] = d /\ owner[cur[t]] = t
          /\ t # kernel => ~(p[4] >= Half)
      <4>1. d > 1
        BY <3>1, Zenon
      <4> HIDE DEF p, d
      <4> QED BY <4>1, <3>w, SMTT(40)
    <3>3. cur[t] = OnWay(t, p, d)
      BY <1>0, <3>1, ZenonT(60) DEF WalkInvOf, Walking
    <3>4. Entry(t) = table[cur[t]][p[d]] /\ Entry(t) = At(OnWay(t, p, d), p[d])
      BY <1>0, <3>2, <3>3, ZenonT(60) DEF Entry, At
    <3>5. Entry(t) = OnWay(t, p, d - 1)
      BY <3>2, <3>4, WayDown, ZenonT(60)
    <3>6. Entry(t) \in Frames /\ level[Entry(t)] = d - 1 /\ owner[Entry(t)] = t
      BY <3>1, <3>2, <3>4, ZenonT(40) DEF LevelInv
    <3>7. OnWay(t, PageOf(virt(t)), depth[t])' = OnWay(t, p, d - 1)
      BY <3>1, SMTT(20) DEF OnWay, Pml1, Pml2, Pml3, At, virt, PageOf
    <3>8. Walking(t)'
      <4>1. d - 1 \in 1 .. 4
        <5>1. d \in 2 .. 4
          BY <3>2, Zenon
        <5> HIDE DEF d
        <5> QED BY <5>1, SMTT(40)
      <4> HIDE DEF p, d
      <4> QED BY <4>1, <3>1, <3>2, <3>5, <3>6, <3>7, ZenonT(60) DEF Walking
    <3>9. top[t] # NULL
      BY <1>0, <3>1, Zenon DEF WalkInvOf
    <3>10. t \in Cpus /\ ret[t] = "read" => headers[t] # <<>>
      BY <1>0, <3>1 DEF WalkInvOf
    <3> QED BY <3>1, <3>8, <3>9, <3>10 DEF WalkInvOf
  <2>2. CASE s # t
    BY <1>d, <2>2, Bystander, Zenon DEF NextLevel, Descend, TypeOK
  <2> QED BY <2>1, <2>2
<1>e. ASSUME NEW s \in Spaces, NewLevel(s) PROVE WalkInvOf(t)'
  <2>0. PICK b \in Frames : Descend(s, b)
    BY <1>e, SMTT(40) DEF NewLevel
  <2>1. CASE s = t
    <3> DEFINE p == PageOf(virt(t))
               d == depth[t]
    <3>0. PICK f \in Frames, k \in Index : NewTable(t, f, k)
      BY <1>e, <2>1, NewLevelFacts, Zenon
    <3>1. /\ Fresh(t, f, d - 1) /\ k = p[d]
          /\ pc[t] = "walk" /\ d \in 2 .. 4 /\ table'[cur[t]][k] = f
          /\ Descend(t, f)
      BY <3>0, ZenonT(60) DEF NewTable
    <3>2. /\ pc' = pc /\ top' = top /\ todo' = todo /\ cur'[t] = f /\ depth'[t] = d - 1
          /\ ret' = ret /\ headers' = headers
      BY <3>1, SMTT(40) DEF Descend, TypeOK
    <3>3. /\ todo[t] # <<>> /\ cur[t] \in Frames /\ p \in Pages
          /\ level[cur[t]] = d /\ owner[cur[t]] = t
      BY <3>1, WalkFacts, ZenonT(60)
    <3>4. cur[t] = OnWay(t, p, d)
      BY <1>0, <3>1, Zenon DEF WalkInvOf, Walking
    <3>5. PICK q \in Pages, e \in 2 .. 4 : q = p /\ e = d
      BY <3>1, <3>3, ZenonT(60)
    <3>6. OnWay(t, q, e)' = cur[t]
      <4>1. OnWay(t, q, e) = cur[t] /\ OnWay(t, q, e) # NULL
        BY <1>0, <3>3, <3>4, <3>5
      <4>2. OnWay(t, q, e)' = OnWay(t, q, e)
        BY <4>1, WayStays
      <4> QED BY <4>1, <4>2
    <3>7. OnWay(t, q, e - 1)' = f
      <4>1. OnWay(t, q, e - 1)' = At(OnWay(t, q, e), q[e])'
        BY WayDown, SMTT(40)
      <4>2. q[e] = k /\ table'[cur[t]][k] = f /\ cur[t] # NULL
        BY <1>0, <3>1, <3>3, <3>5
      <4>3. At(OnWay(t, q, e), q[e])' = table'[cur[t]][q[e]]
        BY <3>6, <4>2, SMTT(40) DEF At
      <4> QED BY <4>1, <4>2, <4>3
    <3>8. OnWay(t, PageOf(virt(t)), depth[t])' = f
      <4>1. PageOf(virt(t))' = q
        BY <3>2, <3>5, SMTT(40) DEF PageOf, virt
      <4>2. depth'[t] = e - 1
        BY <3>2, <3>5, ZenonT(60)
      <4> HIDE DEF p, d
      <4> QED BY <3>7, <4>1, <4>2, ZenonT(60) DEF OnWay, Pml1, Pml2, Pml3, At
    <3>9. Walking(t)'
      <4>0. d \in 2 .. 4 /\ level'[f] = d - 1 /\ owner'[f] = t
        BY <3>1, ZenonT(60) DEF Fresh
      <4>1. d - 1 \in 1 .. 4 /\ level'[f] = d - 1 /\ owner'[f] = t
        <5> HIDE DEF p, d
        <5>1. d - 1 \in 1 .. 4
          BY <4>0, SMTT(40)
        <5> QED BY <4>0, <5>1, Zenon
      <4> HIDE DEF p, d
      <4> QED BY <3>2, <3>3, <3>8, <4>1, ZenonT(40) DEF Walking
    <3>10. top[t] # NULL /\ (t \in Cpus /\ ret[t] = "read" => headers[t] # <<>>)
      BY <1>0, <3>1, ZenonT(40) DEF WalkInvOf
    <3> QED BY <3>1, <3>2, <3>9, <3>10, ZenonT(40) DEF WalkInvOf
  <2>2. CASE s # t
    BY <2>0, <2>2, Bystander, ZenonT(40) DEF Descend, TypeOK
  <2> QED BY <2>1, <2>2
<1>f. ASSUME NEW s \in Spaces, SetEntry(s) PROVE WalkInvOf(t)'
  <2>1. CASE s = t
    BY <1>0, <1>f, <2>1, ZenonT(40) DEF SetEntry, WalkInvOf, TypeOK
  <2>2. CASE s # t
    BY <1>f, <2>2, Bystander, ZenonT(40) DEF SetEntry, TypeOK, walk
  <2> QED BY <2>1, <2>2, Zenon
<1>g. ASSUME NEW s \in Spaces, MapDone(s) PROVE WalkInvOf(t)'
  <2>1. CASE s = t
    BY <1>0, <1>g, <2>1, ZenonT(40) DEF MapDone, Goto, WalkInvOf, TypeOK
  <2>2. CASE s # t
    BY <1>g, <2>2, Bystander, Zenon DEF MapDone, Goto, TypeOK, walk
  <2> QED BY <2>1, <2>2, Zenon
<1>h. ASSUME NEW s \in Spaces, OutOfMemory(s) PROVE WalkInvOf(t)'
  <2>0. pc' = [pc EXCEPT ![s] = "fault"] /\ UNCHANGED <<top, ret, todo, cur, depth, headers>>
    BY <1>h, Zenon DEF OutOfMemory, walk
  <2>1. CASE s = t
    BY <2>0, <2>1, SMTT(40) DEF WalkInvOf, TypeOK
  <2>2. CASE s # t
    BY <2>0, <2>2, Bystander, ZenonT(40) DEF TypeOK
  <2> QED BY <2>1, <2>2, Zenon
<1>i. ASSUME NEW c \in Cpus, NEW v, NEW b, NEW n, NEW w \in {"read", "run"}, MapPages(c, v, b, n, w),
             pc[c] \in {"load", "run"}, headers' = headers,
             w = "read" => headers[c] # <<>>
      PROVE  WalkInvOf(t)'
  <2>1. CASE c = t
    <3>1. pc'[t] = "map" /\ ret'[t] = w /\ top' = top
      BY <1>0, <1>i, <2>1 DEF MapPages, TypeOK
    <3>2. top[t] # NULL
      BY <1>0, <1>i, <2>1, Zenon DEF WalkInvOf
    <3> QED BY <1>i, <2>1, <3>1, <3>2 DEF WalkInvOf
  <2>2. CASE c # t
    <3>1. /\ top' = top /\ pc'[t] = pc[t] /\ ret'[t] = ret[t] /\ headers' = headers
          /\ todo'[t] = todo[t] /\ cur' = cur /\ depth' = depth
      BY <1>0, <1>i, <2>2, SMTT(40) DEF MapPages, TypeOK, walk
    <3> QED BY <3>1, Bystander, SMTT(40)
  <2> QED BY <2>1, <2>2
<1>j. ASSUME NEW c \in Cpus, LoadSegment(c) \/ UserStack(c) \/ Mmap(c) PROVE WalkInvOf(t)'
  BY <1>i, <1>j DEF LoadSegment, More, UserStack, Mmap
<1>k. ASSUME NEW c \in Cpus, ReadSegment(c) \/ OtherHeader(c) PROVE WalkInvOf(t)'
  <2>0. /\ pc[c] \in {"read", "load"} /\ UNCHANGED <<top, ret, todo, cur, depth>>
        /\ \E w \in {"load", "halted"} : pc' = [pc EXCEPT ![c] = w]
        /\ headers' = [headers EXCEPT ![c] = Tail(@)]
    BY <1>k DEF ReadSegment, OtherHeader, Goto, More, walk
  <2>1. CASE c = t
    BY <1>0, <2>0, <2>1, Zenon DEF WalkInvOf, TypeOK
  <2>2. CASE c # t
    BY <1>0, <2>0, <2>2, Bystander, Zenon DEF TypeOK
  <2> QED BY <2>1, <2>2
<1>l. CASE UNCHANGED vars
  BY <1>l, Bystander DEF vars
<1> QED BY <1>a, <1>b, <1>c, <1>d, <1>e, <1>f, <1>g, <1>h, <1>j, <1>k, <1>l DEF Next, MapStep
-----------------------------------------------------------------------------
(* What the processes map *)

\* Processes keep to user pages.
LEMMA UserStep == ASSUME IInv, [Next]_vars PROVE UserInv'
<1> USE DEF IInv
<1>0. kernel \notin Cpus /\ Cpus \subseteq Spaces
  BY VmmAssumption DEF Spaces
<1>1. ASSUME todo' = todo, headers' = headers PROVE UserInv'
  BY <1>1 DEF UserInv
<1>2. ASSUME NEW c \in Cpus, NEW v \in Nat, NEW b \in Frames, NEW n \in Nat, NEW w,
             Calloc(c, b, n, DATA) \/ (n > 0 /\ Calloc(c, b, n - 1, DATA)),
             MapPages(c, v, b, n, w), headers' = headers,
             \A j \in 0 .. n - 1 : IsUser(v + j)
      PROVE  UserInv'
  <2>1. b \in Nat /\ b + n - 1 <= Limit
    BY <1>2, CallerFacts, LimitAssumption
  <2>2. /\ todo'[c] = [i \in 1 .. n |-> [virt |-> v + i - 1, phys |-> b + i - 1]]
        /\ \A s \in Spaces : s # c => todo'[s] = todo[s]
    <3>1. MapPages(c, v, b, n, w)
      BY <1>2
    <3> QED BY <2>1, <3>1, MapPagesTodo
  <2>3. ASSUME NEW i \in Nat, i \in DOMAIN todo'[c] PROVE IsUser(todo'[c][i].virt)
    <3>1. i \in 1 .. n /\ todo'[c][i].virt = v + (i - 1) /\ i - 1 \in 0 .. n - 1
      BY <2>2, <2>3
    <3>2. IsUser(v + (i - 1))
      BY <1>2, <3>1
    <3> QED BY <3>1, <3>2
  <2>4. \A d \in Cpus, i \in Nat : i \in DOMAIN todo'[d] => IsUser(todo'[d][i].virt)
    BY <1>0, <2>2, <2>3 DEF UserInv
  <2> QED BY <1>2, <2>4, ZenonT(60) DEF UserInv
<1>3. ASSUME NEW s \in Spaces, NewPagemap(s) \/ NewTop(s) \/ MapLock(s) \/ NextLevel(s)
               \/ NewLevel(s) \/ MapDone(s) \/ OutOfMemory(s)
      PROVE  UserInv'
  BY <1>1, <1>3, Zenon DEF NewPagemap, NewTop, MapLock, NextLevel, NewLevel, MapDone, OutOfMemory, Descend
<1>4. ASSUME NEW s \in Spaces, SetEntry(s) PROVE UserInv'
  <2>1. todo[s] # <<>> /\ todo' = [todo EXCEPT ![s] = Tail(@)] /\ headers' = headers
    BY <1>4, SetEntryFacts, Zenon DEF SetEntry
  <2>2. /\ \A i \in Nat : i \in DOMAIN todo'[s] => i + 1 \in DOMAIN todo[s] /\ todo'[s][i] = todo[s][i + 1]
        /\ \A t \in Spaces : t # s => todo'[t] = todo[t]
    BY <2>1, HeadTail, ZenonT(60) DEF TypeOK
  <2>3. ASSUME NEW d \in Cpus, NEW i \in Nat, i \in DOMAIN todo'[d] PROVE IsUser(todo'[d][i].virt)
    <3>1. CASE d = s
      BY <2>2, <2>3, <3>1 DEF UserInv
    <3>2. CASE d # s
      BY <1>0, <2>2, <2>3, <3>2 DEF UserInv
    <3> QED BY <3>1, <3>2
  <2> QED BY <2>1, <2>3 DEF UserInv
<1>5. ASSUME NEW c \in Cpus, LoadSegment(c) PROVE UserInv'
  <2>1. /\ Header(c).pages \in Nat /\ Header(c).virt \in Nat
        /\ 1 \in DOMAIN headers[c] /\ Header(c) = headers[c][1]
    BY <1>5, HeaderType, ZenonT(60) DEF LoadSegment, More, Headers
  <2>2. \A j \in 0 .. Header(c).pages - 1 : IsUser(Header(c).virt + j)
    BY <2>1 DEF UserInv
  <2> QED BY <1>2, <1>5, <2>1, <2>2, Zenon DEF LoadSegment
<1>6. ASSUME NEW c \in Cpus, UserStack(c) PROVE UserInv'
  <2>1. PICK b \in Frames :
          /\ Calloc(c, b, STACK_SIZE, DATA)
          /\ MapPages(c, thread_stack_top - STACK_SIZE, b, STACK_SIZE + 1, "run")
    BY <1>6 DEF UserStack
  <2>2. /\ STACK_SIZE + 1 \in Nat /\ (STACK_SIZE + 1) - 1 = STACK_SIZE /\ STACK_SIZE + 1 > 0
        /\ thread_stack_top - STACK_SIZE \in Nat
        /\ \A j \in 0 .. (STACK_SIZE + 1) - 1 : IsUser(thread_stack_top - STACK_SIZE + j)
    BY VmmAssumption, SMTT(40) DEF IsUser
  <2>3. headers' = headers
    BY <1>6, Zenon DEF UserStack
  <2>4. Calloc(c, b, (STACK_SIZE + 1) - 1, DATA)
    BY <2>1, <2>2, Zenon
  <2> QED BY <1>2, <2>1, <2>2, <2>3, <2>4, Zenon
<1>7. ASSUME NEW c \in Cpus, Mmap(c) PROVE UserInv'
  <2>1. PICK n \in Lengths, fixed \in BOOLEAN :
        \E v \in IF fixed THEN Hints \ {0} ELSE {anon_base[c]}, b \in Frames :
          FitsInSpace(v, n) /\ Calloc(c, b, n, DATA) /\ MapPages(c, v, b, n, "run")
    BY <1>7, Zenon DEF Mmap
  <2>2. PICK v \in IF fixed THEN Hints \ {0} ELSE {anon_base[c]}, b \in Frames :
          FitsInSpace(v, n) /\ Calloc(c, b, n, DATA) /\ MapPages(c, v, b, n, "run")
    BY <2>1, Zenon
  <2>3. n \in Nat /\ v \in Nat
    BY <2>1, <2>2, VmmAssumption, ZenonT(60) DEF TypeOK
  <2> QED BY <1>2, <1>7, <2>2, <2>3, Zenon DEF Mmap, FitsInSpace
<1>8. ASSUME NEW c \in Cpus, ReadSegment(c) \/ OtherHeader(c) PROVE UserInv'
  <2>1. /\ todo' = todo /\ headers' = [headers EXCEPT ![c] = Tail(@)]
        /\ pc[c] = "read" \/ headers[c] # <<>>
    BY <1>8, Zenon DEF ReadSegment, OtherHeader, Goto, More
  <2>2. WalkInvOf(c)
    BY <1>0, Zenon DEF WalkInv
  <2>3. headers[c] # <<>>
    BY <2>1, <2>2, Zenon DEF WalkInvOf
  <2>4. \A i \in Nat : i \in DOMAIN headers'[c] =>
          i + 1 \in DOMAIN headers[c] /\ headers'[c][i] = headers[c][i + 1]
    BY <2>1, <2>3, HeaderType, Zenon DEF TypeOK
  <2>5. \A d \in Cpus : d # c => headers'[d] = headers[d]
    BY <2>1, Zenon DEF TypeOK
  <2>6. ASSUME NEW d \in Cpus, NEW i \in Nat, i \in DOMAIN headers'[d],
               NEW j \in 0 .. headers'[d][i].pages - 1
        PROVE  IsUser(headers'[d][i].virt + j)
    <3>1. CASE d = c
      BY <2>4, <2>6, <3>1 DEF UserInv
    <3>2. CASE d # c
      BY <2>5, <2>6, <3>2 DEF UserInv
    <3> QED BY <3>1, <3>2
  <2> QED BY <2>1, <2>6, Zenon DEF UserInv
<1>9. CASE UNCHANGED vars
  BY <1>1, <1>9 DEF vars
<1> QED BY <1>3, <1>4, <1>5, <1>6, <1>7, <1>8, <1>9 DEF Next, MapStep

\* Memory stays memory, and the entry above the stack stays where it is.
LEMMA OwnedStays ==
  ASSUME IInv, [Next]_vars, NEW c \in Cpus
  PROVE  /\ \A f : Memory(c, f) => Memory(c, f)'
         /\ \A f \in Frames, i \in Index : IsAboveStack(c, f, i) => IsAboveStack(c, f, i)'
<1> USE DEF IInv
<1>0. c \in Spaces /\ c # NULL /\ NULL \notin Frames
  BY VmmAssumption, LimitAssumption DEF Spaces, Frames
<1>1. \A f : Memory(c, f) => Memory(c, f)'
  BY <1>0, GrowStep DEF Memory
<1>2. ASSUME NEW f \in Frames, NEW i \in Index, IsAboveStack(c, f, i) PROVE IsAboveStack(c, f, i)'
  <2>1. PICK p \in Pages : p = PageOf(thread_stack_top)
    BY PageType, VmmAssumption
  <2>2. OnWay(c, p, 1) = Pml1(c, p) /\ OnWay(c, p, 1)' = Pml1(c, p)' /\ 1 \in 1 .. 4
    BY DEF OnWay
  <2>3. Pml1(c, p) = f /\ Pml1(c, p) # NULL
    BY <1>0, <1>2, <2>1 DEF IsAboveStack
  <2>4. Pml1(c, p)' = Pml1(c, p)
    BY <1>0, <2>2, <2>3, WayStays
  <2>5. PageOf(thread_stack_top)' = PageOf(thread_stack_top)
    BY DEF PageOf
  <2> QED BY <1>2, <2>1, <2>3, <2>4, <2>5 DEF IsAboveStack
<1> QED BY <1>1, <1>2

-----------------------------------------------------------------------------
(* Whose frames are mapped *)


\* Every step keeps what is mapped and about to be mapped.
LEMMA OwnedStep == ASSUME IInv, [Next]_vars PROVE OwnedInv'
<1> USE DEF IInv
<1>0. kernel \notin Cpus /\ Cpus \subseteq Spaces /\ NULL \notin Spaces
  BY VmmAssumption DEF Spaces
<1> DEFINE Entries(c) == \A f \in Frames, i \in Index :
                           level'[f] = 1 /\ owner'[f] = c /\ table'[f][i] # NULL =>
                             Memory(c, table[f][i])' \/ IsAboveStack(c, f, i)'
           Pending(c) == \A i \in Nat : i \in DOMAIN todo'[c] =>
                           Memory(c, todo[c][i].phys)' \/ todo'[c][i].virt = thread_stack_top
<1>1. ASSUME NEW c \in Cpus, NEW f \in Frames, NEW i \in Index,
             level[f] = 1, owner[f] = c, table[f][i] # NULL, table'[f][i] = table[f][i]
      PROVE  Memory(c, table[f][i])' \/ IsAboveStack(c, f, i)'
  <2>1. Memory(c, table[f][i]) \/ IsAboveStack(c, f, i)
    BY <1>1 DEF OwnedInv
  <2>2. PICK g : g = table[f][i]
    OBVIOUS
  <2>3. Memory(c, g)' \/ IsAboveStack(c, f, i)'
    BY <2>1, <2>2, OwnedStays
  <2> QED BY <1>1, <2>2, <2>3 DEF Memory
<1>2. ASSUME NEW c \in Cpus, DataStep PROVE Entries(c)
  <2>1. ASSUME NEW f \in Frames, level'[f] = 1 PROVE level[f] = 1 /\ owner'[f] = owner[f]
    BY <1>2, <2>1 DEF DataStep, DATA, PAGEMAP
  <2>2. table' = table
    BY <1>2 DEF DataStep
  <2> QED BY <1>1, <2>1, <2>2
<1>3. ASSUME NEW c \in Cpus, NEW s \in Spaces, NewTop(s) PROVE Entries(c)
  <2>1. PICK b \in Frames : Fresh(s, b, 4) /\ \A f \in Frames : f # b => table'[f] = table[f]
    BY <1>3, NewTopFacts, Zenon
  <2>2. ASSUME NEW f \in Frames, level'[f] = 1
        PROVE  level[f] = 1 /\ owner'[f] = owner[f] /\ table'[f] = table[f]
    BY <2>1, <2>2, SMTT(20) DEF Fresh
  <2> QED BY <1>1, <2>2, Zenon
<1>4. ASSUME NEW c \in Cpus, NEW s \in Spaces, NewLevel(s) PROVE Entries(c)
  <2>0. PICK b \in Frames, k \in Index : NewTable(s, b, k)
    BY <1>4, NewLevelFacts, Zenon
  <2>1. /\ Fresh(s, b, depth[s] - 1) /\ pc[s] = "walk" /\ depth[s] \in 2 .. 4
        /\ \A i \in Index : table'[b][i] = NULL
        /\ \A f \in Frames : f # b /\ f # cur[s] => table'[f] = table[f]
    BY <2>0, ZenonT(60) DEF NewTable
  <2>2. level[cur[s]] = depth[s]
    BY <2>1, WalkFacts, SMTT(40)
  <2>3. ASSUME NEW f \in Frames, level'[f] = 1, f # b
        PROVE  level[f] = 1 /\ owner'[f] = owner[f] /\ table'[f] = table[f]
    BY <2>1, <2>2, <2>3, SMTT(20) DEF Fresh
  <2> QED BY <1>1, <2>1, <2>3, Zenon
<1>5. ASSUME NEW c \in Cpus, NEW s \in Spaces, SetEntry(s) PROVE Entries(c)
  <2>1. PICK F \in Frames, k \in Index, g \in 0 .. Limit :
        /\ F = cur[s] /\ k = PageOf(virt(s))[1] /\ g = phys(s)
        /\ owner[F] = s /\ F = Pml1(s, PageOf(virt(s)))
        /\ todo[s] # <<>> /\ table'[F][k] = g
        /\ \A i \in Index : i # k => table'[F][i] = table[F][i]
        /\ \A f \in Frames : f # F => table'[f] = table[f]
        /\ owner' = owner /\ level' = level
    BY <1>5, SetEntryFacts, SMTT(20)
  <2>2. /\ 1 \in DOMAIN todo[s] /\ 1 \in Nat
        /\ virt(s) = todo[s][1].virt /\ phys(s) = todo[s][1].phys
    BY <2>1, HeadTail, Zenon
  <2>3. ASSUME s = c PROVE Memory(c, g)' \/ IsAboveStack(c, F, k)'
    <3>1. Memory(c, g) \/ virt(c) = thread_stack_top
      BY <2>1, <2>2, <2>3, ZenonT(60) DEF OwnedInv
    <3>2. virt(c) = thread_stack_top => IsAboveStack(c, F, k)
      BY <2>1, <2>3, Zenon DEF IsAboveStack
    <3> QED BY <3>1, <3>2, OwnedStays, SMTT(40)
  <2>4. ASSUME s = c PROVE Memory(c, table[F][k])' \/ IsAboveStack(c, F, k)'
    BY <2>1, <2>3, <2>4, Zenon DEF Memory
  <2> QED BY <1>1, <2>1, <2>4, ZenonT(30)
<1>6. \A c \in Cpus : Entries(c)
  BY <1>2, <1>3, <1>4, <1>5, StepKinds, Zenon
<1>7. ASSUME NEW c \in Cpus, todo'[c] = todo[c] PROVE Pending(c)
  <2>1. ASSUME NEW i \in Nat, i \in DOMAIN todo[c]
        PROVE  Memory(c, todo[c][i].phys)' \/ todo[c][i].virt = thread_stack_top
    <3>1. PICK g : g = todo[c][i].phys
      BY Zenon
    <3>2. Memory(c, g)' \/ todo[c][i].virt = thread_stack_top
      BY <2>1, <3>1, OwnedStays, Zenon DEF OwnedInv
    <3> QED BY <1>7, <3>1, <3>2, Zenon DEF Memory
  <2> QED BY <1>7, <2>1, Zenon
<1>8. ASSUME NEW d \in Cpus, NEW c \in Cpus, NEW v \in Nat, NEW b \in Frames, NEW n \in Nat,
             NEW m \in {n, n + 1}, NEW w, Calloc(c, b, n, DATA), MapPages(c, v, b, m, w),
             m = n + 1 => v + n = thread_stack_top
      PROVE  Pending(d)
  <2>1. b \in Nat /\ b + n <= Limit /\ \A i \in 1 .. n : b + i - 1 \in Run(b, n)
    BY <1>8, CallerFacts, Zenon
  <2>2. MapPages(c, v, b, m, w) /\ m \in Nat /\ b + m - 1 <= Limit
    BY <1>8, <2>1, LimitAssumption, SMTT(20)
  <2>3. /\ todo'[c] = [i \in 1 .. m |-> [virt |-> v + i - 1, phys |-> b + i - 1]]
        /\ \A s \in Spaces : s # c => todo'[s] = todo[s]
    BY <2>1, <2>2, MapPagesTodo, SMTT(20)
  <2>4. \A f \in Run(b, n) : f \in Frames /\ owner'[f] = c /\ level'[f] = DATA
    <3>1. DATA \in 0 .. 5 /\ c \in Spaces
      BY <1>0 DEF DATA
    <3> QED BY <1>8, <3>1, CallocFacts
  <2>5. ASSUME NEW i \in Nat, i \in DOMAIN todo'[c]
        PROVE  Memory(c, todo[c][i].phys)' \/ todo'[c][i].virt = thread_stack_top
    <3>1. i \in 1 .. m /\ todo'[c][i].virt = v + i - 1 /\ todo'[c][i].phys = b + i - 1
      BY <2>3, <2>5, SMTT(20)
    <3>2. CASE i \in 1 .. n
      BY <2>1, <2>4, <3>1, <3>2, Zenon DEF Memory
    <3>3. CASE i \notin 1 .. n
      BY <1>8, <3>1, <3>3, SMTT(20)
    <3> QED BY <3>2, <3>3
  <2>6. CASE d = c
    BY <2>5, <2>6, Zenon
  <2>7. CASE d # c
    BY <1>0, <1>7, <2>3, <2>7, Zenon
  <2> QED BY <2>6, <2>7, Zenon
<1>9. ASSUME NEW d \in Cpus, NEW s \in Spaces, SetEntry(s) PROVE Pending(d)
  <2>1. todo[s] # <<>> /\ todo' = [todo EXCEPT ![s] = Tail(@)]
    BY <1>9, SetEntryFacts, Zenon
  <2>2. /\ \A i \in Nat : i \in DOMAIN todo'[s] => i + 1 \in DOMAIN todo[s] /\ todo'[s][i] = todo[s][i + 1]
        /\ \A t \in Spaces : t # s => todo'[t] = todo[t]
    BY <2>1, HeadTail, Zenon DEF TypeOK
  <2>3. ASSUME NEW i \in Nat, i \in DOMAIN todo'[d], d = s
        PROVE  Memory(d, todo[d][i].phys)' \/ todo'[d][i].virt = thread_stack_top
    <3>1. PICK g : g = todo'[d][i].phys
      BY Zenon
    <3>2. i + 1 \in DOMAIN todo[d] /\ todo'[d][i] = todo[d][i + 1] /\ i + 1 \in Nat
      BY <2>2, <2>3, SMTT(20)
    <3>3. Memory(d, g) \/ todo'[d][i].virt = thread_stack_top
      BY <3>1, <3>2, Zenon DEF OwnedInv
    <3>4. Memory(d, g)' \/ todo'[d][i].virt = thread_stack_top
      BY <3>3, OwnedStays, Zenon
    <3> QED BY <3>1, <3>4, Zenon DEF Memory
  <2> QED BY <1>0, <1>7, <2>2, <2>3, Zenon
<1>10. ASSUME NEW d \in Cpus, NEW c \in Cpus, LoadSegment(c) PROVE Pending(d)
  <2>1. Header(c).pages \in Nat /\ Header(c).virt \in Nat
    BY <1>10, HeaderType, Zenon DEF LoadSegment, More, Headers
  <2>2. PICK b \in Frames : /\ Calloc(c, b, Header(c).pages, DATA)
                           /\ MapPages(c, Header(c).virt, b, Header(c).pages, "read")
    BY <1>10, Zenon DEF LoadSegment
  <2>3. Header(c).pages \in {Header(c).pages, Header(c).pages + 1} /\ Header(c).pages # Header(c).pages + 1
    BY <2>1, SMTT(20)
  <2> QED BY <1>8, <2>1, <2>2, <2>3, Zenon
<1>11. ASSUME NEW d \in Cpus, NEW c \in Cpus, UserStack(c) PROVE Pending(d)
  <2>1. /\ STACK_SIZE \in Nat /\ thread_stack_top - STACK_SIZE \in Nat
        /\ thread_stack_top - STACK_SIZE + STACK_SIZE = thread_stack_top
    BY VmmAssumption, SMTT(20) DEF IsUser
  <2>2. PICK b \in Frames :
          /\ Calloc(c, b, STACK_SIZE, DATA)
          /\ MapPages(c, thread_stack_top - STACK_SIZE, b, STACK_SIZE + 1, "run")
    BY <1>11 DEF UserStack
  <2> QED BY <1>8, <2>1, <2>2, Zenon
<1>12. ASSUME NEW d \in Cpus, NEW c \in Cpus, Mmap(c) PROVE Pending(d)
  <2>1. PICK n \in Lengths, fixed \in BOOLEAN :
        \E v \in IF fixed THEN Hints \ {0} ELSE {anon_base[c]}, b \in Frames :
          Calloc(c, b, n, DATA) /\ MapPages(c, v, b, n, "run")
    BY <1>12 DEF Mmap
  <2>2. PICK v \in IF fixed THEN Hints \ {0} ELSE {anon_base[c]}, b \in Frames :
          Calloc(c, b, n, DATA) /\ MapPages(c, v, b, n, "run")
    BY <2>1, Zenon
  <2>3. n \in Nat /\ v \in Nat /\ n \in {n, n + 1} /\ n # n + 1
    BY <2>1, <2>2, VmmAssumption DEF TypeOK
  <2> QED BY <1>8, <2>2, <2>3
<1>13. ASSUME NEW d \in Cpus, todo' = todo PROVE Pending(d)
  BY <1>7, <1>13
<1>14. \A d \in Cpus : Pending(d)
  <2> HIDE DEF Pending
  <2>1. ASSUME NEW d \in Cpus PROVE Pending(d)
    <3>1. ASSUME NEW s \in Spaces, NewPagemap(s) \/ NewTop(s) \/ MapLock(s) \/ NextLevel(s)
                   \/ NewLevel(s) \/ MapDone(s) \/ OutOfMemory(s)
          PROVE  todo' = todo
      BY <3>1, Zenon DEF NewPagemap, NewTop, MapLock, NextLevel, NewLevel, MapDone, OutOfMemory, Descend
    <3>2. ASSUME NEW c \in Cpus, ReadSegment(c) \/ OtherHeader(c) PROVE todo' = todo
      BY <3>2 DEF ReadSegment, OtherHeader
    <3>3. CASE UNCHANGED vars
      BY <1>13, <3>3 DEF vars
    <3> QED BY <1>9, <1>10, <1>11, <1>12, <1>13, <3>1, <3>2, <3>3, SMTT(40) DEF Next, MapStep
  <2> QED BY <2>1
<1> QED BY <1>6, <1>14 DEF OwnedInv
-----------------------------------------------------------------------------
(* The theorems *)

\* The invariant holds at boot.
LEMMA InitInv == ASSUME Init PROVE IInv
<1>0. /\ 0 \in 0 .. 5 /\ 0 \in 0 .. 4 /\ NULL \notin Spaces /\ kernel \notin Cpus
      /\ kernel \in Spaces /\ Cpus \subseteq Spaces /\ Programs \subseteq Seq(Headers)
  BY VmmAssumption DEF Spaces
<1>1. TypeOK
  <2>1. todo \in [Spaces -> Seq([virt : Nat, phys : 0 .. Limit])]
    <3>1. <<>> \in Seq([virt : Nat, phys : 0 .. Limit])
      OBVIOUS
    <3> QED BY <3>1, BootMapType DEF Init
  <2>2. /\ headers \in [Cpus -> Seq(Headers)] /\ anon_base \in [Cpus -> Nat]
    <3> HIDE DEF Headers
    <3> QED BY <1>0, VmmAssumption DEF Init
  <2>3. /\ owner \in [Frames -> Spaces \cup {NULL}] /\ level \in [Frames -> 0 .. 5]
        /\ table \in [Frames -> [Index -> 0 .. Limit \cup {NULL}]]
        /\ top \in [Spaces -> Frames \cup {NULL}] /\ vmm_lock \in {0, 1}
        /\ cur \in [Spaces -> Frames \cup {NULL}] /\ depth \in [Spaces -> 0 .. 4]
    BY <1>0 DEF Init, DATA
  <2>4. /\ pc \in [Spaces -> {"new", "top", "map", "walk", "ready", "load", "read",
                              "run", "halted", "fault"}]
        /\ ret \in [Spaces -> {"ready", "load", "read", "run"}]
    BY DEF Init
  <2> QED BY <2>1, <2>2, <2>3, <2>4, Zenon DEF TypeOK
<1>2. TopInv /\ LevelInv /\ UniqueInv
  BY <1>0 DEF Init, TopInv, LevelInv, UniqueInv, UniqueAt, DATA
<1>3. KernelInv
  BY <1>0 DEF Init, KernelInv
<1>4. WalkInv
  BY <1>0 DEF Init, WalkInv, WalkInvOf
<1>5. UserInv
  <2>1. \A c \in Cpus : todo[c] = <<>> /\ headers[c] \in Programs
    BY <1>0, Zenon DEF Init
  <2>2. ASSUME NEW c \in Cpus, NEW i \in Nat, i \in DOMAIN headers[c]
        PROVE  \A j \in 0 .. headers[c][i].pages - 1 : IsUser(headers[c][i].virt + j)
    BY <2>1, <2>2, VmmAssumption
  <2> QED BY <2>1, <2>2 DEF UserInv
<1>6. OwnedInv
  <2>1. \A c \in Cpus : todo[c] = <<>>
    BY <1>0, Zenon DEF Init
  <2>2. \A f \in Frames : level[f] # 1
    BY DEF Init, DATA
  <2> QED BY <2>1, <2>2 DEF OwnedInv
<1> QED BY <1>1, <1>2, <1>3, <1>4, <1>5, <1>6 DEF IInv

\* The inductive invariant of vmm.c and its callers.
THEOREM Invariance == Spec => []IInv
<1>1. ASSUME IInv, [Next]_vars PROVE IInv'
  <2>1. TypeOK'
    BY <1>1, TypeStep
  <2> QED BY <1>1, <2>1, StructStep, KernelStep, WalkStep, UserStep, OwnedStep DEF IInv
<1> QED BY InitInv, <1>1, PTL DEF Spec

\* Type correctness of Vmm: in particular no walk leaves the tables, and
\* vmm_map_pages maps no frame behind the last one of memory.
THEOREM TypeCorrect == Spec => []TypeOK
<1>1. IInv => TypeOK
  BY DEF IInv
<1> QED BY Invariance, <1>1, PTL

\* What a process reaches in its half is memory that was allocated for it, the
\* page above the stack that sched_user_thread maps excepted.
THEOREM Ownership == Spec => []FramesOwned
<1>1. ASSUME IInv PROVE FramesOwned
  <2> USE <1>1 DEF IInv
  <2> SUFFICES ASSUME NEW c \in Cpus, NEW p \in Pages, p \notin KernelPages,
                      Translate(c, p) # NULL, p # PageOf(thread_stack_top)
               PROVE  Memory(c, Translate(c, p))
    BY DEF FramesOwned, Memory
  <2>0. c \in Spaces /\ ~(p[4] >= Half) /\ p[1] \in Index
    BY DEF Spaces, KernelPages, Pages
  <2>1. Pml1(c, p) # NULL /\ Translate(c, p) = table[Pml1(c, p)][p[1]]
    BY Zenon DEF Translate, At
  <2>2. Pml1(c, p) \in Frames /\ level[Pml1(c, p)] = 1 /\ owner[Pml1(c, p)] = c
    BY <2>0, <2>1, WayFacts, Zenon
  <2>3. Memory(c, Translate(c, p)) \/ IsAboveStack(c, Pml1(c, p), p[1])
    BY <2>0, <2>1, <2>2, Zenon DEF OwnedInv
  <2>4. ASSUME IsAboveStack(c, Pml1(c, p), p[1]) PROVE FALSE
    <3>1. PICK q \in Pages : q = PageOf(thread_stack_top)
      BY PageType, VmmAssumption, Zenon
    <3>2. Pml1(c, p) = Pml1(c, q) /\ p[1] = q[1]
      BY <2>4, <3>1, Zenon DEF IsAboveStack
    <3>3. p[4] = q[4] /\ p[3] = q[3] /\ p[2] = q[2]
      BY <2>0, <2>1, <3>2, WayUnique, Zenon
    <3>4. p = q
      BY <3>2, <3>3, SMTT(20) DEF Pages
    <3> QED BY <3>1, <3>4, Zenon
  <2> QED BY <2>3, <2>4
<1> QED BY Invariance, <1>1, PTL
-----------------------------------------------------------------------------
(* Refinement *)

\* A translation only depends on the tables on its way.
LEMMA TranslateSame ==
  ASSUME IInv, NEW s \in Spaces, NEW p \in Pages, top'[s] = top[s],
         \A f \in Frames : level[f] \in 1 .. 4 => table'[f] = table[f]
  PROVE  Translate(s, p)' = Translate(s, p)
<1> USE DEF IInv
<1>w. /\ top[s] # NULL => top[s] \in Frames /\ level[top[s]] = 4
      /\ Pml3(s, p) # NULL => Pml3(s, p) \in Frames /\ level[Pml3(s, p)] = 3
      /\ Pml2(s, p) # NULL => Pml2(s, p) \in Frames /\ level[Pml2(s, p)] = 2
      /\ Pml1(s, p) # NULL => Pml1(s, p) \in Frames /\ level[Pml1(s, p)] = 1
  BY WayFacts, ZenonT(60)
<1>x. /\ top[s] # NULL => table'[top[s]] = table[top[s]]
      /\ Pml3(s, p) # NULL => table'[Pml3(s, p)] = table[Pml3(s, p)]
      /\ Pml2(s, p) # NULL => table'[Pml2(s, p)] = table[Pml2(s, p)]
      /\ Pml1(s, p) # NULL => table'[Pml1(s, p)] = table[Pml1(s, p)]
  BY <1>w, SMTT(40)
<1>1. Pml3(s, p)' = Pml3(s, p)
  BY <1>x, ZenonT(60) DEF Pml3, At
<1>2. Pml2(s, p)' = Pml2(s, p)
  BY <1>1, <1>x, ZenonT(60) DEF Pml2, At
<1>3. Pml1(s, p)' = Pml1(s, p)
  BY <1>2, <1>x, ZenonT(60) DEF Pml1, At
<1> QED BY <1>3, <1>x, ZenonT(60) DEF Translate, At

\* Spaces that translate as before are as before.
LEMMA MapSame ==
  ASSUME NEW s \in Spaces, top'[s] = top[s],
         \A p \in Pages : Translate(s, p)' = Translate(s, p)
  PROVE  map'[s] = map[s]
BY Zenon DEF map

\* Steps that change no table are invisible.
LEMMA DataStutters == ASSUME IInv, DataStep PROVE map' = map
<1>1. \A s \in Spaces : map'[s] = map[s]
  BY TranslateSame, MapSame, Zenon DEF DataStep
<1> QED BY <1>1, Zenon DEF map

\* A new table on the way is empty, so making it is invisible.
LEMMA NewLevelStutters == ASSUME IInv, NEW s \in Spaces, NewLevel(s) PROVE map' = map
<1> USE DEF IInv
<1>0. NULL \notin Frames /\ NULL \notin Spaces
  BY VmmAssumption, LimitAssumption, SMTT(20) DEF Frames
<1>a. PICK b \in Frames, k \in Index : NewTable(s, b, k)
  BY NewLevelFacts, Zenon
<1>1. /\ Fresh(s, b, depth[s] - 1) /\ pc[s] = "walk" /\ depth[s] \in 2 .. 4
      /\ table[cur[s]][k] = NULL /\ table'[cur[s]][k] = b
      /\ \A i \in Index : i # k => table'[cur[s]][i] = table[cur[s]][i]
      /\ \A i \in Index : table'[b][i] = NULL
      /\ \A f \in Frames : f # b /\ f # cur[s] => table'[f] = table[f]
      /\ top' = top
  BY <1>a, ZenonT(60) DEF NewTable
<1>2. level[b] = DATA /\ cur[s] \in Frames /\ level[cur[s]] \in 2 .. 4
  BY <1>1, WalkFacts, Zenon DEF Fresh
<1>3. \A f \in Frames, i \in Index : level[f] \in 1 .. 4 =>
        table'[f][i] = table[f][i] \/ (table[f][i] = NULL /\ table'[f][i] = b)
  <2>1. DATA \notin 1 .. 4
    BY DEF DATA
  <2>2. \A f \in Frames : level[f] \in 1 .. 4 => f # b
    BY <1>2, <2>1, Zenon
  <2> QED BY <1>1, <2>2, ZenonT(60)
<1>4. \A f \in Frames, i \in Index : level[f] = 1 => table'[f][i] = table[f][i]
  <2>1. 1 # DATA /\ 1 \notin 2 .. 4
    BY SMTT(20) DEF DATA
  <2>2. \A f \in Frames : level[f] = 1 => f # b /\ f # cur[s]
    BY <1>2, <2>1, Zenon
  <2> QED BY <1>1, <2>2, ZenonT(60)
<1>t. b \in Frames /\ top' = top /\ \A i \in Index : table'[b][i] = NULL
  BY <1>1, Zenon
<1>5. ASSUME NEW t \in Spaces, NEW p \in Pages PROVE Translate(t, p)' = Translate(t, p)
  <2>0. p[1] \in Index /\ p[2] \in Index /\ p[3] \in Index /\ p[4] \in Index
    BY SMTT(40) DEF Pages
  <2>w. /\ top[t] # NULL => top[t] \in Frames /\ level[top[t]] = 4
        /\ Pml3(t, p) # NULL => Pml3(t, p) \in Frames /\ level[Pml3(t, p)] = 3
        /\ Pml2(t, p) # NULL => Pml2(t, p) \in Frames /\ level[Pml2(t, p)] = 2
        /\ Pml1(t, p) # NULL => Pml1(t, p) \in Frames /\ level[Pml1(t, p)] = 1
    BY WayFacts, ZenonT(60)
  <2>x. /\ top[t] # NULL =>
             \/ table'[top[t]][p[4]] = table[top[t]][p[4]]
             \/ table[top[t]][p[4]] = NULL /\ table'[top[t]][p[4]] = b
        /\ Pml3(t, p) # NULL =>
             \/ table'[Pml3(t, p)][p[3]] = table[Pml3(t, p)][p[3]]
             \/ table[Pml3(t, p)][p[3]] = NULL /\ table'[Pml3(t, p)][p[3]] = b
        /\ Pml2(t, p) # NULL =>
             \/ table'[Pml2(t, p)][p[2]] = table[Pml2(t, p)][p[2]]
             \/ table[Pml2(t, p)][p[2]] = NULL /\ table'[Pml2(t, p)][p[2]] = b
        /\ Pml1(t, p) # NULL => table'[Pml1(t, p)][p[1]] = table[Pml1(t, p)][p[1]]
    <3>1. 4 \in 1 .. 4 /\ 3 \in 1 .. 4 /\ 2 \in 1 .. 4
      BY SMTT(20)
    <3> QED BY <1>3, <1>4, <2>0, <2>w, <3>1, ZenonT(60)
  <2>b. b # NULL /\ table'[b][p[3]] = NULL /\ table'[b][p[2]] = NULL /\ table'[b][p[1]] = NULL
    BY <1>0, <1>t, <2>0, Zenon
  <2>1. Pml3(t, p)' = Pml3(t, p) \/ (Pml3(t, p) = NULL /\ Pml3(t, p)' = b)
    BY <1>t, <2>x, ZenonT(60) DEF Pml3, At
  <2>2. Pml2(t, p)' = Pml2(t, p) \/ (Pml2(t, p) = NULL /\ Pml2(t, p)' = b)
    BY <2>1, <2>b, <2>x, ZenonT(60) DEF Pml2, At
  <2>3. Pml1(t, p)' = Pml1(t, p) \/ (Pml1(t, p) = NULL /\ Pml1(t, p)' = b)
    BY <2>2, <2>b, <2>x, ZenonT(60) DEF Pml1, At
  <2> QED BY <2>3, <2>b, <2>x, ZenonT(60) DEF Translate, At
<1>6. \A t \in Spaces : map'[t] = map[t]
  BY <1>1, <1>5, MapSame, Zenon
<1> QED BY <1>6, Zenon DEF map

\* What map is.
LEMMA MapFacts ==
  /\ DOMAIN map = Spaces /\ DOMAIN map' = Spaces
  /\ \A s \in Spaces : top[s] = NULL => map[s] = NULL
  /\ \A s \in Spaces : top[s] # NULL => map[s] = [p \in Pages |-> Translate(s, p)]
  /\ \A s \in Spaces : top'[s] # NULL => map'[s] = [p \in Pages |-> Translate(s, p)']
BY Zenon DEF map

\* A space with tables is not NULL.
LEMMA MapNotNull == ASSUME TypeOK, TopInv, LevelInv, NEW s \in Spaces, top[s] # NULL PROVE map[s] # NULL
<1>1. ASSUME NEW p \in Pages PROVE Translate(s, p) \in 0 .. Limit \cup {NULL}
  <2>1. p[1] \in Index
    BY SMTT(20) DEF Pages
  <2>2. Pml1(s, p) # NULL => Pml1(s, p) \in Frames
    BY WayFacts, Zenon
  <2> QED BY <2>1, <2>2, SMTT(20) DEF Translate, At, TypeOK
<1>2. map[s] = [p \in Pages |-> Translate(s, p)]
  BY MapFacts, Zenon
<1>3. map[s] \in [Pages -> 0 .. Limit \cup {NULL}]
  BY <1>1, <1>2, Zenon
<1> QED BY <1>3, VmmAssumption, Zenon

\* vmm_new_pagemap makes a space with the kernel's half.
LEMMA NewTopMaps == ASSUME IInv, NEW s \in Spaces, NewTop(s) PROVE AS!New(s)
<1> USE DEF IInv
<1>0. NULL \notin Frames /\ NULL \notin Spaces /\ kernel \in Spaces
  BY VmmAssumption, LimitAssumption, SMTT(40) DEF Frames, Spaces
<1>1. PICK b \in Frames :
         /\ Fresh(s, b, 4) /\ top[s] = NULL /\ top'[s] = b
         /\ \A t \in Spaces : t # s => top'[t] = top[t]
         /\ \A f \in Frames : f # b => table'[f] = table[f]
         /\ \A i \in Index :
              table'[b][i] = IF s # kernel /\ i >= Half THEN table[top[kernel]][i] ELSE NULL
         /\ s # kernel => top[kernel] \in Frames
  BY NewTopFacts, ZenonT(60)
<1>2. \A f \in Frames : level[f] \in 1 .. 4 => f # b /\ table'[f] = table[f]
  <2>1. DATA \notin 1 .. 4
    BY SMTT(20) DEF DATA
  <2> QED BY <1>1, <2>1, ZenonT(60) DEF Fresh
<1>3. \A t \in Spaces : t # s => map'[t] = map[t]
  <2>1. ASSUME NEW t \in Spaces, t # s PROVE map'[t] = map[t]
    BY <1>1, <1>2, <2>1, TranslateSame, MapSame, ZenonT(30)
  <2> QED BY <2>1, Zenon
<1>4. map[s] = NULL /\ (s # kernel => map[kernel] # NULL)
  BY <1>0, <1>1, MapFacts, MapNotNull, Zenon
<1>5. ASSUME NEW p \in Pages
      PROVE  Translate(s, p)' = IF s # kernel /\ p \in KernelPages THEN Translate(kernel, p) ELSE NULL
  <2>0. p[1] \in Index /\ p[2] \in Index /\ p[3] \in Index /\ p[4] \in Index
        /\ (p \in KernelPages <=> p[4] >= Half)
    BY SMTT(20) DEF Pages, KernelPages
  <2>1. Pml3(s, p)' = table'[b][p[4]]
    BY <1>0, <1>1, Zenon DEF Pml3, At
  <2>w. /\ top[kernel] # NULL => top[kernel] \in Frames /\ level[top[kernel]] = 4
        /\ Pml3(kernel, p) # NULL => Pml3(kernel, p) \in Frames /\ level[Pml3(kernel, p)] = 3
        /\ Pml2(kernel, p) # NULL => Pml2(kernel, p) \in Frames /\ level[Pml2(kernel, p)] = 2
        /\ Pml1(kernel, p) # NULL => Pml1(kernel, p) \in Frames /\ level[Pml1(kernel, p)] = 1
    BY <1>0, WayFacts, ZenonT(60)
  <2>2. CASE s # kernel /\ p[4] >= Half
    <3>1. Pml3(s, p)' = Pml3(kernel, p)
      BY <1>0, <1>1, <2>0, <2>1, <2>2, ZenonT(30) DEF Pml3, At
    <3>x. /\ Pml3(kernel, p) # NULL => table'[Pml3(kernel, p)] = table[Pml3(kernel, p)]
          /\ Pml2(kernel, p) # NULL => table'[Pml2(kernel, p)] = table[Pml2(kernel, p)]
          /\ Pml1(kernel, p) # NULL => table'[Pml1(kernel, p)] = table[Pml1(kernel, p)]
      <4>1. 1 \in 1 .. 4 /\ 2 \in 1 .. 4 /\ 3 \in 1 .. 4
        BY SMTT(20)
      <4> QED BY <1>2, <2>w, <4>1, ZenonT(30)
    <3>2. Pml2(s, p)' = Pml2(kernel, p)
      BY <3>1, <3>x, ZenonT(60) DEF Pml2, At
    <3>3. Pml1(s, p)' = Pml1(kernel, p)
      BY <3>2, <3>x, ZenonT(60) DEF Pml1, At
    <3>4. Translate(s, p)' = Translate(kernel, p)
      BY <3>3, <3>x, ZenonT(60) DEF Translate, At
    <3> QED BY <2>0, <2>2, <3>4, Zenon
  <2>3. CASE ~(s # kernel /\ p[4] >= Half)
    <3>1. Pml3(s, p)' = NULL
      BY <1>1, <2>0, <2>1, <2>3, ZenonT(30)
    <3>2. Translate(s, p)' = NULL
      BY <3>1, ZenonT(30) DEF Translate, Pml1, Pml2, At
    <3> QED BY <2>0, <2>3, <3>2, ZenonT(30)
  <2> QED BY <2>2, <2>3, Zenon
<1>6. map'[s] = IF s = kernel THEN [p \in Pages |-> NULL]
                ELSE [p \in Pages |-> IF p \in KernelPages THEN map[kernel][p] ELSE NULL]
  <2>1. map'[s] = [p \in Pages |-> Translate(s, p)']
    BY <1>0, <1>1, MapFacts, ZenonT(30)
  <2>2. s # kernel => map[kernel] = [p \in Pages |-> Translate(kernel, p)]
    BY <1>0, <1>1, MapFacts, Zenon
  <2>3. CASE s = kernel
    BY <1>5, <2>1, <2>3, Zenon
  <2>4. CASE s # kernel
    BY <1>5, <2>1, <2>2, <2>4, Zenon
  <2> QED BY <2>3, <2>4, ZenonT(30)
<1>7. map' = [map EXCEPT ![s] = IF s = kernel THEN AS!Empty
                ELSE [p \in Pages |-> IF p \in KernelPages THEN map[kernel][p] ELSE NULL]]
  <2>1. map' = [t \in Spaces |-> map'[t]] /\ map = [t \in Spaces |-> map[t]]
    BY ZenonT(60) DEF map
  <2> QED BY <1>3, <1>6, <2>1, Zenon DEF AS!Empty
<1> QED BY <1>4, <1>7, Zenon DEF AS!New

\* vmm_map_page maps its page, in its space.
LEMMA SetEntryMaps == ASSUME IInv, NEW s \in Spaces, SetEntry(s) PROVE AS!Map(s)
<1> USE DEF IInv
<1>0. /\ NULL \notin Frames /\ NULL \notin Spaces /\ kernel \in Spaces
      /\ \A t \in Spaces : t # kernel => t \in Cpus
  BY VmmAssumption, LimitAssumption, SMTT(20) DEF Frames, Spaces
<1>a. PICK F \in Frames : F = cur[s]
  BY SetEntryFacts, Zenon
<1>b. PICK p \in Pages : p = PageOf(virt(s))
  BY SetEntryFacts, Zenon
<1>c. PICK g \in 0 .. Limit : g = phys(s)
  BY SetEntryFacts, Zenon
<1>1. /\ p = PageOf(virt(s)) /\ level[F] = 1 /\ F = Pml1(s, p) /\ p[1] \in Index
      /\ pc[s] = "walk" /\ table'[F][p[1]] = g /\ top' = top
      /\ \A i \in Index : i # p[1] => table'[F][i] = table[F][i]
      /\ \A f \in Frames : f # F => table'[f] = table[f]
  BY <1>a, <1>b, <1>c, SetEntryFacts, ZenonT(60)
<1>2. s # kernel => p \notin KernelPages /\ ~(p[4] >= Half)
  BY <1>0, <1>1, WalkFacts, WayFacts, ZenonT(60)
<1>3. s = kernel => \A t \in Spaces : t # kernel => top[t] = NULL
  BY <1>0, <1>1, ZenonT(60) DEF KernelInv
<1>t. top' = top /\ \A f \in Frames : level[f] # 1 => table'[f] = table[f]
  BY <1>1, ZenonT(60)
<1>4. ASSUME NEW t \in Spaces, NEW q \in Pages
      PROVE  Translate(t, q)' = IF t = s /\ q = p THEN g ELSE Translate(t, q)
  <2>0. q[1] \in Index /\ q[2] \in Index /\ q[3] \in Index /\ q[4] \in Index
    BY SMTT(40) DEF Pages
  <2>w. /\ top[t] # NULL => top[t] \in Frames /\ level[top[t]] = 4
        /\ Pml3(t, q) # NULL => Pml3(t, q) \in Frames /\ level[Pml3(t, q)] = 3
        /\ Pml2(t, q) # NULL => Pml2(t, q) \in Frames /\ level[Pml2(t, q)] = 2
        /\ Pml1(t, q) # NULL => Pml1(t, q) \in Frames /\ level[Pml1(t, q)] = 1
    BY WayFacts, ZenonT(60)
  <2>x. /\ top[t] # NULL => table'[top[t]] = table[top[t]]
        /\ Pml3(t, q) # NULL => table'[Pml3(t, q)] = table[Pml3(t, q)]
        /\ Pml2(t, q) # NULL => table'[Pml2(t, q)] = table[Pml2(t, q)]
    BY <1>t, <2>w, SMTT(40)
  <2>1. Pml3(t, q)' = Pml3(t, q)
    BY <1>t, <2>x, ZenonT(60) DEF Pml3, At
  <2>2. Pml2(t, q)' = Pml2(t, q)
    BY <2>1, <2>x, ZenonT(60) DEF Pml2, At
  <2>3. Pml1(t, q)' = Pml1(t, q)
    BY <2>2, <2>x, ZenonT(60) DEF Pml1, At
  <2>4. CASE Pml1(t, q) = F /\ q[1] = p[1]
    <3>1. /\ q[4] = p[4] /\ q[3] = p[3] /\ q[2] = p[2] /\ (t = s \/ q[4] >= Half)
      <4>1. Pml1(t, q) = Pml1(s, p) /\ Pml1(s, p) # NULL
        BY <1>0, <1>1, <2>4, Zenon
      <4> QED BY <4>1, WayUnique, ZenonT(60)
    <3>2. q = p
      BY <2>4, <3>1 DEF Pages
    <3>3. t = s
      <4>0. Pml1(t, q) # NULL
        BY <1>0, <1>1, <2>4, Zenon
      <4>1. top[t] # NULL
        BY <4>0, WayFacts, Zenon
      <4> QED BY <1>2, <1>3, <3>1, <4>1, SMTT(40)
    <3>4. F # NULL /\ table'[F][p[1]] = g
      BY <1>0, <1>1, Zenon
    <3> QED BY <2>3, <2>4, <3>2, <3>3, <3>4, ZenonT(60) DEF Translate, At
  <2>5. CASE ~(Pml1(t, q) = F /\ q[1] = p[1])
    <3>1. ~(t = s /\ q = p)
      BY <1>1, <2>5, ZenonT(30)
    <3>2. Translate(t, q)' = Translate(t, q)
      <4>1. Pml1(t, q) # NULL => table'[Pml1(t, q)][q[1]] = table[Pml1(t, q)][q[1]]
        BY <1>1, <2>0, <2>5, <2>w, ZenonT(60)
      <4> QED BY <2>3, <4>1, Zenon DEF Translate, At
    <3> QED BY <3>1, <3>2, Zenon
  <2> QED BY <2>4, <2>5, Zenon
<1>5. \A t \in Spaces : t # s => map'[t] = map[t]
  <2>1. ASSUME NEW t \in Spaces, t # s PROVE map'[t] = map[t]
    <3>1. \A q \in Pages : Translate(t, q)' = Translate(t, q)
      BY <1>4, <2>1, Zenon
    <3>2. top'[t] = top[t]
      BY <1>1, ZenonT(30)
    <3> QED BY <3>1, <3>2, MapSame, Zenon
  <2> QED BY <2>1, Zenon
<1>6. top[s] # NULL
  <2>1. Pml1(s, p) # NULL
    BY <1>0, <1>1, ZenonT(30)
  <2> QED BY <1>1, <2>1, WayFacts, ZenonT(60)
<1>7. map[s] = [q \in Pages |-> Translate(s, q)] /\ map'[s] = [q \in Pages |-> Translate(s, q)']
  <2>1. top'[s] = top[s]
    BY <1>1, ZenonT(30)
  <2> QED BY <1>6, <2>1, MapFacts, ZenonT(30)
<1>8. map'[s] = [map[s] EXCEPT ![p] = g]
  BY <1>4, <1>7, SMTT(20)
<1>9. map' = [map EXCEPT ![s] = [@ EXCEPT ![p] = g]]
  <2>1. map' = [t \in Spaces |-> map'[t]] /\ map = [t \in Spaces |-> map[t]]
    BY Zenon DEF map
  <2> QED BY <1>5, <1>8, <2>1, Zenon
<1>10. map'[s][p] = g
  BY <1>7, <1>8, ZenonT(30)
<1>11. map[s] # NULL /\ (s = kernel => \A t \in Spaces \ {kernel} : map[t] = NULL)
  BY <1>3, <1>6, MapNotNull, MapFacts, Zenon
<1>12. p \in IF s = kernel THEN Pages ELSE Pages \ KernelPages
  BY <1>2
<1> QED BY <1>9, <1>10, <1>11, <1>12, Zenon DEF AS!Map

\* The page tables implement address spaces: a call of vmm_map_page maps one
\* page of one space, and nothing else happens to any space.
THEOREM Refinement == Spec => ImplementsAddressSpaces
<1>1. ASSUME Init PROVE AS!Init
  <2>1. \A s \in Spaces : map[s] = NULL
    BY <1>1, MapFacts, ZenonT(60) DEF Init
  <2>2. map = [s \in Spaces |-> map[s]]
    BY DEF map
  <2> QED BY <2>1, <2>2, SMTT(40) DEF AS!Init
<1>2. ASSUME IInv, [Next]_vars PROVE [AS!Next]_map
  <2>1. CASE DataStep
    BY <1>2, <2>1, DataStutters
  <2>2. ASSUME NEW s \in Spaces, NewTop(s) PROVE AS!Next
    BY <1>2, <2>2, NewTopMaps DEF AS!Next
  <2>3. ASSUME NEW s \in Spaces, NewLevel(s) PROVE map' = map
    BY <1>2, <2>3, NewLevelStutters
  <2>4. ASSUME NEW s \in Spaces, SetEntry(s) PROVE AS!Next
    BY <1>2, <2>4, SetEntryMaps DEF AS!Next
  <2> QED BY <1>2, <2>1, <2>2, <2>3, <2>4, StepKinds
<1> QED BY Invariance, <1>1, <1>2, PTL DEF Spec, AS!Spec, ImplementsAddressSpaces
=============================================================================
