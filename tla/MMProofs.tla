------------------------------ MODULE MMProofs ------------------------------
(***************************************************************************)
(* The memory manager, for every set of transaction objects: its linked    *)
(* list keeps its shape, no object is shared or lost, and it implements    *)
(* the last-in first-out pool of FreePool.                                 *)
(***************************************************************************)
EXTENDS MM, SequenceTheorems, FiniteSetTheorems, TLAPS

-----------------------------------------------------------------------------
\* The inductive invariant: the shape of the list and what its nodes hold.
IInv == TypeOK /\ Linked /\ NeverSharedOrLost

\* The heap after free(): one node longer when no empty node is left; every other
\* node keeps its transaction, and the filled one, n, holds t.
LEMMA FreeEffect ==
    ASSUME IInv, NEW t \in Trans, Free(t)
    PROVE  /\ free_list' = free_list + 1
           /\ free_list' \in 1 .. Len(node')
           /\ node' \in Seq(Access)
           /\ Len(node') = IF empties = 0 THEN Len(node) + 1 ELSE Len(node)
           /\ node'[free_list'].trans = t
           /\ \A n \in 1 .. free_list : node'[n].trans = node[n].trans
           /\ \A n \in 1 .. Len(node') :
                 /\ node'[n].next = n - 1
                 /\ node'[n].prev = IF n < Len(node') THEN n + 1 ELSE 0
           /\ empties' = IF free_list' < Len(node') THEN free_list' + 1 ELSE 0
<1>. DEFINE L == Len(node)
<1>1. node \in Seq(Access) /\ L \in Nat /\ DOMAIN node = 1 .. L
  BY DEF IInv, TypeOK
<1>2. \A n \in 1 .. L : node[n] \in Access
  BY <1>1
<1>n. free_list \in 0 .. L /\ empties = IF free_list < L THEN free_list + 1 ELSE 0
  BY DEF IInv, TypeOK, Linked
<1>l. \A n \in 1 .. L : /\ node[n].next = n - 1
                       /\ node[n].prev = IF n < L THEN n + 1 ELSE 0
  BY DEF IInv, Linked
<1>. HIDE DEF L
<1>3. CASE empties = 0
  <2>1. free_list = L
    BY <1>1, <1>n, <1>3
  <2>. DEFINE moved == [n \in DOMAIN node |->
                           IF n = free_list THEN [node[n] EXCEPT !.prev = L + 1]
                                            ELSE node[n]]
              fresh == [trans |-> NULL, next |-> free_list, prev |-> 0]
  <2>2. moved \in Seq(Access) /\ Len(moved) = L
    <3>1. \A n \in 1 .. L : moved[n] \in Access
      BY <1>1, <1>2 DEF Access
    <3>2. moved \in [1 .. L -> Access]
      BY <1>1, <3>1
    <3>. QED  BY <1>1, <3>2
  <2>3. fresh \in Access
    BY <1>1, <1>n DEF Access
  <2>4. NewAccess = Append(moved, fresh)
    BY DEF NewAccess, L
  <2>. HIDE DEF moved, fresh
  <2>5. /\ NewAccess \in Seq(Access)
        /\ Len(NewAccess) = L + 1
        /\ NewAccess[L + 1] = fresh
        /\ \A n \in 1 .. L : NewAccess[n] = moved[n]
    BY <1>1, <2>2, <2>3, <2>4
  <2>6. /\ free_list' = L + 1
        /\ node' = [NewAccess EXCEPT ![L + 1].trans = t]
        /\ empties' = NewAccess[L + 1].prev
    BY <1>3, Zenon DEF Free, L
  <2>7. [fresh EXCEPT !.trans = t] \in Access
    BY <2>3 DEF Access
  <2>8. /\ node' \in Seq(Access)
        /\ Len(node') = L + 1
        /\ node'[L + 1] = [fresh EXCEPT !.trans = t]
        /\ \A n \in 1 .. L : node'[n] = moved[n]
    <3>1. DOMAIN NewAccess = 1 .. (L + 1)
      BY <2>5
    <3>2. node' \in [1 .. (L + 1) -> Access]
      BY <1>1, <2>5, <2>6, <2>7, <3>1
    <3>. QED  BY <1>1, <2>5, <2>6, <3>1, <3>2
  <2>9. /\ [fresh EXCEPT !.trans = t].trans = t
        /\ [fresh EXCEPT !.trans = t].next = L
        /\ [fresh EXCEPT !.trans = t].prev = 0
        /\ fresh.prev = 0
    BY <2>1 DEF fresh
  <2>10. \A n \in 1 .. L : /\ moved[n].trans = node[n].trans
                           /\ moved[n].next = node[n].next
                           /\ moved[n].prev = IF n = L THEN L + 1 ELSE node[n].prev
    BY <1>1, <1>2, <1>n, <2>1 DEF moved, Access
  <2>11. \A n \in 1 .. Len(node') :
            /\ node'[n].next = n - 1
            /\ node'[n].prev = IF n < Len(node') THEN n + 1 ELSE 0
    <3>. SUFFICES ASSUME NEW n \in 1 .. (L + 1)
                  PROVE  /\ node'[n].next = n - 1
                         /\ node'[n].prev = IF n < L + 1 THEN n + 1 ELSE 0
      BY <2>8
    <3>1. CASE n = L + 1
      <4>1. node'[n].next = L /\ node'[n].prev = 0
        BY <2>8, <2>9, <3>1
      <4>. QED  BY <1>1, <3>1, <4>1
    <3>2. CASE n \in 1 .. L
      <4>1. node'[n].next = n - 1 /\ node'[n].prev = IF n = L THEN L + 1 ELSE node[n].prev
        BY <1>l, <2>8, <2>10, <3>2
      <4>2. node[n].prev = IF n < L THEN n + 1 ELSE 0
        BY <1>l, <3>2
      <4>. QED  BY <1>1, <3>2, <4>1, <4>2
    <3>. QED  BY <1>1, <3>1, <3>2
  <2>12. \A n \in 1 .. free_list : node'[n].trans = node[n].trans
    BY <2>1, <2>8, <2>10
  <2>13. empties' = 0
    BY <2>5, <2>6, <2>9
  <2>. QED  BY <1>1, <1>3, <2>1, <2>6, <2>8, <2>9, <2>11, <2>12, <2>13 DEF L
<1>4. CASE empties # 0
  <2>1. empties = free_list + 1 /\ free_list < L
    BY <1>1, <1>n, <1>4
  <2>2. /\ free_list' = empties
        /\ node' = [node EXCEPT ![empties].trans = t]
        /\ empties' = node[empties].prev
    BY <1>4, Zenon DEF Free
  <2>3. [node[empties] EXCEPT !.trans = t] \in Access
    <3>1. node[empties] \in Access
      BY <1>1, <1>2, <1>n, <2>1
    <3>. QED  BY <3>1 DEF Access
  <2>4. /\ node' \in Seq(Access)
        /\ Len(node') = L
        /\ node'[empties] = [node[empties] EXCEPT !.trans = t]
        /\ \A n \in 1 .. L : n # empties => node'[n] = node[n]
    <3>. DEFINE filled == [node[empties] EXCEPT !.trans = t]
    <3>1. node' = [n \in 1 .. L |-> IF n = empties THEN filled ELSE node[n]]
      BY <1>1, <2>2
    <3>2. filled \in Access
      BY <2>3
    <3>. HIDE DEF filled
    <3>3. node' \in [1 .. L -> Access]
      BY <1>2, <3>1, <3>2
    <3>4. node' \in Seq(Access) /\ Len(node') = L
      BY <1>1, <3>3
    <3>5. node'[empties] = filled
      BY <1>1, <1>n, <2>1, <3>1
    <3>. QED  BY <3>1, <3>4, <3>5 DEF filled
  <2>5. /\ [node[empties] EXCEPT !.trans = t].trans = t
        /\ [node[empties] EXCEPT !.trans = t].next = node[empties].next
        /\ [node[empties] EXCEPT !.trans = t].prev = node[empties].prev
    <3>1. node[empties] \in Access
      BY <1>1, <1>2, <1>n, <2>1
    <3>. QED  BY <3>1 DEF Access
  <2>6. \A n \in 1 .. L : /\ node'[n].next = n - 1
                          /\ node'[n].prev = IF n < L THEN n + 1 ELSE 0
    BY <1>l, <2>4, <2>5
  <2>7. empties' = IF empties < L THEN empties + 1 ELSE 0
    <3>1. empties \in 1 .. L
      BY <1>1, <1>n, <2>1
    <3>2. node[empties].prev = IF empties < L THEN empties + 1 ELSE 0
      BY <1>l, <3>1
    <3>. QED  BY <2>2, <3>2, Zenon
  <2>8. \A n \in 1 .. free_list : node'[n].trans = node[n].trans
    BY <1>1, <1>n, <2>1, <2>4
  <2>. QED  BY <1>1, <1>n, <1>4, <2>1, <2>2, <2>4, <2>5, <2>6, <2>7, <2>8 DEF L
<1>. QED  BY <1>3, <1>4

LEMMA InvInductive == IInv /\ [Next]_vars => IInv'
<1>. SUFFICES ASSUME IInv, [Next]_vars PROVE IInv'
  OBVIOUS
<1>1. CASE UNCHANGED vars
  BY <1>1 DEF vars, IInv, TypeOK, Linked, NeverSharedOrLost
<1>2. ASSUME NEW t \in Trans, Allocate(t) PROVE IInv'
  <2>1. CASE free_list # 0
    <3>1. /\ free_list' = free_list - 1
          /\ empties' = free_list
          /\ node' = node
          /\ live' = live \cup {t}
          /\ t = node[free_list].trans
      BY <1>2, <2>1 DEF Allocate, IInv, TypeOK, Linked
    <3>. QED  BY <2>1, <3>1 DEF IInv, TypeOK, Linked, NeverSharedOrLost
  <2>2. CASE free_list = 0
    BY <1>2, <2>2 DEF Allocate, Created, IInv, TypeOK, Linked, NeverSharedOrLost
  <2>. QED  BY <2>1, <2>2
<1>3. ASSUME NEW t \in Trans, Free(t) PROVE IInv'
  <2>1. live' = live \ {t} /\ t \in live
    BY <1>3 DEF Free
  <2>2. TypeOK' /\ Linked'
    BY <1>3, <2>1, FreeEffect DEF IInv, TypeOK, Linked
  <2>3. \A n \in 1 .. free_list' :
           node'[n].trans = IF n = free_list' THEN t ELSE node[n].trans
    BY <1>3, FreeEffect DEF IInv, TypeOK
  <2>4. free_list \in Nat /\ free_list' = free_list + 1
    BY <1>3, FreeEffect DEF IInv, TypeOK
  <2>5. \A n \in 1 .. free_list : node[n].trans \in Trans \ live /\ node[n].trans # t
    BY <2>1 DEF IInv, NeverSharedOrLost
  <2>6. \A m, n \in 1 .. free_list : node[m].trans = node[n].trans => m = n
    BY DEF IInv, NeverSharedOrLost
  <2>7. \A n \in 1 .. free_list' : n = free_list' \/ n \in 1 .. free_list
    BY <2>4
  <2>8. \A n \in 1 .. free_list' : node'[n].trans \in Trans \ live'
    BY <2>1, <2>3, <2>5, <2>7
  <2>9. \A m, n \in 1 .. free_list' : node'[m].trans = node'[n].trans => m = n
    BY <2>3, <2>5, <2>6, <2>7
  <2>10. NeverSharedOrLost'
    BY <2>8, <2>9 DEF NeverSharedOrLost
  <2>. QED  BY <2>2, <2>10 DEF IInv
<1>. QED  BY <1>1, <1>2, <1>3 DEF Next

LEMMA InvAlways == Spec => []IInv
<1>1. Init => IInv
  BY DEF Init, IInv, TypeOK, Linked, NeverSharedOrLost
<1>. QED  BY <1>1, InvInductive, PTL DEF Spec

\* The variables keep their types: the list pointers stay inside the heap.
THEOREM TypeCorrect == Spec => []TypeOK
<1>1. IInv => TypeOK
  BY DEF IInv
<1>. QED  BY <1>1, InvAlways, PTL

\* The access nodes always form one doubly linked list that the two cursors split.
THEOREM ListStaysLinked == Spec => []Linked
<1>1. IInv => Linked
  BY DEF IInv
<1>. QED  BY <1>1, InvAlways, PTL

\* No transaction object has two owners and no object of the pool is in use.
THEOREM NoObjectShared == Spec => []NeverSharedOrLost
<1>1. IInv => NeverSharedOrLost
  BY DEF IInv
<1>. QED  BY <1>1, InvAlways, PTL

-----------------------------------------------------------------------------
\* Only allocate() with an empty pool creates an object.
LEMMA CreatedStep ==
    ASSUME IInv, NEW t \in Trans
    PROVE  /\ Allocate(t) => Created' = Created \/ Created' = Created \cup {t}
           /\ Free(t) => Created' = Created /\ t \in Created
<1>1. free_list \in Nat
  BY DEF IInv, TypeOK
<1>2. ASSUME Allocate(t), free_list # 0 PROVE Created' = Created
  <2>1. /\ free_list' = free_list - 1 /\ node' = node /\ live' = live \cup {t}
        /\ t = node[free_list].trans
    BY <1>2 DEF Allocate, IInv, TypeOK, Linked
  <2>2. \A n \in 1 .. free_list : n = free_list \/ n \in 1 .. (free_list - 1)
    BY <1>1
  <2>3. free_list \in 1 .. free_list /\ 1 .. (free_list - 1) \subseteq 1 .. free_list
    BY <1>1, <1>2
  <2>. QED  BY <2>1, <2>2, <2>3 DEF Created
<1>3. ASSUME Allocate(t), free_list = 0 PROVE Created' = Created \cup {t}
  BY <1>3 DEF Allocate, Created
<1>4. ASSUME Free(t) PROVE Created' = Created /\ t \in Created
  <2>1. t \in live /\ live' = live \ {t}
    BY <1>4 DEF Free
  <2>2. /\ free_list' = free_list + 1
        /\ node'[free_list'].trans = t
        /\ \A n \in 1 .. free_list : node'[n].trans = node[n].trans
    BY <1>4, FreeEffect
  <2>3. \A n \in 1 .. (free_list + 1) : n = free_list + 1 \/ n \in 1 .. free_list
    BY <1>1
  <2>4. free_list + 1 \in 1 .. (free_list + 1) /\ 1 .. free_list \subseteq 1 .. (free_list + 1)
    BY <1>1
  <2>. QED  BY <2>1, <2>2, <2>3, <2>4 DEF Created
<1>. QED  BY <1>2, <1>3, <1>4

\* The objects in the pool are as many as the nodes that hold them, and the one
\* that is freed is not among them.
LEMMA PoolAndOneMore ==
    ASSUME IInv, NEW t \in live, IsFiniteSet(Created)
    PROVE  free_list + 1 <= Cardinality(Created)
<1>1. free_list \in Nat /\ t \in Created
  BY DEF IInv, TypeOK, Created
<1>. DEFINE f == [n \in 1 .. free_list |-> node[n].trans]
            others == Created \ {t}
<1>2. IsFiniteSet(others) /\ Cardinality(others) = Cardinality(Created) - 1
  BY <1>1, FS_RemoveElement
<1>3. f \in Injection(1 .. free_list, others)
  <2>1. \A n \in 1 .. free_list : node[n].trans \in others
    BY DEF Created, IInv, NeverSharedOrLost
  <2>2. f \in [1 .. free_list -> others]
    BY <2>1
  <2>3. \A m, n \in 1 .. free_list : f[m] = f[n] => m = n
    BY DEF IInv, NeverSharedOrLost
  <2>. QED  BY <2>2, <2>3 DEF Injection, IsInjective
<1>4. Cardinality(1 .. free_list) = free_list
  BY <1>1, FS_Interval
<1>5. Cardinality(1 .. free_list) <= Cardinality(others)
  <2>. HIDE DEF f, others
  <2>. QED  BY <1>2, <1>3, FS_Injection
<1>6. Cardinality(Created) \in Nat
  BY FS_CardinalityType
<1>. QED  BY <1>1, <1>2, <1>4, <1>5, <1>6

LEMMA RecyclingInductive ==
    ASSUME IInv, IsFiniteSet(Created), NodesRecycled, [Next]_vars
    PROVE  IsFiniteSet(Created)' /\ NodesRecycled'
<1>1. CASE UNCHANGED vars
  BY <1>1 DEF vars, NodesRecycled, Created
<1>2. ASSUME NEW t \in Trans, Allocate(t) PROVE IsFiniteSet(Created') /\ NodesRecycled'
  <2>1. node' = node /\ Len(node) \in Nat
    BY <1>2 DEF Allocate, IInv, TypeOK
  <2>2. Created' = Created \/ Created' = Created \cup {t}
    BY <1>2, CreatedStep
  <2>3. /\ IsFiniteSet(Created \cup {t})
        /\ Cardinality(Created \cup {t}) = IF t \in Created THEN Cardinality(Created)
                                           ELSE Cardinality(Created) + 1
    BY FS_AddElement
  <2>4. Cardinality(Created) \in Nat
    BY FS_CardinalityType
  <2>5. /\ Len(node) <= Cardinality(Created)
        /\ Len(node) <= Cardinality(Created \cup {t})
    BY <2>1, <2>3, <2>4 DEF NodesRecycled
  <2>. QED  BY <2>1, <2>2, <2>3, <2>5 DEF NodesRecycled
<1>3. ASSUME NEW t \in Trans, Free(t) PROVE IsFiniteSet(Created') /\ NodesRecycled'
  <2>1. Created' = Created
    BY <1>3, CreatedStep
  <2>2. Len(node') = IF empties = 0 THEN Len(node) + 1 ELSE Len(node)
    BY <1>3, FreeEffect
  <2>3. CASE empties = 0
    <3>1. free_list = Len(node)
      BY <2>3 DEF IInv, TypeOK, Linked
    <3>2. free_list + 1 <= Cardinality(Created)
      BY <1>3, PoolAndOneMore DEF Free
    <3>. QED  BY <2>1, <2>2, <2>3, <3>1, <3>2 DEF NodesRecycled
  <2>4. CASE empties # 0
    BY <2>1, <2>2, <2>4 DEF NodesRecycled
  <2>. QED  BY <2>3, <2>4
<1>. QED  BY <1>1, <1>2, <1>3 DEF Next

\* The heap never holds more access nodes than transaction objects: free() fills
\* the node that allocate() emptied before it makes a new one.
THEOREM NodesAlwaysRecycled == Spec => []NodesRecycled
<1>1. Init => IsFiniteSet(Created) /\ NodesRecycled
  <2>. SUFFICES ASSUME Init PROVE IsFiniteSet(Created) /\ NodesRecycled
    OBVIOUS
  <2>1. Created = {} /\ Len(node) = 0
    BY DEF Init, Created
  <2>. QED  BY <2>1, FS_EmptySet DEF NodesRecycled
<1>2. IInv /\ (IsFiniteSet(Created) /\ NodesRecycled) /\ [Next]_vars
        => (IsFiniteSet(Created) /\ NodesRecycled)'
  BY RecyclingInductive
<1>. QED  BY <1>1, <1>2, InvAlways, PTL DEF Spec

-----------------------------------------------------------------------------
\* allocate() takes the head of the pool, or creates an object when it is empty.
LEMMA AllocateRefines ==
    ASSUME IInv, NEW t \in Trans, Allocate(t)
    PROVE  FP!Allocate(t)
<1>t. /\ free_list \in Nat
      /\ \A n \in 1 .. free_list : node[n].trans \in Trans /\ node[n].next = n - 1
  BY DEF IInv, TypeOK, Linked, NeverSharedOrLost
<1>p. /\ pool \in Seq(Trans)
      /\ Len(pool) = free_list
      /\ \A i \in 1 .. free_list : pool[i] = node[free_list + 1 - i].trans
  BY <1>t DEF pool
<1>1. CASE free_list # 0
  <2>1. /\ free_list' = free_list - 1
        /\ node' = node
        /\ live' = live \cup {t}
        /\ t = node[free_list].trans
    BY <1>1, <1>t DEF Allocate
  <2>2. pool # << >> /\ Head(pool) = pool[1] /\ pool[1] = node[free_list].trans
    BY <1>1, <1>t, <1>p
  <2>3. pool' = [i \in 1 .. (free_list - 1) |-> node[(free_list - 1) + 1 - i].trans]
    BY <2>1 DEF pool
  <2>4. Tail(pool) = [i \in 1 .. (free_list - 1) |-> pool[i + 1]]
    <3>1. /\ Tail(pool) \in Seq(Trans)
          /\ Len(Tail(pool)) = free_list - 1
          /\ \A i \in 1 .. (free_list - 1) : Tail(pool)[i] = pool[i + 1]
      BY <1>p, <2>2, HeadTailProperties
    <3>2. Tail(pool) \in [1 .. (free_list - 1) -> Trans]
      BY <3>1, LenProperties
    <3>. QED  BY <3>1, <3>2
  <2>5. \A i \in 1 .. (free_list - 1) : pool[i + 1] = node[(free_list - 1) + 1 - i].trans
    <3>. SUFFICES ASSUME NEW i \in 1 .. (free_list - 1)
                  PROVE  pool[i + 1] = node[(free_list - 1) + 1 - i].trans
      OBVIOUS
    <3>1. i + 1 \in 1 .. free_list /\ free_list + 1 - (i + 1) = (free_list - 1) + 1 - i
      BY <1>t
    <3>. QED  BY <1>p, <3>1
  <2>6. pool' = Tail(pool)
    BY <2>3, <2>4, <2>5
  <2>. QED  BY <2>1, <2>2, <2>6, Zenon DEF FP!Allocate
<1>2. CASE free_list = 0
  <2>1. pool = << >> /\ pool' = << >>
    BY <1>2, <1>t DEF pool, Allocate
  <2>2. t \notin live
    BY <1>2, <1>t DEF Allocate, Created
  <2>. QED  BY <2>1, <2>2, Zenon DEF FP!Allocate, Allocate
<1>. QED  BY <1>1, <1>2

\* free() puts the object in front of the pool.
LEMMA FreeRefines ==
    ASSUME IInv, NEW t \in Trans, Free(t)
    PROVE  FP!Free(t)
<1>f. free_list \in Nat
  BY DEF IInv, TypeOK
<1>1. \A n \in 1 .. (free_list + 1) :
         node'[n].trans = IF n = free_list + 1 THEN t ELSE node[n].trans
  BY <1>f, FreeEffect
<1>2. pool' = [i \in 1 .. (free_list + 1) |-> node'[free_list + 2 - i].trans]
  BY <1>f, FreeEffect DEF pool
<1>3. /\ pool \in Seq(Trans)
      /\ Len(pool) = free_list
      /\ \A i \in 1 .. free_list : pool[i] = node[free_list + 1 - i].trans
  BY <1>f DEF pool, IInv, NeverSharedOrLost
<1>4. /\ <<t>> \o pool \in Seq(Trans)
      /\ Len(<<t>> \o pool) = free_list + 1
      /\ (<<t>> \o pool)[1] = t
      /\ \A i \in 2 .. (free_list + 1) : (<<t>> \o pool)[i] = pool[i - 1]
  BY <1>3
<1>5. pool' = <<t>> \o pool
  <2>1. ASSUME NEW i \in 1 .. (free_list + 1)
        PROVE  node'[free_list + 2 - i].trans = (<<t>> \o pool)[i]
    <3>. DEFINE k == free_list + 2 - i
    <3>1. CASE i = 1
      <4>1. k = free_list + 1 /\ k \in 1 .. (free_list + 1)
        BY <1>f, <3>1
      <4>. QED  BY <1>1, <1>4, <3>1, <4>1
    <3>2. CASE i \in 2 .. (free_list + 1)
      <4>1. /\ i - 1 \in 1 .. free_list
            /\ free_list + 1 - (i - 1) = k
            /\ k \in 1 .. free_list
        BY <1>f, <3>2
      <4>2. (<<t>> \o pool)[i] = node[k].trans
        BY <1>3, <1>4, <3>2, <4>1
      <4>3. node'[k].trans = node[k].trans
        BY <1>1, <1>f, <4>1
      <4>. QED  BY <4>2, <4>3
    <3>3. i = 1 \/ i \in 2 .. (free_list + 1)
      BY <1>f
    <3>. QED  BY <3>1, <3>2, <3>3
  <2>. QED  BY <1>2, <1>4, <2>1
<1>. QED  BY <1>5 DEF FP!Free, Free

\* The linked list with its two cursors implements the abstract pool.
THEOREM MMImplementsPool == Spec => ImplementsPool
<1>1. Init => FP!Init
  BY DEF Init, FP!Init, pool
<1>2. IInv /\ [Next]_vars => [FP!Next]_<<pool, live>>
  <2>. SUFFICES ASSUME IInv, [Next]_vars PROVE [FP!Next]_<<pool, live>>
    OBVIOUS
  <2>1. CASE UNCHANGED vars
    BY <2>1 DEF vars, pool
  <2>2. ASSUME NEW t \in Trans, Allocate(t) PROVE FP!Next
    BY <2>2, AllocateRefines DEF FP!Next
  <2>3. ASSUME NEW t \in Trans, Free(t) PROVE FP!Next
    BY <2>3, FreeRefines DEF FP!Next
  <2>. QED  BY <2>1, <2>2, <2>3 DEF Next
<1>. QED  BY <1>1, <1>2, InvAlways, PTL DEF Spec, ImplementsPool, FP!Spec
=============================================================================
