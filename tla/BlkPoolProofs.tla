--------------------------- MODULE BlkPoolProofs ---------------------------
(***************************************************************************)
(* What is proved of the block pools, for any blocks, stacks and tasks, as *)
(* long as one task mallocs: every block has one owner, is large enough    *)
(* and is never lost, and the linked lists implement the stacks of         *)
(* BlockStacks.                                                            *)
(***************************************************************************)
EXTENDS BlkPoolInv, Sequences, FiniteSetTheorems, Induction, TLAPS

\* A step that touches neither the lists nor the owners keeps the blocks
\* linked.
LEMMA LinkedSame ==
  ASSUME TypeOK, Linked, first' = first, depth' = depth,
         \A b \in Blocks : InStack(b) => next'[b] = next[b]
  PROVE  Linked'
<1>1. \A b \in Blocks : depth[b] >= 1 => next'[b] = next[b]
  BY DEF InStack, TypeOK
<1>2. \A b \in Blocks : (InStack(b) <=> InStack(b)') /\ depth'[b] = depth[b]
  BY DEF InStack
<1> QED
  BY <1>1, <1>2 DEF Linked, TypeOK

\* Malloc, the search and the loads of llist_del_first keep the invariant.
LEMMA LookStep ==
  ASSUME PoolInv, NEW t \in Takers,
         \/ Malloc(t) \/ Search(t) \/ DelLoad(t) \/ DelNext(t) \/ DelRetry(t)
  PROVE  PoolInv'
<1> USE DEF PoolInv
<1>0. t \in Tasks /\ Takers = {t}
  BY OneTaker, BlkPoolAssumption
<1>1. first' = first /\ next' = next /\ owners' = owners /\ depth' = depth
  BY DEF Malloc, Search, DelLoad, DelNext, DelRetry
<1>2. \A u \in Tasks : u # t => /\ pc'[u] = pc[u] /\ idx'[u] = idx[u]
                                /\ blk'[u] = blk[u] /\ nxt'[u] = nxt[u]
  BY DEF Malloc, Search, DelLoad, DelNext, DelRetry, Return, TypeOK
<1>3. pc'[t] \in {"idle", "search", "load", "next", "cas"}
  BY <1>0 DEF Malloc, Search, DelLoad, DelNext, DelRetry, Return, TypeOK
<1>4. TypeOK'
  <2>1. CASE Malloc(t)
    <3>1. PICK size \in Sizes : /\ StackIndex(size) < StackNum
                               /\ want' = [want EXCEPT ![t] = size]
                               /\ idx' = [idx EXCEPT ![t] = StackIndex(size)]
      BY <2>1 DEF Malloc
    <3>2. size \in Nat /\ StackIndex(size) \in 0 .. StackNum
      BY <3>1, BlkPoolAssumption DEF StackIndex
    <3> QED
      BY <1>1, <2>1, <3>1, <3>2 DEF Malloc, TypeOK, Labels
  <2>2. CASE Search(t)
    BY <1>1, <2>2, BlkPoolAssumption DEF Search, Return, TypeOK, Labels
  <2>3. CASE DelLoad(t)
    BY <1>0, <1>1, <2>3 DEF DelLoad, TypeOK, Labels, TakerOK
  <2>4. CASE DelNext(t)
    BY <1>0, <1>1, <2>4, BlkPoolAssumption DEF DelNext, Return, TypeOK, Labels, TakerOK
  <2>5. CASE DelRetry(t)
    BY <1>0, <1>1, <2>5 DEF DelRetry, TypeOK, Labels, TakerOK
  <2> QED
    BY <2>1, <2>2, <2>3, <2>4, <2>5
<1>5. Linked'
  BY <1>1, LinkedSame
<1>6. Placed' /\ AddLinked'
  BY <1>1, <1>2, <1>3 DEF Placed, AddLinked, Adding, InStack
<1>7. TakerOK'
  <2>1. /\ pc'[t] \in {"load", "next", "cas"} => idx'[t] \in Stacks /\ first'[idx'[t]] # NULL
        /\ pc'[t] \in {"next", "cas"} =>
             blk'[t] \in Blocks /\ InStack(blk'[t]) /\ Home[blk'[t]] = idx'[t]
        /\ pc'[t] = "cas" => nxt'[t] = next[blk'[t]]
    <3>1. CASE Malloc(t)
      BY <1>0, <3>1 DEF Malloc, TypeOK
    <3>2. CASE Search(t)
      BY <1>0, <1>1, <3>2, BlkPoolAssumption DEF Search, Return, TypeOK, Stacks, TakerOK
    <3>3. CASE DelLoad(t)
      BY <1>0, <1>1, <3>3 DEF DelLoad, TypeOK, TakerOK, Linked
    <3>4. CASE DelNext(t)
      BY <1>0, <1>1, <3>4 DEF DelNext, Return, TypeOK, TakerOK
    <3>5. CASE DelRetry(t)
      BY <1>0, <1>1, <3>5 DEF DelRetry, TypeOK, TakerOK, Linked
    <3> QED
      BY <3>1, <3>2, <3>3, <3>4, <3>5
  <2> QED
    BY <1>0, <1>1, <1>2, <2>1 DEF TakerOK, InStack
<1> QED
  BY <1>4, <1>5, <1>6, <1>7

\* The pop keeps the invariant: the entry the exchange found is on top, and
\* its successor, which the task read before, is still its successor.
LEMMA DelCasStep ==
  ASSUME PoolInv, NEW t \in Takers, DelCas(t)
  PROVE  PoolInv'
<1> USE DEF PoolInv
<1>0. t \in Tasks /\ Takers = {t}
  BY OneTaker, BlkPoolAssumption
<1> DEFINE c == idx[t]
           e == blk[t]
<1>1. /\ c \in Stacks /\ e \in Blocks /\ InStack(e) /\ Home[e] = c
      /\ first[c] = e /\ nxt[t] = next[e]
  BY <1>0 DEF DelCas, TakerOK
<1>2. /\ first' = [first EXCEPT ![c] = next[e]] /\ next' = next
      /\ owners' = [owners EXCEPT ![e] = owners[e] + 1]
      /\ depth' = [depth EXCEPT ![e] = 0]
  BY <1>1 DEF DelCas
<1>3. TypeOK'
  BY <1>0, <1>1, <1>2, BlkPoolAssumption DEF DelCas, Return, TypeOK, Labels
<1>4. Linked'
  <2>1. \A b \in Blocks : b # e => depth'[b] = depth[b]
    BY <1>2 DEF TypeOK
  <2>2. depth'[e] = 0 /\ first'[c] = next[e] /\ depth[e] \in Nat \ {0}
    BY <1>1, <1>2 DEF TypeOK, InStack
  <2>3. \A b \in Blocks : Home[b] = c /\ InStack(b) /\ b # e => depth[b] < depth[e]
    <3>1. \A b \in Blocks : Home[b] = c /\ InStack(b) => depth[b] <= depth[e]
      BY <1>1 DEF Linked
    <3>2. \A b \in Blocks : Home[b] = c /\ depth[b] = depth[e] => b = e
      BY <1>1 DEF Linked
    <3> QED
      <4>1. TAKE b \in Blocks
      <4>2. HAVE Home[b] = c /\ InStack(b) /\ b # e
      <4>3. depth[b] \in Nat /\ depth[e] \in Nat
        BY <1>1 DEF TypeOK
      <4>4. depth[b] <= depth[e] /\ depth[b] # depth[e]
        BY <3>1, <3>2, <4>2
      <4> QED
        BY <4>3, <4>4
  <2>4. \A b \in Blocks : b # e /\ depth[b] > 1 => next[b] # e
    BY <1>1, <2>3 DEF Linked, InStack, TypeOK
  <2>5. \A d \in Stacks : d # c => first'[d] = first[d]
    BY <1>1, <1>2 DEF TypeOK
  <2>6. \A b, d \in Blocks : InStack(b)' /\ Home[d] = Home[b] /\ depth'[d] = depth'[b] => d = b
    BY <2>1, <2>2 DEF Linked, InStack, TypeOK
  <2>7. \A b \in Blocks : depth'[b] = 1 => next'[b] = NULL
    BY <1>2, <2>1, <2>2 DEF Linked
  <2>8. \A b \in Blocks : depth'[b] > 1 =>
          /\ next'[b] \in Blocks
          /\ Home[next'[b]] = Home[b]
          /\ depth'[next'[b]] = depth'[b] - 1
    BY <1>2, <2>1, <2>2, <2>4 DEF Linked
  <2>9. \A d \in Stacks : first'[d] # NULL => depth'[first'[d]] > 0 /\ Home[first'[d]] = d
    <3>1. TAKE d \in Stacks
    <3>2. CASE d # c
      <4>1. first'[d] = first[d]
        BY <2>5, <3>2
      <4>2. first[d] # NULL => first[d] \in Blocks /\ InStack(first[d]) /\ Home[first[d]] = d
        BY DEF Linked, TypeOK
      <4> QED
        BY <1>1, <2>1, <3>2, <4>1, <4>2 DEF InStack
    <3>3. CASE d = c
      <4>1. CASE depth[e] = 1
        BY <1>1, <2>2, <3>3, <4>1 DEF Linked
      <4>2. CASE depth[e] > 1
        <5>1. next[e] \in Blocks /\ Home[next[e]] = c /\ depth[next[e]] = depth[e] - 1
          BY <1>1, <4>2 DEF Linked
        <5>2. next[e] # e
          BY <5>1, <2>2
        <5> QED
          BY <2>1, <2>2, <3>3, <4>2, <5>1, <5>2 DEF InStack
      <4> QED
        BY <2>2, <4>1, <4>2
    <3> QED
      BY <3>2, <3>3
  <2>10. \A b \in Blocks : InStack(b)' =>
           /\ first'[Home[b]] # NULL
           /\ depth'[b] <= depth'[first'[Home[b]]]
    <3>1. SUFFICES ASSUME NEW b \in Blocks, InStack(b)'
                   PROVE  /\ first'[Home[b]] # NULL
                          /\ depth'[b] <= depth'[first'[Home[b]]]
      OBVIOUS
    <3>2. b # e /\ depth'[b] = depth[b] /\ InStack(b) /\ Home[b] \in Stacks
      BY <2>1, <2>2, <3>1, BlkPoolAssumption DEF InStack
    <3>3. CASE Home[b] # c
      <4>1. first'[Home[b]] = first[Home[b]] /\ first[Home[b]] # NULL
        BY <2>5, <3>2, <3>3 DEF Linked
      <4>2. first[Home[b]] \in Blocks /\ Home[first[Home[b]]] = Home[b]
        BY <3>2, <4>1 DEF Linked, TypeOK
      <4> QED
        BY <1>1, <2>1, <3>2, <3>3, <4>1, <4>2 DEF Linked
    <3>4. CASE Home[b] = c
      <4>1. depth[b] < depth[e] /\ depth[b] \in Nat \ {0}
        BY <2>3, <3>2, <3>4 DEF TypeOK, InStack
      <4>2. depth[e] > 1
        BY <2>2, <4>1
      <4>3. next[e] \in Blocks /\ depth[next[e]] = depth[e] - 1
        BY <1>1, <4>2 DEF Linked
      <4>4. next[e] # e /\ next[e] # NULL
        BY <2>2, <4>3, BlkPoolAssumption
      <4> QED
        BY <2>1, <2>2, <3>2, <3>4, <4>1, <4>3, <4>4
    <3> QED
      BY <3>3, <3>4
  <2> QED
    BY <2>6, <2>7, <2>8, <2>9, <2>10 DEF Linked, InStack
<1>5. \A u \in Tasks : u # t => /\ pc'[u] = pc[u] /\ idx'[u] = idx[u]
                                /\ blk'[u] = blk[u] /\ nxt'[u] = nxt[u]
  BY <1>0 DEF DelCas, Return, TypeOK
<1>6. pc'[t] = "idle"
  BY <1>0 DEF DelCas, Return, TypeOK
<1>7. Placed' /\ AddLinked'
  BY <1>1, <1>2, <1>5, <1>6 DEF Placed, AddLinked, Adding, InStack, TypeOK
<1>8. TakerOK'
  BY <1>0, <1>5, <1>6 DEF TakerOK, TypeOK
<1> QED
  BY <1>3, <1>4, <1>7, <1>8

\* The stack computed from the capacity of a block is the one it was made for.
LEMMA CapacityHome ==
  ASSUME NEW b \in Blocks
  PROVE  StackIndex(Capacity(b)) = Home[b]
<1>1. /\ Home[b] \in Nat /\ MinSize \in Nat /\ MinSize > 0
  BY BlkPoolAssumption DEF Stacks
<1>2. ASSUME NEW m \in Nat, m > 0, NEW h \in Nat
      PROVE  (m * (h + 1) - 1) \div m = h
  <2>1. m * (h + 1) = m * h + m
    BY <1>2
  <2>2. m * h \in Nat
    BY <1>2
  <2> DEFINE q == (m * h + m - 1) \div m
  <2>3. q \in Int /\ m * q <= m * h + m - 1 /\ m * h + m - 1 < m * q + m
    BY <1>2, <2>2
  <2>4. ASSUME q < h
        PROVE  FALSE
    <3>1. h = q + 1 \/ h > q + 1
      BY <2>3, <2>4
    <3>2. m * (q + 1) <= m * h
      BY <1>2, <2>3, <3>1
    <3> QED
      BY <1>2, <2>2, <2>3, <3>2
  <2>5. ASSUME q > h
        PROVE  FALSE
    <3>1. m * (h + 1) <= m * q
      BY <1>2, <2>3, <2>5
    <3> QED
      BY <1>2, <2>1, <2>2, <2>3, <3>1
  <2> QED
    BY <2>1, <2>3, <2>4, <2>5
<1> QED
  BY <1>1, <1>2 DEF StackIndex, Capacity

\* Taking the block out of the program and reading first, in any task, keep
\* the invariant: the link written is that of a block in no stack.
LEMMA PutStep ==
  ASSUME PoolInv, NEW t \in Tasks, Free(t) \/ AddLoad(t) \/ AddRetry(t)
  PROVE  PoolInv'
<1> USE DEF PoolInv
<1>1. first' = first /\ depth' = depth /\ idx' \in [Tasks -> 0 .. StackNum]
  <2>1. CASE Free(t)
    <3>1. PICK b \in Blocks : idx' = [idx EXCEPT ![t] = Home[b]]
      BY <2>1, CapacityHome DEF Free
    <3>2. Home[b] \in 0 .. StackNum
      BY BlkPoolAssumption DEF Stacks
    <3> QED
      BY <2>1, <3>1, <3>2 DEF Free, TypeOK
  <2>2. CASE AddLoad(t) \/ AddRetry(t)
    BY <2>2 DEF AddLoad, AddRetry, TypeOK
  <2> QED
    BY <2>1, <2>2
<1>2. \A u \in Tasks : u # t => /\ pc'[u] = pc[u] /\ idx'[u] = idx[u]
                                /\ blk'[u] = blk[u] /\ nxt'[u] = nxt[u]
  BY DEF Free, AddLoad, AddRetry, TypeOK
<1>3. CASE Free(t)
  <2>1. PICK b \in Blocks : /\ owners[b] > 0
                            /\ owners' = [owners EXCEPT ![b] = @ - 1]
                            /\ blk' = [blk EXCEPT ![t] = b]
                            /\ idx' = [idx EXCEPT ![t] = Home[b]]
    BY <1>3, CapacityHome DEF Free
  <2>2. owners[b] = 1 /\ ~InStack(b) /\ next' = next /\ pc'[t] = "addload"
    BY <1>3, <2>1 DEF Free, TypeOK, Placed
  <2>3. TypeOK'
    BY <1>1, <1>3, <2>1, <2>2 DEF Free, TypeOK, Labels
  <2>4. Linked'
    BY <1>1, <2>2, LinkedSame
  <2>5. \A u \in Tasks : Adding(u) => blk[u] # b
    BY <2>1, <2>2 DEF Placed
  <2>6. owners'[b] = 0 /\ (\A d \in Blocks : d # b => owners'[d] = owners[d])
    BY <2>1, <2>2 DEF TypeOK
  <2>7. blk'[t] = b /\ idx'[t] = Home[b]
    BY <2>1 DEF TypeOK
  <2>8. Placed'
    BY <1>1, <1>2, <2>2, <2>5, <2>6, <2>7 DEF Placed, Adding, InStack
  <2>9. AddLinked' /\ TakerOK'
    BY <1>1, <1>2, <2>2 DEF AddLinked, TakerOK, InStack
  <2> QED
    BY <2>3, <2>4, <2>8, <2>9
<1>4. CASE AddLoad(t)
  <2>1. /\ Adding(t) /\ blk[t] \in Blocks /\ ~InStack(blk[t])
        /\ idx[t] \in Stacks
    BY <1>4, BlkPoolAssumption DEF AddLoad, Adding, Placed
  <2>2. /\ next' = [next EXCEPT ![blk[t]] = first[idx[t]]]
        /\ pc'[t] = "addcas" /\ blk' = blk /\ idx' = idx /\ owners' = owners
        /\ nxt'[t] = first[idx[t]]
    BY <1>4 DEF AddLoad, TypeOK
  <2>3. TypeOK'
    BY <1>4, <2>1 DEF AddLoad, TypeOK, Labels
  <2>4. \A b \in Blocks : b # blk[t] => next'[b] = next[b]
    BY <2>2 DEF TypeOK
  <2>5. Linked'
    BY <1>1, <2>1, <2>4, LinkedSame
  <2>6. Placed'
    BY <1>1, <1>2, <2>1, <2>2 DEF Placed, Adding, InStack
  <2>7. next'[blk[t]] = nxt'[t]
    BY <2>1, <2>2 DEF TypeOK
  <2>8. \A u \in Tasks : u # t /\ pc[u] = "addcas" => blk[u] \in Blocks /\ blk[u] # blk[t]
    BY <2>1 DEF Placed, Adding
  <2>9. AddLinked'
    BY <1>2, <2>2, <2>4, <2>7, <2>8 DEF AddLinked
  <2>10. \A u \in Tasks : pc[u] \in {"next", "cas"} => blk[u] # blk[t]
    BY <2>1 DEF TakerOK
  <2>11. TakerOK'
    BY <1>1, <1>2, <2>2, <2>4, <2>10 DEF TakerOK, InStack
  <2> QED
    BY <2>3, <2>5, <2>6, <2>9, <2>11
<1>5. CASE AddRetry(t)
  <2>1. /\ next' = next /\ blk' = blk /\ idx' = idx /\ owners' = owners
        /\ pc[t] = "addcas" /\ pc'[t] = "addload"
    BY <1>5 DEF AddRetry, TypeOK
  <2>2. TypeOK'
    BY <1>5, BlkPoolAssumption DEF AddRetry, TypeOK, Labels
  <2>3. Linked'
    BY <1>1, <2>1, LinkedSame
  <2>4. Placed'
    BY <1>1, <1>2, <2>1 DEF Placed, Adding, InStack
  <2>5. AddLinked' /\ TakerOK'
    BY <1>1, <1>2, <2>1 DEF AddLinked, TakerOK, InStack
  <2> QED
    BY <2>2, <2>3, <2>4, <2>5
<1> QED
  BY <1>3, <1>4, <1>5

\* The push keeps the invariant: the block is linked to the first that the
\* exchange found, and becomes the top.
LEMMA AddCasStep ==
  ASSUME PoolInv, NEW t \in Tasks, AddCas(t)
  PROVE  PoolInv'
<1> USE DEF PoolInv
<1> DEFINE c == idx[t]
           e == blk[t]
<1>1. /\ pc[t] = "addcas" /\ Adding(t) /\ e \in Blocks /\ ~InStack(e)
      /\ owners[e] = 0 /\ c = Home[e] /\ c \in Stacks /\ depth[e] = 0
      /\ first[c] = next[e]
  <2>1. pc[t] = "addcas" /\ Adding(t) /\ first[c] = nxt[t]
    BY DEF AddCas, Adding
  <2>2. /\ e \in Blocks /\ ~InStack(e) /\ owners[e] = 0 /\ c = Home[e]
        /\ next[e] = nxt[t]
    BY <2>1 DEF Placed, AddLinked
  <2>3. c \in Stacks /\ depth[e] = 0
    BY <2>2, BlkPoolAssumption DEF InStack, TypeOK
  <2> QED
    BY <2>1, <2>2, <2>3
<1>2. /\ first' = [first EXCEPT ![c] = e] /\ next' = next /\ owners' = owners
      /\ depth' = [depth EXCEPT ![e] = Top(c) + 1]
  BY DEF AddCas
<1>3. /\ Top(c) \in Nat
      /\ first[c] = NULL => Top(c) = 0
      /\ first[c] # NULL => first[c] \in Blocks /\ Top(c) = depth[first[c]] /\ Top(c) > 0
  BY <1>1 DEF Top, TypeOK, Linked, InStack
<1>4. /\ first'[c] = e /\ depth'[e] = Top(c) + 1
      /\ \A b \in Blocks : b # e => depth'[b] = depth[b]
      /\ \A d \in Stacks : d # c => first'[d] = first[d]
  BY <1>1, <1>2 DEF TypeOK
<1>5. TypeOK'
  <2>1. Top(c) + 1 \in Nat
    BY <1>3
  <2> QED
    BY <1>1, <1>2, <2>1, BlkPoolAssumption DEF AddCas, Return, TypeOK, Labels
<1>6. Linked'
  <2>1. \A b \in Blocks : Home[b] = c /\ b # e => depth[b] <= Top(c)
    <3>1. SUFFICES ASSUME NEW b \in Blocks, Home[b] = c, b # e
                   PROVE  depth[b] <= Top(c)
      OBVIOUS
    <3>2. CASE InStack(b)
      BY <1>1, <1>3, <3>1, <3>2 DEF Linked
    <3>3. CASE ~InStack(b)
      BY <1>3, <3>1, <3>3 DEF InStack, TypeOK
    <3> QED
      BY <3>2, <3>3
  <2>2. \A b \in Blocks : depth[b] \in Nat
    BY DEF TypeOK
  <2>3. \A b \in Blocks : depth[b] > 1 => next[b] # e
    BY <1>1, <2>2 DEF Linked
  <2>4. \A b, d \in Blocks : depth'[b] > 0 /\ Home[d] = Home[b] /\ depth'[d] = depth'[b] => d = b
    <3>1. SUFFICES ASSUME NEW b \in Blocks, NEW d \in Blocks, depth'[b] > 0,
                          Home[d] = Home[b], depth'[d] = depth'[b]
                   PROVE  d = b
      OBVIOUS
    <3>2. CASE b = e /\ d # e
      BY <1>1, <1>3, <1>4, <2>1, <2>2, <3>1, <3>2
    <3>3. CASE b # e /\ d = e
      BY <1>1, <1>3, <1>4, <2>1, <2>2, <3>1, <3>3
    <3>4. CASE b # e /\ d # e
      BY <1>4, <3>1, <3>4 DEF Linked, InStack
    <3> QED
      BY <3>2, <3>3, <3>4
  <2>5. \A b \in Blocks : depth'[b] = 1 => next'[b] = NULL
    BY <1>1, <1>2, <1>3, <1>4, <2>2 DEF Linked
  <2>6. \A b \in Blocks : depth'[b] > 1 =>
          /\ next'[b] \in Blocks
          /\ Home[next'[b]] = Home[b]
          /\ depth'[next'[b]] = depth'[b] - 1
    <3>1. SUFFICES ASSUME NEW b \in Blocks, depth'[b] > 1
                   PROVE  /\ next[b] \in Blocks
                          /\ Home[next[b]] = Home[b]
                          /\ depth'[next[b]] = depth'[b] - 1
      BY <1>2
    <3>2. CASE b = e
      <4>1. first[c] # NULL
        BY <1>3, <1>4, <3>1, <3>2
      <4>2. next[e] \in Blocks /\ Home[next[e]] = c /\ next[e] # e
        BY <1>1, <1>3, <4>1 DEF Linked
      <4> QED
        BY <1>1, <1>3, <1>4, <3>2, <4>1, <4>2
    <3>3. CASE b # e
      BY <1>4, <2>3, <3>1, <3>3 DEF Linked
    <3> QED
      BY <3>2, <3>3
  <2>7. \A d \in Stacks : first'[d] # NULL => depth'[first'[d]] > 0 /\ Home[first'[d]] = d
    <3>1. TAKE d \in Stacks
    <3>2. CASE d = c
      BY <1>1, <1>3, <1>4, <3>2
    <3>3. CASE d # c
      <4>1. first[d] # NULL => first[d] \in Blocks /\ depth[first[d]] > 0 /\ Home[first[d]] = d
        BY DEF Linked, TypeOK, InStack
      <4> QED
        BY <1>1, <1>4, <3>3, <4>1
    <3> QED
      BY <3>2, <3>3
  <2>8. \A b \in Blocks : depth'[b] > 0 =>
          /\ first'[Home[b]] # NULL
          /\ depth'[b] <= depth'[first'[Home[b]]]
    <3>1. SUFFICES ASSUME NEW b \in Blocks, depth'[b] > 0
                   PROVE  /\ first'[Home[b]] # NULL
                          /\ depth'[b] <= depth'[first'[Home[b]]]
      OBVIOUS
    <3>2. Home[b] \in Stacks /\ e # NULL
      BY <1>1, BlkPoolAssumption
    <3>3. CASE Home[b] = c
      <4>1. depth'[b] <= Top(c) + 1
        BY <1>3, <1>4, <2>1, <2>2, <3>3
      <4> QED
        BY <1>4, <3>2, <3>3, <4>1
    <3>4. CASE Home[b] # c
      <4>1. b # e /\ depth[b] > 0 /\ first'[Home[b]] = first[Home[b]]
        BY <1>1, <1>4, <3>1, <3>2, <3>4
      <4>2. /\ first[Home[b]] # NULL /\ first[Home[b]] \in Blocks
            /\ Home[first[Home[b]]] = Home[b] /\ depth[b] <= depth[first[Home[b]]]
        BY <3>2, <4>1 DEF Linked, TypeOK, InStack
      <4> QED
        BY <1>1, <1>4, <3>4, <4>1, <4>2
    <3> QED
      BY <3>3, <3>4
  <2> QED
    BY <2>4, <2>5, <2>6, <2>7, <2>8 DEF Linked, InStack
<1>7. \A u \in Tasks : u # t => /\ pc'[u] = pc[u] /\ idx'[u] = idx[u]
                                /\ blk'[u] = blk[u] /\ nxt'[u] = nxt[u]
  BY DEF AddCas, Return, TypeOK
<1>8. pc'[t] = "idle"
  BY DEF AddCas, Return, TypeOK
<1>9. \A u \in Tasks : u # t /\ Adding(u) => blk[u] # e
  BY <1>1 DEF Placed
<1>10. Placed' /\ AddLinked'
  BY <1>1, <1>2, <1>4, <1>7, <1>8, <1>9 DEF Placed, AddLinked, Adding, InStack
<1>11. TakerOK'
  <2>1. \A u \in Tasks : pc[u] \in {"next", "cas"} => blk[u] # e
    BY <1>1 DEF TakerOK
  <2>2. e # NULL
    BY <1>1, BlkPoolAssumption
  <2> QED
    BY <1>2, <1>4, <1>7, <1>8, <2>1, <2>2 DEF TakerOK, InStack
<1> QED
  BY <1>5, <1>6, <1>10, <1>11

\* The pool as the init functions leave it satisfies the invariant.
LEMMA PoolInit == Init => PoolInv
<1> SUFFICES ASSUME Init
             PROVE  PoolInv
  OBVIOUS
<1>1. Cardinality(Blocks) \in Nat
  BY FS_CardinalityType, BlkPoolAssumption
<1>2. depth \in [Blocks -> Nat]
  BY <1>1 DEF Init
<1>3. TypeOK
  BY <1>2, BlkPoolAssumption DEF Init, TypeOK, Labels
<1>4. Placed /\ AddLinked /\ TakerOK
  BY DEF Init, Placed, AddLinked, TakerOK, Adding
<1> QED
  BY <1>3, <1>4 DEF Init, PoolInv

\* The invariant is inductive.
LEMMA PoolStep == PoolInv /\ [Next]_vars => PoolInv'
<1> SUFFICES ASSUME PoolInv, [Next]_vars
             PROVE  PoolInv'
  OBVIOUS
<1>1. CASE UNCHANGED vars
  BY <1>1 DEF vars, PoolInv, TypeOK, Linked, InStack, Placed, Adding, AddLinked, TakerOK
<1>2. ASSUME NEW t \in Takers, Take(t)
      PROVE  PoolInv'
  BY <1>2, LookStep, DelCasStep DEF Take
<1>3. ASSUME NEW t \in Tasks, Put(t)
      PROVE  PoolInv'
  BY <1>3, PutStep, AddCasStep DEF Put
<1> QED
  BY <1>1, <1>2, <1>3 DEF Next

\* The inductive invariant: the blocks of each stack stay linked, each block is
\* in one place, and what a task read in the middle of llist_add or
\* llist_del_first still holds when its exchange succeeds.
THEOREM PoolInductive == Spec => []PoolInv
BY PoolInit, PoolStep, PTL DEF Spec

\* Every variable of the pool keeps its type.
THEOREM PoolTypeCorrect == Spec => []TypeOK
<1>1. PoolInv => TypeOK
  BY DEF PoolInv
<1> QED
  BY <1>1, PoolInductive, PTL

\* No block is handed out twice, nor while it is being put back.
THEOREM SingleOwnerHolds == Spec => []SingleOwner
<1>1. PoolInv => SingleOwner
  BY DEF PoolInv, Placed, SingleOwner
<1> QED
  BY <1>1, PoolInductive, PTL

\* A stack the search of malloc found with a block in it keeps one until
\* llist_del_first pops.
THEOREM FoundStaysNonEmptyHolds == Spec => []FoundStaysNonEmpty
<1>1. PoolInv => FoundStaysNonEmpty
  BY DEF PoolInv, TakerOK, FoundStaysNonEmpty
<1> QED
  BY <1>1, PoolInductive, PTL

\* The blocks of the stack that memblk_malloc computes have room for the size.
LEMMA StackHasRoom ==
  ASSUME NEW size \in Nat \ {0}
  PROVE  StackIndex(size) \in Nat /\ size <= MinSize * (StackIndex(size) + 1)
<1> DEFINE a == size - 1
           q == a \div MinSize
<1>1. MinSize \in Nat \ {0} /\ a \in Nat
  BY BlkPoolAssumption
<1>2. a = MinSize * q + (a % MinSize) /\ a % MinSize \in 0 .. MinSize - 1 /\ q \in Nat
  BY <1>1, SMTT(30)
<1>3. MinSize * (q + 1) = MinSize * q + MinSize /\ MinSize * q \in Nat
  BY <1>1, <1>2, SMTT(30)
<1> HIDE DEF q
<1>4. size <= MinSize * (q + 1)
  BY <1>1, <1>2, <1>3
<1> QED
  BY <1>2, <1>4 DEF StackIndex, q

\* The stacks that follow have more room.
LEMMA NextHasRoom ==
  ASSUME NEW w \in Nat, NEW i \in Nat, w <= MinSize * (i + 1)
  PROVE  w <= MinSize * (i + 1 + 1)
<1>1. MinSize \in Nat
  BY BlkPoolAssumption
<1>2. MinSize * (i + 1 + 1) = MinSize * (i + 1) + MinSize /\ MinSize * (i + 1) \in Nat
  BY <1>1, SMTT(30)
<1> QED
  BY <1>1, <1>2

\* Each step of a malloc keeps to such a stack.
LEMMA WantStep == PoolInv /\ WantOK /\ [Next]_vars => WantOK'
<1> SUFFICES ASSUME PoolInv, WantOK, [Next]_vars, NEW u \in Takers,
                    pc'[u] \in {"search", "load", "next", "cas"}
             PROVE  want'[u] <= MinSize * (idx'[u] + 1)
  BY DEF WantOK
<1> USE DEF PoolInv, TypeOK
<1>0. u \in Tasks /\ pc \in [Tasks -> Labels] /\ want[u] \in Nat /\ idx[u] \in Nat
  BY BlkPoolAssumption
<1>1. CASE want'[u] = want[u] /\ idx'[u] = idx[u] /\ pc[u] \in {"search", "load", "next", "cas"}
  BY <1>1 DEF WantOK
<1>2. CASE Malloc(u)
  <2>1. PICK size \in Sizes : /\ want' = [want EXCEPT ![u] = size]
                              /\ idx' = [idx EXCEPT ![u] = StackIndex(size)]
    BY <1>2 DEF Malloc
  <2>2. want'[u] = size /\ idx'[u] = StackIndex(size)
    BY <1>0, <2>1
  <2> QED
    BY <2>2, StackHasRoom, BlkPoolAssumption
<1>3. CASE Search(u)
  <2>1. pc[u] = "search" /\ want'[u] = want[u] /\ idx'[u] \in {idx[u], idx[u] + 1}
    BY <1>0, <1>3 DEF Search, Return
  <2>2. want[u] <= MinSize * (idx[u] + 1)
    BY <2>1 DEF WantOK
  <2> QED
    BY <1>0, <2>1, <2>2, NextHasRoom
<1>4. CASE DelLoad(u) \/ DelNext(u) \/ DelCas(u) \/ DelRetry(u)
  <2>1. want'[u] = want[u] /\ idx'[u] = idx[u] /\ pc[u] \in {"search", "load", "next", "cas"}
    BY <1>0, <1>4 DEF DelLoad, DelNext, DelCas, DelRetry, Return
  <2> QED
    BY <1>1, <2>1
<1>5. ASSUME NEW t \in Tasks, Put(t)
      PROVE  want'[u] = want[u] /\ idx'[u] = idx[u] /\ pc[u] \in {"search", "load", "next", "cas"}
  BY <1>0, <1>5 DEF Put, Free, AddLoad, AddCas, AddRetry, Return
<1>6. CASE UNCHANGED vars
  BY <1>1, <1>6 DEF vars
<1>7. ASSUME NEW t \in Takers, Take(t) PROVE t = u
  BY OneTaker
<1> QED
  BY <1>1, <1>2, <1>3, <1>4, <1>5, <1>6, <1>7 DEF Next, Take

\* What malloc returns has room for the size that was asked for.
THEOREM BigEnoughHolds == Spec => BigEnough
<1> DEFINE Large == \A t \in Takers : \A b \in Blocks :
                      owners'[b] > owners[b] /\ pc'[t] # pc[t] => want[t] <= Capacity(b)
<1>1. Init => WantOK
  BY BlkPoolAssumption DEF Init, WantOK
<1>2. PoolInv /\ WantOK /\ [Next]_vars => [Large]_vars
  <2> SUFFICES ASSUME PoolInv, WantOK, Next PROVE Large
    OBVIOUS
  <2> SUFFICES ASSUME NEW t \in Takers, NEW b \in Blocks, owners'[b] > owners[b], pc'[t] # pc[t]
               PROVE  want[t] <= Capacity(b)
    OBVIOUS
  <2>1. owners \in [Blocks -> Nat]
    BY DEF PoolInv, TypeOK
  <2>2. ASSUME NEW u \in Tasks, Put(u) PROVE FALSE
    BY <2>1, <2>2 DEF Put, Free, AddLoad, AddCas, AddRetry
  <2>3. ASSUME NEW u \in Takers, Take(u) PROVE DelCas(t)
    <3>1. u = t
      BY OneTaker
    <3> QED
      BY <2>1, <2>3, <3>1 DEF Take, Malloc, Search, DelLoad, DelNext, DelRetry
  <2>4. DelCas(t)
    BY <2>2, <2>3 DEF Next
  <2>5. b = blk[t] /\ Home[b] = idx[t] /\ want[t] <= MinSize * (idx[t] + 1)
    BY <2>1, <2>4, BlkPoolAssumption DEF DelCas, PoolInv, TakerOK, WantOK
  <2> QED
    BY <2>5 DEF Capacity
<1>3. PoolInv /\ WantOK /\ [Next]_vars => WantOK'
  BY WantStep
<1> HIDE DEF Large
<1>4. Spec => [][Large]_vars
  BY <1>1, <1>2, <1>3, PoolInductive, PTL DEF Spec
<1> QED
  BY <1>4 DEF BigEnough, Large

-----------------------------------------------------------------------------
(* The lists, followed from first.                                          *)

\* A block that leaves a stack goes to the program, one that leaves the program
\* to a task that puts it back, and from there into a stack.
LEMMA SomewhereStep == PoolInv /\ Somewhere /\ [Next]_vars => Somewhere'
<1> DEFINE Now(b) == depth[b] > 0 \/ owners[b] > 0 \/ \E t \in Tasks : Adding(t) /\ blk[t] = b
           Then(b) == \/ depth'[b] > 0 \/ owners'[b] > 0
                      \/ \E t \in Tasks : pc'[t] \in {"addload", "addcas"} /\ blk'[t] = b
<1> SUFFICES ASSUME PoolInv, Somewhere, [Next]_vars, NEW b \in Blocks
             PROVE  Then(b)
  BY DEF Somewhere, InStack, Adding
<1>1. Now(b)
  BY DEF Somewhere, InStack
<1>2. /\ depth \in [Blocks -> Nat] /\ owners \in [Blocks -> Nat] /\ pc \in [Tasks -> Labels]
      /\ blk \in [Tasks -> Blocks \cup {NULL}]
  BY DEF PoolInv, TypeOK
<1>3. CASE UNCHANGED vars
  BY <1>1, <1>3 DEF vars, Adding
<1>4. ASSUME NEW t \in Takers, Take(t) PROVE Then(b)
  <2>1. t \in Tasks /\ ~Adding(t)
    BY <1>2, <1>4, BlkPoolAssumption
       DEF Take, Malloc, Search, DelLoad, DelNext, DelCas, DelRetry, Adding
  <2>2. \A u \in Tasks : u # t => pc'[u] = pc[u] /\ blk'[u] = blk[u]
    BY <1>2, <1>4, <2>1
       DEF Take, Malloc, Search, DelLoad, DelNext, DelCas, DelRetry, Return
  <2>3. CASE DelCas(t)
    <3>1. owners' = [owners EXCEPT ![blk[t]] = @ + 1] /\ depth' = [depth EXCEPT ![blk[t]] = 0]
      BY <2>3 DEF DelCas
    <3> QED
      BY <1>1, <1>2, <2>1, <2>2, <3>1 DEF Adding
  <2>4. CASE ~DelCas(t)
    <3>1. owners' = owners /\ depth' = depth
      BY <1>4, <2>4 DEF Take, Malloc, Search, DelLoad, DelNext, DelRetry
    <3> QED
      BY <1>1, <2>1, <2>2, <3>1 DEF Adding
  <2> QED
    BY <2>3, <2>4
<1>5. ASSUME NEW t \in Tasks, Put(t) PROVE Then(b)
  <2>1. \A u \in Tasks : u # t => pc'[u] = pc[u] /\ blk'[u] = blk[u]
    BY <1>2, <1>5 DEF Put, Free, AddLoad, AddCas, AddRetry, Return
  <2>2. CASE Free(t)
    <3>1. PICK d \in Blocks : /\ owners' = [owners EXCEPT ![d] = @ - 1]
                              /\ blk' = [blk EXCEPT ![t] = d]
      BY <2>2 DEF Free
    <3>2. pc[t] = "idle" /\ pc'[t] = "addload" /\ blk'[t] = d /\ depth' = depth
      BY <1>2, <2>2, <3>1 DEF Free
    <3>3. b # d => owners'[b] = owners[b]
      BY <1>2, <3>1
    <3> QED
      BY <1>1, <2>1, <3>2, <3>3 DEF Adding
  <2>3. CASE AddLoad(t) \/ AddRetry(t)
    <3>1. /\ pc'[t] \in {"addload", "addcas"} /\ blk' = blk
          /\ owners' = owners /\ depth' = depth
      BY <1>2, <2>3 DEF AddLoad, AddRetry
    <3> QED
      BY <1>1, <2>1, <3>1 DEF Adding
  <2>4. CASE AddCas(t)
    <3>1. /\ owners' = owners /\ Adding(t)
          /\ depth' = [depth EXCEPT ![blk[t]] = Top(idx[t]) + 1]
      BY <2>4 DEF AddCas, Adding
    <3>2. blk[t] \in Blocks /\ idx[t] \in Stacks
      BY <3>1, BlkPoolAssumption DEF PoolInv, Placed
    <3>3. Top(idx[t]) \in Nat
      BY <1>2, <3>2 DEF Top, PoolInv, TypeOK
    <3>4. depth'[b] > 0 \/ (b # blk[t] /\ depth'[b] = depth[b])
      BY <1>2, <3>1, <3>2, <3>3
    <3> QED
      BY <1>1, <2>1, <3>1, <3>4 DEF Adding
  <2> QED
    BY <1>5, <2>2, <2>3, <2>4 DEF Put
<1> QED
  BY <1>3, <1>4, <1>5 DEF Next

\* The blocks of stack c that are no more than k below its top
Upper(c, k) == {b \in Blocks : InStack(b) /\ Home[b] = c /\ depth[b] + k >= Top(c)}

\* A walk that has gone k steps down has met them, and has come to one at the
\* height it has reached, unless that is the bottom.
Walked(v, c, k) ==
  /\ v \ {NULL} = Upper(c, k)
  /\ k < Top(c) => \E d \in v \ {NULL} : depth[d] + k = Top(c)

LEMMA TopHeight ==
  ASSUME PoolInv, NEW c \in Stacks
  PROVE  /\ Top(c) \in Nat
         /\ first[c] = NULL => Top(c) = 0 /\ \A b \in Blocks : ~(InStack(b) /\ Home[b] = c)
         /\ first[c] # NULL => /\ first[c] \in Blocks /\ InStack(first[c]) /\ Home[first[c]] = c
                               /\ Top(c) = depth[first[c]]
         /\ \A b \in Blocks : InStack(b) /\ Home[b] = c => depth[b] <= Top(c)
BY DEF PoolInv, TypeOK, Linked, InStack, Top

LEMMA WalkBegins ==
  ASSUME PoolInv, NEW c \in Stacks
  PROVE  Walked({first[c]}, c, 0)
<1>1. \A b \in Blocks : depth[b] \in Nat
  BY DEF PoolInv, TypeOK
<1>2. CASE first[c] = NULL
  BY <1>2, TopHeight DEF Walked, Upper
<1>3. CASE first[c] # NULL
  <2> DEFINE e == first[c]
  <2>1. e \in Blocks /\ InStack(e) /\ Home[e] = c /\ Top(c) = depth[e] /\ e # NULL
    BY <1>3, TopHeight
  <2>2. \A b \in Blocks : InStack(b) /\ Home[b] = c /\ depth[b] >= Top(c) => b = e
    <3> SUFFICES ASSUME NEW b \in Blocks, InStack(b), Home[b] = c, depth[b] >= Top(c)
                 PROVE  b = e
      OBVIOUS
    <3>1. depth[b] <= Top(c)
      BY TopHeight
    <3>2. depth[b] = depth[e]
      BY <1>1, <2>1, <3>1
    <3> QED
      BY <2>1, <3>2 DEF PoolInv, Linked
  <2> HIDE DEF e
  <2>3. Upper(c, 0) = {e}
    BY <1>1, <2>1, <2>2 DEF Upper
  <2>4. Walked({e}, c, 0)
    BY <1>1, <2>1, <2>3 DEF Walked
  <2> QED
    BY <2>4 DEF e
<1> QED
  BY <1>2, <1>3

LEMMA WalkGoesOn ==
  ASSUME PoolInv, NEW c \in Stacks, NEW k \in Nat, NEW v, Walked(v, c, k)
  PROVE  Walked(v \cup {next[b] : b \in v \ {NULL}}, c, k + 1)
<1> DEFINE w == v \cup {next[b] : b \in v \ {NULL}}
           h == Top(c)
<1>1. h \in Nat /\ (\A b \in Blocks : depth[b] \in Nat) /\ NULL \notin Blocks
  BY TopHeight, BlkPoolAssumption DEF PoolInv, TypeOK
<1>2. /\ v \ {NULL} = Upper(c, k)
      /\ k < h => \E d \in v \ {NULL} : depth[d] + k = h
  BY DEF Walked
<1>3. \A b \in Upper(c, k) :
        IF depth[b] = 1 THEN next[b] = NULL
        ELSE /\ next[b] \in Blocks /\ InStack(next[b]) /\ Home[next[b]] = c
             /\ depth[next[b]] = depth[b] - 1
  <2> SUFFICES ASSUME NEW b \in Upper(c, k)
               PROVE  IF depth[b] = 1 THEN next[b] = NULL
                      ELSE /\ next[b] \in Blocks /\ InStack(next[b]) /\ Home[next[b]] = c
                           /\ depth[next[b]] = depth[b] - 1
    OBVIOUS
  <2>1. b \in Blocks /\ Home[b] = c /\ depth[b] \in Nat \ {0}
    BY <1>1 DEF Upper, InStack
  <2>2. CASE depth[b] = 1
    BY <2>1, <2>2 DEF PoolInv, Linked
  <2>3. CASE depth[b] # 1
    <3>1. depth[b] > 1 /\ depth[b] - 1 > 0
      BY <2>1, <2>3
    <3>2. next[b] \in Blocks /\ Home[next[b]] = c /\ depth[next[b]] = depth[b] - 1
      BY <2>1, <3>1 DEF PoolInv, Linked
    <3> QED
      BY <2>3, <3>1, <3>2 DEF InStack
  <2> QED
    BY <2>2, <2>3
<1> HIDE DEF h
<1>4. ASSUME NEW d \in Upper(c, k) PROVE d \in Upper(c, k + 1)
  BY <1>1 DEF Upper, h
<1>5. ASSUME NEW d \in Upper(c, k), next[d] # NULL PROVE next[d] \in Upper(c, k + 1)
  <2>1. d \in Blocks /\ depth[d] \in Nat /\ depth[d] + k >= h
    BY <1>1 DEF Upper, h
  <2>2. next[d] \in Blocks /\ InStack(next[d]) /\ Home[next[d]] = c /\ depth[next[d]] = depth[d] - 1
    BY <1>3, <1>5
  <2>3. depth[next[d]] + (k + 1) >= h
    BY <1>1, <2>1, <2>2
  <2> QED
    BY <2>2, <2>3 DEF Upper, h
<1>6. ASSUME k + 1 < h
      PROVE  \E d \in v \ {NULL} : next[d] # NULL /\ depth[next[d]] + (k + 1) = h
  <2>1. PICK d \in Upper(c, k) : depth[d] + k = h /\ d \in v \ {NULL}
    BY <1>1, <1>2, <1>6
  <2>2. depth[d] # 1 /\ depth[d] \in Nat
    BY <1>1, <1>6, <2>1 DEF Upper
  <2>3. next[d] \in Blocks /\ depth[next[d]] = depth[d] - 1
    BY <1>3, <2>2
  <2> QED
    BY <1>1, <2>1, <2>2, <2>3
<1>7. ASSUME NEW b \in Upper(c, k + 1), b \notin Upper(c, k)
      PROVE  \E d \in v \ {NULL} : next[d] = b
  <2>1. b \in Blocks /\ InStack(b) /\ Home[b] = c /\ depth[b] + (k + 1) = h /\ depth[b] \in Nat \ {0}
    BY <1>1, <1>7 DEF Upper, InStack, h
  <2>2. k + 1 < h
    BY <1>1, <2>1
  <2>3. PICK d \in v \ {NULL} : next[d] # NULL /\ depth[next[d]] + (k + 1) = h
    BY <1>6, <2>2
  <2>4. d \in Upper(c, k) /\ next[d] \in Blocks /\ Home[next[d]] = c
    BY <1>2, <1>3, <2>3
  <2>5. depth[next[d]] = depth[b]
    BY <1>1, <2>1, <2>3, <2>4
  <2>6. next[d] = b
    BY <2>1, <2>4, <2>5 DEF PoolInv, Linked
  <2> QED
    BY <2>6
<1>8. w \ {NULL} = Upper(c, k + 1)
  <2>1. ASSUME NEW b \in w \ {NULL} PROVE b \in Upper(c, k + 1)
    BY <1>2, <1>4, <1>5, <2>1
  <2>2. ASSUME NEW b \in Upper(c, k + 1) PROVE b \in w \ {NULL}
    <3>1. b # NULL
      BY <1>1 DEF Upper
    <3> QED
      BY <1>2, <1>7, <3>1
  <2> QED
    BY <2>1, <2>2
<1>9. k + 1 < h => \E d \in w \ {NULL} : depth[d] + (k + 1) = h
  BY <1>6
<1> HIDE DEF w
<1>10. Walked(w, c, k + 1)
  BY <1>8, <1>9 DEF Walked, h
<1> QED
  BY <1>10 DEF w

\* Reached(c) is the result of the walk it defines, one step after another.
LEMMA ReachedWalk ==
  ASSUME PoolInv, NEW c \in Stacks
  PROVE  LET n == Cardinality(Blocks) IN
         \E g : /\ Reached(c) = g[n] \ {NULL}
                /\ g[0] = {first[c]}
                /\ \A k \in 1 .. n : g[k] = g[k - 1] \cup {next[b] : b \in g[k - 1] \ {NULL}}
<1> DEFINE n == Cardinality(Blocks)
           V == SUBSET (Blocks \cup {NULL})
           Step(v) == v \cup {next[b] : b \in v \ {NULL}}
           Is(f) == f = [k \in 0 .. n |-> IF k = 0 THEN {first[c]} ELSE
                           f[k - 1] \cup {next[b] : b \in f[k - 1] \ {NULL}}]
           walk == CHOOSE f : Is(f)
<1>1. Reached(c) = walk[n] \ {NULL}
  BY DEF Reached
<1>2. n \in Nat
  BY FS_CardinalityType, BlkPoolAssumption
<1> HIDE DEF n
<1>3. \E f : Is(f)
  <2> DEFINE T == [i \in Nat |-> [v \in V |-> Step(v)]]
  <2>1. \A v \in V : Step(v) \in V
    BY DEF PoolInv, TypeOK
  <2>2. T \in [Nat -> [V -> V]] /\ {first[c]} \in V
    BY <2>1 DEF PoolInv, TypeOK
  <2>3. \A i \in Nat : \A v \in V : T[i][v] = Step(v)
    OBVIOUS
  <2> HIDE DEF T, V
  <2>4. PICK g \in [0 .. n -> V] : Follows(g, {first[c]}, T, n)
    BY <1>2, <2>2, Recursion
  <2>5. g[0] = {first[c]} /\ \A i \in 1 .. n : g[i] = Step(g[i - 1])
    <3>1. \A i \in 1 .. n : i \in Nat /\ i - 1 \in 0 .. n
      BY <1>2
    <3> HIDE DEF Step
    <3> QED
      BY <2>3, <2>4, <3>1 DEF Follows
  <2>6. \A k \in 0 .. n : g[k] = IF k = 0 THEN {first[c]} ELSE Step(g[k - 1])
    <3>1. \A k \in 0 .. n : k = 0 \/ k \in 1 .. n
      BY <1>2
    <3>2. \A k \in 1 .. n : k # 0
      BY <1>2
    <3> HIDE DEF Step
    <3> QED
      BY <2>5, <3>1, <3>2
  <2>7. Is(g)
    <3> HIDE DEF Step
    <3>1. g = [k \in 0 .. n |-> IF k = 0 THEN {first[c]} ELSE Step(g[k - 1])]
      BY <2>6
    <3> QED
      BY <3>1 DEF Step
  <2> HIDE DEF Is
  <2> QED
    BY <2>7
<1>4. Is(walk)
  <2> HIDE DEF Is
  <2> QED
    BY <1>3
<1> HIDE DEF walk
<1>5. /\ walk[0] = {first[c]}
      /\ \A k \in 1 .. n : walk[k] = Step(walk[k - 1])
  <2>1. 0 \in 0 .. n /\ (\A k \in 1 .. n : k \in 0 .. n /\ k # 0)
    BY <1>2
  <2> QED
    BY <1>4, <2>1
<1> QED
  BY <1>1, <1>5 DEF n

\* The heights of a stack are taken by different blocks: there are no more of
\* them than blocks.
LEMMA TopBound ==
  ASSUME PoolInv, NEW c \in Stacks, NEW n \in Nat, n = Cardinality(Blocks),
         \A k \in 0 .. n : k < Top(c) => \E d \in Blocks : depth[d] + k = Top(c)
  PROVE  Top(c) <= n
<1>1. Top(c) \in Nat /\ (\A b \in Blocks : depth[b] \in Nat)
  BY TopHeight DEF PoolInv, TypeOK
<1>2. SUFFICES ASSUME Top(c) > n PROVE FALSE
  BY <1>1
<1> DEFINE h == [k \in 0 .. n |-> CHOOSE d \in Blocks : depth[d] + k = Top(c)]
<1>3. \A k \in 0 .. n : h[k] \in Blocks /\ depth[h[k]] + k = Top(c)
  BY <1>1, <1>2
<1>4. h \in [0 .. n -> Blocks]
  BY <1>3
<1>5. IsFiniteSet(0 .. n) /\ Cardinality(0 .. n) = n + 1
  BY FS_Interval
<1> HIDE DEF h
<1>6. PICK x, y \in 0 .. n : x # y /\ h[x] = h[y]
  <2>1. Cardinality(Blocks) < Cardinality(0 .. n) /\ IsFiniteSet(Blocks)
    BY <1>5, BlkPoolAssumption
  <2> QED
    BY <1>4, <1>5, <2>1, FS_PigeonHole
<1> QED
  BY <1>1, <1>3, <1>6

\* Following next from first meets the blocks of the stack, and no other.
LEMMA ReachedStack ==
  ASSUME PoolInv, NEW c \in Stacks
  PROVE  Reached(c) = {b \in Blocks : InStack(b) /\ Home[b] = c}
<1> DEFINE n == Cardinality(Blocks)
<1>1. n \in Nat
  BY FS_CardinalityType, BlkPoolAssumption
<1>2. PICK g : /\ Reached(c) = g[n] \ {NULL}
               /\ g[0] = {first[c]}
               /\ \A k \in 1 .. n : g[k] = g[k - 1] \cup {next[b] : b \in g[k - 1] \ {NULL}}
  BY ReachedWalk
<1> DEFINE OK == {k \in 0 .. n : Walked(g[k], c, k)}
<1> HIDE DEF n
<1>3. 0 \in OK
  BY <1>1, <1>2, WalkBegins
<1>4. ASSUME NEW k \in 1 .. n, k - 1 \in OK PROVE k \in OK
  <2>1. k - 1 \in Nat /\ k \in 0 .. n /\ (k - 1) + 1 = k
    BY <1>1
  <2>2. PICK v : v = g[k - 1]
    OBVIOUS
  <2>3. Walked(v, c, k - 1)
    BY <1>4, <2>2
  <2>4. Walked(v \cup {next[b] : b \in v \ {NULL}}, c, (k - 1) + 1)
    BY <2>1, <2>3, WalkGoesOn
  <2>5. g[k] = v \cup {next[b] : b \in v \ {NULL}}
    BY <1>2, <2>2
  <2> QED
    BY <2>1, <2>4, <2>5
<1>5. 0 .. n \subseteq OK
  <2> HIDE DEF OK
  <2> QED
    BY <1>1, <1>3, <1>4, UpTo
<1>6. \A k \in 0 .. n : Walked(g[k], c, k)
  BY <1>5
<1>7. Top(c) <= n
  <2>1. \A k \in 0 .. n : k < Top(c) => \E d \in Blocks : depth[d] + k = Top(c)
    BY <1>6 DEF Walked, Upper
  <2> QED
    BY <1>1, <2>1, TopBound DEF n
<1>8. Reached(c) = Upper(c, n)
  <2>1. n \in 0 .. n
    BY <1>1
  <2> QED
    BY <1>2, <1>6, <2>1 DEF Walked
<1>9. \A b \in Blocks : depth[b] + n >= Top(c)
  BY <1>1, <1>7, TopHeight DEF PoolInv, TypeOK
<1> QED
  BY <1>8, <1>9 DEF Upper

\* A block is in a stack, or has an owner, or some task is putting it back: no
\* step of malloc or free drops one.
THEOREM SomewhereHolds == Spec => []Somewhere
<1>1. Init => Somewhere
  <2>1. Cardinality(Blocks) \in Nat
    BY FS_CardinalityType, BlkPoolAssumption
  <2> QED
    BY <2>1 DEF Init, Somewhere, InStack
<1> QED
  BY <1>1, SomewhereStep, PoolInductive, PTL DEF Spec

\* A block nobody owns and nobody is putting back is on the list of its stack,
\* and on that list only: a later malloc can find it.
THEOREM NoBlockLostHolds == Spec => []NoBlockLost
<1>1. PoolInv /\ Somewhere => NoBlockLost
  <2> SUFFICES ASSUME PoolInv, Somewhere, NEW b \in Blocks, NEW c \in Stacks
               PROVE  b \in Reached(c) <=>
                        /\ c = Home[b]
                        /\ owners[b] = 0
                        /\ \A t \in Tasks : ~(Adding(t) /\ blk[t] = b)
    BY DEF NoBlockLost
  <2>1. b \in Reached(c) <=> InStack(b) /\ Home[b] = c
    BY ReachedStack
  <2>2. InStack(b) => owners[b] = 0 /\ \A t \in Tasks : ~(Adding(t) /\ blk[t] = b)
    BY DEF PoolInv, Placed
  <2>3. owners[b] = 0 /\ (\A t \in Tasks : ~(Adding(t) /\ blk[t] = b)) => InStack(b)
    BY DEF Somewhere
  <2> QED
    BY <2>1, <2>2, <2>3
<1> QED
  BY <1>1, SomewhereHolds, PoolInductive, PTL

-----------------------------------------------------------------------------
(* The stacks the lists implement.                                         *)

\* A list holds one block at each height, the highest first.
StacksOK ==
  \A c \in Stacks :
    /\ StackOf(c) \in Seq(Blocks)
    /\ Len(StackOf(c)) = Top(c)
    /\ \A k \in 1 .. Top(c) : Home[StackOf(c)[k]] = c /\ depth[StackOf(c)[k]] + k = Top(c) + 1

LEMMA StackIs == PoolInv => StacksOK
<1> SUFFICES ASSUME PoolInv, NEW c \in Stacks
             PROVE  /\ StackOf(c) \in Seq(Blocks)
                    /\ Len(StackOf(c)) = Top(c)
                    /\ \A k \in 1 .. Top(c) :
                         Home[StackOf(c)[k]] = c /\ depth[StackOf(c)[k]] + k = Top(c) + 1
  BY DEF StacksOK
<1> DEFINE n == Top(c)
           Is(f) == f = [k \in 1 .. n |-> IF k = 1 THEN first[c] ELSE next[f[k - 1]]]
           entry == CHOOSE f : Is(f)
<1>1. StackOf(c) = entry
  BY DEF StackOf
<1>2. n \in Nat /\ (\A b \in Blocks : depth[b] \in Nat)
  BY TopHeight DEF PoolInv, TypeOK
<1>3. n > 0 => first[c] \in Blocks /\ Home[first[c]] = c /\ depth[first[c]] = n
  BY TopHeight
<1>4. \A b \in Blocks : depth[b] > 1 =>
        next[b] \in Blocks /\ Home[next[b]] = Home[b] /\ depth[next[b]] = depth[b] - 1
  BY DEF PoolInv, Linked
<1> HIDE DEF n
<1>5. \E f : Is(f)
  <2> DEFINE V == Blocks \cup {NULL}
             Step(v) == IF v \in Blocks THEN next[v] ELSE NULL
             T == [i \in Nat |-> [v \in V |-> Step(v)]]
  <2>1. \A v \in V : Step(v) \in V
    BY DEF PoolInv, TypeOK
  <2>2. T \in [Nat -> [V -> V]] /\ first[c] \in V
    BY <2>1 DEF PoolInv, TypeOK
  <2>3. \A i \in Nat : \A v \in V : T[i][v] = Step(v)
    OBVIOUS
  <2> HIDE DEF T, V
  <2>4. PICK g \in [0 .. n -> V] : Follows(g, first[c], T, n)
    BY <1>2, <2>2, Recursion
  <2>5. g[0] = first[c] /\ \A i \in 1 .. n : g[i] = Step(g[i - 1])
    <3>1. \A i \in 1 .. n : i \in Nat /\ i - 1 \in 0 .. n
      BY <1>2
    <3> HIDE DEF Step
    <3> QED
      BY <2>3, <2>4, <3>1 DEF Follows
  <2> DEFINE OK == {i \in 0 .. n : i < n => g[i] \in Blocks /\ Home[g[i]] = c /\ depth[g[i]] + i = n}
  <2>6. 0 \in OK
    BY <1>2, <1>3, <2>5
  <2>7. ASSUME NEW i \in 1 .. n, i - 1 \in OK PROVE i \in OK
    <3>1. i \in 0 .. n /\ i - 1 < n /\ i \in Nat
      BY <1>2
    <3>2. SUFFICES ASSUME i < n PROVE g[i] \in Blocks /\ Home[g[i]] = c /\ depth[g[i]] + i = n
      BY <3>1
    <3>3. PICK b \in Blocks : b = g[i - 1] /\ Home[b] = c /\ depth[b] + (i - 1) = n
      BY <2>7, <3>1
    <3>4. depth[b] > 1 /\ depth[b] \in Nat
      BY <1>2, <3>1, <3>2, <3>3
    <3>5. g[i] = next[b]
      BY <2>5, <3>3
    <3> QED
      BY <1>2, <1>4, <3>1, <3>3, <3>4, <3>5
  <2>8. 0 .. n \subseteq OK
    <3> HIDE DEF OK
    <3> QED
      BY <1>2, <2>6, <2>7, UpTo
  <2> DEFINE f == [k \in 1 .. n |-> g[k - 1]]
  <2>9. \A k \in 2 .. n : g[k - 1] = next[g[k - 2]]
    <3> SUFFICES ASSUME NEW k \in 2 .. n PROVE g[k - 1] = next[g[k - 2]]
      OBVIOUS
    <3>1. k - 1 \in 1 .. n /\ (k - 1) - 1 = k - 2 /\ k - 2 \in 0 .. n /\ k - 2 < n
      BY <1>2
    <3>2. g[k - 2] \in Blocks
      BY <2>8, <3>1
    <3> QED
      BY <2>5, <3>1, <3>2
  <2>10. \A k \in 1 .. n : f[k] = IF k = 1 THEN first[c] ELSE next[f[k - 1]]
    <3> SUFFICES ASSUME NEW k \in 1 .. n
                 PROVE  f[k] = IF k = 1 THEN first[c] ELSE next[f[k - 1]]
      OBVIOUS
    <3>1. CASE k = 1
      BY <2>5, <3>1
    <3>2. CASE k # 1
      <4>1. k \in 2 .. n /\ k - 1 \in 1 .. n /\ (k - 1) - 1 = k - 2
        BY <1>2, <3>2
      <4>2. f[k] = g[k - 1] /\ f[k - 1] = g[k - 2]
        BY <4>1
      <4> QED
        BY <2>9, <3>2, <4>1, <4>2
    <3> QED
      BY <3>1, <3>2
  <2>11. Is(f)
    BY <2>10
  <2> QED
    BY <2>11
<1>6. Is(entry)
  <2> HIDE DEF Is
  <2> QED
    BY <1>5
<1> HIDE DEF entry
<1>7. /\ n > 0 => entry[1] = first[c]
      /\ \A k \in 2 .. n : entry[k] = next[entry[k - 1]]
  <2>1. n > 0 => 1 \in 1 .. n
    BY <1>2
  <2>2. \A k \in 2 .. n : k \in 1 .. n /\ k # 1
    BY <1>2
  <2> QED
    BY <1>6, <2>1, <2>2
<1> DEFINE OK == {i \in 0 .. n : i > 0 => entry[i] \in Blocks /\ Home[entry[i]] = c
                                          /\ depth[entry[i]] + i = n + 1}
<1>8. 0 \in OK
  BY <1>2
<1>9. ASSUME NEW i \in 1 .. n, i - 1 \in OK PROVE i \in OK
  <2>1. i \in 0 .. n /\ n > 0
    BY <1>2
  <2>2. CASE i = 1
    BY <1>2, <1>3, <1>7, <2>1, <2>2
  <2>3. CASE i # 1
    <3>1. i \in 2 .. n /\ i - 1 > 0
      BY <1>2, <2>3
    <3>2. PICK b \in Blocks : b = entry[i - 1] /\ Home[b] = c /\ depth[b] + (i - 1) = n + 1
      BY <1>9, <3>1
    <3>3. depth[b] > 1 /\ depth[b] \in Nat
      BY <1>2, <3>1, <3>2
    <3>4. entry[i] = next[b]
      BY <1>7, <3>1, <3>2
    <3> QED
      BY <1>2, <1>4, <2>1, <3>2, <3>3, <3>4
  <2> QED
    BY <2>2, <2>3
<1>10. 0 .. n \subseteq OK
  <2> HIDE DEF OK
  <2> QED
    BY <1>2, <1>8, <1>9, UpTo
<1>11. \A k \in 1 .. n : entry[k] \in Blocks /\ Home[entry[k]] = c /\ depth[entry[k]] + k = n + 1
  <2>1. \A k \in 1 .. n : k \in 0 .. n /\ k > 0
    BY <1>2
  <2> QED
    BY <1>10, <2>1
<1>12. entry = [k \in 1 .. n |-> entry[k]]
  BY <1>6
<1>13. entry \in Seq(Blocks) /\ Len(entry) = n
  <2>1. entry \in [1 .. n -> Blocks]
    BY <1>11, <1>12
  <2> HIDE DEF Is
  <2> QED
    BY <1>2, <2>1
<1> QED
  BY <1>1, <1>11, <1>13 DEF n

\* A sequence of blocks of stack c at the heights from n down to 1
Down(s, c, n) ==
  /\ s \in Seq(Blocks) /\ Len(s) = n
  /\ \A k \in 1 .. n : Home[s[k]] = c /\ depth[s[k]] + k = n + 1

\* There is only one.
LEMMA SameList ==
  ASSUME Linked, depth \in [Blocks -> Nat], NEW c \in Stacks, NEW n \in Nat,
         NEW r, NEW s, Down(r, c, n), Down(s, c, n)
  PROVE  r = s
<1> USE DEF Down
<1>1. ASSUME NEW k \in 1 .. n PROVE r[k] = s[k]
  <2>1. PICK b \in Blocks, d \in Blocks : b = r[k] /\ d = s[k]
    OBVIOUS
  <2>2. /\ Home[b] = c /\ depth[b] + k = n + 1 /\ depth[b] \in Nat
        /\ Home[d] = c /\ depth[d] + k = n + 1 /\ depth[d] \in Nat
    BY <2>1
  <2>3. depth[b] > 0 /\ depth[b] = depth[d]
    BY <2>2
  <2> QED
    BY <2>1, <2>2, <2>3 DEF Linked, InStack
<1> QED
  BY <1>1

\* What leaves the heights of a stack alone leaves the stack alone.
LEMMA StackSame ==
  ASSUME PoolInv, PoolInv', NEW c \in Stacks, first'[c] = first[c],
         \A b \in Blocks : Home[b] = c => depth'[b] = depth[b]
  PROVE  StackOf(c)' = StackOf(c)
<1>1. StacksOK /\ StacksOK'
  BY StackIs, PTL
<1>2. Top(c)' = Top(c) /\ Top(c) \in Nat
  BY TopHeight DEF Top
<1> PICK n \in Nat : n = Top(c)
  BY <1>2
<1>3. PICK r \in Seq(Blocks) : /\ r = StackOf(c) /\ Len(r) = n
                               /\ \A k \in 1 .. n : Home[r[k]] = c /\ depth[r[k]] + k = n + 1
  BY <1>1 DEF StacksOK
<1>4. PICK s \in Seq(Blocks) : /\ s = StackOf(c)' /\ Len(s) = n
                               /\ \A k \in 1 .. n : Home[s[k]] = c /\ depth'[s[k]] + k = n + 1
  BY <1>1, <1>2 DEF StacksOK
<1>5. \A k \in 1 .. n : Home[s[k]] = c /\ depth[s[k]] + k = n + 1
  <2>1. \A k \in 1 .. n : s[k] \in Blocks
    BY <1>4
  <2> QED
    BY <1>4, <2>1
<1>6. Linked /\ depth \in [Blocks -> Nat]
  BY DEF PoolInv, TypeOK
<1>7. r = s
  <2>1. Down(r, c, n) /\ Down(s, c, n)
    BY <1>3, <1>4, <1>5 DEF Down
  <2> QED
    BY <1>6, <2>1, SameList
<1> QED
  BY <1>3, <1>4, <1>7

LEMMA TailFacts ==
  ASSUME NEW S, NEW r \in Seq(S), NEW p \in Nat, Len(r) = p + 1
  PROVE  Tail(r) \in Seq(S) /\ Len(Tail(r)) = p /\ \A k \in 1 .. p : Tail(r)[k] = r[k + 1]
<1>1. r # <<>>
  OBVIOUS
<1> QED
  BY <1>1

\* An exchange that takes the first entry away pops it.
LEMMA StackPop ==
  ASSUME PoolInv, PoolInv', NEW c \in Stacks, NEW e \in Blocks, first[c] = e,
         first'[c] = next[e], depth' = [depth EXCEPT ![e] = 0]
  PROVE  /\ StackOf(c) # <<>> /\ Head(StackOf(c)) = e
         /\ StackOf(c)' = Tail(StackOf(c))
<1>1. StacksOK /\ StacksOK'
  BY StackIs, PTL
<1>2. /\ depth \in [Blocks -> Nat] /\ depth' \in [Blocks -> Nat] /\ NULL \notin Blocks
      /\ InStack(e) /\ Home[e] = c /\ Top(c) = depth[e] /\ Top(c) \in Nat \ {0}
  <2>1. first[c] # NULL /\ NULL \notin Blocks
    BY BlkPoolAssumption
  <2> QED
    BY <2>1, TopHeight DEF PoolInv, TypeOK, InStack
<1>3. Top(c)' = Top(c) - 1
  <2>1. CASE depth[e] = 1
    BY <1>2, <2>1 DEF Top, PoolInv, Linked
  <2>2. CASE depth[e] # 1
    <3>1. depth[e] > 1 /\ depth[e] \in Nat
      BY <1>2, <2>2
    <3>2. next[e] \in Blocks /\ depth[next[e]] = depth[e] - 1
      BY <3>1 DEF PoolInv, Linked
    <3>3. next[e] # e /\ next[e] # NULL
      BY <1>2, <3>1, <3>2
    <3>4. depth'[next[e]] = depth[e] - 1
      BY <1>2, <3>2, <3>3
    <3> QED
      BY <1>2, <3>3, <3>4 DEF Top
  <2> QED
    BY <2>1, <2>2
<1> PICK n \in Nat \ {0} : n = Top(c)
  BY <1>2
<1>4. PICK r \in Seq(Blocks) : /\ r = StackOf(c) /\ Len(r) = n
                               /\ \A k \in 1 .. n : Home[r[k]] = c /\ depth[r[k]] + k = n + 1
  BY <1>1 DEF StacksOK
<1>5. PICK s \in Seq(Blocks) :
        /\ s = StackOf(c)' /\ Len(s) = n - 1
        /\ \A k \in 1 .. n - 1 : Home[s[k]] = c /\ depth'[s[k]] + k = n
  <2>1. StackOf(c)' \in Seq(Blocks) /\ Len(StackOf(c)') = n - 1
    BY <1>1, <1>3 DEF StacksOK
  <2>2. \A k \in 1 .. n - 1 : Home[StackOf(c)'[k]] = c /\ depth'[StackOf(c)'[k]] + k = (n - 1) + 1
    BY <1>1, <1>3 DEF StacksOK
  <2>3. (n - 1) + 1 = n
    OBVIOUS
  <2> QED
    BY <2>1, <2>2, <2>3
<1>6. \A b \in Blocks : depth[b] \in Nat
  BY <1>2
<1>7. e = r[1]
  <2>1. 1 \in 1 .. n /\ r[1] \in Blocks
    BY <1>4, <1>6
  <2>2. Home[r[1]] = c /\ depth[r[1]] = depth[e] /\ InStack(e)
    BY <1>2, <1>4, <2>1
  <2> QED
    BY <1>2, <2>1, <2>2 DEF PoolInv, Linked
<1>8. PICK p \in Nat : n = p + 1 /\ p = n - 1
  OBVIOUS
<1>9. PICK q \in Seq(Blocks) :
        q = Tail(r) /\ Len(q) = p /\ \A k \in 1 .. p : q[k] = r[k + 1]
  <2>1. Len(r) = p + 1
    BY <1>4, <1>8
  <2>2. /\ Tail(r) \in Seq(Blocks) /\ Len(Tail(r)) = p
        /\ \A k \in 1 .. p : Tail(r)[k] = r[k + 1]
    BY <2>1, TailFacts
  <2> QED
    BY <2>2
<1>10. ASSUME NEW k \in 1 .. p
       PROVE  Home[q[k]] = c /\ depth[q[k]] + k = p + 1
  <2>1. k + 1 \in 1 .. n
    BY <1>8
  <2>2. PICK d \in Blocks : d = r[k + 1]
    BY <1>4, <2>1
  <2>3. PICK m \in Nat : m = depth[d]
    BY <1>6
  <2>4. Home[d] = c /\ m + (k + 1) = n + 1
    BY <1>4, <2>1, <2>2, <2>3
  <2>5. m + k = p + 1
    BY <1>8, <2>4
  <2>6. q[k] = d
    BY <1>9, <2>2
  <2> QED
    BY <2>3, <2>4, <2>5, <2>6
<1>11. ASSUME NEW k \in 1 .. p
       PROVE  Home[s[k]] = c /\ depth[s[k]] + k = p + 1
  <2>1. PICK d \in Blocks : d = s[k]
    BY <1>5, <1>8
  <2>2. Home[d] = c /\ depth'[d] + k = p + 1
    BY <1>5, <1>8, <2>1
  <2>3. d # e
    <3>1. depth'[e] = 0
      BY <1>2
    <3> QED
      BY <2>2, <3>1
  <2>4. depth'[d] = depth[d]
    BY <1>2, <2>3
  <2> QED
    BY <2>1, <2>2, <2>4
<1>12. q = s
  <2>1. Linked /\ depth \in [Blocks -> Nat]
    BY <1>2 DEF PoolInv
  <2>2. Len(q) = p /\ Len(s) = p
    BY <1>5, <1>8, <1>9
  <2>3. Down(q, c, p) /\ Down(s, c, p)
    BY <1>10, <1>11, <2>2 DEF Down
  <2> QED
    BY <2>1, <2>3, SameList
<1>13. r # <<>>
  BY <1>4, <1>8
<1> QED
  BY <1>4, <1>5, <1>7, <1>9, <1>12, <1>13

\* An exchange that makes a block the first entry pushes it.
LEMMA StackPush ==
  ASSUME PoolInv, PoolInv', NEW c \in Stacks, NEW b \in Blocks, Home[b] = c, ~InStack(b),
         first'[c] = b, depth' = [depth EXCEPT ![b] = Top(c) + 1]
  PROVE  StackOf(c)' = <<b>> \o StackOf(c)
<1>1. StacksOK /\ StacksOK'
  BY StackIs, PTL
<1>2. /\ depth \in [Blocks -> Nat] /\ depth' \in [Blocks -> Nat] /\ b # NULL
      /\ Top(c) \in Nat /\ Top(c)' = Top(c) + 1
  <2>1. depth \in [Blocks -> Nat] /\ depth' \in [Blocks -> Nat] /\ b # NULL /\ Top(c) \in Nat
    BY BlkPoolAssumption, TopHeight DEF PoolInv, TypeOK
  <2> QED
    BY <2>1 DEF Top
<1> PICK n \in Nat : n = Top(c)
  BY <1>2
<1>3. PICK r \in Seq(Blocks) : /\ r = StackOf(c) /\ Len(r) = n
                               /\ \A k \in 1 .. n : Home[r[k]] = c /\ depth[r[k]] + k = n + 1
  BY <1>1 DEF StacksOK
<1>4. PICK s \in Seq(Blocks) :
        /\ s = StackOf(c)' /\ Len(s) = n + 1
        /\ \A k \in 1 .. n + 1 : Home[s[k]] = c /\ depth'[s[k]] + k = (n + 1) + 1
  BY <1>1, <1>2 DEF StacksOK
<1>5. depth'[b] = n + 1 /\ \A d \in Blocks : depth[d] \in Nat /\ depth'[d] \in Nat
  BY <1>2
<1> DEFINE t == <<b>> \o r
<1>6. t \in Seq(Blocks) /\ Len(t) = n + 1 /\ t[1] = b /\ (\A k \in 2 .. n + 1 : t[k] = r[k - 1])
  BY <1>3, <1>5
<1> HIDE DEF t
<1>7. ASSUME NEW k \in 1 .. n + 1
      PROVE  Home[t[k]] = c /\ depth'[t[k]] + k = (n + 1) + 1
  <2>1. CASE k = 1
    BY <1>5, <1>6, <2>1
  <2>2. CASE k # 1
    <3>1. k - 1 \in 1 .. n /\ t[k] = r[k - 1]
      BY <1>5, <1>6, <2>2
    <3>2. r[k - 1] \in Blocks /\ Home[r[k - 1]] = c /\ depth[r[k - 1]] + (k - 1) = n + 1
      BY <1>3, <3>1
    <3>3. r[k - 1] # b
      BY <1>2, <1>5, <3>1, <3>2 DEF InStack
    <3>4. depth'[r[k - 1]] = depth[r[k - 1]]
      BY <1>2, <3>2, <3>3
    <3>5. PICK m \in Nat : m = depth[r[k - 1]]
      BY <1>5, <3>2
    <3>6. m + k = (n + 1) + 1
      <4>1. m + (k - 1) = n + 1
        BY <3>2, <3>5
      <4> QED
        BY <4>1
    <3>7. t[k] = r[k - 1] /\ depth'[t[k]] = m
      BY <3>1, <3>4, <3>5
    <3> QED
      BY <3>2, <3>6, <3>7
  <2> QED
    BY <2>1, <2>2
<1>8. ASSUME NEW k \in 1 .. n + 1 PROVE t[k] = s[k]
  <2>1. t[k] \in Blocks /\ s[k] \in Blocks
    BY <1>4, <1>5, <1>6
  <2>2. PICK i \in Nat, j \in Nat : i = depth'[t[k]] /\ j = depth'[s[k]]
    BY <1>5, <2>1
  <2>3. i + k = (n + 1) + 1 /\ j + k = (n + 1) + 1
    BY <1>4, <1>7, <2>2
  <2>4. i = j /\ i > 0
    BY <2>3
  <2>5. Home[t[k]] = c /\ Home[s[k]] = c
    BY <1>4, <1>7
  <2>6. Home[t[k]] = Home[s[k]] /\ depth'[t[k]] = depth'[s[k]] /\ depth'[t[k]] > 0
    BY <2>2, <2>4, <2>5
  <2> QED
    BY <2>1, <2>6 DEF PoolInv, Linked, InStack
<1>9. t = s
  BY <1>4, <1>5, <1>6, <1>8
<1> QED
  BY <1>3, <1>4, <1>9 DEF t

\* The stack has the blocks of its list, each once.
LEMMA StackHolds ==
  ASSUME PoolInv, NEW c \in Stacks
  PROVE  /\ \A b \in Blocks : InStack(b) /\ Home[b] = c =>
              \E k \in 1 .. Top(c) : StackOf(c)[k] = b
         /\ \A j, k \in 1 .. Top(c) : StackOf(c)[j] = StackOf(c)[k] => j = k
<1>1. StacksOK
  BY StackIs
<1> PICK n \in Nat : n = Top(c)
  BY TopHeight
<1>2. PICK s : s = StackOf(c) /\ Down(s, c, n)
  BY <1>1 DEF StacksOK, Down
<1>3. \A b \in Blocks : depth[b] \in Nat
  BY DEF PoolInv, TypeOK
<1>4. ASSUME NEW b \in Blocks, InStack(b), Home[b] = c
      PROVE  \E k \in 1 .. n : s[k] = b
  <2>1. PICK m \in Nat : m = depth[b] /\ m > 0 /\ m <= n
    BY <1>3, <1>4, TopHeight DEF InStack
  <2>2. n + 1 - m \in 1 .. n
    BY <2>1
  <2>3. PICK k \in 1 .. n : k = n + 1 - m
    BY <2>2
  <2>4. PICK d \in Blocks : d = s[k] /\ Home[d] = c /\ depth[d] + k = n + 1
    BY <1>2 DEF Down
  <2>5. depth[d] = depth[b]
    BY <1>3, <2>1, <2>3, <2>4
  <2>6. d = b
    BY <1>4, <2>4, <2>5 DEF PoolInv, Linked
  <2> QED
    BY <2>4, <2>6
<1>5. ASSUME NEW j \in 1 .. n, NEW k \in 1 .. n, s[j] = s[k]
      PROVE  j = k
  <2>1. PICK d \in Blocks : d = s[k] /\ depth[d] + k = n + 1
    BY <1>2 DEF Down
  <2>2. depth[d] + j = n + 1 /\ depth[d] \in Nat
    BY <1>2, <1>3, <1>5, <2>1 DEF Down
  <2> QED
    BY <2>1, <2>2
<1> QED
  BY <1>2, <1>4, <1>5

\* At the start the stacks are full.
LEMMA StacksInit == Init => LLists!Init
<1> SUFFICES ASSUME Init PROVE LLists!Init
  OBVIOUS
<1>1. PoolInv /\ StacksOK
  BY PoolInit, StackIs
<1>2. \A b \in Blocks : InStack(b) /\ owners[b] = 0
  <2>1. Cardinality(Blocks) \in Nat
    BY FS_CardinalityType, BlkPoolAssumption
  <2> QED
    BY <2>1 DEF Init, InStack
<1>3. \A t \in Tasks : ~Adding(t)
  BY DEF Init, Adding
<1>4. ASSUME NEW c \in Stacks
      PROVE  /\ StackOf(c) \in Seq(Blocks)
             /\ {StackOf(c)[k] : k \in DOMAIN StackOf(c)} = {b \in Blocks : Home[b] = c}
             /\ \A j, k \in DOMAIN StackOf(c) : StackOf(c)[j] = StackOf(c)[k] => j = k
  <2>1. PICK s : s = StackOf(c)
    OBVIOUS
  <2>2. s \in Seq(Blocks) /\ DOMAIN s = 1 .. Top(c)
    <3>1. s \in Seq(Blocks) /\ Len(s) = Top(c)
      BY <1>1, <2>1 DEF StacksOK
    <3> QED
      BY <3>1
  <2>3. \A k \in 1 .. Top(c) : s[k] \in Blocks /\ Home[s[k]] = c
    BY <1>1, <2>1, <2>2 DEF StacksOK
  <2>4. /\ \A b \in Blocks : Home[b] = c => \E k \in 1 .. Top(c) : s[k] = b
        /\ \A j, k \in 1 .. Top(c) : s[j] = s[k] => j = k
    BY <1>1, <1>2, <2>1, StackHolds
  <2> QED
    BY <2>1, <2>2, <2>3, <2>4
<1> QED
  BY <1>2, <1>3, <1>4 DEF LLists!Init, LLists!Holds, LLists!Homes

\* The blocks on their way back
Back == {blk[t] : t \in {u \in Tasks : Adding(u)}}

\* A step that leaves the lists, the owners and these alone is none of the
\* stacks.
LEMMA StacksStutter ==
  ASSUME PoolInv, PoolInv', first' = first, depth' = depth, owners' = owners, Back' = Back
  PROVE  UNCHANGED LLists!vars
<1>1. \A c \in Stacks : StackOf(c)' = StackOf(c)
  BY StackSame
<1> QED
  BY <1>1 DEF LLists!vars, Back

LEMMA StacksTake ==
  ASSUME PoolInv, PoolInv', NEW t \in Takers, Take(t)
  PROVE  [LLists!Next]_(LLists!vars)
<1>1. /\ t \in Tasks /\ ~Adding(t) /\ ~Adding(t)'
      /\ \A u \in Tasks : u # t => (pc'[u] = pc[u] /\ blk'[u] = blk[u])
  <2>1. t \in Tasks /\ pc \in [Tasks -> Labels] /\ blk \in [Tasks -> Blocks \cup {NULL}]
    BY BlkPoolAssumption DEF PoolInv, TypeOK
  <2> QED
    BY <2>1 DEF Take, Malloc, Search, DelLoad, DelNext, DelCas, DelRetry, Return, Adding
<1>2. Back' = Back
  BY <1>1 DEF Back, Adding
<1>3. CASE DelCas(t)
  <2>1. PICK c \in Stacks, e \in Blocks :
          c = idx[t] /\ e = blk[t] /\ InStack(e) /\ Home[e] = c /\ nxt[t] = next[e]
    BY <1>1, <1>3 DEF DelCas, PoolInv, TakerOK
  <2>2. /\ first[c] = e /\ first' = [first EXCEPT ![c] = next[e]]
        /\ owners' = [owners EXCEPT ![e] = @ + 1] /\ depth' = [depth EXCEPT ![e] = 0]
    BY <1>3, <2>1 DEF DelCas
  <2>3. /\ first \in [Stacks -> Blocks \cup {NULL}] /\ depth \in [Blocks -> Nat]
        /\ owners \in [Blocks -> Nat] /\ owners[e] = 0
    BY <2>1 DEF PoolInv, TypeOK, Placed
  <2>4. /\ StackOf(c) # <<>> /\ Head(StackOf(c)) = e
        /\ StackOf(c)' = Tail(StackOf(c))
    <3>1. first'[c] = next[e]
      BY <2>2, <2>3
    <3> QED
      BY <2>2, <3>1, StackPop
  <2>5. \A d \in Stacks : d # c => StackOf(d)' = StackOf(d)
    <3> SUFFICES ASSUME NEW d \in Stacks, d # c PROVE StackOf(d)' = StackOf(d)
      OBVIOUS
    <3>1. first'[d] = first[d] /\ \A b \in Blocks : Home[b] = d => depth'[b] = depth[b]
      BY <2>1, <2>2, <2>3
    <3> QED
      BY <3>1, StackSame
  <2>6. {b \in Blocks : owners'[b] > 0} = {b \in Blocks : owners[b] > 0} \cup {e}
    BY <2>1, <2>2, <2>3
  <2>7. LLists!Pop(c)
    BY <1>2, <2>1, <2>4, <2>5, <2>6 DEF LLists!Pop, Back
  <2> QED
    BY <2>7 DEF LLists!Next
<1>4. CASE ~DelCas(t)
  <2>1. first' = first /\ depth' = depth /\ owners' = owners
    BY <1>4 DEF Take, Malloc, Search, DelLoad, DelNext, DelRetry
  <2> QED
    BY <1>2, <2>1, StacksStutter
<1> QED
  BY <1>3, <1>4

LEMMA StacksPut ==
  ASSUME PoolInv, PoolInv', NEW t \in Tasks, Put(t)
  PROVE  [LLists!Next]_(LLists!vars)
<1>1. /\ pc \in [Tasks -> Labels] /\ blk \in [Tasks -> Blocks \cup {NULL}]
      /\ owners \in [Blocks -> Nat] /\ depth \in [Blocks -> Nat]
      /\ first \in [Stacks -> Blocks \cup {NULL}]
  BY DEF PoolInv, TypeOK
<1>2. \A u \in Tasks : u # t => pc'[u] = pc[u] /\ blk'[u] = blk[u]
  BY <1>1 DEF Put, Free, AddLoad, AddCas, AddRetry, Return
<1>3. CASE Free(t)
  <2>1. PICK d \in Blocks : /\ owners[d] > 0 /\ owners' = [owners EXCEPT ![d] = @ - 1]
                            /\ blk' = [blk EXCEPT ![t] = d]
    BY <1>3 DEF Free
  <2>2. owners[d] = 1
    BY <1>1, <2>1 DEF PoolInv, Placed
  <2>3. ~Adding(t) /\ Adding(t)' /\ blk'[t] = d /\ first' = first /\ depth' = depth
    BY <1>1, <1>3, <2>1 DEF Free, Adding
  <2>4. Back' = Back \cup {d}
    BY <1>2, <2>3 DEF Back, Adding
  <2>5. {b \in Blocks : owners'[b] > 0} = {b \in Blocks : owners[b] > 0} \ {d}
    BY <1>1, <2>1, <2>2
  <2>6. \A c \in Stacks : StackOf(c)' = StackOf(c)
    BY <2>3, StackSame
  <2>7. LLists!Release(d)
    BY <2>1, <2>4, <2>5, <2>6 DEF LLists!Release, Back
  <2> QED
    BY <2>7 DEF LLists!Next
<1>4. CASE AddLoad(t) \/ AddRetry(t)
  <2>1. /\ Adding(t) /\ Adding(t)' /\ blk' = blk
        /\ owners' = owners /\ depth' = depth /\ first' = first
    BY <1>1, <1>4 DEF AddLoad, AddRetry, Adding
  <2>2. Back' = Back
    BY <1>2, <2>1 DEF Back, Adding
  <2> QED
    BY <2>1, <2>2, StacksStutter
<1>5. CASE AddCas(t)
  <2>1. Adding(t)
    BY <1>5 DEF AddCas, Adding
  <2>2. PICK d \in Blocks, c \in Stacks :
          d = blk[t] /\ c = idx[t] /\ Home[d] = c /\ ~InStack(d) /\ owners[d] = 0
    BY <2>1, BlkPoolAssumption DEF PoolInv, Placed
  <2>3. /\ owners' = owners /\ first' = [first EXCEPT ![c] = d]
        /\ depth' = [depth EXCEPT ![d] = Top(c) + 1]
    BY <1>5, <2>2 DEF AddCas
  <2>4. ~Adding(t)'
    BY <1>1, <1>5 DEF AddCas, Return, Adding
  <2>5. Back' = Back \ {d}
    <3>1. \A u \in Tasks : u # t /\ Adding(u) => blk[u] # d
      BY <2>1, <2>2 DEF PoolInv, Placed
    <3> QED
      BY <1>2, <2>2, <2>4, <3>1 DEF Back, Adding
  <2>6. StackOf(c)' = <<d>> \o StackOf(c)
    <3>1. first'[c] = d
      BY <1>1, <2>3
    <3> QED
      BY <2>2, <2>3, <3>1, StackPush
  <2>7. \A e \in Stacks : e # c => StackOf(e)' = StackOf(e)
    <3> SUFFICES ASSUME NEW e \in Stacks, e # c PROVE StackOf(e)' = StackOf(e)
      OBVIOUS
    <3>1. first'[e] = first[e] /\ \A b \in Blocks : Home[b] = e => depth'[b] = depth[b]
      BY <1>1, <2>2, <2>3
    <3> QED
      BY <3>1, StackSame
  <2>8. d \in Back
    BY <2>1, <2>2 DEF Back
  <2>9. LLists!Push(d)
    BY <2>2, <2>3, <2>5, <2>6, <2>7, <2>8 DEF LLists!Push, Back
  <2> QED
    BY <2>9 DEF LLists!Next
<1> QED
  BY <1>3, <1>4, <1>5 DEF Put

\* Lists that tasks change with loads, stores and exchanges, each of which may
\* come between those of others, implement stacks that change at one instant:
\* malloc takes the last block that free put back, and no other.
THEOREM PoolImplementsStacks == Spec => ImplementsStacks
<1>1. PoolInv /\ PoolInv' /\ [Next]_vars => [LLists!Next]_(LLists!vars)
  <2> SUFFICES ASSUME PoolInv, PoolInv', [Next]_vars
               PROVE  [LLists!Next]_(LLists!vars)
    OBVIOUS
  <2>1. CASE UNCHANGED vars
    <3>1. Back' = Back
      BY <2>1 DEF vars, Back, Adding
    <3> QED
      BY <2>1, <3>1, StacksStutter DEF vars
  <2> QED
    BY <2>1, StacksTake, StacksPut DEF Next
<1> QED
  BY <1>1, StacksInit, PoolInductive, PTL DEF Spec, ImplementsStacks, LLists!Spec

=============================================================================
