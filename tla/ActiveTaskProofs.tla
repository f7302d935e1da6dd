-------------------------- MODULE ActiveTaskProofs --------------------------
(***************************************************************************)
(* What is proved of the reference counters, for any tasks, blocks and     *)
(* queue, and any finite number of references; and of the tasks, for any   *)
(* number of senders, blocks and references: they use the blocks as MsgBlk *)
(* assumes, and until the queue or a pool fails (Fail of ActiveTask) the   *)
(* service loop and the senders never touch a block that is in its pool.   *)
(***************************************************************************)
EXTENDS ActiveTaskInv, FiniteSetTheorems, TLAPS

-----------------------------------------------------------------------------
(* The blocks: MsgBlk with its own specification.                           *)

\* A new reference to b adds one to those to b, and none to another block.
LEMMA GainRefs ==
  ASSUME TypeOK, NEW r \in Refs, of[r] = NULL, NEW b \in Blocks, NEW k, Gain(r, b, k)
  PROVE  /\ RefsTo(b)' = RefsTo(b) \cup {r}
         /\ Cardinality(RefsTo(b)) \in Nat
         /\ Cardinality(RefsTo(b)') = Cardinality(RefsTo(b)) + 1
         /\ \A c \in Blocks : c # b => RefsTo(c)' = RefsTo(c)
<1>1. r \notin RefsTo(b) /\ IsFiniteSet(RefsTo(b))
  <2>1. RefsTo(b) \subseteq Refs
    BY DEF RefsTo
  <2> QED
    BY <2>1, FS_Subset, MsgBlkAssumption DEF RefsTo
<1>2. RefsTo(b)' = RefsTo(b) \cup {r}
  BY DEF RefsTo, Gain, TypeOK
<1>3. \A c \in Blocks : c # b => RefsTo(c)' = RefsTo(c)
  BY MsgBlkAssumption DEF RefsTo, Gain, TypeOK
<1>4. Cardinality(RefsTo(b) \cup {r}) = Cardinality(RefsTo(b)) + 1
  BY <1>1, FS_AddElement
<1> QED
  BY <1>1, <1>2, <1>3, <1>4, FS_CardinalityType

\* A reference to b that is given up takes one from those to b.
LEMMA DropRefs ==
  ASSUME TypeOK, NEW r \in Refs, NEW b \in Blocks, of[r] = b, Drop(r)
  PROVE  /\ RefsTo(b)' = RefsTo(b) \ {r}
         /\ Cardinality(RefsTo(b)) \in Nat \ {0}
         /\ Cardinality(RefsTo(b)') = Cardinality(RefsTo(b)) - 1
         /\ RefsTo(b)' = {} <=> Cardinality(RefsTo(b)) = 1
         /\ \A c \in Blocks : c # b => RefsTo(c)' = RefsTo(c)
<1>1. r \in RefsTo(b) /\ IsFiniteSet(RefsTo(b))
  <2>1. RefsTo(b) \subseteq Refs
    BY DEF RefsTo
  <2> QED
    BY <2>1, FS_Subset, MsgBlkAssumption DEF RefsTo
<1>2. RefsTo(b)' = RefsTo(b) \ {r}
  BY MsgBlkAssumption DEF RefsTo, Drop, Gain, TypeOK
<1>3. \A c \in Blocks : c # b => RefsTo(c)' = RefsTo(c)
  BY MsgBlkAssumption DEF RefsTo, Drop, Gain, TypeOK
<1>4. /\ IsFiniteSet(RefsTo(b) \ {r})
      /\ Cardinality(RefsTo(b) \ {r}) = Cardinality(RefsTo(b)) - 1
  BY <1>1, FS_RemoveElement
<1>5. Cardinality(RefsTo(b)) \in Nat /\ Cardinality(RefsTo(b)) # 0
  BY <1>1, FS_CardinalityType, FS_EmptySet
<1>6. RefsTo(b) \ {r} = {} <=> Cardinality(RefsTo(b) \ {r}) = 0
  BY <1>4, FS_EmptySet
<1> QED
  BY <1>2, <1>3, <1>4, <1>5, <1>6

\* datablk_malloc and the first part of msgblk_malloc: the counter is right
\* for the block that left the pool.
LEMMA CountedMalloc ==
  ASSUME TypeOK, Counted, NEW r \in Refs, of[r] = NULL, NEW b \in pool, NEW k,
         pool' = pool \ {b}, count' = [count EXCEPT ![b] = 1], Gain(r, b, k)
  PROVE  Counted'
<1>1. b \in Blocks /\ RefsTo(b) = {}
  BY DEF TypeOK, Counted
<1>2. Cardinality(RefsTo(b)') = 1
  <2>1. Cardinality(RefsTo(b)') = Cardinality(RefsTo(b)) + 1
    BY <1>1, GainRefs
  <2>2. Cardinality(RefsTo(b)) = 0
    BY <1>1, FS_EmptySet
  <2> QED
    BY <2>1, <2>2
<1>3. \A c \in Blocks : c # b => RefsTo(c)' = RefsTo(c) /\ count'[c] = count[c]
  BY <1>1, GainRefs DEF TypeOK
<1> QED
  BY <1>1, <1>2, <1>3 DEF Counted, TypeOK

\* kref_get: one more reference, one more counted.
LEMMA CountedGet ==
  ASSUME TypeOK, Counted, NEW r \in Refs, of[r] = NULL, NEW b \in Blocks \ pool, NEW k,
         pool' = pool, count' = [count EXCEPT ![b] = @ + 1], Gain(r, b, k)
  PROVE  Counted'
<1>1. Cardinality(RefsTo(b)') = Cardinality(RefsTo(b)) + 1
  BY GainRefs
<1>2. \A c \in Blocks : c # b => RefsTo(c)' = RefsTo(c) /\ count'[c] = count[c]
  BY GainRefs DEF TypeOK
<1> QED
  BY <1>1, <1>2 DEF Counted, TypeOK

\* kref_put: the counter is 1 when the last reference is given up.
LEMMA CountedPut ==
  ASSUME TypeOK, Counted, NEW r \in Refs, NEW b \in Blocks, of[r] = b, Drop(r),
         count' = [count EXCEPT ![b] = @ - 1],
         pool' \in {pool, pool \cup {b}}, b \in pool' => count[b] = 1
  PROVE  /\ b \notin pool
         /\ RefsTo(b)' = {} <=> count[b] = 1
         /\ Counted'
         /\ count' \in [Blocks -> Nat]
<1>1. r \in RefsTo(b) /\ b \notin pool
  BY DEF RefsTo, Counted
<1>2. count[b] = Cardinality(RefsTo(b)) /\ count[b] \in Nat \ {0}
  BY <1>1, DropRefs DEF Counted
<1>3. RefsTo(b)' = {} <=> count[b] = 1
  BY <1>2, DropRefs
<1>4. count'[b] = Cardinality(RefsTo(b)')
  BY <1>2, DropRefs DEF TypeOK
<1>5. \A c \in Blocks : c # b =>
        RefsTo(c)' = RefsTo(c) /\ count'[c] = count[c] /\ (c \in pool' <=> c \in pool)
  BY DropRefs DEF TypeOK
<1>6. Counted'
  <2>1. ASSUME NEW c \in Blocks, c \in pool'
        PROVE  RefsTo(c)' = {}
    BY <1>1, <1>3, <1>5, <2>1 DEF Counted
  <2>2. ASSUME NEW c \in Blocks, c \notin pool'
        PROVE  count'[c] = Cardinality(RefsTo(c)')
    <3>1. CASE c = b
      BY <1>4, <3>1
    <3>2. CASE c # b
      <4>1. RefsTo(c)' = RefsTo(c) /\ count'[c] = count[c] /\ c \notin pool
        BY <1>5, <2>2, <3>2
      <4>2. count[c] = Cardinality(RefsTo(c))
        BY <4>1 DEF Counted
      <4>3. Cardinality(RefsTo(c)') = Cardinality(RefsTo(c))
        BY <4>1
      <4> QED
        BY <4>1, <4>2, <4>3
    <3> QED
      BY <3>1, <3>2
  <2> QED
    BY <2>1, <2>2 DEF Counted
<1>7. count' \in [Blocks -> Nat]
  BY <1>2 DEF TypeOK
<1> QED
  BY <1>1, <1>3, <1>6, <1>7

\* A referenced block is outside the pool, and no task is releasing it.
LEMMA Referenced ==
  ASSUME RefInv, NEW r \in Refs, of[r] # NULL
  PROVE  /\ of[r] \in Blocks \ pool
         /\ \A t \in Tasks : pc[t] = "release" => mb[t] # of[r]
<1>1. of[r] \in Blocks /\ r \in RefsTo(of[r])
  BY DEF RefInv, TypeOK, RefsTo
<1>2. of[r] \notin pool
  BY <1>1 DEF RefInv, Counted
<1>3. \A t \in Tasks : pc[t] = "release" => mb[t] # of[r]
  BY DEF RefInv, TaskOK
<1> QED
  BY <1>1, <1>2, <1>3

\* What a step of t changes outside the variables of the other tasks: one
\* reference r that no other task keeps or is about to use, for a block that is
\* in the pool or referenced; only blocks it had a part in enter the pool.
TouchesOnly(t, r) ==
  /\ \A u \in Tasks \ {t} :
       pc'[u] = pc[u] /\ mb'[u] = mb[u] /\ db'[u] = db[u] /\ ref'[u] = ref[u]
  /\ \A s \in Refs \ {r} : of'[s] = of[s] /\ by'[s] = by[s]
  /\ by[r] \notin Tasks \ {t}
  /\ of'[r] = NULL \/ of[r] # NULL \/ \A u \in Tasks \ {t} : ref[u] # r
  /\ of'[r] \in pool \cup {NULL} \cup {of[s] : s \in Refs}
  /\ \A b \in pool' : b \in pool \/ b = of[r] \/ (pc[t] = "release" /\ b = mb[t])

\* Such a step leaves the other tasks in order.
LEMMA OthersOK ==
  ASSUME RefInv, NEW t \in Tasks, NEW r \in Refs, TouchesOnly(t, r),
         NEW u \in Tasks \ {t}
  PROVE  TaskOK(u)'
<1> USE DEF RefInv
<1>1. TaskOK(u) /\ pc'[u] = pc[u] /\ mb'[u] = mb[u] /\ db'[u] = db[u] /\ ref'[u] = ref[u]
  BY DEF TouchesOnly
<1>2. ASSUME pc[u] = "release"
      PROVE  mb[u] \in Msgs \ pool' /\ \A s \in Refs : of'[s] # mb[u]
  <2>1. mb[u] \in Msgs \ pool /\ mb[u] # NULL /\ \A s \in Refs : of[s] # mb[u]
    BY <1>1, <1>2, MsgBlkAssumption DEF TaskOK, Blocks
  <2>2. pc[t] = "release" => mb[t] # mb[u]
    BY <1>2 DEF Alone
  <2> QED
    BY <2>1, <2>2 DEF TouchesOnly
<1>3. \A s \in Refs : by[s] = u => of'[s] = of[s] /\ by'[s] = by[s]
  BY DEF TouchesOnly
<1>4. ASSUME pc[u] \in {"attach", "link"}
      PROVE  of'[ref[u]] = NULL
  BY <1>1, <1>4 DEF TaskOK, TouchesOnly
<1> QED
  BY <1>1, <1>2, <1>3, <1>4 DEF TaskOK

\* A step after which a block outside the pool is without references only if it
\* was before, or is released now, and which ends a release with the block in
\* the pool, leaves no block unreachable.
LEMMA ReachableStep ==
  ASSUME RefInv,
         \A b \in Blocks \ pool' : (\A s \in Refs : of'[s] # b) =>
           \/ b \notin pool /\ \A s \in Refs : of[s] # b
           \/ Releasing(b)',
         \A u \in Tasks : pc[u] = "release" =>
           (pc'[u] = "release" /\ mb'[u] = mb[u]) \/ mb[u] \in pool'
  PROVE  Reachable'
<1>1. SUFFICES ASSUME NEW b \in Blocks \ pool', \A s \in Refs : of'[s] # b, ~Releasing(b)'
               PROVE  FALSE
  BY DEF Reachable
<1>2. b \notin pool /\ \A s \in Refs : of[s] # b
  BY <1>1
<1>3. PICK u \in Tasks : pc[u] = "release" /\ mb[u] = b
  BY <1>2 DEF RefInv, Reachable, Releasing
<1> QED
  BY <1>1, <1>3 DEF Releasing

\* The mallocs keep the invariant.
LEMMA MallocStep ==
  ASSUME RefInv, NEW t \in Tasks, DataMalloc(t) \/ MsgMalloc(t)
  PROVE  RefInv'
<1> USE DEF RefInv
<1>1. PICK b \in pool, r \in Refs :
        /\ Unused(r) /\ Gain(r, b, t)
        /\ pool' = pool \ {b} /\ count' = [count EXCEPT ![b] = 1]
        /\ \/ UNCHANGED <<pc, mb, db, ref>>
           \/ /\ b \in Msgs
              /\ \E s, l \in Refs :
                   Keeps(t, s, Datas) /\ Unused(l) /\ l # r /\ ToAttach(t, b, of[s], l)
  BY DEF DataMalloc, MsgMalloc
<1>2. b \in Blocks /\ of[r] = NULL /\ pc[t] = "idle" /\ t \notin Msgs \cup {Queue, Lost}
  BY <1>1, MsgBlkAssumption DEF Unused, TypeOK, DataMalloc, MsgMalloc
<1>3. Counted'
  BY <1>1, <1>2, CountedMalloc
<1>4. /\ of'[r] = b /\ by'[r] = t /\ b # NULL /\ t # NULL /\ by[r] = NULL
      /\ \A s \in Refs : s # r => of'[s] = of[s] /\ by'[s] = by[s]
  BY <1>1, <1>2, MsgBlkAssumption DEF Gain, TypeOK, Kept
<1>5. Kept'
  BY <1>1, <1>2, <1>4 DEF Kept
<1>6. /\ of' \in [Refs -> Blocks \cup {NULL}] /\ by' \in [Refs -> Keepers \cup {NULL}]
      /\ count' \in [Blocks -> Nat] /\ pool' \in SUBSET Blocks
  BY <1>1, <1>2 DEF Gain, TypeOK, Keepers
<1>7. CASE UNCHANGED <<pc, mb, db, ref>>
  <2>1. TypeOK' /\ Alone'
    BY <1>6, <1>7 DEF TypeOK, Alone
  <2>2. TouchesOnly(t, r)
    BY <1>1, <1>4, <1>7, MsgBlkAssumption DEF TouchesOnly, Unused
  <2>3. TaskOK(t)'
    BY <1>2, <1>7 DEF TaskOK
  <2>4. Reachable'
    <3>1. ASSUME NEW c \in Blocks \ pool', \A q \in Refs : of'[q] # c
          PROVE  c \notin pool /\ \A q \in Refs : of[q] # c
      BY <1>1, <1>4, <3>1, MsgBlkAssumption DEF Unused
    <3> QED
      BY <1>7, <3>1, ReachableStep
  <2> QED
    BY <1>3, <1>5, <2>1, <2>2, <2>3, <2>4, OthersOK
<1>8. ASSUME b \in Msgs, NEW s \in Refs, NEW l \in Refs,
             Keeps(t, s, Datas), Unused(l), l # r, ToAttach(t, b, of[s], l)
      PROVE  RefInv'
  <2>1. /\ pc'[t] = "attach" /\ mb'[t] = b /\ db'[t] = of[s] /\ ref'[t] = l
        /\ \A u \in Tasks \ {t} :
             pc'[u] = pc[u] /\ mb'[u] = mb[u] /\ db'[u] = db[u] /\ ref'[u] = ref[u]
    BY <1>8 DEF ToAttach, TypeOK
  <2>2. TypeOK'
    BY <1>6, <1>8 DEF TypeOK, ToAttach, Keeps, Labels
  <2>3. Alone'
    BY <1>8, <2>1 DEF Alone, Unused
  <2>4. TouchesOnly(t, r)
    BY <1>1, <1>4, <2>1, MsgBlkAssumption DEF TouchesOnly, Unused
  <2>5. s # r /\ of[s] \in Datas /\ by[s] = t /\ of[l] = NULL
    BY <1>4, <1>8, MsgBlkAssumption DEF Keeps, Unused
  <2>6. TaskOK(t)'
    BY <1>4, <1>8, <2>1, <2>5 DEF TaskOK
  <2>7. Reachable'
    <3>1. ASSUME NEW c \in Blocks \ pool', \A q \in Refs : of'[q] # c
          PROVE  c \notin pool /\ \A q \in Refs : of[q] # c
      BY <1>1, <1>4, <3>1, MsgBlkAssumption DEF Unused
    <3>2. \A u \in Tasks : pc[u] = "release" => pc'[u] = "release" /\ mb'[u] = mb[u]
      BY <1>2, <2>1
    <3> QED
      BY <3>1, <3>2, ReachableStep
  <2> QED
    BY <1>3, <1>5, <2>2, <2>3, <2>4, <2>6, <2>7, OthersOK
<1> QED
  BY <1>1, <1>7, <1>8

\* A reference more to a block that is referenced keeps the invariant: ref,
\* attach and the reference msgblk_push_circ_queue takes.
LEMMA GetStep ==
  ASSUME RefInv, NEW t \in Tasks, Ref(t) \/ AttachLink(t) \/ PushRef(t)
  PROVE  RefInv'
<1> USE DEF RefInv
<1>1. PICK s \in Refs, b \in Blocks, k \in Tasks \cup Msgs :
        /\ of[s] = NULL /\ Gain(s, b, k) /\ count' = [count EXCEPT ![b] = @ + 1]
        /\ pool' = pool /\ \E r \in Refs : of[r] = b /\ by[r] = t
        /\ k = t \/ (k \in Msgs \ pool /\ b \in Datas)
        /\ \A u \in Tasks \ {t} : ref[u] # s
        /\ \/ Ref(t) /\ UNCHANGED <<pc, mb, db, ref>>
           \/ AttachLink(t) /\ Return(t)
           \/ /\ PushRef(t) /\ k = t /\ b \in Msgs
              /\ pc' = [pc EXCEPT ![t] = "push"] /\ ref' = [ref EXCEPT ![t] = s]
              /\ UNCHANGED <<mb, db>>
  <2>1. CASE Ref(t)
    <3>1. PICK r \in Refs, s \in Refs :
            /\ Keeps(t, r, Blocks) /\ Unused(s)
            /\ count' = [count EXCEPT ![of[r]] = @ + 1] /\ Gain(s, of[r], t)
      BY <2>1 DEF Ref
    <3> QED
      BY <2>1, <3>1 DEF Ref, Keeps, Unused
  <2>2. CASE AttachLink(t)
    <3>1. /\ mb[t] \in Msgs /\ db[t] \in Datas /\ ref[t] \in Refs /\ of[ref[t]] = NULL
          /\ \E r \in Refs : by[r] = t /\ of[r] = mb[t]
          /\ \E r \in Refs : by[r] = t /\ of[r] = db[t]
      BY <2>2 DEF AttachLink, TaskOK
    <3>2. mb[t] \notin pool
      BY <3>1, Referenced, MsgBlkAssumption DEF Blocks
    <3>3. \A u \in Tasks \ {t} : ref[u] # ref[t]
      BY <3>1, MsgBlkAssumption DEF Alone, TypeOK
    <3> QED
      BY <2>2, <3>1, <3>2, <3>3 DEF AttachLink, Blocks
  <2>3. CASE PushRef(t)
    <3>1. PICK r \in Refs, s \in Refs :
            /\ Keeps(t, r, Msgs) /\ Unused(s)
            /\ count' = [count EXCEPT ![of[r]] = @ + 1] /\ Gain(s, of[r], t)
            /\ ref' = [ref EXCEPT ![t] = s]
      BY <2>3 DEF PushRef
    <3> QED
      BY <2>3, <3>1 DEF PushRef, Keeps, Unused, Blocks
  <2> QED
    BY <2>1, <2>2, <2>3
<1>2. b \notin pool /\ \A u \in Tasks : pc[u] = "release" => mb[u] # b
  BY <1>1, Referenced, MsgBlkAssumption
<1>3. Counted'
  BY <1>1, <1>2, CountedGet
<1>4. /\ of'[s] = b /\ by'[s] = k /\ by[s] = NULL /\ k # NULL /\ b # NULL
      /\ \A r \in Refs \ {s} : of'[r] = of[r] /\ by'[r] = by[r]
  BY <1>1, MsgBlkAssumption DEF Gain, TypeOK, Kept, Blocks
<1>5. Kept'
  BY <1>1, <1>4, MsgBlkAssumption DEF Kept
<1>6. \A u \in Tasks \ {t} :
        pc'[u] = pc[u] /\ mb'[u] = mb[u] /\ db'[u] = db[u] /\ ref'[u] = ref[u]
  BY <1>1 DEF Return, TypeOK
<1>7. pc[t] # "release" /\ pc'[t] \in {"idle", "push"} /\ ref'[t] \in {NULL, ref[t], s}
  BY <1>1 DEF Ref, AttachLink, PushRef, Return, TypeOK
<1>8. TypeOK'
  <2>1. /\ of' \in [Refs -> Blocks \cup {NULL}] /\ by' \in [Refs -> Keepers \cup {NULL}]
        /\ count' \in [Blocks -> Nat] /\ pool' \in SUBSET Blocks
    BY <1>1 DEF Gain, TypeOK, Keepers
  <2> QED
    BY <1>1, <2>1 DEF Return, TypeOK, Labels
<1>9. Alone'
  BY <1>1, <1>6, <1>7 DEF Alone
<1>10. \A u \in Tasks \ {t} : TaskOK(u)'
  <2>1. TouchesOnly(t, s)
    BY <1>1, <1>4, <1>6, MsgBlkAssumption DEF TouchesOnly
  <2> QED
    BY <2>1, OthersOK
<1>11. TaskOK(t)'
  <2>1. CASE pc'[t] = "idle"
    BY <2>1 DEF TaskOK
  <2>2. CASE pc'[t] = "push"
    <3>1. PushRef(t) /\ k = t /\ b \in Msgs /\ ref' = [ref EXCEPT ![t] = s]
      BY <1>1, <2>2 DEF Ref, Return, TypeOK
    <3>2. ref'[t] = s
      BY <3>1 DEF TypeOK
    <3> QED
      BY <1>4, <2>2, <3>1, <3>2 DEF TaskOK
  <2> QED
    BY <1>7, <2>1, <2>2
<1>12. Reachable'
  <2>1. ASSUME NEW c \in Blocks \ pool', \A q \in Refs : of'[q] # c
        PROVE  c \notin pool /\ \A q \in Refs : of[q] # c
    BY <1>1, <1>4, <2>1, MsgBlkAssumption
  <2>2. \A u \in Tasks : pc[u] = "release" => pc'[u] = "release" /\ mb'[u] = mb[u]
    BY <1>6, <1>7
  <2> QED
    BY <2>1, <2>2, ReachableStep
<1> QED
  BY <1>3, <1>5, <1>8, <1>9, <1>10, <1>11, <1>12

\* A reference less: DataFree, msgblk_dettach_datablk, and the release of the
\* data blocks of a message.
LEMMA DataPutStep ==
  ASSUME RefInv, NEW t \in Tasks, DataFree(t) \/ Dettach(t) \/ ReleaseData(t)
  PROVE  RefInv'
<1> USE DEF RefInv
<1>1. PICK r \in Refs, b \in Datas :
        /\ of[r] = b /\ DataPut(b) /\ Drop(r) /\ by[r] \notin Tasks \ {t}
        /\ \/ pc[t] = "idle" /\ UNCHANGED <<pc, mb, db, ref>>
           \/ pc[t] = "release" /\ UNCHANGED <<pc, mb, db, ref>>
           \/ /\ pc[t] = "idle" /\ pc' = [pc EXCEPT ![t] = "dettached"]
              /\ \E m \in Msgs : mb' = [mb EXCEPT ![t] = m]
              /\ db' = [db EXCEPT ![t] = b] /\ UNCHANGED ref
  <2>1. CASE DataFree(t)
    BY <2>1 DEF DataFree, Keeps
  <2>2. CASE Dettach(t)
    <3>1. PICK q \in Refs, r \in Refs :
            /\ Keeps(t, q, Msgs) /\ r \in ListOf(of[q]) /\ DataPut(of[r]) /\ Drop(r)
            /\ mb' = [mb EXCEPT ![t] = of[q]] /\ db' = [db EXCEPT ![t] = of[r]]
      BY <2>2 DEF Dettach
    <3>2. of[q] \in Msgs /\ by[r] = of[q]
      BY <3>1 DEF Keeps, ListOf
    <3> QED
      BY <2>2, <3>1, <3>2, MsgBlkAssumption DEF Dettach, Kept
  <2>3. CASE ReleaseData(t)
    <3>1. mb[t] \in Msgs
      BY <2>3 DEF ReleaseData, TaskOK
    <3> QED
      BY <2>3, <3>1, MsgBlkAssumption DEF ReleaseData, ListOf, Kept
  <2> QED
    BY <2>1, <2>2, <2>3
<1>2. b \in Blocks /\ b \notin Msgs /\ b # NULL
  BY <1>1, MsgBlkAssumption DEF Blocks
<1>3. /\ count' = [count EXCEPT ![b] = @ - 1]
      /\ pool' = IF count[b] = 1 THEN pool \cup {b} ELSE pool
  BY <1>1 DEF DataPut
<1>4. b \notin pool /\ (RefsTo(b)' = {} <=> count[b] = 1) /\ Counted' /\ count' \in [Blocks -> Nat]
  <2>1. b \notin pool
    BY <1>1, <1>2, Referenced
  <2>2. pool' \in {pool, pool \cup {b}} /\ (b \in pool' => count[b] = 1)
    BY <1>3, <2>1
  <2> QED
    BY <1>1, <1>2, <1>3, <2>2, CountedPut
<1>5. /\ of'[r] = NULL /\ by'[r] = NULL
      /\ \A s \in Refs \ {r} : of'[s] = of[s] /\ by'[s] = by[s]
  BY <1>1 DEF Drop, Gain, TypeOK
<1>6. TypeOK'
  <2>1. of' \in [Refs -> Blocks \cup {NULL}] /\ by' \in [Refs -> Keepers \cup {NULL}]
    BY <1>1 DEF Drop, Gain, TypeOK
  <2> QED
    BY <1>1, <1>2, <1>3, <1>4, <2>1 DEF TypeOK, Labels
<1>7. Kept'
  BY <1>1, <1>2, <1>3, <1>5, MsgBlkAssumption DEF Kept, Blocks
<1>8. \A u \in Tasks \ {t} :
        pc'[u] = pc[u] /\ mb'[u] = mb[u] /\ db'[u] = db[u] /\ ref'[u] = ref[u]
  BY <1>1 DEF TypeOK
<1>9. \A u \in Tasks \ {t} : TaskOK(u)'
  <2>1. TouchesOnly(t, r)
    BY <1>1, <1>3, <1>5, <1>8, MsgBlkAssumption DEF TouchesOnly
  <2> QED
    BY <2>1, OthersOK
<1>10. Alone' /\ TaskOK(t)'
  <2>1. CASE pc[t] = "idle"
    <3>1. pc'[t] \in {"idle", "dettached"} /\ ref' = ref
      BY <1>1, <2>1 DEF TypeOK
    <3> QED
      BY <1>8, <3>1 DEF Alone, TaskOK
  <2>2. CASE pc[t] = "release"
    <3>1. UNCHANGED <<pc, mb, db, ref>>
      BY <1>1, <2>2
    <3>2. mb[t] \in Msgs \ pool' /\ \A s \in Refs : of'[s] # mb[t]
      <4>1. mb[t] \in Msgs \ pool /\ mb[t] # NULL /\ \A s \in Refs : of[s] # mb[t]
        BY <2>2, MsgBlkAssumption DEF TaskOK, Blocks
      <4> QED
        BY <1>2, <1>3, <1>5, <4>1
    <3> QED
      BY <2>2, <3>1, <3>2 DEF Alone, TaskOK
  <2> QED
    BY <1>1, <2>1, <2>2
<1>11. Reachable'
  <2>1. ASSUME NEW c \in Blocks \ pool', \A s \in Refs : of'[s] # c
        PROVE  c \notin pool /\ \A s \in Refs : of[s] # c
    <3>1. c # b
      BY <1>3, <1>4, <2>1 DEF RefsTo
    <3> QED
      BY <1>1, <1>3, <1>5, <2>1, <3>1
  <2>2. \A u \in Tasks : pc[u] = "release" => pc'[u] = "release" /\ mb'[u] = mb[u]
    BY <1>1, <1>8
  <2> QED
    BY <2>1, <2>2, ReachableStep
<1> QED
  BY <1>4, <1>6, <1>7, <1>9, <1>10, <1>11

\* A reference to a message less; the task goes on to release the message if
\* it was the last.
LEMMA MsgFreeStep ==
  ASSUME RefInv, NEW t \in Tasks, MsgFree(t)
  PROVE  RefInv'
<1> USE DEF RefInv
<1>1. PICK r \in Refs, b \in Msgs :
        /\ of[r] = b /\ by[r] = t /\ Drop(r)
        /\ count' = [count EXCEPT ![b] = @ - 1]
        /\ \/ count[b] = 1 /\ pc' = [pc EXCEPT ![t] = "release"] /\ mb' = [mb EXCEPT ![t] = b]
           \/ count[b] # 1 /\ UNCHANGED <<pc, mb>>
  BY DEF MsgFree, Keeps
<1>2. pc[t] = "idle" /\ pool' = pool /\ db' = db /\ ref' = ref /\ b \in Blocks /\ b # NULL
  BY MsgBlkAssumption DEF MsgFree, Blocks
<1>3. b \notin pool /\ \A u \in Tasks : pc[u] = "release" => mb[u] # b
  BY <1>1, <1>2, Referenced
<1>4. (RefsTo(b)' = {} <=> count[b] = 1) /\ Counted' /\ count' \in [Blocks -> Nat]
  <2>1. pool' \in {pool, pool \cup {b}} /\ (b \in pool' => count[b] = 1)
    BY <1>2, <1>3
  <2> QED
    BY <1>1, <1>2, <2>1, CountedPut
<1>5. /\ of'[r] = NULL /\ by'[r] = NULL
      /\ \A s \in Refs \ {r} : of'[s] = of[s] /\ by'[s] = by[s]
  BY <1>1 DEF Drop, Gain, TypeOK
<1>6. TypeOK'
  <2>1. of' \in [Refs -> Blocks \cup {NULL}] /\ by' \in [Refs -> Keepers \cup {NULL}]
    BY <1>1 DEF Drop, Gain, TypeOK
  <2> QED
    BY <1>1, <1>2, <1>4, <2>1 DEF TypeOK, Labels
<1>7. Kept'
  BY <1>1, <1>2, <1>5, MsgBlkAssumption DEF Kept, Blocks
<1>8. \A u \in Tasks \ {t} :
        pc'[u] = pc[u] /\ mb'[u] = mb[u] /\ db'[u] = db[u] /\ ref'[u] = ref[u]
  BY <1>1, <1>2 DEF TypeOK
<1>9. \A u \in Tasks \ {t} : TaskOK(u)'
  <2>1. TouchesOnly(t, r)
    BY <1>1, <1>2, <1>5, <1>8, MsgBlkAssumption DEF TouchesOnly
  <2> QED
    BY <2>1, OthersOK
<1>10. CASE count[b] = 1
  <2>1. pc'[t] = "release" /\ mb'[t] = b /\ \A s \in Refs : of'[s] # b
    BY <1>1, <1>4, <1>10 DEF RefsTo, TypeOK
  <2>2. Alone' /\ TaskOK(t)'
    BY <1>2, <1>3, <1>8, <2>1 DEF Alone, TaskOK
  <2>3. Releasing(b)'
    BY <2>1 DEF Releasing
  <2>4. ASSUME NEW c \in Blocks \ pool', \A s \in Refs : of'[s] # c
        PROVE  (c \notin pool /\ \A s \in Refs : of[s] # c) \/ Releasing(c)'
    BY <1>1, <1>2, <1>5, <2>3, <2>4
  <2>5. \A u \in Tasks : pc[u] = "release" => pc'[u] = "release" /\ mb'[u] = mb[u]
    BY <1>2, <1>8
  <2> QED
    BY <1>4, <1>6, <1>7, <1>9, <2>2, <2>4, <2>5, ReachableStep
<1>11. CASE count[b] # 1
  <2>1. UNCHANGED <<pc, mb>>
    BY <1>1, <1>11
  <2>2. Alone' /\ TaskOK(t)'
    BY <1>2, <2>1 DEF Alone, TaskOK
  <2>3. ASSUME NEW c \in Blocks \ pool', \A s \in Refs : of'[s] # c
        PROVE  c \notin pool /\ \A s \in Refs : of[s] # c
    <3>1. c # b
      BY <1>4, <1>11, <2>3 DEF RefsTo
    <3> QED
      BY <1>1, <1>2, <1>5, <2>3, <3>1
  <2> QED
    BY <1>4, <1>6, <1>7, <1>9, <2>1, <2>2, <2>3, ReachableStep
<1> QED
  BY <1>10, <1>11

\* The end of a release keeps the invariant.
LEMMA ReleaseEndStep ==
  ASSUME RefInv, NEW t \in Tasks, ReleaseEnd(t)
  PROVE  RefInv'
<1> USE DEF RefInv
<1> DEFINE m == mb[t]
<1>1. /\ pc[t] = "release" /\ m \in Msgs \ pool /\ m # NULL /\ pool' = pool \cup {m}
      /\ \A r \in Refs : of[r] # m /\ by[r] # m
      /\ UNCHANGED <<count, of, by>>
  BY MsgBlkAssumption DEF ReleaseEnd, ListOf, TaskOK, Blocks
<1>2. \A u \in Tasks \ {t} :
        pc'[u] = pc[u] /\ mb'[u] = mb[u] /\ db'[u] = db[u] /\ ref'[u] = ref[u]
  BY DEF ReleaseEnd, Return, TypeOK
<1>3. pc'[t] = "idle" /\ ref'[t] = NULL
  BY DEF ReleaseEnd, Return, TypeOK
<1>4. TypeOK'
  BY <1>1 DEF ReleaseEnd, Return, TypeOK, Labels, Blocks
<1>5. Counted' /\ Kept'
  BY <1>1 DEF Counted, Kept, RefsTo
<1>6. Alone' /\ TaskOK(t)'
  BY <1>2, <1>3 DEF Alone, TaskOK
<1>7. ASSUME NEW u \in Tasks \ {t}
      PROVE  TaskOK(u)'
  <2>1. pc[u] = "release" => mb[u] # m
    BY <1>1 DEF Alone
  <2> QED
    BY <1>1, <1>2, <2>1 DEF TaskOK
<1>8. Reachable'
  <2>1. ASSUME NEW c \in Blocks \ pool', \A s \in Refs : of'[s] # c
        PROVE  c \notin pool /\ \A s \in Refs : of[s] # c
    BY <1>1, <2>1
  <2>2. \A u \in Tasks : pc[u] = "release" =>
          (pc'[u] = "release" /\ mb'[u] = mb[u]) \/ mb[u] \in pool'
    BY <1>1, <1>2
  <2> QED
    BY <2>1, <2>2, ReachableStep
<1> QED
  BY <1>4, <1>5, <1>6, <1>7, <1>8

\* Steps that change no counter and no pool keep the invariant: attach up to
\* its callback, the dettach callback, and the queue.
LEMMA OtherStep ==
  ASSUME RefInv, NEW t \in Tasks,
         \/ Attach(t) \/ AttachCallback(t) \/ DettachCallback(t)
         \/ PushQueue(t) \/ Pop(t)
  PROVE  RefInv'
<1> USE DEF RefInv
<1>1. count' = count /\ pool' = pool /\ of' = of
  BY DEF Attach, AttachCallback, DettachCallback, PushQueue, Pop
<1>2. \A u \in Tasks \ {t} :
        pc'[u] = pc[u] /\ mb'[u] = mb[u] /\ db'[u] = db[u] /\ ref'[u] = ref[u]
  BY DEF Attach, AttachCallback, DettachCallback, PushQueue, Pop, ToAttach, Return, TypeOK
<1>3. pc[t] # "release" /\ pc'[t] \in {"idle", "attach", "link"}
  BY DEF Attach, AttachCallback, DettachCallback, PushQueue, Pop, ToAttach, Return, TypeOK
<1>4. Reachable'
  <2>1. \A u \in Tasks : pc[u] = "release" => pc'[u] = "release" /\ mb'[u] = mb[u]
    BY <1>2, <1>3
  <2> QED
    BY <1>1, <2>1, ReachableStep
<1>5. Counted'
  BY <1>1 DEF Counted, RefsTo
<1>6. ASSUME by' = by
      PROVE  Kept' /\ \A u \in Tasks \ {t} : TaskOK(u)'
  BY <1>1, <1>2, <1>6 DEF Kept, TaskOK
<1>7. CASE Attach(t)
  <2>1. PICK r \in Refs, s \in Refs, l \in Refs :
          /\ Keeps(t, r, Msgs) /\ Keeps(t, s, Datas) /\ Unused(l)
          /\ ToAttach(t, of[r], of[s], l)
    BY <1>7 DEF Attach
  <2>2. pc'[t] = "attach" /\ mb'[t] = of[r] /\ db'[t] = of[s] /\ ref'[t] = l /\ by' = by
    BY <1>7, <2>1 DEF Attach, ToAttach, TypeOK
  <2>3. TypeOK'
    BY <1>1, <2>1, <2>2 DEF ToAttach, Keeps, TypeOK, Labels
  <2>4. Alone' /\ TaskOK(t)'
    BY <1>1, <1>2, <2>1, <2>2 DEF Alone, TaskOK, Unused, Keeps
  <2> QED
    BY <1>4, <1>5, <1>6, <2>2, <2>3, <2>4
<1>8. CASE AttachCallback(t) \/ DettachCallback(t)
  <2>1. /\ by' = by
        /\ \/ Return(t)
           \/ pc[t] = "attach" /\ pc' = [pc EXCEPT ![t] = "link"] /\ UNCHANGED <<mb, db, ref>>
    BY <1>8 DEF AttachCallback, DettachCallback
  <2>2. TypeOK'
    BY <1>1, <2>1 DEF Return, TypeOK, Labels
  <2>3. /\ ref'[t] \in {NULL, ref[t]}
        /\ \/ pc'[t] = "idle"
           \/ pc[t] = "attach" /\ pc'[t] = "link" /\ mb' = mb /\ db' = db /\ ref' = ref
    BY <2>1 DEF Return, TypeOK
  <2>4. Alone' /\ TaskOK(t)'
    BY <1>1, <1>2, <1>3, <2>1, <2>3 DEF Alone, TaskOK
  <2> QED
    BY <1>4, <1>5, <1>6, <2>1, <2>2, <2>4
<1>9. CASE PushQueue(t) \/ Pop(t)
  <2>1. PICK r \in Refs, k \in Tasks \cup {Queue, Lost} :
          /\ by' = [by EXCEPT ![r] = k] /\ of[r] \in Msgs /\ by[r] \in {t, Queue} /\ k \in {t, Queue, Lost}
    <3>1. CASE PushQueue(t)
      BY <3>1 DEF PushQueue, TaskOK
    <3>2. CASE Pop(t)
      BY <3>2 DEF Pop, Kept
    <3> QED
      BY <1>9, <3>1, <3>2
  <2>2. pc'[t] = "idle" /\ ref'[t] \in {NULL, ref[t]}
    BY <1>9 DEF PushQueue, Pop, Return, TypeOK
  <2>3. TypeOK'
    BY <1>1, <1>9, <2>1 DEF PushQueue, Pop, Return, TypeOK, Labels, Keepers
  <2>4. Kept'
    BY <1>1, <2>1, MsgBlkAssumption DEF Kept, TypeOK, Blocks
  <2>5. Alone' /\ TaskOK(t)'
    BY <1>2, <2>2 DEF Alone, TaskOK
  <2>6. \A u \in Tasks \ {t} : TaskOK(u)'
    <3>1. TouchesOnly(t, r)
      BY <1>1, <1>2, <2>1, MsgBlkAssumption DEF TouchesOnly, TypeOK, Blocks
    <3> QED
      BY <3>1, OthersOK
  <2> QED
    BY <1>4, <1>5, <2>3, <2>4, <2>5, <2>6
<1> QED
  BY <1>7, <1>8, <1>9

LEMMA RefInit == Init => RefInv
<1> SUFFICES ASSUME Init
             PROVE  RefInv
  OBVIOUS
<1>1. TypeOK
  BY MsgBlkAssumption DEF Init, TypeOK, Labels, Blocks
<1>2. Counted /\ Kept /\ Reachable
  BY MsgBlkAssumption DEF Init, Counted, Kept, Reachable, RefsTo, Blocks
<1>3. Alone /\ \A t \in Tasks : TaskOK(t)
  BY DEF Init, Alone, TaskOK
<1> QED
  BY <1>1, <1>2, <1>3 DEF RefInv

LEMMA RefStep == RefInv /\ [Next]_vars => RefInv'
<1> SUFFICES ASSUME RefInv, [Next]_vars
             PROVE  RefInv'
  OBVIOUS
<1>1. CASE UNCHANGED vars
  <2> USE <1>1 DEF vars, RefInv
  <2>1. TypeOK' /\ Kept' /\ Alone'
    BY DEF TypeOK, Kept, Alone
  <2>2. Counted'
    BY DEF Counted, RefsTo
  <2>3. Reachable'
    BY ReachableStep
  <2>4. \A t \in Tasks : TaskOK(t)'
    BY DEF TaskOK
  <2> QED
    BY <2>1, <2>2, <2>3, <2>4
<1>2. ASSUME NEW t \in Tasks, OnData(t) \/ OnList(t) \/ OnMsg(t) \/ OnQueue(t)
      PROVE  RefInv'
  BY <1>2, MallocStep, GetStep, DataPutStep, MsgFreeStep, ReleaseEndStep, OtherStep
     DEF OnData, OnList, OnMsg, OnQueue
<1> QED
  BY <1>1, <1>2 DEF Next

\* The inductive invariant: the counter of a block outside the pool is the
\* number of references to it, and what a task works on stays referenced.
THEOREM RefInductive == Spec => []RefInv
BY RefInit, RefStep, PTL DEF Spec

\* A block that a task, the queue or a list keeps a reference to is not in its
\* pool, whatever the tasks do in whatever order.
THEOREM HeldNotFreeHolds == Spec => []HeldNotFree
<1>1. RefInv => HeldNotFree
  <2> SUFFICES ASSUME RefInv, NEW r \in Refs, of[r] # NULL
               PROVE  of[r] \notin pool /\ (by[r] \in Msgs => by[r] \notin pool)
    BY DEF HeldNotFree
  <2> QED
    BY Referenced DEF RefInv, Kept
<1> QED
  BY <1>1, RefInductive, PTL

\* A block outside its pool is referenced or being released.
THEOREM NotForgottenHolds == Spec => []NotForgotten
<1>1. RefInv => NotForgotten
  BY DEF RefInv, Reachable, NotForgotten
<1> QED
  BY <1>1, RefInductive, PTL

-----------------------------------------------------------------------------
(* The tasks take steps of MsgBlk only.                                    *)

LEMMA LibraryStep ==
  ASSUME NEW t \in Tasks, Library(t)
  PROVE  Next
BY DEF Library, Next, OnList, OnMsg

LEMMA SendStep ==
  ASSUME NEW t \in Tasks, Send(t)
  PROVE  [Next]_vars
<1>1. CASE SendData(t)
  BY <1>1 DEF SendData, Next, OnData
<1>2. CASE SendMsg(t)
  BY <1>2 DEF SendMsg, Next, OnMsg, OnData
<1>3. CASE SendRefused(t) \/ SendClaim(t)
  BY <1>3 DEF SendRefused, SendClaim
<1>4. CASE SendPut(t) \/ SendStored(t) \/ SendTimeout(t)
  BY <1>4 DEF SendPut, SendStored, SendTimeout, Next, OnQueue
<1>5. CASE SendFree(t)
  BY <1>5 DEF SendFree, Next, OnMsg
<1> QED
  BY <1>1, <1>2, <1>3, <1>4, <1>5 DEF Send

LEMMA SvcStep ==
  ASSUME Svc
  PROVE  [Next]_vars
<1>1. Consumer \in Tasks
  BY ActiveTaskAssumption
<1>2. CASE Begin \/ OnInit \/ OnLoop \/ PopEmpty \/ PopTimeout \/ OnMessage \/ OnSchedule
  BY <1>2 DEF Begin, OnInit, OnLoop, PopEmpty, PopTimeout, OnMessage, OnSchedule
<1>3. CASE PopMessage
  BY <1>1, <1>3 DEF PopMessage, Next, OnQueue
<1>4. CASE FreeMessage
  BY <1>1, <1>4 DEF FreeMessage, Next, OnMsg
<1> QED
  BY <1>2, <1>3, <1>4 DEF Svc

LEMMA BlockStep ==
  ASSUME [TaskNext]_allVars
  PROVE  [Next]_vars
<1>1. Senders \subseteq Tasks
  BY ActiveTaskAssumption
<1>2. Work => [Next]_vars
  BY <1>1, LibraryStep, SendStep, SvcStep DEF Work
<1> QED
  BY <1>2 DEF TaskNext, allVars

\* dft_task_svc, p_on_loop and process_mqtt_data use the blocks as MsgBlk lets
\* a program use them: they free and pass on only references they have, attach
\* a data block once, and leave the list of a message to one task.  (The variables
\* of MsgBlk stop changing when the queue or a pool fails.)
THEOREM TasksUseBlocks == TaskSpec => Spec
<1>1. TaskInit => Init
  BY DEF TaskInit
<1> QED
  BY <1>1, BlockStep, PTL DEF TaskSpec, Spec

\* So no block that a task, a list or the queue refers to is in its pool, until a
\* pop takes an unwritten slot, pushes overrun the ring, or a malloc succeeds on a
\* stale entry: what the variables of MsgBlk say after that is not what is there.
THEOREM TasksHoldNotFree == TaskSpec => [](~broken => HeldNotFree)
BY TasksUseBlocks, HeldNotFreeHolds, PTL

-----------------------------------------------------------------------------
(* The invariant TaskInv.                                                  *)

\* The names of tasks, blocks and keepers do not collide.
LEMMA TasksDistinct ==
  /\ Consumer \in Tasks /\ Consumer \notin Senders /\ Tasks = {Consumer} \cup Senders
  /\ NULL \notin Tasks \cup Blocks \cup Refs /\ Queue \notin Tasks /\ Lost \notin Tasks
  /\ Tasks \cap Msgs = {} /\ Datas \cap Msgs = {}
BY ActiveTaskAssumption, MsgBlkAssumption DEF Senders, Blocks

\* A step leaves task u where it is, and the references it keeps.
LeavesAlone(u) ==
  /\ pc'[u] = pc[u] /\ mb'[u] = mb[u] /\ db'[u] = db[u] /\ ref'[u] = ref[u]
  /\ at'[u] = at[u] /\ msg'[u] = msg[u] /\ dat'[u] = dat[u]
  /\ \A r \in Refs : (by[r] = u \/ by'[r] = u) => by'[r] = by[r] /\ of'[r] = of[r]

\* Then what the invariant says of u stays true.
LEMMA SenderLeft ==
  ASSUME NEW t \in Senders, SenderOK(t), LeavesAlone(t)
  PROVE  SenderOK(t)'
<1>1. Attaching(t)' <=> Attaching(t)
  BY DEF LeavesAlone, Attaching
<1> QED
  BY <1>1 DEF LeavesAlone, SenderOK

LEMMA ConsumerLeft ==
  ASSUME KeepsOne, ConsumerOK, LeavesAlone(Consumer)
  PROVE  KeepsOne' /\ ConsumerOK'
<1>1. KeptBy(Consumer)' = KeptBy(Consumer)
  BY DEF LeavesAlone, KeptBy
<1>2. ConsumerOK'
  BY DEF LeavesAlone, ConsumerOK
<1>3. \A r \in KeptBy(Consumer) : of'[r] = of[r]
  BY DEF LeavesAlone, KeptBy
<1>4. KeepsOne'
  BY <1>1, <1>3 DEF KeepsOne, LeavesAlone
<1> QED
  BY <1>2, <1>4

\* What has to be shown of a step of t.
LEMMA Assemble ==
  ASSUME TaskInv, RefInv', TaskTypeOK', AttachAlone', Loaded',
         NEW t \in Tasks, \A u \in Tasks \ {t} : LeavesAlone(u),
         t = Consumer => KeepsOne' /\ ConsumerOK',
         t \in Senders => SenderOK(t)'
  PROVE  TaskInv'
<1>1. \A u \in Senders : SenderOK(u)'
  BY SenderLeft, TasksDistinct DEF TaskInv
<1>2. KeepsOne' /\ ConsumerOK'
  BY ConsumerLeft, TasksDistinct DEF TaskInv
<1> QED
  BY <1>1, <1>2 DEF TaskInv

\* A referenced message keeps its list, or is still being attached to.
LEMMA LoadedStep ==
  ASSUME Loaded,
         \A r \in Refs : of'[r] \in Msgs =>
           \/ \E s \in Refs : of[s] = of'[r]
           \/ \E u \in Tasks : Attaching(u)' /\ mb'[u] = of'[r],
         \A r \in Refs : by[r] \in Msgs =>
           by'[r] = by[r] \/ \A s \in Refs : of'[s] # by[r],
         \A u \in Tasks : Attaching(u) =>
           (Attaching(u)' /\ mb'[u] = mb[u]) \/ \E s \in Refs : by'[s] = mb[u]
  PROVE  Loaded'
<1>1. SUFFICES ASSUME NEW r \in Refs, of'[r] \in Msgs,
                      ~\E u \in Tasks : Attaching(u)' /\ mb'[u] = of'[r]
               PROVE  \E s \in Refs : by'[s] = of'[r]
  BY DEF Loaded, ListOf
<1>2. PICK q \in Refs : of[q] = of'[r]
  BY <1>1
<1>3. CASE ListOf(of[q]) # {}
  BY <1>1, <1>2, <1>3 DEF ListOf
<1>4. CASE \E u \in Tasks : Attaching(u) /\ mb[u] = of[q]
  BY <1>1, <1>2, <1>4
<1> QED
  BY <1>1, <1>2, <1>3, <1>4 DEF Loaded

\* Steps outside the library.
LEMMA OwnStep ==
  ASSUME TaskInv, UNCHANGED vars, TaskTypeOK',
         NEW t \in Tasks,
         \A u \in Tasks \ {t} : at'[u] = at[u] /\ msg'[u] = msg[u] /\ dat'[u] = dat[u],
         t = Consumer => KeepsOne' /\ ConsumerOK',
         t \in Senders => SenderOK(t)'
  PROVE  TaskInv'
<1> USE DEF vars
<1>1. RefInv'
  BY RefStep DEF TaskInv
<1>2. AttachAlone' /\ Loaded'
  BY DEF TaskInv, AttachAlone, Loaded, Attaching, ListOf
<1>3. \A u \in Tasks \ {t} : LeavesAlone(u)
  BY DEF LeavesAlone
<1> QED
  BY <1>1, <1>2, <1>3, Assemble

\* msgblk_free of a task: what other tasks and the lists keep stays.
LEMMA FreeEffect ==
  ASSUME TaskInv, NEW t \in Tasks, MsgFree(t),
         \A u \in Tasks \ {t} : at'[u] = at[u] /\ msg'[u] = msg[u] /\ dat'[u] = dat[u]
  PROVE  /\ RefInv' /\ AttachAlone' /\ Loaded'
         /\ \A u \in Tasks \ {t} : LeavesAlone(u)
         /\ pc'[t] \in {"idle", "release"} /\ db' = db
<1> USE DEF TaskInv, RefInv
<1>1. PICK r \in Refs :
        /\ by[r] = t /\ Drop(r)
        /\ \/ pc' = [pc EXCEPT ![t] = "release"] /\ mb' = [mb EXCEPT ![t] = of[r]]
           \/ UNCHANGED <<pc, mb>>
  BY DEF MsgFree, Keeps
<1>2. pc[t] = "idle" /\ db' = db /\ ref' = ref
  BY DEF MsgFree
<1>3. /\ of'[r] = NULL /\ by'[r] = NULL
      /\ \A s \in Refs \ {r} : of'[s] = of[s] /\ by'[s] = by[s]
  BY <1>1 DEF Drop, Gain, TypeOK
<1>4. /\ \A u \in Tasks \ {t} : pc'[u] = pc[u] /\ mb'[u] = mb[u]
      /\ pc'[t] \in {"idle", "release"}
  BY <1>1, <1>2 DEF TypeOK
<1>5. \A u \in Tasks \ {t} : LeavesAlone(u)
  BY <1>1, <1>2, <1>3, <1>4, TasksDistinct DEF LeavesAlone
<1>6. \A u \in Tasks : (Attaching(u)' => Attaching(u) /\ u # t) /\ (Attaching(u) => Attaching(u)' /\ mb'[u] = mb[u])
  BY <1>2, <1>4 DEF Attaching
<1>7. AttachAlone'
  <2>1. SUFFICES ASSUME NEW u \in Tasks, Attaching(u)', NEW s \in Refs, of'[s] = mb'[u]
                 PROVE  by'[s] = u
    BY DEF AttachAlone
  <2>2. mb'[u] = mb[u] /\ mb[u] \in Msgs
    BY <1>6, <2>1 DEF TaskOK, Attaching
  <2>3. s # r
    BY <1>3, <2>1, <2>2, TasksDistinct DEF Blocks
  <2> QED
    BY <1>3, <1>6, <2>1, <2>2, <2>3 DEF AttachAlone
<1>8. Loaded'
  <2>1. \A s \in Refs : of'[s] \in Msgs => \E q \in Refs : of[q] = of'[s]
    BY <1>3, TasksDistinct DEF Blocks
  <2>2. \A s \in Refs : by[s] \in Msgs => by'[s] = by[s]
    BY <1>1, <1>3, TasksDistinct
  <2> QED
    BY <1>6, <2>1, <2>2, LoadedStep
<1>9. RefInv'
  BY MsgFreeStep
<1> QED
  BY <1>2, <1>4, <1>5, <1>7, <1>8, <1>9

\* The steps of dft_task_begin and dft_task_svc that use no block.
LEMMA SvcOwnStep ==
  ASSUME TaskInv, UNCHANGED broken,
         Begin \/ OnInit \/ OnLoop \/ PopEmpty \/ PopTimeout \/ OnMessage \/ OnSchedule
  PROVE  TaskInv'
<1>1. /\ UNCHANGED vars /\ msg' = msg /\ dat' = dat /\ at[Consumer] # "free"
      /\ at[Consumer] = "message" <=> at'[Consumer] = "free"
      /\ at'[Consumer] \in Places \ {"message"}
      /\ \A u \in Tasks \ {Consumer} : at'[u] = at[u]
      /\ at' \in [Tasks -> Places]
      /\ ret' \in Answers /\ line' = line
  <2>1. Consumer \in Tasks /\ LoopAnswers \subseteq Answers
        /\ ScheduleAnswers \subseteq Answers /\ MessageAnswers \subseteq Answers
    BY ActiveTaskAssumption
  <2>2. \A a \in Answers : After(a, "pop") \in {"loop", "end", "pop"}
                           /\ After(a, "loop") \in {"loop", "end"}
    BY DEF After, Answers
  <2>3. at \in [Tasks -> Places] /\ ret \in Answers
    BY DEF TaskInv, TaskTypeOK
  <2>4. CASE Begin \/ OnInit
    BY <2>1, <2>3, <2>4 DEF Begin, OnInit, At, Go, Places
  <2>5. CASE OnLoop
    BY <2>1, <2>2, <2>3, <2>5 DEF OnLoop, At, Go, Places
  <2>6. CASE PopEmpty \/ PopTimeout
    BY <2>1, <2>3, <2>6 DEF PopEmpty, PopTimeout, At, Go, Places
  <2>7. CASE OnMessage
    BY <2>1, <2>3, <2>7 DEF OnMessage, At, Go, Places
  <2>8. CASE OnSchedule
    BY <2>1, <2>2, <2>3, <2>8 DEF OnSchedule, At, Go, Places
  <2> QED
    BY <2>4, <2>5, <2>6, <2>7, <2>8
<1>2. TaskTypeOK'
  BY <1>1 DEF TaskInv, TaskTypeOK
<1>3. KeepsOne' /\ ConsumerOK'
  BY <1>1 DEF TaskInv, KeepsOne, ConsumerOK, KeptBy, vars
<1> QED
  BY <1>1, <1>2, <1>3, OwnStep, TasksDistinct

\* A message is popped: the consumer has the reference of the queue, and only it.
LEMMA PopStep ==
  ASSUME TaskInv, UNCHANGED broken, PopMessage
  PROVE  TaskInv'
<1> USE DEF TaskInv, RefInv
<1>1. PICK q \in Refs : by[q] = Queue /\ by' = [by EXCEPT ![q] = Consumer]
  BY DEF PopMessage, Pop
<1>2. /\ by'[q] = Consumer /\ \A r \in Refs \ {q} : by'[r] = by[r]
      /\ msg' = [msg EXCEPT ![Consumer] = of[q]]
  <2>1. by'[q] = Consumer /\ \A r \in Refs \ {q} : by'[r] = by[r]
    BY <1>1 DEF TypeOK
  <2> QED
    BY <1>1, <2>1, TasksDistinct DEF PopMessage
<1>3. /\ at[Consumer] \in {"pop", "delay"} /\ pc[Consumer] = "idle"
      /\ at' = [at EXCEPT ![Consumer] = "message"] /\ UNCHANGED <<dat, ret>>
      /\ UNCHANGED <<count, pool, of, pc, mb, db, ref>>
  BY DEF PopMessage, Pop, Attempt, At, Go
<1>4. of[q] \in Msgs
  BY <1>1 DEF Kept
<1>5. TaskTypeOK'
  <2>1. line' \in Seq(Refs \cup {NULL})
    BY DEF PopMessage, TaskTypeOK
  <2> QED
    BY <1>2, <1>3, <1>4, <2>1 DEF TaskTypeOK, Places
<1>6. at'[Consumer] = "message" /\ msg'[Consumer] = of[q]
  BY <1>2, <1>3, TasksDistinct DEF TaskTypeOK
<1>7. KeepsOne'
  <2>1. KeptBy(Consumer) = {}
    BY <1>3 DEF KeepsOne
  <2>2. KeptBy(Consumer)' = {q}
    BY <1>2, <2>1 DEF KeptBy
  <2> QED
    BY <1>3, <1>6, <2>2 DEF KeepsOne
<1>8. ConsumerOK'
  BY <1>3, <1>6 DEF ConsumerOK
<1>9. \A u \in Tasks \ {Consumer} : LeavesAlone(u)
  BY <1>1, <1>2, <1>3, TasksDistinct DEF LeavesAlone, TaskTypeOK
<1>10. AttachAlone'
  BY <1>1, <1>2, <1>3, TasksDistinct DEF AttachAlone, Attaching
<1>11. Loaded'
  BY <1>1, <1>2, <1>3, TasksDistinct, MsgBlkAssumption, LoadedStep DEF Attaching
<1>12. RefInv'
  <2>1. Pop(Consumer)
    BY DEF PopMessage
  <2> QED
    BY <2>1, OtherStep, TasksDistinct
<1> QED
  BY <1>5, <1>7, <1>8, <1>9, <1>10, <1>11, <1>12, Assemble, TasksDistinct

\* The message is freed: the consumer has no reference any more.
LEMMA FreeStep ==
  ASSUME TaskInv, UNCHANGED broken, FreeMessage
  PROVE  TaskInv'
<1>1. /\ MsgFree(Consumer) /\ at[Consumer] = "free" /\ dat' = dat /\ ret' = "ok"
      /\ line' = line
      /\ at' = [at EXCEPT ![Consumer] = After(ret, "schedule")]
      /\ msg' = [msg EXCEPT ![Consumer] = NULL]
  BY DEF FreeMessage, At, Go
<1>2. After(ret, "schedule") \in {"loop", "end", "schedule"}
  BY DEF TaskInv, TaskTypeOK, Answers, After
<1>3. TaskTypeOK'
  BY <1>1, <1>2 DEF TaskInv, TaskTypeOK, Places, Answers
<1>4. \A u \in Tasks \ {Consumer} : at'[u] = at[u] /\ msg'[u] = msg[u] /\ dat'[u] = dat[u]
  BY <1>1 DEF TaskInv, TaskTypeOK
<1>5. /\ RefInv' /\ AttachAlone' /\ Loaded' /\ pc'[Consumer] \in {"idle", "release"}
      /\ \A u \in Tasks \ {Consumer} : LeavesAlone(u)
  BY <1>1, <1>4, FreeEffect, TasksDistinct
<1>6. at'[Consumer] \in {"loop", "end", "schedule"} /\ msg'[Consumer] = NULL
  BY <1>1, <1>2, TasksDistinct DEF TaskInv, TaskTypeOK
<1>7. KeptBy(Consumer)' = {}
  <2>1. PICK r \in Refs : by[r] = Consumer /\ Drop(r)
    BY <1>1 DEF MsgFree, Keeps
  <2>2. by'[r] = NULL /\ \A s \in Refs \ {r} : by'[s] = by[s]
    BY <2>1 DEF TaskInv, RefInv, TypeOK, Drop, Gain
  <2>3. KeptBy(Consumer) = {r}
    BY <1>1, <2>1 DEF TaskInv, KeepsOne, KeptBy
  <2> QED
    BY <2>2, <2>3, TasksDistinct DEF KeptBy
<1>8. KeepsOne' /\ ConsumerOK'
  BY <1>1, <1>5, <1>6, <1>7 DEF KeepsOne, ConsumerOK, TaskInv
<1> QED
  BY <1>3, <1>5, <1>8, Assemble, TasksDistinct

\* datablk_malloc of a sender: it has a reference to its data block, or ends.
LEMMA SendDataStep ==
  ASSUME TaskInv, UNCHANGED broken, NEW t \in Senders, SendData(t)
  PROVE  TaskInv'
<1> USE DEF TaskInv, RefInv
<1>1. t \in Tasks /\ t # Consumer /\ t # NULL /\ t \notin Msgs
  BY TasksDistinct
<1>2. at[t] = "loop" /\ pc[t] = "idle" /\ UNCHANGED <<msg, ret, line>>
  BY DEF SendData, At
<1>3. CASE UNCHANGED <<vars, dat>> /\ Go(t, IF t \in Producers THEN "end" ELSE "loop")
  <2>1. at' = [at EXCEPT ![t] = IF t \in Producers THEN "end" ELSE "loop"]
    BY <1>3 DEF Go
  <2>2. TaskTypeOK'
    BY <1>2, <1>3, <2>1 DEF TaskTypeOK, Places
  <2>3. at'[t] # "malloc" /\ \A u \in Tasks \ {t} : at'[u] = at[u]
    BY <1>1, <2>1 DEF TaskTypeOK
  <2>4. SenderOK(t)'
    BY <1>2, <1>3, <2>3 DEF SenderOK, Attaching, vars
  <2> QED
    BY <1>1, <1>2, <1>3, <2>2, <2>3, <2>4, OwnStep
<1>4. ASSUME DataMalloc(t), NEW d \in Datas, d \in pool \ pool',
             dat' = [dat EXCEPT ![t] = d], Go(t, "malloc")
      PROVE  TaskInv'
  <2>1. PICK r \in Refs : Unused(r) /\ Gain(r, d, t) /\ UNCHANGED <<pc, mb, db, ref>>
    BY <1>4 DEF DataMalloc
  <2>2. /\ of[r] = NULL /\ of'[r] = d /\ by[r] = NULL /\ by'[r] = t
        /\ \A s \in Refs \ {r} : of'[s] = of[s] /\ by'[s] = by[s]
    BY <2>1 DEF Unused, Gain, TypeOK, Kept
  <2>3. /\ at'[t] = "malloc" /\ dat'[t] = d
        /\ \A u \in Tasks \ {t} : at'[u] = at[u] /\ dat'[u] = dat[u]
    BY <1>1, <1>4 DEF Go, TaskTypeOK
  <2>4. TaskTypeOK'
    BY <1>2, <1>4 DEF Go, TaskTypeOK, Places
  <2>5. d # NULL /\ d \notin Msgs
    BY TasksDistinct DEF Blocks
  <2>6. SenderOK(t)'
    <3>1. msg'[t] = msg[t] /\ ref'[t] = ref[t]
      BY <1>2, <2>1
    <3>2. msg[t] # NULL => \E s \in Refs \ {r} : by[s] = t /\ of[s] = msg[t] /\ ref[t] # s
      BY <2>2 DEF SenderOK
    <3>3. ~Attaching(t)' => db'[t] = NULL
      BY <2>1 DEF SenderOK, Attaching
    <3> QED
      BY <2>2, <2>3, <2>5, <3>1, <3>2, <3>3 DEF SenderOK
  <2>7. \A u \in Tasks \ {t} : LeavesAlone(u)
    BY <1>1, <1>2, <2>1, <2>2, <2>3, TasksDistinct DEF LeavesAlone
  <2>8. AttachAlone'
    <3>1. \A u \in Tasks : Attaching(u) => mb[u] \in Msgs
      BY DEF TaskOK, Attaching
    <3> QED
      BY <2>1, <2>2, <2>5, <3>1 DEF AttachAlone, Attaching
  <2>9. Loaded'
    BY <2>1, <2>2, <2>5, TasksDistinct, LoadedStep DEF Attaching, Blocks
  <2>10. RefInv'
    BY <1>1, <1>4, MallocStep
  <2> QED
    BY <1>1, <2>4, <2>6, <2>7, <2>8, <2>9, <2>10, Assemble
<1> QED
  BY <1>3, <1>4 DEF SendData

\* msgblk_malloc of a sender, up to the attach callback: it has a reference to
\* the message, and nobody else has.
LEMMA SendMsgStep ==
  ASSUME TaskInv, UNCHANGED broken, NEW t \in Senders, at[t] = "malloc",
         UNCHANGED <<dat, ret, line>>,
         MsgMalloc(t), db'[t] = dat[t], NEW m \in Msgs, m \in pool \ pool',
         msg' = [msg EXCEPT ![t] = m], Go(t, "put")
  PROVE  TaskInv'
<1> USE DEF TaskInv, RefInv
<1>1. t \in Tasks /\ t # Consumer /\ t # NULL /\ t \notin Msgs
  BY TasksDistinct
<1>2. pc[t] = "idle" /\ dat[t] # NULL /\ db[t] = NULL
  BY DEF MsgMalloc, SenderOK, Attaching
<1>3. PICK r \in Refs, s \in Refs, l \in Refs :
        /\ Unused(r) /\ Gain(r, m, t) /\ Keeps(t, s, Datas) /\ l # r
        /\ ToAttach(t, m, of[s], l) /\ of[s] = dat[t]
  <2>1. PICK r \in Refs :
          /\ Unused(r) /\ Gain(r, m, t)
          /\ \/ UNCHANGED <<pc, mb, db, ref>>
             \/ \E s, l \in Refs :
                  Keeps(t, s, Datas) /\ l # r /\ ToAttach(t, m, of[s], l)
    BY DEF MsgMalloc
  <2>2. db'[t] # db[t]
    BY <1>2
  <2>3. PICK s \in Refs, l \in Refs :
          Keeps(t, s, Datas) /\ l # r /\ ToAttach(t, m, of[s], l)
    BY <2>1, <2>2
  <2>4. of[s] = dat[t]
    BY <1>1, <2>3 DEF ToAttach, TypeOK
  <2> QED
    BY <2>1, <2>3, <2>4
<1>4. /\ of[r] = NULL /\ of'[r] = m /\ by[r] = NULL /\ by'[r] = t
      /\ \A q \in Refs \ {r} : of'[q] = of[q] /\ by'[q] = by[q]
  BY <1>3 DEF Unused, Gain, TypeOK, Kept
<1>5. /\ pc'[t] = "attach" /\ mb'[t] = m /\ ref'[t] = l
      /\ \A u \in Tasks \ {t} :
           pc'[u] = pc[u] /\ mb'[u] = mb[u] /\ db'[u] = db[u] /\ ref'[u] = ref[u]
  BY <1>1, <1>3 DEF ToAttach, TypeOK
<1>6. /\ at'[t] = "put" /\ msg'[t] = m
      /\ \A u \in Tasks \ {t} : at'[u] = at[u] /\ msg'[u] = msg[u]
  BY <1>1 DEF Go, TaskTypeOK
<1>7. TaskTypeOK'
  BY DEF Go, TaskTypeOK, Places
<1>8. SenderOK(t)'
  <2>1. s # r /\ by[s] = t
    BY <1>3, <1>4, <1>1 DEF Keeps
  <2> QED
    BY <1>3, <1>4, <1>5, <1>6, <2>1 DEF SenderOK, Attaching
<1>9. \A u \in Tasks \ {t} : LeavesAlone(u)
  BY <1>1, <1>4, <1>5, <1>6, TasksDistinct DEF LeavesAlone
<1>10. m # NULL /\ \A q \in Refs : of[q] # m
  <2>1. m # NULL /\ m \in Blocks
    BY TasksDistinct DEF Blocks
  <2> QED
    BY <2>1, Referenced
<1>11. \A u \in Tasks : Attaching(u) => mb[u] # m /\ u # t
  <2>1. ASSUME NEW u \in Tasks, Attaching(u), mb[u] = m
        PROVE  FALSE
    BY <1>10, <2>1 DEF TaskOK, Attaching
  <2> QED
    BY <1>2, <2>1 DEF Attaching
<1>12. AttachAlone'
  BY <1>4, <1>5, <1>10, <1>11 DEF AttachAlone, Attaching
<1>13. Loaded'
  <2>1. Attaching(t)' /\ \A u \in Tasks : Attaching(u) => Attaching(u)' /\ mb'[u] = mb[u]
    BY <1>5, <1>11 DEF Attaching
  <2>2. \A q \in Refs : by[q] \in Msgs => by'[q] = by[q]
    BY <1>4, TasksDistinct DEF Blocks
  <2>3. \A q \in Refs : (\E p \in Refs : of[p] = of'[q]) \/ of'[q] = mb'[t]
    BY <1>4, <1>5
  <2> QED
    BY <1>1, <2>1, <2>2, <2>3, LoadedStep
<1>14. RefInv'
  BY <1>1, MallocStep
<1> QED
  BY <1>1, <1>7, <1>8, <1>9, <1>12, <1>13, <1>14, Assemble

\* Without a message: process_mqtt_data frees its data block.
LEMMA SendNoMsgStep ==
  ASSUME TaskInv, UNCHANGED broken, NEW t \in Senders, at[t] = "malloc",
         UNCHANGED <<msg, ret, line>>,
         UNCHANGED vars \/ DataFree(t),
         Go(t, "loop"), dat' = [dat EXCEPT ![t] = NULL]
  PROVE  TaskInv'
<1> USE DEF TaskInv, RefInv
<1>1. t \in Tasks /\ t # Consumer /\ t # NULL /\ t \notin Msgs
  BY TasksDistinct
<1>2. /\ at'[t] = "loop" /\ dat'[t] = NULL
      /\ \A u \in Tasks \ {t} : at'[u] = at[u] /\ dat'[u] = dat[u]
  BY <1>1 DEF Go, TaskTypeOK
<1>3. TaskTypeOK'
  BY DEF Go, TaskTypeOK, Places
<1>4. CASE UNCHANGED vars
  <2>1. SenderOK(t)'
    BY <1>2, <1>4 DEF SenderOK, Attaching, vars
  <2> QED
    BY <1>1, <1>2, <1>3, <1>4, <2>1, OwnStep
<1>5. CASE DataFree(t)
  <2>1. PICK r \in Refs : by[r] = t /\ of[r] \in Datas /\ Drop(r)
    BY <1>5 DEF DataFree, Keeps
  <2>2. UNCHANGED <<pc, mb, db, ref>>
    BY <1>5 DEF DataFree
  <2>3. /\ of'[r] = NULL /\ by'[r] = NULL
        /\ \A s \in Refs \ {r} : of'[s] = of[s] /\ by'[s] = by[s]
    BY <2>1 DEF Drop, Gain, TypeOK
  <2>4. SenderOK(t)'
    <3>1. msg[t] # NULL => \E s \in Refs \ {r} : by[s] = t /\ of[s] = msg[t] /\ ref[t] # s
      BY <1>1, <2>1, TasksDistinct DEF SenderOK, TaskTypeOK
    <3>2. ~Attaching(t)' => db'[t] = NULL
      BY <2>2 DEF SenderOK, Attaching
    <3> QED
      BY <1>2, <2>2, <2>3, <3>1, <3>2 DEF SenderOK
  <2>5. \A u \in Tasks \ {t} : LeavesAlone(u)
    BY <1>1, <1>2, <2>1, <2>2, <2>3, TasksDistinct DEF LeavesAlone
  <2>6. AttachAlone'
    <3>1. \A u \in Tasks : Attaching(u) => mb[u] \in Msgs
      BY DEF TaskOK, Attaching
    <3> QED
      BY <2>2, <2>3, <3>1, TasksDistinct DEF AttachAlone, Attaching, Blocks
  <2>7. Loaded'
    BY <1>1, <2>1, <2>2, <2>3, TasksDistinct, LoadedStep DEF Attaching, Blocks
  <2>8. RefInv'
    BY <1>1, <1>5, DataPutStep
  <2> QED
    BY <1>1, <1>3, <2>4, <2>5, <2>6, <2>7, <2>8, Assemble
<1> QED
  BY <1>4, <1>5

\* put_message_next to a task without a queue.
LEMMA SendRefusedStep ==
  ASSUME TaskInv, UNCHANGED broken, NEW t \in Senders, SendRefused(t)
  PROVE  TaskInv'
<1> USE DEF TaskInv
<1>1. t \in Tasks /\ t # Consumer
  BY TasksDistinct
<1>2. TaskTypeOK'
  BY DEF SendRefused, Go, TaskTypeOK, Places
<1>3. /\ at'[t] = "loop" /\ msg'[t] = NULL /\ dat'[t] = NULL
      /\ \A u \in Tasks \ {t} : at'[u] = at[u] /\ msg'[u] = msg[u] /\ dat'[u] = dat[u]
  BY <1>1 DEF SendRefused, Go, TaskTypeOK
<1>4. UNCHANGED vars
  BY DEF SendRefused
<1>5. SenderOK(t)'
  BY <1>3, <1>4 DEF SenderOK, Attaching, vars
<1> QED
  BY <1>1, <1>2, <1>3, <1>4, <1>5, OwnStep

\* The queue gets a reference beside the one of the sender.
LEMMA SendPutStep ==
  ASSUME TaskInv, UNCHANGED broken, NEW t \in Senders, SendPut(t)
  PROVE  TaskInv'
<1> USE DEF TaskInv, RefInv
<1>1. t \in Tasks /\ t # Consumer /\ t # NULL /\ t \notin Msgs
  BY TasksDistinct
<1>2. PICK r \in Refs, s \in Refs :
        /\ by[r] = t /\ of[r] \in Msgs /\ Unused(s) /\ Gain(s, of[r], t)
        /\ ref' = [ref EXCEPT ![t] = s]
  BY DEF SendPut, PushRef, Keeps
<1>3. /\ at[t] = "put" /\ UNCHANGED <<at, msg, dat, ret, line, mb, db>>
      /\ pc[t] = "idle" /\ pc' = [pc EXCEPT ![t] = "push"]
  BY DEF SendPut, PushRef, At, taskVars
<1>4. /\ of[s] = NULL /\ of'[s] = of[r] /\ by[s] = NULL /\ by'[s] = t
      /\ \A q \in Refs \ {s} : of'[q] = of[q] /\ by'[q] = by[q]
  BY <1>2 DEF Unused, Gain, TypeOK, Kept
<1>5. /\ pc'[t] = "push" /\ ref'[t] = s
      /\ \A u \in Tasks \ {t} : pc'[u] = pc[u] /\ ref'[u] = ref[u]
  BY <1>1, <1>2, <1>3 DEF TypeOK
<1>6. \A u \in Tasks : (Attaching(u)' <=> Attaching(u)) /\ (Attaching(u) => u # t)
  BY <1>3, <1>5 DEF Attaching
<1>7. TaskTypeOK'
  BY <1>3 DEF TaskTypeOK
<1>8. SenderOK(t)'
  <2>1. msg[t] # NULL => \E q \in Refs \ {s} : by[q] = t /\ of[q] = msg[t]
    BY <1>4 DEF SenderOK
  <2>2. dat[t] # NULL => \E q \in Refs \ {s} : by[q] = t /\ of[q] = dat[t]
    BY <1>4 DEF SenderOK
  <2> QED
    BY <1>1, <1>3, <1>4, <1>5, <1>6, <2>1, <2>2 DEF SenderOK
<1>9. \A u \in Tasks \ {t} : LeavesAlone(u)
  BY <1>1, <1>3, <1>4, <1>5, TasksDistinct DEF LeavesAlone
<1>10. AttachAlone'
  BY <1>2, <1>3, <1>4, <1>6 DEF AttachAlone
<1>11. Loaded'
  BY <1>1, <1>2, <1>3, <1>4, <1>6, TasksDistinct, LoadedStep DEF Blocks
<1>12. RefInv'
  <2>1. PushRef(t)
    BY DEF SendPut
  <2> QED
    BY <1>1, <2>1, GetStep
<1> QED
  BY <1>1, <1>7, <1>8, <1>9, <1>10, <1>11, <1>12, Assemble

\* The push claims a position: only where the sender is changes.
LEMMA SendClaimStep ==
  ASSUME TaskInv, UNCHANGED broken, NEW t \in Senders, SendClaim(t)
  PROVE  TaskInv'
<1> USE DEF TaskInv
<1>1. t \in Tasks /\ t # Consumer
  BY TasksDistinct
<1>2. ref[t] \in Refs \cup {NULL}
  BY <1>1 DEF RefInv, TypeOK
<1>3. TaskTypeOK'
  <2>1. line' \in Seq(Refs \cup {NULL})
    BY <1>2 DEF SendClaim, TaskTypeOK
  <2> QED
    BY <2>1 DEF SendClaim, Go, TaskTypeOK, Places
<1>4. /\ at'[t] = "store" /\ msg' = msg /\ dat' = dat
      /\ \A u \in Tasks \ {t} : at'[u] = at[u]
  BY <1>1 DEF SendClaim, Go, TaskTypeOK
<1>5. UNCHANGED vars
  BY DEF SendClaim
<1>6. SenderOK(t)'
  BY <1>4, <1>5 DEF SenderOK, Attaching, vars
<1> QED
  BY <1>1, <1>3, <1>4, <1>5, <1>6, OwnStep

\* The queue has its reference, or nobody.
LEMMA SendPushedStep ==
  ASSUME TaskInv, UNCHANGED broken, NEW t \in Senders, SendStored(t) \/ SendTimeout(t)
  PROVE  TaskInv'
<1> USE DEF TaskInv, RefInv
<1>1. t \in Tasks /\ t # Consumer /\ t # NULL /\ t \notin Msgs
  BY TasksDistinct
<1>2. /\ ref[t] \in Refs /\ by[ref[t]] = t /\ of[ref[t]] \in Msgs /\ pc[t] = "push"
      /\ PushQueue(t) /\ UNCHANGED <<ret, line>>
  BY <1>1 DEF SendStored, SendTimeout, PushQueue, TaskOK
<1>3. PICK k \in {Queue, Lost} : by' = [by EXCEPT ![ref[t]] = k]
  BY <1>2 DEF PushQueue
<1>4. of' = of /\ Return(t)
  BY <1>2 DEF PushQueue
<1>5. /\ by'[ref[t]] = k /\ k \notin Tasks
      /\ \A q \in Refs \ {ref[t]} : by'[q] = by[q]
  BY <1>2, <1>3, TasksDistinct DEF TypeOK
<1>6. /\ pc'[t] = "idle" /\ db'[t] = NULL /\ ref'[t] = NULL
      /\ \A u \in Tasks \ {t} :
           pc'[u] = pc[u] /\ mb'[u] = mb[u] /\ db'[u] = db[u] /\ ref'[u] = ref[u]
  BY <1>1, <1>4 DEF Return, TypeOK
<1>7. /\ at'[t] \in {"free", "loop"}
      /\ \/ msg'[t] = msg[t] /\ dat'[t] = dat[t]
         \/ msg'[t] = NULL /\ dat'[t] = NULL
      /\ \A u \in Tasks \ {t} : at'[u] = at[u] /\ msg'[u] = msg[u] /\ dat'[u] = dat[u]
  BY <1>1 DEF SendStored, SendTimeout, Go, TaskTypeOK
<1>8. TaskTypeOK'
  BY <1>2 DEF SendStored, SendTimeout, Go, TaskTypeOK, Places
<1>9. \A u \in Tasks : (Attaching(u)' <=> Attaching(u)) /\ (Attaching(u) => u # t)
  BY <1>2, <1>6 DEF Attaching
<1>10. SenderOK(t)'
  <2>1. dat[t] # NULL => \E q \in Refs \ {ref[t]} : by[q] = t /\ of[q] = dat[t]
    BY <1>2, TasksDistinct DEF SenderOK, TaskTypeOK
  <2> QED
    BY <1>4, <1>5, <1>6, <1>7, <2>1, TasksDistinct DEF SenderOK
<1>11. \A u \in Tasks \ {t} : LeavesAlone(u)
  BY <1>1, <1>2, <1>4, <1>5, <1>6, <1>7, TasksDistinct DEF LeavesAlone
<1>12. AttachAlone'
  BY <1>2, <1>4, <1>5, <1>6, <1>9 DEF AttachAlone
<1>13. Loaded'
  BY <1>1, <1>2, <1>4, <1>5, <1>6, <1>9, TasksDistinct, LoadedStep
<1>14. RefInv'
  BY <1>1, <1>2, OtherStep
<1> QED
  BY <1>1, <1>8, <1>10, <1>11, <1>12, <1>13, <1>14, Assemble

\* The sender's own reference is freed.
LEMMA SendFreeStep ==
  ASSUME TaskInv, UNCHANGED broken, NEW t \in Senders, SendFree(t)
  PROVE  TaskInv'
<1> USE DEF TaskInv
<1>1. t \in Tasks /\ t # Consumer
  BY TasksDistinct
<1>2. TaskTypeOK'
  BY DEF SendFree, Go, TaskTypeOK, Places
<1>3. /\ at'[t] = "loop" /\ msg'[t] = NULL /\ dat'[t] = NULL
      /\ \A u \in Tasks \ {t} : at'[u] = at[u] /\ msg'[u] = msg[u] /\ dat'[u] = dat[u]
  BY <1>1 DEF SendFree, Go, TaskTypeOK
<1>4. /\ RefInv' /\ AttachAlone' /\ Loaded' /\ db' = db
      /\ \A u \in Tasks \ {t} : LeavesAlone(u)
  BY <1>1, <1>3, FreeEffect DEF SendFree
<1>5. db[t] = NULL
  BY DEF SendFree, MsgFree, SenderOK, Attaching
<1>6. SenderOK(t)'
  BY <1>3, <1>4, <1>5 DEF SenderOK
<1> QED
  BY <1>1, <1>2, <1>4, <1>6, Assemble

\* The attach callback answers: nothing a property speaks of changes.
LEMMA AttachCallbackStep ==
  ASSUME TaskInv, NEW t \in Tasks, UNCHANGED taskVars,
         AttachCallback(t), pc'[t] = "link"
  PROVE  TaskInv'
<1> USE DEF TaskInv, RefInv, taskVars
<1>1. /\ pc[t] = "attach" /\ UNCHANGED <<mb, db, ref, count, pool, of, by>>
      /\ \A u \in Tasks \ {t} : pc'[u] = pc[u]
  <2>1. ~Return(t)
    BY DEF Return, TypeOK
  <2> QED
    BY <2>1 DEF AttachCallback, TypeOK
<1>2. \A u \in Tasks : Attaching(u)' <=> Attaching(u)
  BY <1>1 DEF Attaching
<1>3. TaskTypeOK' /\ (t \in Senders => SenderOK(t)')
  BY <1>1, <1>2 DEF TaskTypeOK, SenderOK
<1>4. t # Consumer
  BY <1>1 DEF ConsumerOK
<1>5. AttachAlone' /\ Loaded'
  BY <1>1, <1>2 DEF AttachAlone, Loaded, ListOf
<1>6. \A u \in Tasks \ {t} : LeavesAlone(u)
  BY <1>1 DEF LeavesAlone
<1>7. RefInv'
  BY OtherStep
<1> QED
  BY <1>3, <1>4, <1>5, <1>6, <1>7, Assemble

\* The list of the message gets its reference.
LEMMA AttachLinkStep ==
  ASSUME TaskInv, NEW t \in Tasks, UNCHANGED taskVars, AttachLink(t)
  PROVE  TaskInv'
<1> USE DEF TaskInv, RefInv, taskVars
<1>1. /\ pc[t] = "link" /\ ref[t] \in Refs /\ mb[t] \in Msgs /\ db[t] \in Datas
      /\ of[ref[t]] = NULL /\ Gain(ref[t], db[t], mb[t]) /\ Return(t)
  BY DEF AttachLink, TaskOK
<1>2. /\ of'[ref[t]] = db[t] /\ by'[ref[t]] = mb[t] /\ by[ref[t]] = NULL
      /\ \A q \in Refs \ {ref[t]} : of'[q] = of[q] /\ by'[q] = by[q]
  BY <1>1 DEF Gain, TypeOK, Kept
<1>3. /\ pc'[t] = "idle" /\ db'[t] = NULL /\ ref'[t] = NULL
      /\ \A u \in Tasks \ {t} :
           pc'[u] = pc[u] /\ mb'[u] = mb[u] /\ db'[u] = db[u] /\ ref'[u] = ref[u]
  BY <1>1 DEF Return, TypeOK
<1>4. \A u \in Tasks : (Attaching(u)' <=> Attaching(u) /\ u # t)
  BY <1>1, <1>3 DEF Attaching
<1>5. t # Consumer
  BY <1>1 DEF ConsumerOK
<1>6. TaskTypeOK'
  BY DEF TaskTypeOK
<1>7. t \in Senders => SenderOK(t)'
  BY <1>1, <1>2, <1>3, TasksDistinct DEF SenderOK
<1>8. \A u \in Tasks \ {t} : LeavesAlone(u)
  BY <1>1, <1>2, <1>3, TasksDistinct DEF LeavesAlone
<1>9. AttachAlone'
  <2>1. \A u \in Tasks : Attaching(u) => mb[u] \in Msgs
    BY DEF TaskOK, Attaching
  <2> QED
    BY <1>1, <1>2, <1>3, <1>4, <2>1, TasksDistinct DEF AttachAlone
<1>10. Loaded'
  <2>1. \A q \in Refs : of'[q] \in Msgs => \E s \in Refs : of[s] = of'[q]
    BY <1>1, <1>2, TasksDistinct
  <2>2. \A q \in Refs : by[q] \in Msgs => by'[q] = by[q]
    BY <1>2, TasksDistinct DEF Blocks
  <2>3. \A u \in Tasks : Attaching(u) =>
          (Attaching(u)' /\ mb'[u] = mb[u]) \/ \E s \in Refs : by'[s] = mb[u]
    BY <1>1, <1>2, <1>3, <1>4
  <2> QED
    BY <2>1, <2>2, <2>3, LoadedStep
<1>11. RefInv'
  BY GetStep
<1> QED
  BY <1>5, <1>6, <1>7, <1>8, <1>9, <1>10, <1>11, Assemble

\* A data block of a message without references is freed.
LEMMA ReleaseDataStep ==
  ASSUME TaskInv, NEW t \in Tasks, UNCHANGED taskVars, ReleaseData(t)
  PROVE  TaskInv'
<1> USE DEF TaskInv, RefInv, taskVars
<1>1. PICK r \in Refs : by[r] = mb[t] /\ Drop(r)
  BY DEF ReleaseData, ListOf
<1>2. /\ pc[t] = "release" /\ mb[t] \in Msgs /\ \A q \in Refs : of[q] # mb[t]
      /\ UNCHANGED <<pc, mb, db, ref>>
  BY DEF ReleaseData, TaskOK
<1>3. /\ of'[r] = NULL /\ by'[r] = NULL
      /\ \A q \in Refs \ {r} : of'[q] = of[q] /\ by'[q] = by[q]
  BY <1>1 DEF Drop, Gain, TypeOK
<1>4. TaskTypeOK'
  BY DEF TaskTypeOK
<1>5. \A u \in Tasks : LeavesAlone(u)
  BY <1>1, <1>2, <1>3, TasksDistinct DEF LeavesAlone
<1>6. /\ t = Consumer => KeepsOne' /\ ConsumerOK'
      /\ t \in Senders => SenderOK(t)'
  BY <1>5, SenderLeft, ConsumerLeft
<1>7. AttachAlone'
  <2>1. \A u \in Tasks : Attaching(u) => mb[u] \in Msgs
    BY DEF TaskOK, Attaching
  <2> QED
    BY <1>2, <1>3, <2>1, TasksDistinct DEF AttachAlone, Attaching, Blocks
<1>8. Loaded'
  <2>1. \A q \in Refs : of'[q] # mb[t]
    BY <1>2, <1>3, TasksDistinct DEF Blocks
  <2>2. \A q \in Refs : of'[q] \in Msgs => \E s \in Refs : of[s] = of'[q]
    BY <1>3, TasksDistinct DEF Blocks
  <2> QED
    BY <1>1, <1>2, <1>3, <2>1, <2>2, LoadedStep DEF Attaching
<1>9. RefInv'
  BY DataPutStep
<1> QED
  BY <1>4, <1>5, <1>6, <1>7, <1>8, <1>9, Assemble

\* The message is back in its pool.
LEMMA ReleaseEndTaskStep ==
  ASSUME TaskInv, NEW t \in Tasks, UNCHANGED taskVars, ReleaseEnd(t)
  PROVE  TaskInv'
<1> USE DEF TaskInv, RefInv, taskVars
<1>1. pc[t] = "release" /\ UNCHANGED <<of, by>> /\ Return(t)
  BY DEF ReleaseEnd
<1>2. /\ pc'[t] = "idle" /\ db'[t] = NULL /\ ref'[t] = NULL
      /\ \A u \in Tasks \ {t} :
           pc'[u] = pc[u] /\ mb'[u] = mb[u] /\ db'[u] = db[u] /\ ref'[u] = ref[u]
  BY <1>1 DEF Return, TypeOK
<1>3. \A u \in Tasks : (Attaching(u)' <=> Attaching(u)) /\ (Attaching(u) => u # t)
  BY <1>1, <1>2 DEF Attaching
<1>4. TaskTypeOK'
  BY DEF TaskTypeOK
<1>5. t \in Senders => SenderOK(t)'
  BY <1>1, <1>2, TasksDistinct DEF SenderOK
<1>6. t = Consumer => KeepsOne' /\ ConsumerOK'
  BY <1>1, <1>2 DEF KeepsOne, ConsumerOK, KeptBy
<1>7. \A u \in Tasks \ {t} : LeavesAlone(u)
  BY <1>1, <1>2 DEF LeavesAlone
<1>8. AttachAlone'
  BY <1>1, <1>2, <1>3 DEF AttachAlone
<1>9. Loaded'
  BY <1>1, <1>2, <1>3, LoadedStep
<1>10. RefInv'
  BY ReleaseEndStep
<1> QED
  BY <1>4, <1>5, <1>6, <1>7, <1>8, <1>9, <1>10, Assemble

LEMMA TaskInvInit ==
  ASSUME TaskInit
  PROVE  TaskInv
<1>1. RefInv
  BY RefInit DEF TaskInit
<1>2. TaskTypeOK
  <2>1. <<>> \in Seq(Refs \cup {NULL})
    OBVIOUS
  <2> QED
    BY <2>1 DEF TaskInit, TaskTypeOK, Places, Answers
<1>3. KeepsOne /\ ConsumerOK /\ AttachAlone /\ Loaded
  BY TasksDistinct DEF TaskInit, Init, KeepsOne, KeptBy, ConsumerOK, AttachAlone,
     Loaded, Attaching, Blocks
<1>4. \A t \in Senders : SenderOK(t)
  BY TasksDistinct DEF TaskInit, Init, SenderOK
<1> QED
  BY <1>1, <1>2, <1>3, <1>4 DEF TaskInv

\* Every step of the tasks keeps it, as long as the queue and the pools work.
LEMMA TaskInvStep ==
  ASSUME TaskInv, Work, UNCHANGED broken
  PROVE  TaskInv'
<1>2. CASE Svc
  BY <1>2, SvcOwnStep, PopStep, FreeStep DEF Svc
<1>3. ASSUME NEW t \in Senders, Send(t)
      PROVE  TaskInv'
  <2>1. CASE SendMsg(t)
    <3>1. at[t] = "malloc" /\ UNCHANGED <<ret, line>>
      BY <2>1 DEF SendMsg, At
    <3>2. CASE /\ MsgMalloc(t) /\ db'[t] = dat[t] /\ Go(t, "put") /\ UNCHANGED dat
               /\ \E m \in Msgs : m \in pool \ pool' /\ msg' = [msg EXCEPT ![t] = m]
      BY <3>1, <3>2, SendMsgStep
    <3>3. CASE /\ UNCHANGED vars \/ DataFree(t)
               /\ Go(t, "loop") /\ dat' = [dat EXCEPT ![t] = NULL] /\ UNCHANGED msg
      BY <3>1, <3>3, SendNoMsgStep
    <3> QED
      BY <2>1, <3>2, <3>3 DEF SendMsg
  <2> QED
    BY <1>3, <2>1, SendDataStep, SendRefusedStep, SendPutStep, SendClaimStep,
       SendPushedStep, SendFreeStep DEF Send
<1>4. ASSUME NEW t \in Tasks, Library(t)
      PROVE  TaskInv'
  BY <1>4, AttachCallbackStep, AttachLinkStep, ReleaseDataStep, ReleaseEndTaskStep
     DEF Library
<1> QED
  BY <1>2, <1>3, <1>4 DEF Work

\* The invariant of the tasks: what a sender points to it has a reference to,
\* the consumer has the reference of its message, and a message that others
\* know has its data block; until a pop takes an unwritten slot, pushes overrun
\* the ring, or a malloc succeeds on a stale entry, which the tasks do not
\* exclude (Fail).
THEOREM TaskInductive == TaskSpec => [](~broken => TaskInv)
<1>1. TaskInit => (~broken => TaskInv)
  BY TaskInvInit
<1>2. (~broken => TaskInv) /\ [TaskNext]_allVars => (~broken => TaskInv)'
  <2> SUFFICES ASSUME ~broken => TaskInv, [TaskNext]_allVars, ~broken'
               PROVE  TaskInv'
    OBVIOUS
  <2>1. CASE UNCHANGED allVars
    <3>1. ~broken /\ TaskInv
      BY <2>1 DEF allVars, taskVars
    <3>2. RefInv'
      BY <2>1, <3>1, RefStep DEF allVars, TaskInv
    <3>3. TaskTypeOK' /\ KeepsOne' /\ ConsumerOK'
      BY <2>1, <3>1 DEF allVars, vars, taskVars, TaskInv, TaskTypeOK, KeepsOne, KeptBy, ConsumerOK
    <3>4. AttachAlone' /\ Loaded' /\ \A t \in Senders : SenderOK(t)'
      BY <2>1, <3>1 DEF allVars, vars, taskVars, TaskInv, AttachAlone, Loaded, SenderOK, Attaching, ListOf
    <3> QED
      BY <3>2, <3>3, <3>4 DEF TaskInv
  <2>2. CASE ~broken /\ Work /\ UNCHANGED broken
    BY <2>2, TaskInvStep
  <2> QED
    BY <2>1, <2>2 DEF TaskNext
<1> QED
  BY <1>1, <1>2, PTL DEF TaskSpec

\* dft_task_svc frees each message it popped once, whatever its callbacks answer,
\* until the queue or a pool fails.
THEOREM SvcKeepsOneHolds == TaskSpec => []SvcKeepsOne
<1>1. (~broken => TaskInv) => SvcKeepsOne
  BY DEF TaskInv, SvcKeepsOne
<1> QED
  BY <1>1, TaskInductive, PTL

\* A message in the queue, or at the consumer, has its data block, until the
\* queue or a pool fails.
THEOREM PayloadPresentHolds == TaskSpec => []PayloadPresent
<1>1. ASSUME ~broken => TaskInv
      PROVE  PayloadPresent
  <2> USE <1>1 DEF TaskInv, RefInv
  <2> SUFFICES ASSUME ~broken, NEW r \in Refs, by[r] \in {Queue, Consumer}
               PROVE  ListOf(of[r]) # {}
    BY DEF PayloadPresent
  <2>1. of[r] \in Msgs
    <3>1. CASE by[r] = Queue
      BY <3>1 DEF Kept
    <3>2. CASE by[r] = Consumer
      <4>1. of[r] # NULL
        BY <3>2, TasksDistinct DEF Kept
      <4>2. r \in KeptBy(Consumer)
        BY <3>2 DEF KeptBy
      <4>3. of[r] = msg[Consumer]
        BY <4>2 DEF KeepsOne
      <4> QED
        BY <4>1, <4>3, TasksDistinct DEF TaskTypeOK
    <3> QED
      BY <3>1, <3>2
  <2>2. \A t \in Tasks : Attaching(t) => mb[t] # of[r]
    <3>1. ~Attaching(Consumer)
      BY DEF ConsumerOK, Attaching
    <3> QED
      BY <3>1, TasksDistinct DEF AttachAlone
  <2> QED
    BY <2>1, <2>2 DEF Loaded
<1> QED
  BY <1>1, TaskInductive, PTL

\* What the consumer or a sender points to is not in its pool, until the queue
\* or a pool fails.
THEOREM PointersLiveHolds == TaskSpec => []PointersLive
<1>1. ASSUME ~broken => TaskInv
      PROVE  PointersLive
  <2> SUFFICES ASSUME TaskInv
               PROVE  \A t \in Tasks : msg[t] \notin pool /\ dat[t] \notin pool
    BY <1>1 DEF PointersLive
  <2> USE DEF TaskInv
  <2>1. NULL \notin pool
    BY TasksDistinct DEF RefInv, TypeOK
  <2>2. ASSUME NEW b, b # NULL, \E r \in Refs : of[r] = b
        PROVE  b \notin pool
    BY <2>2, Referenced
  <2>3. msg[Consumer] \notin pool /\ dat[Consumer] \notin pool
    BY <2>1, <2>2 DEF KeepsOne, ConsumerOK, KeptBy
  <2>4. ASSUME NEW t \in Senders
        PROVE  msg[t] \notin pool /\ dat[t] \notin pool
    BY <2>1, <2>2 DEF SenderOK
  <2> QED
    BY <2>3, <2>4, TasksDistinct
<1> QED
  BY <1>1, TaskInductive, PTL

=============================================================================
