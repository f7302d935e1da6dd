-------------------------- MODULE CircQueueProofs --------------------------
(***************************************************************************)
(* What is proved of the queue, for any set of producers, any ring size    *)
(* and any wait times.                                                     *)
(***************************************************************************)
EXTENDS CircQueueInv, PowerOf2, Induction, FiniteSetTheorems, TLAPS

\* The two assumptions on the words of CircBuf, for the provers.
LEMMA WordLemma ==
  /\ \A x \in Words : Word(x) = x /\ Word(x + 1) \in Words
  /\ \A x \in Words : x \in Nat
  /\ 0 \in Words /\ -1 \notin Words
  /\ \A x \in Words : x # NoPosition => Word(x + 1) = x + 1
BY CircBufAssumption DEF Words, Word, NoPosition

\* CIRC_GET_INDEX answers a slot.
LEMMA IndexLemma == \A x \in Nat : CircGetIndex(x) \in 0 .. Size
BY CircBufAssumption DEF CircGetIndex

-----------------------------------------------------------------------------
(* Types.                                                                  *)

\* No step of a thread breaks TypeOK.
LEMMA TypeStep == TypeOK /\ [Next]_vars => TypeOK'
<1> SUFFICES ASSUME TypeOK, [Next]_vars PROVE TypeOK'
  OBVIOUS
<1> USE DEF TypeOK, Labels
<1>1. ASSUME NEW x \in Threads, NEW w \in Nat, Call(x, w) PROVE TypeOK'
  BY <1>1 DEF Call, QUEUE_INTV_MS
<1>2. ASSUME NEW x \in Threads, LoadHead(x) PROVE TypeOK'
  BY <1>2 DEF LoadHead
<1>3. ASSUME NEW x \in Threads, LoadTail(x) PROVE TypeOK'
  BY <1>3 DEF LoadTail
<1>4. ASSUME NEW x \in Threads, Timeout(x) PROVE TypeOK'
  BY <1>4 DEF Timeout
<1>5. ASSUME NEW p \in Producers, PushFull(p) PROVE TypeOK'
  BY <1>5, WordLemma DEF PushFull, Again, EndAttempt, Threads, QUEUE_INTV_MS
<1>6. ASSUME NEW p \in Producers, PushClaim(p) PROVE TypeOK'
  <2>1. p \in Threads /\ last' \in [Threads -> Words \cup {-1}] /\ last'[p] # -1
    BY <1>6, WordLemma DEF PushClaim, Threads
  <2>2. head' \in Words /\ tail' \in Words /\ slots' = slots /\ got' = got
    BY <1>6, WordLemma DEF PushClaim
  <2>3. h' \in [Threads -> Words] /\ t' \in [Threads -> Words]
    BY <1>6, WordLemma DEF PushClaim, EndAttempt
  <2>4. Again(p) \/ Claimed(p)
    BY <1>6 DEF PushClaim
  <2>5. pc' \in [Threads -> Labels] /\ wait' \in [Threads -> Nat] /\ i' \in [Threads -> Nat]
    <3>1. CASE Again(p)
      BY <2>1, <3>1 DEF Again, QUEUE_INTV_MS
    <3>2. CASE Claimed(p)
      BY <3>2 DEF Claimed
    <3> QED
      BY <2>4, <3>1, <3>2
  <2>6. \A x \in Threads : x # p => pc'[x] = pc[x] /\ last'[x] = last[x]
    BY <1>6, <2>4 DEF PushClaim, Again, Claimed
  <2>7. \A x \in Threads : pc'[x] = "copy" => last'[x] # -1
    BY <2>1, <2>6
  <2> QED
    BY <2>1, <2>2, <2>3, <2>5, <2>7
<1>7. ASSUME NEW p \in Producers, PushWrite(p) PROVE TypeOK'
  BY <1>7, WordLemma, IndexLemma DEF PushWrite, Threads
<1>8. ASSUME NEW c \in Consumers, PopEmpty(c) PROVE TypeOK'
  BY <1>8, WordLemma DEF PopEmpty, Again, EndAttempt, Threads, QUEUE_INTV_MS
<1>9. ASSUME NEW c \in Consumers, PopClaim(c) PROVE TypeOK'
  <2>1. c \in Threads /\ last' \in [Threads -> Words \cup {-1}] /\ last'[c] # -1
    BY <1>9, WordLemma DEF PopClaim, Threads
  <2>2. head' \in Words /\ tail' \in Words /\ slots' = slots /\ got' = got
    BY <1>9, WordLemma DEF PopClaim
  <2>3. h' \in [Threads -> Words] /\ t' \in [Threads -> Words]
    BY <1>9, WordLemma DEF PopClaim, EndAttempt
  <2>4. Again(c) \/ Claimed(c)
    BY <1>9 DEF PopClaim
  <2>5. pc' \in [Threads -> Labels] /\ wait' \in [Threads -> Nat] /\ i' \in [Threads -> Nat]
    <3>1. CASE Again(c)
      BY <2>1, <3>1 DEF Again, QUEUE_INTV_MS
    <3>2. CASE Claimed(c)
      BY <3>2 DEF Claimed
    <3> QED
      BY <2>4, <3>1, <3>2
  <2>6. \A x \in Threads : x # c => pc'[x] = pc[x] /\ last'[x] = last[x]
    BY <1>9, <2>4 DEF PopClaim, Again, Claimed
  <2>7. \A x \in Threads : pc'[x] = "copy" => last'[x] # -1
    BY <2>1, <2>6
  <2> QED
    BY <2>1, <2>2, <2>3, <2>5, <2>7
<1>10. ASSUME NEW c \in Consumers, PopRead(c) PROVE TypeOK'
  BY <1>10, WordLemma, IndexLemma DEF PopRead, Contents, Threads, Garbage
<1>11. CASE UNCHANGED vars
  BY <1>11 DEF vars
<1> QED
  BY <1>1, <1>2, <1>3, <1>4, <1>5, <1>6, <1>7, <1>8, <1>9, <1>10, <1>11,
     CircQueueAssumption DEF Next, PushCall, Push, PopCall, Pop, Threads

\* TypeOK holds of every reachable state: dft_queue_push and dft_queue_pop
\* store words, claim before they copy and copy within Size + 1 slots,
\* whatever the threads' interleaving, across the wrap of the counters too.
THEOREM TypeCorrect == Spec => []TypeOK
<1>1. Init => TypeOK
  BY WordLemma DEF Init, TypeOK, Labels, Garbage
<1>2. TypeOK /\ [Next]_vars => TypeOK'
  BY TypeStep
<1> QED
  BY <1>1, <1>2, PTL DEF Spec

-----------------------------------------------------------------------------
(* The inductive invariant.                                                *)

\* Before the counters wrap, CIRC_IS_FULL compares the distance of the loaded
\* values with Size.
LEMMA FullLemma ==
  ASSUME NEW x \in Nat, NEW y \in Nat, x + Size < WordMod
  PROVE  CircIsFull(x, y) <=> y - x >= Size
BY CircBufAssumption, CircQueueInvAssumption DEF CircIsFull, Word

\* Pending is a finite set.
LEMMA PendingFinite == IsFiniteSet(Pending) /\ Cardinality(Pending) \in Nat
BY CircQueueAssumption, FS_Subset, FS_CardinalityType DEF Pending

\* A step that leaves a producer trying, or not trying, keeps Pending.
LEMMA PendingSame ==
  ASSUME TypeOK, NEW x \in Threads, NEW l, pc' = [pc EXCEPT ![x] = l],
         x \in Producers => (pc[x] \in Trying <=> l \in Trying)
  PROVE  Pending' = Pending
BY DEF TypeOK, Pending, Threads

\* A producer that stops trying leaves Pending.
LEMMA PendingLeaves ==
  ASSUME TypeOK, NEW p \in Producers, NEW l, pc' = [pc EXCEPT ![p] = l],
         pc[p] \in Trying, l \notin Trying
  PROVE  Cardinality(Pending') = Cardinality(Pending) - 1
<1>1. Pending' = Pending \ {p} /\ p \in Pending
  BY DEF TypeOK, Pending, Threads
<1> QED
  BY <1>1, PendingFinite, FS_RemoveElement

\* The numbers a state holds before the wrap.
LEMMA Numbers ==
  ASSUME IInv
  PROVE  /\ head \in Nat /\ tail \in Nat /\ head <= tail
         /\ tail + Size < WordMod
         /\ \A x \in Threads : h[x] \in Nat /\ t[x] \in Nat /\ last[x] \in Int
         /\ head + Size < WordMod
         /\ Word(head + 1) = head + 1
         /\ Word(tail + 1) = tail + 1
         /\ head # NoPosition /\ tail # NoPosition
<1>1. head \in Nat /\ tail \in Nat /\ head <= tail
  BY WordLemma DEF IInv, TypeOK
<1>2. tail + Size < WordMod
  BY <1>1, PendingFinite, CircBufAssumption, CircQueueAssumption, CircQueueInvAssumption
  DEF IInv, Bounded
<1>3. \A x \in Threads : h[x] \in Nat /\ t[x] \in Nat /\ last[x] \in Int
  BY WordLemma DEF IInv, TypeOK
<1> QED
  BY <1>1, <1>2, <1>3, CircBufAssumption, CircQueueInvAssumption DEF Word, NoPosition

\* The entry of push or pop keeps the invariant: it only moves its thread.
LEMMA CallStep ==
  ASSUME IInv, TypeOK', NEW x \in Threads, NEW w, Call(x, w)
  PROVE  /\ head' <= tail' /\ LoadedOK' /\ ClaimedOK' /\ StaleClaims'
BY Numbers DEF IInv, TypeOK, Call, LoadedOK, ClaimedOK, StaleClaims, Threads

\* A load keeps the invariant: the counter it reads is above every claim.
LEMMA LoadStep ==
  ASSUME IInv, TypeOK', NEW x \in Threads, LoadHead(x) \/ LoadTail(x)
  PROVE  IInv'
<1> USE DEF IInv
<1>1. head' = head /\ tail' = tail /\ last' = last
  BY DEF LoadHead, LoadTail
<1>2. LoadedOK'
  <2>1. CASE LoadHead(x)
    BY <2>1, Numbers, CircQueueAssumption DEF LoadHead, LoadedOK, ClaimedOK, TypeOK, Threads
  <2>2. CASE LoadTail(x)
    <3>1. \A y \in Threads : y # x => h'[y] = h[y] /\ t'[y] = t[y] /\ pc'[y] = pc[y]
      BY <2>2 DEF LoadTail, TypeOK
    <3>2. h'[x] = h[x] /\ t'[x] = tail /\ (pc'[x] \in {"head", "test"} => pc[x] = "head")
      BY <2>2 DEF LoadTail, TypeOK
    <3>3. \A y \in Threads : h'[y] <= head' /\ t'[y] <= tail'
      BY <1>1, <3>1, <3>2, Numbers DEF LoadedOK
    <3>4. \A p \in Producers : pc'[p] \in {"tail", "test"} => last'[p] < t'[p]
      BY <1>1, <3>1, <3>2 DEF LoadedOK, ClaimedOK, Threads
    <3>5. \A c \in Consumers :
            /\ pc'[c] \in {"head", "test"} => h'[c] = head'
            /\ pc'[c] \in {"tail", "test"} => head' <= t'[c]
      BY <1>1, <3>1, <3>2, Numbers DEF LoadedOK, Threads
    <3> QED
      BY <3>3, <3>4, <3>5 DEF LoadedOK
  <2> QED
    BY <2>1, <2>2
<1>3. ClaimedOK' /\ StaleClaims'
  BY <1>1 DEF ClaimedOK, StaleClaims
<1>4. Bounded'
  <2>1. PICK l \in {"head", "tail", "test"} : pc[x] \in Trying /\ pc' = [pc EXCEPT ![x] = l]
    BY DEF LoadHead, LoadTail, Trying
  <2>2. Pending' = Pending
    BY <2>1, PendingSame DEF Trying
  <2> QED
    BY <1>1, <2>2 DEF Bounded
<1> QED
  BY <1>1, <1>2, <1>3, <1>4

\* A thread that ends an attempt, or leaves the loop, without a claim keeps the
\* invariant.
LEMMA BackStep ==
  ASSUME IInv, TypeOK', NEW x \in Threads,
         \/ Timeout(x)
         \/ x \in Producers /\ PushFull(x)
         \/ x \in Consumers /\ PopEmpty(x)
  PROVE  IInv'
<1> USE DEF IInv
<1>1. head' = head /\ tail' = tail /\ last' = last
  BY DEF Timeout, PushFull, PopEmpty
<1>2. \A y \in Threads : y # x => h'[y] = h[y] /\ t'[y] = t[y] /\ pc'[y] = pc[y]
  BY DEF Timeout, PushFull, PopEmpty, Again, EndAttempt, TypeOK
<1>3. /\ pc'[x] \in {"loop", "idle"}
      /\ h'[x] \in {h[x], 0} /\ t'[x] \in {t[x], 0}
  BY DEF Timeout, PushFull, PopEmpty, Again, EndAttempt, TypeOK
<1>4. LoadedOK'
  BY <1>1, <1>2, <1>3, Numbers DEF LoadedOK, Threads
<1>5. ClaimedOK' /\ StaleClaims'
  BY <1>1 DEF ClaimedOK, StaleClaims
<1>6. Cardinality(Pending') <= Cardinality(Pending)
  <2>1. CASE Timeout(x)
    <3>1. pc[x] \in Trying /\ pc' = [pc EXCEPT ![x] = "idle"] /\ "idle" \notin Trying
      BY <2>1 DEF Timeout, Trying
    <3>2. CASE x \in Producers
      <4>1. Cardinality(Pending') = Cardinality(Pending) - 1
        BY <3>1, <3>2, PendingLeaves
      <4> QED
        BY <4>1, PendingFinite
    <3>3. CASE x \notin Producers
      <4>1. Pending' = Pending
        BY <3>1, <3>3, PendingSame
      <4> QED
        BY <4>1, PendingFinite
    <3> QED
      BY <3>2, <3>3
  <2>2. CASE ~Timeout(x)
    <3>1. pc[x] \in Trying /\ pc' = [pc EXCEPT ![x] = "loop"] /\ "loop" \in Trying
      BY <2>2 DEF PushFull, PopEmpty, Again, Trying
    <3>2. Pending' = Pending
      BY <3>1, PendingSame
    <3> QED
      BY <3>2, PendingFinite
  <2> QED
    BY <2>1, <2>2
<1>7. Bounded'
  <2>1. Cardinality(Pending') \in Int
    BY <1>6, CircQueueAssumption, FS_Subset, FS_CardinalityType DEF Pending
  <2> QED
    BY <1>1, <1>6, <2>1, Numbers, PendingFinite, CircQueueAssumption DEF Bounded
<1> QED
  BY <1>1, <1>4, <1>5, <1>7

\* A copy keeps the invariant: it moves no counter.
LEMMA CopyStep ==
  ASSUME IInv, TypeOK', NEW x \in Threads,
         \/ x \in Producers /\ PushWrite(x)
         \/ x \in Consumers /\ PopRead(x)
  PROVE  IInv'
<1> USE DEF IInv
<1>1. head' = head /\ tail' = tail /\ last' = last /\ h' = h /\ t' = t
  BY DEF PushWrite, PopRead
<1>2. pc[x] = "copy" /\ pc' = [pc EXCEPT ![x] = "idle"]
  BY DEF PushWrite, PopRead
<1>3. LoadedOK'
  BY <1>1, <1>2 DEF LoadedOK, TypeOK, Threads
<1>4. ClaimedOK' /\ StaleClaims'
  BY <1>1 DEF ClaimedOK, StaleClaims
<1>5. Pending' = Pending
  BY <1>2, PendingSame DEF Trying
<1> QED
  BY <1>1, <1>3, <1>4, <1>5 DEF Bounded

\* The entry of push or pop keeps the invariant; the bound makes room for it.
LEMMA PushCallStep ==
  ASSUME IInv, TypeOK', NEW p \in Producers, PushCall(p)
  PROVE  IInv'
<1>1. PICK w \in PushWaits : Call(p, w)
  BY DEF PushCall
<1>2. head' <= tail' /\ LoadedOK' /\ ClaimedOK' /\ StaleClaims'
  BY <1>1, CallStep DEF Threads
<1>3. Pending' = Pending \cup {p} /\ p \notin Pending
  BY <1>1 DEF IInv, TypeOK, Call, Pending, Trying, Threads
<1>4. Cardinality(Pending') = Cardinality(Pending) + 1
  BY <1>3, PendingFinite, FS_AddElement
<1>5. tail' = tail
  BY <1>1 DEF Call
<1>6. Bounded'
  BY <1>4, <1>5, Numbers, PendingFinite, CircQueueAssumption DEF PushCall, Bounded
<1> QED
  BY <1>2, <1>6 DEF IInv

\* The same for a pop, which the bound does not concern.
LEMMA PopCallStep ==
  ASSUME IInv, TypeOK', NEW c \in Consumers, PopCall(c)
  PROVE  IInv'
<1>1. PICK w \in PopWaits : Call(c, w)
  BY DEF PopCall
<1>2. head' <= tail' /\ LoadedOK' /\ ClaimedOK' /\ StaleClaims'
  BY <1>1, CallStep DEF Threads
<1>3. Pending' = Pending
  BY <1>1, CircQueueAssumption, PendingSame DEF IInv, Call, Threads
<1>4. Bounded'
  BY <1>1, <1>3 DEF Call, IInv, Bounded
<1> QED
  BY <1>2, <1>4 DEF IInv

\* A claim of a producer keeps the invariant: it moves tail only, and its
\* earlier claim, made before it loaded a tail below head + Size, is not one of
\* the claims StaleClaims counts.
LEMMA PushClaimStep ==
  ASSUME IInv, TypeOK', NEW p \in Producers, PushClaim(p)
  PROVE  IInv'
<1> USE DEF IInv
<1>1. /\ head' = head /\ tail' = tail + 1
      /\ last' = [last EXCEPT ![p] = tail]
      /\ pc' = [pc EXCEPT ![p] = "copy"]
      /\ h' = [h EXCEPT ![p] = 0] /\ t' = [t EXCEPT ![p] = 0]
  BY Numbers DEF PushClaim, Claimed, EndAttempt
<1>2. p \in Threads /\ p \notin Consumers
  BY CircQueueAssumption DEF Threads
<1>3. last[p] < head + Size - 1
  <2>1. t[p] - h[p] < Size
    <3>1. h[p] \in Nat /\ t[p] \in Nat /\ h[p] + Size < WordMod
      BY <1>2, Numbers, CircBufAssumption DEF LoadedOK
    <3> QED
      BY <3>1, FullLemma, CircBufAssumption DEF PushClaim
  <2>2. h[p] <= head /\ last[p] < t[p]
    BY <1>2 DEF LoadedOK, PushClaim
  <2> QED
    BY <1>2, <2>1, <2>2, Numbers, CircBufAssumption
<1>4. LoadedOK'
  BY <1>1, <1>2, Numbers DEF LoadedOK, TypeOK, Threads
<1>5. ClaimedOK'
  <2>1. \A q \in Producers : last'[q] \in {last[q], tail}
    BY <1>1 DEF TypeOK, Threads
  <2>2. \A c \in Consumers : last'[c] = last[c]
    BY <1>1, <1>2 DEF TypeOK, Threads
  <2>3. \A q \in Producers : last[q] \in Int
    BY Numbers DEF Threads
  <2> QED
    BY <1>1, <2>1, <2>2, <2>3, Numbers DEF ClaimedOK
<1>6. StaleClaims'
  <2> SUFFICES ASSUME NEW x \in head + Size - 1 .. tail PROVE \E q \in Producers : last'[q] = x
    BY <1>1, Numbers DEF StaleClaims
  <2>1. CASE x = tail
    BY <1>1, <1>2, <2>1 DEF TypeOK
  <2>2. CASE x # tail
    <3>1. PICK q \in Producers : last[q] = x
      BY <2>2, Numbers, CircBufAssumption DEF StaleClaims
    <3>2. q # p
      BY <1>3, <3>1, Numbers, CircBufAssumption
    <3> QED
      BY <1>1, <3>1, <3>2 DEF TypeOK, Threads
  <2> QED
    BY <2>1, <2>2
<1>7. Bounded'
  <2>1. Cardinality(Pending') = Cardinality(Pending) - 1
    BY <1>1, PendingLeaves DEF PushClaim, Trying
  <2> QED
    BY <1>1, <2>1, Numbers, PendingFinite, CircQueueAssumption DEF Bounded
<1> QED
  BY <1>1, <1>4, <1>5, <1>6, <1>7, Numbers

\* A claim of the consumer keeps the invariant: the head it loaded is the
\* current one, so the ring is not empty.
LEMMA PopClaimStep ==
  ASSUME IInv, TypeOK', NEW c \in Consumers, PopClaim(c)
  PROVE  IInv'
<1> USE DEF IInv
<1>1. /\ head' = head + 1 /\ tail' = tail
      /\ last' = [last EXCEPT ![c] = head]
      /\ pc' = [pc EXCEPT ![c] = "copy"]
      /\ h' = [h EXCEPT ![c] = 0] /\ t' = [t EXCEPT ![c] = 0]
  BY Numbers DEF PopClaim, Claimed, EndAttempt
<1>2. c \in Threads /\ c \notin Producers /\ Consumers = {c}
  BY CircQueueAssumption, CircQueueInvAssumption DEF Threads
<1>3. head < tail
  BY <1>2, Numbers DEF LoadedOK, PopClaim, CircIsEmpty
<1>4. LoadedOK'
  <2>1. /\ \A x \in Threads : x # c => h'[x] = h[x] /\ t'[x] = t[x]
        /\ \A p \in Producers : pc'[p] = pc[p] /\ last'[p] = last[p] /\ t'[p] = t[p]
        /\ pc'[c] = "copy" /\ h'[c] = 0 /\ t'[c] = 0
    BY <1>1, <1>2 DEF TypeOK, Threads
  <2>2. \A x \in Threads : h'[x] <= head' /\ t'[x] <= tail'
    BY <1>1, <2>1, Numbers DEF LoadedOK
  <2> QED
    BY <1>2, <2>1, <2>2 DEF LoadedOK
<1>5. ClaimedOK'
  BY <1>1, <1>2, Numbers DEF ClaimedOK, TypeOK, Threads
<1>6. StaleClaims'
  <2>1. \A p \in Producers : last'[p] = last[p]
    BY <1>1, <1>2 DEF TypeOK, Threads
  <2>2. head' + Size - 1 .. tail' - 1 \subseteq head + Size - 1 .. tail - 1
    BY <1>1, Numbers, CircBufAssumption
  <2> QED
    BY <2>1, <2>2 DEF StaleClaims
<1>7. Pending' = Pending
  BY <1>1, <1>2, PendingSame
<1> QED
  BY <1>1, <1>3, <1>4, <1>5, <1>6, <1>7, Numbers DEF Bounded

\* The initial queue satisfies the inductive invariant.
LEMMA IInvInit == Init => IInv
<1> SUFFICES ASSUME Init PROVE IInv
  OBVIOUS
<1>1. TypeOK /\ head <= tail /\ LoadedOK /\ ClaimedOK
  BY WordLemma DEF Init, TypeOK, Labels, Garbage, LoadedOK, ClaimedOK, Threads
<1>2. StaleClaims
  BY CircBufAssumption, CircQueueInvAssumption DEF Init, StaleClaims
<1>3. Bounded
  <2>1. Pending = {}
    BY DEF Init, Pending, Trying, Threads
  <2> QED
    BY <2>1, FS_EmptySet, CircQueueAssumption DEF Init, Bounded
<1> QED
  BY <1>1, <1>2, <1>3 DEF IInv

\* Every step of every thread keeps it.
LEMMA IInvStep == IInv /\ [Next]_vars => IInv'
<1> SUFFICES ASSUME IInv, [Next]_vars PROVE IInv'
  OBVIOUS
<1>0. TypeOK'
  BY TypeStep DEF IInv
<1>1. ASSUME NEW p \in Producers, PushCall(p) \/ Push(p) PROVE IInv'
  BY <1>0, <1>1, PushCallStep, LoadStep, BackStep, CopyStep, PushClaimStep DEF Push, Threads
<1>2. ASSUME NEW c \in Consumers, PopCall(c) \/ Pop(c) PROVE IInv'
  BY <1>0, <1>2, PopCallStep, LoadStep, BackStep, CopyStep, PopClaimStep DEF Pop, Threads
<1>3. CASE UNCHANGED vars
  BY <1>3 DEF vars, IInv, TypeOK, LoadedOK, ClaimedOK, StaleClaims, Bounded, Pending
<1> QED
  BY <1>1, <1>2, <1>3 DEF Next

\* IInv holds of every reachable state.
THEOREM Inductive == Spec => []IInv
BY IInvInit, IInvStep, PTL DEF Spec

-----------------------------------------------------------------------------
(* Order, room and content.                                                *)

\* Occupancy follows from IInv: the positions above head + Size - 1 are the
\* latest claims of distinct producers.
LEMMA IInvOccupancy == IInv => Occupancy
<1> SUFFICES ASSUME IInv, tail - head > Size - 1
             PROVE  tail - head <= Size - 1 + Cardinality(Producers)
  <2>1. Cardinality(Producers) \in Nat
    BY CircQueueAssumption, FS_CardinalityType
  <2> QED
    BY <2>1, Numbers, CircBufAssumption DEF IInv, Occupancy
<1> DEFINE Above == head + Size - 1 .. tail - 1
           Late == {p \in Producers : last[p] \in Above}
           Claim == [p \in Late |-> last[p]]
<1>1. Claim \in Surjection(Late, Above)
  BY DEF IInv, StaleClaims, Surjection
<1>2. IsFiniteSet(Late) /\ Cardinality(Late) <= Cardinality(Producers)
  BY CircQueueAssumption, FS_Subset
<1>3. Cardinality(Above) <= Cardinality(Late)
  BY <1>1, <1>2, FS_Surjection
<1>4. Cardinality(Above) = tail - head - Size + 1
  <2>1. head + Size - 1 \in Int /\ tail - 1 \in Int /\ head + Size - 1 <= tail - 1
    BY Numbers, CircBufAssumption
  <2> HIDE DEF Above
  <2>2. Cardinality(head + Size - 1 .. tail - 1) = (tail - 1) - (head + Size - 1) + 1
    BY <2>1, FS_Interval
  <2> QED
    BY <2>1, <2>2, Numbers, CircBufAssumption DEF Above
<1>5. Cardinality(Late) \in Nat /\ Cardinality(Producers) \in Nat
  BY <1>2, CircQueueAssumption, FS_CardinalityType
<1> QED
  BY <1>2, <1>3, <1>4, <1>5, Numbers, CircBufAssumption

\* One consumer never passes the producers, and the stale tests of
\* CIRC_WRITE_ONE overshoot the room of the ring by less than the number of
\* producers.
THEOREM OccupancyHolds == Spec => []Occupancy
BY Inductive, IInvOccupancy, PTL

\* Until the counters wrap the ring never looks full and empty at once.
THEOREM EmptyXorFullHolds == Spec => []EmptyXorFull
<1>1. IInv => EmptyXorFull
  BY Numbers, FullLemma, CircBufAssumption, CircQueueInvAssumption
  DEF EmptyXorFull, CircIsEmpty
<1> QED
  BY <1>1, Inductive, PTL

\* Steps that move neither a counter nor a slot, and let no thread enter or
\* leave "copy", do not concern the bounded queue.
Quiet ==
  /\ UNCHANGED <<head, tail, slots, last, got>>
  /\ \A x \in Threads : pc'[x] = "copy" <=> pc[x] = "copy"

\* The steps that are not quiet.
LEMMA QuietStep ==
  ASSUME IInv, [Next]_vars
  PROVE  \/ Quiet
         \/ \E p \in Producers : PushClaim(p) \/ PushWrite(p)
         \/ \E c \in Consumers : PopClaim(c) \/ PopRead(c)
<1> USE DEF IInv, TypeOK
<1>1. ASSUME NEW x \in Threads, NEW w, Call(x, w) PROVE Quiet
  BY <1>1 DEF Call, Quiet
<1>2. ASSUME NEW x \in Threads, LoadHead(x) \/ LoadTail(x) \/ Timeout(x) PROVE Quiet
  BY <1>2 DEF LoadHead, LoadTail, Timeout, Quiet
<1>3. ASSUME NEW p \in Producers, PushFull(p) PROVE Quiet
  BY <1>3 DEF PushFull, Again, Quiet, Threads
<1>4. ASSUME NEW c \in Consumers, PopEmpty(c) PROVE Quiet
  BY <1>4 DEF PopEmpty, Again, Quiet, Threads
<1>5. CASE UNCHANGED vars
  BY <1>5 DEF vars, Quiet
<1> QED
  BY <1>1, <1>2, <1>3, <1>4, <1>5 DEF Next, PushCall, Push, PopCall, Pop, Threads

\* The claims and the stores, with what they leave alone.
LEMMA LoudSteps ==
  ASSUME IInv
  PROVE  /\ \A p \in Producers : PushClaim(p) =>
              /\ head' = head /\ tail' = tail + 1 /\ slots' = slots /\ got' = got
              /\ last' = [last EXCEPT ![p] = tail] /\ pc[p] = "test" /\ pc' = [pc EXCEPT ![p] = "copy"]
         /\ \A p \in Producers : PushWrite(p) =>
              /\ head' = head /\ tail' = tail /\ got' = got /\ last' = last
              /\ slots' = [slots EXCEPT ![CircGetIndex(last[p])] = last[p]]
              /\ pc[p] = "copy" /\ pc' = [pc EXCEPT ![p] = "idle"]
         /\ \A c \in Consumers : PopClaim(c) =>
              /\ head' = head + 1 /\ tail' = tail /\ slots' = slots /\ got' = got
              /\ last' = [last EXCEPT ![c] = head] /\ pc[c] = "test" /\ pc' = [pc EXCEPT ![c] = "copy"]
         /\ \A c \in Consumers : PopRead(c) =>
              /\ head' = head /\ tail' = tail /\ slots' = slots /\ last' = last
              /\ pc[c] = "copy" /\ pc' = [pc EXCEPT ![c] = "idle"]
BY Numbers DEF PushClaim, PushWrite, PopClaim, PopRead, Claimed

\* A claim takes the position of tail, above all earlier ones, and a store
\* puts a claimed position into its slot.
LEMMA ContentStep ==
  ASSUME IInv, ClaimsDiffer, SlotsOld, [Next]_vars
  PROVE  ClaimsDiffer' /\ SlotsOld'
<1>0. /\ head \in Nat /\ tail \in Nat /\ last \in [Threads -> Words \cup {-1}]
      /\ \A p \in Producers : p \in Threads /\ last[p] \in Int /\ last[p] < tail
      /\ slots \in [0 .. Size -> Words \cup {Garbage}]
      /\ pc \in [Threads -> Labels]
      /\ \A k \in 0 .. Size : slots[k] \in Int
  BY Numbers, CircBufAssumption DEF IInv, TypeOK, ClaimedOK, Threads, Words, Garbage
<1>1. CASE Quiet
  BY <1>1 DEF Quiet, ClaimsDiffer, SlotsOld
<1>2. ASSUME NEW p \in Producers, PushClaim(p) PROVE ClaimsDiffer' /\ SlotsOld'
  <2>1. /\ tail' = tail + 1 /\ slots' = slots /\ last' = [last EXCEPT ![p] = tail]
    BY <1>2, LoudSteps
  <2>2. ClaimsDiffer'
    BY <1>0, <2>1 DEF ClaimsDiffer
  <2>3. SlotsOld'
    BY <1>0, <2>1 DEF SlotsOld
  <2> QED BY <2>2, <2>3
<1>3. ASSUME NEW p \in Producers, PushWrite(p) PROVE ClaimsDiffer' /\ SlotsOld'
  <2>1. /\ tail' = tail /\ last' = last /\ slots' = [slots EXCEPT ![CircGetIndex(last[p])] = last[p]]
    BY <1>3, LoudSteps
  <2> QED
    BY <1>0, <2>1 DEF ClaimsDiffer, SlotsOld
<1>4. ASSUME NEW c \in Consumers, PopClaim(c) \/ PopRead(c) PROVE ClaimsDiffer' /\ SlotsOld'
  <2>1. /\ tail' = tail /\ slots' = slots
        /\ \A p \in Producers : last'[p] = last[p]
    BY <1>0, <1>4, LoudSteps, CircQueueAssumption
  <2> QED
    BY <2>1 DEF ClaimsDiffer, SlotsOld
<1> QED
  BY <1>1, <1>2, <1>3, <1>4, QuietStep

\* IInv, ClaimsDiffer and SlotsOld hold of every reachable state.
LEMMA ContentHolds == Spec => [](IInv /\ ClaimsDiffer /\ SlotsOld)
<1>1. Init => ClaimsDiffer /\ SlotsOld
  BY CircBufAssumption DEF Init, ClaimsDiffer, SlotsOld, Garbage, Threads
<1> QED
  BY <1>1, ContentStep, Inductive, PTL DEF Spec

\* Every step of push and pop is a step of the bounded queue or leaves it
\* alone: the safety part of ImplementsBoundedQueue.
THEOREM StepRefinement == Spec => BQ!Init /\ [][BQ!Next]_(BQ!vars)
<1>1. Init => BQ!Init
  <2> SUFFICES ASSUME Init PROVE BQ!Init
    OBVIOUS
  <2>1. Unread = {}
    BY CircBufAssumption DEF Init, Unread, Threads
  <2> QED
    BY <2>1 DEF Init, BQ!Init, InSlot, BQ!Nothing, Garbage, Threads
<1>2. IInv /\ ClaimsDiffer /\ SlotsOld /\ IInv' /\ SlotsOld' /\ [Next]_vars => [BQ!Next]_(BQ!vars)
  <2> SUFFICES ASSUME IInv, ClaimsDiffer, SlotsOld, IInv', SlotsOld', [Next]_vars
               PROVE  [BQ!Next]_(BQ!vars)
    OBVIOUS
  <2> DEFINE open == {last[p] : p \in {q \in Producers : pc[q] = "copy"}}
             held == {last[c] : c \in {q \in Consumers : pc[q] = "copy"}}
  <2>0. /\ head \in Nat /\ tail \in Nat /\ head <= tail
        /\ last \in [Threads -> Words \cup {-1}] /\ pc \in [Threads -> Labels]
        /\ slots \in [0 .. Size -> Words \cup {Garbage}]
        /\ \A x \in Producers \cup Consumers : x \in Threads /\ last[x] \in Int
        /\ \A x \in Threads : pc[x] = "copy" => last[x] \in Nat
        /\ Producers \cap Consumers = {}
        /\ Size \in Nat /\ Size >= 1
    <3>1. TypeOK
      BY DEF IInv
    <3>2. \A x \in Threads : pc[x] = "copy" => last[x] \in Words /\ last[x] \in Nat
      BY <3>1, CircBufAssumption DEF TypeOK, Words
    <3> QED
      BY <3>1, <3>2, Numbers, CircBufAssumption, CircQueueAssumption, CircQueueInvAssumption
      DEF TypeOK, Threads
  <2>1. PICK d \in Consumers : Consumers = {d}
    BY CircQueueInvAssumption
  <2>2. /\ Unread = head .. tail - 1 \cup held
        /\ held = IF pc[d] = "copy" THEN {last[d]} ELSE {}
        /\ held' = IF pc'[d] = "copy" THEN {last'[d]} ELSE {}
        /\ last[d] = head - 1
        /\ \A x \in Unread : x \in Nat /\ x < tail
    <3>1. Unread = head .. tail - 1 \cup held
      BY DEF Unread
    <3>2. /\ held = IF pc[d] = "copy" THEN {last[d]} ELSE {}
          /\ held' = IF pc'[d] = "copy" THEN {last'[d]} ELSE {}
      BY <2>1
    <3>3. last[d] = head - 1
      BY <2>1 DEF IInv, ClaimedOK
    <3>4. \A x \in Unread : x \in Nat /\ x < tail
      BY <2>0, <3>1, <3>2, <3>3
    <3> QED
      BY <3>1, <3>2, <3>3, <3>4
  <2>3. BQ!vars = <<tail, head, open, InSlot, held, got>>
    BY DEF BQ!vars
  <2> HIDE DEF open, held
  <2>4. ASSUME Quiet PROVE UNCHANGED BQ!vars
    <3>1. open' = open /\ held' = held
      BY <2>0, <2>4 DEF Quiet, open, held
    <3>2. Unread' = Unread
      BY <2>4, <3>1, <2>2 DEF Quiet, Unread, held
    <3>3. InSlot' = InSlot
      BY <2>4, <3>2 DEF Quiet, InSlot
    <3> QED
      BY <2>3, <2>4, <3>1, <3>3 DEF Quiet, BQ!vars, open, held
  <2>5. ASSUME NEW p \in Producers, PushClaim(p) PROVE BQ!Accept
    <3>1. /\ head' = head /\ tail' = tail + 1 /\ slots' = slots /\ got' = got
          /\ last' = [last EXCEPT ![p] = tail] /\ pc[p] = "test" /\ pc' = [pc EXCEPT ![p] = "copy"]
      BY <2>5, LoudSteps
    <3>2. tail - head < Size - 1 + Cardinality(Producers)
      <4>1. Occupancy'
        BY IInvOccupancy, PTL
      <4>2. Cardinality(Producers) \in Nat
        BY CircQueueAssumption, FS_CardinalityType
      <4> QED
        BY <2>0, <3>1, <4>1, <4>2 DEF Occupancy
    <3>3. open' = open \cup {tail}
      BY <2>0, <3>1 DEF open
    <3>4. held' = held
      BY <2>0, <2>1, <2>2, <3>1
    <3>5. Unread' = Unread \cup {tail}
      BY <2>0, <2>2, <3>1, <3>4 DEF Unread, held
    <3>6. InSlot' = InSlot
      <4>1. slots[CircGetIndex(tail)] # tail
        BY <2>0, IndexLemma DEF SlotsOld
      <4> QED
        BY <3>1, <3>5, <4>1 DEF InSlot
    <3> QED
      BY <3>1, <3>2, <3>3, <3>4, <3>6 DEF BQ!Accept, open, held
  <2>6. ASSUME NEW p \in Producers, PushWrite(p) PROVE \E x \in open : BQ!Put(x)
    <3>1. /\ head' = head /\ tail' = tail /\ got' = got /\ last' = last
          /\ slots' = [slots EXCEPT ![CircGetIndex(last[p])] = last[p]]
          /\ pc[p] = "copy" /\ pc' = [pc EXCEPT ![p] = "idle"]
      BY <2>6, LoudSteps
    <3> PICK x : x = last[p]
      OBVIOUS
    <3>2. x \in Nat /\ x \in open /\ CircGetIndex(x) \in 0 .. Size
      BY <2>0, <3>1, IndexLemma DEF open
    <3>3. open' = open \ {x}
      BY <2>0, <3>1, <3>2 DEF open, ClaimsDiffer
    <3>4. held' = held
      BY <2>0, <2>1, <2>2, <3>1
    <3>5. Unread' = Unread
      BY <2>2, <3>1, <3>4 DEF Unread, held
    <3>6. x < tail
      BY <3>1 DEF IInv, ClaimedOK
    <3>7. x \in Unread <=> x \in held \/ head <= x
      BY <2>0, <2>2, <3>2, <3>6
    <3>8. InSlot' = {y \in InSlot : CircGetIndex(y) # CircGetIndex(x)}
                     \cup {y \in {x} : CircGetIndex(y) # Size /\ (y \in held \/ head <= y)}
      <4>1. /\ slots'[CircGetIndex(x)] = x
            /\ \A k \in 0 .. Size : k # CircGetIndex(x) => slots'[k] = slots[k]
        BY <2>0, <3>1, <3>2
      <4>2. \A y \in Unread : CircGetIndex(y) \in 0 .. Size
        BY <2>2, IndexLemma
      <4>3. ASSUME NEW y \in Unread, y # x
            PROVE  y \in InSlot' <=> y \in InSlot /\ CircGetIndex(y) # CircGetIndex(x)
        BY <3>5, <4>1, <4>2, <4>3 DEF InSlot
      <4>4. x \in InSlot' <=> CircGetIndex(x) # Size /\ x \in Unread
        BY <3>5, <4>1 DEF InSlot
      <4>5. InSlot \subseteq Unread /\ InSlot' \subseteq Unread
        BY <3>5 DEF InSlot
      <4> QED
        BY <3>7, <4>3, <4>4, <4>5
    <3>9. \A y : BQ!Cell(y) = CircGetIndex(y)
      BY DEF BQ!Cell, CircGetIndex
    <3>10. (Size + 1) - 1 = Size
      BY <2>0
    <3> QED
      BY <3>1, <3>2, <3>3, <3>4, <3>8, <3>9, <3>10 DEF BQ!Put, open, held
  <2>7. ASSUME NEW c \in Consumers, PopClaim(c) PROVE BQ!Take
    <3>1. /\ head' = head + 1 /\ tail' = tail /\ slots' = slots /\ got' = got
          /\ last' = [last EXCEPT ![d] = head] /\ pc[d] = "test" /\ pc' = [pc EXCEPT ![d] = "copy"]
          /\ c = d
      BY <2>1, <2>7, LoudSteps
    <3>2. head < tail
      BY <2>0, <3>1, Numbers DEF IInv
    <3>3. held = {} /\ held' = {head}
      BY <2>0, <2>1, <2>2, <3>1
    <3>4. open' = open
      BY <2>0, <2>1, <3>1 DEF open
    <3>5. Unread' = Unread
      BY <2>0, <2>2, <3>1, <3>2, <3>3 DEF Unread, held
    <3>6. InSlot' = InSlot
      BY <3>1, <3>5 DEF InSlot
    <3> QED
      BY <3>1, <3>2, <3>3, <3>4, <3>6 DEF BQ!Take, open, held
  <2>8. ASSUME NEW c \in Consumers, PopRead(c) PROVE BQ!HandOver(c)
    <3>1. /\ head' = head /\ tail' = tail /\ slots' = slots /\ last' = last
          /\ pc[d] = "copy" /\ pc' = [pc EXCEPT ![d] = "idle"] /\ c = d
      BY <2>1, <2>8, LoudSteps
    <3> DEFINE x == last[d]
    <3>2. x \in Nat /\ held = {x} /\ held' = {} /\ x = head - 1 /\ CircGetIndex(x) \in 0 .. Size
      BY <2>0, <2>1, <2>2, <3>1, IndexLemma
    <3>3. open' = open
      BY <2>0, <2>1, <3>1 DEF open
    <3>4. Unread' = Unread \ {x}
      BY <2>0, <2>2, <3>1, <3>2 DEF Unread, held
    <3>5. InSlot' = InSlot \ held
      BY <3>1, <3>2, <3>4 DEF InSlot
    <3>6. PICK m \in Contents(CircGetIndex(x)) : got' = [got EXCEPT ![d] = m]
      BY <2>8, <3>1 DEF PopRead
    <3>7. m \in BQ!Nothing .. tail - 1
      <4>1. slots[CircGetIndex(x)] \in Words \cup {-1} /\ slots[CircGetIndex(x)] < tail
        BY <2>0, <3>2 DEF SlotsOld, Garbage
      <4> QED
        BY <2>0, <3>2, <4>1, CircBufAssumption DEF Contents, BQ!Nothing, Garbage, Words
    <3>8. x \in InSlot => m = x
      BY <2>0, <3>2 DEF InSlot, Contents
    <3> QED
      BY <3>1, <3>2, <3>3, <3>5, <3>6, <3>7, <3>8 DEF BQ!HandOver, open, held
  <2>9. (\E p \in Producers : PushClaim(p) \/ PushWrite(p)) => BQ!Next
    <3>1. ASSUME NEW p \in Producers, PushWrite(p) PROVE BQ!Next
      BY <2>6, <3>1 DEF BQ!Next, open
    <3>2. ASSUME NEW p \in Producers, PushClaim(p) PROVE BQ!Next
      BY <2>5, <3>2 DEF BQ!Next
    <3> QED
      BY <3>1, <3>2
  <2>10. (\E c \in Consumers : PopClaim(c) \/ PopRead(c)) => BQ!Next
    BY <2>7, <2>8 DEF BQ!Next
  <2> QED
    BY <2>4, <2>9, <2>10, QuietStep, Zenon
<1> QED
  BY <1>1, <1>2, ContentHolds, PTL DEF Spec

-----------------------------------------------------------------------------
(* One producer: what was stored is still there when it is read.           *)

\* Two positions less than a lap apart have different slots.
LEMMA SlotsDiffer ==
  ASSUME NEW x \in Nat, NEW y \in Nat, x < y, y - x <= Size
  PROVE  CircGetIndex(x) # CircGetIndex(y)
<1> DEFINE n == Size + 1
           q == x \div n
           r == y \div n
<1>1. n \in Nat /\ n > 0
  BY CircBufAssumption
<1> HIDE DEF n
<1>2. x = n * q + (x % n) /\ y = n * r + (y % n)
  BY <1>1
<1>3. q \in Int /\ r \in Int /\ x % n \in Int
  BY <1>1
<1> SUFFICES ASSUME x % n = y % n PROVE FALSE
  BY DEF CircGetIndex, n
<1> HIDE DEF q, r
<1>4. n * (r - q) = n * r - n * q /\ n * r \in Int /\ n * q \in Int
  BY <1>1, <1>3
<1>5. y - x = n * (r - q) /\ r - q \in Int
  BY <1>2, <1>3, <1>4
<1>6. ASSUME NEW d \in Int, n * d > 0 PROVE n * d >= n
  BY <1>1, <1>6
<1>7. y - x >= n
  BY <1>5, <1>6
<1> QED
  BY <1>7, CircBufAssumption DEF n

\* With one producer, the invariant behind UnreadKept.
SoleInv == IInv /\ SoleProducer /\ UnreadKept

\* No step of the only producer or of the consumer breaks SoleInv.
LEMMA SoleStep ==
  ASSUME NEW s \in Producers, Producers = {s}, SoleInv, IInv', [Next]_vars
  PROVE  SoleProducer' /\ UnreadKept'
<1> PICK d \in Consumers : Consumers = {d}
  BY CircQueueInvAssumption
<1> s \in Threads /\ d \in Threads /\ s # d
  BY CircQueueAssumption DEF Threads
<1>0. /\ head \in Nat /\ tail \in Nat /\ head <= tail
      /\ tail - head <= Size
      /\ last[s] = tail - 1 /\ last[d] = head - 1
      /\ Size \in Nat
  <2>1. Cardinality(Producers) = 1
    BY FS_Singleton
  <2> QED
    BY <2>1, Numbers, IInvOccupancy, CircBufAssumption
    DEF SoleInv, SoleProducer, IInv, ClaimedOK, Occupancy
\* Each position a pop has still to read is at or above head - 1, and the one
\* the producer has not stored yet is tail - 1.
<1>1. /\ \A x \in Unread : x \in Int /\ head - 1 <= x /\ x <= tail - 1
      /\ \A x \in Int : Filled(x) <=> ~(pc[s] = "copy" /\ x = tail - 1)
  BY <1>0 DEF Unread, Filled
<1>2. ASSUME tail' = tail, last' = last, slots' = slots,
             pc'[s] = "copy" <=> pc[s] = "copy", Unread' \subseteq Unread
      PROVE  SoleProducer' /\ UnreadKept'
  BY <1>2 DEF SoleInv, SoleProducer, UnreadKept, Filled
<1>3. CASE \E x \in Threads, w \in Nat : Call(x, w) \/ LoadHead(x) \/ LoadTail(x) \/ Timeout(x)
  <2>1. /\ tail' = tail /\ head' = head /\ last' = last /\ slots' = slots
        /\ pc'[s] = "copy" <=> pc[s] = "copy"
        /\ pc'[d] = "copy" <=> pc[d] = "copy"
    BY <1>3 DEF Call, LoadHead, LoadTail, Timeout, SoleInv, IInv, TypeOK
  <2> QED
    BY <1>2, <2>1 DEF Unread
<1>4. CASE PushFull(s) \/ PopEmpty(d)
  <2>1. /\ tail' = tail /\ head' = head /\ last' = last /\ slots' = slots
        /\ pc'[s] = "copy" <=> pc[s] = "copy"
        /\ pc'[d] = "copy" <=> pc[d] = "copy"
    BY <1>4 DEF PushFull, PopEmpty, Again, SoleInv, IInv, TypeOK
  <2> QED
    BY <1>2, <2>1 DEF Unread
\* The claim adds a position nobody has stored yet.
<1>5. CASE PushClaim(s)
  <2>1. /\ tail' = tail + 1 /\ head' = head /\ slots' = slots
        /\ last'[s] = tail /\ last'[d] = last[d]
        /\ pc[s] = "test" /\ pc'[s] = "copy" /\ pc'[d] = pc[d]
    BY <1>5, Numbers DEF PushClaim, Claimed, SoleInv, IInv, TypeOK
  <2>2. \A x \in Unread' : x \in Unread \/ x = tail
    BY <1>0, <2>1 DEF Unread
  <2>3. ASSUME NEW x \in Unread', Filled(x)' PROVE slots'[CircGetIndex(x)] = x
    <3>1. x # tail
      BY <2>1, <2>3 DEF Filled
    <3>2. x \in Unread /\ Filled(x)
      BY <1>1, <2>1, <2>2, <3>1
    <3> QED
      BY <2>1, <3>2 DEF SoleInv, UnreadKept
  <2> QED
    BY <1>0, <2>1, <2>3 DEF SoleProducer, UnreadKept
\* The store: the slot of tail - 1 is no other unread position's.
<1>6. CASE PushWrite(s)
  <2>1. /\ tail' = tail /\ head' = head /\ last' = last
        /\ slots' = [slots EXCEPT ![CircGetIndex(tail - 1)] = tail - 1]
        /\ pc[s] = "copy" /\ pc'[s] # "copy" /\ pc'[d] = pc[d]
    BY <1>0, <1>6 DEF PushWrite, SoleInv, IInv, TypeOK
  <2>2. tail >= 1
    BY <1>0, <2>1 DEF SoleInv, IInv, TypeOK
  <2>3. Unread' = Unread
    BY <2>1 DEF Unread
  <2>4. ASSUME NEW x \in Unread PROVE slots'[CircGetIndex(x)] = x
    <3>1. x \in Nat /\ tail - 1 \in Nat
      <4>1. CASE x \in head .. tail - 1
        BY <1>0, <2>2, <4>1
      <4>2. CASE x \notin head .. tail - 1
        <5>1. x = last[d] /\ pc[d] = "copy"
          BY <2>4, <4>2 DEF Unread
        <5> QED
          BY <1>0, <2>2, <5>1 DEF SoleInv, IInv, TypeOK
      <4> QED
        BY <4>1, <4>2
    <3>2. CircGetIndex(x) \in 0 .. Size /\ slots \in [0 .. Size -> Words \cup {Garbage}]
      BY <3>1, IndexLemma DEF SoleInv, IInv, TypeOK
    <3>3. CASE x = tail - 1
      BY <2>1, <3>2, <3>3
    <3>4. CASE x # tail - 1
      <4>1. x < tail - 1 /\ (tail - 1) - x <= Size
        BY <1>0, <1>1, <3>4
      <4>2. CircGetIndex(x) # CircGetIndex(tail - 1)
        BY <3>1, <4>1, SlotsDiffer
      <4>3. Filled(x)
        BY <1>1, <3>1, <3>4
      <4> QED
        BY <2>1, <3>2, <4>2, <4>3 DEF SoleInv, UnreadKept
    <3> QED
      BY <3>3, <3>4
  <2> QED
    BY <1>0, <2>1, <2>3, <2>4 DEF SoleProducer, UnreadKept
\* The position the consumer claims was in the ring.
<1>7. CASE PopClaim(d)
  <2>1. /\ tail' = tail /\ head' = head + 1 /\ slots' = slots
        /\ last'[s] = last[s] /\ last'[d] = head
        /\ pc'[s] = pc[s]
    BY <1>7, Numbers DEF PopClaim, SoleInv, IInv, TypeOK, Again, Claimed
  <2>2. head < tail
    BY <1>0, <2>1, Numbers DEF IInv
  <2>3. \A x \in Unread' : x \in Unread
    BY <1>0, <2>1, <2>2 DEF Unread
  <2> QED
    BY <1>0, <2>1, <2>3 DEF SoleInv, SoleProducer, UnreadKept, Filled
<1>8. CASE PopRead(d)
  <2>1. /\ tail' = tail /\ head' = head /\ last' = last /\ slots' = slots
        /\ pc'[s] = pc[s] /\ pc'[d] # "copy"
    BY <1>8 DEF PopRead, SoleInv, IInv, TypeOK
  <2>2. Unread' \subseteq Unread
    BY <2>1 DEF Unread
  <2> QED
    BY <1>2, <2>1, <2>2
<1>9. CASE UNCHANGED vars
  BY <1>2, <1>9 DEF vars, Unread
<1> QED
  BY <1>3, <1>4, <1>5, <1>6, <1>7, <1>8, <1>9, CircQueueAssumption
  DEF Next, PushCall, Push, PopCall, Pop

\* With one producer no store hits a slot whose message is still to be read:
\* the gap of CIRC_IS_FULL covers the slot the consumer is copying from.
THEOREM UnreadKeptHolds ==
  ASSUME NEW s \in Producers, Producers = {s}
  PROVE  Spec => []UnreadKept
<1>1. Init => SoleProducer /\ UnreadKept
  BY DEF Init, SoleProducer, UnreadKept, Unread, Threads
<1>2. SoleInv /\ IInv' /\ [Next]_vars => SoleProducer' /\ UnreadKept'
  BY SoleStep
<1> QED
  BY <1>1, <1>2, Inductive, PTL DEF Spec, SoleInv

-----------------------------------------------------------------------------
(* The size of the ring.                                                   *)

\* The recursion of Pow2 is solved by a function (Recursion), so by Pow2.
LEMMA Pow2Equation ==
  /\ Pow2[0] = 1
  /\ \A k \in 1 .. 30 : Pow2[k] = 2 * Pow2[k - 1]
<1> DEFINE Is(f) == f = [k \in 0 .. 30 |-> IF k = 0 THEN 1 ELSE 2 * f[k - 1]]
           T == [k \in Nat |-> [q \in Nat |-> 2 * q]]
<1>1. T \in [Nat -> [Nat -> Nat]] /\ \A k \in Nat, q \in Nat : T[k][q] = 2 * q
  OBVIOUS
<1> HIDE DEF T
<1>2. PICK f \in [0 .. 30 -> Nat] : Follows(f, 1, T, 30)
  BY <1>1, Recursion
<1>3. f[0] = 1 /\ \A k \in 1 .. 30 : f[k] = 2 * f[k - 1]
  <2>1. ASSUME NEW k \in 1 .. 30 PROVE f[k] = 2 * f[k - 1]
    <3>1. k \in Nat /\ k - 1 \in 0 .. 30
      OBVIOUS
    <3>2. f[k - 1] \in Nat
      BY <1>2, <3>1
    <3>3. f[k] = T[k][f[k - 1]]
      BY <1>2 DEF Follows
    <3> QED
      BY <1>1, <3>1, <3>2, <3>3
  <2> QED
    BY <1>2, <2>1 DEF Follows
<1>4. Is(f)
  BY <1>2, <1>3
<1>5. Pow2 = CHOOSE g : Is(g)
  BY DEF Pow2
<1>6. Is(Pow2)
  BY <1>4, <1>5
<1> QED
  BY <1>6

\* Powers of two are positive.
LEMMA Pow2Type == \A k \in 0 .. 30 : Pow2[k] \in Nat /\ Pow2[k] > 0
<1> DEFINE S == {k \in 0 .. 30 : Pow2[k] \in Nat /\ Pow2[k] > 0}
<1>1. 0 \in S
  BY Pow2Equation
<1>2. ASSUME NEW k \in 1 .. 30, k - 1 \in S PROVE k \in S
  BY <1>2, Pow2Equation
<1>3. 0 .. 30 \subseteq S
  <2> HIDE DEF S
  <2> QED
    BY <1>1, <1>2, UpTo
<1> QED
  BY <1>3

\* Each is at least twice any before it.
LEMMA Pow2Less ==
  ASSUME NEW j \in 0 .. 30, NEW k \in 0 .. 30, j < k
  PROVE  2 * Pow2[j] <= Pow2[k]
<1> DEFINE S == {c \in 0 .. 30 : j < c => 2 * Pow2[j] <= Pow2[c]}
<1>1. 0 \in S
  OBVIOUS
<1>2. ASSUME NEW c \in 1 .. 30, c - 1 \in S PROVE c \in S
  <2>1. c - 1 \in 0 .. 30 /\ (j < c - 1 => 2 * Pow2[j] <= Pow2[c - 1])
    BY <1>2
  <2>2. Pow2[c] = 2 * Pow2[c - 1]
    BY Pow2Equation
  <2>3. Pow2[c] \in Nat /\ Pow2[c - 1] \in Nat /\ Pow2[j] \in Nat
    BY <2>1, Pow2Type
  <2>4. CASE j < c - 1
    <3>1. 2 * Pow2[j] <= Pow2[c]
      BY <2>1, <2>2, <2>3, <2>4
    <3> QED
      BY <3>1
  <2>5. CASE j = c - 1
    <3>1. 2 * Pow2[j] <= Pow2[c]
      BY <2>2, <2>3, <2>5
    <3> QED
      BY <3>1
  <2> QED
    BY <2>1, <2>4, <2>5
<1>3. 0 .. 30 \subseteq S
  <2> HIDE DEF S
  <2> QED
    BY <1>1, <1>2, UpTo
<1> QED
  BY <1>3

\* Value adds up what the bits are worth.
LEMMA ValueSums ==
  ASSUME NEW x
  PROVE  \E f : /\ f[0] = 0
                /\ \A k \in 1 .. 31 : f[k] = f[k - 1] + (IF k - 1 \in x THEN Pow2[k - 1] ELSE 0)
                /\ Value(x) = f[31]
<1> DEFINE Worth(k) == IF k - 1 \in x THEN Pow2[k - 1] ELSE 0
           Is(f) == f = [k \in 0 .. 31 |-> IF k = 0 THEN 0 ELSE f[k - 1] + Worth(k)]
           T == [k \in Nat |-> [q \in Nat |-> IF k \in 1 .. 31 THEN q + Worth(k) ELSE q]]
<1>1. \A k \in 1 .. 31 : Worth(k) \in Nat
  BY Pow2Type
<1>2. T \in [Nat -> [Nat -> Nat]] /\ \A k \in 1 .. 31, q \in Nat : T[k][q] = q + Worth(k)
  <2> HIDE DEF Worth
  <2> QED
    BY <1>1
<1>3. Value(x) = (CHOOSE f : Is(f))[31]
  BY DEF Value
<1>4. \E f : Is(f)
  <2> HIDE DEF T, Worth
  <2>1. PICK f \in [0 .. 31 -> Nat] : Follows(f, 0, T, 31)
    BY <1>2, Recursion
  <2>2. f[0] = 0 /\ \A k \in 1 .. 31 : f[k] = f[k - 1] + Worth(k)
    <3>1. ASSUME NEW k \in 1 .. 31 PROVE f[k] = f[k - 1] + Worth(k)
      <4>1. k - 1 \in 0 .. 31
        OBVIOUS
      <4>2. f[k - 1] \in Nat
        BY <2>1, <4>1
      <4>3. f[k] = T[k][f[k - 1]]
        BY <2>1 DEF Follows
      <4> QED
        BY <1>2, <4>2, <4>3
    <3> QED
      BY <2>1, <3>1 DEF Follows
  <2>3. Is(f)
    BY <2>1, <2>2
  <2> QED
    BY <2>3
<1>5. PICK f : Is(f) /\ Value(x) = f[31]
  BY <1>3, <1>4
<1>6. f[0] = 0 /\ \A k \in 1 .. 31 : f[k] = f[k - 1] + Worth(k)
  <2> HIDE DEF Worth
  <2> QED
    BY <1>5
<1> QED
  BY <1>5, <1>6

\* m + 1 ones are worth the next power of two less one: the sum up to k is
\* 2^k - 1 as long as the ones last, and stays.
LEMMA ValueOfInterval ==
  ASSUME NEW m \in -1 .. 29
  PROVE  Value(0 .. m) = Pow2[m + 1] - 1
<1> DEFINE x == 0 .. m
           Worth(k) == IF k - 1 \in x THEN Pow2[k - 1] ELSE 0
<1>1. PICK f : /\ f[0] = 0
               /\ \A k \in 1 .. 31 : f[k] = f[k - 1] + Worth(k)
               /\ Value(x) = f[31]
  <2> HIDE DEF x
  <2> QED
    BY ValueSums
<1>2. f[0] = 0 /\ \A k \in 1 .. 31 : f[k] = f[k - 1] + Worth(k)
  BY <1>1
<1> DEFINE Sum(k) == f[k] = Pow2[IF k <= m THEN k ELSE m + 1] - 1
           S == {k \in 0 .. 31 : Sum(k)}
<1>3. 0 \in S
  BY <1>2, Pow2Equation
<1>4. ASSUME NEW k \in 1 .. 31, k - 1 \in S PROVE k \in S
  <2>1. CASE k <= m + 1
    <3>1. Worth(k) = Pow2[k - 1] /\ f[k - 1] = Pow2[k - 1] - 1
      BY <1>4, <2>1
    <3>2. Pow2[k] = 2 * Pow2[k - 1] /\ Pow2[k - 1] \in Nat
      BY <2>1, Pow2Equation, Pow2Type
    <3> HIDE DEF Worth
    <3>3. f[k] = Pow2[k] - 1
      BY <1>2, <3>1, <3>2
    <3> QED
      BY <2>1, <3>3
  <2>2. CASE k > m + 1
    <3>1. Worth(k) = 0 /\ f[k - 1] = Pow2[m + 1] - 1
      BY <1>4, <2>2
    <3> HIDE DEF Worth
    <3>2. Pow2[m + 1] \in Nat
      BY Pow2Type
    <3> QED
      BY <1>2, <3>1, <3>2, <2>2
  <2> QED
    BY <2>1, <2>2
<1>5. 31 \in S
  <2>1. 0 .. 31 \subseteq S
    <3> HIDE DEF S
    <3> QED
      BY <1>3, <1>4, UpTo
  <2> QED
    BY <2>1
<1>6. f[31] = Pow2[m + 1] - 1
  BY <1>5
<1>7. Value(x) = f[31]
  BY <1>1
<1> QED
  BY <1>6, <1>7

\* Dividing by a power of two shifts: the highest bit of n is m.
LEMMA HighestBit ==
  ASSUME NEW n \in Nat, NEW m \in 0 .. 29, Pow2[m] <= n, n < Pow2[m + 1]
  PROVE  m \in Bits(n) /\ Bits(n) \subseteq 0 .. m
<1>1. Pow2[m] \in Nat /\ Pow2[m] > 0 /\ Pow2[m + 1] = 2 * Pow2[m]
  BY Pow2Equation, Pow2Type
<1>2. n \div Pow2[m] = 1
  <2> DEFINE p == Pow2[m]
  <2>1. p \in Nat /\ p > 0 /\ p <= n /\ n < 2 * p
    BY <1>1
  <2> HIDE DEF p
  <2>2. n \div p = 1
    BY <2>1
  <2> QED
    BY <2>2 DEF p
<1>3. ASSUME NEW bit \in 0 .. 30, bit > m PROVE bit \notin Bits(n)
  <2> DEFINE p == Pow2[bit]
  <2>1. p \in Nat /\ n < p
    <3>1. Pow2[bit] \in Nat /\ 2 * Pow2[m] <= Pow2[bit]
      BY <1>3, Pow2Less, Pow2Type
    <3> QED
      BY <1>1, <3>1
  <2>2. n \div p = 0
    <3> HIDE DEF p
    <3> QED
      BY <2>1
  <2> QED
    BY <2>2 DEF Bits
<1>4. m \in Bits(n)
  BY <1>2 DEF Bits
<1>5. ASSUME NEW bit \in Bits(n) PROVE bit \in 0 .. m
  <2>1. bit \in 0 .. 30
    BY DEF Bits
  <2>2. ~(bit > m)
    BY <1>3, <2>1
  <2> QED
    BY <2>1, <2>2
<1> QED
  BY <1>4, <1>5

\* Of the bits 0 to m the k highest are in x, and none above.
TopFull(x, m, k) == x \subseteq 0 .. m /\ \A bit \in 0 .. m : bit > m - k => bit \in x

\* x |= x >> k doubles the length of the block of ones at the top.
LEMMA SmearFills ==
  ASSUME NEW m \in 0 .. 29, NEW k \in Nat, NEW x, TopFull(x, m, k)
  PROVE  TopFull(Smear(x, k), m, 2 * k)
<1>1. ASSUME NEW bit \in Smear(x, k) PROVE bit \in 0 .. m
  BY DEF TopFull, Smear
<1>2. ASSUME NEW bit \in 0 .. m, bit > m - 2 * k PROVE bit \in Smear(x, k)
  <2>1. CASE bit > m - k
    BY <2>1 DEF TopFull, Smear
  <2>2. CASE bit <= m - k
    <3>1. bit + k \in 0 .. m /\ bit + k > m - k /\ bit \in 0 .. 30
      BY <1>2, <2>2
    <3>2. bit + k \in x
      BY <3>1 DEF TopFull
    <3> QED
      BY <3>1, <3>2 DEF Smear
  <2> QED
    BY <2>1, <2>2
<1> QED
  BY <1>1, <1>2 DEF TopFull

\* A word lies between two neighbouring powers of two.
LEMMA HighestPower ==
  ASSUME NEW n \in Nat, 0 < n, n < Pow2[30]
  PROVE  \E m \in 0 .. 29 : Pow2[m] <= n /\ n < Pow2[m + 1]
<1> DEFINE Above == {k \in 0 .. 30 : n < Pow2[k]}
<1>1. PICK k \in Above : \A j \in Above : k <= j
  <2>1. Above \in SUBSET Nat /\ 30 \in Above
    OBVIOUS
  <2> HIDE DEF Above
  <2> QED
    BY <2>1, LeastNumber
<1>2. k # 0
  BY Pow2Equation
<1>3. k - 1 \in 0 .. 29 /\ k - 1 \in 0 .. 30 /\ k - 1 \notin Above /\ (k - 1) + 1 = k
  BY <1>1, <1>2
<1>4. Pow2[k - 1] <= n /\ n < Pow2[(k - 1) + 1]
  BY <1>3, Pow2Type
<1> QED
  BY <1>3, <1>4

\* For 2^m < c <= 2^(m + 1)
LEMMA PowerFound ==
  ASSUME NEW length \in Nat, NEW m \in 0 .. 29, Pow2[m] <= length - 1, length - 1 < Pow2[m + 1]
  PROVE  get_powerof2(length) = Pow2[m + 1]
<1> DEFINE x0 == Bits(length - 1)
           x1 == Smear(x0, 1)
           x2 == Smear(x1, 2)
           x4 == Smear(x2, 4)
           x8 == Smear(x4, 8)
           x16 == Smear(x8, 16)
<1>1. length - 1 \in Nat
  BY Pow2Type
<1>2. TopFull(x0, m, 1)
  BY <1>1, HighestBit DEF TopFull
<1>3. get_powerof2(length) = Value(x16) + 1
  BY <1>1 DEF get_powerof2
<1> HIDE DEF x0
<1>4. TopFull(x1, m, 2)
  BY <1>2, SmearFills
<1> HIDE DEF x1
<1>5. TopFull(x2, m, 4)
  BY <1>4, SmearFills
<1> HIDE DEF x2
<1>6. TopFull(x4, m, 8)
  BY <1>5, SmearFills
<1> HIDE DEF x4
<1>7. TopFull(x8, m, 16)
  BY <1>6, SmearFills
<1> HIDE DEF x8
<1>8. TopFull(x16, m, 32)
  BY <1>7, SmearFills
<1> HIDE DEF x16
<1>9. x16 = 0 .. m
  <2>1. x16 \subseteq 0 .. m /\ \A bit \in 0 .. m : bit > m - 32 => bit \in x16
    BY <1>8 DEF TopFull
  <2>2. ASSUME NEW bit \in 0 .. m PROVE bit \in x16
    BY <2>1
  <2> QED
    BY <2>1, <2>2
<1>10. Value(x16) = Pow2[m + 1] - 1
  <2>1. m \in -1 .. 29
    OBVIOUS
  <2>2. Value(0 .. m) = Pow2[m + 1] - 1
    BY <2>1, ValueOfInterval
  <2> QED
    BY <1>9, <2>2
<1> QED
  BY <1>3, <1>10, Pow2Type

\* Min of the module FiniteSetsExt
LEMMA LeastIsMin ==
  ASSUME NEW S \in SUBSET Nat, NEW x \in S, \A y \in S : x <= y
  PROVE  Min(S) = x
<1> DEFINE Least(z) == z \in S /\ \A y \in S : z <= y
<1>1. Min(S) = CHOOSE z : Least(z)
  BY DEF Min
<1>2. Least(x)
  OBVIOUS
<1>3. Least(Min(S))
  <2> HIDE DEF Least
  <2> QED
    BY <1>1, <1>2
<1>4. Min(S) <= x /\ x <= Min(S) /\ Min(S) \in Nat /\ x \in Nat
  BY <1>3
<1> QED
  BY <1>4

\* get_powerof2 answers the least power of two not below its argument, for every
\* length up to 2^30: from the highest bit of length - 1 on, five shifts fill all
\* 32 places with ones.
THEOREM LeastPowerHolds == LeastPower
<1> SUFFICES ASSUME NEW length \in 0 .. MaxLength
             PROVE  get_powerof2(length) = Min({p \in {Pow2[k] : k \in 0 .. 30} : p >= length})
  BY DEF LeastPower
<1> DEFINE Enough == {p \in {Pow2[k] : k \in 0 .. 30} : p >= length}
<1>1. length \in Nat /\ length <= Pow2[30]
  BY PowerAssumption, Pow2Type
<1>2. Enough \in SUBSET Nat
  BY Pow2Type
<1>3. CASE length <= 1
  <2>1. get_powerof2(length) = 1
    <3>1. CASE length = 0
      BY <3>1 DEF get_powerof2
    <3>2. CASE length = 1
      <4>1. Bits(0) = {}
        <5>1. ASSUME NEW bit \in 0 .. 30 PROVE (0 \div Pow2[bit]) % 2 # 1
          <6> DEFINE p == Pow2[bit]
          <6>1. p \in Nat /\ p > 0
            BY Pow2Type
          <6> HIDE DEF p
          <6>2. 0 \div p = 0
            BY <6>1
          <6> QED
            BY <6>2 DEF p
        <5> QED
          BY <5>1 DEF Bits
      <4>2. \A k : Smear({}, k) = {}
        BY DEF Smear
      <4>3. Value({}) = 0
        <5>1. -1 \in -1 .. 29 /\ 0 .. -1 = {} /\ -1 + 1 = 0
          OBVIOUS
        <5> QED
          BY <5>1, ValueOfInterval, Pow2Equation
      <4> QED
        BY <3>2, <4>1, <4>2, <4>3 DEF get_powerof2
    <3> QED
      BY <1>1, <1>3, <3>1, <3>2
  <2>2. 1 \in Enough /\ \A p \in Enough : 1 <= p
    BY <1>1, <1>3, Pow2Equation, Pow2Type
  <2> QED
    BY <1>2, <2>1, <2>2, LeastIsMin
<1>4. CASE length > 1
  <2>1. length - 1 \in Nat /\ 0 < length - 1 /\ length - 1 < Pow2[30]
    BY <1>1, <1>4, Pow2Type
  <2>2. PICK m \in 0 .. 29 : Pow2[m] <= length - 1 /\ length - 1 < Pow2[m + 1]
    BY <2>1, HighestPower
  <2>3. get_powerof2(length) = Pow2[m + 1]
    BY <1>1, <2>2, PowerFound
  <2>4. Pow2[m + 1] \in Enough
    BY <1>1, <2>2, Pow2Type
  <2>5. ASSUME NEW k \in 0 .. 30, Pow2[k] >= length PROVE Pow2[m + 1] <= Pow2[k]
    <3>1. Pow2[k] \in Nat /\ Pow2[m] \in Nat /\ Pow2[m + 1] \in Nat
      BY Pow2Type
    <3>2. CASE k < m
      <4>1. 2 * Pow2[k] <= Pow2[m]
        BY <3>2, Pow2Less
      <4> QED
        BY <1>1, <2>2, <2>5, <3>1, <4>1
    <3>3. CASE k = m
      BY <1>1, <2>2, <2>5, <3>1, <3>3
    <3>4. CASE k = m + 1
      BY <3>1, <3>4
    <3>5. CASE k > m + 1
      <4>1. 2 * Pow2[m + 1] <= Pow2[k]
        BY <3>5, Pow2Less
      <4> QED
        BY <3>1, <4>1
    <3> QED
      BY <3>2, <3>3, <3>4, <3>5
  <2>6. \A p \in Enough : Pow2[m + 1] <= p
    BY <2>5
  <2>7. Min(Enough) = Pow2[m + 1]
    <3> HIDE DEF Enough
    <3> QED
      BY <1>2, <2>4, <2>6, LeastIsMin
  <2> QED
    BY <2>3, <2>7
<1> QED
  BY <1>1, <1>3, <1>4

\* Quotient and remainder are unique.
LEMMA DivMod ==
  ASSUME NEW x \in Nat, NEW y \in Nat, y > 0, NEW q \in Nat, NEW s \in 0 .. y - 1, x = q * y + s
  PROVE  x \div y = q /\ x % y = s
<1>1. PICK d \in Nat, r \in 0 .. y - 1 : d = x \div y /\ r = x % y /\ x = d * y + r
  OBVIOUS
<1>2. CASE d = q
  BY <1>1, <1>2
<1>3. CASE d > q
  <2>1. PICK e \in Nat : d = q + 1 + e
    BY <1>3
  <2>2. d * y = q * y + y + e * y /\ e * y >= 0
    BY <2>1
  <2> QED
    BY <1>1, <2>2
<1>4. CASE d < q
  <2>1. PICK e \in Nat : q = d + 1 + e
    BY <1>4
  <2>2. q * y = d * y + y + e * y /\ e * y >= 0
    BY <2>1
  <2> QED
    BY <1>1, <2>2
<1> QED
  BY <1>2, <1>3, <1>4

\* One more bit
LEMMA NextBit ==
  ASSUME NEW n \in Nat, NEW p \in Nat, p > 0
  PROVE  n % (2 * p) = (n % p) + (IF (n \div p) % 2 = 1 THEN p ELSE 0)
<1> DEFINE q == n \div p
           r == n % p
<1>1. q \in Nat /\ r \in 0 .. p - 1 /\ n = q * p + r
  OBVIOUS
<1>2. PICK half \in Nat, bit \in 0 .. 1 : q = 2 * half + bit /\ bit = q % 2
  <2> HIDE DEF q
  <2> QED
    BY <1>1
<1> HIDE DEF q, r
<1>3. 2 * p \in Nat /\ 2 * p > 0 /\ bit * p + r \in 0 .. (2 * p) - 1
  <2>1. CASE bit = 0
    BY <1>1, <2>1
  <2>2. CASE bit = 1
    BY <1>1, <2>2
  <2> QED
    BY <2>1, <2>2
<1>4. n = half * (2 * p) + (bit * p + r)
  BY <1>1, <1>2
<1>5. n % (2 * p) = bit * p + r
  BY <1>3, <1>4, DivMod
<1>6. bit * p + r = r + (IF bit = 1 THEN p ELSE 0)
  <2>1. CASE bit = 0
    BY <1>1, <2>1
  <2>2. CASE bit = 1
    BY <1>1, <2>2
  <2> QED
    BY <2>1, <2>2
<1> QED
  BY <1>2, <1>5, <1>6 DEF q, r

\* Powers multiply.
LEMMA Pow2Product ==
  ASSUME NEW m \in 0 .. 30
  PROVE  \A j \in 0 .. m : Pow2[m] = Pow2[j] * Pow2[m - j]
<1> DEFINE S == {j \in 0 .. m : Pow2[m] = Pow2[j] * Pow2[m - j]}
<1>1. 0 \in S
  BY Pow2Equation, Pow2Type
<1>2. ASSUME NEW j \in 1 .. m, j - 1 \in S PROVE j \in S
  <2>1. Pow2[m] = Pow2[j - 1] * Pow2[m - (j - 1)]
    BY <1>2
  <2>2. Pow2[j] = 2 * Pow2[j - 1] /\ Pow2[m - (j - 1)] = 2 * Pow2[m - j]
    <3>1. j \in 1 .. 30 /\ m - (j - 1) \in 1 .. 30 /\ (m - (j - 1)) - 1 = m - j
      OBVIOUS
    <3> QED
      BY <3>1, Pow2Equation
  <2>3. Pow2[j - 1] \in Nat /\ Pow2[m - j] \in Nat
    BY Pow2Type
  <2> QED
    BY <2>1, <2>2, <2>3
<1>3. 0 .. m \subseteq S
  <2> HIDE DEF S
  <2> QED
    BY <1>1, <1>2, UpTo
<1> QED
  BY <1>3

\* A power of two less one is a row of ones.
LEMMA BitsOfMask ==
  ASSUME NEW m \in 0 .. 30
  PROVE  Bits(Pow2[m] - 1) = 0 .. m - 1
<1>1. ASSUME NEW bit \in 0 .. 30, bit < m PROVE ((Pow2[m] - 1) \div Pow2[bit]) % 2 = 1
  <2> DEFINE p == Pow2[bit]
             c == Pow2[m - bit - 1]
  <2>1. Pow2[m] = p * (2 * c) /\ p \in Nat /\ p > 0 /\ c \in Nat /\ c > 0
    <3>1. bit \in 0 .. m /\ m - bit \in 1 .. 30 /\ (m - bit) - 1 = m - bit - 1 /\ m - bit - 1 \in 0 .. 30
      BY <1>1
    <3>2. Pow2[m] = Pow2[bit] * Pow2[m - bit] /\ Pow2[m - bit] = 2 * c
      BY <3>1, Pow2Product, Pow2Equation
    <3> QED
      BY <3>1, <3>2, Pow2Type
  <2> HIDE DEF p, c
  <2>2. Pow2[m] - 1 = (2 * c - 1) * p + (p - 1) /\ Pow2[m] - 1 \in Nat /\ 2 * c - 1 \in Nat
    <3>1. p * (2 * c) = (2 * c - 1) * p + p
      BY <2>1
    <3>2. (2 * c - 1) * p >= 0
      BY <2>1
    <3> QED
      BY <2>1, <3>1, <3>2
  <2>3. (Pow2[m] - 1) \div p = 2 * c - 1
    <3>1. p - 1 \in 0 .. p - 1
      BY <2>1
    <3> QED
      BY <2>1, <2>2, <3>1, DivMod
  <2>4. (2 * c - 1) % 2 = 1
    BY <2>1
  <2> QED
    BY <2>3, <2>4 DEF p
<1>2. ASSUME NEW bit \in 0 .. 30, bit >= m PROVE ((Pow2[m] - 1) \div Pow2[bit]) % 2 # 1
  <2>1. Pow2[m] <= Pow2[bit] /\ Pow2[m] \in Nat /\ Pow2[bit] \in Nat /\ Pow2[m] > 0
    <3>1. CASE bit = m
      BY <3>1, Pow2Type
    <3>2. CASE bit > m
      BY <3>2, Pow2Less, Pow2Type
    <3> QED
      BY <1>2, <3>1, <3>2
  <2>2. (Pow2[m] - 1) \div Pow2[bit] = 0
    <3> DEFINE n == Pow2[m] - 1
               p == Pow2[bit]
    <3>1. n \in Nat /\ p \in Nat /\ n < p
      BY <2>1
    <3> HIDE DEF n, p
    <3>2. n \div p = 0
      BY <3>1
    <3> QED
      BY <3>2 DEF n, p
  <2> QED
    BY <2>2
<1> QED
  BY <1>1, <1>2 DEF Bits

\* The bits of n below m are worth the remainder of n by 2^m.
LEMMA ValueOfLowBits ==
  ASSUME NEW n \in Nat, NEW m \in 0 .. 30
  PROVE  Value(Bits(n) \cap 0 .. m - 1) = n % Pow2[m]
<1> DEFINE x == Bits(n) \cap 0 .. m - 1
           Worth(k) == IF k - 1 \in x THEN Pow2[k - 1] ELSE 0
<1>1. PICK f : /\ f[0] = 0
               /\ \A k \in 1 .. 31 : f[k] = f[k - 1] + Worth(k)
               /\ Value(x) = f[31]
  <2> HIDE DEF x
  <2> QED
    BY ValueSums
<1> DEFINE Sum(k) == f[k] = n % Pow2[IF k <= m THEN k ELSE m]
           S == {k \in 0 .. 31 : Sum(k)}
<1>2. 0 \in S
  BY <1>1, Pow2Equation
<1>3. ASSUME NEW k \in 1 .. 31, k - 1 \in S PROVE k \in S
  <2>1. CASE k <= m
    <3> DEFINE p == Pow2[k - 1]
    <3>1. f[k - 1] = n % p
      BY <1>3, <2>1
    <3>2. Pow2[k] = 2 * p /\ p \in Nat /\ p > 0
      BY <2>1, Pow2Equation, Pow2Type
    <3>3. Worth(k) = IF (n \div p) % 2 = 1 THEN p ELSE 0
      <4>1. k - 1 \in 0 .. 30 /\ k - 1 \in 0 .. m - 1
        BY <2>1
      <4> QED
        BY <4>1 DEF Bits
    <3> HIDE DEF Worth, p
    <3>4. f[k] = n % Pow2[k]
      BY <1>1, <3>1, <3>2, <3>3, NextBit
    <3> QED
      BY <2>1, <3>4
  <2>2. CASE k > m
    <3>1. Worth(k) = 0 /\ f[k - 1] = n % Pow2[m]
      BY <1>3, <2>2
    <3> HIDE DEF Worth
    <3>2. n % Pow2[m] \in Nat
      BY Pow2Type
    <3> QED
      BY <1>1, <3>1, <3>2, <2>2
  <2> QED
    BY <2>1, <2>2
<1>4. 31 \in S
  <2>1. 0 .. 31 \subseteq S
    <3> HIDE DEF S
    <3> QED
      BY <1>2, <1>3, UpTo
  <2> QED
    BY <2>1
<1> QED
  BY <1>1, <1>4

\* The macro CIRC_GET_INDEX is pos & size; CircGetIndex answers a remainder.  They
\* are the same for every ring that circ_queue_create makes, as its size is a
\* power of two less one.
THEOREM IndexIsMask ==
  ASSUME NEW length \in 1 .. MaxLength, Size = get_powerof2(length) - 1, NEW pos \in Nat
  PROVE  CircGetIndex(pos) = Value(Bits(pos) \cap Bits(Size))
<1> DEFINE Enough == {p \in {Pow2[k] : k \in 0 .. 30} : p >= length}
<1>1. get_powerof2(length) = Min(Enough)
  BY PowerAssumption, Pow2Type, LeastPowerHolds DEF LeastPower
<1>2. Enough \in SUBSET Nat /\ Enough # {}
  <2>1. Pow2[30] \in Nat /\ MaxLength \in Nat /\ MaxLength <= Pow2[30]
    BY PowerAssumption, Pow2Type
  <2>2. Pow2[30] \in Enough
    BY <2>1
  <2> QED
    BY <2>2, Pow2Type
<1>3. Min(Enough) \in Enough
  <2> HIDE DEF Enough
  <2> QED
    BY <1>2, LeastNumber, LeastIsMin
<1>4. PICK m \in 0 .. 30 : get_powerof2(length) = Pow2[m]
  BY <1>1, <1>3
<1>5. Pow2[m] \in Nat /\ Size + 1 = Pow2[m]
  BY <1>4, Pow2Type
<1>6. Bits(Size) = 0 .. m - 1
  BY <1>4, BitsOfMask
<1> QED
  BY <1>5, <1>6, ValueOfLowBits DEF CircGetIndex

=============================================================================
