----------------------------- MODULE CircQueue -----------------------------
(***************************************************************************)
(* components/activetask/circ_queue.c: the lock-free queue of pointers     *)
(* between tasks.  dft_queue_push and dft_queue_pop are loops of           *)
(*                                                                         *)
(*   test    two atomic loads, of head and of tail, in an order C leaves   *)
(*           open, and a comparison: is the ring full (empty)?             *)
(*   claim   fetch_add on tail (head): the old value is the position;      *)
(*   copy    a plain store into (load from) the slot of that position.     *)
(*                                                                         *)
(* Every one of them is a step of its own here, and threads interleave     *)
(* between any two.  A failed test sleeps QUEUE_INTV_MS and tries again    *)
(* until the caller's wait_ms is used up (0: for ever).                    *)
(*                                                                         *)
(* A message is an opaque non-null pointer that means nothing to the queue *)
(* before its push claims a position, so it is named by that position:     *)
(* slots[i] = x says that slot i holds the pointer pushed at position x.   *)
(* The calls with a NULL queue or a NULL argument, which change nothing,   *)
(* are left out.                                                           *)
(***************************************************************************)
EXTENDS CircBuf, FiniteSets

CONSTANTS Producers,   \* threads that push
          Consumers,   \* threads that pop
          PushWaits,   \* the wait_ms arguments of pushes, in ms
          PopWaits,    \* the wait_ms arguments of pops
          MaxPush      \* bound: no push is called that could claim a position beyond it

Threads == Producers \cup Consumers

ASSUME CircQueueAssumption ==
  /\ IsFiniteSet(Producers)
  /\ IsFiniteSet(Consumers)
  /\ Producers \cap Consumers = {}
  /\ PushWaits \subseteq Nat
  /\ PopWaits \subseteq Nat
  /\ MaxPush \in Nat

QUEUE_INTV_MS == 10

\* What malloc left in a slot before the first store to it, and what the
\* memory past the allocation may hold.
Garbage == -1

VARIABLES
  head,    \* _circ_buf.head
  tail,    \* _circ_buf.tail
  slots,   \* _circ_buf.buf, with the slot of index Size that was not allocated
  pc,      \* where each thread is, see Labels
  wait,    \* its argument wait_ms
  i,       \* its loop counter, in ms
  h,       \* the head it loaded
  t,       \* the tail it loaded
  last,    \* the position its latest fetch_add returned (its local index while
           \* pc = "copy", history afterwards), -1 before the first
  got      \* what the latest pop of a consumer stored into *arg
           \* (wait, i, h and t are 0 where the code no longer needs them)

vars == <<head, tail, slots, pc, wait, i, h, t, last, got>>

\* idle: outside push and pop;  loop: at the loop condition;  head (tail):
\* only head (tail) loaded;  test: both loaded;  copy: a position is claimed.
Labels == {"idle", "loop", "head", "tail", "test", "copy"}

\* Threads that may still claim a position in their current call.
Trying == {"loop", "head", "tail", "test"}

Init ==
  /\ head = 0
  /\ tail = 0
  /\ slots = [k \in 0 .. Size |-> Garbage]
  /\ pc = [x \in Threads |-> "idle"]
  /\ wait = [x \in Threads |-> 0]
  /\ i = [x \in Threads |-> 0]
  /\ h = [x \in Threads |-> 0]
  /\ t = [x \in Threads |-> 0]
  /\ last = [x \in Threads |-> -1]
  /\ got = [c \in Consumers |-> Garbage]

-----------------------------------------------------------------------------
(* The steps push and pop share.                                           *)

\* Entry of push or pop with wait_ms = w.
Call(x, w) ==
  /\ pc[x] = "idle"
  /\ pc' = [pc EXCEPT ![x] = "loop"]
  /\ wait' = [wait EXCEPT ![x] = w]
  /\ i' = [i EXCEPT ![x] = QUEUE_INTV_MS]
  /\ UNCHANGED <<head, tail, slots, h, t, last, got>>

\* The loop condition 0 == wait_ms || i < wait_ms.
MayTry(x) == wait[x] = 0 \/ i[x] < wait[x]

LoadHead(x) ==
  /\ \/ pc[x] = "loop" /\ MayTry(x) /\ pc' = [pc EXCEPT ![x] = "head"]
     \/ pc[x] = "tail" /\ pc' = [pc EXCEPT ![x] = "test"]
  /\ h' = [h EXCEPT ![x] = head]
  /\ UNCHANGED <<head, tail, slots, wait, i, t, last, got>>

LoadTail(x) ==
  /\ \/ pc[x] = "loop" /\ MayTry(x) /\ pc' = [pc EXCEPT ![x] = "tail"]
     \/ pc[x] = "head" /\ pc' = [pc EXCEPT ![x] = "test"]
  /\ t' = [t EXCEPT ![x] = tail]
  /\ UNCHANGED <<head, tail, slots, wait, i, h, last, got>>

\* The attempt answered -1: delay_ms, i += QUEUE_INTV_MS.  With wait_ms = 0
\* the value of i is never looked at, and the counter is left where it is.
Again(x) ==
  /\ pc' = [pc EXCEPT ![x] = "loop"]
  /\ i' = [i EXCEPT ![x] = IF wait[x] = 0 THEN @ ELSE @ + QUEUE_INTV_MS]
  /\ UNCHANGED wait

\* The attempt answered a position: the loop ends.
Claimed(x) ==
  /\ pc' = [pc EXCEPT ![x] = "copy"]
  /\ i' = [i EXCEPT ![x] = 0]
  /\ wait' = [wait EXCEPT ![x] = 0]

\* An attempt ends, and with it the use of the two loaded values.
EndAttempt(x) ==
  /\ h' = [h EXCEPT ![x] = 0]
  /\ t' = [t EXCEPT ![x] = 0]

\* The loop ends with index = -1: OPR_WAIT_TIMEOUT.
Timeout(x) ==
  /\ pc[x] = "loop"
  /\ ~MayTry(x)
  /\ pc' = [pc EXCEPT ![x] = "idle"]
  /\ i' = [i EXCEPT ![x] = 0]
  /\ wait' = [wait EXCEPT ![x] = 0]
  /\ UNCHANGED <<head, tail, slots, h, t, last, got>>

-----------------------------------------------------------------------------
(* dft_queue_push                                                          *)

\* Pushes in progress that have not claimed a position yet.
Pending == {p \in Producers : pc[p] \in Trying}

\* Mutant: a failed test is repeated on the values already loaded.
PushFullStale(p) ==
  /\ pc[p] = "test"
  /\ CircIsFull(h[p], t[p])
  /\ UNCHANGED vars

PushCall(p) ==
  /\ tail + Cardinality(Pending) < MaxPush
  /\ \E w \in PushWaits : Call(p, w)

PushFull(p) ==
  /\ pc[p] = "test"
  /\ CircIsFull(h[p], t[p])
  /\ Again(p)
  /\ EndAttempt(p)
  /\ UNCHANGED <<head, tail, slots, last, got>>

\* The fetch_add; a claimed position that reads as -1 is taken for "full".
PushClaim(p) ==
  /\ pc[p] = "test"
  /\ ~CircIsFull(h[p], t[p])
  /\ tail' = Word(tail + 1)
  /\ last' = [last EXCEPT ![p] = tail]
  /\ IF tail = NoPosition THEN Again(p) ELSE Claimed(p)
  /\ EndAttempt(p)
  /\ UNCHANGED <<head, slots, got>>

PushWrite(p) ==
  /\ pc[p] = "copy"
  /\ slots' = [slots EXCEPT ![CircGetIndex(last[p])] = last[p]]
  /\ pc' = [pc EXCEPT ![p] = "idle"]
  /\ UNCHANGED <<head, tail, wait, i, h, t, last, got>>

Push(p) ==
  \/ LoadHead(p) \/ LoadTail(p) \/ PushFull(p) \/ PushClaim(p)
  \/ PushWrite(p) \/ Timeout(p)

-----------------------------------------------------------------------------
(* dft_queue_pop                                                           *)

PopCall(c) == \E w \in PopWaits : Call(c, w)

PopEmpty(c) ==
  /\ pc[c] = "test"
  /\ CircIsEmpty(h[c], t[c])
  /\ Again(c)
  /\ EndAttempt(c)
  /\ UNCHANGED <<head, tail, slots, last, got>>

PopClaim(c) ==
  /\ pc[c] = "test"
  /\ ~CircIsEmpty(h[c], t[c])
  /\ head' = Word(head + 1)
  /\ last' = [last EXCEPT ![c] = head]
  /\ IF head = NoPosition THEN Again(c) ELSE Claimed(c)
  /\ EndAttempt(c)
  /\ UNCHANGED <<tail, slots, got>>

\* What a load of slot k can return.  malloc was given Size pointers, so the
\* slot of index Size is whatever the next heap block made of it.
Contents(k) == IF k < Size THEN {slots[k]} ELSE {slots[k], Garbage}

\* Mutant: the slot is that of the ring's head, not of the position claimed.
PopReadHead(c) ==
  /\ pc[c] = "copy"
  /\ \E m \in Contents(CircGetIndex(head)) : got' = [got EXCEPT ![c] = m]
  /\ pc' = [pc EXCEPT ![c] = "idle"]
  /\ UNCHANGED <<head, tail, slots, wait, i, h, t, last>>

PopRead(c) ==
  /\ pc[c] = "copy"
  /\ \E m \in Contents(CircGetIndex(last[c])) : got' = [got EXCEPT ![c] = m]
  /\ pc' = [pc EXCEPT ![c] = "idle"]
  /\ UNCHANGED <<head, tail, slots, wait, i, h, t, last>>

Pop(c) ==
  \/ LoadHead(c) \/ LoadTail(c) \/ PopEmpty(c) \/ PopClaim(c)
  \/ PopRead(c) \/ Timeout(c)

-----------------------------------------------------------------------------
Next ==
  \/ \E p \in Producers : PushCall(p) \/ Push(p)
  \/ \E c \in Consumers : PopCall(c) \/ Pop(c)

Spec == Init /\ [][Next]_vars

\* A thread inside push or pop is scheduled again and again; the consumer is
\* the service loop of a task (dft_task_svc), which pops for ever.  Nobody
\* has to push.
Fairness ==
  /\ \A p \in Producers : WF_vars(Push(p))
  /\ \A c \in Consumers : WF_vars(PopCall(c) \/ Pop(c))

FairSpec == Spec /\ Fairness

-----------------------------------------------------------------------------
(* Properties.                                                             *)

\* Every variable keeps its type: the counters and the loaded values are
\* words, and a thread that copies has a position to copy at.
TypeOK ==
  /\ head \in Words
  /\ tail \in Words
  /\ slots \in [0 .. Size -> Words \cup {Garbage}]
  /\ pc \in [Threads -> Labels]
  /\ wait \in [Threads -> Nat]
  /\ i \in [Threads -> Nat]
  /\ h \in [Threads -> Words]
  /\ t \in [Threads -> Words]
  /\ last \in [Threads -> Words \cup {-1}]
  /\ got \in [Consumers -> Words \cup {Garbage}]
  /\ \A x \in Threads : pc[x] = "copy" => last[x] # -1

\* The push that claimed position x has stored its pointer.
Filled(x) == \A p \in Producers : ~(pc[p] = "copy" /\ last[p] = x)

\* The positions a pop still has to read: those in the ring, and the one each
\* consumer has claimed and not yet copied.
Unread == head .. tail - 1 \cup {last[c] : c \in {d \in Consumers : pc[d] = "copy"}}

\* The test-then-fetch_add of CIRC_WRITE_ONE and CIRC_READ_ONE is not atomic.
\* One consumer never overtakes the producers all the same, and the producers
\* overshoot the Size positions CIRC_IS_FULL allows by at most one position
\* for each producer beyond the first.
Occupancy ==
  /\ head <= tail
  /\ tail - head <= Size - 1 + Cardinality(Producers)

\* linux_circ.h:58: a slot is left free so that a full ring is not taken for
\* an empty one.  No values of the counters make both tests succeed.
EmptyXorFull == ~(CircIsEmpty(head, tail) /\ CircIsFull(head, tail))

\* No push stores into a slot whose message a pop has still to read: a message
\* that was stored stays in its slot until it is read.
UnreadKept == \A x \in Unread : Filled(x) => slots[CircGetIndex(x)] = x

\* dft_queue_pop: "pop a pointer from head of the queue".  A pop only reads a
\* slot after the push that claimed the same position has stored into it.
PopWaitsForWrite == \A c \in Consumers : pc[c] = "copy" => Filled(last[c])

\* dft_queue_push: "push a pointer after tail of the queue".  The slot a push
\* stores into is one of the Size slots circ_queue_create allocated.
SlotAllocated == \A p \in Producers : pc[p] = "copy" => CircGetIndex(last[p]) < Size

\* A blocking or timed push by the only producer comes back while the consumer
\* keeps popping: no lost wake-up, and no state in which the ring looks full
\* to the producer and empty to the consumer.
PushReturns == \A p \in Producers : pc[p] # "idle" ~> pc[p] = "idle"

=============================================================================
