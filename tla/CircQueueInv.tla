---------------------------- MODULE CircQueueInv ----------------------------
(***************************************************************************)
(* The queue as the tasks use it, one consumer, up to the moment the       *)
(* counters leave the range of a word: what it implements and the          *)
(* inductive invariant that shows it.                                      *)
(***************************************************************************)
EXTENDS CircQueue

\* A queue belongs to one task and only its service loop pops; a queue of
\* length 1 (Size = 0) and the wrap of the counters are excluded: MCCircWrap
\* shows what they do.
ASSUME CircQueueInvAssumption ==
  /\ \E c \in Consumers : Consumers = {c}
  /\ Size >= 1
  /\ MaxPush + Size < WordMod

\* What a thread knows from the loads it has made: the counters only grow, so
\* a loaded value is a lower bound, and the consumer, who alone moves head,
\* loaded the current one.
LoadedOK ==
  /\ \A x \in Threads : h[x] <= head /\ t[x] <= tail
  /\ \A p \in Producers : pc[p] \in {"tail", "test"} => last[p] < t[p]
  /\ \A c \in Consumers :
       /\ pc[c] \in {"head", "test"} => h[c] = head
       /\ pc[c] \in {"tail", "test"} => head <= t[c]

\* A claimed position lies below the counter it was taken from.
ClaimedOK ==
  /\ \A p \in Producers : last[p] < tail
  /\ \A c \in Consumers : last[c] = head - 1

\* The claims a stale test let through: a position at or above
\* head + Size - 1 is still the latest claim of its producer.
StaleClaims ==
  \A x \in head + Size - 1 .. tail - 1 : \E p \in Producers : last[p] = x

\* No more positions are claimed than MaxPush.
Bounded == tail + Cardinality(Pending) <= MaxPush

\* The inductive invariant behind Occupancy.
IInv == TypeOK /\ head <= tail /\ LoadedOK /\ ClaimedOK /\ StaleClaims /\ Bounded

\* The inductive invariant behind UnreadKept: with one producer its latest
\* claim is the last position of the ring.
SoleProducer == \A p \in Producers : last[p] = tail - 1

\* Every claim is of a position of its own, and what lies in a slot was pushed:
\* what the content of the queue needs beside IInv.
ClaimsDiffer == \A p, q \in Producers : last[p] = last[q] /\ last[p] # -1 => p = q
SlotsOld == \A k \in 0 .. Size : slots[k] < tail

\* Positions whose message is in its slot, to be read by a pop that has
\* claimed it or will.
InSlot == {x \in Unread : CircGetIndex(x) # Size /\ slots[CircGetIndex(x)] = x}

\* The queue implements the bounded queue.  The fetch_add on tail accepts a
\* message and the plain store puts it; the fetch_add on head takes one and
\* the plain load hands it over; everything else stutters.  The slots are the
\* cells: a position shares its slot with every Size + 1st, and the slot of
\* index Size is memory malloc did not give to the queue.
BQ == INSTANCE BoundedQueue
        WITH accepted <- tail, taken <- head,
             open <- {last[p] : p \in {q \in Producers : pc[q] = "copy"}},
             kept <- InSlot,
             held <- {last[c] : c \in {d \in Consumers : pc[d] = "copy"}},
             got <- got,
             Cells <- Size + 1, Takers <- Consumers,
             Capacity <- Size - 1 + Cardinality(Producers)

\* FairSpec implements BoundedQueue, its fairness included: order, room, and
\* what a pop returns, a message stored in time and not overwritten being the
\* one accepted at the position popped.
ImplementsBoundedQueue == BQ!Spec

=============================================================================
