----------------------------- MODULE MsgBlkInv -----------------------------
(***************************************************************************)
(* The inductive invariant behind HeldNotFree and NotForgotten.            *)
(***************************************************************************)
EXTENDS MsgBlk

\* The references to block b.
RefsTo(b) == {r \in Refs : of[r] = b}

\* The counter of a block outside the pool is the number of references to it.
Counted ==
  \A b \in Blocks :
    IF b \in pool THEN RefsTo(b) = {} ELSE count[b] = Cardinality(RefsTo(b))

\* A reference has a keeper; a list keeps data blocks, the queue messages.
Kept ==
  \A r \in Refs :
    /\ of[r] = NULL <=> by[r] = NULL
    /\ by[r] \in Msgs => of[r] \in Datas /\ by[r] \notin pool
    /\ by[r] \in {Queue, Lost} => of[r] \in Msgs

\* A block outside the pool has a reference or is being released.
Reachable ==
  \A b \in Blocks \ pool : (\A r \in Refs : of[r] # b) => Releasing(b)

\* What a task is working on: a message it releases has no references left; the
\* blocks it attaches and the message it pushes stay referenced by the task.
TaskOK(t) ==
  /\ pc[t] = "release" => mb[t] \in Msgs \ pool /\ \A r \in Refs : of[r] # mb[t]
  /\ pc[t] \in {"attach", "link"} =>
       /\ mb[t] \in Msgs /\ \E r \in Refs : by[r] = t /\ of[r] = mb[t]
       /\ db[t] \in Datas /\ \E r \in Refs : by[r] = t /\ of[r] = db[t]
       /\ ref[t] \in Refs /\ of[ref[t]] = NULL
  /\ pc[t] = "push" => ref[t] \in Refs /\ by[ref[t]] = t /\ of[ref[t]] \in Msgs

\* One task releases a message; one task is about to use a name.
Alone ==
  /\ \A t, u \in Tasks : pc[t] = "release" /\ pc[u] = "release" /\ mb[t] = mb[u] => t = u
  /\ \A t, u \in Tasks : ref[t] # NULL /\ ref[t] = ref[u] => t = u

RefInv ==
  TypeOK /\ Counted /\ Kept /\ Reachable /\ Alone /\ \A t \in Tasks : TaskOK(t)

=============================================================================
