------------------------------- MODULE MsgBlk -------------------------------
(***************************************************************************)
(* Message blocks and data blocks of components/activetask (msg_blk.c,     *)
(* data_blk.c) and the references that keep them out of their pools.       *)
(*                                                                         *)
(* A block has a counter (struct kref).  malloc takes a block from its     *)
(* pool and sets the counter to 1; ref, attach and push count one more;    *)
(* free counts one less and, at 0, puts the block back, for a message      *)
(* after freeing each data block of its list.                              *)
(*                                                                         *)
(* Next to the counters the model keeps the references themselves: a       *)
(* reference is to the block of[r] and is kept by by[r], a task that may   *)
(* free it, the list of a message, or the queue.  The program frees only   *)
(* references it keeps; it attaches a data block to one message at a time, *)
(* since a data block has one list node (node_msgdata); and one task at a  *)
(* time works on the list of a message.  It does anything else, in any     *)
(* order.                                                                  *)
(*                                                                         *)
(* An init callback that refuses a new block gives it back as free does,   *)
(* so a malloc that fails that way is a malloc followed by a free.         *)
(*                                                                         *)
(* The pools and the queue are ideal: a block is handed out to one caller, *)
(* a push adds the pointer or fails, a pop takes one that was pushed.      *)
(* BlkPool shows this of the pools for one task that mallocs.  The program *)
(* does not always keep to it: two tasks that malloc may get one block, a  *)
(* pop may get a slot that is not written, and pushes that test at the     *)
(* same time overwrite each other.  ActiveTask says where it departs.      *)
(***************************************************************************)
EXTENDS Integers, FiniteSets

CONSTANTS Tasks,     \* the tasks that use the blocks
          Datas,     \* the data blocks
          Msgs,      \* the message blocks
          Refs,      \* names for references; their number bounds the counters
          Room,      \* how many pointers the queue takes
          Queue,     \* the keeper of a reference that is in the queue
          Lost,      \* the keeper of a reference nobody can free
          NULL

Blocks == Datas \cup Msgs

ASSUME MsgBlkAssumption ==
  /\ IsFiniteSet(Refs)
  /\ Room \in Nat
  /\ Datas \cap Msgs = {}
  /\ Tasks \cap Msgs = {}
  /\ Queue \notin Tasks \cup Msgs
  /\ Lost \notin Tasks \cup Msgs \cup {Queue}
  /\ NULL \notin Blocks \cup Tasks \cup Refs \cup {Queue, Lost}

VARIABLES
  count,    \* the refcount of each block
  pool,     \* the blocks in their pools
  of,       \* the block of each reference, NULL for a name that is not in use
  by,       \* who keeps it
  pc,       \* where each task is
  mb,       \* the message it works on
  db,       \* the data block it works on
  ref       \* the name of the reference it takes for a list or the queue

vars == <<count, pool, of, by, pc, mb, db, ref>>

\* idle: in the program; the others are inside a function of msg_blk.c.
Labels == {"idle", "attach", "link", "dettached", "push", "release"}

Keepers == Tasks \cup Msgs \cup {Queue, Lost}

\* datablk_pool_init and msgblk_pool_init; kref_init sets the counters to 1.
Init ==
  /\ count = [b \in Blocks |-> 1]
  /\ pool = Blocks
  /\ of = [r \in Refs |-> NULL]
  /\ by = [r \in Refs |-> NULL]
  /\ pc = [t \in Tasks |-> "idle"]
  /\ mb = [t \in Tasks |-> NULL]
  /\ db = [t \in Tasks |-> NULL]
  /\ ref = [t \in Tasks |-> NULL]

-----------------------------------------------------------------------------
\* No task uses the name r for a reference, or is about to.
Unused(r) == of[r] = NULL /\ \A u \in Tasks : ref[u] # r

\* Task t keeps r, and r is to a block of kind Datas or Msgs.
Keeps(t, r, kind) == by[r] = t /\ of[r] \in kind

\* The references of the list of message m.
ListOf(m) == {r \in Refs : by[r] = m}

\* A new reference r to block b, kept by k.
Gain(r, b, k) ==
  /\ of' = [of EXCEPT ![r] = b]
  /\ by' = [by EXCEPT ![r] = k]

\* Reference r is given up.
Drop(r) == Gain(r, NULL, NULL)

\* No other task works on the list of message m.
Exclusive(m) == \A u \in Tasks : pc[u] # "idle" => mb[u] # m

\* Data block d is on no list and is not being put on one.
Loose(d) ==
  /\ \A r \in Refs : of[r] = d => by[r] \notin Msgs
  /\ \A u \in Tasks : pc[u] \in {"attach", "link"} => db[u] # d

\* Task t goes on to attach data block d to message m; the list will have the
\* reference r.
ToAttach(t, m, d, r) ==
  /\ pc' = [pc EXCEPT ![t] = "attach"]
  /\ mb' = [mb EXCEPT ![t] = m]
  /\ db' = [db EXCEPT ![t] = d]
  /\ ref' = [ref EXCEPT ![t] = r]

\* The task is back in the program.
Return(t) ==
  /\ pc' = [pc EXCEPT ![t] = "idle"]
  /\ mb' = [mb EXCEPT ![t] = NULL]
  /\ db' = [db EXCEPT ![t] = NULL]
  /\ ref' = [ref EXCEPT ![t] = NULL]

\* datablk_free: kref_put, and __datablk_release when the old count is 1.
DataPut(d) ==
  /\ count' = [count EXCEPT ![d] = @ - 1]
  /\ pool' = IF count[d] = 1 THEN pool \cup {d} ELSE pool

-----------------------------------------------------------------------------
(* Data blocks.                                                            *)

\* datablk_malloc: a block of the pool, with one reference.
DataMalloc(t) ==
  /\ pc[t] = "idle"
  /\ \E d \in Datas \cap pool, r \in Refs :
       /\ Unused(r)
       /\ pool' = pool \ {d}
       /\ count' = [count EXCEPT ![d] = 1]
       /\ Gain(r, d, t)
  /\ UNCHANGED <<pc, mb, db, ref>>

\* datablk_free.
DataFree(t) ==
  /\ pc[t] = "idle"
  /\ \E r \in Refs :
       /\ Keeps(t, r, Datas)
       /\ DataPut(of[r])
       /\ Drop(r)
  /\ UNCHANGED <<pc, mb, db, ref>>

\* datablk_ref and msgblk_ref: whoever has a reference may take another.
Ref(t) ==
  /\ pc[t] = "idle"
  /\ \E r, s \in Refs :
       /\ Keeps(t, r, Blocks)
       /\ Unused(s)
       /\ count' = [count EXCEPT ![of[r]] = @ + 1]
       /\ Gain(s, of[r], t)
  /\ UNCHANGED <<pool, pc, mb, db, ref>>

-----------------------------------------------------------------------------
(* Message blocks.                                                         *)

\* msgblk_malloc: a block of the pool, with one reference and an empty list;
\* then the data block is attached, unless there is none.
MsgMalloc(t) ==
  /\ pc[t] = "idle"
  /\ \E m \in Msgs \cap pool, r \in Refs :
       /\ Unused(r)
       /\ pool' = pool \ {m}
       /\ count' = [count EXCEPT ![m] = 1]
       /\ Gain(r, m, t)
       /\ \/ UNCHANGED <<pc, mb, db, ref>>
          \/ \E s, l \in Refs :
               /\ Keeps(t, s, Datas)
               /\ Loose(of[s])
               /\ Unused(l) /\ l # r
               /\ ToAttach(t, m, of[s], l)

\* msgblk_attach_datablk, called by the program.
Attach(t) ==
  /\ pc[t] = "idle"
  /\ \E r, s, l \in Refs :
       /\ Keeps(t, r, Msgs)
       /\ Exclusive(of[r])
       /\ Keeps(t, s, Datas)
       /\ Loose(of[s])
       /\ Unused(l)
       /\ ToAttach(t, of[r], of[s], l)
  /\ UNCHANGED <<count, pool, of, by>>

\* The attach callback runs first.  If it refuses, nothing is attached, and
\* msgblk_malloc returns the message all the same.
AttachCallback(t) ==
  /\ pc[t] = "attach"
  /\ \/ Return(t)
     \/ /\ pc' = [pc EXCEPT ![t] = "link"]
        /\ UNCHANGED <<mb, db, ref>>
  /\ UNCHANGED <<count, pool, of, by>>

\* Mutant: the list takes the data block without a reference of its own.
AttachNoRef(t) ==
  /\ pc[t] = "link"
  /\ Gain(ref[t], db[t], mb[t])
  /\ Return(t)
  /\ UNCHANGED <<count, pool>>

\* The list of the message gets a reference of its own.
AttachLink(t) ==
  /\ pc[t] = "link"
  /\ count' = [count EXCEPT ![db[t]] = @ + 1]
  /\ Gain(ref[t], db[t], mb[t])
  /\ Return(t)
  /\ UNCHANGED pool

\* msgblk_dettach_datablk: the reference of the list is freed before the
\* dettach callback is called with the data block.
Dettach(t) ==
  /\ pc[t] = "idle"
  /\ \E r, s \in Refs :
       /\ Keeps(t, r, Msgs)
       /\ Exclusive(of[r])
       /\ s \in ListOf(of[r])
       /\ DataPut(of[s])
       /\ Drop(s)
       /\ mb' = [mb EXCEPT ![t] = of[r]]
       /\ db' = [db EXCEPT ![t] = of[s]]
  /\ pc' = [pc EXCEPT ![t] = "dettached"]
  /\ UNCHANGED ref

DettachCallback(t) ==
  /\ pc[t] = "dettached"
  /\ Return(t)
  /\ UNCHANGED <<count, pool, of, by>>

\* msgblk_free: kref_put, and __msgblk_release when the old count is 1.
MsgFree(t) ==
  /\ pc[t] = "idle"
  /\ \E r \in Refs :
       /\ Keeps(t, r, Msgs)
       /\ count' = [count EXCEPT ![of[r]] = @ - 1]
       /\ Drop(r)
       /\ IF count[of[r]] = 1
            THEN /\ pc' = [pc EXCEPT ![t] = "release"]
                 /\ mb' = [mb EXCEPT ![t] = of[r]]
            ELSE UNCHANGED <<pc, mb>>
  /\ UNCHANGED <<pool, db, ref>>

\* __msgblk_release frees each data block of the list, ...
ReleaseData(t) ==
  /\ pc[t] = "release"
  /\ \E r \in ListOf(mb[t]) :
       /\ DataPut(of[r])
       /\ Drop(r)
  /\ UNCHANGED <<pc, mb, db, ref>>

\* Mutant: the message is not put back.
ReleaseForget(t) ==
  /\ pc[t] = "release"
  /\ ListOf(mb[t]) = {}
  /\ Return(t)
  /\ UNCHANGED <<count, pool, of, by>>

\* ... and puts the message back.
ReleaseEnd(t) ==
  /\ pc[t] = "release"
  /\ ListOf(mb[t]) = {}
  /\ pool' = pool \cup {mb[t]}
  /\ Return(t)
  /\ UNCHANGED <<count, of, by>>

-----------------------------------------------------------------------------
(* The queue.                                                              *)

\* Mutant: the queue gets the message without a reference of its own.
PushNoRef(t) ==
  /\ pc[t] = "idle"
  /\ \E r, s \in Refs :
       /\ Keeps(t, r, Msgs)
       /\ Unused(s)
       /\ Gain(s, of[r], t)
       /\ ref' = [ref EXCEPT ![t] = s]
  /\ pc' = [pc EXCEPT ![t] = "push"]
  /\ UNCHANGED <<count, pool, mb, db>>

\* msgblk_push_circ_queue takes a reference for the queue, ...
PushRef(t) ==
  /\ pc[t] = "idle"
  /\ \E r, s \in Refs :
       /\ Keeps(t, r, Msgs)
       /\ Unused(s)
       /\ count' = [count EXCEPT ![of[r]] = @ + 1]
       /\ Gain(s, of[r], t)
       /\ ref' = [ref EXCEPT ![t] = s]
  /\ pc' = [pc EXCEPT ![t] = "push"]
  /\ UNCHANGED <<pool, mb, db>>

\* ... then queue_push adds the pointer, or fails: the caller gets the error,
\* and the reference stays counted.
PushQueue(t) ==
  /\ pc[t] = "push"
  /\ \/ /\ Cardinality({r \in Refs : by[r] = Queue}) < Room
        /\ by' = [by EXCEPT ![ref[t]] = Queue]
     \/ by' = [by EXCEPT ![ref[t]] = Lost]
  /\ Return(t)
  /\ UNCHANGED <<count, pool, of>>

\* msgblk_pop_circ_queue: the reference of the queue is the popper's.
Pop(t) ==
  /\ pc[t] = "idle"
  /\ \E r \in Refs : by[r] = Queue /\ by' = [by EXCEPT ![r] = t]
  /\ UNCHANGED <<count, pool, of, pc, mb, db, ref>>

-----------------------------------------------------------------------------
OnData(t) == DataMalloc(t) \/ DataFree(t) \/ Ref(t)

OnList(t) ==
  Attach(t) \/ AttachCallback(t) \/ AttachLink(t) \/ Dettach(t) \/ DettachCallback(t)

OnMsg(t) == MsgMalloc(t) \/ MsgFree(t) \/ ReleaseData(t) \/ ReleaseEnd(t)

OnQueue(t) == PushRef(t) \/ PushQueue(t) \/ Pop(t)

Next == \E t \in Tasks : OnData(t) \/ OnList(t) \/ OnMsg(t) \/ OnQueue(t)

Spec == Init /\ [][Next]_vars

-----------------------------------------------------------------------------
(* Properties.                                                             *)

TypeOK ==
  /\ count \in [Blocks -> Nat]
  /\ pool \in SUBSET Blocks
  /\ of \in [Refs -> Blocks \cup {NULL}]
  /\ by \in [Refs -> Keepers \cup {NULL}]
  /\ pc \in [Tasks -> Labels]
  /\ mb \in [Tasks -> Msgs \cup {NULL}]
  /\ db \in [Tasks -> Datas \cup {NULL}]
  /\ ref \in [Tasks -> Refs \cup {NULL}]

Releasing(m) == \E t \in Tasks : pc[t] = "release" /\ mb[t] = m

\* No block a reference is to is in its pool, and neither is a message whose
\* list is not empty: what a task, the queue or a list keeps cannot be handed
\* out to somebody else.
HeldNotFree ==
  \A r \in Refs : of[r] # NULL =>
    /\ of[r] \notin pool
    /\ by[r] \in Msgs => by[r] \notin pool

\* A block outside the pool is counted, and has somebody to bring it back: a
\* reference, or the task that is releasing it.
NotForgotten ==
  \A b \in Blocks \ pool : (\E r \in Refs : of[r] = b) \/ Releasing(b)

\* The same, without references that a failed push left counted: a block that
\* nobody can reach is in its pool.
NoLeak ==
  \A b \in Blocks \ pool :
    (\E r \in Refs : of[r] = b /\ by[r] # Lost) \/ Releasing(b)

=============================================================================
