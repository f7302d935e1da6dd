---------------------------- MODULE BlkPoolInv ----------------------------
(***************************************************************************)
(* The pool under the condition linux_llist.h:242-247 puts on              *)
(* llist_del_first, one user at a time: one task mallocs, any task frees.  *)
(* The inductive invariants behind SingleOwner, NoBlockLost, BigEnough and *)
(* FoundStaysNonEmpty, and the stacks that the lists implement.            *)
(***************************************************************************)
EXTENDS BlkPool

ASSUME OneTaker == \E t \in Tasks : Takers = {t}

\* A block is in a stack, or owned, or being put back by one task.
Placed ==
  /\ \A b \in Blocks : owners[b] <= 1 /\ (InStack(b) => owners[b] = 0)
  /\ \A t \in Tasks : Adding(t) =>
       /\ blk[t] \in Blocks
       /\ ~InStack(blk[t])
       /\ owners[blk[t]] = 0
       /\ idx[t] = Home[blk[t]]
  /\ \A t, u \in Tasks : Adding(t) /\ Adding(u) /\ blk[t] = blk[u] => t = u

\* The block a task is about to push is linked to the first it read.
AddLinked == \A t \in Tasks : pc[t] = "addcas" => next[blk[t]] = nxt[t]

\* The stack the taker found keeps its blocks; the entry it read stays in the
\* stack, with the successor it read.
TakerOK ==
  \A t \in Tasks :
    /\ pc[t] \in {"search", "load", "next", "cas"} => t \in Takers
    /\ pc[t] \in {"load", "next", "cas"} => idx[t] \in Stacks /\ first[idx[t]] # NULL
    /\ pc[t] \in {"next", "cas"} =>
         blk[t] \in Blocks /\ InStack(blk[t]) /\ Home[blk[t]] = idx[t]
    /\ pc[t] = "cas" => nxt[t] = next[blk[t]]

\* While a task mallocs, the blocks of the stack it looks at have room for what
\* it asked for.
WantOK ==
  \A t \in Takers :
    pc[t] \in {"search", "load", "next", "cas"} => want[t] <= MinSize * (idx[t] + 1)

\* No block is lost: one that is in no stack is owned or being put back.
Somewhere ==
  \A b \in Blocks :
    InStack(b) \/ owners[b] > 0 \/ \E t \in Tasks : Adding(t) /\ blk[t] = b

PoolInv == TypeOK /\ Linked /\ Placed /\ AddLinked /\ TakerOK

\* The blocks met by following next from first, as many as stack c is high
StackOf(c) ==
  LET entry[k \in 1 .. Top(c)] == IF k = 1 THEN first[c] ELSE next[entry[k - 1]]
  IN  entry

\* The compare and exchange of llist_del_first pops the top of the stack, that
\* of llist_add pushes the block; the other steps change none.
LLists == INSTANCE BlockStacks
            WITH stack <- [c \in Stacks |-> StackOf(c)],
                 owned <- {b \in Blocks : owners[b] > 0},
                 back  <- {blk[t] : t \in {u \in Tasks : Adding(u)}}

\* The lists that several tasks change step by step implement stacks that
\* change at one instant.
ImplementsStacks == LLists!Spec

=============================================================================
