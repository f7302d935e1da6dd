------------------------------ MODULE BlkPool ------------------------------
(***************************************************************************)
(* The block pools of components/activetask: mem_blk.c and data_blk.c, and *)
(* msg_blk.c, whose pool has one stack and skips the search for a stack    *)
(* that is not empty.  A pool is a fixed set of blocks kept in StackNum    *)
(* lock-free stacks (linux_llist.h), one for each capacity.                *)
(*                                                                         *)
(* A task that mallocs searches a stack for its size, then pops a block    *)
(* with llist_del_first: load head->first, read entry->next, compare and   *)
(* exchange.  A task that frees pushes with llist_add: load head->first    *)
(* into node->next, compare and exchange.  Each of these accesses is a     *)
(* step, and tasks interleave between any two.                             *)
(*                                                                         *)
(* A block is either in a stack, owned by the program, or on its way back. *)
(* The program frees a block it owns, once, from any task: blocks travel   *)
(* between tasks in messages.                                              *)
(***************************************************************************)
EXTENDS Integers, FiniteSets

CONSTANTS Tasks,      \* the tasks that use the pool
          Takers,     \* those of them that malloc
          Blocks,     \* the blocks of the pool
          StackNum,   \* MEMBLK_STACK_NUM, DATABLK_STACK_NUM
          MinSize,    \* MEMBLK_MIN_SIZE, DATABLK_MIN_SIZE
          Home,       \* the stack each block was made for
          Sizes,      \* the sizes asked for
          NULL

Stacks == 0 .. StackNum - 1

ASSUME BlkPoolAssumption ==
  /\ Takers \subseteq Tasks
  /\ IsFiniteSet(Blocks)
  /\ NULL \notin Blocks
  /\ StackNum \in Nat \ {0}
  /\ MinSize \in Nat \ {0}
  /\ Home \in [Blocks -> Stacks]
  /\ Sizes \subseteq Nat \ {0}

VARIABLES
  first,    \* head->first of each stack
  next,     \* node->next of each block, meaningful in a stack and after it
  pc,       \* where each task is
  idx,      \* the stack it works on
  want,     \* the size it asked for
  blk,      \* the entry it pops, or the block it pushes
  nxt,      \* entry->next (first) as it read it
  owners,   \* how many owners the program takes each block to have
  depth     \* history: the height of each block in its stack, 1 at the bottom;
            \* 0 for a block that is in none

vars == <<first, next, pc, idx, want, blk, nxt, owners, depth>>

\* idle; search, load, next, cas: in malloc; addload, addcas: in free.
Labels == {"idle", "search", "load", "next", "cas", "addload", "addcas"}

InStack(b) == depth[b] > 0

Capacity(b) == MinSize * (Home[b] + 1)

\* The blocks of each stack are linked from first down to the bottom.
Linked ==
  /\ \A b, d \in Blocks : InStack(b) /\ Home[d] = Home[b] /\ depth[d] = depth[b] => d = b
  /\ \A b \in Blocks : depth[b] = 1 => next[b] = NULL
  /\ \A b \in Blocks : depth[b] > 1 =>
       /\ next[b] \in Blocks
       /\ Home[next[b]] = Home[b]
       /\ depth[next[b]] = depth[b] - 1
  /\ \A c \in Stacks : first[c] # NULL => InStack(first[c]) /\ Home[first[c]] = c
  /\ \A b \in Blocks : InStack(b) =>
       /\ first[Home[b]] # NULL
       /\ depth[b] <= depth[first[Home[b]]]

\* memblk_pool_init, datablk_pool_init and msgblk_pool_init: every block has
\* been pushed on its stack, in some order, and nobody uses the pool yet.
Init ==
  /\ depth \in [Blocks -> 1 .. Cardinality(Blocks)]
  /\ first \in [Stacks -> Blocks \cup {NULL}]
  /\ next \in [Blocks -> Blocks \cup {NULL}]
  /\ Linked
  /\ pc = [t \in Tasks |-> "idle"]
  /\ idx = [t \in Tasks |-> 0]
  /\ want = [t \in Tasks |-> 0]
  /\ blk = [t \in Tasks |-> NULL]
  /\ nxt = [t \in Tasks |-> NULL]
  /\ owners = [b \in Blocks |-> 0]

-----------------------------------------------------------------------------
(* malloc                                                                  *)

StackIndex(size) == (size - 1) \div MinSize

\* memblk_malloc(size), datablk_malloc(size): a size beyond the last stack is
\* refused at once.
Malloc(t) ==
  /\ pc[t] = "idle"
  /\ \E size \in Sizes :
       /\ StackIndex(size) < StackNum
       /\ want' = [want EXCEPT ![t] = size]
       /\ idx' = [idx EXCEPT ![t] = StackIndex(size)]
  /\ pc' = [pc EXCEPT ![t] = "search"]
  /\ UNCHANGED <<first, next, blk, nxt, owners, depth>>

\* The task is back in the program.
Return(t) ==
  /\ pc' = [pc EXCEPT ![t] = "idle"]
  /\ idx' = [idx EXCEPT ![t] = 0]
  /\ want' = [want EXCEPT ![t] = 0]
  /\ blk' = [blk EXCEPT ![t] = NULL]
  /\ nxt' = [nxt EXCEPT ![t] = NULL]

\* Mutant: the search does not look whether the stack is empty.
SearchBlind(t) ==
  /\ pc[t] = "search"
  /\ pc' = [pc EXCEPT ![t] = "load"]
  /\ UNCHANGED <<first, next, idx, want, blk, nxt, owners, depth>>

\* The search goes up until llist_empty answers no; above the last stack
\* malloc returns NULL.
Search(t) ==
  /\ pc[t] = "search"
  /\ \/ /\ idx[t] = StackNum
        /\ Return(t)
     \/ /\ idx[t] < StackNum
        /\ first[idx[t]] = NULL
        /\ idx' = [idx EXCEPT ![t] = @ + 1]
        /\ UNCHANGED <<pc, want, blk, nxt>>
     \/ /\ idx[t] < StackNum
        /\ first[idx[t]] # NULL
        /\ pc' = [pc EXCEPT ![t] = "load"]
        /\ UNCHANGED <<idx, want, blk, nxt>>
  /\ UNCHANGED <<first, next, owners, depth>>

\* llist_del_first: entry = atomic_load(&head->first).
DelLoad(t) ==
  /\ pc[t] = "load"
  /\ blk' = [blk EXCEPT ![t] = first[idx[t]]]
  /\ pc' = [pc EXCEPT ![t] = "next"]
  /\ UNCHANGED <<first, next, idx, want, nxt, owners, depth>>

\* NULL if there is no entry, and malloc returns NULL; else next = entry->next.
DelNext(t) ==
  /\ pc[t] = "next"
  /\ \/ /\ blk[t] = NULL
        /\ Return(t)
     \/ /\ blk[t] # NULL
        /\ nxt' = [nxt EXCEPT ![t] = next[blk[t]]]
        /\ pc' = [pc EXCEPT ![t] = "cas"]
        /\ UNCHANGED <<idx, want, blk>>
  /\ UNCHANGED <<first, next, owners, depth>>

\* Mutant: the exchange writes the entry back instead of its successor.
DelCasKeep(t) ==
  /\ pc[t] = "cas"
  /\ first[idx[t]] = blk[t]
  /\ owners' = [owners EXCEPT ![blk[t]] = @ + 1]
  /\ Return(t)
  /\ UNCHANGED <<first, next, depth>>

\* The compare and exchange finds the entry it loaded; malloc returns it.
DelCas(t) ==
  /\ pc[t] = "cas"
  /\ first[idx[t]] = blk[t]
  /\ first' = [first EXCEPT ![idx[t]] = nxt[t]]
  /\ owners' = [owners EXCEPT ![blk[t]] = @ + 1]
  /\ depth' = [depth EXCEPT ![blk[t]] = 0]
  /\ Return(t)
  /\ UNCHANGED next

\* It finds another one, or fails as a weak exchange may, and loads first.
DelRetry(t) ==
  /\ pc[t] = "cas"
  /\ blk' = [blk EXCEPT ![t] = first[idx[t]]]
  /\ pc' = [pc EXCEPT ![t] = "next"]
  /\ nxt' = [nxt EXCEPT ![t] = NULL]
  /\ UNCHANGED <<first, next, idx, want, owners, depth>>

-----------------------------------------------------------------------------
(* free                                                                    *)

\* Mutant: every block goes back to the last stack.
FreeToLast(t) ==
  /\ pc[t] = "idle"
  /\ \E b \in Blocks :
       /\ owners[b] > 0
       /\ owners' = [owners EXCEPT ![b] = @ - 1]
       /\ blk' = [blk EXCEPT ![t] = b]
       /\ idx' = [idx EXCEPT ![t] = StackNum - 1]
  /\ pc' = [pc EXCEPT ![t] = "addload"]
  /\ UNCHANGED <<first, next, want, nxt, depth>>

\* memblk_free, and the release functions of data and message blocks: the stack
\* is computed from the capacity (MEMBLK_STACK_INDEX).
Free(t) ==
  /\ pc[t] = "idle"
  /\ \E b \in Blocks :
       /\ owners[b] > 0
       /\ owners' = [owners EXCEPT ![b] = @ - 1]
       /\ blk' = [blk EXCEPT ![t] = b]
       /\ idx' = [idx EXCEPT ![t] = StackIndex(Capacity(b))]
  /\ pc' = [pc EXCEPT ![t] = "addload"]
  /\ UNCHANGED <<first, next, want, nxt, depth>>

\* llist_add: node->next = first = head->first.
AddLoad(t) ==
  /\ pc[t] = "addload"
  /\ nxt' = [nxt EXCEPT ![t] = first[idx[t]]]
  /\ next' = [next EXCEPT ![blk[t]] = first[idx[t]]]
  /\ pc' = [pc EXCEPT ![t] = "addcas"]
  /\ UNCHANGED <<first, idx, want, blk, owners, depth>>

\* Height of the top of stack c.
Top(c) == IF first[c] = NULL THEN 0 ELSE depth[first[c]]

\* Mutant: __llist_add, which stores without a compare and exchange.
AddPlain(t) ==
  /\ pc[t] = "addcas"
  /\ first' = [first EXCEPT ![idx[t]] = blk[t]]
  /\ depth' = [depth EXCEPT ![blk[t]] = Top(idx[t]) + 1]
  /\ Return(t)
  /\ UNCHANGED <<next, owners>>

AddCas(t) ==
  /\ pc[t] = "addcas"
  /\ first[idx[t]] = nxt[t]
  /\ first' = [first EXCEPT ![idx[t]] = blk[t]]
  /\ depth' = [depth EXCEPT ![blk[t]] = Top(idx[t]) + 1]
  /\ Return(t)
  /\ UNCHANGED <<next, owners>>

\* Mutant: the exchange is tried again without linking the node to the entry
\* it expects now.
AddRetryUnlinked(t) ==
  /\ pc[t] = "addcas"
  /\ first[idx[t]] # nxt[t]
  /\ nxt' = [nxt EXCEPT ![t] = first[idx[t]]]
  /\ UNCHANGED <<first, next, pc, idx, want, blk, owners, depth>>

AddRetry(t) ==
  /\ pc[t] = "addcas"
  /\ first[idx[t]] # nxt[t]
  /\ pc' = [pc EXCEPT ![t] = "addload"]
  /\ nxt' = [nxt EXCEPT ![t] = NULL]
  /\ UNCHANGED <<first, next, idx, want, blk, owners, depth>>

-----------------------------------------------------------------------------
Take(t) ==
  \/ Malloc(t) \/ Search(t) \/ DelLoad(t) \/ DelNext(t) \/ DelCas(t) \/ DelRetry(t)

Put(t) == Free(t) \/ AddLoad(t) \/ AddCas(t) \/ AddRetry(t)

Next ==
  \/ \E t \in Takers : Take(t)
  \/ \E t \in Tasks : Put(t)

Spec == Init /\ [][Next]_vars

-----------------------------------------------------------------------------
(* Properties.                                                             *)

\* Every variable keeps its type.
TypeOK ==
  /\ first \in [Stacks -> Blocks \cup {NULL}]
  /\ next \in [Blocks -> Blocks \cup {NULL}]
  /\ pc \in [Tasks -> Labels]
  /\ idx \in [Tasks -> 0 .. StackNum]
  /\ want \in [Tasks -> Nat]
  /\ blk \in [Tasks -> Blocks \cup {NULL}]
  /\ nxt \in [Tasks -> Blocks \cup {NULL}]
  /\ owners \in [Blocks -> Nat]
  /\ depth \in [Blocks -> Nat]

\* The task is pushing a block.
Adding(t) == pc[t] \in {"addload", "addcas"}

\* No block is handed out twice, nor handed out while a task is still putting
\* it back: a pointer memblk_malloc, datablk_malloc or msgblk_malloc returns
\* is the only one to that block.
SingleOwner ==
  \A b \in Blocks :
    /\ owners[b] <= 1
    /\ \A t \in Tasks : Adding(t) /\ blk[t] = b => owners[b] = 0
    /\ \A t, u \in Tasks : Adding(t) /\ Adding(u) /\ blk[t] = b /\ blk[u] = b => t = u

\* The blocks found by following next from first, in at most k steps.
Reached(c) ==
  LET walk[k \in 0 .. Cardinality(Blocks)] ==
        IF k = 0 THEN {first[c]}
        ELSE walk[k - 1] \cup {next[b] : b \in walk[k - 1] \ {NULL}}
  IN  walk[Cardinality(Blocks)] \ {NULL}

\* A block nobody owns and nobody is putting back can be malloced again: it is
\* on the list of its stack, and on that list only.
NoBlockLost ==
  \A b \in Blocks : \A c \in Stacks :
    b \in Reached(c) <=>
      /\ c = Home[b]
      /\ owners[b] = 0
      /\ \A t \in Tasks : ~(Adding(t) /\ blk[t] = b)

\* While one task mallocs, the stack its search found is not emptied before
\* llist_del_first pops from it: malloc fails only if every stack for the size
\* was empty when it looked.
FoundStaysNonEmpty ==
  \A t \in Tasks : pc[t] \in {"load", "next", "cas"} => first[idx[t]] # NULL

\* The block malloc(size) returns has room for size bytes.
BigEnough ==
  [][\A t \in Takers : \A b \in Blocks :
       owners'[b] > owners[b] /\ pc'[t] # pc[t] => want[t] <= Capacity(b)]_vars

=============================================================================
