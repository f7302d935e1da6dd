---------------------------- MODULE BlockStacks ----------------------------
(***************************************************************************)
(* What a pool of blocks promises: for each capacity a stack of free       *)
(* blocks, from which malloc pops and onto which free pushes at one        *)
(* instant each.  A block is in its stack, or owned by the program, or on  *)
(* its way back, and in one of these places only.                          *)
(***************************************************************************)
EXTENDS Naturals, Sequences

CONSTANTS Blocks,   \* the blocks of the pool
          Stacks,   \* the stacks, one for each capacity
          Home      \* the stack of each block

VARIABLES stack,    \* the free blocks of each stack, the top first
          owned,    \* the blocks the program owns
          back      \* the blocks it has given up that are in no stack yet

vars == <<stack, owned, back>>

\* The blocks that have their place in stack c
Homes(c) == {b \in Blocks : Home[b] = c}

Holds(c) == {stack[c][k] : k \in DOMAIN stack[c]}

Init ==
  /\ DOMAIN stack = Stacks
  /\ \A c \in Stacks :
       /\ stack[c] \in Seq(Blocks)
       /\ Holds(c) = Homes(c)
       /\ \A j, k \in DOMAIN stack[c] : stack[c][j] = stack[c][k] => j = k
  /\ owned = {} /\ back = {}

\* The program gets the block at the top.
Pop(c) ==
  /\ stack[c] # <<>>
  /\ stack' = [stack EXCEPT ![c] = Tail(@)]
  /\ owned' = owned \cup {Head(stack[c])}
  /\ UNCHANGED back

Release(b) ==
  /\ b \in owned
  /\ owned' = owned \ {b}
  /\ back' = back \cup {b}
  /\ UNCHANGED stack

Push(b) ==
  /\ b \in back
  /\ stack' = [stack EXCEPT ![Home[b]] = <<b>> \o @]
  /\ back' = back \ {b}
  /\ UNCHANGED owned

Next ==
  \/ \E c \in Stacks : Pop(c)
  \/ \E b \in Blocks : Release(b) \/ Push(b)

Spec == Init /\ [][Next]_vars

=============================================================================
