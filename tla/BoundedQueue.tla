---------------------------- MODULE BoundedQueue ----------------------------
(***************************************************************************)
(* What the queue of one task promises its senders and its taker, losses   *)
(* included.  Messages are accepted one after the other and named by the   *)
(* position they are accepted at; no more than Capacity are accepted and   *)
(* not taken; they are taken in the order of their acceptance.  A message  *)
(* is put into its cell later than it is accepted.  Two may share a cell,  *)
(* and the one put last stays; the last cell keeps nothing for certain.    *)
(* What is handed over for a position is the message accepted there when   *)
(* it is still kept in its cell, and otherwise some older message, a newer *)
(* one or nothing.  Whatever was accepted is taken in the end, and         *)
(* something is handed over for it.                                        *)
(***************************************************************************)
EXTENDS Integers

CONSTANTS Capacity, Cells, Takers

VARIABLES accepted,   \* how many messages were accepted
          taken,      \* how many were taken; position taken is the next
          open,       \* the positions accepted and not put yet
          kept,       \* those whose message is in its cell, to be handed over
          held,       \* the position taken and not handed over
          got         \* what each taker was handed last

vars == <<accepted, taken, open, kept, held, got>>

Nothing == -1

Cell(x) == x % Cells

Init ==
  /\ accepted = 0
  /\ taken = 0
  /\ open = {}
  /\ kept = {}
  /\ held = {}
  /\ got = [c \in Takers |-> Nothing]

Accept ==
  /\ accepted - taken < Capacity
  /\ accepted' = accepted + 1
  /\ open' = open \cup {accepted}
  /\ UNCHANGED <<taken, kept, held, got>>

\* A put that comes late, when its position was handed over, keeps nothing,
\* and still spoils the cell for the message that is there now.
Put(x) ==
  /\ x \in open
  /\ open' = open \ {x}
  /\ kept' = {y \in kept : Cell(y) # Cell(x)}
               \cup {y \in {x} : Cell(y) # Cells - 1 /\ (y \in held \/ taken <= y)}
  /\ UNCHANGED <<accepted, taken, held, got>>

Take ==
  /\ held = {}
  /\ taken < accepted
  /\ held' = {taken}
  /\ taken' = taken + 1
  /\ UNCHANGED <<accepted, open, kept, got>>

HandOver(c) ==
  /\ \E x \in held :
       \E m \in Nothing .. accepted - 1 :
         /\ x \in kept => m = x
         /\ got' = [got EXCEPT ![c] = m]
  /\ held' = {}
  /\ kept' = kept \ held
  /\ UNCHANGED <<accepted, taken, open>>

Next ==
  \/ Accept
  \/ Take
  \/ \E x \in open : Put(x)
  \/ \E c \in Takers : HandOver(c)

\* The taker comes back for more; nobody has to send.
Spec == Init /\ [][Next]_vars /\ WF_vars(Take \/ \E c \in Takers : HandOver(c))

=============================================================================
