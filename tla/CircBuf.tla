------------------------------ MODULE CircBuf ------------------------------
(***************************************************************************)
(* The index arithmetic of components/activetask/linux_circ.h.             *)
(*                                                                         *)
(* A ring is two counters, head and tail, that only grow (fetch_add), and  *)
(* Size + 1 slots, Size + 1 a power of two; position x lives in slot       *)
(* x & Size.  The counters are C ints and Size is a size_t: on the target  *)
(* both are machine words, so head + Size - 1 < tail is an unsigned        *)
(* comparison of words.  WordMod is the number of words (2^32).            *)
(***************************************************************************)
EXTENDS Integers

CONSTANTS Size,      \* the field size of struct circ_buf: get_powerof2(length) - 1
          WordMod    \* number of values of an int or a size_t

ASSUME CircBufAssumption ==
  /\ Size \in Nat
  /\ WordMod \in Nat
  /\ WordMod > 2 * (Size + 1)

Words == 0 .. WordMod - 1

\* An integer within one WordMod of the range, as a machine word.
Word(x) == IF x < 0 THEN x + WordMod ELSE IF x < WordMod THEN x ELSE x - WordMod

\* CIRC_READ_ONE and CIRC_WRITE_ONE answer -1 for "empty" and "full"; as a
\* word, -1 is the position WordMod - 1.
NoPosition == WordMod - 1

\* Mutant: the free slot forgotten.
CircIsFullNoGap(head, tail) == Word(head + Size) < tail

CircIsEmpty(head, tail) == head = tail

CircIsFull(head, tail) == Word(Word(head + Size) - 1) < tail

CircGetIndex(pos) == pos % (Size + 1)

=============================================================================
