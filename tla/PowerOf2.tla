------------------------------ MODULE PowerOf2 ------------------------------
(***************************************************************************)
(* get_powerof2 of linux_circ.h, which circ_queue_create calls with the    *)
(* length asked for: the algorithm against its definition.  A word that is *)
(* not negative is the set of its bits.                                    *)
(***************************************************************************)
EXTENDS Integers, FiniteSetsExt

\* The powers of two an int has
Pow2[k \in 0 .. 30] == IF k = 0 THEN 1 ELSE 2 * Pow2[k - 1]

CONSTANT MaxLength   \* bound on the lengths tried

\* Above 2^30 the addition in the last line of get_powerof2 overflows.
ASSUME PowerAssumption == MaxLength \in Nat /\ MaxLength <= Pow2[30]

Bits(n) == {b \in 0 .. 30 : (n \div Pow2[b]) % 2 = 1}

\* The word with the bits x: below[k] is what those under k are worth.
Value(x) ==
  LET below[k \in 0 .. 31] ==
        IF k = 0 THEN 0
        ELSE below[k - 1] + (IF k - 1 \in x THEN Pow2[k - 1] ELSE 0)
  IN  below[31]

\* x | (x >> k)
Smear(x, k) == x \cup {b \in 0 .. 30 : b + k \in x}

\* Mutant: the first shift is forgotten.
GetPowerOf2NoHalf(i) ==
  LET temp == Smear(Smear(Smear(Smear(Bits(i - 1), 2), 4), 8), 16)
  IN  IF i - 1 < 0 THEN 1 ELSE Value(temp) + 1

\* temp |= temp >> 1, 2, 4, 8, 16 copies the highest set bit of i - 1 to all
\* lower ones.  (Shifts keep the sign of a negative temp.)
get_powerof2(i) ==
  LET temp == Smear(Smear(Smear(Smear(Smear(Bits(i - 1), 1), 2), 4), 8), 16)
  IN  IF i - 1 < 0 THEN 1 ELSE Value(temp) + 1

\* get_powerof2 answers the least power of two that is not below its argument,
\* as the mask pos & size of CIRC_GET_INDEX needs.
LeastPower ==
  \A length \in 0 .. MaxLength :
    get_powerof2(length) = Min({p \in {Pow2[k] : k \in 0 .. 30} : p >= length})

=============================================================================
