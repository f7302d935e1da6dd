----------------------------- MODULE Blackboard -----------------------------
(***************************************************************************)
(* components/blackboard/blackboard.c: a buffer out of which any thread    *)
(* registers an area under a key, without a lock.  A registration tests    *)
(* the space, moves wr_pos and tests again, in three steps.                *)
(*                                                                         *)
(* Sizes and positions are size_t: a difference wraps around at Word.  The *)
(* keys and areas that the hash map would hold are map.  nvs is what       *)
(* survives a restart.                                                     *)
(***************************************************************************)
EXTENDS Naturals, FiniteSets

CONSTANTS Threads,   \* who registers
          Keys,
          Sizes,     \* the sizes that are asked for
          BuffSize,  \* g_bb_map.buff_size
          Word,      \* the values of a size_t
          MaxPos,    \* bound on wr_pos
          None

ASSUME BlackboardAssumption ==
  /\ BuffSize \in Nat /\ Word \in Nat /\ BuffSize < Word
  /\ MaxPos \in Nat /\ MaxPos < Word
  /\ Sizes \subseteq 1 .. BuffSize

VARIABLES wrPos,   \* g_bb_map.wr_pos
          map,     \* g_bb_map.bb_map: the areas that blackboard_get finds
          claims,  \* the areas that were claimed, and whether they were granted
          reg,     \* the registration of each thread
          nvs      \* the keys stored in the name space BlackBoard

bbVars == <<wrPos, map, claims, reg, nvs>>

NoReg == [at |-> "none", key |-> None, size |-> 0, pos |-> 0]

\* The buffer is empty at every start; what nvs holds was there before.
BlackboardStart ==
  /\ wrPos = 0 /\ map = {} /\ claims = {}
  /\ reg = [t \in Threads |-> NoReg]

BlackboardReset ==
  /\ wrPos' = 0 /\ map' = {} /\ claims' = {}
  /\ reg' = [t \in Threads |-> NoReg]

\* The difference of two size_t values
Minus(a, b) == IF b <= a THEN a - b ELSE a + Word - b

\* has_space
HasSpace(size) == Minus(BuffSize, wrPos) >= size

\* blackboard_register begins: malloc may fail, or there is no space.
Register(t, key, size) ==
  /\ reg[t].at = "none" /\ wrPos + size <= MaxPos
  /\ \/ /\ HasSpace(size)
        /\ reg' = [reg EXCEPT ![t] = [at |-> "claim", key |-> key, size |-> size, pos |-> wrPos]]
     \/ reg' = [reg EXCEPT ![t].at = "lack"]
  /\ UNCHANGED <<wrPos, map, claims, nvs>>

\* Mutant: the position is the one that was tested.
ClaimTested(t) ==
  /\ reg[t].at = "claim" /\ wrPos + reg[t].size <= MaxPos
  /\ wrPos' = reg[t].pos + reg[t].size
  /\ reg' = [reg EXCEPT ![t].at = "check"]
  /\ UNCHANGED <<map, claims, nvs>>

\* atomic_fetch_add
Claim(t) ==
  /\ reg[t].at = "claim" /\ wrPos + reg[t].size <= MaxPos
  /\ wrPos' = wrPos + reg[t].size
  /\ reg' = [reg EXCEPT ![t].at = "check", ![t].pos = wrPos]
  /\ UNCHANGED <<map, claims, nvs>>

Area(t, granted) == [pos |-> reg[t].pos, size |-> reg[t].size, granted |-> granted]

\* Mutant: the space is not tested again.
CheckNothing(t) ==
  /\ reg[t].at = "check"
  /\ claims' = claims \cup {Area(t, TRUE)} /\ reg' = [reg EXCEPT ![t].at = "ok"]
  /\ UNCHANGED <<wrPos, map, nvs>>

\* The test after the claim.  wr_pos stays where it is if there is no space.
\* The block is added to a copy of the list's head: map does not change.
Check(t) ==
  /\ reg[t].at = "check"
  /\ LET granted == Minus(BuffSize, reg[t].pos) >= reg[t].size IN
     /\ claims' = claims \cup {Area(t, granted)}
     /\ reg' = [reg EXCEPT ![t].at = IF granted THEN "ok" ELSE "lack"]
  /\ UNCHANGED <<wrPos, map, nvs>>

\* The caller has the result.
Registered(t) == reg' = [reg EXCEPT ![t] = NoReg] /\ UNCHANGED <<wrPos, map, claims, nvs>>

\* blackboard_get: NULL is None
Get(key) ==
  IF \E m \in map : m.key = key THEN (CHOOSE m \in map : m.key = key).area ELSE None

\* blackboard_flush
Flush(key) ==
  /\ nvs' = IF Get(key) = None THEN nvs ELSE nvs \cup {key}
  /\ UNCHANGED <<wrPos, map, claims, reg>>

\* blackboard_init.  Whatever entries there are, the iterator comes to its end
\* before the last of them is loaded, which is taken for an error: the whole
\* partition is erased and the device starts again.
BlackboardInit ==
  IF nvs = {} THEN UNCHANGED nvs ELSE nvs' = {}

=============================================================================
