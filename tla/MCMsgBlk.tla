------------------------------ MODULE MCMsgBlk ------------------------------
(* Two tasks, two data blocks, two messages and a queue of one pointer.     *)
EXTENDS MsgBlkInv, TLC

MCSymmetry ==
  Permutations(Refs) \cup Permutations(Tasks) \cup Permutations(Datas) \cup Permutations(Msgs)

=============================================================================
