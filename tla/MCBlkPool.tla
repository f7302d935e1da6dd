----------------------------- MODULE MCBlkPool -----------------------------
(* A pool of three blocks in two stacks.                                    *)
EXTENDS BlkPoolInv, TLC

CONSTANTS b1, b2, b3

MCHome == b1 :> 0 @@ b2 :> 0 @@ b3 :> 1

=============================================================================
