---------------------------- MODULE MCCircQueue ----------------------------
(* Small instances of the queue for TLC; the cfg files choose the threads,  *)
(* the size and the bound.                                                  *)
EXTENDS CircQueueInv, PowerOf2

\* wait_ms = 0 blocks, 30 gives two attempts, 10 gives none.
MCWaits == {0, 10, 30}
MCBlocking == {0}
MCPopWaits == {0, 20}

=============================================================================
