----------------------------- MODULE MCNetwork -----------------------------
(* Two network tasks, and a thread that registers data.                     *)
EXTENDS NetworkInv, TLC

=============================================================================
