---------------------------- MODULE MCMdnsEngine ----------------------------
(* One task that waits for its query, one that polls or sets the host name. *)
EXTENDS MdnsEngineInv, TLC

CONSTANTS c1, c2

MCMay == c1 :> {"sync"} @@ c2 :> {"async", "host"}
MCMaxResults == c1 :> 1 @@ c2 :> 0

=============================================================================
