--------------------------- MODULE MCMdnsResponder ---------------------------
(* Two interfaces on one subnet, a service on the own host and one on a      *)
(* delegated host.                                                           *)
EXTENDS MdnsResponderInv, TLC

CONSTANTS s1, s2, d, sta, eth

MCHostOf == s1 :> Self @@ s2 :> d
MCTwin == sta :> eth @@ eth :> sta

=============================================================================
