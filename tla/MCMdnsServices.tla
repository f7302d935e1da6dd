--------------------------- MODULE MCMdnsServices ---------------------------
(* Two tasks change the services while others use the action queue.          *)
EXTENDS MdnsServicesInv
=============================================================================
