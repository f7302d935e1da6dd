---------------------------- MODULE MCMdnsPacket ----------------------------
(* Two services of a host, with the lengths of usual names.                 *)
EXTENDS MdnsPacketInv, TLC

MCSize ==
  "local" :> 5 @@ "_sub" :> 4 @@ "_services" :> 9 @@ "_dns-sd" :> 7 @@ "_udp" :> 4
    @@ "_http" :> 5 @@ "_tcp" :> 4 @@ "esp" :> 3 @@ "web" :> 3 @@ "log" :> 3 @@ "_printer" :> 8

\* An instance whose name has as many characters as mdns_instance_name_set takes
LongSize == [MCSize EXCEPT !["web"] = 64]

MCService ==
  [web |-> [instance |-> "web", service |-> "_http", proto |-> "_tcp", host |-> "esp",
            subtypes |-> <<"_printer">>, txt |-> <<7, 4>>],
   log |-> [instance |-> "log", service |-> "_http", proto |-> "_udp", host |-> "esp",
            subtypes |-> <<>>, txt |-> <<>>]]

MCDiscovery == <<"_services", "_dns-sd", "_udp">>

=============================================================================
