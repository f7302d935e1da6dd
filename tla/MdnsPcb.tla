------------------------------ MODULE MdnsPcb ------------------------------
(***************************************************************************)
(* One mdns_pcb_t of components/mdns/mdns.c: the interface and IP protocol *)
(* on which the responder probes for its names, announces its records and  *)
(* answers questions, together with the part of the transmit queue that    *)
(* belongs to it.  A pcb is a record                                       *)
(*                                                                         *)
(*   open     the pcb pointer is set: the network delivers packets to it   *)
(*   state    mdns_pcb_state_t                                             *)
(*   probe    probe_services, the services it is probing for               *)
(*   probeIp  probe_ip: the host name is probed for as well                *)
(*   running  probe_running                                                *)
(*   tx       the packets scheduled on it                                  *)
(*   probed   (history) how many probes of the running series have been    *)
(*            sent for a name; 3 once the series is complete               *)
(*   dropped  (history) services struck off the list while being probed    *)
(*                                                                         *)
(* and the helpers of mdns.c that work on one pcb are operators from such  *)
(* a record to another.  A scheduled packet is a record                    *)
(*                                                                         *)
(*   kind         probe, announce or answer                                *)
(*   ans, hosts   services and hosts with records in its answer section    *)
(*   more, moreHosts   the same for the authority and additional sections; *)
(*                in a probe every service of `more' also has a question   *)
(*   ownQ         it asks for the server's own host name                   *)
(*   hostQs       services whose hostname string one of its questions      *)
(*                points to                                                *)
(*   born         the number of the event that scheduled it, which keeps   *)
(*                equal packets apart                                      *)
(*                                                                         *)
(* When a packet is due is left out: any scheduled packet may be the next. *)
(* No allocation fails.  The services have different types, so that the    *)
(* lookup of a service by its type finds it.                               *)
(***************************************************************************)
EXTENDS Naturals, FiniteSets

CONSTANTS Services,   \* what the application may publish
          Delegated,  \* host names it may answer for besides its own
          Self,       \* its own host, _mdns_self_host
          HostOf      \* the host each service is added with

ASSUME PcbAssumption ==
  /\ Self \notin Services \cup Delegated
  /\ Services \cap Delegated = {}
  /\ HostOf \in [Services -> {Self} \cup Delegated]

Hosts == {Self} \cup Delegated

\* What has a name that must be probed for: the services and the host.
Names == Services \cup {Self}

PCB_OFF        == 0
PCB_DUP        == 1
PCB_INIT       == 2
PCB_PROBE_1    == 3
PCB_PROBE_2    == 4
PCB_PROBE_3    == 5
PCB_ANNOUNCE_1 == 6
PCB_ANNOUNCE_2 == 7
PCB_ANNOUNCE_3 == 8
PCB_RUNNING    == 9

Probing(pcb)    == PCB_OFF < pcb.state /\ pcb.state < PCB_ANNOUNCE_1
Announcing(pcb) == PCB_PROBE_3 < pcb.state /\ pcb.state < PCB_RUNNING

-----------------------------------------------------------------------------
(* Packets.                                                                 *)

\* No services stand for the host itself (the list pointer is NULL).
HostsFor(ss) == IF ss = {} THEN {Self} ELSE {HostOf[s] : s \in ss}

\* _mdns_create_probe_packet
ProbePacket(ss, ip, n) ==
  [kind |-> "probe", ans |-> {}, hosts |-> {}, more |-> ss,
   moreHosts |-> IF ip THEN HostsFor(ss) ELSE {}, ownQ |-> ip,
   hostQs |-> IF ip THEN ss ELSE {}, born |-> n]

\* _mdns_create_announce_packet
AnnouncePacket(ss, ip, n) ==
  [kind |-> "announce", ans |-> ss, hosts |-> {}, more |-> {},
   moreHosts |-> IF ip THEN HostsFor(ss) ELSE {}, ownQ |-> FALSE,
   hostQs |-> {}, born |-> n]

\* _mdns_create_announce_from_probe
AnnounceFromProbe(pk) ==
  [kind |-> "announce", ans |-> pk.more,
   hosts |-> {HostOf[s] : s \in pk.more} \cup pk.moreHosts, more |-> {},
   moreHosts |-> {}, ownQ |-> FALSE, hostQs |-> {}, born |-> pk.born]

\* _mdns_create_answer_from_parsed_packet for a question that services ss and
\* hosts hs answer; a service may add its address records.
AnswerPacket(ss, hs, addresses, n) ==
  [kind |-> "answer", ans |-> ss, hosts |-> hs, more |-> IF addresses THEN ss ELSE {},
   moreHosts |-> {}, ownQ |-> FALSE, hostQs |-> {}, born |-> n]

HasAnswers(pk) == pk.ans # {} \/ pk.hosts # {}

Hollow(pk) ==
  ~HasAnswers(pk) /\ pk.more = {} /\ pk.moreHosts = {} /\ ~pk.ownQ /\ pk.hostQs = {}

-----------------------------------------------------------------------------
(* Probing.                                                                 *)

\* The names pcb is probing for.
Sought(pcb) == pcb.probe \cup IF pcb.probeIp THEN {Self} ELSE {}

\* Mutant: the queue of the pcb has not been cleared.
StartProbeToo(pcb, n) ==
  [pcb EXCEPT !.state = PCB_PROBE_1, !.running = TRUE,
              !.tx = @ \cup {ProbePacket(pcb.probe, pcb.probeIp, n)},
              !.probed = [x \in Names |-> IF x \in Sought(pcb) THEN 0 ELSE @[x]],
              !.dropped = @ \ pcb.probe]

\* A series of probes begins for the names of pcb.  What it had still to send
\* is gone: the queue of the pcb has been cleared.
StartProbe(pcb, n) ==
  [pcb EXCEPT !.state = PCB_PROBE_1, !.running = TRUE,
              !.tx = {ProbePacket(pcb.probe, pcb.probeIp, n)},
              !.probed = [x \in Names |-> IF x \in Sought(pcb) THEN 0 ELSE @[x]],
              !.dropped = @ \ pcb.probe]

\* Mutant: the new services take the place of those on the list.
InitPcbProbeNewOnly(pcb, ss, ip, n) ==
  StartProbe([pcb EXCEPT !.probe = ss, !.probeIp = @ \/ ip], n)

\* _mdns_init_pcb_probe_new_service, with the search for services that are
\* already on the list in _mdns_init_pcb_probe
InitPcbProbeNewService(pcb, ss, ip, n) ==
  StartProbe([pcb EXCEPT !.probe = IF Probing(pcb) THEN @ \cup ss ELSE ss,
                         !.probeIp = @ \/ ip], n)

\* _mdns_init_pcb_probe; named says that the server has a host name.
InitPcbProbe(pcb, ss, ip, named, n) ==
  IF named THEN InitPcbProbeNewService(pcb, ss, ip, n)
           ELSE [pcb EXCEPT !.state = PCB_RUNNING, !.tx = {}]

\* clear_old_probe of _mdns_probe_all_pcbs
ClearOldProbe(pcb) ==
  [pcb EXCEPT !.probe = {}, !.running = FALSE, !.dropped = @ \cup pcb.probe]

-----------------------------------------------------------------------------
(* Announcing.                                                              *)

AddToPacket(pk, ss, ip) ==
  [pk EXCEPT !.ans = @ \cup ss, !.hosts = @ \cup IF ip THEN HostsFor(ss) ELSE {}]

\* _mdns_announce_pcb: the pcbs it may make of pcb, one for each packet that
\* may be the first in the queue.
AnnouncePcb(pcb, ss, ip, named, n) ==
  CASE pcb.open /\ Probing(pcb) -> {InitPcbProbe(pcb, ss, ip, named, n)}
    [] pcb.open /\ Announcing(pcb) /\ pcb.tx # {} ->
         {[pcb EXCEPT !.tx = (@ \ {pk}) \cup {AddToPacket(pk, ss, ip)},
                      !.state = PCB_ANNOUNCE_1] : pk \in pcb.tx}
    [] pcb.open /\ pcb.state = PCB_RUNNING /\ named ->
         {[pcb EXCEPT !.tx = @ \cup {AnnouncePacket(ss, ip, n)},
                      !.state = PCB_ANNOUNCE_1]}
    [] OTHER -> {pcb}

-----------------------------------------------------------------------------
(* Sending, and removing a service.                                         *)

\* What is known of the names after one more probe has gone out.
CountProbe(pcb) ==
  [x \in Names |-> pcb.probed[x] + IF x \in Sought(pcb) THEN 1 ELSE 0]

\* _mdns_tx_handle_packet
TxHandlePacket(pcb, pk) ==
  CASE pcb.state \in {PCB_PROBE_1, PCB_PROBE_2} ->
         [pcb EXCEPT !.state = @ + 1, !.probed = CountProbe(pcb)]
    [] pcb.state = PCB_PROBE_3 ->
         [pcb EXCEPT !.state = PCB_ANNOUNCE_1, !.probed = CountProbe(pcb),
                     !.probe = {}, !.probeIp = FALSE, !.running = FALSE,
                     !.tx = (@ \ {pk}) \cup {AnnounceFromProbe(pk)}]
    [] pcb.state \in {PCB_ANNOUNCE_1, PCB_ANNOUNCE_2} -> [pcb EXCEPT !.state = @ + 1]
    [] pcb.state = PCB_ANNOUNCE_3 ->
         [pcb EXCEPT !.state = PCB_RUNNING, !.tx = @ \ {pk}]
    [] OTHER -> [pcb EXCEPT !.tx = @ \ {pk}]

\* _mdns_dealloc_scheduled_service_answers on the three sections, and the
\* questions of a probe; a question for the host of a service stays.
WithoutServices(pk, ss) == [pk EXCEPT !.ans = @ \ ss, !.more = @ \ ss]

\* Mutant: an empty list does not end the probing.
CutShortAnnouncing(pcb, ss) ==
  Announcing(pcb) /\ \E pk \in pcb.tx :
                       HasAnswers(pk) /\ ~HasAnswers(WithoutServices(pk, ss))

\* The list of services to probe for has become empty, and there is nothing
\* else to probe for; or a packet has no answer left.
CutShort(pcb, ss) ==
  \/ Probing(pcb) /\ pcb.probe # {} /\ pcb.probe \subseteq ss /\ ~pcb.probeIp
  \/ Announcing(pcb) /\ \E pk \in pcb.tx :
                          HasAnswers(pk) /\ ~HasAnswers(WithoutServices(pk, ss))

\* Mutant: the list of services to probe for is not searched.
RemoveServicesSent(pcb, ss) ==
  [pcb EXCEPT !.tx = {pk \in {WithoutServices(q, ss) : q \in @} : ~Hollow(pk)},
              !.running = @ /\ ~CutShort(pcb, ss),
              !.state = IF CutShort(pcb, ss) THEN PCB_RUNNING ELSE @,
              !.probed = [x \in Names |-> IF x \in ss THEN 0 ELSE @[x]],
              !.dropped = @ \ ss]

\* _mdns_remove_scheduled_service_packets for one service of ss after the other
RemoveServices(pcb, ss) ==
  [pcb EXCEPT !.tx = {pk \in {WithoutServices(q, ss) : q \in @} : ~Hollow(pk)},
              !.probe = @ \ ss,
              !.running = @ /\ ~CutShort(pcb, ss),
              !.state = IF CutShort(pcb, ss) THEN PCB_RUNNING ELSE @,
              !.probed = [x \in Names |-> IF x \in ss THEN 0 ELSE @[x]],
              !.dropped = @ \ ss]

\* The names xs are new ones, which nobody has probed for.
Renamed(pcb, xs) ==
  [pcb EXCEPT !.probed = [x \in Names |-> IF x \in xs THEN 0 ELSE @[x]],
              !.dropped = @ \ xs]

-----------------------------------------------------------------------------
(* Opening and closing.                                                     *)

\* A pcb as _udp_pcb_deinit leaves it, its queue cleared
Closed ==
  [open |-> FALSE, state |-> PCB_OFF, probe |-> {}, probeIp |-> FALSE,
   running |-> FALSE, tx |-> {}, probed |-> [x \in Names |-> 0], dropped |-> {}]

\* _mdns_enable_pcb, which calls _mdns_restart_pcb; a pcb that cannot join
\* the multicast group stays as it is.
EnablePcb(pcb, all, named, joins, n) ==
  IF pcb.open \/ joins THEN InitPcbProbe([pcb EXCEPT !.open = TRUE], all, TRUE, named, n)
                       ELSE pcb

=============================================================================
