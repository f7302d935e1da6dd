-------------------------- MODULE MdnsResponderInv --------------------------
(* What makes the mDNS responder correct.                                   *)
EXTENDS MdnsResponder

Packet ==
  [kind : {"probe", "announce", "answer"}, ans : SUBSET Services, hosts : SUBSET Hosts,
   more : SUBSET Services, moreHosts : SUBSET Hosts, ownQ : BOOLEAN,
   hostQs : SUBSET Services, born : Nat]

Pcb ==
  [open : BOOLEAN, state : PCB_OFF .. PCB_RUNNING, probe : SUBSET Services,
   probeIp : BOOLEAN, running : BOOLEAN, tx : SUBSET Packet,
   probed : [Names -> 0 .. 3], dropped : SUBSET Services]

\* The types of the variables.
RespTypeOK ==
  /\ port \in [Ports -> Pcb]
  /\ services \subseteq Services /\ own \subseteq Services
  /\ hosts \subseteq Delegated
  /\ hostname \in BOOLEAN /\ instance \in BOOLEAN
  /\ events \in 0 .. MaxEvents

\* The state of a pcb, its list of services, its flags and its queue say the
\* same: while it probes the one packet it has to send is a probe for exactly
\* the services of the list (otherwise TX_HANDLE would announce the wrong
\* names, or nothing would ever be sent and the pcb would probe forever);
\* while it announces there is something to send; and a closed pcb has
\* nothing left.
PcbOK(pcb) ==
  /\ pcb.open => PCB_INIT < pcb.state
  /\ ~pcb.open => /\ pcb.state \in {PCB_OFF, PCB_DUP}
                  /\ pcb.tx = {}
  /\ pcb.open /\ Probing(pcb) =>
       /\ pcb.running
       /\ \E pk \in pcb.tx : /\ pcb.tx = {pk}
                             /\ pk.kind = "probe" /\ ~HasAnswers(pk)
                             /\ pk.more = pcb.probe /\ pk.ownQ = pcb.probeIp
       /\ Sought(pcb) # {}
  /\ ~(pcb.open /\ Probing(pcb)) => pcb.probe = {} /\ ~pcb.probeIp /\ ~pcb.running
  /\ Announcing(pcb) => pcb.tx # {}

QueueMatches == \A p \in Ports : PcbOK(port[p])

\* No list of services and no record on its way names a service that has been
\* freed (_mdns_remove_scheduled_service_packets).
RecordsLive ==
  \A p \in Ports :
    /\ port[p].probe \subseteq services
    /\ \A pk \in port[p].tx : pk.ans \cup pk.more \subseteq services

\* A name is used only when three probes in a row have asked for it under what
\* it is called now: on a pcb that has finished probing every service and the
\* host have been probed for, and so has, at any time, whatever a scheduled
\* announcement or answer names.  The exception are services that
\* _mdns_restart_all_pcbs_no_instance struck off the list while they were
\* probed for.
ProvenAt(pcb) == {x \in Names : pcb.probed[x] = 3} \cup pcb.dropped

ProbedFirst ==
  \A p \in Ports : port[p].open /\ hostname =>
    /\ port[p].state > PCB_PROBE_3 => services \cup {Self} \subseteq ProvenAt(port[p])
    /\ \A pk \in port[p].tx : pk.ans \subseteq ProvenAt(port[p])

\* A pcb that stepped back as a duplicate is answered for by the other
\* interface: that one is open (otherwise nobody would ever take over again).
DupHasTwin ==
  \A p \in Ports : port[p].state = PCB_DUP => TwinOf(p) \in Ports /\ port[TwinOf(p)].open

\* What else is true of the packets of an open pcb: a probe says more than the
\* names of services only if it asks for the host, and anything else has
\* something to say that a removal of services either leaves or cuts short.
PacketOK(pcb, pk) ==
  IF Probing(pcb) THEN /\ pk.ownQ <=> pk.moreHosts # {}
                       /\ pk.hostQs # {} => pk.ownQ
                  ELSE /\ ~pk.ownQ /\ pk.hostQs = {}
                       /\ pk.more \subseteq pk.ans
                       /\ HasAnswers(pk) \/ pk.moreHosts # {}

\* What is known of the names at a pcb of a server with the services ss: those
\* it is probing for have been asked for in every state of the series so far,
\* and the others have been through one.
NamesOK(pcb, ss) ==
  /\ Probing(pcb) => \A x \in Sought(pcb) : pcb.probed[x] = pcb.state - PCB_PROBE_1
  /\ ss \cup {Self} \subseteq ProvenAt(pcb) \cup Sought(pcb)
  /\ \A pk \in pcb.tx : pk.ans \subseteq ProvenAt(pcb)

\* The inductive invariant, pcb by pcb.
PcbInv(pcb, ss, named) ==
  /\ pcb \in Pcb
  /\ PcbOK(pcb)
  /\ pcb.probe \subseteq ss
  /\ \A pk \in pcb.tx : PacketOK(pcb, pk) /\ pk.ans \cup pk.more \subseteq ss
  /\ pcb.open /\ Probing(pcb) => named
  /\ pcb.open /\ named => NamesOK(pcb, ss)

RespInv ==
  /\ RespTypeOK
  /\ services # {} => hostname
  /\ \A p \in Ports : PcbInv(port[p], services, hostname)
  /\ DupHasTwin

\* Once nothing more comes from outside, every pcb that is open gets through
\* probing and announcing, and its queue empties.
Settled == \A p \in Ports : port[p].open => port[p].state = PCB_RUNNING /\ port[p].tx = {}

Settles == <>[]Settled

\* mdns.c:2490: no scheduled packet refers to a service that has been removed.
\* A probe for the host still asks for the host name of such a service.
HostQuestionsLive ==
  \A p \in Ports : \A pk \in port[p].tx : pk.hostQs \subseteq services

=============================================================================
