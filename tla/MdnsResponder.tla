---------------------------- MODULE MdnsResponder ----------------------------
(***************************************************************************)
(* The responder of components/mdns/mdns.c: the service task executes one  *)
(* action of its queue after another (_mdns_execute_action) on the server  *)
(* and its pcbs, in any order the applications, the event loop, the        *)
(* network and the timer have put them there.                              *)
(*                                                                         *)
(* An action is executed under the service lock, so that each of them is   *)
(* one step here.  What a name is called is left out; that a name is a new *)
(* one is kept in the pcbs (Renamed).  A host name is set before services  *)
(* are added, as _mdns_remap_self_service_hostname needs it.  A received   *)
(* packet is handled before its pcb is closed.                             *)
(***************************************************************************)
EXTENDS MdnsPcb

CONSTANTS Ifs,        \* the interfaces, and
          Protos,     \* the IP protocols of each
          Twin,       \* the interface that may be on the same subnet
          NoIf,       \* there is none
          OwnNames,   \* services the application adds with an instance name
          MaxEvents   \* bound on what comes from outside

Ports == Ifs \X Protos

ASSUME ResponderAssumption ==
  /\ NoIf \notin Ifs
  /\ Twin \in [Ifs -> Ifs \cup {NoIf}]
  /\ \A i \in Ifs : Twin[i] # NoIf => Twin[i] # i /\ Twin[Twin[i]] = i
  /\ OwnNames \subseteq Services
  /\ MaxEvents \in Nat

VARIABLES
  port,       \* the pcb of each interface and protocol
  services,   \* the services of the server
  own,        \* those with an instance name of their own
  hosts,      \* the delegated hosts it answers for
  hostname,   \* the server has a host name, and
  instance,   \* an instance name
  events      \* how many actions from outside have been executed

server == <<services, own, hosts, hostname, instance>>

vars == <<port, server, events>>

Init ==
  /\ port = [p \in Ports |-> Closed]
  /\ services = {} /\ own = {} /\ hosts = {}
  /\ hostname = FALSE /\ instance = FALSE
  /\ events = 0

\* One more action from outside; what it schedules bears its number.
Event == events < MaxEvents /\ events' = events + 1

This == events + 1

\* Every pcb becomes one of those that F allows it.
EveryPort(F) == port' \in {f \in [Ports -> UNION {F[p] : p \in Ports}] :
                             \A p \in Ports : f[p] \in F[p]}

-----------------------------------------------------------------------------
(* Helpers on all pcbs.                                                     *)

\* _mdns_probe_all_pcbs, for names that are new if they are among `fresh'
ProbeAllPcbs(ss, ip, clear, fresh, named) ==
  port' = [p \in Ports |->
             LET pcb == Renamed(port[p], fresh) IN
             IF pcb.open
             THEN InitPcbProbe(IF clear THEN ClearOldProbe(pcb) ELSE pcb, ss, ip, named, This)
             ELSE pcb]

\* _mdns_announce_all_pcbs
AnnounceAllPcbs(ss, ip) ==
  EveryPort([p \in Ports |-> AnnouncePcb(port[p], ss, ip, hostname, This)])

\* Services called by the name of the server's instance, or of its host
NoInstance == services \ own

\* _mdns_restart_all_pcbs after the host has a new name, which services
\* without any instance name share
RestartAllPcbs ==
  ProbeAllPcbs(services, TRUE, TRUE,
               {Self} \cup IF instance THEN {} ELSE NoInstance, TRUE)

\* _mdns_restart_all_pcbs_no_instance after the instance has a new name
RestartAllPcbsNoInstance ==
  IF NoInstance = {} THEN UNCHANGED port
  ELSE ProbeAllPcbs(NoInstance, FALSE, TRUE, NoInstance, hostname)

-----------------------------------------------------------------------------
(* What applications ask for.                                               *)

\* ACTION_HOSTNAME_SET
HostnameSet ==
  /\ Event
  /\ hostname' = TRUE
  /\ RestartAllPcbs
  /\ UNCHANGED <<services, own, hosts, instance>>

\* ACTION_INSTANCE_SET
InstanceSet ==
  /\ Event
  /\ instance' = TRUE
  /\ RestartAllPcbsNoInstance
  /\ UNCHANGED <<services, own, hosts, hostname>>

\* ACTION_SERVICE_ADD, of a service on a host the server answers for
ServiceAdd(s) ==
  /\ Event
  /\ hostname
  /\ s \notin services
  /\ HostOf[s] \in {Self} \cup hosts
  /\ services' = services \cup {s}
  /\ own' = own \cup ({s} \cap OwnNames)
  /\ ProbeAllPcbs({s}, FALSE, FALSE, {s}, TRUE)
  /\ UNCHANGED <<hosts, hostname, instance>>

\* ACTION_SERVICE_INSTANCE_SET
ServiceInstanceSet(s) ==
  /\ Event
  /\ s \in services
  /\ own' = own \cup {s}
  /\ ProbeAllPcbs({s}, FALSE, FALSE, {s}, hostname)
  /\ UNCHANGED <<services, hosts, hostname, instance>>

\* ACTION_SERVICE_PORT_SET announces the addresses as well; ACTION_SERVICE_
\* TXT_REPLACE, TXT_SET and TXT_DEL announce without them.
ServiceChange(s, ip) ==
  /\ Event
  /\ s \in services
  /\ AnnounceAllPcbs({s}, ip)
  /\ UNCHANGED server

\* The services ss, with what is scheduled of them, go.
Remove(ss) ==
  /\ services' = services \ ss
  /\ own' = own \ ss
  /\ port' = [p \in Ports |-> RemoveServices(port[p], ss)]

\* ACTION_SERVICE_DEL
ServiceDel(s) ==
  /\ Event
  /\ s \in services
  /\ Remove({s})
  /\ UNCHANGED <<hosts, hostname, instance>>

\* ACTION_SERVICES_CLEAR
ServicesClear ==
  /\ Event
  /\ services # {}
  /\ Remove(services)
  /\ UNCHANGED <<hosts, hostname, instance>>

\* ACTION_DELEGATE_HOSTNAME_ADD; nothing is added twice.
DelegateHostnameAdd(h) ==
  /\ Event
  /\ hosts' = hosts \cup {h}
  /\ UNCHANGED <<port, services, own, hostname, instance>>

\* ACTION_DELEGATE_HOSTNAME_REMOVE: the services of the host go with it.
DelegateHostnameRemove(h) ==
  /\ Event
  /\ h \in hosts
  /\ hosts' = hosts \ {h}
  /\ Remove({s \in services : HostOf[s] = h})
  /\ UNCHANGED <<hostname, instance>>

-----------------------------------------------------------------------------
(* perform_event_action: an interface comes or goes.                        *)

\* MDNS_EVENT_ENABLE_IP4 and IP6
Enable(p) ==
  /\ Event
  /\ \E joins \in BOOLEAN :
       port' = [port EXCEPT ![p] = EnablePcb(@, services, hostname, joins, This)]
  /\ UNCHANGED server

\* The pcb of the same protocol on the other interface of the subnet
TwinOf(p) == <<Twin[p[1]], p[2]>>

\* Mutant: nobody looks for a duplicate on the other interface.
DisableAlone(p) ==
  /\ Event
  /\ port' = [port EXCEPT ![p] = Closed]
  /\ UNCHANGED server

\* _mdns_disable_pcb, MDNS_EVENT_DISABLE_IP4 and IP6: the pcb that had left
\* the subnet to this one comes back.
Disable(p) ==
  /\ Event
  /\ LET takesOver(q) == port[p].open /\ q = TwinOf(p) /\ port[q].state = PCB_DUP IN
     \E joins \in BOOLEAN :
       port' = [q \in Ports |->
                  CASE q = p         -> Closed
                    [] takesOver(q)  -> EnablePcb([port[q] EXCEPT !.state = PCB_OFF],
                                                  services, hostname, joins, This)
                    [] OTHER         -> port[q]]
  /\ UNCHANGED server

\* MDNS_EVENT_ANNOUNCE_IP4 and IP6
Announce(p) ==
  /\ Event
  /\ \E pcb \in AnnouncePcb(port[p], {}, TRUE, hostname, This) :
       port' = [port EXCEPT ![p] = pcb]
  /\ UNCHANGED server

-----------------------------------------------------------------------------
(* ACTION_RX_HANDLE: mdns_parse_packet on what a question or a record of   *)
(* the packet is about.                                                    *)

\* _mdns_create_answer_from_parsed_packet: a packet that only asks, whose
\* answer is shared and so waits a little.  Other answers are sent at once.
Question(p) ==
  /\ Event
  /\ port[p].open /\ port[p].state > PCB_PROBE_3
  /\ \E ss \in SUBSET services, hs \in SUBSET ({Self} \cup hosts), addresses \in BOOLEAN :
       /\ ss # {} \/ hs # {}
       /\ hs # {} => hostname
       /\ port' = [port EXCEPT ![p].tx = @ \cup {AnswerPacket(ss, hs, addresses, This)}]
  /\ UNCHANGED server

\* A service record of somebody else, probing or authoritative, wins over
\* that of s: the first name that s is called by is given up.
SrvConflict(p, s) ==
  /\ Event
  /\ port[p].open /\ s \in services
  /\ IF ~port[p].running
     THEN port' = [port EXCEPT ![p] = InitPcbProbe(@, {s}, FALSE, hostname, This)]
     ELSE CASE s \in own -> ProbeAllPcbs({s}, FALSE, FALSE, {s}, TRUE)
            [] s \notin own /\ instance -> RestartAllPcbsNoInstance
            [] s \notin own /\ ~instance -> RestartAllPcbs
  /\ UNCHANGED server

\* A text record of somebody else differs from that of s.
TxtConflict(p, s) ==
  /\ Event
  /\ port[p].open /\ ~port[p].running /\ s \in services
  /\ port' = [port EXCEPT ![p] = InitPcbProbe(@, {s}, TRUE, hostname, This)]
  /\ UNCHANGED server

\* An address record for the host name of the server, with another address
AddressConflict(p) ==
  /\ Event
  /\ port[p].open /\ hostname
  /\ IF port[p].running THEN RestartAllPcbs
     ELSE port' = [port EXCEPT ![p] = InitPcbProbe(@, {}, TRUE, TRUE, This)]
  /\ UNCHANGED server

\* The address is that of the other interface, so both are on one subnet:
\* _mdns_dup_interface leaves it to the other one.
DupInterface(p) ==
  /\ Event
  /\ port[p].open /\ hostname /\ TwinOf(p) \in Ports
  /\ LET i == p[1]
         leaves(q) == q[1] = i /\ port[TwinOf(q)].open
         gains(q)  == q[1] = Twin[i] /\ port[q].open IN
     EveryPort([q \in Ports |->
                  CASE leaves(q) -> {[Closed EXCEPT !.state = PCB_DUP]}
                    [] gains(q)  -> AnnouncePcb(port[q], {}, TRUE, hostname, This)
                    [] OTHER     -> {port[q]}])
  /\ UNCHANGED server

-----------------------------------------------------------------------------
(* ACTION_TX_HANDLE, for a packet that is due.                              *)

TxHandle(p) ==
  /\ \E pk \in port[p].tx : port' = [port EXCEPT ![p] = TxHandlePacket(@, pk)]
  /\ UNCHANGED <<server, events>>

\* Everything that could happen has happened.
Quiet ==
  /\ events = MaxEvents
  /\ \A p \in Ports : port[p].tx = {}
  /\ UNCHANGED vars

Next ==
  \/ HostnameSet
  \/ InstanceSet
  \/ \E s \in Services : ServiceAdd(s) \/ ServiceInstanceSet(s) \/ ServiceDel(s)
  \/ \E s \in Services, ip \in BOOLEAN : ServiceChange(s, ip)
  \/ ServicesClear
  \/ \E h \in Delegated : DelegateHostnameAdd(h) \/ DelegateHostnameRemove(h)
  \/ \E p \in Ports : Enable(p) \/ Disable(p) \/ Announce(p) \/ Question(p)
  \/ \E p \in Ports, s \in Services : SrvConflict(p, s) \/ TxtConflict(p, s)
  \/ \E p \in Ports : AddressConflict(p) \/ DupInterface(p)
  \/ \E p \in Ports : TxHandle(p)
  \/ Quiet

\* The timer task puts every packet that is due on the queue, and the
\* service task handles what is on it.
Spec == Init /\ [][Next]_vars /\ \A p \in Ports : WF_vars(TxHandle(p))

=============================================================================
