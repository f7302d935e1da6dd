------------------------ MODULE MdnsResponderProofs ------------------------
(***************************************************************************)
(* What is proved of the mDNS responder, for any services, hosts,          *)
(* interfaces and protocols.                                               *)
(*                                                                         *)
(* The helpers on one pcb come first, each with the invariant PcbInv of    *)
(* the pcb it returns; then the actions, which apply them to the pcbs of   *)
(* the server; then the theorems.                                          *)
(***************************************************************************)
EXTENDS MdnsResponderInv, TLAPS

States ==
  PCB_OFF = 0 /\ PCB_DUP = 1 /\ PCB_INIT = 2 /\ PCB_PROBE_1 = 3 /\ PCB_PROBE_2 = 4
  /\ PCB_PROBE_3 = 5 /\ PCB_ANNOUNCE_1 = 6 /\ PCB_ANNOUNCE_2 = 7 /\ PCB_ANNOUNCE_3 = 8
  /\ PCB_RUNNING = 9

\* The states of a pcb are numbered in this order.
LEMMA StateNumbers == States
BY DEF States, PCB_OFF, PCB_DUP, PCB_INIT, PCB_PROBE_1, PCB_PROBE_2, PCB_PROBE_3,
       PCB_ANNOUNCE_1, PCB_ANNOUNCE_2, PCB_ANNOUNCE_3, PCB_RUNNING

-----------------------------------------------------------------------------
(* The packets that are scheduled.                                          *)

\* A new packet has the type of one.
LEMMA PacketTypes ==
  ASSUME NEW ss \in SUBSET Services, NEW ip \in BOOLEAN, NEW n \in Nat
  PROVE  /\ ProbePacket(ss, ip, n) \in Packet
         /\ AnnouncePacket(ss, ip, n) \in Packet
         /\ \A hs \in SUBSET Hosts : AnswerPacket(ss, hs, ip, n) \in Packet
<1>1. HostsFor(ss) \subseteq Hosts
  BY PcbAssumption DEF HostsFor, Hosts
<1> QED
  BY <1>1 DEF Packet, ProbePacket, AnnouncePacket, AnswerPacket

\* The host of no service is the server's own.
LEMMA HostsForSome ==
  ASSUME NEW ss
  PROVE  HostsFor(ss) # {}
BY DEF HostsFor

-----------------------------------------------------------------------------
(* Probing.                                                                 *)

\* A pcb that begins a series of probes is as it should be, provided that every
\* service it does not probe for has been probed for.
LEMMA StartProbeInv ==
  ASSUME NEW pcb \in Pcb, NEW ss \in SUBSET Services, NEW n \in Nat,
         pcb.open, pcb.probe \subseteq ss, Sought(pcb) # {},
         ss \cup {Self} \subseteq ProvenAt(pcb) \cup Sought(pcb)
  PROVE  PcbInv(StartProbe(pcb, n), ss, TRUE)
<1> DEFINE pk  == ProbePacket(pcb.probe, pcb.probeIp, n)
           new == StartProbe(pcb, n)
           pr  == [x \in Names |-> IF x \in Sought(pcb) THEN 0 ELSE pcb.probed[x]]
<1>1. /\ pcb.probe \in SUBSET Services /\ pcb.probeIp \in BOOLEAN
      /\ pcb.probed \in [Names -> 0 .. 3] /\ pcb.dropped \in SUBSET Services
  BY DEF Pcb
<1>2. pk \in Packet
  BY <1>1, PacketTypes
<1>3. new = [pcb EXCEPT !.state = PCB_PROBE_1, !.running = TRUE, !.tx = {pk},
                        !.probed = pr, !.dropped = pcb.dropped \ pcb.probe]
  BY DEF StartProbe
<1>4. pr \in [Names -> 0 .. 3]
  BY <1>1
<1> HIDE DEF pk, pr, new
<1>5. /\ new \in Pcb
      /\ new.open /\ new.state = PCB_PROBE_1 /\ new.running /\ new.tx = {pk}
      /\ new.probe = pcb.probe /\ new.probeIp = pcb.probeIp
      /\ new.probed = pr /\ new.dropped = pcb.dropped \ pcb.probe
  <2>1. PCB_PROBE_1 \in PCB_OFF .. PCB_RUNNING
    BY StateNumbers DEF States
  <2>2. new \in Pcb
    BY <1>2, <1>3, <1>4, <2>1 DEF Pcb
  <2>3. /\ new.open /\ new.state = PCB_PROBE_1 /\ new.running /\ new.tx = {pk}
        /\ new.probe = pcb.probe /\ new.probeIp = pcb.probeIp
        /\ new.probed = pr /\ new.dropped = pcb.dropped \ pcb.probe
    BY <1>3 DEF Pcb
  <2> QED
    BY <2>2, <2>3
<1>6. Probing(new) /\ ~Announcing(new)
  BY <1>5, StateNumbers DEF States, Probing, Announcing
<1>7. Sought(new) = Sought(pcb)
  BY <1>5 DEF Sought
<1>8. /\ pk.kind = "probe" /\ pk.ans = {} /\ pk.hosts = {} /\ pk.more = pcb.probe
      /\ pk.ownQ = pcb.probeIp
      /\ pk.moreHosts = IF pcb.probeIp THEN HostsFor(pcb.probe) ELSE {}
      /\ pk.hostQs = IF pcb.probeIp THEN pcb.probe ELSE {}
  BY DEF pk, ProbePacket
<1>9. PcbOK(new)
  BY <1>5, <1>6, <1>7, <1>8, StateNumbers DEF States, PcbOK, HasAnswers
<1>10. PacketOK(new, pk)
  BY <1>1, <1>6, <1>8, HostsForSome DEF PacketOK
<1>11. NamesOK(new, ss)
  <2>1. ASSUME NEW x \in Sought(new) PROVE new.probed[x] = new.state - PCB_PROBE_1
    <3>1. x \in Names
      BY <1>1, <1>7 DEF Sought, Names
    <3> QED
      BY <1>5, <1>7, <3>1, StateNumbers DEF States, pr
  <2>2. ASSUME NEW x \in ss \cup {Self} PROVE x \in ProvenAt(new) \cup Sought(new)
    BY <1>1, <1>5, <1>7 DEF ProvenAt, pr, Names, Sought
  <2> QED
    BY <1>5, <1>8, <2>1, <2>2 DEF NamesOK
<1>12. PcbInv(new, ss, TRUE)
  BY <1>5, <1>8, <1>9, <1>10, <1>11 DEF PcbInv
<1> QED
  BY <1>12 DEF new

\* A pcb that is about to probe for new services knows of every other service
\* that it has been, or is being probed for.
Ready(pcb, new, ip, ss, named) ==
  /\ pcb \in Pcb /\ pcb.open
  /\ pcb.probe \subseteq ss /\ new \subseteq ss
  /\ new # {} \/ ip
  /\ Probing(pcb) \/ pcb.probe = {}
  /\ named => ss \cup {Self} \subseteq ProvenAt(pcb) \cup Sought(pcb) \cup new
                                        \cup (IF ip THEN {Self} ELSE {})
  /\ ~named => pcb.probe = {} /\ ~pcb.probeIp /\ ~pcb.running

\* _mdns_init_pcb_probe leaves such a pcb in order, and open.
LEMMA InitPcbProbeInv ==
  ASSUME NEW pcb, NEW new \in SUBSET Services, NEW ip \in BOOLEAN,
         NEW ss \in SUBSET Services, NEW named \in BOOLEAN, NEW n \in Nat,
         Ready(pcb, new, ip, ss, named)
  PROVE  /\ PcbInv(InitPcbProbe(pcb, new, ip, named, n), ss, named)
         /\ InitPcbProbe(pcb, new, ip, named, n).open
<1> USE DEF Ready
<1>1. CASE named
  <2> DEFINE p == [pcb EXCEPT !.probe = IF Probing(pcb) THEN pcb.probe \cup new ELSE new,
                              !.probeIp = pcb.probeIp \/ ip]
  <2>1. InitPcbProbe(pcb, new, ip, named, n) = StartProbe(p, n)
    BY <1>1 DEF InitPcbProbe, InitPcbProbeNewService
  <2>2. /\ p \in Pcb /\ p.open /\ p.probe = pcb.probe \cup new /\ p.probeIp = (pcb.probeIp \/ ip)
        /\ p.probed = pcb.probed /\ p.dropped = pcb.dropped
    BY DEF Pcb
  <2> HIDE DEF p
  <2>3. Sought(p) = Sought(pcb) \cup new \cup (IF ip THEN {Self} ELSE {})
    BY <2>2 DEF Sought, Pcb
  <2>4. ProvenAt(p) = ProvenAt(pcb)
    BY <2>2 DEF ProvenAt
  <2>5. Sought(p) # {} /\ ss \cup {Self} \subseteq ProvenAt(p) \cup Sought(p)
    BY <1>1, <2>3, <2>4
  <2>6. PcbInv(StartProbe(p, n), ss, TRUE)
    BY <2>2, <2>5, StartProbeInv
  <2>7. StartProbe(p, n).open
    BY <2>2 DEF StartProbe, Pcb
  <2> QED
    BY <1>1, <2>1, <2>6, <2>7
<1>2. CASE ~named
  <2> DEFINE p == [pcb EXCEPT !.state = PCB_RUNNING, !.tx = {}]
  <2>1. InitPcbProbe(pcb, new, ip, named, n) = p
    BY <1>2 DEF InitPcbProbe
  <2>2. p \in Pcb
    <3>1. PCB_RUNNING \in PCB_OFF .. PCB_RUNNING /\ pcb \in Pcb
      BY StateNumbers DEF States
    <3> QED
      BY <3>1 DEF Pcb
  <2>3. /\ p.open /\ p.state = 9 /\ p.tx = {} /\ p.probe = {}
        /\ ~p.probeIp /\ ~p.running
    BY <1>2, StateNumbers DEF Pcb, States
  <2> HIDE DEF p
  <2>4. ~Probing(p) /\ ~Announcing(p)
    BY <2>3, StateNumbers DEF States, Probing, Announcing
  <2>5. PcbOK(p)
    BY <2>3, <2>4, StateNumbers DEF States, PcbOK
  <2> QED
    BY <1>2, <2>1, <2>2, <2>3, <2>4, <2>5 DEF PcbInv
<1> QED
  BY <1>1, <1>2

\* So does a pcb of the server that is told to probe for some of its services.
LEMMA ProbeOneInv ==
  ASSUME NEW pcb, NEW ss \in SUBSET Services, NEW named \in BOOLEAN, PcbInv(pcb, ss, named),
         NEW new \in SUBSET ss, NEW ip \in BOOLEAN, NEW n \in Nat,
         pcb.open, new # {} \/ ip
  PROVE  /\ PcbInv(InitPcbProbe(pcb, new, ip, named, n), ss, named)
         /\ InitPcbProbe(pcb, new, ip, named, n).open
<1>1. Ready(pcb, new, ip, ss, named)
  BY DEF PcbInv, PcbOK, NamesOK, Ready
<1> QED
  BY <1>1, InitPcbProbeInv

\* A pcb is open if it was, and one that is closed is in the state it was in.
Keeps(r, pcb) == (pcb.open => r.open) /\ (~r.open => r.state = pcb.state)

\* What _mdns_probe_all_pcbs does with a pcb that knows of the new names.
ProbeNew(q, ss, ip, clear, named, n) ==
  IF q.open THEN InitPcbProbe(IF clear THEN ClearOldProbe(q) ELSE q, ss, ip, named, n)
            ELSE q

\* All pcbs are told of new names, `fresh': afterwards the services of the
\* server are ss instead of old, and named says whether it has a host name, as
\* `was' did before.  Every new service is probed for, and everything as soon
\* as there is a host name.
Told(old, was, ss, named, new, ip, fresh) ==
  /\ old \subseteq ss /\ ss \subseteq Services /\ new \subseteq ss
  /\ was \in BOOLEAN /\ named \in BOOLEAN /\ ip \in BOOLEAN
  /\ ss \subseteq old \cup new
  /\ fresh \subseteq new \cup (IF ip THEN {Self} ELSE {})
  /\ new # {} \/ ip
  /\ was => named
  /\ named /\ ~was => new = ss /\ ip

\* What _mdns_probe_all_pcbs makes of one pcb.
LEMMA ProbeAllInv ==
  ASSUME NEW old, NEW was, NEW ss, NEW named, NEW new, NEW ip, NEW fresh,
         Told(old, was, ss, named, new, ip, fresh),
         NEW pcb, PcbInv(pcb, old, was), NEW clear \in BOOLEAN, NEW n \in Nat
  PROVE  /\ PcbInv(ProbeNew(Renamed(pcb, fresh), new, ip, clear, named, n), ss, named)
         /\ Keeps(ProbeNew(Renamed(pcb, fresh), new, ip, clear, named, n), pcb)
<1> USE DEF Told
<1> DEFINE q == Renamed(pcb, fresh)
           r == ProbeNew(q, new, ip, clear, named, n)
<1>1. pcb \in Pcb /\ PcbOK(pcb) /\ pcb.probe \subseteq old
  BY DEF PcbInv
<1> DEFINE pr == [x \in Names |-> IF x \in fresh THEN 0 ELSE pcb.probed[x]]
<1>2. pr \in [Names -> 0 .. 3] /\ q = [pcb EXCEPT !.probed = pr, !.dropped = pcb.dropped \ fresh]
  BY <1>1 DEF Renamed, Pcb
<1>3. \A x \in Names \ fresh : pr[x] = pcb.probed[x]
  BY <1>1 DEF Pcb
<1>0. r = IF q.open THEN InitPcbProbe(IF clear THEN ClearOldProbe(q) ELSE q, new, ip, named, n)
                    ELSE q
  BY DEF ProbeNew
<1> HIDE DEF pr, q, r
<1>4. /\ q \in Pcb /\ q.open = pcb.open /\ q.state = pcb.state /\ q.probe = pcb.probe
      /\ q.probeIp = pcb.probeIp /\ q.running = pcb.running /\ q.tx = pcb.tx
      /\ q.probed = pr /\ q.dropped = pcb.dropped \ fresh
  BY <1>1, <1>2 DEF Pcb
<1>5. CASE ~pcb.open
  <2>1. r = q /\ q.tx = {} /\ q.probe = {}
    BY <1>0, <1>1, <1>4, <1>5 DEF PcbOK
  <2>2. PcbOK(q)
    BY <1>1, <1>4, <1>5 DEF PcbOK, Announcing
  <2> QED
    BY <1>4, <1>5, <2>1, <2>2 DEF PcbInv, Keeps, q, r
<1>6. CASE pcb.open
  <2> DEFINE c == IF clear THEN ClearOldProbe(q) ELSE q
  <2>1. /\ c \in Pcb /\ c.open /\ c.state = pcb.state /\ c.probeIp = pcb.probeIp
        /\ c.probe = IF clear THEN {} ELSE pcb.probe
        /\ c.running => pcb.running
        /\ c.probed = pr
        /\ c.dropped = (pcb.dropped \ fresh) \cup (IF clear THEN pcb.probe ELSE {})
    <3>1. CASE clear
      BY <1>4, <1>6, <3>1 DEF ClearOldProbe, Pcb
    <3>2. CASE ~clear
      BY <1>4, <1>6, <3>2
    <3> QED
      BY <3>1, <3>2
  <2>2. r = InitPcbProbe(c, new, ip, named, n)
    BY <1>0, <1>4, <1>6
  <2> HIDE DEF c
  <2>3. Probing(c) \/ c.probe = {}
    BY <1>1, <1>6, <2>1 DEF PcbOK, Probing
  <2>4. ASSUME named, NEW x \in ss \cup {Self}, x \notin new, ~(ip /\ x = Self)
        PROVE  x \in ProvenAt(c) \cup Sought(c)
    <3>1. was /\ x \in old \cup {Self} /\ x \notin fresh /\ x \in Names
      BY <2>4 DEF Names
    <3>2. x \in ProvenAt(pcb) \cup Sought(pcb)
      BY <1>6, <3>1 DEF PcbInv, NamesOK
    <3>3. CASE x \in ProvenAt(pcb)
      BY <1>3, <2>1, <3>1, <3>3 DEF ProvenAt
    <3>4. CASE x \in pcb.probe
      BY <2>1, <3>1, <3>4 DEF ProvenAt, Sought
    <3>5. CASE x = Self /\ pcb.probeIp
      BY <2>1, <3>5 DEF Sought
    <3> QED
      BY <3>2, <3>3, <3>4, <3>5 DEF Sought
  <2>5. ~named => c.probe = {} /\ ~c.probeIp /\ ~c.running
    BY <1>1, <1>6, <2>1 DEF PcbInv, PcbOK
  <2>6. Ready(c, new, ip, ss, named)
    BY <1>1, <2>1, <2>3, <2>4, <2>5 DEF Ready
  <2>7. new \in SUBSET Services
    OBVIOUS
  <2>8. /\ PcbInv(InitPcbProbe(c, new, ip, named, n), ss, named)
        /\ InitPcbProbe(c, new, ip, named, n).open
    BY <2>6, <2>7, InitPcbProbeInv
  <2> QED
    BY <1>6, <2>2, <2>8 DEF Keeps, q, r
<1> QED
  BY <1>5, <1>6

\* _mdns_enable_pcb probes for everything.
LEMMA EnableInv ==
  ASSUME NEW pcb, NEW ss \in SUBSET Services, NEW named \in BOOLEAN, PcbInv(pcb, ss, named),
         NEW joins \in BOOLEAN, NEW n \in Nat
  PROVE  /\ PcbInv(EnablePcb(pcb, ss, named, joins, n), ss, named)
         /\ Keeps(EnablePcb(pcb, ss, named, joins, n), pcb)
<1> DEFINE c == [pcb EXCEPT !.open = TRUE]
           r == EnablePcb(pcb, ss, named, joins, n)
<1>1. CASE ~pcb.open /\ ~joins
  BY <1>1 DEF EnablePcb, Keeps
<1>2. CASE pcb.open \/ joins
  <2>1. /\ c \in Pcb /\ c.open /\ c.state = pcb.state /\ c.probe = pcb.probe
        /\ c.probeIp = pcb.probeIp /\ c.running = pcb.running
    BY DEF PcbInv, Pcb
  <2>2. r = InitPcbProbe(c, ss, TRUE, named, n)
    BY <1>2 DEF EnablePcb
  <2> HIDE DEF c
  <2>3. pcb.probe \subseteq ss /\ (Probing(c) \/ c.probe = {})
    BY <2>1 DEF PcbInv, PcbOK, Probing
  <2>4. ~named => c.probe = {} /\ ~c.probeIp /\ ~c.running
    BY <2>1 DEF PcbInv, PcbOK
  <2>5. Ready(c, ss, TRUE, ss, named)
    BY <2>1, <2>3, <2>4 DEF Ready
  <2>6. PcbInv(r, ss, named) /\ r.open
    BY <2>2, <2>5, InitPcbProbeInv
  <2> QED
    BY <2>6 DEF Keeps
<1> QED
  BY <1>1, <1>2

-----------------------------------------------------------------------------
(* Announcing.                                                              *)

\* A pcb that probes no more has every name proven.
LEMMA AllProven ==
  ASSUME NEW pcb, NEW ss, PcbInv(pcb, ss, TRUE), pcb.open, ~Probing(pcb)
  PROVE  Sought(pcb) = {} /\ ss \cup {Self} \subseteq ProvenAt(pcb)
<1>1. Sought(pcb) = {}
  BY DEF PcbInv, PcbOK, Sought
<1> QED
  BY <1>1 DEF PcbInv, NamesOK

\* A pcb with other packets, all of which are in order.
LEMMA ScheduleInv ==
  ASSUME NEW pcb, NEW ss \in SUBSET Services, NEW named \in BOOLEAN, PcbInv(pcb, ss, named),
         pcb.open, ~Probing(pcb),
         NEW tx \in SUBSET Packet, NEW state \in 6 .. 9, state # 9 => tx # {},
         \A pk \in tx : \/ pk \in pcb.tx
                        \/ /\ ~pk.ownQ /\ pk.hostQs = {} /\ pk.more \subseteq pk.ans
                           /\ HasAnswers(pk) \/ pk.moreHosts # {}
                           /\ pk.ans \subseteq ss
  PROVE  /\ PcbInv([pcb EXCEPT !.tx = tx, !.state = state], ss, named)
         /\ [pcb EXCEPT !.tx = tx, !.state = state].open
<1> DEFINE r == [pcb EXCEPT !.tx = tx, !.state = state]
<1> HIDE DEF r
<1>0. r = [pcb EXCEPT !.tx = tx, !.state = state]
  BY DEF r
<1>1. /\ r \in Pcb /\ r.open /\ r.state = state /\ r.tx = tx /\ r.probe = pcb.probe
      /\ r.probeIp = pcb.probeIp /\ r.running = pcb.running
      /\ r.probed = pcb.probed /\ r.dropped = pcb.dropped
  <2>1. pcb \in Pcb /\ state \in PCB_OFF .. PCB_RUNNING
    BY StateNumbers DEF PcbInv, States
  <2>2. r \in Pcb
    BY <1>0, <2>1 DEF Pcb
  <2> QED
    BY <1>0, <2>1, <2>2 DEF Pcb
<1>2. ~Probing(r) /\ (Announcing(r) => tx # {})
  BY <1>1, StateNumbers DEF States, Probing, Announcing
<1>3. PcbOK(r)
  BY <1>1, <1>2, StateNumbers DEF States, PcbInv, PcbOK
<1>4. ASSUME NEW pk \in r.tx PROVE PacketOK(r, pk) /\ pk.ans \cup pk.more \subseteq ss
  BY <1>1, <1>2 DEF PcbInv, PacketOK
<1>5. ASSUME named PROVE NamesOK(r, ss)
  <2>1. Sought(pcb) = {} /\ ss \cup {Self} \subseteq ProvenAt(pcb)
    BY <1>5, AllProven
  <2>2. ProvenAt(r) = ProvenAt(pcb)
    BY <1>1 DEF ProvenAt
  <2>3. \A pk \in r.tx : pk.ans \subseteq ProvenAt(r)
    BY <1>1, <1>5, <2>1, <2>2 DEF PcbInv, NamesOK
  <2> QED
    BY <1>2, <2>1, <2>2, <2>3 DEF NamesOK
<1>6. PcbInv(r, ss, named) /\ r.open
  BY <1>1, <1>2, <1>3, <1>4, <1>5 DEF PcbInv
<1> QED
  BY <1>0, <1>6

\* _mdns_announce_pcb leaves a pcb in order, whichever packet is first.
LEMMA AnnounceInv ==
  ASSUME NEW pcb, NEW ss \in SUBSET Services, NEW named \in BOOLEAN, PcbInv(pcb, ss, named),
         NEW new \in SUBSET ss, NEW ip \in BOOLEAN, NEW n \in Nat, new # {} \/ ip,
         NEW r \in AnnouncePcb(pcb, new, ip, named, n)
  PROVE  PcbInv(r, ss, named) /\ Keeps(r, pcb)
<1>0. new \in SUBSET Services /\ pcb \in Pcb /\ pcb.state \in 0 .. 9
  BY StateNumbers DEF PcbInv, Pcb, States
<1>1. CASE pcb.open /\ Probing(pcb)
  <2>1. pcb.open /\ Probing(pcb) /\ ~Announcing(pcb) /\ pcb.state # PCB_RUNNING
    BY <1>0, <1>1, StateNumbers DEF States, Probing, Announcing
  <2>2. AnnouncePcb(pcb, new, ip, named, n) = {InitPcbProbe(pcb, new, ip, named, n)}
    BY <2>1 DEF AnnouncePcb
  <2> QED
    BY <1>0, <1>1, <2>2, ProbeOneInv DEF Keeps
<1>2. CASE pcb.open /\ Announcing(pcb)
  <2>1. pcb.tx # {} /\ ~Probing(pcb) /\ pcb.state # PCB_RUNNING
    BY <1>0, <1>2, StateNumbers DEF States, Probing, Announcing, PcbInv, PcbOK
  <2>2. AnnouncePcb(pcb, new, ip, named, n) =
          {[pcb EXCEPT !.tx = (@ \ {pk}) \cup {AddToPacket(pk, new, ip)},
                       !.state = PCB_ANNOUNCE_1] : pk \in pcb.tx}
    BY <1>2, <2>1 DEF AnnouncePcb
  <2>3. PICK pk \in pcb.tx :
          r = [pcb EXCEPT !.tx = (pcb.tx \ {pk}) \cup {AddToPacket(pk, new, ip)}, !.state = 6]
    BY <2>2, StateNumbers DEF States
  <2> DEFINE a  == AddToPacket(pk, new, ip)
             tx == (pcb.tx \ {pk}) \cup {a}
  <2>4. /\ a \in Packet /\ a.ans = pk.ans \cup new /\ a.more = pk.more /\ pk.hosts \subseteq a.hosts
        /\ a.moreHosts = pk.moreHosts /\ a.ownQ = pk.ownQ /\ a.hostQs = pk.hostQs
    <3>1. pk \in Packet /\ HostsFor(new) \subseteq Hosts
      BY <1>0, PcbAssumption DEF Pcb, HostsFor, Hosts
    <3> QED
      BY <1>0, <3>1 DEF AddToPacket, Packet
  <2>5. ~pk.ownQ /\ pk.hostQs = {} /\ pk.more \subseteq pk.ans /\ pk.ans \subseteq ss
        /\ (HasAnswers(pk) \/ pk.moreHosts # {})
    BY <2>1 DEF PcbInv, PacketOK
  <2> HIDE DEF a
  <2>6. ~a.ownQ /\ a.hostQs = {} /\ a.more \subseteq a.ans /\ a.ans \subseteq ss
        /\ (HasAnswers(a) \/ a.moreHosts # {})
    BY <2>4, <2>5 DEF HasAnswers
  <2>7. tx \in SUBSET Packet /\ tx # {} /\ r = [pcb EXCEPT !.tx = tx, !.state = 6]
    BY <1>0, <2>3, <2>4 DEF Pcb, a
  <2>8. \A q \in tx : q \in pcb.tx \/ q = a
    OBVIOUS
  <2> HIDE DEF tx
  <2>9. \A q \in tx : \/ q \in pcb.tx
                     \/ /\ ~q.ownQ /\ q.hostQs = {} /\ q.more \subseteq q.ans
                        /\ HasAnswers(q) \/ q.moreHosts # {}
                        /\ q.ans \subseteq ss
    BY <2>6, <2>8
  <2>10. tx \in SUBSET Packet /\ 6 \in 6 .. 9 /\ (6 # 9 => tx # {}) /\ pcb.open /\ ~Probing(pcb)
    BY <1>2, <2>1, <2>7
  <2>11. /\ PcbInv([pcb EXCEPT !.tx = tx, !.state = 6], ss, named)
         /\ [pcb EXCEPT !.tx = tx, !.state = 6].open
    BY <2>9, <2>10, ScheduleInv
  <2> QED
    BY <1>2, <2>7, <2>11 DEF Keeps
<1>3. CASE pcb.open /\ pcb.state = PCB_RUNNING /\ named
  <2>1. ~Probing(pcb) /\ ~Announcing(pcb)
    BY <1>3, StateNumbers DEF States, Probing, Announcing
  <2> DEFINE a  == AnnouncePacket(new, ip, n)
             tx == pcb.tx \cup {a}
  <2>2. r = [pcb EXCEPT !.tx = tx, !.state = 6]
    BY <1>3, <2>1, StateNumbers DEF AnnouncePcb, States
  <2>3. a \in Packet /\ tx \in SUBSET Packet /\ tx # {}
    BY <1>0, PacketTypes DEF Pcb
  <2>4. ~a.ownQ /\ a.hostQs = {} /\ a.more \subseteq a.ans /\ a.ans \subseteq ss
        /\ (HasAnswers(a) \/ a.moreHosts # {})
    BY HostsForSome DEF AnnouncePacket, HasAnswers
  <2>5. \A q \in tx : q \in pcb.tx \/ q = a
    OBVIOUS
  <2> HIDE DEF a, tx
  <2>6. \A q \in tx : \/ q \in pcb.tx
                     \/ /\ ~q.ownQ /\ q.hostQs = {} /\ q.more \subseteq q.ans
                        /\ HasAnswers(q) \/ q.moreHosts # {}
                        /\ q.ans \subseteq ss
    BY <2>4, <2>5
  <2>7. tx \in SUBSET Packet /\ 6 \in 6 .. 9 /\ (6 # 9 => tx # {}) /\ pcb.open /\ ~Probing(pcb)
    BY <1>3, <2>1, <2>3
  <2>8. /\ PcbInv([pcb EXCEPT !.tx = tx, !.state = 6], ss, named)
        /\ [pcb EXCEPT !.tx = tx, !.state = 6].open
    BY <2>6, <2>7, ScheduleInv
  <2> QED
    BY <1>3, <2>2, <2>8 DEF Keeps
<1>4. CASE ~pcb.open \/ (~Probing(pcb) /\ ~Announcing(pcb) /\ ~(pcb.state = PCB_RUNNING /\ named))
  <2>1. r = pcb
    BY <1>4 DEF AnnouncePcb
  <2> QED
    BY <2>1 DEF Keeps
<1> QED
  BY <1>1, <1>2, <1>3, <1>4

\* What _mdns_create_answer_from_parsed_packet makes of one pcb.
Answering(pcb, new, hs, addresses, n) ==
  [pcb EXCEPT !.tx = @ \cup {AnswerPacket(new, hs, addresses, n)}]

\* An answer that waits
LEMMA AnswerInv ==
  ASSUME NEW pcb, NEW ss \in SUBSET Services, NEW named \in BOOLEAN, PcbInv(pcb, ss, named),
         pcb.open, pcb.state > PCB_PROBE_3,
         NEW new \in SUBSET ss, NEW hs \in SUBSET Hosts, new # {} \/ hs # {},
         NEW addresses \in BOOLEAN, NEW n \in Nat
  PROVE  /\ PcbInv(Answering(pcb, new, hs, addresses, n), ss, named)
         /\ Keeps(Answering(pcb, new, hs, addresses, n), pcb)
<1> USE DEF Answering
<1> DEFINE r  == Answering(pcb, new, hs, addresses, n)
           a  == AnswerPacket(new, hs, addresses, n)
           tx == pcb.tx \cup {a}
<1>1. new \in SUBSET Services /\ pcb \in Pcb /\ pcb.state \in 6 .. 9 /\ ~Probing(pcb)
  BY StateNumbers DEF PcbInv, Pcb, States, Probing
<1>2. a \in Packet /\ tx \in SUBSET Packet /\ tx # {}
  BY <1>1, PacketTypes DEF Pcb
<1>3. ~a.ownQ /\ a.hostQs = {} /\ a.more \subseteq a.ans /\ a.ans \subseteq ss /\ HasAnswers(a)
  BY DEF AnswerPacket, HasAnswers
<1>4. r = [pcb EXCEPT !.tx = tx, !.state = pcb.state]
  BY <1>1 DEF Pcb
<1>5. \A q \in tx : q \in pcb.tx \/ q = a
  OBVIOUS
<1> HIDE DEF a, tx
<1>6. \A q \in tx : \/ q \in pcb.tx
                   \/ /\ ~q.ownQ /\ q.hostQs = {} /\ q.more \subseteq q.ans
                      /\ HasAnswers(q) \/ q.moreHosts # {}
                      /\ q.ans \subseteq ss
  BY <1>3, <1>5
<1>7. /\ PcbInv([pcb EXCEPT !.tx = tx, !.state = pcb.state], ss, named)
      /\ [pcb EXCEPT !.tx = tx, !.state = pcb.state].open
  BY <1>1, <1>2, <1>6, ScheduleInv
<1>8. r.open
  BY <1>1 DEF Pcb
<1> QED
  BY <1>4, <1>7, <1>8 DEF Keeps

-----------------------------------------------------------------------------
(* Sending.                                                                 *)

\* A probe has gone out, and another one will.
LEMMA ProbeSentInv ==
  ASSUME NEW pcb, NEW ss \in SUBSET Services, NEW named \in BOOLEAN, PcbInv(pcb, ss, named),
         pcb.open, pcb.state \in {PCB_PROBE_1, PCB_PROBE_2}, NEW pk \in pcb.tx
  PROVE  PcbInv(TxHandlePacket(pcb, pk), ss, named) /\ TxHandlePacket(pcb, pk).open
<1> DEFINE r == TxHandlePacket(pcb, pk)
<1>0. r = [pcb EXCEPT !.state = pcb.state + 1, !.probed = CountProbe(pcb)]
  BY StateNumbers DEF States, TxHandlePacket
<1> HIDE DEF r
<1>1. /\ pcb \in Pcb /\ pcb.state \in {3, 4} /\ Probing(pcb) /\ ~Announcing(pcb)
      /\ named /\ NamesOK(pcb, ss) /\ PcbOK(pcb)
  BY StateNumbers DEF States, PcbInv, Probing, Announcing
<1>2. \A x \in Sought(pcb) : x \in Names /\ pcb.probed[x] = pcb.state - 3
  BY <1>1, StateNumbers DEF States, NamesOK, Sought, Names, Pcb
<1>3. \A x \in Names : CountProbe(pcb)[x] = pcb.probed[x] + (IF x \in Sought(pcb) THEN 1 ELSE 0)
  BY DEF CountProbe
<1>4. CountProbe(pcb) \in [Names -> 0 .. 3]
  <2>1. ASSUME NEW x \in Names
        PROVE  pcb.probed[x] + (IF x \in Sought(pcb) THEN 1 ELSE 0) \in 0 .. 3
    BY <1>1, <1>2 DEF Pcb
  <2> QED
    BY <2>1 DEF CountProbe
<1>5. /\ r \in Pcb /\ r.open /\ r.state = pcb.state + 1 /\ r.tx = pcb.tx /\ r.probe = pcb.probe
      /\ r.probeIp = pcb.probeIp /\ r.running = pcb.running
      /\ r.probed = CountProbe(pcb) /\ r.dropped = pcb.dropped
  <2>1. pcb.state + 1 \in PCB_OFF .. PCB_RUNNING
    BY <1>1, StateNumbers DEF States
  <2>2. r \in Pcb
    BY <1>0, <1>1, <1>4, <2>1 DEF Pcb
  <2> QED
    BY <1>0, <1>1, <2>2 DEF Pcb
<1>6. Probing(r) /\ ~Announcing(r) /\ Sought(r) = Sought(pcb)
  BY <1>1, <1>5, StateNumbers DEF States, Probing, Announcing, Sought
<1>7. PcbOK(r)
  BY <1>1, <1>5, <1>6, StateNumbers DEF States, PcbOK
<1>8. ASSUME NEW q \in r.tx PROVE PacketOK(r, q) /\ q.ans \cup q.more \subseteq ss
  BY <1>1, <1>5, <1>6 DEF PcbInv, PacketOK
<1>9. NamesOK(r, ss)
  <2>1. \A x \in Sought(r) : r.probed[x] = r.state - PCB_PROBE_1
    BY <1>1, <1>2, <1>3, <1>5, <1>6, StateNumbers DEF States
  <2>2. ss \cup {Self} \subseteq ProvenAt(r) \cup Sought(r)
    <3>1. SUFFICES ASSUME NEW x \in ss \cup {Self}, x \notin Sought(pcb)
                   PROVE  x \in ProvenAt(r)
      BY <1>6
    <3>2. x \in ProvenAt(pcb)
      BY <1>1, <3>1 DEF NamesOK
    <3> QED
      BY <1>1, <1>3, <1>5, <3>1, <3>2 DEF ProvenAt, Pcb
  <2>3. \A q \in r.tx : q.ans \subseteq ProvenAt(r)
    BY <1>1, <1>5 DEF PcbOK, HasAnswers
  <2> QED
    BY <2>1, <2>2, <2>3 DEF NamesOK
<1>10. PcbInv(r, ss, named)
  BY <1>1, <1>5, <1>7, <1>8, <1>9 DEF PcbInv
<1> QED
  BY <1>5, <1>10 DEF r

\* The third probe has gone out, and what it asked for is announced.
LEMMA ProbedInv ==
  ASSUME NEW pcb, NEW ss \in SUBSET Services, NEW named \in BOOLEAN, PcbInv(pcb, ss, named),
         pcb.open, pcb.state = PCB_PROBE_3, NEW pk \in pcb.tx
  PROVE  PcbInv(TxHandlePacket(pcb, pk), ss, named) /\ TxHandlePacket(pcb, pk).open
<1> DEFINE r == TxHandlePacket(pcb, pk)
           a == AnnounceFromProbe(pk)
<1>1. /\ pcb \in Pcb /\ pcb.state = 5 /\ Probing(pcb) /\ ~Announcing(pcb)
      /\ named /\ NamesOK(pcb, ss) /\ PcbOK(pcb)
  BY StateNumbers DEF States, PcbInv, Probing, Announcing
<1>2. /\ pcb.tx = {pk} /\ ~HasAnswers(pk) /\ pk.more = pcb.probe /\ pk.ownQ = pcb.probeIp
      /\ Sought(pcb) # {}
  BY <1>1 DEF PcbOK
<1>3. \A x \in Sought(pcb) : x \in Names /\ pcb.probed[x] = 2
  BY <1>1, StateNumbers DEF States, NamesOK, Sought, Names, Pcb
<1>4. \A x \in Names : CountProbe(pcb)[x] = pcb.probed[x] + (IF x \in Sought(pcb) THEN 1 ELSE 0)
  BY DEF CountProbe
<1>5. CountProbe(pcb) \in [Names -> 0 .. 3]
  <2>1. ASSUME NEW x \in Names
        PROVE  pcb.probed[x] + (IF x \in Sought(pcb) THEN 1 ELSE 0) \in 0 .. 3
    BY <1>1, <1>3 DEF Pcb
  <2> QED
    BY <2>1 DEF CountProbe
<1>6. /\ a \in Packet /\ a.ans = pcb.probe /\ pk.moreHosts \subseteq a.hosts /\ a.more = {}
      /\ a.moreHosts = {} /\ ~a.ownQ /\ a.hostQs = {} /\ (pcb.probe # {} => a.ans # {})
  <2>1. pk \in Packet /\ {HostOf[s] : s \in pk.more} \subseteq Hosts
    BY <1>1, PcbAssumption DEF Pcb, Packet, Hosts
  <2> QED
    BY <1>2, <2>1 DEF AnnounceFromProbe, Packet
<1>7. HasAnswers(a)
  <2>1. PacketOK(pcb, pk)
    BY DEF PcbInv
  <2> QED
    BY <1>1, <1>2, <1>6, <2>1 DEF PacketOK, HasAnswers, Sought
<1>8. r = [pcb EXCEPT !.state = 6, !.probed = CountProbe(pcb), !.probe = {}, !.probeIp = FALSE,
                      !.running = FALSE, !.tx = {a}]
  <2>1. (pcb.tx \ {pk}) \cup {a} = {a}
    BY <1>2
  <2>2. r = [pcb EXCEPT !.state = 6, !.probed = CountProbe(pcb), !.probe = {}, !.probeIp = FALSE,
                        !.running = FALSE, !.tx = (pcb.tx \ {pk}) \cup {a}]
    BY <1>1, StateNumbers DEF States, TxHandlePacket
  <2> QED
    BY <2>1, <2>2
<1> HIDE DEF r, a
<1>9. r \in Pcb
  <2>1. 6 \in PCB_OFF .. PCB_RUNNING
    BY StateNumbers DEF States
  <2> QED
    BY <1>1, <1>5, <1>6, <1>8, <2>1 DEF Pcb
<1>10. /\ r.open /\ r.state = 6 /\ r.tx = {a} /\ r.probe = {}
       /\ ~r.probeIp /\ ~r.running
       /\ r.probed = CountProbe(pcb) /\ r.dropped = pcb.dropped
  BY <1>1, <1>8 DEF Pcb
<1>11. ~Probing(r) /\ Sought(r) = {}
  BY <1>10, StateNumbers DEF States, Probing, Sought
<1>12. PcbOK(r)
  BY <1>10, <1>11, StateNumbers DEF States, PcbOK
<1>13. PacketOK(r, a) /\ a.ans \cup a.more \subseteq ss
  BY <1>6, <1>7, <1>11 DEF PacketOK, PcbInv
<1>14. Sought(pcb) \subseteq ProvenAt(r)
  BY <1>3, <1>4, <1>10 DEF ProvenAt
<1>15. ASSUME NEW x \in ss \cup {Self} PROVE x \in ProvenAt(r)
  <2>1. CASE x \in Sought(pcb)
    BY <1>14, <2>1
  <2>2. CASE x \notin Sought(pcb)
    <3>1. x \in ProvenAt(pcb)
      BY <1>1, <2>2 DEF NamesOK
    <3> QED
      BY <1>1, <1>4, <1>10, <2>2, <3>1 DEF ProvenAt, Pcb
  <2> QED
    BY <2>1, <2>2
<1>16. NamesOK(r, ss)
  <2>1. a.ans \subseteq ProvenAt(r)
    BY <1>6, <1>14 DEF Sought
  <2> QED
    BY <1>10, <1>11, <1>15, <2>1 DEF NamesOK
<1>17. PcbInv(r, ss, named) /\ r.open
  BY <1>1, <1>9, <1>10, <1>12, <1>13, <1>16 DEF PcbInv
<1> QED
  BY <1>17 DEF r

\* _mdns_tx_handle_packet leaves a pcb in order, in each of its states.
LEMMA TxHandleInv ==
  ASSUME NEW pcb, NEW ss \in SUBSET Services, NEW named \in BOOLEAN, PcbInv(pcb, ss, named),
         NEW pk \in pcb.tx
  PROVE  PcbInv(TxHandlePacket(pcb, pk), ss, named) /\ Keeps(TxHandlePacket(pcb, pk), pcb)
<1>1. pcb \in Pcb /\ pcb.open /\ pcb.state \in 3 .. 9 /\ pcb.tx \in SUBSET Packet
  BY StateNumbers DEF States, PcbInv, PcbOK, Pcb
<1>2. CASE pcb.state \in {PCB_PROBE_1, PCB_PROBE_2}
  BY <1>1, <1>2, ProbeSentInv DEF Keeps
<1>3. CASE pcb.state = PCB_PROBE_3
  BY <1>1, <1>3, ProbedInv DEF Keeps
<1>4. CASE pcb.state \in {PCB_ANNOUNCE_1, PCB_ANNOUNCE_2}
  <2> DEFINE st == pcb.state + 1
  <2>1. TxHandlePacket(pcb, pk) = [pcb EXCEPT !.state = st]
    BY <1>4, StateNumbers DEF States, TxHandlePacket
  <2>2. [pcb EXCEPT !.state = st] = [pcb EXCEPT !.tx = pcb.tx, !.state = st]
    BY <1>1 DEF Pcb
  <2>3. /\ st \in 6 .. 9 /\ ~Probing(pcb) /\ pcb.tx # {} /\ (st # 9 => pcb.tx # {})
        /\ \A q \in pcb.tx : q \in pcb.tx
    BY <1>4, StateNumbers DEF States, Probing
  <2> HIDE DEF st
  <2>4. /\ PcbInv([pcb EXCEPT !.tx = pcb.tx, !.state = st], ss, named)
        /\ [pcb EXCEPT !.tx = pcb.tx, !.state = st].open
    BY <1>1, <2>3, ScheduleInv
  <2> QED
    BY <1>1, <2>1, <2>2, <2>4 DEF Keeps
<1>5. CASE pcb.state \in {PCB_ANNOUNCE_3, PCB_RUNNING}
  <2> DEFINE tx == pcb.tx \ {pk}
  <2>1. TxHandlePacket(pcb, pk) = [pcb EXCEPT !.tx = tx, !.state = 9]
    <3>1. CASE pcb.state = 8
      <4>1. TxHandlePacket(pcb, pk) = [pcb EXCEPT !.state = 9, !.tx = tx]
        BY <3>1, StateNumbers DEF States, TxHandlePacket
      <4> HIDE DEF tx
      <4> QED
        BY <1>1, <4>1 DEF Pcb
    <3>2. CASE pcb.state = 9
      <4>1. TxHandlePacket(pcb, pk) = [pcb EXCEPT !.tx = tx]
        BY <3>2, StateNumbers DEF States, TxHandlePacket
      <4> HIDE DEF tx
      <4> QED
        BY <1>1, <3>2, <4>1 DEF Pcb
    <3> QED
      BY <1>5, <3>1, <3>2, StateNumbers DEF States
  <2>2. ~Probing(pcb) /\ tx \in SUBSET Packet /\ 9 \in 6 .. 9 /\ (\A q \in tx : q \in pcb.tx)
    BY <1>1, <1>5, StateNumbers DEF States, Probing
  <2> HIDE DEF tx
  <2>3. /\ PcbInv([pcb EXCEPT !.tx = tx, !.state = 9], ss, named)
        /\ [pcb EXCEPT !.tx = tx, !.state = 9].open
    BY <1>1, <2>2, ScheduleInv
  <2> QED
    BY <1>1, <2>1, <2>3 DEF Keeps
<1> QED
  BY <1>1, <1>2, <1>3, <1>4, <1>5, StateNumbers DEF States

-----------------------------------------------------------------------------
(* Removing services.                                                       *)

\* What is left of a packet.
LEMMA WithoutPacket ==
  ASSUME NEW pk \in Packet, NEW gone
  PROVE  /\ WithoutServices(pk, gone) \in Packet
         /\ WithoutServices(pk, gone).kind = pk.kind
         /\ WithoutServices(pk, gone).ans = pk.ans \ gone
         /\ WithoutServices(pk, gone).hosts = pk.hosts
         /\ WithoutServices(pk, gone).more = pk.more \ gone
         /\ WithoutServices(pk, gone).moreHosts = pk.moreHosts
         /\ WithoutServices(pk, gone).ownQ = pk.ownQ
         /\ WithoutServices(pk, gone).hostQs = pk.hostQs
BY DEF WithoutServices, Packet

\* A pcb from which services have been removed is as it should be for those
\* that are left.
LEMMA RemoveInv ==
  ASSUME NEW pcb, NEW ss \in SUBSET Services, NEW named \in BOOLEAN, PcbInv(pcb, ss, named),
         NEW gone \in SUBSET Services
  PROVE  /\ PcbInv(RemoveServices(pcb, gone), ss \ gone, named)
         /\ Keeps(RemoveServices(pcb, gone), pcb)
<1> DEFINE r    == RemoveServices(pcb, gone)
           cut  == CutShort(pcb, gone)
           W(q) == WithoutServices(q, gone)
           tx   == {q \in {W(k) : k \in pcb.tx} : ~Hollow(q)}
           pr   == [x \in Names |-> IF x \in gone THEN 0 ELSE pcb.probed[x]]
<1>1. pcb \in Pcb /\ pcb.tx \in SUBSET Packet /\ PcbOK(pcb) /\ pcb.probe \subseteq ss
  BY DEF PcbInv, Pcb
<1>2. \A k \in pcb.tx : /\ W(k) \in Packet /\ W(k).kind = k.kind /\ W(k).ans = k.ans \ gone
                        /\ W(k).hosts = k.hosts /\ W(k).more = k.more \ gone
                        /\ W(k).moreHosts = k.moreHosts /\ W(k).ownQ = k.ownQ
                        /\ W(k).hostQs = k.hostQs
  BY <1>1, WithoutPacket
<1>3. r = [pcb EXCEPT !.tx = tx, !.probe = pcb.probe \ gone, !.running = pcb.running /\ ~cut,
                      !.state = IF cut THEN 9 ELSE pcb.state, !.probed = pr,
                      !.dropped = pcb.dropped \ gone]
  BY StateNumbers DEF States, RemoveServices
<1>4. tx \in SUBSET Packet
  BY <1>2
<1>5. pr \in [Names -> 0 .. 3] /\ (\A x \in Names \ gone : pr[x] = pcb.probed[x])
  BY <1>1 DEF Pcb
<1>6. /\ \A q \in tx : ~Hollow(q) /\ \E k \in pcb.tx : q = W(k)
      /\ \A k \in pcb.tx : W(k) \in tx \/ Hollow(W(k))
  OBVIOUS
<1>7. cut \in BOOLEAN
  BY DEF CutShort
<1>8. Self \notin gone
  BY PcbAssumption
<1> HIDE DEF r, tx, W, pr
<1>9. /\ r \in Pcb /\ r.open = pcb.open /\ r.probeIp = pcb.probeIp /\ r.tx = tx
      /\ r.probe = pcb.probe \ gone /\ r.running = (pcb.running /\ ~cut)
      /\ r.state = (IF cut THEN 9 ELSE pcb.state)
      /\ r.probed = pr /\ r.dropped = pcb.dropped \ gone
  <2>1. PCB_OFF = 0 /\ PCB_RUNNING = 9
    BY StateNumbers DEF States
  <2>2. (IF cut THEN 9 ELSE pcb.state) \in 0 .. 9 /\ (pcb.running /\ ~cut) \in BOOLEAN
    BY <1>1, <1>7, <2>1 DEF Pcb
  <2> HIDE DEF cut
  <2>3. r \in Pcb
    BY <1>1, <1>3, <1>4, <1>5, <2>1, <2>2 DEF Pcb
  <2> QED
    BY <1>1, <1>3, <2>3 DEF Pcb
<1>10. \A x \in Names \ gone : x \in ProvenAt(pcb) => x \in ProvenAt(r)
  BY <1>5, <1>9 DEF ProvenAt
<1>11. Sought(r) = Sought(pcb) \ gone
  BY <1>8, <1>9 DEF Sought
<1>12. \A q \in tx : q.ans \cup q.more \subseteq ss \ gone
  <2>1. SUFFICES ASSUME NEW q \in tx PROVE q.ans \cup q.more \subseteq ss \ gone
    OBVIOUS
  <2>2. PICK k \in pcb.tx : q = W(k)
    BY <1>6
  <2> QED
    BY <1>2, <2>2 DEF PcbInv
<1>13. ASSUME pcb.open, named
       PROVE  /\ ss \cup {Self} \subseteq ProvenAt(pcb) \cup Sought(pcb)
              /\ (ss \ gone) \cup {Self} \subseteq ProvenAt(r) \cup Sought(r)
              /\ \A q \in tx : q.ans \subseteq ProvenAt(r)
  <2>1. NamesOK(pcb, ss)
    BY <1>13 DEF PcbInv
  <2>2. ss \cup {Self} \subseteq ProvenAt(pcb) \cup Sought(pcb)
    BY <2>1 DEF NamesOK
  <2>3. ASSUME NEW x \in (ss \ gone) \cup {Self} PROVE x \in ProvenAt(r) \cup Sought(r)
    BY <1>8, <1>10, <1>11, <2>2 DEF Names
  <2>4. ASSUME NEW q \in tx PROVE q.ans \subseteq ProvenAt(r)
    <3>1. PICK k \in pcb.tx : q = W(k)
      BY <1>6
    <3>2. k.ans \subseteq Services
      BY <1>1 DEF Packet
    <3> QED
      BY <1>2, <1>10, <2>1, <3>1, <3>2 DEF NamesOK, Names
  <2> QED
    BY <2>2, <2>3, <2>4
<1>14. CASE ~pcb.open
  <2>1. pcb.tx = {} /\ pcb.probe = {} /\ ~pcb.probeIp /\ ~pcb.running /\ pcb.state \in {0, 1}
    BY <1>1, <1>14, StateNumbers DEF PcbOK, States
  <2>2. tx = {} /\ ~cut
    BY <1>6, <2>1, StateNumbers DEF States, CutShort, Announcing
  <2> HIDE DEF cut
  <2>3. ~r.open /\ r.state = pcb.state /\ r.tx = {} /\ r.probe = {} /\ ~r.probeIp /\ ~r.running
    BY <1>9, <1>14, <2>1, <2>2
  <2>4. PcbOK(r)
    BY <2>1, <2>3, StateNumbers DEF States, PcbOK, Announcing
  <2> QED
    BY <1>9, <1>12, <1>14, <2>3, <2>4 DEF PcbInv, Keeps, r
<1>15. CASE pcb.open /\ Probing(pcb)
  <2>1. PICK k \in pcb.tx : /\ pcb.tx = {k} /\ k.kind = "probe" /\ ~HasAnswers(k)
                            /\ k.more = pcb.probe /\ k.ownQ = pcb.probeIp
    BY <1>1, <1>15 DEF PcbOK
  <2>2. Sought(pcb) # {} /\ pcb.running /\ named /\ ~Announcing(pcb) /\ NamesOK(pcb, ss)
    BY <1>1, <1>15, StateNumbers DEF PcbInv, PcbOK, Probing, Announcing, States, Pcb
  <2>3. (k.ownQ <=> k.moreHosts # {}) /\ (k.hostQs # {} => k.ownQ)
    BY <1>15 DEF PcbInv, PacketOK
  <2>4. /\ W(k).kind = "probe" /\ W(k).more = pcb.probe \ gone /\ W(k).ownQ = pcb.probeIp
        /\ W(k).moreHosts = k.moreHosts /\ W(k).hostQs = k.hostQs
        /\ ~HasAnswers(W(k))
    BY <1>2, <2>1 DEF HasAnswers
  <2>5. \A q \in tx : q = W(k)
    BY <1>6, <2>1
  <2>6. CASE ~cut
    <3>1. pcb.probe \ gone # {} \/ pcb.probeIp
      BY <1>15, <2>2, <2>6 DEF CutShort, Sought
    <3>2. tx = {W(k)}
      BY <1>6, <2>4, <2>5, <3>1 DEF Hollow
    <3> HIDE DEF cut
    <3>3. r.state = pcb.state /\ r.running /\ r.tx = {W(k)}
      BY <1>9, <2>2, <2>6, <3>2
    <3>4. Probing(r) /\ ~Announcing(r)
      BY <1>15, <2>2, <3>3 DEF Probing, Announcing
    <3>5. Sought(r) # {}
      BY <1>9, <3>1 DEF Sought
    <3>6. PCB_INIT < r.state
      BY <1>1, <1>15, <3>3 DEF PcbOK
    <3>7. PcbOK(r)
      BY <1>9, <1>15, <2>4, <3>3, <3>4, <3>5, <3>6 DEF PcbOK
    <3>8. PacketOK(r, W(k))
      BY <2>3, <2>4, <3>4, <1>2, <2>1 DEF PacketOK
    <3>9. \A x \in Sought(r) : r.probed[x] = r.state - PCB_PROBE_1
      <4>1. \A x \in Sought(r) : x \in Names \ gone /\ x \in Sought(pcb)
        BY <1>1, <1>8, <1>11 DEF Sought, Names, Pcb
      <4> QED
        BY <1>5, <1>9, <1>15, <2>2, <3>3, <4>1 DEF NamesOK
    <3>10. NamesOK(r, ss \ gone)
      BY <1>9, <1>13, <1>15, <2>2, <3>9 DEF NamesOK
    <3>11. PcbInv(r, ss \ gone, named)
      BY <1>1, <1>9, <1>12, <2>2, <3>3, <3>7, <3>8, <3>10 DEF PcbInv
    <3> QED
      BY <1>9, <1>15, <3>11 DEF Keeps, r
  <2>7. CASE cut
    <3>1. pcb.probe \subseteq gone /\ ~pcb.probeIp
      BY <2>2, <2>7 DEF CutShort
    <3>2. tx = {}
      BY <1>6, <2>3, <2>4, <2>5, <3>1, <1>2, <2>1 DEF Hollow
    <3> HIDE DEF cut
    <3>3. r.state = 9 /\ ~r.running /\ r.tx = {} /\ r.probe = {} /\ ~r.probeIp /\ r.open
      BY <1>9, <1>15, <2>7, <3>1, <3>2
    <3>4. ~Probing(r) /\ ~Announcing(r)
      BY <3>3, StateNumbers DEF States, Probing, Announcing
    <3>5. PcbOK(r)
      BY <3>3, <3>4, StateNumbers DEF States, PcbOK
    <3>6. NamesOK(r, ss \ gone)
      BY <1>13, <1>15, <2>2, <3>3, <3>4 DEF NamesOK
    <3>7. PcbInv(r, ss \ gone, named)
      BY <1>9, <3>3, <3>4, <3>5, <3>6 DEF PcbInv
    <3> QED
      BY <1>15, <3>3, <3>7 DEF Keeps, r
  <2> QED
    BY <2>6, <2>7
<1>16. CASE pcb.open /\ ~Probing(pcb)
  <2>1. pcb.probe = {} /\ ~pcb.probeIp /\ ~pcb.running /\ pcb.state \in 6 .. 9
    BY <1>1, <1>16, StateNumbers DEF States, PcbOK, Probing, Pcb
  <2>2. \A k \in pcb.tx : /\ ~k.ownQ /\ k.hostQs = {} /\ k.more \subseteq k.ans
                          /\ HasAnswers(k) \/ k.moreHosts # {}
    BY <1>16 DEF PcbInv, PacketOK
  <2>3. Announcing(pcb) /\ ~cut => tx # {}
    <3>1. SUFFICES ASSUME Announcing(pcb), ~cut PROVE tx # {}
      OBVIOUS
    <3>2. PICK k \in pcb.tx : TRUE
      BY <1>1, <3>1 DEF PcbOK
    <3>3. HasAnswers(W(k)) \/ W(k).moreHosts # {}
      BY <1>2, <2>2, <3>1 DEF CutShort, W
    <3> QED
      BY <1>6, <3>3 DEF Hollow
  <2> HIDE DEF cut
  <2>4. /\ r.open /\ r.state \in 6 .. 9 /\ ~r.running /\ r.probe = {} /\ ~r.probeIp
        /\ (r.state # 9 => r.state = pcb.state /\ ~cut)
    <3>1. r.state = (IF cut THEN 9 ELSE pcb.state) /\ r.probe = pcb.probe \ gone
      BY <1>9
    <3>2. r.state \in 6 .. 9 /\ (r.state # 9 => r.state = pcb.state /\ ~cut)
      BY <1>7, <2>1, <3>1
    <3> QED
      BY <1>9, <1>16, <2>1, <3>2
  <2>5. ~Probing(r) /\ (Announcing(r) => r.tx # {})
    BY <1>9, <2>3, <2>4, StateNumbers DEF States, Probing, Announcing
  <2>6. PcbOK(r)
    BY <2>4, <2>5, StateNumbers DEF States, PcbOK
  <2>7. ASSUME NEW q \in tx PROVE PacketOK(r, q)
    <3>1. PICK k \in pcb.tx : q = W(k) /\ ~Hollow(q)
      BY <1>6
    <3>2. ~q.ownQ /\ q.hostQs = {} /\ q.more \subseteq q.ans
      BY <1>2, <2>2, <3>1
    <3>3. HasAnswers(q) \/ q.moreHosts # {}
      BY <3>1, <3>2 DEF Hollow, HasAnswers
    <3> QED
      BY <2>5, <3>2, <3>3 DEF PacketOK
  <2>8. named => NamesOK(r, ss \ gone)
    BY <1>9, <1>13, <1>16, <2>5 DEF NamesOK
  <2>9. PcbInv(r, ss \ gone, named)
    BY <1>9, <1>12, <2>4, <2>5, <2>6, <2>7, <2>8 DEF PcbInv
  <2> QED
    BY <1>16, <2>4, <2>9 DEF Keeps, r
<1> QED
  BY <1>14, <1>15, <1>16

-----------------------------------------------------------------------------
(* The actions.                                                             *)

\* A closed pcb has nothing that could be wrong.
LEMMA ClosedInv ==
  ASSUME NEW ss, NEW named, NEW state \in {PCB_OFF, PCB_DUP}
  PROVE  /\ PcbInv([Closed EXCEPT !.state = state], ss, named)
         /\ ~[Closed EXCEPT !.state = state].open
         /\ [Closed EXCEPT !.state = state].state = state
         /\ Closed = [Closed EXCEPT !.state = PCB_OFF]
<1> DEFINE r == [Closed EXCEPT !.state = state]
<1>1. /\ r \in Pcb /\ ~r.open /\ r.state = state /\ r.probe = {} /\ ~r.probeIp /\ ~r.running
      /\ r.tx = {}
  <2>1. state \in PCB_OFF .. PCB_RUNNING /\ PCB_OFF \in PCB_OFF .. PCB_RUNNING
    BY StateNumbers DEF States
  <2>2. Closed \in Pcb
    BY <2>1 DEF Closed, Pcb
  <2>3. ~Closed.open /\ Closed.probe = {} /\ ~Closed.probeIp /\ ~Closed.running /\ Closed.tx = {}
    BY Zenon DEF Closed
  <2>4. r \in Pcb
    BY <2>1, <2>2 DEF Pcb
  <2> QED
    BY <2>2, <2>3, <2>4 DEF Pcb
<1>2. ~Announcing(r)
  BY <1>1, StateNumbers DEF States, Announcing
<1> HIDE DEF r
<1>3. PcbInv(r, ss, named)
  BY <1>1, <1>2 DEF PcbInv, PcbOK
<1>4. Closed = [Closed EXCEPT !.state = PCB_OFF]
  <2>1. PCB_OFF \in PCB_OFF .. PCB_RUNNING
    BY StateNumbers DEF States
  <2>2. Closed \in Pcb /\ Closed.state = PCB_OFF
    BY <2>1 DEF Closed, Pcb
  <2> QED
    BY <2>2 DEF Pcb
<1> QED
  BY <1>1, <1>3, <1>4 DEF r

\* The variables of the server, without the pcbs
ServerOK ==
  /\ services \subseteq Services /\ own \subseteq Services
  /\ hosts \subseteq Delegated
  /\ hostname \in BOOLEAN /\ instance \in BOOLEAN
  /\ events \in 0 .. MaxEvents
  /\ services # {} => hostname

\* What a step has to leave behind on the server and at every pcb
LEMMA AllInv ==
  ASSUME RespInv, ServerOK', NEW f, port' = [p \in Ports |-> f[p]],
         \A p \in Ports : PcbInv(f[p], services', hostname'),
         \A p \in Ports : f[p].state = PCB_DUP => TwinOf(p) \in Ports /\ f[TwinOf(p)].open
  PROVE  RespInv'
<1>1. \A p \in Ports : port'[p] = f[p]
  OBVIOUS
<1>2. \A p \in Ports : f[p] \in Pcb
  BY DEF PcbInv
<1>3. RespTypeOK'
  BY <1>2 DEF RespTypeOK, ServerOK
<1>4. \A p \in Ports : PcbInv(port'[p], services', hostname')
  BY <1>1
<1>5. DupHasTwin'
  BY <1>1 DEF DupHasTwin, TwinOf, Ports
<1> QED
  BY <1>3, <1>4, <1>5 DEF RespInv, ServerOK, Ports

\* A pcb that has stepped back is closed.
LEMMA DupClosed ==
  ASSUME NEW pcb, NEW ss, NEW named, PcbInv(pcb, ss, named), pcb.state = PCB_DUP
  PROVE  ~pcb.open
BY StateNumbers DEF States, PcbInv, PcbOK

\* Nothing is closed, nor leaves the subnet to another pcb, in passing.
LEMMA KeptInv ==
  ASSUME RespInv, ServerOK', NEW f, port' = [p \in Ports |-> f[p]],
         \A p \in Ports : PcbInv(f[p], services', hostname') /\ Keeps(f[p], port[p])
  PROVE  RespInv'
<1>1. ASSUME NEW p \in Ports, f[p].state = PCB_DUP
      PROVE  TwinOf(p) \in Ports /\ f[TwinOf(p)].open
  <2>1. port[p].state = PCB_DUP
    BY <1>1, DupClosed DEF Keeps
  <2>2. TwinOf(p) \in Ports /\ port[TwinOf(p)].open
    BY <2>1 DEF RespInv, DupHasTwin
  <2> QED
    BY <2>2 DEF Keeps
<1> QED
  BY <1>1, AllInv

\* The number of an event
LEMMA Numbered ==
  ASSUME RespInv
  PROVE  This \in Nat /\ (Event => events' \in 0 .. MaxEvents) /\ ServerOK
BY ResponderAssumption DEF RespInv, RespTypeOK, Event, This, ServerOK

\* All pcbs probe for some services of the server: for every new one, and for
\* all of them once the server has a host name.
LEMMA ProbeAllPcbsInv ==
  ASSUME RespInv, ServerOK', NEW new, NEW ip, NEW fresh, NEW clear \in BOOLEAN, NEW named,
         Told(services, hostname, services', hostname', new, ip, fresh),
         named = hostname', ProbeAllPcbs(new, ip, clear, fresh, named)
  PROVE  RespInv'
<1> DEFINE f == [p \in Ports |->
                   ProbeNew(Renamed(port[p], fresh), new, ip, clear, named, This)]
<1>1. port' = f
  BY DEF ProbeAllPcbs, ProbeNew
<1>2. This \in Nat
  BY Numbered
<1>3. ASSUME NEW p \in Ports
      PROVE  PcbInv(f[p], services', hostname') /\ Keeps(f[p], port[p])
  <2>1. PcbInv(port[p], services, hostname)
    BY DEF RespInv
  <2> QED
    BY <1>2, <2>1, ProbeAllInv
<1> HIDE DEF f
<1>4. port' = [p \in Ports |-> f[p]]
  BY <1>1 DEF f
<1> QED
  BY <1>3, <1>4, KeptInv

\* One pcb becomes another one, and the server stays what it is.
LEMMA OnePcbInv ==
  ASSUME RespInv, ServerOK', UNCHANGED server, NEW p \in Ports, NEW pcb,
         port' = [port EXCEPT ![p] = pcb],
         PcbInv(pcb, services, hostname), Keeps(pcb, port[p])
  PROVE  RespInv'
<1> DEFINE f == [q \in Ports |-> IF q = p THEN pcb ELSE port[q]]
<1>1. port \in [Ports -> Pcb]
  BY DEF RespInv, RespTypeOK
<1>2. \A q \in Ports : PcbInv(f[q], services', hostname') /\ Keeps(f[q], port[q])
  BY DEF RespInv, Keeps, server
<1>3. port' = f
  BY <1>1
<1> HIDE DEF f
<1>4. port' = [q \in Ports |-> f[q]]
  BY <1>3 DEF f
<1> QED
  BY <1>2, <1>4, KeptInv

\* A new host name: everything on the host is probed for.
LEMMA RestartInv ==
  ASSUME RespInv, ServerOK', hostname', UNCHANGED <<services, own, instance>>, RestartAllPcbs
  PROVE  RespInv'
<1> DEFINE fresh == {Self} \cup IF instance THEN {} ELSE NoInstance
<1>1. /\ services \subseteq Services /\ hostname \in BOOLEAN /\ hostname' \in BOOLEAN
      /\ hostname' = TRUE /\ services' = services /\ fresh \subseteq services \cup {Self}
  BY DEF RespInv, RespTypeOK, ServerOK, NoInstance
<1>2. ProbeAllPcbs(services, TRUE, TRUE, fresh, TRUE)
  BY DEF RestartAllPcbs
<1> HIDE DEF fresh
<1>3. Told(services, hostname, services', hostname', services, TRUE, fresh)
  BY <1>1 DEF Told
<1> QED
  BY <1>1, <1>2, <1>3, ProbeAllPcbsInv

\* A new instance name: the services that go by it are probed for.
LEMMA RestartNoInstanceInv ==
  ASSUME RespInv, ServerOK', UNCHANGED <<services, own, hostname>>, RestartAllPcbsNoInstance
  PROVE  RespInv'
<1>1. /\ services \subseteq Services /\ hostname \in BOOLEAN
      /\ hostname' = hostname /\ services' = services /\ NoInstance \subseteq services
  BY DEF RespInv, RespTypeOK, ServerOK, NoInstance
<1>2. CASE NoInstance = {}
  <2> DEFINE f == [p \in Ports |-> port[p]]
  <2>1. port' = f
    BY <1>2 DEF RestartAllPcbsNoInstance, RespInv, RespTypeOK
  <2>2. \A p \in Ports : PcbInv(f[p], services', hostname') /\ Keeps(f[p], port[p])
    BY <1>1 DEF RespInv, Keeps
  <2> HIDE DEF f
  <2>3. port' = [p \in Ports |-> f[p]]
    BY <2>1 DEF f
  <2> QED
    BY <2>2, <2>3, KeptInv
<1>3. CASE NoInstance # {}
  <2>1. ProbeAllPcbs(NoInstance, FALSE, TRUE, NoInstance, hostname)
    BY <1>3 DEF RestartAllPcbsNoInstance
  <2>2. Told(services, hostname, services', hostname', NoInstance, FALSE, NoInstance)
    BY <1>1, <1>3 DEF Told
  <2> QED
    BY <1>1, <2>1, <2>2, ProbeAllPcbsInv
<1> QED
  BY <1>2, <1>3

\* A service gets a name of its own, or is a new one.
LEMMA ProbeServiceInv ==
  ASSUME RespInv, ServerOK', NEW s \in Services, services' = services \cup {s},
         hostname' = hostname, NEW named, named = hostname,
         ProbeAllPcbs({s}, FALSE, FALSE, {s}, named)
  PROVE  RespInv'
<1>1. Told(services, hostname, services', hostname', {s}, FALSE, {s})
  BY DEF RespInv, RespTypeOK, ServerOK, Told
<1> QED
  BY <1>1, ProbeAllPcbsInv

\* Announcing at all pcbs
LEMMA AnnounceAllInv ==
  ASSUME RespInv, ServerOK', UNCHANGED server, NEW new \in SUBSET services,
         NEW ip \in BOOLEAN, new # {} \/ ip, AnnounceAllPcbs(new, ip)
  PROVE  RespInv'
<1>1. /\ port' \in [Ports -> UNION {AnnouncePcb(port[p], new, ip, hostname, This) : p \in Ports}]
      /\ \A p \in Ports : port'[p] \in AnnouncePcb(port[p], new, ip, hostname, This)
  BY DEF AnnounceAllPcbs, EveryPort
<1>2. This \in Nat /\ services \in SUBSET Services /\ hostname \in BOOLEAN
  BY Numbered DEF RespInv, RespTypeOK
<1>3. ASSUME NEW p \in Ports
      PROVE  PcbInv(port'[p], services', hostname') /\ Keeps(port'[p], port[p])
  <2>1. PcbInv(port[p], services, hostname)
    BY DEF RespInv
  <2>2. services' = services /\ hostname' = hostname
    BY DEF server
  <2>3. ASSUME NEW r \in AnnouncePcb(port[p], new, ip, hostname, This)
        PROVE  PcbInv(r, services, hostname) /\ Keeps(r, port[p])
    BY <1>2, <2>1, AnnounceInv
  <2> QED
    BY <1>1, <2>2, <2>3
<1>4. port' = [p \in Ports |-> port'[p]]
  BY <1>1
<1> QED
  BY <1>3, <1>4, KeptInv

\* Services go with everything that is scheduled of them.
LEMMA RemoveAllInv ==
  ASSUME RespInv, ServerOK', NEW gone \in SUBSET Services, Remove(gone), hostname' = hostname
  PROVE  RespInv'
<1> DEFINE f == [p \in Ports |-> RemoveServices(port[p], gone)]
<1>1. port' = f /\ services' = services \ gone
  BY DEF Remove
<1>2. ASSUME NEW p \in Ports
      PROVE  PcbInv(f[p], services', hostname') /\ Keeps(f[p], port[p])
  <2>1. PcbInv(port[p], services, hostname) /\ services \in SUBSET Services /\ hostname \in BOOLEAN
    BY DEF RespInv, RespTypeOK
  <2> QED
    BY <1>1, <2>1, RemoveInv
<1> HIDE DEF f
<1>3. port' = [p \in Ports |-> f[p]]
  BY <1>1 DEF f
<1> QED
  BY <1>2, <1>3, KeptInv

\* Of two interfaces on one subnet each is the other one's twin.
LEMMA TwinOfTwin ==
  ASSUME NEW q \in Ports, TwinOf(q) \in Ports
  PROVE  /\ Twin[q[1]] # q[1] /\ TwinOf(q) # q
         /\ TwinOf(q)[1] = Twin[q[1]] /\ Twin[TwinOf(q)[1]] = q[1]
         /\ TwinOf(TwinOf(q)) = q
<1>1. PICK i \in Ifs, v \in Protos : q = <<i, v>>
  BY DEF Ports
<1>2. TwinOf(q) = <<Twin[i], v>> /\ Twin[i] \in Ifs
  BY <1>1 DEF TwinOf, Ports
<1>3. Twin[i] # i /\ Twin[Twin[i]] = i
  BY <1>2, ResponderAssumption
<1> QED
  BY <1>1, <1>2, <1>3 DEF TwinOf

\* A pcb that is closed has no other one waiting for it: that one takes over.
LEMMA DisableInv ==
  ASSUME RespInv, ServerOK', UNCHANGED server, NEW p \in Ports, Disable(p)
  PROVE  RespInv'
<1> DEFINE takesOver(q) == port[p].open /\ q = TwinOf(p) /\ port[q].state = PCB_DUP
<1>1. PICK joins \in BOOLEAN :
        port' = [q \in Ports |->
                   CASE q = p         -> Closed
                     [] takesOver(q)  -> EnablePcb([port[q] EXCEPT !.state = PCB_OFF],
                                                   services, hostname, joins, This)
                     [] OTHER         -> port[q]]
  BY DEF Disable
<1> DEFINE f == [q \in Ports |->
                   CASE q = p         -> Closed
                     [] takesOver(q)  -> EnablePcb([port[q] EXCEPT !.state = PCB_OFF],
                                                   services, hostname, joins, This)
                     [] OTHER         -> port[q]]
<1>2. /\ This \in Nat /\ services \in SUBSET Services /\ hostname \in BOOLEAN
      /\ services' = services /\ hostname' = hostname
      /\ \A q \in Ports : PcbInv(port[q], services, hostname)
  BY Numbered DEF RespInv, RespTypeOK, server
<1>3. PcbInv(Closed, services, hostname) /\ Closed.state # PCB_DUP
  <2>1. PcbInv(Closed, services, hostname) /\ Closed.state = PCB_OFF
    BY ClosedInv, Zenon
  <2> QED
    BY <2>1, StateNumbers DEF States
<1>4. ASSUME NEW q \in Ports, takesOver(q), q # p
      PROVE  PcbInv(f[q], services, hostname) /\ f[q].state # PCB_DUP
  <2> DEFINE c == [port[q] EXCEPT !.state = PCB_OFF]
  <2>1. PcbInv(port[q], services, hostname) /\ ~port[q].open
    BY <1>2, <1>4, DupClosed
  <2>2. c \in Pcb /\ c.state = PCB_OFF /\ ~c.open /\ c.tx = {} /\ c.probe = {}
        /\ ~c.probeIp /\ ~c.running
    <3>1. PCB_OFF \in PCB_OFF .. PCB_RUNNING
      BY StateNumbers DEF States
    <3> QED
      BY <2>1, <3>1 DEF PcbInv, PcbOK, Pcb
  <2>3. f[q] = EnablePcb(c, services, hostname, joins, This)
    BY <1>4
  <2> HIDE DEF c, f
  <2>4. PcbInv(c, services, hostname)
    BY <2>2, StateNumbers DEF States, PcbInv, PcbOK, Announcing
  <2>5. PcbInv(f[q], services, hostname) /\ Keeps(f[q], c)
    BY <1>2, <2>3, <2>4, EnableInv
  <2>6. f[q].state = PCB_DUP => FALSE
    BY <2>2, <2>5, DupClosed, StateNumbers DEF States, Keeps
  <2> QED
    BY <2>5, <2>6
<1>5. ASSUME NEW q \in Ports, ~takesOver(q), q # p
      PROVE  f[q] = port[q]
  BY <1>5
<1>6. f[p] = Closed
  BY <1>2, DupClosed
<1>7. port' = [q \in Ports |-> f[q]]
  BY <1>1
<1> HIDE DEF f
<1>8. \A q \in Ports : PcbInv(f[q], services', hostname')
  BY <1>2, <1>3, <1>4, <1>5, <1>6
<1>9. ASSUME NEW q \in Ports, f[q].state = PCB_DUP
      PROVE  TwinOf(q) \in Ports /\ f[TwinOf(q)].open
  <2>1. q # p /\ ~takesOver(q) /\ port[q].state = PCB_DUP
    BY <1>3, <1>4, <1>5, <1>6, <1>9
  <2>2. TwinOf(q) \in Ports /\ port[TwinOf(q)].open
    BY <2>1 DEF RespInv, DupHasTwin
  <2>3. TwinOf(q) # p
    BY <2>1, <2>2, TwinOfTwin
  <2>4. ~takesOver(TwinOf(q))
    BY <1>2, <2>2, DupClosed
  <2> QED
    BY <1>5, <2>2, <2>3, <2>4
<1> QED
  BY <1>7, <1>8, <1>9, AllInv

\* A pcb that steps back does so before one that is open and stays so.
LEMMA DupInterfaceInv ==
  ASSUME RespInv, ServerOK', UNCHANGED server, NEW p \in Ports, DupInterface(p)
  PROVE  RespInv'
<1> DEFINE i == p[1]
           leaves(q) == q[1] = i /\ port[TwinOf(q)].open
           gains(q)  == q[1] = Twin[i] /\ port[q].open
           F == [q \in Ports |->
                   CASE leaves(q) -> {[Closed EXCEPT !.state = PCB_DUP]}
                     [] gains(q)  -> AnnouncePcb(port[q], {}, TRUE, hostname, This)
                     [] OTHER     -> {port[q]}]
<1>1. /\ port' \in [Ports -> UNION {F[q] : q \in Ports}]
      /\ \A q \in Ports : port'[q] \in F[q]
      /\ TwinOf(p) \in Ports
  BY DEF DupInterface, EveryPort
<1>2. /\ This \in Nat /\ services \in SUBSET Services /\ hostname \in BOOLEAN
      /\ services' = services /\ hostname' = hostname
      /\ \A q \in Ports : PcbInv(port[q], services, hostname)
  BY Numbered DEF RespInv, RespTypeOK, server
<1>3. Twin[i] # i
  BY <1>1, TwinOfTwin
<1>4. \A q \in Ports : /\ leaves(q) => port'[q] = [Closed EXCEPT !.state = PCB_DUP]
                       /\ gains(q) => port'[q] \in AnnouncePcb(port[q], {}, TRUE, hostname, This)
                       /\ ~leaves(q) /\ ~gains(q) => port'[q] = port[q]
  BY <1>1, <1>3
<1>5. \A q \in Ports : q[1] = i => TwinOf(q) \in Ports /\ TwinOf(q)[1] = Twin[i]
  BY <1>1 DEF TwinOf, Ports
<1>6. port' = [q \in Ports |-> port'[q]]
  BY <1>1
<1> HIDE DEF F, leaves, gains
<1>7. ASSUME NEW q \in Ports, ~leaves(q)
      PROVE  PcbInv(port'[q], services, hostname) /\ Keeps(port'[q], port[q])
  <2>1. ASSUME NEW r \in AnnouncePcb(port[q], {}, TRUE, hostname, This)
        PROVE  PcbInv(r, services, hostname) /\ Keeps(r, port[q])
    <3>1. {} \in SUBSET services /\ TRUE \in BOOLEAN /\ PcbInv(port[q], services, hostname)
      BY <1>2
    <3> QED
      BY <1>2, <3>1, AnnounceInv
  <2> QED
    BY <1>2, <1>4, <1>7, <2>1 DEF Keeps
<1>8. ASSUME NEW q \in Ports, leaves(q)
      PROVE  PcbInv(port'[q], services, hostname) /\ ~port'[q].open
  <2>1. port'[q] = [Closed EXCEPT !.state = PCB_DUP]
    BY <1>4, <1>8
  <2>2. /\ PcbInv([Closed EXCEPT !.state = PCB_DUP], services, hostname)
        /\ ~[Closed EXCEPT !.state = PCB_DUP].open
    BY ClosedInv, Zenon
  <2> HIDE DEF Closed
  <2> QED
    BY <2>1, <2>2, Zenon
<1>9. ASSUME NEW q \in Ports, port'[q].state = PCB_DUP
      PROVE  TwinOf(q) \in Ports /\ port'[TwinOf(q)].open
  <2>1. CASE leaves(q)
    <3>1. TwinOf(q) \in Ports /\ TwinOf(q)[1] # i /\ port[TwinOf(q)].open
      BY <1>3, <1>5, <2>1 DEF leaves
    <3> QED
      BY <1>7, <3>1 DEF leaves, Keeps
  <2>2. CASE ~leaves(q)
    <3>1. port[q].state = PCB_DUP
      BY <1>7, <1>9, <2>2, DupClosed DEF Keeps
    <3>2. TwinOf(q) \in Ports /\ port[TwinOf(q)].open /\ ~port[q].open
      BY <1>2, <3>1, DupClosed DEF RespInv, DupHasTwin
    <3>3. ~leaves(TwinOf(q))
      BY <3>2, TwinOfTwin DEF leaves
    <3> QED
      BY <1>7, <3>2, <3>3 DEF Keeps
  <2> QED
    BY <2>1, <2>2
<1>10. \A q \in Ports : PcbInv(port'[q], services', hostname')
  BY <1>2, <1>7, <1>8
<1> QED
  BY <1>6, <1>9, <1>10, AllInv

\* A service record of somebody else wins over one of the server's.
LEMMA SrvConflictInv ==
  ASSUME RespInv, ServerOK', NEW p \in Ports, NEW s \in Services, SrvConflict(p, s)
  PROVE  RespInv'
<1>1. /\ s \in services /\ services' = services /\ hostname' = hostname /\ hostname = TRUE
      /\ UNCHANGED server /\ UNCHANGED <<services, own, hostname, instance>> /\ port[p].open
  BY DEF SrvConflict, server, RespInv, RespTypeOK
<1>2. CASE ~port[p].running
  <2> DEFINE pcb == InitPcbProbe(port[p], {s}, FALSE, hostname, This)
  <2>1. port' = [port EXCEPT ![p] = pcb]
    BY <1>2 DEF SrvConflict
  <2>2. /\ This \in Nat /\ services \in SUBSET Services /\ hostname \in BOOLEAN
        /\ {s} \in SUBSET services /\ {s} # {}
        /\ PcbInv(port[p], services, hostname)
    BY <1>1, Numbered DEF RespInv, RespTypeOK
  <2>3. PcbInv(pcb, services, hostname) /\ pcb.open
    BY <1>1, <2>2, ProbeOneInv
  <2> HIDE DEF pcb
  <2> QED
    BY <1>1, <2>1, <2>3, OnePcbInv DEF Keeps
<1>3. CASE port[p].running /\ s \in own
  <2>1. ProbeAllPcbs({s}, FALSE, FALSE, {s}, TRUE)
    BY <1>3 DEF SrvConflict
  <2>2. services' = services \cup {s}
    BY <1>1
  <2> QED
    BY <1>1, <2>1, <2>2, ProbeServiceInv
<1>4. CASE port[p].running /\ s \notin own /\ instance
  <2>1. RestartAllPcbsNoInstance
    BY <1>4 DEF SrvConflict
  <2> QED
    BY <1>1, <2>1, RestartNoInstanceInv
<1>5. CASE port[p].running /\ s \notin own /\ ~instance
  <2>1. RestartAllPcbs
    BY <1>5 DEF SrvConflict
  <2> QED
    BY <1>1, <2>1, RestartInv
<1> QED
  BY <1>2, <1>3, <1>4, <1>5

\* A text record of somebody else differs.
LEMMA TxtConflictInv ==
  ASSUME RespInv, ServerOK', NEW p \in Ports, NEW s \in Services, TxtConflict(p, s)
  PROVE  RespInv'
<1> DEFINE pcb == InitPcbProbe(port[p], {s}, TRUE, hostname, This)
<1>1. /\ s \in services /\ UNCHANGED server /\ port[p].open /\ port' = [port EXCEPT ![p] = pcb]
  BY DEF TxtConflict
<1>2. /\ This \in Nat /\ services \in SUBSET Services /\ hostname \in BOOLEAN
      /\ {s} \in SUBSET services /\ {s} # {}
      /\ PcbInv(port[p], services, hostname)
  BY <1>1, Numbered DEF RespInv, RespTypeOK
<1>3. PcbInv(pcb, services, hostname) /\ pcb.open
  BY <1>1, <1>2, ProbeOneInv
<1> HIDE DEF pcb
<1> QED
  BY <1>1, <1>3, OnePcbInv DEF Keeps

\* Somebody else has the address of the server's host.
LEMMA AddressConflictInv ==
  ASSUME RespInv, ServerOK', NEW p \in Ports, AddressConflict(p)
  PROVE  RespInv'
<1>1. /\ UNCHANGED server /\ UNCHANGED <<services, own, hostname, instance>>
      /\ port[p].open /\ hostname = TRUE /\ hostname' = TRUE
  BY DEF AddressConflict, server, RespInv, RespTypeOK
<1>2. CASE port[p].running
  <2>1. RestartAllPcbs
    BY <1>2 DEF AddressConflict
  <2> QED
    BY <1>1, <2>1, RestartInv
<1>3. CASE ~port[p].running
  <2> DEFINE pcb == InitPcbProbe(port[p], {}, TRUE, TRUE, This)
  <2>1. port' = [port EXCEPT ![p] = pcb]
    BY <1>3 DEF AddressConflict
  <2>2. /\ This \in Nat /\ services \in SUBSET Services /\ TRUE \in BOOLEAN
        /\ {} \in SUBSET services /\ PcbInv(port[p], services, TRUE)
    BY <1>1, Numbered DEF RespInv, RespTypeOK
  <2>3. PcbInv(pcb, services, hostname) /\ pcb.open
    BY <1>1, <2>2, ProbeOneInv
  <2> HIDE DEF pcb
  <2> QED
    BY <1>1, <2>1, <2>3, OnePcbInv DEF Keeps
<1> QED
  BY <1>2, <1>3

\* Actions on one pcb that neither open nor close it for others
LEMMA PortActionsInv ==
  ASSUME RespInv, ServerOK', UNCHANGED server, NEW p \in Ports,
         Enable(p) \/ Announce(p) \/ Question(p) \/ TxHandle(p)
  PROVE  RespInv'
<1>1. /\ This \in Nat /\ services \in SUBSET Services /\ hostname \in BOOLEAN
      /\ hosts \subseteq Delegated /\ PcbInv(port[p], services, hostname)
      /\ port \in [Ports -> Pcb]
  BY Numbered DEF RespInv, RespTypeOK
<1>2. CASE Enable(p)
  <2>1. PICK joins \in BOOLEAN :
          port' = [port EXCEPT ![p] = EnablePcb(port[p], services, hostname, joins, This)]
    BY <1>2 DEF Enable
  <2>2. /\ PcbInv(EnablePcb(port[p], services, hostname, joins, This), services, hostname)
        /\ Keeps(EnablePcb(port[p], services, hostname, joins, This), port[p])
    BY <1>1, EnableInv
  <2> QED
    BY <2>1, <2>2, OnePcbInv
<1>3. CASE Announce(p)
  <2>1. PICK pcb \in AnnouncePcb(port[p], {}, TRUE, hostname, This) :
          port' = [port EXCEPT ![p] = pcb]
    BY <1>3 DEF Announce
  <2>2. {} \in SUBSET services /\ TRUE \in BOOLEAN
    OBVIOUS
  <2>3. PcbInv(pcb, services, hostname) /\ Keeps(pcb, port[p])
    BY <1>1, <2>2, AnnounceInv
  <2> QED
    BY <2>1, <2>3, OnePcbInv
<1>4. CASE Question(p)
  <2>1. PICK ss \in SUBSET services, hs \in SUBSET ({Self} \cup hosts), addresses \in BOOLEAN :
          /\ ss # {} \/ hs # {}
          /\ port' = [port EXCEPT ![p].tx = @ \cup {AnswerPacket(ss, hs, addresses, This)}]
    BY <1>4 DEF Question
  <2> DEFINE pcb == Answering(port[p], ss, hs, addresses, This)
  <2>2. port[p].open /\ port[p].state > PCB_PROBE_3 /\ hs \in SUBSET Hosts
    BY <1>1, <1>4 DEF Question, Hosts
  <2>3. PcbInv(pcb, services, hostname) /\ Keeps(pcb, port[p])
    BY <1>1, <2>1, <2>2, AnswerInv
  <2>4. port' = [port EXCEPT ![p] = pcb]
    BY <1>1, <2>1 DEF Answering
  <2> HIDE DEF pcb
  <2> QED
    BY <2>3, <2>4, OnePcbInv
<1>5. CASE TxHandle(p)
  <2>1. PICK pk \in port[p].tx : port' = [port EXCEPT ![p] = TxHandlePacket(port[p], pk)]
    BY <1>5 DEF TxHandle
  <2>2. /\ PcbInv(TxHandlePacket(port[p], pk), services, hostname)
        /\ Keeps(TxHandlePacket(port[p], pk), port[p])
    BY <1>1, TxHandleInv
  <2> QED
    BY <2>1, <2>2, OnePcbInv
<1> QED
  BY <1>2, <1>3, <1>4, <1>5

-----------------------------------------------------------------------------
(* The theorems.                                                            *)

\* What a step leaves of the variables of the server
LEMMA ServerInv ==
  ASSUME RespInv, Next
  PROVE  ServerOK'
<1>0. ServerOK /\ (Event => events' \in 0 .. MaxEvents)
  BY Numbered
<1> USE <1>0 DEF ServerOK
<1>1. CASE HostnameSet
  BY <1>1 DEF HostnameSet
<1>2. CASE InstanceSet
  BY <1>2 DEF InstanceSet
<1>3. ASSUME NEW s \in Services, ServiceAdd(s) PROVE ServerOK'
  BY <1>3 DEF ServiceAdd
<1>4. ASSUME NEW s \in Services, ServiceInstanceSet(s) PROVE ServerOK'
  BY <1>4 DEF ServiceInstanceSet
<1>5. ASSUME NEW gone, Remove(gone), hosts' \subseteq Delegated,
             UNCHANGED <<hostname, instance>>, events' \in 0 .. MaxEvents
      PROVE ServerOK'
  BY <1>5 DEF Remove
<1>6. ASSUME NEW s \in Services, ServiceDel(s) PROVE ServerOK'
  BY <1>5, <1>6 DEF ServiceDel
<1>7. CASE ServicesClear
  BY <1>5, <1>7 DEF ServicesClear
<1>8. ASSUME NEW h \in Delegated, DelegateHostnameAdd(h) PROVE ServerOK'
  BY <1>8 DEF DelegateHostnameAdd
<1>9. ASSUME NEW h \in Delegated, DelegateHostnameRemove(h) PROVE ServerOK'
  BY <1>5, <1>9 DEF DelegateHostnameRemove
<1>10. ASSUME UNCHANGED server, events' \in 0 .. MaxEvents PROVE ServerOK'
  BY <1>10 DEF server
<1>11. ASSUME NEW s \in Services, NEW ip \in BOOLEAN, ServiceChange(s, ip) PROVE ServerOK'
  BY <1>10, <1>11 DEF ServiceChange
<1>12. ASSUME NEW p \in Ports, Enable(p) \/ Disable(p) \/ Announce(p) \/ Question(p)
       PROVE  ServerOK'
  BY <1>10, <1>12 DEF Enable, Disable, Announce, Question
<1>13. ASSUME NEW p \in Ports, NEW s \in Services, SrvConflict(p, s) \/ TxtConflict(p, s)
       PROVE  ServerOK'
  BY <1>10, <1>13 DEF SrvConflict, TxtConflict
<1>14. ASSUME NEW p \in Ports, AddressConflict(p) \/ DupInterface(p) PROVE ServerOK'
  BY <1>10, <1>14 DEF AddressConflict, DupInterface
<1>15. ASSUME NEW p \in Ports, TxHandle(p) PROVE ServerOK'
  BY <1>10, <1>15 DEF TxHandle
<1>16. CASE Quiet
  BY <1>10, <1>16 DEF Quiet, vars
<1> QED
  BY <1>1, <1>2, <1>3, <1>4, <1>6, <1>7, <1>8, <1>9, <1>11, <1>12, <1>13, <1>14, <1>15, <1>16
     DEF Next

\* Each step of the responder keeps the invariant.
LEMMA RespStep ==
  ASSUME RespInv, Next
  PROVE  RespInv'
<1>0. ServerOK'
  BY ServerInv
<1>1. CASE HostnameSet
  BY <1>0, <1>1, RestartInv DEF HostnameSet
<1>2. CASE InstanceSet
  BY <1>0, <1>2, RestartNoInstanceInv DEF InstanceSet
<1>3. ASSUME NEW s \in Services, ServiceAdd(s) PROVE RespInv'
  <2>1. hostname = TRUE
    BY <1>3 DEF ServiceAdd, RespInv, RespTypeOK
  <2>2. services' = services \cup {s} /\ hostname' = hostname
        /\ ProbeAllPcbs({s}, FALSE, FALSE, {s}, TRUE)
    BY <1>3 DEF ServiceAdd
  <2> QED
    BY <1>0, <2>1, <2>2, ProbeServiceInv
<1>4. ASSUME NEW s \in Services, ServiceInstanceSet(s) PROVE RespInv'
  <2>1. services' = services \cup {s} /\ hostname' = hostname
        /\ ProbeAllPcbs({s}, FALSE, FALSE, {s}, hostname)
    BY <1>4 DEF ServiceInstanceSet
  <2> QED
    BY <1>0, <2>1, ProbeServiceInv
<1>5. ASSUME NEW s \in Services, ServiceDel(s) PROVE RespInv'
  <2>1. {s} \in SUBSET Services /\ Remove({s}) /\ hostname' = hostname
    BY <1>5 DEF ServiceDel
  <2> QED
    BY <1>0, <2>1, RemoveAllInv
<1>6. CASE ServicesClear
  <2>1. services \in SUBSET Services /\ Remove(services) /\ hostname' = hostname
    BY <1>6 DEF ServicesClear, RespInv, RespTypeOK
  <2> QED
    BY <1>0, <2>1, RemoveAllInv
<1>7. ASSUME NEW h \in Delegated, DelegateHostnameRemove(h) PROVE RespInv'
  <2> DEFINE gone == {s \in services : HostOf[s] = h}
  <2>1. gone \in SUBSET Services /\ Remove(gone) /\ hostname' = hostname
    BY <1>7 DEF DelegateHostnameRemove, RespInv, RespTypeOK
  <2> HIDE DEF gone
  <2> QED
    BY <1>0, <2>1, RemoveAllInv
<1>8. ASSUME UNCHANGED <<port, services, hostname>> PROVE RespInv'
  <2> DEFINE f == [p \in Ports |-> port[p]]
  <2>1. port' = f
    BY <1>8 DEF RespInv, RespTypeOK
  <2>2. \A p \in Ports : PcbInv(f[p], services', hostname') /\ Keeps(f[p], port[p])
    BY <1>8 DEF RespInv, Keeps
  <2> HIDE DEF f
  <2>3. port' = [p \in Ports |-> f[p]]
    BY <2>1 DEF f
  <2> QED
    BY <1>0, <2>2, <2>3, KeptInv
<1>9. ASSUME NEW h \in Delegated, DelegateHostnameAdd(h) PROVE RespInv'
  BY <1>8, <1>9 DEF DelegateHostnameAdd
<1>10. ASSUME NEW s \in Services, NEW ip \in BOOLEAN, ServiceChange(s, ip) PROVE RespInv'
  <2>1. {s} \in SUBSET services /\ {s} # {} /\ UNCHANGED server /\ AnnounceAllPcbs({s}, ip)
    BY <1>10 DEF ServiceChange
  <2> QED
    BY <1>0, <2>1, AnnounceAllInv
<1>11. ASSUME NEW p \in Ports, Enable(p) \/ Announce(p) \/ Question(p) \/ TxHandle(p)
       PROVE  RespInv'
  <2>1. UNCHANGED server
    BY <1>11 DEF Enable, Announce, Question, TxHandle
  <2> QED
    BY <1>0, <1>11, <2>1, PortActionsInv
<1>12. ASSUME NEW p \in Ports, Disable(p) PROVE RespInv'
  BY <1>0, <1>12, DisableInv DEF Disable
<1>13. ASSUME NEW p \in Ports, NEW s \in Services, SrvConflict(p, s) \/ TxtConflict(p, s)
       PROVE  RespInv'
  BY <1>0, <1>13, SrvConflictInv, TxtConflictInv
<1>14. ASSUME NEW p \in Ports, AddressConflict(p) \/ DupInterface(p) PROVE RespInv'
  <2>1. DupInterface(p) => UNCHANGED server
    BY DEF DupInterface
  <2> QED
    BY <1>0, <1>14, <2>1, AddressConflictInv, DupInterfaceInv
<1>15. CASE Quiet
  BY <1>8, <1>15 DEF Quiet, vars, server
<1> QED
  BY <1>1, <1>2, <1>3, <1>4, <1>5, <1>6, <1>7, <1>9, <1>10, <1>11, <1>12, <1>13, <1>14, <1>15
     DEF Next

\* The invariant holds as long as the responder runs.
THEOREM RespInductive == Spec => []RespInv
<1>1. Init => RespInv
  <2> SUFFICES ASSUME Init PROVE RespInv
    OBVIOUS
  <2>1. \A p \in Ports : PcbInv(port[p], services, hostname) /\ port[p].state # PCB_DUP
    <3>1. PcbInv(Closed, services, hostname) /\ Closed.state = PCB_OFF
      BY ClosedInv, Zenon
    <3> QED
      BY <3>1, StateNumbers DEF States, Init
  <2>2. RespTypeOK
    <3>1. PcbInv(Closed, services, hostname)
      BY ClosedInv, Zenon
    <3>2. Closed \in Pcb
      BY <3>1 DEF PcbInv
    <3>3. port \in [Ports -> Pcb]
      BY <3>2 DEF Init
    <3>4. 0 \in 0 .. MaxEvents
      BY ResponderAssumption
    <3> QED
      BY <3>3, <3>4 DEF Init, RespTypeOK
  <2> QED
    BY <2>1, <2>2 DEF RespInv, DupHasTwin, Init
<1>2. RespInv /\ [Next]_vars => RespInv'
  <2> SUFFICES ASSUME RespInv, [Next]_vars PROVE RespInv'
    OBVIOUS
  <2>1. CASE Next
    BY <2>1, RespStep
  <2>2. CASE UNCHANGED vars
    BY <2>2 DEF vars, server, RespInv, RespTypeOK, DupHasTwin, TwinOf, Ports
  <2> QED
    BY <2>1, <2>2
<1> QED
  BY <1>1, <1>2, PTL DEF Spec

\* The types of the variables
THEOREM RespTypes == Spec => []RespTypeOK
<1>1. RespInv => RespTypeOK
  BY DEF RespInv
<1> QED
  BY <1>1, RespInductive, PTL

\* State, list, flags and queue of every pcb say the same.
THEOREM QueuesMatch == Spec => []QueueMatches
<1>1. RespInv => QueueMatches
  BY DEF RespInv, PcbInv, QueueMatches
<1> QED
  BY <1>1, RespInductive, PTL

\* Nothing that is scheduled names a service that has been removed.
THEOREM RecordsStayLive == Spec => []RecordsLive
<1>1. RespInv => RecordsLive
  BY DEF RespInv, PcbInv, RecordsLive
<1> QED
  BY <1>1, RespInductive, PTL

\* No name is announced, nor answered with, before it has been probed for.
THEOREM NamesProbed == Spec => []ProbedFirst
<1>1. ASSUME RespInv PROVE ProbedFirst
  <2>1. SUFFICES ASSUME NEW p \in Ports, port[p].open, hostname
                 PROVE  /\ port[p].state > PCB_PROBE_3 =>
                             services \cup {Self} \subseteq ProvenAt(port[p])
                        /\ \A pk \in port[p].tx : pk.ans \subseteq ProvenAt(port[p])
    BY DEF ProbedFirst
  <2>2. PcbInv(port[p], services, TRUE) /\ NamesOK(port[p], services) /\ port[p] \in Pcb
    BY <1>1, <2>1 DEF RespInv, RespTypeOK, PcbInv
  <2>3. port[p].state > PCB_PROBE_3 => ~Probing(port[p])
    BY <2>2, StateNumbers DEF States, Probing, Pcb
  <2> QED
    BY <2>1, <2>2, <2>3, AllProven DEF NamesOK
<1> QED
  BY <1>1, RespInductive, PTL

\* Whoever steps back has somebody that answers instead.
THEOREM DupsHaveTwins == Spec => []DupHasTwin
<1>1. RespInv => DupHasTwin
  BY DEF RespInv
<1> QED
  BY <1>1, RespInductive, PTL

=============================================================================
