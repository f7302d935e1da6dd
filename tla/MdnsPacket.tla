----------------------------- MODULE MdnsPacket -----------------------------
(***************************************************************************)
(* How components/mdns/mdns.c writes a packet (_mdns_dispatch_tx_packet    *)
(* and the _mdns_append_... functions): the questions and the answers of a *)
(* packet go one after the other into a buffer of MDNS_MAX_PACKET_SIZE     *)
(* bytes, and a name, or the rest of a name, that the buffer holds already *)
(* is written as a reference to it.                                        *)
(*                                                                         *)
(* The buffer is a sequence of cells: labels, references, ends of names,   *)
(* headers of records (type, class, TTL and data length) and data, each    *)
(* with its offset and its size in bytes.  Bytes behind the last cell,     *)
(* which an earlier packet left there, read as an end.  The data of a      *)
(* record look like no label of a name.                                    *)
(***************************************************************************)
EXTENDS Naturals, Sequences, FiniteSets, SequencesExt

CONSTANTS Size,        \* the length of each label
          MaxLabel,    \* the longest label that a reader accepts: 63
          MaxPacket,   \* MDNS_MAX_PACKET_SIZE
          HeadLen,     \* MDNS_HEAD_LEN
          Service,     \* instance, service, proto, host, subtypes, txt of each
          Local,       \* MDNS_DEFAULT_DOMAIN
          Sub,         \* MDNS_SUB_STR
          Discovery,   \* <<"_services", "_dns-sd", "_udp">>
          MaxAddresses, \* bound on the addresses of a host
          MaxAnswers   \* bound on the questions and answers of a packet

Labels   == DOMAIN Size
Services == DOMAIN Service
Hosts    == {Service[s].host : s \in Services}

ASSUME PacketAssumption ==
  /\ Size \in [Labels -> Nat] /\ MaxLabel \in Nat
  /\ MaxPacket \in Nat /\ HeadLen \in 0 .. MaxPacket
  /\ MaxAddresses \in Nat /\ MaxAnswers \in Nat
  /\ {Local, Sub} \subseteq Labels /\ Discovery \in Seq(Labels)
  /\ \A s \in Services :
       /\ {Service[s].instance, Service[s].service, Service[s].proto, Service[s].host}
            \subseteq Labels
       /\ Service[s].subtypes \in Seq(Labels) /\ Service[s].txt \in Seq(Nat)

VARIABLES
  pkt,        \* the packet that is being written
  questions,  \* how many questions the code has counted
  answers,    \* how many answers it has counted
  items       \* how many it has tried to append

packetVars == <<pkt, questions, answers, items>>

\* cells and used: the packet and the number of its bytes
\* ok:    what the last function returned is not 0
\* cut:   something has not fitted
\* names: the names that were to be written, and where they begin
Empty == [cells |-> <<>>, used |-> HeadLen, ok |-> TRUE, cut |-> FALSE, names |-> {}]

PacketInit == pkt = Empty /\ questions = 0 /\ answers = 0 /\ items = 0

-----------------------------------------------------------------------------
(* _mdns_append_u8, ..._u16, ..._type, ..._string, append_one_txt_record_   *)
(* entry: one cell, if it fits.  They check before they write.              *)

Refuse(p) == [p EXCEPT !.ok = FALSE, !.cut = TRUE]

\* need: the number of bytes that the code wants to be free
Cell(kind, value, size, need) == [kind |-> kind, value |-> value, size |-> size, need |-> need]

Write(p, c) ==
  [p EXCEPT !.cells = Append(@, [kind |-> c.kind, value |-> c.value, length |-> 0,
                                 at |-> p.used, size |-> c.size]),
            !.used = @ + c.size]

AppendCell(p, c) ==
  IF ~p.ok THEN p
  ELSE IF p.used + c.need > MaxPacket THEN Refuse(p)
  ELSE Write(p, c)

\* One after the other, up to the first that does not fit
AppendCells(p, cs) ==
  LET a[i \in 0 .. Len(cs)] == IF i = 0 THEN p ELSE AppendCell(a[i - 1], cs[i])
  IN  a[Len(cs)]

AppendU8(p) == AppendCell(p, Cell("end", 0, 1, 1))

AppendRef(p, to) == AppendCell(p, Cell("ref", to, 2, 2))

\* _mdns_append_string: labels want one byte more than they take, ...
String(label) == Cell("label", label, Size[label] + 1, Size[label] + 2)

\* _mdns_append_u16 and the bytes of addresses
Data(size) == Cell("data", 0, size, size)

\* Mutant: no byte more than it takes.
AppendTypeTight(p) == AppendCell(p, Cell("type", 0, 10, 10))

\* ... and so does the header of a record: the data of a TXT record without
\* texts are written without a check.
AppendType(p) == AppendCell(p, Cell("type", 0, 10, 11))

TxtEntry(size) == Cell("data", 0, size + 1, size + 2)

NoTxt(p) == IF ~p.ok THEN p ELSE Write(p, Cell("data", 0, 1, 0))

-----------------------------------------------------------------------------
(* Names.                                                                   *)

\* _mdns_read_fqdn: the labels of the name that begins with a cell.  The first
\* byte of a header, and of the data that follow a header, is 0.
LabelsFrom(cells) ==
  LET L[c \in 1 .. Len(cells) + 1] ==
        IF c > Len(cells) THEN <<>>
        ELSE CASE cells[c].kind = "label" -> <<cells[c].value>> \o L[c + 1]
               [] cells[c].kind = "ref"   -> L[cells[c].value]
               [] OTHER                   -> <<>> IN
  L

Readable(name) == \A i \in DOMAIN name : Size[name[i]] <= MaxLabel

\* The label _sub is not one of the parts of a name.
Parts(name) == SelectSeq(name, LAMBDA l : l # Sub)

\* Mutant: the first label decides.
SameFirst(read, name) == read # <<>> /\ Head(read) = Head(name)

Same(read, name) == Parts(read) = name

\* The places where the search for a name stops: the first label is there, and
\* the name is the same or cannot be read.
Stops(cells, name) ==
  {c \in DOMAIN cells :
     /\ cells[c].kind = "label" /\ cells[c].value = name[1]
     /\ LET read == LabelsFrom(cells)[c] IN ~Readable(read) \/ Same(read, name)}

\* _mdns_append_fqdn.  The labels of a name differ, so the search for the rest
\* of a name does not find what was written just before.  A name of which only
\* a part has fitted is a success.
AppendFqdn(p, name) ==
  IF ~p.ok THEN p
  ELSE LET rest(i)  == SubSeq(name, i, Len(name))
           found    == {i \in DOMAIN name : Stops(p.cells, rest(i)) # {}}
           upto     == Min(found \cup {Len(name) + 1}) - 1
           written  == AppendCells(p, [i \in 1 .. upto |-> String(name[i])])
           place    == Min(Stops(p.cells, rest(upto + 1)))
           final    == IF upto = Len(name) THEN AppendU8(written)
                       ELSE IF ~written.ok THEN written
                       ELSE IF Readable(LabelsFrom(p.cells)[place]) THEN AppendRef(written, place)
                       ELSE Refuse(written) IN
       [final EXCEPT !.ok = Len(final.cells) > Len(p.cells),
                     !.names = @ \cup {[first |-> Len(p.cells) + 1, name |-> name]}]

-----------------------------------------------------------------------------
(* Records: owner, header, data, and then the length of the data.           *)

\* Mutant: the length is not filled in.
NoLength(full, head) == full

\* _mdns_set_u16 at the length of the header that ends the packet head
SetLength(full, head) ==
  [full EXCEPT !.cells[Len(head.cells)].length = full.used - head.used]

\* full: the packet head with the data behind it
WithLength(full, head) == IF full.ok THEN SetLength(full, head) ELSE full

Type(s)     == <<Service[s].service, Service[s].proto, Local>>
Instance(s) == <<Service[s].instance>> \o Type(s)
Host(h)     == <<h, Local>>

AppendPtrRecord(p, s) ==
  LET head == AppendType(AppendFqdn(p, Type(s))) IN
  WithLength(AppendFqdn(head, Instance(s)), head)

AppendSubtypePtrRecord(p, s, sub) ==
  LET head == AppendType(AppendFqdn(p, <<sub, Sub>> \o Type(s))) IN
  WithLength(AppendFqdn(head, Instance(s)), head)

\* It does not look whether its owner has fitted.
AppendSdptrRecord(p, s) ==
  LET owner == [AppendFqdn(p, Discovery \o <<Local>>) EXCEPT !.ok = TRUE]
      head  == AppendType(owner) IN
  WithLength(AppendFqdn(head, Type(s)), head)

AppendTxtRecord(p, s) ==
  LET head == AppendType(AppendFqdn(p, Instance(s)))
      txt  == Service[s].txt IN
  WithLength(IF txt = <<>> THEN NoTxt(head)
             ELSE AppendCells(head, [i \in 1 .. Len(txt) |-> TxtEntry(txt[i])]), head)

\* priority, weight, port and host
AppendSrvRecord(p, s) ==
  LET head == AppendType(AppendFqdn(p, Instance(s)))
      port == AppendCells(head, <<Data(2), Data(2), Data(2)>>) IN
  WithLength(AppendFqdn(port, Host(Service[s].host)), head)

AppendAddress(p, h, size) ==
  LET head == AppendType(AppendFqdn(p, Host(h))) IN
  WithLength(AppendCell(head, Data(size)), head)

\* Type and class are appended whether they fit or not.
AppendQuestion(p, name) ==
  LET q == AppendFqdn(p, name) IN
  IF ~q.ok THEN q ELSE [AppendCells(q, <<Data(2), Data(2)>>) EXCEPT !.ok = TRUE]

-----------------------------------------------------------------------------
(* _mdns_dispatch_tx_packet: the questions, then the answers, each of which *)
(* counts for as many as have been appended.                                *)

Ask(name) ==
  /\ items < MaxAnswers /\ items' = items + 1
  /\ ~ \E c \in DOMAIN pkt.cells : pkt.cells[c].kind = "type"
  /\ LET q == AppendQuestion(pkt, name) IN
     pkt' = [q EXCEPT !.ok = TRUE] /\ questions' = questions + (IF q.ok THEN 1 ELSE 0)
  /\ UNCHANGED answers

Answer(q, n) ==
  /\ items < MaxAnswers /\ items' = items + 1
  /\ pkt' = [q EXCEPT !.ok = TRUE] /\ answers' = answers + n
  /\ UNCHANGED questions

One(q) == Answer(q, IF q.ok THEN 1 ELSE 0)

\* _mdns_append_service_ptr_answers: the subtypes follow the type, each of them
\* whether the one before has fitted or not.
PtrAnswers(s) ==
  LET subtypes == Service[s].subtypes
      n        == Len(subtypes)
      a[i \in 0 .. n] ==
        IF i = 0 THEN AppendPtrRecord(pkt, s)
        ELSE AppendSubtypePtrRecord([a[i - 1] EXCEPT !.ok = TRUE], s, subtypes[i]) IN
  IF a[0].ok THEN Answer(a[n], Cardinality({i \in 0 .. n : a[i].ok})) ELSE One(a[0])

SdptrAnswer(s) == One(AppendSdptrRecord(pkt, s))
TxtAnswer(s)   == One(AppendTxtRecord(pkt, s))
SrvAnswer(s)   == One(AppendSrvRecord(pkt, s))

\* _mdns_append_answer and _mdns_append_host_answer: the addresses of a host, or
\* those of two interfaces in the same network, up to the first that does not
\* fit
AddressAnswers(h, n, size) ==
  LET a[i \in 0 .. n] == IF i = 0 THEN pkt ELSE AppendAddress(a[i - 1], h, size) IN
  Answer(a[n], Cardinality({i \in 1 .. n : a[i].ok}))

AAnswer(h, n) == AddressAnswers(h, n, 4)

AaaaAnswer(h, n) == AddressAnswers(h, n, 16)

\* The packet leaves; the next one begins.
Send == items > 0 /\ pkt' = Empty /\ questions' = 0 /\ answers' = 0 /\ items' = 0

PacketNext ==
  \/ \E s \in Services :
       \/ Ask(Type(s)) \/ Ask(Instance(s))
       \/ PtrAnswers(s) \/ SdptrAnswer(s) \/ TxtAnswer(s) \/ SrvAnswer(s)
  \/ \E h \in Hosts : Ask(Host(h))
  \/ \E h \in Hosts, n \in 1 .. MaxAddresses : AAnswer(h, n) \/ AaaaAnswer(h, n)
  \/ Send

PacketSpec == PacketInit /\ [][PacketNext]_packetVars

=============================================================================
