--------------------------- MODULE MdnsPacketInv ---------------------------
(* What makes a packet correct.                                             *)
EXTENDS MdnsPacket

Cells == pkt.cells

\* The cells lie one behind the other in the buffer, ...
Adjacent(p) ==
  \A c \in DOMAIN p.cells :
    p.cells[c].at + p.cells[c].size =
      IF c = Len(p.cells) THEN p.used ELSE p.cells[c + 1].at

\* ... and every reference leads to a label before it.
Backward(p) ==
  \A c \in DOMAIN p.cells : p.cells[c].kind = "ref" =>
    p.cells[c].value \in 1 .. c - 1 /\ p.cells[p.cells[c].value].kind = "label"

\* However full the buffer gets, no byte is written behind MDNS_MAX_PACKET_SIZE,
\* the bytes that are not checked for included, and what a cut has left of the
\* last record does not put the cells or the references of others out of place.
PacketTypeOK ==
  /\ pkt.used <= MaxPacket
  /\ Adjacent(pkt) /\ Backward(pkt)
  /\ pkt.ok /\ pkt.cut \in BOOLEAN
  /\ items \in 0 .. MaxAnswers /\ questions \in 0 .. items /\ answers \in Nat

\* That is inductive with the types of what has been written, and holds of every
\* packet on the way from one to the next.
CellSet ==
  [kind : {"label"}, value : Labels, length : Nat, at : Nat, size : Nat \ {0}]
    \cup [kind : {"ref", "end", "type", "data"}, value : Nat, length : Nat, at : Nat,
          size : Nat \ {0}]

Packets ==
  [cells : Seq(CellSet), used : Nat, ok : BOOLEAN, cut : BOOLEAN,
   names : SUBSET [first : Nat, name : Seq(Labels)]]

Fits(p) == p \in Packets /\ p.used <= MaxPacket /\ Adjacent(p) /\ Backward(p)

\* The names that are written, and what is left of one behind its first labels
NamesWritten ==
  (UNION {{Type(s), Instance(s)} \cup {<<sub, Sub>> \o Type(s) : sub \in ToSet(Service[s].subtypes)} :
            s \in Services})
    \cup {Host(h) : h \in Hosts} \cup {Discovery \o <<Local>>}

Rests == UNION {{SubSeq(n, i, Len(n)) : i \in 1 .. Len(n) + 1} : n \in NamesWritten}

\* A reader drops the label _sub.  What then looks like a name is that name: no
\* instance is called like a subtype of its type.
ASSUME NamesAssumption ==
  \A r, n \in Rests : r # <<>> /\ n # <<>> /\ r[1] = n[1] /\ Parts(r) = n => r = n

\* A length byte that is no reference
ShortLabels == \A l \in Labels : Size[l] <= MaxLabel

\* L: what is read at each cell
ReadsAs(L, p) ==
  /\ L \in [DOMAIN p.cells -> Rests]
  /\ \A c \in DOMAIN p.cells :
       /\ p.cells[c].kind = "label" =>
            c + 1 \in DOMAIN p.cells /\ L[c] = <<p.cells[c].value>> \o L[c + 1]
       /\ p.cells[c].kind = "ref" => L[c] = L[p.cells[c].value]
       /\ p.cells[c].kind \notin {"label", "ref"} => L[c] = <<>>
  /\ \A n \in p.names : n.first \in DOMAIN p.cells /\ L[n.first] = n.name

\* Between two names every chain of labels and references has an end, unless
\* something has been cut.
Told(p) ==
  ShortLabels /\ ~p.cut => p.ok /\ ReadsAs([c \in DOMAIN p.cells |-> LabelsFrom(p.cells)[c]], p)

Well(p) == Fits(p) /\ Told(p)

\* Where a cell begins, or what comes behind the last
Offset(p, c) == IF c > Len(p.cells) THEN p.used ELSE p.cells[c].at

\* A name, a question and a record from the cell c to where the next may begin
NameAt(p, c, e) ==
  /\ c \in 1 .. e - 1 /\ e \in 1 .. Len(p.cells) + 1
  /\ \A d \in c .. e - 2 : p.cells[d].kind = "label"
  /\ p.cells[e - 1].kind \in {"ref", "end"}

QuestionAt(p, c, e) == e \in 3 .. Len(p.cells) + 1 /\ NameAt(p, c, e - 2)

RecordAt(p, c, e) ==
  \E d \in 1 .. Len(p.cells) :
    /\ NameAt(p, c, d) /\ p.cells[d].kind = "type"
    /\ e \in d + 1 .. Len(p.cells) + 1
    /\ p.cells[d].at + p.cells[d].size + p.cells[d].length = Offset(p, e)

\* f: where the q questions and then the a records of a packet begin and end
Items(f, p, q, a) ==
  /\ f \in [0 .. q + a -> Nat] /\ f[0] = 1 /\ f[q + a] = Len(p.cells) + 1
  /\ \A i \in 1 .. q + a :
       IF i <= q THEN QuestionAt(p, f[i - 1], f[i]) ELSE RecordAt(p, f[i - 1], f[i])

\* Unless something has been cut, a packet consists of what has been counted.
Whole(p, q, a) == ~p.cut => p.ok /\ \E f : Items(f, p, q, a)

PacketInv ==
  /\ Well(pkt) /\ pkt.ok /\ Whole(pkt, questions, answers)
  /\ items \in 0 .. MaxAnswers /\ questions \in 0 .. items /\ answers \in Nat

\* While everything has fitted, a reader finds behind its references every name
\* that was written.
NamesReadBack ==
  ~pkt.cut =>
    \A n \in pkt.names :
      LET read == LabelsFrom(Cells)[n.first] IN read = n.name /\ Readable(read)

\* How mdns_parse_packet goes through a packet: 0 where it gives up.
AfterName(c) ==
  LET stop == Min({d \in c .. Len(Cells) : Cells[d].kind # "label"} \cup {Len(Cells) + 1}) IN
  IF stop <= Len(Cells) /\ Cells[stop].kind \in {"ref", "end"} THEN stop + 1 ELSE 0

AfterQuestion(c) ==
  LET d == AfterName(c) IN IF d # 0 /\ d + 1 <= Len(Cells) THEN d + 2 ELSE 0

AfterRecord(c) ==
  LET d    == AfterName(c)
      end  == Cells[d].at + Cells[d].size + Cells[d].length
      next == {e \in d + 1 .. Len(Cells) + 1 : Offset(pkt, e) = end} IN
  IF d = 0 \/ d > Len(Cells) \/ next = {} THEN 0 ELSE Min(next)

\* The number of records from a cell to the end of the packet; more than there
\* are cells if the parser gives up
Records ==
  LET R[c \in 0 .. Len(Cells) + 1] ==
        IF c = Len(Cells) + 1 THEN 0
        ELSE IF c = 0 THEN Len(Cells) + 1
        ELSE 1 + R[AfterRecord(c)] IN
  R

\* The cell behind the first n questions
Behind ==
  LET B[n \in 0 .. questions] ==
        IF n = 0 THEN 1 ELSE IF B[n - 1] = 0 THEN 0 ELSE AfterQuestion(B[n - 1]) IN
  B

\* While everything has fitted, the parser finds as many records behind the
\* questions as the header promises.
RecordsReadBack == ~pkt.cut => Records[Behind[questions]] = answers

=============================================================================
