--------------------------- MODULE MdnsAnswersInv ---------------------------
(* What makes the answers correct.                                          *)
EXTENDS MdnsAnswers

\* The records of ours that a question asks for, after DNS-SD: the type and the
\* service or host that answers it.
Asked(q) ==
  LET n == q.name
      ss == {s \in Table :
               /\ Services[s].type = n.type
               /\ IF n.sub THEN n.host \in Services[s].subtypes
                  ELSE n.host \in {Null, Services[s].instance}} IN
  IF IsDiscovery(n, q.type) THEN {OutAnswer("SDPTR", s, Null) : s \in Table}
  ELSE IF n.type = Null
    THEN {OutAnswer(type, 0, n.host) :
            type \in {"A", "AAAA"} \cap (IF q.type = "ANY" THEN Types ELSE {q.type})}
  ELSE {OutAnswer(type, s, Null) :
          s \in ss, type \in {"PTR", "SRV", "TXT"} \cap (IF q.type = "ANY" THEN Types ELSE {q.type})}

\* The known answer that one of ours is compared with
Says(a) ==
  CASE a.type = "PTR"   -> Record(Name(Null, Services[a.service].type, FALSE), "PTR",
                                  Name(Services[a.service].instance, Services[a.service].type, FALSE))
    [] a.type = "SDPTR" -> Record(DiscoveryName, "PTR", Name(Null, Services[a.service].type, FALSE))
    [] a.type \in {"SRV", "TXT"} ->
         Record(Name(Services[a.service].instance, Services[a.service].type, FALSE), a.type, Null)
    [] OTHER            -> Record(Name(a.host, Null, FALSE), a.type, Null)

Sent == reply.answers \cup reply.additional

\* The record that the asker of q waits for.  That a service has a type says
\* nothing of its subtypes.
SaysTo(q, a) ==
  IF q.name.sub /\ a.type = "PTR" THEN [Says(a) EXCEPT !.name = q.name] ELSE Says(a)

\* Whatever is asked for, and not known to the asker, is sent.  That does not hold
\* for services with subtypes, or of one type.
Complete ==
  phase = "done" =>
    \A q \in asked : IsOurs(q.name) \/ IsDiscovery(q.name, q.type) =>
      \A a \in Asked(q) : SaysTo(q, a) \notin known => a \in Sent

\* Nobody is told about a service or a host that no question leads to; ANY about
\* a host leads to all hosts.
LeadsTo(q, a) ==
  \/ \E b \in Asked(q) :
       IF a.service # 0 THEN b.service = a.service ELSE b.host = a.host
  \/ a.service = 0 /\ q.type = "ANY" /\ q.name.host \in Hosts

Sound ==
  \A a \in Sent : (a.service # 0 \/ a.host # Null) => \E q \in asked : LeadsTo(q, a)

\* That needs to be known of what has been parsed: it stems from a question.
Stems(x, q) ==
  IF IsDiscovery(q.name, q.type)
    THEN x.type = "SDPTR" /\ \E s \in Table : x.name = Name(Null, Services[s].type, FALSE)
  ELSE x.name = q.name /\ x.type = q.type /\ IsOurs(q.name)

ParsedQuestions ==
  [name    : {q.name : q \in Queries} \cup {Name(Null, Services[s].type, FALSE) : s \in Table},
   type    : Types \cup {"SDPTR"},
   unicast : BOOLEAN]

AnswersInv ==
  /\ questions \in Seq(ParsedQuestions) /\ asked \subseteq Queries
  /\ \A i \in DOMAIN questions : \E q \in asked : Stems(questions[i], q)
  /\ Sound

\* Several services have the type that a question is about.
Several(q) ==
  \E s, t \in Table : /\ s # t /\ Services[s].type = Services[t].type
                      /\ q.name.type \in {Services[s].type, DiscoveryName.type}

\* An asker who knows everything that he asks for is told nothing.  That is not
\* so for questions of type ANY, which are not struck off; about subtypes, as no
\* answer is about one; and about types that several services have.
Silent ==
  phase = "done" /\ Sent # {} =>
    \E q \in asked :
      \/ q.type \in {"ANY", "other"} \/ q.name.sub \/ Several(q)
      \/ \E a \in Asked(q) : Says(a) \notin known

\* A query makes the device restart.
NeverCrashes == phase # "crashed"

-----------------------------------------------------------------------------
(* When everything that is asked for is sent, and nothing else.             *)

\* The first answer that matches strikes a question off, whichever service it is
\* about, and the first delegated host is never told of.
OneOfAType ==
  Delegated = <<>> /\ \A s, t \in Table : Services[s].type = Services[t].type => s = t

\* A question about a service that is not found stops everything.
InstancesAsked ==
  \A q \in Queries : q.type \in {"SRV", "TXT"} => q.name.type # Null /\ ~q.name.sub

\* A question of type SRV or TXT has one answer, as it names the instance and no
\* two services of a type have the same.
OneAnswers ==
  \A q \in Queries : q.type \in {"SRV", "TXT"} => \A a, b \in Asked(q) : a = b

\* Nobody asks for the services of a subtype.
NoSubtypes == \A q \in Queries : ~q.name.sub

\* Types are browsed, instances resolved, hosts looked up; in other words than
\* these the same may be asked for twice.
AsResolversAsk ==
  \A q \in Queries :
    /\ q.type \in {"SRV", "TXT"} => q.name.host # Null /\ q.name.type # Null
    /\ q.type = "PTR" => q.name.type # Null
    /\ q.type = "PTR" /\ ~q.name.sub /\ ~IsDiscovery(q.name, q.type) => q.name.host = Null
    /\ q.type \in {"A", "AAAA"} => q.name.type = Null

\* A question that is remembered, so that q is answered with a
Remembers(x, q, a) ==
  IF IsDiscovery(q.name, q.type)
    THEN x.type = "SDPTR" /\ x.name = Name(Null, Services[a.service].type, FALSE)
  ELSE x.name = q.name /\ x.type = q.type

\* A known answer of ours strikes off the question that a answers, or may.  Of an
\* address it is only the type that counts, of a PTR record the type of service;
\* SRV and TXT strike off the question about the first service of the type.
MayStrike(r, a) ==
  LET k == Says(a) IN
  /\ r.type = k.type /\ r.name.type = k.name.type
  /\ r.name = DiscoveryName => r = k
  /\ r.type \in {"SRV", "TXT"} => k.name.host = Services[ServiceItem(k.name.type)].instance

StruckOff(q, a) == q.type # "ANY" /\ \E r \in known : MayStrike(r, a)

\* _mdns_append_host_list leaves the first delegated host out.
Skipped(q, a) ==
  q.type = "ANY" /\ q.name.type = Null /\ Delegated # <<>> /\ a.host = Delegated[1]

\* Whatever is asked for is sent, unless an answer of the same kind is known to the
\* asker, also with subtypes, several services of a type and delegated hosts.
Answered ==
  phase = "done" =>
    \A q \in asked : IsOurs(q.name) \/ IsDiscovery(q.name, q.type) =>
      \A a \in Asked(q) : a \in Sent \/ StruckOff(q, a) \/ Skipped(q, a)

Waiting ==
  \A q \in asked : IsOurs(q.name) \/ IsDiscovery(q.name, q.type) =>
    \A a \in Asked(q) :
      StruckOff(q, a) \/ \E i \in DOMAIN questions : Remembers(questions[i], q, a)

AnsweredInv == AnswersInv /\ known \subseteq OurRecords /\ Waiting /\ Answered

\* The known answer that strikes a question off
Strike(x) == Says(OutAnswer(x.type, ServiceItem(x.name.type), x.name.host))

\* Questions that are never struck off, or for another
NotStruck == \E q \in asked : q.type \in {"ANY", "other"} \/ q.name.sub \/ Several(q)

NotTwice ==
  \A i, j \in DOMAIN questions :
    questions[i].name = questions[j].name /\ questions[i].type = questions[j].type => i = j

SilentInv ==
  /\ AnswersInv /\ NotTwice
  /\ phase = "questions" => known = {}
  /\ \A i \in DOMAIN questions : questions[i].type = "SDPTR" => discovery
  /\ NotStruck \/ \A i \in DOMAIN questions : Strike(questions[i]) \notin known
  /\ Silent

=============================================================================
