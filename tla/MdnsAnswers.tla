---------------------------- MODULE MdnsAnswers ----------------------------
(***************************************************************************)
(* How components/mdns/mdns.c reads a query and what it answers            *)
(* (mdns_parse_packet and _mdns_create_answer_from_parsed_packet): each    *)
(* question about a name of ours is remembered, an answer that the asker   *)
(* knows already strikes a question off, and the rest is answered.         *)
(*                                                                         *)
(* A name has a host (of a name with a service type this is an instance or *)
(* a subtype) and a type, service and protocol together; either may be     *)
(* missing (Null).  The server has finished probing.  It has a host name,  *)
(* and every service an instance name and a host, the server itself or a   *)
(* delegated one.  Queries come from the mDNS port; known answers come     *)
(* with our data, in packets that are no probes, and may be repeated.      *)
(* Whether a reply is sent at once or scheduled is left to MdnsResponder.  *)
(***************************************************************************)
EXTENDS Naturals, Sequences, FiniteSets, SequencesExt

CONSTANTS Services,     \* the table: instance, type, subtypes and host of each
          Self,         \* the host name of the server
          Delegated,    \* the delegated hosts, in the order of their list
          Queries,      \* the questions that come in
          MaxQuestions, \* bound on the questions of a packet
          MaxKnown,     \* bound on the known answers of a packet
          Null

Table == DOMAIN Services
Hosts == {Self} \cup ToSet(Delegated)

Types == {"PTR", "SRV", "TXT", "A", "AAAA", "ANY", "other"}

Name(host, type, sub) == [host |-> host, type |-> type, sub |-> sub]

\* _services._dns-sd._udp
DiscoveryName == Name("_services", "_dns-sd", FALSE)

ASSUME AnswersAssumption ==
  /\ Len(Services) \in Nat /\ Table = 1 .. Len(Services) /\ Delegated \in Seq(Hosts)
  /\ DiscoveryName.type # Null
  /\ \A s \in Table :
       /\ Services[s].host \in Hosts /\ Services[s].type \notin {Null, DiscoveryName.type}
       \* an instance that is called like a subtype is taken for it
       /\ \A r \in Table : {Null, Services[s].instance} \cap Services[r].subtypes = {}
  /\ \A q \in Queries :
       /\ q.name = Name(q.name.host, q.name.type, q.name.sub) /\ q.name.sub \in BOOLEAN
       /\ q.type \in Types /\ q.unicast \in BOOLEAN
  /\ MaxQuestions \in Nat /\ MaxKnown \in Nat

VARIABLES
  phase,      \* what is being read: questions, records, or nothing any more, as it is
              \* done or has crashed
  questions,  \* parsed_packet->questions, the last question first
  discovery,  \* parsed_packet->discovery
  probe,      \* parsed_packet->probe
  asked,      \* the questions of the packet
  known,      \* its known answers
  read,       \* how many of them have been read
  reply       \* the packet that is sent: answers, additional, to

answersVars == <<phase, questions, discovery, probe, asked, known, read, reply>>

NoReply == [answers |-> {}, additional |-> {}, to |-> Null]

AnswersInit ==
  /\ phase = "questions" /\ questions = <<>>
  /\ discovery = FALSE /\ probe = FALSE
  /\ asked = {} /\ known = {} /\ read = 0 /\ reply = NoReply

-----------------------------------------------------------------------------
(* The names of the server.                                                 *)

FirstOf(ss) == IF ss = {} THEN 0 ELSE Min(ss)

\* _mdns_get_service_item and _mdns_get_service_item_instance: 0 is NULL
ServiceItem(type) == FirstOf({s \in Table : Services[s].type = type})

ServiceItemInstance(host, type) ==
  IF host = Null THEN ServiceItem(type)
  ELSE FirstOf({s \in Table : Services[s].type = type /\ Services[s].instance = host})

ServiceItemSubtype(sub, type) ==
  FirstOf({s \in Table : Services[s].type = type /\ sub \in Services[s].subtypes})

\* _mdns_name_is_discovery
IsDiscovery(name, type) == name = DiscoveryName /\ type = "PTR"

\* _mdns_name_is_ours
IsOurs(name) ==
  IF name.type = Null THEN name.host \in Hosts
  ELSE IF name.sub THEN ServiceItemSubtype(name.host, name.type) # 0
  ELSE ServiceItemInstance(name.host, name.type) # 0

-----------------------------------------------------------------------------
(* mdns_parse_packet.                                                       *)

Parsed(name, type, unicast) == [name |-> name, type |-> type, unicast |-> unicast]

\* For a discovery question one question per service goes in front of the
\* others, so that they end up in the opposite order.
Discover(unicast) ==
  questions' = Reverse([s \in Table |-> Parsed(Name(Null, Services[s].type, FALSE), "SDPTR", unicast)])
                 \o questions

\* The same is not asked twice in a packet.
Question(q) ==
  /\ phase = "questions" /\ Cardinality(asked) < MaxQuestions
  /\ \A p \in asked : p.name # q.name \/ p.type # q.type
  /\ asked' = asked \cup {q}
  /\ IF IsDiscovery(q.name, q.type)
       THEN Discover(q.unicast) /\ discovery' = TRUE /\ UNCHANGED probe
     ELSE IF IsOurs(q.name)
       THEN /\ questions' = <<Parsed(q.name, q.type, q.unicast)>> \o questions
            /\ probe' = (probe \/ (q.type = "ANY" /\ q.name.host # Null))
            /\ UNCHANGED discovery
     ELSE UNCHANGED <<questions, discovery, probe>>
  /\ UNCHANGED <<phase, known, read, reply>>

\* The records begin, unless nobody asked for anything of ours.
Records ==
  /\ phase = "questions" /\ asked # {}
  /\ phase' = "records"
  /\ UNCHANGED <<questions, discovery, probe, asked, known, read, reply>>

\* Mutant: any question of the type.
MatchesType(q, type, s) == q.type = type

\* _mdns_question_matches; it does not matter whether the question is about a
\* subtype.
QuestionMatches(q, type, s) ==
  /\ q.type = type
  /\ \/ type \in {"A", "AAAA"}
     \/ type \in {"PTR", "SDPTR"} /\ q.name.type = Services[s].type
     \/ /\ type \in {"SRV", "TXT"} /\ s # 0
        /\ q.name.host = Services[s].instance /\ q.name.type = Services[s].type

\* Mutant: only the first question is looked at.
RemoveOnlyFirst(type, s) ==
  IF questions # <<>> /\ QuestionMatches(questions[1], type, s)
    THEN questions' = Tail(questions) ELSE UNCHANGED questions

\* _mdns_remove_parsed_question: the first question that matches
RemoveParsedQuestion(type, s) ==
  LET i == FirstOf({j \in DOMAIN questions : QuestionMatches(questions[j], type, s)}) IN
  questions' = IF i = 0 THEN questions ELSE RemoveAt(questions, i)

\* A record has a name, a type and, if that is PTR, another name as its data.
Record(name, type, data) == [name |-> name, type |-> type, data |-> data]

\* An answer to a discovery question about a type of ours is looked for even if
\* no question is left: _mdns_question_matches reads from NULL.
ReadsNull(r) ==
  discovery /\ IsDiscovery(r.name, r.type) /\ IsOurs(r.data) /\ questions = <<>>

Strikes(r) ==
  IF discovery /\ IsDiscovery(r.name, r.type)
    THEN IF IsOurs(r.data) THEN RemoveParsedQuestion("SDPTR", ServiceItem(r.data.type))
         ELSE UNCHANGED questions
  ELSE IF r.name.sub \/ ~IsOurs(r.name) \/ questions = <<>>
    THEN UNCHANGED questions
  ELSE IF r.type = "PTR" /\ ~IsOurs(r.data) THEN UNCHANGED questions
  ELSE RemoveParsedQuestion(r.type, ServiceItem(r.name.type))

KnownAnswer(r) ==
  /\ phase = "records" /\ ~probe /\ read < MaxKnown
  /\ known' = known \cup {r} /\ read' = read + 1
  /\ IF ReadsNull(r) THEN phase' = "crashed" /\ UNCHANGED questions
                     ELSE Strikes(r) /\ UNCHANGED phase
  /\ UNCHANGED <<discovery, probe, asked, reply>>

\* Our records, which an asker may know
OurRecords ==
  (UNION {LET n == Services[s] IN
          {Record(Name(Null, n.type, FALSE), "PTR", Name(n.instance, n.type, FALSE)),
           Record(DiscoveryName, "PTR", Name(Null, n.type, FALSE)),
           Record(Name(n.instance, n.type, FALSE), "SRV", Null),
           Record(Name(n.instance, n.type, FALSE), "TXT", Null)} : s \in Table})
    \cup {Record(Name(h, Null, FALSE), type, Null) : h \in Hosts, type \in {"A", "AAAA"}}

-----------------------------------------------------------------------------
(* _mdns_create_answer_from_parsed_packet.                                  *)

\* An answer; service and host are 0 and Null when they are NULL.
OutAnswer(type, s, host) == [type |-> type, service |-> s, host |-> host]

Addresses(s, host) == {OutAnswer("A", s, host), OutAnswer("AAAA", s, host)}

\* Mutant: the type does not matter.
MatchAnyType(s, q) ==
  /\ q.name.sub => q.name.host \in Services[s].subtypes
  /\ ~q.name.sub /\ q.name.host # Null => q.name.host = Services[s].instance

\* _mdns_service_match_ptr_question
ServiceMatchPtrQuestion(s, q) ==
  /\ Services[s].type = q.name.type
  /\ q.name.sub => q.name.host \in Services[s].subtypes
  /\ ~q.name.sub /\ q.name.host # Null => q.name.host = Services[s].instance

Answers(answers, additional) == [answers |-> answers, additional |-> additional]

\* _mdns_create_answer_from_service
FromService(s, q, shared) ==
  LET host == Services[s].host
      own(types) == {OutAnswer(type, s, Null) : type \in types} IN
  CASE q.type \in {"PTR", "ANY"} ->
         IF shared THEN Answers(own({"PTR", "SRV", "TXT"}), Addresses(s, host))
         ELSE Answers(own({"PTR", "SRV", "TXT"}) \cup Addresses(s, host), {})
    [] q.type = "SRV"            -> Answers(own({"SRV"}), Addresses(s, host))
    [] q.type \in {"TXT", "SDPTR"} -> Answers(own({q.type}), {})
    [] OTHER                     -> Answers({}, {})

\* _mdns_append_host_list goes on to the next delegated host before it appends
\* one: the first one is left out, and NULL comes last.
HostList ==
  Addresses(0, Self)
    \cup (UNION {Addresses(0, Delegated[i]) : i \in 2 .. Len(Delegated)})
    \cup (IF Delegated = <<>> THEN {} ELSE Addresses(0, Null))

\* What one question adds to the packet
FromQuestion(q) ==
  LET shared == q.type \in {"PTR", "SDPTR"} \/ ~probe IN
  IF q.type \in {"SRV", "TXT"}
    THEN LET s == ServiceItemInstance(q.name.host, q.name.type) IN
         IF s = 0 THEN Answers({}, {}) ELSE FromService(s, q, shared)
  ELSE IF q.name.type # Null
    THEN LET from == {FromService(s, q, shared) : s \in {t \in Table : ServiceMatchPtrQuestion(t, q)}} IN
         Answers(UNION {a.answers : a \in from}, UNION {a.additional : a \in from})
  ELSE CASE q.type \in {"A", "AAAA"} -> Answers(Addresses(0, q.name.host), {})
         [] q.type = "ANY"           -> Answers(HostList, {})
         [] OTHER                    -> Answers({OutAnswer(q.type, 0, Null)}, {})

\* A question about a service that is not found stops everything.
NotFound(q) == q.type \in {"SRV", "TXT"} /\ ServiceItemInstance(q.name.host, q.name.type) = 0

Reply ==
  /\ phase = "records"
  /\ phase' = "done"
  /\ LET all == {FromQuestion(questions[i]) : i \in DOMAIN questions}
         unicast == \E i \in DOMAIN questions : questions[i].unicast IN
     reply' = IF questions = <<>> \/ \E i \in DOMAIN questions : NotFound(questions[i]) THEN NoReply
              ELSE [answers    |-> UNION {a.answers : a \in all},
                    additional |-> UNION {a.additional : a \in all},
                    to         |-> IF unicast THEN "asker" ELSE "group"]
  /\ UNCHANGED <<questions, discovery, probe, asked, known, read>>

\* The next packet; what was parsed of the last one is freed, or the device has
\* been restarted.
NextPacket ==
  /\ phase \in {"done", "crashed"}
  /\ phase' = "questions" /\ questions' = <<>> /\ discovery' = FALSE /\ probe' = FALSE
  /\ asked' = {} /\ known' = {} /\ read' = 0 /\ reply' = NoReply

AnswersNext ==
  \/ \E q \in Queries \ asked : Question(q)
  \/ \E r \in OurRecords : KnownAnswer(r)
  \/ Records \/ Reply \/ NextPacket

AnswersSpec == AnswersInit /\ [][AnswersNext]_answersVars

=============================================================================
