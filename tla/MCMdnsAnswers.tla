--------------------------- MODULE MCMdnsAnswers ---------------------------
(* Queries for services, one with a subtype and two of a type, and their host. *)
EXTENDS MdnsAnswersInv, TLC

MCServices ==
  <<[instance |-> "web", type |-> "http", subtypes |-> {"printer"}, host |-> "esp"],
    [instance |-> "log", type |-> "syslog", subtypes |-> {}, host |-> "esp"],
    [instance |-> "raw", type |-> "syslog", subtypes |-> {}, host |-> "esp"]>>

Ask(name, type, unicast) == [name |-> name, type |-> type, unicast |-> unicast]

TypeName(type) == Name(Null, type, FALSE)

\* Types are browsed, instances resolved, hosts looked up.
MCQueries ==
  {Ask(TypeName(type), "PTR", FALSE) : type \in {"http", "syslog", "smb"}}
    \cup {Ask(Name("printer", "http", TRUE), "PTR", FALSE), Ask(DiscoveryName, "PTR", FALSE)}
    \cup {Ask(Name("web", "http", FALSE), t, u) : t \in {"SRV", "TXT", "ANY"}, u \in BOOLEAN}
    \cup {Ask(Name(i, "syslog", FALSE), "SRV", FALSE) : i \in {"log", "raw"}}
    \cup {Ask(Name("log", "syslog", FALSE), "other", FALSE)}
    \cup {Ask(Name(h, Null, FALSE), t, FALSE) : h \in {"esp", "pc"}, t \in {"A", "AAAA", "ANY", "other"}}

MCDelegated == <<>>

\* What the theorems suppose holds here.
ASSUME TheoremsApply ==
  /\ InstancesAsked /\ OneAnswers
  /\ Queries = MCQueries => AsResolversAsk

\* All about two services of a type, and about delegated hosts
MCTwoDelegated == <<"lamp", "lock">>

SharedQueries ==
  MCQueries
    \cup {Ask(Name("log", "syslog", FALSE), t, FALSE) : t \in {"SRV", "TXT", "PTR", "ANY"}}
    \cup {Ask(Name(h, Null, FALSE), t, FALSE) : h \in {"lamp", "lock"}, t \in {"A", "ANY"}}

=============================================================================
