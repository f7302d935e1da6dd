-------------------------- MODULE MdnsServicesInv --------------------------
(* What makes the service table correct.                                    *)
EXTENDS MdnsServices

Actions ==
  [type : {"none", "add", "set", "del", "clear", "host", "exists", "name", "other"},
   obj : Items \cup Tasks \cup {None}]

\* The types of the variables.
ServTypeOK ==
  /\ fresh \subseteq Items /\ used \subseteq Items \ fresh /\ list \in Seq(Items)
  /\ queue \in Seq(Actions) /\ Len(queue) <= QLen
  /\ at \in [Tasks -> {"idle", "count", "look", "post", "added", "poll", "notify"}]
  /\ cur \in [Tasks -> Items \cup {None}] /\ seen \in [Tasks -> Nat]
  /\ call \in [Tasks -> Actions] /\ left \in [Tasks -> 0 .. Timeout]
  /\ calls \in Nat
  /\ unsure \subseteq Tasks /\ hasty \in BOOLEAN

\* Where an item is accounted for: positions of the table, ADD actions on the
\* queue, and callers that have not posted it yet
InList(i)  == {n \in DOMAIN list : list[n] = i}
InQueue(i) == {n \in DOMAIN queue : queue[n] = Action("add", i)}
InHand(i)  == {t \in Tasks : at[t] = "post" /\ call[t] = Action("add", i)}

\* Every item that is allocated has one owner, whatever fails: it is in the
\* table once, or on its way there, or with its caller.  None is lost when the
\* queue is full, and none is freed while somebody still has it.
OneOwner ==
  \A i \in Items :
    Cardinality(InList(i)) + Cardinality(InQueue(i)) + Cardinality(InHand(i))
      = IF i \in used THEN 1 ELSE 0

\* That is inductive with the types, ...
OwnedOnce(inList, inQueue, inHand, free) ==
  /\ \A places \in {inList, inQueue, inHand} : \A x, y \in places : x = y
  /\ inList = {} \/ inQueue = {}
  /\ inList = {} \/ inHand = {}
  /\ inQueue = {} \/ inHand = {}
  /\ free <=> inList = {} /\ inQueue = {} /\ inHand = {}

Owned(i) == OwnedOnce(InList(i), InQueue(i), InHand(i), i \notin used)

\* ... with what an action carries, with one notification for a task, and with
\* where the walks are: at an item of the table, or at one that was, and then all
\* ends before it can be allocated again.
Carries(x) ==
  /\ x.type = "add"  => x.obj \in Items
  /\ x.type = "name" => x.obj \in Tasks /\ at[x.obj] = "notify"

CarriesAll ==
  /\ \A n \in DOMAIN queue : Carries(queue[n])
  /\ \A t \in Tasks : at[t] = "post" /\ call[t].type = "add" => call[t].obj \in Items
  /\ \A t \in Tasks : call[t].type # "name"

NotifiedOnce ==
  \A m, n \in DOMAIN queue :
    queue[m].type = "name" /\ queue[n].type = "name" /\ queue[m].obj = queue[n].obj => m = n

Walks == \A t \in Tasks : cur[t] \in Listed \cup (Items \ used) \cup {None}

OwnerInv ==
  ServTypeOK /\ (\A i \in Items : Owned(i)) /\ CarriesAll /\ NotifiedOnce /\ Walks

\* An action that has the address of an item that was looked up
Points(x) == x.type \in {"set", "del"} /\ x.obj # None

\* Nobody has the address of an item that may have been freed, be it a walk, a
\* caller or an action on the queue, as long as a task that removes something
\* calls mdns_hostname_set before anybody calls anything else.
ActionsLive ==
  ~hasty =>
    /\ \A t \in Tasks : cur[t] \in Listed \cup {None}
    /\ \A t \in Tasks : Points(call[t]) => call[t].obj \in Listed
    /\ \A n \in DOMAIN queue : Points(queue[n]) => queue[n].obj \in Listed

\* That is inductive with what is known of a removal: ...
Quiet(t) == at[t] \in {"idle", "notify"}

Removing(t) == ~Quiet(t) /\ call[t].type \in Removals

RemovalAt == {n \in DOMAIN queue : queue[n].type \in Removals}

\* ... nobody looks at anything when it is on the queue; nothing behind it has
\* an address, and before its task is notified it has been executed.
RemovalsAlone ==
  /\ unsure = {} => RemovalAt = {} /\ \A t \in Tasks : ~Removing(t)
  /\ \A t \in unsure : /\ \A u \in Tasks \ {t} : Quiet(u) /\ u \notin unsure
                       /\ Quiet(t) \/ (Removing(t) /\ RemovalAt = {})
  /\ \A n \in RemovalAt : \A m \in DOMAIN queue :
       m > n => ~Points(queue[m]) /\ m \notin RemovalAt
  /\ \A n \in RemovalAt : \A m \in DOMAIN queue :
       queue[m].type = "name" /\ queue[m].obj \in unsure => n < m

\* A task that does nothing has no address.
Idle == \A t \in Tasks : Quiet(t) => cur[t] = None /\ ~Points(call[t])

LiveInv == Idle /\ ActionsLive /\ (~hasty => RemovalsAlone)

\* Without that, it does happen.
NeverStray == ~Stray


WithinMaximum == Len(list) <= MaxServices

\* Every call returns, unless something stray has been read: an addition that
\* has not shown up by MDNS_SERVICE_ADD_TIMEOUT_MS is given up.
CallsEnd == <>[](Stray \/ \A t \in Tasks : at[t] = "idle")

=============================================================================
