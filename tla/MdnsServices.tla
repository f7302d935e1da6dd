---------------------------- MODULE MdnsServices ----------------------------
(***************************************************************************)
(* The service table of components/mdns/mdns.c and the calls by which      *)
(* applications change it: mdns_service_add waits until the service is in  *)
(* the table, the other calls look an item of the table up and post its    *)
(* address to the service task, which changes the table later, in the      *)
(* order of the action queue.                                              *)
(*                                                                         *)
(* The callers take no lock.  They walk along the list node by node, and   *)
(* post the action in another step; meanwhile, and while the action waits  *)
(* on the queue, the service task may free the item.                       *)
(*                                                                         *)
(* Names are left out: which item matches instance, type and host is left  *)
(* open at every node.  Instances that are not given, conflicts, renamed   *)
(* instances and renamed hosts make that any item.  Of the rest of an item *)
(* only its address is kept, which malloc hands out again.                 *)
(***************************************************************************)
EXTENDS Naturals, Sequences, FiniteSets

CONSTANTS Tasks,        \* tasks of the application
          Items,        \* addresses of items
          MaxServices,  \* MDNS_MAX_SERVICES
          QLen,         \* MDNS_ACTION_QUEUE_LEN
          Timeout,      \* MDNS_SERVICE_ADD_TIMEOUT_MS
          MaxCalls,     \* bound on the calls, and on the posts of anybody else
          None

ASSUME ServicesAssumption ==
  /\ MaxServices \in Nat \ {0} /\ QLen \in Nat \ {0} /\ Timeout \in Nat
  /\ MaxCalls \in Nat
  /\ None \notin Items

VARIABLES
  fresh,   \* the addresses that malloc has not handed out yet
  used,    \* those of allocated items
  list,    \* _mdns_server->services
  queue,   \* the action queue
  at,      \* where each task is
  cur,     \* the node it looks at next: s of _mdns_get_service_item_instance
  seen,    \* how many it has counted: service_num
  call,    \* what it does: type and item of its action
  left,    \* how long it may wait
  calls    \* how many calls have begun, and posts of anybody else

VARIABLES
  unsure,  \* the tasks that do not know yet that what they removed is gone
  hasty    \* a call and a removal have overlapped

walk == <<at, cur, seen, call, left>>
vars == <<fresh, used, list, queue, walk, calls, unsure, hasty>>

Action(type, obj) == [type |-> type, obj |-> obj]

NoCall == Action("none", None)

Removals == {"del", "clear", "host"}

\* xQueueSend without waiting
Room == Len(queue) < QLen

\* What malloc may hand out: an address that has been freed, or one more; one that
\* was never used is as good as another.
Available == (Items \ (used \cup fresh)) \cup {i \in fresh : i = CHOOSE j \in fresh : TRUE}

Listed == {list[n] : n \in DOMAIN list}

First == IF list = <<>> THEN None ELSE Head(list)

\* The next field of an item
After(i) == LET n == CHOOSE n \in DOMAIN list : list[n] = i IN
            IF n = Len(list) THEN None ELSE list[n + 1]

Init ==
  /\ fresh = Items /\ used = {} /\ list = <<>> /\ queue = <<>>
  /\ at = [t \in Tasks |-> "idle"] /\ cur = [t \in Tasks |-> None]
  /\ seen = [t \in Tasks |-> 0] /\ call = [t \in Tasks |-> NoCall]
  /\ left = [t \in Tasks |-> 0]
  /\ calls = 0
  /\ unsure = {} /\ hasty = FALSE

-----------------------------------------------------------------------------
(* The steps of the callers.                                                *)

Goes(t, place, i) == at' = [at EXCEPT ![t] = place] /\ cur' = [cur EXCEPT ![t] = i]

Stays == UNCHANGED <<call, left>>

Ends(t) ==
  /\ Goes(t, "idle", None)
  /\ seen' = [seen EXCEPT ![t] = 0] /\ call' = [call EXCEPT ![t] = NoCall]
  /\ left' = [left EXCEPT ![t] = 0]

\* A call overlaps a removal if that is not known to have been executed, or if
\* it begins while the call is under way.
Begins(t, place, type) ==
  /\ at[t] = "idle" /\ calls < MaxCalls
  /\ Goes(t, place, IF place = "post" THEN None ELSE First)
  /\ call' = [call EXCEPT ![t] = Action(type, None)]
  /\ calls' = calls + 1
  /\ unsure' = IF type \in Removals THEN unsure \cup {t} ELSE unsure
  /\ hasty' = (\/ hasty \/ unsure # {}
               \/ type \in Removals /\ \E u \in Tasks \ {t} : at[u] \notin {"idle", "notify"})
  /\ UNCHANGED <<fresh, used, list, queue, seen, left>>

\* mdns_service_add_for_host
ServiceAdd(t) == Begins(t, "count", "add")

\* mdns_service_port_set_for_host, _txt_set_for_host, _txt_item_set_for_host_
\* with_explicit_value_len, _txt_item_remove_for_host, _subtype_add_for_host and
\* _instance_name_set_for_host, ...
Change(t) == list # <<>> /\ Begins(t, "look", "set")

\* ... _remove_for_host, ...
ServiceRemove(t) == list # <<>> /\ Begins(t, "look", "del")

\* ... _exists_with_instance, ...
ServiceExists(t) == Begins(t, "look", "exists")

\* ... _remove_all, ...
RemoveAll(t) == list # <<>> /\ Begins(t, "post", "clear")

\* and mdns_delegate_hostname_remove, which removes all services of that host
HostRemove(t) == Begins(t, "post", "host")

\* Mutant: the action is put in front of the queue.
HostnameSetFirst(t) ==
  /\ at[t] = "idle" /\ calls < MaxCalls
  /\ Room
  /\ queue' = <<Action("name", t)>> \o queue
  /\ at' = [at EXCEPT ![t] = "notify"]
  /\ calls' = calls + 1
  /\ UNCHANGED <<fresh, used, list, cur, seen, call, left, unsure, hasty>>

\* mdns_hostname_set is the only call that waits for the service task.
HostnameSet(t) ==
  /\ at[t] = "idle" /\ calls < MaxCalls
  /\ Room
  /\ queue' = Append(queue, Action("name", t))
  /\ at' = [at EXCEPT ![t] = "notify"]
  /\ calls' = calls + 1
  /\ UNCHANGED <<fresh, used, list, cur, seen, call, left, unsure, hasty>>

Call(t) ==
  \/ ServiceAdd(t) \/ Change(t) \/ ServiceRemove(t) \/ ServiceExists(t) \/ RemoveAll(t) \/ HostRemove(t)
  \/ HostnameSet(t)


\* _mdns_can_add_more_services
Count(t) ==
  /\ at[t] = "count"
  /\ IF cur[t] = None THEN Goes(t, "look", First) /\ UNCHANGED seen /\ Stays
     ELSE IF seen[t] + 1 >= MaxServices THEN Ends(t)
     ELSE /\ Goes(t, "count", After(cur[t])) /\ Stays
          /\ seen' = [seen EXCEPT ![t] = @ + 1]
  /\ UNCHANGED <<fresh, used, list, queue, calls, unsure, hasty>>

\* One node of _mdns_get_service_item_instance: another service
Passes(t) ==
  /\ at[t] \in {"look", "poll"} /\ cur[t] # None
  /\ Goes(t, at[t], After(cur[t]))
  /\ UNCHANGED <<fresh, used, list, queue, seen, call, left, calls, unsure, hasty>>

\* It is the one: that is the end of mdns_service_exists and mdns_service_add,
\* whether it has looked for a service that must not be there or waited for it.
\* The other calls go on with its address.
Finds(t) ==
  /\ at[t] \in {"look", "poll"} /\ cur[t] # None
  /\ IF call[t].type \in {"add", "exists"} THEN Ends(t)
     ELSE /\ Goes(t, "post", None) /\ UNCHANGED <<seen, left>>
          /\ call' = [call EXCEPT ![t].obj = cur[t]]
  /\ UNCHANGED <<fresh, used, list, queue, calls, unsure, hasty>>

\* There is no such service: an item is allocated and filled, ...
Allocates(t) ==
  /\ at[t] = "look" /\ cur[t] = None /\ call[t].type = "add"
  /\ \E i \in Available :
       /\ used' = used \cup {i} /\ fresh' = fresh \ {i}
       /\ call' = [call EXCEPT ![t].obj = i]
  /\ Goes(t, "post", None)
  /\ UNCHANGED <<list, queue, seen, left, calls, unsure, hasty>>

\* ... or the call fails, as an addition does without memory.
FindsNone(t) ==
  /\ at[t] = "look" /\ cur[t] = None
  /\ Ends(t)
  /\ UNCHANGED <<fresh, used, list, queue, calls, unsure, hasty>>

\* The action is posted.  Only an addition waits, until the service is there.
Post(t) ==
  /\ at[t] = "post" /\ Room
  /\ queue' = Append(queue, call[t])
  /\ IF call[t].type = "add"
     THEN /\ Goes(t, "added", None) /\ UNCHANGED <<seen, call>>
          /\ left' = [left EXCEPT ![t] = Timeout]
     ELSE Ends(t)
  /\ UNCHANGED <<fresh, used, list, calls, unsure, hasty>>

\* Mutant: nobody frees the item.
PostFailsForgets(t) ==
  /\ at[t] = "post"
  /\ Ends(t)
  /\ UNCHANGED <<fresh, used, list, queue, calls, unsure, hasty>>

\* There is no room, or no memory for the action: the item of an addition is
\* freed again.
PostFails(t) ==
  /\ at[t] = "post"
  /\ Ends(t)
  /\ used' = IF call[t].type = "add" THEN used \ {call[t].obj} ELSE used
  /\ UNCHANGED <<fresh, list, queue, calls, unsure, hasty>>

\* The caller of mdns_service_add looks for the service ...
Poll(t) ==
  /\ at[t] = "added"
  /\ Goes(t, "poll", First)
  /\ UNCHANGED <<fresh, used, list, queue, seen, call, left, calls, unsure, hasty>>

\* Mutant: it does so until it is there.
PollsOnForEver(t) ==
  /\ at[t] = "poll" /\ cur[t] = None
  /\ Goes(t, "added", None) /\ UNCHANGED <<seen, call, left>>
  /\ UNCHANGED <<fresh, used, list, queue, calls, unsure, hasty>>

\* ... until the time is over: ESP_FAIL.  Its action may still be pending.
PollsOn(t) ==
  /\ at[t] = "poll" /\ cur[t] = None
  /\ IF left[t] = 0 THEN Ends(t) ELSE Goes(t, "added", None) /\ UNCHANGED <<seen, call, left>>
  /\ UNCHANGED <<fresh, used, list, queue, calls, unsure, hasty>>

Continue(t) ==
  \/ Count(t) \/ Passes(t) \/ Finds(t) \/ Allocates(t) \/ FindsNone(t)
  \/ Post(t) \/ PostFails(t) \/ Poll(t) \/ PollsOn(t)

\* Anybody else posts an action that frees no item: events and packets.
Other ==
  /\ calls < MaxCalls /\ Room
  /\ calls' = calls + 1
  /\ queue' = Append(queue, Action("other", None))
  /\ UNCHANGED <<fresh, used, list, walk, unsure, hasty>>

-----------------------------------------------------------------------------
(* _mdns_execute_action for the action at the head of the queue.            *)

Executes(types) ==
  /\ queue # <<>> /\ Head(queue).type \in types
  /\ queue' = Tail(queue)
  /\ UNCHANGED <<fresh, cur, seen, call, left, calls, hasty>>

This == Head(queue).obj

\* ACTION_SERVICE_ADD
ExecuteAdd ==
  /\ Executes({"add"})
  /\ list' = <<This>> \o list
  /\ UNCHANGED <<used, at, unsure>>

\* ACTION_SERVICE_PORT_SET, INSTANCE_SET, SUBTYPE_ADD, TXT_REPLACE, TXT_SET and
\* TXT_DEL write to the item; the others do not concern the services.
ExecuteSet ==
  /\ Executes({"set", "other"})
  /\ UNCHANGED <<used, list, at, unsure>>

\* The n-th item is unlinked and freed.
Unlinks(n) ==
  /\ list' = SubSeq(list, 1, n - 1) \o SubSeq(list, n + 1, Len(list))
  /\ used' = used \ {list[n]}
  /\ UNCHANGED <<at, unsure>>

\* ACTION_SERVICE_DEL; it does nothing if the item is not in the table.
ExecuteDel ==
  /\ Executes({"del"})
  /\ IF This \in Listed THEN \E n \in DOMAIN list : list[n] = This /\ Unlinks(n)
                        ELSE UNCHANGED <<used, list, at, unsure>>

\* ACTION_SERVICES_CLEAR
ExecuteClear ==
  /\ Executes({"clear"})
  /\ list' = <<>> /\ used' = used \ Listed
  /\ UNCHANGED <<at, unsure>>

\* ACTION_DELEGATE_HOSTNAME_REMOVE goes through the table and removes one item
\* of that host after the other ...
RemoveOfHost ==
  /\ queue # <<>> /\ Head(queue).type = "host"
  /\ \E n \in DOMAIN list : Unlinks(n)
  /\ UNCHANGED <<fresh, queue, cur, seen, call, left, calls, hasty>>

\* ... until there is none.
ExecuteHost == Executes({"host"}) /\ UNCHANGED <<used, list, at, unsure>>

\* ACTION_HOSTNAME_SET notifies the caller, who now knows that what it posted
\* before has been executed.
ExecuteName ==
  /\ Executes({"name"})
  /\ at' = [at EXCEPT ![This] = "idle"]
  /\ unsure' = unsure \ {This}
  /\ UNCHANGED <<used, list>>

Execute ==
  \/ ExecuteAdd \/ ExecuteSet \/ ExecuteDel \/ ExecuteClear
  \/ RemoveOfHost \/ ExecuteHost \/ ExecuteName

-----------------------------------------------------------------------------
Polling == {t \in Tasks : at[t] \in {"added", "poll"} /\ left[t] > 0}

Tick ==
  /\ Polling # {}
  /\ left' = [t \in Tasks |-> IF t \in Polling THEN left[t] - 1 ELSE left[t]]
  /\ UNCHANGED <<fresh, used, list, queue, at, cur, seen, call, calls, unsure, hasty>>

Steps ==
  \/ \E t \in Tasks : Call(t) \/ Continue(t)
  \/ Other \/ Execute \/ Tick

\* What the next step of a walk reads, or the next action writes to, has been
\* freed, or ACTION_SERVICE_DEL follows the NULL of an empty table.
Stray ==
  \/ \E t \in Tasks : cur[t] \notin used \cup {None}
  \/ /\ queue # <<>>
     /\ \/ Head(queue).type = "set" /\ This \notin used
        \/ Head(queue).type = "del" /\ list = <<>>

\* The behaviour ends there: what comes of it is not defined.
Next ==
  \/ ~Stray /\ Steps
  \/ Stray /\ UNCHANGED vars

\* The service task and the callers run, and time passes.
Fairness ==
  /\ WF_vars(~Stray /\ Execute) /\ WF_vars(~Stray /\ Tick)
  /\ \A t \in Tasks : WF_vars(~Stray /\ Continue(t))

Spec == Init /\ [][Next]_vars /\ Fairness

=============================================================================
