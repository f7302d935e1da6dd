---------------------------- MODULE MdnsEngineInv ----------------------------
(* What makes the queues, the timer and the searches of mDNS correct.       *)
EXTENDS MdnsEngine

Packets == [wait : Int, sends : Nat, queued : BOOLEAN, pcb : Pcbs \cup {None}]

Searches == [state : {"OFF", "INIT", "RUNNING"}, left : Int, age : Int, num : Nat,
             done : BOOLEAN, live : BOOLEAN]

\* The types of the variables.
EngineTypeOK ==
  /\ queue \in Seq(Actions) /\ Len(queue) <= QLen
  /\ current \in Actions \cup {None}
  /\ tx \in Seq(Addrs) /\ packet \in [Addrs -> Packets]
  /\ chain \in Seq(Callers) /\ search \in [Callers -> Searches]
  /\ timer \in {"tx", "search"}
  /\ at \in [Callers -> {"idle", "sync", "async", "host", "notified", "taken", "delete"}]
  /\ calls \in [Callers -> 0 .. MaxCalls] /\ posts \in 0 .. MaxPosts

\* The transmit queue is in the order of send_at and names no packet twice.
TxSorted ==
  \A i, j \in DOMAIN tx : i < j => tx[i] # tx[j] /\ packet[tx[i]].wait <= packet[tx[j]].wait

\* Where the packets are that have been put on the action queue
QueuedIn(q) == {i \in DOMAIN q : packet[q[i]].queued}

\* ACTION_TX_HANDLE skips a packet that is not the head of the queue, and the
\* timer passes over one that has been put on the action queue.  So no packet
\* may be ahead of a queued one unless it is queued as well, and their actions
\* must come in the same order: otherwise a packet, and all behind it, would
\* stay for ever.  Addresses that are handed out again and actions whose
\* packet has been freed make that less than obvious.
QueuedInOrder ==
  /\ TxSorted
  /\ \A i, j \in DOMAIN tx : i < j /\ packet[tx[j]].queued => packet[tx[i]].queued
  /\ \E f \in [QueuedIn(tx) -> DOMAIN Pending] :
       /\ \A i, j \in QueuedIn(tx) : i < j => f[i] < f[j]
       /\ \A i \in QueuedIn(tx) : Pending[f[i]] = Action("tx", tx[i])

\* No packet leaves before its time, although an action left over from a
\* packet that was cleared may name the address of the next one.
NeverEarly ==
  [][\A a \in Addrs : current = Action("tx", a) /\ current' = None /\ tx # tx'
        => packet[a].wait < 0]_vars

\* The actions of searches that wait to be executed
Ends(c) == Places(Pending, Action("end", c))
Adds(c) == Places(Pending, Action("add", c))

\* The caller of the search has been told that it is finished.
Told(c) == search[c].done \/ at[c] \in {"taken", "delete"}

\* What is in the chain, or about to be put there, has not been freed, and no
\* caller has been told that it is finished.  Of a search without a limit the
\* same is true while its ACTION_SEARCH_END is pending.  One with a limit may have
\* become full by a response that did not end it; then its time runs out, and
\* before that action the next response ends it (Dangling).
SearchesLive ==
  \A c \in Callers :
    \/ c \in InChain \/ Adds(c) # {}
    \/ MaxResults[c] = 0 /\ Ends(c) # {}
    => search[c].live /\ ~Told(c)

\* _mdns_search_finish: that its pending ACTION_SEARCH_END outlives the search
\* does not happen to any search.
NeverDangling == ~Dangling

\* That is inductive with what is known of one caller: where it is, whether its
\* search is linked into the chain, the actions p that are pending, and the
\* record s of its search.  No action is pending twice; ...
Once(p, c) ==
  \A type \in {"add", "end", "host"} :
    \A i, j \in Places(p, Action(type, c)) : i = j

\* ... a search that is waited for is on its way to the chain, or in the chain
\* and not yet off, or on its way to its end; ...
Sought(c, linked, p, s) ==
  /\ s.live
  /\ IF Places(p, Action("add", c)) # {}
     THEN ~linked /\ s.state # "OFF" /\ Places(p, Action("end", c)) = {}
     ELSE linked /\ (s.state = "OFF" <=> Places(p, Action("end", c)) # {})

\* ... nobody will touch any other, but for an end of one with a limit.
Untouched(c, place, linked, p, s) ==
  /\ ~linked /\ s.state = "OFF"
  /\ Places(p, Action("add", c)) = {}
  /\ MaxResults[c] = 0 => Places(p, Action("end", c)) = {}
  /\ s.done => s.live
  /\ s.live <=> place \in {"sync", "async", "taken", "delete"}

CallerOK(c, place, linked, p, s) ==
  /\ Once(p, c)
  /\ Places(p, Action("host", c)) # {} => place = "host"
  /\ IF place \in {"sync", "async"} /\ ~s.done
     THEN Sought(c, linked, p, s) ELSE Untouched(c, place, linked, p, s)

CallersOK == \A c \in Callers : CallerOK(c, at[c], c \in InChain, Pending, search[c])

\* The calls come back: a query because its time runs out, however full the
\* action queue is at the moment, a new host name because the service task has
\* taken it; unless the end of a freed search is pending.
CallsReturn == <>[](Dangling \/ \A c \in Callers : at[c] \notin {"sync", "async", "host"})

\* Every scheduled packet is sent, or its pcb cleared, in the end, unless the
\* end of a freed search is pending.
PacketsLeave == <>[](Dangling \/ tx = <<>>)

\* mdns.h:544: a search that has not finished is not deleted.
DeletedFinished ==
  \A c \in Callers : ~search[c].live => c \notin InChain

=============================================================================
