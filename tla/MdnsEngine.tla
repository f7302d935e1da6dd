----------------------------- MODULE MdnsEngine -----------------------------
(***************************************************************************)
(* What drives the responder of components/mdns/mdns.c: the bounded queue  *)
(* of actions, the service task that executes them, the timer that puts    *)
(* packets that are due and searches on the queue, and the tasks that call *)
(* mdns_query_generic, mdns_query_async_new and mdns_hostname_set.         *)
(*                                                                         *)
(* Every section under the service lock is a step.  The service task takes *)
(* two for an action: it receives it without the lock, and anything may    *)
(* happen before it executes it.                                           *)
(*                                                                         *)
(* Time is relative: wait is how long until a packet is due, left how long *)
(* until a search is over, age how long since its question was sent.  They *)
(* stop where more makes no difference, so that time can pass forever.     *)
(* Packets have addresses, which malloc hands out again once they are      *)
(* free, so that an action on the queue may name another packet than the   *)
(* one it was posted for.  Which records a packet has is MdnsResponder's   *)
(* subject; here a packet is sent a number of times and then freed.        *)
(***************************************************************************)
EXTENDS Integers, Sequences, FiniteSets

CONSTANTS Addrs,        \* addresses of transmit packets
          Pcbs,         \* the pcbs they are scheduled on
          Callers,      \* tasks that call the library, each with one search
          May,          \* which calls each of them makes: sync, async, host
          MaxResults,   \* max_results of its search, 0 when unlimited
          QLen,         \* MDNS_ACTION_QUEUE_LEN
          Delay,        \* longest wait of a packet
          Sends,        \* bound on how often a packet is sent
          Timeout,      \* of a search
          Resend,       \* a search asks again after this long
          MaxPosts,     \* bound on the actions from outside
          MaxCalls,     \* bound on the calls of one caller
          DeleteEarly,  \* async callers may try to delete before they have
                        \* taken the results
          None

\* The actions; what they are about
Actions ==
  [type : {"tx"}, obj : Addrs] \cup [type : {"restart", "announce"}, obj : Pcbs]
    \cup [type : {"add", "send", "end", "host"}, obj : Callers]
    \cup [type : {"rx"}, obj : {None}]

ASSUME EngineAssumption ==
  /\ May \in [Callers -> SUBSET {"sync", "async", "host"}]
  /\ MaxResults \in [Callers -> Nat]
  /\ QLen \in Nat \ {0} /\ Sends \in Nat \ {0}
  /\ Delay \in Nat /\ Timeout \in Nat /\ Resend \in Nat
  /\ MaxPosts \in Nat /\ MaxCalls \in Nat
  /\ DeleteEarly \in BOOLEAN
  /\ None \notin Actions

VARIABLES
  queue,    \* the action queue, a sequence of actions
  current,  \* the action the service task has received, or None
  tx,       \* the transmit queue, addresses in the order of send_at
  packet,   \* what is at each address
  chain,    \* search_once, the searches that run
  search,   \* the search of each caller
  timer,    \* what the timer does next: tx or search
  at,       \* where each caller is
  calls,    \* how many calls each caller has begun
  posts     \* how many actions have come from outside

vars == <<queue, current, tx, packet, chain, search, timer, at, calls, posts>>

Action(type, obj) == [type |-> type, obj |-> obj]

InTx == {tx[i] : i \in DOMAIN tx}

InChain == {chain[i] : i \in DOMAIN chain}

\* The actions still to be executed, the received one first
Pending == IF current = None THEN queue ELSE <<current>> \o queue

\* Where x is among the actions p
Places(p, x) == {i \in DOMAIN p : p[i] = x}

\* A pending ACTION_SEARCH_END is about a search that its caller has freed:
\* _mdns_search_finish will use memory that is not the search any more, or that
\* is the next one.  What happens from then on is not modelled.
Dangling ==
  \E c \in Callers : ~search[c].live /\ Places(Pending, Action("end", c)) # {}

\* xQueueSend without waiting
Room == Len(queue) < QLen

\* What remains of a list when all but the elements of S are unlinked
Keep(q, S) ==
  LET kept[i \in 0 .. Len(q)] ==
        IF i = 0 THEN <<>>
        ELSE IF q[i] \in S THEN Append(kept[i - 1], q[i]) ELSE kept[i - 1]
  IN  kept[Len(q)]

Post(type, obj) == queue' = Append(queue, Action(type, obj))

NoSearch == [state |-> "OFF", left |-> 0, age |-> 0, num |-> 0, done |-> FALSE, live |-> FALSE]

\* What is at an address that is free
Nothing == [wait |-> 0, sends |-> 0, queued |-> FALSE, pcb |-> None]

Init ==
  /\ queue = <<>> /\ current = None
  /\ tx = <<>>
  /\ packet = [a \in Addrs |-> Nothing]
  /\ chain = <<>> /\ search = [c \in Callers |-> NoSearch]
  /\ timer = "tx"
  /\ at = [c \in Callers |-> "idle"] /\ calls = [c \in Callers |-> 0]
  /\ posts = 0

-----------------------------------------------------------------------------
(* The transmit queue.                                                      *)

\* How many packets of q come before a new one with wait w: the walk stops at
\* the first that is due later.
Before(q, w) ==
  CHOOSE n \in 0 .. Len(q) : /\ \A i \in 1 .. n : packet[q[i]].wait <= w
                             /\ n < Len(q) => packet[q[n + 1]].wait > w

\* Mutant: the packet goes to the head, whatever its time.
ScheduleFirst(q, a, w) == <<a>> \o q

\* _mdns_schedule_tx_packet: behind every packet that is not due later.  The code
\* compares send_at, a count of ms of 32 bits, as it is; so this is its order as
\* long as the packets of the queue are not due on both sides of its overflow,
\* after 49 days.
Schedule(q, a, w) ==
  LET n == Before(q, w) IN SubSeq(q, 1, n) \o <<a>> \o SubSeq(q, n + 1, Len(q))

\* _mdns_clear_pcb_tx_queue_head
Cleared(p) == Keep(tx, {a \in Addrs : packet[a].pcb # p})

\* The first packet that has not been put on the action queue, if it is due
FirstDue == {i \in DOMAIN tx : /\ ~packet[tx[i]].queued /\ packet[tx[i]].wait < 0
                               /\ \A j \in 1 .. i - 1 : packet[tx[j]].queued}

\* _mdns_scheduler_run, the first half of the timer's callback: a packet that
\* is due goes on the action queue, if there is room.
SchedulerRun ==
  /\ timer = "tx"
  /\ timer' = "search"
  /\ IF Room /\ FirstDue # {}
     THEN \E i \in FirstDue : /\ Post("tx", tx[i])
                              /\ packet' = [packet EXCEPT ![tx[i]].queued = TRUE]
     ELSE UNCHANGED <<queue, packet>>
  /\ UNCHANGED <<current, tx, chain, search, at, calls, posts>>

-----------------------------------------------------------------------------
(* _mdns_search_run, the second half, looks at one search after another; st *)
(* is what it has made of the action queue and of the searches so far.      *)

Sent(st, type, c) == Append(st.queue, Action(type, c))

RoomIn(st) == Len(st.queue) < QLen

\* Mutant: the state is not set back when the queue is full.
TimesOutOnce(st, c) ==
  [queue |-> IF RoomIn(st) THEN Sent(st, "end", c) ELSE st.queue,
   search |-> [st.search EXCEPT ![c].state = "OFF"]]

\* The time of the search is over.  If the action finds no room, the search
\* runs on until the timer comes again.
TimesOut(st, c) ==
  IF RoomIn(st) THEN [queue |-> Sent(st, "end", c),
                      search |-> [st.search EXCEPT ![c].state = "OFF"]]
  ELSE [st EXCEPT !.search[c].state = "RUNNING"]

\* Its question is asked, or asked again.
Asks(st, c) ==
  IF RoomIn(st)
  THEN [queue |-> Sent(st, "send", c),
        search |-> [st.search EXCEPT ![c].state = "RUNNING", ![c].age = 0]]
  ELSE [st EXCEPT !.search[c] = [@ EXCEPT !.state = "RUNNING", !.age = Resend]]

LooksAt(st, c) ==
  CASE st.search[c].state = "OFF" -> st
    [] st.search[c].state # "OFF" /\ st.search[c].left < 0 -> TimesOut(st, c)
    [] OTHER -> IF st.search[c].state = "INIT" \/ st.search[c].age > Resend
                THEN Asks(st, c) ELSE st

SearchRun ==
  /\ timer = "search"
  /\ timer' = "tx"
  /\ LET run[i \in 0 .. Len(chain)] ==
           IF i = 0 THEN [queue |-> queue, search |-> search]
                    ELSE LooksAt(run[i - 1], chain[i])
     IN  queue' = run[Len(chain)].queue /\ search' = run[Len(chain)].search
  /\ UNCHANGED <<current, tx, packet, chain, at, calls, posts>>

-----------------------------------------------------------------------------
(* The service task.                                                        *)

\* xQueueReceive in _mdns_service_task
Receive ==
  /\ current = None /\ queue # <<>>
  /\ current' = Head(queue) /\ queue' = Tail(queue)
  /\ UNCHANGED <<tx, packet, chain, search, timer, at, calls, posts>>

\* _mdns_execute_action, under the lock
Executes(type) == current # None /\ current.type = type /\ current' = None

\* Mutants: the packet's own flag is not asked, and is not cleared.
ExecuteTxUnasked ==
  /\ Executes("tx")
  /\ LET a == current.obj IN
     IF tx # <<>> /\ a = Head(tx)
     THEN /\ tx' = Tail(tx) /\ packet' = [packet EXCEPT ![a] = Nothing]
     ELSE UNCHANGED <<tx, packet>>
  /\ UNCHANGED <<queue, chain, search, timer, at, calls, posts>>

ExecuteTxUncleared ==
  /\ Executes("tx")
  /\ LET a == current.obj IN
     IF tx # <<>> /\ a = Head(tx) /\ packet[a].queued
     THEN \/ /\ packet[a].sends < Sends
             /\ \E w \in 1 .. Delay :
                  /\ tx' = Schedule(Tail(tx), a, w)
                  /\ packet' = [packet EXCEPT ![a].wait = w, ![a].sends = @ + 1]
          \/ /\ tx' = Tail(tx) /\ packet' = [packet EXCEPT ![a] = Nothing]
     ELSE UNCHANGED <<tx, packet>>
  /\ UNCHANGED <<queue, chain, search, timer, at, calls, posts>>

\* The packet has been sent: it is scheduled once more, or freed.
ExecuteTx ==
  /\ Executes("tx")
  /\ LET a == current.obj IN
     IF tx # <<>> /\ a = Head(tx) /\ packet[a].queued
     THEN \/ /\ packet[a].sends < Sends
             /\ \E w \in 1 .. Delay :
                  /\ tx' = Schedule(Tail(tx), a, w)
                  /\ packet' = [packet EXCEPT ![a].wait = w, ![a].sends = @ + 1,
                                              ![a].queued = FALSE]
          \/ /\ tx' = Tail(tx)
             /\ packet' = [packet EXCEPT ![a] = Nothing]
     ELSE UNCHANGED <<tx, packet>>
  /\ UNCHANGED <<queue, chain, search, timer, at, calls, posts>>

\* An action that makes the pcb p begin anew, or that schedules one more
\* packet on it.  An address that is free is taken for the packet.
ExecuteWork ==
  /\ Executes("restart") \/ Executes("announce")
  /\ LET p == current.obj
         q == IF current.type = "restart" THEN Cleared(p) ELSE tx
         free == {a \in Addrs : \A i \in DOMAIN q : q[i] # a}
         kept == [a \in Addrs |-> IF a \in free THEN Nothing ELSE packet[a]] IN
     IF free = {} THEN UNCHANGED <<tx, packet>>
     ELSE \E a \in free, w \in 0 .. Delay :
            /\ tx' = Schedule(q, a, w)
            /\ packet' = [kept EXCEPT ![a] = [wait |-> w, sends |-> 1,
                                              queued |-> FALSE, pcb |-> p]]
  /\ UNCHANGED <<queue, chain, search, timer, at, calls, posts>>

\* _mdns_search_add
ExecuteAdd ==
  /\ Executes("add")
  /\ chain' = <<current.obj>> \o chain
  /\ UNCHANGED <<queue, tx, packet, search, timer, at, calls, posts>>

\* _mdns_search_send asks on every pcb, if the search still runs.
ExecuteSend ==
  /\ Executes("send")
  /\ UNCHANGED <<queue, tx, packet, chain, search, timer, at, calls, posts>>

\* Mutant: the searches stay in the chain.
FinishAttached(cs, s) ==
  /\ UNCHANGED chain
  /\ search' = [c \in Callers |->
                  IF c \in cs THEN [NoSearch EXCEPT !.done = TRUE, !.live = s[c].live] ELSE s[c]]

\* _mdns_search_finish for the searches of cs: out of the chain, and whoever
\* waits for them is woken.
Finish(cs, s) ==
  /\ chain' = Keep(chain, Callers \ cs)
  /\ search' = [c \in Callers |->
                  IF c \in cs THEN [NoSearch EXCEPT !.done = TRUE, !.live = s[c].live]
                              ELSE s[c]]

ExecuteEnd ==
  /\ Executes("end")
  /\ Finish({current.obj}, search)
  /\ UNCHANGED <<queue, tx, packet, timer, at, calls, posts>>

\* A search that may take one more result: _mdns_search_find_from finds it,
\* and _mdns_search_result_add_ptr and its like do not refuse.
Hungry(c) ==
  /\ c \in InChain /\ search[c].state # "OFF"
  /\ MaxResults[c] # 0 => search[c].num < MaxResults[c]

\* _mdns_search_finish_done
Full(s) == {c \in InChain : MaxResults[c] # 0 /\ s[c].num >= MaxResults[c]}

\* mdns_parse_packet on a response with results for some of the searches.  It
\* ends those that have enough, whoever filled them, if its flags are exactly
\* QR_AUTHORITATIVE and none of its records is malformed; after another response
\* they run on.
ExecuteRx ==
  /\ Executes("rx")
  /\ \E hits \in SUBSET {c \in Callers : Hungry(c)}, ends \in BOOLEAN :
       LET s == [c \in Callers |-> IF c \in hits /\ MaxResults[c] # 0
                                   THEN [search[c] EXCEPT !.num = @ + 1] ELSE search[c]] IN
       Finish(IF ends THEN Full(s) ELSE {}, s)
  /\ UNCHANGED <<queue, tx, packet, timer, at, calls, posts>>

\* ACTION_HOSTNAME_SET ends with xTaskNotifyGive.
ExecuteHost ==
  /\ Executes("host")
  /\ at' = [at EXCEPT ![current.obj] = "notified"]
  /\ UNCHANGED <<queue, tx, packet, chain, search, timer, calls, posts>>

Service ==
  \/ Receive
  \/ ExecuteTx \/ ExecuteWork \/ ExecuteAdd \/ ExecuteSend \/ ExecuteEnd
  \/ ExecuteRx \/ ExecuteHost

-----------------------------------------------------------------------------
(* The callers.                                                             *)

Begins(c, call) ==
  /\ call \in May[c]
  /\ at[c] = "idle" /\ calls[c] < MaxCalls
  /\ calls' = [calls EXCEPT ![c] = @ + 1]

\* mdns_query_generic, mdns_query_async_new: the search is allocated and its
\* action posted; without room for the action it is freed again.
Query(c, call) ==
  /\ call # "host" /\ Begins(c, call)
  /\ IF Room
     THEN /\ Post("add", c)
          /\ search' = [search EXCEPT ![c] = [state |-> "INIT", left |-> Timeout, age |-> 0,
                                              num |-> 0, done |-> FALSE, live |-> TRUE]]
          /\ at' = [at EXCEPT ![c] = call]
     ELSE UNCHANGED <<queue, search, at>>
  /\ UNCHANGED <<current, tx, packet, chain, timer, posts>>

\* mdns_hostname_set
SetHostname(c) ==
  /\ Begins(c, "host")
  /\ IF Room THEN Post("host", c) /\ at' = [at EXCEPT ![c] = "host"]
             ELSE UNCHANGED <<queue, at>>
  /\ UNCHANGED <<current, tx, packet, chain, search, timer, posts>>

\* xTaskNotifyWait returns.
Notified(c) ==
  /\ at[c] = "notified"
  /\ at' = [at EXCEPT ![c] = "idle"]
  /\ UNCHANGED <<queue, current, tx, packet, chain, search, timer, calls, posts>>

\* The semaphore of the search: mdns_query_generic frees the search as soon as
\* it has taken it, ...
SyncReturns(c) ==
  /\ at[c] = "sync" /\ search[c].done
  /\ search' = [search EXCEPT ![c] = NoSearch]
  /\ at' = [at EXCEPT ![c] = "idle"]
  /\ UNCHANGED <<queue, current, tx, packet, chain, timer, calls, posts>>

\* ... mdns_query_async_get_results leaves that to mdns_query_async_delete, ...
GetResults(c) ==
  /\ at[c] = "async" /\ search[c].done
  /\ search' = [search EXCEPT ![c].done = FALSE]
  /\ at' = [at EXCEPT ![c] = "taken"]
  /\ UNCHANGED <<queue, current, tx, packet, chain, timer, calls, posts>>

\* ... which refuses a search that is not off, ...
DeleteTest(c) ==
  /\ at[c] = "taken" \/ (DeleteEarly /\ at[c] = "async")
  /\ search[c].state = "OFF"
  /\ at' = [at EXCEPT ![c] = "delete"]
  /\ UNCHANGED <<queue, current, tx, packet, chain, search, timer, calls, posts>>

\* ... and takes the lock only then.
Delete(c) ==
  /\ at[c] = "delete"
  /\ search' = [search EXCEPT ![c] = NoSearch]
  /\ at' = [at EXCEPT ![c] = "idle"]
  /\ UNCHANGED <<queue, current, tx, packet, chain, timer, calls, posts>>

Return(c) == Notified(c) \/ SyncReturns(c) \/ GetResults(c) \/ DeleteTest(c) \/ Delete(c)

-----------------------------------------------------------------------------
(* The rest of the world: actions that other tasks, the event loop and the *)
(* network post, dropped when there is no room; and time.                  *)

Outside(type, obj) ==
  /\ posts < MaxPosts
  /\ posts' = posts + 1
  /\ IF Room THEN Post(type, obj) ELSE UNCHANGED queue
  /\ UNCHANGED <<current, tx, packet, chain, search, timer, at, calls>>

Later(n, least) == IF n > least THEN n - 1 ELSE n

Tick ==
  /\ packet' = [a \in Addrs |-> IF a \in InTx THEN [packet[a] EXCEPT !.wait = Later(@, -1)]
                                              ELSE packet[a]]
  /\ search' = [c \in Callers |->
                  IF search[c].state # "OFF"
                  THEN [search[c] EXCEPT !.left = Later(@, -1),
                                         !.age = IF @ <= Resend THEN @ + 1 ELSE @]
                  ELSE search[c]]
  /\ UNCHANGED <<queue, current, tx, chain, timer, at, calls, posts>>

Timer == SchedulerRun \/ SearchRun

Steps ==
  \/ Service \/ Timer \/ Tick
  \/ \E c \in Callers : Query(c, "sync") \/ Query(c, "async") \/ SetHostname(c) \/ Return(c)
  \/ \E p \in Pcbs, type \in {"restart", "announce"} : Outside(type, p)
  \/ Outside("rx", None)

Next ==
  \/ ~Dangling /\ Steps
  \/ Dangling /\ UNCHANGED vars

\* Time passes, the timer runs periodically, the service task and the callers
\* get the processor.
Fairness ==
  /\ WF_vars(~Dangling /\ Tick) /\ WF_vars(~Dangling /\ Timer)
  /\ WF_vars(~Dangling /\ Service)
  /\ \A c \in Callers : WF_vars(~Dangling /\ Return(c))

Spec == Init /\ [][Next]_vars /\ Fairness

=============================================================================
