-------------------------- MODULE MdnsEngineProofs --------------------------
(***************************************************************************)
(* What is proved of the queues of mDNS, for any number of packets,        *)
(* callers and actions: the types, that no search is used after it was     *)
(* freed, that no packet is sent before it is due, and that packets and    *)
(* their actions are in the same order.                                    *)
(***************************************************************************)
EXTENDS MdnsEngineInv, SequenceTheorems, Induction, TLAPS

-----------------------------------------------------------------------------
(* Lists.                                                                   *)

\* r is what remains of the first n elements of q without those outside S: e
\* says where its elements were.
Remains(r, q, n, S) ==
  \E e \in [1 .. Len(r) -> 1 .. n] :
    /\ \A i, j \in 1 .. Len(r) : i < j => e[i] < e[j]
    /\ \A i \in 1 .. Len(r) : r[i] = q[e[i]]
    /\ \A k \in 1 .. n : q[k] \in S <=> \E i \in 1 .. Len(r) : e[i] = k

\* One more element is looked at.
LEMMA RemainsStep ==
  ASSUME NEW X, NEW q \in Seq(X), NEW S, NEW n \in 1 .. Len(q), NEW r \in Seq(X),
         Remains(r, q, n - 1, S)
  PROVE  LET t == IF q[n] \in S THEN Append(r, q[n]) ELSE r IN
         t \in Seq(X) /\ Remains(t, q, n, S)
<1>1. PICK e \in [1 .. Len(r) -> 1 .. n - 1] :
        /\ \A i, j \in 1 .. Len(r) : i < j => e[i] < e[j]
        /\ \A i \in 1 .. Len(r) : r[i] = q[e[i]]
        /\ \A k \in 1 .. n - 1 : q[k] \in S <=> \E i \in 1 .. Len(r) : e[i] = k
  BY DEF Remains
<1>2. Len(q) \in Nat /\ Len(r) \in Nat /\ n \in Nat \ {0} /\ q[n] \in X
  OBVIOUS
<1>3. CASE q[n] \notin S
  <2>1. e \in [1 .. Len(r) -> 1 .. n]
    BY <1>2
  <2>2. \A k \in 1 .. n : k = n \/ k \in 1 .. n - 1
    BY <1>2
  <2>3. \A i \in 1 .. Len(r) : e[i] # n
    BY <1>2
  <2>4. \A k \in 1 .. n : q[k] \in S <=> \E i \in 1 .. Len(r) : e[i] = k
    BY <1>1, <1>3, <2>2, <2>3
  <2>5. Remains(r, q, n, S)
    BY <1>1, <2>1, <2>4 DEF Remains
  <2> QED
    BY <1>3, <2>5
<1>4. CASE q[n] \in S
  <2> DEFINE t == Append(r, q[n])
             f == [i \in 1 .. Len(r) + 1 |-> IF i <= Len(r) THEN e[i] ELSE n]
  <2>1. /\ t \in Seq(X) /\ Len(t) = Len(r) + 1
        /\ \A i \in 1 .. Len(r) : t[i] = r[i]
        /\ t[Len(r) + 1] = q[n]
    BY <1>2
  <2> HIDE DEF t
  <2>2. /\ f \in [1 .. Len(t) -> 1 .. n]
        /\ \A i \in 1 .. Len(r) : f[i] = e[i] /\ e[i] \in 1 .. n - 1
        /\ f[Len(r) + 1] = n
    <3>1. \A i \in 1 .. Len(r) : e[i] \in 1 .. n - 1 /\ e[i] \in 1 .. n
      BY <1>2
    <3>2. n \in 1 .. n
      BY <1>2
    <3>3. \A i \in 1 .. Len(t) : i = Len(r) + 1 \/ i \in 1 .. Len(r)
      BY <1>2, <2>1
    <3>4. Len(r) + 1 \in 1 .. Len(t) /\ ~(Len(r) + 1 <= Len(r))
      BY <1>2, <2>1
    <3>5. f = [i \in 1 .. Len(t) |-> IF i <= Len(r) THEN e[i] ELSE n]
      BY <2>1
    <3> HIDE DEF f
    <3>6. \A i \in 1 .. Len(r) : i \in 1 .. Len(t) /\ i <= Len(r)
      BY <1>2, <2>1
    <3> QED
      BY <3>1, <3>2, <3>3, <3>4, <3>5, <3>6
  <2> HIDE DEF f
  <2>3. \A i \in 1 .. Len(t) : i = Len(r) + 1 \/ i \in 1 .. Len(r)
    BY <1>2, <2>1
  <2>4. ASSUME NEW i \in 1 .. Len(t), NEW j \in 1 .. Len(t), i < j PROVE f[i] < f[j]
    <3>1. i \in 1 .. Len(r)
      BY <1>2, <2>1, <2>4
    <3>2. CASE j = Len(r) + 1
      BY <1>2, <2>2, <3>1, <3>2
    <3>3. CASE j \in 1 .. Len(r)
      BY <1>1, <2>2, <2>4, <3>1, <3>3
    <3> QED
      BY <2>3, <3>2, <3>3
  <2>5. \A i \in 1 .. Len(t) : t[i] = q[f[i]]
    BY <1>1, <2>1, <2>2, <2>3
  <2>6. ASSUME NEW k \in 1 .. n PROVE q[k] \in S <=> \E i \in 1 .. Len(t) : f[i] = k
    <3>1. Len(r) + 1 \in 1 .. Len(t) /\ (\A i \in 1 .. Len(r) : i \in 1 .. Len(t))
      BY <1>2, <2>1
    <3>2. CASE k = n
      BY <1>4, <2>2, <3>1, <3>2
    <3>3. CASE k # n
      <4>1. k \in 1 .. n - 1
        BY <1>2, <3>3
      <4>2. \A i \in 1 .. Len(t) : f[i] = k => i \in 1 .. Len(r)
        BY <2>2, <2>3, <3>3
      <4> QED
        BY <1>1, <2>2, <3>1, <4>1, <4>2
    <3> QED
      BY <3>2, <3>3
  <2>7. Remains(t, q, n, S)
    BY <2>2, <2>4, <2>5, <2>6 DEF Remains
  <2> QED
    BY <1>4, <2>1, <2>7 DEF t
<1> QED
  BY <1>3, <1>4

\* What is unlinked leaves the rest in its order (_mdns_clear_pcb_tx_queue_head,
\* _mdns_search_finish).
LEMMA KeepRemains ==
  ASSUME NEW X, NEW q \in Seq(X), NEW S
  PROVE  Keep(q, S) \in Seq(X) /\ Remains(Keep(q, S), q, Len(q), S)
<1> DEFINE Step(v, i) == IF q[i] \in S THEN Append(v, q[i]) ELSE v
           Is(f) == f = [i \in 0 .. Len(q) |-> IF i = 0 THEN <<>> ELSE
                           IF q[i] \in S THEN Append(f[i - 1], q[i]) ELSE f[i - 1]]
           kept == CHOOSE f : Is(f)
<1>1. Keep(q, S) = kept[Len(q)]
  BY DEF Keep
<1>2. Len(q) \in Nat /\ <<>> \in Seq(X) /\ (\A i \in 1 .. Len(q) : q[i] \in X)
  OBVIOUS
<1>3. \E f : Is(f)
  <2> DEFINE T == [i \in Nat |-> [v \in Seq(X) |-> IF i \in 1 .. Len(q) THEN Step(v, i) ELSE v]]
  <2>1. \A i \in Nat : \A v \in Seq(X) : i \in 1 .. Len(q) => Step(v, i) \in Seq(X)
    BY <1>2
  <2>2. T \in [Nat -> [Seq(X) -> Seq(X)]]
    BY <2>1
  <2>3. \A i \in 1 .. Len(q) : i \in Nat /\ (\A v \in Seq(X) : T[i][v] = Step(v, i))
    OBVIOUS
  <2> HIDE DEF T
  <2>4. PICK g \in [0 .. Len(q) -> Seq(X)] :
          g[0] = <<>> /\ \A i \in 1 .. Len(q) : g[i] = T[i][g[i - 1]]
    <3>1. \E g \in [0 .. Len(q) -> Seq(X)] : Follows(g, <<>>, T, Len(q))
      BY <1>2, <2>2, Recursion
    <3> QED
      BY <3>1 DEF Follows
  <2>5. \A i \in 1 .. Len(q) : g[i - 1] \in Seq(X)
    BY <1>2
  <2>6. \A i \in 0 .. Len(q) : g[i] = IF i = 0 THEN <<>> ELSE
                           IF q[i] \in S THEN Append(g[i - 1], q[i]) ELSE g[i - 1]
    <3>1. \A i \in 0 .. Len(q) : i = 0 \/ i \in 1 .. Len(q)
      BY <1>2
    <3>2. \A i \in 1 .. Len(q) : i # 0
      BY <1>2
    <3> QED
      BY <2>3, <2>4, <2>5, <3>1, <3>2
  <2> QED
    BY <2>6
<1>4. Is(kept)
  <2> HIDE DEF Is
  <2> QED
    BY <1>3
<1> HIDE DEF kept
<1>5. /\ kept[0] = <<>>
      /\ \A i \in 1 .. Len(q) : kept[i] = Step(kept[i - 1], i)
  <2>1. 0 \in 0 .. Len(q) /\ (\A i \in 1 .. Len(q) : i \in 0 .. Len(q) /\ i # 0)
    BY <1>2
  <2> QED
    BY <1>4, <2>1
<1> DEFINE OK == {i \in 0 .. Len(q) : kept[i] \in Seq(X) /\ Remains(kept[i], q, i, S)}
<1>6. 0 \in OK
  <2>1. Remains(<<>>, q, 0, S)
    <3> DEFINE e == [i \in 1 .. 0 |-> 0]
    <3>1. e \in [1 .. 0 -> 1 .. 0] /\ Len(<<>>) = 0 /\ 1 .. 0 = {}
      OBVIOUS
    <3> HIDE DEF e
    <3> QED
      BY <3>1 DEF Remains
  <2>2. 0 \in 0 .. Len(q)
    BY <1>2
  <2>3. kept[0] \in Seq(X) /\ Remains(kept[0], q, 0, S)
    BY <1>2, <1>5, <2>1
  <2> QED
    BY <2>2, <2>3
<1>7. ASSUME NEW i \in 1 .. Len(q), i - 1 \in OK PROVE i \in OK
  <2>1. PICK r \in Seq(X) : r = kept[i - 1] /\ Remains(r, q, i - 1, S)
    BY <1>7
  <2>2. Step(r, i) \in Seq(X) /\ Remains(Step(r, i), q, i, S)
    BY <2>1, RemainsStep
  <2>3. kept[i] = Step(r, i)
    BY <1>5, <2>1
  <2> HIDE DEF Step
  <2> QED
    BY <1>2, <2>2, <2>3
<1>8. 0 .. Len(q) \subseteq OK
  <2> HIDE DEF OK
  <2> QED
    BY <1>2, <1>6, <1>7, UpTo
<1> QED
  BY <1>1, <1>2, <1>8

-----------------------------------------------------------------------------
(* The pending actions.                                                     *)

\* The actions about the search and the host name of one caller
Matters(c) == {Action("add", c), Action("end", c), Action("host", c)}

LEMMA ActionFields ==
  ASSUME NEW type, NEW obj
  PROVE  Action(type, obj).type = type /\ Action(type, obj).obj = obj
BY DEF Action

\* No action is None, and those that are posted are actions.
LEMMA ActionsMade ==
  /\ \A c \in Callers, type \in {"add", "send", "end", "host"} : Action(type, c) \in Actions
  /\ \A a \in Addrs : Action("tx", a) \in Actions
  /\ \A p \in Pcbs, type \in {"restart", "announce"} : Action(type, p) \in Actions
  /\ Action("rx", None) \in Actions
  /\ None \notin Actions
BY EngineAssumption DEF Action, Actions

\* An action is posted.
LEMMA AppendPlaces ==
  ASSUME NEW p \in Seq(Actions), NEW x \in Actions
  PROVE  /\ Append(p, x) \in Seq(Actions) /\ Len(Append(p, x)) = Len(p) + 1
         /\ \A i \in DOMAIN p : i \in DOMAIN Append(p, x) /\ Append(p, x)[i] = p[i]
         /\ \A y : y # x => Places(Append(p, x), y) = Places(p, y)
         /\ Places(p, x) = {} => Places(Append(p, x), x) = {Len(p) + 1}
<1> DEFINE r == Append(p, x)
<1>1. /\ r \in Seq(Actions) /\ Len(r) = Len(p) + 1 /\ Len(p) \in Nat
      /\ DOMAIN p = 1 .. Len(p) /\ DOMAIN r = 1 .. Len(p) + 1
      /\ \A i \in 1 .. Len(p) : r[i] = p[i]
      /\ r[Len(p) + 1] = x
  OBVIOUS
<1> HIDE DEF r
<1>2. \A y : y # x => Places(r, y) = Places(p, y)
  BY <1>1 DEF Places
<1>3. Places(p, x) = {} => Places(r, x) = {Len(p) + 1}
  BY <1>1 DEF Places
<1> QED
  BY <1>1, <1>2, <1>3 DEF r

\* The first one is taken.
LEMMA TailPlaces ==
  ASSUME NEW p \in Seq(Actions), p # <<>>
  PROVE  /\ Tail(p) \in Seq(Actions) /\ Head(p) \in Actions /\ Len(Tail(p)) = Len(p) - 1
         /\ \A y : \A i \in Places(Tail(p), y) : i \in Nat /\ i + 1 \in Places(p, y)
         /\ \A y : \A i \in Places(p, y) : i = 1 \/ i - 1 \in Places(Tail(p), y)
         /\ \A y : 1 \in Places(p, y) <=> Head(p) = y
<1> DEFINE r == Tail(p)
<1>1. /\ r \in Seq(Actions) /\ Len(r) = Len(p) - 1 /\ Head(p) \in Actions /\ Head(p) = p[1]
      /\ DOMAIN p = 1 .. Len(p) /\ Len(p) \in Nat \ {0} /\ DOMAIN r = 1 .. Len(p) - 1
      /\ \A n \in 1 .. Len(p) - 1 : r[n] = p[n + 1]
  OBVIOUS
<1> HIDE DEF r
<1>2. \A y : \A i \in Places(r, y) : i \in Nat /\ i + 1 \in Places(p, y)
  BY <1>1 DEF Places
<1>3. \A y : \A i \in Places(p, y) : i = 1 \/ i - 1 \in Places(r, y)
  BY <1>1 DEF Places
<1>4. \A y : 1 \in Places(p, y) <=> Head(p) = y
  BY <1>1 DEF Places
<1> QED
  BY <1>1, <1>2, <1>3, <1>4 DEF r

\* What that means for the actions of one caller
LEMMA TailOnce ==
  ASSUME NEW p \in Seq(Actions), p # <<>>, NEW c, Once(p, c)
  PROVE  /\ Once(Tail(p), c)
         /\ \A y \in Matters(c) :
              IF Head(p) = y THEN Places(Tail(p), y) = {} /\ Places(p, y) # {}
              ELSE Places(Tail(p), y) = {} <=> Places(p, y) = {}
<1> DEFINE r == Tail(p)
<1>1. /\ \A y : \A i \in Places(r, y) : i \in Nat /\ i + 1 \in Places(p, y)
      /\ \A y : \A i \in Places(p, y) : i = 1 \/ i - 1 \in Places(r, y)
      /\ \A y : 1 \in Places(p, y) <=> Head(p) = y
  BY TailPlaces
<1> HIDE DEF r
<1>2. \A y \in Matters(c) : \A i, j \in Places(p, y) : i = j
  BY DEF Once, Matters
<1>3. ASSUME NEW y \in Matters(c)
      PROVE  /\ \A i, j \in Places(r, y) : i = j
             /\ IF Head(p) = y THEN Places(r, y) = {} /\ Places(p, y) # {}
                ELSE Places(r, y) = {} <=> Places(p, y) = {}
  <2>1. \A i, j \in Places(r, y) : i = j
    <3> SUFFICES ASSUME NEW i \in Places(r, y), NEW j \in Places(r, y) PROVE i = j
      OBVIOUS
    <3>1. i \in Nat /\ j \in Nat /\ i + 1 = j + 1
      BY <1>1, <1>2
    <3> QED
      BY <3>1
  <2>2. ASSUME Head(p) = y PROVE Places(r, y) = {} /\ Places(p, y) # {}
    <3>1. 1 \in Places(p, y)
      BY <1>1, <2>2
    <3>2. \A i \in Places(r, y) : i \in Nat /\ i + 1 = 1 /\ FALSE
      <4> SUFFICES ASSUME NEW i \in Places(r, y) PROVE FALSE
        OBVIOUS
      <4>1. i \in Nat /\ i + 1 = 1 /\ 1 + 1 # 1
        BY <1>1, <1>2, <3>1
      <4>2. i = 0
        BY <4>1
      <4>3. 0 \notin DOMAIN Tail(p)
        OBVIOUS
      <4> QED
        BY <4>2, <4>3 DEF Places, r
    <3> QED
      BY <3>1, <3>2
  <2>3. ASSUME Head(p) # y PROVE Places(r, y) = {} <=> Places(p, y) = {}
    BY <1>1, <2>3
  <2> QED
    BY <2>1, <2>2, <2>3
<1>4. Once(r, c)
  BY <1>3 DEF Once, Matters
<1> QED
  BY <1>3, <1>4 DEF r

\* The pending actions, when the queue is q
PendingIf(q) == IF current = None THEN q ELSE <<current>> \o q

LEMMA PendingTyped ==
  ASSUME EngineTypeOK, NEW q \in Seq(Actions)
  PROVE  PendingIf(q) \in Seq(Actions)
BY DEF EngineTypeOK, PendingIf

LEMMA PendingAppend ==
  ASSUME EngineTypeOK, NEW q \in Seq(Actions), NEW x \in Actions
  PROVE  PendingIf(Append(q, x)) = Append(PendingIf(q), x)
<1>1. CASE current = None
  BY <1>1 DEF PendingIf
<1>2. CASE current # None
  <2>1. <<current>> \in Seq(Actions) /\ current \in Actions
    BY <1>2 DEF EngineTypeOK
  <2>2. <<current>> \o Append(q, x) = Append(<<current>> \o q, x)
    BY <2>1
  <2> QED
    BY <1>2, <2>2 DEF PendingIf
<1> QED
  BY <1>1, <1>2

\* An action is executed.
LEMMA PendingTail ==
  ASSUME EngineTypeOK, current # None, current' = None, queue' = queue
  PROVE  /\ Pending \in Seq(Actions) /\ Pending # <<>>
         /\ Head(Pending) = current /\ Pending' = Tail(Pending)
<1>1. current \in Actions /\ queue \in Seq(Actions)
  BY DEF EngineTypeOK
<1>2. Pending = <<current>> \o queue /\ Pending' = queue
  BY DEF Pending
<1>3. /\ <<current>> \o queue \in Seq(Actions) /\ <<current>> \o queue # <<>>
      /\ Head(<<current>> \o queue) = current /\ Tail(<<current>> \o queue) = queue
  BY <1>1
<1> QED
  BY <1>2, <1>3

\* An action is received.
LEMMA PendingReceived ==
  ASSUME EngineTypeOK, Receive
  PROVE  Pending' = Pending
<1>1. /\ queue \in Seq(Actions) /\ queue # <<>> /\ current = None
      /\ current' = Head(queue) /\ queue' = Tail(queue)
  BY DEF Receive, EngineTypeOK
<1>2. Head(queue) \in Actions
  BY <1>1
<1>3. Head(queue) # None
  BY <1>2, ActionsMade
<1>4. <<Head(queue)>> \o Tail(queue) = queue
  BY <1>1
<1> QED
  BY <1>1, <1>3, <1>4 DEF Pending

\* How a packet is put into the transmit queue: behind n of those in q
Inserted(r, q, a, n) ==
  /\ n \in 0 .. Len(q) /\ Len(r) = Len(q) + 1
  /\ \A i \in 1 .. n : r[i] = q[i]
  /\ r[n + 1] = a
  /\ \A i \in n + 1 .. Len(q) : r[i + 1] = q[i]

\* _mdns_schedule_tx_packet: it comes behind those that are due no later, up to
\* the first that is.
LEMMA ScheduleInserts ==
  ASSUME NEW q \in Seq(Addrs), NEW a \in Addrs, NEW w \in Int,
         \A b \in Addrs : packet[b].wait \in Int
  PROVE  /\ Schedule(q, a, w) \in Seq(Addrs)
         /\ \E n : /\ Inserted(Schedule(q, a, w), q, a, n)
                   /\ \A i \in 1 .. n : packet[q[i]].wait <= w
                   /\ n < Len(q) => packet[q[n + 1]].wait > w
<1> DEFINE Place(n) == /\ \A i \in 1 .. n : packet[q[i]].wait <= w
                       /\ n < Len(q) => packet[q[n + 1]].wait > w
           late == {i \in 1 .. Len(q) : packet[q[i]].wait > w}
<1>1. /\ Len(q) \in Nat
      /\ \A i \in 1 .. Len(q) : q[i] \in Addrs /\ packet[q[i]].wait \in Int
  OBVIOUS
<1>2. \E n \in 0 .. Len(q) : Place(n)
  <2>1. CASE late = {}
    <3>1. \A i \in 1 .. Len(q) : packet[q[i]].wait <= w
      BY <1>1, <2>1
    <3>2. Len(q) \in 0 .. Len(q) /\ ~(Len(q) < Len(q))
      BY <1>1
    <3> QED
      BY <3>1, <3>2
  <2>2. CASE late # {}
    <3>1. PICK m \in late : \A i \in late : m <= i
      <4>1. late \in SUBSET Nat
        OBVIOUS
      <4> HIDE DEF late
      <4> QED
        BY <2>2, <4>1, LeastNumber
    <3>2. m - 1 \in 0 .. Len(q) /\ (m - 1) + 1 = m
      BY <1>1
    <3>3. \A i \in 1 .. m - 1 : packet[q[i]].wait <= w
      BY <1>1, <3>1
    <3> QED
      BY <3>1, <3>2, <3>3
  <2> QED
    BY <2>1, <2>2
<1> HIDE DEF Place
<1> DEFINE n == CHOOSE n \in 0 .. Len(q) : Place(n)
<1>3. n = Before(q, w)
  BY DEF Before, Place
<1>4. n \in 0 .. Len(q) /\ Place(n)
  BY <1>2
<1> HIDE DEF n
<1> DEFINE b == SubSeq(q, 1, n)
           c == SubSeq(q, n + 1, Len(q))
           r == b \o <<a>> \o c
<1>5. b \in Seq(Addrs) /\ Len(b) = n /\ (\A i \in 1 .. n : b[i] = q[i])
  BY <1>1, <1>4
<1>6. c \in Seq(Addrs) /\ Len(c) = Len(q) - n /\ (\A i \in 1 .. Len(q) - n : c[i] = q[n + i])
  BY <1>1, <1>4
<1> HIDE DEF b, c
<1>7. /\ b \o <<a>> \in Seq(Addrs) /\ Len(b \o <<a>>) = n + 1
      /\ \A i \in 1 .. n + 1 : (b \o <<a>>)[i] = IF i <= n THEN b[i] ELSE a
  BY <1>1, <1>4, <1>5
<1>8. /\ r \in Seq(Addrs) /\ Len(r) = Len(q) + 1
      /\ \A i \in 1 .. Len(q) + 1 : r[i] = IF i <= n + 1 THEN (b \o <<a>>)[i] ELSE c[i - (n + 1)]
  <2> DEFINE d == b \o <<a>>
  <2>1. d \in Seq(Addrs) /\ Len(d) = n + 1
    BY <1>7
  <2> HIDE DEF d
  <2>2. /\ d \o c \in Seq(Addrs) /\ Len(d \o c) = Len(d) + Len(c)
        /\ \A i \in 1 .. Len(d) + Len(c) :
             (d \o c)[i] = IF i <= Len(d) THEN d[i] ELSE c[i - Len(d)]
    BY <1>6, <2>1, ConcatProperties, Zenon
  <2>3. Len(d) + Len(c) = Len(q) + 1
    BY <1>1, <1>4, <1>6, <2>1
  <2> QED
    BY <2>1, <2>2, <2>3 DEF d
<1> HIDE DEF r
<1>9. Inserted(r, q, a, n)
  <2>1. \A i \in 1 .. n : r[i] = q[i]
    <3>1. \A i \in 1 .. n : i <= n /\ i <= n + 1 /\ i \in 1 .. n + 1 /\ i \in 1 .. Len(q) + 1
      BY <1>1, <1>4
    <3> QED
      BY <1>5, <1>7, <1>8, <3>1
  <2>2. r[n + 1] = a
    <3>1. n + 1 <= n + 1 /\ ~(n + 1 <= n) /\ n + 1 \in 1 .. n + 1 /\ n + 1 \in 1 .. Len(q) + 1
      BY <1>1, <1>4
    <3> QED
      BY <1>7, <1>8, <3>1
  <2>3. ASSUME NEW i \in n + 1 .. Len(q) PROVE r[i + 1] = q[i]
    <3>1. /\ i + 1 \in 1 .. Len(q) + 1 /\ ~(i + 1 <= n + 1) /\ (i + 1) - (n + 1) = i - n
          /\ i - n \in 1 .. Len(q) - n /\ n + (i - n) = i
      BY <1>1, <1>4
    <3>2. r[i + 1] = c[i - n]
      BY <1>8, <3>1
    <3> QED
      BY <1>6, <3>1, <3>2
  <2> QED
    BY <1>4, <1>8, <2>1, <2>2, <2>3 DEF Inserted
<1>10. Schedule(q, a, w) = r
  BY <1>3 DEF Schedule, r, b, c
<1> QED
  BY <1>4, <1>8, <1>9, <1>10 DEF Place

-----------------------------------------------------------------------------
(* The timer looks at the searches (_mdns_search_run).                      *)

\* What it makes of the queue and of the searches
Runs == [queue : Seq(Actions), search : [Callers -> Searches]]

\* What it has done so far: the queue has only grown, and what is known of the
\* callers is still true.
Continues(q) ==
  /\ Len(queue) <= Len(q) /\ Len(q) <= QLen
  /\ \A i \in 1 .. Len(queue) : q[i] = queue[i]

AllOK(q, s) == \A c \in Callers : CallerOK(c, at[c], c \in InChain, PendingIf(q), s[c])

RunOK(st) == Continues(st.queue) /\ (CallersOK => AllOK(st.queue, st.search))

\* One search after the timer has looked at it
Looked(q, s, st, c) ==
  LET old == st.search[c] IN
  /\ s.num = old.num /\ s.done = old.done /\ s.live = old.live
  /\ \/ q = st.queue /\ (s.state = "OFF" <=> old.state = "OFF")
     \/ /\ Len(st.queue) < QLen /\ old.state # "OFF"
        /\ \/ q = Append(st.queue, Action("send", c)) /\ s.state # "OFF"
           \/ q = Append(st.queue, Action("end", c)) /\ s.state = "OFF"

LEMMA LooksAtOne ==
  ASSUME NEW st \in Runs, NEW c \in Callers
  PROVE  \E s \in Searches, q \in Seq(Actions) :
           /\ LooksAt(st, c) = [queue |-> q, search |-> [st.search EXCEPT ![c] = s]]
           /\ Looked(q, s, st, c)
<1> DEFINE old == st.search[c]
<1>1. /\ st.queue \in Seq(Actions) /\ st.search \in [Callers -> Searches]
      /\ st = [queue |-> st.queue, search |-> st.search]
  BY DEF Runs
<1>2. old \in Searches
  BY <1>1
<1>3. CASE LooksAt(st, c) = st
  <2>1. st.search = [st.search EXCEPT ![c] = old]
    BY <1>1
  <2>2. LooksAt(st, c) = [queue |-> st.queue, search |-> [st.search EXCEPT ![c] = old]]
    BY <1>1, <1>3, <2>1
  <2>3. Looked(st.queue, old, st, c)
    BY DEF Looked
  <2> QED
    BY <1>1, <1>2, <2>2, <2>3
<1>4. CASE old.state # "OFF" /\ LooksAt(st, c) = TimesOut(st, c)
  <2> DEFINE s == [old EXCEPT !.state = IF RoomIn(st) THEN "OFF" ELSE "RUNNING"]
             q == IF RoomIn(st) THEN Append(st.queue, Action("end", c)) ELSE st.queue
  <2>1. /\ s \in Searches /\ s.state = IF RoomIn(st) THEN "OFF" ELSE "RUNNING"
        /\ s.num = old.num /\ s.done = old.done /\ s.live = old.live
    BY <1>2 DEF Searches
  <2>2. q \in Seq(Actions)
    BY <1>1, ActionsMade
  <2>3. LooksAt(st, c) = [queue |-> q, search |-> [st.search EXCEPT ![c] = s]]
    BY <1>1, <1>4 DEF TimesOut, Sent
  <2>4. Looked(q, s, st, c)
    BY <1>4, <2>1 DEF Looked, RoomIn
  <2> HIDE DEF s, q
  <2> QED
    BY <2>1, <2>2, <2>3, <2>4
<1>5. CASE old.state # "OFF" /\ LooksAt(st, c) = Asks(st, c)
  <2> DEFINE s == [old EXCEPT !.state = "RUNNING", !.age = IF RoomIn(st) THEN 0 ELSE Resend]
             q == IF RoomIn(st) THEN Append(st.queue, Action("send", c)) ELSE st.queue
  <2>1. /\ s \in Searches /\ s.state = "RUNNING"
        /\ s.num = old.num /\ s.done = old.done /\ s.live = old.live
    <3>1. (IF RoomIn(st) THEN 0 ELSE Resend) \in Int
      BY EngineAssumption
    <3> QED
      BY <1>2, <3>1 DEF Searches
  <2>2. q \in Seq(Actions)
    BY <1>1, ActionsMade
  <2>3. LooksAt(st, c) = [queue |-> q, search |-> [st.search EXCEPT ![c] = s]]
    <3>1. CASE RoomIn(st)
      <4>1. LooksAt(st, c) =
              [queue |-> q,
               search |-> [st.search EXCEPT ![c].state = "RUNNING", ![c].age = 0]]
        BY <1>5, <3>1 DEF Asks, Sent
      <4> QED
        BY <1>1, <3>1, <4>1
    <3>2. CASE ~RoomIn(st)
      <4>1. LooksAt(st, c) =
              [st EXCEPT !.search[c] = [@ EXCEPT !.state = "RUNNING", !.age = Resend]]
        BY <1>5, <3>2 DEF Asks
      <4> QED
        BY <1>1, <3>2, <4>1
    <3> QED
      BY <3>1, <3>2
  <2>4. Looked(q, s, st, c)
    BY <1>5, <2>1 DEF Looked, RoomIn
  <2> HIDE DEF s, q
  <2> QED
    BY <2>1, <2>2, <2>3, <2>4
<1> QED
  BY <1>3, <1>4, <1>5 DEF LooksAt

\* The records of the other callers are not concerned by an action of c.
LEMMA OthersActions ==
  ASSUME NEW p \in Seq(Actions), NEW c, NEW d, c # d,
         NEW type \in {"add", "send", "end", "host"}, Action(type, c) \in Actions,
         NEW place, NEW linked, NEW s, CallerOK(d, place, linked, p, s)
  PROVE  CallerOK(d, place, linked, Append(p, Action(type, c)), s)
<1>1. \A y \in Matters(d) : Places(Append(p, Action(type, c)), y) = Places(p, y)
  BY AppendPlaces DEF Matters, Action
<1> QED
  BY <1>1 DEF CallerOK, Once, Sought, Untouched, Matters

\* Those of c itself, whose search is in the chain
LEMMA OwnActions ==
  ASSUME NEW p \in Seq(Actions), NEW c \in Callers, NEW place, NEW old, NEW s, NEW r,
         CallerOK(c, place, TRUE, p, old),
         s.done = old.done, s.live = old.live,
         \/ r = p /\ (s.state = "OFF" <=> old.state = "OFF")
         \/ /\ old.state # "OFF"
            /\ \/ r = Append(p, Action("send", c)) /\ s.state # "OFF"
               \/ r = Append(p, Action("end", c)) /\ s.state = "OFF"
  PROVE  CallerOK(c, place, TRUE, r, s)
<1>1. /\ place \in {"sync", "async"} /\ ~old.done
      /\ Once(p, c) /\ Places(p, Action("host", c)) = {} /\ Places(p, Action("add", c)) = {}
      /\ old.state = "OFF" <=> Places(p, Action("end", c)) # {}
      /\ old.live
  BY DEF CallerOK, Sought, Untouched
<1>2. CASE r = p /\ (s.state = "OFF" <=> old.state = "OFF")
  BY <1>1, <1>2 DEF CallerOK, Sought
<1>3. CASE /\ old.state # "OFF" /\ s.state # "OFF"
           /\ r = Append(p, Action("send", c))
  <2>1. \A y \in Matters(c) : Places(r, y) = Places(p, y)
    <3>1. Action("send", c) \in Actions
      BY ActionsMade
    <3>2. \A y \in Matters(c) : y # Action("send", c)
      BY DEF Matters, Action
    <3> QED
      BY <1>3, <3>1, <3>2, AppendPlaces
  <2>2. Once(r, c)
    BY <1>1, <2>1 DEF Once, Matters
  <2> QED
    <3>1. /\ Places(r, Action("add", c)) = {} /\ Places(r, Action("host", c)) = {}
          /\ Places(r, Action("end", c)) = {}
      BY <1>1, <1>3, <2>1 DEF Matters
    <3>2. Sought(c, TRUE, r, s)
      BY <1>1, <1>3, <3>1 DEF Sought
    <3>3. ~s.done
      BY <1>1
    <3> QED
      BY <1>1, <2>2, <3>1, <3>2, <3>3 DEF CallerOK
<1>4. CASE /\ old.state # "OFF" /\ s.state = "OFF"
           /\ r = Append(p, Action("end", c))
  <2>1. /\ Places(r, Action("add", c)) = Places(p, Action("add", c))
        /\ Places(r, Action("host", c)) = Places(p, Action("host", c))
    <3>1. Action("end", c) \in Actions
      BY ActionsMade
    <3>2. Action("add", c) # Action("end", c) /\ Action("host", c) # Action("end", c)
      BY DEF Action
    <3> QED
      BY <1>4, <3>1, <3>2, AppendPlaces
  <2>2. Places(r, Action("end", c)) = {Len(p) + 1}
    BY <1>1, <1>4, ActionsMade, AppendPlaces
  <2>3. Once(r, c)
    BY <1>1, <2>1, <2>2 DEF Once
  <2> QED
    <3>1. Places(r, Action("end", c)) # {}
      BY <2>2
    <3>2. Sought(c, TRUE, r, s)
      BY <1>1, <1>4, <2>1, <3>1 DEF Sought
    <3>3. ~s.done /\ Places(r, Action("host", c)) = {}
      BY <1>1, <2>1
    <3> QED
      BY <1>1, <2>3, <3>2, <3>3 DEF CallerOK
<1> QED
  BY <1>2, <1>3, <1>4

LEMMA LooksAtKeeps ==
  ASSUME EngineTypeOK, NEW st \in Runs, RunOK(st), NEW c \in InChain
  PROVE  LooksAt(st, c) \in Runs /\ RunOK(LooksAt(st, c))
<1>1. c \in Callers
  BY DEF InChain, EngineTypeOK
<1>2. PICK s \in Searches, q \in Seq(Actions) :
        /\ LooksAt(st, c) = [queue |-> q, search |-> [st.search EXCEPT ![c] = s]]
        /\ Looked(q, s, st, c)
  BY <1>1, LooksAtOne
<1> DEFINE old == st.search[c]
           new == [st.search EXCEPT ![c] = s]
<1>3. st.queue \in Seq(Actions) /\ st.search \in [Callers -> Searches]
  BY DEF Runs
<1>4. /\ new \in [Callers -> Searches] /\ new[c] = s
      /\ \A d \in Callers : d # c => new[d] = st.search[d]
  BY <1>1, <1>3
<1>5. /\ LooksAt(st, c) \in Runs
      /\ LooksAt(st, c).queue = q /\ LooksAt(st, c).search = new
  BY <1>2, <1>4 DEF Runs
<1> HIDE DEF new
<1>6. Action("send", c) \in Actions /\ Action("end", c) \in Actions
  BY <1>1, ActionsMade
<1>7. Continues(q)
  <2>1. CASE q = st.queue
    BY <2>1 DEF RunOK
  <2>2. CASE q # st.queue
    <3>1. PICK x \in Actions : q = Append(st.queue, x) /\ Len(st.queue) < QLen
      BY <1>2, <1>6, <2>2 DEF Looked
    <3>2. /\ Len(q) = Len(st.queue) + 1 /\ Len(st.queue) \in Nat
          /\ \A i \in 1 .. Len(st.queue) : q[i] = st.queue[i]
      BY <1>3, <3>1
    <3>3. queue \in Seq(Actions) /\ QLen \in Nat
      BY EngineAssumption DEF EngineTypeOK
    <3>4. Len(queue) \in Nat
      BY <3>3
    <3> QED
      BY <3>1, <3>2, <3>3, <3>4 DEF RunOK, Continues
  <2> QED
    BY <2>1, <2>2
<1>8. ASSUME CallersOK, NEW d \in Callers
      PROVE  CallerOK(d, at[d], d \in InChain, PendingIf(q), new[d])
  <2> DEFINE p == PendingIf(st.queue)
  <2>1. p \in Seq(Actions) /\ CallerOK(d, at[d], d \in InChain, p, st.search[d])
    BY <1>3, <1>8, PendingTyped DEF RunOK, AllOK
  <2>2. \A x \in Actions : PendingIf(Append(st.queue, x)) = Append(p, x)
    BY <1>3, PendingAppend
  <2>3. \/ PendingIf(q) = p /\ (s.state = "OFF" <=> old.state = "OFF")
        \/ /\ old.state # "OFF"
           /\ \/ PendingIf(q) = Append(p, Action("send", c)) /\ s.state # "OFF"
              \/ PendingIf(q) = Append(p, Action("end", c)) /\ s.state = "OFF"
    BY <1>2, <1>6, <2>2 DEF Looked
  <2>4. s.done = old.done /\ s.live = old.live
    BY <1>2 DEF Looked
  <2> HIDE DEF p
  <2>5. CASE d = c
    <3>1. CallerOK(c, at[c], TRUE, p, old)
      BY <2>1, <2>5
    <3>2. CallerOK(c, at[c], TRUE, PendingIf(q), s)
      BY <1>1, <2>1, <2>3, <2>4, <3>1, OwnActions
    <3> QED
      BY <1>4, <2>5, <3>2
  <2>6. CASE d # c
    <3>1. new[d] = st.search[d]
      BY <1>4, <2>6
    <3>2. CASE PendingIf(q) = p
      BY <2>1, <3>1, <3>2
    <3>3. CASE PendingIf(q) # p
      <4>1. PICK type \in {"send", "end"} : PendingIf(q) = Append(p, Action(type, c))
        BY <2>3, <3>3
      <4>2. Action(type, c) \in Actions
        BY <1>6
      <4> QED
        BY <2>1, <2>6, <3>1, <4>1, <4>2, OthersActions
    <3> QED
      BY <3>2, <3>3
  <2> QED
    BY <2>5, <2>6
<1>9. CallersOK => AllOK(q, new)
  BY <1>8 DEF AllOK
<1> QED
  BY <1>5, <1>7, <1>9 DEF RunOK

\* All of them
LEMMA SearchRunKeeps ==
  ASSUME EngineTypeOK, SearchRun
  PROVE  /\ queue' \in Seq(Actions) /\ search' \in [Callers -> Searches]
         /\ Continues(queue') /\ (CallersOK => AllOK(queue', search'))
<1> DEFINE First == [queue |-> queue, search |-> search]
           Good == {st \in Runs : RunOK(st)}
           Is(f) == f = [i \in 0 .. Len(chain) |->
                           IF i = 0 THEN First ELSE LooksAt(f[i - 1], chain[i])]
           run == CHOOSE f : Is(f)
<1>1. queue' = run[Len(chain)].queue /\ search' = run[Len(chain)].search
  BY DEF SearchRun
<1>2. Len(chain) \in Nat /\ (\A i \in 1 .. Len(chain) : chain[i] \in InChain)
  BY DEF EngineTypeOK, InChain
<1>3. First \in Good
  <2>1. First \in Runs /\ First.queue = queue /\ First.search = search
    BY DEF EngineTypeOK, Runs
  <2>2. Continues(queue)
    BY DEF EngineTypeOK, Continues
  <2>3. PendingIf(queue) = Pending
    BY DEF PendingIf, Pending
  <2>4. CallersOK => AllOK(queue, search)
    BY <2>3 DEF CallersOK, AllOK
  <2> HIDE DEF First
  <2> QED
    BY <2>1, <2>2, <2>4 DEF RunOK
<1>4. \A i \in 1 .. Len(chain) : \A st \in Good : LooksAt(st, chain[i]) \in Good
  BY <1>2, LooksAtKeeps
<1> HIDE DEF Good, First
<1>5. \E f : Is(f)
  <2> DEFINE T == [i \in Nat |-> [st \in Good |->
                     IF i \in 1 .. Len(chain) THEN LooksAt(st, chain[i]) ELSE st]]
  <2>1. T \in [Nat -> [Good -> Good]]
    BY <1>4
  <2>2. \A i \in 1 .. Len(chain) : \A st \in Good : T[i][st] = LooksAt(st, chain[i])
    BY <1>2
  <2> HIDE DEF T
  <2>3. PICK g \in [0 .. Len(chain) -> Good] : Follows(g, First, T, Len(chain))
    BY <1>2, <1>3, <2>1, Recursion
  <2>4. g[0] = First /\ \A i \in 1 .. Len(chain) : g[i] = T[i][g[i - 1]] /\ g[i - 1] \in Good
    BY <1>2, <2>3 DEF Follows
  <2>5. \A i \in 0 .. Len(chain) : i = 0 \/ i \in 1 .. Len(chain)
    BY <1>2
  <2>6. \A i \in 1 .. Len(chain) : i # 0
    BY <1>2
  <2>7. \A i \in 0 .. Len(chain) :
          g[i] = IF i = 0 THEN First ELSE LooksAt(g[i - 1], chain[i])
    BY <2>2, <2>4, <2>5, <2>6
  <2> QED
    BY <2>7
<1>6. Is(run)
  <2> HIDE DEF Is
  <2> QED
    BY <1>5
<1> HIDE DEF run
<1>7. /\ run[0] = First
      /\ \A i \in 1 .. Len(chain) : run[i] = LooksAt(run[i - 1], chain[i])
  <2>1. 0 \in 0 .. Len(chain) /\ (\A i \in 1 .. Len(chain) : i \in 0 .. Len(chain) /\ i # 0)
    BY <1>2
  <2> QED
    BY <1>6, <2>1
<1> DEFINE OK == {i \in 0 .. Len(chain) : run[i] \in Good}
<1>8. 0 \in OK
  BY <1>2, <1>3, <1>7
<1>9. \A i \in 1 .. Len(chain) : i - 1 \in OK => i \in OK
  BY <1>2, <1>4, <1>7
<1>10. 0 .. Len(chain) \subseteq OK
  <2> HIDE DEF OK
  <2> QED
    BY <1>2, <1>8, <1>9, UpTo
<1>11. run[Len(chain)] \in Good
  BY <1>2, <1>10
<1> QED
  BY <1>1, <1>11 DEF Good, Runs, RunOK

-----------------------------------------------------------------------------
(* The types.                                                               *)

\* An action is posted, if there is room.
LEMMA PostTyped ==
  ASSUME EngineTypeOK, NEW type, NEW obj, Action(type, obj) \in Actions, Room, Post(type, obj)
  PROVE  /\ queue' \in Seq(Actions) /\ Len(queue') <= QLen
         /\ queue' = Append(queue, Action(type, obj))
<1>1. queue \in Seq(Actions) /\ QLen \in Nat /\ Len(queue) < QLen
  BY EngineAssumption DEF EngineTypeOK, Room
<1> QED
  BY <1>1 DEF Post

LEMMA NothingTyped == Nothing \in Packets /\ ~Nothing.queued
BY DEF Nothing, Packets

\* A packet that has been sent waits again.
LEMMA AgainTyped ==
  ASSUME NEW k \in Packets, NEW w \in Int
  PROVE  LET r == [k EXCEPT !.wait = w, !.sends = @ + 1, !.queued = FALSE] IN
         r \in Packets /\ ~r.queued /\ r.wait = w
<1> DEFINE r == [k EXCEPT !.wait = w, !.sends = @ + 1, !.queued = FALSE]
<1>1. r \in [wait : {w}, sends : {k.sends + 1}, queued : {FALSE}, pcb : {k.pcb}]
  BY DEF Packets
<1>2. k.sends + 1 \in Nat /\ k.pcb \in Pcbs \cup {None}
  BY DEF Packets
<1> HIDE DEF r
<1>3. r \in Packets /\ ~r.queued /\ r.wait = w
  BY <1>1, <1>2 DEF Packets
<1> QED
  BY <1>3 DEF r

LEMMA SchedulerRunTypes == EngineTypeOK /\ SchedulerRun => EngineTypeOK'
<1> SUFFICES ASSUME EngineTypeOK, SchedulerRun PROVE EngineTypeOK'
  OBVIOUS
<1>1. CASE Room /\ FirstDue # {}
  <2>1. PICK i \in FirstDue : /\ Post("tx", tx[i])
                              /\ packet' = [packet EXCEPT ![tx[i]].queued = TRUE]
    BY <1>1 DEF SchedulerRun
  <2>2. tx[i] \in Addrs
    BY DEF FirstDue, EngineTypeOK
  <2>3. queue' \in Seq(Actions) /\ Len(queue') <= QLen
    BY <1>1, <2>1, <2>2, ActionsMade, PostTyped
  <2>4. packet' \in [Addrs -> Packets]
    BY <2>1, <2>2 DEF EngineTypeOK, Packets
  <2> QED
    BY <2>3, <2>4 DEF SchedulerRun, EngineTypeOK
<1>2. CASE ~(Room /\ FirstDue # {})
  BY <1>2 DEF SchedulerRun, EngineTypeOK
<1> QED
  BY <1>1, <1>2

LEMMA SearchRunTypes == EngineTypeOK /\ SearchRun => EngineTypeOK'
<1> SUFFICES ASSUME EngineTypeOK, SearchRun PROVE EngineTypeOK'
  OBVIOUS
<1>1. queue' \in Seq(Actions) /\ Len(queue') <= QLen /\ search' \in [Callers -> Searches]
  BY SearchRunKeeps DEF Continues
<1> QED
  BY <1>1 DEF SearchRun, EngineTypeOK

LEMMA ReceiveTypes == EngineTypeOK /\ Receive => EngineTypeOK'
<1> SUFFICES ASSUME EngineTypeOK, Receive PROVE EngineTypeOK'
  OBVIOUS
<1>1. queue \in Seq(Actions) /\ queue # <<>> /\ Len(queue) <= QLen /\ QLen \in Nat
  BY EngineAssumption DEF EngineTypeOK, Receive
<1>2. /\ Head(queue) \in Actions /\ Tail(queue) \in Seq(Actions)
      /\ Len(Tail(queue)) <= QLen
  BY <1>1
<1> QED
  BY <1>2 DEF Receive, EngineTypeOK

\* The packet that has been sent
LEMMA ExecuteTxTypes == EngineTypeOK /\ ExecuteTx => EngineTypeOK'
<1> SUFFICES ASSUME EngineTypeOK, ExecuteTx PROVE EngineTypeOK'
  OBVIOUS
<1> DEFINE a == current.obj
<1>1. /\ current' = None
      /\ UNCHANGED <<queue, chain, search, timer, at, calls, posts>>
  BY DEF ExecuteTx, Executes
<1>2. tx \in Seq(Addrs) /\ packet \in [Addrs -> Packets]
  BY DEF EngineTypeOK
<1>3. CASE tx # <<>> /\ a = Head(tx) /\ packet[a].queued
  <2>1. a \in Addrs /\ Tail(tx) \in Seq(Addrs)
    BY <1>2, <1>3
  <2>2. CASE /\ tx' = Tail(tx)
             /\ packet' = [packet EXCEPT ![a] = Nothing]
    BY <1>1, <1>2, <2>1, <2>2, NothingTyped DEF EngineTypeOK
  <2>3. ASSUME NEW w \in 1 .. Delay,
               tx' = Schedule(Tail(tx), a, w),
               packet' = [packet EXCEPT ![a].wait = w, ![a].sends = @ + 1, ![a].queued = FALSE]
        PROVE  EngineTypeOK'
    <3>1. w \in Int
      BY EngineAssumption
    <3>2. \A b \in Addrs : packet[b].wait \in Int
      BY <1>2 DEF Packets
    <3>3. tx' \in Seq(Addrs)
      BY <2>1, <2>3, <3>1, <3>2, ScheduleInserts
    <3>4. packet' \in [Addrs -> Packets]
      <4>1. [packet[a] EXCEPT !.wait = w, !.sends = @ + 1, !.queued = FALSE] \in Packets
        <5>1. PICK k \in Packets : k = packet[a]
          BY <1>2, <2>1
        <5> QED
          BY <3>1, <5>1, AgainTyped
      <4>2. packet' = [packet EXCEPT ![a] =
              [packet[a] EXCEPT !.wait = w, !.sends = @ + 1, !.queued = FALSE]]
        BY <1>2, <2>1, <2>3
      <4> QED
        BY <1>2, <4>1, <4>2
    <3> QED
      BY <1>1, <3>3, <3>4 DEF EngineTypeOK
  <2> QED
    BY <1>3, <2>2, <2>3 DEF ExecuteTx
<1>4. CASE ~(tx # <<>> /\ a = Head(tx) /\ packet[a].queued)
  <2>1. UNCHANGED <<tx, packet>>
    BY <1>4 DEF ExecuteTx
  <2> QED
    BY <1>1, <2>1 DEF EngineTypeOK
<1> QED
  BY <1>3, <1>4

\* What a new packet leaves of the others: q is the transmit queue without it,
\* and free an address not in q that it takes.
NewPacket(q, a, w, p) ==
  /\ q \in Seq(Addrs) /\ a \in Addrs /\ w \in 0 .. Delay /\ p \in Pcbs
  /\ \A i \in DOMAIN q : q[i] # a
  /\ tx' = Schedule(q, a, w)
  /\ packet' = [b \in Addrs |->
                  IF b = a THEN [wait |-> w, sends |-> 1, queued |-> FALSE, pcb |-> p]
                  ELSE IF \E i \in DOMAIN q : q[i] = b THEN packet[b] ELSE Nothing]

LEMMA WorkCases ==
  ASSUME EngineTypeOK, ExecuteWork
  PROVE  \/ UNCHANGED <<tx, packet>>
         \/ \E p \in Pcbs : \E S : \E q \in {tx, Keep(tx, S)} : \E a, w : NewPacket(q, a, w, p)
<1> DEFINE p == current.obj
           S == {a \in Addrs : packet[a].pcb # p}
           q == IF current.type = "restart" THEN Cleared(p) ELSE tx
           free == {a \in Addrs : \A i \in DOMAIN q : q[i] # a}
           kept == [a \in Addrs |-> IF a \in free THEN Nothing ELSE packet[a]]
           k(w) == [wait |-> w, sends |-> 1, queued |-> FALSE, pcb |-> p]
<1>1. p \in Pcbs
  <2>1. current \in Actions /\ current.type \in {"restart", "announce"}
    BY DEF ExecuteWork, Executes, EngineTypeOK
  <2> QED
    BY <2>1 DEF Actions
<1>2. q \in {tx, Keep(tx, S)} /\ q \in Seq(Addrs)
  BY KeepRemains DEF Cleared, EngineTypeOK
<1>3. CASE ~UNCHANGED <<tx, packet>>
  <2>1. PICK a \in free, w \in 0 .. Delay :
          tx' = Schedule(q, a, w) /\ packet' = [kept EXCEPT ![a] = k(w)]
    BY <1>3 DEF ExecuteWork
  <2>2. packet' = [b \in Addrs |-> IF b = a THEN k(w)
                     ELSE IF \E i \in DOMAIN q : q[i] = b THEN packet[b] ELSE Nothing]
    BY <2>1
  <2>3. a \in Addrs /\ (\A i \in DOMAIN q : q[i] # a)
    OBVIOUS
  <2> HIDE DEF q, p
  <2>4. NewPacket(q, a, w, p)
    BY <1>1, <1>2, <2>1, <2>2, <2>3 DEF NewPacket
  <2> QED
    BY <1>1, <1>2, <2>4
<1> QED
  BY <1>3

LEMMA ExecuteWorkTypes == EngineTypeOK /\ ExecuteWork => EngineTypeOK'
<1> SUFFICES ASSUME EngineTypeOK, ExecuteWork PROVE EngineTypeOK'
  OBVIOUS
<1>1. current' = None /\ UNCHANGED <<queue, chain, search, timer, at, calls, posts>>
  BY DEF ExecuteWork, Executes
<1>2. CASE UNCHANGED <<tx, packet>>
  BY <1>1, <1>2 DEF EngineTypeOK
<1>3. ASSUME NEW p, NEW q, NEW a, NEW w, NewPacket(q, a, w, p) PROVE EngineTypeOK'
  <2>1. packet \in [Addrs -> Packets] /\ (\A b \in Addrs : packet[b].wait \in Int)
    BY DEF EngineTypeOK, Packets
  <2>2. w \in Int /\ w \in 0 .. Delay
    BY <1>3, EngineAssumption DEF NewPacket
  <2>3. tx' \in Seq(Addrs)
    BY <1>3, <2>1, <2>2, ScheduleInserts DEF NewPacket
  <2>4. [wait |-> w, sends |-> 1, queued |-> FALSE, pcb |-> p] \in Packets
    BY <1>3, <2>2 DEF NewPacket, Packets
  <2>5. packet' \in [Addrs -> Packets]
    BY <1>3, <2>1, <2>4, NothingTyped DEF NewPacket
  <2> QED
    BY <1>1, <2>3, <2>5 DEF EngineTypeOK
<1> QED
  BY <1>2, <1>3, WorkCases

\* What is not unlinked stays in the list, and nothing else is.
LEMMA KeepMembers ==
  ASSUME NEW X, NEW q \in Seq(X), NEW S, NEW c
  PROVE  (\E i \in DOMAIN Keep(q, S) : Keep(q, S)[i] = c)
           <=> c \in S /\ \E k \in DOMAIN q : q[k] = c
<1> DEFINE r == Keep(q, S)
<1>1. r \in Seq(X) /\ Remains(r, q, Len(q), S)
  BY KeepRemains
<1> HIDE DEF r
<1>2. PICK e \in [1 .. Len(r) -> 1 .. Len(q)] :
        /\ \A i \in 1 .. Len(r) : r[i] = q[e[i]]
        /\ \A k \in 1 .. Len(q) : q[k] \in S <=> \E i \in 1 .. Len(r) : e[i] = k
  BY <1>1 DEF Remains
<1>3. DOMAIN r = 1 .. Len(r) /\ DOMAIN q = 1 .. Len(q)
  BY <1>1
<1>4. (\E i \in DOMAIN r : r[i] = c) <=> c \in S /\ \E k \in DOMAIN q : q[k] = c
  BY <1>2, <1>3
<1> QED
  BY <1>4 DEF r

LEMMA FinishTypes ==
  ASSUME EngineTypeOK, NEW cs, NEW s \in [Callers -> Searches], Finish(cs, s)
  PROVE  chain' \in Seq(Callers) /\ search' \in [Callers -> Searches]
<1>1. chain' \in Seq(Callers)
  BY KeepRemains DEF EngineTypeOK, Finish
<1>2. ASSUME NEW c \in Callers
      PROVE  [NoSearch EXCEPT !.done = TRUE, !.live = s[c].live] \in Searches
  <2>1. s[c].live \in BOOLEAN /\ NoSearch \in Searches
    BY DEF NoSearch, Searches
  <2> QED
    BY <2>1 DEF Searches
<1>3. search' \in [Callers -> Searches]
  BY <1>2 DEF Finish
<1> QED
  BY <1>1, <1>3

\* What a response leaves of a search before those that are full are finished
Counted(hits) ==
  [c \in Callers |-> IF c \in hits /\ MaxResults[c] # 0
                     THEN [search[c] EXCEPT !.num = @ + 1] ELSE search[c]]

LEMMA CountedTyped ==
  ASSUME EngineTypeOK, NEW hits, NEW c \in Callers
  PROVE  /\ Counted(hits) \in [Callers -> Searches]
         /\ IF c \in hits /\ MaxResults[c] # 0
            THEN /\ Counted(hits)[c].num = search[c].num + 1
                 /\ Counted(hits)[c].state = search[c].state
                 /\ Counted(hits)[c].done = search[c].done
                 /\ Counted(hits)[c].live = search[c].live
            ELSE Counted(hits)[c] = search[c]
<1>1. ASSUME NEW k \in Searches
      PROVE  /\ [k EXCEPT !.num = @ + 1] \in Searches
             /\ [k EXCEPT !.num = @ + 1].num = k.num + 1
             /\ [k EXCEPT !.num = @ + 1].state = k.state
             /\ [k EXCEPT !.num = @ + 1].done = k.done
             /\ [k EXCEPT !.num = @ + 1].live = k.live
  BY DEF Searches
<1>2. \A d \in Callers : search[d] \in Searches
  BY DEF EngineTypeOK
<1> QED
  BY <1>1, <1>2 DEF Counted

LEMMA ExecutesTypes ==
  ASSUME EngineTypeOK,
         ExecuteAdd \/ ExecuteSend \/ ExecuteEnd \/ ExecuteRx \/ ExecuteHost
  PROVE  EngineTypeOK'
<1>1. CASE ExecuteAdd
  <2>1. current.obj \in Callers
    BY <1>1 DEF ExecuteAdd, Executes, EngineTypeOK, Actions
  <2>2. chain' \in Seq(Callers)
    BY <1>1, <2>1 DEF ExecuteAdd, EngineTypeOK
  <2> QED
    BY <1>1, <2>2 DEF ExecuteAdd, Executes, EngineTypeOK
<1>2. CASE ExecuteSend
  BY <1>2 DEF ExecuteSend, Executes, EngineTypeOK
<1>3. CASE ExecuteEnd
  <2>1. chain' \in Seq(Callers) /\ search' \in [Callers -> Searches]
    BY <1>3, FinishTypes DEF ExecuteEnd, EngineTypeOK
  <2> QED
    BY <1>3, <2>1 DEF ExecuteEnd, Executes, EngineTypeOK
<1>4. CASE ExecuteRx
  <2>1. PICK hits, cs : Finish(cs, Counted(hits))
    BY <1>4 DEF ExecuteRx, Counted
  <2>2. \A c \in Callers : Counted(hits) \in [Callers -> Searches]
    BY CountedTyped
  <2>3. Counted(hits) \in [Callers -> Searches]
    BY <2>2 DEF Counted
  <2>4. chain' \in Seq(Callers) /\ search' \in [Callers -> Searches]
    BY <2>1, <2>3, FinishTypes
  <2> QED
    BY <1>4, <2>4 DEF ExecuteRx, Executes, EngineTypeOK
<1>5. CASE ExecuteHost
  BY <1>5 DEF ExecuteHost, Executes, EngineTypeOK
<1> QED
  BY <1>1, <1>2, <1>3, <1>4, <1>5

LEMMA NoSearchTyped == NoSearch \in Searches
BY DEF NoSearch, Searches

LEMMA CallTypes ==
  ASSUME EngineTypeOK, NEW c \in Callers,
         Query(c, "sync") \/ Query(c, "async") \/ SetHostname(c) \/ Return(c)
  PROVE  EngineTypeOK'
<1>1. ASSUME NEW call \in {"sync", "async", "host"}, Begins(c, call)
      PROVE  calls' \in [Callers -> 0 .. MaxCalls]
  BY <1>1, EngineAssumption DEF Begins, EngineTypeOK
<1>2. ASSUME NEW call \in {"sync", "async"}, Query(c, call) PROVE EngineTypeOK'
  <2> DEFINE k == [state |-> "INIT", left |-> Timeout, age |-> 0, num |-> 0, done |-> FALSE,
                   live |-> TRUE]
  <2>1. k \in Searches
    BY EngineAssumption DEF Searches
  <2>2. calls' \in [Callers -> 0 .. MaxCalls]
    BY <1>1, <1>2 DEF Query
  <2>3. CASE Room
    <3>1. queue' \in Seq(Actions) /\ Len(queue') <= QLen
      BY <1>2, <2>3, ActionsMade, PostTyped DEF Query
    <3>2. search' = [search EXCEPT ![c] = k] /\ at' = [at EXCEPT ![c] = call]
      BY <1>2, <2>3 DEF Query
    <3> HIDE DEF k
    <3>3. search' \in [Callers -> Searches]
          /\ at' \in [Callers -> {"idle", "sync", "async", "host", "notified", "taken", "delete"}]
      BY <2>1, <3>2 DEF EngineTypeOK
    <3> QED
      BY <1>2, <2>2, <3>1, <3>3 DEF Query, EngineTypeOK
  <2>4. CASE ~Room
    BY <1>2, <2>2, <2>4 DEF Query, EngineTypeOK
  <2> QED
    BY <2>3, <2>4
<1>3. ASSUME SetHostname(c) PROVE EngineTypeOK'
  <2>1. calls' \in [Callers -> 0 .. MaxCalls]
    BY <1>1, <1>3 DEF SetHostname
  <2>2. CASE Room
    <3>1. queue' \in Seq(Actions) /\ Len(queue') <= QLen
      BY <1>3, <2>2, ActionsMade, PostTyped DEF SetHostname
    <3> QED
      BY <1>3, <2>1, <2>2, <3>1 DEF SetHostname, EngineTypeOK
  <2>3. CASE ~Room
    BY <1>3, <2>1, <2>3 DEF SetHostname, EngineTypeOK
  <2> QED
    BY <2>2, <2>3
<1>4. ASSUME Return(c) PROVE EngineTypeOK'
  <2>1. [search EXCEPT ![c] = NoSearch] \in [Callers -> Searches]
    BY NoSearchTyped DEF EngineTypeOK
  <2>2. [search EXCEPT ![c].done = FALSE] \in [Callers -> Searches]
    BY DEF EngineTypeOK, Searches
  <2>3. CASE Notified(c)
    BY <2>3 DEF Notified, EngineTypeOK
  <2>4. CASE SyncReturns(c)
    BY <2>1, <2>4 DEF SyncReturns, EngineTypeOK
  <2>5. CASE GetResults(c)
    BY <2>2, <2>5 DEF GetResults, EngineTypeOK
  <2>6. CASE DeleteTest(c)
    BY <2>6 DEF DeleteTest, EngineTypeOK
  <2>7. CASE Delete(c)
    BY <2>1, <2>7 DEF Delete, EngineTypeOK
  <2> QED
    BY <1>4, <2>3, <2>4, <2>5, <2>6, <2>7 DEF Return
<1> QED
  BY <1>2, <1>3, <1>4

\* Time passes.
LEMMA TickTypes == EngineTypeOK /\ Tick => EngineTypeOK'
<1> SUFFICES ASSUME EngineTypeOK, Tick PROVE EngineTypeOK'
  OBVIOUS
<1>1. ASSUME NEW k \in Packets PROVE [k EXCEPT !.wait = Later(@, -1)] \in Packets
  BY DEF Packets, Later
<1>2. packet' \in [Addrs -> Packets]
  BY <1>1 DEF Tick, EngineTypeOK
<1>3. ASSUME NEW k \in Searches
      PROVE  [k EXCEPT !.left = Later(@, -1), !.age = IF @ <= Resend THEN @ + 1 ELSE @] \in Searches
  <2>1. Later(k.left, -1) \in Int /\ (IF k.age <= Resend THEN k.age + 1 ELSE k.age) \in Int
    BY DEF Searches, Later
  <2> QED
    BY <2>1 DEF Searches
<1>4. search' \in [Callers -> Searches]
  BY <1>3 DEF Tick, EngineTypeOK
<1> QED
  BY <1>2, <1>4 DEF Tick, EngineTypeOK

LEMMA OutsideTypes ==
  ASSUME EngineTypeOK, NEW type, NEW obj, Action(type, obj) \in Actions, Outside(type, obj)
  PROVE  EngineTypeOK'
<1>1. posts' \in 0 .. MaxPosts
  BY EngineAssumption DEF Outside, EngineTypeOK
<1>2. queue' \in Seq(Actions) /\ Len(queue') <= QLen
  BY PostTyped DEF Outside, EngineTypeOK
<1> QED
  BY <1>1, <1>2 DEF Outside, EngineTypeOK

\* The variables have their types: what the service task receives is an action,
\* the queue never holds more than QLen, and the lists hold what they should.
THEOREM EngineTypes == Spec => []EngineTypeOK
<1>1. Init => EngineTypeOK
  <2> SUFFICES ASSUME Init PROVE EngineTypeOK
    OBVIOUS
  <2>1. packet \in [Addrs -> Packets] /\ search \in [Callers -> Searches]
    BY NothingTyped, NoSearchTyped DEF Init
  <2>2. calls \in [Callers -> 0 .. MaxCalls] /\ posts \in 0 .. MaxPosts /\ Len(queue) <= QLen
    BY EngineAssumption DEF Init
  <2> QED
    BY <2>1, <2>2 DEF Init, EngineTypeOK
<1>2. EngineTypeOK /\ [Next]_vars => EngineTypeOK'
  <2> SUFFICES ASSUME EngineTypeOK, [Next]_vars PROVE EngineTypeOK'
    OBVIOUS
  <2>1. CASE Service
    BY <2>1, ReceiveTypes, ExecuteTxTypes, ExecuteWorkTypes, ExecutesTypes DEF Service
  <2>2. CASE Timer
    BY <2>2, SchedulerRunTypes, SearchRunTypes DEF Timer
  <2>3. CASE Tick
    BY <2>3, TickTypes
  <2>4. ASSUME NEW c \in Callers,
               Query(c, "sync") \/ Query(c, "async") \/ SetHostname(c) \/ Return(c)
        PROVE  EngineTypeOK'
    BY <2>4, CallTypes
  <2>5. ASSUME NEW type, NEW obj, Action(type, obj) \in Actions, Outside(type, obj)
        PROVE  EngineTypeOK'
    BY <2>5, OutsideTypes
  <2>6. CASE UNCHANGED vars
    BY <2>6 DEF vars, EngineTypeOK
  <2> QED
    BY <2>1, <2>2, <2>3, <2>4, <2>5, <2>6, ActionsMade DEF Next, Steps
<1> QED
  BY <1>1, <1>2, PTL DEF Spec

-----------------------------------------------------------------------------
(* The searches.                                                            *)

\* What the service task has received is made of its type and its object.
LEMMA CurrentMade ==
  ASSUME EngineTypeOK, current # None
  PROVE  /\ current \in Actions /\ current = Action(current.type, current.obj)
         /\ current.type \in {"add", "end", "host"} => current.obj \in Callers
         /\ \A c : current \in Matters(c) => /\ current.type \in {"add", "end", "host"}
                                             /\ current.obj = c
<1>1. current \in Actions
  BY DEF EngineTypeOK
<1>2. current = Action(current.type, current.obj)
  BY <1>1 DEF Actions, Action
<1>3. current.type \in {"add", "end", "host"} => current.obj \in Callers
  BY <1>1 DEF Actions
<1>4. \A c : current \in Matters(c) => /\ current.type \in {"add", "end", "host"}
                                       /\ current.obj = c
  BY ActionFields DEF Matters
<1> QED
  BY <1>1, <1>2, <1>3, <1>4

\* A search that has been finished
Ended(live) == [NoSearch EXCEPT !.done = TRUE, !.live = live]

\* Nothing that matters has changed for a caller.
LEMMA CallerSame ==
  ASSUME NEW c, NEW place, NEW linked, NEW p, NEW r, NEW s, NEW k,
         CallerOK(c, place, linked, p, s), Once(r, c),
         \A y \in Matters(c) : Places(r, y) = {} <=> Places(p, y) = {},
         k.state = "OFF" <=> s.state = "OFF",
         k.done = s.done, k.live = s.live
  PROVE  CallerOK(c, place, linked, r, k)
<1>1. /\ Places(r, Action("add", c)) = {} <=> Places(p, Action("add", c)) = {}
      /\ Places(r, Action("end", c)) = {} <=> Places(p, Action("end", c)) = {}
      /\ Places(r, Action("host", c)) = {} <=> Places(p, Action("host", c)) = {}
  BY DEF Matters
<1>2. Sought(c, linked, p, s) => Sought(c, linked, r, k)
  BY <1>1 DEF Sought
<1>3. Untouched(c, place, linked, p, s) => Untouched(c, place, linked, r, k)
  BY <1>1 DEF Untouched
<1> QED
  BY <1>1, <1>2, <1>3 DEF CallerOK

\* Another one's actions are taken from the queue, ...
LEMMA OthersTaken ==
  ASSUME NEW p \in Seq(Actions), p # <<>>, NEW c, NEW place, NEW linked, NEW s, NEW k,
         CallerOK(c, place, linked, p, s), Head(p) \notin Matters(c),
         k.state = "OFF" <=> s.state = "OFF",
         k.done = s.done, k.live = s.live
  PROVE  CallerOK(c, place, linked, Tail(p), k)
<1>1. Once(p, c)
  BY DEF CallerOK
<1>2. Once(Tail(p), c)
  BY <1>1, TailOnce
<1>3. \A y \in Matters(c) : Places(Tail(p), y) = {} <=> Places(p, y) = {}
  BY <1>1, TailOnce
<1> QED
  BY <1>2, <1>3, CallerSame

\* ... or posted.
LEMMA OthersPosted ==
  ASSUME NEW p \in Seq(Actions), NEW x \in Actions, NEW c, NEW place, NEW linked, NEW s,
         CallerOK(c, place, linked, p, s), x \notin Matters(c)
  PROVE  CallerOK(c, place, linked, Append(p, x), s)
<1>1. \A y \in Matters(c) : Places(Append(p, x), y) = Places(p, y)
  BY AppendPlaces
<1>2. Once(Append(p, x), c)
  BY <1>1 DEF CallerOK, Once, Matters
<1> QED
  BY <1>1, <1>2, CallerSame

\* Its own: the search is linked, ...
LEMMA AddTaken ==
  ASSUME NEW p \in Seq(Actions), p # <<>>, NEW c, NEW place, NEW linked, NEW s,
         CallerOK(c, place, linked, p, s), Head(p) = Action("add", c)
  PROVE  CallerOK(c, place, TRUE, Tail(p), s)
<1>1. Once(p, c)
  BY DEF CallerOK
<1>2. Once(Tail(p), c)
  BY <1>1, TailOnce
<1>3. /\ Places(Tail(p), Action("add", c)) = {} /\ Places(p, Action("add", c)) # {}
      /\ Places(Tail(p), Action("end", c)) = {} <=> Places(p, Action("end", c)) = {}
      /\ Places(Tail(p), Action("host", c)) = {} <=> Places(p, Action("host", c)) = {}
  <2>1. Action("add", c) # Action("end", c) /\ Action("add", c) # Action("host", c)
    BY DEF Action
  <2> QED
    BY <1>1, <2>1, TailOnce DEF Matters
<1>4. place \in {"sync", "async"} /\ ~s.done /\ Sought(c, linked, p, s)
  BY <1>3 DEF CallerOK, Untouched
<1>5. Sought(c, TRUE, Tail(p), s)
  BY <1>3, <1>4 DEF Sought
<1> QED
  BY <1>2, <1>3, <1>4, <1>5 DEF CallerOK

\* ... or finished, ...
LEMMA EndTaken ==
  ASSUME NEW p \in Seq(Actions), p # <<>>, NEW c, NEW place, NEW linked, NEW s,
         CallerOK(c, place, linked, p, s), s.live, Head(p) = Action("end", c)
  PROVE  CallerOK(c, place, FALSE, Tail(p), Ended(s.live))
<1> DEFINE k == Ended(s.live)
<1>1. Once(p, c)
  BY DEF CallerOK
<1>2. Once(Tail(p), c)
  BY <1>1, TailOnce
<1>3. /\ Places(Tail(p), Action("end", c)) = {} /\ Places(p, Action("end", c)) # {}
      /\ Places(Tail(p), Action("add", c)) = {} <=> Places(p, Action("add", c)) = {}
      /\ Places(Tail(p), Action("host", c)) = {} <=> Places(p, Action("host", c)) = {}
  <2>1. Action("end", c) # Action("add", c) /\ Action("end", c) # Action("host", c)
    BY DEF Action
  <2> QED
    BY <1>1, <2>1, TailOnce DEF Matters
<1>4. \/ place \in {"sync", "async"} /\ ~s.done /\ Sought(c, linked, p, s)
      \/ Untouched(c, place, linked, p, s)
  BY DEF CallerOK
<1>5. k.state = "OFF" /\ k.done /\ k.live = s.live
  BY DEF NoSearch, Ended
<1> HIDE DEF k
<1>6. Untouched(c, place, FALSE, Tail(p), k)
  BY <1>3, <1>4, <1>5 DEF Sought, Untouched
<1>7. CallerOK(c, place, FALSE, Tail(p), k)
  BY <1>2, <1>3, <1>4, <1>5, <1>6 DEF CallerOK, Sought, Untouched
<1> QED
  BY <1>7 DEF k

\* ... because it has enough results, even if the end of its time is pending, ...
LEMMA FullTaken ==
  ASSUME NEW p \in Seq(Actions), p # <<>>, NEW c, NEW place, NEW s, NEW live,
         CallerOK(c, place, TRUE, p, s), Head(p) \notin Matters(c),
         MaxResults[c] # 0, live = s.live
  PROVE  CallerOK(c, place, FALSE, Tail(p), Ended(live))
<1> DEFINE k == Ended(live)
<1>1. Once(p, c)
  BY DEF CallerOK
<1>2. Once(Tail(p), c)
  BY <1>1, TailOnce
<1>3. /\ Places(Tail(p), Action("end", c)) = {} <=> Places(p, Action("end", c)) = {}
      /\ Places(Tail(p), Action("add", c)) = {} <=> Places(p, Action("add", c)) = {}
      /\ Places(Tail(p), Action("host", c)) = {} <=> Places(p, Action("host", c)) = {}
  BY <1>1, TailOnce DEF Matters
<1>4. place \in {"sync", "async"} /\ ~s.done /\ Sought(c, TRUE, p, s)
  BY <1>3 DEF CallerOK, Untouched
<1>5. k.state = "OFF" /\ k.done /\ k.live = s.live
  BY DEF NoSearch, Ended
<1> HIDE DEF k
<1>6. Untouched(c, place, FALSE, Tail(p), k)
  BY <1>3, <1>4, <1>5 DEF Sought, Untouched
<1>7. CallerOK(c, place, FALSE, Tail(p), k)
  BY <1>2, <1>3, <1>4, <1>5, <1>6 DEF CallerOK
<1> QED
  BY <1>7 DEF k

\* ... or its task is notified.
LEMMA HostTaken ==
  ASSUME NEW p \in Seq(Actions), p # <<>>, NEW c, NEW place, NEW linked, NEW s,
         CallerOK(c, place, linked, p, s), Head(p) = Action("host", c)
  PROVE  CallerOK(c, "notified", linked, Tail(p), s)
<1>1. Once(p, c)
  BY DEF CallerOK
<1>2. Once(Tail(p), c)
  BY <1>1, TailOnce
<1>3. /\ Places(Tail(p), Action("host", c)) = {} /\ Places(p, Action("host", c)) # {}
      /\ Places(Tail(p), Action("add", c)) = {} <=> Places(p, Action("add", c)) = {}
      /\ Places(Tail(p), Action("end", c)) = {} <=> Places(p, Action("end", c)) = {}
  <2>1. Action("host", c) # Action("add", c) /\ Action("host", c) # Action("end", c)
    BY DEF Action
  <2> QED
    BY <1>1, <2>1, TailOnce DEF Matters
<1>4. place = "host" /\ Untouched(c, place, linked, p, s)
  BY <1>3 DEF CallerOK
<1>5. Untouched(c, "notified", linked, Tail(p), s)
  BY <1>3, <1>4 DEF Untouched
<1> QED
  BY <1>2, <1>3, <1>5 DEF CallerOK

\* Nobody else is in the chain after one has been linked or some have been
\* finished.
LEMMA ChainAdd ==
  ASSUME EngineTypeOK, NEW d \in Callers, chain' = <<d>> \o chain, NEW c
  PROVE  c \in InChain' <=> c = d \/ c \in InChain
<1> DEFINE r == <<d>> \o chain
<1>1. /\ Len(chain) \in Nat /\ DOMAIN chain = 1 .. Len(chain)
      /\ DOMAIN r = 1 .. Len(chain) + 1 /\ r[1] = d
      /\ \A i \in 1 .. Len(chain) : r[i + 1] = chain[i] /\ i + 1 \in 1 .. Len(chain) + 1
      /\ \A i \in 1 .. Len(chain) + 1 : i = 1 \/ (i - 1 \in 1 .. Len(chain) /\ r[i] = chain[i - 1])
  BY DEF EngineTypeOK
<1> HIDE DEF r
<1>2. 1 \in DOMAIN r
  BY <1>1
<1>3. ASSUME NEW i \in DOMAIN r, r[i] = c PROVE c = d \/ \E k \in DOMAIN chain : chain[k] = c
  BY <1>1, <1>3
<1>4. ASSUME NEW k \in DOMAIN chain, chain[k] = c PROVE \E i \in DOMAIN r : r[i] = c
  BY <1>1, <1>4
<1>5. (\E i \in DOMAIN r : r[i] = c) <=> c = d \/ \E i \in DOMAIN chain : chain[i] = c
  BY <1>1, <1>2, <1>3, <1>4
<1>6. chain' = r
  BY DEF r
<1> QED
  BY <1>5, <1>6 DEF InChain

LEMMA ChainFinish ==
  ASSUME EngineTypeOK, NEW cs, NEW s, Finish(cs, s), NEW c \in Callers
  PROVE  c \in InChain' <=> c \notin cs /\ c \in InChain
<1>1. PICK S : S = Callers \ cs
  OBVIOUS
<1>2. chain \in Seq(Callers) /\ chain' = Keep(chain, S)
  BY <1>1 DEF EngineTypeOK, Finish
<1>3. (\E i \in DOMAIN Keep(chain, S) : Keep(chain, S)[i] = c)
        <=> c \in S /\ \E i \in DOMAIN chain : chain[i] = c
  BY <1>2, KeepMembers
<1>4. (\E i \in DOMAIN chain' : chain'[i] = c) <=> c \in S /\ \E i \in DOMAIN chain : chain[i] = c
  BY <1>2, <1>3
<1> QED
  BY <1>1, <1>4 DEF InChain

\* What is known of the callers holds of each in the next state.
LEMMA CallersNext ==
  ASSUME \A c \in Callers : CallerOK(c, at'[c], c \in InChain', Pending', search'[c])
  PROVE  CallersOK'
BY DEF CallersOK

LEMMA ExecuteAddKeeps ==
  ASSUME EngineTypeOK, CallersOK, ExecuteAdd
  PROVE  CallersOK'
<1>1. /\ current # None /\ current' = None /\ current.type = "add"
      /\ chain' = <<current.obj>> \o chain
      /\ queue' = queue /\ search' = search /\ at' = at
  BY DEF ExecuteAdd, Executes
<1> DEFINE p == Pending
<1>2. p \in Seq(Actions) /\ p # <<>> /\ Head(p) = current /\ Pending' = Tail(p)
  BY <1>1, PendingTail
<1>3. current.obj \in Callers /\ current = Action("add", current.obj)
  BY <1>1, CurrentMade
<1> SUFFICES ASSUME NEW c \in Callers
             PROVE  CallerOK(c, at'[c], c \in InChain', Pending', search'[c])
  BY CallersNext
<1>4. CallerOK(c, at[c], c \in InChain, p, search[c])
  BY DEF CallersOK
<1> HIDE DEF p
<1>5. c \in InChain' <=> c = current.obj \/ c \in InChain
  BY <1>1, <1>3, ChainAdd
<1>6. CASE c = current.obj
  <2>1. CallerOK(c, at[c], TRUE, Tail(p), search[c])
    BY <1>2, <1>3, <1>4, <1>6, AddTaken
  <2> QED
    BY <1>1, <1>2, <1>5, <1>6, <2>1
<1>7. CASE c # current.obj
  <2>1. Head(p) \notin Matters(c)
    BY <1>1, <1>2, <1>7, CurrentMade
  <2>2. CallerOK(c, at[c], c \in InChain, Tail(p), search[c])
    BY <1>2, <1>4, <2>1, OthersTaken
  <2> QED
    BY <1>1, <1>2, <1>5, <1>7, <2>2
<1> QED
  BY <1>6, <1>7

LEMMA ExecuteEndKeeps ==
  ASSUME EngineTypeOK, CallersOK, ~Dangling, ExecuteEnd
  PROVE  CallersOK'
<1>1. /\ current # None /\ current' = None /\ current.type = "end"
      /\ Finish({current.obj}, search) /\ queue' = queue /\ at' = at
  BY DEF ExecuteEnd, Executes
<1> DEFINE p == Pending
<1>2. p \in Seq(Actions) /\ p # <<>> /\ Head(p) = current /\ Pending' = Tail(p)
  BY <1>1, PendingTail
<1>3. current.obj \in Callers /\ current = Action("end", current.obj)
  BY <1>1, CurrentMade
<1> SUFFICES ASSUME NEW c \in Callers
             PROVE  CallerOK(c, at'[c], c \in InChain', Pending', search'[c])
  BY CallersNext
<1>4. CallerOK(c, at[c], c \in InChain, p, search[c])
  BY DEF CallersOK
<1> HIDE DEF p
<1>5. c \in InChain' <=> c # current.obj /\ c \in InChain
  BY <1>1, ChainFinish
<1>6. search'[c] = IF c = current.obj
                   THEN Ended(search[c].live)
                   ELSE search[c]
  BY <1>1 DEF Finish, Ended
<1>7. CASE c = current.obj
  <2>1. CallerOK(c, at[c], FALSE, Tail(p), Ended(search[c].live))
    <3>1. p[1] = Action("end", c) /\ 1 \in DOMAIN p
      BY <1>2, <1>3, <1>7
    <3>2. search[c].live
      BY <3>1 DEF Dangling, Places, p
    <3> QED
      BY <1>2, <1>3, <1>4, <1>7, <3>2, EndTaken
  <2>2. at'[c] = at[c] /\ search'[c] = Ended(search[c].live) /\ (c \in InChain') = FALSE
    BY <1>1, <1>5, <1>6, <1>7
  <2> QED
    BY <1>2, <2>1, <2>2
<1>8. CASE c # current.obj
  <2>1. Head(p) \notin Matters(c)
    BY <1>1, <1>2, <1>8, CurrentMade
  <2>2. CallerOK(c, at[c], c \in InChain, Tail(p), search[c])
    BY <1>2, <1>4, <2>1, OthersTaken
  <2> QED
    BY <1>1, <1>2, <1>5, <1>6, <1>8, <2>2
<1> QED
  BY <1>7, <1>8

LEMMA ExecuteHostKeeps ==
  ASSUME EngineTypeOK, CallersOK, ExecuteHost
  PROVE  CallersOK'
<1>1. /\ current # None /\ current' = None /\ current.type = "host"
      /\ at' = [at EXCEPT ![current.obj] = "notified"]
      /\ queue' = queue /\ search' = search /\ chain' = chain
  BY DEF ExecuteHost, Executes
<1> DEFINE p == Pending
<1>2. p \in Seq(Actions) /\ p # <<>> /\ Head(p) = current /\ Pending' = Tail(p)
  BY <1>1, PendingTail
<1>3. current.obj \in Callers /\ current = Action("host", current.obj)
  BY <1>1, CurrentMade
<1> SUFFICES ASSUME NEW c \in Callers
             PROVE  CallerOK(c, at'[c], c \in InChain', Pending', search'[c])
  BY CallersNext
<1>4. CallerOK(c, at[c], c \in InChain, p, search[c])
  BY DEF CallersOK
<1> HIDE DEF p
<1>5. InChain' = InChain
  BY <1>1 DEF InChain
<1>6. at'[c] = IF c = current.obj THEN "notified" ELSE at[c]
  BY <1>1, <1>3 DEF EngineTypeOK
<1>7. CASE c = current.obj
  <2>1. CallerOK(c, "notified", c \in InChain, Tail(p), search[c])
    BY <1>2, <1>3, <1>4, <1>7, HostTaken
  <2> QED
    BY <1>1, <1>2, <1>5, <1>6, <1>7, <2>1
<1>8. CASE c # current.obj
  <2>1. Head(p) \notin Matters(c)
    BY <1>1, <1>2, <1>8, CurrentMade
  <2>2. CallerOK(c, at[c], c \in InChain, Tail(p), search[c])
    BY <1>2, <1>4, <2>1, OthersTaken
  <2> QED
    BY <1>1, <1>2, <1>5, <1>6, <1>8, <2>2
<1> QED
  BY <1>7, <1>8

\* A response ends searches that have enough, and no other.
LEMMA ExecuteRxKeeps ==
  ASSUME EngineTypeOK, CallersOK, ExecuteRx
  PROVE  CallersOK'
<1>1. /\ current # None /\ current' = None /\ current.type = "rx"
      /\ queue' = queue /\ at' = at
  BY DEF ExecuteRx, Executes
<1>2. PICK hits \in SUBSET {c \in Callers : Hungry(c)}, cs \in SUBSET Callers :
        Finish(cs, Counted(hits)) /\ cs \subseteq Full(Counted(hits))
  <2>1. PICK hits \in SUBSET {c \in Callers : Hungry(c)}, ends \in BOOLEAN :
          Finish(IF ends THEN Full(Counted(hits)) ELSE {}, Counted(hits))
    BY DEF ExecuteRx, Counted
  <2>2. Full(Counted(hits)) \subseteq Callers
    BY DEF Full, InChain, EngineTypeOK
  <2> QED
    BY <2>1, <2>2
<1> DEFINE p == Pending
           t == Counted(hits)
<1>3. p \in Seq(Actions) /\ p # <<>> /\ Head(p) = current /\ Pending' = Tail(p)
  BY <1>1, PendingTail
<1> SUFFICES ASSUME NEW c \in Callers
             PROVE  CallerOK(c, at'[c], c \in InChain', Pending', search'[c])
  BY CallersNext
<1>4. CallerOK(c, at[c], c \in InChain, p, search[c])
  BY DEF CallersOK
<1>5. c \in InChain' <=> c \notin cs /\ c \in InChain
  BY <1>2, ChainFinish
<1>6. search'[c] = IF c \in cs THEN Ended(t[c].live) ELSE t[c]
  BY <1>2 DEF Finish, Ended
<1>7. c \in cs => c \in InChain /\ MaxResults[c] # 0
  BY <1>2 DEF Full
<1>8. /\ t[c].state = search[c].state /\ t[c].done = search[c].done
      /\ t[c].live = search[c].live
  BY CountedTyped
<1>9. Head(p) \notin Matters(c)
  BY <1>1, <1>3, CurrentMade
<1> HIDE DEF p, t
<1>10. CASE c \in cs
  <2>1. CallerOK(c, at[c], TRUE, p, search[c])
    BY <1>4, <1>7, <1>10
  <2>2. CallerOK(c, at[c], FALSE, Tail(p), Ended(t[c].live))
    BY <1>3, <1>7, <1>8, <1>9, <1>10, <2>1, FullTaken
  <2>3. at'[c] = at[c] /\ search'[c] = Ended(t[c].live) /\ (c \in InChain') = FALSE
    BY <1>1, <1>5, <1>6, <1>10
  <2> QED
    BY <1>3, <2>2, <2>3
<1>11. CASE c \notin cs
  <2>1. CallerOK(c, at[c], c \in InChain, Tail(p), t[c])
    BY <1>3, <1>4, <1>8, <1>9, OthersTaken
  <2> QED
    BY <1>1, <1>3, <1>5, <1>6, <1>11, <2>1
<1> QED
  BY <1>10, <1>11

\* The other actions concern no caller.
LEMMA OtherExecutesKeep ==
  ASSUME EngineTypeOK, CallersOK, ExecuteTx \/ ExecuteWork \/ ExecuteSend
  PROVE  CallersOK'
<1>1. /\ current # None /\ current' = None /\ current.type \in {"tx", "restart", "announce", "send"}
      /\ UNCHANGED <<queue, chain, search, at>>
  BY DEF ExecuteTx, ExecuteWork, ExecuteSend, Executes
<1> DEFINE p == Pending
<1>2. p \in Seq(Actions) /\ p # <<>> /\ Head(p) = current /\ Pending' = Tail(p)
  BY <1>1, PendingTail
<1> SUFFICES ASSUME NEW c \in Callers
             PROVE  CallerOK(c, at'[c], c \in InChain', Pending', search'[c])
  BY CallersNext
<1>3. CallerOK(c, at[c], c \in InChain, p, search[c])
  BY DEF CallersOK
<1> HIDE DEF p
<1>4. InChain' = InChain
  BY <1>1 DEF InChain
<1>5. Head(p) \notin Matters(c)
  BY <1>1, <1>2, CurrentMade
<1>6. CallerOK(c, at[c], c \in InChain, Tail(p), search[c])
  BY <1>2, <1>3, <1>5, OthersTaken
<1> QED
  BY <1>1, <1>2, <1>4, <1>6

LEMMA ReceiveKeeps ==
  ASSUME EngineTypeOK, CallersOK, Receive
  PROVE  CallersOK'
<1>1. Pending' = Pending
  BY PendingReceived
<1>2. InChain' = InChain /\ search' = search /\ at' = at
  BY DEF InChain, Receive
<1> QED
  BY <1>1, <1>2 DEF CallersOK

\* An action is posted that concerns no caller, or none is.
LEMMA PostKeeps ==
  ASSUME EngineTypeOK, CallersOK, UNCHANGED <<current, chain, search, at>>,
         \/ queue' = queue
         \/ \E x \in Actions : x.type \in {"tx", "restart", "announce", "rx"}
                                /\ queue' = Append(queue, x)
  PROVE  CallersOK'
<1>1. Pending \in Seq(Actions) /\ queue \in Seq(Actions)
  BY PendingTyped DEF EngineTypeOK, Pending, PendingIf
<1>2. InChain' = InChain
  BY DEF InChain
<1>3. CASE queue' = queue
  <2>1. Pending' = Pending
    BY <1>3 DEF Pending
  <2> QED
    BY <1>2, <2>1 DEF CallersOK
<1>4. ASSUME NEW x \in Actions, x.type \in {"tx", "restart", "announce", "rx"},
             queue' = Append(queue, x)
      PROVE  CallersOK'
  <2>1. Pending' = Append(Pending, x)
    BY <1>1, <1>4, PendingAppend DEF Pending, PendingIf
  <2> SUFFICES ASSUME NEW c \in Callers
               PROVE  CallerOK(c, at'[c], c \in InChain', Pending', search'[c])
    BY CallersNext
  <2>2. CallerOK(c, at[c], c \in InChain, Pending, search[c])
    BY DEF CallersOK
  <2>3. x \notin Matters(c)
    BY <1>4, ActionFields DEF Matters
  <2>4. CallerOK(c, at[c], c \in InChain, Append(Pending, x), search[c])
    BY <1>1, <2>2, <2>3, OthersPosted
  <2> QED
    BY <1>2, <2>1, <2>4
<1> QED
  BY <1>3, <1>4

LEMMA SchedulerRunKeeps ==
  ASSUME EngineTypeOK, CallersOK, SchedulerRun
  PROVE  CallersOK'
<1>1. UNCHANGED <<current, chain, search, at>>
  BY DEF SchedulerRun
<1>2. CASE Room /\ FirstDue # {}
  <2>1. PICK i \in FirstDue : queue' = Append(queue, Action("tx", tx[i]))
    BY <1>2 DEF SchedulerRun, Post
  <2>2. tx[i] \in Addrs
    BY DEF FirstDue, EngineTypeOK
  <2> QED
    BY <1>1, <2>1, <2>2, ActionsMade, ActionFields, PostKeeps
<1>3. CASE ~(Room /\ FirstDue # {})
  BY <1>1, <1>3, PostKeeps DEF SchedulerRun
<1> QED
  BY <1>2, <1>3

LEMMA TimerKeeps ==
  ASSUME EngineTypeOK, CallersOK, SearchRun
  PROVE  CallersOK'
<1>1. AllOK(queue', search')
  BY SearchRunKeeps
<1>2. InChain' = InChain /\ at' = at /\ Pending' = PendingIf(queue')
  BY DEF SearchRun, InChain, Pending, PendingIf
<1> QED
  BY <1>1, <1>2, CallersNext DEF AllOK

LEMMA OutsideKeeps ==
  ASSUME EngineTypeOK, CallersOK, NEW type \in {"restart", "announce", "rx"}, NEW obj,
         Action(type, obj) \in Actions, Outside(type, obj)
  PROVE  CallersOK'
BY ActionFields, PostKeeps DEF Outside, Post

LEMMA TickKeeps ==
  ASSUME EngineTypeOK, CallersOK, Tick
  PROVE  CallersOK'
<1>1. UNCHANGED <<queue, current, chain, at>>
  BY DEF Tick
<1>2. Pending' = Pending /\ InChain' = InChain
  BY <1>1 DEF Pending, InChain
<1> SUFFICES ASSUME NEW c \in Callers
             PROVE  CallerOK(c, at'[c], c \in InChain', Pending', search'[c])
  BY CallersNext
<1>3. CallerOK(c, at[c], c \in InChain, Pending, search[c])
  BY DEF CallersOK
<1>4. ASSUME NEW k \in Searches, NEW s,
             s = [k EXCEPT !.left = Later(@, -1), !.age = IF @ <= Resend THEN @ + 1 ELSE @]
      PROVE  s.state = k.state /\ s.num = k.num /\ s.done = k.done /\ s.live = k.live
  BY <1>4 DEF Searches
<1>5. search[c] \in Searches
  BY DEF EngineTypeOK
<1>6. /\ search'[c].state = search[c].state /\ search'[c].num = search[c].num
      /\ search'[c].done = search[c].done /\ search'[c].live = search[c].live
  <2>1. CASE search[c].state = "OFF"
    BY <2>1 DEF Tick
  <2>2. CASE search[c].state # "OFF"
    BY <1>4, <1>5, <2>2 DEF Tick
  <2> QED
    BY <2>1, <2>2
<1>7. Once(Pending, c)
  BY <1>3 DEF CallerOK
<1>8. CallerOK(c, at[c], c \in InChain, Pending, search'[c])
  BY <1>3, <1>6, <1>7, CallerSame
<1> QED
  BY <1>1, <1>2, <1>8

\* The callers themselves.  A query is about a search that nobody has touched
\* yet, ...
LEMMA QueryKeeps ==
  ASSUME EngineTypeOK, CallersOK, ~Dangling, NEW d \in Callers, NEW call \in {"sync", "async"},
         Query(d, call)
  PROVE  CallersOK'
<1> DEFINE k == [state |-> "INIT", left |-> Timeout, age |-> 0, num |-> 0, done |-> FALSE,
                 live |-> TRUE]
<1>1. at[d] = "idle" /\ UNCHANGED <<current, chain>>
  BY DEF Query, Begins
<1>2. Pending \in Seq(Actions) /\ queue \in Seq(Actions) /\ InChain' = InChain
  BY <1>1, PendingTyped DEF EngineTypeOK, Pending, PendingIf, InChain
<1>3. CASE ~Room
  BY <1>1, <1>3, PostKeeps DEF Query
<1>4. CASE Room
  <2> SUFFICES ASSUME NEW c \in Callers
               PROVE  CallerOK(c, at'[c], c \in InChain', Pending', search'[c])
    BY CallersNext
  <2> DEFINE x == Action("add", d)
             p == Pending
  <2>1. x \in Actions
    BY ActionsMade
  <2>2. CallerOK(c, at[c], c \in InChain, p, search[c])
    BY DEF CallersOK
  <2>3. Pending' = Append(p, x)
    BY <1>1, <1>2, <1>4, <2>1, PendingAppend DEF Query, Post, Pending, PendingIf
  <2>4. search' = [search EXCEPT ![d] = k] /\ at' = [at EXCEPT ![d] = call]
    BY <1>4 DEF Query
  <2>5. /\ search'[c] = IF c = d THEN k ELSE search[c]
        /\ at'[c] = IF c = d THEN call ELSE at[c]
    BY <2>4 DEF EngineTypeOK
  <2>6. /\ k.state # "OFF" /\ k.num = 0 /\ k.done = FALSE /\ k.live = TRUE
        /\ MaxResults[c] \in Nat
    BY EngineAssumption
  <2>7. /\ x # Action("end", d) /\ x # Action("host", d)
        /\ c # d => x \notin Matters(c)
    BY DEF Action, Matters
  <2> HIDE DEF k, p, x
  <2>8. CASE c = d
    <3>1. /\ ~(c \in InChain) /\ Places(p, Action("host", c)) = {} /\ Once(p, c)
          /\ Places(p, Action("add", c)) = {} /\ ~search[c].live
      BY <1>1, <2>2, <2>8 DEF CallerOK, Untouched
    <3>8. Places(p, Action("end", c)) = {}
      BY <3>1 DEF Dangling, p
    <3>2. /\ Places(Append(p, x), Action("add", c)) = {Len(p) + 1}
          /\ Places(Append(p, x), Action("end", c)) = {}
          /\ Places(Append(p, x), Action("host", c)) = {}
      BY <1>2, <2>1, <2>7, <2>8, <3>1, <3>8, AppendPlaces DEF x, p
    <3>3. Once(Append(p, x), c)
      BY <3>2 DEF Once
    <3>4. Places(Append(p, x), Action("add", c)) # {}
      BY <3>2
    <3>5. Sought(c, FALSE, Append(p, x), k)
      BY <2>6, <3>2, <3>4 DEF Sought
    <3>6. CallerOK(c, call, FALSE, Append(p, x), k)
      BY <2>6, <3>2, <3>3, <3>5 DEF CallerOK
    <3>7. at'[c] = call /\ search'[c] = k /\ (c \in InChain') = FALSE
      BY <1>2, <2>5, <2>8, <3>1
    <3> QED
      BY <2>3, <3>6, <3>7
  <2>9. CASE c # d
    <3>1. CallerOK(c, at[c], c \in InChain, Append(p, x), search[c])
      BY <1>2, <2>1, <2>2, <2>7, <2>9, OthersPosted DEF p
    <3> QED
      BY <1>2, <2>3, <2>5, <2>9, <3>1
  <2> QED
    BY <2>8, <2>9
<1> QED
  BY <1>3, <1>4

\* ... a new host name comes from a task that has no search, ...
LEMMA SetHostnameKeeps ==
  ASSUME EngineTypeOK, CallersOK, NEW d \in Callers, SetHostname(d)
  PROVE  CallersOK'
<1>1. at[d] = "idle" /\ UNCHANGED <<current, chain, search>>
  BY DEF SetHostname, Begins
<1>2. Pending \in Seq(Actions) /\ queue \in Seq(Actions) /\ InChain' = InChain
  BY <1>1, PendingTyped DEF EngineTypeOK, Pending, PendingIf, InChain
<1>3. CASE ~Room
  BY <1>1, <1>3, PostKeeps DEF SetHostname
<1>4. CASE Room
  <2> SUFFICES ASSUME NEW c \in Callers
               PROVE  CallerOK(c, at'[c], c \in InChain', Pending', search'[c])
    BY CallersNext
  <2> DEFINE x == Action("host", d)
             p == Pending
  <2>1. x \in Actions
    BY ActionsMade
  <2>2. CallerOK(c, at[c], c \in InChain, p, search[c])
    BY DEF CallersOK
  <2>3. Pending' = Append(p, x)
    BY <1>1, <1>2, <1>4, <2>1, PendingAppend DEF SetHostname, Post, Pending, PendingIf
  <2>4. at'[c] = IF c = d THEN "host" ELSE at[c]
    BY <1>4 DEF SetHostname, EngineTypeOK
  <2>5. /\ x # Action("end", d) /\ x # Action("add", d)
        /\ c # d => x \notin Matters(c)
    BY DEF Action, Matters
  <2> HIDE DEF p, x
  <2>6. CASE c = d
    <3>1. /\ ~(c \in InChain) /\ Places(p, Action("host", c)) = {} /\ Once(p, c)
          /\ Places(p, Action("add", c)) = {}
          /\ MaxResults[c] = 0 => Places(p, Action("end", c)) = {}
          /\ search[c].state = "OFF" /\ ~search[c].done /\ ~search[c].live
      BY <1>1, <2>2, <2>6 DEF CallerOK, Untouched
    <3>2. /\ Places(Append(p, x), Action("host", c)) = {Len(p) + 1}
          /\ Places(Append(p, x), Action("end", c)) = Places(p, Action("end", c))
          /\ Places(Append(p, x), Action("add", c)) = {}
      BY <1>2, <2>1, <2>5, <2>6, <3>1, AppendPlaces DEF x, p
    <3>3. Once(Append(p, x), c)
      BY <3>1, <3>2 DEF Once
    <3>4. Untouched(c, "host", FALSE, Append(p, x), search[c])
      BY <3>1, <3>2 DEF Untouched
    <3>5. CallerOK(c, "host", FALSE, Append(p, x), search[c])
      BY <3>3, <3>4 DEF CallerOK
    <3>6. at'[c] = "host" /\ search'[c] = search[c] /\ (c \in InChain') = FALSE
      BY <1>1, <1>2, <2>4, <2>6, <3>1
    <3> QED
      BY <2>3, <3>5, <3>6
  <2>7. CASE c # d
    <3>1. CallerOK(c, at[c], c \in InChain, Append(p, x), search[c])
      BY <1>2, <2>1, <2>2, <2>5, <2>7, OthersPosted DEF p
    <3> QED
      BY <1>1, <1>2, <2>3, <2>4, <2>7, <3>1
  <2> QED
    BY <2>6, <2>7
<1> QED
  BY <1>3, <1>4

\* ... and who has been told that a search is over is the only one to touch it,
\* provided that nobody tries to delete one before.
LEMMA ReturnKeeps ==
  ASSUME EngineTypeOK, CallersOK, ~DeleteEarly, NEW d \in Callers, Return(d)
  PROVE  CallersOK'
<1>1. UNCHANGED <<queue, current, chain>>
  BY DEF Return, Notified, SyncReturns, GetResults, DeleteTest, Delete
<1>2. Pending' = Pending /\ InChain' = InChain
  BY <1>1 DEF Pending, InChain
<1>3. \A c \in Callers : CallerOK(c, at[c], c \in InChain, Pending, search[c])
  BY DEF CallersOK
<1>4. at \in [Callers -> {"idle", "sync", "async", "host", "notified", "taken", "delete"}]
      /\ search \in [Callers -> Searches]
  BY DEF EngineTypeOK
<1>5. \A c \in Callers : c # d => at'[c] = at[c] /\ search'[c] = search[c]
  BY <1>4 DEF Return, Notified, SyncReturns, GetResults, DeleteTest, Delete
<1>6. ASSUME NEW place, NEW k, at'[d] = place, search'[d] = k,
             CallerOK(d, place, d \in InChain, Pending, k)
      PROVE  CallersOK'
  <2>1. \A c \in Callers : CallerOK(c, at'[c], c \in InChain', Pending', search'[c])
    BY <1>2, <1>3, <1>5, <1>6
  <2> QED
    BY <2>1, CallersNext
<1>7. CASE Notified(d)
  <2>1. at[d] = "notified" /\ at'[d] = "idle" /\ search'[d] = search[d]
    BY <1>4, <1>7 DEF Notified
  <2>2. CallerOK(d, "idle", d \in InChain, Pending, search[d])
    BY <1>3, <2>1 DEF CallerOK, Untouched
  <2> QED
    BY <1>6, <2>1, <2>2
<1>8. CASE SyncReturns(d)
  <2>1. at[d] = "sync" /\ search[d].done /\ at'[d] = "idle" /\ search'[d] = NoSearch
    BY <1>4, <1>8 DEF SyncReturns
  <2>2. CallerOK(d, "idle", d \in InChain, Pending, NoSearch)
    BY <1>3, <2>1 DEF CallerOK, Untouched, NoSearch
  <2> QED
    BY <1>6, <2>1, <2>2
<1>9. CASE GetResults(d)
  <2> DEFINE k == [search[d] EXCEPT !.done = FALSE]
  <2>1. at[d] = "async" /\ search[d].done /\ at'[d] = "taken" /\ search'[d] = k
    BY <1>4, <1>9 DEF GetResults
  <2>2. k.state = search[d].state /\ k.done = FALSE /\ k.live = search[d].live
    BY <1>4 DEF Searches
  <2> HIDE DEF k
  <2>3. CallerOK(d, "taken", d \in InChain, Pending, k)
    BY <1>3, <2>1, <2>2 DEF CallerOK, Untouched
  <2> QED
    BY <1>6, <2>1, <2>3
<1>10. CASE DeleteTest(d)
  <2>1. at[d] = "taken" /\ at'[d] = "delete" /\ search'[d] = search[d]
    BY <1>4, <1>10 DEF DeleteTest
  <2>2. CallerOK(d, "delete", d \in InChain, Pending, search[d])
    BY <1>3, <2>1 DEF CallerOK, Untouched
  <2> QED
    BY <1>6, <2>1, <2>2
<1>11. CASE Delete(d)
  <2>1. at[d] = "delete" /\ at'[d] = "idle" /\ search'[d] = NoSearch
    BY <1>4, <1>11 DEF Delete
  <2>2. CallerOK(d, "idle", d \in InChain, Pending, NoSearch)
    BY <1>3, <2>1 DEF CallerOK, Untouched, NoSearch
  <2> QED
    BY <1>6, <2>1, <2>2
<1> QED
  BY <1>7, <1>8, <1>9, <1>10, <1>11 DEF Return

\* What is known of the callers holds in every state, when nobody deletes a
\* search whose results have not been taken.
THEOREM CallersInductive == ASSUME DeleteEarly = FALSE PROVE Spec => []CallersOK
<1>1. Init => CallersOK
  <2> SUFFICES ASSUME Init, NEW c \in Callers
               PROVE  CallerOK(c, at[c], c \in InChain, Pending, search[c])
    BY DEF CallersOK
  <2>1. /\ at[c] = "idle" /\ c \notin InChain /\ search[c].state = "OFF" /\ ~search[c].done
        /\ ~search[c].live /\ Pending = <<>>
    BY DEF Init, InChain, Pending, NoSearch
  <2>2. \A y : Places(Pending, y) = {}
    BY <2>1 DEF Places
  <2> QED
    BY <2>1, <2>2 DEF CallerOK, Once, Untouched
<1>2. EngineTypeOK /\ CallersOK /\ [Next]_vars => CallersOK'
  <2> SUFFICES ASSUME EngineTypeOK, CallersOK, [Next]_vars PROVE CallersOK'
    OBVIOUS
  <2>1. CASE ~Dangling /\ Service
    BY <2>1, ReceiveKeeps, OtherExecutesKeep, ExecuteAddKeeps, ExecuteEndKeeps,
       ExecuteRxKeeps, ExecuteHostKeeps DEF Service
  <2>2. CASE Timer
    BY <2>2, SchedulerRunKeeps, TimerKeeps DEF Timer
  <2>3. CASE Tick
    BY <2>3, TickKeeps
  <2>4. ASSUME NEW c \in Callers, ~Dangling,
               Query(c, "sync") \/ Query(c, "async") \/ SetHostname(c) \/ Return(c)
        PROVE  CallersOK'
    BY <2>4, QueryKeeps, SetHostnameKeeps, ReturnKeeps
  <2>5. ASSUME NEW type \in {"restart", "announce", "rx"}, NEW obj,
               Action(type, obj) \in Actions, Outside(type, obj)
        PROVE  CallersOK'
    BY <2>5, OutsideKeeps
  <2>6. CASE UNCHANGED vars
    BY <2>6, PostKeeps DEF vars
  <2> QED
    BY <2>1, <2>2, <2>3, <2>4, <2>5, <2>6, ActionsMade DEF Next, Steps
<1> QED
  BY <1>1, <1>2, EngineTypes, PTL DEF Spec

\* What is linked, or about to be, is not freed, and nobody has been told that it
\* is finished; nor is a search without a limit whose end is pending.
THEOREM SearchesStayLive == ASSUME DeleteEarly = FALSE PROVE Spec => []SearchesLive
<1>1. CallersOK => SearchesLive
  <2> SUFFICES ASSUME CallersOK, NEW c \in Callers
               PROVE  c \in InChain \/ Adds(c) # {} \/ (MaxResults[c] = 0 /\ Ends(c) # {})
                        => search[c].live /\ ~Told(c)
    BY DEF SearchesLive
  <2>1. CallerOK(c, at[c], c \in InChain, Pending, search[c])
    BY DEF CallersOK
  <2> QED
    BY <2>1 DEF CallerOK, Sought, Untouched, Adds, Ends, Told
<1> QED
  BY <1>1, CallersInductive, PTL

-----------------------------------------------------------------------------
(* Packets that are due.                                                    *)

\* A packet with its four fields
PacketOK(k) == k \in [wait : Int, sends : {k.sends}, queued : BOOLEAN, pcb : {k.pcb}]

\* Only a packet that is due has an action on the queue.
DueInv ==
  /\ packet = [a \in Addrs |-> packet[a]]
  /\ \A a \in Addrs : PacketOK(packet[a]) /\ (packet[a].queued => packet[a].wait < 0)

\* The timer queues a packet that is due.
LEMMA SchedulerInv ==
  ASSUME DueInv, SchedulerRun
  PROVE  DueInv'
<1>1. CASE packet' = packet
  BY <1>1 DEF DueInv, PacketOK
<1>2. CASE packet' # packet
  <2>1. PICK i \in FirstDue : packet' = [packet EXCEPT ![tx[i]].queued = TRUE]
    BY <1>2 DEF SchedulerRun
  <2>2. packet[tx[i]].wait < 0
    BY DEF FirstDue
  <2>3. ASSUME NEW a \in Addrs
        PROVE  PacketOK(packet'[a]) /\ (packet'[a].queued => packet'[a].wait < 0)
    <3>1. CASE a = tx[i]
      <4>1. packet'[a] = [packet[a] EXCEPT !.queued = TRUE]
        BY <2>1, <3>1 DEF DueInv
      <4>2. packet'[a] = [wait |-> packet[a].wait, sends |-> packet[a].sends, queued |-> TRUE,
                          pcb |-> packet[a].pcb]
        BY <4>1 DEF DueInv, PacketOK
      <4> QED
        BY <2>2, <3>1, <4>2 DEF DueInv, PacketOK
    <3>2. CASE a # tx[i]
      BY <2>1, <3>2 DEF DueInv
    <3> QED
      BY <3>1, <3>2
  <2>4. packet' = [a \in Addrs |-> packet'[a]]
    BY <2>1 DEF DueInv
  <2> QED
    BY <2>3, <2>4 DEF DueInv
<1> QED
  BY <1>1, <1>2

\* A packet that has been sent is freed or waits again.
LEMMA ExecuteTxInv ==
  ASSUME DueInv, ExecuteTx
  PROVE  DueInv'
<1> DEFINE b == current.obj
<1>1. CASE packet' = packet
  BY <1>1 DEF DueInv, PacketOK
<1>2. ASSUME NEW k, packet' = [packet EXCEPT ![b] = k], b \in Addrs => PacketOK(k) /\ ~k.queued
      PROVE  DueInv'
  BY <1>2 DEF DueInv
<1>3. ASSUME NEW w \in 1 .. Delay,
             packet' = [packet EXCEPT ![b].wait = w, ![b].sends = @ + 1, ![b].queued = FALSE]
      PROVE  DueInv'
  <2> DEFINE k == [packet[b] EXCEPT !.wait = w, !.sends = @ + 1, !.queued = FALSE]
  <2>1. ASSUME b \in Addrs PROVE PacketOK(k) /\ ~k.queued
    <3>1. packet[b] \in [wait : Int, sends : {packet[b].sends}, queued : BOOLEAN,
                         pcb : {packet[b].pcb}]
      BY <2>1 DEF DueInv, PacketOK
    <3>2. w \in Int
      BY EngineAssumption
    <3>3. /\ k \in [wait : Int, sends : {packet[b].sends + 1}, queued : BOOLEAN,
                    pcb : {packet[b].pcb}]
          /\ k.sends = packet[b].sends + 1 /\ k.pcb = packet[b].pcb /\ ~k.queued
      BY <3>1, <3>2
    <3> QED
      BY <3>3 DEF PacketOK
  <2>2. packet' = [packet EXCEPT ![b] = k]
    BY <1>3 DEF DueInv
  <2> HIDE DEF k
  <2> QED
    BY <1>2, <2>1, <2>2
<1>4. CASE packet' = [packet EXCEPT ![b] = Nothing]
  <2>1. PacketOK(Nothing) /\ ~Nothing.queued
    BY DEF PacketOK, Nothing
  <2> QED
    BY <1>2, <1>4, <2>1
<1> QED
  BY <1>1, <1>3, <1>4 DEF ExecuteTx

\* A new packet waits; what had its address is gone.
LEMMA ExecuteWorkInv ==
  ASSUME DueInv, ExecuteWork
  PROVE  DueInv'
<1>1. CASE packet' = packet
  BY <1>1 DEF DueInv, PacketOK
<1>2. CASE packet' # packet
  <2>1. PICK free \in SUBSET Addrs, a \in Addrs, w \in 0 .. Delay :
          packet' = [[c \in Addrs |-> IF c \in free THEN Nothing ELSE packet[c]] EXCEPT
                       ![a] = [wait |-> w, sends |-> 1, queued |-> FALSE, pcb |-> current.obj]]
    <3> DEFINE q == IF current.type = "restart" THEN Cleared(current.obj) ELSE tx
               free == {a \in Addrs : \A i \in DOMAIN q : q[i] # a}
               kept == [a \in Addrs |-> IF a \in free THEN Nothing ELSE packet[a]]
    <3>1. PICK a \in free, w \in 0 .. Delay :
            packet' = [kept EXCEPT ![a] = [wait |-> w, sends |-> 1, queued |-> FALSE,
                                           pcb |-> current.obj]]
      BY <1>2 DEF ExecuteWork
    <3>2. free \in SUBSET Addrs /\ a \in Addrs
      OBVIOUS
    <3> QED
      BY <3>1, <3>2
  <2> DEFINE k == [wait |-> w, sends |-> 1, queued |-> FALSE, pcb |-> current.obj]
  <2>2. /\ PacketOK(k) /\ ~k.queued
        /\ PacketOK(Nothing) /\ ~Nothing.queued
    BY EngineAssumption DEF PacketOK, Nothing
  <2>3. packet' = [c \in Addrs |-> IF c = a THEN k ELSE IF c \in free THEN Nothing ELSE packet[c]]
    BY <2>1
  <2> HIDE DEF k
  <2> QED
    BY <2>2, <2>3 DEF DueInv
<1> QED
  BY <1>1, <1>2

\* Time passes: a packet that is due stays so.
LEMMA TickInv ==
  ASSUME DueInv, Tick
  PROVE  DueInv'
<1>1. ASSUME NEW a \in Addrs
      PROVE  PacketOK(packet'[a]) /\ (packet'[a].queued => packet'[a].wait < 0)
  <2>1. CASE packet'[a] = packet[a]
    BY <2>1 DEF DueInv
  <2>2. CASE packet'[a] = [packet[a] EXCEPT !.wait = Later(@, -1)]
    <3>1. Later(packet[a].wait, -1) \in Int
          /\ (packet[a].wait < 0 => Later(packet[a].wait, -1) < 0)
      BY DEF DueInv, PacketOK, Later
    <3>2. packet'[a] = [wait |-> Later(packet[a].wait, -1), sends |-> packet[a].sends,
                        queued |-> packet[a].queued, pcb |-> packet[a].pcb]
      BY <2>2 DEF DueInv, PacketOK
    <3> QED
      BY <3>1, <3>2 DEF DueInv, PacketOK
  <2> QED
    BY <2>1, <2>2 DEF Tick
<1>2. packet' = [a \in Addrs |-> packet'[a]]
  BY DEF Tick
<1> QED
  BY <1>1, <1>2 DEF DueInv

\* Whatever is on the action queue, a packet that is not due is never on it.
THEOREM DueInductive == Spec => []DueInv
<1>1. Init => DueInv
  <2>1. PacketOK(Nothing) /\ ~Nothing.queued
    BY DEF PacketOK, Nothing
  <2> QED
    BY <2>1 DEF Init, DueInv
<1>2. DueInv /\ [Next]_vars => DueInv'
  <2> SUFFICES ASSUME DueInv, [Next]_vars PROVE DueInv'
    OBVIOUS
  <2>1. ASSUME UNCHANGED packet PROVE DueInv'
    BY <2>1 DEF DueInv, PacketOK
  <2>2. CASE Service
    <3>1. CASE ExecuteTx
      BY <3>1, ExecuteTxInv
    <3>2. CASE ExecuteWork
      BY <3>2, ExecuteWorkInv
    <3>3. CASE Receive \/ ExecuteAdd \/ ExecuteSend \/ ExecuteEnd \/ ExecuteRx \/ ExecuteHost
      BY <2>1, <3>3 DEF Receive, ExecuteAdd, ExecuteSend, ExecuteEnd, ExecuteRx, ExecuteHost
    <3> QED
      BY <2>2, <3>1, <3>2, <3>3 DEF Service
  <2>3. CASE Timer
    <3>1. CASE SchedulerRun
      BY <3>1, SchedulerInv
    <3>2. CASE SearchRun
      BY <2>1, <3>2 DEF SearchRun
    <3> QED
      BY <2>3, <3>1, <3>2 DEF Timer
  <2>4. CASE Tick
    BY <2>4, TickInv
  <2>5. ASSUME NEW c \in Callers,
               Query(c, "sync") \/ Query(c, "async") \/ SetHostname(c) \/ Return(c)
        PROVE  DueInv'
    BY <2>1, <2>5
       DEF Query, SetHostname, Return, Notified, SyncReturns, GetResults, DeleteTest, Delete
  <2>6. ASSUME NEW type, NEW obj, Outside(type, obj) PROVE DueInv'
    BY <2>1, <2>6 DEF Outside
  <2>7. CASE UNCHANGED vars
    BY <2>1, <2>7 DEF vars
  <2> QED
    BY <2>2, <2>3, <2>4, <2>5, <2>6, <2>7 DEF Next, Steps
<1> QED
  BY <1>1, <1>2, PTL DEF Spec

\* No packet is sent before its time, although an action left over from a packet
\* that was cleared may name the address of the next one.
THEOREM NeverEarlyHolds == Spec => NeverEarly
<1> DEFINE Early == \A a \in Addrs : current = Action("tx", a) /\ current' = None /\ tx # tx'
                                       => packet[a].wait < 0
<1>1. DueInv /\ [Next]_vars => [Early]_vars
  <2> SUFFICES ASSUME DueInv, Next, NEW a \in Addrs, current = Action("tx", a),
                      current' = None, tx # tx'
               PROVE  packet[a].wait < 0
    BY DEF Early
  <2>1. current.type = "tx" /\ current.obj = a
    BY DEF Action
  <2>2. CASE ExecuteTx
    <3>1. packet[a].queued
      BY <2>1, <2>2 DEF ExecuteTx
    <3> QED
      BY <3>1 DEF DueInv
  <2>3. ~ExecuteWork
    BY <2>1 DEF ExecuteWork, Executes
  <2>4. ASSUME UNCHANGED tx PROVE FALSE
    BY <2>4
  <2>5. ~(Receive \/ ExecuteAdd \/ ExecuteSend \/ ExecuteEnd \/ ExecuteRx \/ ExecuteHost)
    BY <2>4 DEF Receive, ExecuteAdd, ExecuteSend, ExecuteEnd, ExecuteRx, ExecuteHost
  <2>6. ~(Timer \/ Tick)
    BY <2>4 DEF Timer, SchedulerRun, SearchRun, Tick
  <2>7. ASSUME NEW c \in Callers
        PROVE  ~(Query(c, "sync") \/ Query(c, "async") \/ SetHostname(c) \/ Return(c))
    BY <2>4
       DEF Query, SetHostname, Return, Notified, SyncReturns, GetResults, DeleteTest, Delete
  <2>8. ASSUME NEW type, NEW obj PROVE ~Outside(type, obj)
    BY <2>4 DEF Outside
  <2>9. Steps
    <3>1. ~UNCHANGED vars
      BY <2>4 DEF vars
    <3> QED
      BY <3>1 DEF Next
  <2> QED
    BY <2>2, <2>3, <2>5, <2>6, <2>7, <2>8, <2>9 DEF Steps, Service
<1> QED
  BY <1>1, DueInductive, PTL DEF Spec, NeverEarly

-----------------------------------------------------------------------------
(* The order of the packets and of their actions: q is a transmit queue, k  *)
(* what is at the addresses and p the pending actions.                      *)

Sorted(q, k) ==
  \A i, j \in DOMAIN q : i < j => q[i] # q[j] /\ k[q[i]].wait <= k[q[j]].wait

Ahead(q, k) == \A i, j \in DOMAIN q : i < j /\ k[q[j]].queued => k[q[i]].queued

QueuedAt(q, k) == {i \in DOMAIN q : k[q[i]].queued}

Matches(f, q, k, p) ==
  /\ f \in [QueuedAt(q, k) -> DOMAIN p]
  /\ \A i, j \in QueuedAt(q, k) : i < j => f[i] < f[j]
  /\ \A i \in QueuedAt(q, k) : p[f[i]] = Action("tx", q[i])

InOrder(q, k, p) == Sorted(q, k) /\ Ahead(q, k) /\ \E f : Matches(f, q, k, p)

LEMMA InOrderIs == QueuedInOrder <=> InOrder(tx, packet, Pending)
BY DEF QueuedInOrder, InOrder, TxSorted, Sorted, Ahead, Matches, QueuedIn, QueuedAt

LEMMA InOrderNext == InOrder(tx', packet', Pending') => QueuedInOrder'
BY DEF QueuedInOrder, InOrder, TxSorted, Sorted, Ahead, Matches, QueuedIn, QueuedAt

\* Actions are posted behind those that are pending.
LEMMA OrderGrows ==
  ASSUME NEW q, NEW k, NEW p, NEW r, InOrder(q, k, p),
         \A i \in DOMAIN p : i \in DOMAIN r /\ r[i] = p[i]
  PROVE  InOrder(q, k, r)
<1>1. PICK f : Matches(f, q, k, p)
  BY DEF InOrder
<1>2. \A i \in QueuedAt(q, k) : f[i] \in DOMAIN p
  BY <1>1 DEF Matches
<1>3. f \in [QueuedAt(q, k) -> DOMAIN r]
  BY <1>1, <1>2 DEF Matches
<1>4. \A i \in QueuedAt(q, k) : r[f[i]] = p[f[i]]
  BY <1>2
<1>5. Matches(f, q, k, r)
  BY <1>1, <1>3, <1>4 DEF Matches
<1> QED
  BY <1>5 DEF InOrder

\* Only the head of the transmit queue has the first of the pending actions.
LEMMA FirstAction ==
  ASSUME NEW q \in Seq(Addrs), NEW k, NEW p \in Seq(Actions), InOrder(q, k, p),
         NEW f, Matches(f, q, k, p), NEW i \in QueuedAt(q, k), f[i] = 1
  PROVE  q # <<>> /\ i = 1 /\ q[i] = Head(q)
<1>1. DOMAIN q = 1 .. Len(q) /\ Len(q) \in Nat /\ DOMAIN p = 1 .. Len(p) /\ Len(p) \in Nat
  OBVIOUS
<1>2. i \in 1 .. Len(q)
  BY <1>1 DEF QueuedAt
<1>3. ASSUME i # 1 PROVE FALSE
  <2>1. 1 \in QueuedAt(q, k) /\ 1 < i
    BY <1>1, <1>2, <1>3 DEF QueuedAt, InOrder, Ahead
  <2>2. f[1] < f[i] /\ f[1] \in 1 .. Len(p)
    BY <1>1, <2>1 DEF Matches
  <2> QED
    BY <2>2
<1> QED
  BY <1>2, <1>3

\* An action has been executed that was about no packet of the queue, unless
\* about one that is not its head, or not queued.
LEMMA OrderTail ==
  ASSUME NEW q \in Seq(Addrs), NEW k, NEW p \in Seq(Actions), p # <<>>, InOrder(q, k, p),
         q # <<>> /\ k[Head(q)].queued => Head(p) # Action("tx", Head(q))
  PROVE  InOrder(q, k, Tail(p))
<1>1. PICK f : Matches(f, q, k, p)
  BY DEF InOrder
<1> DEFINE r == Tail(p)
           Q == QueuedAt(q, k)
           g == [i \in Q |-> f[i] - 1]
<1>2. /\ DOMAIN p = 1 .. Len(p) /\ Len(p) \in Nat \ {0} /\ DOMAIN r = 1 .. Len(p) - 1
      /\ \A n \in 1 .. Len(p) - 1 : r[n] = p[n + 1]
      /\ Head(p) = p[1]
  OBVIOUS
<1>3. /\ \A i \in Q : f[i] \in 1 .. Len(p) /\ p[f[i]] = Action("tx", q[i])
      /\ \A i, j \in Q : i < j => f[i] < f[j]
  BY <1>1, <1>2 DEF Matches
<1>4. \A i \in Q : f[i] # 1
  <2> SUFFICES ASSUME NEW i \in Q, f[i] = 1 PROVE FALSE
    OBVIOUS
  <2>1. q # <<>> /\ q[i] = Head(q)
    BY <1>1, FirstAction
  <2>2. k[Head(q)].queued /\ Head(p) = Action("tx", Head(q))
    BY <1>2, <1>3, <2>1 DEF QueuedAt
  <2> QED
    BY <2>1, <2>2
<1> HIDE DEF Q, r
<1>5. \A i \in Q : g[i] = f[i] - 1 /\ f[i] - 1 \in 1 .. Len(p) - 1 /\ (f[i] - 1) + 1 = f[i]
  BY <1>2, <1>3, <1>4
<1>6. g \in [Q -> DOMAIN r]
  BY <1>2, <1>5
<1> HIDE DEF g
<1>7. \A i \in Q : r[g[i]] = Action("tx", q[i])
  BY <1>2, <1>3, <1>5
<1>8. \A i, j \in Q : i < j => g[i] < g[j]
  BY <1>3, <1>5
<1>9. Matches(g, q, k, r)
  BY <1>6, <1>7, <1>8 DEF Matches, Q
<1> QED
  BY <1>9 DEF InOrder, r

\* The head of the transmit queue has been executed with its action.
LEMMA OrderTaken ==
  ASSUME NEW q \in Seq(Addrs), q # <<>>, NEW k, NEW p \in Seq(Actions), p # <<>>,
         InOrder(q, k, p), k[Head(q)].queued
  PROVE  InOrder(Tail(q), k, Tail(p))
<1>1. PICK f : Matches(f, q, k, p)
  BY DEF InOrder
<1> DEFINE s == Tail(q)
           r == Tail(p)
           Q == QueuedAt(q, k)
           R == QueuedAt(s, k)
           g == [i \in R |-> f[i + 1] - 1]
<1>2. /\ DOMAIN p = 1 .. Len(p) /\ Len(p) \in Nat \ {0} /\ DOMAIN r = 1 .. Len(p) - 1
      /\ \A n \in 1 .. Len(p) - 1 : r[n] = p[n + 1]
  OBVIOUS
<1>3. /\ DOMAIN q = 1 .. Len(q) /\ Len(q) \in Nat \ {0} /\ DOMAIN s = 1 .. Len(q) - 1
      /\ \A n \in 1 .. Len(q) - 1 : s[n] = q[n + 1] /\ n + 1 \in 1 .. Len(q)
      /\ Head(q) = q[1]
  OBVIOUS
<1> HIDE DEF s, r
<1>4. /\ \A i \in Q : f[i] \in 1 .. Len(p) /\ p[f[i]] = Action("tx", q[i])
      /\ \A i, j \in Q : i < j => f[i] < f[j]
  BY <1>1, <1>2 DEF Matches
<1>5. 1 \in Q /\ (\A i \in R : i \in Nat /\ i + 1 \in Q /\ s[i] = q[i + 1] /\ 1 < i + 1)
  BY <1>3 DEF QueuedAt
<1> HIDE DEF Q, R
<1>6. \A i \in R : /\ g[i] = f[i + 1] - 1 /\ f[i + 1] - 1 \in 1 .. Len(p) - 1
                   /\ (f[i + 1] - 1) + 1 = f[i + 1]
  <2> SUFFICES ASSUME NEW i \in R
               PROVE  f[i + 1] - 1 \in 1 .. Len(p) - 1 /\ (f[i + 1] - 1) + 1 = f[i + 1]
    OBVIOUS
  <2>1. f[1] < f[i + 1] /\ f[1] \in 1 .. Len(p) /\ f[i + 1] \in 1 .. Len(p)
    BY <1>4, <1>5
  <2> QED
    BY <1>2, <2>1
<1>7. g \in [R -> DOMAIN r]
  BY <1>2, <1>6
<1> HIDE DEF g
<1>8. \A i \in R : r[g[i]] = Action("tx", s[i])
  BY <1>2, <1>4, <1>5, <1>6
<1>9. \A i, j \in R : i < j => g[i] < g[j]
  <2> SUFFICES ASSUME NEW i \in R, NEW j \in R, i < j PROVE g[i] < g[j]
    OBVIOUS
  <2>1. i + 1 < j + 1 /\ i + 1 \in Q /\ j + 1 \in Q
    BY <1>5
  <2>2. f[i + 1] < f[j + 1] /\ f[i + 1] \in 1 .. Len(p) /\ f[j + 1] \in 1 .. Len(p)
    BY <1>4, <2>1
  <2> QED
    BY <1>6, <2>2
<1>10. Matches(g, s, k, r)
  BY <1>7, <1>8, <1>9 DEF Matches, R
<1>11. Sorted(s, k) /\ Ahead(s, k)
  <2>1. \A i, j \in DOMAIN s : /\ i + 1 \in DOMAIN q /\ s[i] = q[i + 1]
                               /\ i < j => i + 1 < j + 1
    BY <1>3
  <2>2. Sorted(s, k)
    BY <2>1 DEF InOrder, Sorted
  <2>3. Ahead(s, k)
    BY <2>1 DEF InOrder, Ahead
  <2> QED
    BY <2>2, <2>3
<1> QED
  BY <1>10, <1>11 DEF InOrder, r, s

\* Packets have been taken out of the transmit queue.
LEMMA OrderRemains ==
  ASSUME NEW q \in Seq(Addrs), NEW k, NEW p, InOrder(q, k, p),
         NEW r \in Seq(Addrs), NEW S, Remains(r, q, Len(q), S)
  PROVE  InOrder(r, k, p) /\ \A i \in DOMAIN r : \E j \in DOMAIN q : r[i] = q[j]
<1>1. PICK f : Matches(f, q, k, p)
  BY DEF InOrder
<1>2. PICK e \in [1 .. Len(r) -> 1 .. Len(q)] :
        /\ \A i, j \in 1 .. Len(r) : i < j => e[i] < e[j]
        /\ \A i \in 1 .. Len(r) : r[i] = q[e[i]]
  BY DEF Remains
<1>3. DOMAIN r = 1 .. Len(r) /\ DOMAIN q = 1 .. Len(q)
  OBVIOUS
<1> DEFINE Q == QueuedAt(q, k)
           R == QueuedAt(r, k)
           g == [i \in R |-> f[e[i]]]
<1>4. \A i \in DOMAIN r : e[i] \in DOMAIN q /\ r[i] = q[e[i]]
  BY <1>2, <1>3
<1>5. \A i, j \in DOMAIN r : i < j => e[i] < e[j]
  BY <1>2, <1>3
<1>6. \A i \in R : i \in DOMAIN r /\ e[i] \in Q
  BY <1>4 DEF QueuedAt
<1>7. /\ f \in [Q -> DOMAIN p]
      /\ \A i, j \in Q : i < j => f[i] < f[j]
      /\ \A i \in Q : p[f[i]] = Action("tx", q[i])
  BY <1>1 DEF Matches
<1> HIDE DEF Q, R
<1>8. g \in [R -> DOMAIN p] /\ (\A i \in R : g[i] = f[e[i]])
  BY <1>6, <1>7
<1> HIDE DEF g
<1>9. Matches(g, r, k, p)
  <2>1. \A i, j \in R : i < j => g[i] < g[j]
    BY <1>5, <1>6, <1>7, <1>8
  <2>2. \A i \in R : p[g[i]] = Action("tx", r[i])
    BY <1>4, <1>6, <1>7, <1>8
  <2> QED
    BY <1>8, <2>1, <2>2 DEF Matches, R
<1>10. Sorted(r, k)
  BY <1>4, <1>5 DEF InOrder, Sorted
<1>11. Ahead(r, k)
  BY <1>4, <1>5 DEF InOrder, Ahead
<1> QED
  BY <1>4, <1>9, <1>10, <1>11 DEF InOrder

\* Only the packets of the queue matter.
LEMMA OrderAgrees ==
  ASSUME NEW q, NEW k, NEW l, NEW p, InOrder(q, k, p), \A i \in DOMAIN q : l[q[i]] = k[q[i]]
  PROVE  InOrder(q, l, p)
<1>1. QueuedAt(q, l) = QueuedAt(q, k)
  BY DEF QueuedAt
<1> QED
  BY <1>1 DEF InOrder, Sorted, Ahead, Matches

\* A packet that is not queued is put in its place, behind all that are, as
\* they are due.
LEMMA OrderInserted ==
  ASSUME NEW q \in Seq(Addrs), NEW k, NEW p, InOrder(q, k, p),
         NEW a \in Addrs, NEW w \in Int, NEW r \in Seq(Addrs), NEW n, Inserted(r, q, a, n),
         \A i \in DOMAIN q : q[i] # a /\ k[q[i]].wait \in Int,
         \A i \in 1 .. n : k[q[i]].wait <= w,
         n < Len(q) => k[q[n + 1]].wait > w,
         \A i \in DOMAIN q : k[q[i]].queued => k[q[i]].wait <= w,
         k[a].wait = w, ~k[a].queued
  PROVE  InOrder(r, k, p)
<1>1. PICK f : Matches(f, q, k, p)
  BY DEF InOrder
<1>2. /\ DOMAIN q = 1 .. Len(q) /\ Len(q) \in Nat /\ n \in 0 .. Len(q) /\ n \in Nat
      /\ DOMAIN r = 1 .. Len(q) + 1 /\ r[n + 1] = a
      /\ \A i \in 1 .. n : r[i] = q[i]
      /\ \A i \in n + 1 .. Len(q) : r[i + 1] = q[i]
  BY DEF Inserted
<1>3. \A i \in n + 2 .. Len(q) + 1 : i - 1 \in n + 1 .. Len(q) /\ i - 1 \in 1 .. Len(q)
                                   /\ r[i] = q[i - 1]
  <2> SUFFICES ASSUME NEW i \in n + 2 .. Len(q) + 1
               PROVE  /\ i - 1 \in n + 1 .. Len(q) /\ i - 1 \in 1 .. Len(q)
                      /\ r[i] = q[i - 1]
    OBVIOUS
  <2>1. i - 1 \in n + 1 .. Len(q) /\ i - 1 \in 1 .. Len(q) /\ (i - 1) + 1 = i
    BY <1>2
  <2> QED
    BY <1>2, <2>1
<1>4. \A i \in 1 .. Len(q) + 1 : i \in 1 .. n \/ i = n + 1 \/ i \in n + 2 .. Len(q) + 1
  BY <1>2
<1>5. ASSUME NEW i \in n + 1 .. Len(q) PROVE k[q[i]].wait > w /\ ~k[q[i]].queued
  <2>1. n + 1 \in DOMAIN q /\ i \in DOMAIN q /\ n < Len(q)
    BY <1>2
  <2>2. k[q[n + 1]].wait <= k[q[i]].wait
    <3>1. n + 1 < i => k[q[n + 1]].wait <= k[q[i]].wait
      BY <2>1 DEF InOrder, Sorted
    <3>2. n + 1 < i \/ n + 1 = i
      BY <1>2
    <3> QED
      BY <2>1, <3>1, <3>2
  <2>3. k[q[i]].wait > w
    BY <2>1, <2>2
  <2> QED
    BY <2>1, <2>3
<1>6. Sorted(r, k)
  <2> SUFFICES ASSUME NEW i \in 1 .. Len(q) + 1, NEW j \in 1 .. Len(q) + 1, i < j
               PROVE  r[i] # r[j] /\ k[r[i]].wait <= k[r[j]].wait
    BY <1>2 DEF Sorted
  <2>1. CASE j \in 1 .. n
    <3>1. i \in DOMAIN q /\ j \in DOMAIN q /\ i \in 1 .. n
      BY <1>2, <2>1
    <3> QED
      BY <1>2, <2>1, <3>1 DEF InOrder, Sorted
  <2>2. CASE j = n + 1
    <3>1. i \in DOMAIN q /\ i \in 1 .. n
      BY <1>2, <2>2
    <3> QED
      BY <1>2, <2>2, <3>1
  <2>3. CASE j \in n + 2 .. Len(q) + 1
    <3>1. j - 1 \in n + 1 .. Len(q) /\ j - 1 \in DOMAIN q /\ r[j] = q[j - 1]
      BY <1>2, <1>3, <2>3
    <3>2. CASE i \in 1 .. n
      <4>1. i \in DOMAIN q /\ i < j - 1
        BY <1>2, <2>3, <3>2
      <4>2. q[i] # q[j - 1] /\ k[q[i]].wait <= k[q[j - 1]].wait
        BY <3>1, <4>1 DEF InOrder, Sorted
      <4>3. r[i] = q[i] /\ r[j] = q[j - 1]
        BY <1>2, <3>1, <3>2
      <4> QED
        BY <4>2, <4>3, Zenon
    <3>3. CASE i = n + 1
      <4>1. r[i] = a /\ q[j - 1] # a
        BY <1>2, <3>1, <3>3
      <4>2. k[q[j - 1]].wait \in Int /\ k[q[j - 1]].wait > w
        BY <1>5, <3>1
      <4>3. w <= k[q[j - 1]].wait
        BY <4>2
      <4> QED
        BY <3>1, <4>1, <4>3
    <3>4. CASE i \in n + 2 .. Len(q) + 1
      <4>1. i - 1 \in DOMAIN q /\ r[i] = q[i - 1] /\ i - 1 < j - 1
        BY <1>2, <1>3, <3>4
      <4> QED
        BY <3>1, <4>1 DEF InOrder, Sorted
    <3> QED
      BY <1>4, <3>2, <3>3, <3>4
  <2> QED
    BY <1>4, <2>1, <2>2, <2>3
<1>7. \A i \in 1 .. Len(q) + 1 : k[r[i]].queued => i \in 1 .. n
  BY <1>2, <1>3, <1>4, <1>5
<1>8. Ahead(r, k)
  <2> SUFFICES ASSUME NEW i \in 1 .. Len(q) + 1, NEW j \in 1 .. Len(q) + 1, i < j,
                      k[r[j]].queued
               PROVE  k[r[i]].queued
    BY <1>2 DEF Ahead
  <2>1. i \in 1 .. n /\ j \in 1 .. n /\ i \in DOMAIN q /\ j \in DOMAIN q
    BY <1>2, <1>7
  <2> QED
    BY <1>2, <2>1 DEF InOrder, Ahead
<1>9. QueuedAt(r, k) = QueuedAt(q, k)
  <2>1. ASSUME NEW i \in QueuedAt(r, k) PROVE i \in QueuedAt(q, k)
    <3>1. i \in 1 .. n /\ i \in DOMAIN q
      BY <1>2, <1>7 DEF QueuedAt
    <3> QED
      BY <1>2, <3>1 DEF QueuedAt
  <2>2. ASSUME NEW i \in QueuedAt(q, k) PROVE i \in QueuedAt(r, k)
    <3>1. i \in 1 .. Len(q) /\ k[q[i]].queued
      BY <1>2 DEF QueuedAt
    <3>2. i \in 1 .. n /\ i \in DOMAIN r
      BY <1>2, <1>5, <3>1
    <3> QED
      BY <1>2, <3>1, <3>2 DEF QueuedAt
  <2> QED
    BY <2>1, <2>2
<1>10. \A i \in QueuedAt(r, k) : r[i] = q[i]
  BY <1>2, <1>7 DEF QueuedAt
<1>11. Matches(f, r, k, p)
  BY <1>1, <1>9, <1>10 DEF Matches
<1> QED
  BY <1>6, <1>8, <1>11 DEF InOrder

\* The pending actions keep their order while nothing happens to the packets.
LEMMA OrderKept ==
  ASSUME EngineTypeOK, QueuedInOrder, UNCHANGED <<tx, packet>>,
         \A i \in DOMAIN Pending : i \in DOMAIN Pending' /\ Pending'[i] = Pending[i]
  PROVE  QueuedInOrder'
BY InOrderIs, InOrderNext, OrderGrows

\* What is posted comes behind the pending actions.
LEMMA PendingGrows ==
  ASSUME EngineTypeOK, current' = current, queue' \in Seq(Actions), Len(queue) <= Len(queue'),
         \A i \in 1 .. Len(queue) : queue'[i] = queue[i]
  PROVE  \A i \in DOMAIN Pending : i \in DOMAIN Pending' /\ Pending'[i] = Pending[i]
<1>1. queue \in Seq(Actions) /\ DOMAIN queue = 1 .. Len(queue) /\ DOMAIN queue' = 1 .. Len(queue')
      /\ Len(queue) \in Nat /\ Len(queue') \in Nat
  BY DEF EngineTypeOK
<1>2. CASE current = None
  BY <1>1, <1>2 DEF Pending
<1>3. CASE current # None
  <2> DEFINE r == <<current>> \o queue
             s == <<current>> \o queue'
  <2>1. Pending = r /\ Pending' = s
    BY <1>3 DEF Pending
  <2>2. /\ DOMAIN r = 1 .. Len(queue) + 1 /\ r[1] = current
        /\ \A i \in 1 .. Len(queue) : r[i + 1] = queue[i]
    BY <1>1, <1>3 DEF EngineTypeOK
  <2>3. /\ DOMAIN s = 1 .. Len(queue') + 1 /\ s[1] = current
        /\ \A i \in 1 .. Len(queue') : s[i + 1] = queue'[i]
    BY <1>1, <1>3 DEF EngineTypeOK
  <2> HIDE DEF r, s
  <2> SUFFICES ASSUME NEW i \in DOMAIN r PROVE i \in DOMAIN s /\ s[i] = r[i]
    BY <2>1
  <2>4. i \in DOMAIN s
    BY <1>1, <2>2, <2>3
  <2>5. CASE i = 1
    BY <2>2, <2>3, <2>4, <2>5
  <2>6. CASE i # 1
    <3>1. i - 1 \in 1 .. Len(queue) /\ i - 1 \in 1 .. Len(queue') /\ (i - 1) + 1 = i
      BY <1>1, <2>2, <2>6
    <3>2. r[i] = queue[i - 1] /\ s[i] = queue'[i - 1]
      BY <2>2, <2>3, <3>1
    <3> QED
      BY <2>4, <3>1, <3>2
  <2> QED
    BY <2>5, <2>6
<1> QED
  BY <1>2, <1>3

LEMMA PostGrows ==
  ASSUME EngineTypeOK, current' = current, NEW x \in Actions,
         queue' = Append(queue, x)
  PROVE  \A i \in DOMAIN Pending : i \in DOMAIN Pending' /\ Pending'[i] = Pending[i]
<1>1. queue \in Seq(Actions)
  BY DEF EngineTypeOK
<1>2. /\ queue' \in Seq(Actions) /\ Len(queue) <= Len(queue')
      /\ \A i \in 1 .. Len(queue) : queue'[i] = queue[i]
  BY <1>1
<1> QED
  BY <1>2, PendingGrows

\* A packet that is due is put on the queue behind those before it.
LEMMA SchedulerRunOrder ==
  ASSUME EngineTypeOK, QueuedInOrder, SchedulerRun
  PROVE  QueuedInOrder'
<1>1. tx' = tx /\ current' = current
  BY DEF SchedulerRun
<1>2. CASE ~(Room /\ FirstDue # {})
  <2>1. packet' = packet /\ Pending' = Pending
    BY <1>2 DEF SchedulerRun, Pending
  <2> QED
    BY <1>1, <2>1, OrderKept
<1>3. CASE Room /\ FirstDue # {}
  <2>1. PICK d \in FirstDue : /\ queue' = Append(queue, Action("tx", tx[d]))
                              /\ packet' = [packet EXCEPT ![tx[d]].queued = TRUE]
    BY <1>3 DEF SchedulerRun, Post
  <2>2. /\ d \in DOMAIN tx /\ ~packet[tx[d]].queued
        /\ \A j \in 1 .. d - 1 : packet[tx[j]].queued
    BY DEF FirstDue
  <2>3. /\ tx \in Seq(Addrs) /\ DOMAIN tx = 1 .. Len(tx) /\ Len(tx) \in Nat
        /\ \A i \in DOMAIN tx : tx[i] \in Addrs
        /\ queue \in Seq(Actions) /\ Action("tx", tx[d]) \in Actions
    BY <2>2, ActionsMade DEF EngineTypeOK
  <2> DEFINE p == Pending
             x == Action("tx", tx[d])
             r == Append(p, x)
             Q == QueuedAt(tx, packet)
             R == QueuedAt(tx, packet')
  <2>4. p \in Seq(Actions) /\ Pending' = r
    BY <1>1, <2>1, <2>3, PendingTyped, PendingAppend DEF Pending, PendingIf
  <2>5. InOrder(tx, packet, p)
    BY InOrderIs
  <2>6. PICK f : Matches(f, tx, packet, p)
    BY <2>5 DEF InOrder
  <2> HIDE DEF p, x
  <2>7. /\ DOMAIN p = 1 .. Len(p) /\ Len(p) \in Nat /\ DOMAIN r = 1 .. Len(p) + 1
        /\ \A i \in 1 .. Len(p) : r[i] = p[i]
        /\ r[Len(p) + 1] = x
    BY <2>3, <2>4
  <2> HIDE DEF r
  <2>8. \A i, j \in DOMAIN tx : i # j => tx[i] # tx[j]
    BY <2>3, <2>5 DEF InOrder, Sorted
  <2>9. \A i \in DOMAIN tx : /\ i # d => packet'[tx[i]] = packet[tx[i]]
                             /\ packet'[tx[i]].wait = packet[tx[i]].wait
                             /\ i = d => packet'[tx[i]].queued
    <3>1. \A a \in Addrs : a # tx[d] => packet'[a] = packet[a]
      BY <2>1 DEF EngineTypeOK
    <3>2. packet'[tx[d]].wait = packet[tx[d]].wait /\ packet'[tx[d]].queued
      BY <2>1, <2>2, <2>3 DEF EngineTypeOK, Packets
    <3> QED
      BY <2>2, <2>3, <2>8, <3>1, <3>2
  <2>10. \A j \in DOMAIN tx : j > d => ~packet[tx[j]].queued
    BY <2>2, <2>3, <2>5 DEF InOrder, Ahead
  <2>11. R = Q \cup {d} /\ d \notin Q
    BY <2>2, <2>9 DEF QueuedAt
  <2>12. \A i \in Q : i < d
    <3> SUFFICES ASSUME NEW i \in Q PROVE i < d
      OBVIOUS
    <3>1. i \in DOMAIN tx /\ packet[tx[i]].queued /\ i # d
      BY <2>11 DEF QueuedAt
    <3> QED
      BY <2>2, <2>3, <2>10, <3>1
  <2> DEFINE g == [i \in R |-> IF i = d THEN Len(p) + 1 ELSE f[i]]
  <2>13. /\ \A i \in Q : f[i] \in 1 .. Len(p) /\ p[f[i]] = Action("tx", tx[i])
         /\ \A i, j \in Q : i < j => f[i] < f[j]
    BY <2>6, <2>7 DEF Matches, Q
  <2> HIDE DEF Q, R
  <2>14. \A i \in R : IF i = d THEN g[i] = Len(p) + 1 ELSE i \in Q /\ g[i] = f[i]
    BY <2>11
  <2>15. g \in [R -> DOMAIN r]
    BY <2>7, <2>11, <2>13
  <2> HIDE DEF g
  <2>16. \A i, j \in R : i < j => g[i] < g[j]
    <3> SUFFICES ASSUME NEW i \in R, NEW j \in R, i < j PROVE g[i] < g[j]
      OBVIOUS
    <3>1. i \in Nat /\ j \in Nat /\ d \in Nat
      BY <2>2, <2>3 DEF R, QueuedAt
    <3>2. i # d
      BY <2>11, <2>12, <3>1
    <3>3. CASE j = d
      BY <2>7, <2>13, <2>14, <3>2, <3>3
    <3>4. CASE j # d
      BY <2>13, <2>14, <3>2, <3>4
    <3> QED
      BY <3>3, <3>4
  <2>17. \A i \in R : r[g[i]] = Action("tx", tx[i])
    BY <2>7, <2>13, <2>14 DEF x
  <2>18. Matches(g, tx, packet', r)
    BY <2>15, <2>16, <2>17 DEF Matches, R
  <2>19. Sorted(tx, packet')
    BY <2>5, <2>9 DEF InOrder, Sorted
  <2>20. Ahead(tx, packet')
    <3> SUFFICES ASSUME NEW i \in DOMAIN tx, NEW j \in DOMAIN tx, i < j, packet'[tx[j]].queued
                 PROVE  packet'[tx[i]].queued
      BY DEF Ahead
    <3>1. j \in R /\ i < d
      BY <2>2, <2>3, <2>11, <2>12 DEF R, QueuedAt
    <3>2. i \in 1 .. d - 1 /\ i # d
      BY <2>2, <2>3, <3>1
    <3> QED
      BY <2>2, <2>9, <3>2
  <2>21. InOrder(tx, packet', r)
    BY <2>18, <2>19, <2>20 DEF InOrder
  <2> QED
    BY <1>1, <2>4, <2>21, InOrderNext
<1> QED
  BY <1>2, <1>3

\* Time passes alike for all the packets of the queue.
LEMMA TickOrder ==
  ASSUME EngineTypeOK, QueuedInOrder, Tick
  PROVE  QueuedInOrder'
<1>1. tx' = tx /\ Pending' = Pending
  BY DEF Tick, Pending
<1>2. ASSUME NEW i \in DOMAIN tx
      PROVE  /\ packet[tx[i]].wait \in Int
             /\ packet'[tx[i]].wait = Later(packet[tx[i]].wait, -1)
             /\ packet'[tx[i]].queued = packet[tx[i]].queued
  <2>1. tx[i] \in Addrs /\ tx[i] \in InTx
    BY DEF EngineTypeOK, InTx
  <2>2. packet'[tx[i]] = [packet[tx[i]] EXCEPT !.wait = Later(@, -1)]
    BY <2>1 DEF Tick
  <2>3. packet[tx[i]] \in Packets
    BY <2>1 DEF EngineTypeOK
  <2> QED
    BY <2>2, <2>3 DEF Packets
<1>3. \A m, n \in Int : m <= n => Later(m, -1) <= Later(n, -1)
  BY DEF Later
<1>4. InOrder(tx, packet, Pending)
  BY InOrderIs
<1>5. QueuedAt(tx, packet') = QueuedAt(tx, packet)
  BY <1>2 DEF QueuedAt
<1>6. Sorted(tx, packet')
  <2> SUFFICES ASSUME NEW i \in DOMAIN tx, NEW j \in DOMAIN tx, i < j
               PROVE  tx[i] # tx[j] /\ packet'[tx[i]].wait <= packet'[tx[j]].wait
    BY DEF Sorted
  <2>1. tx[i] # tx[j] /\ packet[tx[i]].wait <= packet[tx[j]].wait
    BY <1>4 DEF InOrder, Sorted
  <2> QED
    BY <1>2, <1>3, <2>1
<1>7. Ahead(tx, packet')
  BY <1>2, <1>4 DEF InOrder, Ahead
<1>8. InOrder(tx, packet', Pending)
  BY <1>4, <1>5, <1>6, <1>7 DEF InOrder, Matches
<1> QED
  BY <1>1, <1>8, InOrderNext

\* The service task executes an action that is about no packet.
LEMMA OtherExecutesOrder ==
  ASSUME EngineTypeOK, QueuedInOrder,
         ExecuteAdd \/ ExecuteSend \/ ExecuteEnd \/ ExecuteRx \/ ExecuteHost
  PROVE  QueuedInOrder'
<1>1. /\ current # None /\ current' = None /\ current.type \in {"add", "send", "end", "rx", "host"}
      /\ UNCHANGED <<queue, tx, packet>>
  BY DEF ExecuteAdd, ExecuteSend, ExecuteEnd, ExecuteRx, ExecuteHost, Executes
<1> DEFINE p == Pending
<1>2. p \in Seq(Actions) /\ p # <<>> /\ Head(p) = current /\ Pending' = Tail(p)
  BY <1>1, PendingTail
<1>3. InOrder(tx, packet, p) /\ tx \in Seq(Addrs)
  BY InOrderIs DEF EngineTypeOK
<1> HIDE DEF p
<1>4. \A a : Head(p) # Action("tx", a)
  BY <1>1, <1>2, ActionFields
<1>5. InOrder(tx, packet, Tail(p))
  BY <1>2, <1>3, <1>4, OrderTail
<1> QED
  BY <1>1, <1>2, <1>5, InOrderNext

\* A packet is inserted into what the other actions have left of the queue.
LEMMA InsertedOrder ==
  ASSUME EngineTypeOK, NEW q \in Seq(Addrs), NEW p, InOrder(q, packet, p),
         \A i \in DOMAIN q : packet[q[i]].queued => packet[q[i]].wait < 0,
         NEW a \in Addrs, NEW w \in 0 .. Delay, \A i \in DOMAIN q : q[i] # a,
         NEW k, \A i \in DOMAIN q : k[q[i]] = packet[q[i]],
         k[a].wait = w, ~k[a].queued
  PROVE  InOrder(Schedule(q, a, w), k, p)
<1>1. w \in Int /\ w >= 0
  BY EngineAssumption
<1>2. \A b \in Addrs : packet[b].wait \in Int
  BY DEF EngineTypeOK, Packets
<1> DEFINE r == Schedule(q, a, w)
<1>3. r \in Seq(Addrs)
  BY <1>1, <1>2, ScheduleInserts
<1>4. PICK n : /\ Inserted(r, q, a, n)
               /\ \A i \in 1 .. n : packet[q[i]].wait <= w
               /\ n < Len(q) => packet[q[n + 1]].wait > w
  BY <1>1, <1>2, ScheduleInserts
<1> HIDE DEF r
<1>5. DOMAIN q = 1 .. Len(q) /\ Len(q) \in Nat /\ n \in 0 .. Len(q)
      /\ \A i \in DOMAIN q : q[i] \in Addrs
  BY <1>4 DEF Inserted
<1>6. \A i \in DOMAIN q : q[i] # a /\ k[q[i]].wait \in Int
  BY <1>2, <1>5
<1>7. \A i \in 1 .. n : k[q[i]].wait <= w
  BY <1>4, <1>5
<1>8. n < Len(q) => k[q[n + 1]].wait > w
  <2>1. n < Len(q) => n + 1 \in DOMAIN q
    BY <1>5
  <2> QED
    BY <1>4, <2>1
<1>9. \A i \in DOMAIN q : k[q[i]].queued => k[q[i]].wait <= w
  BY <1>1, <1>2, <1>5
<1>10. InOrder(q, k, p)
  BY OrderAgrees
<1>11. InOrder(r, k, p)
  BY <1>1, <1>3, <1>4, <1>6, <1>7, <1>8, <1>9, <1>10, OrderInserted
<1> QED
  BY <1>11 DEF r

\* The packet at the head of the queue is sent; an action about another one, or
\* about one that has since come to the same address, does nothing.
LEMMA ExecuteTxOrder ==
  ASSUME EngineTypeOK, DueInv, QueuedInOrder, ExecuteTx
  PROVE  QueuedInOrder'
<1>1. current # None /\ current' = None /\ current.type = "tx" /\ queue' = queue
  BY DEF ExecuteTx, Executes
<1>2. PICK a : a = current.obj
  OBVIOUS
<1> DEFINE p == Pending
<1>3. p \in Seq(Actions) /\ p # <<>> /\ Head(p) = current /\ Pending' = Tail(p)
  BY <1>1, PendingTail
<1>4. InOrder(tx, packet, p) /\ tx \in Seq(Addrs) /\ packet \in [Addrs -> Packets]
  BY InOrderIs DEF EngineTypeOK
<1>5. Head(p) = Action("tx", a)
  BY <1>1, <1>2, <1>3, CurrentMade
<1> HIDE DEF p
<1>6. CASE tx # <<>> /\ a = Head(tx) /\ packet[a].queued
  <2>1. a \in Addrs /\ Tail(tx) \in Seq(Addrs)
    BY <1>4, <1>6
  <2>2. InOrder(Tail(tx), packet, Tail(p))
    BY <1>3, <1>4, <1>6, OrderTaken
  <2> DEFINE q == Tail(tx)
  <2>3. \A i \in DOMAIN q : /\ q[i] \in Addrs /\ q[i] # a
                            /\ packet[q[i]].queued => packet[q[i]].wait < 0
    <3> SUFFICES ASSUME NEW i \in DOMAIN q
                 PROVE  /\ q[i] \in Addrs /\ q[i] # a
                        /\ packet[q[i]].queued => packet[q[i]].wait < 0
      OBVIOUS
    <3>1. 1 \in DOMAIN tx /\ i + 1 \in DOMAIN tx /\ 1 < i + 1 /\ q[i] = tx[i + 1] /\ a = tx[1]
      BY <1>4, <1>6
    <3>2. tx[1] # tx[i + 1] /\ tx[i + 1] \in Addrs
      BY <1>4, <3>1 DEF InOrder, Sorted
    <3> QED
      BY <3>1, <3>2 DEF DueInv
  <2> HIDE DEF q
  <2>4. CASE tx' = q /\ packet' = [packet EXCEPT ![a] = Nothing]
    <3>1. \A i \in DOMAIN q : packet'[q[i]] = packet[q[i]]
      BY <1>4, <2>3, <2>4
    <3>2. InOrder(q, packet, Tail(p))
      BY <2>2 DEF q
    <3>3. InOrder(q, packet', Tail(p))
      BY <3>1, <3>2, OrderAgrees
    <3> QED
      BY <1>3, <2>4, <3>3, InOrderNext
  <2>5. ASSUME NEW w \in 1 .. Delay,
               tx' = Schedule(q, a, w),
               packet' = [packet EXCEPT ![a].wait = w, ![a].sends = @ + 1, ![a].queued = FALSE]
        PROVE  QueuedInOrder'
    <3>1. \A i \in DOMAIN q : packet'[q[i]] = packet[q[i]]
      <4>1. \A b \in Addrs : b # a => packet'[b] = packet[b]
        BY <1>4, <2>5
      <4> QED
        BY <2>3, <4>1
    <3>2. packet'[a].wait = w /\ ~packet'[a].queued
      <4>1. PICK k \in Packets : k = packet[a]
        BY <1>4, <2>1
      <4>2. packet'[a] = [k EXCEPT !.wait = w, !.sends = @ + 1, !.queued = FALSE]
        BY <1>4, <2>1, <2>5, <4>1
      <4>3. w \in Int
        BY EngineAssumption
      <4> QED
        BY <4>2, <4>3, AgainTyped
    <3>3. w \in 0 .. Delay
      BY EngineAssumption
    <3>4. InOrder(Schedule(q, a, w), packet', Tail(p))
      BY <2>1, <2>2, <2>3, <3>1, <3>2, <3>3, InsertedOrder DEF q
    <3> QED
      BY <1>3, <2>5, <3>4, InOrderNext
  <2> QED
    BY <1>2, <1>6, <2>4, <2>5 DEF ExecuteTx, q
<1>7. CASE ~(tx # <<>> /\ a = Head(tx) /\ packet[a].queued)
  <2>1. UNCHANGED <<tx, packet>>
    BY <1>2, <1>7 DEF ExecuteTx
  <2>2. tx # <<>> /\ packet[Head(tx)].queued => Head(p) # Action("tx", Head(tx))
    <3>1. tx # <<>> /\ packet[Head(tx)].queued => a # Head(tx)
      BY <1>7
    <3>2. Action("tx", a).obj = a /\ Action("tx", Head(tx)).obj = Head(tx)
      BY ActionFields
    <3> QED
      BY <1>5, <3>1, <3>2
  <2>3. InOrder(tx, packet, Tail(p))
    BY <1>3, <1>4, <2>2, OrderTail
  <2> QED
    BY <1>3, <2>1, <2>3, InOrderNext
<1> QED
  BY <1>6, <1>7

\* The packets of a pcb that begins anew are taken out of the queue, and a new
\* packet finds its place in it.
LEMMA ExecuteWorkOrder ==
  ASSUME EngineTypeOK, DueInv, QueuedInOrder, ExecuteWork
  PROVE  QueuedInOrder'
<1>1. /\ current # None /\ current' = None /\ current.type \in {"restart", "announce"}
      /\ queue' = queue
  BY DEF ExecuteWork, Executes
<1> DEFINE p == Pending
<1>2. p \in Seq(Actions) /\ p # <<>> /\ Head(p) = current /\ Pending' = Tail(p)
  BY <1>1, PendingTail
<1>3. InOrder(tx, packet, p) /\ tx \in Seq(Addrs)
  BY InOrderIs DEF EngineTypeOK
<1> HIDE DEF p
<1>4. \A a : Head(p) # Action("tx", a)
  BY <1>1, <1>2, ActionFields
<1>5. InOrder(tx, packet, Tail(p))
  BY <1>2, <1>3, <1>4, OrderTail
<1>6. CASE UNCHANGED <<tx, packet>>
  BY <1>2, <1>5, <1>6, InOrderNext
<1>7. ASSUME NEW b, NEW S, NEW q \in {tx, Keep(tx, S)}, NEW a, NEW w, NewPacket(q, a, w, b)
      PROVE  QueuedInOrder'
  <2>1. /\ q \in Seq(Addrs) /\ a \in Addrs /\ w \in 0 .. Delay
        /\ \A i \in DOMAIN q : q[i] # a
        /\ tx' = Schedule(q, a, w)
        /\ packet' = [c \in Addrs |->
                        IF c = a THEN [wait |-> w, sends |-> 1, queued |-> FALSE, pcb |-> b]
                        ELSE IF \E i \in DOMAIN q : q[i] = c THEN packet[c] ELSE Nothing]
    BY <1>7 DEF NewPacket
  <2>2. InOrder(q, packet, Tail(p))
    <3>1. CASE q = tx
      BY <1>5, <3>1
    <3>2. CASE q = Keep(tx, S)
      <4>1. Remains(q, tx, Len(tx), S)
        BY <1>3, <3>2, KeepRemains
      <4> QED
        BY <1>3, <1>5, <2>1, <4>1, OrderRemains
    <3> QED
      BY <1>7, <3>1, <3>2
  <2>3. \A i \in DOMAIN q : q[i] \in Addrs
    BY <2>1
  <2>4. \A i \in DOMAIN q : packet[q[i]].queued => packet[q[i]].wait < 0
    BY <2>3 DEF DueInv
  <2>5. \A i \in DOMAIN q : packet'[q[i]] = packet[q[i]]
    BY <2>1, <2>3
  <2>6. packet'[a].wait = w /\ ~packet'[a].queued
    BY <2>1
  <2>7. InOrder(Schedule(q, a, w), packet', Tail(p))
    BY <2>1, <2>2, <2>4, <2>5, <2>6, InsertedOrder
  <2> QED
    BY <1>2, <2>1, <2>7, InOrderNext
<1> QED
  BY <1>6, <1>7, WorkCases

\* The timer's second half and the callers post actions, and touch no packet.
LEMMA PostOrder ==
  ASSUME EngineTypeOK, QueuedInOrder, UNCHANGED <<current, tx, packet>>,
         queue' = queue \/ \E x \in Actions : queue' = Append(queue, x)
  PROVE  QueuedInOrder'
<1>1. CASE queue' = queue
  <2>1. Pending' = Pending
    BY <1>1 DEF Pending
  <2> QED
    BY <2>1, OrderKept
<1>2. CASE queue' # queue
  <2>1. PICK x \in Actions : queue' = Append(queue, x)
    BY <1>2
  <2> QED
    BY <2>1, PostGrows, OrderKept
<1> QED
  BY <1>1, <1>2

LEMMA CallOrder ==
  ASSUME EngineTypeOK, QueuedInOrder, NEW c \in Callers,
         Query(c, "sync") \/ Query(c, "async") \/ SetHostname(c) \/ Return(c)
  PROVE  QueuedInOrder'
<1>1. UNCHANGED <<current, tx, packet>>
  BY DEF Query, SetHostname, Return, Notified, SyncReturns, GetResults, DeleteTest, Delete
<1>2. Action("add", c) \in Actions /\ Action("host", c) \in Actions
  BY ActionsMade
<1>3. \/ queue' = queue \/ queue' = Append(queue, Action("add", c))
      \/ queue' = Append(queue, Action("host", c))
  BY DEF Query, SetHostname, Post, Return, Notified, SyncReturns, GetResults, DeleteTest, Delete
<1> QED
  BY <1>1, <1>2, <1>3, PostOrder

\* The packets that have been put on the action queue are a prefix of the
\* transmit queue, and their actions come in the same order: none is skipped.
THEOREM QueuedStayInOrder == Spec => []QueuedInOrder
<1>1. Init => QueuedInOrder
  <2> SUFFICES ASSUME Init PROVE InOrder(tx, packet, Pending)
    BY InOrderIs
  <2>1. tx = <<>> /\ DOMAIN tx = {} /\ QueuedAt(tx, packet) = {}
    BY DEF Init, QueuedAt
  <2>2. Matches([i \in QueuedAt(tx, packet) |-> i], tx, packet, Pending)
    BY <2>1 DEF Matches
  <2> QED
    BY <2>1, <2>2 DEF InOrder, Sorted, Ahead
<1>2. EngineTypeOK /\ DueInv /\ QueuedInOrder /\ [Next]_vars => QueuedInOrder'
  <2> SUFFICES ASSUME EngineTypeOK, DueInv, QueuedInOrder, [Next]_vars PROVE QueuedInOrder'
    OBVIOUS
  <2>1. CASE Service
    <3>1. CASE Receive
      <4>1. UNCHANGED <<tx, packet>> /\ Pending' = Pending
        BY <3>1, PendingReceived DEF Receive
      <4> QED
        BY <4>1, OrderKept
    <3>2. CASE ExecuteTx
      BY <3>2, ExecuteTxOrder
    <3>3. CASE ExecuteWork
      BY <3>3, ExecuteWorkOrder
    <3>4. CASE ExecuteAdd \/ ExecuteSend \/ ExecuteEnd \/ ExecuteRx \/ ExecuteHost
      BY <3>4, OtherExecutesOrder
    <3> QED
      BY <2>1, <3>1, <3>2, <3>3, <3>4 DEF Service
  <2>2. CASE SchedulerRun
    BY <2>2, SchedulerRunOrder
  <2>3. CASE SearchRun
    <3>1. UNCHANGED <<current, tx, packet>>
      BY <2>3 DEF SearchRun
    <3>2. queue' \in Seq(Actions) /\ Continues(queue')
      BY <2>3, SearchRunKeeps
    <3> QED
      BY <3>1, <3>2, PendingGrows, OrderKept DEF Continues
  <2>4. CASE Tick
    BY <2>4, TickOrder
  <2>5. ASSUME NEW c \in Callers,
               Query(c, "sync") \/ Query(c, "async") \/ SetHostname(c) \/ Return(c)
        PROVE  QueuedInOrder'
    BY <2>5, CallOrder
  <2>6. ASSUME NEW type, NEW obj, Action(type, obj) \in Actions, Outside(type, obj)
        PROVE  QueuedInOrder'
    BY <2>6, PostOrder DEF Outside, Post
  <2>7. CASE UNCHANGED vars
    BY <2>7, PostOrder DEF vars
  <2> QED
    BY <2>1, <2>2, <2>3, <2>4, <2>5, <2>6, <2>7, ActionsMade DEF Next, Steps, Timer
<1> QED
  BY <1>1, <1>2, EngineTypes, DueInductive, PTL DEF Spec

=============================================================================
