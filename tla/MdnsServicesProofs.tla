------------------------- MODULE MdnsServicesProofs -------------------------
(***************************************************************************)
(* What is proved of the service table of mDNS, for any tasks, items,      *)
(* sizes and timeouts: every item that is allocated has exactly one owner, *)
(* however calls, full queues and timeouts interleave; and, until a call   *)
(* overlaps a removal, nobody has the address of an item that is freed.    *)
(*                                                                         *)
(* And of the answers that are made from the table, for any services,      *)
(* hosts and queries: what is sent is about what has been asked for; all   *)
(* that is asked for is sent, unless an answer of its kind is known; and   *)
(* if no two services have the same type, nothing is sent to an asker who  *)
(* knows it.                                                               *)
(***************************************************************************)
EXTENDS MdnsServicesInv, MdnsAnswersInv, FiniteSetTheorems, SequenceTheorems, Induction, TLAPS

-----------------------------------------------------------------------------
(* Positions of an item.                                                    *)

\* The positions of i in a table, and of its ADD actions in a queue
PlacesIn(l, i) == {n \in DOMAIN l : l[n] = i}
AddsIn(q, i)   == {n \in DOMAIN q : q[n] = Action("add", i)}

AtMostOne(S) == \A x, y \in S : x = y

\* An action at the end of the queue
LEMMA AppendAdds ==
  ASSUME NEW q \in Seq(Actions), NEW c \in Actions
  PROVE  /\ Append(q, c) \in Seq(Actions) /\ Len(Append(q, c)) = Len(q) + 1
         /\ DOMAIN q = 1 .. Len(q) /\ Len(q) \in Nat
         /\ DOMAIN Append(q, c) = 1 .. Len(q) + 1
         /\ \A n \in 1 .. Len(q) : Append(q, c)[n] = q[n]
         /\ Append(q, c)[Len(q) + 1] = c
         /\ \A i : AddsIn(Append(q, c), i) = IF c = Action("add", i)
                                             THEN AddsIn(q, i) \cup {Len(q) + 1}
                                             ELSE AddsIn(q, i)
<1> DEFINE r == Append(q, c)
<1>1. /\ r \in Seq(Actions) /\ Len(r) = Len(q) + 1
      /\ DOMAIN q = 1 .. Len(q) /\ Len(q) \in Nat /\ DOMAIN r = 1 .. Len(q) + 1
      /\ \A n \in 1 .. Len(q) : r[n] = q[n]
      /\ r[Len(q) + 1] = c
  OBVIOUS
<1> HIDE DEF r
<1>2. ASSUME NEW i
      PROVE  AddsIn(r, i) = IF c = Action("add", i) THEN AddsIn(q, i) \cup {Len(q) + 1}
                                                    ELSE AddsIn(q, i)
  BY <1>1 DEF AddsIn
<1> QED
  BY <1>1, <1>2 DEF r

\* The head of the queue is taken.
LEMMA TailAdds ==
  ASSUME NEW q \in Seq(Actions), q # <<>>
  PROVE  /\ Tail(q) \in Seq(Actions) /\ Len(Tail(q)) = Len(q) - 1
         /\ Head(q) \in Actions /\ Head(q) = q[1] /\ 1 \in DOMAIN q
         /\ DOMAIN q = 1 .. Len(q) /\ Len(q) \in Nat
         /\ DOMAIN Tail(q) = 1 .. Len(q) - 1
         /\ \A n \in DOMAIN Tail(q) : n + 1 \in DOMAIN q /\ Tail(q)[n] = q[n + 1]
         /\ \A i : AtMostOne(AddsIn(q, i)) =>
              /\ AtMostOne(AddsIn(Tail(q), i))
              /\ Head(q) # Action("add", i) => (AddsIn(Tail(q), i) = {} <=> AddsIn(q, i) = {})
              /\ Head(q) = Action("add", i) => AddsIn(Tail(q), i) = {} /\ AddsIn(q, i) # {}
<1> DEFINE r == Tail(q)
<1>1. /\ r \in Seq(Actions) /\ Len(r) = Len(q) - 1 /\ Head(q) \in Actions /\ Head(q) = q[1]
      /\ DOMAIN q = 1 .. Len(q) /\ Len(q) \in Nat \ {0} /\ DOMAIN r = 1 .. Len(q) - 1
      /\ \A n \in 1 .. Len(q) - 1 : r[n] = q[n + 1]
  OBVIOUS
<1> HIDE DEF r
<1>2. ASSUME NEW i, AtMostOne(AddsIn(q, i))
      PROVE  /\ AtMostOne(AddsIn(r, i))
             /\ Head(q) # Action("add", i) => (AddsIn(r, i) = {} <=> AddsIn(q, i) = {})
             /\ Head(q) = Action("add", i) => AddsIn(r, i) = {} /\ AddsIn(q, i) # {}
  <2>1. \A n \in AddsIn(r, i) : n + 1 \in AddsIn(q, i) /\ n \in Nat /\ 1 <= n
    BY <1>1 DEF AddsIn
  <2>2. \A n \in AddsIn(q, i) : n # 1 => n - 1 \in AddsIn(r, i)
    BY <1>1 DEF AddsIn
  <2>3. AtMostOne(AddsIn(r, i))
    BY <1>2, <2>1 DEF AtMostOne
  <2>4. 1 \in AddsIn(q, i) <=> Head(q) = Action("add", i)
    BY <1>1 DEF AddsIn
  <2>5. 1 \in AddsIn(q, i) => AddsIn(r, i) = {}
    BY <1>2, <2>1 DEF AtMostOne
  <2> QED
    BY <2>1, <2>2, <2>3, <2>4, <2>5
<1> QED
  BY <1>1, <1>2 DEF r

\* An item is put at the head of the table.
LEMMA PrependPlaces ==
  ASSUME NEW l \in Seq(Items), NEW j \in Items, NEW i, AtMostOne(PlacesIn(l, i))
  PROVE  /\ <<j>> \o l \in Seq(Items)
         /\ i # j => AtMostOne(PlacesIn(<<j>> \o l, i))
                     /\ (PlacesIn(<<j>> \o l, i) = {} <=> PlacesIn(l, i) = {})
         /\ i = j /\ PlacesIn(l, i) = {} => PlacesIn(<<j>> \o l, i) = {1}
<1> DEFINE r == <<j>> \o l
<1>1. /\ r \in Seq(Items) /\ Len(l) \in Nat /\ DOMAIN l = 1 .. Len(l)
      /\ DOMAIN r = 1 .. Len(l) + 1 /\ r[1] = j
      /\ \A n \in 1 .. Len(l) : r[n + 1] = l[n]
  OBVIOUS
<1>2. \A n \in 2 .. Len(l) + 1 : r[n] = l[n - 1] /\ n - 1 \in 1 .. Len(l)
  BY <1>1
<1> HIDE DEF r
<1>3. \A n \in PlacesIn(r, i) : (n = 1 /\ i = j) \/ (n - 1 \in PlacesIn(l, i) /\ n \in Nat)
  BY <1>1, <1>2 DEF PlacesIn
<1>4. \A n \in PlacesIn(l, i) : n + 1 \in PlacesIn(r, i)
  BY <1>1 DEF PlacesIn
<1>5. i # j => AtMostOne(PlacesIn(r, i)) /\ (PlacesIn(r, i) = {} <=> PlacesIn(l, i) = {})
  BY <1>3, <1>4 DEF AtMostOne
<1>6. i = j /\ PlacesIn(l, i) = {} => PlacesIn(r, i) = {1}
  <2>1. i = j => 1 \in PlacesIn(r, i)
    BY <1>1 DEF PlacesIn
  <2> QED
    BY <1>3, <2>1
<1> QED
  BY <1>1, <1>5, <1>6 DEF r

\* One item is taken out of the table.
LEMMA RemovePlaces ==
  ASSUME NEW l \in Seq(Items), NEW k \in DOMAIN l, NEW i, AtMostOne(PlacesIn(l, i))
  PROVE  /\ SubSeq(l, 1, k - 1) \o SubSeq(l, k + 1, Len(l)) \in Seq(Items)
         /\ i # l[k] =>
              /\ AtMostOne(PlacesIn(SubSeq(l, 1, k - 1) \o SubSeq(l, k + 1, Len(l)), i))
              /\ PlacesIn(SubSeq(l, 1, k - 1) \o SubSeq(l, k + 1, Len(l)), i) = {}
                   <=> PlacesIn(l, i) = {}
         /\ i = l[k] => PlacesIn(SubSeq(l, 1, k - 1) \o SubSeq(l, k + 1, Len(l)), i) = {}
<1> DEFINE a == SubSeq(l, 1, k - 1)
           b == SubSeq(l, k + 1, Len(l))
           r == a \o b
<1>1. Len(l) \in Nat /\ DOMAIN l = 1 .. Len(l) /\ k \in 1 .. Len(l)
  OBVIOUS
<1>2. /\ a \in Seq(Items) /\ Len(a) = k - 1
      /\ \A n \in 1 .. k - 1 : a[n] = l[n]
  BY <1>1
<1>3. /\ b \in Seq(Items) /\ Len(b) = Len(l) - k
      /\ \A n \in 1 .. Len(l) - k : b[n] = l[k + n]
  BY <1>1
<1> HIDE DEF a, b
<1>4. /\ r \in Seq(Items) /\ Len(r) = Len(l) - 1 /\ DOMAIN r = 1 .. Len(l) - 1
      /\ \A n \in 1 .. k - 1 : r[n] = l[n]
      /\ \A n \in k .. Len(l) - 1 : r[n] = l[n + 1]
  <2>1. /\ r \in Seq(Items) /\ Len(r) = Len(a) + Len(b)
        /\ \A n \in 1 .. Len(a) + Len(b) : r[n] = IF n <= Len(a) THEN a[n] ELSE b[n - Len(a)]
    <3>1. a \in Seq(Items) /\ b \in Seq(Items)
      BY <1>2, <1>3
    <3> QED
      BY <3>1, ConcatProperties, Zenon
  <2> HIDE DEF r
  <2>2. ASSUME NEW n \in k .. Len(l) - 1 PROVE r[n] = l[n + 1]
    <3>1. n - (k - 1) \in 1 .. Len(l) - k /\ k + (n - (k - 1)) = n + 1
      BY <1>1
    <3>2. n \in 1 .. Len(a) + Len(b) /\ ~(n <= Len(a))
      BY <1>1, <1>2, <1>3
    <3>3. r[n] = b[n - Len(a)]
      BY <2>1, <3>2
    <3> QED
      BY <1>2, <1>3, <3>1, <3>3
  <2> QED
    BY <1>1, <1>2, <1>3, <2>1, <2>2
<1> HIDE DEF r
<1>5. \A n \in PlacesIn(r, i) : /\ n \in Nat
                                /\ n < k => n \in PlacesIn(l, i)
                                /\ k <= n => n + 1 \in PlacesIn(l, i)
  BY <1>1, <1>4 DEF PlacesIn
<1>6. \A n \in PlacesIn(l, i) : /\ n \in Nat
                                /\ n < k => n \in PlacesIn(r, i)
                                /\ k < n => n - 1 \in PlacesIn(r, i)
                                /\ n = k <=> i = l[k] /\ n = k
  BY <1>1, <1>4 DEF PlacesIn
<1>7. AtMostOne(PlacesIn(r, i))
  BY <1>1, <1>5 DEF AtMostOne
<1>8. i # l[k] => (PlacesIn(r, i) = {} <=> PlacesIn(l, i) = {})
  BY <1>1, <1>5, <1>6
<1>9. i = l[k] => PlacesIn(r, i) = {}
  <2>1. i = l[k] => k \in PlacesIn(l, i)
    BY DEF PlacesIn
  <2> QED
    BY <1>1, <1>5, <2>1 DEF AtMostOne
<1> QED
  BY <1>4, <1>7, <1>8, <1>9 DEF r, a, b

-----------------------------------------------------------------------------
(* The callers.                                                             *)

Whereabouts == {"idle", "count", "look", "post", "added", "poll", "notify"}

\* The calls that the code makes are actions.
LEMMA CallsMade ==
  /\ NoCall \in Actions /\ NoCall.type = "none" /\ NoCall.obj = None
  /\ \A type \in {"none", "add", "set", "del", "clear", "host", "exists", "name", "other"} :
       \A x \in Items \cup Tasks \cup {None} :
         /\ Action(type, x) \in Actions
         /\ Action(type, x).type = type /\ Action(type, x).obj = x
  /\ \A a \in Actions : a.type = "add" => a = Action("add", a.obj)
BY DEF NoCall, Actions, Action

\* The first item, and the one behind an item of the table
LEMMA NextIsListed ==
  ASSUME OwnerInv
  PROVE  /\ First \in Listed \cup {None}
         /\ \A i \in Listed : After(i) \in Listed \cup {None}
         /\ Listed \subseteq Items
<1>1. list \in Seq(Items) /\ DOMAIN list = 1 .. Len(list) /\ Len(list) \in Nat
  BY DEF OwnerInv, ServTypeOK
<1>2. First \in Listed \cup {None}
  <2>1. list # <<>> => Head(list) = list[1] /\ 1 \in DOMAIN list
    BY <1>1
  <2> QED
    BY <2>1 DEF First, Listed
<1>3. ASSUME NEW i \in Listed PROVE After(i) \in Listed \cup {None}
  <2> DEFINE n == CHOOSE n \in DOMAIN list : list[n] = i
  <2>1. n \in DOMAIN list
    BY DEF Listed
  <2>2. n # Len(list) => n + 1 \in DOMAIN list
    BY <1>1, <2>1
  <2>3. After(i) = IF n = Len(list) THEN None ELSE list[n + 1]
    BY DEF After
  <2> HIDE DEF n
  <2> QED
    BY <2>2, <2>3 DEF Listed
<1>4. Listed \subseteq Items
  BY <1>1 DEF Listed
<1> QED
  BY <1>2, <1>3, <1>4

\* Where a walk is, unless something stray is about to be read
LEMMA WalkIsListed ==
  ASSUME OwnerInv, ~Stray, NEW t \in Tasks, cur[t] # None
  PROVE  cur[t] \in Listed
BY DEF OwnerInv, Walks, Stray

\* What does not change when one task moves
Apart == list' = list /\ fresh' = fresh /\ used' = used /\ queue' = queue

\* The variables that belong to one task, and those nobody owns
Moves(t, p, c, i) ==
  /\ at' = [at EXCEPT ![t] = p] /\ call' = [call EXCEPT ![t] = c]
  /\ cur' = [cur EXCEPT ![t] = i]
  /\ seen' \in [Tasks -> Nat] /\ left' \in [Tasks -> 0 .. Timeout]
  /\ calls' \in Nat /\ unsure' \subseteq Tasks /\ hasty' \in BOOLEAN

\* A caller moves, to a place, a call and a node.
LEMMA CallerMoves ==
  ASSUME OwnerInv, NEW t \in Tasks, NEW p \in Whereabouts, NEW c \in Actions, c.type # "name",
         NEW i \in Listed \cup {None}, Moves(t, p, c, i)
  PROVE  /\ at' \in [Tasks -> Whereabouts] /\ call' \in [Tasks -> Actions]
         /\ cur' \in [Tasks -> Items \cup {None}]
         /\ at'[t] = p /\ call'[t] = c /\ cur'[t] = i
         /\ \A u \in Tasks : u # t => at'[u] = at[u] /\ call'[u] = call[u] /\ cur'[u] = cur[u]
         /\ \A u \in Tasks : call'[u].type # "name"
         /\ \A j : InHand(j)' = IF p = "post" /\ c = Action("add", j)
                                THEN InHand(j) \cup {t} ELSE InHand(j) \ {t}
<1>1. /\ at \in [Tasks -> Whereabouts] /\ call \in [Tasks -> Actions]
      /\ cur \in [Tasks -> Items \cup {None}]
      /\ \A u \in Tasks : call[u].type # "name"
      /\ i \in Items \cup {None}
  BY NextIsListed DEF OwnerInv, ServTypeOK, Whereabouts, CarriesAll
<1>2. /\ at' \in [Tasks -> Whereabouts] /\ call' \in [Tasks -> Actions]
      /\ cur' \in [Tasks -> Items \cup {None}]
      /\ at'[t] = p /\ call'[t] = c /\ cur'[t] = i
      /\ \A u \in Tasks : u # t => at'[u] = at[u] /\ call'[u] = call[u] /\ cur'[u] = cur[u]
  BY <1>1 DEF Moves
<1>3. \A u \in Tasks : call'[u].type # "name"
  BY <1>1, <1>2
<1>4. ASSUME NEW j
      PROVE  InHand(j)' = IF p = "post" /\ c = Action("add", j)
                          THEN InHand(j) \cup {t} ELSE InHand(j) \ {t}
  BY <1>2 DEF InHand
<1> QED
  BY <1>2, <1>3, <1>4

\* A caller moves that has no item in its hands, and gets none.
LEMMA MoveKeeps ==
  ASSUME OwnerInv, NEW t \in Tasks, NEW p \in Whereabouts, NEW c \in Actions, c.type # "name",
         NEW i \in Listed \cup {None}, Moves(t, p, c, i), Apart, at[t] # "notify",
         ~(at[t] = "post" /\ call[t].type = "add"), ~(p = "post" /\ c.type = "add")
  PROVE  OwnerInv'
<1>1. /\ at' \in [Tasks -> Whereabouts] /\ call' \in [Tasks -> Actions]
      /\ cur' \in [Tasks -> Items \cup {None}]
      /\ at'[t] = p /\ call'[t] = c /\ cur'[t] = i
      /\ \A u \in Tasks : u # t => at'[u] = at[u] /\ call'[u] = call[u] /\ cur'[u] = cur[u]
      /\ \A u \in Tasks : call'[u].type # "name"
      /\ \A j : InHand(j)' = IF p = "post" /\ c = Action("add", j)
                             THEN InHand(j) \cup {t} ELSE InHand(j) \ {t}
  BY CallerMoves
<1>2. ServTypeOK'
  BY <1>1 DEF OwnerInv, ServTypeOK, Apart, Moves, Whereabouts
<1>3. ASSUME NEW j \in Items PROVE Owned(j)'
  <2>1. InHand(j)' = InHand(j)
    <3>1. Action("add", j).type = "add"
      BY CallsMade
    <3>2. t \notin InHand(j)
      BY <3>1 DEF InHand
    <3> QED
      BY <1>1, <3>1, <3>2
  <2>2. InList(j)' = InList(j) /\ InQueue(j)' = InQueue(j) /\ used' = used
    BY DEF Apart, InList, InQueue
  <2> QED
    BY <2>1, <2>2 DEF OwnerInv, Owned
<1>4. CarriesAll'
  <2>1. \A n \in DOMAIN queue : Carries(queue[n])'
    BY <1>1 DEF OwnerInv, CarriesAll, Carries, Apart
  <2>2. \A u \in Tasks : at'[u] = "post" /\ call'[u].type = "add" => call'[u].obj \in Items
    BY <1>1 DEF OwnerInv, CarriesAll
  <2> QED
    BY <1>1, <2>1, <2>2 DEF CarriesAll, Carries, Apart
<1>5. Walks'
  BY <1>1 DEF OwnerInv, Walks, Apart, Listed
<1>6. NotifiedOnce'
  BY DEF OwnerInv, NotifiedOnce, Apart
<1> QED
  BY <1>2, <1>3, <1>4, <1>5, <1>6 DEF OwnerInv

\* A call that returns moves to "idle".
LEMMA EndsMoves ==
  ASSUME OwnerInv, NEW t \in Tasks, Ends(t), calls' = calls, unsure' = unsure, hasty' = hasty
  PROVE  Moves(t, "idle", NoCall, None)
BY ServicesAssumption DEF OwnerInv, ServTypeOK, Ends, Goes, Moves

\* One that goes on may keep its call.
LEMMA GoesMoves ==
  ASSUME OwnerInv, NEW t \in Tasks, NEW p, NEW i, NEW c, Goes(t, p, i),
         (call' = call /\ c = call[t]) \/ call' = [call EXCEPT ![t] = c],
         seen' \in [Tasks -> Nat], left' = left, calls' \in Nat,
         unsure' \subseteq Tasks, hasty' \in BOOLEAN
  PROVE  Moves(t, p, c, i)
<1>1. call' = [call EXCEPT ![t] = c]
  BY DEF OwnerInv, ServTypeOK
<1> QED
  BY <1>1 DEF OwnerInv, ServTypeOK, Goes, Moves

\* A call begins.
LEMMA BeginsMoves ==
  ASSUME OwnerInv, NEW t \in Tasks, NEW p, NEW type, Begins(t, p, type)
  PROVE  /\ at[t] = "idle" /\ Apart
         /\ Moves(t, p, Action(type, None), IF p = "post" THEN None ELSE First)
<1>1. /\ Goes(t, p, IF p = "post" THEN None ELSE First)
      /\ call' = [call EXCEPT ![t] = Action(type, None)]
      /\ seen' = seen /\ left' = left /\ calls' = calls + 1
      /\ unsure' \subseteq Tasks /\ hasty' \in BOOLEAN
  BY DEF Begins, OwnerInv, ServTypeOK
<1>2. seen' \in [Tasks -> Nat] /\ calls' \in Nat
  BY <1>1 DEF OwnerInv, ServTypeOK
<1> QED
  BY <1>1, <1>2, GoesMoves DEF Begins, Apart

LEMMA BeginsKeeps ==
  ASSUME OwnerInv, NEW t \in Tasks, NEW p \in Whereabouts,
         NEW type \in {"add", "set", "del", "clear", "host", "exists"},
         p = "post" => type # "add", Begins(t, p, type)
  PROVE  OwnerInv'
<1> DEFINE i == IF p = "post" THEN None ELSE First
           c == Action(type, None)
<1>1. i \in Listed \cup {None}
  BY NextIsListed
<1>2. c \in Actions /\ c.type = type
  BY CallsMade
<1>3. at[t] = "idle" /\ Apart /\ Moves(t, p, c, i)
  BY BeginsMoves
<1> HIDE DEF c, i
<1> QED
  BY <1>1, <1>2, <1>3, MoveKeeps

\* What the steps are that only look
Looks(t) ==
  Count(t) \/ Passes(t) \/ Finds(t) \/ FindsNone(t) \/ Poll(t) \/ PollsOn(t)

\* Where they lead: back to "idle", on along the table with the same call, or to
\* the post with the address of an item of the table.
LEMMA LooksMove ==
  ASSUME OwnerInv, ~Stray, NEW t \in Tasks, Looks(t)
  PROVE  /\ at[t] \in {"count", "look", "poll", "added"}
         /\ Apart /\ unsure' = unsure /\ hasty' = hasty
         /\ \/ Moves(t, "idle", NoCall, None)
            \/ /\ \E p \in {"count", "look", "poll", "added"}, i \in Listed \cup {None} :
                    Moves(t, p, call[t], i)
            \/ /\ cur[t] \in Listed
               /\ call[t].type \notin {"add", "exists"}
               /\ Moves(t, "post", [call[t] EXCEPT !.obj = cur[t]], None)
<1>1. /\ First \in Listed \cup {None} /\ None \in Listed \cup {None}
      /\ cur[t] # None => cur[t] \in Listed /\ After(cur[t]) \in Listed \cup {None}
  BY NextIsListed, WalkIsListed
<1>2. /\ seen \in [Tasks -> Nat] /\ calls \in Nat /\ unsure \subseteq Tasks /\ hasty \in BOOLEAN
      /\ left \in [Tasks -> 0 .. Timeout]
  BY DEF OwnerInv, ServTypeOK
<1>3. CASE Count(t)
  <2>1. at[t] = "count" /\ Apart /\ unsure' = unsure /\ hasty' = hasty /\ calls' = calls
    BY <1>3 DEF Count, Apart
  <2>2. CASE cur[t] = None
    <3>1. Goes(t, "look", First) /\ seen' = seen /\ call' = call /\ left' = left
      BY <1>3, <2>2 DEF Count, Stays
    <3>2. Moves(t, "look", call[t], First)
      BY <1>2, <2>1, <3>1, GoesMoves
    <3> QED
      BY <1>1, <2>1, <3>2
  <2>3. CASE cur[t] # None /\ seen[t] + 1 >= MaxServices
    <3>1. Ends(t)
      BY <1>3, <2>3 DEF Count
    <3> QED
      BY <2>1, <3>1, EndsMoves
  <2>4. CASE cur[t] # None /\ ~(seen[t] + 1 >= MaxServices)
    <3>1. /\ Goes(t, "count", After(cur[t])) /\ call' = call /\ left' = left
          /\ seen' = [seen EXCEPT ![t] = @ + 1]
      BY <1>3, <2>4 DEF Count, Stays
    <3>2. seen' \in [Tasks -> Nat]
      BY <1>2, <3>1
    <3>3. Moves(t, "count", call[t], After(cur[t]))
      BY <1>2, <2>1, <3>1, <3>2, GoesMoves
    <3> QED
      BY <1>1, <2>1, <2>4, <3>3
  <2> QED
    BY <2>2, <2>3, <2>4
<1>4. CASE Passes(t)
  <2>1. /\ at[t] \in {"look", "poll"} /\ cur[t] # None /\ Goes(t, at[t], After(cur[t]))
        /\ Apart /\ unsure' = unsure /\ hasty' = hasty /\ calls' = calls
        /\ seen' = seen /\ call' = call /\ left' = left
    BY <1>4 DEF Passes, Apart
  <2>2. Moves(t, at[t], call[t], After(cur[t]))
    BY <1>2, <2>1, GoesMoves
  <2> QED
    BY <1>1, <2>1, <2>2
<1>5. CASE Finds(t)
  <2>1. /\ at[t] \in {"look", "poll"} /\ cur[t] # None
        /\ Apart /\ unsure' = unsure /\ hasty' = hasty /\ calls' = calls
    BY <1>5 DEF Finds, Apart
  <2>2. CASE call[t].type \in {"add", "exists"}
    <3>1. Ends(t)
      BY <1>5, <2>2 DEF Finds
    <3> QED
      BY <2>1, <3>1, EndsMoves
  <2>3. CASE call[t].type \notin {"add", "exists"}
    <3> DEFINE c == [call[t] EXCEPT !.obj = cur[t]]
    <3>1. /\ Goes(t, "post", None) /\ seen' = seen /\ left' = left
          /\ call' = [call EXCEPT ![t].obj = cur[t]]
      BY <1>5, <2>3 DEF Finds
    <3>2. call' = [call EXCEPT ![t] = c]
      BY <3>1
    <3> HIDE DEF c
    <3>3. Moves(t, "post", c, None)
      BY <1>2, <2>1, <3>1, <3>2, GoesMoves
    <3> QED
      BY <1>1, <2>1, <2>3, <3>3 DEF c
  <2> QED
    BY <2>2, <2>3
<1>6. CASE FindsNone(t)
  <2>1. at[t] = "look" /\ Ends(t) /\ Apart /\ unsure' = unsure /\ hasty' = hasty /\ calls' = calls
    BY <1>6 DEF FindsNone, Apart
  <2> QED
    BY <2>1, EndsMoves
<1>7. CASE Poll(t)
  <2>1. /\ at[t] = "added" /\ Goes(t, "poll", First)
        /\ Apart /\ unsure' = unsure /\ hasty' = hasty /\ calls' = calls
        /\ seen' = seen /\ call' = call /\ left' = left
    BY <1>7 DEF Poll, Apart
  <2>2. Moves(t, "poll", call[t], First)
    BY <1>2, <2>1, GoesMoves
  <2> QED
    BY <1>1, <2>1, <2>2
<1>8. CASE PollsOn(t)
  <2>1. at[t] = "poll" /\ Apart /\ unsure' = unsure /\ hasty' = hasty /\ calls' = calls
    BY <1>8 DEF PollsOn, Apart
  <2>2. CASE left[t] = 0
    <3>1. Ends(t)
      BY <1>8, <2>2 DEF PollsOn
    <3> QED
      BY <2>1, <3>1, EndsMoves
  <2>3. CASE left[t] # 0
    <3>1. Goes(t, "added", None) /\ seen' = seen /\ call' = call /\ left' = left
      BY <1>8, <2>3 DEF PollsOn
    <3>2. Moves(t, "added", call[t], None)
      BY <1>2, <2>1, <3>1, GoesMoves
    <3> QED
      BY <1>1, <2>1, <3>2
  <2> QED
    BY <2>2, <2>3
<1> QED
  BY <1>3, <1>4, <1>5, <1>6, <1>7, <1>8 DEF Looks

LEMMA LooksKeeps ==
  ASSUME OwnerInv, ~Stray, NEW t \in Tasks, Looks(t)
  PROVE  OwnerInv'
<1>1. at[t] \in {"count", "look", "poll", "added"} /\ Apart
  BY LooksMove
<1>2. call[t] \in Actions /\ call[t].type # "name" /\ Listed \subseteq Items
  BY NextIsListed DEF OwnerInv, ServTypeOK, CarriesAll
<1>3. CASE Moves(t, "idle", NoCall, None)
  <2>1. "idle" \in Whereabouts /\ NoCall \in Actions /\ NoCall.type = "none"
    BY CallsMade DEF Whereabouts
  <2> QED
    BY <1>1, <1>3, <2>1, MoveKeeps
<1>4. ASSUME NEW p \in {"count", "look", "poll", "added"}, NEW i \in Listed \cup {None},
             Moves(t, p, call[t], i)
      PROVE  OwnerInv'
  <2>1. p \in Whereabouts
    BY DEF Whereabouts
  <2> QED
    BY <1>1, <1>2, <1>4, <2>1, MoveKeeps
<1>5. ASSUME cur[t] \in Listed, call[t].type \notin {"add", "exists"},
             Moves(t, "post", [call[t] EXCEPT !.obj = cur[t]], None)
      PROVE  OwnerInv'
  <2> DEFINE c == [call[t] EXCEPT !.obj = cur[t]]
  <2>1. c \in Actions /\ c.type = call[t].type
    BY <1>2, <1>5 DEF Actions
  <2>2. "post" \in Whereabouts
    BY DEF Whereabouts
  <2>3. Moves(t, "post", c, None)
    BY <1>5
  <2> HIDE DEF c
  <2> QED
    BY <1>1, <1>2, <1>5, <2>1, <2>2, <2>3, MoveKeeps
<1> QED
  BY <1>3, <1>4, <1>5, LooksMove

\* An item is taken from the heap.
LEMMA AllocatesKeeps ==
  ASSUME OwnerInv, ~Stray, NEW t \in Tasks, Allocates(t)
  PROVE  OwnerInv'
<1>1. PICK i \in Available :
        used' = used \cup {i} /\ fresh' = fresh \ {i} /\ call' = [call EXCEPT ![t].obj = i]
  BY DEF Allocates
<1>2. i \in Items \ used
  BY <1>1 DEF Available, OwnerInv, ServTypeOK
<1>3. /\ at[t] = "look" /\ call[t].type = "add" /\ call[t] \in Actions
      /\ list' = list /\ queue' = queue /\ Goes(t, "post", None)
      /\ seen' = seen /\ left' = left /\ calls' = calls /\ unsure' = unsure /\ hasty' = hasty
  BY DEF Allocates, OwnerInv, ServTypeOK
<1> DEFINE c == Action("add", i)
<1>4. c \in Actions /\ c.type = "add" /\ c.obj = i /\ (\A j : c = Action("add", j) => i = j)
  BY <1>2, CallsMade DEF Action
<1>5. [call[t] EXCEPT !.obj = i] = c
  BY <1>3 DEF Actions, Action
<1>6. call' = [call EXCEPT ![t] = c]
  BY <1>1, <1>5
<1> HIDE DEF c
<1>7. Moves(t, "post", c, None)
  BY <1>3, <1>6, GoesMoves DEF OwnerInv, ServTypeOK
<1>8. /\ at' \in [Tasks -> Whereabouts] /\ call' \in [Tasks -> Actions]
      /\ cur' \in [Tasks -> Items \cup {None}]
      /\ at'[t] = "post" /\ call'[t] = c /\ cur'[t] = None
      /\ \A u \in Tasks : u # t => at'[u] = at[u] /\ call'[u] = call[u] /\ cur'[u] = cur[u]
      /\ \A u \in Tasks : call'[u].type # "name"
      /\ \A j : InHand(j)' = IF c = Action("add", j) THEN InHand(j) \cup {t} ELSE InHand(j) \ {t}
  <2>1. "post" \in Whereabouts /\ None \in Listed \cup {None}
    BY DEF Whereabouts
  <2>2. c.type # "name"
    BY <1>4
  <2> QED
    BY <1>4, <1>7, <2>1, <2>2, CallerMoves
<1>9. ServTypeOK'
  BY <1>1, <1>2, <1>3, <1>7, <1>8 DEF OwnerInv, ServTypeOK, Moves, Whereabouts
<1>10. ASSUME NEW j \in Items PROVE Owned(j)'
  <2>1. Owned(j) /\ InList(j)' = InList(j) /\ InQueue(j)' = InQueue(j) /\ t \notin InHand(j)
    BY <1>3 DEF OwnerInv, InList, InQueue, InHand
  <2>2. CASE j = i
    <3>1. InHand(j)' = InHand(j) \cup {t} /\ j \in used' /\ j \notin used
      BY <1>1, <1>2, <1>8, <2>2 DEF c
    <3> QED
      BY <2>1, <3>1 DEF Owned, OwnedOnce
  <2>3. CASE j # i
    <3>1. c # Action("add", j)
      BY <1>4, <2>3
    <3>2. InHand(j)' = InHand(j) /\ (j \in used' <=> j \in used)
      BY <1>1, <1>8, <2>1, <2>3, <3>1
    <3> QED
      BY <2>1, <3>2 DEF Owned, OwnedOnce
  <2> QED
    BY <2>2, <2>3
<1>11. CarriesAll'
  <2>1. \A n \in DOMAIN queue : Carries(queue[n])'
    BY <1>3, <1>8 DEF OwnerInv, CarriesAll, Carries
  <2>2. \A u \in Tasks : at'[u] = "post" /\ call'[u].type = "add" => call'[u].obj \in Items
    BY <1>2, <1>4, <1>8 DEF OwnerInv, CarriesAll
  <2> QED
    BY <1>3, <1>8, <2>1, <2>2 DEF CarriesAll, Carries
<1>12. Walks'
  <2>1. \A u \in Tasks : cur[u] \in Listed \cup {None}
    BY WalkIsListed
  <2>2. Listed' = Listed
    BY <1>3 DEF Listed
  <2> QED
    BY <1>8, <2>1, <2>2 DEF Walks
<1>13. NotifiedOnce'
  BY <1>3 DEF OwnerInv, NotifiedOnce
<1> QED
  BY <1>9, <1>10, <1>11, <1>12, <1>13 DEF OwnerInv

\* Where a caller goes that has posted its action, or given it up
LEMMA LeavesPost ==
  ASSUME OwnerInv, NEW t \in Tasks, Post(t) \/ PostFails(t)
  PROVE  /\ at[t] = "post" /\ call[t] \in Actions /\ call[t].type # "name"
         /\ call[t].type = "add" => call[t].obj \in Items /\ call[t] = Action("add", call[t].obj)
         /\ list' = list /\ fresh' = fresh /\ unsure' = unsure /\ hasty' = hasty
         /\ \E p \in {"added", "idle"}, c \in {call[t], NoCall} :
              /\ Moves(t, p, c, None)
              /\ p = "idle" => c = NoCall
              /\ p = "added" => c.type = "add"
<1>1. /\ at[t] = "post" /\ call[t] \in Actions /\ call[t].type # "name"
      /\ call[t].type = "add" => call[t].obj \in Items /\ call[t] = Action("add", call[t].obj)
      /\ list' = list /\ fresh' = fresh /\ unsure' = unsure /\ hasty' = hasty /\ calls' = calls
  BY CallsMade DEF Post, PostFails, OwnerInv, ServTypeOK, CarriesAll
<1>2. CASE Post(t) /\ call[t].type = "add"
  <2>1. /\ Goes(t, "added", None) /\ seen' = seen /\ call' = call
        /\ left' = [left EXCEPT ![t] = Timeout]
    BY <1>2 DEF Post
  <2>2. left' \in [Tasks -> 0 .. Timeout]
    BY <2>1, ServicesAssumption DEF OwnerInv, ServTypeOK
  <2>3. Moves(t, "added", call[t], None)
    BY <1>1, <2>1, <2>2 DEF Moves, Goes, OwnerInv, ServTypeOK
  <2> QED
    BY <1>1, <1>2, <2>3
<1>3. CASE PostFails(t) \/ call[t].type # "add"
  <2>1. Ends(t)
    BY <1>3 DEF Post, PostFails
  <2>2. Moves(t, "idle", NoCall, None)
    BY <1>1, <2>1, EndsMoves
  <2> QED
    BY <1>1, <2>2
<1> QED
  BY <1>2, <1>3

\* An action at the end of the queue notifies nobody a second time.
LEMMA AppendNotifies ==
  ASSUME OwnerInv, NEW a \in Actions, queue' = Append(queue, a),
         a.type = "name" => \A n \in DOMAIN queue : queue[n].type = "name" => queue[n].obj # a.obj
  PROVE  NotifiedOnce'
<1>1. queue \in Seq(Actions)
  BY DEF OwnerInv, ServTypeOK
<1>2. /\ DOMAIN queue' = 1 .. Len(queue) + 1 /\ DOMAIN queue = 1 .. Len(queue)
      /\ Len(queue) \in Nat /\ queue'[Len(queue) + 1] = a
      /\ \A n \in 1 .. Len(queue) : queue'[n] = queue[n]
  BY <1>1, AppendAdds
<1>3. ASSUME NEW m \in DOMAIN queue', NEW n \in DOMAIN queue', queue'[m].type = "name",
             queue'[n].type = "name", queue'[m].obj = queue'[n].obj
      PROVE  m = n
  <2>1. \A k \in DOMAIN queue' : k \in DOMAIN queue \/ k = Len(queue) + 1
    BY <1>2
  <2>2. CASE m \in DOMAIN queue /\ n \in DOMAIN queue
    BY <1>2, <1>3, <2>2 DEF OwnerInv, NotifiedOnce
  <2> QED
    BY <1>2, <1>3, <2>1, <2>2
<1> QED
  BY <1>3 DEF NotifiedOnce

\* The action is posted, and with it the item of an addition.
LEMMA PostKeeps ==
  ASSUME OwnerInv, NEW t \in Tasks, Post(t)
  PROVE  OwnerInv'
<1> DEFINE a == call[t]
<1>1. /\ at[t] = "post" /\ a \in Actions /\ a.type # "name"
      /\ a.type = "add" => a.obj \in Items /\ a = Action("add", a.obj)
      /\ list' = list /\ fresh' = fresh
  BY LeavesPost
<1>2. PICK p \in {"added", "idle"}, c \in {a, NoCall} : Moves(t, p, c, None)
  BY LeavesPost
<1>3. /\ used' = used /\ queue' = Append(queue, a) /\ Len(queue) < QLen
      /\ queue \in Seq(Actions) /\ Len(queue) <= QLen
  BY DEF Post, Room, OwnerInv, ServTypeOK
<1>4. t \in Tasks /\ (\A j : t \in InHand(j) <=> a = Action("add", j))
  BY <1>1 DEF InHand
<1> HIDE DEF a
<1>5. /\ at' \in [Tasks -> Whereabouts] /\ call' \in [Tasks -> Actions]
      /\ cur' \in [Tasks -> Items \cup {None}]
      /\ at'[t] = p /\ call'[t] = c /\ cur'[t] = None
      /\ \A u \in Tasks : u # t => at'[u] = at[u] /\ call'[u] = call[u] /\ cur'[u] = cur[u]
      /\ \A u \in Tasks : call'[u].type # "name"
      /\ \A j : InHand(j)' = InHand(j) \ {t}
  <2>1. p \in Whereabouts /\ p # "post" /\ c \in Actions /\ c.type # "name"
    BY <1>1, CallsMade DEF Whereabouts
  <2>2. None \in Listed \cup {None}
    OBVIOUS
  <2> QED
    BY <1>2, <2>1, <2>2, CallerMoves
<1>6. /\ queue' \in Seq(Actions) /\ Len(queue') = Len(queue) + 1
      /\ DOMAIN queue' = 1 .. Len(queue) + 1 /\ DOMAIN queue = 1 .. Len(queue)
      /\ Len(queue) \in Nat
      /\ \A n \in 1 .. Len(queue) : queue'[n] = queue[n]
      /\ queue'[Len(queue) + 1] = a
      /\ \A j : InQueue(j)' = IF a = Action("add", j) THEN InQueue(j) \cup {Len(queue) + 1}
                                                      ELSE InQueue(j)
  BY <1>1, <1>3, AppendAdds DEF InQueue, AddsIn
<1>7. ServTypeOK'
  <2>1. Len(queue') <= QLen
    BY <1>3, <1>6, ServicesAssumption
  <2> QED
    BY <1>1, <1>2, <1>3, <1>5, <1>6, <2>1 DEF OwnerInv, ServTypeOK, Moves, Whereabouts
<1>8. ASSUME NEW j \in Items PROVE Owned(j)'
  <2>1. Owned(j) /\ InList(j)' = InList(j)
    BY <1>1 DEF OwnerInv, InList
  <2>2. CASE a = Action("add", j)
    <3>1. InHand(j) = {t} /\ InQueue(j) = {} /\ InList(j) = {} /\ j \in used
      BY <1>4, <2>1, <2>2 DEF Owned, OwnedOnce
    <3>2. InHand(j)' = {} /\ InQueue(j)' = {Len(queue) + 1}
      BY <1>5, <1>6, <2>2, <3>1
    <3> QED
      BY <1>3, <2>1, <3>1, <3>2 DEF Owned, OwnedOnce
  <2>3. CASE a # Action("add", j)
    <3>1. InHand(j)' = InHand(j) /\ InQueue(j)' = InQueue(j)
      BY <1>4, <1>5, <1>6, <2>3
    <3> QED
      BY <1>3, <2>1, <3>1 DEF Owned
  <2> QED
    BY <2>2, <2>3
<1>9. CarriesAll'
  <2>1. ASSUME NEW n \in DOMAIN queue' PROVE Carries(queue[n])'
    <3>1. CASE n \in DOMAIN queue
      <4>1. queue'[n] = queue[n] /\ Carries(queue[n])
        BY <1>6, <3>1 DEF OwnerInv, CarriesAll
      <4> QED
        BY <1>1, <1>5, <4>1 DEF Carries
    <3>2. CASE n = Len(queue) + 1
      BY <1>1, <1>6, <3>2 DEF Carries
    <3> QED
      BY <1>6, <3>1, <3>2
  <2>2. \A u \in Tasks : at'[u] = "post" /\ call'[u].type = "add" => call'[u].obj \in Items
    BY <1>5 DEF OwnerInv, CarriesAll
  <2> QED
    BY <1>5, <2>1, <2>2 DEF CarriesAll
<1>10. Walks'
  BY <1>1, <1>3, <1>5 DEF OwnerInv, Walks, Listed
<1>11. NotifiedOnce'
  BY <1>1, <1>3, AppendNotifies
<1> QED
  BY <1>7, <1>8, <1>9, <1>10, <1>11 DEF OwnerInv

\* It is not: the item of an addition is freed.
LEMMA PostFailsKeeps ==
  ASSUME OwnerInv, NEW t \in Tasks, PostFails(t)
  PROVE  OwnerInv'
<1> DEFINE a == call[t]
<1>1. /\ at[t] = "post" /\ a \in Actions /\ a.type # "name"
      /\ a.type = "add" => a.obj \in Items /\ a = Action("add", a.obj)
      /\ list' = list /\ fresh' = fresh
      /\ \A j : Action("add", j).type = "add" /\ Action("add", j).obj = j
  BY LeavesPost DEF Action
<1>2. Moves(t, "idle", NoCall, None)
  BY EndsMoves DEF PostFails
<1>3. queue' = queue /\ used' = IF a.type = "add" THEN used \ {a.obj} ELSE used
  BY DEF PostFails
<1>4. \A j : t \in InHand(j) <=> a = Action("add", j)
  BY <1>1 DEF InHand
<1> HIDE DEF a
<1>5. /\ at' \in [Tasks -> Whereabouts] /\ call' \in [Tasks -> Actions]
      /\ cur' \in [Tasks -> Items \cup {None}]
      /\ at'[t] = "idle" /\ call'[t] = NoCall /\ cur'[t] = None
      /\ \A u \in Tasks : u # t => at'[u] = at[u] /\ call'[u] = call[u] /\ cur'[u] = cur[u]
      /\ \A u \in Tasks : call'[u].type # "name"
      /\ \A j : InHand(j)' = InHand(j) \ {t}
  <2>1. "idle" \in Whereabouts /\ NoCall \in Actions /\ NoCall.type # "name"
    BY CallsMade DEF Whereabouts
  <2>2. None \in Listed \cup {None}
    OBVIOUS
  <2> QED
    BY <1>2, <2>1, <2>2, CallerMoves
<1>6. ServTypeOK'
  BY <1>1, <1>2, <1>3, <1>5 DEF OwnerInv, ServTypeOK, Moves, Whereabouts
<1>7. ASSUME NEW j \in Items PROVE Owned(j)'
  <2>1. Owned(j) /\ InList(j)' = InList(j) /\ InQueue(j)' = InQueue(j)
    BY <1>1, <1>3 DEF OwnerInv, InList, InQueue
  <2>2. CASE a = Action("add", j)
    <3>1. InHand(j) = {t} /\ InQueue(j) = {} /\ InList(j) = {}
      BY <1>4, <2>1, <2>2 DEF Owned, OwnedOnce
    <3>2. InHand(j)' = {} /\ j \notin used'
      BY <1>1, <1>3, <1>5, <2>2, <3>1
    <3> QED
      BY <2>1, <3>1, <3>2 DEF Owned, OwnedOnce
  <2>3. CASE a # Action("add", j)
    <3>1. InHand(j)' = InHand(j)
      BY <1>4, <1>5, <2>3
    <3>2. j \in used' <=> j \in used
      BY <1>1, <1>3, <2>3
    <3> QED
      BY <2>1, <3>1, <3>2 DEF Owned, OwnedOnce
  <2> QED
    BY <2>2, <2>3
<1>8. CarriesAll'
  <2>1. \A n \in DOMAIN queue : Carries(queue[n])'
    BY <1>1, <1>3, <1>5 DEF OwnerInv, CarriesAll, Carries
  <2>2. \A u \in Tasks : at'[u] = "post" /\ call'[u].type = "add" => call'[u].obj \in Items
    BY <1>5 DEF OwnerInv, CarriesAll
  <2> QED
    BY <1>3, <1>5, <2>1, <2>2 DEF CarriesAll, Carries
<1>9. Walks'
  BY <1>1, <1>3, <1>5 DEF OwnerInv, Walks, Listed
<1>10. NotifiedOnce'
  BY <1>3 DEF OwnerInv, NotifiedOnce
<1> QED
  BY <1>6, <1>7, <1>8, <1>9, <1>10 DEF OwnerInv

-----------------------------------------------------------------------------
(* Everybody else.                                                          *)

\* An action is posted that has no item.
LEMMA AppendKeeps ==
  ASSUME OwnerInv, NEW a \in Actions, a.type \in {"name", "other"},
         Room, queue' = Append(queue, a), list' = list, used' = used, fresh' = fresh,
         cur' = cur, seen' = seen, call' = call, left' = left, calls' \in Nat,
         unsure' = unsure, hasty' = hasty,
         at' \in [Tasks -> Whereabouts],
         \A u \in Tasks : at'[u] = at[u] \/ (at[u] = "idle" /\ at'[u] = "notify"),
         Carries(a)', a.type = "name" => a.obj \in Tasks /\ at[a.obj] = "idle"
  PROVE  OwnerInv'
<1>1. queue \in Seq(Actions) /\ Len(queue) < QLen
  BY DEF OwnerInv, ServTypeOK, Room
<1>2. \A j : a # Action("add", j)
  BY CallsMade DEF Action
<1>3. /\ queue' \in Seq(Actions) /\ Len(queue') = Len(queue) + 1
      /\ DOMAIN queue' = 1 .. Len(queue) + 1 /\ DOMAIN queue = 1 .. Len(queue)
      /\ Len(queue) \in Nat
      /\ \A n \in 1 .. Len(queue) : queue'[n] = queue[n]
      /\ queue'[Len(queue) + 1] = a
      /\ \A j : InQueue(j)' = InQueue(j)
  BY <1>1, <1>2, AppendAdds DEF InQueue, AddsIn
<1>4. \A j : InHand(j)' = InHand(j) /\ InList(j)' = InList(j)
  BY DEF InHand, InList
<1>5. ServTypeOK'
  <2>1. Len(queue') <= QLen
    BY <1>1, <1>3, ServicesAssumption
  <2> QED
    BY <1>3, <2>1 DEF OwnerInv, ServTypeOK, Whereabouts
<1>6. \A j \in Items : Owned(j)'
  BY <1>3, <1>4 DEF OwnerInv, Owned
<1>7. CarriesAll'
  <2>1. ASSUME NEW n \in DOMAIN queue' PROVE Carries(queue[n])'
    <3>1. CASE n \in DOMAIN queue
      <4>1. queue'[n] = queue[n] /\ Carries(queue[n])
        BY <1>3, <3>1 DEF OwnerInv, CarriesAll
      <4> QED
        BY <4>1 DEF Carries
    <3>2. CASE n = Len(queue) + 1
      BY <1>3, <3>2 DEF Carries
    <3> QED
      BY <1>3, <3>1, <3>2
  <2> QED
    BY <2>1 DEF OwnerInv, CarriesAll
<1>8. Walks'
  BY DEF OwnerInv, Walks, Listed
<1>9. NotifiedOnce'
  <2>1. \A n \in DOMAIN queue : queue[n].type = "name" => at[queue[n].obj] = "notify"
    BY DEF OwnerInv, CarriesAll, Carries
  <2> QED
    BY <2>1, AppendNotifies
<1> QED
  BY <1>5, <1>6, <1>7, <1>8, <1>9 DEF OwnerInv

LEMMA HostnameSetKeeps ==
  ASSUME OwnerInv, NEW t \in Tasks, HostnameSet(t)
  PROVE  OwnerInv'
<1> DEFINE a == Action("name", t)
<1>1. a \in Actions /\ a.type = "name" /\ a.obj = t
  BY CallsMade
<1>2. /\ at[t] = "idle" /\ Room /\ queue' = Append(queue, a) /\ at' = [at EXCEPT ![t] = "notify"]
      /\ list' = list /\ used' = used /\ fresh' = fresh
      /\ cur' = cur /\ seen' = seen /\ call' = call /\ left' = left /\ calls' = calls + 1
      /\ unsure' = unsure /\ hasty' = hasty
  BY DEF HostnameSet
<1>3. at' \in [Tasks -> Whereabouts] /\ at'[t] = "notify" /\ calls' \in Nat
      /\ \A u \in Tasks : u # t => at'[u] = at[u]
  BY <1>2 DEF OwnerInv, ServTypeOK, Whereabouts
<1>4. Carries(a)'
  BY <1>1, <1>3 DEF Carries
<1> HIDE DEF a
<1> QED
  BY <1>1, <1>2, <1>3, <1>4, AppendKeeps

LEMMA OtherKeeps ==
  ASSUME OwnerInv, Other
  PROVE  OwnerInv'
<1> DEFINE a == Action("other", None)
<1>1. a \in Actions /\ a.type = "other"
  BY CallsMade
<1>2. /\ Room /\ queue' = Append(queue, a) /\ at' = at
      /\ list' = list /\ used' = used /\ fresh' = fresh
      /\ cur' = cur /\ seen' = seen /\ call' = call /\ left' = left /\ calls' = calls + 1
      /\ unsure' = unsure /\ hasty' = hasty
  BY DEF Other, walk
<1>3. at' \in [Tasks -> Whereabouts] /\ calls' \in Nat
  BY <1>2 DEF OwnerInv, ServTypeOK, Whereabouts
<1>4. Carries(a)'
  BY <1>1 DEF Carries
<1> HIDE DEF a
<1> QED
  BY <1>1, <1>2, <1>3, <1>4, AppendKeeps

\* Time passes.
LEMMA TickKeeps ==
  ASSUME OwnerInv, Tick
  PROVE  OwnerInv'
<1>1. UNCHANGED <<fresh, used, list, queue, at, cur, seen, call, calls, unsure, hasty>>
  BY DEF Tick
<1>2. left' \in [Tasks -> 0 .. Timeout]
  BY ServicesAssumption DEF Tick, Polling, OwnerInv, ServTypeOK
<1> QED
  BY <1>1, <1>2
     DEF OwnerInv, ServTypeOK, Owned, InList, InQueue, InHand, CarriesAll, Carries, NotifiedOnce,
         Walks, Listed

-----------------------------------------------------------------------------
(* The service task.                                                        *)

\* What is left of an action that is taken off the queue
LEMMA Taken ==
  ASSUME OwnerInv, NEW types, Executes(types)
  PROVE  /\ Head(queue) \in Actions /\ Head(queue).type \in types
         /\ Head(queue) = queue[1] /\ 1 \in DOMAIN queue
         /\ This = Head(queue).obj
         /\ Head(queue).type = "add" => This \in Items /\ Head(queue) = Action("add", This)
         /\ queue' \in Seq(Actions) /\ Len(queue') <= QLen
         /\ \A n \in DOMAIN queue' : n + 1 \in DOMAIN queue /\ queue'[n] = queue[n + 1]
         /\ fresh' = fresh /\ cur' = cur /\ seen' = seen /\ call' = call /\ left' = left
         /\ calls' = calls /\ hasty' = hasty
         /\ NotifiedOnce'
         /\ \A n \in DOMAIN queue' :
              Head(queue).type = "name" /\ queue'[n].type = "name" => queue'[n].obj # This
         /\ \A i \in Items :
              /\ AtMostOne(InQueue(i)')
              /\ Head(queue) # Action("add", i) => (InQueue(i)' = {} <=> InQueue(i) = {})
              /\ Head(queue) = Action("add", i) => InQueue(i)' = {} /\ InQueue(i) # {}
<1>1. /\ queue \in Seq(Actions) /\ queue # <<>> /\ Len(queue) <= QLen /\ queue' = Tail(queue)
      /\ \A n \in DOMAIN queue : Carries(queue[n])
      /\ \A i \in Items : AtMostOne(AddsIn(queue, i))
  BY DEF OwnerInv, ServTypeOK, Executes, Owned, OwnedOnce, AtMostOne, InQueue, AddsIn, CarriesAll
<1>2. \A i \in Items :
        /\ AtMostOne(AddsIn(queue', i))
        /\ Head(queue) # Action("add", i) => (AddsIn(queue', i) = {} <=> AddsIn(queue, i) = {})
        /\ Head(queue) = Action("add", i) => AddsIn(queue', i) = {} /\ AddsIn(queue, i) # {}
  BY <1>1, TailAdds
<1>3. /\ Head(queue) \in Actions /\ Head(queue) = queue[1] /\ 1 \in DOMAIN queue
      /\ queue' \in Seq(Actions) /\ Len(queue') = Len(queue) - 1 /\ Len(queue) \in Nat
      /\ \A n \in DOMAIN queue' : n + 1 \in DOMAIN queue /\ queue'[n] = queue[n + 1]
  BY <1>1, TailAdds
<1>4. Len(queue') <= QLen
  BY <1>1, <1>3, ServicesAssumption
<1>5. Head(queue).type = "add" => This \in Items /\ Head(queue) = Action("add", This)
  BY <1>1, <1>3, CallsMade DEF Carries, This
<1>6. /\ NotifiedOnce'
      /\ \A n \in DOMAIN queue' :
           Head(queue).type = "name" /\ queue'[n].type = "name" => queue'[n].obj # This
  <2>1. \A n \in DOMAIN queue' : n \in Nat \ {0}
    BY <1>3
  <2> QED
    BY <1>3, <2>1 DEF OwnerInv, NotifiedOnce, This
<1> QED
  BY <1>2, <1>3, <1>4, <1>5, <1>6 DEF Executes, InQueue, AddsIn, This

\* The actions that are left, if nobody moves, or the one that is notified
LEMMA TakenCarries ==
  ASSUME OwnerInv, NEW types, Executes(types), at' = at
  PROVE  CarriesAll' /\ (\A j : InHand(j)' = InHand(j))
<1>1. /\ \A n \in DOMAIN queue' : n + 1 \in DOMAIN queue /\ queue'[n] = queue[n + 1]
      /\ call' = call
  BY Taken
<1>2. \A n \in DOMAIN queue : Carries(queue[n])
  BY DEF OwnerInv, CarriesAll
<1>3. \A n \in DOMAIN queue' : Carries(queue[n])'
  BY <1>1, <1>2 DEF Carries
<1> QED
  BY <1>1, <1>3 DEF OwnerInv, CarriesAll, InHand

\* What the invariant says of an item and its places in the table
LEMMA InTable ==
  ASSUME OwnerInv
  PROVE  /\ list \in Seq(Items)
         /\ \A i \in Items : /\ AtMostOne(InList(i)) /\ (i \in Listed <=> InList(i) # {})
                             /\ AtMostOne(PlacesIn(list, i)) /\ InList(i) = PlacesIn(list, i)
                             /\ InList(i)' = PlacesIn(list', i)
                             /\ i \in Listed => i \in used
         /\ Listed \subseteq Items
<1>1. list \in Seq(Items) /\ (\A i \in Items : Owned(i))
  BY DEF OwnerInv, ServTypeOK
<1>2. \A i : InList(i) = PlacesIn(list, i) /\ InList(i)' = PlacesIn(list', i)
  BY DEF InList, PlacesIn
<1>3. \A i \in Items : AtMostOne(InList(i)) /\ (InList(i) # {} => i \in used)
  BY <1>1 DEF Owned, OwnedOnce, AtMostOne
<1>4. \A i : i \in Listed <=> InList(i) # {}
  BY DEF Listed, InList
<1>5. Listed \subseteq Items
  BY NextIsListed
<1> QED
  BY <1>1, <1>2, <1>3, <1>4, <1>5

\* Items stay in the table, or leave it and are freed; walks that are at one of
\* those will be stray.
LEMMA LeavesTable ==
  ASSUME OwnerInv, ~Stray,
         list' \in Seq(Items), fresh' = fresh, cur' = cur, used' \subseteq used,
         \A i \in Items :
           /\ AtMostOne(InList(i)')
           /\ \/ (InList(i)' = {} <=> InList(i) = {}) /\ (i \in used' <=> i \in used)
              \/ InList(i) # {} /\ InList(i)' = {} /\ i \notin used'
         ,
         \A i \in Items : /\ InHand(i)' = InHand(i) /\ AtMostOne(InQueue(i)')
                          /\ InQueue(i)' = {} <=> InQueue(i) = {}
  PROVE  (\A i \in Items : Owned(i)') /\ Walks'
<1>1. ASSUME NEW i \in Items PROVE Owned(i)'
  <2>1. Owned(i)
    BY DEF OwnerInv
  <2> QED
    BY <2>1 DEF Owned, OwnedOnce, AtMostOne
<1>2. ASSUME NEW t \in Tasks PROVE cur'[t] \in Listed' \cup (Items \ used') \cup {None}
  <2>1. cur[t] \in Listed \cup {None} /\ Listed \subseteq Items
    BY WalkIsListed, InTable
  <2>2. ASSUME NEW i \in Listed PROVE i \in Listed' \/ i \notin used'
    <3>1. i \in Items /\ InList(i) # {}
      BY InTable
    <3>2. InList(i)' # {} => i \in Listed'
      BY DEF InList, Listed
    <3> QED
      BY <3>1, <3>2
  <2> QED
    BY <2>1, <2>2
<1> QED
  BY <1>1, <1>2 DEF Walks

\* An action that is neither an addition nor a notification
LEMMA ExecuteLeaves ==
  ASSUME OwnerInv, ~Stray, NEW types, Executes(types), "add" \notin types, "name" \notin types,
         at' = at, unsure' = unsure, list' \in Seq(Items), used' \subseteq used,
         \A i \in Items :
           /\ AtMostOne(InList(i)')
           /\ \/ (InList(i)' = {} <=> InList(i) = {}) /\ (i \in used' <=> i \in used)
              \/ InList(i) # {} /\ InList(i)' = {} /\ i \notin used'
  PROVE  OwnerInv'
<1>1. /\ Head(queue).type \in types
      /\ queue' \in Seq(Actions) /\ Len(queue') <= QLen
      /\ fresh' = fresh /\ cur' = cur /\ seen' = seen /\ call' = call /\ left' = left
      /\ calls' = calls /\ hasty' = hasty /\ NotifiedOnce'
      /\ \A i \in Items :
           /\ AtMostOne(InQueue(i)')
           /\ Head(queue) # Action("add", i) => (InQueue(i)' = {} <=> InQueue(i) = {})
  BY Taken
<1>2. \A i : Head(queue) # Action("add", i)
  <2>1. \A i : Action("add", i).type = "add"
    BY DEF Action
  <2> QED
    BY <1>1, <2>1
<1>3. CarriesAll' /\ (\A j : InHand(j)' = InHand(j))
  BY TakenCarries
<1>4. (\A i \in Items : Owned(i)') /\ Walks'
  BY <1>1, <1>2, <1>3, LeavesTable
<1>5. ServTypeOK'
  BY <1>1 DEF OwnerInv, ServTypeOK
<1> QED
  BY <1>1, <1>3, <1>4, <1>5 DEF OwnerInv

\* One item is unlinked.
LEMMA UnlinksLeaves ==
  ASSUME OwnerInv, NEW n \in DOMAIN list, Unlinks(n)
  PROVE  /\ at' = at /\ unsure' = unsure /\ list' \in Seq(Items) /\ used' \subseteq used
         /\ \A i \in Items :
              /\ AtMostOne(InList(i)')
              /\ \/ (InList(i)' = {} <=> InList(i) = {}) /\ (i \in used' <=> i \in used)
                 \/ InList(i) # {} /\ InList(i)' = {} /\ i \notin used'
<1> DEFINE k == list[n]
<1>1. /\ list' = SubSeq(list, 1, n - 1) \o SubSeq(list, n + 1, Len(list))
      /\ used' = used \ {k} /\ at' = at /\ unsure' = unsure
  BY DEF Unlinks
<1>2. k \in Items /\ k \in Listed
  BY InTable DEF Listed
<1>3. /\ list' \in Seq(Items)
      /\ \A i \in Items :
           /\ i # k => AtMostOne(PlacesIn(list', i))
                       /\ (PlacesIn(list', i) = {} <=> PlacesIn(list, i) = {})
           /\ i = k => PlacesIn(list', i) = {}
  BY <1>1, <1>2, InTable, RemovePlaces
<1> HIDE DEF k
<1>4. ASSUME NEW i \in Items
      PROVE  /\ AtMostOne(InList(i)')
             /\ \/ (InList(i)' = {} <=> InList(i) = {}) /\ (i \in used' <=> i \in used)
                \/ InList(i) # {} /\ InList(i)' = {} /\ i \notin used'
  <2>1. CASE i = k
    <3>1. InList(i) # {} /\ InList(i)' = {} /\ i \notin used'
      BY <1>1, <1>2, <1>3, <2>1, InTable
    <3> QED
      BY <3>1 DEF AtMostOne
  <2>2. CASE i # k
    <3>1. AtMostOne(InList(i)') /\ (InList(i)' = {} <=> InList(i) = {})
      BY <1>3, <2>2, InTable
    <3>2. i \in used' <=> i \in used
      BY <1>1, <2>2
    <3> QED
      BY <3>1, <3>2
  <2> QED
    BY <2>1, <2>2
<1> QED
  BY <1>1, <1>3, <1>4

\* Nothing leaves the table.
LEMMA StaysInTable ==
  ASSUME OwnerInv, list' = list, used' = used
  PROVE  /\ list' \in Seq(Items) /\ used' \subseteq used
         /\ \A i \in Items :
              /\ AtMostOne(InList(i)')
              /\ (InList(i)' = {} <=> InList(i) = {}) /\ (i \in used' <=> i \in used)
BY InTable DEF InList

LEMMA ExecuteSetKeeps ==
  ASSUME OwnerInv, ~Stray, ExecuteSet \/ ExecuteHost
  PROVE  OwnerInv'
<1>1. PICK types \in {{"set", "other"}, {"host"}} : Executes(types)
  BY DEF ExecuteSet, ExecuteHost
<1>2. list' = list /\ used' = used /\ at' = at /\ unsure' = unsure
  BY DEF ExecuteSet, ExecuteHost
<1> QED
  BY <1>1, <1>2, StaysInTable, ExecuteLeaves

LEMMA ExecuteDelKeeps ==
  ASSUME OwnerInv, ~Stray, ExecuteDel
  PROVE  OwnerInv'
<1>1. Executes({"del"})
  BY DEF ExecuteDel
<1>2. CASE This \in Listed
  <2>1. PICK n \in DOMAIN list : Unlinks(n)
    BY <1>2 DEF ExecuteDel
  <2> QED
    BY <1>1, <2>1, UnlinksLeaves, ExecuteLeaves
<1>3. CASE This \notin Listed
  <2>1. list' = list /\ used' = used /\ at' = at /\ unsure' = unsure
    BY <1>3 DEF ExecuteDel
  <2> QED
    BY <1>1, <2>1, StaysInTable, ExecuteLeaves
<1> QED
  BY <1>2, <1>3

LEMMA ExecuteClearKeeps ==
  ASSUME OwnerInv, ~Stray, ExecuteClear
  PROVE  OwnerInv'
<1>1. /\ Executes({"clear"}) /\ list' = <<>> /\ used' = used \ Listed
      /\ at' = at /\ unsure' = unsure
  BY DEF ExecuteClear
<1>2. list' \in Seq(Items) /\ (\A i \in Items : InList(i)' = {})
  BY <1>1 DEF InList
<1>3. ASSUME NEW i \in Items
      PROVE  /\ AtMostOne(InList(i)')
             /\ \/ (InList(i)' = {} <=> InList(i) = {}) /\ (i \in used' <=> i \in used)
                \/ InList(i) # {} /\ InList(i)' = {} /\ i \notin used'
  BY <1>1, <1>2, InTable DEF AtMostOne
<1> QED
  BY <1>1, <1>2, <1>3, ExecuteLeaves

\* The action stays on the queue while its items are removed.
LEMMA RemoveOfHostKeeps ==
  ASSUME OwnerInv, ~Stray, RemoveOfHost
  PROVE  OwnerInv'
<1>1. PICK n \in DOMAIN list : Unlinks(n)
  BY DEF RemoveOfHost
<1>2. /\ at' = at /\ unsure' = unsure /\ list' \in Seq(Items) /\ used' \subseteq used
      /\ \A i \in Items :
           /\ AtMostOne(InList(i)')
           /\ \/ (InList(i)' = {} <=> InList(i) = {}) /\ (i \in used' <=> i \in used)
              \/ InList(i) # {} /\ InList(i)' = {} /\ i \notin used'
  BY <1>1, UnlinksLeaves
<1>3. UNCHANGED <<fresh, queue, cur, seen, call, left, calls, hasty>>
  BY DEF RemoveOfHost
<1>4. ASSUME NEW i \in Items
      PROVE  /\ InHand(i)' = InHand(i) /\ AtMostOne(InQueue(i)')
             /\ InQueue(i)' = {} <=> InQueue(i) = {}
  <2>1. Owned(i)
    BY DEF OwnerInv
  <2> QED
    BY <1>2, <1>3, <2>1 DEF InHand, InQueue, Owned, OwnedOnce, AtMostOne
<1>5. (\A i \in Items : Owned(i)') /\ Walks'
  BY <1>2, <1>3, <1>4, LeavesTable
<1>6. ServTypeOK' /\ CarriesAll' /\ NotifiedOnce'
  BY <1>2, <1>3 DEF OwnerInv, ServTypeOK, CarriesAll, Carries, NotifiedOnce
<1> QED
  BY <1>5, <1>6 DEF OwnerInv

\* The item of an ADD action is put into the table.
LEMMA ExecuteAddKeeps ==
  ASSUME OwnerInv, ~Stray, ExecuteAdd
  PROVE  OwnerInv'
<1>1. /\ Executes({"add"}) /\ list' = <<This>> \o list /\ used' = used
      /\ at' = at /\ unsure' = unsure
  BY DEF ExecuteAdd
<1>2. /\ Head(queue).type = "add" /\ This \in Items /\ Head(queue) = Action("add", This)
      /\ queue' \in Seq(Actions) /\ Len(queue') <= QLen
      /\ fresh' = fresh /\ cur' = cur /\ seen' = seen /\ call' = call /\ left' = left
      /\ calls' = calls /\ hasty' = hasty /\ NotifiedOnce'
      /\ \A i \in Items :
           /\ AtMostOne(InQueue(i)')
           /\ Head(queue) # Action("add", i) => (InQueue(i)' = {} <=> InQueue(i) = {})
           /\ Head(queue) = Action("add", i) => InQueue(i)' = {} /\ InQueue(i) # {}
  BY <1>1, Taken
<1>3. CarriesAll' /\ (\A j : InHand(j)' = InHand(j))
  BY <1>1, TakenCarries
<1>4. /\ list' \in Seq(Items)
      /\ \A i \in Items :
           /\ i # This => AtMostOne(PlacesIn(list', i))
                          /\ (PlacesIn(list', i) = {} <=> PlacesIn(list, i) = {})
           /\ i = This /\ PlacesIn(list, i) = {} => PlacesIn(list', i) = {1}
  BY <1>1, <1>2, InTable, PrependPlaces
<1>5. ServTypeOK'
  BY <1>1, <1>2, <1>4 DEF OwnerInv, ServTypeOK
<1>6. ASSUME NEW i \in Items PROVE Owned(i)'
  <2>1. Owned(i)
    BY DEF OwnerInv
  <2>2. CASE i = This
    <3>1. InList(i) = {} /\ InHand(i) = {} /\ i \in used
      BY <1>2, <2>1, <2>2 DEF Owned, OwnedOnce
    <3>2. InList(i)' = {1} /\ InQueue(i)' = {} /\ InHand(i)' = {} /\ i \in used'
      BY <1>1, <1>2, <1>3, <1>4, <2>2, <3>1, InTable
    <3> QED
      BY <3>2 DEF Owned, OwnedOnce
  <2>3. CASE i # This
    <3>1. Head(queue) # Action("add", i)
      BY <1>2, <2>3 DEF This, Action
    <3>2. /\ AtMostOne(InList(i)') /\ (InList(i)' = {} <=> InList(i) = {})
          /\ AtMostOne(InQueue(i)') /\ (InQueue(i)' = {} <=> InQueue(i) = {})
          /\ InHand(i)' = InHand(i) /\ (i \in used' <=> i \in used)
      BY <1>1, <1>2, <1>3, <1>4, <2>3, <3>1, InTable
    <3> QED
      BY <2>1, <3>2 DEF Owned, OwnedOnce, AtMostOne
  <2> QED
    BY <2>2, <2>3
<1>7. Walks'
  <2>1. ASSUME NEW i \in Listed PROVE i \in Listed'
    <3>1. i \in Items /\ InList(i) # {}
      BY InTable
    <3>2. i # This => PlacesIn(list', i) # {}
      BY <1>4, <3>1, InTable
    <3>3. PlacesIn(list, i) # {} /\ (InQueue(i) = {} \/ InList(i) = {})
      BY <3>1, InTable DEF OwnerInv, Owned, OwnedOnce
    <3>4. i # This
      BY <1>2, <3>1, <3>3
    <3> QED
      BY <3>2, <3>4 DEF PlacesIn, Listed
  <2>2. \A t \in Tasks : cur[t] \in Listed \cup {None}
    BY WalkIsListed
  <2> QED
    BY <1>2, <2>1, <2>2 DEF Walks
<1> QED
  BY <1>2, <1>3, <1>5, <1>6, <1>7 DEF OwnerInv

\* A caller is notified: there is no second notification for it.
LEMMA ExecuteNameKeeps ==
  ASSUME OwnerInv, ~Stray, ExecuteName
  PROVE  OwnerInv'
<1>1. /\ Executes({"name"}) /\ at' = [at EXCEPT ![This] = "idle"]
      /\ unsure' = unsure \ {This} /\ used' = used /\ list' = list
  BY DEF ExecuteName
<1>2. /\ Head(queue).type = "name" /\ Head(queue) = queue[1] /\ 1 \in DOMAIN queue
      /\ This = Head(queue).obj
      /\ queue' \in Seq(Actions) /\ Len(queue') <= QLen
      /\ \A n \in DOMAIN queue' : n + 1 \in DOMAIN queue /\ queue'[n] = queue[n + 1]
      /\ fresh' = fresh /\ cur' = cur /\ seen' = seen /\ call' = call /\ left' = left
      /\ calls' = calls /\ hasty' = hasty /\ NotifiedOnce'
      /\ \A n \in DOMAIN queue' : queue'[n].type = "name" => queue'[n].obj # This
      /\ \A i \in Items :
           /\ AtMostOne(InQueue(i)')
           /\ Head(queue) # Action("add", i) => (InQueue(i)' = {} <=> InQueue(i) = {})
  BY <1>1, Taken
<1>3. /\ \A n \in DOMAIN queue : Carries(queue[n])
      /\ This \in Tasks /\ at[This] = "notify" /\ at \in [Tasks -> Whereabouts]
  BY <1>2 DEF OwnerInv, CarriesAll, Carries, ServTypeOK, Whereabouts
<1>4. /\ at' \in [Tasks -> Whereabouts] /\ at'[This] = "idle"
      /\ \A u \in Tasks : u # This => at'[u] = at[u]
  BY <1>1, <1>3 DEF Whereabouts
<1>5. \A j : InHand(j)' = InHand(j)
  BY <1>2, <1>3, <1>4 DEF InHand
<1>6. CarriesAll'
  <2>1. ASSUME NEW n \in DOMAIN queue' PROVE Carries(queue[n])'
    <3>1. Carries(queue[n + 1]) /\ queue'[n] = queue[n + 1]
      BY <1>2, <1>3
    <3>2. queue'[n].type = "name" => at'[queue'[n].obj] = "notify"
      BY <1>2, <1>4, <3>1 DEF Carries
    <3> QED
      BY <3>1, <3>2 DEF Carries
  <2>2. \A u \in Tasks : at'[u] = "post" /\ call'[u].type = "add" => call'[u].obj \in Items
    BY <1>2, <1>4 DEF OwnerInv, CarriesAll
  <2> QED
    BY <1>2, <2>1, <2>2 DEF OwnerInv, CarriesAll
<1>7. ServTypeOK'
  BY <1>1, <1>2, <1>4 DEF OwnerInv, ServTypeOK, Whereabouts
<1>8. \A i : Head(queue) # Action("add", i)
  BY <1>2 DEF Action
<1>9. (\A i \in Items : Owned(i)') /\ Walks'
  BY <1>1, <1>2, <1>5, <1>8, StaysInTable, LeavesTable
<1> QED
  BY <1>2, <1>6, <1>7, <1>9 DEF OwnerInv

-----------------------------------------------------------------------------
(* Who owns an item.                                                        *)

\* At the start nothing is allocated.
LEMMA InitOwns == Init => OwnerInv
<1> SUFFICES ASSUME Init PROVE OwnerInv
  OBVIOUS
<1>1. ServTypeOK
  <2>1. fresh \subseteq Items /\ used \subseteq Items \ fresh /\ unsure \subseteq Tasks
        /\ hasty \in BOOLEAN
    BY DEF Init
  <2>2. list \in Seq(Items) /\ queue \in Seq(Actions) /\ Len(queue) = 0
    BY DEF Init
  <2>3. at \in [Tasks -> Whereabouts] /\ cur \in [Tasks -> Items \cup {None}]
    BY DEF Init, Whereabouts
  <2>4. call \in [Tasks -> Actions]
    BY CallsMade DEF Init
  <2>5. seen \in [Tasks -> Nat] /\ left \in [Tasks -> 0 .. Timeout] /\ calls \in Nat
    BY ServicesAssumption DEF Init
  <2> QED
    BY <2>1, <2>2, <2>3, <2>4, <2>5, ServicesAssumption DEF ServTypeOK, Whereabouts
<1>2. CarriesAll /\ NotifiedOnce /\ Walks
  BY CallsMade DEF Init, CarriesAll, NotifiedOnce, Walks
<1>3. \A i \in Items : Owned(i)
  BY DEF Init, Owned, OwnedOnce, InList, InQueue, InHand
<1> QED
  BY <1>1, <1>2, <1>3 DEF OwnerInv

\* No step breaks the invariant.
LEMMA NextOwns == OwnerInv /\ [Next]_vars => OwnerInv'
<1> SUFFICES ASSUME OwnerInv, [Next]_vars PROVE OwnerInv'
  OBVIOUS
<1>1. ASSUME NEW t \in Tasks, Call(t) PROVE OwnerInv'
  <2>1. {"count", "look", "post"} \subseteq Whereabouts
    BY DEF Whereabouts
  <2> QED
    BY <1>1, <2>1, BeginsKeeps, HostnameSetKeeps
       DEF Call, ServiceAdd, Change, ServiceRemove, ServiceExists, RemoveAll, HostRemove
<1>2. ASSUME NEW t \in Tasks, ~Stray, Continue(t) PROVE OwnerInv'
  BY <1>2, LooksKeeps, AllocatesKeeps, PostKeeps, PostFailsKeeps DEF Continue, Looks
<1>3. ASSUME ~Stray, Execute PROVE OwnerInv'
  BY <1>3, ExecuteAddKeeps, ExecuteSetKeeps, ExecuteDelKeeps, ExecuteClearKeeps,
     RemoveOfHostKeeps, ExecuteNameKeeps DEF Execute
<1>4. CASE UNCHANGED vars
  BY <1>4 DEF vars, walk, OwnerInv, ServTypeOK, Owned, InList, InQueue, InHand, CarriesAll,
              Carries, NotifiedOnce, Walks, Listed
<1> QED
  BY <1>1, <1>2, <1>3, <1>4, OtherKeeps, TickKeeps DEF Next, Steps

\* Whatever calls are made, and whatever fails: the types, and who owns each
\* item (_mdns_service_add_*, _mdns_execute_action, the callers).
THEOREM OwnerInductive == Spec => []OwnerInv
<1>1. Init => OwnerInv
  BY InitOwns
<1>2. OwnerInv /\ [Next]_vars => OwnerInv'
  BY NextOwns
<1> QED
  BY <1>1, <1>2, PTL DEF Spec

\* The variables keep their types; the action queue never holds more than
\* MDNS_ACTION_QUEUE_LEN actions.
THEOREM ServTypes == Spec => []ServTypeOK
<1>1. OwnerInv => ServTypeOK
  BY DEF OwnerInv
<1> QED
  BY <1>1, OwnerInductive, PTL

\* Every allocated item is in the table once, or in one ADD action, or with
\* its caller: none is lost when the queue is full, and none is freed twice.
THEOREM ItemsHaveOneOwner == Spec => []OneOwner
<1>1. OwnerInv => OneOwner
  <2> SUFFICES ASSUME OwnerInv, NEW i \in Items
               PROVE  Cardinality(InList(i)) + Cardinality(InQueue(i)) + Cardinality(InHand(i))
                        = IF i \in used THEN 1 ELSE 0
    BY DEF OneOwner
  <2>1. OwnedOnce(InList(i), InQueue(i), InHand(i), i \notin used)
    BY DEF OwnerInv, Owned
  <2>2. Cardinality({}) = 0 /\ (\A x : Cardinality({x}) = 1)
    BY FS_EmptySet, FS_Singleton
  <2>3. \A S \in {InList(i), InQueue(i), InHand(i)} : S = {} \/ (\E x : S = {x})
    BY <2>1 DEF OwnedOnce
  <2>4. \A S \in {InList(i), InQueue(i), InHand(i)} : Cardinality(S) = IF S = {} THEN 0 ELSE 1
    BY <2>2, <2>3
  <2> QED
    BY <2>1, <2>4 DEF OwnedOnce
<1> QED
  BY <1>1, OwnerInductive, PTL

-----------------------------------------------------------------------------
(* The addresses that callers, walks and actions have.                      *)

\* What the invariant says of the queue: what comes behind a removal
InOrder ==
  /\ \A n \in RemovalAt : \A m \in DOMAIN queue :
       m > n => ~Points(queue[m]) /\ m \notin RemovalAt
  /\ \A n \in RemovalAt : \A m \in DOMAIN queue :
       queue[m].type = "name" /\ queue[m].obj \in unsure => n < m

\* ... and what it points to
QueueLive == \A n \in DOMAIN queue : Points(queue[n]) => queue[n].obj \in Listed

\* ... and of a caller
CallerLive(t) == cur[t] \in Listed \cup {None} /\ (Points(call[t]) => call[t].obj \in Listed)

Alone ==
  /\ unsure = {} => RemovalAt = {} /\ \A t \in Tasks : ~Removing(t)
  /\ \A t \in unsure : /\ \A u \in Tasks \ {t} : Quiet(u) /\ u \notin unsure
                       /\ Quiet(t) \/ (Removing(t) /\ RemovalAt = {})

LEMMA LiveParts ==
  /\ LiveInv <=> Idle /\ (~hasty => (\A t \in Tasks : CallerLive(t)) /\ QueueLive /\ Alone /\ InOrder)
  /\ LiveInv' <=> Idle' /\ (~hasty' => /\ \A t \in Tasks : CallerLive(t)'
                                       /\ QueueLive' /\ Alone' /\ InOrder')
<1>1. LiveInv <=> Idle /\ (~hasty => (\A t \in Tasks : CallerLive(t)) /\ QueueLive /\ Alone /\ InOrder)
  BY DEF LiveInv, ActionsLive, RemovalsAlone, CallerLive, QueueLive, Alone, InOrder
<1>2. LiveInv' <=> Idle' /\ (~hasty' => /\ \A t \in Tasks : CallerLive(t)'
                                        /\ QueueLive' /\ Alone' /\ InOrder')
  BY DEF LiveInv, ActionsLive, RemovalsAlone, CallerLive, QueueLive, Alone, InOrder
<1> QED
  BY <1>1, <1>2

\* While a removal is queued nobody has an address.
LEMMA RemovalQuiet ==
  ASSUME LiveInv, ~hasty, RemovalAt # {}
  PROVE  \A u \in Tasks : Quiet(u) /\ cur[u] = None /\ ~Points(call[u])
<1>1. Idle /\ Alone
  BY LiveParts
<1>2. PICK t \in unsure : TRUE
  BY <1>1 DEF Alone
<1> QED
  BY <1>1, <1>2 DEF Alone, Idle

\* A caller that is under way keeps the type of its call, or returns; the queue
\* and the table stay.
LEMMA MoveLives ==
  ASSUME OwnerInv, LiveInv, NEW t \in Tasks, NEW p \in Whereabouts, NEW c \in Actions,
         NEW i \in Listed \cup {None}, Moves(t, p, c, i), c.type # "name",
         list' = list, queue' = queue, unsure' = unsure, hasty' = hasty,
         ~Quiet(t), p # "notify",
         p = "idle" => i = None /\ c = NoCall,
         p # "idle" => c.type = call[t].type,
         ~hasty /\ Points(c) => c.obj \in Listed
  PROVE  LiveInv'
<1>1. /\ at'[t] = p /\ call'[t] = c /\ cur'[t] = i
      /\ \A u \in Tasks : u # t => at'[u] = at[u] /\ call'[u] = call[u] /\ cur'[u] = cur[u]
  BY CallerMoves
<1>2. /\ p = "idle" => Quiet(t)' /\ ~Points(c)
      /\ p # "idle" => ~Quiet(t)' /\ (Removing(t)' <=> Removing(t))
  BY <1>1, CallsMade DEF Quiet, Removing, Points
<1>3. \A u \in Tasks : u # t => /\ Quiet(u)' <=> Quiet(u)
                                /\ Removing(u)' <=> Removing(u)
  BY <1>1 DEF Quiet, Removing
<1>4. Idle'
  BY <1>1, <1>2, <1>3, LiveParts DEF Idle, Points
<1>5. ASSUME ~hasty'
      PROVE  (\A u \in Tasks : CallerLive(u)') /\ QueueLive' /\ Alone' /\ InOrder'
  <2>1. (\A u \in Tasks : CallerLive(u)) /\ QueueLive /\ Alone /\ InOrder
    BY <1>5, LiveParts
  <2>2. Listed' = Listed /\ RemovalAt' = RemovalAt
    BY DEF Listed, RemovalAt
  <2>3. QueueLive' /\ InOrder'
    BY <2>1, <2>2 DEF QueueLive, InOrder, Points
  <2>4. ASSUME NEW u \in Tasks PROVE CallerLive(u)'
    BY <1>1, <1>5, <2>1, <2>2 DEF CallerLive, Points
  <2>5. Alone'
    <3>1. /\ unsure = {} => RemovalAt = {} /\ \A u \in Tasks : ~Removing(u)'
      BY <1>2, <1>3, <2>1 DEF Alone, Removing
    <3>2. \A u \in unsure : u = t
      BY <2>1 DEF Alone
    <3>3. t \in unsure => /\ \A u \in Tasks \ {t} : Quiet(u)' /\ u \notin unsure
                          /\ Quiet(t)' \/ (Removing(t)' /\ RemovalAt = {})
      BY <1>2, <1>3, <2>1 DEF Alone
    <3> QED
      BY <2>2, <3>1, <3>2, <3>3 DEF Alone
  <2> QED
    BY <2>3, <2>4, <2>5
<1> QED
  BY <1>4, <1>5, LiveParts

LEMMA LooksLive ==
  ASSUME OwnerInv, LiveInv, ~Stray, NEW t \in Tasks, Looks(t)
  PROVE  LiveInv'
<1>1. /\ at[t] \in {"count", "look", "poll", "added"}
      /\ Apart /\ unsure' = unsure /\ hasty' = hasty
  BY LooksMove
<1>2. /\ call[t] \in Actions /\ call[t].type # "name" /\ Listed \subseteq Items /\ ~Quiet(t)
      /\ ~hasty /\ Points(call[t]) => call[t].obj \in Listed
      /\ NoCall \in Actions /\ NoCall.type = "none"
  BY <1>1, NextIsListed, LiveParts, CallsMade DEF OwnerInv, ServTypeOK, CarriesAll, Quiet, CallerLive
<1>3. CASE Moves(t, "idle", NoCall, None)
  <2>1. "idle" \in Whereabouts /\ ~Points(NoCall)
    BY <1>2 DEF Whereabouts, Points
  <2> QED
    BY <1>1, <1>2, <1>3, <2>1, MoveLives DEF Apart
<1>4. ASSUME NEW p \in {"count", "look", "poll", "added"}, NEW i \in Listed \cup {None},
             Moves(t, p, call[t], i)
      PROVE  LiveInv'
  <2>1. p \in Whereabouts
    BY DEF Whereabouts
  <2> QED
    BY <1>1, <1>2, <1>4, <2>1, MoveLives DEF Apart
<1>5. ASSUME cur[t] \in Listed, Moves(t, "post", [call[t] EXCEPT !.obj = cur[t]], None)
      PROVE  LiveInv'
  <2> DEFINE c == [call[t] EXCEPT !.obj = cur[t]]
  <2>1. c \in Actions /\ c.type = call[t].type /\ c.obj = cur[t]
    BY <1>2, <1>5 DEF Actions
  <2>2. "post" \in Whereabouts
    BY DEF Whereabouts
  <2>3. Moves(t, "post", c, None)
    BY <1>5
  <2> HIDE DEF c
  <2> QED
    BY <1>1, <1>2, <1>5, <2>1, <2>2, <2>3, MoveLives DEF Apart
<1> QED
  BY <1>3, <1>4, <1>5, LooksMove

LEMMA AllocatesLives ==
  ASSUME OwnerInv, LiveInv, NEW t \in Tasks, Allocates(t)
  PROVE  LiveInv'
<1>1. PICK i \in Available : call' = [call EXCEPT ![t].obj = i]
  BY DEF Allocates
<1>2. /\ at[t] = "look" /\ call[t].type = "add" /\ call[t] \in Actions /\ i \in Items
      /\ list' = list /\ queue' = queue /\ Goes(t, "post", None)
      /\ seen' = seen /\ left' = left /\ calls' = calls /\ unsure' = unsure /\ hasty' = hasty
  BY DEF Allocates, OwnerInv, ServTypeOK, Available
<1> DEFINE c == [call[t] EXCEPT !.obj = i]
<1>3. c \in Actions /\ c.type = "add" /\ call' = [call EXCEPT ![t] = c]
  BY <1>1, <1>2 DEF Actions
<1> HIDE DEF c
<1>4. Moves(t, "post", c, None)
  BY <1>2, <1>3, GoesMoves DEF OwnerInv, ServTypeOK
<1>5. "post" \in Whereabouts /\ ~Points(c) /\ ~Quiet(t)
  BY <1>2, <1>3 DEF Whereabouts, Points, Quiet
<1> QED
  BY <1>2, <1>3, <1>4, <1>5, MoveLives

LEMMA PostFailsLives ==
  ASSUME OwnerInv, LiveInv, NEW t \in Tasks, PostFails(t)
  PROVE  LiveInv'
<1>1. /\ at[t] = "post" /\ list' = list /\ queue' = queue
      /\ unsure' = unsure /\ hasty' = hasty /\ Moves(t, "idle", NoCall, None)
  BY EndsMoves DEF PostFails
<1>2. /\ "idle" \in Whereabouts /\ NoCall \in Actions /\ NoCall.type = "none"
      /\ ~Points(NoCall) /\ ~Quiet(t)
  BY <1>1, CallsMade DEF Whereabouts, Points, Quiet
<1> QED
  BY <1>1, <1>2, MoveLives

\* An action at the end of the queue
LEMMA AppendLives ==
  ASSUME OwnerInv, NEW a \in Actions, queue' = Append(queue, a), list' = list,
         unsure' = unsure, QueueLive, InOrder,
         Points(a) => a.obj \in Listed,
         RemovalAt # {} => ~Points(a) /\ a.type \notin Removals,
         a.type \in Removals => \A n \in DOMAIN queue :
                                  ~(queue[n].type = "name" /\ queue[n].obj \in unsure)
  PROVE  /\ QueueLive' /\ InOrder'
         /\ a.type \notin Removals => RemovalAt' = RemovalAt
<1>1. /\ DOMAIN queue = 1 .. Len(queue) /\ Len(queue) \in Nat
      /\ DOMAIN queue' = 1 .. Len(queue) + 1
      /\ \A n \in 1 .. Len(queue) : queue'[n] = queue[n]
      /\ queue'[Len(queue) + 1] = a
  <2>1. queue \in Seq(Actions)
    BY DEF OwnerInv, ServTypeOK
  <2> QED
    BY <2>1, AppendAdds
<1>2. \A m \in DOMAIN queue' : \/ m \in DOMAIN queue /\ queue'[m] = queue[m]
                               \/ m = Len(queue) + 1 /\ queue'[m] = a
  BY <1>1
<1>3. QueueLive'
  BY <1>2 DEF QueueLive, Listed, Points
<1>4. RemovalAt' = IF a.type \in Removals THEN RemovalAt \cup {Len(queue) + 1} ELSE RemovalAt
  BY <1>1 DEF RemovalAt
<1>5. RemovalAt \subseteq DOMAIN queue /\ (\A n \in DOMAIN queue : n < Len(queue) + 1 /\ n \in Nat)
  BY <1>1 DEF RemovalAt
<1>6. ASSUME NEW n \in RemovalAt', NEW m \in DOMAIN queue', m > n
      PROVE  ~Points(queue'[m]) /\ m \notin RemovalAt'
  <2>1. n \in RemovalAt
    BY <1>1, <1>4, <1>5, <1>6
  <2>2. m \in DOMAIN queue => m \notin RemovalAt' /\ ~Points(queue[m])
    BY <1>4, <1>5, <1>6, <2>1 DEF InOrder
  <2>3. m = Len(queue) + 1 => m \notin RemovalAt' /\ ~Points(a)
    BY <1>4, <1>5, <2>1
  <2> QED
    BY <1>2, <2>2, <2>3
<1>7. ASSUME NEW n \in RemovalAt', NEW m \in DOMAIN queue',
             queue'[m].type = "name" /\ queue'[m].obj \in unsure
      PROVE  n < m
  <2>1. CASE n \in RemovalAt
    BY <1>1, <1>2, <1>5, <1>7, <2>1 DEF InOrder
  <2>2. CASE n \notin RemovalAt
    <3>1. a.type \in Removals
      BY <1>4, <2>2
    <3>2. m \notin DOMAIN queue /\ a.type # "name"
      BY <1>2, <1>7, <3>1 DEF Removals
    <3> QED
      BY <1>2, <1>7, <3>2
  <2> QED
    BY <2>1, <2>2
<1>8. InOrder'
  BY <1>6, <1>7 DEF InOrder, Points
<1> QED
  BY <1>3, <1>4, <1>8

\* The action is posted: if it is a removal, nobody has an address.
LEMMA PostLives ==
  ASSUME OwnerInv, LiveInv, NEW t \in Tasks, Post(t)
  PROVE  LiveInv'
<1> DEFINE a == call[t]
<1>1. /\ at[t] = "post" /\ a \in Actions /\ a.type # "name" /\ list' = list
      /\ unsure' = unsure /\ hasty' = hasty /\ queue' = Append(queue, a) /\ ~Quiet(t)
  BY LeavesPost DEF Post, Quiet
<1>2. PICK p \in {"added", "idle"}, c \in {a, NoCall} :
        Moves(t, p, c, None) /\ (p = "idle" => c = NoCall) /\ (p = "added" => c.type = "add")
  BY LeavesPost
<1>3. /\ at'[t] = p /\ call'[t] = c /\ cur'[t] = None
      /\ \A u \in Tasks : u # t => at'[u] = at[u] /\ call'[u] = call[u] /\ cur'[u] = cur[u]
  <2>1. p \in Whereabouts /\ c \in Actions /\ c.type # "name" /\ None \in Listed \cup {None}
    BY <1>1, <1>2, CallsMade DEF Whereabouts
  <2> HIDE DEF a
  <2> QED
    BY <1>2, <2>1, CallerMoves
<1>4. ~Points(c) /\ ~Removing(t)' /\ (p = "idle" <=> Quiet(t)')
  BY <1>2, <1>3, CallsMade DEF Points, Removing, Quiet, Removals
<1>5. \A u \in Tasks : u # t => /\ Quiet(u)' <=> Quiet(u)
                                /\ Removing(u)' <=> Removing(u)
  BY <1>3 DEF Quiet, Removing
<1>6. Idle'
  BY <1>3, <1>4, <1>5, LiveParts DEF Idle, Points
<1>7. ASSUME ~hasty'
      PROVE  (\A u \in Tasks : CallerLive(u)') /\ QueueLive' /\ Alone' /\ InOrder'
  <2>1. (\A u \in Tasks : CallerLive(u)) /\ QueueLive /\ Alone /\ InOrder /\ Listed' = Listed
    BY <1>1, <1>7, LiveParts DEF Listed
  <2>2. RemovalAt = {}
    BY <1>1, <1>7, RemovalQuiet
  <2>3. ASSUME a.type \in Removals
        PROVE  /\ unsure = {t}
               /\ \A n \in DOMAIN queue : ~(queue[n].type = "name" /\ queue[n].obj \in unsure)
    <3>1. Removing(t)
      BY <1>1, <2>3 DEF Removing
    <3>2. unsure = {t}
      BY <1>1, <2>1, <3>1 DEF Alone
    <3>3. \A n \in DOMAIN queue : queue[n].type = "name" => queue[n].obj # t
      BY <1>1 DEF OwnerInv, CarriesAll, Carries
    <3> QED
      BY <3>2, <3>3
  <2>4. Points(a) => a.obj \in Listed
    BY <2>1 DEF CallerLive
  <2> HIDE DEF a
  <2>5. QueueLive' /\ InOrder' /\ (a.type \notin Removals => RemovalAt' = RemovalAt)
    BY <1>1, <2>1, <2>2, <2>3, <2>4, AppendLives
  <2>6. ASSUME NEW u \in Tasks PROVE CallerLive(u)'
    BY <1>3, <1>4, <2>1 DEF CallerLive, Points
  <2>7. Alone'
    <3>1. a.type \in Removals => unsure = {t} /\ p = "idle"
      BY <1>2, <2>3, CallsMade DEF Removals, a
    <3>2. \A u \in unsure : u = t
      BY <1>1, <2>1 DEF Alone
    <3>3. t \in unsure => Removing(t) /\ a.type \in Removals
      BY <1>1, <2>1 DEF Alone, Removing, a
    <3>4. unsure = {} => RemovalAt' = {} /\ \A u \in Tasks : ~Removing(u)'
      BY <1>4, <1>5, <2>1, <2>2, <2>5, <3>1 DEF Alone
    <3>5. t \in unsure => /\ \A u \in Tasks \ {t} : Quiet(u)' /\ u \notin unsure
                          /\ Quiet(t)'
      BY <1>4, <1>5, <2>1, <3>1, <3>3 DEF Alone
    <3> QED
      BY <1>1, <3>2, <3>4, <3>5 DEF Alone
  <2> QED
    BY <2>5, <2>6, <2>7
<1> QED
  BY <1>6, <1>7, LiveParts

\* A call begins, and is hasty unless nothing is being removed; a removal is
\* hasty unless no other call is under way.
LEMMA BeginsLives ==
  ASSUME OwnerInv, LiveInv, NEW t \in Tasks, NEW p \in {"count", "look", "post"},
         NEW type \in {"add", "set", "del", "clear", "host", "exists"}, Begins(t, p, type)
  PROVE  LiveInv'
<1> DEFINE i == IF p = "post" THEN None ELSE First
           c == Action(type, None)
<1>1. at[t] = "idle" /\ Apart /\ Moves(t, p, c, i)
  BY BeginsMoves
<1>2. c \in Actions /\ c.type = type /\ c.obj = None /\ p \in Whereabouts /\ i \in Listed \cup {None}
  BY CallsMade, NextIsListed DEF Whereabouts
<1> HIDE DEF c, i
<1>3. /\ at'[t] = p /\ call'[t] = c /\ cur'[t] = i
      /\ \A u \in Tasks : u # t => at'[u] = at[u] /\ call'[u] = call[u] /\ cur'[u] = cur[u]
  BY <1>1, <1>2, CallerMoves
<1>4. ~Points(c) /\ (Removing(t)' <=> type \in Removals) /\ ~Quiet(t)'
  BY <1>2, <1>3 DEF Points, Removing, Quiet
<1>5. \A u \in Tasks : u # t => /\ Quiet(u)' <=> Quiet(u)
                                /\ Removing(u)' <=> Removing(u)
  BY <1>3 DEF Quiet, Removing
<1>6. Idle'
  BY <1>3, <1>4, <1>5, LiveParts DEF Idle, Points
<1>7. ASSUME ~hasty'
      PROVE  (\A u \in Tasks : CallerLive(u)') /\ QueueLive' /\ Alone' /\ InOrder'
  <2>1. /\ ~hasty /\ unsure = {}
        /\ type \in Removals => \A u \in Tasks \ {t} : Quiet(u)
        /\ unsure' = IF type \in Removals THEN {t} ELSE {}
    BY <1>7 DEF Begins, Quiet
  <2>2. /\ (\A u \in Tasks : CallerLive(u)) /\ QueueLive /\ Alone /\ InOrder
        /\ Listed' = Listed /\ queue' = queue /\ RemovalAt' = RemovalAt
    BY <1>1, <2>1, LiveParts DEF Listed, Apart, RemovalAt
  <2>3. RemovalAt = {} /\ (\A u \in Tasks : ~Removing(u))
    BY <2>1, <2>2 DEF Alone
  <2>4. QueueLive' /\ InOrder'
    BY <2>2, <2>3 DEF QueueLive, InOrder, Points
  <2>5. ASSUME NEW u \in Tasks PROVE CallerLive(u)'
    BY <1>2, <1>3, <1>4, <2>2 DEF CallerLive, Points
  <2>6. Alone'
    <3>1. CASE type \in Removals
      BY <1>4, <1>5, <2>1, <2>2, <2>3, <3>1 DEF Alone
    <3>2. CASE type \notin Removals
      BY <1>4, <1>5, <2>1, <2>2, <2>3, <3>2 DEF Alone
    <3> QED
      BY <3>1, <3>2
  <2> QED
    BY <2>4, <2>5, <2>6
<1> QED
  BY <1>6, <1>7, LiveParts

\* An action without an address is posted, and nobody moves, or one that waits
\* for its notification.
LEMMA OthersLive ==
  ASSUME OwnerInv, LiveInv, NEW a \in Actions, a.type \in {"name", "other"},
         queue' = Append(queue, a), list' = list, cur' = cur, call' = call,
         unsure' = unsure, hasty' = hasty,
         \A u \in Tasks : at'[u] = at[u] \/ (at[u] = "idle" /\ at'[u] = "notify")
  PROVE  LiveInv'
<1>1. \A u \in Tasks : /\ Quiet(u)' <=> Quiet(u)
                       /\ Removing(u)' <=> Removing(u)
  BY DEF Quiet, Removing
<1>2. Idle'
  BY <1>1, LiveParts DEF Idle, Points
<1>3. ASSUME ~hasty
      PROVE  (\A u \in Tasks : CallerLive(u)') /\ QueueLive' /\ Alone' /\ InOrder'
  <2>1. (\A u \in Tasks : CallerLive(u)) /\ QueueLive /\ Alone /\ InOrder /\ Listed' = Listed
    BY <1>3, LiveParts DEF Listed
  <2>2. ~Points(a) /\ a.type \notin Removals
    BY DEF Points, Removals
  <2>3. QueueLive' /\ InOrder' /\ RemovalAt' = RemovalAt
    BY <2>1, <2>2, AppendLives
  <2>4. \A u \in Tasks : CallerLive(u)'
    BY <2>1 DEF CallerLive, Points
  <2>5. Alone'
    <3>1. unsure \subseteq Tasks
      BY DEF OwnerInv, ServTypeOK
    <3> QED
      BY <1>1, <2>1, <2>3, <3>1 DEF Alone
  <2> QED
    BY <2>3, <2>4, <2>5
<1> QED
  BY <1>2, <1>3, LiveParts

LEMMA HostnameSetLives ==
  ASSUME OwnerInv, LiveInv, NEW t \in Tasks, HostnameSet(t)
  PROVE  LiveInv'
<1>1. Action("name", t) \in Actions /\ Action("name", t).type = "name"
  BY CallsMade
<1>2. /\ at[t] = "idle" /\ queue' = Append(queue, Action("name", t))
      /\ at' = [at EXCEPT ![t] = "notify"]
      /\ list' = list /\ cur' = cur /\ call' = call /\ unsure' = unsure /\ hasty' = hasty
  BY DEF HostnameSet
<1>3. \A u \in Tasks : at'[u] = at[u] \/ (at[u] = "idle" /\ at'[u] = "notify")
  BY <1>2 DEF OwnerInv, ServTypeOK
<1> QED
  BY <1>1, <1>2, <1>3, OthersLive

LEMMA OtherLives ==
  ASSUME OwnerInv, LiveInv, Other
  PROVE  LiveInv'
<1>1. Action("other", None) \in Actions /\ Action("other", None).type = "other"
  BY CallsMade
<1> QED
  BY <1>1, OthersLive DEF Other, walk

LEMMA TickLives ==
  ASSUME LiveInv, Tick
  PROVE  LiveInv'
BY DEF Tick, LiveInv, Idle, ActionsLive, RemovalsAlone, Quiet, Removing, RemovalAt, Points, Listed

\* When the head of the queue is taken, what is left keeps its order; if it is a
\* removal, what is left has no address; if it notifies somebody who is not
\* sure, no removal is left.
LEMMA TakenLives ==
  ASSUME OwnerInv, InOrder, NEW types, Executes(types), unsure' \subseteq unsure
  PROVE  /\ InOrder' /\ (RemovalAt = {} => RemovalAt' = {})
         /\ \A n \in DOMAIN queue' : n + 1 \in DOMAIN queue /\ queue'[n] = queue[n + 1]
         /\ Head(queue).type \in Removals =>
              /\ RemovalAt # {} /\ RemovalAt' = {}
              /\ \A n \in DOMAIN queue' : ~Points(queue'[n])
         /\ Head(queue).type = "name" /\ This \in unsure => RemovalAt = {}
<1>1. /\ Head(queue) = queue[1] /\ This = Head(queue).obj
      /\ 1 \in DOMAIN queue /\ DOMAIN queue \subseteq Nat \ {0} /\ DOMAIN queue' \subseteq Nat \ {0}
      /\ \A n \in DOMAIN queue' : n + 1 \in DOMAIN queue /\ queue'[n] = queue[n + 1]
  <2>1. queue \in Seq(Actions)
    BY DEF OwnerInv, ServTypeOK
  <2>2. queue' \in Seq(Actions)
    BY Taken
  <2>3. DOMAIN queue \subseteq Nat \ {0} /\ DOMAIN queue' \subseteq Nat \ {0}
    BY <2>1, <2>2
  <2> QED
    BY <2>3, Taken
<1>2. \A n \in DOMAIN queue' : n \in RemovalAt' <=> n + 1 \in RemovalAt
  BY <1>1 DEF RemovalAt
<1>3. RemovalAt \subseteq DOMAIN queue /\ RemovalAt' \subseteq DOMAIN queue'
  BY DEF RemovalAt
<1>4. ASSUME NEW n \in RemovalAt', NEW m \in DOMAIN queue', m > n
      PROVE  ~Points(queue'[m]) /\ m \notin RemovalAt'
  <2>1. n + 1 \in RemovalAt /\ m + 1 \in DOMAIN queue /\ m + 1 > n + 1
    BY <1>1, <1>2, <1>3, <1>4
  <2> QED
    BY <1>1, <1>2, <2>1 DEF InOrder
<1>5. ASSUME NEW n \in RemovalAt', NEW m \in DOMAIN queue',
             queue'[m].type = "name" /\ queue'[m].obj \in unsure'
      PROVE  n < m
  <2>1. n + 1 \in RemovalAt /\ m + 1 \in DOMAIN queue /\ queue[m + 1] = queue'[m]
    BY <1>1, <1>2, <1>3
  <2>2. n + 1 < m + 1
    BY <1>5, <2>1 DEF InOrder
  <2> QED
    BY <1>1, <1>3, <2>2
<1>6. InOrder'
  BY <1>4, <1>5 DEF InOrder, Points
<1>7. RemovalAt = {} => RemovalAt' = {}
  BY <1>2, <1>3
<1>8. ASSUME Head(queue).type \in Removals
      PROVE  /\ RemovalAt # {} /\ RemovalAt' = {}
             /\ \A n \in DOMAIN queue' : ~Points(queue'[n])
  <2>1. 1 \in RemovalAt
    BY <1>1, <1>8 DEF RemovalAt
  <2>2. \A n \in DOMAIN queue' : n + 1 > 1
    BY <1>1
  <2>3. \A n \in DOMAIN queue' : n + 1 \notin RemovalAt /\ ~Points(queue[n + 1])
    BY <1>1, <2>1, <2>2 DEF InOrder
  <2> QED
    BY <1>1, <1>2, <1>3, <2>1, <2>3
<1>9. ASSUME Head(queue).type = "name", This \in unsure
      PROVE  RemovalAt = {}
  <2>1. \A n \in RemovalAt : n < 1
    BY <1>1, <1>9 DEF InOrder
  <2> QED
    BY <1>1, <1>3, <2>1
<1> QED
  BY <1>1, <1>6, <1>7, <1>8, <1>9

\* The service task takes an action that does not remove anything, and moves
\* nobody: the table keeps its items.
LEMMA KeepsLive ==
  ASSUME OwnerInv, LiveInv, NEW types, Executes(types), types \cap (Removals \cup {"name"}) = {},
         Listed \subseteq Listed', at' = at, unsure' = unsure
  PROVE  LiveInv'
<1>1. cur' = cur /\ call' = call /\ hasty' = hasty
  BY Taken
<1>2. Idle'
  BY <1>1, LiveParts DEF Idle, Quiet, Points
<1>3. ASSUME ~hasty
      PROVE  (\A u \in Tasks : CallerLive(u)') /\ QueueLive' /\ Alone' /\ InOrder'
  <2>1. (\A u \in Tasks : CallerLive(u)) /\ QueueLive /\ Alone /\ InOrder
    BY <1>3, LiveParts
  <2>2. /\ InOrder' /\ (RemovalAt = {} => RemovalAt' = {})
        /\ \A n \in DOMAIN queue' : n + 1 \in DOMAIN queue /\ queue'[n] = queue[n + 1]
    BY <2>1, TakenLives
  <2>3. QueueLive'
    BY <2>1, <2>2 DEF QueueLive, Points
  <2>4. \A u \in Tasks : CallerLive(u)'
    BY <1>1, <2>1 DEF CallerLive, Points
  <2>5. Alone'
    BY <1>1, <2>1, <2>2 DEF Alone, Quiet, Removing
  <2> QED
    BY <2>2, <2>3, <2>4, <2>5
<1> QED
  BY <1>1, <1>2, <1>3, LiveParts

\* It takes one that removes something: nobody has an address.
LEMMA RemovesLive ==
  ASSUME OwnerInv, LiveInv, NEW types, Executes(types), types \subseteq Removals,
         at' = at, unsure' = unsure
  PROVE  LiveInv'
<1>1. cur' = cur /\ call' = call /\ hasty' = hasty /\ Head(queue).type \in Removals
  BY Taken
<1>2. Idle'
  BY <1>1, LiveParts DEF Idle, Quiet, Points
<1>3. ASSUME ~hasty
      PROVE  (\A u \in Tasks : CallerLive(u)') /\ QueueLive' /\ Alone' /\ InOrder'
  <2>1. Alone /\ InOrder
    BY <1>3, LiveParts
  <2>2. /\ InOrder' /\ RemovalAt # {} /\ RemovalAt' = {}
        /\ \A n \in DOMAIN queue' : ~Points(queue'[n])
    BY <1>1, <2>1, TakenLives
  <2>3. QueueLive'
    BY <2>2 DEF QueueLive, Points
  <2>4. \A u \in Tasks : Quiet(u) /\ cur[u] = None /\ ~Points(call[u])
    BY <1>3, <2>2, RemovalQuiet
  <2>5. \A u \in Tasks : CallerLive(u)'
    BY <1>1, <2>4 DEF CallerLive, Points
  <2>6. Alone'
    BY <1>1, <2>1, <2>2, <2>4 DEF Alone, Quiet, Removing
  <2> QED
    BY <2>2, <2>3, <2>5, <2>6
<1> QED
  BY <1>1, <1>2, <1>3, LiveParts

\* One service of a host is removed while the action stays at the head.
LEMMA RemoveOfHostLives ==
  ASSUME OwnerInv, LiveInv, RemoveOfHost
  PROVE  LiveInv'
<1>1. /\ queue # <<>> /\ Head(queue).type = "host" /\ at' = at /\ unsure' = unsure
      /\ UNCHANGED <<fresh, queue, cur, seen, call, left, calls, hasty>>
  BY DEF RemoveOfHost, Unlinks
<1>2. Idle'
  BY <1>1, LiveParts DEF Idle, Quiet, Points
<1>3. ASSUME ~hasty
      PROVE  (\A u \in Tasks : CallerLive(u)') /\ QueueLive' /\ Alone' /\ InOrder'
  <2>1. Alone /\ InOrder
    BY <1>3, LiveParts
  <2>2. Head(queue) = queue[1] /\ 1 \in DOMAIN queue /\ DOMAIN queue \subseteq Nat \ {0}
    BY <1>1 DEF OwnerInv, ServTypeOK
  <2>3. 1 \in RemovalAt /\ ~Points(queue[1])
    BY <1>1, <2>2 DEF RemovalAt, Removals, Points
  <2>4. \A n \in DOMAIN queue : n = 1 \/ n > 1
    BY <2>2
  <2>5. \A n \in DOMAIN queue : ~Points(queue[n])
    BY <2>1, <2>3, <2>4 DEF InOrder
  <2>6. \A u \in Tasks : Quiet(u) /\ cur[u] = None /\ ~Points(call[u])
    BY <1>3, <2>3, RemovalQuiet
  <2>7. QueueLive' /\ (\A u \in Tasks : CallerLive(u)')
    BY <1>1, <2>5, <2>6 DEF QueueLive, CallerLive, Points
  <2>8. Alone' /\ InOrder'
    BY <1>1, <2>1 DEF Alone, InOrder, Quiet, Removing, RemovalAt, Points
  <2> QED
    BY <2>7, <2>8
<1> QED
  BY <1>1, <1>2, <1>3, LiveParts

\* A task is notified that was not sure: what it removed is gone.
LEMMA ExecuteNameLives ==
  ASSUME OwnerInv, LiveInv, ExecuteName
  PROVE  LiveInv'
<1>1. /\ Executes({"name"}) /\ at' = [at EXCEPT ![This] = "idle"]
      /\ unsure' = unsure \ {This} /\ Listed' = Listed
  BY DEF ExecuteName, Listed
<1>2. /\ Head(queue).type = "name" /\ Head(queue) = queue[1] /\ 1 \in DOMAIN queue
      /\ This = Head(queue).obj
      /\ cur' = cur /\ call' = call /\ hasty' = hasty
  BY <1>1, Taken
<1>3. This \in Tasks /\ at[This] = "notify" /\ unsure \subseteq Tasks
  BY <1>2 DEF OwnerInv, CarriesAll, Carries, ServTypeOK
<1>4. \A u \in Tasks : u # This => at'[u] = at[u]
  BY <1>1 DEF OwnerInv, ServTypeOK
<1>5. at'[This] = "idle"
  BY <1>1, <1>3 DEF OwnerInv, ServTypeOK
<1>6. \A u \in Tasks : /\ Quiet(u)' <=> Quiet(u)
                       /\ Removing(u)' <=> Removing(u)
  BY <1>2, <1>3, <1>4, <1>5 DEF Quiet, Removing
<1>7. Idle'
  BY <1>2, <1>6, LiveParts DEF Idle, Points
<1>8. ASSUME ~hasty
      PROVE  (\A u \in Tasks : CallerLive(u)') /\ QueueLive' /\ Alone' /\ InOrder'
  <2>1. (\A u \in Tasks : CallerLive(u)) /\ QueueLive /\ Alone /\ InOrder
    BY <1>8, LiveParts
  <2>2. unsure' \subseteq unsure
    BY <1>1
  <2>3. /\ InOrder' /\ (RemovalAt = {} => RemovalAt' = {})
        /\ \A n \in DOMAIN queue' : n + 1 \in DOMAIN queue /\ queue'[n] = queue[n + 1]
        /\ This \in unsure => RemovalAt = {}
    BY <1>1, <1>2, <2>1, <2>2, TakenLives
  <2>4. QueueLive'
    BY <1>1, <2>1, <2>3 DEF QueueLive, Points
  <2>5. \A u \in Tasks : CallerLive(u)'
    BY <1>1, <1>2, <2>1 DEF CallerLive, Points
  <2>6. Alone'
    <3>1. CASE This \in unsure
      <4>1. RemovalAt' = {} /\ (\A u \in Tasks \ {This} : Quiet(u) /\ u \notin unsure)
        BY <2>1, <2>3, <3>1 DEF Alone
      <4>2. unsure' = {} /\ (\A u \in Tasks : Quiet(u))
        BY <1>1, <1>3, <4>1 DEF Quiet
      <4>3. \A u \in Tasks : ~Removing(u)'
        BY <1>6, <4>2 DEF Removing
      <4> QED
        BY <4>1, <4>2, <4>3 DEF Alone
    <3>2. CASE This \notin unsure
      <4>1. unsure' = unsure
        BY <1>1, <3>2
      <4> QED
        BY <1>3, <1>6, <2>1, <2>3, <4>1 DEF Alone
    <3> QED
      BY <3>1, <3>2
  <2> QED
    BY <2>3, <2>4, <2>5, <2>6
<1> QED
  BY <1>2, <1>7, <1>8, LiveParts

LEMMA ExecuteLives ==
  ASSUME OwnerInv, LiveInv, Execute
  PROVE  LiveInv'
<1>1. CASE ExecuteAdd
  <2>1. /\ Executes({"add"}) /\ list' = <<This>> \o list /\ at' = at /\ unsure' = unsure
    BY <1>1 DEF ExecuteAdd
  <2>2. Listed \subseteq Listed'
    <3>1. list \in Seq(Items) /\ This \in Items
      BY <2>1, Taken, InTable
    <3>2. \A n \in DOMAIN list : n + 1 \in DOMAIN list' /\ list'[n + 1] = list[n]
      BY <2>1, <3>1
    <3> QED
      BY <3>2 DEF Listed
  <2>3. {"add"} \cap (Removals \cup {"name"}) = {}
    BY DEF Removals
  <2> QED
    BY <2>1, <2>2, <2>3, KeepsLive
<1>2. CASE ExecuteSet
  <2>1. Executes({"set", "other"}) /\ Listed' = Listed /\ at' = at /\ unsure' = unsure
    BY <1>2 DEF ExecuteSet, Listed
  <2>2. {"set", "other"} \cap (Removals \cup {"name"}) = {}
    BY DEF Removals
  <2> QED
    BY <2>1, <2>2, KeepsLive
<1>3. CASE ExecuteDel \/ ExecuteClear \/ ExecuteHost
  <2>1. PICK type \in Removals : Executes({type}) /\ at' = at /\ unsure' = unsure
    BY <1>3 DEF ExecuteDel, ExecuteClear, ExecuteHost, Unlinks, Removals
  <2> QED
    BY <2>1, RemovesLive
<1> QED
  BY <1>1, <1>2, <1>3, RemoveOfHostLives, ExecuteNameLives DEF Execute

LEMMA InitLives == Init => LiveInv
<1> SUFFICES ASSUME Init PROVE LiveInv
  OBVIOUS
<1>1. /\ \A t \in Tasks : at[t] = "idle" /\ cur[t] = None /\ call[t] = NoCall
      /\ queue = <<>> /\ unsure = {}
  BY DEF Init
<1>2. \A t \in Tasks : ~Points(call[t]) /\ ~Removing(t) /\ cur[t] = None
  BY <1>1, CallsMade DEF Points, Removing, Quiet
<1> QED
  BY <1>1, <1>2 DEF LiveInv, Idle, ActionsLive, RemovalsAlone, RemovalAt

LEMMA NextLives == OwnerInv /\ LiveInv /\ [Next]_vars => LiveInv'
<1> SUFFICES ASSUME OwnerInv, LiveInv, [Next]_vars PROVE LiveInv'
  OBVIOUS
<1>1. ASSUME NEW t \in Tasks, Call(t) PROVE LiveInv'
  BY <1>1, BeginsLives, HostnameSetLives
     DEF Call, ServiceAdd, Change, ServiceRemove, ServiceExists, RemoveAll, HostRemove
<1>2. ASSUME NEW t \in Tasks, ~Stray, Continue(t) PROVE LiveInv'
  BY <1>2, LooksLive, AllocatesLives, PostLives, PostFailsLives DEF Continue, Looks
<1>3. CASE UNCHANGED vars
  BY <1>3 DEF vars, walk, LiveInv, Idle, ActionsLive, RemovalsAlone, Quiet, Removing, RemovalAt,
              Points, Listed
<1> QED
  BY <1>1, <1>2, <1>3, OtherLives, ExecuteLives, TickLives DEF Next, Steps

\* The types, the owners, and the addresses that anybody has
\* (_mdns_get_service_item_instance, _mdns_execute_action, the callers)
THEOREM LiveInductive == Spec => [](OwnerInv /\ LiveInv)
<1>1. Init => OwnerInv /\ LiveInv
  BY InitOwns, InitLives
<1>2. OwnerInv /\ LiveInv /\ [Next]_vars => (OwnerInv /\ LiveInv)'
  BY NextOwns, NextLives
<1> QED
  BY <1>1, <1>2, PTL DEF Spec

\* Until a call overlaps a removal that it does not know to be over, no walk, no
\* caller and no action on the queue has the address of an item that has been
\* freed.
THEOREM ActionsStayLive == Spec => []ActionsLive
<1>1. LiveInv => ActionsLive
  BY DEF LiveInv
<1> QED
  BY <1>1, LiveInductive, PTL

-----------------------------------------------------------------------------
(* Answers.                                                                 *)

\* The first position that is found
LEMMA FirstIs ==
  ASSUME NEW ss \in SUBSET Nat
  PROVE  ss # {} => FirstOf(ss) \in ss
<1> SUFFICES ASSUME ss # {} PROVE FirstOf(ss) \in ss
  OBVIOUS
<1>1. FirstOf(ss) = Min(ss)
  BY DEF FirstOf
<1>2. Min(ss) \in ss
  BY LeastNumber DEF Min
<1> QED
  BY <1>1, <1>2

\* The table has positions.
LEMMA TableIs == Len(Services) \in Nat /\ Table = 1 .. Len(Services) /\ Table \subseteq Nat
  BY AnswersAssumption

\* A service that is found has the type and, if there is one, the name.
LEMMA InstanceFound ==
  ASSUME NEW host, NEW type, ServiceItemInstance(host, type) # 0
  PROVE  /\ ServiceItemInstance(host, type) \in Table
         /\ Services[ServiceItemInstance(host, type)].type = type
         /\ host \in {Null, Services[ServiceItemInstance(host, type)].instance}
<1> DEFINE all == {s \in Table : Services[s].type = type}
           named == {s \in Table : Services[s].type = type /\ Services[s].instance = host}
<1>1. all \subseteq Nat /\ named \subseteq Nat
  BY TableIs
<1>2. CASE host = Null
  <2>1. ServiceItemInstance(host, type) = FirstOf(all)
    BY <1>2 DEF ServiceItemInstance, ServiceItem
  <2>2. all # {}
    BY <2>1 DEF FirstOf
  <2>3. FirstOf(all) \in all
    BY <1>1, <2>2, FirstIs
  <2> QED
    BY <1>2, <2>1, <2>3
<1>3. CASE host # Null
  <2>1. ServiceItemInstance(host, type) = FirstOf(named)
    BY <1>3 DEF ServiceItemInstance
  <2>2. named # {}
    BY <2>1 DEF FirstOf
  <2>3. FirstOf(named) \in named
    BY <1>1, <2>2, FirstIs
  <2> QED
    BY <2>1, <2>3
<1> QED
  BY <1>2, <1>3

\* A subtype that is ours belongs to a service.
LEMMA SubtypeOurs ==
  ASSUME NEW name, IsOurs(name), name.type # Null, name.sub
  PROVE  \E s \in Table : name.host \in Services[s].subtypes
<1> DEFINE ss == {s \in Table : Services[s].type = name.type /\ name.host \in Services[s].subtypes}
<1>1. FirstOf(ss) # 0
  BY DEF IsOurs, ServiceItemSubtype
<1>2. ss # {}
  BY <1>1 DEF FirstOf
<1> QED
  BY <1>2

\* What is sent about a service, every record of it names that service.
LEMMA FromServiceNames ==
  ASSUME NEW s, NEW x, NEW shared,
         NEW a \in FromService(s, x, shared).answers \cup FromService(s, x, shared).additional
  PROVE  a.service = s /\ x.type \in {"PTR", "ANY", "SRV", "TXT", "SDPTR"}
<1> DEFINE own(types) == {OutAnswer(type, s, Null) : type \in types}
           host == Services[s].host
<1>1. \A types : \A b \in own(types) : b.service = s
  BY DEF OutAnswer
<1>2. \A b \in Addresses(s, host) : b.service = s
  BY DEF Addresses, OutAnswer
<1>3. \A A, B : Answers(A, B).answers = A /\ Answers(A, B).additional = B
  BY DEF Answers
<1> HIDE DEF own
<1>4. CASE x.type \in {"PTR", "ANY"}
  <2>1. FromService(s, x, shared) =
          IF shared THEN Answers(own({"PTR", "SRV", "TXT"}), Addresses(s, host))
          ELSE Answers(own({"PTR", "SRV", "TXT"}) \cup Addresses(s, host), {})
    BY <1>4 DEF FromService, own
  <2> QED
    BY <1>1, <1>2, <1>3, <1>4, <2>1
<1>5. CASE x.type = "SRV"
  <2>1. FromService(s, x, shared) = Answers(own({"SRV"}), Addresses(s, host))
    BY <1>5 DEF FromService, own
  <2> QED
    BY <1>1, <1>2, <1>3, <1>5, <2>1
<1>6. CASE x.type \in {"TXT", "SDPTR"}
  <2>1. FromService(s, x, shared) = Answers(own({x.type}), {})
    BY <1>6 DEF FromService, own
  <2> QED
    BY <1>1, <1>3, <1>6, <2>1
<1>7. CASE x.type \notin {"PTR", "ANY", "SRV", "TXT", "SDPTR"}
  <2>1. FromService(s, x, shared) = Answers({}, {})
    BY <1>7 DEF FromService
  <2> QED
    BY <1>3, <2>1
<1> QED
  BY <1>4, <1>5, <1>6, <1>7

\* Every record that a question adds is one it leads to.
LEMMA QuestionLeads ==
  ASSUME NEW q, NEW x, Stems(x, q), q.type \in Types,
         NEW a \in FromQuestion(x).answers \cup FromQuestion(x).additional,
         a.service # 0 \/ a.host # Null
  PROVE  LeadsTo(q, a)
<1> DEFINE n == q.name
           ss == {s \in Table :
                    /\ Services[s].type = n.type
                    /\ IF n.sub THEN n.host \in Services[s].subtypes
                       ELSE n.host \in {Null, Services[s].instance}}
           wanted == {"PTR", "SRV", "TXT"} \cap (IF q.type = "ANY" THEN Types ELSE {q.type})
           shared == x.type \in {"PTR", "SDPTR"} \/ ~probe
           from == {FromService(s, x, shared) : s \in {t \in Table : ServiceMatchPtrQuestion(t, x)}}
<1>1. \A type, s, h : /\ OutAnswer(type, s, h).service = s /\ OutAnswer(type, s, h).host = h
  BY DEF OutAnswer
<1>2. \A s \in Table : s # 0 /\ Services[s].type # Null
  BY TableIs, AnswersAssumption
<1>3. ASSUME ~IsDiscovery(q.name, q.type), n.type # Null, NEW s \in ss, NEW type \in wanted,
             a.service = s
      PROVE  LeadsTo(q, a)
  <2>1. OutAnswer(type, s, Null) \in Asked(q)
    BY <1>3 DEF Asked
  <2>2. a.service # 0 /\ OutAnswer(type, s, Null).service = s
    BY <1>1, <1>2, <1>3
  <2> QED
    BY <1>3, <2>1, <2>2 DEF LeadsTo
<1>4. \A A, B : Answers(A, B).answers = A /\ Answers(A, B).additional = B
  BY DEF Answers
<1>5. CASE x.type \in {"SRV", "TXT"}
  <2> DEFINE s == ServiceItemInstance(x.name.host, x.name.type)
  <2>1. FromQuestion(x) = IF s = 0 THEN Answers({}, {}) ELSE FromService(s, x, shared)
    BY <1>5 DEF FromQuestion
  <2> HIDE DEF s, shared
  <2>2. s # 0 /\ a.service = s
    BY <1>4, <2>1, FromServiceNames
  <2>3. s \in Table /\ Services[s].type = x.name.type /\ x.name.host \in {Null, Services[s].instance}
    BY <2>2, InstanceFound DEF s
  <2>4. ~IsDiscovery(q.name, q.type) /\ x.name = n /\ x.type = q.type /\ IsOurs(n)
    BY <1>5 DEF Stems
  <2>5. n.type # Null
    BY <1>2, <2>3, <2>4
  <2>6. ~n.sub
    <3> SUFFICES ASSUME n.sub PROVE FALSE
      OBVIOUS
    <3>1. PICK r \in Table : n.host \in Services[r].subtypes
      BY <2>4, <2>5, SubtypeOurs
    <3>2. {Null, Services[s].instance} \cap Services[r].subtypes = {}
      BY <2>3, AnswersAssumption
    <3> QED
      BY <2>3, <2>4, <3>1, <3>2
  <2>7. s \in ss
    BY <2>3, <2>4, <2>6
  <2>8. x.type \in wanted
    BY <1>5, <2>4
  <2> HIDE DEF ss, wanted
  <2> QED
    BY <1>3, <2>2, <2>4, <2>5, <2>7, <2>8
<1>6. CASE x.type \notin {"SRV", "TXT"} /\ x.name.type # Null
  <2>1. FromQuestion(x) = Answers(UNION {e.answers : e \in from}, UNION {e.additional : e \in from})
    BY <1>6 DEF FromQuestion
  <2>2. PICK s \in Table : /\ ServiceMatchPtrQuestion(s, x)
                           /\ a \in FromService(s, x, shared).answers
                                      \cup FromService(s, x, shared).additional
    <3> HIDE DEF shared
    <3> QED
      BY <1>4, <2>1
  <2>3. a.service = s /\ x.type \in {"PTR", "ANY", "SDPTR"}
    BY <1>6, <2>2, FromServiceNames
  <2>4. CASE IsDiscovery(q.name, q.type)
    <3>1. OutAnswer("SDPTR", s, Null) \in Asked(q)
      BY <2>4 DEF Asked
    <3> QED
      BY <1>1, <1>2, <2>3, <3>1 DEF LeadsTo
  <2>5. CASE ~IsDiscovery(q.name, q.type)
    <3>1. x.name = n /\ x.type = q.type
      BY <2>5 DEF Stems
    <3>2. s \in ss
      BY <2>2, <3>1 DEF ServiceMatchPtrQuestion
    <3>3. "PTR" \in wanted
      BY <2>3, <3>1 DEF Types
    <3> HIDE DEF ss, wanted
    <3> QED
      BY <1>3, <1>6, <2>3, <2>5, <3>1, <3>2, <3>3
  <2> QED
    BY <2>4, <2>5
<1>7. CASE x.type \notin {"SRV", "TXT"} /\ x.name.type = Null
  <2>1. ~IsDiscovery(q.name, q.type)
    <3> SUFFICES ASSUME IsDiscovery(q.name, q.type) PROVE FALSE
      OBVIOUS
    <3>1. PICK s \in Table : x.name = Name(Null, Services[s].type, FALSE)
      BY DEF Stems
    <3>2. x.name.type = Services[s].type
      BY <3>1 DEF Name
    <3> QED
      BY <1>2, <1>7, <3>2
  <2>2. x.name = n /\ x.type = q.type /\ n.host \in Hosts /\ n.type = Null
    BY <1>7, <2>1 DEF Stems, IsOurs
  <2>3. CASE x.type \in {"A", "AAAA"}
    <3>1. FromQuestion(x) = Answers(Addresses(0, n.host), {})
      BY <1>7, <2>2, <2>3 DEF FromQuestion
    <3>2. a.service = 0 /\ a.host = n.host
      BY <1>1, <1>4, <3>1 DEF Addresses
    <3>3. OutAnswer(q.type, 0, n.host) \in Asked(q)
      BY <2>1, <2>2, <2>3 DEF Asked
    <3> QED
      BY <1>1, <3>2, <3>3 DEF LeadsTo
  <2>4. CASE x.type = "ANY"
    <3>1. FromQuestion(x) = Answers(HostList, {})
      BY <1>7, <2>2, <2>4 DEF FromQuestion
    <3>2. \A b \in HostList : b.service = 0
      <4>1. \A h : \A b \in Addresses(0, h) : b.service = 0
        BY <1>1 DEF Addresses
      <4>2. \A b \in UNION {Addresses(0, Delegated[i]) : i \in 2 .. Len(Delegated)} : b.service = 0
        BY <4>1
      <4>3. \A b \in (IF Delegated = <<>> THEN {} ELSE Addresses(0, Null)) : b.service = 0
        BY <4>1
      <4> QED
        BY <4>1, <4>2, <4>3 DEF HostList
    <3>3. a.service = 0
      BY <1>4, <3>1, <3>2
    <3> QED
      BY <2>2, <2>4, <3>3 DEF LeadsTo
  <2>5. CASE x.type \notin {"A", "AAAA", "ANY"}
    <3>1. FromQuestion(x) = Answers({OutAnswer(q.type, 0, Null)}, {})
      BY <1>7, <2>2, <2>5 DEF FromQuestion
    <3>2. a = OutAnswer(q.type, 0, Null)
      BY <1>4, <3>1
    <3> QED
      BY <1>1, <3>2
  <2> QED
    BY <2>3, <2>4, <2>5
<1> QED
  BY <1>5, <1>6, <1>7

\* An element of two sequences, one after the other
LEMMA ElementOf ==
  ASSUME NEW S, NEW a \in Seq(S), NEW b \in Seq(S), NEW i \in DOMAIN (a \o b)
  PROVE  IF i <= Len(a) THEN i \in DOMAIN a /\ (a \o b)[i] = a[i]
                        ELSE i - Len(a) \in DOMAIN b /\ (a \o b)[i] = b[i - Len(a)]
OBVIOUS

\* What is in two sequences, one after the other, is in one of them.
LEMMA Concatenation ==
  ASSUME NEW S, NEW a \in Seq(S), NEW b \in Seq(S), NEW P,
         \A i \in DOMAIN a : a[i] \in P, \A i \in DOMAIN b : b[i] \in P
  PROVE  a \o b \in Seq(S) /\ \A i \in DOMAIN (a \o b) : (a \o b)[i] \in P
<1>1. a \o b \in Seq(S)
  OBVIOUS
<1>2. ASSUME NEW i \in DOMAIN (a \o b) PROVE (a \o b)[i] \in P
  BY ElementOf
<1> QED
  BY <1>1, <1>2

\* Where the others are when a question is struck off
LEMMA OthersStay ==
  ASSUME NEW S, NEW s \in Seq(S), NEW k \in DOMAIN s
  PROVE  /\ RemoveAt(s, k) \in Seq(S) /\ Len(RemoveAt(s, k)) = Len(s) - 1
         /\ \A i \in DOMAIN RemoveAt(s, k) :
              /\ (IF i < k THEN i ELSE i + 1) \in DOMAIN s
              /\ RemoveAt(s, k)[i] = s[IF i < k THEN i ELSE i + 1]
<1> DEFINE a == SubSeq(s, 1, k - 1)
           b == SubSeq(s, k + 1, Len(s))
<1>1. RemoveAt(s, k) = a \o b
  BY DEF RemoveAt
<1>2. /\ a \in Seq(S) /\ Len(a) = k - 1 /\ \A i \in 1 .. k - 1 : a[i] = s[i]
      /\ b \in Seq(S) /\ Len(b) = Len(s) - k /\ \A i \in 1 .. Len(s) - k : b[i] = s[k + i]
      /\ k \in 1 .. Len(s) /\ Len(s) \in Nat
  OBVIOUS
<1> HIDE DEF a, b
<1>3. a \o b \in Seq(S) /\ Len(a \o b) = Len(s) - 1
  BY <1>2
<1>4. ASSUME NEW i \in DOMAIN (a \o b)
      PROVE  /\ (IF i < k THEN i ELSE i + 1) \in DOMAIN s
             /\ (a \o b)[i] = s[IF i < k THEN i ELSE i + 1]
  <2>1. i \in 1 .. Len(s) - 1
    BY <1>3
  <2>2. IF i <= Len(a) THEN i \in DOMAIN a /\ (a \o b)[i] = a[i]
                       ELSE i - Len(a) \in DOMAIN b /\ (a \o b)[i] = b[i - Len(a)]
    BY <1>2, ElementOf
  <2>3. CASE i < k
    <3>1. (a \o b)[i] = a[i] /\ i \in 1 .. k - 1
      BY <1>2, <2>1, <2>2, <2>3
    <3> QED
      BY <1>2, <2>1, <2>3, <3>1
  <2>4. CASE ~(i < k)
    <3> DEFINE m == i - Len(a)
    <3>1. (a \o b)[i] = b[m] /\ m \in 1 .. Len(s) - k /\ k + m = i + 1
      BY <1>2, <2>1, <2>2, <2>4
    <3> HIDE DEF m
    <3>2. b[m] = s[k + m]
      BY <1>2, <3>1
    <3> QED
      BY <1>2, <2>1, <2>4, <3>1, <3>2
  <2> QED
    BY <2>3, <2>4
<1> QED
  BY <1>1, <1>3, <1>4

\* So only that question goes, and no two of the others become the same.
LEMMA OneGoes ==
  ASSUME NEW S, NEW s \in Seq(S), NEW k \in DOMAIN s
  PROVE  /\ \A j \in DOMAIN s \ {k} : \E i \in DOMAIN RemoveAt(s, k) : RemoveAt(s, k)[i] = s[j]
         /\ \A i \in DOMAIN RemoveAt(s, k) : \E j \in DOMAIN s \ {k} : RemoveAt(s, k)[i] = s[j]
         /\ \A i, j \in DOMAIN RemoveAt(s, k) : i # j =>
              \E m, n \in DOMAIN s : /\ m # n
                                     /\ RemoveAt(s, k)[i] = s[m] /\ RemoveAt(s, k)[j] = s[n]
<1> DEFINE r == RemoveAt(s, k)
           At(i) == IF i < k THEN i ELSE i + 1
<1>1. /\ r \in Seq(S) /\ Len(r) = Len(s) - 1
      /\ \A i \in DOMAIN r : At(i) \in DOMAIN s /\ r[i] = s[At(i)]
  BY OthersStay
<1>2. /\ Len(s) \in Nat /\ DOMAIN s = 1 .. Len(s) /\ k \in 1 .. Len(s)
      /\ DOMAIN r = 1 .. Len(s) - 1
  BY <1>1
<1> HIDE DEF r
<1>3. \A i \in DOMAIN r : At(i) # k
  BY <1>2
<1>4. \A i, j \in DOMAIN r : i # j => At(i) # At(j)
  BY <1>2
<1>5. ASSUME NEW j \in DOMAIN s \ {k} PROVE \E i \in DOMAIN r : r[i] = s[j]
  <2> DEFINE i == IF j < k THEN j ELSE j - 1
  <2>1. i \in DOMAIN r /\ At(i) = j
    BY <1>2
  <2> QED
    BY <1>1, <2>1
<1> HIDE DEF At
<1> QED
  BY <1>1, <1>3, <1>4, <1>5 DEF r

\* What is parsed of a question, or of a service that is discovered
LEMMA ParsedIs ==
  /\ \A q \in Queries : Parsed(q.name, q.type, q.unicast) \in ParsedQuestions
  /\ \A s \in Table : \A u \in BOOLEAN :
       Parsed(Name(Null, Services[s].type, FALSE), "SDPTR", u) \in ParsedQuestions
<1> DEFINE names == {q.name : q \in Queries} \cup {Name(Null, Services[s].type, FALSE) : s \in Table}
<1>1. \A n \in names, type \in Types \cup {"SDPTR"}, u \in BOOLEAN : Parsed(n, type, u) \in ParsedQuestions
  BY DEF Parsed, ParsedQuestions
<1>2. \A q \in Queries : q.type \in Types /\ q.unicast \in BOOLEAN
  BY AnswersAssumption
<1>3. /\ \A q \in Queries : q.name \in names
      /\ \A s \in Table : Name(Null, Services[s].type, FALSE) \in names
  OBVIOUS
<1> HIDE DEF names
<1> QED
  BY <1>1, <1>2, <1>3

\* The questions that stem from one of a set
StemFrom(Q) == {x \in ParsedQuestions : \E q \in Q : Stems(x, q)}

\* The invariant in terms of that set
LEMMA QuestionsStem ==
  AnswersInv <=> /\ questions \in Seq(ParsedQuestions) /\ asked \subseteq Queries
                 /\ \A i \in DOMAIN questions : questions[i] \in StemFrom(asked)
                 /\ Sound
<1>1. \A i \in DOMAIN questions : questions \in Seq(ParsedQuestions) => questions[i] \in ParsedQuestions
  OBVIOUS
<1> QED
  BY <1>1 DEF AnswersInv, StemFrom

\* What is parsed of a question goes in front of the others.
LEMMA InFront ==
  ASSUME AnswersInv, NEW q \in Queries, NEW t \in Seq(ParsedQuestions),
         \A i \in DOMAIN t : Stems(t[i], q)
  PROVE  /\ t \o questions \in Seq(ParsedQuestions)
         /\ \A i \in DOMAIN (t \o questions) : \E p \in asked \cup {q} : Stems((t \o questions)[i], p)
<1>1. questions \in Seq(ParsedQuestions)
  BY DEF AnswersInv
<1>2. \A i \in DOMAIN questions : questions[i] \in StemFrom(asked \cup {q})
  BY QuestionsStem DEF StemFrom
<1>3. \A i \in DOMAIN t : t[i] \in StemFrom(asked \cup {q})
  BY DEF StemFrom
<1>4. /\ t \o questions \in Seq(ParsedQuestions)
      /\ \A i \in DOMAIN (t \o questions) : (t \o questions)[i] \in StemFrom(asked \cup {q})
  BY <1>1, <1>2, <1>3, Concatenation
<1> QED
  BY <1>4 DEF StemFrom

\* What is sent stays sent, and more may be asked.
LEMMA SoundStays ==
  ASSUME Sound, UNCHANGED reply, asked \subseteq asked'
  PROVE  Sound'
<1>1. Sent' = Sent
  BY DEF Sent
<1>2. \A q, a : LeadsTo(q, a)' <=> LeadsTo(q, a)
  BY DEF LeadsTo
<1> QED
  BY <1>1, <1>2 DEF Sound

\* A question for the discovery of the services stands for one per service.
LEMMA Discovered ==
  ASSUME NEW q \in Queries, IsDiscovery(q.name, q.type)
  PROVE  LET t == Reverse([s \in Table |-> Parsed(Name(Null, Services[s].type, FALSE), "SDPTR", q.unicast)]) IN
         t \in Seq(ParsedQuestions) /\ \A i \in DOMAIN t : Stems(t[i], q)
<1> DEFINE f == [s \in Table |-> Parsed(Name(Null, Services[s].type, FALSE), "SDPTR", q.unicast)]
           N == Len(Services)
           P == {x \in ParsedQuestions : Stems(x, q)}
<1>1. N \in Nat /\ Table = 1 .. N
  BY TableIs
<1>2. \A s \in Table : f[s] \in P
  <2>1. ASSUME NEW s \in Table PROVE f[s] \in ParsedQuestions
    <3>1. f[s] = Parsed(Name(Null, Services[s].type, FALSE), "SDPTR", q.unicast)
      BY <2>1
    <3>2. q.unicast \in BOOLEAN
      BY AnswersAssumption
    <3> HIDE DEF f
    <3> QED
      BY <3>1, <3>2, ParsedIs
  <2>2. \A s \in Table : Stems(f[s], q)
    BY DEF Stems, Parsed
  <2> QED
    BY <2>1, <2>2
<1> HIDE DEF P
<1>3. f \in [1 .. N -> P]
  BY <1>1, <1>2
<1> HIDE DEF f, N
<1>4. f \in Seq(P) /\ Len(f) = N
  BY <1>1, <1>3
<1>5. Reverse(f) \in Seq(P)
  BY <1>1, <1>3, <1>4 DEF Reverse
<1>6. \A i \in DOMAIN Reverse(f) : Reverse(f)[i] \in P
  BY <1>5
<1>7. P \subseteq ParsedQuestions /\ \A x \in P : Stems(x, q)
  BY DEF P
<1>8. Reverse(f) \in Seq(ParsedQuestions) /\ \A i \in DOMAIN Reverse(f) : Stems(Reverse(f)[i], q)
  BY <1>5, <1>6, <1>7
<1> QED
  BY <1>8 DEF f

\* A question that is read
LEMMA QuestionKeeps == ASSUME AnswersInv, NEW q \in Queries, Question(q) PROVE AnswersInv'
<1>1. asked' = asked \cup {q} /\ UNCHANGED reply
  BY DEF Question
<1>2. asked' \subseteq Queries /\ Sound'
  BY <1>1, SoundStays DEF AnswersInv
<1>3. ASSUME NEW t \in Seq(ParsedQuestions), \A i \in DOMAIN t : Stems(t[i], q), questions' = t \o questions
      PROVE  /\ questions' \in Seq(ParsedQuestions)
             /\ \A i \in DOMAIN questions' : \E p \in asked' : Stems(questions'[i], p)
  BY <1>1, <1>3, InFront
<1>4. /\ questions' \in Seq(ParsedQuestions)
      /\ \A i \in DOMAIN questions' : \E p \in asked' : Stems(questions'[i], p)
  <2>1. CASE IsDiscovery(q.name, q.type)
    <3>1. questions' = Reverse([s \in Table |-> Parsed(Name(Null, Services[s].type, FALSE), "SDPTR", q.unicast)])
                         \o questions
      BY <2>1 DEF Question, Discover
    <3> QED
      BY <1>3, <2>1, <3>1, Discovered
  <2>2. CASE ~IsDiscovery(q.name, q.type) /\ IsOurs(q.name)
    <3> DEFINE x == Parsed(q.name, q.type, q.unicast)
    <3>1. questions' = <<x>> \o questions
      BY <2>2 DEF Question
    <3>2. x \in ParsedQuestions
      BY ParsedIs
    <3>3. x.name = q.name /\ x.type = q.type
      BY DEF Parsed
    <3>4. Stems(x, q)
      BY <2>2, <3>3 DEF Stems
    <3> HIDE DEF x
    <3>5. <<x>> \in Seq(ParsedQuestions) /\ \A i \in DOMAIN <<x>> : <<x>>[i] = x
      BY <3>2
    <3> QED
      BY <1>3, <3>1, <3>4, <3>5
  <2>3. CASE ~IsDiscovery(q.name, q.type) /\ ~IsOurs(q.name)
    BY <1>1, <2>3 DEF Question, AnswersInv
  <2> QED
    BY <2>1, <2>2, <2>3
<1>5. \A x, p : Stems(x, p)' <=> Stems(x, p)
  BY DEF Stems
<1> QED
  BY <1>2, <1>4, <1>5 DEF AnswersInv

\* What a known answer strikes off
LEMMA StrikesOne ==
  ASSUME NEW type, NEW s, questions \in Seq(ParsedQuestions), RemoveParsedQuestion(type, s)
  PROVE  \/ UNCHANGED questions /\ \A j \in DOMAIN questions : ~QuestionMatches(questions[j], type, s)
         \/ \E k \in DOMAIN questions : /\ questions' = RemoveAt(questions, k)
                                        /\ QuestionMatches(questions[k], type, s)
<1> DEFINE all == {j \in DOMAIN questions : QuestionMatches(questions[j], type, s)}
<1>1. questions' = IF FirstOf(all) = 0 THEN questions ELSE RemoveAt(questions, FirstOf(all))
  BY DEF RemoveParsedQuestion
<1>2. all \subseteq Nat /\ 0 \notin all
  OBVIOUS
<1>3. all # {} => FirstOf(all) \in all /\ FirstOf(all) # 0
  BY <1>2, FirstIs
<1>4. all = {} => FirstOf(all) = 0
  BY DEF FirstOf
<1> QED
  BY <1>1, <1>3, <1>4

\* A known answer
LEMMA KnownAnswerKeeps == ASSUME AnswersInv, NEW r, KnownAnswer(r) PROVE AnswersInv'
<1>1. UNCHANGED <<asked, reply>>
  BY DEF KnownAnswer
<1>2. questions' = questions \/ \E k \in DOMAIN questions : questions' = RemoveAt(questions, k)
  <2>1. questions \in Seq(ParsedQuestions)
    BY DEF AnswersInv
  <2> QED
    BY <2>1, StrikesOne DEF KnownAnswer, Strikes
<1>3. Sound'
  BY <1>1, SoundStays DEF AnswersInv
<1>4. /\ questions' \in Seq(ParsedQuestions)
      /\ \A i \in DOMAIN questions' : \E j \in DOMAIN questions : questions'[i] = questions[j]
  <2>1. questions \in Seq(ParsedQuestions)
    BY DEF AnswersInv
  <2> QED
    BY <1>2, <2>1, OthersStay, OneGoes
<1>5. \A x, p : Stems(x, p)' <=> Stems(x, p)
  BY DEF Stems
<1> QED
  BY <1>1, <1>3, <1>4, <1>5 DEF AnswersInv

\* The reply
LEMMA ReplyKeeps == ASSUME AnswersInv, Reply PROVE AnswersInv'
<1>1. UNCHANGED <<questions, asked>>
  BY DEF Reply
<1>2. ASSUME NEW a \in Sent', a.service # 0 \/ a.host # Null PROVE \E q \in asked : LeadsTo(q, a)
  <2> DEFINE all == {FromQuestion(questions[i]) : i \in DOMAIN questions}
  <2>1. \/ reply' = NoReply
        \/ /\ reply'.answers = UNION {e.answers : e \in all}
           /\ reply'.additional = UNION {e.additional : e \in all}
    BY DEF Reply
  <2>2. reply' # NoReply
    BY <1>2 DEF Sent, NoReply
  <2>3. PICK i \in DOMAIN questions :
          a \in FromQuestion(questions[i]).answers \cup FromQuestion(questions[i]).additional
    BY <1>2, <2>1, <2>2 DEF Sent
  <2>4. PICK q \in asked : Stems(questions[i], q)
    BY DEF AnswersInv
  <2>5. q.type \in Types
    BY AnswersAssumption DEF AnswersInv
  <2> QED
    BY <1>2, <2>3, <2>4, <2>5, QuestionLeads
<1>3. \A q, a : LeadsTo(q, a)' <=> LeadsTo(q, a)
  BY DEF LeadsTo
<1>4. Sound'
  BY <1>1, <1>2, <1>3 DEF Sound
<1>5. \A x, p : Stems(x, p)' <=> Stems(x, p)
  BY DEF Stems
<1> QED
  BY <1>1, <1>4, <1>5 DEF AnswersInv

\* What is parsed stems from the questions of the packet: _mdns_name_is_ours
\* takes nothing else in, and what is struck off only makes it less.
THEOREM AnswersInductive == AnswersSpec => []AnswersInv
<1>1. AnswersInit => AnswersInv
  BY DEF AnswersInit, AnswersInv, Sound, Sent, NoReply
<1>2. AnswersInv /\ [AnswersNext]_answersVars => AnswersInv'
  <2> SUFFICES ASSUME AnswersInv, [AnswersNext]_answersVars PROVE AnswersInv'
    OBVIOUS
  <2>1. \A x, p : Stems(x, p)' <=> Stems(x, p)
    BY DEF Stems
  <2>2. ASSUME UNCHANGED <<questions, asked, reply>> PROVE AnswersInv'
    BY <2>1, <2>2, SoundStays DEF AnswersInv
  <2>3. CASE \E q \in Queries : Question(q)
    BY <2>3, QuestionKeeps
  <2>4. CASE Records
    BY <2>2, <2>4 DEF Records
  <2>5. CASE \E r \in OurRecords : KnownAnswer(r)
    BY <2>5, KnownAnswerKeeps
  <2>6. CASE Reply
    BY <2>6, ReplyKeeps
  <2>7. CASE NextPacket
    BY <2>7 DEF NextPacket, AnswersInv, Sound, Sent, NoReply
  <2>8. CASE UNCHANGED answersVars
    BY <2>2, <2>8 DEF answersVars
  <2> QED
    BY <2>3, <2>4, <2>5, <2>6, <2>7, <2>8 DEF AnswersNext
<1> QED
  BY <1>1, <1>2, PTL DEF AnswersSpec

\* Nobody is told of a service or a host that no question of his leads to
\* (_mdns_create_answer_from_parsed_packet).
THEOREM NothingElseSent == AnswersSpec => []Sound
<1>1. AnswersInv => Sound
  BY DEF AnswersInv
<1> QED
  BY <1>1, AnswersInductive, PTL

-----------------------------------------------------------------------------
(* Answers: all that is asked for, and nothing to one who knows it.          *)

\* The one service of a type is found, by its type and by its name.
LEMMA OneFound ==
  ASSUME OneOfAType, NEW s \in Table
  PROVE  /\ s # 0 /\ ServiceItem(Services[s].type) = s
         /\ \A h \in {Null, Services[s].instance} : ServiceItemInstance(h, Services[s].type) = s
<1>1. s \in Nat /\ s # 0
  BY TableIs
<1>2. FirstOf({s}) = s
  <2>1. FirstOf({s}) \in {s}
    BY <1>1, FirstIs
  <2> QED
    BY <2>1
<1>3. {t \in Table : Services[t].type = Services[s].type} = {s}
  BY DEF OneOfAType
<1>4. {t \in Table : Services[t].type = Services[s].type /\ Services[t].instance = Services[s].instance} = {s}
  BY DEF OneOfAType
<1>5. ServiceItem(Services[s].type) = s
  BY <1>2, <1>3 DEF ServiceItem
<1>6. ServiceItemInstance(Null, Services[s].type) = s
  BY <1>5 DEF ServiceItemInstance
<1>7. ServiceItemInstance(Services[s].instance, Services[s].type) = s
  BY <1>2, <1>4, <1>5 DEF ServiceItemInstance
<1> QED
  BY <1>1, <1>5, <1>6, <1>7

\* Then there is one host.
LEMMA OneHost == ASSUME OneOfAType PROVE Hosts = {Self}
<1>1. ToSet(<<>>) = {}
  BY DEF ToSet
<1> QED
  BY <1>1 DEF OneOfAType, Hosts

\* What records, names and answers are made of
LEMMA FieldsAre ==
  /\ \A n, type, d : /\ Record(n, type, d).name = n
                     /\ Record(n, type, d).type = type
                     /\ Record(n, type, d).data = d
  /\ \A h, type, sub : /\ Name(h, type, sub).host = h
                       /\ Name(h, type, sub).type = type
                       /\ Name(h, type, sub).sub = sub
  /\ \A type, s, h : /\ OutAnswer(type, s, h).type = type
                     /\ OutAnswer(type, s, h).service = s
                     /\ OutAnswer(type, s, h).host = h
BY DEF Record, Name, OutAnswer

\* No service is called like the discovery.
LEMMA DiscoveryNotOurs ==
  /\ \A s \in Table : Services[s].type # Null /\ Services[s].type # DiscoveryName.type
  /\ ~IsOurs(DiscoveryName)
<1>1. \A s \in Table : Services[s].type # Null /\ Services[s].type # DiscoveryName.type
  BY AnswersAssumption
<1>2. SUFFICES ASSUME IsOurs(DiscoveryName) PROVE FALSE
  BY <1>1
<1>3. DiscoveryName.type # Null /\ ~DiscoveryName.sub
  BY AnswersAssumption DEF DiscoveryName, Name
<1>4. ServiceItemInstance(DiscoveryName.host, DiscoveryName.type) # 0
  BY <1>2, <1>3 DEF IsOurs
<1> QED
  BY <1>1, <1>4, InstanceFound

\* The known answer for each of our answers
LEMMA SaysOf ==
  ASSUME NEW a
  PROVE  LET type == Services[a.service].type
             instance == Name(Services[a.service].instance, type, FALSE) IN
         /\ a.type = "PTR" => Says(a) = Record(Name(Null, type, FALSE), "PTR", instance)
         /\ a.type = "SDPTR" => Says(a) = Record(DiscoveryName, "PTR", Name(Null, type, FALSE))
         /\ a.type \in {"SRV", "TXT"} => Says(a) = Record(instance, a.type, Null)
         /\ a.type \in {"A", "AAAA"} => Says(a) = Record(Name(a.host, Null, FALSE), a.type, Null)
<1>1. CASE a.type = "PTR"
  BY <1>1 DEF Says
<1>2. CASE a.type = "SDPTR"
  BY <1>2 DEF Says
<1>3. CASE a.type \in {"SRV", "TXT"}
  BY <1>3 DEF Says
<1>4. CASE a.type \in {"A", "AAAA"}
  BY <1>4 DEF Says
<1> QED
  BY <1>1, <1>2, <1>3, <1>4

LEMMA SaysIs ==
  ASSUME NEW s, NEW h
  PROVE  /\ Says(OutAnswer("PTR", s, h)) =
              Record(Name(Null, Services[s].type, FALSE), "PTR",
                     Name(Services[s].instance, Services[s].type, FALSE))
         /\ Says(OutAnswer("SDPTR", s, h)) =
              Record(DiscoveryName, "PTR", Name(Null, Services[s].type, FALSE))
         /\ \A t \in {"SRV", "TXT"} :
              Says(OutAnswer(t, s, h)) =
                Record(Name(Services[s].instance, Services[s].type, FALSE), t, Null)
         /\ \A t \in {"A", "AAAA"} : Says(OutAnswer(t, s, h)) = Record(Name(h, Null, FALSE), t, Null)
<1>1. \A t : /\ OutAnswer(t, s, h).type = t
             /\ OutAnswer(t, s, h).service = s
             /\ OutAnswer(t, s, h).host = h
  BY FieldsAre
<1> QED
  BY <1>1, SaysOf

\* Type and name of those
LEMMA SaysFields ==
  ASSUME NEW s, NEW h, NEW type
  PROVE  LET k == Says(OutAnswer(type, s, h)) IN
         /\ type \in {"PTR", "SRV", "TXT"} => k.type = type /\ k.name.type = Services[s].type
         /\ type \in {"SRV", "TXT"} => k.name.host = Services[s].instance
         /\ type = "SDPTR" => k.type = "PTR" /\ k.name = DiscoveryName
         /\ type \in {"A", "AAAA"} => k.type = type /\ k.name.type = Null
<1> DEFINE k == Says(OutAnswer(type, s, h))
<1>1. CASE type = "PTR"
  <2>1. k = Record(Name(Null, Services[s].type, FALSE), "PTR",
                   Name(Services[s].instance, Services[s].type, FALSE))
    BY <1>1, SaysIs
  <2> HIDE DEF k
  <2>2. k.type = "PTR" /\ k.name = Name(Null, Services[s].type, FALSE)
    BY <2>1 DEF Record
  <2>3. k.name.type = Services[s].type
    BY <2>2 DEF Name
  <2> QED
    BY <1>1, <2>2, <2>3 DEF k
<1>2. CASE type \in {"SRV", "TXT"}
  <2>1. k = Record(Name(Services[s].instance, Services[s].type, FALSE), type, Null)
    BY <1>2, SaysIs
  <2> HIDE DEF k
  <2>2. k.type = type /\ k.name = Name(Services[s].instance, Services[s].type, FALSE)
    BY <2>1 DEF Record
  <2>3. k.name.type = Services[s].type /\ k.name.host = Services[s].instance
    BY <2>2 DEF Name
  <2> QED
    BY <1>2, <2>2, <2>3 DEF k
<1>3. CASE type = "SDPTR"
  <2>1. k = Record(DiscoveryName, "PTR", Name(Null, Services[s].type, FALSE))
    BY <1>3, SaysIs
  <2> HIDE DEF k
  <2>2. k.type = "PTR" /\ k.name = DiscoveryName
    BY <2>1 DEF Record
  <2> QED
    BY <1>3, <2>2 DEF k
<1>4. CASE type \in {"A", "AAAA"}
  <2>1. k = Record(Name(h, Null, FALSE), type, Null)
    BY <1>4, SaysIs
  <2> HIDE DEF k
  <2>2. k.type = type /\ k.name = Name(h, Null, FALSE)
    BY <2>1 DEF Record
  <2>3. k.name.type = Null
    BY <2>2 DEF Name
  <2> QED
    BY <1>4, <2>2, <2>3 DEF k
<1> QED
  BY <1>1, <1>2, <1>3, <1>4

\* A record that an asker may know is about the discovery of a service, about a
\* service itself, or about a host.
LEMMA OurRecord ==
  ASSUME NEW r \in OurRecords
  PROVE  \/ \E s \in Table : r = Record(DiscoveryName, "PTR", Name(Null, Services[s].type, FALSE))
         \/ \E s \in Table : r = Record(Name(Null, Services[s].type, FALSE), "PTR",
                                        Name(Services[s].instance, Services[s].type, FALSE))
         \/ \E s \in Table, t \in {"SRV", "TXT"} :
              r = Record(Name(Services[s].instance, Services[s].type, FALSE), t, Null)
         \/ \E h \in Hosts, t \in {"A", "AAAA"} : r = Record(Name(h, Null, FALSE), t, Null)
<1> DEFINE ptr(s) == Record(Name(Null, Services[s].type, FALSE), "PTR",
                            Name(Services[s].instance, Services[s].type, FALSE))
           sdptr(s) == Record(DiscoveryName, "PTR", Name(Null, Services[s].type, FALSE))
           of(s, t) == Record(Name(Services[s].instance, Services[s].type, FALSE), t, Null)
           addr(h, t) == Record(Name(h, Null, FALSE), t, Null)
<1> DEFINE about(s) == {ptr(s), sdptr(s), of(s, "SRV"), of(s, "TXT")}
<1>1. OurRecords = (UNION {about(s) : s \in Table})
                     \cup {addr(h, t) : h \in Hosts, t \in {"A", "AAAA"}}
  BY DEF OurRecords
<1> HIDE DEF ptr, sdptr, of, addr, about
<1>2. \/ \E s \in Table : r \in about(s)
      \/ r \in {addr(h, t) : h \in Hosts, t \in {"A", "AAAA"}}
  BY <1>1
<1>3. \/ \E s \in Table : r = sdptr(s)
      \/ \E s \in Table : r = ptr(s)
      \/ \E s \in Table, t \in {"SRV", "TXT"} : r = of(s, t)
      \/ \E h \in Hosts, t \in {"A", "AAAA"} : r = addr(h, t)
  BY <1>2 DEF about
<1> QED
  BY <1>3, Zenon DEF ptr, sdptr, of, addr

\* What the name and the type of such a record say of it
LEMMA RecordTells ==
  ASSUME NEW r \in OurRecords
  PROVE  /\ r.type \in {"PTR", "SRV", "TXT", "A", "AAAA"}
         /\ r.name = DiscoveryName =>
              \E s \in Table : /\ r = Record(DiscoveryName, "PTR", Name(Null, Services[s].type, FALSE))
                               /\ r.data.type = Services[s].type
         /\ r.name # DiscoveryName /\ r.type \in {"PTR", "SRV", "TXT"} =>
              \E s \in Table : /\ r = Says(OutAnswer(r.type, s, Null))
                               /\ r.name.type = Services[s].type
         /\ r.type \in {"A", "AAAA"} =>
              \E h \in Hosts : r = Record(Name(h, Null, FALSE), r.type, Null)
<1>1. CASE \E s \in Table : r = Record(DiscoveryName, "PTR", Name(Null, Services[s].type, FALSE))
  <2>1. PICK s \in Table : r = Record(DiscoveryName, "PTR", Name(Null, Services[s].type, FALSE))
    BY <1>1
  <2>2. r.type = "PTR" /\ r.name = DiscoveryName /\ r.data = Name(Null, Services[s].type, FALSE)
    BY <2>1 DEF Record
  <2>3. r.data.type = Services[s].type
    BY <2>2 DEF Name
  <2> QED
    BY <2>1, <2>2, <2>3
<1>2. CASE \E s \in Table : r = Record(Name(Null, Services[s].type, FALSE), "PTR",
                                       Name(Services[s].instance, Services[s].type, FALSE))
  <2>1. PICK s \in Table : r = Record(Name(Null, Services[s].type, FALSE), "PTR",
                                      Name(Services[s].instance, Services[s].type, FALSE))
    BY <1>2
  <2>2. r.type = "PTR" /\ r.name = Name(Null, Services[s].type, FALSE)
    BY <2>1 DEF Record
  <2>3. r.name.type = Services[s].type
    BY <2>2 DEF Name
  <2>4. r.name # DiscoveryName
    BY <2>3, DiscoveryNotOurs
  <2>5. r = Says(OutAnswer(r.type, s, Null))
    BY <2>1, <2>2, SaysIs
  <2> QED
    BY <2>2, <2>3, <2>4, <2>5
<1>3. CASE \E s \in Table, t \in {"SRV", "TXT"} :
             r = Record(Name(Services[s].instance, Services[s].type, FALSE), t, Null)
  <2>1. PICK s \in Table, t \in {"SRV", "TXT"} :
          r = Record(Name(Services[s].instance, Services[s].type, FALSE), t, Null)
    BY <1>3
  <2>2. r.type = t /\ r.name = Name(Services[s].instance, Services[s].type, FALSE)
    BY <2>1 DEF Record
  <2>3. r.name.type = Services[s].type
    BY <2>2 DEF Name
  <2>4. r.name # DiscoveryName
    BY <2>3, DiscoveryNotOurs
  <2>5. r = Says(OutAnswer(r.type, s, Null))
    BY <2>1, <2>2, SaysIs
  <2> QED
    BY <2>2, <2>3, <2>4, <2>5
<1>4. CASE \E h \in Hosts, t \in {"A", "AAAA"} : r = Record(Name(h, Null, FALSE), t, Null)
  <2>1. PICK h \in Hosts, t \in {"A", "AAAA"} : r = Record(Name(h, Null, FALSE), t, Null)
    BY <1>4
  <2>2. r.type = t /\ r.name = Name(h, Null, FALSE)
    BY <2>1 DEF Record
  <2>3. r.name # DiscoveryName
    <3>1. r.name.type = Null
      BY <2>2 DEF Name
    <3> QED
      BY <3>1, AnswersAssumption
  <2> QED
    BY <2>1, <2>2, <2>3
<1> QED
  BY <1>1, <1>2, <1>3, <1>4, OurRecord

\* The type and the service that a known answer is looked for with
StruckBy(x, r) ==
  IF discovery /\ IsDiscovery(r.name, r.type)
    THEN QuestionMatches(x, "SDPTR", ServiceItem(r.data.type))
  ELSE IsOurs(r.name) /\ QuestionMatches(x, r.type, ServiceItem(r.name.type))

LEMMA KnownStrikes ==
  ASSUME questions \in Seq(ParsedQuestions), NEW r, KnownAnswer(r)
  PROVE  \/ UNCHANGED questions
         \/ \E k \in DOMAIN questions : questions' = RemoveAt(questions, k) /\ StruckBy(questions[k], r)
<1>1. CASE UNCHANGED questions
  BY <1>1
<1>2. CASE ~UNCHANGED questions /\ discovery /\ IsDiscovery(r.name, r.type)
  <2>1. RemoveParsedQuestion("SDPTR", ServiceItem(r.data.type))
    BY <1>2 DEF KnownAnswer, Strikes
  <2> QED
    BY <1>2, <2>1, StrikesOne DEF StruckBy
<1>3. CASE ~UNCHANGED questions /\ ~(discovery /\ IsDiscovery(r.name, r.type))
  <2>1. IsOurs(r.name) /\ RemoveParsedQuestion(r.type, ServiceItem(r.name.type))
    BY <1>3 DEF KnownAnswer, Strikes
  <2> QED
    BY <1>3, <2>1, StrikesOne DEF StruckBy
<1> QED
  BY <1>1, <1>2, <1>3

\* The first service of a type is of that type.
LEMMA TypeFound ==
  ASSUME NEW s \in Table
  PROVE  /\ ServiceItem(Services[s].type) \in Table
         /\ Services[ServiceItem(Services[s].type)].type = Services[s].type
<1> DEFINE all == {t \in Table : Services[t].type = Services[s].type}
<1>1. all \in SUBSET Nat /\ all # {}
  BY TableIs
<1>2. ServiceItem(Services[s].type) = FirstOf(all)
  BY DEF ServiceItem
<1>3. FirstOf(all) \in all
  <2> HIDE DEF all
  <2> QED
    BY <1>1, FirstIs
<1> QED
  BY <1>2, <1>3

\* What can be asked for: the discovery of a service, an address, a service
LEMMA AskedIs ==
  ASSUME NEW q \in Queries, NEW a \in Asked(q)
  PROVE  LET n == q.name IN
         \/ /\ IsDiscovery(n, q.type)
            /\ \E s \in Table : a = OutAnswer("SDPTR", s, Null)
         \/ /\ ~IsDiscovery(n, q.type) /\ n.type = Null
            /\ \E type \in {"A", "AAAA"} :
                 a = OutAnswer(type, 0, n.host) /\ (q.type # "ANY" => type = q.type)
         \/ /\ ~IsDiscovery(n, q.type) /\ n.type # Null
            /\ \E type \in {"PTR", "SRV", "TXT"}, s \in Table :
                 /\ a = OutAnswer(type, s, Null) /\ (q.type # "ANY" => type = q.type)
                 /\ Services[s].type = n.type
                 /\ IF n.sub THEN n.host \in Services[s].subtypes
                    ELSE n.host \in {Null, Services[s].instance}
<1> DEFINE n == q.name
<1>1. CASE IsDiscovery(n, q.type)
  BY <1>1 DEF Asked
<1>2. CASE ~IsDiscovery(n, q.type) /\ n.type = Null
  <2>1. PICK type \in {"A", "AAAA"} \cap (IF q.type = "ANY" THEN Types ELSE {q.type}) :
          a = OutAnswer(type, 0, n.host)
    BY <1>2 DEF Asked
  <2> QED
    BY <1>2, <2>1
<1>3. CASE ~IsDiscovery(n, q.type) /\ n.type # Null
  <2>1. PICK s \in Table :
          /\ Services[s].type = n.type
          /\ IF n.sub THEN n.host \in Services[s].subtypes ELSE n.host \in {Null, Services[s].instance}
          /\ \E type \in {"PTR", "SRV", "TXT"} \cap (IF q.type = "ANY" THEN Types ELSE {q.type}) :
               a = OutAnswer(type, s, Null)
    BY <1>3 DEF Asked
  <2>2. PICK type \in {"PTR", "SRV", "TXT"} \cap (IF q.type = "ANY" THEN Types ELSE {q.type}) :
          a = OutAnswer(type, s, Null)
    BY <2>1
  <2> QED
    BY <1>3, <2>1, <2>2
<1> QED
  BY <1>1, <1>2, <1>3

\* A service that a question names is asked for.
LEMMA AskedAbout ==
  ASSUME NEW q, ~IsDiscovery(q.name, q.type), q.name.type # Null, ~q.name.sub,
         q.type \in {"SRV", "TXT"},
         NEW f \in Table, Services[f].type = q.name.type, q.name.host \in {Null, Services[f].instance}
  PROVE  OutAnswer(q.type, f, Null) \in Asked(q)
<1> DEFINE types == {"PTR", "SRV", "TXT"} \cap (IF q.type = "ANY" THEN Types ELSE {q.type})
           ss == {s \in Table :
                    /\ Services[s].type = q.name.type
                    /\ IF q.name.sub THEN q.name.host \in Services[s].subtypes
                       ELSE q.name.host \in {Null, Services[s].instance}}
           all == {OutAnswer(type, s, Null) : s \in ss, type \in types}
<1>1. q.type \in types /\ f \in ss
  OBVIOUS
<1>2. OutAnswer(q.type, f, Null) \in all
  <2> HIDE DEF types, ss
  <2> QED
    BY <1>1
<1>3. Asked(q) = all
  BY DEF Asked
<1> QED
  BY <1>2, <1>3

\* A question for SRV or TXT that names an instance of ours asks about it.
LEMMA InstanceAsked ==
  ASSUME InstancesAsked, OneAnswers, NEW q \in Queries, q.type \in {"SRV", "TXT"},
         NEW f \in Table, Services[f].type = q.name.type, q.name.host \in {Null, Services[f].instance},
         NEW a \in Asked(q)
  PROVE  a = OutAnswer(q.type, f, Null)
<1>1. q.name.type # Null /\ ~q.name.sub
  BY DEF InstancesAsked
<1>2. ~IsDiscovery(q.name, q.type)
  BY DEF IsDiscovery
<1>3. OutAnswer(q.type, f, Null) \in Asked(q)
  BY <1>1, <1>2, AskedAbout
<1> QED
  BY <1>3 DEF OneAnswers

\* What is struck off is of the same kind as the known answer.
LEMMA StruckMay ==
  ASSUME InstancesAsked, OneAnswers, NEW r \in OurRecords, NEW x, StruckBy(x, r),
         NEW q \in Queries, NEW a \in Asked(q), Remembers(x, q, a)
  PROVE  q.type # "ANY" /\ MayStrike(r, a)
<1> DEFINE n == q.name
<1>1. q.type \in Types /\ q.type # "SDPTR"
  BY AnswersAssumption DEF Types
<1>2. r.type \in {"PTR", "SRV", "TXT", "A", "AAAA"}
  BY RecordTells
<1>3. CASE IsDiscovery(q.name, q.type)
  <2>1. PICK t \in Table : a = OutAnswer("SDPTR", t, Null)
    BY <1>3 DEF Asked
  <2>2. x.type = "SDPTR" /\ x.name.type = Services[t].type
    <3>1. a.service = t
      BY <2>1, FieldsAre
    <3>2. x.type = "SDPTR" /\ x.name = Name(Null, Services[t].type, FALSE)
      BY <1>3, <3>1 DEF Remembers
    <3> QED
      BY <3>2 DEF Name
  <2>3. IsDiscovery(r.name, r.type) /\ Services[ServiceItem(r.data.type)].type = Services[t].type
    BY <1>2, <2>2 DEF StruckBy, QuestionMatches
  <2>4. PICK s \in Table : /\ r = Record(DiscoveryName, "PTR", Name(Null, Services[s].type, FALSE))
                           /\ r.data.type = Services[s].type
    BY <2>3, RecordTells DEF IsDiscovery
  <2>5. Services[s].type = Services[t].type
    BY <2>3, <2>4, TypeFound
  <2>6. r = Says(a)
    BY <2>1, <2>4, <2>5, SaysIs
  <2>7. q.type = "PTR" /\ r.type = "PTR"
    BY <1>3, <2>3 DEF IsDiscovery
  <2> QED
    BY <2>6, <2>7 DEF MayStrike
<1>4. CASE ~IsDiscovery(q.name, q.type)
  <2>1. x.name = n /\ x.type = q.type
    BY <1>4 DEF Remembers
  <2>2. ~(discovery /\ IsDiscovery(r.name, r.type))
    BY <1>1, <2>1 DEF StruckBy, QuestionMatches
  <2>3. IsOurs(r.name) /\ QuestionMatches(x, r.type, ServiceItem(r.name.type)) /\ q.type = r.type
    BY <2>1, <2>2 DEF StruckBy, QuestionMatches
  <2>4. r.name # DiscoveryName
    BY <2>3, DiscoveryNotOurs
  <2>5. q.type # "ANY"
    BY <1>2, <2>3
  <2>6. CASE r.type \in {"PTR", "SRV", "TXT"}
    <3> DEFINE f == ServiceItem(r.name.type)
    <3>1. PICK s \in Table : r = Says(OutAnswer(r.type, s, Null)) /\ r.name.type = Services[s].type
      BY <2>4, <2>6, RecordTells
    <3>2. f \in Table /\ Services[f].type = r.name.type
      BY <3>1, TypeFound
    <3>3. n.type = r.name.type /\ (r.type # "PTR" => n.host = Services[f].instance)
      BY <2>1, <2>3, <2>6, <3>2 DEF QuestionMatches
    <3>4. PICK t \in Table : a = OutAnswer(r.type, t, Null) /\ Services[t].type = n.type
      <4>1. n.type # Null
        BY <3>1, <3>3, DiscoveryNotOurs
      <4> QED
        BY <1>4, <2>3, <2>5, <4>1, AskedIs
    <3>5. /\ Says(a).type = r.type /\ Says(a).name.type = n.type
          /\ r.type # "PTR" => Says(a).name.host = Services[t].instance
      BY <2>6, <3>4, SaysFields
    <3>6. r.type # "PTR" => Services[t].instance = Services[f].instance
      <4>1. SUFFICES ASSUME r.type \in {"SRV", "TXT"} PROVE t = f
        BY <2>6
      <4>2. a = OutAnswer(q.type, f, Null)
        BY <2>3, <3>2, <3>3, <4>1, InstanceAsked
      <4> HIDE DEF f
      <4>3. a.service = t
        BY <3>4 DEF OutAnswer
      <4>4. a.service = f
        BY <4>2 DEF OutAnswer
      <4> QED
        BY <4>3, <4>4
    <3> QED
      BY <2>4, <2>5, <3>3, <3>5, <3>6 DEF MayStrike
  <2>7. CASE r.type \in {"A", "AAAA"}
    <3>1. PICK h \in Hosts : r = Record(Name(h, Null, FALSE), r.type, Null)
      BY <2>7, RecordTells
    <3>2. a = OutAnswer(r.type, 0, n.host)
      BY <1>4, <2>3, <2>5, <2>7, AskedIs
    <3>3. r.name.type = Null
      <4>1. r.name = Name(h, Null, FALSE)
        <5>1. PICK type : r = Record(Name(h, Null, FALSE), type, Null)
          BY <3>1
        <5> QED
          BY <5>1 DEF Record
      <4>2. Name(h, Null, FALSE).type = Null
        BY DEF Name
      <4> QED
        BY <4>1, <4>2
    <3>4. Says(a).type = r.type /\ Says(a).name.type = Null
      BY <2>7, <3>2, SaysFields
    <3> QED
      BY <2>4, <2>5, <2>7, <3>3, <3>4 DEF MayStrike
  <2> QED
    BY <1>2, <2>6, <2>7
<1> QED
  BY <1>3, <1>4

\* What is sent about a service that a question is about
LEMMA FromServiceSends ==
  ASSUME NEW s, NEW x, NEW shared, NEW type,
         \/ x.type \in {"PTR", "ANY"} /\ type \in {"PTR", "SRV", "TXT"}
         \/ x.type \in {"SRV", "TXT", "SDPTR"} /\ type = x.type
  PROVE  OutAnswer(type, s, Null) \in
           FromService(s, x, shared).answers \cup FromService(s, x, shared).additional
<1> DEFINE own(types) == {OutAnswer(t, s, Null) : t \in types}
           host == Services[s].host
<1>1. \A types : \A t \in types : OutAnswer(t, s, Null) \in own(types)
  OBVIOUS
<1>2. \A A, B : Answers(A, B).answers = A /\ Answers(A, B).additional = B
  BY DEF Answers
<1> HIDE DEF own
<1>3. CASE x.type \in {"PTR", "ANY"}
  <2>1. FromService(s, x, shared) =
          IF shared THEN Answers(own({"PTR", "SRV", "TXT"}), Addresses(s, host))
          ELSE Answers(own({"PTR", "SRV", "TXT"}) \cup Addresses(s, host), {})
    BY <1>3 DEF FromService, own
  <2>2. OutAnswer(type, s, Null) \in own({"PTR", "SRV", "TXT"})
    BY <1>1, <1>3
  <2> QED
    BY <1>2, <2>1, <2>2
<1>4. CASE x.type = "SRV"
  <2>1. FromService(s, x, shared) = Answers(own({"SRV"}), Addresses(s, host))
    BY <1>4 DEF FromService, own
  <2> QED
    BY <1>1, <1>2, <1>4, <2>1
<1>5. CASE x.type \in {"TXT", "SDPTR"}
  <2>1. FromService(s, x, shared) = Answers(own({x.type}), {})
    BY <1>5 DEF FromService, own
  <2> QED
    BY <1>1, <1>2, <1>5, <2>1
<1> QED
  BY <1>3, <1>4, <1>5

\* A question that is still remembered is answered, but for the host that is skipped.
LEMMA RememberedSends ==
  ASSUME InstancesAsked, OneAnswers,
         NEW q \in Queries, IsOurs(q.name) \/ IsDiscovery(q.name, q.type),
         NEW a \in Asked(q), ~Skipped(q, a), NEW x, Remembers(x, q, a)
  PROVE  a \in FromQuestion(x).answers \cup FromQuestion(x).additional
<1> DEFINE n == q.name
           shared == x.type \in {"PTR", "SDPTR"} \/ ~probe
           from == {FromService(s, x, shared) : s \in {t \in Table : ServiceMatchPtrQuestion(t, x)}}
<1>1. q.type \in Types
  BY AnswersAssumption
<1>2. \A A, B : Answers(A, B).answers = A /\ Answers(A, B).additional = B
  BY DEF Answers
<1>3. ASSUME x.type \notin {"SRV", "TXT"}, x.name.type # Null,
             NEW s \in Table, ServiceMatchPtrQuestion(s, x), NEW type, a = OutAnswer(type, s, Null),
             \/ x.type \in {"PTR", "ANY"} /\ type \in {"PTR", "SRV", "TXT"}
             \/ x.type = "SDPTR" /\ type = x.type
      PROVE  a \in FromQuestion(x).answers \cup FromQuestion(x).additional
  <2>1. FromQuestion(x) = Answers(UNION {e.answers : e \in from}, UNION {e.additional : e \in from})
    BY <1>3 DEF FromQuestion
  <2>2. FromService(s, x, shared) \in from
    BY <1>3
  <2>3. a \in FromService(s, x, shared).answers \cup FromService(s, x, shared).additional
    <3> HIDE DEF shared
    <3> QED
      BY <1>3, FromServiceSends
  <2> HIDE DEF from, shared
  <2> QED
    BY <1>2, <2>1, <2>2, <2>3
<1>4. CASE IsDiscovery(q.name, q.type)
  <2>1. PICK s \in Table : a = OutAnswer("SDPTR", s, Null)
    BY <1>4 DEF Asked
  <2>2. a.service = s
    BY <2>1, FieldsAre
  <2>3. x.type = "SDPTR" /\ x.name = Name(Null, Services[s].type, FALSE)
    BY <1>4, <2>2 DEF Remembers
  <2>4. x.name.type = Services[s].type /\ x.name.host = Null /\ ~x.name.sub
    BY <2>3 DEF Name
  <2>5. ServiceMatchPtrQuestion(s, x) /\ x.name.type # Null
    BY <2>4, DiscoveryNotOurs DEF ServiceMatchPtrQuestion
  <2> QED
    BY <1>3, <2>1, <2>3, <2>5
<1>5. CASE ~IsDiscovery(q.name, q.type) /\ n.type = Null
  <2>1. x.name = n /\ x.type = q.type /\ n.host \in Hosts
    BY <1>5 DEF Remembers, IsOurs
  <2>2. PICK type \in {"A", "AAAA"} \cap (IF q.type = "ANY" THEN Types ELSE {q.type}) :
          a = OutAnswer(type, 0, n.host)
    BY <1>5 DEF Asked
  <2>3. a \in Addresses(0, n.host)
    BY <2>2 DEF Addresses
  <2>4. CASE q.type \in {"A", "AAAA"}
    <3>1. FromQuestion(x) = Answers(Addresses(0, n.host), {})
      BY <1>5, <2>1, <2>4 DEF FromQuestion
    <3> QED
      BY <1>2, <2>3, <3>1
  <2>5. CASE q.type = "ANY"
    <3>1. FromQuestion(x) = Answers(HostList, {})
      BY <1>5, <2>1, <2>5 DEF FromQuestion
    <3>2. Delegated = <<>> \/ n.host # Delegated[1]
      <4>1. a.host = n.host
        BY <2>2, FieldsAre
      <4> QED
        BY <1>5, <2>5, <4>1 DEF Skipped
    <3>3. Addresses(0, n.host) \subseteq HostList
      <4>1. CASE n.host = Self
        BY <4>1 DEF HostList
      <4>2. CASE n.host \in ToSet(Delegated)
        <5>1. DOMAIN Delegated = 1 .. Len(Delegated) /\ Len(Delegated) \in Nat
          BY AnswersAssumption
        <5>2. PICK i \in DOMAIN Delegated : n.host = Delegated[i]
          BY <4>2 DEF ToSet
        <5>3. i \in 2 .. Len(Delegated)
          BY <3>2, <5>1, <5>2
        <5> QED
          BY <5>2, <5>3 DEF HostList
      <4> QED
        BY <2>1, <4>1, <4>2 DEF Hosts
    <3> QED
      BY <1>2, <2>3, <3>1, <3>2, <3>3
  <2> QED
    BY <2>2, <2>4, <2>5
<1>6. CASE ~IsDiscovery(q.name, q.type) /\ n.type # Null
  <2>1. x.name = n /\ x.type = q.type
    BY <1>6 DEF Remembers
  <2>2. PICK s \in Table :
          /\ Services[s].type = n.type
          /\ IF n.sub THEN n.host \in Services[s].subtypes ELSE n.host \in {Null, Services[s].instance}
          /\ \E type \in {"PTR", "SRV", "TXT"} \cap (IF q.type = "ANY" THEN Types ELSE {q.type}) :
               a = OutAnswer(type, s, Null)
    BY <1>6 DEF Asked
  <2>3. PICK type \in {"PTR", "SRV", "TXT"} \cap (IF q.type = "ANY" THEN Types ELSE {q.type}) :
          a = OutAnswer(type, s, Null)
    BY <2>2
  <2>4. CASE q.type \in {"PTR", "ANY"}
    <3>1. ServiceMatchPtrQuestion(s, x)
      BY <2>1, <2>2 DEF ServiceMatchPtrQuestion
    <3> QED
      BY <1>3, <1>6, <2>1, <2>3, <2>4, <3>1
  <2>5. CASE q.type \in {"SRV", "TXT"}
    <3> DEFINE f == ServiceItemInstance(n.host, n.type)
    <3>1. f # 0
      BY <1>6, <2>5, DiscoveryNotOurs DEF InstancesAsked, IsOurs, IsDiscovery
    <3>2. FromQuestion(x) = FromService(f, x, shared)
      BY <2>1, <2>5, <3>1 DEF FromQuestion
    <3>3. a = OutAnswer(x.type, f, Null) /\ x.type \in {"SRV", "TXT"}
      <4>1. f \in Table /\ Services[f].type = n.type /\ n.host \in {Null, Services[f].instance}
        BY <3>1, InstanceFound
      <4> HIDE DEF f
      <4> QED
        BY <2>1, <2>5, <4>1, InstanceAsked
    <3> HIDE DEF shared, f
    <3> QED
      BY <3>2, <3>3, FromServiceSends
  <2> QED
    BY <2>3, <2>4, <2>5
<1> QED
  BY <1>4, <1>5, <1>6

\* No service is missing that a question is about.
LEMMA AllAreFound ==
  ASSUME InstancesAsked, AnswersInv, NEW i \in DOMAIN questions
  PROVE  ~NotFound(questions[i])
<1>1. PICK q \in asked : Stems(questions[i], q)
  BY DEF AnswersInv
<1>2. q \in Queries
  BY DEF AnswersInv
<1> SUFFICES ASSUME questions[i].type \in {"SRV", "TXT"}
             PROVE  ServiceItemInstance(questions[i].name.host, questions[i].name.type) # 0
  BY DEF NotFound
<1>3. questions[i].name = q.name /\ questions[i].type = q.type /\ IsOurs(q.name)
  BY <1>1 DEF Stems
<1>4. q.name.type # Null /\ ~q.name.sub
  BY <1>2, <1>3 DEF InstancesAsked
<1> QED
  BY <1>3, <1>4 DEF IsOurs

\* A question that is read waits for its answer, and so do the others.
LEMMA QuestionWaits ==
  ASSUME AnswersInv, Waiting, NEW q \in Queries, Question(q)
  PROVE  Waiting'
<1>1. /\ questions \in Seq(ParsedQuestions) /\ asked' = asked \cup {q} /\ known' = known
  BY DEF AnswersInv, Question
<1>2. \A t \in Seq(ParsedQuestions) :
        /\ \A i \in DOMAIN questions : \E j \in DOMAIN (t \o questions) : (t \o questions)[j] = questions[i]
        /\ \A i \in DOMAIN t : \E j \in DOMAIN (t \o questions) : (t \o questions)[j] = t[i]
  <2> SUFFICES ASSUME NEW t \in Seq(ParsedQuestions)
               PROVE  /\ \A i \in DOMAIN questions :
                           \E j \in DOMAIN (t \o questions) : (t \o questions)[j] = questions[i]
                      /\ \A i \in DOMAIN t : \E j \in DOMAIN (t \o questions) : (t \o questions)[j] = t[i]
    OBVIOUS
  <2>1. ASSUME NEW i \in DOMAIN questions
        PROVE  Len(t) + i \in DOMAIN (t \o questions) /\ (t \o questions)[Len(t) + i] = questions[i]
    BY <1>1
  <2>2. ASSUME NEW i \in DOMAIN t
        PROVE  i \in DOMAIN (t \o questions) /\ (t \o questions)[i] = t[i]
    BY <1>1
  <2> QED
    BY <2>1, <2>2
<1>3. \A i \in DOMAIN questions : \E j \in DOMAIN questions' : questions'[j] = questions[i]
  <2>1. CASE IsDiscovery(q.name, q.type)
    <3> DEFINE t == Reverse([s \in Table |-> Parsed(Name(Null, Services[s].type, FALSE), "SDPTR", q.unicast)])
    <3>1. questions' = t \o questions
      BY <2>1 DEF Question, Discover
    <3>2. t \in Seq(ParsedQuestions)
      BY <2>1, Discovered
    <3> HIDE DEF t
    <3> QED
      BY <1>2, <3>1, <3>2
  <2>2. CASE ~IsDiscovery(q.name, q.type) /\ IsOurs(q.name)
    <3>1. questions' = <<Parsed(q.name, q.type, q.unicast)>> \o questions
      BY <2>2 DEF Question
    <3>2. <<Parsed(q.name, q.type, q.unicast)>> \in Seq(ParsedQuestions)
      BY ParsedIs
    <3> QED
      BY <1>2, <3>1, <3>2
  <2>3. CASE ~IsDiscovery(q.name, q.type) /\ ~IsOurs(q.name)
    BY <2>3 DEF Question
  <2> QED
    BY <2>1, <2>2, <2>3
<1>4. ASSUME NEW a \in Asked(q), IsOurs(q.name) \/ IsDiscovery(q.name, q.type)
      PROVE  \E i \in DOMAIN questions' : Remembers(questions'[i], q, a)
  <2>1. CASE IsDiscovery(q.name, q.type)
    <3> DEFINE f == [s \in Table |-> Parsed(Name(Null, Services[s].type, FALSE), "SDPTR", q.unicast)]
    <3>1. questions' = Reverse(f) \o questions
      BY <2>1 DEF Question, Discover
    <3>2. PICK s \in Table : a = OutAnswer("SDPTR", s, Null)
      BY <1>4, <2>1 DEF Asked
    <3>3. Remembers(f[s], q, a)
      <4>1. a.service = s
        BY <3>2, FieldsAre
      <4>2. f[s].type = "SDPTR" /\ f[s].name = Name(Null, Services[s].type, FALSE)
        BY DEF Parsed
      <4> QED
        BY <2>1, <4>1, <4>2 DEF Remembers
    <3>4. Reverse(f) \in Seq(ParsedQuestions)
      BY <2>1, Discovered
    <3>5. DOMAIN f = 1 .. Len(Services) /\ Len(f) = Len(Services) /\ Len(Services) \in Nat
      BY TableIs
    <3> HIDE DEF f
    <3>6. PICK i \in DOMAIN Reverse(f) : Reverse(f)[i] = f[s]
      <4> DEFINE N == Len(Services)
      <4>1. N + 1 - s \in 1 .. N /\ N - (N + 1 - s) + 1 = s
        BY <3>5, TableIs
      <4> QED
        BY <3>5, <4>1 DEF Reverse
    <3> QED
      BY <1>2, <3>1, <3>3, <3>4, <3>6
  <2>2. CASE ~IsDiscovery(q.name, q.type)
    <3> DEFINE x == Parsed(q.name, q.type, q.unicast)
    <3>1. questions' = <<x>> \o questions
      BY <1>4, <2>2 DEF Question
    <3>2. x \in ParsedQuestions /\ x.name = q.name /\ x.type = q.type
      BY ParsedIs DEF Parsed
    <3> HIDE DEF x
    <3>3. <<x>> \in Seq(ParsedQuestions) /\ 1 \in DOMAIN <<x>> /\ <<x>>[1] = x
      BY <3>2
    <3>4. Remembers(x, q, a)
      BY <2>2, <3>2 DEF Remembers
    <3> QED
      BY <1>2, <3>1, <3>3, <3>4
  <2> QED
    BY <2>1, <2>2
<1> QED
  BY <1>1, <1>3, <1>4 DEF Waiting, StruckOff

\* A known answer leaves all questions waiting but the one it strikes off.
LEMMA KnownAnswerWaits ==
  ASSUME InstancesAsked, OneAnswers, AnswersInv, Waiting, NEW r \in OurRecords, KnownAnswer(r)
  PROVE  Waiting'
<1>1. /\ questions \in Seq(ParsedQuestions) /\ asked \subseteq Queries
      /\ asked' = asked /\ known' = known \cup {r}
  BY DEF AnswersInv, KnownAnswer
<1> SUFFICES ASSUME NEW q \in asked, IsOurs(q.name) \/ IsDiscovery(q.name, q.type),
                    NEW a \in Asked(q), ~StruckOff(q, a)'
             PROVE  \E i \in DOMAIN questions' : Remembers(questions'[i], q, a)
  BY <1>1 DEF Waiting
<1>2. PICK i \in DOMAIN questions : Remembers(questions[i], q, a)
  BY <1>1 DEF Waiting, StruckOff
<1>3. CASE UNCHANGED questions
  BY <1>2, <1>3
<1>4. ASSUME NEW k \in DOMAIN questions, questions' = RemoveAt(questions, k), StruckBy(questions[k], r)
      PROVE  \E j \in DOMAIN questions' : Remembers(questions'[j], q, a)
  <2>1. q \in Queries
    BY <1>1
  <2>2. i # k
    BY <1>1, <1>2, <1>4, <2>1, StruckMay DEF StruckOff
  <2>3. \E j \in DOMAIN questions' : questions'[j] = questions[i]
    BY <1>1, <1>4, <2>2, OneGoes
  <2> QED
    BY <1>2, <2>3
<1> QED
  BY <1>1, <1>3, <1>4, KnownStrikes

\* The reply has everything that still waits.
LEMMA ReplyAnswers ==
  ASSUME InstancesAsked, OneAnswers, AnswersInv, Waiting, Reply
  PROVE  Answered'
<1>1. UNCHANGED <<questions, asked, known>> /\ asked \subseteq Queries
  BY DEF Reply, AnswersInv
<1> SUFFICES ASSUME NEW q \in asked, IsOurs(q.name) \/ IsDiscovery(q.name, q.type),
                    NEW a \in Asked(q), ~StruckOff(q, a), ~Skipped(q, a)
             PROVE  a \in Sent'
  BY <1>1 DEF Answered, StruckOff
<1> DEFINE all == {FromQuestion(questions[i]) : i \in DOMAIN questions}
<1>2. PICK i \in DOMAIN questions : Remembers(questions[i], q, a)
  BY DEF Waiting
<1>3. questions # <<>> /\ \A j \in DOMAIN questions : ~NotFound(questions[j])
  BY AllAreFound
<1>4. /\ reply'.answers = UNION {e.answers : e \in all}
      /\ reply'.additional = UNION {e.additional : e \in all}
  BY <1>3 DEF Reply
<1>5. q \in Queries
  BY <1>1
<1>6. a \in FromQuestion(questions[i]).answers \cup FromQuestion(questions[i]).additional
  BY <1>2, <1>5, RememberedSends
<1>7. FromQuestion(questions[i]) \in all
  OBVIOUS
<1> HIDE DEF all
<1> QED
  BY <1>4, <1>6, <1>7 DEF Sent

\* Every question that is asked waits for its answer until one of the same kind is
\* known, and all that wait are answered.
THEOREM AnsweredInductive ==
  ASSUME InstancesAsked, OneAnswers
  PROVE  AnswersSpec => []AnsweredInv
<1> DEFINE Others == known \subseteq OurRecords /\ Waiting /\ Answered
<1>1. AnswersInit => Others
  BY DEF AnswersInit, Waiting, Answered
<1>2. AnswersInv /\ Others /\ [AnswersNext]_answersVars => Others'
  <2> SUFFICES ASSUME AnswersInv, Others, [AnswersNext]_answersVars
               PROVE  Others'
    OBVIOUS
  <2>1. CASE \E q \in Queries : Question(q)
    <3>1. phase' # "done" /\ known' = known
      BY <2>1 DEF Question
    <3>2. OurRecords' = OurRecords
      BY DEF OurRecords
    <3> QED
      BY <2>1, <3>1, <3>2, QuestionWaits DEF Answered
  <2>2. CASE Records
    BY <2>2 DEF Records, Waiting, Answered, StruckOff
  <2>3. CASE \E r \in OurRecords : KnownAnswer(r)
    <3>1. phase' # "done" /\ known' \subseteq OurRecords
      BY <2>3 DEF KnownAnswer
    <3> QED
      BY <2>3, <3>1, KnownAnswerWaits DEF Answered
  <2>4. CASE Reply
    <3>1. Waiting' /\ known' = known
      BY <2>4 DEF Reply, Waiting, StruckOff
    <3> QED
      BY <2>4, <3>1, ReplyAnswers
  <2>5. CASE NextPacket
    BY <2>5 DEF NextPacket, Waiting, Answered
  <2>6. CASE UNCHANGED answersVars
    BY <2>6 DEF answersVars, Waiting, Answered, StruckOff, Sent
  <2> QED
    BY <2>1, <2>2, <2>3, <2>4, <2>5, <2>6 DEF AnswersNext
<1>3. AnsweredInv <=> AnswersInv /\ Others
  BY DEF AnsweredInv
<1> HIDE DEF Others
<1> QED
  BY <1>1, <1>2, <1>3, AnswersInductive, PTL DEF AnswersSpec

\* Whatever is asked for is sent unless the asker knows an answer of the same kind,
\* however many services of a type there are, about subtypes and for delegated
\* hosts too: of a packet whose known answers are about other kinds nothing is left out
\* (_mdns_create_answer_from_parsed_packet, _mdns_remove_parsed_question).
THEOREM KindsAreAnswered ==
  ASSUME InstancesAsked, OneAnswers
  PROVE  AnswersSpec => []Answered
<1>1. AnsweredInv => Answered
  BY DEF AnsweredInv
<1> QED
  BY <1>1, AnsweredInductive, PTL

\* With one service of a type a question has one answer.
LEMMA OneOfATypeAnswers == ASSUME OneOfAType, InstancesAsked PROVE OneAnswers
<1> SUFFICES ASSUME NEW q \in Queries, q.type \in {"SRV", "TXT"}, NEW a \in Asked(q), NEW b \in Asked(q)
             PROVE  a = b
  BY DEF OneAnswers
<1>1. q.name.type # Null /\ ~IsDiscovery(q.name, q.type) /\ q.type # "ANY"
  BY DEF InstancesAsked, IsDiscovery
<1>2. PICK s \in Table : a = OutAnswer(q.type, s, Null) /\ Services[s].type = q.name.type
  BY <1>1, AskedIs
<1>3. PICK t \in Table : b = OutAnswer(q.type, t, Null) /\ Services[t].type = q.name.type
  BY <1>1, AskedIs
<1>4. s = t
  BY <1>2, <1>3 DEF OneOfAType
<1> QED
  BY <1>2, <1>3, <1>4

\* Then an answer of the same kind is the answer.
LEMMA SameKindIsSame ==
  ASSUME OneOfAType, NEW r \in OurRecords,
         NEW q \in Queries, IsOurs(q.name) \/ IsDiscovery(q.name, q.type),
         NEW a \in Asked(q), MayStrike(r, a)
  PROVE  Says(a) = r
<1> DEFINE n == q.name
<1>1. r.type = Says(a).type /\ r.name.type = Says(a).name.type
      /\ (r.name = DiscoveryName => r = Says(a))
  BY DEF MayStrike
<1>2. r.type \in {"PTR", "SRV", "TXT", "A", "AAAA"}
  BY RecordTells
<1>3. ASSUME r.name # DiscoveryName, r.type \in {"PTR", "SRV", "TXT"}
      PROVE  \E s \in Table : /\ r = Says(OutAnswer(r.type, s, Null))
                              /\ r.name.type = Services[s].type
  BY <1>3, RecordTells
<1>4. ASSUME NEW t \in Table, a = OutAnswer("SDPTR", t, Null)
      PROVE  Says(a) = r
  <2>1. r.type = "PTR" /\ r.name.type = DiscoveryName.type
    BY <1>1, <1>4, SaysFields
  <2>2. r.name = DiscoveryName
    BY <1>3, <2>1, DiscoveryNotOurs
  <2> QED
    BY <1>1, <2>2
<1>5. ASSUME NEW t \in Table, NEW type \in {"PTR", "SRV", "TXT"}, a = OutAnswer(type, t, Null)
      PROVE  Says(a) = r
  <2>1. r.type = type /\ r.name.type = Services[t].type
    <3>1. Says(a).type = type /\ Says(a).name.type = Services[t].type
      BY <1>5, SaysFields
    <3> QED
      BY <1>1, <3>1
  <2>2. r.name # DiscoveryName
    BY <2>1, DiscoveryNotOurs
  <2>3. PICK s \in Table : r = Says(OutAnswer(r.type, s, Null)) /\ r.name.type = Services[s].type
    BY <1>3, <2>1, <2>2
  <2>4. s = t
    BY <2>1, <2>3 DEF OneOfAType
  <2> QED
    BY <1>5, <2>1, <2>3, <2>4
<1>6. ASSUME NEW type \in {"A", "AAAA"}, a = OutAnswer(type, 0, n.host),
             n.type = Null, ~IsDiscovery(q.name, q.type)
      PROVE  Says(a) = r
  <2>1. Says(a) = Record(Name(n.host, Null, FALSE), type, Null) /\ r.type = type
    <3>1. Says(a) = Record(Name(n.host, Null, FALSE), type, Null)
      BY <1>6, SaysIs
    <3>2. Says(a).type = type
      BY <1>6, SaysFields
    <3> QED
      BY <1>1, <3>1, <3>2
  <2>2. PICK h \in Hosts : r = Record(Name(h, Null, FALSE), r.type, Null)
    BY <2>1, RecordTells
  <2>3. n.host \in Hosts
    BY <1>6 DEF IsOurs
  <2>4. n.host = h
    BY <2>2, <2>3, OneHost
  <2> QED
    BY <2>1, <2>2, <2>4
<1> QED
  BY <1>4, <1>5, <1>6, AskedIs

\* If no two services have the same type, there are no delegated hosts, and nobody
\* asks for subtypes, then whatever is asked for, and not known to the asker, is
\* sent: there is one answer of each kind.
THEOREM AllIsAnswered ==
  ASSUME OneOfAType, InstancesAsked, NoSubtypes
  PROVE  AnswersSpec => []Complete
<1>1. AnsweredInv => Complete
  <2> SUFFICES ASSUME AnsweredInv, phase = "done",
                      NEW q \in asked, IsOurs(q.name) \/ IsDiscovery(q.name, q.type),
                      NEW a \in Asked(q), SaysTo(q, a) \notin known
               PROVE  a \in Sent
    BY DEF Complete
  <2>1. q \in Queries /\ known \subseteq OurRecords
    BY DEF AnsweredInv, AnswersInv
  <2>2. ~StruckOff(q, a)
    <3>1. SaysTo(q, a) = Says(a)
      BY <2>1 DEF NoSubtypes, SaysTo
    <3> QED
      BY <2>1, <3>1, SameKindIsSame DEF StruckOff
  <2>3. ~Skipped(q, a)
    BY DEF Skipped, OneOfAType
  <2> QED
    BY <2>2, <2>3 DEF AnsweredInv, Answered
<1>2. OneAnswers
  BY OneOfATypeAnswers
<1> QED
  BY <1>1, <1>2, AnsweredInductive, PTL

\* What a question is like, if it may be struck off
LEMMA QuestionIs ==
  ASSUME OneOfAType, AsResolversAsk, AnswersInv, ~NotStruck, NEW i \in DOMAIN questions
  PROVE  LET x == questions[i] IN
         \/ \E s \in Table : /\ x.name = Name(Null, Services[s].type, FALSE)
                             /\ x.type \in {"PTR", "SDPTR"}
         \/ \E s \in Table : /\ x.name = Name(Services[s].instance, Services[s].type, FALSE)
                             /\ x.type \in {"SRV", "TXT"}
         \/ x.name = Name(Self, Null, FALSE) /\ x.type \in {"A", "AAAA"}
<1> DEFINE x == questions[i]
<1>1. PICK q \in asked : Stems(x, q)
  BY DEF AnswersInv
<1>2. /\ q \in Queries /\ q.type \in {"PTR", "SRV", "TXT", "A", "AAAA"} /\ ~q.name.sub
      /\ q.name = Name(q.name.host, q.name.type, q.name.sub) /\ q.name.sub \in BOOLEAN
  BY AnswersAssumption DEF AnswersInv, NotStruck, Types
<1>3. CASE IsDiscovery(q.name, q.type)
  BY <1>1, <1>3 DEF Stems
<1>4. CASE ~IsDiscovery(q.name, q.type)
  <2>1. x.name = q.name /\ x.type = q.type /\ IsOurs(q.name)
    BY <1>1, <1>4 DEF Stems
  <2>2. x.name = Name(q.name.host, q.name.type, FALSE)
    BY <1>2, <2>1
  <2>3. CASE q.type \in {"A", "AAAA"}
    <3>1. q.name.type = Null
      BY <1>2, <2>3 DEF AsResolversAsk
    <3>2. q.name.host = Self
      BY <2>1, <3>1, OneHost DEF IsOurs
    <3> QED
      BY <2>1, <2>2, <2>3, <3>1, <3>2
  <2>4. CASE q.type \in {"PTR", "SRV", "TXT"}
    <3>1. q.name.type # Null
      BY <1>2, <2>4 DEF AsResolversAsk
    <3>2. ServiceItemInstance(q.name.host, q.name.type) # 0
      BY <1>2, <2>1, <3>1 DEF IsOurs
    <3>3. PICK s \in Table : Services[s].type = q.name.type /\ q.name.host \in {Null, Services[s].instance}
      BY <3>2, InstanceFound
    <3>4. CASE q.type = "PTR"
      <4>1. q.name.host = Null
        BY <1>2, <1>4, <3>4 DEF AsResolversAsk
      <4> QED
        BY <2>1, <2>2, <3>3, <3>4, <4>1
    <3>5. CASE q.type \in {"SRV", "TXT"}
      <4>1. q.name.host = Services[s].instance
        BY <1>2, <3>3, <3>5 DEF AsResolversAsk
      <4> QED
        BY <2>1, <2>2, <3>3, <3>5, <4>1
    <3> QED
      BY <2>4, <3>4, <3>5
  <2> QED
    BY <1>2, <2>3, <2>4
<1> QED
  BY <1>3, <1>4

\* The answer that strikes it off
LEMMA StrikeIs ==
  ASSUME OneOfAType, NEW x
  PROVE  /\ \A s \in Table : x.name = Name(Null, Services[s].type, FALSE) =>
              /\ x.type = "PTR" => Strike(x) = Record(Name(Null, Services[s].type, FALSE), "PTR",
                                         Name(Services[s].instance, Services[s].type, FALSE))
              /\ x.type = "SDPTR" =>
                   Strike(x) = Record(DiscoveryName, "PTR", Name(Null, Services[s].type, FALSE))
         /\ \A s \in Table :
              x.name = Name(Services[s].instance, Services[s].type, FALSE) /\ x.type \in {"SRV", "TXT"} =>
              Strike(x) = Record(Name(Services[s].instance, Services[s].type, FALSE), x.type, Null)
         /\ x.name = Name(Self, Null, FALSE) /\ x.type \in {"A", "AAAA"} =>
              Strike(x) = Record(Name(Self, Null, FALSE), x.type, Null)
<1> DEFINE a == OutAnswer(x.type, ServiceItem(x.name.type), x.name.host)
<1>1. a.type = x.type /\ a.service = ServiceItem(x.name.type) /\ a.host = x.name.host
  BY FieldsAre
<1>2. Strike(x) = Says(a)
  BY DEF Strike
<1> HIDE DEF a
<1>3. ASSUME NEW s \in Table, NEW h, x.name = Name(h, Services[s].type, FALSE)
      PROVE  a.service = s
  <2>1. x.name.type = Services[s].type
    BY <1>3 DEF Name
  <2> QED
    BY <1>1, <2>1, OneFound
<1>4. ASSUME NEW s \in Table, x.name = Name(Null, Services[s].type, FALSE)
      PROVE  /\ x.type = "PTR" => Strike(x) = Record(Name(Null, Services[s].type, FALSE), "PTR",
                                         Name(Services[s].instance, Services[s].type, FALSE))
             /\ x.type = "SDPTR" =>
                  Strike(x) = Record(DiscoveryName, "PTR", Name(Null, Services[s].type, FALSE))
  <2>1. a.service = s
    BY <1>3, <1>4
  <2> QED
    BY <1>1, <1>2, <2>1, SaysOf
<1>5. ASSUME NEW s \in Table, x.name = Name(Services[s].instance, Services[s].type, FALSE),
             x.type \in {"SRV", "TXT"}
      PROVE  Strike(x) = Record(Name(Services[s].instance, Services[s].type, FALSE), x.type, Null)
  <2>1. a.service = s
    BY <1>3, <1>5
  <2> QED
    BY <1>1, <1>2, <1>5, <2>1, SaysOf
<1>6. ASSUME x.name = Name(Self, Null, FALSE), x.type \in {"A", "AAAA"}
      PROVE  Strike(x) = Record(Name(Self, Null, FALSE), x.type, Null)
  <2>1. x.name.host = Self
    BY <1>6 DEF Name
  <2> QED
    BY <1>1, <1>2, <1>6, <2>1, SaysOf
<1> QED
  BY <1>4, <1>5, <1>6

\* The answer that a question waits for strikes off that question.
LEMMA StruckIsMeant ==
  ASSUME OneOfAType, AsResolversAsk, AnswersInv, NotTwice, ~NotStruck,
         NEW i \in DOMAIN questions, questions[i].type = "SDPTR" => discovery,
         KnownAnswer(Strike(questions[i]))
  PROVE  questions' = RemoveAt(questions, i)
<1> DEFINE x == questions[i]
           r == Strike(x)
<1>1. questions \in Seq(ParsedQuestions) /\ questions # <<>>
  BY DEF AnswersInv
<1>2. Strikes(r)
  BY <1>1 DEF KnownAnswer, ReadsNull
<1>3. ASSUME NEW type, NEW s, RemoveParsedQuestion(type, s), QuestionMatches(x, type, s),
             \A k \in DOMAIN questions : QuestionMatches(questions[k], type, s) =>
               questions[k].name = x.name /\ questions[k].type = x.type
      PROVE  questions' = RemoveAt(questions, i)
  <2>1. PICK k \in DOMAIN questions :
          questions' = RemoveAt(questions, k) /\ QuestionMatches(questions[k], type, s)
    BY <1>1, <1>3, StrikesOne
  <2>2. k = i
    BY <1>3, <2>1 DEF NotTwice
  <2> QED
    BY <2>1, <2>2
<1>4. ASSUME NEW s \in Table
      PROVE  /\ ServiceItem(Services[s].type) = s /\ Services[s].type # Null
             /\ \A h \in {Null, Services[s].instance} :
                  /\ IsOurs(Name(h, Services[s].type, FALSE))
                  /\ Name(h, Services[s].type, FALSE) # DiscoveryName
  <2>1. ServiceItem(Services[s].type) = s /\ Services[s].type # Null /\ s # 0
    BY OneFound, DiscoveryNotOurs
  <2>2. ASSUME NEW h \in {Null, Services[s].instance} PROVE IsOurs(Name(h, Services[s].type, FALSE))
    <3> DEFINE n == Name(h, Services[s].type, FALSE)
    <3>1. n.type = Services[s].type /\ n.host = h /\ n.sub = FALSE
      BY DEF Name
    <3> HIDE DEF n
    <3>2. ServiceItemInstance(n.host, n.type) # 0
      BY <2>1, <3>1, OneFound
    <3> QED
      BY <2>1, <3>1, <3>2 DEF IsOurs, n
  <2> QED
    BY <2>1, <2>2, DiscoveryNotOurs
<1>5. CASE x.type = "SDPTR"
  <2>1. PICK s \in Table : x.name = Name(Null, Services[s].type, FALSE)
    BY <1>5, QuestionIs
  <2>2. r = Record(DiscoveryName, "PTR", Name(Null, Services[s].type, FALSE))
    BY <1>5, <2>1, StrikeIs
  <2>3. r.name = DiscoveryName /\ r.type = "PTR" /\ r.data = Name(Null, Services[s].type, FALSE)
    BY <2>2 DEF Record
  <2>4. r.data.type = Services[s].type /\ x.name.type = Services[s].type
    BY <2>1, <2>3 DEF Name
  <2>5. discovery /\ IsDiscovery(r.name, r.type) /\ IsOurs(r.data)
    BY <1>4, <1>5, <2>3 DEF IsDiscovery
  <2>6. RemoveParsedQuestion("SDPTR", s)
    BY <1>2, <1>4, <2>4, <2>5 DEF Strikes
  <2>7. QuestionMatches(x, "SDPTR", s)
    BY <1>5, <2>4 DEF QuestionMatches
  <2>8. ASSUME NEW k \in DOMAIN questions, QuestionMatches(questions[k], "SDPTR", s)
        PROVE  questions[k].name = x.name /\ questions[k].type = x.type
    <3>1. questions[k].type = "SDPTR" /\ questions[k].name.type = Services[s].type
      BY <2>8 DEF QuestionMatches
    <3>2. PICK t \in Table : questions[k].name = Name(Null, Services[t].type, FALSE)
      BY <3>1, QuestionIs
    <3>3. questions[k].name.type = Services[t].type
      BY <3>2 DEF Name
    <3> QED
      BY <1>5, <2>1, <3>1, <3>2, <3>3
  <2> QED
    BY <1>3, <2>6, <2>7, <2>8
<1>6. CASE x.type = "PTR"
  <2>1. PICK s \in Table : x.name = Name(Null, Services[s].type, FALSE)
    BY <1>6, QuestionIs
  <2>2. r = Record(Name(Null, Services[s].type, FALSE), "PTR",
                   Name(Services[s].instance, Services[s].type, FALSE))
    BY <1>6, <2>1, StrikeIs
  <2>3. /\ r.name = Name(Null, Services[s].type, FALSE) /\ r.type = "PTR"
        /\ r.data = Name(Services[s].instance, Services[s].type, FALSE)
    BY <2>2 DEF Record
  <2>4. r.name.type = Services[s].type /\ r.name.sub = FALSE /\ x.name.type = Services[s].type
    BY <2>1, <2>3 DEF Name
  <2>5. ~IsDiscovery(r.name, r.type) /\ IsOurs(r.name) /\ IsOurs(r.data)
    BY <1>4, <2>3 DEF IsDiscovery
  <2>6. RemoveParsedQuestion("PTR", s)
    BY <1>1, <1>2, <1>4, <2>3, <2>4, <2>5 DEF Strikes
  <2>7. QuestionMatches(x, "PTR", s)
    BY <1>6, <2>4 DEF QuestionMatches
  <2>8. ASSUME NEW k \in DOMAIN questions, QuestionMatches(questions[k], "PTR", s)
        PROVE  questions[k].name = x.name /\ questions[k].type = x.type
    <3>1. questions[k].type = "PTR" /\ questions[k].name.type = Services[s].type
      BY <2>8 DEF QuestionMatches
    <3>2. PICK t \in Table : questions[k].name = Name(Null, Services[t].type, FALSE)
      BY <3>1, QuestionIs
    <3>3. questions[k].name.type = Services[t].type
      BY <3>2 DEF Name
    <3> QED
      BY <1>6, <2>1, <3>1, <3>2, <3>3
  <2> QED
    BY <1>3, <2>6, <2>7, <2>8
<1>7. CASE x.type \in {"SRV", "TXT"}
  <2>1. PICK s \in Table : x.name = Name(Services[s].instance, Services[s].type, FALSE)
    BY <1>7, QuestionIs
  <2>2. r = Record(Name(Services[s].instance, Services[s].type, FALSE), x.type, Null)
    BY <1>7, <2>1, StrikeIs
  <2>3. r.name = Name(Services[s].instance, Services[s].type, FALSE) /\ r.type = x.type
    BY <2>2 DEF Record
  <2>4. /\ r.name.type = Services[s].type /\ r.name.sub = FALSE
        /\ x.name.type = Services[s].type /\ x.name.host = Services[s].instance
    BY <2>1, <2>3 DEF Name
  <2>5. ~IsDiscovery(r.name, r.type) /\ IsOurs(r.name)
    BY <1>4, <2>3 DEF IsDiscovery
  <2>6. RemoveParsedQuestion(x.type, s)
    BY <1>1, <1>2, <1>4, <1>7, <2>3, <2>4, <2>5 DEF Strikes
  <2>7. QuestionMatches(x, x.type, s)
    BY <1>7, <2>4, OneFound DEF QuestionMatches
  <2>8. ASSUME NEW k \in DOMAIN questions, QuestionMatches(questions[k], x.type, s)
        PROVE  questions[k].name = x.name /\ questions[k].type = x.type
    <3>1. questions[k].type = x.type /\ questions[k].name.type = Services[s].type
      BY <1>7, <2>8 DEF QuestionMatches
    <3>2. PICK t \in Table : questions[k].name = Name(Services[t].instance, Services[t].type, FALSE)
      BY <1>7, <3>1, QuestionIs
    <3>3. questions[k].name.type = Services[t].type
      BY <3>2 DEF Name
    <3>4. t = s
      BY <3>1, <3>3 DEF OneOfAType
    <3> QED
      BY <2>1, <3>1, <3>2, <3>4
  <2> QED
    BY <1>3, <2>6, <2>7, <2>8
<1>8. CASE x.type \in {"A", "AAAA"}
  <2>1. x.name = Name(Self, Null, FALSE)
    BY <1>8, QuestionIs
  <2>2. r = Record(Name(Self, Null, FALSE), x.type, Null)
    BY <1>8, <2>1, StrikeIs
  <2>3. r.name = Name(Self, Null, FALSE) /\ r.type = x.type
    BY <2>2 DEF Record
  <2>4. r.name.type = Null /\ r.name.sub = FALSE /\ r.name.host = Self
    BY <2>3 DEF Name
  <2>5. ~IsDiscovery(r.name, r.type) /\ IsOurs(r.name)
    BY <1>8, <2>3, <2>4 DEF IsDiscovery, IsOurs, Hosts
  <2>6. RemoveParsedQuestion(x.type, ServiceItem(Null))
    BY <1>1, <1>2, <1>8, <2>3, <2>4, <2>5 DEF Strikes
  <2>7. QuestionMatches(x, x.type, ServiceItem(Null))
    BY <1>8 DEF QuestionMatches
  <2>8. ASSUME NEW k \in DOMAIN questions, QuestionMatches(questions[k], x.type, ServiceItem(Null))
        PROVE  questions[k].name = x.name /\ questions[k].type = x.type
    <3>1. questions[k].type = x.type
      BY <1>8, <2>8 DEF QuestionMatches
    <3> QED
      BY <1>8, <2>1, <3>1, QuestionIs
  <2> QED
    BY <1>3, <2>6, <2>7, <2>8
<1> QED
  BY <1>5, <1>6, <1>7, <1>8, QuestionIs

\* That answer is one that somebody has asked for.
LEMMA StrikeIsAsked ==
  ASSUME OneOfAType, AsResolversAsk, AnswersInv, ~NotStruck, NEW i \in DOMAIN questions
  PROVE  \E q \in asked : \E a \in Asked(q) : Says(a) = Strike(questions[i])
<1> DEFINE x == questions[i]
<1>1. PICK q \in asked : Stems(x, q)
  BY DEF AnswersInv
<1>2. q \in Queries /\ ~q.name.sub
  BY DEF AnswersInv, NotStruck
<1>3. ASSUME ~IsDiscovery(q.name, q.type), NEW s \in Table, Services[s].type = q.name.type,
             q.name.host \in {Null, Services[s].instance}, x.type \in {"PTR", "SRV", "TXT"}
      PROVE  OutAnswer(x.type, s, Null) \in Asked(q)
  <2>1. x.type = q.type
    BY <1>1, <1>3 DEF Stems
  <2>2. q.name.type # Null
    BY <1>3, DiscoveryNotOurs
  <2>3. x.type \in {"PTR", "SRV", "TXT"} \cap (IF q.type = "ANY" THEN Types ELSE {q.type})
    BY <1>3, <2>1
  <2> QED
    BY <1>2, <1>3, <2>2, <2>3 DEF Asked
<1>4. CASE x.type = "SDPTR"
  <2>1. PICK s \in Table : x.name = Name(Null, Services[s].type, FALSE)
    BY <1>4, QuestionIs
  <2>2. IsDiscovery(q.name, q.type)
    <3>1. q.type # "SDPTR"
      BY <1>2, AnswersAssumption DEF Types
    <3> QED
      BY <1>1, <1>4, <3>1 DEF Stems
  <2>3. OutAnswer("SDPTR", s, Null) \in Asked(q)
    BY <2>2 DEF Asked
  <2>4. Says(OutAnswer("SDPTR", s, Null)) = Strike(x)
    BY <1>4, <2>1, SaysIs, StrikeIs
  <2> QED
    BY <2>3, <2>4
<1>5. CASE x.type = "PTR"
  <2>1. PICK s \in Table : x.name = Name(Null, Services[s].type, FALSE)
    BY <1>5, QuestionIs
  <2>2. ~IsDiscovery(q.name, q.type) /\ q.name = x.name
    BY <1>1, <1>5 DEF Stems
  <2>3. q.name.type = Services[s].type /\ q.name.host = Null
    BY <2>1, <2>2 DEF Name
  <2>4. OutAnswer("PTR", s, Null) \in Asked(q)
    BY <1>3, <1>5, <2>2, <2>3
  <2>5. Says(OutAnswer("PTR", s, Null)) = Strike(x)
    BY <1>5, <2>1, SaysIs, StrikeIs
  <2> QED
    BY <2>4, <2>5
<1>6. CASE x.type \in {"SRV", "TXT"}
  <2>1. PICK s \in Table : x.name = Name(Services[s].instance, Services[s].type, FALSE)
    BY <1>6, QuestionIs
  <2>2. ~IsDiscovery(q.name, q.type) /\ q.name = x.name
    BY <1>1, <1>6 DEF Stems
  <2>3. q.name.type = Services[s].type /\ q.name.host = Services[s].instance
    BY <2>1, <2>2 DEF Name
  <2>4. OutAnswer(x.type, s, Null) \in Asked(q)
    BY <1>3, <1>6, <2>2, <2>3
  <2>5. Says(OutAnswer(x.type, s, Null)) = Strike(x)
    BY <1>6, <2>1, SaysIs, StrikeIs
  <2> QED
    BY <2>4, <2>5
<1>7. CASE x.type \in {"A", "AAAA"}
  <2>1. x.name = Name(Self, Null, FALSE)
    BY <1>7, QuestionIs
  <2>2. ~IsDiscovery(q.name, q.type) /\ q.name = x.name /\ q.type = x.type
    BY <1>1, <1>7 DEF Stems
  <2>3. q.name.type = Null /\ q.name.host = Self
    BY <2>1, <2>2 DEF Name
  <2>4. OutAnswer(x.type, 0, Self) \in Asked(q)
    BY <1>7, <2>2, <2>3 DEF Asked
  <2>5. Says(OutAnswer(x.type, 0, Self)) = Strike(x)
    <3>1. Strike(x) = Record(Name(Self, Null, FALSE), x.type, Null)
      BY <1>7, <2>1, StrikeIs
    <3>2. Says(OutAnswer(x.type, 0, Self)) = Record(Name(Self, Null, FALSE), x.type, Null)
      BY <1>7, SaysIs
    <3> QED
      BY <3>1, <3>2
  <2> QED
    BY <2>4, <2>5
<1> QED
  BY <1>4, <1>5, <1>6, <1>7, QuestionIs

\* Two lists of questions in which nothing is twice, and with nothing in common
Same(x, y) == x.name = y.name /\ x.type = y.type

LEMMA NoneTwice ==
  ASSUME NEW a \in Seq(ParsedQuestions), NEW b \in Seq(ParsedQuestions),
         \A i, j \in DOMAIN a : Same(a[i], a[j]) => i = j,
         \A i, j \in DOMAIN b : Same(b[i], b[j]) => i = j,
         \A i \in DOMAIN a, j \in DOMAIN b : ~Same(a[i], b[j])
  PROVE  \A i, j \in DOMAIN (a \o b) : Same((a \o b)[i], (a \o b)[j]) => i = j
<1> SUFFICES ASSUME NEW i \in DOMAIN (a \o b), NEW j \in DOMAIN (a \o b), Same((a \o b)[i], (a \o b)[j])
             PROVE  i = j
  OBVIOUS
<1>1. i \in Nat /\ j \in Nat /\ Len(a) \in Nat
  OBVIOUS
<1>2. /\ IF i <= Len(a) THEN i \in DOMAIN a /\ (a \o b)[i] = a[i]
                        ELSE i - Len(a) \in DOMAIN b /\ (a \o b)[i] = b[i - Len(a)]
      /\ IF j <= Len(a) THEN j \in DOMAIN a /\ (a \o b)[j] = a[j]
                        ELSE j - Len(a) \in DOMAIN b /\ (a \o b)[j] = b[j - Len(a)]
  BY ElementOf
<1>3. \A x, y : Same(x, y) => Same(y, x)
  BY DEF Same
<1> QED
  BY <1>1, <1>2, <1>3

\* A question that is read is not there yet.
LEMMA QuestionIsNew ==
  ASSUME OneOfAType, AnswersInv, NotTwice, NEW q \in Queries, Question(q)
  PROVE  NotTwice'
<1>1. /\ questions \in Seq(ParsedQuestions) /\ asked \subseteq Queries
      /\ \A p \in asked : p.name # q.name \/ p.type # q.type
  BY DEF AnswersInv, Question
<1>2. \A i, j \in DOMAIN questions : Same(questions[i], questions[j]) => i = j
  BY DEF NotTwice, Same
<1>3. \A p \in Queries : p.type # "SDPTR"
  BY AnswersAssumption DEF Types
<1>4. ASSUME NEW t \in Seq(ParsedQuestions), questions' = t \o questions,
             \A i \in DOMAIN t : Stems(t[i], q),
             \A i, j \in DOMAIN t : Same(t[i], t[j]) => i = j
      PROVE  NotTwice'
  <2>1. ASSUME NEW i \in DOMAIN t, NEW j \in DOMAIN questions, Same(t[i], questions[j])
        PROVE  FALSE
    <3>1. PICK p \in asked : Stems(questions[j], p)
      BY DEF AnswersInv
    <3>2. p.type # "SDPTR" /\ q.type # "SDPTR"
      BY <1>1, <1>3
    <3>3. t[i].name = questions[j].name /\ t[i].type = questions[j].type /\ Stems(t[i], q)
      BY <1>4, <2>1 DEF Same
    <3>4. p.name = q.name /\ p.type = q.type
      <4>1. CASE IsDiscovery(q.name, q.type)
        <5>1. questions[j].type = "SDPTR"
          BY <3>3, <4>1 DEF Stems
        <5>2. IsDiscovery(p.name, p.type)
          BY <3>1, <3>2, <5>1 DEF Stems
        <5> QED
          BY <4>1, <5>2 DEF IsDiscovery
      <4>2. CASE ~IsDiscovery(q.name, q.type)
        <5>1. questions[j].name = q.name /\ questions[j].type = q.type
          BY <3>3, <4>2 DEF Stems
        <5>2. ~IsDiscovery(p.name, p.type)
          BY <3>1, <3>2, <5>1 DEF Stems
        <5> QED
          BY <3>1, <5>1, <5>2 DEF Stems
      <4> QED
        BY <4>1, <4>2
    <3> QED
      BY <1>1, <3>4
  <2>2. \A i, j \in DOMAIN (t \o questions) : Same((t \o questions)[i], (t \o questions)[j]) => i = j
    BY <1>1, <1>2, <1>4, <2>1, NoneTwice
  <2> QED
    BY <1>4, <2>2 DEF NotTwice, Same
<1>5. CASE IsDiscovery(q.name, q.type)
  <2> DEFINE f == [s \in Table |-> Parsed(Name(Null, Services[s].type, FALSE), "SDPTR", q.unicast)]
             N == Len(Services)
  <2>1. questions' = Reverse(f) \o questions
    BY <1>5 DEF Question, Discover
  <2>2. Reverse(f) \in Seq(ParsedQuestions) /\ \A i \in DOMAIN Reverse(f) : Stems(Reverse(f)[i], q)
    BY <1>5, Discovered
  <2>3. N \in Nat /\ Table = 1 .. N /\ DOMAIN f = 1 .. N /\ Len(f) = N
    BY TableIs
  <2>4. \A s, t \in Table : Same(f[s], f[t]) => s = t
    <3> SUFFICES ASSUME NEW s \in Table, NEW t \in Table, Same(f[s], f[t]) PROVE s = t
      OBVIOUS
    <3>1. f[s].name = Name(Null, Services[s].type, FALSE) /\ f[t].name = Name(Null, Services[t].type, FALSE)
      BY DEF Parsed
    <3>2. f[s].name = f[t].name
      BY DEF Same
    <3> HIDE DEF f
    <3>3. f[s].name.type = Services[s].type /\ f[t].name.type = Services[t].type
      BY <3>1 DEF Name
    <3> QED
      BY <3>2, <3>3 DEF OneOfAType
  <2> HIDE DEF f, N
  <2>5. ASSUME NEW i \in DOMAIN Reverse(f)
        PROVE  i \in 1 .. N /\ N - i + 1 \in Table /\ Reverse(f)[i] = f[N - i + 1]
    BY <2>3 DEF Reverse
  <2>6. \A i, j \in DOMAIN Reverse(f) : Same(Reverse(f)[i], Reverse(f)[j]) => i = j
    <3> SUFFICES ASSUME NEW i \in DOMAIN Reverse(f), NEW j \in DOMAIN Reverse(f),
                        Same(Reverse(f)[i], Reverse(f)[j])
                 PROVE  i = j
      OBVIOUS
    <3>1. N - i + 1 = N - j + 1 /\ i \in Nat /\ j \in Nat
      BY <2>4, <2>5
    <3> QED
      BY <2>3, <3>1
  <2> QED
    BY <1>4, <2>1, <2>2, <2>6
<1>6. CASE ~IsDiscovery(q.name, q.type) /\ IsOurs(q.name)
  <2> DEFINE x == Parsed(q.name, q.type, q.unicast)
  <2>1. questions' = <<x>> \o questions
    BY <1>6 DEF Question
  <2>2. x \in ParsedQuestions /\ x.name = q.name /\ x.type = q.type
    BY ParsedIs DEF Parsed
  <2>3. Stems(x, q)
    BY <1>6, <2>2 DEF Stems
  <2> HIDE DEF x
  <2>4. <<x>> \in Seq(ParsedQuestions) /\ \A i \in DOMAIN <<x>> : i = 1 /\ <<x>>[i] = x
    BY <2>2
  <2> QED
    BY <1>4, <2>1, <2>3, <2>4
<1>7. CASE ~IsDiscovery(q.name, q.type) /\ ~IsOurs(q.name)
  BY <1>7 DEF Question, NotTwice
<1> QED
  BY <1>5, <1>6, <1>7

\* What a known answer strikes off, is known, and nothing that is known stays.
LEMMA NothingKnownStays ==
  ASSUME OneOfAType, AsResolversAsk, SilentInv, NEW r, KnownAnswer(r)
  PROVE  /\ NotTwice'
         /\ \A i \in DOMAIN questions' : questions'[i].type = "SDPTR" => discovery'
         /\ NotStruck' \/ \A i \in DOMAIN questions' : Strike(questions'[i]) \notin known'
<1>1. /\ AnswersInv /\ NotTwice /\ questions \in Seq(ParsedQuestions)
      /\ known' = known \cup {r} /\ UNCHANGED <<discovery, asked>>
  BY DEF SilentInv, AnswersInv, KnownAnswer
<1>2. \A x : Strike(x)' = Strike(x)
  BY DEF Strike
<1>3. CASE UNCHANGED questions
  <2>1. CASE NotStruck
    BY <1>1, <1>3, <2>1 DEF SilentInv, NotTwice, NotStruck
  <2>2. CASE ~NotStruck
    <3>1. ASSUME NEW i \in DOMAIN questions, Strike(questions[i]) = r PROVE FALSE
      <4>1. questions' = RemoveAt(questions, i)
        BY <1>1, <2>2, <3>1, StruckIsMeant DEF SilentInv
      <4>2. Len(questions') = Len(questions) - 1 /\ Len(questions) \in Nat
        BY <1>1, <4>1, OthersStay
      <4> QED
        BY <1>3, <4>2
    <3>2. \A i \in DOMAIN questions : Strike(questions[i]) \notin known'
      BY <1>1, <2>2, <3>1 DEF SilentInv
    <3> QED
      BY <1>1, <1>2, <1>3, <3>2 DEF SilentInv, NotTwice
  <2> QED
    BY <2>1, <2>2
<1>4. ASSUME NEW k \in DOMAIN questions, questions' = RemoveAt(questions, k)
      PROVE  /\ NotTwice'
             /\ \A i \in DOMAIN questions' : questions'[i].type = "SDPTR" => discovery'
             /\ NotStruck' \/ \A i \in DOMAIN questions' : Strike(questions'[i]) \notin known'
  <2>1. \A i, j \in DOMAIN questions' : i # j =>
          \E m, n \in DOMAIN questions : m # n /\ questions'[i] = questions[m] /\ questions'[j] = questions[n]
    BY <1>1, <1>4, OneGoes
  <2>2. NotTwice'
    BY <1>1, <2>1 DEF NotTwice
  <2>3. \A i \in DOMAIN questions' : \E j \in DOMAIN questions \ {k} : questions'[i] = questions[j]
    BY <1>1, <1>4, OneGoes
  <2>4. \A i \in DOMAIN questions' : questions'[i].type = "SDPTR" => discovery'
    BY <1>1, <2>3 DEF SilentInv
  <2>5. CASE NotStruck
    BY <1>1, <2>2, <2>4, <2>5 DEF NotStruck
  <2>6. CASE ~NotStruck
    <3>1. ASSUME NEW i \in DOMAIN questions' PROVE Strike(questions'[i]) \notin known'
      <4>1. PICK j \in DOMAIN questions \ {k} : questions'[i] = questions[j]
        BY <2>3
      <4>2. ASSUME Strike(questions[j]) = r PROVE FALSE
        <5>1. questions' = RemoveAt(questions, j)
          BY <1>1, <2>6, <4>2, StruckIsMeant DEF SilentInv
        <5>2. \A m \in DOMAIN questions' : \E n \in DOMAIN questions \ {j} : questions'[m] = questions[n]
          BY <1>1, <5>1, OneGoes
        <5>3. PICK n \in DOMAIN questions \ {j} : questions'[i] = questions[n]
          BY <5>2
        <5> QED
          BY <1>1, <4>1, <5>3 DEF NotTwice
      <4> QED
        BY <1>1, <2>6, <4>1, <4>2 DEF SilentInv
    <3> QED
      BY <1>2, <2>2, <2>4, <3>1
  <2> QED
    BY <2>5, <2>6
<1> QED
  BY <1>1, <1>3, <1>4, KnownStrikes

\* A reply has an answer for somebody who does not know it.
LEMMA ReplyTells ==
  ASSUME OneOfAType, AsResolversAsk, SilentInv, Reply
  PROVE  Silent'
<1>1. UNCHANGED <<questions, asked, known>> /\ AnswersInv
  BY DEF Reply, SilentInv
<1>2. CASE NotStruck
  BY <1>1, <1>2 DEF NotStruck, Silent
<1>3. CASE ~NotStruck /\ questions = <<>>
  <2>1. Sent' = {}
    BY <1>3 DEF Reply, NoReply, Sent
  <2> QED
    BY <2>1 DEF Silent
<1>4. CASE ~NotStruck /\ questions # <<>>
  <2>1. 1 \in DOMAIN questions
    BY <1>1, <1>4 DEF AnswersInv
  <2>2. Strike(questions[1]) \notin known
    BY <1>4, <2>1 DEF SilentInv
  <2>3. \E q \in asked : \E a \in Asked(q) : Says(a) = Strike(questions[1])
    BY <1>1, <1>4, <2>1, StrikeIsAsked
  <2>4. \E q \in asked : \E a \in Asked(q) : Says(a) \notin known
    BY <2>2, <2>3
  <2> QED
    BY <1>1, <2>4 DEF Silent
<1> QED
  BY <1>2, <1>3, <1>4

\* No question is asked twice, and its answer strikes it off as soon as it is
\* known: so what is left, somebody does not know.
THEOREM SilentInductive ==
  ASSUME OneOfAType, AsResolversAsk
  PROVE  AnswersSpec => []SilentInv
<1>1. AnswersInit => SilentInv
  <2> SUFFICES ASSUME AnswersInit PROVE SilentInv
    OBVIOUS
  <2>1. questions = <<>> /\ known = {} /\ phase = "questions"
    BY DEF AnswersInit
  <2>2. AnswersInv
    BY DEF AnswersInit, AnswersInv, Sound, Sent, NoReply
  <2> QED
    BY <2>1, <2>2 DEF SilentInv, NotTwice, Silent
<1>2. AnswersInv' /\ SilentInv /\ [AnswersNext]_answersVars => SilentInv'
  <2> SUFFICES ASSUME AnswersInv', SilentInv, [AnswersNext]_answersVars PROVE SilentInv'
    OBVIOUS
  <2>1. AnswersInv
    BY DEF SilentInv
  <2>2. \A x : Strike(x)' = Strike(x)
    BY DEF Strike
  <2>3. CASE \E q \in Queries : Question(q)
    <3>1. PICK q \in Queries : Question(q)
      BY <2>3
    <3>2. NotTwice'
      BY <2>1, <3>1, QuestionIsNew DEF SilentInv
    <3>3. phase = "questions" /\ phase' = phase /\ known' = known
      BY <3>1 DEF Question
    <3>4. known' = {} /\ Silent'
      BY <3>3 DEF SilentInv, Silent
    <3>5. \A i \in DOMAIN questions' : questions'[i].type = "SDPTR" => discovery'
      <4>1. CASE IsDiscovery(q.name, q.type)
        BY <3>1, <4>1 DEF Question
      <4>2. CASE ~IsDiscovery(q.name, q.type) /\ IsOurs(q.name)
        <5> DEFINE x == Parsed(q.name, q.type, q.unicast)
        <5>1. questions' = <<x>> \o questions /\ discovery' = discovery
          BY <3>1, <4>2 DEF Question
        <5>2. x \in ParsedQuestions /\ x.type # "SDPTR" /\ questions \in Seq(ParsedQuestions)
          BY <2>1, ParsedIs, AnswersAssumption DEF Parsed, AnswersInv, Types
        <5> HIDE DEF x
        <5> DEFINE P == {y \in ParsedQuestions : y.type = "SDPTR" => discovery}
        <5>3. <<x>> \in Seq(ParsedQuestions) /\ \A i \in DOMAIN <<x>> : <<x>>[i] \in P
          BY <5>2
        <5>4. \A i \in DOMAIN questions : questions[i] \in P
          BY <5>2 DEF SilentInv
        <5> HIDE DEF P
        <5>5. \A i \in DOMAIN (<<x>> \o questions) : (<<x>> \o questions)[i] \in P
          BY <5>2, <5>3, <5>4, Concatenation
        <5> QED
          BY <5>1, <5>5 DEF P
      <4>3. CASE ~IsDiscovery(q.name, q.type) /\ ~IsOurs(q.name)
        BY <3>1, <4>3 DEF Question, SilentInv
      <4> QED
        BY <4>1, <4>2, <4>3
    <3> QED
      BY <3>2, <3>4, <3>5 DEF SilentInv
  <2>4. CASE Records
    <3>1. phase' = "records" /\ UNCHANGED <<questions, discovery, asked, known, reply>>
      BY <2>4 DEF Records
    <3> QED
      BY <2>2, <3>1 DEF SilentInv, NotTwice, NotStruck, Silent
  <2>5. CASE \E r \in OurRecords : KnownAnswer(r)
    <3>1. phase' \in {"records", "crashed"}
      BY <2>5 DEF KnownAnswer
    <3> QED
      BY <2>5, <3>1, NothingKnownStays DEF SilentInv, Silent
  <2>6. CASE Reply
    <3>1. phase' = "done" /\ UNCHANGED <<questions, discovery, asked, known>>
      BY <2>6 DEF Reply
    <3> QED
      BY <2>2, <2>6, <3>1, ReplyTells DEF SilentInv, NotTwice, NotStruck
  <2>7. CASE NextPacket
    BY <2>7 DEF NextPacket, SilentInv, NotTwice, Silent
  <2>8. CASE UNCHANGED answersVars
    BY <2>2, <2>8 DEF answersVars, SilentInv, NotTwice, NotStruck, Silent, Sent
  <2> QED
    BY <2>3, <2>4, <2>5, <2>6, <2>7, <2>8 DEF AnswersNext
<1> QED
  BY <1>1, <1>2, AnswersInductive, PTL DEF AnswersSpec

\* If types are browsed, instances resolved and hosts looked up, then an asker who
\* knows everything that he asks for is told nothing, but for questions that are
\* never struck off (_mdns_remove_parsed_question).
THEOREM KnowersAreToldNothing ==
  ASSUME OneOfAType, AsResolversAsk
  PROVE  AnswersSpec => []Silent
<1>1. SilentInv => Silent
  BY DEF SilentInv
<1> QED
  BY <1>1, SilentInductive, PTL

=============================================================================
