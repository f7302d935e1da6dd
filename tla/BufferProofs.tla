---------------------------- MODULE BufferProofs ----------------------------
(***************************************************************************)
(* What is proved of the two buffers that are filled piece by piece.       *)
(*                                                                         *)
(* The blackboard, whose areas are registered without a lock: for any      *)
(* number of threads, keys and sizes, and whatever the network tasks and   *)
(* the Wi-Fi events do meanwhile, claimed areas lie apart.                 *)
(*                                                                         *)
(* The packet of mDNS, whose records check for room as they are written    *)
(* and are cut when there is none: for any size of the buffer and any      *)
(* names and records, nothing is written behind its end, the references of *)
(* compressed names lead to labels before them, and names and records are  *)
(* read back as they were written, unless something was cut.               *)
(***************************************************************************)
EXTENDS NetworkInv, MdnsPacketInv, FiniteSetTheorems, SequenceTheorems, Induction, TLAPS

-----------------------------------------------------------------------------
(* The blackboard.                                                          *)

\* What the invariant is about
areas == <<wrPos, claims, reg>>

\* The invariant says nothing of the rest.
LEMMA AreasUnchanged ==
  ASSUME BlackboardInv, UNCHANGED areas
  PROVE  BlackboardInv'
BY DEF BlackboardInv, areas, Pending, Claims

\* An empty blackboard is in order.
LEMMA StartInv == BlackboardStart => BlackboardInv
BY DEF BlackboardStart, BlackboardInv, NoReg, RegOK, Pending, Claims

\* So is the one after a restart.
LEMMA ResetInv ==
  ASSUME BlackboardReset
  PROVE  BlackboardInv'
BY DEF BlackboardReset, BlackboardInv, NoReg, RegOK, Pending, Claims

\* A registration that has not claimed anything, or has its result, changes
\* nothing that is claimed.
LEMMA OtherRegInv ==
  ASSUME BlackboardInv, UNCHANGED <<wrPos, claims>>, NEW t \in Threads, NEW r, RegOK(r),
         reg' = [reg EXCEPT ![t] = r], reg[t].at # "check", r.at # "check"
  PROVE  BlackboardInv'
<1>1. /\ reg' = [u \in Threads |-> reg'[u]]
      /\ \A u \in Threads : reg'[u] = IF u = t THEN r ELSE reg[u]
  BY DEF BlackboardInv
<1>2. Pending' = Pending /\ \A u \in Pending : reg'[u] = reg[u]
  BY <1>1 DEF Pending
<1>3. Claims' = Claims
  BY <1>2 DEF Claims
<1>4. \A u \in Threads : RegOK(reg'[u])
  BY <1>1 DEF BlackboardInv
<1> QED
  BY <1>1, <1>2, <1>3, <1>4 DEF BlackboardInv

\* A claim moves wr_pos over an area that nobody has.
LEMMA ClaimInv ==
  ASSUME BlackboardInv, NEW t \in Threads, Claim(t)
  PROVE  BlackboardInv'
<1> DEFINE a == [pos |-> wrPos, size |-> reg[t].size, granted |-> FALSE]
<1>1. /\ reg' = [u \in Threads |-> reg'[u]]
      /\ \A u \in Threads : u # t => reg'[u] = reg[u]
      /\ t \notin Pending /\ wrPos \in Nat /\ claims' = claims
  BY DEF BlackboardInv, Claim, Pending
<1>2. /\ reg'[t].at = "check" /\ reg'[t].pos = wrPos /\ reg'[t].size = reg[t].size
      /\ reg[t].size \in Nat /\ 0 < reg[t].size /\ wrPos' = wrPos + reg[t].size
      /\ RegOK(reg'[t])
  <2>1. RegOK(reg[t]) /\ reg[t].at = "claim" /\ wrPos' = wrPos + reg[t].size
    BY DEF BlackboardInv, Claim
  <2>2. reg' = [reg EXCEPT ![t] = [[@ EXCEPT !.at = "check"] EXCEPT !.pos = wrPos]]
    BY DEF Claim, BlackboardInv
  <2>3. reg'[t] = [[reg[t] EXCEPT !.at = "check"] EXCEPT !.pos = wrPos]
    BY <2>2 DEF BlackboardInv
  <2>4. wrPos \in Nat
    BY DEF BlackboardInv
  <2> QED
    BY <2>1, <2>3, <2>4 DEF RegOK
<1>3. Pending' = Pending \cup {t}
  BY <1>1, <1>2 DEF Pending
<1>4. Claimed(reg'[t]) = a /\ \A u \in Pending : reg'[u] = reg[u]
  BY <1>1, <1>2 DEF Claimed, Pending
<1>5. Claims' = Claims \cup {a}
  BY <1>1, <1>3, <1>4 DEF Claims
<1>6. \A u \in Threads : RegOK(reg'[u])
  BY <1>1, <1>2 DEF BlackboardInv
<1>7. a.pos = wrPos /\ a.size = reg[t].size
  OBVIOUS
<1> HIDE DEF a
<1>8. \A c : Below(c, wrPos) => Below(c, wrPos') /\ Apart(c, a) /\ Apart(a, c)
  BY <1>1, <1>2, <1>7 DEF Below, Apart
<1>9. Below(a, wrPos')
  BY <1>1, <1>2, <1>7 DEF Below
<1>10. \A i \in 0 .. wrPos' - 1 : \E c \in Claims' : c.pos <= i /\ i < c.pos + c.size
  <2>1. ASSUME NEW i \in 0 .. wrPos' - 1
        PROVE  \E c \in Claims \cup {a} : c.pos <= i /\ i < c.pos + c.size
    <3>1. CASE i < wrPos
      <4>1. i \in 0 .. wrPos - 1
        BY <1>1, <3>1
      <4> QED
        BY <4>1 DEF BlackboardInv
    <3>2. CASE wrPos <= i
      <4>1. a.pos <= i /\ i < a.pos + a.size
        BY <1>1, <1>2, <1>7, <3>2
      <4> QED
        BY <4>1
    <3> QED
      BY <1>1, <3>1, <3>2
  <2> QED
    BY <1>5, <2>1
<1>11. /\ \A c \in claims : Below(c, wrPos') /\ Apart(c, a)
       /\ \A u \in Pending : /\ Below(Claimed(reg[u]), wrPos')
                             /\ Apart(Claimed(reg[u]), a) /\ Apart(a, Claimed(reg[u]))
  BY <1>8 DEF BlackboardInv
<1>12. wrPos' \in Nat
  BY <1>1, <1>2
<1> QED
  BY <1>1, <1>3, <1>4, <1>6, <1>9, <1>10, <1>11, <1>12 DEF BlackboardInv

\* An area is granted if it ends in the buffer, or begins behind it.
LEMMA Granted ==
  ASSUME NEW pos \in Nat, NEW size \in Nat, Minus(BuffSize, pos) >= size, pos <= BuffSize
  PROVE  pos + size <= BuffSize
BY BlackboardAssumption DEF Minus

\* The test after the claim only says whether it is granted.
LEMMA CheckInv ==
  ASSUME BlackboardInv, NEW t \in Threads, Check(t)
  PROVE  BlackboardInv'
<1> DEFINE granted == Minus(BuffSize, reg[t].pos) >= reg[t].size
           a == Area(t, granted)
           c0 == Claimed(reg[t])
<1>1. /\ t \in Pending /\ RegOK(reg[t]) /\ wrPos' = wrPos /\ claims' = claims \cup {a}
      /\ reg' = [reg EXCEPT ![t].at = IF granted THEN "ok" ELSE "lack"]
  BY DEF BlackboardInv, Check, Pending
<1>2. /\ reg' = [u \in Threads |-> reg'[u]]
      /\ \A u \in Threads : u # t => reg'[u] = reg[u]
      /\ reg'[t] = [reg[t] EXCEPT !.at = IF granted THEN "ok" ELSE "lack"]
  BY <1>1 DEF BlackboardInv
<1>3. /\ a.pos = c0.pos /\ a.size = c0.size /\ a.granted \in BOOLEAN
      /\ (a.granted /\ a.pos <= BuffSize => a.pos + a.size <= BuffSize)
  <2>1. a.pos = reg[t].pos /\ a.size = reg[t].size /\ a.granted = granted
    BY DEF Area
  <2>2. reg[t].pos \in Nat /\ reg[t].size \in Nat
    BY <1>1 DEF RegOK
  <2>3. c0.pos = reg[t].pos /\ c0.size = reg[t].size
    BY DEF Claimed
  <2>4. granted /\ reg[t].pos <= BuffSize => reg[t].pos + reg[t].size <= BuffSize
    BY <2>2, Granted
  <2>5. granted \in BOOLEAN
    OBVIOUS
  <2> HIDE DEF a, c0, granted
  <2> QED
    BY <2>1, <2>2, <2>3, <2>4, <2>5
<1>4. reg'[t].at \in {"ok", "lack"} /\ RegOK(reg'[t])
  BY <1>1, <1>2 DEF RegOK
<1> HIDE DEF a, c0, granted
<1>5. Pending' = Pending \ {t} /\ \A u \in Pending' : reg'[u] = reg[u]
  BY <1>2, <1>4 DEF Pending
<1>6. c0 = Claimed(reg[t])
  BY DEF c0
<1>7. /\ Below(c0, wrPos)
      /\ \A c \in claims : Apart(c, c0)
      /\ \A u \in Pending : u # t => Apart(c0, Claimed(reg[u]))
  BY <1>1, <1>6 DEF BlackboardInv
<1>8. /\ \A w : Below(c0, w) => Below(a, w)
      /\ \A c : Apart(c, c0) => Apart(c, a) /\ Apart(a, c)
      /\ \A c : Apart(c0, c) => Apart(a, c)
  BY <1>3 DEF Below, Apart
<1>9. \A u \in Threads : RegOK(reg'[u])
  BY <1>2, <1>4 DEF BlackboardInv
<1>10. \A i \in 0 .. wrPos' - 1 : \E c \in Claims' : c.pos <= i /\ i < c.pos + c.size
  <2>1. ASSUME NEW i \in 0 .. wrPos - 1
        PROVE  \E c \in Claims' : c.pos <= i /\ i < c.pos + c.size
    <3>1. PICK c \in Claims : c.pos <= i /\ i < c.pos + c.size
      BY DEF BlackboardInv
    <3>2. CASE c = c0
      <4>1. a \in Claims'
        BY <1>1 DEF Claims
      <4> QED
        BY <1>3, <3>1, <3>2, <4>1
    <3>3. CASE c # c0
      <4>1. c \in Claims'
        BY <1>1, <1>5, <1>6, <3>3 DEF Claims
      <4> QED
        BY <3>1, <4>1
    <3> QED
      BY <3>2, <3>3
  <2> QED
    BY <1>1, <2>1
<1>11. /\ Below(a, wrPos')
       /\ \A c \in claims : Apart(c, a) /\ Apart(a, c)
       /\ \A u \in Pending' : Apart(a, Claimed(reg[u]))
  BY <1>1, <1>5, <1>7, <1>8
<1>12. \A c \in claims' : Below(c, wrPos') /\ c.granted \in BOOLEAN
  BY <1>1, <1>3, <1>11 DEF BlackboardInv
<1>13. \A c, d \in claims' : c # d => Apart(c, d)
  BY <1>1, <1>11 DEF BlackboardInv
<1>14. \A c \in claims', u \in Pending' : Apart(c, Claimed(reg'[u]))
  BY <1>1, <1>5, <1>11 DEF BlackboardInv
<1>15. /\ \A u \in Pending' : Below(Claimed(reg'[u]), wrPos')
       /\ \A u, v \in Pending' : u # v => Apart(Claimed(reg'[u]), Claimed(reg'[v]))
  BY <1>1, <1>5 DEF BlackboardInv
<1>16. \A c \in claims' : c.granted /\ c.pos <= BuffSize => c.pos + c.size <= BuffSize
  BY <1>1, <1>3 DEF BlackboardInv
<1>17. wrPos' \in Nat
  BY <1>1 DEF BlackboardInv
<1> QED
  BY <1>2, <1>9, <1>10, <1>12, <1>13, <1>14, <1>15, <1>16, <1>17 DEF BlackboardInv

\* What the device and its threads do to the blackboard.
LEMMA RegisterInv ==
  ASSUME BlackboardInv, NEW t \in Threads, NEW key \in Keys, NEW size \in Sizes,
         Register(t, key, size)
  PROVE  BlackboardInv'
<1>1. RegOK(reg[t]) /\ reg[t].at = "none" /\ wrPos \in Nat /\ UNCHANGED <<wrPos, claims>>
  BY DEF BlackboardInv, Register
<1>2. CASE reg' = [reg EXCEPT ![t] = [at |-> "claim", key |-> key, size |-> size, pos |-> wrPos]]
  <2> DEFINE r == [at |-> "claim", key |-> key, size |-> size, pos |-> wrPos]
  <2>1. RegOK(r) /\ r.at = "claim"
    BY <1>1, BlackboardAssumption DEF RegOK
  <2> HIDE DEF r
  <2>2. reg' = [reg EXCEPT ![t] = r]
    BY <1>2 DEF r
  <2> QED
    BY <1>1, <2>1, <2>2, OtherRegInv
<1>3. CASE reg' = [reg EXCEPT ![t].at = "lack"]
  <2> DEFINE r == [reg[t] EXCEPT !.at = "lack"]
  <2>1. RegOK(r) /\ r.at = "lack"
    BY <1>1 DEF RegOK
  <2>2. reg' = [reg EXCEPT ![t] = r]
    BY <1>3 DEF BlackboardInv
  <2> HIDE DEF r
  <2> QED
    BY <1>1, <2>1, <2>2, OtherRegInv
<1> QED
  BY <1>2, <1>3 DEF Register

\* The caller has its result.
LEMMA RegisteredInv ==
  ASSUME BlackboardInv, NEW t \in Threads, reg[t].at \in {"ok", "lack"}, Registered(t)
  PROVE  BlackboardInv'
<1>1. RegOK(NoReg) /\ NoReg.at = "none"
  BY DEF RegOK, NoReg
<1>2. reg' = [reg EXCEPT ![t] = NoReg] /\ UNCHANGED <<wrPos, claims>>
  BY DEF Registered
<1> HIDE DEF NoReg
<1> QED
  BY <1>1, <1>2, OtherRegInv

\* A crash and the steps that begin with one
LEMMA CrashInv ==
  ASSUME Crash
  PROVE  BlackboardInv'
BY ResetInv DEF Crash, Restart

\* A network task's step: it crashes, registers, or leaves the areas alone.
LEMMA TaskStepInv ==
  ASSUME BlackboardInv, NEW t \in Tasks, TaskStep(t)
  PROVE  BlackboardInv'
<1>0. t \in Threads /\ UriKey \in Keys
  BY NetworkAssumption
<1>1. CASE ReadCalled(t) \/ StartProvisioning(t) \/ InitSta(t) \/ WaitBits(t)
  BY <1>1, AreasUnchanged
     DEF ReadCalled, StartProvisioning, InitSta, WaitBits, areas, bbVars
<1>2. CASE Enter(t)
  BY <1>2, CrashInv, AreasUnchanged DEF Enter, areas, bbVars
<1>3. CASE LookUp(t)
  <2>1. CASE Get(UriKey) = None
    <3>1. PICK size \in Sizes : Register(t, UriKey, size)
      BY <1>3, <2>1 DEF LookUp
    <3> QED
      BY <1>0, <3>1, RegisterInv
  <2>2. CASE Get(UriKey) # None
    BY <1>3, <2>2, AreasUnchanged DEF LookUp, areas, bbVars
  <2> QED
    BY <2>1, <2>2
<1>4. CASE Persist(t)
  <2>1. CASE reg[t].at = "lack"
    BY <1>0, <1>4, <2>1, RegisteredInv DEF Persist
  <2>2. CASE reg[t].at # "lack" /\ Get(UriKey) = None
    BY <1>4, <2>2, CrashInv DEF Persist
  <2>3. CASE reg[t].at # "lack" /\ Get(UriKey) # None
    BY <1>4, <2>3, AreasUnchanged DEF Persist, Flush, areas
  <2> QED
    BY <2>1, <2>2, <2>3
<1> QED
  BY <1>1, <1>2, <1>3, <1>4 DEF TaskStep

\* However registrations interleave, and whenever the device restarts, the
\* blackboard stays in order.
THEOREM BlackboardInductive == Spec => []BlackboardInv
<1>1. Init => BlackboardInv
  BY StartInv DEF Init
<1>2. BlackboardInv /\ [Next]_vars => BlackboardInv'
  <2> SUFFICES ASSUME BlackboardInv, [Next]_vars PROVE BlackboardInv'
    OBVIOUS
  <2>1. CASE Boot
    BY <2>1, AreasUnchanged DEF Boot, areas
  <2>2. ASSUME NEW t \in Tasks, TaskStep(t) PROVE BlackboardInv'
    BY <2>2, TaskStepInv
  <2>3. ASSUME NEW t \in Threads, RegisterStep(t) PROVE BlackboardInv'
    BY <2>3, ClaimInv, CheckInv DEF RegisterStep
  <2>4. ASSUME NEW t \in Threads \ Tasks, Other(t) PROVE BlackboardInv'
    BY <2>4, RegisterInv, RegisteredInv DEF Other
  <2>5. CASE EventLoop
    BY <2>5, CrashInv, AreasUnchanged
       DEF EventLoop, HandleStart, HandleGotIp, HandleDisconnected, HandleProvEnd,
           HandleCredFail, SetBits, areas, bbVars
  <2>6. CASE Credentials \/ GotIp \/ Disconnect
    BY <2>6, AreasUnchanged DEF Credentials, GotIp, Disconnect, areas, bbVars
  <2>7. CASE FactoryReset
    BY <2>7, ResetInv DEF FactoryReset, Restart
  <2>8. CASE UNCHANGED vars
    BY <2>8, AreasUnchanged DEF vars, areas, bbVars
  <2> QED
    BY <2>1, <2>2, <2>3, <2>4, <2>5, <2>6, <2>7, <2>8 DEF Next
<1> QED
  BY <1>1, <1>2, PTL DEF Spec

\* What is claimed, and is apart from each other, in order
LEMMA ClaimsInOrder ==
  ASSUME BlackboardInv
  PROVE  /\ \A c \in Claims : Below(c, wrPos) /\ c.granted \in BOOLEAN
         /\ \A c, d \in Claims : c # d => Apart(c, d)
<1>1. \A t \in Pending : Claimed(reg[t]).granted = FALSE
  BY DEF Claimed
<1>2. \A c, d : Apart(c, d) => Apart(d, c)
  BY DEF Apart
<1> QED
  BY <1>1, <1>2 DEF BlackboardInv, Claims

\* No two threads claim the same bytes, and none are skipped.
THEOREM AreasStayDisjoint == Spec => []AreasDisjoint
<1>1. ASSUME BlackboardInv PROVE AreasDisjoint
  <2>1. SUFFICES ASSUME NEW i \in 0 .. wrPos - 1
                 PROVE  Cardinality({c \in Claims : c.pos <= i /\ i < c.pos + c.size}) = 1
    BY DEF AreasDisjoint
  <2>2. PICK b \in Claims : b.pos <= i /\ i < b.pos + b.size
    BY <1>1 DEF BlackboardInv
  <2>3. ASSUME NEW c \in Claims, c.pos <= i, i < c.pos + c.size PROVE c = b
    <3>1. /\ b.pos \in Nat /\ b.size \in Nat /\ c.pos \in Nat /\ c.size \in Nat
          /\ c # b => Apart(c, b)
      BY <1>1, ClaimsInOrder DEF Below
    <3>2. ~Apart(c, b)
      BY <1>1, <2>2, <2>3, <3>1 DEF Apart, BlackboardInv
    <3> QED
      BY <3>1, <3>2
  <2>4. {c \in Claims : c.pos <= i /\ i < c.pos + c.size} = {b}
    BY <2>2, <2>3
  <2> QED
    BY <2>4, FS_Singleton
<1> QED
  BY <1>1, BlackboardInductive, PTL

\* Whoever is granted an area behind the buffer comes after a thread that
\* claimed its end and was refused.
THEOREM OnlyLostIsOutside == Spec => []InsideUntilLost
<1>1. ASSUME BlackboardInv PROVE InsideUntilLost
  <2>1. SUFFICES ASSUME NEW c \in claims, c.granted, ~(c.pos + c.size <= BuffSize)
                 PROVE  \E b \in Claims :
                          ~b.granted /\ b.pos <= BuffSize /\ BuffSize < b.pos + b.size
    BY DEF InsideUntilLost
  <2>2. Below(c, wrPos) /\ ~(c.pos <= BuffSize)
    BY <1>1, <2>1 DEF BlackboardInv
  <2>3. BuffSize \in 0 .. wrPos - 1
    BY <1>1, <2>2, BlackboardAssumption DEF Below, BlackboardInv
  <2>4. PICK b \in Claims : b.pos <= BuffSize /\ BuffSize < b.pos + b.size
    BY <1>1, <2>3 DEF BlackboardInv
  <2>5. ~b.granted
    <3>1. SUFFICES ASSUME b.granted PROVE FALSE
      OBVIOUS
    <3>2. b \in claims
      BY <3>1 DEF Claims, Claimed
    <3>3. b.pos + b.size <= BuffSize /\ b.pos \in Nat /\ b.size \in Nat
      BY <1>1, <2>4, <3>1, <3>2 DEF BlackboardInv, Below
    <3> QED
      BY <2>4, <3>3, BlackboardAssumption
  <2> QED
    BY <2>4, <2>5
<1> QED
  BY <1>1, BlackboardInductive, PTL

-----------------------------------------------------------------------------
(* Packets.                                                                 *)

\* What the functions that write a packet leave as it is
Extends(q, p) ==
  /\ Len(p.cells) <= Len(q.cells) /\ p.used <= q.used
  /\ \A c \in 1 .. Len(p.cells) : q.cells[c].kind = p.cells[c].kind

\* A cell that is written only where there is room for it
NewCells ==
  [kind : {"label"}, value : Labels, size : Nat \ {0}, need : Nat]
    \cup [kind : {"ref", "end", "type", "data"}, value : Nat, size : Nat \ {0}, need : Nat]

CellOK(c) == c \in NewCells /\ c.size <= c.need

\* Where a reference leads
Leads(c, p) ==
  c.kind = "ref" => c.value \in 1 .. Len(p.cells) /\ p.cells[c.value].kind = "label"

\* A cell for which there is room
LEMMA WriteFits ==
  ASSUME NEW p, Fits(p), NEW c \in NewCells,
         p.used + c.size <= MaxPacket, Leads(c, p)
  PROVE  Fits(Write(p, c)) /\ Extends(Write(p, c), p)
<1> DEFINE d == [kind |-> c.kind, value |-> c.value, length |-> 0, at |-> p.used, size |-> c.size]
           q == Write(p, c)
<1>1. p \in Packets /\ p.cells \in Seq(CellSet) /\ p.used \in Nat
  BY DEF Fits, Packets
<1>2. d \in CellSet
  BY <1>1 DEF CellSet, NewCells
<1>3. q = [p EXCEPT !.cells = Append(p.cells, d), !.used = p.used + c.size]
  BY DEF Write
<1>4. q \in Packets /\ q.cells = Append(p.cells, d) /\ q.used = p.used + c.size
  <2>0. c.size \in Nat
    BY DEF NewCells
  <2> HIDE DEF d, q
  <2>1. Append(p.cells, d) \in Seq(CellSet) /\ p.used + c.size \in Nat
    BY <1>1, <1>2, <2>0
  <2> QED
    BY <1>1, <1>3, <2>1 DEF Packets
<1> HIDE DEF q
<1> DEFINE n == Len(p.cells)
<1>5. /\ n \in Nat /\ Len(q.cells) = n + 1 /\ DOMAIN q.cells = 1 .. n + 1 /\ DOMAIN p.cells = 1 .. n
      /\ q.cells[n + 1] = d /\ \A i \in 1 .. n : q.cells[i] = p.cells[i]
  BY <1>1, <1>2, <1>4
<1>6. Adjacent(q)
  <2> SUFFICES ASSUME NEW i \in 1 .. n + 1
               PROVE  q.cells[i].at + q.cells[i].size =
                        IF i = n + 1 THEN q.used ELSE q.cells[i + 1].at
    BY <1>5 DEF Adjacent
  <2>1. CASE i = n + 1
    BY <1>4, <1>5, <2>1
  <2>2. CASE i = n /\ n # 0
    <3>1. p.cells[n].at + p.cells[n].size = p.used
      BY <1>5, <2>2 DEF Fits, Adjacent
    <3>2. q.cells[n + 1].at = p.used
      BY <1>5
    <3>3. q.cells[n] = p.cells[n] /\ i # n + 1 /\ i + 1 = n + 1
      BY <1>5, <2>2
    <3> QED
      BY <2>2, <3>1, <3>2, <3>3
  <2>3. CASE i < n
    <3>1. i \in 1 .. n /\ i # n /\ i # n + 1 /\ i + 1 \in 1 .. n
      BY <1>5, <2>3
    <3>2. p.cells[i].at + p.cells[i].size = p.cells[i + 1].at
      BY <1>5, <3>1 DEF Fits, Adjacent
    <3>3. q.cells[i] = p.cells[i] /\ q.cells[i + 1] = p.cells[i + 1]
      BY <1>5, <3>1
    <3> QED
      BY <3>1, <3>2, <3>3
  <2> QED
    BY <1>5, <2>1, <2>2, <2>3
<1>7. Backward(q)
  <2> SUFFICES ASSUME NEW i \in 1 .. n + 1, q.cells[i].kind = "ref"
               PROVE  q.cells[i].value \in 1 .. i - 1 /\ q.cells[q.cells[i].value].kind = "label"
    BY <1>5 DEF Backward
  <2>1. CASE i = n + 1
    <3>1. c.kind = "ref" /\ q.cells[i].value = c.value
      BY <1>5, <2>1
    <3> QED
      BY <1>5, <2>1, <3>1 DEF Leads
  <2>2. CASE i \in 1 .. n
    <3>1. p.cells[i].value \in 1 .. i - 1 /\ p.cells[p.cells[i].value].kind = "label"
      BY <1>5, <2>2 DEF Fits, Backward
    <3>2. p.cells[i].value \in 1 .. n
      BY <1>5, <2>2, <3>1
    <3> QED
      BY <1>5, <2>2, <3>1, <3>2
  <2> QED
    BY <1>5, <2>1, <2>2
<1>8. q.used <= MaxPacket /\ p.used <= q.used
  <2>1. c.size \in Nat
    BY DEF NewCells
  <2> QED
    BY <1>1, <1>4, <2>1
<1>9. Extends(q, p)
  BY <1>5, <1>8 DEF Extends
<1> QED
  BY <1>4, <1>6, <1>7, <1>8, <1>9 DEF Fits, q

\* A packet extends itself.
LEMMA ExtendsSelf ==
  ASSUME NEW p, Fits(p)
  PROVE  Extends(p, p)
BY DEF Fits, Packets, Extends

\* What extends a packet extends it on and on.
LEMMA ExtendsOn ==
  ASSUME NEW p, NEW q, NEW r, Fits(p), Fits(q), Fits(r), Extends(q, p), Extends(r, q)
  PROVE  Extends(r, p)
<1>1. /\ Len(p.cells) \in Nat /\ Len(q.cells) \in Nat /\ Len(r.cells) \in Nat
      /\ p.used \in Nat /\ q.used \in Nat /\ r.used \in Nat
  BY DEF Fits, Packets
<1> QED
  BY <1>1 DEF Extends

\* Fields that do not matter
LEMMA OtherFields ==
  ASSUME NEW p, Fits(p), NEW ok \in BOOLEAN, NEW cut \in BOOLEAN
  PROVE  /\ Fits([p EXCEPT !.ok = ok]) /\ Extends([p EXCEPT !.ok = ok], p)
         /\ [p EXCEPT !.ok = ok].ok = ok
         /\ Fits([p EXCEPT !.ok = ok, !.cut = cut])
         /\ Extends([p EXCEPT !.ok = ok, !.cut = cut], p)
         /\ [p EXCEPT !.ok = ok, !.cut = cut].ok = ok
<1> DEFINE q == [p EXCEPT !.ok = ok]
           r == [p EXCEPT !.ok = ok, !.cut = cut]
<1>1. p \in Packets
  BY DEF Fits
<1>2. q \in Packets /\ q.cells = p.cells /\ q.used = p.used /\ q.ok = ok
  BY <1>1 DEF Packets
<1>3. r \in Packets /\ r.cells = p.cells /\ r.used = p.used /\ r.ok = ok
  BY <1>1 DEF Packets
<1> HIDE DEF q, r
<1>4. Fits(q) /\ Extends(q, p)
  BY <1>1, <1>2, ExtendsSelf DEF Fits, Adjacent, Backward, Extends
<1>5. Fits(r) /\ Extends(r, p)
  BY <1>1, <1>3, ExtendsSelf DEF Fits, Adjacent, Backward, Extends
<1> QED
  BY <1>2, <1>3, <1>4, <1>5 DEF q, r

\* What there is no room for is not written.
LEMMA RefuseFits ==
  ASSUME NEW p, Fits(p)
  PROVE  Fits(Refuse(p)) /\ Extends(Refuse(p), p) /\ Refuse(p).ok = FALSE
BY OtherFields DEF Refuse

\* Written if there is room, and refused otherwise
LEMMA CellFits ==
  ASSUME NEW p, Fits(p), NEW c, CellOK(c), Leads(c, p)
  PROVE  Fits(AppendCell(p, c)) /\ Extends(AppendCell(p, c), p)
<1>1. p.used \in Nat /\ c.need \in Nat /\ c.size \in Nat /\ MaxPacket \in Nat /\ c.size <= c.need
  BY PacketAssumption DEF Fits, Packets, CellOK, NewCells
<1>2. CASE ~p.ok
  BY <1>2, ExtendsSelf DEF AppendCell
<1>3. CASE p.ok /\ p.used + c.need > MaxPacket
  BY <1>3, RefuseFits DEF AppendCell
<1>4. CASE p.ok /\ ~(p.used + c.need > MaxPacket)
  <2>1. p.used + c.size <= MaxPacket
    BY <1>1, <1>4
  <2>2. Fits(Write(p, c)) /\ Extends(Write(p, c), p)
    BY <2>1, WriteFits DEF CellOK
  <2>3. AppendCell(p, c) = Write(p, c)
    BY <1>4 DEF AppendCell
  <2> QED
    BY <2>2, <2>3
<1> QED
  BY <1>2, <1>3, <1>4

\* What appending keeps, cell by cell
LEMMA AllCells ==
  ASSUME NEW p, NEW cs, Len(cs) \in Nat, NEW W, p \in W[0],
         \A i \in 1 .. Len(cs) : \A q \in W[i - 1] : AppendCell(q, cs[i]) \in W[i]
  PROVE  AppendCells(p, cs) \in W[Len(cs)]
<1> DEFINE n == Len(cs)
           Is(f) == f = [i \in 0 .. n |-> IF i = 0 THEN p ELSE AppendCell(f[i - 1], cs[i])]
           a == CHOOSE f : Is(f)
           V == UNION {W[i] : i \in 0 .. n}
           Step(i, q) == IF i \in 1 .. n /\ q \in W[i - 1] THEN AppendCell(q, cs[i]) ELSE q
           T == [i \in Nat |-> [q \in V |-> Step(i, q)]]
<1>1. AppendCells(p, cs) = a[n]
  BY DEF AppendCells
<1>2. p \in V /\ \A i \in 0 .. n : \A q \in W[i] : q \in V
  OBVIOUS
<1>3. ASSUME NEW i \in Nat, NEW q \in V PROVE Step(i, q) \in V
  <2>1. CASE i \in 1 .. n /\ q \in W[i - 1]
    <3>1. AppendCell(q, cs[i]) \in W[i] /\ i \in 0 .. n
      BY <2>1
    <3> HIDE DEF V
    <3> QED
      BY <1>2, <2>1, <3>1
  <2>2. CASE ~(i \in 1 .. n /\ q \in W[i - 1])
    BY <2>2
  <2> QED
    BY <2>1, <2>2
<1>4. T \in [Nat -> [V -> V]] /\ \A i \in Nat, q \in V : T[i][q] = Step(i, q)
  BY <1>3
<1> HIDE DEF V, T
<1>5. \E f : Is(f)
  <2>1. PICK f \in [0 .. n -> V] : Follows(f, p, T, n)
    BY <1>2, <1>4, Recursion
  <2>2. f[0] = p /\ \A i \in 1 .. n : f[i] = T[i][f[i - 1]]
    BY <2>1 DEF Follows
  <2> DEFINE S == {i \in 0 .. n : f[i] \in W[i]}
  <2>3. 0 \in S
    BY <2>2
  <2>4. ASSUME NEW i \in 1 .. n, i - 1 \in S
        PROVE  f[i] = AppendCell(f[i - 1], cs[i]) /\ i \in S
    <3>1. i \in Nat /\ i \in 0 .. n /\ f[i - 1] \in V /\ f[i - 1] \in W[i - 1]
      BY <2>1, <2>4
    <3>2. f[i] = Step(i, f[i - 1])
      BY <1>4, <2>2, <3>1
    <3> QED
      BY <3>1, <3>2
  <2>5. 0 .. n \subseteq S
    <3> HIDE DEF S
    <3> QED
      BY <2>3, <2>4, UpTo
  <2>6. \A i \in 1 .. n : i - 1 \in S
    <3> HIDE DEF S
    <3> QED
      BY <2>5
  <2>7. \A i \in 0 .. n : f[i] = IF i = 0 THEN p ELSE AppendCell(f[i - 1], cs[i])
    <3> HIDE DEF S
    <3> QED
      BY <2>2, <2>4, <2>6
  <2>8. Is(f)
    BY <2>7
  <2> QED
    BY <2>8
<1>6. Is(a)
  <2> HIDE DEF Is
  <2> QED
    BY <1>5
<1> HIDE DEF a
<1> DEFINE OK == {i \in 0 .. n : a[i] \in W[i]}
<1>7. 0 \in OK
  BY <1>6
<1>8. ASSUME NEW i \in 1 .. n, i - 1 \in OK PROVE i \in OK
  <2>0. i \in Nat /\ i \in 0 .. n /\ i # 0
    OBVIOUS
  <2>1. a[i] = AppendCell(a[i - 1], cs[i])
    <3> HIDE DEF n
    <3> QED
      BY <1>6, <2>0
  <2>2. a[i - 1] \in W[i - 1]
    BY <1>8
  <2> QED
    BY <2>0, <2>1, <2>2
<1>9. 0 .. n \subseteq OK
  <2> HIDE DEF OK, Is
  <2> QED
    BY <1>7, <1>8, UpTo
<1>10. a[n] \in W[n]
  BY <1>9
<1> QED
  BY <1>1, <1>10

\* Cells that are no references, one after the other
LEMMA CellsFit ==
  ASSUME NEW p, Fits(p), NEW cs, Len(cs) \in Nat,
         \A i \in 1 .. Len(cs) : CellOK(cs[i]) /\ cs[i].kind # "ref"
  PROVE  Fits(AppendCells(p, cs)) /\ Extends(AppendCells(p, cs), p)
<1> DEFINE V == {q \in Packets : Fits(q) /\ Extends(q, p)}
           W == [i \in 0 .. Len(cs) |-> V]
<1>1. p \in V
  BY ExtendsSelf DEF Fits
<1>2. ASSUME NEW i \in 1 .. Len(cs), NEW q \in V PROVE AppendCell(q, cs[i]) \in V
  <2>1. Fits(AppendCell(q, cs[i])) /\ Extends(AppendCell(q, cs[i]), q)
    BY CellFits DEF Leads
  <2>2. Extends(AppendCell(q, cs[i]), p)
    BY <2>1, ExtendsOn
  <2> QED
    BY <2>1, <2>2 DEF Fits
<1> HIDE DEF V
<1>3. p \in W[0] /\ \A i \in 1 .. Len(cs) : \A q \in W[i - 1] : AppendCell(q, cs[i]) \in W[i]
  BY <1>1, <1>2
<1>4. W[Len(cs)] = V
  OBVIOUS
<1> HIDE DEF W
<1>5. AppendCells(p, cs) \in V
  BY <1>3, <1>4, AllCells
<1> QED
  BY <1>5 DEF V

-----------------------------------------------------------------------------
(* The cells a packet is written of.                                        *)

\* The cells that records are made of
LEMMA CellsOK ==
  /\ \A l \in Labels : CellOK(String(l)) /\ String(l).kind # "ref"
  /\ \A n \in Nat \ {0} : CellOK(Data(n)) /\ Data(n).kind \notin {"label", "ref"}
  /\ \A n \in Nat : CellOK(TxtEntry(n)) /\ TxtEntry(n).kind \notin {"label", "ref"}
  /\ CellOK(Cell("end", 0, 1, 1)) /\ CellOK(Cell("type", 0, 10, 11))
  /\ \A n \in Nat : CellOK(Cell("ref", n, 2, 2))
BY PacketAssumption DEF CellOK, NewCells, Cell, String, Data, TxtEntry

\* The byte that ends a name
LEMMA EndFits ==
  ASSUME NEW p, Fits(p)
  PROVE  Fits(AppendU8(p)) /\ Extends(AppendU8(p), p)
<1>1. Leads(Cell("end", 0, 1, 1), p)
  BY DEF Leads, Cell
<1> QED
  BY <1>1, CellsOK, CellFits DEF AppendU8

\* A reference to a label that is there
LEMMA RefFits ==
  ASSUME NEW p, Fits(p), NEW to \in 1 .. Len(p.cells), p.cells[to].kind = "label"
  PROVE  Fits(AppendRef(p, to)) /\ Extends(AppendRef(p, to), p)
<1>1. Leads(Cell("ref", to, 2, 2), p) /\ to \in Nat
  BY DEF Leads, Cell
<1> QED
  BY <1>1, CellsOK, CellFits DEF AppendRef

\* Behind the header of a record there is one byte left.
LEMMA TypeFits ==
  ASSUME NEW p, Fits(p)
  PROVE  /\ Fits(AppendType(p)) /\ Extends(AppendType(p), p)
         /\ AppendType(p).ok => AppendType(p).used + 1 <= MaxPacket
<1> DEFINE c == Cell("type", 0, 10, 11)
<1>1. Leads(c, p) /\ c.size = 10 /\ c.need = 11
  BY DEF Leads, Cell
<1>2. AppendType(p).ok => AppendType(p).used + 1 <= MaxPacket
  <2>1. p \in Packets /\ p.used \in Nat /\ MaxPacket \in Nat
    BY PacketAssumption DEF Fits, Packets
  <2>2. Refuse(p).ok = FALSE
    BY RefuseFits
  <2>3. Write(p, c).used = p.used + c.size
    <3> HIDE DEF c
    <3> QED
      BY <2>1 DEF Write, Packets
  <2>4. AppendType(p) = AppendCell(p, c)
    BY DEF AppendType
  <2> HIDE DEF c
  <2>5. CASE ~p.ok
    BY <2>4, <2>5 DEF AppendCell
  <2>6. CASE p.ok /\ p.used + c.need > MaxPacket
    BY <2>2, <2>4, <2>6 DEF AppendCell
  <2>7. CASE p.ok /\ ~(p.used + c.need > MaxPacket)
    BY <1>1, <2>1, <2>3, <2>4, <2>7 DEF AppendCell
  <2> QED
    BY <2>5, <2>6, <2>7
<1> QED
  BY <1>1, <1>2, CellsOK, CellFits DEF AppendType

\* The data of a TXT record without texts take that byte.
LEMMA NoTxtFits ==
  ASSUME NEW p, Fits(p), p.ok => p.used + 1 <= MaxPacket
  PROVE  Fits(NoTxt(p)) /\ Extends(NoTxt(p), p)
<1> DEFINE c == Cell("data", 0, 1, 0)
<1>1. /\ c \in NewCells
      /\ c.size = 1 /\ Leads(c, p)
  BY DEF Leads, Cell, NewCells
<1>2. NoTxt(p) = IF ~p.ok THEN p ELSE Write(p, c)
  BY DEF NoTxt
<1> HIDE DEF c
<1>3. CASE ~p.ok
  BY <1>2, <1>3, ExtendsSelf
<1>4. CASE p.ok
  <2>1. p.used + c.size <= MaxPacket
    BY <1>1, <1>4
  <2>2. Fits(Write(p, c)) /\ Extends(Write(p, c), p)
    BY <1>1, <2>1, WriteFits
  <2> QED
    BY <1>2, <1>4, <2>2
<1> QED
  BY <1>3, <1>4

-----------------------------------------------------------------------------
(* Names.                                                                   *)

\* The names that are written
LEMMA NamesTyped ==
  /\ \A s \in Services : /\ Type(s) \in Seq(Labels) /\ Instance(s) \in Seq(Labels)
                         /\ Host(Service[s].host) \in Seq(Labels)
                         /\ \A sub \in Labels : <<sub, Sub>> \o Type(s) \in Seq(Labels)
  /\ \A h \in Hosts : Host(h) \in Seq(Labels)
  /\ Discovery \o <<Local>> \in Seq(Labels)
<1>1. Local \in Labels /\ Sub \in Labels /\ Discovery \in Seq(Labels)
  BY PacketAssumption
<1>2. ASSUME NEW s \in Services
      PROVE  /\ Type(s) \in Seq(Labels) /\ Instance(s) \in Seq(Labels)
             /\ Host(Service[s].host) \in Seq(Labels)
             /\ \A sub \in Labels : <<sub, Sub>> \o Type(s) \in Seq(Labels)
  <2>1. /\ Service[s].instance \in Labels /\ Service[s].service \in Labels
        /\ Service[s].proto \in Labels /\ Service[s].host \in Labels
    BY PacketAssumption
  <2>2. Type(s) \in Seq(Labels) /\ Host(Service[s].host) \in Seq(Labels)
    BY <1>1, <2>1 DEF Type, Host
  <2>3. <<Service[s].instance>> \in Seq(Labels) /\ \A sub \in Labels : <<sub, Sub>> \in Seq(Labels)
    BY <1>1, <2>1
  <2> QED
    BY <2>2, <2>3 DEF Instance
<1>3. \A h \in Hosts : Host(h) \in Seq(Labels)
  BY <1>2 DEF Hosts
<1>4. Discovery \o <<Local>> \in Seq(Labels)
  BY <1>1
<1> QED
  BY <1>2, <1>3, <1>4

\* What is left of them is left of labels.
LEMMA RestsTyped ==
  /\ NamesWritten \subseteq Seq(Labels) /\ Rests \subseteq Seq(Labels) /\ <<>> \in Rests
  /\ \A n \in NamesWritten : \A i \in 1 .. Len(n) + 1 : SubSeq(n, i, Len(n)) \in Rests
<1>1. NamesWritten \subseteq Seq(Labels)
  <2>1. ASSUME NEW s \in Services, NEW sub \in ToSet(Service[s].subtypes)
        PROVE  <<sub, Sub>> \o Type(s) \in Seq(Labels)
    <3>1. sub \in Labels
      BY PacketAssumption DEF ToSet
    <3> QED
      BY <3>1, NamesTyped
  <2>2. ASSUME NEW n \in NamesWritten
        PROVE  \/ \E s \in Services : \/ n = Type(s) \/ n = Instance(s)
                                     \/ \E sub \in ToSet(Service[s].subtypes) : n = <<sub, Sub>> \o Type(s)
               \/ \E h \in Hosts : n = Host(h)
               \/ n = Discovery \o <<Local>>
    BY DEF NamesWritten
  <2> QED
    BY <2>1, <2>2, NamesTyped
<1>2. ASSUME NEW n \in NamesWritten, NEW i \in 1 .. Len(n) + 1
      PROVE  SubSeq(n, i, Len(n)) \in Rests /\ SubSeq(n, i, Len(n)) \in Seq(Labels)
  <2>1. n \in Seq(Labels)
    BY <1>1
  <2>2. SubSeq(n, i, Len(n)) \in Seq(Labels)
    BY <2>1
  <2> QED
    BY <2>2 DEF Rests
<1>3. \A r \in Rests : \E n \in NamesWritten : \E i \in 1 .. Len(n) + 1 : r = SubSeq(n, i, Len(n))
  BY DEF Rests
<1>4. <<>> \in Rests
  <2> DEFINE n == Discovery \o <<Local>>
  <2>1. n \in NamesWritten
    BY DEF NamesWritten
  <2>2. n \in Seq(Labels)
    BY NamesTyped
  <2> HIDE DEF n
  <2>3. SubSeq(n, Len(n) + 1, Len(n)) = <<>> /\ Len(n) + 1 \in 1 .. Len(n) + 1
    BY <2>2
  <2> QED
    BY <1>2, <2>1, <2>3
<1> QED
  BY <1>1, <1>2, <1>3, <1>4

\* The name that is noted, and the success that counts a part of it
LEMMA NamedFits ==
  ASSUME NEW p, NEW q, Fits(p), Fits(q), Extends(q, p), NEW ok \in BOOLEAN,
         NEW name \in Seq(Labels), NEW r,
         r = [q EXCEPT !.ok = ok, !.names = @ \cup {[first |-> Len(p.cells) + 1, name |-> name]}]
  PROVE  Fits(r) /\ Extends(r, p)
<1> DEFINE m == [first |-> Len(p.cells) + 1, name |-> name]
<1>1. q \in Packets /\ p \in Packets
  BY DEF Fits
<1>2. m \in [first : Nat, name : Seq(Labels)]
  BY <1>1 DEF Packets
<1>3. r = [q EXCEPT !.ok = ok, !.names = q.names \cup {m}]
  OBVIOUS
<1> HIDE DEF m
<1>4. r \in Packets /\ r.cells = q.cells /\ r.used = q.used
  <2>1. q.names \cup {m} \in SUBSET [first : Nat, name : Seq(Labels)]
    BY <1>1, <1>2 DEF Packets
  <2> DEFINE n == q.names \cup {m}
  <2> HIDE DEF n
  <2> QED
    BY <1>1, <1>3, <2>1 DEF Packets, n
<1>5. Adjacent(r) /\ Backward(r)
  <2>1. Adjacent(q) /\ Backward(q)
    BY DEF Fits
  <2> QED
    BY <1>4, <2>1 DEF Adjacent, Backward
<1>6. Fits(r)
  BY <1>4, <1>5 DEF Fits
<1>7. Extends(r, p)
  BY <1>4 DEF Extends
<1> QED
  BY <1>6, <1>7

\* What is left of a name behind its first labels
Rest(name, i) == SubSeq(name, i, Len(name))

\* How many labels of a name are written out, and where the rest is found
Upto(p, name) == Min({i \in DOMAIN name : Stops(p.cells, Rest(name, i)) # {}} \cup {Len(name) + 1}) - 1

Place(p, name) == Min(Stops(p.cells, Rest(name, Upto(p, name) + 1)))

\* The rest begins with a label that the packet has.
LEMMA PlaceFound ==
  ASSUME NEW p, Fits(p), NEW name \in Seq(Labels)
  PROVE  /\ Upto(p, name) \in 0 .. Len(name)
         /\ Upto(p, name) # Len(name) =>
              /\ Place(p, name) \in Stops(p.cells, Rest(name, Upto(p, name) + 1))
              /\ Place(p, name) \in 1 .. Len(p.cells) /\ p.cells[Place(p, name)].kind = "label"
<1> DEFINE found == {i \in DOMAIN name : Stops(p.cells, Rest(name, i)) # {}}
           upto  == Upto(p, name)
<1>1. upto \in 0 .. Len(name) /\ (upto # Len(name) => upto + 1 \in found)
  <2> DEFINE S == found \cup {Len(name) + 1}
  <2>1. S \subseteq Nat /\ S # {} /\ Len(name) \in Nat /\ \A i \in found : i \in 1 .. Len(name)
    OBVIOUS
  <2>2. Len(name) + 1 \in S /\ upto = Min(S) - 1
    BY DEF Upto
  <2> HIDE DEF found, upto
  <2>3. Min(S) \in S
    <3> HIDE DEF S
    <3> QED
      BY <2>1, LeastNumber DEF Min
  <2> QED
    BY <2>1, <2>2, <2>3
<1>2. ASSUME upto # Len(name)
      PROVE  /\ Place(p, name) \in Stops(p.cells, Rest(name, upto + 1))
             /\ Place(p, name) \in 1 .. Len(p.cells) /\ p.cells[Place(p, name)].kind = "label"
  <2> DEFINE S == Stops(p.cells, Rest(name, upto + 1))
  <2>1. S # {}
    BY <1>1, <1>2
  <2>2. p.cells \in Seq(CellSet)
    BY DEF Fits, Packets
  <2>3. \A c \in S : c \in 1 .. Len(p.cells) /\ p.cells[c].kind = "label"
    BY <2>2 DEF Stops
  <2>4. S \subseteq Nat /\ Place(p, name) = Min(S)
    BY <2>3 DEF Place
  <2> HIDE DEF S
  <2>5. Min(S) \in S
    BY <2>1, <2>4, LeastNumber DEF Min
  <2> QED
    BY <2>3, <2>4, <2>5 DEF S
<1> QED
  BY <1>1, <1>2

\* A name, for which a reference to an earlier one may be found label by label
LEMMA FqdnFits ==
  ASSUME NEW p, Fits(p), NEW name \in Seq(Labels)
  PROVE  Fits(AppendFqdn(p, name)) /\ Extends(AppendFqdn(p, name), p)
<1>1. CASE ~p.ok
  BY <1>1, ExtendsSelf DEF AppendFqdn
<1>2. CASE p.ok
  <2> DEFINE upto    == Upto(p, name)
             cs      == [i \in 1 .. upto |-> String(name[i])]
             written == AppendCells(p, cs)
             place   == Place(p, name)
             ref     == AppendRef(written, place)
             final   == IF upto = Len(name) THEN AppendU8(written)
                        ELSE IF ~written.ok THEN written
                        ELSE IF Readable(LabelsFrom(p.cells)[place]) THEN ref
                        ELSE Refuse(written)
             ok      == Len(final.cells) > Len(p.cells)
  <2>1. AppendFqdn(p, name) =
          [final EXCEPT !.ok = ok, !.names = @ \cup {[first |-> Len(p.cells) + 1, name |-> name]}]
    BY <1>2 DEF AppendFqdn, Upto, Place, Rest
  <2>2. /\ upto \in 0 .. Len(name)
        /\ upto # Len(name) => place \in 1 .. Len(p.cells) /\ p.cells[place].kind = "label"
    BY PlaceFound
  <2> HIDE DEF upto, place
  <2>3. Fits(written) /\ Extends(written, p)
    <3>1. Len(cs) \in Nat /\ \A i \in 1 .. Len(cs) : cs[i] = String(name[i]) /\ name[i] \in Labels
      BY <2>2
    <3> HIDE DEF cs
    <3>2. \A i \in 1 .. Len(cs) : CellOK(cs[i]) /\ cs[i].kind # "ref"
      BY <3>1, CellsOK
    <3> QED
      BY <3>1, <3>2, CellsFit
  <2> HIDE DEF written
  <2>4. upto # Len(name) => Fits(ref) /\ Extends(ref, written)
    <3>1. Len(written.cells) \in Nat /\ Len(p.cells) \in Nat
      BY <2>3 DEF Fits, Packets
    <3>2. upto # Len(name) => place \in 1 .. Len(written.cells) /\ written.cells[place].kind = "label"
      BY <2>2, <2>3, <3>1 DEF Extends
    <3> QED
      BY <2>3, <3>2, RefFits
  <2>5. Fits(AppendU8(written)) /\ Extends(AppendU8(written), written)
    BY <2>3, EndFits
  <2>6. Fits(Refuse(written)) /\ Extends(Refuse(written), written)
    BY <2>3, RefuseFits
  <2>7. Fits(final) /\ Extends(final, p)
    <3> HIDE DEF ref
    <3>1. Fits(final) /\ Extends(final, written)
      BY <2>3, <2>4, <2>5, <2>6, ExtendsSelf
    <3> HIDE DEF final
    <3> QED
      BY <2>3, <3>1, ExtendsOn
  <2> HIDE DEF final
  <2>8. ok \in BOOLEAN
    OBVIOUS
  <2> HIDE DEF ok
  <2> QED
    BY <2>1, <2>7, <2>8, NamedFits
<1> QED
  BY <1>1, <1>2

-----------------------------------------------------------------------------
(* What is read at a cell.                                                  *)

\* The function by which names are read obeys its equation, and reads what any
\* other reads that does: a label makes a name shorter, and a reference leads to
\* a label.
LEMMA ReadIs ==
  ASSUME NEW p, Fits(p), NEW L, ReadsAs(L, p)
  PROVE  \A c \in DOMAIN p.cells : LabelsFrom(p.cells)[c] = L[c]
<1> DEFINE n == Len(p.cells)
           At(f, c) == IF c > n THEN <<>>
                       ELSE CASE p.cells[c].kind = "label" -> <<p.cells[c].value>> \o f[c + 1]
                              [] p.cells[c].kind = "ref"   -> f[p.cells[c].value]
                              [] OTHER                     -> <<>>
           Is(f) == f = [c \in 1 .. n + 1 |-> At(f, c)]
           F == CHOOSE f : Is(f)
           M == [c \in 1 .. n + 1 |-> IF c = n + 1 THEN <<>> ELSE L[c]]
<1>1. LabelsFrom(p.cells) = F
  BY DEF LabelsFrom
<1>2. n \in Nat /\ DOMAIN p.cells = 1 .. n
  BY DEF Fits, Packets
<1>3. \A c \in 1 .. n :
        /\ p.cells[c].kind = "label" => c + 1 \in 1 .. n /\ L[c] = <<p.cells[c].value>> \o L[c + 1]
        /\ p.cells[c].kind = "ref" => /\ p.cells[c].value \in 1 .. n /\ L[c] = L[p.cells[c].value]
                                      /\ p.cells[p.cells[c].value].kind = "label"
        /\ p.cells[c].kind \notin {"label", "ref"} => L[c] = <<>>
  <2> SUFFICES ASSUME NEW c \in 1 .. n
               PROVE  /\ p.cells[c].kind = "label" =>
                           c + 1 \in 1 .. n /\ L[c] = <<p.cells[c].value>> \o L[c + 1]
                      /\ p.cells[c].kind = "ref" =>
                           /\ p.cells[c].value \in 1 .. n /\ L[c] = L[p.cells[c].value]
                           /\ p.cells[p.cells[c].value].kind = "label"
                      /\ p.cells[c].kind \notin {"label", "ref"} => L[c] = <<>>
    OBVIOUS
  <2>1. /\ p.cells[c].kind = "label" => c + 1 \in 1 .. n /\ L[c] = <<p.cells[c].value>> \o L[c + 1]
        /\ p.cells[c].kind = "ref" => L[c] = L[p.cells[c].value]
        /\ p.cells[c].kind \notin {"label", "ref"} => L[c] = <<>>
    BY <1>2 DEF ReadsAs
  <2>2. p.cells[c].kind = "ref" =>
          p.cells[c].value \in 1 .. c - 1 /\ p.cells[p.cells[c].value].kind = "label"
    BY <1>2 DEF Fits, Backward
  <2> QED
    BY <1>2, <2>1, <2>2
<1>4. Is(M)
  <2>1. M[n + 1] = <<>> /\ \A c \in 1 .. n : M[c] = L[c]
    BY <1>2
  <2> HIDE DEF M
  <2>2. ASSUME NEW c \in 1 .. n PROVE M[c] = At(M, c)
    <3>1. M[c] = L[c] /\ ~(c > n)
      BY <1>2, <2>1
    <3>2. /\ p.cells[c].kind = "label" => M[c] = <<p.cells[c].value>> \o M[c + 1]
          /\ p.cells[c].kind = "ref" => M[c] = M[p.cells[c].value]
          /\ p.cells[c].kind \notin {"label", "ref"} => M[c] = <<>>
      BY <1>3, <2>1
    <3> QED
      BY <3>1, <3>2
  <2>3. M[n + 1] = At(M, n + 1)
    BY <1>2, <2>1
  <2>4. \A c \in 1 .. n + 1 : M[c] = At(M, c)
    <3> HIDE DEF At
    <3> QED
      BY <1>2, <2>2, <2>3
  <2>5. M = [c \in 1 .. n + 1 |-> M[c]]
    BY DEF M
  <2> HIDE DEF At
  <2> QED
    BY <2>4, <2>5
<1>5. Is(F)
  <2> HIDE DEF Is, M
  <2> QED
    BY <1>4
<1>6. \A c \in 1 .. n : F[c] = At(F, c)
  <2>1. \A c \in 1 .. n : c \in 1 .. n + 1
    BY <1>2
  <2> HIDE DEF At, F
  <2> QED
    BY <1>5, <2>1
<1>7. \A c \in 1 .. n :
        /\ p.cells[c].kind = "label" => F[c] = <<p.cells[c].value>> \o F[c + 1]
        /\ p.cells[c].kind = "ref" => F[c] = F[p.cells[c].value]
        /\ p.cells[c].kind \notin {"label", "ref"} => F[c] = <<>>
  <2> HIDE DEF F
  <2> SUFFICES ASSUME NEW c \in 1 .. n
               PROVE  /\ p.cells[c].kind = "label" => F[c] = <<p.cells[c].value>> \o F[c + 1]
                      /\ p.cells[c].kind = "ref" => F[c] = F[p.cells[c].value]
                      /\ p.cells[c].kind \notin {"label", "ref"} => F[c] = <<>>
    OBVIOUS
  <2>1. F[c] = At(F, c) /\ ~(c > n)
    BY <1>2, <1>6
  <2> QED
    BY <2>1
<1> HIDE DEF F, M
<1>8. \A c \in 1 .. n : L[c] \in Seq(Labels) /\ Len(L[c]) \in Nat
  BY <1>2, RestsTyped DEF ReadsAs
<1> DEFINE S == {k \in Nat : \A c \in 1 .. n : Len(L[c]) < k => F[c] = L[c]}
<1>9. 0 \in S
  BY <1>8
<1>10. ASSUME NEW k \in Nat, k \in S PROVE k + 1 \in S
  <2>1. \A c \in 1 .. n : Len(L[c]) < k => F[c] = L[c]
    BY <1>10
  <2>2. ASSUME NEW c \in 1 .. n, Len(L[c]) < k + 1, p.cells[c].kind = "label"
        PROVE  F[c] = L[c]
    <3>1. c + 1 \in 1 .. n /\ L[c] = <<p.cells[c].value>> \o L[c + 1]
      BY <1>3, <2>2
    <3>2. Len(L[c]) = 1 + Len(L[c + 1])
      BY <1>8, <3>1
    <3>3. F[c + 1] = L[c + 1]
      BY <1>8, <2>1, <2>2, <3>1, <3>2
    <3> QED
      BY <1>7, <2>2, <3>1, <3>3
  <2>3. ASSUME NEW c \in 1 .. n, Len(L[c]) < k + 1, p.cells[c].kind = "ref"
        PROVE  F[c] = L[c]
    <3> DEFINE v == p.cells[c].value
    <3>1. v \in 1 .. n /\ L[c] = L[v] /\ p.cells[v].kind = "label" /\ F[c] = F[v]
      BY <1>3, <1>7, <2>3
    <3>2. F[v] = L[v]
      BY <2>2, <2>3, <3>1
    <3> QED
      BY <3>1, <3>2
  <2>4. ASSUME NEW c \in 1 .. n, Len(L[c]) < k + 1, p.cells[c].kind \notin {"label", "ref"}
        PROVE  F[c] = L[c]
    BY <1>3, <1>7, <2>4
  <2> QED
    BY <2>2, <2>3, <2>4
<1>11. Nat \subseteq S
  <2> HIDE DEF S
  <2> QED
    BY <1>9, <1>10, SetInduction
<1>12. ASSUME NEW c \in 1 .. n PROVE F[c] = L[c]
  <2>1. Len(L[c]) + 1 \in S /\ Len(L[c]) < Len(L[c]) + 1
    <3> HIDE DEF S
    <3> QED
      BY <1>8, <1>11
  <2> QED
    BY <2>1
<1> QED
  BY <1>1, <1>2, <1>12

\* So that is what names are told by.
LEMMA ToldBy ==
  ASSUME NEW p, Fits(p), NEW L, ReadsAs(L, p), p.ok
  PROVE  Told(p)
<1>1. DOMAIN L = DOMAIN p.cells /\ L = [c \in DOMAIN L |-> L[c]]
  BY DEF ReadsAs
<1>2. [c \in DOMAIN p.cells |-> LabelsFrom(p.cells)[c]] = L
  BY <1>1, ReadIs
<1> QED
  BY <1>2 DEF Told

\* m cells behind the packet p, K being what is read at them
ReadsOn(K, q, m, L, p) ==
  /\ Len(q.cells) = Len(p.cells) + m
  /\ K \in [1 .. m -> Rests]
  /\ \A c \in 1 .. Len(p.cells) :
       q.cells[c].kind = p.cells[c].kind /\ q.cells[c].value = p.cells[c].value
  /\ \A j \in 1 .. m :
       /\ q.cells[Len(p.cells) + j].kind = "label" =>
            j + 1 \in 1 .. m /\ K[j] = <<q.cells[Len(p.cells) + j].value>> \o K[j + 1]
       /\ q.cells[Len(p.cells) + j].kind = "ref" =>
            /\ q.cells[Len(p.cells) + j].value \in 1 .. Len(p.cells)
            /\ K[j] = L[q.cells[Len(p.cells) + j].value]
       /\ q.cells[Len(p.cells) + j].kind \notin {"label", "ref"} => K[j] = <<>>
  /\ \A n \in q.names :
       n \in p.names \/ (m # 0 /\ n.first = Len(p.cells) + 1 /\ n.name = K[1])

\* Then something can be read at every cell of the packet q.
LEMMA ReadOn ==
  ASSUME NEW p, Fits(p), NEW L, ReadsAs(L, p), NEW q, Fits(q),
         NEW m \in Nat, NEW K, ReadsOn(K, q, m, L, p)
  PROVE  \E M : ReadsAs(M, q)
<1> DEFINE n == Len(p.cells)
           M == [c \in DOMAIN q.cells |-> IF c <= n THEN L[c] ELSE K[c - n]]
<1> USE DEF ReadsOn
<1>1. /\ n \in Nat /\ DOMAIN p.cells = 1 .. n /\ DOMAIN q.cells = 1 .. n + m
      /\ \A c \in 1 .. n + m : c \in 1 .. n \/ (c - n \in 1 .. m /\ c = n + (c - n) /\ ~(c <= n))
      /\ \A c \in 1 .. n : c <= n /\ c \in 1 .. n + m
      /\ \A j \in 1 .. m : n + j \in 1 .. n + m /\ ~(n + j <= n) /\ (n + j) - n = j
  <2>1. p.cells \in Seq(CellSet) /\ q.cells \in Seq(CellSet)
    BY DEF Fits, Packets
  <2>2. n \in Nat /\ DOMAIN p.cells = 1 .. n /\ DOMAIN q.cells = 1 .. n + m
    <3>1. Len(p.cells) \in Nat /\ DOMAIN p.cells = 1 .. Len(p.cells) /\ DOMAIN q.cells = 1 .. Len(q.cells)
      BY <2>1
    <3> QED
      BY <3>1
  <2>3. ASSUME NEW c \in 1 .. n + m
        PROVE  c \in 1 .. n \/ (c - n \in 1 .. m /\ c = n + (c - n) /\ ~(c <= n))
    <3>1. n \in Nat /\ c \in Nat /\ c >= 1 /\ c <= n + m
      BY <2>2
    <3> HIDE DEF n
    <3>2. CASE c <= n
      BY <3>1, <3>2
    <3>3. CASE ~(c <= n)
      BY <3>1, <3>3
    <3> QED
      BY <3>2, <3>3
  <2>4. ASSUME NEW c \in 1 .. n PROVE c <= n /\ c \in 1 .. n + m
    BY <2>2
  <2>5. ASSUME NEW j \in 1 .. m PROVE n + j \in 1 .. n + m /\ ~(n + j <= n) /\ (n + j) - n = j
    BY <2>2
  <2> HIDE DEF n
  <2> QED
    BY <2>2, <2>3, <2>4, <2>5
<1>2. /\ L \in [1 .. n -> Rests]
      /\ \A x \in p.names : x.first \in 1 .. n /\ L[x.first] = x.name
  BY <1>1 DEF ReadsAs
<1>3. /\ \A c \in 1 .. n : M[c] = L[c]
      /\ \A j \in 1 .. m : M[n + j] = K[j]
  BY <1>1
<1>4. M \in [1 .. n + m -> Rests]
  <2>1. ASSUME NEW c \in 1 .. n + m PROVE M[c] \in Rests
    <3>1. CASE c \in 1 .. n
      <4> HIDE DEF n, M
      <4> QED
        BY <1>2, <1>3, <3>1
    <3>2. CASE ~(c \in 1 .. n)
      <4>1. c - n \in 1 .. m /\ c = n + (c - n)
        BY <1>1, <3>2
      <4>2. M[c] = K[c - n]
        <5> DEFINE j == c - n
        <5> HIDE DEF j, n, M
        <5> QED
          BY <1>3, <4>1 DEF j
      <4> HIDE DEF M
      <4> QED
        BY <4>1, <4>2
    <3> QED
      BY <3>1, <3>2
  <2>2. M = [c \in 1 .. n + m |-> M[c]]
    BY <1>1
  <2> HIDE DEF M, n
  <2> QED
    BY <2>1, <2>2
<1>5. \A x \in q.names : x.first \in 1 .. n + m /\ M[x.first] = x.name
  <2> SUFFICES ASSUME NEW x \in q.names PROVE x.first \in 1 .. n + m /\ M[x.first] = x.name
    OBVIOUS
  <2>1. CASE x \in p.names
    <3> HIDE DEF M
    <3> QED
      BY <1>1, <1>2, <1>3, <2>1
  <2>2. CASE m # 0 /\ x.first = n + 1 /\ x.name = K[1]
    <3>1. 1 \in 1 .. m
      BY <2>2
    <3>2. n + 1 \in 1 .. n + m /\ M[n + 1] = K[1]
      <4> HIDE DEF M, n
      <4> QED
        BY <1>1, <1>3, <3>1
    <3> HIDE DEF M, n
    <3> QED
      BY <2>2, <3>2
  <2> QED
    BY <2>1, <2>2
<1>6. ASSUME NEW c \in 1 .. n + m
      PROVE  /\ q.cells[c].kind = "label" =>
                  c + 1 \in 1 .. n + m /\ M[c] = <<q.cells[c].value>> \o M[c + 1]
             /\ q.cells[c].kind = "ref" => M[c] = M[q.cells[c].value]
             /\ q.cells[c].kind \notin {"label", "ref"} => M[c] = <<>>
  <2> HIDE DEF M
  <2>1. CASE c \in 1 .. n
    <3>1. M[c] = L[c] /\ q.cells[c].kind = p.cells[c].kind /\ q.cells[c].value = p.cells[c].value
      BY <1>3, <2>1
    <3>2. p.cells[c].kind = "label" => /\ c + 1 \in 1 .. n /\ L[c] = <<p.cells[c].value>> \o L[c + 1]
                                       /\ M[c + 1] = L[c + 1] /\ c + 1 \in 1 .. n + m
      BY <1>1, <1>3, <2>1 DEF ReadsAs
    <3>3. p.cells[c].kind = "ref" => /\ p.cells[c].value \in 1 .. n /\ L[c] = L[p.cells[c].value]
                                     /\ M[p.cells[c].value] = L[p.cells[c].value]
      <4>1. p.cells[c].kind = "ref" => p.cells[c].value \in 1 .. c - 1 /\ L[c] = L[p.cells[c].value]
        BY <1>1, <2>1 DEF ReadsAs, Fits, Backward
      <4>2. p.cells[c].kind = "ref" => p.cells[c].value \in 1 .. n
        BY <1>1, <2>1, <4>1
      <4> QED
        BY <1>3, <4>1, <4>2
    <3>4. p.cells[c].kind \notin {"label", "ref"} => L[c] = <<>>
      BY <1>1, <2>1 DEF ReadsAs
    <3> HIDE DEF n
    <3> QED
      BY <3>1, <3>2, <3>3, <3>4
  <2>2. CASE ~(c \in 1 .. n)
    <3> DEFINE j == c - n
    <3>1. j \in 1 .. m /\ c = n + j /\ M[c] = K[j]
      BY <1>1, <1>3, <2>2
    <3>2. q.cells[c].kind = "label" =>
            /\ j + 1 \in 1 .. m /\ K[j] = <<q.cells[c].value>> \o K[j + 1]
            /\ c + 1 = n + (j + 1) /\ M[n + (j + 1)] = K[j + 1] /\ c + 1 \in 1 .. n + m
      <4>1. q.cells[c].kind = "label" => j + 1 \in 1 .. m /\ K[j] = <<q.cells[c].value>> \o K[j + 1]
        BY <3>1
      <4>2. c + 1 = n + (j + 1)
        BY <1>1, <3>1
      <4> HIDE DEF j, n
      <4> QED
        BY <1>1, <1>3, <4>1, <4>2
    <3>3. q.cells[c].kind = "ref" => /\ q.cells[c].value \in 1 .. n /\ K[j] = L[q.cells[c].value]
                                     /\ M[q.cells[c].value] = L[q.cells[c].value]
      <4>1. q.cells[c].kind = "ref" => q.cells[c].value \in 1 .. n /\ K[j] = L[q.cells[c].value]
        BY <3>1
      <4> HIDE DEF j, n
      <4> QED
        BY <1>3, <4>1
    <3>4. q.cells[c].kind \notin {"label", "ref"} => K[j] = <<>>
      BY <3>1
    <3> HIDE DEF j, n
    <3> QED
      BY <3>1, <3>2, <3>3, <3>4
  <2> QED
    BY <2>1, <2>2
<1> HIDE DEF M
<1>7. ReadsAs(M, q)
  BY <1>1, <1>4, <1>5, <1>6 DEF ReadsAs
<1> QED
  BY <1>7

-----------------------------------------------------------------------------
(* What is told is told after more has been appended.                       *)

\* q is p with the first m of the cells cs behind it, or cut.
Adds(q, p, cs, m) ==
  /\ p.cut => q.cut
  /\ p.ok /\ ~q.cut =>
       /\ q.ok /\ q.names = p.names /\ Len(q.cells) = Len(p.cells) + m
       /\ \A c \in 1 .. Len(p.cells) : q.cells[c] = p.cells[c]
       /\ \A j \in 1 .. m : /\ q.cells[Len(p.cells) + j].kind = cs[j].kind
                            /\ q.cells[Len(p.cells) + j].value = cs[j].value

\* Without any cell
LEMMA AddsNone ==
  ASSUME NEW p, Fits(p), NEW cs
  PROVE  Adds(p, p, cs, 0)
<1>1. Len(p.cells) \in Nat
  BY DEF Fits, Packets
<1> QED
  BY <1>1 DEF Adds

\* One cell more, for which there is room, ...
LEMMA WriteAdds ==
  ASSUME NEW p, NEW q, NEW cs, NEW m \in Nat, Fits(p), Fits(q), Adds(q, p, cs, m),
         cs[m + 1] \in NewCells
  PROVE  Adds(Write(q, cs[m + 1]), p, cs, m + 1)
<1> DEFINE c == cs[m + 1]
           d == [kind |-> c.kind, value |-> c.value, length |-> 0, at |-> q.used, size |-> c.size]
           r == Write(q, c)
           n == Len(p.cells)
<1>1. q \in Packets /\ q.cells \in Seq(CellSet) /\ n \in Nat
  BY DEF Fits, Packets
<1>2. r = [q EXCEPT !.cells = Append(q.cells, d), !.used = q.used + c.size]
  BY DEF Write
<1>3. r.cells = Append(q.cells, d) /\ r.ok = q.ok /\ r.cut = q.cut /\ r.names = q.names
  <2> HIDE DEF d, r, c
  <2> QED
    BY <1>1, <1>2 DEF Packets
<1>4. d.kind = c.kind /\ d.value = c.value
  OBVIOUS
<1> HIDE DEF d, r, c
<1>5. ASSUME p.ok, ~r.cut
      PROVE  /\ r.ok /\ r.names = p.names /\ Len(r.cells) = n + (m + 1)
             /\ \A i \in 1 .. n : r.cells[i] = p.cells[i]
             /\ \A j \in 1 .. m + 1 : r.cells[n + j].kind = cs[j].kind /\ r.cells[n + j].value = cs[j].value
  <2>1. /\ q.ok /\ q.names = p.names /\ Len(q.cells) = n + m
        /\ \A i \in 1 .. n : q.cells[i] = p.cells[i]
        /\ \A j \in 1 .. m : q.cells[n + j].kind = cs[j].kind /\ q.cells[n + j].value = cs[j].value
    BY <1>3, <1>5 DEF Adds
  <2> HIDE DEF n
  <2>2. /\ Len(r.cells) = n + (m + 1) /\ r.cells[n + (m + 1)] = d
        /\ \A i \in 1 .. n + m : r.cells[i] = q.cells[i]
    <3>1. Len(r.cells) = Len(q.cells) + 1 /\ r.cells[Len(q.cells) + 1] = d
          /\ \A i \in 1 .. Len(q.cells) : r.cells[i] = q.cells[i]
      BY <1>1, <1>3
    <3>2. n + (m + 1) = (n + m) + 1
      BY <1>1
    <3> QED
      BY <2>1, <3>1, <3>2
  <2>3. ASSUME NEW i \in 1 .. n
        PROVE  r.cells[i] = p.cells[i]
    <3>1. i \in 1 .. n + m
      BY <1>1
    <3> QED
      BY <2>1, <2>2, <3>1
  <2>4. ASSUME NEW j \in 1 .. m + 1
        PROVE  r.cells[n + j].kind = cs[j].kind /\ r.cells[n + j].value = cs[j].value
    <3>1. CASE j = m + 1
      BY <1>4, <2>2, <3>1 DEF c
    <3>2. CASE j # m + 1
      <4>1. j \in 1 .. m /\ n + j \in 1 .. n + m
        BY <1>1, <3>2
      <4> QED
        BY <2>1, <2>2, <4>1
    <3> QED
      BY <3>1, <3>2
  <2> QED
    BY <1>3, <2>1, <2>2, <2>3, <2>4
<1> QED
  BY <1>3, <1>5 DEF Adds, r, c, n

\* ... or for which there may be none
LEMMA CellAdds ==
  ASSUME NEW p, NEW q, NEW cs, NEW m \in Nat, Fits(p), Fits(q), Adds(q, p, cs, m), CellOK(cs[m + 1])
  PROVE  Adds(AppendCell(q, cs[m + 1]), p, cs, m + 1)
<1> DEFINE c == cs[m + 1]
<1>1. CASE ~q.ok
  BY <1>1 DEF AppendCell, Adds
<1>2. CASE q.ok /\ q.used + c.need > MaxPacket
  <2>1. Refuse(q).cut = TRUE
    BY DEF Refuse, Fits, Packets
  <2> QED
    BY <1>2, <2>1 DEF AppendCell, Adds
<1>3. CASE q.ok /\ ~(q.used + c.need > MaxPacket)
  BY <1>3, WriteAdds DEF AppendCell, CellOK
<1> QED
  BY <1>1, <1>2, <1>3

\* All of them
LEMMA CellsAdd ==
  ASSUME NEW p, Fits(p), NEW cs, Len(cs) \in Nat,
         \A i \in 1 .. Len(cs) : CellOK(cs[i]) /\ cs[i].kind # "ref"
  PROVE  Adds(AppendCells(p, cs), p, cs, Len(cs))
<1> DEFINE W == [i \in 0 .. Len(cs) |-> {q \in Packets : Fits(q) /\ Adds(q, p, cs, i)}]
<1>1. p \in W[0]
  BY AddsNone DEF Fits
<1>2. ASSUME NEW i \in 1 .. Len(cs), NEW q \in W[i - 1] PROVE AppendCell(q, cs[i]) \in W[i]
  <2>1. i - 1 \in 0 .. Len(cs) /\ i \in 0 .. Len(cs) /\ i - 1 \in Nat /\ (i - 1) + 1 = i
    OBVIOUS
  <2>2. Fits(q) /\ Adds(q, p, cs, i - 1)
    BY <2>1
  <2>3. Fits(AppendCell(q, cs[i]))
    BY <2>2, CellFits DEF Leads
  <2>4. Adds(AppendCell(q, cs[i]), p, cs, i)
    <3> DEFINE m == i - 1
    <3>1. m \in Nat /\ m + 1 = i /\ Adds(q, p, cs, m)
      BY <2>1, <2>2
    <3> HIDE DEF m
    <3>2. Adds(AppendCell(q, cs[m + 1]), p, cs, m + 1)
      BY <2>2, <3>1, CellAdds
    <3> QED
      BY <3>1, <3>2
  <2> QED
    BY <2>1, <2>3, <2>4 DEF Fits
<1>3. \A x : x \in W[Len(cs)] => Adds(x, p, cs, Len(cs))
  OBVIOUS
<1> HIDE DEF W
<1>4. AppendCells(p, cs) \in W[Len(cs)]
  BY <1>1, <1>2, AllCells
<1> QED
  BY <1>3, <1>4

\* q is p with m cells behind it that are in no name, and perhaps with another
\* length in a header, or cut.
Plain(q, p, m) ==
  /\ p.cut => q.cut
  /\ p.ok /\ ~q.cut =>
       /\ q.ok /\ q.names = p.names /\ Len(q.cells) = Len(p.cells) + m
       /\ \A c \in 1 .. Len(p.cells) :
            q.cells[c].kind = p.cells[c].kind /\ q.cells[c].value = p.cells[c].value
       /\ \A j \in 1 .. m : q.cells[Len(p.cells) + j].kind \notin {"label", "ref"}

\* That changes no name.
LEMMA PlainWell ==
  ASSUME NEW p, Well(p), NEW q, Fits(q), NEW m \in Nat, Plain(q, p, m)
  PROVE  Well(q)
<1> SUFFICES ASSUME ShortLabels, ~q.cut
             PROVE  q.ok /\ ReadsAs([c \in DOMAIN q.cells |-> LabelsFrom(q.cells)[c]], q)
  BY DEF Well, Told
<1> DEFINE L == [c \in DOMAIN p.cells |-> LabelsFrom(p.cells)[c]]
           K == [j \in 1 .. m |-> <<>>]
<1>1. Fits(p) /\ ~p.cut /\ p.ok /\ ReadsAs(L, p)
  BY DEF Well, Told, Plain
<1> HIDE DEF L
<1>2. /\ q.ok /\ q.names = p.names /\ Len(q.cells) = Len(p.cells) + m
      /\ \A c \in 1 .. Len(p.cells) :
           q.cells[c].kind = p.cells[c].kind /\ q.cells[c].value = p.cells[c].value
      /\ \A j \in 1 .. m : q.cells[Len(p.cells) + j].kind \notin {"label", "ref"}
  BY <1>1 DEF Plain
<1>3. K \in [1 .. m -> Rests] /\ \A j \in 1 .. m : K[j] = <<>>
  BY RestsTyped
<1>4. \E M : ReadsAs(M, q)
  <2>1. ReadsOn(K, q, m, L, p)
    <3> HIDE DEF K
    <3> QED
      BY <1>2, <1>3 DEF ReadsOn
  <2> HIDE DEF K
  <2> QED
    BY <1>1, <2>1, ReadOn
<1> HIDE DEF K
<1> QED
  <2>1. Told(q)
    BY <1>2, <1>4, ToldBy
  <2> QED
    BY <2>1 DEF Told

\* Headers and data are in no name.
LEMMA AddsWell ==
  ASSUME NEW p, Well(p), NEW q, Fits(q), NEW m \in Nat, NEW cs, Adds(q, p, cs, m),
         \A j \in 1 .. m : cs[j].kind \notin {"label", "ref"}
  PROVE  Well(q)
<1>1. Plain(q, p, m)
  BY DEF Adds, Plain
<1> QED
  BY <1>1, PlainWell

-----------------------------------------------------------------------------
(* A name, once written.                                                    *)

\* What is found is the rest of the name, for nothing else can look like it.
LEMMA FoundIsRest ==
  ASSUME NEW p, Fits(p), NEW L, ReadsAs(L, p), ShortLabels, NEW r \in Rests, r # <<>>,
         NEW c \in Stops(p.cells, r)
  PROVE  L[c] = r /\ Readable(LabelsFrom(p.cells)[c])
<1>1. c \in DOMAIN p.cells /\ LabelsFrom(p.cells)[c] = L[c] /\ L[c] \in Rests
  BY ReadIs DEF Stops, ReadsAs
<1>2. L[c] \in Seq(Labels)
  BY <1>1, RestsTyped
<1>3. Readable(L[c])
  BY <1>2 DEF Readable, ShortLabels
<1>4. p.cells[c].kind = "label" /\ p.cells[c].value = r[1] /\ Same(L[c], r)
  BY <1>1, <1>3 DEF Stops
<1>5. c + 1 \in DOMAIN p.cells /\ L[c] = <<r[1]>> \o L[c + 1] /\ L[c + 1] \in Rests
  BY <1>1, <1>4 DEF ReadsAs
<1>6. L[c] # <<>> /\ L[c][1] = r[1]
  <2>1. L[c + 1] \in Seq(Labels)
    BY <1>5, RestsTyped
  <2> QED
    BY <1>5, <2>1
<1>7. Parts(L[c]) = r
  BY <1>4 DEF Same
<1>8. L[c] = r
  BY <1>1, <1>6, <1>7, NamesAssumption
<1> QED
  BY <1>1, <1>3, <1>8

\* What is read at the labels of a name, and behind them
LEMMA RestsOn ==
  ASSUME NEW name \in NamesWritten
  PROVE  /\ Len(name) \in Nat /\ name \in Seq(Labels) /\ Rest(name, 1) = name
         /\ Rest(name, Len(name) + 1) = <<>>
         /\ \A i \in 1 .. Len(name) + 1 : Rest(name, i) \in Rests
         /\ \A i \in 1 .. Len(name) : Rest(name, i) = <<name[i]>> \o Rest(name, i + 1) /\ Rest(name, i) # <<>>
<1>1. name \in Seq(Labels)
  BY RestsTyped
<1>2. Len(name) \in Nat /\ Rest(name, 1) = name /\ Rest(name, Len(name) + 1) = <<>>
  BY <1>1 DEF Rest
<1>3. \A i \in 1 .. Len(name) + 1 : Rest(name, i) \in Rests
  BY RestsTyped DEF Rest
<1>4. ASSUME NEW i \in 1 .. Len(name)
      PROVE  Rest(name, i) = <<name[i]>> \o Rest(name, i + 1) /\ Rest(name, i) # <<>>
  <2>1. Rest(name, i) = <<name[i]>> \o Rest(name, i + 1)
    BY <1>1, <1>2, SubSeqRecursiveFirst DEF Rest
  <2>2. Len(Rest(name, i)) = Len(name) - i + 1
    BY <1>1, <1>2, SubSeqProperties DEF Rest
  <2> QED
    BY <1>2, <2>1, <2>2
<1> QED
  BY <1>1, <1>2, <1>3, <1>4

\* One cell alone
LEMMA OneAdds ==
  ASSUME NEW p, Fits(p), NEW c, CellOK(c)
  PROVE  Adds(AppendCell(p, c), p, <<c>>, 1)
<1> DEFINE cs == <<c>>
<1>1. cs[0 + 1] = c /\ 0 + 1 = 1
  OBVIOUS
<1> HIDE DEF cs
<1>2. Adds(p, p, cs, 0) /\ CellOK(cs[0 + 1]) /\ 0 \in Nat
  BY <1>1, AddsNone
<1>3. Adds(AppendCell(p, cs[0 + 1]), p, cs, 0 + 1)
  BY <1>2, CellAdds
<1> QED
  BY <1>1, <1>3 DEF cs

\* q is p with the first k labels of a name behind it, and then an end or a
\* reference to the rest.
Named(q, p, name, k) ==
  /\ q.ok /\ Len(q.cells) = Len(p.cells) + (k + 1)
  /\ q.names = p.names \cup {[first |-> Len(p.cells) + 1, name |-> name]}
  /\ \A c \in 1 .. Len(p.cells) : q.cells[c] = p.cells[c]
  /\ \A j \in 1 .. k : /\ q.cells[Len(p.cells) + j].kind = "label"
                       /\ q.cells[Len(p.cells) + j].value = name[j]
  /\ k = Len(name) => q.cells[Len(p.cells) + (k + 1)].kind = "end"
  /\ k # Len(name) => /\ q.cells[Len(p.cells) + (k + 1)].kind = "ref"
                      /\ q.cells[Len(p.cells) + (k + 1)].value = Place(p, name)

\* q is p with the first k of the cells cs and the cell d behind it.
Then(q, p, cs, k, d) ==
  /\ q.names = p.names /\ Len(q.cells) = Len(p.cells) + (k + 1)
  /\ \A i \in 1 .. Len(p.cells) : q.cells[i] = p.cells[i]
  /\ \A j \in 1 .. k : /\ q.cells[Len(p.cells) + j].kind = cs[j].kind
                       /\ q.cells[Len(p.cells) + j].value = cs[j].value
  /\ q.cells[Len(p.cells) + (k + 1)].kind = d.kind
  /\ q.cells[Len(p.cells) + (k + 1)].value = d.value

\* Some cells, and then one
LEMMA SomeThenOne ==
  ASSUME NEW p, Fits(p), p.ok, NEW k \in Nat, NEW cs, NEW w, Adds(w, p, cs, k),
         NEW ds, NEW q, Adds(q, w, ds, 1), ~q.cut
  PROVE  Then(q, p, cs, k, ds[1])
<1> DEFINE n == Len(p.cells)
<1>1. n \in Nat
  BY DEF Fits, Packets
<1>2. ~w.cut /\ w.ok
  BY DEF Adds
<1>3. /\ w.names = p.names /\ Len(w.cells) = n + k
      /\ \A i \in 1 .. n : w.cells[i] = p.cells[i]
      /\ \A j \in 1 .. k : w.cells[n + j].kind = cs[j].kind /\ w.cells[n + j].value = cs[j].value
  BY <1>2 DEF Adds
<1>4. /\ q.names = w.names /\ Len(q.cells) = Len(w.cells) + 1
      /\ \A i \in 1 .. Len(w.cells) : q.cells[i] = w.cells[i]
      /\ q.cells[Len(w.cells) + 1].kind = ds[1].kind /\ q.cells[Len(w.cells) + 1].value = ds[1].value
  <2>1. 1 \in 1 .. 1
    OBVIOUS
  <2> QED
    BY <1>2, <2>1 DEF Adds
<1> HIDE DEF n
<1>5. n + (k + 1) = (n + k) + 1 /\ (\A i \in 1 .. n : i \in 1 .. n + k)
      /\ \A j \in 1 .. k : n + j \in 1 .. n + k
  BY <1>1
<1>6. /\ q.names = p.names /\ Len(q.cells) = n + (k + 1)
      /\ \A i \in 1 .. n : q.cells[i] = p.cells[i]
      /\ \A j \in 1 .. k : q.cells[n + j].kind = cs[j].kind /\ q.cells[n + j].value = cs[j].value
      /\ q.cells[n + (k + 1)].kind = ds[1].kind /\ q.cells[n + (k + 1)].value = ds[1].value
  BY <1>3, <1>4, <1>5
<1> QED
  BY <1>6 DEF n, Then

\* What a name leaves in a packet in which it fits
LEMMA FqdnCells ==
  ASSUME NEW p, Fits(p), NEW name \in Seq(Labels)
  PROVE  /\ p.cut => AppendFqdn(p, name).cut
         /\ p.ok /\ ~AppendFqdn(p, name).cut => Named(AppendFqdn(p, name), p, name, Upto(p, name))
<1>0. Fits(AppendFqdn(p, name))
  BY FqdnFits
<1>1. CASE ~p.ok
  BY <1>1 DEF AppendFqdn
<1>2. CASE p.ok
  <2> DEFINE r       == AppendFqdn(p, name)
             upto    == Upto(p, name)
             place   == Place(p, name)
             cs      == [i \in 1 .. upto |-> String(name[i])]
             written == AppendCells(p, cs)
             ref     == AppendRef(written, place)
             final   == IF upto = Len(name) THEN AppendU8(written)
                        ELSE IF ~written.ok THEN written
                        ELSE IF Readable(LabelsFrom(p.cells)[place]) THEN ref
                        ELSE Refuse(written)
  <2>1. r = [final EXCEPT !.ok = Len(final.cells) > Len(p.cells),
                          !.names = @ \cup {[first |-> Len(p.cells) + 1, name |-> name]}]
    BY <1>2 DEF AppendFqdn, Upto, Place, Rest
  <2>2. /\ upto \in 0 .. Len(name)
        /\ upto # Len(name) =>
             /\ place \in Stops(p.cells, Rest(name, upto + 1))
             /\ place \in 1 .. Len(p.cells) /\ p.cells[place].kind = "label"
    BY PlaceFound
  <2> HIDE DEF upto, place
  <2>3. /\ Fits(written) /\ Extends(written, p)
        /\ Adds(written, p, cs, upto)
    <3>1. Len(cs) = upto /\ upto \in Nat /\ \A i \in 1 .. Len(cs) : cs[i] = String(name[i]) /\ name[i] \in Labels
      BY <2>2
    <3> HIDE DEF cs
    <3>2. \A i \in 1 .. Len(cs) : CellOK(cs[i]) /\ cs[i].kind # "ref"
      BY <3>1, CellsOK
    <3> QED
      BY <3>1, <3>2, CellsFit, CellsAdd
  <2> HIDE DEF written
  <2>4. /\ Fits(AppendU8(written)) /\ Fits(Refuse(written)) /\ Refuse(written).cut = TRUE
        /\ upto # Len(name) => Fits(ref)
    <3>1. Len(written.cells) \in Nat /\ Len(p.cells) \in Nat
      BY <2>3 DEF Fits, Packets
    <3>2. upto # Len(name) => place \in 1 .. Len(written.cells) /\ written.cells[place].kind = "label"
      BY <2>2, <2>3, <3>1 DEF Extends
    <3>3. Refuse(written).cut = TRUE
      BY <2>3 DEF Refuse, Fits, Packets
    <3> QED
      BY <2>3, <3>2, <3>3, EndFits, RefFits, RefuseFits
  <2>5. Fits(final)
    <3> HIDE DEF ref
    <3> QED
      BY <2>3, <2>4
  <2>6. /\ r.cells = final.cells /\ r.cut = final.cut
        /\ r.names = final.names \cup {[first |-> Len(p.cells) + 1, name |-> name]}
        /\ r.ok = (Len(final.cells) > Len(p.cells))
    <3> HIDE DEF final, r
    <3>1. final \in Packets
      BY <2>5 DEF Fits
    <3> QED
      BY <2>1, <3>1 DEF Packets
  <2> SUFFICES ASSUME ~r.cut PROVE ~p.cut /\ Named(r, p, name, upto)
    BY <1>2 DEF upto
  <2>7. /\ ~written.cut /\ ~p.cut /\ written.ok
        /\ final = IF upto = Len(name) THEN AppendU8(written) ELSE ref
        /\ Adds(AppendU8(written), written, <<Cell("end", 0, 1, 1)>>, 1)
        /\ upto # Len(name) => Adds(ref, written, <<Cell("ref", place, 2, 2)>>, 1)
    <3>1. Adds(AppendU8(written), written, <<Cell("end", 0, 1, 1)>>, 1)
      BY <2>3, CellsOK, OneAdds DEF AppendU8
    <3>2. upto # Len(name) => Adds(ref, written, <<Cell("ref", place, 2, 2)>>, 1)
      <4>1. upto # Len(name) => place \in Nat
        BY <2>2
      <4> QED
        BY <2>3, <4>1, CellsOK, OneAdds DEF AppendRef
    <3> HIDE DEF r, ref
    <3>3. ~final.cut
      BY <2>6
    <3>4. ~written.cut
      BY <2>4, <3>1, <3>2, <3>3 DEF Adds
    <3>5. ~p.cut /\ written.ok
      BY <1>2, <2>3, <3>4 DEF Adds
    <3>6. final = IF upto = Len(name) THEN AppendU8(written) ELSE ref
      BY <2>4, <3>3, <3>5
    <3> QED
      BY <3>1, <3>2, <3>4, <3>5, <3>6
  <2>8. PICK c : /\ Adds(final, written, <<c>>, 1)
                 /\ upto = Len(name) => c.kind = "end"
                 /\ upto # Len(name) => c.kind = "ref" /\ c.value = place
    <3>1. Cell("end", 0, 1, 1).kind = "end" /\ Cell("ref", place, 2, 2).kind = "ref"
          /\ Cell("ref", place, 2, 2).value = place
      BY DEF Cell
    <3> HIDE DEF final, ref
    <3> QED
      BY <2>7, <3>1
  <2> HIDE DEF final, r
  <2>9. /\ final.names = p.names /\ Len(final.cells) = Len(p.cells) + (upto + 1)
        /\ \A i \in 1 .. Len(p.cells) : final.cells[i] = p.cells[i]
        /\ \A j \in 1 .. upto : /\ final.cells[Len(p.cells) + j].kind = "label"
                                /\ final.cells[Len(p.cells) + j].value = name[j]
        /\ final.cells[Len(p.cells) + (upto + 1)].kind = c.kind
        /\ final.cells[Len(p.cells) + (upto + 1)].value = c.value
    <3>1. upto \in Nat /\ ~final.cut
      BY <2>2, <2>6
    <3>2. \A j \in 1 .. upto : cs[j].kind = "label" /\ cs[j].value = name[j]
      <4>1. \A l : String(l).kind = "label" /\ String(l).value = l
        BY DEF String, Cell
      <4>2. \A j \in 1 .. upto : cs[j] = String(name[j])
        OBVIOUS
      <4> HIDE DEF cs
      <4> QED
        BY <4>1, <4>2
    <3> DEFINE ds == <<c>>
    <3>3. Adds(written, p, cs, upto) /\ Adds(final, written, ds, 1) /\ ds[1] = c
      BY <2>3, <2>8
    <3> HIDE DEF cs, ds
    <3>4. Then(final, p, cs, upto, ds[1])
      BY <1>2, <3>1, <3>3, SomeThenOne
    <3> QED
      BY <3>3, <3>4, <3>2 DEF Then
  <2>10. r.ok
    <3>1. Len(final.cells) > Len(p.cells)
      <4>1. upto \in Nat /\ Len(p.cells) \in Nat
        BY <2>2 DEF Fits, Packets
      <4> QED
        BY <2>9, <4>1
    <3> QED
      BY <2>6, <3>1
  <2> QED
    BY <2>6, <2>7, <2>8, <2>9, <2>10 DEF Named, place
<1> QED
  BY <1>1, <1>2

\* q is p with more cells behind it, or cut.
Grows(q, p) ==
  /\ p.cut => q.cut
  /\ p.ok /\ ~q.cut =>
       /\ q.ok /\ Len(p.cells) <= Len(q.cells)
       /\ \A c \in 1 .. Len(p.cells) : q.cells[c] = p.cells[c]

\* They are a name.
NamedOn(q, p) ==
  /\ Grows(q, p)
  /\ p.ok /\ ~q.cut => NameAt(q, Len(p.cells) + 1, Len(q.cells) + 1)

\* One after the other
LEMMA GrowsOn ==
  ASSUME NEW p, NEW q, NEW r, Fits(p), Fits(q), Fits(r), Grows(q, p), Grows(r, q)
  PROVE  Grows(r, p)
<1>1. Len(p.cells) \in Nat /\ Len(q.cells) \in Nat /\ Len(r.cells) \in Nat
  BY DEF Fits, Packets
<1>2. ASSUME p.ok, ~r.cut
      PROVE  /\ r.ok /\ Len(p.cells) <= Len(r.cells)
             /\ \A c \in 1 .. Len(p.cells) : r.cells[c] = p.cells[c]
  <2>1. ~q.cut /\ q.ok /\ r.ok
    BY <1>2 DEF Grows
  <2>2. /\ Len(p.cells) <= Len(q.cells) /\ Len(q.cells) <= Len(r.cells)
        /\ \A c \in 1 .. Len(p.cells) : q.cells[c] = p.cells[c]
        /\ \A c \in 1 .. Len(q.cells) : r.cells[c] = q.cells[c]
    BY <1>2, <2>1 DEF Grows
  <2> QED
    BY <1>1, <2>1, <2>2
<1> QED
  BY <1>2 DEF Grows

\* Some cells that are in no name
LEMMA AddsGrows ==
  ASSUME NEW p, Fits(p), NEW q, NEW cs, NEW m \in Nat, Adds(q, p, cs, m)
  PROVE  Grows(q, p)
<1>1. Len(p.cells) \in Nat
  BY DEF Fits, Packets
<1> QED
  BY <1>1 DEF Adds, Grows

\* A name
LEMMA NamedGrows ==
  ASSUME NEW p, Fits(p), NEW q, p.cut => q.cut, NEW name, NEW k \in Nat,
         k \in 0 .. Len(name), p.ok /\ ~q.cut => Named(q, p, name, k)
  PROVE  NamedOn(q, p)
<1> DEFINE n == Len(p.cells)
<1>1. n \in Nat
  BY DEF Fits, Packets
<1> SUFFICES ASSUME p.ok, ~q.cut
             PROVE  /\ q.ok /\ n <= Len(q.cells) /\ \A c \in 1 .. n : q.cells[c] = p.cells[c]
                    /\ NameAt(q, n + 1, Len(q.cells) + 1)
  BY DEF NamedOn, Grows
<1>2. /\ q.ok /\ Len(q.cells) = n + (k + 1)
      /\ \A c \in 1 .. n : q.cells[c] = p.cells[c]
      /\ \A j \in 1 .. k : q.cells[n + j].kind = "label"
      /\ q.cells[n + (k + 1)].kind \in {"ref", "end"}
  BY DEF Named
<1> HIDE DEF n
<1>3. ASSUME NEW d \in n + 1 .. n + k PROVE q.cells[d].kind = "label"
  <2>1. d - n \in 1 .. k /\ n + (d - n) = d
    BY <1>1
  <2> QED
    BY <1>2, <2>1
<1>4. NameAt(q, n + 1, Len(q.cells) + 1)
  <2> DEFINE e == Len(q.cells) + 1
  <2>1. /\ n + 1 \in 1 .. e - 1 /\ e \in 1 .. Len(q.cells) + 1
        /\ e - 2 = n + k /\ e - 1 = n + (k + 1)
    BY <1>1, <1>2
  <2> HIDE DEF e
  <2>2. NameAt(q, n + 1, e)
    BY <1>2, <1>3, <2>1 DEF NameAt
  <2> QED
    BY <2>2 DEF e
<1> QED
  BY <1>1, <1>2, <1>4

\* What is read where a name was written, if what its reference leads to is the
\* rest
LEMMA NameTold ==
  ASSUME NEW p, Fits(p), NEW L, ReadsAs(L, p),
         NEW name \in NamesWritten, NEW k \in 0 .. Len(name), NEW q, Fits(q), Named(q, p, name, k),
         k # Len(name) => Place(p, name) \in 1 .. Len(p.cells) /\ L[Place(p, name)] = Rest(name, k + 1)
  PROVE  \E M : ReadsAs(M, q)
<1> DEFINE n == Len(p.cells)
           K == [j \in 1 .. k + 1 |-> Rest(name, j)]
<1>1. k \in Nat /\ n \in Nat /\ Len(name) \in Nat
  BY RestsOn DEF Fits, Packets
<1>2. /\ Len(q.cells) = n + (k + 1)
      /\ \A i \in 1 .. n : q.cells[i].kind = p.cells[i].kind /\ q.cells[i].value = p.cells[i].value
      /\ \A j \in 1 .. k : q.cells[n + j].kind = "label" /\ q.cells[n + j].value = name[j]
      /\ k = Len(name) => q.cells[n + (k + 1)].kind = "end"
      /\ k # Len(name) => /\ q.cells[n + (k + 1)].kind = "ref"
                          /\ q.cells[n + (k + 1)].value = Place(p, name)
  BY DEF Named
<1> HIDE DEF n
<1>3. /\ \A j \in 1 .. k + 1 : K[j] = Rest(name, j) /\ K[j] \in Rests
      /\ \A j \in 1 .. k : K[j] = <<name[j]>> \o K[j + 1] /\ j + 1 \in 1 .. k + 1
      /\ K[1] = name
  <2>1. \A j \in 1 .. k + 1 : K[j] = Rest(name, j)
    OBVIOUS
  <2> HIDE DEF K
  <2>2. \A j \in 1 .. k + 1 : j \in 1 .. Len(name) + 1
    BY <1>1
  <2>3. \A j \in 1 .. k : j \in 1 .. Len(name) /\ j + 1 \in 1 .. k + 1 /\ j \in 1 .. k + 1
    BY <1>1
  <2>4. 1 \in 1 .. k + 1
    BY <1>1
  <2>5. \A j \in 1 .. k : Rest(name, j) = <<name[j]>> \o Rest(name, j + 1)
    BY <2>3, RestsOn
  <2>6. ASSUME NEW j \in 1 .. k + 1 PROVE K[j] = Rest(name, j) /\ K[j] \in Rests
    BY <2>1, <2>2, RestsOn
  <2>7. ASSUME NEW j \in 1 .. k PROVE K[j] = <<name[j]>> \o K[j + 1] /\ j + 1 \in 1 .. k + 1
    BY <2>1, <2>3, <2>5
  <2>8. K[1] = name
    BY <2>1, <2>4, RestsOn
  <2> QED
    BY <2>6, <2>7, <2>8
<1>4. K \in [1 .. k + 1 -> Rests]
  BY <1>3
<1> HIDE DEF K
<1>5. ASSUME NEW j \in 1 .. k + 1
      PROVE  /\ q.cells[n + j].kind = "label" =>
                  j + 1 \in 1 .. k + 1 /\ K[j] = <<q.cells[n + j].value>> \o K[j + 1]
             /\ q.cells[n + j].kind = "ref" =>
                  q.cells[n + j].value \in 1 .. n /\ K[j] = L[q.cells[n + j].value]
             /\ q.cells[n + j].kind \notin {"label", "ref"} => K[j] = <<>>
  <2>1. CASE j \in 1 .. k
    BY <1>2, <1>3, <2>1
  <2>2. CASE j = k + 1 /\ k = Len(name)
    BY <1>2, <1>3, <2>2, RestsOn
  <2>3. CASE j = k + 1 /\ k # Len(name)
    BY <1>2, <1>3, <2>3 DEF n
  <2>4. j \in 1 .. k \/ j = k + 1
    BY <1>1
  <2> QED
    BY <2>1, <2>2, <2>3, <2>4 DEF n
<1>6. \A x \in q.names : x \in p.names \/ (k + 1 # 0 /\ x.first = n + 1 /\ x.name = K[1])
  BY <1>1, <1>3 DEF n, Named
<1>7. ReadsOn(K, q, k + 1, L, p)
  BY <1>2, <1>4, <1>5, <1>6 DEF ReadsOn, n
<1> QED
  BY <1>1, <1>7, ReadOn

\* A name that was written is read.
LEMMA FqdnWell ==
  ASSUME NEW p, Well(p), NEW name \in NamesWritten
  PROVE  /\ Well(AppendFqdn(p, name)) /\ Extends(AppendFqdn(p, name), p)
         /\ NamedOn(AppendFqdn(p, name), p)
<1> DEFINE q == AppendFqdn(p, name)
           k == Upto(p, name)
           L == [c \in DOMAIN p.cells |-> LabelsFrom(p.cells)[c]]
<1>1. Fits(p) /\ name \in Seq(Labels) /\ Len(name) \in Nat
  BY RestsTyped DEF Well
<1>2. /\ Fits(q) /\ Extends(q, p)
      /\ p.cut => q.cut
      /\ p.ok /\ ~q.cut => Named(q, p, name, k)
      /\ k \in 0 .. Len(name)
      /\ k # Len(name) =>
           /\ Place(p, name) \in Stops(p.cells, Rest(name, k + 1))
           /\ Place(p, name) \in 1 .. Len(p.cells)
  BY <1>1, FqdnFits, FqdnCells, PlaceFound
<1> HIDE DEF q, k
<1>3. ASSUME ShortLabels, ~q.cut PROVE Told(q)
  <2>1. p.ok /\ ReadsAs(L, p) /\ Named(q, p, name, k)
    BY <1>2, <1>3 DEF Well, Told
  <2> HIDE DEF L
  <2>2. ASSUME k # Len(name) PROVE L[Place(p, name)] = Rest(name, k + 1)
    <3>1. k + 1 \in 1 .. Len(name) /\ k + 1 \in 1 .. Len(name) + 1
      BY <1>1, <1>2, <2>2
    <3>2. Rest(name, k + 1) \in Rests /\ Rest(name, k + 1) # <<>>
      BY <3>1, RestsOn
    <3> QED
      BY <1>1, <1>2, <1>3, <2>1, <2>2, <3>2, FoundIsRest
  <2>3. \E M : ReadsAs(M, q)
    BY <1>1, <1>2, <2>1, <2>2, NameTold
  <2>4. q.ok
    BY <2>1 DEF Named
  <2> QED
    BY <1>2, <2>3, <2>4, ToldBy
<1>4. Well(q)
  BY <1>2, <1>3 DEF Well, Told
<1>5. NamedOn(q, p)
  <2>1. k \in Nat
    BY <1>1, <1>2
  <2> QED
    BY <1>1, <1>2, <2>1, NamedGrows
<1> QED
  BY <1>2, <1>4, <1>5 DEF q

-----------------------------------------------------------------------------
(* Records.                                                                 *)

\* The length of the data is written last, over what the header left for it: no
\* cell moves.
LEMMA LengthWell ==
  ASSUME NEW head, NEW full, Fits(head), Well(full), Extends(full, head)
  PROVE  Well(WithLength(full, head))
<1>0. Fits(full)
  BY DEF Well
<1>1. SUFFICES Well(SetLength(full, head))
  BY DEF WithLength
<1> DEFINE k == Len(head.cells)
           n == full.used - head.used
           d == [full.cells[k] EXCEPT !.length = n]
           cs == [full.cells EXCEPT ![k] = d]
           q == SetLength(full, head)
<1>2. /\ full \in Packets /\ full.cells \in Seq(CellSet) /\ full.used \in Nat
      /\ head.used \in Nat /\ head.used <= full.used
  BY <1>0 DEF Fits, Packets, Extends
<1>3. q = [full EXCEPT !.cells = cs]
  BY DEF SetLength
<1>4. n \in Nat
  BY <1>2
<1>5. /\ DOMAIN cs = DOMAIN full.cells /\ Len(cs) = Len(full.cells) /\ cs \in Seq(CellSet)
      /\ \A c \in DOMAIN cs : /\ cs[c].kind = full.cells[c].kind /\ cs[c].value = full.cells[c].value
                              /\ cs[c].at = full.cells[c].at /\ cs[c].size = full.cells[c].size
  <2> HIDE DEF n
  <2>1. ASSUME k \in DOMAIN full.cells
        PROVE  /\ d \in CellSet /\ d.kind = full.cells[k].kind /\ d.value = full.cells[k].value
               /\ d.at = full.cells[k].at /\ d.size = full.cells[k].size
    <3>1. full.cells[k] \in CellSet
      BY <1>2, <2>1
    <3> QED
      BY <1>4, <3>1 DEF CellSet
  <2> HIDE DEF d, k
  <2>2. \A c \in DOMAIN full.cells : cs[c] = IF c = k THEN d ELSE full.cells[c]
    OBVIOUS
  <2>3. DOMAIN cs = 1 .. Len(full.cells) /\ DOMAIN full.cells = 1 .. Len(full.cells)
    BY <1>2
  <2>4. \A c \in DOMAIN full.cells : cs[c] \in CellSet
    BY <1>2, <2>1, <2>2
  <2>5. cs \in [1 .. Len(full.cells) -> CellSet] /\ Len(full.cells) \in Nat
    <3>1. cs = [c \in DOMAIN cs |-> cs[c]]
      OBVIOUS
    <3> HIDE DEF cs
    <3> QED
      BY <1>2, <2>3, <2>4, <3>1
  <2>6. cs \in Seq(CellSet) /\ Len(cs) = Len(full.cells)
    <3> HIDE DEF cs
    <3> QED
      BY <2>3, <2>5
  <2> QED
    BY <2>1, <2>2, <2>3, <2>6
<1> HIDE DEF cs
<1>6. /\ q \in Packets /\ q.cells = cs /\ q.used = full.used
      /\ q.ok = full.ok /\ q.cut = full.cut /\ q.names = full.names
  BY <1>2, <1>3, <1>5 DEF Packets
<1> HIDE DEF q
<1>7. Adjacent(full) /\ Backward(full) /\ full.used <= MaxPacket /\ DOMAIN full.cells = 1 .. Len(full.cells)
  BY <1>0, <1>2 DEF Fits
<1>8. Adjacent(q)
  <2> SUFFICES ASSUME NEW c \in DOMAIN cs
               PROVE  cs[c].at + cs[c].size = IF c = Len(cs) THEN full.used ELSE cs[c + 1].at
    BY <1>6 DEF Adjacent
  <2>1. full.cells[c].at + full.cells[c].size =
          IF c = Len(full.cells) THEN full.used ELSE full.cells[c + 1].at
    BY <1>5, <1>7 DEF Adjacent
  <2>2. c # Len(full.cells) => c + 1 \in DOMAIN cs
    BY <1>5, <1>7
  <2> QED
    BY <1>5, <2>1, <2>2
<1>9. Backward(q)
  <2> SUFFICES ASSUME NEW c \in DOMAIN cs, cs[c].kind = "ref"
               PROVE  cs[c].value \in 1 .. c - 1 /\ cs[cs[c].value].kind = "label"
    BY <1>6 DEF Backward
  <2>1. full.cells[c].value \in 1 .. c - 1 /\ full.cells[full.cells[c].value].kind = "label"
    BY <1>5, <1>7 DEF Backward
  <2>2. full.cells[c].value \in DOMAIN cs
    BY <1>5, <1>7, <2>1
  <2> QED
    BY <1>5, <2>1, <2>2
<1>10. Fits(q)
  BY <1>6, <1>7, <1>8, <1>9 DEF Fits
<1>11. Plain(q, full, 0)
  BY <1>2, <1>5, <1>6, <1>7 DEF Plain
<1> QED
  BY <1>10, <1>11, PlainWell DEF q

\* What a function says of its success is not in the packet.
LEMMA OkWell ==
  ASSUME NEW p, Well(p)
  PROVE  Well([p EXCEPT !.ok = TRUE]) /\ [p EXCEPT !.ok = TRUE].ok = TRUE
<1> DEFINE q == [p EXCEPT !.ok = TRUE]
<1>1. Fits(p)
  BY DEF Well
<1>2. Fits(q) /\ q.ok = TRUE
  BY <1>1, OtherFields
<1>3. q.cells = p.cells /\ q.cut = p.cut /\ q.names = p.names /\ Len(p.cells) \in Nat
  BY <1>1 DEF Fits, Packets
<1> HIDE DEF q
<1>4. Plain(q, p, 0)
  BY <1>2, <1>3 DEF Plain
<1>5. Well(q)
  BY <1>2, <1>4, PlainWell
<1> QED
  BY <1>2, <1>5 DEF q

\* Nor is it in a name.
LEMMA OkNamed ==
  ASSUME NEW p, NEW q, Fits(q), NamedOn(q, p)
  PROVE  NamedOn([q EXCEPT !.ok = TRUE], p)
<1> DEFINE r == [q EXCEPT !.ok = TRUE]
<1>1. r.ok /\ r.cells = q.cells /\ r.cut = q.cut
  BY DEF Fits, Packets
<1> HIDE DEF r
<1>2. Grows(r, p) /\ (p.ok /\ ~r.cut => NameAt(r, Len(p.cells) + 1, Len(r.cells) + 1))
  BY <1>1 DEF NamedOn, Grows, NameAt
<1> QED
  BY <1>2 DEF NamedOn, r

\* Headers and data
LEMMA CellsWell ==
  ASSUME NEW p, Well(p), NEW cs, Len(cs) \in Nat,
         \A i \in 1 .. Len(cs) : CellOK(cs[i]) /\ cs[i].kind \notin {"label", "ref"}
  PROVE  /\ Well(AppendCells(p, cs)) /\ Extends(AppendCells(p, cs), p)
         /\ Adds(AppendCells(p, cs), p, cs, Len(cs)) /\ Grows(AppendCells(p, cs), p)
<1>1. Fits(p) /\ \A i \in 1 .. Len(cs) : CellOK(cs[i]) /\ cs[i].kind # "ref"
  BY DEF Well
<1>2. /\ Fits(AppendCells(p, cs)) /\ Extends(AppendCells(p, cs), p)
      /\ Adds(AppendCells(p, cs), p, cs, Len(cs))
  BY <1>1, CellsFit, CellsAdd
<1> QED
  BY <1>1, <1>2, AddsWell, AddsGrows

\* One of them
LEMMA CellWell ==
  ASSUME NEW p, Well(p), NEW c, CellOK(c), c.kind \notin {"label", "ref"}
  PROVE  /\ Well(AppendCell(p, c)) /\ Extends(AppendCell(p, c), p)
         /\ Adds(AppendCell(p, c), p, <<c>>, 1) /\ Grows(AppendCell(p, c), p)
<1>1. Fits(p) /\ Leads(c, p)
  BY DEF Well, Leads
<1>2. /\ Fits(AppendCell(p, c)) /\ Extends(AppendCell(p, c), p)
      /\ Adds(AppendCell(p, c), p, <<c>>, 1)
  BY <1>1, CellFits, OneAdds
<1> DEFINE cs == <<c>>
<1>3. cs[1] = c
  OBVIOUS
<1> HIDE DEF cs
<1>4. \A j \in 1 .. 1 : cs[j].kind \notin {"label", "ref"}
  BY <1>3
<1>5. Adds(AppendCell(p, c), p, cs, 1)
  BY <1>2 DEF cs
<1> QED
  BY <1>1, <1>2, <1>4, <1>5, AddsWell, AddsGrows

\* A header, with the byte behind it
LEMMA TypeWell ==
  ASSUME NEW p, Well(p)
  PROVE  /\ Well(AppendType(p)) /\ Extends(AppendType(p), p) /\ Grows(AppendType(p), p)
         /\ AppendType(p).ok => AppendType(p).used + 1 <= MaxPacket
         /\ p.ok /\ ~AppendType(p).cut =>
              /\ Len(AppendType(p).cells) = Len(p.cells) + 1
              /\ AppendType(p).cells[Len(p.cells) + 1].kind = "type"
<1> DEFINE c == Cell("type", 0, 10, 11)
           cs == <<c>>
           q == AppendType(p)
<1>1. Fits(p) /\ c.kind = "type" /\ cs[1] = c /\ q = AppendCell(p, c)
  BY DEF Well, Cell, AppendType
<1>2. CellOK(c)
  BY CellsOK
<1> HIDE DEF c, q
<1>3. Well(q) /\ Extends(q, p) /\ Adds(q, p, cs, 1) /\ Grows(q, p)
  BY <1>1, <1>2, CellWell
<1> HIDE DEF cs
<1>4. p.ok /\ ~q.cut => Len(q.cells) = Len(p.cells) + 1 /\ q.cells[Len(p.cells) + 1].kind = "type"
  <2>1. 1 \in 1 .. 1
    OBVIOUS
  <2> QED
    BY <1>1, <1>3, <2>1 DEF Adds
<1>5. q.ok => q.used + 1 <= MaxPacket
  BY <1>1, TypeFits DEF q
<1> QED
  BY <1>3, <1>4, <1>5 DEF q

\* The data that take that byte
LEMMA NoTxtWell ==
  ASSUME NEW p, Well(p), p.ok => p.used + 1 <= MaxPacket
  PROVE  Well(NoTxt(p)) /\ Extends(NoTxt(p), p) /\ Grows(NoTxt(p), p)
<1> DEFINE c == Cell("data", 0, 1, 0)
           cs == <<c>>
<1>1. Fits(p)
  BY DEF Well
<1>2. Fits(NoTxt(p)) /\ Extends(NoTxt(p), p)
  BY <1>1, NoTxtFits
<1>3. c \in NewCells /\ c.kind = "data" /\ NoTxt(p) = IF ~p.ok THEN p ELSE Write(p, c)
  BY DEF Cell, NewCells, NoTxt
<1> HIDE DEF c
<1>4. cs[0 + 1] = c /\ 0 + 1 = 1 /\ \A j \in 1 .. 1 : cs[j].kind \notin {"label", "ref"}
  BY <1>3
<1> HIDE DEF cs
<1>5. CASE p.ok
  <2>1. Adds(p, p, cs, 0) /\ cs[0 + 1] \in NewCells
    BY <1>1, <1>3, <1>4, AddsNone
  <2>2. Adds(Write(p, cs[0 + 1]), p, cs, 0 + 1)
    BY <1>1, <2>1, WriteAdds
  <2>3. Adds(NoTxt(p), p, cs, 1)
    BY <1>3, <1>4, <1>5, <2>2
  <2> QED
    BY <1>1, <1>2, <1>4, <2>3, AddsWell, AddsGrows
<1>6. CASE ~p.ok
  BY <1>2, <1>3, <1>6 DEF Grows
<1> QED
  BY <1>5, <1>6

\* A name stays where it is.
LEMMA NameKept ==
  ASSUME NEW p, Fits(p), p.ok, NEW q, Fits(q), ~q.cut, Grows(q, p), NEW c, NEW e, NameAt(p, c, e)
  PROVE  NameAt(q, c, e)
<1>1. Len(p.cells) \in Nat /\ Len(q.cells) \in Nat
  BY DEF Fits, Packets
<1>2. Len(p.cells) <= Len(q.cells) /\ \A d \in 1 .. Len(p.cells) : q.cells[d] = p.cells[d]
  BY DEF Grows
<1>3. e \in Nat /\ c \in 1 .. e - 1 /\ e <= Len(p.cells) + 1 /\ e \in 1 .. Len(q.cells) + 1
  BY <1>1, <1>2 DEF NameAt
<1>4. ASSUME NEW d \in c .. e - 2 PROVE q.cells[d].kind = "label"
  <2>1. d \in 1 .. Len(p.cells) /\ p.cells[d].kind = "label"
    BY <1>1, <1>3 DEF NameAt
  <2> QED
    BY <1>2, <2>1
<1>5. q.cells[e - 1].kind \in {"ref", "end"}
  <2>1. e - 1 \in 1 .. Len(p.cells) /\ p.cells[e - 1].kind \in {"ref", "end"}
    BY <1>1, <1>3 DEF NameAt
  <2> QED
    BY <1>2, <2>1
<1> QED
  BY <1>3, <1>4, <1>5 DEF NameAt

\* r is p with a record behind it, or cut.
RecordOn(r, p) ==
  /\ Grows(r, p)
  /\ p.ok /\ ~r.cut => RecordAt(r, Len(p.cells) + 1, Len(r.cells) + 1)

\* The length in the header leads from the header to the end of the data.
LEMMA LengthOn ==
  ASSUME NEW p, Fits(p), NEW named, Well(named), NamedOn(named, p),
         NEW full, Fits(full), Extends(full, AppendType(named)), Grows(full, AppendType(named)),
         NEW r, Fits(r), r = WithLength(full, AppendType(named))
  PROVE  RecordOn(r, p)
<1> DEFINE head == AppendType(named)
           d == Len(head.cells)
           n == full.used - head.used
<1>1. /\ Fits(named) /\ Fits(head) /\ Grows(head, named)
      /\ named.ok /\ ~head.cut =>
           d = Len(named.cells) + 1 /\ head.cells[Len(named.cells) + 1].kind = "type"
  BY TypeWell DEF Well
<1>2. Grows(full, head) /\ Extends(full, head) /\ r = IF full.ok THEN SetLength(full, head) ELSE full
  BY DEF WithLength
<1>3. SetLength(full, head) = [full EXCEPT !.cells[d].length = n]
  BY DEF SetLength
<1> HIDE DEF head
<1>4. /\ full \in Packets /\ full.cells \in Seq(CellSet) /\ full.used \in Nat /\ head.used \in Nat
      /\ head.cells \in Seq(CellSet) /\ d \in Nat /\ Len(full.cells) \in Nat
      /\ named.cells \in Seq(CellSet) /\ Len(named.cells) \in Nat /\ Len(p.cells) \in Nat
      /\ Len(r.cells) \in Nat
  BY <1>1 DEF Fits, Packets
<1>5. r.cut = full.cut /\ r.ok = full.ok /\ r.used = full.used
  BY <1>2, <1>3, <1>4 DEF Packets
<1>6. ASSUME p.ok, ~r.cut
      PROVE  r.ok /\ Grows(r, p) /\ RecordAt(r, Len(p.cells) + 1, Len(r.cells) + 1)
  <2>1. /\ ~full.cut /\ ~head.cut /\ ~named.cut /\ ~p.cut
        /\ named.ok /\ head.ok /\ full.ok
    BY <1>1, <1>2, <1>5, <1>6 DEF NamedOn, Grows
  <2>2. /\ d = Len(named.cells) + 1 /\ head.cells[d].kind = "type"
        /\ d <= Len(full.cells)
        /\ full.cells[d] = head.cells[d]
        /\ \A c \in 1 .. Len(named.cells) : full.cells[c] = named.cells[c]
    <3>1. d = Len(named.cells) + 1 /\ head.cells[d].kind = "type"
      BY <1>1, <2>1
    <3>2. d <= Len(full.cells) /\ \A c \in 1 .. d : full.cells[c] = head.cells[c]
      BY <1>2, <2>1 DEF Grows
    <3>3. \A c \in 1 .. Len(named.cells) : head.cells[c] = named.cells[c]
      BY <1>1, <2>1 DEF Grows
    <3> HIDE DEF d
    <3> QED
      BY <1>4, <3>1, <3>2, <3>3
  <2>3. /\ Len(r.cells) = Len(full.cells) /\ r.cells[d] = [full.cells[d] EXCEPT !.length = n]
        /\ \A c \in 1 .. Len(full.cells) : c # d => r.cells[c] = full.cells[c]
    <3> DEFINE cs == [full.cells EXCEPT ![d] = [full.cells[d] EXCEPT !.length = n]]
    <3>1. r.cells = cs
      BY <1>2, <1>3, <1>4, <2>1 DEF Packets
    <3>2. DOMAIN full.cells = 1 .. Len(full.cells) /\ d \in 1 .. Len(full.cells)
      BY <1>4, <2>2
    <3>3. DOMAIN cs = 1 .. Len(full.cells)
      BY <3>2
    <3>4. Len(cs) = Len(full.cells)
      <4>1. DOMAIN r.cells = 1 .. Len(r.cells)
        BY DEF Fits, Packets
      <4> HIDE DEF cs
      <4> QED
        BY <1>4, <3>1, <3>3, <4>1
    <3>5. /\ cs[d] = [full.cells[d] EXCEPT !.length = n]
          /\ \A c \in 1 .. Len(full.cells) : c # d => cs[c] = full.cells[c]
      BY <3>2
    <3> HIDE DEF cs, d
    <3> QED
      BY <3>1, <3>4, <3>5
  <2>4. Grows(r, named)
    <3>1. /\ Len(named.cells) <= Len(r.cells)
          /\ \A c \in 1 .. Len(named.cells) : r.cells[c] = named.cells[c]
      BY <1>4, <2>2, <2>3
    <3> QED
      BY <1>5, <2>1, <3>1 DEF Grows
  <2>5. NameAt(r, Len(p.cells) + 1, d)
    <3>1. NameAt(named, Len(p.cells) + 1, Len(named.cells) + 1)
      BY <1>6, <2>1 DEF NamedOn
    <3>2. NameAt(r, Len(p.cells) + 1, Len(named.cells) + 1)
      BY <1>1, <1>6, <2>1, <2>4, <3>1, NameKept
    <3> QED
      BY <2>2, <3>2
  <2>6. /\ r.cells[d].kind = "type" /\ d \in 1 .. Len(r.cells)
        /\ r.cells[d].at + r.cells[d].size + r.cells[d].length = r.used
    <3>1. head.cells[d] \in CellSet /\ d \in 1 .. Len(head.cells) /\ d \in 1 .. Len(full.cells)
      BY <1>4, <2>2
    <3>2. head.cells[d].at + head.cells[d].size = head.used
      BY <1>1, <1>4, <3>1 DEF Fits, Adjacent
    <3>3. /\ head.cells[d].at \in Nat /\ head.cells[d].size \in Nat
          /\ r.cells[d].kind = head.cells[d].kind /\ r.cells[d].at = head.cells[d].at
          /\ r.cells[d].size = head.cells[d].size /\ r.cells[d].length = n
      BY <2>2, <2>3, <3>1 DEF CellSet
    <3> QED
      BY <1>4, <1>5, <2>2, <2>3, <3>1, <3>2, <3>3
  <2>7. RecordAt(r, Len(p.cells) + 1, Len(r.cells) + 1)
    <3>1. Len(r.cells) + 1 \in d + 1 .. Len(r.cells) + 1
      BY <1>4, <2>6
    <3>2. Offset(r, Len(r.cells) + 1) = r.used
      BY <1>4 DEF Offset
    <3> HIDE DEF d
    <3> QED
      BY <2>5, <2>6, <3>1, <3>2 DEF RecordAt
  <2>8. Grows(r, p)
    BY <1>1, <2>4, GrowsOn DEF NamedOn
  <2> QED
    BY <1>5, <2>1, <2>7, <2>8
<1>7. p.cut => r.cut
  BY <1>1, <1>2, <1>5 DEF NamedOn, Grows
<1> QED
  BY <1>6, <1>7 DEF RecordOn, Grows

\* A header behind a packet, and data behind the header
LEMMA RecordWell ==
  ASSUME NEW p, Well(p), NEW named, Well(named), NamedOn(named, p),
         NEW full, Well(full), Extends(full, AppendType(named)), Grows(full, AppendType(named))
  PROVE  /\ Well(WithLength(full, AppendType(named)))
         /\ RecordOn(WithLength(full, AppendType(named)), p)
<1>1. Fits(p) /\ Fits(full) /\ Fits(AppendType(named))
  BY TypeWell DEF Well
<1>2. Well(WithLength(full, AppendType(named)))
  BY <1>1, LengthWell
<1> QED
  BY <1>1, <1>2, LengthOn DEF Well

\* Every name that a record or a question takes
LEMMA NameIn ==
  /\ \A s \in Services :
       /\ Type(s) \in NamesWritten /\ Instance(s) \in NamesWritten
       /\ Host(Service[s].host) \in NamesWritten
       /\ \A sub \in ToSet(Service[s].subtypes) : <<sub, Sub>> \o Type(s) \in NamesWritten
  /\ \A h \in Hosts : Host(h) \in NamesWritten
  /\ Discovery \o <<Local>> \in NamesWritten
<1>1. /\ \A h \in Hosts : Host(h) \in NamesWritten
      /\ \A s \in Services : Service[s].host \in Hosts
      /\ Discovery \o <<Local>> \in NamesWritten
  BY DEF NamesWritten, Hosts
<1>2. ASSUME NEW s \in Services, NEW sub \in ToSet(Service[s].subtypes)
      PROVE  <<sub, Sub>> \o Type(s) \in NamesWritten
  <2> DEFINE Of(t) == {Type(t), Instance(t)}
                        \cup {<<x, Sub>> \o Type(t) : x \in ToSet(Service[t].subtypes)}
  <2>1. <<sub, Sub>> \o Type(s) \in Of(s)
    OBVIOUS
  <2>2. NamesWritten = (UNION {Of(t) : t \in Services})
                         \cup {Host(h) : h \in Hosts} \cup {Discovery \o <<Local>>}
    BY DEF NamesWritten
  <2> HIDE DEF Of
  <2> QED
    BY <2>1, <2>2
<1>3. ASSUME NEW s \in Services PROVE Type(s) \in NamesWritten /\ Instance(s) \in NamesWritten
  BY DEF NamesWritten
<1> QED
  BY <1>1, <1>2, <1>3

\* Each record, whole or cut: PTR, for a service, a subtype or the discovery
LEMMA PtrWell ==
  ASSUME NEW p, Well(p), NEW s \in Services
  PROVE  /\ Well(AppendPtrRecord(p, s)) /\ RecordOn(AppendPtrRecord(p, s), p)
         /\ \A sub \in ToSet(Service[s].subtypes) :
              /\ Well(AppendSubtypePtrRecord(p, s, sub))
              /\ RecordOn(AppendSubtypePtrRecord(p, s, sub), p)
         /\ Well(AppendSdptrRecord(p, s)) /\ RecordOn(AppendSdptrRecord(p, s), p)
<1>1. /\ Type(s) \in NamesWritten /\ Instance(s) \in NamesWritten
      /\ \A sub \in ToSet(Service[s].subtypes) : <<sub, Sub>> \o Type(s) \in NamesWritten
      /\ Discovery \o <<Local>> \in NamesWritten
  BY NameIn
<1> DEFINE Rec(named, name) == WithLength(AppendFqdn(AppendType(named), name), AppendType(named))
<1>2. ASSUME NEW named, Well(named), NamedOn(named, p), NEW name \in NamesWritten
      PROVE  Well(Rec(named, name)) /\ RecordOn(Rec(named, name), p)
  <2> DEFINE full == AppendFqdn(AppendType(named), name)
  <2>1. Well(full) /\ Extends(full, AppendType(named)) /\ Grows(full, AppendType(named))
    BY <1>2, TypeWell, FqdnWell DEF NamedOn
  <2> HIDE DEF full
  <2>2. Well(WithLength(full, AppendType(named))) /\ RecordOn(WithLength(full, AppendType(named)), p)
    BY <1>2, <2>1, RecordWell
  <2> QED
    BY <2>2 DEF full
<1>3. Well(AppendPtrRecord(p, s)) /\ RecordOn(AppendPtrRecord(p, s), p)
  BY <1>1, <1>2, FqdnWell DEF AppendPtrRecord
<1>4. ASSUME NEW sub \in ToSet(Service[s].subtypes)
      PROVE  Well(AppendSubtypePtrRecord(p, s, sub)) /\ RecordOn(AppendSubtypePtrRecord(p, s, sub), p)
  <2> DEFINE named == AppendFqdn(p, <<sub, Sub>> \o Type(s))
  <2>1. Well(named) /\ NamedOn(named, p)
    BY <1>1, FqdnWell
  <2> HIDE DEF named
  <2>2. Well(Rec(named, Instance(s))) /\ RecordOn(Rec(named, Instance(s)), p)
    BY <1>1, <1>2, <2>1
  <2> QED
    BY <2>2 DEF AppendSubtypePtrRecord, named
<1>5. Well(AppendSdptrRecord(p, s)) /\ RecordOn(AppendSdptrRecord(p, s), p)
  <2> DEFINE found == AppendFqdn(p, Discovery \o <<Local>>)
             named == [found EXCEPT !.ok = TRUE]
  <2>1. Well(found) /\ NamedOn(found, p)
    BY <1>1, FqdnWell
  <2> HIDE DEF found
  <2>2. Well(named) /\ NamedOn(named, p)
    BY <2>1, OkWell, OkNamed DEF Well
  <2>3. AppendSdptrRecord(p, s) = Rec(named, Type(s))
    BY DEF AppendSdptrRecord, found
  <2> HIDE DEF named
  <2> QED
    BY <1>1, <1>2, <2>2, <2>3
<1> QED
  BY <1>3, <1>4, <1>5

\* TXT
LEMMA TxtWell ==
  ASSUME NEW p, Well(p), NEW s \in Services
  PROVE  Well(AppendTxtRecord(p, s)) /\ RecordOn(AppendTxtRecord(p, s), p)
<1> DEFINE named == AppendFqdn(p, Instance(s))
           head == AppendType(named)
           txt == Service[s].txt
           cs == [i \in 1 .. Len(txt) |-> TxtEntry(txt[i])]
           full == IF txt = <<>> THEN NoTxt(head) ELSE AppendCells(head, cs)
<1>1. AppendTxtRecord(p, s) = WithLength(full, head)
  BY DEF AppendTxtRecord
<1>2. Well(named) /\ NamedOn(named, p)
  BY NameIn, FqdnWell
<1> HIDE DEF named
<1>3. Well(head) /\ (head.ok => head.used + 1 <= MaxPacket)
  BY <1>2, TypeWell
<1>4. Well(NoTxt(head)) /\ Extends(NoTxt(head), head) /\ Grows(NoTxt(head), head)
  BY <1>3, NoTxtWell
<1>5. /\ Well(AppendCells(head, cs)) /\ Extends(AppendCells(head, cs), head)
      /\ Grows(AppendCells(head, cs), head)
  <2>1. txt \in Seq(Nat)
    BY PacketAssumption
  <2>2. Len(cs) = Len(txt) /\ Len(txt) \in Nat /\ \A i \in 1 .. Len(txt) : cs[i] = TxtEntry(txt[i]) /\ txt[i] \in Nat
    BY <2>1
  <2>3. \A i \in 1 .. Len(cs) : CellOK(cs[i]) /\ cs[i].kind \notin {"label", "ref"}
    <3> HIDE DEF cs, txt
    <3> QED
      BY <2>2, CellsOK
  <2> HIDE DEF cs, head, txt
  <2> QED
    BY <1>3, <2>2, <2>3, CellsWell
<1>6. Well(full) /\ Extends(full, head) /\ Grows(full, head)
  BY <1>4, <1>5
<1> HIDE DEF full
<1> QED
  BY <1>1, <1>2, <1>6, RecordWell

\* SRV, whose name comes behind three numbers
LEMMA SomeData ==
  ASSUME NEW p, Well(p)
  PROVE  /\ Well(AppendCells(p, <<Data(2), Data(2), Data(2)>>))
         /\ Extends(AppendCells(p, <<Data(2), Data(2), Data(2)>>), p)
         /\ Grows(AppendCells(p, <<Data(2), Data(2), Data(2)>>), p)
         /\ Well(AppendCells(p, <<Data(2), Data(2)>>))
         /\ Grows(AppendCells(p, <<Data(2), Data(2)>>), p)
         /\ p.ok /\ ~AppendCells(p, <<Data(2), Data(2)>>).cut =>
              Len(AppendCells(p, <<Data(2), Data(2)>>).cells) = Len(p.cells) + 2
<1>1. CellOK(Data(2)) /\ Data(2).kind \notin {"label", "ref"}
  BY CellsOK
<1> DEFINE d == Data(2)
<1> HIDE DEF d
<1>2. CellOK(d) /\ d.kind \notin {"label", "ref"}
  BY <1>1 DEF d
<1>3. /\ Len(<<d, d, d>>) = 3 /\ \A i \in 1 .. 3 : <<d, d, d>>[i] = d
      /\ Len(<<d, d>>) = 2 /\ \A i \in 1 .. 2 : <<d, d>>[i] = d
  OBVIOUS
<1>4. /\ Well(AppendCells(p, <<d, d, d>>)) /\ Extends(AppendCells(p, <<d, d, d>>), p)
      /\ Grows(AppendCells(p, <<d, d, d>>), p)
  BY <1>2, <1>3, CellsWell
<1>5. /\ Well(AppendCells(p, <<d, d>>)) /\ Grows(AppendCells(p, <<d, d>>), p)
      /\ p.ok /\ ~AppendCells(p, <<d, d>>).cut => Len(AppendCells(p, <<d, d>>).cells) = Len(p.cells) + 2
  <2> DEFINE cs == <<d, d>>
  <2>1. /\ Len(cs) = 2 /\ Len(cs) \in Nat
        /\ \A i \in 1 .. Len(cs) : CellOK(cs[i]) /\ cs[i].kind \notin {"label", "ref"}
    BY <1>2, <1>3
  <2> HIDE DEF cs
  <2>2. Well(AppendCells(p, cs)) /\ Grows(AppendCells(p, cs), p) /\ Adds(AppendCells(p, cs), p, cs, Len(cs))
    BY ONLY Well(p), <2>1, CellsWell
  <2>3. p.ok /\ ~AppendCells(p, cs).cut => Len(AppendCells(p, cs).cells) = Len(p.cells) + 2
    BY <2>1, <2>2 DEF Adds
  <2> QED
    BY <2>2, <2>3 DEF cs
<1> QED
  BY <1>4, <1>5 DEF d

\* The whole record
LEMMA SrvWell ==
  ASSUME NEW p, Well(p), NEW s \in Services
  PROVE  Well(AppendSrvRecord(p, s)) /\ RecordOn(AppendSrvRecord(p, s), p)
<1> DEFINE named == AppendFqdn(p, Instance(s))
           head == AppendType(named)
           port == AppendCells(head, <<Data(2), Data(2), Data(2)>>)
           full == AppendFqdn(port, Host(Service[s].host))
<1>1. AppendSrvRecord(p, s) = WithLength(full, head)
  BY DEF AppendSrvRecord
<1>2. Well(named) /\ NamedOn(named, p)
  BY NameIn, FqdnWell
<1> HIDE DEF named
<1>3. Well(head)
  BY <1>2, TypeWell
<1>4. Well(port) /\ Extends(port, head) /\ Grows(port, head)
  BY <1>3, SomeData
<1> HIDE DEF port
<1>5. Well(full) /\ Extends(full, port) /\ Grows(full, port)
  BY <1>4, NameIn, FqdnWell DEF NamedOn
<1> HIDE DEF full
<1>6. Extends(full, head) /\ Grows(full, head)
  BY <1>3, <1>4, <1>5, ExtendsOn, GrowsOn DEF Well
<1> QED
  BY <1>1, <1>2, <1>5, <1>6, RecordWell

\* A or AAAA
LEMMA AddressWell ==
  ASSUME NEW p, Well(p), NEW h \in Hosts, NEW size \in Nat \ {0}
  PROVE  Well(AppendAddress(p, h, size)) /\ RecordOn(AppendAddress(p, h, size), p)
<1> DEFINE named == AppendFqdn(p, Host(h))
           head == AppendType(named)
           full == AppendCell(head, Data(size))
<1>1. AppendAddress(p, h, size) = WithLength(full, head)
  BY DEF AppendAddress
<1>2. Well(named) /\ NamedOn(named, p)
  BY NameIn, FqdnWell
<1> HIDE DEF named
<1>3. Well(head)
  BY <1>2, TypeWell
<1>4. Well(full) /\ Extends(full, head) /\ Grows(full, head)
  BY <1>3, CellsOK, CellWell DEF Leads
<1> HIDE DEF full
<1> QED
  BY <1>1, <1>2, <1>4, RecordWell

-----------------------------------------------------------------------------
(* Questions and answers.                                                   *)

\* r is p with a question behind it, or cut.
QuestionOn(r, p) ==
  /\ Grows(r, p)
  /\ p.ok /\ ~r.cut => QuestionAt(r, Len(p.cells) + 1, Len(r.cells) + 1)

\* A question
LEMMA QuestionWell ==
  ASSUME NEW p, Well(p), NEW name \in NamesWritten
  PROVE  Well(AppendQuestion(p, name)) /\ QuestionOn(AppendQuestion(p, name), p)
<1> DEFINE q == AppendFqdn(p, name)
           r == AppendCells(q, <<Data(2), Data(2)>>)
           t == [r EXCEPT !.ok = TRUE]
<1>1. Well(q) /\ NamedOn(q, p)
  BY FqdnWell
<1>2. AppendQuestion(p, name) = IF ~q.ok THEN q ELSE t
  BY DEF AppendQuestion
<1> HIDE DEF q
<1>3. /\ Well(r) /\ Grows(r, q)
      /\ q.ok /\ ~r.cut => Len(r.cells) = Len(q.cells) + 2
  BY <1>1, SomeData
<1> HIDE DEF r
<1>4. Well(t) /\ t.ok /\ t.cells = r.cells /\ t.cut = r.cut
  <2>1. r \in Packets
    BY <1>3 DEF Well, Fits
  <2> QED
    BY <1>3, <2>1, OkWell DEF Packets
<1> HIDE DEF t
<1>5. CASE ~q.ok
  BY <1>1, <1>2, <1>5 DEF QuestionOn, NamedOn, Grows
<1>6. CASE q.ok
  <2>1. Fits(p) /\ Fits(q) /\ Fits(r) /\ Fits(t)
    BY <1>1, <1>3, <1>4 DEF Well
  <2>2. Grows(t, q)
    BY <1>3, <1>4 DEF Grows
  <2>3. Grows(t, p)
    BY <1>1, <2>1, <2>2, GrowsOn DEF NamedOn
  <2>4. ASSUME p.ok, ~t.cut PROVE QuestionAt(t, Len(p.cells) + 1, Len(t.cells) + 1)
    <3>1. ~q.cut /\ Len(t.cells) = Len(q.cells) + 2
      BY <1>3, <1>4, <1>6, <2>4 DEF Grows
    <3>2. NameAt(t, Len(p.cells) + 1, Len(q.cells) + 1)
      BY <1>1, <1>6, <2>1, <2>2, <2>4, <3>1, NameKept DEF NamedOn
    <3>3. Len(q.cells) \in Nat
      BY <2>1 DEF Fits, Packets
    <3> DEFINE e == Len(t.cells) + 1
    <3>4. e - 2 = Len(q.cells) + 1 /\ e \in 3 .. Len(t.cells) + 1
      BY <3>1, <3>3
    <3> HIDE DEF e
    <3>5. QuestionAt(t, Len(p.cells) + 1, e)
      BY <3>2, <3>4 DEF QuestionAt
    <3> QED
      BY <3>5 DEF e
  <2> QED
    BY <1>2, <1>4, <1>6, <2>3, <2>4 DEF QuestionOn
<1> QED
  BY <1>5, <1>6

\* A record stays where it is, ...
LEMMA RecordKept ==
  ASSUME NEW p, Fits(p), p.ok, NEW q, Fits(q), ~q.cut, Grows(q, p), NEW c, NEW e, RecordAt(p, c, e)
  PROVE  RecordAt(q, c, e)
<1> DEFINE n == Len(p.cells)
<1>1. /\ n \in Nat /\ Len(q.cells) \in Nat
      /\ DOMAIN p.cells = 1 .. n /\ DOMAIN q.cells = 1 .. Len(q.cells)
  <2>1. p.cells \in Seq(CellSet) /\ q.cells \in Seq(CellSet)
    BY DEF Fits, Packets
  <2> QED
    BY <2>1
<1>2. n <= Len(q.cells) /\ \A d \in 1 .. n : q.cells[d] = p.cells[d]
  BY DEF Grows
<1>3. PICK d \in 1 .. n :
        /\ NameAt(p, c, d) /\ p.cells[d].kind = "type" /\ e \in d + 1 .. n + 1
        /\ p.cells[d].at + p.cells[d].size + p.cells[d].length = Offset(p, e)
  BY DEF RecordAt
<1>4. Adjacent(p) /\ Adjacent(q)
  BY DEF Fits
<1> HIDE DEF n
<1>5. NameAt(q, c, d) /\ d \in 1 .. Len(q.cells) /\ q.cells[d] = p.cells[d]
      /\ e \in d + 1 .. Len(q.cells) + 1
  BY <1>1, <1>2, <1>3, NameKept
<1>6. Offset(q, e) = Offset(p, e)
  <2>1. CASE e \in 1 .. n
    <3>1. ~(e > n) /\ ~(e > Len(q.cells))
      BY <1>1, <1>2, <2>1
    <3> QED
      BY <1>2, <2>1, <3>1 DEF Offset, n
  <2>2. CASE e = n + 1
    <3>1. n \in 1 .. n /\ n \in 1 .. Len(q.cells)
      BY <1>1, <1>2, <1>3
    <3>2. p.cells[n].at + p.cells[n].size = p.used
      BY <1>1, <1>4, <3>1 DEF Adjacent, n
    <3>3. q.cells[n].at + q.cells[n].size = IF n = Len(q.cells) THEN q.used ELSE q.cells[n + 1].at
      BY <1>1, <1>4, <3>1 DEF Adjacent
    <3>4. Offset(p, e) = p.used
      BY <1>1, <2>2 DEF Offset, n
    <3>5. Offset(q, e) = IF n = Len(q.cells) THEN q.used ELSE q.cells[n + 1].at
      BY <1>1, <1>2, <2>2 DEF Offset
    <3> QED
      BY <1>2, <3>1, <3>2, <3>3, <3>4, <3>5
  <2>3. e \in 1 .. n \/ e = n + 1
    BY <1>1, <1>3
  <2> QED
    BY <2>1, <2>2, <2>3
<1> QED
  BY <1>3, <1>5, <1>6 DEF RecordAt

\* ... and so does a question.
LEMMA QuestionKept ==
  ASSUME NEW p, Fits(p), p.ok, NEW q, Fits(q), ~q.cut, Grows(q, p), NEW c, NEW e, QuestionAt(p, c, e)
  PROVE  QuestionAt(q, c, e)
<1>1. Len(p.cells) \in Nat /\ Len(q.cells) \in Nat
  BY DEF Fits, Packets
<1>2. e \in 3 .. Len(p.cells) + 1 /\ NameAt(p, c, e - 2)
  BY DEF QuestionAt
<1>3. Len(p.cells) <= Len(q.cells) /\ NameAt(q, c, e - 2)
  BY <1>2, NameKept DEF Grows
<1> QED
  BY <1>1, <1>2, <1>3 DEF QuestionAt

\* A question or a record more
LEMMA ItemsOn ==
  ASSUME NEW p, Fits(p), p.ok, NEW r, Fits(r), ~r.cut, Grows(r, p),
         NEW q \in Nat, NEW a \in Nat, NEW f, Items(f, p, q, a), NEW t \in Nat, NEW b \in Nat,
         \/ t = q /\ b = a + 1 /\ RecordAt(r, Len(p.cells) + 1, Len(r.cells) + 1)
         \/ t = q + 1 /\ b = 0 /\ a = 0 /\ QuestionAt(r, Len(p.cells) + 1, Len(r.cells) + 1)
  PROVE  \E g : Items(g, r, t, b)
<1> DEFINE n == q + a
           l == Len(r.cells) + 1
           g == [i \in 0 .. n + 1 |-> IF i = n + 1 THEN l ELSE f[i]]
           ItemAt(x, w, i, c, e) == IF i <= w THEN QuestionAt(x, c, e) ELSE RecordAt(x, c, e)
<1>1. n \in Nat /\ t + b = n + 1 /\ Len(p.cells) \in Nat /\ l \in Nat
  BY DEF Fits, Packets
<1>2. /\ f \in [0 .. n -> Nat] /\ f[0] = 1 /\ f[n] = Len(p.cells) + 1
      /\ \A i \in 1 .. n : ItemAt(p, q, i, f[i - 1], f[i])
  BY DEF Items
<1>3. ASSUME NEW i \in 1 .. n PROVE ItemAt(r, t, i, f[i - 1], f[i])
  <2>1. i <= t <=> i <= q
    BY <1>1
  <2>2. CASE i <= q
    BY <1>2, <2>1, <2>2, QuestionKept
  <2>3. CASE ~(i <= q)
    BY <1>2, <2>1, <2>3, RecordKept
  <2> QED
    BY <2>2, <2>3
<1>4. ItemAt(r, t, n + 1, Len(p.cells) + 1, l)
  <2>1. CASE t = q /\ b = a + 1 /\ RecordAt(r, Len(p.cells) + 1, l)
    <3>1. ~(n + 1 <= t)
      BY <2>1
    <3> QED
      BY <2>1, <3>1
  <2>2. CASE t = q + 1 /\ b = 0 /\ a = 0 /\ QuestionAt(r, Len(p.cells) + 1, l)
    <3>1. n + 1 <= t
      BY <2>2
    <3> QED
      BY <2>2, <3>1
  <2> QED
    BY <2>1, <2>2
<1> HIDE DEF ItemAt, n, l
<1>5. g \in [0 .. n + 1 -> Nat] /\ g[0] = 1 /\ g[n + 1] = l
  <2>1. 0 \in 0 .. n + 1 /\ n + 1 \in 0 .. n + 1 /\ 0 # n + 1 /\ 0 \in 0 .. n
    BY <1>1
  <2>2. \A i \in 0 .. n + 1 : i # n + 1 => i \in 0 .. n
    BY <1>1
  <2>3. \A i \in 0 .. n + 1 : (IF i = n + 1 THEN l ELSE f[i]) \in Nat
    BY <1>1, <1>2, <2>2
  <2> QED
    BY <1>2, <2>1, <2>3
<1>6. ASSUME NEW i \in 1 .. n + 1 PROVE ItemAt(r, t, i, g[i - 1], g[i])
  <2>1. i \in 0 .. n + 1 /\ i - 1 \in 0 .. n + 1 /\ i - 1 # n + 1
    BY <1>1
  <2>2. g[i - 1] = f[i - 1] /\ g[i] = IF i = n + 1 THEN l ELSE f[i]
    BY <2>1
  <2> HIDE DEF g
  <2>3. CASE i = n + 1
    <3>1. i - 1 = n
      BY <1>1, <2>3
    <3> QED
      BY <1>2, <1>4, <2>2, <2>3, <3>1
  <2>4. CASE i # n + 1
    <3>1. i \in 1 .. n
      BY <1>1, <2>4
    <3> QED
      BY <1>3, <2>2, <2>4, <3>1
  <2> QED
    BY <2>3, <2>4
<1> HIDE DEF g
<1>7. Items(g, r, t, b)
  BY <1>1, <1>5, <1>6 DEF Items, ItemAt, l
<1> QED
  BY <1>7

\* That is what is counted.
LEMMA RecordCounted ==
  ASSUME NEW p, Fits(p), NEW r, Fits(r), RecordOn(r, p), NEW q \in Nat, NEW a \in Nat, Whole(p, q, a)
  PROVE  Whole(r, q, a + 1)
<1> SUFFICES ASSUME ~r.cut PROVE r.ok /\ \E g : Items(g, r, q, a + 1)
  BY DEF Whole
<1>1. ~p.cut
  BY DEF RecordOn, Grows
<1>2. p.ok /\ \E f : Items(f, p, q, a)
  BY <1>1 DEF Whole
<1>3. r.ok /\ Grows(r, p) /\ RecordAt(r, Len(p.cells) + 1, Len(r.cells) + 1)
  BY <1>2 DEF RecordOn, Grows
<1>4. PICK f : Items(f, p, q, a)
  BY <1>2
<1>5. a + 1 \in Nat
  OBVIOUS
<1> DEFINE b == a + 1
<1>6. b \in Nat /\ b = a + 1
  OBVIOUS
<1> HIDE DEF b
<1>7. \E g : Items(g, r, q, b)
  BY <1>2, <1>3, <1>4, <1>6, ItemsOn
<1> QED
  BY <1>3, <1>7 DEF b

\* Questions come before answers.
LEMMA QuestionCounted ==
  ASSUME NEW p, Fits(p), NEW r, Fits(r), QuestionOn(r, p), NEW q \in Nat, NEW a \in Nat, Whole(p, q, a),
         ~ \E c \in DOMAIN p.cells : p.cells[c].kind = "type"
  PROVE  Whole(r, q + 1, a)
<1> SUFFICES ASSUME ~r.cut PROVE r.ok /\ \E g : Items(g, r, q + 1, a)
  BY DEF Whole
<1>1. ~p.cut
  BY DEF QuestionOn, Grows
<1>2. p.ok /\ \E f : Items(f, p, q, a)
  BY <1>1 DEF Whole
<1>3. r.ok /\ Grows(r, p) /\ QuestionAt(r, Len(p.cells) + 1, Len(r.cells) + 1)
  BY <1>2 DEF QuestionOn, Grows
<1>4. PICK f : Items(f, p, q, a)
  BY <1>2
<1>5. a = 0
  <2> SUFFICES ASSUME a # 0 PROVE FALSE
    OBVIOUS
  <2>1. q + a \in 1 .. q + a /\ ~(q + a <= q)
    OBVIOUS
  <2>2. RecordAt(p, f[(q + a) - 1], f[q + a])
    BY <1>4, <2>1 DEF Items
  <2>3. DOMAIN p.cells = 1 .. Len(p.cells)
    BY DEF Fits, Packets
  <2> QED
    BY <2>2, <2>3 DEF RecordAt
<1> DEFINE t == q + 1
<1>6. t \in Nat /\ t = q + 1
  OBVIOUS
<1> HIDE DEF t
<1>7. \E g : Items(g, r, t, a)
  BY <1>2, <1>3, <1>4, <1>5, <1>6, ItemsOn
<1> QED
  BY <1>3, <1>7 DEF t

\* What a function says of its success is not among what is counted.
LEMMA OkWhole ==
  ASSUME NEW p, Fits(p), NEW q \in Nat, NEW a \in Nat, Whole(p, q, a)
  PROVE  Whole([p EXCEPT !.ok = TRUE], q, a)
<1> DEFINE r == [p EXCEPT !.ok = TRUE]
<1>1. r.ok /\ r.cells = p.cells /\ r.used = p.used /\ r.cut = p.cut
  BY DEF Fits, Packets
<1> HIDE DEF r
<1>2. ASSUME NEW f, Items(f, p, q, a) PROVE Items(f, r, q, a)
  BY <1>1, <1>2 DEF Items, QuestionAt, RecordAt, NameAt, Offset
<1> QED
  BY <1>1, <1>2 DEF Whole, r

\* What is counted does not disturb the packet.
LEMMA AnswerKeeps ==
  ASSUME PacketInv, NEW q, Well(q), NEW n \in Nat, Whole(q, questions, answers + n), Answer(q, n)
  PROVE  PacketInv'
<1>1. Well([q EXCEPT !.ok = TRUE]) /\ [q EXCEPT !.ok = TRUE].ok = TRUE
  BY OkWell
<1>2. pkt' = [q EXCEPT !.ok = TRUE]
  BY DEF Answer
<1>3. Well(pkt)' /\ pkt'.ok
  BY <1>1, <1>2
<1>4. MaxAnswers \in Nat
  BY PacketAssumption
<1>5. /\ answers' = answers + n /\ questions' = questions /\ items' = items + 1 /\ items < MaxAnswers
      /\ items \in 0 .. MaxAnswers /\ questions \in 0 .. items /\ answers \in Nat
  BY DEF PacketInv, Answer
<1>6. Whole(pkt', questions', answers')
  <2>1. questions \in Nat /\ answers + n \in Nat
    BY <1>5
  <2>2. Whole([q EXCEPT !.ok = TRUE], questions, answers + n)
    BY <2>1, OkWhole DEF Well
  <2> QED
    BY <1>2, <1>5, <2>2
<1>7. items' \in 0 .. MaxAnswers /\ questions' \in 0 .. items' /\ answers' \in Nat
  BY <1>4, <1>5
<1> QED
  BY <1>3, <1>6, <1>7 DEF PacketInv, Whole, Items, QuestionAt, RecordAt, NameAt, Offset

\* One record counts if it was whole.
LEMMA OneKeeps ==
  ASSUME PacketInv, NEW q, Well(q), RecordOn(q, pkt), One(q)
  PROVE  PacketInv'
<1> DEFINE n == IF q.ok THEN 1 ELSE 0
<1>1. n \in Nat /\ Answer(q, n)
  BY DEF One
<1>2. Whole(q, questions, answers + n)
  <2>1. /\ Fits(pkt) /\ Fits(q) /\ questions \in Nat /\ answers \in Nat
        /\ Whole(pkt, questions, answers) /\ pkt.ok
    BY DEF PacketInv, Well
  <2>2. Whole(q, questions, answers + 1)
    BY <2>1, RecordCounted
  <2>3. ~q.cut => q.ok
    BY <2>1 DEF RecordOn, Grows
  <2> QED
    BY <2>2, <2>3 DEF Whole
<1> HIDE DEF n
<1> QED
  BY <1>1, <1>2, AnswerKeeps

\* A question
LEMMA AskKeeps ==
  ASSUME PacketInv, NEW name \in NamesWritten, Ask(name)
  PROVE  PacketInv'
<1> DEFINE q == AppendQuestion(pkt, name)
           n == questions + (IF q.ok THEN 1 ELSE 0)
<1>1. /\ Fits(pkt) /\ questions \in Nat /\ answers \in Nat /\ items \in 0 .. MaxAnswers
      /\ questions \in 0 .. items /\ MaxAnswers \in Nat
      /\ Whole(pkt, questions, answers) /\ pkt.ok
  BY PacketAssumption DEF PacketInv, Well
<1>2. Well(q) /\ QuestionOn(q, pkt)
  BY QuestionWell DEF PacketInv
<1>3. /\ pkt' = [q EXCEPT !.ok = TRUE] /\ questions' = n /\ answers' = answers
      /\ items' = items + 1 /\ items < MaxAnswers
      /\ ~ \E c \in DOMAIN pkt.cells : pkt.cells[c].kind = "type"
  BY DEF Ask
<1>4. n \in Nat /\ n \in 0 .. items + 1
  BY <1>1
<1>5. Whole(q, n, answers)
  <2>1. Whole(q, questions + 1, answers)
    BY <1>1, <1>2, <1>3, QuestionCounted DEF Well
  <2>2. ~q.cut => q.ok
    BY <1>1, <1>2 DEF QuestionOn, Grows
  <2> QED
    BY <2>1, <2>2 DEF Whole
<1> HIDE DEF q, n
<1>6. Well([q EXCEPT !.ok = TRUE]) /\ [q EXCEPT !.ok = TRUE].ok = TRUE
      /\ Whole([q EXCEPT !.ok = TRUE], n, answers)
  BY <1>1, <1>2, <1>4, <1>5, OkWell, OkWhole DEF Well
<1>7. Well(pkt)' /\ pkt'.ok /\ Whole(pkt', questions', answers')
  BY <1>3, <1>6
<1>8. items' \in 0 .. MaxAnswers /\ questions' \in 0 .. items' /\ answers' \in Nat
  BY <1>1, <1>3, <1>4
<1> QED
  BY <1>7, <1>8 DEF PacketInv, Whole, Items, QuestionAt, RecordAt, NameAt, Offset

\* The number of records that were whole
LEMMA CountedNat ==
  ASSUME NEW a, NEW n \in Nat
  PROVE  /\ Cardinality({i \in 0 .. n : a[i].ok}) \in Nat
         /\ Cardinality({i \in 1 .. n : a[i].ok}) \in Nat
         /\ (\A i \in 0 .. n : a[i].ok) => Cardinality({i \in 0 .. n : a[i].ok}) = n + 1
         /\ (\A i \in 1 .. n : a[i].ok) => Cardinality({i \in 1 .. n : a[i].ok}) = n
<1>1. IsFiniteSet(0 .. n) /\ IsFiniteSet(1 .. n) /\ Cardinality(0 .. n) = n + 1 /\ Cardinality(1 .. n) = n
  BY FS_Interval
<1>2. IsFiniteSet({i \in 0 .. n : a[i].ok}) /\ IsFiniteSet({i \in 1 .. n : a[i].ok})
  BY <1>1, FS_Subset
<1>3. Cardinality({i \in 0 .. n : a[i].ok}) \in Nat /\ Cardinality({i \in 1 .. n : a[i].ok}) \in Nat
  BY <1>2, FS_CardinalityType
<1>4. ASSUME \A i \in 0 .. n : a[i].ok PROVE {i \in 0 .. n : a[i].ok} = 0 .. n
  BY <1>4
<1>5. ASSUME \A i \in 1 .. n : a[i].ok PROVE {i \in 1 .. n : a[i].ok} = 1 .. n
  BY <1>5
<1> QED
  BY <1>1, <1>3, <1>4, <1>5

\* A PTR record and those for the subtypes, one after the other
LEMMA PtrKeeps ==
  ASSUME PacketInv, NEW s \in Services, PtrAnswers(s)
  PROVE  PacketInv'
<1> DEFINE subtypes == Service[s].subtypes
           n == Len(subtypes)
           b == AppendPtrRecord(pkt, s)
           Add(i, q) == AppendSubtypePtrRecord([q EXCEPT !.ok = TRUE], s, subtypes[i])
           Is(f) == f = [i \in 0 .. n |-> IF i = 0 THEN b ELSE Add(i, f[i - 1])]
           a == CHOOSE f : Is(f)
           V == {q \in Packets : Well(q)}
           Step(i, q) == IF i \in 1 .. n THEN Add(i, q) ELSE q
           T == [i \in Nat |-> [q \in V |-> Step(i, q)]]
<1>1. IF a[0].ok THEN Answer(a[n], Cardinality({i \in 0 .. n : a[i].ok})) ELSE One(a[0])
  BY DEF PtrAnswers
<1>2. n \in Nat /\ \A i \in 1 .. n : subtypes[i] \in ToSet(subtypes)
  BY PacketAssumption DEF ToSet
<1>3. b \in V
  BY PtrWell DEF PacketInv, Well, Fits
<1>4. ASSUME NEW i \in Nat, NEW q \in V PROVE Step(i, q) \in V
  <2>1. CASE i \in 1 .. n
    <3>1. Well([q EXCEPT !.ok = TRUE])
      BY OkWell
    <3>2. Well(Add(i, q))
      BY <1>2, <2>1, <3>1, PtrWell
    <3>3. Add(i, q) \in V
      BY <3>2 DEF Well, Fits
    <3> QED
      BY <2>1, <3>3
  <2> QED
    BY <2>1
<1>5. T \in [Nat -> [V -> V]] /\ \A i \in Nat, q \in V : T[i][q] = Step(i, q)
  BY <1>4
<1>6. RecordOn(b, pkt) /\ \A i \in 1 .. n : \A q : Well(q) =>
         Well([q EXCEPT !.ok = TRUE]) /\ RecordOn(Add(i, q), [q EXCEPT !.ok = TRUE])
  <2>1. RecordOn(b, pkt)
    BY PtrWell DEF PacketInv
  <2>2. ASSUME NEW i \in 1 .. n, NEW q, Well(q)
        PROVE  Well([q EXCEPT !.ok = TRUE]) /\ RecordOn(Add(i, q), [q EXCEPT !.ok = TRUE])
    BY <1>2, <2>2, OkWell, PtrWell
  <2> QED
    BY <2>1, <2>2
<1> HIDE DEF V, T, b, Add, subtypes, n
<1>7. \E f : Is(f)
  <2>1. PICK f \in [0 .. n -> V] : Follows(f, b, T, n)
    BY <1>2, <1>3, <1>5, Recursion
  <2>2. f[0] = b /\ \A i \in 1 .. n : f[i] = T[i][f[i - 1]]
    BY <2>1 DEF Follows
  <2>3. ASSUME NEW i \in 1 .. n PROVE f[i] = Add(i, f[i - 1])
    <3>1. i \in Nat /\ f[i - 1] \in V
      BY <1>2, <2>1
    <3>2. f[i] = Step(i, f[i - 1])
      BY <1>5, <2>2, <3>1
    <3> QED
      BY <3>2
  <2>4. \A i \in 0 .. n : f[i] = IF i = 0 THEN b ELSE Add(i, f[i - 1])
    BY <1>2, <2>2, <2>3
  <2>5. Is(f)
    BY <2>4
  <2> QED
    BY <2>5
<1>8. Is(a)
  <2> HIDE DEF Is
  <2> QED
    BY <1>7
<1> HIDE DEF a
<1>9. /\ questions \in Nat /\ answers \in Nat /\ Fits(pkt) /\ Well(pkt) /\ pkt.ok
       /\ Whole(pkt, questions, answers)
  BY DEF PacketInv, Well
<1> DEFINE Counted(i) == /\ Whole(a[i], questions, answers + (i + 1))
                         /\ ~a[i].cut => \A j \in 0 .. i : a[j].ok
           OK == {i \in 0 .. n : a[i] \in V /\ Counted(i)}
<1>10. 0 \in OK
  <2>1. a[0] = b /\ 0 \in 0 .. n
    BY <1>2, <1>8
  <2>2. Whole(b, questions, answers + 1)
    BY <1>3, <1>6, <1>9, RecordCounted DEF V, Well
  <2>3. ~b.cut => b.ok
    BY <1>6, <1>9 DEF RecordOn, Grows
  <2>4. \A j \in 0 .. 0 : a[j] = b
    BY <2>1
  <2>5. Counted(0)
    BY <2>1, <2>2, <2>3, <2>4
  <2> QED
    BY <1>3, <2>1, <2>5
<1>11. ASSUME NEW i \in 1 .. n, i - 1 \in OK PROVE i \in OK
  <2>1. i \in Nat /\ i \in 0 .. n /\ i # 0
    BY <1>2
  <2>2. a[i] = Add(i, a[i - 1])
    BY <1>8, <2>1
  <2>3. a[i - 1] \in V /\ Counted(i - 1)
    BY <1>11
  <2>4. a[i] \in V
    BY <1>4, <2>1, <2>2, <2>3
  <2> DEFINE x == [a[i - 1] EXCEPT !.ok = TRUE]
  <2>5. Well(a[i - 1]) /\ Well(a[i]) /\ a[i - 1] \in Packets
    BY <2>3, <2>4 DEF V
  <2>6. Well(x) /\ RecordOn(a[i], x) /\ x.ok /\ x.cut = a[i - 1].cut
    BY <1>6, <2>2, <2>5 DEF Packets
  <2>7. Whole(x, questions, answers + i)
    <3>1. answers + ((i - 1) + 1) = answers + i /\ answers + i \in Nat
      BY <1>9, <2>1
    <3> QED
      BY <1>9, <2>3, <2>5, <3>1, OkWhole DEF Well
  <2> HIDE DEF x
  <2>8. Whole(a[i], questions, answers + (i + 1))
    <3>1. (answers + i) + 1 = answers + (i + 1) /\ answers + i \in Nat
      BY <1>9, <2>1
    <3> DEFINE m == answers + i
    <3> HIDE DEF m
    <3>2. Whole(a[i], questions, m + 1)
      BY <1>9, <2>5, <2>6, <2>7, <3>1, RecordCounted DEF m, Well
    <3> QED
      BY <3>1, <3>2 DEF m
  <2>9. ~a[i].cut => \A j \in 0 .. i : a[j].ok
    <3>1. ~a[i].cut => a[i].ok /\ ~a[i - 1].cut
      BY <2>6 DEF RecordOn, Grows
    <3>2. \A j \in 0 .. i : j = i \/ j \in 0 .. i - 1
      BY <2>1
    <3> QED
      BY <2>3, <3>1, <3>2
  <2> QED
    BY <2>1, <2>4, <2>8, <2>9
<1>12. 0 .. n \subseteq OK
  <2> HIDE DEF OK, Is
  <2> QED
    BY <1>2, <1>10, <1>11, UpTo
<1>13. a[0] \in V /\ a[n] \in V /\ Counted(n)
  BY <1>2, <1>12
<1>14. Well(a[0]) /\ Well(a[n]) /\ RecordOn(a[0], pkt)
  <2>1. a[0] = b
    BY <1>2, <1>8
  <2> QED
    BY <1>13, <1>6, <2>1 DEF V
<1> DEFINE m == Cardinality({i \in 0 .. n : a[i].ok})
<1>15. m \in Nat
  BY <1>2, CountedNat
<1>16. Whole(a[n], questions, answers + m)
  <2>1. (\A i \in 0 .. n : a[i].ok) => m = n + 1
    BY <1>2, CountedNat
  <2> HIDE DEF m
  <2> QED
    BY <1>13, <2>1 DEF Whole
<1> HIDE DEF m, Counted, Is
<1>17. CASE a[0].ok
  <2>1. Answer(a[n], m)
    BY <1>1, <1>17 DEF m
  <2> QED
    BY <1>14, <1>15, <1>16, <2>1, AnswerKeeps
<1>18. CASE ~a[0].ok
  BY <1>1, <1>14, <1>18, OneKeeps
<1> QED
  BY <1>17, <1>18

\* A record for each address of a host
LEMMA AddressKeeps ==
  ASSUME PacketInv, NEW h \in Hosts, NEW n \in Nat, NEW size \in Nat \ {0}, AddressAnswers(h, n, size)
  PROVE  PacketInv'
<1> DEFINE Is(f) == f = [i \in 0 .. n |-> IF i = 0 THEN pkt ELSE AppendAddress(f[i - 1], h, size)]
           a == CHOOSE f : Is(f)
           V == {q \in Packets : Well(q)}
           T == [i \in Nat |-> [q \in V |-> AppendAddress(q, h, size)]]
<1>1. Answer(a[n], Cardinality({i \in 1 .. n : a[i].ok}))
  BY DEF AddressAnswers
<1>2. pkt \in V
  BY DEF PacketInv, Well, Fits
<1>3. ASSUME NEW q \in V PROVE AppendAddress(q, h, size) \in V
  <2>1. Well(AppendAddress(q, h, size))
    BY AddressWell
  <2> QED
    BY <2>1 DEF Well, Fits
<1>4. T \in [Nat -> [V -> V]] /\ \A i \in Nat, q \in V : T[i][q] = AppendAddress(q, h, size)
  BY <1>3
<1> HIDE DEF V, T
<1>5. \E f : Is(f)
  <2>1. PICK f \in [0 .. n -> V] : Follows(f, pkt, T, n)
    BY <1>2, <1>4, Recursion
  <2>2. f[0] = pkt /\ \A i \in 1 .. n : f[i] = T[i][f[i - 1]]
    BY <2>1 DEF Follows
  <2>3. ASSUME NEW i \in 1 .. n PROVE f[i] = AppendAddress(f[i - 1], h, size)
    <3>1. i \in Nat /\ f[i - 1] \in V
      BY <2>1
    <3> QED
      BY <1>4, <2>2, <3>1
  <2>4. \A i \in 0 .. n : f[i] = IF i = 0 THEN pkt ELSE AppendAddress(f[i - 1], h, size)
    BY <2>2, <2>3
  <2>5. Is(f)
    BY <2>4
  <2> QED
    BY <2>5
<1>6. Is(a)
  <2> HIDE DEF Is
  <2> QED
    BY <1>5
<1> HIDE DEF a
<1>7. \A q : Well(q) => RecordOn(AppendAddress(q, h, size), q)
  BY AddressWell
<1>8. questions \in Nat /\ answers \in Nat /\ Whole(pkt, questions, answers)
  BY DEF PacketInv
<1> DEFINE Counted(i) == /\ Whole(a[i], questions, answers + i)
                         /\ ~a[i].cut => \A j \in 1 .. i : a[j].ok
           OK == {i \in 0 .. n : a[i] \in V /\ Counted(i)}
<1>9. 0 \in OK
  <2>1. a[0] = pkt /\ answers + 0 = answers /\ 1 .. 0 = {} /\ 0 \in 0 .. n
    BY <1>6, <1>8
  <2> QED
    BY <1>2, <1>8, <2>1
<1>10. ASSUME NEW i \in 1 .. n, i - 1 \in OK PROVE i \in OK
  <2>1. i \in 0 .. n /\ i # 0
    OBVIOUS
  <2>2. a[i] = AppendAddress(a[i - 1], h, size)
    BY <1>6, <2>1
  <2>3. a[i - 1] \in V /\ Counted(i - 1)
    BY <1>10
  <2>4. a[i] \in V
    BY <1>3, <2>2, <2>3
  <2>5. Fits(a[i - 1]) /\ Fits(a[i]) /\ RecordOn(a[i], a[i - 1])
    BY <1>7, <2>2, <2>3, <2>4 DEF V, Well
  <2>6. Whole(a[i], questions, answers + i)
    <3> DEFINE m == answers + (i - 1)
    <3>1. m \in Nat /\ m + 1 = answers + i /\ Whole(a[i - 1], questions, m)
      BY <1>8, <2>3
    <3> HIDE DEF m
    <3>2. Whole(a[i], questions, m + 1)
      BY <1>8, <2>5, <3>1, RecordCounted
    <3> QED
      BY <3>1, <3>2
  <2>7. ~a[i].cut => \A j \in 1 .. i : a[j].ok
    <3>1. ~a[i].cut => a[i].ok /\ ~a[i - 1].cut
      BY <2>5, <2>6 DEF RecordOn, Grows, Whole
    <3>2. \A j \in 1 .. i : j = i \/ j \in 1 .. i - 1
      OBVIOUS
    <3> QED
      BY <2>3, <3>1, <3>2
  <2> QED
    BY <2>1, <2>4, <2>6, <2>7
<1>11. 0 .. n \subseteq OK
  <2> HIDE DEF OK, Is
  <2> QED
    BY <1>9, <1>10, UpTo
<1>12. Well(a[n]) /\ Counted(n)
  <2>1. a[n] \in V /\ Counted(n)
    BY <1>11
  <2> QED
    BY <2>1 DEF V
<1> DEFINE m == Cardinality({i \in 1 .. n : a[i].ok})
<1>13. m \in Nat /\ ((\A i \in 1 .. n : a[i].ok) => m = n)
  BY CountedNat
<1>14. Answer(a[n], m)
  BY <1>1
<1> HIDE DEF m
<1>15. Whole(a[n], questions, answers + m)
  BY <1>12, <1>13 DEF Whole
<1> HIDE DEF Counted, Is
<1> QED
  BY <1>12, <1>13, <1>14, <1>15, AnswerKeeps

-----------------------------------------------------------------------------
(* Every packet.                                                            *)

\* A new packet
LEMMA EmptyWell == Well(Empty) /\ Whole(Empty, 0, 0)
<1>1. HeadLen \in Nat /\ HeadLen <= MaxPacket
  BY PacketAssumption
<1>2. Empty \in Packets
  BY <1>1 DEF Empty, Packets
<1>3. Empty.cells = <<>> /\ Empty.used = HeadLen /\ Empty.ok /\ Empty.names = {}
  BY DEF Empty
<1>4. Fits(Empty)
  BY <1>1, <1>2, <1>3 DEF Fits, Adjacent, Backward
<1>5. \E L : ReadsAs(L, Empty)
  <2> DEFINE L == [c \in DOMAIN Empty.cells |-> <<>>]
  <2>1. ReadsAs(L, Empty)
    BY <1>3 DEF ReadsAs
  <2> QED
    BY <2>1
<1>6. Items([i \in 0 .. 0 |-> 1], Empty, 0, 0)
  <2> DEFINE f == [i \in 0 .. 0 |-> 1]
  <2>1. f \in [0 .. 0 + 0 -> Nat] /\ f[0] = 1 /\ f[0 + 0] = 1
    OBVIOUS
  <2>2. 1 .. 0 + 0 = {} /\ Len(Empty.cells) + 1 = 1
    BY <1>3
  <2> HIDE DEF f
  <2>3. Items(f, Empty, 0, 0)
    BY <2>1, <2>2 DEF Items
  <2> QED
    BY <2>3 DEF f
<1>7. Whole(Empty, 0, 0)
  BY <1>3, <1>6 DEF Whole
<1> QED
  BY <1>3, <1>4, <1>5, <1>7, ToldBy DEF Well

\* The first packet
LEMMA PacketBegins == PacketInit => PacketInv
<1> SUFFICES ASSUME PacketInit PROVE PacketInv
  OBVIOUS
<1>1. pkt = Empty /\ Empty.ok = TRUE
  BY DEF PacketInit, Empty
<1> QED
  BY <1>1, EmptyWell, PacketAssumption DEF PacketInv, PacketInit

\* The next packet is a new one.
LEMMA SendKeeps ==
  ASSUME Send
  PROVE  PacketInv'
<1>1. pkt' = Empty /\ Empty.ok = TRUE
  BY DEF Send, Empty
<1>2. Well(pkt)' /\ pkt'.ok /\ Whole(pkt', questions', answers')
  BY <1>1, EmptyWell DEF Send
<1>3. items' \in 0 .. MaxAnswers /\ questions' \in 0 .. items' /\ answers' \in Nat
  BY PacketAssumption DEF Send
<1> QED
  BY <1>2, <1>3 DEF PacketInv, Whole, Items, QuestionAt, RecordAt, NameAt, Offset

\* Whatever is appended
LEMMA PacketStep == PacketInv /\ [PacketNext]_packetVars => PacketInv'
<1> SUFFICES ASSUME PacketInv, [PacketNext]_packetVars PROVE PacketInv'
  OBVIOUS
<1>0. Well(pkt)
  BY DEF PacketInv
<1>1. CASE UNCHANGED packetVars
  BY <1>1 DEF PacketInv, Fits, Adjacent, Backward, packetVars
<1>2. ASSUME NEW s \in Services,
             Ask(Type(s)) \/ Ask(Instance(s)) \/ PtrAnswers(s) \/ SdptrAnswer(s)
               \/ TxtAnswer(s) \/ SrvAnswer(s)
      PROVE  PacketInv'
  <2>1. CASE Ask(Type(s)) \/ Ask(Instance(s))
    BY <2>1, NameIn, AskKeeps
  <2>2. CASE PtrAnswers(s)
    BY <2>2, PtrKeeps
  <2>3. CASE SdptrAnswer(s)
    BY <1>0, <2>3, PtrWell, OneKeeps DEF SdptrAnswer
  <2>4. CASE TxtAnswer(s)
    BY <1>0, <2>4, TxtWell, OneKeeps DEF TxtAnswer
  <2>5. CASE SrvAnswer(s)
    BY <1>0, <2>5, SrvWell, OneKeeps DEF SrvAnswer
  <2> QED
    BY <1>2, <2>1, <2>2, <2>3, <2>4, <2>5
<1>3. ASSUME NEW h \in Hosts, Ask(Host(h)) PROVE PacketInv'
  BY <1>3, NameIn, AskKeeps
<1>4. ASSUME NEW h \in Hosts, NEW n \in 1 .. MaxAddresses, AAnswer(h, n) \/ AaaaAnswer(h, n)
      PROVE  PacketInv'
  <2>1. n \in Nat
    BY PacketAssumption
  <2> QED
    BY <1>4, <2>1, AddressKeeps DEF AAnswer, AaaaAnswer
<1>5. CASE Send
  BY <1>5, SendKeeps
<1> QED
  BY <1>1, <1>2, <1>3, <1>4, <1>5 DEF PacketNext

\* For any services, labels and sizes of the buffer: what every function leaves
\* of a packet, whole or cut, is inductive.
THEOREM PacketInductive == PacketSpec => []PacketInv
  BY PacketBegins, PacketStep, PTL DEF PacketSpec

\* No byte is written behind the end of the buffer, and every reference leads
\* to a label before it.
THEOREM PacketsInBounds == PacketSpec => []PacketTypeOK
<1>1. PacketInv => PacketTypeOK
  BY DEF PacketInv, PacketTypeOK, Well, Fits, Packets
<1> QED
  BY <1>1, PacketInductive, PTL

\* As long as all labels are short enough for a length byte, a reader finds
\* every name behind labels and references for as long as nothing was cut.
THEOREM NamesAreReadBack ==
  ASSUME ShortLabels
  PROVE  PacketSpec => []NamesReadBack
<1>1. PacketInv => NamesReadBack
  <2> SUFFICES ASSUME PacketInv, ~pkt.cut, NEW n \in pkt.names
               PROVE  LabelsFrom(pkt.cells)[n.first] = n.name /\ Readable(n.name)
    BY DEF NamesReadBack, Cells
  <2> DEFINE L == [c \in DOMAIN pkt.cells |-> LabelsFrom(pkt.cells)[c]]
  <2>1. ReadsAs(L, pkt) /\ Fits(pkt)
    BY DEF PacketInv, Well, Told
  <2>2. n.first \in DOMAIN pkt.cells /\ L[n.first] = n.name
    BY <2>1 DEF ReadsAs
  <2>3. LabelsFrom(pkt.cells)[n.first] = n.name
    BY <2>2
  <2>4. n.name \in Seq(Labels)
    BY <2>1 DEF Fits, Packets
  <2>5. Readable(n.name)
    BY <2>4 DEF Readable, ShortLabels
  <2> QED
    BY <2>3, <2>5
<1> QED
  BY <1>1, PacketInductive, PTL

-----------------------------------------------------------------------------
(* What a reader makes of a packet.                                         *)

\* Cells begin one after the other, because none is empty.
LEMMA OffsetsRise ==
  ASSUME NEW p, Fits(p), NEW i \in 1 .. Len(p.cells) + 1, NEW j \in 1 .. Len(p.cells) + 1, i < j
  PROVE  Offset(p, i) < Offset(p, j)
<1> DEFINE n == Len(p.cells)
           S == {k \in 0 .. n - i : Offset(p, i) < Offset(p, i + (k + 1))}
<1>1. /\ n \in Nat /\ DOMAIN p.cells = 1 .. n
      /\ p.used \in Nat /\ \A c \in 1 .. n : p.cells[c] \in CellSet
  BY DEF Fits, Packets
<1>2. \A c \in 1 .. n : p.cells[c].at \in Nat /\ p.cells[c].size \in Nat \ {0}
  BY <1>1 DEF CellSet
<1> HIDE DEF n
<1>3. \A c \in 1 .. n + 1 : Offset(p, c) \in Nat
  BY <1>1, <1>2 DEF Offset, n
<1>4. ASSUME NEW c \in 1 .. n PROVE Offset(p, c) < Offset(p, c + 1)
  <2>1. p.cells[c].at + p.cells[c].size = IF c = n THEN p.used ELSE p.cells[c + 1].at
    BY <1>1 DEF Fits, Adjacent, n
  <2>2. Offset(p, c) = p.cells[c].at
    BY <1>1 DEF Offset, n
  <2>3. Offset(p, c + 1) = IF c = n THEN p.used ELSE p.cells[c + 1].at
    BY <1>1 DEF Offset, n
  <2> QED
    BY <1>1, <1>2, <2>1, <2>2, <2>3
<1>5. i \in Nat /\ j \in Nat /\ i \in 1 .. n /\ j \in 1 .. n + 1 /\ n - i \in Nat
  BY <1>1 DEF n
<1>6. 0 \in S
  <2>1. 0 \in 0 .. n - i /\ i + (0 + 1) = i + 1
    BY <1>5
  <2> QED
    BY <1>4, <1>5, <2>1
<1>7. ASSUME NEW k \in 1 .. n - i, k - 1 \in S PROVE k \in S
  <2>1. /\ i + k \in 1 .. n /\ i + ((k - 1) + 1) = i + k /\ (i + k) + 1 = i + (k + 1)
        /\ k \in 0 .. n - i /\ i + k \in 1 .. n + 1 /\ i + (k + 1) \in 1 .. n + 1 /\ i \in 1 .. n + 1
    BY <1>1, <1>5
  <2>2. Offset(p, i) < Offset(p, i + k)
    BY <1>7, <2>1
  <2>3. Offset(p, i + k) < Offset(p, i + (k + 1))
    <3> DEFINE c == i + k
    <3> HIDE DEF c
    <3>1. c \in 1 .. n /\ c + 1 = i + (k + 1)
      BY <2>1 DEF c
    <3>2. Offset(p, c) < Offset(p, c + 1)
      BY <1>4, <3>1
    <3> QED
      BY <3>1, <3>2 DEF c
  <2>4. Offset(p, i) \in Nat /\ Offset(p, i + k) \in Nat /\ Offset(p, i + (k + 1)) \in Nat
    BY <1>3, <2>1
  <2> QED
    BY <2>1, <2>2, <2>3, <2>4
<1>8. 0 .. n - i \subseteq S
  <2> HIDE DEF S
  <2> QED
    BY <1>5, <1>6, <1>7, UpTo
<1>9. (j - i) - 1 \in 0 .. n - i /\ i + (((j - i) - 1) + 1) = j
  BY <1>1, <1>5
<1> QED
  BY <1>8, <1>9

\* A name is read to its end, ...
LEMMA NameRead ==
  ASSUME Fits(pkt), NEW c, NEW e, NameAt(pkt, c, e)
  PROVE  AfterName(c) = e
<1> DEFINE n == Len(Cells)
           S == {d \in c .. n : Cells[d].kind # "label"} \cup {n + 1}
<1>1. n \in Nat
  BY DEF Fits, Packets, Cells
<1>2. /\ c \in Nat /\ e \in Nat /\ c \in 1 .. e - 1 /\ e \in 1 .. n + 1
      /\ \A d \in c .. e - 2 : Cells[d].kind = "label"
      /\ Cells[e - 1].kind \in {"ref", "end"}
  BY <1>1 DEF NameAt, Cells
<1>3. e - 1 \in S /\ \A d \in S : e - 1 <= d /\ d \in Nat
  <2>1. e - 1 \in c .. n
    BY <1>1, <1>2
  <2>2. Cells[e - 1].kind # "label"
    BY <1>2
  <2>3. \A d \in c .. n : Cells[d].kind # "label" => e - 1 <= d /\ d \in Nat
    BY <1>1, <1>2
  <2> HIDE DEF n
  <2> QED
    BY <1>1, <1>2, <2>1, <2>2, <2>3
<1> HIDE DEF S
<1>4. Min(S) = e - 1
  <2>1. Min(S) \in S /\ \A d \in S : Min(S) <= d
    BY <1>3 DEF Min
  <2> QED
    BY <1>2, <1>3, <2>1
<1> QED
  BY <1>1, <1>2, <1>4 DEF AfterName, S

\* ... a question ...
LEMMA QuestionRead ==
  ASSUME Fits(pkt), NEW c, NEW e, QuestionAt(pkt, c, e)
  PROVE  AfterQuestion(c) = e
<1>1. Len(Cells) \in Nat
  BY DEF Fits, Packets, Cells
<1>2. e \in 3 .. Len(Cells) + 1 /\ NameAt(pkt, c, e - 2)
  BY DEF QuestionAt, Cells
<1>3. AfterName(c) = e - 2
  BY <1>2, NameRead
<1> QED
  BY <1>1, <1>2, <1>3 DEF AfterQuestion

\* ... and a record, whose length leads to no other cell.
LEMMA RecordRead ==
  ASSUME Fits(pkt), NEW c, NEW e, RecordAt(pkt, c, e)
  PROVE  AfterRecord(c) = e
<1> DEFINE n == Len(Cells)
<1>1. n \in Nat
  BY DEF Fits, Packets, Cells
<1>2. PICK d \in 1 .. n :
        /\ NameAt(pkt, c, d) /\ e \in d + 1 .. n + 1
        /\ Cells[d].at + Cells[d].size + Cells[d].length = Offset(pkt, e)
  BY DEF RecordAt, Cells
<1>3. AfterName(c) = d
  BY <1>2, NameRead
<1> DEFINE next == {x \in d + 1 .. n + 1 : Offset(pkt, x) = Offset(pkt, e)}
<1>4. ASSUME NEW x \in d + 1 .. n + 1, Offset(pkt, x) = Offset(pkt, e) PROVE x = e
  <2>1. x \in 1 .. n + 1 /\ e \in 1 .. n + 1
    BY <1>1, <1>2
  <2>2. Offset(pkt, x) \in Nat
    <3>1. /\ pkt.used \in Nat /\ \A y \in 1 .. n : pkt.cells[y].at \in Nat
      BY DEF Fits, Packets, Cells, CellSet
    <3> QED
      BY <1>1, <2>1, <3>1 DEF Offset, Cells
  <2>3. ~(x < e) /\ ~(e < x)
    BY <1>4, <2>1, <2>2, OffsetsRise DEF Cells
  <2> QED
    BY <1>1, <2>1, <2>3
<1>5. next = {e}
  BY <1>2, <1>4
<1>6. Min({e}) = e
  <2>1. e <= e
    BY <1>1, <1>2
  <2> QED
    BY <2>1 DEF Min
<1>7. d # 0 /\ ~(d > n)
  BY <1>1
<1>8. AfterRecord(c) = IF AfterName(c) = 0 \/ AfterName(c) > n \/ next = {} THEN 0 ELSE Min(next)
  BY <1>2, <1>3 DEF AfterRecord
<1> HIDE DEF next, n
<1> QED
  BY <1>3, <1>5, <1>6, <1>7, <1>8

\* Whatever a packet holds, the parser goes forward or gives up.
LEMMA Forward ==
  ASSUME Fits(pkt), NEW c \in 1 .. Len(Cells)
  PROVE  AfterRecord(c) = 0 \/ AfterRecord(c) \in c + 1 .. Len(Cells) + 1
<1> DEFINE n == Len(Cells)
           S == {x \in c .. n : Cells[x].kind # "label"} \cup {n + 1}
           d == AfterName(c)
           next == {e \in d + 1 .. n + 1 : Offset(pkt, e) = Cells[d].at + Cells[d].size + Cells[d].length}
<1>1. n \in Nat /\ c \in 1 .. n
  BY DEF Fits, Packets, Cells
<1>2. AfterRecord(c) = IF d = 0 \/ d > n \/ next = {} THEN 0 ELSE Min(next)
  BY DEF AfterRecord
<1>3. d = 0 \/ (d \in Nat /\ d > c)
  <2>1. S \subseteq Nat /\ S # {} /\ \A x \in S : x \in Nat /\ x >= c
    <3> HIDE DEF n
    <3>1. c \in Nat /\ n + 1 \in Nat /\ n + 1 >= c
      BY <1>1
    <3>2. \A x \in c .. n : x \in Nat /\ x >= c
      BY <1>1
    <3> QED
      BY <3>1, <3>2
  <2>2. d = IF Min(S) <= n /\ Cells[Min(S)].kind \in {"ref", "end"} THEN Min(S) + 1 ELSE 0
    BY DEF AfterName
  <2> HIDE DEF S, d
  <2>3. Min(S) \in S
    BY <2>1, LeastNumber DEF Min
  <2>4. Min(S) \in Nat /\ Min(S) >= c
    BY <2>1, <2>3
  <2> DEFINE m == Min(S)
  <2> HIDE DEF m
  <2>5. m \in Nat /\ m >= c /\ (d = m + 1 \/ d = 0)
    BY <2>2, <2>4 DEF m
  <2> QED
    BY <1>1, <2>5
<1> HIDE DEF d, n
<1>4. ASSUME d # 0, next # {} PROVE Min(next) \in c + 1 .. n + 1
  <2>1. next \subseteq Nat /\ \A x \in next : x \in c + 1 .. n + 1
    BY <1>1, <1>3, <1>4
  <2> HIDE DEF next
  <2>2. Min(next) \in next
    BY <1>4, <2>1, LeastNumber DEF Min
  <2> QED
    BY <2>1, <2>2
<1> HIDE DEF next
<1> QED
  BY <1>2, <1>4 DEF n

\* What goes forward comes to an end.
LEMMA StepsToEnd ==
  ASSUME NEW n \in Nat \ {0}, NEW after, \A c \in 1 .. n - 1 : after[c] = 0 \/ after[c] \in c + 1 .. n
  PROVE  \E R \in [0 .. n -> Nat] :
           R[0] = n /\ R[n] = 0 /\ \A c \in 1 .. n - 1 : R[c] = 1 + R[after[c]]
<1> DEFINE From(R, k) == /\ R[0] = n /\ R[n] = 0
                         /\ \A c \in 1 .. n - 1 : c >= n - k => R[c] = 1 + R[after[c]]
           S == {k \in 0 .. n : \E R \in [0 .. n -> Nat] : From(R, k)}
<1>1. 0 \in S
  <2> DEFINE R == [c \in 0 .. n |-> IF c = n THEN 0 ELSE n]
  <2>1. R \in [0 .. n -> Nat] /\ R[0] = n /\ R[n] = 0
    OBVIOUS
  <2>2. \A c \in 1 .. n - 1 : ~(c >= n - 0)
    OBVIOUS
  <2> HIDE DEF R
  <2> QED
    BY <2>1, <2>2
<1>2. ASSUME NEW k \in 1 .. n, k - 1 \in S PROVE k \in S
  <2>1. PICK R \in [0 .. n -> Nat] : From(R, k - 1)
    BY <1>2
  <2> DEFINE b == n - k
             Q == [R EXCEPT ![b] = 1 + R[after[b]]]
  <2>2. b \in 0 .. n - 1
    OBVIOUS
  <2>3. CASE b = 0
    <3>1. From(R, k)
      BY <2>1, <2>3
    <3> QED
      BY <3>1
  <2>4. CASE b # 0
    <3>1. b \in 1 .. n - 1 /\ (after[b] = 0 \/ after[b] \in b + 1 .. n)
      BY <2>2, <2>4
    <3>2. after[b] \in 0 .. n /\ after[b] # b
      BY <3>1
    <3>3. R[after[b]] \in Nat
      BY <3>2
    <3>4. Q \in [0 .. n -> Nat] /\ Q[b] = 1 + R[after[b]] /\ \A c \in 0 .. n : c # b => Q[c] = R[c]
      <4> DEFINE v == 1 + R[after[b]]
      <4>1. v \in Nat /\ b \in 0 .. n
        BY <3>1, <3>3
      <4>2. Q = [R EXCEPT ![b] = v]
        OBVIOUS
      <4> HIDE DEF v, b, Q
      <4>3. Q \in [0 .. n -> Nat] /\ Q[b] = v /\ \A c \in 0 .. n : c # b => Q[c] = R[c]
        BY <4>1, <4>2
      <4> QED
        BY <4>3 DEF v
    <3> HIDE DEF Q
    <3>5. ASSUME NEW c \in 1 .. n - 1, c >= n - k PROVE Q[c] = 1 + Q[after[c]]
      <4>1. after[c] = 0 \/ after[c] \in c + 1 .. n
        OBVIOUS
      <4>2. after[c] \in 0 .. n /\ after[c] # b
        BY <3>1, <3>5, <4>1
      <4>3. Q[after[c]] = R[after[c]]
        BY <3>4, <4>2
      <4>4. CASE c = b
        <5> HIDE DEF b
        <5> QED
          BY <3>4, <4>3, <4>4
      <4>5. CASE c # b
        <5>1. c >= n - (k - 1) /\ c \in 0 .. n
          BY <3>5, <4>5
        <5>2. R[c] = 1 + R[after[c]]
          BY <2>1, <5>1
        <5> QED
          BY <3>4, <4>3, <4>5, <5>1, <5>2
      <4> QED
        BY <4>4, <4>5
    <3>6. Q[0] = n /\ Q[n] = 0
      BY <2>1, <3>1, <3>4
    <3> HIDE DEF b
    <3>7. From(Q, k)
      BY <3>5, <3>6
    <3> HIDE DEF From
    <3> QED
      BY <3>4, <3>7
  <2> QED
    BY <2>3, <2>4
<1>3. n \in S
  <2>1. n \in Nat /\ n \in 0 .. n
    OBVIOUS
  <2> HIDE DEF S
  <2>2. 0 .. n \subseteq S
    BY <1>1, <1>2, <2>1, UpTo
  <2> QED
    BY <2>1, <2>2
<1>4. PICK R \in [0 .. n -> Nat] : From(R, n)
  BY <1>3
<1>5. \A c \in 1 .. n - 1 : R[c] = 1 + R[after[c]]
  BY <1>4
<1> QED
  BY <1>4, <1>5

\* So the function by which records are counted obeys its equation.
LEMMA RecordsIs ==
  ASSUME Fits(pkt)
  PROVE  /\ Records[Len(Cells) + 1] = 0
         /\ \A c \in 1 .. Len(Cells) : Records[c] = 1 + Records[AfterRecord(c)]
<1> DEFINE l == Len(Cells)
           At(R, c) == IF c = l + 1 THEN 0 ELSE IF c = 0 THEN l + 1 ELSE 1 + R[AfterRecord(c)]
           Is(R) == R = [c \in 0 .. l + 1 |-> At(R, c)]
           F == CHOOSE R : Is(R)
           n == l + 1
           after == [c \in 1 .. n - 1 |-> AfterRecord(c)]
<1>1. Records = F
  BY DEF Records
<1>2. l \in Nat /\ n \in Nat \ {0} /\ n - 1 = l
  BY DEF Fits, Packets, Cells
<1>3. \A c \in 1 .. n - 1 : after[c] = AfterRecord(c) /\ (after[c] = 0 \/ after[c] \in c + 1 .. n)
  <2>1. ASSUME NEW c \in 1 .. l PROVE AfterRecord(c) = 0 \/ AfterRecord(c) \in c + 1 .. l + 1
    BY Forward
  <2> QED
    BY <1>2, <2>1
<1>4. \E R : Is(R)
  <2> HIDE DEF after
  <2>1. PICK R \in [0 .. n -> Nat] :
          R[0] = n /\ R[n] = 0 /\ \A c \in 1 .. n - 1 : R[c] = 1 + R[after[c]]
    <3> HIDE DEF n
    <3>1. \A c \in 1 .. n - 1 : after[c] = 0 \/ after[c] \in c + 1 .. n
      BY <1>3
    <3> QED
      BY <1>2, <3>1, StepsToEnd
  <2>2. ASSUME NEW c \in 0 .. l + 1 PROVE R[c] = At(R, c)
    <3>1. c = l + 1 \/ c = 0 \/ (c \in 1 .. n - 1 /\ c # 0 /\ c # l + 1)
      BY <1>2
    <3> HIDE DEF l
    <3>2. CASE c = l + 1
      BY <2>1, <3>2
    <3>3. CASE c = 0
      BY <1>2, <2>1, <3>3
    <3>4. CASE c \in 1 .. n - 1 /\ c # 0 /\ c # l + 1
      BY <1>3, <2>1, <3>4
    <3> QED
      BY <3>1, <3>2, <3>3, <3>4
  <2> HIDE DEF At
  <2>3. R = [c \in 0 .. l + 1 |-> At(R, c)]
    BY <2>1, <2>2
  <2> QED
    BY <2>3
<1>5. Is(F)
  <2> HIDE DEF Is
  <2> QED
    BY <1>4
<1> HIDE DEF F
<1>6. \A c \in 0 .. l + 1 : F[c] = At(F, c)
  <2> HIDE DEF At
  <2> QED
    BY <1>5
<1>7. /\ l + 1 \in 0 .. l + 1
      /\ \A c \in 1 .. l : c \in 0 .. l + 1 /\ c # l + 1 /\ c # 0
  <2> HIDE DEF l
  <2> QED
    BY <1>2
<1> HIDE DEF l
<1>8. F[l + 1] = 0 /\ \A c \in 1 .. l : F[c] = 1 + F[AfterRecord(c)]
  BY <1>6, <1>7
<1> QED
  BY <1>1, <1>8 DEF l

\* Behind the questions that were counted there are the answers.
LEMMA BehindIs ==
  ASSUME Fits(pkt), questions \in Nat, NEW a \in Nat, NEW f, Items(f, pkt, questions, a)
  PROVE  Behind[questions] = f[questions]
<1> DEFINE q == questions
           At(B, n) == IF n = 0 THEN 1 ELSE IF B[n - 1] = 0 THEN 0 ELSE AfterQuestion(B[n - 1])
           Is(B) == B = [n \in 0 .. q |-> At(B, n)]
           F == CHOOSE B : Is(B)
           g == [n \in 0 .. q |-> f[n]]
<1>1. Behind = F
  BY DEF Behind
<1>2. f[0] = 1 /\ \A i \in 1 .. q : QuestionAt(pkt, f[i - 1], f[i])
  <2>1. \A i \in 1 .. q : i \in 1 .. q + a /\ i <= q
    OBVIOUS
  <2> QED
    BY <2>1 DEF Items
<1>3. \A i \in 1 .. q : f[i - 1] # 0 /\ AfterQuestion(f[i - 1]) = f[i]
  <2> SUFFICES ASSUME NEW i \in 1 .. q PROVE f[i - 1] # 0 /\ AfterQuestion(f[i - 1]) = f[i]
    OBVIOUS
  <2>1. QuestionAt(pkt, f[i - 1], f[i])
    BY <1>2
  <2>2. f[i - 1] \in 1 .. (f[i] - 2) - 1
    BY <2>1 DEF QuestionAt, NameAt
  <2> QED
    BY <2>1, <2>2, QuestionRead
<1> HIDE DEF q
<1>4. q \in Nat
  BY DEF q
<1>5. Is(g)
  <2>1. \A n \in 0 .. q : g[n] = f[n]
    OBVIOUS
  <2>2. ASSUME NEW n \in 0 .. q PROVE g[n] = At(g, n)
    <3>1. CASE n = 0
      BY <1>2, <2>1, <3>1
    <3>2. CASE n # 0
      <4>1. n \in 1 .. q /\ n - 1 \in 0 .. q
        BY <1>4, <3>2
      <4> QED
        BY <1>3, <2>1, <3>2, <4>1
    <3> QED
      BY <3>1, <3>2
  <2> HIDE DEF At
  <2>3. g = [n \in 0 .. q |-> g[n]]
    OBVIOUS
  <2> HIDE DEF g
  <2> QED
    BY <2>2, <2>3
<1>6. Is(F)
  <2> HIDE DEF Is, g
  <2> QED
    BY <1>5
<1> HIDE DEF F
<1>7. \A n \in 0 .. q : F[n] = At(F, n)
  <2> HIDE DEF At
  <2> QED
    BY <1>6
<1> DEFINE S == {n \in 0 .. q : F[n] = f[n]}
<1>8. 0 \in S
  <2>1. 0 \in 0 .. q
    BY <1>4
  <2> QED
    BY <1>2, <1>7, <2>1
<1>9. ASSUME NEW n \in 1 .. q, n - 1 \in S PROVE n \in S
  <2>1. n \in 0 .. q /\ n # 0 /\ F[n - 1] = f[n - 1]
    BY <1>4, <1>9
  <2> QED
    BY <1>3, <1>7, <2>1
<1>10. 0 .. q \subseteq S
  <2> HIDE DEF S
  <2> QED
    BY <1>4, <1>8, <1>9, UpTo
<1>11. F[q] = f[q]
  BY <1>4, <1>10
<1> QED
  BY <1>1, <1>11 DEF q

\* For any services, labels and sizes of the buffer: as long as nothing was cut,
\* the parser finds as many records behind the questions as the header promises.
THEOREM RecordsAreReadBack == PacketSpec => []RecordsReadBack
<1>1. PacketInv => RecordsReadBack
  <2> SUFFICES ASSUME PacketInv, ~pkt.cut PROVE Records[Behind[questions]] = answers
    BY DEF RecordsReadBack
  <2> DEFINE q == questions
             a == answers
             l == Len(Cells)
  <2>1. Fits(pkt) /\ q \in Nat /\ a \in Nat
    BY DEF PacketInv, Well
  <2>2. PICK f : Items(f, pkt, q, a)
    BY DEF PacketInv, Whole
  <2>3. /\ f[q + a] = l + 1
        /\ \A i \in 1 .. q + a : ~(i <= q) => RecordAt(pkt, f[i - 1], f[i])
    BY <2>2 DEF Items, Cells
  <2>4. Records[l + 1] = 0 /\ \A c \in 1 .. l : Records[c] = 1 + Records[AfterRecord(c)]
    BY <2>1, RecordsIs
  <2>5. Behind[q] = f[q]
    BY <2>1, <2>2, BehindIs
  <2>6. \A i \in 1 .. q + a : ~(i <= q) => Records[f[i - 1]] = 1 + Records[f[i]]
    <3> SUFFICES ASSUME NEW i \in 1 .. q + a, ~(i <= q)
                 PROVE  Records[f[i - 1]] = 1 + Records[f[i]]
      OBVIOUS
    <3>1. RecordAt(pkt, f[i - 1], f[i])
      BY <2>3
    <3>2. f[i - 1] \in 1 .. l
      BY <3>1 DEF RecordAt, NameAt, Cells
    <3>3. AfterRecord(f[i - 1]) = f[i]
      BY <2>1, <3>1, RecordRead
    <3> QED
      BY <2>4, <3>2, <3>3
  <2> DEFINE S == {k \in 0 .. a : Records[f[(q + a) - k]] = k}
  <2> HIDE DEF q, a, l
  <2>7. 0 \in S
    <3>1. 0 \in 0 .. a /\ (q + a) - 0 = q + a
      BY <2>1
    <3> QED
      BY <2>3, <2>4, <3>1
  <2>8. ASSUME NEW k \in 1 .. a, k - 1 \in S PROVE k \in S
    <3> DEFINE i == (q + a) - (k - 1)
    <3>1. i \in 1 .. q + a /\ ~(i <= q) /\ i - 1 = (q + a) - k /\ k \in 0 .. a
      BY <2>1
    <3>2. Records[f[i]] = k - 1
      BY <2>8
    <3> HIDE DEF i
    <3>3. Records[f[i - 1]] = 1 + Records[f[i]]
      BY <2>6, <3>1
    <3> QED
      BY <3>1, <3>2, <3>3
  <2>9. 0 .. a \subseteq S
    <3> HIDE DEF S
    <3> QED
      BY <2>1, <2>7, <2>8, UpTo
  <2>10. a \in S /\ (q + a) - a = q
    BY <2>1, <2>9
  <2> QED
    BY <2>5, <2>10 DEF q, a
<1> QED
  BY <1>1, PacketInductive, PTL

=============================================================================
