----------------------------- MODULE NetworkInv -----------------------------
(* What makes the blackboard and the start of the network tasks correct.    *)
EXTENDS Network

\* The claims that were tested again, and those that are still to be.
Pending == {t \in Threads : reg[t].at = "check"}

Claimed(r) == [pos |-> r.pos, size |-> r.size, granted |-> FALSE]

Claims == claims \cup {Claimed(reg[t]) : t \in Pending}

\* However registrations interleave, no two threads claim the same bytes of the
\* buffer, and nobody skips any.
AreasDisjoint ==
  \A i \in 0 .. wrPos - 1 :
    Cardinality({c \in Claims : c.pos <= i /\ i < c.pos + c.size}) = 1

\* An area behind the buffer is granted only after a registration lost the race
\* for its end: the test for space then wraps around.
InsideUntilLost ==
  \A c \in claims : c.granted =>
    \/ c.pos + c.size <= BuffSize
    \/ \E b \in Claims : ~b.granted /\ b.pos <= BuffSize /\ BuffSize < b.pos + b.size

RegOK(r) ==
  /\ r \in [at : {"none", "claim", "check", "ok", "lack"}, key : Keys \cup {None},
           size : Nat, pos : Nat]
  /\ r.at \in {"claim", "check"} => 0 < r.size

\* What is claimed lies below the value w of wr_pos.
Below(c, w) == c.pos \in Nat /\ c.size \in Nat /\ 0 < c.size /\ c.pos + c.size <= w

Apart(c, d) == c.pos + c.size <= d.pos \/ d.pos + d.size <= c.pos

\* The inductive invariant of the blackboard: a claim that has been moved into
\* wr_pos, tested again or not, is apart from all others, and every position
\* below wr_pos is in one.  An area that begins in the buffer and was granted
\* ends there too.
BlackboardInv ==
  /\ wrPos \in Nat
  /\ reg = [t \in Threads |-> reg[t]]
  /\ \A t \in Threads : RegOK(reg[t])
  /\ \A c \in claims : Below(c, wrPos) /\ c.granted \in BOOLEAN
  /\ \A t \in Pending : Below(Claimed(reg[t]), wrPos)
  /\ \A c, d \in claims : c # d => Apart(c, d)
  /\ \A c \in claims, t \in Pending : Apart(c, Claimed(reg[t]))
  /\ \A t, u \in Pending : t # u => Apart(Claimed(reg[t]), Claimed(reg[u]))
  /\ \A i \in 0 .. wrPos - 1 : \E c \in Claims : c.pos <= i /\ i < c.pos + c.size
  /\ \A c \in claims : c.granted /\ c.pos <= BuffSize => c.pos + c.size <= BuffSize

\* A step after which app_main has to start anew
Restarts == up /\ ~up'

Reached(t) == at[t] \in {"lookup", "register", "client", "failed"}

\* A device that does not restart for ever gets there: from some point on every
\* network task is past Wi-Fi, connected by itself or told that another task takes
\* care of it, however often the access point lets it down, and whether the flash
\* held credentials, none, or such as the access point refuses.
Connects == []<><<Restarts>>_vars \/ \A t \in Tasks : <>[]Reached(t)

\* Right credentials are kept for the next start.
CredentialsKept == [][creds = "right" => creds' = "right"]_vars

\* A key that is registered is found.
RegisteredFound == \A t \in Threads : reg[t].at = "ok" => Get(reg[t].key) # None

=============================================================================
