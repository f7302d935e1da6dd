---------------------------- MODULE ActiveTaskInv ----------------------------
(***************************************************************************)
(* The inductive invariant behind SvcKeepsOne, PayloadPresent and          *)
(* PointersLive.                                                           *)
(***************************************************************************)
EXTENDS ActiveTask, MsgBlkInv

\* Task t is attaching a data block to the message it has just got.
Attaching(t) == pc[t] \in {"attach", "link"}

\* The consumer is inside the library only to release the message it freed.
ConsumerOK ==
  /\ pc[Consumer] \in {"idle", "release"}
  /\ at[Consumer] \in {"message", "free"} => pc[Consumer] = "idle"
  /\ msg[Consumer] # NULL => at[Consumer] \in {"message", "free"}
  /\ dat[Consumer] = NULL

\* A sender has a reference to what it points to, beside the one it takes for
\* the queue; between the two mallocs it points to a data block.
SenderOK(t) ==
  /\ msg[t] # NULL => \E r \in Refs : by[r] = t /\ of[r] = msg[t] /\ ref[t] # r
  /\ dat[t] # NULL => \E r \in Refs : by[r] = t /\ of[r] = dat[t]
  /\ at[t] = "malloc" => dat[t] # NULL
  /\ ~Attaching(t) => db[t] = NULL

\* Until a message has its data block nobody else knows it.
AttachAlone ==
  \A t \in Tasks : Attaching(t) => \A r \in Refs : of[r] = mb[t] => by[r] = t

\* A message that is referenced has a data block in its list, or is about to.
Loaded ==
  \A r \in Refs : of[r] \in Msgs =>
    ListOf(of[r]) # {} \/ \E t \in Tasks : Attaching(t) /\ mb[t] = of[r]

TaskInv ==
  /\ RefInv
  /\ TaskTypeOK
  /\ KeepsOne
  /\ ConsumerOK
  /\ \A t \in Senders : SenderOK(t)
  /\ AttachAlone
  /\ Loaded

=============================================================================
