----------------------------- MODULE ActiveTask -----------------------------
(***************************************************************************)
(* The tasks of components/activetask/active_task.c at work on message and *)
(* data blocks: a task with a queue and the service loop dft_task_svc, and *)
(* the two kinds of code in the repository that send to it.                *)
(*                                                                         *)
(*   Producers   active tasks with p_on_loop of main/main.c                *)
(*   Receivers   callers of process_mqtt_data of network/mqtt_task.c, the  *)
(*               event task of an MQTT client                              *)
(*                                                                         *)
(* Every step on a block, a list or the queue is a step of MsgBlk; this    *)
(* module says in which order a task takes them, on which block, and what  *)
(* it does when one fails.  No callback is registered with the pools, as   *)
(* in app_main, so that nobody refuses an attach.  The callbacks of the    *)
(* consumer answer what LoopAnswers, MessageAnswers and ScheduleAnswers    *)
(* allow: ok, continue (TASK_SVC_CONTINUE) or break (TASK_SVC_BREAK).      *)
(*                                                                         *)
(* The queue and the pools are those of MsgBlk as long as they work.  They *)
(* do not always: a pop may take a position before its pointer is stored,  *)
(* pushes that test at the same time overrun the ring, and the exchange of *)
(* two tasks that malloc may succeed on a stale entry (CircQueue, BlkPool).*)
(* Each of these is a step here that sets broken, where it can happen.     *)
(* What the tasks do with the pointers they have then is not modelled, and *)
(* every property speaks of the time before.                               *)
(***************************************************************************)
EXTENDS MsgBlk, Sequences

CONSTANTS Consumer,         \* the task with the queue
          Producers,
          Receivers,
          InitAnswers,      \* what on_init of the consumer may answer: ok, failed
          LoopAnswers,
          MessageAnswers,
          ScheduleAnswers,
          Timed             \* a pop on an empty queue returns: interv_ms is not 0,
                            \* and above QUEUE_INTV_MS, so that it does try

Answers == {"ok", "continue", "break"}

Senders == Producers \cup Receivers

ASSUME ActiveTaskAssumption ==
  /\ Refs \cup Blocks \subseteq Nat
  /\ Tasks = {Consumer} \cup Senders
  /\ Consumer \notin Senders
  /\ Producers \cap Receivers = {}
  /\ InitAnswers \subseteq {"ok", "failed"}
  /\ LoopAnswers \cup MessageAnswers \cup ScheduleAnswers \subseteq Answers
  /\ Timed \in BOOLEAN

VARIABLES
  at,     \* where each task is in its own code
  msg,    \* its local pointer to a message
  dat,    \* its local pointer to a data block
  ret,    \* the answer of on_message, while the message is being freed
  line,   \* the positions of the queue that were claimed and not popped: the
          \* references the pushes took, stored in their slots or not yet
  broken  \* the queue or a pool has failed

taskVars == <<at, msg, dat, ret, line, broken>>

allVars == <<vars, taskVars>>

Places ==
  {"begin", "init", "loop", "pop", "delay", "message", "free", "schedule",
   "malloc", "put", "store", "end"}

\* The tasks are created; the senders are started before the consumer
\* (app_main), so they may be running already.
TaskInit ==
  /\ Init
  /\ at = [t \in Tasks |-> IF t = Consumer THEN "begin" ELSE "loop"]
  /\ msg = [t \in Tasks |-> NULL]
  /\ dat = [t \in Tasks |-> NULL]
  /\ ret = "ok"
  /\ line = <<>>
  /\ broken = FALSE

\* The task is in its own code, at the place p.
At(t, p) == at[t] = p /\ pc[t] = "idle"

Go(t, p) == at' = [at EXCEPT ![t] = p]

\* New references get the first names that are free, and a pool answers its
\* first block; which they are makes no difference.
InOrder ==
  /\ \A r, s \in Refs :
       s < r /\ Unused(s) /\ Unused(r) /\ ~Unused(r)' => ~Unused(s)'
  /\ \A kind \in {Datas, Msgs} : \A a, b \in kind :
       a < b /\ a \in pool /\ b \in pool \ pool' => a \notin pool'

-----------------------------------------------------------------------------
(* dft_task_begin and dft_task_svc of the consumer.                        *)

\* The queue is created, ...
Begin ==
  /\ At(Consumer, "begin")
  /\ Go(Consumer, "init")
  /\ UNCHANGED <<vars, msg, dat, ret, line>>

\* ... and a task whose on_init refuses gets no thread.
OnInit ==
  /\ At(Consumer, "init")
  /\ \E a \in InitAnswers : Go(Consumer, IF a = "ok" THEN "loop" ELSE "end")
  /\ UNCHANGED <<vars, msg, dat, ret, line>>

\* Where the loop goes on after a callback has answered a.  When on_loop answers
\* continue the loop is where it was.
After(a, next) ==
  CASE a = "continue" -> "loop" [] a = "break" -> "end" [] a = "ok" -> next

OnLoop ==
  /\ At(Consumer, "loop")
  /\ \E a \in LoopAnswers : Go(Consumer, After(a, "pop"))
  /\ UNCHANGED <<vars, msg, dat, ret, line>>

\* The consumer is at an attempt of its pop, the first one or one after a delay.
Attempt == At(Consumer, "pop") \/ At(Consumer, "delay")

\* msgblk_pop_circ_queue answers a message, the first in line, ...
PopMessage ==
  /\ Attempt
  /\ Pop(Consumer)
  /\ line # <<>> /\ line' = Tail(line)
  /\ \E r \in Refs :
       /\ r = Head(line) /\ by[r] = Queue /\ by'[r] = Consumer
       /\ msg' = [msg EXCEPT ![Consumer] = of[r]]
  /\ Go(Consumer, "message")
  /\ UNCHANGED <<dat, ret>>

\* ... or the first attempt finds the queue empty, and the pop delays.
PopEmpty ==
  /\ At(Consumer, "pop")
  /\ line = <<>>
  /\ Go(Consumer, "delay")
  /\ UNCHANGED <<vars, msg, dat, ret, line>>

\* Mutant: with wait_ms up to QUEUE_INTV_MS the pop returns without an attempt.
PopNoAttempt ==
  /\ Attempt
  /\ Timed
  /\ Go(Consumer, "schedule")
  /\ UNCHANGED <<vars, msg, dat, ret, line>>

\* The time is over after a delay; nobody looks at the queue again.
PopTimeout ==
  /\ At(Consumer, "delay")
  /\ Timed
  /\ Go(Consumer, "schedule")
  /\ UNCHANGED <<vars, msg, dat, ret, line>>

\* on_message; without one the message is dropped, as if it answered ok.
OnMessage ==
  /\ At(Consumer, "message")
  /\ \E a \in MessageAnswers : ret' = a
  /\ Go(Consumer, "free")
  /\ UNCHANGED <<vars, msg, dat, line>>

\* Mutant: an answer other than ok leaves before the message is freed.
FreeOnlyOnOk ==
  /\ At(Consumer, "free")
  /\ IF ret = "ok" THEN MsgFree(Consumer) ELSE UNCHANGED vars
  /\ Go(Consumer, After(ret, "schedule"))
  /\ msg' = [msg EXCEPT ![Consumer] = NULL]
  /\ ret' = "ok"
  /\ UNCHANGED <<dat, line>>

\* The message is freed whatever the answer was.
FreeMessage ==
  /\ At(Consumer, "free")
  /\ MsgFree(Consumer)
  /\ Go(Consumer, After(ret, "schedule"))
  /\ msg' = [msg EXCEPT ![Consumer] = NULL]
  /\ ret' = "ok"
  /\ UNCHANGED <<dat, line>>

\* The time for on_schedule has come or not.
OnSchedule ==
  /\ At(Consumer, "schedule")
  /\ \/ Go(Consumer, "loop")
     \/ \E a \in ScheduleAnswers : Go(Consumer, After(a, "loop"))
  /\ UNCHANGED <<vars, msg, dat, ret, line>>

Svc ==
  \/ Begin \/ OnInit \/ OnLoop \/ PopMessage \/ PopEmpty \/ PopTimeout
  \/ OnMessage \/ FreeMessage \/ OnSchedule

-----------------------------------------------------------------------------
(* The senders.                                                            *)

\* datablk_malloc; without a data block p_on_loop breaks and
\* process_mqtt_data returns.  What they write fits the block they asked for,
\* so that datablk_move_wr does not fail.
SendData(t) ==
  /\ At(t, "loop")
  /\ \/ /\ DataMalloc(t) /\ InOrder
        /\ \E d \in Datas : d \in pool \ pool' /\ dat' = [dat EXCEPT ![t] = d]
        /\ Go(t, "malloc")
     \/ /\ Datas \cap pool = {}
        /\ Go(t, IF t \in Producers THEN "end" ELSE "loop")
        /\ UNCHANGED <<vars, dat>>
  /\ UNCHANGED <<msg, ret, line>>

\* Mutant: the message is made without its data block.
SendMsgEmpty(t) ==
  /\ At(t, "malloc")
  /\ MsgMalloc(t) /\ pc'[t] = "idle" /\ InOrder
  /\ \E m \in Msgs : m \in pool \ pool' /\ msg' = [msg EXCEPT ![t] = m]
  /\ Go(t, "put")
  /\ UNCHANGED <<dat, ret, line>>

\* msgblk_malloc with the data block, which is attached.  Without a message
\* p_on_loop goes on: put_message_next refuses NULL, and it returns;
\* process_mqtt_data frees the data block and returns.
SendMsg(t) ==
  /\ At(t, "malloc")
  /\ \/ /\ MsgMalloc(t) /\ db'[t] = dat[t] /\ InOrder
        /\ \E m \in Msgs : m \in pool \ pool' /\ msg' = [msg EXCEPT ![t] = m]
        /\ Go(t, "put")
        /\ UNCHANGED dat
     \/ /\ Msgs \cap pool = {}
        /\ IF t \in Producers
             THEN UNCHANGED vars
             ELSE DataFree(t) /\ count'[dat[t]] = count[dat[t]] - 1
        /\ Go(t, "loop")
        /\ dat' = [dat EXCEPT ![t] = NULL]
        /\ UNCHANGED msg
  /\ UNCHANGED <<ret, line>>

\* put_message_next: a next task that has not begun has no queue, and nobody
\* frees what the message took.
SendRefused(t) ==
  /\ At(t, "put")
  /\ at[Consumer] = "begin"
  /\ Go(t, "loop")
  /\ msg' = [msg EXCEPT ![t] = NULL]
  /\ dat' = [dat EXCEPT ![t] = NULL]
  /\ UNCHANGED <<vars, ret, line>>

\* Otherwise the queue of the next task gets a reference, ...
SendPut(t) ==
  /\ At(t, "put")
  /\ at[Consumer] # "begin"
  /\ PushRef(t) /\ of'[ref'[t]] = msg[t] /\ InOrder
  /\ UNCHANGED taskVars

\* ... a push that finds room claims the next position, ...
SendClaim(t) ==
  /\ pc[t] = "push"
  /\ at[t] = "put"
  /\ Len(line) < Room
  /\ line' = Append(line, ref[t])
  /\ Go(t, "store")
  /\ UNCHANGED <<vars, msg, dat, ret>>

\* ... and stores its pointer there; p_on_loop has still to free its message,
\* process_mqtt_data returns.
SendStored(t) ==
  /\ at[t] = "store"
  /\ PushQueue(t) /\ by'[ref[t]] = Queue
  /\ IF t \in Producers
       THEN Go(t, "free") /\ UNCHANGED <<msg, dat>>
       ELSE /\ Go(t, "loop")
            /\ msg' = [msg EXCEPT ![t] = NULL]
            /\ dat' = [dat EXCEPT ![t] = NULL]
  /\ UNCHANGED <<ret, line>>

\* A push that fails: p_on_loop frees nothing, process_mqtt_data does not look
\* at the result.
SendTimeout(t) ==
  /\ pc[t] = "push"
  /\ at[t] = "put"
  /\ PushQueue(t) /\ by'[ref[t]] = Lost
  /\ Go(t, "loop")
  /\ msg' = [msg EXCEPT ![t] = NULL]
  /\ dat' = [dat EXCEPT ![t] = NULL]
  /\ UNCHANGED <<ret, line>>

\* p_on_loop: msgblk_free(msg).
SendFree(t) ==
  /\ At(t, "free")
  /\ MsgFree(t) /\ count'[msg[t]] = count[msg[t]] - 1
  /\ Go(t, "loop")
  /\ msg' = [msg EXCEPT ![t] = NULL]
  /\ dat' = [dat EXCEPT ![t] = NULL]
  /\ UNCHANGED <<ret, line>>

\* The rest of msgblk_attach_datablk, with no callback to refuse, and of
\* __msgblk_release.
Library(t) ==
  /\ \/ AttachCallback(t) /\ pc'[t] = "link"
     \/ AttachLink(t) \/ ReleaseData(t) \/ ReleaseEnd(t)
  /\ UNCHANGED taskVars

Send(t) ==
  \/ SendData(t) \/ SendMsg(t) \/ SendRefused(t)
  \/ SendPut(t) \/ SendClaim(t) \/ SendStored(t) \/ SendTimeout(t) \/ SendFree(t)

-----------------------------------------------------------------------------
(* When the queue and the pools do not work.                               *)

\* The pop takes a position whose pointer is not stored yet, and gets what the
\* slot held before: the pointer of some earlier message, or what malloc left.
PopUnwritten == Attempt /\ line # <<>> /\ by[Head(line)] # Queue

\* Sender t tested for room before another one took the last of it; its store may
\* go over a message that waits.
PushOverrun(t) ==
  /\ pc[t] = "push"
  /\ at[t] = "put"
  /\ Len(line) >= Room
  /\ Senders # {t}

\* The exchange of a malloc succeeds on a stale entry, as another sender mallocs
\* from the same pool: t gets a block that may be somebody else's.
MallocStale(t) ==
  /\ At(t, "loop") \/ At(t, "malloc")
  /\ Senders # {t}

Fail == PopUnwritten \/ \E t \in Senders : PushOverrun(t) \/ MallocStale(t)

-----------------------------------------------------------------------------
Work ==
  \/ Svc
  \/ \E t \in Senders : Send(t)
  \/ \E t \in Tasks : Library(t)

TaskNext ==
  \/ ~broken /\ Work /\ UNCHANGED broken
  \/ ~broken /\ Fail /\ broken' = TRUE /\ UNCHANGED <<vars, at, msg, dat, ret, line>>
  \/ broken /\ UNCHANGED allVars

TaskSpec == TaskInit /\ [][TaskNext]_allVars

\* Step A of a task that works.
Working(A) == ~broken /\ A /\ UNCHANGED broken

\* Threads are scheduled: the service loop goes on, and so does a task inside
\* the library or between the two steps of a push.  Senders may stop anywhere
\* in their own code.  An on_loop that answers continue changes nothing, so that
\* the first conjunct assumes that it does not do so for ever: start_flag is set
\* (main.c) or the client gets connected (mqtt_task.c) at some time.
TaskFairness ==
  /\ WF_allVars(Working(Svc))
  /\ \A t \in Tasks : WF_allVars(Working(Library(t)))
  /\ \A t \in Senders : WF_allVars(Working(SendStored(t)))

FairTaskSpec == TaskSpec /\ TaskFairness

\* There is always something to send.
BusySpec ==
  FairTaskSpec /\ \A t \in Senders : WF_allVars(Working(Send(t)))

-----------------------------------------------------------------------------
(* Properties.                                                             *)

\* Types of the variables this module adds.
TaskTypeOK ==
  /\ at \in [Tasks -> Places]
  /\ msg \in [Tasks -> Msgs \cup {NULL}]
  /\ dat \in [Tasks -> Datas \cup {NULL}]
  /\ ret \in Answers
  /\ line \in Seq(Refs \cup {NULL})
  /\ broken \in BOOLEAN

KeptBy(t) == {r \in Refs : by[r] = t}

KeepsOne ==
  IF at[Consumer] \in {"message", "free"}
    THEN \E r \in Refs : KeptBy(Consumer) = {r} /\ of[r] = msg[Consumer]
    ELSE KeptBy(Consumer) = {}

\* The service loop: it has exactly one reference from its pop to its free, to
\* the message it handles, and none at any other time, whatever the callbacks
\* answer; so no message is freed twice or kept.
SvcKeepsOne == ~broken => KeepsOne

\* c_on_message, mqtt_on_message: a message in the queue, or in the hands of
\* the consumer, has a data block in its list, although its sender goes on and
\* frees its own references.
PayloadPresent == ~broken =>
  \A r \in Refs : by[r] \in {Queue, Consumer} => ListOf(of[r]) # {}

\* A pointer the consumer or a sender uses is not in its pool, unless the queue
\* or a pool has failed.
PointersLive == ~broken =>
  \A t \in Tasks : msg[t] \notin pool /\ dat[t] \notin pool

\* dft_task_svc: while a message waits the consumer will take one, unless a
\* callback ended the loop or on_init kept it from starting.
Served ==
  (\E r \in Refs : by[r] = Queue) ~> at[Consumer] \in {"message", "end"} \/ broken

\* __msgblk_release: a message whose last reference was freed, by the consumer
\* or by its sender, comes back to the pool.
Recycled == \A m \in Msgs : Releasing(m) ~> m \in pool \/ broken

\* mqtt_task.h:26-27: "mqtt task would push message in subscribed topics to next
\* task".  While messages come in, the receiver goes on pushing them.
ReceiverPushes == \A t \in Receivers : []<>(pc[t] = "push" \/ broken)

=============================================================================
