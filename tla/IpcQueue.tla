------------------------------ MODULE IpcQueue ------------------------------
(***************************************************************************)
(* The message queue IPC: send_msg_queue() and the counters of record() in *)
(* io_monitor/io_monitor.c on the side of the monitored processes,         *)
(* c_mq_path() and the msgrcv() of input_loop() in                         *)
(* mq_listener/mq_listener.c on the side of the listener, and the System V *)
(* message queues between them.                                            *)
(*                                                                         *)
(* A process is single-threaded and makes its records one at a time; the   *)
(* number of a record stands for its contents.  Kernel queues are numbered *)
(* in the order of their creation.  current is the queue that ftok() on    *)
(* the message queue file followed by msgget() finds: 0 when msgget() has  *)
(* to create one.  The file may be removed and made again (the scripts in  *)
(* test/ do so before every run), which gives it another key, and a queue  *)
(* may be removed by hand; a process or a listener that looked its queue   *)
(* up before keeps the old identifier.                                     *)
(***************************************************************************)
EXTENDS Integers, Sequences

CONSTANTS
  Procs,       \* the monitored processes
  QCap,        \* messages a kernel queue holds: msgmnb over the record size
  MaxRecords,  \* bound on the records a process makes
  MaxQueues    \* bound on the queues that are ever created

ASSUME QCapAssumption == QCap \in Nat \ {0}
ASSUME BoundsAssumption == MaxRecords \in Nat /\ MaxQueues \in Nat

(* The number of times msgsnd() is tried, and the microseconds 512<<retries *)
(* that send_msg_queue() sleeps after the try that made retries what it is. *)
MaxRetries == 5

\* Mutant: the shift starts from 1024.
usleep_time_doubled == <<2048, 4096, 8192, 16384, 32768>>

usleep_time == <<1024, 2048, 4096, 8192, 16384>>

NONE == 0   \* MQ_KEY_NONE: no queue looked up

VARIABLES
  \* Kernel and file system.
  file,       \* the message queue file exists
  current,
  created,    \* number of queues created so far
  live,       \* the queues that have not been removed
  queue,      \* the messages waiting in each queue
  disturbed,  \* history: the file or a queue has been removed
  \* The statics of io_monitor.c in each process, and where it is.
  have_key,   \* message_queue_key # MQ_KEY_NONE
  message_queue_id,
  retries,
  failed_ipc_sends,
  ipc_retries,
  ipc_retry_wait_lost_time,
  ipc_records,
  pc,         \* "idle", "msgsnd", "usleep" or "dead"
  \* History of each process.
  made,       \* records handed to send_msg_queue()
  entered,    \* records that entered a queue
  exhausted,  \* records given up after MaxRetries tries
  \* The listener.
  listener_id, \* its message_queue_id; NONE while it does not run
  in_chain,    \* it hands a record to the plugins and reads nothing
  got          \* history: the latest record of each process it has read

kernel == <<file, current, created, live, queue, disturbed>>
counters == <<failed_ipc_sends, ipc_retries, ipc_retry_wait_lost_time, ipc_records>>
sender == <<have_key, message_queue_id, retries, counters, pc, made, entered,
            exhausted>>
listener == <<listener_id, in_chain, got>>
vars == <<kernel, sender, listener>>

Queues == 1..MaxQueues
Message == [proc : Procs, n : Nat]

Zero == [p \in Procs |-> 0]

Init ==
  /\ file \in BOOLEAN
  /\ current = NONE
  /\ created = 0
  /\ live = {}
  /\ queue = [q \in Queues |-> <<>>]
  /\ disturbed = FALSE
  /\ have_key = [p \in Procs |-> FALSE]
  /\ message_queue_id = Zero
  /\ retries = Zero
  /\ failed_ipc_sends = Zero
  /\ ipc_retries = Zero
  /\ ipc_retry_wait_lost_time = Zero
  /\ ipc_records = Zero
  /\ pc = [p \in Procs |-> "idle"]
  /\ made = Zero
  /\ entered = Zero
  /\ exhausted = Zero
  /\ listener_id = NONE
  /\ in_chain = FALSE
  /\ got = Zero

-----------------------------------------------------------------------------
(* The kernel's side. *)

\* Mutant: the queue is always created.
MsgGetPrivate(q) ==
  /\ created < MaxQueues
  /\ q = created + 1
  /\ current' = q
  /\ created' = q
  /\ live' = live \cup {q}

(* msgget(key, IPC_CREAT) returns queue q, created if there is none. *)
MsgGet(q) ==
  \/ /\ current # NONE /\ q = current
     /\ UNCHANGED <<current, created, live>>
  \/ /\ current = NONE /\ created < MaxQueues
     /\ q = created + 1
     /\ current' = q
     /\ created' = q
     /\ live' = live \cup {q}

(* Other programs remove and make the message queue file. *)
RemoveFile ==
  /\ file
  /\ file' = FALSE
  /\ current' = NONE
  /\ disturbed' = TRUE
  /\ UNCHANGED <<created, live, queue, sender, listener>>

TouchFile ==
  /\ ~file
  /\ file' = TRUE
  /\ UNCHANGED <<current, created, live, queue, disturbed, sender, listener>>

RemoveQueue(q) ==
  /\ q \in live
  /\ live' = live \ {q}
  /\ queue' = [queue EXCEPT ![q] = <<>>]
  /\ current' = IF current = q THEN NONE ELSE current
  /\ disturbed' = TRUE
  /\ UNCHANGED <<file, created, sender, listener>>

-----------------------------------------------------------------------------
(* The monitored process: record() calls send_msg_queue(). *)

(* send_msg_queue() returns r, and record() counts the record. *)
Return(p, r) ==
  /\ ipc_records' = [ipc_records EXCEPT ![p] = IF r = 0 THEN @ + 1 ELSE @]
  /\ failed_ipc_sends' = [failed_ipc_sends EXCEPT ![p] = IF r = 0 THEN @ ELSE @ + 1]
  /\ pc' = [pc EXCEPT ![p] = "idle"]

EnterLoop(p) ==
  /\ pc' = [pc EXCEPT ![p] = "msgsnd"]
  /\ retries' = [retries EXCEPT ![p] = 0]
  /\ UNCHANGED counters

NoQueue(p) ==
  /\ Return(p, -1)
  /\ UNCHANGED <<retries, ipc_retries, ipc_retry_wait_lost_time>>

(* A new record.  The queue is looked up while there is no key: a failed   *)
(* ftok() is tried again for the next record, a failed msgget() never is.  *)
Start(p) ==
  /\ pc[p] = "idle"
  /\ made[p] < MaxRecords
  /\ made' = [made EXCEPT ![p] = @ + 1]
  /\ UNCHANGED <<file, queue, disturbed, entered, exhausted, listener>>

UseQueue(p) ==
  /\ Start(p)
  /\ have_key[p]
  /\ IF message_queue_id[p] = NONE THEN NoQueue(p) ELSE EnterLoop(p)
  /\ UNCHANGED <<have_key, message_queue_id, current, created, live>>

FtokFails(p) ==
  /\ Start(p)
  /\ ~have_key[p] /\ ~file
  /\ NoQueue(p)
  /\ UNCHANGED <<have_key, message_queue_id, current, created, live>>

MsgGetFails(p) ==
  /\ Start(p)
  /\ ~have_key[p] /\ file
  /\ have_key' = [have_key EXCEPT ![p] = TRUE]
  /\ NoQueue(p)
  /\ UNCHANGED <<message_queue_id, current, created, live>>

FindQueue(p) ==
  /\ Start(p)
  /\ ~have_key[p] /\ file
  /\ have_key' = [have_key EXCEPT ![p] = TRUE]
  /\ \E q \in Queues :
       /\ MsgGet(q)
       /\ message_queue_id' = [message_queue_id EXCEPT ![p] = q]
  /\ EnterLoop(p)

(* msgsnd(IPC_NOWAIT): the message enters the queue, *)
Sent(p) ==
  LET q == message_queue_id[p] IN
  /\ pc[p] = "msgsnd"
  /\ q \in live /\ Len(queue[q]) < QCap
  /\ queue' = [queue EXCEPT ![q] = Append(@, [proc |-> p, n |-> made[p]])]
  /\ entered' = [entered EXCEPT ![p] = @ + 1]
  /\ Return(p, 0)
  /\ UNCHANGED <<file, current, created, live, disturbed, have_key,
                 message_queue_id, retries, ipc_retries,
                 ipc_retry_wait_lost_time, made, exhausted, listener>>

\* Mutant: msgsnd() without IPC_NOWAIT blocks while the queue is full.
QueueFullBlocks(p) ==
  /\ pc[p] = "msgsnd"
  /\ message_queue_id[p] \in live /\ Len(queue[message_queue_id[p]]) >= QCap
  /\ UNCHANGED vars

(* or the queue is full (EAGAIN) and the process goes to sleep, *)
QueueFull(p) ==
  LET q == message_queue_id[p] IN
  /\ pc[p] = "msgsnd"
  /\ q \in live /\ Len(queue[q]) >= QCap
  /\ retries' = [retries EXCEPT ![p] = @ + 1]
  /\ pc' = [pc EXCEPT ![p] = "usleep"]
  /\ UNCHANGED <<kernel, have_key, message_queue_id, counters, made, entered,
                 exhausted, listener>>

\* Mutant: every msgsnd() but EAGAIN counts as sent.
QueueGoneUnnoticed(p) ==
  /\ pc[p] = "msgsnd"
  /\ message_queue_id[p] \notin live
  /\ Return(p, 0)
  /\ UNCHANGED <<kernel, have_key, message_queue_id, retries, ipc_retries,
                 ipc_retry_wait_lost_time, made, entered, exhausted, listener>>

(* or the queue is gone (EINVAL, EIDRM) and msgsnd()'s -1 is returned. *)
QueueGone(p) ==
  /\ pc[p] = "msgsnd"
  /\ message_queue_id[p] \notin live
  /\ Return(p, -1)
  /\ UNCHANGED <<kernel, have_key, message_queue_id, retries, ipc_retries,
                 ipc_retry_wait_lost_time, made, entered, exhausted, listener>>

CountRetry(p) ==
  /\ pc[p] = "usleep"
  /\ ipc_retries' = [ipc_retries EXCEPT ![p] = @ + 1]
  /\ ipc_retry_wait_lost_time' =
       [ipc_retry_wait_lost_time EXCEPT ![p] = @ + usleep_time[retries[p]]]
  /\ UNCHANGED <<kernel, have_key, message_queue_id, retries, made, entered,
                 listener>>

\* Mutant: one try too many.
TryAgainOnceMore(p) ==
  /\ CountRetry(p)
  /\ retries[p] <= MaxRetries
  /\ pc' = [pc EXCEPT ![p] = "msgsnd"]
  /\ UNCHANGED <<failed_ipc_sends, ipc_records, exhausted>>

(* The sleep is over and there are tries left. *)
TryAgain(p) ==
  /\ CountRetry(p)
  /\ retries[p] < MaxRetries
  /\ pc' = [pc EXCEPT ![p] = "msgsnd"]
  /\ UNCHANGED <<failed_ipc_sends, ipc_records, exhausted>>

(* The last sleep is over.  send_msg_queue() runs off its end without a    *)
(* return statement, so record() looks at an undefined value.              *)
Exhausted(p) ==
  /\ CountRetry(p)
  /\ retries[p] >= MaxRetries
  /\ exhausted' = [exhausted EXCEPT ![p] = @ + 1]
  /\ \E r \in {0, 1} : Return(p, r)

(* The process is killed, possibly in the middle of a send. *)
Die(p) ==
  /\ pc[p] # "dead"
  /\ pc' = [pc EXCEPT ![p] = "dead"]
  /\ UNCHANGED <<kernel, have_key, message_queue_id, retries, counters, made,
                 entered, exhausted, listener>>

-----------------------------------------------------------------------------
(* The listener. *)

(* mq_listener -m <path>; when ftok() or msgget() fails it does not start. *)
ListenerStart ==
  /\ listener_id = NONE
  /\ file
  /\ \E q \in Queues : MsgGet(q) /\ listener_id' = q
  /\ UNCHANGED <<file, queue, disturbed, sender, in_chain, got>>

\* Mutants: a message stays in the queue, the newest is read first, the last
\* one is left behind.
ReceiveCopy ==
  /\ ~in_chain
  /\ listener_id \in live
  /\ queue[listener_id] # <<>>
  /\ in_chain' = TRUE
  /\ LET m == Head(queue[listener_id]) IN got' = [got EXCEPT ![m.proc] = m.n]
  /\ UNCHANGED <<kernel, sender, listener_id>>

ReceiveNewest ==
  LET n == Len(queue[listener_id])
      m == queue[listener_id][n]
  IN
  /\ ~in_chain
  /\ listener_id \in live
  /\ queue[listener_id] # <<>>
  /\ in_chain' = TRUE
  /\ got' = [got EXCEPT ![m.proc] = m.n]
  /\ queue' = [queue EXCEPT ![listener_id] = SubSeq(@, 1, n - 1)]
  /\ UNCHANGED <<file, current, created, live, disturbed, sender, listener_id>>

ReceiveButLast ==
  /\ ~in_chain
  /\ listener_id \in live
  /\ Len(queue[listener_id]) > 1
  /\ in_chain' = TRUE
  /\ LET m == Head(queue[listener_id]) IN got' = [got EXCEPT ![m.proc] = m.n]
  /\ queue' = [queue EXCEPT ![listener_id] = Tail(@)]
  /\ UNCHANGED <<file, current, created, live, disturbed, sender, listener_id>>

(* input_loop() takes the message at the head of its queue and hands it to *)
(* the plugins.  While the queue is gone its msgrcv() fails at once and    *)
(* the loop just spins.                                                    *)
Receive ==
  /\ ~in_chain
  /\ listener_id \in live
  /\ queue[listener_id] # <<>>
  /\ in_chain' = TRUE
  /\ LET m == Head(queue[listener_id]) IN got' = [got EXCEPT ![m.proc] = m.n]
  /\ queue' = [queue EXCEPT ![listener_id] = Tail(@)]
  /\ UNCHANGED <<file, current, created, live, disturbed, sender, listener_id>>

(* execute_plugin_chain() is done with the record. *)
ChainReturns ==
  /\ in_chain
  /\ in_chain' = FALSE
  /\ UNCHANGED <<kernel, sender, listener_id, got>>

ListenerStop ==
  /\ listener_id # NONE
  /\ listener_id' = NONE
  /\ in_chain' = FALSE
  /\ UNCHANGED <<kernel, sender, got>>

-----------------------------------------------------------------------------
(* What the process does by itself once a record has been started. *)
Step(p) ==
  \/ Sent(p)
  \/ QueueFull(p)
  \/ QueueGone(p)
  \/ TryAgain(p)
  \/ Exhausted(p)

(* What comes from outside, at any time or never. *)
Environment ==
  \/ RemoveFile
  \/ TouchFile
  \/ \E q \in Queues : RemoveQueue(q)
  \/ ChainReturns
  \/ ListenerStop

Next ==
  \/ \E p \in Procs :
       \/ UseQueue(p)
       \/ FtokFails(p)
       \/ MsgGetFails(p)
       \/ FindQueue(p)
       \/ Step(p)
       \/ Die(p)
  \/ ListenerStart
  \/ Receive
  \/ Environment

Spec == Init /\ [][Next]_vars

(* A process that is not killed keeps running, also while it sleeps, and   *)
(* the listener's blocking msgrcv() returns when there is a message.  That *)
(* the plugins give the listener back is not assumed: it may wait for the  *)
(* plugin chain's mutex for good.                                          *)
FairSpec ==
  /\ Spec
  /\ \A p \in Procs : WF_vars(Step(p))
  /\ WF_vars(Receive)

-----------------------------------------------------------------------------
KernelType ==
  /\ file \in BOOLEAN
  /\ current \in 0..MaxQueues
  /\ created \in 0..MaxQueues
  /\ live \subseteq 1..created
  /\ queue \in [Queues -> Seq(Message)]
  /\ disturbed \in BOOLEAN

ControlType ==
  /\ have_key \in [Procs -> BOOLEAN]
  /\ message_queue_id \in [Procs -> 0..MaxQueues]
  /\ retries \in [Procs -> 0..MaxRetries]
  /\ pc \in [Procs -> {"idle", "msgsnd", "usleep", "dead"}]

CounterType ==
  /\ failed_ipc_sends \in [Procs -> Nat]
  /\ ipc_retries \in [Procs -> Nat]
  /\ ipc_retry_wait_lost_time \in [Procs -> Nat]
  /\ ipc_records \in [Procs -> Nat]

HistoryType ==
  /\ made \in [Procs -> Nat]
  /\ entered \in [Procs -> Nat]
  /\ exhausted \in [Procs -> Nat]

ListenerType ==
  /\ listener_id \in 0..MaxQueues
  /\ in_chain \in BOOLEAN
  /\ got \in [Procs -> Nat]

(* The variables of the kernel, of every process and of the listener keep  *)
(* their types; no process ever counts more than five tries, and only      *)
(* queues that were created are live.                                      *)
TypeOK ==
  /\ KernelType
  /\ ControlType
  /\ CounterType
  /\ HistoryType
  /\ ListenerType

Busy(p) == pc[p] \in {"msgsnd", "usleep"}

AccountingOf(p) ==
  LET counted == ipc_records[p] + failed_ipc_sends[p] IN
  /\ pc[p] = "idle" => made[p] = counted
  /\ Busy(p) => made[p] = counted + 1
  /\ pc[p] = "dead" => made[p] \in {counted, counted + 1}
  /\ entered[p] <= ipc_records[p]
  /\ ipc_records[p] <= entered[p] + exhausted[p]

(* The summary that fini() sends is right about what happened: every       *)
(* record of a process that is between two calls is counted once, as sent  *)
(* or as failed, nothing that entered a queue is counted as failed, and a  *)
(* record counted as sent without having entered one was given up after    *)
(* the last retry (the undefined return value of send_msg_queue()).        *)
Accounting == \A p \in Procs : AccountingOf(p)

RetryCostOf(p) ==
  /\ ipc_retries[p] <= MaxRetries * made[p]
  /\ ipc_retry_wait_lost_time[p] <= 31744 * made[p]

(* The time an application loses to a full queue is bounded: five sleeps,  *)
(* 31744 microseconds, for each record it makes.                           *)
RetryCost == \A p \in Procs : RetryCostOf(p)

(* All the records of a process wait in the one queue it looked up, oldest *)
(* first, and all are newer than the ones the listener has read: they are  *)
(* read in order and once, across restarts of the listener and removals of *)
(* the queue or its file.                                                  *)
InOrderOnce ==
  \A q \in Queues : \A i \in 1..Len(queue[q]) :
    LET m == queue[q][i] IN
    /\ message_queue_id[m.proc] = q
    /\ got[m.proc] < m.n
    /\ \A j \in 1..Len(queue[q]) :
         i < j /\ queue[q][j].proc = m.proc => m.n < queue[q][j].n

(* Whichever of the processes and the listener comes first creates the     *)
(* queue; the others find the same one unless the file or a queue has been *)
(* removed in between.                                                     *)
Rendezvous ==
  ~disturbed =>
    /\ \A p, r \in Procs :
         message_queue_id[p] # NONE /\ message_queue_id[r] # NONE
           => message_queue_id[p] = message_queue_id[r]
    /\ \A p \in Procs :
         message_queue_id[p] # NONE /\ listener_id # NONE
           => message_queue_id[p] = listener_id

(* send_msg_queue() always returns (unless its process is killed), also    *)
(* when no listener ever empties the queue: the monitor cannot hang the    *)
(* application.                                                            *)
SendReturns == \A p \in Procs : Busy(p) ~> ~Busy(p)

(* As long as the plugins give the listener back after every record, each  *)
(* message in its queue is read, wherever in the queue it waits and        *)
(* whatever the processes add behind it, unless the listener is stopped or *)
(* the queue removed before.                                               *)
MessagesRead ==
  []<>~in_chain =>
    \A q \in Queues : \A p \in Procs : \A n \in 1..MaxRecords :
      (listener_id = q /\ \E i \in 1..Len(queue[q]) :
                            queue[q][i] = [proc |-> p, n |-> n])
        ~> (listener_id # q \/ q \notin live \/ got[p] >= n)

Advances(q) ==
  \/ /\ Len(queue[q]) <= Len(queue'[q])
     /\ \A k \in 1..Len(queue[q]) : queue'[q][k] = queue[q][k]
  \/ /\ listener_id = q /\ queue[q] # <<>>
     /\ got'[queue[q][1].proc] = queue[q][1].n
     /\ Len(queue'[q]) = Len(queue[q]) - 1
     /\ \A k \in 1..(Len(queue[q]) - 1) : queue'[q][k] = queue[q][k + 1]

(* No message is overtaken in its queue or dropped from it: a queue, while *)
(* it is not removed, only grows at its end, or its head is read by the    *)
(* listener and all the others move up, so that every msgrcv() brings each *)
(* one a place closer to being read however fast the queue is refilled.    *)
QueueAdvances == [][\A q \in Queues : q \in live' => Advances(q)]_vars

-----------------------------------------------------------------------------
(* The records of process p that wait in the queue it looked up. *)
Waiting(p) ==
  IF message_queue_id[p] = NONE THEN {}
  ELSE {queue[message_queue_id[p]][i].n :
          i \in {k \in 1..Len(queue[message_queue_id[p]]) :
                   queue[message_queue_id[p]][k].proc = p}}

Fifo == INSTANCE LossyFifo WITH
  offered <- made,
  pending <- {p \in Procs : Busy(p)},
  inflight <- [p \in Procs |-> Waiting(p)],
  got <- got

(* The queue implements the lossy FIFO channel. *)
IsLossyFifo == Fifo!ASpec
=============================================================================
