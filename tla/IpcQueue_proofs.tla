--------------------------- MODULE IpcQueue_proofs ---------------------------
(***************************************************************************)
(* Proofs about IpcQueue for any number of processes, any queue capacity   *)
(* and any bounds.                                                         *)
(***************************************************************************)
EXTENDS IpcQueue, TLAPS

USE QCapAssumption, BoundsAssumption

(* A process between two calls of the loop of send_msg_queue() holds the   *)
(* identifier of a queue, and its number of tries fits where it is.        *)
LoopInv ==
  \A p \in Procs :
    /\ Busy(p) => message_queue_id[p] # NONE
    /\ message_queue_id[p] # NONE => have_key[p]
    /\ pc[p] = "msgsnd" => retries[p] \in 0..4
    /\ pc[p] = "usleep" => retries[p] \in 1..5

(* Identifiers are of queues that have been created, and one queue at most *)
(* has been while nothing was removed.                                     *)
IdInv ==
  /\ current <= created
  /\ listener_id <= created
  /\ \A p \in Procs : message_queue_id[p] <= created
  /\ \/ disturbed
     \/ created = 0 /\ current = 0
     \/ created = 1 /\ current = 1

(* Messages only wait in live queues; each was made by its process, and is *)
(* older than the record that process is sending.                          *)
MessageInv ==
  /\ \A p \in Procs :
       /\ got[p] <= made[p]
       /\ Busy(p) => got[p] < made[p]
  /\ \A q \in Queues :
       /\ q \notin live => queue[q] = <<>>
       /\ \A i \in 1..Len(queue[q]) :
            /\ queue[q][i].n <= made[queue[q][i].proc]
            /\ Busy(queue[q][i].proc) => queue[q][i].n < made[queue[q][i].proc]

BusyPc == {"msgsnd", "usleep"}

(* Microseconds slept for a record before its k-th sleep. *)
SleptBefore(k) ==
  CASE k = 1 -> 0
    [] k = 2 -> 1024
    [] k = 3 -> 3072
    [] k = 4 -> 7168
    [] k = 5 -> 15360
    [] OTHER -> 31744

(* The cost of the records that are done with, and that of the present one *)
(* up to the sleep it is at.                                               *)
CostOf(p) ==
  /\ pc[p] = "msgsnd" =>
       /\ ipc_retries[p] <= 5 * (made[p] - 1) + retries[p]
       /\ ipc_retry_wait_lost_time[p] <=
            31744 * (made[p] - 1) + SleptBefore(retries[p] + 1)
  /\ pc[p] = "usleep" =>
       /\ ipc_retries[p] <= 5 * (made[p] - 1) + retries[p] - 1
       /\ ipc_retry_wait_lost_time[p] <=
            31744 * (made[p] - 1) + SleptBefore(retries[p])

CostInv == \A p \in Procs : CostOf(p)

IInv ==
  /\ TypeOK
  /\ LoopInv
  /\ IdInv
  /\ MessageInv
  /\ Accounting
  /\ CostInv
  /\ RetryCost
  /\ InOrderOnce

(* The monitor and the listener start in the invariant. *)
LEMMA InitInv == Init => IInv
  <1> SUFFICES ASSUME Init PROVE IInv
    OBVIOUS
  <1> USE DEF Init, Zero, NONE, Busy
  <1>1. KernelType /\ ListenerType
    <2>1. queue \in [Queues -> Seq(Message)]
      OBVIOUS
    <2>2. live \subseteq 1..created
      OBVIOUS
    <2>3. current \in 0..MaxQueues /\ created \in 0..MaxQueues
      OBVIOUS
    <2>4. ListenerType
      <3>1. listener_id \in 0..MaxQueues /\ got \in [Procs -> Nat]
        OBVIOUS
      <3>2. in_chain \in BOOLEAN
        BY Zenon
      <3> QED
        BY <3>1, <3>2, Zenon DEF ListenerType
    <2> QED
      BY <2>1, <2>2, <2>3, <2>4, Zenon DEF KernelType
  <1>2. ControlType
    BY DEF ControlType, MaxRetries
  <1>3. CounterType /\ HistoryType
    BY DEF CounterType, HistoryType
  <1>4. LoopInv /\ IdInv
    BY DEF LoopInv, IdInv
  <1>5. MessageInv /\ InOrderOnce
    BY DEF MessageInv, InOrderOnce, Queues
  <1>6. Accounting /\ CostInv /\ RetryCost
    BY DEF SleptBefore, Accounting, AccountingOf, CostInv, CostOf, RetryCost, RetryCostOf, MaxRetries
  <1> QED
    BY <1>1, <1>2, <1>3, <1>4, <1>5, <1>6 DEF IInv, TypeOK

(* The kernel's queue numbers stay within their bounds. *)
LEMMA MsgGetType ==
  ASSUME KernelType, NEW q \in Queues, MsgGet(q)
  PROVE  /\ current' \in 0..MaxQueues
         /\ created' \in 0..MaxQueues
         /\ live' \subseteq 1..created'
  <1>1. current' \in 0..MaxQueues /\ created' \in 0..MaxQueues
    BY DEF KernelType, MsgGet, Queues, NONE
  <1>2. created \in Nat /\ created <= created' /\ created' \in Nat
    BY DEF KernelType, MsgGet, Queues, NONE
  <1>3. live' \subseteq live \cup {q} /\ (q \in live' => q \in live \/ q = created')
    BY DEF MsgGet
  <1>4. live \subseteq 1..created /\ q \in 1..MaxQueues
    BY DEF KernelType, Queues
  <1> QED
    BY <1>1, <1>2, <1>3, <1>4

(* The ways the steps of a process change its own variables. *)
LEMMA ReturnType ==
  ASSUME TypeOK, NEW p \in Procs, NEW r \in Int, Return(p, r)
  PROVE  /\ ipc_records' \in [Procs -> Nat]
         /\ failed_ipc_sends' \in [Procs -> Nat]
         /\ pc' \in [Procs -> {"idle", "msgsnd", "usleep", "dead"}]
  BY DEF TypeOK, ControlType, CounterType, Return

(* Starting a record without a queue, or with one. *)
LEMMA StartType ==
  ASSUME TypeOK, NEW p \in Procs, Start(p), NoQueue(p) \/ EnterLoop(p)
  PROVE  /\ retries' \in [Procs -> 0..MaxRetries]
         /\ pc' \in [Procs -> {"idle", "msgsnd", "usleep", "dead"}]
         /\ CounterType'
         /\ HistoryType'
         /\ ListenerType'
  <1>1. HistoryType' /\ ListenerType'
    BY DEF TypeOK, Start, HistoryType, ListenerType, listener
  <1>2. CASE NoQueue(p)
    <2>1. /\ ipc_records' \in [Procs -> Nat]
          /\ failed_ipc_sends' \in [Procs -> Nat]
          /\ pc' \in [Procs -> {"idle", "msgsnd", "usleep", "dead"}]
      BY <1>2, ReturnType DEF NoQueue
    <2> QED
      BY <1>1, <1>2, <2>1 DEF NoQueue, TypeOK, ControlType, CounterType
  <1>3. CASE EnterLoop(p)
    BY <1>1, <1>3 DEF EnterLoop, TypeOK, ControlType, CounterType, counters, MaxRetries
  <1> QED
    BY <1>2, <1>3

(* Every step keeps the types. *)
LEMMA TypeStep == TypeOK /\ LoopInv /\ [Next]_vars => TypeOK'
  <1> SUFFICES ASSUME TypeOK, LoopInv, [Next]_vars PROVE TypeOK'
    OBVIOUS
  <1>1. ASSUME NEW p \in Procs, UseQueue(p) \/ FtokFails(p) PROVE TypeOK'
    <2>1. Start(p) /\ (NoQueue(p) \/ EnterLoop(p))
      BY <1>1 DEF UseQueue, FtokFails
    <2>2. KernelType'
      BY <1>1, <2>1 DEF UseQueue, FtokFails, Start, TypeOK, KernelType
    <2>3. have_key' = have_key /\ message_queue_id' = message_queue_id
      BY <1>1 DEF UseQueue, FtokFails
    <2> QED
      BY <2>1, <2>2, <2>3, StartType DEF TypeOK, ControlType
  <1>2. ASSUME NEW p \in Procs, MsgGetFails(p) PROVE TypeOK'
    <2>1. Start(p) /\ NoQueue(p)
      BY <1>2 DEF MsgGetFails
    <2>2. KernelType'
      BY <1>2, <2>1 DEF MsgGetFails, Start, TypeOK, KernelType
    <2>3. have_key' \in [Procs -> BOOLEAN] /\ message_queue_id' = message_queue_id
      BY <1>2 DEF MsgGetFails, TypeOK, ControlType
    <2> QED
      BY <2>1, <2>2, <2>3, StartType DEF TypeOK, ControlType
  <1>3. ASSUME NEW p \in Procs, FindQueue(p) PROVE TypeOK'
    <2>1. Start(p) /\ EnterLoop(p)
      BY <1>3 DEF FindQueue
    <2>2. PICK q \in Queues :
            MsgGet(q) /\ message_queue_id' = [message_queue_id EXCEPT ![p] = q]
      BY <1>3 DEF FindQueue
    <2>3. KernelType'
      BY <2>1, <2>2, MsgGetType DEF TypeOK, KernelType, Start
    <2>4. /\ have_key' \in [Procs -> BOOLEAN]
          /\ message_queue_id' \in [Procs -> 0..MaxQueues]
      BY <1>3, <2>2 DEF FindQueue, TypeOK, ControlType, Queues
    <2> QED
      BY <2>1, <2>3, <2>4, StartType DEF TypeOK, ControlType
  <1>4. ASSUME NEW p \in Procs, Sent(p) PROVE TypeOK'
    <2> DEFINE q == message_queue_id[p]
               m == [proc |-> p, n |-> made[p]]
    <2>1. q \in Queues /\ m \in Message
      BY <1>4 DEF Sent, Queues, Message, TypeOK, KernelType, ControlType, HistoryType
    <2>2. queue' \in [Queues -> Seq(Message)]
      BY <1>4, <2>1 DEF Sent, TypeOK, KernelType
    <2>3. KernelType'
      BY <1>4, <2>2 DEF Sent, TypeOK, KernelType
    <2>4. /\ ipc_records' \in [Procs -> Nat]
          /\ failed_ipc_sends' \in [Procs -> Nat]
          /\ pc' \in [Procs -> {"idle", "msgsnd", "usleep", "dead"}]
      BY <1>4, ReturnType DEF Sent
    <2>5. ControlType' /\ CounterType'
      BY <1>4, <2>4 DEF Sent, TypeOK, ControlType, CounterType
    <2>6. HistoryType' /\ ListenerType'
      BY <1>4 DEF Sent, TypeOK, HistoryType, ListenerType, listener
    <2> QED
      BY <2>3, <2>5, <2>6 DEF TypeOK
  <1>5. ASSUME NEW p \in Procs, QueueFull(p) PROVE TypeOK'
    <2>1. ControlType'
      BY <1>5 DEF QueueFull, TypeOK, ControlType, LoopInv, MaxRetries
    <2> QED
      BY <1>5, <2>1 DEF QueueFull, TypeOK, KernelType, CounterType, HistoryType,
                        ListenerType, kernel, counters, listener
  <1>6. ASSUME NEW p \in Procs, QueueGone(p) PROVE TypeOK'
    <2>1. /\ ipc_records' \in [Procs -> Nat]
          /\ failed_ipc_sends' \in [Procs -> Nat]
          /\ pc' \in [Procs -> {"idle", "msgsnd", "usleep", "dead"}]
      BY <1>6, ReturnType DEF QueueGone
    <2>2. ControlType' /\ CounterType'
      BY <1>6, <2>1 DEF QueueGone, TypeOK, ControlType, CounterType
    <2> QED
      BY <1>6, <2>2 DEF QueueGone, TypeOK, KernelType, HistoryType, ListenerType,
                        kernel, listener
  <1>7. ASSUME NEW p \in Procs, TryAgain(p) \/ Exhausted(p) PROVE TypeOK'
    <2>1. retries[p] \in 1..5
      BY <1>7 DEF TryAgain, Exhausted, CountRetry, LoopInv
    <2>2. usleep_time[retries[p]] \in Nat
      BY <2>1 DEF usleep_time
    <2>3. /\ ipc_retries' \in [Procs -> Nat]
          /\ ipc_retry_wait_lost_time' \in [Procs -> Nat]
      BY <1>7, <2>2 DEF TryAgain, Exhausted, CountRetry, TypeOK, CounterType
    <2>4. /\ ipc_records' \in [Procs -> Nat]
          /\ failed_ipc_sends' \in [Procs -> Nat]
          /\ pc' \in [Procs -> {"idle", "msgsnd", "usleep", "dead"}]
          /\ exhausted' \in [Procs -> Nat]
      <3>1. CASE TryAgain(p)
        BY <3>1 DEF TryAgain, TypeOK, CounterType, ControlType, HistoryType
      <3>2. CASE Exhausted(p)
        BY <3>2, ReturnType DEF Exhausted, TypeOK, HistoryType
      <3> QED
        BY <1>7, <3>1, <3>2
    <2>5. KernelType' /\ ListenerType'
      BY <1>7 DEF TryAgain, Exhausted, CountRetry, TypeOK, KernelType, ListenerType,
                  kernel, listener
    <2> QED
      BY <1>7, <2>3, <2>4, <2>5
         DEF TryAgain, Exhausted, CountRetry, TypeOK, ControlType, CounterType,
             HistoryType
  <1>8. ASSUME NEW p \in Procs, Die(p) PROVE TypeOK'
    BY <1>8 DEF Die, TypeOK, KernelType, ControlType, CounterType, HistoryType,
                ListenerType, kernel, counters, listener
  <1>9. CASE ListenerStart
    <2>1. PICK q \in Queues : MsgGet(q) /\ listener_id' = q
      BY <1>9 DEF ListenerStart
    <2>2. KernelType' /\ ListenerType'
      BY <1>9, <2>1, MsgGetType
         DEF ListenerStart, TypeOK, KernelType, ListenerType, Queues
    <2> QED
      BY <1>9, <2>2 DEF ListenerStart, TypeOK, ControlType, CounterType, HistoryType,
                        sender, counters
  <1>10. CASE Receive
    <2>1. listener_id \in Queues
      BY <1>10 DEF Receive, Queues, TypeOK, KernelType
    <2>2. Head(queue[listener_id]) \in Message
      BY <1>10, <2>1 DEF Receive, TypeOK, KernelType
    <2>3. KernelType'
      BY <1>10, <2>1 DEF Receive, TypeOK, KernelType
    <2>4. ListenerType'
      BY <1>10, <2>2 DEF Receive, Message, TypeOK, ListenerType
    <2> QED
      BY <1>10, <2>3, <2>4 DEF Receive, TypeOK, ControlType, CounterType, HistoryType,
                               sender, counters
  <1>11. CASE Environment
    <2>1. KernelType' /\ ListenerType'
      <3>1. ASSUME NEW q \in Queues, RemoveQueue(q)
            PROVE  KernelType' /\ ListenerType'
        <4>1. live' \subseteq 1..created'
          BY <3>1 DEF RemoveQueue, TypeOK, KernelType
        <4>2. queue' \in [Queues -> Seq(Message)]
          BY <3>1 DEF RemoveQueue, TypeOK, KernelType
        <4> QED
          BY <3>1, <4>1, <4>2
             DEF RemoveQueue, NONE, TypeOK, KernelType, ListenerType, listener
      <3>2. CASE RemoveFile \/ TouchFile \/ ListenerStop \/ ChainReturns
        <4>1. current' \in 0..MaxQueues /\ listener_id' \in 0..MaxQueues
          BY <3>2 DEF RemoveFile, TouchFile, ListenerStop, ChainReturns, NONE, TypeOK, KernelType,
                      ListenerType, listener, kernel
        <4>2. /\ UNCHANGED <<created, live, queue, got>>
              /\ file' \in BOOLEAN /\ disturbed' \in BOOLEAN
          BY <3>2 DEF RemoveFile, TouchFile, ListenerStop, ChainReturns, TypeOK, KernelType,
                      listener, kernel
        <4>3. in_chain' \in BOOLEAN
          BY <3>2 DEF RemoveFile, TouchFile, ListenerStop, ChainReturns, TypeOK,
                      ListenerType, listener
        <4> QED
          BY <4>1, <4>2, <4>3 DEF TypeOK, KernelType, ListenerType
      <3> QED
        BY <1>11, <3>1, <3>2 DEF Environment
    <2>2. UNCHANGED sender
      BY <1>11 DEF Environment, RemoveFile, TouchFile, RemoveQueue, ListenerStop, ChainReturns
    <2> QED
      BY <2>1, <2>2 DEF TypeOK, ControlType, CounterType, HistoryType, sender, counters
  <1>12. CASE UNCHANGED vars
    BY <1>12 DEF vars, TypeOK, KernelType, ControlType, CounterType, HistoryType,
                 ListenerType, kernel, sender, counters, listener
  <1> QED
    BY <1>1, <1>2, <1>3, <1>4, <1>5, <1>6, <1>7, <1>8, <1>9, <1>10, <1>11, <1>12
       DEF Next, Step

(* The steps that leave the variables of every process alone. *)
LEMMA QuietSteps ==
  ListenerStart \/ Receive \/ Environment \/ UNCHANGED vars => UNCHANGED sender
  BY DEF ListenerStart, Receive, Environment, RemoveFile, TouchFile, RemoveQueue,
         ListenerStop, ChainReturns, vars

(* Where a process is in send_msg_queue() fits its identifier and its      *)
(* number of tries.                                                        *)
LEMMA LoopStep == TypeOK /\ LoopInv /\ [Next]_vars => LoopInv'
  <1> SUFFICES ASSUME TypeOK, LoopInv, [Next]_vars PROVE LoopInv'
    OBVIOUS
  <1> USE DEF TypeOK, ControlType, LoopInv, Busy
  <1>1. ASSUME NEW p \in Procs, UseQueue(p) \/ FtokFails(p) PROVE LoopInv'
    BY <1>1 DEF UseQueue, FtokFails, Start, NoQueue, EnterLoop, Return
  <1>2. ASSUME NEW p \in Procs, MsgGetFails(p) PROVE LoopInv'
    BY <1>2 DEF MsgGetFails, Start, NoQueue, Return
  <1>3. ASSUME NEW p \in Procs, FindQueue(p) PROVE LoopInv'
    BY <1>3 DEF FindQueue, Start, EnterLoop, Queues, NONE
  <1>4. ASSUME NEW p \in Procs, Sent(p) \/ QueueGone(p) PROVE LoopInv'
    BY <1>4 DEF Sent, QueueGone, Return
  <1>5. ASSUME NEW p \in Procs, QueueFull(p) PROVE LoopInv'
    BY <1>5 DEF QueueFull
  <1>6. ASSUME NEW p \in Procs, TryAgain(p) PROVE LoopInv'
    BY <1>6 DEF TryAgain, CountRetry, MaxRetries
  <1>7. ASSUME NEW p \in Procs, Exhausted(p) PROVE LoopInv'
    BY <1>7 DEF Exhausted, CountRetry, Return
  <1>8. ASSUME NEW p \in Procs, Die(p) PROVE LoopInv'
    BY <1>8 DEF Die
  <1>9. CASE UNCHANGED sender
    BY <1>9 DEF sender
  <1> QED
    BY <1>1, <1>2, <1>3, <1>4, <1>5, <1>6, <1>7, <1>8, <1>9, QuietSteps
       DEF Next, Step

(* msgget() returns a queue that has been created, the first one while     *)
(* nothing has been removed.                                               *)
LEMMA MsgGetIds ==
  ASSUME TypeOK, IdInv, NEW q \in Queues, MsgGet(q), disturbed' = disturbed
  PROVE  /\ q <= created' /\ created <= created' /\ current' <= created'
         /\ \/ disturbed'
            \/ created' = 1 /\ current' = 1
  BY DEF TypeOK, KernelType, IdInv, MsgGet, Queues, NONE

(* No identifier is of a queue that was never created. *)
LEMMA IdStep == TypeOK /\ IdInv /\ [Next]_vars => IdInv'
  <1> SUFFICES ASSUME TypeOK, IdInv, [Next]_vars PROVE IdInv'
    OBVIOUS
  <1> USE DEF TypeOK, ControlType, KernelType, ListenerType
  <1>1. ASSUME NEW p \in Procs, FindQueue(p) PROVE IdInv'
    <2>1. PICK q \in Queues :
            MsgGet(q) /\ message_queue_id' = [message_queue_id EXCEPT ![p] = q]
      BY <1>1 DEF FindQueue
    <2>2. listener_id' = listener_id /\ disturbed' = disturbed
      BY <1>1 DEF FindQueue, Start, listener
    <2>3. /\ q <= created' /\ created <= created' /\ current' <= created'
          /\ disturbed' \/ (created' = 1 /\ current' = 1)
      BY <2>1, <2>2, MsgGetIds
    <2>4. created' \in Nat
      BY <2>1, MsgGetType
    <2> QED
      BY <2>1, <2>2, <2>3, <2>4 DEF IdInv, Queues
  <1>2. CASE ListenerStart
    <2>1. PICK q \in Queues : MsgGet(q) /\ listener_id' = q
      BY <1>2 DEF ListenerStart
    <2>2. message_queue_id' = message_queue_id /\ disturbed' = disturbed
      BY <1>2 DEF ListenerStart, sender
    <2>3. /\ q <= created' /\ created <= created' /\ current' <= created'
          /\ disturbed' \/ (created' = 1 /\ current' = 1)
      BY <2>1, <2>2, MsgGetIds
    <2>4. created' \in Nat
      BY <2>1, MsgGetType
    <2> QED
      BY <2>1, <2>2, <2>3, <2>4 DEF IdInv
  <1>3. ASSUME NEW p \in Procs, UseQueue(p) \/ FtokFails(p) \/ MsgGetFails(p) \/ Step(p) \/ Die(p)
        PROVE  UNCHANGED <<message_queue_id, current, created, listener_id, disturbed>>
    BY <1>3 DEF UseQueue, FtokFails, MsgGetFails, Start, Step, Sent, QueueFull,
                QueueGone, TryAgain, Exhausted, CountRetry, Die, kernel, listener
  <1>4. CASE Receive \/ UNCHANGED vars
    BY <1>4 DEF Receive, IdInv, vars, kernel, sender, listener
  <1>5. CASE Environment
    <2>1. UNCHANGED <<message_queue_id, created>>
      BY <1>5 DEF Environment, RemoveFile, TouchFile, RemoveQueue, ListenerStop, ChainReturns,
                  sender, kernel
    <2>2. /\ current' = current \/ current' = NONE
          /\ listener_id' = listener_id \/ listener_id' = NONE
          /\ (disturbed' = disturbed /\ current' = current) \/ disturbed' = TRUE
      BY <1>5 DEF Environment, RemoveFile, TouchFile, RemoveQueue, ListenerStop, ChainReturns,
                  listener, kernel
    <2> QED
      BY <2>1, <2>2 DEF IdInv, NONE
  <1> QED
    BY <1>1, <1>2, <1>3, <1>4, <1>5 DEF Next, IdInv

(* The statics of process r do not change. *)
Same(r) ==
  /\ pc'[r] = pc[r] /\ retries'[r] = retries[r] /\ made'[r] = made[r]
  /\ ipc_records'[r] = ipc_records[r]
  /\ failed_ipc_sends'[r] = failed_ipc_sends[r]
  /\ ipc_retries'[r] = ipc_retries[r]
  /\ ipc_retry_wait_lost_time'[r] = ipc_retry_wait_lost_time[r]
  /\ entered'[r] = entered[r] /\ exhausted'[r] = exhausted[r]

(* No step of a process touches the statics of another one. *)
LEMMA OthersSame ==
  ASSUME TypeOK, NEW p \in Procs,
         \/ UseQueue(p) \/ FtokFails(p) \/ MsgGetFails(p) \/ FindQueue(p)
         \/ Step(p) \/ Die(p),
         NEW r \in Procs, r # p
  PROVE  Same(r)
  <1> USE DEF TypeOK, ControlType, CounterType, HistoryType, Same, counters
  <1>1. CASE UseQueue(p)
    BY <1>1 DEF UseQueue, Start, NoQueue, EnterLoop, Return
  <1>2. CASE FtokFails(p) \/ MsgGetFails(p)
    BY <1>2 DEF FtokFails, MsgGetFails, Start, NoQueue, Return
  <1>3. CASE FindQueue(p)
    BY <1>3 DEF FindQueue, Start, EnterLoop
  <1>4. CASE Sent(p) \/ QueueGone(p)
    BY <1>4 DEF Sent, QueueGone, Return
  <1>5. CASE QueueFull(p) \/ Die(p)
    BY <1>5 DEF QueueFull, Die
  <1>6. CASE TryAgain(p)
    BY <1>6 DEF TryAgain, CountRetry
  <1>7. CASE Exhausted(p)
    BY <1>7 DEF Exhausted, CountRetry, Return
  <1> QED
    BY <1>1, <1>2, <1>3, <1>4, <1>5, <1>6, <1>7 DEF Step

(* The counters of one process as numbers. *)
LEMMA Numbers ==
  ASSUME TypeOK, NEW p \in Procs
  PROVE  /\ made[p] \in Nat /\ entered[p] \in Nat /\ exhausted[p] \in Nat
         /\ ipc_records[p] \in Nat /\ failed_ipc_sends[p] \in Nat
         /\ ipc_retries[p] \in Nat /\ ipc_retry_wait_lost_time[p] \in Nat
         /\ retries[p] \in 0..5
         /\ pc[p] \in {"idle", "msgsnd", "usleep", "dead"}
  BY DEF TypeOK, ControlType, CounterType, HistoryType, MaxRetries

(* What each step does to the counters of its own process. *)
LEMMA StartEffect ==
  ASSUME TypeOK, NEW p \in Procs,
         UseQueue(p) \/ FtokFails(p) \/ MsgGetFails(p) \/ FindQueue(p)
  PROVE  /\ pc[p] = "idle" /\ made'[p] = made[p] + 1
         /\ entered'[p] = entered[p] /\ exhausted'[p] = exhausted[p]
         /\ ipc_records'[p] = ipc_records[p] /\ ipc_retries'[p] = ipc_retries[p]
         /\ ipc_retry_wait_lost_time'[p] = ipc_retry_wait_lost_time[p]
         /\ \/ /\ pc'[p] = "idle"
               /\ failed_ipc_sends'[p] = failed_ipc_sends[p] + 1
            \/ /\ pc'[p] = "msgsnd" /\ retries'[p] = 0
               /\ failed_ipc_sends'[p] = failed_ipc_sends[p]
  <1> USE DEF TypeOK, ControlType, CounterType, HistoryType, counters, Return
  <1>1. CASE UseQueue(p)
    BY <1>1 DEF UseQueue, Start, NoQueue, EnterLoop
  <1>2. CASE FtokFails(p) \/ MsgGetFails(p)
    BY <1>2 DEF FtokFails, MsgGetFails, Start, NoQueue
  <1>3. CASE FindQueue(p)
    BY <1>3 DEF FindQueue, Start, EnterLoop
  <1> QED
    BY <1>1, <1>2, <1>3

(* msgsnd() succeeds or fails for good. *)
LEMMA MsgSndEffect ==
  ASSUME TypeOK, NEW p \in Procs, Sent(p) \/ QueueGone(p)
  PROVE  /\ pc[p] = "msgsnd" /\ pc'[p] = "idle" /\ made'[p] = made[p]
         /\ exhausted'[p] = exhausted[p] /\ ipc_retries'[p] = ipc_retries[p]
         /\ ipc_retry_wait_lost_time'[p] = ipc_retry_wait_lost_time[p]
         /\ \/ /\ entered'[p] = entered[p] + 1
               /\ ipc_records'[p] = ipc_records[p] + 1
               /\ failed_ipc_sends'[p] = failed_ipc_sends[p]
            \/ /\ entered'[p] = entered[p]
               /\ ipc_records'[p] = ipc_records[p]
               /\ failed_ipc_sends'[p] = failed_ipc_sends[p] + 1
  <1> USE DEF TypeOK, ControlType, CounterType, HistoryType, Return
  <1>1. CASE Sent(p)
    BY <1>1 DEF Sent
  <1>2. CASE QueueGone(p)
    BY <1>2 DEF QueueGone
  <1> QED
    BY <1>1, <1>2

(* The queue is full, and the sleep after that is over. *)
LEMMA SleepEffect ==
  ASSUME TypeOK, NEW p \in Procs, TryAgain(p) \/ Exhausted(p)
  PROVE  /\ pc[p] = "usleep" /\ retries'[p] = retries[p]
         /\ made'[p] = made[p] /\ entered'[p] = entered[p]
         /\ ipc_retries'[p] = ipc_retries[p] + 1
         /\ ipc_retry_wait_lost_time'[p] =
              ipc_retry_wait_lost_time[p] + usleep_time[retries[p]]
         /\ \/ /\ pc'[p] = "msgsnd" /\ exhausted'[p] = exhausted[p]
               /\ ipc_records'[p] = ipc_records[p]
               /\ failed_ipc_sends'[p] = failed_ipc_sends[p]
               /\ retries[p] < 5
            \/ /\ pc'[p] = "idle" /\ exhausted'[p] = exhausted[p] + 1
               /\ \/ /\ ipc_records'[p] = ipc_records[p] + 1
                     /\ failed_ipc_sends'[p] = failed_ipc_sends[p]
                  \/ /\ ipc_records'[p] = ipc_records[p]
                     /\ failed_ipc_sends'[p] = failed_ipc_sends[p] + 1
  <1> USE DEF TypeOK, ControlType, CounterType, HistoryType, CountRetry, MaxRetries
  <1>1. CASE TryAgain(p)
    BY <1>1 DEF TryAgain
  <1>2. CASE Exhausted(p)
    BY <1>2 DEF Exhausted, Return
  <1> QED
    BY <1>1, <1>2

(* What only moves the process, or ends it. *)
LEMMA MoveEffect ==
  ASSUME TypeOK, NEW p \in Procs, QueueFull(p) \/ Die(p)
  PROVE  /\ UNCHANGED <<counters, made, entered, exhausted>>
         /\ \/ /\ pc[p] = "msgsnd" /\ pc'[p] = "usleep"
               /\ retries'[p] = retries[p] + 1
            \/ pc'[p] = "dead"
  BY DEF TypeOK, ControlType, QueueFull, Die

(* record() counts every record exactly once. *)
LEMMA AccountStep == TypeOK /\ Accounting /\ [Next]_vars => Accounting'
  <1> SUFFICES ASSUME TypeOK, Accounting, [Next]_vars, NEW r \in Procs
               PROVE  AccountingOf(r)'
    BY DEF Accounting
  <1> USE Numbers DEF AccountingOf, Busy
  <1>0. AccountingOf(r)
    BY DEF Accounting
  <1>1. CASE UseQueue(r) \/ FtokFails(r) \/ MsgGetFails(r) \/ FindQueue(r)
    BY <1>0, <1>1, StartEffect
  <1>2. CASE Sent(r) \/ QueueGone(r)
    BY <1>0, <1>2, MsgSndEffect
  <1>3. CASE TryAgain(r) \/ Exhausted(r)
    BY <1>0, <1>3, SleepEffect
  <1>4. CASE QueueFull(r) \/ Die(r)
    BY <1>0, <1>4, MoveEffect DEF counters
  <1>5. CASE Same(r)
    BY <1>0, <1>5 DEF Same
  <1>6. CASE UNCHANGED sender
    BY <1>0, <1>6 DEF sender, counters
  <1> QED
    BY <1>1, <1>2, <1>3, <1>4, <1>5, <1>6, QuietSteps, OthersSame DEF Next, Step

(* The sleeps of one record add up to the table of the invariant. *)
LEMMA SleepSums ==
  ASSUME NEW k \in 1..5
  PROVE  /\ SleptBefore(k) \in Nat
         /\ usleep_time[k] \in Nat
         /\ SleptBefore(k) + usleep_time[k] = SleptBefore(k + 1)
         /\ SleptBefore(k + 1) <= 31744
  BY DEF SleptBefore, usleep_time

(* No record costs more than five sleeps. *)
LEMMA CostStep ==
  TypeOK /\ LoopInv /\ CostInv /\ RetryCost /\ [Next]_vars => CostInv' /\ RetryCost'
  <1> SUFFICES ASSUME TypeOK, LoopInv, CostInv, RetryCost, [Next]_vars,
                      NEW r \in Procs
               PROVE  CostOf(r)' /\ RetryCostOf(r)'
    BY DEF CostInv, RetryCost
  <1> USE DEF CostOf, RetryCostOf, MaxRetries
  <1>0. /\ CostOf(r) /\ RetryCostOf(r)
        /\ pc[r] = "msgsnd" => retries[r] \in 0..4
        /\ pc[r] = "usleep" => retries[r] \in 1..5
        /\ made[r] \in Nat /\ ipc_retries[r] \in Nat
        /\ ipc_retry_wait_lost_time[r] \in Nat
    BY Numbers DEF CostInv, RetryCost, LoopInv
  <1>1. CASE UseQueue(r) \/ FtokFails(r) \/ MsgGetFails(r) \/ FindQueue(r)
    <2>1. /\ made'[r] = made[r] + 1 /\ ipc_retries'[r] = ipc_retries[r]
          /\ ipc_retry_wait_lost_time'[r] = ipc_retry_wait_lost_time[r]
          /\ pc'[r] = "idle" \/ (pc'[r] = "msgsnd" /\ retries'[r] = 0)
      BY <1>1, StartEffect
    <2>2. retries'[r] = 0 => SleptBefore(retries'[r] + 1) = 0
      BY DEF SleptBefore
    <2> QED
      BY <1>0, <2>1, <2>2
  <1>2. CASE Sent(r) \/ QueueGone(r)
    BY <1>0, <1>2, MsgSndEffect
  <1>3. CASE TryAgain(r) \/ Exhausted(r)
    <2> DEFINE k == retries[r]
    <2>1. /\ pc[r] = "usleep" /\ k \in 1..5 /\ retries'[r] = k
          /\ made'[r] = made[r] /\ ipc_retries'[r] = ipc_retries[r] + 1
          /\ ipc_retry_wait_lost_time'[r] = ipc_retry_wait_lost_time[r] + usleep_time[k]
          /\ pc'[r] \in {"idle", "msgsnd"}
      BY <1>0, <1>3, SleepEffect
    <2>2. /\ SleptBefore(k) \in Nat
          /\ usleep_time[k] \in Nat
          /\ SleptBefore(k) + usleep_time[k] = SleptBefore(k + 1)
          /\ SleptBefore(k + 1) <= 31744
      <3> HIDE DEF k
      <3> QED
        BY <2>1, SleepSums
    <2> QED
      BY <1>0, <2>1, <2>2
  <1>4. CASE QueueFull(r) \/ Die(r)
    BY <1>0, <1>4, MoveEffect DEF counters
  <1>5. CASE Same(r)
    BY <1>0, <1>5 DEF Same
  <1>6. CASE UNCHANGED sender
    BY <1>0, <1>6 DEF sender, counters
  <1> QED
    BY <1>1, <1>2, <1>3, <1>4, <1>5, <1>6, QuietSteps, OthersSame DEF Next, Step

(* The message at a place of a queue. *)
LEMMA MessageAt ==
  ASSUME TypeOK, NEW q \in Queues, NEW i \in 1..Len(queue[q])
  PROVE  queue[q][i].proc \in Procs /\ queue[q][i].n \in Nat
  <1>1. queue[q] \in Seq(Message)
    BY DEF TypeOK, KernelType
  <1>2. queue[q][i] \in Message
    BY <1>1
  <1> QED
    BY <1>2 DEF Message

(* Two messages of a process in one queue. *)
LEMMA OrderAt ==
  ASSUME TypeOK, InOrderOnce, NEW q \in Queues, NEW i \in 1..Len(queue[q])
  PROVE  /\ message_queue_id[queue[q][i].proc] = q
         /\ got[queue[q][i].proc] < queue[q][i].n
         /\ \A j \in 1..Len(queue[q]) :
              i < j /\ queue[q][j].proc = queue[q][i].proc
                => queue[q][i].n < queue[q][j].n
  BY DEF InOrderOnce

(* Taking the head off a queue. *)
LEMMA TailFacts ==
  ASSUME NEW s \in Seq(Message), s # <<>>
  PROVE  /\ Len(s) \in Nat \ {0} /\ 1 \in 1..Len(s)
         /\ Len(Tail(s)) = Len(s) - 1
         /\ \A i \in 1..Len(Tail(s)) : Tail(s)[i] = s[i + 1]
         /\ Head(s) = s[1]
  OBVIOUS

(* Steps that leave the queues and the identifiers alone, and let a        *)
(* process become busy only with a new record, keep the order.             *)
LEMMA CalmStep ==
  ASSUME TypeOK, MessageInv, InOrderOnce,
         UNCHANGED <<queue, message_queue_id, got>>, live \subseteq live',
         \A r \in Procs :
           /\ made'[r] \in Nat
           /\ \/ made'[r] = made[r] /\ (Busy(r)' => Busy(r))
              \/ made'[r] = made[r] + 1
  PROVE  MessageInv' /\ InOrderOnce'
  <1>1. \A r \in Procs : made[r] \in Nat /\ got[r] \in Nat
    BY DEF TypeOK, HistoryType, ListenerType
  <1>2. \A r \in Procs : got'[r] <= made'[r] /\ (Busy(r)' => got'[r] < made'[r])
    BY <1>1 DEF MessageInv
  <1>3. ASSUME NEW q \in Queues, NEW i \in 1..Len(queue[q])
        PROVE  /\ queue[q][i].n <= made'[queue[q][i].proc]
               /\ Busy(queue[q][i].proc)' => queue[q][i].n < made'[queue[q][i].proc]
    <2> DEFINE m == queue[q][i]
               r == m.proc
    <2>1. r \in Procs /\ m.n \in Nat
      BY MessageAt
    <2>2. m.n <= made[r] /\ (Busy(r) => m.n < made[r])
      BY DEF MessageInv
    <2>3. made[r] \in Nat /\ made'[r] \in Nat
      BY <1>1, <2>1
    <2>4. \/ made'[r] = made[r] /\ (Busy(r)' => Busy(r))
          \/ made'[r] = made[r] + 1
      BY <2>1
    <2> HIDE DEF m, r
    <2>5. m.n <= made'[r] /\ (Busy(r)' => m.n < made'[r])
      BY <2>1, <2>2, <2>3, <2>4
    <2> QED
      BY <2>5 DEF m, r
  <1>4. MessageInv'
    BY <1>2, <1>3 DEF MessageInv
  <1>5. InOrderOnce'
    BY DEF InOrderOnce
  <1> QED
    BY <1>4, <1>5

(* The records of a process keep their order on their way. *)
LEMMA MessageStep ==
  TypeOK /\ TypeOK' /\ LoopInv /\ MessageInv /\ InOrderOnce /\ [Next]_vars
    => MessageInv' /\ InOrderOnce'
  <1> SUFFICES ASSUME TypeOK, TypeOK', LoopInv, MessageInv, InOrderOnce, [Next]_vars
               PROVE  MessageInv' /\ InOrderOnce'
    OBVIOUS
  <1>0. /\ \A r \in Procs : made[r] \in Nat /\ made'[r] \in Nat /\ got[r] \in Nat
        /\ \A q \in Queues : queue[q] \in Seq(Message)
    BY DEF TypeOK, HistoryType, ListenerType, KernelType
  <1>1. ASSUME NEW p \in Procs, UseQueue(p) \/ FtokFails(p) \/ MsgGetFails(p)
        PROVE  MessageInv' /\ InOrderOnce'
    <2>1. UNCHANGED <<queue, message_queue_id, got, live>>
      BY <1>1 DEF UseQueue, FtokFails, MsgGetFails, Start, listener
    <2>2. \A r \in Procs : r # p => made'[r] = made[r] /\ (Busy(r)' => Busy(r))
      BY <1>1, OthersSame DEF Same, Busy
    <2>3. made'[p] = made[p] + 1
      BY <1>1, StartEffect
    <2> QED
      BY <1>0, <2>1, <2>2, <2>3, CalmStep
  <1>2. ASSUME NEW p \in Procs, FindQueue(p) PROVE MessageInv' /\ InOrderOnce'
    <2>1. PICK q \in Queues :
            MsgGet(q) /\ message_queue_id' = [message_queue_id EXCEPT ![p] = q]
      BY <1>2 DEF FindQueue
    <2>2. UNCHANGED <<queue, got>> /\ live \subseteq live'
      BY <1>2, <2>1 DEF FindQueue, Start, listener, MsgGet
    <2>3. /\ \A r \in Procs : r # p => made'[r] = made[r] /\ (Busy(r)' => Busy(r))
          /\ made'[p] = made[p] + 1
      BY <1>2, OthersSame, StartEffect DEF Same, Busy
    <2>4. message_queue_id[p] = NONE /\ NONE \notin Queues
      BY <1>2 DEF FindQueue, LoopInv, Queues, NONE
    <2>5. \A w \in Queues : \A i \in 1..Len(queue[w]) : queue[w][i].proc # p
      BY <2>4 DEF InOrderOnce
    <2>6. \A r \in Procs : r # p => message_queue_id'[r] = message_queue_id[r]
      BY <2>1 DEF TypeOK, ControlType
    <2>7. InOrderOnce'
      BY <2>2, <2>5, <2>6, MessageAt DEF InOrderOnce
    <2>8. MessageInv'
      BY <1>0, <2>2, <2>3, <2>5, MessageAt DEF MessageInv
    <2> QED
      BY <2>7, <2>8
  <1>3. ASSUME NEW p \in Procs, Sent(p) PROVE MessageInv' /\ InOrderOnce'
    <2> DEFINE q == message_queue_id[p]
               m == [proc |-> p, n |-> made[p]]
    <2>1. /\ q \in Queues /\ q \in live /\ m \in Message
          /\ queue' = [queue EXCEPT ![q] = Append(queue[q], m)]
          /\ UNCHANGED <<message_queue_id, got, live, made>>
          /\ pc[p] \in BusyPc /\ pc' = [pc EXCEPT ![p] = "idle"]
      BY <1>3 DEF Sent, Return, BusyPc, Queues, Message, TypeOK, KernelType, HistoryType,
                  listener
    <2>2. /\ pc'[p] \notin BusyPc
          /\ \A r \in Procs : r # p => pc'[r] = pc[r]
      BY <2>1 DEF BusyPc, TypeOK, ControlType
    <2>3. /\ \A w \in Queues : w # q => queue'[w] = queue[w]
          /\ queue'[q] = Append(queue[q], m)
      BY <2>1 DEF TypeOK, KernelType
    <2>4. /\ Len(queue'[q]) = Len(queue[q]) + 1
          /\ Len(queue[q]) \in Nat
          /\ \A i \in 1..Len(queue[q]) : queue'[q][i] = queue[q][i]
          /\ queue'[q][Len(queue[q]) + 1] = m
      BY <1>0, <2>1, <2>3
    <2>5. m.proc = p /\ m.n = made[p]
      OBVIOUS
    <2>6. /\ got[p] < made[p]
          /\ \A i \in 1..Len(queue[q]) : queue[q][i].proc = p => queue[q][i].n < made[p]
      BY <2>1 DEF MessageInv, BusyPc, Busy
    <2> HIDE DEF m
    <2>7. MessageInv'
      <3>1. \A r \in Procs :
              got'[r] <= made'[r] /\ (pc'[r] \in BusyPc => got'[r] < made'[r])
        BY <2>1, <2>2 DEF MessageInv, BusyPc, Busy
      <3>2. ASSUME NEW w \in Queues
            PROVE  /\ w \notin live' => queue'[w] = <<>>
                   /\ \A i \in 1..Len(queue'[w]) :
                        /\ queue'[w][i].n <= made'[queue'[w][i].proc]
                        /\ pc'[queue'[w][i].proc] \in BusyPc
                             => queue'[w][i].n < made'[queue'[w][i].proc]
        <4>1. CASE w # q
          BY <2>1, <2>2, <2>3, <4>1, MessageAt DEF MessageInv, BusyPc, Busy
        <4>2. CASE w = q
          <5>1. ASSUME NEW i \in 1..Len(queue[q])
                PROVE  /\ queue'[q][i].n <= made'[queue'[q][i].proc]
                       /\ pc'[queue'[q][i].proc] \in BusyPc
                            => queue'[q][i].n < made'[queue'[q][i].proc]
            BY <2>1, <2>2, <2>4, MessageAt DEF MessageInv, BusyPc, Busy
          <5>2. m.n <= made'[m.proc] /\ pc'[m.proc] \notin BusyPc
            BY <1>0, <2>1, <2>2, <2>5
          <5>3. ASSUME NEW i \in 1..Len(queue'[q])
                PROVE  /\ queue'[q][i].n <= made'[queue'[q][i].proc]
                       /\ pc'[queue'[q][i].proc] \in BusyPc
                            => queue'[q][i].n < made'[queue'[q][i].proc]
            <6>1. CASE i \in 1..Len(queue[q])
              BY <5>1, <6>1
            <6>2. CASE i = Len(queue[q]) + 1
              BY <2>4, <5>2, <6>2
            <6> QED
              BY <2>4, <6>1, <6>2
          <5> QED
            BY <2>1, <4>2, <5>3
        <4> QED
          BY <4>1, <4>2
      <3> QED
        BY <3>1, <3>2 DEF MessageInv, BusyPc, Busy
    <2>8. InOrderOnce'
      <3> SUFFICES ASSUME NEW w \in Queues, NEW i \in 1..Len(queue'[w])
                   PROVE  /\ message_queue_id'[queue'[w][i].proc] = w
                          /\ got'[queue'[w][i].proc] < queue'[w][i].n
                          /\ \A j \in 1..Len(queue'[w]) :
                               i < j /\ queue'[w][j].proc = queue'[w][i].proc
                                 => queue'[w][i].n < queue'[w][j].n
        BY DEF InOrderOnce
      <3>1. CASE w # q
        BY <2>1, <2>3, <3>1 DEF InOrderOnce
      <3>2. CASE w = q /\ i \in 1..Len(queue[q])
        BY <2>1, <2>4, <2>5, <2>6, <3>2 DEF InOrderOnce
      <3>3. CASE w = q /\ i = Len(queue[q]) + 1
        BY <2>1, <2>4, <2>5, <2>6, <3>3
      <3> QED
        BY <2>4, <3>1, <3>2, <3>3
    <2> QED
      BY <2>7, <2>8
  <1>4. ASSUME NEW p \in Procs,
               QueueGone(p) \/ QueueFull(p) \/ TryAgain(p) \/ Exhausted(p) \/ Die(p)
        PROVE  MessageInv' /\ InOrderOnce'
    <2>1. UNCHANGED <<queue, message_queue_id, got, live, made>>
      BY <1>4 DEF QueueGone, QueueFull, TryAgain, Exhausted, CountRetry, Die, kernel,
                  listener
    <2>2. \A r \in Procs : r # p => (Busy(r)' => Busy(r))
      BY <1>4, OthersSame DEF Same, Busy, Step
    <2>3. Busy(p)' => Busy(p)
      BY <1>4 DEF QueueGone, QueueFull, TryAgain, Exhausted, CountRetry, Die, Return,
                  Busy, TypeOK, ControlType
    <2> QED
      BY <1>0, <2>1, <2>2, <2>3, CalmStep
  <1>5. CASE Receive
    <2> DEFINE q == listener_id
               m == Head(queue[q])
    <2>1. /\ q \in Queues /\ queue[q] # <<>> /\ q \in live
          /\ queue' = [queue EXCEPT ![q] = Tail(queue[q])]
          /\ got' = [got EXCEPT ![m.proc] = m.n]
          /\ UNCHANGED <<message_queue_id, live, made, pc>>
      BY <1>5 DEF Receive, sender, TypeOK, KernelType, Queues
    <2>2. /\ \A w \in Queues : w # q => queue'[w] = queue[w]
          /\ queue'[q] = Tail(queue[q])
      BY <2>1 DEF TypeOK, KernelType
    <2>3. /\ Len(queue[q]) \in Nat \ {0}
          /\ Len(queue'[q]) = Len(queue[q]) - 1
          /\ \A i \in 1..Len(queue'[q]) : queue'[q][i] = queue[q][i + 1]
          /\ m = queue[q][1] /\ 1 \in 1..Len(queue[q])
      <3>1. queue[q] \in Seq(Message) /\ queue[q] # <<>>
        BY <1>0, <2>1
      <3>2. /\ Len(queue[q]) \in Nat \ {0} /\ 1 \in 1..Len(queue[q])
            /\ Len(Tail(queue[q])) = Len(queue[q]) - 1
            /\ \A i \in 1..Len(Tail(queue[q])) : Tail(queue[q])[i] = queue[q][i + 1]
            /\ Head(queue[q]) = queue[q][1]
        BY <3>1, TailFacts, Zenon
      <3> QED
        BY <2>2, <3>2, Zenon
    <2>4. /\ m.proc \in Procs /\ m.n \in Nat
          /\ m.n <= made[m.proc] /\ (pc[m.proc] \in BusyPc => m.n < made[m.proc])
          /\ message_queue_id[m.proc] = q
      BY <2>1, <2>3, MessageAt DEF MessageInv, InOrderOnce, BusyPc, Busy
    <2>5. /\ \A r \in Procs : r # m.proc => got'[r] = got[r]
          /\ got'[m.proc] = m.n
      BY <2>1, <2>4 DEF TypeOK, ListenerType
    <2> HIDE DEF m
    <2>7. MessageInv'
      <3>1. \A r \in Procs :
              got'[r] <= made'[r] /\ (pc'[r] \in BusyPc => got'[r] < made'[r])
        BY <2>1, <2>4, <2>5 DEF MessageInv, BusyPc, Busy
      <3>2. ASSUME NEW w \in Queues
            PROVE  /\ w \notin live' => queue'[w] = <<>>
                   /\ \A i \in 1..Len(queue'[w]) :
                        /\ queue'[w][i].n <= made'[queue'[w][i].proc]
                        /\ pc'[queue'[w][i].proc] \in BusyPc
                             => queue'[w][i].n < made'[queue'[w][i].proc]
        <4>1. CASE w # q
          BY <2>1, <2>2, <4>1, MessageAt DEF MessageInv, BusyPc, Busy
        <4>2. CASE w = q
          <5>1. ASSUME NEW i \in 1..Len(queue'[q])
                PROVE  i + 1 \in 1..Len(queue[q]) /\ queue'[q][i] = queue[q][i + 1]
            BY <2>3
          <5> QED
            BY <2>1, <4>2, <5>1, MessageAt DEF MessageInv, BusyPc, Busy
        <4> QED
          BY <4>1, <4>2
      <3> QED
        BY <3>1, <3>2 DEF MessageInv, BusyPc, Busy
    <2>8. InOrderOnce'
      <3> SUFFICES ASSUME NEW w \in Queues, NEW i \in 1..Len(queue'[w])
                   PROVE  /\ message_queue_id'[queue'[w][i].proc] = w
                          /\ got'[queue'[w][i].proc] < queue'[w][i].n
                          /\ \A j \in 1..Len(queue'[w]) :
                               i < j /\ queue'[w][j].proc = queue'[w][i].proc
                                 => queue'[w][i].n < queue'[w][j].n
        BY DEF InOrderOnce
      <3>1. CASE w # q
        <4>1. queue'[w] = queue[w] /\ i \in 1..Len(queue[w])
          BY <2>2, <3>1
        <4>2. queue[w][i].proc # m.proc
          BY <2>4, <3>1, <4>1 DEF InOrderOnce
        <4>3. got'[queue[w][i].proc] = got[queue[w][i].proc]
          BY <2>5, <4>1, <4>2, MessageAt
        <4>4. /\ message_queue_id[queue[w][i].proc] = w
              /\ got[queue[w][i].proc] < queue[w][i].n
              /\ \A j \in 1..Len(queue[w]) :
                   i < j /\ queue[w][j].proc = queue[w][i].proc
                     => queue[w][i].n < queue[w][j].n
          BY <4>1, OrderAt, Zenon
        <4> QED
          BY <2>1, <4>1, <4>3, <4>4
      <3>2. CASE w = q
        <4>1. /\ i + 1 \in 2..Len(queue[q]) /\ queue'[q][i] = queue[q][i + 1]
              /\ queue'[q][i].proc \in Procs
          <5>1. i \in 1..Len(queue'[q])
            BY <3>2
          <5>2. queue'[q][i] = queue[q][i + 1]
            BY <2>3, <5>1
          <5>3. i + 1 \in 2..Len(queue[q]) /\ i + 1 \in 1..Len(queue[q])
            BY <2>3, <5>1
          <5>4. queue[q][i + 1].proc \in Procs
            BY <2>1, <5>3, MessageAt
          <5> QED
            BY <5>2, <5>3, <5>4
        <4>2. queue[q][i + 1].proc = m.proc => m.n < queue[q][i + 1].n
          BY <2>1, <2>3, <4>1, OrderAt
        <4>3. got'[queue'[q][i].proc] < queue'[q][i].n
          <5>1. i + 1 \in 1..Len(queue[q])
            BY <4>1, <2>3
          <5> QED
            BY <2>1, <2>5, <4>1, <4>2, <5>1, OrderAt
        <4>4. ASSUME NEW j \in 1..Len(queue'[q]), i < j,
                     queue'[q][j].proc = queue'[q][i].proc
              PROVE  queue'[q][i].n < queue'[q][j].n
          <5>1. j + 1 \in 1..Len(queue[q]) /\ queue'[q][j] = queue[q][j + 1]
            BY <2>3
          <5>2. i \in Int /\ i + 1 < j + 1
            BY <3>2, <4>4, <2>3
          <5> QED
            BY <2>1, <4>1, <4>4, <5>1, <5>2, OrderAt
        <4>5. message_queue_id'[queue'[q][i].proc] = q
          <5>1. i + 1 \in 1..Len(queue[q])
            BY <4>1, <2>3
          <5> QED
            BY <2>1, <4>1, <5>1, OrderAt
        <4> QED
          BY <3>2, <4>3, <4>4, <4>5
      <3> QED
        BY <3>1, <3>2
    <2> QED
      BY <2>7, <2>8
  <1>6. ASSUME NEW q \in Queues, RemoveQueue(q) PROVE MessageInv' /\ InOrderOnce'
    <2>1. /\ queue'[q] = <<>> /\ live' = live \ {q}
          /\ \A w \in Queues : w # q => queue'[w] = queue[w]
          /\ UNCHANGED <<message_queue_id, got, made, pc>>
      BY <1>6 DEF RemoveQueue, sender, listener, TypeOK, KernelType
    <2>2. MessageInv'
      BY <2>1 DEF MessageInv, Busy
    <2>3. InOrderOnce'
      BY <2>1 DEF InOrderOnce
    <2> QED
      BY <2>2, <2>3
  <1>7. CASE ListenerStart \/ RemoveFile \/ TouchFile \/ ListenerStop \/ ChainReturns \/ UNCHANGED vars
    <2>1. UNCHANGED <<queue, message_queue_id, got, made, pc>> /\ live \subseteq live'
      BY <1>7 DEF ListenerStart, MsgGet, RemoveFile, TouchFile, ListenerStop, ChainReturns, vars,
                  kernel, sender, listener
    <2> QED
      BY <1>0, <2>1, CalmStep DEF Busy
  <1> QED
    BY <1>1, <1>2, <1>3, <1>4, <1>5, <1>6, <1>7 DEF Next, Step, Environment

(* The inductive invariant of the IPC. *)
THEOREM Invariance == Spec => []IInv
  <1>1. IInv /\ [Next]_vars => IInv'
    <2> SUFFICES ASSUME IInv, [Next]_vars PROVE IInv'
      OBVIOUS
    <2>1. TypeOK'
      BY TypeStep DEF IInv
    <2> QED
      BY <2>1, LoopStep, IdStep, AccountStep, CostStep, MessageStep DEF IInv
  <1> QED
    BY InitInv, <1>1, PTL DEF Spec

(* Every variable of the IPC keeps its type. *)
THEOREM TypeCorrect == Spec => []TypeOK
  BY Invariance, PTL DEF IInv

(* The counters that fini() reports account for every record. *)
THEOREM AccountingCorrect == Spec => []Accounting
  BY Invariance, PTL DEF IInv

(* The time lost to a full queue is at most 31744 microseconds a record. *)
THEOREM RetryCostCorrect == Spec => []RetryCost
  BY Invariance, PTL DEF IInv

(* The records of every process are read in order and once. *)
THEOREM InOrderCorrect == Spec => []InOrderOnce
  BY Invariance, PTL DEF IInv

(* Processes and listener meet in one queue while nothing is removed. *)
THEOREM RendezvousCorrect == Spec => []Rendezvous
  <1>1. ASSUME IInv PROVE Rendezvous
    <2> SUFFICES ASSUME ~disturbed PROVE Rendezvous
      BY DEF Rendezvous
    <2>1. created <= 1
      BY <1>1 DEF IInv, IdInv
    <2>2. listener_id \in Nat /\ \A p \in Procs : message_queue_id[p] \in Nat
      BY <1>1 DEF IInv, TypeOK, ControlType, ListenerType
    <2>3. created \in Nat
      BY <1>1 DEF IInv, TypeOK, KernelType
    <2>4. /\ listener_id \in {0, 1}
          /\ \A p \in Procs : message_queue_id[p] \in {0, 1}
      BY <1>1, <2>1, <2>2, <2>3 DEF IInv, IdInv
    <2> QED
      BY <2>4 DEF Rendezvous, NONE
  <1> QED
    BY Invariance, <1>1, PTL

-----------------------------------------------------------------------------
(* The records of process p that wait in any queue. *)
In(p, n) ==
  \E q \in Queues : \E i \in 1..Len(queue[q]) :
    queue[q][i].proc = p /\ queue[q][i].n = n

WaitingIsIn == \A p \in Procs : Waiting(p) = {n \in Nat : In(p, n)}

(* They all wait in the queue the process looked up. *)
LEMMA WaitingIn == TypeOK /\ InOrderOnce => WaitingIsIn
  <1> SUFFICES ASSUME TypeOK, InOrderOnce, NEW p \in Procs
               PROVE  Waiting(p) = {n \in Nat : In(p, n)}
    BY DEF WaitingIsIn
  <1>1. ASSUME NEW n \in Waiting(p) PROVE n \in Nat /\ In(p, n)
    <2>1. message_queue_id[p] \in Queues
      BY <1>1 DEF Waiting, TypeOK, ControlType, Queues, NONE
    <2>2. PICK i \in 1..Len(queue[message_queue_id[p]]) :
            /\ queue[message_queue_id[p]][i].proc = p
            /\ queue[message_queue_id[p]][i].n = n
      BY <1>1, <2>1 DEF Waiting
    <2> QED
      BY <2>1, <2>2, MessageAt DEF In
  <1>2. ASSUME NEW n \in Nat, In(p, n) PROVE n \in Waiting(p)
    <2>1. PICK q \in Queues : \E i \in 1..Len(queue[q]) :
            queue[q][i].proc = p /\ queue[q][i].n = n
      BY <1>2 DEF In
    <2>2. PICK i \in 1..Len(queue[q]) : queue[q][i].proc = p /\ queue[q][i].n = n
      BY <2>1
    <2>3. message_queue_id[p] = q /\ q # NONE
      BY <2>2, OrderAt DEF Queues, NONE
    <2> QED
      BY <2>2, <2>3 DEF Waiting
  <1> QED
    BY <1>1, <1>2

(* The same, one step later. *)
LEMMA WaitingInNext == (TypeOK /\ InOrderOnce)' => WaitingIsIn'
  BY WaitingIn, PTL

(* Where no queue changes, nothing starts or stops to wait. *)
LEMMA NoneMoves ==
  ASSUME WaitingIsIn, WaitingIsIn', UNCHANGED queue
  PROVE  UNCHANGED [p \in Procs |-> Waiting(p)]
  <1>1. \A p \in Procs : \A n \in Nat : In(p, n)' <=> In(p, n)
    BY DEF In
  <1>2. \A p \in Procs : Waiting(p)' = Waiting(p)
    BY <1>1 DEF WaitingIsIn
  <1> QED
    BY <1>2

(* A step that starts a record is an Offer. *)
LEMMA StartIsOffer ==
  ASSUME TypeOK, NEW p \in Procs,
         UseQueue(p) \/ FtokFails(p) \/ MsgGetFails(p) \/ FindQueue(p),
         UNCHANGED [r \in Procs |-> Waiting(r)]
  PROVE  Fifo!Offer(p)
  <1>1. /\ ~Busy(p)
        /\ got' = got
        /\ made' = [made EXCEPT ![p] = @ + 1]
    BY DEF UseQueue, FtokFails, MsgGetFails, FindQueue, Start, Busy, listener
  <1>2. \A r \in Procs : r # p => pc'[r] = pc[r]
    BY OthersSame DEF Same
  <1>3. \A r \in Procs : r # p => (Busy(r)' <=> Busy(r))
    BY <1>2 DEF Busy
  <1>4. {r \in Procs : Busy(r)}'
          \in {{r \in Procs : Busy(r)}, {r \in Procs : Busy(r)} \cup {p}}
    <2>1. CASE Busy(p)'
      BY <1>3, <2>1
    <2>2. CASE ~Busy(p)'
      BY <1>1, <1>3, <2>2
    <2> QED
      BY <2>1, <2>2
  <1> QED
    BY <1>1, <1>4 DEF Fifo!Offer

(* A process leaves the loop of send_msg_queue(). *)
LEMMA NoLongerBusy ==
  ASSUME NEW p \in Procs, ~Busy(p)', \A r \in Procs : r # p => pc'[r] = pc[r]
  PROVE  {r \in Procs : Busy(r)}' = {r \in Procs : Busy(r)} \ {p}
  <1>1. \A r \in Procs : r # p => (Busy(r)' <=> Busy(r))
    BY DEF Busy
  <1> QED
    BY <1>1

(* A successful msgsnd() is an Accept. *)
LEMMA SentIsAccept ==
  ASSUME TypeOK, LoopInv, WaitingIsIn, WaitingIsIn', NEW p \in Procs, Sent(p)
  PROVE  Fifo!Accept(p)
  <1> DEFINE q == message_queue_id[p]
             m == [proc |-> p, n |-> made[p]]
  <1>0. q \in Queues /\ m \in Message
    BY DEF Sent, TypeOK, KernelType, ControlType, HistoryType, Queues, Message
  <1>1. /\ q \in Queues /\ Busy(p) /\ m \in Message
        /\ queue' = [queue EXCEPT ![q] = Append(queue[q], m)]
        /\ made' = made /\ got' = got
    BY <1>0 DEF Sent, Busy, listener
  <1>2. /\ \A w \in Queues : w # q => queue'[w] = queue[w]
        /\ queue'[q] = Append(queue[q], m)
        /\ queue[q] \in Seq(Message)
    BY <1>1 DEF TypeOK, KernelType
  <1>3. /\ Len(queue'[q]) = Len(queue[q]) + 1
        /\ Len(queue[q]) \in Nat
        /\ \A i \in 1..Len(queue[q]) : queue'[q][i] = queue[q][i]
        /\ queue'[q][Len(queue[q]) + 1] = m
    BY <1>1, <1>2
  <1>4. m.proc = p /\ m.n = made[p] /\ made[p] \in Nat
    BY DEF TypeOK, HistoryType
  <1> HIDE DEF m
  <1>5. ASSUME NEW r \in Procs, NEW n \in Nat
        PROVE  In(r, n)' <=> In(r, n) \/ (r = p /\ n = made[p])
    <2>1. ASSUME In(r, n) PROVE In(r, n)'
      <3>1. PICK w \in Queues : \E i \in 1..Len(queue[w]) :
              queue[w][i].proc = r /\ queue[w][i].n = n
        BY <2>1 DEF In
      <3> QED
        BY <1>1, <1>2, <1>3, <3>1 DEF In
    <2>2. ASSUME r = p, n = made[p] PROVE In(r, n)'
      BY <1>1, <1>3, <1>4, <2>2 DEF In
    <2>3. ASSUME In(r, n)', ~(r = p /\ n = made[p]) PROVE In(r, n)
      <3>1. PICK w \in Queues : \E i \in 1..Len(queue'[w]) :
              queue'[w][i].proc = r /\ queue'[w][i].n = n
        BY <2>3 DEF In
      <3>2. PICK i \in 1..Len(queue'[w]) :
              queue'[w][i].proc = r /\ queue'[w][i].n = n
        BY <3>1
      <3>3. i \in 1..Len(queue[w]) /\ queue'[w][i] = queue[w][i]
        <4>1. CASE w # q
          BY <1>2, <4>1
        <4>2. CASE w = q
          <5>1. i # Len(queue[q]) + 1
            BY <1>3, <1>4, <2>3, <3>2, <4>2
          <5> QED
            BY <1>3, <4>2, <5>1
        <4> QED
          BY <4>1, <4>2
      <3> QED
        BY <3>2, <3>3 DEF In
    <2> QED
      BY <2>1, <2>2, <2>3
  <1>6. /\ \A r \in Procs : r # p => Waiting(r)' = Waiting(r)
        /\ Waiting(p)' = Waiting(p) \cup {made[p]}
    BY <1>4, <1>5 DEF WaitingIsIn
  <1>7. [r \in Procs |-> Waiting(r)]'
          = [[r \in Procs |-> Waiting(r)] EXCEPT ![p] = @ \cup {made[p]}]
    BY <1>6
  <1>8. {r \in Procs : Busy(r)}' = {r \in Procs : Busy(r)} \ {p}
    <2>1. /\ \A r \in Procs : r # p => pc'[r] = pc[r]
          /\ pc'[p] = "idle"
      BY DEF Sent, Return, TypeOK, ControlType
    <2> QED
      BY <2>1, NoLongerBusy DEF Busy
  <1> QED
    BY <1>1, <1>7, <1>8 DEF Fifo!Accept

(* Every other end of a send is a GiveUp, and every other step of the loop *)
(* changes nothing that the channel shows.                                 *)
LEMMA LoopIsGiveUp ==
  ASSUME TypeOK, NEW p \in Procs,
         QueueGone(p) \/ QueueFull(p) \/ TryAgain(p) \/ Exhausted(p) \/ Die(p),
         UNCHANGED [r \in Procs |-> Waiting(r)]
  PROVE  Fifo!GiveUp(p) \/ UNCHANGED Fifo!avars
  <1>1. made' = made /\ got' = got
    BY DEF QueueGone, QueueFull, TryAgain, Exhausted, CountRetry, Die, listener
  <1>2. /\ \A r \in Procs : r # p => pc'[r] = pc[r]
        /\ pc'[p] \in {"msgsnd", "usleep"} => pc[p] \in {"msgsnd", "usleep"}
    BY DEF QueueGone, QueueFull, TryAgain, Exhausted, CountRetry, Die, Return, TypeOK,
           ControlType
  <1>3. CASE Busy(p)' <=> Busy(p)
    <2>1. {r \in Procs : Busy(r)}' = {r \in Procs : Busy(r)}
      BY <1>2, <1>3 DEF Busy
    <2> QED
      BY <1>1, <2>1 DEF Fifo!avars
  <1>4. CASE Busy(p) /\ ~Busy(p)'
    <2>1. {r \in Procs : Busy(r)}' = {r \in Procs : Busy(r)} \ {p}
      BY <1>2, <1>4, NoLongerBusy
    <2> QED
      BY <1>1, <1>4, <2>1 DEF Fifo!GiveUp
  <1> QED
    BY <1>2, <1>3, <1>4 DEF Busy

(* Reading the head of a queue delivers the oldest record of its process. *)
LEMMA ReceiveIsDeliver ==
  ASSUME TypeOK, InOrderOnce, WaitingIsIn, WaitingIsIn', Receive
  PROVE  \E p \in Procs : Fifo!Deliver(p)
  <1> DEFINE q == listener_id
             m == Head(queue[q])
             p == m.proc
  <1>1. /\ q \in Queues /\ queue[q] # <<>> /\ queue[q] \in Seq(Message)
        /\ queue' = [queue EXCEPT ![q] = Tail(queue[q])]
        /\ got' = [got EXCEPT ![p] = m.n]
        /\ UNCHANGED <<made, pc>>
    BY DEF Receive, sender, TypeOK, KernelType, Queues
  <1>2. /\ \A w \in Queues : w # q => queue'[w] = queue[w]
        /\ queue'[q] = Tail(queue[q])
    BY <1>1 DEF TypeOK, KernelType
  <1>3. /\ Len(queue[q]) \in Nat \ {0} /\ 1 \in 1..Len(queue[q])
        /\ Len(Tail(queue[q])) = Len(queue[q]) - 1
        /\ \A i \in 1..Len(Tail(queue[q])) : Tail(queue[q])[i] = queue[q][i + 1]
        /\ Head(queue[q]) = queue[q][1]
    BY <1>1, TailFacts, Zenon
  <1>4. p \in Procs /\ m.n \in Nat /\ m = queue[q][1] /\ p = m.proc
    BY <1>1, <1>3, MessageAt
  <1>5. \A w \in Queues : \A i \in 1..Len(queue[w]) :
          queue[w][i].proc = p => w = q /\ (i = 1 \/ m.n < queue[w][i].n)
    BY <1>1, <1>3, <1>4, OrderAt
  <1> HIDE DEF m, p
  <1>6. m.n \in Waiting(p) /\ \A n \in Waiting(p) : m.n <= n
    <2>1. In(p, m.n)
      BY <1>1, <1>3, <1>4 DEF In
    <2>2. \A n \in Nat : In(p, n) => m.n <= n
      BY <1>4, <1>5 DEF In
    <2> QED
      BY <1>4, <2>1, <2>2 DEF WaitingIsIn
  <1>7. ASSUME NEW r \in Procs, NEW n \in Nat
        PROVE  In(r, n)' <=> In(r, n) /\ ~(r = p /\ n = m.n)
    <2>1. ASSUME In(r, n)' PROVE In(r, n) /\ ~(r = p /\ n = m.n)
      <3>1. PICK w \in Queues : \E i \in 1..Len(queue'[w]) :
              queue'[w][i].proc = r /\ queue'[w][i].n = n
        BY <2>1 DEF In
      <3>2. PICK i \in 1..Len(queue'[w]) :
              queue'[w][i].proc = r /\ queue'[w][i].n = n
        BY <3>1
      <3>3. CASE w # q
        <4>1. i \in 1..Len(queue[w]) /\ queue'[w][i] = queue[w][i]
          BY <1>2, <3>3
        <4> QED
          BY <1>5, <3>2, <3>3, <4>1 DEF In
      <3>4. CASE w = q
        <4>1. i + 1 \in 1..Len(queue[q]) /\ i + 1 # 1 /\ queue'[w][i] = queue[q][i + 1]
          <5>1. queue'[w] = Tail(queue[q])
            BY <1>2, <3>4
          <5>2. i \in 1..Len(Tail(queue[q]))
            BY <5>1
          <5>3. Tail(queue[q])[i] = queue[q][i + 1]
            BY <1>3, <5>2, Zenon
          <5>4. i \in Nat /\ i >= 1 /\ i <= Len(queue[q]) - 1
            BY <1>3, <5>2
          <5> QED
            BY <1>3, <5>1, <5>3, <5>4
        <4>2. r = p => m.n < queue[q][i + 1].n
          BY <1>1, <1>5, <3>2, <4>1
        <4>3. queue[q][i + 1].proc = r /\ queue[q][i + 1].n = n
          BY <3>2, <3>4, <4>1
        <4>4. In(r, n)
          BY <1>1, <4>1, <4>3 DEF In
        <4>5. ~(r = p /\ n = m.n)
          BY <1>4, <4>2, <4>3
        <4> QED
          BY <4>4, <4>5
      <3> QED
        BY <3>3, <3>4
    <2>2. ASSUME In(r, n), ~(r = p /\ n = m.n) PROVE In(r, n)'
      <3>1. PICK w \in Queues : \E i \in 1..Len(queue[w]) :
              queue[w][i].proc = r /\ queue[w][i].n = n
        BY <2>2 DEF In
      <3>2. PICK i \in 1..Len(queue[w]) :
              queue[w][i].proc = r /\ queue[w][i].n = n
        BY <3>1
      <3>3. CASE w # q
        BY <1>2, <3>2, <3>3 DEF In
      <3>4. CASE w = q
        <4>1. i # 1
          BY <1>4, <2>2, <3>2, <3>4
        <4>2. i - 1 \in 1..Len(queue'[q]) /\ queue'[q][i - 1] = queue[q][i]
          BY <1>2, <1>3, <3>4, <4>1
        <4> QED
          BY <1>1, <3>2, <3>4, <4>2 DEF In
      <3> QED
        BY <3>3, <3>4
    <2> QED
      BY <2>1, <2>2
  <1>8. \A r \in Procs : Waiting(r)' = IF r = p THEN Waiting(r) \ {m.n} ELSE Waiting(r)
    <2> SUFFICES ASSUME NEW r \in Procs
                 PROVE  Waiting(r)' = IF r = p THEN Waiting(r) \ {m.n} ELSE Waiting(r)
      OBVIOUS
    <2>1. \A n \in Nat : In(r, n)' <=> In(r, n) /\ ~(r = p /\ n = m.n)
      BY <1>7
    <2>2. Waiting(r)' = {n \in Nat : In(r, n)'} /\ Waiting(r) = {n \in Nat : In(r, n)}
      BY DEF WaitingIsIn
    <2>3. CASE r = p
      BY <2>1, <2>2, <2>3
    <2>4. CASE r # p
      BY <2>1, <2>2, <2>4
    <2> QED
      BY <2>3, <2>4
  <1>9. [r \in Procs |-> Waiting(r)]'
          = [[r \in Procs |-> Waiting(r)] EXCEPT ![p] = Waiting(p) \ {m.n}]
    BY <1>4, <1>8
  <1>10. {r \in Procs : Busy(r)}' = {r \in Procs : Busy(r)}
    BY <1>1 DEF Busy
  <1> QED
    BY <1>1, <1>4, <1>6, <1>9, <1>10 DEF Fifo!Deliver

(* Removing a queue flushes the processes that looked it up. *)
LEMMA RemoveIsFlush ==
  ASSUME TypeOK, InOrderOnce, WaitingIsIn, WaitingIsIn',
         NEW q \in Queues, RemoveQueue(q)
  PROVE  \E ps \in SUBSET Procs : Fifo!Flush(ps)
  <1> DEFINE ps == {r \in Procs : message_queue_id[r] = q}
  <1>1. /\ queue'[q] = <<>>
        /\ \A w \in Queues : w # q => queue'[w] = queue[w]
        /\ UNCHANGED <<made, pc, got>>
    BY DEF RemoveQueue, sender, listener, TypeOK, KernelType
  <1>2. ASSUME NEW r \in Procs, NEW n \in Nat
        PROVE  In(r, n)' <=> In(r, n) /\ r \notin ps
    <2>1. \A w \in Queues : \A i \in 1..Len(queue[w]) :
            queue[w][i].proc = r => message_queue_id[r] = w
      BY OrderAt
    <2>2. 1..Len(queue'[q]) = {}
      BY <1>1
    <2>3. ASSUME In(r, n)' PROVE In(r, n) /\ r \notin ps
      <3>1. PICK w \in Queues : \E i \in 1..Len(queue'[w]) :
                                  queue'[w][i].proc = r /\ queue'[w][i].n = n
        BY <2>3 DEF In
      <3>2. w # q /\ queue'[w] = queue[w]
        BY <1>1, <2>2, <3>1
      <3> QED
        BY <2>1, <3>1, <3>2 DEF In
    <2>4. ASSUME In(r, n), r \notin ps PROVE In(r, n)'
      <3>1. PICK w \in Queues : \E i \in 1..Len(queue[w]) :
                                  queue[w][i].proc = r /\ queue[w][i].n = n
        BY <2>4 DEF In
      <3>2. w # q /\ queue'[w] = queue[w]
        BY <1>1, <2>1, <2>4, <3>1
      <3> QED
        BY <3>1, <3>2 DEF In
    <2> QED
      BY <2>3, <2>4
  <1>3. \A r \in Procs : Waiting(r)' = IF r \in ps THEN {} ELSE Waiting(r)
    BY <1>2 DEF WaitingIsIn
  <1>4. {r \in Procs : Busy(r)}' = {r \in Procs : Busy(r)}
    BY <1>1 DEF Busy
  <1>5. ps \in SUBSET Procs
    OBVIOUS
  <1> HIDE DEF ps
  <1>6. Fifo!Flush(ps)
    BY <1>1, <1>3, <1>4 DEF Fifo!Flush
  <1> QED
    BY <1>5, <1>6

(* The message queue implements the lossy FIFO channel. *)
THEOREM Refinement == Spec => IsLossyFifo
  <1>1. Init => Fifo!AInit
    <2> SUFFICES ASSUME Init PROVE Fifo!AInit
      OBVIOUS
    <2>1. \A p \in Procs : Waiting(p) = {}
      BY DEF Init, Zero, Waiting, NONE
    <2>2. {p \in Procs : Busy(p)} = {}
      BY DEF Init, Busy
    <2>3. [p \in Procs |-> Waiting(p)] = [p \in Procs |-> {}]
      BY <2>1
    <2> QED
      BY <2>2, <2>3 DEF Fifo!AInit, Init, Zero
  <1>2. IInv /\ IInv' /\ [Next]_vars => [Fifo!ANext]_Fifo!avars
    <2> SUFFICES ASSUME IInv, IInv', [Next]_vars
                 PROVE  [Fifo!ANext]_Fifo!avars
      OBVIOUS
    <2>1. /\ TypeOK /\ LoopInv /\ InOrderOnce
          /\ WaitingIsIn /\ WaitingIsIn'
      BY WaitingIn, WaitingInNext DEF IInv
    <2>2. UNCHANGED queue => UNCHANGED [p \in Procs |-> Waiting(p)]
      BY <2>1, NoneMoves
    <2>3. ASSUME NEW p \in Procs,
                 UseQueue(p) \/ FtokFails(p) \/ MsgGetFails(p) \/ FindQueue(p)
          PROVE  Fifo!ANext
      <3>1. UNCHANGED queue
        BY <2>3 DEF UseQueue, FtokFails, MsgGetFails, FindQueue, Start
      <3> QED
        BY <2>1, <2>2, <2>3, <3>1, StartIsOffer DEF Fifo!ANext
    <2>4. ASSUME NEW p \in Procs, Sent(p) PROVE Fifo!ANext
      BY <2>1, <2>4, SentIsAccept DEF Fifo!ANext
    <2>5. ASSUME NEW p \in Procs,
                 QueueGone(p) \/ QueueFull(p) \/ TryAgain(p) \/ Exhausted(p) \/ Die(p)
          PROVE  [Fifo!ANext]_Fifo!avars
      <3>1. UNCHANGED queue
        BY <2>5 DEF QueueGone, QueueFull, TryAgain, Exhausted, CountRetry, Die, kernel
      <3> QED
        BY <2>1, <2>2, <2>5, <3>1, LoopIsGiveUp DEF Fifo!ANext
    <2>6. CASE Receive
      BY <2>1, <2>6, ReceiveIsDeliver DEF Fifo!ANext
    <2>7. ASSUME NEW q \in Queues, RemoveQueue(q) PROVE Fifo!ANext
      BY <2>1, <2>7, RemoveIsFlush DEF Fifo!ANext
    <2>8. CASE ListenerStart \/ RemoveFile \/ TouchFile \/ ListenerStop \/ ChainReturns \/ UNCHANGED vars
      <3>1. UNCHANGED <<queue, made, pc, got>>
        BY <2>8 DEF ListenerStart, RemoveFile, TouchFile, ListenerStop, ChainReturns, vars, kernel,
                    sender, listener
      <3>2. {p \in Procs : Busy(p)}' = {p \in Procs : Busy(p)}
        BY <3>1 DEF Busy
      <3> QED
        BY <2>2, <3>1, <3>2 DEF Fifo!avars
    <2> QED
      BY <2>3, <2>4, <2>5, <2>6, <2>7, <2>8 DEF Next, Step, Environment
  <1> QED
    BY Invariance, <1>1, <1>2, PTL DEF Spec, IsLossyFifo, Fifo!ASpec

-----------------------------------------------------------------------------
(* What is safety in the two liveness properties of the IPC. *)

(* How many more calls of msgsnd() and usleep() a send makes at most. *)
CallsLeft(p) == 2 * (MaxRetries - retries[p]) + IF pc[p] = "usleep" THEN 1 ELSE 0

(* A process inside send_msg_queue() is at most ten calls from its end,    *)
(* each of its own steps brings it closer, and nothing that the other      *)
(* processes, the listener or the removal of queues do sets it back.       *)
SendShrinks ==
  [][\A p \in Procs : Busy(p) =>
       /\ CallsLeft(p) \in 1..10
       /\ \/ ~Busy(p)'
          \/ pc'[p] = pc[p] /\ CallsLeft(p)' = CallsLeft(p)
          \/ pc'[p] # pc[p] /\ CallsLeft(p)' < CallsLeft(p)]_vars

(* Every call of send_msg_queue() ends after ten steps of its process at   *)
(* most, however full the queue and whoever empties it: the application    *)
(* is never held up by others.                                             *)
THEOREM SendIsBounded == Spec => SendShrinks
  <1> DEFINE A(p) == Busy(p) =>
                       /\ CallsLeft(p) \in 1..10
                       /\ \/ ~Busy(p)'
                          \/ pc'[p] = pc[p] /\ CallsLeft(p)' = CallsLeft(p)
                          \/ pc'[p] # pc[p] /\ CallsLeft(p)' < CallsLeft(p)
  <1>1. ASSUME IInv, [Next]_vars, NEW r \in Procs PROVE A(r)
    <2> SUFFICES ASSUME Busy(r) PROVE A(r)
      OBVIOUS
    <2>0. TypeOK /\ LoopInv
      BY <1>1 DEF IInv
    <2> USE Numbers DEF Busy, CallsLeft, MaxRetries
    <2>1. CallsLeft(r) \in 1..10
      BY <2>0 DEF LoopInv
    <2>2. CASE UseQueue(r) \/ FtokFails(r) \/ MsgGetFails(r) \/ FindQueue(r)
      BY <2>0, <2>2, StartEffect
    <2>3. CASE Sent(r) \/ QueueGone(r)
      BY <2>0, <2>1, <2>3, MsgSndEffect
    <2>4. CASE TryAgain(r) \/ Exhausted(r)
      BY <2>0, <2>1, <2>4, SleepEffect
    <2>5. CASE QueueFull(r) \/ Die(r)
      BY <2>0, <2>1, <2>5, MoveEffect
    <2>6. CASE Same(r)
      BY <2>1, <2>6 DEF Same
    <2>7. CASE UNCHANGED sender
      BY <2>1, <2>7 DEF sender
    <2> QED
      BY <1>1, <2>0, <2>2, <2>3, <2>4, <2>5, <2>6, <2>7, QuietSteps, OthersSame
         DEF Next, Step
  <1>2. IInv /\ [Next]_vars => [\A p \in Procs : A(p)]_vars
    BY <1>1
  <1>3. Spec => [][\A p \in Procs : A(p)]_vars
    BY <1>2, Invariance, PTL DEF Spec
  <1> QED
    BY <1>3 DEF SendShrinks

LEMMA AdvanceStep ==
  ASSUME TypeOK, [Next]_vars, NEW q \in Queues, q \in live'
  PROVE  Advances(q)
  <1>0. /\ queue \in [Queues -> Seq(Message)] /\ queue[q] \in Seq(Message)
        /\ Len(queue[q]) \in Nat /\ got \in [Procs -> Nat]
    BY DEF TypeOK, KernelType, ListenerType
  <1>1. UNCHANGED queue => Advances(q)
    BY <1>0 DEF Advances
  <1>2. ASSUME NEW p \in Procs, Sent(p) PROVE Advances(q)
    <2> DEFINE m == [proc |-> p, n |-> made[p]]
    <2>1. m \in Message
      BY DEF Message, TypeOK, HistoryType
    <2>2. queue' = [queue EXCEPT ![message_queue_id[p]] = Append(@, m)]
      BY <1>2 DEF Sent
    <2> HIDE DEF m
    <2>3. queue'[q] = queue[q] \/ queue'[q] = Append(queue[q], m)
      BY <1>0, <2>2
    <2> QED
      BY <1>0, <2>1, <2>3 DEF Advances
  <1>3. CASE Receive
    <2>1. /\ listener_id \in Queues /\ queue[listener_id] # <<>>
          /\ queue' = [queue EXCEPT ![listener_id] = Tail(@)]
          /\ got' = [got EXCEPT ![Head(queue[listener_id]).proc] = Head(queue[listener_id]).n]
      <3>1. /\ listener_id \in live /\ queue[listener_id] # <<>>
            /\ queue' = [queue EXCEPT ![listener_id] = Tail(queue[listener_id])]
            /\ got' = [got EXCEPT ![Head(queue[listener_id]).proc]
                                     = Head(queue[listener_id]).n]
        BY <1>3, Zenon DEF Receive
      <3>2. live \subseteq 1..created /\ created \in 0..MaxQueues
        BY DEF TypeOK, KernelType
      <3>3. listener_id \in Queues
        BY <3>1, <3>2 DEF Queues
      <3> QED
        BY <3>1, <3>3
    <2>2. CASE q = listener_id
      <3>1. queue'[q] = Tail(queue[q]) /\ 1 \in 1..Len(queue[q]) /\ Head(queue[q]) = queue[q][1]
        BY <1>0, <2>1, <2>2, TailFacts
      <3>2. queue[q][1].proc \in Procs
        BY <3>1, MessageAt
      <3>3. got'[queue[q][1].proc] = queue[q][1].n
        BY <1>0, <2>1, <2>2, <3>1, <3>2
      <3> QED
        BY <1>0, <2>1, <2>2, <3>1, <3>3, TailFacts DEF Advances
    <2>3. CASE q # listener_id
      BY <1>0, <2>1, <2>3 DEF Advances
    <2> QED
      BY <2>2, <2>3
  <1>4. ASSUME NEW r \in Queues, RemoveQueue(r) PROVE Advances(q)
    <2>1. q # r /\ queue' = [queue EXCEPT ![r] = <<>>]
      BY <1>4 DEF RemoveQueue
    <2> QED
      BY <1>0, <2>1 DEF Advances
  <1>5. ASSUME NEW p \in Procs,
               \/ UseQueue(p) \/ FtokFails(p) \/ MsgGetFails(p) \/ FindQueue(p)
               \/ QueueFull(p) \/ QueueGone(p) \/ TryAgain(p) \/ Exhausted(p) \/ Die(p)
        PROVE  UNCHANGED queue
    BY <1>5 DEF UseQueue, FtokFails, MsgGetFails, FindQueue, Start, QueueFull, QueueGone,
       TryAgain, Exhausted, CountRetry, Die, kernel
  <1>6. ListenerStart \/ RemoveFile \/ TouchFile \/ ListenerStop \/ ChainReturns \/ UNCHANGED vars
          => UNCHANGED queue
    BY DEF ListenerStart, RemoveFile, TouchFile, ListenerStop, ChainReturns, vars, kernel
  <1> QED
    BY <1>1, <1>2, <1>3, <1>4, <1>5, <1>6 DEF Next, Step, Environment

(* No message is overtaken in its queue or dropped from it, whatever       *)
(* processes and listeners do: every msgrcv() of input_loop() on that      *)
(* queue brings every message in it one place closer to being read.        *)
THEOREM NoOvertaking == Spec => QueueAdvances
  <1>1. IInv /\ [Next]_vars => [\A q \in Queues : q \in live' => Advances(q)]_vars
    BY AdvanceStep DEF IInv
  <1> QED
    BY <1>1, Invariance, PTL DEF Spec, QueueAdvances
==============================================================================
