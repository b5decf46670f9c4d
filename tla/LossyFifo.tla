----------------------------- MODULE LossyFifo ------------------------------
(***************************************************************************)
(* What the message queue between the monitored processes and mq_listener  *)
(* promises: the records of one process arrive in the order in which it    *)
(* made them and none arrives twice.  A record may be lost, either because *)
(* its sender gives it up or because the queue it waits in is removed.     *)
(* Nothing is promised about the records of different processes.           *)
(***************************************************************************)
EXTENDS Naturals

CONSTANT Procs    \* the monitored processes

VARIABLES
  offered,   \* number of records each process has made; names the latest
  pending,   \* the processes whose latest record is still being sent
  inflight,  \* the records of each process that wait to be read
  got        \* the latest record of each process the listener has read

avars == <<offered, pending, inflight, got>>

AInit ==
  /\ offered = [p \in Procs |-> 0]
  /\ pending = {}
  /\ inflight = [p \in Procs |-> {}]
  /\ got = [p \in Procs |-> 0]

(* A process makes a record; it may give it up at once. *)
Offer(p) ==
  /\ p \notin pending
  /\ offered' = [offered EXCEPT ![p] = @ + 1]
  /\ pending' \in {pending, pending \cup {p}}
  /\ UNCHANGED <<inflight, got>>

Accept(p) ==
  /\ p \in pending
  /\ pending' = pending \ {p}
  /\ inflight' = [inflight EXCEPT ![p] = @ \cup {offered[p]}]
  /\ UNCHANGED <<offered, got>>

GiveUp(p) ==
  /\ p \in pending
  /\ pending' = pending \ {p}
  /\ UNCHANGED <<offered, inflight, got>>

(* The oldest waiting record of a process is read. *)
Deliver(p) ==
  /\ \E n \in inflight[p] :
       /\ \A m \in inflight[p] : n <= m
       /\ got' = [got EXCEPT ![p] = n]
       /\ inflight' = [inflight EXCEPT ![p] = @ \ {n}]
  /\ UNCHANGED <<offered, pending>>

(* The queue of some processes is removed. *)
Flush(ps) ==
  /\ inflight' = [p \in Procs |-> IF p \in ps THEN {} ELSE inflight[p]]
  /\ UNCHANGED <<offered, pending, got>>

ANext ==
  \/ \E p \in Procs : Offer(p) \/ Accept(p) \/ GiveUp(p) \/ Deliver(p)
  \/ \E ps \in SUBSET Procs : Flush(ps)

ASpec == AInit /\ [][ANext]_avars

-----------------------------------------------------------------------------
(* Whatever waits of a process is newer than everything already read of it *)
(* and is a record it really made; the record being sent is not waiting    *)
(* yet.                                                                    *)
Newer ==
  \A p \in Procs :
    /\ \A n \in inflight[p] :
         /\ got[p] < n /\ n <= offered[p]
         /\ p \in pending => n < offered[p]
    /\ got[p] <= offered[p]
    /\ p \in pending => got[p] < offered[p]
=============================================================================
