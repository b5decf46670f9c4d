-------------------------- MODULE LossyFifo_proofs --------------------------
(* What the promise of the message queue entails. *)
EXTENDS LossyFifo, TLAPS

ATypeOK ==
  /\ offered \in [Procs -> Nat]
  /\ pending \subseteq Procs
  /\ inflight \in [Procs -> SUBSET Nat]
  /\ got \in [Procs -> Nat]

(* The records of a process are read in the order in which it made them,   *)
(* each at most once: what still waits is newer than what has been read.   *)
THEOREM ReadInOrder == ASpec => [](ATypeOK /\ Newer)
  <1>1. AInit => ATypeOK /\ Newer
    BY DEF AInit, ATypeOK, Newer
  <1>2. ATypeOK /\ Newer /\ [ANext]_avars => (ATypeOK /\ Newer)'
    <2> SUFFICES ASSUME ATypeOK, Newer, [ANext]_avars
                 PROVE  (ATypeOK /\ Newer)'
      OBVIOUS
    <2> USE DEF ATypeOK, Newer
    <2>1. ASSUME NEW p \in Procs, Offer(p) PROVE (ATypeOK /\ Newer)'
      BY <2>1 DEF Offer
    <2>2. ASSUME NEW p \in Procs, Accept(p) PROVE (ATypeOK /\ Newer)'
      BY <2>2 DEF Accept
    <2>3. ASSUME NEW p \in Procs, GiveUp(p) PROVE (ATypeOK /\ Newer)'
      BY <2>3 DEF GiveUp
    <2>4. ASSUME NEW p \in Procs, Deliver(p) PROVE (ATypeOK /\ Newer)'
      BY <2>4 DEF Deliver
    <2>5. ASSUME NEW ps \in SUBSET Procs, Flush(ps) PROVE (ATypeOK /\ Newer)'
      BY <2>5 DEF Flush
    <2>6. CASE UNCHANGED avars
      BY <2>6 DEF avars
    <2> QED
      BY <2>1, <2>2, <2>3, <2>4, <2>5, <2>6 DEF ANext
  <1> QED
    BY <1>1, <1>2, PTL DEF ASpec
=============================================================================
