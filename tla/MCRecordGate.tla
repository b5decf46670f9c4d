---------------------------- MODULE MCRecordGate ----------------------------
(* Small instance of RecordGate. *)
EXTENDS RecordGate

Env(open, elapsed, count, freq, dur, mq) ==
  [start_on_open |-> open, start_on_elapsed |-> elapsed,
   count_frequency |-> count, time_frequency |-> freq, time_duration |-> dur,
   domains |-> {"FILE_READ", "FILE_OPEN_CLOSE"}, mq |-> mq]

(* Every pause mode, sampling off / by count / by time / both, windows     *)
(* shorter and longer than the frequency, a negative count, a negative     *)
(* frequency and a negative duration.                                      *)
MCEnvs ==
  {Env(o, e, n, w[1], w[2], TRUE) :
     o \in BOOLEAN, e \in BOOLEAN, n \in {-1, 0, 3},
     w \in {<<0, 0>>, <<3, 1>>, <<2, 3>>, <<-2, 2>>, <<2, -2>>}}
  \cup {Env(FALSE, FALSE, n, 0, 0, FALSE) : n \in {0, 2}}

(* An environment that does not monitor FILE_OPEN_CLOSE. *)
NoOpenEnvs ==
  {[Env(TRUE, FALSE, 0, 0, 0, TRUE) EXCEPT !.domains = {"FILE_READ"}]}
    \cup MCEnvs

Call(dom, op, std, dot, match, slow) ==
  [dom |-> dom, op |-> op, std_fd |-> std, dot |-> dot, match |-> match,
   slow |-> slow]

MCCalls ==
  {Call("FILE_READ", "OTHER", FALSE, FALSE, FALSE, s) : s \in BOOLEAN}
  \cup {Call("FILE_OPEN_CLOSE", "OPEN", FALSE, FALSE, m, FALSE) : m \in BOOLEAN}
  \cup {Call("FILE_OPEN_CLOSE", "OPEN", FALSE, TRUE, FALSE, FALSE),
        Call("FILE_READ", "OTHER", TRUE, FALSE, FALSE, FALSE),
        Call("SOCKETS", "OTHER", FALSE, FALSE, FALSE, TRUE)}
=============================================================================
