----------------------------- MODULE MCIpcQueue -----------------------------
(* Small instance of IpcQueue. *)
EXTENDS IpcQueue

CONSTANTS p1, p2

TwoProcs == {p1, p2}
=============================================================================
