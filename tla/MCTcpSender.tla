---------------------------- MODULE MCTcpSender ----------------------------
(* Small instance of TcpSender. *)
EXTENDS TcpSender, TLC

CONSTANTS t1, t2

Files == {"FILE_OPEN_CLOSE", "FILE_WRITE"}

MCDomainSets == {Files, Files \cup {"SOCKETS"}}

Symmetry == Permutations({t1, t2})
=============================================================================
