----------------------------- MODULE MCResolver -----------------------------
(* Small instance of Resolver. *)
EXTENDS Resolver

CONSTANTS p1, p2, t1, t2

(* Two threads of one process, or a process each. *)
MCOwners == [{t1, t2} -> {p1, p2}]

(* Characters: / 2 a d.  Paths: /d2/a  a *)
MCPaths == {<<0, 3, 1, 0, 2>>, <<2>>}

(* The current directory is /d2. *)
MCLocation == [path \in MCPaths |-> IF path[1] = 0 THEN path ELSE <<0, 3, 1, 0, 2>>]

Pair(value) == [quoted |-> TRUE, value |-> value]

(* NAME MAJ:MIN RM SIZE RO TYPE MOUNTPOINT *)
Line(dev, mount) ==
  <<Pair(dev), Pair(<<1>>), Pair(<<1>>), Pair(<<1>>), Pair(<<1>>),
    Pair(<<2>>), Pair(mount)>>

(* A mount point that contains a blank is split into two tokens. *)
Split(dev) ==
  SubSeq(Line(dev, <<>>), 1, 6) \o
    <<[quoted |-> FALSE, value |-> <<>>], [quoted |-> FALSE, value |-> <<>>]>>

(* A disk whose mount point contains a blank, and /d; or the root and /d2. *)
(* The name of the second disk is longer than DEVICE_LEN.                  *)
MCReports ==
  {<<Split(<<5>>), Line(<<6, 6>>, <<0, 3>>)>>,
   <<Line(<<5>>, Root), Line(<<6, 6>>, <<0, 3, 1>>)>>}

Symmetry == Permutations({t1, t2}) \cup Permutations({p1, p2})
=============================================================================
