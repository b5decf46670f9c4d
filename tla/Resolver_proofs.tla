--------------------------- MODULE Resolver_proofs ---------------------------
(***************************************************************************)
(* Proofs about Resolver: its type, that undisturbed descriptors get the   *)
(* device of their file, and what fd_to_dev may keep.                      *)
(***************************************************************************)
EXTENDS Resolver, TLAPS, WellFoundedInduction

-----------------------------------------------------------------------------
(* A set of strings that is not empty has a shortest member. *)
LEMMA ShortestString ==
  ASSUME NEW S, S \subseteq String, S # {}
  PROVE  \E m \in S : \A n \in S : Len(m) <= Len(n)
<1> DEFINE T == {Len(s) : s \in S}
<1>1. \A s \in S : Len(s) \in Nat
  BY DEF String
<1>2. T \subseteq Nat /\ T # {}
  BY <1>1
<1>3. \E x \in T : \A y \in T : <<y, x>> \notin OpToRel(<, Nat)
  BY <1>2, WFMin, NatLessThanWellFounded
<1>4. PICK x \in T : \A y \in T : <<y, x>> \notin OpToRel(<, Nat)
  BY <1>3
<1>5. \A y \in T : x <= y
  <2>1. OpToRel(<, Nat) = {ss \in Nat \X Nat : ss[1] < ss[2]}
    BY DEF OpToRel
  <2> SUFFICES ASSUME NEW y \in T PROVE x <= y
    OBVIOUS
  <2>2. <<y, x>> \notin {ss \in Nat \X Nat : ss[1] < ss[2]}
    BY <1>4, <2>1, Zenon
  <2>3. x \in Nat /\ y \in Nat
    BY <1>2
  <2>4. ~(y < x)
    BY <2>2, <2>3
  <2> QED
    BY <2>3, <2>4
<1>6. PICK m \in S : x = Len(m)
  OBVIOUS
<1> QED
  BY <1>5, <1>6

(* Of two mount points that begin a path the shorter one begins the other, *)
(* and so comes first in the map.                                          *)
LEMMA ShorterBefore ==
  ASSUME NEW path \in String, NEW m \in String, NEW n \in String,
         IsPrefix(m, path), IsPrefix(n, path), Len(m) <= Len(n), m # n
  PROVE  Before(m, n)
<1>1. \A i \in 1..Len(m) : m[i] = path[i]
  <2>1. SubSeq(m, 1, Len(m)) = SubSeq(path, 1, Len(m)) /\ Len(m) <= Len(path)
    BY DEF IsPrefix
  <2>2. \A i \in 1..Len(m) : SubSeq(m, 1, Len(m))[i] = m[i]
    BY DEF String
  <2>3. \A i \in 1..Len(m) : SubSeq(path, 1, Len(m))[i] = path[i]
    BY <2>1 DEF String
  <2> QED
    BY <2>1, <2>2, <2>3
<1>2. \A i \in 1..Len(n) : n[i] = path[i]
  <2>1. SubSeq(n, 1, Len(n)) = SubSeq(path, 1, Len(n)) /\ Len(n) <= Len(path)
    BY DEF IsPrefix
  <2>2. \A i \in 1..Len(n) : SubSeq(n, 1, Len(n))[i] = n[i]
    BY DEF String
  <2>3. \A i \in 1..Len(n) : SubSeq(path, 1, Len(n))[i] = path[i]
    BY <2>1 DEF String
  <2> QED
    BY <2>1, <2>2, <2>3
<1>3. SubSeq(m, 1, Len(m)) = SubSeq(n, 1, Len(m))
  BY <1>1, <1>2 DEF String
<1> QED
  BY <1>3 DEF Before, IsStrictPrefix, IsPrefix

(* The map always has a first mount point that begins the path. *)
LEMMA FirstMatch ==
  ASSUME NEW path \in String, DOMAIN fs_mount_path_to_dev \subseteq String,
         Matching(path) # {}
  PROVE  \E m \in Matching(path) : \A n \in Matching(path) \ {m} : Before(m, n)
<1>1. Matching(path) \subseteq String
  BY DEF Matching
<1>2. PICK m \in Matching(path) : \A n \in Matching(path) : Len(m) <= Len(n)
  BY <1>1, ShortestString
<1>3. \A n \in Matching(path) \ {m} : Before(m, n)
  BY <1>1, <1>2, ShorterBefore DEF Matching
<1> QED
  BY <1>3

LEMMA PathType ==
  ASSUME TypeOK, NEW path \in String
  PROVE  path_to_dev(path) \in String
<1>1. CASE Matching(path) = {}
  BY <1>1 DEF path_to_dev, TypeOK
<1>2. CASE Matching(path) # {}
  <2> DEFINE First(m) == \A n \in Matching(path) \ {m} : Before(m, n)
  <2>1. \E m \in Matching(path) : First(m)
    BY <1>2, FirstMatch DEF TypeOK
  <2>2. (CHOOSE m \in Matching(path) : First(m)) \in Matching(path)
    BY <2>1
  <2>3. \A m \in Matching(path) : fs_mount_path_to_dev[m] \in String
    BY DEF Matching, TypeOK
  <2>4. path_to_dev(path) =
          fs_mount_path_to_dev[CHOOSE m \in Matching(path) : First(m)]
    BY <1>2 DEF path_to_dev
  <2> QED
    BY <2>2, <2>3, <2>4
<1> QED
  BY <1>1, <1>2

(* On a plain path, the first match is the innermost mount point. *)
LEMMA PlainPath ==
  ASSUME NEW path, Plain(path)
  PROVE  path_to_dev(path) = DeviceOf(path)
<1>1. location[path] = path /\ Holders(location[path]) = Matching(path)
  BY DEF Holders, Matching, Plain, Holds
<1>2. CASE Matching(path) = {}
  BY <1>1, <1>2 DEF path_to_dev, DeviceOf
<1>3. CASE Matching(path) # {}
  <2>1. PICK m : Matching(path) = {m}
    BY <1>3 DEF Plain
  <2>2. path_to_dev(path) = fs_mount_path_to_dev[m]
    BY <2>1 DEF path_to_dev
  <2>3. DeviceOf(path) = fs_mount_path_to_dev[m]
    <3>1. Len(m) <= Len(m)
      OBVIOUS
    <3> QED
      BY <1>1, <2>1 DEF DeviceOf
  <2> QED
    BY <2>2, <2>3
<1> QED
  BY <1>2, <1>3

-----------------------------------------------------------------------------
(* The inductive invariant. *)

Sends(t, fd, op) == Reporting(t, fd) /\ pending[t].op = op

Followed(fd) == track[fd] # "disturbed"

(* While the mount points are read, no device is known and nothing was     *)
(* handed on; a call that is not looked at passes no descriptor.           *)
StartInv ==
  /\ lines # <<>> => ~out.followed /\ \A fd \in Fds : fd_to_dev[fd] = Absent
  /\ \A t \in Threads : \A fd \in Fds : ~Sends(t, fd, "OTHER")

(* A number that is followed has one reporter and one process at most. *)
AloneInv ==
  \A fd \in Fds : Followed(fd) =>
    /\ \A t, u \in Threads : Reporting(t, fd) /\ Reporting(u, fd) => t = u
    /\ \A p, q \in Procs : Open(p, fd) /\ Open(q, fd) => p = q

(* An open that is on the way is that of the file the number is open on.   *)
OpenInv ==
  \A fd \in Fds : \A t \in Threads :
    Followed(fd) /\ Sends(t, fd, "OPEN") =>
      /\ pending[t].s1 \in Paths /\ pending[t].file = pending[t].s1
      /\ \A p \in Procs : Open(p, fd) =>
           p = proc[t] /\ file[p][fd] = pending[t].s1
      /\ track[fd] = "sound" => \E p \in Procs : Open(p, fd)

(* Otherwise the table has the device of the file the number is open on.   *)
TableInv ==
  \A fd \in Fds : \A p \in Procs :
    Followed(fd) /\ Open(p, fd) /\ (\A t \in Threads : ~Sends(t, fd, "OPEN"))
      => fd_to_dev[fd] = path_to_dev(file[p][fd])

(* A use or a close that is on the way finds the device of its file, and a *)
(* number whose close is on the way is not open.                           *)
UseInv ==
  \A fd \in Fds : \A t \in Threads :
    Followed(fd) /\ Reporting(t, fd) /\ pending[t].op # "OPEN" =>
      /\ pending[t].file # Absent =>
           fd_to_dev[fd] = path_to_dev(pending[t].file)
      /\ pending[t].op = "CLOSE" => \A p \in Procs : ~Open(p, fd)

(* What was handed on last had the device of its file. *)
OutInv ==
  out.followed /\ out.file # Absent
    => out.device = Cut(path_to_dev(out.file))

Inv ==
  /\ TypeOK /\ StartInv /\ AloneInv /\ OpenInv /\ TableInv /\ UseInv /\ OutInv
  /\ NoStaleEntry

-----------------------------------------------------------------------------
LEMMA SameMounts ==
  ASSUME UNCHANGED <<fs_mount_path_to_dev, root_fs_dev>>
  PROVE  \A path : path_to_dev(path)' = path_to_dev(path)
BY DEF path_to_dev, Matching

(* What a step leaves of an invariant that makes no new report on a        *)
(* descriptor: calls that pass none, reports that end without arriving,    *)
(* files that are closed.                                                  *)
Shrinks ==
  /\ UNCHANGED <<proc, listener>>
  /\ \A t \in Threads : \A fd \in Fds : Reporting(t, fd)' => pending'[t] = pending[t]
  /\ \A fd \in Fds : Followed(fd)' =>
       /\ Followed(fd)
       /\ \A p \in Procs : Open(p, fd)' => file'[p][fd] = file[p][fd]
       /\ \A t \in Threads : Sends(t, fd, "OPEN") /\ pending'[t] # pending[t]
            => \A p \in Procs : ~Open(p, fd)'
  /\ \A fd \in Fds : track'[fd] = "sound" =>
       /\ track[fd] = "sound"
       /\ \A p \in Procs : file'[p][fd] = file[p][fd]
       /\ \A t \in Threads : Sends(t, fd, "CLOSE") => pending'[t] = pending[t]

LEMMA ShrinkStep ==
  ASSUME Inv, TypeOK', Shrinks
  PROVE  Inv'
<1>0. \A path : path_to_dev(path)' = path_to_dev(path)
  BY SameMounts DEF Shrinks, listener
<1>1. StartInv'
  BY DEF Inv, StartInv, Shrinks, listener, Sends, Reporting
<1>2. AloneInv'
  BY DEF Inv, AloneInv, Shrinks, Reporting, Open, Followed
<1>3. OpenInv'
  BY DEF Inv, OpenInv, Shrinks, Sends, Reporting, Open, Followed
<1>4. TableInv'
  BY <1>0 DEF Inv, TableInv, Shrinks, listener, Sends, Reporting, Open, Followed
<1>5. UseInv'
  BY <1>0 DEF Inv, UseInv, Shrinks, listener, Reporting, Open, Followed
<1>6. OutInv'
  BY <1>0 DEF Inv, OutInv, Shrinks, listener, Cut
<1>7. NoStaleEntry'
  BY DEF Inv, NoStaleEntry, Shrinks, listener, Sends, Reporting, Open
<1> QED
  BY <1>1, <1>2, <1>3, <1>4, <1>5, <1>6, <1>7 DEF Inv

-----------------------------------------------------------------------------
(* Every step keeps the types. *)

LEMMA FieldType ==
  ASSUME NEW line \in Seq(Token), NEW j
  PROVE  Field(line, j) \in String
<1>1. CASE Numbered(line, j) = {}
  BY <1>1 DEF Field, Empty, String
<1>2. CASE Numbered(line, j) # {}
  <2>1. PICK i : i = CHOOSE k \in Numbered(line, j) : TRUE
    OBVIOUS
  <2>2. i \in Numbered(line, j)
    BY <1>2, <2>1
  <2>3. i \in DOMAIN line
    BY <2>2 DEF Numbered
  <2>4. line[i] \in Token
    BY <2>3
  <2> QED
    BY <1>2, <2>1, <2>4 DEF Field, Token
<1> QED
  BY <1>1, <1>2

LEMMA CaptureType ==
  ASSUME TypeOK, CaptureLine
  PROVE  TypeOK'
<1> DEFINE dc == parse_device_fields(Head(lines))
<1>1. Head(lines) \in Seq(Token) /\ lines' \in Seq(Seq(Token))
  BY DEF TypeOK, CaptureLine
<1>2. dc.device_name \in String /\ dc.mount_point \in String
  BY <1>1, FieldType DEF parse_device_fields
<1>3. /\ DOMAIN fs_mount_path_to_dev' \subseteq String
      /\ fs_mount_path_to_dev' \in [DOMAIN fs_mount_path_to_dev' -> String]
      /\ root_fs_dev' \in String
  <2> HIDE DEF dc
  <2>1. CASE UNCHANGED <<root_fs_dev, fs_mount_path_to_dev>>
    BY <2>1 DEF TypeOK
  <2>2. CASE root_fs_dev' = dc.device_name /\ UNCHANGED fs_mount_path_to_dev
    BY <1>2, <2>2 DEF TypeOK
  <2>3. CASE /\ fs_mount_path_to_dev' =
                 [m \in DOMAIN fs_mount_path_to_dev \cup {dc.mount_point} |->
                    IF m = dc.mount_point THEN dc.device_name
                                          ELSE fs_mount_path_to_dev[m]]
             /\ UNCHANGED root_fs_dev
    BY <1>2, <2>3 DEF TypeOK
  <2> QED
    BY <2>1, <2>2, <2>3 DEF CaptureLine, dc
<1> QED
  BY <1>1, <1>3 DEF TypeOK, CaptureLine

(* A call that is started has a record of the right type. *)
LEMMA CallType ==
  ASSUME TypeOK, NEW t \in Threads,
         NEW op \in {"OPEN", "CLOSE", "USE", "OTHER"},
         NEW fd \in Fds \cup {FD_NONE}, NEW s1 \in Paths \cup {Empty},
         NEW path \in Paths \cup {Absent}, Calls(t, op, fd, s1, path)
  PROVE  pending' \in [Threads -> Record \cup {Absent}]
BY DEF TypeOK, Calls, Record

LEMMA ApplicationType ==
  ASSUME TypeOK, NEW t \in Threads, Application(t)
  PROVE  TypeOK'
<1>1. proc[t] \in Procs
  BY DEF TypeOK
<1>2. \A p \in Procs : \A fd \in Fds : file[p][fd] \in Paths \cup {Absent}
  BY DEF TypeOK
<1>3. ASSUME NEW p \in Procs, NEW fd \in Fds, NEW path \in Paths \cup {Absent},
             Binds(p, fd, path)
      PROVE  file' \in [Procs -> [Fds -> Paths \cup {Absent}]]
  BY <1>3 DEF TypeOK, Binds
<1>4. ASSUME NEW fds, NEW fd, Disturb(fds) \/ Leave(fds) \/ Follow(t, fd)
      PROVE  track' \in [Fds -> {"sound", "left", "disturbed"}]
  BY <1>4 DEF TypeOK, Disturb, Leave, Follow
<1>5. ASSUME NEW path \in Paths, FopenFails(t, path)
      PROVE  TypeOK'
  BY <1>5, CallType DEF TypeOK, FopenFails, listener
<1>6. ASSUME NEW path \in Paths, NEW fd \in Fds, Fopen(t, fd, path)
      PROVE  TypeOK'
  BY <1>1, <1>3, <1>4, <1>6, CallType DEF TypeOK, Fopen, listener
<1>7. ASSUME NEW path \in Paths, NEW fd \in Fds, NEW op \in {"OPEN", "OTHER"},
             OpenFile(t, op, fd, path)
      PROVE  TypeOK'
  <2>1. op \in {"OPEN", "CLOSE", "USE", "OTHER"}
    OBVIOUS
  <2>2. pending' \in [Threads -> Record \cup {Absent}]
    BY <1>7, <2>1, CallType DEF OpenFile
  <2> QED
    BY <1>1, <1>3, <1>4, <1>7, <2>2 DEF TypeOK, OpenFile, listener
<1>8. ASSUME NEW fd \in Fds, Use(t, fd)
      PROVE  TypeOK'
  BY <1>1, <1>2, <1>4, <1>8, CallType DEF TypeOK, Use, listener
<1>9. ASSUME NEW fd \in Fds, Close(t, fd)
      PROVE  TypeOK'
  BY <1>1, <1>2, <1>3, <1>4, <1>9, CallType DEF TypeOK, Close, listener
<1>10. ASSUME NEW fd \in Fds, Fclose(t, fd)
       PROVE  TypeOK'
  BY <1>1, <1>3, <1>4, <1>10, CallType DEF TypeOK, Fclose, listener
<1>11. ASSUME NEW fd \in Fds, NEW newfd \in Fds, Dup(t, fd, newfd)
       PROVE  TypeOK'
  BY <1>1, <1>2, <1>3, <1>4, <1>11, CallType DEF TypeOK, Dup, listener
<1>12. ASSUME NEW q \in Procs, Fork(t, q)
       PROVE  TypeOK'
  <2>1. file' \in [Procs -> [Fds -> Paths \cup {Absent}]]
    BY <1>1, <1>12 DEF TypeOK, Fork
  <2> QED
    BY <1>4, <1>12, <2>1, CallType DEF TypeOK, Fork, listener
<1> QED
  BY <1>5, <1>6, <1>7, <1>8, <1>9, <1>10, <1>11, <1>12 DEF Application

LEMMA CutType ==
  ASSUME NEW device \in String
  PROVE  Cut(device) \in String
BY DeviceLenAssumption DEF Cut, String

LEMMA ReceiveType ==
  ASSUME TypeOK, NEW t \in Threads, Receive(t)
  PROVE  TypeOK'
<1> DEFINE r == pending[t]
<1>1. r \in Record /\ pending' \in [Threads -> Record \cup {Absent}]
  BY DEF TypeOK, Receive
<1>2. r.s1 # Empty => path_to_dev(r.s1) \in String
  BY <1>1, PathType, PathsAssumption DEF Record
<1> HIDE DEF r
<1>3. /\ register_file(r) \in [Fds -> String \cup {Absent}]
      /\ deregister_file(r) \in [Fds -> String \cup {Absent}]
  BY <1>1, <1>2 DEF register_file, deregister_file, TypeOK, Record
<1>4. ASSUME NEW map \in [Fds -> String \cup {Absent}]
      PROVE  resolve_file(r, map) \in String
  <2>1. CASE r.fd # FD_NONE /\ map[r.fd] # Absent
    <3>1. map[r.fd] \in String
      BY <1>1, <1>4, <2>1 DEF Record
    <3> QED
      BY <2>1, <3>1, CutType DEF resolve_file
  <2>2. CASE ~(r.fd # FD_NONE /\ map[r.fd] # Absent)
    BY <2>2 DEF resolve_file, Empty, String
  <2> QED
    BY <2>1, <2>2
<1>5. Empty \in String
  BY DEF Empty, String
<1>6. input_loop(r)
  BY DEF r, Receive
<1>7. fd_to_dev' \in [Fds -> String \cup {Absent}]
  BY <1>3, <1>6 DEF input_loop, TypeOK
<1>8. \E device \in String : out' = Delivered(r, device)
  BY <1>3, <1>4, <1>5, <1>6 DEF input_loop, TypeOK
<1>9. out' \in [file : Paths \cup {Absent}, device : String,
                followed : BOOLEAN]
  BY <1>1, <1>8 DEF Delivered, Record
<1> QED
  BY <1>1, <1>7, <1>9 DEF TypeOK, Receive

LEMMA TypeStep ==
  ASSUME TypeOK, [Next]_vars
  PROVE  TypeOK'
<1>1. CASE CaptureLine
  BY <1>1, CaptureType
<1>2. ASSUME NEW t \in Threads, Application(t)
      PROVE  TypeOK'
  BY <1>2, ApplicationType
<1>3. ASSUME NEW t \in Threads, Lose(t)
      PROVE  TypeOK'
  <2>1. pending' \in [Threads -> Record \cup {Absent}]
    BY <1>3 DEF TypeOK, Lose
  <2>2. track' \in [Fds -> {"sound", "left", "disturbed"}]
    BY <1>3 DEF TypeOK, Lose, Disturb, Leave
  <2> QED
    BY <1>3, <2>1, <2>2 DEF TypeOK, Lose, listener
<1>4. ASSUME NEW t \in Threads, Receive(t)
      PROVE  TypeOK'
  BY <1>4, ReceiveType
<1>5. ASSUME NEW p \in Procs, Exit(p)
      PROVE  TypeOK'
  <2>1. pending' \in [Threads -> Record \cup {Absent}]
    BY <1>5 DEF TypeOK, Exit
  <2>2. track' \in [Fds -> {"sound", "left", "disturbed"}]
    BY <1>5 DEF TypeOK, Exit, Leave
  <2>3. file' \in [Procs -> [Fds -> Paths \cup {Absent}]]
    BY <1>5 DEF TypeOK, Exit
  <2> QED
    BY <1>5, <2>1, <2>2, <2>3 DEF TypeOK, Exit, listener
<1>6. CASE UNCHANGED vars
  BY <1>6 DEF vars, listener, TypeOK
<1> QED
  BY <1>1, <1>2, <1>3, <1>4, <1>5, <1>6 DEF Next

-----------------------------------------------------------------------------
(* The steps that only shrink what is followed. *)

(* A call that passes no descriptor, and binds only what is disturbed or   *)
(* left by it.                                                             *)
LEMMA QuietCall ==
  ASSUME Inv, TypeOK', UNCHANGED <<proc, listener>>,
         NEW t \in Threads, NEW op, NEW s1, NEW path,
         Calls(t, op, FD_NONE, s1, path),
         \A fd \in Fds : Followed(fd)' =>
           /\ Followed(fd)
           /\ \A p \in Procs : Open(p, fd)' => file'[p][fd] = file[p][fd],
         \A fd \in Fds : track'[fd] = "sound" =>
           /\ track[fd] = "sound"
           /\ \A p \in Procs : file'[p][fd] = file[p][fd]
  PROVE  Inv'
<1>1. pending' = [pending EXCEPT ![t] = pending'[t]] /\ pending[t] = Absent
  BY DEF Calls, Inv, TypeOK
<1>2. pending'[t].fd = FD_NONE
  BY DEF Calls, Inv, TypeOK
<1>3. \A u \in Threads : u # t => pending'[u] = pending[u]
  BY <1>1 DEF Inv, TypeOK
<1>4. \A fd \in Fds : fd # FD_NONE
  BY FdsAssumption DEF FD_NONE
<1>5. Shrinks
  <2>1. \A u \in Threads : \A fd \in Fds :
          Reporting(u, fd)' => pending'[u] = pending[u]
    BY <1>2, <1>3, <1>4 DEF Reporting
  <2>2. \A u \in Threads : \A fd \in Fds : \A o :
          Sends(u, fd, o) => pending'[u] = pending[u]
    BY <1>1, <1>3 DEF Sends, Reporting
  <2> QED
    BY <2>1, <2>2 DEF Shrinks
<1> QED
  BY <1>5, ShrinkStep

LEMMA QuietStep ==
  ASSUME Inv, TypeOK', NEW t \in Threads,
         \/ \E path \in Paths : FopenFails(t, path)
         \/ \E path \in Paths : \E fd \in Fds : \E op \in {"OPEN", "OTHER"} :
              OpenFile(t, op, fd, path)
         \/ \E fd \in Fds : Fclose(t, fd)
         \/ \E fd, newfd \in Fds : Dup(t, fd, newfd)
         \/ \E q \in Procs : Fork(t, q)
  PROVE  Inv'
<1>0. TypeOK /\ proc[t] \in Procs
  BY DEF Inv, TypeOK
<1>1. ASSUME NEW path \in Paths, FopenFails(t, path)
      PROVE  Inv'
  BY <1>1, QuietCall DEF FopenFails, Followed, Open
<1>2. ASSUME NEW path \in Paths, NEW fd \in Fds, NEW op \in {"OPEN", "OTHER"},
             OpenFile(t, op, fd, path)
      PROVE  Inv'
  <2>1. \A g \in Fds : track'[g] # "disturbed" => g # fd /\ track'[g] = track[g]
    BY <1>0, <1>2 DEF OpenFile, Disturb
  <2>2. \A g \in Fds : \A p \in Procs : g # fd => file'[p][g] = file[p][g]
    BY <1>0, <1>2 DEF OpenFile, Binds, TypeOK
  <2> QED
    BY <1>2, <2>1, <2>2, QuietCall DEF OpenFile, Followed
<1>3. ASSUME NEW fd \in Fds, Fclose(t, fd)
      PROVE  Inv'
  <2>1. \A g \in Fds : /\ track'[g] = "sound" => g # fd /\ track[g] = "sound"
                       /\ track'[g] # "disturbed" => track[g] # "disturbed"
    BY <1>0, <1>3 DEF Fclose, Leave, TypeOK
  <2>2. \A g \in Fds : \A p \in Procs :
          /\ g # fd => file'[p][g] = file[p][g]
          /\ file'[p][g] # Absent => file'[p][g] = file[p][g]
    BY <1>0, <1>3 DEF Fclose, Binds, TypeOK
  <2> QED
    BY <1>3, <2>1, <2>2, QuietCall DEF Fclose, Followed, Open
<1>4. ASSUME NEW fd \in Fds, NEW newfd \in Fds, Dup(t, fd, newfd)
      PROVE  Inv'
  <2>1. \A g \in Fds : track'[g] # "disturbed" => g # newfd /\ track'[g] = track[g]
    BY <1>0, <1>4 DEF Dup, Disturb
  <2>2. \A g \in Fds : \A p \in Procs : g # newfd => file'[p][g] = file[p][g]
    BY <1>0, <1>4 DEF Dup, Binds, TypeOK
  <2> QED
    BY <1>4, <2>1, <2>2, QuietCall DEF Dup, Followed
<1>5. ASSUME NEW q \in Procs, Fork(t, q)
      PROVE  Inv'
  <2>1. \A g \in Fds : track'[g] # "disturbed" =>
          file[proc[t]][g] = Absent /\ track'[g] = track[g]
    BY <1>0, <1>5 DEF Fork, Disturb, Open
  <2>2. \A g \in Fds : \A p \in Procs :
          file[proc[t]][g] = Absent => file'[p][g] = file[p][g]
    BY <1>0, <1>5 DEF Fork, Open, TypeOK
  <2> QED
    BY <1>5, <2>1, <2>2, QuietCall DEF Fork, Followed
<1> QED
  BY <1>1, <1>2, <1>3, <1>4, <1>5

LEMMA LoseStep ==
  ASSUME Inv, TypeOK', NEW t \in Threads, Lose(t)
  PROVE  Inv'
<1>1. /\ pending'[t] = Absent
      /\ \A u \in Threads : u # t => pending'[u] = pending[u]
  BY DEF Lose, Inv, TypeOK
<1>2. \A fd \in Fds : /\ track'[fd] # "disturbed" => track[fd] # "disturbed"
                      /\ track'[fd] = "sound" => track[fd] = "sound"
  BY DEF Lose, Disturb, Leave
<1>3. \A fd \in Fds : /\ track'[fd] # "disturbed" => ~Sends(t, fd, "OPEN")
                      /\ track'[fd] = "sound" => ~Sends(t, fd, "CLOSE")
  BY DEF Lose, Disturb, Leave, Sends, Reporting
<1>4. file' = file
  BY DEF Lose
<1>5. Shrinks
  BY <1>1, <1>2, <1>3, <1>4 DEF Shrinks, Followed, Lose, Reporting, Open
<1> QED
  BY <1>5, ShrinkStep

LEMMA ExitStep ==
  ASSUME Inv, TypeOK', NEW p \in Procs, Exit(p)
  PROVE  Inv'
<1>1. \A t \in Threads : /\ proc[t] = p => pending'[t] = Absent
                         /\ proc[t] # p => pending'[t] = pending[t]
  BY DEF Exit
<1>2. \A q \in Procs : \A fd \in Fds :
        /\ q = p => file'[q][fd] = Absent
        /\ q # p => file'[q][fd] = file[q][fd]
  BY DEF Exit, Inv, TypeOK
<1>3. \A fd \in Fds : /\ track'[fd] # "disturbed" => track[fd] # "disturbed"
                      /\ track'[fd] = "sound" => track[fd] = "sound"
  BY DEF Exit, Leave
<1>4. \A fd \in Fds : track'[fd] = "sound" =>
        /\ file[p][fd] = Absent
        /\ \A t \in Threads : Reporting(t, fd) => proc[t] # p
  BY DEF Exit, Leave, Open
<1>5. \A fd \in Fds : \A t \in Threads :
        Followed(fd)' /\ Sends(t, fd, "OPEN") /\ pending'[t] # pending[t]
          => \A q \in Procs : ~Open(q, fd)'
  BY <1>1, <1>2, <1>3 DEF Inv, OpenInv, Followed, Open
<1>6. Shrinks
  BY <1>1, <1>2, <1>3, <1>4, <1>5
     DEF Shrinks, Followed, Exit, Reporting, Open, Sends
<1> QED
  BY <1>6, ShrinkStep

-----------------------------------------------------------------------------
(* The calls that pass a descriptor. *)

(* What they have in common: t gets a record on fd and, if fd is followed  *)
(* afterwards, no other thread has one.                                    *)
Starts(t, fd, op) ==
  /\ UNCHANGED <<proc, listener>>
  /\ pending[t] = Absent
  /\ pending'[t] # Absent /\ pending'[t].op = op /\ pending'[t].fd = fd
  /\ \A u \in Threads : u # t => pending'[u] = pending[u]
  /\ \A g \in Fds : g # fd =>
       track'[g] = track[g] /\ \A p \in Procs : file'[p][g] = file[p][g]
  /\ track'[fd] # "disturbed" =>
       /\ track'[fd] = track[fd] \/ op = "OPEN"
       /\ \A u \in Threads : ~Reporting(u, fd)

(* The invariant is kept if it is kept for fd. *)
LEMMA StartStep ==
  ASSUME Inv, TypeOK', NEW t \in Threads, NEW fd \in Fds,
         NEW op \in {"OPEN", "USE", "CLOSE"}, Starts(t, fd, op),
         Followed(fd)' =>
           /\ \A p, q \in Procs : Open(p, fd)' /\ Open(q, fd)' => p = q
           /\ op = "OPEN" =>
                /\ pending'[t].s1 \in Paths /\ pending'[t].file = pending'[t].s1
                /\ \A p \in Procs : Open(p, fd)' =>
                     p = proc[t] /\ file'[p][fd] = pending'[t].s1
                /\ \E p \in Procs : Open(p, fd)'
           /\ op # "OPEN" =>
                /\ \A p \in Procs : Open(p, fd)' => file'[p][fd] = file[p][fd]
                /\ pending'[t].file # Absent =>
                     fd_to_dev[fd] = path_to_dev(pending'[t].file)
           /\ op = "CLOSE" => \A p \in Procs : ~Open(p, fd)'
           /\ op = "USE" => \A p \in Procs : file'[p][fd] = file[p][fd]
  PROVE  Inv'
<1>0. \A path : path_to_dev(path)' = path_to_dev(path)
  BY SameMounts DEF Starts, listener
<1>a. \A u \in Threads : \A g \in Fds :
        Reporting(u, g)' =>
          \/ u = t /\ g = fd
          \/ u # t /\ Reporting(u, g) /\ pending'[u] = pending[u]
  BY DEF Starts, Reporting
<1>b. \A u \in Threads : Followed(fd)' /\ Reporting(u, fd)' => u = t
  BY <1>a DEF Starts, Followed
<1>c. \A u \in Threads : \A g \in Fds : Reporting(u, g) =>
        Reporting(u, g)' /\ pending'[u] = pending[u]
  BY DEF Starts, Reporting
<1>d. Followed(fd)' /\ op # "OPEN" => Followed(fd)
  BY DEF Starts, Followed
<1>1. StartInv'
  BY <1>a DEF Inv, StartInv, Starts, listener, Sends, Reporting
<1>2. AloneInv'
  BY <1>a, <1>b DEF Inv, AloneInv, Starts, Open, Followed
<1>3. OpenInv'
  <2> SUFFICES ASSUME NEW g \in Fds, NEW u \in Threads, Followed(g)',
                      Sends(u, g, "OPEN")'
               PROVE  /\ pending'[u].s1 \in Paths /\ pending'[u].file = pending'[u].s1
                      /\ \A p \in Procs : Open(p, g)' =>
                           p = proc'[u] /\ file'[p][g] = pending'[u].s1
                      /\ track'[g] = "sound" => \E p \in Procs : Open(p, g)'
    BY DEF OpenInv
  <2>1. CASE g = fd
    BY <2>1, <1>b DEF Sends, Starts
  <2>2. CASE g # fd
    BY <2>2, <1>a DEF Sends, Starts, Inv, OpenInv, Followed, Open
  <2> QED
    BY <2>1, <2>2
<1>4. TableInv'
  <2> SUFFICES ASSUME NEW g \in Fds, NEW p \in Procs, Followed(g)', Open(p, g)',
                      \A u \in Threads : ~Sends(u, g, "OPEN")'
               PROVE  fd_to_dev'[g] = path_to_dev(file[p][g])'
    BY DEF TableInv
  <2>0. fd_to_dev' = fd_to_dev
    BY DEF Starts, listener
  <2>1. CASE g = fd
    <3>1. op # "OPEN"
      BY <2>1 DEF Sends, Reporting, Starts
    <3>2. Open(p, fd) /\ file'[p][fd] = file[p][fd]
      BY <2>1, <3>1 DEF Open
    <3>3. \A u \in Threads : ~Sends(u, fd, "OPEN")
      BY <1>c, <2>1 DEF Sends
    <3>4. fd_to_dev[fd] = path_to_dev(file[p][fd])
      BY <1>d, <2>1, <3>1, <3>2, <3>3 DEF Inv, TableInv
    <3> QED
      BY <1>0, <2>0, <2>1, <3>2, <3>4
  <2>2. CASE g # fd
    <3>1. Followed(g) /\ Open(p, g) /\ file'[p][g] = file[p][g]
      BY <2>2 DEF Starts, Followed, Open
    <3>2. \A u \in Threads : ~Sends(u, g, "OPEN")
      BY <1>c DEF Sends
    <3>3. fd_to_dev[g] = path_to_dev(file[p][g])
      BY <3>1, <3>2 DEF Inv, TableInv
    <3> QED
      BY <1>0, <2>0, <3>1, <3>3
  <2> QED
    BY <2>1, <2>2
<1>5. UseInv'
  <2> SUFFICES ASSUME NEW g \in Fds, NEW u \in Threads, Followed(g)',
                      Reporting(u, g)', pending'[u].op # "OPEN"
               PROVE  /\ pending'[u].file # Absent =>
                           fd_to_dev'[g] = path_to_dev(pending[u].file)'
                      /\ pending'[u].op = "CLOSE" => \A p \in Procs : ~Open(p, g)'
    BY DEF UseInv
  <2>0. fd_to_dev' = fd_to_dev
    BY DEF Starts, listener
  <2>1. CASE g = fd
    BY <1>0, <1>b, <2>0, <2>1 DEF Starts
  <2>2. CASE g # fd
    <3>1. Followed(g) /\ Reporting(u, g) /\ pending'[u] = pending[u]
      BY <1>a, <2>2 DEF Starts, Followed
    <3>2. \A p \in Procs : Open(p, g)' => Open(p, g)
      BY <2>2 DEF Starts, Open
    <3> QED
      BY <1>0, <2>0, <3>1, <3>2 DEF Inv, UseInv
  <2> QED
    BY <2>1, <2>2
<1>6. OutInv'
  <2>1. out' = out
    BY DEF Starts, listener
  <2> QED
    BY <1>0, <2>1 DEF Inv, OutInv, Cut
<1>7. NoStaleEntry'
  <2> SUFFICES ASSUME NEW g \in Fds, track'[g] = "sound", fd_to_dev'[g] # Absent
               PROVE  \/ \E p \in Procs : Open(p, g)'
                      \/ \E u \in Threads : Reporting(u, g)' /\ pending'[u].op = "CLOSE"
    BY DEF NoStaleEntry
  <2>0. CASE g = fd /\ op = "OPEN"
    BY <2>0 DEF Followed
  <2>1. CASE ~(g = fd /\ op = "OPEN")
    <3>0. fd_to_dev[g] # Absent /\ track[g] = "sound"
      BY <2>1 DEF Starts, listener
    <3>1. \/ \E p \in Procs : Open(p, g)
          \/ \E u \in Threads : Reporting(u, g) /\ pending[u].op = "CLOSE"
      BY <3>0 DEF Inv, NoStaleEntry
    <3>2. CASE \E u \in Threads : Reporting(u, g) /\ pending[u].op = "CLOSE"
      BY <1>c, <3>2
    <3>3. CASE g # fd /\ \E p \in Procs : Open(p, g)
      BY <3>3 DEF Starts, Open
    <3>4. CASE g = fd /\ \E p \in Procs : Open(p, g)
      <4>1. Followed(fd)'
        BY <3>4 DEF Followed
      <4>2. Reporting(t, fd)' /\ pending'[t].op = op
        BY DEF Starts, Reporting
      <4>3. CASE op = "USE"
        BY <3>4, <4>1, <4>3 DEF Open
      <4>4. CASE op = "CLOSE"
        BY <3>4, <4>2, <4>4
      <4> QED
        BY <2>1, <3>4, <4>3, <4>4
    <3> QED
      BY <3>1, <3>2, <3>3, <3>4
  <2> QED
    BY <2>0, <2>1
<1> QED
  BY <1>1, <1>2, <1>3, <1>4, <1>5, <1>6, <1>7 DEF Inv

LEMMA CallStarts ==
  ASSUME TypeOK, NEW t \in Threads, NEW fd \in Fds, NEW op, NEW s1, NEW path,
         Calls(t, op, fd, s1, path), UNCHANGED <<proc, listener>>,
         \A g \in Fds : \A p \in Procs : g # fd => file'[p][g] = file[p][g],
         \/ op = "OPEN" /\ Follow(t, fd)
         \/ \E fds : fds \subseteq {fd} /\ (Busy(t, fd) => fd \in fds) /\ Disturb(fds),
         [op |-> op, fd |-> fd, s1 |-> s1, file |-> path] # Absent
  PROVE  Starts(t, fd, op) /\ pending'[t] = [op |-> op, fd |-> fd, s1 |-> s1, file |-> path]
<1>1. pending'[t] = [op |-> op, fd |-> fd, s1 |-> s1, file |-> path]
  BY DEF Calls, TypeOK
<1>2. \A u \in Threads : u # t => pending'[u] = pending[u]
  BY DEF Calls, TypeOK
<1>3. pending[t] = Absent
  BY DEF Calls
<1>4. \A g \in Fds : g # fd => track'[g] = track[g]
  BY DEF Disturb, Follow, TypeOK
<1>5. track'[fd] # "disturbed" => \A u \in Threads : ~Reporting(u, fd)
  BY <1>3 DEF Disturb, Follow, Busy, Reporting, TypeOK
<1>6. track'[fd] # "disturbed" => track'[fd] = track[fd] \/ op = "OPEN"
  BY DEF Disturb
<1> QED
  BY <1>1, <1>2, <1>3, <1>4, <1>5, <1>6 DEF Starts

LEMMA FopenStep ==
  ASSUME Inv, TypeOK', NEW t \in Threads, NEW fd \in Fds, NEW path \in Paths,
         Fopen(t, fd, path)
  PROVE  Inv'
<1>0. TypeOK /\ proc[t] \in Procs
  BY DEF Inv, TypeOK
<1>1. \A g \in Fds : \A p \in Procs :
        g # fd \/ p # proc[t] => file'[p][g] = file[p][g]
  BY <1>0 DEF Fopen, Binds, TypeOK
<1>2. file'[proc[t]][fd] = path
  BY <1>0 DEF Fopen, Binds, TypeOK
<1>3. [op |-> "OPEN", fd |-> fd, s1 |-> path, file |-> path] # Absent
  BY AbsentAssumption DEF Record
<1>4. /\ Starts(t, fd, "OPEN")
      /\ pending'[t] = [op |-> "OPEN", fd |-> fd, s1 |-> path, file |-> path]
  BY <1>0, <1>1, <1>3, CallStarts DEF Fopen
<1>5. Followed(fd)' => \A p \in Procs : p # proc[t] => file[p][fd] = Absent
  BY <1>0 DEF Fopen, Followed, Follow, Shared, Open, TypeOK
<1>6. path # Absent
  BY PathsAssumption, AbsentAssumption
<1>7. Followed(fd)' => \A p \in Procs : Open(p, fd)' <=> p = proc[t]
  BY <1>0, <1>1, <1>2, <1>5, <1>6 DEF Open
<1> QED
  BY <1>0, <1>2, <1>4, <1>7, StartStep

LEMMA UseStep ==
  ASSUME Inv, TypeOK', NEW t \in Threads, NEW fd \in Fds, Use(t, fd)
  PROVE  Inv'
<1> DEFINE path == file[proc[t]][fd]
           fds == {g \in {fd} : Busy(t, g)}
<1>0. TypeOK /\ proc[t] \in Procs
  BY DEF Inv, TypeOK
<1>1. path \in Paths \cup {Absent} /\ Open(proc[t], fd)
  BY <1>0 DEF TypeOK, Use
<1>2. [op |-> "USE", fd |-> fd, s1 |-> Empty, file |-> path] # Absent
  BY <1>1, AbsentAssumption DEF Record
<1>3. /\ Starts(t, fd, "USE")
      /\ pending'[t] = [op |-> "USE", fd |-> fd, s1 |-> Empty, file |-> path]
  <2>1. fds \subseteq {fd} /\ (Busy(t, fd) => fd \in fds) /\ Disturb(fds)
    BY DEF Use
  <2>2. Calls(t, "USE", fd, Empty, path) /\ file' = file /\ UNCHANGED <<proc, listener>>
    BY DEF Use
  <2> HIDE DEF fds, path
  <2> QED
    BY <1>0, <1>2, <2>1, <2>2, CallStarts
<1>4. Followed(fd)' => Followed(fd) /\ \A u \in Threads : ~Sends(u, fd, "OPEN")
  BY <1>3 DEF Starts, Followed, Sends
<1>5. Followed(fd)' => fd_to_dev[fd] = path_to_dev(path)
  BY <1>0, <1>1, <1>4 DEF Inv, TableInv
<1>6. file' = file
  BY DEF Use
<1>7. Followed(fd)' => \A p, q \in Procs : Open(p, fd)' /\ Open(q, fd)' => p = q
  BY <1>4, <1>6 DEF Inv, AloneInv, Open
<1> HIDE DEF path
<1> QED
  BY <1>3, <1>5, <1>6, <1>7, StartStep

LEMMA CloseStep ==
  ASSUME Inv, TypeOK', NEW t \in Threads, NEW fd \in Fds, Close(t, fd)
  PROVE  Inv'
<1> DEFINE path == file[proc[t]][fd]
           fds == {g \in {fd} : Busy(t, g) \/ Shared(proc[t], g)}
<1>0. TypeOK /\ proc[t] \in Procs
  BY DEF Inv, TypeOK
<1>1. \A g \in Fds : \A p \in Procs :
        g # fd \/ p # proc[t] => file'[p][g] = file[p][g]
  BY <1>0 DEF Close, Binds, TypeOK
<1>2. file'[proc[t]][fd] = Absent /\ path \in Paths \cup {Absent}
  BY <1>0 DEF Close, Binds, TypeOK
<1>3. [op |-> "CLOSE", fd |-> fd, s1 |-> Empty, file |-> path] # Absent
  BY <1>2, AbsentAssumption DEF Record
<1>4. /\ Starts(t, fd, "CLOSE")
      /\ pending'[t] = [op |-> "CLOSE", fd |-> fd, s1 |-> Empty, file |-> path]
  <2>1. fds \subseteq {fd} /\ (Busy(t, fd) => fd \in fds) /\ Disturb(fds)
    BY DEF Close
  <2>2. Calls(t, "CLOSE", fd, Empty, path) /\ UNCHANGED <<proc, listener>>
    BY DEF Close
  <2> HIDE DEF fds, path
  <2> QED
    BY <1>0, <1>1, <1>3, <2>1, <2>2, CallStarts
<1>5. Followed(fd)' => \A p \in Procs : p # proc[t] => file[p][fd] = Absent
  BY DEF Close, Followed, Disturb, Shared, Open
<1>6. Followed(fd)' => \A p \in Procs : ~Open(p, fd)'
  BY <1>1, <1>2, <1>5 DEF Open
<1>7. Followed(fd)' => Followed(fd) /\ \A u \in Threads : ~Sends(u, fd, "OPEN")
  BY <1>4 DEF Starts, Followed, Sends
<1>8. Followed(fd)' /\ path # Absent => fd_to_dev[fd] = path_to_dev(path)
  BY <1>0, <1>7 DEF Inv, TableInv, Open
<1> HIDE DEF path
<1> QED
  BY <1>4, <1>6, <1>8, StartStep

-----------------------------------------------------------------------------
(* The listener's steps. *)

(* What input_loop() makes of a record on a number that is followed. *)
LEMMA Resolves ==
  ASSUME Inv, NEW t \in Threads, Receive(t)
  PROVE  /\ out'.file = pending[t].file
         /\ out'.followed =>
              \E fd \in Fds : Reporting(t, fd) /\ Followed(fd)
         /\ \A g \in Fds : g # pending[t].fd => fd_to_dev'[g] = fd_to_dev[g]
         /\ \A fd \in Fds : Followed(fd) /\ Reporting(t, fd) =>
              /\ pending[t].op = "OPEN" =>
                   fd_to_dev'[fd] = path_to_dev(pending[t].s1)
              /\ pending[t].op = "CLOSE" => fd_to_dev'[fd] = Absent
              /\ pending[t].op = "USE" => fd_to_dev'[fd] = fd_to_dev[fd]
              /\ pending[t].file # Absent =>
                   out'.device = Cut(path_to_dev(pending[t].file))
<1> DEFINE r == pending[t]
<1>0. TypeOK
  BY DEF Inv
<1>1. r \in Record /\ input_loop(r)
  BY <1>0 DEF TypeOK, Receive
<1>2. \A fd \in Fds : Sends(t, fd, "OPEN") /\ Followed(fd) =>
        r.s1 \in Paths /\ r.file = r.s1
  BY DEF Inv, OpenInv
<1>3. \A fd \in Fds : Followed(fd) /\ Reporting(t, fd) /\ r.op # "OPEN"
        /\ r.file # Absent => fd_to_dev[fd] = path_to_dev(r.file)
  BY DEF Inv, UseInv
<1>4. \A fd \in Fds : ~Sends(t, fd, "OTHER")
  BY DEF Inv, StartInv
<1>5. r # Absent
  BY DEF Receive
<1>6. \A path \in Paths : path_to_dev(path) \in String /\ path # Empty
  BY <1>0, PathType, PathsAssumption
<1>7. \A fd \in Fds : fd # FD_NONE
  BY FdsAssumption DEF FD_NONE
<1> HIDE DEF r
<1>8. /\ out'.file = r.file
      /\ out'.followed => r.fd \in Fds /\ Followed(r.fd)
  <2>1. PICK device : out' = Delivered(r, device)
    BY <1>1 DEF input_loop
  <2>2. r.fd \in Fds \cup {FD_NONE}
    BY <1>1 DEF Record
  <2> QED
    BY <2>1, <2>2 DEF Delivered, Followed
<1>9. \A g \in Fds : g # r.fd => fd_to_dev'[g] = fd_to_dev[g]
  BY <1>0, <1>1 DEF input_loop, register_file, deregister_file, TypeOK
<1>10. ASSUME NEW fd \in Fds, Followed(fd), r.fd = fd
       PROVE  /\ r.op = "OPEN" => fd_to_dev'[fd] = path_to_dev(r.s1)
              /\ r.op = "CLOSE" => fd_to_dev'[fd] = Absent
              /\ r.op = "USE" => fd_to_dev'[fd] = fd_to_dev[fd]
              /\ r.file # Absent => out'.device = Cut(path_to_dev(r.file))
  <2>0. fd # FD_NONE /\ Reporting(t, fd)
    BY <1>5, <1>7, <1>10 DEF Reporting, r
  <2>1. CASE r.op = "OPEN"
    <3>1. r.s1 \in Paths /\ r.file = r.s1
      BY <1>2, <1>10, <2>0, <2>1 DEF Sends, r
    <3>2. path_to_dev(r.s1) \in String /\ r.s1 # Empty
      BY <1>6, <3>1
    <3>3. fd_to_dev' = register_file(r)
      BY <1>1, <2>1 DEF input_loop
    <3>4. register_file(r)[fd] = path_to_dev(r.s1)
      BY <1>0, <1>10, <2>0, <3>2 DEF register_file, TypeOK
    <3>5. path_to_dev(r.s1) # Absent
      BY <3>2, AbsentAssumption
    <3>6. out'.device = resolve_file(r, register_file(r))
      BY <1>1, <2>1 DEF input_loop, Delivered
    <3>7. out'.device = Cut(path_to_dev(r.s1))
      BY <1>10, <2>0, <3>4, <3>5, <3>6 DEF resolve_file
    <3> QED
      BY <2>1, <3>1, <3>3, <3>4, <3>7
  <2>2. CASE r.op = "CLOSE" \/ r.op = "USE"
    <3>1. out'.device = resolve_file(r, fd_to_dev)
      BY <1>1, <2>2 DEF input_loop, Delivered
    <3>2. r.file # Absent => fd_to_dev[fd] = path_to_dev(r.file)
      BY <1>3, <1>10, <2>0, <2>2
    <3>3. r.file # Absent => path_to_dev(r.file) # Absent
      BY <1>1, <1>6, AbsentAssumption DEF Record
    <3>4. r.file # Absent => out'.device = Cut(path_to_dev(r.file))
      BY <1>10, <2>0, <3>1, <3>2, <3>3 DEF resolve_file
    <3>5. r.op = "CLOSE" => fd_to_dev'[fd] = Absent
      BY <1>0, <1>1, <1>10, <2>0 DEF input_loop, deregister_file, TypeOK
    <3>6. r.op = "USE" => fd_to_dev'[fd] = fd_to_dev[fd]
      BY <1>1 DEF input_loop
    <3> QED
      BY <2>2, <3>4, <3>5, <3>6
  <2>3. r.op \in {"OPEN", "CLOSE", "USE"}
    BY <1>1, <1>4, <2>0 DEF Sends, Record, r
  <2> QED
    BY <2>1, <2>2, <2>3
<1> QED
  BY <1>5, <1>8, <1>9, <1>10 DEF Reporting, r

LEMMA ReceiveStep ==
  ASSUME Inv, TypeOK', NEW t \in Threads, Receive(t)
  PROVE  Inv'
<1>0. \A path : path_to_dev(path)' = path_to_dev(path)
  BY SameMounts DEF Receive
<1>a. /\ lines = <<>> /\ UNCHANGED <<proc, lines, file, track>>
      /\ pending[t] # Absent /\ pending'[t] = Absent
      /\ \A u \in Threads : u # t => pending'[u] = pending[u]
  BY DEF Receive, Inv, TypeOK
<1>b. \A u \in Threads : \A fd \in Fds :
        Reporting(u, fd)' => u # t /\ Reporting(u, fd) /\ pending'[u] = pending[u]
  BY <1>a DEF Reporting
<1>c. \A fd \in Fds : /\ Followed(fd)' <=> Followed(fd)
                      /\ \A p \in Procs : Open(p, fd)' <=> Open(p, fd)
  BY <1>a DEF Followed, Open
<1>d. \A u \in Threads : \A fd \in Fds :
        Followed(fd) /\ Reporting(u, fd)' => pending[t].fd # fd
  BY <1>a, <1>b DEF Inv, AloneInv, Reporting
<1>1. StartInv'
  BY <1>a, <1>b DEF Inv, StartInv, Sends
<1>2. AloneInv'
  BY <1>b, <1>c DEF Inv, AloneInv
<1>3. OpenInv'
  BY <1>a, <1>b, <1>c DEF Inv, OpenInv, Sends
<1>4. TableInv'
  <2> SUFFICES ASSUME NEW fd \in Fds, NEW p \in Procs, Followed(fd), Open(p, fd),
                      \A u \in Threads : ~Sends(u, fd, "OPEN")'
               PROVE  fd_to_dev'[fd] = path_to_dev(file[p][fd])
    BY <1>0, <1>a, <1>c DEF TableInv
  <2>1. CASE pending[t].fd # fd
    <3>1. \A u \in Threads : ~Sends(u, fd, "OPEN")
      BY <1>a, <2>1 DEF Sends, Reporting
    <3> QED
      BY <2>1, <3>1, Resolves DEF Inv, TableInv
  <2>2. CASE pending[t].fd = fd
    <3>0. Reporting(t, fd)
      BY <1>a, <2>2 DEF Reporting
    <3>1. pending[t].op \in {"OPEN", "CLOSE", "USE"}
      BY <1>a, <3>0 DEF Inv, StartInv, Sends, TypeOK, Record
    <3>2. CASE pending[t].op = "OPEN"
      BY <3>0, <3>2, Resolves DEF Inv, OpenInv, Sends
    <3>3. CASE pending[t].op = "CLOSE"
      BY <3>0, <3>3 DEF Inv, UseInv
    <3>4. CASE pending[t].op = "USE"
      <4>1. \A u \in Threads : ~Sends(u, fd, "OPEN")
        BY <1>a, <3>4 DEF Sends, Reporting
      <4> QED
        BY <3>0, <3>4, <4>1, Resolves DEF Inv, TableInv
    <3> QED
      BY <3>1, <3>2, <3>3, <3>4
  <2> QED
    BY <2>1, <2>2
<1>5. UseInv'
  BY <1>0, <1>b, <1>c, <1>d, Resolves DEF Inv, UseInv
<1>6. OutInv'
  <2>1. out'.followed /\ out'.file # Absent
          => out'.device = Cut(path_to_dev(out'.file))
    BY Resolves
  <2> QED
    BY <1>0, <2>1 DEF OutInv, Cut
<1>7. NoStaleEntry'
  <2> SUFFICES ASSUME NEW fd \in Fds, track[fd] = "sound", fd_to_dev'[fd] # Absent
               PROVE  \/ \E p \in Procs : Open(p, fd)
                      \/ \E u \in Threads : Reporting(u, fd)' /\ pending'[u].op = "CLOSE"
    BY <1>a, <1>c DEF NoStaleEntry
  <2>0. Followed(fd)
    BY DEF Followed
  <2>1. CASE pending[t].fd # fd
    <3>1. \A u \in Threads : Reporting(u, fd) => Reporting(u, fd)' /\ pending'[u] = pending[u]
      BY <1>a, <2>1 DEF Reporting
    <3>2. fd_to_dev[fd] # Absent
      BY <2>1, Resolves
    <3> QED
      BY <3>1, <3>2 DEF Inv, NoStaleEntry
  <2>2. CASE pending[t].fd = fd
    <3>0. Reporting(t, fd)
      BY <1>a, <2>2 DEF Reporting
    <3>1. pending[t].op \in {"OPEN", "CLOSE", "USE"}
      BY <1>a, <3>0 DEF Inv, StartInv, Sends, TypeOK, Record
    <3>2. CASE pending[t].op = "OPEN"
      BY <2>0, <3>0, <3>2 DEF Inv, OpenInv, Sends
    <3>3. CASE pending[t].op = "CLOSE"
      BY <2>0, <3>0, <3>3, Resolves
    <3>4. CASE pending[t].op = "USE"
      <4>1. fd_to_dev[fd] # Absent
        BY <2>0, <3>0, <3>4, Resolves
      <4>2. \A u \in Threads : Reporting(u, fd) => u = t
        BY <2>0, <3>0 DEF Inv, AloneInv
      <4> QED
        BY <3>4, <4>1, <4>2 DEF Inv, NoStaleEntry
    <3> QED
      BY <3>1, <3>2, <3>3, <3>4
  <2> QED
    BY <2>1, <2>2
<1> QED
  BY <1>1, <1>2, <1>3, <1>4, <1>5, <1>6, <1>7 DEF Inv

LEMMA CaptureStep ==
  ASSUME Inv, TypeOK', CaptureLine
  PROVE  Inv'
<1>0. UNCHANGED <<proc, fd_to_dev, out, file, pending, track>> /\ lines # <<>>
  BY DEF CaptureLine
<1>1. ~out.followed /\ \A fd \in Fds : fd_to_dev[fd] = Absent
  BY <1>0 DEF Inv, StartInv
<1>2. \A path \in Paths : path_to_dev(path) # Absent
  BY PathType, PathsAssumption, AbsentAssumption DEF Inv
<1>3. \A fd \in Fds : \A p \in Procs : Followed(fd) /\ Open(p, fd)
        => \E t \in Threads : Sends(t, fd, "OPEN")
  <2>1. \A fd \in Fds : \A p \in Procs : Open(p, fd) => file[p][fd] \in Paths
    BY DEF Inv, TypeOK, Open
  <2> QED
    BY <1>1, <1>2, <2>1 DEF Inv, TableInv
<1>4. \A fd \in Fds : \A t \in Threads :
        Followed(fd) /\ Reporting(t, fd) /\ pending[t].op # "OPEN"
          => pending[t].file = Absent
  <2>1. \A fd \in Fds : \A t \in Threads :
          Reporting(t, fd) => pending[t].file \in Paths \cup {Absent}
    BY DEF Inv, TypeOK, Reporting, Record
  <2> QED
    BY <1>1, <1>2, <2>1 DEF Inv, UseInv
<1>5. StartInv' /\ AloneInv' /\ OpenInv' /\ NoStaleEntry'
  BY <1>0, <1>1 DEF Inv, StartInv, AloneInv, OpenInv, NoStaleEntry, Sends,
                    Reporting, Open, Followed
<1>6. TableInv'
  BY <1>0, <1>3 DEF TableInv, Sends, Reporting, Open, Followed
<1>7. UseInv'
  BY <1>0, <1>4 DEF Inv, UseInv, Reporting, Open, Followed
<1>8. OutInv'
  BY <1>0, <1>1 DEF OutInv
<1> QED
  BY <1>5, <1>6, <1>7, <1>8 DEF Inv

-----------------------------------------------------------------------------
LEMMA InitInv ==
  ASSUME Init
  PROVE  Inv
<1>1. TypeOK
  BY ThreadsAssumption, ReportsAssumption DEF Init, TypeOK, Empty, String
<1>2. StartInv /\ AloneInv /\ OpenInv /\ TableInv /\ UseInv /\ OutInv /\ NoStaleEntry
  BY DEF Init, StartInv, AloneInv, OpenInv, TableInv, UseInv, OutInv,
         NoStaleEntry, Sends, Reporting, Open
<1> QED
  BY <1>1, <1>2 DEF Inv

LEMMA NextInv ==
  ASSUME Inv, [Next]_vars
  PROVE  Inv'
<1>0. TypeOK'
  BY TypeStep DEF Inv
<1>1. CASE CaptureLine
  BY <1>0, <1>1, CaptureStep
<1>2. ASSUME NEW t \in Threads, Application(t)
      PROVE  Inv'
  BY <1>0, <1>2, QuietStep, FopenStep, UseStep, CloseStep DEF Application
<1>3. ASSUME NEW t \in Threads, Lose(t) \/ Receive(t)
      PROVE  Inv'
  BY <1>0, <1>3, LoseStep, ReceiveStep
<1>4. ASSUME NEW p \in Procs, Exit(p)
      PROVE  Inv'
  BY <1>0, <1>4, ExitStep
<1>5. CASE UNCHANGED vars
  <2>1. Shrinks
    BY <1>5 DEF vars, listener, Shrinks, Reporting, Followed, Open, Sends
  <2> QED
    BY <1>0, <2>1, ShrinkStep
<1> QED
  BY <1>1, <1>2, <1>3, <1>4, <1>5 DEF Next

(* The invariant holds in every state. *)
THEOREM Invariance == Spec => []Inv
<1>1. Init => Inv
  BY InitInv
<1>2. Inv /\ [Next]_vars => Inv'
  BY NextInv
<1> QED
  BY <1>1, <1>2, PTL DEF Spec

(* The types of the listener's tables and of the processes' state hold.    *)
THEOREM TypeCorrect == Spec => []TypeOK
<1>1. Inv => TypeOK
  BY DEF Inv
<1> QED
  BY <1>1, Invariance, PTL

(* A record gets the device of its file, for any number of processes,      *)
(* threads, descriptors and mount points, under the conditions DeviceRight *)
(* states.                                                                 *)
THEOREM DeviceIsRight == Spec => []DeviceRight
<1>1. Inv => DeviceRight
  BY PlainPath DEF Inv, OutInv, DeviceRight, Followed
<1> QED
  BY <1>1, Invariance, PTL

(* fd_to_dev keeps a number whose closes are reported only while the       *)
(* number is open or its close is on the way.                              *)
THEOREM NothingStale == Spec => []NoStaleEntry
<1>1. Inv => NoStaleEntry
  BY DEF Inv
<1> QED
  BY <1>1, Invariance, PTL
=============================================================================
