------------------------------ MODULE Resolver ------------------------------
(***************************************************************************)
(* How mq_listener finds the device a record is about: the table of mount  *)
(* points that capture_device_info() of resolver.cpp reads from lsblk, the *)
(* table fd_to_dev that input_loop() keeps from the records of opens and   *)
(* closes, and the processes whose descriptors it mirrors.                 *)
(*                                                                         *)
(* A thread's intercepted call is two steps: the C library does the work,  *)
(* then record() reports it.  A report reaches the listener in the order   *)
(* of the sends or is lost (module IpcQueue: the queue is a lossy FIFO);   *)
(* the listener handles one record after the other, so that its tables     *)
(* depend on that order only and a send and its receipt are one step here. *)
(* What each call passes as fd, and as s1, is what                         *)
(* monitored_functions.data and generate_interposer.sh make of it: open()  *)
(* and creat() pass no descriptor, fclose() and dup() neither.  s1 is the  *)
(* path as the application wrote it: where the file is, is another matter  *)
(* (location).                                                             *)
(*                                                                         *)
(* Strings are sequences of characters, characters are numbers in the      *)
(* order of their codes.                                                   *)
(***************************************************************************)
EXTENDS Integers, Sequences, FiniteSets, SequencesExt

CONSTANTS
  Procs,     \* the monitored processes
  Threads,   \* their threads
  Owners,    \* which process each thread may belong to
  Fds,       \* the descriptors a process has beside 0, 1 and 2
  Paths,     \* the paths that are opened
  location,  \* where the file is that a path leads to, from the root
  DEVICE_LEN,
  Reports,   \* what lsblk may print: lines, of tokens
  Absent     \* what a map finds for a key it does not hold

(* The descriptor of a call that passes none. *)
FD_NONE == -1

String == Seq(Nat)
Slash == 0
Empty == <<>>
Root == <<Slash>>

(* A token of a line: whether it has the form KEY="value", and the value.  *)
Token == [quoted : BOOLEAN, value : String]

(* A record of a call.  file is history: the path fd was open on then.    *)
Record == [op : {"OPEN", "CLOSE", "USE", "OTHER"}, fd : Fds \cup {FD_NONE},
           s1 : Paths \cup {Empty}, file : Paths \cup {Absent}]

ASSUME ThreadsAssumption == Owners \subseteq [Threads -> Procs]

ASSUME FdsAssumption == Fds \subseteq Nat

ASSUME PathsAssumption == Paths \subseteq String \ {Empty}

ASSUME LocationAssumption == location \in [Paths -> String]

ASSUME DeviceLenAssumption == DEVICE_LEN \in Nat

ASSUME ReportsAssumption == Reports \subseteq Seq(Seq(Token))

ASSUME AbsentAssumption == Absent \notin String /\ Absent \notin Record

VARIABLES
  proc,                   \* the process of a thread
  lines,                  \* output of lsblk that is not read yet
  fs_mount_path_to_dev,
  root_fs_dev,
  fd_to_dev,
  file,                   \* file[p][fd]: the path fd of p is open on, or Absent
  pending,                \* per thread, the record of the call being made
  out,                    \* the device of the record that was handed on last
  track                   \* history: how well the records follow a descriptor

listener == <<lines, fs_mount_path_to_dev, root_fs_dev, fd_to_dev, out>>
vars == <<proc, listener, file, pending, track>>

(* followed is history: whether the records told what r.fd was. *)
Delivered(r, device) ==
  [file |-> r.file, device |-> device,
   followed |-> r.fd # FD_NONE /\ track[r.fd] # "disturbed"]

Init ==
  /\ proc \in Owners
  /\ lines \in Reports
  /\ fs_mount_path_to_dev = [m \in {} |-> Empty]
  /\ root_fs_dev = Empty
  /\ fd_to_dev = [fd \in Fds |-> Absent]
  /\ file = [p \in Procs |-> [fd \in Fds |-> Absent]]
  /\ pending = [t \in Threads |-> Absent]
  /\ out = [file |-> Absent, device |-> Empty, followed |-> FALSE]
  /\ track = [fd \in Fds |-> "sound"]

-----------------------------------------------------------------------------
(* The mount points. *)

(* Only the tokens of the form KEY="value" count as fields. *)
Quoted(line, i) == {k \in 1..i : line[k].quoted}

Numbered(line, j) ==
  {i \in DOMAIN line : line[i].quoted /\ Cardinality(Quoted(line, i)) = j}

Field(line, j) ==
  IF Numbered(line, j) = {}
  THEN Empty
  ELSE line[CHOOSE i \in Numbered(line, j) : TRUE].value

parse_device_fields(line) ==
  [fields |-> Cardinality(Quoted(line, Len(line))),
   device_name |-> Field(line, 1), mount_point |-> Field(line, 7)]

(* One line of capture_device_info(), which main() calls before the input  *)
(* loop is entered.                                                        *)
CaptureLine ==
  /\ lines # <<>>
  /\ lines' = Tail(lines)
  /\ LET dc == parse_device_fields(Head(lines))
     IN  \/ /\ dc.fields # 7
            /\ UNCHANGED <<root_fs_dev, fs_mount_path_to_dev>>
         \/ /\ dc.fields = 7 /\ dc.mount_point = Root
            /\ root_fs_dev' = dc.device_name
            /\ UNCHANGED fs_mount_path_to_dev
         \/ /\ dc.fields = 7 /\ dc.mount_point # Root
            /\ fs_mount_path_to_dev' =
                 [m \in DOMAIN fs_mount_path_to_dev \cup {dc.mount_point} |->
                    IF m = dc.mount_point THEN dc.device_name
                                          ELSE fs_mount_path_to_dev[m]]
            /\ UNCHANGED root_fs_dev
  /\ UNCHANGED <<proc, fd_to_dev, out, file, pending, track>>

(* std::string's operator<, the order of the map. *)
Before(a, b) ==
  \/ IsStrictPrefix(a, b)
  \/ \E i \in DOMAIN a \cap DOMAIN b :
       a[i] < b[i] /\ \A j \in 1..(i - 1) : a[j] = b[j]

Matching(path) == {m \in DOMAIN fs_mount_path_to_dev : IsPrefix(m, path)}

(* The first mount point in map order that the path begins with. *)
path_to_dev(path) ==
  IF Matching(path) = {}
  THEN root_fs_dev
  ELSE fs_mount_path_to_dev[CHOOSE m \in Matching(path) :
                              \A n \in Matching(path) \ {m} : Before(m, n)]

-----------------------------------------------------------------------------
(* The listener's loop, for record r. *)

register_file(r) ==
  IF r.fd # FD_NONE /\ r.s1 # Empty
  THEN [fd_to_dev EXCEPT ![r.fd] = path_to_dev(r.s1)]
  ELSE fd_to_dev

\* Mutant: the entry is kept.
deregister_file_kept(r) == fd_to_dev

deregister_file(r) ==
  IF r.fd # FD_NONE THEN [fd_to_dev EXCEPT ![r.fd] = Absent] ELSE fd_to_dev

(* strncpy() into a field of DEVICE_LEN characters.  The padding behind    *)
(* the field is zero in every record, so that a full field ends there.     *)
Cut(device) ==
  IF Len(device) <= DEVICE_LEN THEN device ELSE SubSeq(device, 1, DEVICE_LEN)

\* Mutant: end() is not looked at.
resolve_file_unchecked(r, map) ==
  CASE r.fd = FD_NONE      -> Empty
    [] map[r.fd] = Absent  -> Absent
    [] OTHER               -> Cut(map[r.fd])

(* What resolve_file() puts into the record, whose device is empty. *)
resolve_file(r, map) ==
  IF r.fd # FD_NONE /\ map[r.fd] # Absent THEN Cut(map[r.fd]) ELSE Empty

\* Mutant: a file is resolved before it is registered.
input_loop_late(r) ==
  LET map == CASE r.op = "OPEN"  -> register_file(r)
               [] r.op = "CLOSE" -> deregister_file(r)
               [] OTHER          -> fd_to_dev
  IN  /\ fd_to_dev' = map
      /\ out' = Delivered(r, resolve_file(r, fd_to_dev))

(* USE stands for the domains FILE_READ, FILE_WRITE, FILE_METADATA,        *)
(* FILE_SPACE and SYNCS, OTHER for the ones that are not looked at.        *)
input_loop(r) ==
  \/ /\ r.op = "OPEN"
     /\ fd_to_dev' = register_file(r)
     /\ out' = Delivered(r, resolve_file(r, register_file(r)))
  \/ /\ r.op = "CLOSE"
     /\ fd_to_dev' = deregister_file(r)
     /\ out' = Delivered(r, resolve_file(r, fd_to_dev))
  \/ /\ r.op = "USE"
     /\ out' = Delivered(r, resolve_file(r, fd_to_dev))
     /\ UNCHANGED fd_to_dev
  \/ /\ r.op = "OTHER"
     /\ out' = Delivered(r, Empty)
     /\ UNCHANGED fd_to_dev

-----------------------------------------------------------------------------
(* The processes. *)

Open(p, fd) == file[p][fd] # Absent

Reporting(t, fd) == pending[t] # Absent /\ pending[t].fd = fd

(* Another thread is reporting a call on a descriptor of that number. *)
Busy(t, fd) == \E u \in Threads \ {t} : Reporting(u, fd)

(* Another process has a descriptor of that number. *)
Shared(p, fd) == \E q \in Procs \ {p} : Open(q, fd)

(* The records no longer tell what the descriptors of these numbers are.   *)
Disturb(fds) ==
  track' = [fd \in Fds |-> IF fd \in fds THEN "disturbed" ELSE track[fd]]

(* The listener may keep entries for these numbers: they were closed, and  *)
(* no record of it arrives.                                                *)
Leave(fds) ==
  track' = [fd \in Fds |->
              IF fd \in fds /\ track[fd] = "sound" THEN "left" ELSE track[fd]]

(* The number is bound anew and its record will tell the listener, unless  *)
(* other reports on the number, or other processes that have it, get in    *)
(* between.                                                                *)
Follow(t, fd) ==
  track' = [track EXCEPT ![fd] = IF Busy(t, fd) \/ Shared(proc[t], fd)
                                 THEN "disturbed" ELSE "sound"]

Calls(t, op, fd, s1, path) ==
  /\ pending[t] = Absent
  /\ pending' = [pending EXCEPT
                   ![t] = [op |-> op, fd |-> fd, s1 |-> s1, file |-> path]]

Binds(p, fd, path) == file' = [file EXCEPT ![p][fd] = path]

(* The kernel hands out the lowest free descriptor. *)
Lowest(p, fd) ==
  ~Open(p, fd) /\ \A g \in Fds : g < fd => Open(p, g)

(* fopen(), fopen64() *)
Fopen(t, fd, path) ==
  /\ Lowest(proc[t], fd)
  /\ Binds(proc[t], fd, path)
  /\ Calls(t, "OPEN", fd, path, path)
  /\ Follow(t, fd)
  /\ UNCHANGED <<proc, listener>>

FopenFails(t, path) ==
  /\ Calls(t, "OPEN", FD_NONE, path, Absent)
  /\ UNCHANGED <<proc, listener, file, track>>

(* The calls that bind a number and do not register it.  OPEN is open(),   *)
(* open64() and creat(), whose records hold no descriptor.  OTHER is what  *)
(* input_loop() does not look at, opendir() and socket(), and what is not  *)
(* intercepted, openat(), pipe() and freopen(), of which no record comes;  *)
(* freopen() keeps the number of its stream.                               *)
OpenFile(t, op, fd, path) ==
  /\ Lowest(proc[t], fd) \/ (op = "OTHER" /\ Open(proc[t], fd))
  /\ Binds(proc[t], fd, path)
  /\ Calls(t, op, FD_NONE, path, Absent)
  /\ Disturb({fd})
  /\ UNCHANGED <<proc, listener>>

(* dup(), dup2(), dup3() *)
Dup(t, oldfd, newfd) ==
  /\ oldfd # newfd /\ Open(proc[t], oldfd)
  /\ Binds(proc[t], newfd, file[proc[t]][oldfd])
  /\ Calls(t, "OTHER", FD_NONE, Empty, Absent)
  /\ Disturb({newfd})
  /\ UNCHANGED <<proc, listener>>

(* read(), write(), fread(), fsync() and the like *)
Use(t, fd) ==
  /\ Open(proc[t], fd)
  /\ Calls(t, "USE", fd, Empty, file[proc[t]][fd])
  /\ Disturb({g \in {fd} : Busy(t, g)})
  /\ UNCHANGED <<proc, listener, file>>

(* close(), also of a descriptor that is not open. *)
Close(t, fd) ==
  /\ Binds(proc[t], fd, Absent)
  /\ Calls(t, "CLOSE", fd, Empty, file[proc[t]][fd])
  /\ Disturb({g \in {fd} : Busy(t, g) \/ Shared(proc[t], g)})
  /\ UNCHANGED <<proc, listener>>

(* fclose(): the descriptor is not reported. *)
Fclose(t, fd) ==
  /\ Open(proc[t], fd)
  /\ Binds(proc[t], fd, Absent)
  /\ Calls(t, "CLOSE", FD_NONE, Empty, Absent)
  /\ Leave({fd})
  /\ UNCHANGED <<proc, listener>>

(* fork() by thread t: the child q inherits the descriptors. *)
Fork(t, q) ==
  /\ \E u \in Threads : proc[u] = q
  /\ \A fd \in Fds : ~Open(q, fd)
  /\ \A u \in Threads : proc[u] = q => pending[u] = Absent
  /\ file' = [file EXCEPT ![q] = file[proc[t]]]
  /\ Calls(t, "OTHER", FD_NONE, Empty, Absent)
  /\ Disturb({fd \in Fds : Open(proc[t], fd)})
  /\ UNCHANGED <<proc, listener>>

(* A process ends; the kernel closes its files. *)
Exit(p) ==
  /\ file' = [file EXCEPT ![p] = [fd \in Fds |-> Absent]]
  /\ pending' = [t \in Threads |-> IF proc[t] = p THEN Absent ELSE pending[t]]
  /\ Leave({fd \in Fds : \/ Open(p, fd)
                         \/ \E t \in Threads : proc[t] = p /\ Reporting(t, fd)})
  /\ UNCHANGED <<proc, listener>>

(* The gates of record() drop the record, or the queue does. *)
Lose(t) ==
  /\ pending[t] # Absent
  /\ pending' = [pending EXCEPT ![t] = Absent]
  /\ \/ pending[t].op = "OPEN" /\ Disturb({pending[t].fd})
     \/ pending[t].op = "CLOSE" /\ Leave({pending[t].fd})
     \/ pending[t].op \in {"USE", "OTHER"} /\ UNCHANGED track
  /\ UNCHANGED <<proc, listener, file>>

(* The record arrives: the next pass of input_loop(). *)
Receive(t) ==
  /\ lines = <<>>
  /\ pending[t] # Absent
  /\ pending' = [pending EXCEPT ![t] = Absent]
  /\ input_loop(pending[t])
  /\ UNCHANGED <<proc, lines, fs_mount_path_to_dev, root_fs_dev, file, track>>

Application(t) ==
  \/ \E path \in Paths :
       \/ FopenFails(t, path)
       \/ \E fd \in Fds :
            \/ Fopen(t, fd, path)
            \/ \E op \in {"OPEN", "OTHER"} : OpenFile(t, op, fd, path)
  \/ \E fd \in Fds :
       \/ Use(t, fd) \/ Close(t, fd) \/ Fclose(t, fd)
       \/ \E newfd \in Fds : Dup(t, fd, newfd)
  \/ \E q \in Procs : Fork(t, q)

Next ==
  \/ CaptureLine
  \/ \E t \in Threads : Application(t) \/ Lose(t) \/ Receive(t)
  \/ \E p \in Procs : Exit(p)

Spec == Init /\ [][Next]_vars

-----------------------------------------------------------------------------
(* Every variable keeps its type; in particular a record is never handed   *)
(* on with the map's end() for a device.                                   *)
TypeOK ==
  /\ proc \in [Threads -> Procs]
  /\ lines \in Seq(Seq(Token))
  /\ DOMAIN fs_mount_path_to_dev \subseteq String
  /\ fs_mount_path_to_dev \in [DOMAIN fs_mount_path_to_dev -> String]
  /\ root_fs_dev \in String
  /\ fd_to_dev \in [Fds -> String \cup {Absent}]
  /\ file \in [Procs -> [Fds -> Paths \cup {Absent}]]
  /\ pending \in [Threads -> Record \cup {Absent}]
  /\ out \in [file : Paths \cup {Absent}, device : String, followed : BOOLEAN]
  /\ track \in [Fds -> {"sound", "left", "disturbed"}]

(* The mount point m holds the file at path: a prefix that ends where a    *)
(* name of the path ends.                                                  *)
Holds(m, path) ==
  /\ m # Empty /\ IsPrefix(m, path)
  /\ Len(path) > Len(m) => path[Len(m) + 1] = Slash

Holders(path) == {m \in DOMAIN fs_mount_path_to_dev : Holds(m, path)}

(* The device the file is on that a path leads to: that of the innermost   *)
(* mount point above the place of the file.                                *)
DeviceOf(path) ==
  LET above == Holders(location[path])
  IN  IF above = {}
      THEN root_fs_dev
      ELSE fs_mount_path_to_dev[CHOOSE m \in above :
                                  \A n \in above : Len(n) <= Len(m)]

(* The path is the place of the file: not a relative one, none with "..",  *)
(* none that leads through a link.  At most one mount point is a prefix of *)
(* it, and ends where a name ends: no nested mount points, no /data beside *)
(* /data2, no disk that is not mounted.                                    *)
Plain(path) ==
  /\ location[path] = path
  /\ \A m, n \in Matching(path) : m = n /\ Holds(m, path)

(* A record that is handed on has the device its file was on when the call *)
(* was made, up to DEVICE_LEN characters of its name, if the path is plain *)
(* and the number was followed: it was bound by an fopen() whose record    *)
(* was not lost, when no other thread was reporting a call on it and no    *)
(* other process had it, and since then it was not duplicated onto or      *)
(* inherited by a fork(), and no two threads were calling on it at once.   *)
(* However the threads' reports are interleaved with their calls, whatever *)
(* befell the number before and other numbers at any time, the device is   *)
(* right from that fopen() on.  Devices whose names agree in DEVICE_LEN    *)
(* characters are not told apart.                                          *)
DeviceRight ==
  out.followed /\ out.file # Absent /\ Plain(out.file)
    => out.device = Cut(DeviceOf(out.file))

(* What fd_to_dev keeps behind a number that is not open, for an open() to *)
(* inherit, comes from a close since the last fopen() of the number that   *)
(* was not reported with it (fclose(), a lost record, the end of the       *)
(* process), or the number was disturbed since.  Every fopen() that the    *)
(* listener can follow makes up for what was left there.                   *)
NoStaleEntry ==
  \A fd \in Fds :
    track[fd] = "sound" /\ fd_to_dev[fd] # Absent =>
      \/ \E p \in Procs : Open(p, fd)
      \/ \E t \in Threads : Reporting(t, fd) /\ pending[t].op = "CLOSE"
=============================================================================
