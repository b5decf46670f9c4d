----------------------------- MODULE TcpSender -----------------------------
(***************************************************************************)
(* record() of io_monitor/io_monitor.c in a process with several threads   *)
(* that reports over TCP (MESSAGE_QUEUE_PATH is not set).  To report a     *)
(* call, send_tcp_socket() makes calls of its own, socket(), connect(),    *)
(* write() and close(), and these are intercepted as well: record() is     *)
(* entered again.  It keeps itself out by the descriptor of its socket,    *)
(* socket_fd, one static for all threads and all nested calls.             *)
(*                                                                         *)
(* call[t] holds the arguments of a call to record() that is about to look *)
(* at its gates; depth[t] is how many calls of record() are nested in      *)
(* thread t, and pc[t][l], sockfd[t][l] are the place and the local of     *)
(* send_tcp_socket() in the l-th of them.  MaxDepth is the size of the     *)
(* stack.  Pause and time-based sampling are off (see RecordGate); the     *)
(* count of the count-based sampling is shared by the threads without a    *)
(* lock.  Peer and kernel are modelled from how the code uses them.        *)
(***************************************************************************)
EXTENDS Integers

CONSTANTS
  Threads,      \* the threads of the application
  DomainSets,   \* what MONITOR_DOMAINS may be
  Frequencies,  \* what COUNT_SAMPLE_FREQUENCY may be, 0 if it is not set
  StartFiles,   \* the descriptors that are open when the process starts
  AppFds,       \* the descriptors the application opens, writes and closes
  MaxFd,        \* the largest descriptor
  MaxDepth,     \* calls of record() that fit on a stack
  MaxCount      \* bound on the shared counter

FD_NONE == -1
Fds == 0..MaxFd
Levels == 1..MaxDepth

Domains == {"FILE_OPEN_CLOSE", "FILE_WRITE", "SOCKETS"}

(* alive: the call has found failed_socket_connections to be zero. *)
Call == [dom : Domains, fd : Fds \cup {FD_NONE}, alive : BOOLEAN]

NoCall == [dom |-> "NONE", fd |-> FD_NONE, alive |-> FALSE]

(* The places of record() after its gates: the sampler, then the sender.   *)
Sampler == {"count", "bump", "check", "reset"}
Bound == {"connect", "header", "body", "refused", "close"}
Places == Sampler \cup Bound \cup {"socket", "opened", "closed"}

ASSUME DomainsAssumption == DomainSets \subseteq SUBSET Domains

ASSUME FrequenciesAssumption == Frequencies \subseteq Nat

ASSUME FdsAssumption == MaxFd \in Nat /\ StartFiles \cup AppFds \subseteq Fds

ASSUME DepthAssumption == MaxDepth \in Nat \ {0}

ASSUME CountAssumption == MaxCount \in Nat

VARIABLES
  domains, frequency,              \* the environment, read at start
  failed_socket_connections,
  socket_fd,
  count_intercepts_since_last_report,
  call, depth, pc, sockfd,
  n,           \* a thread's register for the counter
  files,       \* the application's descriptors
  sockets,     \* the sender's descriptors
  stack,       \* "ok", or "overflow" when the process has crashed
  \* History variables: not state of the program.
  failures,    \* connections that failed, per thread
  overlapped,  \* a call came to record() while another thread was in it
  mistaken     \* a call of the application was taken for the sender's

environment == <<domains, frequency>>
gates == <<failed_socket_connections, socket_fd>>
kernel == <<files, sockets>>
history == <<failures, overlapped, mistaken>>
vars == <<environment, gates, count_intercepts_since_last_report, call, depth,
          pc, sockfd, n, kernel, stack, history>>

Init ==
  /\ domains \in DomainSets
  /\ frequency \in Frequencies
  /\ failed_socket_connections = 0
  /\ socket_fd = FD_NONE
  /\ count_intercepts_since_last_report = 0
  /\ call = [t \in Threads |-> NoCall]
  /\ depth = [t \in Threads |-> 0]
  /\ pc = [t \in Threads |-> [l \in Levels |-> "socket"]]
  /\ sockfd = [t \in Threads |-> [l \in Levels |-> FD_NONE]]
  /\ n = [t \in Threads |-> 0]
  /\ files = StartFiles
  /\ sockets = {}
  /\ stack = "ok"
  /\ failures = [t \in Threads |-> 0]
  /\ overlapped = FALSE
  /\ mistaken = FALSE

-----------------------------------------------------------------------------
(* Thread t is at place p of its innermost call of record(). *)
At(t, p) ==
  stack = "ok" /\ call[t] = NoCall /\ depth[t] > 0 /\ pc[t][depth[t]] = p

Goto(t, p) == pc' = [pc EXCEPT ![t][depth[t]] = p]

Socket(t) == sockfd[t][depth[t]]

(* An intercepted function has done its work and calls record(). *)
Intercepted(t, dom, fd) ==
  call' = [call EXCEPT ![t] = [dom |-> dom, fd |-> fd, alive |-> FALSE]]

(* record() returns: its frame is popped. *)
Return(t) ==
  /\ depth' = [depth EXCEPT ![t] = @ - 1]
  /\ pc' = [pc EXCEPT ![t][depth[t]] = "socket"]
  /\ sockfd' = [sockfd EXCEPT ![t][depth[t]] = FD_NONE]

(* The kernel hands out the lowest free descriptor. *)
Free(fd) ==
  fd \notin files \cup sockets /\ \A g \in Fds : g < fd => g \in files \cup sockets

-----------------------------------------------------------------------------
(* The application. *)
Outside(t) == stack = "ok" /\ call[t] = NoCall /\ depth[t] = 0

(* open() passes no descriptor on. *)
AppOpen(t, fd) ==
  /\ Outside(t) /\ Free(fd)
  /\ files' = files \cup {fd}
  /\ Intercepted(t, "FILE_OPEN_CLOSE", FD_NONE)
  /\ UNCHANGED <<environment, gates, count_intercepts_since_last_report, depth,
                 pc, sockfd, n, sockets, stack, history>>

AppWrite(t, fd) ==
  /\ Outside(t) /\ fd \in files
  /\ Intercepted(t, "FILE_WRITE", fd)
  /\ UNCHANGED <<environment, gates, count_intercepts_since_last_report, depth,
                 pc, sockfd, n, kernel, stack, history>>

AppClose(t, fd) ==
  /\ Outside(t) /\ fd \in files
  /\ files' = files \ {fd}
  /\ Intercepted(t, "FILE_OPEN_CLOSE", fd)
  /\ UNCHANGED <<environment, gates, count_intercepts_since_last_report, depth,
                 pc, sockfd, n, sockets, stack, history>>

-----------------------------------------------------------------------------
(* The gates of record().  The first one reads failed_socket_connections,  *)
(* the second one socket_fd: other threads may change them in between.     *)
Waiting(t, alive) == stack = "ok" /\ call[t] # NoCall /\ call[t].alive = alive

Overlap(t) == overlapped' = (overlapped \/ \E u \in Threads \ {t} : depth[u] > 0)

Pass(t) == call' = [call EXCEPT ![t].alive = TRUE]

\* Mutant: the dead peer is not looked at.
PeerAliveUnread(t) ==
  /\ Waiting(t, FALSE)
  /\ Pass(t)
  /\ UNCHANGED <<environment, gates, count_intercepts_since_last_report, depth,
                 pc, sockfd, n, kernel, stack, history>>

PeerAlive(t) ==
  /\ Waiting(t, FALSE) /\ failed_socket_connections = 0
  /\ Pass(t)
  /\ UNCHANGED <<environment, gates, count_intercepts_since_last_report, depth,
                 pc, sockfd, n, kernel, stack, history>>

PeerDead(t) ==
  /\ Waiting(t, FALSE) /\ failed_socket_connections > 0
  /\ call' = [call EXCEPT ![t] = NoCall]
  /\ Overlap(t)
  /\ UNCHANGED <<environment, gates, count_intercepts_since_last_report, depth,
                 pc, sockfd, n, kernel, stack, failures, mistaken>>

TakenForOwn(c) == socket_fd # FD_NONE /\ c.fd = socket_fd

\* Mutant: the sender's own descriptor is not looked at.
IgnoredForeign(c) == c.fd \in 0..2 \/ c.dom \notin domains

Ignored(c) == TakenForOwn(c) \/ c.fd \in 0..2 \/ c.dom \notin domains

Ignore(t) ==
  /\ Waiting(t, TRUE) /\ Ignored(call[t])
  /\ call' = [call EXCEPT ![t] = NoCall]
  /\ mistaken' = (mistaken \/ (depth[t] = 0 /\ TakenForOwn(call[t])))
  /\ Overlap(t)
  /\ UNCHANGED <<environment, gates, count_intercepts_since_last_report, depth,
                 pc, sockfd, n, kernel, stack, failures>>

Enter(t) ==
  /\ Waiting(t, TRUE) /\ ~Ignored(call[t])
  /\ depth[t] < MaxDepth
  /\ call' = [call EXCEPT ![t] = NoCall]
  /\ depth' = [depth EXCEPT ![t] = @ + 1]
  /\ pc' = [pc EXCEPT ![t][depth[t] + 1] =
              IF frequency = 0 THEN "socket" ELSE "count"]
  /\ sockfd' = [sockfd EXCEPT ![t][depth[t] + 1] = FD_NONE]
  /\ Overlap(t)
  /\ UNCHANGED <<environment, gates, count_intercepts_since_last_report, n,
                 kernel, stack, failures, mistaken>>

Overflow(t) ==
  /\ Waiting(t, TRUE) /\ ~Ignored(call[t])
  /\ depth[t] = MaxDepth
  /\ stack' = "overflow"
  /\ UNCHANGED <<environment, gates, count_intercepts_since_last_report, call,
                 depth, pc, sockfd, n, kernel, history>>

-----------------------------------------------------------------------------
(* Count-based sampling: the counter is read, incremented and written back *)
(* without a lock; the comparison may use the register or read it again.   *)
Count(t) ==
  /\ At(t, "count")
  /\ count_intercepts_since_last_report < MaxCount
  /\ n' = [n EXCEPT ![t] = count_intercepts_since_last_report + 1]
  /\ Goto(t, "bump")
  /\ UNCHANGED <<environment, gates, count_intercepts_since_last_report, call,
                 depth, sockfd, kernel, stack, history>>

Bump(t) ==
  /\ At(t, "bump")
  /\ count_intercepts_since_last_report' = n[t]
  /\ Goto(t, "check")
  /\ UNCHANGED <<environment, gates, call, depth, sockfd, n, kernel, stack,
                 history>>

Seen(t) == {n[t], count_intercepts_since_last_report}

SkipByCount(t) ==
  /\ At(t, "check")
  /\ \E count \in Seen(t) : count < frequency
  /\ n' = [n EXCEPT ![t] = 0]
  /\ Return(t)
  /\ UNCHANGED <<environment, gates, count_intercepts_since_last_report, call,
                 kernel, stack, history>>

PassCount(t) ==
  /\ At(t, "check")
  /\ \E count \in Seen(t) : count >= frequency
  /\ Goto(t, "reset")
  /\ UNCHANGED <<environment, gates, count_intercepts_since_last_report, call,
                 depth, sockfd, n, kernel, stack, history>>

\* Mutant: the counter is not reset.
ResetForgotten(t) ==
  /\ At(t, "reset")
  /\ n' = [n EXCEPT ![t] = 0]
  /\ Goto(t, "socket")
  /\ UNCHANGED <<environment, gates, count_intercepts_since_last_report, call,
                 depth, sockfd, kernel, stack, history>>

\* Mutant: the counter is reset to one below its first value.
ResetBelow(t) ==
  /\ At(t, "reset")
  /\ count_intercepts_since_last_report' = -1
  /\ n' = [n EXCEPT ![t] = 0]
  /\ Goto(t, "socket")
  /\ UNCHANGED <<environment, gates, call, depth, sockfd, kernel, stack,
                 history>>

Reset(t) ==
  /\ At(t, "reset")
  /\ count_intercepts_since_last_report' = 0
  /\ n' = [n EXCEPT ![t] = 0]
  /\ Goto(t, "socket")
  /\ UNCHANGED <<environment, gates, call, depth, sockfd, kernel, stack,
                 history>>

-----------------------------------------------------------------------------
(* send_tcp_socket() *)
SetSocket(t, fd) == sockfd' = [sockfd EXCEPT ![t][depth[t]] = fd]

OpenSocket(t, fd) ==
  /\ At(t, "socket") /\ Free(fd)
  /\ sockets' = sockets \cup {fd}
  /\ SetSocket(t, fd)
  /\ Intercepted(t, "SOCKETS", fd)
  /\ Goto(t, "opened")
  /\ UNCHANGED <<environment, gates, count_intercepts_since_last_report, depth,
                 n, files, stack, history>>

SocketFails(t) ==
  /\ At(t, "socket")
  /\ SetSocket(t, FD_NONE)
  /\ Intercepted(t, "SOCKETS", FD_NONE)
  /\ Goto(t, "opened")
  /\ UNCHANGED <<environment, gates, count_intercepts_since_last_report, depth,
                 n, kernel, stack, history>>

(* sockfd > 0 is false: a socket that got descriptor 0 stays open. *)
NoSocket(t) ==
  /\ At(t, "opened") /\ Socket(t) <= 0
  /\ Return(t)
  /\ UNCHANGED <<environment, gates, count_intercepts_since_last_report, call,
                 n, kernel, stack, history>>

Remember(t) ==
  /\ At(t, "opened") /\ Socket(t) > 0
  /\ socket_fd' = Socket(t)
  /\ Goto(t, "connect")
  /\ UNCHANGED <<environment, failed_socket_connections,
                 count_intercepts_since_last_report, call, depth, sockfd, n,
                 kernel, stack, history>>

(* connect() succeeds or fails. *)
Connect(t) ==
  /\ At(t, "connect")
  /\ Intercepted(t, "SOCKETS", Socket(t))
  /\ Goto(t, "header") \/ Goto(t, "refused")
  /\ UNCHANGED <<environment, gates, count_intercepts_since_last_report, depth,
                 sockfd, n, kernel, stack, history>>

(* ++ without a lock: another thread's increment may be lost. *)
Refused(t) ==
  /\ At(t, "refused")
  /\ failed_socket_connections' \in 1..(failed_socket_connections + 1)
  /\ failures' = [failures EXCEPT ![t] = @ + 1]
  /\ Goto(t, "close")
  /\ UNCHANGED <<environment, socket_fd, count_intercepts_since_last_report,
                 call, depth, sockfd, n, kernel, stack, overlapped, mistaken>>

(* The header is written, in full or not. *)
WriteHeader(t) ==
  /\ At(t, "header")
  /\ Intercepted(t, "FILE_WRITE", Socket(t))
  /\ Goto(t, "body") \/ Goto(t, "close")
  /\ UNCHANGED <<environment, gates, count_intercepts_since_last_report, depth,
                 sockfd, n, kernel, stack, history>>

WriteBody(t) ==
  /\ At(t, "body")
  /\ Intercepted(t, "FILE_WRITE", Socket(t))
  /\ Goto(t, "close")
  /\ UNCHANGED <<environment, gates, count_intercepts_since_last_report, depth,
                 sockfd, n, kernel, stack, history>>

\* Mutant: the socket that socket_fd names is closed.
CloseRemembered(t) ==
  /\ At(t, "close")
  /\ sockets' = sockets \ {socket_fd}
  /\ Intercepted(t, "FILE_OPEN_CLOSE", Socket(t))
  /\ Goto(t, "closed")
  /\ UNCHANGED <<environment, gates, count_intercepts_since_last_report, depth,
                 sockfd, n, files, stack, history>>

CloseSocket(t) ==
  /\ At(t, "close")
  /\ sockets' = sockets \ {Socket(t)}
  /\ Intercepted(t, "FILE_OPEN_CLOSE", Socket(t))
  /\ Goto(t, "closed")
  /\ UNCHANGED <<environment, gates, count_intercepts_since_last_report, depth,
                 sockfd, n, files, stack, history>>

\* Mutant: the sender of a nested call does not reset socket_fd.
ForgetNested(t) ==
  /\ At(t, "closed")
  /\ socket_fd' = IF depth[t] > 1 THEN socket_fd ELSE FD_NONE
  /\ Return(t)
  /\ UNCHANGED <<environment, failed_socket_connections,
                 count_intercepts_since_last_report, call, n,
                 kernel, stack, history>>

Forget(t) ==
  /\ At(t, "closed")
  /\ socket_fd' = FD_NONE
  /\ Return(t)
  /\ UNCHANGED <<environment, failed_socket_connections,
                 count_intercepts_since_last_report, call, n,
                 kernel, stack, history>>

-----------------------------------------------------------------------------
Application(t) ==
  \E fd \in AppFds : AppOpen(t, fd) \/ AppWrite(t, fd) \/ AppClose(t, fd)

Monitor(t) ==
  \/ PeerAlive(t) \/ PeerDead(t) \/ Ignore(t) \/ Enter(t) \/ Overflow(t)
  \/ Count(t) \/ Bump(t) \/ SkipByCount(t) \/ PassCount(t) \/ Reset(t)
  \/ \E fd \in Fds : OpenSocket(t, fd)
  \/ SocketFails(t) \/ NoSocket(t) \/ Remember(t) \/ Connect(t) \/ Refused(t)
  \/ WriteHeader(t) \/ WriteBody(t) \/ CloseSocket(t) \/ Forget(t)

Next == \E t \in Threads : Application(t) \/ Monitor(t)

Spec == Init /\ [][Next]_vars

-----------------------------------------------------------------------------
(* Every variable keeps its type: in particular the nesting fits the stack *)
(* and the counters are never negative, nor are the descriptors but for    *)
(* FD_NONE.                                                                *)
TypeOK ==
  /\ domains \in SUBSET Domains /\ frequency \in Nat
  /\ failed_socket_connections \in Nat
  /\ socket_fd \in Fds \cup {FD_NONE}
  /\ count_intercepts_since_last_report \in Nat
  /\ call \in [Threads -> Call \cup {NoCall}]
  /\ depth \in [Threads -> 0..MaxDepth]
  /\ pc \in [Threads -> [Levels -> Places]]
  /\ sockfd \in [Threads -> [Levels -> Fds \cup {FD_NONE}]]
  /\ n \in [Threads -> Nat]
  /\ files \subseteq Fds /\ sockets \subseteq Fds
  /\ stack \in {"ok", "overflow"}
  /\ failures \in [Threads -> Nat]
  /\ overlapped \in BOOLEAN /\ mistaken \in BOOLEAN

(* The l-th call of record() on the stack of thread t is at a place of P. *)
Within(t, l, P) == l <= depth[t] /\ pc[t][l] \in P

(* The l-th call of record() of thread t has a socket open. *)
Sender(t, l) == Within(t, l, Bound \cup {"opened"}) /\ sockfd[t][l] >= 0

(* Whatever the threads and the nested calls do to socket_fd, a sender     *)
(* writes to and closes a socket of its own, never one of another sender   *)
(* or a descriptor of the application, and every socket is closed: only    *)
(* descriptor 0, if the application had closed its standard input, stays.  *)
OwnSockets ==
  /\ \A t \in Threads, l \in Levels :
       Sender(t, l) => sockfd[t][l] \in sockets \ files
  /\ \A t, u \in Threads, l, m \in Levels :
       Sender(t, l) /\ Sender(u, m) /\ sockfd[t][l] = sockfd[u][m]
         => t = u /\ l = m
  /\ \A fd \in sockets \ {0} :
       \E t \in Threads, l \in Levels : Sender(t, l) /\ sockfd[t][l] = fd

(* The l-th call of record() of thread t has socket_fd's number. *)
Names(t, l) == sockfd[t][l] = socket_fd

(* socket_fd is reset whoever set it: when no call is being reported it is *)
(* FD_NONE, and otherwise the number of a sender that is at work.  That    *)
(* number is one of the application's open descriptors, whose calls record *)
(* then ignores, only while a sender stands between its close() and its    *)
(* reset of socket_fd: the window is there, and it is the only one.        *)
SocketFdCurrent ==
  /\ socket_fd # FD_NONE =>
       \E t \in Threads, l \in Levels :
         Within(t, l, Bound \cup {"closed"}) /\ Names(t, l)
  /\ socket_fd \in files =>
       \E t \in Threads, l \in Levels : Within(t, l, {"closed"}) /\ Names(t, l)

(* If SOCKETS is not monitored and no call was ever made to record() while *)
(* another thread was in it, the monitor never reports its own calls,      *)
(* never takes a call of the application for its own, and the stack does   *)
(* not overflow.                                                           *)
OwnCallsIgnored ==
  "SOCKETS" \notin domains /\ ~overlapped =>
    /\ \A t \in Threads : depth[t] <= 1
    /\ ~mistaken
    /\ stack = "ok"

(* If SOCKETS is not monitored, a thread waits for one failed connection   *)
(* at most, however its reports nest and whatever the other threads do.    *)
OneFailurePerThread ==
  "SOCKETS" \notin domains => \A t \in Threads : failures[t] <= 1

(* Unlocked updates may make the counter skip its limit, but not get stuck *)
(* there: it is below the frequency whenever no thread is in the sampler.  *)
SamplerRecovers ==
  frequency > 0 /\ count_intercepts_since_last_report >= frequency
    => \E t \in Threads, l \in Levels : Within(t, l, Sampler)
=============================================================================
