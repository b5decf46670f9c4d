------------------------- MODULE TcpSender_proofs -------------------------
(***************************************************************************)
(* Proofs about TcpSender, for any number of threads, nested calls,        *)
(* descriptors and any sample frequency.                                   *)
(***************************************************************************)
EXTENDS TcpSender, TLAPS

-----------------------------------------------------------------------------
(* The inductive invariant. *)

(* A thread that has called record() from inside record() is in the sender. *)
CallInv ==
  \A t \in Threads : call[t] # NoCall /\ depth[t] > 0
    => pc[t][depth[t]] \in (Bound \ {"connect"}) \cup {"opened", "closed"}

(* A socket that a sender has remembered has a positive descriptor. *)
BoundInv ==
  \A t \in Threads, l \in Levels :
    Within(t, l, Bound \cup {"closed"}) => sockfd[t][l] > 0

(* A counter at its limit was put there by a thread that will reset it. *)
CountInv ==
  frequency > 0 /\ count_intercepts_since_last_report >= frequency
    => \E t \in Threads : /\ depth[t] \in Levels
                          /\ pc[t][depth[t]] \in {"check", "reset"}
                          /\ n[t] = count_intercepts_since_last_report

(* Past its connection. *)
Connected == {"body", "close", "closed"}

(* Without SOCKETS, only a sender past its connection enters record() again, *)
(* and only for the calls that write to its socket and close it.             *)
NestInv ==
  "SOCKETS" \notin domains =>
    /\ \A t \in Threads, l \in Levels : l < depth[t] => pc[t][l] \in Connected
    /\ \A t \in Threads : call[t] # NoCall /\ depth[t] > 0 =>
         \/ call[t].dom = "SOCKETS"
         \/ pc[t][depth[t]] \in Connected /\ call[t].fd = sockfd[t][depth[t]]

(* Without SOCKETS, a thread that has failed has only connections to close. *)
FailInv ==
  "SOCKETS" \notin domains =>
    \A t \in Threads :
      /\ failures[t] \in {0, 1}
      /\ failures[t] = 1 => /\ failed_socket_connections > 0 /\ ~call[t].alive
                            /\ \A l \in Levels : l <= depth[t] => pc[t][l] \in Connected

(* Without SOCKETS and without overlap there is one sender, and it is the  *)
(* one that socket_fd names.                                               *)
AloneInv ==
  "SOCKETS" \notin domains /\ ~overlapped =>
    /\ \A t, u \in Threads : depth[t] > 0 /\ depth[u] > 0 => t = u
    /\ \A t \in Threads, l \in Levels :
         Within(t, l, Bound \cup {"closed"}) => socket_fd = sockfd[t][l]

Inv ==
  /\ TypeOK /\ CallInv /\ BoundInv /\ CountInv /\ NestInv /\ FailInv /\ AloneInv
  /\ OwnSockets /\ SocketFdCurrent /\ OwnCallsIgnored

-----------------------------------------------------------------------------
(* What the parts of an action do to the frames. *)

LEMMA Ground ==
  /\ FD_NONE \notin Fds /\ \A fd \in Fds : fd \in Int /\ fd >= 0
  /\ \A l \in Levels : l \in Nat /\ l >= 1
  /\ MaxDepth \in Levels
  /\ NoCall \notin Call
BY FdsAssumption, DepthAssumption
   DEF FD_NONE, Fds, Levels, NoCall, Call, Domains

LEMMA AtTop ==
  ASSUME TypeOK, NEW t \in Threads, NEW p, At(t, p)
  PROVE  /\ depth[t] \in Levels /\ pc[t][depth[t]] = p /\ call[t] = NoCall
         /\ stack = "ok"
BY DepthAssumption DEF TypeOK, At, Levels

LEMMA GotoFrames ==
  ASSUME TypeOK, NEW t \in Threads, depth[t] \in Levels, NEW p \in Places, Goto(t, p)
  PROVE  /\ pc' \in [Threads -> [Levels -> Places]]
         /\ pc'[t][depth[t]] = p
         /\ \A u \in Threads, l \in Levels :
              u # t \/ l # depth[t] => pc'[u][l] = pc[u][l]
BY DEF TypeOK, Goto

LEMMA SetSocketFrames ==
  ASSUME TypeOK, NEW t \in Threads, depth[t] \in Levels,
         NEW fd \in Fds \cup {FD_NONE}, SetSocket(t, fd)
  PROVE  /\ sockfd' \in [Threads -> [Levels -> Fds \cup {FD_NONE}]]
         /\ sockfd'[t][depth[t]] = fd
         /\ \A u \in Threads, l \in Levels :
              u # t \/ l # depth[t] => sockfd'[u][l] = sockfd[u][l]
BY DEF TypeOK, SetSocket

LEMMA ReturnFrames ==
  ASSUME TypeOK, NEW t \in Threads, depth[t] \in Levels, Return(t)
  PROVE  /\ depth' \in [Threads -> 0..MaxDepth]
         /\ pc' \in [Threads -> [Levels -> Places]]
         /\ sockfd' \in [Threads -> [Levels -> Fds \cup {FD_NONE}]]
         /\ depth'[t] = depth[t] - 1
         /\ \A u \in Threads : u # t => depth'[u] = depth[u]
         /\ \A u \in Threads, l \in Levels : u # t \/ l # depth[t] =>
              pc'[u][l] = pc[u][l] /\ sockfd'[u][l] = sockfd[u][l]
<1> USE DepthAssumption
<1>1. "socket" \in Places
  BY DEF Places
<1>2. depth' \in [Threads -> 0..MaxDepth] /\ depth'[t] = depth[t] - 1
      /\ \A u \in Threads : u # t => depth'[u] = depth[u]
  BY DEF TypeOK, Return, Levels
<1>3. pc' \in [Threads -> [Levels -> Places]]
      /\ \A u \in Threads, l \in Levels :
           u # t \/ l # depth[t] => pc'[u][l] = pc[u][l]
  BY <1>1 DEF TypeOK, Return
<1>4. sockfd' \in [Threads -> [Levels -> Fds \cup {FD_NONE}]]
      /\ \A u \in Threads, l \in Levels :
           u # t \/ l # depth[t] => sockfd'[u][l] = sockfd[u][l]
  BY DEF TypeOK, Return
<1> QED
  BY <1>2, <1>3, <1>4

LEMMA EnterFrames ==
  ASSUME TypeOK, NEW t \in Threads, Enter(t)
  PROVE  /\ depth' \in [Threads -> 0..MaxDepth]
         /\ pc' \in [Threads -> [Levels -> Places]]
         /\ sockfd' \in [Threads -> [Levels -> Fds \cup {FD_NONE}]]
         /\ depth'[t] = depth[t] + 1 /\ depth'[t] \in Levels
         /\ pc'[t][depth'[t]] \in {"socket", "count"}
         /\ \A u \in Threads : u # t => depth'[u] = depth[u]
         /\ \A u \in Threads, l \in Levels : u # t \/ l # depth[t] + 1 =>
              pc'[u][l] = pc[u][l] /\ sockfd'[u][l] = sockfd[u][l]
<1> USE DepthAssumption
<1>1. "socket" \in Places /\ "count" \in Places
  BY DEF Places, Sampler
<1>2. depth' \in [Threads -> 0..MaxDepth] /\ depth'[t] = depth[t] + 1
      /\ depth[t] + 1 \in Levels
      /\ \A u \in Threads : u # t => depth'[u] = depth[u]
  BY DEF TypeOK, Enter, Levels
<1>3. pc' \in [Threads -> [Levels -> Places]]
      /\ pc'[t][depth[t] + 1] \in {"socket", "count"}
      /\ \A u \in Threads, l \in Levels :
           u # t \/ l # depth[t] + 1 => pc'[u][l] = pc[u][l]
  BY <1>1, <1>2 DEF TypeOK, Enter
<1>4. sockfd' \in [Threads -> [Levels -> Fds \cup {FD_NONE}]]
      /\ \A u \in Threads, l \in Levels :
           u # t \/ l # depth[t] + 1 => sockfd'[u][l] = sockfd[u][l]
  BY DEF TypeOK, Enter
<1> QED
  BY <1>2, <1>3, <1>4

LEMMA InterceptedCall ==
  ASSUME TypeOK, NEW t \in Threads, NEW dom \in Domains,
         NEW fd \in Fds \cup {FD_NONE}, Intercepted(t, dom, fd)
  PROVE  /\ call' \in [Threads -> Call \cup {NoCall}]
         /\ call'[t] = [dom |-> dom, fd |-> fd, alive |-> FALSE]
         /\ \A u \in Threads : u # t => call'[u] = call[u]
BY DEF TypeOK, Intercepted, Call

(* The first gate changes nothing of a call but that it was passed. *)
LEMMA PassCall ==
  ASSUME TypeOK, NEW t \in Threads, NEW alive, Waiting(t, alive), Pass(t)
  PROVE  /\ call' \in [Threads -> Call \cup {NoCall}]
         /\ call[t] # NoCall /\ call'[t].dom = call[t].dom /\ call'[t].fd = call[t].fd
         /\ \A u \in Threads : u # t => call'[u] = call[u]
<1>1. call[t] \in Call
  BY DEF TypeOK, Waiting
<1>2. call'[t] = [call[t] EXCEPT !.alive = TRUE]
  BY DEF TypeOK, Pass
<1>3. [call[t] EXCEPT !.alive = TRUE] \in Call
  BY <1>1 DEF Call
<1>4. \A u \in Threads : u # t => call'[u] = call[u]
  BY DEF TypeOK, Pass
<1>5. call' \in [Threads -> Call \cup {NoCall}]
  BY <1>2, <1>3 DEF TypeOK, Pass
<1> QED
  BY <1>1, <1>2, <1>4, <1>5 DEF Waiting, Call

-----------------------------------------------------------------------------
(* Types. *)
LEMMA TypeStep ==
  ASSUME TypeOK, NEW t \in Threads, Application(t) \/ Monitor(t)
  PROVE  TypeOK'
<1> USE FdsAssumption, DepthAssumption, CountAssumption DEF environment, gates, kernel, history
<1> DEFINE Frames ==
      /\ depth' \in [Threads -> 0..MaxDepth]
      /\ pc' \in [Threads -> [Levels -> Places]]
      /\ sockfd' \in [Threads -> [Levels -> Fds \cup {FD_NONE}]]
<1>1. ASSUME NEW fd \in AppFds, AppOpen(t, fd) PROVE TypeOK'
  <2>1. fd \in Fds /\ "FILE_OPEN_CLOSE" \in Domains
    BY DEF Domains
  <2>2. call' \in [Threads -> Call \cup {NoCall}]
    BY <1>1, <2>1, InterceptedCall DEF AppOpen
  <2> QED
    BY <1>1, <2>1, <2>2 DEF AppOpen, TypeOK
<1>2. ASSUME NEW fd \in AppFds, AppWrite(t, fd) PROVE TypeOK'
  <2>1. fd \in Fds /\ "FILE_WRITE" \in Domains
    BY DEF Domains
  <2>2. call' \in [Threads -> Call \cup {NoCall}]
    BY <1>2, <2>1, InterceptedCall DEF AppWrite
  <2> QED
    BY <1>2, <2>1, <2>2 DEF AppWrite, TypeOK
<1>3. ASSUME NEW fd \in AppFds, AppClose(t, fd) PROVE TypeOK'
  <2>1. fd \in Fds /\ "FILE_OPEN_CLOSE" \in Domains
    BY DEF Domains
  <2>2. call' \in [Threads -> Call \cup {NoCall}]
    BY <1>3, <2>1, InterceptedCall DEF AppClose
  <2> QED
    BY <1>3, <2>1, <2>2 DEF AppClose, TypeOK
<1>4. CASE Ignore(t)
  <2>1. call' \in [Threads -> Call \cup {NoCall}]
    BY <1>4 DEF Ignore, TypeOK
  <2>2. overlapped' \in BOOLEAN /\ mistaken' \in BOOLEAN
    BY <1>4, Zenon DEF Ignore, Overlap
  <2> QED
    BY <1>4, <2>1, <2>2 DEF Ignore, TypeOK
<1>a. CASE PeerAlive(t)
  <2>1. call' \in [Threads -> Call \cup {NoCall}]
    BY <1>a, PassCall DEF PeerAlive
  <2> QED
    BY <1>a, <2>1 DEF PeerAlive, TypeOK
<1>b. CASE PeerDead(t)
  <2>1. call' \in [Threads -> Call \cup {NoCall}]
    BY <1>b DEF PeerDead, TypeOK
  <2>2. overlapped' \in BOOLEAN
    BY <1>b, Zenon DEF PeerDead, Overlap
  <2> QED
    BY <1>b, <2>1, <2>2 DEF PeerDead, TypeOK
<1>5. CASE Enter(t)
  <2>1. call' \in [Threads -> Call \cup {NoCall}]
    BY <1>5 DEF Enter, TypeOK
  <2>2. overlapped' \in BOOLEAN
    BY <1>5, Zenon DEF Enter, Overlap
  <2>3. Frames
    BY <1>5, EnterFrames
  <2>4. /\ UNCHANGED <<environment, gates, count_intercepts_since_last_report, n,
                       kernel, stack, failures, mistaken>>
    BY <1>5 DEF Enter
  <2> QED
    BY <2>1, <2>2, <2>3, <2>4 DEF TypeOK
<1>6. CASE Overflow(t)
  BY <1>6 DEF Overflow, TypeOK
<1>7. CASE Count(t)
  <2>1. depth[t] \in Levels
    BY <1>7, AtTop DEF Count
  <2>2. "bump" \in Places
    BY DEF Places, Sampler, Bound
  <2>3. pc' \in [Threads -> [Levels -> Places]]
    BY <1>7, <2>1, <2>2, GotoFrames DEF Count
  <2>4. n' \in [Threads -> Nat]
    BY <1>7 DEF Count, TypeOK
  <2>5. UNCHANGED <<environment, gates, count_intercepts_since_last_report, call,
                    depth, sockfd, kernel, stack, history>>
    BY <1>7 DEF Count
  <2> QED
    BY <2>3, <2>4, <2>5 DEF TypeOK
<1>8. CASE Bump(t)
  <2>1. depth[t] \in Levels
    BY <1>8, AtTop DEF Bump
  <2>2. "check" \in Places
    BY DEF Places, Sampler, Bound
  <2>3. pc' \in [Threads -> [Levels -> Places]]
    BY <1>8, <2>1, <2>2, GotoFrames DEF Bump
  <2> QED
    BY <1>8, <2>1, <2>3 DEF Bump, TypeOK
<1>9. CASE SkipByCount(t)
  <2>1. depth[t] \in Levels
    BY <1>9, AtTop DEF SkipByCount
  <2>2. Frames
    BY <1>9, <2>1, ReturnFrames DEF SkipByCount
  <2> QED
    BY <1>9, <2>1, <2>2 DEF SkipByCount, TypeOK
<1>10. CASE PassCount(t)
  <2>1. depth[t] \in Levels
    BY <1>10, AtTop DEF PassCount
  <2>2. "reset" \in Places
    BY DEF Places, Sampler, Bound
  <2>3. pc' \in [Threads -> [Levels -> Places]]
    BY <1>10, <2>1, <2>2, GotoFrames DEF PassCount
  <2> QED
    BY <1>10, <2>1, <2>3 DEF PassCount, TypeOK
<1>11. CASE Reset(t)
  <2>1. depth[t] \in Levels
    BY <1>11, AtTop DEF Reset
  <2>2. "socket" \in Places
    BY DEF Places, Sampler, Bound
  <2>3. pc' \in [Threads -> [Levels -> Places]]
    BY <1>11, <2>1, <2>2, GotoFrames DEF Reset
  <2> QED
    BY <1>11, <2>1, <2>3 DEF Reset, TypeOK
<1>12. ASSUME NEW fd \in Fds, OpenSocket(t, fd) PROVE TypeOK'
  <2>1. depth[t] \in Levels
    BY <1>12, AtTop DEF OpenSocket
  <2>2. "opened" \in Places
    BY DEF Places, Sampler, Bound
  <2>3. pc' \in [Threads -> [Levels -> Places]]
    BY <1>12, <2>1, <2>2, GotoFrames DEF OpenSocket
  <2>4. "SOCKETS" \in Domains /\ fd \in Fds \cup {FD_NONE}
    BY <2>1 DEF Domains, Socket, TypeOK
  <2>5. call' \in [Threads -> Call \cup {NoCall}]
    BY <1>12, <2>4, InterceptedCall DEF OpenSocket
  <2>6. sockfd' \in [Threads -> [Levels -> Fds \cup {FD_NONE}]]
    BY <1>12, <2>1, SetSocketFrames DEF OpenSocket
  <2> QED
    BY <1>12, <2>1, <2>3, <2>5, <2>6 DEF OpenSocket, TypeOK
<1>13. CASE SocketFails(t)
  <2>1. depth[t] \in Levels
    BY <1>13, AtTop DEF SocketFails
  <2>2. "opened" \in Places
    BY DEF Places, Sampler, Bound
  <2>3. pc' \in [Threads -> [Levels -> Places]]
    BY <1>13, <2>1, <2>2, GotoFrames DEF SocketFails
  <2>4. "SOCKETS" \in Domains /\ FD_NONE \in Fds \cup {FD_NONE}
    BY <2>1 DEF Domains, Socket, TypeOK
  <2>5. call' \in [Threads -> Call \cup {NoCall}]
    BY <1>13, <2>4, InterceptedCall DEF SocketFails
  <2>6. sockfd' \in [Threads -> [Levels -> Fds \cup {FD_NONE}]]
    BY <1>13, <2>1, SetSocketFrames DEF SocketFails
  <2> QED
    BY <1>13, <2>1, <2>3, <2>5, <2>6 DEF SocketFails, TypeOK
<1>14. CASE NoSocket(t)
  <2>1. depth[t] \in Levels
    BY <1>14, AtTop DEF NoSocket
  <2>2. Frames
    BY <1>14, <2>1, ReturnFrames DEF NoSocket
  <2> QED
    BY <1>14, <2>1, <2>2 DEF NoSocket, TypeOK
<1>15. CASE Remember(t)
  <2>1. depth[t] \in Levels
    BY <1>15, AtTop DEF Remember
  <2>2. "connect" \in Places
    BY DEF Places, Sampler, Bound
  <2>3. pc' \in [Threads -> [Levels -> Places]]
    BY <1>15, <2>1, <2>2, GotoFrames DEF Remember
  <2> QED
    BY <1>15, <2>1, <2>3 DEF Remember, TypeOK, Socket
<1>16. CASE Connect(t)
  <2>1. depth[t] \in Levels
    BY <1>16, AtTop DEF Connect
  <2>2. "header" \in Places /\ "refused" \in Places
    BY DEF Places, Sampler, Bound
  <2>3. pc' \in [Threads -> [Levels -> Places]]
    BY <1>16, <2>1, <2>2, GotoFrames DEF Connect
  <2>4. "SOCKETS" \in Domains /\ Socket(t) \in Fds \cup {FD_NONE}
    BY <2>1 DEF Domains, Socket, TypeOK
  <2>5. call' \in [Threads -> Call \cup {NoCall}]
    BY <1>16, <2>4, InterceptedCall DEF Connect
  <2> QED
    BY <1>16, <2>1, <2>3, <2>5 DEF Connect, TypeOK
<1>17. CASE Refused(t)
  <2>1. depth[t] \in Levels
    BY <1>17, AtTop DEF Refused
  <2>2. "close" \in Places
    BY DEF Places, Sampler, Bound
  <2>3. pc' \in [Threads -> [Levels -> Places]]
    BY <1>17, <2>1, <2>2, GotoFrames DEF Refused
  <2>4. failures' \in [Threads -> Nat] /\ failed_socket_connections' \in Nat
    BY <1>17 DEF Refused, TypeOK
  <2>5. UNCHANGED <<environment, socket_fd, count_intercepts_since_last_report,
                    call, depth, sockfd, n, kernel, stack, overlapped, mistaken>>
    BY <1>17 DEF Refused
  <2> QED
    BY <2>3, <2>4, <2>5 DEF TypeOK
<1>18. CASE WriteHeader(t)
  <2>1. depth[t] \in Levels
    BY <1>18, AtTop DEF WriteHeader
  <2>2. "body" \in Places /\ "close" \in Places
    BY DEF Places, Sampler, Bound
  <2>3. pc' \in [Threads -> [Levels -> Places]]
    BY <1>18, <2>1, <2>2, GotoFrames DEF WriteHeader
  <2>4. "FILE_WRITE" \in Domains /\ Socket(t) \in Fds \cup {FD_NONE}
    BY <2>1 DEF Domains, Socket, TypeOK
  <2>5. call' \in [Threads -> Call \cup {NoCall}]
    BY <1>18, <2>4, InterceptedCall DEF WriteHeader
  <2> QED
    BY <1>18, <2>1, <2>3, <2>5 DEF WriteHeader, TypeOK
<1>19. CASE WriteBody(t)
  <2>1. depth[t] \in Levels
    BY <1>19, AtTop DEF WriteBody
  <2>2. "close" \in Places
    BY DEF Places, Sampler, Bound
  <2>3. pc' \in [Threads -> [Levels -> Places]]
    BY <1>19, <2>1, <2>2, GotoFrames DEF WriteBody
  <2>4. "FILE_WRITE" \in Domains /\ Socket(t) \in Fds \cup {FD_NONE}
    BY <2>1 DEF Domains, Socket, TypeOK
  <2>5. call' \in [Threads -> Call \cup {NoCall}]
    BY <1>19, <2>4, InterceptedCall DEF WriteBody
  <2> QED
    BY <1>19, <2>1, <2>3, <2>5 DEF WriteBody, TypeOK
<1>20. CASE CloseSocket(t)
  <2>1. depth[t] \in Levels
    BY <1>20, AtTop DEF CloseSocket
  <2>2. "closed" \in Places
    BY DEF Places, Sampler, Bound
  <2>3. pc' \in [Threads -> [Levels -> Places]]
    BY <1>20, <2>1, <2>2, GotoFrames DEF CloseSocket
  <2>4. "FILE_OPEN_CLOSE" \in Domains /\ Socket(t) \in Fds \cup {FD_NONE}
    BY <2>1 DEF Domains, Socket, TypeOK
  <2>5. call' \in [Threads -> Call \cup {NoCall}]
    BY <1>20, <2>4, InterceptedCall DEF CloseSocket
  <2> QED
    BY <1>20, <2>1, <2>3, <2>5 DEF CloseSocket, TypeOK
<1>21. CASE Forget(t)
  <2>1. depth[t] \in Levels
    BY <1>21, AtTop DEF Forget
  <2>2. Frames
    BY <1>21, <2>1, ReturnFrames DEF Forget
  <2> QED
    BY <1>21, <2>1, <2>2 DEF Forget, TypeOK
<1> QED
  BY <1>1, <1>2, <1>3, <1>4, <1>5, <1>6, <1>7, <1>8, <1>9, <1>10, <1>11, <1>12, <1>13, <1>14, <1>15, <1>16, <1>17, <1>18, <1>19, <1>20, <1>21, <1>a, <1>b DEF Application, Monitor

-----------------------------------------------------------------------------
(* What a step does to the frames, to socket_fd and to the descriptors.    *)

(* The innermost call of record() of thread t goes from a place of P to    *)
(* one of Q.                                                               *)
Shift(t, P, Q) ==
  /\ depth[t] \in Levels /\ depth' = depth
  /\ pc[t][depth[t]] \in P /\ pc'[t][depth[t]] \in Q
  /\ \A u \in Threads, l \in Levels :
       u # t \/ l # depth[t] => pc'[u][l] = pc[u][l]

(* It returns from a place of P. *)
Pop(t, P) ==
  /\ depth[t] \in Levels /\ pc[t][depth[t]] \in P
  /\ depth'[t] = depth[t] - 1
  /\ \A u \in Threads : u # t => depth'[u] = depth[u]
  /\ \A u \in Threads, l \in Levels : u # t \/ l # depth[t] =>
       pc'[u][l] = pc[u][l] /\ sockfd'[u][l] = sockfd[u][l]
  /\ UNCHANGED kernel

(* A step outside the frames. *)
Stays == /\ UNCHANGED <<depth, pc, sockfd, socket_fd, sockets>>
         /\ files' \cap sockets \subseteq files

Pushes(t) ==
  /\ depth'[t] = depth[t] + 1 /\ depth'[t] \in Levels
  /\ pc'[t][depth'[t]] \in {"socket", "count"}
  /\ \A u \in Threads : u # t => depth'[u] = depth[u]
  /\ \A u \in Threads, l \in Levels : u # t \/ l # depth[t] + 1 =>
       pc'[u][l] = pc[u][l] /\ sockfd'[u][l] = sockfd[u][l]
  /\ UNCHANGED <<socket_fd, kernel>>

Samples(t) ==
  Shift(t, Sampler, Sampler \cup {"socket"}) /\ UNCHANGED <<sockfd, socket_fd, kernel>>

Opens(t) ==
  /\ Shift(t, {"socket"}, {"opened"})
  /\ \A u \in Threads, l \in Levels :
       u # t \/ l # depth[t] => sockfd'[u][l] = sockfd[u][l]
  /\ UNCHANGED <<socket_fd, files>>
  /\ \/ sockfd'[t][depth[t]] = FD_NONE /\ sockets' = sockets
     \/ /\ sockfd'[t][depth[t]] \in Fds \ (files \cup sockets)
        /\ sockets' = sockets \cup {sockfd'[t][depth[t]]}

Binds(t) ==
  /\ Shift(t, {"opened"}, {"connect"}) /\ UNCHANGED <<sockfd, kernel>>
  /\ sockfd[t][depth[t]] > 0 /\ socket_fd' = sockfd[t][depth[t]]

Sends(t) ==
  Shift(t, Bound, Bound) /\ UNCHANGED <<sockfd, socket_fd, kernel>>

Closes(t) ==
  /\ Shift(t, Bound, {"closed"}) /\ UNCHANGED <<sockfd, socket_fd, files>>
  /\ sockets' = sockets \ {sockfd[t][depth[t]]}

Skips(t) == Pop(t, Sampler) /\ UNCHANGED socket_fd

GivesUp(t) ==
  /\ Pop(t, {"opened"}) /\ UNCHANGED socket_fd /\ sockfd[t][depth[t]] <= 0

Forgets(t) == Pop(t, {"closed"}) /\ socket_fd' = FD_NONE

LEMMA Goes ==
  ASSUME TypeOK, NEW t \in Threads, NEW p, NEW q, At(t, p), Goto(t, q),
         q \in Places, depth' = depth
  PROVE  Shift(t, {p}, {q})
BY AtTop, GotoFrames DEF Shift

LEMMA Pops ==
  ASSUME TypeOK, NEW t \in Threads, NEW p, At(t, p), Return(t), UNCHANGED kernel
  PROVE  Pop(t, {p})
BY AtTop, ReturnFrames DEF Pop

LEMMA StepKinds ==
  ASSUME TypeOK, NEW t \in Threads, Application(t) \/ Monitor(t)
  PROVE  \/ Stays \/ Pushes(t) \/ Samples(t) \/ Opens(t) \/ Binds(t) \/ Sends(t)
         \/ Closes(t) \/ Skips(t) \/ GivesUp(t) \/ Forgets(t)
<1> USE DEF gates, kernel
<1>1. ASSUME NEW fd \in AppFds, AppOpen(t, fd) \/ AppWrite(t, fd) \/ AppClose(t, fd)
      PROVE  Stays
  BY <1>1 DEF AppOpen, AppWrite, AppClose, Free, Stays
<1>2. CASE PeerAlive(t) \/ PeerDead(t) \/ Ignore(t) \/ Overflow(t)
  BY <1>2 DEF PeerAlive, PeerDead, Ignore, Overflow, Stays
<1>3. CASE Enter(t)
  <2>1. UNCHANGED <<socket_fd, kernel>>
    BY <1>3 DEF Enter
  <2> QED
    BY <1>3, <2>1, EnterFrames DEF Pushes
<1>4. CASE Count(t) \/ Bump(t) \/ PassCount(t) \/ Reset(t)
  <2>1. \E p \in Sampler, q \in Sampler \cup {"socket"} :
          At(t, p) /\ Goto(t, q) /\ depth' = depth
    BY <1>4 DEF Count, Bump, PassCount, Reset, Sampler
  <2>2. UNCHANGED <<sockfd, socket_fd, kernel>>
    BY <1>4 DEF Count, Bump, PassCount, Reset
  <2>3. PICK p \in Sampler, q \in Sampler \cup {"socket"} :
          At(t, p) /\ Goto(t, q) /\ depth' = depth
    BY <2>1
  <2>4. q \in Places
    BY DEF Places
  <2>5. Shift(t, {p}, {q})
    BY <2>3, <2>4, Goes
  <2> QED
    BY <2>2, <2>5 DEF Shift, Samples
<1>5. CASE SkipByCount(t)
  <2>1. Pop(t, {"check"}) /\ UNCHANGED socket_fd
    BY <1>5, Pops DEF SkipByCount
  <2> QED
    BY <2>1 DEF Skips, Pop, Sampler
<1>6. ASSUME NEW fd \in Fds, OpenSocket(t, fd)
      PROVE  Opens(t)
  <2>1. Shift(t, {"socket"}, {"opened"})
    <3>1. "opened" \in Places
      BY DEF Places
    <3> QED
      BY <1>6, <3>1, Goes DEF OpenSocket
  <2>2. /\ sockfd'[t][depth[t]] = fd
        /\ \A u \in Threads, l \in Levels :
             u # t \/ l # depth[t] => sockfd'[u][l] = sockfd[u][l]
    BY <1>6, <2>1, SetSocketFrames DEF OpenSocket, Shift
  <2>3. /\ fd \notin files \cup sockets /\ sockets' = sockets \cup {fd}
        /\ UNCHANGED <<socket_fd, files>>
    BY <1>6 DEF OpenSocket, Free
  <2> QED
    BY <2>1, <2>2, <2>3 DEF Opens
<1>7. CASE SocketFails(t)
  <2>1. Shift(t, {"socket"}, {"opened"})
    <3>1. "opened" \in Places
      BY DEF Places
    <3> QED
      BY <1>7, <3>1, Goes DEF SocketFails
  <2>2. /\ sockfd'[t][depth[t]] = FD_NONE
        /\ \A u \in Threads, l \in Levels :
             u # t \/ l # depth[t] => sockfd'[u][l] = sockfd[u][l]
    BY <1>7, <2>1, SetSocketFrames DEF SocketFails, Shift
  <2>3. UNCHANGED <<socket_fd, kernel>>
    BY <1>7 DEF SocketFails
  <2> QED
    BY <2>1, <2>2, <2>3 DEF Opens
<1>8. CASE NoSocket(t)
  <2>1. Pop(t, {"opened"})
    BY <1>8, Pops DEF NoSocket
  <2> QED
    BY <1>8, <2>1 DEF NoSocket, GivesUp, Socket
<1>9. CASE Remember(t)
  <2>1. "connect" \in Places
    BY DEF Places, Bound
  <2>2. Shift(t, {"opened"}, {"connect"})
    BY <1>9, <2>1, Goes DEF Remember
  <2> QED
    BY <1>9, <2>2 DEF Remember, Binds, Socket
<1>10. CASE Connect(t) \/ Refused(t) \/ WriteHeader(t) \/ WriteBody(t)
  <2>1. \E p \in Bound, q \in Bound : At(t, p) /\ Goto(t, q) /\ depth' = depth
    BY <1>10 DEF Connect, Refused, WriteHeader, WriteBody, Bound
  <2>2. UNCHANGED <<sockfd, socket_fd, kernel>>
    BY <1>10 DEF Connect, Refused, WriteHeader, WriteBody
  <2>3. PICK p \in Bound, q \in Bound : At(t, p) /\ Goto(t, q) /\ depth' = depth
    BY <2>1
  <2>4. q \in Places
    BY DEF Places
  <2>5. Shift(t, {p}, {q})
    BY <2>3, <2>4, Goes
  <2> QED
    BY <2>2, <2>5 DEF Shift, Sends
<1>11. CASE CloseSocket(t)
  <2>1. "closed" \in Places
    BY DEF Places
  <2>2. Shift(t, {"close"}, {"closed"})
    BY <1>11, <2>1, Goes DEF CloseSocket
  <2>3. Shift(t, Bound, {"closed"})
    BY <2>2 DEF Shift, Bound
  <2> QED
    BY <1>11, <2>3 DEF CloseSocket, Closes, Socket
<1>12. CASE Forget(t)
  <2>1. Pop(t, {"closed"})
    BY <1>12, Pops DEF Forget
  <2> QED
    BY <1>12, <2>1 DEF Forget, Forgets
<1> QED
  BY <1>1, <1>2, <1>3, <1>4, <1>5, <1>6, <1>7, <1>8, <1>9, <1>10, <1>11, <1>12
     DEF Application, Monitor

-----------------------------------------------------------------------------
(* The frames of a thread and their types. *)
LEMMA FrameTypes ==
  ASSUME TypeOK, NEW u \in Threads
  PROVE  /\ depth[u] \in Nat
         /\ \A l \in Levels : sockfd[u][l] \in Int /\ pc[u][l] \in Places
BY Ground, DepthAssumption DEF TypeOK, FD_NONE

LEMMA FrameTypesNext ==
  ASSUME TypeOK', NEW u \in Threads
  PROVE  /\ depth'[u] \in Nat
         /\ \A l \in Levels : sockfd'[u][l] \in Int /\ pc'[u][l] \in Places
BY Ground, DepthAssumption DEF TypeOK, FD_NONE

LEMMA InsideNext ==
  ASSUME TypeOK', NEW u \in Threads, depth'[u] > 0
  PROVE  depth'[u] \in Levels
<1>1. depth'[u] \in 0..MaxDepth
  BY DEF TypeOK
<1> QED
  BY <1>1, DepthAssumption DEF Levels

(* The frame that is popped is the only one that goes. *)
LEMMA PopFrames ==
  ASSUME TypeOK, NEW t \in Threads, NEW P, Pop(t, P)
  PROVE  \A u \in Threads, l \in Levels :
           l <= depth'[u] <=> l <= depth[u] /\ (u # t \/ l # depth[t])
<1> SUFFICES ASSUME NEW u \in Threads, NEW l \in Levels
             PROVE  l <= depth'[u] <=> l <= depth[u] /\ (u # t \/ l # depth[t])
  OBVIOUS
<1>1. depth[u] \in Nat /\ l \in Nat
  BY FrameTypes, Ground
<1>2. CASE u = t
  BY <1>1, <1>2 DEF Pop
<1>3. CASE u # t
  BY <1>3 DEF Pop
<1> QED
  BY <1>2, <1>3

(* The frame that is pushed is the only new one. *)
LEMMA PushFrames ==
  ASSUME TypeOK, NEW t \in Threads, Pushes(t)
  PROVE  \A u \in Threads, l \in Levels :
           l <= depth'[u] <=> l <= depth[u] \/ (u = t /\ l = depth[t] + 1)
<1> SUFFICES ASSUME NEW u \in Threads, NEW l \in Levels
             PROVE  l <= depth'[u] <=> l <= depth[u] \/ (u = t /\ l = depth[t] + 1)
  OBVIOUS
<1>1. depth[u] \in Nat /\ l \in Nat
  BY FrameTypes, Ground
<1>2. CASE u = t
  BY <1>1, <1>2 DEF Pushes
<1>3. CASE u # t
  BY <1>3 DEF Pushes
<1> QED
  BY <1>2, <1>3

-----------------------------------------------------------------------------
(* The descriptors. *)
LEMMA BoundStep ==
  ASSUME TypeOK, TypeOK', BoundInv, NEW t \in Threads, Application(t) \/ Monitor(t)
  PROVE  BoundInv'
<1> USE Ground DEF BoundInv, Within
<1>1. CASE Stays
  BY <1>1 DEF Stays
<1>2. CASE Pushes(t)
  BY <1>2, PushFrames, FrameTypes DEF Pushes, Bound
<1>3. CASE Samples(t)
  BY <1>3, FrameTypes DEF Samples, Shift, Bound, Sampler
<1>4. CASE Opens(t)
  BY <1>4, FrameTypes DEF Opens, Shift, Bound
<1>5. CASE Binds(t)
  BY <1>5 DEF Binds, Shift, TypeOK
<1>6. CASE Sends(t) \/ Closes(t)
  BY <1>6 DEF Sends, Closes, Shift, TypeOK
<1>7. CASE Skips(t) \/ GivesUp(t) \/ Forgets(t)
  BY <1>7, PopFrames DEF Skips, GivesUp, Forgets, Pop
<1> QED
  BY <1>1, <1>2, <1>3, <1>4, <1>5, <1>6, <1>7, StepKinds

(* The number socket_fd has is that of a sender. *)
Named ==
  socket_fd # FD_NONE =>
    \E t \in Threads, l \in Levels :
      Within(t, l, Bound \cup {"closed"}) /\ sockfd[t][l] = socket_fd

(* The senders' sockets are not the application's before they are closed. *)
LEMMA NamedIsCurrent ==
  TypeOK /\ OwnSockets /\ BoundInv /\ Named => SocketFdCurrent
<1> SUFFICES ASSUME TypeOK, OwnSockets, BoundInv, Named
             PROVE  SocketFdCurrent
  OBVIOUS
<1>1. socket_fd \in files => socket_fd # FD_NONE
  BY Ground DEF TypeOK
<1>2. ASSUME NEW t \in Threads, NEW l \in Levels, Within(t, l, Bound)
      PROVE  sockfd[t][l] \notin files
  <2>1. sockfd[t][l] > 0 /\ sockfd[t][l] \in Int
    BY <1>2, FrameTypes DEF BoundInv, Within
  <2>2. Sender(t, l)
    BY <1>2, <2>1 DEF Sender, Within
  <2> QED
    BY <2>2 DEF OwnSockets
<1> QED
  BY <1>1, <1>2 DEF Named, SocketFdCurrent, Names, Within

LEMMA CurrentStep ==
  ASSUME TypeOK, TypeOK', SocketFdCurrent, NEW t \in Threads,
         Application(t) \/ Monitor(t)
  PROVE  Named'
<1> SUFFICES ASSUME socket_fd' # FD_NONE
             PROVE  \E u \in Threads, l \in Levels :
                      Within(u, l, Bound \cup {"closed"})' /\ (sockfd[u][l] = socket_fd)'
  BY DEF Named
<1> USE Ground DEF Within
<1>1. CASE Binds(t)
  BY <1>1, FrameTypes DEF Binds, Shift, Bound
<1>2. CASE Forgets(t)
  BY <1>2 DEF Forgets
<1> SUFFICES ASSUME ~Binds(t), ~Forgets(t)
             PROVE  \E u \in Threads, l \in Levels :
                      Within(u, l, Bound \cup {"closed"})' /\ (sockfd[u][l] = socket_fd)'
  BY <1>1, <1>2
<1>3. socket_fd' = socket_fd
  BY StepKinds DEF Stays, Pushes, Samples, Opens, Sends, Closes, Skips, GivesUp
<1>4. PICK u \in Threads, l \in Levels :
        Within(u, l, Bound \cup {"closed"}) /\ sockfd[u][l] = socket_fd
  BY <1>3 DEF SocketFdCurrent, Names
<1>5. Within(u, l, Bound \cup {"closed"})' /\ sockfd'[u][l] = sockfd[u][l]
  <2>1. CASE Stays
    BY <1>4, <2>1 DEF Stays
  <2>2. CASE Pushes(t)
    BY <1>4, <2>2, PushFrames, FrameTypes DEF Pushes
  <2>3. CASE Samples(t)
    BY <1>4, <2>3, FrameTypes DEF Samples, Shift, Bound, Sampler
  <2>4. CASE Opens(t)
    BY <1>4, <2>4, FrameTypes DEF Opens, Shift, Bound
  <2>5. CASE Sends(t) \/ Closes(t)
    BY <1>4, <2>5 DEF Sends, Closes, Shift, TypeOK
  <2>6. CASE Skips(t) \/ GivesUp(t)
    BY <1>4, <2>6, PopFrames DEF Skips, GivesUp, Pop, Bound, Sampler
  <2> QED
    BY <2>1, <2>2, <2>3, <2>4, <2>5, <2>6, StepKinds
<1> QED
  BY <1>3, <1>4, <1>5

(* A step that leaves the senders alone. *)
LEMMA SameSenders ==
  ASSUME OwnSockets, sockets' = sockets, files' \cap sockets \subseteq files,
         \A u \in Threads, l \in Levels : Sender(u, l)' <=> Sender(u, l),
         \A u \in Threads, l \in Levels : Sender(u, l) => sockfd'[u][l] = sockfd[u][l]
  PROVE  OwnSockets'
<1>1. \A u \in Threads, l \in Levels : Sender(u, l)' =>
        (sockfd[u][l])' \in sockets' \ files'
  BY DEF OwnSockets
<1>2. \A u, v \in Threads, l, m \in Levels :
        Sender(u, l)' /\ Sender(v, m)' /\ (sockfd[u][l])' = (sockfd[v][m])'
          => u = v /\ l = m
  BY DEF OwnSockets
<1>3. \A fd \in sockets' \ {0} :
        \E u \in Threads, l \in Levels : Sender(u, l)' /\ (sockfd[u][l])' = fd
  BY DEF OwnSockets
<1> QED
  BY <1>1, <1>2, <1>3 DEF OwnSockets

LEMMA OwnStep ==
  ASSUME TypeOK, TypeOK', OwnSockets, BoundInv, NEW t \in Threads,
         Application(t) \/ Monitor(t)
  PROVE  OwnSockets'
<1> USE Ground
<1> DEFINE Same ==
      \A u \in Threads, l \in Levels :
        /\ Sender(u, l)' <=> Sender(u, l)
        /\ Sender(u, l) => sockfd'[u][l] = sockfd[u][l]
<1>1. CASE Stays
  <2>1. Same
    BY <1>1, Zenon DEF Stays, Sender, Within
  <2> QED
    BY <1>1, <2>1, SameSenders DEF Stays
<1>2. CASE Pushes(t)
  <2>1. Same
    <3> SUFFICES ASSUME NEW u \in Threads, NEW l \in Levels
                 PROVE  /\ Sender(u, l)' <=> Sender(u, l)
                        /\ Sender(u, l) => sockfd'[u][l] = sockfd[u][l]
      OBVIOUS
    <3>1. CASE u = t /\ l = depth[t] + 1
      <4>1. ~Sender(u, l)
        BY <3>1, FrameTypes DEF Sender, Within
      <4>2. ~Sender(u, l)'
        BY <1>2, <3>1 DEF Pushes, Sender, Within, Bound
      <4> QED
        BY <4>1, <4>2
    <3>2. CASE ~(u = t /\ l = depth[t] + 1)
      <4>1. pc'[u][l] = pc[u][l] /\ sockfd'[u][l] = sockfd[u][l]
        BY <1>2, <3>2 DEF Pushes
      <4>2. l <= depth'[u] <=> l <= depth[u]
        BY <1>2, <3>2, PushFrames
      <4> QED
        BY <4>1, <4>2, Zenon DEF Sender, Within
    <3> QED
      BY <3>1, <3>2
  <2> QED
    BY <1>2, <2>1, SameSenders DEF Pushes, kernel
<1>3. CASE Samples(t)
  <2>1. Same
    BY <1>3, FrameTypes DEF Samples, Shift, Bound, Sampler, Sender, Within
  <2> QED
    BY <1>3, <2>1, SameSenders DEF Samples, kernel
<1>4. CASE Binds(t) \/ Sends(t)
  <2>1. Same
    BY <1>4, FrameTypes DEF Binds, Sends, Shift, Bound, Sender, Within
  <2> QED
    BY <1>4, <2>1, SameSenders DEF Binds, Sends, kernel
<1>5. CASE Skips(t) \/ Forgets(t)
  <2>1. Same
    <3> SUFFICES ASSUME NEW u \in Threads, NEW l \in Levels
                 PROVE  /\ Sender(u, l)' <=> Sender(u, l)
                        /\ Sender(u, l) => sockfd'[u][l] = sockfd[u][l]
      OBVIOUS
    <3>1. l <= depth'[u] <=> l <= depth[u] /\ (u # t \/ l # depth[t])
      BY <1>5, PopFrames DEF Skips, Forgets
    <3>2. CASE u = t /\ l = depth[t]
      <4>1. ~Sender(u, l) /\ ~Sender(u, l)'
        BY <1>5, <3>1, <3>2 DEF Skips, Forgets, Pop, Sender, Within, Bound, Sampler
      <4> QED
        BY <4>1
    <3>3. CASE u # t \/ l # depth[t]
      <4>1. pc'[u][l] = pc[u][l] /\ sockfd'[u][l] = sockfd[u][l]
        BY <1>5, <3>3 DEF Skips, Forgets, Pop
      <4> QED
        BY <3>1, <3>3, <4>1, Zenon DEF Sender, Within
    <3> QED
      BY <3>2, <3>3
  <2> QED
    BY <1>5, <2>1, SameSenders DEF Skips, Forgets, Pop, kernel
<1>6. CASE Opens(t)
  <2>0. PICK d \in Levels : d = depth[t]
    BY <1>6 DEF Opens, Shift
  <2>1. \A u \in Threads, l \in Levels :
          u # t \/ l # d => /\ Sender(u, l)' <=> Sender(u, l)
                            /\ sockfd'[u][l] = sockfd[u][l]
    BY <1>6, <2>0 DEF Opens, Shift, TypeOK, Sender, Within
  <2>2. ~Sender(t, d)
    BY <1>6, <2>0 DEF Opens, Shift, Sender, Within, Bound
  <2>3. CASE sockfd'[t][d] = FD_NONE /\ sockets' = sockets
    <3>1. ~Sender(t, d)'
      BY <1>6, <2>0, <2>3 DEF Opens, Shift, Sender, Within, FD_NONE
    <3> QED
      <4>1. Same
        <5> SUFFICES ASSUME NEW u \in Threads, NEW l \in Levels
                     PROVE  /\ Sender(u, l)' <=> Sender(u, l)
                            /\ Sender(u, l) => sockfd'[u][l] = sockfd[u][l]
          OBVIOUS
        <5>1. CASE u = t /\ l = d
          BY <2>2, <3>1, <5>1
        <5>2. CASE u # t \/ l # d
          BY <2>1, <5>2
        <5> QED
          BY <5>1, <5>2
      <4> QED
        BY <1>6, <2>0, <2>3, <4>1, SameSenders DEF Opens
  <2>4. CASE /\ sockfd'[t][d] \in Fds \ (files \cup sockets)
             /\ sockets' = sockets \cup {sockfd'[t][d]}
    <3>1. Sender(t, d)' 
      BY <1>6, <2>0, <2>4 DEF Opens, Shift, Sender, Within
    <3>2. files' = files
      BY <1>6, <2>0 DEF Opens
    <3>3. \A u \in Threads, l \in Levels : Sender(u, l)' =>
            (sockfd[u][l])' \in sockets' \ files'
      BY <2>1, <2>4, <3>2 DEF OwnSockets
    <3>4. \A u, v \in Threads, l, m \in Levels :
            Sender(u, l)' /\ Sender(v, m)' /\ (sockfd[u][l])' = (sockfd[v][m])'
              => u = v /\ l = m
      BY <2>1, <2>4 DEF OwnSockets
    <3>5. \A fd \in sockets' \ {0} :
            \E u \in Threads, l \in Levels : Sender(u, l)' /\ (sockfd[u][l])' = fd
      BY <2>1, <2>2, <2>4, <3>1 DEF OwnSockets
    <3> QED
      BY <3>3, <3>4, <3>5 DEF OwnSockets
  <2> QED
    BY <1>6, <2>0, <2>3, <2>4 DEF Opens
<1>7. CASE Closes(t)
  <2>0. PICK d \in Levels : d = depth[t]
    BY <1>7 DEF Closes, Shift
  <2>1. \A u \in Threads, l \in Levels :
          u # t \/ l # d => (Sender(u, l)' <=> Sender(u, l))
    BY <1>7, <2>0 DEF Closes, Shift, TypeOK, Sender, Within
  <2>2. ~Sender(t, d)'
    BY <1>7, <2>0 DEF Closes, Shift, Sender, Within, Bound
  <2>3. Sender(t, d) 
    BY <1>7, <2>0, FrameTypes DEF Closes, Shift, Sender, Within, BoundInv
  <2>4. /\ sockfd' = sockfd /\ files' = files
        /\ sockets' = sockets \ {sockfd[t][d]}
    BY <1>7, <2>0 DEF Closes
  <2>5. \A u \in Threads, l \in Levels : Sender(u, l)' =>
          (sockfd[u][l])' \in sockets' \ files'
    BY <2>1, <2>2, <2>3, <2>4 DEF OwnSockets
  <2>6. \A u, v \in Threads, l, m \in Levels :
          Sender(u, l)' /\ Sender(v, m)' /\ (sockfd[u][l])' = (sockfd[v][m])'
            => u = v /\ l = m
    BY <2>1, <2>2, <2>4 DEF OwnSockets
  <2>7. \A fd \in sockets' \ {0} :
          \E u \in Threads, l \in Levels : Sender(u, l)' /\ (sockfd[u][l])' = fd
    BY <2>1, <2>4 DEF OwnSockets
  <2> QED
    BY <2>5, <2>6, <2>7 DEF OwnSockets
<1>8. CASE GivesUp(t)
  <2>0. PICK d \in Levels : d = depth[t]
    BY <1>8 DEF GivesUp, Pop
  <2>1. \A u \in Threads, l \in Levels :
          u # t \/ l # d => /\ Sender(u, l)' <=> Sender(u, l)
                            /\ sockfd'[u][l] = sockfd[u][l]
    <3> SUFFICES ASSUME NEW u \in Threads, NEW l \in Levels, u # t \/ l # d
                 PROVE  /\ Sender(u, l)' <=> Sender(u, l)
                        /\ sockfd'[u][l] = sockfd[u][l]
      OBVIOUS
    <3>1. l <= depth'[u] <=> l <= depth[u]
      BY <1>8, <2>0, PopFrames DEF GivesUp
    <3>2. pc'[u][l] = pc[u][l] /\ sockfd'[u][l] = sockfd[u][l]
      BY <1>8, <2>0 DEF GivesUp, Pop
    <3> QED
      BY <3>1, <3>2, Zenon DEF Sender, Within
  <2>2. ~Sender(t, d)'
    BY <1>8, <2>0, PopFrames DEF GivesUp, Pop, Sender, Within
  <2>3. /\ sockfd[t][d] <= 0 
        /\ files' = files /\ sockets' = sockets
    BY <1>8, <2>0 DEF GivesUp, Pop, kernel
  <2>4. \A u \in Threads, l \in Levels : Sender(u, l)' =>
          (sockfd[u][l])' \in sockets' \ files'
    BY <2>1, <2>2, <2>3 DEF OwnSockets
  <2>5. \A u, v \in Threads, l, m \in Levels :
          Sender(u, l)' /\ Sender(v, m)' /\ (sockfd[u][l])' = (sockfd[v][m])'
            => u = v /\ l = m
    BY <2>1, <2>2 DEF OwnSockets
  <2>6. Sender(t, d) => sockfd[t][d] = 0
    BY <2>3, FrameTypes DEF Sender
  <2>7. \A fd \in sockets' \ {0} :
          \E u \in Threads, l \in Levels : Sender(u, l)' /\ (sockfd[u][l])' = fd
    BY <2>1, <2>3, <2>6 DEF OwnSockets
  <2> QED
    BY <2>4, <2>5, <2>7 DEF OwnSockets
<1> QED
  BY <1>1, <1>2, <1>3, <1>4, <1>5, <1>6, <1>7, <1>8, StepKinds

-----------------------------------------------------------------------------
(* The calls of a thread. *)

(* A step of thread t leaves the frames of the others alone. *)
LEMMA OthersFrames ==
  ASSUME TypeOK, NEW t \in Threads, Application(t) \/ Monitor(t),
         NEW u \in Threads, u # t
  PROVE  /\ depth'[u] = depth[u]
         /\ \A l \in Levels : pc'[u][l] = pc[u][l] /\ sockfd'[u][l] = sockfd[u][l]
BY StepKinds DEF Stays, Pushes, Samples, Opens, Binds, Sends, Closes, Skips, GivesUp,
     Forgets, Shift, Pop

LEMMA OthersRest ==
  ASSUME TypeOK, NEW t \in Threads, Application(t) \/ Monitor(t),
         NEW u \in Threads, u # t
  PROVE  call'[u] = call[u] /\ n'[u] = n[u] /\ failures'[u] = failures[u]
<1> USE DEF TypeOK, history, Intercepted
<1>1. ASSUME NEW fd \in AppFds, AppOpen(t, fd) \/ AppWrite(t, fd) \/ AppClose(t, fd)
      PROVE  call'[u] = call[u] /\ n'[u] = n[u] /\ failures'[u] = failures[u]
  BY <1>1 DEF AppOpen, AppWrite, AppClose
<1>2. CASE PeerDead(t) \/ Ignore(t) \/ Enter(t) \/ Overflow(t)
  BY <1>2 DEF PeerDead, Ignore, Enter, Overflow
<1>a. CASE PeerAlive(t)
  BY <1>a DEF PeerAlive, Pass
<1>3. CASE Count(t) \/ Bump(t) \/ SkipByCount(t) \/ PassCount(t) \/ Reset(t)
  BY <1>3 DEF Count, Bump, SkipByCount, PassCount, Reset
<1>4. ASSUME NEW fd \in Fds, OpenSocket(t, fd)
      PROVE  call'[u] = call[u] /\ n'[u] = n[u] /\ failures'[u] = failures[u]
  BY <1>4 DEF OpenSocket
<1>5. CASE SocketFails(t) \/ NoSocket(t) \/ Remember(t) \/ Connect(t)
  BY <1>5 DEF SocketFails, NoSocket, Remember, Connect
<1>6. CASE Refused(t) \/ WriteHeader(t) \/ WriteBody(t) \/ CloseSocket(t) \/ Forget(t)
  BY <1>6 DEF Refused, WriteHeader, WriteBody, CloseSocket, Forget
<1> QED
  BY <1>1, <1>2, <1>3, <1>4, <1>5, <1>6, <1>a DEF Application, Monitor

(* A step of thread t ends without a call of its own to record(), or it is *)
(* a call of the application, or one of the sender, or the call stays.     *)
Calls(t, p, dom) ==
  /\ depth[t] \in Levels /\ depth' = depth
  /\ pc'[t][depth[t]] = p
  /\ call'[t] = [dom |-> dom, fd |-> sockfd'[t][depth[t]], alive |-> FALSE]

LEMMA CallKinds ==
  ASSUME TypeOK, NEW t \in Threads, Application(t) \/ Monitor(t)
  PROVE  \/ call'[t] = NoCall
         \/ depth'[t] = 0
         \/ Overflow(t) \/ PeerAlive(t)
         \/ Calls(t, "opened", "SOCKETS")
         \/ Calls(t, "header", "SOCKETS") \/ Calls(t, "refused", "SOCKETS")
         \/ Calls(t, "body", "FILE_WRITE") \/ Calls(t, "close", "FILE_WRITE")
         \/ Calls(t, "closed", "FILE_OPEN_CLOSE")
<1> USE DEF TypeOK, Intercepted
<1>1. ASSUME NEW fd \in AppFds, AppOpen(t, fd) \/ AppWrite(t, fd) \/ AppClose(t, fd)
      PROVE  depth'[t] = 0
  BY <1>1 DEF AppOpen, AppWrite, AppClose, Outside
<1>2. CASE PeerDead(t) \/ Ignore(t) \/ Enter(t)
  <2>1. call'[t] = NoCall
    BY <1>2 DEF PeerDead, Ignore, Enter
  <2> QED
    BY <2>1
<1>3. CASE Count(t) \/ Bump(t) \/ SkipByCount(t) \/ PassCount(t) \/ Reset(t)
  <2>1. call'[t] = NoCall
    BY <1>3 DEF Count, Bump, SkipByCount, PassCount, Reset, At
  <2> QED
    BY <2>1
<1>4. CASE NoSocket(t) \/ Remember(t) \/ Refused(t) \/ Forget(t)
  <2>1. call'[t] = NoCall
    BY <1>4 DEF NoSocket, Remember, Refused, Forget, At
  <2> QED
    BY <2>1
<1>5. ASSUME NEW fd \in Fds, OpenSocket(t, fd)
      PROVE  Calls(t, "opened", "SOCKETS")
  <2>1. depth[t] \in Levels
    BY <1>5, AtTop DEF OpenSocket
  <2>2. "opened" \in Places
    BY DEF Places
  <2> QED
    BY <1>5, <2>1, <2>2, GotoFrames, SetSocketFrames DEF OpenSocket, Calls
<1>6. CASE SocketFails(t)
  <2>1. depth[t] \in Levels
    BY <1>6, AtTop DEF SocketFails
  <2>2. "opened" \in Places
    BY DEF Places
  <2>3. Calls(t, "opened", "SOCKETS")
    BY <1>6, <2>1, <2>2, GotoFrames, SetSocketFrames DEF SocketFails, Calls
  <2> QED
    BY <2>3
<1>7. CASE Connect(t)
  <2>1. depth[t] \in Levels
    BY <1>7, AtTop DEF Connect
  <2>2. "header" \in Places /\ "refused" \in Places
    BY DEF Places, Bound
  <2>3. Calls(t, "header", "SOCKETS") \/ Calls(t, "refused", "SOCKETS")
    BY <1>7, <2>1, <2>2, GotoFrames DEF Connect, Calls, Socket
  <2> QED
    BY <2>3
<1>8. CASE WriteHeader(t)
  <2>1. depth[t] \in Levels
    BY <1>8, AtTop DEF WriteHeader
  <2>2. "body" \in Places /\ "close" \in Places
    BY DEF Places, Bound
  <2>3. Calls(t, "body", "FILE_WRITE") \/ Calls(t, "close", "FILE_WRITE")
    BY <1>8, <2>1, <2>2, GotoFrames DEF WriteHeader, Calls, Socket
  <2> QED
    BY <2>3
<1>9. CASE WriteBody(t)
  <2>1. depth[t] \in Levels
    BY <1>9, AtTop DEF WriteBody
  <2>2. "close" \in Places
    BY DEF Places, Bound
  <2>3. Calls(t, "close", "FILE_WRITE")
    BY <1>9, <2>1, <2>2, GotoFrames DEF WriteBody, Calls, Socket
  <2> QED
    BY <2>3
<1>10. CASE CloseSocket(t)
  <2>1. depth[t] \in Levels
    BY <1>10, AtTop DEF CloseSocket
  <2>2. "closed" \in Places
    BY DEF Places
  <2>3. Calls(t, "closed", "FILE_OPEN_CLOSE")
    BY <1>10, <2>1, <2>2, GotoFrames DEF CloseSocket, Calls, Socket
  <2> QED
    BY <2>3
<1> QED
  BY <1>1, <1>2, <1>3, <1>4, <1>5, <1>6, <1>7, <1>8, <1>9, <1>10
     DEF Application, Monitor

(* A call has passed the first gate only if the peer was alive. *)
LEMMA PassIsAlive ==
  ASSUME TypeOK, NEW t \in Threads, Application(t) \/ Monitor(t)
  PROVE  ~call'[t].alive \/ call'[t] = call[t] \/ PeerAlive(t)
<1>1. ASSUME NEW fd \in AppFds, AppOpen(t, fd) \/ AppWrite(t, fd) \/ AppClose(t, fd)
      PROVE  ~call'[t].alive
  BY <1>1 DEF AppOpen, AppWrite, AppClose, Intercepted, TypeOK
<1>2. CASE PeerDead(t) \/ Ignore(t) \/ Enter(t)
  <2>1. call'[t] = NoCall
    BY <1>2 DEF PeerDead, Ignore, Enter, TypeOK
  <2>2. ~NoCall.alive
    BY DEF NoCall
  <2> QED
    BY <2>1, <2>2, Zenon
<1>3. CASE Overflow(t) \/ Count(t) \/ Bump(t) \/ SkipByCount(t) \/ PassCount(t) \/ Reset(t)
  BY <1>3 DEF Overflow, Count, Bump, SkipByCount, PassCount, Reset
<1>4. ASSUME NEW fd \in Fds, OpenSocket(t, fd)
      PROVE  ~call'[t].alive
  BY <1>4 DEF OpenSocket, Intercepted, TypeOK
<1>5. CASE NoSocket(t) \/ Remember(t) \/ Refused(t) \/ Forget(t)
  BY <1>5 DEF NoSocket, Remember, Refused, Forget
<1>6. CASE SocketFails(t) \/ Connect(t) \/ WriteHeader(t) \/ WriteBody(t) \/ CloseSocket(t)
  BY <1>6 DEF SocketFails, Connect, WriteHeader, WriteBody, CloseSocket, Intercepted, TypeOK
<1> QED
  BY <1>1, <1>2, <1>3, <1>4, <1>5, <1>6 DEF Application, Monitor

LEMMA CallStep ==
  ASSUME TypeOK, TypeOK', CallInv, NEW t \in Threads, Application(t) \/ Monitor(t)
  PROVE  CallInv'
<1> SUFFICES ASSUME NEW u \in Threads, call'[u] # NoCall, depth'[u] > 0
             PROVE  pc'[u][depth'[u]] \in (Bound \ {"connect"}) \cup {"opened", "closed"}
  BY DEF CallInv
<1>0. depth'[u] \in Levels
  BY InsideNext
<1>1. CASE u # t
  BY <1>0, <1>1, OthersFrames, OthersRest DEF CallInv
<1>2. CASE u = t /\ Overflow(t)
  BY <1>0, <1>2 DEF Overflow, CallInv
<1>a. CASE u = t /\ PeerAlive(t)
  BY <1>0, <1>a, PassCall DEF PeerAlive, CallInv
<1>3. CASE u = t /\ ~Overflow(t) /\ ~PeerAlive(t)
  <2>1. depth'[t] # 0 /\ call'[t] # NoCall
    BY <1>3
  <2>2. \/ Calls(t, "opened", "SOCKETS")
        \/ Calls(t, "header", "SOCKETS") \/ Calls(t, "refused", "SOCKETS")
        \/ Calls(t, "body", "FILE_WRITE") \/ Calls(t, "close", "FILE_WRITE")
        \/ Calls(t, "closed", "FILE_OPEN_CLOSE")
    BY <1>3, <2>1, CallKinds, Zenon
  <2>3. pc'[t][depth'[t]] \in {"opened", "header", "refused", "body", "close", "closed"}
    BY <2>2 DEF Calls
  <2> QED
    BY <1>3, <2>3 DEF Bound
<1> QED
  BY <1>1, <1>2, <1>3, <1>a

-----------------------------------------------------------------------------
(* The counter. *)
LEMMA CountStep ==
  ASSUME TypeOK, TypeOK', CountInv, CallInv, NEW t \in Threads,
         Application(t) \/ Monitor(t)
  PROVE  CountInv'
<1> DEFINE Full == frequency > 0 /\ count_intercepts_since_last_report >= frequency
           Holds(u) == /\ depth[u] \in Levels
                       /\ pc[u][depth[u]] \in {"check", "reset"}
                       /\ n[u] = count_intercepts_since_last_report
<1> SUFFICES ASSUME Full'
             PROVE  \E u \in Threads : Holds(u)'
  BY DEF CountInv
<1>0. frequency' = frequency
  BY DEF Application, Monitor, AppOpen, AppWrite, AppClose, PeerAlive, PeerDead, Ignore, Enter, Overflow,
     Count, Bump, SkipByCount, PassCount, Reset, OpenSocket, SocketFails, NoSocket,
     Remember, Connect, Refused, WriteHeader, WriteBody, CloseSocket, Forget, environment
<1>1. CASE Bump(t)
  <2>1. depth[t] \in Levels /\ "check" \in Places
    BY <1>1, AtTop DEF Bump, Places, Sampler
  <2>2. pc'[t][depth[t]] = "check" /\ depth' = depth
    BY <1>1, <2>1, GotoFrames DEF Bump
  <2>3. n' = n /\ count_intercepts_since_last_report' = n[t]
    BY <1>1 DEF Bump
  <2> QED
    BY <2>1, <2>2, <2>3
<1>2. CASE Reset(t)
  <2>1. count_intercepts_since_last_report' = 0 /\ frequency \in Nat
    BY <1>2 DEF Reset, TypeOK
  <2> QED
    BY <1>0, <2>1
<1>3. CASE ~Bump(t) /\ ~Reset(t)
  <2>1. count_intercepts_since_last_report' = count_intercepts_since_last_report
    BY <1>3 DEF Application, Monitor, AppOpen, AppWrite, AppClose, PeerAlive, PeerDead, Ignore, Enter,
       Overflow, Count, SkipByCount, PassCount, OpenSocket, SocketFails, NoSocket,
       Remember, Connect, Refused, WriteHeader, WriteBody, CloseSocket, Forget
  <2>2. PICK u \in Threads : Holds(u)
    BY <1>0, <2>1 DEF CountInv
  <2>3. CASE u # t
    BY <2>1, <2>2, <2>3, OthersFrames, OthersRest
  <2>4. CASE u = t
    <3>0. call[t] = NoCall
      <4>1. depth[t] > 0
        BY <2>2, <2>4, Ground
      <4> QED
        BY <2>2, <2>4, <4>1 DEF CallInv, Bound
    <3>1. CASE PassCount(t)
      <4>1. "reset" \in Places
        BY DEF Places, Sampler
      <4>2. pc'[t][depth[t]] = "reset" /\ depth' = depth /\ n' = n
        BY <1>3, <2>2, <2>4, <3>1, <4>1, GotoFrames DEF PassCount
      <4> QED
        BY <2>1, <2>2, <2>4, <4>2
    <3>2. ~SkipByCount(t)
      <4>1. count_intercepts_since_last_report \in Nat /\ frequency \in Nat
        BY DEF TypeOK
      <4>2. count_intercepts_since_last_report >= frequency
        BY <1>0, <2>1
      <4> QED
        BY <2>2, <2>4, <4>1, <4>2 DEF SkipByCount, Seen
    <3>3. CASE ~PassCount(t)
      <4>1. depth[t] # 0 /\ pc[t][depth[t]] \in {"check", "reset"}
        BY <2>2, <2>4, Ground
      <4>2. \A fd : ~AppOpen(t, fd) /\ ~AppWrite(t, fd) /\ ~AppClose(t, fd)
        BY <4>1 DEF AppOpen, AppWrite, AppClose, Outside
      <4>3. /\ ~PeerAlive(t) /\ ~PeerDead(t)
            /\ ~Ignore(t) /\ ~Enter(t) /\ ~Overflow(t)
        BY <3>0 DEF PeerAlive, PeerDead, Ignore, Enter, Overflow, Waiting
      <4>4. \A p : At(t, p) => p \in {"check", "reset"}
        BY <4>1 DEF At
      <4> QED
        BY <1>3, <3>2, <3>3, <4>2, <4>3, <4>4
           DEF Application, Monitor, Count, OpenSocket, SocketFails, NoSocket,
               Remember, Connect, Refused, WriteHeader, WriteBody, CloseSocket, Forget
    <3> QED
      BY <3>1, <3>3
  <2> QED
    BY <2>3, <2>4
<1> QED
  BY <1>1, <1>2, <1>3

(* A counter at its limit has a thread in the sampler. *)
LEMMA CountRecovers ==
  ASSUME TypeOK, CountInv
  PROVE  SamplerRecovers
<1> SUFFICES ASSUME frequency > 0 /\ count_intercepts_since_last_report >= frequency
             PROVE  \E t \in Threads, l \in Levels : Within(t, l, Sampler)
  BY DEF SamplerRecovers
<1>1. PICK t \in Threads : /\ depth[t] \in Levels
                           /\ pc[t][depth[t]] \in {"check", "reset"}
  BY DEF CountInv
<1>2. Within(t, depth[t], Sampler)
  BY <1>1, FrameTypes DEF Within, Sampler
<1> QED
  BY <1>1, <1>2

-----------------------------------------------------------------------------
(* Nested calls. *)
LEMMA Environment ==
  ASSUME NEW t \in Threads, Application(t) \/ Monitor(t)
  PROVE  domains' = domains /\ frequency' = frequency
BY DEF Application, Monitor, AppOpen, AppWrite, AppClose, PeerAlive, PeerDead, Ignore, Enter, Overflow,
   Count, Bump, SkipByCount, PassCount, Reset, OpenSocket, SocketFails, NoSocket,
   Remember, Connect, Refused, WriteHeader, WriteBody, CloseSocket, Forget, environment

(* A call of the sender that record() does not ignore was made past the    *)
(* connection.                                                             *)
LEMMA NestedCall ==
  ASSUME TypeOK, NestInv, "SOCKETS" \notin domains,
         NEW t \in Threads, Waiting(t, TRUE), ~Ignored(call[t]), depth[t] > 0
  PROVE  pc[t][depth[t]] \in Connected /\ call[t].fd = sockfd[t][depth[t]]
BY DEF NestInv, Waiting, Ignored

(* Only Enter pushes a frame. *)
LEMMA PushIsEnter ==
  ASSUME TypeOK, NEW t \in Threads, Application(t) \/ Monitor(t), ~Enter(t)
  PROVE  depth'[t] \in {depth[t], depth[t] - 1}
<1> USE DEF TypeOK, Return
<1>1. ASSUME NEW fd \in AppFds, AppOpen(t, fd) \/ AppWrite(t, fd) \/ AppClose(t, fd)
      PROVE  depth' = depth
  BY <1>1 DEF AppOpen, AppWrite, AppClose
<1>2. CASE PeerAlive(t) \/ PeerDead(t) \/ Ignore(t) \/ Overflow(t)
  BY <1>2 DEF PeerAlive, PeerDead, Ignore, Overflow
<1>3. CASE Count(t) \/ Bump(t) \/ PassCount(t) \/ Reset(t)
  BY <1>3 DEF Count, Bump, PassCount, Reset
<1>4. CASE SkipByCount(t) \/ NoSocket(t) \/ Forget(t)
  BY <1>4 DEF SkipByCount, NoSocket, Forget
<1>5. ASSUME NEW fd \in Fds, OpenSocket(t, fd)
      PROVE  depth' = depth
  BY <1>5 DEF OpenSocket
<1>6. CASE \/ SocketFails(t) \/ Remember(t) \/ Connect(t) \/ Refused(t)
           \/ WriteHeader(t) \/ WriteBody(t) \/ CloseSocket(t)
  BY <1>6 DEF SocketFails, Remember, Connect, Refused, WriteHeader, WriteBody, CloseSocket
<1> QED
  BY <1>1, <1>2, <1>3, <1>4, <1>5, <1>6 DEF Application, Monitor

(* The frames below the innermost one do not change. *)
LEMMA OuterFrames ==
  ASSUME TypeOK, NEW t \in Threads, Application(t) \/ Monitor(t),
         NEW l \in Levels, l < depth[t]
  PROVE  pc'[t][l] = pc[t][l] /\ sockfd'[t][l] = sockfd[t][l]
<1>1. l # depth[t] /\ l # depth[t] + 1
  BY FrameTypes, Ground
<1> QED
  BY <1>1, StepKinds DEF Stays, Pushes, Samples, Opens, Binds, Sends, Closes, Skips,
     GivesUp, Forgets, Shift, Pop

LEMMA NestStep ==
  ASSUME TypeOK, TypeOK', NestInv, CallInv, NEW t \in Threads,
         Application(t) \/ Monitor(t)
  PROVE  NestInv'
<1> SUFFICES ASSUME "SOCKETS" \notin domains
             PROVE  /\ \A u \in Threads, l \in Levels :
                         l < depth'[u] => pc'[u][l] \in Connected
                    /\ \A u \in Threads : call'[u] # NoCall /\ depth'[u] > 0 =>
                         \/ (call'[u]).dom = "SOCKETS"
                         \/ /\ pc'[u][depth'[u]] \in Connected
                            /\ (call'[u]).fd = sockfd'[u][depth'[u]]
  BY Environment DEF NestInv
<1>1. ASSUME NEW u \in Threads, NEW l \in Levels, l < depth'[u]
      PROVE  pc'[u][l] \in Connected
  <2>1. CASE u # t
    BY <1>1, <2>1, OthersFrames DEF NestInv
  <2>2. CASE u = t /\ l < depth[t]
    BY <2>2, OuterFrames DEF NestInv
  <2>3. CASE u = t /\ ~(l < depth[t])
    <3>1. Enter(t) /\ l = depth[t] /\ depth[t] > 0
      <4>1. depth[t] \in Nat /\ l \in Nat /\ l >= 1
        BY FrameTypes, Ground
      <4>2. Enter(t)
        BY <1>1, <2>3, <4>1, PushIsEnter
      <4>3. depth'[t] = depth[t] + 1
        BY <4>2, EnterFrames
      <4> QED
        BY <1>1, <2>3, <4>1, <4>2, <4>3
    <3>2. pc[t][depth[t]] \in Connected
      BY <3>1, NestedCall DEF Enter
    <3>3. pc'[t][l] = pc[t][l]
      <4>1. l # depth[t] + 1
        BY <3>1, FrameTypes
      <4> QED
        BY <3>1, <4>1, EnterFrames
    <3> QED
      BY <2>3, <3>1, <3>2, <3>3
  <2> QED
    BY <2>1, <2>2, <2>3
<1>2. ASSUME NEW u \in Threads, call'[u] # NoCall, depth'[u] > 0
      PROVE  \/ (call'[u]).dom = "SOCKETS"
             \/ /\ pc'[u][depth'[u]] \in Connected
                /\ (call'[u]).fd = sockfd'[u][depth'[u]]
  <2>0. depth'[u] \in Levels
    BY <1>2, InsideNext
  <2>1. CASE u # t
    BY <1>2, <2>0, <2>1, OthersFrames, OthersRest DEF NestInv
  <2>2. CASE u = t /\ Overflow(t)
    BY <1>2, <2>0, <2>2 DEF Overflow, NestInv
  <2>a. CASE u = t /\ PeerAlive(t)
    BY <1>2, <2>0, <2>a, PassCall DEF PeerAlive, NestInv
  <2>3. CASE u = t /\ ~Overflow(t) /\ ~PeerAlive(t)
    <3>1. depth'[t] # 0 /\ call'[t] # NoCall
      BY <1>2, <2>3
    <3>2. \/ Calls(t, "opened", "SOCKETS")
          \/ Calls(t, "header", "SOCKETS") \/ Calls(t, "refused", "SOCKETS")
          \/ Calls(t, "body", "FILE_WRITE") \/ Calls(t, "close", "FILE_WRITE")
          \/ Calls(t, "closed", "FILE_OPEN_CLOSE")
      BY <2>3, <3>1, CallKinds, Zenon
    <3>3. CASE \/ Calls(t, "opened", "SOCKETS")
               \/ Calls(t, "header", "SOCKETS") \/ Calls(t, "refused", "SOCKETS")
      BY <2>3, <3>3 DEF Calls
    <3>4. CASE \/ Calls(t, "body", "FILE_WRITE") \/ Calls(t, "close", "FILE_WRITE")
               \/ Calls(t, "closed", "FILE_OPEN_CLOSE")
      BY <2>3, <3>4 DEF Calls, Connected
    <3> QED
      BY <3>2, <3>3, <3>4
  <2> QED
    BY <2>1, <2>2, <2>3, <2>a
<1> QED
  BY <1>1, <1>2

-----------------------------------------------------------------------------
(* Failed connections. *)
LEMMA FailStep ==
  ASSUME TypeOK, TypeOK', FailInv, NestInv, NEW t \in Threads,
         Application(t) \/ Monitor(t)
  PROVE  FailInv'
<1> SUFFICES ASSUME "SOCKETS" \notin domains, NEW u \in Threads
             PROVE  /\ failures'[u] \in {0, 1}
                    /\ failures'[u] = 1 =>
                         /\ failed_socket_connections' > 0 /\ ~call'[u].alive
                         /\ \A l \in Levels : l <= depth'[u] => pc'[u][l] \in Connected
  BY Environment DEF FailInv
<1>0. failed_socket_connections > 0 => failed_socket_connections' > 0
  <2>1. CASE Refused(t)
    BY <2>1 DEF Refused, TypeOK
  <2>2. CASE ~Refused(t)
    BY <2>2 DEF gates, Application, Monitor, AppOpen, AppWrite, AppClose, PeerAlive, PeerDead, Ignore, Enter,
       Overflow, Count, Bump, SkipByCount, PassCount, Reset, OpenSocket, SocketFails,
       NoSocket, Remember, Connect, WriteHeader, WriteBody, CloseSocket, Forget
  <2> QED
    BY <2>1, <2>2
<1>1. CASE u # t
  BY <1>0, <1>1, OthersFrames, OthersRest DEF FailInv
<1>2. CASE u = t /\ Refused(t)
  <2>1. depth[t] \in Levels /\ pc[t][depth[t]] = "refused"
    BY <1>2, AtTop DEF Refused
  <2>2. failures[t] = 0
    BY <2>1, FrameTypes DEF FailInv, Connected
  <2>3. failures'[t] = 1 /\ failed_socket_connections' > 0 /\ depth' = depth
    BY <1>2, <2>2 DEF Refused, TypeOK
  <2>4. pc'[t][depth[t]] = "close"
    <3>1. "close" \in Places
      BY DEF Places, Bound
    <3> QED
      BY <1>2, <2>1, <3>1, GotoFrames DEF Refused
  <2>5. ASSUME NEW l \in Levels, l <= depth[t]
        PROVE  pc'[t][l] \in Connected
    <3>1. CASE l = depth[t]
      BY <2>4, <3>1 DEF Connected
    <3>2. CASE l < depth[t]
      BY <3>2, OuterFrames DEF NestInv
    <3>3. l \in Nat /\ depth[t] \in Nat
      BY FrameTypes, Ground
    <3> QED
      BY <2>5, <3>1, <3>2, <3>3
  <2>6. ~call'[t].alive
    BY <1>2 DEF Refused, At, NoCall
  <2> QED
    BY <1>2, <2>3, <2>5, <2>6
<1>3. CASE u = t /\ ~Refused(t)
  <2>1. failures' = failures
    BY <1>3 DEF history, Application, Monitor, AppOpen, AppWrite, AppClose, PeerAlive, PeerDead, Ignore, Enter,
       Overflow, Count, Bump, SkipByCount, PassCount, Reset, OpenSocket, SocketFails,
       NoSocket, Remember, Connect, WriteHeader, WriteBody, CloseSocket, Forget
  <2>a. ASSUME failures[t] = 1
        PROVE  failed_socket_connections > 0 /\ ~call[t].alive /\ ~call'[t].alive
    <3>1. failed_socket_connections > 0 /\ ~call[t].alive
      BY <2>a DEF FailInv
    <3>2. failed_socket_connections # 0
      BY <3>1
    <3>3. ~PeerAlive(t)
      BY <3>2, Zenon DEF PeerAlive
    <3> QED
      BY <3>1, <3>3, PassIsAlive, Zenon
  <2>2. SUFFICES ASSUME failures[t] = 1, NEW l \in Levels, l <= depth'[t]
                 PROVE  pc'[t][l] \in Connected
    BY <1>0, <1>3, <2>1, <2>a DEF FailInv
  <2>3. ~call[t].alive /\ \A m \in Levels : m <= depth[t] => pc[t][m] \in Connected
    BY <2>2 DEF FailInv
  <2>4. ~Enter(t)
    BY <2>3 DEF Enter, Waiting
  <2>5. l <= depth[t]
    BY <2>2, <2>4, PushIsEnter, FrameTypes, Ground
  <2>6. CASE l < depth[t]
    BY <2>3, <2>5, <2>6, OuterFrames
  <2>7. CASE l = depth[t]
    <3>1. pc[t][l] \in Connected
      BY <2>3, <2>7, FrameTypes
    <3>2. \A p : At(t, p) => p \in Connected
      BY <2>7, <3>1 DEF At
    <3>a. CASE PeerAlive(t) \/ PeerDead(t) \/ Ignore(t) \/ Overflow(t)
      BY <3>a, <3>1 DEF PeerAlive, PeerDead, Ignore, Overflow
    <3>3. \/ WriteBody(t) \/ CloseSocket(t) \/ Forget(t) \/ pc' = pc
          \/ PeerAlive(t) \/ PeerDead(t) \/ Ignore(t) \/ Overflow(t)
      BY <1>3, <2>4, <3>2
         DEF Connected, Application, Monitor, AppOpen, AppWrite, AppClose, Count, Bump,
             SkipByCount, PassCount, Reset, OpenSocket, SocketFails, NoSocket,
             Remember, Connect, WriteHeader
    <3>4. CASE pc' = pc
      BY <3>1, <3>4
    <3>5. CASE WriteBody(t)
      <4>1. "close" \in Places
        BY DEF Places, Bound
      <4> QED
        BY <2>7, <3>5, <4>1, GotoFrames DEF WriteBody, Connected
    <3>6. CASE CloseSocket(t)
      <4>1. "closed" \in Places
        BY DEF Places
      <4> QED
        BY <2>7, <3>6, <4>1, GotoFrames DEF CloseSocket, Connected
    <3>7. CASE Forget(t)
      <4>1. depth'[t] = depth[t] - 1
        BY <2>7, <3>7, ReturnFrames DEF Forget
      <4> QED
        BY <2>2, <2>7, <4>1, FrameTypes
    <3> QED
      BY <3>a, <3>3, <3>4, <3>5, <3>6, <3>7
  <2> QED
    BY <2>5, <2>6, <2>7, FrameTypes, Ground
<1> QED
  BY <1>1, <1>2, <1>3

-----------------------------------------------------------------------------
(* One thread at a time. *)
LEMMA OverlapKept ==
  ASSUME NEW t \in Threads, Application(t) \/ Monitor(t), ~overlapped'
  PROVE  ~overlapped
<1>1. CASE PeerDead(t) \/ Ignore(t) \/ Enter(t)
  BY <1>1, Zenon DEF PeerDead, Ignore, Enter, Overlap
<1>2. CASE ~(PeerDead(t) \/ Ignore(t) \/ Enter(t))
  BY <1>2 DEF history, Application, Monitor, AppOpen, AppWrite, AppClose,
     PeerAlive, Overflow, Count, Bump, SkipByCount, PassCount, Reset, OpenSocket, SocketFails,
     NoSocket, Remember, Connect, Refused, WriteHeader, WriteBody, CloseSocket, Forget
<1> QED
  BY <1>1, <1>2

(* A call of the sender is ignored. *)
LEMMA AloneIgnores ==
  ASSUME TypeOK, NestInv, AloneInv, BoundInv, "SOCKETS" \notin domains, ~overlapped,
         NEW t \in Threads, Waiting(t, TRUE), ~Ignored(call[t])
  PROVE  depth[t] = 0
<1> SUFFICES ASSUME depth[t] # 0
             PROVE  FALSE
  OBVIOUS
<1>1. depth[t] \in Levels /\ depth[t] > 0
  BY DEF TypeOK, Levels
<1>2. pc[t][depth[t]] \in Connected /\ call[t].fd = sockfd[t][depth[t]]
  BY <1>1, NestedCall
<1>3. Within(t, depth[t], Bound \cup {"closed"})
  BY <1>1, <1>2, FrameTypes DEF Within, Bound, Connected
<1>4. socket_fd = sockfd[t][depth[t]] /\ sockfd[t][depth[t]] > 0
  BY <1>1, <1>3 DEF AloneInv, BoundInv
<1>5. TakenForOwn(call[t])
  BY <1>2, <1>4, <1>1, FrameTypes DEF TakenForOwn, FD_NONE
<1> QED
  BY <1>5 DEF Ignored

LEMMA OwnCallsStep ==
  ASSUME Inv, NEW t \in Threads, Application(t) \/ Monitor(t)
  PROVE  OwnCallsIgnored'
<1> SUFFICES ASSUME "SOCKETS" \notin domains, ~overlapped'
             PROVE  (\A u \in Threads : depth'[u] <= 1) /\ ~mistaken' /\ stack' = "ok"
  BY Environment DEF OwnCallsIgnored
<1>0. ~overlapped
  BY OverlapKept
<1>1. (\A u \in Threads : depth[u] <= 1) /\ ~mistaken /\ stack = "ok"
  BY <1>0 DEF Inv, OwnCallsIgnored
<1>2. \A u \in Threads : depth[u] \in Nat
  BY FrameTypes DEF Inv
<1>3. ASSUME NEW u \in Threads
      PROVE  depth'[u] <= 1
  <2>1. CASE u # t
    BY <1>1, <2>1, OthersFrames DEF Inv
  <2>2. CASE u = t /\ Enter(t)
    <3>1. depth[t] = 0
      BY <1>0, <2>2, AloneIgnores DEF Inv, Enter
    <3> QED
      BY <2>2, <3>1, EnterFrames DEF Inv
  <2>3. CASE u = t /\ ~Enter(t)
    BY <1>1, <1>2, <2>3, PushIsEnter DEF Inv
  <2> QED
    BY <2>1, <2>2, <2>3
<1>4. ~mistaken'
  <2>1. CASE Ignore(t)
    <3>1. SUFFICES ASSUME depth[t] = 0, TakenForOwn(call[t])
                   PROVE  FALSE
      BY <1>1, <2>1, Zenon DEF Ignore
    <3>2. PICK u \in Threads, l \in Levels : Within(u, l, Bound \cup {"closed"})
      BY <3>1 DEF Inv, SocketFdCurrent, TakenForOwn
    <3>3. depth[u] > 0 /\ u # t
      BY <1>2, <3>1, <3>2, Ground DEF Within
    <3> QED
      BY <2>1, <3>3, Zenon DEF Ignore, Overlap
  <2>2. CASE ~Ignore(t)
    <3>1. mistaken' = mistaken
      BY <2>2 DEF history, Application, Monitor, AppOpen, AppWrite, AppClose,
         PeerAlive, PeerDead, Enter,
         Overflow, Count, Bump, SkipByCount, PassCount, Reset, OpenSocket, SocketFails,
         NoSocket, Remember, Connect, Refused, WriteHeader, WriteBody, CloseSocket,
         Forget
    <3> QED
      BY <1>1, <3>1
  <2> QED
    BY <2>1, <2>2
<1>5. stack' = "ok"
  <2>1. ~Overflow(t)
    <3> SUFFICES ASSUME Overflow(t)
                 PROVE  FALSE
      OBVIOUS
    <3>1. depth[t] = 0
      BY <1>0, AloneIgnores DEF Inv, Overflow
    <3> QED
      BY <3>1, DepthAssumption DEF Overflow
  <2>2. stack' = stack
    BY <2>1 DEF Application, Monitor, AppOpen, AppWrite, AppClose, PeerAlive, PeerDead, Ignore, Enter,
       Count, Bump, SkipByCount, PassCount, Reset, OpenSocket, SocketFails,
       NoSocket, Remember, Connect, Refused, WriteHeader, WriteBody, CloseSocket, Forget
  <2> QED
    BY <1>1, <2>2
<1> QED
  BY <1>3, <1>4, <1>5

LEMMA AloneStep ==
  ASSUME Inv, TypeOK', OwnCallsIgnored', BoundInv', NEW t \in Threads,
         Application(t) \/ Monitor(t)
  PROVE  AloneInv'
<1> SUFFICES ASSUME "SOCKETS" \notin domains, ~overlapped'
             PROVE  /\ \A u, v \in Threads : depth'[u] > 0 /\ depth'[v] > 0 => u = v
                    /\ \A u \in Threads, l \in Levels :
                         Within(u, l, Bound \cup {"closed"})' => socket_fd' = sockfd'[u][l]
  BY Environment DEF AloneInv
<1>0. ~overlapped /\ TypeOK
  BY OverlapKept DEF Inv
<1>1. \A u \in Threads : depth[u] \in 0..1 /\ depth'[u] \in 0..1
  BY <1>0, Environment, FrameTypes, FrameTypesNext DEF Inv, OwnCallsIgnored
<1>2. \A u, v \in Threads : depth[u] > 0 /\ depth[v] > 0 => u = v
  BY <1>0 DEF Inv, AloneInv
<1>3. ASSUME NEW u \in Threads, NEW v \in Threads, depth'[u] > 0, depth'[v] > 0
      PROVE  u = v
  <2>1. CASE Enter(t)
    <3>1. \A w \in Threads \ {t} : ~(depth[w] > 0)
      BY <2>1, Zenon DEF Enter, Overlap
    <3>2. \A w \in Threads \ {t} : depth'[w] = depth[w]
      BY <1>0, OthersFrames
    <3> QED
      BY <1>3, <3>1, <3>2
  <2>2. CASE ~Enter(t)
    <3>1. \A w \in Threads : depth'[w] > 0 => depth[w] > 0
      <4> SUFFICES ASSUME NEW w \in Threads, depth'[w] > 0
                   PROVE  depth[w] > 0
        OBVIOUS
      <4>1. CASE w = t
        BY <1>0, <1>1, <2>2, <4>1, PushIsEnter
      <4>2. CASE w # t
        BY <1>0, <4>2, OthersFrames
      <4> QED
        BY <4>1, <4>2
    <3> QED
      BY <1>2, <1>3, <3>1
  <2> QED
    BY <2>1, <2>2
<1>4. ASSUME NEW u \in Threads, NEW l \in Levels, Within(u, l, Bound \cup {"closed"})'
      PROVE  socket_fd' = sockfd'[u][l]
  <2>1. depth'[u] = 1 /\ l = 1
    BY <1>1, <1>4, Ground DEF Within
  <2>2. Within(u, l, Bound \cup {"closed"}) => socket_fd = sockfd[u][l]
    BY <1>0 DEF Inv, AloneInv
  <2>3. CASE Forgets(t)
    <3>1. depth'[t] = 0 /\ depth[t] = 1
      BY <1>1, <2>3, Ground DEF Forgets, Pop
    <3>2. u # t
      BY <2>1, <3>1
    <3>3. depth[u] = 1
      BY <1>0, <2>1, <3>2, OthersFrames
    <3> QED
      BY <1>2, <3>1, <3>2, <3>3
  <2>4. CASE Binds(t)
    <3>1. depth[t] = 1 /\ depth' = depth
      BY <1>1, <2>4, Ground DEF Binds, Shift
    <3>2. u = t
      BY <1>2, <2>1, <3>1
    <3> QED
      BY <2>1, <2>4, <3>1, <3>2 DEF Binds
  <2>5. CASE ~Forgets(t) /\ ~Binds(t)
    <3>1. socket_fd' = socket_fd
      BY <1>0, <2>5, StepKinds DEF Stays, Pushes, Samples, Opens, Sends, Closes, Skips, GivesUp
    <3>2. CASE u # t
      BY <1>0, <1>4, <2>2, <3>1, <3>2, OthersFrames DEF Within
    <3>3. CASE u = t
      <4>1. CASE Stays
        BY <1>4, <2>2, <4>1 DEF Stays, Within
      <4>2. CASE Sends(t) \/ Closes(t)
        BY <1>1, <1>4, <2>1, <2>2, <3>3, <4>2 DEF Sends, Closes, Shift, Within
      <4>3. CASE Samples(t) \/ Opens(t)
        BY <1>1, <1>4, <2>1, <3>3, <4>3 DEF Samples, Opens, Shift, Within, Bound, Sampler
      <4>4. CASE Pushes(t)
        BY <1>4, <2>1, <3>3, <4>4 DEF Pushes, Within, Bound
      <4>5. CASE Skips(t) \/ GivesUp(t)
        <5>1. depth'[t] = depth[t] - 1
          BY <4>5 DEF Skips, GivesUp, Pop
        <5> QED
          BY <1>1, <2>1, <3>3, <5>1
      <4> QED
        BY <1>0, <2>5, <4>1, <4>2, <4>3, <4>4, <4>5, StepKinds
    <3> QED
      BY <3>2, <3>3
  <2> QED
    BY <2>3, <2>4, <2>5
<1> QED
  BY <1>3, <1>4

-----------------------------------------------------------------------------
LEMMA InvInit == Init => Inv
<1> SUFFICES ASSUME Init
             PROVE  Inv
  OBVIOUS
<1> USE Ground DEF Init
<1>1. TypeOK
  <2>1. "socket" \in Places
    BY DEF Places
  <2>2. domains \in SUBSET Domains /\ frequency \in Nat
    BY DomainsAssumption, FrequenciesAssumption
  <2>3. files \subseteq Fds
    BY FdsAssumption
  <2>4. depth \in [Threads -> 0..MaxDepth]
    BY DepthAssumption
  <2>5. /\ pc \in [Threads -> [Levels -> Places]]
        /\ sockfd \in [Threads -> [Levels -> Fds \cup {FD_NONE}]]
    BY <2>1
  <2>6. call \in [Threads -> Call \cup {NoCall}] /\ n \in [Threads -> Nat]
        /\ failures \in [Threads -> Nat]
    OBVIOUS
  <2>7. /\ failed_socket_connections \in Nat /\ socket_fd \in Fds \cup {FD_NONE}
        /\ count_intercepts_since_last_report \in Nat
        /\ sockets \subseteq Fds /\ stack \in {"ok", "overflow"}
        /\ overlapped \in BOOLEAN /\ mistaken \in BOOLEAN
    OBVIOUS
  <2> QED
    BY <2>2, <2>3, <2>4, <2>5, <2>6, <2>7 DEF TypeOK
<1>2. \A t \in Threads : depth[t] = 0 /\ call[t] = NoCall /\ failures[t] = 0
  OBVIOUS
<1>3. \A t \in Threads, l \in Levels : ~(l <= depth[t]) /\ ~(l < depth[t])
  BY <1>2
<1>4. CallInv /\ BoundInv /\ NestInv /\ FailInv /\ AloneInv
  BY <1>2, <1>3 DEF CallInv, BoundInv, NestInv, FailInv, AloneInv, Within
<1>5. CountInv
  BY <1>1 DEF CountInv, TypeOK
<1>6. OwnSockets
  BY <1>3 DEF OwnSockets, Sender, Within
<1>7. SocketFdCurrent /\ OwnCallsIgnored
  <2>1. socket_fd \notin files
    BY <1>1 DEF TypeOK
  <2> QED
    BY <1>2, <2>1 DEF SocketFdCurrent, OwnCallsIgnored
<1> QED
  BY <1>1, <1>4, <1>5, <1>6, <1>7 DEF Inv

LEMMA InvStep == Inv /\ [Next]_vars => Inv'
<1> SUFFICES ASSUME Inv, [Next]_vars
             PROVE  Inv'
  OBVIOUS
<1>1. CASE UNCHANGED vars
  <2> USE <1>1 DEF Inv, vars, environment, gates, kernel, history
  <2>1. TypeOK' /\ CallInv' /\ BoundInv' /\ CountInv'
    BY DEF TypeOK, CallInv, BoundInv, CountInv, Within
  <2>2. NestInv' /\ FailInv' /\ AloneInv'
    BY DEF NestInv, FailInv, AloneInv, Within
  <2>3. OwnSockets' /\ SocketFdCurrent' /\ OwnCallsIgnored'
    BY DEF OwnSockets, SocketFdCurrent, Names, OwnCallsIgnored, Sender, Within
  <2> QED
    BY <2>1, <2>2, <2>3
<1>2. ASSUME NEW t \in Threads, Application(t) \/ Monitor(t)
      PROVE  Inv'
  <2>1. TypeOK'
    BY <1>2, TypeStep DEF Inv
  <2>a. BoundInv' /\ Named' /\ OwnSockets'
    BY <1>2, <2>1, BoundStep, CurrentStep, OwnStep DEF Inv
  <2>2. BoundInv' /\ SocketFdCurrent' /\ OwnSockets'
    BY <2>1, <2>a, NamedIsCurrent, PTL
  <2>3. CallInv' /\ CountInv' /\ NestInv' /\ FailInv'
    BY <1>2, <2>1, CallStep, CountStep, NestStep, FailStep DEF Inv
  <2>4. OwnCallsIgnored'
    BY <1>2, OwnCallsStep
  <2>5. AloneInv'
    BY <1>2, <2>1, <2>2, <2>4, AloneStep
  <2> QED
    BY <2>1, <2>2, <2>3, <2>4, <2>5 DEF Inv
<1> QED
  BY <1>1, <1>2 DEF Next

(* The inductive invariant holds in every run of record() over TCP. *)
THEOREM Invariance == Spec => []Inv
BY InvInit, InvStep, PTL DEF Spec

(* The variables keep their types. *)
THEOREM TypeCorrect == Spec => []TypeOK
<1>1. Inv => TypeOK
  BY DEF Inv
<1> QED
  BY <1>1, Invariance, PTL

(* send_tcp_socket() uses and closes sockets of its own only, and closes   *)
(* all of them but descriptor 0, for any number of threads and any nesting *)
(* of record().                                                            *)
THEOREM SocketsAreOwn == Spec => []OwnSockets
<1>1. Inv => OwnSockets
  BY DEF Inv
<1> QED
  BY <1>1, Invariance, PTL

(* socket_fd never outlasts the sender it names, and it is the number of   *)
(* an open descriptor of the application only while a sender stands        *)
(* between its close() and its reset of socket_fd.                         *)
THEOREM SocketFdIsCurrent == Spec => []SocketFdCurrent
<1>1. Inv => SocketFdCurrent
  BY DEF Inv
<1> QED
  BY <1>1, Invariance, PTL

(* Without SOCKETS in MONITOR_DOMAINS and without overlapping calls of     *)
(* record(), the monitor keeps its own calls, and only those, out.         *)
THEOREM OwnCallsAreIgnored == Spec => []OwnCallsIgnored
<1>1. Inv => OwnCallsIgnored
  BY DEF Inv
<1> QED
  BY <1>1, Invariance, PTL

(* Without SOCKETS in MONITOR_DOMAINS each thread meets one failed         *)
(* connection at most.                                                     *)
THEOREM FailsOnce == Spec => []OneFailurePerThread
<1>1. Inv => OneFailurePerThread
  <2> SUFFICES ASSUME Inv, "SOCKETS" \notin domains, NEW t \in Threads
               PROVE  failures[t] <= 1
    BY DEF OneFailurePerThread
  <2>1. failures[t] \in {0, 1}
    BY DEF Inv, FailInv
  <2> QED
    BY <2>1
<1> QED
  BY <1>1, Invariance, PTL

(* The unlocked counter of the sampler never stays at its limit. *)
THEOREM CounterRecovers == Spec => []SamplerRecovers
<1>1. Inv => SamplerRecovers
  BY CountRecovers DEF Inv
<1> QED
  BY <1>1, Invariance, PTL
=============================================================================
