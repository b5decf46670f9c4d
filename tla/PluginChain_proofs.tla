------------------------- MODULE PluginChain_proofs -------------------------
(***************************************************************************)
(* Proofs about PluginChain for any set of plugins, threads and names.     *)
(***************************************************************************)
EXTENDS PluginChain, TLAPS

USE PluginsAssumption

(* The mutex belongs to the thread that is where only its holder may be,   *)
(* and only the main thread executes plugins.                              *)
LockInv ==
  \A a \in Threads :
    /\ pc[a] \in Holding <=> plugin_mutex = a
    /\ pc[a] \in {"walk", "execute", "msgrcv"} => a = MainThread

(* A thread that loads has a node of its own, which is not in the list. *)
LoadInv ==
  /\ \A a \in Threads :
       pc[a] \in Loading =>
         /\ p[a] \in Plugins /\ node[p[a]] = "open"
         /\ \A b \in Threads : pc[b] \in Loading /\ p[b] = p[a] => b = a
  /\ \A x \in Plugins :
       node[x] = "open" => \E a \in Threads : pc[a] \in Loading /\ p[a] = x

(* The nodes of the list are distinct; they are the linked ones and the    *)
(* closed one that is about to be unlinked.                                *)
ListInv ==
  /\ \A j, k \in 1..Len(plugins) : plugins[j] = plugins[k] => j = k
  /\ \A x \in Plugins : node[x] = "linked" => IsLinked(x)
  /\ \A k \in 1..Len(plugins) :
       \/ node[plugins[k]] = "linked"
       \/ /\ node[plugins[k]] = "closed"
          /\ \E a \in Threads : pc[a] = "unlink" /\ p[a] = plugins[k]

(* What a thread that unloads or quits holds in p. *)
HoldInv ==
  \A a \in Threads :
    /\ pc[a] = "join" => p[a] \in Plugins /\ node[p[a]] = "linked"
    /\ pc[a] = "unlink" => p[a] \in Plugins /\ node[p[a]] = "closed" /\ IsLinked(p[a])
    /\ pc[a] = "quit_join" =>
         plugins # <<>> /\ p[a] = plugins[1] /\ node[plugins[1]] = "linked"

(* The record is on its way through the list, in the order of the list. *)
InOrder ==
  At(MainThread, "walk") =>
    LET x == p[MainThread]
        n == Len(visited)
    IN  /\ n <= Len(plugins)
        /\ \A k \in 1..n : visited[k] = plugins[k]
        /\ n > 0 => x = IF n < Len(plugins) THEN plugins[n + 1] ELSE NULL
        /\ n = 0 /\ x # NULL /\ node[x] = "linked" => x = First

(* The head that was read before the mutex was locked: it was in the list, *)
(* so it is not on its way into it, and it is the head while it is linked. *)
HeadInv ==
  /\ pc[MainThread] # "walk" => visited = <<>>
  /\ pc[MainThread] = "execute" /\ p[MainThread] # NULL =>
       node[p[MainThread]] \notin {"none", "open"}
  /\ pc[MainThread] = "execute" /\ p[MainThread] # NULL
       /\ node[p[MainThread]] = "linked" => p[MainThread] = First
  /\ InOrder

(* The thread of an input_cli that has not been opened does not run. *)
ThreadInv == \A c \in Clis : node[c] = "none" => pc[c] = "none"

Sound == ThreadInv /\ LockInv /\ LoadInv /\ ListInv /\ HoldInv /\ HeadInv

IInv == TypeOK /\ NeverLost /\ (status = "up" => Sound)

-----------------------------------------------------------------------------
(* How the list changes. *)

LEMMA Typed ==
  ASSUME TypeOK
  PROVE  /\ plugins \in Seq(Plugins) /\ Len(plugins) \in Nat
         /\ \A k \in 1..Len(plugins) : plugins[k] \in Plugins
         /\ plugins # <<>> <=> Len(plugins) # 0
         /\ First \in Plugins \cup {NULL}
  <1>1. plugins \in Seq(Plugins)
    BY DEF TypeOK, ListType
  <1>2. /\ Len(plugins) \in Nat
        /\ \A k \in 1..Len(plugins) : plugins[k] \in Plugins
        /\ plugins # <<>> <=> Len(plugins) # 0
    BY <1>1
  <1> QED
    BY <1>1, <1>2 DEF First

LEMMA Appended ==
  ASSUME TypeOK, NEW x \in Plugins, plugins' = Append(plugins, x)
  PROVE  /\ plugins' \in Seq(Plugins)
         /\ Len(plugins') = Len(plugins) + 1
         /\ \A k \in 1..Len(plugins) : plugins'[k] = plugins[k]
         /\ plugins'[Len(plugins) + 1] = x
  <1>1. plugins \in Seq(Plugins)
    BY DEF TypeOK, ListType
  <1> QED
    BY <1>1

LEMMA Shortened ==
  ASSUME TypeOK, plugins # <<>>, plugins' = Tail(plugins)
  PROVE  /\ plugins' \in Seq(Plugins)
         /\ Len(plugins') = Len(plugins) - 1
         /\ \A k \in 1..Len(plugins') : plugins'[k] = plugins[k + 1]
  <1>1. plugins \in Seq(Plugins)
    BY DEF TypeOK, ListType
  <1> QED
    BY <1>1

LEMMA Followed ==
  ASSUME TypeOK, NEW x, IsLinked(x)
  PROVE  \E k \in 1..Len(plugins) :
           /\ plugins[k] = x
           /\ NextPlugin(x) = IF k < Len(plugins) THEN plugins[k + 1] ELSE NULL
  <1> DEFINE k == CHOOSE k \in 1..Len(plugins) : plugins[k] = x
  <1>1. k \in 1..Len(plugins) /\ plugins[k] = x
    BY DEF IsLinked
  <1>2. NextPlugin(x) = IF k < Len(plugins) THEN plugins[k + 1] ELSE NULL
    BY DEF NextPlugin
  <1> QED
    BY <1>1, <1>2

LEMMA FollowedType ==
  ASSUME TypeOK, NEW x, IsLinked(x)
  PROVE  NextPlugin(x) \in Plugins \cup {NULL}
  <1>1. PICK k \in 1..Len(plugins) :
          NextPlugin(x) = IF k < Len(plugins) THEN plugins[k + 1] ELSE NULL
    BY Followed
  <1>2. k < Len(plugins) => k + 1 \in 1..Len(plugins)
    BY Typed
  <1> QED
    BY <1>1, <1>2, Typed

LEMMA Removed ==
  ASSUME TypeOK, NEW x, IsLinked(x), plugins' = Unlinked(x)
  PROVE  /\ plugins' \in Seq(Plugins)
         /\ Len(plugins') = Len(plugins) - 1
         /\ \E k \in 1..Len(plugins) :
              /\ plugins[k] = x
              /\ \A j \in 1..Len(plugins') :
                   plugins'[j] = IF j < k THEN plugins[j] ELSE plugins[j + 1]
  <1> DEFINE k == CHOOSE k \in 1..Len(plugins) : plugins[k] = x
             n == Len(plugins) - 1
             f == [j \in 1..n |-> IF j < k THEN plugins[j] ELSE plugins[j + 1]]
  <1>1. k \in 1..Len(plugins) /\ plugins[k] = x
    BY DEF IsLinked
  <1>2. plugins' = f
    BY DEF Unlinked
  <1>3. n \in Nat
    BY <1>1, Typed
  <1> HIDE DEF k
  <1>4. \A j \in 1..n : j \in 1..Len(plugins) /\ j + 1 \in 1..Len(plugins)
    BY <1>3, Typed
  <1>5. f \in [1..n -> Plugins]
    BY <1>1, <1>4, Typed
  <1>6. f \in Seq(Plugins) /\ Len(f) = n
    BY <1>3, <1>5
  <1> QED
    BY <1>1, <1>2, <1>6

-----------------------------------------------------------------------------
(* Steps by what they do to the list, the nodes and the mutex. *)

(* Steps after which the program is gone, or undefined. *)
Ends ==
  \/ \E a \in Threads :
       \/ LoadFails(a) \/ LocateFault(a) \/ CloseFault(a) \/ ClosedFault(a)
       \/ UnlinkFault(a) \/ Exit(a) \/ RunFault(a)
  \/ StartUpFails
  \/ ExecuteFault

(* Steps of run_command() for a line that is not about the list. *)
Running(a) ==
  \/ \E n \in Names : RunCommand(a, n)
  \/ RunNext(a) \/ RunFound(a) \/ RunEnd(a)

(* Steps of one thread that leave the list, the nodes and the mutex alone. *)
Local(a) ==
  \/ SetCommand(a) \/ PublishCommand(a)
  \/ \E n \in Names : Locate(a, n)
  \/ LocateNext(a) \/ LocateFound(a) \/ Close(a)
  \/ Quit(a) \/ QuitClose(a) \/ Running(a)

(* Steps that lock or unlock the mutex and do nothing else to the list. *)
Locking(a) == LockUnload(a) \/ LockQuit(a) \/ QuitUnlock(a)

(* The steps of the main thread alone. *)
MainStep == StartUp \/ ExecuteRead \/ ExecuteLock \/ ExecutePlugin \/ ExecuteEnd

(* Steps that change the list or the state of a node. *)
Changing(a) ==
  \/ \E x \in Plugins : OpenPlugin(a, x)
  \/ Link(a) \/ Closed(a) \/ Unlink(a) \/ QuitClosed(a)

LEMMA Cases ==
  Next =>
    \/ Ends
    \/ \E a \in Threads : Local(a) \/ Locking(a) \/ Changing(a)
    \/ \E a \in Clis : Check(a)
    \/ MainStep
    \/ Ended
  BY DEF Next, Work, Line, Execute, Ends, Local, Running, Locking, Changing, MainStep

PcType == Commandless \cup Loading \cup Holding
            \cup {"locate", "unload", "execute", "run", "call"}

EndEffect ==
  /\ status = "up" /\ status' \in ({"exited"} \cup Faults) \ {"lost_node"}
  /\ UNCHANGED <<plugins, node, paused, plugin_mutex, table, kill_thread, locals,
                 visited, met>>
  /\ pc' \in [Threads -> PcType]

LEMMA EndsEffect == IInv /\ Ends => EndEffect
  <1> SUFFICES ASSUME IInv, Ends PROVE EndEffect
    OBVIOUS
  <1>1. pc \in [Threads -> PcType]
    BY DEF IInv, TypeOK, ThreadType, PcType
  <1>2. \A a \in Threads : [pc EXCEPT ![a] = "none"] \in [Threads -> PcType]
    BY <1>1 DEF PcType, Commandless
  <1>3. ASSUME NEW a \in Threads, NEW c \in Faults, c # "lost_node", status = "up",
               Fault(a, c)
        PROVE  EndEffect
    BY <1>2, <1>3 DEF Fault, Goto, EndEffect, locals
  <1>4. ASSUME NEW a \in Threads, LoadFails(a) \/ Exit(a) PROVE EndEffect
    BY <1>1, <1>4 DEF LoadFails, Exit, Command, At, EndEffect
  <1>5. ASSUME NEW a \in Threads, LocateFault(a) PROVE EndEffect
    BY <1>3, <1>5 DEF LocateFault, At, Faults
  <1>6. ASSUME NEW a \in Threads, CloseFault(a) PROVE EndEffect
    BY <1>3, <1>6 DEF CloseFault, At, Faults
  <1>7. ASSUME NEW a \in Threads, ClosedFault(a) PROVE EndEffect
    BY <1>3, <1>7 DEF ClosedFault, Faults
  <1>8. ASSUME NEW a \in Threads, UnlinkFault(a) PROVE EndEffect
    <2>1. status = "up" /\ pc[a] = "unlink"
      BY <1>8 DEF UnlinkFault, At
    <2>2. IsLinked(p[a])
      BY <2>1 DEF IInv, Sound, HoldInv
    <2>3. Fault(a, "own_code") \/ Fault(a, "stale_unlink")
      BY <1>8, <2>2 DEF UnlinkFault
    <2> QED
      BY <1>3, <2>1, <2>3 DEF Faults
  <1>9. ASSUME NEW a \in Threads, RunFault(a) PROVE EndEffect
    BY <1>3, <1>9 DEF RunFault, At, Faults
  <1>10. CASE StartUpFails
    BY <1>1, <1>10 DEF StartUpFails, At, EndEffect
  <1>11. CASE ExecuteFault
    BY <1>3, <1>11 DEF ExecuteFault, At, Faults, Threads
  <1> QED
    BY <1>4, <1>5, <1>6, <1>7, <1>8, <1>9, <1>10, <1>11 DEF Ends

(* A step that ends the program leaves everything else in its type. *)
LEMMA EndsStep == IInv /\ Ends => IInv'
  <1> SUFFICES ASSUME IInv, EndEffect PROVE IInv'
    BY EndsEffect
  <1>1. ListType'
    BY DEF IInv, TypeOK, ListType, EndEffect
  <1>2. TableType' /\ ThreadType'
    BY DEF IInv, TypeOK, TableType, ThreadType, EndEffect, table, locals, PcType
  <1>3. NeverLost' /\ status' # "up"
    BY DEF EndEffect, NeverLost, Faults
  <1> QED
    BY <1>1, <1>2, <1>3 DEF IInv, TypeOK

-----------------------------------------------------------------------------
(* What run_command() changes: its own locals. *)
LEMMA RunEffect ==
  ASSUME TypeOK, NEW a \in Threads, Running(a)
  PROVE  /\ status = "up"
         /\ UNCHANGED <<status, plugins, node, paused, plugin_mutex, s_commands, freed,
                        kill_thread, p, i, visited, met>>
         /\ pc[a] \in {"prompt", "run", "call"}
         /\ \E loc \in {"run", "call", "prompt", "check"} : Goto(a, loc)
         /\ \E n \in Names \cup {NULL} : name' = [name EXCEPT ![a] = n]
         /\ \E s \in Seq(Plugins) : next_command' = [next_command EXCEPT ![a] = s]
  <1>0. /\ pc \in [Threads -> PcType] /\ name \in [Threads -> Names \cup {NULL}]
        /\ s_commands \in Seq(Plugins) /\ next_command \in [Threads -> Seq(Plugins)]
        /\ <<>> \in Seq(Plugins)
    BY DEF TypeOK, ThreadType, TableType, PcType
  <1>1. /\ pc = [pc EXCEPT ![a] = pc[a]] /\ name = [name EXCEPT ![a] = name[a]]
        /\ next_command = [next_command EXCEPT ![a] = next_command[a]]
        /\ name[a] \in Names \cup {NULL} /\ next_command[a] \in Seq(Plugins)
    BY <1>0
  <1>2. next_command[a] # <<>> => Tail(next_command[a]) \in Seq(Plugins)
    BY <1>1
  <1>3. CASE \E n \in Names : RunCommand(a, n)
    BY <1>0, <1>3 DEF RunCommand, Command, At
  <1>4. CASE RunNext(a)
    <2>1. /\ status = "up" /\ pc[a] = "run" /\ pc' = pc /\ name' = name
          /\ next_command' = [next_command EXCEPT ![a] = Tail(next_command[a])]
          /\ next_command[a] # <<>>
          /\ UNCHANGED <<status, plugins, node, paused, plugin_mutex, s_commands, freed,
                         kill_thread, p, i, visited, met>>
      BY <1>4 DEF RunNext, At, AtCommand, locals
    <2>2. Goto(a, "run")
      BY <1>1, <2>1 DEF Goto
    <2> QED
      BY <1>1, <1>2, <2>1, <2>2
  <1>5. CASE RunFound(a)
    BY <1>1, <1>5 DEF RunFound, At, table, locals
  <1>6. CASE RunEnd(a)
    BY <1>0, <1>6 DEF RunEnd, At, Done
  <1> QED
    BY <1>3, <1>4, <1>5, <1>6 DEF Running

(* The steps of a thread that go on with the program. *)
LEMMA UpStep ==
  ASSUME TypeOK, NEW a \in Threads, Local(a) \/ Locking(a) \/ Changing(a)
  PROVE  status = "up" /\ status' = "up"
  <1>1. CASE Running(a)
    BY <1>1, RunEffect
  <1>2. CASE Local(a) /\ ~Running(a)
    BY <1>2 DEF Local, SetCommand, PublishCommand, Locate, LocateNext, LocateFound,
                Close, Quit, QuitClose, Command, At
  <1>3. CASE Locking(a) \/ Changing(a)
    BY <1>3 DEF Locking, Changing, LockUnload, LockQuit, QuitUnlock, OpenPlugin, Link,
                Closed, Unlink, QuitClosed, Command, At
  <1> QED
    BY <1>1, <1>2, <1>3

(* The types of what the other invariants do not speak of. *)
RestType ==
  /\ paused \in [Plugins -> BOOLEAN]
  /\ TableType
  /\ kill_thread \in [Clis -> BOOLEAN]
  /\ i \in [Threads -> Plugins \cup {NULL}]
  /\ name \in [Threads -> Names \cup {NULL}]
  /\ met \subseteq Plugins

(* Those steps of a thread that do not touch any of it. *)
Restful(a) ==
  \/ \E x \in Plugins : OpenPlugin(a, x)
  \/ Link(a) \/ LocateNext(a) \/ Quit(a)
  \/ Locking(a)

LEMMA RestStep ==
  ASSUME IInv, status = "up",
         \/ \E a \in Threads : Local(a) \/ Locking(a) \/ Changing(a)
         \/ \E a \in Clis : Check(a)
         \/ MainStep
  PROVE  RestType'
  <1>0. RestType /\ TypeOK /\ Sound
    BY DEF IInv, TypeOK, ListType, ThreadType, RestType
  <1>1. ASSUME UNCHANGED <<paused, table, kill_thread, i, name, met>> PROVE RestType'
    BY <1>0, <1>1 DEF RestType, TableType, table
  <1>2. ASSUME NEW a \in Threads, Restful(a) PROVE RestType'
    <2>1. UNCHANGED <<paused, table, kill_thread, i, name, met>>
      BY <1>2 DEF Restful, Locking, OpenPlugin, Link, LocateNext, Quit,
                  LockUnload, LockQuit, QuitUnlock, locals
    <2> QED
      BY <1>1, <2>1
  <1>3. ASSUME NEW a \in Threads, SetCommand(a) PROVE RestType'
    BY <1>0, <1>3 DEF SetCommand, RestType, TableType, locals
  <1>4. ASSUME NEW a \in Threads, PublishCommand(a) PROVE RestType'
    <2>1. p[a] \in Plugins
      BY <1>0, <1>4 DEF PublishCommand, At, Sound, LoadInv, Loading
    <2>2. next_command[a] \in Seq(Plugins)
      BY <1>0 DEF RestType, TableType
    <2>3. s_commands' \in Seq(Plugins)
      BY <1>4, <2>1, <2>2 DEF PublishCommand
    <2>4. next_command' \in [Threads -> Seq(Plugins)]
      BY <1>0, <1>4 DEF PublishCommand, RestType, TableType
    <2> QED
      BY <1>0, <1>4, <2>3, <2>4 DEF PublishCommand, RestType, TableType, locals
  <1>5. ASSUME NEW a \in Threads, NEW n \in Names, Locate(a, n) PROVE RestType'
    BY <1>0, <1>5 DEF Locate, RestType, TableType, table
  <1>6. ASSUME NEW a \in Threads, LocateFound(a) PROVE RestType'
    <2>1. i' \in [Threads -> Plugins \cup {NULL}]
      BY <1>0, <1>6, Typed DEF LocateFound, RestType
    <2> QED
      BY <1>0, <1>6, <2>1 DEF LocateFound, RestType, TableType, table
  <1>7. ASSUME NEW a \in Threads, Close(a) \/ QuitClose(a) PROVE RestType'
    BY <1>0, <1>7 DEF Close, QuitClose, StopThread, RestType, TableType, table, locals
  <1>8. ASSUME NEW a \in Threads, Closed(a) \/ QuitClosed(a) PROVE RestType'
    <2>1. FreeCommand(library[p[a]]) /\ UNCHANGED <<paused, kill_thread, i, name, met>>
      BY <1>8 DEF Closed, QuitClosed, locals
    <2>2. CASE UNCHANGED <<s_commands, freed, next_command>>
      BY <1>1, <2>1, <2>2 DEF table
    <2>3. CASE Hits(library[p[a]]) # {} /\ s_commands' = Tail(s_commands)
                 /\ freed' = freed \cup {s_commands[1]}
      <3>1. s_commands \in Seq(Plugins) /\ freed \subseteq Plugins
        BY <1>0 DEF RestType, TableType
      <3>2. PICK k \in 1..Len(s_commands) : TRUE
        BY <2>3 DEF Hits
      <3>3. s_commands # <<>> /\ s_commands[1] \in Plugins
        BY <3>1, <3>2
      <3>4. s_commands' \in Seq(Plugins)
        BY <2>3, <3>1, <3>3
      <3> QED
        BY <1>0, <2>1, <2>3, <3>1, <3>3, <3>4 DEF FreeCommand, RestType, TableType
    <2> QED
      BY <2>1, <2>2, <2>3 DEF FreeCommand
  <1>9. ASSUME NEW a \in Threads, Unlink(a) PROVE RestType'
    BY <1>0, <1>9 DEF Unlink, RestType, TableType, table
  <1>10. ASSUME NEW a \in Clis, Check(a) PROVE RestType'
    BY <1>1, <1>10 DEF Check, locals
  <1>11. CASE StartUp \/ ExecuteRead \/ ExecuteLock \/ ExecuteEnd
    BY <1>0, <1>11 DEF StartUp, ExecuteRead, ExecuteLock, ExecuteEnd, locals, table,
       RestType, TableType
  <1>12. CASE ExecutePlugin
    <2> DEFINE x == p[MainThread]
    <2>1. UNCHANGED <<table, kill_thread, i, name>>
      BY <1>12 DEF ExecutePlugin
    <2>2. Pass(x) \/ Process(x) \/ Drop(x)
      BY <1>12 DEF ExecutePlugin
    <2>3. \E b \in BOOLEAN : paused' \in {paused, [paused EXCEPT ![x] = b]}
      BY <2>2 DEF Pass, Process, Drop
    <2>4. paused' \in [Plugins -> BOOLEAN]
      BY <1>0, <2>3 DEF RestType
    <2>5. met' \in {met, {}}
      BY <2>2 DEF Pass, Process, Drop
    <2> QED
      BY <1>0, <2>1, <2>4, <2>5 DEF RestType, TableType, table
  <1>13. ASSUME NEW a \in Threads, Running(a) PROVE RestType'
    <2>1. UNCHANGED <<paused, s_commands, freed, kill_thread, i, met>>
      BY <1>0, <1>13, RunEffect
    <2>2. name' \in [Threads -> Names \cup {NULL}]
      BY <1>0, <1>13, RunEffect DEF RestType
    <2>3. next_command' \in [Threads -> Seq(Plugins)]
      BY <1>0, <1>13, RunEffect DEF RestType, TableType
    <2> QED
      BY <1>0, <2>1, <2>2, <2>3 DEF RestType, TableType
  <1> QED
    BY <1>2, <1>3, <1>4, <1>5, <1>6, <1>7, <1>8, <1>9, <1>10, <1>11, <1>12, <1>13
    DEF Restful, Local, Changing, MainStep

-----------------------------------------------------------------------------
(* Steps of thread a that leave the list, the nodes and the mutex alone. *)

Free == {"prompt", "check", "done", "locate", "unload", "quit_lock", "run", "call"}

(* Where such a step may take the thread. *)
Transition(a) ==
  \/ pc[a] \in Loading /\ pc'[a] \in Loading /\ p'[a] = p[a]
  \/ pc[a] \in Free /\ pc'[a] \in Free
  \/ pc[a] = "close" /\ pc'[a] = "join" /\ p'[a] = p[a] /\ p[a] \in Plugins
       /\ node[p[a]] = "linked"
  \/ pc[a] = "quit" /\ pc'[a] = "quit_join" /\ plugins # <<>> /\ p'[a] = plugins[1]
  \/ a = MainThread /\ pc[a] = "prompt" /\ pc'[a] = "msgrcv"
  \/ a = MainThread /\ pc[a] = "msgrcv" /\ pc'[a] = "execute" /\ p'[a] = First

(* Only thread a moves. *)
Moves(a) ==
  /\ pc' \in [Threads -> PcType]
  /\ p' \in [Threads -> Plugins \cup {NULL}]
  /\ \A b \in Threads \ {a} : pc'[b] = pc[b] /\ p'[b] = p[b]

Calm(a) ==
  /\ status' = "up"
  /\ UNCHANGED <<plugins, node, plugin_mutex, visited>>
  /\ Moves(a)
  /\ Transition(a)

LEMMA Went ==
  ASSUME TypeOK, NEW a \in Threads, NEW loc \in PcType, Goto(a, loc)
  PROVE  /\ pc' \in [Threads -> PcType] /\ pc'[a] = loc
         /\ \A b \in Threads \ {a} : pc'[b] = pc[b]
  BY DEF TypeOK, ThreadType, PcType, Goto

LEMMA Pointed ==
  ASSUME TypeOK, NEW a \in Threads, NEW y \in Plugins \cup {NULL},
         p' = [p EXCEPT ![a] = y]
  PROVE  /\ p' \in [Threads -> Plugins \cup {NULL}] /\ p'[a] = y
         /\ \A b \in Threads \ {a} : p'[b] = p[b]
  BY DEF TypeOK, ThreadType

LEMMA CalmMoves ==
  ASSUME IInv, status = "up", NEW a \in Threads,
         \/ Local(a)
         \/ a \in Clis /\ Check(a)
         \/ a = MainThread /\ (StartUp \/ ExecuteRead)
  PROVE  Calm(a)
  <1>0. TypeOK /\ Sound /\ Len(plugins) \in Nat
    BY Typed DEF IInv
  <1>1. /\ pc \in [Threads -> PcType]
        /\ p \in [Threads -> Plugins \cup {NULL}]
    BY <1>0 DEF TypeOK, ThreadType, PcType
  <1>2. ASSUME status' = "up", UNCHANGED <<plugins, node, plugin_mutex, visited, p>>,
               NEW loc \in PcType, Goto(a, loc),
               \/ pc[a] \in Loading /\ loc \in Loading
               \/ pc[a] \in Free /\ loc \in Free
               \/ /\ pc[a] = "close" /\ loc = "join" /\ p[a] \in Plugins
                  /\ node[p[a]] = "linked"
               \/ a = MainThread /\ pc[a] = "prompt" /\ loc = "msgrcv"
        PROVE  Calm(a)
    <2>1. /\ pc' \in [Threads -> PcType] /\ pc'[a] = loc
          /\ \A b \in Threads \ {a} : pc'[b] = pc[b]
      BY <1>0, <1>2, Went
    <2>2. Moves(a)
      BY <1>1, <1>2, <2>1 DEF Moves
    <2>3. Transition(a)
      BY <1>2, <2>1 DEF Transition
    <2> QED
      BY <1>2, <2>2, <2>3 DEF Calm
  <1>3. ASSUME status' = "up", UNCHANGED <<plugins, node, plugin_mutex, visited>>,
               NEW loc \in PcType, Goto(a, loc),
               NEW y \in Plugins \cup {NULL}, p' = [p EXCEPT ![a] = y],
               \/ pc[a] \in Free /\ loc \in Free
               \/ pc[a] = "quit" /\ loc = "quit_join" /\ plugins # <<>> /\ y = plugins[1]
               \/ a = MainThread /\ pc[a] = "msgrcv" /\ loc = "execute" /\ y = First
        PROVE  Calm(a)
    <2>1. /\ pc' \in [Threads -> PcType] /\ pc'[a] = loc
          /\ \A b \in Threads \ {a} : pc'[b] = pc[b]
      BY <1>0, <1>3, Went
    <2>2. /\ p' \in [Threads -> Plugins \cup {NULL}] /\ p'[a] = y
          /\ \A b \in Threads \ {a} : p'[b] = p[b]
      BY <1>0, <1>3, Pointed
    <2>3. Moves(a)
      BY <2>1, <2>2 DEF Moves
    <2>4. Transition(a)
      BY <1>3, <2>1, <2>2 DEF Transition
    <2> QED
      BY <1>3, <2>3, <2>4 DEF Calm
  <1> USE DEF At, Command, Done, Loading, Free, PcType, Commandless, locals
  <1>4. CASE SetCommand(a) \/ PublishCommand(a) \/ Quit(a)
    BY <1>2, <1>4 DEF SetCommand, PublishCommand, Quit
  <1>5. CASE LocateFound(a)
    BY <1>2, <1>5 DEF LocateFound
  <1>6. CASE Close(a)
    BY <1>1, <1>2, <1>6 DEF Close, Holding, Unloading
  <1>7. CASE a \in Clis /\ Check(a)
    BY <1>2, <1>7 DEF Check
  <1>8. CASE a = MainThread /\ StartUp
    BY <1>2, <1>8 DEF StartUp
  <1>9. ASSUME NEW n \in Names, Locate(a, n) PROVE Calm(a)
    BY <1>0, <1>3, <1>9, Typed DEF Locate
  <1>10. CASE LocateNext(a)
    <2>1. p[a] \in Plugins /\ IsLinked(p[a])
      BY <1>0, <1>1, <1>10 DEF LocateNext, Sound, ListInv
    <2>2. NextPlugin(p[a]) \in Plugins \cup {NULL}
      BY <1>0, <2>1, FollowedType
    <2>3. Goto(a, "locate")
      BY <1>1, <1>10 DEF LocateNext, Goto
    <2> QED
      BY <1>3, <1>10, <2>2, <2>3 DEF LocateNext
  <1>11. CASE QuitClose(a)
    <2>1. First = plugins[1] /\ First \in Plugins \cup {NULL} /\ plugins # <<>>
      BY <1>0, <1>11, Typed DEF QuitClose, First
    <2> QED
      BY <1>3, <1>11, <2>1 DEF QuitClose, Holding, Quitting
  <1>12. CASE a = MainThread /\ ExecuteRead
    BY <1>0, <1>3, <1>12, Typed DEF ExecuteRead
  <1>13. CASE Running(a)
    <2>1. /\ status' = "up" /\ UNCHANGED <<plugins, node, plugin_mutex, visited, p>>
          /\ pc[a] \in {"prompt", "run", "call"}
      BY <1>0, <1>13, RunEffect
    <2>2. PICK loc \in {"run", "call", "prompt", "check"} : Goto(a, loc)
      BY <1>0, <1>13, RunEffect
    <2> QED
      BY <1>2, <2>1, <2>2
  <1> QED
    BY <1>4, <1>5, <1>6, <1>7, <1>8, <1>9, <1>10, <1>11, <1>12, <1>13 DEF Local

(* Only the holder of the mutex is where the mutex is needed. *)
LEMMA OneHolder ==
  ASSUME LockInv, NEW a \in Threads, NEW b \in Threads,
         pc[a] \in Holding, pc[b] \in Holding
  PROVE  a = b
  BY DEF LockInv

(* The head of a list, unless some thread is about to unlink it. *)
LEMMA HeadLinked ==
  ASSUME TypeOK, Sound, plugins # <<>>
  PROVE  /\ plugins[1] \in Plugins
         /\ node[plugins[1]] \in {"linked", "closed"}
         /\ (\A b \in Threads : pc[b] # "unlink") => node[plugins[1]] = "linked"
  <1>1. 1 \in 1..Len(plugins)
    BY Typed
  <1> QED
    BY <1>1, Typed DEF Sound, ListInv

LEMMA CalmStep ==
  ASSUME IInv, status = "up", NEW a \in Threads, Calm(a)
  PROVE  Sound'
  <1>0. /\ TypeOK /\ Sound
        /\ ThreadInv /\ LockInv /\ LoadInv /\ ListInv /\ HoldInv /\ HeadInv
    BY DEF IInv, Sound
  <1>1. /\ UNCHANGED <<plugins, node, plugin_mutex, visited>>
        /\ \A b \in Threads : b # a => pc'[b] = pc[b] /\ p'[b] = p[b]
        /\ Transition(a)
    BY DEF Calm, Moves
  <1>2. pc[a] # "none"
    BY <1>1 DEF Transition, Loading, Free
  <1>3. ThreadInv'
    BY <1>0, <1>1, <1>2 DEF ThreadInv, Threads
  <1>4. LockInv'
    <2>1. /\ pc'[a] \in Holding <=> pc[a] \in Holding
          /\ pc'[a] \in {"walk", "execute", "msgrcv"} => a = MainThread
      BY <1>1 DEF Transition, Loading, Free, Holding, Unloading, Quitting
    <2> QED
      BY <1>0, <1>1, <2>1 DEF LockInv
  <1>5. LoadInv'
    <2>1. /\ pc'[a] \in Loading <=> pc[a] \in Loading
          /\ pc[a] \in Loading => p'[a] = p[a]
      BY <1>1 DEF Transition, Loading, Free
    <2>2. \A b \in Threads : /\ pc'[b] \in Loading <=> pc[b] \in Loading
                             /\ pc[b] \in Loading => p'[b] = p[b]
      BY <1>1, <2>1
    <2> QED
      BY <1>0, <1>1, <2>2 DEF LoadInv
  <1>6. ListInv'
    <2>1. pc[a] # "unlink"
      BY <1>1 DEF Transition, Loading, Free
    <2>2. \A b \in Threads : pc[b] = "unlink" => pc'[b] = "unlink" /\ p'[b] = p[b]
      BY <1>1, <2>1
    <2> QED
      BY <1>0, <1>1, <2>2 DEF ListInv, IsLinked
  <1>7. HoldInv'
    <2>1. pc'[a] # "unlink"
      BY <1>1 DEF Transition, Loading, Free
    <2>2. ASSUME pc'[a] = "join" PROVE p'[a] \in Plugins /\ node[p'[a]] = "linked"
      BY <1>1, <2>2 DEF Transition, Loading, Free
    <2>3. ASSUME pc'[a] = "quit_join"
          PROVE  plugins # <<>> /\ p'[a] = plugins[1] /\ node[plugins[1]] = "linked"
      <3>1. pc[a] = "quit" /\ plugins # <<>> /\ p'[a] = plugins[1]
        BY <1>1, <2>3 DEF Transition, Loading, Free
      <3>2. \A b \in Threads : pc[b] # "unlink"
        BY <1>0, <3>1, OneHolder DEF Holding, Unloading, Quitting
      <3> QED
        BY <1>0, <3>1, <3>2, HeadLinked
    <2> QED
      BY <1>0, <1>1, <2>1, <2>2, <2>3 DEF HoldInv, IsLinked
  <1>8. HeadInv'
    <2>1. CASE a # MainThread
      <3>1. pc'[MainThread] = pc[MainThread] /\ p'[MainThread] = p[MainThread]
        BY <1>1, <2>1 DEF Threads
      <3>2. First' = First
        BY <1>1 DEF First
      <3>3. InOrder'
        BY <1>0, <1>1, <3>1, <3>2 DEF HeadInv, InOrder, At, Calm
      <3> QED
        BY <1>0, <1>1, <3>1, <3>2, <3>3 DEF HeadInv
    <2>2. CASE a = MainThread
      <3>1. pc[a] # "walk" /\ pc'[a] # "walk"
        BY <1>1 DEF Transition, Loading, Free
      <3>2. pc'[a] = "execute" => p'[a] = First
        BY <1>1 DEF Transition, Loading, Free
      <3>3. First # NULL => node[First] \in {"linked", "closed"}
        BY <1>0, HeadLinked DEF First
      <3>4. InOrder'
        BY <2>2, <3>1 DEF InOrder, At
      <3>5. First' = First
        BY <1>1 DEF First
      <3> QED
        BY <1>0, <1>1, <2>2, <3>1, <3>2, <3>3, <3>4, <3>5 DEF HeadInv
    <2> QED
      BY <2>1, <2>2
  <1> QED
    BY <1>3, <1>4, <1>5, <1>6, <1>7, <1>8 DEF Sound

(* The types of the list and the threads, where the list has not changed. *)
LEMMA TypeAfter ==
  ASSUME RestType', status' = "up", plugins' \in Seq(Plugins),
         node' \in [Plugins -> {"none", "open", "linked", "closed", "freed"}],
         plugin_mutex' \in Threads \cup {NULL}, visited' \in Seq(Plugins),
         pc' \in [Threads -> PcType], p' \in [Threads -> Plugins \cup {NULL}]
  PROVE  TypeOK' /\ NeverLost'
  <1>1. ListType'
    BY DEF ListType, RestType
  <1>2. ThreadType'
    BY DEF ThreadType, RestType, PcType
  <1>3. TableType'
    BY DEF RestType
  <1> QED
    BY <1>1, <1>2, <1>3 DEF TypeOK, NeverLost

-----------------------------------------------------------------------------
(* Steps of thread a that lock or unlock the mutex. *)

Takes(a) ==
  /\ plugin_mutex = NULL /\ plugin_mutex' = a
  /\ UNCHANGED <<visited, p>>
  /\ \/ pc[a] \in {"unload", "quit_lock"} /\ pc'[a] \in {"close", "quit"}
     \/ a = MainThread /\ pc[a] = "execute" /\ pc'[a] = "walk"

Gives(a) ==
  /\ plugin_mutex' = NULL
  /\ \/ pc[a] = "quit" /\ pc'[a] = "exit" /\ UNCHANGED visited
     \/ a = MainThread /\ pc[a] = "walk" /\ pc'[a] = "msgrcv" /\ visited' = <<>>

Locks(a) ==
  /\ status' = "up"
  /\ UNCHANGED <<plugins, node>>
  /\ Moves(a)
  /\ Takes(a) \/ Gives(a)

LEMMA LockMoves ==
  ASSUME IInv, status = "up", NEW a \in Threads,
         \/ Locking(a)
         \/ a = MainThread /\ (ExecuteLock \/ ExecuteEnd)
         \/ a = MainThread /\ ExecutePlugin /\ Drop(p[MainThread])
  PROVE  Locks(a)
  <1>0. TypeOK
    BY DEF IInv
  <1>1. p \in [Threads -> Plugins \cup {NULL}]
    BY <1>0 DEF TypeOK, ThreadType
  <1>2. ASSUME NEW loc \in PcType, Goto(a, loc), UNCHANGED p
        PROVE  pc'[a] = loc /\ Moves(a)
    BY <1>0, <1>1, <1>2, Went DEF Moves
  <1> USE DEF At, PcType, Commandless, Holding, Unloading, Quitting, locals
  <1>3. CASE LockUnload(a)
    BY <1>2, <1>3 DEF LockUnload, Locks, Takes
  <1>4. CASE LockQuit(a)
    BY <1>2, <1>4 DEF LockQuit, Locks, Takes
  <1>5. CASE QuitUnlock(a)
    BY <1>2, <1>5 DEF QuitUnlock, Locks, Gives
  <1>6. CASE a = MainThread /\ ExecuteLock
    BY <1>2, <1>6 DEF ExecuteLock, Locks, Takes
  <1>7. CASE a = MainThread /\ ExecuteEnd
    BY <1>2, <1>7 DEF ExecuteEnd, Locks, Gives
  <1>8. CASE a = MainThread /\ ExecutePlugin /\ Drop(p[MainThread])
    <2>1. /\ p' = [p EXCEPT ![a] = NULL] /\ Goto(a, "msgrcv")
          /\ plugin_mutex' = NULL /\ visited' = <<>>
      BY <1>8 DEF Drop
    <2>2. status' = "up" /\ UNCHANGED <<plugins, node>> /\ pc[a] = "walk"
      BY <1>8 DEF ExecutePlugin
    <2>3. pc'[a] = "msgrcv" /\ Moves(a)
      BY <1>0, <2>1, Went, Pointed DEF Moves
    <2> QED
      BY <1>8, <2>1, <2>2, <2>3 DEF Locks, Gives
  <1> QED
    BY <1>3, <1>4, <1>5, <1>6, <1>7, <1>8 DEF Locking

LEMMA LockStep ==
  ASSUME IInv, status = "up", NEW a \in Threads, Locks(a)
  PROVE  Sound'
  <1>0. /\ TypeOK
        /\ ThreadInv /\ LockInv /\ LoadInv /\ ListInv /\ HoldInv /\ HeadInv
    BY DEF IInv, Sound
  <1>1. /\ UNCHANGED <<plugins, node>>
        /\ \A b \in Threads : b # a => pc'[b] = pc[b] /\ p'[b] = p[b]
        /\ Takes(a) \/ Gives(a)
    BY DEF Locks, Moves
  <1>2. /\ pc[a] \notin {"none", "unlink"} \cup Loading
        /\ pc'[a] \notin {"join", "unlink", "quit_join", "execute"} \cup Loading
        /\ pc'[a] \in {"walk", "msgrcv"} => a = MainThread
    BY <1>1 DEF Takes, Gives, Loading
  <1>3. ThreadInv'
    BY <1>0, <1>1, <1>2 DEF ThreadInv, Threads
  <1>4. LockInv'
    <2>1. NULL \notin Threads
      BY DEF Threads
    <2>2. CASE Takes(a)
      <3>1. \A b \in Threads : b # a => pc'[b] \notin Holding /\ plugin_mutex' # b
        BY <1>0, <1>1, <2>1, <2>2 DEF LockInv, Takes
      <3>2. pc'[a] \in Holding /\ plugin_mutex' = a
        BY <2>2 DEF Takes, Holding, Unloading, Quitting
      <3> QED
        BY <1>0, <1>1, <1>2, <3>1, <3>2 DEF LockInv
    <2>3. CASE Gives(a)
      <3>1. pc[a] \in Holding /\ pc'[a] \notin Holding
        BY <2>3 DEF Gives, Holding, Unloading, Quitting
      <3>2. \A b \in Threads : b # a => pc'[b] \notin Holding
        BY <1>0, <1>1, <3>1 DEF LockInv
      <3>3. \A b \in Threads : plugin_mutex' # b
        BY <2>1, <2>3 DEF Gives
      <3> QED
        BY <1>0, <1>1, <1>2, <3>1, <3>2, <3>3 DEF LockInv
    <2> QED
      BY <1>1, <2>2, <2>3
  <1>5. LoadInv'
    <2>1. \A b \in Threads : /\ pc'[b] \in Loading <=> pc[b] \in Loading
                             /\ pc[b] \in Loading => p'[b] = p[b]
      BY <1>1, <1>2
    <2> QED
      BY <1>0, <1>1, <2>1 DEF LoadInv
  <1>6. ListInv'
    <2>1. \A b \in Threads : pc[b] = "unlink" => pc'[b] = "unlink" /\ p'[b] = p[b]
      BY <1>1, <1>2
    <2> QED
      BY <1>0, <1>1, <2>1 DEF ListInv, IsLinked
  <1>7. HoldInv'
    BY <1>0, <1>1, <1>2 DEF HoldInv, IsLinked
  <1>8. HeadInv'
    <2>1. First' = First
      BY <1>1 DEF First
    <2>2. CASE a # MainThread
      <3>1. /\ pc'[MainThread] = pc[MainThread] /\ p'[MainThread] = p[MainThread]
            /\ UNCHANGED visited
        BY <1>1, <2>2 DEF Threads, Takes, Gives
      <3>2. InOrder'
        BY <1>0, <1>1, <2>1, <3>1 DEF HeadInv, InOrder, At, Locks
      <3> QED
        BY <1>0, <1>1, <2>1, <3>1, <3>2 DEF HeadInv
    <2>3. CASE a = MainThread /\ pc'[a] # "walk"
      <3>1. visited' = <<>>
        BY <1>0, <1>1, <2>3 DEF HeadInv, Takes, Gives
      <3>2. InOrder'
        BY <2>3 DEF InOrder, At
      <3> QED
        BY <1>2, <2>3, <3>1, <3>2 DEF HeadInv
    <2>4. CASE a = MainThread /\ pc'[a] = "walk"
      <3>1. pc[a] = "execute" /\ UNCHANGED <<visited, p>>
        BY <1>1, <2>4 DEF Takes, Gives
      <3>2. visited' = <<>> /\ Len(visited') = 0
        BY <1>0, <2>4, <3>1 DEF HeadInv
      <3>3. Len(plugins) \in Nat
        BY <1>0, Typed
      <3>4. p'[a] # NULL /\ node'[p'[a]] = "linked" => p'[a] = First'
        BY <1>0, <1>1, <2>1, <2>4, <3>1 DEF HeadInv
      <3>5. InOrder'
        BY <1>1, <2>4, <3>2, <3>3, <3>4 DEF InOrder
      <3> QED
        BY <2>4, <3>5 DEF HeadInv
    <2> QED
      BY <2>2, <2>3, <2>4
  <1> QED
    BY <1>3, <1>4, <1>5, <1>6, <1>7, <1>8 DEF Sound

-----------------------------------------------------------------------------
(* A plugin passes the record on. *)
LEMMA WalkStep ==
  ASSUME IInv, status = "up", ExecutePlugin, Pass(p[MainThread]) \/ Process(p[MainThread])
  PROVE  /\ Sound' /\ status' = "up"
         /\ UNCHANGED <<plugins, node, plugin_mutex, pc>>
         /\ p' \in [Threads -> Plugins \cup {NULL}] /\ visited' \in Seq(Plugins)
  <1> DEFINE x == p[MainThread]
             n == Len(visited)
  <1>0. /\ TypeOK
        /\ ThreadInv /\ LockInv /\ LoadInv /\ ListInv /\ HoldInv /\ HeadInv
        /\ MainThread \in Threads
    BY DEF IInv, Sound, Threads
  <1>1. /\ status' = "up" /\ UNCHANGED <<plugins, node, plugin_mutex, pc>>
        /\ p' = [p EXCEPT ![MainThread] = NextPlugin(x)]
        /\ visited' = Append(visited, x)
        /\ pc[MainThread] = "walk" /\ x # NULL /\ node[x] = "linked"
    BY DEF ExecutePlugin, At, Pass, Process
  <1>2. x \in Plugins /\ IsLinked(x)
    BY <1>0, <1>1 DEF TypeOK, ThreadType, ListInv
  <1>3. PICK k \in 1..Len(plugins) :
          /\ plugins[k] = x
          /\ NextPlugin(x) = IF k < Len(plugins) THEN plugins[k + 1] ELSE NULL
    BY <1>0, <1>2, Followed
  <1>4. /\ p' \in [Threads -> Plugins \cup {NULL}]
        /\ p'[MainThread] = NextPlugin(x)
        /\ \A b \in Threads \ {MainThread} : p'[b] = p[b]
    BY <1>0, <1>1, <1>2, FollowedType, Pointed
  <1>5. visited \in Seq(Plugins) /\ n \in Nat /\ Len(plugins) \in Nat
    BY <1>0, Typed DEF TypeOK, ThreadType
  <1>6. /\ visited' \in Seq(Plugins) /\ Len(visited') = n + 1
        /\ visited'[n + 1] = x /\ \A j \in 1..n : visited'[j] = visited[j]
    BY <1>1, <1>2, <1>5
  <1>7. /\ n <= Len(plugins)
        /\ \A j \in 1..n : visited[j] = plugins[j]
        /\ n > 0 => x = IF n < Len(plugins) THEN plugins[n + 1] ELSE NULL
        /\ n = 0 => x = First
    BY <1>0, <1>1 DEF HeadInv, InOrder, At
  <1> HIDE DEF x, n
  <1>8. n < Len(plugins) /\ plugins[n + 1] = x
    <2>1. CASE n > 0
      BY <1>1, <1>5, <1>7, <2>1
    <2>2. CASE n = 0
      BY <1>0, <1>1, <1>5, <1>7, <2>2, Typed DEF First
    <2> QED
      BY <1>5, <2>1, <2>2
  <1>9. k = n + 1
    <2>1. n + 1 \in 1..Len(plugins)
      BY <1>5, <1>8
    <2> QED
      BY <1>0, <1>3, <1>8, <2>1 DEF ListInv
  <1>10. InOrder'
    <2>1. \A j \in 1..(n + 1) : visited'[j] = plugins[j]
      <3>1. \A j \in 1..(n + 1) : j \in 1..n \/ j = n + 1
        BY <1>5
      <3>2. visited'[n + 1] = plugins[n + 1]
        BY <1>6, <1>8
      <3>3. \A j \in 1..n : visited'[j] = plugins[j]
        BY <1>6, <1>7
      <3> QED
        BY <3>1, <3>2, <3>3, Zenon
    <2>2. p'[MainThread] = IF n + 1 < Len(plugins) THEN plugins[(n + 1) + 1] ELSE NULL
      BY <1>3, <1>4, <1>9
    <2> QED
      BY <1>1, <1>5, <1>6, <1>8, <2>1, <2>2 DEF InOrder
  <1>11. ThreadInv' /\ LockInv'
    BY <1>0, <1>1 DEF ThreadInv, LockInv
  <1>12. \A b \in Threads : pc[b] # "walk" => p'[b] = p[b]
    BY <1>1, <1>4
  <1>13. LoadInv'
    BY <1>0, <1>1, <1>12 DEF LoadInv, Loading
  <1>14. ListInv' /\ HoldInv'
    BY <1>0, <1>1, <1>12 DEF ListInv, HoldInv, IsLinked
  <1>15. HeadInv'
    BY <1>1, <1>10 DEF HeadInv
  <1> QED
    BY <1>1, <1>4, <1>6, <1>11, <1>13, <1>14, <1>15 DEF Sound

-----------------------------------------------------------------------------
(* Steps that change the list or the nodes. *)

Nodes == {"none", "open", "linked", "closed", "freed"}

(* The types after a step of thread a, and that the other threads stay     *)
(* where they are.                                                         *)
Changes(a) ==
  /\ status' = "up"
  /\ plugins' \in Seq(Plugins)
  /\ node' \in [Plugins -> Nodes]
  /\ plugin_mutex' \in Threads \cup {NULL}
  /\ UNCHANGED visited
  /\ pc' \in [Threads -> PcType]
  /\ p' \in [Threads -> Plugins \cup {NULL}]

LEMMA OpenStep ==
  ASSUME IInv, status = "up", NEW a \in Threads, NEW x \in Plugins, OpenPlugin(a, x)
  PROVE  Changes(a) /\ Sound' /\ UNCHANGED <<plugins, plugin_mutex>>
  <1>0. /\ TypeOK
        /\ ThreadInv /\ LockInv /\ LoadInv /\ ListInv /\ HoldInv /\ HeadInv
    BY DEF IInv, Sound
  <1>1. /\ node \in [Plugins -> Nodes] /\ pc \in [Threads -> PcType]
        /\ p \in [Threads -> Plugins \cup {NULL}]
    BY <1>0 DEF TypeOK, ListType, ThreadType, PcType, Nodes
  <1>2. /\ UNCHANGED <<status, plugins, plugin_mutex, visited>>
        /\ pc[a] = "prompt" /\ node[x] = "none"
        /\ node' = [node EXCEPT ![x] = "open"]
        /\ p' = [p EXCEPT ![a] = x]
    BY DEF OpenPlugin, Command, At
  <1>3. /\ node' \in [Plugins -> Nodes] /\ node'[x] = "open"
        /\ \A y \in Plugins : y # x => node'[y] = node[y]
    BY <1>1, <1>2 DEF Nodes
  <1>4. /\ p' \in [Threads -> Plugins \cup {NULL}] /\ p'[a] = x
        /\ \A b \in Threads : b # a => p'[b] = p[b]
    BY <1>1, <1>2
  <1>5. x # a /\ (x \in Threads => x \in Clis /\ pc[x] = "none")
    BY <1>0, <1>2 DEF ThreadInv, Threads
  <1>6. /\ pc' \in [Threads -> PcType] /\ pc'[a] \in {"set_command", "link"}
        /\ x \in Threads => pc'[x] = "prompt"
        /\ \A b \in Threads : b # a /\ b # x => pc'[b] = pc[b]
    <2> DEFINE loc == IF x \in WithCommand THEN "set_command" ELSE "link"
    <2>1. /\ loc \in PcType /\ loc \in {"set_command", "link"} /\ "prompt" \in PcType
      BY DEF PcType, Loading, Commandless
    <2>2. pc' = [b \in Threads |-> CASE b = a -> loc [] b = x -> "prompt"
                                    [] OTHER -> pc[b]]
      BY DEF OpenPlugin
    <2> HIDE DEF loc
    <2>3. ASSUME NEW b \in Threads
          PROVE  pc'[b] = IF b = a THEN loc ELSE IF b = x THEN "prompt" ELSE pc[b]
      BY <1>5, <2>2
    <2>4. pc' \in [Threads -> PcType]
      BY <1>1, <2>1, <2>2, <2>3
    <2> QED
      BY <1>5, <2>1, <2>3, <2>4
  <1>7. \A b \in Threads :
          /\ pc'[b] \notin Loading \cup {"prompt"} => pc'[b] = pc[b] /\ p'[b] = p[b]
          /\ pc[b] \notin {"prompt", "none"} => pc'[b] = pc[b] /\ p'[b] = p[b]
    BY <1>2, <1>4, <1>5, <1>6 DEF Loading
  <1>8. ThreadInv'
    <2> SUFFICES ASSUME NEW c \in Clis, node'[c] = "none" PROVE pc'[c] = "none"
      BY DEF ThreadInv
    <2>1. c # x /\ node[c] = "none" /\ pc[c] = "none" /\ c \in Threads
      BY <1>0, <1>3 DEF ThreadInv, Threads
    <2> QED
      BY <1>2, <1>6, <2>1
  <1>9. LockInv'
    <2>1. \A b \in Threads : pc'[b] \in Holding <=> pc[b] \in Holding
      BY <1>2, <1>5, <1>6, <1>7 DEF Holding, Unloading, Quitting, Loading
    <2>2. \A b \in Threads :
            pc'[b] \in {"walk", "execute", "msgrcv"} => pc[b] = pc'[b]
      BY <1>7 DEF Loading
    <2> QED
      BY <1>0, <1>2, <2>1, <2>2 DEF LockInv
  <1>10. LoadInv'
    <2>1. \A b \in Threads : b # a =>
            /\ pc'[b] \in Loading <=> pc[b] \in Loading
            /\ p'[b] = p[b]
      BY <1>4, <1>5, <1>6 DEF Loading
    <2>2. \A b \in Threads : pc[b] \in Loading => p[b] # x /\ p[b] \in Plugins
      BY <1>0, <1>2 DEF LoadInv
    <2>3. pc'[a] \in Loading /\ pc[a] \notin Loading
      BY <1>2, <1>6 DEF Loading
    <2>4. ASSUME NEW b \in Threads, pc'[b] \in Loading
          PROVE  /\ p'[b] \in Plugins /\ node'[p'[b]] = "open"
                 /\ \A c \in Threads : pc'[c] \in Loading /\ p'[c] = p'[b] => c = b
      <3>1. CASE b = a
        BY <1>3, <1>4, <2>1, <2>2, <3>1
      <3>2. CASE b # a
        BY <1>0, <1>3, <1>4, <2>1, <2>2, <2>4, <3>2 DEF LoadInv
      <3> QED
        BY <3>1, <3>2
    <2>5. ASSUME NEW y \in Plugins, node'[y] = "open"
          PROVE  \E b \in Threads : pc'[b] \in Loading /\ p'[b] = y
      <3>1. CASE y = x
        BY <1>4, <2>3, <3>1
      <3>2. CASE y # x
        <4>1. PICK b \in Threads : pc[b] \in Loading /\ p[b] = y
          BY <1>0, <1>3, <2>5, <3>2 DEF LoadInv
        <4> QED
          BY <2>1, <2>3, <4>1
      <3> QED
        BY <3>1, <3>2
    <2> QED
      BY <2>4, <2>5 DEF LoadInv
  <1>11. \A k \in 1..Len(plugins) : plugins[k] \in Plugins /\ plugins[k] # x
    BY <1>0, <1>2, Typed DEF ListInv
  <1>12. ListInv'
    <2>1. \A b \in Threads : pc[b] = "unlink" => pc'[b] = "unlink" /\ p'[b] = p[b]
      BY <1>7
    <2> QED
      BY <1>0, <1>2, <1>3, <1>11, <2>1 DEF ListInv, IsLinked
  <1>13. HoldInv'
    <2>1. \A b \in Threads : pc'[b] \in {"join", "unlink", "quit_join"} =>
            pc'[b] = pc[b] /\ p'[b] = p[b]
      BY <1>7 DEF Loading
    <2>2. plugins # <<>> => plugins[1] \in Plugins /\ plugins[1] # x
      BY <1>0, <1>11, Typed
    <2> QED
      BY <1>0, <1>2, <1>3, <2>1, <2>2 DEF HoldInv, IsLinked
  <1>14. HeadInv'
    <2>1. MainThread \in Threads /\ p[MainThread] \in Plugins \cup {NULL}
      BY <1>1 DEF Threads
    <2>2. pc'[MainThread] \in {"execute", "walk"} \/ pc[MainThread] = "walk" =>
            pc'[MainThread] = pc[MainThread] /\ p'[MainThread] = p[MainThread]
      BY <1>7, <2>1 DEF Loading
    <2>3. First' = First
      BY <1>2 DEF First
    <2>4. InOrder'
      <3> SUFFICES ASSUME At(MainThread, "walk")' PROVE InOrder'
        BY DEF InOrder
      <3>1. At(MainThread, "walk") /\ UNCHANGED <<plugins, visited>>
              /\ p'[MainThread] = p[MainThread]
        BY <1>2, <2>2 DEF At
      <3>2. p[MainThread] # NULL /\ node'[p[MainThread]] = "linked" =>
              node[p[MainThread]] = "linked"
        BY <1>3, <2>1
      <3> QED
        BY <1>0, <2>3, <3>1, <3>2 DEF HeadInv, InOrder
    <2>5. pc'[MainThread] # "walk" => visited' = <<>>
      BY <1>0, <1>2, <2>2 DEF HeadInv
    <2>6. ASSUME pc'[MainThread] = "execute", p'[MainThread] # NULL
          PROVE  /\ node'[p'[MainThread]] \notin {"none", "open"}
                 /\ node'[p'[MainThread]] = "linked" => p'[MainThread] = First'
      BY <1>0, <1>2, <1>3, <2>1, <2>2, <2>3, <2>6 DEF HeadInv
    <2> QED
      BY <2>4, <2>5, <2>6 DEF HeadInv
  <1> QED
    BY <1>0, <1>2, <1>3, <1>4, <1>6, <1>8, <1>9, <1>10, <1>12, <1>13, <1>14
    DEF Changes, Sound, TypeOK, ListType

(* What the four other steps have in common: thread a, which the node is   *)
(* held by, changes node x; the other threads stay where they are.         *)
Turns(a, x, was, is) ==
  /\ x \in Plugins /\ x = p[a] /\ node[x] = was /\ node'[x] = is
  /\ \A y \in Plugins : y # x => node'[y] = node[y]
  /\ \A b \in Threads : b # a => pc'[b] = pc[b] /\ p'[b] = p[b]

LEMMA Turned ==
  ASSUME TypeOK, NEW x \in Plugins, NEW is \in Nodes, node' = [node EXCEPT ![x] = is]
  PROVE  /\ node' \in [Plugins -> Nodes] /\ node'[x] = is
         /\ \A y \in Plugins : y # x => node'[y] = node[y]
  BY DEF TypeOK, ListType, Nodes

(* No other thread loads the node. *)
LEMMA TurnLoad ==
  ASSUME IInv, status = "up", NEW a \in Threads, NEW x, NEW was, NEW is,
         Turns(a, x, was, is), is # "open",
         was = "open" => pc[a] \in Loading, was # "open" => pc[a] \notin Loading,
         pc'[a] \notin Loading
  PROVE  LoadInv'
  <1>0. LoadInv
    BY DEF IInv, Sound
  <1>1. /\ x \in Plugins /\ x = p[a] /\ node[x] = was /\ node'[x] = is
        /\ \A y \in Plugins : y # x => node'[y] = node[y]
        /\ \A b \in Threads : b # a => pc'[b] = pc[b] /\ p'[b] = p[b]
    BY DEF Turns
  <1>2. \A b \in Threads : pc[b] \in Loading /\ b # a => p[b] # x
    <2>1. CASE was = "open"
      BY <1>0, <1>1, <2>1 DEF LoadInv
    <2>2. CASE was # "open"
      BY <1>0, <1>1, <2>2 DEF LoadInv
    <2> QED
      BY <2>1, <2>2
  <1>3. ASSUME NEW b \in Threads, pc'[b] \in Loading
        PROVE  /\ p'[b] \in Plugins /\ node'[p'[b]] = "open"
               /\ \A c \in Threads : pc'[c] \in Loading /\ p'[c] = p'[b] => c = b
    <2>1. b # a
      BY <1>3
    <2>2. pc[b] \in Loading /\ p'[b] = p[b] /\ p[b] \in Plugins /\ p[b] # x
      BY <1>0, <1>1, <1>2, <1>3, <2>1 DEF LoadInv
    <2>3. ASSUME NEW c \in Threads, pc'[c] \in Loading, p'[c] = p'[b] PROVE c = b
      BY <1>0, <1>1, <2>2, <2>3 DEF LoadInv
    <2> QED
      BY <1>0, <1>1, <2>2, <2>3 DEF LoadInv
  <1>4. ASSUME NEW y \in Plugins, node'[y] = "open"
        PROVE  \E b \in Threads : pc'[b] \in Loading /\ p'[b] = y
    <2>1. y # x /\ node[y] = "open"
      BY <1>1, <1>4
    <2>2. PICK b \in Threads : pc[b] \in Loading /\ p[b] = y
      BY <1>0, <2>1 DEF LoadInv
    <2>3. b # a
      BY <1>1, <2>1, <2>2
    <2> QED
      BY <1>1, <2>2, <2>3
  <1> QED
    BY <1>3, <1>4 DEF LoadInv

(* The thread that has been opened stays so. *)
LEMMA TurnThread ==
  ASSUME IInv, status = "up", NEW a \in Threads, NEW x, NEW was, NEW is,
         Turns(a, x, was, is), is # "none", pc[a] # "none"
  PROVE  ThreadInv'
  <1>0. ThreadInv
    BY DEF IInv, Sound
  <1> SUFFICES ASSUME NEW c \in Clis, node'[c] = "none" PROVE pc'[c] = "none"
    BY DEF ThreadInv
  <1>1. c \in Threads /\ c \in Plugins /\ c # x
    BY DEF Threads, Turns
  <1>2. node[c] = "none" /\ pc[c] = "none"
    BY <1>0, <1>1 DEF Turns, ThreadInv
  <1> QED
    BY <1>1, <1>2 DEF Turns

LEMMA LinkStep ==
  ASSUME IInv, status = "up", NEW a \in Threads, Link(a)
  PROVE  Changes(a) /\ Sound'
  <1> DEFINE x == p[a]
             loc == IF a = MainThread THEN "prompt" ELSE "check"
  <1>0. /\ TypeOK
        /\ ThreadInv /\ LockInv /\ LoadInv /\ ListInv /\ HoldInv /\ HeadInv
    BY DEF IInv, Sound
  <1>1. /\ UNCHANGED <<status, plugin_mutex, visited>>
        /\ pc[a] = "link" /\ plugin_mutex = NULL
        /\ plugins' = Append(plugins, x)
        /\ node' = [node EXCEPT ![p[a]] = "linked"]
        /\ p' = [p EXCEPT ![a] = NULL] /\ Goto(a, loc)
    BY DEF Link, At, Done
  <1>2. x \in Plugins /\ node[x] = "open" /\ pc[a] \in Loading
    BY <1>0, <1>1 DEF LoadInv, Loading
  <1>3. loc \in PcType /\ loc \in {"prompt", "check"} /\ "linked" \in Nodes
    BY DEF PcType, Commandless, Nodes
  <1>4. /\ Turns(a, x, "open", "linked")
        /\ node' \in [Plugins -> Nodes]
        /\ pc' \in [Threads -> PcType] /\ pc'[a] = loc
        /\ p' \in [Threads -> Plugins \cup {NULL}] /\ p'[a] = NULL
    <2>1. /\ pc' \in [Threads -> PcType] /\ pc'[a] = loc
          /\ \A b \in Threads \ {a} : pc'[b] = pc[b]
      BY <1>0, <1>1, <1>3, Went
    <2>2. /\ p' \in [Threads -> Plugins \cup {NULL}] /\ p'[a] = NULL
          /\ \A b \in Threads \ {a} : p'[b] = p[b]
      BY <1>0, <1>1, Pointed
    <2>3. /\ node' \in [Plugins -> Nodes] /\ node'[x] = "linked"
          /\ \A y \in Plugins : y # x => node'[y] = node[y]
      BY <1>0, <1>1, <1>2, <1>3, Turned
    <2> QED
      BY <1>2, <2>1, <2>2, <2>3 DEF Turns
  <1>5. /\ plugins' \in Seq(Plugins) /\ Len(plugins) \in Nat
        /\ Len(plugins') = Len(plugins) + 1
        /\ \A k \in 1..Len(plugins) : plugins'[k] = plugins[k]
        /\ plugins'[Len(plugins) + 1] = x
    BY <1>0, <1>1, <1>2, Appended, Typed
  <1> HIDE DEF x, loc
  <1>6. Changes(a)
    BY <1>0, <1>1, <1>4, <1>5 DEF Changes, TypeOK, ListType
  <1>7. \A b \in Threads : pc[b] \notin Holding
    BY <1>0, <1>1 DEF LockInv, Threads
  <1>8. ThreadInv'
    BY <1>1, <1>4, TurnThread
  <1>9. LoadInv'
    BY <1>2, <1>3, <1>4, TurnLoad DEF Loading
  <1>10. /\ \A y \in Plugins : y # x => node'[y] = node[y]
         /\ node'[x] = "linked"
         /\ \A b \in Threads : b # a => pc'[b] = pc[b] /\ p'[b] = p[b]
    BY <1>4 DEF Turns
  <1>11. \A b \in Threads : pc'[b] \notin Holding
    BY <1>3, <1>4, <1>7, <1>10 DEF Holding, Unloading, Quitting
  <1>12. LockInv'
    BY <1>0, <1>1, <1>3, <1>4, <1>10, <1>11 DEF LockInv, Threads
  <1>13. \A k \in 1..Len(plugins) :
           plugins[k] \in Plugins /\ node[plugins[k]] = "linked" /\ plugins[k] # x
    BY <1>0, <1>2, <1>7, Typed DEF ListInv, Holding, Unloading
  <1>14. ListInv'
    <2>1. \A k \in 1..Len(plugins') : k \in 1..Len(plugins) \/ k = Len(plugins) + 1
      BY <1>5
    <2>2. \A k \in 1..Len(plugins') : node'[plugins'[k]] = "linked"
      BY <1>5, <1>10, <1>13, <2>1
    <2>3. ASSUME NEW j \in 1..Len(plugins'), NEW k \in 1..Len(plugins'),
                 plugins'[j] = plugins'[k]
          PROVE  j = k
      <3>1. \A m \in 1..Len(plugins) : plugins'[m] = plugins[m] /\ plugins[m] # x
        BY <1>5, <1>13
      <3>2. CASE j \in 1..Len(plugins) /\ k \in 1..Len(plugins)
        BY <1>0, <2>3, <3>1, <3>2 DEF ListInv
      <3>3. CASE j \notin 1..Len(plugins) \/ k \notin 1..Len(plugins)
        BY <1>5, <2>1, <2>3, <3>1, <3>3
      <3> QED
        BY <3>2, <3>3
    <2>4. ASSUME NEW y \in Plugins, node'[y] = "linked" PROVE IsLinked(y)'
      <3>1. CASE y = x
        BY <1>5, <3>1 DEF IsLinked
      <3>2. CASE y # x
        <4>1. PICK k \in 1..Len(plugins) : plugins[k] = y
          BY <1>0, <1>10, <2>4, <3>2 DEF ListInv, IsLinked
        <4>2. k \in 1..Len(plugins') /\ plugins'[k] = y
          BY <1>5, <4>1
        <4> QED
          BY <4>2 DEF IsLinked
      <3> QED
        BY <3>1, <3>2
    <2> QED
      BY <2>2, <2>3, <2>4 DEF ListInv
  <1>15. HoldInv'
    BY <1>11 DEF HoldInv, Holding, Unloading, Quitting
  <1>16. HeadInv'
    <2>1. MainThread \in Threads /\ pc[MainThread] # "walk" /\ pc'[MainThread] # "walk"
      BY <1>7, <1>11 DEF Threads, Holding
    <2>2. InOrder' /\ visited' = <<>>
      BY <1>0, <1>1, <2>1 DEF HeadInv, InOrder, At
    <2>3. ASSUME pc'[MainThread] = "execute", p'[MainThread] # NULL
          PROVE  /\ node'[p'[MainThread]] \notin {"none", "open"}
                 /\ node'[p'[MainThread]] = "linked" => p'[MainThread] = First'
      <3>1. a # MainThread /\ pc[MainThread] = "execute" /\ p'[MainThread] = p[MainThread]
        BY <1>3, <1>4, <1>10, <2>1, <2>3
      <3>2. p[MainThread] \in Plugins /\ node[p[MainThread]] \notin {"none", "open"}
        BY <1>0, <2>1, <2>3, <3>1 DEF HeadInv, TypeOK, ThreadType
      <3>3. node'[p[MainThread]] = node[p[MainThread]]
        BY <1>2, <1>10, <3>2
      <3>4. ASSUME node[p[MainThread]] = "linked" PROVE p[MainThread] = First'
        <4>1. p[MainThread] = First /\ First # NULL
          BY <1>0, <2>3, <3>1, <3>2, <3>4 DEF HeadInv
        <4>2. First = plugins[1] /\ 1 \in 1..Len(plugins)
          BY <1>0, <4>1, Typed DEF First
        <4>3. plugins' # <<>> /\ plugins'[1] = plugins[1]
          BY <1>5, <4>2
        <4> QED
          BY <4>1, <4>2, <4>3 DEF First
      <3> QED
        BY <3>1, <3>2, <3>3, <3>4
    <2> QED
      BY <2>2, <2>3 DEF HeadInv
  <1> QED
    BY <1>6, <1>8, <1>9, <1>12, <1>14, <1>15, <1>16 DEF Sound

(* A thread that closes or frees a node holds the mutex, so that the main  *)
(* thread does not walk; the head that it may have read before is affected *)
(* only if it is the node.                                                 *)
LEMMA TurnHead ==
  ASSUME IInv, status = "up", NEW a \in Threads, NEW x, NEW was, NEW is,
         Turns(a, x, was, is), is \in {"closed", "freed"}, UNCHANGED visited,
         pc[a] \in Holding, pc[a] # "walk", pc'[a] \notin {"walk", "execute"},
         First = x \/ First' = First
  PROVE  HeadInv'
  <1>0. TypeOK /\ LockInv /\ HeadInv
    BY DEF IInv, Sound
  <1>1. /\ x \in Plugins /\ node'[x] = is
        /\ \A y \in Plugins : y # x => node'[y] = node[y]
        /\ \A b \in Threads : b # a => pc'[b] = pc[b] /\ p'[b] = p[b]
    BY DEF Turns
  <1>2. MainThread \in Threads /\ pc[MainThread] # "walk" /\ pc'[MainThread] # "walk"
    <2>1. MainThread \in Threads
      BY DEF Threads
    <2>2. pc[MainThread] # "walk"
      BY <1>0, <2>1, OneHolder DEF Holding
    <2> QED
      BY <1>1, <2>1, <2>2
  <1>3. InOrder' /\ visited' = <<>>
    BY <1>0, <1>2 DEF HeadInv, InOrder, At
  <1>4. ASSUME pc'[MainThread] = "execute", p'[MainThread] # NULL
        PROVE  /\ node'[p'[MainThread]] \notin {"none", "open"}
               /\ node'[p'[MainThread]] = "linked" => p'[MainThread] = First'
    <2>1. a # MainThread /\ pc[MainThread] = "execute" /\ p'[MainThread] = p[MainThread]
      BY <1>1, <1>2, <1>4
    <2>2. p[MainThread] \in Plugins
      BY <1>0, <1>2, <1>4, <2>1 DEF TypeOK, ThreadType
    <2>3. CASE p[MainThread] = x
      BY <1>1, <2>1, <2>3
    <2>4. CASE p[MainThread] # x
      BY <1>0, <1>1, <1>4, <2>1, <2>2, <2>4 DEF HeadInv
    <2> QED
      BY <2>3, <2>4
  <1> QED
    BY <1>3, <1>4 DEF HeadInv

(* The mutex is kept, or released with the last step that needs it. *)
LEMMA TurnLock ==
  ASSUME IInv, status = "up", NEW a \in Threads, NEW x, NEW was, NEW is,
         Turns(a, x, was, is), pc[a] \in Holding,
         pc'[a] \notin {"walk", "execute", "msgrcv"},
         \/ pc'[a] \in Holding /\ plugin_mutex' = plugin_mutex
         \/ pc'[a] \notin Holding /\ plugin_mutex' = NULL
  PROVE  LockInv'
  <1>0. LockInv /\ NULL \notin Threads
    BY DEF IInv, Sound, Threads
  <1>1. plugin_mutex = a /\ \A b \in Threads : b # a => pc[b] \notin Holding
    BY <1>0 DEF LockInv
  <1>2. \A b \in Threads : b # a => pc'[b] = pc[b]
    BY DEF Turns
  <1> QED
    BY <1>0, <1>1, <1>2 DEF LockInv

LEMMA ClosedStep ==
  ASSUME IInv, status = "up", NEW a \in Threads, Closed(a)
  PROVE  Changes(a) /\ Sound'
  <1> DEFINE x == p[a]
  <1>0. /\ TypeOK
        /\ ThreadInv /\ LockInv /\ LoadInv /\ ListInv /\ HoldInv /\ HeadInv
    BY DEF IInv, Sound
  <1>1. /\ UNCHANGED <<status, plugins, plugin_mutex, visited, p>>
        /\ pc[a] = "join" /\ node' = [node EXCEPT ![x] = "closed"]
        /\ Goto(a, "unlink")
    BY DEF Closed, At, locals
  <1>2. x \in Plugins /\ node[x] = "linked" /\ IsLinked(x)
    BY <1>0, <1>1 DEF HoldInv, ListInv
  <1>3. /\ pc' \in [Threads -> PcType] /\ pc'[a] = "unlink"
        /\ \A b \in Threads \ {a} : pc'[b] = pc[b]
    <2>1. "unlink" \in PcType
      BY DEF PcType, Holding, Unloading
    <2> QED
      BY <1>0, <1>1, <2>1, Went
  <1>4. /\ node' \in [Plugins -> Nodes] /\ node'[x] = "closed"
        /\ \A y \in Plugins : y # x => node'[y] = node[y]
    <2>1. "closed" \in Nodes
      BY DEF Nodes
    <2> QED
      BY <1>0, <1>1, <1>2, <2>1, Turned
  <1>5. Turns(a, x, "linked", "closed")
    BY <1>1, <1>2, <1>3, <1>4 DEF Turns
  <1> HIDE DEF x
  <1>6. Changes(a)
    BY <1>0, <1>1, <1>3, <1>4 DEF Changes, TypeOK, ListType, ThreadType
  <1>7. /\ pc[a] \in Holding /\ pc'[a] \in Holding
        /\ pc[a] \notin Loading /\ pc'[a] \notin Loading
    BY <1>1, <1>3 DEF Holding, Unloading, Loading
  <1>8. ThreadInv' /\ LockInv'
    <2>1. ThreadInv'
      BY <1>1, <1>5, TurnThread
    <2>2. LockInv'
      BY <1>1, <1>3, <1>5, <1>7, TurnLock
    <2> QED
      BY <2>1, <2>2
  <1>9. LoadInv'
    BY <1>5, <1>7, TurnLoad
  <1>10. \A b \in Threads : b # a => pc[b] \notin Holding
    BY <1>0, <1>7 DEF LockInv
  <1>11. \A k \in 1..Len(plugins) : plugins[k] \in Plugins /\ node[plugins[k]] = "linked"
    <2>1. \A b \in Threads : pc[b] # "unlink"
      BY <1>1, <1>10 DEF Holding, Unloading
    <2> QED
      BY <1>0, <2>1, Typed DEF ListInv
  <1>12. p'[a] = x
    BY <1>1 DEF x
  <1>13. ListInv'
    <2>1. \A y \in Plugins : node'[y] = "linked" => IsLinked(y)'
      BY <1>0, <1>1, <1>4 DEF ListInv, IsLinked
    <2>2. \A k \in 1..Len(plugins) : node'[plugins[k]] = "linked" \/ plugins[k] = x
      BY <1>4, <1>11
    <2> QED
      BY <1>0, <1>1, <1>3, <1>4, <1>12, <2>1, <2>2 DEF ListInv
  <1>14. HoldInv'
    <2>1. \A b \in Threads : b # a => pc'[b] \notin {"join", "unlink", "quit_join"}
      BY <1>3, <1>10 DEF Holding, Unloading, Quitting
    <2>2. \E k \in 1..Len(plugins') : plugins'[k] = x
      BY <1>1, <1>2 DEF IsLinked
    <2> QED
      BY <1>2, <1>3, <1>4, <1>12, <2>1, <2>2 DEF HoldInv, IsLinked
  <1>15. HeadInv'
    <2>1. First' = First
      BY <1>1 DEF First
    <2> QED
      BY <1>1, <1>3, <1>5, <1>7, <2>1, TurnHead
  <1> QED
    BY <1>6, <1>8, <1>9, <1>13, <1>14, <1>15 DEF Sound

(* The list after a node has been taken out of it. *)
LEMMA Without ==
  ASSUME TypeOK, ListInv, NEW x, plugins' \in Seq(Plugins),
         Len(plugins') = Len(plugins) - 1,
         NEW k \in 1..Len(plugins), plugins[k] = x,
         \A j \in 1..Len(plugins') :
           plugins'[j] = IF j < k THEN plugins[j] ELSE plugins[j + 1]
  PROVE  /\ \A j, m \in 1..Len(plugins') : plugins'[j] = plugins'[m] => j = m
         /\ \A y : IsLinked(y) /\ y # x => IsLinked(y)'
         /\ \A j \in 1..Len(plugins') :
              plugins'[j] # x /\ \E m \in 1..Len(plugins) : plugins'[j] = plugins[m]
         /\ First = x \/ First' = First
  <1> DEFINE n == Len(plugins)
             at(j) == IF j < k THEN j ELSE j + 1
  <1>0. n \in Nat \ {0} /\ k \in 1..n /\ Len(plugins') = n - 1
    BY Typed
  <1>1. \A j, m \in 1..n : plugins[j] = plugins[m] => j = m
    BY DEF ListInv
  <1> HIDE DEF n
  <1>2. \A j \in 1..(n - 1) : at(j) \in 1..n /\ at(j) # k
    BY <1>0
  <1>3. \A j \in 1..(n - 1) : plugins'[j] = plugins[at(j)]
    BY <1>0
  <1>4. \A j, m \in 1..(n - 1) : at(j) = at(m) => j = m
    BY <1>0
  <1>5. \A m \in 1..n : m # k => \E j \in 1..(n - 1) : at(j) = m
    <2> SUFFICES ASSUME NEW m \in 1..n, m # k PROVE \E j \in 1..(n - 1) : at(j) = m
      OBVIOUS
    <2>1. CASE m < k
      <3>1. m \in 1..(n - 1) /\ at(m) = m
        BY <1>0, <2>1
      <3> QED
        BY <3>1
    <2>2. CASE m > k
      <3>1. m - 1 \in 1..(n - 1) /\ at(m - 1) = m
        BY <1>0, <2>2
      <3> QED
        BY <3>1
    <2> QED
      BY <1>0, <2>1, <2>2
  <1>6. k # 1 => at(1) = 1 /\ 1 \in 1..(n - 1)
    BY <1>0
  <1> HIDE DEF at
  <1>7. \A j, m \in 1..Len(plugins') : plugins'[j] = plugins'[m] => j = m
    BY <1>0, <1>1, <1>2, <1>3, <1>4
  <1>8. ASSUME NEW y, IsLinked(y), y # x PROVE IsLinked(y)'
    <2>1. PICK m \in 1..n : plugins[m] = y
      BY <1>8 DEF IsLinked, n
    <2>2. PICK j \in 1..(n - 1) : at(j) = m
      BY <1>5, <1>8, <2>1
    <2> QED
      BY <1>0, <1>3, <2>1, <2>2 DEF IsLinked
  <1>9. ASSUME NEW j \in 1..Len(plugins')
        PROVE  plugins'[j] # x /\ \E m \in 1..Len(plugins) : plugins'[j] = plugins[m]
    <2>1. plugins'[j] = plugins[at(j)] /\ at(j) \in 1..n /\ at(j) # k
      BY <1>0, <1>2, <1>3, <1>9
    <2>2. plugins[at(j)] # x
      BY <1>0, <1>1, <2>1
    <2> QED
      BY <2>1, <2>2 DEF n
  <1>10. First = x \/ First' = First
    <2>1. First = plugins[1]
      BY <1>0 DEF First, n
    <2>2. CASE k = 1
      BY <2>1, <2>2
    <2>3. CASE k # 1
      <3>1. plugins' # <<>> /\ plugins'[1] = plugins[1]
        BY <1>0, <1>3, <1>6, <2>3
      <3> QED
        BY <2>1, <3>1 DEF First
    <2> QED
      BY <2>2, <2>3
  <1> QED
    BY <1>7, <1>8, <1>9, <1>10

(* What is left of the list is linked. *)
LEMMA TurnList ==
  ASSUME IInv, status = "up", NEW a \in Threads, NEW x, NEW was, NEW is,
         Turns(a, x, was, is), is \in {"closed", "freed"}, pc[a] \in Holding,
         pc[a] = "unlink" \/ was = "linked",
         \A j, m \in 1..Len(plugins') : plugins'[j] = plugins'[m] => j = m,
         \A y : IsLinked(y) /\ y # x => IsLinked(y)',
         \A j \in 1..Len(plugins') :
           plugins'[j] # x /\ \E m \in 1..Len(plugins) : plugins'[j] = plugins[m]
  PROVE  ListInv'
  <1>0. TypeOK /\ LockInv /\ ListInv
    BY DEF IInv, Sound
  <1>1. /\ x \in Plugins /\ x = p[a] /\ node'[x] = is
        /\ \A y \in Plugins : y # x => node'[y] = node[y]
    BY DEF Turns
  <1>2. ASSUME NEW m \in 1..Len(plugins), plugins[m] # x
        PROVE  node'[plugins[m]] = "linked"
    <2>1. plugins[m] \in Plugins
      BY <1>0, Typed
    <2>2. \A b \in Threads : pc[b] = "unlink" => b = a
      BY <1>0, OneHolder DEF Holding, Unloading
    <2>3. node[plugins[m]] = "linked"
      BY <1>0, <1>1, <1>2, <2>2 DEF ListInv
    <2> QED
      BY <1>1, <1>2, <2>1, <2>3
  <1>3. \A j \in 1..Len(plugins') : node'[plugins'[j]] = "linked"
    BY <1>2
  <1>4. ASSUME NEW y \in Plugins, node'[y] = "linked" PROVE IsLinked(y)'
    <2>1. y # x /\ node[y] = "linked"
      BY <1>1, <1>4
    <2>2. IsLinked(y)
      BY <1>0, <2>1 DEF ListInv
    <2> QED
      BY <2>1, <2>2
  <1> QED
    BY <1>3, <1>4 DEF ListInv

LEMMA UnlinkStep ==
  ASSUME IInv, status = "up", NEW a \in Threads, Unlink(a)
  PROVE  Changes(a) /\ Sound'
  <1> DEFINE loc == IF a = MainThread THEN "prompt" ELSE "check"
  <1>0. TypeOK /\ LockInv /\ ListInv /\ HoldInv
    BY DEF IInv, Sound
  <1>1. PICK x : x = p[a]
    OBVIOUS
  <1>2. /\ UNCHANGED <<status, visited>>
        /\ pc[a] = "unlink" /\ node' = [node EXCEPT ![x] = "freed"]
        /\ plugins' = Unlinked(x) /\ plugin_mutex' = NULL
        /\ p' = [p EXCEPT ![a] = NULL] /\ Goto(a, loc)
    BY <1>1 DEF Unlink, At, Done
  <1>3. x \in Plugins /\ node[x] = "closed" /\ IsLinked(x)
    BY <1>0, <1>1, <1>2 DEF HoldInv
  <1>4. loc \in PcType /\ loc \in {"prompt", "check"} /\ "freed" \in Nodes
    BY DEF PcType, Commandless, Nodes
  <1>5. /\ pc' \in [Threads -> PcType] /\ pc'[a] = loc
        /\ \A b \in Threads \ {a} : pc'[b] = pc[b]
    BY <1>0, <1>2, <1>4, Went
  <1>6. /\ p' \in [Threads -> Plugins \cup {NULL}] /\ p'[a] = NULL
        /\ \A b \in Threads \ {a} : p'[b] = p[b]
    BY <1>0, <1>2, Pointed
  <1>7. /\ node' \in [Plugins -> Nodes] /\ node'[x] = "freed"
        /\ \A y \in Plugins : y # x => node'[y] = node[y]
    BY <1>0, <1>2, <1>3, <1>4, Turned
  <1>8. Turns(a, x, "closed", "freed")
    BY <1>1, <1>3, <1>5, <1>6, <1>7 DEF Turns
  <1>9. plugins' \in Seq(Plugins) /\ Len(plugins') = Len(plugins) - 1
    BY <1>0, <1>2, <1>3, Removed
  <1>10. PICK k \in 1..Len(plugins) :
           /\ plugins[k] = x
           /\ \A j \in 1..Len(plugins') :
                plugins'[j] = IF j < k THEN plugins[j] ELSE plugins[j + 1]
    BY <1>0, <1>2, <1>3, Removed
  <1>11. /\ \A j, m \in 1..Len(plugins') : plugins'[j] = plugins'[m] => j = m
         /\ \A y : IsLinked(y) /\ y # x => IsLinked(y)'
         /\ \A j \in 1..Len(plugins') :
              plugins'[j] # x /\ \E m \in 1..Len(plugins) : plugins'[j] = plugins[m]
         /\ First = x \/ First' = First
    BY <1>0, <1>9, <1>10, Without
  <1> HIDE DEF loc
  <1>12. Changes(a)
    BY <1>2, <1>5, <1>6, <1>7, <1>9 DEF Changes
  <1>13. /\ pc[a] \in Holding /\ pc'[a] \notin Holding
         /\ pc[a] \notin Loading /\ pc'[a] \notin Loading
         /\ pc'[a] \notin {"walk", "execute", "msgrcv"}
    BY <1>2, <1>4, <1>5 DEF Holding, Unloading, Quitting, Loading
  <1>14. ThreadInv'
    BY <1>2, <1>8, TurnThread
  <1>15. LockInv'
    BY <1>2, <1>8, <1>13, TurnLock
  <1>16. LoadInv'
    BY <1>8, <1>13, TurnLoad
  <1>17. ListInv'
    BY <1>2, <1>8, <1>11, <1>13, TurnList
  <1>18. HoldInv'
    <2>1. \A b \in Threads : b # a => pc'[b] \notin Holding
      BY <1>0, <1>5, <1>13 DEF LockInv
    <2>2. \A b \in Threads : pc'[b] \notin {"join", "unlink", "quit_join"}
      BY <1>13, <2>1 DEF Holding, Unloading, Quitting
    <2> QED
      BY <2>2 DEF HoldInv
  <1>19. HeadInv'
    BY <1>2, <1>8, <1>11, <1>13, TurnHead
  <1> QED
    BY <1>12, <1>14, <1>15, <1>16, <1>17, <1>18, <1>19 DEF Sound

LEMMA QuitClosedStep ==
  ASSUME IInv, status = "up", NEW a \in Threads, QuitClosed(a)
  PROVE  Changes(a) /\ Sound'
  <1>0. TypeOK /\ LockInv /\ ListInv /\ HoldInv
    BY DEF IInv, Sound
  <1>1. PICK x : x = p[a]
    OBVIOUS
  <1>2. /\ UNCHANGED <<status, visited, plugin_mutex>>
        /\ pc[a] = "quit_join" /\ node' = [node EXCEPT ![x] = "closed"]
        /\ plugins' = Tail(plugins)
        /\ p' = [p EXCEPT ![a] = NULL] /\ Goto(a, "quit")
    BY <1>1 DEF QuitClosed, At
  <1>3. /\ plugins # <<>> /\ Len(plugins) \in Nat /\ 1 \in 1..Len(plugins)
        /\ plugins[1] = x /\ x \in Plugins /\ node[x] = "linked"
    BY <1>0, <1>1, <1>2, Typed DEF HoldInv
  <1>4. "quit" \in PcType /\ "closed" \in Nodes
    BY DEF PcType, Holding, Quitting, Nodes
  <1>5. /\ pc' \in [Threads -> PcType] /\ pc'[a] = "quit"
        /\ \A b \in Threads \ {a} : pc'[b] = pc[b]
    BY <1>0, <1>2, <1>4, Went
  <1>6. /\ p' \in [Threads -> Plugins \cup {NULL}] /\ p'[a] = NULL
        /\ \A b \in Threads \ {a} : p'[b] = p[b]
    BY <1>0, <1>2, Pointed
  <1>7. /\ node' \in [Plugins -> Nodes] /\ node'[x] = "closed"
        /\ \A y \in Plugins : y # x => node'[y] = node[y]
    BY <1>0, <1>2, <1>3, <1>4, Turned
  <1>8. Turns(a, x, "linked", "closed")
    BY <1>1, <1>3, <1>5, <1>6, <1>7 DEF Turns
  <1>9. /\ plugins' \in Seq(Plugins) /\ Len(plugins') = Len(plugins) - 1
        /\ \A j \in 1..Len(plugins') : plugins'[j] = plugins[j + 1]
    BY <1>0, <1>2, <1>3, Shortened
  <1>10. \A j \in 1..Len(plugins') :
           plugins'[j] = IF j < 1 THEN plugins[j] ELSE plugins[j + 1]
    BY <1>3, <1>9
  <1>11. /\ \A j, m \in 1..Len(plugins') : plugins'[j] = plugins'[m] => j = m
         /\ \A y : IsLinked(y) /\ y # x => IsLinked(y)'
         /\ \A j \in 1..Len(plugins') :
              plugins'[j] # x /\ \E m \in 1..Len(plugins) : plugins'[j] = plugins[m]
         /\ First = x \/ First' = First
    BY <1>0, <1>3, <1>9, <1>10, Without
  <1>12. Changes(a)
    BY <1>0, <1>2, <1>5, <1>6, <1>7, <1>9 DEF Changes, TypeOK, ListType
  <1>13. /\ pc[a] \in Holding /\ pc'[a] \in Holding
         /\ pc[a] \notin Loading /\ pc'[a] \notin Loading
    BY <1>2, <1>5 DEF Holding, Quitting, Loading
  <1>14. ThreadInv'
    BY <1>2, <1>8, TurnThread
  <1>15. LockInv'
    BY <1>2, <1>5, <1>8, <1>13, TurnLock
  <1>16. LoadInv'
    BY <1>8, <1>13, TurnLoad
  <1>17. ListInv'
    BY <1>8, <1>11, <1>13, TurnList
  <1>18. HoldInv'
    <2>1. \A b \in Threads : b # a => pc'[b] \notin Holding
      BY <1>0, <1>5, <1>13 DEF LockInv
    <2>2. \A b \in Threads : pc'[b] \notin {"join", "unlink", "quit_join"}
      BY <1>5, <2>1 DEF Holding, Unloading, Quitting
    <2> QED
      BY <2>2 DEF HoldInv
  <1>19. HeadInv'
    BY <1>2, <1>5, <1>8, <1>11, <1>13, TurnHead
  <1> QED
    BY <1>12, <1>14, <1>15, <1>16, <1>17, <1>18, <1>19 DEF Sound

-----------------------------------------------------------------------------
LEMMA InitInv == Init => IInv
  <1> SUFFICES ASSUME Init PROVE IInv
    OBVIOUS
  <1> USE DEF Init
  <1>1. ListType
    BY DEF ListType
  <1>2. TableType /\ ThreadType
    BY DEF TableType, ThreadType, Commandless, Threads
  <1>3. NeverLost
    BY DEF NeverLost
  <1>4. \A a \in Threads : pc[a] \in {"prompt", "none"} /\ plugin_mutex # a
    BY DEF Threads
  <1>5. MainThread \in Threads /\ pc[MainThread] = "prompt"
    BY DEF Threads
  <1>6. ThreadInv
    BY DEF ThreadInv, Threads
  <1>7. LockInv
    BY <1>4 DEF LockInv, Holding, Unloading, Quitting
  <1>8. LoadInv
    BY <1>4 DEF LoadInv, Loading
  <1>9. ListInv /\ HoldInv
    BY <1>4 DEF ListInv, HoldInv
  <1>10. HeadInv
    BY <1>5 DEF HeadInv, InOrder, At
  <1> QED
    BY <1>1, <1>2, <1>3, <1>6, <1>7, <1>8, <1>9, <1>10 DEF IInv, TypeOK, Sound

LEMMA Inductive == IInv /\ [Next]_vars => IInv'
  <1> SUFFICES ASSUME IInv, [Next]_vars PROVE IInv'
    OBVIOUS
  <1>0. /\ TypeOK
        /\ plugins \in Seq(Plugins) /\ node \in [Plugins -> Nodes]
        /\ plugin_mutex \in Threads \cup {NULL} /\ visited \in Seq(Plugins)
        /\ pc \in [Threads -> PcType]
    BY DEF IInv, TypeOK, ListType, ThreadType, Nodes, PcType
  <1>1. CASE Ends
    BY <1>1, EndsStep
  <1>2. CASE UNCHANGED vars
    <2>1. TypeOK' /\ NeverLost' /\ status' = status
      BY <1>2 DEF IInv, TypeOK, ListType, TableType, ThreadType, NeverLost, vars, table,
                  locals
    <2>2. ThreadInv' = ThreadInv /\ LockInv' = LockInv /\ LoadInv' = LoadInv
      BY <1>2 DEF vars, locals, ThreadInv, LockInv, LoadInv
    <2>3. ListInv' = ListInv /\ HoldInv' = HoldInv
      BY <1>2 DEF vars, locals, ListInv, HoldInv, IsLinked
    <2>4. HeadInv' = HeadInv
      BY <1>2 DEF vars, locals, HeadInv, InOrder, At, First
    <2> QED
      BY <2>1, <2>2, <2>3, <2>4 DEF IInv, Sound
  <1>3. CASE Ended
    BY <1>2, <1>3 DEF Ended
  <1>4. ASSUME status = "up", RestType', Sound', status' = "up",
               plugins' \in Seq(Plugins), node' \in [Plugins -> Nodes],
               plugin_mutex' \in Threads \cup {NULL}, visited' \in Seq(Plugins),
               pc' \in [Threads -> PcType], p' \in [Threads -> Plugins \cup {NULL}]
        PROVE  IInv'
    BY <1>4, TypeAfter DEF IInv, Nodes
  <1>5. ASSUME NEW a \in Threads, status = "up",
               \/ Local(a)
               \/ a \in Clis /\ Check(a)
               \/ a = MainThread /\ (StartUp \/ ExecuteRead)
        PROVE  IInv'
    <2>1. Calm(a)
      BY <1>5, CalmMoves
    <2>2. RestType'
      BY <1>5, RestStep DEF MainStep
    <2> QED
      BY <1>0, <1>4, <1>5, <2>1, <2>2, CalmStep DEF Calm, Moves
  <1>6. ASSUME NEW a \in Threads, status = "up",
               \/ Locking(a)
               \/ a = MainThread /\ (ExecuteLock \/ ExecuteEnd)
               \/ a = MainThread /\ ExecutePlugin /\ Drop(p[MainThread])
        PROVE  IInv'
    <2>1. Locks(a)
      BY <1>6, LockMoves
    <2>2. RestType'
      BY <1>6, RestStep DEF MainStep
    <2>3. /\ plugin_mutex' \in Threads \cup {NULL}
          /\ visited' \in {visited, <<>>} /\ <<>> \in Seq(Plugins)
      BY <2>1 DEF Locks, Takes, Gives
    <2> QED
      BY <1>0, <1>4, <1>6, <2>1, <2>2, <2>3, LockStep DEF Locks, Moves
  <1>7. ASSUME status = "up", ExecutePlugin, Pass(p[MainThread]) \/ Process(p[MainThread])
        PROVE  IInv'
    <2>1. RestType'
      BY <1>7, RestStep DEF MainStep
    <2> QED
      BY <1>0, <1>4, <1>7, <2>1, WalkStep
  <1>8. ASSUME NEW a \in Threads, status = "up", Changing(a) PROVE IInv'
    <2>1. RestType'
      BY <1>8, RestStep
    <2>2. Changes(a) /\ Sound'
      BY <1>8, OpenStep, LinkStep, ClosedStep, UnlinkStep, QuitClosedStep DEF Changing
    <2> QED
      BY <1>0, <1>4, <1>8, <2>1, <2>2 DEF Changes
  <1>9. ASSUME NEW a \in Clis, Check(a) PROVE IInv'
    BY <1>5, <1>9 DEF Check, At, Threads
  <1>10. CASE MainStep
    <2>1. status = "up" /\ MainThread \in Threads
      BY <1>10 DEF MainStep, StartUp, ExecuteRead, ExecuteLock, ExecutePlugin,
                   ExecuteEnd, At, Threads
    <2>2. CASE ExecutePlugin
      <3>1. Pass(p[MainThread]) \/ Process(p[MainThread]) \/ Drop(p[MainThread])
        BY <2>2 DEF ExecutePlugin
      <3> QED
        BY <1>6, <1>7, <2>1, <2>2, <3>1
    <2> QED
      BY <1>5, <1>6, <1>10, <2>1, <2>2 DEF MainStep
  <1>11. ASSUME NEW a \in Threads, Local(a) \/ Locking(a) \/ Changing(a)
         PROVE  status = "up"
    BY <1>11, UpStep DEF IInv
  <1> QED
    BY <1>1, <1>2, <1>3, <1>5, <1>6, <1>8, <1>9, <1>10, <1>11, Cases

(* The inductive invariant holds in every state. *)
THEOREM Invariance == Spec => []IInv
  BY InitInv, Inductive, PTL DEF Spec

(* Every variable keeps its type, for any plugins, threads and commands. *)
THEOREM TypeCorrect == Spec => []TypeOK
  <1>1. IInv => TypeOK
    BY DEF IInv
  <1> QED
    BY <1>1, Invariance, PTL

(* Any number of threads may load, unload, quit and execute at once: no    *)
(* node is in the list of plugin_chain.c twice, what is loaded is in the   *)
(* list, and what has been closed is there only under the mutex.           *)
THEOREM ChainIsSound == Spec => []ChainSound
  <1>1. IInv => ChainSound
    <2> SUFFICES ASSUME IInv, status = "up" PROVE ChainSound
      BY DEF ChainSound
    <2>1. ListInv /\ LoadInv /\ LockInv
      BY DEF IInv, Sound
    <2>2. ASSUME NEW x \in Plugins, node[x] = "open"
          PROVE  \E a \in Threads :
                   /\ pc[a] \in Loading /\ p[a] = x
                   /\ \A b \in Threads : pc[b] \in Loading /\ p[b] = x => b = a
      BY <2>1, <2>2 DEF LoadInv
    <2>3. ASSUME NEW x \in Plugins, IsLinked(x), node[x] # "linked"
          PROVE  /\ node[x] = "closed"
                 /\ \E a \in Threads :
                      plugin_mutex = a /\ pc[a] = "unlink" /\ p[a] = x
      <3>1. node[x] = "closed" /\ \E a \in Threads : pc[a] = "unlink" /\ p[a] = x
        BY <2>1, <2>3 DEF ListInv, IsLinked
      <3> QED
        BY <2>1, <3>1 DEF LockInv, Holding, Unloading
    <2> QED
      BY <2>1, <2>2, <2>3 DEF ChainSound, ListInv
  <1> QED
    BY <1>1, Invariance, PTL

(* A record whose head was read as NULL met an empty list. *)
MetInv ==
  status = "up" /\ pc[MainThread] \in {"execute", "walk"} /\ p[MainThread] = NULL
    /\ visited = <<>> => met = {}

(* Steps that are not of execute_plugin_chain(). *)
LEMMA MetAside ==
  ASSUME IInv, MetInv, status = "up", NEW a \in Threads,
         Local(a) \/ Locking(a) \/ Changing(a) \/ (a \in Clis /\ Check(a))
  PROVE  MetInv'
  <1> DEFINE m == MainThread
             Other == pc'[m] = pc[m] /\ p'[m] = p[m]
             Away == pc'[m] \notin {"execute", "walk"}
  <1>0. /\ TypeOK /\ m \in Threads /\ m \notin Clis
        /\ pc \in [Threads -> PcType] /\ p \in [Threads -> Plugins \cup {NULL}]
    BY DEF IInv, TypeOK, ThreadType, PcType, Threads
  <1>1. ASSUME UNCHANGED <<visited, met>>, Other \/ Away PROVE MetInv'
    BY <1>1 DEF MetInv
  <1>2. CASE Running(a)
    <2>1. UNCHANGED <<visited, met, p>>
      BY <1>0, <1>2, RunEffect
    <2>2. PICK loc \in {"run", "call", "prompt", "check"} : Goto(a, loc)
      BY <1>0, <1>2, RunEffect
    <2>3. Other \/ Away
      BY <1>0, <2>1, <2>2 DEF Goto
    <2> QED
      BY <1>1, <2>1, <2>3
  <1>3. CASE SetCommand(a) \/ PublishCommand(a) \/ Quit(a) \/ Close(a) \/ QuitClose(a)
    BY <1>0, <1>1, <1>3 DEF SetCommand, PublishCommand, Quit, Close, QuitClose, Goto, locals
  <1>4. CASE (\E n \in Names : Locate(a, n)) \/ LocateNext(a) \/ LocateFound(a)
    BY <1>0, <1>1, <1>4 DEF Locate, LocateNext, LocateFound, At, Goto
  <1>5. CASE Locking(a)
    BY <1>0, <1>1, <1>5 DEF Locking, LockUnload, LockQuit, QuitUnlock, Goto, locals
  <1>6. CASE Link(a) \/ Closed(a) \/ Unlink(a) \/ QuitClosed(a)
    BY <1>0, <1>1, <1>6 DEF Link, Closed, Unlink, QuitClosed, Done, Goto, locals
  <1>7. ASSUME NEW x \in Plugins, OpenPlugin(a, x) PROVE MetInv'
    <2>1. x # m
      OBVIOUS
    <2> QED
      BY <1>0, <1>1, <1>7, <2>1 DEF OpenPlugin
  <1>8. CASE a \in Clis /\ Check(a)
    BY <1>0, <1>1, <1>8 DEF Check, Goto, locals
  <1> QED
    BY <1>2, <1>3, <1>4, <1>5, <1>6, <1>7, <1>8 DEF Local, Changing

LEMMA MetMain ==
  ASSUME IInv, MetInv, status = "up", MainStep
  PROVE  MetInv'
  <1> DEFINE m == MainThread
  <1>0. /\ TypeOK /\ m \in Threads
        /\ pc \in [Threads -> PcType] /\ p \in [Threads -> Plugins \cup {NULL}]
        /\ visited \in Seq(Plugins)
    BY DEF IInv, TypeOK, ThreadType, PcType, Threads
  <1>1. ASSUME pc'[m] \notin {"execute", "walk"} PROVE MetInv'
    BY <1>1 DEF MetInv
  <1>2. CASE StartUp \/ ExecuteEnd
    BY <1>0, <1>1, <1>2 DEF StartUp, ExecuteEnd, Goto
  <1>3. CASE ExecuteRead
    <2>1. p'[m] = First /\ met' = {x \in Plugins : IsLinked(x)}
      BY <1>0, <1>3 DEF ExecuteRead
    <2>2. First = NULL => plugins = <<>>
      BY <1>0, Typed DEF First
    <2>3. plugins = <<>> => met' = {}
      BY <2>1 DEF IsLinked
    <2> QED
      BY <2>1, <2>2, <2>3 DEF MetInv
  <1>4. CASE ExecuteLock
    BY <1>4 DEF ExecuteLock, At, MetInv, locals
  <1>5. CASE ExecutePlugin
    <2> DEFINE x == p[m]
    <2>1. CASE Drop(x)
      BY <1>0, <1>1, <2>1 DEF Drop, Goto
    <2>2. CASE Pass(x) \/ Process(x)
      <3>1. x \in Plugins /\ visited' = Append(visited, x)
        BY <1>0, <1>5, <2>2 DEF ExecutePlugin, Pass, Process
      <3>2. visited' # <<>>
        BY <1>0, <3>1
      <3> QED
        BY <3>2 DEF MetInv
    <2> QED
      BY <1>5, <2>1, <2>2 DEF ExecutePlugin
  <1> QED
    BY <1>2, <1>3, <1>4, <1>5 DEF MainStep

LEMMA MetStep == IInv /\ MetInv /\ [Next]_vars => MetInv'
  <1> SUFFICES ASSUME IInv, MetInv, [Next]_vars PROVE MetInv'
    OBVIOUS
  <1>1. CASE UNCHANGED vars
    BY <1>1 DEF vars, locals, MetInv
  <1>2. CASE Ends
    BY <1>2, EndsEffect DEF EndEffect, Faults, MetInv
  <1>3. ASSUME NEW a \in Threads, Local(a) \/ Locking(a) \/ Changing(a) PROVE MetInv'
    BY <1>3, UpStep, MetAside DEF IInv
  <1>4. ASSUME NEW a \in Clis, Check(a) PROVE MetInv'
    BY <1>4, MetAside DEF Check, At, Threads
  <1>5. CASE MainStep
    BY <1>5, MetMain DEF MainStep, StartUp, ExecuteRead, ExecuteLock, ExecutePlugin,
       ExecuteEnd, At
  <1> QED
    BY <1>1, <1>2, <1>3, <1>4, <1>5, Cases DEF Ended

(* execute_plugin_chain() offers a record to the plugins in order, to none *)
(* of them twice, and, unless one of them drops it, to every plugin that   *)
(* was in the list when the head was read and has not been unloaded since. *)
THEOREM OrderKept == Spec => []OfferedInOrder
  <1>1. Init => MetInv
    BY DEF Init, MetInv
  <1>2. ASSUME IInv, MetInv PROVE OfferedInOrder
    <2> SUFFICES ASSUME At(MainThread, "walk") PROVE OfferedInOrder
      BY DEF OfferedInOrder
    <2> DEFINE x == p[MainThread]
               n == Len(visited)
    <2>0. /\ TypeOK /\ InOrder /\ ListInv /\ visited \in Seq(Plugins) /\ n \in Nat
          /\ status = "up" /\ pc[MainThread] = "walk"
      BY <1>2 DEF IInv, Sound, HeadInv, TypeOK, ThreadType, At
    <2>1. ASSUME x = NULL, NEW y \in met, node[y] = "linked"
          PROVE  \E k \in 1..n : visited[k] = y
      <3>1. y \in Plugins /\ IsLinked(y)
        BY <2>0, <2>1 DEF TypeOK, ThreadType, ListInv
      <3>2. visited # <<>>
        BY <1>2, <2>0, <2>1 DEF MetInv
      <3>3. n > 0
        BY <2>0, <3>2
      <3>4. n <= Len(plugins) /\ ~(n < Len(plugins))
        <4>1. n <= Len(plugins) /\ x = IF n < Len(plugins) THEN plugins[n + 1] ELSE NULL
          BY <2>0, <3>3 DEF InOrder
        <4>2. n < Len(plugins) => n + 1 \in 1..Len(plugins)
          BY <2>0, Typed
        <4> QED
          BY <2>0, <2>1, <4>1, <4>2, Typed
      <3>5. n = Len(plugins)
        BY <2>0, <3>4, Typed
      <3>6. \A k \in 1..n : visited[k] = plugins[k]
        BY <2>0 DEF InOrder
      <3> QED
        BY <3>1, <3>5, <3>6 DEF IsLinked
    <2> QED
      BY <2>0, <2>1 DEF InOrder, OfferedInOrder
  <1> QED
    BY <1>1, <1>2, MetStep, Invariance, PTL DEF Spec

(* unload_plugin_by_name() never reaches "This is likely a bug". *)
THEOREM NoNodeLost == Spec => []NeverLost
  <1>1. IInv => NeverLost
    BY DEF IInv
  <1> QED
    BY <1>1, Invariance, PTL

(* No step changes the list or closes a plugin while the main thread is    *)
(* executing the chain.                                                    *)
THEOREM ListUnaltered == Spec => NoAlteration
  <1> DEFINE Kept == /\ plugins' = plugins
                     /\ \A x \in Plugins : node[x] = "linked" => node'[x] = "linked"
  <1>1. ASSUME IInv, Next, At(MainThread, "walk") PROVE Kept
    <2>0. /\ status = "up" /\ pc[MainThread] = "walk" /\ LockInv /\ TypeOK
          /\ MainThread \in Threads /\ node \in [Plugins -> Nodes]
      BY <1>1 DEF At, IInv, Sound, Threads, TypeOK, ListType, Nodes
    <2>1. ASSUME UNCHANGED <<plugins, node>> PROVE Kept
      BY <2>1
    <2>2. CASE Ends
      BY <1>1, <2>1, <2>2, EndsEffect DEF EndEffect
    <2>3. ASSUME NEW a \in Threads, Local(a) \/ Locking(a) PROVE Kept
      BY <1>1, <2>0, <2>1, <2>3, CalmMoves, LockMoves DEF Calm, Locks
    <2>4. ASSUME NEW a \in Clis, Check(a) PROVE Kept
      BY <2>1, <2>4 DEF Check
    <2>5. CASE MainStep
      BY <2>1, <2>5 DEF MainStep, StartUp, ExecuteRead, ExecuteLock, ExecutePlugin,
                        ExecuteEnd
    <2>6. ASSUME NEW a \in Threads, NEW x \in Plugins, OpenPlugin(a, x) PROVE Kept
      BY <2>0, <2>6 DEF OpenPlugin
    <2>7. ASSUME NEW a \in Threads, Link(a) PROVE FALSE
      <3>1. plugin_mutex = MainThread /\ plugin_mutex = NULL
        BY <2>0, <2>7 DEF Link, LockInv, Holding
      <3> QED
        BY <3>1
    <2>8. ASSUME NEW a \in Threads, Closed(a) \/ Unlink(a) \/ QuitClosed(a) PROVE FALSE
      <3>1. pc[a] \in {"join", "unlink", "quit_join"}
        BY <2>8 DEF Closed, Unlink, QuitClosed, At
      <3>2. a = MainThread
        BY <2>0, <3>1, OneHolder DEF Holding, Unloading, Quitting
      <3> QED
        BY <2>0, <3>1, <3>2
    <2>9. CASE Ended
      BY <2>0, <2>9 DEF Ended
    <2> QED
      BY <1>1, <2>2, <2>3, <2>4, <2>5, <2>6, <2>7, <2>8, <2>9, Cases DEF Changing
  <1>2. IInv /\ [Next]_vars => [At(MainThread, "walk") => Kept]_vars
    BY <1>1
  <1> QED
    BY <1>2, Invariance, PTL DEF Spec, NoAlteration

-----------------------------------------------------------------------------
(* One thread alone gives commands once input_loop() runs. *)

(* There is one input_cli at most, and neither the command line nor the    *)
(* config file unloads or quits.                                           *)
OneCommander ==
  /\ \A a, b \in Clis : a = b
  /\ StartCommands \cap {"unload", "quit"} = {}

(* What an unload has found stays what it was until the unload is done.    *)
CommandInv ==
  status = "up" =>
    /\ pc[MainThread] \notin {"locate", "unload", "quit_lock", "exit"}
                               \cup Unloading \cup Quitting
    /\ \A a \in Clis :
         /\ pc[a] \in {"locate", "unload", "close"} /\ p[a] # NULL
              => node[p[a]] = "linked"
         /\ pc[a] \in {"unload"} \cup Unloading /\ p[a] # NULL
              => plugins # <<>> /\ i[a] = plugins[1]

UnloadInv == OneCommander => CommandInv /\ UnloadSafe

(* While it does not unlink, all of the list is linked. *)
LEMMA AllLinked ==
  ASSUME OneCommander, IInv, CommandInv, status = "up",
         NEW a \in Clis, pc[a] # "unlink", NEW k \in 1..Len(plugins)
  PROVE  node[plugins[k]] = "linked"
  <1>1. pc[MainThread] # "unlink"
    BY DEF CommandInv, Unloading
  <1>2. \A b \in Threads : pc[b] # "unlink"
    BY <1>1 DEF OneCommander, Threads
  <1> QED
    BY <1>2 DEF IInv, Sound, ListInv

LEMMA UnloadInit == Init => UnloadInv
  <1> SUFFICES ASSUME Init PROVE CommandInv /\ UnloadSafe
    BY DEF UnloadInv
  <1> QED
    BY DEF Init, CommandInv, UnloadSafe, Threads, Unloading, Quitting

(* None of the ways in which the program ends is a stale unload. *)
LEMMA UnloadEnds ==
  ASSUME OneCommander, IInv, CommandInv, UnloadSafe, Ends
  PROVE  UnloadSafe'
  <1>1. \A a \in Threads : a \in Clis \/ a = MainThread
    BY DEF Threads
  <1>2. ASSUME NEW a \in Threads, LocateFault(a) PROVE FALSE
    BY <1>1, <1>2 DEF LocateFault, At, CommandInv
  <1>3. ASSUME NEW a \in Threads, CloseFault(a) PROVE status' = "null_plugin"
    BY <1>1, <1>3 DEF CloseFault, Fault, At, CommandInv, Unloading
  <1>4. ASSUME NEW a \in Threads, UnlinkFault(a) PROVE status' = "own_code"
    <2>1. status = "up" /\ pc[a] = "unlink"
      BY <1>4 DEF UnlinkFault, At
    <2>2. p[a] \in Plugins /\ IsLinked(p[a])
      BY <2>1 DEF IInv, Sound, HoldInv
    <2>3. a \in Clis
      BY <1>1, <2>1 DEF CommandInv, Unloading
    <2>4. plugins # <<>> /\ i[a] = plugins[1]
      BY <2>1, <2>2, <2>3 DEF CommandInv, Unloading
    <2>5. First = i[a]
      BY <2>4 DEF First
    <2> QED
      BY <1>4, <2>2, <2>5 DEF UnlinkFault, Fault
  <1>5. ASSUME NEW a \in Threads, LoadFails(a) \/ Exit(a) PROVE status' = "exited"
    BY <1>5 DEF LoadFails, Exit
  <1>6. ASSUME NEW a \in Threads, ClosedFault(a) PROVE status' = "stale_command"
    BY <1>6 DEF ClosedFault, Fault
  <1>7. ASSUME NEW a \in Threads, RunFault(a) PROVE status' = "stale_command"
    BY <1>7 DEF RunFault, Fault
  <1>8. ASSUME StartUpFails \/ ExecuteFault PROVE status' \in {"exited", "stale_head"}
    BY <1>8 DEF StartUpFails, ExecuteFault, Fault
  <1> QED
    BY <1>2, <1>3, <1>4, <1>5, <1>6, <1>7, <1>8 DEF Ends, UnloadSafe

(* A step of the main thread: it may open or link a plugin meanwhile. *)
LEMMA UnloadMain ==
  ASSUME OneCommander, IInv, CommandInv, status = "up",
         \/ Local(MainThread) \/ Locking(MainThread) \/ Changing(MainThread)
         \/ MainStep
  PROVE  CommandInv'
  <1> DEFINE m == MainThread
             Mine == {"locate", "unload", "quit_lock", "exit"} \cup Unloading \cup Quitting
  <1>0. /\ pc[m] \notin Mine /\ m \in Threads /\ m \notin Clis
        /\ pc \in [Threads -> PcType] /\ p \in [Threads -> Plugins \cup {NULL}]
        /\ i \in [Threads -> Plugins \cup {NULL}] /\ node \in [Plugins -> Nodes]
        /\ Clis \subseteq Threads /\ plugins \in Seq(Plugins)
    BY DEF CommandInv, IInv, TypeOK, ThreadType, ListType, Threads, PcType, Nodes
  <1>1. ASSUME UNCHANGED <<plugins, node>>, pc'[m] \notin Mine,
               \A a \in Clis : pc'[a] = pc[a] /\ p'[a] = p[a] /\ i'[a] = i[a]
        PROVE  CommandInv'
    BY <1>0, <1>1 DEF CommandInv
  <1>2. CASE SetCommand(m) \/ PublishCommand(m)
    BY <1>0, <1>1, <1>2 DEF SetCommand, PublishCommand, Goto, locals, Unloading, Quitting
  <1>3. CASE StartUp \/ ExecuteRead \/ ExecuteLock \/ ExecuteEnd
    BY <1>0, <1>1, <1>3 DEF StartUp, ExecuteRead, ExecuteLock, ExecuteEnd, Goto, locals,
       Unloading, Quitting
  <1>4. CASE ExecutePlugin
    BY <1>0, <1>1, <1>4 DEF ExecutePlugin, Pass, Process, Drop, Goto, Unloading, Quitting
  <1>5. ASSUME NEW x \in Plugins, OpenPlugin(m, x) PROVE CommandInv'
    <2>1. /\ node[x] = "none" /\ node' = [node EXCEPT ![x] = "open"]
          /\ UNCHANGED <<plugins, i>> /\ p' = [p EXCEPT ![m] = x]
          /\ pc'[m] \notin Mine
          /\ \A a \in Clis : pc'[a] = pc[a] \/ pc'[a] = "prompt"
      BY <1>0, <1>5 DEF OpenPlugin, Unloading, Quitting
    <2>2. \A a \in Clis : p'[a] = p[a] /\ i'[a] = i[a]
      BY <1>0, <2>1
    <2>3. \A y \in Plugins : node[y] = "linked" => node'[y] = "linked"
      BY <1>0, <2>1
    <2>4. \A a \in Clis : p[a] \in Plugins \cup {NULL}
      BY <1>0
    <2> QED
      BY <2>1, <2>2, <2>3, <2>4 DEF CommandInv, Unloading
  <1>6. CASE Link(m)
    <2>1. p[m] \in Plugins
      BY <1>6 DEF Link, At, IInv, Sound, LoadInv, Loading, Threads
    <2>2. /\ plugins' = Append(plugins, p[m]) /\ node' = [node EXCEPT ![p[m]] = "linked"]
          /\ UNCHANGED i /\ p' = [p EXCEPT ![m] = NULL] /\ pc' = [pc EXCEPT ![m] = "prompt"]
      BY <1>6 DEF Link, Done, Goto
    <2>3. pc'[m] \notin Mine /\ \A a \in Clis : pc'[a] = pc[a] /\ p'[a] = p[a] /\ i'[a] = i[a]
      BY <1>0, <2>2 DEF Unloading, Quitting
    <2>4. \A y \in Plugins : node[y] = "linked" => node'[y] = "linked"
      BY <1>0, <2>2
    <2>5. plugins # <<>> => plugins' # <<>> /\ plugins'[1] = plugins[1]
      BY <1>0, <2>1, <2>2
    <2>6. \A a \in Clis : p[a] \in Plugins \cup {NULL}
      BY <1>0
    <2> QED
      BY <2>3, <2>4, <2>5, <2>6 DEF CommandInv
  <1>7. ASSUME \/ \E n \in Names : Locate(m, n)
               \/ Quit(m)
        PROVE  FALSE
    BY <1>7 DEF Locate, Quit, Command, OneCommander
  <1>8. ASSUME \/ LocateNext(m) \/ LocateFound(m) \/ Close(m) \/ QuitClose(m)
               \/ Locking(m) \/ Closed(m) \/ Unlink(m) \/ QuitClosed(m)
        PROVE  FALSE
    BY <1>0, <1>8 DEF LocateNext, LocateFound, Close, QuitClose, Locking, LockUnload,
       LockQuit, QuitUnlock, Closed, Unlink, QuitClosed, At, Unloading, Quitting
  <1>9. CASE Running(m)
    <2>1. TypeOK
      BY DEF IInv
    <2>2. UNCHANGED <<plugins, node, p, i>>
      BY <1>0, <1>9, <2>1, RunEffect
    <2>3. PICK loc \in {"run", "call", "prompt", "check"} : Goto(m, loc)
      BY <1>0, <1>9, <2>1, RunEffect
    <2>4. pc'[m] \notin Mine /\ \A a \in Clis : pc'[a] = pc[a]
      BY <1>0, <2>3 DEF Goto, Unloading, Quitting
    <2> QED
      BY <1>1, <2>2, <2>4
  <1> QED
    BY <1>2, <1>3, <1>4, <1>5, <1>6, <1>7, <1>8, <1>9 DEF Local, Changing, MainStep

(* A step of the input_cli that gives the commands. *)
LEMMA UnloadCli ==
  ASSUME OneCommander, IInv, CommandInv, status = "up", NEW c \in Clis,
         Local(c) \/ Locking(c) \/ Changing(c) \/ Check(c)
  PROVE  CommandInv'
  <1> DEFINE m == MainThread
  <1>0. /\ c \in Threads /\ m \in Threads /\ m # c
        /\ pc \in [Threads -> PcType] /\ p \in [Threads -> Plugins \cup {NULL}]
        /\ i \in [Threads -> Plugins \cup {NULL}] /\ plugins \in Seq(Plugins)
    BY DEF IInv, TypeOK, ThreadType, ListType, Threads, PcType
  <1>1. \A a \in Clis : a = c
    BY DEF OneCommander
  <1>2. pc[m] \notin {"locate", "unload", "quit_lock", "exit"} \cup Unloading \cup Quitting
    BY DEF CommandInv
  <1>3. ASSUME pc'[m] = pc[m], pc'[c] \notin {"locate", "unload"} \cup Unloading
        PROVE  CommandInv'
    BY <1>1, <1>2, <1>3 DEF CommandInv, Unloading
  <1>4. CASE SetCommand(c) \/ PublishCommand(c) \/ Quit(c) \/ QuitClose(c)
    BY <1>0, <1>3, <1>4 DEF SetCommand, PublishCommand, Quit, QuitClose, Goto, Unloading
  <1>5. CASE LockQuit(c) \/ QuitUnlock(c) \/ Link(c) \/ Unlink(c) \/ QuitClosed(c) \/ Check(c)
    BY <1>0, <1>3, <1>5 DEF LockQuit, QuitUnlock, Link, Unlink, QuitClosed, Check, Done,
       Goto, Unloading
  <1>6. ASSUME NEW x \in Plugins, OpenPlugin(c, x) PROVE CommandInv'
    <2>1. x # m
      OBVIOUS
    <2> QED
      BY <1>0, <1>3, <1>6, <2>1 DEF OpenPlugin, Unloading
  <1>7. ASSUME NEW n \in Names, Locate(c, n) PROVE CommandInv'
    <2>1. /\ pc[c] = "prompt" /\ pc' = [pc EXCEPT ![c] = "locate"]
          /\ p' = [p EXCEPT ![c] = First] /\ UNCHANGED <<plugins, node, i>>
      BY <1>7 DEF Locate, Command, At, Goto
    <2>2. First # NULL => node[First] = "linked"
      <3>1. First # NULL => 1 \in 1..Len(plugins) /\ First = plugins[1]
        BY <1>0 DEF First
      <3> QED
        BY <2>1, <3>1, AllLinked
    <2>3. /\ pc'[m] = pc[m] /\ pc'[c] = "locate" /\ p'[c] = First
      BY <1>0, <2>1
    <2> QED
      BY <1>1, <1>2, <2>1, <2>2, <2>3 DEF CommandInv, Unloading
  <1>8. CASE LocateNext(c)
    <2>1. /\ pc[c] = "locate" /\ UNCHANGED <<pc, plugins, node, i>>
          /\ p' = [p EXCEPT ![c] = NextPlugin(p[c])]
          /\ p[c] # NULL /\ node[p[c]] = "linked"
      BY <1>8 DEF LocateNext, At
    <2>2. p[c] \in Plugins /\ IsLinked(p[c])
      BY <1>0, <2>1 DEF IInv, Sound, ListInv
    <2>3. PICK k \in 1..Len(plugins) :
            NextPlugin(p[c]) = IF k < Len(plugins) THEN plugins[k + 1] ELSE NULL
      BY <2>2, Followed DEF IInv
    <2>4. NextPlugin(p[c]) # NULL => node[NextPlugin(p[c])] = "linked"
      <3>1. k < Len(plugins) => k + 1 \in 1..Len(plugins)
        BY <1>0
      <3> QED
        BY <2>1, <2>3, <3>1, AllLinked
    <2>5. p'[c] = NextPlugin(p[c])
      BY <1>0, <2>1
    <2> QED
      BY <1>1, <1>2, <2>1, <2>4, <2>5 DEF CommandInv, Unloading
  <1>9. CASE LocateFound(c)
    <2>1. /\ pc[c] = "locate" /\ pc' = [pc EXCEPT ![c] = "unload"]
          /\ i' = [i EXCEPT ![c] = First] /\ UNCHANGED <<plugins, node, p>>
          /\ p[c] # NULL => node[p[c]] = "linked"
      BY <1>9 DEF LocateFound, At, Goto
    <2>2. p[c] # NULL => IsLinked(p[c])
      BY <1>0, <2>1 DEF IInv, Sound, ListInv
    <2>3. p[c] # NULL => plugins # <<>> /\ First = plugins[1]
      BY <1>0, <2>2 DEF IsLinked, First
    <2>4. pc'[m] = pc[m] /\ pc'[c] = "unload" /\ i'[c] = First
      BY <1>0, <2>1
    <2> QED
      BY <1>1, <1>2, <2>1, <2>3, <2>4 DEF CommandInv
  <1>10. CASE LockUnload(c) \/ Close(c) \/ Closed(c)
    <2>1. /\ UNCHANGED <<plugins, p, i>> /\ pc'[m] = pc[m]
          /\ pc[c] \in {"unload", "close", "join"}
          /\ pc'[c] \in Unloading
          /\ pc'[c] = "close" => pc[c] = "unload" /\ UNCHANGED node
      BY <1>0, <1>10 DEF LockUnload, Close, Closed, At, Goto, locals, Unloading
    <2> QED
      BY <1>1, <1>2, <2>1 DEF CommandInv, Unloading
  <1>11. CASE Running(c)
    <2>1. TypeOK
      BY DEF IInv
    <2>2. PICK loc \in {"run", "call", "prompt", "check"} : Goto(c, loc)
      BY <1>0, <1>11, <2>1, RunEffect
    <2>3. pc'[m] = pc[m] /\ pc'[c] \notin {"locate", "unload"} \cup Unloading
      BY <1>0, <2>2 DEF Goto, Unloading
    <2> QED
      BY <1>3, <2>3
  <1> QED
    BY <1>4, <1>5, <1>6, <1>7, <1>8, <1>9, <1>10, <1>11 DEF Local, Locking, Changing

LEMMA UnloadStep == IInv /\ IInv' /\ UnloadInv /\ [Next]_vars => UnloadInv'
  <1> SUFFICES ASSUME IInv, OneCommander, CommandInv, UnloadSafe, [Next]_vars
               PROVE  CommandInv' /\ UnloadSafe'
    BY DEF UnloadInv
  <1>1. CASE UNCHANGED vars
    BY <1>1 DEF vars, locals, CommandInv, UnloadSafe
  <1>2. CASE Ends
    <2>1. status' # "up"
      BY <1>2, EndsEffect DEF EndEffect, Faults
    <2> QED
      BY <1>2, <2>1, UnloadEnds DEF CommandInv
  <1>3. ASSUME NEW a \in Threads, Local(a) \/ Locking(a) \/ Changing(a)
        PROVE  /\ status = "up" /\ status' = "up"
    BY <1>3, UpStep DEF IInv
  <1>4. ASSUME NEW a \in Threads, Local(a) \/ Locking(a) \/ Changing(a)
        PROVE  CommandInv' /\ UnloadSafe'
    <2>1. a = MainThread \/ a \in Clis
      BY DEF Threads
    <2> QED
      BY <1>3, <1>4, <2>1, UnloadMain, UnloadCli DEF UnloadSafe
  <1>5. ASSUME NEW a \in Clis, Check(a) PROVE CommandInv' /\ UnloadSafe'
    BY <1>5, UnloadCli DEF Check, At, UnloadSafe
  <1>6. CASE MainStep
    <2>1. status = "up" /\ status' = "up"
      BY <1>6 DEF MainStep, StartUp, ExecuteRead, ExecuteLock, ExecutePlugin, ExecuteEnd, At
    <2> QED
      BY <1>6, <2>1, UnloadMain DEF UnloadSafe
  <1>7. CASE Ended
    BY <1>1, <1>7 DEF Ended
  <1> QED
    BY <1>1, <1>2, <1>4, <1>5, <1>6, <1>7, Cases

(* If one input_cli alone unloads plugins, unload_plugin_by_name() never   *)
(* uses a node that is gone, although it locates the node and the head     *)
(* before it locks the mutex, and although the main thread goes on loading *)
(* plugins and executing them.                                             *)
THEOREM UnloadIsSafe == Spec => [](OneCommander => UnloadSafe)
  <1>1. UnloadInv => (OneCommander => UnloadSafe)
    BY DEF UnloadInv
  <1> QED
    BY <1>1, UnloadInit, UnloadStep, Invariance, PTL DEF Spec
=============================================================================
