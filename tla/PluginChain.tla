----------------------------- MODULE PluginChain -----------------------------
(***************************************************************************)
(* The plugins of mq_listener: the list of mq_listener/plugin_chain.c and  *)
(* its mutex, the table of commands of mq_listener/command_parser.c, the   *)
(* commands of mq_listener/mq_listener.c that change them, and the threads *)
(* that plugins/input_cli.c starts.                                        *)
(*                                                                         *)
(* A member of Plugins is one instance of a plugin, that is one node of    *)
(* the list; it is loaded at most once.  The thread of an input_cli        *)
(* instance has the name of the instance.  The main thread runs the        *)
(* commands of its command line and of the config file, and after that     *)
(* input_loop().  The list is a sequence; a thread holds pointers to nodes *)
(* of it.  The built-in commands, which lie below the plugins' in the      *)
(* table and never leave it, are left out.                                 *)
(*                                                                         *)
(* Where a thread uses what has been freed, or calls into a library that   *)
(* has been closed, everything may happen.  The model ends there: status   *)
(* says what was used.                                                     *)
(***************************************************************************)
EXTENDS Naturals, Sequences

CONSTANTS
  Plugins,       \* plugin instances
  Clis,          \* the instances of input_cli among them
  WithCommand,   \* the ones that export plugin_command
  Names,         \* library paths, aliases and other words a user may type
  library,       \* the library path of each instance,
  alias,         \* and its alias: its library path when it has none
  StartCommands, \* the commands on the command line and in the config file
  MainThread,    \* the main thread
  NULL           \* no node, no thread

ASSUME PluginsAssumption ==
  /\ Clis \subseteq Plugins
  /\ WithCommand \subseteq Plugins
  /\ library \in [Plugins -> Names]
  /\ alias \in [Plugins -> Names]
  /\ MainThread \notin Plugins
  /\ NULL \notin Plugins \cup {MainThread}

Threads == Clis \cup {MainThread}

VARIABLES
  status,      \* "up", "exited" or the use of something freed
  plugins,     \* the list
  node,        \* what has become of each instance
  paused,      \* plugin_paused of each instance
  plugin_mutex, \* the thread that holds it, or NULL
  s_commands,  \* the instances whose command is in the table, newest first
  freed,       \* the instances whose command has been freed
  kill_thread, \* of each input_cli
  pc,          \* what each thread does
  p,           \* its local p: the node it looks at, loads or unloads
  i,           \* its local i: the head it starts to unlink from
  name,        \* the name it looks for
  next_command, \* a table as it was read: set_command() puts its command on
                \* top of it, run_command() has it left to search
  \* History of the current record.
  visited,     \* the nodes it has been offered to
  met          \* the nodes that were in the list when it met the list's head

table == <<s_commands, freed, next_command>>
locals == <<p, i, name>>
vars == <<status, plugins, node, paused, plugin_mutex, table, kill_thread, pc,
          locals, visited, met>>

Faults == {"null_plugin", "stale_node", "stale_head", "stale_unload",
           "stale_unlink", "lost_node", "own_code", "stale_command"}

Init ==
  /\ status = "up"
  /\ plugins = <<>>
  /\ node = [x \in Plugins |-> "none"]
  /\ paused = [x \in Plugins |-> FALSE]
  /\ plugin_mutex = NULL
  /\ s_commands = <<>>
  /\ freed = {}
  /\ kill_thread = [x \in Clis |-> FALSE]
  /\ pc = [a \in Threads |-> IF a = MainThread THEN "prompt" ELSE "none"]
  /\ p = [a \in Threads |-> NULL]
  /\ i = [a \in Threads |-> NULL]
  /\ name = [a \in Threads |-> NULL]
  /\ next_command = [a \in Threads |-> <<>>]
  /\ visited = <<>>
  /\ met = {}

-----------------------------------------------------------------------------
First == IF plugins = <<>> THEN NULL ELSE plugins[1]

(* next_plugin of a node that is in the list. *)
NextPlugin(x) ==
  LET k == CHOOSE k \in 1..Len(plugins) : plugins[k] = x
  IN  IF k < Len(plugins) THEN plugins[k + 1] ELSE NULL

\* Mutant: the slot is emptied and the gap not closed.
UnlinkedGap(x) == [j \in 1..Len(plugins) |-> IF plugins[j] = x THEN NULL ELSE plugins[j]]

(* The list without node x, which is in it. *)
Unlinked(x) ==
  LET k == CHOOSE k \in 1..Len(plugins) : plugins[k] = x
  IN  [j \in 1..(Len(plugins) - 1) |-> IF j < k THEN plugins[j] ELSE plugins[j + 1]]

IsLinked(x) == \E k \in 1..Len(plugins) : plugins[k] = x

Called(x, n) == n \in {library[x], alias[x]}

At(a, loc) == status = "up" /\ pc[a] = loc

Goto(a, loc) == pc' = [pc EXCEPT ![a] = loc]

(* The command has been executed: the main thread goes on with the next    *)
(* one, an input_cli looks at its kill_thread first.                       *)
Done(a) == Goto(a, IF a = MainThread THEN "prompt" ELSE "check")

(* Thread a uses something that is gone. *)
Fault(a, cause) ==
  /\ status' = cause
  /\ Goto(a, "none")
  /\ UNCHANGED <<plugins, node, paused, plugin_mutex, table, kill_thread, locals,
                 visited, met>>

Command(a, c) ==
  /\ At(a, "prompt")
  /\ a = MainThread => c \in StartCommands

-----------------------------------------------------------------------------
(* load-plugin: load_plugin(). *)

(* The library is opened and its open_plugin() called, which starts the    *)
(* thread of an input_cli before the new node is in the list, *)
OpenPlugin(a, x) ==
  /\ Command(a, "load")
  /\ node[x] = "none"
  /\ node' = [node EXCEPT ![x] = "open"]
  /\ p' = [p EXCEPT ![a] = x]
  /\ pc' = [b \in Threads |->
              CASE b = a -> IF x \in WithCommand THEN "set_command" ELSE "link"
                [] b = x -> "prompt"
                [] OTHER -> pc[b]]
  /\ UNCHANGED <<status, plugins, paused, plugin_mutex, table, kill_thread, i, name,
                 visited, met>>

(* or there is no such plugin, or it does not open: exit(1). *)
LoadFails(a) ==
  /\ Command(a, "load")
  /\ status' = "exited"
  /\ UNCHANGED <<plugins, node, paused, plugin_mutex, table, kill_thread, pc, locals,
                 visited, met>>

(* set_command() reads the head of the table, *)
SetCommand(a) ==
  /\ At(a, "set_command")
  /\ next_command' = [next_command EXCEPT ![a] = s_commands]
  /\ Goto(a, "publish")
  /\ UNCHANGED <<status, plugins, node, paused, plugin_mutex, s_commands, freed,
                 kill_thread, locals, visited, met>>

(* and makes the new command, which points to it, the head. *)
PublishCommand(a) ==
  /\ At(a, "publish")
  /\ s_commands' = <<p[a]>> \o next_command[a]
  /\ next_command' = [next_command EXCEPT ![a] = <<>>]
  /\ Goto(a, "link")
  /\ UNCHANGED <<status, plugins, node, paused, plugin_mutex, freed, kill_thread,
                 locals, visited, met>>

\* Mutant: the node is appended without the mutex.
LinkUnlocked(a) ==
  /\ At(a, "link")
  /\ plugins' = Append(plugins, p[a])
  /\ node' = [node EXCEPT ![p[a]] = "linked"]
  /\ p' = [p EXCEPT ![a] = NULL]
  /\ Done(a)
  /\ UNCHANGED <<status, paused, plugin_mutex, table, kill_thread, i, name, visited, met>>

\* Mutant: the node becomes the head of the list.
LinkFront(a) ==
  /\ At(a, "link")
  /\ plugin_mutex = NULL
  /\ plugins' = <<p[a]>> \o plugins
  /\ node' = [node EXCEPT ![p[a]] = "linked"]
  /\ p' = [p EXCEPT ![a] = NULL]
  /\ Done(a)
  /\ UNCHANGED <<status, paused, plugin_mutex, table, kill_thread, i, name, visited, met>>

(* The node is appended while the mutex is held. *)
Link(a) ==
  /\ At(a, "link")
  /\ plugin_mutex = NULL
  /\ plugins' = Append(plugins, p[a])
  /\ node' = [node EXCEPT ![p[a]] = "linked"]
  /\ p' = [p EXCEPT ![a] = NULL]
  /\ Done(a)
  /\ UNCHANGED <<status, paused, plugin_mutex, table, kill_thread, i, name, visited, met>>

-----------------------------------------------------------------------------
(* unload-plugin: unload_plugin_by_name(). *)

(* locate_plugin_by_name() walks the list without the mutex. *)
Locate(a, n) ==
  /\ Command(a, "unload")
  /\ name' = [name EXCEPT ![a] = n]
  /\ p' = [p EXCEPT ![a] = First]
  /\ Goto(a, "locate")
  /\ UNCHANGED <<status, plugins, node, paused, plugin_mutex, table, kill_thread, i,
                 visited, met>>

LocateNext(a) ==
  /\ At(a, "locate")
  /\ p[a] # NULL /\ node[p[a]] = "linked"
  /\ ~Called(p[a], name[a])
  /\ p' = [p EXCEPT ![a] = NextPlugin(p[a])]
  /\ UNCHANGED <<status, plugins, node, paused, plugin_mutex, table, kill_thread, pc,
                 i, name, visited, met>>

LocateFound(a) ==
  /\ At(a, "locate")
  /\ p[a] # NULL => node[p[a]] = "linked" /\ Called(p[a], name[a])
  /\ i' = [i EXCEPT ![a] = First]
  /\ name' = [name EXCEPT ![a] = NULL]
  /\ Goto(a, "unload")
  /\ UNCHANGED <<status, plugins, node, paused, plugin_mutex, table, kill_thread, p,
                 visited, met>>

LocateFault(a) ==
  /\ At(a, "locate")
  /\ p[a] # NULL /\ node[p[a]] # "linked"
  /\ Fault(a, "stale_node")

\* Mutant: the mutex is not waited for.
LockUnloadAnyway(a) ==
  /\ At(a, "unload")
  /\ plugin_mutex' = a
  /\ Goto(a, "close")
  /\ UNCHANGED <<status, plugins, node, paused, table, kill_thread, locals, visited, met>>

(* With the mutex, unload_plugin() calls close_plugin(), *)
LockUnload(a) ==
  /\ At(a, "unload")
  /\ plugin_mutex = NULL
  /\ plugin_mutex' = a
  /\ Goto(a, "close")
  /\ UNCHANGED <<status, plugins, node, paused, table, kill_thread, locals, visited, met>>

CloseFault(a) ==
  /\ At(a, "close")
  /\ p[a] # NULL => node[p[a]] # "linked"
  /\ Fault(a, IF p[a] = NULL THEN "null_plugin" ELSE "stale_unload")

(* that of an input_cli tells its thread to end. *)
StopThread(x) ==
  kill_thread' = [y \in Clis |-> IF y = x THEN TRUE ELSE kill_thread[y]]

Close(a) ==
  /\ At(a, "close")
  /\ p[a] # NULL /\ node[p[a]] = "linked"
  /\ StopThread(p[a])
  /\ Goto(a, "join")
  /\ UNCHANGED <<status, plugins, node, paused, plugin_mutex, table, locals, visited, met>>

(* pthread_join() returns: at once when a thread joins itself. *)
Joined(a, x) == x \in Clis \ {a} => pc[x] = "done"

Hits(n) == {k \in 1..Len(s_commands) : Called(s_commands[k], n)}

(* free_command(): if the name is found anywhere in the table, the HEAD of *)
(* the table is removed (the test for the head is an assignment).          *)
FreeCommand(n) ==
  /\ IF Hits(n) = {}
     THEN UNCHANGED <<s_commands, freed>>
     ELSE /\ s_commands' = Tail(s_commands)
          /\ freed' = freed \cup {s_commands[1]}
  /\ UNCHANGED next_command

(* A walk through the table in search of n comes across a freed command. *)
StaleTable(n) ==
  \E k \in 1..Len(s_commands) :
    /\ s_commands[k] \in freed
    /\ \A j \in Hits(n) : k <= j

(* unload_plugin() goes on: free_command(), dlclose() and free(). *)
Closed(a) ==
  /\ At(a, "join")
  /\ Joined(a, p[a])
  /\ ~StaleTable(library[p[a]])
  /\ FreeCommand(library[p[a]])
  /\ node' = [node EXCEPT ![p[a]] = "closed"]
  /\ Goto(a, "unlink")
  /\ UNCHANGED <<status, plugins, paused, plugin_mutex, kill_thread, locals, visited, met>>

ClosedFault(a) ==
  /\ pc[a] \in {"join", "quit_join"} /\ status = "up"
  /\ Joined(a, p[a])
  /\ StaleTable(library[p[a]])
  /\ Fault(a, "stale_command")

\* Mutant: only the head is unlinked.
UnlinkHeadOnly(a) ==
  /\ At(a, "unlink")
  /\ p[a] # a
  /\ IsLinked(p[a])
  /\ First \in {p[a], i[a]}
  /\ plugins' = IF First = p[a] THEN Tail(plugins) ELSE plugins
  /\ node' = [node EXCEPT ![p[a]] = "freed"]
  /\ plugin_mutex' = NULL
  /\ p' = [p EXCEPT ![a] = NULL]
  /\ i' = [i EXCEPT ![a] = NULL]
  /\ Done(a)
  /\ UNCHANGED <<status, paused, table, kill_thread, name, visited, met>>

(* The node is unlinked and freed and the mutex released, *)
Unlink(a) ==
  /\ At(a, "unlink")
  /\ p[a] # a
  /\ IsLinked(p[a])
  /\ First \in {p[a], i[a]}
  /\ plugins' = Unlinked(p[a])
  /\ node' = [node EXCEPT ![p[a]] = "freed"]
  /\ plugin_mutex' = NULL
  /\ p' = [p EXCEPT ![a] = NULL]
  /\ i' = [i EXCEPT ![a] = NULL]
  /\ Done(a)
  /\ UNCHANGED <<status, paused, table, kill_thread, name, visited, met>>

(* unless the thread has freed its own state and closed its own library,   *)
(* the node it starts from is not the head any more, or the node is not in *)
(* the list ("This is likely a bug").                                      *)
UnlinkFault(a) ==
  /\ At(a, "unlink")
  /\ p[a] # a /\ IsLinked(p[a]) => First \notin {p[a], i[a]}
  /\ Fault(a, IF p[a] = a THEN "own_code"
              ELSE IF IsLinked(p[a]) THEN "stale_unlink" ELSE "lost_node")

-----------------------------------------------------------------------------
(* quit: unload_all_plugins() and exit(1). *)

Quit(a) ==
  /\ Command(a, "quit")
  /\ Goto(a, "quit_lock")
  /\ UNCHANGED <<status, plugins, node, paused, plugin_mutex, table, kill_thread,
                 locals, visited, met>>

LockQuit(a) ==
  /\ At(a, "quit_lock")
  /\ plugin_mutex = NULL
  /\ plugin_mutex' = a
  /\ Goto(a, "quit")
  /\ UNCHANGED <<status, plugins, node, paused, table, kill_thread, locals, visited, met>>

QuitClose(a) ==
  /\ At(a, "quit")
  /\ plugins # <<>>
  /\ p' = [p EXCEPT ![a] = First]
  /\ StopThread(First)
  /\ Goto(a, "quit_join")
  /\ UNCHANGED <<status, plugins, node, paused, plugin_mutex, table, i, name, visited, met>>

\* Mutant: the loop does not advance.
QuitClosedAgain(a) ==
  /\ At(a, "quit_join")
  /\ Joined(a, p[a])
  /\ ~StaleTable(library[p[a]])
  /\ FreeCommand(library[p[a]])
  /\ node' = [node EXCEPT ![p[a]] = "closed"]
  /\ p' = [p EXCEPT ![a] = NULL]
  /\ Goto(a, "quit")
  /\ UNCHANGED <<status, plugins, paused, plugin_mutex, kill_thread, i, name, visited, met>>

QuitClosed(a) ==
  /\ At(a, "quit_join")
  /\ Joined(a, p[a])
  /\ ~StaleTable(library[p[a]])
  /\ FreeCommand(library[p[a]])
  /\ node' = [node EXCEPT ![p[a]] = "closed"]
  /\ plugins' = Tail(plugins)
  /\ p' = [p EXCEPT ![a] = NULL]
  /\ Goto(a, "quit")
  /\ UNCHANGED <<status, paused, plugin_mutex, kill_thread, i, name, visited, met>>

QuitUnlock(a) ==
  /\ At(a, "quit")
  /\ plugins = <<>>
  /\ plugin_mutex' = NULL
  /\ Goto(a, "exit")
  /\ UNCHANGED <<status, plugins, node, paused, table, kill_thread, locals, visited, met>>

Exit(a) ==
  /\ At(a, "exit")
  /\ status' = "exited"
  /\ UNCHANGED <<plugins, node, paused, plugin_mutex, table, kill_thread, pc, locals,
                 visited, met>>

-----------------------------------------------------------------------------
(* Any other line: run_command() searches the table, without a lock, for a *)
(* plugin that has a command of that name.  The commands it has left are   *)
(* the ones that were below its head: a command's next_command never       *)
(* changes.                                                                *)
RunCommand(a, n) ==
  /\ Command(a, "other")
  /\ name' = [name EXCEPT ![a] = n]
  /\ next_command' = [next_command EXCEPT ![a] = s_commands]
  /\ Goto(a, "run")
  /\ UNCHANGED <<status, plugins, node, paused, plugin_mutex, s_commands, freed,
                 kill_thread, p, i, visited, met>>

(* The command the search has come to, and whether it is still there. *)
p_command(a) == next_command[a][1]

AtCommand(a) == next_command[a] # <<>> /\ p_command(a) \notin freed

RunNext(a) ==
  /\ At(a, "run")
  /\ AtCommand(a) /\ ~Called(p_command(a), name[a])
  /\ next_command' = [next_command EXCEPT ![a] = Tail(@)]
  /\ UNCHANGED <<status, plugins, node, paused, plugin_mutex, s_commands, freed,
                 kill_thread, pc, locals, visited, met>>

(* The command is found and called with the state of its plugin, *)
RunFound(a) ==
  /\ At(a, "run")
  /\ AtCommand(a) /\ Called(p_command(a), name[a])
  /\ Goto(a, "call")
  /\ UNCHANGED <<status, plugins, node, paused, plugin_mutex, table, kill_thread,
                 locals, visited, met>>

Loaded(x) == node[x] \in {"open", "linked"}

(* and returns, or no plugin has it: the line is about a built-in command  *)
(* that changes nothing here, or about none.                               *)
RunEnd(a) ==
  /\ \/ At(a, "run") /\ next_command[a] = <<>>
     \/ At(a, "call") /\ Loaded(p_command(a))
  /\ name' = [name EXCEPT ![a] = NULL]
  /\ next_command' = [next_command EXCEPT ![a] = <<>>]
  /\ Done(a)
  /\ UNCHANGED <<status, plugins, node, paused, plugin_mutex, s_commands, freed,
                 kill_thread, p, i, visited, met>>

(* The search comes across a freed command, or the one it has found is     *)
(* freed before it is called, or the plugin is closed before the call is   *)
(* over: the thread that unloads does not wait for it.                     *)
RunFault(a) ==
  /\ At(a, "run") \/ At(a, "call")
  /\ next_command[a] # <<>>
  /\ \/ p_command(a) \in freed
     \/ At(a, "call") /\ ~Loaded(p_command(a))
  /\ Fault(a, "stale_command")

(* thread_loop() of an input_cli looks at kill_thread. *)
Check(a) ==
  /\ At(a, "check")
  /\ Goto(a, IF kill_thread[a] THEN "done" ELSE "prompt")
  /\ UNCHANGED <<status, plugins, node, paused, plugin_mutex, table, kill_thread,
                 locals, visited, met>>

-----------------------------------------------------------------------------
(* The main thread: parse_args() returns 0 or not, and input_loop() calls  *)
(* execute_plugin_chain() for each record.                                 *)

StartUp ==
  /\ At(MainThread, "prompt")
  /\ Goto(MainThread, "msgrcv")
  /\ UNCHANGED <<status, plugins, node, paused, plugin_mutex, table, kill_thread,
                 locals, visited, met>>

StartUpFails ==
  /\ At(MainThread, "prompt")
  /\ status' = "exited"
  /\ UNCHANGED <<plugins, node, paused, plugin_mutex, table, kill_thread, pc, locals,
                 visited, met>>

(* The head of the list is read before the mutex is locked. *)
ExecuteRead ==
  /\ At(MainThread, "msgrcv")
  /\ p' = [p EXCEPT ![MainThread] = First]
  /\ met' = {x \in Plugins : IsLinked(x)}
  /\ Goto(MainThread, "execute")
  /\ UNCHANGED <<status, plugins, node, paused, plugin_mutex, table, kill_thread, i,
                 name, visited>>

\* Mutant: the chain is executed without the mutex.
ExecuteUnlocked ==
  /\ At(MainThread, "execute")
  /\ Goto(MainThread, "walk")
  /\ UNCHANGED <<status, plugins, node, paused, plugin_mutex, table, kill_thread,
                 locals, visited, met>>

ExecuteLock ==
  /\ At(MainThread, "execute")
  /\ plugin_mutex = NULL
  /\ plugin_mutex' = MainThread
  /\ Goto(MainThread, "walk")
  /\ UNCHANGED <<status, plugins, node, paused, table, kill_thread, locals, visited, met>>

ExecuteFault ==
  LET x == p[MainThread] IN
  /\ At(MainThread, "walk")
  /\ x # NULL /\ node[x] # "linked"
  /\ Fault(MainThread, "stale_head")

(* The plugin at hand stays paused, and the record passes it by, *)
Pass(x) ==
  /\ paused[x]
  /\ p' = [p EXCEPT ![MainThread] = NextPlugin(x)]
  /\ visited' = Append(visited, x)
  /\ UNCHANGED <<paused, plugin_mutex, pc, met>>

(* or it takes the record, or refuses it and is paused for the next ones, *)
Process(x) ==
  /\ \E refuse \in BOOLEAN : paused' = [paused EXCEPT ![x] = refuse]
  /\ p' = [p EXCEPT ![MainThread] = NextPlugin(x)]
  /\ visited' = Append(visited, x)
  /\ UNCHANGED <<plugin_mutex, pc, met>>

\* Mutant: the early return keeps the mutex.
DropLocked(x) ==
  /\ paused' = [paused EXCEPT ![x] = FALSE]
  /\ p' = [p EXCEPT ![MainThread] = NULL]
  /\ visited' = <<>>
  /\ met' = {}
  /\ Goto(MainThread, "msgrcv")
  /\ UNCHANGED plugin_mutex

(* or drops it, and the plugins behind it do not get it. *)
Drop(x) ==
  /\ paused' = [paused EXCEPT ![x] = FALSE]
  /\ p' = [p EXCEPT ![MainThread] = NULL]
  /\ plugin_mutex' = NULL
  /\ visited' = <<>>
  /\ met' = {}
  /\ Goto(MainThread, "msgrcv")

ExecutePlugin ==
  LET x == p[MainThread] IN
  /\ At(MainThread, "walk")
  /\ x # NULL /\ node[x] = "linked"
  /\ Pass(x) \/ Process(x) \/ Drop(x)
  /\ UNCHANGED <<status, plugins, node, table, kill_thread, i, name>>

ExecuteEnd ==
  /\ At(MainThread, "walk")
  /\ p[MainThread] = NULL
  /\ plugin_mutex' = NULL
  /\ visited' = <<>>
  /\ met' = {}
  /\ Goto(MainThread, "msgrcv")
  /\ UNCHANGED <<status, plugins, node, paused, table, kill_thread, locals>>

-----------------------------------------------------------------------------
(* What a thread does by itself once it has a command or a record. *)
Work(a) ==
  \/ SetCommand(a)
  \/ PublishCommand(a)
  \/ Link(a)
  \/ LocateNext(a)
  \/ LocateFound(a)
  \/ LocateFault(a)
  \/ LockUnload(a)
  \/ Close(a)
  \/ CloseFault(a)
  \/ Closed(a)
  \/ ClosedFault(a)
  \/ Unlink(a)
  \/ UnlinkFault(a)
  \/ LockQuit(a)
  \/ QuitClose(a)
  \/ QuitClosed(a)
  \/ QuitUnlock(a)
  \/ Exit(a)
  \/ RunNext(a)
  \/ RunFound(a)
  \/ RunEnd(a)
  \/ RunFault(a)

(* A line is read from the command line, the config file or stdin. *)
Line(a) ==
  \/ \E x \in Plugins : OpenPlugin(a, x)
  \/ LoadFails(a)
  \/ \E n \in Names : Locate(a, n)
  \/ Quit(a)
  \/ \E n \in Names : RunCommand(a, n)

Execute ==
  \/ ExecuteLock
  \/ ExecuteFault
  \/ ExecutePlugin
  \/ ExecuteEnd

(* The process is gone, or what it does is undefined. *)
Ended == status # "up" /\ UNCHANGED vars

Next ==
  \/ \E a \in Threads : Work(a) \/ Line(a)
  \/ \E a \in Clis : Check(a)
  \/ StartUp
  \/ StartUpFails
  \/ ExecuteRead
  \/ Execute
  \/ Ended

Spec == Init /\ [][Next]_vars

(* Threads keep running.  Nothing is assumed about records and lines. *)
FairSpec ==
  /\ Spec
  /\ \A a \in Threads : WF_vars(Work(a))
  /\ \A a \in Clis : WF_vars(Check(a))
  /\ WF_vars(Execute)

(* The user of every input_cli goes on typing as well. *)
TypingSpec == FairSpec /\ \A a \in Clis : WF_vars(Line(a))

-----------------------------------------------------------------------------
Commandless == {"none", "prompt", "check", "done", "quit_lock", "exit", "msgrcv"}
Loading == {"set_command", "publish", "link"}
Unloading == {"close", "join", "unlink"}
Quitting == {"quit", "quit_join"}
Holding == Unloading \cup Quitting \cup {"walk"}

ListType ==
  /\ status \in {"up", "exited"} \cup Faults
  /\ plugins \in Seq(Plugins)
  /\ node \in [Plugins -> {"none", "open", "linked", "closed", "freed"}]
  /\ paused \in [Plugins -> BOOLEAN]
  /\ plugin_mutex \in Threads \cup {NULL}

TableType ==
  /\ s_commands \in Seq(Plugins)
  /\ freed \subseteq Plugins
  /\ next_command \in [Threads -> Seq(Plugins)]

ThreadType ==
  /\ kill_thread \in [Clis -> BOOLEAN]
  /\ pc \in [Threads -> Commandless \cup Loading \cup Holding
                          \cup {"locate", "unload", "execute", "run", "call"}]
  /\ p \in [Threads -> Plugins \cup {NULL}]
  /\ i \in [Threads -> Plugins \cup {NULL}]
  /\ name \in [Threads -> Names \cup {NULL}]
  /\ visited \in Seq(Plugins)
  /\ met \subseteq Plugins

(* The list, the table of commands and the variables of the threads keep   *)
(* their types.                                                            *)
TypeOK == ListType /\ TableType /\ ThreadType

(* Whatever the threads do at the same time, no node is in the list twice, *)
(* and the loaded plugins are the nodes of the list: a plugin that has     *)
(* been opened is in the list or on its way into it by exactly one         *)
(* thread, and a closed one is only in the list while the thread that      *)
(* closed it holds the mutex to unlink it.                                 *)
ChainSound ==
  status = "up" =>
    /\ \A j, k \in 1..Len(plugins) : plugins[j] = plugins[k] => j = k
    /\ \A x \in Plugins :
         /\ node[x] = "linked" => IsLinked(x)
         /\ node[x] = "open" =>
              \E a \in Threads :
                /\ pc[a] \in Loading /\ p[a] = x
                /\ \A b \in Threads : pc[b] \in Loading /\ p[b] = x => b = a
         /\ IsLinked(x) =>
              \/ node[x] = "linked"
              \/ /\ node[x] = "closed"
                 /\ \E a \in Threads :
                      plugin_mutex = a /\ pc[a] = "unlink" /\ p[a] = x

(* A record is offered to the plugins in the order in which they were      *)
(* loaded and to none of them twice, although the head is read before the  *)
(* mutex is locked: a head that is still loaded then is still the head.    *)
(* A record that is not dropped has been offered to every plugin that was  *)
(* in the list when the head was read and is still loaded: what it misses, *)
(* with a head that was NULL, are plugins that were linked after that.     *)
OfferedInOrder ==
  At(MainThread, "walk") =>
    LET x == p[MainThread]
        n == Len(visited)
    IN  /\ n <= Len(plugins)
        /\ \A k \in 1..n : visited[k] = plugins[k]
        /\ n > 0 => x = IF n < Len(plugins) THEN plugins[n + 1] ELSE NULL
        /\ n = 0 /\ x # NULL /\ node[x] = "linked" => x = First
        /\ x = NULL => \A y \in met : node[y] = "linked" =>
                                      \E k \in 1..n : visited[k] = y

(* The list does not change while plugins are executed, and no plugin of   *)
(* it is closed: what plugin_mutex is for.                                 *)
NoAlteration ==
  [][At(MainThread, "walk") =>
       /\ plugins' = plugins
       /\ \A x \in Plugins : node[x] = "linked" => node'[x] = "linked"]_vars

(* A thread that has closed a plugin finds its node in the list: the       *)
(* message "This is likely a bug" of unload_plugin_by_name() is never      *)
(* printed.                                                                *)
NeverLost == status # "lost_node"

(* While only one thread unloads plugins, it never comes across a node     *)
(* that is gone, although it locates the node before it locks the mutex.   *)
UnloadSafe == status \notin {"stale_node", "stale_unload", "stale_unlink"}

(* locate_plugin_by_name() walks the list without the mutex, while other   *)
(* threads append to it and unlink from it.  All the same, what it finds   *)
(* is the first plugin of that name, and when it runs off the end of the   *)
(* list, no plugin of the list has that name.                              *)
FindsFirst ==
  [][\A a \in Threads : At(a, "locate") /\ p[a] # NULL =>
       /\ pc'[a] = "unload" =>
            \A j, k \in 1..Len(plugins) :
              plugins[k] = p[a] /\ j < k => ~Called(plugins[j], name[a])
       /\ p'[a] = NULL =>
            \A k \in 1..Len(plugins) : ~Called(plugins[k], name[a])]_vars

(* How many steps, at most, the holder of the mutex is from its release. *)
StepsLeft(a) ==
  CASE pc[a] = "close" -> 3
    [] pc[a] = "join" -> 2
    [] pc[a] = "unlink" -> 1
    [] pc[a] = "quit" -> 2 * Len(plugins) + 1
    [] pc[a] = "quit_join" -> 2 * Len(plugins)
    [] pc[a] = "walk" -> Len(plugins) - Len(visited) + 1
    [] OTHER -> 0

(* Every step of the thread that holds plugin_mutex brings it closer to    *)
(* its release, in each of the loops that run under it, and no step of     *)
(* another thread takes the mutex away or sets the holder back.  So it is  *)
(* held for a bounded number of the holder's steps.                        *)
HoldShrinks ==
  [][\A a \in Threads : status = "up" /\ plugin_mutex = a =>
       /\ StepsLeft(a) > 0
       /\ \/ status' # "up"
          \/ plugin_mutex' = NULL
          \/ /\ plugin_mutex' = a
             /\ IF pc'[a] = pc[a] /\ p'[a] = p[a]
                THEN StepsLeft(a)' = StepsLeft(a)
                ELSE StepsLeft(a)' < StepsLeft(a)]_vars

(* The mutex is not held forever: neither records nor commands wait for a  *)
(* thread that waits itself.                                               *)
LockReleased == plugin_mutex # NULL ~> plugin_mutex = NULL \/ status # "up"

(* quit ends mq_listener once it has locked the list.  A fault that ends   *)
(* the program before counts as well: what is ruled out is that it hangs.  *)
QuitExits == \A a \in Threads : pc[a] \in Quitting ~> status # "up"

(* execute_plugin_chain() only calls into plugins that are loaded. *)
ExecutesLoaded == status # "stale_head"

(* The command of a plugin that has been unloaded is not in the table. *)
CommandsLive == \A k \in 1..Len(s_commands) : node[s_commands[k]] # "freed"

-----------------------------------------------------------------------------
List == INSTANCE PluginList WITH
  alive <- status = "up",
  chain <- plugins,
  used <- {x \in Plugins : node[x] \in {"linked", "closed", "freed"}},
  offered <- visited

(* The list, its mutex and the steps of all threads implement the list of  *)
(* plugins that is changed at once and stands still for every record.      *)
IsPluginList == List!LSpec
=============================================================================
