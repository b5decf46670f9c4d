# io-monitor in TLA+

Specifications, model checks and proofs for io-monitor: a library that is
preloaded into applications and reports their C library calls, and
`mq_listener`, which receives the reports and hands them to plugins.

## The system

```
 application --> interposer --> record() --+--> send_msg_queue() --> SysV queue --> input_loop()
  (threads)      (generated)    (gates)    |                                          |  resolver
                                           +--> send_tcp_socket()                     v
                          command line, config file, input_cli --> commands --> plugin chain
```

| Component | State it keeps | Operations | What is hard about it |
| --- | --- | --- | --- |
| record gate (`io_monitor.c`, `record`) | pause, sample counter, sample window, failed connections | one decision per intercepted call | seven gates in a row, each with state; a clock that may go back; boundaries of counters and windows |
| message queue IPC (`send_msg_queue`, `c_mq_path`, `input_loop`) | key and id of the queue, retry counters; the kernel's queues | look up, send with retries, receive | a full queue, a removed queue or file, processes killed, listeners restarted, an undefined return value |
| TCP sender (`send_tcp_socket`) | `socket_fd`, failed connections | connect, write, close | its own calls are intercepted; one static for all threads |
| plugin chain (`plugin_chain.c`) | linked list, `plugin_mutex`, `plugin_paused` | load, unload, execute, unload all | several threads; pointers read before the mutex is locked |
| command table (`command_parser.c`) | linked list without a lock | set, free, run | changed by several threads; which command is removed |
| input_cli plugin | `kill_thread`, a thread | start, read lines, join | joined by a thread that holds the mutex |
| resolver (`resolver.cpp`) | mount points, descriptor to device | register, deregister, resolve | descriptors of all processes in one table, records lost or missing |
| interposer table and generator | none | what is passed to `record()` | a table of 140 lines against the documentation |
| filter_domains plugin | a bit mask | judge a record; `update-mask`, `print-mask` | consoles change and print the mask without a lock; bits that are no domain |
| output plugins | options | accept or refuse a record | mostly formatting and I/O; the escaping of tags in a fixed buffer for InfluxDB |

A process calls `record()` synchronously from every intercepted function; it
talks to the listener only through the message queue. Inside the listener the
main thread executes commands until the command line is used up and then only
`input_loop()`; each `input_cli` adds a thread that executes commands at any
time. The list of plugins is shared under `plugin_mutex`, the table of commands
is shared without a lock.

What makes each part correct: the gate reports what the sampling and pause
settings ask for and no more; the IPC never holds up the application, counts
truthfully and keeps the order of a process's records; the chain offers each
record to the loaded plugins, in order, and never uses an unloaded one; quit
ends the listener; a command belongs to a loaded plugin; a device named in a
record is the device of its file.

## Modules

| Module | What it is |
| --- | --- |
| `RecordGate` | `record()` of one single-threaded process |
| `IpcQueue` | processes, kernel queues and listener |
| `LossyFifo` | abstract specification: what the message queue promises |
| `PluginChain` | list, mutex, command table and threads of `mq_listener` |
| `PluginList` | abstract specification: what the list of plugins promises |
| `Resolver` | `resolver.cpp`, its use by `input_loop()`, and the processes whose descriptors it mirrors |
| `TcpSender` | `record()` and `send_tcp_socket()` with threads and with the interception of their own calls |
| `Export` | `filter_domains.c` followed by `output_influxdb.c`, with consoles |
| `MC...` | the small instances TLC checks |
| `..._proofs`, `PluginChain_steps` | theorems and their proofs |

### RecordGate

Its variables are the statics of `io_monitor.c` by name, and `env`, the
environment as read at start. A call is reduced to what the gates look at.
Every way out of `record()` is an action: `Ignore` (the dead peer, the standard
descriptors, the domain mask, "." and ".."), `StayPaused`, `SkipByCount`,
`SkipByTime`, `Report`. `gap`, `opened`, `latest`, `steady` and `last` are
history. `time(NULL)` returns any member of `Times`, so the clock may go back.
`MaxGap` bounds the unreported calls between two reports.

Frequency and duration of time-based sampling are what `atol()` yields, a long
up to `LONG_MAX`, which the code stores as an unsigned long: a negative setting
becomes a huge one, passes the test for being positive, and its sum with the
start of the window wraps (`% ULONG`). `WindowSound` and `WindowsApart` compare
with sums that do not wrap (`WindowEnd`, `NextStart`) and say what is left of them
where the code's do: a window whose end wraps holds only the call that opens it.

### IpcQueue and LossyFifo

A process starts a record (`UseQueue`, `FtokFails`, `MsgGetFails`,
`FindQueue`: the ways through the lookup), then `Sent`, `QueueFull` or
`QueueGone` is the outcome of one `msgsnd()`, and `TryAgain` or `Exhausted`
the end of a sleep. `Exhausted` picks the value that `send_msg_queue()`, which
has no return statement there, happens to return. `Receive` is one `msgrcv()`;
the listener then is in `execute_plugin_chain()` (`in_chain`) until `ChainReturns`.
The kernel (`MsgGet`) and the other programs (`RemoveFile`, `TouchFile`,
`RemoveQueue`, `Die`) are modelled from how the code and the test scripts use
them. A new key for a file that is removed and made again is modelled as
`current = NONE`.

`LossyFifo` says what all this amounts to: per process, records are offered,
accepted or given up, delivered oldest first, or lost together. `IpcQueue`
implements it with `inflight` being the records waiting in the queue the process
looked up and `pending` the processes inside the retry loop.

`QueueAdvances` is what a message that waits can count on: it is never overtaken,
and every `msgrcv()` brings it a place closer to the head.

Bounds: `MaxRecords`, `MaxQueues`, `QCap`.

### PluginChain and PluginList

The list is a sequence of instances; `node` says whether an instance is being
loaded (`open`), in use (`linked`), closed or freed. Threads keep their locals
`p`, `i`, `name` and, inside `set_command()`, `next_command`. Whatever happens
under `plugin_mutex` between two points another thread can see is one action:
`Link` locks, appends and unlocks; an unload is `LockUnload`, `Close`, `Closed`
(after the join), `Unlink`. What the code does without the mutex is split:
`Locate` and one `LocateNext` per node, `ExecuteRead` before `ExecuteLock`,
`SetCommand` before `PublishCommand`, and a line for a plugin's command is
`RunCommand`, one `RunNext` per command, `RunFound` and, when the call is over,
`RunEnd`. A line for `load-plugin`, `unload-plugin` or `quit` also walks the table
before it comes to the built-in command; that walk is modelled for the other lines
only.

Using something freed is undefined. The model then ends with `status` naming
what was used: `stale_head` (executing an unloaded plugin), `stale_node`,
`stale_unload`, `stale_unlink` (an unload that races another one),
`null_plugin` (unloading a name that is not loaded), `own_code` (an input_cli
that unloads itself), `stale_command` (a search comes to a freed command, or the
plugin is unloaded between the search and the end of the call), and `lost_node`
for the message "This is likely a bug".

`visited` and `met` are history of the record: the plugins it was offered to, and
those in the list when the head was read. `OfferedInOrder` speaks of the latter: a
record that reads an empty list passes a plugin that is linked before the lock.

A plugin's answers (accept, refuse, drop, still paused) are nondeterministic.
`StartCommands` says which commands the command line and the config file hold.

`PluginList` says what list and mutex amount to: a plugin is appended once, at
once; a plugin is taken out at once; a record is offered to the plugins from the
first on, and until that is over the list stands still; and all of it may end at
any time. `PluginChain` implements it: the list is `plugins`, and what a thread
does before and after its one change of the list is stuttering.

### Resolver

The tables `fs_mount_path_to_dev`, `root_fs_dev` and `fd_to_dev` keep their
names; `lines` is what is left of the output of `lsblk`. `CaptureLine` reads one
line of it: `parse_device_fields()` counts only the tokens `KEY="value"`, so that
a mount point with a blank makes a line of six fields, which is skipped.
`path_to_dev` takes the first match in the order of the map, as the code does.

`resolve_file` copies `DEVICE_LEN` characters of the name (`Cut`): `centos-root`
becomes `centos-roo`. The path in a record is the one the application passed.
`location` says where the file of each path is, so that a relative path, one with
`..` or one through a link leads somewhere else than its text says.

A thread's call is two steps, the work (`Fopen`, `OpenFile`, `Use`, `Close`,
`Fclose`, `Dup`, `Fork`) and the arrival of its report (`Receive`) or its loss
(`Lose`, by a gate or by the queue). `OpenFile` stands for every call that binds a
number and registers none: `open()` and `creat()`, which report an OPEN without a
descriptor, and `opendir()`, `socket()`, `openat()`, `pipe()`, `freopen()`. Each call
passes the descriptor and the path that `monitored_functions.data` and the
generator make of it: a call whose prototype and hook name no `fd` passes
`FD_NONE`. As the queue is FIFO and the listener reads one record after the other,
a send and its receipt are one step.

`track` is history. It says per descriptor number whether the reports still tell
what it is: `disturbed` once it was bound by another call than `fopen()`, its open
was lost, two processes had it at once or two threads were calling on it at once;
`left` once a close was not reported with it, which is so for every `fclose()`, a
lost record and the end of a process. An `fopen()` of the number, with nobody else
on it, makes it `sound` again (`Follow`): the listener recovers there.

`DeviceRight` and `NoStaleEntry` say what holds of the numbers that are followed,
whatever happens to other numbers and happened to this one before. Of the others
nothing is claimed: their records do carry wrong devices or none. `DeviceRight` also
asks for a plain path: one that is the place of its file, under at most one mount
point. For a relative path `path_to_dev` yields `root_fs_dev` wherever the file is;
with nested mount points the outer one wins, `/data` is taken for `/data2`, and the
empty mount point of a disk that is not mounted matches every path.

### TcpSender

`call[t]` are the arguments of a call to `record()` before its gates, `depth[t]`
the number of nested calls, `pc` and `sockfd` the place and the local of each.
`socket()`, `connect()`, both `write()` and `close()` are steps that end in a new
`call[t]`: the generated function calls `record()` after the work. The gates read
`failed_socket_connections` (`PeerAlive`, `PeerDead`) and then, in a step of its
own, `socket_fd` (`Ignore`, `Enter`). A call the gates let through is nested (`Enter`) until the stack is full (`Overflow`, which
ends the process). The kernel hands out the lowest free descriptor.

`socket_fd`, `failed_socket_connections` and the sample counter are statics that
all threads use without a lock. The counter is read (`Count`), written (`Bump`)
and compared (`SkipByCount`, `PassCount`) in separate steps, and the comparison
may use the register or the variable, as the compiler likes.

The comment in `record()`, "if we're asked to record any of our own work we just
ignore it", holds under the conditions of `OwnCallsIgnored` only: with SOCKETS
monitored, the report of `socket()` itself is reported, and so on without end;
with two threads, one overwrites the `socket_fd` of the other. Between the
`close()` of a sender and its reset of `socket_fd` another thread's file may get the
number, and calls on it are ignored (`mistaken`): the model has this window, and
`SocketFdCurrent` says that there is no other. `OwnSockets` holds all the same.

Bounds: `MaxDepth`, `MaxFd`, `MaxCount`.

### Export

A mask is the set of its bits. `update-mask` is `UpdateMask`, one `ParseToken` per
token and `SetMask`, which is the only step that touches the plugin's mask;
`print-mask` copies the mask (`PrintMask`) and goes through its bits
(`PrintBit`). Consoles do this while the listener's thread judges records
(`Drop`, `Accept`): commands do not take `plugin_mutex`.

`copy_escaped_tag_value()` is one step per character: `Skip`, `Put` or `Return`.
`last_ch`, which is not initialized, starts as any character. `is_all_whitespace`
is as written: it is false of every string that has a character. `Format` is
the `snprintf()`: the text before, between and behind the two strings is given
(`head`, `Middle`, `foot`), an empty string is shown as `Null`, and the line is cut at
`POST_LEN - 1` characters. A path may be longer than that (4096 against 1024): it is
then cut a second time, and s2 and the fields behind it are lost.
`asked`, `applied`, `shown` and `judged` are history.

`Renders` is the reference for a tag: which characters belong in it (`Kept`),
how much room they take, and where each of them must be. `TagSafe` speaks of the
two buffers; a line that is cut may end in a lone backslash. `TagFaithful` adds
where the two strings stand in what is sent, up to the cut.

## Runs

| Run | Question | Result |
| --- | --- | --- |
| `gate` | Does the gate report the right calls, for all pause and sampling settings together? | holds |
| `gate_resume` | Does a matching open always end the pause, as README.md says? | violated: not if FILE_OPEN_CLOSE is not monitored |
| `ipc` | Are the counters, the cost, the order and the rendezvous right, is nothing overtaken, and is it a lossy FIFO? | holds |
| `ipc_live` | Does every send return, and is every message read while the queue is refilled? | holds |
| `chain` | Are list, order of execution and mutual exclusion sound with three threads, and do they implement `PluginList`? Does an unlocked search find the right plugin? Is the mutex held for a bounded time? | holds |
| `chain_one` | With one input_cli: no stale unload, no deadlock, mutex always released, quit exits? | holds |
| `chain_stale` | Are only loaded plugins executed, as the comment on the mutex says? | violated: the head is read before the mutex is locked |
| `chain_commands` | Does unloading a plugin remove its command? | violated: the head of the table is removed |
| `chain_quit` | Does quit exit with two input_cli instances? | violated: join while holding the mutex |
| `resolver` | When does a record carry the device of its file, and what may stay in `fd_to_dev`? | holds |
| `tcp` | Do threads and nested reports over TCP mix up descriptors, leave `socket_fd` or the counter behind, or report the monitor's own calls? | holds |
| `export` | Is every record judged by one whole list, is every tag well formed, and what of it is sent? | holds |

Why the bounds are enough. `gate`: a frequency of 3 and six clock values make
every window open, close and reopen and let both orders of count and window
happen; a negative count, a duration longer than the frequency, and a negative
frequency and duration, whose sums wrap, are in the set. `ipc`: two processes compete for two slots, so that each meets a full queue
with its own and with the other's messages in it and runs through all five
tries; two queues are enough for a process and a listener that hold different
ones. `ipc_live`: two processes with two records each and a queue of two, so that
the place a read makes is refilled behind a message that still waits. `chain`: two input_cli threads, a filter and
the main thread, all commands from all of them, the two input_cli instances being
symmetric; deadlock is not checked there because the code does deadlock with two
of them (`chain_quit`). `chain_one`: an input_cli and two instances of a plugin
with a command while the main thread loads and executes. `resolver`: two threads,
in one process or in two, two numbers, an absolute path and a relative one to the
same file, whose device is not the one its text yields, a report of `lsblk` with a
line that is skipped and a mount point that is a mere prefix of the path's text, one
with a root, a device whose name is cut; two numbers let an undisturbed one live beside a disturbed one.
`tcp`: two threads, two levels of nesting, SOCKETS monitored or not, and a
standard input that may be closed so that a socket gets descriptor 0; deadlock is
not checked because a full stack ends the process and `MaxCount` stops the
counter. `export`: two consoles, lists with an unknown name and with ALL, two
domains in three bits, all strings up to two of five characters and longer ones
with repeated separators, in buffers of four and three characters, so that each
way out of the copying loop is taken at every fill of the buffer, and a post of
six, in which some lines fit, some are cut in s2 and some in s1.

Fairness. `ipc_live`: a process that is not killed takes its next step, asleep
or not, and a blocking `msgrcv()` returns when there is a message; nothing is
assumed of starts, stops and removals, nor of `execute_plugin_chain()`, which may
wait for the mutex for good (`chain_quit`): `MessagesRead` says what follows if it
keeps returning. `chain_one`: each thread that has a
command or a record takes its next step; nothing is assumed about input or
records, and no fairness of the mutex: `QuitExits` starts where quit has it.
`chain_quit` also assumes that users go on typing at every prompt, which only
makes the counterexample stronger.

## Proofs

The theorems hold for every value of the constants; TLC evaluates the
assumptions (`EnvsAssumption`, `CallsAssumption`, `TimesAssumption`,
`MaxGapAssumption`, `QCapAssumption`, `BoundsAssumption`, `PluginsAssumption` and
those of the other modules) on the instances. They ask for types only, and in
`Export` that the names of domains differ from each other and from ALL.

`RecordGate_proofs`: all invariants and the action property of `gate`. The
inductive invariant adds `CountInv`, which ties the counter to the calls since
the last report (equal when count-based sampling works alone, no larger
otherwise), and `WindowInv`, which says that the start of the window is a clock
value that has been read. `SampleSpacing` speaks of the latest report only; the
counter carries it from one report to the next. `ResumesWhenOpensPass` is the
other side of the run `gate_resume`: if matching opens pass the gates that come
before the pause (`OpensPass`), the first one ends it for good. It needs that no
connection fails during the pause (`PauseInv`), or the gate for the dead peer
would come before that open.

`IpcQueue_proofs`: all invariants of `ipc` and the refinement of `LossyFifo`.
The inductive invariant adds `LoopInv` (inside the loop the process has a queue,
and the tries counted fit the place), `IdInv` (identifiers are of created queues;
at most one while nothing was removed), `MessageInv` (messages wait in live
queues only, were made, and are older than what is being sent) and `CostInv`
(what the present record has cost so far, by the try it is at). For the
refinement, `WaitingIn` shows that the records of a process that wait anywhere
wait in the one queue it looked up, and one lemma per kind of step maps it to a
step of the channel. `SendIsBounded` and `NoOvertaking` (`QueueAdvances`) prove what
is safety in `SendReturns` and `MessagesRead`: the number of calls a send has left
falls with each of its own steps and with no one else's, and every receipt moves
each message of the queue up by one. What is left to fairness is that the process
and the listener run.

`LossyFifo_proofs`: the abstract channel delivers in order and once.

`PluginChain_proofs`: all safety properties of `chain`, for any number of plugins
and of `input_cli` threads. The inductive invariant holds while the program is
`up` and adds `LockInv` (a thread is where only the holder may be exactly when it
holds the mutex), `LoadInv` (an opened node belongs to one loading thread),
`ListInv` and `HoldInv` (what is in the list, and what a thread that unloads or
quits has in `p`), `ThreadInv` (no thread runs before its plugin is opened) and
`HeadInv`. `HeadInv` carries `OfferedInOrder` over the gap between the reading of
the head and the lock: the head that was read was in the list, so nobody will
append it, and while it is still linked nothing has been taken out before it.
`MetInv` adds that a record whose head was read as NULL met an empty list, so that
what it misses was linked later.
The steps are grouped by what they change (nothing but one thread, the mutex,
`p` of the walk, the list), and each group has one lemma.
`UnloadIsSafe` proves `UnloadSafe` under `OneCommander` (at most one `input_cli`,
and no `unload` or `quit` on the command line or in the config file), as in the run
`MCPluginChain_one.cfg`: `CommandInv` says that what the one commander has found
stays linked, and the head it has read stays the head, until its unload is done.

`PluginChain_steps`: the refinement of `PluginList`, the action properties of
`chain`, and the boundaries of the findings. `Effects` sorts every step by what it
does to list, nodes, mutex and record.
- `ListRefinement`: `Link` is the abstract load, `Unlink` and `QuitClosed` are the
  abstract unload. That `Unlinked` is the list in two pieces (`Cut`) and that
  nothing is taken out during execution are what the steps need.
- `HoldIsBounded`: `StepsLeft` falls with each step of the holder. It rests on
  `OfferedInOrder`, since the walk ends only because it follows the list.
  This is what is safety in `LockReleased` and `QuitExits`; that the join under the
  mutex returns is left to `chain_one`, where a lone `input_cli` joins itself.
- `SearchFindsFirst`: `LocateInv` says of the node that a search has come to that it
  was in the list, so nobody will append it, and that while it is linked the nodes
  before it have other names. Both are needed: a node that has left the list never
  comes back to another place, so that the walk cannot jump over one.
- `SoloIsSafe` is the other side of `chain_stale`: with the main thread alone,
  what it found or read is still linked when it is used (`SoloInv`).
- `OneCommandIsLive` is the other side of `chain_commands`: the command of the only
  plugin that has one enters an empty table, once, so that neither the unlocked
  `set_command()` nor the removal of the head can hit another one (`TableInv`). It
  speaks of the table only: a thread that has found the command may still see the
  plugin unloaded before the call.

`Resolver_proofs`: all properties of `resolver`, for any processes, threads,
descriptors, paths and outputs of `lsblk`, under the conditions the two properties
state. The inductive invariant follows a number from its `fopen()` to its close as
long as it is not disturbed: `AloneInv` (one
process and one reporting thread at most), `OpenInv` (a report of an open on the
way is of the file the number is open on), `TableInv` (otherwise the table has
its device), `UseInv` (a use or close on the way finds the device of the file it
was made on) and `OutInv`. That the map has a first match at all is a lemma of
its own (`FirstMatch`: of two prefixes of a path the shorter comes first), and
for a plain path the first match is the innermost mount point.

`TcpSender_proofs`: all properties of `tcp`, for any number of threads, any depth
of nesting and any descriptors. The invariant adds `CallInv` and `BoundInv` (what
a frame that has called out looks like), `Named` (a `socket_fd` that is set is the
number of a sender at work: with `OwnSockets` it is then an open socket until that
sender closes it), `CountInv` (a counter at its limit was put there by a thread
that is about to reset it), `NestInv` (without SOCKETS only a connected sender
nests, through its own descriptor), `FailInv` and `AloneInv` (without overlap
`socket_fd` is the descriptor of the only sender).

`Export_proofs`: all properties of `export`, for any number of consoles, any lists,
and strings and buffers of any length. `ParseInv` says that what is parsed and what
is left make up the list, `PrintInv` the same of what is printed. For `TagFaithful`
the loop of `copy_escaped_tag_value()` has an invariant (`Loop`): the buffer holds
the characters kept so far, each at the place that the room before it gives. The
lemmas `UptoNext` and `UptoMono` say how the room grows with each character, and
`LoopEnd` that every way out of the loop leaves out only what does not fit.
`LineHolds` and `SentHolds` give the places of the two strings in the line and in
what the cut leaves of it.

Only model-checked: the liveness properties `SendReturns`, `MessagesRead`,
`LockReleased` and `QuitExits` (fairness and `ENABLED` are out of the prover's
reach; their safety parts are proved as said above).

## Not modelled

The contents and the formatting of records, `output_csv`, `output_table`, the
formatting of the other fields that `output_influxdb` puts into its line (quotes in
values are not escaped) and the freeing of its constant URL when it is closed,
the code generator, the exec helpers, the splitting of command lines, and HTTP
detection (not built) hold no shared state or are I/O. `list-plugins` and `help`
change nothing; that `list_plugins()` walks the list without the mutex is listed
as a hazard. The fields of `lsblk` that fill their buffers are left whole. `send_tcp_socket()` returns an uninitialized value when
it gets no socket: the counters it feeds (`failed_ipc_sends`, `ipc_records`) are
modelled for the message queue only. The pause and time-based sampling with
threads are not modelled.

## Plan

1. `RecordGate`, `IpcQueue` with `LossyFifo`, `PluginChain`, and their proofs: done.
2. `Resolver`, `TcpSender`, `Export`, and their proofs: done.
3. `PluginList`, the proofs about the steps of `PluginChain`, and the theorems that
   say where the claims refuted by `gate_resume`, `chain_stale` and
   `chain_commands` do hold: done.
4. `list_plugins()`, and the splitting of lines and arguments.
