-------------------------- MODULE PluginChain_steps --------------------------
(***************************************************************************)
(* Proofs about the steps of PluginChain, for any set of plugins, threads  *)
(* and names: the list of plugins implements PluginList, the mutex is held *)
(* for a bounded number of steps, a search in the list finds the first     *)
(* plugin of its name; and where what the code's comments say of the mutex *)
(* and of the commands does hold.                                          *)
(***************************************************************************)
EXTENDS PluginChain_proofs

(* The two pieces that a list falls into without its k-th element. *)
LEMMA Before ==
  ASSUME NEW S, NEW s \in Seq(S), NEW k \in 1..Len(s)
  PROVE  /\ SubSeq(s, 1, k - 1) \in Seq(S) /\ Len(SubSeq(s, 1, k - 1)) = k - 1
         /\ \A j \in 1..(k - 1) : SubSeq(s, 1, k - 1)[j] = s[j]
  OBVIOUS

LEMMA Behind ==
  ASSUME NEW S, NEW s \in Seq(S), NEW k \in 1..Len(s)
  PROVE  /\ SubSeq(s, k + 1, Len(s)) \in Seq(S)
         /\ Len(SubSeq(s, k + 1, Len(s))) = Len(s) - k
         /\ \A j \in 1..(Len(s) - k) : SubSeq(s, k + 1, Len(s))[j] = s[k + j]
  OBVIOUS

(* Two lists put together, element by element. *)
LEMMA Joining ==
  ASSUME NEW S, NEW u \in Seq(S), NEW v \in Seq(S), NEW t \in Seq(S),
         Len(t) = Len(u) + Len(v),
         \A j \in 1..Len(u) : t[j] = u[j],
         \A j \in 1..Len(v) : t[Len(u) + j] = v[j]
  PROVE  t = u \o v
  <1>1. /\ u \o v \in Seq(S) /\ Len(u \o v) = Len(u) + Len(v)
        /\ \A j \in 1..(Len(u) + Len(v)) :
             (u \o v)[j] = IF j <= Len(u) THEN u[j] ELSE v[j - Len(u)]
    OBVIOUS
  <1>2. ASSUME NEW j \in 1..Len(t) PROVE t[j] = (u \o v)[j]
    <2>1. Len(u) \in Nat /\ Len(v) \in Nat
      OBVIOUS
    <2>2. CASE j <= Len(u)
      BY <1>1, <2>1, <2>2
    <2>3. CASE ~(j <= Len(u))
      <3>1. j - Len(u) \in 1..Len(v) /\ Len(u) + (j - Len(u)) = j
        BY <2>1, <2>3
      <3> QED
        BY <1>1, <2>1, <2>3, <3>1
    <2> QED
      BY <2>2, <2>3
  <1> QED
    BY <1>1, <1>2

(* A list without its k-th element, element by element and in two pieces. *)
LEMMA Cut ==
  ASSUME NEW S, NEW s \in Seq(S), NEW t \in Seq(S), NEW k \in 1..Len(s),
         Len(t) = Len(s) - 1,
         \A j \in 1..Len(t) : t[j] = IF j < k THEN s[j] ELSE s[j + 1]
  PROVE  t = SubSeq(s, 1, k - 1) \o SubSeq(s, k + 1, Len(s))
  <1>1. PICK u \in Seq(S) : u = SubSeq(s, 1, k - 1)
    BY Before
  <1>2. PICK v \in Seq(S) : v = SubSeq(s, k + 1, Len(s))
    BY Behind
  <1>3. Len(u) = k - 1 /\ \A j \in 1..(k - 1) : u[j] = s[j]
    BY <1>1, Before
  <1>4. Len(v) = Len(s) - k /\ \A j \in 1..(Len(s) - k) : v[j] = s[k + j]
    BY <1>2, Behind
  <1>5. Len(t) = Len(u) + Len(v)
    BY <1>3, <1>4
  <1>6. \A j \in 1..Len(u) : t[j] = u[j]
    BY <1>3
  <1>7. ASSUME NEW j \in 1..Len(v) PROVE t[Len(u) + j] = v[j]
    <2>1. Len(u) + j \in 1..Len(t) /\ ~(Len(u) + j < k) /\ Len(u) + j + 1 = k + j
      BY <1>3, <1>4
    <2> QED
      BY <1>4, <2>1
  <1>8. t = u \o v
    BY <1>5, <1>6, <1>7, Joining
  <1> QED
    BY <1>1, <1>2, <1>8

-----------------------------------------------------------------------------
USE PluginsAssumption

(* What a step does to the list, the nodes, the mutex and the record. *)
LEMMA Effects ==
  ASSUME IInv, Next
  PROVE  \/ EndEffect
         \/ UNCHANGED vars
         \/ /\ status = "up"
            /\ \/ \E a \in Threads : Calm(a) \/ Locks(a) \/ Changing(a)
               \/ ExecutePlugin /\ (Pass(p[MainThread]) \/ Process(p[MainThread]))
  <1>1. CASE Ends
    BY <1>1, EndsEffect
  <1>2. CASE Ended
    BY <1>2 DEF Ended
  <1>3. ASSUME NEW a \in Threads, Local(a) \/ Locking(a) \/ Changing(a)
        PROVE  status = "up"
    BY <1>3, UpStep DEF IInv
  <1>4. ASSUME NEW a \in Threads, Local(a) \/ Locking(a) \/ Changing(a)
        PROVE  status = "up" /\ (Calm(a) \/ Locks(a) \/ Changing(a))
    BY <1>3, <1>4, CalmMoves, LockMoves
  <1>5. ASSUME NEW a \in Clis, Check(a)
        PROVE  status = "up" /\ a \in Threads /\ Calm(a)
    BY <1>5, CalmMoves DEF Check, At, Threads
  <1>6. CASE MainStep
    <2>1. status = "up" /\ MainThread \in Threads
      BY <1>6 DEF MainStep, StartUp, ExecuteRead, ExecuteLock, ExecutePlugin,
                  ExecuteEnd, At, Threads
    <2>2. CASE ExecutePlugin
      <3>1. Pass(p[MainThread]) \/ Process(p[MainThread]) \/ Drop(p[MainThread])
        BY <2>2 DEF ExecutePlugin
      <3>2. Drop(p[MainThread]) => Locks(MainThread)
        BY <2>1, <2>2, LockMoves
      <3> QED
        BY <2>1, <2>2, <3>1, <3>2
    <2>3. CASE StartUp \/ ExecuteRead
      BY <2>1, <2>3, CalmMoves
    <2>4. CASE ExecuteLock \/ ExecuteEnd
      BY <2>1, <2>4, LockMoves
    <2> QED
      BY <1>6, <2>2, <2>3, <2>4 DEF MainStep
  <1> QED
    BY <1>1, <1>2, <1>4, <1>5, <1>6, Cases

(* A plugin to which the record is offered, and the one that follows. *)
LEMMA Offering ==
  ASSUME IInv, status = "up", ExecutePlugin,
         Pass(p[MainThread]) \/ Process(p[MainThread])
  PROVE  /\ Len(visited) \in Nat /\ Len(visited) < Len(plugins)
         /\ p[MainThread] = plugins[Len(visited) + 1]
         /\ visited' = Append(visited, p[MainThread])
         /\ p'[MainThread] # p[MainThread]
         /\ UNCHANGED <<status, plugins, node, plugin_mutex, pc>>
  <1> DEFINE x == p[MainThread]
             n == Len(visited)
  <1>0. /\ TypeOK /\ ListInv /\ InOrder /\ MainThread \in Threads
        /\ visited \in Seq(Plugins) /\ p \in [Threads -> Plugins \cup {NULL}]
    BY DEF IInv, Sound, HeadInv, TypeOK, ThreadType, Threads
  <1>1. n \in Nat /\ Len(plugins) \in Nat
    BY <1>0, Typed
  <1>2. /\ At(MainThread, "walk") /\ x \in Plugins /\ node[x] = "linked"
        /\ p' = [p EXCEPT ![MainThread] = NextPlugin(x)]
        /\ visited' = Append(visited, x)
        /\ UNCHANGED <<status, plugins, node, plugin_mutex, pc>>
    BY <1>0 DEF ExecutePlugin, Pass, Process
  <1>3. IsLinked(x)
    BY <1>0, <1>2 DEF ListInv
  <1>4. PICK k \in 1..Len(plugins) :
          /\ plugins[k] = x
          /\ NextPlugin(x) = IF k < Len(plugins) THEN plugins[k + 1] ELSE NULL
    BY <1>0, <1>3, Followed
  <1>5. n < Len(plugins) /\ x = plugins[n + 1]
    <2>1. CASE n > 0
      BY <1>0, <1>1, <1>2, <2>1 DEF InOrder
    <2>2. CASE n = 0
      <3>1. x = First
        BY <1>0, <1>2, <2>2 DEF InOrder
      <3> QED
        BY <1>1, <1>2, <1>4, <2>2, <3>1 DEF First
    <2> QED
      BY <1>1, <2>1, <2>2
  <1>6. NextPlugin(x) # x
    <2>1. CASE k < Len(plugins)
      <3>1. k + 1 \in 1..Len(plugins) /\ k + 1 # k
        BY <1>1, <2>1
      <3> QED
        BY <1>0, <1>4, <2>1, <3>1 DEF ListInv
    <2> QED
      BY <1>2, <1>4, <2>1
  <1> QED
    BY <1>0, <1>1, <1>2, <1>5, <1>6

-----------------------------------------------------------------------------
(* The list implements PluginList. *)

LEMMA ListInit == Init => List!LInit
  BY DEF Init, List!LInit

Used == {x \in Plugins : node[x] \in {"linked", "closed", "freed"}}

LEMMA ListLoad ==
  ASSUME IInv, status = "up", NEW a \in Threads, Link(a)
  PROVE  List!LNext
  <1>0. /\ TypeOK /\ LoadInv /\ LockInv /\ HeadInv
        /\ node \in [Plugins -> Nodes] /\ MainThread \in Threads /\ NULL \notin Threads
    BY DEF IInv, Sound, TypeOK, ListType, Nodes, Threads
  <1>1. p[a] \in Plugins /\ node[p[a]] = "open"
    BY <1>0 DEF Link, At, LoadInv, Loading
  <1>2. visited = <<>>
    <2>1. pc[MainThread] # "walk"
      BY <1>0 DEF Link, LockInv, Holding
    <2> QED
      BY <1>0, <2>1 DEF HeadInv
  <1>3. /\ plugins' = Append(plugins, p[a]) /\ node' = [node EXCEPT ![p[a]] = "linked"]
        /\ UNCHANGED <<status, visited>>
    BY DEF Link
  <1>4. p[a] \notin Used /\ Used' = Used \cup {p[a]}
    BY <1>0, <1>1, <1>3 DEF Used
  <1>5. ASSUME NEW x \in Plugins, x = p[a] PROVE List!Load(x)
    BY <1>2, <1>3, <1>4, <1>5 DEF List!Load, Used
  <1>6. \E x \in Plugins : List!Load(x)
    BY <1>1, <1>5
  <1> QED
    BY <1>6 DEF List!LNext

(* Whoever unlinks a node takes one out of the list and keeps the order. *)
LEMMA TakenOut ==
  ASSUME IInv, status = "up", NEW a \in Threads, Unlink(a) \/ QuitClosed(a)
  PROVE  \E k \in 1..Len(plugins) :
           /\ plugins' \in Seq(Plugins) /\ Len(plugins') = Len(plugins) - 1
           /\ \A j \in 1..Len(plugins') :
                plugins'[j] = IF j < k THEN plugins[j] ELSE plugins[j + 1]
  <1>0. TypeOK /\ HoldInv
    BY DEF IInv, Sound
  <1>1. CASE Unlink(a)
    BY <1>0, <1>1, Removed DEF Unlink
  <1>2. CASE QuitClosed(a)
    <2>1. plugins # <<>> /\ plugins' = Tail(plugins)
      BY <1>0, <1>2 DEF QuitClosed, At, HoldInv
    <2>2. /\ 1 \in 1..Len(plugins)
          /\ plugins' \in Seq(Plugins) /\ Len(plugins') = Len(plugins) - 1
          /\ \A j \in 1..Len(plugins') : plugins'[j] = plugins[j + 1]
      BY <1>0, <2>1, Shortened, Typed
    <2>3. \A j \in 1..Len(plugins') : ~(j < 1)
      OBVIOUS
    <2> QED
      BY <2>2, <2>3
  <1> QED
    BY <1>1, <1>2

LEMMA ListUnload ==
  ASSUME IInv, status = "up", NEW a \in Threads, Unlink(a) \/ QuitClosed(a)
  PROVE  List!LNext
  <1>0. /\ TypeOK /\ HoldInv /\ LockInv /\ HeadInv /\ plugins \in Seq(Plugins)
        /\ node \in [Plugins -> Nodes] /\ MainThread \in Threads
    BY DEF IInv, Sound, TypeOK, ListType, Nodes, Threads
  <1>1. visited = <<>>
    <2>1. pc[a] \in Holding /\ pc[a] # "walk"
      BY DEF Unlink, QuitClosed, At, Holding, Unloading, Quitting
    <2>2. pc[MainThread] # "walk"
      BY <1>0, <2>1, OneHolder DEF Holding
    <2> QED
      BY <1>0, <2>2 DEF HeadInv
  <1>2. /\ p[a] \in Plugins /\ node[p[a]] \in {"linked", "closed"}
        /\ node' \in {[node EXCEPT ![p[a]] = "freed"], [node EXCEPT ![p[a]] = "closed"]}
        /\ UNCHANGED <<status, visited>>
    <2>1. CASE Unlink(a)
      BY <1>0, <2>1 DEF Unlink, At, HoldInv
    <2>2. CASE QuitClosed(a)
      BY <1>0, <2>2, HeadLinked DEF QuitClosed, At, HoldInv, IInv
    <2> QED
      BY <2>1, <2>2
  <1>3. Used' = Used
    BY <1>0, <1>2 DEF Used
  <1>4. PICK k \in 1..Len(plugins) :
          /\ plugins' \in Seq(Plugins) /\ Len(plugins') = Len(plugins) - 1
          /\ \A j \in 1..Len(plugins') :
               plugins'[j] = IF j < k THEN plugins[j] ELSE plugins[j + 1]
    BY TakenOut
  <1>5. plugins' = SubSeq(plugins, 1, k - 1) \o SubSeq(plugins, k + 1, Len(plugins))
    <2>1. plugins' \in Seq(Plugins) /\ Len(plugins') = Len(plugins) - 1
      BY <1>4
    <2>2. \A j \in 1..Len(plugins') :
            plugins'[j] = IF j < k THEN plugins[j] ELSE plugins[j + 1]
      BY <1>4
    <2> HIDE PluginsAssumption
    <2> QED
      BY <1>0, <2>1, <2>2, Cut
  <1>6. List!Unload(k)
    BY <1>1, <1>2, <1>3, <1>5 DEF List!Unload, Used
  <1> QED
    BY <1>6 DEF List!LNext

LEMMA ListStep == IInv /\ [Next]_vars => [List!LNext]_(List!lvars)
  <1> SUFFICES ASSUME IInv, [Next]_vars PROVE [List!LNext]_(List!lvars)
    OBVIOUS
  <1>0. TypeOK /\ node \in [Plugins -> Nodes] /\ MainThread \in Threads
    BY DEF IInv, TypeOK, ListType, Nodes, Threads
  <1>1. ASSUME UNCHANGED <<status, plugins, visited>>, Used' = Used
        PROVE  UNCHANGED List!lvars
    BY <1>1 DEF List!lvars, Used
  <1>2. ASSUME UNCHANGED node PROVE Used' = Used
    BY <1>2 DEF Used
  <1>3. CASE UNCHANGED vars
    BY <1>1, <1>2, <1>3 DEF vars
  <1>4. CASE EndEffect
    <2>1. /\ status = "up" /\ status' # "up" /\ UNCHANGED <<plugins, visited>>
          /\ Used' = Used
      BY <1>2, <1>4 DEF EndEffect, Faults
    <2>2. List!End
      BY <2>1 DEF List!End, Used
    <2> QED
      BY <2>2 DEF List!LNext
  <1>5. ASSUME NEW a \in Threads, status = "up", Calm(a) PROVE UNCHANGED List!lvars
    BY <1>1, <1>2, <1>5 DEF Calm
  <1>6. ASSUME NEW a \in Threads, status = "up", Locks(a)
        PROVE  [List!LNext]_(List!lvars)
    <2>1. UNCHANGED <<status, plugins>> /\ Used' = Used /\ visited' \in {visited, <<>>}
      BY <1>2, <1>6 DEF Locks, Takes, Gives
    <2>2. CASE visited' = visited
      BY <1>1, <2>1, <2>2
    <2>3. CASE visited' = <<>>
      <3>1. List!Finish
        BY <1>6, <2>1, <2>3 DEF List!Finish, Used
      <3> QED
        BY <3>1 DEF List!LNext
    <2> QED
      BY <2>1, <2>2, <2>3
  <1>7. ASSUME status = "up", ExecutePlugin,
               Pass(p[MainThread]) \/ Process(p[MainThread])
        PROVE  List!LNext
    <2>1. /\ Len(visited) < Len(plugins)
          /\ visited' = Append(visited, plugins[Len(visited) + 1])
          /\ UNCHANGED <<status, plugins, node>>
      BY <1>7, Offering
    <2>2. List!Offer
      BY <1>2, <1>7, <2>1 DEF List!Offer, Used
    <2> QED
      BY <2>2 DEF List!LNext
  <1>8. ASSUME NEW a \in Threads, status = "up", Changing(a)
        PROVE  [List!LNext]_(List!lvars)
    <2>1. ASSUME NEW x \in Plugins, OpenPlugin(a, x) PROVE UNCHANGED List!lvars
      <3>1. Used' = Used
        BY <1>0, <2>1 DEF OpenPlugin, Used
      <3> QED
        BY <1>1, <2>1, <3>1 DEF OpenPlugin
    <2>2. CASE Closed(a)
      <3>1. p[a] \in Plugins /\ node[p[a]] = "linked"
        BY <1>8, <2>2 DEF Closed, At, IInv, Sound, HoldInv
      <3>2. Used' = Used
        BY <1>0, <2>2, <3>1 DEF Closed, Used
      <3> QED
        BY <1>1, <2>2, <3>2 DEF Closed
    <2> QED
      BY <1>8, <2>1, <2>2, ListLoad, ListUnload DEF Changing
  <1> QED
    BY <1>3, <1>4, <1>5, <1>6, <1>7, <1>8, Effects

(* Threads that load, unload, quit and execute at any time, some of them   *)
(* with pointers read before the mutex was locked, leave a list that grows *)
(* at its end, loses one plugin at a time, and stands still while a record *)
(* is on its way through it.                                               *)
THEOREM ListRefinement == Spec => IsPluginList
  BY ListInit, ListStep, Invariance, PTL DEF Spec, IsPluginList, List!LSpec

-----------------------------------------------------------------------------
(* How long the mutex is held. *)

(* The steps that are left, by what the holder does. *)
LEMMA Left ==
  ASSUME NEW a
  PROVE  /\ pc[a] = "close" => StepsLeft(a) = 3
         /\ pc[a] = "join" => StepsLeft(a) = 2
         /\ pc[a] = "unlink" => StepsLeft(a) = 1
         /\ pc[a] = "quit" => StepsLeft(a) = 2 * Len(plugins) + 1
         /\ pc[a] = "quit_join" => StepsLeft(a) = 2 * Len(plugins)
         /\ pc[a] = "walk" => StepsLeft(a) = Len(plugins) - Len(visited) + 1
  BY DEF StepsLeft

LEMMA LeftNext ==
  ASSUME NEW a
  PROVE  /\ pc'[a] = "close" => StepsLeft(a)' = 3
         /\ pc'[a] = "join" => StepsLeft(a)' = 2
         /\ pc'[a] = "unlink" => StepsLeft(a)' = 1
         /\ pc'[a] = "quit" => StepsLeft(a)' = 2 * Len(plugins') + 1
         /\ pc'[a] = "quit_join" => StepsLeft(a)' = 2 * Len(plugins')
         /\ pc'[a] = "walk" => StepsLeft(a)' = Len(plugins') - Len(visited') + 1
  BY DEF StepsLeft

(* What HoldShrinks asks of a step. *)
Shrinks(a) ==
  \/ status' # "up"
  \/ plugin_mutex' = NULL
  \/ /\ plugin_mutex' = a
     /\ IF pc'[a] = pc[a] /\ p'[a] = p[a]
        THEN StepsLeft(a)' = StepsLeft(a)
        ELSE StepsLeft(a)' < StepsLeft(a)

(* The holder has something left to do. *)
LEMMA HolderAt ==
  ASSUME IInv, status = "up", NEW a \in Threads, plugin_mutex = a
  PROVE  /\ pc[a] \in Holding
         /\ pc[a] = "walk" => a = MainThread
         /\ StepsLeft(a) > 0
  <1>0. /\ LockInv /\ HoldInv /\ InOrder /\ Len(plugins) \in Nat
        /\ plugins # <<>> => Len(plugins) # 0
        /\ Len(visited) \in Nat
    BY Typed DEF IInv, Sound, HeadInv, TypeOK, ThreadType
  <1>1. pc[a] \in Holding /\ (pc[a] = "walk" => a = MainThread)
    BY <1>0 DEF LockInv
  <1>2. pc[a] \in {"close", "join", "unlink", "quit", "quit_join", "walk"}
    BY <1>1 DEF Holding, Unloading, Quitting
  <1>3. pc[a] = "walk" => Len(visited) <= Len(plugins)
    BY <1>0, <1>1 DEF InOrder, At
  <1>4. pc[a] = "quit_join" => Len(plugins) > 0
    BY <1>0 DEF HoldInv
  <1>5. StepsLeft(a) > 0
    BY <1>0, <1>2, <1>3, <1>4, Left
  <1> QED
    BY <1>1, <1>5

LEMMA HoldStep ==
  ASSUME IInv, Next, status = "up", NEW a \in Threads, plugin_mutex = a
  PROVE  Shrinks(a)
  <1>0. /\ TypeOK /\ LockInv /\ ThreadInv /\ HoldInv
        /\ pc \in [Threads -> PcType] /\ p \in [Threads -> Plugins \cup {NULL}]
        /\ Len(plugins) \in Nat /\ NULL \notin Threads
        /\ pc[a] \in Holding /\ (pc[a] = "walk" => a = MainThread)
    <2>1. TypeOK /\ LockInv /\ ThreadInv /\ HoldInv
      BY DEF IInv, Sound
    <2>2. pc \in [Threads -> PcType] /\ p \in [Threads -> Plugins \cup {NULL}]
      BY <2>1 DEF TypeOK, ThreadType, PcType
    <2>3. Len(plugins) \in Nat /\ NULL \notin Threads
      BY <2>1, Typed DEF Threads
    <2> QED
      BY <2>1, <2>2, <2>3, HolderAt
  <1>1. ASSUME UNCHANGED <<plugins, visited, plugin_mutex>>, pc'[a] = pc[a],
               p'[a] = p[a]
        PROVE  Shrinks(a)
    BY <1>1 DEF Shrinks, StepsLeft
  <1>2. CASE EndEffect
    BY <1>2 DEF EndEffect, Faults, Shrinks
  <1>3. CASE UNCHANGED vars
    BY <1>1, <1>3 DEF vars, locals
  <1>4. ASSUME NEW b \in Threads, Calm(b) PROVE Shrinks(a)
    <2>1. CASE b # a
      BY <1>1, <1>4, <2>1 DEF Calm, Moves
    <2>2. CASE b = a
      <3>1. UNCHANGED <<plugins, plugin_mutex>> /\ Transition(a)
        BY <1>4, <2>2 DEF Calm
      <3>2. \/ pc[a] = "close" /\ pc'[a] = "join"
            \/ pc[a] = "quit" /\ pc'[a] = "quit_join"
        BY <1>0, <3>1 DEF Transition, Holding, Unloading, Quitting, Loading, Free
      <3>3. StepsLeft(a)' < StepsLeft(a) /\ pc'[a] # pc[a]
        BY <1>0, <3>1, <3>2, Left, LeftNext
      <3> QED
        BY <3>1, <3>3 DEF Shrinks
    <2> QED
      BY <2>1, <2>2
  <1>5. ASSUME NEW b \in Threads, Locks(b) PROVE Shrinks(a)
    BY <1>0, <1>5 DEF Locks, Takes, Gives, Shrinks
  <1>6. ASSUME ExecutePlugin, Pass(p[MainThread]) \/ Process(p[MainThread])
        PROVE  Shrinks(a)
    <2>1. /\ Len(visited) \in Nat
          /\ p[MainThread] \in Plugins /\ visited' = Append(visited, p[MainThread])
          /\ p'[MainThread] # p[MainThread]
          /\ UNCHANGED <<plugins, plugin_mutex, pc>>
      BY <1>0, <1>6, Offering DEF ExecutePlugin, Threads
    <2>2. visited \in Seq(Plugins)
      BY <1>0 DEF TypeOK, ThreadType
    <2>3. Len(visited') = Len(visited) + 1
      BY <2>1, <2>2
    <2>4. a = MainThread /\ pc[a] = "walk" /\ pc'[a] = "walk"
      BY <1>0, <1>6, <2>1 DEF ExecutePlugin, At, LockInv, Holding, Threads
    <2>5. StepsLeft(a)' < StepsLeft(a)
      BY <1>0, <2>1, <2>3, <2>4, Left, LeftNext
    <2> QED
      BY <2>1, <2>4, <2>5 DEF Shrinks
  <1>7. ASSUME NEW b \in Threads, NEW x \in Plugins, OpenPlugin(b, x)
        PROVE  Shrinks(a)
    <2>1. /\ pc[b] = "prompt" /\ node[x] = "none" /\ p' = [p EXCEPT ![b] = x]
          /\ UNCHANGED <<plugins, visited, plugin_mutex>>
          /\ b # a /\ x # a => pc'[a] = pc[a]
      BY <1>7 DEF OpenPlugin, Command, At
    <2>2. b # a
      BY <1>0, <2>1 DEF Holding, Unloading, Quitting
    <2>3. x # a
      BY <1>0, <2>1 DEF ThreadInv, Threads, Holding, Unloading, Quitting
    <2> QED
      BY <1>0, <1>1, <2>1, <2>2, <2>3
  <1>8. ASSUME NEW b \in Threads, Link(b) PROVE FALSE
    BY <1>0, <1>8 DEF Link
  <1>9. ASSUME NEW b \in Threads, Closed(b) \/ Unlink(b) \/ QuitClosed(b)
        PROVE  Shrinks(a)
    <2>1. b = a
      BY <1>0, <1>9, OneHolder
      DEF Closed, Unlink, QuitClosed, At, Holding, Unloading, Quitting
    <2>2. CASE Unlink(b)
      BY <2>2 DEF Unlink, Shrinks
    <2>3. CASE Closed(b)
      <3>1. pc[a] = "join" /\ pc'[a] = "unlink" /\ UNCHANGED plugin_mutex
        BY <1>0, <2>1, <2>3 DEF Closed, At, Goto
      <3> QED
        BY <3>1, Left, LeftNext DEF Shrinks
    <2>4. CASE QuitClosed(b)
      <3>1. pc[a] = "quit_join" /\ pc'[a] = "quit" /\ UNCHANGED plugin_mutex
        BY <1>0, <2>1, <2>4 DEF QuitClosed, At, Goto
      <3>2. Len(plugins') = Len(plugins) - 1
        BY <1>0, <2>1, <2>4, <3>1, Shortened DEF QuitClosed, HoldInv
      <3>3. StepsLeft(a)' < StepsLeft(a)
        BY <1>0, <3>1, <3>2, Left, LeftNext
      <3> QED
        BY <3>1, <3>3 DEF Shrinks
    <2> QED
      BY <1>9, <2>2, <2>3, <2>4
  <1> QED
    BY <1>2, <1>3, <1>4, <1>5, <1>6, <1>7, <1>8, <1>9, Effects DEF Changing

(* Whoever holds plugin_mutex, to execute, to unload or to quit, with a    *)
(* list of any length, releases it after a bounded number of its own       *)
(* steps, and the other threads cannot add to that number.                 *)
THEOREM HoldIsBounded == Spec => HoldShrinks
  <1> DEFINE A == \A a \in Threads : status = "up" /\ plugin_mutex = a =>
                    /\ StepsLeft(a) > 0
                    /\ Shrinks(a)
  <1>1. IInv /\ [Next]_vars => [A]_vars
    BY HolderAt, HoldStep
  <1>2. Spec => [][A]_vars
    BY <1>1, Invariance, PTL DEF Spec
  <1> QED
    BY <1>2 DEF HoldShrinks, Shrinks

-----------------------------------------------------------------------------
(* What a search in the list finds. *)

(* The node thread b has come to was in the list, and if it still is, the  *)
(* nodes before it have other names.                                       *)
Passed(b) ==
  p[b] # NULL =>
    /\ node[p[b]] \notin {"none", "open"}
    /\ node[p[b]] = "linked" =>
         \A j, k \in 1..Len(plugins) :
           plugins[k] = p[b] /\ j < k => ~Called(plugins[j], name[b])

LocateInv == status = "up" => \A b \in Threads : pc[b] = "locate" => Passed(b)

Stays(b) == pc[b] = "locate" /\ p'[b] = p[b] /\ name'[b] = name[b]

(* A thread that searches has just started, has gone on by one node, or    *)
(* the step is another thread's.                                           *)
LEMMA Searching ==
  ASSUME IInv, Next, status = "up", status' = "up", NEW b \in Threads, pc'[b] = "locate"
  PROVE  Stays(b) \/ (\E n \in Names : Locate(b, n)) \/ LocateNext(b)
  <1>0. /\ TypeOK /\ LockInv /\ MainThread \in Threads
        /\ pc \in [Threads -> PcType] /\ p \in [Threads -> Plugins \cup {NULL}]
        /\ name \in [Threads -> Names \cup {NULL}]
    BY DEF IInv, Sound, TypeOK, ThreadType, PcType, Threads
  <1>1. CASE Ends
    BY <1>1, EndsEffect DEF EndEffect, Faults
  <1>2. CASE Ended
    BY <1>2 DEF Ended
  <1>3. ASSUME NEW a \in Threads, a # b, Local(a) \/ Locking(a) PROVE Stays(b)
    <2>1. pc'[b] = pc[b] /\ p'[b] = p[b]
      BY <1>3, CalmMoves, LockMoves DEF Calm, Locks, Moves
    <2>2. name'[b] = name[b]
      <3>1. CASE Running(a)
        BY <1>0, <1>3, <3>1, RunEffect
      <3>2. CASE ~Running(a)
        BY <1>0, <1>3, <3>2 DEF Local, Locking, SetCommand, PublishCommand, Locate,
           LocateNext, LocateFound, Close, Quit, QuitClose, LockUnload, LockQuit,
           QuitUnlock, locals
      <3> QED
        BY <3>1, <3>2
    <2> QED
      BY <2>1, <2>2 DEF Stays
  <1>4. CASE Local(b) \/ Locking(b)
    <2>1. CASE SetCommand(b) \/ PublishCommand(b) \/ LocateFound(b) \/ Close(b)
                 \/ Quit(b) \/ QuitClose(b) \/ Locking(b)
      BY <1>0, <2>1 DEF SetCommand, PublishCommand, LocateFound, Close, Quit, QuitClose,
         Locking, LockUnload, LockQuit, QuitUnlock, Goto
    <2>2. CASE Running(b)
      <3>1. PICK loc \in {"run", "call", "prompt", "check"} : Goto(b, loc)
        BY <1>0, <2>2, RunEffect
      <3> QED
        BY <1>0, <3>1 DEF Goto
    <2> QED
      BY <1>4, <2>1, <2>2 DEF Local
  <1>5. ASSUME NEW a \in Threads, NEW x \in Plugins, OpenPlugin(a, x) PROVE Stays(b)
    BY <1>0, <1>5 DEF OpenPlugin, Stays
  <1>6. ASSUME NEW a \in Threads,
               Link(a) \/ Closed(a) \/ Unlink(a) \/ QuitClosed(a)
        PROVE  Stays(b)
    <2>1. pc'[a] # "locate" /\ UNCHANGED name
      BY <1>0, <1>6 DEF Link, Closed, Unlink, QuitClosed, Done, Goto, locals
    <2>2. a # b /\ pc'[b] = pc[b] /\ p'[b] = p[b]
      BY <1>0, <1>6, <2>1 DEF Link, Closed, Unlink, QuitClosed, Done, Goto, locals
    <2> QED
      BY <2>1, <2>2 DEF Stays
  <1>7. ASSUME NEW a \in Clis, Check(a) PROVE Stays(b)
    BY <1>0, <1>7 DEF Check, Goto, Stays, locals, Threads
  <1>8. CASE StartUp \/ ExecuteRead \/ ExecuteLock \/ ExecuteEnd
    BY <1>0, <1>8 DEF StartUp, ExecuteRead, ExecuteLock, ExecuteEnd, Goto, Stays, locals
  <1>9. CASE ExecutePlugin
    <2>1. pc[MainThread] = "walk" /\ UNCHANGED name
      BY <1>9 DEF ExecutePlugin, At
    <2>2. pc'[MainThread] # "locate" /\ \A c \in Threads \ {MainThread} :
            pc'[c] = pc[c] /\ p'[c] = p[c]
      BY <1>0, <1>9, <2>1 DEF ExecutePlugin, Pass, Process, Drop, Goto
    <2> QED
      BY <2>1, <2>2 DEF Stays
  <1> QED
    BY <1>1, <1>2, <1>3, <1>4, <1>5, <1>6, <1>7, <1>8, <1>9, Cases DEF Changing, MainStep

(* A step that leaves the nodes before a linked node where they were, or   *)
(* takes some of them out, does not disturb a search.                      *)
LEMMA StaysPassed ==
  ASSUME NEW b \in Threads, Passed(b), Stays(b),
         p[b] # NULL /\ node[p[b]] \notin {"none", "open"} =>
           /\ node'[p[b]] \notin {"none", "open"}
           /\ node'[p[b]] = "linked" =>
                /\ node[p[b]] = "linked"
                /\ \A j, k \in 1..Len(plugins') :
                     plugins'[k] = p[b] /\ j < k =>
                       \E m, n \in 1..Len(plugins) :
                         plugins[n] = p[b] /\ m < n /\ plugins[m] = plugins'[j]
  PROVE  Passed(b)'
  <1>1. Passed(b)' <=>
          (p[b] # NULL =>
            /\ node'[p[b]] \notin {"none", "open"}
            /\ node'[p[b]] = "linked" =>
                 \A j, k \in 1..Len(plugins') :
                   plugins'[k] = p[b] /\ j < k => ~Called(plugins'[j], name[b]))
    BY DEF Passed, Stays, Called
  <1> QED
    BY <1>1 DEF Passed

LEMMA LocateStep ==
  ASSUME IInv, Next, status = "up", status' = "up", LocateInv,
         NEW b \in Threads, pc'[b] = "locate"
  PROVE  Passed(b)'
  <1>0. /\ TypeOK /\ Sound /\ plugins \in Seq(Plugins) /\ Len(plugins) \in Nat
        /\ p \in [Threads -> Plugins \cup {NULL}] /\ node \in [Plugins -> Nodes]
        /\ name \in [Threads -> Names \cup {NULL}]
        /\ \A j, k \in 1..Len(plugins) : plugins[j] = plugins[k] => j = k
    BY Typed DEF IInv, Sound, ListInv, TypeOK, ListType, ThreadType, Nodes
  <1>1. ASSUME NEW n \in Names, Locate(b, n) PROVE Passed(b)'
    <2>1. p'[b] = First /\ UNCHANGED <<plugins, node>>
      BY <1>0, <1>1 DEF Locate
    <2>2. First # NULL => plugins # <<>> /\ First = plugins[1] /\ 1 \in 1..Len(plugins)
      BY <1>0 DEF First
    <2>3. First # NULL => node[First] \notin {"none", "open"}
      BY <1>0, <2>2, HeadLinked
    <2>4. ASSUME First # NULL, NEW j \in 1..Len(plugins), NEW k \in 1..Len(plugins),
                 plugins[k] = First, j < k
          PROVE  FALSE
      BY <1>0, <2>2, <2>4
    <2> QED
      BY <2>1, <2>3, <2>4 DEF Passed
  <1>2. CASE LocateNext(b)
    <2>1. /\ pc[b] = "locate" /\ p[b] \in Plugins /\ node[p[b]] = "linked"
          /\ ~Called(p[b], name[b]) /\ p'[b] = NextPlugin(p[b])
          /\ UNCHANGED <<plugins, node, name>>
      BY <1>0, <1>2 DEF LocateNext, At
    <2>2. IsLinked(p[b])
      BY <1>0, <2>1 DEF Sound, ListInv
    <2>3. PICK n \in 1..Len(plugins) :
            /\ plugins[n] = p[b]
            /\ p'[b] = IF n < Len(plugins) THEN plugins[n + 1] ELSE NULL
      BY <1>0, <2>1, <2>2, Followed
    <2>4. \A j \in 1..n : ~Called(plugins[j], name[b])
      <3>1. Passed(b)
        BY <2>1 DEF LocateInv
      <3>2. ASSUME NEW j \in 1..n PROVE ~Called(plugins[j], name[b])
        <4>1. j = n \/ (j < n /\ j \in 1..Len(plugins))
          BY <1>0
        <4> QED
          BY <2>1, <2>3, <3>1, <4>1 DEF Passed
      <3> QED
        BY <3>2
    <2>5. CASE ~(n < Len(plugins))
      BY <2>3, <2>5 DEF Passed
    <2>6. CASE n < Len(plugins)
      <3>1. n + 1 \in 1..Len(plugins) /\ p'[b] = plugins[n + 1]
        BY <1>0, <2>3, <2>6
      <3>2. node[p'[b]] \notin {"none", "open"}
        BY <1>0, <3>1 DEF Sound, ListInv
      <3>3. ASSUME NEW j \in 1..Len(plugins), NEW k \in 1..Len(plugins),
                   plugins[k] = p'[b], j < k
            PROVE  ~Called(plugins[j], name[b])
        <4>1. k = n + 1
          BY <1>0, <3>1, <3>3
        <4>2. j \in 1..n
          BY <3>3, <4>1
        <4> QED
          BY <2>4, <4>2
      <3>4. name'[b] = name[b] /\ plugins' = plugins /\ node' = node
        BY <2>1
      <3> QED
        BY <3>2, <3>3, <3>4 DEF Passed, Called
    <2> QED
      BY <2>5, <2>6
  <1>3. CASE Stays(b)
    <2> DEFINE x == p[b]
    <2>0. Passed(b) /\ x \in Plugins \cup {NULL}
      BY <1>0, <1>3 DEF LocateInv, Stays
    <2>1. ASSUME UNCHANGED <<plugins, node>> PROVE Passed(b)'
      BY <1>3, <2>0, <2>1, StaysPassed
    <2>2. ASSUME NEW a \in Threads, NEW y \in Plugins, OpenPlugin(a, y) PROVE Passed(b)'
      <3>1. node[y] = "none" /\ node' = [node EXCEPT ![y] = "open"] /\ UNCHANGED plugins
        BY <2>2 DEF OpenPlugin
      <3>2. x # NULL /\ node[x] \notin {"none", "open"} => node'[x] = node[x]
        BY <1>0, <2>0, <3>1
      <3> QED
        BY <1>3, <2>0, <3>1, <3>2, StaysPassed
    <2>3. ASSUME NEW a \in Threads, Link(a) PROVE Passed(b)'
      <3>1. p[a] \in Plugins /\ node[p[a]] = "open"
        BY <1>0, <2>3 DEF Link, At, Sound, LoadInv, Loading
      <3>2. plugins' = Append(plugins, p[a]) /\ node' = [node EXCEPT ![p[a]] = "linked"]
        BY <2>3 DEF Link
      <3>3. /\ Len(plugins') = Len(plugins) + 1
            /\ \A k \in 1..Len(plugins) : plugins'[k] = plugins[k]
            /\ plugins'[Len(plugins) + 1] = p[a]
        BY <1>0, <3>1, <3>2, Appended
      <3>4. x # NULL /\ node[x] \notin {"none", "open"} => x # p[a] /\ node'[x] = node[x]
        BY <1>0, <2>0, <3>1, <3>2
      <3>5. ASSUME x # p[a], NEW j \in 1..Len(plugins'), NEW k \in 1..Len(plugins'),
                   plugins'[k] = x, j < k
            PROVE  \E m, n \in 1..Len(plugins) :
                     plugins[n] = x /\ m < n /\ plugins[m] = plugins'[j]
        <4>1. k # Len(plugins) + 1
          BY <3>3, <3>5
        <4>2. j \in 1..Len(plugins) /\ k \in 1..Len(plugins)
          BY <1>0, <3>3, <3>5, <4>1
        <4> QED
          BY <3>3, <3>5, <4>2
      <3> QED
        BY <1>3, <2>0, <3>4, <3>5, StaysPassed
    <2>4. ASSUME NEW a \in Threads, Closed(a) PROVE Passed(b)'
      <3>1. /\ p[a] \in Plugins /\ node' = [node EXCEPT ![p[a]] = "closed"]
            /\ UNCHANGED plugins
        BY <1>0, <2>4 DEF Closed, At, Sound, HoldInv
      <3>2. x # NULL => node'[x] = node[x] \/ node'[x] = "closed"
        BY <1>0, <2>0, <3>1
      <3> QED
        BY <1>3, <2>0, <3>1, <3>2, StaysPassed
    <2>5. ASSUME NEW a \in Threads, Unlink(a) \/ QuitClosed(a) PROVE Passed(b)'
      <3>1. /\ p[a] \in Plugins
            /\ node' \in {[node EXCEPT ![p[a]] = "freed"], [node EXCEPT ![p[a]] = "closed"]}
        <4>1. CASE Unlink(a)
          BY <1>0, <4>1 DEF Unlink, At, Sound, HoldInv
        <4>2. CASE QuitClosed(a)
          BY <1>0, <4>2, HeadLinked DEF QuitClosed, At, Sound, HoldInv
        <4> QED
          BY <2>5, <4>1, <4>2
      <3>2. x # NULL => node'[x] = node[x] \/ node'[x] \in {"freed", "closed"}
        BY <1>0, <2>0, <3>1
      <3>3. PICK h \in 1..Len(plugins) :
              /\ Len(plugins') = Len(plugins) - 1
              /\ \A j \in 1..Len(plugins') :
                   plugins'[j] = IF j < h THEN plugins[j] ELSE plugins[j + 1]
        BY <2>5, TakenOut
      <3>4. ASSUME NEW j \in 1..Len(plugins'), NEW k \in 1..Len(plugins'),
                   plugins'[k] = x, j < k
            PROVE  \E m, n \in 1..Len(plugins) :
                     plugins[n] = x /\ m < n /\ plugins[m] = plugins'[j]
        <4> DEFINE m == IF j < h THEN j ELSE j + 1
                   n == IF k < h THEN k ELSE k + 1
        <4>1. m \in 1..Len(plugins) /\ n \in 1..Len(plugins) /\ m < n
          BY <1>0, <3>3, <3>4
        <4>2. plugins[n] = x /\ plugins[m] = plugins'[j]
          BY <3>3, <3>4
        <4> QED
          BY <4>1, <4>2
      <3> QED
        BY <1>3, <2>0, <3>2, <3>4, StaysPassed
    <2>6. ASSUME NEW a \in Threads, Calm(a) \/ Locks(a) PROVE UNCHANGED <<plugins, node>>
      BY <2>6 DEF Calm, Locks
    <2>7. ExecutePlugin => UNCHANGED <<plugins, node>>
      BY DEF ExecutePlugin
    <2>8. UNCHANGED vars => UNCHANGED <<plugins, node>>
      BY DEF vars
    <2>9. EndEffect => FALSE
      BY DEF EndEffect, Faults
    <2> QED
      BY <2>1, <2>2, <2>3, <2>4, <2>5, <2>6, <2>7, <2>8, <2>9, Effects DEF Changing
  <1> QED
    BY <1>1, <1>2, <1>3, Searching

LEMMA LocateInductive == IInv /\ LocateInv /\ [Next]_vars => LocateInv'
  <1>1. ASSUME IInv, LocateInv, UNCHANGED vars PROVE LocateInv'
    BY <1>1 DEF vars, locals, LocateInv, Passed, Called
  <1>2. ASSUME IInv, LocateInv, Next, status' = "up" PROVE LocateInv'
    <2>1. status = "up" \/ UNCHANGED vars
      BY <1>2, Effects DEF EndEffect
    <2> QED
      BY <1>1, <1>2, <2>1, LocateStep DEF LocateInv
  <1> QED
    BY <1>1, <1>2 DEF LocateInv

(* The two ways in which a search goes on. *)
LEMMA GoesOn ==
  ASSUME IInv, Next, NEW b \in Threads, At(b, "locate")
  PROVE  LocateNext(b) \/ LocateFound(b) \/ (p'[b] = p[b] /\ pc'[b] # "unload")
  <1> DEFINE Kept == p'[b] = p[b] /\ pc'[b] # "unload"
  <1>0. /\ TypeOK /\ MainThread \in Threads /\ status = "up" /\ pc[b] = "locate"
        /\ pc \in [Threads -> PcType] /\ p \in [Threads -> Plugins \cup {NULL}]
    BY DEF IInv, TypeOK, ThreadType, PcType, Threads, At
  <1>1. CASE Ends
    <2>1. ASSUME NEW a \in Threads, NEW c, Fault(a, c) PROVE Kept
      BY <1>0, <2>1 DEF Fault, Goto, locals
    <2>2. ASSUME NEW a \in Threads, LoadFails(a) \/ Exit(a) PROVE Kept
      BY <1>0, <2>2 DEF LoadFails, Exit, locals
    <2>3. ASSUME NEW a \in Threads,
                 \/ LocateFault(a) \/ CloseFault(a) \/ ClosedFault(a) \/ UnlinkFault(a)
                 \/ RunFault(a)
          PROVE  Kept
      BY <2>1, <2>3 DEF LocateFault, CloseFault, ClosedFault, UnlinkFault, RunFault
    <2>4. CASE StartUpFails
      BY <1>0, <2>4 DEF StartUpFails, locals
    <2>5. CASE ExecuteFault
      BY <1>0, <2>1, <2>5 DEF ExecuteFault
    <2> QED
      BY <1>1, <2>2, <2>3, <2>4, <2>5 DEF Ends
  <1>2. CASE Ended
    BY <1>0, <1>2 DEF Ended
  <1>3. ASSUME NEW a \in Threads, a # b, Local(a) \/ Locking(a) PROVE Kept
    BY <1>0, <1>3, CalmMoves, LockMoves DEF Calm, Locks, Moves
  <1>4. CASE Local(b) \/ Locking(b)
    <2>1. ~Running(b)
      BY <1>0, RunEffect
    <2> QED
      BY <1>0, <1>4, <2>1 DEF Local, Locking, SetCommand, PublishCommand, Locate, Close,
         Quit, QuitClose, LockUnload, LockQuit, QuitUnlock, Command, At
  <1>5. ASSUME NEW a \in Threads, NEW x \in Plugins, OpenPlugin(a, x) PROVE Kept
    BY <1>0, <1>5 DEF OpenPlugin, Command, At
  <1>6. ASSUME NEW a \in Threads,
               Link(a) \/ Closed(a) \/ Unlink(a) \/ QuitClosed(a)
        PROVE  Kept
    <2>1. a # b
      BY <1>0, <1>6 DEF Link, Closed, Unlink, QuitClosed, At
    <2> QED
      BY <1>0, <1>6, <2>1 DEF Link, Closed, Unlink, QuitClosed, Done, Goto, locals
  <1>7. ASSUME NEW a \in Clis, Check(a) PROVE Kept
    BY <1>0, <1>7 DEF Check, Goto, locals, At
  <1>8. CASE StartUp \/ ExecuteRead \/ ExecuteLock \/ ExecuteEnd
    BY <1>0, <1>8 DEF StartUp, ExecuteRead, ExecuteLock, ExecuteEnd, Goto, locals, At
  <1>9. CASE ExecutePlugin
    BY <1>0, <1>9 DEF ExecutePlugin, Pass, Process, Drop, Goto, At
  <1> QED
    BY <1>1, <1>2, <1>3, <1>4, <1>5, <1>6, <1>7, <1>8, <1>9, Cases DEF Changing, MainStep

(* What FindsFirst asks of a step of thread b. *)
Finds(b) ==
  /\ pc'[b] = "unload" =>
       \A j, k \in 1..Len(plugins) :
         plugins[k] = p[b] /\ j < k => ~Called(plugins[j], name[b])
  /\ p'[b] = NULL =>
       \A k \in 1..Len(plugins) : ~Called(plugins[k], name[b])

LEMMA FindStep ==
  ASSUME IInv, LocateInv, Next, NEW b \in Threads, At(b, "locate"), p[b] # NULL
  PROVE  Finds(b)
  <1>0. /\ TypeOK /\ ListInv /\ Len(plugins) \in Nat /\ Passed(b)
        /\ \A k \in 1..Len(plugins) : plugins[k] \in Plugins
        /\ p \in [Threads -> Plugins \cup {NULL}] /\ pc[b] = "locate"
        /\ pc \in [Threads -> PcType]
    BY Typed DEF IInv, Sound, TypeOK, ThreadType, LocateInv, At, PcType
  <1>1. CASE LocateFound(b)
    <2>1. node[p[b]] = "linked" /\ UNCHANGED p
      BY <1>1 DEF LocateFound
    <2> QED
      BY <1>0, <2>1 DEF Passed, Finds
  <1>2. CASE LocateNext(b)
    <2>1. /\ p[b] \in Plugins /\ node[p[b]] = "linked" /\ ~Called(p[b], name[b])
          /\ p'[b] = NextPlugin(p[b]) /\ pc'[b] = "locate"
      BY <1>0, <1>2 DEF LocateNext, At
    <2>2. IsLinked(p[b])
      BY <1>0, <2>1 DEF ListInv
    <2>3. PICK n \in 1..Len(plugins) :
            /\ plugins[n] = p[b]
            /\ NextPlugin(p[b]) = IF n < Len(plugins) THEN plugins[n + 1] ELSE NULL
      BY <1>0, <2>2, Followed
    <2>4. ASSUME p'[b] = NULL, NEW k \in 1..Len(plugins)
          PROVE  ~Called(plugins[k], name[b])
      <3>1. n = Len(plugins)
        <4>1. n < Len(plugins) => n + 1 \in 1..Len(plugins)
          BY <1>0
        <4>2. ~(n < Len(plugins))
          BY <1>0, <2>1, <2>3, <2>4, <4>1
        <4> QED
          BY <1>0, <4>2
      <3>2. k = n \/ k < n
        BY <1>0, <3>1
      <3> QED
        BY <1>0, <2>1, <2>3, <3>2 DEF Passed
    <2> QED
      BY <2>1, <2>4 DEF Finds
  <1>3. CASE p'[b] = p[b] /\ pc'[b] # "unload"
    BY <1>3 DEF Finds
  <1> QED
    BY <1>1, <1>2, <1>3, GoesOn

(* However many threads append to the list and unlink from it during the   *)
(* walk, locate_plugin_by_name() finds the first plugin of the name it is  *)
(* given, and misses none.                                                 *)
THEOREM SearchFindsFirst == Spec => FindsFirst
  <1> DEFINE A == \A a \in Threads : At(a, "locate") /\ p[a] # NULL =>
                    /\ pc'[a] = "unload" =>
                         \A j, k \in 1..Len(plugins) :
                           plugins[k] = p[a] /\ j < k => ~Called(plugins[j], name[a])
                    /\ p'[a] = NULL =>
                         \A k \in 1..Len(plugins) : ~Called(plugins[k], name[a])
  <1>1. Init => LocateInv
    BY DEF Init, LocateInv, Threads
  <1>2. IInv /\ LocateInv /\ [Next]_vars => [A]_vars
    BY FindStep DEF Finds
  <1> QED
    BY <1>1, <1>2, LocateInductive, Invariance, PTL DEF Spec, FindsFirst

-----------------------------------------------------------------------------
(* A listener without input_cli. *)

(* There is one thread, so that nothing changes between the reading of a   *)
(* pointer and the use of it: what it has found is loaded, and the head it *)
(* has read is the head.                                                   *)
SoloInv ==
  status = "up" =>
    /\ pc[MainThread] \in {"locate", "unload", "close", "execute", "walk"}
         /\ p[MainThread] # NULL => node[p[MainThread]] = "linked"
    /\ pc[MainThread] \in {"unload"} \cup Unloading /\ p[MainThread] # NULL
         => plugins # <<>> /\ i[MainThread] = plugins[1]

LEMMA SoloLinked ==
  ASSUME Clis = {}, IInv, status = "up", pc[MainThread] # "unlink",
         NEW k \in 1..Len(plugins)
  PROVE  node[plugins[k]] = "linked"
  BY DEF IInv, Sound, ListInv, Threads

LEMMA SoloEnds ==
  ASSUME Clis = {}, IInv, SoloInv, Ends
  PROVE  UnloadSafe' /\ ExecutesLoaded'
  <1>1. \A a \in Threads : a = MainThread
    BY DEF Threads
  <1>2. ASSUME NEW a \in Threads, LocateFault(a) PROVE FALSE
    BY <1>1, <1>2 DEF LocateFault, At, SoloInv
  <1>3. ASSUME NEW a \in Threads, CloseFault(a) PROVE status' = "null_plugin"
    BY <1>1, <1>3 DEF CloseFault, Fault, At, SoloInv
  <1>4. ASSUME NEW a \in Threads, UnlinkFault(a) PROVE FALSE
    <2>1. status = "up" /\ pc[a] = "unlink" /\ a = MainThread
      BY <1>1, <1>4 DEF UnlinkFault, At
    <2>2. p[a] \in Plugins /\ IsLinked(p[a])
      BY <2>1 DEF IInv, Sound, HoldInv
    <2>3. First = i[a]
      BY <2>1, <2>2 DEF SoloInv, Unloading, First
    <2> QED
      BY <1>4, <2>1, <2>2, <2>3 DEF UnlinkFault
  <1>5. ASSUME NEW a \in Threads, LoadFails(a) \/ Exit(a) PROVE status' = "exited"
    BY <1>5 DEF LoadFails, Exit
  <1>6. ASSUME NEW a \in Threads, ClosedFault(a) PROVE status' = "stale_command"
    BY <1>6 DEF ClosedFault, Fault
  <1>7. ASSUME NEW a \in Threads, RunFault(a) PROVE status' = "stale_command"
    BY <1>7 DEF RunFault, Fault
  <1>8. StartUpFails => status' = "exited"
    BY DEF StartUpFails
  <1>9. ~ExecuteFault
    BY DEF ExecuteFault, At, SoloInv
  <1> QED
    BY <1>2, <1>3, <1>4, <1>5, <1>6, <1>7, <1>8, <1>9
       DEF Ends, UnloadSafe, ExecutesLoaded

LEMMA SoloStep ==
  ASSUME Clis = {}, IInv, SoloInv, status = "up",
         \/ Local(MainThread) \/ Locking(MainThread) \/ Changing(MainThread)
         \/ MainStep
  PROVE  SoloInv'
  <1> DEFINE m == MainThread
  <1>0. /\ m \in Threads /\ \A a \in Threads : a = m
        /\ pc \in [Threads -> PcType] /\ p \in [Threads -> Plugins \cup {NULL}]
        /\ i \in [Threads -> Plugins \cup {NULL}] /\ plugins \in Seq(Plugins)
    BY DEF IInv, TypeOK, ThreadType, ListType, Threads, PcType
  <1>1. ASSUME pc'[m] \notin {"locate", "unload", "execute", "walk"} \cup Unloading
        PROVE  SoloInv'
    BY <1>1 DEF SoloInv, Unloading
  <1>2. CASE \/ SetCommand(m) \/ PublishCommand(m) \/ Quit(m) \/ QuitClose(m)
             \/ Link(m) \/ QuitClosed(m) \/ Unlink(m)
    BY <1>0, <1>1, <1>2 DEF SetCommand, PublishCommand, Quit, QuitClose, Link,
       QuitClosed, Unlink, Done, Goto, Unloading
  <1>3. CASE LockQuit(m) \/ QuitUnlock(m) \/ StartUp \/ ExecuteEnd
    BY <1>0, <1>1, <1>3 DEF LockQuit, QuitUnlock, StartUp, ExecuteEnd, Goto, Unloading
  <1>4. ASSUME NEW x \in Plugins, OpenPlugin(m, x) PROVE SoloInv'
    BY <1>0, <1>1, <1>4 DEF OpenPlugin, Unloading
  <1>5. pc[m] # "unlink" /\ First # NULL => node[First] = "linked"
    <2>1. First # NULL => 1 \in 1..Len(plugins) /\ First = plugins[1]
      BY <1>0 DEF First
    <2> QED
      BY <2>1, SoloLinked
  <1>6. ASSUME (\E n \in Names : Locate(m, n)) \/ ExecuteRead PROVE SoloInv'
    <2>1. /\ pc[m] # "unlink" /\ pc'[m] \in {"locate", "execute"}
          /\ p'[m] = First /\ UNCHANGED <<plugins, node, i>>
      BY <1>0, <1>6 DEF Locate, ExecuteRead, Command, At, Goto
    <2> QED
      BY <1>5, <2>1 DEF SoloInv, Unloading
  <1>7. ASSUME p[m] # NULL, node[p[m]] = "linked", pc[m] # "unlink"
        PROVE  NextPlugin(p[m]) # NULL => node[NextPlugin(p[m])] = "linked"
    <2>1. IsLinked(p[m])
      BY <1>0, <1>7 DEF IInv, Sound, ListInv
    <2>2. PICK k \in 1..Len(plugins) :
            NextPlugin(p[m]) = IF k < Len(plugins) THEN plugins[k + 1] ELSE NULL
      BY <2>1, Followed DEF IInv
    <2>3. k < Len(plugins) => k + 1 \in 1..Len(plugins)
      BY <1>0
    <2> QED
      BY <1>7, <2>2, <2>3, SoloLinked
  <1>8. CASE LocateNext(m)
    <2>1. /\ pc[m] = "locate" /\ p[m] # NULL /\ node[p[m]] = "linked"
          /\ p'[m] = NextPlugin(p[m]) /\ UNCHANGED <<pc, plugins, node, i>>
      BY <1>0, <1>8 DEF LocateNext, At
    <2> QED
      BY <1>7, <2>1 DEF SoloInv, Unloading
  <1>9. CASE ExecutePlugin
    <2>1. pc[m] = "walk" /\ p[m] # NULL /\ node[p[m]] = "linked" /\ UNCHANGED <<plugins, node, i>>
      BY <1>9 DEF ExecutePlugin, At
    <2>2. CASE Drop(p[m])
      BY <1>0, <1>1, <2>2 DEF Drop, Goto, Unloading
    <2>3. CASE Pass(p[m]) \/ Process(p[m])
      <3>1. p'[m] = NextPlugin(p[m]) /\ pc'[m] = "walk"
        BY <1>0, <2>1, <2>3 DEF Pass, Process
      <3> QED
        BY <1>7, <2>1, <3>1 DEF SoloInv, Unloading
    <2> QED
      BY <1>9, <2>2, <2>3 DEF ExecutePlugin
  <1>10. CASE LocateFound(m)
    <2>1. /\ pc'[m] = "unload" /\ i'[m] = First /\ UNCHANGED <<plugins, node, p>>
          /\ p[m] # NULL => node[p[m]] = "linked"
      BY <1>0, <1>10 DEF LocateFound, At, Goto
    <2>2. p[m] # NULL => IsLinked(p[m])
      BY <1>0, <2>1 DEF IInv, Sound, ListInv
    <2>3. p[m] # NULL => plugins # <<>> /\ First = plugins[1]
      BY <1>0, <2>2 DEF IsLinked, First
    <2> QED
      BY <2>1, <2>3 DEF SoloInv
  <1>11. CASE LockUnload(m) \/ Close(m) \/ Closed(m) \/ ExecuteLock
    <2>1. /\ UNCHANGED <<plugins, p, i>>
          /\ pc[m] \in {"unload", "close", "join", "execute"}
          /\ pc'[m] \in Unloading => pc[m] # "execute"
          /\ pc'[m] \in Unloading \cup {"walk"}
          /\ pc'[m] \in {"close", "walk"} => pc[m] \in {"unload", "execute"} /\ UNCHANGED node
      BY <1>0, <1>11 DEF LockUnload, Close, Closed, ExecuteLock, At, Goto, locals, Unloading
    <2> QED
      BY <2>1 DEF SoloInv, Unloading
  <1>12. CASE Running(m)
    <2>1. PICK loc \in {"run", "call", "prompt", "check"} : Goto(m, loc)
      BY <1>0, <1>12, RunEffect DEF IInv
    <2> QED
      BY <1>0, <1>1, <2>1 DEF Goto, Unloading
  <1> QED
    BY <1>2, <1>3, <1>4, <1>6, <1>8, <1>9, <1>10, <1>11, <1>12
       DEF Local, Locking, Changing, MainStep

(* A listener that has no input_cli, whatever its command line and its     *)
(* config file load and unload, never uses a plugin that is gone, neither  *)
(* to execute a record nor to unload: the stale uses of plugin_chain.c all *)
(* need a second thread.                                                   *)
THEOREM SoloIsSafe == Spec => [](Clis = {} => UnloadSafe /\ ExecutesLoaded)
  <1> DEFINE Inv == Clis = {} => SoloInv /\ UnloadSafe /\ ExecutesLoaded
  <1>1. Init => Inv
    BY DEF Init, SoloInv, UnloadSafe, ExecutesLoaded, Threads, Unloading
  <1>2. IInv /\ Inv /\ [Next]_vars => Inv'
    <2> SUFFICES ASSUME Clis = {}, IInv, SoloInv, UnloadSafe, ExecutesLoaded, [Next]_vars
                 PROVE  SoloInv' /\ UnloadSafe' /\ ExecutesLoaded'
      OBVIOUS
    <2>1. CASE UNCHANGED vars
      BY <2>1 DEF vars, locals, SoloInv, UnloadSafe, ExecutesLoaded
    <2>2. CASE Ends
      <3>1. status' # "up"
        BY <2>2, EndsEffect DEF EndEffect, Faults
      <3> QED
        BY <2>2, <3>1, SoloEnds DEF SoloInv
    <2>3. ASSUME \/ Local(MainThread) \/ Locking(MainThread) \/ Changing(MainThread)
                 \/ MainStep
          PROVE  SoloInv' /\ UnloadSafe' /\ ExecutesLoaded'
      <3>1. status = "up" /\ status' = "up"
        <4>1. CASE Local(MainThread)
          BY <4>1, UpStep DEF IInv, Threads
        <4>2. CASE Locking(MainThread) \/ Changing(MainThread)
          BY <4>2, UpStep DEF IInv, Threads
        <4>3. CASE MainStep
          BY <4>3 DEF MainStep, StartUp, ExecuteRead, ExecuteLock, ExecutePlugin,
                      ExecuteEnd, At
        <4> QED
          BY <2>3, <4>1, <4>2, <4>3
      <3> QED
        BY <2>3, <3>1, SoloStep DEF UnloadSafe, ExecutesLoaded
    <2>4. \A a \in Threads : a = MainThread
      BY DEF Threads
    <2> QED
      BY <2>1, <2>2, <2>3, <2>4, Cases DEF Ended
  <1>3. Inv => (Clis = {} => UnloadSafe /\ ExecutesLoaded)
    OBVIOUS
  <1> QED
    BY <1>1, <1>2, <1>3, Invariance, PTL DEF Spec

-----------------------------------------------------------------------------
(* A listener with one plugin that has a command. *)

OneCommand == \A x, y \in WithCommand : x = y

Empty == s_commands = <<>> /\ freed = {}

(* The command of the one plugin is put into an empty table, once, and     *)
(* while it is there the plugin is loaded.                                 *)
HeldInv ==
  \/ s_commands = <<>>
  \/ \E x \in WithCommand \ freed : s_commands = <<x>> /\ node[x] \in {"open", "linked"}

EntryInv ==
  status = "up" =>
    /\ \A a \in Threads :
         /\ pc[a] \in {"set_command", "publish"} => p[a] \in WithCommand /\ Empty
         /\ pc[a] = "publish" => next_command[a] = <<>>
    /\ \A x \in WithCommand : node[x] = "none" => Empty

TableInv == HeldInv /\ EntryInv

(* No command of such a table belongs to a plugin that is gone. *)
LEMMA TableClean == HeldInv => CommandsLive
  <1>1. ASSUME NEW x \in WithCommand \ freed, s_commands = <<x>>,
               node[x] \in {"open", "linked"}
        PROVE  CommandsLive
    BY <1>1 DEF CommandsLive
  <1> QED
    BY <1>1 DEF HeldInv, CommandsLive

(* Steps that leave the table alone, do not start to fill it, and keep the *)
(* opened and the linked plugins so.                                       *)
Aside ==
  /\ status' = "up"
  /\ UNCHANGED <<s_commands, freed>>
  /\ \A b \in Threads :
       pc'[b] \in {"set_command", "publish"} =>
         pc'[b] = pc[b] /\ p'[b] = p[b] /\ next_command'[b] = next_command[b]
  /\ \A x \in Plugins :
       /\ node[x] \in {"open", "linked"} => node'[x] \in {"open", "linked"}
       /\ node'[x] = "none" => node[x] = "none"

LEMMA AsideStep ==
  ASSUME TableInv, status = "up", Aside
  PROVE  TableInv'
  <1>1. UNCHANGED <<s_commands, freed>> /\ status' = "up"
    BY DEF Aside
  <1>2. HeldInv'
    BY <1>1 DEF TableInv, HeldInv, Aside
  <1>3. EntryInv'
    BY <1>1 DEF TableInv, EntryInv, Empty, Aside
  <1> QED
    BY <1>2, <1>3 DEF TableInv

LEMMA StandsAside ==
  ASSUME IInv, status = "up", NEW a \in Threads,
         \/ \E n \in Names : Locate(a, n)
         \/ LocateNext(a) \/ LocateFound(a) \/ Close(a) \/ Quit(a) \/ QuitClose(a)
         \/ Running(a) \/ Locking(a) \/ Check(a) \/ Link(a) \/ Unlink(a)
         \/ a = MainThread /\ MainStep
  PROVE  Aside
  <1>0. /\ TypeOK /\ pc \in [Threads -> PcType] /\ node \in [Plugins -> Nodes]
        /\ p \in [Threads -> Plugins \cup {NULL}]
    BY DEF IInv, TypeOK, ThreadType, ListType, PcType, Nodes
  <1>1. ASSUME status' = "up", UNCHANGED <<table, node>>,
               pc'[a] \notin {"set_command", "publish"},
               \A b \in Threads \ {a} : pc'[b] = pc[b] /\ p'[b] = p[b]
        PROVE  Aside
    BY <1>1 DEF Aside, table
  <1>2. CASE \/ \E n \in Names : Locate(a, n)
             \/ LocateNext(a) \/ LocateFound(a) \/ Close(a)
    BY <1>0, <1>1, <1>2 DEF Locate, LocateNext, LocateFound, Close, Command, At, Goto, locals
  <1>3. CASE Quit(a) \/ QuitClose(a) \/ Check(a)
    BY <1>0, <1>1, <1>3 DEF Quit, QuitClose, Check, Command, At, Goto, locals
  <1>4. CASE Locking(a)
    BY <1>0, <1>1, <1>4 DEF Locking, LockUnload, LockQuit, QuitUnlock, At, Goto, locals
  <1>5. CASE a = MainThread /\ MainStep
    <2>1. CASE StartUp \/ ExecuteRead \/ ExecuteLock \/ ExecuteEnd
      BY <1>0, <1>1, <1>5, <2>1
         DEF StartUp, ExecuteRead, ExecuteLock, ExecuteEnd, At, Goto, locals
    <2>2. CASE ExecutePlugin
      BY <1>0, <1>1, <1>5, <2>2 DEF ExecutePlugin, Pass, Process, Drop, At, Goto
    <2> QED
      BY <1>5, <2>1, <2>2 DEF MainStep
  <1>6. CASE Link(a) \/ Unlink(a)
    <2>1. p[a] \in Plugins /\ (Link(a) => node[p[a]] = "open")
                           /\ (Unlink(a) => node[p[a]] = "closed")
      BY <1>6 DEF Link, Unlink, At, IInv, Sound, LoadInv, Loading, HoldInv
    <2>2. /\ status' = "up" /\ UNCHANGED table
          /\ pc'[a] \notin {"set_command", "publish"}
          /\ \A b \in Threads \ {a} : pc'[b] = pc[b] /\ p'[b] = p[b]
          /\ node' = [node EXCEPT ![p[a]] = IF Link(a) THEN "linked" ELSE "freed"]
      BY <1>0, <1>6 DEF Link, Unlink, At, Done, Goto
    <2> QED
      BY <1>0, <2>1, <2>2, <1>6 DEF Aside, table
  <1>7. CASE Running(a)
    <2>1. status' = "up" /\ UNCHANGED <<s_commands, freed, node, p>>
      BY <1>0, <1>7, RunEffect
    <2>2. PICK loc \in {"run", "call", "prompt", "check"} : Goto(a, loc)
      BY <1>0, <1>7, RunEffect
    <2>3. pc'[a] = loc /\ \A b \in Threads \ {a} : pc'[b] = pc[b]
      BY <1>0, <2>2 DEF Goto
    <2>4. PICK s \in Seq(Plugins) : next_command' = [next_command EXCEPT ![a] = s]
      BY <1>0, <1>7, RunEffect
    <2>5. \A b \in Threads \ {a} : next_command'[b] = next_command[b]
      BY <1>0, <2>4 DEF TypeOK, TableType
    <2> QED
      BY <2>1, <2>3, <2>5 DEF Aside
  <1> QED
    BY <1>2, <1>3, <1>4, <1>5, <1>6, <1>7

(* The steps that fill the table. *)
LEMMA TableFilled ==
  ASSUME OneCommand, IInv, TableInv, status = "up", NEW a \in Threads,
         \/ \E x \in Plugins : OpenPlugin(a, x)
         \/ SetCommand(a) \/ PublishCommand(a)
  PROVE  TableInv'
  <1>0. /\ TypeOK /\ pc \in [Threads -> PcType] /\ node \in [Plugins -> Nodes]
        /\ p \in [Threads -> Plugins \cup {NULL}]
        /\ next_command \in [Threads -> Seq(Plugins)]
    BY DEF IInv, TypeOK, ThreadType, ListType, TableType, PcType, Nodes
  <1>1. ASSUME Empty', status' = "up",
               \A b \in Threads : pc'[b] = "publish" => next_command'[b] = <<>>,
               \A b \in Threads : pc'[b] \in {"set_command", "publish"} => p'[b] \in WithCommand
        PROVE  TableInv'
    BY <1>1 DEF TableInv, HeldInv, EntryInv, Empty
  <1>2. ASSUME NEW x \in Plugins, OpenPlugin(a, x) PROVE TableInv'
    <2>0. x # a
      BY <1>2 DEF OpenPlugin, Command, At, IInv, Sound, ThreadInv, Threads
    <2>1. /\ status' = "up" /\ UNCHANGED <<s_commands, freed, next_command>>
          /\ node[x] = "none" /\ node' = [node EXCEPT ![x] = "open"]
          /\ p' = [p EXCEPT ![a] = x]
          /\ pc'[a] = IF x \in WithCommand THEN "set_command" ELSE "link"
          /\ \A b \in Threads \ {a} : pc'[b] = pc[b] \/ pc'[b] = "prompt"
      BY <1>0, <1>2, <2>0 DEF OpenPlugin, Command, At, table
    <2>2. CASE x \in WithCommand
      <3>1. Empty
        BY <2>1, <2>2 DEF TableInv, EntryInv
      <3> QED
        BY <1>0, <1>1, <2>1, <2>2, <3>1 DEF TableInv, EntryInv, Empty
    <2>3. CASE x \notin WithCommand
      <3>1. Aside
        BY <1>0, <2>1, <2>3 DEF Aside, table
      <3> QED
        BY <3>1, AsideStep
    <2> QED
      BY <2>2, <2>3
  <1>3. CASE SetCommand(a)
    <2>1. /\ Empty /\ p[a] \in WithCommand
          /\ \A b \in Threads : pc[b] = "publish" => next_command[b] = <<>>
      BY <1>3 DEF SetCommand, At, TableInv, EntryInv
    <2>2. /\ status' = "up" /\ UNCHANGED <<s_commands, freed, p>>
          /\ next_command' = [next_command EXCEPT ![a] = s_commands]
          /\ \A b \in Threads \ {a} : pc'[b] = pc[b]
      BY <1>0, <1>3 DEF SetCommand, At, Goto, locals
    <2>3. \A b \in Threads : pc'[b] = "publish" => next_command'[b] = <<>>
      BY <1>0, <2>1, <2>2 DEF Empty
    <2> QED
      BY <1>1, <2>1, <2>2, <2>3 DEF TableInv, EntryInv, Empty
  <1>4. CASE PublishCommand(a)
    <2>1. /\ freed = {} /\ p[a] \in WithCommand
          /\ next_command[a] = <<>>
      BY <1>4 DEF PublishCommand, At, TableInv, EntryInv, Empty
    <2>2. /\ node[p[a]] = "open"
          /\ \A b \in Threads : pc[b] \in Loading /\ p[b] = p[a] => b = a
      BY <1>4 DEF PublishCommand, At, IInv, Sound, LoadInv, Loading
    <2>3. /\ status' = "up" /\ UNCHANGED <<freed, node, p>>
          /\ s_commands' = <<p[a]>> \o <<>>
          /\ next_command' = [next_command EXCEPT ![a] = <<>>]
          /\ pc'[a] = "link" /\ \A b \in Threads \ {a} : pc'[b] = pc[b]
      BY <1>0, <1>4, <2>1 DEF PublishCommand, At, Goto, locals
    <2>4. s_commands' = <<p[a]>>
      BY <2>1, <2>3
    <2>5. HeldInv'
      BY <2>1, <2>2, <2>3, <2>4 DEF HeldInv
    <2>6. ASSUME NEW b \in Threads, pc'[b] \in {"set_command", "publish"} PROVE FALSE
      <3>1. b # a /\ pc[b] \in {"set_command", "publish"}
        BY <2>3, <2>6
      <3>2. p[b] \in WithCommand
        BY <3>1 DEF TableInv, EntryInv
      <3> QED
        BY <2>1, <2>2, <3>1, <3>2 DEF OneCommand, Loading
    <2>7. \A x \in WithCommand : node'[x] # "none"
      BY <2>1, <2>2, <2>3 DEF OneCommand
    <2> QED
      BY <2>3, <2>5, <2>6, <2>7 DEF TableInv, EntryInv
  <1> QED
    BY <1>2, <1>3, <1>4

(* The steps that take from the table: what free_command() removes, the    *)
(* head, is the command of the plugin that is unloaded if that is there.   *)
LEMMA TableFreed ==
  ASSUME IInv, TableInv, status = "up", NEW a \in Threads, Closed(a) \/ QuitClosed(a)
  PROVE  TableInv'
  <1> DEFINE x == p[a]
  <1>0. /\ pc \in [Threads -> PcType] /\ node \in [Plugins -> Nodes]
        /\ p \in [Threads -> Plugins \cup {NULL}] /\ s_commands \in Seq(Plugins)
    BY DEF IInv, TypeOK, ThreadType, ListType, TableType, PcType, Nodes
  <1>1. x \in Plugins /\ node[x] = "linked"
    <2>1. plugins # <<>> => plugins[1] \in Plugins
      BY Typed DEF IInv
    <2> QED
      BY <2>1 DEF Closed, QuitClosed, At, IInv, Sound, HoldInv
  <1>2. /\ status' = "up" /\ FreeCommand(library[x])
        /\ node' = [node EXCEPT ![x] = "closed"]
        /\ pc'[a] \notin {"set_command", "publish"}
        /\ \A b \in Threads \ {a} : pc'[b] = pc[b] /\ p'[b] = p[b]
    BY <1>0 DEF Closed, QuitClosed, At, Goto, locals
  <1>3. /\ \A y \in Plugins : node'[y] = "none" => node[y] = "none"
        /\ \A y \in Plugins \ {x} : node'[y] = node[y]
    BY <1>0, <1>1, <1>2
  <1>4. CASE Hits(library[x]) = {}
    <2>1. UNCHANGED <<s_commands, freed, next_command>>
      BY <1>2, <1>4 DEF FreeCommand
    <2>2. ASSUME NEW y, s_commands = <<y>> PROVE y # x
      BY <1>4, <2>2 DEF Hits, Called
    <2>3. HeldInv'
      BY <1>3, <2>1, <2>2 DEF TableInv, HeldInv
    <2>4. EntryInv'
      BY <1>2, <1>3, <2>1 DEF TableInv, EntryInv, Empty
    <2> QED
      BY <1>2, <2>3, <2>4 DEF TableInv
  <1>5. CASE Hits(library[x]) # {}
    <2>1. s_commands' = Tail(s_commands) /\ UNCHANGED next_command
      BY <1>2, <1>5 DEF FreeCommand
    <2>2. s_commands # <<>>
      BY <1>5 DEF Hits
    <2>3. s_commands' = <<>>
      <3>1. PICK y \in Plugins : s_commands = <<y>>
        BY <2>2 DEF TableInv, HeldInv
      <3>2. Len(s_commands) = 1
        BY <3>1
      <3> QED
        BY <1>0, <2>1, <2>2, <3>2
    <2>4. HeldInv'
      BY <2>3 DEF HeldInv
    <2>5. EntryInv'
      BY <1>2, <1>3, <2>1, <2>2 DEF TableInv, EntryInv, Empty
    <2> QED
      BY <1>2, <2>4, <2>5 DEF TableInv
  <1> QED
    BY <1>4, <1>5

LEMMA TableEnds ==
  ASSUME IInv, TableInv, Ends
  PROVE  TableInv'
  <1>1. EndEffect
    BY EndsEffect
  <1> QED
    BY <1>1 DEF EndEffect, TableInv, HeldInv, EntryInv, table, Faults

(* With at most one plugin that has a command, the table is right although *)
(* it has no lock and free_command() removes its head: the command of an   *)
(* unloaded plugin is never in it.  A thread that has found the command in *)
(* the table and has not called it yet may still find the plugin gone.     *)
THEOREM OneCommandIsLive == Spec => [](OneCommand => CommandsLive)
  <1> DEFINE Inv == OneCommand => TableInv
  <1>1. Init => Inv
    BY DEF Init, TableInv, HeldInv, EntryInv, Empty, Threads
  <1>2. IInv /\ Inv /\ [Next]_vars => Inv'
    <2> SUFFICES ASSUME OneCommand, IInv, TableInv, [Next]_vars PROVE TableInv'
      BY DEF OneCommand
    <2>1. CASE UNCHANGED vars
      BY <2>1 DEF vars, locals, table, TableInv, HeldInv, EntryInv, Empty
    <2>2. CASE Ends
      BY <2>2, TableEnds
    <2>3. ASSUME NEW a \in Threads, Local(a) \/ Locking(a) \/ Changing(a)
          PROVE  TableInv'
      <3>1. status = "up"
        BY <2>3, UpStep DEF IInv
      <3>2. \/ \E x \in Plugins : OpenPlugin(a, x)
            \/ SetCommand(a) \/ PublishCommand(a)
            \/ Closed(a) \/ QuitClosed(a)
            \/ Aside
        BY <2>3, <3>1, StandsAside DEF Local, Changing
      <3> QED
        BY <3>1, <3>2, TableFilled, TableFreed, AsideStep
    <2>4. ASSUME NEW a \in Clis, Check(a) PROVE TableInv'
      <3>1. status = "up" /\ a \in Threads
        BY <2>4 DEF Check, At, Threads
      <3> QED
        BY <2>4, <3>1, StandsAside, AsideStep
    <2>5. CASE MainStep
      <3>1. status = "up" /\ MainThread \in Threads
        BY <2>5 DEF MainStep, StartUp, ExecuteRead, ExecuteLock, ExecutePlugin,
                    ExecuteEnd, At, Threads
      <3> QED
        BY <2>5, <3>1, StandsAside, AsideStep
    <2> QED
      BY <2>1, <2>2, <2>3, <2>4, <2>5, Cases DEF Ended
  <1>3. Inv => (OneCommand => CommandsLive)
    BY TableClean DEF TableInv
  <1> QED
    BY <1>1, <1>2, <1>3, Invariance, PTL DEF Spec
==============================================================================
