----------------------------- MODULE PluginList -----------------------------
(***************************************************************************)
(* What the chain of plugins promises to the one who loads plugins and to  *)
(* the records: a list that grows at its end and loses one plugin at a     *)
(* time, and records that are offered to it from its first plugin on.      *)
(* While a record is on its way through the list, the list stands still.   *)
(* Nothing is promised once the program has ended, in whichever way.       *)
(***************************************************************************)
EXTENDS Naturals, Sequences

CONSTANT Plugins   \* the plugins, each of which is loaded once at most

VARIABLES
  alive,   \* the program has not ended
  chain,   \* the loaded plugins
  used,    \* the plugins that are or have been loaded
  offered  \* the ones that the present record has been offered to

lvars == <<alive, chain, used, offered>>

LInit ==
  /\ alive = TRUE
  /\ chain = <<>>
  /\ used = {}
  /\ offered = <<>>

Load(x) ==
  /\ alive
  /\ offered = <<>>
  /\ x \notin used
  /\ chain' = Append(chain, x)
  /\ used' = used \cup {x}
  /\ UNCHANGED <<alive, offered>>

(* The plugin at place k leaves the list. *)
Unload(k) ==
  /\ alive
  /\ offered = <<>>
  /\ chain' = SubSeq(chain, 1, k - 1) \o SubSeq(chain, k + 1, Len(chain))
  /\ UNCHANGED <<alive, used, offered>>

(* The record is offered to the next plugin. *)
Offer ==
  /\ alive
  /\ Len(offered) < Len(chain)
  /\ offered' = Append(offered, chain[Len(offered) + 1])
  /\ UNCHANGED <<alive, chain, used>>

(* It has reached the end of the list, or a plugin drops it. *)
Finish ==
  /\ alive
  /\ offered' = <<>>
  /\ UNCHANGED <<alive, chain, used>>

End ==
  /\ alive
  /\ alive' = FALSE
  /\ UNCHANGED <<chain, used, offered>>

LNext ==
  \/ \E x \in Plugins : Load(x)
  \/ \E k \in 1..Len(chain) : Unload(k)
  \/ Offer
  \/ Finish
  \/ End

LSpec == LInit /\ [][LNext]_lvars
=============================================================================
