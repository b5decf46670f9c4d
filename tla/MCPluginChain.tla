---------------------------- MODULE MCPluginChain ----------------------------
(* Small instances of PluginChain: input_cli instances c1 and c2, two      *)
(* instances f1 and f2 of filter_domains, loaded under aliases, and an     *)
(* output plugin o1.                                                       *)
EXTENDS PluginChain, TLC

CONSTANTS c1, c2, f1, f2, o1, filter, cli, out, alias1, alias2

MCNames == {filter, cli, out, alias1, alias2}

LibraryOf(x) ==
  CASE x \in {c1, c2} -> cli
    [] x \in {f1, f2} -> filter
    [] x = o1 -> out

AliasOf(x) ==
  CASE x = f1 -> alias1
    [] x = f2 -> alias2
    [] OTHER -> LibraryOf(x)

\* The two input_cli instances are interchangeable.
Symmetry == Permutations({c1, c2})

MClibrary == [x \in Plugins |-> LibraryOf(x)]
MCalias == [x \in Plugins |-> AliasOf(x)]
=============================================================================
