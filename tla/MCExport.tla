----------------------------- MODULE MCExport -----------------------------
(* Small instance of Export. *)
EXTENDS Export, TLC

CONSTANTS c1, c2

MCdomains_names == [i \in Domains |-> CASE i = 0 -> "LINKS" [] i = 1 -> "SOCKETS"]

MCLists == {<<"LINKS", "OTHER">>, <<"SOCKETS", "LINKS">>, <<"ALL">>}

(* Strings up to length n. *)
Strings(chars, n) == UNION {[1..k -> chars] : k \in 0..n}

(* All short strings for s1, some longer ones, and a few for s2.  A short   *)
(* head leaves room for the whole line or cuts it in s2, a long one in s1.  *)
MCRecords ==
  [dom : {1}, head : {<<"a">>}, s1 : Strings({"a", " ", ",", "\\", "\n"}, 2),
   s2 : {<<>>}, foot : {<<"a">>}]
    \cup [dom : {1}, head : {<<"a">>, <<"a", "a", "a">>},
          s1 : {<<"a", ",", ",", "a">>, <<",", "\\", ",">>, <<" ", ",", "a">>},
          s2 : {<<>>, <<"=">>, <<"a", " ">>}, foot : {<<"a">>}]
    \cup [dom : {0}, head : {<<"a">>}, s1 : {<<"a">>}, s2 : {<<>>}, foot : {<<>>}]

MCMiddle == <<"=">>
MCNull == <<"a">>

Symmetry == Permutations({c1, c2})
=============================================================================
