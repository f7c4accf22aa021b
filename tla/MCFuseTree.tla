----------------------------- MODULE MCFuseTree -----------------------------
(* Instances of FuseTree: the hidden names, in the order of hidectr. *)
EXTENDS FuseTree, TLC

Hidden == <<"h1">>
Symm == Permutations(Tasks) \cup Permutations(Names)
====
