----------------------------- MODULE MCFuseLoop -----------------------------
(* Small loads for FuseLoop. *)
EXTENDS FuseLoop

MCLoads == {[kinds |-> <<"read", "write">>, signalled |-> {}],
            [kinds |-> <<"write", "forget">>, signalled |-> {1}]}
====
