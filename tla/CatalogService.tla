--------------------------- MODULE CatalogService ---------------------------
(***************************************************************************)
(* What the daemon promises to its clients, without probes, windows or     *)
(* descriptors.  Requests are independent of each other.  A request that   *)
(* found a usable catalog and saw it stay is answered in one step, and     *)
(* rightly; one during which the catalog was changed may be answered       *)
(* anything.  The answer is given once.  The service stops only because a  *)
(* request found no catalog.                                               *)
(***************************************************************************)
EXTENDS CatalogView

CONSTANTS Threads, Paths, Catalogs,
          Usable(_)     \* the catalogs the service was started for

VARIABLES catalog, up, calls

svars == <<catalog, up, calls>>

NoCall == [state |-> "idle", op |-> "none", path |-> <<>>, steady |-> FALSE,
           ans |-> Error("OK")]

Init ==
    /\ catalog \in Catalogs
    /\ up = TRUE
    /\ calls = [t \in Threads |-> NoCall]

Invoke(t, op, path) ==
    /\ up
    /\ calls[t] = NoCall
    /\ calls' = [calls EXCEPT ![t] =
            [state |-> "pending", op |-> op, path |-> path,
             steady |-> Usable(catalog), ans |-> Error("OK")]]
    /\ UNCHANGED <<catalog, up>>

(* A steady request may still be refused for want of memory.               *)
Allowed(call, ans) ==
    call.steady => \/ ans \in RightAnswers(catalog, call.op, call.path)
                   \/ ans = Error("ENOMEM") /\ call.op = "readdir"

Respond(t) ==
    /\ up
    /\ calls[t].state = "pending"
    /\ calls'[t].ans \in Answer
    /\ Allowed(calls[t], calls'[t].ans)
    /\ calls' = [calls EXCEPT ![t].state = "done", ![t].ans = calls'[t].ans]
    /\ UNCHANGED <<catalog, up>>

(* Nothing can be changed and no file contents are to be had.              *)
Dispose(t, op) ==
    /\ up
    /\ calls[t] = NoCall
    /\ calls'[t].ans.ret = IF op \in ModifyingOps THEN "EROFS"
                           ELSE IF op \in ContentOps THEN "EPERM" ELSE "OK"
    /\ calls' = [calls EXCEPT ![t] =
            [NoCall EXCEPT !.state = "done", !.ans = calls'[t].ans]]
    /\ UNCHANGED <<catalog, up>>

Collect(t) ==
    /\ up
    /\ calls[t].state = "done"
    /\ calls' = [calls EXCEPT ![t] = NoCall]
    /\ UNCHANGED <<catalog, up>>

Stop(t) ==
    /\ up
    /\ calls[t].state = "pending"
    /\ ~catalog.present
    /\ up' = FALSE
    /\ UNCHANGED <<catalog, calls>>

Change(c) ==
    /\ catalog' = c
    /\ calls' = [t \in Threads |->
            IF calls[t].state = "pending"
            THEN [calls[t] EXCEPT !.steady = FALSE] ELSE calls[t]]
    /\ UNCHANGED up

Next ==
    \/ \E t \in Threads :
        \/ \E op \in CatalogOps, path \in Paths : Invoke(t, op, path)
        \/ \E op \in FixedOps : Dispose(t, op)
        \/ Respond(t) \/ Collect(t) \/ Stop(t)
    \/ \E c \in Catalogs : Change(c)

Spec == Init /\ [][Next]_svars
=============================================================================
