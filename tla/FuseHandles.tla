---------------------------- MODULE FuseHandles ----------------------------
(***************************************************************************)
(* What is done with an open file or directory: listing (FuseDir), locks   *)
(* (FuseLocks), data and size (FuseData), and the calls that pass a        *)
(* question to the file system (FuseCalls).                                *)
(*                                                                         *)
(* The four keep their state apart in the code as well: the handle of a    *)
(* directory, the lock list of a node, the pages and the stat of a file,   *)
(* the latches of the connection.  A behaviour is one of any of them.      *)
(***************************************************************************)
EXTENDS FuseDir, FuseLocks, FuseData, FuseCalls

VARIABLE use   \* what the behaviour is about

vars == <<use, dirVars, lockVars, dataVars, callVars>>

Init ==
    /\ use \in {"listing", "locking", "data", "calls"}
    /\ DirInit /\ (use # "listing" => names = {} /\ ~offsets)
    /\ LocksInit /\ (use # "locking" => ~hasFlush /\ ownerOf = [t \in Lockers |-> t])
    /\ DataInit /\ (use # "data" => cmode = "plain")
    /\ CallsInit /\ (use # "calls" => methods = CallOps /\ ~dperm /\ allowed = {})

Next ==
    \/ /\ use = "listing" /\ DirNext
       /\ UNCHANGED <<use, lockVars, dataVars, callVars>>
    \/ /\ use = "locking" /\ LocksNext
       /\ UNCHANGED <<use, dirVars, dataVars, callVars>>
    \/ /\ use = "data" /\ DataNext
       /\ UNCHANGED <<use, dirVars, lockVars, callVars>>
    \/ /\ use = "calls" /\ CallsNext
       /\ UNCHANGED <<use, dirVars, lockVars, dataVars>>

Spec == Init /\ [][Next]_vars
====
