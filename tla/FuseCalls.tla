----------------------------- MODULE FuseCalls -----------------------------
(***************************************************************************)
(* The calls that only pass a question to the file system, and what the    *)
(* kernel remembers of the answers: which methods the file system lacks    *)
(* (the latches no_access, no_fsync, ... of struct fuse_conn) and the mode *)
(* of an inode, from which it checks permissions itself                    *)
(* (kernel/dir.c, file.c, inode.c; the fuse_lib_* and fuse_fs_* functions  *)
(* of lib/fuse.c).                                                         *)
(*                                                                         *)
(* The latches are bits of one word, and so are conn_init and no_lock of   *)
(* the INIT reply.  The word is read, changed and written back without a   *)
(* lock: that is two steps here, and a write may undo another.             *)
(*                                                                         *)
(* Latches and modes share nothing, so a behaviour follows one of them:    *)
(* with default_permissions the checks of the mode, without it the rest.   *)
(***************************************************************************)
EXTENDS Naturals, FiniteSets

CONSTANTS
    Callers,   \* the tasks
    CallOps,   \* the operations that they use
    MaxLacking \* bound: methods that the file system lacks

ASSUME CallsAssumption == MaxLacking \in Nat

VARIABLES
    bits,      \* the bit field: op for no_op (lk: no_lock, by INIT), conn_init
    initAt,    \* how far the reply to INIT is handled
    initWord,  \* the word that its handler has read
    methods,   \* the operations that the file system implements
    dperm,     \* mounted with default_permissions
    allowed,   \* the tasks that fuse_allow_task lets through
    mode,      \* external: the file's mode permits the access
    imode,     \* the inode's mode permits it
    ccall      \* what each task is doing

callVars == <<bits, initAt, initWord, methods, dperm, allowed, mode, imode, ccall>>

OkOps == {"access", "fsync", "fsyncdir", "bmap"}
XattrOps == {"setxattr", "getxattr", "listxattr", "removexattr"}
LatchOps == OkOps \cup XattrOps

\* What a call returns when the file system has no such method.
Fallback(op) == CASE op \in XattrOps -> "EOPNOTSUPP"
                  [] op = "readlink" -> "ENOSYS"
                  [] OTHER -> "ok"

AtRest == [at |-> "idle", op |-> "none", res |-> "none", word |-> {}, st |-> FALSE,
           denied |-> FALSE, old |-> {}, over |-> FALSE]

Return(t, res) == ccall' = [ccall EXCEPT ![t].at = "ret", ![t].res = res]
Go(t, stage) == ccall' = [ccall EXCEPT ![t].at = stage]

(***************************************************************************)
(* INIT.  No request is made before its reply is handled (fc->blocked).    *)
(***************************************************************************)
Blocked == initAt # "done"
InitBits == {"conn_init"} \cup (IF "lk" \in methods THEN {} ELSE {"lk"})

process_init_reply ==
    /\ \/ /\ initAt = "sent"
          /\ initAt' = "set" /\ initWord' = bits
          /\ UNCHANGED bits
       \/ /\ initAt = "set"
          /\ bits' = initWord \cup InitBits
          /\ initAt' = "done" /\ initWord' = {}
    /\ UNCHANGED <<methods, dperm, allowed, mode, imode, ccall>>

\* Mutant: calls do not wait for the reply to INIT.
GetReq_Early == TRUE

\* fuse_get_req lets a call through.
GetReq == ~Blocked

(***************************************************************************)
(* Calls with a latch, and calls without one.                              *)
(***************************************************************************)
Begin(t, op) ==
    /\ ccall[t].at = "idle" /\ op \in CallOps /\ ~dperm /\ GetReq
    /\ ccall' = [ccall EXCEPT ![t] =
          IF op = "listxattr" /\ t \notin allowed
          THEN [AtRest EXCEPT !.at = "ret", !.op = op, !.res = "EACCES"]
          ELSE IF op = "statfs" /\ t \notin allowed
          THEN [AtRest EXCEPT !.at = "ret", !.op = op, !.res = "ok"]
          ELSE IF op \in bits
          THEN [AtRest EXCEPT !.at = "ret", !.op = op, !.res = Fallback(op)]
          ELSE [AtRest EXCEPT !.at = "sent", !.op = op]]
    /\ UNCHANGED <<bits, initAt, initWord, methods, dperm, allowed, mode, imode>>

fuse_access(t) == t \in allowed /\ Begin(t, "access")
fuse_fsync_common(t) == \E op \in {"fsync", "fsyncdir"} : Begin(t, op)
fuse_xattr(t) == \E op \in XattrOps : Begin(t, op)
fuse_bmap(t) == Begin(t, "bmap")
fuse_statfs(t) == Begin(t, "statfs")
read_link(t) == Begin(t, "readlink")
fuse_file_lock(t) == Begin(t, "lk")

\* What libfuse calls of the file system, and what it says for a method that
\* is not there.
fuse_fs(op) == IF op \in methods THEN {"ok", "EIO"}
               ELSE IF op = "statfs" THEN {"ok"} ELSE {"ENOSYS"}

fuse_lib_handler(t) ==
    /\ ccall[t].at = "sent" /\ ccall[t].op \notin {"permission", "getattr"}
    /\ \E res \in fuse_fs(ccall[t].op) :
          ccall' = [ccall EXCEPT ![t].at = "reply", ![t].res = res]
    /\ UNCHANGED <<bits, initAt, initWord, methods, dperm, allowed, mode, imode>>

\* The caller has the answer; ENOSYS starts the setting of the latch.
AnswerOf(t) ==
    LET c == ccall[t]
    IN  /\ c.at = "reply"
        /\ IF c.res = "ENOSYS" /\ c.op \in LatchOps
           THEN ccall' = [ccall EXCEPT ![t].at = "latch", ![t].word = bits]
           ELSE Return(t, c.res)
        /\ UNCHANGED <<bits, initAt, initWord, methods, dperm, allowed, mode, imode>>

SetLatch(t) ==
    LET c == ccall[t]
    IN  /\ c.at = "latch"
        /\ bits' = c.word \cup {c.op}
        /\ ccall' = [ccall EXCEPT ![t].at = "ret", ![t].res = Fallback(c.op),
                                  ![t].word = {}]
        /\ UNCHANGED <<initAt, initWord, methods, dperm, allowed, mode, imode>>

Finish(t) ==
    /\ ccall[t].at = "ret"
    /\ ccall' = [ccall EXCEPT ![t] = AtRest]
    /\ UNCHANGED <<bits, initAt, initWord, methods, dperm, allowed, mode, imode>>

(***************************************************************************)
(* Permissions under default_permissions, and the refresh of attributes.   *)
(***************************************************************************)
\* Attribute replies that were fetched and are not applied yet.
Fetched == {u \in Callers : ccall[u].at = "attr"}

fuse_permission(t) ==
    /\ ccall[t].at = "idle" /\ dperm /\ "permission" \in CallOps /\ GetReq
    /\ ccall' = [ccall EXCEPT ![t] =
          [AtRest EXCEPT !.op = "permission",
                         !.at = IF t \in allowed /\ ~imode THEN "sent" ELSE "ret",
                         !.res = IF t \notin allowed THEN "EACCES" ELSE "ok",
                         !.denied = ~mode, !.old = Fetched]]
    /\ UNCHANGED <<bits, initAt, initWord, methods, dperm, allowed, mode, imode>>

\* A stat whose attributes have expired.
fuse_revalidate(t) ==
    /\ ccall[t].at = "idle" /\ dperm /\ "getattr" \in CallOps /\ GetReq
    /\ ccall' = [ccall EXCEPT ![t] =
          [AtRest EXCEPT !.op = "getattr",
                         !.at = IF t \in allowed THEN "sent" ELSE "ret",
                         !.res = IF t \in allowed THEN "none" ELSE "EACCES"]]
    /\ UNCHANGED <<bits, initAt, initWord, methods, dperm, allowed, mode, imode>>

fuse_fs_getattr(t) ==
    /\ ccall[t].at = "sent" /\ ccall[t].op \in {"permission", "getattr"}
    /\ \/ ccall' = [ccall EXCEPT ![t].at = "attr", ![t].st = mode]
       \/ Return(t, "EIO")
    /\ UNCHANGED <<bits, initAt, initWord, methods, dperm, allowed, mode, imode>>

fuse_do_getattr(t) ==
    LET c == ccall[t]
    IN  /\ c.at = "attr"
        /\ imode' = c.st
        /\ ccall' = [u \in Callers |->
              IF u = t THEN IF c.op = "getattr"
                            THEN [c EXCEPT !.at = "ret", !.res = "ok"]
                            ELSE [c EXCEPT !.at = "recheck", !.st = FALSE]
              ELSE [ccall[u] EXCEPT !.over = ccall[u].over \/ t \in ccall[u].old,
                                    !.old = ccall[u].old \ {t}]]
        /\ UNCHANGED <<bits, initAt, initWord, methods, dperm, allowed, mode>>

generic_permission(t) ==
    /\ ccall[t].at = "recheck"
    /\ Return(t, IF imode THEN "ok" ELSE "EACCES")
    /\ UNCHANGED <<bits, initAt, initWord, methods, dperm, allowed, mode, imode>>

\* The mode of the file changes in the file system.
Chmod ==
    /\ dperm
    /\ mode' = ~mode
    /\ ccall' = [u \in Callers |->
                    IF ccall[u].op = "permission"
                    THEN [ccall[u] EXCEPT !.denied = ccall[u].denied \/ ~mode']
                    ELSE ccall[u]]
    /\ UNCHANGED <<bits, initAt, initWord, methods, dperm, allowed, imode>>

CallsInit ==
    /\ bits = {} /\ initAt = "sent" /\ initWord = {}
    /\ dperm \in BOOLEAN
    /\ \E lacking \in SUBSET (CallOps \ {"permission", "getattr"}) :
          /\ Cardinality(lacking) =< (IF dperm THEN 0 ELSE MaxLacking)
          /\ methods = CallOps \ lacking
    /\ allowed \in SUBSET Callers
    /\ mode \in (IF dperm THEN BOOLEAN ELSE {TRUE})
    /\ imode \in (IF dperm THEN BOOLEAN ELSE {TRUE})
    /\ ccall = [t \in Callers |-> AtRest]

CallsNext ==
    \/ process_init_reply \/ Chmod
    \/ \E t \in Callers :
          \/ fuse_access(t) \/ fuse_fsync_common(t) \/ fuse_xattr(t) \/ fuse_bmap(t)
          \/ fuse_statfs(t) \/ read_link(t) \/ fuse_file_lock(t)
          \/ fuse_lib_handler(t) \/ AnswerOf(t) \/ SetLatch(t) \/ Finish(t)
          \/ fuse_permission(t) \/ fuse_revalidate(t) \/ fuse_fs_getattr(t)
          \/ fuse_do_getattr(t) \/ generic_permission(t)

(***************************************************************************)
(* CallsTrue: fuse_i.h says of the latches that "races in setting them     *)
(* will not cause malfunction".  Whichever bits are lost on the way, a     *)
(* call for a method that is there returns the file system's own answer, a *)
(* call for one that is not returns the same at every time, and a lock     *)
(* call never reaches a file system that has none.  Under                  *)
(* default_permissions a task is refused only when the mode forbade the    *)
(* access at some time of the call, or when attributes that were fetched   *)
(* before the call came in during it.                                      *)
(***************************************************************************)
CallsTrue ==
    \A t \in Callers :
        LET c == ccall[t]
        IN  c.at = "ret" =>
              /\ c.op \in LatchOps \cup {"lk"} /\ c.res # "EACCES" =>
                    IF c.op \in methods THEN c.res \in {"ok", "EIO"}
                    ELSE c.res = Fallback(c.op)
              /\ c.op = "permission" /\ c.res = "EACCES" /\ t \in allowed =>
                    c.denied \/ c.over
====
