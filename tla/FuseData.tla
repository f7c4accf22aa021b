------------------------------ MODULE FuseData ------------------------------
(***************************************************************************)
(* The data and the size of one file: the page cache and i_size of the     *)
(* kernel (kernel/file.c, fuse_change_attributes, fuse_setattr), and what  *)
(* lib/fuse.c knows of the file to decide at an open whether the pages may *)
(* stay (open_auto_cache, update_stat).                                    *)
(*                                                                         *)
(* The file is empty or one page long.  Each change of it, through the     *)
(* mount or behind its back, makes a new version; a page, a size and a     *)
(* stat carry the version they were taken from, so that stale means "of an *)
(* older version".  Locking of pages and of i_mutex is the kernel's        *)
(* (external): a page is locked while it is read or written, a reader      *)
(* takes data from any page that is up to date.                            *)
(*                                                                         *)
(* Not modelled: direct_io, which keeps nothing; and pages of a larger     *)
(* file, which are read and dropped in the same way.                       *)
(***************************************************************************)
EXTENDS Integers, FiniteSets

CONSTANTS
    Users,        \* the tasks that use the file
    CacheModes,   \* the mount options: "plain", "kernel_cache", "auto_cache"
    MaxVer,       \* bound: changes of the file
    MaxCalls,     \* bound: opens, reads, writes, truncations and GETATTRs
    MaxDataFaults \* bound: killed opens, failed requests

Nobody == "nobody"

ASSUME DataAssumption == MaxVer \in Nat /\ MaxCalls \in Nat
                         /\ MaxDataFaults \in Nat /\ Nobody \notin Users

VARIABLES
    cmode,     \* the mount option
    srv,       \* external: version, mtime and size of the file
    page,      \* the page: up to date, version, who locks it, excused
    isize,     \* i_size, its version, and whether a late reply wrote it
    node,      \* cache_valid, mtime and size of the stat, its version and age
    user,      \* what each task is doing
    ga,        \* a GETATTR under way
    done,      \* the version of the last change completed through the mount
    lost,      \* an open that was to drop the pages was cancelled
    calls,     \* calls so far
    dataFaults \* faults so far

dataVars == <<cmode, srv, page, isize, node, user, ga, done, lost, calls, dataFaults>>

Inf == MaxVer + 1   \* data that a write has put in a page and not yet stored
Stat == [mt |-> srv.mt, size |-> srv.size, ver |-> srv.ver]
MaxOf(a, b) == IF a >= b THEN a ELSE b
MinOf(a, b) == IF a =< b THEN a ELSE b

\* A change through the mount or by others; others may leave the mtime.
Changed(size, tick) == [ver |-> srv.ver + 1, mt |-> srv.mt + tick, size |-> size]

NoPage == [up |-> FALSE, ver |-> 0, lock |-> Nobody, excused |-> FALSE]

\* invalidate_mapping_pages: a locked page stays.
Invalidated(p) == IF p.lock = Nobody THEN NoPage
                  ELSE [p EXCEPT !.excused = TRUE]

Unlocked(p) == IF p.up THEN [p EXCEPT !.lock = Nobody] ELSE NoPage

Call == calls < MaxCalls /\ calls' = calls + 1
DataFault == dataFaults < MaxDataFaults /\ dataFaults' = dataFaults + 1
To(t, stage) == user' = [user EXCEPT ![t].at = stage]
NoStat == [mt |-> 0, size |-> 0, ver |-> 0]
Idle(stage, base) == [at |-> stage, base |-> base, got |-> 0,
                      keep |-> FALSE, whole |-> FALSE, st |-> NoStat]
ToIdle(t) == user' = [user EXCEPT ![t] = Idle("idle", @.base)]
ToClosed(t) == user' = [user EXCEPT ![t] = Idle("closed", 0)]
Size(size, ver, late) == IF size = 0 THEN [size |-> 0, ver |-> ver, late |-> late]
                         ELSE [size |-> 1, ver |-> 0, late |-> FALSE]

(***************************************************************************)
(* libfuse.                                                                *)
(***************************************************************************)
\* Mutant: only a change of the size makes the cache invalid.
update_stat_Size(n, st) ==
    [valid |-> n.valid /\ st.size = n.size,
     mt |-> st.mt, size |-> st.size, ver |-> st.ver, fresh |-> TRUE]

update_stat(n, st) ==
    [valid |-> n.valid /\ st.mt = n.mt /\ st.size = n.size,
     mt |-> st.mt, size |-> st.size, ver |-> st.ver, fresh |-> TRUE]

\* The stat is older than ac_attr_timeout.
Ages ==
    /\ node.fresh /\ cmode = "auto_cache"
    /\ node' = [node EXCEPT !.fresh = FALSE]
    /\ UNCHANGED <<cmode, srv, page, isize, user, ga, done, lost, calls, dataFaults>>

\* The decision of an open, from the node as it is under f->lock.
Decide(t, n, base) ==
    /\ user' = [user EXCEPT ![t].at = "opened", ![t].keep = n.valid, ![t].st = NoStat,
                            ![t].base = base]
    /\ node' = [n EXCEPT !.valid = TRUE]

\* What an open promises: the file as it is now, or under kernel_cache the
\* changes through the mount.
Promise == IF cmode = "kernel_cache" THEN done ELSE srv.ver

\* Up to the stat, which is taken with f->lock given back.
fuse_lib_open(t) ==
    /\ user[t].at = "closed" /\ Call
    /\ IF cmode # "auto_cache"
       THEN /\ user' = [user EXCEPT ![t].at = "opened", ![t].base = Promise,
                                    ![t].keep = cmode = "kernel_cache"]
            /\ UNCHANGED node
       ELSE IF node.valid /\ ~node.fresh
       THEN /\ user' = [user EXCEPT ![t].at = "stat", ![t].base = Promise,
                                    ![t].st = Stat]
            /\ UNCHANGED node
       ELSE Decide(t, node, IF node.valid THEN node.ver ELSE Promise)
    /\ UNCHANGED <<cmode, srv, page, isize, ga, done, lost, dataFaults>>

open_auto_cache(t) ==
    /\ user[t].at = "stat"
    /\ \/ /\ Decide(t, update_stat(node, user[t].st), user[t].base)
          /\ UNCHANGED dataFaults
       \/ /\ Decide(t, [node EXCEPT !.valid = FALSE], user[t].base)
          /\ DataFault
    /\ UNCHANGED <<cmode, srv, page, isize, ga, done, lost, calls>>

(***************************************************************************)
(* Opens and closes, in the kernel.                                        *)
(***************************************************************************)
\* Opens that are to drop the pages and have not done it.
Owed(t) == lost \/ \E u \in Users \ {t} : user[u].at = "opened" /\ ~user[u].keep

fuse_finish_open(t) ==
    /\ user[t].at = "opened"
    /\ page' = IF user[t].keep THEN [page EXCEPT !.excused = @ \/ (Owed(t) /\ page # NoPage)]
               ELSE Invalidated(page)
    /\ lost' = (lost /\ (user[t].keep \/ page.lock # Nobody))
    /\ ToIdle(t)
    /\ UNCHANGED <<cmode, srv, isize, node, ga, done, calls, dataFaults>>

OpenKilled(t) ==
    /\ user[t].at = "opened" /\ DataFault
    /\ lost' = (lost \/ ~user[t].keep)
    /\ ToClosed(t)
    /\ UNCHANGED <<cmode, srv, page, isize, node, ga, done, calls>>

fuse_release(t) ==
    /\ user[t].at = "idle"
    /\ ToClosed(t)
    /\ UNCHANGED <<cmode, srv, page, isize, node, ga, done, lost, calls, dataFaults>>

(***************************************************************************)
(* Reads.                                                                  *)
(***************************************************************************)
fuse_readpage(t) ==
    /\ user[t].at = "idle" /\ Call /\ ~page.up /\ page.lock = Nobody
    /\ page' = [page EXCEPT !.lock = t, !.excused = FALSE]
    /\ To(t, "reading")
    /\ UNCHANGED <<cmode, srv, isize, node, ga, done, lost, dataFaults>>

fuse_lib_read(t) ==
    /\ user[t].at = "reading"
    /\ user' = [user EXCEPT ![t].at = "readback", ![t].got = srv.ver]
    /\ UNCHANGED <<cmode, srv, page, isize, node, ga, done, lost, calls, dataFaults>>

fuse_readpages_end(t) ==
    /\ user[t].at = "readback"
    /\ \/ /\ page' = [page EXCEPT !.up = TRUE, !.ver = user[t].got, !.lock = Nobody]
          /\ UNCHANGED dataFaults
       \/ /\ DataFault
          /\ page' = NoPage
    /\ ToIdle(t)
    /\ UNCHANGED <<cmode, srv, isize, node, ga, done, lost, calls>>

(***************************************************************************)
(* Writes and truncations, one at a time (i_mutex).                        *)
(***************************************************************************)
HasMutex(t) == user[t].at \in {"write", "written", "refused", "setstat", "setback",
                               "truncate"}
MutexFree == \A u \in Users : ~HasMutex(u)

fuse_prepare_write(t, whole) ==
    /\ user[t].at = "idle" /\ MutexFree /\ page.lock = Nobody /\ Call
    /\ srv.ver < MaxVer
    /\ page' = [page EXCEPT !.lock = t, !.excused = @ /\ ~whole,
                            !.ver = IF whole \/ page.up THEN Inf ELSE 0]
    /\ user' = [user EXCEPT ![t].at = "write", ![t].whole = whole]
    /\ UNCHANGED <<cmode, srv, isize, node, ga, done, lost, dataFaults>>

fuse_lib_write(t) ==
    /\ user[t].at = "write"
    /\ \/ /\ srv.ver < MaxVer
          /\ srv' = Changed(1, 1)
          /\ user' = [user EXCEPT ![t].at = "written", ![t].got = srv.ver + 1]
          /\ UNCHANGED dataFaults
       \/ /\ DataFault
          /\ To(t, "refused")
          /\ UNCHANGED srv
    /\ UNCHANGED <<cmode, page, isize, node, ga, done, lost, calls>>

\* i_size after a write up to the end of the page.
SizeWritten == Size(1, 0, FALSE)

\* A change has completed; a GETATTR that is out now will be late.
Completed(v) ==
    /\ done' = MaxOf(done, v)
    /\ ga' = [ga EXCEPT !.late = ga.at # "none"]

fuse_commit_write(t) ==
    LET v == user[t].got
    IN  /\ user[t].at = "written"
        /\ page' = Unlocked([page EXCEPT !.up = @ \/ user[t].whole,
                                         !.ver = IF @ = Inf THEN v ELSE @])
        /\ isize' = SizeWritten
        /\ Completed(v)
        /\ ToIdle(t)
        /\ UNCHANGED <<cmode, srv, node, lost, calls, dataFaults>>

\* A refused write leaves its data in a page that was up to date.
WriteRefused(t) ==
    /\ user[t].at = "refused"
    /\ page' = Unlocked(page)
    /\ ToIdle(t)
    /\ UNCHANGED <<cmode, srv, isize, node, ga, done, lost, calls, dataFaults>>

\* Truncation to nothing: SETATTR, with the stat that follows it.
fuse_lib_setattr(t) ==
    /\ user[t].at = "idle" /\ Call /\ MutexFree /\ srv.ver < MaxVer
    /\ srv' = Changed(0, 1)
    /\ user' = [user EXCEPT
                   ![t].at = IF cmode = "auto_cache" THEN "setstat" ELSE "setback",
                   ![t].st = [mt |-> srv'.mt, size |-> 0, ver |-> srv'.ver]]
    /\ UNCHANGED <<cmode, page, isize, node, ga, done, lost, dataFaults>>

SetattrNode(t) ==
    /\ user[t].at = "setstat"
    /\ node' = update_stat(node, user[t].st)
    /\ To(t, "setback")
    /\ UNCHANGED <<cmode, srv, page, isize, ga, done, lost, calls, dataFaults>>

\* fuse_vmtruncate writes i_size; the page goes when it is not locked.
fuse_vmtruncate(t) ==
    LET st == user[t].st
    IN  /\ user[t].at = "setback"
        /\ isize' = Size(st.size, st.ver, FALSE)
        /\ IF isize.size > st.size
           THEN To(t, "truncate") /\ UNCHANGED <<done, ga>>
           ELSE ToIdle(t) /\ Completed(st.ver)
        /\ UNCHANGED <<cmode, srv, page, node, lost, calls, dataFaults>>

truncate_inode_pages(t) ==
    LET st == user[t].st
    IN  /\ user[t].at = "truncate" /\ page.lock = Nobody
        /\ page' = NoPage
        /\ isize' = Size(st.size, st.ver, FALSE)
        /\ Completed(st.ver)
        /\ ToIdle(t)
        /\ UNCHANGED <<cmode, srv, node, lost, calls, dataFaults>>

(***************************************************************************)
(* GETATTR, by a task of its own.                                          *)
(***************************************************************************)
fuse_lib_getattr ==
    /\ ga.at = "none" /\ Call
    /\ ga' = [at |-> IF cmode = "auto_cache" THEN "stat" ELSE "reply", st |-> Stat,
              late |-> FALSE]
    /\ UNCHANGED <<cmode, srv, page, isize, node, user, done, lost, dataFaults>>

GetattrNode ==
    /\ ga.at = "stat"
    /\ node' = update_stat(node, ga.st)
    /\ ga' = [ga EXCEPT !.at = "reply"]
    /\ UNCHANGED <<cmode, srv, page, isize, user, done, lost, calls, dataFaults>>

NoGetattr == [at |-> "none", st |-> NoStat, late |-> FALSE]

\* fuse_do_getattr's fuse_change_attributes.
fuse_change_attributes ==
    /\ ga.at = "reply"
    /\ page' = IF isize.size # ga.st.size THEN Invalidated(page) ELSE page
    /\ isize' = Size(ga.st.size, ga.st.ver, ga.late)
    /\ lost' = (lost /\ ~(isize.size # ga.st.size /\ page.lock = Nobody))
    /\ ga' = NoGetattr
    /\ UNCHANGED <<cmode, srv, node, user, done, calls, dataFaults>>

(***************************************************************************)
(* Others change the file behind the mount.  A change that leaves mtime    *)
(* and size as they were is one that auto_cache cannot see.                *)
(***************************************************************************)
Remote ==
    /\ cmode # "kernel_cache" /\ srv.ver < MaxVer
    /\ \E size \in 0..1, tick \in (IF cmode = "auto_cache" THEN 0..1 ELSE {1}) :
          /\ srv' = Changed(size, tick)
          /\ page' = [page EXCEPT !.excused = @ \/ (tick = 0 /\ page # NoPage)]
    /\ UNCHANGED <<cmode, isize, node, user, ga, done, lost, calls, dataFaults>>

DataInit ==
    /\ cmode \in CacheModes
    /\ srv = [ver |-> 0, mt |-> 0, size |-> 1]
    /\ isize = Size(1, 0, FALSE)
    /\ node = [valid |-> FALSE, mt |-> 0, size |-> 1, ver |-> 0, fresh |-> TRUE]
    /\ page = NoPage
    /\ user = [t \in Users |-> Idle("closed", 0)]
    /\ ga = NoGetattr
    /\ done = 0 /\ lost = FALSE /\ calls = 0 /\ dataFaults = 0

DataNext ==
    \/ \E t \in Users :
          \/ fuse_lib_open(t) \/ open_auto_cache(t)
          \/ fuse_finish_open(t) \/ OpenKilled(t) \/ fuse_release(t)
          \/ fuse_readpage(t) \/ fuse_lib_read(t) \/ fuse_readpages_end(t)
          \/ \E whole \in BOOLEAN : fuse_prepare_write(t, whole)
          \/ fuse_lib_write(t) \/ fuse_commit_write(t) \/ WriteRefused(t)
          \/ fuse_lib_setattr(t) \/ SetattrNode(t)
          \/ fuse_vmtruncate(t) \/ truncate_inode_pages(t)
    \/ fuse_lib_getattr \/ GetattrNode \/ fuse_change_attributes
    \/ Ages \/ Remote

(***************************************************************************)
(* ReadsFresh: a task that has the file open may read at any time, and     *)
(* what the kernel would give it is as new as the last change completed    *)
(* through the mount and as the file was when the open was served (under   *)
(* auto_cache, as the stat that the open trusted).  Excepted are the       *)
(* windows that the code leaves: a page that was locked when it was to be  *)
(* dropped; an open with keep_cache while another that was to drop the     *)
(* pages is not finished, or was cancelled; a change that left mtime and   *)
(* size; and a size from a GETATTR that a change overtook.                 *)
(***************************************************************************)
ReadsFresh ==
    \A t \in Users :
        user[t].at = "idle" /\ page.up =>
            IF isize.size = 0
            THEN isize.ver >= done \/ isize.late
            ELSE page.ver >= MaxOf(user[t].base, done) \/ page.excused
====
