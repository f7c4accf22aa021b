------------------------------ MODULE FuseTree ------------------------------
(***************************************************************************)
(* The tree of a FUSE file system as its three sides see it: the disk, the *)
(* node table of libfuse (FuseNode; the handlers fuse_lib_* of lib/fuse.c) *)
(* and the dentries and inodes of the kernel (kernel/dir.c, inode.c and    *)
(* the open and release of file.c).                                        *)
(*                                                                         *)
(* A task of the kernel has at most one request out; the daemon handles    *)
(* requests in any order, one thread each.  A handler is one step: it      *)
(* holds tree_lock, for reading or for writing, from the making of the     *)
(* path to the last change of the table, and those that hold it for        *)
(* reading at the same time only add to the disk.  The exceptions have     *)
(* steps of their own: FORGET takes no tree_lock, a release gives f->lock  *)
(* back before it unlinks a hidden file, and what a handler does after the *)
(* kernel refused its reply (the call was killed) comes later.             *)
(*                                                                         *)
(* Not modelled: changes of the disk by others, and so files that change   *)
(* their type under the kernel; negative dentries, which only save a       *)
(* LOOKUP; the generation of a node, which only NFS handles use.           *)
(***************************************************************************)
EXTENDS FuseNode

CONSTANTS
    Tasks,       \* the tasks that use the file system
    Ops,         \* the operations that they use
    MaxObj,      \* bound: files and directories, the root included
    MaxLookup,   \* bound: lookups that the kernel has counted or gives back
    MaxFaults    \* bound: calls that are killed and allocations that fail

ASSUME TreeAssumption == MaxObj \in Nat \ {0} /\ MaxLookup \in Nat \ {0}
                         /\ MaxFaults \in Nat /\ IsFiniteSet(Tasks)

VARIABLES
    disk,    \* what the file system of the daemon holds
    f,       \* the node table of libfuse
    k,       \* the dentries and the lookup counts of the kernel
    task,    \* what each task does, and the inodes that it holds
    rel,     \* the release, or cancelled open, that a task left behind
    forgets, \* the forgets under way, for each node
    faults   \* killed calls and failed allocations so far

vars == <<disk, f, k, task, rel, forgets, faults>>

\* A step with n faults in it.
Fault(n) == faults + n =< MaxFaults /\ faults' = faults + n

(***************************************************************************)
(* The disk (external: the file system that the daemon serves).            *)
(***************************************************************************)
RootObj == 1
Objs == 1..MaxObj

\* The object at a path, 0 when there is none.
At(d, path) ==
    LET walk[i \in 0..Len(path)] ==
            IF i = 0 THEN RootObj
            ELSE IF walk[i - 1] = 0 THEN 0 ELSE d.ent[walk[i - 1]][path[i]]
    IN  walk[Len(path)]

Dir(d, path) == At(d, SubSeq(path, 1, Len(path) - 1))
Last(path) == path[Len(path)]
Empty(d, o) == \A n \in AllNames : d.ent[o][n] = 0

\* Numbers of objects that no name, node or open file stands for.
FreeObjs == {o \in Objs \ {RootObj} :
                /\ \A p \in Objs, n \in AllNames : disk.ent[p][n] # o
                /\ \A i \in DOMAIN f.nodes : f.nodes[i].obj # o}

fs_make(d, path, kind) ==
    LET o == CHOOSE x \in FreeObjs : \A y \in FreeObjs : x =< y
    IN  [d EXCEPT !.ent[Dir(d, path)][Last(path)] = o, !.kind[o] = kind]

fs_link(d, path, o) == [d EXCEPT !.ent[Dir(d, path)][Last(path)] = o]
fs_remove(d, path) == [d EXCEPT !.ent[Dir(d, path)][Last(path)] = 0]
fs_rename(d, old, new) == fs_link(fs_remove(d, old), new, At(d, old))

CanMake(d, path) == Dir(d, path) # 0 /\ At(d, path) = 0
CanRename(d, old, new) ==
    LET o == At(d, old)
        n == At(d, new)
    IN  /\ o # 0 /\ Dir(d, new) # 0
        /\ n # 0 => /\ o # n /\ d.kind[o] = d.kind[n]
                    /\ d.kind[n] = "dir" => Empty(d, n)

(***************************************************************************)
(* The handlers of libfuse: the set of outcomes that each may have.  The   *)
(* file system may refuse anything, with an error and no effect.           *)
(***************************************************************************)
Outcome(g, d, err, ino) == [f |-> g, disk |-> d, err |-> err, ino |-> ino]
Error(g, d) == {Outcome(g, d, "error", 0)}

lookup_path(g, d, parent, name, path) ==
    IF At(d, path) = 0 THEN Error(g, d)
    ELSE {Outcome(n.f, d, IF n.ino = 0 THEN "ENOMEM" ELSE "ok", n.ino) :
             n \in find_node(g, parent, name, At(d, path))}

fuse_lib_lookup(r) ==
    LET p == get_path_name(f, r.at, r.name)
    IN  Error(f, disk) \cup
        (IF p.ok THEN lookup_path(f, disk, r.at, r.name, p.path) ELSE {})

\* MKNOD, MKDIR, SYMLINK and CREATE: make it, then look it up.
fuse_lib_mknod(r, kind) ==
    LET p == get_path_name(f, r.at, r.name)
    IN  Error(f, disk) \cup
        (IF p.ok /\ CanMake(disk, p.path)
         THEN lookup_path(f, fs_make(disk, p.path, kind), r.at, r.name, p.path)
         ELSE {})

fuse_lib_link(r) ==
    LET o == get_path(f, r.ino)
        p == get_path_name(f, r.at, r.name)
    IN  Error(f, disk) \cup
        (IF o.ok /\ p.ok /\ CanMake(disk, p.path) /\ At(disk, o.path) # 0
         THEN lookup_path(f, fs_link(disk, p.path, At(disk, o.path)),
                          r.at, r.name, p.path)
         ELSE {})

\* The name is one that no node and no file has; the counter moves past it.
hidden_name(g, d, dir) ==
    LET free == {i \in DOMAIN HiddenNames :
                    /\ i > g.hidectr
                    /\ lookup_node(g, dir, HiddenNames[i]) = 0
                    /\ At(d, get_path_name(g, dir, HiddenNames[i]).path) = 0}
    IN  IF free = {} THEN 0 ELSE CHOOSE i \in free : \A j \in free : i =< j

\* The outcomes of hide_node, for a name that is in use.
hide_node(g, d, path, dir, name) ==
    LET i == hidden_name(g, d, dir)
        new == HiddenNames[i]
        newpath == get_path_name(g, dir, new).path
    IN  Error(g, d) \cup
        (IF i = 0 \/ At(d, path) = 0 THEN {}
         ELSE {Outcome(n.f, fs_rename(d, path, newpath),
                       n.err, 0) :
                  n \in rename_node([g EXCEPT !.hidectr = i],
                                    dir, name, dir, new, TRUE)})

fuse_lib_unlink(r) ==
    LET p == get_path_name(f, r.at, r.name)
        o == At(disk, p.path)
    IN  IF ~p.ok THEN Error(f, disk)
        ELSE IF is_open(f, r.at, r.name)
             THEN hide_node(f, disk, p.path, r.at, r.name)
        ELSE Error(f, disk) \cup
             (IF o # 0 /\ disk.kind[o] = "file"
              THEN {Outcome(remove_node(f, r.at, r.name),
                            fs_remove(disk, p.path), "ok", 0)}
              ELSE {})

fuse_lib_rmdir(r) ==
    LET p == get_path_name(f, r.at, r.name)
        o == At(disk, p.path)
    IN  Error(f, disk) \cup
        (IF p.ok /\ o # 0 /\ disk.kind[o] = "dir" /\ Empty(disk, o)
         THEN {Outcome(remove_node(f, r.at, r.name),
                       fs_remove(disk, p.path), "ok", 0)}
         ELSE {})

\* A file that is in use is hidden before another takes its name.
fuse_lib_rename(r) ==
    LET old == get_path_name(f, r.at, r.name)
        new == get_path_name(f, r.to, r.newname)
        first == IF is_open(f, r.to, r.newname)
                 THEN hide_node(f, disk, new.path, r.to, r.newname)
                 ELSE {Outcome(f, disk, "ok", 0)}
        second(o) ==
            IF o.err # "ok" THEN {o}
            ELSE Error(o.f, o.disk) \cup
                 (IF CanRename(o.disk, old.path, new.path)
                  THEN {Outcome(n.f, fs_rename(o.disk, old.path, new.path),
                                n.err, 0) :
                           n \in rename_node(o.f, r.at, r.name,
                                             r.to, r.newname, FALSE)}
                  ELSE {})
    IN  IF ~old.ok \/ ~new.ok THEN Error(f, disk)
        ELSE UNION {second(o) : o \in first}

Opened(o) == [o EXCEPT !.f = get_node(o.f, o.ino,
                 [o.f EXCEPT !.nodes[o.ino].open_count = @ + 1])]

fuse_lib_create(r) ==
    {IF o.err = "ok" THEN Opened(o) ELSE o : o \in fuse_lib_mknod(r, "file")}

fuse_lib_open(r) ==
    LET p == get_path(f, r.ino)
    IN  Error(f, disk) \cup
        (IF p.ok /\ At(disk, p.path) # 0
         THEN {Opened(Outcome(f, disk, "ok", r.ino))} ELSE {})

(***************************************************************************)
(* Tasks: the VFS, and the operations of the kernel module up to           *)
(* request_send.                                                           *)
(***************************************************************************)
Idle == [pc |-> "idle", op |-> "none", at |-> FUSE_ROOT_ID, name |-> NULL,
         to |-> 0, newname |-> NULL, ino |-> 0, file |-> 0,
         err |-> "none", got |-> 0, mode |-> "none"]

Dentry(dir, name) == {d \in k.dent : d.dir = dir /\ d.name = name}
IsDir(i) == k.mode[i] = "dir"

\* The inodes whose i_mutex the request of a task holds: the directories, and
\* what is removed.  The LOOKUP of a cached entry and OPEN hold none.
Locked(t) ==
    IF task[t].pc = "idle" \/ task[t].op \in {"revalidate", "open"} THEN {}
    ELSE {task[t].at, task[t].to} \cup
         (IF task[t].op \in {"unlink", "rmdir"} THEN {task[t].ino} ELSE {}) \cup
         {d.id : d \in Dentry(task[t].to, task[t].newname)}

CanLock(t, inodes) == \A u \in Tasks \ {t} : Locked(u) \cap inodes = {}

\* The bound on lookups that are counted or being forgotten.
Bounded ==
    LET counted[i \in 0..MaxNode] ==
            IF i = 0 THEN 0
            ELSE counted[i - 1] + k.nlookup[i] + Len(forgets[i])
    IN  counted[MaxNode] < MaxLookup

\* Inodes that something other than a dentry keeps in memory; a RELEASE
\* keeps that of its file until it is answered (fuse_release_common).
Holds(t, i) == i \in {task[t].at, task[t].to, task[t].ino, task[t].file}
Held(i) == \E t \in Tasks : Holds(t, i) \/ (rel[t].kernel /\ rel[t].ino = i)
HeldByOther(t, i) == \/ \E u \in Tasks \ {t} : Holds(u, i)
                     \/ \E u \in Tasks : rel[u].kernel /\ rel[u].ino = i
                     \/ task[t].file = i

Kernel == UNCHANGED <<disk, f, k, rel, forgets, faults>>

Request(t, r) == /\ task[t].pc = "idle" /\ r.op \in Ops
                 /\ task' = [task EXCEPT ![t] = r]
                 /\ Kernel

Ask(t, op, name) == [task[t] EXCEPT !.pc = "sent", !.op = op, !.name = name]

fuse_lookup(t, n) ==
    /\ Dentry(task[t].at, n) = {} /\ CanLock(t, {task[t].at}) /\ Bounded
    /\ Request(t, Ask(t, "lookup", n))

fuse_dentry_revalidate(t, n) ==
    \E d \in Dentry(task[t].at, n) :
        /\ ~d.valid /\ Bounded
        /\ Request(t, [Ask(t, "revalidate", n) EXCEPT !.ino = d.id])

\* MKNOD, MKDIR and CREATE: the name has no dentry, or a negative one.
create_new_entry(t, op, n) ==
    /\ op \in {"mknod", "mkdir", "create"}
    /\ op = "create" => task[t].file = 0 /\ rel[t].pc = "none"
    /\ Dentry(task[t].at, n) = {} /\ CanLock(t, {task[t].at}) /\ Bounded
    /\ Request(t, Ask(t, op, n))

fuse_link(t, n) ==
    \E d \in Dentry(task[t].at, n), m \in Names :
        /\ d.valid /\ ~IsDir(d.id) /\ Bounded
        /\ Dentry(task[t].at, m) = {} /\ CanLock(t, {task[t].at})
        /\ Request(t, [Ask(t, "link", m) EXCEPT !.ino = d.id])

fuse_unlink(t, op, n) ==
    \E d \in Dentry(task[t].at, n) :
        /\ d.valid /\ IsDir(d.id) = (op = "rmdir")
        /\ CanLock(t, {task[t].at, d.id})
        /\ Request(t, [Ask(t, op, n) EXCEPT !.ino = d.id])

\* The VFS refuses to move a directory below itself, and lets one task
\* rename at a time.
fuse_rename(t, n, to, m) ==
    /\ \A u \in Tasks \ {t} : task[u].pc = "idle" \/ task[u].op # "rename"
    /\ to \in {FUSE_ROOT_ID, task[t].at} /\ CanLock(t, {task[t].at, to})
    /\ \E d \in Dentry(task[t].at, n) :
          /\ d.valid /\ d.id # to /\ <<task[t].at, n>> # <<to, m>>
          /\ \A e \in Dentry(to, m) : e.valid /\ IsDir(e.id) = IsDir(d.id)
                                      /\ e.id # task[t].at
          /\ Request(t, [Ask(t, "rename", n) EXCEPT !.to = to, !.newname = m,
                                                    !.ino = d.id])

fuse_open(t, n) ==
    \E d \in Dentry(task[t].at, n) :
        /\ d.valid /\ ~IsDir(d.id)
        /\ task[t].file = 0 /\ rel[t].pc = "none"
        /\ Request(t, [Ask(t, "open", NULL) EXCEPT !.ino = d.id])

\* Down into a directory whose entry is still valid, and back to the start.
Walk(t, n) ==
    /\ task[t].pc = "idle"
    /\ \E d \in Dentry(task[t].at, n) :
          /\ d.valid /\ IsDir(d.id)
          /\ task' = [task EXCEPT ![t].at = d.id]
    /\ Kernel

Leave(t) == /\ task[t].pc = "idle" /\ task[t].at # FUSE_ROOT_ID
            /\ task' = [task EXCEPT ![t].at = FUSE_ROOT_ID]
            /\ Kernel

(***************************************************************************)
(* The daemon.                                                             *)
(***************************************************************************)
NoRel == [pc |-> "none", ino |-> 0, kernel |-> FALSE, forget |-> FALSE,
          ok |-> FALSE, path |-> <<>>]

\* A cancelled open keeps tree_lock for reading until it is released again,
\* and so does a release that is about to unlink.
ReadLocked == \E t \in Tasks : rel[t].pc \in {"cancel", "unlink"}

Outcomes(r) ==
    CASE r.op \in {"lookup", "revalidate"} -> fuse_lib_lookup(r)
      [] r.op = "mknod"  -> fuse_lib_mknod(r, "file")
      [] r.op = "mkdir"  -> fuse_lib_mknod(r, "dir")
      [] r.op = "create" -> fuse_lib_create(r)
      [] r.op = "link"   -> fuse_lib_link(r)
      [] r.op = "unlink" -> fuse_lib_unlink(r)
      [] r.op = "rmdir"  -> fuse_lib_rmdir(r)
      [] r.op = "rename" -> fuse_lib_rename(r)
      [] r.op = "open"   -> fuse_lib_open(r)

\* Nodes that a handler starts from, with get_node.
Needs(r) == IF r.op = "open" THEN {r.ino}
            ELSE IF r.op = "link" THEN {r.at, r.ino} ELSE {r.at, r.to} \ {0}

\* Only the operations that remove or move an entry tell EINTR from other
\* errors.
Reply(t, err, ino, mode) ==
    LET moves == task[t].op \in {"unlink", "rmdir", "rename"}
    IN  task' = [task EXCEPT ![t].pc = "done", ![t].got = ino, ![t].mode = mode,
                             ![t].err = IF err = "ok" \/ (err = "EINTR" /\ moves)
                                        THEN err ELSE "error"]

Forget(i) == forgets' = [forgets EXCEPT ![i] = Append(@, 1)]

\* Mutant: an open that the kernel refused is not released.
Cancel_Never(o, op) == FALSE

\* The open that a refused reply takes back.
Cancel(o, op) == o.err = "ok" /\ op \in {"open", "create"}

\* The reply reaches the task, or the task was killed and the daemon is told
\* ENOENT: then it takes back a lookup (reply_entry) or an open.
Answer(t, o) ==
    LET path == get_path(o.f, o.ino)
        mode == IF o.ino = 0 THEN "none" ELSE o.disk.kind[o.f.nodes[o.ino].obj]
    IN  \/ /\ Reply(t, o.err, o.ino, mode) /\ UNCHANGED <<rel, forgets>>
           /\ Fault(IF o.err = "ENOMEM" THEN 1 ELSE 0)
        \/ /\ Reply(t, "EINTR", 0, "none") /\ Fault(1)
           /\ IF Cancel(o, task[t].op)
              THEN /\ rel' = [rel EXCEPT ![t] =
                        [NoRel EXCEPT !.pc = "cancel", !.ino = o.ino,
                              !.forget = (task[t].op = "create"),
                              !.ok = path.ok, !.path = path.path]]
                   /\ UNCHANGED forgets
              ELSE /\ IF o.ino # 0 THEN Forget(o.ino) ELSE UNCHANGED forgets
                   /\ UNCHANGED rel

Handle(t) ==
    LET r == task[t]
    IN  /\ r.pc = "sent" /\ ~f.abort
        /\ r.op \in {"unlink", "rmdir", "rename"} => ~ReadLocked
        /\ r.op \in {"mknod", "mkdir", "create"} => FreeObjs # {}
        /\ r.op \in {"unlink", "rmdir", "rename", "open"} \/ FreeIds(f) # {}
        /\ IF \E i \in Needs(r) : ~get_node_nocheck(f, i)
           THEN f' = Abort(f) /\ UNCHANGED <<disk, k, task, rel, forgets, faults>>
           ELSE \E o \in Outcomes(r) :
                   f' = o.f /\ disk' = o.disk /\ Answer(t, o) /\ UNCHANGED k

\* A killed task takes a request back that was not read yet.
Kill(t) == task[t].pc = "sent" /\ Reply(t, "EINTR", 0, "none") /\ Fault(1)
           /\ UNCHANGED <<disk, f, k, rel, forgets>>

\* A node that goes while it is open is an abort() to come, in the release
\* that will not find it; the model stops there.
fuse_lib_forget(i) ==
    LET g == forget_node(f, i, Head(forgets[i]))
    IN
    /\ forgets[i] # <<>> /\ ~f.abort
    /\ f' = IF get_node_nocheck(f, i) /\ f.nodes[i].open_count > 0
              /\ ~get_node_nocheck(g, i) THEN Abort(g) ELSE g
    /\ forgets' = [forgets EXCEPT ![i] = Tail(@)]
    /\ UNCHANGED <<disk, k, task, rel, faults>>

\* The end of a release: CREATE's also gives its lookup back.
Released(t) ==
    /\ rel' = [rel EXCEPT ![t] = NoRel]
    /\ IF rel[t].forget THEN Forget(rel[t].ino) ELSE UNCHANGED forgets

\* fuse_do_release, up to the unlock of f->lock; fuse_lib_release makes the
\* path before, a cancelled open has it already.
fuse_do_release(t) ==
    LET i == rel[t].ino
        here == get_path(f, i)
        last == f.nodes[i].is_hidden /\ f.nodes[i].open_count = 1
        pok == IF rel[t].pc = "cancel" THEN rel[t].ok ELSE here.ok
        path == IF rel[t].pc = "cancel" THEN rel[t].path ELSE here.path
    IN  /\ rel[t].pc \in {"sent", "cancel"} /\ ~f.abort
        /\ IF ~get_node_nocheck(f, i) \/ f.nodes[i].open_count = 0
           THEN f' = Abort(f) /\ UNCHANGED <<rel, forgets>>
           ELSE /\ f' = [f EXCEPT !.nodes[i].open_count = @ - 1,
                                  !.nodes[i].is_hidden = @ /\ ~last]
                /\ IF last /\ pok
                   THEN /\ rel' = [rel EXCEPT ![t].pc = "unlink",
                                              ![t].path = path]
                        /\ UNCHANGED forgets
                   ELSE Released(t)
        /\ UNCHANGED <<disk, k, task, faults>>

UnlinkHidden(t) ==
    /\ rel[t].pc = "unlink" /\ ~f.abort
    /\ disk' = IF At(disk, rel[t].path) # 0 THEN fs_remove(disk, rel[t].path)
               ELSE disk
    /\ Released(t)
    /\ UNCHANGED <<f, k, task, faults>>

(***************************************************************************)
(* The kernel, after the reply.                                            *)
(***************************************************************************)
\* Mutant: a directory in use keeps the entry as it is.
fuse_invalidate_entry_Busy(dents, t, d) ==
    LET rest == {c \in dents \ {d} : c.dir # d.id \/ Held(c.id)}
        busy == /\ IsDir(d.id)
                /\ HeldByOther(t, d.id) \/ \E c \in rest : c.dir = d.id
    IN  IF busy THEN rest \cup {d} ELSE rest

\* fuse_invalidate_entry: a directory in use stays, as an expired entry.
fuse_invalidate_entry(dents, t, d) ==
    LET rest == {c \in dents \ {d} : c.dir # d.id \/ Held(c.id)}
        busy == /\ IsDir(d.id)
                /\ HeldByOther(t, d.id) \/ \E c \in rest : c.dir = d.id
    IN  IF busy THEN rest \cup {[d EXCEPT !.valid = FALSE]} ELSE rest

\* The same for one entry, or for none.
Invalidated(dents, t, ds) ==
    IF ds = {} THEN dents
    ELSE fuse_invalidate_entry(dents, t, CHOOSE d \in ds : TRUE)

Entry(dir, n, i) == [dir |-> dir, name |-> n, id |-> i, valid |-> TRUE]
Aliases(dents, i) == {d \in dents : d.id = i}
SetDent(dents) == k' = [k EXCEPT !.dent = dents]
Finish(t, r) == task' = [task EXCEPT ![t] = r]
BackTo(t) == [Idle EXCEPT !.at = task[t].at, !.file = task[t].file]

\* fuse_iget counts the lookup; without memory the kernel forgets it.
Counted(i, mode, dents) ==
    k' = [k EXCEPT !.nlookup[i] = @ + 1, !.mode[i] = mode, !.dent = dents]

fuse_iget(i, mode, dents) ==
    /\ Counted(i, mode, dents)
    /\ UNCHANGED <<rel, forgets, faults>>

\* Mutant: the lookup that libfuse has counted is not forgotten.
NoInode_Leaks(i) == Fault(1) /\ UNCHANGED <<k, rel, forgets>>

NoInode(i) == Forget(i) /\ Fault(1) /\ UNCHANGED <<k, rel>>

LookupDone(t) ==
    LET r == task[t]
        i == r.got
        al == Aliases(k.dent, i)
        moved == Invalidated(k.dent, t, al)     \* fuse_d_add_directory
        new == Entry(r.at, r.name, i)
    IN  /\ r.op = "lookup" /\ Finish(t, BackTo(t))
        /\ \/ r.err # "ok" /\ UNCHANGED <<k, rel, forgets, faults>>
           \/ r.err = "ok" /\ NoInode(i)
           \/ /\ r.err = "ok"
              /\ fuse_iget(i, r.mode,
                     IF r.mode # "dir" THEN k.dent \cup {new}
                              ELSE IF Aliases(moved, i) # {} THEN moved  \* EBUSY
                              ELSE moved \cup {new})

RevalidateDone(t) ==
    LET r == task[t]
        mine == {d \in Dentry(r.at, r.name) : d.id = r.ino}
        fresh == {[d EXCEPT !.valid = TRUE] : d \in Aliases(k.dent, r.ino)}
    IN  /\ r.op = "revalidate" /\ Finish(t, BackTo(t)) /\ UNCHANGED <<rel, faults>>
        /\ \/ /\ r.err = "ok" /\ r.got = r.ino
              /\ k' = [k EXCEPT !.nlookup[r.ino] = @ + 1,
                          !.dent = (@ \ Aliases(@, r.ino)) \cup fresh]
              /\ UNCHANGED forgets
           \/ /\ r.err = "ok" /\ r.got # r.ino /\ Forget(r.got)
              /\ SetDent(Invalidated(k.dent, t, mine))
           \/ /\ r.err # "ok" /\ UNCHANGED forgets
              /\ SetDent(Invalidated(k.dent, t, mine))

\* MKNOD, MKDIR and LINK; a directory that has a dentry already has moved.
CreateDone(t) ==
    LET r == task[t]
        al == Aliases(k.dent, r.got)
        new == Entry(r.at, r.name, r.got)
    IN  /\ r.op \in {"mknod", "mkdir", "link"} /\ Finish(t, BackTo(t))
        /\ \/ r.err # "ok" /\ UNCHANGED <<k, rel, forgets, faults>>
           \/ r.err = "ok" /\ NoInode(r.got)
           \/ r.err = "ok" /\ fuse_iget(r.got, r.mode,
                                      IF r.mode = "dir" /\ al # {}
                                      THEN k.dent                       \* EBUSY
                                      ELSE k.dent \cup {new})

\* fuse_create_open: without an inode, or without a file, the open is taken
\* back at once (fuse_sync_release), and before the forget.
fuse_create_open(t) ==
    LET r == task[t]
        new == Entry(r.at, r.name, r.got)
        back == [NoRel EXCEPT !.pc = "sent", !.ino = r.got]
    IN  /\ r.op = "create"
        /\ \/ r.err # "ok" /\ UNCHANGED <<k, rel, forgets, faults>> /\ Finish(t, BackTo(t))
           \/ /\ r.err = "ok" /\ Finish(t, [BackTo(t) EXCEPT !.file = r.got])
              /\ fuse_iget(r.got, r.mode, k.dent \cup {new})
           \/ /\ r.err = "ok" /\ Finish(t, BackTo(t)) /\ Fault(1) /\ UNCHANGED <<k, forgets>>
              /\ rel' = [rel EXCEPT ![t] = [back EXCEPT !.forget = TRUE]]
           \/ /\ r.err = "ok" /\ Finish(t, BackTo(t)) /\ Fault(1) /\ UNCHANGED forgets
              /\ Counted(r.got, r.mode, k.dent \cup {new})
              /\ rel' = [rel EXCEPT ![t] = [back EXCEPT !.kernel = TRUE]]

OpenDone(t) ==
    /\ task[t].op = "open" /\ UNCHANGED <<k, rel, forgets, faults>>
    /\ Finish(t, IF task[t].err = "ok" THEN [BackTo(t) EXCEPT !.file = task[t].ino]
                 ELSE BackTo(t))

\* UNLINK and RMDIR: d_delete, or the entry is no longer trusted.
UnlinkDone(t) ==
    LET r == task[t]
        d == Dentry(r.at, r.name)
    IN  /\ r.op \in {"unlink", "rmdir"} /\ Finish(t, BackTo(t))
        /\ SetDent(IF r.err = "ok" THEN k.dent \ d
                   ELSE IF r.err = "EINTR" THEN Invalidated(k.dent, t, d)
                   ELSE k.dent)
        /\ UNCHANGED <<rel, forgets, faults>>

\* RENAME: d_move; after EINTR nobody knows, and both entries are dropped.
RenameDone(t) ==
    LET r == task[t]
        old == Dentry(r.at, r.name)
        new == Dentry(r.to, r.newname)
        moved == {[d EXCEPT !.dir = r.to, !.name = r.newname] : d \in old}
    IN  /\ r.op = "rename" /\ Finish(t, BackTo(t))
        /\ SetDent(IF r.err = "ok" THEN (k.dent \ (old \cup new)) \cup moved
                   ELSE IF r.err = "EINTR"
                        THEN Invalidated(Invalidated(k.dent, t, old), t, new)
                   ELSE k.dent)
        /\ UNCHANGED <<rel, forgets, faults>>

Done(t) ==
    /\ task[t].pc = "done" /\ UNCHANGED <<disk, f>>
    /\ \/ LookupDone(t) \/ RevalidateDone(t) \/ CreateDone(t) \/ OpenDone(t)
       \/ fuse_create_open(t) \/ UnlinkDone(t) \/ RenameDone(t)

\* Mutant: the RELEASE under way does not hold the inode (no dget).
fuse_release_common_Loose(t) ==
    /\ task[t].pc = "idle" /\ task[t].file # 0 /\ rel[t].pc = "none"
    /\ rel' = [rel EXCEPT ![t] = [NoRel EXCEPT !.pc = "sent",
                                               !.ino = task[t].file]]
    /\ task' = [task EXCEPT ![t].file = 0]
    /\ UNCHANGED <<disk, f, k, forgets, faults>>

\* The last close of a file: RELEASE is sent and not waited for.
fuse_release_common(t) ==
    /\ task[t].pc = "idle" /\ task[t].file # 0 /\ rel[t].pc = "none"
    /\ rel' = [rel EXCEPT ![t] = [NoRel EXCEPT !.pc = "sent", !.kernel = TRUE,
                                               !.ino = task[t].file]]
    /\ task' = [task EXCEPT ![t].file = 0]
    /\ UNCHANGED <<disk, f, k, forgets, faults>>

\* The timeout of an entry, and the shrinking of the two caches.
Expire(d) ==
    /\ d.valid /\ "revalidate" \in Ops
    /\ SetDent((k.dent \ {d}) \cup {[d EXCEPT !.valid = FALSE]})
    /\ UNCHANGED <<disk, f, task, rel, forgets, faults>>

Prune(d) ==
    /\ ~Held(d.id) /\ \A c \in k.dent : c.dir # d.id
    /\ SetDent(k.dent \ {d})
    /\ UNCHANGED <<disk, f, task, rel, forgets, faults>>

fuse_clear_inode(i) ==
    /\ i # FUSE_ROOT_ID /\ k.nlookup[i] > 0 /\ ~Held(i)
    /\ \A d \in k.dent : d.id # i /\ d.dir # i
    /\ forgets' = [forgets EXCEPT ![i] = Append(@, k.nlookup[i])]
    /\ k' = [k EXCEPT !.nlookup[i] = 0, !.mode[i] = "none"]
    /\ UNCHANGED <<disk, f, task, rel, faults>>

(***************************************************************************)
(* Specification                                                           *)
(***************************************************************************)
Init ==
    /\ disk = [kind |-> [o \in Objs |-> IF o = RootObj THEN "dir" ELSE "file"],
               ent |-> [o \in Objs |-> [n \in AllNames |-> 0]]]
    /\ f = NewTable(RootObj)
    /\ k = [dent |-> {}, nlookup |-> [i \in NodeIds |-> 0],
            mode |-> [i \in NodeIds |-> IF i = FUSE_ROOT_ID THEN "dir" ELSE "none"]]
    /\ task = [t \in Tasks |-> Idle]
    /\ rel = [t \in Tasks |-> NoRel]
    /\ forgets = [i \in NodeIds |-> <<>>]
    /\ faults = 0

Start(t) ==
    \/ \E n \in Names : \/ fuse_lookup(t, n) \/ fuse_dentry_revalidate(t, n)
                        \/ fuse_link(t, n) \/ fuse_open(t, n)
                        \/ Walk(t, n)
    \/ \E n \in Names, op \in Ops : create_new_entry(t, op, n)
    \/ \E n \in Names, op \in {"unlink", "rmdir"} : fuse_unlink(t, op, n)
    \/ \E n \in Names, to \in NodeIds, m \in Names : fuse_rename(t, n, to, m)
    \/ Leave(t) \/ fuse_release_common(t)

Next ==
    \/ \E t \in Tasks : Start(t) \/ Handle(t) \/ Kill(t) \/ Done(t)
    \/ \E t \in Tasks : fuse_do_release(t) \/ UnlinkHidden(t)
    \/ \E i \in NodeIds : fuse_lib_forget(i) \/ fuse_clear_inode(i)
    \/ \E d \in k.dent : Expire(d) \/ Prune(d)

Spec == Init /\ [][Next]_vars

(***************************************************************************)
(* Properties                                                              *)
(***************************************************************************)
Sum(s) == LET sum[i \in 0..Len(s)] == IF i = 0 THEN 0 ELSE sum[i - 1] + s[i]
          IN  sum[Len(s)]
NodeHas(i) == i \in DOMAIN f.nodes

\* Every lookup that libfuse has counted for a node is known to the kernel,
\* or on its way there, or on its way back: whatever calls are killed and
\* whatever memory runs out, none is lost and none is given back twice.
LookupsBalanced ==
    ~f.abort => \A i \in NodeIds \ {FUSE_ROOT_ID} :
        (IF NodeHas(i) THEN f.nodes[i].nlookup ELSE 0) =
            k.nlookup[i] + Sum(forgets[i])
            + Cardinality({t \in Tasks : /\ task[t].pc = "done"
                                         /\ task[t].op # "open"
                                         /\ task[t].got = i})
            + Cardinality({t \in Tasks : rel[t].forget /\ rel[t].ino = i})

\* The table is sound: references, parents and names.
TableSound == ~f.abort => RefctrSound(f) /\ NamesSound(f)

\* A path that libfuse makes from a node leads to the file for which the node
\* was made, through every rename, unlink and hiding; only a file that was
\* hidden, released and unlinked is no longer there.  Two things end it (f.lost):
\* a rename that ran out of memory, when libfuse no longer knows what the
\* kernel still does; and a rename of a file that libfuse has no node for,
\* over a name that a node has.
PathsTrue ==
    ~f.abort /\ ~f.lost => \A i \in DOMAIN f.nodes :
        LET p == get_path(f, i)
            o == At(disk, p.path)
        IN  p.ok => \/ o = f.nodes[i].obj
                    \/ o = 0 /\ Last(p.path) \notin Names /\ ~f.nodes[i].is_hidden

\* The node table is sound and its paths are true (TableSound, PathsTrue),
\* with directories moved and removed above the nodes.
TreeTrue == TableSound /\ PathsTrue

\* open_count is the number of files open in the kernel, of opens that it was
\* not told of yet, and of releases that were not handled yet.
OpensBalanced ==
    ~f.abort => \A i \in DOMAIN f.nodes :
        f.nodes[i].open_count =
            Cardinality({t \in Tasks : task[t].file = i})
            + Cardinality({t \in Tasks : /\ task[t].pc = "done" /\ task[t].got = i
                                         /\ task[t].op \in {"open", "create"}})
            + Cardinality({t \in Tasks : /\ rel[t].pc \in {"sent", "cancel"}
                                         /\ rel[t].ino = i})

\* No request, forget or release names a node that is gone and no assertion
\* of libfuse fails, but for one case: the open of a killed task is taken
\* back after the kernel has let go of the inode.
OnlyCancelAborts ==
    [][f'.abort /\ ~f.abort => \E t \in Tasks : /\ rel[t].pc = "cancel"
                                                 /\ ~rel[t].forget]_vars

\* A file in use that its node still leads to stays on the disk, whoever
\* unlinks it or renames over it; but for the release that found it unused
\* just before it was opened again.
FilesInUseStay ==
    [][\A i \in DOMAIN f.nodes :
          LET p == get_path(f, i)
              o == f.nodes[i].obj
          IN  f.nodes[i].open_count > 0 /\ p.ok /\ At(disk, p.path) = o
                  => \/ \E q \in Objs, n \in AllNames : disk'.ent[q][n] = o
                     \/ \E t \in Tasks : rel[t].pc = "unlink"]_vars

\* The inodes with an entry that the kernel trusts and that is not where
\* libfuse has them.
Misplaced ==
    {i \in DOMAIN f.nodes :
        /\ ~f.abort /\ f.nodes[i].name # NULL
        /\ \E d \in k.dent : /\ d.id = i /\ d.valid
                             /\ lookup_node(f, d.dir, d.name) # i}

Steps(t, from, to) == task[t].pc = from /\ task'[t].pc = to

\* Entries that the kernel trusts are true.  One becomes wrong only while the
\* daemon has moved the file and the kernel does not know yet, and is no
\* longer trusted once it knows, even if all it knows is EINTR; but for the
\* end of a revalidation that an interrupted rename has overtaken.
EntriesTrue ==
    [][/\ \/ Misplaced' \subseteq Misplaced
          \/ \E t \in Tasks : \/ Steps(t, "sent", "done")
                              \/ Steps(t, "done", "idle") /\ task[t].op = "revalidate"
       /\ \A t \in Tasks :
              /\ Steps(t, "done", "idle") /\ task[t].err \in {"ok", "EINTR"}
              /\ task[t].op \in {"unlink", "rmdir", "rename"}
              => task[t].ino \notin Misplaced']_vars
====
