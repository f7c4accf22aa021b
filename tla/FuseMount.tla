------------------------------ MODULE FuseMount ------------------------------
(***************************************************************************)
(* How a FUSE file system is mounted and unmounted: fuse_setup and         *)
(* fuse_teardown of lib/helper.c, lib/mount.c and lib/mount_util.c,        *)
(* fusermount (util/fusermount.c), which does it for those who are not     *)
(* root, and the kernel's side: the life of a connection in kernel/inode.c *)
(* and its files in the control file system (kernel/control.c).            *)
(*                                                                         *)
(* All daemons use the one mountpoint, where mounts are stacked.  A step   *)
(* is one look at what processes share, or one change of it: a lookup of   *)
(* the mountpoint, /etc/mtab, a mount(2) or umount2(2), the socket.        *)
(***************************************************************************)
EXTENDS Integers, FiniteSets, Sequences, SequencesExt

CONSTANTS
    Daemons,
    Commands,     \* runs of fusermount -u by hand
    Settings      \* which daemons there are; who runs them ("root" or not);
                  \* blkdev; mount_max of /etc/fuse.conf; whether /etc/mtab is
                  \* a link; and a bound on events: failures (of fork, mount,
                  \* malloc, fopen), kills, and what is done by hand

ASSUME MountingAssumption ==
    /\ Settings \subseteq [starts : SUBSET Daemons,
            user : [Daemons \cup Commands -> STRING], blkdev : BOOLEAN,
            mount_max : Nat, link : BOOLEAN, events : Nat]
    /\ Daemons \cap Commands = {}
    /\ \A s \in Settings : s.blkdev => \A d \in Daemons : s.user[d] = "root"

VARIABLES
    env,      \* the settings, which do not change
    mounts,   \* the stack of connections mounted on the mountpoint
    mtab,     \* /etc/mtab if it is a file
    conn,     \* struct fuse_conn and the file of /dev/fuse it was made for
    lib,      \* the daemons
    mounter,  \* who mounts for them: fusermount, or for root they themselves
    un,       \* who unmounts: fusermount -u and /bin/umount
    ctl,      \* the control file system and who has its abort file open
    hist      \* events so far, and the connections they leave in disorder

mountVars == <<env, mounts, mtab, conn, lib, mounter, un, ctl, hist>>

\* fuse_kern_mount calls fusermount a second time, without the subtype.
Conns == Daemons \X {1, 2}
None == <<>>
Conn(d) == <<d, lib[d].try>>
User(p) == env.user[p]
IsRoot(p) == User(p) = "root"
Entries == IF env.link THEN mounts ELSE mtab

Event == hist.events < env.events
Noted == [hist EXCEPT !.events = @ + 1]
Excused(h, cs) == [h EXCEPT !.excused = @ \cup cs]
(***************************************************************************)
(* Connections.  fd holds those who have the device file open, or have     *)
(* been sent it; file says that its private_data is the connection.        *)
(***************************************************************************)
NoConn == [fd |-> {}, file |-> FALSE, sb |-> FALSE, count |-> 0,
           connected |-> FALSE, init |-> FALSE, private |-> FALSE]

fuse_fill_super_NoGet(cn) ==   \* faulty: private_data without a reference
    [cn EXCEPT !.file = TRUE, !.sb = TRUE, !.count = 1, !.connected = TRUE,
               !.private = ctl.sb]
fuse_fill_super(cn) ==
    [cn EXCEPT !.file = TRUE, !.sb = TRUE, !.count = 2, !.connected = TRUE,
               !.private = ctl.sb]

fuse_conn_put(cn) == [cn EXCEPT !.count = @ - 1]

fuse_dev_release(cn) ==
    IF cn.fd = {} /\ cn.file
    THEN fuse_conn_put([cn EXCEPT !.file = FALSE, !.connected = FALSE])
    ELSE cn

Close(c, who) ==
    LET left == conn[c].fd \ who
    IN  conn' = [conn EXCEPT ![c] = fuse_dev_release([@ EXCEPT !.fd = left])]
Pass(c, from, to) == conn' = [conn EXCEPT ![c].fd = (@ \ {from}) \cup {to}]

\* What is unmounted is given up at once or, after a lazy unmount, by the
\* last who uses it.  fuse_send_destroy waits for an answer.
fuse_put_super(c) ==
    /\ conn[c].sb /\ ~Contains(mounts, c)
    /\ env.blkdev /\ conn[c].init /\ conn[c].connected =>
           lib[c[1]].pc = "running"
    /\ LET listed == conn[c].private /\ ~ctl.sb
       IN  conn' = [conn EXCEPT ![c] = fuse_conn_put([@ EXCEPT !.sb = FALSE,
                       !.connected = FALSE, !.private = listed])]
    /\ UNCHANGED <<env, mounts, mtab, lib, mounter, un, ctl, hist>>
(***************************************************************************)
(* A look at the mountpoint goes to the daemon of the topmost mount, for   *)
(* the user who mounted it, and waits for the answer.                      *)
(***************************************************************************)
LastOf(list) == IF list = <<>> THEN None ELSE Last(list)
Top == LastOf(mounts)

Refused(u, c) ==
    c # None /\ (User(c[1]) # u \/ ~conn[c].connected)
Reached(u, c) ==
    c # None => ~Refused(u, c) /\ lib[c[1]].pc = "running"

LibAt(d, pc) == lib' = [lib EXCEPT ![d].pc = pc]

fuse_mount_sys(d) ==
    /\ lib[d].pc = "start"
    /\ \/ Refused(User(d), Top) /\ LibAt(d, "failed") /\ UNCHANGED mounter
       \/ /\ Top # None /\ Reached(User(d), Top)   \* not empty
          /\ LibAt(d, "failed") /\ UNCHANGED mounter
       \/ /\ Reached(User(d), Top)
          /\ IF IsRoot(d)
             THEN /\ LibAt(d, "mounting")
                  /\ mounter' = [mounter EXCEPT ![d].pc = "mount"]
             ELSE LibAt(d, "fork") /\ UNCHANGED mounter
    /\ UNCHANGED <<env, mounts, mtab, conn, un, ctl, hist>>

NextTry(d) ==
    lib' = [lib EXCEPT ![d] = IF lib[d].try = 1 THEN [pc |-> "fork", try |-> 2]
                              ELSE [@ EXCEPT !.pc = "failed"]]

fuse_mount_fusermount(d) ==
    /\ lib[d].pc = "fork"
    /\ \/ /\ LibAt(d, "receive")
          /\ mounter' = [mounter EXCEPT ![d] = [pc |-> "count", cwd |-> None]]
          /\ UNCHANGED hist
       \/ Event /\ hist' = Noted /\ NextTry(d) /\ UNCHANGED mounter
    /\ UNCHANGED <<env, mounts, mtab, conn, un, ctl>>

\* The end of the socket is seen once fusermount is gone.
receive_fd(d) ==
    /\ lib[d].pc = "receive" /\ mounter[d].pc = "ended"
    /\ IF "socket" \in conn[Conn(d)].fd
       THEN Pass(Conn(d), "socket", "lib") /\ LibAt(d, "setup")
       ELSE NextTry(d) /\ UNCHANGED conn
    /\ UNCHANGED <<env, mounts, mtab, mounter, un, ctl, hist>>
(***************************************************************************)
(* mount_fuse of fusermount and the second half of fuse_mount_sys          *)
(***************************************************************************)
NoMounter == [pc |-> "ended", cwd |-> None]
MounterAt(d, pc) ==
    mounter' = [mounter EXCEPT ![d] =
                   IF pc = "ended" THEN NoMounter ELSE [@ EXCEPT !.pc = pc]]

\* Without a mount the device is closed; a daemon that did it itself fails,
\* the others learn it from the socket.
MountFails(d) ==
    /\ Close(Conn(d), {"mounter"})
    /\ MounterAt(d, "ended")
    /\ IF IsRoot(d) THEN LibAt(d, "failed") ELSE UNCHANGED lib

\* -1 if /etc/mtab cannot be read.
count_fuse_fs == {Len(Entries)} \cup (IF Event THEN {-1} ELSE {})

mount_fuse(d) ==
    /\ mounter[d].pc = "count"
    /\ \E n \in count_fuse_fs :
          IF n >= env.mount_max
          THEN MounterAt(d, "ended") /\ UNCHANGED <<conn, hist>>
          ELSE /\ MounterAt(d, "perm")
               /\ conn' = [conn EXCEPT ![Conn(d)].fd = @ \cup {"mounter"}]
               /\ hist' = IF n = -1 THEN Noted ELSE hist
    /\ UNCHANGED <<env, mounts, mtab, lib, un, ctl>>

\* What was mounted at the time of chdir is what the later steps use.
check_perm(d) ==
    /\ mounter[d].pc = "perm"
    /\ \/ Refused(User(d), Top) /\ MountFails(d)
       \/ /\ Reached(User(d), Top)
          /\ mounter' = [mounter EXCEPT ![d] = [pc |-> "empty", cwd |-> Top]]
          /\ UNCHANGED <<conn, lib>>
    /\ UNCHANGED <<env, mounts, mtab, un, ctl, hist>>

fuse_mnt_check_empty(d) ==
    /\ mounter[d].pc = "empty"
    /\ \/ Refused(User(d), mounter[d].cwd) /\ MountFails(d)
       \/ /\ mounter[d].cwd # None /\ Reached(User(d), mounter[d].cwd)
          /\ MountFails(d)
       \/ /\ Reached(User(d), mounter[d].cwd)
          /\ MounterAt(d, "mount") /\ UNCHANGED <<conn, lib>>
    /\ UNCHANGED <<env, mounts, mtab, un, ctl, hist>>

\* mount(2) fails if the current directory was unmounted meanwhile.
do_mount(d) ==
    /\ mounter[d].pc = "mount"
    /\ \/ /\ mounter[d].cwd # None => Contains(mounts, mounter[d].cwd)
          /\ mounts' = Append(mounts, Conn(d))
          /\ LET fd == conn[Conn(d)].fd \cup {"mounter"}
             IN  conn' = [conn EXCEPT ![Conn(d)] =
                              fuse_fill_super([@ EXCEPT !.fd = fd])]
          /\ MounterAt(d, "mtab")
          /\ UNCHANGED <<lib, hist>>
       \/ /\ mounter[d].cwd # None /\ ~Contains(mounts, mounter[d].cwd)
          /\ MountFails(d) /\ UNCHANGED <<mounts, hist>>
       \/ Event /\ hist' = Noted /\ MountFails(d) /\ UNCHANGED mounts
    /\ UNCHANGED <<env, mtab, un, ctl>>

Mounted(d) ==
    IF IsRoot(d)
    THEN /\ Pass(Conn(d), "mounter", "lib")
         /\ MounterAt(d, "ended") /\ LibAt(d, "setup")
    ELSE MounterAt(d, "send") /\ UNCHANGED <<conn, lib>>

\* By /bin/mount -f, in a process of its own.
fuse_mnt_add_mount(d) ==
    /\ mounter[d].pc = "mtab"
    /\ \/ /\ mtab' = IF env.link THEN mtab ELSE Append(mtab, Conn(d))
          /\ Mounted(d)
          /\ UNCHANGED hist
       \/ /\ ~env.link /\ Event /\ hist' = Noted
          /\ MounterAt(d, "undo") /\ UNCHANGED <<mtab, conn, lib>>
    /\ UNCHANGED <<env, mounts, un, ctl>>

\* umount2(mnt, 2) takes whatever is on top.
LazyUmount_Not(d) ==    \* faulty: the mount is left
    UNCHANGED <<mounts, hist>>
LazyUmount(d) ==
    IF mounts = <<>> THEN UNCHANGED <<mounts, hist>>
    ELSE /\ mounts' = Front(mounts)
         /\ hist' = IF Top = Conn(d) THEN hist ELSE Excused(hist, {Top, Conn(d)})

UndoMount(d) ==
    /\ mounter[d].pc = "undo"
    /\ LazyUmount(d)
    /\ MountFails(d)
    /\ UNCHANGED <<env, mtab, un, ctl>>

send_fd(d) ==
    /\ mounter[d].pc = "send"
    /\ IF lib[d].pc = "receive" THEN Pass(Conn(d), "mounter", "socket")
       ELSE Close(Conn(d), {"mounter"})
    /\ MounterAt(d, "ended")
    /\ UNCHANGED <<env, mounts, mtab, lib, un, ctl, hist>>
(***************************************************************************)
(* The daemon with its device                                              *)
(***************************************************************************)
\* fuse_kern_chan_new, fuse_new, fuse_daemonize, fuse_set_signal_handlers
fuse_setup_common(d) ==
    /\ lib[d].pc = "setup"
    /\ \/ /\ LibAt(d, "running")
          /\ conn' = [conn EXCEPT ![Conn(d)].init = conn[Conn(d)].connected]
          /\ UNCHANGED hist
       \/ Event /\ hist' = Noted /\ LibAt(d, "unmount") /\ UNCHANGED conn
    /\ UNCHANGED <<env, mounts, mtab, mounter, un, ctl>>

\* The loop ends by a signal or when the connection has ended.
fuse_main_common(d) ==
    /\ lib[d].pc = "running"
    /\ LibAt(d, "unmount")
    /\ UNCHANGED <<env, mounts, mtab, conn, mounter, un, ctl, hist>>

NoUn == [pc |-> "idle", lazy |-> TRUE, target |-> None]

KeepsDevice(d) ==     \* faulty: the device stays open during the unmount
    IF conn[Conn(d)].connected THEN UNCHANGED conn ELSE Close(Conn(d), {"lib"})
ClosesDevice(d) == Close(Conn(d), {"lib"})

\* Without an error from poll the device is closed and the mount taken for
\* its own.  Others than root need fusermount.
fuse_kern_unmount(d) ==
    /\ lib[d].pc = "unmount"
    /\ ClosesDevice(d)
    /\ \/ /\ ~conn[Conn(d)].connected
          /\ LibAt(d, "ended") /\ UNCHANGED <<un, hist>>
       \/ /\ conn[Conn(d)].connected
          /\ LibAt(d, "waiting")
          /\ un' = [un EXCEPT ![d].pc = IF IsRoot(d) THEN "umount" ELSE "check"]
          /\ UNCHANGED hist
       \/ /\ conn[Conn(d)].connected /\ Event
          /\ hist' = Excused(Noted, {Conn(d)})
          /\ LibAt(d, "ended") /\ UNCHANGED un
    /\ UNCHANGED <<env, mounts, mtab, mounter, ctl>>

fuse_destroy(d) ==
    /\ lib[d].pc = "waiting" /\ un[d].pc = "ended"
    /\ LibAt(d, "ended")
    /\ UNCHANGED <<env, mounts, mtab, conn, mounter, un, ctl, hist>>
(***************************************************************************)
(* Unmounting                                                              *)
(***************************************************************************)
UnAt(p, pc) ==
    un' = [un EXCEPT ![p] = IF pc = "ended" THEN [NoUn EXCEPT !.pc = pc]
                            ELSE [@ EXCEPT !.pc = pc]]
AfterUmount == IF env.link THEN "ended" ELSE "unlist"
Own(p, c) == IF p \in Daemons THEN c[1] = p ELSE IsRoot(p) \/ User(c[1]) = User(p)
OwnOf(p) == IF p \in Daemons THEN {Conn(p)} ELSE {}

Command(p) ==
    /\ un[p].pc = "idle"
    /\ Event /\ hist' = Noted
    /\ \E lazy \in BOOLEAN :
          un' = [un EXCEPT ![p] = [pc |-> IF IsRoot(p) THEN "umount" ELSE "check",
                                   lazy |-> lazy, target |-> None]]
    /\ UNCHANGED <<env, mounts, mtab, conn, lib, mounter, ctl>>

\* Any entry of the user for the mountpoint will do.
MayUnmount(p) == \E i \in DOMAIN Entries : User(Entries[i][1]) = User(p)

unmount_fuse(p) ==
    /\ un[p].pc = "check"
    /\ \/ UnAt(p, IF MayUnmount(p) THEN "umount" ELSE "ended") /\ UNCHANGED hist
       \/ Event /\ hist' = Excused(Noted, OwnOf(p)) /\ UnAt(p, "ended")
    /\ UNCHANGED <<env, mounts, mtab, conn, lib, mounter, ctl>>

\* umount2(2), by /bin/umount if there is an mtab.  What nobody uses is given
\* up before it returns; if it is in use only a lazy unmount goes on.
fuse_mnt_umount(p) ==
    /\ un[p].pc = "umount"
    /\ \/ /\ Top = None /\ UnAt(p, AfterUmount)
          /\ UNCHANGED <<mounts, hist>>
       \/ \E busy \in BOOLEAN :
          /\ Top # None /\ (busy => un[p].lazy)
          /\ mounts' = Front(mounts)
          /\ un' = [un EXCEPT ![p] =
                 IF busy /\ env.link THEN [NoUn EXCEPT !.pc = "ended"]
                 ELSE [@ EXCEPT !.target = Top,
                                !.pc = IF busy THEN "unlist" ELSE "put"]]
          /\ hist' = IF Own(p, Top) THEN hist ELSE Excused(hist, {Top} \cup OwnOf(p))
       \/ /\ Top # None /\ ~un[p].lazy     \* EBUSY
          /\ UnAt(p, "ended") /\ UNCHANGED <<mounts, hist>>
       \/ /\ Event /\ hist' = Excused(Noted, OwnOf(p))
          /\ UnAt(p, "ended") /\ UNCHANGED mounts
    /\ UNCHANGED <<env, mtab, conn, lib, mounter, ctl>>

Given(p) ==
    /\ un[p].pc = "put" /\ ~conn[un[p].target].sb
    /\ UnAt(p, AfterUmount)
    /\ UNCHANGED <<env, mounts, mtab, conn, lib, mounter, ctl, hist>>

\* /bin/umount takes the last entry for the mountpoint out of /etc/mtab.
Unlist(p) ==
    /\ un[p].pc = "unlist"
    /\ UnAt(p, "ended")
    /\ mtab' = IF mtab = <<>> THEN mtab ELSE Front(mtab)
    /\ hist' = IF LastOf(mtab) = un[p].target THEN hist
               ELSE Excused(hist, {LastOf(mtab), un[p].target} \ {None})
    /\ UNCHANGED <<env, mounts, conn, lib, mounter, ctl>>
(***************************************************************************)
(* Processes killed                                                        *)
(***************************************************************************)
Killed(cs) ==
    /\ Event
    /\ hist' = Excused(Noted, cs)

KillDaemon(d) ==
    /\ lib[d].pc \notin {"start", "failed", "ended", "dead"}
    /\ Killed({Conn(d)})
    /\ LibAt(d, "dead")
    /\ Close(Conn(d), {"lib", "socket"} \cup (IF IsRoot(d) THEN {"mounter"} ELSE {}))
    /\ IF IsRoot(d) THEN MounterAt(d, "ended") ELSE UNCHANGED mounter
    /\ UNCHANGED <<env, mounts, mtab, un, ctl>>

KillMounter(d) ==
    /\ ~IsRoot(d) /\ mounter[d].pc # "ended"
    /\ Killed({Conn(d)})
    /\ Close(Conn(d), {"mounter"})
    /\ MounterAt(d, "ended")
    /\ UNCHANGED <<env, mounts, mtab, lib, un, ctl>>

KillUn(p) ==
    /\ un[p].pc \notin {"idle", "put", "ended"}
    /\ Killed(OwnOf(p) \cup ({un[p].target} \ {None}))
    /\ UnAt(p, "ended")
    /\ UNCHANGED <<env, mounts, mtab, conn, lib, mounter, ctl>>
(***************************************************************************)
(* The control file system: a directory for every connection, with a file  *)
(* whose inode refers to it.  fuse_mutex makes each of these one step.     *)
(***************************************************************************)
ByHand == /\ Event /\ hist' = Noted
          /\ UNCHANGED <<env, mounts, mtab, lib, mounter, un>>

fuse_ctl_fill_super ==
    /\ ByHand /\ ~ctl.sb
    /\ ctl' = [ctl EXCEPT !.sb = TRUE]
    /\ conn' = [c \in Conns |-> [conn[c] EXCEPT !.private = conn[c].sb]]

fuse_ctl_kill_sb ==
    /\ ByHand /\ ctl.sb /\ ctl.file = None
    /\ ctl' = [ctl EXCEPT !.sb = FALSE]
    /\ conn' = [c \in Conns |-> [conn[c] EXCEPT !.private = FALSE]]

OpenAbort(c) ==
    /\ ByHand /\ ctl.file = None /\ conn[c].private
    /\ ctl' = [ctl EXCEPT !.file = c]
    /\ UNCHANGED conn

\* The directory may be gone by then, and the connection with it.
fuse_ctl_file_conn_get(c) ==
    /\ ctl.file = c /\ ctl.held = 0
    /\ UNCHANGED <<env, mounts, mtab, lib, mounter, un, hist>>
    /\ IF conn[c].private
       THEN /\ ctl' = [ctl EXCEPT !.held = 1]
            /\ conn' = [conn EXCEPT ![c].count = @ + 1]
       ELSE ctl' = [ctl EXCEPT !.file = None] /\ UNCHANGED conn

\* After it poll returns an error although the file system is mounted.
fuse_conn_abort_write(c) ==
    /\ ctl.file = c /\ ctl.held = 1
    /\ ctl' = [ctl EXCEPT !.file = None, !.held = 0]
    /\ conn' = [conn EXCEPT ![c] = fuse_conn_put([@ EXCEPT !.connected = FALSE])]
    /\ hist' = Excused(hist, {c})
    /\ UNCHANGED <<env, mounts, mtab, lib, mounter, un>>
-----------------------------------------------------------------------------
Processes == Daemons \cup Commands

MountInit ==
    /\ env \in Settings
    /\ mounts = <<>> /\ mtab = <<>>
    /\ conn = [c \in Conns |-> NoConn]
    /\ lib = [d \in Daemons |->
                 [pc |-> IF d \in env.starts THEN "start" ELSE "ended", try |-> 1]]
    /\ mounter = [d \in Daemons |-> NoMounter]
    /\ un = [p \in Processes |-> NoUn]
    /\ ctl = [sb |-> TRUE, file |-> None, held |-> 0]
    /\ hist = [events |-> 0, excused |-> {}]

LibStep(d) ==
    \/ fuse_mount_sys(d) \/ fuse_mount_fusermount(d) \/ receive_fd(d)
    \/ fuse_setup_common(d) \/ fuse_kern_unmount(d) \/ fuse_destroy(d)
MounterStep(d) ==
    \/ mount_fuse(d) \/ check_perm(d) \/ fuse_mnt_check_empty(d) \/ do_mount(d)
    \/ fuse_mnt_add_mount(d) \/ UndoMount(d) \/ send_fd(d)
UnStep(p) == unmount_fuse(p) \/ fuse_mnt_umount(p) \/ Given(p) \/ Unlist(p)
CtlStepOf(c) == fuse_ctl_file_conn_get(c) \/ fuse_conn_abort_write(c)

MountNext ==
    \/ \E d \in Daemons : LibStep(d) \/ MounterStep(d) \/ fuse_main_common(d)
    \/ \E d \in Daemons : KillDaemon(d) \/ KillMounter(d)
    \/ \E p \in Processes : UnStep(p) \/ KillUn(p)
    \/ \E p \in Commands : Command(p)
    \/ \E c \in Conns : fuse_put_super(c) \/ OpenAbort(c) \/ CtlStepOf(c)
    \/ fuse_ctl_fill_super \/ fuse_ctl_kill_sb

\* The processes run on; a daemon sees the end of its connection; umount gives
\* up what it has unmounted.  Nobody has to use a mountpoint for ever, or stop.
MountFairness ==
    /\ \A d \in Daemons :
          /\ WF_mountVars(LibStep(d)) /\ WF_mountVars(MounterStep(d))
          /\ WF_mountVars(~conn[Conn(d)].connected /\ fuse_main_common(d))
    /\ \A p \in Processes :
          /\ WF_mountVars(UnStep(p))
          /\ WF_mountVars(\E c \in Conns : /\ un[p].pc = "put" /\ un[p].target = c
                                           /\ fuse_put_super(c))

MountSpec == MountInit /\ [][MountNext]_mountVars /\ MountFairness
-----------------------------------------------------------------------------
Quiet ==
    /\ \A d \in Daemons :
          /\ mounter[d].pc = "ended"
          /\ lib[d].pc \in {"start", "running", "failed", "ended", "dead"}
    /\ \A p \in Processes : un[p].pc \in {"idle", "ended"}
Served(c) == Conn(c[1]) = c /\ lib[c[1]].pc = "running" /\ conn[c].connected

\* When nothing is under way, every mount has its daemon, every daemon whose
\* connection is up has its mount, and /etc/mtab lists what is mounted: no
\* way in which a mount or an unmount fails leaves a part of it behind.  Not
\* so for a connection that was aborted, whose processes were killed, or that
\* was unmounted in place of another.
MountsAgree ==
    Quiet => \A c \in Conns \ hist.excused :
        /\ Contains(mounts, c) => Served(c)
        /\ Served(c) => conn[c].sb
        /\ ~env.link => (Contains(mtab, c) <=> Contains(mounts, c))

\* fc->count is the number of those who use the connection: its super block,
\* the device file, and who writes to its abort file.  A file of the control
\* file system never leads to a connection that is gone.
ConnsCounted ==
    \A c \in Conns :
        /\ conn[c].count = (IF conn[c].sb THEN 1 ELSE 0)
                           + (IF conn[c].file THEN 1 ELSE 0)
                           + (IF ctl.file = c THEN ctl.held ELSE 0)
        /\ conn[c].private => conn[c].count > 0

\* A start or a stop of a daemon ends, also when several use the mountpoint
\* and look at each other's mounts: the device is closed before the unmount,
\* which would otherwise wait for its own daemon.
StartsAndStopsEnd ==
    \A d \in Daemons :
        (\/ lib[d].pc \notin {"running", "failed", "ended", "dead"}
         \/ lib[d].pc = "running" /\ ~conn[Conn(d)].connected)
            ~> \/ lib[d].pc \in {"failed", "ended", "dead"}
               \/ lib[d].pc = "running" /\ conn[Conn(d)].connected
=============================================================================
