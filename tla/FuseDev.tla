------------------------------- MODULE FuseDev -------------------------------
(***************************************************************************)
(* The life of a request in the FUSE kernel module                         *)
(* (other_fs/fuse-2.7.3/kernel/dev.c): a task that calls the file system   *)
(* queues a request and sleeps; threads of the daemon read requests from   *)
(* /dev/fuse and write replies; signals, a forced unmount                  *)
(* (fuse_abort_conn) and the closing of the device end requests early.     *)
(*                                                                         *)
(* The state that fc->lock protects is the record fc.  An operation on it  *)
(* is an operator from such a record to the next, under the name it has in *)
(* the source; an action is what happens between taking the lock and       *)
(* letting go of it.  While a request is copied to or from the daemon's    *)
(* pages it is "locked"; between two pages it is not, because the page     *)
(* fault that may follow can last for ever.                                *)
(***************************************************************************)
EXTENDS Integers, FiniteSets, Sequences, SequencesExt

CONSTANTS
    Tasks,               \* the tasks that use the file system
    Servers,             \* the threads of the daemon
    Kinds,               \* the kinds of request that the tasks send
    MaxReq,              \* bound: how many requests are made, INIT included
    FUSE_MAX_BACKGROUND  \* background requests that block new ones

ASSUME DevAssumption ==
    /\ IsFiniteSet(Tasks)
    /\ MaxReq \in Nat \ {0}
    /\ FUSE_MAX_BACKGROUND \in Nat \ {0}
    /\ Kinds \subseteq {"call", "flush", "readpages", "release", "forget"}

VARIABLES
    fc,        \* the connection, its lists and its requests
    task,      \* what each task waits for, and the signal it has pending
    server,    \* the read or write that each thread of the daemon is in
    held,      \* what the daemon has read and not answered yet
    ender      \* progress of fuse_abort_conn and of fuse_dev_release

vars == <<fc, task, server, held, ender>>

Reqs == 1..MaxReq
INIT == 1                    \* the request that fuse_fill_super sends

(***************************************************************************)
(* Requests                                                                *)
(***************************************************************************)
\* fuse_request_init: a request as kmem_cache_alloc and memset leave it.
\* Two fields are history: copied, that the reply was copied in full, and
\* ended, that request_end was called.
NoRequest ==
    [state |-> "none", count |-> 0, isreply |-> FALSE, force |-> FALSE,
     background |-> FALSE, waiting |-> FALSE, aborted |-> FALSE,
     interrupted |-> FALSE, locked |-> FALSE, intr |-> FALSE,
     stolen |-> FALSE, end |-> "none", error |-> "none",
     copied |-> FALSE, ended |-> FALSE]

fuse_request_init == [NoRequest EXCEPT !.state = "init", !.count = 1]

Freed == [NoRequest EXCEPT !.state = "freed"]

\* Sleepers are pairs <<wait queue, who>>: the queue of a request is the
\* request, and the two queues of the connection have numbers of their own.
BlockedQ == 0
ReservedQ == -1

wake_up(k, q) == [k EXCEPT !.asleep = {w \in @ : w[1] # q}]
Sleep(k, q, t) == [k EXCEPT !.asleep = @ \cup {<<q, t>>}]
Awake(q, t) == <<q, t>> \notin fc.asleep
finish_wait(k, t) == [k EXCEPT !.asleep = {w \in @ : w[2] # t}]

\* Whether r is on a list, and the list after list_del of it.
InList(l, r) == \E i \in DOMAIN l : l[i] = r
Without(l, r) ==
    IF InList(l, r) THEN RemoveAt(l, CHOOSE i \in DOMAIN l : l[i] = r) ELSE l

list_del(k, r) ==
    [k EXCEPT !.pending = Without(@, r), !.io = Without(@, r),
              !.processing = Without(@, r)]

__fuse_get_request(k, r) == [k EXCEPT !.req[r].count = @ + 1]

fuse_put_request(k, r) ==
    IF k.req[r].count # 1 THEN [k EXCEPT !.req[r].count = @ - 1]
    ELSE LET freed == [k EXCEPT !.req[r] = Freed,
                                !.num_waiting = IF k.req[r].waiting
                                                THEN @ - 1 ELSE @]
         IN  IF k.req[r].stolen
             THEN wake_up([freed EXCEPT !.reserved = TRUE], ReservedQ)
             ELSE freed

\* The completion callbacks: process_init_reply and fuse_readpages_end.
process_init_reply(k, r) ==
    LET done == [k EXCEPT !.conn_error = @ \/ k.req[r].error # "none"]
    IN  wake_up([fuse_put_request(done, r) EXCEPT !.blocked = FALSE], BlockedQ)

End(k, r, end) ==
    IF end = "init" THEN process_init_reply(k, r) ELSE fuse_put_request(k, r)

\* Mutants: a queued interrupt, or the request itself, stays on its list.
Unlisted_Interrupt(k, r) ==
    [list_del(k, r) EXCEPT !.req[r].end = "none", !.req[r].ended = TRUE,
                           !.req[r].state = "finished"]

Unlisted_Request(k, r) ==
    [k EXCEPT !.interrupts = Without(@, r), !.req[r].end = "none",
              !.req[r].ended = TRUE, !.req[r].state = "finished"]

\* The first lines of request_end.
Unlisted(k, r) ==
    [list_del(k, r) EXCEPT !.interrupts = Without(@, r),
                           !.req[r].end = "none", !.req[r].ended = TRUE,
                           !.req[r].state = "finished"]

\* A second call for the same request is what `corrupt` records: the lists
\* and the count of a request that may be gone are changed then.
request_end(k, r) ==
    IF k.req[r].ended \/ k.req[r].state = "freed"
    THEN [k EXCEPT !.corrupt = TRUE]
    ELSE LET off  == Unlisted(k, r)
             full == off.num_background = FUSE_MAX_BACKGROUND
             bg   == IF ~k.req[r].background THEN off
                     ELSE LET less == [off EXCEPT !.num_background = @ - 1]
                          IN  IF full
                              THEN wake_up([less EXCEPT !.blocked = FALSE],
                                           BlockedQ)
                              ELSE less
         IN  End(wake_up(bg, r), r, k.req[r].end)

queue_interrupt(k, r) == [k EXCEPT !.interrupts = Append(@, r)]

\* Mutant: a request that fuse_get_req has counted is counted again.
queue_request_Recounts(k, r) ==
    [k EXCEPT !.pending = Append(@, r), !.req[r].state = "pending",
              !.req[r].waiting = TRUE, !.num_waiting = @ + 1]

queue_request(k, r) ==
    [k EXCEPT !.pending = Append(@, r), !.req[r].state = "pending",
              !.req[r].waiting = TRUE,
              !.num_waiting = IF k.req[r].waiting THEN @ ELSE @ + 1]

request_send_nowait(k, r) ==
    IF k.connected
    THEN LET n == k.num_background + 1
         IN  queue_request([k EXCEPT
                 !.req[r].background = TRUE, !.num_background = n,
                 !.blocked = (n = FUSE_MAX_BACKGROUND) \/ @], r)
    ELSE request_end([k EXCEPT !.req[r].error = "ENOTCONN"], r)

request_send_noreply(k, r) == request_send_nowait(k, r)

request_send_background(k, r) ==
    request_send_nowait([k EXCEPT !.req[r].isreply = TRUE], r)

\* Mutant: nobody is told.
unlock_request_Silent(k, r) == [k EXCEPT !.req[r].locked = FALSE]

unlock_request(k, r) ==
    LET open == [k EXCEPT !.req[r].locked = FALSE]
    IN  IF k.req[r].aborted THEN wake_up(open, r) ELSE open

(***************************************************************************)
(* Tasks that use the file system                                          *)
(***************************************************************************)
Idle == [pc |-> "idle", kind |-> "none", req |-> 0, sig |-> "none"]

Goto(t, pc) == task' = [task EXCEPT ![t].pc = pc]
Returns(t) == task' = [task EXCEPT ![t] = Idle]
OnlyTask == UNCHANGED <<server, held, ender>>

\* FORGET and RELEASE use a request that was set aside beforehand, and do
\* not wait; there is an inode or a file to let go of only after INIT.  The
\* others start in fuse_get_req or fuse_get_req_nofail.
Call(t, kind) ==
    /\ task[t].pc = "idle" /\ fc.nreq < MaxReq /\ ~fc.corrupt
    /\ kind \in {"forget", "release"} => fc.req[INIT].state = "freed"
    /\ LET r == fc.nreq + 1
           k == [fc EXCEPT !.nreq = r]
           set == [k EXCEPT !.req[r] = fuse_request_init]
       IN  \/ /\ kind = "forget"
              /\ fc' = request_send_noreply(set, r)
              /\ UNCHANGED task
           \/ /\ kind = "release"
              /\ fc' = request_send_background(set, r)
              /\ UNCHANGED task
           \/ /\ kind \in {"call", "flush", "readpages"}
              /\ fc' = [k EXCEPT !.num_waiting = @ + 1]
              /\ task' = [task EXCEPT ![t].pc = "get", ![t].kind = kind,
                                      ![t].req = r]
    /\ OnlyTask

Signal(t, sig) ==
    /\ task[t].pc \notin {"idle", "put"}
    /\ \/ task[t].sig = "none"
       \/ task[t].sig = "signal" /\ sig = "kill"
    /\ task' = [task EXCEPT ![t].sig = sig]
    /\ UNCHANGED <<fc, server, held, ender>>

\* Only a fatal signal ends the wait for !blocked, and none that of FLUSH.
Killable(t) == task[t].sig = "kill" /\ task[t].kind # "flush"

GiveUp(t) ==
    /\ fc' = [finish_wait(fc, t) EXCEPT !.num_waiting = @ - 1,
                                        !.req[task[t].req] = Freed]
    /\ Returns(t)

Allocated(t, stolen) ==
    /\ fc' = [fc EXCEPT !.req[task[t].req] =
                 [fuse_request_init EXCEPT !.waiting = TRUE,
                     !.stolen = stolen, !.force = (task[t].kind = "flush"),
                     !.end = IF task[t].kind = "readpages" THEN "readpages"
                             ELSE "none"],
              !.reserved = @ /\ ~stolen]
    /\ Goto(t, "send")

fuse_get_req(t) ==
    /\ task[t].pc = "get" /\ ~fc.corrupt
    /\ Awake(BlockedQ, t) \/ Killable(t)
    /\ \/ /\ fc.blocked /\ ~Killable(t)
          /\ fc' = Sleep(fc, BlockedQ, t) /\ UNCHANGED task
       \/ fc.blocked /\ Killable(t) /\ GiveUp(t)                 \* EINTR
       \/ ~fc.blocked /\ task[t].kind # "flush" /\ GiveUp(t)
             \* ENOTCONN if it is not connected, and else ENOMEM
       \/ /\ ~fc.blocked
          /\ fc.connected \/ task[t].kind = "flush"
          /\ Allocated(t, FALSE)
       \/ /\ ~fc.blocked /\ task[t].kind = "flush"               \* no memory
          /\ Goto(t, "reserved") /\ UNCHANGED fc
    /\ OnlyTask

get_reserved_req(t) ==
    /\ task[t].pc = "reserved" /\ Awake(ReservedQ, t) /\ ~fc.corrupt
    /\ \/ fc.reserved /\ Allocated(t, TRUE)
       \/ /\ ~fc.reserved /\ UNCHANGED task
          /\ fc' = Sleep(fc, ReservedQ, t)
    /\ OnlyTask

request_send(t) ==
    LET r == task[t].req
        set == [fc EXCEPT !.req[r].isreply = TRUE]
    IN  \/ /\ ~fc.connected
           /\ fc' = [set EXCEPT !.req[r].error = "ENOTCONN"]
           /\ Goto(t, "put")
        \/ /\ fc.connected /\ fc.conn_error
           /\ fc' = [set EXCEPT !.req[r].error = "ECONNREFUSED"]
           /\ Goto(t, "put")
        \/ /\ fc.connected /\ ~fc.conn_error
           /\ fc' = __fuse_get_request(queue_request(set, r), r)
           /\ Goto(t, IF fc.no_interrupt THEN "wait2" ELSE "wait1")

Send(t) ==
    /\ task[t].pc = "send" /\ ~fc.corrupt
    /\ IF task[t].kind = "readpages"
       THEN /\ fc' = request_send_background(fc, task[t].req)
            /\ Returns(t)
       ELSE request_send(t)
    /\ OnlyTask

Finished(r) == fc.req[r].state = "finished"

\* The two halves of request_wait_answer: any signal ends the first wait and
\* becomes an interrupt, only a fatal one the second, and it aborts.
wait_answer_interruptible(t) ==
    LET r == task[t].req
        k == [finish_wait(fc, t) EXCEPT !.req[r].interrupted = TRUE]
    IN  /\ task[t].pc = "wait1" /\ ~fc.corrupt
        /\ Awake(r, t) \/ task[t].sig # "none"
        /\ \/ /\ ~Finished(r) /\ task[t].sig = "none"
              /\ fc' = Sleep(fc, r, t) /\ UNCHANGED task
           \/ /\ Finished(r) /\ UNCHANGED fc
              /\ Goto(t, IF fc.req[r].aborted THEN "unlocked" ELSE "put")
           \/ /\ ~Finished(r) /\ task[t].sig # "none"
              /\ fc' = IF fc.req[r].state = "sent" THEN queue_interrupt(k, r)
                                                   ELSE k
              /\ Goto(t, "wait2")
        /\ OnlyTask

request_wait_answer(t) ==
    LET r == task[t].req
    IN  /\ task[t].pc = "wait2" /\ ~fc.corrupt
        /\ Awake(r, t) \/ Killable(t)
        /\ \/ /\ ~Finished(r) /\ ~Killable(t)
              /\ fc' = Sleep(fc, r, t) /\ UNCHANGED task
           \/ /\ Finished(r) /\ UNCHANGED fc
              /\ Goto(t, IF fc.req[r].aborted THEN "unlocked" ELSE "put")
           \/ /\ ~Finished(r) /\ Killable(t)
              /\ fc' = [finish_wait(fc, t) EXCEPT !.req[r].error = "EINTR",
                                                  !.req[r].aborted = TRUE]
              /\ Goto(t, "unlocked")
        /\ OnlyTask

\* Mutant: a request whose copy goes on is waited for as well.
AfterAbort_Waits(state) == IF state = "finished" THEN "put" ELSE "answered"

AfterAbort(state) == IF state = "sent" THEN "answered" ELSE "put"

\* The label `aborted`: a locked request is waited for, one that is not read
\* yet is taken back, and one that the daemon has is waited for.
Aborted(t) ==
    LET r == task[t].req
        state == fc.req[r].state
    IN  /\ task[t].pc = "unlocked" /\ Awake(r, t) /\ ~fc.corrupt
        /\ \/ /\ fc.req[r].locked /\ fc' = Sleep(fc, r, t) /\ UNCHANGED task
           \/ /\ ~fc.req[r].locked /\ state = "pending"
              /\ fc' = [list_del(fc, r) EXCEPT !.req[r].count = @ - 1]
              /\ Goto(t, "put")
           \/ /\ ~fc.req[r].locked /\ state # "pending" /\ UNCHANGED fc
              /\ Goto(t, AfterAbort(state))
        /\ OnlyTask

WaitFinished(t) ==
    LET r == task[t].req
    IN  /\ task[t].pc = "answered" /\ Awake(r, t) /\ ~fc.corrupt
        /\ \/ Finished(r) /\ Goto(t, "put") /\ UNCHANGED fc
           \/ ~Finished(r) /\ fc' = Sleep(fc, r, t) /\ UNCHANGED task
        /\ OnlyTask

Put(t) ==
    /\ task[t].pc = "put" /\ ~fc.corrupt
    /\ fc' = fuse_put_request(fc, task[t].req)
    /\ Returns(t)
    /\ OnlyTask

(***************************************************************************)
(* The daemon's threads in read and write of the device                    *)
(***************************************************************************)
NoIo == [pc |-> "idle", req |-> 0]

Open == ender["release"].pc = "idle"        \* the device is open
CanUse(s) == server[s].pc = "idle" /\ Open /\ ~fc.corrupt
OnlyServer == UNCHANGED <<task, ender>>
Io(s, pc, r) == server' = [server EXCEPT ![s] = [pc |-> pc, req |-> r]]
IoDone(s) == server' = [server EXCEPT ![s] = NoIo]

\* An interrupt goes before the requests; a failed copy loses it.
fuse_read_interrupt(s) ==
    /\ CanUse(s) /\ fc.connected /\ fc.interrupts # <<>>
    /\ LET r == Head(fc.interrupts)
       IN  /\ fc' = [fc EXCEPT !.interrupts = Tail(@), !.req[r].intr = TRUE]
           /\ \/ held' = held \cup {[req |-> r, intr |-> TRUE]}
              \/ UNCHANGED held
    /\ UNCHANGED server /\ OnlyServer

\* A request that does not fit the buffer is ended, else it is copied.
fuse_dev_readv(s) ==
    /\ CanUse(s) /\ fc.connected /\ fc.interrupts = <<>> /\ fc.pending # <<>>
    /\ LET r == Head(fc.pending)
           k == [fc EXCEPT !.pending = Tail(@), !.io = <<r>> \o @,
                           !.req[r].state = "reading"]
       IN  \/ /\ fc' = request_end([k EXCEPT !.req[r].error = "EIO"], r)
              /\ UNCHANGED server
           \/ /\ fc' = k
              /\ Io(s, "rfault", r)
    /\ UNCHANGED held /\ OnlyServer

\* The end of a read, with or without an error of the copy.
ReadDone(k, r, err) ==
    LET u == [k EXCEPT !.req[r].locked = FALSE]
        q == u.req[r]
    IN  IF err \/ q.aborted
        THEN request_end(IF q.aborted THEN u
                         ELSE [u EXCEPT !.req[r].error = "EIO"], r)
        ELSE IF ~q.isreply THEN request_end(u, r)
        ELSE LET sent == [list_del(u, r) EXCEPT
                              !.processing = Append(@, r),
                              !.req[r].state = "sent"]
             IN  IF q.interrupted THEN queue_interrupt(sent, r) ELSE sent

\* Mutant: the error of the copy is not looked at.
WriteDone_Ignored(k, r, err) ==
    request_end([k EXCEPT !.req[r].locked = FALSE, !.req[r].copied = ~err], r)

\* The end of a write, likewise.
WriteDone(k, r, err) ==
    LET u == [k EXCEPT !.req[r].locked = FALSE]
        q == u.req[r]
    IN  request_end(IF q.aborted THEN u
                    ELSE IF err THEN [u EXCEPT !.req[r].error = "EIO"]
                    ELSE [u EXCEPT !.req[r].copied = TRUE], r)

IoEnds(s, err) ==
    LET r == server[s].req
    IN  /\ IF server[s].pc \in {"rfault", "rcopy"}
           THEN /\ fc' = ReadDone(fc, r, err)
                /\ held' = IF err \/ fc.req[r].aborted \/ ~fc.req[r].isreply
                           THEN held
                           ELSE held \cup {[req |-> r, intr |-> FALSE]}
           ELSE fc' = WriteDone(fc, r, err) /\ UNCHANGED held
        /\ IoDone(s)
        /\ OnlyServer

\* Mutant: an aborted request is locked again.
CanLock_Always(r) == TRUE

\* fuse_copy_fill after the page fault: lock_request refuses an aborted one.
CanLock(r) == ~fc.req[r].aborted

lock_request(s) ==
    /\ server[s].pc \in {"rfault", "wfault"} /\ ~fc.corrupt
    /\ \/ /\ CanLock(server[s].req)
          /\ fc' = [fc EXCEPT !.req[server[s].req].locked = TRUE]
          /\ server' = [server EXCEPT ![s].pc = IF @ = "rfault" THEN "rcopy"
                                                ELSE "wcopy"]
          /\ UNCHANGED held /\ OnlyServer
       \/ ~CanLock(server[s].req) /\ IoEnds(s, TRUE)             \* ENOENT

FaultFails(s) ==
    server[s].pc \in {"rfault", "wfault"} /\ ~fc.corrupt /\ IoEnds(s, TRUE)

\* fuse_copy_fill before the page fault.
NextPage(s) ==
    /\ server[s].pc \in {"rcopy", "wcopy"} /\ ~fc.corrupt
    /\ fc' = unlock_request(fc, server[s].req)
    /\ server' = [server EXCEPT ![s].pc = IF @ = "rcopy" THEN "rfault"
                                          ELSE "wfault"]
    /\ UNCHANGED held /\ OnlyServer

\* The last page: a write may still turn out to have the wrong size.
CopyEnds(s) ==
    /\ server[s].pc \in {"rcopy", "wcopy"} /\ ~fc.corrupt
    /\ \/ IoEnds(s, FALSE)
       \/ server[s].pc = "wcopy" /\ IoEnds(s, TRUE)

\* request_find: on the processing list, by either of the two numbers.
request_find(m) == InList(fc.processing, m.req)

\* The reply m; its error matters for INIT and for interrupts.  For an
\* aborted request the lock is let go of before request_end.
fuse_dev_writev(s, m, error) ==
    LET r == m.req
        found == fc.connected /\ request_find(m)
    IN  /\ CanUse(s) /\ m \in held /\ held' = held \ {m}
        /\ \/ ~found /\ UNCHANGED <<fc, server>>                 \* ENOENT
           \/ /\ found /\ fc.req[r].aborted /\ UNCHANGED fc
              /\ Io(s, "aborted", r)
           \/ /\ found /\ ~fc.req[r].aborted /\ m.intr
              /\ fc' = CASE error = "ENOSYS" -> [fc EXCEPT !.no_interrupt = TRUE]
                         [] error = "EAGAIN" -> queue_interrupt(fc, r)
                         [] OTHER -> fc
              /\ UNCHANGED server
           \/ /\ found /\ ~fc.req[r].aborted /\ ~m.intr
              /\ fc' = [list_del(fc, r) EXCEPT
                           !.io = <<r>> \o @, !.req[r].state = "writing",
                           !.req[r].error = IF r = INIT /\ error # "none"
                                            THEN "server" ELSE "none",
                           !.req[r].locked = TRUE]
              /\ Io(s, "wcopy", r)
        /\ OnlyServer

WriteAborted(s) ==
    /\ server[s].pc = "aborted" /\ ~fc.corrupt
    /\ fc' = request_end(fc, server[s].req)
    /\ IoDone(s)
    /\ UNCHANGED held /\ OnlyServer

(***************************************************************************)
(* The end of the connection                                               *)
(***************************************************************************)
OnlyEnder == UNCHANGED <<task, server, held>>
EnderGoto(e, pc, r) == ender' = [ender EXCEPT ![e] = [pc |-> pc, req |-> r]]

fuse_abort_conn ==
    /\ ender["abort"].pc = "idle" /\ fc.connected /\ ~fc.corrupt
    /\ fc' = [fc EXCEPT !.connected = FALSE, !.blocked = FALSE]
    /\ EnderGoto("abort", "io", 0)
    /\ OnlyEnder

\* One turn of end_io_requests, and the wait before an `end` function.
end_io_requests ==
    /\ ender["abort"].pc = "io" /\ ~fc.corrupt
    /\ \/ /\ fc.io = <<>> /\ UNCHANGED fc
          /\ EnderGoto("abort", "pending", 0)
       \/ /\ fc.io # <<>>
          /\ LET r == Head(fc.io)
                 end == fc.req[r].end
                 k == wake_up([list_del(fc, r) EXCEPT
                                  !.req[r].aborted = TRUE,
                                  !.req[r].error = "ECONNABORTED",
                                  !.req[r].state = "finished"], r)
             IN  IF end = "none"
                 THEN fc' = k /\ UNCHANGED ender
                 ELSE /\ fc' = __fuse_get_request(
                                  [k EXCEPT !.req[r].end = "none"], r)
                      /\ EnderGoto("abort", end, r)
    /\ OnlyEnder

EndIoRequest ==
    LET r == ender["abort"].req
    IN  /\ ender["abort"].pc \in {"init", "readpages"} /\ ~fc.corrupt
        /\ Awake(r, "abort")
        /\ \/ /\ fc.req[r].locked /\ UNCHANGED ender
              /\ fc' = Sleep(fc, r, "abort")
           \/ /\ ~fc.req[r].locked
              /\ fc' = End(fc, r, ender["abort"].pc)
              /\ EnderGoto("abort", "io", 0)
        /\ OnlyEnder

fuse_dev_release ==
    /\ Open /\ \A s \in Servers : server[s].pc = "idle"
    /\ ~fc.corrupt
    /\ fc' = [fc EXCEPT !.connected = FALSE]
    /\ EnderGoto("release", "pending", 0)
    /\ OnlyEnder

\* One turn of end_requests, and after the last one fuse_abort_conn wakes
\* those that wait for !blocked.
end_requests(e) ==
    /\ ~fc.corrupt
    /\ \/ /\ ender[e].pc = "pending"
          /\ \/ /\ fc.pending # <<>> /\ UNCHANGED ender
                /\ fc' = request_end([fc EXCEPT
                             !.req[Head(fc.pending)].error = "ECONNABORTED"],
                             Head(fc.pending))
             \/ /\ fc.pending = <<>> /\ UNCHANGED fc
                /\ EnderGoto(e, "processing", 0)
       \/ /\ ender[e].pc = "processing"
          /\ \/ /\ fc.processing # <<>> /\ UNCHANGED ender
                /\ fc' = request_end([fc EXCEPT
                             !.req[Head(fc.processing)].error = "ECONNABORTED"],
                             Head(fc.processing))
             \/ /\ fc.processing = <<>>
                /\ fc' = IF e = "abort" THEN wake_up(fc, BlockedQ) ELSE fc
                /\ EnderGoto(e, "done", 0)
    /\ OnlyEnder

(***************************************************************************)
(* Specification                                                           *)
(***************************************************************************)
\* fuse_fill_super has connected the device and sent INIT in the background;
\* until its reply, new_conn's blocked = 1 holds the tasks back.
Init ==
    LET r == [i \in Reqs |-> IF i = INIT
                             THEN [fuse_request_init EXCEPT !.end = "init"]
                             ELSE NoRequest]
        new_conn == [connected |-> TRUE, blocked |-> TRUE,
                     no_interrupt |-> FALSE, conn_error |-> FALSE,
                     num_waiting |-> 0, num_background |-> 0,
                     pending |-> <<>>, io |-> <<>>, processing |-> <<>>,
                     interrupts |-> <<>>, req |-> r, nreq |-> 1,
                     reserved |-> TRUE, asleep |-> {}, corrupt |-> FALSE]
    IN  /\ fc = request_send_background(new_conn, INIT)
        /\ task = [t \in Tasks |-> Idle]
        /\ server = [s \in Servers |-> NoIo]
        /\ held = {}
        /\ ender = [e \in {"abort", "release"} |-> [pc |-> "idle", req |-> 0]]

TaskStep(t) ==
    \/ fuse_get_req(t) \/ get_reserved_req(t) \/ Send(t)
    \/ wait_answer_interruptible(t) \/ request_wait_answer(t)
    \/ Aborted(t) \/ WaitFinished(t) \/ Put(t)

Copy(s) == NextPage(s) \/ CopyEnds(s)

EnderStep == end_io_requests \/ EndIoRequest
             \/ \E e \in {"abort", "release"} : end_requests(e)

Next ==
    \/ \E t \in Tasks : TaskStep(t)
    \/ \E t \in Tasks, kind \in Kinds : Call(t, kind)
    \/ \E t \in Tasks, sig \in {"signal", "kill"} : Signal(t, sig)
    \/ \E s \in Servers : \/ fuse_read_interrupt(s) \/ fuse_dev_readv(s)
                          \/ lock_request(s) \/ FaultFails(s)
                          \/ Copy(s) \/ WriteAborted(s)
    \/ \E s \in Servers, m \in held, error \in {"none", "ENOSYS", "EAGAIN"} :
          fuse_dev_writev(s, m, error)
    \/ fuse_abort_conn \/ fuse_dev_release \/ EnderStep

\* The kernel's own steps are taken; the daemon may stop reading, writing or
\* resolving its page faults for ever.
Fairness ==
    /\ \A t \in Tasks : WF_vars(TaskStep(t))
    /\ \A s \in Servers : WF_vars(Copy(s)) /\ WF_vars(WriteAborted(s))
    /\ WF_vars(EnderStep)

Spec == Init /\ [][Next]_vars /\ Fairness

(***************************************************************************)
(* Properties                                                              *)
(***************************************************************************)
Live(r) == fc.req[r].state \notin {"none", "freed"}
Waiter(t) == task[t].pc \notin {"idle", "get", "reserved"}

\* A request is on the one list that its state names, at most once, and an
\* interrupt is queued, once, only for a request that was not ended yet:
\* nothing freed is ever found on a list (dev.c, the lists of fuse_conn).
ListsSound ==
    LET lists == <<fc.pending, fc.io, fc.processing>>
        queue == fc.interrupts
    IN  /\ \A l, m \in 1..3 : \A i \in DOMAIN lists[l], j \in DOMAIN lists[m] :
              lists[l][i] = lists[m][j] => l = m /\ i = j
        /\ \A i, j \in DOMAIN queue : queue[i] = queue[j] => i = j
        /\ \A r \in Reqs :
              /\ InList(fc.pending, r) => fc.req[r].state = "pending"
              /\ InList(fc.io, r) <=> fc.req[r].state \in {"reading", "writing"}
              /\ InList(fc.processing, r) <=> fc.req[r].state = "sent"
              /\ InList(queue, r) => Live(r) /\ ~fc.req[r].ended

\* req->count is the number of those who will still touch the request: the
\* list or copy it is in, the task that sent it, and fuse_abort_conn while it
\* waits to call its end function.  A miscount frees it under one of them.
RefsCounted ==
    \A r \in Reqs : Live(r) =>
        fc.req[r].count =
            (IF \/ InList(fc.pending, r) \/ InList(fc.processing, r)
                \/ \E s \in Servers : /\ server[s].req = r
                                      /\ server[s].pc # "aborted"
             THEN 1 ELSE 0)
            + Cardinality({t \in Tasks : task[t].req = r /\ Waiter(t)})
            + (IF ender["abort"].req = r THEN 1 ELSE 0)

\* The arguments of a call lie on the stack of its task: while a thread of
\* the daemon copies them the task has not left, whatever signal it got and
\* whether or not the connection was aborted (lock_request, request_wait_answer).
CopiesOwned ==
    \A s \in Servers : server[s].pc \in {"rcopy", "wcopy"} =>
        LET r == server[s].req
        IN  /\ fc.req[r].locked
            /\ fc.req[r].background
               \/ \E t \in Tasks : /\ task[t].req = r
                                   /\ task[t].pc \in {"wait1", "wait2", "unlocked"}

\* A task that is told of no error by the kernel has the daemon's reply, all
\* of it: a signal, an abort or a short copy in between is never taken for one.
AnswersGenuine ==
    \A t \in Tasks : task[t].pc = "put" /\ fc.req[task[t].req].error = "none"
                        => fc.req[task[t].req].copied

\* The two counters are true whatever way requests end: num_waiting, which
\* the control file system shows, counts those wanted or under way, and
\* num_background those not ended; once INIT is answered, tasks are held back
\* exactly while the limit of background requests is reached.  So are the
\* references to each request.
CountsTrue ==
    /\ RefsCounted
    /\ fc.num_waiting =
           Cardinality({t \in Tasks : task[t].pc \in {"get", "reserved"}})
           + Cardinality({r \in Reqs : Live(r) /\ fc.req[r].waiting})
    /\ fc.num_background =
           Cardinality({r \in Reqs : /\ Live(r) /\ fc.req[r].background
                                     /\ ~fc.req[r].ended})
    /\ fc.connected /\ ~Live(INIT) =>
           (fc.blocked <=> fc.num_background >= FUSE_MAX_BACKGROUND)

\* No request is ended twice, but for one window: fuse_dev_writev lets go of
\* the lock between finding an aborted request and ending it.
EndedTwiceOnlyInWindow ==
    [][~fc.corrupt /\ fc'.corrupt =>
          \E s \in Servers : server[s].pc = "aborted"]_vars

\* After an abort, or once the device is closed, every call returns, even if
\* the daemon is stuck in a page fault and never answers (fuse_abort_conn);
\* all but a FLUSH that waits for the reserved request, which such a thread
\* may hold for ever (get_reserved_req).
CallsReturnAfterAbort ==
    \A t \in Tasks : ~fc.connected /\ task[t].pc # "idle"
                        ~> task[t].pc \in {"idle", "reserved"} \/ fc.corrupt

\* A fatal signal ends a call whose request the daemon does not have yet, or
\* is copying, without any help from the daemon.
KilledCallsReturn ==
    \A t \in Tasks : Killable(t)
                        ~> \/ task[t].pc = "idle" \/ fc.corrupt
                           \/ fc.req[task[t].req].state = "sent"
====
