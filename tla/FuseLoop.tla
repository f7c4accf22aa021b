------------------------------ MODULE FuseLoop ------------------------------
(***************************************************************************)
(* The threads of a FUSE daemon: the pool of fuse_session_loop_mt          *)
(* (lib/fuse_loop_mt.c), the requests they share with the INTERRUPT        *)
(* requests that are meant for them (lib/fuse_lowlevel.c; fuse_interrupt   *)
(* of lib/fuse.c, with -o intr), and how the loop ends: by an unmount      *)
(* (lib/fuse_kern_chan.c), an error or a signal (lib/fuse_signals.c).      *)
(*                                                                         *)
(* A section under mt->lock or fuse_ll's lock is one step.  req->lock is   *)
(* held while another thread is signalled and is part of the state, as is  *)
(* tree_lock; f->lock is kept only by a thread that is cancelled while it  *)
(* waits for it again.                                                     *)
(***************************************************************************)
EXTENDS Integers, FiniteSets, Sequences, SequencesExt

CONSTANTS
    MaxWorker,  \* threads that the system grants at a time
    MaxIdle,    \* 10: a worker that is more than that ends itself
    Loads,      \* bound: the requests that the kernel sends, by their kinds,
                \* and those of them whose callers may get a signal
    MaxFaults   \* bound: failures of malloc, pthread_create and read

ASSUME LoopAssumption ==
    /\ MaxWorker \in Nat \ {0} /\ MaxIdle \in Nat \ {0}
    /\ MaxFaults \in Nat
    /\ \A l \in Loads :
          /\ l.kinds \in Seq({"read", "write", "forget"})
          /\ \A u \in l.signalled :         \* a FORGET has no caller
                u \in DOMAIN l.kinds /\ l.kinds[u] # "forget"

VARIABLES
    dev,     \* what the kernel has for the daemon, and whether it is mounted
    se,      \* the session: exited
    mt,      \* struct fuse_mt and the thread that runs the loop
    worker,  \* the threads
    rq,      \* the requests of the kernel, and their struct fuse_req
    ll,      \* interrupts that came before their request
    tree,    \* tree_lock: its readers and its writer
    flock,   \* the cancelled thread that holds f->lock
    faults   \* failures so far

vars == <<dev, se, mt, worker, rq, ll, tree, flock, faults>>

Workers == 1..MaxWorker
Uniques == UNION {DOMAIN l.kinds : l \in Loads}
NoMsg == [u |-> 0, intr |-> FALSE]
Fault == faults < MaxFaults /\ faults' = faults + 1

NoWorker == [pc |-> "none", msg |-> NoMsg, old |-> 0, cancelled |-> FALSE]

\* kernel is what the kernel knows of the request, the rest is fuse_req:
\* func, with its data on the stack of the handler, is set while the handler
\* is in the file system.
NoReq == [kernel |-> "none", kind |-> "none", intr |-> FALSE, live |-> FALSE,
          listed |-> FALSE, ctr |-> 0, interrupted |-> FALSE, func |-> FALSE,
          told |-> FALSE, finished |-> FALSE, lock |-> 0]

(***************************************************************************)
(* The kernel, from the daemon's side (external: kernel/dev.c).            *)
(***************************************************************************)
OnlyDev == UNCHANGED <<se, mt, worker, ll, tree, flock, faults>>

\* An INTERRUPT is sent once, for a request that the daemon has read.
SendInterrupt(u) ==
    /\ dev.mounted /\ u \in dev.signalled
    /\ rq[u].kernel = "sent" /\ ~rq[u].intr /\ [u |-> u, intr |-> FALSE] \notin dev.msgs
    /\ rq' = [rq EXCEPT ![u].intr = TRUE]
    /\ dev' = [dev EXCEPT !.msgs = @ \cup {[u |-> u, intr |-> TRUE]}]
    /\ OnlyDev

(***************************************************************************)
(* The workers.                                                            *)
(***************************************************************************)
Goto(w, pc) == worker' = [worker EXCEPT ![w].pc = pc]
At(w, pc) == worker[w].pc = pc
Forgets(w) == ~worker[w].msg.intr /\ rq[worker[w].msg.u].kind = "forget"
Req(w) == worker[w].msg.u

fuse_session_exit == se' = [exited |-> TRUE]

\* while (!fuse_session_exited(mt->se)): a worker at the top of its loop.
fuse_do_work ==
    [NoWorker EXCEPT !.pc = IF se.exited THEN "end" ELSE "read"]

\* What was read is dropped once the loop is to end; after an unmount the
\* device gives ENODEV.
fuse_kern_chan_receive(w) ==
    /\ At(w, "read") /\ UNCHANGED <<se, mt, rq, ll, tree, flock, faults>>
    /\ \/ /\ dev.mounted
          /\ \E m \in dev.msgs :
                /\ dev' = [dev EXCEPT !.msgs = @ \ {m}]
                /\ worker' = [worker EXCEPT ![w].msg = m,
                                 ![w].pc = IF se.exited THEN "end" ELSE "got"]
       \/ ~dev.mounted /\ Goto(w, "end") /\ UNCHANGED dev

\* The first ENODEV, and any other error of the device.
ReceiveFails(w) ==
    /\ At(w, "read") /\ dev.mounted /\ UNCHANGED <<rq, ll, tree, flock>>
    /\ fuse_session_exit /\ Goto(w, "end")
    /\ \/ dev' = [dev EXCEPT !.mounted = FALSE] /\ UNCHANGED <<mt, faults>>
       \/ Fault /\ mt' = [mt EXCEPT !.error = TRUE] /\ UNCHANGED dev

\* The outcomes of fuse_start_thread: the pool, and the new thread or 0.
fuse_start_thread(m) ==
    LET free == {w \in Workers : At(w, "none")}
        new == CHOOSE w \in free : \A v \in free : w =< v
        started == [m EXCEPT !.list = Append(@, new), !.numavail = @ + 1,
                             !.numworker = @ + 1]
        failed == [mt |-> [m EXCEPT !.failed = TRUE], new |-> 0, n |-> 1]
    IN  IF free = {} THEN {[failed EXCEPT !.n = 0]}
        ELSE {failed, [mt |-> started, new |-> new, n |-> 0]}

\* Mutant: the test for the last thread leaves out the one that asks.
Started_Late(m) ==
    IF m.numavail < 0 THEN fuse_start_thread(m)
    ELSE {[mt |-> m, new |-> 0, n |-> 0]}

Started(m) ==
    IF m.numavail = 0 THEN fuse_start_thread(m)
    ELSE {[mt |-> m, new |-> 0, n |-> 0]}

\* A message was read: unless it is a FORGET one thread less is available,
\* and if that was the last one there is a new one.
GotMessage(w) ==
    /\ At(w, "got") /\ UNCHANGED <<dev, se, rq, ll, tree, flock>>
    /\ \/ /\ mt.exit /\ Goto(w, "dead") /\ UNCHANGED <<mt, faults>>
       \/ /\ ~mt.exit
          /\ \E o \in Started(IF Forgets(w) THEN mt
                              ELSE [mt EXCEPT !.numavail = @ - 1]) :
                /\ mt' = o.mt
                /\ faults + o.n =< MaxFaults /\ faults' = faults + o.n
                /\ worker' = [v \in Workers |->
                       IF v = o.new THEN fuse_do_work
                       ELSE IF v = w THEN [worker[w] EXCEPT !.pc = "process"]
                       ELSE worker[v]]

\* Whether u is on a list, and the list after list_del of it.
InSeq(s, u) == \E i \in DOMAIN s : s[i] = u
Without(s, u) ==
    IF InSeq(s, u) THEN RemoveAt(s, CHOOSE i \in DOMAIN s : s[i] = u) ELSE s

\* Mutant: an interrupt that came too early is thrown away.
check_interrupt_Drop(u) ==
    [ll |-> IF InSeq(ll, u) THEN Without(ll, u) ELSE ll,
     mine |-> FALSE, old |-> 0]

\* An interrupt that waits for this request is its own; if there is none,
\* the oldest of the others goes back to the kernel.
check_interrupt(u) ==
    IF InSeq(ll, u) THEN [ll |-> Without(ll, u), mine |-> TRUE, old |-> 0]
    ELSE IF ll # <<>> THEN [ll |-> Tail(ll), mine |-> FALSE, old |-> Head(ll)]
    ELSE [ll |-> ll, mine |-> FALSE, old |-> 0]

Handler(w) == IF Forgets(w) THEN "free" ELSE "tree"

\* Mutant: the request is not counted before the lock is let go of.
do_interrupt_Uncounted(w) ==
    LET u == Req(w)
    IN  \/ /\ rq[u].listed /\ UNCHANGED <<ll, rq>> /\ Goto(w, "ilock")
        \/ /\ ~rq[u].listed /\ UNCHANGED rq /\ Goto(w, "count")
           /\ ll' = IF InSeq(ll, u) THEN ll ELSE Append(ll, u)

\* find_interrupted up to its unlock, and the list of interrupts without it.
do_interrupt(w) ==
    LET u == Req(w)
    IN  \/ /\ rq[u].listed /\ UNCHANGED ll /\ Goto(w, "ilock")
           /\ rq' = [rq EXCEPT ![u].ctr = @ + 1]
        \/ /\ ~rq[u].listed /\ UNCHANGED rq /\ Goto(w, "count")
           /\ ll' = IF InSeq(ll, u) THEN ll ELSE Append(ll, u)

\* Without memory the request is dropped, and not answered.
fuse_ll_process(w) ==
    LET u == Req(w)
        c == check_interrupt(u)
    IN  /\ At(w, "process") /\ UNCHANGED <<dev, se, mt, tree, flock>>
        /\ \/ Fault /\ Goto(w, "count") /\ UNCHANGED <<rq, ll>>
           \/ worker[w].msg.intr /\ do_interrupt(w) /\ UNCHANGED faults
           \/ /\ ~worker[w].msg.intr /\ UNCHANGED faults
              /\ ll' = c.ll
              /\ rq' = [rq EXCEPT ![u].live = TRUE, ![u].listed = TRUE,
                                  ![u].ctr = 1, ![u].interrupted = c.mine]
              /\ worker' = [worker EXCEPT ![w].old = c.old,
                  ![w].pc = IF c.old # 0 THEN "eagain" ELSE Handler(w)]

\* fuse_reply_err(intr, EAGAIN): the kernel sends the interrupt again, if
\* its request is still there.
ReplyAgain(w) ==
    LET v == worker[w].old
    IN  /\ At(w, "eagain")
        /\ dev' = IF dev.mounted /\ rq[v].kernel = "sent"
                  THEN [dev EXCEPT !.msgs = @ \cup {[u |-> v, intr |-> TRUE]}]
                  ELSE dev
        /\ worker' = [worker EXCEPT ![w].old = 0, ![w].pc = Handler(w)]
        /\ UNCHANGED <<se, mt, rq, ll, tree, flock, faults>>

\* With fuse_req_interrupt_func: for a request that is interrupted already
\* fuse_interrupt is called here, by the thread itself, and does nothing.
fuse_do_prepare_interrupt(r) ==
    [r EXCEPT !.func = TRUE, !.finished = FALSE, !.told = r.interrupted]

\* A handler of fuse.c takes tree_lock and enters the file system; without a
\* path it answers at once.
EnterFs(w) ==
    LET u == Req(w)
    IN  /\ At(w, "tree") /\ tree.writer = 0
        /\ UNCHANGED <<dev, se, mt, ll, flock, faults>>
        /\ \/ Goto(w, "reply") /\ UNCHANGED <<rq, tree>>
           \/ /\ \/ /\ rq[u].kind = "read"
                    /\ tree' = [tree EXCEPT !.readers = @ \cup {w}]
                 \/ /\ rq[u].kind = "write" /\ tree.readers = {}
                    /\ tree' = [tree EXCEPT !.writer = w]
              /\ rq[u].lock = 0 /\ Goto(w, "fs")
              /\ rq' = [rq EXCEPT ![u] = fuse_do_prepare_interrupt(rq[u])]

\* The operation of the file system ends.
FsEnds(w) ==
    /\ At(w, "fs") /\ Goto(w, "finish")
    /\ UNCHANGED <<dev, se, mt, rq, ll, tree, flock, faults>>

\* First `finished` under f->lock, then func under req->lock.
fuse_do_finish_interrupt(w) ==
    LET u == Req(w)
    IN  /\ UNCHANGED <<dev, se, mt, ll, flock, faults>>
        /\ \/ /\ At(w, "finish") /\ flock = 0
              /\ rq' = [rq EXCEPT ![u].finished = TRUE]
              /\ Goto(w, "clear") /\ UNCHANGED tree
           \/ /\ At(w, "clear") /\ rq[u].lock = 0
              /\ rq' = [rq EXCEPT ![u].func = FALSE]
              /\ tree' = [readers |-> tree.readers \ {w},
                          writer |-> IF tree.writer = w THEN 0 ELSE tree.writer]
              /\ Goto(w, "reply")

\* send_reply_iov: the kernel forgets the interrupts of an answered request.
send_reply_iov(w) ==
    LET u == Req(w)
    IN  /\ At(w, "reply") /\ Goto(w, "free")
        /\ rq' = [rq EXCEPT ![u].kernel = "answered"]
        /\ dev' = [dev EXCEPT !.msgs = @ \ {[u |-> u, intr |-> TRUE]}]
        /\ UNCHANGED <<se, mt, ll, tree, flock, faults>>

\* One user less: destroy_req when it was the last.
Put(r) ==
    IF r.ctr > 1 THEN [r EXCEPT !.ctr = r.ctr - 1]
    ELSE [NoReq EXCEPT !.kernel = r.kernel, !.kind = r.kind, !.intr = r.intr]

free_req(w) ==
    LET u == Req(w)
    IN  /\ At(w, "free") /\ rq[u].lock = 0 /\ Goto(w, "count")
        /\ rq' = [rq EXCEPT ![u] = Put([rq[u] EXCEPT !.listed = FALSE,
                                                     !.func = FALSE])]
        /\ UNCHANGED <<dev, se, mt, ll, tree, flock, faults>>

(***************************************************************************)
(* INTERRUPT.                                                              *)
(***************************************************************************)
OnlyReq == UNCHANGED <<dev, se, mt, tree, flock, faults>>

find_interrupted(w) ==
    LET u == Req(w)
    IN  /\ At(w, "ilock") /\ rq[u].lock = 0 /\ UNCHANGED ll /\ OnlyReq
        /\ rq' = [rq EXCEPT ![u].interrupted = TRUE,
                            ![u].lock = IF rq[u].func THEN w ELSE 0]
        /\ Goto(w, IF rq[u].func THEN "signal" ELSE "put")

\* A signal to the handler each second, until it has finished.
fuse_interrupt(w) ==
    LET u == Req(w)
    IN  /\ At(w, "signal") /\ flock = 0 /\ UNCHANGED ll /\ OnlyReq
        /\ rq[u].finished /\ Goto(w, "put")
        /\ rq' = [rq EXCEPT ![u].lock = 0]

PutInterrupted(w) ==
    /\ At(w, "put") /\ UNCHANGED ll /\ OnlyReq
    /\ rq' = [rq EXCEPT ![Req(w)] = Put(rq[Req(w)])]
    /\ Goto(w, "count")

(***************************************************************************)
(* The end of a message, of a worker, and of the loop.                     *)
(***************************************************************************)
\* A worker too many ends itself; the loop may just be looking at it.
Counted(w) ==
    LET n == IF Forgets(w) THEN mt.numavail ELSE mt.numavail + 1
    IN  /\ At(w, "count") /\ UNCHANGED <<dev, se, rq, ll, tree, flock, faults>>
        /\ \/ /\ n =< MaxIdle /\ mt' = [mt EXCEPT !.numavail = n]
              /\ worker' = [worker EXCEPT ![w] = [fuse_do_work EXCEPT
                                               !.cancelled = worker[w].cancelled]]
           \/ /\ n > MaxIdle /\ mt.exit
              /\ mt' = [mt EXCEPT !.numavail = n] /\ Goto(w, "dead")
           \/ /\ n > MaxIdle /\ ~mt.exit
              /\ mt' = [mt EXCEPT !.numavail = n - 1, !.numworker = @ - 1,
                                  !.list = Without(@, w),
                                  !.corrupt = @ \/ mt.cur = w]
              /\ worker' = [worker EXCEPT ![w] = NoWorker]

\* Mutant: the worker does not tell the loop.
WorkerEnds_Silent(w) ==
    /\ At(w, "end") /\ Goto(w, "pause")
    /\ UNCHANGED <<dev, se, mt, rq, ll, tree, flock, faults>>

\* sem_post; after that only pthread_cancel ends the thread.
WorkerEnds(w) ==
    /\ At(w, "end") /\ Goto(w, "pause")
    /\ mt' = [mt EXCEPT !.finish = @ + 1]
    /\ UNCHANGED <<dev, se, rq, ll, tree, flock, faults>>

\* pthread_cancel acts in a system call or in a wait for a condition; the
\* locks that the thread has are not given back, and the condition takes its
\* lock again.
CancelPoints == {"read", "fs", "reply", "eagain", "pause"}

Cancelled(w) ==
    /\ worker[w].cancelled /\ Goto(w, "dead")
    /\ \/ worker[w].pc \in CancelPoints /\ UNCHANGED flock
       \/ At(w, "signal") /\ flock = 0 /\ flock' = w
    /\ UNCHANGED <<dev, se, mt, rq, ll, tree, faults>>

OnlyMain == UNCHANGED <<dev, rq, ll, tree, flock>>
MainAt(pc) == mt.pc = pc

StartFirst ==
    /\ MainAt("start") /\ UNCHANGED se /\ OnlyMain
    /\ \E o \in fuse_start_thread(mt) :
          /\ mt' = [o.mt EXCEPT !.pc = IF o.new = 0 THEN "done" ELSE "wait"]
          /\ faults + o.n =< MaxFaults /\ faults' = faults + o.n
          /\ worker' = [v \in Workers |-> IF v = o.new THEN fuse_do_work
                                          ELSE worker[v]]

\* while (!fuse_session_exited(se)) sem_wait(&mt.finish), and then the walk
\* along the list of workers, without mt.lock.
Tested(m) ==
    IF ~se.exited THEN [m EXCEPT !.pc = "wait"]
    ELSE [m EXCEPT !.pc = "walk", !.cur = IF m.list = <<>> THEN 0 ELSE m.list[1]]

WaitFinish ==
    /\ UNCHANGED <<se, worker, faults>> /\ OnlyMain
    /\ \/ MainAt("wait") /\ mt' = [mt EXCEPT !.pc = "asleep"]
       \/ /\ MainAt("asleep") /\ mt.finish > 0
          /\ mt' = Tested([mt EXCEPT !.finish = @ - 1])
       \/ MainAt("woken") /\ mt' = Tested(mt)

exit_handler ==
    /\ MainAt("asleep") \/ (MainAt("wait") /\ ~se.exited)
    /\ fuse_session_exit /\ UNCHANGED <<worker, faults>> /\ OnlyMain
    /\ mt' = [mt EXCEPT !.pc = IF @ = "asleep" THEN "woken" ELSE @,
                        !.missed = MainAt("wait")]

NextInList(w) ==
    LET i == CHOOSE j \in DOMAIN mt.list : mt.list[j] = w
    IN  IF i = Len(mt.list) THEN 0 ELSE mt.list[i + 1]

CancelWorkers ==
    /\ MainAt("walk") /\ ~mt.corrupt /\ UNCHANGED <<se, faults>> /\ OnlyMain
    /\ \/ /\ mt.cur # 0 /\ mt' = [mt EXCEPT !.cur = NextInList(mt.cur)]
          /\ worker' = [worker EXCEPT ![mt.cur].cancelled = TRUE]
       \/ /\ mt.cur = 0 /\ UNCHANGED worker
          /\ mt' = [mt EXCEPT !.pc = "join", !.exit = TRUE]

fuse_join_worker ==
    /\ MainAt("join") /\ UNCHANGED faults /\ OnlyMain
    /\ \/ /\ mt.list # <<>> /\ At(mt.list[1], "dead") /\ UNCHANGED se
          /\ mt' = [mt EXCEPT !.list = Tail(@)]
          /\ worker' = [worker EXCEPT ![mt.list[1]] = NoWorker]
       \/ /\ mt.list = <<>> /\ mt' = [mt EXCEPT !.pc = "done"]
          /\ se' = [exited |-> FALSE] /\ UNCHANGED worker

(***************************************************************************)
(* Specification                                                           *)
(***************************************************************************)
\* The requests may be read at any time from now on.
Init ==
    /\ se = [exited |-> FALSE]
    /\ mt = [pc |-> "start", cur |-> 0, list |-> <<>>, numworker |-> 0,
             numavail |-> 0, finish |-> 0, exit |-> FALSE, error |-> FALSE,
             missed |-> FALSE, failed |-> FALSE, corrupt |-> FALSE]
    /\ worker = [w \in Workers |-> NoWorker]
    /\ \E l \in Loads :
          /\ rq = [u \in Uniques |-> IF u \notin DOMAIN l.kinds THEN NoReq
                      ELSE [NoReq EXCEPT !.kernel = "sent", !.kind = l.kinds[u]]]
          /\ dev = [msgs |-> [u : DOMAIN l.kinds, intr : {FALSE}],
                    mounted |-> TRUE, signalled |-> l.signalled]
    /\ ll = <<>>
    /\ tree = [readers |-> {}, writer |-> 0]
    /\ flock = 0 /\ faults = 0

WorkerStep(w) ==
    \/ GotMessage(w) \/ fuse_ll_process(w) \/ ReplyAgain(w)
    \/ EnterFs(w)
    \/ fuse_do_finish_interrupt(w) \/ send_reply_iov(w) \/ free_req(w)
    \/ find_interrupted(w) \/ fuse_interrupt(w)
    \/ PutInterrupted(w) \/ Counted(w) \/ WorkerEnds(w) \/ Cancelled(w)

MainStep == StartFirst \/ WaitFinish \/ CancelWorkers \/ fuse_join_worker

Next ==
    \/ \E u \in Uniques : SendInterrupt(u)
    \/ \E w \in Workers : WorkerStep(w) \/ fuse_kern_chan_receive(w)
                          \/ ReceiveFails(w) \/ FsEnds(w)
    \/ MainStep \/ exit_handler

\* Threads run.  The operations of the file system may last for ever; one
\* that does is in a system call, where pthread_cancel ends it.
Fairness ==
    /\ \A w \in Workers : /\ WF_vars(WorkerStep(w))
                          /\ WF_vars(fuse_kern_chan_receive(w))
    /\ WF_vars(MainStep)

Spec == Init /\ [][Next]_vars /\ Fairness

(***************************************************************************)
(* Properties                                                              *)
(***************************************************************************)
Handling(w, u) ==
    /\ worker[w].msg = [u |-> u, intr |-> FALSE]
    /\ worker[w].pc \in {"eagain", "tree", "fs", "finish", "clear",
                         "reply", "free"}
Interrupting(w, u) ==
    /\ worker[w].msg = [u |-> u, intr |-> TRUE]
    /\ worker[w].pc \in {"ilock", "signal", "put"}

\* Until threads are cancelled: a request is destroyed when its handler and
\* the last thread that interrupts it are done with it, not before, and a
\* thread is signalled only while it is in the operation that was
\* interrupted, with the data on its stack (free_req, find_interrupted).
RequestsUsed ==
    mt.pc \in {"start", "wait", "asleep", "woken"} =>
        \A u \in Uniques :
            /\ rq[u].ctr = Cardinality({w \in Workers : Handling(w, u)})
                           + Cardinality({w \in Workers : Interrupting(w, u)})
            /\ rq[u].live <=> rq[u].ctr > 0
            /\ \A w \in Workers : Interrupting(w, u) /\ At(w, "signal") =>
                  \E h \in Workers : /\ Handling(h, u)
                                     /\ worker[h].pc \in {"fs", "finish", "clear"}

\* No interrupt is lost, whatever order the two threads come in: until the
\* request is answered the interrupt is on its way, kept for a request that
\* has not come up yet, or known to it; and an operation that was begun
\* before the interrupt has a thread that signals it until it ends.
InterruptsKept ==
    dev.mounted /\ ~se.exited /\ ~mt.exit /\ faults = 0 =>
        \A u \in Uniques : rq[u].kernel = "sent" /\ rq[u].intr =>
            /\ \/ [u |-> u, intr |-> TRUE] \in dev.msgs
               \/ InSeq(ll, u) \/ rq[u].interrupted
               \/ \E w \in Workers :
                     \/ worker[w].old = u
                     \/ /\ worker[w].msg = [u |-> u, intr |-> TRUE]
                        /\ worker[w].pc \in {"got", "process", "ilock"}
            /\ rq[u].interrupted /\ rq[u].func /\ ~rq[u].finished /\ ~rq[u].told =>
                  \E w \in Workers : Interrupting(w, u) /\ At(w, "signal")

\* Every request and every interrupt is read, even if each operation before
\* it never ends, as long as threads can be started.
EveryRequestRead ==
    \A u \in Uniques, i \in BOOLEAN :
        [u |-> u, intr |-> i] \in dev.msgs
            ~> \/ [u |-> u, intr |-> i] \notin dev.msgs
               \/ se.exited \/ mt.failed \/ ~dev.mounted \/ mt.pc = "done"

\* What keeps the loop from its end: a signal between the test of `exited`
\* and sem_wait; a cancelled thread that has died with a lock that another
\* waits for; a worker that was started behind the walk along the list; one
\* that freed itself under it.
SignalMissed == MainAt("asleep") /\ mt.missed /\ mt.finish = 0
LockLost ==
    \/ flock # 0
    \/ \E w \in Workers : /\ worker[w].pc \in {"dead", "none"}
                          /\ \/ w \in tree.readers \/ tree.writer = w
                             \/ \E u \in Uniques : rq[u].lock = w
NotCancelled == MainAt("join") /\ \E w \in Workers : ~worker[w].cancelled
                                                     /\ ~At(w, "none")

\* After an unmount, an error of the device or a signal the loop cancels and
\* joins its threads and returns, but for these four windows.
LoopReturns ==
    se.exited ~> \/ mt.pc = "done" \/ mt.corrupt
                 \/ SignalMissed \/ LockLost \/ NotCancelled
====
