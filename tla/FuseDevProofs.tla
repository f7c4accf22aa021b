--------------------------- MODULE FuseDevProofs ---------------------------
(***************************************************************************)
(* Proofs about the life of a request in the FUSE kernel module (FuseDev), *)
(* for any number of tasks, of threads of the daemon and of requests.      *)
(***************************************************************************)
EXTENDS FuseDev, FiniteSetTheorems, TLAPS

(***************************************************************************)
(* The inductive invariant                                                 *)
(***************************************************************************)
States == {"none", "init", "pending", "reading", "sent", "writing",
           "finished", "freed"}
ReqRec == [state : States, count : Int, isreply : BOOLEAN, force : BOOLEAN,
           background : BOOLEAN, waiting : BOOLEAN, aborted : BOOLEAN,
           interrupted : BOOLEAN, locked : BOOLEAN, intr : BOOLEAN,
           stolen : BOOLEAN, end : {"none", "init", "readpages"},
           error : {"none", "server", "EIO", "EINTR", "ENOTCONN",
                    "ECONNREFUSED", "ECONNABORTED"},
           copied : BOOLEAN, ended : BOOLEAN]

FcRec == [connected : BOOLEAN, blocked : BOOLEAN, no_interrupt : BOOLEAN,
          conn_error : BOOLEAN, num_waiting : Int, num_background : Int,
          pending : Seq(Reqs), io : Seq(Reqs), processing : Seq(Reqs),
          interrupts : Seq(Reqs), req : [Reqs -> ReqRec], nreq : Reqs,
          reserved : BOOLEAN, asleep : SUBSET (Int \X (Tasks \cup {"abort"})),
          corrupt : BOOLEAN]

WaitPcs == {"send", "wait1", "wait2", "unlocked", "answered", "put"}
CopyPcs == {"rfault", "rcopy", "wfault", "wcopy"}

TaskRec == [pc : {"idle", "get", "reserved"} \cup WaitPcs,
            kind : {"none", "call", "flush", "readpages", "release", "forget"},
            req : Reqs \cup {0}, sig : {"none", "signal", "kill"}]
ServerRec == [pc : {"idle", "aborted"} \cup CopyPcs, req : Reqs \cup {0}]
EnderRec == [pc : {"idle", "io", "init", "readpages", "pending", "processing",
                   "done"}, req : Reqs \cup {0}]

Types(k, tk, sv, h, e) ==
    /\ k \in FcRec
    /\ tk \in [Tasks -> TaskRec]
    /\ sv \in [Servers -> ServerRec]
    /\ h \subseteq [req : Reqs, intr : BOOLEAN]
    /\ e \in [{"abort", "release"} -> EnderRec]

\* A list has nothing twice.
Once(l) == \A i, j \in DOMAIN l : l[i] = l[j] => i = j
ListsOnce(k) == /\ Once(k.pending) /\ Once(k.io)
                /\ Once(k.processing) /\ Once(k.interrupts)

\* Who refers to which request: a request is of one task, and is copied by
\* one thread; fuse_abort_conn waits only after it has disconnected.
TasksFit(k, tk) ==
    /\ \A t \in Tasks : (tk[t].pc = "idle" <=> tk[t].req = 0) /\ tk[t].req =< k.nreq
    /\ \A t, u \in Tasks : tk[t].req = tk[u].req /\ tk[t].req # 0 => t = u
ServersFit(sv) ==
    /\ \A s \in Servers : sv[s].pc = "idle" <=> sv[s].req = 0
    /\ \A s, u \in Servers :
          sv[s].pc \in CopyPcs /\ sv[u].pc \in CopyPcs /\ sv[s].req = sv[u].req
                => s = u
EnderFits(k, e) ==
    /\ e["abort"].pc \in {"init", "readpages"} <=> e["abort"].req # 0
    /\ e["abort"].pc # "idle" => ~k.connected

\* What the task, and the thread that copies, do with request r.
TaskPc(tk, r) == IF \E t \in Tasks : tk[t].req = r
                 THEN tk[CHOOSE t \in Tasks : tk[t].req = r].pc ELSE "none"
IsCopy(sv, s, r) == sv[s].req = r /\ sv[s].pc \in CopyPcs
CopyPc(sv, r) == IF \E s \in Servers : IsCopy(sv, s, r)
                 THEN sv[CHOOSE s \in Servers : IsCopy(sv, s, r)].pc ELSE "none"
InWindow(sv, r) == \E s \in Servers : sv[s].req = r /\ sv[s].pc = "aborted"
Token(r) == [req |-> r, intr |-> TRUE]

\* All there is about a request: its record, the lists it is on, its task,
\* its copy, whether fuse_abort_conn waits for it, whether the daemon has an
\* interrupt for it, whether a thread is about to end it after an abort.
View(k, tk, sv, h, e, r) ==
    [q |-> k.req[r],
     pending |-> InList(k.pending, r), io |-> InList(k.io, r),
     processing |-> InList(k.processing, r),
     interrupts |-> InList(k.interrupts, r),
     task |-> TaskPc(tk, r), copy |-> CopyPc(sv, r),
     ender |-> e["abort"].req = r, told |-> Token(r) \in h,
     window |-> InWindow(sv, r)]

ViewRec == [q : ReqRec, pending : BOOLEAN, io : BOOLEAN, processing : BOOLEAN,
            interrupts : BOOLEAN, task : {"none", "get", "reserved"} \cup WaitPcs,
            copy : {"none"} \cup CopyPcs, ender : BOOLEAN, told : BOOLEAN,
            window : BOOLEAN]

Alive(q) == q.state \notin {"none", "freed"}
Kept(v) == v.pending \/ v.processing \/ v.copy # "none"
One(b) == IF b THEN 1 ELSE 0

OnLists(v) ==
    /\ v.pending => v.q.state = "pending"
    /\ v.io <=> v.q.state \in {"reading", "writing"}
    /\ v.processing <=> v.q.state = "sent"
    /\ v.io => v.copy # "none"
    /\ v.interrupts => Kept(v) /\ ~v.told
    /\ v.interrupts \/ v.told =>
            /\ v.q.interrupted \/ v.q.state = "freed"
            /\ v.q.state \notin {"none", "init", "pending", "reading"}
Life(v) ==
    /\ Kept(v) => Alive(v.q) /\ v.q.state # "init" /\ ~v.q.ended
    /\ v.q.ended => v.q.state = "finished"
    /\ v.q.state = "none" => v.q = NoRequest /\ v.task \in {"none", "get", "reserved"}
    /\ v.q.state = "freed" => v.q = Freed /\ v.task = "none"
    /\ v.ender => Alive(v.q) /\ v.q.state # "init"
    /\ v.window => v.q.state = "freed" \/ v.q.ended \/ (v.processing /\ v.q.aborted)
    /\ v.q.background /\ Alive(v.q) /\ ~v.q.ended => Kept(v)
    /\ v.q.aborted => v.q.error # "none"
Counted(v) ==
    Alive(v.q) => v.q.count = One(Kept(v)) + One(v.task \in WaitPcs) + One(v.ender)
Copied(v) ==
    /\ v.copy # "none" =>
            /\ v.q.state \in {"reading", "writing", "finished"}
            /\ v.q.state = "finished" => v.q.aborted
            /\ v.q.state = "reading" => v.copy \in {"rfault", "rcopy"}
            /\ v.q.state = "writing" => v.copy \in {"wfault", "wcopy"}
    /\ v.copy \in {"rcopy", "wcopy"} =>
            /\ v.q.locked
            /\ v.q.background \/ v.task \in {"wait1", "wait2", "unlocked"}
    /\ Kept(v) /\ ~v.q.background /\ ~v.q.aborted => v.task \in {"wait1", "wait2"}
Waited(v) ==
    /\ v.task \in {"get", "reserved"} => v.q.state = "none"
    /\ v.task \in WaitPcs => ~v.q.background
    /\ v.task = "send" =>
            v.q.state = "init" /\ ~v.q.aborted /\ ~v.q.interrupted
    /\ v.task \in {"wait1", "wait2", "unlocked", "answered"} => v.q.state # "init"
    /\ v.task \in {"wait1", "wait2", "unlocked"} /\ v.q.state = "pending" => v.pending
    /\ v.task = "wait1" => ~v.q.interrupted
    /\ v.task \in {"unlocked", "answered"} => v.q.aborted
    /\ v.task = "put" => v.q.error # "none" \/ v.q.copied
    /\ v.q.state = "finished" /\ ~v.q.aborted /\ ~v.q.background =>
            v.q.error # "none" \/ v.q.copied
    /\ Alive(v.q) /\ v.q.state # "init" /\ ~v.q.isreply => v.q.background
Sound(v) == OnLists(v) /\ Life(v) /\ Counted(v) /\ Copied(v) /\ Waited(v)

ReqsSound(k, tk, sv, h, e) == \A r \in Reqs : Sound(View(k, tk, sv, h, e, r))

\* INIT is first and alone until it is answered.
InitFirst(k) ==
    /\ k.req[INIT].state # "none"
    /\ Alive(k.req[INIT]) => k.req[INIT].background
    /\ \A r \in Reqs : /\ k.req[r].end = "init" => r = INIT
                       /\ r > k.nreq => k.req[r].state = "none"
    /\ k.connected /\ Alive(k.req[INIT]) =>
            /\ k.blocked /\ k.req[INIT].end = "init"
            /\ \A r \in Reqs \ {INIT} : ~Alive(k.req[r])

\* A task may wait for the reserved request only after that, or without a
\* connection.
Late(k) == k.connected => ~Alive(k.req[INIT])
ReservedLate(k, tk) == \A t \in Tasks : tk[t].pc = "reserved" => Late(k)

\* The counters of the connection.
Wants(c) == c.pc \in {"get", "reserved"}
Waits(q) == Alive(q) /\ q.waiting
Backs(q) == Alive(q) /\ q.background /\ ~q.ended
Getting(tk) == {t \in Tasks : Wants(tk[t])}
WaitingReqs(k) == {r \in Reqs : Waits(k.req[r])}
BackgroundReqs(k) == {r \in Reqs : Backs(k.req[r])}
NumbersTrue(k, tk) ==
    /\ k.num_waiting = Cardinality(Getting(tk)) + Cardinality(WaitingReqs(k))
    /\ k.num_background = Cardinality(BackgroundReqs(k))
    /\ k.connected /\ ~Alive(k.req[INIT]) =>
           (k.blocked <=> k.num_background >= FUSE_MAX_BACKGROUND)

Good(k, tk, sv, h, e) ==
    /\ Types(k, tk, sv, h, e)
    /\ ListsOnce(k) /\ TasksFit(k, tk) /\ ServersFit(sv) /\ EnderFits(k, e)
    /\ ReqsSound(k, tk, sv, h, e)
    /\ InitFirst(k) /\ ReservedLate(k, tk) /\ NumbersTrue(k, tk)

DevInv == Good(fc, task, server, held, ender)

(***************************************************************************)
(* Lists                                                                   *)
(***************************************************************************)
\* list_del.
LEMMA WithoutOnce ==
    ASSUME NEW S, NEW s \in Seq(S), NEW u, Once(s)
    PROVE  /\ Without(s, u) \in Seq(S) /\ Once(Without(s, u))
           /\ \A y : InList(Without(s, u), y) <=> InList(s, y) /\ y # u
<1>1. CASE ~InList(s, u)
    BY <1>1 DEF Without, InList
<1>2. CASE InList(s, u)
    <2>. DEFINE i == CHOOSE k \in DOMAIN s : s[k] = u
                a == SubSeq(s, 1, i - 1)
                b == SubSeq(s, i + 1, Len(s))
                c == a \o b
    <2>1. i \in 1..Len(s) /\ s[i] = u
        BY <1>2 DEF InList
    <2>2. Without(s, u) = c
        BY <1>2 DEF Without, RemoveAt
    <2>. HIDE DEF i
    <2>3. /\ a \in Seq(S) /\ Len(a) = i - 1
          /\ \A k \in 1..(i - 1) : a[k] = s[k]
        BY <2>1
    <2>4. /\ b \in Seq(S) /\ Len(b) = Len(s) - i
          /\ \A k \in 1..(Len(s) - i) : b[k] = s[k + i]
        BY <2>1
    <2>. HIDE DEF a, b
    <2>5. c \in Seq(S) /\ DOMAIN c = 1..(Len(s) - 1)
        <3>1. c \in Seq(S) /\ Len(c) = Len(a) + Len(b)
            BY <2>3, <2>4
        <3>2. i \in Int /\ Len(s) \in Int
            BY <2>1
        <3>. QED  BY <2>3, <2>4, <3>1, <3>2
    <2>6. ASSUME NEW k \in 1..(Len(s) - 1)
          PROVE  c[k] = s[IF k < i THEN k ELSE k + 1]
        <3>1. CASE k < i
            <4>1. c[k] = a[k]
                BY <2>1, <2>3, <2>4, <3>1
            <4>. QED  BY <2>1, <2>3, <3>1, <4>1
        <3>2. CASE ~(k < i)
            <4>1. c[k] = b[k - i + 1] /\ k - i + 1 \in 1..(Len(s) - i)
                BY <2>1, <2>3, <2>4, <3>2
            <4>2. b[k - i + 1] = s[k - i + 1 + i]
                BY <2>4, <4>1
            <4>3. k - i + 1 + i = k + 1
                BY <2>1
            <4>. QED  BY <3>2, <4>1, <4>2, <4>3
        <3>. QED  BY <3>1, <3>2
    <2>. HIDE DEF c
    <2>7. Len(s) \in Nat /\ i \in Nat /\ DOMAIN s = 1..Len(s)
        BY <2>1
    <2>8. Once(c)
        <3>1. SUFFICES ASSUME NEW k \in 1..(Len(s) - 1), NEW j \in 1..(Len(s) - 1),
                              c[k] = c[j]
                       PROVE  k = j
            BY <2>5 DEF Once
        <3>. DEFINE kk == IF k < i THEN k ELSE k + 1
                    jj == IF j < i THEN j ELSE j + 1
        <3>2. s[kk] = s[jj]
            BY <2>6, <3>1
        <3>3. kk \in DOMAIN s /\ jj \in DOMAIN s
            BY <2>7
        <3>4. kk = jj
            BY <3>2, <3>3 DEF Once
        <3>. QED  BY <2>7, <3>4
    <2>9. ASSUME NEW y  PROVE InList(c, y) <=> InList(s, y) /\ y # u
        <3>1. ASSUME NEW k \in DOMAIN c, c[k] = y  PROVE InList(s, y) /\ y # u
            <4>. DEFINE kk == IF k < i THEN k ELSE k + 1
            <4>1. kk \in DOMAIN s /\ s[kk] = y /\ kk # i
                BY <2>5, <2>6, <2>7, <3>1
            <4>. HIDE DEF kk
            <4>2. i \in DOMAIN s
                BY <2>1
            <4>. QED  BY <2>1, <4>1, <4>2 DEF InList, Once
        <3>2. ASSUME NEW j \in DOMAIN s, s[j] = y, y # u  PROVE InList(c, y)
            <4>. DEFINE k == IF j < i THEN j ELSE j - 1
            <4>1. k \in DOMAIN c /\ (IF k < i THEN k ELSE k + 1) = j
                BY <2>1, <2>5, <2>7, <3>2
            <4>2. c[k] = y
                BY <2>5, <2>6, <3>2, <4>1
            <4>. QED  BY <4>1, <4>2 DEF InList
        <3>. QED  BY <3>1, <3>2 DEF InList
    <2>. QED  BY <2>2, <2>5, <2>8, <2>9
<1>. QED  BY <1>1, <1>2

\* list_add_tail and list_add of what is not on the list.
LEMMA AddedOnce ==
    ASSUME NEW S, NEW s \in Seq(S), NEW u \in S, Once(s), ~InList(s, u)
    PROVE  /\ Append(s, u) \in Seq(S) /\ Once(Append(s, u))
           /\ \A y : InList(Append(s, u), y) <=> InList(s, y) \/ y = u
           /\ <<u>> \o s \in Seq(S) /\ Once(<<u>> \o s)
           /\ \A y : InList(<<u>> \o s, y) <=> InList(s, y) \/ y = u
<1>. DEFINE a == Append(s, u)
            c == <<u>> \o s
            n == Len(s)
<1>1. n \in Nat /\ DOMAIN s = 1..n
    OBVIOUS
<1>2. /\ a \in Seq(S) /\ DOMAIN a = 1..(n + 1) /\ a[n + 1] = u
      /\ \A k \in 1..n : a[k] = s[k]
    OBVIOUS
<1>3. /\ c \in Seq(S) /\ DOMAIN c = 1..(n + 1) /\ c[1] = u
      /\ \A k \in 1..n : c[k + 1] = s[k]
    OBVIOUS
<1>. HIDE DEF a, c, n
<1>4. Once(a)
    BY <1>1, <1>2 DEF Once, InList
<1>5. ASSUME NEW y  PROVE InList(a, y) <=> InList(s, y) \/ y = u
    <2>1. ASSUME NEW k \in DOMAIN a, a[k] = y  PROVE InList(s, y) \/ y = u
        BY <1>1, <1>2, <2>1 DEF InList
    <2>2. ASSUME NEW k \in DOMAIN s, s[k] = y  PROVE InList(a, y)
        <3>1. k \in DOMAIN a /\ a[k] = y
            BY <1>1, <1>2, <2>2
        <3>. QED  BY <3>1 DEF InList
    <2>3. InList(a, u)
        <3>1. n + 1 \in DOMAIN a
            BY <1>1, <1>2
        <3>. QED  BY <1>2, <3>1 DEF InList
    <2>. QED  BY <2>1, <2>2, <2>3 DEF InList
<1>6. \A k \in DOMAIN c : k = 1 \/ (k - 1 \in DOMAIN s /\ c[k] = s[k - 1])
    <2>1. ASSUME NEW k \in DOMAIN c, k # 1  PROVE k - 1 \in DOMAIN s /\ c[k] = s[k - 1]
        <3>1. k - 1 \in 1..n /\ (k - 1) + 1 = k
            BY <1>1, <1>3, <2>1
        <3>. QED  BY <1>1, <1>3, <3>1
    <2>. QED  BY <2>1
<1>7. Once(c)
    <2>1. SUFFICES ASSUME NEW k \in DOMAIN c, NEW j \in DOMAIN c, c[k] = c[j]
                   PROVE  k = j
        BY DEF Once
    <2>2. CASE k = 1 /\ j # 1
        BY <1>3, <1>6, <2>1, <2>2 DEF InList
    <2>3. CASE k # 1 /\ j = 1
        BY <1>3, <1>6, <2>1, <2>3 DEF InList
    <2>4. CASE k # 1 /\ j # 1
        <3>1. k - 1 = j - 1
            BY <1>6, <2>1, <2>4 DEF Once
        <3>2. k \in Int /\ j \in Int
            BY <1>1, <1>3
        <3>. QED  BY <3>1, <3>2
    <2>. QED  BY <2>2, <2>3, <2>4
<1>8. ASSUME NEW y  PROVE InList(c, y) <=> InList(s, y) \/ y = u
    <2>1. ASSUME NEW k \in DOMAIN c, c[k] = y  PROVE InList(s, y) \/ y = u
        BY <1>3, <1>6, <2>1 DEF InList
    <2>2. ASSUME NEW k \in DOMAIN s, s[k] = y  PROVE InList(c, y)
        <3>1. k + 1 \in DOMAIN c /\ c[k + 1] = y
            BY <1>1, <1>3, <2>2
        <3>. QED  BY <3>1 DEF InList
    <2>3. InList(c, u)
        <3>1. 1 \in DOMAIN c
            BY <1>1, <1>3
        <3>. QED  BY <1>3, <3>1 DEF InList
    <2>. QED  BY <2>1, <2>2, <2>3 DEF InList
<1>. QED  BY <1>2, <1>3, <1>4, <1>5, <1>7, <1>8 DEF a, c

\* The first of a list is taken off.
LEMMA HeadOff ==
    ASSUME NEW S, NEW s \in Seq(S), Once(s), s # <<>>
    PROVE  /\ Head(s) \in S /\ InList(s, Head(s))
           /\ Tail(s) \in Seq(S) /\ Once(Tail(s))
           /\ \A y : InList(Tail(s), y) <=> InList(s, y) /\ y # Head(s)
<1>. DEFINE c == Tail(s)
            n == Len(s)
<1>1. n \in Nat /\ n > 0 /\ DOMAIN s = 1..n /\ Head(s) = s[1] /\ Head(s) \in S
    OBVIOUS
<1>2. /\ c \in Seq(S) /\ DOMAIN c = 1..(n - 1)
      /\ \A k \in 1..(n - 1) : c[k] = s[k + 1]
    OBVIOUS
<1>. HIDE DEF c, n
<1>3. InList(s, Head(s))
    <2>1. 1 \in DOMAIN s
        BY <1>1
    <2>. QED  BY <1>1, <2>1 DEF InList
<1>4. \A k \in DOMAIN c : k + 1 \in DOMAIN s /\ c[k] = s[k + 1] /\ k + 1 # 1 /\ k \in Nat
    BY <1>1, <1>2
<1>5. Once(c)
    <2>1. SUFFICES ASSUME NEW k \in DOMAIN c, NEW j \in DOMAIN c, c[k] = c[j]
                   PROVE  k = j
        BY DEF Once
    <2>2. k + 1 = j + 1
        BY <1>4, <2>1 DEF Once
    <2>. QED  BY <1>4, <2>2
<1>6. ASSUME NEW y  PROVE InList(c, y) <=> InList(s, y) /\ y # Head(s)
    <2>1. ASSUME NEW k \in DOMAIN c, c[k] = y  PROVE InList(s, y) /\ y # Head(s)
        <3>1. k + 1 \in DOMAIN s /\ s[k + 1] = y /\ 1 \in DOMAIN s /\ k + 1 # 1
            BY <1>1, <1>4, <2>1
        <3>. QED  BY <1>1, <3>1 DEF InList, Once
    <2>2. ASSUME NEW k \in DOMAIN s, s[k] = y, y # Head(s)  PROVE InList(c, y)
        <3>1. k - 1 \in DOMAIN c /\ c[k - 1] = y
            <4>1. k - 1 \in 1..(n - 1) /\ (k - 1) + 1 = k
                BY <1>1, <2>2
            <4>. QED  BY <1>2, <2>2, <4>1
        <3>. QED  BY <3>1 DEF InList
    <2>. QED  BY <2>1, <2>2 DEF InList
<1>. QED  BY <1>1, <1>2, <1>3, <1>5, <1>6 DEF c

(***************************************************************************)
(* The operations on the connection                                        *)
(***************************************************************************)
SameQueues(k, n) == /\ n.pending = k.pending /\ n.io = k.io
                    /\ n.processing = k.processing /\ n.interrupts = k.interrupts
SameNumbers(k, n) == /\ n.blocked = k.blocked /\ n.num_waiting = k.num_waiting
                     /\ n.num_background = k.num_background

\* n is k but for the records of r and, it may be, lists and counters.
OnlyReq(k, n, r) ==
    /\ n \in FcRec /\ n.connected = k.connected /\ n.nreq = k.nreq
    /\ n.corrupt = k.corrupt
    /\ \A x \in Reqs \ {r} : n.req[x] = k.req[x]

\* n is k as far as the invariant goes.
Quiet(k, n) ==
    /\ n \in FcRec /\ n.connected = k.connected /\ n.nreq = k.nreq
    /\ n.corrupt = k.corrupt /\ n.req = k.req
    /\ SameQueues(k, n) /\ SameNumbers(k, n)

\* The wait queues are not looked at.
LEMMA AsleepQuiet ==
    ASSUME NEW k \in FcRec, NEW a \in SUBSET (Int \X (Tasks \cup {"abort"}))
    PROVE  Quiet(k, [k EXCEPT !.asleep = a])
    BY DEF Quiet, SameQueues, SameNumbers, FcRec

\* The same of each operation.
LEMMA WakeQuiet ==
    ASSUME NEW k \in FcRec, NEW x
    PROVE  Quiet(k, wake_up(k, x)) /\ Quiet(k, finish_wait(k, x))
<1>1. k.asleep \in SUBSET (Int \X (Tasks \cup {"abort"}))
    BY DEF FcRec
<1>2. {w \in k.asleep : w[1] # x} \in SUBSET (Int \X (Tasks \cup {"abort"}))
    BY <1>1
<1>3. {w \in k.asleep : w[2] # x} \in SUBSET (Int \X (Tasks \cup {"abort"}))
    BY <1>1
<1>. QED  BY <1>2, <1>3, AsleepQuiet DEF wake_up, finish_wait

\* And of the way to sleep.
LEMMA SleepQuiet ==
    ASSUME NEW k \in FcRec, NEW t \in Tasks \cup {"abort"}, NEW y \in Int
    PROVE  Quiet(k, Sleep(k, y, t))
<1>1. k.asleep \cup {<<y, t>>} \in SUBSET (Int \X (Tasks \cup {"abort"}))
    BY DEF FcRec
<1>. QED  BY <1>1, AsleepQuiet DEF Sleep

\* The record of one request is replaced.
LEMMA ReqReplaced ==
    ASSUME NEW k \in FcRec, NEW r \in Reqs, NEW q \in ReqRec
    PROVE  LET n == [k EXCEPT !.req[r] = q]
           IN  /\ OnlyReq(k, n, r) /\ n.req[r] = q /\ k.req[r] \in ReqRec
               /\ SameQueues(k, n) /\ SameNumbers(k, n)
<1>. DEFINE f == [k.req EXCEPT ![r] = q]
            n == [k EXCEPT !.req = f]
<1>1. k.req \in [Reqs -> ReqRec] /\ k.req[r] \in ReqRec
    BY DEF FcRec
<1>2. f \in [Reqs -> ReqRec] /\ f[r] = q /\ \A x \in Reqs \ {r} : f[x] = k.req[x]
    BY <1>1
<1>3. n = [k EXCEPT !.req[r] = q]
    BY DEF FcRec
<1>. HIDE DEF f
<1>4. n \in FcRec /\ n.req = f /\ SameQueues(k, n) /\ SameNumbers(k, n)
      /\ n.connected = k.connected /\ n.nreq = k.nreq /\ n.corrupt = k.corrupt
    BY <1>2 DEF FcRec, SameQueues, SameNumbers
<1>. QED  BY <1>1, <1>2, <1>3, <1>4 DEF OnlyReq

\* The fields of a new request and of one that is gone.
LEMMA FixedReqs ==
    /\ NoRequest \in ReqRec /\ Freed \in ReqRec /\ fuse_request_init \in ReqRec
    /\ NoRequest.state = "none" /\ NoRequest.waiting = FALSE
    /\ NoRequest.ended = FALSE /\ NoRequest.background = FALSE /\ NoRequest.end = "none"
    /\ NoRequest.aborted = FALSE /\ NoRequest.count = 0
    /\ Freed.state = "freed" /\ Freed.waiting = FALSE /\ Freed.ended = FALSE
    /\ Freed.background = FALSE /\ Freed.end = "none" /\ Freed.aborted = FALSE
    /\ fuse_request_init = [NoRequest EXCEPT !.state = "init", !.count = 1]
<1>1. /\ NoRequest \in ReqRec /\ NoRequest.state = "none" /\ NoRequest.waiting = FALSE
      /\ NoRequest.ended = FALSE /\ NoRequest.background = FALSE
      /\ NoRequest.end = "none" /\ NoRequest.aborted = FALSE /\ NoRequest.count = 0
    BY DEF NoRequest, ReqRec, States
<1>2. fuse_request_init \in ReqRec
    <2>1. ASSUME NEW q \in ReqRec
          PROVE  [q EXCEPT !.state = "init", !.count = 1] \in ReqRec
        <3>. DEFINE p == [q EXCEPT !.state = "init"]
        <3>1. p \in ReqRec
            BY DEF ReqRec, States
        <3>2. [q EXCEPT !.state = "init", !.count = 1] = [p EXCEPT !.count = 1]
            OBVIOUS
        <3>. HIDE DEF p
        <3>3. [p EXCEPT !.count = 1] \in ReqRec
            BY <3>1 DEF ReqRec
        <3>. QED  BY <3>2, <3>3
    <2>. QED  BY <1>1, <2>1 DEF fuse_request_init
<1>3. /\ Freed \in ReqRec /\ Freed.state = "freed"
      /\ Freed.waiting = NoRequest.waiting /\ Freed.ended = NoRequest.ended
      /\ Freed.background = NoRequest.background /\ Freed.end = NoRequest.end
      /\ Freed.aborted = NoRequest.aborted
    BY <1>1 DEF Freed, ReqRec, States
<1>. QED  BY <1>1, <1>2, <1>3 DEF fuse_request_init

\* fuse_put_request.
Less(q) == [q EXCEPT !.count = q.count - 1]

\* fuse_put_request drops one reference, and frees the request with the last.
LEMMA PutFields ==
    ASSUME NEW k \in FcRec, NEW r \in Reqs
    PROVE  LET n == fuse_put_request(k, r)
           IN  /\ OnlyReq(k, n, r) /\ SameQueues(k, n)
               /\ n.blocked = k.blocked /\ n.num_background = k.num_background
               /\ k.req[r].count # 1 => n.req[r] = Less(k.req[r])
                                        /\ n.num_waiting = k.num_waiting
               /\ k.req[r].count = 1 => n.req[r] = Freed /\ n.num_waiting =
                        k.num_waiting - One(k.req[r].waiting)
<1>. DEFINE q == k.req[r]
            n == fuse_put_request(k, r)
<1>1. q \in ReqRec /\ k.num_waiting \in Int
    BY DEF FcRec
<1>2. Less(q) \in ReqRec
    BY <1>1 DEF Less, ReqRec
<1>3. CASE q.count # 1
    <2>1. n = [k EXCEPT !.req[r] = Less(q)]
        BY <1>3 DEF fuse_put_request, Less, FcRec
    <2>. QED  BY <1>2, <1>3, <2>1, ReqReplaced DEF SameNumbers
<1>4. CASE q.count = 1
    <2>. DEFINE w == IF q.waiting THEN k.num_waiting - 1 ELSE k.num_waiting
                a == [k EXCEPT !.req[r] = Freed]
                b == [a EXCEPT !.num_waiting = w]
    <2>1. OnlyReq(k, a, r) /\ a.req[r] = Freed /\ SameQueues(k, a) /\ SameNumbers(k, a)
        BY ReqReplaced, FixedReqs
    <2>2. a \in FcRec
        BY <2>1 DEF OnlyReq
    <2>3. w \in Int /\ w = k.num_waiting - One(q.waiting)
        BY <1>1 DEF One
    <2>4. b = [k EXCEPT !.req[r] = Freed, !.num_waiting = w]
        BY DEF FcRec
    <2>. HIDE DEF a, w
    <2>5. b \in FcRec /\ b.connected = a.connected /\ b.nreq = a.nreq
          /\ b.corrupt = a.corrupt /\ b.req = a.req /\ SameQueues(a, b)
          /\ b.blocked = a.blocked /\ b.num_waiting = w
          /\ b.num_background = a.num_background
        BY <2>2, <2>3 DEF FcRec, SameQueues
    <2>6. b = [k EXCEPT !.req[r] = Freed, !.num_waiting = IF q.waiting THEN @ - 1 ELSE @]
        BY <2>4 DEF w
    <2>. HIDE DEF b
    <2>7. CASE ~q.stolen
        <3>1. n = b
            BY <1>4, <2>6, <2>7 DEF fuse_put_request
        <3>. QED  BY <1>4, <2>1, <2>3, <2>5, <3>1
                  DEF OnlyReq, SameQueues, SameNumbers
    <2>8. CASE q.stolen
        <3>. DEFINE c == [b EXCEPT !.reserved = TRUE]
        <3>1. n = wake_up(c, ReservedQ)
            BY <1>4, <2>6, <2>8 DEF fuse_put_request
        <3>2. Quiet(b, c)
            BY <2>5 DEF Quiet, FcRec, SameQueues, SameNumbers
        <3>. HIDE DEF c
        <3>3. Quiet(c, n)
            BY <3>1, <3>2, WakeQuiet DEF Quiet
        <3>. QED  BY <1>4, <2>1, <2>3, <2>5, <3>2, <3>3
                  DEF OnlyReq, Quiet, SameQueues, SameNumbers
    <2>. QED  BY <2>7, <2>8
<1>. HIDE DEF q, n
<1>. QED  BY <1>3, <1>4 DEF q, n

\* The lists that may hold a request, without r.
OffThree(k, n, r) ==
    /\ Once(n.pending) /\ Once(n.io) /\ Once(n.processing)
    /\ \A y : /\ InList(n.pending, y) <=> InList(k.pending, y) /\ y # r
              /\ InList(n.io, y) <=> InList(k.io, y) /\ y # r
              /\ InList(n.processing, y) <=> InList(k.processing, y) /\ y # r
OffQueue(k, n, r) ==
    /\ Once(n.interrupts)
    /\ \A y : InList(n.interrupts, y) <=> InList(k.interrupts, y) /\ y # r

\* list_del takes a request off the one list it is on.
LEMMA ListDel ==
    ASSUME NEW k \in FcRec, NEW r \in Reqs, ListsOnce(k)
    PROVE  LET n == list_del(k, r)
           IN  /\ OnlyReq(k, n, r) /\ n.req = k.req /\ SameNumbers(k, n)
               /\ n.interrupts = k.interrupts /\ OffThree(k, n, r)
<1>. DEFINE a == Without(k.pending, r)
            b == Without(k.io, r)
            c == Without(k.processing, r)
            n == [k EXCEPT !.pending = a, !.io = b, !.processing = c]
<1>1. /\ k.pending \in Seq(Reqs) /\ k.io \in Seq(Reqs) /\ k.processing \in Seq(Reqs)
      /\ Once(k.pending) /\ Once(k.io) /\ Once(k.processing)
    BY DEF FcRec, ListsOnce
<1>2. a \in Seq(Reqs) /\ Once(a) /\ \A y : InList(a, y) <=> InList(k.pending, y) /\ y # r
    BY ONLY <1>1, WithoutOnce
<1>3. b \in Seq(Reqs) /\ Once(b) /\ \A y : InList(b, y) <=> InList(k.io, y) /\ y # r
    BY ONLY <1>1, WithoutOnce
<1>4. c \in Seq(Reqs) /\ Once(c) /\ \A y : InList(c, y) <=> InList(k.processing, y) /\ y # r
    BY ONLY <1>1, WithoutOnce
<1>5. n = list_del(k, r)
    BY DEF list_del
<1>. HIDE DEF a, b, c
<1>6. /\ n \in FcRec /\ n.pending = a /\ n.io = b /\ n.processing = c
      /\ n.req = k.req /\ n.connected = k.connected /\ n.nreq = k.nreq
      /\ n.corrupt = k.corrupt /\ n.interrupts = k.interrupts /\ SameNumbers(k, n)
    BY <1>2, <1>3, <1>4 DEF FcRec, SameNumbers
<1>. HIDE DEF n
<1>7. OnlyReq(k, n, r)
    BY <1>6 DEF OnlyReq
<1>8. OffThree(k, n, r)
    BY <1>2, <1>3, <1>4, <1>6 DEF OffThree
<1>. QED  BY <1>5, <1>6, <1>7, <1>8

\* The record of a request that has ended.
DoneReq(q) == [q EXCEPT !.end = "none", !.ended = TRUE, !.state = "finished"]

\* What request_end writes into the record of the request.
LEMMA DoneFields ==
    ASSUME NEW q \in ReqRec
    PROVE  LET d == DoneReq(q)
           IN  /\ d \in ReqRec /\ d.state = "finished" /\ d.ended = TRUE
               /\ d.end = "none" /\ d.count = q.count /\ d.isreply = q.isreply
               /\ d.background = q.background /\ d.waiting = q.waiting
               /\ d.aborted = q.aborted /\ d.interrupted = q.interrupted
               /\ d.locked = q.locked /\ d.error = q.error /\ d.copied = q.copied
               /\ d.stolen = q.stolen
<1>. DEFINE a == [q EXCEPT !.end = "none"]
            b == [a EXCEPT !.ended = TRUE]
            d == [b EXCEPT !.state = "finished"]
<1>1. d = DoneReq(q)
    BY DEF DoneReq
<1>2. /\ a \in ReqRec /\ a.end = "none" /\ a.count = q.count /\ a.isreply = q.isreply
      /\ a.background = q.background /\ a.waiting = q.waiting
      /\ a.aborted = q.aborted /\ a.interrupted = q.interrupted
      /\ a.locked = q.locked /\ a.error = q.error /\ a.copied = q.copied
      /\ a.stolen = q.stolen
    BY DEF ReqRec
<1>. HIDE DEF a
<1>3. /\ b \in ReqRec /\ b.end = "none" /\ b.count = a.count /\ b.isreply = a.isreply
      /\ b.background = a.background /\ b.waiting = a.waiting
      /\ b.aborted = a.aborted /\ b.interrupted = a.interrupted
      /\ b.locked = a.locked /\ b.error = a.error /\ b.copied = a.copied
      /\ b.ended = TRUE /\ b.stolen = a.stolen
    BY <1>2 DEF ReqRec
<1>. HIDE DEF b
<1>4. /\ d \in ReqRec /\ d.end = b.end /\ d.count = b.count /\ d.isreply = b.isreply
      /\ d.background = b.background /\ d.waiting = b.waiting
      /\ d.aborted = b.aborted /\ d.interrupted = b.interrupted
      /\ d.locked = b.locked /\ d.error = b.error /\ d.copied = b.copied
      /\ d.ended = b.ended /\ d.state = "finished" /\ d.stolen = b.stolen
    BY <1>3 DEF ReqRec, States
<1>. HIDE DEF d
<1>. QED  BY <1>1, <1>2, <1>3, <1>4

\* The first lines of request_end: off every list, and finished.
LEMMA UnlistedFields ==
    ASSUME NEW k \in FcRec, NEW r \in Reqs, ListsOnce(k)
    PROVE  LET n == Unlisted(k, r)
           IN  /\ OnlyReq(k, n, r) /\ n.req[r] = DoneReq(k.req[r])
               /\ SameNumbers(k, n) /\ OffThree(k, n, r) /\ OffQueue(k, n, r)
<1>. DEFINE a == list_del(k, r)
            i == Without(k.interrupts, r)
            b == [a EXCEPT !.interrupts = i]
            d == DoneReq(k.req[r])
            n == [b EXCEPT !.req[r] = d]
<1>1. /\ OnlyReq(k, a, r) /\ a.req = k.req /\ SameNumbers(k, a)
      /\ a.interrupts = k.interrupts /\ OffThree(k, a, r)
    BY ListDel
<1>2. a \in FcRec
    BY <1>1 DEF OnlyReq
<1>3. n = Unlisted(k, r)
    <2>1. Unlisted(k, r) = [a EXCEPT !.interrupts = Without(@, r),
                           !.req[r].end = "none", !.req[r].ended = TRUE,
                           !.req[r].state = "finished"]
        BY DEF Unlisted
    <2>. HIDE DEF a
    <2>2. Without(a.interrupts, r) = i
        BY <1>1
    <2>. HIDE DEF i
    <2>3. [a EXCEPT !.interrupts = Without(@, r), !.req[r].end = "none",
                    !.req[r].ended = TRUE, !.req[r].state = "finished"]
          = [a EXCEPT !.interrupts = i, !.req[r] = DoneReq(a.req[r])]
        BY <1>2, <2>2, ZenonT(60) DEF FcRec, ReqRec, DoneReq
    <2>. QED  BY <1>1, <1>2, <2>1, <2>3 DEF FcRec
<1>. HIDE DEF a
<1>4. k.interrupts \in Seq(Reqs) /\ Once(k.interrupts)
    BY DEF FcRec, ListsOnce
<1>5. i \in Seq(Reqs) /\ Once(i) /\ \A y : InList(i, y) <=> InList(k.interrupts, y) /\ y # r
    BY ONLY <1>4, WithoutOnce
<1>. HIDE DEF i
<1>6. /\ b \in FcRec /\ b.pending = a.pending /\ b.io = a.io /\ b.processing = a.processing
      /\ b.req = a.req /\ b.connected = a.connected /\ b.nreq = a.nreq
      /\ b.corrupt = a.corrupt /\ b.interrupts = i /\ SameNumbers(a, b)
    BY <1>2, <1>5 DEF FcRec, SameNumbers
<1>. HIDE DEF b
<1>7. k.req[r] \in ReqRec
    BY DEF FcRec
<1>8. d \in ReqRec
    BY <1>7, DoneFields
<1>. HIDE DEF d
<1>9. OnlyReq(b, n, r) /\ n.req[r] = d /\ SameQueues(b, n) /\ SameNumbers(b, n)
    BY <1>6, <1>8, ReqReplaced
<1>. HIDE DEF n
<1>10. OnlyReq(k, n, r) /\ SameNumbers(k, n)
    BY <1>1, <1>6, <1>9 DEF OnlyReq, SameNumbers
<1>11. OffThree(k, n, r) /\ OffQueue(k, n, r)
    BY <1>1, <1>5, <1>6, <1>9 DEF OffThree, OffQueue, SameQueues
<1>. QED  BY <1>3, <1>9, <1>10, <1>11 DEF d

\* The end function and the last reference.
Dropped(k, n, r) ==
    /\ k.req[r].count # 1 => n.req[r] = Less(k.req[r])
                             /\ n.num_waiting = k.num_waiting
    /\ k.req[r].count = 1 => /\ n.req[r] = Freed
                             /\ n.num_waiting = k.num_waiting - One(k.req[r].waiting)

\* The end functions put the request, and INIT's lets the tasks go on.
LEMMA EndFields ==
    ASSUME NEW k \in FcRec, NEW r \in Reqs, NEW end
    PROVE  LET n == End(k, r, end)
           IN  /\ OnlyReq(k, n, r) /\ SameQueues(k, n) /\ Dropped(k, n, r)
               /\ n.blocked <=> k.blocked /\ end # "init"
               /\ n.num_background = k.num_background
<1>. DEFINE n == End(k, r, end)
<1>1. CASE end # "init"
    <2>1. n = fuse_put_request(k, r)
        BY <1>1 DEF End
    <2>. QED  BY <1>1, <2>1, PutFields DEF Dropped
<1>2. CASE end = "init"
    <2>. DEFINE d == [k EXCEPT !.conn_error = k.conn_error \/ k.req[r].error # "none"]
                p == fuse_put_request(d, r)
                u == [p EXCEPT !.blocked = FALSE]
    <2>1. n = wake_up(u, BlockedQ)
        BY <1>2 DEF End, process_init_reply
    <2>2. Quiet(k, d)
        BY DEF Quiet, FcRec, SameQueues, SameNumbers
    <2>. HIDE DEF d
    <2>3. d \in FcRec
        BY <2>2 DEF Quiet
    <2>4. /\ OnlyReq(d, p, r) /\ SameQueues(d, p) /\ Dropped(d, p, r)
          /\ p.num_background = d.num_background
        BY <2>3, PutFields DEF Dropped
    <2>. HIDE DEF p
    <2>5. p \in FcRec
        BY <2>4 DEF OnlyReq
    <2>6. /\ u \in FcRec /\ u.blocked = FALSE /\ u.req = p.req /\ SameQueues(p, u)
          /\ u.connected = p.connected /\ u.nreq = p.nreq /\ u.corrupt = p.corrupt
          /\ u.num_background = p.num_background /\ u.num_waiting = p.num_waiting
        BY <2>5 DEF FcRec, SameQueues
    <2>. HIDE DEF u
    <2>7. Quiet(u, n)
        BY <2>1, <2>6, WakeQuiet
    <2>. HIDE DEF n
    <2>8. OnlyReq(k, n, r)
        BY <2>2, <2>4, <2>6, <2>7 DEF OnlyReq, Quiet
    <2>9. SameQueues(k, n)
        BY <2>2, <2>4, <2>6, <2>7 DEF SameQueues, Quiet
    <2>10. Dropped(k, n, r)
        BY <2>2, <2>4, <2>6, <2>7 DEF Quiet, SameNumbers, Dropped
    <2>11. n.blocked = FALSE /\ n.num_background = k.num_background
        BY <2>2, <2>4, <2>6, <2>7 DEF Quiet, SameNumbers
    <2>. QED  BY <1>2, <2>8, <2>9, <2>10, <2>11 DEF n
<1>. QED  BY <1>1, <1>2

\* request_end, for a request that has not ended yet.
LEMMA RequestEnd ==
    ASSUME NEW k \in FcRec, NEW r \in Reqs, ListsOnce(k),
           ~k.req[r].ended, k.req[r].state # "freed"
    PROVE  LET n == request_end(k, r)
               q == k.req[r]
           IN  /\ OnlyReq(k, n, r) /\ OffThree(k, n, r) /\ OffQueue(k, n, r)
               /\ q.count # 1 => n.req[r] = Less(DoneReq(q))
                                 /\ n.num_waiting = k.num_waiting
               /\ q.count = 1 => n.req[r] = Freed /\ n.num_waiting =
                                        k.num_waiting - One(q.waiting)
               /\ n.num_background = k.num_background - One(q.background)
               /\ n.blocked <=> /\ k.blocked /\ q.end # "init"
                                /\ ~(q.background /\ k.num_background = FUSE_MAX_BACKGROUND)
<1>. DEFINE q == k.req[r]
            off == Unlisted(k, r)
            full == off.num_background = FUSE_MAX_BACKGROUND
            m == off.num_background - 1
            less == [off EXCEPT !.num_background = m]
            free == [less EXCEPT !.blocked = FALSE]
            bg == IF ~q.background THEN off
                  ELSE IF full THEN wake_up(free, BlockedQ) ELSE less
            woken == wake_up(bg, r)
            n == request_end(k, r)
<1>1. n = End(woken, r, q.end)
    BY DEF request_end
<1>2. /\ OnlyReq(k, off, r) /\ off.req[r] = DoneReq(q)
      /\ SameNumbers(k, off) /\ OffThree(k, off, r) /\ OffQueue(k, off, r)
    BY UnlistedFields
<1>. HIDE DEF off
<1>3. off \in FcRec /\ off.num_background \in Int /\ off.blocked \in BOOLEAN
      /\ q \in ReqRec
      /\ m \in Int
    BY <1>2 DEF OnlyReq, FcRec
<1>. HIDE DEF m
<1>4. /\ less \in FcRec /\ less.req = off.req /\ SameQueues(off, less)
      /\ less.connected = off.connected /\ less.nreq = off.nreq
      /\ less.corrupt = off.corrupt /\ less.num_background = m
      /\ less.num_waiting = off.num_waiting /\ less.blocked = off.blocked
    BY <1>3 DEF FcRec, SameQueues
<1>. HIDE DEF less
<1>5. /\ free \in FcRec /\ free.req = less.req /\ SameQueues(less, free)
      /\ free.connected = less.connected /\ free.nreq = less.nreq
      /\ free.corrupt = less.corrupt /\ free.num_background = less.num_background
      /\ free.num_waiting = less.num_waiting /\ free.blocked = FALSE
    BY <1>4 DEF FcRec, SameQueues
<1>. HIDE DEF free
<1>18. m = off.num_background - 1
    BY DEF m
<1>6. Quiet(free, wake_up(free, BlockedQ))
    BY <1>5, WakeQuiet
<1>7. /\ bg \in FcRec /\ bg.req = off.req /\ SameQueues(off, bg)
      /\ bg.connected = off.connected /\ bg.nreq = off.nreq /\ bg.corrupt = off.corrupt
      /\ bg.num_waiting = off.num_waiting
      /\ bg.num_background = off.num_background - One(q.background)
      /\ (bg.blocked <=> off.blocked /\ ~(q.background /\ full))
    <2>1. CASE ~q.background
        BY <1>3, <2>1 DEF One, SameQueues
    <2>2. CASE q.background /\ ~full
        <3>1. bg = less
            BY <2>2
        <3>. QED  BY <1>18, <1>4, <2>2, <3>1 DEF One
    <2>3. CASE q.background /\ full
        <3>1. bg = wake_up(free, BlockedQ)
            BY <2>3
        <3>2. Quiet(free, bg)
            BY <1>6, <3>1
        <3>. HIDE DEF bg
        <3>. QED  BY <1>18, <1>3, <1>4, <1>5, <2>3, <3>2 DEF One, Quiet, SameQueues, SameNumbers
    <2>. QED  BY <2>1, <2>2, <2>3
<1>. HIDE DEF bg
<1>8. Quiet(bg, woken)
    BY <1>7, WakeQuiet
<1>. HIDE DEF woken
<1>9. woken \in FcRec
    BY <1>8 DEF Quiet
<1>10. /\ OnlyReq(woken, n, r) /\ SameQueues(woken, n) /\ Dropped(woken, n, r)
       /\ n.blocked <=> woken.blocked /\ q.end # "init"
       /\ n.num_background = woken.num_background
    BY <1>1, <1>9, EndFields
<1>. HIDE DEF n
<1>11. OnlyReq(k, n, r)
    BY <1>2, <1>7, <1>8, <1>10 DEF OnlyReq, Quiet
<1>12. OffThree(k, n, r) /\ OffQueue(k, n, r)
    BY <1>2, <1>7, <1>8, <1>10 DEF OffThree, OffQueue, Quiet, SameQueues
<1>13. woken.req[r] = DoneReq(q) /\ woken.num_waiting = k.num_waiting
    BY <1>2, <1>7, <1>8 DEF Quiet, SameNumbers
<1>14. DoneReq(q).count = q.count /\ DoneReq(q).waiting = q.waiting
    BY <1>3, DoneFields
<1>15. /\ q.count # 1 => n.req[r] = Less(DoneReq(q)) /\ n.num_waiting = k.num_waiting
       /\ q.count = 1 => n.req[r] = Freed /\ n.num_waiting =
                                k.num_waiting - One(q.waiting)
    BY <1>10, <1>13, <1>14 DEF Dropped
<1>16. n.num_background = k.num_background - One(q.background)
    BY <1>2, <1>7, <1>8, <1>10 DEF Quiet, SameNumbers
<1>17. n.blocked <=> /\ k.blocked /\ q.end # "init"
                     /\ ~(q.background /\ k.num_background = FUSE_MAX_BACKGROUND)
    BY <1>2, <1>7, <1>8, <1>10 DEF Quiet, SameNumbers
<1>. QED  BY <1>11, <1>12, <1>15, <1>16, <1>17 DEF n, q

(***************************************************************************)
(* The record of a request, field by field                                 *)
(***************************************************************************)
\* p is q but for the fields in F.
Like(F, q, p) ==
    /\ p \in ReqRec
    /\ "state" \in F \/ p.state = q.state
    /\ "count" \in F \/ p.count = q.count
    /\ "isreply" \in F \/ p.isreply = q.isreply
    /\ "background" \in F \/ p.background = q.background
    /\ "waiting" \in F \/ p.waiting = q.waiting
    /\ "aborted" \in F \/ p.aborted = q.aborted
    /\ "interrupted" \in F \/ p.interrupted = q.interrupted
    /\ "locked" \in F \/ p.locked = q.locked
    /\ "end" \in F \/ p.end = q.end
    /\ "error" \in F \/ p.error = q.error
    /\ "copied" \in F \/ p.copied = q.copied
    /\ "ended" \in F \/ p.ended = q.ended

\* An assignment to one field.
LEMMA SetState == ASSUME NEW q \in ReqRec, NEW x \in States
                  PROVE  LET p == [q EXCEPT !.state = x]
                         IN  Like({"state"}, q, p) /\ p.state = x
    BY DEF Like, ReqRec

\* req->count.
LEMMA SetCount == ASSUME NEW q \in ReqRec, NEW x \in Int
                  PROVE  LET p == [q EXCEPT !.count = x]
                         IN  Like({"count"}, q, p) /\ p.count = x
    BY DEF Like, ReqRec

\* req->isreply.
LEMMA SetReply == ASSUME NEW q \in ReqRec
                  PROVE  LET p == [q EXCEPT !.isreply = TRUE]
                         IN  Like({"isreply"}, q, p) /\ p.isreply
    BY DEF Like, ReqRec

\* req->background.
LEMMA SetBackground == ASSUME NEW q \in ReqRec
                  PROVE  LET p == [q EXCEPT !.background = TRUE]
                         IN  Like({"background"}, q, p) /\ p.background
    BY DEF Like, ReqRec

\* req->waiting.
LEMMA SetWaiting == ASSUME NEW q \in ReqRec
                  PROVE  LET p == [q EXCEPT !.waiting = TRUE]
                         IN  Like({"waiting"}, q, p) /\ p.waiting
    BY DEF Like, ReqRec

\* req->aborted.
LEMMA SetAborted == ASSUME NEW q \in ReqRec
                  PROVE  LET p == [q EXCEPT !.aborted = TRUE]
                         IN  Like({"aborted"}, q, p) /\ p.aborted
    BY DEF Like, ReqRec

\* req->interrupted.
LEMMA SetInterrupted == ASSUME NEW q \in ReqRec
                  PROVE  LET p == [q EXCEPT !.interrupted = TRUE]
                         IN  Like({"interrupted"}, q, p) /\ p.interrupted
    BY DEF Like, ReqRec

\* req->locked.
LEMMA SetLocked == ASSUME NEW q \in ReqRec, NEW x \in BOOLEAN
                  PROVE  LET p == [q EXCEPT !.locked = x]
                         IN  Like({"locked"}, q, p) /\ p.locked = x
    BY DEF Like, ReqRec

\* req->end.
LEMMA SetEnd == ASSUME NEW q \in ReqRec, NEW x \in {"none", "init", "readpages"}
                  PROVE  LET p == [q EXCEPT !.end = x]
                         IN  Like({"end"}, q, p) /\ p.end = x
    BY DEF Like, ReqRec
Errors == {"none", "server", "EIO", "EINTR", "ENOTCONN", "ECONNREFUSED", "ECONNABORTED"}

\* The errors that dev.c stores.
LEMMA ErrorNames ==
    /\ "EIO" \in Errors /\ "EINTR" \in Errors /\ "ENOTCONN" \in Errors
    /\ "ECONNREFUSED" \in Errors /\ "ECONNABORTED" \in Errors
    /\ "none" \in Errors /\ "server" \in Errors
    BY DEF Errors

\* req->out.h.error.
LEMMA SetError == ASSUME NEW q \in ReqRec, NEW x \in Errors
                  PROVE  LET p == [q EXCEPT !.error = x]
                         IN  Like({"error"}, q, p) /\ p.error = x
    BY DEF Like, ReqRec, Errors

\* That the reply was copied.
LEMMA SetCopied == ASSUME NEW q \in ReqRec
                  PROVE  LET p == [q EXCEPT !.copied = TRUE]
                         IN  Like({"copied"}, q, p) /\ p.copied
    BY DEF Like, ReqRec

(***************************************************************************)
(* The connection, field by field                                          *)
(***************************************************************************)
\* n is k but for the fields in F.
LikeFc(F, k, n) ==
    /\ n \in FcRec
    /\ "connected" \in F \/ n.connected = k.connected
    /\ "blocked" \in F \/ n.blocked = k.blocked
    /\ "num_waiting" \in F \/ n.num_waiting = k.num_waiting
    /\ "num_background" \in F \/ n.num_background = k.num_background
    /\ "pending" \in F \/ n.pending = k.pending
    /\ "io" \in F \/ n.io = k.io
    /\ "processing" \in F \/ n.processing = k.processing
    /\ "interrupts" \in F \/ n.interrupts = k.interrupts
    /\ "req" \in F \/ n.req = k.req
    /\ "nreq" \in F \/ n.nreq = k.nreq
    /\ "corrupt" \in F \/ n.corrupt = k.corrupt

\* An assignment to one field.
LEMMA FcConnected == ASSUME NEW k \in FcRec, NEW x \in BOOLEAN
           PROVE  LET n == [k EXCEPT !.connected = x]
                  IN  LikeFc({"connected"}, k, n) /\ n.connected = x
    BY DEF LikeFc, FcRec

\* fc->blocked.
LEMMA FcBlocked == ASSUME NEW k \in FcRec, NEW x \in BOOLEAN
           PROVE  LET n == [k EXCEPT !.blocked = x]
                  IN  LikeFc({"blocked"}, k, n) /\ n.blocked = x
    BY DEF LikeFc, FcRec

\* fc->num_waiting.
LEMMA FcNumWaiting == ASSUME NEW k \in FcRec, NEW x \in Int
           PROVE  LET n == [k EXCEPT !.num_waiting = x]
                  IN  LikeFc({"num_waiting"}, k, n) /\ n.num_waiting = x
    BY DEF LikeFc, FcRec

\* fc->num_background.
LEMMA FcNumBackground == ASSUME NEW k \in FcRec, NEW x \in Int
           PROVE  LET n == [k EXCEPT !.num_background = x]
                  IN  LikeFc({"num_background"}, k, n) /\ n.num_background = x
    BY DEF LikeFc, FcRec

\* fc->pending.
LEMMA FcPending == ASSUME NEW k \in FcRec, NEW x \in Seq(Reqs)
           PROVE  LET n == [k EXCEPT !.pending = x]
                  IN  LikeFc({"pending"}, k, n) /\ n.pending = x
    BY DEF LikeFc, FcRec

\* fc->io.
LEMMA FcIo == ASSUME NEW k \in FcRec, NEW x \in Seq(Reqs)
           PROVE  LET n == [k EXCEPT !.io = x]
                  IN  LikeFc({"io"}, k, n) /\ n.io = x
    BY DEF LikeFc, FcRec

\* fc->processing.
LEMMA FcProcessing == ASSUME NEW k \in FcRec, NEW x \in Seq(Reqs)
           PROVE  LET n == [k EXCEPT !.processing = x]
                  IN  LikeFc({"processing"}, k, n) /\ n.processing = x
    BY DEF LikeFc, FcRec

\* fc->interrupts.
LEMMA FcInterrupts == ASSUME NEW k \in FcRec, NEW x \in Seq(Reqs)
           PROVE  LET n == [k EXCEPT !.interrupts = x]
                  IN  LikeFc({"interrupts"}, k, n) /\ n.interrupts = x
    BY DEF LikeFc, FcRec

\* How many requests were made.
LEMMA FcNreq == ASSUME NEW k \in FcRec, NEW x \in Reqs
           PROVE  LET n == [k EXCEPT !.nreq = x]
                  IN  LikeFc({"nreq"}, k, n) /\ n.nreq = x
    BY DEF LikeFc, FcRec

\* The requests.
LEMMA FcReq == ASSUME NEW k \in FcRec, NEW x \in [Reqs -> ReqRec]
           PROVE  LET n == [k EXCEPT !.req = x]
                  IN  LikeFc({"req"}, k, n) /\ n.req = x
    BY DEF LikeFc, FcRec

(***************************************************************************)
(* What each step does to the view of its request                          *)
(***************************************************************************)
\* w is v but for the fields in F; an interrupt that the daemon has, and a
\* thread about to end the request, may be gone.
LikeView(F, v, w) ==
    /\ w \in ViewRec
    /\ "q" \in F \/ w.q = v.q
    /\ "pending" \in F \/ (w.pending <=> v.pending)
    /\ "io" \in F \/ (w.io <=> v.io)
    /\ "processing" \in F \/ (w.processing <=> v.processing)
    /\ "interrupts" \in F \/ (w.interrupts <=> v.interrupts)
    /\ "task" \in F \/ w.task = v.task
    /\ "copy" \in F \/ w.copy = v.copy
    /\ "ender" \in F \/ (w.ender <=> v.ender)
    /\ "told" \in F \/ (w.told => v.told)
    /\ "window" \in F \/ (w.window => v.window)

\* Goto of a task, with no change of its request.
LEMMA ViewGoto ==
    ASSUME NEW v \in ViewRec, Sound(v), NEW w, LikeView({"task"}, v, w),
           \/ v.task = "get" /\ w.task = "reserved"
           \/ /\ v.task \in {"wait1", "wait2"} /\ v.q.state = "finished"
              /\ w.task = IF v.q.aborted THEN "unlocked" ELSE "put"
           \/ /\ v.task = "unlocked" /\ ~v.q.locked /\ v.q.state # "pending"
              /\ w.task = AfterAbort(v.q.state)
           \/ v.task = "answered" /\ v.q.state = "finished" /\ w.task = "put"
    PROVE  Sound(w)
    BY DEF Sound, OnLists, Life, Counted, Copied, Waited, Kept, Alive, One,
           LikeView, ViewRec, WaitPcs, CopyPcs, AfterAbort

\* GiveUp.
LEMMA ViewGiveUp ==
    ASSUME NEW v \in ViewRec, Sound(v), NEW w, LikeView({"q", "task"}, v, w),
           v.task \in {"get", "reserved"}, w.q = Freed, w.task = "none"
    PROVE  Sound(w)
    BY FixedReqs DEF Sound, OnLists, Life, Counted, Copied, Waited, Kept, Alive, One,
           LikeView, ViewRec, WaitPcs, CopyPcs

\* Allocated.
LEMMA ViewAllocated ==
    ASSUME NEW v \in ViewRec, Sound(v), NEW w, LikeView({"q", "task"}, v, w),
           v.task \in {"get", "reserved"}, w.task = "send", w.q.state = "init",
           w.q.count = 1, ~w.q.background, ~w.q.aborted, ~w.q.ended,
           ~w.q.interrupted
    PROVE  Sound(w)
    BY FixedReqs DEF Sound, OnLists, Life, Counted, Copied, Waited, Kept, Alive, One,
           LikeView, ViewRec, WaitPcs, CopyPcs

\* request_send, refused.
LEMMA ViewRefused ==
    ASSUME NEW v \in ViewRec, Sound(v), NEW w, LikeView({"q", "task"}, v, w),
           v.task = "send", w.task = "put",
           Like({"isreply", "error"}, v.q, w.q), w.q.error # "none"
    PROVE  Sound(w)
    BY FixedReqs DEF Sound, OnLists, Life, Counted, Copied, Waited, Kept, Alive, One,
           LikeView, ViewRec, WaitPcs, CopyPcs, Like

\* request_send, queued.
LEMMA ViewQueued ==
    ASSUME NEW v \in ViewRec, Sound(v), NEW w,
           LikeView({"q", "task", "pending"}, v, w),
           v.task = "send", w.task \in {"wait1", "wait2"}, w.pending,
           Like({"isreply", "count", "state", "waiting"}, v.q, w.q),
           w.q.isreply, w.q.count = v.q.count + 1, w.q.state = "pending"
    PROVE  Sound(w)
    BY FixedReqs DEF Sound, OnLists, Life, Counted, Copied, Waited, Kept, Alive, One,
           LikeView, ViewRec, WaitPcs, CopyPcs, Like

\* request_send_nowait, queued: of a task's request, or of a new one.
LEMMA ViewNowait ==
    ASSUME NEW v \in ViewRec, Sound(v), NEW w,
           LikeView({"q", "task", "pending"}, v, w),
           v.task = "send" \/ (v.task = "none" /\ v.q.state = "none"),
           w.task = "none", w.pending, w.q.state = "pending", w.q.background,
           w.q.count = 1, ~w.q.aborted, ~w.q.ended
    PROVE  Sound(w)
    BY FixedReqs DEF Sound, OnLists, Life, Counted, Copied, Waited, Kept, Alive, One,
           LikeView, ViewRec, WaitPcs, CopyPcs, Like

\* The same without a connection: it is ended at once.
LEMMA ViewUnsent ==
    ASSUME NEW v \in ViewRec, Sound(v), NEW w, LikeView({"q", "task"}, v, w),
           v.task = "send" \/ (v.task = "none" /\ v.q.state = "none"),
           w.task = "none", w.q = Freed
    PROVE  Sound(w)
    BY FixedReqs DEF Sound, OnLists, Life, Counted, Copied, Waited, Kept, Alive, One,
           LikeView, ViewRec, WaitPcs, CopyPcs, Like

\* wait_answer_interruptible: the signal is noted, and told to the daemon if
\* it has the request.
LEMMA ViewInterrupted ==
    ASSUME NEW v \in ViewRec, Sound(v), NEW w,
           LikeView({"q", "task", "interrupts"}, v, w),
           v.task = "wait1", w.task = "wait2", v.q.state # "finished",
           Like({"interrupted"}, v.q, w.q), w.q.interrupted,
           w.interrupts <=> (v.interrupts \/ v.q.state = "sent")
    PROVE  Sound(w)
    BY FixedReqs DEF Sound, OnLists, Life, Counted, Copied, Waited, Kept, Alive, One,
           LikeView, ViewRec, WaitPcs, CopyPcs, Like

\* And no such interrupt was queued before.
LEMMA ViewNotQueued ==
    ASSUME NEW v \in ViewRec, Sound(v),
           v.task = "wait1" \/ v.q.state = "reading" \/ (v.told /\ v.processing)
    PROVE  ~v.interrupts
    BY FixedReqs DEF Sound, OnLists, Life, Counted, Copied, Waited, Kept, Alive, One,
           ViewRec, WaitPcs, CopyPcs

\* request_wait_answer: a fatal signal.
LEMMA ViewKilled ==
    ASSUME NEW v \in ViewRec, Sound(v), NEW w, LikeView({"q", "task"}, v, w),
           v.task = "wait2", w.task = "unlocked", v.q.state # "finished",
           Like({"error", "aborted"}, v.q, w.q), w.q.aborted, w.q.error # "none"
    PROVE  Sound(w)
    BY FixedReqs DEF Sound, OnLists, Life, Counted, Copied, Waited, Kept, Alive, One,
           LikeView, ViewRec, WaitPcs, CopyPcs, Like

\* The label `aborted`: the request is taken back.
LEMMA ViewTakenBack ==
    ASSUME NEW v \in ViewRec, Sound(v), NEW w,
           LikeView({"q", "task", "pending", "io", "processing"}, v, w),
           v.task = "unlocked", w.task = "put", ~v.q.locked, v.q.state = "pending",
           Like({"count"}, v.q, w.q), w.q.count = v.q.count - 1,
           ~w.pending, ~w.io, ~w.processing
    PROVE  Sound(w)
    BY FixedReqs DEF Sound, OnLists, Life, Counted, Copied, Waited, Kept, Alive, One,
           LikeView, ViewRec, WaitPcs, CopyPcs, Like

\* fuse_put_request by the task.
LEMMA ViewPut ==
    ASSUME NEW v \in ViewRec, Sound(v), NEW w, LikeView({"q", "task"}, v, w),
           v.task = "put", w.task = "none",
           v.q.count = 1 => w.q = Freed,
           v.q.count # 1 => Like({"count"}, v.q, w.q) /\ w.q.count = v.q.count - 1
    PROVE  Sound(w)
    BY FixedReqs DEF Sound, OnLists, Life, Counted, Copied, Waited, Kept, Alive, One,
           LikeView, ViewRec, WaitPcs, CopyPcs, Like

\* The daemon reads an interrupt.
LEMMA ViewTold ==
    ASSUME NEW v \in ViewRec, Sound(v), NEW w, LikeView({"q", "told", "interrupts"}, v, w),
           v.interrupts, ~w.interrupts, Like({}, v.q, w.q)
    PROVE  Sound(w)
    BY FixedReqs DEF Sound, OnLists, Life, Counted, Copied, Waited, Kept, Alive, One,
           LikeView, ViewRec, WaitPcs, CopyPcs, Like

\* The daemon begins to read a request.
LEMMA ViewRead ==
    ASSUME NEW v \in ViewRec, Sound(v), NEW w,
           LikeView({"q", "pending", "io", "copy"}, v, w),
           v.pending, ~w.pending, w.io, w.copy = "rfault",
           Like({"state"}, v.q, w.q), w.q.state = "reading"
    PROVE  Sound(w)
    BY FixedReqs DEF Sound, OnLists, Life, Counted, Copied, Waited, Kept, Alive, One,
           LikeView, ViewRec, WaitPcs, CopyPcs, Like

\* lock_request.
LEMMA ViewLocked ==
    ASSUME NEW v \in ViewRec, Sound(v), NEW w, LikeView({"q", "copy"}, v, w),
           v.copy \in {"rfault", "wfault"}, ~v.q.aborted,
           w.copy = IF v.copy = "rfault" THEN "rcopy" ELSE "wcopy",
           Like({"locked"}, v.q, w.q), w.q.locked
    PROVE  Sound(w)
    BY FixedReqs DEF Sound, OnLists, Life, Counted, Copied, Waited, Kept, Alive, One,
           LikeView, ViewRec, WaitPcs, CopyPcs, Like

\* unlock_request.
LEMMA ViewUnlocked ==
    ASSUME NEW v \in ViewRec, Sound(v), NEW w, LikeView({"q", "copy"}, v, w),
           v.copy \in {"rcopy", "wcopy"},
           w.copy = IF v.copy = "rcopy" THEN "rfault" ELSE "wfault",
           Like({"locked"}, v.q, w.q)
    PROVE  Sound(w)
    BY FixedReqs DEF Sound, OnLists, Life, Counted, Copied, Waited, Kept, Alive, One,
           LikeView, ViewRec, WaitPcs, CopyPcs, Like

\* The end of a read that was good.
LEMMA ViewSent ==
    ASSUME NEW v \in ViewRec, Sound(v), NEW w,
           LikeView({"q", "copy", "pending", "io", "processing", "interrupts"}, v, w),
           v.copy \in {"rcopy", "rfault"}, ~v.q.aborted, w.copy = "none",
           ~w.pending, ~w.io, w.processing,
           w.interrupts <=> (v.interrupts \/ v.q.interrupted),
           Like({"locked", "state"}, v.q, w.q), w.q.state = "sent"
    PROVE  Sound(w)
    BY FixedReqs DEF Sound, OnLists, Life, Counted, Copied, Waited, Kept, Alive, One,
           LikeView, ViewRec, WaitPcs, CopyPcs, Like

\* A reply is found, and copied.
LEMMA ViewReply ==
    ASSUME NEW v \in ViewRec, Sound(v), NEW w,
           LikeView({"q", "copy", "pending", "io", "processing"}, v, w),
           v.processing, ~v.q.aborted, ~w.pending, w.io, ~w.processing, w.copy = "wcopy",
           Like({"locked", "state", "error"}, v.q, w.q), w.q.state = "writing",
           w.q.locked
    PROVE  Sound(w)
    BY FixedReqs DEF Sound, OnLists, Life, Counted, Copied, Waited, Kept, Alive, One,
           LikeView, ViewRec, WaitPcs, CopyPcs, Like

\* A reply is found for an aborted request.
LEMMA ViewWindow ==
    ASSUME NEW v \in ViewRec, Sound(v), NEW w, LikeView({"window"}, v, w),
           v.processing, v.q.aborted
    PROVE  Sound(w)
    BY FixedReqs DEF Sound, OnLists, Life, Counted, Copied, Waited, Kept, Alive, One,
           LikeView, ViewRec, WaitPcs, CopyPcs, Like

\* A reply to an interrupt: perhaps it is to be sent again.
LEMMA ViewRequeued ==
    ASSUME NEW v \in ViewRec, Sound(v), NEW w, LikeView({"told", "interrupts"}, v, w),
           v.told, ~w.told, v.interrupts => w.interrupts, w.interrupts => v.processing
    PROVE  Sound(w)
    BY FixedReqs DEF Sound, OnLists, Life, Counted, Copied, Waited, Kept, Alive, One,
           LikeView, ViewRec, WaitPcs, CopyPcs, Like

\* end_io_requests.
LEMMA ViewCutOff ==
    ASSUME NEW v \in ViewRec, Sound(v), NEW w,
           LikeView({"q", "pending", "io", "processing", "ender"}, v, w),
           v.io, ~v.ender, ~w.pending, ~w.io, ~w.processing,
           Like({"state", "aborted", "error", "end", "count"}, v.q, w.q),
           w.q.state = "finished", w.q.aborted, w.q.error # "none",
           w.q.count = v.q.count + One(w.ender)
    PROVE  Sound(w)
    BY FixedReqs DEF Sound, OnLists, Life, Counted, Copied, Waited, Kept, Alive, One,
           LikeView, ViewRec, WaitPcs, CopyPcs, Like

\* The end function, called by fuse_abort_conn.
LEMMA ViewEndCalled ==
    ASSUME NEW v \in ViewRec, Sound(v), NEW w, LikeView({"q", "ender"}, v, w),
           v.ender, ~w.ender,
           v.q.count = 1 => w.q = Freed,
           v.q.count # 1 => Like({"count"}, v.q, w.q) /\ w.q.count = v.q.count - 1
    PROVE  Sound(w)
    BY FixedReqs DEF Sound, OnLists, Life, Counted, Copied, Waited, Kept, Alive, One,
           LikeView, ViewRec, WaitPcs, CopyPcs, Like

\* request_end: q is the request that it is called with.
LEMMA ViewEnded ==
    ASSUME NEW v \in ViewRec, Sound(v), NEW w, NEW q,
           LikeView({"q", "pending", "io", "processing", "interrupts", "copy"}, v, w),
           Kept(v), w.copy = "none",
           ~w.pending, ~w.io, ~w.processing, ~w.interrupts,
           Like({"locked", "state", "error", "copied"}, v.q, q),
           q.aborted \/ q.background \/ q.error # "none" \/ q.copied,
           q.aborted => q.error # "none",
           q.count = 1 => w.q = Freed,
           q.count # 1 => /\ Like({"count", "end", "ended", "state"}, q, w.q)
                          /\ w.q.state = "finished" /\ w.q.ended
                          /\ w.q.count = q.count - 1
    PROVE  Sound(w)
    BY FixedReqs DEF Sound, OnLists, Life, Counted, Copied, Waited, Kept, Alive, One,
           LikeView, ViewRec, WaitPcs, CopyPcs, Like

\* A step that leaves a request alone.
LEMMA ViewAlone ==
    ASSUME NEW v \in ViewRec, Sound(v), NEW w, LikeView({}, v, w)
    PROVE  Sound(w)
    BY DEF Sound, OnLists, Life, Counted, Copied, Waited, Kept, Alive, One, LikeView

(***************************************************************************)
(* Tasks and threads                                                       *)
(***************************************************************************)
\* The task of a request.
LEMMA TaskPcIs ==
    ASSUME NEW k, NEW tk, TasksFit(k, tk), NEW t \in Tasks, tk[t].req # 0
    PROVE  TaskPc(tk, tk[t].req) = tk[t].pc
    BY DEF TaskPc, TasksFit

\* TaskPc looks at the one task of a request.
LEMMA TaskPcSame ==
    ASSUME NEW k, NEW tk, TasksFit(k, tk), NEW n, NEW tl, TasksFit(n, tl), NEW y \in Reqs,
           \A t \in Tasks : tk[t].req = y \/ tl[t].req = y =>
                                tl[t].req = tk[t].req /\ tl[t].pc = tk[t].pc
    PROVE  TaskPc(tl, y) = TaskPc(tk, y)
<1>1. CASE \E t \in Tasks : tk[t].req = y
    <2>1. PICK t \in Tasks : tk[t].req = y
        BY <1>1
    <2>2. tl[t].req = y /\ tl[t].pc = tk[t].pc /\ y # 0
        BY <2>1 DEF Reqs
    <2>. QED  BY <2>1, <2>2, TaskPcIs
<1>2. CASE ~\E t \in Tasks : tk[t].req = y
    BY <1>2 DEF TaskPc
<1>. QED  BY <1>1, <1>2

\* What the step of task t, from `from` to `to`, leaves of the others.
TaskMoved(k, tk, n, tl, t, to) ==
    /\ tl \in [Tasks -> TaskRec] /\ TasksFit(n, tl) /\ tl[t] = to
    /\ \A y \in Reqs : y # tk[t].req /\ y # to.req => TaskPc(tl, y) = TaskPc(tk, y)
    /\ to.req # 0 => TaskPc(tl, to.req) = to.pc
    /\ tk[t].req # 0 /\ to.req # tk[t].req => TaskPc(tl, tk[t].req) = "none"
    /\ tk[t].req # 0 => TaskPc(tk, tk[t].req) = tk[t].pc
    /\ \A u \in Tasks \ {t} : tl[u] = tk[u]
    /\ to.req # 0 /\ to.req # tk[t].req => TaskPc(tk, to.req) = "none"

\* A task that stays with its request, takes one up or lets go of it.
LEMMA TaskMoves ==
    ASSUME NEW k, NEW n, k.nreq \in Int, n.nreq \in Int, k.nreq =< n.nreq,
           NEW tk \in [Tasks -> TaskRec], TasksFit(k, tk), NEW t \in Tasks,
           NEW to \in TaskRec, to.pc = "idle" <=> to.req = 0, to.req =< n.nreq,
           to.req = 0 \/ to.req = tk[t].req \/ to.req > k.nreq
    PROVE  TaskMoved(k, tk, n, [tk EXCEPT ![t] = to], t, to)
<1>. DEFINE tl == [tk EXCEPT ![t] = to]
<1>1. /\ tl \in [Tasks -> TaskRec] /\ tl[t] = to
      /\ \A u \in Tasks : u # t => tl[u] = tk[u]
    OBVIOUS
<1>. HIDE DEF tl
<1>2. \A u \in Tasks : tk[u].req \in Int /\ tk[u].req =< k.nreq
    BY DEF TaskRec, Reqs, TasksFit
<1>3. to.req \in Int
    BY DEF TaskRec, Reqs
<1>4. \A u \in Tasks : u # t /\ to.req # 0 => tk[u].req # to.req
    <2>1. CASE to.req = tk[t].req
        BY <2>1 DEF TasksFit
    <2>2. CASE to.req > k.nreq
        BY <1>2, <1>3, <2>2
    <2>. QED  BY <2>1, <2>2
<1>5. TasksFit(n, tl)
    <2>1. ASSUME NEW u \in Tasks
          PROVE  (tl[u].pc = "idle" <=> tl[u].req = 0) /\ tl[u].req =< n.nreq
        <3>1. CASE u = t
            BY <1>1, <3>1
        <3>2. CASE u # t
            BY <1>1, <1>2, <3>2 DEF TasksFit
        <3>. QED  BY <3>1, <3>2
    <2>2. ASSUME NEW u \in Tasks, NEW x \in Tasks, tl[u].req = tl[x].req, tl[u].req # 0
          PROVE  u = x
        BY <1>1, <1>4, <2>2 DEF TasksFit
    <2>. QED  BY <2>1, <2>2 DEF TasksFit
<1>6. ASSUME NEW y \in Reqs, y # tk[t].req, y # to.req
      PROVE  TaskPc(tl, y) = TaskPc(tk, y)
    <2>1. \A u \in Tasks : tk[u].req = y \/ tl[u].req = y =>
                                tl[u].req = tk[u].req /\ tl[u].pc = tk[u].pc
        BY <1>1, <1>6
    <2>. QED  BY <1>5, <2>1, TaskPcSame
<1>7. to.req # 0 => TaskPc(tl, to.req) = to.pc
    BY <1>1, <1>5, TaskPcIs
<1>8. tk[t].req # 0 /\ to.req # tk[t].req => TaskPc(tl, tk[t].req) = "none"
    <2>1. ASSUME tk[t].req # 0, to.req # tk[t].req, NEW u \in Tasks, tl[u].req = tk[t].req
          PROVE  FALSE
        BY <1>1, <2>1 DEF TasksFit
    <2>. QED  BY <2>1 DEF TaskPc
<1>9. tk[t].req # 0 => TaskPc(tk, tk[t].req) = tk[t].pc
    BY TaskPcIs
<1>10. to.req # 0 /\ to.req # tk[t].req => TaskPc(tk, to.req) = "none"
    <2>1. ASSUME to.req # 0, to.req # tk[t].req, NEW u \in Tasks, tk[u].req = to.req
          PROVE  FALSE
        BY <1>4, <2>1
    <2>. QED  BY <2>1 DEF TaskPc
<1>. QED  BY <1>1, <1>5, <1>6, <1>7, <1>8, <1>9, <1>10 DEF TaskMoved, tl

\* The thread that copies a request.
LEMMA CopyPcIs ==
    ASSUME NEW sv, ServersFit(sv), NEW s \in Servers, sv[s].pc \in CopyPcs
    PROVE  CopyPc(sv, sv[s].req) = sv[s].pc
    BY DEF CopyPc, ServersFit, IsCopy

\* CopyPc looks at no other.
LEMMA CopyPcSame ==
    ASSUME NEW sv, ServersFit(sv), NEW sl, ServersFit(sl), NEW y,
           \A s \in Servers : IsCopy(sv, s, y) \/ IsCopy(sl, s, y) =>
                                sl[s].req = sv[s].req /\ sl[s].pc = sv[s].pc
    PROVE  CopyPc(sl, y) = CopyPc(sv, y)
<1>1. CASE \E s \in Servers : IsCopy(sv, s, y)
    <2>1. PICK s \in Servers : IsCopy(sv, s, y)
        BY <1>1
    <2>2. sl[s].req = y /\ sl[s].pc = sv[s].pc /\ sv[s].req = y /\ sv[s].pc \in CopyPcs
        BY <2>1 DEF IsCopy
    <2>. QED  BY <2>2, CopyPcIs
<1>2. CASE ~\E s \in Servers : IsCopy(sv, s, y)
    <2>1. ~\E s \in Servers : IsCopy(sl, s, y)
        BY <1>2 DEF IsCopy
    <2>. QED  BY <1>2, <2>1 DEF CopyPc
<1>. QED  BY <1>1, <1>2

\* What the step of thread s to `to` leaves of the others.
ServerMoved(sv, sl, s, to) ==
    /\ sl \in [Servers -> ServerRec] /\ ServersFit(sl) /\ sl[s] = to
    /\ \A y \in Reqs : (y # sv[s].req /\ y # to.req)
                        \/ (sv[s].pc \notin CopyPcs /\ to.pc \notin CopyPcs)
                                => CopyPc(sl, y) = CopyPc(sv, y)
    /\ \A y \in Reqs : InWindow(sl, y) =>
                            InWindow(sv, y) \/ (to.pc = "aborted" /\ y = to.req)
    /\ to.pc \in CopyPcs => CopyPc(sl, to.req) = to.pc
    /\ sv[s].pc \in CopyPcs => CopyPc(sv, sv[s].req) = sv[s].pc
    /\ sv[s].pc \in CopyPcs /\ to.pc \notin CopyPcs => CopyPc(sl, sv[s].req) = "none"

\* A thread that stays with its request, takes one up or lets go of it.
LEMMA ServerMoves ==
    ASSUME NEW sv \in [Servers -> ServerRec], ServersFit(sv), NEW s \in Servers,
           NEW to \in ServerRec, to.pc = "idle" <=> to.req = 0,
           to.pc \in CopyPcs => \/ sv[s].pc \in CopyPcs /\ to.req = sv[s].req
                                \/ CopyPc(sv, to.req) = "none"
    PROVE  ServerMoved(sv, [sv EXCEPT ![s] = to], s, to)
<1>. DEFINE sl == [sv EXCEPT ![s] = to]
<1>1. /\ sl \in [Servers -> ServerRec] /\ sl[s] = to
      /\ \A u \in Servers : u # s => sl[u] = sv[u]
    OBVIOUS
<1>. HIDE DEF sl
<1>2. ASSUME NEW u \in Servers, u # s, to.pc \in CopyPcs, sv[u].pc \in CopyPcs
      PROVE  sv[u].req # to.req
    <2>1. CASE sv[s].pc \in CopyPcs /\ to.req = sv[s].req
        BY <1>2, <2>1 DEF ServersFit
    <2>2. CASE CopyPc(sv, to.req) = "none"
        <3>1. CopyPc(sv, sv[u].req) \in CopyPcs
            BY <1>2, CopyPcIs
        <3>2. "none" \notin CopyPcs
            BY DEF CopyPcs
        <3>. QED  BY <2>2, <3>1, <3>2
    <2>. QED  BY <1>2, <2>1, <2>2
<1>3. ServersFit(sl)
    <2>1. ASSUME NEW u \in Servers  PROVE sl[u].pc = "idle" <=> sl[u].req = 0
        <3>1. CASE u = s
            BY <1>1, <3>1
        <3>2. CASE u # s
            BY <1>1, <3>2 DEF ServersFit
        <3>. QED  BY <3>1, <3>2
    <2>2. ASSUME NEW u \in Servers, NEW x \in Servers,
                 sl[u].pc \in CopyPcs, sl[x].pc \in CopyPcs, sl[u].req = sl[x].req
          PROVE  u = x
        BY <1>1, <1>2, <2>2 DEF ServersFit
    <2>. QED  BY <2>1, <2>2 DEF ServersFit
<1>4. ASSUME NEW y \in Reqs, \/ y # sv[s].req /\ y # to.req
                             \/ sv[s].pc \notin CopyPcs /\ to.pc \notin CopyPcs
      PROVE  CopyPc(sl, y) = CopyPc(sv, y)
    <2>1. \A u \in Servers : IsCopy(sv, u, y) \/ IsCopy(sl, u, y) =>
                                sl[u].req = sv[u].req /\ sl[u].pc = sv[u].pc
        BY <1>1, <1>4 DEF IsCopy
    <2>. QED  BY <1>3, <2>1, CopyPcSame
<1>5. ASSUME NEW y \in Reqs, InWindow(sl, y)
      PROVE  InWindow(sv, y) \/ (to.pc = "aborted" /\ y = to.req)
    BY <1>1, <1>5 DEF InWindow
<1>6. to.pc \in CopyPcs => CopyPc(sl, to.req) = to.pc
    BY <1>1, <1>3, CopyPcIs
<1>7. sv[s].pc \in CopyPcs => CopyPc(sv, sv[s].req) = sv[s].pc
    BY CopyPcIs
<1>8. ASSUME sv[s].pc \in CopyPcs, to.pc \notin CopyPcs
      PROVE  CopyPc(sl, sv[s].req) = "none"
    <2>1. ASSUME NEW u \in Servers, IsCopy(sl, u, sv[s].req)  PROVE FALSE
        BY <1>1, <1>8, <2>1 DEF IsCopy, ServersFit
    <2>. QED  BY <2>1 DEF CopyPc
<1>. QED  BY <1>1, <1>3, <1>4, <1>5, <1>6, <1>7, <1>8 DEF ServerMoved, sl

(***************************************************************************)
(* The counters                                                            *)
(***************************************************************************)
\* A set that may have gained or lost one element.
LEMMA OneMore ==
    ASSUME NEW A, IsFiniteSet(A), NEW B, NEW x, NEW a \in BOOLEAN, NEW b \in BOOLEAN,
           x \in A <=> a, x \in B <=> b, \A y : y # x => (y \in A <=> y \in B)
    PROVE  /\ IsFiniteSet(B) /\ Cardinality(A) \in Nat /\ Cardinality(B) \in Nat
           /\ Cardinality(B) = Cardinality(A) + One(b) - One(a)
<1>1. Cardinality(A) \in Nat
    BY FS_CardinalityType
<1>2. CASE a <=> b
    <2>1. A = B
        BY <1>2
    <2>. QED  BY <1>1, <1>2, <2>1 DEF One
<1>3. CASE a /\ ~b
    <2>1. B = A \ {x}
        BY <1>3
    <2>2. IsFiniteSet(B) /\ Cardinality(B) = Cardinality(A) - 1
        BY <1>3, <2>1, FS_RemoveElement
    <2>3. Cardinality(B) \in Nat
        BY <2>2, FS_CardinalityType
    <2>. QED  BY <1>1, <1>3, <2>2, <2>3 DEF One
<1>4. CASE ~a /\ b
    <2>1. B = A \cup {x}
        BY <1>4
    <2>2. IsFiniteSet(B) /\ Cardinality(B) = Cardinality(A) + 1
        BY <1>4, <2>1, FS_AddElement
    <2>. QED  BY <1>1, <1>4, <2>2 DEF One
<1>. QED  BY <1>2, <1>3, <1>4

\* One task more, or one less, wants a request.
LEMMA GettingCount ==
    ASSUME NEW tk, NEW tl, NEW t \in Tasks, \A u \in Tasks \ {t} : tl[u] = tk[u]
    PROVE  /\ Cardinality(Getting(tk)) \in Nat /\ Cardinality(Getting(tl)) \in Nat
           /\ Cardinality(Getting(tl)) =
                  Cardinality(Getting(tk)) + One(Wants(tl[t])) - One(Wants(tk[t]))
<1>1. IsFiniteSet(Getting(tk))
    BY DevAssumption, FS_Subset DEF Getting
<1>2. /\ t \in Getting(tk) <=> Wants(tk[t])
      /\ t \in Getting(tl) <=> Wants(tl[t])
      /\ \A y : y # t => (y \in Getting(tk) <=> y \in Getting(tl))
    BY DEF Getting
<1>3. Wants(tk[t]) \in BOOLEAN /\ Wants(tl[t]) \in BOOLEAN
    BY DEF Wants
<1>. QED  BY ONLY <1>1, <1>2, <1>3, OneMore

\* A step on one request adds or removes at most that request.
LEMMA ReqsCount ==
    ASSUME NEW k, NEW n, NEW r \in Reqs, \A x \in Reqs \ {r} : n.req[x] = k.req[x]
    PROVE  /\ Cardinality(WaitingReqs(k)) \in Nat /\ Cardinality(WaitingReqs(n)) \in Nat
           /\ Cardinality(WaitingReqs(n)) = Cardinality(WaitingReqs(k))
                  + One(Waits(n.req[r])) - One(Waits(k.req[r]))
           /\ Cardinality(BackgroundReqs(k)) \in Nat
           /\ Cardinality(BackgroundReqs(n)) \in Nat
           /\ Cardinality(BackgroundReqs(n)) = Cardinality(BackgroundReqs(k))
                  + One(Backs(n.req[r])) - One(Backs(k.req[r]))
<1>1. IsFiniteSet(Reqs)
    BY DevAssumption, FS_Interval DEF Reqs
<1>2. IsFiniteSet(WaitingReqs(k)) /\ IsFiniteSet(BackgroundReqs(k))
    BY <1>1, FS_Subset DEF WaitingReqs, BackgroundReqs
<1>3. /\ r \in WaitingReqs(k) <=> Waits(k.req[r])
      /\ r \in WaitingReqs(n) <=> Waits(n.req[r])
      /\ \A y : y # r => (y \in WaitingReqs(k) <=> y \in WaitingReqs(n))
    BY DEF WaitingReqs
<1>4. /\ r \in BackgroundReqs(k) <=> Backs(k.req[r])
      /\ r \in BackgroundReqs(n) <=> Backs(n.req[r])
      /\ \A y : y # r => (y \in BackgroundReqs(k) <=> y \in BackgroundReqs(n))
    BY DEF BackgroundReqs
<1>5. /\ Waits(k.req[r]) \in BOOLEAN /\ Waits(n.req[r]) \in BOOLEAN
      /\ Backs(k.req[r]) \in BOOLEAN /\ Backs(n.req[r]) \in BOOLEAN
    BY DEF Waits, Backs
<1>6. /\ Cardinality(WaitingReqs(k)) \in Nat /\ Cardinality(WaitingReqs(n)) \in Nat
      /\ Cardinality(WaitingReqs(n)) = Cardinality(WaitingReqs(k))
             + One(Waits(n.req[r])) - One(Waits(k.req[r]))
    BY ONLY <1>2, <1>3, <1>5, OneMore
<1>7. /\ Cardinality(BackgroundReqs(k)) \in Nat /\ Cardinality(BackgroundReqs(n)) \in Nat
      /\ Cardinality(BackgroundReqs(n)) = Cardinality(BackgroundReqs(k))
             + One(Backs(n.req[r])) - One(Backs(k.req[r]))
    BY ONLY <1>2, <1>4, <1>5, OneMore
<1>. QED  BY <1>6, <1>7

(***************************************************************************)
(* One step, of one request                                                *)
(***************************************************************************)
\* v shows r.
Shows(v, k, tk, sv, h, e, r) ==
    /\ v \in ViewRec /\ v.q = k.req[r] /\ v.q \in ReqRec
    /\ v.pending <=> InList(k.pending, r)
    /\ v.io <=> InList(k.io, r)
    /\ v.processing <=> InList(k.processing, r)
    /\ v.interrupts <=> InList(k.interrupts, r)
    /\ v.task = TaskPc(tk, r) /\ v.copy = CopyPc(sv, r)
    /\ v.ender <=> e["abort"].req = r
    /\ v.told <=> Token(r) \in h
    /\ v.window <=> InWindow(sv, r)

\* The view of a request has the types that the invariant asks for.
LEMMA ViewShows ==
    ASSUME NEW k, NEW tk, NEW sv, NEW h, NEW e, Types(k, tk, sv, h, e),
           TasksFit(k, tk), NEW r \in Reqs
    PROVE  Shows(View(k, tk, sv, h, e, r), k, tk, sv, h, e, r)
<1>1. k.req[r] \in ReqRec
    BY DEF Types, FcRec
<1>2. TaskPc(tk, r) \in {"none", "get", "reserved"} \cup WaitPcs
    <2>1. CASE \E t \in Tasks : tk[t].req = r
        <3>1. PICK t \in Tasks : tk[t].req = r
            BY <2>1
        <3>2. r # 0
            BY DEF Reqs
        <3>3. TaskPc(tk, r) = tk[t].pc /\ tk[t].pc # "idle"
            BY <3>1, <3>2, TaskPcIs DEF TasksFit
        <3>4. tk[t].pc \in {"idle", "get", "reserved"} \cup WaitPcs
            BY <3>1 DEF Types, TaskRec
        <3>. QED  BY <3>3, <3>4
    <2>2. CASE ~\E t \in Tasks : tk[t].req = r
        BY <2>2 DEF TaskPc
    <2>. QED  BY <2>1, <2>2
<1>3. CopyPc(sv, r) \in {"none"} \cup CopyPcs
    BY DEF CopyPc, IsCopy
<1>. DEFINE a == InList(k.pending, r)
            b == InList(k.io, r)
            c == InList(k.processing, r)
            d == InList(k.interrupts, r)
            i == e["abort"].req = r
            j == Token(r) \in h
            l == InWindow(sv, r)
            v == [q |-> k.req[r], pending |-> a, io |-> b, processing |-> c,
                  interrupts |-> d, task |-> TaskPc(tk, r), copy |-> CopyPc(sv, r),
                  ender |-> i, told |-> j, window |-> l]
<1>4. a \in BOOLEAN /\ b \in BOOLEAN /\ c \in BOOLEAN /\ d \in BOOLEAN
      /\ i \in BOOLEAN /\ j \in BOOLEAN /\ l \in BOOLEAN
    BY DEF InList, InWindow
<1>5. v = View(k, tk, sv, h, e, r)
    BY DEF View
<1>. HIDE DEF a, b, c, d, i, j, l
<1>6. /\ v \in ViewRec /\ v.q = k.req[r]
      /\ v.task = TaskPc(tk, r) /\ v.copy = CopyPc(sv, r)
      /\ v.pending = a /\ v.io = b /\ v.processing = c /\ v.interrupts = d
      /\ v.ender = i /\ v.told = j /\ v.window = l
    BY <1>1, <1>2, <1>3, <1>4 DEF ViewRec
<1>. HIDE DEF v
<1>. USE DEF a, b, c, d, i, j, l
<1>. QED  BY <1>1, <1>5, <1>6 DEF Shows

\* The other requests are as they were.
FcElse(k, n, r) ==
    \A y \in Reqs : y # r =>
        /\ n.req[y] = k.req[y]
        /\ InList(n.pending, y) <=> InList(k.pending, y)
        /\ InList(n.io, y) <=> InList(k.io, y)
        /\ InList(n.processing, y) <=> InList(k.processing, y)
        /\ InList(n.interrupts, y) <=> InList(k.interrupts, y)
TaskElse(tk, tl, r) == \A y \in Reqs : y # r => TaskPc(tl, y) = TaskPc(tk, y)
ServerElse(sv, sl, r) ==
    \A y \in Reqs : y # r => /\ CopyPc(sl, y) = CopyPc(sv, y)
                             /\ InWindow(sl, y) => InWindow(sv, y)
HeldElse(h, g, r) == \A y \in Reqs : y # r => (Token(y) \in g => Token(y) \in h)
EnderElse(e, f, r) ==
    \A y \in Reqs : y # r => (f["abort"].req = y <=> e["abort"].req = y)

Reserving(tk, tl, n) ==
    \A t \in Tasks : tl[t].pc = "reserved" => tk[t].pc = "reserved" \/ Late(n)
Accounts(k, n, tl) ==
    InitFirst(n) /\ NumbersTrue(n, tl) /\ (Late(k) => Late(n))

\* What does not change at all changes for no other request.
LEMMA ElseSame ==
    ASSUME NEW tk, NEW sv, NEW h, NEW e, NEW r, NEW n
    PROVE  TaskElse(tk, tk, r) /\ ServerElse(sv, sv, r) /\ HeldElse(h, h, r)
           /\ EnderElse(e, e, r) /\ Reserving(tk, tk, n)
    BY DEF Reserving, TaskElse, ServerElse, HeldElse, EnderElse

\* A step on one request: what is left to show is about that request alone.
LEMMA Stepped ==
    ASSUME NEW k, NEW tk, NEW sv, NEW h, NEW e, Good(k, tk, sv, h, e),
           NEW n, NEW tl, NEW sl, NEW g, NEW f, Types(n, tl, sl, g, f),
           ListsOnce(n), TasksFit(n, tl), ServersFit(sl), EnderFits(n, f),
           NEW r \in Reqs, FcElse(k, n, r), TaskElse(tk, tl, r), ServerElse(sv, sl, r),
           HeldElse(h, g, r), EnderElse(e, f, r), Reserving(tk, tl, n),
           Sound(View(n, tl, sl, g, f, r)), Accounts(k, n, tl)
    PROVE  Good(n, tl, sl, g, f)
<1>1. ASSUME NEW y \in Reqs, y # r  PROVE Sound(View(n, tl, sl, g, f, y))
    <2>. DEFINE v == View(k, tk, sv, h, e, y)
                w == View(n, tl, sl, g, f, y)
    <2>1. Shows(v, k, tk, sv, h, e, y) /\ Sound(v)
        BY ViewShows DEF Good, ReqsSound
    <2>2. Shows(w, n, tl, sl, g, f, y)
        BY ViewShows
    <2>. HIDE DEF v, w
    <2>3. LikeView({}, v, w)
        BY <1>1, <2>1, <2>2 DEF LikeView, Shows, FcElse, TaskElse, ServerElse, HeldElse,
                               EnderElse
    <2>4. Sound(w)
        BY <2>1, <2>3, ViewAlone DEF Shows
    <2>. QED  BY <2>4 DEF w
<1>2. ReqsSound(n, tl, sl, g, f)
    BY <1>1 DEF ReqsSound
<1>3. ReservedLate(n, tl)
    BY DEF Good, ReservedLate, Reserving, Accounts
<1>. QED  BY <1>2, <1>3 DEF Good, Accounts

\* Nothing but the wait queues changes.
LEMMA QuietGood ==
    ASSUME NEW k, NEW tk, NEW sv, NEW h, NEW e, Good(k, tk, sv, h, e),
           NEW n, Quiet(k, n)
    PROVE  Good(n, tk, sv, h, e)
<1>1. \A r : View(n, tk, sv, h, e, r) = View(k, tk, sv, h, e, r)
    BY DEF View, Quiet, SameQueues
<1>2. WaitingReqs(n) = WaitingReqs(k) /\ BackgroundReqs(n) = BackgroundReqs(k)
    BY DEF WaitingReqs, BackgroundReqs, Quiet
<1>3. Types(n, tk, sv, h, e) /\ ListsOnce(n) /\ TasksFit(n, tk) /\ EnderFits(n, e)
    BY DEF Good, Quiet, SameQueues, Types, ListsOnce, TasksFit, EnderFits
<1>4. InitFirst(n)
    BY DEF Good, Quiet, InitFirst, SameNumbers
<1>5. NumbersTrue(n, tk)
    BY <1>2 DEF Good, Quiet, NumbersTrue, SameNumbers
<1>6. ReqsSound(n, tk, sv, h, e)
    BY <1>1 DEF Good, ReqsSound
<1>7. ReservedLate(n, tk)
    BY DEF Good, Quiet, ReservedLate, Late
<1>. QED  BY <1>3, <1>4, <1>5, <1>6, <1>7 DEF Good

\* INIT, after a step of request r.
LEMMA InitKept ==
    ASSUME NEW k \in FcRec, InitFirst(k), NEW n \in FcRec, NEW r \in Reqs,
           FcElse(k, n, r), n.connected = k.connected, r =< n.nreq, k.nreq =< n.nreq,
           n.req[r].state # "none",
           n.req[r].end = k.req[r].end \/ n.req[r].end # "init",
           r = INIT /\ Alive(n.req[r]) => Alive(k.req[r]) /\ n.req[r].background,
           n.connected /\ Alive(n.req[INIT]) =>
                /\ n.blocked
                /\ IF r = INIT THEN n.req[r].end = "init" ELSE ~Alive(n.req[r])
    PROVE  InitFirst(n) /\ (Late(k) => Late(n))
<1>1. INIT \in Reqs
    BY DevAssumption DEF Reqs, INIT
<1>2. \A y \in Reqs : y # r => n.req[y] = k.req[y]
    BY DEF FcElse
<1>3. n.req[INIT].state # "none"
    BY <1>1, <1>2 DEF InitFirst
<1>4. Alive(n.req[INIT]) => n.req[INIT].background
    BY <1>1, <1>2 DEF InitFirst
<1>5. ASSUME NEW y \in Reqs
      PROVE  /\ n.req[y].end = "init" => y = INIT
             /\ y > n.nreq => n.req[y].state = "none"
    <2>1. CASE y = r
        <3>1. r \in Int /\ n.nreq \in Int
            BY DEF FcRec, Reqs
        <3>. QED  BY <2>1, <3>1 DEF InitFirst
    <2>2. CASE y # r
        <3>1. y \in Int /\ n.nreq \in Int /\ k.nreq \in Int
            BY DEF FcRec, Reqs
        <3>. QED  BY <1>2, <2>2, <3>1 DEF InitFirst
    <2>. QED  BY <2>1, <2>2
<1>6. ASSUME n.connected, Alive(n.req[INIT])
      PROVE  /\ n.blocked /\ n.req[INIT].end = "init"
             /\ \A y \in Reqs \ {INIT} : ~Alive(n.req[y])
    <2>1. Alive(k.req[INIT])
        BY <1>1, <1>2, <1>6
    <2>. QED  BY <1>1, <1>2, <1>6, <2>1 DEF InitFirst
<1>7. Late(k) => Late(n)
    BY <1>1, <1>2 DEF Late
<1>. QED  BY <1>3, <1>4, <1>5, <1>6, <1>7 DEF InitFirst

\* The counters after a step of request r, of a task or of none.
LEMMA NumbersKept ==
    ASSUME NEW k \in FcRec, NEW tk, NumbersTrue(k, tk), NEW n \in FcRec, NEW tl,
           NEW r \in Reqs, FcElse(k, n, r), NEW d \in Int,
           Cardinality(Getting(tk)) \in Nat,
           Cardinality(Getting(tl)) = Cardinality(Getting(tk)) + d,
           n.num_waiting = k.num_waiting + d + One(Waits(n.req[r]))
                           - One(Waits(k.req[r])),
           n.num_background = k.num_background + One(Backs(n.req[r]))
                              - One(Backs(k.req[r])),
           n.connected /\ ~Alive(n.req[INIT]) =>
               (n.blocked <=> n.num_background >= FUSE_MAX_BACKGROUND)
    PROVE  NumbersTrue(n, tl)
<1>1. \A x \in Reqs \ {r} : n.req[x] = k.req[x]
    BY DEF FcElse
<1>. DEFINE a == One(Waits(n.req[r]))
            b == One(Waits(k.req[r]))
            c == One(Backs(n.req[r]))
            f == One(Backs(k.req[r]))
<1>2. a \in Int /\ b \in Int /\ c \in Int /\ f \in Int
    BY DEF One
<1>3. /\ Cardinality(WaitingReqs(k)) \in Nat
      /\ Cardinality(WaitingReqs(n)) = Cardinality(WaitingReqs(k)) + a - b
      /\ Cardinality(BackgroundReqs(k)) \in Nat
      /\ Cardinality(BackgroundReqs(n)) = Cardinality(BackgroundReqs(k)) + c - f
    BY <1>1, ReqsCount
<1>4. n.num_waiting = k.num_waiting + d + a - b /\ n.num_background = k.num_background + c - f
    OBVIOUS
<1>. HIDE DEF a, b, c, f
<1>5. k.num_waiting = Cardinality(Getting(tk)) + Cardinality(WaitingReqs(k))
      /\ k.num_background = Cardinality(BackgroundReqs(k))
    BY DEF NumbersTrue
<1>6. n.num_waiting = Cardinality(Getting(tl)) + Cardinality(WaitingReqs(n))
    BY <1>2, <1>3, <1>4, <1>5
<1>7. n.num_background = Cardinality(BackgroundReqs(n))
    BY <1>2, <1>3, <1>4, <1>5
<1>. QED  BY <1>6, <1>7 DEF NumbersTrue

\* The tasks that ask for a request.
LEMMA GettingSame ==
    ASSUME NEW tk
    PROVE  /\ Cardinality(Getting(tk)) \in Nat
           /\ Cardinality(Getting(tk)) = Cardinality(Getting(tk)) + 0
    BY DevAssumption, FS_Subset, FS_CardinalityType DEF Getting

\* A step that leaves a request as much alive as it was, and as it counts.
LEMMA CalmAccounts ==
    ASSUME NEW k \in FcRec, NEW tk, InitFirst(k), NumbersTrue(k, tk),
           NEW n \in FcRec, NEW tl, NEW r \in Reqs, FcElse(k, n, r),
           n.connected = k.connected, n.nreq = k.nreq, SameNumbers(k, n),
           Cardinality(Getting(tl)) = Cardinality(Getting(tk)),
           k.req[r].state # "none", n.req[r].state # "none",
           Alive(n.req[r]) <=> Alive(k.req[r]),
           n.req[r].waiting = k.req[r].waiting, n.req[r].ended = k.req[r].ended,
           n.req[r].background = k.req[r].background,
           \/ n.req[r].end = k.req[r].end
           \/ ~k.connected /\ n.req[r].end = "none"
    PROVE  Accounts(k, n, tl)
<1>1. INIT \in Reqs
    BY DevAssumption DEF Reqs, INIT
<1>2. r =< n.nreq /\ k.nreq =< n.nreq
    <2>1. r \in Int /\ k.nreq \in Int
        BY DEF FcRec, Reqs
    <2>. QED  BY <2>1 DEF InitFirst
<1>3. Alive(n.req[INIT]) <=> Alive(k.req[INIT])
    BY <1>1 DEF FcElse
<1>4. InitFirst(n) /\ (Late(k) => Late(n))
    <2>1. r = INIT /\ Alive(n.req[r]) => Alive(k.req[r]) /\ n.req[r].background
        BY DEF InitFirst
    <2>2. n.connected /\ Alive(n.req[INIT]) =>
                /\ n.blocked
                /\ IF r = INIT THEN n.req[r].end = "init" ELSE ~Alive(n.req[r])
        BY <1>3 DEF InitFirst, SameNumbers
    <2>3. n.req[r].end = k.req[r].end \/ n.req[r].end # "init"
        OBVIOUS
    <2>. QED  BY <1>2, <2>1, <2>2, <2>3, InitKept
<1>5. Waits(n.req[r]) <=> Waits(k.req[r])
    BY DEF Waits
<1>6. Backs(n.req[r]) <=> Backs(k.req[r])
    BY DEF Backs
<1>7. n.num_waiting = k.num_waiting + 0 + One(Waits(n.req[r])) - One(Waits(k.req[r]))
    BY <1>5 DEF One, SameNumbers, FcRec
<1>8. n.num_background = k.num_background + One(Backs(n.req[r])) - One(Backs(k.req[r]))
    BY <1>6 DEF One, SameNumbers, FcRec
<1>9. n.connected /\ ~Alive(n.req[INIT]) =>
               (n.blocked <=> n.num_background >= FUSE_MAX_BACKGROUND)
    BY <1>3 DEF NumbersTrue, SameNumbers
<1>10. Cardinality(Getting(tk)) \in Nat /\ 0 \in Int
       /\ Cardinality(Getting(tl)) = Cardinality(Getting(tk)) + 0
    BY GettingSame
<1>11. NumbersTrue(n, tl)
    BY ONLY <1>7, <1>8, <1>9, <1>10, NumbersKept, k \in FcRec, n \in FcRec,
            NumbersTrue(k, tk), r \in Reqs, FcElse(k, n, r)
<1>. QED  BY <1>4, <1>11 DEF Accounts

\* A request is freed that was not in the background any more.
LEMMA FreedAccounts ==
    ASSUME NEW k \in FcRec, NEW tk, InitFirst(k), NumbersTrue(k, tk),
           NEW n \in FcRec, NEW tl, NEW r \in Reqs, FcElse(k, n, r),
           n.connected = k.connected, k.nreq =< n.nreq, r =< n.nreq,
           NEW d \in Int, Cardinality(Getting(tl)) = Cardinality(Getting(tk)) + d,
           n.req[r] = Freed, ~Backs(k.req[r]),
           n.num_background = k.num_background,
           n.num_waiting = k.num_waiting + d - One(Waits(k.req[r])),
           k.connected => n.blocked = k.blocked /\ ~(r = INIT /\ Alive(k.req[r]))
    PROVE  Accounts(k, n, tl)
<1>1. INIT \in Reqs
    BY DevAssumption DEF Reqs, INIT
<1>2. ~Alive(n.req[r]) /\ ~Waits(n.req[r]) /\ ~Backs(n.req[r])
      /\ n.req[r].state # "none" /\ n.req[r].end # "init"
    BY FixedReqs DEF Alive, Waits, Backs
<1>3. n.connected => (Alive(n.req[INIT]) <=> Alive(k.req[INIT]))
    BY <1>1, <1>2 DEF FcElse
<1>4. InitFirst(n) /\ (Late(k) => Late(n))
    <2>1. n.connected /\ Alive(n.req[INIT]) =>
                /\ n.blocked
                /\ IF r = INIT THEN n.req[r].end = "init" ELSE ~Alive(n.req[r])
        BY <1>2, <1>3 DEF InitFirst
    <2>. QED  BY <1>2, <2>1, InitKept
<1>5. One(Waits(n.req[r])) = 0 /\ One(Backs(n.req[r])) = 0 /\ One(Backs(k.req[r])) = 0
      /\ One(Waits(k.req[r])) \in Int /\ k.num_waiting \in Int /\ k.num_background \in Int
    BY <1>2 DEF One, FcRec
<1>7. n.num_waiting = k.num_waiting + d + One(Waits(n.req[r])) - One(Waits(k.req[r]))
    BY <1>5
<1>8. n.num_background = k.num_background + One(Backs(n.req[r])) - One(Backs(k.req[r]))
    BY <1>5
<1>9. n.connected /\ ~Alive(n.req[INIT]) =>
               (n.blocked <=> n.num_background >= FUSE_MAX_BACKGROUND)
    BY <1>3 DEF NumbersTrue
<1>10. Cardinality(Getting(tk)) \in Nat
    BY GettingSame
<1>11. NumbersTrue(n, tl)
    BY ONLY <1>7, <1>8, <1>9, <1>10, NumbersKept, k \in FcRec, n \in FcRec, d \in Int,
            Cardinality(Getting(tl)) = Cardinality(Getting(tk)) + d,
            NumbersTrue(k, tk), r \in Reqs, FcElse(k, n, r)
<1>. QED  BY <1>4, <1>11 DEF Accounts

\* request_end is called; INIT has no other reference as long as the
\* connection lasts.
LEMMA EndedAccounts ==
    ASSUME NEW k \in FcRec, NEW tk, InitFirst(k), NumbersTrue(k, tk),
           NEW n \in FcRec, NEW r \in Reqs, FcElse(k, n, r),
           n.connected = k.connected, k.nreq = n.nreq,
           Alive(k.req[r]), ~k.req[r].ended,
           k.req[r].count = 1 => n.req[r] = Freed,
           k.req[r].count # 1 =>
                /\ n.req[r].state = "finished" /\ n.req[r].ended /\ n.req[r].end = "none"
                /\ n.req[r].waiting = k.req[r].waiting
                /\ n.req[r].background = k.req[r].background,
           n.num_waiting = k.num_waiting - One(k.req[r].count = 1 /\ k.req[r].waiting),
           n.num_background = k.num_background - One(k.req[r].background),
           n.blocked <=> /\ k.blocked /\ k.req[r].end # "init"
                         /\ ~(k.req[r].background
                                /\ k.num_background = FUSE_MAX_BACKGROUND),
           k.connected /\ r = INIT => k.req[r].count = 1
    PROVE  Accounts(k, n, tk)
<1>1. INIT \in Reqs /\ FUSE_MAX_BACKGROUND \in Nat \ {0}
    BY DevAssumption DEF Reqs, INIT
<1>2. /\ ~Backs(n.req[r]) /\ n.req[r].state # "none" /\ n.req[r].end # "init"
      /\ Waits(n.req[r]) <=> k.req[r].count # 1 /\ Waits(k.req[r])
      /\ Backs(k.req[r]) <=> k.req[r].background
      /\ Waits(k.req[r]) <=> k.req[r].waiting
    BY FixedReqs DEF Alive, Waits, Backs
<1>3. r =< n.nreq /\ k.nreq =< n.nreq
    <2>1. r \in Int /\ k.nreq \in Int
        BY DEF FcRec, Reqs
    <2>. QED  BY <2>1 DEF InitFirst, Alive
<1>4. InitFirst(n) /\ (Late(k) => Late(n))
    <2>1. n.connected /\ Alive(n.req[INIT]) =>
                /\ n.blocked
                /\ IF r = INIT THEN n.req[r].end = "init" ELSE ~Alive(n.req[r])
        BY <1>1, FixedReqs DEF InitFirst, FcElse, Alive
    <2>2. r = INIT /\ Alive(n.req[r]) => Alive(k.req[r]) /\ n.req[r].background
        BY FixedReqs DEF InitFirst, Alive
    <2>. QED  BY <1>2, <1>3, <2>1, <2>2, InitKept
<1>5. k.num_waiting \in Int /\ k.num_background \in Int
    BY DEF FcRec
<1>7. n.num_waiting = k.num_waiting + 0 + One(Waits(n.req[r])) - One(Waits(k.req[r]))
    BY <1>2, <1>5 DEF One
<1>8. n.num_background = k.num_background + One(Backs(n.req[r])) - One(Backs(k.req[r]))
    BY <1>2, <1>5 DEF One
<1>10. Cardinality(Getting(tk)) \in Nat /\ 0 \in Int
       /\ Cardinality(Getting(tk)) = Cardinality(Getting(tk)) + 0
    BY GettingSame
<1>9. ASSUME n.connected, ~Alive(n.req[INIT])
      PROVE  n.blocked <=> n.num_background >= FUSE_MAX_BACKGROUND
    <2>1. CASE r # INIT
        <3>1. ~Alive(k.req[INIT]) /\ k.req[r].end # "init"
            BY <1>1, <1>9, <2>1 DEF FcElse, InitFirst
        <3>2. k.blocked <=> k.num_background >= FUSE_MAX_BACKGROUND
            BY <1>9, <3>1 DEF NumbersTrue
        <3>3. CASE k.req[r].background
            <4>1. n.num_background = k.num_background - 1
                BY <3>3 DEF One
            <4>2. n.blocked <=> k.blocked /\ ~(k.num_background = FUSE_MAX_BACKGROUND)
                BY <3>1, <3>3
            <4>. QED  BY <1>1, <1>5, <3>2, <4>1, <4>2
        <3>4. CASE ~k.req[r].background
            <4>1. n.num_background = k.num_background
                BY <1>5, <3>4 DEF One
            <4>2. n.blocked <=> k.blocked
                BY <3>1, <3>4
            <4>. QED  BY <3>2, <4>1, <4>2
        <3>. QED  BY <3>3, <3>4
    <2>2. CASE r = INIT
        <3>1. ~n.blocked /\ \A y \in Reqs : y # INIT => ~Alive(n.req[y])
            BY <1>9, <2>2 DEF InitFirst, FcElse
        <3>2. BackgroundReqs(n) = {}
            BY <1>9, <3>1 DEF BackgroundReqs, Backs
        <3>3. n.num_background = 0
            <4>1. \A x \in Reqs \ {r} : n.req[x] = k.req[x]
                BY DEF FcElse
            <4>2. /\ Cardinality(BackgroundReqs(k)) \in Nat
                  /\ Cardinality(BackgroundReqs(n)) = Cardinality(BackgroundReqs(k))
                         + One(Backs(n.req[r])) - One(Backs(k.req[r]))
                BY <4>1, ReqsCount
            <4>3. k.num_background = Cardinality(BackgroundReqs(k))
                BY DEF NumbersTrue
            <4>. QED  BY <1>8, <3>2, <4>2, <4>3, FS_EmptySet
        <3>. QED  BY <1>1, <3>1, <3>3
    <2>. QED  BY <2>1, <2>2
<1>11. NumbersTrue(n, tk)
    BY ONLY <1>7, <1>8, <1>9, <1>10, NumbersKept, k \in FcRec, n \in FcRec,
            NumbersTrue(k, tk), r \in Reqs, FcElse(k, n, r)
<1>. QED  BY <1>4, <1>11 DEF Accounts

\* A request other than INIT is made or sent, once INIT is answered.
LEMMA StartedAccounts ==
    ASSUME NEW k \in FcRec, NEW tk, InitFirst(k), NumbersTrue(k, tk), Late(k),
           NEW n \in FcRec, NEW tl, NEW r \in Reqs, r # INIT, FcElse(k, n, r),
           n.connected = k.connected, k.nreq =< n.nreq, r =< n.nreq,
           NEW d \in Int, Cardinality(Getting(tl)) = Cardinality(Getting(tk)) + d,
           n.req[r].state # "none", n.req[r].end # "init",
           n.num_waiting = k.num_waiting + d + One(Waits(n.req[r]))
                           - One(Waits(k.req[r])),
           n.num_background = k.num_background + One(Backs(n.req[r]))
                              - One(Backs(k.req[r])),
           \/ n.blocked = k.blocked /\ n.num_background = k.num_background
           \/ /\ n.num_background = k.num_background + 1
              /\ n.blocked <=> k.blocked \/ n.num_background = FUSE_MAX_BACKGROUND
    PROVE  Accounts(k, n, tl)
<1>1. INIT \in Reqs /\ FUSE_MAX_BACKGROUND \in Nat \ {0} /\ k.num_background \in Int
    BY DevAssumption DEF Reqs, INIT, FcRec
<1>2. n.req[INIT] = k.req[INIT]
    BY <1>1 DEF FcElse
<1>3. InitFirst(n) /\ (Late(k) => Late(n))
    <2>1. ~(n.connected /\ Alive(n.req[INIT]))
        BY <1>2 DEF Late
    <2>. QED  BY <2>1, InitKept
<1>9. ASSUME n.connected, ~Alive(n.req[INIT])
      PROVE  n.blocked <=> n.num_background >= FUSE_MAX_BACKGROUND
    <2>1. k.blocked <=> k.num_background >= FUSE_MAX_BACKGROUND
        BY <1>2, <1>9 DEF NumbersTrue
    <2>2. CASE n.blocked = k.blocked /\ n.num_background = k.num_background
        BY <2>1, <2>2
    <2>3. CASE /\ n.num_background = k.num_background + 1
               /\ n.blocked <=> k.blocked \/ n.num_background = FUSE_MAX_BACKGROUND
        BY <1>1, <2>1, <2>3
    <2>. QED  BY <2>2, <2>3
<1>10. Cardinality(Getting(tk)) \in Nat
    BY GettingSame
<1>11. NumbersTrue(n, tl)
    BY <1>9, <1>10, NumbersKept
<1>. QED  BY <1>3, <1>11 DEF Accounts

(***************************************************************************)
(* The steps of a task                                                     *)
(***************************************************************************)
\* What the invariant says of a task that is in a call, and of its request.
LEMMA TaskKnown ==
    ASSUME NEW k, NEW tk, NEW sv, NEW h, NEW e, Good(k, tk, sv, h, e),
           NEW t \in Tasks, tk[t].pc # "idle"
    PROVE  LET r == tk[t].req
               v == View(k, tk, sv, h, e, r)
           IN  /\ r \in Reqs /\ Shows(v, k, tk, sv, h, e, r) /\ Sound(v)
               /\ v.task = tk[t].pc /\ tk[t] \in TaskRec
               /\ k \in FcRec /\ tk \in [Tasks -> TaskRec] /\ TasksFit(k, tk)
               /\ ListsOnce(k) /\ InitFirst(k) /\ NumbersTrue(k, tk)
<1>1. tk[t].req # 0 /\ tk[t] \in TaskRec
    BY DEF Good, TasksFit, Types
<1>2. tk[t].req \in Reqs
    BY <1>1 DEF TaskRec
<1>3. TaskPc(tk, tk[t].req) = tk[t].pc
    BY <1>1, TaskPcIs DEF Good
<1>. QED  BY <1>1, <1>2, <1>3, ViewShows DEF Good, ReqsSound, Types, Shows

\* The records of a task that goes on or returns.
LEMMA TaskUpdates ==
    ASSUME NEW c \in TaskRec, NEW pc \in {"idle", "get", "reserved"} \cup WaitPcs
    PROVE  /\ [c EXCEPT !.pc = pc] \in TaskRec
           /\ [c EXCEPT !.pc = pc].pc = pc /\ [c EXCEPT !.pc = pc].req = c.req
           /\ Idle \in TaskRec /\ Idle.pc = "idle" /\ Idle.req = 0
<1>1. /\ [c EXCEPT !.pc = pc] \in TaskRec
      /\ [c EXCEPT !.pc = pc].pc = pc /\ [c EXCEPT !.pc = pc].req = c.req
    BY DEF TaskRec
<1>2. Idle \in TaskRec /\ Idle.pc = "idle" /\ Idle.req = 0
    BY DEF Idle, TaskRec
<1>. QED  BY <1>1, <1>2

\* A task that goes on with its request, or leaves it.
TaskWent(tk, tl, t, pc) ==
    \/ pc # "idle" /\ tl = [tk EXCEPT ![t].pc = pc]
    \/ pc = "idle" /\ tl = [tk EXCEPT ![t] = Idle]

\* A task goes on to another place with the same request.
LEMMA TaskGoes ==
    ASSUME NEW k \in FcRec, NEW tk \in [Tasks -> TaskRec], TasksFit(k, tk),
           NEW t \in Tasks, tk[t].pc # "idle", NEW n, n.nreq = k.nreq,
           NEW tl, NEW pc \in {"idle", "get", "reserved"} \cup WaitPcs,
           TaskWent(tk, tl, t, pc)
    PROVE  /\ tl \in [Tasks -> TaskRec] /\ TasksFit(n, tl)
           /\ TaskElse(tk, tl, tk[t].req)
           /\ TaskPc(tl, tk[t].req) = IF pc = "idle" THEN "none" ELSE pc
           /\ pc # "reserved" => Reserving(tk, tl, n)
           /\ Late(n) => Reserving(tk, tl, n)
           /\ Cardinality(Getting(tl)) = Cardinality(Getting(tk))
                  + (One(pc \in {"get", "reserved"}) - One(Wants(tk[t])))
<1>. DEFINE r == tk[t].req
            to == IF pc = "idle" THEN Idle ELSE [tk[t] EXCEPT !.pc = pc]
<1>1. tk[t] \in TaskRec /\ r # 0 /\ r =< k.nreq
    BY DEF TasksFit
<1>2. k.nreq \in Int /\ n.nreq \in Int /\ r \in Int /\ k.nreq =< n.nreq /\ 0 =< n.nreq
    BY <1>1 DEF FcRec, Reqs, TaskRec
<1>3. to \in TaskRec /\ to.pc = pc /\ to.req = IF pc = "idle" THEN 0 ELSE r
    BY <1>1, TaskUpdates
<1>4. tl = [tk EXCEPT ![t] = to]
    BY DEF TaskWent
<1>. HIDE DEF to
<1>5. TaskMoved(k, tk, n, tl, t, to)
    BY <1>1, <1>2, <1>3, <1>4, TaskMoves
<1>6. TaskElse(tk, tl, r)
    BY <1>3, <1>5 DEF TaskMoved, TaskElse, Reqs
<1>7. TaskPc(tl, r) = IF pc = "idle" THEN "none" ELSE pc
    BY <1>1, <1>3, <1>5 DEF TaskMoved
<1>8. /\ pc # "reserved" => Reserving(tk, tl, n)
      /\ Late(n) => Reserving(tk, tl, n)
    BY <1>3, <1>5 DEF TaskMoved, Reserving
<1>9. Wants(tl[t]) <=> pc \in {"get", "reserved"}
    BY <1>3, <1>5 DEF TaskMoved, Wants
<1>10. /\ Cardinality(Getting(tk)) \in Nat /\ Cardinality(Getting(tl)) \in Nat
       /\ Cardinality(Getting(tl)) =
              Cardinality(Getting(tk)) + One(Wants(tl[t])) - One(Wants(tk[t]))
    BY <1>5, GettingCount DEF TaskMoved
<1>11. One(Wants(tl[t])) = One(pc \in {"get", "reserved"}) /\ One(Wants(tk[t])) \in Int
       /\ One(Wants(tl[t])) \in Int
    BY <1>9 DEF One
<1>12. Cardinality(Getting(tl)) = Cardinality(Getting(tk))
                  + (One(pc \in {"get", "reserved"}) - One(Wants(tk[t])))
    BY <1>10, <1>11
<1>. QED  BY <1>5, <1>6, <1>7, <1>8, <1>12 DEF TaskMoved

\* The same, and what it takes for the invariant to hold after it.
LEMMA TaskStepped ==
    ASSUME NEW k, NEW tk, NEW sv, NEW h, NEW e, Good(k, tk, sv, h, e),
           NEW t \in Tasks, tk[t].pc # "idle",
           NEW n, OnlyReq(k, n, tk[t].req), FcElse(k, n, tk[t].req), ListsOnce(n),
           NEW tl, NEW pc \in {"idle", "get", "reserved"} \cup WaitPcs,
           TaskWent(tk, tl, t, pc)
    PROVE  LET r == tk[t].req
               w == View(n, tl, sv, h, e, r)
           IN  /\ Shows(w, n, tl, sv, h, e, r)
               /\ w.task = IF pc = "idle" THEN "none" ELSE pc
               /\ LikeView({"q", "task", "pending", "io", "processing", "interrupts"},
                           View(k, tk, sv, h, e, r), w)
               /\ Cardinality(Getting(tl)) = Cardinality(Getting(tk))
                     + (One(pc \in {"get", "reserved"}) - One(Wants(tk[t])))
               /\ /\ Sound(w) /\ Accounts(k, n, tl) /\ (pc # "reserved" \/ Late(n))
                  => Good(n, tl, sv, h, e)
<1>. DEFINE r == tk[t].req
            v == View(k, tk, sv, h, e, r)
            w == View(n, tl, sv, h, e, r)
<1>1. /\ r \in Reqs /\ Shows(v, k, tk, sv, h, e, r)
      /\ k \in FcRec /\ tk \in [Tasks -> TaskRec] /\ TasksFit(k, tk)
    BY TaskKnown
<1>2. n \in FcRec /\ n.connected = k.connected /\ n.nreq = k.nreq
    BY DEF OnlyReq
<1>3. /\ tl \in [Tasks -> TaskRec] /\ TasksFit(n, tl)
      /\ TaskElse(tk, tl, r)
      /\ TaskPc(tl, r) = IF pc = "idle" THEN "none" ELSE pc
      /\ pc # "reserved" => Reserving(tk, tl, n)
      /\ Late(n) => Reserving(tk, tl, n)
      /\ Cardinality(Getting(tl)) = Cardinality(Getting(tk))
             + (One(pc \in {"get", "reserved"}) - One(Wants(tk[t])))
    BY <1>1, <1>2, TaskGoes
<1>4. Types(n, tl, sv, h, e)
    BY <1>2, <1>3 DEF Good, Types
<1>5. Shows(w, n, tl, sv, h, e, r)
    BY <1>1, <1>3, <1>4, ViewShows
<1>6. EnderFits(n, e) /\ ServersFit(sv)
    BY <1>2 DEF Good, EnderFits
<1>7. ASSUME Sound(w), Accounts(k, n, tl), pc # "reserved" \/ Late(n)
      PROVE  Good(n, tl, sv, h, e)
    <2>1. ServerElse(sv, sv, r) /\ HeldElse(h, h, r) /\ EnderElse(e, e, r)
        BY ElseSame
    <2>2. Reserving(tk, tl, n)
        BY <1>3, <1>7
    <2>. QED  BY <1>1, <1>3, <1>4, <1>6, <1>7, <2>1, <2>2, Stepped
<1>. HIDE DEF v, w
<1>8. LikeView({"q", "task", "pending", "io", "processing", "interrupts"}, v, w)
    BY <1>1, <1>5 DEF Shows, LikeView
<1>. USE DEF v, w
<1>. QED  BY <1>3, <1>5, <1>7, <1>8 DEF Shows

\* Goto of a task, with no change of the connection.
LEMMA GotoGood ==
    ASSUME NEW k, NEW tk, NEW sv, NEW h, NEW e, Good(k, tk, sv, h, e),
           NEW t \in Tasks, NEW pc, NEW tl, tl = [tk EXCEPT ![t].pc = pc],
           LET q == k.req[tk[t].req]
           IN  \/ tk[t].pc = "get" /\ pc = "reserved" /\ Late(k)
               \/ /\ tk[t].pc \in {"wait1", "wait2"} /\ q.state = "finished"
                  /\ pc = IF q.aborted THEN "unlocked" ELSE "put"
               \/ /\ tk[t].pc = "unlocked" /\ ~q.locked /\ q.state # "pending"
                  /\ pc = AfterAbort(q.state)
               \/ tk[t].pc = "answered" /\ q.state = "finished" /\ pc = "put"
    PROVE  Good(k, tl, sv, h, e)
<1>. DEFINE r == tk[t].req
            v == View(k, tk, sv, h, e, r)
            w == View(k, tl, sv, h, e, r)
<1>1. tk[t].pc # "idle" /\ pc \in {"get", "reserved"} \cup WaitPcs /\ pc # "idle"
    BY DEF AfterAbort, WaitPcs
<1>2. /\ r \in Reqs /\ Shows(v, k, tk, sv, h, e, r) /\ Sound(v)
      /\ v.task = tk[t].pc /\ k \in FcRec /\ ListsOnce(k) /\ InitFirst(k)
      /\ NumbersTrue(k, tk)
    BY <1>1, TaskKnown
<1>3. OnlyReq(k, k, r) /\ FcElse(k, k, r)
    BY <1>2 DEF OnlyReq, FcElse
<1>4. TaskWent(tk, tl, t, pc)
    BY <1>1 DEF TaskWent
<1>5. /\ Shows(w, k, tl, sv, h, e, r) /\ w.task = pc
      /\ LikeView({"q", "task", "pending", "io", "processing", "interrupts"}, v, w)
      /\ Cardinality(Getting(tl)) = Cardinality(Getting(tk))
             + (One(pc \in {"get", "reserved"}) - One(Wants(tk[t])))
      /\ Sound(w) /\ Accounts(k, k, tl) /\ (pc # "reserved" \/ Late(k))
            => Good(k, tl, sv, h, e)
    BY <1>1, <1>2, <1>3, <1>4, TaskStepped
<1>. HIDE DEF v, w
<1>6. LikeView({"task"}, v, w)
    BY <1>2, <1>5 DEF LikeView, Shows
<1>7. Sound(w)
    <2>1. v.q = k.req[r] /\ v \in ViewRec
        BY <1>2 DEF Shows
    <2>. QED  BY <1>2, <1>5, <1>6, <2>1, ViewGoto
<1>8. Wants(tk[t]) <=> pc \in {"get", "reserved"}
    BY DEF Wants, AfterAbort
<1>9. Cardinality(Getting(tl)) = Cardinality(Getting(tk))
    <2>1. One(pc \in {"get", "reserved"}) - One(Wants(tk[t])) = 0
        BY <1>8 DEF One
    <2>. QED  BY <1>5, <2>1, GettingSame
<1>10. NumbersTrue(k, tl)
    BY <1>2, <1>9 DEF NumbersTrue
<1>11. Accounts(k, k, tl)
    BY <1>2, <1>10 DEF Accounts
<1>12. pc # "reserved" \/ Late(k)
    BY DEF AfterAbort
<1>. QED  BY <1>5, <1>7, <1>11, <1>12

\* The lists are as they were.
LEMMA QueuesElse ==
    ASSUME NEW k, NEW n, NEW r, OnlyReq(k, n, r), SameQueues(k, n), ListsOnce(k)
    PROVE  FcElse(k, n, r) /\ ListsOnce(n)
    BY DEF OnlyReq, SameQueues, FcElse, ListsOnce

\* A step of a task that counts its request as before.
CalmReq(q, p) ==
    /\ p.state # "none" /\ q.state # "none" /\ (Alive(p) <=> Alive(q))
    /\ p.waiting = q.waiting /\ p.ended = q.ended /\ p.background = q.background
    /\ p.end = q.end

\* A step of a task that changes no count keeps the invariant if the view of
\* its request stays sound.
LEMMA CalmTask ==
    ASSUME NEW k, NEW tk, NEW sv, NEW h, NEW e, Good(k, tk, sv, h, e),
           NEW t \in Tasks, tk[t].pc \in WaitPcs,
           NEW n, OnlyReq(k, n, tk[t].req), FcElse(k, n, tk[t].req), ListsOnce(n),
           SameNumbers(k, n), CalmReq(k.req[tk[t].req], n.req[tk[t].req]),
           NEW tl, NEW pc \in {"idle"} \cup WaitPcs, TaskWent(tk, tl, t, pc)
    PROVE  LET r == tk[t].req
               v == View(k, tk, sv, h, e, r)
               w == View(n, tl, sv, h, e, r)
           IN  /\ Shows(w, n, tl, sv, h, e, r)
               /\ w.task = IF pc = "idle" THEN "none" ELSE pc
               /\ LikeView({"q", "task", "pending", "io", "processing", "interrupts"}, v, w)
               /\ Sound(w) => Good(n, tl, sv, h, e)
<1>. DEFINE r == tk[t].req
            v == View(k, tk, sv, h, e, r)
            w == View(n, tl, sv, h, e, r)
<1>1. /\ tk[t].pc # "idle" /\ tk[t].pc \notin {"get", "reserved"}
      /\ pc \notin {"get", "reserved"} /\ pc \in {"idle", "get", "reserved"} \cup WaitPcs
    BY DEF WaitPcs
<1>2. /\ r \in Reqs /\ k \in FcRec /\ InitFirst(k) /\ NumbersTrue(k, tk)
    BY <1>1, TaskKnown
<1>3. n \in FcRec /\ n.connected = k.connected /\ n.nreq = k.nreq
    BY DEF OnlyReq
<1>4. /\ Shows(w, n, tl, sv, h, e, r)
      /\ w.task = IF pc = "idle" THEN "none" ELSE pc
      /\ LikeView({"q", "task", "pending", "io", "processing", "interrupts"}, v, w)
      /\ Cardinality(Getting(tl)) = Cardinality(Getting(tk))
             + (One(pc \in {"get", "reserved"}) - One(Wants(tk[t])))
      /\ Sound(w) /\ Accounts(k, n, tl) /\ (pc # "reserved" \/ Late(n))
            => Good(n, tl, sv, h, e)
    BY <1>1, TaskStepped
<1>5. Cardinality(Getting(tl)) = Cardinality(Getting(tk))
    <2>1. One(pc \in {"get", "reserved"}) - One(Wants(tk[t])) = 0
        BY <1>1 DEF One, Wants
    <2>. QED  BY <1>4, <2>1, GettingSame
<1>6. Accounts(k, n, tl)
    BY <1>2, <1>3, <1>5, CalmAccounts DEF CalmReq
<1>. HIDE DEF v, w
<1>. QED  BY <1>1, <1>4, <1>6 DEF v, w

\* request_send, refused.
LEMMA RefusedGood ==
    ASSUME NEW k, NEW tk, NEW sv, NEW h, NEW e, Good(k, tk, sv, h, e),
           NEW t \in Tasks, tk[t].pc = "send", NEW x \in {"ENOTCONN", "ECONNREFUSED"}
    PROVE  LET r == tk[t].req
               set == [k EXCEPT !.req[r].isreply = TRUE]
           IN  Good([set EXCEPT !.req[r].error = x], [tk EXCEPT ![t].pc = "put"], sv, h, e)
<1>. DEFINE r == tk[t].req
            q == [k.req[r] EXCEPT !.isreply = TRUE]
            p == [q EXCEPT !.error = x]
            set == [k EXCEPT !.req[r] = q]
            n == [k EXCEPT !.req[r] = p]
            tl == [tk EXCEPT ![t].pc = "put"]
            v == View(k, tk, sv, h, e, r)
            w == View(n, tl, sv, h, e, r)
<1>1. /\ r \in Reqs /\ Shows(v, k, tk, sv, h, e, r) /\ Sound(v)
      /\ v.task = "send" /\ k \in FcRec /\ ListsOnce(k)
    BY TaskKnown
<1>2. k.req[r] \in ReqRec
    BY <1>1 DEF FcRec
<1>3. Like({"isreply"}, k.req[r], q)
    BY <1>2, SetReply
<1>4. set = [k EXCEPT !.req[r].isreply = TRUE]
    BY <1>1 DEF FcRec
<1>. HIDE DEF q
<1>5. Like({"error"}, q, p) /\ p.error = x /\ q \in ReqRec
    <2>1. q \in ReqRec
        BY <1>3 DEF Like
    <2>2. x \in Errors
        BY DEF Errors
    <2>. QED  BY <2>1, <2>2, SetError
<1>6. [set EXCEPT !.req[r].error = x] = n
    <2>1. set \in FcRec /\ set.req[r] = q
        BY <1>1, <1>5, ReqReplaced DEF OnlyReq
    <2>2. [set EXCEPT !.req[r].error = x] = [set EXCEPT !.req[r] = p]
        <3>. HIDE DEF set
        <3>. QED  BY <2>1 DEF FcRec
    <2>3. [set EXCEPT !.req[r] = p] = n
        <3>. HIDE DEF p
        <3>. QED  BY <1>1 DEF FcRec
    <2>. QED  BY <2>2, <2>3
<1>7. Like({"isreply", "error"}, k.req[r], p) /\ p \in ReqRec
    BY <1>3, <1>5 DEF Like
<1>. HIDE DEF q, p
<1>8. OnlyReq(k, n, r) /\ n.req[r] = p /\ SameQueues(k, n) /\ SameNumbers(k, n)
    BY <1>1, <1>7, ReqReplaced
<1>. HIDE DEF n
<1>9. FcElse(k, n, r) /\ ListsOnce(n)
    BY <1>1, <1>8, QueuesElse
<1>10. CalmReq(k.req[r], n.req[r])
    <2>1. k.req[r].state = "init"
        BY <1>1 DEF Shows, Sound, Waited
    <2>. QED  BY <1>7, <1>8, <2>1 DEF CalmReq, Like, Alive
<1>11. TaskWent(tk, tl, t, "put")
    BY DEF TaskWent
<1>12. tk[t].pc \in WaitPcs /\ "put" \in {"idle"} \cup WaitPcs
    BY DEF WaitPcs
<1>13. /\ Shows(w, n, tl, sv, h, e, r) /\ w.task = "put"
       /\ LikeView({"q", "task", "pending", "io", "processing", "interrupts"}, v, w)
       /\ Sound(w) => Good(n, tl, sv, h, e)
    BY <1>8, <1>9, <1>10, <1>11, <1>12, CalmTask
<1>. HIDE DEF v, w
<1>14. LikeView({"q", "task"}, v, w)
    BY <1>1, <1>8, <1>13 DEF LikeView, Shows, SameQueues
<1>15. v.q = k.req[r] /\ w.q = p /\ v \in ViewRec
    BY <1>1, <1>8, <1>13 DEF Shows
<1>16. Sound(w)
    BY <1>1, <1>5, <1>7, <1>13, <1>14, <1>15, ViewRefused
<1>. QED  BY <1>4, <1>6, <1>13, <1>16

\* The record of a request is replaced.
LEMMA FcReqOf ==
    ASSUME NEW k \in FcRec, NEW r \in Reqs, NEW q \in ReqRec
    PROVE  LET n == [k EXCEPT !.req[r] = q]
           IN  /\ LikeFc({"req"}, k, n) /\ n.req[r] = q
               /\ \A x \in Reqs \ {r} : n.req[x] = k.req[x]
<1>. DEFINE f == [k.req EXCEPT ![r] = q]
            n == [k EXCEPT !.req = f]
<1>1. k.req \in [Reqs -> ReqRec]
    BY DEF FcRec
<1>2. f \in [Reqs -> ReqRec] /\ f[r] = q /\ \A x \in Reqs \ {r} : f[x] = k.req[x]
    BY <1>1
<1>3. n = [k EXCEPT !.req[r] = q]
    BY DEF FcRec
<1>. HIDE DEF f
<1>4. LikeFc({"req"}, k, n) /\ n.req = f
    BY <1>2, FcReq
<1>. QED  BY <1>2, <1>3, <1>4

\* queue_request.
LEMMA QueueRequest ==
    ASSUME NEW k \in FcRec, NEW r \in Reqs, ListsOnce(k), ~InList(k.pending, r)
    PROVE  LET n == queue_request(k, r)
               q == k.req[r]
           IN  /\ LikeFc({"pending", "req", "num_waiting"}, k, n)
               /\ \A x \in Reqs \ {r} : n.req[x] = k.req[x]
               /\ Like({"state", "waiting"}, q, n.req[r])
               /\ n.req[r].state = "pending" /\ n.req[r].waiting
               /\ n.num_waiting = k.num_waiting + One(~q.waiting)
               /\ Once(n.pending)
               /\ \A y : InList(n.pending, y) <=> InList(k.pending, y) \/ y = r
<1>. DEFINE q == k.req[r]
            a == Append(k.pending, r)
            o == [q EXCEPT !.state = "pending"]
            p == [o EXCEPT !.waiting = TRUE]
            m == IF q.waiting THEN k.num_waiting ELSE k.num_waiting + 1
            k1 == [k EXCEPT !.pending = a]
            k2 == [k1 EXCEPT !.req[r] = p]
            k3 == [k2 EXCEPT !.num_waiting = m]
<1>1. q \in ReqRec /\ k.num_waiting \in Int /\ k.pending \in Seq(Reqs) /\ Once(k.pending)
    BY DEF FcRec, ListsOnce
<1>2. a \in Seq(Reqs) /\ Once(a) /\ \A y : InList(a, y) <=> InList(k.pending, y) \/ y = r
    BY ONLY <1>1, r \in Reqs, ~InList(k.pending, r), AddedOnce
<1>3. m \in Int /\ m = k.num_waiting + One(~q.waiting)
    BY <1>1 DEF One
<1>4. queue_request(k, r) = k3
    BY DEF queue_request, FcRec
<1>. HIDE DEF a, m, q
<1>5. Like({"state"}, q, o) /\ o.state = "pending" /\ o \in ReqRec
    <2>1. "pending" \in States
        BY DEF States
    <2>2. Like({"state"}, q, o) /\ o.state = "pending"
        BY <1>1, <2>1, SetState
    <2>. QED  BY <2>2 DEF Like
<1>. HIDE DEF o
<1>6. Like({"waiting"}, o, p) /\ p.waiting
    BY <1>5, SetWaiting
<1>. HIDE DEF p
<1>7. Like({"state", "waiting"}, q, p) /\ p.state = "pending" /\ p \in ReqRec
    BY <1>5, <1>6 DEF Like
<1>8. LikeFc({"pending"}, k, k1) /\ k1.pending = a /\ k1 \in FcRec
    <2>1. LikeFc({"pending"}, k, k1) /\ k1.pending = a
        BY <1>2, FcPending
    <2>. QED  BY <2>1 DEF LikeFc
<1>. HIDE DEF k1
<1>9. /\ LikeFc({"req"}, k1, k2) /\ k2.req[r] = p /\ k2 \in FcRec
      /\ \A x \in Reqs \ {r} : k2.req[x] = k1.req[x]
    <2>1. /\ LikeFc({"req"}, k1, k2) /\ k2.req[r] = p
          /\ \A x \in Reqs \ {r} : k2.req[x] = k1.req[x]
        BY <1>7, <1>8, FcReqOf
    <2>. QED  BY <2>1 DEF LikeFc
<1>. HIDE DEF k2
<1>10. LikeFc({"num_waiting"}, k2, k3) /\ k3.num_waiting = m
    BY <1>3, <1>9, FcNumWaiting
<1>. HIDE DEF k3
<1>11. LikeFc({"pending", "req", "num_waiting"}, k, k3)
    BY <1>8, <1>9, <1>10 DEF LikeFc
<1>12. k3.pending = a /\ k3.req[r] = p /\ \A x \in Reqs \ {r} : k3.req[x] = k.req[x]
    BY <1>8, <1>9, <1>10 DEF LikeFc
<1>. QED  BY <1>2, <1>3, <1>4, <1>6, <1>7, <1>10, <1>11, <1>12 DEF q

\* queue_interrupt.
LEMMA QueueInterrupt ==
    ASSUME NEW k \in FcRec, NEW r \in Reqs, ListsOnce(k), ~InList(k.interrupts, r)
    PROVE  LET n == queue_interrupt(k, r)
           IN  /\ LikeFc({"interrupts"}, k, n) /\ Once(n.interrupts)
               /\ \A y : InList(n.interrupts, y) <=> InList(k.interrupts, y) \/ y = r
<1>. DEFINE a == Append(k.interrupts, r)
            n == [k EXCEPT !.interrupts = a]
<1>1. k.interrupts \in Seq(Reqs) /\ Once(k.interrupts)
    BY DEF FcRec, ListsOnce
<1>2. a \in Seq(Reqs) /\ Once(a) /\ \A y : InList(a, y) <=> InList(k.interrupts, y) \/ y = r
    BY ONLY <1>1, r \in Reqs, ~InList(k.interrupts, r), AddedOnce
<1>3. n = queue_interrupt(k, r)
    BY DEF queue_interrupt
<1>. HIDE DEF a
<1>4. LikeFc({"interrupts"}, k, n) /\ n.interrupts = a
    BY <1>2, FcInterrupts
<1>. QED  BY <1>2, <1>3, <1>4

\* A field of a request is set: the record is replaced by p.
ReqIs(k, n, r, p) ==
    /\ LikeFc({"req"}, k, n) /\ n.req[r] = p /\ n \in FcRec
    /\ \A x \in Reqs \ {r} : n.req[x] = k.req[x]

\* A new record for one request.
LEMMA OneReq ==
    ASSUME NEW k \in FcRec, NEW r \in Reqs, NEW p \in ReqRec, NEW n,
           n = [k EXCEPT !.req[r] = p]
    PROVE  ReqIs(k, n, r, p)
<1>1. LikeFc({"req"}, k, n) /\ n.req[r] = p /\ \A x \in Reqs \ {r} : n.req[x] = k.req[x]
    BY FcReqOf
<1>. QED  BY <1>1 DEF ReqIs, LikeFc

\* Its reply is wanted.
LEMMA ReplyReq ==
    ASSUME NEW k \in FcRec, NEW r \in Reqs
    PROVE  LET n == [k EXCEPT !.req[r].isreply = TRUE]
           IN  /\ ReqIs(k, n, r, n.req[r]) /\ Like({"isreply"}, k.req[r], n.req[r])
               /\ n.req[r].isreply
<1>. DEFINE q == k.req[r]
            p == [q EXCEPT !.isreply = TRUE]
            n == [k EXCEPT !.req[r] = p]
<1>1. n = [k EXCEPT !.req[r].isreply = TRUE] /\ q \in ReqRec
    BY DEF FcRec
<1>. HIDE DEF q
<1>2. Like({"isreply"}, q, p) /\ p.isreply /\ p \in ReqRec
    <2>1. Like({"isreply"}, q, p) /\ p.isreply
        BY <1>1, SetReply
    <2>. QED  BY <2>1 DEF Like
<1>. HIDE DEF p
<1>3. ReqIs(k, n, r, p)
    BY <1>2, OneReq
<1>. HIDE DEF n
<1>. QED  BY <1>1, <1>2, <1>3 DEF ReqIs, q

\* It gets an error.
LEMMA ErrorReq ==
    ASSUME NEW k \in FcRec, NEW r \in Reqs, NEW x \in Errors
    PROVE  LET n == [k EXCEPT !.req[r].error = x]
           IN  /\ ReqIs(k, n, r, n.req[r]) /\ Like({"error"}, k.req[r], n.req[r])
               /\ n.req[r].error = x
<1>. DEFINE q == k.req[r]
            p == [q EXCEPT !.error = x]
            n == [k EXCEPT !.req[r] = p]
<1>1. n = [k EXCEPT !.req[r].error = x] /\ q \in ReqRec
    BY DEF FcRec
<1>. HIDE DEF q
<1>2. Like({"error"}, q, p) /\ p.error = x /\ p \in ReqRec
    <2>1. Like({"error"}, q, p) /\ p.error = x
        BY <1>1, SetError
    <2>. QED  BY <2>1 DEF Like
<1>. HIDE DEF p
<1>3. ReqIs(k, n, r, p)
    BY <1>2, OneReq
<1>. HIDE DEF n
<1>. QED  BY <1>1, <1>2, <1>3 DEF ReqIs, q

\* It is locked or unlocked.
LEMMA LockedReq ==
    ASSUME NEW k \in FcRec, NEW r \in Reqs, NEW x \in BOOLEAN
    PROVE  LET n == [k EXCEPT !.req[r].locked = x]
           IN  /\ ReqIs(k, n, r, n.req[r]) /\ Like({"locked"}, k.req[r], n.req[r])
               /\ n.req[r].locked = x
<1>. DEFINE q == k.req[r]
            p == [q EXCEPT !.locked = x]
            n == [k EXCEPT !.req[r] = p]
<1>1. n = [k EXCEPT !.req[r].locked = x] /\ q \in ReqRec
    BY DEF FcRec
<1>. HIDE DEF q
<1>2. Like({"locked"}, q, p) /\ p.locked = x /\ p \in ReqRec
    <2>1. Like({"locked"}, q, p) /\ p.locked = x
        BY <1>1, SetLocked
    <2>. QED  BY <2>1 DEF Like
<1>. HIDE DEF p
<1>3. ReqIs(k, n, r, p)
    BY <1>2, OneReq
<1>. HIDE DEF n
<1>. QED  BY <1>1, <1>2, <1>3 DEF ReqIs, q

\* Its count changes.
LEMMA CountReq ==
    ASSUME NEW k \in FcRec, NEW r \in Reqs, NEW x \in {-1, 1}
    PROVE  LET n == [k EXCEPT !.req[r].count = k.req[r].count + x]
           IN  /\ ReqIs(k, n, r, n.req[r]) /\ Like({"count"}, k.req[r], n.req[r])
               /\ n.req[r].count = k.req[r].count + x
<1>. DEFINE q == k.req[r]
            c == q.count + x
            p == [q EXCEPT !.count = c]
            n == [k EXCEPT !.req[r] = p]
<1>1. n = [k EXCEPT !.req[r].count = c] /\ q \in ReqRec
    BY DEF FcRec
<1>2. c \in Int
    BY <1>1 DEF ReqRec
<1>. HIDE DEF q, c
<1>3. Like({"count"}, q, p) /\ p.count = c /\ p \in ReqRec
    <2>1. Like({"count"}, q, p) /\ p.count = c
        BY <1>1, <1>2, SetCount
    <2>. QED  BY <2>1 DEF Like
<1>. HIDE DEF p
<1>4. ReqIs(k, n, r, p)
    BY <1>3, OneReq
<1>. HIDE DEF n
<1>. QED  BY <1>1, <1>3, <1>4 DEF ReqIs, q, c

\* It is interrupted.
LEMMA InterruptedReq ==
    ASSUME NEW k \in FcRec, NEW r \in Reqs
    PROVE  LET n == [k EXCEPT !.req[r].interrupted = TRUE]
           IN  /\ ReqIs(k, n, r, n.req[r]) /\ Like({"interrupted"}, k.req[r], n.req[r])
               /\ n.req[r].interrupted
<1>. DEFINE q == k.req[r]
            p == [q EXCEPT !.interrupted = TRUE]
            n == [k EXCEPT !.req[r] = p]
<1>1. n = [k EXCEPT !.req[r].interrupted = TRUE] /\ q \in ReqRec
    BY DEF FcRec
<1>. HIDE DEF q
<1>2. Like({"interrupted"}, q, p) /\ p.interrupted /\ p \in ReqRec
    <2>1. Like({"interrupted"}, q, p) /\ p.interrupted
        BY <1>1, SetInterrupted
    <2>. QED  BY <2>1 DEF Like
<1>. HIDE DEF p
<1>3. ReqIs(k, n, r, p)
    BY <1>2, OneReq
<1>. HIDE DEF n
<1>. QED  BY <1>1, <1>2, <1>3 DEF ReqIs, q

\* It is aborted.
LEMMA AbortedReq ==
    ASSUME NEW k \in FcRec, NEW r \in Reqs
    PROVE  LET n == [k EXCEPT !.req[r].aborted = TRUE]
           IN  /\ ReqIs(k, n, r, n.req[r]) /\ Like({"aborted"}, k.req[r], n.req[r])
               /\ n.req[r].aborted
<1>. DEFINE q == k.req[r]
            p == [q EXCEPT !.aborted = TRUE]
            n == [k EXCEPT !.req[r] = p]
<1>1. n = [k EXCEPT !.req[r].aborted = TRUE] /\ q \in ReqRec
    BY DEF FcRec
<1>. HIDE DEF q
<1>2. Like({"aborted"}, q, p) /\ p.aborted /\ p \in ReqRec
    <2>1. Like({"aborted"}, q, p) /\ p.aborted
        BY <1>1, SetAborted
    <2>. QED  BY <2>1 DEF Like
<1>. HIDE DEF p
<1>3. ReqIs(k, n, r, p)
    BY <1>2, OneReq
<1>. HIDE DEF n
<1>. QED  BY <1>1, <1>2, <1>3 DEF ReqIs, q

\* Its reply was copied.
LEMMA CopiedReq ==
    ASSUME NEW k \in FcRec, NEW r \in Reqs
    PROVE  LET n == [k EXCEPT !.req[r].copied = TRUE]
           IN  /\ ReqIs(k, n, r, n.req[r]) /\ Like({"copied"}, k.req[r], n.req[r])
               /\ n.req[r].copied
<1>. DEFINE q == k.req[r]
            p == [q EXCEPT !.copied = TRUE]
            n == [k EXCEPT !.req[r] = p]
<1>1. n = [k EXCEPT !.req[r].copied = TRUE] /\ q \in ReqRec
    BY DEF FcRec
<1>. HIDE DEF q
<1>2. Like({"copied"}, q, p) /\ p.copied /\ p \in ReqRec
    <2>1. Like({"copied"}, q, p) /\ p.copied
        BY <1>1, SetCopied
    <2>. QED  BY <2>1 DEF Like
<1>. HIDE DEF p
<1>3. ReqIs(k, n, r, p)
    BY <1>2, OneReq
<1>. HIDE DEF n
<1>. QED  BY <1>1, <1>2, <1>3 DEF ReqIs, q

\* It is in the background.
LEMMA BackgroundReq ==
    ASSUME NEW k \in FcRec, NEW r \in Reqs
    PROVE  LET n == [k EXCEPT !.req[r].background = TRUE]
           IN  /\ ReqIs(k, n, r, n.req[r]) /\ Like({"background"}, k.req[r], n.req[r])
               /\ n.req[r].background
<1>. DEFINE q == k.req[r]
            p == [q EXCEPT !.background = TRUE]
            n == [k EXCEPT !.req[r] = p]
<1>1. n = [k EXCEPT !.req[r].background = TRUE] /\ q \in ReqRec
    BY DEF FcRec
<1>. HIDE DEF q
<1>2. Like({"background"}, q, p) /\ p.background /\ p \in ReqRec
    <2>1. Like({"background"}, q, p) /\ p.background
        BY <1>1, SetBackground
    <2>. QED  BY <2>1 DEF Like
<1>. HIDE DEF p
<1>3. ReqIs(k, n, r, p)
    BY <1>2, OneReq
<1>. HIDE DEF n
<1>. QED  BY <1>1, <1>2, <1>3 DEF ReqIs, q

\* It is in another state.
LEMMA StateReq ==
    ASSUME NEW k \in FcRec, NEW r \in Reqs,
           NEW x \in States
    PROVE  LET n == [k EXCEPT !.req[r].state = x]
           IN  /\ ReqIs(k, n, r, n.req[r]) /\ Like({"state"}, k.req[r], n.req[r])
               /\ n.req[r].state = x
<1>. DEFINE q == k.req[r]
            p == [q EXCEPT !.state = x]
            n == [k EXCEPT !.req[r] = p]
<1>1. n = [k EXCEPT !.req[r].state = x] /\ q \in ReqRec
    BY DEF FcRec
<1>. HIDE DEF q
<1>2. Like({"state"}, q, p) /\ p.state = x /\ p \in ReqRec
    <2>1. Like({"state"}, q, p) /\ p.state = x
        BY <1>1, SetState
    <2>. QED  BY <2>1 DEF Like
<1>. HIDE DEF p
<1>3. ReqIs(k, n, r, p)
    BY <1>2, OneReq
<1>. HIDE DEF n
<1>. QED  BY <1>1, <1>2, <1>3 DEF ReqIs, q

\* Its end function changes.
LEMMA EndReq ==
    ASSUME NEW k \in FcRec, NEW r \in Reqs,
           NEW x \in {"none", "init", "readpages"}
    PROVE  LET n == [k EXCEPT !.req[r].end = x]
           IN  /\ ReqIs(k, n, r, n.req[r]) /\ Like({"end"}, k.req[r], n.req[r])
               /\ n.req[r].end = x
<1>. DEFINE q == k.req[r]
            p == [q EXCEPT !.end = x]
            n == [k EXCEPT !.req[r] = p]
<1>1. n = [k EXCEPT !.req[r].end = x] /\ q \in ReqRec
    BY DEF FcRec
<1>. HIDE DEF q
<1>2. Like({"end"}, q, p) /\ p.end = x /\ p \in ReqRec
    <2>1. Like({"end"}, q, p) /\ p.end = x
        BY <1>1, SetEnd
    <2>. QED  BY <2>1 DEF Like
<1>. HIDE DEF p
<1>3. ReqIs(k, n, r, p)
    BY <1>2, OneReq
<1>. HIDE DEF n
<1>. QED  BY <1>1, <1>2, <1>3 DEF ReqIs, q

\* Such an assignment leaves the rest of the connection alone.
LEMMA ReqIsElse ==
    ASSUME NEW k, NEW n, NEW r, NEW p, ReqIs(k, n, r, p), ListsOnce(k)
    PROVE  /\ OnlyReq(k, n, r) /\ SameQueues(k, n) /\ SameNumbers(k, n)
           /\ FcElse(k, n, r) /\ ListsOnce(n) /\ n \in FcRec /\ n.req[r] = p
<1>1. OnlyReq(k, n, r) /\ SameQueues(k, n) /\ SameNumbers(k, n)
    BY DEF ReqIs, LikeFc, OnlyReq, SameQueues, SameNumbers
<1>. QED  BY <1>1, QueuesElse DEF ReqIs

\* request_send, queued.
LEMMA QueuedGood ==
    ASSUME NEW k, NEW tk, NEW sv, NEW h, NEW e, Good(k, tk, sv, h, e),
           NEW t \in Tasks, tk[t].pc = "send", NEW pc \in {"wait1", "wait2"}
    PROVE  LET r == tk[t].req
               set == [k EXCEPT !.req[r].isreply = TRUE]
           IN  Good(__fuse_get_request(queue_request(set, r), r),
                    [tk EXCEPT ![t].pc = pc], sv, h, e)
<1>. DEFINE r == tk[t].req
            q == k.req[r]
            set == [k EXCEPT !.req[r].isreply = TRUE]
            m == queue_request(set, r)
            n == __fuse_get_request(m, r)
            tl == [tk EXCEPT ![t].pc = pc]
            v == View(k, tk, sv, h, e, r)
            w == View(n, tl, sv, h, e, r)
<1>1. /\ r \in Reqs /\ Shows(v, k, tk, sv, h, e, r) /\ Sound(v)
      /\ v.task = "send" /\ k \in FcRec /\ ListsOnce(k) /\ InitFirst(k)
      /\ NumbersTrue(k, tk)
    BY TaskKnown
<1>. HIDE DEF v
<1>2. /\ q.state = "init" /\ ~InList(k.pending, r) /\ ~q.background /\ q \in ReqRec
      /\ ~q.aborted /\ r # INIT /\ Late(k) /\ q.end # "init" /\ v.q = q /\ v \in ViewRec
    <2>1. v.q.state = "init" /\ ~v.pending /\ ~v.q.background /\ ~v.q.aborted
        BY <1>1 DEF Shows, Sound, Waited, OnLists, WaitPcs
    <2>. QED  BY <1>1, <2>1 DEF Shows, InitFirst, Alive, Late
<1>3. ReqIs(k, set, r, set.req[r]) /\ Like({"isreply"}, q, set.req[r]) /\ set.req[r].isreply
    BY <1>1, ReplyReq
<1>4. TaskWent(tk, tl, t, pc)
    BY DEF TaskWent
<1>. HIDE DEF q, set, tl
<1>5. set \in FcRec /\ SameQueues(k, set) /\ ListsOnce(set) /\ OnlyReq(k, set, r)
      /\ SameNumbers(k, set)
    BY <1>1, <1>3, ReqIsElse
<1>6. ~InList(set.pending, r)
    BY <1>2, <1>5 DEF SameQueues
<1>7. /\ LikeFc({"pending", "req", "num_waiting"}, set, m)
      /\ \A x \in Reqs \ {r} : m.req[x] = set.req[x]
      /\ Like({"state", "waiting"}, set.req[r], m.req[r])
      /\ m.req[r].state = "pending" /\ m.req[r].waiting
      /\ m.num_waiting = set.num_waiting + One(~set.req[r].waiting)
      /\ Once(m.pending)
      /\ \A y : InList(m.pending, y) <=> InList(set.pending, y) \/ y = r
    BY <1>1, <1>5, <1>6, QueueRequest
<1>8. n = [m EXCEPT !.req[r].count = m.req[r].count + 1]
    BY DEF __fuse_get_request
<1>. HIDE DEF m
<1>9. m \in FcRec
    BY <1>7 DEF LikeFc
<1>10. ReqIs(m, n, r, n.req[r]) /\ Like({"count"}, m.req[r], n.req[r])
       /\ n.req[r].count = m.req[r].count + 1
    BY <1>1, <1>8, <1>9, CountReq
<1>. HIDE DEF n
<1>11. /\ Like({"isreply", "count", "state", "waiting"}, q, n.req[r])
       /\ n.req[r].isreply /\ n.req[r].count = q.count + 1 /\ n.req[r].state = "pending"
       /\ n.req[r].waiting
    <2>1. set.req[r].count \in Int
        BY <1>3 DEF Like, ReqRec
    <2>2. /\ n.req[r].isreply /\ n.req[r].count = q.count + 1
          /\ n.req[r].state = "pending" /\ n.req[r].waiting
        <3>1. set.req[r].count = q.count /\ set.req[r].isreply
            BY <1>3 DEF Like
        <3>2. m.req[r].count = q.count /\ m.req[r].isreply
            BY <1>7, <3>1 DEF Like
        <3>. QED  BY <1>7, <1>10, <3>2 DEF Like
    <2>3. Like({"isreply", "state", "waiting"}, q, m.req[r])
        BY <1>3, <1>7 DEF Like
    <2>4. Like({"isreply", "count", "state", "waiting"}, q, n.req[r])
        BY <1>10, <2>3 DEF Like
    <2>. QED  BY <2>2, <2>4
<1>12. OnlyReq(k, n, r)
    BY <1>5, <1>7, <1>10 DEF OnlyReq, LikeFc, ReqIs
<1>13. /\ n.io = k.io /\ n.processing = k.processing /\ n.interrupts = k.interrupts
       /\ n.blocked = k.blocked /\ n.num_background = k.num_background
       /\ Once(n.pending) /\ \A y : InList(n.pending, y) <=> InList(k.pending, y) \/ y = r
    BY <1>5, <1>7, <1>10 DEF SameQueues, SameNumbers, LikeFc, ReqIs
<1>14. FcElse(k, n, r) /\ ListsOnce(n)
    BY <1>1, <1>12, <1>13 DEF FcElse, OnlyReq, ListsOnce
<1>15. n.num_waiting = k.num_waiting + One(~q.waiting)
    BY <1>3, <1>5, <1>7, <1>10 DEF SameNumbers, LikeFc, ReqIs, Like
<1>16. tk[t].pc # "idle" /\ pc \in {"idle", "get", "reserved"} \cup WaitPcs /\ pc # "idle"
    BY DEF WaitPcs
<1>17. /\ Shows(w, n, tl, sv, h, e, r) /\ w.task = pc
       /\ LikeView({"q", "task", "pending", "io", "processing", "interrupts"}, v, w)
       /\ Cardinality(Getting(tl)) = Cardinality(Getting(tk))
              + (One(pc \in {"get", "reserved"}) - One(Wants(tk[t])))
       /\ Sound(w) /\ Accounts(k, n, tl) /\ (pc # "reserved" \/ Late(n))
             => Good(n, tl, sv, h, e)
    BY <1>4, <1>12, <1>14, <1>16, TaskStepped DEF v
<1>. HIDE DEF w
<1>18. LikeView({"q", "task", "pending"}, v, w) /\ w.pending /\ w.q = n.req[r]
    BY <1>1, <1>13, <1>17 DEF LikeView, Shows
<1>19. Sound(w)
    BY <1>1, <1>2, <1>11, <1>17, <1>18, ViewQueued
<1>20. Accounts(k, n, tl)
    <2>1. Cardinality(Getting(tl)) = Cardinality(Getting(tk)) + 0
        <3>1. One(pc \in {"get", "reserved"}) - One(Wants(tk[t])) = 0
            BY DEF One, Wants
        <3>. QED  BY <1>17, <3>1
    <2>2. /\ Backs(n.req[r]) = FALSE /\ Backs(q) = FALSE
          /\ Waits(n.req[r]) = TRUE /\ (Waits(q) <=> q.waiting)
        BY <1>2, <1>11 DEF Backs, Waits, Alive, Like
    <2>3. k.num_waiting \in Int /\ k.num_background \in Int
        BY <1>1 DEF FcRec
    <2>4. n.num_waiting = k.num_waiting + 0 + One(Waits(n.req[r])) - One(Waits(q))
        BY <1>15, <2>2, <2>3 DEF One
    <2>5. n.num_background = k.num_background + One(Backs(n.req[r])) - One(Backs(q))
        BY <1>13, <2>2, <2>3 DEF One
    <2>6. n.req[r].state # "none" /\ n.req[r].end # "init"
        BY <1>2, <1>11 DEF Like
    <2>7. n \in FcRec /\ n.connected = k.connected /\ k.nreq =< n.nreq /\ r =< n.nreq
        <3>1. n \in FcRec /\ n.connected = k.connected /\ k.nreq = n.nreq
            BY <1>12 DEF OnlyReq
        <3>2. r \in Int /\ k.nreq \in Int
            BY <1>1 DEF FcRec, Reqs
        <3>. QED  BY <1>1, <1>2, <3>1, <3>2 DEF InitFirst, q
    <2>8. 0 \in Int /\ n.blocked = k.blocked /\ n.num_background = k.num_background
        BY <1>13
    <2>. USE DEF q
    <2>. HIDE DEF r
    <2>. QED  BY ONLY <1>1, <1>2, <1>14, <2>1, <2>4, <2>5, <2>6, <2>7, <2>8, StartedAccounts
<1>. QED  BY <1>17, <1>19, <1>20 DEF n, m, set, tl

\* fuse_request_init, and what its callers set.
NewRec(stolen, force, end) ==
    [fuse_request_init EXCEPT !.waiting = TRUE, !.stolen = stolen, !.force = force,
                              !.end = end]

\* A request as fuse_get_req hands it out.
LEMMA NewReq ==
    ASSUME NEW stolen \in BOOLEAN, NEW force \in BOOLEAN,
           NEW end \in {"none", "readpages"}
    PROVE  LET p == NewRec(stolen, force, end)
           IN  /\ p \in ReqRec /\ p.state = "init" /\ p.count = 1 /\ ~p.background
               /\ ~p.aborted /\ ~p.ended /\ ~p.interrupted /\ p.end = end /\ p.waiting
<1>. DEFINE a == fuse_request_init
            b == [a EXCEPT !.waiting = TRUE]
            c == [b EXCEPT !.stolen = stolen]
            d == [c EXCEPT !.force = force]
            p == [d EXCEPT !.end = end]
<1>1. /\ a \in ReqRec /\ a.state = "init" /\ a.count = 1 /\ a.background = FALSE
      /\ a.aborted = FALSE /\ a.ended = FALSE /\ a.interrupted = FALSE
    BY FixedReqs DEF fuse_request_init, NoRequest
<1>2. p = NewRec(stolen, force, end)
    BY DEF NewRec
<1>. HIDE DEF a
<1>3. Like({"waiting"}, a, b) /\ b.waiting /\ b \in ReqRec
    <2>1. Like({"waiting"}, a, b) /\ b.waiting
        BY <1>1, SetWaiting
    <2>. QED  BY <2>1 DEF Like
<1>. HIDE DEF b
<1>4. Like({}, b, c) /\ c \in ReqRec
    BY <1>3 DEF Like, ReqRec
<1>. HIDE DEF c
<1>5. Like({}, c, d) /\ d \in ReqRec
    BY <1>4 DEF Like, ReqRec
<1>. HIDE DEF d
<1>6. Like({"end"}, d, p) /\ p.end = end
    BY <1>5, SetEnd
<1>. HIDE DEF p
<1>7. /\ d.state = "init" /\ d.count = 1 /\ ~d.background /\ ~d.aborted /\ ~d.ended
      /\ ~d.interrupted /\ d.waiting
    BY <1>1, <1>3, <1>4, <1>5 DEF Like
<1>8. /\ p \in ReqRec /\ p.state = "init" /\ p.count = 1 /\ ~p.background
      /\ ~p.aborted /\ ~p.ended /\ ~p.interrupted /\ p.waiting
    BY <1>6, <1>7 DEF Like
<1>. QED  BY <1>2, <1>6, <1>8

\* Allocated.
LEMMA AllocatedGood ==
    ASSUME NEW k, NEW tk, NEW sv, NEW h, NEW e, Good(k, tk, sv, h, e),
           NEW t \in Tasks, tk[t].pc \in {"get", "reserved"}, Late(k),
           NEW stolen \in BOOLEAN
    PROVE  LET r == tk[t].req
               p == [fuse_request_init EXCEPT !.waiting = TRUE, !.stolen = stolen,
                        !.force = (tk[t].kind = "flush"),
                        !.end = IF tk[t].kind = "readpages" THEN "readpages" ELSE "none"]
           IN  Good([k EXCEPT !.req[r] = p, !.reserved = @ /\ ~stolen],
                    [tk EXCEPT ![t].pc = "send"], sv, h, e)
<1>. DEFINE r == tk[t].req
            q == k.req[r]
            end == IF tk[t].kind = "readpages" THEN "readpages" ELSE "none"
            force == tk[t].kind = "flush"
            p == NewRec(stolen, force, end)
            res == k.reserved /\ ~stolen
            m == [k EXCEPT !.req[r] = p]
            n == [m EXCEPT !.reserved = res]
            tl == [tk EXCEPT ![t].pc = "send"]
            v == View(k, tk, sv, h, e, r)
            w == View(n, tl, sv, h, e, r)
<1>1. /\ r \in Reqs /\ Shows(v, k, tk, sv, h, e, r) /\ Sound(v)
      /\ v.task = tk[t].pc /\ k \in FcRec /\ ListsOnce(k) /\ InitFirst(k)
      /\ NumbersTrue(k, tk)
    BY TaskKnown
<1>. HIDE DEF v
<1>2. /\ q.state = "none" /\ r # INIT /\ v \in ViewRec /\ v.q = q /\ q \in ReqRec
    BY <1>1 DEF Shows, Sound, Waited, InitFirst
<1>3. /\ p \in ReqRec /\ p.state = "init" /\ p.count = 1 /\ ~p.background
      /\ ~p.aborted /\ ~p.ended /\ ~p.interrupted /\ p.end # "init" /\ p.waiting
    <2>1. end \in {"none", "readpages"} /\ force \in BOOLEAN
        OBVIOUS
    <2>. HIDE DEF end, force
    <2>. QED  BY <2>1, NewReq
<1>4. n = [k EXCEPT !.req[r] = p, !.reserved = k.reserved /\ ~stolen]
    BY <1>1 DEF FcRec
<1>5. TaskWent(tk, tl, t, "send")
    BY DEF TaskWent
<1>6. res \in BOOLEAN
    OBVIOUS
<1>. HIDE DEF p, res, tl
<1>7. ReqIs(k, m, r, p)
    BY <1>1, <1>3, OneReq
<1>. HIDE DEF m
<1>8. /\ m \in FcRec /\ m.req[r] = p /\ OnlyReq(k, m, r) /\ SameQueues(k, m)
      /\ SameNumbers(k, m)
    BY <1>1, <1>7, ReqIsElse
<1>9. Quiet(m, n)
    BY <1>6, <1>8 DEF Quiet, FcRec, SameQueues, SameNumbers
<1>. HIDE DEF n
<1>10. OnlyReq(k, n, r) /\ n.req[r] = p /\ SameQueues(k, n) /\ SameNumbers(k, n)
    BY <1>8, <1>9 DEF Quiet, OnlyReq, SameQueues, SameNumbers
<1>11. FcElse(k, n, r) /\ ListsOnce(n)
    BY <1>1, <1>10, QueuesElse
<1>12. tk[t].pc # "idle" /\ "send" \in {"idle", "get", "reserved"} \cup WaitPcs
    BY DEF WaitPcs
<1>13. /\ Shows(w, n, tl, sv, h, e, r) /\ w.task = "send"
       /\ LikeView({"q", "task", "pending", "io", "processing", "interrupts"}, v, w)
       /\ Cardinality(Getting(tl)) = Cardinality(Getting(tk))
              + (One("send" \in {"get", "reserved"}) - One(Wants(tk[t])))
       /\ Sound(w) /\ Accounts(k, n, tl) => Good(n, tl, sv, h, e)
    BY <1>5, <1>10, <1>11, <1>12, TaskStepped DEF v
<1>. HIDE DEF w
<1>14. LikeView({"q", "task"}, v, w) /\ w.q = p
    BY <1>1, <1>10, <1>13 DEF LikeView, Shows, SameQueues
<1>15. Sound(w)
    BY <1>1, <1>2, <1>3, <1>13, <1>14, ViewAllocated
<1>16. Accounts(k, n, tl)
    <2>1. Cardinality(Getting(tl)) = Cardinality(Getting(tk)) + (-1)
        <3>1. One("send" \in {"get", "reserved"}) - One(Wants(tk[t])) = -1
            BY DEF One, Wants
        <3>. QED  BY <1>13, <3>1
    <2>2. /\ Backs(n.req[r]) = FALSE /\ Backs(q) = FALSE
          /\ Waits(n.req[r]) = TRUE /\ Waits(q) = FALSE
        BY <1>2, <1>3, <1>10 DEF Backs, Waits, Alive
    <2>3. k.num_waiting \in Int /\ k.num_background \in Int
        BY <1>1 DEF FcRec
    <2>4. n.num_waiting = k.num_waiting + (-1) + One(Waits(n.req[r])) - One(Waits(q))
        BY <1>10, <2>2, <2>3 DEF One, SameNumbers
    <2>5. n.num_background = k.num_background + One(Backs(n.req[r])) - One(Backs(q))
        BY <1>10, <2>2, <2>3 DEF One, SameNumbers
    <2>6. n.req[r].state # "none" /\ n.req[r].end # "init"
        BY <1>3, <1>10
    <2>7. n \in FcRec /\ n.connected = k.connected /\ k.nreq =< n.nreq /\ r =< n.nreq
        <3>1. n \in FcRec /\ n.connected = k.connected /\ k.nreq = n.nreq
            BY <1>10 DEF OnlyReq
        <3>2. r \in Int /\ k.nreq \in Int /\ r =< k.nreq
            BY <1>1, <1>12 DEF FcRec, Reqs, Good, TasksFit
        <3>. QED  BY <3>1, <3>2
    <2>8. -1 \in Int /\ n.blocked = k.blocked /\ n.num_background = k.num_background
        BY <1>10 DEF SameNumbers
    <2>. HIDE DEF r
    <2>. QED  BY ONLY Late(k), <1>1, <1>2, <1>11, <2>1, <2>4, <2>5, <2>6, <2>7, <2>8,
                      StartedAccounts
<1>17. Good(n, tl, sv, h, e)
    BY <1>13, <1>15, <1>16
<1>. QED  BY <1>4, <1>17 DEF p, tl, NewRec

\* GiveUp.
LEMMA GiveUpGood ==
    ASSUME NEW k, NEW tk, NEW sv, NEW h, NEW e, Good(k, tk, sv, h, e),
           NEW t \in Tasks, tk[t].pc = "get"
    PROVE  Good([finish_wait(k, t) EXCEPT !.num_waiting = @ - 1,
                                          !.req[tk[t].req] = Freed],
                [tk EXCEPT ![t] = Idle], sv, h, e)
<1>. DEFINE r == tk[t].req
            q == k.req[r]
            a == finish_wait(k, t)
            c == a.num_waiting - 1
            m == [a EXCEPT !.num_waiting = c]
            n == [m EXCEPT !.req[r] = Freed]
            tl == [tk EXCEPT ![t] = Idle]
            v == View(k, tk, sv, h, e, r)
            w == View(n, tl, sv, h, e, r)
<1>1. /\ r \in Reqs /\ Shows(v, k, tk, sv, h, e, r) /\ Sound(v)
      /\ v.task = "get" /\ k \in FcRec /\ ListsOnce(k) /\ InitFirst(k)
      /\ NumbersTrue(k, tk)
    BY TaskKnown
<1>. HIDE DEF v
<1>2. /\ q.state = "none" /\ r # INIT /\ v \in ViewRec /\ v.q = q
    BY <1>1 DEF Shows, Sound, Waited, InitFirst
<1>3. Quiet(k, a)
    BY <1>1, WakeQuiet
<1>4. TaskWent(tk, tl, t, "idle")
    BY DEF TaskWent
<1>. HIDE DEF a, tl
<1>5. a \in FcRec /\ c \in Int
    BY <1>3 DEF Quiet, FcRec
<1>6. n = [a EXCEPT !.num_waiting = a.num_waiting - 1, !.req[r] = Freed]
    OBVIOUS
<1>7. c = k.num_waiting - 1 /\ k.num_waiting \in Int /\ k.num_background \in Int
    BY <1>1, <1>3 DEF Quiet, SameNumbers, FcRec
<1>. HIDE DEF c
<1>8. LikeFc({"num_waiting"}, a, m) /\ m.num_waiting = c
    BY <1>5, FcNumWaiting
<1>. HIDE DEF m
<1>9. m \in FcRec /\ Freed \in ReqRec
    BY <1>8, FixedReqs DEF LikeFc
<1>10. ReqIs(m, n, r, Freed)
    BY <1>1, <1>9, OneReq
<1>. HIDE DEF n
<1>11. /\ OnlyReq(k, n, r) /\ n.req[r] = Freed /\ SameQueues(k, n)
       /\ n.num_waiting = k.num_waiting - 1 /\ n.blocked = k.blocked
       /\ n.num_background = k.num_background
    BY <1>3, <1>7, <1>8, <1>10
       DEF Quiet, OnlyReq, SameQueues, SameNumbers, ReqIs, LikeFc
<1>12. FcElse(k, n, r) /\ ListsOnce(n)
    BY <1>1, <1>11, QueuesElse
<1>13. tk[t].pc # "idle" /\ "idle" \in {"idle", "get", "reserved"} \cup WaitPcs
    BY DEF WaitPcs
<1>14. /\ Shows(w, n, tl, sv, h, e, r) /\ w.task = "none"
       /\ LikeView({"q", "task", "pending", "io", "processing", "interrupts"}, v, w)
       /\ Cardinality(Getting(tl)) = Cardinality(Getting(tk))
              + (One("idle" \in {"get", "reserved"}) - One(Wants(tk[t])))
       /\ Sound(w) /\ Accounts(k, n, tl) => Good(n, tl, sv, h, e)
    BY <1>4, <1>11, <1>12, <1>13, TaskStepped DEF v
<1>. HIDE DEF w
<1>15. LikeView({"q", "task"}, v, w) /\ w.q = Freed
    BY <1>1, <1>11, <1>14 DEF LikeView, Shows, SameQueues
<1>16. Sound(w)
    BY <1>1, <1>2, <1>14, <1>15, ViewGiveUp
<1>17. Accounts(k, n, tl)
    <2>1. Cardinality(Getting(tl)) = Cardinality(Getting(tk)) + (-1)
        <3>1. One("idle" \in {"get", "reserved"}) - One(Wants(tk[t])) = -1
            BY DEF One, Wants
        <3>. QED  BY <1>14, <3>1
    <2>2. Backs(q) = FALSE /\ Waits(q) = FALSE
        BY <1>2 DEF Backs, Waits, Alive
    <2>3. n.num_waiting = k.num_waiting + (-1) - One(Waits(q))
        BY <1>7, <1>11, <2>2 DEF One
    <2>4. n \in FcRec /\ n.connected = k.connected /\ k.nreq =< n.nreq /\ r =< n.nreq
        <3>1. n \in FcRec /\ n.connected = k.connected /\ k.nreq = n.nreq
            BY <1>11 DEF OnlyReq
        <3>2. r \in Int /\ k.nreq \in Int /\ r =< k.nreq
            BY <1>1, <1>13 DEF FcRec, Reqs, Good, TasksFit
        <3>. QED  BY <3>1, <3>2
    <2>5. -1 \in Int
        OBVIOUS
    <2>. HIDE DEF r
    <2>. QED  BY ONLY <1>1, <1>2, <1>11, <1>12, <2>1, <2>2, <2>3, <2>4, <2>5,
                      FreedAccounts
<1>18. Good(n, tl, sv, h, e)
    BY <1>14, <1>16, <1>17
<1>. QED  BY <1>6, <1>18 DEF tl, a

\* wait_answer_interruptible, at a signal.
LEMMA InterruptedGood ==
    ASSUME NEW k, NEW tk, NEW sv, NEW h, NEW e, Good(k, tk, sv, h, e),
           NEW t \in Tasks, tk[t].pc = "wait1", k.req[tk[t].req].state # "finished"
    PROVE  LET r == tk[t].req
               m == [finish_wait(k, t) EXCEPT !.req[r].interrupted = TRUE]
           IN  Good(IF k.req[r].state = "sent" THEN queue_interrupt(m, r) ELSE m,
                    [tk EXCEPT ![t].pc = "wait2"], sv, h, e)
<1>. DEFINE r == tk[t].req
            q == k.req[r]
            a == finish_wait(k, t)
            m == [a EXCEPT !.req[r].interrupted = TRUE]
            i == queue_interrupt(m, r)
            n == IF q.state = "sent" THEN i ELSE m
            tl == [tk EXCEPT ![t].pc = "wait2"]
            v == View(k, tk, sv, h, e, r)
            w == View(n, tl, sv, h, e, r)
<1>1. /\ r \in Reqs /\ Shows(v, k, tk, sv, h, e, r) /\ Sound(v)
      /\ v.task = "wait1" /\ k \in FcRec /\ ListsOnce(k)
    BY TaskKnown
<1>. HIDE DEF v
<1>2. v \in ViewRec /\ v.q = q /\ q \in ReqRec
    BY <1>1 DEF Shows
<1>3. ~InList(k.interrupts, r) /\ ~v.interrupts
    BY <1>1, <1>2, ViewNotQueued DEF Shows
<1>4. q.state # "none"
    BY <1>1, <1>2 DEF Sound, Life
<1>5. Quiet(k, a)
    BY <1>1, WakeQuiet
<1>6. TaskWent(tk, tl, t, "wait2")
    BY DEF TaskWent
<1>. HIDE DEF a, tl
<1>7. a \in FcRec /\ a.req = k.req
    BY <1>5 DEF Quiet
<1>8. /\ ReqIs(a, m, r, m.req[r]) /\ Like({"interrupted"}, a.req[r], m.req[r])
      /\ m.req[r].interrupted
    BY <1>1, <1>7, InterruptedReq
<1>. HIDE DEF m
<1>9. m \in FcRec /\ OnlyReq(k, m, r) /\ SameQueues(k, m) /\ SameNumbers(k, m)
      /\ Like({"interrupted"}, q, m.req[r])
    BY <1>5, <1>7, <1>8 DEF Quiet, ReqIs, LikeFc, OnlyReq, SameQueues, SameNumbers
<1>10. FcElse(k, m, r) /\ ListsOnce(m)
    BY <1>1, <1>9, QueuesElse
<1>11. ~InList(m.interrupts, r)
    BY <1>3, <1>9 DEF SameQueues
<1>12. /\ LikeFc({"interrupts"}, m, i) /\ Once(i.interrupts)
       /\ \A y : InList(i.interrupts, y) <=> InList(m.interrupts, y) \/ y = r
    BY <1>1, <1>9, <1>10, <1>11, QueueInterrupt
<1>. HIDE DEF i
<1>13. /\ OnlyReq(k, n, r) /\ n.req[r] = m.req[r] /\ SameNumbers(k, n)
       /\ n.pending = k.pending /\ n.io = k.io /\ n.processing = k.processing
       /\ FcElse(k, n, r) /\ ListsOnce(n)
       /\ (InList(n.interrupts, r) <=> q.state = "sent")
    <2>1. CASE q.state = "sent"
        <3>1. n = i
            BY <2>1
        <3>. HIDE DEF n
        <3>2. /\ OnlyReq(k, n, r) /\ n.req[r] = m.req[r] /\ SameNumbers(k, n)
              /\ n.pending = k.pending /\ n.io = k.io /\ n.processing = k.processing
            BY <1>9, <1>12, <3>1 DEF OnlyReq, SameNumbers, SameQueues, LikeFc
        <3>3. FcElse(k, n, r)
            BY <1>10, <1>12, <3>1 DEF FcElse, LikeFc
        <3>4. ListsOnce(n)
            BY <1>10, <1>12, <3>1 DEF ListsOnce, LikeFc
        <3>. QED  BY <1>12, <2>1, <3>1, <3>2, <3>3, <3>4
    <2>2. CASE q.state # "sent"
        <3>1. n = m
            BY <2>2
        <3>. HIDE DEF n
        <3>. QED  BY <1>9, <1>10, <1>11, <2>2, <3>1 DEF SameQueues
    <2>. QED  BY <2>1, <2>2
<1>14. n = IF k.req[r].state = "sent" THEN queue_interrupt(m, r) ELSE m
    BY DEF i
<1>. HIDE DEF n
<1>15. CalmReq(q, n.req[r])
    BY <1>4, <1>9, <1>13 DEF CalmReq, Like, Alive
<1>16. tk[t].pc \in WaitPcs /\ "wait2" \in {"idle"} \cup WaitPcs
    BY DEF WaitPcs
<1>17. /\ Shows(w, n, tl, sv, h, e, r) /\ w.task = "wait2"
       /\ LikeView({"q", "task", "pending", "io", "processing", "interrupts"}, v, w)
       /\ Sound(w) => Good(n, tl, sv, h, e)
    BY <1>6, <1>13, <1>15, <1>16, CalmTask DEF v
<1>. HIDE DEF w
<1>18. /\ LikeView({"q", "task", "interrupts"}, v, w) /\ w.q = m.req[r]
       /\ (w.interrupts <=> q.state = "sent")
    BY <1>1, <1>13, <1>17 DEF LikeView, Shows
<1>19. w.interrupts <=> (v.interrupts \/ v.q.state = "sent")
    BY <1>2, <1>3, <1>18
<1>20. Sound(w)
    BY <1>1, <1>2, <1>8, <1>9, <1>17, <1>18, <1>19, ViewInterrupted
<1>21. Good(n, tl, sv, h, e)
    BY <1>17, <1>20
<1>. QED  BY <1>14, <1>21 DEF m, a, tl

\* request_wait_answer, at a fatal signal.
LEMMA KilledGood ==
    ASSUME NEW k, NEW tk, NEW sv, NEW h, NEW e, Good(k, tk, sv, h, e),
           NEW t \in Tasks, tk[t].pc = "wait2", k.req[tk[t].req].state # "finished"
    PROVE  LET r == tk[t].req
           IN  Good([finish_wait(k, t) EXCEPT !.req[r].error = "EINTR",
                                              !.req[r].aborted = TRUE],
                    [tk EXCEPT ![t].pc = "unlocked"], sv, h, e)
<1>. DEFINE r == tk[t].req
            q == k.req[r]
            a == finish_wait(k, t)
            m == [a EXCEPT !.req[r].error = "EINTR"]
            n == [m EXCEPT !.req[r].aborted = TRUE]
            tl == [tk EXCEPT ![t].pc = "unlocked"]
            v == View(k, tk, sv, h, e, r)
            w == View(n, tl, sv, h, e, r)
<1>1. /\ r \in Reqs /\ Shows(v, k, tk, sv, h, e, r) /\ Sound(v)
      /\ v.task = "wait2" /\ k \in FcRec /\ ListsOnce(k)
    BY TaskKnown
<1>. HIDE DEF v
<1>2. v \in ViewRec /\ v.q = q /\ q \in ReqRec
    BY <1>1 DEF Shows
<1>3. q.state # "none"
    BY <1>1, <1>2 DEF Sound, Life
<1>4. Quiet(k, a)
    BY <1>1, WakeQuiet
<1>5. TaskWent(tk, tl, t, "unlocked")
    BY DEF TaskWent
<1>. HIDE DEF a, tl
<1>6. a \in FcRec /\ a.req = k.req
    BY <1>4 DEF Quiet
<1>7. n = [a EXCEPT !.req[r].error = "EINTR", !.req[r].aborted = TRUE]
    OBVIOUS
<1>8. /\ ReqIs(a, m, r, m.req[r]) /\ Like({"error"}, a.req[r], m.req[r])
      /\ m.req[r].error = "EINTR"
    <2>1. a \in FcRec /\ r \in Reqs
        BY <1>1, <1>6
    <2>. HIDE DEF r
    <2>. QED  BY ONLY <2>1, ErrorNames, ErrorReq DEF m
<1>. HIDE DEF m
<1>9. m \in FcRec
    BY <1>8 DEF ReqIs
<1>10. ReqIs(m, n, r, n.req[r]) /\ Like({"aborted"}, m.req[r], n.req[r])
       /\ n.req[r].aborted
    BY <1>1, <1>9, AbortedReq
<1>. HIDE DEF n
<1>11. OnlyReq(k, n, r) /\ SameQueues(k, n) /\ SameNumbers(k, n)
    BY <1>4, <1>6, <1>8, <1>10 DEF Quiet, ReqIs, LikeFc, OnlyReq, SameQueues, SameNumbers
<1>12. Like({"error", "aborted"}, q, n.req[r]) /\ n.req[r].error # "none"
    BY <1>6, <1>8, <1>10 DEF Like
<1>13. FcElse(k, n, r) /\ ListsOnce(n)
    BY <1>1, <1>11, QueuesElse
<1>14. CalmReq(q, n.req[r])
    BY <1>3, <1>12 DEF CalmReq, Like, Alive
<1>15. tk[t].pc \in WaitPcs /\ "unlocked" \in {"idle"} \cup WaitPcs
    BY DEF WaitPcs
<1>16. /\ Shows(w, n, tl, sv, h, e, r) /\ w.task = "unlocked"
       /\ LikeView({"q", "task", "pending", "io", "processing", "interrupts"}, v, w)
       /\ Sound(w) => Good(n, tl, sv, h, e)
    BY <1>5, <1>11, <1>13, <1>14, <1>15, CalmTask DEF v
<1>. HIDE DEF w
<1>17. LikeView({"q", "task"}, v, w) /\ w.q = n.req[r]
    BY <1>1, <1>11, <1>16 DEF LikeView, Shows, SameQueues
<1>18. Sound(w)
    BY <1>1, <1>2, <1>10, <1>12, <1>16, <1>17, ViewKilled
<1>19. Good(n, tl, sv, h, e)
    BY <1>16, <1>18
<1>. QED  BY <1>7, <1>19 DEF a, tl

\* The label `aborted`: a request that was not read is taken back.
LEMMA TakenBackGood ==
    ASSUME NEW k, NEW tk, NEW sv, NEW h, NEW e, Good(k, tk, sv, h, e),
           NEW t \in Tasks, tk[t].pc = "unlocked", ~k.req[tk[t].req].locked,
           k.req[tk[t].req].state = "pending"
    PROVE  LET r == tk[t].req
           IN  Good([list_del(k, r) EXCEPT !.req[r].count = @ - 1],
                    [tk EXCEPT ![t].pc = "put"], sv, h, e)
<1>. DEFINE r == tk[t].req
            q == k.req[r]
            a == list_del(k, r)
            n == [a EXCEPT !.req[r].count = a.req[r].count + (-1)]
            tl == [tk EXCEPT ![t].pc = "put"]
            v == View(k, tk, sv, h, e, r)
            w == View(n, tl, sv, h, e, r)
<1>1. /\ r \in Reqs /\ Shows(v, k, tk, sv, h, e, r) /\ Sound(v)
      /\ v.task = "unlocked" /\ k \in FcRec /\ ListsOnce(k)
    BY TaskKnown
<1>. HIDE DEF v
<1>2. v \in ViewRec /\ v.q = q /\ q \in ReqRec
    BY <1>1 DEF Shows
<1>3. /\ OnlyReq(k, a, r) /\ a.req = k.req /\ SameNumbers(k, a)
      /\ a.interrupts = k.interrupts /\ OffThree(k, a, r)
    BY <1>1, ListDel
<1>4. TaskWent(tk, tl, t, "put")
    BY DEF TaskWent
<1>. HIDE DEF a, tl
<1>5. a \in FcRec
    BY <1>3 DEF OnlyReq
<1>6. a.req[r].count - 1 = a.req[r].count + (-1)
    BY <1>2, <1>3 DEF ReqRec
<1>7. n = [a EXCEPT !.req[r].count = a.req[r].count - 1]
    BY <1>6
<1>8. /\ ReqIs(a, n, r, n.req[r]) /\ Like({"count"}, a.req[r], n.req[r])
      /\ n.req[r].count = a.req[r].count + (-1)
    BY <1>1, <1>5, CountReq
<1>. HIDE DEF n
<1>9. Like({"count"}, q, n.req[r]) /\ n.req[r].count = q.count - 1
    BY <1>2, <1>3, <1>6, <1>8
<1>10. OnlyReq(k, n, r) /\ SameNumbers(k, n)
    BY <1>3, <1>8 DEF ReqIs, LikeFc, OnlyReq, SameNumbers
<1>11. OffThree(k, n, r) /\ n.interrupts = k.interrupts
    BY <1>3, <1>8 DEF ReqIs, LikeFc, OffThree
<1>12. FcElse(k, n, r) /\ ListsOnce(n)
    BY <1>1, <1>10, <1>11 DEF FcElse, OnlyReq, OffThree, ListsOnce
<1>13. CalmReq(q, n.req[r])
    BY <1>9 DEF CalmReq, Like, Alive
<1>14. tk[t].pc \in WaitPcs /\ "put" \in {"idle"} \cup WaitPcs
    BY DEF WaitPcs
<1>15. /\ Shows(w, n, tl, sv, h, e, r) /\ w.task = "put"
       /\ LikeView({"q", "task", "pending", "io", "processing", "interrupts"}, v, w)
       /\ Sound(w) => Good(n, tl, sv, h, e)
    BY <1>4, <1>10, <1>12, <1>13, <1>14, CalmTask DEF v
<1>. HIDE DEF w
<1>16. /\ LikeView({"q", "task", "pending", "io", "processing"}, v, w)
       /\ w.q = n.req[r] /\ ~w.pending /\ ~w.io /\ ~w.processing
    BY <1>1, <1>11, <1>15 DEF LikeView, Shows, OffThree
<1>17. Sound(w)
    BY <1>1, <1>2, <1>9, <1>15, <1>16, ViewTakenBack
<1>18. Good(n, tl, sv, h, e)
    BY <1>15, <1>17
<1>. QED  BY <1>7, <1>18 DEF a, tl

\* One reference less.
LEMMA LessFields ==
    ASSUME NEW q \in ReqRec
    PROVE  Like({"count"}, q, Less(q)) /\ Less(q).count = q.count - 1
<1>. DEFINE c == q.count - 1
<1>1. c \in Int
    BY DEF ReqRec
<1>2. Less(q) = [q EXCEPT !.count = c]
    BY DEF Less
<1>. HIDE DEF c
<1>3. Like({"count"}, q, [q EXCEPT !.count = c]) /\ [q EXCEPT !.count = c].count = c
    BY <1>1, SetCount
<1>. QED  BY <1>2, <1>3 DEF c

\* A task puts its request.
LEMMA PutGood ==
    ASSUME NEW k, NEW tk, NEW sv, NEW h, NEW e, Good(k, tk, sv, h, e),
           NEW t \in Tasks, tk[t].pc = "put"
    PROVE  Good(fuse_put_request(k, tk[t].req), [tk EXCEPT ![t] = Idle], sv, h, e)
<1>. DEFINE r == tk[t].req
            q == k.req[r]
            n == fuse_put_request(k, r)
            tl == [tk EXCEPT ![t] = Idle]
            v == View(k, tk, sv, h, e, r)
            w == View(n, tl, sv, h, e, r)
<1>1. /\ r \in Reqs /\ Shows(v, k, tk, sv, h, e, r) /\ Sound(v)
      /\ v.task = "put" /\ k \in FcRec /\ ListsOnce(k) /\ InitFirst(k)
      /\ NumbersTrue(k, tk)
    BY TaskKnown
<1>. HIDE DEF v
<1>2. v \in ViewRec /\ v.q = q /\ q \in ReqRec
    BY <1>1 DEF Shows
<1>3. q.state # "none" /\ Alive(q) /\ ~q.background
    <2>1. v.q.state # "none" /\ v.q.state # "freed" /\ ~v.q.background
        BY <1>1 DEF Sound, Life, Waited, WaitPcs
    <2>. QED  BY <1>2, <2>1 DEF Alive
<1>4. /\ OnlyReq(k, n, r) /\ SameQueues(k, n)
      /\ n.blocked = k.blocked /\ n.num_background = k.num_background
      /\ q.count # 1 => n.req[r] = Less(q) /\ n.num_waiting = k.num_waiting
      /\ q.count = 1 => n.req[r] = Freed /\ n.num_waiting = k.num_waiting - One(q.waiting)
    BY <1>1, PutFields
<1>5. TaskWent(tk, tl, t, "idle")
    BY DEF TaskWent
<1>. HIDE DEF n, tl
<1>6. FcElse(k, n, r) /\ ListsOnce(n)
    BY <1>1, <1>4, QueuesElse
<1>7. tk[t].pc # "idle" /\ "idle" \in {"idle", "get", "reserved"} \cup WaitPcs
    BY DEF WaitPcs
<1>8. /\ Shows(w, n, tl, sv, h, e, r) /\ w.task = "none"
      /\ LikeView({"q", "task", "pending", "io", "processing", "interrupts"}, v, w)
      /\ Cardinality(Getting(tl)) = Cardinality(Getting(tk))
             + (One("idle" \in {"get", "reserved"}) - One(Wants(tk[t])))
      /\ Sound(w) /\ Accounts(k, n, tl) => Good(n, tl, sv, h, e)
    BY <1>4, <1>5, <1>6, <1>7, TaskStepped DEF v
<1>. HIDE DEF w
<1>9. LikeView({"q", "task"}, v, w) /\ w.q = n.req[r]
    BY <1>1, <1>4, <1>8 DEF LikeView, Shows, SameQueues
<1>10. Like({"count"}, q, Less(q)) /\ Less(q).count = q.count - 1
    BY <1>2, LessFields
<1>11. /\ v.q.count = 1 => w.q = Freed
       /\ v.q.count # 1 => Like({"count"}, v.q, w.q) /\ w.q.count = v.q.count - 1
    BY <1>2, <1>4, <1>9, <1>10
<1>12. Sound(w)
    BY <1>1, <1>2, <1>8, <1>9, <1>11, ViewPut
<1>13. Cardinality(Getting(tl)) = Cardinality(Getting(tk)) + 0
       /\ Cardinality(Getting(tl)) = Cardinality(Getting(tk))
    <2>1. One("idle" \in {"get", "reserved"}) - One(Wants(tk[t])) = 0
        BY DEF One, Wants
    <2>. QED  BY <1>8, <2>1, GettingSame
<1>14. n \in FcRec /\ n.connected = k.connected /\ n.nreq = k.nreq
       /\ k.nreq =< n.nreq /\ r =< n.nreq
    <2>1. n \in FcRec /\ n.connected = k.connected /\ k.nreq = n.nreq
        BY <1>4 DEF OnlyReq
    <2>2. r \in Int /\ k.nreq \in Int /\ r =< k.nreq
        BY <1>1, <1>7 DEF FcRec, Reqs, Good, TasksFit
    <2>. QED  BY <2>1, <2>2
<1>15. Accounts(k, n, tl)
    <2>1. CASE q.count # 1
        <3>1. /\ n.req[r].state # "none" /\ (Alive(n.req[r]) <=> Alive(q))
              /\ n.req[r].waiting = q.waiting /\ n.req[r].ended = q.ended
              /\ n.req[r].background = q.background /\ n.req[r].end = q.end
            BY <1>3, <1>4, <1>10, <2>1 DEF Like, Alive
        <3>2. SameNumbers(k, n)
            BY <1>4, <2>1 DEF SameNumbers
        <3>. QED  BY <1>1, <1>3, <1>6, <1>13, <1>14, <3>1, <3>2, CalmAccounts
    <2>2. CASE q.count = 1
        <3>1. ~Backs(q) /\ (Waits(q) <=> q.waiting)
            BY <1>3 DEF Backs, Waits
        <3>2. k.num_waiting \in Int /\ One(Waits(q)) = One(q.waiting)
              /\ One(q.waiting) \in Int
            BY <1>1, <3>1 DEF FcRec, One
        <3>3. n.num_waiting = k.num_waiting + 0 - One(Waits(q)) /\ n.req[r] = Freed
            BY <1>4, <2>2, <3>2
        <3>4. 0 \in Int /\ ~(r = INIT /\ Alive(q)) /\ n.blocked = k.blocked
              /\ n.num_background = k.num_background
            BY <1>1, <1>3, <1>4 DEF InitFirst
        <3>. HIDE DEF r
        <3>. QED  BY ONLY <1>1, <1>6, <1>13, <1>14, <3>1, <3>3, <3>4, FreedAccounts
    <2>. QED  BY <2>1, <2>2
<1>16. Good(n, tl, sv, h, e)
    BY <1>8, <1>12, <1>15
<1>. QED  BY <1>16 DEF n, tl

\* request_send_nowait, with a connection.
LEMMA SendNowait ==
    ASSUME NEW k \in FcRec, NEW r \in Reqs, ListsOnce(k), ~InList(k.pending, r), k.connected
    PROVE  LET n == request_send_nowait(k, r)
               q == k.req[r]
           IN  /\ n \in FcRec /\ n.connected = k.connected /\ n.nreq = k.nreq
               /\ n.corrupt = k.corrupt
               /\ \A x \in Reqs \ {r} : n.req[x] = k.req[x]
               /\ Like({"state", "waiting", "background"}, q, n.req[r])
               /\ n.req[r].state = "pending" /\ n.req[r].waiting /\ n.req[r].background
               /\ n.num_waiting = k.num_waiting + One(~q.waiting)
               /\ n.num_background = k.num_background + 1
               /\ (n.blocked <=> k.blocked \/ n.num_background = FUSE_MAX_BACKGROUND)
               /\ n.io = k.io /\ n.processing = k.processing /\ n.interrupts = k.interrupts
               /\ Once(n.pending)
               /\ \A y : InList(n.pending, y) <=> InList(k.pending, y) \/ y = r
<1>. DEFINE q == k.req[r]
            c == k.num_background + 1
            b == (c = FUSE_MAX_BACKGROUND) \/ k.blocked
            k1 == [k EXCEPT !.req[r].background = TRUE]
            k2 == [k1 EXCEPT !.num_background = c]
            k3 == [k2 EXCEPT !.blocked = b]
            n == queue_request(k3, r)
<1>1. request_send_nowait(k, r) = n
    <2>1. [k EXCEPT !.req[r].background = TRUE, !.num_background = c,
                    !.blocked = (c = FUSE_MAX_BACKGROUND) \/ @] = k3
        BY DEF FcRec
    <2>. HIDE DEF k3
    <2>. QED  BY <2>1 DEF request_send_nowait
<1>2. c \in Int /\ b \in BOOLEAN /\ (b <=> k.blocked \/ c = FUSE_MAX_BACKGROUND)
    BY DEF FcRec
<1>3. /\ ReqIs(k, k1, r, k1.req[r]) /\ Like({"background"}, q, k1.req[r])
      /\ k1.req[r].background
    BY BackgroundReq
<1>4. c = k.num_background + 1
    OBVIOUS
<1>. HIDE DEF q, c, b, k1
<1>5. k1 \in FcRec
    BY <1>3 DEF ReqIs
<1>6. LikeFc({"num_background"}, k1, k2) /\ k2.num_background = c
    BY <1>2, <1>5, FcNumBackground
<1>. HIDE DEF k2
<1>7. k2 \in FcRec
    BY <1>6 DEF LikeFc
<1>8. LikeFc({"blocked"}, k2, k3) /\ k3.blocked = b
    BY <1>2, <1>7, FcBlocked
<1>. HIDE DEF k3
<1>9. /\ k3 \in FcRec /\ k3.connected = k.connected /\ k3.nreq = k.nreq
      /\ k3.corrupt = k.corrupt /\ k3.num_waiting = k.num_waiting
      /\ k3.num_background = c /\ k3.blocked = b /\ SameQueues(k, k3)
      /\ k3.req[r] = k1.req[r] /\ \A x \in Reqs \ {r} : k3.req[x] = k.req[x]
    BY <1>3, <1>6, <1>8 DEF ReqIs, LikeFc, SameQueues
<1>10. ListsOnce(k3) /\ ~InList(k3.pending, r)
    BY <1>9 DEF SameQueues, ListsOnce
<1>11. /\ LikeFc({"pending", "req", "num_waiting"}, k3, n)
       /\ \A x \in Reqs \ {r} : n.req[x] = k3.req[x]
       /\ Like({"state", "waiting"}, k3.req[r], n.req[r])
       /\ n.req[r].state = "pending" /\ n.req[r].waiting
       /\ n.num_waiting = k3.num_waiting + One(~k3.req[r].waiting)
       /\ Once(n.pending)
       /\ \A y : InList(n.pending, y) <=> InList(k3.pending, y) \/ y = r
    BY <1>9, <1>10, QueueRequest
<1>. HIDE DEF n
<1>12. /\ n \in FcRec /\ n.connected = k.connected /\ n.nreq = k.nreq
       /\ n.corrupt = k.corrupt
       /\ n.num_background = c /\ n.blocked = b
       /\ n.io = k.io /\ n.processing = k.processing /\ n.interrupts = k.interrupts
    BY <1>9, <1>11 DEF LikeFc, SameQueues
<1>13. Like({"state", "waiting", "background"}, q, n.req[r]) /\ n.req[r].background
    BY <1>3, <1>9, <1>11 DEF Like
<1>14. n.num_waiting = k.num_waiting + One(~q.waiting)
    BY <1>3, <1>9, <1>11 DEF Like
<1>15. \A x \in Reqs \ {r} : n.req[x] = k.req[x]
    BY <1>9, <1>11
<1>16. \A y : InList(n.pending, y) <=> InList(k.pending, y) \/ y = r
    BY <1>9, <1>11 DEF SameQueues
<1>17. n.blocked <=> k.blocked \/ n.num_background = FUSE_MAX_BACKGROUND
    BY <1>2, <1>12
<1>. QED  BY <1>1, <1>4, <1>11, <1>12, <1>13, <1>14, <1>15, <1>16, <1>17 DEF q

\* request_send_nowait, of a task's request or of a new one; `set` is the
\* connection as it is called with.
LEMMA NowaitGood ==
    ASSUME NEW k, NEW tk, NEW sv, NEW h, NEW e, Good(k, tk, sv, h, e),
           NEW r \in Reqs, r # INIT, Late(k),
           NEW set \in FcRec, set.connected = k.connected, k.nreq =< set.nreq,
           r =< set.nreq, SameQueues(k, set), SameNumbers(k, set),
           \A x \in Reqs \ {r} : set.req[x] = k.req[x],
           set.req[r].count = 1, ~set.req[r].ended, ~set.req[r].aborted,
           ~set.req[r].background, set.req[r].state # "freed",
           set.req[r].end # "init", Waits(k.req[r]) <=> set.req[r].waiting,
           TaskPc(tk, r) = "send" \/ (TaskPc(tk, r) = "none" /\ k.req[r].state = "none"),
           NEW tl \in [Tasks -> TaskRec], TasksFit(set, tl), TaskElse(tk, tl, r),
           TaskPc(tl, r) = "none", \A n : Reserving(tk, tl, n),
           Cardinality(Getting(tl)) = Cardinality(Getting(tk))
    PROVE  Good(request_send_nowait(set, r), tl, sv, h, e)
<1>. DEFINE q == k.req[r]
            n == request_send_nowait(set, r)
            v == View(k, tk, sv, h, e, r)
            w == View(n, tl, sv, h, e, r)
<1>1. /\ Shows(v, k, tk, sv, h, e, r) /\ Sound(v) /\ k \in FcRec /\ ListsOnce(k)
      /\ InitFirst(k) /\ NumbersTrue(k, tk)
    BY ViewShows DEF Good, ReqsSound, Types
<1>. HIDE DEF v
<1>2. v \in ViewRec /\ v.q = q /\ q \in ReqRec /\ v.task = TaskPc(tk, r)
    BY <1>1 DEF Shows
<1>3. ~v.pending /\ ~v.io /\ ~v.processing /\ ~v.interrupts /\ ~Backs(q)
    <2>1. ~v.pending /\ ~v.io /\ ~v.processing /\ ~v.interrupts
        BY <1>1, <1>2 DEF Sound, OnLists, Waited, Kept, Copied
    <2>2. ~Backs(v.q)
        BY <1>1, <1>2 DEF Sound, Waited, WaitPcs, Backs, Alive
    <2>. QED  BY <1>2, <2>1, <2>2
<1>4. /\ ~InList(set.pending, r) /\ ~InList(set.io, r) /\ ~InList(set.processing, r)
      /\ ~InList(set.interrupts, r)
    BY <1>1, <1>3 DEF Shows, SameQueues
<1>5. ListsOnce(set)
    BY <1>1 DEF ListsOnce, SameQueues
<1>6. /\ n \in FcRec /\ n.connected = k.connected /\ n.nreq = set.nreq
      /\ \A x \in Reqs \ {r} : n.req[x] = k.req[x]
      /\ FcElse(k, n, r) /\ ListsOnce(n)
      /\ ~InList(n.io, r) /\ ~InList(n.processing, r) /\ ~InList(n.interrupts, r)
      /\ \/ /\ InList(n.pending, r) /\ n.req[r].state = "pending" /\ n.req[r].waiting
            /\ n.req[r].background /\ n.req[r].count = 1 /\ ~n.req[r].aborted
            /\ ~n.req[r].ended /\ n.req[r].end # "init"
            /\ n.num_waiting = k.num_waiting + One(~Waits(q))
            /\ n.num_background = k.num_background + 1
            /\ (n.blocked <=> k.blocked \/ n.num_background = FUSE_MAX_BACKGROUND)
         \/ /\ ~k.connected /\ ~InList(n.pending, r) /\ n.req[r] = Freed
            /\ n.num_waiting = k.num_waiting - One(Waits(q))
            /\ n.num_background = k.num_background
    <2>1. CASE k.connected
        <3>1. /\ n \in FcRec /\ n.connected = set.connected /\ n.nreq = set.nreq
              /\ \A x \in Reqs \ {r} : n.req[x] = set.req[x]
              /\ Like({"state", "waiting", "background"}, set.req[r], n.req[r])
              /\ n.req[r].state = "pending" /\ n.req[r].waiting /\ n.req[r].background
              /\ n.num_waiting = set.num_waiting + One(~set.req[r].waiting)
              /\ n.num_background = set.num_background + 1
              /\ (n.blocked <=> set.blocked \/ n.num_background = FUSE_MAX_BACKGROUND)
              /\ n.io = set.io /\ n.processing = set.processing
              /\ n.interrupts = set.interrupts /\ Once(n.pending)
              /\ \A y : InList(n.pending, y) <=> InList(set.pending, y) \/ y = r
            BY <1>4, <1>5, <2>1, SendNowait
        <3>. HIDE DEF n
        <3>2. /\ n.req[r].count = 1 /\ ~n.req[r].aborted /\ ~n.req[r].ended
              /\ n.req[r].end # "init"
            BY <3>1 DEF Like
        <3>3. n.num_waiting = k.num_waiting + One(~Waits(q))
              /\ n.num_background = k.num_background + 1
              /\ (n.blocked <=> k.blocked \/ n.num_background = FUSE_MAX_BACKGROUND)
            BY <3>1 DEF SameNumbers, One
        <3>4. FcElse(k, n, r)
            BY <3>1 DEF FcElse, SameQueues
        <3>5. ListsOnce(n)
            BY <1>5, <3>1 DEF ListsOnce
        <3>. QED  BY <1>4, <3>1, <3>2, <3>3, <3>4, <3>5
    <2>2. CASE ~k.connected
        <3>. DEFINE err == [set EXCEPT !.req[r].error = "ENOTCONN"]
        <3>1. /\ ReqIs(set, err, r, err.req[r]) /\ Like({"error"}, set.req[r], err.req[r])
            BY ErrorNames, ErrorReq
        <3>2. n = request_end(err, r)
            BY <2>2 DEF request_send_nowait
        <3>. HIDE DEF err
        <3>3. /\ err \in FcRec /\ OnlyReq(set, err, r) /\ SameQueues(set, err)
              /\ SameNumbers(set, err) /\ ListsOnce(err)
            BY <1>5, <3>1, ReqIsElse
        <3>4. /\ ~err.req[r].ended /\ err.req[r].state # "freed" /\ err.req[r].count = 1
              /\ ~err.req[r].background /\ err.req[r].waiting = set.req[r].waiting
            BY <3>1 DEF Like
        <3>5. /\ OnlyReq(err, n, r) /\ OffThree(err, n, r) /\ OffQueue(err, n, r)
              /\ n.req[r] = Freed
              /\ n.num_waiting = err.num_waiting - One(err.req[r].waiting)
              /\ n.num_background = err.num_background - One(err.req[r].background)
            BY <3>2, <3>3, <3>4, RequestEnd
        <3>. HIDE DEF n
        <3>6. /\ n \in FcRec /\ n.connected = k.connected /\ n.nreq = set.nreq
              /\ \A x \in Reqs \ {r} : n.req[x] = k.req[x]
            BY <3>3, <3>5 DEF OnlyReq
        <3>7. FcElse(k, n, r)
            BY <3>3, <3>5, <3>6 DEF FcElse, OffThree, OffQueue, SameQueues
        <3>8. /\ ListsOnce(n) /\ ~InList(n.pending, r) /\ ~InList(n.io, r)
              /\ ~InList(n.processing, r) /\ ~InList(n.interrupts, r)
            BY <3>5 DEF ListsOnce, OffThree, OffQueue
        <3>9. n.num_waiting = k.num_waiting - One(Waits(q))
            BY <3>3, <3>4, <3>5 DEF SameNumbers, One
        <3>10. n.num_background = k.num_background
            <4>1. k.num_background \in Int
                BY <1>1 DEF FcRec
            <4>. QED  BY <3>3, <3>4, <3>5, <4>1 DEF SameNumbers, One
        <3>. QED  BY <2>2, <3>5, <3>6, <3>7, <3>8, <3>9, <3>10
    <2>. QED  BY <2>1, <2>2
<1>. HIDE DEF n
<1>7. Types(n, tl, sv, h, e) /\ TasksFit(n, tl) /\ EnderFits(n, e) /\ ServersFit(sv)
    BY <1>6 DEF Good, Types, TasksFit, EnderFits
<1>8. Shows(w, n, tl, sv, h, e, r)
    BY <1>7, ViewShows
<1>. HIDE DEF w
<1>9. LikeView({"q", "task", "pending"}, v, w) /\ w.q = n.req[r] /\ w.task = "none"
      /\ (w.pending <=> InList(n.pending, r))
    BY <1>1, <1>3, <1>6, <1>8 DEF Shows, LikeView
<1>10. Sound(w)
    <2>1. CASE InList(n.pending, r)
        BY <1>1, <1>2, <1>6, <1>9, <2>1, ViewNowait
    <2>2. CASE ~InList(n.pending, r)
        <3>1. LikeView({"q", "task"}, v, w)
            BY <1>3, <1>9, <2>2 DEF LikeView
        <3>. QED  BY <1>1, <1>2, <1>6, <1>9, <2>2, <3>1, ViewUnsent
    <2>. QED  BY <2>1, <2>2
<1>11. Cardinality(Getting(tl)) = Cardinality(Getting(tk)) + 0
    BY GettingSame
<1>12. k.num_waiting \in Int /\ k.num_background \in Int /\ 0 \in Int
    BY <1>1 DEF FcRec
<1>13. Accounts(k, n, tl)
    <2>1. CASE InList(n.pending, r)
        <3>1. Waits(n.req[r]) = TRUE /\ Backs(n.req[r]) = TRUE
            BY <1>6, <2>1 DEF Waits, Backs, Alive
        <3>2. /\ n.num_waiting = k.num_waiting + 0 + One(Waits(n.req[r])) - One(Waits(q))
              /\ n.num_background = k.num_background + One(Backs(n.req[r])) - One(Backs(q))
            BY <1>3, <1>6, <1>12, <2>1, <3>1 DEF One
        <3>3. /\ n.num_background = k.num_background + 1
              /\ n.blocked <=> k.blocked \/ n.num_background = FUSE_MAX_BACKGROUND
            BY <1>6, <2>1
        <3>4. n.req[r].state # "none" /\ n.req[r].end # "init" /\ k.nreq =< n.nreq
              /\ r =< n.nreq
            BY <1>6, <2>1
        <3>. QED  BY <1>1, <1>6, <1>11, <1>12, <3>2, <3>3, <3>4, StartedAccounts
    <2>2. CASE ~InList(n.pending, r)
        <3>1. /\ ~k.connected /\ n.req[r] = Freed /\ n.num_background = k.num_background
              /\ n.num_waiting = k.num_waiting + 0 - One(Waits(q))
            BY <1>6, <1>12, <2>2 DEF One
        <3>2. k.nreq =< n.nreq /\ r =< n.nreq
            BY <1>6
        <3>. QED  BY <1>1, <1>3, <1>6, <1>11, <1>12, <3>1, <3>2, FreedAccounts
    <2>. QED  BY <2>1, <2>2
<1>14. ServerElse(sv, sv, r) /\ HeldElse(h, h, r) /\ EnderElse(e, e, r)
    BY ElseSame
<1>15. Good(n, tl, sv, h, e)
    BY <1>6, <1>7, <1>10, <1>13, <1>14, Stepped DEF w
<1>. QED  BY <1>15 DEF n

\* Send of a request that the task does not wait for.
LEMMA SendBackgroundGood ==
    ASSUME NEW k, NEW tk, NEW sv, NEW h, NEW e, Good(k, tk, sv, h, e),
           NEW t \in Tasks, tk[t].pc = "send"
    PROVE  Good(request_send_background(k, tk[t].req), [tk EXCEPT ![t] = Idle], sv, h, e)
<1>. DEFINE r == tk[t].req
            q == k.req[r]
            set == [k EXCEPT !.req[r].isreply = TRUE]
            tl == [tk EXCEPT ![t] = Idle]
            v == View(k, tk, sv, h, e, r)
<1>1. /\ r \in Reqs /\ Shows(v, k, tk, sv, h, e, r) /\ Sound(v) /\ v.task = "send"
      /\ k \in FcRec /\ tk \in [Tasks -> TaskRec] /\ TasksFit(k, tk) /\ ListsOnce(k)
      /\ InitFirst(k)
    BY TaskKnown
<1>. HIDE DEF v
<1>2. /\ q.state = "init" /\ ~q.background /\ ~q.aborted /\ ~q.ended /\ q.count = 1
      /\ q \in ReqRec /\ v.task = TaskPc(tk, r)
    <2>1. v.q = q /\ q \in ReqRec /\ v.task = TaskPc(tk, r) /\ v \in ViewRec
        BY <1>1 DEF Shows
    <2>2. v.q.state = "init" /\ ~v.q.background /\ ~v.q.aborted /\ ~v.q.ended
          /\ v.q.count = 1
        BY <1>1, <2>1 DEF Sound, Waited, Life, Counted, Alive, One, WaitPcs, Kept
    <2>. QED  BY <2>1, <2>2
<1>3. r # INIT /\ Late(k) /\ q.end # "init"
    BY <1>1, <1>2 DEF InitFirst, Alive, Late
<1>4. request_send_background(k, r) = request_send_nowait(set, r)
    BY DEF request_send_background
<1>5. ReqIs(k, set, r, set.req[r]) /\ Like({"isreply"}, q, set.req[r])
    BY <1>1, ReplyReq
<1>6. TaskWent(tk, tl, t, "idle")
    BY DEF TaskWent
<1>. HIDE DEF set, tl, q
<1>7. /\ set \in FcRec /\ SameQueues(k, set) /\ SameNumbers(k, set)
      /\ set.connected = k.connected /\ set.nreq = k.nreq
      /\ \A x \in Reqs \ {r} : set.req[x] = k.req[x]
    BY <1>1, <1>5, ReqIsElse DEF OnlyReq
<1>8. k.nreq =< set.nreq /\ r =< set.nreq
    <2>1. r \in Int /\ k.nreq \in Int /\ r =< k.nreq
        BY <1>1 DEF FcRec, Reqs, TasksFit
    <2>. QED  BY <1>7, <2>1
<1>9. /\ set.req[r].count = 1 /\ ~set.req[r].ended /\ ~set.req[r].aborted
      /\ ~set.req[r].background /\ set.req[r].state # "freed"
      /\ set.req[r].end # "init" /\ (Waits(q) <=> set.req[r].waiting)
    BY <1>2, <1>3, <1>5 DEF Like, Waits, Alive
<1>10. tk[t].pc # "idle" /\ "idle" \in {"idle", "get", "reserved"} \cup WaitPcs
    OBVIOUS
<1>11. /\ tl \in [Tasks -> TaskRec] /\ TasksFit(set, tl) /\ TaskElse(tk, tl, r)
       /\ TaskPc(tl, r) = "none"
       /\ Cardinality(Getting(tl)) = Cardinality(Getting(tk))
             + (One("idle" \in {"get", "reserved"}) - One(Wants(tk[t])))
    BY <1>1, <1>6, <1>7, <1>10, TaskGoes
<1>12. \A n : Reserving(tk, tl, n)
    BY <1>1 DEF Reserving, tl, Idle
<1>13. Cardinality(Getting(tl)) = Cardinality(Getting(tk))
    <2>1. One("idle" \in {"get", "reserved"}) - One(Wants(tk[t])) = 0
        BY DEF One, Wants
    <2>. QED  BY <1>11, <2>1, GettingSame
<1>14. Good(request_send_nowait(set, r), tl, sv, h, e)
    <2>. USE DEF q
    <2>. HIDE DEF r
    <2>. QED  BY ONLY Good(k, tk, sv, h, e), <1>1, <1>2, <1>3, <1>7, <1>8, <1>9, <1>11,
                      <1>12, <1>13, NowaitGood
<1>. QED  BY <1>4, <1>14 DEF tl

\* A request that was never used.
LEMMA UnusedReq ==
    ASSUME NEW k, NEW tk, NEW sv, NEW h, NEW e, Good(k, tk, sv, h, e), k.nreq < MaxReq
    PROVE  LET r == k.nreq + 1
           IN  /\ r \in Reqs /\ r # INIT /\ k.req[r].state = "none" /\ k \in FcRec
               /\ k.req[r] = NoRequest /\ TaskPc(tk, r) = "none"
               /\ \A t \in Tasks : tk[t].req # r
<1>. DEFINE r == k.nreq + 1
            v == View(k, tk, sv, h, e, r)
<1>1. k \in FcRec /\ k.nreq \in Int /\ k.nreq > 0 /\ MaxReq \in Int
    BY DevAssumption DEF Good, Types, FcRec, Reqs
<1>2. r \in Reqs /\ r # INIT /\ r > k.nreq
    BY <1>1 DEF Reqs, INIT
<1>3. k.req[r].state = "none"
    BY <1>2 DEF Good, InitFirst
<1>4. Shows(v, k, tk, sv, h, e, r) /\ Sound(v)
    BY <1>2, ViewShows DEF Good, ReqsSound
<1>5. k.req[r] = NoRequest
    BY <1>3, <1>4 DEF Shows, Sound, Life
<1>6. ASSUME NEW t \in Tasks  PROVE tk[t].req # r
    <2>1. tk[t].req =< k.nreq /\ tk[t].req \in Int
        BY DEF Good, TasksFit, Types, TaskRec, Reqs
    <2>. QED  BY <1>1, <2>1
<1>7. TaskPc(tk, r) = "none"
    BY <1>6 DEF TaskPc
<1>. QED  BY <1>1, <1>2, <1>3, <1>5, <1>6, <1>7

\* FORGET and RELEASE.
LEMMA UnwaitedGood ==
    ASSUME NEW k, NEW tk, NEW sv, NEW h, NEW e, Good(k, tk, sv, h, e), k.nreq < MaxReq,
           k.req[INIT].state = "freed"
    PROVE  LET r == k.nreq + 1
               c == [k EXCEPT !.nreq = r]
               set == [c EXCEPT !.req[r] = fuse_request_init]
           IN  /\ Good(request_send_noreply(set, r), tk, sv, h, e)
               /\ Good(request_send_background(set, r), tk, sv, h, e)
<1>. DEFINE r == k.nreq + 1
            q == k.req[r]
            c == [k EXCEPT !.nreq = r]
            set == [c EXCEPT !.req[r] = fuse_request_init]
            rep == [set EXCEPT !.req[r].isreply = TRUE]
<1>1. /\ r \in Reqs /\ r # INIT /\ q.state = "none" /\ k \in FcRec
      /\ TaskPc(tk, r) = "none"
    BY UnusedReq
<1>2. ListsOnce(k) /\ tk \in [Tasks -> TaskRec] /\ TasksFit(k, tk) /\ Late(k)
    BY DEF Good, Types, Late, Alive
<1>3. k.nreq \in Int /\ k.nreq =< r /\ r =< r
    BY <1>1 DEF FcRec, Reqs
<1>4. request_send_noreply(set, r) = request_send_nowait(set, r)
      /\ request_send_background(set, r) = request_send_nowait(rep, r)
    BY DEF request_send_noreply, request_send_background
<1>. HIDE DEF r
<1>5. LikeFc({"nreq"}, k, c) /\ c.nreq = r
    BY <1>1, FcNreq
<1>. HIDE DEF c
<1>6. c \in FcRec /\ fuse_request_init \in ReqRec
    BY <1>5, FixedReqs DEF LikeFc
<1>7. ReqIs(c, set, r, fuse_request_init)
    BY <1>1, <1>6, OneReq
<1>. HIDE DEF set
<1>8. set \in FcRec
    BY <1>7 DEF ReqIs
<1>9. ReqIs(set, rep, r, rep.req[r]) /\ Like({"isreply"}, set.req[r], rep.req[r])
    BY <1>1, <1>8, ReplyReq
<1>. HIDE DEF rep
<1>10. LET p == fuse_request_init
       IN  /\ p.count = 1 /\ ~p.ended /\ ~p.aborted /\ ~p.background
           /\ p.state # "freed" /\ p.end # "init" /\ ~p.waiting
    BY DEF fuse_request_init, NoRequest
<1>11. ~Waits(q)
    BY <1>1 DEF Waits, Alive
<1>12. /\ TaskElse(tk, tk, r) /\ \A n : Reserving(tk, tk, n)
    BY DEF TaskElse, Reserving
<1>13. ASSUME NEW s \in {set, rep}
       PROVE  Good(request_send_nowait(s, r), tk, sv, h, e)
    <2>1. /\ s \in FcRec /\ s.connected = k.connected /\ s.nreq = r
          /\ SameQueues(k, s) /\ SameNumbers(k, s)
          /\ \A x \in Reqs \ {r} : s.req[x] = k.req[x]
        BY <1>5, <1>7, <1>9 DEF LikeFc, ReqIs, SameQueues, SameNumbers
    <2>2. /\ s.req[r].count = 1 /\ ~s.req[r].ended /\ ~s.req[r].aborted
          /\ ~s.req[r].background /\ s.req[r].state # "freed"
          /\ s.req[r].end # "init" /\ ~s.req[r].waiting
        BY <1>7, <1>9, <1>10 DEF ReqIs, Like
    <2>3. TasksFit(s, tk) /\ k.nreq =< s.nreq /\ r =< s.nreq
        <3>1. \A t \in Tasks : tk[t].req \in Int
            BY <1>2 DEF TaskRec, Reqs
        <3>2. r \in Int
            BY <1>1 DEF Reqs
        <3>. QED  BY <1>2, <1>3, <2>1, <3>1, <3>2 DEF TasksFit
    <2>. HIDE DEF q
    <2>4. Waits(k.req[r]) <=> s.req[r].waiting
        BY <1>11, <2>2 DEF q
    <2>5. TaskPc(tk, r) = "none" /\ k.req[r].state = "none"
        BY <1>1 DEF q
    <2>. QED  BY ONLY Good(k, tk, sv, h, e), <1>1, <1>2, <1>12, <2>1, <2>2, <2>3, <2>4,
                      <2>5, NowaitGood
<1>. QED  BY <1>4, <1>13 DEF set, rep, c, r

\* The other calls.
LEMMA GetGood ==
    ASSUME NEW k, NEW tk, NEW sv, NEW h, NEW e, Good(k, tk, sv, h, e), k.nreq < MaxReq,
           NEW t \in Tasks, tk[t].pc = "idle", NEW kind \in {"call", "flush", "readpages"}
    PROVE  LET r == k.nreq + 1
               c == [k EXCEPT !.nreq = r]
           IN  Good([c EXCEPT !.num_waiting = @ + 1],
                    [tk EXCEPT ![t].pc = "get", ![t].kind = kind, ![t].req = r], sv, h, e)
<1>. DEFINE r == k.nreq + 1
            q == k.req[r]
            c == [k EXCEPT !.nreq = r]
            m == c.num_waiting + 1
            n == [c EXCEPT !.num_waiting = m]
            to == [pc |-> "get", kind |-> kind, req |-> r, sig |-> tk[t].sig]
            tl == [tk EXCEPT ![t] = to]
            v == View(k, tk, sv, h, e, r)
            w == View(n, tl, sv, h, e, r)
<1>1. /\ r \in Reqs /\ r # INIT /\ q.state = "none" /\ k \in FcRec
      /\ q = NoRequest /\ TaskPc(tk, r) = "none"
    BY UnusedReq
<1>2. /\ ListsOnce(k) /\ tk \in [Tasks -> TaskRec] /\ TasksFit(k, tk) /\ InitFirst(k)
      /\ NumbersTrue(k, tk) /\ Shows(v, k, tk, sv, h, e, r) /\ Sound(v)
    BY <1>1, ViewShows DEF Good, Types, ReqsSound
<1>3. tk[t] \in TaskRec /\ tk[t].req = 0
    BY <1>2 DEF TasksFit
<1>4. to \in TaskRec /\ to.pc = "get" /\ to.req = r
    BY <1>1, <1>3 DEF TaskRec
<1>5. tl = [tk EXCEPT ![t].pc = "get", ![t].kind = kind, ![t].req = r]
    BY <1>2, <1>3 DEF TaskRec
<1>6. k.nreq \in Int /\ r \in Int /\ r > k.nreq /\ k.num_waiting \in Int
    BY <1>1 DEF FcRec, Reqs
<1>. HIDE DEF v, to, r, q
<1>7. LikeFc({"nreq"}, k, c) /\ c.nreq = r
    BY <1>1, FcNreq
<1>. HIDE DEF c
<1>8. c \in FcRec /\ m = k.num_waiting + 1
    BY <1>7 DEF LikeFc
<1>9. n = [c EXCEPT !.num_waiting = c.num_waiting + 1]
    OBVIOUS
<1>10. m \in Int
    BY <1>6, <1>8
<1>. HIDE DEF m
<1>11. LikeFc({"num_waiting"}, c, n) /\ n.num_waiting = m
    BY <1>8, <1>10, FcNumWaiting
<1>. HIDE DEF n
<1>12. /\ LikeFc({"nreq", "num_waiting"}, k, n) /\ n.nreq = r
       /\ n.num_waiting = k.num_waiting + 1
    BY <1>7, <1>8, <1>11 DEF LikeFc
<1>13. TaskMoved(k, tk, n, tl, t, to)
    <2>1. n.nreq \in Int /\ k.nreq =< n.nreq /\ to.req =< n.nreq /\ to.req > k.nreq
          /\ (to.pc = "idle" <=> to.req = 0)
        BY <1>1, <1>4, <1>6, <1>12 DEF Reqs
    <2>. QED  BY <1>2, <1>4, <1>6, <2>1, TaskMoves
<1>. HIDE DEF tl
<1>14. /\ tl \in [Tasks -> TaskRec] /\ TasksFit(n, tl) /\ TaskElse(tk, tl, r)
       /\ TaskPc(tl, r) = "get" /\ tl[t].pc = "get"
       /\ \A u \in Tasks \ {t} : tl[u] = tk[u]
    <2>1. r # 0 /\ \A y \in Reqs : y # 0
        BY <1>1 DEF Reqs
    <2>. QED  BY <1>3, <1>4, <1>13, <2>1 DEF TaskMoved, TaskElse
<1>15. Types(n, tl, sv, h, e) /\ EnderFits(n, e) /\ ServersFit(sv) /\ ListsOnce(n)
    BY <1>2, <1>12, <1>14 DEF Good, Types, LikeFc, EnderFits, ListsOnce
<1>16. FcElse(k, n, r) /\ n.req = k.req /\ n.connected = k.connected
    BY <1>12 DEF FcElse, LikeFc
<1>17. Reserving(tk, tl, n)
    BY <1>14 DEF Reserving
<1>18. Shows(w, n, tl, sv, h, e, r)
    BY <1>1, <1>14, <1>15, ViewShows
<1>. HIDE DEF w
<1>19. Sound(w)
    <2>1. w.q = v.q /\ w.task = "get" /\ v.task = "none" /\ v.q.state = "none"
          /\ LikeView({"task"}, v, w) /\ v \in ViewRec
        BY <1>1, <1>2, <1>12, <1>14, <1>18 DEF Shows, LikeView, LikeFc, q
    <2>. QED  BY <1>2, <2>1 DEF Sound, OnLists, Life, Counted, Copied, Waited, Kept, Alive,
                               One, LikeView, WaitPcs
<1>20. Accounts(k, n, tl)
    <2>1. WaitingReqs(n) = WaitingReqs(k) /\ BackgroundReqs(n) = BackgroundReqs(k)
        BY <1>16 DEF WaitingReqs, BackgroundReqs
    <2>2. /\ Cardinality(Getting(tk)) \in Nat /\ Cardinality(Getting(tl)) =
                Cardinality(Getting(tk)) + One(Wants(tl[t])) - One(Wants(tk[t]))
        BY <1>14, GettingCount
    <2>3. One(Wants(tl[t])) = 1 /\ One(Wants(tk[t])) = 0
        BY <1>14 DEF One, Wants
    <2>4. Cardinality(Getting(tl)) = Cardinality(Getting(tk)) + 1
        BY <2>2, <2>3
    <2>5. Cardinality(WaitingReqs(k)) \in Nat
        BY <1>1, ReqsCount
    <2>6. n.num_waiting = Cardinality(Getting(tl)) + Cardinality(WaitingReqs(n))
        BY <1>2, <1>12, <2>1, <2>2, <2>4, <2>5 DEF NumbersTrue
    <2>7. NumbersTrue(n, tl)
        BY <1>2, <1>12, <1>16, <2>1, <2>6 DEF NumbersTrue, LikeFc
    <2>8. ASSUME NEW y \in Reqs, y > n.nreq  PROVE y > k.nreq
        BY <1>6, <1>12, <2>8 DEF Reqs
    <2>9. InitFirst(n)
        BY <1>2, <1>12, <1>16, <2>8 DEF InitFirst, LikeFc
    <2>10. Late(k) => Late(n)
        BY <1>16 DEF Late
    <2>. QED  BY <2>7, <2>9, <2>10 DEF Accounts
<1>21. ServerElse(sv, sv, r) /\ HeldElse(h, h, r) /\ EnderElse(e, e, r)
    BY ElseSame
<1>22. Good(n, tl, sv, h, e)
    BY <1>1, <1>14, <1>15, <1>16, <1>17, <1>19, <1>20, <1>21, Stepped DEF w
<1>. QED  BY <1>5, <1>9, <1>22 DEF c, r

\* A signal.
LEMMA SignalGood ==
    ASSUME NEW k, NEW tk, NEW sv, NEW h, NEW e, Good(k, tk, sv, h, e),
           NEW t \in Tasks, NEW sig \in {"signal", "kill"}
    PROVE  Good(k, [tk EXCEPT ![t].sig = sig], sv, h, e)
<1>. DEFINE to == [tk[t] EXCEPT !.sig = sig]
            tl == [tk EXCEPT ![t] = to]
<1>1. tk \in [Tasks -> TaskRec] /\ TasksFit(k, tk) /\ tk[t] \in TaskRec
    BY DEF Good, Types
<1>2. to \in TaskRec /\ to.pc = tk[t].pc /\ to.req = tk[t].req
    BY <1>1 DEF TaskRec
<1>3. tl = [tk EXCEPT ![t].sig = sig]
    OBVIOUS
<1>. HIDE DEF to
<1>4. tl \in [Tasks -> TaskRec] /\ \A u \in Tasks : tl[u].pc = tk[u].pc /\ tl[u].req = tk[u].req
    BY <1>1, <1>2
<1>. HIDE DEF tl
<1>5. TasksFit(k, tl)
    BY <1>1, <1>4 DEF TasksFit
<1>6. \A y \in Reqs : TaskPc(tl, y) = TaskPc(tk, y)
    BY <1>1, <1>4, <1>5, TaskPcSame
<1>7. Getting(tl) = Getting(tk)
    BY <1>4 DEF Getting, Wants
<1>8. INIT \in Reqs
    BY DevAssumption DEF Reqs, INIT
<1>9. Types(k, tl, sv, h, e) /\ ListsOnce(k) /\ ServersFit(sv) /\ EnderFits(k, e)
    BY <1>4 DEF Good, Types
<1>10. FcElse(k, k, INIT) /\ TaskElse(tk, tl, INIT) /\ Reserving(tk, tl, k)
    BY <1>4, <1>6 DEF FcElse, TaskElse, Reserving
<1>11. Accounts(k, k, tl)
    BY <1>7 DEF Good, Accounts, NumbersTrue
<1>12. ServerElse(sv, sv, INIT) /\ HeldElse(h, h, INIT) /\ EnderElse(e, e, INIT)
    BY ElseSame
<1>13. Sound(View(k, tl, sv, h, e, INIT))
    <2>1. View(k, tl, sv, h, e, INIT) = View(k, tk, sv, h, e, INIT)
        BY <1>6, <1>8 DEF View
    <2>. QED  BY <1>8, <2>1 DEF Good, ReqsSound
<1>14. Good(k, tl, sv, h, e)
    BY <1>5, <1>8, <1>9, <1>10, <1>11, <1>12, <1>13, Stepped
<1>. QED  BY <1>3, <1>14

\* The steps of a task keep the invariant.
LEMMA TaskStepInv ==
    ASSUME DevInv, NEW t \in Tasks, TaskStep(t)
    PROVE  DevInv'
<1>. DEFINE r == task[t].req
<1>1. Good(fc, task, server, held, ender) /\ fc \in FcRec
    BY DEF DevInv, Good, Types
<1>2. SUFFICES Good(fc', task', server', held', ender')
    BY DEF DevInv
<1>3. ASSUME NEW y \in Int, fc' = Sleep(fc, y, t), UNCHANGED <<task, server, held, ender>>
      PROVE  Good(fc', task', server', held', ender')
    <2>1. Quiet(fc, fc')
        BY <1>1, <1>3, SleepQuiet
    <2>. QED  BY <1>1, <1>3, <2>1, QuietGood
<1>4. CASE fuse_get_req(t)
    <2>1. task[t].pc = "get" /\ UNCHANGED <<server, held, ender>>
        BY <1>4 DEF fuse_get_req, OnlyTask
    <2>2. CASE fc' = Sleep(fc, BlockedQ, t) /\ UNCHANGED task
        BY <1>3, <2>1, <2>2 DEF BlockedQ
    <2>3. CASE GiveUp(t)
        <3>. DEFINE n == [finish_wait(fc, t) EXCEPT !.num_waiting = @ - 1,
                                                    !.req[task[t].req] = Freed]
        <3>1. Good(n, [task EXCEPT ![t] = Idle], server, held, ender)
            BY ONLY <1>1, <2>1, GiveUpGood
        <3>2. fc' = n /\ task' = [task EXCEPT ![t] = Idle]
            BY <2>3 DEF GiveUp, Returns
        <3>. HIDE DEF n
        <3>. QED  BY <2>1, <3>1, <3>2
    <2>4. ~fc.blocked => Late(fc)
        BY <1>1 DEF Good, InitFirst, Late
    <2>5. CASE ~fc.blocked /\ Allocated(t, FALSE)
        <3>1. FALSE \in BOOLEAN /\ task[t].pc \in {"get", "reserved"}
            BY <2>1
        <3>. QED  BY <1>1, <2>1, <2>4, <2>5, <3>1, AllocatedGood DEF Allocated, Goto
    <2>6. CASE ~fc.blocked /\ Goto(t, "reserved") /\ UNCHANGED fc
        <3>1. Good(fc, task', server, held, ender)
            BY <1>1, <2>1, <2>4, <2>6, GotoGood DEF Goto
        <3>. QED  BY <2>1, <2>6, <3>1
    <2>. QED  BY <1>4, <2>2, <2>3, <2>5, <2>6 DEF fuse_get_req
<1>5. CASE get_reserved_req(t)
    <2>1. task[t].pc = "reserved" /\ UNCHANGED <<server, held, ender>>
        BY <1>5 DEF get_reserved_req, OnlyTask
    <2>2. CASE Allocated(t, TRUE)
        <3>1. TRUE \in BOOLEAN /\ task[t].pc \in {"get", "reserved"} /\ Late(fc)
            BY <1>1, <2>1 DEF Good, ReservedLate
        <3>. QED  BY <1>1, <2>1, <2>2, <3>1, AllocatedGood DEF Allocated, Goto
    <2>3. CASE fc' = Sleep(fc, ReservedQ, t) /\ UNCHANGED task
        BY <1>3, <2>1, <2>3 DEF ReservedQ
    <2>. QED  BY <1>5, <2>2, <2>3 DEF get_reserved_req
<1>6. CASE Send(t)
    <2>1. task[t].pc = "send" /\ UNCHANGED <<server, held, ender>>
        BY <1>6 DEF Send, OnlyTask
    <2>2. CASE fc' = request_send_background(fc, r) /\ Returns(t)
        BY <1>1, <2>1, <2>2, SendBackgroundGood DEF Returns
    <2>3. CASE request_send(t)
        <3>. DEFINE set == [fc EXCEPT !.req[r].isreply = TRUE]
        <3>1. ASSUME NEW x \in {"ENOTCONN", "ECONNREFUSED"},
                     fc' = [set EXCEPT !.req[r].error = x], Goto(t, "put")
              PROVE  Good(fc', task', server', held', ender')
            <4>. DEFINE n == [set EXCEPT !.req[r].error = x]
            <4>1. Good(n, [task EXCEPT ![t].pc = "put"], server, held, ender)
                BY ONLY <1>1, <2>1, <3>1, RefusedGood, Zenon
            <4>2. fc' = n /\ task' = [task EXCEPT ![t].pc = "put"]
                BY <3>1 DEF Goto
            <4>. HIDE DEF n
            <4>. QED  BY <2>1, <4>1, <4>2, Zenon
        <3>2. ASSUME NEW pc \in {"wait1", "wait2"},
                     fc' = __fuse_get_request(queue_request(set, r), r), Goto(t, pc)
              PROVE  Good(fc', task', server', held', ender')
            BY <1>1, <2>1, <3>2, QueuedGood DEF Goto
        <3>3. \/ fc' = [set EXCEPT !.req[r].error = "ENOTCONN"] /\ Goto(t, "put")
              \/ fc' = [set EXCEPT !.req[r].error = "ECONNREFUSED"] /\ Goto(t, "put")
              \/ /\ fc' = __fuse_get_request(queue_request(set, r), r)
                 /\ Goto(t, IF fc.no_interrupt THEN "wait2" ELSE "wait1")
            BY <2>3 DEF request_send
        <3>. HIDE DEF set
        <3>4. CASE fc' = [set EXCEPT !.req[r].error = "ENOTCONN"] /\ Goto(t, "put")
            BY <3>1, <3>4
        <3>5. CASE fc' = [set EXCEPT !.req[r].error = "ECONNREFUSED"] /\ Goto(t, "put")
            BY <3>1, <3>5
        <3>6. CASE /\ fc' = __fuse_get_request(queue_request(set, r), r)
                   /\ Goto(t, IF fc.no_interrupt THEN "wait2" ELSE "wait1")
            BY <3>2, <3>6
        <3>. QED  BY <3>3, <3>4, <3>5, <3>6
    <2>. QED  BY <1>6, <2>2, <2>3 DEF Send
<1>7. ASSUME task[t].pc # "idle"  PROVE r \in Int
    BY <1>1, <1>7, TaskKnown DEF Reqs
<1>8. CASE wait_answer_interruptible(t)
    <2>1. task[t].pc = "wait1" /\ r \in Int /\ UNCHANGED <<server, held, ender>>
        BY <1>7, <1>8 DEF wait_answer_interruptible, OnlyTask
    <2>2. CASE fc' = Sleep(fc, r, t) /\ UNCHANGED task
        BY <1>3, <2>1, <2>2
    <2>3. CASE /\ Finished(r) /\ UNCHANGED fc
               /\ Goto(t, IF fc.req[r].aborted THEN "unlocked" ELSE "put")
        <3>1. Good(fc, task', server, held, ender)
            BY <1>1, <2>1, <2>3, GotoGood DEF Goto, Finished
        <3>. QED  BY <2>1, <2>3, <3>1
    <2>4. CASE /\ ~Finished(r) /\ Goto(t, "wait2")
               /\ LET k == [finish_wait(fc, t) EXCEPT !.req[r].interrupted = TRUE]
                  IN  fc' = IF fc.req[r].state = "sent" THEN queue_interrupt(k, r) ELSE k
        BY <1>1, <2>1, <2>4, InterruptedGood DEF Goto, Finished
    <2>. QED  BY <1>8, <2>2, <2>3, <2>4 DEF wait_answer_interruptible
<1>9. CASE request_wait_answer(t)
    <2>1. task[t].pc = "wait2" /\ r \in Int /\ UNCHANGED <<server, held, ender>>
        BY <1>7, <1>9 DEF request_wait_answer, OnlyTask
    <2>2. CASE fc' = Sleep(fc, r, t) /\ UNCHANGED task
        BY <1>3, <2>1, <2>2
    <2>3. CASE /\ Finished(r) /\ UNCHANGED fc
               /\ Goto(t, IF fc.req[r].aborted THEN "unlocked" ELSE "put")
        <3>1. Good(fc, task', server, held, ender)
            BY <1>1, <2>1, <2>3, GotoGood DEF Goto, Finished
        <3>. QED  BY <2>1, <2>3, <3>1
    <2>4. CASE /\ ~Finished(r) /\ Goto(t, "unlocked")
               /\ fc' = [finish_wait(fc, t) EXCEPT !.req[r].error = "EINTR",
                                                   !.req[r].aborted = TRUE]
        <3>. DEFINE n == [finish_wait(fc, t) EXCEPT !.req[r].error = "EINTR",
                                                    !.req[r].aborted = TRUE]
        <3>1. fc.req[task[t].req].state # "finished"
            BY <2>4 DEF Finished
        <3>2. Good(n, [task EXCEPT ![t].pc = "unlocked"], server, held, ender)
            BY ONLY <1>1, <2>1, <3>1, KilledGood
        <3>3. fc' = n /\ task' = [task EXCEPT ![t].pc = "unlocked"]
            BY <2>4 DEF Goto
        <3>. HIDE DEF n
        <3>. QED  BY <2>1, <3>2, <3>3
    <2>. QED  BY <1>9, <2>2, <2>3, <2>4 DEF request_wait_answer
<1>10. CASE Aborted(t)
    <2>1. task[t].pc = "unlocked" /\ r \in Int /\ UNCHANGED <<server, held, ender>>
        BY <1>7, <1>10 DEF Aborted, OnlyTask
    <2>2. CASE fc' = Sleep(fc, r, t) /\ UNCHANGED task
        BY <1>3, <2>1, <2>2
    <2>3. CASE /\ ~fc.req[r].locked /\ fc.req[r].state = "pending" /\ Goto(t, "put")
               /\ fc' = [list_del(fc, r) EXCEPT !.req[r].count = @ - 1]
        BY <1>1, <2>1, <2>3, TakenBackGood DEF Goto
    <2>4. CASE /\ ~fc.req[r].locked /\ fc.req[r].state # "pending" /\ UNCHANGED fc
               /\ Goto(t, AfterAbort(fc.req[r].state))
        <3>1. Good(fc, task', server, held, ender)
            BY <1>1, <2>1, <2>4, GotoGood DEF Goto
        <3>. QED  BY <2>1, <2>4, <3>1
    <2>. QED  BY <1>10, <2>2, <2>3, <2>4 DEF Aborted
<1>11. CASE WaitFinished(t)
    <2>1. task[t].pc = "answered" /\ r \in Int /\ UNCHANGED <<server, held, ender>>
        BY <1>7, <1>11 DEF WaitFinished, OnlyTask
    <2>2. CASE fc' = Sleep(fc, r, t) /\ UNCHANGED task
        BY <1>3, <2>1, <2>2
    <2>3. CASE Finished(r) /\ Goto(t, "put") /\ UNCHANGED fc
        <3>1. Good(fc, task', server, held, ender)
            BY <1>1, <2>1, <2>3, GotoGood DEF Goto, Finished
        <3>. QED  BY <2>1, <2>3, <3>1
    <2>. QED  BY <1>11, <2>2, <2>3 DEF WaitFinished
<1>12. CASE Put(t)
    BY <1>1, <1>12, PutGood DEF Put, Returns, OnlyTask
<1>. QED  BY <1>4, <1>5, <1>6, <1>8, <1>9, <1>10, <1>11, <1>12 DEF TaskStep

\* A call, and a signal.
LEMMA CallInv ==
    ASSUME DevInv, NEW t \in Tasks, NEW kind \in Kinds, Call(t, kind)
    PROVE  DevInv'
<1>. DEFINE r == fc.nreq + 1
            c == [fc EXCEPT !.nreq = r]
            set == [c EXCEPT !.req[r] = fuse_request_init]
<1>1. Good(fc, task, server, held, ender) /\ fc.nreq < MaxReq /\ task[t].pc = "idle"
      /\ UNCHANGED <<server, held, ender>>
    BY DEF DevInv, Call, OnlyTask
<1>2. CASE kind = "forget" /\ fc' = request_send_noreply(set, r) /\ UNCHANGED task
    <2>1. fc.req[INIT].state = "freed"
        BY <1>2 DEF Call
    <2>2. Good(request_send_noreply(set, r), task, server, held, ender)
        BY ONLY <1>1, <2>1, UnwaitedGood
    <2>. HIDE DEF set, r
    <2>. QED  BY <1>1, <1>2, <2>2 DEF DevInv
<1>3. CASE kind = "release" /\ fc' = request_send_background(set, r) /\ UNCHANGED task
    <2>1. fc.req[INIT].state = "freed"
        BY <1>3 DEF Call
    <2>2. Good(request_send_background(set, r), task, server, held, ender)
        BY ONLY <1>1, <2>1, UnwaitedGood
    <2>. HIDE DEF set, r
    <2>. QED  BY <1>1, <1>3, <2>2 DEF DevInv
<1>4. CASE /\ kind \in {"call", "flush", "readpages"}
           /\ fc' = [c EXCEPT !.num_waiting = @ + 1]
           /\ task' = [task EXCEPT ![t].pc = "get", ![t].kind = kind, ![t].req = r]
    <2>. DEFINE n == [c EXCEPT !.num_waiting = @ + 1]
                tl == [task EXCEPT ![t].pc = "get", ![t].kind = kind, ![t].req = r]
    <2>1. Good(n, tl, server, held, ender)
        BY ONLY <1>1, <1>4, GetGood, Zenon
    <2>2. fc' = n /\ task' = tl
        BY <1>4
    <2>. HIDE DEF n, tl
    <2>. QED  BY <1>1, <2>1, <2>2, Zenon DEF DevInv
<1>. QED  BY <1>2, <1>3, <1>4 DEF Call

\* A signal keeps the invariant.
LEMMA SignalInv ==
    ASSUME DevInv, NEW t \in Tasks, NEW sig \in {"signal", "kill"}, Signal(t, sig)
    PROVE  DevInv'
<1>1. Good(fc, [task EXCEPT ![t].sig = sig], server, held, ender)
    BY SignalGood DEF DevInv
<1>. QED  BY <1>1 DEF Signal, DevInv

(***************************************************************************)
(* The steps of the daemon's threads                                       *)
(***************************************************************************)
\* A request as the invariant shows it.
LEMMA ReqKnown ==
    ASSUME NEW k, NEW tk, NEW sv, NEW h, NEW e, Good(k, tk, sv, h, e), NEW r \in Reqs
    PROVE  LET v == View(k, tk, sv, h, e, r)
           IN  /\ Shows(v, k, tk, sv, h, e, r) /\ Sound(v) /\ v \in ViewRec
               /\ v.q = k.req[r] /\ v.q \in ReqRec /\ k \in FcRec /\ ListsOnce(k)
               /\ TasksFit(k, tk) /\ ServersFit(sv) /\ sv \in [Servers -> ServerRec]
               /\ InitFirst(k) /\ NumbersTrue(k, tk)
<1>. DEFINE v == View(k, tk, sv, h, e, r)
<1>1. Types(k, tk, sv, h, e) /\ TasksFit(k, tk)
    BY DEF Good
<1>2. Shows(v, k, tk, sv, h, e, r)
    BY <1>1, ViewShows
<1>3. Sound(v)
    BY DEF Good, ReqsSound
<1>. HIDE DEF v
<1>4. v \in ViewRec /\ v.q = k.req[r] /\ v.q \in ReqRec
    BY <1>2 DEF Shows
<1>5. /\ k \in FcRec /\ ListsOnce(k) /\ ServersFit(sv)
      /\ sv \in [Servers -> ServerRec] /\ InitFirst(k) /\ NumbersTrue(k, tk)
    BY DEF Good, Types
<1>. QED  BY <1>1, <1>2, <1>3, <1>4, <1>5 DEF v

\* A step that changes one request, threads of the daemon, and what it holds.
LEMMA ServerStepped ==
    ASSUME NEW k, NEW tk, NEW sv, NEW h, NEW e, Good(k, tk, sv, h, e), NEW r \in Reqs,
           NEW n, OnlyReq(k, n, r), FcElse(k, n, r), ListsOnce(n),
           NEW sl \in [Servers -> ServerRec], ServersFit(sl), ServerElse(sv, sl, r),
           NEW g, g \subseteq [req : Reqs, intr : BOOLEAN], HeldElse(h, g, r)
    PROVE  LET v == View(k, tk, sv, h, e, r)
               w == View(n, tk, sl, g, e, r)
           IN  /\ Shows(w, n, tk, sl, g, e, r)
               /\ LikeView({"q", "pending", "io", "processing", "interrupts", "copy",
                            "told", "window"}, v, w)
               /\ Sound(w) /\ Accounts(k, n, tk) => Good(n, tk, sl, g, e)
               /\ Sound(w) /\ SameNumbers(k, n) /\ CalmReq(k.req[r], n.req[r])
                     => Good(n, tk, sl, g, e)
<1>. DEFINE v == View(k, tk, sv, h, e, r)
            w == View(n, tk, sl, g, e, r)
<1>1. /\ Shows(v, k, tk, sv, h, e, r) /\ k \in FcRec
      /\ TasksFit(k, tk) /\ InitFirst(k) /\ NumbersTrue(k, tk)
    BY ReqKnown
<1>2. n \in FcRec /\ n.connected = k.connected /\ n.nreq = k.nreq
    BY DEF OnlyReq
<1>3. Types(n, tk, sl, g, e)
    BY <1>2 DEF Good, Types
<1>4. TasksFit(n, tk) /\ EnderFits(n, e)
    BY <1>1, <1>2 DEF Good, TasksFit, EnderFits
<1>5. Shows(w, n, tk, sl, g, e, r)
    BY <1>3, <1>4, ViewShows
<1>6. ASSUME Sound(w), Accounts(k, n, tk)
      PROVE  Good(n, tk, sl, g, e)
    <2>1. TaskElse(tk, tk, r) /\ EnderElse(e, e, r) /\ Reserving(tk, tk, n)
        BY ElseSame
    <2>. QED  BY <1>3, <1>4, <1>6, <2>1, Stepped
<1>7. ASSUME SameNumbers(k, n), CalmReq(k.req[r], n.req[r])
      PROVE  Accounts(k, n, tk)
    BY <1>1, <1>2, <1>7, CalmAccounts DEF CalmReq
<1>. HIDE DEF v, w
<1>8. LikeView({"q", "pending", "io", "processing", "interrupts", "copy", "told",
                "window"}, v, w)
    BY <1>1, <1>5 DEF Shows, LikeView
<1>. QED  BY <1>5, <1>6, <1>7, <1>8 DEF v, w

\* request_end of a request that is on a list or is copied, after the fields of
\* the request that the caller may change.
LEMMA EndedGood ==
    ASSUME NEW k, NEW tk, NEW sv, NEW h, NEW e, Good(k, tk, sv, h, e), NEW r \in Reqs,
           Kept(View(k, tk, sv, h, e, r)),
           NEW m, OnlyReq(k, m, r), FcElse(k, m, r), ListsOnce(m), SameNumbers(k, m),
           Like({"locked", "state", "error", "copied"}, k.req[r], m.req[r]),
           m.req[r].state # "freed",
           \/ m.req[r].aborted \/ m.req[r].background \/ m.req[r].error # "none"
           \/ m.req[r].copied,
           m.req[r].aborted => m.req[r].error # "none",
           NEW sl \in [Servers -> ServerRec], ServersFit(sl), ServerElse(sv, sl, r),
           CopyPc(sl, r) = "none", InWindow(sl, r) => InWindow(sv, r)
    PROVE  Good(request_end(m, r), tk, sl, h, e)
<1>. DEFINE q == k.req[r]
            p == m.req[r]
            n == request_end(m, r)
            v == View(k, tk, sv, h, e, r)
            w == View(n, tk, sl, h, e, r)
<1>1. /\ Shows(v, k, tk, sv, h, e, r) /\ Sound(v) /\ v \in ViewRec /\ v.q = q
      /\ q \in ReqRec /\ k \in FcRec /\ InitFirst(k) /\ NumbersTrue(k, tk)
    BY ReqKnown
<1>2. Kept(v)
    OBVIOUS
<1>. HIDE DEF v
<1>3. Alive(q) /\ q.state # "init" /\ ~q.ended
    BY <1>1, <1>2 DEF Sound, Life
<1>4. p \in ReqRec /\ p.count = q.count /\ p.waiting = q.waiting /\ ~p.ended
      /\ p.background = q.background /\ p.end = q.end
    BY <1>3 DEF Like
<1>5. m \in FcRec
    BY DEF OnlyReq
<1>6. /\ OnlyReq(m, n, r) /\ OffThree(m, n, r) /\ OffQueue(m, n, r)
      /\ p.count # 1 => n.req[r] = Less(DoneReq(p)) /\ n.num_waiting = m.num_waiting
      /\ p.count = 1 => n.req[r] = Freed /\ n.num_waiting = m.num_waiting - One(p.waiting)
      /\ n.num_background = m.num_background - One(p.background)
      /\ n.blocked <=> /\ m.blocked /\ p.end # "init"
                       /\ ~(p.background /\ m.num_background = FUSE_MAX_BACKGROUND)
    BY <1>4, <1>5, RequestEnd
<1>. HIDE DEF n, p, q
<1>7. OnlyReq(k, n, r)
    BY <1>6 DEF OnlyReq
<1>8. FcElse(k, n, r) /\ ListsOnce(n)
    BY <1>6 DEF FcElse, OnlyReq, OffThree, OffQueue, ListsOnce
<1>10. ASSUME p.count # 1
       PROVE  /\ Like({"count", "end", "ended", "state"}, p, n.req[r])
              /\ n.req[r].state = "finished" /\ n.req[r].ended /\ n.req[r].end = "none"
              /\ n.req[r].count = p.count - 1
    <2>. DEFINE d == DoneReq(p)
    <2>1. /\ d \in ReqRec /\ d.state = "finished" /\ d.ended = TRUE
          /\ d.end = "none" /\ Like({"end", "ended", "state"}, p, d)
        BY <1>4, DoneFields DEF Like
    <2>. HIDE DEF d
    <2>2. Like({"count"}, d, Less(d)) /\ Less(d).count = d.count - 1
        BY <2>1, LessFields
    <2>3. n.req[r] = Less(d)
        BY <1>6, <1>10 DEF d
    <2>. QED  BY <2>1, <2>2, <2>3 DEF Like
<1>11. h \subseteq [req : Reqs, intr : BOOLEAN] /\ HeldElse(h, h, r)
    BY ElseSame DEF Good, Types
<1>12. /\ Shows(w, n, tk, sl, h, e, r)
       /\ LikeView({"q", "pending", "io", "processing", "interrupts", "copy", "told",
                    "window"}, v, w)
       /\ Sound(w) /\ Accounts(k, n, tk) => Good(n, tk, sl, h, e)
    BY <1>7, <1>8, <1>11, ServerStepped DEF v
<1>. HIDE DEF w
<1>13. /\ LikeView({"q", "pending", "io", "processing", "interrupts", "copy"}, v, w)
       /\ w.q = n.req[r] /\ w.copy = "none"
       /\ ~w.pending /\ ~w.io /\ ~w.processing /\ ~w.interrupts
    BY <1>1, <1>6, <1>12 DEF LikeView, Shows, OffThree, OffQueue
<1>14. Like({"locked", "state", "error", "copied"}, v.q, p)
    BY <1>1 DEF q, p
<1>15. p.aborted \/ p.background \/ p.error # "none" \/ p.copied
    BY DEF p
<1>16. p.aborted => p.error # "none"
    BY DEF p
<1>17. Sound(w)
    <2>1. p.count = 1 => w.q = Freed
        BY <1>6, <1>13
    <2>2. p.count # 1 => /\ Like({"count", "end", "ended", "state"}, p, w.q)
                         /\ w.q.state = "finished" /\ w.q.ended
                         /\ w.q.count = p.count - 1
        BY <1>10, <1>13
    <2>. QED  BY ONLY <1>1, <1>2, <1>13, <1>14, <1>15, <1>16, <2>1, <2>2, ViewEnded
<1>18. Accounts(k, n, tk)
    <2>1. n \in FcRec /\ n.connected = k.connected /\ k.nreq = n.nreq
        BY <1>7 DEF OnlyReq
    <2>2. q.count = 1 => n.req[r] = Freed
        BY <1>4, <1>6
    <2>3. q.count # 1 => /\ n.req[r].state = "finished" /\ n.req[r].ended
                         /\ n.req[r].end = "none" /\ n.req[r].waiting = q.waiting
                         /\ n.req[r].background = q.background
        BY <1>4, <1>10 DEF Like
    <2>4. n.num_waiting = k.num_waiting - One(q.count = 1 /\ q.waiting)
        <3>1. m.num_waiting = k.num_waiting /\ k.num_waiting \in Int
            BY <1>1 DEF SameNumbers, FcRec
        <3>2. CASE q.count = 1
            <4>1. (q.count = 1 /\ q.waiting) <=> p.waiting
                BY <1>4, <3>2
            <4>. QED  BY <1>4, <1>6, <3>1, <3>2, <4>1 DEF One
        <3>3. CASE q.count # 1
            BY <1>4, <1>6, <3>1, <3>3 DEF One
        <3>. QED  BY <3>2, <3>3
    <2>5. n.num_background = k.num_background - One(q.background)
        BY <1>4, <1>6 DEF SameNumbers
    <2>6. n.blocked <=> /\ k.blocked /\ q.end # "init"
                        /\ ~(q.background /\ k.num_background = FUSE_MAX_BACKGROUND)
        BY <1>4, <1>6 DEF SameNumbers
    <2>7. k.connected /\ r = INIT => q.count = 1
        <3>1. SUFFICES ASSUME k.connected, r = INIT  PROVE q.count = 1
            OBVIOUS
        <3>2. q.background
            BY <1>1, <1>3, <3>1 DEF InitFirst, q
        <3>3. v.task \notin WaitPcs
            BY <1>1, <3>2 DEF Sound, Waited
        <3>4. ~v.ender
            <4>1. e["abort"].req = 0
                BY <3>1 DEF Good, EnderFits
            <4>2. r # 0
                BY <3>1 DEF INIT
            <4>. QED  BY <1>1, <4>1, <4>2 DEF Shows
        <3>5. v.q.count = One(Kept(v)) + One(v.task \in WaitPcs) + One(v.ender)
            BY <1>1, <1>3 DEF Sound, Counted
        <3>. QED  BY <1>1, <1>2, <3>3, <3>4, <3>5 DEF One
    <2>. QED  BY ONLY <1>1, <1>3, <1>8, <2>1, <2>2, <2>3, <2>4, <2>5, <2>6, <2>7,
                      EndedAccounts DEF q
<1>. QED  BY <1>12, <1>17, <1>18 DEF n

\* A thread starts, goes on with, or ends its work on request r.
At(pc, r) == [pc |-> pc, req |-> IF pc = "idle" THEN 0 ELSE r]
Goes(sv, sl, s, pc, r) == sl = [sv EXCEPT ![s] = At(pc, r)]

\* A thread takes up a request, goes on with it, or is done.
LEMMA ServerGoes ==
    ASSUME NEW k, NEW tk, NEW sv, NEW h, NEW e, Good(k, tk, sv, h, e),
           NEW s \in Servers, NEW r \in Reqs, sv[s].req \in {0, r},
           NEW pc \in {"idle", "aborted"} \cup CopyPcs,
           pc \in CopyPcs => sv[s].pc \in CopyPcs \/ CopyPc(sv, r) = "none",
           NEW sl, Goes(sv, sl, s, pc, r)
    PROVE  /\ sl \in [Servers -> ServerRec] /\ ServersFit(sl) /\ ServerElse(sv, sl, r)
           /\ pc \in CopyPcs => CopyPc(sl, r) = pc
           /\ sv[s].pc \in CopyPcs /\ pc \notin CopyPcs => CopyPc(sl, r) = "none"
           /\ sv[s].pc \in CopyPcs => CopyPc(sv, r) = sv[s].pc
           /\ sv[s].pc \notin CopyPcs /\ pc \notin CopyPcs => CopyPc(sl, r) = CopyPc(sv, r)
           /\ pc # "aborted" => (InWindow(sl, r) => InWindow(sv, r))
<1>. DEFINE to == At(pc, r)
<1>1. to \in ServerRec /\ to.pc = pc /\ to.req = (IF pc = "idle" THEN 0 ELSE r)
    BY DEF At, ServerRec
<1>. HIDE DEF to
<1>2. sv \in [Servers -> ServerRec] /\ ServersFit(sv)
    BY DEF Good, Types
<1>3. /\ 0 \notin Reqs /\ "idle" \notin CopyPcs
      /\ sv[s].pc \in CopyPcs => sv[s].req = r
    BY <1>2 DEF Reqs, CopyPcs, ServersFit
<1>4. to.pc = "idle" <=> to.req = 0
    BY <1>1, <1>3
<1>5. to.pc \in CopyPcs => \/ sv[s].pc \in CopyPcs /\ to.req = sv[s].req
                           \/ CopyPc(sv, to.req) = "none"
    BY <1>1, <1>3 DEF ServersFit, CopyPcs
<1>6. ServerMoved(sv, sl, s, to)
    <2>1. sl = [sv EXCEPT ![s] = to]
        BY DEF Goes, to
    <2>. QED  BY <1>1, <1>2, <1>4, <1>5, <2>1, ServerMoves
<1>7. ServerElse(sv, sl, r)
    <2>1. SUFFICES ASSUME NEW y \in Reqs, y # r
                   PROVE  /\ CopyPc(sl, y) = CopyPc(sv, y)
                          /\ InWindow(sl, y) => InWindow(sv, y)
        BY DEF ServerElse
    <2>2. y # sv[s].req /\ y # to.req
        BY <1>1, <1>3, <2>1
    <2>. QED  BY <1>6, <2>2 DEF ServerMoved
<1>. QED  BY <1>1, <1>2, <1>3, <1>6, <1>7 DEF ServerMoved, ServersFit, CopyPcs

\* The request that a thread copies.
LEMMA CopyKnown ==
    ASSUME NEW k, NEW tk, NEW sv, NEW h, NEW e, Good(k, tk, sv, h, e),
           NEW s \in Servers, sv[s].pc \in CopyPcs
    PROVE  LET r == sv[s].req
               v == View(k, tk, sv, h, e, r)
           IN  /\ r \in Reqs /\ Shows(v, k, tk, sv, h, e, r) /\ Sound(v) /\ v \in ViewRec
               /\ v.q = k.req[r] /\ v.q \in ReqRec /\ k \in FcRec /\ ListsOnce(k)
               /\ v.copy = sv[s].pc /\ Kept(v)
               /\ k.req[r].state \notin {"none", "init", "pending", "sent", "freed"}
<1>. DEFINE r == sv[s].req
            v == View(k, tk, sv, h, e, r)
<1>1. sv \in [Servers -> ServerRec] /\ ServersFit(sv)
    BY DEF Good, Types
<1>2. r \in Reqs /\ CopyPc(sv, r) = sv[s].pc
    <2>1. r # 0 /\ r \in Reqs \cup {0}
        BY <1>1 DEF ServersFit, CopyPcs, ServerRec
    <2>. QED  BY <1>1, <2>1, CopyPcIs
<1>3. /\ Shows(v, k, tk, sv, h, e, r) /\ Sound(v) /\ v \in ViewRec
      /\ v.q = k.req[r] /\ v.q \in ReqRec /\ k \in FcRec /\ ListsOnce(k)
    BY <1>2, ReqKnown
<1>. HIDE DEF v
<1>4. v.copy = sv[s].pc /\ v.copy # "none"
    BY <1>2, <1>3 DEF Shows, CopyPcs
<1>5. v.q.state \in {"reading", "writing", "finished"}
    BY <1>3, <1>4 DEF Sound, Copied
<1>. QED  BY <1>2, <1>3, <1>4, <1>5 DEF Kept, v

\* lock_request and unlock_request, between two pages of a copy.
LEMMA PageGood ==
    ASSUME NEW k, NEW tk, NEW sv, NEW h, NEW e, Good(k, tk, sv, h, e),
           NEW s \in Servers, sv[s].pc \in CopyPcs, NEW pc, NEW x \in BOOLEAN,
           \/ /\ x /\ sv[s].pc \in {"rfault", "wfault"} /\ ~k.req[sv[s].req].aborted
              /\ pc = IF sv[s].pc = "rfault" THEN "rcopy" ELSE "wcopy"
           \/ /\ ~x /\ sv[s].pc \in {"rcopy", "wcopy"}
              /\ pc = IF sv[s].pc = "rcopy" THEN "rfault" ELSE "wfault",
           NEW sl, sl = [sv EXCEPT ![s].pc = pc]
    PROVE  Good([k EXCEPT !.req[sv[s].req].locked = x], tk, sl, h, e)
<1>. DEFINE r == sv[s].req
            q == k.req[r]
            n == [k EXCEPT !.req[r].locked = x]
            to == At(pc, r)
            v == View(k, tk, sv, h, e, r)
            w == View(n, tk, sl, h, e, r)
<1>1. /\ r \in Reqs /\ Shows(v, k, tk, sv, h, e, r) /\ Sound(v) /\ v \in ViewRec
      /\ v.q = q /\ k \in FcRec /\ ListsOnce(k) /\ v.copy = sv[s].pc
      /\ q.state # "none"
    BY CopyKnown
<1>. HIDE DEF v
<1>2. pc \in CopyPcs /\ pc \in {"idle", "aborted"} \cup CopyPcs /\ pc # "aborted"
      /\ pc # "idle"
    BY DEF CopyPcs
<1>3. /\ ReqIs(k, n, r, n.req[r]) /\ Like({"locked"}, q, n.req[r])
      /\ n.req[r].locked = x
    BY <1>1, LockedReq
<1>. HIDE DEF n
<1>4. /\ OnlyReq(k, n, r) /\ SameQueues(k, n) /\ SameNumbers(k, n)
      /\ FcElse(k, n, r) /\ ListsOnce(n)
    BY <1>1, <1>3, ReqIsElse
<1>5. Goes(sv, sl, s, pc, r)
    <2>1. sv \in [Servers -> ServerRec]
        BY DEF Good, Types
    <2>2. sv[s] \in [pc : {"idle", "aborted"} \cup CopyPcs, req : Reqs \cup {0}]
        BY <2>1 DEF ServerRec
    <2>3. [sv[s] EXCEPT !.pc = pc] = to
        BY <1>2, <2>2 DEF At
    <2>. QED  BY <2>1, <2>3 DEF Goes
<1>7. /\ sl \in [Servers -> ServerRec] /\ ServersFit(sl) /\ ServerElse(sv, sl, r)
      /\ CopyPc(sl, r) = pc /\ (InWindow(sl, r) => InWindow(sv, r))
    <2>1. Good(k, tk, sv, h, e) /\ s \in Servers /\ sv[s].req \in {0, r}
          /\ sv[s].pc \in CopyPcs
        OBVIOUS
    <2>. HIDE DEF r
    <2>. QED  BY ONLY <1>1, <1>2, <1>5, <2>1, ServerGoes
<1>8. CalmReq(q, n.req[r])
    BY <1>1, <1>3 DEF CalmReq, Like, Alive
<1>9. h \subseteq [req : Reqs, intr : BOOLEAN] /\ HeldElse(h, h, r)
    BY ElseSame DEF Good, Types
<1>10. /\ Shows(w, n, tk, sl, h, e, r)
       /\ LikeView({"q", "pending", "io", "processing", "interrupts", "copy",
                    "told", "window"}, v, w)
       /\ Sound(w) => Good(n, tk, sl, h, e)
    BY <1>1, <1>4, <1>7, <1>8, <1>9, ServerStepped DEF v
<1>. HIDE DEF w
<1>11. LikeView({"q", "copy"}, v, w) /\ w.q = n.req[r] /\ w.copy = pc
    BY <1>1, <1>4, <1>7, <1>10 DEF LikeView, Shows, SameQueues
<1>12. Sound(w)
    <2>1. CASE x
        <3>1. v.copy \in {"rfault", "wfault"} /\ ~v.q.aborted
              /\ w.copy = IF v.copy = "rfault" THEN "rcopy" ELSE "wcopy"
            BY <1>1, <1>11, <2>1
        <3>. QED  BY <1>1, <1>3, <1>11, <2>1, <3>1, ViewLocked
    <2>2. CASE ~x
        <3>1. v.copy \in {"rcopy", "wcopy"}
              /\ w.copy = IF v.copy = "rcopy" THEN "rfault" ELSE "wfault"
            BY <1>1, <1>11, <2>2
        <3>. QED  BY <1>1, <1>3, <1>11, <3>1, ViewUnlocked
    <2>. QED  BY <2>1, <2>2
<1>. QED  BY <1>10, <1>12 DEF n

\* A thread is done with its copy, and ends the request.
LEMMA CopyEndedGood ==
    ASSUME NEW k, NEW tk, NEW sv, NEW h, NEW e, Good(k, tk, sv, h, e),
           NEW s \in Servers, sv[s].pc \in CopyPcs, NEW r, r = sv[s].req,
           NEW m, ReqIs(k, m, r, m.req[r]),
           Like({"locked", "error", "copied"}, k.req[r], m.req[r]),
           \/ m.req[r].aborted \/ m.req[r].background \/ m.req[r].error # "none"
           \/ m.req[r].copied,
           m.req[r].aborted => m.req[r].error # "none",
           NEW sl, Goes(sv, sl, s, "idle", r)
    PROVE  Good(request_end(m, r), tk, sl, h, e)
<1>. DEFINE v == View(k, tk, sv, h, e, r)
<1>1. /\ r \in Reqs /\ Kept(v) /\ ListsOnce(k) /\ k.req[r].state # "freed"
    BY CopyKnown
<1>. HIDE DEF v
<1>2. "idle" \in {"idle", "aborted"} \cup CopyPcs /\ "idle" \notin CopyPcs
      /\ sv[s].req \in {0, r}
    BY DEF CopyPcs
<1>3. /\ sl \in [Servers -> ServerRec] /\ ServersFit(sl) /\ ServerElse(sv, sl, r)
      /\ CopyPc(sl, r) = "none" /\ (InWindow(sl, r) => InWindow(sv, r))
    BY <1>1, <1>2, ServerGoes
<1>4. /\ OnlyReq(k, m, r) /\ SameNumbers(k, m) /\ FcElse(k, m, r) /\ ListsOnce(m)
    BY <1>1, ReqIsElse
<1>5. /\ Like({"locked", "state", "error", "copied"}, k.req[r], m.req[r])
      /\ m.req[r].state # "freed"
    BY <1>1 DEF Like
<1>. QED  BY <1>1, <1>3, <1>4, <1>5, EndedGood DEF v

\* The end of a write of the daemon.
LEMMA WriteDoneGood ==
    ASSUME NEW k, NEW tk, NEW sv, NEW h, NEW e, Good(k, tk, sv, h, e),
           NEW s \in Servers, sv[s].pc \in CopyPcs, NEW err \in BOOLEAN,
           NEW sl, Goes(sv, sl, s, "idle", sv[s].req)
    PROVE  Good(WriteDone(k, sv[s].req, err), tk, sl, h, e)
<1>. DEFINE r == sv[s].req
            q == k.req[r]
            v == View(k, tk, sv, h, e, r)
            u == [k EXCEPT !.req[r].locked = FALSE]
            m == IF u.req[r].aborted THEN u
                 ELSE IF err THEN [u EXCEPT !.req[r].error = "EIO"]
                 ELSE [u EXCEPT !.req[r].copied = TRUE]
<1>1. WriteDone(k, r, err) = request_end(m, r)
    BY DEF WriteDone
<1>2. /\ r \in Reqs /\ Sound(v) /\ v.q = q /\ k \in FcRec
    BY CopyKnown
<1>. HIDE DEF v
<1>3. q.aborted => q.error # "none"
    BY <1>2 DEF Sound, Life
<1>4. ReqIs(k, u, r, u.req[r]) /\ Like({"locked"}, q, u.req[r])
    BY <1>2, LockedReq
<1>. HIDE DEF u, r
<1>5. u \in FcRec
    BY <1>4 DEF ReqIs
<1>6. /\ ReqIs(k, m, r, m.req[r]) /\ Like({"locked", "error", "copied"}, q, m.req[r])
      /\ m.req[r].aborted \/ m.req[r].error # "none" \/ m.req[r].copied
      /\ m.req[r].aborted => m.req[r].error # "none"
    <2>1. CASE u.req[r].aborted
        BY <1>3, <1>4, <2>1 DEF Like
    <2>2. CASE ~u.req[r].aborted /\ err
        <3>. DEFINE a == [u EXCEPT !.req[r].error = "EIO"]
        <3>1. m = a
            BY <2>2
        <3>2. /\ ReqIs(u, a, r, a.req[r]) /\ Like({"error"}, u.req[r], a.req[r])
              /\ a.req[r].error = "EIO"
            BY <1>2, <1>5, ErrorNames, ErrorReq
        <3>. HIDE DEF a, m
        <3>3. ReqIs(k, a, r, a.req[r])
            BY <1>4, <3>2 DEF ReqIs, LikeFc
        <3>. QED  BY <1>4, <2>2, <3>1, <3>2, <3>3 DEF Like
    <2>3. CASE ~u.req[r].aborted /\ ~err
        <3>. DEFINE a == [u EXCEPT !.req[r].copied = TRUE]
        <3>1. m = a
            BY <2>3
        <3>2. /\ ReqIs(u, a, r, a.req[r]) /\ Like({"copied"}, u.req[r], a.req[r])
              /\ a.req[r].copied
            BY <1>2, <1>5, CopiedReq
        <3>. HIDE DEF a, m
        <3>3. ReqIs(k, a, r, a.req[r])
            BY <1>4, <3>2 DEF ReqIs, LikeFc
        <3>. QED  BY <1>4, <2>3, <3>1, <3>2, <3>3 DEF Like
    <2>. QED  BY <2>1, <2>2, <2>3
<1>. HIDE DEF m
<1>7. r = sv[s].req
    BY DEF r
<1>8. Good(request_end(m, r), tk, sl, h, e)
    BY <1>6, <1>7, CopyEndedGood
<1>. QED  BY <1>1, <1>7, <1>8

\* The end of a read of the daemon that ends the request: the copy failed, the
\* request was aborted, or no reply is expected.
LEMMA ReadEndedGood ==
    ASSUME NEW k, NEW tk, NEW sv, NEW h, NEW e, Good(k, tk, sv, h, e),
           NEW s \in Servers, sv[s].pc \in CopyPcs, NEW err \in BOOLEAN,
           err \/ k.req[sv[s].req].aborted \/ ~k.req[sv[s].req].isreply,
           NEW sl, Goes(sv, sl, s, "idle", sv[s].req)
    PROVE  Good(ReadDone(k, sv[s].req, err), tk, sl, h, e)
<1>. DEFINE r == sv[s].req
            q == k.req[r]
            v == View(k, tk, sv, h, e, r)
            u == [k EXCEPT !.req[r].locked = FALSE]
            m == IF u.req[r].aborted \/ ~err THEN u ELSE [u EXCEPT !.req[r].error = "EIO"]
<1>1. /\ r \in Reqs /\ Sound(v) /\ v.q = q /\ k \in FcRec
      /\ q.state \notin {"none", "init", "pending", "sent", "freed"}
    BY CopyKnown
<1>. HIDE DEF v
<1>2. (q.aborted => q.error # "none") /\ (q.isreply \/ q.background)
    BY <1>1 DEF Sound, Life, Waited, Alive
<1>3. ReqIs(k, u, r, u.req[r]) /\ Like({"locked"}, q, u.req[r])
    BY <1>1, LockedReq
<1>4. ReadDone(k, r, err) = request_end(m, r)
    <2>1. err \/ u.req[r].aborted \/ ~u.req[r].isreply
        BY <1>3 DEF Like
    <2>. QED  BY <2>1 DEF ReadDone
<1>. HIDE DEF u, r
<1>5. u \in FcRec
    BY <1>3 DEF ReqIs
<1>6. /\ ReqIs(k, m, r, m.req[r]) /\ Like({"locked", "error", "copied"}, q, m.req[r])
      /\ m.req[r].aborted \/ m.req[r].background \/ m.req[r].error # "none"
      /\ m.req[r].aborted => m.req[r].error # "none"
    <2>1. CASE u.req[r].aborted \/ ~err
        <3>1. m = u
            BY <2>1
        <3>2. u.req[r].aborted \/ u.req[r].background
            <4>1. k.req[r].aborted \/ ~k.req[r].isreply \/ err
                BY DEF r
            <4>. QED  BY <1>2, <1>3, <2>1, <4>1 DEF Like
        <3>. HIDE DEF m
        <3>. QED  BY <1>2, <1>3, <3>1, <3>2 DEF Like
    <2>2. CASE ~u.req[r].aborted /\ err
        <3>. DEFINE a == [u EXCEPT !.req[r].error = "EIO"]
        <3>1. m = a
            BY <2>2
        <3>2. /\ ReqIs(u, a, r, a.req[r]) /\ Like({"error"}, u.req[r], a.req[r])
              /\ a.req[r].error = "EIO"
            BY <1>1, <1>5, ErrorNames, ErrorReq
        <3>. HIDE DEF a, m
        <3>3. ReqIs(k, a, r, a.req[r])
            BY <1>3, <3>2 DEF ReqIs, LikeFc
        <3>. QED  BY <1>3, <2>2, <3>1, <3>2, <3>3 DEF Like
    <2>. QED  BY <2>1, <2>2
<1>. HIDE DEF m
<1>7. r = sv[s].req
    BY DEF r
<1>8. Good(request_end(m, r), tk, sl, h, e)
    BY <1>6, <1>7, CopyEndedGood
<1>. QED  BY <1>4, <1>7, <1>8

\* The end of a read of the daemon after which it has the request.
LEMMA SentGood ==
    ASSUME NEW k, NEW tk, NEW sv, NEW h, NEW e, Good(k, tk, sv, h, e),
           NEW s \in Servers, sv[s].pc \in {"rfault", "rcopy"},
           ~k.req[sv[s].req].aborted, k.req[sv[s].req].isreply,
           NEW sl, Goes(sv, sl, s, "idle", sv[s].req)
    PROVE  Good(ReadDone(k, sv[s].req, FALSE), tk, sl,
                h \cup {[req |-> sv[s].req, intr |-> FALSE]}, e)
<1>. DEFINE r == sv[s].req
            q == k.req[r]
            g == h \cup {[req |-> r, intr |-> FALSE]}
            u == [k EXCEPT !.req[r].locked = FALSE]
            a == list_del(u, r)
            b == [a EXCEPT !.processing = Append(a.processing, r)]
            c == [b EXCEPT !.req[r].state = "sent"]
            n == IF u.req[r].interrupted THEN queue_interrupt(c, r) ELSE c
            v == View(k, tk, sv, h, e, r)
            w == View(n, tk, sl, g, e, r)
<1>0. sv[s].pc \in CopyPcs
    BY DEF CopyPcs
<1>1. /\ r \in Reqs /\ Shows(v, k, tk, sv, h, e, r) /\ Sound(v) /\ v \in ViewRec
      /\ v.q = q /\ k \in FcRec /\ ListsOnce(k) /\ v.copy = sv[s].pc /\ q.state # "none"
    BY <1>0, CopyKnown
<1>. HIDE DEF v
<1>2. v.q.state = "reading"
    BY <1>1 DEF Sound, Copied
<1>3. ~v.interrupts
    BY <1>1, <1>2, ViewNotQueued
<1>4. ~v.processing
    BY <1>1, <1>2 DEF Sound, OnLists
<1>5. ReqIs(k, u, r, u.req[r]) /\ Like({"locked"}, q, u.req[r])
    BY <1>1, LockedReq
<1>6. ReadDone(k, r, FALSE) = n
    <2>1. ~u.req[r].aborted /\ u.req[r].isreply
        BY <1>5 DEF Like
    <2>. QED  BY <2>1 DEF ReadDone
<1>. HIDE DEF u
<1>7. u \in FcRec /\ ListsOnce(u) /\ OnlyReq(k, u, r) /\ SameNumbers(k, u)
      /\ SameQueues(k, u)
    BY <1>1, <1>5, ReqIsElse
<1>8. /\ OnlyReq(u, a, r) /\ a.req = u.req /\ SameNumbers(u, a)
      /\ a.interrupts = u.interrupts /\ OffThree(u, a, r)
    BY <1>1, <1>7, ListDel
<1>. HIDE DEF a
<1>9. a \in FcRec /\ a.processing \in Seq(Reqs) /\ Once(a.processing)
      /\ ~InList(a.processing, r)
    BY <1>8 DEF OnlyReq, FcRec, OffThree
<1>10. /\ Append(a.processing, r) \in Seq(Reqs) /\ Once(Append(a.processing, r))
       /\ \A y : InList(Append(a.processing, r), y) <=> InList(a.processing, y) \/ y = r
    <2>. DEFINE l == a.processing
    <2>1. l \in Seq(Reqs) /\ Once(l) /\ ~InList(l, r) /\ r \in Reqs
        BY <1>1, <1>9
    <2>. HIDE DEF l
    <2>2. /\ Append(l, r) \in Seq(Reqs) /\ Once(Append(l, r))
          /\ \A y : InList(Append(l, r), y) <=> InList(l, y) \/ y = r
        <3>. HIDE DEF r
        <3>. QED  BY ONLY <2>1, AddedOnce
    <2>. QED  BY <2>2 DEF l
<1>11. LikeFc({"processing"}, a, b) /\ b.processing = Append(a.processing, r)
    BY <1>9, <1>10, FcProcessing
<1>. HIDE DEF b
<1>12. b \in FcRec
    BY <1>11 DEF LikeFc
<1>13. /\ ReqIs(b, c, r, c.req[r]) /\ Like({"state"}, b.req[r], c.req[r])
       /\ c.req[r].state = "sent"
    <2>1. "sent" \in States
        BY DEF States
    <2>. QED  BY <1>1, <1>12, <2>1, StateReq
<1>. HIDE DEF c
<1>14. /\ OnlyReq(k, c, r) /\ SameNumbers(k, c)
    BY <1>7, <1>8, <1>11, <1>13 DEF ReqIs, LikeFc, OnlyReq, SameNumbers
<1>15. c.pending = a.pending /\ c.io = a.io /\ c.interrupts = k.interrupts
       /\ c.processing = Append(a.processing, r)
    BY <1>7, <1>8, <1>11, <1>13 DEF ReqIs, LikeFc, SameQueues
<1>16. /\ Once(c.pending) /\ Once(c.io) /\ Once(c.processing) /\ Once(c.interrupts)
       /\ \A y : /\ InList(c.pending, y) <=> InList(k.pending, y) /\ y # r
                 /\ InList(c.io, y) <=> InList(k.io, y) /\ y # r
                 /\ InList(c.processing, y) <=> InList(k.processing, y) \/ y = r
    BY <1>1, <1>7, <1>8, <1>10, <1>15 DEF OffThree, SameQueues, ListsOnce
<1>17. Like({"locked", "state"}, q, c.req[r])
    <2>1. b.req = u.req
        BY <1>8, <1>11 DEF LikeFc
    <2>. DEFINE x == u.req[r]
                z == c.req[r]
    <2>2. Like({"locked"}, q, x) /\ Like({"state"}, x, z)
        BY <1>5, <1>13, <2>1
    <2>. HIDE DEF x, z, q
    <2>3. Like({"locked", "state"}, q, z)
        BY ONLY <2>2 DEF Like
    <2>. QED  BY <2>3 DEF z, q
<1>18. ListsOnce(c) /\ c \in FcRec /\ ~InList(c.interrupts, r)
    BY <1>1, <1>3, <1>14, <1>15, <1>16 DEF ListsOnce, OnlyReq, Shows
<1>19. /\ OnlyReq(k, n, r) /\ SameNumbers(k, n) /\ ListsOnce(n) /\ n.req[r] = c.req[r]
       /\ n.pending = c.pending /\ n.io = c.io /\ n.processing = c.processing
       /\ \A y : InList(n.interrupts, y) <=> InList(k.interrupts, y)
                                             \/ (y = r /\ q.interrupted)
    <2>1. u.req[r].interrupted = q.interrupted
        BY <1>5 DEF Like
    <2>2. CASE ~u.req[r].interrupted
        <3>1. n = c
            BY <2>2
        <3>. HIDE DEF n
        <3>. QED  BY <1>14, <1>15, <1>18, <2>1, <2>2, <3>1
    <2>3. CASE u.req[r].interrupted
        <3>1. n = queue_interrupt(c, r)
            BY <2>3
        <3>. HIDE DEF n
        <3>2. /\ LikeFc({"interrupts"}, c, n) /\ Once(n.interrupts)
              /\ \A y : InList(n.interrupts, y) <=> InList(c.interrupts, y) \/ y = r
            BY <1>1, <1>18, <3>1, QueueInterrupt
        <3>. QED  BY <1>14, <1>15, <1>16, <2>1, <2>3, <3>2
                  DEF LikeFc, OnlyReq, SameNumbers, ListsOnce
    <2>. QED  BY <2>2, <2>3
<1>. HIDE DEF n
<1>20. FcElse(k, n, r)
    BY <1>16, <1>19 DEF FcElse, OnlyReq
<1>21. /\ sl \in [Servers -> ServerRec] /\ ServersFit(sl) /\ ServerElse(sv, sl, r)
       /\ CopyPc(sl, r) = "none" /\ (InWindow(sl, r) => InWindow(sv, r))
    <2>1. "idle" \in {"idle", "aborted"} \cup CopyPcs /\ "idle" \notin CopyPcs
          /\ sv[s].req \in {0, r}
        BY DEF CopyPcs
    <2>. QED  BY <1>0, <1>1, <2>1, ServerGoes
<1>22. /\ g \subseteq [req : Reqs, intr : BOOLEAN] /\ HeldElse(h, g, r)
       /\ Token(r) \in g => Token(r) \in h
    <2>1. h \subseteq [req : Reqs, intr : BOOLEAN]
        BY DEF Good, Types
    <2>2. \A y : Token(y) # [req |-> r, intr |-> FALSE]
        BY DEF Token
    <2>3. [req |-> r, intr |-> FALSE] \in [req : Reqs, intr : BOOLEAN]
        BY ONLY <1>1
    <2>. QED  BY <2>1, <2>2, <2>3 DEF HeldElse
<1>. HIDE DEF g
<1>23. CalmReq(q, n.req[r])
    <2>. DEFINE z == c.req[r]
    <2>1. /\ n.req[r] = z /\ z.state = "sent" /\ q.state = "reading"
          /\ Like({"locked", "state"}, q, z)
        BY <1>1, <1>2, <1>13, <1>17, <1>19
    <2>. HIDE DEF z, q
    <2>2. CalmReq(q, z)
        BY ONLY <2>1 DEF CalmReq, Like, Alive
    <2>. QED  BY <2>1, <2>2 DEF q
<1>24. /\ Shows(w, n, tk, sl, g, e, r)
       /\ LikeView({"q", "pending", "io", "processing", "interrupts", "copy",
                    "told", "window"}, v, w)
       /\ Sound(w) => Good(n, tk, sl, g, e)
    BY <1>1, <1>19, <1>20, <1>21, <1>22, <1>23, ServerStepped DEF v
<1>. HIDE DEF w
<1>25. /\ LikeView({"q", "copy", "pending", "io", "processing", "interrupts"}, v, w)
       /\ w.q = c.req[r] /\ w.copy = "none" /\ ~w.pending /\ ~w.io /\ w.processing
       /\ w.interrupts <=> (v.interrupts \/ v.q.interrupted)
    BY <1>1, <1>16, <1>19, <1>21, <1>22, <1>24 DEF LikeView, Shows
<1>26. Sound(w)
    BY <1>1, <1>13, <1>17, <1>25, ViewSent
<1>27. Good(n, tk, sl, g, e)
    BY <1>24, <1>26
<1>. QED  BY <1>6, <1>27 DEF g

\* The steps of a thread that copies.
LEMMA IoEndsInv ==
    ASSUME DevInv, NEW s \in Servers, server[s].pc \in CopyPcs, NEW err \in BOOLEAN,
           IoEnds(s, err)
    PROVE  DevInv'
<1>. DEFINE r == server[s].req
<1>1. Good(fc, task, server, held, ender) /\ UNCHANGED <<task, ender>>
    BY DEF DevInv, IoEnds, OnlyServer
<1>2. Goes(server, server', s, "idle", r)
    BY DEF IoEnds, IoDone, NoIo, Goes, At
<1>3. CASE server[s].pc \notin {"rfault", "rcopy"}
    <2>1. Good(WriteDone(fc, r, err), task, server', held, ender)
        BY <1>1, <1>2, WriteDoneGood
    <2>2. fc' = WriteDone(fc, r, err) /\ UNCHANGED held
        BY <1>3 DEF IoEnds
    <2>. QED  BY <1>1, <2>1, <2>2 DEF DevInv
<1>4. CASE server[s].pc \in {"rfault", "rcopy"}
                /\ (err \/ fc.req[r].aborted \/ ~fc.req[r].isreply)
    <2>1. Good(ReadDone(fc, r, err), task, server', held, ender)
        BY <1>1, <1>2, <1>4, ReadEndedGood
    <2>2. fc' = ReadDone(fc, r, err) /\ UNCHANGED held
        BY <1>4 DEF IoEnds
    <2>. QED  BY <1>1, <2>1, <2>2 DEF DevInv
<1>5. CASE server[s].pc \in {"rfault", "rcopy"}
                /\ ~err /\ ~fc.req[r].aborted /\ fc.req[r].isreply
    <2>. DEFINE g == held \cup {[req |-> r, intr |-> FALSE]}
    <2>1. Good(ReadDone(fc, r, FALSE), task, server', g, ender)
        BY <1>1, <1>2, <1>5, SentGood
    <2>2. err = FALSE
        BY <1>5
    <2>3. fc' = ReadDone(fc, r, FALSE) /\ held' = g
        BY <1>5, <2>2 DEF IoEnds
    <2>. HIDE DEF g
    <2>. QED  BY <1>1, <2>1, <2>3 DEF DevInv
<1>. QED  BY <1>3, <1>4, <1>5

\* The steps of a copy keep the invariant.
LEMMA CopyInv ==
    ASSUME DevInv, NEW s \in Servers, lock_request(s) \/ FaultFails(s) \/ Copy(s)
    PROVE  DevInv'
<1>. DEFINE r == server[s].req
<1>1. Good(fc, task, server, held, ender) /\ server[s].pc \in CopyPcs
    BY DEF DevInv, lock_request, FaultFails, Copy, NextPage, CopyEnds, CopyPcs
<1>2. TRUE \in BOOLEAN /\ FALSE \in BOOLEAN
    OBVIOUS
<1>3. CASE IoEnds(s, TRUE) \/ IoEnds(s, FALSE)
    BY <1>1, <1>2, <1>3, IoEndsInv
<1>4. CASE /\ lock_request(s) /\ ~fc.req[r].aborted
           /\ fc' = [fc EXCEPT !.req[r].locked = TRUE]
           /\ server' = [server EXCEPT ![s].pc = IF @ = "rfault" THEN "rcopy" ELSE "wcopy"]
           /\ UNCHANGED <<task, held, ender>>
    <2>. DEFINE pc == IF server[s].pc = "rfault" THEN "rcopy" ELSE "wcopy"
                n == [fc EXCEPT !.req[r].locked = TRUE]
    <2>1. server' = [server EXCEPT ![s].pc = pc] /\ server[s].pc \in {"rfault", "wfault"}
        BY <1>4 DEF lock_request
    <2>2. Good(n, task, server', held, ender)
        BY <1>1, <1>2, <1>4, <2>1, PageGood
    <2>3. fc' = n
        BY <1>4
    <2>. HIDE DEF n
    <2>. QED  BY <1>4, <2>2, <2>3 DEF DevInv
<1>5. CASE NextPage(s)
    <2>. DEFINE pc == IF server[s].pc = "rcopy" THEN "rfault" ELSE "wfault"
                n == [fc EXCEPT !.req[r].locked = FALSE]
    <2>1. server' = [server EXCEPT ![s].pc = pc] /\ server[s].pc \in {"rcopy", "wcopy"}
          /\ UNCHANGED <<task, held, ender>>
        BY <1>5 DEF NextPage, OnlyServer
    <2>2. Good(n, task, server', held, ender)
        BY <1>1, <1>2, <2>1, PageGood
    <2>3. fc' = n \/ fc' = wake_up(n, r)
        BY <1>5 DEF NextPage, unlock_request
    <2>. HIDE DEF n
    <2>4. n \in FcRec
        BY <2>2 DEF Good, Types
    <2>5. Quiet(n, wake_up(n, r))
        BY <2>4, WakeQuiet
    <2>6. Good(wake_up(n, r), task, server', held, ender)
        BY <2>2, <2>5, QuietGood
    <2>. QED  BY <2>1, <2>2, <2>3, <2>6 DEF DevInv
<1>. QED  BY <1>3, <1>4, <1>5
          DEF lock_request, FaultFails, Copy, CopyEnds, CanLock, OnlyServer

\* fuse_dev_readv takes the first request for the daemon.
Taken(k, r) == [k EXCEPT !.pending = Tail(@), !.io = <<r>> \o @, !.req[r].state = "reading"]

\* What fuse_dev_readv does to the request, the lists and the counters.
LEMMA TakenFields ==
    ASSUME NEW k, NEW tk, NEW sv, NEW h, NEW e, Good(k, tk, sv, h, e), k.pending # <<>>,
           NEW r, r = Head(k.pending)
    PROVE  LET n == Taken(k, r)
           IN  /\ r \in Reqs /\ InList(k.pending, r) /\ CopyPc(sv, r) = "none"
               /\ Kept(View(k, tk, sv, h, e, r))
               /\ n \in FcRec /\ OnlyReq(k, n, r) /\ FcElse(k, n, r) /\ ListsOnce(n)
               /\ SameNumbers(k, n) /\ Like({"state"}, k.req[r], n.req[r])
               /\ n.req[r].state = "reading" /\ k.req[r].state = "pending"
               /\ ~InList(n.pending, r) /\ InList(n.io, r)
               /\ n.processing = k.processing /\ n.interrupts = k.interrupts
<1>. DEFINE q == k.req[r]
            a == Tail(k.pending)
            l == k.io
            b == <<r>> \o l
            m == [k EXCEPT !.pending = a]
            c == [m EXCEPT !.io = b]
            n == [c EXCEPT !.req[r].state = "reading"]
            v == View(k, tk, sv, h, e, r)
<1>1. k \in FcRec /\ ListsOnce(k) /\ k.pending \in Seq(Reqs) /\ Once(k.pending)
      /\ l \in Seq(Reqs) /\ Once(l)
    BY DEF Good, Types, FcRec, ListsOnce
<1>2. /\ r \in Reqs /\ InList(k.pending, r) /\ a \in Seq(Reqs) /\ Once(a)
      /\ \A y : InList(a, y) <=> InList(k.pending, y) /\ y # r
    BY ONLY <1>1, k.pending # <<>>, r = Head(k.pending), HeadOff
<1>3. Shows(v, k, tk, sv, h, e, r) /\ Sound(v) /\ v \in ViewRec /\ v.q = q
    BY <1>2, ReqKnown
<1>. HIDE DEF v, a
<1>4. v.pending /\ v.q.state = "pending" /\ ~v.io /\ v.copy = "none"
    BY <1>2, <1>3 DEF Shows, Sound, OnLists, Copied
<1>5. ~InList(l, r) /\ CopyPc(sv, r) = "none" /\ Kept(v)
    BY <1>3, <1>4 DEF Shows, Kept
<1>6. b \in Seq(Reqs) /\ Once(b) /\ \A y : InList(b, y) <=> InList(l, y) \/ y = r
    <2>. HIDE DEF l
    <2>. QED  BY ONLY <1>1, <1>2, <1>5, AddedOnce
<1>7. n = Taken(k, r)
    <2>1. m.io = l /\ c = [k EXCEPT !.pending = a, !.io = <<r>> \o @]
        BY <1>1 DEF FcRec
    <2>. QED  BY <2>1 DEF Taken, a
<1>. HIDE DEF b
<1>8. LikeFc({"pending"}, k, m) /\ m.pending = a /\ m \in FcRec
    <2>1. LikeFc({"pending"}, k, m) /\ m.pending = a
        BY <1>1, <1>2, FcPending
    <2>. QED  BY <2>1 DEF LikeFc
<1>. HIDE DEF m
<1>9. LikeFc({"io"}, m, c) /\ c.io = b /\ c \in FcRec
    <2>1. LikeFc({"io"}, m, c) /\ c.io = b
        BY <1>6, <1>8, FcIo
    <2>. QED  BY <2>1 DEF LikeFc
<1>. HIDE DEF c
<1>10. /\ ReqIs(c, n, r, n.req[r]) /\ Like({"state"}, c.req[r], n.req[r])
       /\ n.req[r].state = "reading" /\ n \in FcRec
    <2>1. "reading" \in States
        BY DEF States
    <2>2. /\ ReqIs(c, n, r, n.req[r]) /\ Like({"state"}, c.req[r], n.req[r])
          /\ n.req[r].state = "reading"
        BY <1>2, <1>9, <2>1, StateReq
    <2>. QED  BY <2>2 DEF ReqIs
<1>. HIDE DEF n
<1>11. /\ n.pending = a /\ n.io = b /\ n.processing = k.processing
       /\ n.interrupts = k.interrupts
    BY <1>8, <1>9, <1>10 DEF ReqIs, LikeFc
<1>12. OnlyReq(k, n, r) /\ SameNumbers(k, n)
    BY <1>8, <1>9, <1>10 DEF ReqIs, LikeFc, OnlyReq, SameNumbers
<1>13. c.req[r] = q
    BY <1>8, <1>9 DEF LikeFc
<1>14. FcElse(k, n, r) /\ ListsOnce(n)
    BY <1>1, <1>2, <1>6, <1>11, <1>12 DEF FcElse, OnlyReq, ListsOnce
<1>15. ~InList(n.pending, r) /\ InList(n.io, r)
    BY <1>2, <1>6, <1>11
<1>. QED  BY <1>2, <1>3, <1>4, <1>5, <1>7, <1>10, <1>11, <1>12, <1>13, <1>14, <1>15 DEF v

\* fuse_dev_readv: the request does not fit the buffer.
LEMMA TooLargeGood ==
    ASSUME NEW k, NEW tk, NEW sv, NEW h, NEW e, Good(k, tk, sv, h, e), k.pending # <<>>,
           NEW r, r = Head(k.pending)
    PROVE  Good(request_end([Taken(k, r) EXCEPT !.req[r].error = "EIO"], r), tk, sv, h, e)
<1>. DEFINE q == k.req[r]
            a == Taken(k, r)
            m == [a EXCEPT !.req[r].error = "EIO"]
<1>1. /\ r \in Reqs /\ CopyPc(sv, r) = "none" /\ Kept(View(k, tk, sv, h, e, r))
      /\ a \in FcRec /\ OnlyReq(k, a, r) /\ FcElse(k, a, r) /\ ListsOnce(a)
      /\ SameNumbers(k, a) /\ Like({"state"}, q, a.req[r])
      /\ a.req[r].state = "reading"
    BY TakenFields
<1>. HIDE DEF a
<1>2. /\ ReqIs(a, m, r, m.req[r]) /\ Like({"error"}, a.req[r], m.req[r])
      /\ m.req[r].error = "EIO"
    <2>1. a \in FcRec /\ r \in Reqs
        BY <1>1
    <2>. QED  BY ONLY <2>1, ErrorNames, ErrorReq DEF m
<1>. HIDE DEF m
<1>3. OnlyReq(a, m, r) /\ SameQueues(a, m) /\ SameNumbers(a, m) /\ ListsOnce(m)
    BY <1>1, <1>2, ReqIsElse
<1>4. OnlyReq(k, m, r) /\ SameNumbers(k, m) /\ FcElse(k, m, r)
    BY <1>1, <1>3 DEF OnlyReq, SameNumbers, FcElse, SameQueues
<1>5. Like({"locked", "state", "error", "copied"}, q, m.req[r])
      /\ m.req[r].state = "reading"
    BY <1>1, <1>2 DEF Like
<1>6. sv \in [Servers -> ServerRec] /\ ServersFit(sv) /\ ServerElse(sv, sv, r)
    BY ElseSame DEF Good, Types
<1>7. Good(request_end(m, r), tk, sv, h, e)
    BY <1>1, <1>2, <1>3, <1>4, <1>5, <1>6, EndedGood
<1>. QED  BY <1>7 DEF m, a

\* fuse_dev_readv: the copy begins.
LEMMA ReadGood ==
    ASSUME NEW k, NEW tk, NEW sv, NEW h, NEW e, Good(k, tk, sv, h, e), k.pending # <<>>,
           NEW r, r = Head(k.pending), NEW s \in Servers, sv[s].pc = "idle",
           NEW sl, Goes(sv, sl, s, "rfault", r)
    PROVE  Good(Taken(k, r), tk, sl, h, e)
<1>. DEFINE q == k.req[r]
            n == Taken(k, r)
            v == View(k, tk, sv, h, e, r)
            w == View(n, tk, sl, h, e, r)
<1>1. /\ r \in Reqs /\ InList(k.pending, r) /\ CopyPc(sv, r) = "none"
      /\ OnlyReq(k, n, r) /\ FcElse(k, n, r) /\ ListsOnce(n)
      /\ SameNumbers(k, n) /\ Like({"state"}, q, n.req[r])
      /\ n.req[r].state = "reading" /\ q.state = "pending"
      /\ ~InList(n.pending, r) /\ InList(n.io, r)
      /\ n.processing = k.processing /\ n.interrupts = k.interrupts
    BY TakenFields
<1>. HIDE DEF n
<1>2. Shows(v, k, tk, sv, h, e, r) /\ Sound(v) /\ v \in ViewRec /\ v.q = q
    BY <1>1, ReqKnown
<1>. HIDE DEF v
<1>3. /\ sl \in [Servers -> ServerRec] /\ ServersFit(sl) /\ ServerElse(sv, sl, r)
      /\ CopyPc(sl, r) = "rfault" /\ (InWindow(sl, r) => InWindow(sv, r))
    <2>1. "rfault" \in CopyPcs /\ "rfault" \in {"idle", "aborted"} \cup CopyPcs
          /\ sv[s].req \in {0, r}
        BY DEF CopyPcs, Good, ServersFit
    <2>. QED  BY <1>1, <2>1, ServerGoes
<1>4. CalmReq(q, n.req[r])
    BY <1>1 DEF CalmReq, Like, Alive
<1>5. h \subseteq [req : Reqs, intr : BOOLEAN] /\ HeldElse(h, h, r)
    BY ElseSame DEF Good, Types
<1>6. /\ Shows(w, n, tk, sl, h, e, r)
      /\ LikeView({"q", "pending", "io", "processing", "interrupts", "copy",
                   "told", "window"}, v, w)
      /\ Sound(w) => Good(n, tk, sl, h, e)
    BY <1>1, <1>3, <1>4, <1>5, ServerStepped DEF v
<1>. HIDE DEF w
<1>7. /\ LikeView({"q", "pending", "io", "copy"}, v, w) /\ w.q = n.req[r]
      /\ w.copy = "rfault" /\ v.pending /\ ~w.pending /\ w.io
    BY <1>1, <1>2, <1>3, <1>6 DEF LikeView, Shows
<1>8. Sound(w)
    BY <1>1, <1>2, <1>7, ViewRead
<1>. QED  BY <1>6, <1>8 DEF n

\* The daemon is told of an interrupt; the request notes it.
LEMMA SetIntr ==
    ASSUME NEW k \in FcRec, NEW r \in Reqs
    PROVE  LET n == [k EXCEPT !.req[r].intr = TRUE]
           IN  ReqIs(k, n, r, n.req[r]) /\ Like({}, k.req[r], n.req[r])
<1>. DEFINE q == k.req[r]
            p == [q EXCEPT !.intr = TRUE]
            n == [k EXCEPT !.req[r].intr = TRUE]
<1>1. q \in ReqRec /\ k.req \in [Reqs -> ReqRec]
    BY DEF FcRec
<1>2. Like({}, q, p)
    <2>. HIDE DEF q
    <2>. QED  BY <1>1 DEF Like, ReqRec
<1>3. n = [k EXCEPT !.req[r] = p]
    BY DEF FcRec
<1>. HIDE DEF p, n
<1>4. p \in ReqRec
    BY <1>2 DEF Like
<1>5. ReqIs(k, n, r, p)
    BY <1>3, <1>4, OneReq
<1>6. n.req[r] = p
    BY <1>5 DEF ReqIs
<1>. QED  BY <1>2, <1>5, <1>6 DEF n

\* fuse_read_interrupt: the daemon has the interrupt now.
LEMMA ToldGood ==
    ASSUME NEW k, NEW tk, NEW sv, NEW h, NEW e, Good(k, tk, sv, h, e),
           k.interrupts # <<>>, NEW r, r = Head(k.interrupts),
           NEW g, g = h \/ g = h \cup {Token(r)}
    PROVE  Good([k EXCEPT !.interrupts = Tail(@), !.req[r].intr = TRUE], tk, sv, g, e)
<1>. DEFINE q == k.req[r]
            a == Tail(k.interrupts)
            m == [k EXCEPT !.interrupts = a]
            n == [m EXCEPT !.req[r].intr = TRUE]
            v == View(k, tk, sv, h, e, r)
            w == View(n, tk, sv, g, e, r)
<1>1. k \in FcRec /\ ListsOnce(k) /\ k.interrupts \in Seq(Reqs) /\ Once(k.interrupts)
    BY DEF Good, Types, FcRec, ListsOnce
<1>2. /\ r \in Reqs /\ InList(k.interrupts, r) /\ a \in Seq(Reqs) /\ Once(a)
      /\ \A y : InList(a, y) <=> InList(k.interrupts, y) /\ y # r
    BY ONLY <1>1, k.interrupts # <<>>, r = Head(k.interrupts), HeadOff
<1>3. Shows(v, k, tk, sv, h, e, r) /\ Sound(v) /\ v \in ViewRec /\ v.q = q
    BY <1>2, ReqKnown
<1>4. n = [k EXCEPT !.interrupts = Tail(@), !.req[r].intr = TRUE]
    OBVIOUS
<1>. HIDE DEF v, a
<1>5. LikeFc({"interrupts"}, k, m) /\ m.interrupts = a /\ m \in FcRec
    <2>1. LikeFc({"interrupts"}, k, m) /\ m.interrupts = a
        BY <1>1, <1>2, FcInterrupts
    <2>. QED  BY <2>1 DEF LikeFc
<1>. HIDE DEF m
<1>6. ReqIs(m, n, r, n.req[r]) /\ Like({}, m.req[r], n.req[r])
    BY <1>2, <1>5, SetIntr
<1>. HIDE DEF n
<1>7. /\ OnlyReq(k, n, r) /\ SameNumbers(k, n) /\ Like({}, q, n.req[r])
      /\ n.interrupts = a /\ n.pending = k.pending /\ n.io = k.io
      /\ n.processing = k.processing
    <2>1. m.req = k.req
        BY <1>5 DEF LikeFc
    <2>. QED  BY <1>5, <1>6, <2>1 DEF ReqIs, LikeFc, OnlyReq, SameNumbers
<1>8. FcElse(k, n, r) /\ ListsOnce(n)
    BY <1>1, <1>2, <1>7 DEF FcElse, OnlyReq, ListsOnce
<1>9. v.interrupts /\ q.state # "none"
    <2>1. v.interrupts
        BY <1>2, <1>3 DEF Shows
    <2>. QED  BY <1>3, <2>1 DEF Sound, OnLists
<1>10. CalmReq(q, n.req[r])
    BY <1>7, <1>9 DEF CalmReq, Like, Alive
<1>11. g \subseteq [req : Reqs, intr : BOOLEAN] /\ HeldElse(h, g, r)
    <2>1. h \subseteq [req : Reqs, intr : BOOLEAN]
        BY DEF Good, Types
    <2>2. \A y : y # r => Token(y) # Token(r)
        BY DEF Token
    <2>3. Token(r) \in [req : Reqs, intr : BOOLEAN]
        BY <1>2 DEF Token
    <2>. QED  BY <2>1, <2>2, <2>3 DEF HeldElse
<1>12. sv \in [Servers -> ServerRec] /\ ServersFit(sv) /\ ServerElse(sv, sv, r)
    BY ElseSame DEF Good, Types
<1>13. /\ Shows(w, n, tk, sv, g, e, r)
       /\ LikeView({"q", "pending", "io", "processing", "interrupts", "copy",
                    "told", "window"}, v, w)
       /\ Sound(w) => Good(n, tk, sv, g, e)
    BY <1>2, <1>7, <1>8, <1>10, <1>11, <1>12, ServerStepped DEF v
<1>. HIDE DEF w
<1>14. LikeView({"q", "told", "interrupts"}, v, w) /\ w.q = n.req[r] /\ ~w.interrupts
    BY <1>2, <1>3, <1>7, <1>13 DEF LikeView, Shows
<1>15. Sound(w)
    BY <1>3, <1>7, <1>9, <1>14, ViewTold
<1>16. Good(n, tk, sv, g, e)
    BY <1>13, <1>15
<1>. QED  BY <1>4, <1>16

\* fuse_dev_writev: the reply is taken, and nothing else happens.
LEMMA LostGood ==
    ASSUME NEW k, NEW tk, NEW sv, NEW h, NEW e, Good(k, tk, sv, h, e), NEW m \in h
    PROVE  Good(k, tk, sv, h \ {m}, e)
<1>. DEFINE g == h \ {m}
            r == m.req
            v == View(k, tk, sv, h, e, r)
            w == View(k, tk, sv, g, e, r)
<1>1. h \subseteq [req : Reqs, intr : BOOLEAN]
    BY DEF Good, Types
<1>2. r \in Reqs
    BY <1>1
<1>. HIDE DEF r
<1>3. /\ Shows(v, k, tk, sv, h, e, r) /\ Sound(v) /\ v \in ViewRec /\ k \in FcRec
      /\ ListsOnce(k) /\ InitFirst(k) /\ NumbersTrue(k, tk)
      /\ ServersFit(sv) /\ sv \in [Servers -> ServerRec]
    BY <1>2, ReqKnown
<1>. HIDE DEF v
<1>4. OnlyReq(k, k, r) /\ FcElse(k, k, r) /\ Accounts(k, k, tk)
    BY <1>3 DEF OnlyReq, FcElse, Accounts
<1>5. /\ g \subseteq [req : Reqs, intr : BOOLEAN] /\ HeldElse(h, g, r)
      /\ Token(r) \in g => Token(r) \in h
    BY <1>1 DEF HeldElse
<1>6. ServerElse(sv, sv, r)
    BY ElseSame
<1>. HIDE DEF g
<1>7. /\ Shows(w, k, tk, sv, g, e, r)
      /\ LikeView({"q", "pending", "io", "processing", "interrupts", "copy",
                   "told", "window"}, v, w)
      /\ Sound(w) /\ Accounts(k, k, tk) => Good(k, tk, sv, g, e)
    BY <1>2, <1>3, <1>4, <1>5, <1>6, ServerStepped DEF v
<1>. HIDE DEF w
<1>8. LikeView({}, v, w)
    BY <1>3, <1>5, <1>7 DEF LikeView, Shows
<1>9. Sound(w)
    BY <1>3, <1>8, ViewAlone
<1>. QED  BY <1>4, <1>7, <1>9 DEF g

\* fuse_dev_writev: the request was aborted, and the lock is let go of.
LEMMA WindowGood ==
    ASSUME NEW k, NEW tk, NEW sv, NEW h, NEW e, Good(k, tk, sv, h, e),
           NEW r \in Reqs, InList(k.processing, r), k.req[r].aborted,
           NEW s \in Servers, sv[s].pc = "idle", NEW sl, Goes(sv, sl, s, "aborted", r)
    PROVE  Good(k, tk, sl, h, e)
<1>. DEFINE v == View(k, tk, sv, h, e, r)
            w == View(k, tk, sl, h, e, r)
<1>1. /\ Shows(v, k, tk, sv, h, e, r) /\ Sound(v) /\ v \in ViewRec /\ k \in FcRec
      /\ ListsOnce(k) /\ InitFirst(k) /\ NumbersTrue(k, tk)
    BY ReqKnown
<1>. HIDE DEF v
<1>2. OnlyReq(k, k, r) /\ FcElse(k, k, r) /\ Accounts(k, k, tk)
    BY <1>1 DEF OnlyReq, FcElse, Accounts
<1>3. /\ sl \in [Servers -> ServerRec] /\ ServersFit(sl) /\ ServerElse(sv, sl, r)
      /\ CopyPc(sl, r) = CopyPc(sv, r)
    <2>1. "aborted" \notin CopyPcs /\ "aborted" \in {"idle", "aborted"} \cup CopyPcs
          /\ sv[s].req \in {0, r} /\ sv[s].pc \notin CopyPcs
        BY DEF CopyPcs, Good, ServersFit
    <2>. QED  BY <2>1, ServerGoes
<1>4. h \subseteq [req : Reqs, intr : BOOLEAN] /\ HeldElse(h, h, r)
    BY ElseSame DEF Good, Types
<1>5. /\ Shows(w, k, tk, sl, h, e, r)
      /\ LikeView({"q", "pending", "io", "processing", "interrupts", "copy",
                   "told", "window"}, v, w)
      /\ Sound(w) /\ Accounts(k, k, tk) => Good(k, tk, sl, h, e)
    BY <1>1, <1>2, <1>3, <1>4, ServerStepped DEF v
<1>. HIDE DEF w
<1>6. LikeView({"window"}, v, w) /\ v.processing /\ v.q.aborted
    BY <1>1, <1>3, <1>5 DEF LikeView, Shows
<1>7. Sound(w)
    BY <1>1, <1>6, ViewWindow
<1>. QED  BY <1>2, <1>5, <1>7

\* fuse_dev_writev: the daemon wants the interrupt again.
LEMMA RequeuedGood ==
    ASSUME NEW k, NEW tk, NEW sv, NEW h, NEW e, Good(k, tk, sv, h, e),
           NEW r \in Reqs, InList(k.processing, r), Token(r) \in h
    PROVE  Good(queue_interrupt(k, r), tk, sv, h \ {Token(r)}, e)
<1>. DEFINE g == h \ {Token(r)}
            n == queue_interrupt(k, r)
            v == View(k, tk, sv, h, e, r)
            w == View(n, tk, sv, g, e, r)
<1>1. /\ Shows(v, k, tk, sv, h, e, r) /\ Sound(v) /\ v \in ViewRec /\ k \in FcRec
      /\ v.q = k.req[r] /\ ListsOnce(k)
      /\ ServersFit(sv) /\ sv \in [Servers -> ServerRec]
    BY ReqKnown
<1>. HIDE DEF v
<1>2. v.processing /\ v.told
    BY <1>1 DEF Shows
<1>3. ~v.interrupts /\ v.q.state = "sent"
    BY <1>1, <1>2, ViewNotQueued DEF Sound, OnLists
<1>4. ~InList(k.interrupts, r)
    BY <1>1, <1>3 DEF Shows
<1>5. /\ LikeFc({"interrupts"}, k, n) /\ Once(n.interrupts)
      /\ \A y : InList(n.interrupts, y) <=> InList(k.interrupts, y) \/ y = r
    BY <1>1, <1>4, QueueInterrupt
<1>. HIDE DEF n
<1>6. /\ OnlyReq(k, n, r) /\ SameNumbers(k, n) /\ n.req = k.req
      /\ n.pending = k.pending /\ n.io = k.io /\ n.processing = k.processing
    BY <1>5 DEF LikeFc, OnlyReq, SameNumbers
<1>7. FcElse(k, n, r) /\ ListsOnce(n)
    BY <1>1, <1>5, <1>6 DEF FcElse, ListsOnce
<1>8. CalmReq(k.req[r], n.req[r])
    BY <1>1, <1>3, <1>6 DEF CalmReq
<1>9. /\ g \subseteq [req : Reqs, intr : BOOLEAN] /\ HeldElse(h, g, r) /\ Token(r) \notin g
    BY DEF HeldElse, Good, Types
<1>10. ServerElse(sv, sv, r)
    BY ElseSame
<1>. HIDE DEF g
<1>11. /\ Shows(w, n, tk, sv, g, e, r)
       /\ LikeView({"q", "pending", "io", "processing", "interrupts", "copy",
                    "told", "window"}, v, w)
       /\ Sound(w) => Good(n, tk, sv, g, e)
    BY <1>1, <1>6, <1>7, <1>8, <1>9, <1>10, ServerStepped DEF v
<1>. HIDE DEF w
<1>12. LikeView({"told", "interrupts"}, v, w) /\ ~w.told /\ w.interrupts
    BY <1>1, <1>5, <1>6, <1>9, <1>11 DEF LikeView, Shows
<1>13. Sound(w)
    BY <1>1, <1>2, <1>12, ViewRequeued
<1>. QED  BY <1>11, <1>13 DEF n, g

\* fuse_dev_writev: the copy of the reply begins.
Answered(k, r, x) ==
    [list_del(k, r) EXCEPT !.io = <<r>> \o @, !.req[r].state = "writing",
                           !.req[r].error = x, !.req[r].locked = TRUE]

\* fuse_dev_writev: the reply is copied in.
LEMMA ReplyGood ==
    ASSUME NEW k, NEW tk, NEW sv, NEW h, NEW e, Good(k, tk, sv, h, e),
           NEW r \in Reqs, InList(k.processing, r), ~k.req[r].aborted,
           NEW x \in {"none", "server"},
           NEW s \in Servers, sv[s].pc = "idle", NEW sl, Goes(sv, sl, s, "wcopy", r)
    PROVE  Good(Answered(k, r, x), tk, sl, h, e)
<1>. DEFINE q == k.req[r]
            a == list_del(k, r)
            l == a.io
            b == <<r>> \o l
            c == [a EXCEPT !.io = b]
            d == [c EXCEPT !.req[r].state = "writing"]
            m == [d EXCEPT !.req[r].error = x]
            n == [m EXCEPT !.req[r].locked = TRUE]
            v == View(k, tk, sv, h, e, r)
            w == View(n, tk, sl, h, e, r)
<1>1. /\ Shows(v, k, tk, sv, h, e, r) /\ Sound(v) /\ v \in ViewRec /\ k \in FcRec
      /\ v.q = q /\ ListsOnce(k)
    BY ReqKnown
<1>. HIDE DEF v
<1>2. v.processing /\ ~v.q.aborted
    BY <1>1 DEF Shows
<1>3. v.q.state = "sent" /\ v.copy = "none"
    BY <1>1, <1>2 DEF Sound, OnLists, Copied
<1>4. /\ OnlyReq(k, a, r) /\ a.req = k.req /\ SameNumbers(k, a)
      /\ a.interrupts = k.interrupts /\ OffThree(k, a, r)
    BY <1>1, ListDel
<1>5. n = Answered(k, r, x)
    BY DEF Answered
<1>. HIDE DEF a
<1>6. a \in FcRec /\ l \in Seq(Reqs) /\ Once(l) /\ ~InList(l, r)
    BY <1>4 DEF OnlyReq, FcRec, OffThree
<1>7. b \in Seq(Reqs) /\ Once(b) /\ \A y : InList(b, y) <=> InList(l, y) \/ y = r
    <2>1. r \in Reqs
        OBVIOUS
    <2>. HIDE DEF l
    <2>. QED  BY ONLY <1>6, <2>1, AddedOnce
<1>. HIDE DEF b
<1>8. LikeFc({"io"}, a, c) /\ c.io = b /\ c \in FcRec
    <2>1. LikeFc({"io"}, a, c) /\ c.io = b
        BY <1>6, <1>7, FcIo
    <2>. QED  BY <2>1 DEF LikeFc
<1>. HIDE DEF c
<1>9. /\ ReqIs(c, d, r, d.req[r]) /\ Like({"state"}, c.req[r], d.req[r])
      /\ d.req[r].state = "writing" /\ d \in FcRec
    <2>1. "writing" \in States
        BY DEF States
    <2>2. /\ ReqIs(c, d, r, d.req[r]) /\ Like({"state"}, c.req[r], d.req[r])
          /\ d.req[r].state = "writing"
        BY <1>8, <2>1, StateReq
    <2>. QED  BY <2>2 DEF ReqIs
<1>. HIDE DEF d
<1>10. ReqIs(d, m, r, m.req[r]) /\ Like({"error"}, d.req[r], m.req[r]) /\ m \in FcRec
    <2>1. ReqIs(d, m, r, m.req[r]) /\ Like({"error"}, d.req[r], m.req[r])
        BY <1>9, ErrorNames, ErrorReq
    <2>. QED  BY <2>1 DEF ReqIs
<1>. HIDE DEF m
<1>11. /\ ReqIs(m, n, r, n.req[r]) /\ Like({"locked"}, m.req[r], n.req[r])
       /\ n.req[r].locked
    BY <1>10, LockedReq
<1>. HIDE DEF n
<1>12. /\ n.io = b /\ n.pending = a.pending /\ n.processing = a.processing
       /\ n.interrupts = k.interrupts
    BY <1>4, <1>8, <1>9, <1>10, <1>11 DEF ReqIs, LikeFc
<1>13. OnlyReq(k, n, r) /\ SameNumbers(k, n)
    <2>1. OnlyReq(k, c, r) /\ SameNumbers(k, c)
        BY <1>4, <1>8 DEF LikeFc, OnlyReq, SameNumbers
    <2>2. OnlyReq(c, n, r) /\ SameNumbers(c, n)
        BY <1>9, <1>10, <1>11 DEF ReqIs, LikeFc, OnlyReq, SameNumbers
    <2>. QED  BY <2>1, <2>2 DEF OnlyReq, SameNumbers
<1>14. /\ Like({"locked", "state", "error"}, q, n.req[r])
       /\ n.req[r].state = "writing" /\ n.req[r].locked
    <2>1. c.req[r] = q
        BY <1>4, <1>8 DEF LikeFc
    <2>. DEFINE y == d.req[r]
                z == m.req[r]
                p == n.req[r]
    <2>2. /\ Like({"state"}, q, y) /\ y.state = "writing" /\ Like({"error"}, y, z)
          /\ Like({"locked"}, z, p) /\ p.locked
        BY <1>9, <1>10, <1>11, <2>1
    <2>. HIDE DEF y, z, p, q
    <2>3. Like({"locked", "state", "error"}, q, p) /\ p.state = "writing" /\ p.locked
        BY ONLY <2>2 DEF Like
    <2>. QED  BY <2>3 DEF p, q
<1>15. FcElse(k, n, r) /\ ListsOnce(n)
    BY <1>1, <1>4, <1>7, <1>12, <1>13 DEF FcElse, OnlyReq, OffThree, ListsOnce
<1>16. /\ sl \in [Servers -> ServerRec] /\ ServersFit(sl) /\ ServerElse(sv, sl, r)
       /\ CopyPc(sl, r) = "wcopy" /\ (InWindow(sl, r) => InWindow(sv, r))
    <2>1. "wcopy" \in CopyPcs /\ "wcopy" \in {"idle", "aborted"} \cup CopyPcs
          /\ sv[s].req \in {0, r}
        BY DEF CopyPcs, Good, ServersFit
    <2>2. CopyPc(sv, r) = "none"
        BY <1>1, <1>3 DEF Shows
    <2>. QED  BY <2>1, <2>2, ServerGoes
<1>17. CalmReq(q, n.req[r])
    BY <1>1, <1>3, <1>14 DEF CalmReq, Like, Alive
<1>18. h \subseteq [req : Reqs, intr : BOOLEAN] /\ HeldElse(h, h, r)
    BY ElseSame DEF Good, Types
<1>19. /\ Shows(w, n, tk, sl, h, e, r)
       /\ LikeView({"q", "pending", "io", "processing", "interrupts", "copy",
                    "told", "window"}, v, w)
       /\ Sound(w) => Good(n, tk, sl, h, e)
    BY <1>13, <1>15, <1>16, <1>17, <1>18, ServerStepped DEF v
<1>. HIDE DEF w
<1>20. /\ LikeView({"q", "copy", "pending", "io", "processing"}, v, w)
       /\ w.q = n.req[r] /\ w.copy = "wcopy" /\ ~w.pending /\ w.io /\ ~w.processing
    BY <1>1, <1>4, <1>7, <1>12, <1>16, <1>19 DEF LikeView, Shows, OffThree
<1>21. Sound(w)
    BY <1>1, <1>2, <1>14, <1>20, ViewReply
<1>22. Good(n, tk, sl, h, e)
    BY <1>19, <1>21
<1>. QED  BY <1>5, <1>22

\* Nothing in the invariant depends on `corrupt`.
LEMMA CorruptGood ==
    ASSUME NEW k, NEW tk, NEW sv, NEW h, NEW e, Good(k, tk, sv, h, e)
    PROVE  Good([k EXCEPT !.corrupt = TRUE], tk, sv, h, e)
<1>. DEFINE n == [k EXCEPT !.corrupt = TRUE]
<1>1. INIT \in Reqs /\ k \in FcRec /\ Types(k, tk, sv, h, e)
    BY DevAssumption DEF Good, Types, Reqs, INIT
<1>2. /\ n \in FcRec /\ n.connected = k.connected /\ n.nreq = k.nreq
      /\ n.req = k.req /\ SameQueues(k, n) /\ SameNumbers(k, n)
    BY <1>1 DEF FcRec, SameQueues, SameNumbers
<1>. HIDE DEF n
<1>3. Types(n, tk, sv, h, e) /\ ListsOnce(n) /\ TasksFit(n, tk) /\ ServersFit(sv)
      /\ EnderFits(n, e)
    BY <1>1, <1>2 DEF Good, Types, SameQueues, ListsOnce, TasksFit, EnderFits
<1>4. ASSUME NEW r \in Reqs
      PROVE  View(n, tk, sv, h, e, r) = View(k, tk, sv, h, e, r)
    BY <1>2 DEF View, SameQueues
<1>5. ReqsSound(n, tk, sv, h, e)
    BY <1>4 DEF Good, ReqsSound
<1>6. InitFirst(n) /\ ReservedLate(n, tk)
    BY <1>2 DEF Good, InitFirst, ReservedLate, Late, SameNumbers
<1>7. NumbersTrue(n, tk)
    BY <1>2 DEF Good, NumbersTrue, WaitingReqs, BackgroundReqs, SameNumbers
<1>8. Good(n, tk, sv, h, e)
    BY <1>3, <1>5, <1>6, <1>7 DEF Good
<1>. QED  BY <1>8 DEF n

\* fuse_dev_writev after the window: request_end of an aborted request.
LEMMA WriteAbortedGood ==
    ASSUME NEW k, NEW tk, NEW sv, NEW h, NEW e, Good(k, tk, sv, h, e),
           NEW s \in Servers, sv[s].pc = "aborted", NEW r, r = sv[s].req,
           NEW sl, Goes(sv, sl, s, "idle", r)
    PROVE  Good(request_end(k, r), tk, sl, h, e)
<1>. DEFINE q == k.req[r]
            v == View(k, tk, sv, h, e, r)
            w == View(k, tk, sl, h, e, r)
<1>1. r \in Reqs
    BY DEF Good, Types, ServersFit, ServerRec
<1>2. /\ Shows(v, k, tk, sv, h, e, r) /\ Sound(v) /\ v \in ViewRec /\ k \in FcRec
      /\ v.q = q /\ q \in ReqRec /\ ListsOnce(k) /\ InitFirst(k) /\ NumbersTrue(k, tk)
    BY <1>1, ReqKnown
<1>. HIDE DEF v
<1>3. v.window
    <2>1. InWindow(sv, r)
        BY DEF InWindow
    <2>. QED  BY <1>2, <2>1 DEF Shows
<1>4. /\ sl \in [Servers -> ServerRec] /\ ServersFit(sl) /\ ServerElse(sv, sl, r)
      /\ CopyPc(sl, r) = CopyPc(sv, r) /\ (InWindow(sl, r) => InWindow(sv, r))
    <2>1. "idle" \in {"idle", "aborted"} \cup CopyPcs /\ "idle" \notin CopyPcs
          /\ sv[s].req \in {0, r} /\ sv[s].pc \notin CopyPcs
        BY DEF CopyPcs
    <2>. QED  BY <1>1, <2>1, ServerGoes
<1>5. OnlyReq(k, k, r) /\ FcElse(k, k, r) /\ SameNumbers(k, k) /\ Accounts(k, k, tk)
    BY <1>2 DEF OnlyReq, FcElse, SameNumbers, Accounts
<1>6. CASE q.ended \/ q.state = "freed"
    <2>1. h \subseteq [req : Reqs, intr : BOOLEAN] /\ HeldElse(h, h, r)
        BY ElseSame DEF Good, Types
    <2>2. /\ Shows(w, k, tk, sl, h, e, r)
          /\ LikeView({"q", "pending", "io", "processing", "interrupts", "copy",
                       "told", "window"}, v, w)
          /\ Sound(w) /\ Accounts(k, k, tk) => Good(k, tk, sl, h, e)
        BY <1>1, <1>2, <1>4, <1>5, <2>1, ServerStepped DEF v
    <2>. HIDE DEF w
    <2>3. LikeView({}, v, w)
        BY <1>2, <1>4, <2>2 DEF LikeView, Shows
    <2>4. Sound(w)
        BY <1>2, <2>3, ViewAlone
    <2>5. Good(k, tk, sl, h, e)
        BY <1>5, <2>2, <2>4
    <2>6. request_end(k, r) = [k EXCEPT !.corrupt = TRUE]
        BY <1>6 DEF request_end
    <2>. QED  BY <2>5, <2>6, CorruptGood
<1>7. CASE ~q.ended /\ q.state # "freed"
    <2>1. v.processing /\ v.q.aborted
        BY <1>2, <1>3, <1>7 DEF Sound, Life
    <2>2. v.copy = "none" /\ v.q.error # "none" /\ Kept(v)
        BY <1>2, <2>1 DEF Sound, OnLists, Copied, Life, Kept
    <2>3. CopyPc(sl, r) = "none"
        BY <1>2, <1>4, <2>2 DEF Shows
    <2>4. Like({"locked", "state", "error", "copied"}, k.req[r], k.req[r])
        BY <1>2 DEF Like
    <2>. QED  BY <1>1, <1>2, <1>4, <1>5, <1>7, <2>1, <2>2, <2>3, <2>4, EndedGood DEF v
<1>. QED  BY <1>6, <1>7

\* The steps of a thread that reads or writes.
LEMMA DeviceInv ==
    ASSUME DevInv, NEW s \in Servers,
           fuse_read_interrupt(s) \/ fuse_dev_readv(s) \/ WriteAborted(s)
    PROVE  DevInv'
<1>1. Good(fc, task, server, held, ender) /\ UNCHANGED <<task, ender>>
    BY DEF DevInv, fuse_read_interrupt, fuse_dev_readv, WriteAborted, OnlyServer
<1>2. CASE fuse_read_interrupt(s)
    <2>. DEFINE r == Head(fc.interrupts)
                n == [fc EXCEPT !.interrupts = Tail(@), !.req[r].intr = TRUE]
    <2>1. /\ fc.interrupts # <<>> /\ UNCHANGED server
          /\ held' = held \/ held' = held \cup {Token(r)}
        BY <1>2 DEF fuse_read_interrupt, Token
    <2>2. fc' = n
        BY <1>2 DEF fuse_read_interrupt
    <2>3. Good(n, task, server, held', ender)
        BY ONLY <1>1, <2>1, ToldGood
    <2>. HIDE DEF n
    <2>. QED  BY <1>1, <2>1, <2>2, <2>3 DEF DevInv
<1>3. CASE fuse_dev_readv(s)
    <2>. DEFINE r == Head(fc.pending)
                m == [Taken(fc, r) EXCEPT !.req[r].error = "EIO"]
    <2>1. fc.pending # <<>> /\ server[s].pc = "idle" /\ UNCHANGED held
        BY <1>3 DEF fuse_dev_readv, CanUse
    <2>2. \/ fc' = request_end(m, r) /\ UNCHANGED server
          \/ fc' = Taken(fc, r) /\ Io(s, "rfault", r)
        BY <1>3 DEF fuse_dev_readv, Taken
    <2>3. Good(request_end(m, r), task, server, held, ender)
        BY ONLY <1>1, <2>1, TooLargeGood
    <2>. HIDE DEF m
    <2>4. ASSUME Io(s, "rfault", r)
          PROVE  Good(Taken(fc, r), task, server', held, ender)
        <3>1. Goes(server, server', s, "rfault", r)
            BY <2>4 DEF Io, Goes, At
        <3>. QED  BY <1>1, <2>1, <3>1, ReadGood
    <2>. QED  BY <1>1, <2>1, <2>2, <2>3, <2>4 DEF DevInv
<1>4. CASE WriteAborted(s)
    <2>. DEFINE r == server[s].req
    <2>1. Goes(server, server', s, "idle", r) /\ UNCHANGED held
        BY <1>4 DEF WriteAborted, IoDone, NoIo, Goes, At
    <2>2. server[s].pc = "aborted" /\ fc' = request_end(fc, r)
        BY <1>4 DEF WriteAborted
    <2>3. Good(request_end(fc, r), task, server', held, ender)
        BY <1>1, <2>1, <2>2, WriteAbortedGood
    <2>. QED  BY <1>1, <2>1, <2>2, <2>3 DEF DevInv
<1>. QED  BY <1>2, <1>3, <1>4

\* A reply of the daemon keeps the invariant.
LEMMA WriteInv ==
    ASSUME DevInv, NEW s \in Servers, NEW m \in held,
           NEW error \in {"none", "ENOSYS", "EAGAIN"}, fuse_dev_writev(s, m, error)
    PROVE  DevInv'
<1>. DEFINE r == m.req
            g == held \ {m}
            found == fc.connected /\ request_find(m)
<1>1. /\ Good(fc, task, server, held, ender) /\ UNCHANGED <<task, ender>>
      /\ held' = g /\ server[s].pc = "idle" /\ m \in held
    BY DEF DevInv, fuse_dev_writev, OnlyServer, CanUse
<1>2. m \in [req : Reqs, intr : BOOLEAN]
    BY <1>1 DEF Good, Types
<1>3. r \in Reqs
    BY <1>2
<1>4. Good(fc, task, server, g, ender)
    BY <1>1, LostGood
<1>. HIDE DEF g
<1>5. CASE ~found /\ UNCHANGED <<fc, server>>
    BY <1>1, <1>4, <1>5 DEF DevInv
<1>6. CASE found /\ fc.req[r].aborted /\ UNCHANGED fc /\ Io(s, "aborted", r)
    <2>1. Goes(server, server', s, "aborted", r)
        BY <1>6 DEF Io, Goes, At
    <2>2. InList(fc.processing, r)
        BY <1>6 DEF request_find
    <2>3. Good(fc, task, server', g, ender)
        BY <1>1, <1>3, <1>4, <1>6, <2>1, <2>2, WindowGood
    <2>. QED  BY <1>1, <1>6, <2>3 DEF DevInv
<1>7. CASE /\ found /\ m.intr /\ UNCHANGED server
           /\ fc' = CASE error = "ENOSYS" -> [fc EXCEPT !.no_interrupt = TRUE]
                      [] error = "EAGAIN" -> queue_interrupt(fc, r)
                      [] OTHER -> fc
    <2>1. CASE error = "ENOSYS"
        <3>. DEFINE n == [fc EXCEPT !.no_interrupt = TRUE]
        <3>1. fc' = n
            BY <1>7, <2>1
        <3>2. fc \in FcRec
            BY <1>1 DEF Good, Types
        <3>3. Quiet(fc, n)
            BY <3>2 DEF Quiet, FcRec, SameQueues, SameNumbers
        <3>. HIDE DEF n
        <3>4. Good(n, task, server, g, ender)
            BY <1>4, <3>3, QuietGood
        <3>. QED  BY <1>1, <1>7, <3>1, <3>4 DEF DevInv
    <2>2. CASE error = "EAGAIN"
        <3>1. fc' = queue_interrupt(fc, r)
            BY <1>7, <2>2
        <3>2. InList(fc.processing, r)
            BY <1>7 DEF request_find
        <3>3. m = Token(r)
            BY <1>2, <1>7 DEF Token
        <3>4. Good(queue_interrupt(fc, r), task, server, held \ {Token(r)}, ender)
            BY <1>1, <1>3, <3>2, <3>3, RequeuedGood
        <3>5. g = held \ {Token(r)}
            BY <3>3 DEF g
        <3>. QED  BY <1>1, <1>7, <3>1, <3>4, <3>5 DEF DevInv
    <2>3. CASE error = "none"
        BY <1>1, <1>4, <1>7, <2>3 DEF DevInv
    <2>. QED  BY <2>1, <2>2, <2>3
<1>8. CASE /\ found /\ ~fc.req[r].aborted
           /\ fc' = [list_del(fc, r) EXCEPT
                        !.io = <<r>> \o @, !.req[r].state = "writing",
                        !.req[r].error = IF r = INIT /\ error # "none"
                                         THEN "server" ELSE "none",
                        !.req[r].locked = TRUE]
           /\ Io(s, "wcopy", r)
    <2>. DEFINE x == IF r = INIT /\ error # "none" THEN "server" ELSE "none"
    <2>1. Goes(server, server', s, "wcopy", r)
        BY <1>8 DEF Io, Goes, At
    <2>2. InList(fc.processing, r) /\ x \in {"none", "server"}
        BY <1>8 DEF request_find
    <2>3. fc' = Answered(fc, r, x)
        BY <1>8 DEF Answered
    <2>. HIDE DEF x
    <2>4. Good(Answered(fc, r, x), task, server', g, ender)
        BY <1>1, <1>3, <1>4, <1>8, <2>1, <2>2, ReplyGood
    <2>. QED  BY <1>1, <2>3, <2>4 DEF DevInv
<1>. QED  BY <1>5, <1>6, <1>7, <1>8 DEF fuse_dev_writev

(***************************************************************************)
(* The end of the connection                                               *)
(***************************************************************************)
\* The one who ends the connection goes on, and may cut the connection.
LEMMA EnderGood ==
    ASSUME NEW k, NEW tk, NEW sv, NEW h, NEW e, Good(k, tk, sv, h, e),
           NEW n \in FcRec, n.nreq = k.nreq, n.req = k.req, SameQueues(k, n),
           n.num_waiting = k.num_waiting, n.num_background = k.num_background,
           ~n.connected \/ (n.connected = k.connected /\ n.blocked = k.blocked),
           NEW f \in [{"abort", "release"} -> EnderRec], EnderFits(n, f),
           f["abort"].req = e["abort"].req
    PROVE  Good(n, tk, sv, h, f)
<1>1. \A r : View(n, tk, sv, h, f, r) = View(k, tk, sv, h, e, r)
    BY DEF View, SameQueues
<1>2. WaitingReqs(n) = WaitingReqs(k) /\ BackgroundReqs(n) = BackgroundReqs(k)
    BY DEF WaitingReqs, BackgroundReqs
<1>3. Types(n, tk, sv, h, f) /\ ListsOnce(n) /\ TasksFit(n, tk) /\ ServersFit(sv)
    BY DEF Good, SameQueues, Types, ListsOnce, TasksFit
<1>4. InitFirst(n)
    BY DEF Good, InitFirst
<1>5. NumbersTrue(n, tk)
    BY <1>2 DEF Good, NumbersTrue
<1>6. ReqsSound(n, tk, sv, h, f)
    BY <1>1 DEF Good, ReqsSound
<1>7. ReservedLate(n, tk)
    BY DEF Good, ReservedLate, Late
<1>. QED  BY <1>3, <1>4, <1>5, <1>6, <1>7 DEF Good

\* EnderGoto.
EnderWent(e, f, x, pc, r) == f = [e EXCEPT ![x] = [pc |-> pc, req |-> r]]

\* fuse_abort_conn or fuse_dev_release goes on to its next place.
LEMMA EnderGoes ==
    ASSUME NEW e \in [{"abort", "release"} -> EnderRec], NEW x \in {"abort", "release"},
           NEW pc \in {"idle", "io", "init", "readpages", "pending", "processing", "done"},
           NEW r \in Reqs \cup {0}, NEW f, EnderWent(e, f, x, pc, r)
    PROVE  /\ f \in [{"abort", "release"} -> EnderRec]
           /\ f[x].pc = pc /\ f[x].req = r
           /\ x = "release" => f["abort"] = e["abort"]
    BY DEF EnderWent, EnderRec

\* A step of it that changes one request.
LEMMA EnderStepped ==
    ASSUME NEW k, NEW tk, NEW sv, NEW h, NEW e, Good(k, tk, sv, h, e), NEW r \in Reqs,
           NEW n, OnlyReq(k, n, r), FcElse(k, n, r), ListsOnce(n),
           NEW f \in [{"abort", "release"} -> EnderRec], EnderFits(n, f), EnderElse(e, f, r)
    PROVE  LET v == View(k, tk, sv, h, e, r)
               w == View(n, tk, sv, h, f, r)
           IN  /\ Shows(w, n, tk, sv, h, f, r)
               /\ LikeView({"q", "pending", "io", "processing", "interrupts", "ender"}, v, w)
               /\ Sound(w) /\ Accounts(k, n, tk) => Good(n, tk, sv, h, f)
<1>. DEFINE v == View(k, tk, sv, h, e, r)
            w == View(n, tk, sv, h, f, r)
<1>1. /\ Shows(v, k, tk, sv, h, e, r) /\ k \in FcRec /\ TasksFit(k, tk)
    BY ReqKnown
<1>2. n \in FcRec /\ n.connected = k.connected /\ n.nreq = k.nreq
    BY DEF OnlyReq
<1>3. Types(n, tk, sv, h, f) /\ ServersFit(sv)
    BY <1>2 DEF Good, Types
<1>4. TasksFit(n, tk)
    BY <1>1, <1>2 DEF TasksFit
<1>5. Shows(w, n, tk, sv, h, f, r)
    BY <1>3, <1>4, ViewShows
<1>6. ASSUME Sound(w), Accounts(k, n, tk)
      PROVE  Good(n, tk, sv, h, f)
    <2>1. TaskElse(tk, tk, r) /\ ServerElse(sv, sv, r) /\ HeldElse(h, h, r)
          /\ Reserving(tk, tk, n)
        BY ElseSame
    <2>. QED  BY <1>3, <1>4, <1>6, <2>1, Stepped
<1>. HIDE DEF v, w
<1>7. LikeView({"q", "pending", "io", "processing", "interrupts", "ender"}, v, w)
    BY <1>1, <1>5 DEF Shows, LikeView
<1>. QED  BY <1>5, <1>6, <1>7 DEF v, w

\* end_requests: a request that is pending, or that the daemon has, is ended.
LEMMA RequestsEndedGood ==
    ASSUME NEW k, NEW tk, NEW sv, NEW h, NEW e, Good(k, tk, sv, h, e),
           NEW l, l = k.pending \/ l = k.processing, l # <<>>
    PROVE  Good(request_end([k EXCEPT !.req[Head(l)].error = "ECONNABORTED"], Head(l)),
                tk, sv, h, e)
<1>. DEFINE r == Head(l)
            q == k.req[r]
            m == [k EXCEPT !.req[r].error = "ECONNABORTED"]
            v == View(k, tk, sv, h, e, r)
<1>1. l \in Seq(Reqs) /\ Once(l) /\ l # <<>>
    BY DEF Good, Types, FcRec, ListsOnce
<1>2. r \in Reqs /\ InList(l, r)
    BY ONLY <1>1, HeadOff
<1>3. /\ Shows(v, k, tk, sv, h, e, r) /\ Sound(v) /\ v \in ViewRec /\ k \in FcRec
      /\ v.q = q /\ q \in ReqRec /\ ListsOnce(k)
      /\ ServersFit(sv) /\ sv \in [Servers -> ServerRec]
    BY <1>2, ReqKnown
<1>. HIDE DEF v, r
<1>4. v.pending \/ v.processing
    BY <1>2, <1>3 DEF Shows
<1>5. v.copy = "none" /\ v.q.state \in {"pending", "sent"} /\ Kept(v)
    BY <1>3, <1>4 DEF Sound, OnLists, Copied, Kept
<1>6. /\ ReqIs(k, m, r, m.req[r]) /\ Like({"error"}, q, m.req[r])
      /\ m.req[r].error = "ECONNABORTED"
    BY <1>2, <1>3, ErrorNames, ErrorReq
<1>. HIDE DEF m
<1>7. OnlyReq(k, m, r) /\ SameNumbers(k, m) /\ ListsOnce(m) /\ FcElse(k, m, r)
    BY <1>3, <1>6, ReqIsElse
<1>8. /\ Like({"locked", "state", "error", "copied"}, q, m.req[r])
      /\ m.req[r].state # "freed"
    BY <1>3, <1>5, <1>6 DEF Like
<1>9. ServerElse(sv, sv, r) /\ CopyPc(sv, r) = "none"
    BY <1>3, <1>5, ElseSame DEF Shows
<1>10. Good(request_end(m, r), tk, sv, h, e)
    BY <1>2, <1>3, <1>5, <1>6, <1>7, <1>8, <1>9, EndedGood DEF v
<1>. QED  BY <1>10 DEF m, r

\* end_io_requests: a request is cut off from its copy.
Cut(k, r) == [list_del(k, r) EXCEPT !.req[r].aborted = TRUE,
                                    !.req[r].error = "ECONNABORTED",
                                    !.req[r].state = "finished"]

\* What one turn of end_io_requests does to the request and the lists.
LEMMA CutFields ==
    ASSUME NEW k, NEW tk, NEW sv, NEW h, NEW e, Good(k, tk, sv, h, e), k.io # <<>>,
           NEW r, r = Head(k.io)
    PROVE  LET n == wake_up(Cut(k, r), r)
               v == View(k, tk, sv, h, e, r)
           IN  /\ r \in Reqs /\ n \in FcRec /\ OnlyReq(k, n, r) /\ SameNumbers(k, n)
               /\ OffThree(k, n, r) /\ n.interrupts = k.interrupts
               /\ FcElse(k, n, r) /\ ListsOnce(n)
               /\ Like({"state", "aborted", "error"}, k.req[r], n.req[r])
               /\ n.req[r].state = "finished" /\ n.req[r].aborted
               /\ n.req[r].error # "none"
               /\ Shows(v, k, tk, sv, h, e, r) /\ Sound(v) /\ v \in ViewRec /\ v.io
               /\ v.q = k.req[r] /\ Alive(k.req[r]) /\ k.req[r] \in ReqRec
<1>. DEFINE q == k.req[r]
            a == list_del(k, r)
            b == [a EXCEPT !.req[r].aborted = TRUE]
            c == [b EXCEPT !.req[r].error = "ECONNABORTED"]
            d == [c EXCEPT !.req[r].state = "finished"]
            n == wake_up(d, r)
            v == View(k, tk, sv, h, e, r)
<1>1. k.io \in Seq(Reqs) /\ Once(k.io)
    BY DEF Good, Types, FcRec, ListsOnce
<1>2. r \in Reqs /\ InList(k.io, r)
    BY ONLY <1>1, k.io # <<>>, r = Head(k.io), HeadOff
<1>3. /\ Shows(v, k, tk, sv, h, e, r) /\ Sound(v) /\ v \in ViewRec /\ k \in FcRec
      /\ v.q = q /\ q \in ReqRec /\ ListsOnce(k)
    BY <1>2, ReqKnown
<1>. HIDE DEF v
<1>4. v.io /\ Alive(q)
    <2>1. v.io
        BY <1>2, <1>3 DEF Shows
    <2>. QED  BY <1>3, <2>1 DEF Sound, OnLists, Alive
<1>5. /\ OnlyReq(k, a, r) /\ a.req = k.req /\ SameNumbers(k, a)
      /\ a.interrupts = k.interrupts /\ OffThree(k, a, r)
    BY <1>2, <1>3, ListDel
<1>6. d = Cut(k, r)
    BY DEF Cut
<1>. HIDE DEF a
<1>7. a \in FcRec
    BY <1>5 DEF OnlyReq
<1>8. /\ ReqIs(a, b, r, b.req[r]) /\ Like({"aborted"}, a.req[r], b.req[r])
      /\ b.req[r].aborted /\ b \in FcRec
    <2>1. /\ ReqIs(a, b, r, b.req[r]) /\ Like({"aborted"}, a.req[r], b.req[r])
          /\ b.req[r].aborted
        BY <1>2, <1>7, AbortedReq
    <2>. QED  BY <2>1 DEF ReqIs
<1>. HIDE DEF b
<1>9. /\ ReqIs(b, c, r, c.req[r]) /\ Like({"error"}, b.req[r], c.req[r])
      /\ c.req[r].error = "ECONNABORTED" /\ c \in FcRec
    <2>1. b \in FcRec /\ r \in Reqs
        BY <1>2, <1>8
    <2>2. /\ ReqIs(b, c, r, c.req[r]) /\ Like({"error"}, b.req[r], c.req[r])
          /\ c.req[r].error = "ECONNABORTED"
        BY ONLY <2>1, ErrorNames, ErrorReq
    <2>. QED  BY <2>2 DEF ReqIs
<1>. HIDE DEF c
<1>10. /\ ReqIs(c, d, r, d.req[r]) /\ Like({"state"}, c.req[r], d.req[r])
       /\ d.req[r].state = "finished" /\ d \in FcRec
    <2>1. "finished" \in States
        BY DEF States
    <2>2. /\ ReqIs(c, d, r, d.req[r]) /\ Like({"state"}, c.req[r], d.req[r])
          /\ d.req[r].state = "finished"
        BY <1>2, <1>9, <2>1, StateReq
    <2>. QED  BY <2>2 DEF ReqIs
<1>. HIDE DEF d
<1>11. Quiet(d, n)
    BY <1>10, WakeQuiet
<1>. HIDE DEF n
<1>12. OnlyReq(a, n, r) /\ SameNumbers(a, n) /\ SameQueues(a, n) /\ n.req = d.req
    BY <1>8, <1>9, <1>10, <1>11
       DEF Quiet, ReqIs, LikeFc, OnlyReq, SameNumbers, SameQueues
<1>13. OnlyReq(k, n, r) /\ SameNumbers(k, n) /\ n \in FcRec
    BY <1>5, <1>12 DEF OnlyReq, SameNumbers
<1>14. OffThree(k, n, r) /\ n.interrupts = k.interrupts
    BY <1>5, <1>12 DEF OffThree, SameQueues
<1>15. FcElse(k, n, r) /\ ListsOnce(n)
    BY <1>3, <1>13, <1>14 DEF FcElse, OnlyReq, OffThree, ListsOnce
<1>16. /\ Like({"state", "aborted", "error"}, q, n.req[r])
       /\ n.req[r].state = "finished" /\ n.req[r].aborted
       /\ n.req[r].error # "none"
    <2>. DEFINE x == b.req[r]
                y == c.req[r]
                z == d.req[r]
    <2>1. /\ Like({"aborted"}, q, x) /\ x.aborted /\ Like({"error"}, x, y)
          /\ y.error = "ECONNABORTED" /\ Like({"state"}, y, z) /\ z.state = "finished"
        BY <1>5, <1>8, <1>9, <1>10
    <2>2. n.req[r] = z
        BY <1>12
    <2>. HIDE DEF x, y, z, q
    <2>3. /\ Like({"state", "aborted", "error"}, q, z) /\ z.state = "finished"
          /\ z.aborted /\ z.error # "none"
        BY ONLY <2>1 DEF Like
    <2>. QED  BY <2>2, <2>3 DEF q
<1>17. n = wake_up(Cut(k, r), r)
    BY <1>6 DEF n
<1>. HIDE DEF q
<1>. QED  BY <1>2, <1>3, <1>4, <1>13, <1>14, <1>15, <1>16, <1>17 DEF v, q

\* end_io_requests: a request without an end function.
LEMMA CutGood ==
    ASSUME NEW k, NEW tk, NEW sv, NEW h, NEW e, Good(k, tk, sv, h, e), k.io # <<>>,
           NEW r, r = Head(k.io), e["abort"].pc = "io"
    PROVE  Good(wake_up(Cut(k, r), r), tk, sv, h, e)
<1>. DEFINE q == k.req[r]
            n == wake_up(Cut(k, r), r)
            v == View(k, tk, sv, h, e, r)
            w == View(n, tk, sv, h, e, r)
<1>1. /\ r \in Reqs /\ n \in FcRec /\ OnlyReq(k, n, r) /\ SameNumbers(k, n)
      /\ OffThree(k, n, r) /\ n.interrupts = k.interrupts
      /\ FcElse(k, n, r) /\ ListsOnce(n)
      /\ Like({"state", "aborted", "error"}, q, n.req[r])
      /\ n.req[r].state = "finished" /\ n.req[r].aborted
      /\ n.req[r].error # "none"
      /\ Shows(v, k, tk, sv, h, e, r) /\ Sound(v) /\ v \in ViewRec /\ v.io
      /\ v.q = q /\ Alive(q) /\ q \in ReqRec
    BY CutFields
<1>. HIDE DEF n, v
<1>2. e \in [{"abort", "release"} -> EnderRec] /\ EnderFits(n, e) /\ EnderElse(e, e, r)
    BY <1>1, ElseSame DEF Good, Types, EnderFits, OnlyReq
<1>3. e["abort"].req # r
    BY <1>1 DEF Good, EnderFits, Reqs
<1>4. /\ Shows(w, n, tk, sv, h, e, r)
      /\ LikeView({"q", "pending", "io", "processing", "interrupts", "ender"}, v, w)
      /\ Sound(w) /\ Accounts(k, n, tk) => Good(n, tk, sv, h, e)
    BY <1>1, <1>2, EnderStepped DEF v
<1>. HIDE DEF w
<1>5. /\ LikeView({"q", "pending", "io", "processing", "ender"}, v, w)
      /\ w.q = n.req[r] /\ ~w.pending /\ ~w.io /\ ~w.processing /\ ~w.ender /\ ~v.ender
    BY <1>1, <1>3, <1>4 DEF LikeView, Shows, OffThree
<1>6. /\ Like({"state", "aborted", "error", "end", "count"}, v.q, w.q)
      /\ w.q.count = v.q.count + One(w.ender)
    BY <1>1, <1>5 DEF Like, One, ReqRec
<1>7. Sound(w)
    BY <1>1, <1>5, <1>6, ViewCutOff
<1>8. Accounts(k, n, tk)
    <2>1. CalmReq(q, n.req[r])
        BY <1>1 DEF CalmReq, Like, Alive
    <2>2. /\ k \in FcRec /\ InitFirst(k) /\ NumbersTrue(k, tk)
          /\ n.connected = k.connected /\ n.nreq = k.nreq
        BY <1>1 DEF Good, Types, OnlyReq
    <2>. QED  BY <1>1, <2>1, <2>2, CalmAccounts DEF CalmReq
<1>. QED  BY <1>4, <1>7, <1>8 DEF n

\* end_io_requests: a request whose end function is called once it is unlocked.
LEMMA CutWaitGood ==
    ASSUME NEW k, NEW tk, NEW sv, NEW h, NEW e, Good(k, tk, sv, h, e), k.io # <<>>,
           NEW r, r = Head(k.io), e["abort"].pc = "io", k.req[r].end # "none",
           NEW f, EnderWent(e, f, "abort", k.req[r].end, r)
    PROVE  Good(__fuse_get_request([wake_up(Cut(k, r), r) EXCEPT !.req[r].end = "none"], r),
                tk, sv, h, f)
<1>. DEFINE q == k.req[r]
            a == wake_up(Cut(k, r), r)
            b == [a EXCEPT !.req[r].end = "none"]
            n == [b EXCEPT !.req[r].count = b.req[r].count + 1]
            v == View(k, tk, sv, h, e, r)
            w == View(n, tk, sv, h, f, r)
<1>1. /\ r \in Reqs /\ a \in FcRec /\ OnlyReq(k, a, r) /\ SameNumbers(k, a)
      /\ OffThree(k, a, r) /\ a.interrupts = k.interrupts
      /\ FcElse(k, a, r) /\ ListsOnce(a)
      /\ Like({"state", "aborted", "error"}, q, a.req[r])
      /\ a.req[r].state = "finished" /\ a.req[r].aborted
      /\ a.req[r].error # "none"
      /\ Shows(v, k, tk, sv, h, e, r) /\ Sound(v) /\ v \in ViewRec /\ v.io
      /\ v.q = q /\ Alive(q) /\ q \in ReqRec
    BY CutFields
<1>2. n = __fuse_get_request(b, r)
    BY DEF __fuse_get_request
<1>. HIDE DEF a, v
<1>3. /\ ReqIs(a, b, r, b.req[r]) /\ Like({"end"}, a.req[r], b.req[r])
      /\ b.req[r].end = "none" /\ b \in FcRec
    <2>1. /\ ReqIs(a, b, r, b.req[r]) /\ Like({"end"}, a.req[r], b.req[r])
          /\ b.req[r].end = "none"
        <3>1. "none" \in {"none", "init", "readpages"}
            OBVIOUS
        <3>. QED  BY <1>1, <3>1, EndReq
    <2>. QED  BY <2>1 DEF ReqIs
<1>. HIDE DEF b
<1>4. /\ ReqIs(b, n, r, n.req[r]) /\ Like({"count"}, b.req[r], n.req[r])
      /\ n.req[r].count = b.req[r].count + 1
    <2>1. 1 \in {-1, 1}
        OBVIOUS
    <2>. QED  BY <1>1, <1>3, <2>1, CountReq
<1>. HIDE DEF n
<1>5. OnlyReq(a, n, r) /\ SameNumbers(a, n) /\ SameQueues(a, n)
    BY <1>3, <1>4 DEF ReqIs, LikeFc, OnlyReq, SameNumbers, SameQueues
<1>6. OnlyReq(k, n, r) /\ SameNumbers(k, n) /\ n \in FcRec
    BY <1>1, <1>5 DEF OnlyReq, SameNumbers
<1>7. OffThree(k, n, r) /\ n.interrupts = k.interrupts
    BY <1>1, <1>5 DEF OffThree, SameQueues
<1>8. FcElse(k, n, r) /\ ListsOnce(n)
    BY <1>1, <1>5 DEF FcElse, OnlyReq, SameQueues, ListsOnce
<1>9. /\ Like({"state", "aborted", "error", "end", "count"}, q, n.req[r])
      /\ n.req[r].state = "finished" /\ n.req[r].aborted /\ n.req[r].error # "none"
      /\ n.req[r].count = q.count + 1 /\ n.req[r].end = "none"
    <2>. DEFINE x == a.req[r]
                y == b.req[r]
                z == n.req[r]
    <2>1. /\ Like({"state", "aborted", "error"}, q, x) /\ x.state = "finished"
          /\ x.aborted /\ x.error # "none" /\ Like({"end"}, x, y) /\ y.end = "none"
          /\ Like({"count"}, y, z) /\ z.count = y.count + 1
        BY <1>1, <1>3, <1>4
    <2>. HIDE DEF x, y, z, q
    <2>2. /\ Like({"state", "aborted", "error", "end", "count"}, q, z)
          /\ z.state = "finished" /\ z.aborted /\ z.error # "none"
          /\ z.count = q.count + 1 /\ z.end = "none"
        <3>1. Like({"state", "aborted", "error", "end"}, q, y)
            BY ONLY <2>1 DEF Like
        <3>2. Like({"state", "aborted", "error", "end", "count"}, q, z)
            BY ONLY <2>1, <3>1 DEF Like
        <3>3. /\ z.state = "finished" /\ z.aborted /\ z.error # "none"
              /\ z.count = y.count + 1 /\ z.end = "none" /\ y.count = q.count
            BY ONLY <2>1 DEF Like
        <3>. QED  BY ONLY <3>2, <3>3
    <2>. QED  BY <2>2 DEF z, q
<1>10. ~k.connected /\ e["abort"].req # r /\ e["abort"].req = 0 /\ r # 0
       /\ e \in [{"abort", "release"} -> EnderRec]
    BY <1>1 DEF Good, EnderFits, Reqs, Types
<1>11. q.end \in {"init", "readpages"}
    BY <1>1 DEF ReqRec
<1>12. f \in [{"abort", "release"} -> EnderRec] /\ f["abort"].pc = q.end
       /\ f["abort"].req = r
    BY <1>1, <1>10, <1>11, EnderGoes
<1>13. EnderFits(n, f)
    BY <1>6, <1>10, <1>11, <1>12 DEF EnderFits, OnlyReq
<1>14. EnderElse(e, f, r)
    BY <1>10, <1>12 DEF EnderElse, Reqs
<1>15. /\ Shows(w, n, tk, sv, h, f, r)
       /\ LikeView({"q", "pending", "io", "processing", "interrupts", "ender"}, v, w)
       /\ Sound(w) /\ Accounts(k, n, tk) => Good(n, tk, sv, h, f)
    BY <1>1, <1>6, <1>8, <1>12, <1>13, <1>14, EnderStepped DEF v
<1>. HIDE DEF w
<1>16. /\ LikeView({"q", "pending", "io", "processing", "ender"}, v, w)
       /\ w.q = n.req[r] /\ ~w.pending /\ ~w.io /\ ~w.processing /\ w.ender /\ ~v.ender
    BY <1>1, <1>7, <1>10, <1>12, <1>15 DEF LikeView, Shows, OffThree
<1>17. w.q.count = v.q.count + One(w.ender)
    BY <1>1, <1>9, <1>16 DEF One
<1>18. Sound(w)
    BY <1>1, <1>9, <1>16, <1>17, ViewCutOff, ZenonT(30)
<1>19. Accounts(k, n, tk)
    <2>1. /\ n.req[r].state # "none" /\ q.state # "none"
          /\ Alive(n.req[r]) <=> Alive(q)
          /\ n.req[r].waiting = q.waiting /\ n.req[r].ended = q.ended
          /\ n.req[r].background = q.background
        BY <1>1, <1>9 DEF Like, Alive
    <2>2. /\ k \in FcRec /\ InitFirst(k) /\ NumbersTrue(k, tk)
          /\ n.connected = k.connected /\ n.nreq = k.nreq
        BY <1>6 DEF Good, Types, OnlyReq
    <2>. QED  BY <1>1, <1>6, <1>8, <1>9, <1>10, <2>1, <2>2, CalmAccounts
<1>20. Good(n, tk, sv, h, f)
    BY <1>15, <1>18, <1>19
<1>. QED  BY <1>2, <1>20 DEF a, b

\* end_io_requests calls the `end` function that it has waited for.
LEMMA EndCalledGood ==
    ASSUME NEW k, NEW tk, NEW sv, NEW h, NEW e, Good(k, tk, sv, h, e),
           e["abort"].pc \in {"init", "readpages"}, NEW r, r = e["abort"].req,
           NEW end, NEW f, EnderWent(e, f, "abort", "io", 0)
    PROVE  Good(End(k, r, end), tk, sv, h, f)
<1>. DEFINE q == k.req[r]
            n == End(k, r, end)
            v == View(k, tk, sv, h, e, r)
            w == View(n, tk, sv, h, f, r)
<1>1. ~k.connected /\ r \in Reqs /\ r # 0 /\ e \in [{"abort", "release"} -> EnderRec]
    BY DEF Good, Types, EnderFits, EnderRec
<1>2. /\ Shows(v, k, tk, sv, h, e, r) /\ Sound(v) /\ v \in ViewRec /\ k \in FcRec
      /\ v.q = q /\ q \in ReqRec /\ ListsOnce(k) /\ InitFirst(k) /\ NumbersTrue(k, tk)
    BY <1>1, ReqKnown
<1>. HIDE DEF v
<1>3. v.ender /\ Alive(q) /\ q.state # "none" /\ q.state # "init"
    <2>1. v.ender
        BY <1>2 DEF Shows
    <2>. QED  BY <1>2, <2>1 DEF Sound, Life, Alive
<1>4. /\ OnlyReq(k, n, r) /\ SameQueues(k, n) /\ Dropped(k, n, r)
      /\ n.num_background = k.num_background
    BY <1>1, <1>2, EndFields
<1>. HIDE DEF n
<1>5. FcElse(k, n, r) /\ ListsOnce(n) /\ n \in FcRec /\ n.connected = k.connected
      /\ n.nreq = k.nreq
    BY <1>2, <1>4, QueuesElse DEF OnlyReq
<1>6. f \in [{"abort", "release"} -> EnderRec] /\ f["abort"].pc = "io"
      /\ f["abort"].req = 0
    BY <1>1, EnderGoes
<1>7. EnderFits(n, f) /\ EnderElse(e, f, r)
    BY <1>1, <1>5, <1>6 DEF EnderFits, EnderElse, Reqs
<1>8. /\ Shows(w, n, tk, sv, h, f, r)
      /\ LikeView({"q", "pending", "io", "processing", "interrupts", "ender"}, v, w)
      /\ Sound(w) /\ Accounts(k, n, tk) => Good(n, tk, sv, h, f)
    BY <1>1, <1>4, <1>5, <1>6, <1>7, EnderStepped DEF v
<1>. HIDE DEF w
<1>9. LikeView({"q", "ender"}, v, w) /\ w.q = n.req[r] /\ ~w.ender
    BY <1>1, <1>2, <1>4, <1>6, <1>8 DEF LikeView, Shows, SameQueues
<1>10. Like({"count"}, q, Less(q)) /\ Less(q).count = q.count - 1
    BY <1>2, LessFields
<1>11. /\ v.q.count = 1 => w.q = Freed
       /\ v.q.count # 1 => Like({"count"}, v.q, w.q) /\ w.q.count = v.q.count - 1
    BY <1>2, <1>4, <1>9, <1>10 DEF Dropped
<1>12. Sound(w)
    BY <1>2, <1>3, <1>9, <1>11, ViewEndCalled
<1>13. r =< k.nreq /\ r \in Int /\ k.nreq \in Int
    <2>1. r \in Int /\ k.nreq \in Int
        BY <1>1, <1>2 DEF FcRec, Reqs
    <2>. QED  BY <1>1, <1>2, <1>3, <2>1 DEF InitFirst
<1>14. /\ n.num_waiting = k.num_waiting + 0 + One(Waits(n.req[r])) - One(Waits(q))
       /\ n.num_background = k.num_background + One(Backs(n.req[r])) - One(Backs(q))
       /\ n.req[r].state # "none" /\ (n.req[r].end = q.end \/ n.req[r].end # "init")
       /\ r = INIT /\ Alive(n.req[r]) => Alive(q) /\ n.req[r].background
    <2>1. k.num_waiting \in Int /\ k.num_background \in Int
        BY <1>2 DEF FcRec
    <2>2. CASE q.count = 1
        <3>1. n.req[r] = Freed /\ n.num_waiting = k.num_waiting - One(q.waiting)
            BY <1>4, <2>2 DEF Dropped
        <3>2. ~Kept(v)
            <4>1. v.q.count = One(Kept(v)) + One(v.task \in WaitPcs) + One(v.ender)
                BY <1>2, <1>3 DEF Sound, Counted
            <4>. QED  BY <1>2, <1>3, <2>2, <4>1 DEF One
        <3>3. ~Backs(q) /\ (Waits(q) <=> q.waiting)
            BY <1>2, <1>3, <3>2 DEF Sound, Life, Backs, Waits
        <3>4. ~Backs(Freed) /\ ~Waits(Freed) /\ ~Alive(Freed)
            BY FixedReqs DEF Backs, Waits, Alive
        <3>5. One(Waits(n.req[r])) = 0 /\ One(Backs(n.req[r])) = 0 /\ One(Backs(q)) = 0
              /\ One(Waits(q)) = One(q.waiting) /\ One(q.waiting) \in Int
            BY <3>1, <3>3, <3>4 DEF One
        <3>. QED  BY <1>4, <2>1, <3>1, <3>4, <3>5, FixedReqs
    <2>3. CASE q.count # 1
        <3>1. n.req[r] = Less(q) /\ n.num_waiting = k.num_waiting
            BY <1>4, <2>3 DEF Dropped
        <3>2. /\ Waits(n.req[r]) <=> Waits(q)
              /\ Backs(n.req[r]) <=> Backs(q)
              /\ n.req[r].end = q.end /\ n.req[r].background = q.background
              /\ n.req[r].state = q.state
            BY <1>10, <3>1 DEF Like, Waits, Backs, Alive
        <3>3. One(Waits(n.req[r])) = One(Waits(q)) /\ One(Waits(q)) \in Int
              /\ One(Backs(n.req[r])) = One(Backs(q)) /\ One(Backs(q)) \in Int
            BY <3>2 DEF One
        <3>4. r = INIT => q.background
            BY <1>2, <1>3 DEF InitFirst
        <3>. QED  BY <1>3, <1>4, <2>1, <3>1, <3>2, <3>3, <3>4
    <2>. QED  BY <2>2, <2>3
<1>15. Accounts(k, n, tk)
    <2>1. InitFirst(n) /\ (Late(k) => Late(n))
        <3>1. r =< n.nreq /\ k.nreq =< n.nreq /\ ~n.connected
            BY <1>1, <1>5, <1>13
        <3>. HIDE DEF q
        <3>2. /\ n.req[r].end = k.req[r].end \/ n.req[r].end # "init"
              /\ r = INIT /\ Alive(n.req[r]) => Alive(k.req[r]) /\ n.req[r].background
            BY <1>14 DEF q
        <3>. QED  BY ONLY <1>1, <1>2, <1>5, <1>14, <3>1, <3>2, InitKept
    <2>2. Cardinality(Getting(tk)) \in Nat /\ 0 \in Int
          /\ Cardinality(Getting(tk)) = Cardinality(Getting(tk)) + 0
        BY GettingSame
    <2>3. NumbersTrue(n, tk)
        <3>1. ~n.connected
            BY <1>1, <1>5
        <3>. QED  BY ONLY <1>1, <1>2, <1>5, <1>14, <2>2, <3>1, NumbersKept
    <2>. QED  BY <2>1, <2>3 DEF Accounts
<1>. QED  BY <1>8, <1>12, <1>15 DEF n

\* The steps that end the connection keep the invariant.
LEMMA EnderInv ==
    ASSUME DevInv, fuse_abort_conn \/ fuse_dev_release \/ EnderStep
    PROVE  DevInv'
<1>1. /\ Good(fc, task, server, held, ender) /\ UNCHANGED <<task, server, held>>
      /\ fc \in FcRec /\ ender \in [{"abort", "release"} -> EnderRec]
    BY Zenon DEF DevInv, Good, Types, fuse_abort_conn, fuse_dev_release, EnderStep, OnlyEnder,
           end_io_requests, EndIoRequest, end_requests
<1>2. ASSUME Good(fc', task, server, held, ender')  PROVE DevInv'
    BY <1>1, <1>2 DEF DevInv
<1>3. ASSUME NEW x \in {"abort", "release"},
             NEW pc \in {"io", "pending", "processing", "done"},
             EnderGoto(x, pc, 0), ender[x].pc \notin {"init", "readpages"},
             x = "abort" => ~fc'.connected,
             fc' \in FcRec, fc'.nreq = fc.nreq, fc'.req = fc.req, SameQueues(fc, fc'),
             fc'.num_waiting = fc.num_waiting, fc'.num_background = fc.num_background,
             ~fc'.connected \/ (fc'.connected = fc.connected /\ fc'.blocked = fc.blocked)
      PROVE  DevInv'
    <2>1. EnderWent(ender, ender', x, pc, 0)
        BY <1>3 DEF EnderGoto, EnderWent
    <2>2. /\ ender' \in [{"abort", "release"} -> EnderRec]
          /\ ender'[x].pc = pc /\ ender'[x].req = 0
          /\ x = "release" => ender'["abort"] = ender["abort"]
        <3>1. pc \in {"idle", "io", "init", "readpages", "pending", "processing", "done"}
              /\ 0 \in Reqs \cup {0}
            BY <1>3
        <3>. QED  BY <1>1, <1>3, <2>1, <3>1, EnderGoes
    <2>3. EnderFits(fc', ender') /\ ender'["abort"].req = ender["abort"].req
        BY <1>1, <1>3, <2>2 DEF Good, EnderFits
    <2>4. Good(fc', task, server, held, ender')
        BY <1>1, <1>3, <2>2, <2>3, EnderGood
    <2>. QED  BY <1>2, <2>4
<1>4. fc'= fc => /\ fc' \in FcRec /\ fc'.nreq = fc.nreq /\ fc'.req = fc.req
                 /\ SameQueues(fc, fc') /\ fc'.num_waiting = fc.num_waiting
                 /\ fc'.num_background = fc.num_background
                 /\ fc'.connected = fc.connected /\ fc'.blocked = fc.blocked
    BY <1>1 DEF SameQueues
<1>5. ender["abort"].pc # "idle" => ~fc.connected
    BY <1>1 DEF Good, EnderFits
<1>6. CASE fuse_abort_conn
    <2>. DEFINE m == [fc EXCEPT !.connected = FALSE]
                n == [m EXCEPT !.blocked = FALSE]
    <2>1. fc' = n
        BY <1>6 DEF fuse_abort_conn
    <2>2. LikeFc({"connected"}, fc, m) /\ m.connected = FALSE
        BY <1>1, FcConnected
    <2>. HIDE DEF m
    <2>3. m \in FcRec
        BY <2>2 DEF LikeFc
    <2>4. LikeFc({"blocked"}, m, n)
        BY <2>3, FcBlocked
    <2>. HIDE DEF n
    <2>5. /\ fc' \in FcRec /\ fc'.nreq = fc.nreq /\ fc'.req = fc.req
          /\ SameQueues(fc, fc') /\ fc'.num_waiting = fc.num_waiting
          /\ fc'.num_background = fc.num_background /\ ~fc'.connected
        BY <2>1, <2>2, <2>4 DEF LikeFc, SameQueues
    <2>6. EnderGoto("abort", "io", 0) /\ ender["abort"].pc = "idle"
        BY <1>6 DEF fuse_abort_conn
    <2>. QED  BY <1>3, <2>5, <2>6
<1>7. CASE fuse_dev_release
    <2>. DEFINE n == [fc EXCEPT !.connected = FALSE]
    <2>1. fc' = n
        BY <1>7 DEF fuse_dev_release
    <2>2. LikeFc({"connected"}, fc, n) /\ n.connected = FALSE
        BY <1>1, FcConnected
    <2>. HIDE DEF n
    <2>3. /\ fc' \in FcRec /\ fc'.nreq = fc.nreq /\ fc'.req = fc.req
          /\ SameQueues(fc, fc') /\ fc'.num_waiting = fc.num_waiting
          /\ fc'.num_background = fc.num_background /\ ~fc'.connected
        BY <2>1, <2>2 DEF LikeFc, SameQueues
    <2>4. EnderGoto("release", "pending", 0) /\ ender["release"].pc = "idle"
        BY <1>7, Zenon DEF fuse_dev_release, Open
    <2>. QED  BY <1>3, <2>3, <2>4
<1>8. CASE end_io_requests
    <2>1. ender["abort"].pc = "io"
        BY <1>8, Zenon DEF end_io_requests
    <2>2. CASE fc.io = <<>> /\ UNCHANGED fc /\ EnderGoto("abort", "pending", 0)
        BY <1>3, <1>4, <1>5, <2>1, <2>2
    <2>3. CASE fc.io # <<>>
        <3>. DEFINE r == Head(fc.io)
                    n == wake_up(Cut(fc, r), r)
        <3>1. CASE fc.req[r].end = "none"
            <4>1. Good(n, task, server, held, ender)
                BY ONLY <1>1, <2>1, <2>3, CutGood
            <4>2. fc' = n /\ UNCHANGED ender
                BY <1>8, <2>3, <3>1 DEF end_io_requests, Cut
            <4>. HIDE DEF n
            <4>. QED  BY <1>2, <4>1, <4>2
        <3>2. CASE fc.req[r].end # "none"
            <4>. DEFINE m == __fuse_get_request([n EXCEPT !.req[r].end = "none"], r)
            <4>1. fc' = m /\ EnderWent(ender, ender', "abort", fc.req[r].end, r)
                BY <1>8, <2>3, <3>2, ZenonT(30) DEF end_io_requests, Cut, EnderGoto, EnderWent
            <4>2. Good(m, task, server, held, ender')
                BY ONLY <1>1, <2>1, <2>3, <3>2, <4>1, CutWaitGood
            <4>. HIDE DEF m
            <4>. QED  BY <1>2, <4>1, <4>2, Zenon
        <3>. QED  BY <3>1, <3>2
    <2>. QED  BY <1>8, <2>2, <2>3, ZenonT(30) DEF end_io_requests
<1>9. CASE EndIoRequest
    <2>. DEFINE r == ender["abort"].req
    <2>1. ender["abort"].pc \in {"init", "readpages"} /\ r \in Int
        BY <1>1, <1>9 DEF EndIoRequest, EnderRec, Reqs
    <2>2. CASE fc' = Sleep(fc, r, "abort") /\ UNCHANGED ender
        <3>1. Quiet(fc, fc')
            BY <1>1, <2>1, <2>2, SleepQuiet
        <3>. QED  BY <1>1, <1>2, <2>2, <3>1, QuietGood
    <2>3. CASE fc' = End(fc, r, ender["abort"].pc) /\ EnderGoto("abort", "io", 0)
        <3>1. EnderWent(ender, ender', "abort", "io", 0)
            BY <2>3 DEF EnderGoto, EnderWent
        <3>2. Good(End(fc, r, ender["abort"].pc), task, server, held, ender')
            BY <1>1, <2>1, <3>1, EndCalledGood
        <3>. QED  BY <1>2, <2>3, <3>2
    <2>. QED  BY <1>9, <2>2, <2>3 DEF EndIoRequest
<1>10. ASSUME NEW x \in {"abort", "release"}, end_requests(x)
       PROVE  DevInv'
    <2>1. ASSUME NEW l, l = fc.pending \/ l = fc.processing, l # <<>>, UNCHANGED ender,
                 fc' = request_end([fc EXCEPT !.req[Head(l)].error = "ECONNABORTED"],
                                   Head(l))
          PROVE  DevInv'
        <3>1. Good(fc', task, server, held, ender)
            BY <1>1, <2>1, RequestsEndedGood
        <3>. QED  BY <1>2, <2>1, <3>1
    <2>2. CASE /\ fc.pending # <<>> /\ UNCHANGED ender
               /\ fc' = request_end([fc EXCEPT
                            !.req[Head(fc.pending)].error = "ECONNABORTED"],
                            Head(fc.pending))
        BY <2>1, <2>2
    <2>3. CASE /\ fc.processing # <<>> /\ UNCHANGED ender
               /\ fc' = request_end([fc EXCEPT
                            !.req[Head(fc.processing)].error = "ECONNABORTED"],
                            Head(fc.processing))
        BY <2>1, <2>3
    <2>4. CASE ender[x].pc = "pending" /\ UNCHANGED fc /\ EnderGoto(x, "processing", 0)
        BY <1>3, <1>4, <1>5, <2>4
    <2>5. CASE /\ ender[x].pc = "processing" /\ EnderGoto(x, "done", 0)
               /\ fc' = IF x = "abort" THEN wake_up(fc, BlockedQ) ELSE fc
        <3>1. Quiet(fc, wake_up(fc, BlockedQ))
            BY <1>1, WakeQuiet
        <3>2. /\ fc' \in FcRec /\ fc'.nreq = fc.nreq /\ fc'.req = fc.req
              /\ SameQueues(fc, fc') /\ fc'.num_waiting = fc.num_waiting
              /\ fc'.num_background = fc.num_background
              /\ fc'.connected = fc.connected /\ fc'.blocked = fc.blocked
            BY <1>1, <2>5, <3>1 DEF Quiet, SameQueues, SameNumbers
        <3>. QED  BY <1>3, <1>5, <2>5, <3>2
    <2>. QED  BY <1>10, <2>2, <2>3, <2>4, <2>5 DEF end_requests
<1>. QED  BY <1>6, <1>7, <1>8, <1>9, <1>10, Zenon DEF EnderStep

(***************************************************************************)
(* The invariant, and the properties                                       *)
(***************************************************************************)
\* The connection that new_conn makes, with INIT not sent yet.
NewReqs == [i \in Reqs |-> IF i = INIT THEN [fuse_request_init EXCEPT !.end = "init"]
                           ELSE NoRequest]
NewConn ==
    [connected |-> TRUE, blocked |-> TRUE, no_interrupt |-> FALSE, conn_error |-> FALSE,
     num_waiting |-> 0, num_background |-> 0, pending |-> <<>>, io |-> <<>>,
     processing |-> <<>>, interrupts |-> <<>>, req |-> NewReqs, nreq |-> 1,
     reserved |-> TRUE, asleep |-> {}, corrupt |-> FALSE]

\* The fields of a new connection.
LEMMA NewConnFields ==
    /\ INIT \in Reqs /\ NewConn \in FcRec /\ NewConn.connected /\ NewConn.blocked
    /\ NewConn.num_waiting = 0 /\ NewConn.num_background = 0
    /\ NewConn.pending = <<>> /\ NewConn.io = <<>> /\ NewConn.processing = <<>>
    /\ NewConn.interrupts = <<>> /\ NewConn.nreq = 1 /\ NewConn.req = NewReqs
    /\ NewReqs[INIT] = [fuse_request_init EXCEPT !.end = "init"]
    /\ \A r \in Reqs \ {INIT} : NewReqs[r] = NoRequest
    /\ NewReqs[INIT] \in ReqRec
<1>1. INIT \in Reqs
    BY DevAssumption DEF INIT, Reqs
<1>2. fuse_request_init \in ReqRec /\ NoRequest \in ReqRec
    BY FixedReqs
<1>3. [fuse_request_init EXCEPT !.end = "init"] \in ReqRec
    <2>. DEFINE q == fuse_request_init
    <2>1. q \in ReqRec
        BY <1>2
    <2>. HIDE DEF q
    <2>2. Like({"end"}, q, [q EXCEPT !.end = "init"])
        BY <2>1, SetEnd
    <2>. QED  BY <2>2 DEF Like, q
<1>4. /\ NewReqs \in [Reqs -> ReqRec]
      /\ NewReqs[INIT] = [fuse_request_init EXCEPT !.end = "init"]
      /\ \A r \in Reqs \ {INIT} : NewReqs[r] = NoRequest
    BY <1>1, <1>2, <1>3 DEF NewReqs
<1>5. /\ NewConn.connected /\ NewConn.blocked
      /\ NewConn.num_waiting = 0 /\ NewConn.num_background = 0
      /\ NewConn.pending = <<>> /\ NewConn.io = <<>> /\ NewConn.processing = <<>>
      /\ NewConn.interrupts = <<>> /\ NewConn.nreq = 1 /\ NewConn.req = NewReqs
    BY DEF NewConn
<1>6. <<>> \in Seq(Reqs) /\ 1 \in Reqs
    BY <1>1 DEF INIT
<1>7. NewConn \in FcRec
    BY <1>4, <1>6 DEF NewConn, FcRec
<1>. QED  BY <1>1, <1>3, <1>4, <1>5, <1>7

\* The invariant holds when fuse_fill_super has sent INIT.
LEMMA InitInv ==
    ASSUME Init
    PROVE  DevInv
<1>. DEFINE set == [NewConn EXCEPT !.req[INIT].isreply = TRUE]
            n == request_send_nowait(set, INIT)
<1>1. fc = n
    BY DEF Init, NewConn, NewReqs, request_send_background
<1>2. /\ INIT \in Reqs /\ NewConn \in FcRec /\ NewConn.connected /\ NewConn.blocked
      /\ NewConn.num_waiting = 0 /\ NewConn.num_background = 0
      /\ NewConn.pending = <<>> /\ NewConn.io = <<>> /\ NewConn.processing = <<>>
      /\ NewConn.interrupts = <<>> /\ NewConn.nreq = 1 /\ NewConn.req = NewReqs
      /\ \A r \in Reqs \ {INIT} : NewReqs[r] = NoRequest
    BY NewConnFields
<1>3. /\ NewReqs[INIT].end = "init" /\ NewReqs[INIT].count = 1
      /\ NewReqs[INIT].waiting = FALSE /\ NewReqs[INIT].aborted = FALSE
      /\ NewReqs[INIT].ended = FALSE
    BY NewConnFields DEF fuse_request_init, NoRequest
<1>4. ReqIs(NewConn, set, INIT, set.req[INIT])
      /\ Like({"isreply"}, NewReqs[INIT], set.req[INIT])
    BY <1>2, ReplyReq
<1>. HIDE DEF set
<1>5. \A y : ~InList(<<>>, y)
    BY DEF InList
<1>6. Once(<<>>)
    BY DEF Once
<1>7. /\ set \in FcRec /\ set.connected /\ ListsOnce(set) /\ set.nreq = 1
      /\ set.blocked /\ set.num_waiting = 0 /\ set.num_background = 0
      /\ set.pending = <<>> /\ set.io = <<>> /\ set.processing = <<>>
      /\ set.interrupts = <<>> /\ ~InList(set.pending, INIT)
      /\ \A r \in Reqs \ {INIT} : set.req[r] = NoRequest
    BY <1>2, <1>4, <1>5, <1>6 DEF ReqIs, LikeFc, ListsOnce
<1>8. /\ n \in FcRec /\ n.connected /\ n.nreq = set.nreq
      /\ \A x \in Reqs \ {INIT} : n.req[x] = set.req[x]
      /\ Like({"state", "waiting", "background"}, set.req[INIT], n.req[INIT])
      /\ n.req[INIT].state = "pending" /\ n.req[INIT].waiting /\ n.req[INIT].background
      /\ n.num_waiting = set.num_waiting + One(~set.req[INIT].waiting)
      /\ n.num_background = set.num_background + 1
      /\ (n.blocked <=> set.blocked \/ n.num_background = FUSE_MAX_BACKGROUND)
      /\ n.io = set.io /\ n.processing = set.processing /\ n.interrupts = set.interrupts
      /\ Once(n.pending)
      /\ \A y : InList(n.pending, y) <=> InList(set.pending, y) \/ y = INIT
    <2>1. INIT \in Reqs /\ set \in FcRec /\ ListsOnce(set) /\ ~InList(set.pending, INIT)
          /\ set.connected
        BY <1>2, <1>7
    <2>2. n \in FcRec /\ n.connected /\ n.nreq = set.nreq
        <3>1. n.connected = set.connected
            BY ONLY <2>1, SendNowait, Zenon DEF n
        <3>2. n \in FcRec /\ n.nreq = set.nreq
            BY ONLY <2>1, SendNowait DEF n
        <3>. QED  BY <2>1, <3>1, <3>2
    <2>3. \A x \in Reqs \ {INIT} : n.req[x] = set.req[x]
        BY ONLY <2>1, SendNowait DEF n
    <2>4. /\ Like({"state", "waiting", "background"}, set.req[INIT], n.req[INIT])
          /\ n.req[INIT].state = "pending" /\ n.req[INIT].waiting
          /\ n.req[INIT].background
        BY ONLY <2>1, SendNowait DEF n
    <2>5. /\ n.num_waiting = set.num_waiting + One(~set.req[INIT].waiting)
          /\ n.num_background = set.num_background + 1
          /\ (n.blocked <=> set.blocked \/ n.num_background = FUSE_MAX_BACKGROUND)
        BY ONLY <2>1, SendNowait DEF n
    <2>6. /\ n.io = set.io /\ n.processing = set.processing
          /\ n.interrupts = set.interrupts /\ Once(n.pending)
        BY ONLY <2>1, SendNowait DEF n
    <2>7. \A y : InList(n.pending, y) <=> InList(set.pending, y) \/ y = INIT
        BY ONLY <2>1, SendNowait DEF n
    <2>. QED  BY <2>2, <2>3, <2>4, <2>5, <2>6, <2>7
<1>. HIDE DEF n
<1>. DEFINE q == n.req[INIT]
<1>9. /\ n.connected /\ n.nreq = 1 /\ n.num_waiting = 1 /\ n.num_background = 1
      /\ n.blocked /\ ListsOnce(n) /\ q \in ReqRec
      /\ \A r \in Reqs \ {INIT} : n.req[r] = NoRequest
    <2>1. One(~set.req[INIT].waiting) = 1
        BY <1>3, <1>4 DEF Like, One
    <2>. QED  BY <1>6, <1>7, <1>8, <2>1 DEF ListsOnce, Like
<1>10. /\ q.end = "init" /\ q.count = 1 /\ q.aborted = FALSE /\ q.ended = FALSE
    BY <1>3, <1>4, <1>8 DEF Like
<1>11. /\ task = [t \in Tasks |-> Idle] /\ server = [s \in Servers |-> NoIo]
       /\ held = {} /\ ender = [x \in {"abort", "release"} |-> [pc |-> "idle", req |-> 0]]
    BY DEF Init
<1>12. Types(n, task, server, held, ender)
    <2>1. Idle \in TaskRec /\ NoIo \in ServerRec /\ [pc |-> "idle", req |-> 0] \in EnderRec
        BY DEF Idle, TaskRec, NoIo, ServerRec, EnderRec
    <2>. QED  BY <1>8, <1>11, <2>1 DEF Types
<1>13. TasksFit(n, task) /\ ServersFit(server) /\ EnderFits(n, ender)
    BY <1>9, <1>11 DEF TasksFit, ServersFit, EnderFits, Idle, NoIo, CopyPcs
<1>14. ASSUME NEW r \in Reqs
       PROVE  Sound(View(n, task, server, held, ender, r))
    <2>. DEFINE v == View(n, task, server, held, ender, r)
    <2>1. Shows(v, n, task, server, held, ender, r)
        BY <1>12, <1>13, ViewShows
    <2>. HIDE DEF v
    <2>2. r # 0
        BY DEF Reqs
    <2>3. TaskPc(task, r) = "none" /\ CopyPc(server, r) = "none" /\ ~InWindow(server, r)
        BY <1>11, <2>2 DEF TaskPc, CopyPc, IsCopy, InWindow, Idle, NoIo
    <2>4. /\ v \in ViewRec /\ v.task = "none" /\ v.copy = "none" /\ ~v.window /\ ~v.told
          /\ ~v.ender /\ ~v.io /\ ~v.processing /\ ~v.interrupts
          /\ v.pending <=> r = INIT
          /\ v.q = n.req[r]
        BY <1>5, <1>7, <1>8, <1>11, <2>1, <2>2, <2>3 DEF Shows
    <2>5. CASE r = INIT
        <3>1. /\ v.pending /\ v.q.state = "pending" /\ v.q.background
              /\ v.q.count = 1 /\ ~v.q.aborted /\ ~v.q.ended
            BY <1>8, <1>10, <2>4, <2>5
        <3>2. Kept(v) /\ Alive(v.q)
            BY <3>1 DEF Kept, Alive
        <3>3. OnLists(v)
            BY <2>4, <3>1 DEF OnLists
        <3>4. Life(v)
            BY <2>4, <3>1, <3>2 DEF Life
        <3>5. Counted(v)
            BY <2>4, <3>1, <3>2 DEF Counted, One, WaitPcs
        <3>6. Copied(v) /\ Waited(v)
            BY <2>4, <3>1 DEF Copied, Waited, WaitPcs
        <3>. QED  BY <3>3, <3>4, <3>5, <3>6 DEF Sound, v
    <2>6. CASE r # INIT
        <3>1. ~v.pending /\ v.q = NoRequest
            BY <1>9, <2>4, <2>6
        <3>2. /\ v.q.state = "none" /\ ~v.q.ended /\ ~v.q.aborted /\ ~v.q.background
            BY <3>1, FixedReqs
        <3>3. ~Kept(v) /\ ~Alive(v.q)
            BY <2>4, <3>1, <3>2 DEF Kept, Alive
        <3>4. OnLists(v)
            BY <2>4, <3>1, <3>2 DEF OnLists
        <3>5. Life(v) /\ Counted(v)
            BY <2>4, <3>1, <3>2, <3>3 DEF Life, Counted
        <3>6. Copied(v) /\ Waited(v)
            BY <2>4, <3>2, <3>3 DEF Copied, Waited, WaitPcs
        <3>. QED  BY <3>4, <3>5, <3>6 DEF Sound, v
    <2>. QED  BY <2>5, <2>6 DEF v
<1>15. InitFirst(n)
    <2>1. ASSUME NEW r \in Reqs
          PROVE  /\ n.req[r].end = "init" => r = INIT
                 /\ r > n.nreq => n.req[r].state = "none"
                 /\ r # INIT => ~Alive(n.req[r])
        BY <1>9, FixedReqs DEF Alive, INIT
    <2>2. q.state # "none" /\ q.background
        BY <1>8
    <2>. QED  BY <1>2, <1>9, <1>10, <2>1, <2>2 DEF InitFirst
<1>16. ReservedLate(n, task)
    BY <1>11 DEF ReservedLate, Idle
<1>17. NumbersTrue(n, task)
    <2>1. Getting(task) = {}
        BY <1>11 DEF Getting, Wants, Idle
    <2>2. Alive(q) /\ ~Alive(NoRequest)
        BY <1>8, FixedReqs DEF Alive
    <2>3. WaitingReqs(n) = {INIT}
        BY <1>2, <1>8, <1>9, <2>2 DEF WaitingReqs, Waits
    <2>4. BackgroundReqs(n) = {INIT}
        BY <1>2, <1>8, <1>9, <1>10, <2>2 DEF BackgroundReqs, Backs
    <2>5. Cardinality({}) = 0 /\ Cardinality({INIT}) = 1
        BY FS_EmptySet, FS_Singleton
    <2>. QED  BY <1>9, <2>1, <2>2, <2>3, <2>4, <2>5 DEF NumbersTrue
<1>. QED  BY <1>1, <1>9, <1>12, <1>13, <1>14, <1>15, <1>16, <1>17
          DEF DevInv, Good, ReqsSound

\* Every step keeps the invariant.
LEMMA NextInv ==
    ASSUME DevInv, [Next]_vars
    PROVE  DevInv'
<1>1. CASE UNCHANGED vars
    BY <1>1 DEF vars, DevInv
<1>2. CASE \E t \in Tasks : TaskStep(t)
    BY <1>2, TaskStepInv
<1>3. CASE \E t \in Tasks, kind \in Kinds : Call(t, kind)
    BY <1>3, CallInv
<1>4. CASE \E t \in Tasks, sig \in {"signal", "kill"} : Signal(t, sig)
    BY <1>4, SignalInv
<1>5. CASE \E s \in Servers : \/ fuse_read_interrupt(s) \/ fuse_dev_readv(s)
                              \/ lock_request(s) \/ FaultFails(s)
                              \/ Copy(s) \/ WriteAborted(s)
    BY <1>5, CopyInv, DeviceInv
<1>6. CASE \E s \in Servers, m \in held, error \in {"none", "ENOSYS", "EAGAIN"} :
              fuse_dev_writev(s, m, error)
    BY <1>6, WriteInv
<1>7. CASE fuse_abort_conn \/ fuse_dev_release \/ EnderStep
    BY <1>7, EnderInv
<1>. QED  BY <1>1, <1>2, <1>3, <1>4, <1>5, <1>6, <1>7 DEF Next
\* Every state of the specification satisfies the invariant.
THEOREM RequestsSound == Spec => []DevInv
<1>1. Init => DevInv
    BY InitInv
<1>2. DevInv /\ [Next]_vars => DevInv'
    BY NextInv
<1>. QED  BY <1>1, <1>2, PTL DEF Spec

\* The lists of the connection: a request is on one list at most, at one place,
\* as its state says.
LEMMA ListsFollow == DevInv => ListsSound
<1>. SUFFICES ASSUME DevInv  PROVE ListsSound
    OBVIOUS
<1>. DEFINE lists == <<fc.pending, fc.io, fc.processing>>
<1>1. /\ fc \in FcRec /\ ListsOnce(fc)
      /\ \A r \in Reqs : \E v : Shows(v, fc, task, server, held, ender, r) /\ Sound(v)
    BY ReqKnown DEF DevInv, Good, Types
<1>2. ASSUME NEW r \in Reqs
      PROVE  /\ InList(fc.pending, r) => fc.req[r].state = "pending"
             /\ InList(fc.io, r) <=> fc.req[r].state \in {"reading", "writing"}
             /\ InList(fc.processing, r) <=> fc.req[r].state = "sent"
             /\ InList(fc.interrupts, r) => Live(r) /\ ~fc.req[r].ended
    <2>1. PICK v : Shows(v, fc, task, server, held, ender, r) /\ Sound(v)
        BY <1>1
    <2>. QED  BY <2>1 DEF Shows, Sound, OnLists, Life, Live, Alive
<1>3. /\ fc.pending \in Seq(Reqs) /\ fc.io \in Seq(Reqs) /\ fc.processing \in Seq(Reqs)
    BY <1>1 DEF FcRec
<1>4. /\ \A i \in DOMAIN fc.pending : fc.req[fc.pending[i]].state = "pending"
      /\ \A i \in DOMAIN fc.io : fc.req[fc.io[i]].state \in {"reading", "writing"}
      /\ \A i \in DOMAIN fc.processing : fc.req[fc.processing[i]].state = "sent"
    <2>1. ASSUME NEW i \in DOMAIN fc.pending
          PROVE  fc.req[fc.pending[i]].state = "pending"
        BY <1>2, <1>3 DEF InList
    <2>2. ASSUME NEW i \in DOMAIN fc.io
          PROVE  fc.req[fc.io[i]].state \in {"reading", "writing"}
        BY <1>2, <1>3 DEF InList
    <2>3. ASSUME NEW i \in DOMAIN fc.processing
          PROVE  fc.req[fc.processing[i]].state = "sent"
        BY <1>2, <1>3 DEF InList
    <2>. QED  BY <2>1, <2>2, <2>3
<1>5. ASSUME NEW l \in 1..3, NEW m \in 1..3, NEW i \in DOMAIN lists[l],
             NEW j \in DOMAIN lists[m], lists[l][i] = lists[m][j]
      PROVE  l = m /\ i = j
    <2>1. lists[1] = fc.pending /\ lists[2] = fc.io /\ lists[3] = fc.processing
        OBVIOUS
    <2>. HIDE DEF lists
    <2>2. l \in {1, 2, 3} /\ m \in {1, 2, 3}
        OBVIOUS
    <2>3. CASE l = m
        BY <1>1, <1>5, <2>1, <2>2, <2>3 DEF ListsOnce, Once
    <2>4. CASE l # m
        BY <1>4, <1>5, <2>1, <2>2, <2>4
    <2>. QED  BY <2>3, <2>4
<1>6. Once(fc.interrupts)
    BY <1>1 DEF ListsOnce
<1>. QED  BY <1>2, <1>5, <1>6 DEF ListsSound, Once

\* The lists of the connection stay sound: whatever the daemon, signals, aborts
\* and the closing of the device do, a request is on the one list that its
\* state names, and no ended request has an interrupt queued.
THEOREM ListsStaySound == Spec => []ListsSound
    BY RequestsSound, ListsFollow, PTL

\* A request under copy is locked, and its task has not left.
LEMMA CopiesFollow == DevInv => CopiesOwned
<1>1. SUFFICES ASSUME DevInv, NEW s \in Servers, server[s].pc \in {"rcopy", "wcopy"}
               PROVE  /\ fc.req[server[s].req].locked
                      /\ fc.req[server[s].req].background
                         \/ \E t \in Tasks :
                               /\ task[t].req = server[s].req
                               /\ task[t].pc \in {"wait1", "wait2", "unlocked"}
    BY DEF CopiesOwned
<1>. DEFINE r == server[s].req
<1>2. server[s].pc \in CopyPcs /\ r \in Reqs
    BY <1>1 DEF DevInv, Good, Types, ServersFit, ServerRec, CopyPcs
<1>. HIDE DEF r
<1>3. PICK v : Shows(v, fc, task, server, held, ender, r) /\ Sound(v)
    BY <1>1, <1>2, ReqKnown DEF DevInv
<1>4. v.copy = server[s].pc
    BY <1>1, <1>2, <1>3, CopyPcIs DEF Shows, DevInv, Good, r
<1>5. /\ fc.req[r].locked
      /\ fc.req[r].background \/ TaskPc(task, r) \in {"wait1", "wait2", "unlocked"}
    BY <1>1, <1>3, <1>4 DEF Shows, Sound, Copied
<1>6. ASSUME TaskPc(task, r) # "none"
      PROVE  \E t \in Tasks : task[t].req = r /\ task[t].pc = TaskPc(task, r)
    BY <1>6 DEF TaskPc
<1>. QED  BY <1>5, <1>6 DEF r

\* The pages of a call are copied only while its task waits: neither a signal
\* nor an abort lets the task go while a thread of the daemon is at them.
THEOREM CopiesStayOwned == Spec => []CopiesOwned
    BY RequestsSound, CopiesFollow, PTL

\* A task about to return without an error has the whole reply.
LEMMA AnswersFollow == DevInv => AnswersGenuine
<1>1. SUFFICES ASSUME DevInv, NEW t \in Tasks, task[t].pc = "put"
               PROVE  \/ fc.req[task[t].req].error # "none"
                      \/ fc.req[task[t].req].copied
    BY DEF AnswersGenuine
<1>2. task[t].req \in Reqs /\ task[t].req # 0
    BY <1>1 DEF DevInv, Good, Types, TasksFit, TaskRec, Reqs
<1>3. PICK v : Shows(v, fc, task, server, held, ender, task[t].req) /\ Sound(v)
    BY <1>1, <1>2, ReqKnown DEF DevInv
<1>4. v.task = "put"
    BY <1>1, <1>2, <1>3, TaskPcIs DEF Shows, DevInv, Good
<1>. QED  BY <1>3, <1>4 DEF Shows, Sound, Waited

\* No signal, abort or short copy is ever taken for the daemon's reply.
THEOREM AnswersStayGenuine == Spec => []AnswersGenuine
    BY RequestsSound, AnswersFollow, PTL

\* The references, and the counters of the connection.
LEMMA CountsFollow == DevInv => CountsTrue
<1>. SUFFICES ASSUME DevInv  PROVE CountsTrue
    OBVIOUS
<1>1. /\ Types(fc, task, server, held, ender) /\ TasksFit(fc, task) /\ ServersFit(server)
      /\ NumbersTrue(fc, task)
    BY DEF DevInv, Good
<1>2. ASSUME NEW r \in Reqs, Live(r)
      PROVE  fc.req[r].count =
                (IF \/ InList(fc.pending, r) \/ InList(fc.processing, r)
                    \/ \E s \in Servers : server[s].req = r /\ server[s].pc # "aborted"
                 THEN 1 ELSE 0)
                + Cardinality({t \in Tasks : task[t].req = r /\ Waiter(t)})
                + (IF ender["abort"].req = r THEN 1 ELSE 0)
    <2>1. PICK v : Shows(v, fc, task, server, held, ender, r) /\ Sound(v)
        BY ReqKnown DEF DevInv
    <2>2. r # 0
        BY DEF Reqs
    <2>. DEFINE W == {t \in Tasks : task[t].req = r /\ Waiter(t)}
                C == \E s \in Servers : server[s].req = r /\ server[s].pc # "aborted"
    <2>3. Cardinality(W) = One(v.task \in WaitPcs)
        <3>1. CASE \E t \in Tasks : task[t].req = r
            <4>1. PICK t \in Tasks : task[t].req = r
                BY <3>1
            <4>2. v.task = task[t].pc
                BY <1>1, <2>1, <2>2, <4>1, TaskPcIs DEF Shows
            <4>3. task[t].pc \in {"idle", "get", "reserved"} \cup WaitPcs
                BY <1>1 DEF Types, TaskRec
            <4>4. \A u \in Tasks : task[u].req = r => u = t
                BY <1>1, <2>2, <4>1 DEF TasksFit
            <4>5. CASE v.task \in WaitPcs
                <5>1. W = {t}
                    BY <4>1, <4>2, <4>4, <4>5 DEF Waiter, WaitPcs
                <5>. QED  BY <4>5, <5>1, FS_Singleton DEF One
            <4>6. CASE v.task \notin WaitPcs
                <5>1. W = {}
                    BY <4>2, <4>3, <4>4, <4>6 DEF Waiter
                <5>. QED  BY <4>6, <5>1, FS_EmptySet DEF One
            <4>. QED  BY <4>5, <4>6
        <3>2. CASE ~\E t \in Tasks : task[t].req = r
            <4>1. W = {} /\ v.task = "none"
                BY <2>1, <3>2 DEF Shows, TaskPc
            <4>. QED  BY <4>1, FS_EmptySet DEF One, WaitPcs
        <3>. QED  BY <3>1, <3>2
    <2>4. C <=> v.copy # "none"
        <3>1. ASSUME NEW s \in Servers, server[s].req = r
              PROVE  server[s].pc # "aborted" <=> server[s].pc \in CopyPcs
            BY <1>1, <2>2, <3>1 DEF Types, ServersFit, ServerRec, CopyPcs
        <3>2. C <=> \E s \in Servers : IsCopy(server, s, r)
            BY <3>1 DEF IsCopy
        <3>. HIDE DEF C
        <3>3. (\E s \in Servers : IsCopy(server, s, r)) <=> CopyPc(server, r) # "none"
            BY DEF CopyPc, IsCopy, CopyPcs
        <3>. QED  BY <2>1, <3>2, <3>3 DEF Shows
    <2>5. fc.req[r].count = One(Kept(v)) + One(v.task \in WaitPcs) + One(v.ender)
        BY <1>2, <2>1 DEF Shows, Sound, Counted, Live, Alive
    <2>. HIDE DEF W, C
    <2>6. Kept(v) <=> InList(fc.pending, r) \/ InList(fc.processing, r) \/ C
        BY <2>1, <2>4 DEF Shows, Kept
    <2>7. v.ender <=> ender["abort"].req = r
        BY <2>1 DEF Shows
    <2>8. One(Kept(v)) = IF InList(fc.pending, r) \/ InList(fc.processing, r) \/ C
                         THEN 1 ELSE 0
        BY <2>6 DEF One
    <2>9. One(v.ender) = IF ender["abort"].req = r THEN 1 ELSE 0
        BY <2>7 DEF One
    <2>10. fc.req[r].count =
              (IF InList(fc.pending, r) \/ InList(fc.processing, r) \/ C THEN 1 ELSE 0)
              + Cardinality(W) + (IF ender["abort"].req = r THEN 1 ELSE 0)
        BY <2>3, <2>5, <2>8, <2>9
    <2>. QED  BY <2>10 DEF W, C
<1>3. RefsCounted
    BY <1>2 DEF RefsCounted
<1>4. /\ Getting(task) = {t \in Tasks : task[t].pc \in {"get", "reserved"}}
      /\ WaitingReqs(fc) = {r \in Reqs : Live(r) /\ fc.req[r].waiting}
      /\ BackgroundReqs(fc) =
            {r \in Reqs : Live(r) /\ fc.req[r].background /\ ~fc.req[r].ended}
    BY DEF Getting, Wants, WaitingReqs, Waits, BackgroundReqs, Backs, Alive, Live
<1>5. ~Live(INIT) <=> ~Alive(fc.req[INIT])
    BY DEF Live, Alive
<1>. QED  BY <1>1, <1>3, <1>4, <1>5 DEF CountsTrue, NumbersTrue

\* The counters stay true and no request is freed under one who will still
\* touch it, whichever way requests end.
THEOREM CountsStayTrue == Spec => []CountsTrue
    BY RequestsSound, CountsFollow, PTL
(***************************************************************************)
(* No request is ended twice outside of the window                         *)
(***************************************************************************)
\* A step does not come upon a request that was ended before.
Keeps(k, n) == "corrupt" \in DOMAIN n /\ n.corrupt = k.corrupt

\* Those operations on the connection that do not look at `ended`.
LEMMA CallsKeep ==
    ASSUME NEW k, "corrupt" \in DOMAIN k, NEW r
    PROVE  /\ \A q : Keeps(k, wake_up(k, q))
           /\ \A q, t : Keeps(k, Sleep(k, q, t))
           /\ \A t : Keeps(k, finish_wait(k, t))
           /\ Keeps(k, list_del(k, r)) /\ Keeps(k, __fuse_get_request(k, r))
           /\ Keeps(k, queue_interrupt(k, r)) /\ Keeps(k, queue_request(k, r))
<1>1. ASSUME NEW q  PROVE Keeps(k, wake_up(k, q))
    BY DEF Keeps, wake_up
<1>2. ASSUME NEW q, NEW t  PROVE Keeps(k, Sleep(k, q, t))
    BY DEF Keeps, Sleep
<1>3. ASSUME NEW t  PROVE Keeps(k, finish_wait(k, t))
    BY DEF Keeps, finish_wait
<1>4. Keeps(k, list_del(k, r)) /\ Keeps(k, __fuse_get_request(k, r))
    BY DEF Keeps, list_del, __fuse_get_request
<1>5. Keeps(k, queue_interrupt(k, r)) /\ Keeps(k, queue_request(k, r))
    BY DEF Keeps, queue_interrupt, queue_request
<1>. QED  BY <1>1, <1>2, <1>3, <1>4, <1>5

\* One after the other.
LEMMA KeepsBoth ==
    ASSUME NEW k, NEW m, NEW n, Keeps(k, m), Keeps(m, n)
    PROVE  Keeps(k, n)
    BY DEF Keeps

\* fuse_put_request, process_init_reply and fuse_readpages_end.
LEMMA EndKeeps ==
    ASSUME NEW k, "corrupt" \in DOMAIN k, NEW r, NEW end
    PROVE  Keeps(k, fuse_put_request(k, r)) /\ Keeps(k, End(k, r, end))
<1>1. ASSUME NEW m, "corrupt" \in DOMAIN m  PROVE Keeps(m, fuse_put_request(m, r))
    <2>. DEFINE less == [m EXCEPT !.req[r].count = @ - 1]
                freed == [m EXCEPT !.req[r] = Freed,
                                   !.num_waiting = IF m.req[r].waiting THEN @ - 1 ELSE @]
                back == [freed EXCEPT !.reserved = TRUE]
    <2>1. fuse_put_request(m, r) \in {less, freed, wake_up(back, ReservedQ)}
        BY DEF fuse_put_request
    <2>2. Keeps(m, less) /\ Keeps(m, freed)
        BY <1>1 DEF Keeps
    <2>. HIDE DEF less, freed
    <2>3. Keeps(freed, back)
        BY <2>2 DEF Keeps
    <2>. HIDE DEF back
    <2>4. Keeps(back, wake_up(back, ReservedQ))
        BY <2>3, CallsKeep DEF Keeps
    <2>5. Keeps(m, wake_up(back, ReservedQ))
        BY <2>2, <2>3, <2>4, KeepsBoth
    <2>. QED  BY <2>1, <2>2, <2>5
<1>2. Keeps(k, process_init_reply(k, r))
    <2>. DEFINE done == [k EXCEPT !.conn_error = @ \/ k.req[r].error # "none"]
                put == fuse_put_request(done, r)
                open == [put EXCEPT !.blocked = FALSE]
    <2>1. process_init_reply(k, r) = wake_up(open, BlockedQ)
        BY DEF process_init_reply
    <2>2. Keeps(k, done)
        BY DEF Keeps
    <2>. HIDE DEF done
    <2>3. Keeps(done, put)
        BY <1>1, <2>2 DEF Keeps
    <2>. HIDE DEF put
    <2>4. Keeps(put, open)
        BY <2>3 DEF Keeps
    <2>. HIDE DEF open
    <2>5. Keeps(open, wake_up(open, BlockedQ))
        BY <2>4, CallsKeep DEF Keeps
    <2>. QED  BY <2>1, <2>2, <2>3, <2>4, <2>5, KeepsBoth
<1>. QED  BY <1>1, <1>2 DEF End

\* request_end of a request that was not ended.
LEMMA RequestEndKeeps ==
    ASSUME NEW k, "corrupt" \in DOMAIN k, NEW r,
           ~k.req[r].ended, k.req[r].state # "freed"
    PROVE  Keeps(k, request_end(k, r))
<1>. DEFINE off == Unlisted(k, r)
            full == off.num_background = FUSE_MAX_BACKGROUND
            less == [off EXCEPT !.num_background = @ - 1]
            free == [less EXCEPT !.blocked = FALSE]
            bg == IF ~k.req[r].background THEN off
                  ELSE IF full THEN wake_up(free, BlockedQ) ELSE less
            woken == wake_up(bg, r)
<1>1. request_end(k, r) = End(woken, r, k.req[r].end)
    BY DEF request_end
<1>2. Keeps(k, off)
    <2>. DEFINE l == list_del(k, r)
    <2>1. Keeps(k, l)
        BY CallsKeep
    <2>2. off = [l EXCEPT !.interrupts = Without(@, r), !.req[r].end = "none",
                          !.req[r].ended = TRUE, !.req[r].state = "finished"]
        BY DEF Unlisted
    <2>. HIDE DEF l, off
    <2>. QED  BY <2>1, <2>2 DEF Keeps
<1>. HIDE DEF off
<1>3. Keeps(off, less)
    BY <1>2 DEF Keeps
<1>. HIDE DEF less
<1>4. Keeps(less, free)
    BY <1>3 DEF Keeps
<1>. HIDE DEF free
<1>5. Keeps(free, wake_up(free, BlockedQ))
    BY <1>4, CallsKeep DEF Keeps
<1>6. Keeps(k, less) /\ Keeps(k, wake_up(free, BlockedQ))
    BY <1>2, <1>3, <1>4, <1>5, KeepsBoth
<1>7. bg \in {off, less, wake_up(free, BlockedQ)}
    OBVIOUS
<1>8. Keeps(k, bg)
    BY <1>2, <1>6, <1>7
<1>. HIDE DEF bg
<1>9. Keeps(bg, woken)
    BY <1>8, CallsKeep DEF Keeps
<1>. HIDE DEF woken
<1>10. Keeps(woken, End(woken, r, k.req[r].end))
    BY <1>9, EndKeeps DEF Keeps
<1>. QED  BY <1>1, <1>8, <1>9, <1>10, KeepsBoth

\* request_send_nowait of a new request.
LEMMA SendKeeps ==
    ASSUME NEW k \in FcRec, NEW r \in Reqs, ~k.req[r].ended, k.req[r].state # "freed"
    PROVE  /\ Keeps(k, request_send_nowait(k, r))
           /\ Keeps(k, request_send_background(k, r))
<1>1. ASSUME NEW m \in FcRec, ~m.req[r].ended, m.req[r].state # "freed"
      PROVE  Keeps(m, request_send_nowait(m, r))
    <2>. DEFINE n == m.num_background + 1
                set == [m EXCEPT !.req[r].background = TRUE, !.num_background = n,
                                 !.blocked = (n = FUSE_MAX_BACKGROUND) \/ @]
                err == [m EXCEPT !.req[r].error = "ENOTCONN"]
    <2>1. request_send_nowait(m, r) \in {queue_request(set, r), request_end(err, r)}
        BY DEF request_send_nowait
    <2>2. "corrupt" \in DOMAIN m
        BY <1>1 DEF FcRec
    <2>3. Keeps(m, set)
        BY <2>2 DEF Keeps
    <2>4. Keeps(m, err)
        BY <2>2 DEF Keeps
    <2>5. Like({"error"}, m.req[r], err.req[r])
        BY <1>1, ErrorNames, ErrorReq
    <2>. HIDE DEF set, err
    <2>6. Keeps(set, queue_request(set, r))
        BY <2>3, CallsKeep DEF Keeps
    <2>7. ~err.req[r].ended /\ err.req[r].state # "freed"
        BY <1>1, <2>5 DEF Like
    <2>8. Keeps(err, request_end(err, r))
        BY <2>4, <2>7, RequestEndKeeps DEF Keeps
    <2>9. Keeps(m, queue_request(set, r)) /\ Keeps(m, request_end(err, r))
        BY <2>3, <2>4, <2>6, <2>8, KeepsBoth
    <2>. QED  BY <2>1, <2>9
<1>. DEFINE set == [k EXCEPT !.req[r].isreply = TRUE]
<1>2. request_send_background(k, r) = request_send_nowait(set, r)
    BY DEF request_send_background
<1>3. ReqIs(k, set, r, set.req[r]) /\ Like({"isreply"}, k.req[r], set.req[r])
    BY ReplyReq
<1>. HIDE DEF set
<1>4. set \in FcRec /\ ~set.req[r].ended /\ set.req[r].state # "freed" /\ Keeps(k, set)
    <2>1. set \in FcRec /\ set.corrupt = k.corrupt
        BY <1>3 DEF ReqIs, LikeFc
    <2>2. "corrupt" \in DOMAIN set
        BY <2>1 DEF FcRec
    <2>. QED  BY <1>3, <2>1, <2>2 DEF Like, Keeps
<1>5. Keeps(set, request_send_nowait(set, r))
    BY <1>1, <1>4
<1>. QED  BY <1>1, <1>2, <1>4, <1>5, KeepsBoth

\* The steps of the tasks.
LEMMA TaskStepKeeps ==
    ASSUME DevInv, NEW t \in Tasks, TaskStep(t)
    PROVE  Keeps(fc, fc')
<1>. DEFINE r == task[t].req
<1>1. fc \in FcRec /\ "corrupt" \in DOMAIN fc
    BY DEF DevInv, Good, Types, FcRec
<1>2. CASE UNCHANGED fc
    BY <1>1, <1>2 DEF Keeps
<1>3. CASE \E q, u : fc' = Sleep(fc, q, u)
    BY <1>1, <1>3, CallsKeep
<1>4. Keeps(fc, finish_wait(fc, t))
    BY <1>1, CallsKeep
<1>5. CASE GiveUp(t)
    <2>. DEFINE m == finish_wait(fc, t)
    <2>1. Keeps(fc, m) /\ fc' = [m EXCEPT !.num_waiting = @ - 1, !.req[r] = Freed]
        BY <1>4, <1>5 DEF GiveUp
    <2>. HIDE DEF m, r
    <2>. QED  BY <2>1 DEF Keeps
<1>6. CASE \E x : Allocated(t, x)
    <2>1. PICK x : Allocated(t, x)
        BY <1>6
    <2>. DEFINE p == [fuse_request_init EXCEPT !.waiting = TRUE,
                         !.stolen = x, !.force = (task[t].kind = "flush"),
                         !.end = IF task[t].kind = "readpages" THEN "readpages"
                                 ELSE "none"]
    <2>2. fc' = [fc EXCEPT !.req[r] = p, !.reserved = @ /\ ~x]
        BY <2>1 DEF Allocated
    <2>. HIDE DEF p, r
    <2>. QED  BY <1>1, <2>2 DEF Keeps
<1>7. CASE fuse_get_req(t) \/ get_reserved_req(t)
    BY <1>2, <1>3, <1>5, <1>6, <1>7 DEF fuse_get_req, get_reserved_req
<1>8. CASE Send(t)
    <2>1. task[t].pc = "send"
        BY <1>8 DEF Send
    <2>2. r \in Reqs /\ fc.req[r].state = "init" /\ ~fc.req[r].ended
        <3>. DEFINE v == View(fc, task, server, held, ender, r)
        <3>1. /\ r \in Reqs /\ Shows(v, fc, task, server, held, ender, r)
              /\ Sound(v) /\ v.task = task[t].pc
            BY <2>1, TaskKnown DEF DevInv
        <3>. HIDE DEF v, r
        <3>2. v.q = fc.req[r]
            BY <3>1 DEF Shows
        <3>. QED  BY <2>1, <3>1, <3>2 DEF Sound, Life, Waited
    <2>. HIDE DEF r
    <2>3. CASE task[t].kind = "readpages"
        <3>1. fc' = request_send_background(fc, r)
            BY <1>8, <2>3 DEF Send, r
        <3>. QED  BY <1>1, <2>2, <3>1, SendKeeps
    <2>4. CASE task[t].kind # "readpages"
        <3>. DEFINE set == [fc EXCEPT !.req[r].isreply = TRUE]
                    queued == queue_request(set, r)
        <3>1. \/ \E x : fc' = [set EXCEPT !.req[r].error = x]
              \/ fc' = __fuse_get_request(queued, r)
            BY <1>8, <2>4 DEF Send, request_send, r
        <3>2. Keeps(fc, set)
            BY <1>1 DEF Keeps
        <3>. HIDE DEF set
        <3>3. Keeps(set, queued)
            BY <3>2, CallsKeep DEF Keeps
        <3>. HIDE DEF queued
        <3>4. Keeps(queued, __fuse_get_request(queued, r))
            BY <3>3, CallsKeep DEF Keeps
        <3>5. ASSUME NEW x  PROVE Keeps(set, [set EXCEPT !.req[r].error = x])
            BY <3>2 DEF Keeps
        <3>. QED  BY <3>1, <3>2, <3>3, <3>4, <3>5, KeepsBoth
    <2>. QED  BY <2>3, <2>4
<1>9. CASE wait_answer_interruptible(t)
    <2>. DEFINE m == finish_wait(fc, t)
                k == [m EXCEPT !.req[r].interrupted = TRUE]
    <2>1. \/ UNCHANGED fc \/ fc' = Sleep(fc, r, t)
          \/ fc' = k \/ fc' = queue_interrupt(k, r)
        BY <1>9 DEF wait_answer_interruptible
    <2>. HIDE DEF m
    <2>2. Keeps(m, k)
        BY <1>4 DEF Keeps, m
    <2>. HIDE DEF k
    <2>3. Keeps(k, queue_interrupt(k, r))
        BY <2>2, CallsKeep DEF Keeps
    <2>4. Keeps(fc, m)
        BY <1>4 DEF m
    <2>. QED  BY <1>2, <1>3, <2>1, <2>2, <2>3, <2>4, KeepsBoth
<1>10. CASE request_wait_answer(t)
    <2>. DEFINE m == finish_wait(fc, t)
                k == [m EXCEPT !.req[r].error = "EINTR", !.req[r].aborted = TRUE]
    <2>1. UNCHANGED fc \/ fc' = Sleep(fc, r, t) \/ fc' = k
        BY <1>10 DEF request_wait_answer
    <2>. HIDE DEF m
    <2>2. Keeps(m, k)
        BY <1>4 DEF Keeps, m
    <2>. HIDE DEF k
    <2>3. Keeps(fc, m)
        BY <1>4 DEF m
    <2>. QED  BY <1>2, <1>3, <2>1, <2>2, <2>3, KeepsBoth
<1>11. CASE Aborted(t)
    <2>. DEFINE m == list_del(fc, r)
                k == [m EXCEPT !.req[r].count = @ - 1]
    <2>1. UNCHANGED fc \/ fc' = Sleep(fc, r, t) \/ fc' = k
        BY <1>11 DEF Aborted
    <2>2. Keeps(fc, m)
        BY <1>1, CallsKeep
    <2>. HIDE DEF m
    <2>3. Keeps(m, k)
        BY <2>2 DEF Keeps
    <2>. HIDE DEF k
    <2>. QED  BY <1>2, <1>3, <2>1, <2>2, <2>3, KeepsBoth
<1>12. CASE WaitFinished(t)
    BY <1>2, <1>3, <1>12 DEF WaitFinished
<1>13. CASE Put(t)
    BY <1>1, <1>13, EndKeeps DEF Put
<1>. QED  BY <1>7, <1>8, <1>9, <1>10, <1>11, <1>12, <1>13 DEF TaskStep

\* The calls.
LEMMA CallKeeps ==
    ASSUME DevInv, NEW t \in Tasks, NEW kind \in Kinds, Call(t, kind)
    PROVE  Keeps(fc, fc')
<1>. DEFINE r == fc.nreq + 1
            k == [fc EXCEPT !.nreq = r]
            set == [k EXCEPT !.req[r] = fuse_request_init]
<1>1. \/ fc' = request_send_nowait(set, r) \/ fc' = request_send_background(set, r)
      \/ fc' = [k EXCEPT !.num_waiting = @ + 1]
    BY DEF Call, request_send_noreply
<1>2. fc \in FcRec /\ fc.nreq < MaxReq /\ "corrupt" \in DOMAIN fc
    BY DEF DevInv, Good, Types, Call, FcRec
<1>3. r \in Reqs
    BY <1>2, DevAssumption DEF FcRec, Reqs
<1>. HIDE DEF r
<1>4. LikeFc({"nreq"}, fc, k) /\ k \in FcRec
    <2>1. LikeFc({"nreq"}, fc, k)
        BY <1>2, <1>3, FcNreq
    <2>. QED  BY <2>1 DEF LikeFc
<1>5. Keeps(fc, k)
    BY <1>2 DEF Keeps
<1>. HIDE DEF k
<1>6. Keeps(k, [k EXCEPT !.num_waiting = @ + 1])
    BY <1>5 DEF Keeps
<1>7. ReqIs(k, set, r, fuse_request_init)
    BY <1>3, <1>4, FixedReqs, OneReq
<1>8. Keeps(k, set)
    BY <1>5 DEF Keeps
<1>. HIDE DEF set
<1>9. set \in FcRec /\ ~set.req[r].ended /\ set.req[r].state # "freed"
    BY <1>7 DEF ReqIs, fuse_request_init, NoRequest
<1>10. Keeps(set, request_send_nowait(set, r)) /\ Keeps(set, request_send_background(set, r))
    BY <1>3, <1>9, SendKeeps
<1>. QED  BY <1>1, <1>5, <1>6, <1>8, <1>10, KeepsBoth

\* The end of a copy: its request was not ended before.
LEMMA IoEndsKeeps ==
    ASSUME DevInv, NEW s \in Servers, server[s].pc \in CopyPcs, NEW err, IoEnds(s, err)
    PROVE  Keeps(fc, fc')
<1>. DEFINE r == server[s].req
            u == [fc EXCEPT !.req[r].locked = FALSE]
<1>1. /\ fc \in FcRec /\ r \in Reqs /\ fc.req[r].state # "freed" /\ ~fc.req[r].ended
    <2>. DEFINE v == View(fc, task, server, held, ender, r)
    <2>1. /\ r \in Reqs /\ Sound(v) /\ v.q = fc.req[r] /\ fc \in FcRec /\ Kept(v)
          /\ fc.req[r].state \notin {"none", "init", "pending", "sent", "freed"}
        BY CopyKnown DEF DevInv
    <2>. HIDE DEF v, r
    <2>. QED  BY <2>1 DEF Sound, Life
<1>2. fc' = ReadDone(fc, r, err) \/ fc' = WriteDone(fc, r, err)
    BY DEF IoEnds
<1>. HIDE DEF r
<1>3. ReqIs(fc, u, r, u.req[r]) /\ Like({"locked"}, fc.req[r], u.req[r])
    BY <1>1, LockedReq
<1>. DEFINE eio == [u EXCEPT !.req[r].error = "EIO"]
            got == [u EXCEPT !.req[r].copied = TRUE]
            sent == [list_del(u, r) EXCEPT !.processing = Append(@, r),
                                           !.req[r].state = "sent"]
<1>4. fc' \in {request_end(u, r), request_end(eio, r), request_end(got, r),
               queue_interrupt(sent, r), sent}
    BY <1>2 DEF ReadDone, WriteDone
<1>. HIDE DEF u
<1>5. Keeps(fc, u) /\ u \in FcRec /\ u.req[r].state # "freed" /\ ~u.req[r].ended
    <2>1. u \in FcRec /\ u.corrupt = fc.corrupt
        BY <1>3 DEF ReqIs, LikeFc
    <2>2. "corrupt" \in DOMAIN u
        BY <2>1 DEF FcRec
    <2>. QED  BY <1>1, <1>3, <2>1, <2>2 DEF Like, Keeps
<1>6. Keeps(u, request_end(u, r))
    BY <1>5, RequestEndKeeps DEF Keeps
<1>7. Keeps(u, request_end(eio, r))
    <2>1. Keeps(u, eio)
        BY <1>5 DEF Keeps
    <2>2. Like({"error"}, u.req[r], eio.req[r])
        BY <1>1, <1>5, ErrorNames, ErrorReq
    <2>. HIDE DEF eio
    <2>3. ~eio.req[r].ended /\ eio.req[r].state # "freed"
        BY <1>5, <2>2 DEF Like
    <2>4. Keeps(eio, request_end(eio, r))
        BY <2>1, <2>3, RequestEndKeeps DEF Keeps
    <2>. QED  BY <2>1, <2>4, KeepsBoth
<1>8. Keeps(u, request_end(got, r))
    <2>1. Keeps(u, got)
        BY <1>5 DEF Keeps
    <2>2. Like({"copied"}, u.req[r], got.req[r])
        BY <1>1, <1>5, CopiedReq
    <2>. HIDE DEF got
    <2>3. ~got.req[r].ended /\ got.req[r].state # "freed"
        BY <1>5, <2>2 DEF Like
    <2>4. Keeps(got, request_end(got, r))
        BY <2>1, <2>3, RequestEndKeeps DEF Keeps
    <2>. QED  BY <2>1, <2>4, KeepsBoth
<1>9. Keeps(u, sent) /\ Keeps(u, queue_interrupt(sent, r))
    <2>. DEFINE l == list_del(u, r)
    <2>1. Keeps(u, l)
        BY <1>5, CallsKeep DEF Keeps
    <2>. HIDE DEF l
    <2>2. sent = [l EXCEPT !.processing = Append(@, r), !.req[r].state = "sent"]
        BY DEF l
    <2>. HIDE DEF sent
    <2>3. Keeps(l, sent)
        BY <2>1, <2>2 DEF Keeps
    <2>4. Keeps(sent, queue_interrupt(sent, r))
        BY <2>3, CallsKeep DEF Keeps
    <2>. QED  BY <2>1, <2>3, <2>4, KeepsBoth
<1>. HIDE DEF eio, got, sent
<1>10. Keeps(u, fc')
    BY <1>4, <1>6, <1>7, <1>8, <1>9
<1>. QED  BY <1>5, <1>10, KeepsBoth

\* The other steps of the daemon's threads, but for the window.
LEMMA DeviceKeeps ==
    ASSUME DevInv, NEW s \in Servers,
           \/ fuse_read_interrupt(s) \/ fuse_dev_readv(s)
           \/ lock_request(s) \/ FaultFails(s) \/ Copy(s)
    PROVE  Keeps(fc, fc')
<1>1. fc \in FcRec /\ "corrupt" \in DOMAIN fc
    BY DEF DevInv, Good, Types, FcRec
<1>2. CASE fuse_read_interrupt(s)
    <2>. DEFINE r == Head(fc.interrupts)
    <2>1. fc' = [fc EXCEPT !.interrupts = Tail(@), !.req[r].intr = TRUE]
        BY <1>2 DEF fuse_read_interrupt
    <2>. HIDE DEF r
    <2>. QED  BY <1>1, <2>1 DEF Keeps
<1>3. CASE fuse_dev_readv(s)
    <2>. DEFINE r == Head(fc.pending)
                k == Taken(fc, r)
                m == [k EXCEPT !.req[r].error = "EIO"]
    <2>1. fc.pending # <<>> /\ (fc' = request_end(m, r) \/ fc' = k)
        BY <1>3 DEF fuse_dev_readv, Taken
    <2>. DEFINE v == View(fc, task, server, held, ender, r)
    <2>2. /\ r \in Reqs /\ Kept(v) /\ k \in FcRec /\ OnlyReq(fc, k, r)
          /\ Like({"state"}, fc.req[r], k.req[r]) /\ k.req[r].state = "reading"
        BY <2>1, TakenFields DEF DevInv
    <2>3. Sound(v) /\ v.q = fc.req[r]
        BY <2>2, ReqKnown DEF DevInv
    <2>. HIDE DEF v, k, r
    <2>4. ~k.req[r].ended
        BY <2>2, <2>3 DEF Sound, Life, Like
    <2>5. Keeps(fc, k)
        BY <2>2 DEF OnlyReq, Keeps, FcRec
    <2>6. Like({"error"}, k.req[r], m.req[r])
        BY <2>2, ErrorNames, ErrorReq
    <2>7. Keeps(k, m)
        BY <2>5 DEF Keeps
    <2>. HIDE DEF m
    <2>8. ~m.req[r].ended /\ m.req[r].state # "freed"
        BY <2>2, <2>4, <2>6 DEF Like
    <2>9. Keeps(m, request_end(m, r))
        BY <2>7, <2>8, RequestEndKeeps DEF Keeps
    <2>. QED  BY <2>1, <2>5, <2>7, <2>9, KeepsBoth
<1>4. CASE \E err : server[s].pc \in CopyPcs /\ IoEnds(s, err)
    BY <1>4, IoEndsKeeps
<1>5. CASE lock_request(s) \/ FaultFails(s)
    <2>1. server[s].pc \in CopyPcs
        BY <1>5 DEF lock_request, FaultFails, CopyPcs
    <2>2. CASE fc' = [fc EXCEPT !.req[server[s].req].locked = TRUE]
        BY <1>1, <2>2 DEF Keeps
    <2>. QED  BY <1>4, <1>5, <2>1, <2>2 DEF lock_request, FaultFails
<1>6. CASE NextPage(s)
    <2>. DEFINE r == server[s].req
                n == [fc EXCEPT !.req[r].locked = FALSE]
    <2>1. fc' = n \/ fc' = wake_up(n, r)
        BY <1>6 DEF NextPage, unlock_request
    <2>. HIDE DEF r
    <2>2. Keeps(fc, n)
        BY <1>1 DEF Keeps
    <2>. HIDE DEF n
    <2>3. Keeps(n, wake_up(n, r))
        BY <2>2, CallsKeep DEF Keeps
    <2>. QED  BY <2>1, <2>2, <2>3, KeepsBoth
<1>7. CASE CopyEnds(s)
    <2>1. server[s].pc \in CopyPcs
        BY <1>7 DEF CopyEnds, CopyPcs
    <2>. QED  BY <1>4, <1>7, <2>1 DEF CopyEnds
<1>. QED  BY <1>2, <1>3, <1>5, <1>6, <1>7 DEF Copy

\* The replies.
LEMMA WriteKeeps ==
    ASSUME DevInv, NEW s \in Servers, NEW m \in held, NEW error,
           fuse_dev_writev(s, m, error)
    PROVE  Keeps(fc, fc')
<1>. DEFINE r == m.req
            l == list_del(fc, r)
            e == IF r = INIT /\ error # "none" THEN "server" ELSE "none"
<1>1. "corrupt" \in DOMAIN fc
    BY DEF DevInv, Good, Types, FcRec
<1>2. \/ UNCHANGED fc \/ fc' = [fc EXCEPT !.no_interrupt = TRUE]
      \/ fc' = queue_interrupt(fc, r)
      \/ fc' = [l EXCEPT !.io = <<r>> \o @, !.req[r].state = "writing",
                         !.req[r].error = e, !.req[r].locked = TRUE]
    BY DEF fuse_dev_writev
<1>3. CASE UNCHANGED fc \/ fc' = [fc EXCEPT !.no_interrupt = TRUE]
    BY <1>1, <1>3 DEF Keeps
<1>4. CASE fc' = queue_interrupt(fc, r)
    BY <1>1, <1>4, CallsKeep
<1>5. CASE fc' = [l EXCEPT !.io = <<r>> \o @, !.req[r].state = "writing",
                           !.req[r].error = e, !.req[r].locked = TRUE]
    <2>1. Keeps(fc, l)
        BY <1>1, CallsKeep
    <2>. HIDE DEF l, r, e
    <2>. QED  BY <1>5, <2>1 DEF Keeps
<1>. QED  BY <1>2, <1>3, <1>4, <1>5

\* The end of the connection: what it ends is on a list, so not ended yet.
LEMMA EnderKeeps ==
    ASSUME DevInv, fuse_abort_conn \/ fuse_dev_release \/ EnderStep
    PROVE  Keeps(fc, fc')
<1>1. fc \in FcRec /\ "corrupt" \in DOMAIN fc
    BY DEF DevInv, Good, Types, FcRec
<1>2. CASE fuse_abort_conn \/ fuse_dev_release
    BY <1>1, <1>2 DEF fuse_abort_conn, fuse_dev_release, Keeps
<1>3. CASE UNCHANGED fc
    BY <1>1, <1>3 DEF Keeps
<1>4. CASE end_io_requests
    <2>. DEFINE r == Head(fc.io)
                l == list_del(fc, r)
                cut == [l EXCEPT !.req[r].aborted = TRUE,
                                 !.req[r].error = "ECONNABORTED",
                                 !.req[r].state = "finished"]
                k == wake_up(cut, r)
                n == [k EXCEPT !.req[r].end = "none"]
    <2>1. UNCHANGED fc \/ fc' = k \/ fc' = __fuse_get_request(n, r)
        BY <1>4, Zenon DEF end_io_requests
    <2>. HIDE DEF r
    <2>2. Keeps(fc, l)
        BY <1>1, CallsKeep
    <2>. HIDE DEF l
    <2>3. Keeps(l, cut)
        BY <2>2 DEF Keeps
    <2>. HIDE DEF cut
    <2>4. Keeps(cut, k)
        BY <2>3, CallsKeep DEF Keeps
    <2>. HIDE DEF k
    <2>5. Keeps(k, n)
        BY <2>4 DEF Keeps
    <2>. HIDE DEF n
    <2>6. Keeps(n, __fuse_get_request(n, r))
        BY <2>5, CallsKeep DEF Keeps
    <2>. QED  BY <1>3, <2>1, <2>2, <2>3, <2>4, <2>5, <2>6, KeepsBoth
<1>5. CASE EndIoRequest
    <2>1. \/ fc' = Sleep(fc, ender["abort"].req, "abort")
          \/ fc' = End(fc, ender["abort"].req, ender["abort"].pc)
        BY <1>5 DEF EndIoRequest
    <2>. QED  BY <1>1, <2>1, CallsKeep, EndKeeps
<1>6. ASSUME NEW l, l \in {fc.pending, fc.processing}, l # <<>>
      PROVE  Keeps(fc, request_end([fc EXCEPT !.req[Head(l)].error = "ECONNABORTED"],
                                   Head(l)))
    <2>. DEFINE r == Head(l)
                m == [fc EXCEPT !.req[r].error = "ECONNABORTED"]
                v == View(fc, task, server, held, ender, r)
    <2>1. r \in Reqs /\ InList(l, r)
        <3>1. l \in Seq(Reqs)
            BY <1>1, <1>6 DEF FcRec
        <3>2. 1 \in DOMAIN l /\ l[1] = r /\ r \in Reqs
            BY <1>6, <3>1
        <3>. QED  BY <3>2 DEF InList
    <2>2. Shows(v, fc, task, server, held, ender, r) /\ Sound(v) /\ v.q = fc.req[r]
        BY <2>1, ReqKnown DEF DevInv
    <2>. HIDE DEF r, v
    <2>3. Kept(v)
        BY <1>6, <2>1, <2>2 DEF Shows, Kept
    <2>4. ~fc.req[r].ended /\ fc.req[r].state # "freed"
        BY <2>2, <2>3 DEF Sound, Life, Alive
    <2>5. Like({"error"}, fc.req[r], m.req[r])
        BY <1>1, <2>1, ErrorNames, ErrorReq
    <2>6. Keeps(fc, m)
        BY <1>1 DEF Keeps
    <2>. HIDE DEF m
    <2>7. ~m.req[r].ended /\ m.req[r].state # "freed"
        BY <2>4, <2>5 DEF Like
    <2>8. Keeps(m, request_end(m, r))
        BY <2>6, <2>7, RequestEndKeeps DEF Keeps
    <2>9. Keeps(fc, request_end(m, r))
        BY <2>6, <2>8, KeepsBoth
    <2>. QED  BY <2>9 DEF m, r
<1>7. CASE \E e \in {"abort", "release"} : end_requests(e)
    <2>1. \/ UNCHANGED fc \/ fc' = wake_up(fc, BlockedQ)
          \/ \E l \in {fc.pending, fc.processing} :
                /\ l # <<>>
                /\ fc' = request_end([fc EXCEPT !.req[Head(l)].error = "ECONNABORTED"],
                                     Head(l))
        BY <1>7 DEF end_requests
    <2>2. CASE fc' = wake_up(fc, BlockedQ)
        BY <1>1, <2>2, CallsKeep
    <2>3. CASE \E l \in {fc.pending, fc.processing} :
                  /\ l # <<>>
                  /\ fc' = request_end([fc EXCEPT !.req[Head(l)].error = "ECONNABORTED"],
                                       Head(l))
        <3>1. PICK l \in {fc.pending, fc.processing} :
                  /\ l # <<>>
                  /\ fc' = request_end([fc EXCEPT !.req[Head(l)].error = "ECONNABORTED"],
                                       Head(l))
            BY <2>3
        <3>2. Keeps(fc, request_end([fc EXCEPT !.req[Head(l)].error = "ECONNABORTED"],
                                    Head(l)))
            BY <1>6, <3>1
        <3>. QED  BY <3>1, <3>2
    <2>. QED  BY <1>3, <2>1, <2>2, <2>3
<1>. QED  BY <1>2, <1>4, <1>5, <1>7 DEF EnderStep

\* A request is ended twice only by a thread that had let go of the lock on an
\* aborted request: every other call of request_end is on a request that was
\* not ended, whatever came before it.
THEOREM EndedOnce == Spec => EndedTwiceOnlyInWindow
<1>1. ASSUME DevInv, Next, ~fc.corrupt, fc'.corrupt
      PROVE  \E s \in Servers : server[s].pc = "aborted"
    <2>1. ~Keeps(fc, fc')
        BY <1>1 DEF Keeps, DevInv, Good, Types, FcRec
    <2>2. CASE \E t \in Tasks : TaskStep(t)
        BY <1>1, <2>1, <2>2, TaskStepKeeps
    <2>3. CASE \E t \in Tasks, kind \in Kinds : Call(t, kind)
        BY <1>1, <2>1, <2>3, CallKeeps
    <2>4. CASE \E t \in Tasks, sig \in {"signal", "kill"} : Signal(t, sig)
        BY <1>1, <2>4 DEF Signal
    <2>5. CASE \E s \in Servers : \/ fuse_read_interrupt(s) \/ fuse_dev_readv(s)
                                  \/ lock_request(s) \/ FaultFails(s)
                                  \/ Copy(s) \/ WriteAborted(s)
        BY <1>1, <2>1, <2>5, DeviceKeeps DEF WriteAborted
    <2>6. CASE \E s \in Servers, m \in held, error \in {"none", "ENOSYS", "EAGAIN"} :
                  fuse_dev_writev(s, m, error)
        BY <1>1, <2>1, <2>6, WriteKeeps
    <2>7. CASE fuse_abort_conn \/ fuse_dev_release \/ EnderStep
        BY <1>1, <2>1, <2>7, EnderKeeps
    <2>. QED  BY <1>1, <2>2, <2>3, <2>4, <2>5, <2>6, <2>7 DEF Next
<1>2. DevInv /\ [Next]_vars =>
          [~fc.corrupt /\ fc'.corrupt => \E s \in Servers : server[s].pc = "aborted"]_vars
    BY <1>1
<1>. QED  BY <1>2, RequestsSound, PTL DEF Spec, EndedTwiceOnlyInWindow
=============================================================================
