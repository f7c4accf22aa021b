--------------------------- MODULE FuseLoopProofs ---------------------------
(***************************************************************************)
(* Proofs about the requests that the threads of a FUSE daemon share, and  *)
(* about their interrupts (FuseLoop), for any number of threads, any load  *)
(* of requests and any number of faults.                                   *)
(***************************************************************************)
EXTENDS FuseLoop, FiniteSetTheorems, TLAPS

(***************************************************************************)
(* The inductive invariant                                                 *)
(***************************************************************************)
\* A request, an INTERRUPT for it, and the messages of the kernel.
Plain(u) == [u |-> u, intr |-> FALSE]
Intr(u) == [u |-> u, intr |-> TRUE]
Msgs == {Plain(u) : u \in Uniques} \cup {Intr(u) : u \in Uniques}

HandlerPcs == {"eagain", "tree", "fs", "finish", "clear", "reply", "free"}
InterruptPcs == {"ilock", "signal", "put"}
OtherPcs == {"none", "read", "end", "got", "process", "count", "pause", "dead"}

\* A thread and a request.
WorkerRec == [pc : HandlerPcs \cup InterruptPcs \cup OtherPcs,
              msg : Msgs \cup {NoMsg}, old : Uniques \cup {0}, cancelled : BOOLEAN]
ReqRec == [kernel : {"none", "sent", "answered"},
           kind : {"none", "read", "write", "forget"}, intr : BOOLEAN,
           live : BOOLEAN, listed : BOOLEAN, ctr : Nat, interrupted : BOOLEAN,
           func : BOOLEAN, told : BOOLEAN, finished : BOOLEAN,
           lock : Workers \cup {0}]

Early == mt.pc \in {"start", "wait", "asleep", "woken"}

\* The part that a thread has in a request.
Handles(w, u) == worker[w].msg = Plain(u) /\ worker[w].pc \in HandlerPcs
Interrupts(w, u) == worker[w].msg = Intr(u) /\ worker[w].pc \in InterruptPcs
InFs(w, u) == worker[w].msg = Plain(u) /\ worker[w].pc \in {"fs", "finish", "clear"}
Signals(w, u) == worker[w].msg = Intr(u) /\ worker[w].pc = "signal"
Fetched(w, u) == worker[w].msg = Plain(u) /\ worker[w].pc \in {"got", "process"}
Using(w, u) == Handles(w, u) \/ Interrupts(w, u)
Users(u) == {w \in Workers : Using(w, u)}

\* A thread that acts for a request has its message.
WorkerFits(r) ==
    /\ r.pc \in {"got", "process"} => r.msg \in Msgs
    /\ r.pc \in HandlerPcs => \E u \in Uniques : r.msg = Plain(u)
    /\ r.pc \in InterruptPcs => \E u \in Uniques : r.msg = Intr(u)
    /\ r.cancelled = FALSE
    /\ r.old = 0 <=> r.pc # "eagain"
PartsFit == \A w \in Workers : WorkerFits(worker[w])

\* A request is delivered once.
PlainOnce ==
    \A u \in Uniques : \A w \in Workers : worker[w].msg = Plain(u) =>
        /\ Plain(u) \notin dev.msgs
        /\ \A v \in Workers : worker[v].msg = Plain(u) => v = w

\* A request that nobody has begun with, and one that has its users.
Unborn(u) == Plain(u) \in dev.msgs \/ \E w \in Workers : Fetched(w, u)
ReqOK(u) ==
    /\ rq[u].ctr = Cardinality(Users(u))
    /\ (rq[u].live <=> rq[u].ctr > 0)
    /\ Unborn(u) => rq[u].ctr = 0
    /\ rq[u].listed => \E h \in Workers : Handles(h, u)
    /\ rq[u].func => \E h \in Workers : InFs(h, u)
    /\ \A w \in Workers : Signals(w, u) => rq[u].func /\ rq[u].lock = w

LoopTypes ==
    /\ worker \in [Workers -> WorkerRec]
    /\ rq \in [Uniques -> ReqRec]
    /\ dev.msgs \subseteq Msgs
    /\ ll \in Seq(Uniques)

LoopState == LoopTypes /\ PartsFit /\ PlainOnce /\ \A u \in Uniques : ReqOK(u)

\* The fields of the records that the invariant does not give types to.
Fields == /\ {"pc", "exit"} \subseteq DOMAIN mt
          /\ {"msgs", "mounted", "signalled"} \subseteq DOMAIN dev

LoopInv == Fields /\ (Early => LoopState)

(***************************************************************************)
(* Messages and users                                                      *)
(***************************************************************************)
\* A message tells its request and what it is.
LEMMA MsgFacts ==
    /\ Uniques \subseteq Nat \ {0}
    /\ \A u, v : /\ Plain(u) # Intr(v)
                 /\ Plain(u) = Plain(v) => u = v
                 /\ Intr(u) = Intr(v) => u = v
    /\ \A u : /\ Plain(u).u = u /\ Intr(u).u = u
              /\ Plain(u).intr = FALSE /\ Intr(u).intr = TRUE
    /\ \A u \in Uniques : Plain(u) # NoMsg /\ Intr(u) # NoMsg
<1>1. ASSUME NEW u \in Uniques  PROVE u \in Nat \ {0}
    <2>1. PICK l \in Loads : u \in DOMAIN l.kinds
        BY DEF Uniques
    <2>2. l.kinds \in Seq({"read", "write", "forget"})
        BY LoopAssumption
    <2>. QED  BY <2>1, <2>2
<1>2. \A u, v : Plain(u) # Intr(v)
    <2>1. \A u, v : Plain(u).intr = FALSE /\ Intr(v).intr = TRUE
        BY DEF Plain, Intr
    <2>. QED  BY <2>1
<1>3. \A u : Plain(u).u = u /\ Intr(u).u = u
    BY DEF Plain, Intr
<1>4. \A u : Plain(u).intr = FALSE /\ Intr(u).intr = TRUE
    BY DEF Plain, Intr
<1>5. NoMsg.u = 0
    BY DEF NoMsg
<1>. QED  BY <1>1, <1>2, <1>3, <1>4, <1>5

\* The users of a request are finitely many.
LEMMA UsersFinite ==
    ASSUME NEW u
    PROVE  IsFiniteSet(Users(u)) /\ Cardinality(Users(u)) \in Nat
<1>1. IsFiniteSet(Workers)
    BY FS_Interval, LoopAssumption DEF Workers
<1>2. Users(u) \subseteq Workers
    BY DEF Users
<1>3. IsFiniteSet(Users(u))
    BY ONLY <1>1, <1>2, FS_Subset
<1>. QED  BY ONLY <1>3, FS_CardinalityType

\* A request with a counter of one has one user.
LEMMA FewUsers ==
    ASSUME NEW u, NEW w \in Workers, Using(w, u)
    PROVE  /\ Cardinality(Users(u)) > 0
           /\ ~(Cardinality(Users(u)) > 1) => Cardinality(Users(u)) = 1
           /\ Cardinality(Users(u)) = 1 => \A v \in Workers : Using(v, u) => v = w
<1>1. IsFiniteSet(Users(u)) /\ Cardinality(Users(u)) \in Nat
    BY UsersFinite
<1>2. w \in Users(u)
    BY DEF Users
<1>3. Cardinality(Users(u)) # 0
    BY <1>1, <1>2, FS_EmptySet
<1>4. ASSUME Cardinality(Users(u)) = 1, NEW v \in Workers, Using(v, u)
      PROVE  v = w
    <2>1. \E x : Users(u) = {x}
        BY ONLY <1>1, <1>4, FS_Singleton
    <2>2. v \in Users(u)
        BY <1>4 DEF Users
    <2>. QED  BY <1>2, <2>1, <2>2
<1>. QED  BY <1>1, <1>3, <1>4

\* A request with a counter of zero has none.
LEMMA NoUsers ==
    ASSUME NEW u, Cardinality(Users(u)) = 0, NEW w \in Workers
    PROVE  ~Using(w, u)
<1>1. Users(u) = {}
    BY UsersFinite, FS_EmptySet
<1>. QED  BY <1>1 DEF Users

\* One thread becomes a user, or stops to be one.
LEMMA UserChange ==
    ASSUME NEW u, NEW w \in Workers,
           \A v \in Workers \ {w} : Using(v, u)' <=> Using(v, u)
    PROVE  /\ ~Using(w, u) /\ Using(w, u)' =>
                Cardinality(Users(u)') = Cardinality(Users(u)) + 1
           /\ Using(w, u) /\ ~Using(w, u)' =>
                Cardinality(Users(u)') = Cardinality(Users(u)) - 1
           /\ (Using(w, u) <=> Using(w, u)') =>
                Cardinality(Users(u)') = Cardinality(Users(u))
<1>1. IsFiniteSet(Users(u)) /\ Cardinality(Users(u)) \in Nat
    BY UsersFinite
<1>2. CASE ~Using(w, u) /\ Using(w, u)'
    <2>1. Users(u)' = Users(u) \cup {w} /\ w \notin Users(u)
        BY <1>2 DEF Users
    <2>2. Cardinality(Users(u) \cup {w}) = Cardinality(Users(u)) + 1
        BY ONLY <1>1, <2>1, FS_AddElement
    <2>. QED  BY <1>2, <2>1, <2>2
<1>3. CASE Using(w, u) /\ ~Using(w, u)'
    <2>1. Users(u)' = Users(u) \ {w} /\ w \in Users(u)
        BY <1>3 DEF Users
    <2>2. Cardinality(Users(u) \ {w}) = Cardinality(Users(u)) - 1
        BY ONLY <1>1, <2>1, FS_RemoveElement
    <2>. QED  BY <1>3, <2>1, <2>2
<1>4. CASE Using(w, u) <=> Using(w, u)'
    <2>1. Users(u)' = Users(u)
        BY <1>4 DEF Users
    <2>. QED  BY <1>4, <2>1
<1>. QED  BY <1>2, <1>3, <1>4

(***************************************************************************)
(* Steps in general                                                        *)
(***************************************************************************)
\* No thread changes its part in u, and none has read it.
SameUse(u) ==
    \A v \in Workers : /\ Handles(v, u)' <=> Handles(v, u)
                       /\ Interrupts(v, u)' <=> Interrupts(v, u)
                       /\ InFs(v, u)' <=> InFs(v, u)
                       /\ Signals(v, u)' <=> Signals(v, u)
SameParts(u) == SameUse(u) /\ \A v \in Workers : Fetched(v, u)' => Fetched(v, u)

\* What the books say of a request.
SameBooks(r, s) == /\ r.ctr = s.ctr /\ r.live = s.live /\ r.listed = s.listed
                   /\ r.func = s.func /\ r.lock = s.lock

\* The kernel takes back no request.
NoNewPlain == /\ dev.msgs' \subseteq Msgs
              /\ \A u \in Uniques : Plain(u) \in dev.msgs' => Plain(u) \in dev.msgs

\* The users of a request and its books stay, and so they agree.
LEMMA ReqKept ==
    ASSUME NEW u \in Uniques, ReqOK(u), SameUse(u), SameBooks(rq[u]', rq[u]),
           Unborn(u)' => Unborn(u)
    PROVE  ReqOK(u)'
<1>1. \A v \in Workers : Using(v, u)' <=> Using(v, u)
    BY DEF SameUse, Using
<1>2. Users(u)' = Users(u)
    BY <1>1 DEF Users
<1>3. /\ (\E h \in Workers : Handles(h, u)) => (\E h \in Workers : Handles(h, u)')
      /\ (\E h \in Workers : InFs(h, u)) => (\E h \in Workers : InFs(h, u)')
      /\ \A w \in Workers : Signals(w, u)' => Signals(w, u)
    BY DEF SameUse
<1>. QED  BY <1>2, <1>3 DEF ReqOK, SameBooks

\* The same, when no message is read.
LEMMA ReqStays ==
    ASSUME NEW u \in Uniques, ReqOK(u), SameParts(u), SameBooks(rq[u]', rq[u]),
           NoNewPlain
    PROVE  ReqOK(u)'
<1>1. Unborn(u)' => Unborn(u)
    BY DEF Unborn, SameParts, NoNewPlain
<1>. QED  BY <1>1, ReqKept DEF SameParts

\* Threads go on with the message they have or drop it.
LEMMA WorkersStay ==
    ASSUME LoopState, worker' \in [Workers -> WorkerRec],
           \A v \in Workers : /\ WorkerFits(worker[v]')
                              /\ worker[v].msg' \in {worker[v].msg, NoMsg},
           rq' \in [Uniques -> ReqRec], ll' \in Seq(Uniques), NoNewPlain
    PROVE  (LoopTypes /\ PartsFit /\ PlainOnce)'
<1>1. LoopTypes'
    BY DEF LoopTypes, NoNewPlain
<1>2. PartsFit'
    BY DEF PartsFit
<1>3. PlainOnce'
    BY MsgFacts DEF LoopState, PlainOnce, NoNewPlain
<1>. QED  BY <1>1, <1>2, <1>3

\* Thread w acts for the request of its message, and the books of the other
\* requests stay.
ActsFor(w, u) ==
    /\ worker[w].msg \in {Plain(u), Intr(u)}
    /\ worker' \in [Workers -> WorkerRec]
    /\ \A v \in Workers \ {w} : worker[v]' = worker[v]
    /\ worker[w].msg' = worker[w].msg /\ WorkerFits(worker[w]')
    /\ rq' \in [Uniques -> ReqRec]
    /\ \A x \in Uniques \ {u} : rq[x]' = rq[x]
    /\ ll' \in Seq(Uniques)
    /\ NoNewPlain

\* A step of one worker that acts for one request keeps the invariant if
\* it keeps that request's part of it.
LEMMA OneRequest ==
    ASSUME LoopState, NEW w \in Workers, NEW u \in Uniques, ActsFor(w, u), ReqOK(u)'
    PROVE  LoopState'
<1>1. (LoopTypes /\ PartsFit /\ PlainOnce)'
    <2>1. \A v \in Workers : /\ WorkerFits(worker[v]')
                             /\ worker[v].msg' \in {worker[v].msg, NoMsg}
        BY DEF ActsFor, LoopState, PartsFit
    <2>. QED  BY <2>1, WorkersStay DEF ActsFor
<1>2. ASSUME NEW x \in Uniques, x # u
      PROVE  ReqOK(x)'
    <2>1. worker[w].msg \notin {Plain(x), Intr(x)}
        BY <1>2, MsgFacts DEF ActsFor
    <2>2. SameParts(x)
        BY <2>1 DEF ActsFor, SameParts, SameUse, Handles, Interrupts, InFs, Signals,
                    Fetched
    <2>3. SameBooks(rq[x]', rq[x])
        BY <1>2 DEF ActsFor, SameBooks
    <2>. QED  BY <2>2, <2>3, ReqStays DEF ActsFor, LoopState
<1>. QED  BY <1>1, <1>2 DEF LoopState

\* A thread that is not at work on a request may take or drop messages.
LEMMA QuietStep ==
    ASSUME LoopState, worker' \in [Workers -> WorkerRec],
           \A v \in Workers : /\ WorkerFits(worker[v]')
                              /\ worker[v].msg' \in {worker[v].msg, NoMsg},
           \A v \in Workers : \/ worker[v]' = worker[v]
                              \/ /\ worker[v].pc \in OtherPcs
                                 /\ worker[v].pc' \in OtherPcs
                                 /\ worker[v].pc' \in {"got", "process"} =>
                                        worker[v].pc \in {"got", "process"},
           rq' \in [Uniques -> ReqRec], ll' \in Seq(Uniques), NoNewPlain,
           \A u \in Uniques : SameBooks(rq[u]', rq[u])
    PROVE  LoopState'
<1>1. (LoopTypes /\ PartsFit /\ PlainOnce)'
    BY WorkersStay
<1>2. ASSUME NEW x \in Uniques
      PROVE  ReqOK(x)'
    <2>1. SameParts(x)
        BY MsgFacts DEF SameParts, SameUse, Handles, Interrupts, InFs, Signals, Fetched,
                        OtherPcs, HandlerPcs, InterruptPcs
    <2>. QED  BY <2>1, ReqStays DEF LoopState
<1>. QED  BY <1>1, <1>2 DEF LoopState

\* Goto, field by field.
LEMMA GotoFields ==
    ASSUME worker \in [Workers -> WorkerRec], NEW w \in Workers,
           NEW pc \in HandlerPcs \cup InterruptPcs \cup OtherPcs, Goto(w, pc)
    PROVE  /\ worker' \in [Workers -> WorkerRec]
           /\ worker[w].pc' = pc /\ worker[w].msg' = worker[w].msg
           /\ worker[w].old' = worker[w].old
           /\ worker[w].cancelled' = worker[w].cancelled
           /\ \A v \in Workers \ {w} : worker[v]' = worker[v]
BY DEF Goto, WorkerRec

\* Thread w, which has u's request, goes on to pc.
LEMMA GoesOn ==
    ASSUME LoopState, NEW w \in Workers, NEW u \in Uniques,
           NEW pc \in HandlerPcs \cup InterruptPcs \cup OtherPcs,
           \/ worker[w].msg = Plain(u) /\ pc \notin InterruptPcs
           \/ worker[w].msg = Intr(u) /\ pc \notin HandlerPcs,
           Goto(w, pc), worker[w].old = 0 <=> pc # "eagain",
           rq' \in [Uniques -> ReqRec],
           \A x \in Uniques \ {u} : rq[x]' = rq[x],
           ll' \in Seq(Uniques), NoNewPlain
    PROVE  ActsFor(w, u) /\ worker[w].pc' = pc
<1>1. worker \in [Workers -> WorkerRec] /\ WorkerFits(worker[w])
    BY DEF LoopState, LoopTypes, PartsFit
<1>2. /\ worker' \in [Workers -> WorkerRec]
      /\ worker[w].pc' = pc /\ worker[w].msg' = worker[w].msg
      /\ worker[w].old' = worker[w].old
      /\ worker[w].cancelled' = worker[w].cancelled
      /\ \A v \in Workers \ {w} : worker[v]' = worker[v]
    BY <1>1, GotoFields
<1>3. worker[w].msg \in Msgs
    BY DEF Msgs
<1>4. WorkerFits(worker[w]')
    BY <1>1, <1>2, <1>3 DEF WorkerFits, HandlerPcs, InterruptPcs
<1>. QED  BY <1>2, <1>4 DEF ActsFor

\* What a thread at work on a request has.
LEMMA HasMessage ==
    ASSUME LoopState, NEW w \in Workers
    PROVE  /\ worker[w].pc \in HandlerPcs => \E u \in Uniques :
                worker[w].msg = Plain(u) /\ Req(w) = u /\ Handles(w, u)
           /\ worker[w].pc \in InterruptPcs => \E u \in Uniques :
                worker[w].msg = Intr(u) /\ Req(w) = u /\ Interrupts(w, u)
           /\ worker[w].pc \in {"got", "process"} => \E u \in Uniques : Req(w) = u /\
                (worker[w].msg = Plain(u) \/ worker[w].msg = Intr(u))
           /\ worker[w].pc # "eagain" => worker[w].old = 0
BY MsgFacts DEF LoopState, PartsFit, WorkerFits, Req, Handles, Interrupts, Msgs

\* A step of the handler that leaves the books of its request alone.
LEMMA PlainMove ==
    ASSUME LoopState, NEW w \in Workers, NEW u \in Uniques,
           worker[w].msg = Plain(u), ActsFor(w, u),
           worker[w].pc \in HandlerPcs, worker[w].pc' \in HandlerPcs,
           worker[w].pc \in {"fs", "finish", "clear"} <=>
                worker[w].pc' \in {"fs", "finish", "clear"},
           SameBooks(rq[u]', rq[u])
    PROVE  LoopState'
<1>1. SameParts(u)
    <2>1. worker[w].msg' = Plain(u) /\ Plain(u) # Intr(u)
        BY MsgFacts DEF ActsFor
    <2>2. SameUse(u)
        BY <2>1 DEF ActsFor, SameUse, Handles, Interrupts, InFs, Signals
    <2>3. \A v \in Workers : Fetched(v, u)' => Fetched(v, u)
        BY <2>1 DEF ActsFor, Fetched, HandlerPcs
    <2>. QED  BY <2>2, <2>3 DEF SameParts
<1>2. ReqOK(u)'
    BY <1>1, ReqStays DEF LoopState, ActsFor
<1>. QED  BY <1>2, OneRequest

\* rq or dev are left alone.
LEMMA SameRest ==
    ASSUME LoopState
    PROVE  /\ rq \in [Uniques -> ReqRec] /\ ll \in Seq(Uniques)
           /\ rq' = rq => /\ rq' \in [Uniques -> ReqRec]
                          /\ \A x \in Uniques : rq[x]' = rq[x] /\ SameBooks(rq[x]', rq[x])
           /\ ll' = ll => ll' \in Seq(Uniques)
           /\ dev.msgs' \subseteq dev.msgs => NoNewPlain
BY DEF LoopState, LoopTypes, SameBooks, NoNewPlain

\* The file system returns from the handler.
LEMMA FsEndsOK ==
    ASSUME LoopState, NEW w \in Workers, FsEnds(w)
    PROVE  LoopState'
<1>1. worker[w].pc = "fs" /\ Goto(w, "finish") /\ rq' = rq /\ ll' = ll /\ dev' = dev
    BY DEF FsEnds, At
<1>2. PICK u \in Uniques : worker[w].msg = Plain(u)
    BY <1>1, HasMessage DEF HandlerPcs
<1>3. ActsFor(w, u) /\ worker[w].pc' = "finish"
    BY <1>1, <1>2, GoesOn, SameRest, HasMessage DEF HandlerPcs, InterruptPcs
<1>. QED  BY <1>1, <1>2, <1>3, PlainMove, SameRest DEF HandlerPcs

\* The answer is written to the device.
LEMMA send_reply_iovOK ==
    ASSUME LoopState, Fields, NEW w \in Workers, send_reply_iov(w)
    PROVE  LoopState'
<1>1. PICK u \in Uniques : worker[w].msg = Plain(u) /\ Req(w) = u
    BY HasMessage DEF send_reply_iov, At, HandlerPcs
<1>2. /\ worker[w].pc = "reply" /\ Goto(w, "free") /\ ll' = ll
      /\ rq' = [rq EXCEPT ![u].kernel = "answered"]
      /\ dev' = [dev EXCEPT !.msgs = dev.msgs \ {[u |-> u, intr |-> TRUE]}]
    BY <1>1 DEF send_reply_iov, At
<1>3. dev.msgs' \subseteq dev.msgs
    BY <1>2 DEF Fields
<1>4. /\ rq' \in [Uniques -> ReqRec]
      /\ \A x \in Uniques \ {u} : rq[x]' = rq[x]
      /\ SameBooks(rq[u]', rq[u])
    BY <1>2, SameRest DEF ReqRec, SameBooks
<1>5. ActsFor(w, u) /\ worker[w].pc' = "free"
    BY <1>1, <1>2, <1>3, <1>4, GoesOn, SameRest, HasMessage DEF HandlerPcs, InterruptPcs
<1>. QED  BY <1>1, <1>2, <1>4, <1>5, PlainMove DEF HandlerPcs

\* An INTERRUPT is no request.
LEMMA AddedInterrupt ==
    ASSUME LoopState, NEW v \in Uniques, dev.msgs' \subseteq dev.msgs \cup {Intr(v)}
    PROVE  NoNewPlain
<1>1. dev.msgs \subseteq Msgs /\ Intr(v) \in Msgs
    BY DEF LoopState, LoopTypes, Msgs
<1>2. \A u \in Uniques : Plain(u) # Intr(v)
    BY MsgFacts
<1>. QED  BY <1>1, <1>2 DEF NoNewPlain

\* EAGAIN goes to the oldest interrupt of the list.
LEMMA ReplyAgainOK ==
    ASSUME LoopState, Fields, NEW w \in Workers, ReplyAgain(w)
    PROVE  LoopState'
<1>. DEFINE v == worker[w].old
            pc == Handler(w)
<1>1. PICK u \in Uniques : worker[w].msg = Plain(u) /\ Req(w) = u
    BY HasMessage DEF ReplyAgain, At, HandlerPcs
<1>2. /\ worker[w].pc = "eagain" /\ rq' = rq /\ ll' = ll
      /\ worker' = [worker EXCEPT ![w].old = 0, ![w].pc = pc]
      /\ dev' = dev \/ (rq[v].kernel = "sent" /\
            dev' = [dev EXCEPT !.msgs = dev.msgs \cup {[u |-> v, intr |-> TRUE]}])
    BY DEF ReplyAgain, At
<1>3. pc \in {"free", "tree"}
    BY DEF Handler
<1>4. v \in Uniques \cup {0}
    BY DEF LoopState, LoopTypes, WorkerRec
<1>5. NoNewPlain
    <2>1. v \in Uniques
        BY <1>2, <1>4 DEF LoopState, PartsFit, WorkerFits
    <2>2. dev.msgs' \subseteq dev.msgs \cup {Intr(v)}
        BY <1>2 DEF Fields, Intr
    <2>. QED  BY <2>1, <2>2, AddedInterrupt
<1>6. /\ worker' \in [Workers -> WorkerRec]
      /\ worker[w].pc' = pc /\ worker[w].msg' = worker[w].msg
      /\ worker[w].old' = 0 /\ worker[w].cancelled' = worker[w].cancelled
      /\ \A x \in Workers \ {w} : worker[x]' = worker[x]
    <2>1. worker \in [Workers -> WorkerRec]
        BY DEF LoopState, LoopTypes
    <2>. HIDE DEF pc
    <2>. QED  BY <2>1, <1>2, <1>3 DEF WorkerRec, HandlerPcs
<1>7. WorkerFits(worker[w]')
    BY <1>1, <1>3, <1>6 DEF WorkerFits, HandlerPcs, InterruptPcs, LoopState, PartsFit
<1>8. ActsFor(w, u)
    BY <1>1, <1>2, <1>5, <1>6, <1>7, SameRest DEF ActsFor
<1>. QED  BY <1>1, <1>2, <1>3, <1>6, <1>8, PlainMove, SameRest DEF HandlerPcs

\* The record of one request is replaced.
LEMMA ReqReplaced ==
    ASSUME LoopState, NEW u \in Uniques, NEW s \in ReqRec, rq' = [rq EXCEPT ![u] = s]
    PROVE  /\ rq' \in [Uniques -> ReqRec] /\ rq[u]' = s
           /\ \A x \in Uniques \ {u} : rq[x]' = rq[x]
BY DEF LoopState, LoopTypes

\* What the steps of a handler make of the record of its request.
LEMMA ReqUpdates ==
    ASSUME NEW r \in ReqRec
    PROVE  /\ LET s == fuse_do_prepare_interrupt(r)
              IN  /\ s \in ReqRec /\ s.ctr = r.ctr /\ s.live = r.live
                  /\ s.listed = r.listed /\ s.lock = r.lock
           /\ LET s == [r EXCEPT !.finished = TRUE]
              IN  s \in ReqRec /\ SameBooks(s, r)
           /\ LET s == [r EXCEPT !.func = FALSE]
              IN  /\ s \in ReqRec /\ s.ctr = r.ctr /\ s.live = r.live
                  /\ s.listed = r.listed /\ s.func = FALSE
<1>1. LET s == fuse_do_prepare_interrupt(r)
      IN  /\ s \in ReqRec /\ s.ctr = r.ctr /\ s.live = r.live
          /\ s.listed = r.listed /\ s.lock = r.lock
    BY DEF ReqRec, fuse_do_prepare_interrupt
<1>2. LET s == [r EXCEPT !.finished = TRUE]
      IN  s \in ReqRec /\ SameBooks(s, r)
    BY DEF ReqRec, SameBooks
<1>3. LET s == [r EXCEPT !.func = FALSE]
      IN  /\ s \in ReqRec /\ s.ctr = r.ctr /\ s.live = r.live
          /\ s.listed = r.listed /\ s.func = FALSE
    BY DEF ReqRec
<1>. QED  BY <1>1, <1>2, <1>3

\* Whose lock is free, nobody signals.
LEMMA NoSignals ==
    ASSUME LoopState, NEW u \in Uniques, rq[u].lock = 0
    PROVE  \A v \in Workers : ~Signals(v, u)
BY LoopAssumption DEF LoopState, ReqOK, Workers

\* Only thread w changes its part in u: what that means for the books.
LEMMA OnlyPart ==
    ASSUME LoopState, NEW w \in Workers, NEW u \in Uniques, ActsFor(w, u)
    PROVE  /\ \A v \in Workers \ {w} : /\ Using(v, u)' <=> Using(v, u)
                                       /\ Handles(v, u)' <=> Handles(v, u)
                                       /\ InFs(v, u)' <=> InFs(v, u)
                                       /\ Signals(v, u)' <=> Signals(v, u)
                                       /\ Fetched(v, u)' <=> Fetched(v, u)
           /\ Using(w, u)' <=> \/ worker[w].msg = Plain(u) /\ worker[w].pc' \in HandlerPcs
                               \/ worker[w].msg = Intr(u) /\ worker[w].pc' \in InterruptPcs
           /\ ~Fetched(w, u)' => (Unborn(u)' => Unborn(u))
BY DEF ActsFor, Using, Handles, Interrupts, InFs, Signals, Fetched, Unborn, NoNewPlain

\* fuse_prepare_interrupt, then the call of the file system.
LEMMA EnterFsOK ==
    ASSUME LoopState, NEW w \in Workers, EnterFs(w)
    PROVE  LoopState'
<1>1. PICK u \in Uniques : worker[w].msg = Plain(u) /\ Req(w) = u
    BY HasMessage DEF EnterFs, At, HandlerPcs
<1>2. worker[w].pc = "tree" /\ ll' = ll /\ dev' = dev
    BY DEF EnterFs, At
<1>3. CASE Goto(w, "reply") /\ rq' = rq
    <2>1. ActsFor(w, u) /\ worker[w].pc' = "reply"
        BY <1>1, <1>2, <1>3, GoesOn, SameRest, HasMessage DEF HandlerPcs, InterruptPcs
    <2>. QED  BY <1>1, <1>2, <1>3, <2>1, PlainMove, SameRest DEF HandlerPcs
<1>4. CASE /\ rq[u].lock = 0 /\ Goto(w, "fs")
           /\ rq' = [rq EXCEPT ![u] = fuse_do_prepare_interrupt(rq[u])]
    <2>1. /\ rq' \in [Uniques -> ReqRec]
          /\ \A x \in Uniques \ {u} : rq[x]' = rq[x]
          /\ rq[u].ctr' = rq[u].ctr /\ rq[u].live' = rq[u].live
          /\ rq[u].listed' = rq[u].listed /\ rq[u].lock' = rq[u].lock
        <3>1. rq[u] \in ReqRec
            BY SameRest
        <3>. QED  BY <1>4, <3>1, ReqUpdates, ReqReplaced
    <2>2. ActsFor(w, u) /\ worker[w].pc' = "fs"
        BY <1>1, <1>2, <1>4, <2>1, GoesOn, SameRest, HasMessage DEF HandlerPcs, InterruptPcs
    <2>3. worker[w].msg' = Plain(u)
        BY <1>1, <2>2 DEF ActsFor
    <2>4. InFs(w, u)' /\ Handles(w, u)' /\ Using(w, u)' /\ Using(w, u)
        BY <1>1, <1>2, <2>2, <2>3 DEF InFs, Handles, Using, HandlerPcs
    <2>5. Cardinality(Users(u)') = Cardinality(Users(u))
        BY <2>2, <2>4, OnlyPart, UserChange
    <2>6. Unborn(u)' => Unborn(u)
        BY <2>2, OnlyPart DEF Fetched
    <2>7. \A v \in Workers : ~Signals(v, u)'
        BY <1>4, <2>2, <2>3, NoSignals, OnlyPart, MsgFacts DEF Signals
    <2>8. ReqOK(u)'
        BY <2>1, <2>4, <2>5, <2>6, <2>7 DEF ReqOK, LoopState
    <2>. QED  BY <2>2, <2>8, OneRequest
<1>. QED  BY <1>1, <1>3, <1>4 DEF EnterFs

\* finished is set, then func reset under req->lock: no signal is being
\* sent any more.
LEMMA fuse_do_finish_interruptOK ==
    ASSUME LoopState, NEW w \in Workers, fuse_do_finish_interrupt(w)
    PROVE  LoopState'
<1>1. PICK u \in Uniques : worker[w].msg = Plain(u) /\ Req(w) = u
    BY HasMessage DEF fuse_do_finish_interrupt, At, HandlerPcs
<1>2. ll' \in Seq(Uniques) /\ NoNewPlain /\ worker[w].old = 0
    <2>1. /\ ll' = ll /\ dev' = dev /\ worker[w].pc \in {"finish", "clear"}
        BY DEF fuse_do_finish_interrupt, At
    <2>. QED  BY <2>1, SameRest, HasMessage
<1>3. CASE /\ worker[w].pc = "finish" /\ Goto(w, "clear")
           /\ rq' = [rq EXCEPT ![u].finished = TRUE]
    <2>1. /\ rq' \in [Uniques -> ReqRec]
          /\ \A x \in Uniques \ {u} : rq[x]' = rq[x]
          /\ SameBooks(rq[u]', rq[u])
        <3>1. rq[u] \in ReqRec
            BY SameRest
        <3>2. rq' = [rq EXCEPT ![u] = [rq[u] EXCEPT !.finished = TRUE]]
            BY <1>3
        <3>. QED  BY <3>1, <3>2, ReqUpdates, ReqReplaced
    <2>2. ActsFor(w, u) /\ worker[w].pc' = "clear"
        <3>1. Goto(w, "clear")
            BY <1>3
        <3>. QED  BY <1>1, <1>2, <2>1, <3>1, GoesOn DEF HandlerPcs, InterruptPcs
    <2>. QED  BY <1>1, <1>3, <2>1, <2>2, PlainMove DEF HandlerPcs
<1>4. CASE /\ worker[w].pc = "clear" /\ Goto(w, "reply") /\ rq[u].lock = 0
           /\ rq' = [rq EXCEPT ![u].func = FALSE]
    <2>1. /\ rq' \in [Uniques -> ReqRec]
          /\ \A x \in Uniques \ {u} : rq[x]' = rq[x]
          /\ rq[u].ctr' = rq[u].ctr /\ rq[u].live' = rq[u].live
          /\ rq[u].listed' = rq[u].listed /\ rq[u].func' = FALSE
        <3>1. rq[u] \in ReqRec
            BY SameRest
        <3>2. rq' = [rq EXCEPT ![u] = [rq[u] EXCEPT !.func = FALSE]]
            BY <1>4
        <3>. QED  BY <3>1, <3>2, ReqUpdates, ReqReplaced
    <2>2. ActsFor(w, u) /\ worker[w].pc' = "reply"
        <3>1. Goto(w, "reply")
            BY <1>4
        <3>. QED  BY <1>1, <1>2, <2>1, <3>1, GoesOn DEF HandlerPcs, InterruptPcs
    <2>3. worker[w].msg' = Plain(u)
        BY <1>1, <2>2 DEF ActsFor
    <2>4. Handles(w, u)' /\ Using(w, u)' /\ Using(w, u)
        BY <1>1, <1>4, <2>2, <2>3 DEF Handles, Using, HandlerPcs
    <2>5. Cardinality(Users(u)') = Cardinality(Users(u))
        BY <2>2, <2>4, OnlyPart, UserChange
    <2>6. Unborn(u)' => Unborn(u)
        BY <2>2, OnlyPart DEF Fetched
    <2>7. \A v \in Workers : ~Signals(v, u)'
        BY <1>4, <2>2, <2>3, NoSignals, OnlyPart, MsgFacts DEF Signals
    <2>8. ReqOK(u)'
        BY <2>1, <2>4, <2>5, <2>6, <2>7 DEF ReqOK, LoopState
    <2>. QED  BY <2>2, <2>8, OneRequest
<1>. QED  BY <1>1, <1>3, <1>4 DEF fuse_do_finish_interrupt, At

\* The record of a request that has lost a user, and of one that is destroyed.
LEMMA PutFields ==
    ASSUME NEW r \in ReqRec
    PROVE  LET s == Put(r)
           IN  /\ s \in ReqRec
               /\ s.kernel = r.kernel /\ s.kind = r.kind /\ s.intr = r.intr
               /\ r.ctr > 1 =>
                    /\ s.ctr = r.ctr - 1 /\ s.live = r.live /\ s.listed = r.listed
                    /\ s.func = r.func /\ s.lock = r.lock
                    /\ s.interrupted = r.interrupted
                    /\ s.finished = r.finished /\ s.told = r.told
               /\ ~(r.ctr > 1) =>
                    /\ s.ctr = 0 /\ s.live = FALSE /\ s.listed = FALSE
                    /\ s.func = FALSE /\ s.interrupted = FALSE
<1>1. CASE r.ctr > 1
    BY <1>1 DEF ReqRec, Put
<1>2. CASE ~(r.ctr > 1)
    BY <1>2 DEF ReqRec, Put, NoReq
<1>. QED  BY <1>1, <1>2

\* The record that free_req puts back.
Unlisted(r) == [r EXCEPT !.listed = FALSE, !.func = FALSE]

\* What list_del_req changes.
LEMMA UnlistedFields ==
    ASSUME NEW r \in ReqRec
    PROVE  /\ Unlisted(r) \in ReqRec /\ Unlisted(r).ctr = r.ctr
           /\ Unlisted(r).live = r.live /\ Unlisted(r).listed = FALSE
           /\ Unlisted(r).func = FALSE /\ Unlisted(r).lock = r.lock
           /\ Unlisted(r).interrupted = r.interrupted
           /\ Unlisted(r).kernel = r.kernel /\ Unlisted(r).kind = r.kind
           /\ Unlisted(r).intr = r.intr
BY DEF Unlisted, ReqRec

\* The handler's reference goes, the request too if it is the last.
LEMMA free_reqOK ==
    ASSUME LoopState, NEW w \in Workers, free_req(w)
    PROVE  LoopState'
<1>1. PICK u \in Uniques : worker[w].msg = Plain(u) /\ Req(w) = u /\ Handles(w, u)
    BY HasMessage DEF free_req, At, HandlerPcs
<1>2. /\ ll' \in Seq(Uniques) /\ NoNewPlain /\ worker[w].old = 0
      /\ Goto(w, "count") /\ rq[u].lock = 0
      /\ rq' = [rq EXCEPT ![u] = Put(Unlisted(rq[u]))]
    <2>1. ll' = ll /\ dev' = dev /\ worker[w].pc = "free"
        BY DEF free_req, At
    <2>. QED  BY <1>1, <2>1, SameRest, HasMessage DEF free_req, Unlisted
<1>3. rq[u] \in ReqRec
    BY SameRest
<1>4. /\ rq' \in [Uniques -> ReqRec]
      /\ \A x \in Uniques \ {u} : rq[x]' = rq[x]
      /\ rq[u]' = Put(Unlisted(rq[u]))
    BY <1>2, <1>3, UnlistedFields, PutFields, ReqReplaced
<1>5. /\ rq[u].ctr > 1 => rq[u].ctr' = rq[u].ctr - 1 /\ rq[u].live' = rq[u].live
      /\ ~(rq[u].ctr > 1) => rq[u].ctr' = 0 /\ rq[u].live' = FALSE
      /\ rq[u].listed' = FALSE /\ rq[u].func' = FALSE
    <2>. DEFINE r == Unlisted(rq[u])
                s == Put(r)
    <2>1. /\ r \in ReqRec /\ r.ctr = rq[u].ctr /\ r.live = rq[u].live
          /\ r.listed = FALSE /\ r.func = FALSE
        BY <1>3, UnlistedFields
    <2>. HIDE DEF r
    <2>2. /\ r.ctr > 1 => s.ctr = r.ctr - 1 /\ s.live = r.live
          /\ ~(r.ctr > 1) => s.ctr = 0 /\ s.live = FALSE
          /\ s.listed = FALSE /\ s.func = FALSE
        BY <2>1, PutFields
    <2>3. rq[u]' = s
        BY <1>4 DEF r
    <2>. HIDE DEF s
    <2>. QED  BY <2>1, <2>2, <2>3
<1>6. ActsFor(w, u) /\ worker[w].pc' = "count"
    BY <1>1, <1>2, <1>4, GoesOn DEF HandlerPcs, InterruptPcs, OtherPcs
<1>7. worker[w].msg' = Plain(u)
    BY <1>1, <1>6 DEF ActsFor
<1>8. Using(w, u) /\ ~Using(w, u)'
    BY <1>1, <1>6, <1>7 DEF Using, Handles, Interrupts, HandlerPcs, InterruptPcs
<1>9. Cardinality(Users(u)') = Cardinality(Users(u)) - 1
    BY <1>6, <1>8, OnlyPart, UserChange
<1>10. /\ rq[u].ctr = Cardinality(Users(u)) /\ rq[u].ctr \in Nat
       /\ (rq[u].live <=> rq[u].ctr > 0)
       /\ Unborn(u) => rq[u].ctr = 0
       /\ rq[u].ctr > 0 /\ (~(rq[u].ctr > 1) => rq[u].ctr = 1)
    BY <1>8, UsersFinite, FewUsers DEF LoopState, ReqOK
<1>11. ~Unborn(u)'
    BY <1>6, <1>10, OnlyPart DEF Fetched
<1>12. \A v \in Workers : ~Signals(v, u)'
    BY <1>2, <1>6, NoSignals, OnlyPart DEF Signals
<1>13. ReqOK(u)'
    <2>1. rq[u].ctr' = Cardinality(Users(u)')
        BY <1>5, <1>9, <1>10
    <2>2. (rq[u].live' <=> rq[u].ctr' > 0)
        <3>1. CASE rq[u].ctr > 1
            BY <1>5, <1>10, <3>1
        <3>2. CASE ~(rq[u].ctr > 1)
            BY <1>5, <3>2
        <3>. QED  BY <3>1, <3>2
    <2>. QED  BY <1>5, <1>11, <1>12, <2>1, <2>2 DEF ReqOK
<1>. QED  BY <1>6, <1>13, OneRequest

\* The reference of the worker that brought the interrupt goes.
LEMMA PutInterruptedOK ==
    ASSUME LoopState, NEW w \in Workers, PutInterrupted(w)
    PROVE  LoopState'
<1>1. PICK u \in Uniques : worker[w].msg = Intr(u) /\ Req(w) = u /\ Interrupts(w, u)
    BY HasMessage DEF PutInterrupted, At, InterruptPcs
<1>2. /\ ll' \in Seq(Uniques) /\ NoNewPlain /\ worker[w].old = 0
      /\ Goto(w, "count") /\ worker[w].pc = "put"
      /\ rq' = [rq EXCEPT ![u] = Put(rq[u])]
    <2>1. ll' = ll /\ dev' = dev /\ worker[w].pc = "put"
        BY DEF PutInterrupted, OnlyReq, At
    <2>. QED  BY <1>1, <2>1, SameRest, HasMessage DEF PutInterrupted
<1>3. rq[u] \in ReqRec
    BY SameRest
<1>4. /\ rq' \in [Uniques -> ReqRec]
      /\ \A x \in Uniques \ {u} : rq[x]' = rq[x]
      /\ rq[u]' = Put(rq[u])
    BY <1>2, <1>3, PutFields, ReqReplaced
<1>5. ActsFor(w, u) /\ worker[w].pc' = "count"
    BY <1>1, <1>2, <1>4, GoesOn DEF HandlerPcs, InterruptPcs, OtherPcs
<1>6. worker[w].msg' = Intr(u)
    BY <1>1, <1>5 DEF ActsFor
<1>7. Using(w, u) /\ ~Using(w, u)'
    BY <1>1, <1>5, <1>6 DEF Using, Handles, Interrupts, HandlerPcs, InterruptPcs
<1>8. Cardinality(Users(u)') = Cardinality(Users(u)) - 1
    BY <1>5, <1>7, OnlyPart, UserChange
<1>9. /\ rq[u].ctr = Cardinality(Users(u)) /\ rq[u].ctr \in Nat
      /\ (rq[u].live <=> rq[u].ctr > 0)
      /\ Unborn(u) => rq[u].ctr = 0
      /\ rq[u].ctr > 0 /\ (~(rq[u].ctr > 1) => rq[u].ctr = 1)
    BY <1>7, UsersFinite, FewUsers DEF LoopState, ReqOK
<1>10. ~Unborn(u)'
    BY <1>5, <1>9, OnlyPart DEF Fetched
<1>11. /\ ~Handles(w, u) /\ ~InFs(w, u) /\ ~Signals(w, u)'
       /\ \A v \in Workers : Signals(v, u)' => Signals(v, u)
    BY <1>1, <1>2, <1>5, OnlyPart, MsgFacts DEF Handles, InFs, Signals
<1>12. CASE rq[u].ctr > 1
    <2>1. /\ rq[u].ctr' = rq[u].ctr - 1 /\ rq[u].live' = rq[u].live
          /\ rq[u].listed' = rq[u].listed /\ rq[u].func' = rq[u].func
          /\ rq[u].lock' = rq[u].lock
        <3>. DEFINE s == Put(rq[u])
        <3>1. /\ s.ctr = rq[u].ctr - 1 /\ s.live = rq[u].live
              /\ s.listed = rq[u].listed /\ s.func = rq[u].func
              /\ s.lock = rq[u].lock
            BY <1>3, <1>12, PutFields
        <3>2. rq[u]' = s
            BY <1>4
        <3>. HIDE DEF s
        <3>. QED  BY <3>1, <3>2
    <2>2. /\ rq[u].listed => \E h \in Workers : Handles(h, u)'
          /\ rq[u].func => \E h \in Workers : InFs(h, u)'
        BY <1>5, <1>11, OnlyPart DEF LoopState, ReqOK
    <2>3. \A v \in Workers : Signals(v, u)' => rq[u].func /\ rq[u].lock = v
        BY <1>11 DEF LoopState, ReqOK
    <2>4. ReqOK(u)'
        BY <1>8, <1>9, <1>10, <1>12, <2>1, <2>2, <2>3 DEF ReqOK
    <2>. QED  BY <1>5, <2>4, OneRequest
<1>13. CASE ~(rq[u].ctr > 1)
    <2>1. /\ rq[u].ctr' = 0 /\ rq[u].live' = FALSE /\ rq[u].listed' = FALSE
          /\ rq[u].func' = FALSE
        <3>. DEFINE s == Put(rq[u])
        <3>1. s.ctr = 0 /\ s.live = FALSE /\ s.listed = FALSE /\ s.func = FALSE
            BY <1>3, <1>13, PutFields
        <3>2. rq[u]' = s
            BY <1>4
        <3>. HIDE DEF s
        <3>. QED  BY <3>1, <3>2
    <2>2. \A v \in Workers : Using(v, u) => v = w
        BY <1>7, <1>9, <1>13, FewUsers
    <2>3. \A v \in Workers : ~Signals(v, u)'
        BY <1>11, <2>2 DEF Signals, Using, Interrupts, InterruptPcs
    <2>4. ReqOK(u)'
        <3>1. rq[u].ctr' = Cardinality(Users(u)') /\ (rq[u].live' <=> rq[u].ctr' > 0)
            BY <1>8, <1>9, <1>13, <2>1
        <3>. QED  BY <1>10, <2>1, <2>3, <3>1 DEF ReqOK
    <2>. QED  BY <1>5, <2>4, OneRequest
<1>. QED  BY <1>12, <1>13

\* interrupted is set under req->lock, kept for the signals if func is set.
LEMMA find_interruptedOK ==
    ASSUME LoopState, NEW w \in Workers, find_interrupted(w)
    PROVE  LoopState'
<1>. DEFINE pc == IF rq[Req(w)].func THEN "signal" ELSE "put"
            k == IF rq[Req(w)].func THEN w ELSE 0
<1>1. PICK u \in Uniques : worker[w].msg = Intr(u) /\ Req(w) = u /\ Interrupts(w, u)
    BY HasMessage DEF find_interrupted, At, InterruptPcs
<1>2. /\ ll' \in Seq(Uniques) /\ NoNewPlain /\ worker[w].old = 0
      /\ Goto(w, pc) /\ rq[u].lock = 0
      /\ rq' = [rq EXCEPT ![u] = [rq[u] EXCEPT !.interrupted = TRUE, !.lock = k]]
    <2>1. ll' = ll /\ dev' = dev /\ worker[w].pc = "ilock"
        BY DEF find_interrupted, OnlyReq, At
    <2>. QED  BY <1>1, <2>1, SameRest, HasMessage DEF find_interrupted
<1>3. /\ rq[u] \in ReqRec /\ k \in Workers \cup {0} /\ pc \in {"signal", "put"}
      /\ pc = "signal" => rq[u].func /\ k = w
    BY <1>1, SameRest
<1>. HIDE DEF pc, k
<1>4. /\ rq' \in [Uniques -> ReqRec]
      /\ \A x \in Uniques \ {u} : rq[x]' = rq[x]
      /\ rq[u].ctr' = rq[u].ctr /\ rq[u].live' = rq[u].live /\ rq[u].lock' = k
      /\ rq[u].listed' = rq[u].listed /\ rq[u].func' = rq[u].func
    <2>. DEFINE s == [rq[u] EXCEPT !.interrupted = TRUE, !.lock = k]
    <2>1. /\ s \in ReqRec /\ s.ctr = rq[u].ctr /\ s.live = rq[u].live /\ s.lock = k
          /\ s.listed = rq[u].listed /\ s.func = rq[u].func
        BY <1>3 DEF ReqRec
    <2>2. rq' = [rq EXCEPT ![u] = s]
        BY <1>2
    <2>. HIDE DEF s
    <2>. QED  BY <2>1, <2>2, ReqReplaced
<1>5. ActsFor(w, u) /\ worker[w].pc' = pc
    BY <1>1, <1>2, <1>3, <1>4, GoesOn DEF HandlerPcs, InterruptPcs
<1>6. worker[w].msg' = Intr(u)
    BY <1>1, <1>5 DEF ActsFor
<1>7. Using(w, u) /\ Using(w, u)' /\ ~Handles(w, u) /\ ~InFs(w, u)
    BY <1>1, <1>3, <1>5, <1>6, MsgFacts
       DEF Using, Handles, Interrupts, InFs, HandlerPcs, InterruptPcs
<1>8. Cardinality(Users(u)') = Cardinality(Users(u))
    BY <1>5, <1>7, OnlyPart, UserChange
<1>9. Unborn(u)' => Unborn(u)
    BY <1>3, <1>5, OnlyPart DEF Fetched
<1>10. \A v \in Workers : Signals(v, u)' => rq[u].func' /\ rq[u].lock' = v
    <2>1. \A v \in Workers \ {w} : ~Signals(v, u)'
        BY <1>2, <1>5, NoSignals, OnlyPart
    <2>2. Signals(w, u)' => rq[u].func' /\ rq[u].lock' = w
        BY <1>3, <1>4, <1>5 DEF Signals
    <2>. QED  BY <2>1, <2>2
<1>11. /\ rq[u].listed => \E h \in Workers : Handles(h, u)'
       /\ rq[u].func => \E h \in Workers : InFs(h, u)'
    BY <1>5, <1>7, OnlyPart DEF LoopState, ReqOK
<1>12. ReqOK(u)'
    BY <1>4, <1>8, <1>9, <1>10, <1>11 DEF ReqOK, LoopState
<1>. QED  BY <1>5, <1>12, OneRequest

\* No more signals once the handler has finished; req->lock is released.
LEMMA fuse_interruptOK ==
    ASSUME LoopState, NEW w \in Workers, fuse_interrupt(w)
    PROVE  LoopState'
<1>1. PICK u \in Uniques : worker[w].msg = Intr(u) /\ Req(w) = u /\ Interrupts(w, u)
    BY HasMessage DEF fuse_interrupt, At, InterruptPcs
<1>2. /\ ll' \in Seq(Uniques) /\ NoNewPlain /\ worker[w].old = 0
      /\ Goto(w, "put") /\ worker[w].pc = "signal"
      /\ rq' = [rq EXCEPT ![u] = [rq[u] EXCEPT !.lock = 0]]
    <2>1. ll' = ll /\ dev' = dev /\ worker[w].pc = "signal"
        BY DEF fuse_interrupt, OnlyReq, At
    <2>. QED  BY <1>1, <2>1, SameRest, HasMessage DEF fuse_interrupt
<1>3. /\ rq' \in [Uniques -> ReqRec]
      /\ \A x \in Uniques \ {u} : rq[x]' = rq[x]
      /\ rq[u].ctr' = rq[u].ctr /\ rq[u].live' = rq[u].live
      /\ rq[u].listed' = rq[u].listed /\ rq[u].func' = rq[u].func
    <2>. DEFINE s == [rq[u] EXCEPT !.lock = 0]
    <2>1. /\ s \in ReqRec /\ s.ctr = rq[u].ctr /\ s.live = rq[u].live
          /\ s.listed = rq[u].listed /\ s.func = rq[u].func
        BY SameRest DEF ReqRec
    <2>2. rq' = [rq EXCEPT ![u] = s]
        BY <1>2
    <2>. HIDE DEF s
    <2>. QED  BY <2>1, <2>2, ReqReplaced
<1>4. ActsFor(w, u) /\ worker[w].pc' = "put"
    BY <1>1, <1>2, <1>3, GoesOn DEF HandlerPcs, InterruptPcs
<1>5. worker[w].msg' = Intr(u)
    BY <1>1, <1>4 DEF ActsFor
<1>6. Using(w, u) /\ Using(w, u)' /\ ~Handles(w, u) /\ ~InFs(w, u)
    BY <1>1, <1>4, <1>5, MsgFacts
       DEF Using, Handles, Interrupts, InFs, HandlerPcs, InterruptPcs
<1>7. Cardinality(Users(u)') = Cardinality(Users(u))
    BY <1>4, <1>6, OnlyPart, UserChange
<1>8. Unborn(u)' => Unborn(u)
    BY <1>4, OnlyPart DEF Fetched
<1>9. \A v \in Workers : ~Signals(v, u)'
    <2>1. Signals(w, u)
        BY <1>1, <1>2 DEF Signals
    <2>2. \A v \in Workers \ {w} : ~Signals(v, u)
        BY <2>1 DEF LoopState, ReqOK
    <2>. QED  BY <1>4, <2>2, OnlyPart DEF Signals
<1>10. /\ rq[u].listed => \E h \in Workers : Handles(h, u)'
       /\ rq[u].func => \E h \in Workers : InFs(h, u)'
    BY <1>4, <1>6, OnlyPart DEF LoopState, ReqOK
<1>11. ReqOK(u)'
    BY <1>3, <1>7, <1>8, <1>9, <1>10 DEF ReqOK, LoopState
<1>. QED  BY <1>4, <1>11, OneRequest

(***************************************************************************)
(* The list of early interrupts                                            *)
(***************************************************************************)
\* list_del takes one node out and leaves the others.
LEMMA WithoutKeeps ==
    ASSUME NEW S, NEW s \in Seq(S), NEW u
    PROVE  /\ Without(s, u) \in Seq(S)
           /\ \A y : y # u /\ InSeq(s, y) => InSeq(Without(s, u), y)
<1>1. CASE ~InSeq(s, u)
    BY <1>1 DEF Without
<1>2. CASE InSeq(s, u)
    <2>. DEFINE i == CHOOSE k \in DOMAIN s : s[k] = u
                a == SubSeq(s, 1, i - 1)
                b == SubSeq(s, i + 1, Len(s))
    <2>1. i \in 1..Len(s) /\ s[i] = u
        BY <1>2 DEF InSeq
    <2>2. Without(s, u) = a \o b
        BY <1>2 DEF Without, RemoveAt
    <2>. HIDE DEF i
    <2>3. /\ a \in Seq(S) /\ Len(a) = i - 1
          /\ \A k \in 1..(i - 1) : a[k] = s[k]
        BY <2>1
    <2>4. /\ b \in Seq(S) /\ Len(b) = Len(s) - i
          /\ \A k \in 1..(Len(s) - i) : b[k] = s[k + i]
        BY <2>1
    <2>. HIDE DEF a, b
    <2>5. /\ a \o b \in Seq(S) /\ Len(a \o b) = Len(s) - 1
          /\ \A k \in 1..(i - 1) : (a \o b)[k] = s[k]
          /\ \A k \in (i + 1)..Len(s) : (a \o b)[k - 1] = s[k]
        <3>1. a \o b \in Seq(S) /\ Len(a \o b) = Len(s) - 1
            <4>1. a \o b \in Seq(S) /\ Len(a \o b) = Len(a) + Len(b)
                BY <2>3, <2>4
            <4>2. i \in Int /\ Len(s) \in Int
                BY <2>1
            <4>. QED  BY <2>3, <2>4, <4>1, <4>2
        <3>2. ASSUME NEW k \in 1..(i - 1)  PROVE (a \o b)[k] = s[k]
            <4>1. (a \o b)[k] = a[k]
                BY <2>1, <2>3, <2>4
            <4>. QED  BY <2>3, <4>1
        <3>3. ASSUME NEW k \in (i + 1)..Len(s)  PROVE (a \o b)[k - 1] = s[k]
            <4>1. (a \o b)[k - 1] = b[k - i] /\ k - i \in 1..(Len(s) - i)
                BY <2>1, <2>3, <2>4
            <4>. QED  BY <2>1, <2>4, <4>1
        <3>. QED  BY <3>1, <3>2, <3>3
    <2>6. ASSUME NEW y, y # u, InSeq(s, y)  PROVE InSeq(a \o b, y)
        <3>1. PICK j \in 1..Len(s) : s[j] = y
            BY <2>6 DEF InSeq
        <3>2. j # i
            BY <2>1, <2>6, <3>1
        <3>3. DOMAIN (a \o b) = 1..(Len(s) - 1)
            BY <2>5
        <3>4. CASE j < i
            <4>1. j \in 1..(Len(s) - 1) /\ (a \o b)[j] = y
                BY <2>1, <2>5, <3>1, <3>4
            <4>. QED  BY <3>3, <4>1 DEF InSeq
        <3>5. CASE j > i
            <4>1. j - 1 \in 1..(Len(s) - 1) /\ (a \o b)[j - 1] = y
                BY <2>1, <2>5, <3>1, <3>5
            <4>. QED  BY <3>3, <4>1 DEF InSeq
        <3>. QED  BY <2>1, <3>1, <3>2, <3>4, <3>5
    <2>. QED  BY <2>2, <2>5, <2>6
<1>. QED  BY <1>1, <1>2

\* The head is taken off, or a node is put behind the others.
LEMMA ListSteps ==
    ASSUME NEW S, NEW s \in Seq(S)
    PROVE  /\ s # <<>> => /\ Tail(s) \in Seq(S) /\ Head(s) \in S
                          /\ \A y : InSeq(s, y) => y = Head(s) \/ InSeq(Tail(s), y)
           /\ \A u \in S : /\ Append(s, u) \in Seq(S) /\ InSeq(Append(s, u), u)
                           /\ \A y : InSeq(s, y) => InSeq(Append(s, u), y)
<1>1. ASSUME s # <<>>
      PROVE  /\ Tail(s) \in Seq(S) /\ Head(s) \in S
             /\ \A y : InSeq(s, y) => y = Head(s) \/ InSeq(Tail(s), y)
    <2>1. /\ Tail(s) \in Seq(S) /\ Head(s) \in S /\ Head(s) = s[1]
          /\ DOMAIN Tail(s) = 1..(Len(s) - 1)
          /\ \A k \in 1..(Len(s) - 1) : Tail(s)[k] = s[k + 1]
        BY <1>1
    <2>2. ASSUME NEW y, InSeq(s, y), y # Head(s)  PROVE InSeq(Tail(s), y)
        <3>1. PICK j \in 1..Len(s) : s[j] = y
            BY <2>2 DEF InSeq
        <3>2. j - 1 \in 1..(Len(s) - 1) /\ Tail(s)[j - 1] = y
            BY <2>1, <2>2, <3>1
        <3>. QED  BY <2>1, <3>2 DEF InSeq
    <2>. QED  BY <2>1, <2>2
<1>2. ASSUME NEW u \in S
      PROVE  /\ Append(s, u) \in Seq(S) /\ InSeq(Append(s, u), u)
             /\ \A y : InSeq(s, y) => InSeq(Append(s, u), y)
    <2>1. /\ Append(s, u) \in Seq(S) /\ DOMAIN Append(s, u) = 1..(Len(s) + 1)
          /\ Append(s, u)[Len(s) + 1] = u /\ Len(s) + 1 \in 1..(Len(s) + 1)
          /\ \A k \in 1..Len(s) : Append(s, u)[k] = s[k] /\ k \in 1..(Len(s) + 1)
          /\ DOMAIN s = 1..Len(s)
        OBVIOUS
    <2>. QED  BY <2>1 DEF InSeq
<1>. QED  BY <1>1, <1>2

\* What check_interrupt answers.
LEMMA CheckInterrupt ==
    ASSUME NEW u, ll \in Seq(Uniques)
    PROVE  LET c == check_interrupt(u)
           IN  /\ c.ll \in Seq(Uniques) /\ c.mine \in BOOLEAN
               /\ c.old \in Uniques \cup {0}
               /\ InSeq(ll, u) => c.mine = TRUE
               /\ \A y \in Uniques : y # u /\ InSeq(ll, y) => InSeq(c.ll, y) \/ c.old = y
<1>1. CASE InSeq(ll, u)
    BY <1>1, WithoutKeeps DEF check_interrupt
<1>2. CASE ~InSeq(ll, u) /\ ll # <<>>
    BY <1>2, ListSteps DEF check_interrupt
<1>3. CASE ~InSeq(ll, u) /\ ll = <<>>
    BY <1>3 DEF check_interrupt
<1>. QED  BY <1>1, <1>2, <1>3

(***************************************************************************)
(* A message is read and looked at                                         *)
(***************************************************************************)
\* A thread that is not at work on a request goes to another such place.
LEMMA QuietGoto ==
    ASSUME LoopState, NEW w \in Workers, NEW pc \in OtherPcs \ {"got", "process"},
           worker[w].pc \in OtherPcs, Goto(w, pc),
           rq' \in [Uniques -> ReqRec], ll' \in Seq(Uniques), NoNewPlain,
           \A u \in Uniques : SameBooks(rq[u]', rq[u])
    PROVE  LoopState'
<1>1. worker \in [Workers -> WorkerRec] /\ \A v \in Workers : WorkerFits(worker[v])
    BY DEF LoopState, LoopTypes, PartsFit
<1>2. /\ worker' \in [Workers -> WorkerRec]
      /\ worker[w].pc' = pc /\ worker[w].msg' = worker[w].msg
      /\ worker[w].old' = worker[w].old
      /\ worker[w].cancelled' = worker[w].cancelled
      /\ \A v \in Workers \ {w} : worker[v]' = worker[v]
    BY <1>1, GotoFields
<1>3. \A v \in Workers : /\ WorkerFits(worker[v]')
                         /\ worker[v].msg' \in {worker[v].msg, NoMsg}
    BY <1>1, <1>2 DEF WorkerFits, OtherPcs, HandlerPcs, InterruptPcs
<1>4. \A v \in Workers : \/ worker[v]' = worker[v]
                         \/ /\ worker[v].pc \in OtherPcs
                            /\ worker[v].pc' \in OtherPcs
                            /\ worker[v].pc' \in {"got", "process"} =>
                                   worker[v].pc \in {"got", "process"}
    BY <1>2
<1>. QED  BY <1>2, <1>3, <1>4, QuietStep

\* A new value of the counter.
LEMMA CtrField ==
    ASSUME NEW r \in ReqRec, NEW n \in Nat
    PROVE  LET s == [r EXCEPT !.ctr = n]
           IN  /\ s \in ReqRec /\ s.ctr = n /\ s.live = r.live
               /\ s.listed = r.listed /\ s.func = r.func /\ s.lock = r.lock
               /\ s.kernel = r.kernel /\ s.kind = r.kind /\ s.intr = r.intr
               /\ s.interrupted = r.interrupted /\ s.told = r.told
               /\ s.finished = r.finished
BY DEF ReqRec

\* An INTERRUPT for a request that is listed: one more user.
LEMMA InterruptCounted ==
    ASSUME LoopState, NEW w \in Workers, NEW u \in Uniques,
           worker[w].pc = "process", worker[w].msg = Intr(u), worker[w].old = 0,
           rq[u].listed, Goto(w, "ilock"),
           rq' = [rq EXCEPT ![u] = [rq[u] EXCEPT !.ctr = rq[u].ctr + 1]],
           ll' \in Seq(Uniques), NoNewPlain
    PROVE  LoopState'
<1>1. /\ rq' \in [Uniques -> ReqRec]
      /\ \A x \in Uniques \ {u} : rq[x]' = rq[x]
      /\ rq[u].ctr' = rq[u].ctr + 1 /\ rq[u].live' = rq[u].live
      /\ rq[u].listed' = rq[u].listed /\ rq[u].func' = rq[u].func
      /\ rq[u].lock' = rq[u].lock
    <2>. DEFINE s == [rq[u] EXCEPT !.ctr = rq[u].ctr + 1]
    <2>1. /\ s \in ReqRec /\ s.ctr = rq[u].ctr + 1 /\ s.live = rq[u].live
          /\ s.listed = rq[u].listed /\ s.func = rq[u].func /\ s.lock = rq[u].lock
        <3>1. rq[u] \in ReqRec
            BY SameRest
        <3>2. rq[u].ctr + 1 \in Nat
            BY <3>1 DEF ReqRec
        <3>. QED  BY <3>1, <3>2, CtrField
    <2>. HIDE DEF s
    <2>2. rq' = [rq EXCEPT ![u] = s]
        BY DEF s
    <2>. QED  BY <2>1, <2>2, ReqReplaced
<1>2. ActsFor(w, u) /\ worker[w].pc' = "ilock"
    BY <1>1, GoesOn DEF HandlerPcs, InterruptPcs
<1>3. worker[w].msg' = Intr(u)
    BY <1>2 DEF ActsFor
<1>4. /\ ~Using(w, u) /\ Using(w, u)' /\ ~Handles(w, u) /\ ~InFs(w, u)
      /\ ~Signals(w, u)'
    BY <1>2, <1>3, MsgFacts
       DEF Using, Handles, Interrupts, InFs, Signals, HandlerPcs, InterruptPcs
<1>5. Cardinality(Users(u)') = Cardinality(Users(u)) + 1
    BY <1>2, <1>4, OnlyPart, UserChange
<1>6. PICK h \in Workers : Handles(h, u)
    BY DEF LoopState, ReqOK
<1>7. /\ rq[u].ctr = Cardinality(Users(u)) /\ rq[u].ctr \in Nat /\ rq[u].ctr > 0
      /\ (rq[u].live <=> rq[u].ctr > 0)
      /\ Unborn(u) => rq[u].ctr = 0
    BY <1>6, UsersFinite, FewUsers DEF LoopState, ReqOK, Using
<1>8. ~Unborn(u)'
    BY <1>2, <1>7, OnlyPart DEF Fetched
<1>9. \A v \in Workers : Signals(v, u)' => rq[u].func /\ rq[u].lock = v
    BY <1>2, <1>4, OnlyPart DEF LoopState, ReqOK
<1>10. /\ \E x \in Workers : Handles(x, u)'
       /\ rq[u].func => \E x \in Workers : InFs(x, u)'
    BY <1>2, <1>4, <1>6, OnlyPart DEF LoopState, ReqOK
<1>11. rq[u].ctr' = Cardinality(Users(u)') /\ (rq[u].live' <=> rq[u].ctr' > 0)
    BY <1>1, <1>5, <1>7
<1>12. ReqOK(u)'
    BY <1>1, <1>8, <1>9, <1>10, <1>11 DEF ReqOK
<1>. QED  BY <1>2, <1>12, OneRequest

\* A request begins: its handler is its only user.
LEMMA RequestBegins ==
    ASSUME LoopState, NEW w \in Workers, NEW u \in Uniques, NEW s \in ReqRec,
           worker[w].pc = "process", worker[w].msg = Plain(u), ActsFor(w, u),
           worker[w].pc' \in {"eagain", "tree", "free"}, rq[u]' = s,
           s.live = TRUE, s.ctr = 1, s.func = rq[u].func
    PROVE  LoopState'
<1>1. worker[w].msg' = Plain(u)
    BY DEF ActsFor
<1>2. /\ ~Using(w, u) /\ Handles(w, u)' /\ Using(w, u)' /\ Fetched(w, u)
    BY <1>1, MsgFacts
       DEF Using, Handles, Interrupts, Fetched, HandlerPcs, InterruptPcs
<1>3. rq[u].ctr = 0 /\ Cardinality(Users(u)) = 0
    BY <1>2 DEF LoopState, ReqOK, Unborn
<1>4. \A v \in Workers : ~Using(v, u)
    BY <1>3, NoUsers
<1>5. ~rq[u].func
    BY <1>4 DEF LoopState, ReqOK, InFs, Using, Handles, HandlerPcs
<1>6. \A v \in Workers : ~Signals(v, u)'
    <2>1. \A v \in Workers : ~Signals(v, u)
        BY <1>4 DEF Signals, Using, Interrupts, InterruptPcs
    <2>. QED  BY <1>1, <2>1, OnlyPart, MsgFacts DEF Signals
<1>7. Cardinality(Users(u)') = 1
    BY <1>2, <1>3, OnlyPart, UserChange
<1>8. ~Unborn(u)'
    <2>1. Plain(u) \notin dev.msgs' /\ \A v \in Workers \ {w} : worker[v].msg # Plain(u)
        BY DEF LoopState, PlainOnce, ActsFor, NoNewPlain
    <2>. QED  BY <2>1 DEF Unborn, Fetched, ActsFor
<1>9. ReqOK(u)'
    <2>1. /\ rq[u].ctr' = 1 /\ (rq[u].live' <=> rq[u].ctr' > 0)
          /\ ~rq[u].func'
        BY <1>5
    <2>. QED  BY <1>2, <1>6, <1>7, <1>8, <2>1 DEF ReqOK
<1>. QED  BY <1>9, OneRequest

\* A message is dispatched: a new request, an interrupt that finds its
\* request, or one that is put on the list.
LEMMA fuse_ll_processOK ==
    ASSUME LoopState, NEW w \in Workers, fuse_ll_process(w)
    PROVE  LoopState'
<1>1. worker[w].pc = "process" /\ dev' = dev /\ NoNewPlain /\ worker[w].old = 0
    BY SameRest, HasMessage DEF fuse_ll_process, At
<1>2. PICK u \in Uniques : /\ Req(w) = u
                           /\ worker[w].msg = Plain(u) \/ worker[w].msg = Intr(u)
    BY <1>1, HasMessage
<1>3. CASE Goto(w, "count") /\ rq' = rq /\ ll' \in Seq(Uniques)
    BY <1>1, <1>3, QuietGoto, SameRest DEF OtherPcs
<1>4. CASE worker[w].msg.intr /\ do_interrupt(w)
    <2>1. worker[w].msg = Intr(u)
        BY <1>2, <1>4, MsgFacts
    <2>2. CASE /\ rq[u].listed /\ ll' = ll /\ Goto(w, "ilock")
               /\ rq' = [rq EXCEPT ![u].ctr = rq[u].ctr + 1]
        <3>1. rq' = [rq EXCEPT ![u] = [rq[u] EXCEPT !.ctr = rq[u].ctr + 1]]
            BY <2>2
        <3>2. ll' \in Seq(Uniques) /\ Goto(w, "ilock") /\ rq[u].listed
            BY <2>2, SameRest
        <3>. QED  BY <1>1, <2>1, <3>1, <3>2, InterruptCounted
    <2>3. CASE /\ rq' = rq /\ Goto(w, "count")
               /\ ll' = IF InSeq(ll, u) THEN ll ELSE Append(ll, u)
        BY <1>3, <2>3, SameRest, ListSteps
    <2>. QED  BY <1>2, <1>4, <2>2, <2>3 DEF do_interrupt
<1>5. CASE ~worker[w].msg.intr /\
           LET c == check_interrupt(u)
           IN  /\ ll' = c.ll
               /\ rq' = [rq EXCEPT ![u].live = TRUE, ![u].listed = TRUE,
                                   ![u].ctr = 1, ![u].interrupted = c.mine]
               /\ worker' = [worker EXCEPT ![w].old = c.old,
                   ![w].pc = IF c.old # 0 THEN "eagain" ELSE Handler(w)]
    <2>. DEFINE c == check_interrupt(u)
                pc == IF c.old # 0 THEN "eagain" ELSE Handler(w)
                s == [rq[u] EXCEPT !.live = TRUE, !.listed = TRUE, !.ctr = 1,
                                   !.interrupted = c.mine]
    <2>1. /\ worker[w].msg = Plain(u) /\ ll' = c.ll /\ rq' = [rq EXCEPT ![u] = s]
          /\ worker' = [worker EXCEPT ![w].old = c.old, ![w].pc = pc]
        BY <1>2, <1>5, MsgFacts
    <2>2. c.ll \in Seq(Uniques) /\ c.mine \in BOOLEAN /\ c.old \in Uniques \cup {0}
        BY SameRest, CheckInterrupt
    <2>. HIDE DEF c
    <2>3. pc \in {"eagain", "tree", "free"} /\ (c.old = 0 <=> pc # "eagain")
        BY DEF Handler
    <2>. HIDE DEF pc
    <2>4. s \in ReqRec /\ s.live = TRUE /\ s.ctr = 1 /\ s.func = rq[u].func
        <3>1. rq[u] \in ReqRec
            BY SameRest
        <3>. QED  BY <2>2, <3>1 DEF ReqRec
    <2>. HIDE DEF s
    <2>5. /\ worker' \in [Workers -> WorkerRec]
          /\ worker[w].pc' = pc /\ worker[w].msg' = worker[w].msg
          /\ worker[w].old' = c.old /\ worker[w].cancelled' = worker[w].cancelled
          /\ \A x \in Workers \ {w} : worker[x]' = worker[x]
        <3>1. worker \in [Workers -> WorkerRec]
            BY DEF LoopState, LoopTypes
        <3>. QED  BY <2>1, <2>2, <2>3, <3>1 DEF WorkerRec, HandlerPcs
    <2>6. WorkerFits(worker[w]')
        BY <2>1, <2>3, <2>5 DEF WorkerFits, HandlerPcs, InterruptPcs, LoopState, PartsFit
    <2>7. ActsFor(w, u)
        BY <1>1, <2>1, <2>2, <2>4, <2>5, <2>6, ReqReplaced DEF ActsFor
    <2>8. rq[u]' = s
        BY <2>1, <2>4, ReqReplaced
    <2>. QED  BY <1>1, <2>1, <2>3, <2>4, <2>5, <2>7, <2>8, RequestBegins
<1>. QED  BY <1>2, <1>3, <1>4, <1>5, SameRest DEF fuse_ll_process

\* A message is read from the device: the one place it leaves it.
LEMMA ReceiveOK ==
    ASSUME LoopState, Fields, NEW w \in Workers, fuse_kern_chan_receive(w)
    PROVE  LoopState'
<1>1. /\ worker[w].pc = "read" /\ rq' = rq /\ ll' = ll
    BY DEF fuse_kern_chan_receive, At
<1>2. CASE Goto(w, "end") /\ dev' = dev
    BY <1>1, <1>2, QuietGoto, SameRest DEF OtherPcs
<1>3. ASSUME NEW m \in dev.msgs, dev' = [dev EXCEPT !.msgs = @ \ {m}],
             worker' = [worker EXCEPT ![w].msg = m,
                                 ![w].pc = IF se.exited THEN "end" ELSE "got"]
      PROVE  LoopState'
    <2>. DEFINE pc == IF se.exited THEN "end" ELSE "got"
    <2>1. worker \in [Workers -> WorkerRec] /\ WorkerFits(worker[w]) /\ m \in Msgs
        BY DEF LoopState, LoopTypes, PartsFit
    <2>2. pc \in {"end", "got"}
        OBVIOUS
    <2>. HIDE DEF pc
    <2>3. /\ worker' \in [Workers -> WorkerRec]
          /\ worker[w].pc' = pc /\ worker[w].msg' = m
          /\ worker[w].old' = worker[w].old
          /\ worker[w].cancelled' = worker[w].cancelled
          /\ \A x \in Workers \ {w} : worker[x]' = worker[x]
        BY <1>3, <2>1, <2>2 DEF WorkerRec, OtherPcs, pc
    <2>4. dev.msgs' = dev.msgs \ {m}
        BY <1>3 DEF Fields
    <2>5. LoopTypes'
        BY <1>1, <2>3, <2>4 DEF LoopState, LoopTypes
    <2>6. PartsFit'
        <3>1. WorkerFits(worker[w]')
            BY <1>1, <2>1, <2>2, <2>3 DEF WorkerFits, HandlerPcs, InterruptPcs
        <3>. QED  BY <2>3, <3>1 DEF LoopState, PartsFit
    <2>7. PlainOnce'
        BY <1>3, <2>3, <2>4 DEF LoopState, PlainOnce
    <2>8. ASSUME NEW x \in Uniques  PROVE ReqOK(x)'
        <3>1. SameUse(x)
            BY <1>1, <2>2, <2>3
               DEF SameUse, Handles, Interrupts, InFs, Signals, HandlerPcs, InterruptPcs
        <3>2. Unborn(x)' => Unborn(x)
            BY <1>3, <2>3, <2>4 DEF Unborn, Fetched
        <3>. QED  BY <1>1, <3>1, <3>2, ReqKept, SameRest DEF LoopState
    <2>. QED  BY <2>5, <2>6, <2>7, <2>8 DEF LoopState
<1>. QED  BY <1>2, <1>3 DEF fuse_kern_chan_receive

\* The read fails and the worker leaves its loop.
LEMMA ReceiveFailsOK ==
    ASSUME LoopState, Fields, NEW w \in Workers, ReceiveFails(w)
    PROVE  LoopState'
<1>1. /\ worker[w].pc = "read" /\ rq' = rq /\ ll' = ll /\ Goto(w, "end")
    BY DEF ReceiveFails, At
<1>2. dev.msgs' \subseteq dev.msgs
    BY DEF ReceiveFails, Fields
<1>. QED  BY <1>1, <1>2, QuietGoto, SameRest DEF OtherPcs

\* A worker that finds the session exited ends.
LEMMA WorkerEndsOK ==
    ASSUME LoopState, NEW w \in Workers, WorkerEnds(w)
    PROVE  LoopState'
<1>1. worker[w].pc = "end" /\ rq' = rq /\ ll' = ll /\ dev' = dev /\ Goto(w, "pause")
    BY DEF WorkerEnds, At
<1>. QED  BY <1>1, QuietGoto, SameRest DEF OtherPcs

(***************************************************************************)
(* Threads that begin and end                                              *)
(***************************************************************************)
\* The least of the free threads.
LEMMA LeastWorker ==
    ASSUME NEW T, T \subseteq Workers, T # {}
    PROVE  \E x \in T : \A y \in T : x =< y
<1>. DEFINE R == OpToRel(<, Nat)
<1>1. IsWellFoundedOn(R, Nat)
    BY NatLessThanWellFounded
<1>2. \A x, y \in Nat : y < x => <<y, x>> \in R
    BY Zenon DEF OpToRel
<1>. HIDE DEF R
<1>3. T \subseteq Nat
    BY LoopAssumption DEF Workers
<1>4. PICK x \in T : \A y \in T : ~(<<y, x>> \in R)
    BY <1>1, <1>3, WFMin
<1>5. ASSUME NEW y \in T  PROVE x =< y
    <2>1. x \in Nat /\ y \in Nat
        BY <1>3
    <2>2. ~(y < x)
        BY <1>2, <1>4, <2>1
    <2>. QED  BY <2>1, <2>2
<1>. QED  BY <1>5

\* pthread_create gives a thread that was not there, or none.
Begun(o, m) ==
    /\ o.new = 0 \/ (o.new \in Workers /\ worker[o.new].pc = "none")
    /\ {"pc", "exit"} \subseteq DOMAIN o.mt /\ o.mt.pc = m.pc /\ o.mt.exit = m.exit
    /\ o.n \in Nat
    /\ o.new = 0 => o.n = 1 \/ \A w \in Workers : worker[w].pc # "none"

\* What fuse_start_thread does to the pool.
LEMMA StartThread ==
    ASSUME NEW m, {"pc", "exit"} \subseteq DOMAIN m, NEW o \in fuse_start_thread(m)
    PROVE  Begun(o, m)
<1>. DEFINE free == {w \in Workers : At(w, "none")}
            new == CHOOSE w \in free : \A v \in free : w =< v
            started == [m EXCEPT !.list = Append(@, new), !.numavail = @ + 1,
                                 !.numworker = @ + 1]
            missed == [m EXCEPT !.failed = TRUE]
            failed == [mt |-> missed, new |-> 0, n |-> 1]
<1>1. /\ {"pc", "exit"} \subseteq DOMAIN missed
      /\ missed.pc = m.pc /\ missed.exit = m.exit
    OBVIOUS
<1>2. CASE free = {}
    <2>1. o = [failed EXCEPT !.n = 0]
        BY <1>2 DEF fuse_start_thread
    <2>. HIDE DEF missed
    <2>2. o.mt = missed /\ o.new = 0 /\ o.n = 0
        BY <2>1
    <2>. QED  BY <1>1, <1>2, <2>2 DEF Begun, At
<1>3. CASE free # {}
    <2>1. new \in free
        <3>1. \E w \in free : \A v \in free : w =< v
            BY <1>3, LeastWorker
        <3>. QED  BY <3>1
    <2>2. /\ {"pc", "exit"} \subseteq DOMAIN started
          /\ started.pc = m.pc /\ started.exit = m.exit
        OBVIOUS
    <2>3. o = failed \/ o = [mt |-> started, new |-> new, n |-> 0]
        BY <1>3 DEF fuse_start_thread
    <2>. HIDE DEF missed, started, new
    <2>4. CASE o = failed
        <3>1. o.mt = missed /\ o.new = 0 /\ o.n = 1
            BY <2>4
        <3>. QED  BY <1>1, <3>1 DEF Begun
    <2>5. CASE o = [mt |-> started, new |-> new, n |-> 0]
        <3>1. o.mt = started /\ o.new = new /\ o.n = 0
            BY <2>5
        <3>2. new \in Workers /\ worker[new].pc = "none" /\ new # 0
            BY <2>1, LoopAssumption DEF At, Workers
        <3>. QED  BY <2>2, <3>1, <3>2 DEF Begun
    <2>. QED  BY <2>3, <2>4, <2>5
<1>. QED  BY <1>2, <1>3

\* A thread at the top of its loop.
LEMMA AtTop ==
    /\ fuse_do_work \in WorkerRec /\ WorkerFits(fuse_do_work)
    /\ fuse_do_work.pc \in {"end", "read"} /\ fuse_do_work.msg = NoMsg
    /\ NoWorker \in WorkerRec /\ WorkerFits(NoWorker)
    /\ NoWorker.pc = "none" /\ NoWorker.msg = NoMsg
<1>1. /\ NoWorker \in WorkerRec /\ WorkerFits(NoWorker)
      /\ NoWorker.pc = "none" /\ NoWorker.msg = NoMsg
    BY DEF NoWorker, WorkerRec, WorkerFits, OtherPcs, HandlerPcs, InterruptPcs
<1>. DEFINE pc == IF se.exited THEN "end" ELSE "read"
<1>2. pc \in {"end", "read"}
    OBVIOUS
<1>3. fuse_do_work = [NoWorker EXCEPT !.pc = pc]
    BY DEF fuse_do_work
<1>. HIDE DEF pc
<1>4. fuse_do_work = [pc |-> pc, msg |-> NoMsg, old |-> 0, cancelled |-> FALSE]
    BY <1>3 DEF NoWorker
<1>5. /\ fuse_do_work \in WorkerRec /\ WorkerFits(fuse_do_work)
      /\ fuse_do_work.pc \in {"end", "read"} /\ fuse_do_work.msg = NoMsg
    BY <1>2, <1>4 DEF WorkerRec, WorkerFits, OtherPcs, HandlerPcs, InterruptPcs
<1>. QED  BY <1>1, <1>5

\* numavail goes down and the worker may start another.
LEMMA GotMessageOK ==
    ASSUME LoopState, Fields, NEW w \in Workers, GotMessage(w)
    PROVE  LoopState'
<1>1. worker[w].pc = "got" /\ dev' = dev /\ rq' = rq /\ ll' = ll
    BY DEF GotMessage, At
<1>2. CASE Goto(w, "dead")
    BY <1>1, <1>2, QuietGoto, SameRest DEF OtherPcs
<1>3. ASSUME NEW o, o.new = 0 \/ (o.new \in Workers /\ worker[o.new].pc = "none"),
             worker' = [v \in Workers |->
                       IF v = o.new THEN fuse_do_work
                       ELSE IF v = w THEN [worker[w] EXCEPT !.pc = "process"]
                       ELSE worker[v]]
      PROVE  LoopState'
    <2>. DEFINE b == [worker[w] EXCEPT !.pc = "process"]
    <2>1. worker \in [Workers -> WorkerRec] /\ \A v \in Workers : WorkerFits(worker[v])
        BY DEF LoopState, LoopTypes, PartsFit
    <2>2. b \in WorkerRec /\ b.pc = "process" /\ b.msg = worker[w].msg
            /\ b.old = worker[w].old /\ b.cancelled = worker[w].cancelled
        BY <2>1 DEF WorkerRec, OtherPcs
    <2>3. WorkerFits(b)
        BY <1>1, <2>1, <2>2 DEF WorkerFits, HandlerPcs, InterruptPcs
    <2>4. \A v \in Workers : \/ v = o.new /\ worker[v]' = fuse_do_work
                             \/ v # o.new /\ v = w /\ worker[v]' = b
                             \/ v # o.new /\ v # w /\ worker[v]' = worker[v]
        BY <1>3
    <2>. HIDE DEF b
    <2>5. worker' \in [Workers -> WorkerRec]
        BY <1>3, <2>1, <2>2, <2>4, AtTop DEF b
    <2>6. \A v \in Workers : /\ WorkerFits(worker[v]')
                             /\ worker[v].msg' \in {worker[v].msg, NoMsg}
        BY <2>1, <2>2, <2>3, <2>4, AtTop
    <2>7. \A v \in Workers : \/ worker[v]' = worker[v]
                             \/ /\ worker[v].pc \in OtherPcs
                                /\ worker[v].pc' \in OtherPcs
                                /\ worker[v].pc' \in {"got", "process"} =>
                                       worker[v].pc \in {"got", "process"}
        <3>. SUFFICES ASSUME NEW v \in Workers, worker[v]' # worker[v]
                     PROVE  /\ worker[v].pc \in OtherPcs
                            /\ worker[v].pc' \in OtherPcs
                            /\ worker[v].pc' \in {"got", "process"} =>
                                   worker[v].pc \in {"got", "process"}
            OBVIOUS
        <3>1. CASE v = o.new
            <4>1. /\ worker[v].pc = "none" /\ worker[v].pc' \in {"end", "read"}
                BY <1>3, <2>4, <3>1, LoopAssumption, AtTop DEF Workers
            <4>. QED  BY <4>1 DEF OtherPcs
        <3>2. CASE v # o.new
            <4>1. worker[v].pc = "got" /\ worker[v].pc' = "process"
                BY <1>1, <2>2, <2>4, <3>2
            <4>. QED  BY <4>1 DEF OtherPcs
        <3>. QED  BY <3>1, <3>2
    <2>. QED  BY <1>1, <2>5, <2>6, <2>7, QuietStep, SameRest
<1>4. ASSUME NEW m, {"pc", "exit"} \subseteq DOMAIN m, NEW o \in Started(m)
      PROVE  o.new = 0 \/ (o.new \in Workers /\ worker[o.new].pc = "none")
    BY <1>4, StartThread DEF Started, Begun
<1>5. {"pc", "exit"} \subseteq DOMAIN (IF Forgets(w) THEN mt
                              ELSE [mt EXCEPT !.numavail = mt.numavail - 1])
    BY DEF Fields
<1>. QED  BY <1>2, <1>3, <1>4, <1>5 DEF GotMessage

\* Thread w drops its message and begins again or ends.
LEMMA DropsMessage ==
    ASSUME LoopState, NEW w \in Workers, NEW b \in WorkerRec, WorkerFits(b),
           b.pc \in {"none", "end", "read"}, b.msg = NoMsg,
           worker[w].pc \in OtherPcs, worker' = [worker EXCEPT ![w] = b],
           dev' = dev, rq' = rq, ll' = ll
    PROVE  LoopState'
<1>1. worker \in [Workers -> WorkerRec] /\ \A v \in Workers : WorkerFits(worker[v])
    BY DEF LoopState, LoopTypes, PartsFit
<1>2. /\ worker' \in [Workers -> WorkerRec] /\ worker[w]' = b
      /\ \A v \in Workers \ {w} : worker[v]' = worker[v]
    BY <1>1
<1>3. \A v \in Workers : /\ WorkerFits(worker[v]')
                         /\ worker[v].msg' \in {worker[v].msg, NoMsg}
    BY <1>1, <1>2
<1>4. \A v \in Workers : \/ worker[v]' = worker[v]
                         \/ /\ worker[v].pc \in OtherPcs
                            /\ worker[v].pc' \in OtherPcs
                            /\ worker[v].pc' \in {"got", "process"} =>
                                   worker[v].pc \in {"got", "process"}
    BY <1>2 DEF OtherPcs
<1>. QED  BY <1>2, <1>3, <1>4, QuietStep, SameRest

\* numavail goes up again; a worker too many ends.
LEMMA CountedOK ==
    ASSUME LoopState, NEW w \in Workers, Counted(w)
    PROVE  LoopState'
<1>1. worker[w].pc = "count" /\ dev' = dev /\ rq' = rq /\ ll' = ll
    BY DEF Counted, At
<1>2. CASE worker' = [worker EXCEPT ![w] = [fuse_do_work EXCEPT
                                               !.cancelled = worker[w].cancelled]]
    <2>1. fuse_do_work \in WorkerRec /\ worker[w].cancelled = FALSE
            /\ fuse_do_work.cancelled = FALSE
        BY AtTop DEF LoopState, PartsFit, WorkerFits
    <2>2. [fuse_do_work EXCEPT !.cancelled = worker[w].cancelled] = fuse_do_work
        BY <2>1 DEF WorkerRec
    <2>. QED  BY <1>1, <1>2, <2>2, AtTop, DropsMessage DEF OtherPcs
<1>3. CASE Goto(w, "dead")
    BY <1>1, <1>3, QuietGoto, SameRest DEF OtherPcs
<1>4. CASE worker' = [worker EXCEPT ![w] = NoWorker]
    BY <1>1, <1>4, AtTop, DropsMessage DEF OtherPcs
<1>. QED  BY <1>2, <1>3, <1>4 DEF Counted

\* A step that leaves threads, requests and messages alone.
LEMMA StutterOK ==
    ASSUME LoopState, worker' = worker, rq' = rq, ll' = ll, dev.msgs' = dev.msgs
    PROVE  LoopState'
<1>1. /\ worker' \in [Workers -> WorkerRec]
      /\ \A v \in Workers : /\ WorkerFits(worker[v]') /\ worker[v]' = worker[v]
                            /\ worker[v].msg' \in {worker[v].msg, NoMsg}
    BY DEF LoopState, LoopTypes, PartsFit
<1>. QED  BY <1>1, QuietStep, SameRest

\* The kernel queues an interrupt for a request it has sent.
LEMMA SendInterruptOK ==
    ASSUME LoopState, Fields, NEW u \in Uniques, SendInterrupt(u)
    PROVE  LoopState'
<1>1. /\ worker' = worker /\ ll' = ll
      /\ rq' = [rq EXCEPT ![u] = [rq[u] EXCEPT !.intr = TRUE]]
      /\ dev' = [dev EXCEPT !.msgs = dev.msgs \cup {Intr(u)}]
    BY DEF SendInterrupt, OnlyDev, Intr
<1>2. dev.msgs' = dev.msgs \cup {Intr(u)}
    BY <1>1 DEF Fields
<1>3. NoNewPlain
    BY <1>2, AddedInterrupt
<1>4. rq' \in [Uniques -> ReqRec] /\ \A x \in Uniques : SameBooks(rq[x]', rq[x])
    <2>. DEFINE s == [rq[u] EXCEPT !.intr = TRUE]
    <2>1. s \in ReqRec /\ SameBooks(s, rq[u])
        <3>1. rq[u] \in ReqRec
            BY SameRest
        <3>. QED  BY <3>1 DEF ReqRec, SameBooks
    <2>. HIDE DEF s
    <2>2. rq' = [rq EXCEPT ![u] = s]
        BY <1>1 DEF s
    <2>. QED  BY <2>1, <2>2, ReqReplaced DEF SameBooks
<1>5. /\ worker' \in [Workers -> WorkerRec]
      /\ \A v \in Workers : /\ WorkerFits(worker[v]')
                            /\ worker[v].msg' \in {worker[v].msg, NoMsg}
    BY <1>1 DEF LoopState, LoopTypes, PartsFit
<1>. QED  BY <1>1, <1>3, <1>4, <1>5, QuietStep, SameRest

\* The first thread.
LEMMA StartFirstOK ==
    ASSUME LoopState, Fields, StartFirst
    PROVE  LoopState'
<1>1. PICK o \in fuse_start_thread(mt) :
            worker' = [v \in Workers |-> IF v = o.new THEN fuse_do_work ELSE worker[v]]
    BY DEF StartFirst
<1>2. dev' = dev /\ rq' = rq /\ ll' = ll
    BY DEF StartFirst, OnlyMain
<1>3. o.new = 0 \/ (o.new \in Workers /\ worker[o.new].pc = "none")
    BY StartThread DEF Fields, Begun
<1>4. worker \in [Workers -> WorkerRec]
    BY DEF LoopState, LoopTypes
<1>5. CASE o.new \in Workers /\ worker[o.new].pc = "none"
    <2>1. worker' = [worker EXCEPT ![o.new] = fuse_do_work]
        BY <1>1, <1>4
    <2>. QED  BY <1>2, <1>5, <2>1, AtTop, DropsMessage DEF OtherPcs
<1>6. CASE o.new = 0
    <2>1. 0 \notin Workers
        BY LoopAssumption DEF Workers
    <2>2. worker' = worker
        BY <1>1, <1>4, <1>6, <2>1
    <2>. QED  BY <1>2, <2>2, StutterOK
<1>. QED  BY <1>3, <1>5, <1>6

(***************************************************************************)
(* The invariant                                                           *)
(***************************************************************************)
\* The steps of a thread keep the parts, users and books.
LEMMA WorkerStepOK ==
    ASSUME LoopState, Fields, NEW w \in Workers,
           \/ WorkerStep(w) \/ fuse_kern_chan_receive(w)
           \/ ReceiveFails(w) \/ FsEnds(w)
    PROVE  LoopState'
<1>1. ~Cancelled(w)
    BY DEF LoopState, PartsFit, WorkerFits, Cancelled
<1>. QED  BY <1>1, GotMessageOK, fuse_ll_processOK, ReplyAgainOK, EnterFsOK,
             fuse_do_finish_interruptOK, send_reply_iovOK, free_reqOK,
             find_interruptedOK, fuse_interruptOK, PutInterruptedOK, CountedOK,
             WorkerEndsOK, ReceiveOK, ReceiveFailsOK, FsEndsOK DEF WorkerStep

\* Once the loop has begun to end, it does not begin again; and the records
\* keep their fields.
LEMMA FieldsOK ==
    ASSUME Fields, Next
    PROVE  Fields' /\ (Early' => Early)
<1>. DEFINE G == Fields' /\ (Early' => Early)
<1>1. ASSUME mt' = mt, {"msgs", "mounted", "signalled"} \subseteq DOMAIN dev'  PROVE G
    BY <1>1 DEF Fields, Early
<1>2. ASSUME dev' = dev, {"pc", "exit"} \subseteq DOMAIN mt', mt'.pc = mt.pc  PROVE G
    BY <1>2 DEF Fields, Early
<1>3. ASSUME NEW u \in Uniques, SendInterrupt(u)  PROVE G
    BY <1>1, <1>3 DEF SendInterrupt, OnlyDev, Fields
<1>4. ASSUME NEW w \in Workers, WorkerStep(w)  PROVE G
    <2>1. CASE GotMessage(w)
        <3>1. CASE mt' = mt
            BY <1>1, <2>1, <3>1 DEF GotMessage, Fields
        <3>2. CASE mt' # mt
            <4>. DEFINE m == IF Forgets(w) THEN mt
                             ELSE [mt EXCEPT !.numavail = mt.numavail - 1]
            <4>1. {"pc", "exit"} \subseteq DOMAIN m /\ m.pc = mt.pc
                BY DEF Fields
            <4>2. PICK o \in Started(m) : mt' = o.mt
                BY <2>1, <3>2 DEF GotMessage
            <4>. HIDE DEF m
            <4>3. {"pc", "exit"} \subseteq DOMAIN o.mt /\ o.mt.pc = m.pc
                BY <4>1, StartThread DEF Started, Begun
            <4>. QED  BY <1>2, <2>1, <4>1, <4>2, <4>3 DEF GotMessage
        <3>. QED  BY <3>1, <3>2
    <2>2. CASE fuse_ll_process(w)
        BY <1>1, <2>2 DEF fuse_ll_process, Fields
    <2>3. CASE ReplyAgain(w)
        BY <1>1, <2>3 DEF ReplyAgain, Fields
    <2>4. CASE EnterFs(w) \/ fuse_do_finish_interrupt(w) \/ free_req(w)
        BY <1>1, <2>4 DEF EnterFs, fuse_do_finish_interrupt, free_req, Fields
    <2>5. CASE send_reply_iov(w)
        BY <1>1, <2>5 DEF send_reply_iov, Fields
    <2>6. CASE find_interrupted(w) \/ fuse_interrupt(w) \/ PutInterrupted(w)
        BY <1>1, <2>6 DEF find_interrupted, fuse_interrupt, PutInterrupted, OnlyReq, Fields
    <2>7. CASE Counted(w)
        BY <1>2, <2>7 DEF Counted, Fields
    <2>8. CASE WorkerEnds(w)
        BY <1>2, <2>8 DEF WorkerEnds, Fields
    <2>9. CASE Cancelled(w)
        BY <1>1, <2>9 DEF Cancelled, Fields
    <2>. QED  BY <1>4, <2>1, <2>2, <2>3, <2>4, <2>5, <2>6, <2>7, <2>8, <2>9 DEF WorkerStep
<1>5. ASSUME NEW w \in Workers,
             fuse_kern_chan_receive(w) \/ ReceiveFails(w) \/ FsEnds(w)
      PROVE  G
    <2>1. CASE fuse_kern_chan_receive(w)
        BY <1>1, <2>1 DEF fuse_kern_chan_receive, Fields
    <2>2. CASE ReceiveFails(w)
        <3>1. CASE mt' = mt
            BY <1>1, <2>2, <3>1 DEF ReceiveFails, Fields
        <3>2. CASE mt' # mt
            BY <1>2, <2>2, <3>2 DEF ReceiveFails, Fields
        <3>. QED  BY <3>1, <3>2
    <2>3. CASE FsEnds(w)
        BY <1>1, <2>3 DEF FsEnds, Fields
    <2>. QED  BY <1>5, <2>1, <2>2, <2>3
<1>6. CASE StartFirst
    <2>1. PICK o \in fuse_start_thread(mt) :
              mt' = [o.mt EXCEPT !.pc = IF o.new = 0 THEN "done" ELSE "wait"]
        BY <1>6 DEF StartFirst
    <2>2. {"pc", "exit"} \subseteq DOMAIN o.mt
        BY StartThread DEF Fields, Begun
    <2>3. dev' = dev /\ mt.pc = "start" /\ {"pc", "exit"} \subseteq DOMAIN mt'
        BY <1>6, <2>1, <2>2 DEF StartFirst, OnlyMain, MainAt
    <2>. QED  BY <2>3 DEF Fields, Early
<1>7. CASE WaitFinish
    <2>1. dev' = dev /\ mt.pc \in {"wait", "asleep", "woken"}
        BY <1>7 DEF WaitFinish, OnlyMain, MainAt
    <2>2. {"pc", "exit"} \subseteq DOMAIN mt'
        BY <1>7 DEF WaitFinish, Tested, Fields
    <2>. QED  BY <2>1, <2>2 DEF Fields, Early
<1>8. CASE exit_handler
    <2>1. dev' = dev /\ mt.pc \in {"wait", "asleep", "woken"}
        BY <1>8 DEF exit_handler, OnlyMain, MainAt
    <2>2. {"pc", "exit"} \subseteq DOMAIN mt'
        BY <1>8 DEF exit_handler, Fields
    <2>. QED  BY <2>1, <2>2 DEF Fields, Early
<1>9. CASE CancelWorkers
    <2>1. /\ dev' = dev /\ mt.pc = "walk" /\ {"pc", "exit"} \subseteq DOMAIN mt'
          /\ mt'.pc \in {"walk", "join"}
        BY <1>9 DEF CancelWorkers, OnlyMain, MainAt, Fields
    <2>. QED  BY <2>1 DEF Fields, Early
<1>10. CASE fuse_join_worker
    <2>1. /\ dev' = dev /\ mt.pc = "join" /\ {"pc", "exit"} \subseteq DOMAIN mt'
          /\ mt'.pc \in {"join", "done"}
        BY <1>10 DEF fuse_join_worker, OnlyMain, MainAt, Fields
    <2>. QED  BY <2>1 DEF Fields, Early
<1>. QED  BY <1>3, <1>4, <1>5, <1>6, <1>7, <1>8, <1>9, <1>10 DEF Next, MainStep

\* A request that the kernel has sent.
LEMMA SentFields ==
    ASSUME NEW r \in ReqRec, NEW k \in {"read", "write", "forget"}
    PROVE  LET s == [r EXCEPT !.kernel = "sent", !.kind = k]
           IN  /\ s \in ReqRec /\ s.ctr = r.ctr /\ s.live = r.live /\ s.kind = k
               /\ s.listed = r.listed /\ s.func = r.func /\ s.intr = r.intr
               /\ s.interrupted = r.interrupted
BY DEF ReqRec

\* The messages that the kernel begins with.
LEMMA PlainMsgs ==
    ASSUME NEW S, NEW m \in [u : S, intr : {FALSE}]
    PROVE  m = Plain(m.u) /\ m.u \in S
<1>1. m.u \in S /\ m.intr = FALSE
    OBVIOUS
<1>2. m = [u |-> m.u, intr |-> m.intr]
    OBVIOUS
<1>. QED  BY <1>1, <1>2 DEF Plain

\* The invariant holds when fuse_session_loop_mt starts.
LEMMA LoopInit ==
    ASSUME Init
    PROVE  LoopInv
<1>1. /\ worker = [w \in Workers |-> NoWorker] /\ ll = <<>>
      /\ {"pc", "exit"} \subseteq DOMAIN mt
    BY DEF Init
<1>2. PICK l \in Loads :
          /\ rq = [u \in Uniques |-> IF u \notin DOMAIN l.kinds THEN NoReq
                      ELSE [NoReq EXCEPT !.kernel = "sent", !.kind = l.kinds[u]]]
          /\ dev = [msgs |-> [u : DOMAIN l.kinds, intr : {FALSE}],
                    mounted |-> TRUE, signalled |-> l.signalled]
    BY DEF Init
<1>3. Fields
    BY <1>1, <1>2 DEF Fields
<1>4. \A w \in Workers : worker[w] = NoWorker
    BY <1>1
<1>5. ASSUME NEW u \in Uniques
      PROVE  /\ rq[u] \in ReqRec /\ rq[u].ctr = 0 /\ rq[u].live = FALSE
             /\ rq[u].listed = FALSE /\ rq[u].func = FALSE
    <2>1. CASE u \notin DOMAIN l.kinds
        <3>1. rq[u] = NoReq
            BY <1>2, <2>1
        <3>. QED  BY <3>1 DEF NoReq, ReqRec
    <2>2. CASE u \in DOMAIN l.kinds
        <3>1. l.kinds[u] \in {"read", "write", "forget"}
            BY <2>2, LoopAssumption
        <3>2. rq[u] = [NoReq EXCEPT !.kernel = "sent", !.kind = l.kinds[u]]
            BY <1>2, <2>2
        <3>3. /\ NoReq \in ReqRec /\ NoReq.ctr = 0 /\ NoReq.live = FALSE
              /\ NoReq.listed = FALSE /\ NoReq.func = FALSE
            BY DEF NoReq, ReqRec
        <3>. DEFINE s == [NoReq EXCEPT !.kernel = "sent", !.kind = l.kinds[u]]
        <3>4. /\ s \in ReqRec /\ s.ctr = NoReq.ctr /\ s.live = NoReq.live
              /\ s.listed = NoReq.listed /\ s.func = NoReq.func
            BY <3>1, <3>3, SentFields
        <3>5. rq[u] = s
            BY <3>2
        <3>. HIDE DEF s
        <3>. QED  BY <3>3, <3>4, <3>5
    <2>. QED  BY <2>1, <2>2
<1>6. LoopTypes
    <2>1. worker \in [Workers -> WorkerRec]
        BY <1>1, AtTop
    <2>2. rq \in [Uniques -> ReqRec]
        BY <1>2, <1>5
    <2>3. dev.msgs \subseteq Msgs
        <3>1. DOMAIN l.kinds \subseteq Uniques
            BY DEF Uniques
        <3>2. dev.msgs = [u : DOMAIN l.kinds, intr : {FALSE}]
            BY <1>2
        <3>3. \A m \in dev.msgs : m = Plain(m.u) /\ m.u \in Uniques
            BY <3>1, <3>2, PlainMsgs
        <3>. QED  BY <3>3 DEF Msgs
    <2>. QED  BY <1>1, <2>1, <2>2, <2>3 DEF LoopTypes
<1>7. PartsFit
    BY <1>4, AtTop DEF PartsFit
<1>8. PlainOnce
    BY <1>4, AtTop, MsgFacts DEF PlainOnce
<1>9. ASSUME NEW u \in Uniques  PROVE ReqOK(u)
    <2>1. \A w \in Workers : ~Using(w, u) /\ ~Signals(w, u)
        BY <1>4, <1>9, AtTop, MsgFacts DEF Using, Handles, Interrupts, Signals
    <2>2. Cardinality(Users(u)) = 0
        <3>1. Users(u) = {}
            BY <2>1 DEF Users
        <3>. QED  BY <3>1, FS_EmptySet
    <2>3. rq[u].ctr = 0 /\ ~rq[u].live /\ ~rq[u].listed /\ ~rq[u].func
        BY <1>5
    <2>. QED  BY <2>1, <2>2, <2>3 DEF ReqOK
<1>. QED  BY <1>3, <1>6, <1>7, <1>8, <1>9 DEF LoopInv, LoopState

\* Every step of Next keeps it; once the workers are cancelled it asks
\* nothing.
LEMMA LoopNext ==
    ASSUME LoopInv, [Next]_vars
    PROVE  LoopInv'
<1>1. CASE UNCHANGED vars
    <2>1. Fields' /\ (Early' => Early)
        BY <1>1 DEF vars, LoopInv, Fields, Early
    <2>2. ASSUME LoopState  PROVE LoopState'
        BY <1>1, <2>2, StutterOK DEF vars
    <2>. QED  BY <2>1, <2>2 DEF LoopInv
<1>2. CASE Next
    <2>1. Fields' /\ (Early' => Early)
        BY <1>2, FieldsOK DEF LoopInv
    <2>2. ASSUME LoopState, Early'  PROVE LoopState'
        <3>1. ASSUME NEW u \in Uniques, SendInterrupt(u)  PROVE LoopState'
            BY <2>2, <3>1, SendInterruptOK DEF LoopInv
        <3>2. ASSUME NEW w \in Workers,
                     \/ WorkerStep(w) \/ fuse_kern_chan_receive(w)
                     \/ ReceiveFails(w) \/ FsEnds(w)
              PROVE  LoopState'
            BY <2>2, <3>2, WorkerStepOK DEF LoopInv
        <3>3. CASE StartFirst
            BY <2>2, <3>3, StartFirstOK DEF LoopInv
        <3>4. CASE WaitFinish \/ exit_handler
            BY <2>2, <3>4, StutterOK DEF WaitFinish, exit_handler, OnlyMain
        <3>5. CASE CancelWorkers \/ fuse_join_worker
            <4>1. mt.pc \in {"walk", "join"}
                BY <3>5 DEF CancelWorkers, fuse_join_worker, MainAt
            <4>. QED  BY <2>1, <2>2, <4>1 DEF Early
        <3>. QED  BY <1>2, <3>1, <3>2, <3>3, <3>4, <3>5 DEF Next, MainStep
    <2>. QED  BY <2>1, <2>2 DEF LoopInv
<1>. QED  BY <1>1, <1>2

\* The users of a request are its handlers and the threads that interrupt it.
LEMMA UsersSplit ==
    ASSUME NEW u
    PROVE  Cardinality(Users(u)) = Cardinality({w \in Workers : Handling(w, u)})
                                   + Cardinality({w \in Workers : Interrupting(w, u)})
<1>. DEFINE H == {w \in Workers : Handling(w, u)}
            I == {w \in Workers : Interrupting(w, u)}
<1>1. Users(u) = H \cup I
    BY DEF Users, Using, Handles, Interrupts, Handling, Interrupting, Plain, Intr,
           HandlerPcs, InterruptPcs
<1>2. H \cap I = {}
    BY DEF Handling, Interrupting
<1>3. IsFiniteSet(H) /\ IsFiniteSet(I)
    <2>1. IsFiniteSet(Users(u))
        BY UsersFinite
    <2>. QED  BY ONLY <1>1, <2>1, FS_Subset
<1>. HIDE DEF H, I
<1>4. Cardinality(H \cup I) = Cardinality(H) + Cardinality(I) - Cardinality(H \cap I)
    BY ONLY <1>3, FS_Union
<1>5. Cardinality(H \cap I) = 0 /\ Cardinality(H) \in Nat /\ Cardinality(I) \in Nat
    BY <1>2, <1>3, FS_EmptySet, FS_CardinalityType
<1>6. Cardinality(Users(u)) = Cardinality(H) + Cardinality(I)
    BY <1>1, <1>4, <1>5
<1>. QED  BY <1>6 DEF H, I

\* The inductive invariant implies what the run checks.
LEMMA LoopInvSuffices == LoopInv => RequestsUsed
<1>. SUFFICES ASSUME LoopInv, Early, NEW u \in Uniques
              PROVE  /\ rq[u].ctr = Cardinality({w \in Workers : Handling(w, u)})
                           + Cardinality({w \in Workers : Interrupting(w, u)})
                     /\ rq[u].live <=> rq[u].ctr > 0
                     /\ \A w \in Workers : Interrupting(w, u) /\ At(w, "signal") =>
                          \E h \in Workers : /\ Handling(h, u)
                                             /\ worker[h].pc \in {"fs", "finish", "clear"}
    BY DEF RequestsUsed, Early
<1>1. ReqOK(u)
    BY DEF LoopInv, LoopState
<1>2. rq[u].ctr = Cardinality({w \in Workers : Handling(w, u)})
                           + Cardinality({w \in Workers : Interrupting(w, u)})
    BY <1>1, UsersSplit DEF ReqOK
<1>3. ASSUME NEW w \in Workers, Interrupting(w, u), At(w, "signal")
      PROVE  \E h \in Workers : /\ Handling(h, u)
                                /\ worker[h].pc \in {"fs", "finish", "clear"}
    <2>1. Signals(w, u)
        BY <1>3 DEF Signals, Interrupting, At, Intr
    <2>2. PICK h \in Workers : InFs(h, u)
        BY <1>1, <2>1 DEF ReqOK
    <2>. QED  BY <2>2 DEF InFs, Handling, Plain
<1>. QED  BY <1>1, <1>2, <1>3 DEF ReqOK

\* Until threads are cancelled, a request is destroyed when its handler and the
\* last thread that interrupts it are done with it, and a thread is signalled
\* only while it is in the operation that was interrupted, whatever the number
\* of threads, requests and faults (free_req, find_interrupted).
THEOREM RequestsUsedRight == Spec => []RequestsUsed
<1>1. Init => LoopInv
    BY LoopInit
<1>2. LoopInv /\ [Next]_vars => LoopInv'
    BY LoopNext
<1>3. LoopInv => RequestsUsed
    BY LoopInvSuffices
<1>. QED  BY <1>1, <1>2, <1>3, PTL DEF Spec

(***************************************************************************)
(* The inductive invariant of the interrupts                               *)
(***************************************************************************)
Going == dev.mounted /\ ~se.exited /\ ~mt.exit /\ faults = 0

\* The stages of the loop, as far as Going depends on them.
StagesFit ==
    /\ mt.pc \in {"start", "wait", "asleep", "woken", "walk", "join", "done"}
    /\ mt.pc = "start" => \A w \in Workers : worker[w].pc = "none"
    /\ mt.pc = "walk" => se.exited
    /\ mt.pc = "join" => mt.exit
    /\ mt.pc = "done" => mt.exit \/ faults > 0
    /\ faults \in Nat

\* Nobody waits for the answer any more.
Settled(u) == rq[u].kernel # "sent" \/ rq[u].kind = "forget"
Frees(w, u) == worker[w].msg = Plain(u) /\ worker[w].pc = "free"

\* Where the INTERRUPT is.
Carries(w, u) ==
    \/ worker[w].old = u
    \/ worker[w].msg = Intr(u) /\ worker[w].pc \in {"got", "process", "ilock"}
OnItsWay(u) == \/ Intr(u) \in dev.msgs \/ InSeq(ll, u) \/ rq[u].interrupted
               \/ \E w \in Workers : Carries(w, u)

\* The operation runs, was interrupted, and does not know it yet.
Untold(r) == r.interrupted /\ r.func /\ ~r.finished /\ ~r.told

KeptOK(u) ==
    /\ u \in dev.signalled => rq[u].kind # "forget"
    /\ rq[u].intr => rq[u].kind # "forget"
    /\ rq[u].interrupted => rq[u].ctr > 0
    /\ \A w \in Workers : Frees(w, u) => Settled(u)
    /\ \A w \in Workers : Using(w, u) => Settled(u) \/ \E h \in Workers : Handles(h, u)
    /\ rq[u].kernel = "sent" /\ rq[u].intr => OnItsWay(u)
    /\ Untold(rq[u]) => \E w \in Workers : Signals(w, u)

KeptInv == StagesFit /\ (Going => \A u \in Uniques : KeptOK(u))

\* A step adds nothing to the story of u that would have to be looked at.
StoryStays(u) ==
    /\ dev.signalled' = dev.signalled
    /\ rq[u].kind' = rq[u].kind /\ rq[u].intr' = rq[u].intr
    /\ rq[u].kernel' = "sent" => rq[u].kernel = "sent"
    /\ rq[u].interrupted' => rq[u].ctr' > 0
    /\ \A v \in Workers : /\ Using(v, u)' => Using(v, u)
                          /\ Handles(v, u) => Handles(v, u)'
                          /\ Frees(v, u)' => Frees(v, u) \/ Settled(u)'
    /\ rq[u].kernel' = "sent" /\ OnItsWay(u) => OnItsWay(u)'
    /\ Untold(rq[u]') => /\ Untold(rq[u])
                         /\ \A v \in Workers : Signals(v, u) => Signals(v, u)'

\* What keeps the story of one interrupt: its request's fields and its
\* carriers stay.
LEMMA KeptStep ==
    ASSUME NEW u \in Uniques, KeptOK(u), StoryStays(u)
    PROVE  KeptOK(u)'
<1>1. Settled(u) => Settled(u)'
    BY DEF StoryStays, Settled
<1>2. /\ u \in dev.signalled' => rq[u].kind' # "forget"
      /\ rq[u].intr' => rq[u].kind' # "forget"
      /\ rq[u].interrupted' => rq[u].ctr' > 0
    BY DEF StoryStays, KeptOK
<1>3. \A w \in Workers : Frees(w, u)' => Settled(u)'
    BY <1>1 DEF StoryStays, KeptOK
<1>4. \A w \in Workers : Using(w, u)' => Settled(u)' \/ \E h \in Workers : Handles(h, u)'
    BY <1>1 DEF StoryStays, KeptOK
<1>5. rq[u].kernel' = "sent" /\ rq[u].intr' => OnItsWay(u)'
    BY DEF StoryStays, KeptOK
<1>6. Untold(rq[u]') => \E w \in Workers : Signals(w, u)'
    BY DEF StoryStays, KeptOK
<1>. QED  BY <1>2, <1>3, <1>4, <1>5, <1>6 DEF KeptOK

\* Nobody changes his part in u, its record stays, and its INTERRUPT is not
\* lost.
LEMMA KeptQuiet ==
    ASSUME LoopState, NEW u \in Uniques, KeptOK(u), dev.signalled' = dev.signalled,
           rq[u]' = rq[u], SameUse(u),
           \A v \in Workers : Frees(v, u)' => Frees(v, u) \/ Settled(u),
           OnItsWay(u) => OnItsWay(u)' \/ rq[u].kernel # "sent"
    PROVE  KeptOK(u)'
<1>1. \A v \in Workers : /\ Using(v, u)' <=> Using(v, u)
                         /\ Handles(v, u)' <=> Handles(v, u)
                         /\ Signals(v, u)' <=> Signals(v, u)
    BY DEF SameUse, Using
<1>2. Settled(u)' <=> Settled(u)
    BY DEF Settled
<1>3. StoryStays(u)
    BY <1>1, <1>2 DEF StoryStays, KeptOK
<1>. QED  BY <1>3, KeptStep

\* Thread w acts for u: what becomes of the INTERRUPTs of the others.
OthersKept(w, u) ==
    /\ dev.signalled' = dev.signalled
    /\ \A x \in Uniques \ {u} :
          /\ Intr(x) \in dev.msgs => Intr(x) \in dev.msgs'
          /\ InSeq(ll, x) \/ worker[w].old = x =>
                \/ InSeq(ll', x) \/ worker[w].old' = x \/ Intr(x) \in dev.msgs'
                \/ rq[x].kernel # "sent"

\* Only w goes on, with the message of u, and only the record of u changes.
Alone(w, u) ==
    /\ worker[w].msg \in {Plain(u), Intr(u)} /\ worker[w].msg' = worker[w].msg
    /\ \A v \in Workers \ {w} : worker[v]' = worker[v]
    /\ \A x \in Uniques \ {u} : rq[x]' = rq[x]

\* The same for all requests, when one worker acts for one of them.
LEMMA KeptOne ==
    ASSUME LoopState, \A x \in Uniques : KeptOK(x),
           NEW w \in Workers, NEW u \in Uniques, Alone(w, u),
           OthersKept(w, u), KeptOK(u)'
    PROVE  \A x \in Uniques : KeptOK(x)'
<1>. SUFFICES ASSUME NEW x \in Uniques, x # u  PROVE KeptOK(x)'
    OBVIOUS
<1>1. /\ worker[w].msg \notin {Plain(x), Intr(x)} /\ worker[w].msg' = worker[w].msg
      /\ \A v \in Workers \ {w} : worker[v]' = worker[v]
      /\ rq[x]' = rq[x]
    BY MsgFacts DEF Alone
<1>2. SameUse(x)
    BY <1>1 DEF SameUse, Handles, Interrupts, InFs, Signals
<1>3. \A v \in Workers : Frees(v, x)' => Frees(v, x)
    BY <1>1 DEF Frees
<1>4. OnItsWay(x) => OnItsWay(x)' \/ rq[x].kernel # "sent"
    <2>1. \A v \in Workers : Carries(v, x) => Carries(v, x)' \/ v = w
        BY <1>1 DEF Carries
    <2>2. Carries(w, x) => worker[w].old = x
        BY <1>1 DEF Carries
    <2>3. worker[w].old' = x => Carries(w, x)'
        BY DEF Carries
    <2>. QED  BY <1>1, <2>1, <2>2, <2>3 DEF OnItsWay, OthersKept
<1>. QED  BY <1>1, <1>2, <1>3, <1>4, KeptQuiet DEF OthersKept

\* Goto, for the one request.
LEMMA AloneGoto ==
    ASSUME LoopState, NEW w \in Workers, NEW u \in Uniques,
           NEW pc \in HandlerPcs \cup InterruptPcs \cup OtherPcs,
           worker[w].msg \in {Plain(u), Intr(u)}, Goto(w, pc),
           \A x \in Uniques \ {u} : rq[x]' = rq[x]
    PROVE  /\ Alone(w, u)
           /\ worker[w].pc' = pc /\ worker[w].old' = worker[w].old
<1>1. worker \in [Workers -> WorkerRec]
    BY DEF LoopState, LoopTypes
<1>2. /\ worker[w].pc' = pc /\ worker[w].msg' = worker[w].msg
      /\ worker[w].old' = worker[w].old
      /\ \A v \in Workers \ {w} : worker[v]' = worker[v]
    BY <1>1, GotoFields
<1>. QED  BY <1>2 DEF Alone

\* A handler that stays one.
LEMMA HandlerStays ==
    ASSUME NEW w \in Workers, NEW u \in Uniques, worker[w].msg = Plain(u), Alone(w, u),
           worker[w].pc \in HandlerPcs, worker[w].pc' \in HandlerPcs
    PROVE  \A v \in Workers : /\ Using(v, u)' <=> Using(v, u)
                              /\ Handles(v, u)' <=> Handles(v, u)
                              /\ Signals(v, u)' <=> Signals(v, u)
                              /\ v # w => (Frees(v, u)' <=> Frees(v, u))
                              /\ v # w \/ worker[w].old' = worker[w].old =>
                                    (Carries(v, u) => Carries(v, u)')
<1>1. worker[w].msg' = Plain(u) /\ Plain(u) # Intr(u)
    BY MsgFacts DEF Alone
<1>. QED  BY <1>1 DEF Alone, Using, Handles, Interrupts, Signals, Frees, Carries

\* The messages and the list of interrupts stay.
LEMMA SameOthers ==
    ASSUME NEW w \in Workers, NEW u \in Uniques, dev' = dev, ll' = ll,
           worker[w].old' = worker[w].old
    PROVE  OthersKept(w, u)
BY DEF OthersKept

\* What the threads and the requests are, and what is known of the interrupts.
KeptState == LoopState /\ Fields /\ \A u \in Uniques : KeptOK(u)

\* The return of the file system changes nothing an interrupt needs.
LEMMA FsEndsKept ==
    ASSUME KeptState, NEW w \in Workers, FsEnds(w)
    PROVE  \A x \in Uniques : KeptOK(x)'
<1>1. worker[w].pc = "fs" /\ Goto(w, "finish") /\ rq' = rq /\ ll' = ll /\ dev' = dev
    BY DEF FsEnds, At
<1>2. PICK u \in Uniques : worker[w].msg = Plain(u)
    BY <1>1, HasMessage DEF HandlerPcs, KeptState
<1>3. /\ Alone(w, u) /\ rq[u]' = rq[u]
      /\ worker[w].pc' = "finish" /\ worker[w].old' = worker[w].old
    BY <1>1, <1>2, AloneGoto DEF KeptState, HandlerPcs
<1>4. \A v \in Workers : /\ Using(v, u)' <=> Using(v, u)
                         /\ Handles(v, u)' <=> Handles(v, u)
                         /\ Signals(v, u)' <=> Signals(v, u)
                         /\ Frees(v, u)' => Frees(v, u)
                         /\ Carries(v, u) => Carries(v, u)'
    BY <1>1, <1>2, <1>3, HandlerStays DEF HandlerPcs, Frees
<1>5. StoryStays(u)
    BY <1>1, <1>3, <1>4 DEF StoryStays, KeptState, KeptOK, OnItsWay
<1>. QED  BY <1>1, <1>3, <1>5, KeptStep, KeptOne, SameOthers DEF KeptState

\* fuse_prepare_interrupt sees an interrupt that came before.
LEMMA EnterFsKept ==
    ASSUME KeptState, NEW w \in Workers, EnterFs(w)
    PROVE  \A x \in Uniques : KeptOK(x)'
<1>1. PICK u \in Uniques : worker[w].msg = Plain(u) /\ Req(w) = u
    BY HasMessage DEF EnterFs, At, HandlerPcs, KeptState
<1>2. worker[w].pc = "tree" /\ ll' = ll /\ dev' = dev
    BY DEF EnterFs, At
<1>3. CASE Goto(w, "reply") /\ rq' = rq
    <2>1. /\ Alone(w, u) /\ rq[u]' = rq[u]
          /\ worker[w].pc' = "reply" /\ worker[w].old' = worker[w].old
        BY <1>1, <1>3, AloneGoto DEF KeptState, HandlerPcs
    <2>2. \A v \in Workers : /\ Using(v, u)' <=> Using(v, u)
                             /\ Handles(v, u)' <=> Handles(v, u)
                             /\ Signals(v, u)' <=> Signals(v, u)
                             /\ Frees(v, u)' => Frees(v, u)
                             /\ Carries(v, u) => Carries(v, u)'
        BY <1>1, <1>2, <2>1, HandlerStays DEF HandlerPcs, Frees
    <2>3. StoryStays(u)
        BY <1>2, <2>1, <2>2 DEF StoryStays, KeptState, KeptOK, OnItsWay
    <2>. QED  BY <1>2, <2>1, <2>3, KeptStep, KeptOne, SameOthers DEF KeptState
<1>4. CASE /\ Goto(w, "fs")
           /\ rq' = [rq EXCEPT ![u] = fuse_do_prepare_interrupt(rq[u])]
    <2>. DEFINE r == rq[u]
                s == fuse_do_prepare_interrupt(r)
    <2>1. r \in ReqRec
        BY SameRest DEF KeptState
    <2>2. /\ s.kernel = r.kernel /\ s.kind = r.kind /\ s.intr = r.intr /\ s.ctr = r.ctr
          /\ s.interrupted = r.interrupted /\ s.told = r.interrupted
        BY <2>1 DEF fuse_do_prepare_interrupt, ReqRec
    <2>3. ~Untold(s)
        BY <2>2 DEF Untold
    <2>. HIDE DEF s
    <2>4. /\ Alone(w, u) /\ rq[u]' = s
          /\ worker[w].pc' = "fs" /\ worker[w].old' = worker[w].old
        <3>1. rq[u]' = s /\ \A x \in Uniques \ {u} : rq[x]' = rq[x]
            BY <1>4, SameRest DEF KeptState, s
        <3>. QED  BY <1>1, <1>4, <3>1, AloneGoto DEF KeptState, HandlerPcs
    <2>5. \A v \in Workers : /\ Using(v, u)' <=> Using(v, u)
                             /\ Handles(v, u)' <=> Handles(v, u)
                             /\ Frees(v, u)' => Frees(v, u)
                             /\ Carries(v, u) => Carries(v, u)'
        BY <1>1, <1>2, <2>4, HandlerStays DEF HandlerPcs, Frees
    <2>6. StoryStays(u)
        BY <1>2, <2>2, <2>3, <2>4, <2>5 DEF StoryStays, KeptState, KeptOK, OnItsWay
    <2>. QED  BY <1>2, <2>4, <2>6, KeptStep, KeptOne, SameOthers DEF KeptState
<1>. QED  BY <1>1, <1>3, <1>4 DEF EnterFs

\* After finished and without func no signal is owed.
LEMMA fuse_do_finish_interruptKept ==
    ASSUME KeptState, NEW w \in Workers, fuse_do_finish_interrupt(w)
    PROVE  \A x \in Uniques : KeptOK(x)'
<1>1. PICK u \in Uniques : worker[w].msg = Plain(u) /\ Req(w) = u
    BY HasMessage DEF fuse_do_finish_interrupt, At, HandlerPcs, KeptState
<1>2. ll' = ll /\ dev' = dev
    BY DEF fuse_do_finish_interrupt
<1>3. ASSUME NEW pc \in {"clear", "reply"}, Goto(w, pc),
             worker[w].pc \in {"finish", "clear"},
             \A x \in Uniques \ {u} : rq[x]' = rq[x],
             rq[u].kernel' = rq[u].kernel, rq[u].kind' = rq[u].kind,
             rq[u].intr' = rq[u].intr, rq[u].ctr' = rq[u].ctr,
             rq[u].interrupted' = rq[u].interrupted, ~Untold(rq[u]')
      PROVE  \A x \in Uniques : KeptOK(x)'
    <2>2. /\ Alone(w, u)
          /\ worker[w].pc' = pc /\ worker[w].old' = worker[w].old
        BY <1>1, <1>3, AloneGoto DEF KeptState, HandlerPcs
    <2>3. \A v \in Workers : /\ Using(v, u)' <=> Using(v, u)
                             /\ Handles(v, u)' <=> Handles(v, u)
                             /\ Frees(v, u)' => Frees(v, u)
                             /\ Carries(v, u) => Carries(v, u)'
        BY <1>1, <1>3, <2>2, HandlerStays DEF HandlerPcs, Frees
    <2>4. StoryStays(u)
        BY <1>2, <1>3, <2>3 DEF StoryStays, KeptState, KeptOK, OnItsWay
    <2>. QED  BY <1>2, <2>2, <2>4, KeptStep, KeptOne, SameOthers DEF KeptState
<1>4. rq[u] \in ReqRec
    BY SameRest DEF KeptState
<1>5. CASE /\ worker[w].pc = "finish" /\ Goto(w, "clear")
           /\ rq' = [rq EXCEPT ![u].finished = TRUE]
    <2>. DEFINE s == [rq[u] EXCEPT !.finished = TRUE]
    <2>1. rq[u]' = s /\ \A x \in Uniques \ {u} : rq[x]' = rq[x]
        BY <1>5, SameRest DEF KeptState
    <2>2. /\ s.kernel = rq[u].kernel /\ s.kind = rq[u].kind /\ s.intr = rq[u].intr
          /\ s.ctr = rq[u].ctr /\ s.interrupted = rq[u].interrupted
          /\ s.finished = TRUE
        BY <1>4 DEF ReqRec
    <2>. HIDE DEF s
    <2>3. ~Untold(rq[u]')
        BY <2>1, <2>2 DEF Untold
    <2>4. worker[w].pc \in {"finish", "clear"} /\ Goto(w, "clear")
        BY <1>5
    <2>. QED  BY <1>3, <2>1, <2>2, <2>3, <2>4
<1>6. CASE /\ worker[w].pc = "clear" /\ Goto(w, "reply")
           /\ rq' = [rq EXCEPT ![u].func = FALSE]
    <2>. DEFINE s == [rq[u] EXCEPT !.func = FALSE]
    <2>1. rq[u]' = s /\ \A x \in Uniques \ {u} : rq[x]' = rq[x]
        BY <1>6, SameRest DEF KeptState
    <2>2. /\ s.kernel = rq[u].kernel /\ s.kind = rq[u].kind /\ s.intr = rq[u].intr
          /\ s.ctr = rq[u].ctr /\ s.interrupted = rq[u].interrupted
          /\ s.func = FALSE
        BY <1>4 DEF ReqRec
    <2>. HIDE DEF s
    <2>3. ~Untold(rq[u]')
        BY <2>1, <2>2 DEF Untold
    <2>4. worker[w].pc \in {"finish", "clear"} /\ Goto(w, "reply")
        BY <1>6
    <2>. QED  BY <1>3, <2>1, <2>2, <2>3, <2>4
<1>. QED  BY <1>1, <1>5, <1>6 DEF fuse_do_finish_interrupt, At

\* With the answer the kernel forgets the request and its interrupt.
LEMMA send_reply_iovKept ==
    ASSUME KeptState, NEW w \in Workers, send_reply_iov(w)
    PROVE  \A x \in Uniques : KeptOK(x)'
<1>1. PICK u \in Uniques : worker[w].msg = Plain(u) /\ Req(w) = u
    BY HasMessage DEF send_reply_iov, At, HandlerPcs, KeptState
<1>2. /\ worker[w].pc = "reply" /\ Goto(w, "free") /\ ll' = ll
      /\ rq' = [rq EXCEPT ![u].kernel = "answered"]
      /\ dev' = [dev EXCEPT !.msgs = dev.msgs \ {Intr(u)}]
    BY <1>1 DEF send_reply_iov, At, Intr
<1>3. dev.msgs' = dev.msgs \ {Intr(u)} /\ dev.signalled' = dev.signalled
    BY <1>2 DEF Fields, KeptState
<1>. DEFINE s == [rq[u] EXCEPT !.kernel = "answered"]
<1>4. /\ s.kernel = "answered" /\ s.kind = rq[u].kind /\ s.intr = rq[u].intr
      /\ s.ctr = rq[u].ctr /\ s.interrupted = rq[u].interrupted
      /\ s.func = rq[u].func /\ s.finished = rq[u].finished /\ s.told = rq[u].told
    <2>1. rq[u] \in ReqRec
        BY SameRest DEF KeptState
    <2>. QED  BY <2>1 DEF ReqRec
<1>5. rq[u]' = s /\ \A x \in Uniques \ {u} : rq[x]' = rq[x]
    BY <1>2, SameRest DEF KeptState
<1>. HIDE DEF s
<1>6. /\ Alone(w, u)
      /\ worker[w].pc' = "free" /\ worker[w].old' = worker[w].old
    BY <1>1, <1>2, <1>5, AloneGoto DEF KeptState, HandlerPcs
<1>7. \A v \in Workers : /\ Using(v, u)' <=> Using(v, u)
                         /\ Handles(v, u)' <=> Handles(v, u)
                         /\ Signals(v, u)' <=> Signals(v, u)
    BY <1>1, <1>2, <1>6, HandlerStays DEF HandlerPcs
<1>8. StoryStays(u)
    <2>1. Settled(u)' /\ rq[u].kernel' # "sent"
        BY <1>4, <1>5 DEF Settled
    <2>2. Untold(rq[u]') => Untold(rq[u])
        BY <1>4, <1>5 DEF Untold
    <2>3. rq[u].interrupted' => rq[u].ctr' > 0
        BY <1>4, <1>5 DEF KeptState, KeptOK
    <2>. QED  BY <1>3, <1>4, <1>5, <1>7, <2>1, <2>2, <2>3 DEF StoryStays
<1>9. OthersKept(w, u)
    BY <1>2, <1>3, <1>6, MsgFacts DEF OthersKept
<1>. QED  BY <1>6, <1>8, <1>9, KeptStep, KeptOne DEF KeptState

\* The kernel sends the interrupt again: it is on its way as before.
LEMMA ReplyAgainKept ==
    ASSUME KeptState, dev.mounted, NEW w \in Workers, ReplyAgain(w)
    PROVE  \A x \in Uniques : KeptOK(x)'
<1>. DEFINE z == worker[w].old
            pc == Handler(w)
<1>1. PICK u \in Uniques : worker[w].msg = Plain(u) /\ Req(w) = u
    BY HasMessage DEF ReplyAgain, At, HandlerPcs, KeptState
<1>2. /\ worker[w].pc = "eagain" /\ rq' = rq /\ ll' = ll
      /\ worker' = [worker EXCEPT ![w].old = 0, ![w].pc = pc]
      /\ dev' = IF rq[z].kernel = "sent"
                THEN [dev EXCEPT !.msgs = dev.msgs \cup {Intr(z)}] ELSE dev
    BY DEF ReplyAgain, At, Intr
<1>3. pc \in {"free", "tree"} /\ (pc = "free" => rq[u].kind = "forget")
    BY <1>1, MsgFacts DEF Handler, Forgets
<1>4. /\ dev.signalled' = dev.signalled /\ dev.msgs \subseteq dev.msgs'
      /\ Intr(z) \in dev.msgs' \/ rq[z].kernel # "sent"
    BY <1>2 DEF Fields, KeptState
<1>5. /\ worker[w].pc' = pc /\ worker[w].msg' = worker[w].msg
      /\ \A x \in Workers \ {w} : worker[x]' = worker[x]
    <2>1. worker \in [Workers -> WorkerRec]
        BY DEF KeptState, LoopState, LoopTypes
    <2>. HIDE DEF pc
    <2>. QED  BY <2>1, <1>2, <1>3 DEF WorkerRec, HandlerPcs
<1>6. Alone(w, u)
    BY <1>1, <1>2, <1>5 DEF Alone
<1>. HIDE DEF pc
<1>7. \A v \in Workers : /\ Using(v, u)' <=> Using(v, u)
                         /\ Handles(v, u)' <=> Handles(v, u)
                         /\ Signals(v, u)' <=> Signals(v, u)
                         /\ v # w => (Frees(v, u)' <=> Frees(v, u))
                         /\ v # w => (Carries(v, u) => Carries(v, u)')
    BY <1>1, <1>2, <1>3, <1>5, <1>6, HandlerStays DEF HandlerPcs
<1>8. StoryStays(u)
    <2>1. Frees(w, u)' => Settled(u)'
        BY <1>2, <1>3, <1>5 DEF Frees, Settled
    <2>2. Carries(w, u) => z = u
        BY <1>1, MsgFacts DEF Carries
    <2>3. rq[u].kernel = "sent" /\ OnItsWay(u) => OnItsWay(u)'
        BY <1>2, <1>4, <1>7, <2>2 DEF OnItsWay
    <2>. QED  BY <1>2, <1>4, <1>7, <2>1, <2>3 DEF StoryStays, KeptState, KeptOK
<1>9. OthersKept(w, u)
    BY <1>2, <1>4 DEF OthersKept
<1>. QED  BY <1>6, <1>8, <1>9, KeptStep, KeptOne DEF KeptState

\* Nothing is left to be said of a request that nobody waits for.
LEMMA SettledKept ==
    ASSUME NEW u \in Uniques, KeptOK(u), dev.signalled' = dev.signalled,
           Settled(u), rq[u].kernel' = rq[u].kernel, rq[u].kind' = rq[u].kind,
           rq[u].intr' = rq[u].intr, rq[u].interrupted' => rq[u].ctr' > 0,
           Untold(rq[u]') => \E w \in Workers : Signals(w, u)'
    PROVE  KeptOK(u)'
<1>1. Settled(u)'
    BY DEF Settled
<1>2. ~(rq[u].kernel' = "sent" /\ rq[u].intr')
    BY DEF Settled, KeptOK
<1>. QED  BY <1>1, <1>2 DEF KeptOK

\* Who frees the request has answered it.
LEMMA free_reqKept ==
    ASSUME KeptState, NEW w \in Workers, free_req(w)
    PROVE  \A x \in Uniques : KeptOK(x)'
<1>1. PICK u \in Uniques : worker[w].msg = Plain(u) /\ Req(w) = u
    BY HasMessage DEF free_req, At, HandlerPcs, KeptState
<1>2. /\ worker[w].pc = "free" /\ Goto(w, "count") /\ ll' = ll /\ dev' = dev
      /\ rq' = [rq EXCEPT ![u] = Put(Unlisted(rq[u]))]
    BY <1>1 DEF free_req, At, Unlisted
<1>3. rq[u] \in ReqRec
    BY SameRest DEF KeptState
<1>. DEFINE r == Unlisted(rq[u])
            s == Put(r)
<1>4. /\ r \in ReqRec /\ r.ctr = rq[u].ctr /\ r.func = FALSE
      /\ r.interrupted = rq[u].interrupted
      /\ r.kernel = rq[u].kernel /\ r.kind = rq[u].kind /\ r.intr = rq[u].intr
    BY <1>3, UnlistedFields
<1>. HIDE DEF r
<1>5. /\ s.kernel = r.kernel /\ s.kind = r.kind /\ s.intr = r.intr
      /\ s.func = FALSE
      /\ r.ctr > 1 => s.ctr = r.ctr - 1
      /\ ~(r.ctr > 1) => s.interrupted = FALSE
    BY <1>4, PutFields
<1>6. rq[u]' = s /\ \A x \in Uniques \ {u} : rq[x]' = rq[x]
    BY <1>2, SameRest DEF KeptState, r
<1>. HIDE DEF s
<1>7. /\ Alone(w, u)
      /\ worker[w].pc' = "count" /\ worker[w].old' = worker[w].old
    BY <1>1, <1>2, <1>6, AloneGoto DEF KeptState, OtherPcs
<1>8. Settled(u)
    BY <1>1, <1>2 DEF KeptState, KeptOK, Frees
<1>9. /\ rq[u].kernel' = rq[u].kernel /\ rq[u].kind' = rq[u].kind
      /\ rq[u].intr' = rq[u].intr
    BY <1>4, <1>5, <1>6
<1>10. rq[u].interrupted' => rq[u].ctr' > 0
    <2>1. rq[u].ctr \in Nat
        BY <1>3 DEF ReqRec
    <2>2. CASE rq[u].ctr > 1
        BY <1>4, <1>5, <1>6, <2>1, <2>2
    <2>3. CASE ~(rq[u].ctr > 1)
        BY <1>4, <1>5, <1>6, <2>3
    <2>. QED  BY <2>2, <2>3
<1>11. ~Untold(rq[u]')
    BY <1>5, <1>6 DEF Untold
<1>12. KeptOK(u)'
    BY <1>2, <1>8, <1>9, <1>10, <1>11, SettledKept DEF KeptState
<1>. QED  BY <1>2, <1>7, <1>12, KeptOne, SameOthers DEF KeptState

\* The worker that lets go has signalled what it had to.
LEMMA PutInterruptedKept ==
    ASSUME KeptState, NEW w \in Workers, PutInterrupted(w)
    PROVE  \A x \in Uniques : KeptOK(x)'
<1>1. PICK u \in Uniques : worker[w].msg = Intr(u) /\ Req(w) = u /\ Interrupts(w, u)
    BY HasMessage DEF PutInterrupted, At, InterruptPcs, KeptState
<1>2. /\ worker[w].pc = "put" /\ Goto(w, "count") /\ ll' = ll /\ dev' = dev
      /\ rq' = [rq EXCEPT ![u] = Put(rq[u])]
    BY <1>1 DEF PutInterrupted, At, OnlyReq
<1>3. rq[u] \in ReqRec
    BY SameRest DEF KeptState
<1>. DEFINE s == Put(rq[u])
<1>4. /\ s.kernel = rq[u].kernel /\ s.kind = rq[u].kind /\ s.intr = rq[u].intr
      /\ rq[u].ctr > 1 => /\ s.ctr = rq[u].ctr - 1 /\ s.func = rq[u].func
                          /\ s.interrupted = rq[u].interrupted
                          /\ s.finished = rq[u].finished /\ s.told = rq[u].told
      /\ ~(rq[u].ctr > 1) => s.interrupted = FALSE
    BY <1>3, PutFields
<1>5. rq[u]' = s /\ \A x \in Uniques \ {u} : rq[x]' = rq[x]
    BY <1>2, SameRest DEF KeptState
<1>. HIDE DEF s
<1>6. /\ Alone(w, u)
      /\ worker[w].pc' = "count" /\ worker[w].old' = worker[w].old
    BY <1>1, <1>2, <1>5, AloneGoto DEF KeptState, OtherPcs
<1>7. CASE rq[u].ctr > 1
    <2>1. \A v \in Workers : /\ Using(v, u)' => Using(v, u)
                             /\ Handles(v, u) => Handles(v, u)'
                             /\ Signals(v, u) => Signals(v, u)'
                             /\ Frees(v, u)' => Frees(v, u)
                             /\ Carries(v, u) => Carries(v, u)'
        BY <1>1, <1>2, <1>6, MsgFacts DEF Alone, Using, Handles, Interrupts, Signals,
            Frees, Carries, HandlerPcs, InterruptPcs
    <2>2. rq[u].ctr \in Nat
        BY <1>3 DEF ReqRec
    <2>3. rq[u].ctr' > 0 /\ rq[u].interrupted' = rq[u].interrupted
        BY <1>4, <1>5, <1>7, <2>2
    <2>4. /\ rq[u].kind' = rq[u].kind /\ rq[u].intr' = rq[u].intr
          /\ rq[u].kernel' = rq[u].kernel
          /\ Untold(rq[u]') => Untold(rq[u])
        BY <1>4, <1>5, <1>7 DEF Untold
    <2>5. OnItsWay(u) => OnItsWay(u)'
        BY <1>2, <2>1, <2>3 DEF OnItsWay
    <2>6. StoryStays(u)
        BY <1>2, <2>1, <2>3, <2>4, <2>5 DEF StoryStays
    <2>. QED  BY <1>2, <1>6, <2>6, KeptStep, KeptOne, SameOthers DEF KeptState
<1>8. CASE ~(rq[u].ctr > 1)
    <2>1. Using(w, u) /\ ~Handles(w, u)
        BY <1>1, MsgFacts DEF Using, Handles
    <2>2. rq[u].ctr = Cardinality(Users(u))
        BY DEF KeptState, LoopState, ReqOK
    <2>3. \A v \in Workers : Using(v, u) => v = w
        BY <1>8, <2>1, <2>2, FewUsers
    <2>4. Settled(u)
        BY <2>1, <2>3 DEF KeptState, KeptOK, Using
    <2>5. /\ rq[u].kind' = rq[u].kind /\ rq[u].intr' = rq[u].intr
          /\ rq[u].kernel' = rq[u].kernel /\ ~rq[u].interrupted'
        BY <1>4, <1>5, <1>8
    <2>6. KeptOK(u)'
        BY <1>2, <2>4, <2>5, SettledKept DEF KeptState, Untold
    <2>. QED  BY <1>2, <1>6, <2>6, KeptOne, SameOthers DEF KeptState
<1>. QED  BY <1>7, <1>8

\* Who stops to send signals has seen finished.
LEMMA fuse_interruptKept ==
    ASSUME KeptState, NEW w \in Workers, fuse_interrupt(w)
    PROVE  \A x \in Uniques : KeptOK(x)'
<1>1. PICK u \in Uniques : worker[w].msg = Intr(u) /\ Req(w) = u /\ Interrupts(w, u)
    BY HasMessage DEF fuse_interrupt, At, InterruptPcs, KeptState
<1>2. /\ worker[w].pc = "signal" /\ Goto(w, "put") /\ ll' = ll /\ dev' = dev
      /\ rq[u].finished /\ rq' = [rq EXCEPT ![u].lock = 0]
    BY <1>1 DEF fuse_interrupt, At, OnlyReq
<1>. DEFINE s == [rq[u] EXCEPT !.lock = 0]
<1>3. /\ s.kernel = rq[u].kernel /\ s.kind = rq[u].kind /\ s.intr = rq[u].intr
      /\ s.ctr = rq[u].ctr /\ s.interrupted = rq[u].interrupted
      /\ s.finished = rq[u].finished
    <2>1. rq[u] \in ReqRec
        BY SameRest DEF KeptState
    <2>. QED  BY <2>1 DEF ReqRec
<1>4. rq[u]' = s /\ \A x \in Uniques \ {u} : rq[x]' = rq[x]
    BY <1>2, SameRest DEF KeptState
<1>. HIDE DEF s
<1>5. /\ Alone(w, u)
      /\ worker[w].pc' = "put" /\ worker[w].old' = worker[w].old
    BY <1>1, <1>2, <1>4, AloneGoto DEF KeptState, InterruptPcs
<1>6. \A v \in Workers : /\ Using(v, u)' => Using(v, u)
                         /\ Handles(v, u) => Handles(v, u)'
                         /\ Frees(v, u)' => Frees(v, u)
                         /\ Carries(v, u) => Carries(v, u)'
    BY <1>1, <1>2, <1>5, MsgFacts DEF Alone, Using, Handles, Interrupts, Frees, Carries,
        HandlerPcs, InterruptPcs
<1>7. ~Untold(rq[u]')
    BY <1>2, <1>3, <1>4 DEF Untold
<1>8. StoryStays(u)
    BY <1>2, <1>3, <1>4, <1>6, <1>7 DEF StoryStays, KeptState, KeptOK, OnItsWay
<1>. QED  BY <1>2, <1>5, <1>8, KeptStep, KeptOne, SameOthers DEF KeptState

\* The interrupt has arrived: interrupted is set under the lock.
LEMMA find_interruptedKept ==
    ASSUME KeptState, NEW w \in Workers, find_interrupted(w)
    PROVE  \A x \in Uniques : KeptOK(x)'
<1>. DEFINE pc == IF rq[Req(w)].func THEN "signal" ELSE "put"
            k == IF rq[Req(w)].func THEN w ELSE 0
<1>1. PICK u \in Uniques : worker[w].msg = Intr(u) /\ Req(w) = u /\ Interrupts(w, u)
    BY HasMessage DEF find_interrupted, At, InterruptPcs, KeptState
<1>2. /\ worker[w].pc = "ilock" /\ Goto(w, pc) /\ ll' = ll /\ dev' = dev
      /\ rq' = [rq EXCEPT ![u] = [rq[u] EXCEPT !.interrupted = TRUE, !.lock = k]]
    BY <1>1 DEF find_interrupted, At, OnlyReq
<1>3. pc \in {"signal", "put"} /\ (rq[u].func => pc = "signal")
    BY <1>1
<1>. HIDE DEF pc, k
<1>. DEFINE s == [rq[u] EXCEPT !.interrupted = TRUE, !.lock = k]
<1>4. /\ s.kernel = rq[u].kernel /\ s.kind = rq[u].kind /\ s.intr = rq[u].intr
      /\ s.ctr = rq[u].ctr /\ s.interrupted = TRUE /\ s.func = rq[u].func
    <2>1. rq[u] \in ReqRec
        BY SameRest DEF KeptState
    <2>. QED  BY <2>1 DEF ReqRec
<1>5. rq[u]' = s /\ \A x \in Uniques \ {u} : rq[x]' = rq[x]
    BY <1>2, SameRest DEF KeptState
<1>. HIDE DEF s
<1>6. /\ Alone(w, u)
      /\ worker[w].pc' = pc /\ worker[w].old' = worker[w].old
    BY <1>1, <1>2, <1>3, <1>5, AloneGoto DEF KeptState, InterruptPcs
<1>7. \A v \in Workers : /\ Using(v, u)' <=> Using(v, u)
                         /\ Handles(v, u)' <=> Handles(v, u)
                         /\ Frees(v, u)' => Frees(v, u)
    BY <1>1, <1>2, <1>3, <1>6, MsgFacts DEF Alone, Using, Handles, Interrupts, Frees,
        HandlerPcs, InterruptPcs
<1>8. rq[u].ctr > 0
    <2>1. Using(w, u)
        BY <1>1 DEF Using
    <2>. QED  BY <2>1, FewUsers DEF KeptState, LoopState, ReqOK
<1>9. rq[u].func => Signals(w, u)'
    BY <1>1, <1>3, <1>6 DEF Signals, Alone
<1>10. KeptOK(u)'
    <2>1. /\ u \in dev.signalled' => rq[u].kind' # "forget"
          /\ rq[u].intr' => rq[u].kind' # "forget"
          /\ rq[u].ctr' > 0 /\ (Settled(u)' <=> Settled(u))
        BY <1>2, <1>4, <1>5, <1>8 DEF KeptState, KeptOK, Settled
    <2>2. OnItsWay(u)'
        BY <1>4, <1>5 DEF OnItsWay
    <2>3. Untold(rq[u]') => \E v \in Workers : Signals(v, u)'
        BY <1>4, <1>5, <1>9 DEF Untold
    <2>. QED  BY <1>7, <2>1, <2>2, <2>3 DEF KeptState, KeptOK
<1>. QED  BY <1>2, <1>6, <1>10, KeptOne, SameOthers DEF KeptState

\* Who carries an INTERRUPT is at one of these places.
LEMMA CarriesWhere ==
    ASSUME LoopState, NEW w \in Workers, NEW u \in Uniques, Carries(w, u)
    PROVE  worker[w].pc \in {"eagain", "got", "process", "ilock"}
BY MsgFacts DEF LoopState, PartsFit, WorkerFits, Carries

\* Threads that are not at work on a request go on.
LEMMA KeptAllQuiet ==
    ASSUME KeptState, rq' = rq, ll' = ll, dev.signalled' = dev.signalled,
           \A v \in Workers : \/ worker[v]' = worker[v]
                              \/ /\ worker[v].pc \in OtherPcs
                                 /\ worker[v].pc' \in OtherPcs
                                 /\ worker[v].pc \in {"got", "process"} =>
                                       /\ worker[v].pc' \in {"got", "process"}
                                       /\ worker[v].msg' = worker[v].msg,
           \A x \in Uniques : Intr(x) \in dev.msgs =>
                                 \/ Intr(x) \in dev.msgs'
                                 \/ \E v \in Workers : Carries(v, x)'
    PROVE  \A x \in Uniques : KeptOK(x)'
<1>. SUFFICES ASSUME NEW x \in Uniques  PROVE KeptOK(x)'
    OBVIOUS
<1>1. SameUse(x)
    BY DEF SameUse, Handles, Interrupts, InFs, Signals, OtherPcs, HandlerPcs, InterruptPcs
<1>2. \A v \in Workers : Frees(v, x)' => Frees(v, x)
    BY DEF Frees, OtherPcs
<1>3. \A v \in Workers : Carries(v, x) => Carries(v, x)'
    <2>. SUFFICES ASSUME NEW v \in Workers, Carries(v, x), worker[v]' # worker[v]
                  PROVE  Carries(v, x)'
        BY DEF Carries
    <2>1. worker[v].pc \in {"got", "process"}
        BY CarriesWhere DEF KeptState, OtherPcs
    <2>2. worker[v].old = 0
        BY <2>1, HasMessage DEF KeptState
    <2>. QED  BY <2>1, <2>2, MsgFacts DEF Carries
<1>4. OnItsWay(x) => OnItsWay(x)'
    BY <1>3 DEF OnItsWay
<1>. QED  BY <1>1, <1>2, <1>4, KeptQuiet DEF KeptState

\* The message read is now with its worker.
LEMMA ReceiveKept ==
    ASSUME KeptState, ~se.exited, dev.mounted, NEW w \in Workers,
           fuse_kern_chan_receive(w)
    PROVE  \A x \in Uniques : KeptOK(x)'
<1>1. worker[w].pc = "read" /\ rq' = rq /\ ll' = ll
    BY DEF fuse_kern_chan_receive, At
<1>2. PICK m \in dev.msgs : /\ dev' = [dev EXCEPT !.msgs = dev.msgs \ {m}]
                            /\ worker' = [worker EXCEPT ![w].msg = m, ![w].pc = "got"]
    BY DEF fuse_kern_chan_receive
<1>3. dev.msgs' = dev.msgs \ {m} /\ dev.signalled' = dev.signalled
    BY <1>2 DEF KeptState, Fields
<1>4. /\ worker[w].pc' = "got" /\ worker[w].msg' = m
      /\ \A v \in Workers \ {w} : worker[v]' = worker[v]
    <2>1. worker \in [Workers -> WorkerRec]
        BY DEF KeptState, LoopState, LoopTypes
    <2>. QED  BY <1>2, <2>1 DEF WorkerRec
<1>5. \A x \in Uniques : Intr(x) \in dev.msgs => \/ Intr(x) \in dev.msgs'
                                                 \/ \E v \in Workers : Carries(v, x)'
    BY <1>3, <1>4 DEF Carries
<1>. QED  BY <1>1, <1>3, <1>4, <1>5, KeptAllQuiet DEF OtherPcs

\* Starting another worker leaves the message where it is.
LEMMA GotMessageKept ==
    ASSUME KeptState, ~mt.exit, NEW w \in Workers, GotMessage(w)
    PROVE  \A x \in Uniques : KeptOK(x)'
<1>1. worker[w].pc = "got" /\ dev' = dev /\ rq' = rq /\ ll' = ll
    BY DEF GotMessage, At
<1>. DEFINE m == IF Forgets(w) THEN mt
                 ELSE [mt EXCEPT !.numavail = mt.numavail - 1]
            b == [worker[w] EXCEPT !.pc = "process"]
<1>2. PICK o \in Started(m) :
          worker' = [v \in Workers |-> IF v = o.new THEN fuse_do_work
                                       ELSE IF v = w THEN b ELSE worker[v]]
    BY DEF GotMessage
<1>3. {"pc", "exit"} \subseteq DOMAIN m
    BY DEF KeptState, Fields
<1>. HIDE DEF m
<1>4. o.new = 0 \/ (o.new \in Workers /\ worker[o.new].pc = "none")
    BY <1>3, StartThread DEF Started, Begun
<1>5. b.pc = "process" /\ b.msg = worker[w].msg
    BY DEF KeptState, LoopState, LoopTypes, WorkerRec
<1>6. \A v \in Workers : \/ v = o.new /\ worker[v]' = fuse_do_work
                         \/ v # o.new /\ v = w /\ worker[v]' = b
                         \/ v # o.new /\ v # w /\ worker[v]' = worker[v]
    BY <1>2
<1>. HIDE DEF b
<1>7. ASSUME NEW v \in Workers, worker[v]' # worker[v]
      PROVE  /\ worker[v].pc \in OtherPcs /\ worker[v].pc' \in OtherPcs
             /\ worker[v].pc \in {"got", "process"} =>
                    /\ worker[v].pc' \in {"got", "process"}
                    /\ worker[v].msg' = worker[v].msg
    <2>1. CASE v = o.new
        <3>1. worker[v].pc = "none" /\ worker[v].pc' \in {"end", "read"}
            BY <1>4, <1>6, <2>1, LoopAssumption, AtTop DEF Workers
        <3>. QED  BY <3>1 DEF OtherPcs
    <2>2. CASE v # o.new
        <3>1. /\ worker[v].pc = "got" /\ worker[v].pc' = "process"
              /\ worker[v].msg' = worker[v].msg
            BY <1>1, <1>5, <1>6, <1>7, <2>2
        <3>. QED  BY <3>1 DEF OtherPcs
    <2>. QED  BY <2>1, <2>2
<1>. QED  BY <1>1, <1>7, KeptAllQuiet

\* The steps that touch neither request nor message.
LEMMA QuietKept ==
    ASSUME KeptState, ~mt.exit, NEW w \in Workers, Counted(w) \/ WorkerEnds(w)
    PROVE  \A x \in Uniques : KeptOK(x)'
<1>1. /\ worker[w].pc \in {"count", "end"} /\ dev' = dev /\ rq' = rq /\ ll' = ll
    BY DEF Counted, WorkerEnds, At
<1>2. worker \in [Workers -> WorkerRec]
    BY DEF KeptState, LoopState, LoopTypes
<1>3. /\ \A v \in Workers \ {w} : worker[v]' = worker[v]
      /\ worker[w].pc' \in {"none", "end", "read", "pause"}
    <2>1. CASE Goto(w, "pause")
        BY <1>2, <2>1, GotoFields DEF OtherPcs
    <2>2. CASE worker' = [worker EXCEPT ![w] = NoWorker]
        BY <1>2, <2>2, AtTop
    <2>3. CASE worker' = [worker EXCEPT ![w] = [fuse_do_work EXCEPT
                                                   !.cancelled = worker[w].cancelled]]
        <3>. DEFINE b == [fuse_do_work EXCEPT !.cancelled = worker[w].cancelled]
        <3>1. b.pc = fuse_do_work.pc
            BY AtTop DEF WorkerRec
        <3>2. worker[w]' = b /\ \A v \in Workers \ {w} : worker[v]' = worker[v]
            BY <1>2, <2>3
        <3>. HIDE DEF b
        <3>. QED  BY <3>1, <3>2, AtTop
    <2>. QED  BY <2>1, <2>2, <2>3 DEF Counted, WorkerEnds
<1>. QED  BY <1>1, <1>3, KeptAllQuiet DEF OtherPcs

\* An INTERRUPT is looked at.
LEMMA do_interruptKept ==
    ASSUME KeptState, NEW w \in Workers, NEW u \in Uniques, worker[w].pc = "process",
           worker[w].msg = Intr(u), Req(w) = u, do_interrupt(w), dev' = dev
    PROVE  \A x \in Uniques : KeptOK(x)'
<1>1. CASE /\ rq[u].listed /\ ll' = ll /\ Goto(w, "ilock")
           /\ rq' = [rq EXCEPT ![u].ctr = rq[u].ctr + 1]
    <2>. DEFINE s == [rq[u] EXCEPT !.ctr = rq[u].ctr + 1]
    <2>1. rq[u] \in ReqRec
        BY SameRest DEF KeptState
    <2>2. rq[u].ctr \in Nat
        BY <2>1 DEF ReqRec
    <2>3. /\ s.kernel = rq[u].kernel /\ s.kind = rq[u].kind /\ s.intr = rq[u].intr
          /\ s.ctr = rq[u].ctr + 1 /\ s.interrupted = rq[u].interrupted
          /\ s.func = rq[u].func /\ s.finished = rq[u].finished /\ s.told = rq[u].told
        BY <2>1, <2>2, CtrField
    <2>4. rq[u]' = s /\ \A x \in Uniques \ {u} : rq[x]' = rq[x]
        BY <1>1, SameRest DEF KeptState
    <2>. HIDE DEF s
    <2>5. /\ Alone(w, u)
          /\ worker[w].pc' = "ilock" /\ worker[w].old' = worker[w].old
        BY <1>1, <2>4, AloneGoto DEF KeptState, InterruptPcs
    <2>6. \A v \in Workers : /\ Handles(v, u)' <=> Handles(v, u)
                             /\ Signals(v, u)' <=> Signals(v, u)
                             /\ Frees(v, u)' => Frees(v, u)
        BY <2>5, MsgFacts DEF Alone, Handles, Signals, Frees
    <2>7. Carries(w, u)'
        BY <2>5 DEF Alone, Carries
    <2>8. \E h \in Workers : Handles(h, u)'
        BY <1>1, <2>6 DEF KeptState, LoopState, ReqOK
    <2>9. KeptOK(u)'
        <3>1. /\ u \in dev.signalled' => rq[u].kind' # "forget"
              /\ rq[u].intr' => rq[u].kind' # "forget"
              /\ (Settled(u)' <=> Settled(u))
              /\ Untold(rq[u]') => Untold(rq[u])
            BY <2>3, <2>4 DEF KeptState, KeptOK, Settled, Untold
        <3>2. rq[u].ctr' > 0
            BY <2>2, <2>3, <2>4
        <3>3. OnItsWay(u)'
            BY <2>7 DEF OnItsWay
        <3>. QED  BY <2>6, <2>8, <3>1, <3>2, <3>3 DEF KeptState, KeptOK
    <2>. QED  BY <1>1, <2>5, <2>9, KeptOne, SameOthers DEF KeptState
<1>2. CASE /\ rq' = rq /\ Goto(w, "count")
           /\ ll' = IF InSeq(ll, u) THEN ll ELSE Append(ll, u)
    <2>1. /\ Alone(w, u)
          /\ worker[w].pc' = "count" /\ worker[w].old' = worker[w].old
        BY <1>2, AloneGoto DEF KeptState, OtherPcs
    <2>2. InSeq(ll', u) /\ \A y : InSeq(ll, y) => InSeq(ll', y)
        BY <1>2, SameRest, ListSteps DEF KeptState
    <2>3. SameUse(u) /\ \A v \in Workers : Frees(v, u)' => Frees(v, u)
        BY <2>1, MsgFacts DEF Alone, SameUse, Handles, Interrupts, InFs, Signals, Frees,
            HandlerPcs, InterruptPcs
    <2>4. OnItsWay(u)'
        BY <2>2 DEF OnItsWay
    <2>5. KeptOK(u)'
        BY <1>2, <2>3, <2>4, KeptQuiet DEF KeptState
    <2>6. OthersKept(w, u)
        BY <2>1, <2>2 DEF OthersKept
    <2>. QED  BY <2>1, <2>5, <2>6, KeptOne DEF KeptState
<1>. QED  BY <1>1, <1>2 DEF do_interrupt

\* A request begins.
LEMMA RequestKept ==
    ASSUME KeptState, NEW w \in Workers, NEW u \in Uniques, worker[w].pc = "process",
           worker[w].msg = Plain(u), Alone(w, u), dev' = dev,
           worker[w].pc' \in {"eagain", "tree", "free"},
           worker[w].pc' = "free" => rq[u].kind = "forget",
           ll' = check_interrupt(u).ll, worker[w].old' = check_interrupt(u).old,
           rq[u].kernel' = rq[u].kernel, rq[u].kind' = rq[u].kind,
           rq[u].intr' = rq[u].intr, rq[u].func' = rq[u].func, rq[u].ctr' = 1,
           rq[u].interrupted' = check_interrupt(u).mine
    PROVE  \A x \in Uniques : KeptOK(x)'
<1>. DEFINE c == check_interrupt(u)
<1>1. /\ InSeq(ll, u) => c.mine = TRUE
      /\ \A y \in Uniques : y # u /\ InSeq(ll, y) => InSeq(c.ll, y) \/ c.old = y
    BY SameRest, CheckInterrupt DEF KeptState
<1>2. worker[w].msg' = Plain(u) /\ worker[w].old = 0
    BY HasMessage DEF Alone, KeptState
<1>3. Handles(w, u)' /\ Fetched(w, u)
    BY <1>2 DEF Handles, Fetched, HandlerPcs
<1>4. rq[u].ctr = 0 /\ Cardinality(Users(u)) = 0
    BY <1>3 DEF KeptState, LoopState, ReqOK, Unborn
<1>5. ~rq[u].func
    <2>1. \A v \in Workers : ~Using(v, u)
        BY <1>4, NoUsers
    <2>. QED  BY <2>1 DEF KeptState, LoopState, ReqOK, InFs, Using, Handles, HandlerPcs
<1>6. ~rq[u].interrupted
    BY <1>4 DEF KeptState, KeptOK
<1>7. /\ u \in dev.signalled' => rq[u].kind' # "forget"
      /\ rq[u].intr' => rq[u].kind' # "forget"
      /\ rq[u].ctr' > 0 /\ ~Untold(rq[u]')
    BY <1>5 DEF KeptState, KeptOK, Untold
<1>8. \A v \in Workers : Frees(v, u)' => Settled(u)'
    <2>1. \A v \in Workers \ {w} : worker[v].msg # Plain(u)
        BY DEF KeptState, LoopState, PlainOnce
    <2>. QED  BY <2>1 DEF Frees, Settled, Alone
<1>9. rq[u].kernel' = "sent" /\ rq[u].intr' => OnItsWay(u)'
    <2>1. \A v \in Workers : Carries(v, u) => Carries(v, u)'
        <3>1. ~Carries(w, u)
            BY <1>2, MsgFacts DEF Carries
        <3>. QED  BY <3>1 DEF Carries, Alone
    <2>2. OnItsWay(u) => OnItsWay(u)'
        BY <1>1, <1>6, <2>1 DEF OnItsWay
    <2>. QED  BY <2>2 DEF KeptState, KeptOK
<1>10. KeptOK(u)'
    BY <1>3, <1>7, <1>8, <1>9 DEF KeptOK
<1>11. OthersKept(w, u)
    BY <1>1, <1>2, MsgFacts DEF OthersKept
<1>. QED  BY <1>10, <1>11, KeptOne DEF KeptState

\* An interrupt dispatched finds its request or is on the list, and a
\* request dispatched finds the interrupt on the list.
LEMMA fuse_ll_processKept ==
    ASSUME KeptState, faults \in Nat, faults' = 0, NEW w \in Workers, fuse_ll_process(w)
    PROVE  \A x \in Uniques : KeptOK(x)'
<1>1. worker[w].pc = "process" /\ dev' = dev
    BY DEF fuse_ll_process, At
<1>2. PICK u \in Uniques : /\ Req(w) = u
                           /\ worker[w].msg = Plain(u) \/ worker[w].msg = Intr(u)
    BY <1>1, HasMessage DEF KeptState
<1>3. ~Fault
    BY DEF Fault
<1>4. CASE worker[w].msg.intr /\ do_interrupt(w)
    <2>1. worker[w].msg = Intr(u)
        BY <1>2, <1>4, MsgFacts
    <2>. QED  BY <1>1, <1>2, <1>4, <2>1, do_interruptKept
<1>5. CASE ~worker[w].msg.intr /\
           LET c == check_interrupt(u)
           IN  /\ ll' = c.ll
               /\ rq' = [rq EXCEPT ![u].live = TRUE, ![u].listed = TRUE,
                                   ![u].ctr = 1, ![u].interrupted = c.mine]
               /\ worker' = [worker EXCEPT ![w].old = c.old,
                   ![w].pc = IF c.old # 0 THEN "eagain" ELSE Handler(w)]
    <2>. DEFINE c == check_interrupt(u)
                pc == IF c.old # 0 THEN "eagain" ELSE Handler(w)
                s == [rq[u] EXCEPT !.live = TRUE, !.listed = TRUE, !.ctr = 1,
                                   !.interrupted = c.mine]
    <2>1. /\ worker[w].msg = Plain(u) /\ ll' = c.ll /\ rq' = [rq EXCEPT ![u] = s]
          /\ worker' = [worker EXCEPT ![w].old = c.old, ![w].pc = pc]
        BY <1>2, <1>5, MsgFacts
    <2>2. /\ pc \in {"eagain", "tree", "free"}
          /\ pc = "free" => rq[u].kind = "forget"
        <3>1. worker[w].msg.u = u
            BY <2>1, MsgFacts
        <3>2. Handler(w) \in {"tree", "free"}
              /\ (Handler(w) = "free" => rq[u].kind = "forget")
            BY <3>1 DEF Handler, Forgets
        <3>. HIDE DEF c
        <3>. QED  BY <3>2
    <2>. HIDE DEF c, pc
    <2>3. /\ s.kernel = rq[u].kernel /\ s.kind = rq[u].kind /\ s.intr = rq[u].intr
          /\ s.ctr = 1 /\ s.interrupted = c.mine /\ s.func = rq[u].func
        <3>1. rq[u] \in ReqRec
            BY SameRest DEF KeptState
        <3>. QED  BY <3>1 DEF ReqRec
    <2>4. rq[u]' = s /\ \A x \in Uniques \ {u} : rq[x]' = rq[x]
        BY <2>1, SameRest DEF KeptState
    <2>. HIDE DEF s
    <2>5. /\ worker[w].pc' = pc /\ worker[w].msg' = worker[w].msg
          /\ worker[w].old' = c.old
          /\ \A x \in Workers \ {w} : worker[x]' = worker[x]
        <3>1. worker \in [Workers -> WorkerRec]
            BY DEF KeptState, LoopState, LoopTypes
        <3>. QED  BY <2>1, <3>1 DEF WorkerRec
    <2>6. Alone(w, u)
        BY <2>1, <2>4, <2>5 DEF Alone
    <2>7. /\ rq[u].kernel' = rq[u].kernel /\ rq[u].kind' = rq[u].kind
          /\ rq[u].intr' = rq[u].intr /\ rq[u].func' = rq[u].func /\ rq[u].ctr' = 1
          /\ rq[u].interrupted' = c.mine
        BY <2>3, <2>4
    <2>. QED  BY <1>1, <2>1, <2>2, <2>5, <2>6, <2>7, RequestKept DEF c
<1>. QED  BY <1>2, <1>3, <1>4, <1>5 DEF fuse_ll_process

\* The interrupt queued is on its way.
LEMMA SendInterruptKept ==
    ASSUME KeptState, NEW u \in Uniques, SendInterrupt(u)
    PROVE  \A x \in Uniques : KeptOK(x)'
<1>1. /\ worker' = worker /\ ll' = ll /\ u \in dev.signalled
      /\ rq' = [rq EXCEPT ![u].intr = TRUE]
      /\ dev' = [dev EXCEPT !.msgs = dev.msgs \cup {Intr(u)}]
    BY DEF SendInterrupt, OnlyDev, Intr
<1>2. dev.msgs' = dev.msgs \cup {Intr(u)} /\ dev.signalled' = dev.signalled
    BY <1>1 DEF KeptState, Fields
<1>. DEFINE s == [rq[u] EXCEPT !.intr = TRUE]
<1>3. /\ s.kernel = rq[u].kernel /\ s.kind = rq[u].kind /\ s.ctr = rq[u].ctr
      /\ s.interrupted = rq[u].interrupted
      /\ s.func = rq[u].func /\ s.finished = rq[u].finished /\ s.told = rq[u].told
    <2>1. rq[u] \in ReqRec
        BY SameRest DEF KeptState
    <2>. QED  BY <2>1 DEF ReqRec
<1>4. rq[u]' = s /\ \A x \in Uniques \ {u} : rq[x]' = rq[x]
    BY <1>1, SameRest DEF KeptState
<1>. HIDE DEF s
<1>5. \A x \in Uniques, v \in Workers :
          /\ Handles(v, x)' = Handles(v, x) /\ Interrupts(v, x)' = Interrupts(v, x)
          /\ InFs(v, x)' = InFs(v, x) /\ Signals(v, x)' = Signals(v, x)
          /\ Frees(v, x)' = Frees(v, x) /\ Carries(v, x)' = Carries(v, x)
    BY <1>1 DEF Handles, Interrupts, InFs, Signals, Frees, Carries
<1>6. KeptOK(u)'
    <2>1. /\ rq[u].kind # "forget" /\ rq[u].kind' = rq[u].kind
          /\ rq[u].interrupted' => rq[u].ctr' > 0
          /\ (Settled(u)' <=> Settled(u))
          /\ Untold(rq[u]') => Untold(rq[u])
        BY <1>1, <1>3, <1>4 DEF KeptState, KeptOK, Settled, Untold
    <2>2. OnItsWay(u)'
        BY <1>2 DEF OnItsWay
    <2>. QED  BY <1>5, <2>1, <2>2 DEF KeptState, KeptOK, Using
<1>7. ASSUME NEW x \in Uniques, x # u  PROVE KeptOK(x)'
    <2>1. SameUse(x) /\ rq[x]' = rq[x]
        BY <1>4, <1>5, <1>7 DEF SameUse
    <2>2. OnItsWay(x) => OnItsWay(x)'
        BY <1>1, <1>2, <1>5, <2>1 DEF OnItsWay
    <2>. QED  BY <1>2, <1>5, <2>1, <2>2, KeptQuiet DEF KeptState
<1>. QED  BY <1>6, <1>7

\* The first worker holds no message.
LEMMA StartFirstKept ==
    ASSUME KeptState, StartFirst
    PROVE  \A x \in Uniques : KeptOK(x)'
<1>1. PICK o \in fuse_start_thread(mt) :
            worker' = [v \in Workers |-> IF v = o.new THEN fuse_do_work ELSE worker[v]]
    BY DEF StartFirst
<1>2. dev' = dev /\ rq' = rq /\ ll' = ll
    BY DEF StartFirst, OnlyMain
<1>3. o.new = 0 \/ (o.new \in Workers /\ worker[o.new].pc = "none")
    BY StartThread DEF KeptState, Fields, Begun
<1>4. \A v \in Workers : \/ worker[v]' = worker[v]
                         \/ worker[v].pc = "none" /\ worker[v].pc' \in {"end", "read"}
    BY <1>1, <1>3, LoopAssumption, AtTop DEF Workers
<1>. QED  BY <1>2, <1>4, KeptAllQuiet DEF OtherPcs

\* The loop alone goes on.
LEMMA MainKept ==
    ASSUME KeptState, worker' = worker, rq' = rq, ll' = ll, dev' = dev
    PROVE  \A x \in Uniques : KeptOK(x)'
BY KeptAllQuiet

(***************************************************************************)
(* The stages of the loop                                                  *)
(***************************************************************************)
\* A step of a thread, or of the kernel.
LEMMA WorkerStages ==
    ASSUME StagesFit, Fields, {"pc", "exit"} \subseteq DOMAIN mt',
           mt'.pc = mt.pc, mt'.exit = mt.exit, faults' \in Nat, faults' >= faults,
           se' = se \/ se' = [exited |-> TRUE],
           dev.mounted' => dev.mounted, mt.pc # "start" \/ worker' = worker
    PROVE  StagesFit' /\ (Going' => Going)
<1>1. StagesFit'
    <2>1. se.exited => se.exited'
        OBVIOUS
    <2>2. faults > 0 => faults' > 0
        BY DEF StagesFit
    <2>. QED  BY <2>1, <2>2 DEF StagesFit
<1>2. Going' => Going
    <2>1. ~se.exited' => ~se.exited
        OBVIOUS
    <2>2. faults' = 0 => faults = 0
        BY DEF StagesFit
    <2>. QED  BY <2>1, <2>2 DEF Going
<1>. QED  BY <1>1, <1>2

\* The stages stay in order, and a loop that has begun to end goes no further
\* than that.
LEMMA StagesOK ==
    ASSUME StagesFit, Fields, Next
    PROVE  StagesFit' /\ (Going' => Going)
<1>. DEFINE G == StagesFit' /\ (Going' => Going)
<1>1. faults \in Nat /\ \A w \in Workers : worker[w].pc # "none" => mt.pc # "start"
    BY DEF StagesFit
<1>2. ASSUME mt' = mt, se' = se, faults' = faults, dev.mounted' = dev.mounted,
             mt.pc # "start" \/ worker' = worker
      PROVE  G
    BY <1>1, <1>2, WorkerStages DEF Fields
<1>3. ASSUME NEW u \in Uniques, SendInterrupt(u)  PROVE G
    BY <1>2, <1>3 DEF SendInterrupt, OnlyDev, Fields
<1>4. ASSUME NEW w \in Workers, GotMessage(w)  PROVE G
    <2>1. se' = se /\ dev' = dev /\ mt.pc # "start"
        BY <1>1, <1>4 DEF GotMessage, At
    <2>2. CASE mt' = mt /\ faults' = faults
        BY <1>2, <2>1, <2>2
    <2>3. CASE ~(mt' = mt /\ faults' = faults)
        <3>. DEFINE m == IF Forgets(w) THEN mt
                         ELSE [mt EXCEPT !.numavail = mt.numavail - 1]
        <3>1. {"pc", "exit"} \subseteq DOMAIN m /\ m.pc = mt.pc /\ m.exit = mt.exit
            BY DEF Fields
        <3>2. PICK o \in Started(m) : mt' = o.mt /\ faults' = faults + o.n
            BY <1>4, <2>3 DEF GotMessage
        <3>. HIDE DEF m
        <3>3. /\ {"pc", "exit"} \subseteq DOMAIN o.mt /\ o.mt.pc = m.pc
              /\ o.mt.exit = m.exit /\ o.n \in Nat
            <4>1. CASE o \in fuse_start_thread(m)
                BY <3>1, <4>1, StartThread DEF Begun
            <4>2. CASE o = [mt |-> m, new |-> 0, n |-> 0]
                BY <3>1, <4>2
            <4>. QED  BY <4>1, <4>2 DEF Started
        <3>4. faults' \in Nat /\ faults' >= faults
            BY <1>1, <3>2, <3>3
        <3>. QED  BY <2>1, <3>1, <3>2, <3>3, <3>4, WorkerStages
    <2>. QED  BY <2>2, <2>3
<1>5. ASSUME NEW w \in Workers, fuse_ll_process(w)  PROVE G
    <2>1. se' = se /\ dev' = dev /\ mt' = mt /\ mt.pc # "start"
        BY <1>1, <1>5 DEF fuse_ll_process, At
    <2>2. faults' = faults \/ faults' = faults + 1
        BY <1>5 DEF fuse_ll_process, Fault
    <2>. QED  BY <1>1, <2>1, <2>2, WorkerStages DEF Fields
<1>6. ASSUME NEW w \in Workers, ReplyAgain(w) \/ send_reply_iov(w)  PROVE G
    <2>1. se' = se /\ mt' = mt /\ faults' = faults /\ mt.pc # "start"
        BY <1>1, <1>6 DEF ReplyAgain, send_reply_iov, At
    <2>2. dev.mounted' = dev.mounted
        BY <1>6 DEF ReplyAgain, send_reply_iov, Fields
    <2>. QED  BY <1>2, <2>1, <2>2
<1>7. ASSUME NEW w \in Workers, \/ EnterFs(w) \/ fuse_do_finish_interrupt(w)
                                \/ free_req(w) \/ FsEnds(w)
      PROVE  G
    <2>1. se' = se /\ mt' = mt /\ faults' = faults /\ mt.pc # "start" /\ dev' = dev
        BY <1>1, <1>7 DEF EnterFs, fuse_do_finish_interrupt, free_req, FsEnds, At
    <2>. QED  BY <1>2, <2>1
<1>8. ASSUME NEW w \in Workers,
             find_interrupted(w) \/ fuse_interrupt(w) \/ PutInterrupted(w)
      PROVE  G
    <2>1. se' = se /\ mt' = mt /\ faults' = faults /\ mt.pc # "start" /\ dev' = dev
        BY <1>1, <1>8 DEF find_interrupted, fuse_interrupt, PutInterrupted, OnlyReq, At
    <2>. QED  BY <1>2, <2>1
<1>9. ASSUME NEW w \in Workers, Counted(w) \/ WorkerEnds(w)  PROVE G
    <2>1. se' = se /\ faults' = faults /\ mt.pc # "start" /\ dev' = dev
        BY <1>1, <1>9 DEF Counted, WorkerEnds, At
    <2>2. {"pc", "exit"} \subseteq DOMAIN mt' /\ mt'.pc = mt.pc /\ mt'.exit = mt.exit
        BY <1>9 DEF Counted, WorkerEnds, Fields
    <2>. QED  BY <1>1, <2>1, <2>2, WorkerStages
<1>10. ASSUME NEW w \in Workers, Cancelled(w)  PROVE G
    <2>1. se' = se /\ mt' = mt /\ faults' = faults /\ mt.pc # "start" /\ dev' = dev
        BY <1>1, <1>10 DEF Cancelled, CancelPoints, At
    <2>. QED  BY <1>2, <2>1
<1>11. ASSUME NEW w \in Workers, fuse_kern_chan_receive(w)  PROVE G
    <2>1. se' = se /\ mt' = mt /\ faults' = faults /\ mt.pc # "start"
        BY <1>1, <1>11 DEF fuse_kern_chan_receive, At
    <2>2. dev.mounted' = dev.mounted
        BY <1>11 DEF fuse_kern_chan_receive, Fields
    <2>. QED  BY <1>2, <2>1, <2>2
<1>12. ASSUME NEW w \in Workers, ReceiveFails(w)  PROVE G
    <2>1. se' = [exited |-> TRUE] /\ mt.pc # "start" /\ dev.mounted
        BY <1>1, <1>12 DEF ReceiveFails, fuse_session_exit, At
    <2>2. faults' = faults \/ faults' = faults + 1
        BY <1>12 DEF ReceiveFails, Fault
    <2>3. {"pc", "exit"} \subseteq DOMAIN mt' /\ mt'.pc = mt.pc /\ mt'.exit = mt.exit
        BY <1>12 DEF ReceiveFails, Fields
    <2>4. faults' \in Nat /\ faults' >= faults
        BY <1>1, <2>2
    <2>. QED  BY <2>1, <2>3, <2>4, WorkerStages
<1>13. CASE StartFirst
    <2>1. PICK o \in fuse_start_thread(mt) :
              /\ mt' = [o.mt EXCEPT !.pc = IF o.new = 0 THEN "done" ELSE "wait"]
              /\ faults' = faults + o.n
        BY <1>13 DEF StartFirst
    <2>2. /\ {"pc", "exit"} \subseteq DOMAIN o.mt /\ o.mt.exit = mt.exit /\ o.n \in Nat
          /\ o.new = 0 => o.n = 1 \/ \A w \in Workers : worker[w].pc # "none"
        BY StartThread DEF Fields, Begun
    <2>3. dev' = dev /\ se' = se /\ mt.pc = "start"
        BY <1>13 DEF StartFirst, OnlyMain, MainAt
    <2>4. o.new = 0 => o.n = 1
        <3>1. 1 \in Workers
            BY LoopAssumption DEF Workers
        <3>. QED  BY <2>2, <2>3, <3>1 DEF StagesFit
    <2>5. mt'.exit = mt.exit /\ mt'.pc = IF o.new = 0 THEN "done" ELSE "wait"
        BY <2>1, <2>2
    <2>6. faults' \in Nat /\ (faults' = 0 => faults = 0) /\ (o.new = 0 => faults' > 0)
        BY <1>1, <2>1, <2>2, <2>4
    <2>7. StagesFit'
        BY <2>5, <2>6 DEF StagesFit
    <2>. QED  BY <2>3, <2>5, <2>6, <2>7 DEF Going
<1>14. CASE WaitFinish
    <2>1. dev' = dev /\ se' = se /\ faults' = faults
        BY <1>14 DEF WaitFinish, OnlyMain
    <2>2. mt'.pc \in {"wait", "asleep", "walk"} /\ (mt'.pc = "walk" => se.exited)
        BY <1>14 DEF WaitFinish, Tested, Fields
    <2>3. mt'.exit = mt.exit
        BY <1>14 DEF WaitFinish, Tested, Fields
    <2>. QED  BY <1>1, <2>1, <2>2, <2>3 DEF StagesFit, Going
<1>15. CASE exit_handler
    <2>1. dev' = dev /\ se' = [exited |-> TRUE] /\ faults' = faults
        BY <1>15 DEF exit_handler, OnlyMain, fuse_session_exit
    <2>2. mt'.pc \in {"wait", "woken"}
        BY <1>15 DEF exit_handler, MainAt, Fields
    <2>. QED  BY <1>1, <2>1, <2>2 DEF StagesFit, Going
<1>16. CASE CancelWorkers
    <2>1. dev' = dev /\ se' = se /\ faults' = faults /\ mt.pc = "walk"
        BY <1>16 DEF CancelWorkers, OnlyMain, MainAt
    <2>2. (mt'.pc = "walk" /\ mt'.exit = mt.exit) \/ (mt'.pc = "join" /\ mt'.exit = TRUE)
        BY <1>16 DEF CancelWorkers, MainAt, Fields
    <2>. QED  BY <1>1, <2>1, <2>2 DEF StagesFit, Going
<1>17. CASE fuse_join_worker
    <2>1. dev' = dev /\ faults' = faults /\ mt.pc = "join"
        BY <1>17 DEF fuse_join_worker, OnlyMain, MainAt
    <2>2. mt'.pc \in {"join", "done"} /\ mt'.exit = mt.exit
        BY <1>17 DEF fuse_join_worker, MainAt, Fields
    <2>. QED  BY <1>1, <2>1, <2>2 DEF StagesFit, Going
<1>. QED  BY <1>3, <1>4, <1>5, <1>6, <1>7, <1>8, <1>9, <1>10, <1>11, <1>12,
             <1>13, <1>14, <1>15, <1>16, <1>17 DEF Next, MainStep, WorkerStep

\* No interrupt has been sent at the start.
LEMMA KeptInit ==
    ASSUME Init
    PROVE  KeptInv
<1>1. /\ worker = [w \in Workers |-> NoWorker] /\ mt.pc = "start" /\ faults = 0
    BY DEF Init
<1>2. \A w \in Workers : worker[w] = NoWorker
    BY <1>1
<1>3. PICK l \in Loads :
          /\ rq = [u \in Uniques |-> IF u \notin DOMAIN l.kinds THEN NoReq
                      ELSE [NoReq EXCEPT !.kernel = "sent", !.kind = l.kinds[u]]]
          /\ dev = [msgs |-> [u : DOMAIN l.kinds, intr : {FALSE}],
                    mounted |-> TRUE, signalled |-> l.signalled]
    BY DEF Init
<1>4. StagesFit
    BY <1>1, <1>2, AtTop DEF StagesFit
<1>5. ASSUME NEW u \in Uniques
      PROVE  /\ rq[u].intr = FALSE /\ rq[u].interrupted = FALSE
             /\ u \in dev.signalled => rq[u].kind # "forget"
    <2>1. CASE u \notin DOMAIN l.kinds
        <3>1. rq[u] = NoReq
            BY <1>3, <2>1
        <3>. QED  BY <3>1 DEF NoReq
    <2>2. CASE u \in DOMAIN l.kinds
        <3>. DEFINE s == [NoReq EXCEPT !.kernel = "sent", !.kind = l.kinds[u]]
        <3>1. l.kinds[u] \in {"read", "write", "forget"}
            BY <2>2, LoopAssumption
        <3>2. NoReq \in ReqRec /\ NoReq.intr = FALSE /\ NoReq.interrupted = FALSE
            BY DEF NoReq, ReqRec
        <3>3. /\ s.intr = NoReq.intr /\ s.interrupted = NoReq.interrupted
              /\ s.kind = l.kinds[u]
            BY <3>1, <3>2, SentFields
        <3>4. rq[u] = s
            BY <1>3, <2>2
        <3>. HIDE DEF s
        <3>5. u \in dev.signalled => l.kinds[u] # "forget"
            BY <1>3, LoopAssumption
        <3>. QED  BY <3>2, <3>3, <3>4, <3>5
    <2>. QED  BY <2>1, <2>2
<1>6. ASSUME NEW u \in Uniques  PROVE KeptOK(u)
    <2>1. \A w \in Workers : ~Using(w, u) /\ ~Frees(w, u)
        BY <1>2, <1>6, AtTop, MsgFacts DEF Using, Handles, Interrupts, Frees
    <2>2. ~rq[u].intr /\ ~rq[u].interrupted
        BY <1>5
    <2>. QED  BY <1>5, <2>1, <2>2 DEF KeptOK, Untold
<1>. QED  BY <1>4, <1>6 DEF KeptInv

\* Every step of Next keeps the two invariants together.
LEMMA KeptNext ==
    ASSUME LoopInv, KeptInv, [Next]_vars
    PROVE  KeptInv'
<1>1. CASE UNCHANGED vars
    <2>1. StagesFit' /\ (Going' => Going)
        BY <1>1 DEF vars, KeptInv, StagesFit, Going
    <2>2. ASSUME Going  PROVE \A u \in Uniques : KeptOK(u)'
        <3>1. Early
            BY <2>2 DEF KeptInv, StagesFit, Going, Early
        <3>. QED  BY <1>1, <2>2, <3>1, MainKept DEF vars, KeptState, KeptInv, LoopInv
    <2>. QED  BY <2>1, <2>2 DEF KeptInv
<1>2. CASE Next
    <2>1. StagesFit' /\ (Going' => Going)
        BY <1>2, StagesOK DEF KeptInv, LoopInv
    <2>2. ASSUME Going'  PROVE \A u \in Uniques : KeptOK(u)'
        <3>1. Going
            BY <2>1, <2>2
        <3>2. Early
            BY <3>1 DEF KeptInv, StagesFit, Going, Early
        <3>3. /\ KeptState /\ dev.mounted /\ ~se.exited /\ ~mt.exit
              /\ faults \in Nat
            BY <3>1, <3>2 DEF KeptState, KeptInv, LoopInv, Going, StagesFit
        <3>4. faults' = 0 /\ ~se.exited'
            BY <2>2 DEF Going
        <3>5. ASSUME NEW w \in Workers,
                     \/ WorkerStep(w) \/ fuse_kern_chan_receive(w)
                     \/ ReceiveFails(w) \/ FsEnds(w)
              PROVE  \A u \in Uniques : KeptOK(u)'
            <4>1. ~Cancelled(w)
                BY <3>3 DEF KeptState, LoopState, PartsFit, WorkerFits, Cancelled
            <4>2. ~ReceiveFails(w)
                BY <3>4 DEF ReceiveFails, fuse_session_exit
            <4>. QED  BY <3>3, <3>4, <3>5, <4>1, <4>2, GotMessageKept,
                         fuse_ll_processKept, ReplyAgainKept, EnterFsKept,
                         fuse_do_finish_interruptKept, send_reply_iovKept,
                         free_reqKept, find_interruptedKept, fuse_interruptKept,
                         PutInterruptedKept, QuietKept, ReceiveKept, FsEndsKept
                      DEF WorkerStep
        <3>6. CASE StartFirst
            BY <3>3, <3>6, StartFirstKept
        <3>7. CASE WaitFinish \/ exit_handler
            BY <3>3, <3>7, MainKept DEF WaitFinish, exit_handler, OnlyMain
        <3>8. CASE CancelWorkers \/ fuse_join_worker
            <4>1. mt.pc \in {"walk", "join"}
                BY <3>8 DEF CancelWorkers, fuse_join_worker, MainAt
            <4>. QED  BY <3>2, <4>1 DEF Early
        <3>. QED  BY <1>2, <3>3, <3>5, <3>6, <3>7, <3>8, SendInterruptKept
                  DEF Next, MainStep
    <2>. QED  BY <2>1, <2>2 DEF KeptInv
<1>. QED  BY <1>1, <1>2

\* The inductive invariant implies what the run checks.
LEMMA KeptInvSuffices == KeptInv => InterruptsKept
<1>. SUFFICES ASSUME KeptInv, Going, NEW u \in Uniques,
                     rq[u].kernel = "sent", rq[u].intr
              PROVE  /\ \/ [u |-> u, intr |-> TRUE] \in dev.msgs
                        \/ InSeq(ll, u) \/ rq[u].interrupted
                        \/ \E w \in Workers :
                              \/ worker[w].old = u
                              \/ /\ worker[w].msg = [u |-> u, intr |-> TRUE]
                                 /\ worker[w].pc \in {"got", "process", "ilock"}
                     /\ rq[u].interrupted /\ rq[u].func /\ ~rq[u].finished /\ ~rq[u].told =>
                           \E w \in Workers : Interrupting(w, u) /\ At(w, "signal")
    BY DEF InterruptsKept, Going
<1>1. KeptOK(u)
    BY DEF KeptInv
<1>2. OnItsWay(u)
    BY <1>1 DEF KeptOK
<1>3. Untold(rq[u]) => \E w \in Workers : Interrupting(w, u) /\ At(w, "signal")
    BY <1>1 DEF KeptOK, Signals, Interrupting, At, Intr
<1>. QED  BY <1>2, <1>3 DEF OnItsWay, Carries, Untold, Intr

\* No interrupt is lost, whatever order the threads come in and however many
\* there are, as long as the loop goes on and nothing fails
\* (check_interrupt, find_interrupted, fuse_do_prepare_interrupt).
THEOREM InterruptsAreKept == Spec => []InterruptsKept
<1>1. Init => LoopInv /\ KeptInv
    BY LoopInit, KeptInit
<1>2. LoopInv /\ KeptInv /\ [Next]_vars => (LoopInv /\ KeptInv)'
    BY LoopNext, KeptNext
<1>3. KeptInv => InterruptsKept
    BY KeptInvSuffices
<1>. QED  BY <1>1, <1>2, <1>3, PTL DEF Spec
====
