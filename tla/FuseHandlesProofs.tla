------------------------- MODULE FuseHandlesProofs -------------------------
(***************************************************************************)
(* Proofs about the calls that only pass a question to the file system     *)
(* (FuseCalls), for any number of tasks, any operations and any methods    *)
(* that the file system lacks; about the pages and the size of a file      *)
(* (FuseData), for any number of tasks and of versions of the file; about  *)
(* locks (FuseLocks), for any number of threads and bytes; and about the   *)
(* listing of a directory (FuseDir), for any places, lengths and pages.    *)
(***************************************************************************)
EXTENDS FuseHandles, WellFoundedInduction, FiniteSetTheorems, TLAPS

(***************************************************************************)
(* The inductive invariant of the calls                                    *)
(***************************************************************************)
\* What a task is doing, as a record.
CallRec == [at : {"idle", "sent", "reply", "latch", "attr", "recheck", "ret"},
            op : CallOps \cup {"none"},
            res : {"none", "ok", "EIO", "ENOSYS", "EACCES", "EOPNOTSUPP"},
            word : SUBSET (CallOps \cup {"lk", "conn_init"}),
            st : BOOLEAN, denied : BOOLEAN, old : SUBSET Callers, over : BOOLEAN]

CallsTypeOK ==
    /\ bits \subseteq CallOps \cup {"lk", "conn_init"}
    /\ initWord \subseteq CallOps \cup {"lk", "conn_init"}
    /\ initAt \in {"sent", "set", "done"}
    /\ mode \in BOOLEAN /\ imode \in BOOLEAN
    /\ ccall \in [Callers -> CallRec]

\* The operations whose latch the invariant speaks of.
Latched == LatchOps \cup {"lk"}

\* A word of the bit field, current or kept by somebody: it says of no method
\* that is there that it is not, and after INIT it has no_lock if that is so.
Honest(word) == word \cap methods \cap Latched = {}
KnowsLk(word) == "lk" \notin methods => "lk" \in word

WordsSound ==
    /\ Honest(bits) /\ Honest(initWord)
    /\ initAt = "done" => KnowsLk(bits)

\* A call that passes on a question.
Passed(c) ==
    /\ c.at \in {"sent", "reply"} /\ c.op = "lk" => "lk" \in methods
    /\ c.at = "reply" => /\ c.op \in methods => c.res \in {"ok", "EIO"}
                         /\ c.op \notin methods /\ c.op # "statfs" => c.res = "ENOSYS"
    /\ c.at = "latch" => /\ c.op \in LatchOps \ methods
                         /\ Honest(c.word) /\ KnowsLk(c.word)
    /\ c.at = "ret" /\ c.op \in Latched /\ c.res # "EACCES" =>
            IF c.op \in methods THEN c.res \in {"ok", "EIO"} ELSE c.res = Fallback(c.op)

\* A call that asks for a permission.
Asked(t, c) ==
    /\ c.at \in {"attr", "recheck"} => c.op \in {"permission", "getattr"}
    /\ c.at = "recheck" => c.op = "permission"
    /\ t \notin c.old
    /\ c.op = "permission" =>
            /\ mode \/ c.denied
            /\ c.at = "recheck" => imode \/ c.denied \/ c.over
            /\ c.at = "ret" /\ c.res = "EACCES" /\ t \in allowed => c.denied \/ c.over

\* Attributes that forbid the access and are not applied yet came in before
\* the call, or the mode forbade the access during it.
Excused(c, u) == c.op = "permission" /\ ccall[u].at = "attr" =>
                     ccall[u].st \/ u \in c.old \/ c.denied

CallsInv ==
    /\ CallsTypeOK
    /\ WordsSound
    /\ \A t \in Callers :
            /\ initAt # "done" => ccall[t] = AtRest
            /\ Passed(ccall[t]) /\ Asked(t, ccall[t])
            /\ \A u \in Callers : Excused(ccall[t], u)

(***************************************************************************)
(* Steps of one task                                                       *)
(***************************************************************************)
\* Everything but the calls stays.
Rest == <<initAt, initWord, methods, dperm, allowed, mode, imode>>

\* Task t goes on as v, and the word of the latches may change.
LEMMA OneCallStep ==
    ASSUME CallsInv, NEW t \in Callers, NEW v \in CallRec,
           ccall' = [ccall EXCEPT ![t] = v], UNCHANGED Rest, initAt = "done",
           bits' \subseteq CallOps \cup {"lk", "conn_init"},
           Honest(bits'), KnowsLk(bits'), Passed(v), Asked(t, v),
           \A u \in Callers \ {t} : Excused(v, u),
           v.at = "attr" /\ v.op = "permission" => v.st \/ t \in v.old \/ v.denied,
           v.at = "attr" => \A w \in Callers \ {t} : ccall[w].op = "permission" =>
                                v.st \/ t \in ccall[w].old \/ ccall[w].denied
    PROVE  CallsInv'
<1>1. ccall \in [Callers -> CallRec]
    BY DEF CallsInv, CallsTypeOK
<1>2. /\ ccall' \in [Callers -> CallRec] /\ ccall'[t] = v
      /\ \A u \in Callers \ {t} : ccall'[u] = ccall[u]
    BY <1>1
<1>3. /\ initAt' = initAt /\ initWord' = initWord /\ methods' = methods
      /\ allowed' = allowed /\ mode' = mode /\ imode' = imode
    BY DEF Rest
<1>4. CallsTypeOK'
    BY <1>2, <1>3 DEF CallsInv, CallsTypeOK
<1>5. WordsSound'
    BY <1>3 DEF CallsInv, WordsSound, Honest, KnowsLk
<1>6. ASSUME NEW w \in Callers
      PROVE  Passed(ccall[w])' /\ Asked(w, ccall[w])'
    <2>1. CASE w = t
        BY <1>2, <1>3, <2>1 DEF Passed, Asked, Honest, KnowsLk
    <2>2. CASE w # t
        BY <1>2, <1>3, <2>2 DEF CallsInv, Passed, Asked, Honest, KnowsLk
    <2>. QED  BY <2>1, <2>2
<1>7. ASSUME NEW w \in Callers, NEW u \in Callers
      PROVE  Excused(ccall[w], u)'
    <2>1. CASE w = t /\ u = t
        BY <1>2, <2>1 DEF Excused
    <2>2. CASE w = t /\ u # t
        BY <1>2, <2>2 DEF Excused
    <2>3. CASE w # t /\ u = t
        BY <1>2, <2>3 DEF Excused
    <2>4. CASE w # t /\ u # t
        BY <1>2, <2>4 DEF CallsInv, Excused
    <2>. QED  BY <2>1, <2>2, <2>3, <2>4
<1>. QED  BY <1>3, <1>4, <1>5, <1>6, <1>7 DEF CallsInv

\* A record that keeps the fields of a permission but for `at` and `res`.
SameQuestion(c, v) ==
    /\ v.op = c.op /\ v.st = c.st /\ v.denied = c.denied /\ v.old = c.old
    /\ v.over = c.over

\* The record of a new call.
Fresh(at, op, res) == [AtRest EXCEPT !.at = at, !.op = op, !.res = res]

\* The fields of a call that begins or ends.
LEMMA FreshCall ==
    ASSUME NEW at \in {"idle", "sent", "ret"}, NEW op \in CallOps \cup {"none"},
           NEW res \in {"none", "ok", "ENOSYS", "EACCES", "EOPNOTSUPP"}
    PROVE  LET v == Fresh(at, op, res)
           IN  /\ v \in CallRec /\ v.at = at /\ v.op = op /\ v.res = res
               /\ v.word = {} /\ v.old = {}
BY DEF AtRest, CallRec, Fresh

\* A new call with or without a latch.
LEMMA BeginOK ==
    ASSUME CallsInv, NEW t \in Callers, NEW op, op # "permission", Begin(t, op)
    PROVE  CallsInv'
<1>. DEFINE res == IF op = "listxattr" /\ t \notin allowed THEN "EACCES"
                   ELSE IF op = "statfs" /\ t \notin allowed THEN "ok"
                   ELSE IF op \in bits THEN Fallback(op) ELSE "none"
            at == IF res = "none" THEN "sent" ELSE "ret"
            v == Fresh(at, op, res)
<1>1. /\ op \in CallOps /\ initAt = "done" /\ UNCHANGED <<bits, Rest>>
    BY DEF Begin, GetReq, Blocked, Rest
<1>2. Fallback(op) \in {"EOPNOTSUPP", "ENOSYS", "ok"}
    BY DEF Fallback
<1>3. /\ res \in {"none", "ok", "ENOSYS", "EACCES", "EOPNOTSUPP"}
      /\ at \in {"idle", "sent", "ret"}
    BY <1>2
<1>4. ccall' = [ccall EXCEPT ![t] = v]
    <2>1. CASE op = "listxattr" /\ t \notin allowed
        BY <2>1 DEF Begin, Fresh
    <2>2. CASE ~(op = "listxattr" /\ t \notin allowed) /\ op = "statfs" /\ t \notin allowed
        BY <2>2 DEF Begin, Fresh
    <2>3. CASE /\ ~(op = "listxattr" /\ t \notin allowed)
               /\ ~(op = "statfs" /\ t \notin allowed) /\ op \in bits
        BY <1>2, <2>3 DEF Begin, Fresh
    <2>4. CASE /\ ~(op = "listxattr" /\ t \notin allowed)
               /\ ~(op = "statfs" /\ t \notin allowed) /\ op \notin bits
        <3>1. PICK r : r = AtRest
            OBVIOUS
        <3>2. r \in CallRec /\ r.res = "none"
            BY <3>1 DEF AtRest, CallRec
        <3>3. [r EXCEPT !.at = "sent", !.op = op] = [r EXCEPT !.at = "sent", !.op = op, !.res = "none"]
            BY <3>2 DEF CallRec
        <3>. QED  BY <2>4, <3>1, <3>3 DEF Begin, Fresh
    <2>. QED  BY <2>1, <2>2, <2>3, <2>4
<1>5. /\ at = "sent" => op \notin bits
      /\ at = "ret" /\ res # "EACCES" /\ op # "statfs" => op \in bits /\ res = Fallback(op)
    BY <1>2
<1>. HIDE DEF res, at
<1>6. /\ v \in CallRec /\ v.at = at /\ v.op = op /\ v.res = res
      /\ v.word = {} /\ v.old = {}
    BY <1>1, <1>3, FreshCall
<1>. HIDE DEF v
<1>7. Passed(v)
    <2>1. at = "sent" /\ op = "lk" => "lk" \in methods
        BY <1>1, <1>5 DEF CallsInv, WordsSound, KnowsLk
    <2>2. op \in bits /\ op \in Latched => op \notin methods
        BY DEF CallsInv, WordsSound, Honest
    <2>3. op \in Latched => op # "statfs"
        BY DEF Latched, LatchOps, OkOps, XattrOps
    <2>. QED  BY <1>3, <1>5, <1>6, <2>1, <2>2, <2>3 DEF Passed
<1>8. Asked(t, v) /\ \A u : Excused(v, u)
    BY <1>3, <1>6 DEF Asked, Excused
<1>9. Honest(bits') /\ KnowsLk(bits') /\ bits' \subseteq CallOps \cup {"lk", "conn_init"}
    BY <1>1 DEF CallsInv, CallsTypeOK, WordsSound
<1>. QED  BY <1>1, <1>3, <1>4, <1>6, <1>7, <1>8, <1>9, OneCallStep

\* A later step of a call that keeps its question.
LEMMA LaterOK ==
    ASSUME CallsInv, NEW t \in Callers, NEW v \in CallRec, initAt = "done",
           ccall' = [ccall EXCEPT ![t] = v], UNCHANGED Rest,
           bits' \subseteq CallOps \cup {"lk", "conn_init"},
           Honest(bits'), KnowsLk(bits'), SameQuestion(ccall[t], v),
           v.at # "attr", v.at = "recheck" => ccall[t].at = "recheck",
           v.at = "ret" /\ v.op = "permission" /\ v.res = "EACCES" /\ t \in allowed
                => v.denied \/ v.over,
           Passed(v)
    PROVE  CallsInv'
<1>1. Asked(t, v)
    BY DEF CallsInv, Asked, SameQuestion
<1>2. \A u \in Callers : Excused(v, u)
    BY DEF CallsInv, Excused, SameQuestion
<1>. QED  BY <1>1, <1>2, OneCallStep

\* libfuse answers.
LEMMA HandlerOK ==
    ASSUME CallsInv, NEW t \in Callers, fuse_lib_handler(t)
    PROVE  CallsInv'
<1>. DEFINE c == ccall[t]
<1>1. PICK res \in fuse_fs(c.op) : ccall' = [ccall EXCEPT ![t].at = "reply", ![t].res = res]
    BY DEF fuse_lib_handler
<1>. DEFINE v == [c EXCEPT !.at = "reply", !.res = res]
<1>2. /\ c.at = "sent" /\ c.op \notin {"permission", "getattr"} /\ UNCHANGED <<bits, Rest>>
    BY DEF fuse_lib_handler, Rest
<1>3. c \in CallRec /\ c.op \in CallOps \cup {"none"} /\ ccall \in [Callers -> CallRec]
    BY DEF CallsInv, CallsTypeOK, CallRec
<1>4. /\ c.op \in methods => res \in {"ok", "EIO"}
      /\ c.op \notin methods /\ c.op # "statfs" => res = "ENOSYS"
      /\ res \in {"ok", "EIO", "ENOSYS"}
    BY DEF fuse_fs
<1>5. initAt = "done"
    BY <1>2 DEF CallsInv, AtRest
<1>6. ccall' = [ccall EXCEPT ![t] = v]
    BY <1>1, <1>3
<1>7. /\ v \in CallRec /\ v.at = "reply" /\ v.res = res /\ SameQuestion(c, v)
    BY <1>3, <1>4 DEF CallRec, SameQuestion
<1>. HIDE DEF v
<1>8. Passed(v)
    BY <1>2, <1>4, <1>7 DEF CallsInv, Passed, SameQuestion
<1>9. Honest(bits') /\ KnowsLk(bits') /\ bits' \subseteq CallOps \cup {"lk", "conn_init"}
    BY <1>2, <1>5 DEF CallsInv, CallsTypeOK, WordsSound
<1>. QED  BY <1>2, <1>5, <1>6, <1>7, <1>8, <1>9, LaterOK

\* What the invariant says of one task.
LEMMA CallFacts ==
    ASSUME CallsInv, NEW t \in Callers
    PROVE  /\ ccall \in [Callers -> CallRec] /\ ccall[t] \in CallRec
           /\ Passed(ccall[t]) /\ Asked(t, ccall[t])
           /\ \A u \in Callers : Excused(ccall[t], u)
           /\ ccall[t].at # "idle" => initAt = "done"
           /\ bits \subseteq CallOps \cup {"lk", "conn_init"} /\ Honest(bits)
           /\ initAt = "done" => KnowsLk(bits)
BY DEF CallsInv, CallsTypeOK, WordsSound, AtRest

\* The answer is taken, and may start the setting of a latch.
LEMMA AnswerOK ==
    ASSUME CallsInv, NEW t \in Callers, AnswerOf(t)
    PROVE  CallsInv'
<1>. DEFINE c == ccall[t]
<1>1. /\ c.at = "reply" /\ UNCHANGED <<bits, Rest>>
    BY DEF AnswerOf, Rest
<1>2. /\ ccall \in [Callers -> CallRec] /\ c \in CallRec /\ Passed(c)
      /\ initAt = "done" /\ Honest(bits) /\ KnowsLk(bits)
      /\ bits \subseteq CallOps \cup {"lk", "conn_init"}
    BY <1>1, CallFacts
<1>3. Honest(bits') /\ KnowsLk(bits') /\ bits' \subseteq CallOps \cup {"lk", "conn_init"}
    BY <1>1, <1>2
<1>4. CASE c.res = "ENOSYS" /\ c.op \in LatchOps
    <2>. DEFINE v == [c EXCEPT !.at = "latch", !.word = bits]
    <2>1. ccall' = [ccall EXCEPT ![t] = v]
        BY <1>2, <1>4 DEF AnswerOf
    <2>2. v \in CallRec /\ v.at = "latch" /\ v.word = bits /\ SameQuestion(c, v)
        BY <1>2 DEF CallRec, SameQuestion
    <2>. HIDE DEF v
    <2>3. c.op \notin methods
        BY <1>1, <1>2, <1>4 DEF Passed
    <2>4. Passed(v)
        BY <1>2, <1>4, <2>2, <2>3 DEF Passed, SameQuestion
    <2>. QED  BY <1>1, <1>2, <1>3, <2>1, <2>2, <2>4, LaterOK
<1>5. CASE ~(c.res = "ENOSYS" /\ c.op \in LatchOps)
    <2>. DEFINE v == [c EXCEPT !.at = "ret", !.res = c.res]
    <2>1. ccall' = [ccall EXCEPT ![t] = v]
        BY <1>2, <1>5 DEF AnswerOf, Return
    <2>2. v \in CallRec /\ v.at = "ret" /\ v.res = c.res /\ SameQuestion(c, v)
        BY <1>2 DEF CallRec, SameQuestion
    <2>. HIDE DEF v
    <2>3. c.op \in Latched => c.op # "statfs"
        BY DEF Latched, LatchOps, OkOps, XattrOps
    <2>4. c.op \in Latched => c.op \in methods
        BY <1>1, <1>2, <1>5, <2>3 DEF Passed, Latched
    <2>5. Passed(v)
        BY <1>1, <1>2, <2>2, <2>4 DEF Passed, SameQuestion
    <2>6. c.op = "permission" => c.res # "EACCES"
        BY <1>1, <1>2 DEF Passed
    <2>. QED  BY <1>1, <1>2, <1>3, <2>1, <2>2, <2>5, <2>6, LaterOK DEF SameQuestion
<1>. QED  BY <1>4, <1>5

\* The word is written back, with one latch more.
LEMMA LatchOK ==
    ASSUME CallsInv, NEW t \in Callers, SetLatch(t)
    PROVE  CallsInv'
<1>. DEFINE c == ccall[t]
            res == Fallback(c.op)
            none == {}
            v == [c EXCEPT !.at = "ret", !.res = res, !.word = none]
<1>1. /\ c.at = "latch" /\ bits' = c.word \cup {c.op} /\ UNCHANGED Rest
      /\ ccall' = [ccall EXCEPT ![t].at = "ret", ![t].res = res, ![t].word = none]
    BY DEF SetLatch, Rest
<1>2. /\ ccall \in [Callers -> CallRec] /\ c \in CallRec /\ Passed(c)
      /\ initAt = "done"
    BY <1>1, CallFacts
<1>3. c.op \in LatchOps \ methods /\ Honest(c.word) /\ KnowsLk(c.word)
    BY <1>1, <1>2 DEF Passed
<1>4. Honest(bits') /\ KnowsLk(bits')
    BY <1>1, <1>3 DEF Honest, KnowsLk
<1>5. bits' \subseteq CallOps \cup {"lk", "conn_init"}
    <2>1. c.word \subseteq CallOps \cup {"lk", "conn_init"} /\ c.op \in CallOps \cup {"none"}
        BY <1>2 DEF CallRec
    <2>2. c.op # "none"
        BY <1>3 DEF LatchOps, OkOps, XattrOps
    <2>. QED  BY <1>1, <2>1, <2>2
<1>6. res \in {"EOPNOTSUPP", "ENOSYS", "ok"}
    BY DEF Fallback
<1>7. none \in SUBSET (CallOps \cup {"lk", "conn_init"})
    OBVIOUS
<1>. HIDE DEF res, none
<1>8. ccall' = [ccall EXCEPT ![t] = v]
    BY <1>1, <1>2
<1>9. v \in CallRec /\ v.at = "ret" /\ v.res = res /\ SameQuestion(c, v)
    BY <1>2, <1>6, <1>7 DEF CallRec, SameQuestion
<1>. HIDE DEF v
<1>10. Passed(v)
    BY <1>3, <1>9 DEF Passed, SameQuestion, res
<1>11. v.res # "EACCES"
    BY <1>6, <1>9
<1>. QED  BY <1>1, <1>2, <1>4, <1>5, <1>8, <1>9, <1>10, <1>11, LaterOK

\* A call has returned.
LEMMA FinishOK ==
    ASSUME CallsInv, NEW t \in Callers, Finish(t)
    PROVE  CallsInv'
<1>1. /\ ccall[t].at = "ret" /\ ccall' = [ccall EXCEPT ![t] = AtRest]
      /\ UNCHANGED <<bits, Rest>>
    BY DEF Finish, Rest
<1>2. initAt = "done" /\ Honest(bits) /\ KnowsLk(bits)
      /\ bits \subseteq CallOps \cup {"lk", "conn_init"}
    BY <1>1, CallFacts
<1>3. /\ AtRest \in CallRec /\ AtRest.at = "idle" /\ AtRest.op = "none"
      /\ AtRest.old = {}
    BY DEF AtRest, CallRec
<1>4. Passed(AtRest)
    BY <1>3 DEF Passed
<1>5. Asked(t, AtRest) /\ \A u : Excused(AtRest, u)
    BY <1>3 DEF Asked, Excused
<1>6. Honest(bits') /\ KnowsLk(bits') /\ bits' \subseteq CallOps \cup {"lk", "conn_init"}
    BY <1>1, <1>2
<1>. QED  BY <1>1, <1>2, <1>3, <1>4, <1>5, <1>6, OneCallStep

\* The reply to INIT sets the first bits, before any call is let through.
LEMMA InitReplyOK ==
    ASSUME CallsInv, process_init_reply
    PROVE  CallsInv'
<1>1. UNCHANGED <<methods, allowed, mode, imode, ccall>>
    BY DEF process_init_reply
<1>2. initAt # "done" /\ \A t \in Callers : ccall[t] = AtRest
    BY DEF process_init_reply, CallsInv
<1>3. bits' \subseteq CallOps \cup {"lk", "conn_init"}
      /\ initWord' \subseteq CallOps \cup {"lk", "conn_init"}
      /\ initAt' \in {"sent", "set", "done"}
    BY DEF process_init_reply, InitBits, CallsInv, CallsTypeOK
<1>4. "conn_init" \notin Latched
    BY DEF Latched, LatchOps, OkOps, XattrOps
<1>5. Honest(bits)' /\ Honest(initWord)' /\ (initAt' = "done" => KnowsLk(bits)')
    BY <1>4 DEF process_init_reply, InitBits, CallsInv, WordsSound, Honest, KnowsLk
<1>6. ASSUME NEW t \in Callers
      PROVE  /\ Passed(ccall[t])' /\ Asked(t, ccall[t])'
             /\ \A u \in Callers : Excused(ccall[t], u)'
    BY <1>1 DEF CallsInv, Passed, Asked, Excused, Honest, KnowsLk
<1>. QED  BY <1>1, <1>2, <1>3, <1>5, <1>6 DEF CallsInv, CallsTypeOK, WordsSound

(***************************************************************************)
(* Permissions                                                             *)
(***************************************************************************)
\* A permission is asked for: whatever was fetched before is remembered.
LEMMA PermissionOK ==
    ASSUME CallsInv, NEW t \in Callers, fuse_permission(t)
    PROVE  CallsInv'
<1>. DEFINE at == IF t \in allowed /\ ~imode THEN "sent" ELSE "ret"
            res == IF t \notin allowed THEN "EACCES" ELSE "ok"
            no == ~mode
            old == Fetched
            v == [AtRest EXCEPT !.op = "permission", !.at = at, !.res = res,
                                !.denied = no, !.old = old]
<1>1. /\ ccall[t].at = "idle" /\ "permission" \in CallOps /\ initAt = "done"
      /\ ccall' = [ccall EXCEPT ![t] = v] /\ UNCHANGED <<bits, Rest>>
    BY DEF fuse_permission, GetReq, Blocked, Rest
<1>2. /\ at \in {"sent", "ret"} /\ res \in {"EACCES", "ok"}
      /\ res = "EACCES" => t \notin allowed
    OBVIOUS
<1>3. old \subseteq Callers /\ t \notin old
    BY <1>1 DEF Fetched
<1>4. \A u \in Callers : ccall[u].at = "attr" => u \in old
    BY DEF Fetched
<1>5. no \in BOOLEAN /\ (mode \/ no)
    OBVIOUS
<1>. HIDE DEF at, res, no, old
<1>6. /\ v \in CallRec /\ v.at = at /\ v.op = "permission" /\ v.res = res
      /\ v.word = {} /\ v.old = old /\ v.denied = no
    BY <1>1, <1>2, <1>3, <1>5 DEF AtRest, CallRec
<1>. HIDE DEF v
<1>7. Passed(v)
    <2>1. "permission" \notin Latched
        BY DEF Latched, LatchOps, OkOps, XattrOps
    <2>. QED  BY <1>2, <1>6, <2>1 DEF Passed
<1>8. Asked(t, v)
    BY <1>2, <1>3, <1>5, <1>6 DEF Asked
<1>9. \A u \in Callers : Excused(v, u)
    BY <1>4, <1>6 DEF Excused
<1>10. Honest(bits') /\ KnowsLk(bits') /\ bits' \subseteq CallOps \cup {"lk", "conn_init"}
    BY <1>1, CallFacts
<1>. QED  BY <1>1, <1>2, <1>6, <1>7, <1>8, <1>9, <1>10, OneCallStep

\* Attributes are asked for.
LEMMA RevalidateOK ==
    ASSUME CallsInv, NEW t \in Callers, fuse_revalidate(t)
    PROVE  CallsInv'
<1>. DEFINE at == IF t \in allowed THEN "sent" ELSE "ret"
            res == IF t \in allowed THEN "none" ELSE "EACCES"
            v == [AtRest EXCEPT !.op = "getattr", !.at = at, !.res = res]
<1>1. /\ "getattr" \in CallOps /\ initAt = "done"
      /\ ccall' = [ccall EXCEPT ![t] = v] /\ UNCHANGED <<bits, Rest>>
    BY DEF fuse_revalidate, GetReq, Blocked, Rest
<1>2. at \in {"sent", "ret"} /\ res \in {"EACCES", "none"}
    OBVIOUS
<1>. HIDE DEF at, res
<1>3. /\ v \in CallRec /\ v.at = at /\ v.op = "getattr" /\ v.res = res
      /\ v.word = {} /\ v.old = {}
    BY <1>1, <1>2 DEF AtRest, CallRec
<1>. HIDE DEF v
<1>4. Passed(v)
    <2>1. "getattr" \notin Latched
        BY DEF Latched, LatchOps, OkOps, XattrOps
    <2>. QED  BY <1>2, <1>3, <2>1 DEF Passed
<1>5. Asked(t, v) /\ \A u : Excused(v, u)
    BY <1>2, <1>3 DEF Asked, Excused
<1>6. Honest(bits') /\ KnowsLk(bits') /\ bits' \subseteq CallOps \cup {"lk", "conn_init"}
    BY <1>1, CallFacts
<1>. QED  BY <1>1, <1>2, <1>3, <1>4, <1>5, <1>6, OneCallStep

\* The file system gives the mode, or an error.
LEMMA FetchOK ==
    ASSUME CallsInv, NEW t \in Callers, fuse_fs_getattr(t)
    PROVE  CallsInv'
<1>. DEFINE c == ccall[t]
<1>1. /\ c.at = "sent" /\ c.op \in {"permission", "getattr"} /\ UNCHANGED <<bits, Rest>>
    BY DEF fuse_fs_getattr, Rest
<1>2. /\ ccall \in [Callers -> CallRec] /\ c \in CallRec /\ Passed(c) /\ Asked(t, c)
      /\ initAt = "done"
    BY <1>1, CallFacts
<1>3. Honest(bits') /\ KnowsLk(bits') /\ bits' \subseteq CallOps \cup {"lk", "conn_init"}
    BY <1>1, <1>2, CallFacts
<1>4. c.op \notin Latched
    BY <1>1 DEF Latched, LatchOps, OkOps, XattrOps
<1>5. CASE ccall' = [ccall EXCEPT ![t].at = "attr", ![t].st = mode]
    <2>. DEFINE v == [c EXCEPT !.at = "attr", !.st = mode]
    <2>1. ccall' = [ccall EXCEPT ![t] = v]
        BY <1>2, <1>5
    <2>2. mode \in BOOLEAN
        BY DEF CallsInv, CallsTypeOK
    <2>3. /\ v \in CallRec /\ v.at = "attr" /\ v.st = mode /\ v.op = c.op
          /\ v.old = c.old /\ v.denied = c.denied /\ v.over = c.over /\ v.res = c.res
        BY <1>2, <2>2 DEF CallRec
    <2>. HIDE DEF v
    <2>4. Passed(v)
        BY <1>4, <2>3 DEF Passed
    <2>5. Asked(t, v)
        BY <1>1, <1>2, <2>3 DEF Asked
    <2>6. \A u \in Callers : Excused(v, u)
        BY <2>3, CallFacts DEF Excused
    <2>7. v.op = "permission" => v.st \/ v.denied
        BY <1>2, <2>3 DEF Asked
    <2>8. ASSUME NEW w \in Callers, ccall[w].op = "permission"
          PROVE  v.st \/ ccall[w].denied
        BY <2>3, <2>8, CallFacts DEF Asked
    <2>. QED  BY <1>1, <1>2, <1>3, <2>1, <2>3, <2>4, <2>5, <2>6, <2>7, <2>8, OneCallStep
<1>6. CASE Return(t, "EIO")
    <2>. DEFINE v == [c EXCEPT !.at = "ret", !.res = "EIO"]
    <2>1. ccall' = [ccall EXCEPT ![t] = v]
        BY <1>2, <1>6 DEF Return
    <2>2. v \in CallRec /\ v.at = "ret" /\ v.res = "EIO" /\ SameQuestion(c, v)
        BY <1>2 DEF CallRec, SameQuestion
    <2>. HIDE DEF v
    <2>3. Passed(v)
        BY <1>4, <2>2 DEF Passed, SameQuestion
    <2>. QED  BY <1>1, <1>2, <1>3, <2>1, <2>2, <2>3, LaterOK
<1>. QED  BY <1>5, <1>6 DEF fuse_fs_getattr

\* The check is made again, with the mode that has come in.
LEMMA RecheckOK ==
    ASSUME CallsInv, NEW t \in Callers, generic_permission(t)
    PROVE  CallsInv'
<1>. DEFINE c == ccall[t]
            res == IF imode THEN "ok" ELSE "EACCES"
            v == [c EXCEPT !.at = "ret", !.res = res]
<1>1. /\ c.at = "recheck" /\ UNCHANGED <<bits, Rest>>
      /\ ccall' = [ccall EXCEPT ![t].at = "ret", ![t].res = res]
    BY DEF generic_permission, Return, Rest
<1>2. /\ ccall \in [Callers -> CallRec] /\ c \in CallRec /\ Asked(t, c)
      /\ initAt = "done"
    BY <1>1, CallFacts
<1>3. Honest(bits') /\ KnowsLk(bits') /\ bits' \subseteq CallOps \cup {"lk", "conn_init"}
    BY <1>1, <1>2, CallFacts
<1>4. res \in {"ok", "EACCES"} /\ (res = "EACCES" => c.denied \/ c.over)
    BY <1>1, <1>2 DEF Asked
<1>. HIDE DEF res
<1>5. ccall' = [ccall EXCEPT ![t] = v]
    BY <1>1, <1>2
<1>6. v \in CallRec /\ v.at = "ret" /\ v.res = res /\ SameQuestion(c, v)
    BY <1>2, <1>4 DEF CallRec, SameQuestion
<1>. HIDE DEF v
<1>7. c.op \notin Latched
    BY <1>1, <1>2 DEF Asked, Latched, LatchOps, OkOps, XattrOps
<1>8. Passed(v)
    BY <1>6, <1>7 DEF Passed, SameQuestion
<1>. QED  BY <1>1, <1>2, <1>3, <1>4, <1>5, <1>6, <1>8, LaterOK DEF SameQuestion

\* Attributes come in: they are the inode's mode now, and a call that began
\* after they were fetched is excused.
LEMMA ApplyOK ==
    ASSUME CallsInv, NEW t \in Callers, fuse_do_getattr(t)
    PROVE  CallsInv'
<1>. DEFINE c == ccall[t]
<1>1. /\ c.at = "attr" /\ imode' = c.st
      /\ bits' = bits /\ initAt' = initAt /\ initWord' = initWord /\ methods' = methods
      /\ allowed' = allowed /\ mode' = mode
      /\ ccall' = [u \in Callers |->
              IF u = t THEN IF c.op = "getattr"
                            THEN [c EXCEPT !.at = "ret", !.res = "ok"]
                            ELSE [c EXCEPT !.at = "recheck", !.st = FALSE]
              ELSE [ccall[u] EXCEPT !.over = ccall[u].over \/ t \in ccall[u].old,
                                    !.old = ccall[u].old \ {t}]]
    BY DEF fuse_do_getattr
<1>a. /\ imode' = c.st /\ methods' = methods /\ allowed' = allowed /\ mode' = mode
    BY <1>1
<1>2. /\ ccall \in [Callers -> CallRec] /\ c \in CallRec /\ Passed(c) /\ Asked(t, c)
      /\ initAt = "done"
    BY <1>1, CallFacts
<1>3. c.op \in {"permission", "getattr"} /\ c.op \notin Latched /\ t \notin c.old
    BY <1>1, <1>2 DEF Asked, Latched, LatchOps, OkOps, XattrOps
<1>4. c.op = "permission" => c.st \/ c.denied
    BY <1>1, <1>3, CallFacts DEF Excused
<1>5. /\ ccall'[t] \in CallRec /\ ccall'[t].op = c.op /\ ccall'[t].at \in {"ret", "recheck"}
      /\ ccall'[t].denied = c.denied /\ ccall'[t].old = c.old /\ ccall'[t].over = c.over
      /\ ccall'[t].at = "recheck" => c.op = "permission"
      /\ ccall'[t].at = "ret" => c.op = "getattr"
    <2>1. CASE c.op = "getattr"
        <3>1. ccall'[t] = [c EXCEPT !.at = "ret", !.res = "ok"]
            BY <1>1, <2>1
        <3>. QED  BY <1>2, <2>1, <3>1 DEF CallRec
    <2>2. CASE c.op # "getattr"
        <3>1. ccall'[t] = [c EXCEPT !.at = "recheck", !.st = FALSE]
            BY <1>1, <2>2
        <3>2. c.op = "permission"
            BY <1>3, <2>2
        <3>. QED  BY <1>2, <3>1, <3>2 DEF CallRec
    <2>. QED  BY <2>1, <2>2
<1>6. ASSUME NEW u \in Callers, u # t
      PROVE  /\ ccall'[u] \in CallRec
             /\ ccall'[u].at = ccall[u].at /\ ccall'[u].op = ccall[u].op
             /\ ccall'[u].res = ccall[u].res /\ ccall'[u].word = ccall[u].word
             /\ ccall'[u].st = ccall[u].st /\ ccall'[u].denied = ccall[u].denied
             /\ ccall'[u].over <=> ccall[u].over \/ t \in ccall[u].old
             /\ ccall'[u].old = ccall[u].old \ {t}
    <2>. DEFINE d == ccall[u]
                over == d.over \/ t \in d.old
                old == d.old \ {t}
    <2>1. d \in CallRec /\ ccall'[u] = [d EXCEPT !.over = over, !.old = old]
        BY <1>1, <1>2, <1>6
    <2>2. over \in BOOLEAN /\ old \in SUBSET Callers
        BY <2>1 DEF CallRec
    <2>. HIDE DEF over, old
    <2>3. /\ ccall'[u] \in CallRec
          /\ ccall'[u].at = d.at /\ ccall'[u].op = d.op
          /\ ccall'[u].res = d.res /\ ccall'[u].word = d.word
          /\ ccall'[u].st = d.st /\ ccall'[u].denied = d.denied
          /\ ccall'[u].over = over /\ ccall'[u].old = old
        BY <2>1, <2>2 DEF CallRec
    <2>. QED  BY <2>3 DEF over, old
<1>7. ccall' \in [Callers -> CallRec] /\ imode' \in BOOLEAN
    <2>1. \A u \in Callers : ccall'[u] \in CallRec
        BY <1>5, <1>6
    <2>2. c.st \in BOOLEAN
        BY <1>2 DEF CallRec
    <2>. QED  BY <1>1, <2>1, <2>2
<1>8. CallsTypeOK' /\ WordsSound'
    BY <1>1, <1>7 DEF CallsInv, CallsTypeOK, WordsSound, Honest, KnowsLk
<1>9. ASSUME NEW w \in Callers
      PROVE  Passed(ccall[w])' /\ Asked(w, ccall[w])'
    <2>1. CASE w = t
        <3>1. Passed(ccall[w])'
            BY <1>3, <1>5, <2>1 DEF Passed
        <3>2. Asked(w, ccall[w])'
            BY <1>1, <1>2, <1>3, <1>4, <1>5, <2>1 DEF Asked
        <3>. QED  BY <3>1, <3>2
    <2>2. CASE w # t
        <3>. DEFINE d == ccall[w]
        <3>1. Passed(d) /\ Asked(w, d) /\ Excused(d, t) /\ d \in CallRec
            BY CallFacts
        <3>b. /\ ccall'[w].at = d.at /\ ccall'[w].op = d.op
              /\ ccall'[w].res = d.res /\ ccall'[w].word = d.word
              /\ ccall'[w].denied = d.denied
              /\ ccall'[w].over <=> d.over \/ t \in d.old
              /\ ccall'[w].old = d.old \ {t}
            BY <1>6, <2>2
        <3>2. Passed(ccall[w])'
            BY <1>a, <3>b, <3>1 DEF Passed, Honest, KnowsLk
        <3>3. d.op = "permission" => c.st \/ t \in d.old \/ d.denied
            BY <1>1, <3>1 DEF Excused
        <3>4. Asked(w, ccall[w])'
            BY <1>a, <3>b, <3>1, <3>3 DEF Asked
        <3>. QED  BY <3>2, <3>4
    <2>. QED  BY <2>1, <2>2
<1>10. ASSUME NEW w \in Callers, NEW u \in Callers
       PROVE  Excused(ccall[w], u)'
    <2>1. CASE u = t
        BY <1>5, <2>1 DEF Excused
    <2>2. CASE u # t /\ w = t
        BY <1>5, <1>6, <2>2, CallFacts DEF Excused
    <2>3. CASE u # t /\ w # t
        BY <1>6, <2>3, CallFacts DEF Excused
    <2>. QED  BY <2>1, <2>2, <2>3
<1>. QED  BY <1>1, <1>2, <1>8, <1>9, <1>10 DEF CallsInv

\* The mode changes: every permission asked for notices when it forbids.
LEMMA ChmodOK ==
    ASSUME CallsInv, Chmod
    PROVE  CallsInv'
<1>1. /\ mode' = ~mode /\ imode' = imode
      /\ bits' = bits /\ initAt' = initAt /\ initWord' = initWord /\ methods' = methods
      /\ allowed' = allowed
      /\ ccall' = [u \in Callers |->
                    IF ccall[u].op = "permission"
                    THEN [ccall[u] EXCEPT !.denied = ccall[u].denied \/ ~mode']
                    ELSE ccall[u]]
    BY DEF Chmod
<1>2. ASSUME NEW u \in Callers
      PROVE  /\ ccall'[u] \in CallRec
             /\ ccall'[u].at = ccall[u].at /\ ccall'[u].op = ccall[u].op
             /\ ccall'[u].res = ccall[u].res /\ ccall'[u].word = ccall[u].word
             /\ ccall'[u].st = ccall[u].st /\ ccall'[u].old = ccall[u].old
             /\ ccall'[u].over = ccall[u].over
             /\ ccall[u].op # "permission" => ccall'[u] = ccall[u]
             /\ ccall[u].op = "permission" =>
                    (ccall'[u].denied <=> ccall[u].denied \/ ~mode')
    <2>. DEFINE d == ccall[u]
                denied == d.denied \/ ~mode'
    <2>1. d \in CallRec
        BY CallFacts
    <2>2. CASE d.op = "permission"
        <3>1. ccall'[u] = [d EXCEPT !.denied = denied]
            BY <1>1, <2>2
        <3>a. denied \in BOOLEAN
            OBVIOUS
        <3>. HIDE DEF denied
        <3>2. /\ ccall'[u] \in CallRec
              /\ ccall'[u].at = d.at /\ ccall'[u].op = d.op
              /\ ccall'[u].res = d.res /\ ccall'[u].word = d.word
              /\ ccall'[u].st = d.st /\ ccall'[u].old = d.old
              /\ ccall'[u].over = d.over /\ ccall'[u].denied = denied
            BY <2>1, <3>1, <3>a DEF CallRec
        <3>. QED  BY <2>2, <3>2 DEF denied
    <2>3. CASE d.op # "permission"
        <3>1. ccall'[u] = d
            BY <1>1, <2>3
        <3>. QED  BY <2>1, <2>3, <3>1
    <2>. QED  BY <2>2, <2>3
<1>3. ccall' \in [Callers -> CallRec] /\ mode' \in BOOLEAN
    BY <1>1, <1>2
<1>4. CallsTypeOK' /\ WordsSound'
    BY <1>1, <1>3 DEF CallsInv, CallsTypeOK, WordsSound, Honest, KnowsLk
<1>5. ASSUME NEW w \in Callers
      PROVE  Passed(ccall[w])' /\ Asked(w, ccall[w])'
    <2>1. Passed(ccall[w]) /\ Asked(w, ccall[w])
        BY CallFacts
    <2>2. Passed(ccall[w])'
        BY <1>1, <1>2, <2>1 DEF Passed, Honest, KnowsLk
    <2>3. Asked(w, ccall[w])'
        BY <1>1, <1>2, <2>1 DEF Asked
    <2>. QED  BY <2>2, <2>3
<1>6. ASSUME NEW w \in Callers, NEW u \in Callers
      PROVE  Excused(ccall[w], u)'
    BY <1>2, CallFacts DEF Excused
<1>7. ASSUME NEW w \in Callers, initAt # "done"
      PROVE  ccall'[w] = AtRest
    <2>1. ccall[w] = AtRest /\ AtRest.op = "none"
        BY <1>7 DEF CallsInv, AtRest
    <2>. QED  BY <1>2, <2>1
<1>. QED  BY <1>1, <1>4, <1>5, <1>6, <1>7 DEF CallsInv

(***************************************************************************)
(* The theorem                                                             *)
(***************************************************************************)
\* The invariant holds before INIT is answered.
LEMMA CallsInitOK ==
    ASSUME CallsInit
    PROVE  CallsInv
<1>1. /\ bits = {} /\ initAt = "sent" /\ initWord = {} /\ ccall = [t \in Callers |-> AtRest]
      /\ mode \in BOOLEAN /\ imode \in BOOLEAN
    BY DEF CallsInit
<1>2. /\ AtRest \in CallRec /\ AtRest.at = "idle" /\ AtRest.op = "none"
      /\ AtRest.old = {}
    BY DEF AtRest, CallRec
<1>3. CallsTypeOK /\ WordsSound
    BY <1>1, <1>2 DEF CallsTypeOK, WordsSound, Honest
<1>4. ASSUME NEW t \in Callers
      PROVE  Passed(ccall[t]) /\ Asked(t, ccall[t]) /\ \A u \in Callers : Excused(ccall[t], u)
    BY <1>1, <1>2 DEF Passed, Asked, Excused
<1>. QED  BY <1>1, <1>3, <1>4 DEF CallsInv

\* Every step of CallsNext keeps the invariant.
LEMMA CallsNextOK ==
    ASSUME CallsInv, CallsNext
    PROVE  CallsInv'
<1>1. ASSUME NEW t \in Callers,
             \/ fuse_access(t) \/ fuse_fsync_common(t) \/ fuse_xattr(t) \/ fuse_bmap(t)
             \/ fuse_statfs(t) \/ read_link(t) \/ fuse_file_lock(t)
      PROVE  CallsInv'
    <2>1. PICK op : op # "permission" /\ Begin(t, op)
        BY <1>1 DEF fuse_access, fuse_fsync_common, fuse_xattr, fuse_bmap, fuse_statfs,
                    read_link, fuse_file_lock, XattrOps
    <2>. QED  BY <2>1, BeginOK
<1>. QED  BY <1>1, InitReplyOK, ChmodOK, HandlerOK, AnswerOK, LatchOK, FinishOK,
             PermissionOK, RevalidateOK, FetchOK, ApplyOK, RecheckOK DEF CallsNext

\* Whatever bits the tasks lose when they write the word back, a call is
\* answered by the method that is there, or as for one that is not, and a
\* lock call never reaches a file system that has none; no permission is
\* refused but for the mode during the call, or a reply fetched before it.
THEOREM CallsAnsweredTruly == Spec => []CallsTrue
<1>1. Init => CallsInv
    BY CallsInitOK DEF Init
<1>2. CallsInv /\ [Next]_vars => CallsInv'
    <2>. SUFFICES ASSUME CallsInv, [Next]_vars
                  PROVE  CallsInv'
        OBVIOUS
    <2>1. CASE CallsNext
        BY <2>1, CallsNextOK
    <2>2. CASE UNCHANGED callVars
        BY <2>2 DEF callVars, CallsInv, CallsTypeOK, WordsSound, Honest, KnowsLk,
                    Passed, Asked, Excused
    <2>. QED  BY <2>1, <2>2 DEF Next, vars
<1>3. CallsInv => CallsTrue
    BY DEF CallsInv, CallsTrue, Passed, Asked, Latched
<1>. QED  BY <1>1, <1>2, <1>3, PTL DEF Spec

(***************************************************************************)
(* The data and the size of a file                                         *)
(***************************************************************************)
\* The variables of FuseData, as records and numbers.
StatRec == [mt : Nat, size : 0..1, ver : Nat]
UserRec == [at : {"closed", "stat", "opened", "idle", "reading", "readback", "write",
                  "written", "refused", "setstat", "setback", "truncate"},
            base : Nat, got : Nat, keep : BOOLEAN, whole : BOOLEAN, st : StatRec]

DataTypeOK ==
    /\ cmode \in CacheModes
    /\ srv \in [mt : Nat, size : 0..1, ver : Nat] /\ srv.ver <= MaxVer
    /\ page \in [up : BOOLEAN, ver : Nat, lock : Users \cup {Nobody}, excused : BOOLEAN]
    /\ isize \in [size : 0..1, ver : Nat, late : BOOLEAN]
    /\ node \in [valid : BOOLEAN, mt : Nat, size : 0..1, ver : Nat, fresh : BOOLEAN]
    /\ user \in [Users -> UserRec]
    /\ ga \in [at : {"none", "stat", "reply"}, st : StatRec, late : BOOLEAN]
    /\ done \in Nat /\ done <= srv.ver
    /\ lost \in BOOLEAN

Writes   == {"write", "written", "refused"}
Mutexed  == Writes \cup {"setstat", "setback", "truncate"}

\* Who has the page locked, who has i_mutex, and what a change under it has.
PageLocked ==
    /\ \A t \in Users : user[t].at \in {"reading", "readback"} \cup Writes <=> page.lock = t
    /\ \A t, u \in Users : user[t].at \in Mutexed /\ user[u].at \in Mutexed => t = u
    /\ \A t \in Users :
        /\ user[t].at \in {"reading", "readback"} => ~ page.up
        /\ user[t].at \in Writes =>
                /\ page.up => page.ver = Inf
                /\ user[t].whole => page.ver = Inf
                /\ page.ver = Inf => page.up \/ user[t].whole
        /\ user[t].at = "written" => user[t].got >= done
        /\ user[t].at \in {"setstat", "setback", "truncate"} =>
                user[t].st.size = 0 /\ user[t].st.ver >= done
        /\ user[t].got <= srv.ver /\ user[t].base <= srv.ver

\* The version of the data that the page has or is about to get; data of a
\* write that the file system does not have yet are newer than all versions.
Live == /\ ~ page.excused
        /\ IF page.lock = Nobody THEN page.up
           ELSE \/ user[page.lock].at = "readback"
                \/ user[page.lock].at = "written" /\ page.ver = Inf
PageVer == IF page.lock = Nobody THEN page.ver ELSE user[page.lock].got

\* An open that is to drop the pages, and has not or never will.
Owing == lost \/ \E t \in Users : user[t].at = "opened" /\ ~ user[t].keep

\* Stats that somebody has: of two with the live page's version in between,
\* the later one has the later mtime.
Stats == {Stat, NoStat, [mt |-> node.mt, size |-> node.size, ver |-> node.ver], ga.st}
            \cup {user[t].st : t \in Users}
Between(v, s1, s2) == s1.ver <= v /\ v < s2.ver => s1.mt < s2.mt
MtimesTell ==
    /\ \A s \in Stats : s.ver <= srv.ver /\ s.mt <= srv.mt
    /\ Live => \A s1, s2 \in Stats : Between(PageVer, s1, s2)

Opened(t) == user[t].at \notin {"closed", "stat", "opened"}

\* The stages that go with the mount options.
StagesRight ==
    /\ \A t \in Users :
        /\ user[t].at = "opened" /\ user[t].keep => cmode \in {"auto_cache", "kernel_cache"}
        /\ user[t].at = "stat" => cmode = "auto_cache" /\ user[t].base = user[t].st.ver
        /\ cmode = "kernel_cache" => user[t].base <= done
    /\ node.valid => cmode = "auto_cache"

\* What the live page has is new enough: for the changes through the mount, for
\* those that have the file open, and, when nobody is to drop the pages, for
\* those that will keep them and for the node.
DoneKept  == Live /\ isize.size = 1 => PageVer >= done
BasesKept == Live /\ cmode # "kernel_cache" =>
                \A t \in Users : Opened(t) => PageVer >= user[t].base
NodeKept  == Live /\ cmode # "kernel_cache" /\ ~ Owing =>
                /\ node.valid => PageVer >= node.ver
                /\ \A t \in Users : user[t].at = "opened" => PageVer >= user[t].base

\* An empty file is so since the last change, or its size came late.
SizeTrusted ==
    /\ isize.size = 0 => isize.ver >= done \/ isize.late
    /\ ga.at # "none" => ga.st.ver >= done \/ ga.late

DataInv == /\ DataTypeOK /\ PageLocked /\ MtimesTell /\ StagesRight
           /\ DoneKept /\ BasesKept /\ NodeKept /\ SizeTrusted

\* A step leaves the live page as it is, or gives it what the file has now.
PageFollows ==
    Live' => (Live /\ PageVer' = PageVer) \/ PageVer' >= srv'.ver

\* A step leaves the file alone or makes a version, which has a later mtime or
\* excuses the page.
SrvFollows ==
    \/ srv' = srv
    \/ /\ srv'.ver = srv.ver + 1
       /\ srv'.mt \in Nat
       /\ \/ srv'.mt = srv.mt + 1
          \/ srv'.mt = srv.mt /\ ~ Live'

LEMMA MtimesKept ==
    ASSUME DataTypeOK, DataTypeOK', MtimesTell, PageFollows, SrvFollows,
           Stats' \subseteq Stats \cup {Stat'}
    PROVE  MtimesTell'
<1>1. \A s \in Stats' : s.ver \in Nat /\ s.mt \in Nat
    BY DEF DataTypeOK, Stats, Stat, NoStat, StatRec, UserRec
<1>2. \A s \in Stats : s.ver \in Nat /\ s.mt \in Nat
    BY DEF DataTypeOK, Stats, Stat, NoStat, StatRec, UserRec
<1>3. Stat \in Stats /\ Stat.ver = srv.ver /\ Stat.mt = srv.mt
      /\ Stat'.ver = srv'.ver /\ Stat'.mt = srv'.mt
      /\ srv.ver \in Nat /\ srv.mt \in Nat /\ srv'.ver \in Nat
    BY DEF Stats, Stat, DataTypeOK
<1>4. PageVer' \in Nat \/ ~ Live'
    BY DEF DataTypeOK, PageVer, Live, UserRec
<1>5. \A s \in Stats' : s.ver <= srv'.ver /\ s.mt <= srv'.mt
    BY <1>1, <1>2, <1>3 DEF SrvFollows, MtimesTell
<1>6. ASSUME Live', NEW s1 \in Stats', NEW s2 \in Stats', s1.ver <= PageVer', PageVer' < s2.ver
      PROVE  s1.mt < s2.mt
    <2>. DEFINE v == PageVer'
    <2>1. v \in Nat /\ v < srv'.ver
        BY <1>1, <1>3, <1>4, <1>5, <1>6
    <2>2. Live /\ v = PageVer
        BY <1>3, <1>6, <2>1 DEF PageFollows
    <2>. HIDE DEF v
    <2>3. CASE s1 \in Stats /\ s2 \in Stats
        BY <1>6, <2>2, <2>3 DEF MtimesTell, Between, v
    <2>4. CASE s1 \in Stats /\ s2 = Stat' /\ srv' # srv
        <3>1. s1.mt <= srv.mt /\ srv'.mt = srv.mt + 1
            BY <1>6, <2>4 DEF MtimesTell, SrvFollows
        <3>. QED  BY <1>1, <1>2, <1>3, <2>4, <3>1
    <2>5. CASE s1 = Stat'
        BY <1>1, <1>3, <1>5, <1>6, <2>1, <2>5 DEF v
    <2>6. srv' = srv => Stat' = Stat
        BY DEF Stat
    <2>. QED  BY <1>3, <2>3, <2>4, <2>5, <2>6
<1>. QED  BY <1>5, <1>6 DEF MtimesTell, Between

\* Who has the file open keeps the base, and the page has what it had or newer.
LEMMA BasesFollow ==
    ASSUME DataTypeOK, DataTypeOK', PageLocked', PageFollows, BasesKept, cmode' = cmode,
           \A t \in Users : Opened(t)' => Opened(t) /\ user'[t].base = user[t].base
    PROVE  BasesKept'
<1>1. SUFFICES ASSUME Live', cmode # "kernel_cache", NEW t \in Users, Opened(t)'
               PROVE  PageVer' >= user'[t].base
    BY DEF BasesKept
<1>2. user'[t].base <= srv'.ver /\ user'[t].base \in Nat /\ srv'.ver \in Nat
    BY DEF PageLocked, DataTypeOK, UserRec
<1>3. PageVer' \in Nat
    BY <1>1 DEF DataTypeOK, UserRec, PageVer
<1>4. CASE PageVer' >= srv'.ver
    BY <1>2, <1>3, <1>4
<1>5. CASE Live /\ PageVer' = PageVer
    BY <1>1, <1>5 DEF BasesKept
<1>. QED  BY <1>1, <1>4, <1>5 DEF PageFollows

LEMMA NodeFollow ==
    ASSUME DataTypeOK, DataTypeOK', PageLocked', MtimesTell', PageFollows, NodeKept, cmode' = cmode,
           Live' /\ Owing => Owing',
           \A t \in Users : user'[t].at = "opened" =>
                user[t].at = "opened" /\ user'[t].base = user[t].base,
           node'.valid => node.valid /\ node'.ver = node.ver
    PROVE  NodeKept'
<1>1. SUFFICES ASSUME Live', cmode # "kernel_cache", ~ Owing', ~ Owing
               PROVE  /\ node'.valid => PageVer' >= node'.ver
                      /\ \A t \in Users : user'[t].at = "opened" => PageVer' >= user'[t].base
    BY DEF NodeKept
<1>2. /\ \A t \in Users : user'[t].base <= srv'.ver /\ user'[t].base \in Nat
      /\ srv'.ver \in Nat /\ node'.ver \in Nat
    BY DEF PageLocked, DataTypeOK, UserRec
<1>6. node'.ver <= srv'.ver
    <2>. DEFINE s == [mt |-> node'.mt, size |-> node'.size, ver |-> node'.ver]
    <2>1. s \in Stats' /\ s.ver = node'.ver
        BY DEF Stats
    <2>. QED  BY <2>1 DEF MtimesTell
<1>3. PageVer' \in Nat
    BY <1>1 DEF DataTypeOK, UserRec, PageVer
<1>4. CASE PageVer' >= srv'.ver
    BY <1>2, <1>3, <1>4, <1>6
<1>5. CASE Live /\ PageVer' = PageVer
    BY <1>1, <1>5 DEF NodeKept
<1>. QED  BY <1>1, <1>4, <1>5 DEF PageFollows

LEMMA DoneFollow ==
    ASSUME DataTypeOK, DataTypeOK', PageFollows, DoneKept,
           Live' /\ isize'.size = 1 => done' = done /\ isize.size = 1
    PROVE  DoneKept'
<1>1. SUFFICES ASSUME Live', isize'.size = 1
               PROVE  PageVer' >= done'
    BY DEF DoneKept
<1>2. done' \in Nat /\ done' <= srv'.ver /\ srv'.ver \in Nat
    BY DEF DataTypeOK
<1>3. PageVer' \in Nat
    BY <1>1 DEF DataTypeOK, UserRec, PageVer
<1>4. CASE PageVer' >= srv'.ver
    BY <1>2, <1>3, <1>4
<1>5. CASE Live /\ PageVer' = PageVer
    BY <1>1, <1>5 DEF DoneKept
<1>. QED  BY <1>1, <1>4, <1>5 DEF PageFollows

\* A stat that leaves the pages valid is of what the live page has, or older.
LEMMA UpdatedNode ==
    ASSUME DataTypeOK, MtimesTell, NodeKept, NEW st \in Stats,
           Live, cmode # "kernel_cache", ~ Owing, update_stat(node, st).valid
    PROVE  PageVer >= st.ver
<1>. DEFINE n == [mt |-> node.mt, size |-> node.size, ver |-> node.ver]
<1>1. n \in Stats /\ n.ver = node.ver /\ n.mt = node.mt
    BY DEF Stats
<1>2. node.valid /\ st.mt = node.mt
    BY DEF update_stat
<1>3. PageVer >= node.ver
    BY <1>2 DEF NodeKept
<1>4. st.ver \in Nat /\ st.mt \in Nat /\ PageVer \in Nat /\ node.ver \in Nat
    BY DEF DataTypeOK, Stats, Stat, NoStat, StatRec, UserRec, PageVer, Live
<1>5. n.ver <= PageVer /\ PageVer < st.ver => n.mt < st.mt
    BY <1>1 DEF MtimesTell, Between
<1>. HIDE DEF n
<1>. QED  BY <1>1, <1>2, <1>3, <1>4, <1>5

LEMMA LiveThere == ASSUME DataInv, Live PROVE page # NoPage
BY DataAssumption DEF DataInv, DataTypeOK, Live, NoPage

\* The decision of an open keeps the invariant if the stat it is from is one
\* that somebody has, and what it keeps is as new as its promise.
NodeRec == [valid : BOOLEAN, mt : Nat, size : 0..1, ver : Nat, fresh : BOOLEAN]

LEMMA DecideOK ==
    ASSUME DataInv, NEW t \in Users, NEW n \in NodeRec, NEW base \in Nat,
           user[t].at \in {"closed", "stat"}, cmode = "auto_cache",
           Decide(t, n, base), UNCHANGED <<cmode, srv, page, isize, ga, done, lost>>,
           base <= srv.ver,
           [mt |-> n.mt, size |-> n.size, ver |-> n.ver] \in Stats,
           n.valid /\ Live /\ ~ Owing => PageVer >= base /\ PageVer >= n.ver
    PROVE  DataInv'
<1>. USE DataAssumption
<1>1. /\ user[t] \in UserRec /\ user'[t] \in UserRec
      /\ user'[t].at = "opened" /\ user'[t].keep = n.valid /\ user'[t].base = base
      /\ user'[t].st = NoStat /\ user'[t].got = user[t].got
      /\ \A u \in Users \ {t} : user'[u] = user[u]
      /\ user' \in [Users -> UserRec]
    <2>. DEFINE r == [user[t] EXCEPT !.at = "opened", !.keep = n.valid, !.st = NoStat, !.base = base]
    <2>1. user \in [Users -> UserRec] /\ user[t] \in UserRec
        BY DEF DataInv, DataTypeOK
    <2>2. n.valid \in BOOLEAN /\ NoStat \in StatRec
        BY DEF NodeRec, StatRec, NoStat
    <2>3. /\ r \in UserRec /\ r.at = "opened" /\ r.keep = n.valid /\ r.base = base
          /\ r.st = NoStat /\ r.got = user[t].got
        BY <2>1, <2>2 DEF UserRec
    <2>4. user' = [user EXCEPT ![t] = r]
        BY DEF Decide
    <2>. HIDE DEF r
    <2>. QED  BY <2>1, <2>3, <2>4
<1>2. node' \in NodeRec /\ node'.valid /\ node'.mt = n.mt /\ node'.size = n.size /\ node'.ver = n.ver
    BY DEF NodeRec, Decide
<1>3. DataTypeOK'
    BY <1>1, <1>2 DEF DataInv, DataTypeOK, NodeRec
<1>4. PageLocked'
    <2>1. Inf' = Inf
        BY DEF Inf
    <2>2. \A u \in Users : /\ (user'[u].at = user[u].at \/ u = t)
                            /\ user'[u].got = user[u].got
                            /\ user'[u].base <= srv.ver
        BY <1>1 DEF DataInv, PageLocked
    <2>3. /\ t # page.lock /\ user[t].at \notin Mutexed /\ user'[t].at \notin Mutexed
          /\ user'[t].at \notin {"reading", "readback"} \cup Writes
        BY <1>1 DEF DataInv, PageLocked, Writes, Mutexed
    <2>. QED  BY <1>1, <2>1, <2>2, <2>3 DEF DataInv, PageLocked, Writes, Mutexed
<1>5. Live' = Live /\ PageVer' = PageVer
    <2>1. CASE page.lock = Nobody
        BY <2>1 DEF Live, PageVer
    <2>2. CASE page.lock # Nobody
        <3>1. page.lock \in Users \ {t}
            BY <2>2 DEF DataInv, DataTypeOK, PageLocked, Writes
        <3>. QED  BY <2>2, <3>1, <1>1 DEF Live, PageVer, Inf
    <2>. QED  BY <2>1, <2>2
<1>6. PageFollows
    BY <1>5 DEF PageFollows
<1>7. MtimesTell'
    <2>1. Stats' \subseteq Stats \cup {Stat'}
        BY <1>1, <1>2 DEF Stats, Stat
    <2>2. SrvFollows
        BY DEF SrvFollows
    <2>. QED  BY <1>3, <1>6, <2>1, <2>2, MtimesKept DEF DataInv
<1>8. StagesRight'
    BY <1>1, <1>2 DEF DataInv, StagesRight
<1>9. DoneKept'
    BY <1>5 DEF DataInv, DoneKept
<1>10. BasesKept'
    BY <1>1, <1>5 DEF DataInv, BasesKept, Opened
<1>11. NodeKept'
    <2>1. SUFFICES ASSUME Live', ~ Owing'
                   PROVE  /\ PageVer' >= node'.ver
                          /\ \A u \in Users : user'[u].at = "opened" => PageVer' >= user'[u].base
        BY DEF NodeKept
    <2>2. n.valid /\ ~ Owing
        BY <2>1, <1>1 DEF Owing
    <2>. QED  BY <1>1, <1>2, <1>5, <2>1, <2>2 DEF DataInv, NodeKept
<1>12. SizeTrusted'
    BY DEF DataInv, SizeTrusted
<1>. QED  BY <1>3, <1>4, <1>7, <1>8, <1>9, <1>10, <1>11, <1>12 DEF DataInv

LEMMA AgesOK ==
    ASSUME DataInv, Ages
    PROVE  DataInv'
<1>. USE DataAssumption
<1>1. DataTypeOK'
    <2>1. user' \in [Users -> UserRec]
        BY DEF DataInv, DataTypeOK, PageLocked, StatRec, UserRec, Ages
    <2>2. page' \in [up : BOOLEAN, ver : Nat, lock : Users \cup {Nobody}, excused : BOOLEAN]
        BY DEF DataInv, DataTypeOK, UserRec, Ages
    <2>3. srv' \in [mt : Nat, size : 0..1, ver : Nat] /\ srv'.ver <= MaxVer /\ srv.ver <= srv'.ver
        BY DEF DataInv, DataTypeOK, UserRec, Ages
    <2>4. isize' \in [size : 0..1, ver : Nat, late : BOOLEAN]
        BY DEF DataInv, DataTypeOK, UserRec, StatRec, Ages
    <2>5. node' \in [valid : BOOLEAN, mt : Nat, size : 0..1, ver : Nat, fresh : BOOLEAN]
        BY DEF DataInv, DataTypeOK, UserRec, StatRec, Ages
    <2>6. ga' \in [at : {"none", "stat", "reply"}, st : StatRec, late : BOOLEAN]
        BY DEF DataInv, DataTypeOK, UserRec, StatRec, Ages
    <2>7. done' \in Nat /\ done' <= srv'.ver /\ lost' \in BOOLEAN /\ cmode' = cmode
        BY <2>3 DEF DataInv, DataTypeOK, PageLocked, MtimesTell, Stats, UserRec, StatRec, Ages
    <2>. QED  BY <2>1, <2>2, <2>3, <2>4, <2>5, <2>6, <2>7 DEF DataInv, DataTypeOK
<1>2. PageLocked'
    BY <1>1 DEF DataInv, DataTypeOK, PageLocked, StatRec, UserRec, Writes, Mutexed, Ages
<1>3. PageFollows
    BY <1>1, <1>2 DEF DataInv, DataTypeOK, PageLocked, StatRec, UserRec, Writes,
       PageFollows, Live, PageVer, Ages
<1>4. MtimesTell'
    <2>1. Stats' \subseteq Stats \cup {Stat'}
        BY <1>1 DEF DataInv, DataTypeOK, StatRec, UserRec, Stats, Stat, Ages
    <2>2. SrvFollows
        BY DEF DataInv, SrvFollows, DataTypeOK, Live, Ages
    <2>. QED  BY <1>1, <1>3, <2>1, <2>2, MtimesKept DEF DataInv
<1>5. StagesRight'
    BY <1>1, <1>2 DEF DataInv, DataTypeOK, PageLocked, StatRec, UserRec, StagesRight, Ages
<1>6. DoneKept'
    <2>1. Live' /\ isize'.size = 1 => done' = done /\ isize.size = 1
        BY DEF DataInv, DataTypeOK, PageLocked, Live, Ages
    <2>. QED  BY <1>1, <1>3, <2>1, DoneFollow DEF DataInv
<1>7. BasesKept'
    <2>1. \A u \in Users : Opened(u)' => Opened(u) /\ user'[u].base = user[u].base
        BY <1>1 DEF DataInv, DataTypeOK, UserRec, Opened, Ages
    <2>2. cmode' = cmode
        BY DEF Ages
    <2>. QED  BY <1>1, <1>2, <1>3, <2>1, <2>2, BasesFollow DEF DataInv
<1>8. NodeKept'
    <2>1. \A u \in Users : user'[u].at = "opened" =>
                user[u].at = "opened" /\ user'[u].base = user[u].base
        BY <1>1 DEF DataInv, DataTypeOK, UserRec, Ages
    <2>2. cmode' = cmode /\ (node'.valid => node.valid /\ node'.ver = node.ver)
        BY DEF DataInv, DataTypeOK, Ages
    <2>3. Live' /\ Owing => Owing'
        BY <1>1 DEF DataInv, DataTypeOK, UserRec, Owing, Live, Ages
    <2>. QED  BY <1>1, <1>2, <1>3, <1>4, <2>1, <2>2, <2>3, NodeFollow DEF DataInv
<1>9. SizeTrusted'
    BY <1>1, <1>2 DEF DataInv, DataTypeOK, PageLocked, StatRec, UserRec, SizeTrusted,
       Mutexed, Ages
<1>. QED  BY <1>1, <1>2, <1>4, <1>5, <1>6, <1>7, <1>8, <1>9 DEF DataInv

LEMMA OpenPlainOK ==
    ASSUME DataInv, NEW t \in Users, fuse_lib_open(t),
           cmode # "auto_cache"
    PROVE  DataInv'
<1>. USE DataAssumption
<1>1. DataTypeOK'
    <2>1. user' \in [Users -> UserRec]
        BY DEF DataInv, DataTypeOK, PageLocked, StatRec, UserRec, fuse_lib_open, Call, Promise
    <2>2. page' \in [up : BOOLEAN, ver : Nat, lock : Users \cup {Nobody}, excused : BOOLEAN]
        BY DEF DataInv, DataTypeOK, UserRec, fuse_lib_open, Call, Promise
    <2>3. srv' \in [mt : Nat, size : 0..1, ver : Nat] /\ srv'.ver <= MaxVer /\ srv.ver <= srv'.ver
        BY DEF DataInv, DataTypeOK, UserRec, fuse_lib_open, Call, Promise
    <2>4. isize' \in [size : 0..1, ver : Nat, late : BOOLEAN]
        BY DEF DataInv, DataTypeOK, UserRec, StatRec, fuse_lib_open, Call, Promise
    <2>5. node' \in [valid : BOOLEAN, mt : Nat, size : 0..1, ver : Nat, fresh : BOOLEAN]
        BY DEF DataInv, DataTypeOK, UserRec, StatRec, fuse_lib_open, Call, Promise
    <2>6. ga' \in [at : {"none", "stat", "reply"}, st : StatRec, late : BOOLEAN]
        BY DEF DataInv, DataTypeOK, UserRec, StatRec, fuse_lib_open, Call, Promise
    <2>7. done' \in Nat /\ done' <= srv'.ver /\ lost' \in BOOLEAN /\ cmode' = cmode
        BY <2>3 DEF DataInv, DataTypeOK, PageLocked, MtimesTell, Stats, UserRec, StatRec,
           fuse_lib_open, Call, Promise
    <2>. QED  BY <2>1, <2>2, <2>3, <2>4, <2>5, <2>6, <2>7 DEF DataInv, DataTypeOK
<1>2. PageLocked'
    <2>1. /\ user'[t].at = "opened" /\ user[t].at = "closed" /\ user'[t].got = user[t].got /\ user'[t].base = Promise
          /\ \A u \in Users \ {t} : user'[u] = user[u]
          /\ UNCHANGED <<srv, page, done>>
        BY DEF DataInv, DataTypeOK, UserRec, fuse_lib_open
    <2>2. Promise <= srv.ver /\ Inf' = Inf
        BY DEF DataInv, DataTypeOK, Promise, Inf
    <2>3. \A u \in Users : /\ (user'[u].at = user[u].at \/ u = t)
                            /\ user'[u].got = user[u].got
                            /\ user'[u].base <= srv.ver
        BY <2>1, <2>2 DEF DataInv, PageLocked
    <2>4. /\ t # page.lock /\ user[t].at \notin Mutexed /\ user'[t].at \notin Mutexed
          /\ user'[t].at \notin {"reading", "readback"} \cup Writes
        BY <2>1 DEF DataInv, PageLocked, Writes, Mutexed
    <2>. QED  BY <2>1, <2>2, <2>3, <2>4 DEF DataInv, PageLocked, Writes, Mutexed
<1>3. PageFollows
    BY <1>1, <1>2 DEF DataInv, DataTypeOK, PageLocked, StatRec, UserRec, Writes,
       PageFollows, Live, PageVer, fuse_lib_open, Call, Promise
<1>4. MtimesTell'
    <2>1. Stats' \subseteq Stats \cup {Stat'}
        <3>1. \A u \in Users : user'[u].st = user[u].st
            BY DEF DataInv, DataTypeOK, UserRec, fuse_lib_open
        <3>2. UNCHANGED <<node, srv, ga>>
            BY DEF fuse_lib_open
        <3>. QED  BY <3>1, <3>2 DEF Stats, Stat
    <2>2. SrvFollows
        BY DEF DataInv, SrvFollows, DataTypeOK, Live, fuse_lib_open, Call, Promise
    <2>. QED  BY <1>1, <1>3, <2>1, <2>2, MtimesKept DEF DataInv
<1>5. StagesRight'
    BY <1>1, <1>2 DEF DataInv, DataTypeOK, PageLocked, StatRec, UserRec, StagesRight,
       fuse_lib_open, Call, Promise
<1>6. DoneKept'
    <2>1. Live' /\ isize'.size = 1 => done' = done /\ isize.size = 1
        BY DEF DataInv, DataTypeOK, PageLocked, Live, fuse_lib_open, Call, Promise
    <2>. QED  BY <1>1, <1>3, <2>1, DoneFollow DEF DataInv
<1>7. BasesKept'
    <2>1. \A u \in Users : Opened(u)' => Opened(u) /\ user'[u].base = user[u].base
        BY <1>1 DEF DataInv, DataTypeOK, UserRec, Opened, fuse_lib_open, Call, Promise
    <2>2. cmode' = cmode
        BY DEF fuse_lib_open, Call, Promise
    <2>. QED  BY <1>1, <1>2, <1>3, <2>1, <2>2, BasesFollow DEF DataInv
<1>8. NodeKept'
    <2>1. user'[t].at = "opened" /\ user'[t].keep = (cmode = "kernel_cache") /\ cmode' = cmode
        BY DEF DataInv, DataTypeOK, UserRec, fuse_lib_open
    <2>. QED  BY <2>1 DEF NodeKept, Owing
<1>9. SizeTrusted'
    BY <1>1, <1>2 DEF DataInv, DataTypeOK, PageLocked, StatRec, UserRec, SizeTrusted,
       Mutexed, fuse_lib_open, Call, Promise
<1>. QED  BY <1>1, <1>2, <1>4, <1>5, <1>6, <1>7, <1>8, <1>9 DEF DataInv

LEMMA OpenStatOK ==
    ASSUME DataInv, NEW t \in Users, fuse_lib_open(t),
           cmode = "auto_cache", node.valid, ~ node.fresh
    PROVE  DataInv'
<1>. USE DataAssumption
<1>1. DataTypeOK'
    <2>1. user' \in [Users -> UserRec]
        BY DEF DataInv, DataTypeOK, PageLocked, StatRec, UserRec, fuse_lib_open, Call,
           Promise, Stat
    <2>2. page' \in [up : BOOLEAN, ver : Nat, lock : Users \cup {Nobody}, excused : BOOLEAN]
        BY DEF DataInv, DataTypeOK, UserRec, fuse_lib_open, Call, Promise, Stat
    <2>3. srv' \in [mt : Nat, size : 0..1, ver : Nat] /\ srv'.ver <= MaxVer /\ srv.ver <= srv'.ver
        BY DEF DataInv, DataTypeOK, UserRec, fuse_lib_open, Call, Promise, Stat
    <2>4. isize' \in [size : 0..1, ver : Nat, late : BOOLEAN]
        BY DEF DataInv, DataTypeOK, UserRec, StatRec, fuse_lib_open, Call, Promise, Stat
    <2>5. node' \in [valid : BOOLEAN, mt : Nat, size : 0..1, ver : Nat, fresh : BOOLEAN]
        BY DEF DataInv, DataTypeOK, UserRec, StatRec, fuse_lib_open, Call, Promise, Stat
    <2>6. ga' \in [at : {"none", "stat", "reply"}, st : StatRec, late : BOOLEAN]
        BY DEF DataInv, DataTypeOK, UserRec, StatRec, fuse_lib_open, Call, Promise, Stat
    <2>7. done' \in Nat /\ done' <= srv'.ver /\ lost' \in BOOLEAN /\ cmode' = cmode
        BY <2>3 DEF DataInv, DataTypeOK, PageLocked, MtimesTell, Stats, UserRec, StatRec,
           fuse_lib_open, Call, Promise, Stat
    <2>. QED  BY <2>1, <2>2, <2>3, <2>4, <2>5, <2>6, <2>7 DEF DataInv, DataTypeOK
<1>2. PageLocked'
    <2>1. /\ user'[t].at = "stat" /\ user[t].at = "closed" /\ user'[t].got = user[t].got /\ user'[t].base = Promise
          /\ \A u \in Users \ {t} : user'[u] = user[u]
          /\ UNCHANGED <<srv, page, done>>
        BY DEF DataInv, DataTypeOK, UserRec, fuse_lib_open
    <2>2. Promise <= srv.ver /\ Inf' = Inf
        BY DEF DataInv, DataTypeOK, Promise, Inf
    <2>3. \A u \in Users : /\ (user'[u].at = user[u].at \/ u = t)
                            /\ user'[u].got = user[u].got
                            /\ user'[u].base <= srv.ver
        BY <2>1, <2>2 DEF DataInv, PageLocked
    <2>4. /\ t # page.lock /\ user[t].at \notin Mutexed /\ user'[t].at \notin Mutexed
          /\ user'[t].at \notin {"reading", "readback"} \cup Writes
        BY <2>1 DEF DataInv, PageLocked, Writes, Mutexed
    <2>. QED  BY <2>1, <2>2, <2>3, <2>4 DEF DataInv, PageLocked, Writes, Mutexed
<1>3. PageFollows
    BY <1>1, <1>2 DEF DataInv, DataTypeOK, PageLocked, StatRec, UserRec, Writes,
       PageFollows, Live, PageVer, fuse_lib_open, Call, Promise, Stat
<1>4. MtimesTell'
    <2>1. Stats' \subseteq Stats \cup {Stat'}
        BY <1>1 DEF DataInv, DataTypeOK, StatRec, UserRec, Stats, Stat, fuse_lib_open, Call,
           Promise, Stat
    <2>2. SrvFollows
        BY DEF DataInv, SrvFollows, DataTypeOK, Live, fuse_lib_open, Call, Promise, Stat
    <2>. QED  BY <1>1, <1>3, <2>1, <2>2, MtimesKept DEF DataInv
<1>5. StagesRight'
    BY <1>1, <1>2 DEF DataInv, DataTypeOK, PageLocked, StatRec, UserRec, StagesRight,
       fuse_lib_open, Call, Promise, Stat
<1>6. DoneKept'
    <2>1. Live' /\ isize'.size = 1 => done' = done /\ isize.size = 1
        BY DEF DataInv, DataTypeOK, PageLocked, Live, fuse_lib_open, Call, Promise, Stat
    <2>. QED  BY <1>1, <1>3, <2>1, DoneFollow DEF DataInv
<1>7. BasesKept'
    <2>1. \A u \in Users : Opened(u)' => Opened(u) /\ user'[u].base = user[u].base
        BY <1>1 DEF DataInv, DataTypeOK, UserRec, Opened, fuse_lib_open, Call, Promise, Stat
    <2>2. cmode' = cmode
        BY DEF fuse_lib_open, Call, Promise, Stat
    <2>. QED  BY <1>1, <1>2, <1>3, <2>1, <2>2, BasesFollow DEF DataInv
<1>8. NodeKept'
    <2>1. \A u \in Users : user'[u].at = "opened" =>
                user[u].at = "opened" /\ user'[u].base = user[u].base
        BY <1>1 DEF DataInv, DataTypeOK, UserRec, fuse_lib_open, Call, Promise, Stat
    <2>2. cmode' = cmode /\ (node'.valid => node.valid /\ node'.ver = node.ver)
        BY DEF DataInv, DataTypeOK, fuse_lib_open, Call, Promise, Stat
    <2>3. Live' /\ Owing => Owing'
        BY <1>1 DEF DataInv, DataTypeOK, UserRec, Owing, Live, fuse_lib_open, Call, Promise,
           Stat
    <2>. QED  BY <1>1, <1>2, <1>3, <1>4, <2>1, <2>2, <2>3, NodeFollow DEF DataInv
<1>9. SizeTrusted'
    BY <1>1, <1>2 DEF DataInv, DataTypeOK, PageLocked, StatRec, UserRec, SizeTrusted,
       Mutexed, fuse_lib_open, Call, Promise, Stat
<1>. QED  BY <1>1, <1>2, <1>4, <1>5, <1>6, <1>7, <1>8, <1>9 DEF DataInv

LEMMA OpenDecideOK ==
    ASSUME DataInv, NEW t \in Users, fuse_lib_open(t), cmode = "auto_cache",
           ~ (node.valid /\ ~ node.fresh)
    PROVE  DataInv'
<1>. DEFINE base == IF node.valid THEN node.ver ELSE Promise
            n == [mt |-> node.mt, size |-> node.size, ver |-> node.ver]
<1>1. /\ user[t].at = "closed" /\ Decide(t, node, base)
      /\ UNCHANGED <<cmode, srv, page, isize, ga, done, lost>>
    BY DEF fuse_lib_open
<1>2. node \in NodeRec /\ srv.ver \in Nat
    BY DEF DataInv, DataTypeOK, NodeRec
<1>3. n \in Stats /\ n.ver = node.ver
    BY DEF Stats
<1>4. node.ver <= srv.ver
    BY <1>3 DEF DataInv, MtimesTell
<1>5. base \in Nat /\ base <= srv.ver /\ (node.valid => base = node.ver)
    BY <1>2, <1>4 DEF Promise, NodeRec
<1>6. node.valid /\ Live /\ ~ Owing => PageVer >= base /\ PageVer >= node.ver
    BY <1>5 DEF DataInv, NodeKept
<1>. HIDE DEF base
<1>. QED  BY <1>1, <1>2, <1>3, <1>5, <1>6, DecideOK

LEMMA OpenAutoOK ==
    ASSUME DataInv, NEW t \in Users, open_auto_cache(t)
    PROVE  DataInv'
<1>. DEFINE st == user[t].st
            base == user[t].base
<1>1. user[t].at = "stat" /\ UNCHANGED <<cmode, srv, page, isize, ga, done, lost>>
    BY DEF open_auto_cache
<1>2. st \in Stats /\ st \in StatRec /\ base \in Nat /\ node \in NodeRec
    BY DEF DataInv, DataTypeOK, UserRec, NodeRec, Stats
<1>3. base = st.ver /\ cmode = "auto_cache" /\ base <= srv.ver
    BY <1>1 DEF DataInv, StagesRight, PageLocked
<1>4. CASE Decide(t, update_stat(node, st), base)
    <2>. DEFINE n == update_stat(node, st)
    <2>1. n \in NodeRec /\ n.ver = st.ver
        BY <1>2 DEF update_stat, StatRec, NodeRec
    <2>2. [mt |-> n.mt, size |-> n.size, ver |-> n.ver] \in Stats
        <3>1. [mt |-> n.mt, size |-> n.size, ver |-> n.ver] = st
            BY <1>2 DEF update_stat, StatRec
        <3>. QED  BY <3>1, <1>2
    <2>3. n.valid /\ Live /\ ~ Owing => PageVer >= base /\ PageVer >= n.ver
        BY <1>2, <1>3, <2>1, UpdatedNode DEF DataInv
    <2>. HIDE DEF n
    <2>4. Decide(t, n, base)
        BY <1>4 DEF n
    <2>. QED  BY <1>1, <1>2, <1>3, <2>1, <2>2, <2>3, <2>4, DecideOK
<1>5. CASE Decide(t, [node EXCEPT !.valid = FALSE], base)
    <2>. DEFINE n == [node EXCEPT !.valid = FALSE]
    <2>1. n \in NodeRec /\ ~ n.valid
        BY <1>2 DEF NodeRec
    <2>2. [mt |-> n.mt, size |-> n.size, ver |-> n.ver] \in Stats
        BY <1>2 DEF NodeRec, Stats
    <2>. HIDE DEF n
    <2>3. Decide(t, n, base)
        BY <1>5 DEF n
    <2>. QED  BY <1>1, <1>2, <1>3, <2>1, <2>2, <2>3, DecideOK
<1>. QED  BY <1>4, <1>5 DEF open_auto_cache

LEMMA FinishOpenOK ==
    ASSUME DataInv, NEW t \in Users, fuse_finish_open(t)
    PROVE  DataInv'
<1>. USE DataAssumption
<1>1. DataTypeOK'
    <2>1. user' \in [Users -> UserRec]
        BY DEF DataInv, DataTypeOK, PageLocked, StatRec, UserRec, fuse_finish_open, Owed,
           Invalidated, NoPage, ToIdle, Idle, NoStat
    <2>2. page' \in [up : BOOLEAN, ver : Nat, lock : Users \cup {Nobody}, excused : BOOLEAN]
        BY DEF DataInv, DataTypeOK, UserRec, fuse_finish_open, Owed, Invalidated, NoPage,
           ToIdle, Idle, NoStat
    <2>3. srv' \in [mt : Nat, size : 0..1, ver : Nat] /\ srv'.ver <= MaxVer /\ srv.ver <= srv'.ver
        BY DEF DataInv, DataTypeOK, UserRec, fuse_finish_open, Owed, Invalidated, NoPage,
           ToIdle, Idle, NoStat
    <2>4. isize' \in [size : 0..1, ver : Nat, late : BOOLEAN]
        BY DEF DataInv, DataTypeOK, UserRec, StatRec, fuse_finish_open, Owed, Invalidated,
           NoPage, ToIdle, Idle, NoStat
    <2>5. node' \in [valid : BOOLEAN, mt : Nat, size : 0..1, ver : Nat, fresh : BOOLEAN]
        BY DEF DataInv, DataTypeOK, UserRec, StatRec, fuse_finish_open, Owed, Invalidated,
           NoPage, ToIdle, Idle, NoStat
    <2>6. ga' \in [at : {"none", "stat", "reply"}, st : StatRec, late : BOOLEAN]
        BY DEF DataInv, DataTypeOK, UserRec, StatRec, fuse_finish_open, Owed, Invalidated,
           NoPage, ToIdle, Idle, NoStat
    <2>7. done' \in Nat /\ done' <= srv'.ver /\ lost' \in BOOLEAN /\ cmode' = cmode
        BY <2>3 DEF DataInv, DataTypeOK, PageLocked, MtimesTell, Stats, UserRec, StatRec,
           fuse_finish_open, Owed, Invalidated, NoPage, ToIdle, Idle, NoStat
    <2>. QED  BY <2>1, <2>2, <2>3, <2>4, <2>5, <2>6, <2>7 DEF DataInv, DataTypeOK
<1>2. PageLocked'
    BY <1>1 DEF DataInv, DataTypeOK, PageLocked, StatRec, UserRec, Writes, Mutexed,
       fuse_finish_open, Owed, Invalidated, NoPage, ToIdle, Idle, NoStat
<1>3. PageFollows
    BY <1>1, <1>2 DEF DataInv, DataTypeOK, PageLocked, StatRec, UserRec, Writes,
       PageFollows, Live, PageVer, fuse_finish_open, Owed, Invalidated, NoPage, ToIdle,
       Idle, NoStat
<1>4. MtimesTell'
    <2>1. Stats' \subseteq Stats \cup {Stat'}
        BY <1>1 DEF DataInv, DataTypeOK, StatRec, UserRec, Stats, Stat, fuse_finish_open,
           Owed, Invalidated, NoPage, ToIdle, Idle, NoStat
    <2>2. SrvFollows
        BY DEF DataInv, SrvFollows, DataTypeOK, Live, fuse_finish_open, Owed, Invalidated,
           NoPage, ToIdle, Idle, NoStat
    <2>. QED  BY <1>1, <1>3, <2>1, <2>2, MtimesKept DEF DataInv
<1>5. StagesRight'
    BY <1>1, <1>2 DEF DataInv, DataTypeOK, PageLocked, StatRec, UserRec, StagesRight,
       fuse_finish_open, Owed, Invalidated, NoPage, ToIdle, Idle, NoStat
<1>6. DoneKept'
    <2>1. Live' /\ isize'.size = 1 => done' = done /\ isize.size = 1
        BY DEF DataInv, DataTypeOK, PageLocked, Live, fuse_finish_open, Owed, Invalidated,
           NoPage, ToIdle, Idle, NoStat
    <2>. QED  BY <1>1, <1>3, <2>1, DoneFollow DEF DataInv
<1>7. Live' => user[t].keep /\ ~ Owing /\ Live /\ PageVer' = PageVer
    <2>1. CASE ~ user[t].keep
        BY <2>1 DEF DataInv, DataTypeOK, UserRec, Live, fuse_finish_open, Owed, Invalidated,
           NoPage, ToIdle, Idle, NoStat
    <2>2. CASE user[t].keep
        <3>1. /\ page' = [page EXCEPT !.excused = @ \/ (Owed(t) /\ page # NoPage)]
              /\ \A u \in Users \ {t} : user'[u] = user[u]
            BY <2>2 DEF DataInv, DataTypeOK, fuse_finish_open, ToIdle
        <3>2. page.lock # t
            BY DEF DataInv, DataTypeOK, UserRec, PageLocked, Writes, fuse_finish_open
        <3>3. Live' => Live /\ PageVer' = PageVer
            BY <3>1, <3>2 DEF DataInv, DataTypeOK, Live, PageVer
        <3>4. Live' => ~ Owed(t)
            <4>1. Live' => page # NoPage
                BY <3>3, LiveThere
            <4>2. ~ page'.excused => ~ (Owed(t) /\ page # NoPage)
                BY <3>1 DEF DataInv, DataTypeOK
            <4>. QED  BY <4>1, <4>2 DEF Live
        <3>5. ~ Owed(t) => ~ Owing
            BY <2>2 DEF Owed, Owing
        <3>. QED  BY <2>2, <3>3, <3>4, <3>5
    <2>. QED  BY <2>1, <2>2
<1>10. /\ user'[t].base = user[t].base /\ user'[t].at = "idle" /\ user[t].at = "opened"
       /\ \A u \in Users \ {t} : user'[u] = user[u]
       /\ cmode' = cmode /\ node' = node
    BY DEF DataInv, DataTypeOK, UserRec, fuse_finish_open, ToIdle, Idle
<1>11. BasesKept'
    <2>1. ASSUME Live', cmode' # "kernel_cache", NEW u \in Users, Opened(u)'
          PROVE  PageVer' >= user'[u].base
        <3>1. cmode # "kernel_cache"
            BY <1>10, <2>1
        <3>2. CASE u = t
            BY <1>7, <1>10, <2>1, <3>1, <3>2 DEF DataInv, NodeKept
        <3>3. CASE u # t
            BY <1>7, <1>10, <2>1, <3>1, <3>3 DEF DataInv, BasesKept, Opened
        <3>. QED  BY <3>2, <3>3
    <2>. QED  BY <2>1 DEF BasesKept
<1>8. NodeKept'
    <2>1. ASSUME Live', cmode' # "kernel_cache"
          PROVE  /\ node'.valid => PageVer' >= node'.ver
                 /\ \A u \in Users : user'[u].at = "opened" => PageVer' >= user'[u].base
        <3>1. cmode # "kernel_cache" /\ node' = node
            BY <1>10, <2>1
        <3>2. \A u \in Users : user'[u].at = "opened" => user'[u] = user[u]
            BY <1>10
        <3>. QED  BY <1>7, <2>1, <3>1, <3>2 DEF DataInv, NodeKept
    <2>. QED  BY <2>1 DEF NodeKept
<1>9. SizeTrusted'
    BY <1>1, <1>2 DEF DataInv, DataTypeOK, PageLocked, StatRec, UserRec, SizeTrusted,
       Mutexed, fuse_finish_open, Owed, Invalidated, NoPage, ToIdle, Idle, NoStat
<1>. QED  BY <1>1, <1>2, <1>4, <1>5, <1>6, <1>8, <1>9, <1>11 DEF DataInv

LEMMA OpenKilledOK ==
    ASSUME DataInv, NEW t \in Users, OpenKilled(t)
    PROVE  DataInv'
<1>. USE DataAssumption
<1>1. DataTypeOK'
    <2>1. user' \in [Users -> UserRec]
        BY DEF DataInv, DataTypeOK, PageLocked, StatRec, UserRec, OpenKilled, DataFault,
           ToClosed, Idle, NoStat
    <2>2. page' \in [up : BOOLEAN, ver : Nat, lock : Users \cup {Nobody}, excused : BOOLEAN]
        BY DEF DataInv, DataTypeOK, UserRec, OpenKilled, DataFault, ToClosed, Idle, NoStat
    <2>3. srv' \in [mt : Nat, size : 0..1, ver : Nat] /\ srv'.ver <= MaxVer /\ srv.ver <= srv'.ver
        BY DEF DataInv, DataTypeOK, UserRec, OpenKilled, DataFault, ToClosed, Idle, NoStat
    <2>4. isize' \in [size : 0..1, ver : Nat, late : BOOLEAN]
        BY DEF DataInv, DataTypeOK, UserRec, StatRec, OpenKilled, DataFault, ToClosed, Idle,
           NoStat
    <2>5. node' \in [valid : BOOLEAN, mt : Nat, size : 0..1, ver : Nat, fresh : BOOLEAN]
        BY DEF DataInv, DataTypeOK, UserRec, StatRec, OpenKilled, DataFault, ToClosed, Idle,
           NoStat
    <2>6. ga' \in [at : {"none", "stat", "reply"}, st : StatRec, late : BOOLEAN]
        BY DEF DataInv, DataTypeOK, UserRec, StatRec, OpenKilled, DataFault, ToClosed, Idle,
           NoStat
    <2>7. done' \in Nat /\ done' <= srv'.ver /\ lost' \in BOOLEAN /\ cmode' = cmode
        BY <2>3 DEF DataInv, DataTypeOK, PageLocked, MtimesTell, Stats, UserRec, StatRec,
           OpenKilled, DataFault, ToClosed, Idle, NoStat
    <2>. QED  BY <2>1, <2>2, <2>3, <2>4, <2>5, <2>6, <2>7 DEF DataInv, DataTypeOK
<1>2. PageLocked'
    BY <1>1 DEF DataInv, DataTypeOK, PageLocked, StatRec, UserRec, Writes, Mutexed,
       OpenKilled, DataFault, ToClosed, Idle, NoStat
<1>3. PageFollows
    BY <1>1, <1>2 DEF DataInv, DataTypeOK, PageLocked, StatRec, UserRec, Writes,
       PageFollows, Live, PageVer, OpenKilled, DataFault, ToClosed, Idle, NoStat
<1>4. MtimesTell'
    <2>1. Stats' \subseteq Stats \cup {Stat'}
        BY <1>1 DEF DataInv, DataTypeOK, StatRec, UserRec, Stats, Stat, OpenKilled,
           DataFault, ToClosed, Idle, NoStat
    <2>2. SrvFollows
        BY DEF DataInv, SrvFollows, DataTypeOK, Live, OpenKilled, DataFault, ToClosed, Idle,
           NoStat
    <2>. QED  BY <1>1, <1>3, <2>1, <2>2, MtimesKept DEF DataInv
<1>5. StagesRight'
    BY <1>1, <1>2 DEF DataInv, DataTypeOK, PageLocked, StatRec, UserRec, StagesRight,
       OpenKilled, DataFault, ToClosed, Idle, NoStat
<1>6. DoneKept'
    <2>1. Live' /\ isize'.size = 1 => done' = done /\ isize.size = 1
        BY DEF DataInv, DataTypeOK, PageLocked, Live, OpenKilled, DataFault, ToClosed, Idle,
           NoStat
    <2>. QED  BY <1>1, <1>3, <2>1, DoneFollow DEF DataInv
<1>7. BasesKept'
    <2>1. \A u \in Users : Opened(u)' => Opened(u) /\ user'[u].base = user[u].base
        BY <1>1 DEF DataInv, DataTypeOK, UserRec, Opened, OpenKilled, DataFault, ToClosed,
           Idle, NoStat
    <2>2. cmode' = cmode
        BY DEF OpenKilled, DataFault, ToClosed, Idle, NoStat
    <2>. QED  BY <1>1, <1>2, <1>3, <2>1, <2>2, BasesFollow DEF DataInv
<1>8. NodeKept'
    <2>1. \A u \in Users : user'[u].at = "opened" =>
                user[u].at = "opened" /\ user'[u].base = user[u].base
        BY <1>1 DEF DataInv, DataTypeOK, UserRec, OpenKilled, DataFault, ToClosed, Idle, NoStat
    <2>2. cmode' = cmode /\ (node'.valid => node.valid /\ node'.ver = node.ver)
        BY DEF DataInv, DataTypeOK, OpenKilled, DataFault, ToClosed, Idle, NoStat
    <2>3. Live' /\ Owing => Owing'
        BY <1>1, ZenonT(60) DEF DataInv, DataTypeOK, UserRec, Owing, Live, OpenKilled,
           DataFault,
           ToClosed, Idle, NoStat
    <2>. QED  BY <1>1, <1>2, <1>3, <1>4, <2>1, <2>2, <2>3, NodeFollow DEF DataInv
<1>9. SizeTrusted'
    BY <1>1, <1>2 DEF DataInv, DataTypeOK, PageLocked, StatRec, UserRec, SizeTrusted,
       Mutexed, OpenKilled, DataFault, ToClosed, Idle, NoStat
<1>. QED  BY <1>1, <1>2, <1>4, <1>5, <1>6, <1>7, <1>8, <1>9 DEF DataInv

LEMMA ReleaseOK ==
    ASSUME DataInv, NEW t \in Users, fuse_release(t)
    PROVE  DataInv'
<1>. USE DataAssumption
<1>1. DataTypeOK'
    <2>1. user' \in [Users -> UserRec]
        BY DEF DataInv, DataTypeOK, PageLocked, StatRec, UserRec, fuse_release, ToClosed,
           Idle, NoStat
    <2>2. page' \in [up : BOOLEAN, ver : Nat, lock : Users \cup {Nobody}, excused : BOOLEAN]
        BY DEF DataInv, DataTypeOK, UserRec, fuse_release, ToClosed, Idle, NoStat
    <2>3. srv' \in [mt : Nat, size : 0..1, ver : Nat] /\ srv'.ver <= MaxVer /\ srv.ver <= srv'.ver
        BY DEF DataInv, DataTypeOK, UserRec, fuse_release, ToClosed, Idle, NoStat
    <2>4. isize' \in [size : 0..1, ver : Nat, late : BOOLEAN]
        BY DEF DataInv, DataTypeOK, UserRec, StatRec, fuse_release, ToClosed, Idle, NoStat
    <2>5. node' \in [valid : BOOLEAN, mt : Nat, size : 0..1, ver : Nat, fresh : BOOLEAN]
        BY DEF DataInv, DataTypeOK, UserRec, StatRec, fuse_release, ToClosed, Idle, NoStat
    <2>6. ga' \in [at : {"none", "stat", "reply"}, st : StatRec, late : BOOLEAN]
        BY DEF DataInv, DataTypeOK, UserRec, StatRec, fuse_release, ToClosed, Idle, NoStat
    <2>7. done' \in Nat /\ done' <= srv'.ver /\ lost' \in BOOLEAN /\ cmode' = cmode
        BY <2>3 DEF DataInv, DataTypeOK, PageLocked, MtimesTell, Stats, UserRec, StatRec,
           fuse_release, ToClosed, Idle, NoStat
    <2>. QED  BY <2>1, <2>2, <2>3, <2>4, <2>5, <2>6, <2>7 DEF DataInv, DataTypeOK
<1>2. PageLocked'
    BY <1>1 DEF DataInv, DataTypeOK, PageLocked, StatRec, UserRec, Writes, Mutexed,
       fuse_release, ToClosed, Idle, NoStat
<1>3. PageFollows
    BY <1>1, <1>2 DEF DataInv, DataTypeOK, PageLocked, StatRec, UserRec, Writes,
       PageFollows, Live, PageVer, fuse_release, ToClosed, Idle, NoStat
<1>4. MtimesTell'
    <2>1. Stats' \subseteq Stats \cup {Stat'}
        BY <1>1 DEF DataInv, DataTypeOK, StatRec, UserRec, Stats, Stat, fuse_release,
           ToClosed, Idle, NoStat
    <2>2. SrvFollows
        BY DEF DataInv, SrvFollows, DataTypeOK, Live, fuse_release, ToClosed, Idle, NoStat
    <2>. QED  BY <1>1, <1>3, <2>1, <2>2, MtimesKept DEF DataInv
<1>5. StagesRight'
    BY <1>1, <1>2 DEF DataInv, DataTypeOK, PageLocked, StatRec, UserRec, StagesRight,
       fuse_release, ToClosed, Idle, NoStat
<1>6. DoneKept'
    <2>1. Live' /\ isize'.size = 1 => done' = done /\ isize.size = 1
        BY DEF DataInv, DataTypeOK, PageLocked, Live, fuse_release, ToClosed, Idle, NoStat
    <2>. QED  BY <1>1, <1>3, <2>1, DoneFollow DEF DataInv
<1>7. BasesKept'
    <2>1. \A u \in Users : Opened(u)' => Opened(u) /\ user'[u].base = user[u].base
        BY <1>1 DEF DataInv, DataTypeOK, UserRec, Opened, fuse_release, ToClosed, Idle, NoStat
    <2>2. cmode' = cmode
        BY DEF fuse_release, ToClosed, Idle, NoStat
    <2>. QED  BY <1>1, <1>2, <1>3, <2>1, <2>2, BasesFollow DEF DataInv
<1>8. NodeKept'
    <2>1. \A u \in Users : user'[u].at = "opened" =>
                user[u].at = "opened" /\ user'[u].base = user[u].base
        BY <1>1 DEF DataInv, DataTypeOK, UserRec, fuse_release, ToClosed, Idle, NoStat
    <2>2. cmode' = cmode /\ (node'.valid => node.valid /\ node'.ver = node.ver)
        BY DEF DataInv, DataTypeOK, fuse_release, ToClosed, Idle, NoStat
    <2>3. Live' /\ Owing => Owing'
        BY <1>1 DEF DataInv, DataTypeOK, UserRec, Owing, Live, fuse_release, ToClosed, Idle,
           NoStat
    <2>. QED  BY <1>1, <1>2, <1>3, <1>4, <2>1, <2>2, <2>3, NodeFollow DEF DataInv
<1>9. SizeTrusted'
    BY <1>1, <1>2 DEF DataInv, DataTypeOK, PageLocked, StatRec, UserRec, SizeTrusted,
       Mutexed, fuse_release, ToClosed, Idle, NoStat
<1>. QED  BY <1>1, <1>2, <1>4, <1>5, <1>6, <1>7, <1>8, <1>9 DEF DataInv

LEMMA ReadpageOK ==
    ASSUME DataInv, NEW t \in Users, fuse_readpage(t)
    PROVE  DataInv'
<1>. USE DataAssumption
<1>1. DataTypeOK'
    <2>1. user' \in [Users -> UserRec]
        BY DEF DataInv, DataTypeOK, PageLocked, StatRec, UserRec, fuse_readpage, Call, To
    <2>2. page' \in [up : BOOLEAN, ver : Nat, lock : Users \cup {Nobody}, excused : BOOLEAN]
        BY DEF DataInv, DataTypeOK, UserRec, fuse_readpage, Call, To
    <2>3. srv' \in [mt : Nat, size : 0..1, ver : Nat] /\ srv'.ver <= MaxVer /\ srv.ver <= srv'.ver
        BY DEF DataInv, DataTypeOK, UserRec, fuse_readpage, Call, To
    <2>4. isize' \in [size : 0..1, ver : Nat, late : BOOLEAN]
        BY DEF DataInv, DataTypeOK, UserRec, StatRec, fuse_readpage, Call, To
    <2>5. node' \in [valid : BOOLEAN, mt : Nat, size : 0..1, ver : Nat, fresh : BOOLEAN]
        BY DEF DataInv, DataTypeOK, UserRec, StatRec, fuse_readpage, Call, To
    <2>6. ga' \in [at : {"none", "stat", "reply"}, st : StatRec, late : BOOLEAN]
        BY DEF DataInv, DataTypeOK, UserRec, StatRec, fuse_readpage, Call, To
    <2>7. done' \in Nat /\ done' <= srv'.ver /\ lost' \in BOOLEAN /\ cmode' = cmode
        BY <2>3 DEF DataInv, DataTypeOK, PageLocked, MtimesTell, Stats, UserRec, StatRec,
           fuse_readpage, Call, To
    <2>. QED  BY <2>1, <2>2, <2>3, <2>4, <2>5, <2>6, <2>7 DEF DataInv, DataTypeOK
<1>2. PageLocked'
    BY <1>1 DEF DataInv, DataTypeOK, PageLocked, StatRec, UserRec, Writes, Mutexed,
       fuse_readpage, Call, To
<1>3. PageFollows
    BY <1>1, <1>2 DEF DataInv, DataTypeOK, PageLocked, StatRec, UserRec, Writes,
       PageFollows, Live, PageVer, fuse_readpage, Call, To
<1>4. MtimesTell'
    <2>1. Stats' \subseteq Stats \cup {Stat'}
        BY <1>1 DEF DataInv, DataTypeOK, StatRec, UserRec, Stats, Stat, fuse_readpage, Call, To
    <2>2. SrvFollows
        BY DEF DataInv, SrvFollows, DataTypeOK, Live, fuse_readpage, Call, To
    <2>. QED  BY <1>1, <1>3, <2>1, <2>2, MtimesKept DEF DataInv
<1>5. StagesRight'
    BY <1>1, <1>2 DEF DataInv, DataTypeOK, PageLocked, StatRec, UserRec, StagesRight,
       fuse_readpage, Call, To
<1>6. DoneKept'
    <2>1. Live' /\ isize'.size = 1 => done' = done /\ isize.size = 1
        BY DEF DataInv, DataTypeOK, PageLocked, Live, fuse_readpage, Call, To
    <2>. QED  BY <1>1, <1>3, <2>1, DoneFollow DEF DataInv
<1>7. BasesKept'
    <2>1. \A u \in Users : Opened(u)' => Opened(u) /\ user'[u].base = user[u].base
        BY <1>1 DEF DataInv, DataTypeOK, UserRec, Opened, fuse_readpage, Call, To
    <2>2. cmode' = cmode
        BY DEF fuse_readpage, Call, To
    <2>. QED  BY <1>1, <1>2, <1>3, <2>1, <2>2, BasesFollow DEF DataInv
<1>8. NodeKept'
    <2>1. \A u \in Users : user'[u].at = "opened" =>
                user[u].at = "opened" /\ user'[u].base = user[u].base
        BY <1>1 DEF DataInv, DataTypeOK, UserRec, fuse_readpage, Call, To
    <2>2. cmode' = cmode /\ (node'.valid => node.valid /\ node'.ver = node.ver)
        BY DEF DataInv, DataTypeOK, fuse_readpage, Call, To
    <2>3. Live' /\ Owing => Owing'
        BY <1>1 DEF DataInv, DataTypeOK, UserRec, Owing, Live, fuse_readpage, Call, To
    <2>. QED  BY <1>1, <1>2, <1>3, <1>4, <2>1, <2>2, <2>3, NodeFollow DEF DataInv
<1>9. SizeTrusted'
    BY <1>1, <1>2 DEF DataInv, DataTypeOK, PageLocked, StatRec, UserRec, SizeTrusted,
       Mutexed, fuse_readpage, Call, To
<1>. QED  BY <1>1, <1>2, <1>4, <1>5, <1>6, <1>7, <1>8, <1>9 DEF DataInv

LEMMA LibReadOK ==
    ASSUME DataInv, NEW t \in Users, fuse_lib_read(t)
    PROVE  DataInv'
<1>. USE DataAssumption
<1>1. DataTypeOK'
    <2>1. user' \in [Users -> UserRec]
        <3>. DEFINE r == [user[t] EXCEPT !.at = "readback", !.got = srv.ver]
        <3>1. user[t] \in UserRec /\ srv.ver \in Nat /\ user \in [Users -> UserRec]
            BY DEF DataInv, DataTypeOK, Changed
        <3>2. r \in UserRec
            BY <3>1 DEF UserRec, StatRec
        <3>3. user' = [user EXCEPT ![t] = r]
            BY DEF fuse_lib_read
        <3>. HIDE DEF r
        <3>. QED  BY <3>1, <3>2, <3>3
    <2>2. page' \in [up : BOOLEAN, ver : Nat, lock : Users \cup {Nobody}, excused : BOOLEAN]
        BY DEF DataInv, DataTypeOK, UserRec, fuse_lib_read
    <2>3. srv' \in [mt : Nat, size : 0..1, ver : Nat] /\ srv'.ver <= MaxVer /\ srv.ver <= srv'.ver
        BY DEF DataInv, DataTypeOK, UserRec, fuse_lib_read
    <2>4. isize' \in [size : 0..1, ver : Nat, late : BOOLEAN]
        BY DEF DataInv, DataTypeOK, UserRec, StatRec, fuse_lib_read
    <2>5. node' \in [valid : BOOLEAN, mt : Nat, size : 0..1, ver : Nat, fresh : BOOLEAN]
        BY DEF DataInv, DataTypeOK, UserRec, StatRec, fuse_lib_read
    <2>6. ga' \in [at : {"none", "stat", "reply"}, st : StatRec, late : BOOLEAN]
        BY DEF DataInv, DataTypeOK, UserRec, StatRec, fuse_lib_read
    <2>7. done' \in Nat /\ done' <= srv'.ver /\ lost' \in BOOLEAN /\ cmode' = cmode
        BY <2>3 DEF DataInv, DataTypeOK, PageLocked, MtimesTell, Stats, UserRec, StatRec,
           fuse_lib_read
    <2>. QED  BY <2>1, <2>2, <2>3, <2>4, <2>5, <2>6, <2>7 DEF DataInv, DataTypeOK
<1>2. PageLocked'
    BY <1>1 DEF DataInv, DataTypeOK, PageLocked, StatRec, UserRec, Writes, Mutexed,
       fuse_lib_read
<1>3. PageFollows
    BY <1>1, <1>2 DEF DataInv, DataTypeOK, PageLocked, StatRec, UserRec, Writes,
       PageFollows, Live, PageVer, fuse_lib_read
<1>4. MtimesTell'
    <2>1. Stats' \subseteq Stats \cup {Stat'}
        BY <1>1 DEF DataInv, DataTypeOK, StatRec, UserRec, Stats, Stat, fuse_lib_read
    <2>2. SrvFollows
        BY DEF DataInv, SrvFollows, DataTypeOK, Live, fuse_lib_read
    <2>. QED  BY <1>1, <1>3, <2>1, <2>2, MtimesKept DEF DataInv
<1>5. StagesRight'
    BY <1>1, <1>2 DEF DataInv, DataTypeOK, PageLocked, StatRec, UserRec, StagesRight,
       fuse_lib_read
<1>6. DoneKept'
    <2>1. Live' /\ isize'.size = 1 => done' = done /\ isize.size = 1
        BY DEF DataInv, DataTypeOK, PageLocked, Live, fuse_lib_read
    <2>. QED  BY <1>1, <1>3, <2>1, DoneFollow DEF DataInv
<1>7. BasesKept'
    <2>1. \A u \in Users : Opened(u)' => Opened(u) /\ user'[u].base = user[u].base
        BY <1>1 DEF DataInv, DataTypeOK, UserRec, Opened, fuse_lib_read
    <2>2. cmode' = cmode
        BY DEF fuse_lib_read
    <2>. QED  BY <1>1, <1>2, <1>3, <2>1, <2>2, BasesFollow DEF DataInv
<1>8. NodeKept'
    <2>1. \A u \in Users : user'[u].at = "opened" =>
                user[u].at = "opened" /\ user'[u].base = user[u].base
        BY <1>1 DEF DataInv, DataTypeOK, UserRec, fuse_lib_read
    <2>2. cmode' = cmode /\ (node'.valid => node.valid /\ node'.ver = node.ver)
        BY DEF DataInv, DataTypeOK, fuse_lib_read
    <2>3. Live' /\ Owing => Owing'
        BY <1>1 DEF DataInv, DataTypeOK, UserRec, Owing, Live, fuse_lib_read
    <2>. QED  BY <1>1, <1>2, <1>3, <1>4, <2>1, <2>2, <2>3, NodeFollow DEF DataInv
<1>9. SizeTrusted'
    BY <1>1, <1>2 DEF DataInv, DataTypeOK, PageLocked, StatRec, UserRec, SizeTrusted,
       Mutexed, fuse_lib_read
<1>. QED  BY <1>1, <1>2, <1>4, <1>5, <1>6, <1>7, <1>8, <1>9 DEF DataInv

LEMMA ReadServedOK ==
    ASSUME DataInv, NEW t \in Users, fuse_readpages_end(t),
           page' = [page EXCEPT !.up = TRUE, !.ver = user[t].got, !.lock = Nobody]
    PROVE  DataInv'
<1>. USE DataAssumption
<1>1. DataTypeOK'
    <2>1. user' \in [Users -> UserRec]
        BY DEF DataInv, DataTypeOK, PageLocked, StatRec, UserRec, fuse_readpages_end,
           ToIdle, Idle, NoStat
    <2>2. page' \in [up : BOOLEAN, ver : Nat, lock : Users \cup {Nobody}, excused : BOOLEAN]
        BY DEF DataInv, DataTypeOK, UserRec, fuse_readpages_end, ToIdle, Idle, NoStat
    <2>3. srv' \in [mt : Nat, size : 0..1, ver : Nat] /\ srv'.ver <= MaxVer /\ srv.ver <= srv'.ver
        BY DEF DataInv, DataTypeOK, UserRec, fuse_readpages_end, ToIdle, Idle, NoStat
    <2>4. isize' \in [size : 0..1, ver : Nat, late : BOOLEAN]
        BY DEF DataInv, DataTypeOK, UserRec, StatRec, fuse_readpages_end, ToIdle, Idle, NoStat
    <2>5. node' \in [valid : BOOLEAN, mt : Nat, size : 0..1, ver : Nat, fresh : BOOLEAN]
        BY DEF DataInv, DataTypeOK, UserRec, StatRec, fuse_readpages_end, ToIdle, Idle, NoStat
    <2>6. ga' \in [at : {"none", "stat", "reply"}, st : StatRec, late : BOOLEAN]
        BY DEF DataInv, DataTypeOK, UserRec, StatRec, fuse_readpages_end, ToIdle, Idle, NoStat
    <2>7. done' \in Nat /\ done' <= srv'.ver /\ lost' \in BOOLEAN /\ cmode' = cmode
        BY <2>3 DEF DataInv, DataTypeOK, PageLocked, MtimesTell, Stats, UserRec, StatRec,
           fuse_readpages_end, ToIdle, Idle, NoStat
    <2>. QED  BY <2>1, <2>2, <2>3, <2>4, <2>5, <2>6, <2>7 DEF DataInv, DataTypeOK
<1>2. PageLocked'
    BY <1>1 DEF DataInv, DataTypeOK, PageLocked, StatRec, UserRec, Writes, Mutexed,
       fuse_readpages_end, ToIdle, Idle, NoStat
<1>3. PageFollows
    BY <1>1, <1>2 DEF DataInv, DataTypeOK, PageLocked, StatRec, UserRec, Writes,
       PageFollows, Live, PageVer, fuse_readpages_end, ToIdle, Idle, NoStat
<1>4. MtimesTell'
    <2>1. Stats' \subseteq Stats \cup {Stat'}
        BY <1>1 DEF DataInv, DataTypeOK, StatRec, UserRec, Stats, Stat, fuse_readpages_end,
           ToIdle, Idle, NoStat
    <2>2. SrvFollows
        BY DEF DataInv, SrvFollows, DataTypeOK, Live, fuse_readpages_end, ToIdle, Idle, NoStat
    <2>. QED  BY <1>1, <1>3, <2>1, <2>2, MtimesKept DEF DataInv
<1>5. StagesRight'
    BY <1>1, <1>2 DEF DataInv, DataTypeOK, PageLocked, StatRec, UserRec, StagesRight,
       fuse_readpages_end, ToIdle, Idle, NoStat
<1>6. DoneKept'
    <2>1. Live' /\ isize'.size = 1 => done' = done /\ isize.size = 1
        BY DEF DataInv, DataTypeOK, PageLocked, Live, fuse_readpages_end, ToIdle, Idle, NoStat
    <2>. QED  BY <1>1, <1>3, <2>1, DoneFollow DEF DataInv
<1>7. BasesKept'
    <2>1. \A u \in Users : Opened(u)' => Opened(u) /\ user'[u].base = user[u].base
        BY <1>1 DEF DataInv, DataTypeOK, UserRec, Opened, fuse_readpages_end, ToIdle, Idle,
           NoStat
    <2>2. cmode' = cmode
        BY DEF fuse_readpages_end, ToIdle, Idle, NoStat
    <2>. QED  BY <1>1, <1>2, <1>3, <2>1, <2>2, BasesFollow DEF DataInv
<1>8. NodeKept'
    <2>1. \A u \in Users : user'[u].at = "opened" =>
                user[u].at = "opened" /\ user'[u].base = user[u].base
        BY <1>1 DEF DataInv, DataTypeOK, UserRec, fuse_readpages_end, ToIdle, Idle, NoStat
    <2>2. cmode' = cmode /\ (node'.valid => node.valid /\ node'.ver = node.ver)
        BY DEF DataInv, DataTypeOK, fuse_readpages_end, ToIdle, Idle, NoStat
    <2>3. Live' /\ Owing => Owing'
        BY <1>1 DEF DataInv, DataTypeOK, UserRec, Owing, Live, fuse_readpages_end, ToIdle,
           Idle, NoStat
    <2>. QED  BY <1>1, <1>2, <1>3, <1>4, <2>1, <2>2, <2>3, NodeFollow DEF DataInv
<1>9. SizeTrusted'
    BY <1>1, <1>2 DEF DataInv, DataTypeOK, PageLocked, StatRec, UserRec, SizeTrusted,
       Mutexed, fuse_readpages_end, ToIdle, Idle, NoStat
<1>. QED  BY <1>1, <1>2, <1>4, <1>5, <1>6, <1>7, <1>8, <1>9 DEF DataInv

LEMMA ReadFailedOK ==
    ASSUME DataInv, NEW t \in Users, fuse_readpages_end(t),
           page' = NoPage
    PROVE  DataInv'
<1>. USE DataAssumption
<1>1. DataTypeOK'
    <2>1. user' \in [Users -> UserRec]
        BY DEF DataInv, DataTypeOK, PageLocked, StatRec, UserRec, fuse_readpages_end,
           NoPage, ToIdle, Idle, NoStat
    <2>2. page' \in [up : BOOLEAN, ver : Nat, lock : Users \cup {Nobody}, excused : BOOLEAN]
        BY DEF DataInv, DataTypeOK, UserRec, fuse_readpages_end, NoPage, ToIdle, Idle, NoStat
    <2>3. srv' \in [mt : Nat, size : 0..1, ver : Nat] /\ srv'.ver <= MaxVer /\ srv.ver <= srv'.ver
        BY DEF DataInv, DataTypeOK, UserRec, fuse_readpages_end, NoPage, ToIdle, Idle, NoStat
    <2>4. isize' \in [size : 0..1, ver : Nat, late : BOOLEAN]
        BY DEF DataInv, DataTypeOK, UserRec, StatRec, fuse_readpages_end, NoPage, ToIdle,
           Idle, NoStat
    <2>5. node' \in [valid : BOOLEAN, mt : Nat, size : 0..1, ver : Nat, fresh : BOOLEAN]
        BY DEF DataInv, DataTypeOK, UserRec, StatRec, fuse_readpages_end, NoPage, ToIdle,
           Idle, NoStat
    <2>6. ga' \in [at : {"none", "stat", "reply"}, st : StatRec, late : BOOLEAN]
        BY DEF DataInv, DataTypeOK, UserRec, StatRec, fuse_readpages_end, NoPage, ToIdle,
           Idle, NoStat
    <2>7. done' \in Nat /\ done' <= srv'.ver /\ lost' \in BOOLEAN /\ cmode' = cmode
        BY <2>3 DEF DataInv, DataTypeOK, PageLocked, MtimesTell, Stats, UserRec, StatRec,
           fuse_readpages_end, NoPage, ToIdle, Idle, NoStat
    <2>. QED  BY <2>1, <2>2, <2>3, <2>4, <2>5, <2>6, <2>7 DEF DataInv, DataTypeOK
<1>2. PageLocked'
    BY <1>1 DEF DataInv, DataTypeOK, PageLocked, StatRec, UserRec, Writes, Mutexed,
       fuse_readpages_end, NoPage, ToIdle, Idle, NoStat
<1>3. PageFollows
    BY <1>1, <1>2 DEF DataInv, DataTypeOK, PageLocked, StatRec, UserRec, Writes,
       PageFollows, Live, PageVer, fuse_readpages_end, NoPage, ToIdle, Idle, NoStat
<1>4. MtimesTell'
    <2>1. Stats' \subseteq Stats \cup {Stat'}
        BY <1>1 DEF DataInv, DataTypeOK, StatRec, UserRec, Stats, Stat, fuse_readpages_end,
           NoPage, ToIdle, Idle, NoStat
    <2>2. SrvFollows
        BY DEF DataInv, SrvFollows, DataTypeOK, Live, fuse_readpages_end, NoPage, ToIdle,
           Idle, NoStat
    <2>. QED  BY <1>1, <1>3, <2>1, <2>2, MtimesKept DEF DataInv
<1>5. StagesRight'
    BY <1>1, <1>2 DEF DataInv, DataTypeOK, PageLocked, StatRec, UserRec, StagesRight,
       fuse_readpages_end, NoPage, ToIdle, Idle, NoStat
<1>6. DoneKept'
    <2>1. Live' /\ isize'.size = 1 => done' = done /\ isize.size = 1
        BY DEF DataInv, DataTypeOK, PageLocked, Live, fuse_readpages_end, NoPage, ToIdle,
           Idle, NoStat
    <2>. QED  BY <1>1, <1>3, <2>1, DoneFollow DEF DataInv
<1>7. BasesKept'
    <2>1. \A u \in Users : Opened(u)' => Opened(u) /\ user'[u].base = user[u].base
        BY <1>1 DEF DataInv, DataTypeOK, UserRec, Opened, fuse_readpages_end, NoPage,
           ToIdle, Idle, NoStat
    <2>2. cmode' = cmode
        BY DEF fuse_readpages_end, NoPage, ToIdle, Idle, NoStat
    <2>. QED  BY <1>1, <1>2, <1>3, <2>1, <2>2, BasesFollow DEF DataInv
<1>8. NodeKept'
    <2>1. \A u \in Users : user'[u].at = "opened" =>
                user[u].at = "opened" /\ user'[u].base = user[u].base
        BY <1>1 DEF DataInv, DataTypeOK, UserRec, fuse_readpages_end, NoPage, ToIdle, Idle,
           NoStat
    <2>2. cmode' = cmode /\ (node'.valid => node.valid /\ node'.ver = node.ver)
        BY DEF DataInv, DataTypeOK, fuse_readpages_end, NoPage, ToIdle, Idle, NoStat
    <2>3. Live' /\ Owing => Owing'
        BY <1>1 DEF DataInv, DataTypeOK, UserRec, Owing, Live, fuse_readpages_end, NoPage,
           ToIdle, Idle, NoStat
    <2>. QED  BY <1>1, <1>2, <1>3, <1>4, <2>1, <2>2, <2>3, NodeFollow DEF DataInv
<1>9. SizeTrusted'
    BY <1>1, <1>2 DEF DataInv, DataTypeOK, PageLocked, StatRec, UserRec, SizeTrusted,
       Mutexed, fuse_readpages_end, NoPage, ToIdle, Idle, NoStat
<1>. QED  BY <1>1, <1>2, <1>4, <1>5, <1>6, <1>7, <1>8, <1>9 DEF DataInv

LEMMA PrepareOK ==
    ASSUME DataInv, NEW t \in Users, NEW whole \in BOOLEAN, fuse_prepare_write(t, whole)
    PROVE  DataInv'
<1>. USE DataAssumption
<1>1. DataTypeOK'
    <2>1. user' \in [Users -> UserRec]
        <3>. DEFINE r == [user[t] EXCEPT !.at = "write", !.whole = whole]
        <3>1. user[t] \in UserRec /\ srv.ver \in Nat /\ user \in [Users -> UserRec]
            BY DEF DataInv, DataTypeOK, Changed
        <3>2. r \in UserRec
            BY <3>1 DEF UserRec, StatRec
        <3>3. user' = [user EXCEPT ![t] = r]
            BY DEF fuse_prepare_write, Call, MutexFree, HasMutex, Inf
        <3>. HIDE DEF r
        <3>. QED  BY <3>1, <3>2, <3>3
    <2>2. page' \in [up : BOOLEAN, ver : Nat, lock : Users \cup {Nobody}, excused : BOOLEAN]
        <3>1. (IF whole \/ page.up THEN Inf ELSE 0) \in Nat
            BY DEF Inf
        <3>. QED  BY <3>1 DEF DataInv, DataTypeOK, fuse_prepare_write
    <2>3. srv' \in [mt : Nat, size : 0..1, ver : Nat] /\ srv'.ver <= MaxVer /\ srv.ver <= srv'.ver
        BY DEF DataInv, DataTypeOK, UserRec, fuse_prepare_write, Call, MutexFree, HasMutex, Inf
    <2>4. isize' \in [size : 0..1, ver : Nat, late : BOOLEAN]
        BY DEF DataInv, DataTypeOK, UserRec, StatRec, fuse_prepare_write, Call, MutexFree,
           HasMutex, Inf
    <2>5. node' \in [valid : BOOLEAN, mt : Nat, size : 0..1, ver : Nat, fresh : BOOLEAN]
        BY DEF DataInv, DataTypeOK, UserRec, StatRec, fuse_prepare_write, Call, MutexFree,
           HasMutex, Inf
    <2>6. ga' \in [at : {"none", "stat", "reply"}, st : StatRec, late : BOOLEAN]
        BY DEF DataInv, DataTypeOK, UserRec, StatRec, fuse_prepare_write, Call, MutexFree,
           HasMutex, Inf
    <2>7. done' \in Nat /\ done' <= srv'.ver /\ lost' \in BOOLEAN /\ cmode' = cmode
        BY <2>3 DEF DataInv, DataTypeOK, PageLocked, MtimesTell, Stats, UserRec, StatRec,
           fuse_prepare_write, Call, MutexFree, HasMutex, Inf
    <2>. QED  BY <2>1, <2>2, <2>3, <2>4, <2>5, <2>6, <2>7 DEF DataInv, DataTypeOK
<1>2. PageLocked'
    BY <1>1 DEF DataInv, DataTypeOK, PageLocked, StatRec, UserRec, Writes, Mutexed,
       fuse_prepare_write, Call, MutexFree, HasMutex, Inf
<1>3. PageFollows
    BY <1>1, <1>2 DEF DataInv, DataTypeOK, PageLocked, StatRec, UserRec, Writes,
       PageFollows, Live, PageVer, fuse_prepare_write, Call, MutexFree, HasMutex, Inf
<1>4. MtimesTell'
    <2>1. Stats' \subseteq Stats \cup {Stat'}
        BY <1>1 DEF DataInv, DataTypeOK, StatRec, UserRec, Stats, Stat, fuse_prepare_write,
           Call, MutexFree, HasMutex, Inf
    <2>2. SrvFollows
        BY DEF DataInv, SrvFollows, DataTypeOK, Live, fuse_prepare_write, Call, MutexFree,
           HasMutex, Inf
    <2>. QED  BY <1>1, <1>3, <2>1, <2>2, MtimesKept DEF DataInv
<1>5. StagesRight'
    BY <1>1, <1>2 DEF DataInv, DataTypeOK, PageLocked, StatRec, UserRec, StagesRight,
       fuse_prepare_write, Call, MutexFree, HasMutex, Inf
<1>6. DoneKept'
    <2>1. Live' /\ isize'.size = 1 => done' = done /\ isize.size = 1
        BY DEF DataInv, DataTypeOK, PageLocked, Live, fuse_prepare_write, Call, MutexFree,
           HasMutex, Inf
    <2>. QED  BY <1>1, <1>3, <2>1, DoneFollow DEF DataInv
<1>7. BasesKept'
    <2>1. \A u \in Users : Opened(u)' => Opened(u) /\ user'[u].base = user[u].base
        BY <1>1 DEF DataInv, DataTypeOK, UserRec, Opened, fuse_prepare_write, Call,
           MutexFree, HasMutex, Inf
    <2>2. cmode' = cmode
        BY DEF fuse_prepare_write, Call, MutexFree, HasMutex, Inf
    <2>. QED  BY <1>1, <1>2, <1>3, <2>1, <2>2, BasesFollow DEF DataInv
<1>8. NodeKept'
    <2>1. \A u \in Users : user'[u].at = "opened" =>
                user[u].at = "opened" /\ user'[u].base = user[u].base
        BY <1>1 DEF DataInv, DataTypeOK, UserRec, fuse_prepare_write, Call, MutexFree,
           HasMutex, Inf
    <2>2. cmode' = cmode /\ (node'.valid => node.valid /\ node'.ver = node.ver)
        BY DEF DataInv, DataTypeOK, fuse_prepare_write, Call, MutexFree, HasMutex, Inf
    <2>3. Live' /\ Owing => Owing'
        BY <1>1 DEF DataInv, DataTypeOK, UserRec, Owing, Live, fuse_prepare_write, Call,
           MutexFree, HasMutex, Inf
    <2>. QED  BY <1>1, <1>2, <1>3, <1>4, <2>1, <2>2, <2>3, NodeFollow DEF DataInv
<1>9. SizeTrusted'
    BY <1>1, <1>2 DEF DataInv, DataTypeOK, PageLocked, StatRec, UserRec, SizeTrusted,
       Mutexed, fuse_prepare_write, Call, MutexFree, HasMutex, Inf
<1>. QED  BY <1>1, <1>2, <1>4, <1>5, <1>6, <1>7, <1>8, <1>9 DEF DataInv

LEMMA LibWriteOK ==
    ASSUME DataInv, NEW t \in Users, fuse_lib_write(t)
    PROVE  DataInv'
<1>. USE DataAssumption
<1>1. DataTypeOK'
    <2>1. user' \in [Users -> UserRec]
        BY DEF DataInv, DataTypeOK, PageLocked, StatRec, UserRec, fuse_lib_write, DataFault,
           To, Changed, Inf
    <2>2. page' \in [up : BOOLEAN, ver : Nat, lock : Users \cup {Nobody}, excused : BOOLEAN]
        BY DEF DataInv, DataTypeOK, UserRec, fuse_lib_write, DataFault, To, Changed, Inf
    <2>3. srv' \in [mt : Nat, size : 0..1, ver : Nat] /\ srv'.ver <= MaxVer /\ srv.ver <= srv'.ver
        BY DEF DataInv, DataTypeOK, UserRec, fuse_lib_write, DataFault, To, Changed, Inf
    <2>4. isize' \in [size : 0..1, ver : Nat, late : BOOLEAN]
        BY DEF DataInv, DataTypeOK, UserRec, StatRec, fuse_lib_write, DataFault, To,
           Changed, Inf
    <2>5. node' \in [valid : BOOLEAN, mt : Nat, size : 0..1, ver : Nat, fresh : BOOLEAN]
        BY DEF DataInv, DataTypeOK, UserRec, StatRec, fuse_lib_write, DataFault, To,
           Changed, Inf
    <2>6. ga' \in [at : {"none", "stat", "reply"}, st : StatRec, late : BOOLEAN]
        BY DEF DataInv, DataTypeOK, UserRec, StatRec, fuse_lib_write, DataFault, To,
           Changed, Inf
    <2>7. done' \in Nat /\ done' <= srv'.ver /\ lost' \in BOOLEAN /\ cmode' = cmode
        BY <2>3 DEF DataInv, DataTypeOK, PageLocked, MtimesTell, Stats, UserRec, StatRec,
           fuse_lib_write, DataFault, To, Changed, Inf
    <2>. QED  BY <2>1, <2>2, <2>3, <2>4, <2>5, <2>6, <2>7 DEF DataInv, DataTypeOK
<1>2. PageLocked'
    <2>1. /\ user[t].at = "write" /\ user'[t].at \in {"written", "refused"}
          /\ user'[t].whole = user[t].whole /\ user'[t].base = user[t].base
          /\ user'[t].at = "written" => user'[t].got = srv.ver + 1 /\ srv'.ver = srv.ver + 1
          /\ user'[t].at = "refused" => user'[t].got = user[t].got
          /\ \A u \in Users \ {t} : user'[u] = user[u]
          /\ UNCHANGED <<page, done>> /\ Inf' = Inf
        BY DEF DataInv, DataTypeOK, UserRec, fuse_lib_write, To, Changed, Inf
    <2>2. /\ srv.ver \in Nat /\ srv'.ver \in Nat /\ srv.ver <= srv'.ver /\ done <= srv.ver /\ done \in Nat
          /\ \A u \in Users : user[u].got \in Nat /\ user[u].base \in Nat
        BY <1>1, <2>1 DEF DataInv, DataTypeOK, UserRec, fuse_lib_write, Changed
    <2>3. /\ user[t].at \in Mutexed /\ user'[t].at \in Mutexed /\ user[t].at \in Writes /\ user'[t].at \in Writes
          /\ user'[t].at = "written" => user'[t].got >= done
          /\ user'[t].got <= srv'.ver /\ user'[t].base <= srv'.ver
        BY <2>1, <2>2 DEF DataInv, PageLocked, Writes, Mutexed
    <2>4. \A u \in Users : user'[u].got <= srv'.ver /\ user'[u].base <= srv'.ver
        BY <2>1, <2>2, <2>3 DEF DataInv, PageLocked
    <2>. QED  BY <2>1, <2>3, <2>4 DEF DataInv, PageLocked, Writes, Mutexed
<1>3. PageFollows
    BY <1>1, <1>2 DEF DataInv, DataTypeOK, PageLocked, StatRec, UserRec, Writes,
       PageFollows, Live, PageVer, fuse_lib_write, DataFault, To, Changed, Inf
<1>4. MtimesTell'
    <2>1. Stats' \subseteq Stats \cup {Stat'}
        BY <1>1, SMTT(30) DEF DataInv, DataTypeOK, StatRec, UserRec, Stats, Stat,
           fuse_lib_write,
           DataFault, To, Changed, Inf
    <2>2. SrvFollows
        BY DEF DataInv, SrvFollows, DataTypeOK, Live, fuse_lib_write, DataFault, To,
           Changed, Inf
    <2>. QED  BY <1>1, <1>3, <2>1, <2>2, MtimesKept DEF DataInv
<1>5. StagesRight'
    BY <1>1, <1>2 DEF DataInv, DataTypeOK, PageLocked, StatRec, UserRec, StagesRight,
       fuse_lib_write, DataFault, To, Changed, Inf
<1>6. DoneKept'
    <2>1. Live' /\ isize'.size = 1 => done' = done /\ isize.size = 1
        BY DEF DataInv, DataTypeOK, PageLocked, Live, fuse_lib_write, DataFault, To,
           Changed, Inf
    <2>. QED  BY <1>1, <1>3, <2>1, DoneFollow DEF DataInv
<1>7. BasesKept'
    <2>1. \A u \in Users : Opened(u)' => Opened(u) /\ user'[u].base = user[u].base
        BY <1>1 DEF DataInv, DataTypeOK, UserRec, Opened, fuse_lib_write, DataFault, To,
           Changed, Inf
    <2>2. cmode' = cmode
        BY DEF fuse_lib_write, DataFault, To, Changed, Inf
    <2>. QED  BY <1>1, <1>2, <1>3, <2>1, <2>2, BasesFollow DEF DataInv
<1>8. NodeKept'
    <2>1. \A u \in Users : user'[u].at = "opened" =>
                user[u].at = "opened" /\ user'[u].base = user[u].base
        BY <1>1 DEF DataInv, DataTypeOK, UserRec, fuse_lib_write, DataFault, To, Changed, Inf
    <2>2. cmode' = cmode /\ (node'.valid => node.valid /\ node'.ver = node.ver)
        BY DEF DataInv, DataTypeOK, fuse_lib_write, DataFault, To, Changed, Inf
    <2>3. Live' /\ Owing => Owing'
        BY <1>1 DEF DataInv, DataTypeOK, UserRec, Owing, Live, fuse_lib_write, DataFault,
           To, Changed, Inf
    <2>. QED  BY <1>1, <1>2, <1>3, <1>4, <2>1, <2>2, <2>3, NodeFollow DEF DataInv
<1>9. SizeTrusted'
    BY <1>1, <1>2 DEF DataInv, DataTypeOK, PageLocked, StatRec, UserRec, SizeTrusted,
       Mutexed, fuse_lib_write, DataFault, To, Changed, Inf
<1>. QED  BY <1>1, <1>2, <1>4, <1>5, <1>6, <1>7, <1>8, <1>9 DEF DataInv

LEMMA CommitOK ==
    ASSUME DataInv, NEW t \in Users, fuse_commit_write(t)
    PROVE  DataInv'
<1>. USE DataAssumption
<1>1. DataTypeOK'
    <2>1. user' \in [Users -> UserRec]
        BY DEF DataInv, DataTypeOK, PageLocked, StatRec, UserRec, fuse_commit_write,
           Unlocked, NoPage, SizeWritten, Size, Completed, MaxOf, ToIdle, Idle, NoStat, Inf
    <2>2. page' \in [up : BOOLEAN, ver : Nat, lock : Users \cup {Nobody}, excused : BOOLEAN]
        BY DEF DataInv, DataTypeOK, UserRec, fuse_commit_write, Unlocked, NoPage,
           SizeWritten, Size, Completed, MaxOf, ToIdle, Idle, NoStat, Inf
    <2>3. srv' \in [mt : Nat, size : 0..1, ver : Nat] /\ srv'.ver <= MaxVer /\ srv.ver <= srv'.ver
        BY DEF DataInv, DataTypeOK, UserRec, fuse_commit_write, Unlocked, NoPage,
           SizeWritten, Size, Completed, MaxOf, ToIdle, Idle, NoStat, Inf
    <2>4. isize' \in [size : 0..1, ver : Nat, late : BOOLEAN]
        BY DEF DataInv, DataTypeOK, UserRec, StatRec, fuse_commit_write, Unlocked, NoPage,
           SizeWritten, Size, Completed, MaxOf, ToIdle, Idle, NoStat, Inf
    <2>5. node' \in [valid : BOOLEAN, mt : Nat, size : 0..1, ver : Nat, fresh : BOOLEAN]
        BY DEF DataInv, DataTypeOK, UserRec, StatRec, fuse_commit_write, Unlocked, NoPage,
           SizeWritten, Size, Completed, MaxOf, ToIdle, Idle, NoStat, Inf
    <2>6. ga' \in [at : {"none", "stat", "reply"}, st : StatRec, late : BOOLEAN]
        BY DEF DataInv, DataTypeOK, UserRec, StatRec, fuse_commit_write, Unlocked, NoPage,
           SizeWritten, Size, Completed, MaxOf, ToIdle, Idle, NoStat, Inf
    <2>7. done' \in Nat /\ done' <= srv'.ver /\ lost' \in BOOLEAN /\ cmode' = cmode
        BY <2>3 DEF DataInv, DataTypeOK, PageLocked, MtimesTell, Stats, UserRec, StatRec,
           fuse_commit_write, Unlocked, NoPage, SizeWritten, Size, Completed, MaxOf, ToIdle,
           Idle, NoStat, Inf
    <2>. QED  BY <2>1, <2>2, <2>3, <2>4, <2>5, <2>6, <2>7 DEF DataInv, DataTypeOK
<1>2. PageLocked'
    BY <1>1 DEF DataInv, DataTypeOK, PageLocked, StatRec, UserRec, Writes, Mutexed,
       fuse_commit_write, Unlocked, NoPage, SizeWritten, Size, Completed, MaxOf, ToIdle,
       Idle, NoStat, Inf
<1>3. PageFollows
    BY <1>1, <1>2 DEF DataInv, DataTypeOK, PageLocked, StatRec, UserRec, Writes,
       PageFollows, Live, PageVer, fuse_commit_write, Unlocked, NoPage, SizeWritten, Size,
       Completed, MaxOf, ToIdle, Idle, NoStat, Inf
<1>4. MtimesTell'
    <2>1. Stats' \subseteq Stats \cup {Stat'}
        BY <1>1 DEF DataInv, DataTypeOK, StatRec, UserRec, Stats, Stat, fuse_commit_write,
           Unlocked, NoPage, SizeWritten, Size, Completed, MaxOf, ToIdle, Idle, NoStat, Inf
    <2>2. SrvFollows
        BY DEF DataInv, SrvFollows, DataTypeOK, Live, fuse_commit_write, Unlocked, NoPage,
           SizeWritten, Size, Completed, MaxOf, ToIdle, Idle, NoStat, Inf
    <2>. QED  BY <1>1, <1>3, <2>1, <2>2, MtimesKept DEF DataInv
<1>5. StagesRight'
    BY <1>1, <1>2 DEF DataInv, DataTypeOK, PageLocked, StatRec, UserRec, StagesRight,
       fuse_commit_write, Unlocked, NoPage, SizeWritten, Size, Completed, MaxOf, ToIdle,
       Idle, NoStat, Inf
<1>6. DoneKept'
    <2>1. Live' => PageVer' = user[t].got
        BY <1>1, <1>2 DEF DataInv, DataTypeOK, PageLocked, UserRec, Writes, Live, PageVer,
           fuse_commit_write, Unlocked, NoPage, SizeWritten, Size, Completed, MaxOf, ToIdle,
           Idle, NoStat, Inf
    <2>2. user[t].got >= done /\ done' = MaxOf(done, user[t].got)
        BY DEF DataInv, PageLocked, fuse_commit_write, Completed
    <2>3. user[t].got \in Nat /\ done \in Nat
        BY DEF DataInv, DataTypeOK, UserRec
    <2>. QED  BY <2>1, <2>2, <2>3 DEF DoneKept, MaxOf
<1>7. BasesKept'
    <2>1. \A u \in Users : Opened(u)' => Opened(u) /\ user'[u].base = user[u].base
        BY <1>1 DEF DataInv, DataTypeOK, UserRec, Opened, fuse_commit_write, Unlocked,
           NoPage, SizeWritten, Size, Completed, MaxOf, ToIdle, Idle, NoStat, Inf
    <2>2. cmode' = cmode
        BY DEF fuse_commit_write, Unlocked, NoPage, SizeWritten, Size, Completed, MaxOf,
           ToIdle, Idle, NoStat, Inf
    <2>. QED  BY <1>1, <1>2, <1>3, <2>1, <2>2, BasesFollow DEF DataInv
<1>8. NodeKept'
    <2>1. \A u \in Users : user'[u].at = "opened" =>
                user[u].at = "opened" /\ user'[u].base = user[u].base
        BY <1>1 DEF DataInv, DataTypeOK, UserRec, fuse_commit_write, Unlocked, NoPage,
           SizeWritten, Size, Completed, MaxOf, ToIdle, Idle, NoStat, Inf
    <2>2. cmode' = cmode /\ (node'.valid => node.valid /\ node'.ver = node.ver)
        BY DEF DataInv, DataTypeOK, fuse_commit_write, Unlocked, NoPage, SizeWritten, Size,
           Completed, MaxOf, ToIdle, Idle, NoStat, Inf
    <2>3. Live' /\ Owing => Owing'
        BY <1>1 DEF DataInv, DataTypeOK, UserRec, Owing, Live, fuse_commit_write, Unlocked,
           NoPage, SizeWritten, Size, Completed, MaxOf, ToIdle, Idle, NoStat, Inf
    <2>. QED  BY <1>1, <1>2, <1>3, <1>4, <2>1, <2>2, <2>3, NodeFollow DEF DataInv
<1>9. SizeTrusted'
    BY <1>1, <1>2 DEF DataInv, DataTypeOK, PageLocked, StatRec, UserRec, SizeTrusted,
       Mutexed, fuse_commit_write, Unlocked, NoPage, SizeWritten, Size, Completed, MaxOf,
       ToIdle, Idle, NoStat, Inf
<1>. QED  BY <1>1, <1>2, <1>4, <1>5, <1>6, <1>7, <1>8, <1>9 DEF DataInv

LEMMA WriteRefusedOK ==
    ASSUME DataInv, NEW t \in Users, WriteRefused(t)
    PROVE  DataInv'
<1>. USE DataAssumption
<1>1. DataTypeOK'
    <2>1. user' \in [Users -> UserRec]
        BY DEF DataInv, DataTypeOK, PageLocked, StatRec, UserRec, WriteRefused, Unlocked,
           NoPage, ToIdle, Idle, NoStat, Inf
    <2>2. page' \in [up : BOOLEAN, ver : Nat, lock : Users \cup {Nobody}, excused : BOOLEAN]
        BY DEF DataInv, DataTypeOK, UserRec, WriteRefused, Unlocked, NoPage, ToIdle, Idle,
           NoStat, Inf
    <2>3. srv' \in [mt : Nat, size : 0..1, ver : Nat] /\ srv'.ver <= MaxVer /\ srv.ver <= srv'.ver
        BY DEF DataInv, DataTypeOK, UserRec, WriteRefused, Unlocked, NoPage, ToIdle, Idle,
           NoStat, Inf
    <2>4. isize' \in [size : 0..1, ver : Nat, late : BOOLEAN]
        BY DEF DataInv, DataTypeOK, UserRec, StatRec, WriteRefused, Unlocked, NoPage,
           ToIdle, Idle, NoStat, Inf
    <2>5. node' \in [valid : BOOLEAN, mt : Nat, size : 0..1, ver : Nat, fresh : BOOLEAN]
        BY DEF DataInv, DataTypeOK, UserRec, StatRec, WriteRefused, Unlocked, NoPage,
           ToIdle, Idle, NoStat, Inf
    <2>6. ga' \in [at : {"none", "stat", "reply"}, st : StatRec, late : BOOLEAN]
        BY DEF DataInv, DataTypeOK, UserRec, StatRec, WriteRefused, Unlocked, NoPage,
           ToIdle, Idle, NoStat, Inf
    <2>7. done' \in Nat /\ done' <= srv'.ver /\ lost' \in BOOLEAN /\ cmode' = cmode
        BY <2>3 DEF DataInv, DataTypeOK, PageLocked, MtimesTell, Stats, UserRec, StatRec,
           WriteRefused, Unlocked, NoPage, ToIdle, Idle, NoStat, Inf
    <2>. QED  BY <2>1, <2>2, <2>3, <2>4, <2>5, <2>6, <2>7 DEF DataInv, DataTypeOK
<1>2. PageLocked'
    BY <1>1 DEF DataInv, DataTypeOK, PageLocked, StatRec, UserRec, Writes, Mutexed,
       WriteRefused, Unlocked, NoPage, ToIdle, Idle, NoStat, Inf
<1>3. PageFollows
    BY <1>1, <1>2 DEF DataInv, DataTypeOK, PageLocked, StatRec, UserRec, Writes,
       PageFollows, Live, PageVer, WriteRefused, Unlocked, NoPage, ToIdle, Idle, NoStat, Inf
<1>4. MtimesTell'
    <2>1. Stats' \subseteq Stats \cup {Stat'}
        BY <1>1 DEF DataInv, DataTypeOK, StatRec, UserRec, Stats, Stat, WriteRefused,
           Unlocked, NoPage, ToIdle, Idle, NoStat, Inf
    <2>2. SrvFollows
        BY DEF DataInv, SrvFollows, DataTypeOK, Live, WriteRefused, Unlocked, NoPage,
           ToIdle, Idle, NoStat, Inf
    <2>. QED  BY <1>1, <1>3, <2>1, <2>2, MtimesKept DEF DataInv
<1>5. StagesRight'
    BY <1>1, <1>2 DEF DataInv, DataTypeOK, PageLocked, StatRec, UserRec, StagesRight,
       WriteRefused, Unlocked, NoPage, ToIdle, Idle, NoStat, Inf
<1>6. DoneKept'
    <2>1. Live' /\ isize'.size = 1 => done' = done /\ isize.size = 1
        BY DEF DataInv, DataTypeOK, PageLocked, Live, WriteRefused, Unlocked, NoPage,
           ToIdle, Idle, NoStat, Inf
    <2>. QED  BY <1>1, <1>3, <2>1, DoneFollow DEF DataInv
<1>7. BasesKept'
    <2>1. \A u \in Users : Opened(u)' => Opened(u) /\ user'[u].base = user[u].base
        BY <1>1 DEF DataInv, DataTypeOK, UserRec, Opened, WriteRefused, Unlocked, NoPage,
           ToIdle, Idle, NoStat, Inf
    <2>2. cmode' = cmode
        BY DEF WriteRefused, Unlocked, NoPage, ToIdle, Idle, NoStat, Inf
    <2>. QED  BY <1>1, <1>2, <1>3, <2>1, <2>2, BasesFollow DEF DataInv
<1>8. NodeKept'
    <2>1. \A u \in Users : user'[u].at = "opened" =>
                user[u].at = "opened" /\ user'[u].base = user[u].base
        BY <1>1 DEF DataInv, DataTypeOK, UserRec, WriteRefused, Unlocked, NoPage, ToIdle,
           Idle, NoStat, Inf
    <2>2. cmode' = cmode /\ (node'.valid => node.valid /\ node'.ver = node.ver)
        BY DEF DataInv, DataTypeOK, WriteRefused, Unlocked, NoPage, ToIdle, Idle, NoStat, Inf
    <2>3. Live' /\ Owing => Owing'
        BY <1>1 DEF DataInv, DataTypeOK, UserRec, Owing, Live, WriteRefused, Unlocked,
           NoPage, ToIdle, Idle, NoStat, Inf
    <2>. QED  BY <1>1, <1>2, <1>3, <1>4, <2>1, <2>2, <2>3, NodeFollow DEF DataInv
<1>9. SizeTrusted'
    BY <1>1, <1>2 DEF DataInv, DataTypeOK, PageLocked, StatRec, UserRec, SizeTrusted,
       Mutexed, WriteRefused, Unlocked, NoPage, ToIdle, Idle, NoStat, Inf
<1>. QED  BY <1>1, <1>2, <1>4, <1>5, <1>6, <1>7, <1>8, <1>9 DEF DataInv

LEMMA SetattrOK ==
    ASSUME DataInv, NEW t \in Users, fuse_lib_setattr(t)
    PROVE  DataInv'
<1>. USE DataAssumption
<1>1. DataTypeOK'
    <2>1. user' \in [Users -> UserRec]
        <3>. DEFINE at == IF cmode = "auto_cache" THEN "setstat" ELSE "setback"
                    st == [mt |-> srv'.mt, size |-> 0, ver |-> srv'.ver]
                    r == [user[t] EXCEPT !.at = at, !.st = st]
        <3>1. /\ user[t] \in UserRec /\ user \in [Users -> UserRec]
              /\ srv'.mt \in Nat /\ srv'.ver \in Nat
            BY DEF DataInv, DataTypeOK, Changed, fuse_lib_setattr
        <3>2. st \in StatRec /\ at \in {"setstat", "setback"}
            BY <3>1 DEF StatRec
        <3>3. user' = [user EXCEPT ![t] = r]
            BY DEF fuse_lib_setattr
        <3>. HIDE DEF at, st
        <3>4. r \in UserRec
            BY <3>1, <3>2 DEF UserRec
        <3>. HIDE DEF r
        <3>. QED  BY <3>1, <3>3, <3>4
    <2>2. page' \in [up : BOOLEAN, ver : Nat, lock : Users \cup {Nobody}, excused : BOOLEAN]
        BY DEF DataInv, DataTypeOK, UserRec, fuse_lib_setattr, Call, MutexFree, HasMutex,
           Changed
    <2>3. srv' \in [mt : Nat, size : 0..1, ver : Nat] /\ srv'.ver <= MaxVer /\ srv.ver <= srv'.ver
        BY DEF DataInv, DataTypeOK, UserRec, fuse_lib_setattr, Call, MutexFree, HasMutex,
           Changed
    <2>4. isize' \in [size : 0..1, ver : Nat, late : BOOLEAN]
        BY DEF DataInv, DataTypeOK, UserRec, StatRec, fuse_lib_setattr, Call, MutexFree,
           HasMutex, Changed
    <2>5. node' \in [valid : BOOLEAN, mt : Nat, size : 0..1, ver : Nat, fresh : BOOLEAN]
        BY DEF DataInv, DataTypeOK, UserRec, StatRec, fuse_lib_setattr, Call, MutexFree,
           HasMutex, Changed
    <2>6. ga' \in [at : {"none", "stat", "reply"}, st : StatRec, late : BOOLEAN]
        BY DEF DataInv, DataTypeOK, UserRec, StatRec, fuse_lib_setattr, Call, MutexFree,
           HasMutex, Changed
    <2>7. done' \in Nat /\ done' <= srv'.ver /\ lost' \in BOOLEAN /\ cmode' = cmode
        BY <2>3 DEF DataInv, DataTypeOK, PageLocked, MtimesTell, Stats, UserRec, StatRec,
           fuse_lib_setattr, Call, MutexFree, HasMutex, Changed
    <2>. QED  BY <2>1, <2>2, <2>3, <2>4, <2>5, <2>6, <2>7 DEF DataInv, DataTypeOK
<1>2. PageLocked'
    BY <1>1 DEF DataInv, DataTypeOK, PageLocked, StatRec, UserRec, Writes, Mutexed,
       fuse_lib_setattr, Call, MutexFree, HasMutex, Changed
<1>3. PageFollows
    BY <1>1, <1>2 DEF DataInv, DataTypeOK, PageLocked, StatRec, UserRec, Writes,
       PageFollows, Live, PageVer, fuse_lib_setattr, Call, MutexFree, HasMutex, Changed
<1>4. MtimesTell'
    <2>1. Stats' \subseteq Stats \cup {Stat'}
        BY <1>1 DEF DataInv, DataTypeOK, StatRec, UserRec, Stats, Stat, fuse_lib_setattr,
           Call, MutexFree, HasMutex, Changed
    <2>2. SrvFollows
        BY DEF DataInv, SrvFollows, DataTypeOK, Live, fuse_lib_setattr, Call, MutexFree,
           HasMutex, Changed
    <2>. QED  BY <1>1, <1>3, <2>1, <2>2, MtimesKept DEF DataInv
<1>5. StagesRight'
    BY <1>1, <1>2 DEF DataInv, DataTypeOK, PageLocked, StatRec, UserRec, StagesRight,
       fuse_lib_setattr, Call, MutexFree, HasMutex, Changed
<1>6. DoneKept'
    <2>1. Live' /\ isize'.size = 1 => done' = done /\ isize.size = 1
        BY DEF DataInv, DataTypeOK, PageLocked, Live, fuse_lib_setattr, Call, MutexFree,
           HasMutex, Changed
    <2>. QED  BY <1>1, <1>3, <2>1, DoneFollow DEF DataInv
<1>7. BasesKept'
    <2>1. \A u \in Users : Opened(u)' => Opened(u) /\ user'[u].base = user[u].base
        BY <1>1 DEF DataInv, DataTypeOK, UserRec, Opened, fuse_lib_setattr, Call, MutexFree,
           HasMutex, Changed
    <2>2. cmode' = cmode
        BY DEF fuse_lib_setattr, Call, MutexFree, HasMutex, Changed
    <2>. QED  BY <1>1, <1>2, <1>3, <2>1, <2>2, BasesFollow DEF DataInv
<1>8. NodeKept'
    <2>1. \A u \in Users : user'[u].at = "opened" =>
                user[u].at = "opened" /\ user'[u].base = user[u].base
        BY <1>1 DEF DataInv, DataTypeOK, UserRec, fuse_lib_setattr, Call, MutexFree,
           HasMutex, Changed
    <2>2. cmode' = cmode /\ (node'.valid => node.valid /\ node'.ver = node.ver)
        BY DEF DataInv, DataTypeOK, fuse_lib_setattr, Call, MutexFree, HasMutex, Changed
    <2>3. Live' /\ Owing => Owing'
        BY <1>1 DEF DataInv, DataTypeOK, UserRec, Owing, Live, fuse_lib_setattr, Call,
           MutexFree, HasMutex, Changed
    <2>. QED  BY <1>1, <1>2, <1>3, <1>4, <2>1, <2>2, <2>3, NodeFollow DEF DataInv
<1>9. SizeTrusted'
    BY <1>1, <1>2 DEF DataInv, DataTypeOK, PageLocked, StatRec, UserRec, SizeTrusted,
       Mutexed, fuse_lib_setattr, Call, MutexFree, HasMutex, Changed
<1>. QED  BY <1>1, <1>2, <1>4, <1>5, <1>6, <1>7, <1>8, <1>9 DEF DataInv

LEMMA SetattrNodeOK ==
    ASSUME DataInv, NEW t \in Users, SetattrNode(t)
    PROVE  DataInv'
<1>. USE DataAssumption
<1>1. DataTypeOK'
    <2>1. user' \in [Users -> UserRec]
        BY SMTT(30) DEF DataInv, DataTypeOK, PageLocked, StatRec, UserRec, SetattrNode,
           update_stat, To
    <2>2. page' \in [up : BOOLEAN, ver : Nat, lock : Users \cup {Nobody}, excused : BOOLEAN]
        BY DEF DataInv, DataTypeOK, UserRec, SetattrNode, update_stat, To
    <2>3. srv' \in [mt : Nat, size : 0..1, ver : Nat] /\ srv'.ver <= MaxVer /\ srv.ver <= srv'.ver
        BY DEF DataInv, DataTypeOK, UserRec, SetattrNode, update_stat, To
    <2>4. isize' \in [size : 0..1, ver : Nat, late : BOOLEAN]
        BY DEF DataInv, DataTypeOK, UserRec, StatRec, SetattrNode, update_stat, To
    <2>5. node' \in [valid : BOOLEAN, mt : Nat, size : 0..1, ver : Nat, fresh : BOOLEAN]
        BY DEF DataInv, DataTypeOK, UserRec, StatRec, SetattrNode, update_stat, To
    <2>6. ga' \in [at : {"none", "stat", "reply"}, st : StatRec, late : BOOLEAN]
        BY DEF DataInv, DataTypeOK, UserRec, StatRec, SetattrNode, update_stat, To
    <2>7. done' \in Nat /\ done' <= srv'.ver /\ lost' \in BOOLEAN /\ cmode' = cmode
        BY <2>3 DEF DataInv, DataTypeOK, PageLocked, MtimesTell, Stats, UserRec, StatRec,
           SetattrNode, update_stat, To
    <2>. QED  BY <2>1, <2>2, <2>3, <2>4, <2>5, <2>6, <2>7 DEF DataInv, DataTypeOK
<1>2. PageLocked'
    BY <1>1 DEF DataInv, DataTypeOK, PageLocked, StatRec, UserRec, Writes, Mutexed,
       SetattrNode, update_stat, To
<1>3. PageFollows
    BY <1>1, <1>2 DEF DataInv, DataTypeOK, PageLocked, StatRec, UserRec, Writes,
       PageFollows, Live, PageVer, SetattrNode, update_stat, To
<1>4. MtimesTell'
    <2>1. Stats' \subseteq Stats \cup {Stat'}
        BY <1>1 DEF DataInv, DataTypeOK, StatRec, UserRec, Stats, Stat, SetattrNode,
           update_stat, To
    <2>2. SrvFollows
        BY DEF DataInv, SrvFollows, DataTypeOK, Live, SetattrNode, update_stat, To
    <2>. QED  BY <1>1, <1>3, <2>1, <2>2, MtimesKept DEF DataInv
<1>5. StagesRight'
    BY <1>1, <1>2 DEF DataInv, DataTypeOK, PageLocked, StatRec, UserRec, StagesRight,
       SetattrNode, update_stat, To
<1>6. DoneKept'
    <2>1. Live' /\ isize'.size = 1 => done' = done /\ isize.size = 1
        BY DEF DataInv, DataTypeOK, PageLocked, Live, SetattrNode, update_stat, To
    <2>. QED  BY <1>1, <1>3, <2>1, DoneFollow DEF DataInv
<1>7. BasesKept'
    <2>1. \A u \in Users : Opened(u)' => Opened(u) /\ user'[u].base = user[u].base
        BY <1>1 DEF DataInv, DataTypeOK, UserRec, Opened, SetattrNode, update_stat, To
    <2>2. cmode' = cmode
        BY DEF SetattrNode, update_stat, To
    <2>. QED  BY <1>1, <1>2, <1>3, <2>1, <2>2, BasesFollow DEF DataInv
<1>8. NodeKept'
    <2>. DEFINE st == user[t].st
    <2>1. st \in Stats /\ st \in StatRec
        BY DEF DataInv, DataTypeOK, UserRec, Stats
    <2>2. /\ Live' = Live /\ PageVer' = PageVer /\ Owing' = Owing /\ cmode' = cmode
          /\ \A u \in Users : user'[u].at = "opened" =>
                user[u].at = "opened" /\ user'[u].base = user[u].base
        BY DEF DataInv, DataTypeOK, PageLocked, UserRec, Writes, Live, PageVer, Owing,
           SetattrNode, To
    <2>3. node' = update_stat(node, st) /\ node'.ver = st.ver
        BY DEF SetattrNode, update_stat
    <2>. HIDE DEF st
    <2>. QED  BY <2>1, <2>2, <2>3, UpdatedNode DEF DataInv, NodeKept
<1>9. SizeTrusted'
    BY <1>1, <1>2 DEF DataInv, DataTypeOK, PageLocked, StatRec, UserRec, SizeTrusted,
       Mutexed, SetattrNode, update_stat, To
<1>. QED  BY <1>1, <1>2, <1>4, <1>5, <1>6, <1>7, <1>8, <1>9 DEF DataInv

LEMMA ShrinkOK ==
    ASSUME DataInv, NEW t \in Users, fuse_vmtruncate(t),
           isize.size > user[t].st.size
    PROVE  DataInv'
<1>. USE DataAssumption
<1>1. DataTypeOK'
    <2>1. user' \in [Users -> UserRec]
        BY SMTT(30) DEF DataInv, DataTypeOK, PageLocked, StatRec, UserRec, fuse_vmtruncate,
           Size, To
    <2>2. page' \in [up : BOOLEAN, ver : Nat, lock : Users \cup {Nobody}, excused : BOOLEAN]
        BY DEF DataInv, DataTypeOK, UserRec, fuse_vmtruncate, Size, To
    <2>3. srv' \in [mt : Nat, size : 0..1, ver : Nat] /\ srv'.ver <= MaxVer /\ srv.ver <= srv'.ver
        BY DEF DataInv, DataTypeOK, UserRec, fuse_vmtruncate, Size, To
    <2>4. isize' \in [size : 0..1, ver : Nat, late : BOOLEAN]
        BY DEF DataInv, DataTypeOK, UserRec, StatRec, fuse_vmtruncate, Size, To
    <2>5. node' \in [valid : BOOLEAN, mt : Nat, size : 0..1, ver : Nat, fresh : BOOLEAN]
        BY DEF DataInv, DataTypeOK, UserRec, StatRec, fuse_vmtruncate, Size, To
    <2>6. ga' \in [at : {"none", "stat", "reply"}, st : StatRec, late : BOOLEAN]
        BY DEF DataInv, DataTypeOK, UserRec, StatRec, fuse_vmtruncate, Size, To
    <2>7. done' \in Nat /\ done' <= srv'.ver /\ lost' \in BOOLEAN /\ cmode' = cmode
        BY <2>3 DEF DataInv, DataTypeOK, PageLocked, MtimesTell, Stats, UserRec, StatRec,
           fuse_vmtruncate, Size, To
    <2>. QED  BY <2>1, <2>2, <2>3, <2>4, <2>5, <2>6, <2>7 DEF DataInv, DataTypeOK
<1>2. PageLocked'
    BY <1>1, SMTT(30) DEF DataInv, DataTypeOK, PageLocked, StatRec, UserRec, Writes, Mutexed,
       fuse_vmtruncate, Size, To
<1>3. PageFollows
    BY <1>1, <1>2 DEF DataInv, DataTypeOK, PageLocked, StatRec, UserRec, Writes,
       PageFollows, Live, PageVer, fuse_vmtruncate, Size, To
<1>4. MtimesTell'
    <2>1. Stats' \subseteq Stats \cup {Stat'}
        BY <1>1 DEF DataInv, DataTypeOK, StatRec, UserRec, Stats, Stat, fuse_vmtruncate,
           Size, To
    <2>2. SrvFollows
        BY DEF DataInv, SrvFollows, DataTypeOK, Live, fuse_vmtruncate, Size, To
    <2>. QED  BY <1>1, <1>3, <2>1, <2>2, MtimesKept DEF DataInv
<1>5. StagesRight'
    BY <1>1, <1>2 DEF DataInv, DataTypeOK, PageLocked, StatRec, UserRec, StagesRight,
       fuse_vmtruncate, Size, To
<1>6. DoneKept'
    <2>1. Live' /\ isize'.size = 1 => done' = done /\ isize.size = 1
        BY DEF DataInv, DataTypeOK, PageLocked, Live, fuse_vmtruncate, Size, To
    <2>. QED  BY <1>1, <1>3, <2>1, DoneFollow DEF DataInv
<1>7. BasesKept'
    <2>1. \A u \in Users : Opened(u)' => Opened(u) /\ user'[u].base = user[u].base
        BY <1>1 DEF DataInv, DataTypeOK, UserRec, Opened, fuse_vmtruncate, Size, To
    <2>2. cmode' = cmode
        BY DEF fuse_vmtruncate, Size, To
    <2>. QED  BY <1>1, <1>2, <1>3, <2>1, <2>2, BasesFollow DEF DataInv
<1>8. NodeKept'
    <2>1. \A u \in Users : user'[u].at = "opened" =>
                user[u].at = "opened" /\ user'[u].base = user[u].base
        BY <1>1 DEF DataInv, DataTypeOK, UserRec, fuse_vmtruncate, Size, To
    <2>2. cmode' = cmode /\ (node'.valid => node.valid /\ node'.ver = node.ver)
        BY DEF DataInv, DataTypeOK, fuse_vmtruncate, Size, To
    <2>3. Live' /\ Owing => Owing'
        BY <1>1 DEF DataInv, DataTypeOK, UserRec, Owing, Live, fuse_vmtruncate, Size, To
    <2>. QED  BY <1>1, <1>2, <1>3, <1>4, <2>1, <2>2, <2>3, NodeFollow DEF DataInv
<1>9. SizeTrusted'
    BY <1>1, <1>2 DEF DataInv, DataTypeOK, PageLocked, StatRec, UserRec, SizeTrusted,
       Mutexed, fuse_vmtruncate, Size, To
<1>. QED  BY <1>1, <1>2, <1>4, <1>5, <1>6, <1>7, <1>8, <1>9 DEF DataInv

LEMMA EmptyOK ==
    ASSUME DataInv, NEW t \in Users, fuse_vmtruncate(t),
           ~ (isize.size > user[t].st.size)
    PROVE  DataInv'
<1>. USE DataAssumption
<1>1. DataTypeOK'
    <2>1. user' \in [Users -> UserRec]
        <3>. DEFINE r == Idle("idle", user[t].base)
        <3>1. user[t] \in UserRec /\ user \in [Users -> UserRec]
            BY DEF DataInv, DataTypeOK
        <3>2. r \in UserRec
            BY <3>1 DEF UserRec, StatRec, Idle, NoStat
        <3>3. user' = [user EXCEPT ![t] = r]
            BY DEF fuse_vmtruncate, ToIdle
        <3>. HIDE DEF r
        <3>. QED  BY <3>1, <3>2, <3>3
    <2>2. page' \in [up : BOOLEAN, ver : Nat, lock : Users \cup {Nobody}, excused : BOOLEAN]
        BY DEF DataInv, DataTypeOK, UserRec, fuse_vmtruncate, Size, ToIdle, Idle, NoStat,
           Completed, MaxOf
    <2>3. srv' \in [mt : Nat, size : 0..1, ver : Nat] /\ srv'.ver <= MaxVer /\ srv.ver <= srv'.ver
        BY DEF DataInv, DataTypeOK, UserRec, fuse_vmtruncate, Size, ToIdle, Idle, NoStat,
           Completed, MaxOf
    <2>4. isize' \in [size : 0..1, ver : Nat, late : BOOLEAN]
        BY DEF DataInv, DataTypeOK, UserRec, StatRec, fuse_vmtruncate, Size, ToIdle, Idle,
           NoStat, Completed, MaxOf
    <2>5. node' \in [valid : BOOLEAN, mt : Nat, size : 0..1, ver : Nat, fresh : BOOLEAN]
        BY DEF DataInv, DataTypeOK, UserRec, StatRec, fuse_vmtruncate, Size, ToIdle, Idle,
           NoStat, Completed, MaxOf
    <2>6. ga' \in [at : {"none", "stat", "reply"}, st : StatRec, late : BOOLEAN]
        BY DEF DataInv, DataTypeOK, UserRec, StatRec, fuse_vmtruncate, Size, ToIdle, Idle,
           NoStat, Completed, MaxOf
    <2>7. done' \in Nat /\ done' <= srv'.ver /\ lost' \in BOOLEAN /\ cmode' = cmode
        BY <2>3 DEF DataInv, DataTypeOK, PageLocked, MtimesTell, Stats, UserRec, StatRec,
           fuse_vmtruncate, Size, ToIdle, Idle, NoStat, Completed, MaxOf
    <2>. QED  BY <2>1, <2>2, <2>3, <2>4, <2>5, <2>6, <2>7 DEF DataInv, DataTypeOK
<1>2. PageLocked'
    <2>. DEFINE r == Idle("idle", user[t].base)
    <2>1. /\ user' = [user EXCEPT ![t] = r] /\ page' = page /\ srv' = srv
          /\ done' \in {done, user[t].st.ver} /\ user[t].at = "setback"
        BY DEF fuse_vmtruncate, ToIdle, Completed, MaxOf
    <2>2. r.at = "idle" /\ r.got = 0 /\ r.base = user[t].base
        BY DEF Idle
    <2>3. user \in [Users -> UserRec] /\ srv.ver \in Nat /\ PageLocked
        BY DEF DataInv, DataTypeOK
    <2>. HIDE DEF r
    <2>4. /\ user'[t] = r /\ \A u \in Users \ {t} : user'[u] = user[u]
          /\ user[t].at \in Mutexed
        BY <2>1, <2>3 DEF Mutexed
    <2>5. \A u \in Users \ {t} : user[u].at # "written"
        BY <2>3, <2>4 DEF PageLocked, Mutexed, Writes
    <2>6. \A u \in Users \ {t} : user[u].at \notin {"setstat", "setback", "truncate"}
        BY <2>3, <2>4 DEF PageLocked, Mutexed
    <2>. QED  BY <2>1, <2>2, <2>3, <2>4, <2>5, <2>6 DEF PageLocked, Writes, Mutexed
<1>3. PageFollows
    BY <1>1, <1>2 DEF DataInv, DataTypeOK, PageLocked, StatRec, UserRec, Writes,
       PageFollows, Live, PageVer, fuse_vmtruncate, Size, ToIdle, Idle, NoStat, Completed,
       MaxOf
<1>4. MtimesTell'
    <2>1. Stats' \subseteq Stats \cup {Stat'}
        BY <1>1 DEF DataInv, DataTypeOK, StatRec, UserRec, Stats, Stat, fuse_vmtruncate,
           Size, ToIdle, Idle, NoStat, Completed, MaxOf
    <2>2. SrvFollows
        BY DEF DataInv, SrvFollows, DataTypeOK, Live, fuse_vmtruncate, Size, ToIdle, Idle,
           NoStat, Completed, MaxOf
    <2>. QED  BY <1>1, <1>3, <2>1, <2>2, MtimesKept DEF DataInv
<1>5. StagesRight'
    BY <1>1, <1>2 DEF DataInv, DataTypeOK, PageLocked, StatRec, UserRec, StagesRight,
       fuse_vmtruncate, Size, ToIdle, Idle, NoStat, Completed, MaxOf
<1>6. DoneKept'
    <2>1. Live' /\ isize'.size = 1 => done' = done /\ isize.size = 1
        BY DEF DataInv, DataTypeOK, PageLocked, Live, fuse_vmtruncate, Size, ToIdle, Idle,
           NoStat, Completed, MaxOf
    <2>. QED  BY <1>1, <1>3, <2>1, DoneFollow DEF DataInv
<1>7. BasesKept'
    <2>1. \A u \in Users : Opened(u)' => Opened(u) /\ user'[u].base = user[u].base
        BY <1>1 DEF DataInv, DataTypeOK, UserRec, Opened, fuse_vmtruncate, Size, ToIdle,
           Idle, NoStat, Completed, MaxOf
    <2>2. cmode' = cmode
        BY DEF fuse_vmtruncate, Size, ToIdle, Idle, NoStat, Completed, MaxOf
    <2>. QED  BY <1>1, <1>2, <1>3, <2>1, <2>2, BasesFollow DEF DataInv
<1>8. NodeKept'
    <2>1. \A u \in Users : user'[u].at = "opened" =>
                user[u].at = "opened" /\ user'[u].base = user[u].base
        BY <1>1 DEF DataInv, DataTypeOK, UserRec, fuse_vmtruncate, Size, ToIdle, Idle,
           NoStat, Completed, MaxOf
    <2>2. cmode' = cmode /\ (node'.valid => node.valid /\ node'.ver = node.ver)
        BY DEF DataInv, DataTypeOK, fuse_vmtruncate, Size, ToIdle, Idle, NoStat, Completed,
           MaxOf
    <2>3. Live' /\ Owing => Owing'
        BY <1>1 DEF DataInv, DataTypeOK, UserRec, Owing, Live, fuse_vmtruncate, Size,
           ToIdle, Idle, NoStat, Completed, MaxOf
    <2>. QED  BY <1>1, <1>2, <1>3, <1>4, <2>1, <2>2, <2>3, NodeFollow DEF DataInv
<1>9. SizeTrusted'
    BY <1>1, <1>2 DEF DataInv, DataTypeOK, PageLocked, StatRec, UserRec, SizeTrusted,
       Mutexed, fuse_vmtruncate, Size, ToIdle, Idle, NoStat, Completed, MaxOf
<1>. QED  BY <1>1, <1>2, <1>4, <1>5, <1>6, <1>7, <1>8, <1>9 DEF DataInv

LEMMA TruncatePagesOK ==
    ASSUME DataInv, NEW t \in Users, truncate_inode_pages(t)
    PROVE  DataInv'
<1>. USE DataAssumption
<1>1. DataTypeOK'
    <2>1. user' \in [Users -> UserRec]
        BY DEF DataInv, DataTypeOK, PageLocked, StatRec, UserRec, truncate_inode_pages,
           NoPage, Size, ToIdle, Idle, NoStat, Completed, MaxOf
    <2>2. page' \in [up : BOOLEAN, ver : Nat, lock : Users \cup {Nobody}, excused : BOOLEAN]
        BY DEF DataInv, DataTypeOK, UserRec, truncate_inode_pages, NoPage, Size, ToIdle,
           Idle, NoStat, Completed, MaxOf
    <2>3. srv' \in [mt : Nat, size : 0..1, ver : Nat] /\ srv'.ver <= MaxVer /\ srv.ver <= srv'.ver
        BY DEF DataInv, DataTypeOK, UserRec, truncate_inode_pages, NoPage, Size, ToIdle,
           Idle, NoStat, Completed, MaxOf
    <2>4. isize' \in [size : 0..1, ver : Nat, late : BOOLEAN]
        BY DEF DataInv, DataTypeOK, UserRec, StatRec, truncate_inode_pages, NoPage, Size,
           ToIdle, Idle, NoStat, Completed, MaxOf
    <2>5. node' \in [valid : BOOLEAN, mt : Nat, size : 0..1, ver : Nat, fresh : BOOLEAN]
        BY DEF DataInv, DataTypeOK, UserRec, StatRec, truncate_inode_pages, NoPage, Size,
           ToIdle, Idle, NoStat, Completed, MaxOf
    <2>6. ga' \in [at : {"none", "stat", "reply"}, st : StatRec, late : BOOLEAN]
        BY DEF DataInv, DataTypeOK, UserRec, StatRec, truncate_inode_pages, NoPage, Size,
           ToIdle, Idle, NoStat, Completed, MaxOf
    <2>7. done' \in Nat /\ done' <= srv'.ver /\ lost' \in BOOLEAN /\ cmode' = cmode
        BY <2>3 DEF DataInv, DataTypeOK, PageLocked, MtimesTell, Stats, UserRec, StatRec,
           truncate_inode_pages, NoPage, Size, ToIdle, Idle, NoStat, Completed, MaxOf
    <2>. QED  BY <2>1, <2>2, <2>3, <2>4, <2>5, <2>6, <2>7 DEF DataInv, DataTypeOK
<1>2. PageLocked'
    BY <1>1 DEF DataInv, DataTypeOK, PageLocked, StatRec, UserRec, Writes, Mutexed,
       truncate_inode_pages, NoPage, Size, ToIdle, Idle, NoStat, Completed, MaxOf
<1>3. PageFollows
    BY <1>1, <1>2 DEF DataInv, DataTypeOK, PageLocked, StatRec, UserRec, Writes,
       PageFollows, Live, PageVer, truncate_inode_pages, NoPage, Size, ToIdle, Idle, NoStat,
       Completed, MaxOf
<1>4. MtimesTell'
    <2>1. Stats' \subseteq Stats \cup {Stat'}
        BY <1>1 DEF DataInv, DataTypeOK, StatRec, UserRec, Stats, Stat,
           truncate_inode_pages, NoPage, Size, ToIdle, Idle, NoStat, Completed, MaxOf
    <2>2. SrvFollows
        BY DEF DataInv, SrvFollows, DataTypeOK, Live, truncate_inode_pages, NoPage, Size,
           ToIdle, Idle, NoStat, Completed, MaxOf
    <2>. QED  BY <1>1, <1>3, <2>1, <2>2, MtimesKept DEF DataInv
<1>5. StagesRight'
    BY <1>1, <1>2 DEF DataInv, DataTypeOK, PageLocked, StatRec, UserRec, StagesRight,
       truncate_inode_pages, NoPage, Size, ToIdle, Idle, NoStat, Completed, MaxOf
<1>6. DoneKept'
    <2>1. Live' /\ isize'.size = 1 => done' = done /\ isize.size = 1
        BY DEF DataInv, DataTypeOK, PageLocked, Live, truncate_inode_pages, NoPage, Size,
           ToIdle, Idle, NoStat, Completed, MaxOf
    <2>. QED  BY <1>1, <1>3, <2>1, DoneFollow DEF DataInv
<1>7. BasesKept'
    <2>1. \A u \in Users : Opened(u)' => Opened(u) /\ user'[u].base = user[u].base
        BY <1>1 DEF DataInv, DataTypeOK, UserRec, Opened, truncate_inode_pages, NoPage,
           Size, ToIdle, Idle, NoStat, Completed, MaxOf
    <2>2. cmode' = cmode
        BY DEF truncate_inode_pages, NoPage, Size, ToIdle, Idle, NoStat, Completed, MaxOf
    <2>. QED  BY <1>1, <1>2, <1>3, <2>1, <2>2, BasesFollow DEF DataInv
<1>8. NodeKept'
    <2>1. \A u \in Users : user'[u].at = "opened" =>
                user[u].at = "opened" /\ user'[u].base = user[u].base
        BY <1>1 DEF DataInv, DataTypeOK, UserRec, truncate_inode_pages, NoPage, Size,
           ToIdle, Idle, NoStat, Completed, MaxOf
    <2>2. cmode' = cmode /\ (node'.valid => node.valid /\ node'.ver = node.ver)
        BY DEF DataInv, DataTypeOK, truncate_inode_pages, NoPage, Size, ToIdle, Idle,
           NoStat, Completed, MaxOf
    <2>3. Live' /\ Owing => Owing'
        BY <1>1 DEF DataInv, DataTypeOK, UserRec, Owing, Live, truncate_inode_pages, NoPage,
           Size, ToIdle, Idle, NoStat, Completed, MaxOf
    <2>. QED  BY <1>1, <1>2, <1>3, <1>4, <2>1, <2>2, <2>3, NodeFollow DEF DataInv
<1>9. SizeTrusted'
    BY <1>1, <1>2 DEF DataInv, DataTypeOK, PageLocked, StatRec, UserRec, SizeTrusted,
       Mutexed, truncate_inode_pages, NoPage, Size, ToIdle, Idle, NoStat, Completed, MaxOf
<1>. QED  BY <1>1, <1>2, <1>4, <1>5, <1>6, <1>7, <1>8, <1>9 DEF DataInv

LEMMA LibGetattrOK ==
    ASSUME DataInv, fuse_lib_getattr
    PROVE  DataInv'
<1>. USE DataAssumption
<1>1. DataTypeOK'
    <2>1. user' \in [Users -> UserRec]
        BY DEF DataInv, DataTypeOK, PageLocked, StatRec, UserRec, fuse_lib_getattr, Call, Stat
    <2>2. page' \in [up : BOOLEAN, ver : Nat, lock : Users \cup {Nobody}, excused : BOOLEAN]
        BY DEF DataInv, DataTypeOK, UserRec, fuse_lib_getattr, Call, Stat
    <2>3. srv' \in [mt : Nat, size : 0..1, ver : Nat] /\ srv'.ver <= MaxVer /\ srv.ver <= srv'.ver
        BY DEF DataInv, DataTypeOK, UserRec, fuse_lib_getattr, Call, Stat
    <2>4. isize' \in [size : 0..1, ver : Nat, late : BOOLEAN]
        BY DEF DataInv, DataTypeOK, UserRec, StatRec, fuse_lib_getattr, Call, Stat
    <2>5. node' \in [valid : BOOLEAN, mt : Nat, size : 0..1, ver : Nat, fresh : BOOLEAN]
        BY DEF DataInv, DataTypeOK, UserRec, StatRec, fuse_lib_getattr, Call, Stat
    <2>6. ga' \in [at : {"none", "stat", "reply"}, st : StatRec, late : BOOLEAN]
        BY DEF DataInv, DataTypeOK, UserRec, StatRec, fuse_lib_getattr, Call, Stat
    <2>7. done' \in Nat /\ done' <= srv'.ver /\ lost' \in BOOLEAN /\ cmode' = cmode
        BY <2>3 DEF DataInv, DataTypeOK, PageLocked, MtimesTell, Stats, UserRec, StatRec,
           fuse_lib_getattr, Call, Stat
    <2>. QED  BY <2>1, <2>2, <2>3, <2>4, <2>5, <2>6, <2>7 DEF DataInv, DataTypeOK
<1>2. PageLocked'
    BY <1>1 DEF DataInv, DataTypeOK, PageLocked, StatRec, UserRec, Writes, Mutexed,
       fuse_lib_getattr, Call, Stat
<1>3. PageFollows
    BY <1>1, <1>2 DEF DataInv, DataTypeOK, PageLocked, StatRec, UserRec, Writes,
       PageFollows, Live, PageVer, fuse_lib_getattr, Call, Stat
<1>4. MtimesTell'
    <2>1. Stats' \subseteq Stats \cup {Stat'}
        BY <1>1 DEF DataInv, DataTypeOK, StatRec, UserRec, Stats, Stat, fuse_lib_getattr,
           Call, Stat
    <2>2. SrvFollows
        BY DEF DataInv, SrvFollows, DataTypeOK, Live, fuse_lib_getattr, Call, Stat
    <2>. QED  BY <1>1, <1>3, <2>1, <2>2, MtimesKept DEF DataInv
<1>5. StagesRight'
    BY <1>1, <1>2 DEF DataInv, DataTypeOK, PageLocked, StatRec, UserRec, StagesRight,
       fuse_lib_getattr, Call, Stat
<1>6. DoneKept'
    <2>1. Live' /\ isize'.size = 1 => done' = done /\ isize.size = 1
        BY DEF DataInv, DataTypeOK, PageLocked, Live, fuse_lib_getattr, Call, Stat
    <2>. QED  BY <1>1, <1>3, <2>1, DoneFollow DEF DataInv
<1>7. BasesKept'
    <2>1. \A u \in Users : Opened(u)' => Opened(u) /\ user'[u].base = user[u].base
        BY <1>1 DEF DataInv, DataTypeOK, UserRec, Opened, fuse_lib_getattr, Call, Stat
    <2>2. cmode' = cmode
        BY DEF fuse_lib_getattr, Call, Stat
    <2>. QED  BY <1>1, <1>2, <1>3, <2>1, <2>2, BasesFollow DEF DataInv
<1>8. NodeKept'
    <2>1. \A u \in Users : user'[u].at = "opened" =>
                user[u].at = "opened" /\ user'[u].base = user[u].base
        BY <1>1 DEF DataInv, DataTypeOK, UserRec, fuse_lib_getattr, Call, Stat
    <2>2. cmode' = cmode /\ (node'.valid => node.valid /\ node'.ver = node.ver)
        BY DEF DataInv, DataTypeOK, fuse_lib_getattr, Call, Stat
    <2>3. Live' /\ Owing => Owing'
        BY <1>1 DEF DataInv, DataTypeOK, UserRec, Owing, Live, fuse_lib_getattr, Call, Stat
    <2>. QED  BY <1>1, <1>2, <1>3, <1>4, <2>1, <2>2, <2>3, NodeFollow DEF DataInv
<1>9. SizeTrusted'
    BY <1>1, <1>2 DEF DataInv, DataTypeOK, PageLocked, StatRec, UserRec, SizeTrusted,
       Mutexed, fuse_lib_getattr, Call, Stat
<1>. QED  BY <1>1, <1>2, <1>4, <1>5, <1>6, <1>7, <1>8, <1>9 DEF DataInv

LEMMA GetattrNodeOK ==
    ASSUME DataInv, GetattrNode
    PROVE  DataInv'
<1>. USE DataAssumption
<1>1. DataTypeOK'
    <2>1. user' \in [Users -> UserRec]
        BY DEF DataInv, DataTypeOK, PageLocked, StatRec, UserRec, GetattrNode, update_stat
    <2>2. page' \in [up : BOOLEAN, ver : Nat, lock : Users \cup {Nobody}, excused : BOOLEAN]
        BY DEF DataInv, DataTypeOK, UserRec, GetattrNode, update_stat
    <2>3. srv' \in [mt : Nat, size : 0..1, ver : Nat] /\ srv'.ver <= MaxVer /\ srv.ver <= srv'.ver
        BY DEF DataInv, DataTypeOK, UserRec, GetattrNode, update_stat
    <2>4. isize' \in [size : 0..1, ver : Nat, late : BOOLEAN]
        BY DEF DataInv, DataTypeOK, UserRec, StatRec, GetattrNode, update_stat
    <2>5. node' \in [valid : BOOLEAN, mt : Nat, size : 0..1, ver : Nat, fresh : BOOLEAN]
        BY DEF DataInv, DataTypeOK, UserRec, StatRec, GetattrNode, update_stat
    <2>6. ga' \in [at : {"none", "stat", "reply"}, st : StatRec, late : BOOLEAN]
        BY DEF DataInv, DataTypeOK, UserRec, StatRec, GetattrNode, update_stat
    <2>7. done' \in Nat /\ done' <= srv'.ver /\ lost' \in BOOLEAN /\ cmode' = cmode
        BY <2>3 DEF DataInv, DataTypeOK, PageLocked, MtimesTell, Stats, UserRec, StatRec,
           GetattrNode, update_stat
    <2>. QED  BY <2>1, <2>2, <2>3, <2>4, <2>5, <2>6, <2>7 DEF DataInv, DataTypeOK
<1>2. PageLocked'
    BY <1>1 DEF DataInv, DataTypeOK, PageLocked, StatRec, UserRec, Writes, Mutexed,
       GetattrNode, update_stat
<1>3. PageFollows
    BY <1>1, <1>2 DEF DataInv, DataTypeOK, PageLocked, StatRec, UserRec, Writes,
       PageFollows, Live, PageVer, GetattrNode, update_stat
<1>4. MtimesTell'
    <2>1. Stats' \subseteq Stats \cup {Stat'}
        BY <1>1 DEF DataInv, DataTypeOK, StatRec, UserRec, Stats, Stat, GetattrNode, update_stat
    <2>2. SrvFollows
        BY DEF DataInv, SrvFollows, DataTypeOK, Live, GetattrNode, update_stat
    <2>. QED  BY <1>1, <1>3, <2>1, <2>2, MtimesKept DEF DataInv
<1>5. StagesRight'
    BY <1>1, <1>2 DEF DataInv, DataTypeOK, PageLocked, StatRec, UserRec, StagesRight,
       GetattrNode, update_stat
<1>6. DoneKept'
    <2>1. Live' /\ isize'.size = 1 => done' = done /\ isize.size = 1
        BY DEF DataInv, DataTypeOK, PageLocked, Live, GetattrNode, update_stat
    <2>. QED  BY <1>1, <1>3, <2>1, DoneFollow DEF DataInv
<1>7. BasesKept'
    <2>1. \A u \in Users : Opened(u)' => Opened(u) /\ user'[u].base = user[u].base
        BY <1>1 DEF DataInv, DataTypeOK, UserRec, Opened, GetattrNode, update_stat
    <2>2. cmode' = cmode
        BY DEF GetattrNode, update_stat
    <2>. QED  BY <1>1, <1>2, <1>3, <2>1, <2>2, BasesFollow DEF DataInv
<1>8. NodeKept'
    <2>. DEFINE st == ga.st
    <2>1. st \in Stats /\ st \in StatRec
        BY DEF DataInv, DataTypeOK, Stats
    <2>2. Live' = Live /\ PageVer' = PageVer /\ Owing' = Owing /\ UNCHANGED <<cmode, user>>
        BY DEF Live, PageVer, Owing, GetattrNode
    <2>3. node' = update_stat(node, st) /\ node'.ver = st.ver
        BY DEF GetattrNode, update_stat
    <2>. HIDE DEF st
    <2>. QED  BY <2>1, <2>2, <2>3, UpdatedNode DEF DataInv, NodeKept
<1>9. SizeTrusted'
    BY <1>1, <1>2 DEF DataInv, DataTypeOK, PageLocked, StatRec, UserRec, SizeTrusted,
       Mutexed, GetattrNode, update_stat
<1>. QED  BY <1>1, <1>2, <1>4, <1>5, <1>6, <1>7, <1>8, <1>9 DEF DataInv

LEMMA ChangeAttrsOK ==
    ASSUME DataInv, fuse_change_attributes
    PROVE  DataInv'
<1>. USE DataAssumption
<1>1. DataTypeOK'
    <2>1. user' \in [Users -> UserRec]
        BY DEF DataInv, DataTypeOK, PageLocked, StatRec, UserRec, fuse_change_attributes,
           Invalidated, NoPage, Size, NoGetattr, NoStat
    <2>2. page' \in [up : BOOLEAN, ver : Nat, lock : Users \cup {Nobody}, excused : BOOLEAN]
        BY DEF DataInv, DataTypeOK, UserRec, fuse_change_attributes, Invalidated, NoPage,
           Size, NoGetattr, NoStat
    <2>3. srv' \in [mt : Nat, size : 0..1, ver : Nat] /\ srv'.ver <= MaxVer /\ srv.ver <= srv'.ver
        BY DEF DataInv, DataTypeOK, UserRec, fuse_change_attributes, Invalidated, NoPage,
           Size, NoGetattr, NoStat
    <2>4. isize' \in [size : 0..1, ver : Nat, late : BOOLEAN]
        BY DEF DataInv, DataTypeOK, UserRec, StatRec, fuse_change_attributes, Invalidated,
           NoPage, Size, NoGetattr, NoStat
    <2>5. node' \in [valid : BOOLEAN, mt : Nat, size : 0..1, ver : Nat, fresh : BOOLEAN]
        BY DEF DataInv, DataTypeOK, UserRec, StatRec, fuse_change_attributes, Invalidated,
           NoPage, Size, NoGetattr, NoStat
    <2>6. ga' \in [at : {"none", "stat", "reply"}, st : StatRec, late : BOOLEAN]
        BY DEF DataInv, DataTypeOK, UserRec, StatRec, fuse_change_attributes, Invalidated,
           NoPage, Size, NoGetattr, NoStat
    <2>7. done' \in Nat /\ done' <= srv'.ver /\ lost' \in BOOLEAN /\ cmode' = cmode
        BY <2>3 DEF DataInv, DataTypeOK, PageLocked, MtimesTell, Stats, UserRec, StatRec,
           fuse_change_attributes, Invalidated, NoPage, Size, NoGetattr, NoStat
    <2>. QED  BY <2>1, <2>2, <2>3, <2>4, <2>5, <2>6, <2>7 DEF DataInv, DataTypeOK
<1>2. PageLocked'
    BY <1>1 DEF DataInv, DataTypeOK, PageLocked, StatRec, UserRec, Writes, Mutexed,
       fuse_change_attributes, Invalidated, NoPage, Size, NoGetattr, NoStat
<1>3. PageFollows
    BY <1>1, <1>2 DEF DataInv, DataTypeOK, PageLocked, StatRec, UserRec, Writes,
       PageFollows, Live, PageVer, fuse_change_attributes, Invalidated, NoPage, Size,
       NoGetattr, NoStat
<1>4. MtimesTell'
    <2>1. Stats' \subseteq Stats \cup {Stat'}
        BY <1>1 DEF DataInv, DataTypeOK, StatRec, UserRec, Stats, Stat,
           fuse_change_attributes, Invalidated, NoPage, Size, NoGetattr, NoStat
    <2>2. SrvFollows
        BY DEF DataInv, SrvFollows, DataTypeOK, Live, fuse_change_attributes, Invalidated,
           NoPage, Size, NoGetattr, NoStat
    <2>. QED  BY <1>1, <1>3, <2>1, <2>2, MtimesKept DEF DataInv
<1>5. StagesRight'
    BY <1>1, <1>2 DEF DataInv, DataTypeOK, PageLocked, StatRec, UserRec, StagesRight,
       fuse_change_attributes, Invalidated, NoPage, Size, NoGetattr, NoStat
<1>6. DoneKept'
    <2>1. Live' /\ isize'.size = 1 => done' = done /\ isize.size = 1
        BY DEF DataInv, DataTypeOK, PageLocked, Live, fuse_change_attributes, Invalidated,
           NoPage, Size, NoGetattr, NoStat
    <2>. QED  BY <1>1, <1>3, <2>1, DoneFollow DEF DataInv
<1>7. BasesKept'
    <2>1. \A u \in Users : Opened(u)' => Opened(u) /\ user'[u].base = user[u].base
        BY <1>1 DEF DataInv, DataTypeOK, UserRec, Opened, fuse_change_attributes,
           Invalidated, NoPage, Size, NoGetattr, NoStat
    <2>2. cmode' = cmode
        BY DEF fuse_change_attributes, Invalidated, NoPage, Size, NoGetattr, NoStat
    <2>. QED  BY <1>1, <1>2, <1>3, <2>1, <2>2, BasesFollow DEF DataInv
<1>8. NodeKept'
    <2>1. \A u \in Users : user'[u].at = "opened" =>
                user[u].at = "opened" /\ user'[u].base = user[u].base
        BY <1>1 DEF DataInv, DataTypeOK, UserRec, fuse_change_attributes, Invalidated,
           NoPage, Size, NoGetattr, NoStat
    <2>2. cmode' = cmode /\ (node'.valid => node.valid /\ node'.ver = node.ver)
        BY DEF DataInv, DataTypeOK, fuse_change_attributes, Invalidated, NoPage, Size,
           NoGetattr, NoStat
    <2>3. Live' /\ Owing => Owing'
        BY <1>1 DEF DataInv, DataTypeOK, UserRec, Owing, Live, fuse_change_attributes,
           Invalidated, NoPage, Size, NoGetattr, NoStat
    <2>. QED  BY <1>1, <1>2, <1>3, <1>4, <2>1, <2>2, <2>3, NodeFollow DEF DataInv
<1>9. SizeTrusted'
    BY <1>1, <1>2 DEF DataInv, DataTypeOK, PageLocked, StatRec, UserRec, SizeTrusted,
       Mutexed, fuse_change_attributes, Invalidated, NoPage, Size, NoGetattr, NoStat
<1>. QED  BY <1>1, <1>2, <1>4, <1>5, <1>6, <1>7, <1>8, <1>9 DEF DataInv

LEMMA RemoteOK ==
    ASSUME DataInv, Remote
    PROVE  DataInv'
<1>. USE DataAssumption
<1>1. DataTypeOK'
    <2>1. user' \in [Users -> UserRec]
        BY DEF DataInv, DataTypeOK, PageLocked, StatRec, UserRec, Remote, Changed, NoPage
    <2>2. page' \in [up : BOOLEAN, ver : Nat, lock : Users \cup {Nobody}, excused : BOOLEAN]
        BY ZenonT(60) DEF DataInv, DataTypeOK, UserRec, Remote, Changed, NoPage
    <2>3. srv' \in [mt : Nat, size : 0..1, ver : Nat] /\ srv'.ver <= MaxVer /\ srv.ver <= srv'.ver
        BY DEF DataInv, DataTypeOK, UserRec, Remote, Changed, NoPage
    <2>4. isize' \in [size : 0..1, ver : Nat, late : BOOLEAN]
        BY DEF DataInv, DataTypeOK, UserRec, StatRec, Remote, Changed, NoPage
    <2>5. node' \in [valid : BOOLEAN, mt : Nat, size : 0..1, ver : Nat, fresh : BOOLEAN]
        BY DEF DataInv, DataTypeOK, UserRec, StatRec, Remote, Changed, NoPage
    <2>6. ga' \in [at : {"none", "stat", "reply"}, st : StatRec, late : BOOLEAN]
        BY DEF DataInv, DataTypeOK, UserRec, StatRec, Remote, Changed, NoPage
    <2>7. done' \in Nat /\ done' <= srv'.ver /\ lost' \in BOOLEAN /\ cmode' = cmode
        BY <2>3 DEF DataInv, DataTypeOK, PageLocked, MtimesTell, Stats, UserRec, StatRec,
           Remote, Changed, NoPage
    <2>. QED  BY <2>1, <2>2, <2>3, <2>4, <2>5, <2>6, <2>7 DEF DataInv, DataTypeOK
<1>2. PageLocked'
    BY <1>1 DEF DataInv, DataTypeOK, PageLocked, StatRec, UserRec, Writes, Mutexed, Remote,
       Changed, NoPage
<1>3. PageFollows
    BY <1>1, <1>2 DEF DataInv, DataTypeOK, PageLocked, StatRec, UserRec, Writes,
       PageFollows, Live, PageVer, Remote, Changed, NoPage
<1>4. MtimesTell'
    <2>1. Stats' \subseteq Stats \cup {Stat'}
        BY <1>1 DEF DataInv, DataTypeOK, StatRec, UserRec, Stats, Stat, Remote, Changed, NoPage
    <2>2. SrvFollows
        <3>1. PICK size \in 0..1, tick \in {0, 1} :
                /\ srv' = [ver |-> srv.ver + 1, mt |-> srv.mt + tick, size |-> size]
                /\ page' = [page EXCEPT !.excused = @ \/ (tick = 0 /\ page # NoPage)]
            BY DEF Remote, Changed
        <3>2. srv.ver \in Nat /\ srv.mt \in Nat
            BY DEF DataInv, DataTypeOK
        <3>3. CASE tick = 1
            BY <3>1, <3>2, <3>3 DEF SrvFollows
        <3>4. CASE tick = 0
            <4>1. user' = user
                BY DEF Remote
            <4>2. page'.excused = (page.excused \/ page # NoPage) /\ page'.lock = page.lock /\ page'.up = page.up /\ page'.ver = page.ver
                BY <3>1, <3>4 DEF DataInv, DataTypeOK
            <4>3. Live' => Live
                BY <4>1, <4>2 DEF Live
            <4>4. ~ Live'
                BY <4>2, <4>3, LiveThere DEF Live
            <4>. QED  BY <3>1, <3>2, <3>4, <4>4 DEF SrvFollows
        <3>. QED  BY <3>3, <3>4
    <2>. QED  BY <1>1, <1>3, <2>1, <2>2, MtimesKept DEF DataInv
<1>5. StagesRight'
    BY <1>1, <1>2 DEF DataInv, DataTypeOK, PageLocked, StatRec, UserRec, StagesRight,
       Remote, Changed, NoPage
<1>6. DoneKept'
    <2>1. Live' /\ isize'.size = 1 => done' = done /\ isize.size = 1
        BY DEF DataInv, DataTypeOK, PageLocked, Live, Remote, Changed, NoPage
    <2>. QED  BY <1>1, <1>3, <2>1, DoneFollow DEF DataInv
<1>7. BasesKept'
    <2>1. \A u \in Users : Opened(u)' => Opened(u) /\ user'[u].base = user[u].base
        BY <1>1 DEF DataInv, DataTypeOK, UserRec, Opened, Remote, Changed, NoPage
    <2>2. cmode' = cmode
        BY DEF Remote, Changed, NoPage
    <2>. QED  BY <1>1, <1>2, <1>3, <2>1, <2>2, BasesFollow DEF DataInv
<1>8. NodeKept'
    <2>1. \A u \in Users : user'[u].at = "opened" =>
                user[u].at = "opened" /\ user'[u].base = user[u].base
        BY <1>1 DEF DataInv, DataTypeOK, UserRec, Remote, Changed, NoPage
    <2>2. cmode' = cmode /\ (node'.valid => node.valid /\ node'.ver = node.ver)
        BY DEF DataInv, DataTypeOK, Remote, Changed, NoPage
    <2>3. Live' /\ Owing => Owing'
        BY <1>1 DEF DataInv, DataTypeOK, UserRec, Owing, Live, Remote, Changed, NoPage
    <2>. QED  BY <1>1, <1>2, <1>3, <1>4, <2>1, <2>2, <2>3, NodeFollow DEF DataInv
<1>9. SizeTrusted'
    BY <1>1, <1>2 DEF DataInv, DataTypeOK, PageLocked, StatRec, UserRec, SizeTrusted,
       Mutexed, Remote, Changed, NoPage
<1>. QED  BY <1>1, <1>2, <1>4, <1>5, <1>6, <1>7, <1>8, <1>9 DEF DataInv

LEMMA DataInitOK ==
    ASSUME DataInit PROVE DataInv
<1>. USE DataAssumption
<1>. USE DEF DataInit, NoPage, NoGetattr, NoStat, Idle, Size
<1>1. DataTypeOK /\ SizeTrusted
    <2>1. Idle("closed", 0) \in UserRec /\ NoStat \in StatRec
        BY DEF UserRec, StatRec
    <2>2. user \in [Users -> UserRec]
        BY <2>1
    <2>3. /\ cmode \in CacheModes /\ srv \in StatRec /\ srv.ver <= MaxVer
          /\ page \in [up : BOOLEAN, ver : Nat, lock : Users \cup {Nobody}, excused : BOOLEAN]
        BY DEF StatRec
    <2>4. /\ isize \in [size : 0..1, ver : Nat, late : BOOLEAN]
          /\ node \in [valid : BOOLEAN, mt : Nat, size : 0..1, ver : Nat, fresh : BOOLEAN]
        OBVIOUS
    <2>5. ga \in [at : {"none", "stat", "reply"}, st : StatRec, late : BOOLEAN]
        BY <2>1
    <2>6. done \in Nat /\ done <= srv.ver
        OBVIOUS
    <2>7. lost \in BOOLEAN
        OBVIOUS
    <2>. QED  BY <2>2, <2>3, <2>4, <2>5, <2>6, <2>7 DEF DataTypeOK, SizeTrusted, StatRec
<1>2. ~ Live /\ PageLocked
    BY DEF Live, PageLocked, Writes, Mutexed
<1>3. MtimesTell
    BY <1>2 DEF MtimesTell, Stats, Stat
<1>4. StagesRight /\ DoneKept /\ BasesKept /\ NodeKept
    BY <1>2 DEF StagesRight, DoneKept, BasesKept, NodeKept
<1>. QED  BY <1>1, <1>2, <1>3, <1>4 DEF DataInv

LEMMA DataNextOK ==
    ASSUME DataInv, DataNext PROVE DataInv'
<1>1. ASSUME NEW t \in Users, fuse_lib_open(t) PROVE DataInv'
    BY <1>1, OpenPlainOK, OpenStatOK, OpenDecideOK
<1>2. ASSUME NEW t \in Users, fuse_readpages_end(t) PROVE DataInv'
    BY <1>2, ReadServedOK, ReadFailedOK DEF fuse_readpages_end
<1>3. ASSUME NEW t \in Users, fuse_vmtruncate(t) PROVE DataInv'
    BY <1>3, ShrinkOK, EmptyOK
<1>4. ASSUME NEW t \in Users,
             \/ open_auto_cache(t) \/ fuse_finish_open(t) \/ OpenKilled(t)
             \/ fuse_release(t) \/ fuse_readpage(t) \/ fuse_lib_read(t)
      PROVE  DataInv'
    BY <1>4, OpenAutoOK, FinishOpenOK, OpenKilledOK, ReleaseOK, ReadpageOK, LibReadOK
<1>5. ASSUME NEW t \in Users,
             \/ \E whole \in BOOLEAN : fuse_prepare_write(t, whole)
             \/ fuse_lib_write(t) \/ fuse_commit_write(t) \/ WriteRefused(t)
             \/ fuse_lib_setattr(t) \/ SetattrNode(t) \/ truncate_inode_pages(t)
      PROVE  DataInv'
    BY <1>5, PrepareOK, LibWriteOK, CommitOK, WriteRefusedOK, SetattrOK, SetattrNodeOK,
       TruncatePagesOK
<1>6. ASSUME fuse_lib_getattr \/ GetattrNode \/ fuse_change_attributes \/ Ages \/ Remote
      PROVE  DataInv'
    BY <1>6, LibGetattrOK, GetattrNodeOK, ChangeAttrsOK, AgesOK, RemoteOK
<1>. QED  BY <1>1, <1>2, <1>3, <1>4, <1>5, <1>6 DEF DataNext

LEMMA DataFresh ==
    ASSUME DataInv PROVE ReadsFresh
<1>. USE DataAssumption
<1>1. SUFFICES ASSUME NEW t \in Users, user[t].at = "idle", page.up,
                      isize.size # 0, ~ page.excused
               PROVE  page.ver >= MaxOf(user[t].base, done)
    BY DEF ReadsFresh, DataInv, SizeTrusted
<1>2. /\ page.ver \in Nat /\ done \in Nat /\ user[t].base \in Nat /\ isize.size = 1
      /\ srv.ver \in Nat /\ done <= srv.ver /\ srv.ver <= MaxVer /\ user[t].base <= srv.ver
    BY <1>1 DEF DataInv, DataTypeOK, PageLocked, UserRec
<1>3. CASE page.lock = Nobody
    <2>1. Live /\ PageVer = page.ver
        BY <1>1, <1>3 DEF Live, PageVer
    <2>2. page.ver >= done
        BY <1>2, <2>1 DEF DataInv, DoneKept
    <2>3. page.ver >= user[t].base
        <3>1. CASE cmode = "kernel_cache"
            BY <1>2, <2>2, <3>1 DEF DataInv, StagesRight
        <3>2. CASE cmode # "kernel_cache"
            BY <1>1, <2>1, <3>2 DEF DataInv, BasesKept, Opened
        <3>. QED  BY <3>1, <3>2
    <2>. QED  BY <1>2, <2>2, <2>3 DEF MaxOf
<1>4. CASE page.lock # Nobody
    <2>1. page.ver = Inf
        BY <1>1, <1>4 DEF DataInv, DataTypeOK, PageLocked, Writes
    <2>. QED  BY <1>2, <2>1 DEF MaxOf, Inf
<1>. QED  BY <1>3, <1>4

(***************************************************************************)
(* A task that has a file open reads nothing older than the last change    *)
(* completed through the mount and than its open promised, but for the     *)
(* windows that ReadsFresh names: for any number of tasks, any mount       *)
(* option and any changes behind the mount's back.                         *)
(***************************************************************************)
THEOREM ReadsStayFresh == Spec => []ReadsFresh
<1>1. Init => DataInv
    BY DataInitOK DEF Init
<1>2. DataInv /\ [Next]_vars => DataInv'
    <2>. SUFFICES ASSUME DataInv, [Next]_vars
                  PROVE  DataInv'
        OBVIOUS
    <2>1. CASE DataNext
        BY <2>1, DataNextOK
    <2>2. CASE UNCHANGED dataVars
        BY <2>2 DEF dataVars, DataInv, DataTypeOK, PageLocked, MtimesTell, StagesRight,
                    DoneKept, BasesKept, NodeKept, SizeTrusted, Live, PageVer, Owing,
                    Opened, Stats, Stat, Inf
    <2>. QED  BY <2>1, <2>2 DEF Next, vars
<1>3. DataInv => ReadsFresh
    BY DataFresh
<1>. QED  BY <1>1, <1>2, <1>3, PTL DEF Spec

(***************************************************************************)
(* POSIX locks: the table                                                  *)
(***************************************************************************)
LockRec == [owner : Owners, type : Types, start : Bytes, end : Bytes]
InFile(l) == l \in LockRec /\ l.start <= l.end

\* What may be in the table, and what may come before what.
Entry(l) == InFile(l) /\ l.type # "F_UNLCK"
Before(k, l) == k.end < l.start /\ (k.type = l.type => k.end + 1 < l.start)
Table(s) ==
    /\ s \in Seq(LockRec)
    /\ \A i \in DOMAIN s : Entry(s[i])
    /\ \A i, j \in DOMAIN s : i < j /\ s[i].owner = s[j].owner => Before(s[i], s[j])

\* Lock l has owner o lock byte b in way ty; some lock of a set has.
Has(l, o, b, ty) == l.owner = o /\ l.start <= b /\ b <= l.end /\ l.type = ty
Covered(S, o, b, ty) == \E l \in S : Has(l, o, b, ty)
Elems(s) == {s[i] : i \in DOMAIN s}

(***************************************************************************)
(* POSIX locks: the protocol                                               *)
(***************************************************************************)
Busy == {"insert", "flush"}
WholeFile(o) == flock_to_lock(WholeUnlock, o)
CallRight(t) ==
    LET c == lkcall[t]
    IN  /\ c.at \in Busy =>
              /\ InFile(c.lock) /\ c.lock.owner = ownerOf[t]
              /\ c.after \subseteq Pending(ownerOf[t]) \ {t}
        /\ c.at = "flush" => c.lock = WholeFile(ownerOf[t])

Inserting == [at : {"insert"}, lock : LockRec, after : SUBSET Lockers]
Flushing == [at : {"flush"}, lock : LockRec, after : SUBSET Lockers, err : {"ok"}]
LocksTypeOK ==
    /\ ownerOf \in [Lockers -> Owners]
    /\ held \in [Owners -> [Bytes -> Types]]
    /\ lkcall \in [Lockers -> {IdleCall} \cup Inserting \cup Flushing]
    /\ closed \subseteq Owners /\ no_flush = FALSE

\* What a byte should be locked as: by the last call of the owner that is
\* under way and has to do with the byte, or else as the table has it.
Touches(t, b) == lkcall[t].lock.start <= b /\ b <= lkcall[t].lock.end
LastFor(t, o, b) == /\ t \in Pending(o) /\ Touches(t, b)
                 /\ \A u \in Pending(o) : Touches(u, b) => t \notin lkcall[u].after
HeldRight(o) ==
    \A b \in Bytes :
        /\ \A t \in Lockers : LastFor(t, o, b) => held[o][b] = lkcall[t].lock.type
        /\ (\A t \in Pending(o) : ~ Touches(t, b)) =>
                \A ty \in Types \ {"F_UNLCK"} :
                    held[o][b] = ty <=> Covered(Elems(locks), o, b, ty)

ClosedRight(o) ==
    /\ held[o] = [b \in Bytes |-> "F_UNLCK"]
    /\ \A t \in Pending(o) : lkcall[t].at = "flush"
    /\ Pending(o) = {} => \A i \in DOMAIN locks : locks[i].owner # o

LocksInv ==
    /\ LocksTypeOK /\ Table(locks)
    /\ \A t \in Lockers : CallRight(t)
    /\ \A o \in Owners \ raced : HeldRight(o)
    /\ \A o \in closed : ClosedRight(o)

(***************************************************************************)
(* POSIX locks: what locks_insert makes of the table                       *)
(***************************************************************************)
LEMMA LeastNat ==
    ASSUME NEW T, T \subseteq Nat, T # {}
    PROVE  \E x \in T : \A y \in T : ~(y < x)
<1>. DEFINE R == OpToRel(<, Nat)
<1>1. IsWellFoundedOn(R, Nat)
    BY NatLessThanWellFounded
<1>2. \A x, y \in Nat : y < x => <<y, x>> \in R
    BY Zenon DEF OpToRel
<1>. HIDE DEF R
<1>3. PICK x \in T : \A y \in T : ~(<<y, x>> \in R)
    BY <1>1, WFMin
<1>. QED  BY <1>2, <1>3

LEMMA LockFields ==
    ASSUME NEW l \in LockRec
    PROVE  /\ l.start \in Int /\ l.end \in Int /\ 0 <= l.start /\ l.end <= OFFSET_MAX
           /\ l.start <= OFFSET_MAX /\ 0 <= l.end
           /\ l.owner \in Owners /\ l.type \in Types
BY LocksAssumption DEF LockRec, Bytes

LEMMA TableEntries ==
    ASSUME NEW s, Table(s)
    PROVE  /\ s \in Seq(LockRec) /\ Len(s) \in Nat /\ DOMAIN s = 1..Len(s)
           /\ \A k \in Elems(s) : Entry(k) /\ k \in LockRec
BY DEF Table, Elems, Entry, InFile

LEMMA OneEntry ==
    ASSUME NEW l, Entry(l)
    PROVE  Table(<<l>>) /\ Elems(<<l>>) = {l}
<1>1. l \in LockRec
    BY DEF Entry, InFile
<1>2. <<l>> \in Seq(LockRec) /\ DOMAIN <<l>> = {1} /\ <<l>>[1] = l
    BY <1>1
<1>. QED  BY <1>2 DEF Table, Elems

LEMMA NoEntries == Table(<<>>) /\ Elems(<<>>) = {}
BY DEF Table, Elems

LEMMA JoinTables ==
    ASSUME NEW s, NEW t, Table(s), Table(t),
           \A k \in Elems(s), l \in Elems(t) : k.owner = l.owner => Before(k, l)
    PROVE  Table(s \o t) /\ Elems(s \o t) = Elems(s) \cup Elems(t)
<1>. DEFINE u == s \o t
            m == Len(s)
            n == Len(t)
<1>1. /\ s \in Seq(LockRec) /\ t \in Seq(LockRec) /\ m \in Nat /\ n \in Nat
      /\ DOMAIN s = 1..m /\ DOMAIN t = 1..n
    BY TableEntries
<1>2. /\ u \in Seq(LockRec) /\ DOMAIN u = 1..(m + n)
      /\ \A i \in 1..m : u[i] = s[i]
      /\ \A i \in (m + 1)..(m + n) : u[i] = t[i - m]
    BY <1>1
<1>. HIDE DEF u, m, n
<1>3. \A i \in 1..(m + n) : i \in 1..m \/ (i \in (m + 1)..(m + n) /\ i - m \in 1..n)
    BY <1>1
<1>4. \A i \in 1..m : i \in 1..(m + n)
    BY <1>1
<1>5. \A i \in 1..n : i + m \in 1..(m + n) /\ i + m \in (m + 1)..(m + n) /\ (i + m) - m = i
    BY <1>1
<1>6. Elems(u) = Elems(s) \cup Elems(t)
    <2>1. ASSUME NEW l \in Elems(u) PROVE l \in Elems(s) \cup Elems(t)
        BY <1>1, <1>2, <1>3, <2>1 DEF Elems
    <2>2. ASSUME NEW l \in Elems(s) PROVE l \in Elems(u)
        BY <1>1, <1>2, <1>4, <2>2 DEF Elems
    <2>3. ASSUME NEW l \in Elems(t) PROVE l \in Elems(u)
        <3>1. PICK i \in 1..n : l = t[i]
            BY <1>1, <2>3 DEF Elems
        <3>2. u[i + m] = t[i]
            BY <1>2, <1>5
        <3>. QED  BY <1>2, <1>5, <3>1, <3>2 DEF Elems
    <2>. QED  BY <2>1, <2>2, <2>3
<1>7. \A i \in DOMAIN u : Entry(u[i])
    BY <1>1, <1>2, <1>3 DEF Table
<1>8. ASSUME NEW i \in DOMAIN u, NEW j \in DOMAIN u, i < j, u[i].owner = u[j].owner
      PROVE  Before(u[i], u[j])
    <2>1. CASE i \in 1..m /\ j \in 1..m
        BY <1>1, <1>2, <1>8, <2>1 DEF Table
    <2>2. CASE i \in 1..m /\ j \in (m + 1)..(m + n)
        <3>1. u[i] \in Elems(s) /\ u[j] \in Elems(t)
            BY <1>1, <1>2, <1>3, <2>2 DEF Elems
        <3>. QED  BY <1>8, <3>1
    <2>3. CASE i \in (m + 1)..(m + n) /\ j \in (m + 1)..(m + n)
        <3>. DEFINE p == i - m
                    q == j - m
        <3>1. p \in 1..n /\ q \in 1..n /\ p < q /\ u[i] = t[p] /\ u[j] = t[q]
            BY <1>1, <1>2, <1>8, <2>3
        <3>. HIDE DEF p, q
        <3>. QED  BY <1>1, <1>8, <3>1 DEF Table
    <2>4. ~ (i \in (m + 1)..(m + n) /\ j \in 1..m)
        BY <1>1, <1>8
    <2>. QED  BY <1>2, <1>3, <2>1, <2>2, <2>3, <2>4
<1>. QED  BY <1>2, <1>6, <1>7, <1>8 DEF Table, u

LEMMA CoveredUnion ==
    ASSUME NEW S, NEW T, NEW o, NEW b, NEW ty
    PROVE  Covered(S \cup T, o, b, ty) <=> Covered(S, o, b, ty) \/ Covered(T, o, b, ty)
BY DEF Covered

LEMMA CoveredOne ==
    ASSUME NEW l, NEW o, NEW b, NEW ty
    PROVE  Covered({l}, o, b, ty) <=> Has(l, o, b, ty)
BY DEF Covered

\* The turns so far have dealt with the first i locks of s.
Past(s, i) == {s[j] : j \in 1..i}
Coming(s, i) == {s[j] : j \in (i + 1)..Len(s)}

\* Where the lock L goes the table is to have its type, elsewhere what it had.
Within(L, b) == L.start <= b /\ b <= L.end
OwnRight(L, E, lock, open, past) ==
    \A b \in Bytes, ty \in Types \ {"F_UNLCK"} :
        Covered(E, L.owner, b, ty) \/ (open /\ Has(lock, L.owner, b, ty))
            <=> IF Within(L, b) THEN ty = L.type ELSE Covered(past, L.owner, b, ty)
OthersRight(L, E, past) ==
    \A o \in Owners \ {L.owner}, b \in Bytes, ty \in Types :
        Covered(E, o, b, ty) <=> Covered(past, o, b, ty)

TurnInv(s, L, out, lock, fin, i) ==
    /\ Table(out) /\ fin \in BOOLEAN
    /\ InFile(lock) /\ lock.owner = L.owner /\ lock.type = L.type
    /\ lock.start <= L.start /\ L.end <= lock.end
    /\ \A k \in Elems(out), l \in Coming(s, i) : k.owner = l.owner => Before(k, l)
    /\ OwnRight(L, Elems(out), lock, ~ fin, Past(s, i))
    /\ OthersRight(L, Elems(out), Past(s, i))
    /\ ~ fin => \A k \in Elems(out) : k.owner = L.owner => Before(k, lock)
    /\ ~ fin => \A l \in Coming(s, i) : l.owner = L.owner =>
                    /\ lock.start = L.start \/ L.start <= l.start
                    /\ lock.end = L.end \/ lock.end < l.start
    /\ fin => \A l \in Coming(s, i) : l.owner = L.owner => L.end < l.start

\* One lock on.
LEMMA OneOn ==
    ASSUME NEW s, Table(s), NEW i \in 0..(Len(s) - 1)
    PROVE  LET l == s[i + 1]
           IN  /\ Past(s, i + 1) = Past(s, i) \cup {l}
               /\ Coming(s, i) = Coming(s, i + 1) \cup {l}
               /\ Entry(l) /\ \A k \in Coming(s, i + 1) : Entry(k) /\ k \in LockRec
               /\ \A k \in Coming(s, i + 1) : l.owner = k.owner => Before(l, k)
<1>. DEFINE n == Len(s)
<1>1. n \in Nat /\ DOMAIN s = 1..n /\ s \in Seq(LockRec)
    BY TableEntries
<1>. HIDE DEF n
<1>2. /\ 1..(i + 1) = 1..i \cup {i + 1}
      /\ (i + 1)..n = ((i + 1) + 1)..n \cup {i + 1}
      /\ \A j \in ((i + 1) + 1)..n : j \in 1..n /\ i + 1 < j
      /\ i + 1 \in 1..n
    BY <1>1 DEF n
<1>3. Past(s, i + 1) = Past(s, i) \cup {s[i + 1]}
    BY <1>2 DEF Past
<1>4. Coming(s, i) = Coming(s, i + 1) \cup {s[i + 1]}
    BY <1>2 DEF Coming, n
<1>5. /\ Entry(s[i + 1])
      /\ \A k \in Coming(s, i + 1) : /\ Entry(k) /\ k \in LockRec
                                     /\ s[i + 1].owner = k.owner => Before(s[i + 1], k)
    BY <1>1, <1>2 DEF Coming, Table, Entry, InFile, n
<1>. QED  BY <1>3, <1>4, <1>5

New(lock) == IF lock.type = "F_UNLCK" THEN <<>> ELSE <<lock>>

LEMMA NewEntry ==
    ASSUME NEW lock, InFile(lock)
    PROVE  /\ Table(New(lock)) /\ \A x \in Elems(New(lock)) : x = lock
           /\ \A o : \A b : \A ty \in Types \ {"F_UNLCK"} :
                Covered(Elems(New(lock)), o, b, ty) <=> Has(lock, o, b, ty)
<1>1. CASE lock.type = "F_UNLCK"
    BY <1>1, NoEntries DEF New, Covered, Has
<1>2. CASE lock.type # "F_UNLCK"
    <2>1. Entry(lock)
        BY <1>2 DEF Entry
    <2>2. New(lock) = <<lock>>
        BY <1>2 DEF New
    <2>3. Table(New(lock)) /\ Elems(New(lock)) = {lock}
        BY <2>1, <2>2, OneEntry
    <2>. QED  BY <2>3, CoveredOne
<1>. QED  BY <1>1, <1>2

\* What a turn appends, and how the lock goes on, for an own lock l = s[i + 1].
Step(s, L, out, lock, l, i, K, lock2, fin2) ==
    /\ Table(K) /\ fin2 \in BOOLEAN
    /\ InFile(lock2) /\ lock2.owner = L.owner /\ lock2.type = L.type
    /\ lock2.start <= L.start /\ L.end <= lock2.end
    /\ \A x \in Elems(K) : x.owner = L.owner
    /\ \A k \in Elems(out), x \in Elems(K) : k.owner = x.owner => Before(k, x)
    /\ \A x \in Elems(K), y \in Coming(s, i + 1) : x.owner = y.owner => Before(x, y)
    /\ \A b \in Bytes, ty \in Types \ {"F_UNLCK"} :
          Covered(Elems(K), L.owner, b, ty) \/ (~ fin2 /\ Has(lock2, L.owner, b, ty))
            <=> IF Within(L, b) THEN ty = L.type
                ELSE Has(lock, L.owner, b, ty) \/ Has(l, L.owner, b, ty)
    /\ ~ fin2 => \A k \in Elems(out) \cup Elems(K) : k.owner = L.owner => Before(k, lock2)
    /\ ~ fin2 => \A y \in Coming(s, i + 1) : y.owner = L.owner =>
                    /\ lock2.start = L.start \/ L.start <= y.start
                    /\ lock2.end = L.end \/ lock2.end < y.start
    /\ fin2 => \A y \in Coming(s, i + 1) : y.owner = L.owner => L.end < y.start

LEMMA StepOn ==
    ASSUME NEW s, Table(s), NEW i \in 0..(Len(s) - 1), NEW L, InFile(L),
           NEW out, NEW lock, TurnInv(s, L, out, lock, FALSE, i),
           s[i + 1].owner = L.owner,
           NEW K, NEW lock2, NEW fin2, Step(s, L, out, lock, s[i + 1], i, K, lock2, fin2)
    PROVE  TurnInv(s, L, out \o K, lock2, fin2, i + 1)
<1>. DEFINE l == s[i + 1]
            out2 == out \o K
            E == Elems(out)
            P == Past(s, i)
            o == L.owner
<1>1. /\ Past(s, i + 1) = P \cup {l} /\ Coming(s, i) = Coming(s, i + 1) \cup {l}
      /\ Entry(l)
    BY OneOn
<1>2. Table(out2) /\ Elems(out2) = E \cup Elems(K)
    BY JoinTables DEF TurnInv, Step
<1>. HIDE DEF l, out2, E, P
<1>3. \A k \in Elems(out2), y \in Coming(s, i + 1) : k.owner = y.owner => Before(k, y)
    BY <1>1, <1>2 DEF TurnInv, Step, E
<1>4. OthersRight(L, Elems(out2), Past(s, i + 1))
    <2>1. ASSUME NEW q \in Owners \ {o}, NEW b \in Bytes, NEW ty \in Types
          PROVE  Covered(E \cup Elems(K), q, b, ty) <=> Covered(P \cup {l}, q, b, ty)
        <3>1. Covered(E, q, b, ty) <=> Covered(P, q, b, ty)
            BY DEF TurnInv, OthersRight, E, P
        <3>2. ~ Covered(Elems(K), q, b, ty)
            BY DEF Step, Covered, Has
        <3>3. ~ Has(l, q, b, ty)
            BY DEF Has, l
        <3>4. Covered(E \cup Elems(K), q, b, ty)
                <=> Covered(E, q, b, ty) \/ Covered(Elems(K), q, b, ty)
            BY CoveredUnion
        <3>5. Covered(P \cup {l}, q, b, ty) <=> Covered(P, q, b, ty) \/ Has(l, q, b, ty)
            BY CoveredUnion, CoveredOne
        <3>. QED  BY <3>1, <3>2, <3>3, <3>4, <3>5
    <2>. QED  BY <1>1, <1>2, <2>1 DEF OthersRight
<1>5. OwnRight(L, Elems(out2), lock2, ~ fin2, Past(s, i + 1))
    <2>1. ASSUME NEW b \in Bytes, NEW ty \in Types \ {"F_UNLCK"}
          PROVE  Covered(E \cup Elems(K), o, b, ty) \/ (~ fin2 /\ Has(lock2, o, b, ty))
                   <=> IF Within(L, b) THEN ty = L.type ELSE Covered(P \cup {l}, o, b, ty)
        <3>1. Covered(E, o, b, ty) \/ Has(lock, o, b, ty)
                <=> IF Within(L, b) THEN ty = L.type ELSE Covered(P, o, b, ty)
            BY DEF TurnInv, OwnRight, E, P
        <3>2. Covered(Elems(K), o, b, ty) \/ (~ fin2 /\ Has(lock2, o, b, ty))
                <=> IF Within(L, b) THEN ty = L.type
                    ELSE Has(lock, o, b, ty) \/ Has(l, o, b, ty)
            BY DEF Step, l
        <3>3. Covered(E \cup Elems(K), o, b, ty)
                <=> Covered(E, o, b, ty) \/ Covered(Elems(K), o, b, ty)
            BY CoveredUnion
        <3>4. Covered(P \cup {l}, o, b, ty) <=> Covered(P, o, b, ty) \/ Has(l, o, b, ty)
            BY CoveredUnion, CoveredOne
        <3>5. fin2 \in BOOLEAN
            BY DEF Step
        <3>. QED  BY <3>1, <3>2, <3>3, <3>4, <3>5
    <2>. QED  BY <1>1, <1>2, <2>1 DEF OwnRight
<1>. QED  BY <1>2, <1>3, <1>4, <1>5 DEF TurnInv, Step, out2, E

\* Locks of others, and all locks after the break, stay as they are.
LEMMA StaysOn ==
    ASSUME NEW s, Table(s), NEW i \in 0..(Len(s) - 1), NEW L, InFile(L),
           NEW out, NEW lock, NEW fin, TurnInv(s, L, out, lock, fin, i),
           fin \/ s[i + 1].owner # L.owner
    PROVE  TurnInv(s, L, out \o <<s[i + 1]>>, lock, fin, i + 1)
<1>. DEFINE l == s[i + 1]
            K == <<l>>
            out2 == out \o K
            E == Elems(out)
            P == Past(s, i)
            o == L.owner
<1>1. /\ Past(s, i + 1) = P \cup {l} /\ Coming(s, i) = Coming(s, i + 1) \cup {l}
      /\ Entry(l) /\ \A y \in Coming(s, i + 1) : l.owner = y.owner => Before(l, y)
    BY OneOn
<1>. HIDE DEF l
<1>2. Table(K) /\ Elems(K) = {l}
    BY <1>1, OneEntry
<1>. HIDE DEF K
<1>3. \A k \in E : k.owner = l.owner => Before(k, l)
    BY <1>1 DEF TurnInv
<1>4. Table(out2) /\ Elems(out2) = E \cup {l}
    BY <1>2, <1>3, JoinTables DEF TurnInv
<1>. HIDE DEF out2, E, P
<1>5. \A k \in Elems(out2), y \in Coming(s, i + 1) : k.owner = y.owner => Before(k, y)
    BY <1>1, <1>4 DEF TurnInv, E
<1>6. OthersRight(L, Elems(out2), Past(s, i + 1))
    <2>1. ASSUME NEW q \in Owners \ {o}, NEW b \in Bytes, NEW ty \in Types
          PROVE  Covered(E \cup {l}, q, b, ty) <=> Covered(P \cup {l}, q, b, ty)
        <3>1. Covered(E, q, b, ty) <=> Covered(P, q, b, ty)
            BY DEF TurnInv, OthersRight, E, P
        <3>. QED  BY <3>1, CoveredUnion
    <2>2. Elems(out2) = E \cup {l} /\ Past(s, i + 1) = P \cup {l}
        BY <1>1, <1>4 DEF P
    <2>. QED  BY <2>1, <2>2 DEF OthersRight
<1>7. OwnRight(L, Elems(out2), lock, ~ fin, Past(s, i + 1))
    <2>1. ASSUME NEW b \in Bytes, NEW ty \in Types \ {"F_UNLCK"}
          PROVE  Covered(E \cup {l}, o, b, ty) \/ (~ fin /\ Has(lock, o, b, ty))
                   <=> IF Within(L, b) THEN ty = L.type ELSE Covered(P \cup {l}, o, b, ty)
        <3>1. Covered(E, o, b, ty) \/ (~ fin /\ Has(lock, o, b, ty))
                <=> IF Within(L, b) THEN ty = L.type ELSE Covered(P, o, b, ty)
            BY DEF TurnInv, OwnRight, E, P
        <3>2. Covered(E \cup {l}, o, b, ty) <=> Covered(E, o, b, ty) \/ Has(l, o, b, ty)
            BY CoveredUnion, CoveredOne
        <3>3. Covered(P \cup {l}, o, b, ty) <=> Covered(P, o, b, ty) \/ Has(l, o, b, ty)
            BY CoveredUnion, CoveredOne
        <3>4. Within(L, b) => ~ Has(l, o, b, ty)
            <4>1. CASE l.owner # o
                BY <4>1 DEF Has
            <4>2. CASE l.owner = o
                <5>1. L.end < l.start
                    BY <1>1, <4>2 DEF TurnInv, l
                <5>2. L \in LockRec /\ l \in LockRec /\ b \in Int
                    BY <1>1, LocksAssumption DEF InFile, Entry, Bytes
                <5>3. L.end \in Int /\ l.start \in Int
                    BY <5>2, LockFields
                <5>. QED  BY <5>1, <5>2, <5>3 DEF Has, Within
            <4>. QED  BY <4>1, <4>2
        <3>. QED  BY <3>1, <3>2, <3>3, <3>4
    <2>. QED  BY <1>1, <1>4, <2>1 DEF OwnRight
<1>8. ~ fin => \A k \in Elems(out2) : k.owner = L.owner => Before(k, lock)
    BY <1>4 DEF TurnInv, E, l
<1>9. Coming(s, i + 1) \subseteq Coming(s, i)
    BY <1>1
<1>. QED  BY <1>4, <1>5, <1>6, <1>7, <1>8, <1>9 DEF TurnInv, out2, K, l

\* The loop is at an own lock and has not ended.
OwnTurn(s, i, L, out, lock) ==
    /\ Table(s) /\ i \in 0..(Len(s) - 1) /\ InFile(L)
    /\ TurnInv(s, L, out, lock, FALSE, i) /\ s[i + 1].owner = L.owner

Bounds(l) == l.start \in Int /\ l.end \in Int /\ l.start <= l.end

LEMMA OwnFacts ==
    ASSUME NEW s, NEW i, NEW L, NEW out, NEW lock, OwnTurn(s, i, L, out, lock)
    PROVE  LET l == s[i + 1]
           IN  /\ Entry(l) /\ InFile(lock) /\ InFile(L)
               /\ Bounds(l) /\ Bounds(lock) /\ Bounds(L)
               /\ l.owner = L.owner /\ lock.owner = L.owner /\ lock.type = L.type
               /\ lock.start <= L.start /\ L.end <= lock.end
               /\ lock.start = L.start \/ L.start <= l.start
               /\ lock.end = L.end \/ lock.end < l.start
               /\ \A k \in Elems(out) : /\ k.end \in Int
                                        /\ k.owner = L.owner => Before(k, l) /\ Before(k, lock)
               /\ \A y \in Coming(s, i + 1) :
                     /\ Bounds(y)
                     /\ y.owner = L.owner =>
                          /\ Before(l, y)
                          /\ lock.start = L.start \/ L.start <= y.start
                          /\ lock.end = L.end \/ lock.end < y.start
<1>. DEFINE l == s[i + 1]
<1>0. /\ Table(s) /\ i \in 0..(Len(s) - 1) /\ InFile(L)
      /\ TurnInv(s, L, out, lock, FALSE, i) /\ l.owner = L.owner
    BY DEF OwnTurn
<1>1. /\ Coming(s, i) = Coming(s, i + 1) \cup {l}
      /\ Entry(l) /\ \A y \in Coming(s, i + 1) : Entry(y) /\ y \in LockRec
      /\ \A y \in Coming(s, i + 1) : l.owner = y.owner => Before(l, y)
    BY <1>0, OneOn
<1>. HIDE DEF l
<1>2. \A x : InFile(x) => Bounds(x)
    BY LockFields DEF InFile, Bounds
<1>3. /\ InFile(lock) /\ lock.owner = L.owner /\ lock.type = L.type
      /\ lock.start <= L.start /\ L.end <= lock.end
      /\ \A k \in Elems(out), y \in Coming(s, i) : k.owner = y.owner => Before(k, y)
      /\ \A k \in Elems(out) : k.owner = L.owner => Before(k, lock)
      /\ \A y \in Coming(s, i) : y.owner = L.owner =>
                    /\ lock.start = L.start \/ L.start <= y.start
                    /\ lock.end = L.end \/ lock.end < y.start
    BY <1>0 DEF TurnInv
<1>4. \A k \in Elems(out) : k.end \in Int
    <2>1. Table(out)
        BY <1>0 DEF TurnInv
    <2>. QED  BY <1>2, <2>1, TableEntries DEF Bounds, Entry
<1>5. Bounds(l) /\ Bounds(lock) /\ Bounds(L) /\ \A y \in Coming(s, i + 1) : Bounds(y)
    BY <1>0, <1>1, <1>2, <1>3 DEF Entry
<1>. QED  BY <1>0, <1>1, <1>3, <1>4, <1>5 DEF l

LEMMA StepSkip ==
    ASSUME NEW s, NEW i, NEW L, NEW out, NEW lock, OwnTurn(s, i, L, out, lock),
           IF s[i + 1].type = lock.type THEN s[i + 1].end < lock.start - 1
                                        ELSE s[i + 1].end < lock.start
    PROVE  Step(s, L, out, lock, s[i + 1], i, <<s[i + 1]>>, lock, FALSE)
<1>. DEFINE l == s[i + 1]
            K == <<l>>
<1>1. /\ Entry(l) /\ InFile(lock) /\ InFile(L)
      /\ Bounds(l) /\ Bounds(lock) /\ Bounds(L)
      /\ l.owner = L.owner /\ lock.owner = L.owner /\ lock.type = L.type
      /\ lock.start <= L.start /\ L.end <= lock.end
      /\ \A k \in Elems(out) : k.owner = L.owner => Before(k, l) /\ Before(k, lock)
      /\ \A y \in Coming(s, i + 1) : y.owner = L.owner =>
                          /\ Before(l, y)
                          /\ lock.start = L.start \/ L.start <= y.start
                          /\ lock.end = L.end \/ lock.end < y.start
    BY OwnFacts
<1>2. IF l.type = lock.type THEN l.end < lock.start - 1 ELSE l.end < lock.start
    OBVIOUS
<1>. HIDE DEF l
<1>3. Table(K) /\ Elems(K) = {l}
    BY <1>1, OneEntry
<1>. HIDE DEF K
<1>4. Before(l, lock) /\ l.end < lock.start
    BY <1>1, <1>2 DEF Before, Bounds
<1>5. ASSUME NEW b \in Bytes, NEW ty \in Types \ {"F_UNLCK"}
      PROVE  Covered(Elems(K), L.owner, b, ty) \/ Has(lock, L.owner, b, ty)
               <=> IF Within(L, b) THEN ty = L.type
                   ELSE Has(lock, L.owner, b, ty) \/ Has(l, L.owner, b, ty)
    <2>1. Covered(Elems(K), L.owner, b, ty) <=> Has(l, L.owner, b, ty)
        BY <1>3, CoveredOne
    <2>2. b \in Int
        BY LocksAssumption DEF Bytes
    <2>3. Within(L, b) => (Has(lock, L.owner, b, ty) <=> ty = L.type)
        BY <1>1, <2>2 DEF Within, Has, Bounds
    <2>4. Within(L, b) => ~ Has(l, L.owner, b, ty)
        BY <1>1, <1>4, <2>2 DEF Within, Has, Bounds
    <2>. QED  BY <2>1, <2>3, <2>4
<1>. QED  BY <1>1, <1>3, <1>4, <1>5 DEF Step, K, l

\* The break of a lock that ends before l: new goes in front of l.
LEMMA StepInFront ==
    ASSUME NEW s, NEW i, NEW L, NEW out, NEW lock, OwnTurn(s, i, L, out, lock),
           IF s[i + 1].type = lock.type THEN lock.end < s[i + 1].start - 1
                                        ELSE lock.end < s[i + 1].start
    PROVE  Step(s, L, out, lock, s[i + 1], i, New(lock) \o <<s[i + 1]>>, lock, TRUE)
<1>. DEFINE l == s[i + 1]
            N == New(lock)
            K == N \o <<l>>
<1>1. /\ Entry(l) /\ InFile(lock) /\ InFile(L)
      /\ Bounds(l) /\ Bounds(lock) /\ Bounds(L)
      /\ l.owner = L.owner /\ lock.owner = L.owner /\ lock.type = L.type
      /\ lock.start <= L.start /\ L.end <= lock.end
      /\ \A k \in Elems(out) : k.owner = L.owner => Before(k, l) /\ Before(k, lock)
      /\ \A y \in Coming(s, i + 1) : Bounds(y) /\ (y.owner = L.owner => Before(l, y))
    BY OwnFacts
<1>2. IF l.type = lock.type THEN lock.end < l.start - 1 ELSE lock.end < l.start
    OBVIOUS
<1>. HIDE DEF l
<1>3. Table(<<l>>) /\ Elems(<<l>>) = {l}
    BY <1>1, OneEntry
<1>4. /\ Table(N) /\ \A x \in Elems(N) : x = lock
      /\ \A b : \A ty \in Types \ {"F_UNLCK"} :
             Covered(Elems(N), L.owner, b, ty) <=> Has(lock, L.owner, b, ty)
    BY <1>1, NewEntry
<1>5. Before(lock, l) /\ lock.end < l.start
    BY <1>1, <1>2 DEF Before, Bounds
<1>. HIDE DEF N
<1>6. Table(K) /\ Elems(K) = Elems(N) \cup {l}
    BY <1>3, <1>4, <1>5, JoinTables
<1>. HIDE DEF K
<1>7. \A y \in Coming(s, i + 1) : y.owner = L.owner => Before(lock, y) /\ L.end < y.start
    BY <1>1, <1>5 DEF Before, Bounds
<1>8. ASSUME NEW b \in Bytes, NEW ty \in Types \ {"F_UNLCK"}
      PROVE  Covered(Elems(K), L.owner, b, ty)
               <=> IF Within(L, b) THEN ty = L.type
                   ELSE Has(lock, L.owner, b, ty) \/ Has(l, L.owner, b, ty)
    <2>1. Covered(Elems(N) \cup {l}, L.owner, b, ty)
            <=> Covered(Elems(N), L.owner, b, ty) \/ Has(l, L.owner, b, ty)
        BY CoveredOne, CoveredUnion
    <2>5. Covered(Elems(K), L.owner, b, ty)
            <=> Has(lock, L.owner, b, ty) \/ Has(l, L.owner, b, ty)
        BY <1>4, <1>6, <2>1
    <2>2. b \in Int
        BY LocksAssumption DEF Bytes
    <2>3. Within(L, b) => (Has(lock, L.owner, b, ty) <=> ty = L.type)
        BY <1>1, <2>2 DEF Within, Has, Bounds
    <2>4. Within(L, b) => ~ Has(l, L.owner, b, ty)
        BY <1>1, <1>5, <2>2 DEF Within, Has, Bounds
    <2>. QED  BY <2>3, <2>4, <2>5
<1>. QED  BY <1>1, <1>4, <1>6, <1>7, <1>8 DEF Step, K, N, l

\* The lock is part of l, of its own type.
LEMMA StepInside ==
    ASSUME NEW s, NEW i, NEW L, NEW out, NEW lock, OwnTurn(s, i, L, out, lock),
           s[i + 1].type = lock.type,
           s[i + 1].start <= lock.start, lock.end <= s[i + 1].end
    PROVE  Step(s, L, out, lock, s[i + 1], i, <<s[i + 1]>>, lock, TRUE)
<1>. DEFINE l == s[i + 1]
            K == <<l>>
<1>1. /\ Entry(l) /\ InFile(lock) /\ InFile(L)
      /\ Bounds(l) /\ Bounds(lock) /\ Bounds(L)
      /\ l.owner = L.owner /\ lock.owner = L.owner /\ lock.type = L.type
      /\ lock.start <= L.start /\ L.end <= lock.end
      /\ \A k \in Elems(out) : k.owner = L.owner => Before(k, l)
      /\ \A y \in Coming(s, i + 1) : Bounds(y) /\ (y.owner = L.owner => Before(l, y))
    BY OwnFacts
<1>2. l.type = lock.type /\ l.start <= lock.start /\ lock.end <= l.end
    OBVIOUS
<1>. HIDE DEF l
<1>3. Table(K) /\ Elems(K) = {l}
    BY <1>1, OneEntry
<1>. HIDE DEF K
<1>4. \A y \in Coming(s, i + 1) : y.owner = L.owner => L.end < y.start
    BY <1>1, <1>2 DEF Before, Bounds
<1>5. ASSUME NEW b \in Bytes, NEW ty \in Types \ {"F_UNLCK"}
      PROVE  Covered(Elems(K), L.owner, b, ty)
               <=> IF Within(L, b) THEN ty = L.type
                   ELSE Has(lock, L.owner, b, ty) \/ Has(l, L.owner, b, ty)
    <2>1. Covered(Elems(K), L.owner, b, ty) <=> Has(l, L.owner, b, ty)
        BY <1>3, CoveredOne
    <2>2. b \in Int
        BY LocksAssumption DEF Bytes
    <2>3. Within(L, b) => (Has(l, L.owner, b, ty) <=> ty = L.type)
        BY <1>1, <1>2, <2>2 DEF Within, Has, Bounds
    <2>4. Has(lock, L.owner, b, ty) => Has(l, L.owner, b, ty)
        BY <1>1, <1>2, <2>2 DEF Has, Bounds
    <2>. QED  BY <2>1, <2>3, <2>4
<1>. QED  BY <1>1, <1>3, <1>4, <1>5 DEF Step, K, l

\* l is swallowed by the lock, of its type.
MergedOf(lock, l) ==
    [lock EXCEPT !.start = IF l.start < @ THEN l.start ELSE @,
                 !.end = IF @ < l.end THEN l.end ELSE @]

LEMMA StepMerge ==
    ASSUME NEW s, NEW i, NEW L, NEW out, NEW lock, OwnTurn(s, i, L, out, lock),
           s[i + 1].type = lock.type,
           ~ (s[i + 1].end < lock.start - 1), ~ (lock.end < s[i + 1].start - 1),
           ~ (s[i + 1].start <= lock.start /\ lock.end <= s[i + 1].end)
    PROVE  Step(s, L, out, lock, s[i + 1], i, <<>>, MergedOf(lock, s[i + 1]), FALSE)
<1>. DEFINE l == s[i + 1]
            m == MergedOf(lock, l)
<1>1. /\ Entry(l) /\ InFile(lock) /\ InFile(L)
      /\ Bounds(l) /\ Bounds(lock) /\ Bounds(L)
      /\ l.owner = L.owner /\ lock.owner = L.owner /\ lock.type = L.type
      /\ lock.start <= L.start /\ L.end <= lock.end
      /\ lock.start = L.start \/ L.start <= l.start
      /\ lock.end = L.end \/ lock.end < l.start
      /\ \A k \in Elems(out) : /\ k.end \in Int
                               /\ k.owner = L.owner => Before(k, l) /\ Before(k, lock)
      /\ \A y \in Coming(s, i + 1) :
                     /\ Bounds(y)
                     /\ y.owner = L.owner =>
                          /\ Before(l, y)
                          /\ lock.start = L.start \/ L.start <= y.start
                          /\ lock.end = L.end \/ lock.end < y.start
    BY OwnFacts
<1>2. /\ l.type = lock.type
      /\ ~ (l.end < lock.start - 1) /\ ~ (lock.end < l.start - 1)
      /\ ~ (l.start <= lock.start /\ lock.end <= l.end)
    OBVIOUS
<1>. HIDE DEF l
<1>3. lock \in LockRec /\ l \in LockRec
    BY <1>1 DEF Entry, InFile
<1>4. /\ m \in LockRec /\ m.owner = L.owner /\ m.type = L.type
      /\ m.start = IF l.start < lock.start THEN l.start ELSE lock.start
      /\ m.end = IF lock.end < l.end THEN l.end ELSE lock.end
    BY <1>1, <1>3 DEF LockRec, MergedOf
<1>. HIDE DEF m
<1>5. /\ Bounds(m) /\ m.start <= L.start /\ L.end <= m.end
    BY <1>1, <1>4 DEF Bounds
<1>6. InFile(m)
    BY <1>4, <1>5 DEF InFile, Bounds
<1>7. \A k \in Elems(out) : k.owner = L.owner => Before(k, m)
    BY <1>1, <1>2, <1>4 DEF Before
<1>8. ASSUME NEW y \in Coming(s, i + 1), y.owner = L.owner
      PROVE  /\ m.start = L.start \/ L.start <= y.start
             /\ m.end = L.end \/ m.end < y.start
    <2>1. /\ Bounds(y) /\ Before(l, y)
          /\ lock.start = L.start \/ L.start <= y.start
          /\ lock.end = L.end \/ lock.end < y.start
        BY <1>1, <1>8
    <2>. QED  BY <1>1, <1>2, <1>4, <2>1 DEF Before, Bounds
<1>9. ASSUME NEW b \in Bytes, NEW ty \in Types \ {"F_UNLCK"}
      PROVE  Covered(Elems(<<>>), L.owner, b, ty) \/ Has(m, L.owner, b, ty)
               <=> IF Within(L, b) THEN ty = L.type
                   ELSE Has(lock, L.owner, b, ty) \/ Has(l, L.owner, b, ty)
    <2>1. ~ Covered(Elems(<<>>), L.owner, b, ty)
        BY NoEntries DEF Covered
    <2>2. b \in Int
        BY LocksAssumption DEF Bytes
    <2>3. Within(L, b) => (Has(m, L.owner, b, ty) <=> ty = L.type)
        BY <1>1, <1>4, <1>5, <2>2 DEF Within, Has, Bounds
    <2>4. m.start <= b /\ b <= m.end
            <=> (lock.start <= b /\ b <= lock.end) \/ (l.start <= b /\ b <= l.end)
        BY <1>1, <1>2, <1>4, <2>2 DEF Bounds
    <2>5. Has(m, L.owner, b, ty) <=> Has(lock, L.owner, b, ty) \/ Has(l, L.owner, b, ty)
        BY <1>1, <1>2, <1>4, <2>4 DEF Has
    <2>. QED  BY <2>1, <2>3, <2>5
<1>. QED  BY <1>1, <1>4, <1>5, <1>6, <1>7, <1>8, <1>9, NoEntries DEF Step, m, l

\* l is swallowed by the lock, of another type.
LEMMA StepGone ==
    ASSUME NEW s, NEW i, NEW L, NEW out, NEW lock, OwnTurn(s, i, L, out, lock),
           lock.start <= s[i + 1].start, s[i + 1].end <= lock.end
    PROVE  Step(s, L, out, lock, s[i + 1], i, <<>>, lock, FALSE)
<1>. DEFINE l == s[i + 1]
<1>1. /\ Entry(l) /\ InFile(lock) /\ InFile(L)
      /\ Bounds(l) /\ Bounds(lock) /\ Bounds(L)
      /\ l.owner = L.owner /\ lock.owner = L.owner /\ lock.type = L.type
      /\ lock.start <= L.start /\ L.end <= lock.end
      /\ lock.start = L.start \/ L.start <= l.start
      /\ lock.end = L.end \/ lock.end < l.start
      /\ \A k \in Elems(out) : k.owner = L.owner => Before(k, lock)
      /\ \A y \in Coming(s, i + 1) : y.owner = L.owner =>
                          /\ lock.start = L.start \/ L.start <= y.start
                          /\ lock.end = L.end \/ lock.end < y.start
    BY OwnFacts
<1>2. lock.start <= l.start /\ l.end <= lock.end
    OBVIOUS
<1>. HIDE DEF l
<1>9. ASSUME NEW b \in Bytes, NEW ty \in Types \ {"F_UNLCK"}
      PROVE  Covered(Elems(<<>>), L.owner, b, ty) \/ Has(lock, L.owner, b, ty)
               <=> IF Within(L, b) THEN ty = L.type
                   ELSE Has(lock, L.owner, b, ty) \/ Has(l, L.owner, b, ty)
    <2>1. ~ Covered(Elems(<<>>), L.owner, b, ty)
        BY NoEntries DEF Covered
    <2>2. b \in Int
        BY LocksAssumption DEF Bytes
    <2>3. Within(L, b) => (Has(lock, L.owner, b, ty) <=> ty = L.type)
        BY <1>1, <2>2 DEF Within, Has, Bounds
    <2>4. Has(l, L.owner, b, ty) => Within(L, b)
        BY <1>1, <1>2, <2>2 DEF Within, Has, Bounds
    <2>. QED  BY <2>1, <2>3, <2>4
<1>. QED  BY <1>1, <1>9, NoEntries DEF Step, l

\* What is left of l in front of the lock, and behind it.
CutOf(lock, l) == [l EXCEPT !.end = lock.start - 1]
RestOf(lock, l) == [l EXCEPT !.start = lock.end + 1]

LEMMA CutRight ==
    ASSUME NEW lock, NEW l, InFile(lock), Entry(l), l.start < lock.start
    PROVE  LET c == CutOf(lock, l)
           IN  /\ Entry(c) /\ c.owner = l.owner /\ c.type = l.type
               /\ c.start = l.start /\ c.end = lock.start - 1 /\ Bounds(c)
<1>1. lock \in LockRec /\ l \in LockRec /\ l.type # "F_UNLCK" /\ lock.start \in Bytes
    BY DEF InFile, Entry, LockRec
<1>2. l.start \in Int /\ lock.start \in Int /\ 0 <= l.start /\ lock.start <= OFFSET_MAX
    BY <1>1, LockFields
<1>3. lock.start - 1 \in Bytes
    BY <1>2, LocksAssumption DEF Bytes
<1>4. /\ CutOf(lock, l) \in LockRec /\ CutOf(lock, l).owner = l.owner
      /\ CutOf(lock, l).type = l.type
      /\ CutOf(lock, l).start = l.start /\ CutOf(lock, l).end = lock.start - 1
    BY <1>1, <1>3 DEF LockRec, CutOf
<1>. HIDE DEF CutOf
<1>. QED  BY <1>1, <1>2, <1>4 DEF Entry, InFile, Bounds

LEMMA RestRight ==
    ASSUME NEW lock, NEW l, InFile(lock), Entry(l), lock.end < l.end
    PROVE  LET r == RestOf(lock, l)
           IN  /\ Entry(r) /\ r.owner = l.owner /\ r.type = l.type
               /\ r.start = lock.end + 1 /\ r.end = l.end /\ Bounds(r)
<1>1. lock \in LockRec /\ l \in LockRec /\ l.type # "F_UNLCK"
    BY DEF InFile, Entry
<1>2. /\ l.end \in Int /\ lock.end \in Int /\ l.end <= OFFSET_MAX /\ 0 <= lock.end
    BY <1>1, LockFields
<1>3. lock.end + 1 \in Bytes
    BY <1>2, LocksAssumption DEF Bytes
<1>4. /\ RestOf(lock, l) \in LockRec /\ RestOf(lock, l).owner = l.owner
      /\ RestOf(lock, l).type = l.type
      /\ RestOf(lock, l).start = lock.end + 1 /\ RestOf(lock, l).end = l.end
    BY <1>1, <1>3 DEF LockRec, RestOf
<1>. HIDE DEF RestOf
<1>. QED  BY <1>1, <1>2, <1>4 DEF Entry, InFile, Bounds

\* The lock goes on behind what is left in front of it.
LEMMA StepCut ==
    ASSUME NEW s, NEW i, NEW L, NEW out, NEW lock, OwnTurn(s, i, L, out, lock),
           s[i + 1].type # lock.type, ~ (s[i + 1].end < lock.start),
           s[i + 1].start < lock.start, s[i + 1].end <= lock.end
    PROVE  Step(s, L, out, lock, s[i + 1], i, <<CutOf(lock, s[i + 1])>>, lock, FALSE)
<1>. DEFINE l == s[i + 1]
            c == CutOf(lock, l)
            K == <<c>>
<1>1. /\ Entry(l) /\ InFile(lock) /\ InFile(L)
      /\ Bounds(l) /\ Bounds(lock) /\ Bounds(L)
      /\ l.owner = L.owner /\ lock.owner = L.owner /\ lock.type = L.type
      /\ lock.start <= L.start /\ L.end <= lock.end
      /\ lock.start = L.start \/ L.start <= l.start
      /\ lock.end = L.end \/ lock.end < l.start
      /\ \A k \in Elems(out) : k.owner = L.owner => Before(k, l) /\ Before(k, lock)
      /\ \A y \in Coming(s, i + 1) :
            /\ Bounds(y)
            /\ y.owner = L.owner =>
                          /\ Before(l, y)
                          /\ lock.start = L.start \/ L.start <= y.start
                          /\ lock.end = L.end \/ lock.end < y.start
    BY OwnFacts
<1>2. /\ l.type # lock.type /\ ~ (l.end < lock.start)
      /\ l.start < lock.start /\ l.end <= lock.end
    OBVIOUS
<1>. HIDE DEF l
<1>3. /\ Entry(c) /\ c.owner = l.owner /\ c.type = l.type
      /\ c.start = l.start /\ c.end = lock.start - 1 /\ Bounds(c)
    BY <1>1, <1>2, CutRight
<1>. HIDE DEF c
<1>4. Table(K) /\ Elems(K) = {c}
    BY <1>3, OneEntry
<1>. HIDE DEF K
<1>5. \A k \in Elems(out) : k.owner = L.owner => Before(k, c)
    BY <1>1, <1>3 DEF Before
<1>6. \A y \in Coming(s, i + 1) : y.owner = L.owner => Before(c, y)
    BY <1>1, <1>2, <1>3 DEF Before, Bounds
<1>7. Before(c, lock)
    BY <1>1, <1>2, <1>3 DEF Before, Bounds
<1>8. ASSUME NEW b \in Bytes, NEW ty \in Types \ {"F_UNLCK"}
      PROVE  Covered(Elems(K), L.owner, b, ty) \/ Has(lock, L.owner, b, ty)
               <=> IF Within(L, b) THEN ty = L.type
                   ELSE Has(lock, L.owner, b, ty) \/ Has(l, L.owner, b, ty)
    <2>1. Covered(Elems(K), L.owner, b, ty) <=> Has(c, L.owner, b, ty)
        BY <1>4, CoveredOne
    <2>2. b \in Int
        BY LocksAssumption DEF Bytes
    <2>3. Within(L, b) => (Has(lock, L.owner, b, ty) <=> ty = L.type)
        BY <1>1, <2>2 DEF Within, Has, Bounds
    <2>4. Has(c, L.owner, b, ty) => ~ Within(L, b) /\ Has(l, L.owner, b, ty)
        BY <1>1, <1>2, <1>3, <2>2 DEF Within, Has, Bounds
    <2>5. Has(l, L.owner, b, ty) => Has(c, L.owner, b, ty) \/ Within(L, b)
        BY <1>1, <1>2, <1>3, <2>2 DEF Within, Has, Bounds
    <2>. QED  BY <2>1, <2>3, <2>4, <2>5
<1>. QED  BY <1>1, <1>3, <1>4, <1>5, <1>6, <1>7, <1>8 DEF Step, K, c, l

\* The lock takes the front of l, and the loop ends.
LEMMA StepRest ==
    ASSUME NEW s, NEW i, NEW L, NEW out, NEW lock, OwnTurn(s, i, L, out, lock),
           s[i + 1].type # lock.type, ~ (lock.end < s[i + 1].start),
           lock.start <= s[i + 1].start, lock.end < s[i + 1].end
    PROVE  Step(s, L, out, lock, s[i + 1], i, New(lock) \o <<RestOf(lock, s[i + 1])>>,
                lock, TRUE)
<1>. DEFINE l == s[i + 1]
            r == RestOf(lock, l)
            N == New(lock)
            K == N \o <<r>>
<1>1. /\ Entry(l) /\ InFile(lock) /\ InFile(L)
      /\ Bounds(l) /\ Bounds(lock) /\ Bounds(L)
      /\ l.owner = L.owner /\ lock.owner = L.owner /\ lock.type = L.type
      /\ lock.start <= L.start /\ L.end <= lock.end
      /\ lock.start = L.start \/ L.start <= l.start
      /\ lock.end = L.end \/ lock.end < l.start
      /\ \A k \in Elems(out) : /\ k.end \in Int
                               /\ k.owner = L.owner => Before(k, l) /\ Before(k, lock)
      /\ \A y \in Coming(s, i + 1) : Bounds(y) /\ (y.owner = L.owner => Before(l, y))
    BY OwnFacts
<1>2. /\ l.type # lock.type /\ ~ (lock.end < l.start)
      /\ lock.start <= l.start /\ lock.end < l.end
    OBVIOUS
<1>. HIDE DEF l
<1>3. /\ Entry(r) /\ r.owner = l.owner /\ r.type = l.type
      /\ r.start = lock.end + 1 /\ r.end = l.end /\ Bounds(r)
    BY <1>1, <1>2, RestRight
<1>. HIDE DEF r
<1>4. Table(<<r>>) /\ Elems(<<r>>) = {r}
    BY <1>3, OneEntry
<1>5. /\ Table(N) /\ \A x \in Elems(N) : x = lock
      /\ \A b : \A ty \in Types \ {"F_UNLCK"} :
             Covered(Elems(N), L.owner, b, ty) <=> Has(lock, L.owner, b, ty)
    BY <1>1, NewEntry
<1>6. Before(lock, r)
    BY <1>1, <1>2, <1>3 DEF Before, Bounds
<1>. HIDE DEF N
<1>7. Table(K) /\ Elems(K) = Elems(N) \cup {r}
    BY <1>4, <1>5, <1>6, JoinTables
<1>. HIDE DEF K
<1>8. \A k \in Elems(out) : k.owner = L.owner => Before(k, r)
    BY <1>1, <1>2, <1>3 DEF Before, Bounds
<1>9. \A y \in Coming(s, i + 1) : y.owner = L.owner =>
            Before(r, y) /\ Before(lock, y) /\ L.end < y.start
    BY <1>1, <1>2, <1>3 DEF Before, Bounds
<1>10. ASSUME NEW b \in Bytes, NEW ty \in Types \ {"F_UNLCK"}
       PROVE  Covered(Elems(K), L.owner, b, ty)
                <=> IF Within(L, b) THEN ty = L.type
                    ELSE Has(lock, L.owner, b, ty) \/ Has(l, L.owner, b, ty)
    <2>1. Covered(Elems(N) \cup {r}, L.owner, b, ty)
            <=> Covered(Elems(N), L.owner, b, ty) \/ Has(r, L.owner, b, ty)
        BY CoveredOne, CoveredUnion
    <2>2. Covered(Elems(K), L.owner, b, ty)
            <=> Has(lock, L.owner, b, ty) \/ Has(r, L.owner, b, ty)
        BY <1>5, <1>7, <2>1
    <2>3. b \in Int
        BY LocksAssumption DEF Bytes
    <2>4. Within(L, b) => (Has(lock, L.owner, b, ty) <=> ty = L.type)
        BY <1>1, <2>3 DEF Within, Has, Bounds
    <2>5. Has(r, L.owner, b, ty) => ~ Within(L, b) /\ Has(l, L.owner, b, ty)
        BY <1>1, <1>2, <1>3, <2>3 DEF Within, Has, Bounds
    <2>6. Has(l, L.owner, b, ty) => Has(r, L.owner, b, ty) \/ Within(L, b)
        BY <1>1, <1>2, <1>3, <2>3 DEF Within, Has, Bounds
    <2>. QED  BY <2>2, <2>4, <2>5, <2>6
<1>. QED  BY <1>1, <1>3, <1>5, <1>7, <1>8, <1>9, <1>10 DEF Step, K, N, r, l

\* The lock goes into the middle of l, and the loop ends.
LEMMA StepSplit ==
    ASSUME NEW s, NEW i, NEW L, NEW out, NEW lock, OwnTurn(s, i, L, out, lock),
           s[i + 1].type # lock.type,
           s[i + 1].start < lock.start, lock.end < s[i + 1].end
    PROVE  Step(s, L, out, lock, s[i + 1], i,
                <<CutOf(lock, s[i + 1])>> \o New(lock) \o <<RestOf(lock, s[i + 1])>>,
                lock, TRUE)
<1>. DEFINE l == s[i + 1]
            c == CutOf(lock, l)
            r == RestOf(lock, l)
            N == New(lock)
            M == <<c>> \o N
            K == M \o <<r>>
<1>1. /\ Entry(l) /\ InFile(lock) /\ InFile(L)
      /\ Bounds(l) /\ Bounds(lock) /\ Bounds(L)
      /\ l.owner = L.owner /\ lock.owner = L.owner /\ lock.type = L.type
      /\ lock.start <= L.start /\ L.end <= lock.end
      /\ lock.start = L.start \/ L.start <= l.start
      /\ lock.end = L.end \/ lock.end < l.start
      /\ \A k \in Elems(out) : /\ k.end \in Int
                               /\ k.owner = L.owner => Before(k, l) /\ Before(k, lock)
      /\ \A y \in Coming(s, i + 1) : Bounds(y) /\ (y.owner = L.owner => Before(l, y))
    BY OwnFacts
<1>2. /\ l.type # lock.type /\ l.start < lock.start /\ lock.end < l.end
    OBVIOUS
<1>. HIDE DEF l
<1>3. /\ Entry(c) /\ c.owner = l.owner /\ c.type = l.type
      /\ c.start = l.start /\ c.end = lock.start - 1 /\ Bounds(c)
      /\ Entry(r) /\ r.owner = l.owner /\ r.type = l.type
      /\ r.start = lock.end + 1 /\ r.end = l.end /\ Bounds(r)
    BY <1>1, <1>2, CutRight, RestRight
<1>. HIDE DEF c, r
<1>4. /\ Table(<<c>>) /\ Elems(<<c>>) = {c}
      /\ Table(<<r>>) /\ Elems(<<r>>) = {r}
    BY <1>3, OneEntry
<1>5. /\ Table(N) /\ \A x \in Elems(N) : x = lock
      /\ \A b : \A ty \in Types \ {"F_UNLCK"} :
             Covered(Elems(N), L.owner, b, ty) <=> Has(lock, L.owner, b, ty)
    BY <1>1, NewEntry
<1>6. Before(c, lock) /\ Before(lock, r) /\ Before(c, r)
    BY <1>1, <1>2, <1>3 DEF Before, Bounds
<1>. HIDE DEF N
<1>7. Table(M) /\ Elems(M) = {c} \cup Elems(N)
    <2>1. \A k \in Elems(<<c>>), x \in Elems(N) : k.owner = x.owner => Before(k, x)
        BY <1>4, <1>5, <1>6
    <2>. QED  BY <1>4, <1>5, <2>1, JoinTables
<1>. HIDE DEF M
<1>8. Table(K) /\ Elems(K) = Elems(M) \cup {r}
    BY <1>4, <1>5, <1>6, <1>7, JoinTables
<1>. HIDE DEF K
<1>9. \A k \in Elems(out) : k.owner = L.owner => Before(k, r) /\ Before(k, c)
    BY <1>1, <1>2, <1>3 DEF Before, Bounds
<1>10. \A y \in Coming(s, i + 1) : y.owner = L.owner =>
            Before(r, y) /\ Before(lock, y) /\ Before(c, y) /\ L.end < y.start
    BY <1>1, <1>2, <1>3 DEF Before, Bounds
<1>11. ASSUME NEW b \in Bytes, NEW ty \in Types \ {"F_UNLCK"}
       PROVE  Covered(Elems(K), L.owner, b, ty)
                <=> IF Within(L, b) THEN ty = L.type
                    ELSE Has(lock, L.owner, b, ty) \/ Has(l, L.owner, b, ty)
    <2>1. Covered(Elems(M) \cup {r}, L.owner, b, ty)
            <=> Covered(Elems(M), L.owner, b, ty) \/ Has(r, L.owner, b, ty)
        BY CoveredOne, CoveredUnion
    <2>2. Covered({c} \cup Elems(N), L.owner, b, ty)
            <=> Has(c, L.owner, b, ty) \/ Covered(Elems(N), L.owner, b, ty)
        BY CoveredOne, CoveredUnion
    <2>3. Covered(Elems(K), L.owner, b, ty)
            <=> \/ Has(lock, L.owner, b, ty) \/ Has(r, L.owner, b, ty)
                \/ Has(c, L.owner, b, ty)
        BY <1>5, <1>7, <1>8, <2>1, <2>2
    <2>4. b \in Int
        BY LocksAssumption DEF Bytes
    <2>5. Within(L, b) => (Has(lock, L.owner, b, ty) <=> ty = L.type)
        BY <1>1, <2>4 DEF Within, Has, Bounds
    <2>6. Has(r, L.owner, b, ty) \/ Has(c, L.owner, b, ty)
            => ~ Within(L, b) /\ Has(l, L.owner, b, ty)
        BY <1>1, <1>2, <1>3, <2>4 DEF Within, Has, Bounds
    <2>7. Has(l, L.owner, b, ty)
            => Has(r, L.owner, b, ty) \/ Has(c, L.owner, b, ty) \/ Within(L, b)
        BY <1>1, <1>2, <1>3, <2>4 DEF Within, Has, Bounds
    <2>. QED  BY <2>3, <2>5, <2>6, <2>7
<1>. QED  BY <1>1, <1>3, <1>5, <1>7, <1>8, <1>9, <1>10, <1>11 DEF Step, K, M, N, r, c, l

(***************************************************************************)
(* POSIX locks: the loop of locks_insert                                   *)
(***************************************************************************)
Acc(out, lock, fin) == [out |-> out, lock |-> lock, done |-> fin]
AccInv(s, L, a, i) ==
    \E out, lock, fin : a = Acc(out, lock, fin) /\ TurnInv(s, L, out, lock, fin, i)

\* The outcomes of a turn.
TurnIs(t, out, lock, fin, l) ==
    LET open == ~ fin /\ l.owner = lock.owner
    IN  /\ ~ open => t = Acc(out \o <<l>>, lock, fin)
        /\ open /\ l.type = lock.type =>
             /\ l.end < lock.start - 1 => t = Acc(out \o <<l>>, lock, fin)
             /\ ~ (l.end < lock.start - 1) /\ lock.end < l.start - 1 =>
                   t = Acc(out \o (New(lock) \o <<l>>), lock, TRUE)
             /\ ~ (l.end < lock.start - 1) /\ ~ (lock.end < l.start - 1) =>
                  /\ l.start <= lock.start /\ lock.end <= l.end =>
                        t = Acc(out \o <<l>>, lock, TRUE)
                  /\ ~ (l.start <= lock.start /\ lock.end <= l.end) =>
                        t = Acc(out, MergedOf(lock, l), fin)
        /\ open /\ l.type # lock.type =>
             /\ l.end < lock.start => t = Acc(out \o <<l>>, lock, fin)
             /\ ~ (l.end < lock.start) /\ lock.end < l.start =>
                   t = Acc(out \o (New(lock) \o <<l>>), lock, TRUE)
             /\ ~ (l.end < lock.start) /\ ~ (lock.end < l.start) =>
                  /\ lock.start <= l.start /\ l.end <= lock.end =>
                        t = Acc(out, lock, fin)
                  /\ ~ (lock.start <= l.start /\ l.end <= lock.end) =>
                       /\ l.end <= lock.end =>
                             t = Acc(out \o <<CutOf(lock, l)>>, lock, fin)
                       /\ ~ (l.end <= lock.end) =>
                            /\ lock.start <= l.start =>
                                 t = Acc(out \o (New(lock) \o <<RestOf(lock, l)>>),
                                         lock, TRUE)
                            /\ ~ (lock.start <= l.start) =>
                                 t = Acc(out \o (<<CutOf(lock, l)>> \o New(lock)
                                                  \o <<RestOf(lock, l)>>), lock, TRUE)

LEMMA TurnForms ==
    ASSUME NEW out, NEW lock, NEW fin, NEW l
    PROVE  TurnIs(Turn(Acc(out, lock, fin), l), out, lock, fin, l)
BY DEF TurnIs, Turn, Acc, New, MergedOf, CutOf, RestOf

LEMMA TurnOn ==
    ASSUME NEW s, Table(s), NEW i \in 0..(Len(s) - 1), NEW L, InFile(L),
           NEW a, AccInv(s, L, a, i)
    PROVE  AccInv(s, L, Turn(a, s[i + 1]), i + 1)
<1>1. PICK out, lock, fin : a = Acc(out, lock, fin) /\ TurnInv(s, L, out, lock, fin, i)
    BY DEF AccInv
<1>. DEFINE l == s[i + 1]
            t == Turn(a, l)
<1>2. fin \in BOOLEAN /\ lock.owner = L.owner
    BY <1>1 DEF TurnInv
<1>5. TurnIs(t, out, lock, fin, l)
    BY <1>1, TurnForms
<1>6. SUFFICES AccInv(s, L, t, i + 1)
    OBVIOUS
<1>. HIDE DEF l, t
<1>3. CASE fin \/ l.owner # L.owner
    <2>1. t = Acc(out \o <<l>>, lock, fin)
        BY <1>5, <1>2, <1>3 DEF TurnIs
    <2>2. TurnInv(s, L, out \o <<l>>, lock, fin, i + 1)
        BY <1>1, <1>3, StaysOn DEF l
    <2>. QED  BY <2>1, <2>2 DEF AccInv
<1>4. CASE ~ (fin \/ l.owner # L.owner)
    <2>1. fin = FALSE /\ l.owner = L.owner
        BY <1>2, <1>4
    <2>2. OwnTurn(s, i, L, out, lock)
        BY <1>1, <2>1 DEF OwnTurn, l
    <2>3. Bounds(l) /\ Bounds(lock)
        BY <2>2, OwnFacts DEF l
    <2>4. ASSUME NEW K, NEW lock2, NEW fin2, Step(s, L, out, lock, l, i, K, lock2, fin2)
          PROVE  TurnInv(s, L, out \o K, lock2, fin2, i + 1)
        BY <1>1, <2>1, <2>4, StepOn DEF l
    <2>5. ASSUME NEW K, NEW lock2, NEW fin2, Step(s, L, out, lock, l, i, K, lock2, fin2),
                 t = Acc(out \o K, lock2, fin2)
          PROVE  AccInv(s, L, t, i + 1)
        BY <2>4, <2>5 DEF AccInv
    <2>6. out \o <<>> = out
        BY <1>1 DEF TurnInv, Table
    <2>7. CASE l.type = lock.type
        <3>1. CASE l.end < lock.start - 1
            <4>1. t = Acc(out \o <<l>>, lock, FALSE)
                BY <1>5, <1>2, <2>1, <2>7, <3>1 DEF TurnIs
            <4>2. Step(s, L, out, lock, l, i, <<l>>, lock, FALSE)
                BY <2>2, <2>7, <3>1, StepSkip DEF l
            <4>. QED  BY <2>5, <4>1, <4>2
        <3>2. CASE ~ (l.end < lock.start - 1) /\ lock.end < l.start - 1
            <4>1. t = Acc(out \o (New(lock) \o <<l>>), lock, TRUE)
                BY <1>5, <1>2, <2>1, <2>7, <3>2 DEF TurnIs
            <4>2. Step(s, L, out, lock, l, i, New(lock) \o <<l>>, lock, TRUE)
                BY <2>2, <2>7, <3>2, StepInFront DEF l
            <4>. QED  BY <2>5, <4>1, <4>2
        <3>3. CASE /\ ~ (l.end < lock.start - 1) /\ ~ (lock.end < l.start - 1)
                   /\ l.start <= lock.start /\ lock.end <= l.end
            <4>1. t = Acc(out \o <<l>>, lock, TRUE)
                BY <1>5, <1>2, <2>1, <2>7, <3>3 DEF TurnIs
            <4>2. Step(s, L, out, lock, l, i, <<l>>, lock, TRUE)
                BY <2>2, <2>7, <3>3, StepInside DEF l
            <4>. QED  BY <2>5, <4>1, <4>2
        <3>4. CASE /\ ~ (l.end < lock.start - 1) /\ ~ (lock.end < l.start - 1)
                   /\ ~ (l.start <= lock.start /\ lock.end <= l.end)
            <4>1. t = Acc(out \o <<>>, MergedOf(lock, l), FALSE)
                BY <1>5, <1>2, <2>1, <2>6, <2>7, <3>4 DEF TurnIs
            <4>2. Step(s, L, out, lock, l, i, <<>>, MergedOf(lock, l), FALSE)
                BY <2>2, <2>7, <3>4, StepMerge DEF l
            <4>. QED  BY <2>5, <4>1, <4>2
        <3>. QED  BY <3>1, <3>2, <3>3, <3>4
    <2>8. CASE l.type # lock.type
        <3>1. CASE l.end < lock.start
            <4>1. t = Acc(out \o <<l>>, lock, FALSE)
                BY <1>5, <1>2, <2>1, <2>8, <3>1 DEF TurnIs
            <4>2. Step(s, L, out, lock, l, i, <<l>>, lock, FALSE)
                BY <2>2, <2>8, <3>1, StepSkip DEF l
            <4>. QED  BY <2>5, <4>1, <4>2
        <3>2. CASE ~ (l.end < lock.start) /\ lock.end < l.start
            <4>1. t = Acc(out \o (New(lock) \o <<l>>), lock, TRUE)
                BY <1>5, <1>2, <2>1, <2>8, <3>2 DEF TurnIs
            <4>2. Step(s, L, out, lock, l, i, New(lock) \o <<l>>, lock, TRUE)
                BY <2>2, <2>8, <3>2, StepInFront DEF l
            <4>. QED  BY <2>5, <4>1, <4>2
        <3>3. CASE /\ ~ (l.end < lock.start) /\ ~ (lock.end < l.start)
                   /\ lock.start <= l.start /\ l.end <= lock.end
            <4>1. t = Acc(out \o <<>>, lock, FALSE)
                BY <1>5, <1>2, <2>1, <2>6, <2>8, <3>3 DEF TurnIs
            <4>2. Step(s, L, out, lock, l, i, <<>>, lock, FALSE)
                BY <2>2, <3>3, StepGone DEF l
            <4>. QED  BY <2>5, <4>1, <4>2
        <3>4. CASE /\ ~ (l.end < lock.start) /\ ~ (lock.end < l.start)
                   /\ ~ (lock.start <= l.start) /\ l.end <= lock.end
            <4>1. t = Acc(out \o <<CutOf(lock, l)>>, lock, FALSE)
                BY <1>5, <1>2, <2>1, <2>8, <3>4 DEF TurnIs
            <4>3. l.start < lock.start
                BY <2>3, <3>4 DEF Bounds
            <4>2. Step(s, L, out, lock, l, i, <<CutOf(lock, l)>>, lock, FALSE)
                BY <2>2, <2>8, <3>4, <4>3, StepCut DEF l
            <4>. QED  BY <2>5, <4>1, <4>2
        <3>5. CASE /\ ~ (l.end < lock.start) /\ ~ (lock.end < l.start)
                   /\ lock.start <= l.start /\ ~ (l.end <= lock.end)
            <4>. DEFINE K == New(lock) \o <<RestOf(lock, l)>>
            <4>1. t = Acc(out \o K, lock, TRUE)
                BY <1>5, <1>2, <2>1, <2>8, <3>5 DEF TurnIs
            <4>3. lock.end < l.end
                BY <2>3, <3>5 DEF Bounds
            <4>2. Step(s, L, out, lock, l, i, K, lock, TRUE)
                BY <2>2, <2>8, <3>5, <4>3, StepRest DEF l
            <4>. QED  BY <2>5, <4>1, <4>2
        <3>6. CASE /\ ~ (l.end < lock.start) /\ ~ (lock.end < l.start)
                   /\ ~ (lock.start <= l.start) /\ ~ (l.end <= lock.end)
            <4>. DEFINE K == <<CutOf(lock, l)>> \o New(lock) \o <<RestOf(lock, l)>>
            <4>1. t = Acc(out \o K, lock, TRUE)
                BY <1>5, <1>2, <2>1, <2>8, <3>6 DEF TurnIs
            <4>3. l.start < lock.start /\ lock.end < l.end
                BY <2>3, <3>6 DEF Bounds
            <4>2. Step(s, L, out, lock, l, i, K, lock, TRUE)
                BY <2>2, <2>8, <3>6, <4>3, StepSplit DEF l
            <4>. QED  BY <2>5, <4>1, <4>2
        <3>. QED  BY <3>1, <3>2, <3>3, <3>4, <3>5, <3>6
    <2>. QED  BY <2>7, <2>8
<1>. QED  BY <1>3, <1>4

TurnsTo(f, s, L, n) ==
    f = [i \in 0..n |-> IF i = 0 THEN Acc(<<>>, L, FALSE) ELSE Turn(f[i - 1], s[i])]

\* By the least counterexample: every list has its turns.
LEMMA TurnsExist ==
    ASSUME NEW s, Len(s) \in Nat, NEW L
    PROVE  \A n \in 0..Len(s) : \E f : TurnsTo(f, s, L, n)
<1>. DEFINE Can(n) == \E f : TurnsTo(f, s, L, n)
            Bad == {n \in 0..Len(s) : ~ Can(n)}
<1>1. SUFFICES ASSUME Bad # {} PROVE FALSE
    OBVIOUS
<1>2. Bad \subseteq Nat
    OBVIOUS
<1>. HIDE DEF Bad
<1>3. PICK n \in Bad : \A m \in Bad : ~(m < n)
    BY <1>1, <1>2, LeastNat
<1>. USE DEF Bad
<1>. HIDE DEF Can
<1>4. n \in 0..Len(s) /\ ~ Can(n)
    OBVIOUS
<1>5. CASE n = 0
    <2>. DEFINE f == [i \in 0..0 |-> Acc(<<>>, L, FALSE)]
    <2>1. TurnsTo(f, s, L, 0)
        BY DEF TurnsTo
    <2>. QED  BY <2>1, <1>4, <1>5 DEF Can
<1>6. CASE n # 0
    <2>1. n - 1 \in 0..Len(s) /\ n - 1 < n
        BY <1>4, <1>6
    <2>2. PICK f : TurnsTo(f, s, L, n - 1)
        BY <2>1, <1>3 DEF Can
    <2>. DEFINE g == [i \in 0..n |-> IF i = n THEN Turn(f[n - 1], s[n]) ELSE f[i]]
    <2>3. ASSUME NEW i \in 0..n
          PROVE  g[i] = IF i = 0 THEN Acc(<<>>, L, FALSE) ELSE Turn(g[i - 1], s[i])
        <3>1. CASE i = n
            <4>1. g[n] = Turn(f[n - 1], s[n]) /\ g[n - 1] = f[n - 1]
                BY <1>4, <1>6
            <4>. QED  BY <3>1, <4>1, <1>6
        <3>2. CASE i # n
            <4>1. i \in 0..(n - 1) /\ g[i] = f[i] /\ (i # 0 => g[i - 1] = f[i - 1])
                BY <3>2, <1>4
            <4>2. f[i] = IF i = 0 THEN Acc(<<>>, L, FALSE) ELSE Turn(f[i - 1], s[i])
                BY <2>2, <4>1 DEF TurnsTo
            <4>. HIDE DEF g
            <4>. QED  BY <4>1, <4>2
        <3>. QED  BY <3>1, <3>2
    <2>4. TurnsTo(g, s, L, n)
        BY <2>3 DEF TurnsTo
    <2>. QED  BY <2>4, <1>4 DEF Can
<1>. QED  BY <1>5, <1>6

LEMMA FirstTurn ==
    ASSUME NEW s, Table(s), NEW L, InFile(L)
    PROVE  TurnInv(s, L, <<>>, L, FALSE, 0)
<1>1. Past(s, 0) = {}
    BY DEF Past
<1>2. Elems(<<>>) = {} /\ Table(<<>>)
    BY NoEntries
<1>3. \A o, b, ty : ~ Covered({}, o, b, ty)
    BY DEF Covered
<1>4. L.start \in Int /\ L.end \in Int
    BY LockFields DEF InFile
<1>5. OwnRight(L, {}, L, ~ FALSE, {})
    BY <1>3 DEF OwnRight, Has, Within
<1>6. OthersRight(L, {}, {})
    BY DEF OthersRight
<1>7. \A k \in Elems(<<>>) : FALSE
    BY <1>2
<1>8. \A l \in Coming(s, 0) : L.start = L.start /\ L.end = L.end
    OBVIOUS
<1>9. L.start <= L.start /\ L.end <= L.end
    BY <1>4
<1>. QED  BY <1>1, <1>2, <1>5, <1>6, <1>7, <1>8, <1>9 DEF TurnInv

LEMMA TurnsRight ==
    ASSUME NEW s, Table(s), NEW L, InFile(L), NEW f, TurnsTo(f, s, L, Len(s))
    PROVE  \A i \in 0..Len(s) : AccInv(s, L, f[i], i)
<1>. DEFINE Bad == {i \in 0..Len(s) : ~ AccInv(s, L, f[i], i)}
<1>0. Len(s) \in Nat
    BY TableEntries
<1>1. SUFFICES ASSUME Bad # {} PROVE FALSE
    OBVIOUS
<1>2. Bad \subseteq Nat
    BY <1>0
<1>. HIDE DEF Bad
<1>3. PICK i \in Bad : \A y \in Bad : ~(y < i)
    BY <1>1, <1>2, LeastNat
<1>. USE DEF Bad
<1>4. i \in 0..Len(s) /\ ~ AccInv(s, L, f[i], i)
    OBVIOUS
<1>5. CASE i = 0
    <2>1. f[0] = Acc(<<>>, L, FALSE)
        BY <1>4, <1>5 DEF TurnsTo
    <2>. QED  BY <1>4, <1>5, <2>1, FirstTurn DEF AccInv
<1>6. CASE i # 0
    <2>. DEFINE j == i - 1
    <2>1. j \in 0..Len(s) /\ j < i /\ j \in 0..(Len(s) - 1) /\ j + 1 = i
        BY <1>0, <1>4, <1>6
    <2>2. AccInv(s, L, f[j], j)
        BY <2>1, <1>3
    <2>3. f[i] = Turn(f[j], s[i])
        BY <1>4, <1>6 DEF TurnsTo
    <2>. HIDE DEF j
    <2>4. AccInv(s, L, Turn(f[j], s[j + 1]), j + 1)
        BY <2>1, <2>2, TurnOn
    <2>. QED  BY <1>4, <2>1, <2>3, <2>4
<1>. QED  BY <1>5, <1>6

\* The table r has the lock L, and else what s had.
Inserted(s, L, r) ==
    /\ Table(r)
    /\ \A b \in Bytes, ty \in Types \ {"F_UNLCK"} :
          Covered(Elems(r), L.owner, b, ty)
            <=> IF Within(L, b) THEN ty = L.type ELSE Covered(Elems(s), L.owner, b, ty)
    /\ OthersRight(L, Elems(r), Elems(s))

\* The table that the last turn leaves.
Left(L, out, lock, fin) == IF fin \/ L.type = "F_UNLCK" THEN out ELSE out \o <<lock>>

LEMMA TurnsEnd ==
    ASSUME NEW s, Table(s), NEW L, InFile(L), NEW out, NEW lock, NEW fin,
           TurnInv(s, L, out, lock, fin, Len(s))
    PROVE  Inserted(s, L, Left(L, out, lock, fin))
<1>1. Past(s, Len(s)) = Elems(s)
    BY TableEntries DEF Past, Elems
<1>2. /\ Table(out) /\ fin \in BOOLEAN /\ InFile(lock) /\ lock.type = L.type
      /\ lock.owner = L.owner
      /\ OwnRight(L, Elems(out), lock, ~ fin, Elems(s))
      /\ OthersRight(L, Elems(out), Elems(s))
      /\ ~ fin => \A k \in Elems(out) : k.owner = L.owner => Before(k, lock)
    BY <1>1 DEF TurnInv
<1>3. CASE fin \/ L.type = "F_UNLCK"
    <2>1. ASSUME NEW b \in Bytes, NEW ty \in Types \ {"F_UNLCK"}
          PROVE  ~ (~ fin /\ Has(lock, L.owner, b, ty))
        BY <1>2, <1>3 DEF Has
    <2>2. Inserted(s, L, out)
        BY <1>2, <2>1 DEF OwnRight, Inserted
    <2>. QED  BY <1>3, <2>2 DEF Left
<1>4. CASE ~ fin /\ L.type # "F_UNLCK"
    <2>. DEFINE r == out \o <<lock>>
    <2>1. Table(<<lock>>) /\ Elems(<<lock>>) = {lock}
        BY <1>2, <1>4, OneEntry DEF Entry
    <2>2. \A k \in Elems(out), x \in Elems(<<lock>>) : k.owner = x.owner => Before(k, x)
        BY <1>2, <1>4, <2>1
    <2>3. Table(r) /\ Elems(r) = Elems(out) \cup {lock}
        BY <1>2, <2>1, <2>2, JoinTables
    <2>. HIDE DEF r
    <2>4. ASSUME NEW o, NEW b, NEW ty
          PROVE  Covered(Elems(r), o, b, ty)
                    <=> Covered(Elems(out), o, b, ty) \/ Has(lock, o, b, ty)
        BY <2>3, CoveredOne, CoveredUnion
    <2>5. \A b \in Bytes, ty \in Types \ {"F_UNLCK"} :
              Covered(Elems(r), L.owner, b, ty)
                <=> IF Within(L, b) THEN ty = L.type ELSE Covered(Elems(s), L.owner, b, ty)
        BY <1>2, <1>4, <2>4 DEF OwnRight
    <2>6. OthersRight(L, Elems(r), Elems(s))
        BY <1>2, <2>4 DEF OthersRight, Has
    <2>7. Inserted(s, L, r)
        BY <2>3, <2>5, <2>6 DEF Inserted
    <2>. QED  BY <1>4, <2>7 DEF r, Left
<1>. QED  BY <1>2, <1>3, <1>4

\* What locks_insert promises.
LEMMA InsertRight ==
    ASSUME Table(locks), NEW L, InFile(L)
    PROVE  Inserted(locks, L, locks_insert(L))
<1>. DEFINE n == Len(locks)
            f == CHOOSE g : TurnsTo(g, locks, L, n)
            a == Turns(locks, L)
<1>1. n \in Nat
    BY TableEntries
<1>2. a = f[n]
    BY DEF Turns, TurnsTo, Acc
<1>3. TurnsTo(f, locks, L, n)
    BY <1>1, TurnsExist
<1>. HIDE DEF f, a
<1>4. AccInv(locks, L, f[n], n)
    BY <1>1, <1>3, TurnsRight
<1>5. PICK out, lock, fin : a = Acc(out, lock, fin) /\ TurnInv(locks, L, out, lock, fin, n)
    BY <1>2, <1>4 DEF AccInv
<1>6. Inserted(locks, L, Left(L, out, lock, fin))
    BY <1>5, TurnsEnd
<1>7. a.out = out /\ a.lock = lock /\ a.done = fin
    BY <1>5 DEF Acc
<1>. QED  BY <1>6, <1>7 DEF locks_insert, Left, a

(***************************************************************************)
(* POSIX locks: the protocol keeps its invariant                           *)
(***************************************************************************)
\* A lock that goes out as a length comes back as it was.
LEMMA RoundTrip ==
    ASSUME NEW l, InFile(l)
    PROVE  flock_to_lock(lock_to_flock(l), l.owner) = l
<1>1. /\ l \in LockRec /\ l.start <= l.end
      /\ l = [owner |-> l.owner, type |-> l.type, start |-> l.start, end |-> l.end]
      /\ l.start \in Int /\ l.end \in Int
    BY LockFields DEF InFile, LockRec
<1>. DEFINE f == lock_to_flock(l)
            e == IF f.len = 0 THEN OFFSET_MAX ELSE f.start + f.len - 1
<1>2. /\ f.type = l.type /\ f.start = l.start
      /\ f.len = IF l.end = OFFSET_MAX THEN 0 ELSE l.end - l.start + 1
    BY DEF lock_to_flock
<1>. HIDE DEF f
<1>3. e = l.end
    BY <1>1, <1>2, LocksAssumption
<1>4. flock_to_lock(f, l.owner)
        = [owner |-> l.owner, type |-> l.type, start |-> l.start, end |-> e]
    BY <1>2 DEF flock_to_lock
<1>. HIDE DEF e
<1>. QED  BY <1>1, <1>3, <1>4 DEF f

LEMMA SentSame ==
    ASSUME LocksTypeOK, NEW t \in Lockers, NEW type \in Types, NEW r \in Ranges
    PROVE  LET l == [owner |-> ownerOf[t], type |-> type, start |-> r[1], end |-> r[2]]
           IN  Sent(t, type, r) = l /\ InFile(l)
<1>. DEFINE l == [owner |-> ownerOf[t], type |-> type, start |-> r[1], end |-> r[2]]
<1>1. r[1] \in Bytes /\ r[2] \in Bytes /\ r[1] <= r[2]
    BY DEF Ranges
<1>2. r[1] \in Int /\ r[2] \in Int
    BY <1>1, LocksAssumption DEF Bytes
<1>3. l \in LockRec
    BY <1>1 DEF LockRec, LocksTypeOK, Owners
<1>4. Sent(t, type, r) = flock_to_lock(lock_to_flock(l), l.owner)
    BY DEF Sent, convert_fuse_file_lock, lock_to_flock, flock_to_lock
<1>5. InFile(l)
    BY <1>1, <1>3 DEF InFile
<1>. QED  BY <1>4, <1>5, RoundTrip

LEMMA WholeRight ==
    ASSUME NEW o \in Owners
    PROVE  LET w == WholeFile(o)
           IN  /\ w = [owner |-> o, type |-> "F_UNLCK", start |-> 0, end |-> OFFSET_MAX]
               /\ InFile(w) /\ \A b \in Bytes : Within(w, b)
BY LocksAssumption DEF WholeFile, flock_to_lock, WholeUnlock, InFile, LockRec, Types,
   Bytes, Within

LEMMA BytesInts == \A b \in Bytes : b \in Int /\ 0 <= b /\ b <= OFFSET_MAX
BY LocksAssumption DEF Bytes

LEMMA PendingAt ==
    ASSUME LocksTypeOK, NEW o
    PROVE  /\ Pending(o) = {u \in Lockers : ownerOf[u] = o /\ lkcall[u].at \in Busy}
           /\ \A u \in Lockers : lkcall[u].at = "idle" \/ lkcall[u].at \in Busy
           /\ \A u \in Pending(o) : lkcall[u] \in Inserting \cup Flushing
BY DEF LocksTypeOK, Pending, Inserting, Flushing, IdleCall, Busy

\* A call that begins: lock l of the owner of t is granted.
LEMMA BeginKeeps ==
    ASSUME LocksInv, NEW t \in Lockers, NEW l, NEW c,
           lkcall[t].at = "idle", InFile(l), l.owner = ownerOf[t],
           c \in Inserting \cup Flushing, c.lock = l, c.after = Pending(ownerOf[t]),
           lkcall' = [lkcall EXCEPT ![t] = c], held' = fs_lock(l),
           locks' = locks, ownerOf' = ownerOf
    PROVE  /\ held' \in [Owners -> [Bytes -> Types]]
           /\ lkcall' \in [Lockers -> {IdleCall} \cup Inserting \cup Flushing]
           /\ Pending(ownerOf[t])' = Pending(ownerOf[t]) \cup {t}
           /\ t \notin Pending(ownerOf[t])
           /\ \A u \in Lockers \ {t} : lkcall'[u] = lkcall[u]
           /\ \A q \in Owners \ {ownerOf[t]} : Pending(q)' = Pending(q) /\ held'[q] = held[q]
           /\ \A q \in Owners \ raced : HeldRight(q)'
           /\ \A u \in Lockers \ {t} : CallRight(u)'
           /\ lkcall'[t] = c
<1>. DEFINE o == ownerOf[t]
<1>0. /\ LocksTypeOK /\ lkcall \in [Lockers -> {IdleCall} \cup Inserting \cup Flushing]
      /\ held \in [Owners -> [Bytes -> Types]] /\ o \in Owners
      /\ ownerOf \in [Lockers -> Owners]
    BY DEF LocksInv, LocksTypeOK
<1>1. l \in LockRec /\ l.type \in Types /\ l.start \in Int /\ l.end \in Int
    BY LockFields DEF InFile
<1>2. held' \in [Owners -> [Bytes -> Types]]
    BY <1>0, <1>1 DEF fs_lock
<1>3. /\ lkcall' \in [Lockers -> {IdleCall} \cup Inserting \cup Flushing]
      /\ lkcall'[t] = c /\ \A u \in Lockers \ {t} : lkcall'[u] = lkcall[u]
    BY <1>0
<1>4. c.at \in Busy /\ c.at # "idle"
    BY DEF Inserting, Flushing, Busy
<1>5. Pending(o)' = Pending(o) \cup {t} /\ t \notin Pending(o)
    BY <1>3, <1>4 DEF Pending
<1>6. \A q \in Owners \ {o} : Pending(q)' = Pending(q)
    BY <1>3 DEF Pending
<1>7. \A q \in Owners \ {o} : held'[q] = held[q]
    BY <1>0, <1>1 DEF fs_lock
<1>8. \A b \in Bytes : held'[o][b] = IF Within(l, b) THEN l.type ELSE held[o][b]
    BY <1>0, <1>1, BytesInts DEF fs_lock, Within
<1>9. ASSUME NEW u \in Lockers \ {t} PROVE CallRight(u)'
    <2>1. CallRight(u) /\ lkcall'[u] = lkcall[u] /\ ownerOf[u] \in Owners
        BY <1>0, <1>3 DEF LocksInv
    <2>2. Pending(ownerOf[u]) \subseteq Pending(ownerOf[u])'
        BY <1>5, <1>6, <2>1
    <2>. QED  BY <2>1, <2>2 DEF CallRight
<1>10. \A b : Touches(t, b)' <=> Within(l, b)
    BY <1>3 DEF Touches, Within
<1>11. \A u \in Lockers \ {t}, b \in Bytes : Touches(u, b)' <=> Touches(u, b)
    BY <1>3 DEF Touches
<1>12. ASSUME NEW q \in Owners \ raced PROVE HeldRight(q)'
    <2>1. HeldRight(q)
        BY DEF LocksInv
    <2>2. CASE q # o
        <3>1. t \notin Pending(q) /\ Pending(q)' = Pending(q) /\ held'[q] = held[q]
            BY <1>6, <1>7, <2>2 DEF Pending
        <3>2. \A u \in Pending(q) : u \in Lockers \ {t} /\ lkcall'[u] = lkcall[u]
            BY <1>3, <3>1 DEF Pending
        <3>3. \A u \in Lockers, b \in Bytes : LastFor(u, q, b)' => LastFor(u, q, b)
            BY <1>11, <3>1, <3>2 DEF LastFor
        <3>4. \A u \in Lockers, b \in Bytes : LastFor(u, q, b) => u \in Pending(q)
            BY DEF LastFor
        <3>5. \A u \in Pending(q), b \in Bytes : Touches(u, b)' <=> Touches(u, b)
            BY <1>11, <3>2
        <3>. QED  BY <2>1, <3>1, <3>2, <3>3, <3>4, <3>5 DEF HeldRight
    <2>3. CASE q = o
        <3>1. ASSUME NEW b \in Bytes, NEW u \in Lockers, LastFor(u, o, b)'
              PROVE  held'[o][b] = lkcall'[u].lock.type
            <4>1. CASE Within(l, b)
                <5>1. u \in Pending(o)' /\ (u \in Pending(o) => u \notin c.after)
                    BY <1>3, <1>5, <1>10, <3>1, <4>1 DEF LastFor
                <5>2. u = t
                    BY <1>5, <5>1
                <5>. QED  BY <1>3, <1>8, <4>1, <5>2
            <4>2. CASE ~ Within(l, b)
                <5>1. u \in Pending(o)' /\ Touches(u, b)' /\ u # t
                    BY <1>10, <3>1, <4>2 DEF LastFor
                <5>2. u \in Pending(o) /\ Touches(u, b) /\ lkcall'[u] = lkcall[u]
                    BY <1>3, <1>5, <1>11, <5>1
                <5>3. ASSUME NEW v \in Pending(o), Touches(v, b) PROVE u \notin lkcall[v].after
                    <6>1. v \in Lockers \ {t} /\ v \in Pending(o)'
                        BY <1>5 DEF Pending
                    <6>2. lkcall'[v] = lkcall[v] /\ Touches(v, b)'
                        BY <1>3, <1>11, <5>3, <6>1
                    <6>. QED  BY <3>1, <6>1, <6>2 DEF LastFor
                <5>4. LastFor(u, o, b)
                    BY <5>2, <5>3 DEF LastFor
                <5>5. held[o][b] = lkcall[u].lock.type
                    BY <2>1, <2>3, <5>4 DEF HeldRight
                <5>. QED  BY <1>8, <4>2, <5>2, <5>5
            <4>. QED  BY <4>1, <4>2
        <3>2. ASSUME NEW b \in Bytes, \A u \in Pending(o)' : ~ Touches(u, b)',
                     NEW ty \in Types \ {"F_UNLCK"}
              PROVE  held'[o][b] = ty <=> Covered(Elems(locks)', o, b, ty)
            <4>1. ~ Within(l, b)
                BY <1>5, <1>10, <3>2
            <4>2. \A u \in Pending(o) : ~ Touches(u, b)
                <5>1. \A u \in Pending(o) : u \in Lockers \ {t}
                    BY <1>5 DEF Pending
                <5>. QED  BY <1>5, <1>11, <3>2, <5>1
            <4>3. held[o][b] = ty <=> Covered(Elems(locks), o, b, ty)
                BY <2>1, <2>3, <4>2 DEF HeldRight
            <4>4. Elems(locks)' = Elems(locks)
                BY DEF Elems
            <4>. QED  BY <1>8, <4>1, <4>3, <4>4
        <3>. QED  BY <2>3, <3>1, <3>2 DEF HeldRight
    <2>. QED  BY <2>2, <2>3
<1>. QED  BY <1>2, <1>3, <1>5, <1>6, <1>7, <1>9, <1>12

LEMMA SetlkKeeps ==
    ASSUME LocksInv, NEW t \in Lockers, NEW type \in Types, NEW r \in Ranges,
           fuse_setlk(t, type, r)
    PROVE  LocksInv'
<1>. DEFINE o == ownerOf[t]
            l == [owner |-> o, type |-> type, start |-> r[1], end |-> r[2]]
            c == [at |-> "insert", lock |-> l, after |-> Pending(o)]
<1>0. LocksTypeOK
    BY DEF LocksInv
<1>1. Sent(t, type, r) = l /\ InFile(l) /\ l.owner = o
    BY <1>0, SentSame
<1>2. /\ lkcall[t].at = "idle" /\ held' = fs_lock(l) /\ lkcall' = [lkcall EXCEPT ![t] = c]
      /\ locks' = locks /\ ownerOf' = ownerOf /\ no_flush' = no_flush /\ raced' = raced
      /\ closed' = closed \ {o}
    BY <1>1 DEF fuse_setlk
<1>. HIDE DEF l
<1>3. c \in Inserting /\ c.lock = l /\ c.after = Pending(o) /\ c.at = "insert"
    BY <1>1 DEF Inserting, InFile, Pending
<1>. HIDE DEF c
<1>4. /\ held' \in [Owners -> [Bytes -> Types]]
      /\ lkcall' \in [Lockers -> {IdleCall} \cup Inserting \cup Flushing]
      /\ Pending(o)' = Pending(o) \cup {t} /\ t \notin Pending(o)
      /\ \A u \in Lockers \ {t} : lkcall'[u] = lkcall[u]
      /\ \A q \in Owners \ {o} : Pending(q)' = Pending(q) /\ held'[q] = held[q]
      /\ \A q \in Owners \ raced : HeldRight(q)'
      /\ \A u \in Lockers \ {t} : CallRight(u)'
      /\ lkcall'[t] = c
    BY <1>1, <1>2, <1>3, BeginKeeps
<1>5. LocksTypeOK'
    BY <1>0, <1>2, <1>4 DEF LocksTypeOK
<1>6. CallRight(t)'
    BY <1>1, <1>2, <1>3, <1>4 DEF CallRight
<1>7. Table(locks)'
    BY <1>2 DEF LocksInv
<1>8. ASSUME NEW q \in closed' PROVE ClosedRight(q)'
    <2>1. q \in Owners \ {o} /\ ClosedRight(q)
        BY <1>0, <1>2 DEF LocksInv, LocksTypeOK
    <2>2. Pending(q)' = Pending(q) /\ held'[q] = held[q] /\ t \notin Pending(q)
        BY <1>4, <2>1 DEF Pending
    <2>3. \A u \in Pending(q) : lkcall'[u] = lkcall[u]
        BY <1>4, <2>2 DEF Pending
    <2>. QED  BY <1>2, <2>1, <2>2, <2>3 DEF ClosedRight
<1>. QED  BY <1>2, <1>4, <1>5, <1>6, <1>7, <1>8 DEF LocksInv

LEMMA FlushKeeps ==
    ASSUME LocksInv, NEW t \in Lockers, fuse_flush(t)
    PROVE  LocksInv'
<1>. DEFINE o == ownerOf[t]
            l == WholeFile(o)
            err == FlushError(IF hasFlush THEN "ok" ELSE "ENOSYS")
            c == [at |-> "flush", after |-> Pending(o), lock |-> l, err |-> err]
<1>0. LocksTypeOK /\ o \in Owners /\ no_flush = FALSE
    BY DEF LocksInv, LocksTypeOK
<1>1. /\ InFile(l) /\ l.owner = o /\ l.type = "F_UNLCK" /\ \A b \in Bytes : Within(l, b)
      /\ l.start = 0 /\ l.end = OFFSET_MAX
    BY <1>0, WholeRight
<1>2. /\ lkcall[t].at = "idle" /\ held' = fs_lock(l) /\ lkcall' = [lkcall EXCEPT ![t] = c]
      /\ locks' = locks /\ ownerOf' = ownerOf /\ no_flush' = no_flush /\ raced' = raced
      /\ closed' = IF Pending(o) = {} THEN closed \cup {o} ELSE closed
    BY <1>0 DEF fuse_flush, WholeFile
<1>. HIDE DEF l
<1>3. err = "ok"
    BY DEF FlushError
<1>. HIDE DEF err
<1>4. /\ c \in Flushing /\ c.lock = l /\ c.after = Pending(o) /\ c.at = "flush"
    BY <1>1, <1>3 DEF Flushing, InFile, Pending
<1>. HIDE DEF c
<1>5. /\ held' \in [Owners -> [Bytes -> Types]]
      /\ lkcall' \in [Lockers -> {IdleCall} \cup Inserting \cup Flushing]
      /\ Pending(o)' = Pending(o) \cup {t} /\ t \notin Pending(o)
      /\ \A u \in Lockers \ {t} : lkcall'[u] = lkcall[u]
      /\ \A q \in Owners \ {o} : Pending(q)' = Pending(q) /\ held'[q] = held[q]
      /\ \A q \in Owners \ raced : HeldRight(q)'
      /\ \A u \in Lockers \ {t} : CallRight(u)'
      /\ lkcall'[t] = c
    BY <1>1, <1>2, <1>4, BeginKeeps
<1>6. LocksTypeOK'
    BY <1>0, <1>2, <1>5 DEF LocksTypeOK
<1>7. CallRight(t)'
    <2>1. WholeFile(o)' = WholeFile(o)
        BY <1>2 DEF WholeFile, flock_to_lock, WholeUnlock
    <2>. QED  BY <1>1, <1>2, <1>4, <1>5, <2>1 DEF CallRight, l
<1>8. Table(locks)'
    BY <1>2 DEF LocksInv
<1>9. held'[o] = [b \in Bytes |-> "F_UNLCK"]
    <2>1. held' = [held EXCEPT ![o] = [b \in Bytes |-> "F_UNLCK"]]
        BY <1>0, <1>1, <1>2, LocksAssumption DEF fs_lock, Bytes
    <2>. QED  BY <1>0, <2>1 DEF LocksTypeOK
<1>10. ASSUME NEW q \in closed' PROVE ClosedRight(q)'
    <2>1. CASE q = o
        <3>1. \A u \in Pending(o) : lkcall[u].at = "flush"
            BY <1>2, <2>1 DEF LocksInv, ClosedRight
        <3>2. \A u \in Pending(o)' : lkcall'[u].at = "flush"
            BY <1>4, <1>5, <3>1 DEF Pending
        <3>. QED  BY <1>2, <1>5, <1>9, <2>1, <3>2 DEF ClosedRight
    <2>2. CASE q # o
        <3>1. q \in Owners \ {o} /\ ClosedRight(q)
            BY <1>0, <1>2, <2>2 DEF LocksInv, LocksTypeOK
        <3>2. Pending(q)' = Pending(q) /\ held'[q] = held[q] /\ t \notin Pending(q)
            BY <1>5, <3>1 DEF Pending
        <3>3. \A u \in Pending(q) : lkcall'[u] = lkcall[u]
            BY <1>5, <3>2 DEF Pending
        <3>. QED  BY <1>2, <3>1, <3>2, <3>3 DEF ClosedRight
    <2>. QED  BY <2>1, <2>2
<1>. QED  BY <1>2, <1>5, <1>6, <1>7, <1>8, <1>10 DEF LocksInv

\* A call that ends and leaves no other behind it: the table follows it, or
\* the owner is raced.
LEMMA EndKeeps ==
    ASSUME LocksInv, NEW t \in Lockers, lkcall[t].at \in Busy,
           Returned(t), UNCHANGED <<held, ownerOf>>
    PROVE  /\ lkcall' \in [Lockers -> {IdleCall} \cup Inserting \cup Flushing]
           /\ lkcall'[t] = IdleCall
           /\ \A q \in Owners : Pending(q)' = Pending(q) \ {t}
           /\ \A u \in Lockers \ {t} : /\ lkcall'[u].at = lkcall[u].at
                                       /\ lkcall[u].at \in Busy =>
                                            /\ lkcall'[u].lock = lkcall[u].lock
                                            /\ lkcall'[u].after = lkcall[u].after \ {t}
           /\ \A u \in Lockers : CallRight(u)'
<1>0. /\ LocksTypeOK /\ lkcall \in [Lockers -> {IdleCall} \cup Inserting \cup Flushing]
      /\ ownerOf \in [Lockers -> Owners]
    BY DEF LocksInv, LocksTypeOK
<1>. DEFINE g(u) == IF u = t THEN IdleCall
                    ELSE IF lkcall[u].at \in {"insert", "flush"}
                         THEN [lkcall[u] EXCEPT !.after = @ \ {t}] ELSE lkcall[u]
<1>1. lkcall' = [u \in Lockers |-> g(u)]
    BY DEF Returned
<1>2. ASSUME NEW u \in Lockers \ {t}
      PROVE  /\ g(u) \in {IdleCall} \cup Inserting \cup Flushing
             /\ g(u).at = lkcall[u].at
             /\ lkcall[u].at \in Busy => /\ g(u).lock = lkcall[u].lock
                                         /\ g(u).after = lkcall[u].after \ {t}
    <2>1. CASE lkcall[u] = IdleCall
        BY <2>1 DEF IdleCall, Busy
    <2>2. CASE lkcall[u] \in Inserting
        <3>1. g(u) = [lkcall[u] EXCEPT !.after = @ \ {t}]
            BY <2>2 DEF Inserting
        <3>. HIDE DEF g
        <3>. QED  BY <2>2, <3>1 DEF Inserting
    <2>3. CASE lkcall[u] \in Flushing
        <3>1. g(u) = [lkcall[u] EXCEPT !.after = @ \ {t}]
            BY <2>3 DEF Flushing
        <3>. HIDE DEF g
        <3>. QED  BY <2>3, <3>1 DEF Flushing
    <2>. HIDE DEF g
    <2>. QED  BY <1>0, <2>1, <2>2, <2>3
<1>3. g(t) = IdleCall
    OBVIOUS
<1>. HIDE DEF g
<1>4. /\ lkcall' \in [Lockers -> {IdleCall} \cup Inserting \cup Flushing]
      /\ lkcall'[t] = IdleCall
    BY <1>1, <1>2, <1>3
<1>5. \A u \in Lockers \ {t} : /\ lkcall'[u].at = lkcall[u].at
                               /\ lkcall[u].at \in Busy =>
                                    /\ lkcall'[u].lock = lkcall[u].lock
                                    /\ lkcall'[u].after = lkcall[u].after \ {t}
    BY <1>1, <1>2
<1>6. \A q \in Owners : Pending(q)' = Pending(q) \ {t}
    BY <1>4, <1>5 DEF Pending, IdleCall
<1>7. ASSUME NEW u \in Lockers PROVE CallRight(u)'
    <2>1. CASE u = t
        BY <1>4, <2>1 DEF CallRight, IdleCall, Busy
    <2>2. CASE u # t
        <3>1. /\ CallRight(u) /\ ownerOf[u] \in Owners /\ ownerOf'[u] = ownerOf[u]
            BY <1>0 DEF LocksInv
        <3>2. Pending(ownerOf[u])' = Pending(ownerOf[u]) \ {t}
            BY <1>6, <3>1
        <3>3. WholeFile(ownerOf[u])' = WholeFile(ownerOf[u])
            BY DEF WholeFile, flock_to_lock, WholeUnlock
        <3>4. InFile(lkcall[u].lock)' <=> InFile(lkcall'[u].lock)
            BY DEF InFile, LockRec
        <3>. QED  BY <1>5, <2>2, <3>1, <3>2, <3>3, <3>4 DEF CallRight, Busy
    <2>. QED  BY <2>1, <2>2
<1>. QED  BY <1>4, <1>5, <1>6, <1>7

\* Owners other than that of the call.
LEMMA OthersKeep ==
    ASSUME LocksInv, NEW t \in Lockers, lkcall[t].at \in Busy,
           Returned(t), UNCHANGED <<held, ownerOf>>, Table(locks'),
           OthersRight(lkcall[t].lock, Elems(locks)', Elems(locks)),
           NEW q \in Owners \ {ownerOf[t]}
    PROVE  /\ q \notin raced => HeldRight(q)'
           /\ q \in closed => ClosedRight(q)'
<1>0. LocksTypeOK /\ lkcall[t].lock.owner = ownerOf[t]
    BY DEF LocksInv, CallRight
<1>1. /\ Pending(q)' = Pending(q) \ {t} /\ t \notin Pending(q)
      /\ \A u \in Lockers \ {t} : /\ lkcall'[u].at = lkcall[u].at
                                  /\ lkcall[u].at \in Busy =>
                                       /\ lkcall'[u].lock = lkcall[u].lock
                                       /\ lkcall'[u].after = lkcall[u].after \ {t}
    BY EndKeeps DEF Pending
<1>2. Pending(q)' = Pending(q)
    BY <1>1
<1>3. \A u \in Pending(q) : /\ lkcall'[u].at = lkcall[u].at
                            /\ lkcall'[u].lock = lkcall[u].lock
                            /\ lkcall'[u].after = lkcall[u].after \ {t}
    BY <1>0, <1>1, PendingAt
<1>4. \A b \in Bytes, ty \in Types :
        Covered(Elems(locks)', q, b, ty) <=> Covered(Elems(locks), q, b, ty)
    BY <1>0 DEF OthersRight
<1>5. \A u \in Pending(q), b \in Bytes : Touches(u, b)' <=> Touches(u, b)
    BY <1>3 DEF Touches
<1>6. ASSUME q \notin raced PROVE HeldRight(q)'
    <2>1. HeldRight(q)
        BY <1>6 DEF LocksInv
    <2>2. \A u \in Lockers, b \in Bytes : LastFor(u, q, b)' => LastFor(u, q, b) /\ u \in Pending(q)
        BY <1>1, <1>2, <1>3, <1>5 DEF LastFor
    <2>. QED  BY <1>2, <1>3, <1>4, <1>5, <2>1, <2>2 DEF HeldRight
<1>7. ASSUME q \in closed PROVE ClosedRight(q)'
    <2>1. ClosedRight(q)
        BY <1>7 DEF LocksInv
    <2>2. ASSUME Pending(q) = {}, NEW i \in DOMAIN locks', locks'[i].owner = q PROVE FALSE
        <3>. DEFINE l == locks'[i]
        <3>1. l \in Elems(locks)'
            BY DEF Elems
        <3>2. Entry(l)
            BY DEF Table
        <3>. HIDE DEF l
        <3>3. l \in LockRec /\ l.start <= l.end
            BY <3>2 DEF Entry, InFile
        <3>4. l.start \in Bytes /\ l.type \in Types /\ l.start \in Int /\ l.start <= l.start
            BY <3>3, LockFields DEF LockRec
        <3>5. Covered(Elems(locks)', q, l.start, l.type)
            BY <2>2, <3>1, <3>3, <3>4 DEF Covered, Has, l
        <3>6. Covered(Elems(locks), q, l.start, l.type)
            BY <1>4, <3>4, <3>5
        <3>7. PICK k \in Elems(locks) : k.owner = q
            BY <3>6 DEF Covered, Has
        <3>. QED  BY <2>1, <2>2, <3>7 DEF ClosedRight, Elems
    <2>. QED  BY <1>2, <1>3, <2>1, <2>2 DEF ClosedRight
<1>. QED  BY <1>6, <1>7

\* The owner of the call, when no call is overtaken.
LEMMA OwnKeeps ==
    ASSUME LocksInv, NEW t \in Lockers, lkcall[t].at \in Busy,
           Returned(t), UNCHANGED <<held, ownerOf>>,
           Inserted(locks, lkcall[t].lock, locks'),
           ~ Overtakes(t), ownerOf[t] \notin raced
    PROVE  HeldRight(ownerOf[t])'
<1>. DEFINE o == ownerOf[t]
            l == lkcall[t].lock
<1>0. /\ LocksTypeOK /\ l.owner = o /\ HeldRight(o) /\ o \in Owners
      /\ lkcall[t].after \subseteq Pending(o) \ {t}
    BY DEF LocksInv, CallRight, LocksTypeOK
<1>1. lkcall[t].after = {}
    BY <1>0 DEF Overtakes
<1>2. t \in Pending(o)
    BY DEF Pending, Busy
<1>3. /\ Pending(o)' = Pending(o) \ {t}
      /\ \A u \in Lockers \ {t} : /\ lkcall'[u].at = lkcall[u].at
                                  /\ lkcall[u].at \in Busy =>
                                       /\ lkcall'[u].lock = lkcall[u].lock
                                       /\ lkcall'[u].after = lkcall[u].after \ {t}
    BY <1>0, EndKeeps
<1>4. \A u \in Pending(o) \ {t} : /\ lkcall'[u].lock = lkcall[u].lock
                                  /\ lkcall'[u].after = lkcall[u].after \ {t}
    BY <1>0, <1>3, PendingAt
<1>5. \A u \in Pending(o) \ {t}, b \in Bytes : Touches(u, b)' <=> Touches(u, b)
    BY <1>4 DEF Touches
<1>6. \A b : Touches(t, b) <=> Within(l, b)
    BY DEF Touches, Within
<1>7. ASSUME NEW b \in Bytes, NEW u \in Lockers, LastFor(u, o, b)'
      PROVE  held'[o][b] = lkcall'[u].lock.type
    <2>1. u \in Pending(o) \ {t} /\ Touches(u, b)
        BY <1>3, <1>5, <1>7 DEF LastFor
    <2>2. ASSUME NEW v \in Pending(o), Touches(v, b) PROVE u \notin lkcall[v].after
        <3>1. CASE v = t
            BY <1>1, <3>1
        <3>2. CASE v # t
            <4>1. v \in Pending(o)' /\ Touches(v, b)' /\ lkcall'[v].after = lkcall[v].after \ {t}
                BY <1>3, <1>4, <1>5, <2>2, <3>2
            <4>2. u \notin lkcall'[v].after
                BY <1>7, <4>1 DEF LastFor
            <4>. QED  BY <2>1, <4>1, <4>2
        <3>. QED  BY <3>1, <3>2
    <2>3. LastFor(u, o, b)
        BY <2>1, <2>2 DEF LastFor
    <2>. QED  BY <1>0, <1>4, <2>1, <2>3 DEF HeldRight
<1>8. ASSUME NEW b \in Bytes, \A u \in Pending(o)' : ~ Touches(u, b)',
             NEW ty \in Types \ {"F_UNLCK"}
      PROVE  held'[o][b] = ty <=> Covered(Elems(locks)', o, b, ty)
    <2>1. \A u \in Pending(o) \ {t} : ~ Touches(u, b)
        BY <1>3, <1>5, <1>8
    <2>2. Covered(Elems(locks)', o, b, ty)
            <=> IF Within(l, b) THEN ty = l.type ELSE Covered(Elems(locks), o, b, ty)
        BY <1>0 DEF Inserted, Elems
    <2>3. CASE Within(l, b)
        <3>1. \A v \in Pending(o) : Touches(v, b) => t \notin lkcall[v].after
            BY <1>1, <2>1
        <3>2. LastFor(t, o, b)
            BY <1>2, <1>6, <2>3, <3>1 DEF LastFor
        <3>3. held[o][b] = l.type
            BY <1>0, <3>2 DEF HeldRight
        <3>. QED  BY <2>2, <2>3, <3>3
    <2>4. CASE ~ Within(l, b)
        <3>1. \A v \in Pending(o) : ~ Touches(v, b)
            BY <1>6, <2>1, <2>4
        <3>2. held[o][b] = ty <=> Covered(Elems(locks), o, b, ty)
            BY <1>0, <3>1 DEF HeldRight
        <3>. QED  BY <2>2, <2>4, <3>2
    <2>. QED  BY <2>3, <2>4
<1>9. ownerOf' = ownerOf
    OBVIOUS
<1>. QED  BY <1>7, <1>8, <1>9 DEF HeldRight

LEMMA SetlkEndKeeps ==
    ASSUME LocksInv, NEW t \in Lockers, fuse_lib_setlk(t)
    PROVE  LocksInv'
<1>. DEFINE o == ownerOf[t]
            l == lkcall[t].lock
<1>0. LocksTypeOK /\ o \in Owners /\ InFile(l) /\ l.owner = o /\ Table(locks)
    BY DEF LocksInv, LocksTypeOK, CallRight, fuse_lib_setlk, Busy
<1>1. /\ lkcall[t].at = "insert" /\ lkcall[t].at \in Busy /\ Returned(t)
      /\ held' = held /\ ownerOf' = ownerOf /\ no_flush' = no_flush /\ closed' = closed
    BY DEF fuse_lib_setlk, Busy
<1>2. /\ lkcall' \in [Lockers -> {IdleCall} \cup Inserting \cup Flushing]
      /\ \A u \in Lockers : CallRight(u)'
    BY <1>1, EndKeeps
<1>3. LocksTypeOK'
    BY <1>0, <1>1, <1>2 DEF LocksTypeOK
<1>4. o \notin closed
    <2>1. t \in Pending(o)
        BY <1>1 DEF Pending
    <2>. QED  BY <1>1, <2>1 DEF LocksInv, ClosedRight
<1>5. Inserted(locks, l, locks_insert(l))
    BY <1>0, InsertRight
<1>6. \/ /\ locks' = locks_insert(l)
         /\ raced' = IF Overtakes(t) THEN raced \cup {o} ELSE raced
      \/ locks' = locks /\ raced' = raced \cup {o}
    BY DEF fuse_lib_setlk
<1>7. /\ Table(locks') /\ raced \subseteq raced'
      /\ OthersRight(l, Elems(locks'), Elems(locks))
      /\ o \notin raced' => /\ o \notin raced /\ ~ Overtakes(t)
                            /\ Inserted(locks, l, locks')
    <2>1. OthersRight(l, Elems(locks), Elems(locks))
        BY DEF OthersRight
    <2>2. CASE locks' = locks /\ raced' = raced \cup {o}
        BY <1>0, <2>1, <2>2
    <2>3. CASE /\ locks' = locks_insert(l)
               /\ raced' = IF Overtakes(t) THEN raced \cup {o} ELSE raced
        BY <1>5, <2>3 DEF Inserted
    <2>. QED  BY <1>6, <2>2, <2>3
<1>8. Table(locks)' /\ Elems(locks)' = Elems(locks')
    BY <1>7 DEF Table, Elems, Entry, InFile, LockRec, Before
<1>9. ASSUME NEW q \in Owners \ raced' PROVE HeldRight(q)'
    <2>1. CASE q = o
        BY <1>1, <1>7, <2>1, OwnKeeps
    <2>2. CASE q # o
        BY <1>1, <1>7, <1>8, <2>2, OthersKeep
    <2>. QED  BY <2>1, <2>2
<1>10. ASSUME NEW q \in closed' PROVE ClosedRight(q)'
    <2>1. q \in closed /\ q \in Owners \ {o}
        BY <1>0, <1>1, <1>4 DEF LocksTypeOK
    <2>. QED  BY <1>1, <1>7, <1>8, <2>1, OthersKeep
<1>. QED  BY <1>2, <1>3, <1>8, <1>9, <1>10 DEF LocksInv

LEMMA FlushEndKeeps ==
    ASSUME LocksInv, NEW t \in Lockers, fuse_flush_common(t)
    PROVE  LocksInv'
<1>. DEFINE o == ownerOf[t]
            l == lkcall[t].lock
<1>0. /\ LocksTypeOK /\ o \in Owners /\ InFile(l) /\ l.owner = o /\ Table(locks)
      /\ l = WholeFile(o) /\ no_flush = FALSE
    BY DEF LocksInv, LocksTypeOK, CallRight, fuse_flush_common, Busy
<1>1. /\ lkcall[t].at = "flush" /\ lkcall[t].at \in Busy /\ Returned(t)
      /\ held' = held /\ ownerOf' = ownerOf /\ closed' = closed
      /\ no_flush' = (no_flush \/ lkcall[t].err = "ENOSYS")
      /\ locks' = locks_insert(l)
      /\ raced' = IF Overtakes(t) THEN raced \cup {o}
                  ELSE IF Pending(o) = {t} /\ o \in closed THEN raced \ {o} ELSE raced
    BY DEF fuse_flush_common, Busy
<1>2. /\ lkcall' \in [Lockers -> {IdleCall} \cup Inserting \cup Flushing]
      /\ \A u \in Lockers : CallRight(u)'
      /\ Pending(o)' = Pending(o) \ {t}
      /\ \A u \in Lockers \ {t} : lkcall'[u].at = lkcall[u].at
    BY <1>0, <1>1, EndKeeps
<1>3. no_flush' = FALSE
    <2>1. lkcall[t] \in Flushing
        BY <1>0, <1>1 DEF LocksTypeOK, IdleCall, Inserting
    <2>2. lkcall[t].err = "ok"
        BY <2>1 DEF Flushing
    <2>3. lkcall[t].err # "ENOSYS"
        BY <2>2
    <2>. QED  BY <1>0, <1>1, <2>3
<1>4. LocksTypeOK'
    BY <1>0, <1>1, <1>2, <1>3 DEF LocksTypeOK
<1>5. Inserted(locks, l, locks')
    BY <1>0, <1>1, InsertRight
<1>6. Table(locks') /\ OthersRight(l, Elems(locks'), Elems(locks))
    BY <1>5 DEF Inserted
<1>7. Table(locks)' /\ Elems(locks)' = Elems(locks')
    BY <1>6 DEF Table, Elems, Entry, InFile, LockRec, Before
<1>8. l.type = "F_UNLCK" /\ \A b \in Bytes : Within(l, b)
    BY <1>0, WholeRight
<1>9. \A b \in Bytes, ty \in Types \ {"F_UNLCK"} : ~ Covered(Elems(locks)', o, b, ty)
    BY <1>0, <1>5, <1>7, <1>8 DEF Inserted
<1>10. \A i \in DOMAIN locks' : locks'[i].owner # o
    <2>. SUFFICES ASSUME NEW i \in DOMAIN locks', locks'[i].owner = o PROVE FALSE
        OBVIOUS
    <2>. DEFINE k == locks'[i]
    <2>1. k \in Elems(locks)' /\ Entry(k)
        BY <1>6 DEF Elems, Table
    <2>. HIDE DEF k
    <2>2. k \in LockRec /\ k.start <= k.end /\ k.type # "F_UNLCK"
        BY <2>1 DEF Entry, InFile
    <2>3. k.start \in Bytes /\ k.type \in Types /\ k.start \in Int /\ k.start <= k.start
        BY <2>2, LockFields DEF LockRec
    <2>4. Covered(Elems(locks)', o, k.start, k.type)
        BY <2>1, <2>2, <2>3 DEF Covered, Has, k
    <2>. QED  BY <1>9, <2>2, <2>3, <2>4
<1>11. ASSUME NEW q \in Owners \ raced' PROVE HeldRight(q)'
    <2>1. CASE q = o /\ q \notin raced
        BY <1>1, <1>5, <2>1, OwnKeeps
    <2>2. CASE q = o /\ q \in raced
        <3>1. Pending(o) = {t} /\ o \in closed
            BY <1>1, <2>2
        <3>2. Pending(o)' = {} /\ held[o] = [b \in Bytes |-> "F_UNLCK"]
            BY <1>2, <3>1 DEF LocksInv, ClosedRight
        <3>3. \A b \in Bytes : held'[o][b] = "F_UNLCK"
            BY <1>1, <3>2
        <3>4. \A u \in Lockers, b \in Bytes : ~ LastFor(u, o, b)'
            BY <1>1, <3>2 DEF LastFor
        <3>. QED  BY <1>1, <1>9, <2>2, <3>3, <3>4 DEF HeldRight
    <2>3. CASE q # o
        <3>1. q \notin raced
            BY <1>1, <2>3
        <3>. QED  BY <1>1, <1>6, <1>7, <2>3, <3>1, OthersKeep
    <2>. QED  BY <2>1, <2>2, <2>3
<1>12. ASSUME NEW q \in closed' PROVE ClosedRight(q)'
    <2>1. CASE q = o
        <3>1. ClosedRight(o)
            BY <1>1, <2>1 DEF LocksInv
        <3>2. \A u \in Pending(o)' : lkcall'[u].at = "flush"
            BY <1>2, <3>1 DEF ClosedRight, Pending
        <3>. QED  BY <1>1, <1>10, <2>1, <3>1, <3>2 DEF ClosedRight
    <2>2. CASE q # o
        <3>1. q \in closed /\ q \in Owners \ {o}
            BY <1>0, <1>1, <2>2 DEF LocksTypeOK
        <3>. QED  BY <1>1, <1>6, <1>7, <3>1, OthersKeep
    <2>. QED  BY <2>1, <2>2
<1>. QED  BY <1>2, <1>4, <1>7, <1>11, <1>12 DEF LocksInv

LEMMA LocksInitOK == LocksInit => LocksInv
<1>. SUFFICES ASSUME LocksInit PROVE LocksInv
    OBVIOUS
<1>1. /\ locks = <<>> /\ lkcall = [t \in Lockers |-> IdleCall] /\ closed = {}
      /\ \A t \in Lockers : lkcall[t].at = "idle"
    BY DEF LocksInit, IdleCall
<1>2. LocksTypeOK
    BY <1>1 DEF LocksInit, LocksTypeOK, Types
<1>3. Table(locks) /\ Elems(locks) = {}
    BY <1>1, NoEntries
<1>4. \A t \in Lockers : CallRight(t)
    BY <1>1 DEF CallRight, Busy
<1>5. \A o : Pending(o) = {}
    BY <1>1 DEF Pending
<1>6. \A o \in Owners, b \in Bytes : held[o][b] = "F_UNLCK"
    BY DEF LocksInit
<1>7. \A o \in Owners : HeldRight(o)
    BY <1>3, <1>5, <1>6 DEF HeldRight, LastFor, Covered
<1>. QED  BY <1>1, <1>2, <1>3, <1>4, <1>7 DEF LocksInv

LEMMA LocksNextOK == LocksInv /\ LocksNext => LocksInv'
BY SetlkKeeps, SetlkEndKeeps, FlushKeeps, FlushEndKeeps DEF LocksNext

LEMMA LocksIdle ==
    ASSUME LocksInv, UNCHANGED lockVars PROVE LocksInv'
BY DEF lockVars, LocksInv, LocksTypeOK, Table, Entry, InFile, LockRec, Before, CallRight,
   Pending, WholeFile, flock_to_lock, WholeUnlock, HeldRight, LastFor, Touches, Covered,
   Has, Elems, ClosedRight

LEMMA LocksInvariant == Spec => []LocksInv
<1>1. Init => LocksInv
    BY LocksInitOK DEF Init
<1>2. LocksInv /\ [Next]_vars => LocksInv'
    BY LocksNextOK, LocksIdle DEF Next, vars
<1>. QED  BY <1>1, <1>2, PTL DEF Spec

\* What the invariant says of an owner that has no call under way.
LEMMA SettledHeld ==
    ASSUME LocksInv, NEW o \in Owners, Settled(o), NEW b \in Bytes
    PROVE  /\ held[o][b] \in Types
           /\ \A ty \in Types \ {"F_UNLCK"} :
                 held[o][b] = ty <=> Covered(Elems(locks), o, b, ty)
BY DEF LocksInv, LocksTypeOK, HeldRight, Settled

LEMMA TableEntry ==
    ASSUME LocksInv, NEW i \in DOMAIN locks
    PROVE  /\ Entry(locks[i]) /\ InFile(locks[i]) /\ locks[i] \in LockRec
           /\ locks[i].type \in Types \ {"F_UNLCK"} /\ locks[i].owner \in Owners
           /\ locks[i].start \in Int /\ locks[i].end \in Int
           /\ locks[i].start <= locks[i].end /\ locks[i] \in Elems(locks)
           /\ locks[i].start \in Bytes /\ locks[i].end \in Bytes
<1>1. Entry(locks[i]) /\ locks[i] \in Elems(locks)
    BY DEF LocksInv, Table, Elems
<1>2. locks[i] \in LockRec /\ locks[i].start <= locks[i].end /\ InFile(locks[i])
    BY <1>1 DEF Entry, InFile
<1>. QED  BY <1>1, <1>2, LockFields DEF Entry, LockRec

LEMMA LocksHold == LocksInv => LocksTrue
<1>. SUFFICES ASSUME LocksInv, NEW o \in Owners
              PROVE  /\ \A i \in Of(o) : locks[i].start <= locks[i].end
                     /\ \A i, j \in Of(o) : i < j =>
                            LET gap == IF locks[i].type = locks[j].type THEN 1 ELSE 0
                            IN  locks[i].end + gap < locks[j].start
                     /\ Settled(o) => Recorded(o) = held[o]
                     /\ o \in closed /\ Pending(o) = {} =>
                            Of(o) = {} /\ held[o] = [b \in Bytes |-> "F_UNLCK"]
    BY DEF LocksTrue
<1>1. \A i \in Of(o) : locks[i].start <= locks[i].end
    BY TableEntry DEF Of
<1>2. ASSUME NEW i \in Of(o), NEW j \in Of(o), i < j
      PROVE  locks[i].end + (IF locks[i].type = locks[j].type THEN 1 ELSE 0) < locks[j].start
    <2>1. Before(locks[i], locks[j])
        BY <1>2 DEF LocksInv, Table, Of
    <2>2. locks[i].end \in Int /\ locks[j].start \in Int
        BY TableEntry DEF Of
    <2>. QED  BY <2>1, <2>2 DEF Before
<1>3. ASSUME Settled(o) PROVE Recorded(o) = held[o]
    <2>. DEFINE On(b) == {i \in Of(o) : b \in locks[i].start..locks[i].end}
    <2>1. ASSUME NEW b \in Bytes
          PROVE  held[o][b] = IF On(b) = {} THEN "F_UNLCK"
                              ELSE locks[CHOOSE i \in On(b) : TRUE].type
        <3>1. /\ held[o][b] \in Types
              /\ \A ty \in Types \ {"F_UNLCK"} :
                    held[o][b] = ty <=> Covered(Elems(locks), o, b, ty)
            BY <1>3, SettledHeld
        <3>2. b \in Int
            BY BytesInts
        <3>3. CASE On(b) = {}
            <4>1. \A ty : ~ Covered(Elems(locks), o, b, ty)
                <5>. SUFFICES ASSUME NEW i \in DOMAIN locks, NEW ty, Has(locks[i], o, b, ty)
                              PROVE  FALSE
                    BY DEF Covered, Elems
                <5>1. locks[i].start \in Int /\ locks[i].end \in Int
                    BY TableEntry
                <5>2. i \in On(b)
                    BY <3>2, <5>1 DEF Has, Of
                <5>. QED  BY <3>3, <5>2
            <4>2. held[o][b] = "F_UNLCK"
                BY <3>1, <4>1
            <4>. QED  BY <3>3, <4>2
        <3>4. CASE On(b) # {}
            <4>. DEFINE i == CHOOSE j \in On(b) : TRUE
            <4>1. i \in On(b)
                BY <3>4
            <4>. HIDE DEF i
            <4>2. /\ i \in DOMAIN locks /\ locks[i].owner = o
                  /\ b \in locks[i].start..locks[i].end
                BY <4>1 DEF Of
            <4>3. /\ locks[i].start \in Int /\ locks[i].end \in Int
                  /\ locks[i].type \in Types \ {"F_UNLCK"} /\ locks[i] \in Elems(locks)
                BY <4>2, TableEntry
            <4>4. Has(locks[i], o, b, locks[i].type)
                BY <3>2, <4>2, <4>3 DEF Has
            <4>5. Covered(Elems(locks), o, b, locks[i].type)
                BY <4>3, <4>4 DEF Covered
            <4>6. held[o][b] = locks[i].type
                BY <3>1, <4>3, <4>5
            <4>. QED  BY <3>4, <4>6 DEF i
        <3>. QED  BY <3>3, <3>4
    <2>2. held[o] = [b \in Bytes |-> held[o][b]]
        BY DEF LocksInv, LocksTypeOK
    <2>3. Recorded(o) = [b \in Bytes |-> IF On(b) = {} THEN "F_UNLCK"
                                         ELSE locks[CHOOSE i \in On(b) : TRUE].type]
        BY DEF Recorded
    <2>. HIDE DEF On
    <2>. QED  BY <2>1, <2>2, <2>3
<1>4. ASSUME o \in closed, Pending(o) = {}
      PROVE  Of(o) = {} /\ held[o] = [b \in Bytes |-> "F_UNLCK"]
    BY <1>4 DEF LocksInv, ClosedRight, Of
<1>. QED  BY <1>1, <1>2, <1>3, <1>4

LEMMA GetlkHolds == LocksInv => GetlkTrue
<1>. SUFFICES ASSUME LocksInv, NEW t \in Lockers, NEW type \in Types \ {"F_UNLCK"},
                     NEW r \in Ranges, NEW a \in fuse_lib_getlk(t, type, r)
              PROVE  /\ a.owner # ownerOf[t] /\ a.end \in Bytes
                     /\ Settled(a.owner) =>
                           /\ \A b \in a.start..a.end : held[a.owner][b] = a.type
                           /\ \E b \in r[1]..r[2] : Clash(type, held[a.owner][b])
    BY DEF GetlkTrue
<1>. DEFINE q == Sent(t, type, r)
<1>1. /\ q = [owner |-> ownerOf[t], type |-> type, start |-> r[1], end |-> r[2]]
      /\ r[1] \in Bytes /\ r[2] \in Bytes /\ r[1] <= r[2]
    BY SentSame DEF LocksInv, Ranges
<1>2. /\ q.owner = ownerOf[t] /\ q.type = type /\ q.start = r[1] /\ q.end = r[2]
      /\ r[1] \in Int /\ r[2] \in Int
    BY <1>1, BytesInts
<1>. HIDE DEF q
<1>3. PICK l \in locks_conflict(q) : a = flock_to_lock(lock_to_flock(l), l.owner)
    BY DEF fuse_lib_getlk, q
<1>4. PICK i \in DOMAIN locks :
          /\ l = locks[i] /\ locks[i].owner # q.owner
          /\ q.start <= locks[i].end /\ locks[i].start <= q.end
          /\ "F_WRLCK" \in {locks[i].type, q.type}
    BY <1>3 DEF locks_conflict
<1>5. /\ InFile(l) /\ l.type \in Types \ {"F_UNLCK"} /\ l.owner \in Owners
      /\ l.start \in Int /\ l.end \in Int /\ l.start <= l.end /\ l \in Elems(locks)
      /\ l.start \in Bytes /\ l.end \in Bytes
    BY <1>4, TableEntry
<1>6. a = l
    BY <1>3, <1>5, RoundTrip
<1>7. ASSUME Settled(l.owner) PROVE \A b \in l.start..l.end : held[l.owner][b] = l.type
    <2>. SUFFICES ASSUME NEW b \in l.start..l.end PROVE held[l.owner][b] = l.type
        OBVIOUS
    <2>1. b \in Bytes /\ b \in Int
        BY <1>5, BytesInts, LocksAssumption DEF Bytes
    <2>2. Covered(Elems(locks), l.owner, b, l.type)
        BY <1>5, <2>1 DEF Covered, Has
    <2>. QED  BY <1>5, <1>7, <2>1, <2>2, SettledHeld
<1>8. ASSUME Settled(l.owner) PROVE \E b \in r[1]..r[2] : Clash(type, held[l.owner][b])
    <2>. DEFINE b == IF l.start <= r[1] THEN r[1] ELSE l.start
    <2>1. b \in r[1]..r[2] /\ b \in l.start..l.end
        BY <1>1, <1>2, <1>4, <1>5
    <2>. HIDE DEF b
    <2>2. held[l.owner][b] = l.type
        BY <1>7, <1>8, <2>1
    <2>3. Clash(type, l.type)
        BY <1>2, <1>4, <1>5 DEF Clash
    <2>. QED  BY <2>1, <2>2, <2>3
<1>. QED  BY <1>2, <1>4, <1>5, <1>6, <1>7, <1>8

(***************************************************************************)
(* The table of granted locks stays in order, without overlaps, and says   *)
(* of an owner with no call under way what the file system granted, but    *)
(* for the owners that LocksTrue names; a closed owner has none.  For any  *)
(* number of threads and bytes and any sequence of locks.                  *)
(***************************************************************************)
THEOREM LocksStayTrue == Spec => []LocksTrue
<1>1. LocksInv => LocksTrue
    BY LocksHold
<1>. QED  BY <1>1, LocksInvariant, PTL

(***************************************************************************)
(* A lock that GETLK answers from the table is another owner's, that it    *)
(* holds and that stands against the question.                             *)
(***************************************************************************)
THEOREM GetlkStaysTrue == Spec => []GetlkTrue
<1>1. LocksInv => GetlkTrue
    BY GetlkHolds
<1>. QED  BY <1>1, LocksInvariant, PTL

(***************************************************************************)
(* The inductive invariant of a listing                                    *)
(***************************************************************************)
\* A record as the handle and the pass keep it.
DirRec == [slot : Slots, off : Nat]
DirHandle == [open : BOOLEAN, filled : BOOLEAN, recs : Seq(DirRec)]

Slotted(recs) == [i \in DOMAIN recs |-> recs[i].slot]
SlotsOf(recs) == {recs[i].slot : i \in DOMAIN recs}

\* In the order of the places.
InOrder(recs) == \A i \in DOMAIN recs : \A j \in DOMAIN recs :
                    i < j => recs[i].slot < recs[j].slot

DirTypeOK ==
    /\ names \subseteq Slots
    /\ offsets \in BOOLEAN
    /\ dh \in DirHandle
    /\ fpos \in Nat
    /\ got \in Seq(DirRec)
    /\ pass \in [always : SUBSET Slots, ever : SUBSET Slots]
    /\ ended \in BOOLEAN /\ reSeeked \in BOOLEAN

\* What the pass has returned, in order; the position is that of the last.
PassOK ==
    /\ pass.always \subseteq names /\ names \subseteq pass.ever
    /\ InOrder(got) /\ SlotsOf(got) \subseteq pass.ever
    /\ \A i \in DOMAIN got : got[i].off # 0
    /\ fpos = IF got = <<>> THEN 0 ELSE got[Len(got)].off

\* The handle that holds a whole listing of some moment of the pass.
Whole(recs) ==
    /\ InOrder(recs) /\ SlotsOf(recs) \subseteq pass.ever
    /\ pass.always \subseteq SlotsOf(recs)
    /\ \A i \in DOMAIN recs : recs[i].off = Ends(Slotted(recs))[i]

\* Without offsets: what was returned is the beginning of that listing.
WholeOK ==
    /\ fpos # 0 => /\ dh.filled /\ Whole(dh.recs)
                   /\ Len(got) <= Len(dh.recs)
                   /\ \A i \in DOMAIN got : got[i] = dh.recs[i]
                   /\ ended => Len(got) = Len(dh.recs)
    /\ fpos = 0 /\ ended => pass.always = {}

\* With offsets: what was there throughout has been returned up to the
\* position, and a handle that is filled holds the end of a listing.
PagesOK ==
    /\ \A i \in DOMAIN got : got[i].off = got[i].slot
    /\ \A s \in pass.always : s <= fpos => s \in SlotsOf(got)
    /\ dh.filled => dh.recs = <<>> /\ (fpos = 0 \/ ended \/ reSeeked)
    /\ ended /\ ~reSeeked => \A s \in pass.always : s <= fpos

DirInv ==
    /\ DirTypeOK /\ PassOK
    /\ ~offsets => WholeOK
    /\ offsets => PagesOK

(***************************************************************************)
(* The numbers and lists that a listing is made of                         *)
(***************************************************************************)
\* A set of naturals up to a bound has a greatest member.
LEMMA GreatestOf ==
    ASSUME NEW n \in Nat, NEW T, T \subseteq 0..n, T # {}
    PROVE  \E x \in T : \A y \in T : y <= x
<1>. DEFINE D == {k \in 0..n : n - k \in T}
<1>1. D \subseteq Nat
    OBVIOUS
<1>2. D # {}
    <2>1. PICK x \in T : x \in 0..n
        OBVIOUS
    <2>2. n - x \in 0..n /\ n - (n - x) = x
        BY <2>1
    <2>. QED  BY <2>1, <2>2
<1>3. PICK k \in D : \A m \in D : ~(m < k)
    BY <1>1, <1>2, LeastNat
<1>4. k \in 0..n /\ n - k \in T
    BY <1>3
<1>5. ASSUME NEW y \in T PROVE y <= n - k
    <2>1. y \in 0..n /\ n - y \in 0..n /\ n - (n - y) = y
        BY <1>5
    <2>2. ~(n - y < k)
        BY <1>3, <2>1
    <2>. QED  BY <2>1, <2>2, <1>4
<1>. QED  BY <1>4, <1>5

LEMMA LengthIs ==
    ASSUME NEW s \in Slots
    PROVE  /\ s \in Nat /\ s > 0
           /\ Length[s] \in Nat /\ 1 <= Length[s] /\ Length[s] <= PageSize
           /\ PageSize \in Nat
    BY DirAssumption

\* Up to n, the ends of the records of a list.
EndsTo(f, list, n) ==
    f = [i \in 0..n |-> IF i = 0 THEN 0 ELSE f[i - 1] + Length[list[i]]]

\* By the least counterexample: every list has its ends.
LEMMA EndsExist ==
    ASSUME NEW list \in Seq(Slots)
    PROVE  \A n \in 0..Len(list) : \E f : EndsTo(f, list, n)
<1>. DEFINE Can(n) == \E f : EndsTo(f, list, n)
            Bad == {n \in 0..Len(list) : ~ Can(n)}
<1>1. SUFFICES ASSUME Bad # {} PROVE FALSE
    OBVIOUS
<1>2. Bad \subseteq Nat
    OBVIOUS
<1>. HIDE DEF Bad
<1>3. PICK n \in Bad : \A m \in Bad : ~(m < n)
    BY <1>1, <1>2, LeastNat
<1>. USE DEF Bad
<1>. HIDE DEF Can
<1>4. n \in 0..Len(list) /\ ~ Can(n)
    OBVIOUS
<1>5. CASE n = 0
    <2>. DEFINE f == [i \in 0..0 |-> 0]
    <2>1. EndsTo(f, list, 0)
        BY DEF EndsTo
    <2>. QED  BY <2>1, <1>4, <1>5 DEF Can
<1>6. CASE n # 0
    <2>1. n - 1 \in 0..Len(list) /\ n - 1 < n
        BY <1>4, <1>6
    <2>2. PICK f : EndsTo(f, list, n - 1)
        BY <2>1, <1>3 DEF Can
    <2>. DEFINE g == [i \in 0..n |-> IF i = n THEN f[n - 1] + Length[list[n]] ELSE f[i]]
    <2>3. ASSUME NEW i \in 0..n
          PROVE  g[i] = IF i = 0 THEN 0 ELSE g[i - 1] + Length[list[i]]
        <3>1. CASE i = n
            <4>1. g[n] = f[n - 1] + Length[list[n]] /\ g[n - 1] = f[n - 1]
                BY <1>4, <1>6
            <4>. QED  BY <3>1, <4>1, <1>6
        <3>2. CASE i # n
            <4>1. i \in 0..(n - 1) /\ g[i] = f[i] /\ (i # 0 => g[i - 1] = f[i - 1])
                BY <3>2, <1>4
            <4>2. f[i] = IF i = 0 THEN 0 ELSE f[i - 1] + Length[list[i]]
                BY <2>2, <4>1 DEF EndsTo
            <4>. HIDE DEF g
            <4>. QED  BY <4>1, <4>2
        <3>. QED  BY <3>1, <3>2
    <2>4. EndsTo(g, list, n)
        BY <2>3 DEF EndsTo
    <2>. QED  BY <2>4, <1>4 DEF Can
<1>. QED  BY <1>5, <1>6

LEMMA EndsUnfold ==
    ASSUME NEW list \in Seq(Slots)
    PROVE  /\ Ends(list)[0] = 0
           /\ \A i \in 1..Len(list) : Ends(list)[i] = Ends(list)[i - 1] + Length[list[i]]
<1>. DEFINE e == Ends(list)
<1>0. Len(list) \in Nat
    OBVIOUS
<1>1. \E f : EndsTo(f, list, Len(list))
    BY <1>0, EndsExist
<1>2. e = CHOOSE f : EndsTo(f, list, Len(list))
    BY DEF Ends, EndsTo
<1>3. EndsTo(e, list, Len(list))
    BY <1>1, <1>2
<1>. HIDE DEF e
<1>4. \A i \in 0..Len(list) : e[i] = IF i = 0 THEN 0 ELSE e[i - 1] + Length[list[i]]
    BY <1>3 DEF EndsTo
<1>5. e[0] = 0 /\ \A i \in 1..Len(list) : e[i] = e[i - 1] + Length[list[i]]
    BY <1>4, <1>0
<1>. QED  BY <1>5 DEF e

\* The ends are naturals, by the least counterexample.
LEMMA EndsNat ==
    ASSUME NEW list \in Seq(Slots)
    PROVE  \A i \in 0..Len(list) : Ends(list)[i] \in Nat
<1>. DEFINE e == Ends(list)
            Bad == {n \in 0..Len(list) : e[n] \notin Nat}
<1>1. SUFFICES ASSUME Bad # {} PROVE FALSE
    OBVIOUS
<1>2. PICK n \in Bad : \A m \in Bad : ~(m < n)
    <2>1. Bad \subseteq Nat
        OBVIOUS
    <2>. HIDE DEF Bad
    <2>. QED  BY <1>1, <2>1, LeastNat
<1>3. e[0] = 0 /\ \A i \in 1..Len(list) : e[i] = e[i - 1] + Length[list[i]]
    BY EndsUnfold
<1>. HIDE DEF e
<1>4. n \in 1..Len(list) /\ n - 1 \in 0..Len(list) /\ n - 1 < n
    BY <1>3
<1>5. e[n - 1] \in Nat
    BY <1>2, <1>4
<1>6. list[n] \in Slots
    BY <1>4
<1>7. e[n] \in Nat
    <2>1. Length[list[n]] \in Nat
        BY <1>6, LengthIs
    <2>2. e[n] = e[n - 1] + Length[list[n]]
        BY <1>3, <1>4
    <2>. QED  BY <1>5, <2>1, <2>2
<1>. QED  BY <1>2, <1>7

\* And they grow.
LEMMA EndsGrow ==
    ASSUME NEW list \in Seq(Slots), NEW i \in 0..Len(list)
    PROVE  \A j \in 0..Len(list) : i < j => Ends(list)[i] < Ends(list)[j]
<1>. DEFINE e == Ends(list)
            Bad == {n \in 0..Len(list) : i < n /\ ~(e[i] < e[n])}
<1>1. SUFFICES ASSUME Bad # {} PROVE FALSE
    OBVIOUS
<1>2. PICK n \in Bad : \A m \in Bad : ~(m < n)
    <2>1. Bad \subseteq Nat
        OBVIOUS
    <2>. HIDE DEF Bad
    <2>. QED  BY <1>1, <2>1, LeastNat
<1>3. \A k \in 1..Len(list) : e[k] = e[k - 1] + Length[list[k]]
    BY EndsUnfold
<1>4. \A k \in 0..Len(list) : e[k] \in Nat
    BY EndsNat
<1>. HIDE DEF e
<1>5. n \in 1..Len(list) /\ n - 1 \in 0..Len(list) /\ n - 1 < n /\ i < n
    OBVIOUS
<1>6. list[n] \in Slots
    BY <1>5
<1>7. e[n - 1] < e[n]
    <2>1. Length[list[n]] \in Nat /\ 1 <= Length[list[n]]
        BY <1>6, LengthIs
    <2>2. e[n] = e[n - 1] + Length[list[n]] /\ e[n - 1] \in Nat
        BY <1>3, <1>4, <1>5
    <2>. QED  BY <2>1, <2>2
<1>8. CASE i = n - 1
    BY <1>2, <1>7, <1>8
<1>9. CASE i # n - 1
    <2>1. i < n - 1 /\ n - 1 \notin Bad
        BY <1>2, <1>5, <1>9
    <2>2. e[i] < e[n - 1]
        BY <2>1, <1>5
    <2>. QED  BY <1>2, <1>4, <1>5, <1>7, <2>2
<1>. QED  BY <1>8, <1>9

(***************************************************************************)
(* Listed: the names after an offset, in the order of their places         *)
(***************************************************************************)
Ascends(l) == \A i, j \in DOMAIN l : i < j => l[i] < l[j]

\* By the least counterexample: a finite set of places can be put in order.
LEMMA AscendingList ==
    ASSUME NEW T \in SUBSET Slots
    PROVE  \E l \in [1..Cardinality(T) -> T] : Ascends(l) /\ \A s \in T : \E i \in DOMAIN l : l[i] = s
<1>. DEFINE Lists(R) == \E l \in [1..Cardinality(R) -> R] :
                            Ascends(l) /\ \A s \in R : \E i \in DOMAIN l : l[i] = s
            Bad == {R \in SUBSET Slots : ~ Lists(R)}
            Sizes == {n \in Nat : \E R \in Bad : Cardinality(R) = n}
<1>0. \A R \in SUBSET Slots : IsFiniteSet(R) /\ Cardinality(R) \in Nat
    BY DirAssumption, FS_Subset, FS_CardinalityType
<1>. SUFFICES Lists(T)
    BY Zenon
<1>. HIDE DEF Lists
<1>1. SUFFICES ASSUME Bad # {} PROVE FALSE
    OBVIOUS
<1>2. Sizes \subseteq Nat /\ Sizes # {}
    BY <1>0, <1>1
<1>3. PICK n \in Sizes : \A m \in Sizes : ~(m < n)
    <2>. HIDE DEF Sizes
    <2>. QED  BY <1>2, LeastNat
<1>4. PICK R \in Bad : Cardinality(R) = n
    BY <1>3
<1>5. R \in SUBSET Slots /\ ~ Lists(R) /\ n \in Nat
    BY <1>3, <1>4
<1>6. CASE R = {}
    <2>1. n = 0 /\ 1..0 = {}
        BY <1>4, <1>6, FS_EmptySet
    <2>. DEFINE l == [i \in 1..0 |-> 0]
    <2>2. l \in [1..0 -> R] /\ DOMAIN l = {}
        BY <2>1
    <2>. HIDE DEF l
    <2>3. Lists(R)
        BY <2>1, <2>2, <1>4, <1>6 DEF Lists, Ascends
    <2>. QED  BY <2>3, <1>5
<1>7. CASE R # {}
    <2>0. Slots \subseteq Nat
        BY DirAssumption
    <2>1. PICK x \in R : \A y \in R : ~(y < x)
        BY <2>0, <1>5, <1>7, LeastNat
    <2>. DEFINE U == R \ {x}
    <2>2. Cardinality(U) = n - 1 /\ U \in SUBSET Slots
        BY <1>0, <1>4, <1>5, FS_RemoveElement
    <2>3. n - 1 \in Nat /\ n - 1 < n
        BY <2>2, <1>0, <1>5
    <2>4. Lists(U)
        BY <2>2, <2>3, <1>3
    <2>5. PICK l \in [1..(n - 1) -> U] : Ascends(l) /\ \A s \in U : \E i \in DOMAIN l : l[i] = s
        BY <2>2, <2>4 DEF Lists
    <2>. DEFINE g == [i \in 1..n |-> IF i = 1 THEN x ELSE l[i - 1]]
    <2>6. /\ g[1] = x /\ 1 \in 1..n /\ DOMAIN g = 1..n /\ DOMAIN l = 1..(n - 1)
          /\ \A i \in 1..n : i # 1 => g[i] = l[i - 1] /\ i - 1 \in 1..(n - 1)
          /\ \A i \in 1..(n - 1) : g[i + 1] = l[i] /\ i + 1 \in 1..n
        BY <2>3, <1>5
    <2>7. g \in [1..n -> R]
        BY <2>3, <1>5
    <2>. HIDE DEF g
    <2>8. ASSUME NEW i \in 1..n, NEW j \in 1..n, i < j PROVE g[i] < g[j]
        <3>1. j # 1 /\ g[j] = l[j - 1] /\ j - 1 \in 1..(n - 1)
            BY <2>6, <2>8
        <3>2. CASE i = 1
            <4>1. g[j] \in U /\ x \in Nat /\ g[j] \in Nat
                BY <3>1, <2>0, <2>2, <1>5
            <4>2. ~(g[j] < x) /\ g[j] # x
                BY <4>1, <2>1
            <4>. QED  BY <4>1, <4>2, <3>2, <2>6
        <3>3. CASE i # 1
            <4>1. g[i] = l[i - 1] /\ i - 1 \in 1..(n - 1) /\ i - 1 < j - 1
                BY <2>6, <2>8, <3>3
            <4>. QED  BY <3>1, <4>1, <2>5, <2>6 DEF Ascends
        <3>. QED  BY <3>2, <3>3
    <2>9. ASSUME NEW s \in R PROVE \E i \in 1..n : g[i] = s
        <3>1. CASE s = x
            BY <3>1, <2>6
        <3>2. CASE s # x
            <4>1. PICK i \in 1..(n - 1) : l[i] = s
                BY <3>2, <2>5, <2>6
            <4>. QED  BY <4>1, <2>6
        <3>. QED  BY <3>1, <3>2
    <2>10. Ascends(g) /\ \A s \in R : \E i \in DOMAIN g : g[i] = s
        BY <2>6, <2>8, <2>9 DEF Ascends
    <2>11. g \in [1..Cardinality(R) -> R]
        BY <1>4, <2>7
    <2>12. Lists(R)
        BY <2>10, <2>11, Zenon DEF Lists
    <2>. QED  BY <2>12, <1>5
<1>. QED  BY <1>6, <1>7

\* An ascending list as long as its set leaves none of it out: the list from
\* numbers to members is one-to-one.
LEMMA AscendingIsOnto ==
    ASSUME NEW T \in SUBSET Slots, NEW l \in [1..Cardinality(T) -> T], Ascends(l)
    PROVE  \A s \in T : \E i \in DOMAIN l : l[i] = s
<1>1. IsFiniteSet(T) /\ Cardinality(T) \in Nat
    BY DirAssumption, FS_Subset, FS_CardinalityType
<1>2. l \in Injection(1..Cardinality(T), T)
    <2>1. T \subseteq Nat
        BY DirAssumption
    <2>2. ASSUME NEW i \in 1..Cardinality(T), NEW j \in 1..Cardinality(T), i # j
          PROVE  l[i] # l[j]
        <3>1. l[i] \in Nat /\ l[j] \in Nat
            BY <2>1
        <3>2. i < j \/ j < i
            BY <1>1, <2>2
        <3>3. l[i] < l[j] \/ l[j] < l[i]
            BY <3>2 DEF Ascends
        <3>. QED  BY <3>1, <3>3
    <2>. QED  BY <2>2 DEF Injection, IsInjective
<1>3. IsFiniteSet(1..Cardinality(T)) /\ Cardinality(1..Cardinality(T)) = Cardinality(T)
    <2>. DEFINE c == Cardinality(T)
    <2>1. IsFiniteSet(1..c) /\ Cardinality(1..c) = IF 1 > c THEN 0 ELSE c - 1 + 1
        BY <1>1, FS_Interval
    <2>. QED  BY <1>1, <2>1
<1>4. l \in Surjection(1..Cardinality(T), T)
    BY <1>1, <1>2, <1>3, FS_Injection
<1>. QED  BY <1>4 DEF Surjection

LEMMA ListedIs ==
    ASSUME NEW off \in Nat, names \subseteq Slots
    PROVE  /\ Listed(off) \in Seq(Slots)
           /\ Ascends(Listed(off))
           /\ \A i \in 1..Len(Listed(off)) :
                  Listed(off)[i] \in names /\ Listed(off)[i] > off
           /\ \A s \in names : s > off => \E i \in 1..Len(Listed(off)) : Listed(off)[i] = s
<1>. DEFINE R == {s \in names : s > off}
            l == Listed(off)
<1>1. R \in SUBSET Slots /\ Cardinality(R) \in Nat
    <2>1. R \in SUBSET Slots
        OBVIOUS
    <2>. QED  BY <2>1, DirAssumption, FS_Subset, FS_CardinalityType
<1>2. \E k \in [1..Cardinality(R) -> R] : Ascends(k)
    <2>. HIDE DEF R
    <2>. QED  BY <1>1, AscendingList
<1>3. l = CHOOSE k \in [1..Cardinality(R) -> R] : Ascends(k)
    BY DEF Listed, Ascends
<1>. HIDE DEF l
<1>4. l \in [1..Cardinality(R) -> R] /\ Ascends(l)
    BY <1>2, <1>3
<1>5. \A s \in R : \E i \in DOMAIN l : l[i] = s
    <2>. HIDE DEF R
    <2>. QED  BY <1>1, <1>4, AscendingIsOnto
<1>6. l \in Seq(Slots) /\ Len(l) = Cardinality(R) /\ DOMAIN l = 1..Len(l)
    <2>. DEFINE n == Cardinality(R)
    <2>1. n \in Nat /\ l \in [1..n -> R] /\ R \subseteq Slots
        BY <1>1, <1>4
    <2>. HIDE DEF n, R
    <2>2. l \in [1..n -> Slots]
        BY <2>1
    <2>3. l \in Seq(Slots) /\ Len(l) = n /\ DOMAIN l = 1..n
        BY <2>1, <2>2
    <2>. QED  BY <2>3 DEF n
<1>7. \A i \in 1..Len(l) : l[i] \in R
    BY <1>4, <1>6
<1>8. \A s \in R : \E i \in 1..Len(l) : l[i] = s
    BY <1>5, <1>6
<1>. QED  BY <1>4, <1>6, <1>7, <1>8 DEF l

(***************************************************************************)
(* What the handle is filled with, and what READDIR answers                *)
(***************************************************************************)
LEMMA FillWholeIs ==
    ASSUME names \subseteq Slots
    PROVE  /\ FillWhole \in Seq(DirRec) /\ InOrder(FillWhole)
           /\ SlotsOf(FillWhole) = names
           /\ \A i \in DOMAIN FillWhole :
                  FillWhole[i].off = Ends(Slotted(FillWhole))[i]
<1>. DEFINE l == Listed(0)
            e == Ends(l)
            W == FillWhole
<1>1. /\ l \in Seq(Slots) /\ Ascends(l)
      /\ \A i \in 1..Len(l) : l[i] \in names /\ l[i] > 0
      /\ \A s \in names : s > 0 => \E i \in 1..Len(l) : l[i] = s
    BY ListedIs
<1>2. \A s \in names : s > 0
    BY DirAssumption
<1>3. \A i \in 0..Len(l) : e[i] \in Nat
    BY <1>1, EndsNat
<1>4. W = [i \in 1..Len(l) |-> [slot |-> l[i], off |-> e[i]]]
    BY DEF FillWhole
<1>. HIDE DEF l, e, W
<1>5. Len(l) \in Nat /\ DOMAIN l = 1..Len(l)
    BY <1>1
<1>6. DOMAIN W = 1..Len(l) /\ \A i \in 1..Len(l) : W[i].slot = l[i] /\ W[i].off = e[i]
    BY <1>4
<1>7. W \in Seq(DirRec)
    <2>1. \A i \in 1..Len(l) : [slot |-> l[i], off |-> e[i]] \in DirRec
        BY <1>1, <1>3, <1>5 DEF DirRec
    <2>2. W \in [1..Len(l) -> DirRec]
        BY <1>4, <2>1
    <2>. QED  BY <1>5, <2>2
<1>8. Slotted(W) = l
    <2>1. Slotted(W) = [i \in 1..Len(l) |-> l[i]]
        BY <1>6 DEF Slotted
    <2>. QED  BY <1>1, <2>1
<1>9. InOrder(W)
    BY <1>1, <1>5, <1>6 DEF InOrder, Ascends
<1>10. SlotsOf(W) = names
    BY <1>1, <1>2, <1>6 DEF SlotsOf
<1>11. \A i \in DOMAIN W : W[i].off = Ends(Slotted(W))[i]
    BY <1>6, <1>8 DEF e
<1>. QED  BY <1>7, <1>9, <1>10, <1>11 DEF W

LEMMA FillPageIs ==
    ASSUME names \subseteq Slots, NEW off \in Nat
    PROVE  LET P == FillPage(off)
           IN  /\ P \in Seq(DirRec) /\ InOrder(P)
               /\ \A i \in DOMAIN P : /\ P[i].off = P[i].slot
                                      /\ P[i].slot \in names /\ P[i].slot > off
               /\ P = <<>> => \A s \in names : s <= off
               /\ \A i \in DOMAIN P : \A s \in names :
                      off < s /\ s <= P[i].slot => \E j \in DOMAIN P : j <= i /\ P[j].slot = s
<1>. DEFINE l == Listed(off)
            e == Ends(l)
            fits == {n \in 0..Len(l) : e[n] =< PageSize}
            most == CHOOSE n \in fits : \A m \in fits : m =< n
            P == FillPage(off)
<1>0. Slots \subseteq Nat
    BY DirAssumption
<1>1. /\ l \in Seq(Slots) /\ Ascends(l)
      /\ \A i \in 1..Len(l) : l[i] \in names /\ l[i] > off
      /\ \A s \in names : s > off => \E i \in 1..Len(l) : l[i] = s
    BY ListedIs
<1>2. e[0] = 0 /\ \A i \in 1..Len(l) : e[i] = e[i - 1] + Length[l[i]]
    BY <1>1, EndsUnfold
<1>3. P = [i \in 1..most |-> [slot |-> l[i], off |-> l[i]]]
    BY DEF FillPage
<1>. HIDE DEF l, e
<1>4. Len(l) \in Nat /\ DOMAIN l = 1..Len(l) /\ PageSize \in Nat
    BY <1>1, DirAssumption
<1>5. 0 \in fits
    BY <1>2, <1>4
<1>6. Len(l) # 0 => 1 \in fits
    <2>1. SUFFICES ASSUME Len(l) # 0 PROVE 1 \in fits
        OBVIOUS
    <2>2. 1 \in 1..Len(l) /\ 1 \in 0..Len(l) /\ 1 - 1 = 0
        BY <1>4, <2>1
    <2>3. l[1] \in Slots
        BY <1>1, <2>2
    <2>4. Length[l[1]] \in Nat /\ Length[l[1]] <= PageSize
        BY <2>3, LengthIs
    <2>5. e[1] = 0 + Length[l[1]]
        BY <1>2, <2>2
    <2>. QED  BY <2>2, <2>4, <2>5
<1>7. fits \subseteq 0..Len(l)
    OBVIOUS
<1>. HIDE DEF fits
<1>8. most \in fits /\ \A m \in fits : m <= most
    <2>1. \E x \in fits : \A y \in fits : y <= x
        BY <1>4, <1>5, <1>7, GreatestOf
    <2>. QED  BY <2>1
<1>. HIDE DEF most, P
<1>9. most \in 0..Len(l) /\ (most = 0 => Len(l) = 0)
    BY <1>4, <1>6, <1>7, <1>8
<1>10. DOMAIN P = 1..most /\ \A i \in 1..most : P[i].slot = l[i] /\ P[i].off = l[i] /\ i \in 1..Len(l)
    BY <1>3, <1>9, <1>4
<1>11. P \in Seq(DirRec)
    <2>1. \A i \in 1..most : [slot |-> l[i], off |-> l[i]] \in DirRec
        BY <1>0, <1>1, <1>10 DEF DirRec
    <2>2. P \in [1..most -> DirRec]
        BY <1>3, <2>1
    <2>. QED  BY <1>9, <2>2
<1>12. InOrder(P)
    BY <1>1, <1>4, <1>10 DEF InOrder, Ascends
<1>13. P = <<>> => \A s \in names : s <= off
    <2>1. ASSUME P = <<>> PROVE most = 0
        BY <1>9, <1>10, <2>1
    <2>2. ASSUME P = <<>>, NEW s \in names PROVE s <= off
        <3>1. ~(s > off)
            BY <1>1, <1>9, <2>1, <2>2
        <3>2. s \in Nat
            BY <1>0
        <3>. QED  BY <3>1, <3>2
    <2>. QED  BY <2>2
<1>14. ASSUME NEW i \in DOMAIN P, NEW s \in names, off < s /\ s <= P[i].slot
       PROVE  \E j \in DOMAIN P : j <= i /\ P[j].slot = s
    <2>1. PICK j \in 1..Len(l) : l[j] = s
        BY <1>1, <1>14
    <2>2. i \in 1..Len(l) /\ l[i] = P[i].slot /\ i \in 1..most
        BY <1>10
    <2>3. l[i] \in Nat /\ l[j] \in Nat
        BY <1>0, <1>1, <2>1, <2>2
    <2>4. ~(i < j)
        BY <1>1, <1>4, <1>14, <2>1, <2>2, <2>3 DEF Ascends
    <2>5. j \in 1..most /\ j <= i
        BY <1>9, <2>1, <2>2, <2>4
    <2>. QED  BY <1>10, <2>1, <2>5
<1>. QED  BY <1>1, <1>10, <1>11, <1>12, <1>13, <1>14 DEF P

\* The position after so many records.
After(recs, k) == IF k = 0 THEN 0 ELSE recs[k].off

\* The position off is the one after k records of the listing of h.
Stands(h, recs, k, off) ==
    /\ h.filled /\ h.recs = recs /\ recs \in Seq(DirRec)
    /\ \A i \in DOMAIN recs : recs[i].off = Ends(Slotted(recs))[i]
    /\ k \in 0..Len(recs) /\ off = After(recs, k)

\* A whole listing answers the records after the position, at least one.
LEMMA WholeReply ==
    ASSUME NEW h, NEW recs, NEW k, NEW off, Stands(h, recs, k, off)
    PROVE  /\ k = Len(recs) => ReplyRecs(h, off) = <<>>
           /\ k # Len(recs) => \E m \in (k + 1)..Len(recs) :
                                  ReplyRecs(h, off) = SubSeq(recs, k + 1, m)
<1>. DEFINE l == Slotted(recs)
            e == Ends(l)
            sent == {i \in DOMAIN recs : off =< e[i - 1] /\ e[i] =< off + PageSize}
<1>0. /\ h.filled /\ h.recs = recs /\ recs \in Seq(DirRec)
      /\ \A i \in DOMAIN recs : recs[i].off = Ends(Slotted(recs))[i]
      /\ k \in 0..Len(recs) /\ off = After(recs, k)
    BY DEF Stands
<1>1. l \in Seq(Slots) /\ Len(l) = Len(recs) /\ Len(recs) \in Nat /\ DOMAIN recs = 1..Len(recs)
    <2>1. \A i \in 1..Len(recs) : recs[i].slot \in Slots
        <3>1. \A i \in 1..Len(recs) : recs[i] \in DirRec
            BY <1>0
        <3>. QED  BY <3>1 DEF DirRec
    <2>2. l \in [1..Len(recs) -> Slots]
        BY <1>0, <2>1 DEF Slotted
    <2>. HIDE DEF l
    <2>. QED  BY <1>0, <2>2
<1>2. e[0] = 0 /\ \A i \in 1..Len(l) : e[i] = e[i - 1] + Length[l[i]]
    BY <1>1, EndsUnfold
<1>3. \A i \in 0..Len(l) : e[i] \in Nat
    BY <1>1, EndsNat
<1>4. \A i \in 0..Len(l) : \A j \in 0..Len(l) : i < j => e[i] < e[j]
    BY <1>1, EndsGrow
<1>5. off = e[k]
    BY <1>0, <1>1, <1>2 DEF After
<1>6. ReplyRecs(h, off) = IF sent = {} THEN <<>> ELSE SubSeq(recs, Min(sent), Max(sent))
    BY <1>0 DEF ReplyRecs, Slotted
<1>. HIDE DEF l, e
<1>7. ASSUME NEW i \in sent PROVE i \in (k + 1)..Len(recs)
    <2>1. i \in 1..Len(recs) /\ i - 1 \in 0..Len(l) /\ e[k] <= e[i - 1]
        BY <1>0, <1>1, <1>5, <1>7
    <2>2. ~(i - 1 < k)
        <3>1. e[k] \in Nat /\ e[i - 1] \in Nat
            BY <1>0, <1>1, <1>3, <2>1
        <3>2. i - 1 < k => e[i - 1] < e[k]
            BY <1>0, <1>1, <1>4, <2>1
        <3>. QED  BY <2>1, <3>1, <3>2
    <2>. QED  BY <1>0, <1>1, <2>1, <2>2
<1>8. CASE k = Len(recs)
    <2>1. sent = {}
        BY <1>0, <1>1, <1>7, <1>8
    <2>. QED  BY <1>6, <1>8, <2>1
<1>9. CASE k # Len(recs)
    <2>1. k + 1 \in 1..Len(l) /\ k + 1 \in DOMAIN recs /\ (k + 1) - 1 = k
        BY <1>0, <1>1, <1>9
    <2>2. l[k + 1] \in Slots
        BY <1>1, <2>1
    <2>3. Length[l[k + 1]] \in Nat /\ Length[l[k + 1]] <= PageSize /\ PageSize \in Nat
        BY <2>2, LengthIs
    <2>4. e[k + 1] = e[k] + Length[l[k + 1]] /\ e[k] \in Nat
        BY <1>0, <1>1, <1>2, <1>3, <2>1
    <2>5. k + 1 \in sent
        BY <1>5, <2>1, <2>3, <2>4
    <2>. HIDE DEF sent
    <2>6. Min(sent) = k + 1
        <3>1. \A y \in sent : k + 1 <= y
            BY <1>7
        <3>2. \A x \in sent : (\A y \in sent : x <= y) => x = k + 1
            <4>. SUFFICES ASSUME NEW x \in sent, \A y \in sent : x <= y PROVE x = k + 1
                OBVIOUS
            <4>1. x \in (k + 1)..Len(recs) /\ x <= k + 1
                BY <1>7, <2>5
            <4>. QED  BY <4>1, <1>0, <1>1
        <3>. QED  BY <2>5, <3>1, <3>2 DEF Min
    <2>7. Max(sent) \in sent
        <3>1. sent \subseteq 0..Len(recs)
            BY <1>0, <1>1, <1>7
        <3>2. \E x \in sent : \A y \in sent : y <= x
            BY <1>1, <2>5, <3>1, GreatestOf
        <3>3. \E x \in sent : \A y \in sent : x >= y
            BY <1>7, <3>2
        <3>. QED  BY <3>3 DEF Max
    <2>8. Max(sent) \in (k + 1)..Len(recs)
        BY <1>7, <2>7
    <2>. QED  BY <1>6, <1>9, <2>5, <2>6, <2>8
<1>. QED  BY <1>8, <1>9

(***************************************************************************)
(* The steps of a listing keep the invariant                               *)
(***************************************************************************)
LEMMA SlotlessHandle ==
    /\ NoHandle \in DirHandle /\ ~NoHandle.filled
    /\ fuse_lib_opendir \in DirHandle /\ ~fuse_lib_opendir.filled
    /\ <<>> \in Seq(DirRec) /\ DOMAIN <<>> = {}
<1>1. <<>> \in Seq(DirRec)
    OBVIOUS
<1>. QED  BY <1>1 DEF NoHandle, fuse_lib_opendir, DirHandle

LEMMA DirInvInit == DirInit => DirInv
<1>. SUFFICES ASSUME DirInit PROVE DirInv
    OBVIOUS
<1>1. /\ names \subseteq Slots /\ offsets \in BOOLEAN /\ dh = NoHandle /\ fpos = 0 /\ got = <<>>
      /\ pass = [always |-> names, ever |-> names] /\ ended = FALSE /\ reSeeked = FALSE
    BY DEF DirInit
<1>2. dh \in DirHandle /\ ~dh.filled /\ got \in Seq(DirRec) /\ DOMAIN got = {}
    BY <1>1, SlotlessHandle
<1>3. pass \in [always : SUBSET Slots, ever : SUBSET Slots] /\ pass.always = names /\ pass.ever = names
    BY <1>1
<1>4. DirTypeOK
    BY <1>1, <1>2, <1>3 DEF DirTypeOK
<1>5. PassOK
    BY <1>1, <1>2, <1>3 DEF PassOK, InOrder, SlotsOf
<1>6. WholeOK
    BY <1>1 DEF WholeOK
<1>7. PagesOK
    <2>1. \A s \in pass.always : ~(s <= fpos)
        BY <1>1, <1>3, DirAssumption
    <2>. QED  BY <1>1, <1>2, <2>1 DEF PagesOK
<1>. QED  BY <1>4, <1>5, <1>6, <1>7 DEF DirInv

\* A pass that begins.
LEMMA RestartStep ==
    ASSUME DirInv, Restart, UNCHANGED <<names, offsets>>,
           dh' \in DirHandle,
           offsets /\ dh'.filled => dh'.recs = <<>>
    PROVE  DirInv'
<1>1. DirTypeOK'
    <2>1. names' \subseteq Slots /\ offsets' \in BOOLEAN /\ names' = names
        BY DEF DirInv, DirTypeOK
    <2>2. /\ fpos' = 0 /\ got' = <<>> /\ ended' = FALSE /\ reSeeked' = FALSE
          /\ pass' = [always |-> names, ever |-> names]
        BY DEF Restart
    <2>3. got' \in Seq(DirRec)
        BY <2>2, SlotlessHandle
    <2>4. pass' \in [always : SUBSET Slots, ever : SUBSET Slots]
        BY <2>1, <2>2
    <2>. QED  BY <2>1, <2>2, <2>3, <2>4 DEF DirTypeOK
<1>2. PassOK'
    <2>1. got' = <<>> /\ fpos' = 0 /\ DOMAIN got' = {} /\ pass' = [always |-> names, ever |-> names]
        BY DEF Restart
    <2>. QED  BY <2>1 DEF PassOK, InOrder, SlotsOf
<1>3. WholeOK'
    BY DEF Restart, WholeOK
<1>4. offsets' => PagesOK'
    <2>1. got' = <<>> /\ fpos' = 0 /\ DOMAIN got' = {} /\ ended' = FALSE
        BY DEF Restart
    <2>2. \A s \in pass'.always : ~(s <= fpos')
        BY <2>1, DirAssumption DEF Restart, DirInv, DirTypeOK
    <2>. QED  BY <2>1, <2>2 DEF PagesOK
<1>. QED  BY <1>1, <1>2, <1>3, <1>4 DEF DirInv

LEMMA OpenReleaseRewind ==
    ASSUME DirInv, fuse_dir_open \/ fuse_lib_releasedir \/ Rewind
    PROVE  DirInv'
<1>1. CASE fuse_dir_open \/ fuse_lib_releasedir
    <2>1. dh' \in DirHandle /\ ~dh'.filled
        BY <1>1, SlotlessHandle DEF fuse_dir_open, fuse_lib_releasedir
    <2>. QED  BY <1>1, <2>1, RestartStep DEF fuse_dir_open, fuse_lib_releasedir
<1>2. CASE Rewind
    <2>1. dh' = dh
        BY <1>2 DEF Rewind
    <2>. QED  BY <1>2, <2>1, RestartStep DEF Rewind, DirInv, DirTypeOK, PagesOK
<1>. QED  BY <1>1, <1>2

\* The directory changes: what was there throughout gets less, what was there
\* at some time gets more.
LEMMA ChangeStep ==
    ASSUME DirInv, NEW s \in Slots, Change(s)
    PROVE  DirInv'
<1>1. /\ UNCHANGED <<offsets, dh, fpos, got, ended, reSeeked>>
      /\ pass' = [always |-> pass.always \cap names', ever |-> pass.ever \cup names']
      /\ names' \subseteq Slots
    BY DEF Change, DirInv, DirTypeOK
<1>2. /\ pass'.always \subseteq pass.always /\ pass'.always \subseteq names'
      /\ pass.ever \subseteq pass'.ever /\ names' \subseteq pass'.ever
    BY <1>1
<1>3. DirTypeOK'
    BY <1>1 DEF DirInv, DirTypeOK
<1>4. PassOK'
    BY <1>1, <1>2 DEF DirInv, PassOK, InOrder, SlotsOf
<1>5. ~offsets' => WholeOK'
    BY <1>1, <1>2 DEF DirInv, WholeOK, Whole, InOrder, SlotsOf
<1>6. offsets' => PagesOK'
    BY <1>1, <1>2 DEF DirInv, PagesOK, SlotsOf
<1>. QED  BY <1>3, <1>4, <1>5, <1>6 DEF DirInv

LEMMA FailsStep ==
    ASSUME DirInv, fuse_readdir_fails
    PROVE  DirInv'
<1>1. /\ UNCHANGED <<names, offsets, fpos, got, pass, reSeeked>>
      /\ ended' = FALSE /\ ~ Begun(dh, fpos).filled
      /\ dh' = readdir_fails(Begun(dh, fpos))
    BY DEF fuse_readdir_fails
<1>2. fpos # 0 => ~dh.filled
    BY <1>1 DEF Begun
<1>3. dh' \in DirHandle /\ ~dh'.filled
    <2>1. dh \in DirHandle
        BY DEF DirInv, DirTypeOK
    <2>2. Begun(dh, fpos) \in DirHandle
        BY <2>1 DEF Begun, DirHandle
    <2>3. <<>> \in Seq(DirRec)
        OBVIOUS
    <2>. QED  BY <1>1, <2>2, <2>3 DEF readdir_fails, DirHandle
<1>4. DirTypeOK'
    BY <1>1, <1>3 DEF DirInv, DirTypeOK
<1>5. PassOK'
    BY <1>1 DEF DirInv, PassOK, InOrder, SlotsOf
<1>6. ~offsets' => WholeOK'
    BY <1>1, <1>2 DEF DirInv, WholeOK
<1>7. offsets' => PagesOK'
    BY <1>1, <1>3 DEF DirInv, PagesOK, SlotsOf
<1>. QED  BY <1>4, <1>5, <1>6, <1>7 DEF DirInv

\* The beginning of what was returned.
LEMMA Prefix ==
    ASSUME NEW g \in Seq(DirRec), NEW i \in 1..Len(g)
    PROVE  LET p == SubSeq(g, 1, i)
           IN  /\ p \in Seq(DirRec) /\ Len(p) = i /\ DOMAIN p = 1..i /\ p # <<>>
               /\ \A j \in 1..i : p[j] = g[j] /\ j \in DOMAIN g
<1>. DEFINE p == SubSeq(g, 1, i)
<1>1. p \in Seq(DirRec) /\ Len(p) = i /\ \A j \in 1..i : p[j] = g[j]
    OBVIOUS
<1>2. i \in Nat /\ i # 0
    OBVIOUS
<1>. HIDE DEF p
<1>3. DOMAIN p = 1..i /\ p # <<>>
    BY <1>1, <1>2
<1>4. \A j \in 1..i : j \in DOMAIN g
    OBVIOUS
<1>. QED  BY <1>1, <1>3, <1>4 DEF p

LEMMA SeekBackStep ==
    ASSUME DirInv, SeekBack
    PROVE  DirInv'
<1>1. PICK i \in 1..Len(got) : fpos' = got[i].off /\ got' = SubSeq(got, 1, i)
    BY DEF SeekBack
<1>2. /\ UNCHANGED <<names, offsets, dh, pass>>
      /\ reSeeked' = (reSeeked \/ ended) /\ ended' = FALSE
    BY DEF SeekBack
<1>3. got \in Seq(DirRec) /\ i \in DOMAIN got /\ Len(got) \in Nat /\ DOMAIN got = 1..Len(got) /\ i <= Len(got)
    BY DEF DirInv, DirTypeOK
<1>4. /\ got' \in Seq(DirRec) /\ Len(got') = i /\ DOMAIN got' = 1..i /\ got' # <<>>
      /\ \A j \in 1..i : got'[j] = got[j] /\ j \in DOMAIN got
    BY <1>1, <1>3, Prefix
<1>5. got[i] \in DirRec /\ got[i].off \in Nat /\ got[i].slot \in Slots /\ got[i].off # 0
    <2>1. got[i] \in DirRec /\ got[i].off # 0
        BY <1>3 DEF DirInv, PassOK
    <2>. QED  BY <2>1 DEF DirRec
<1>6. DirTypeOK'
    BY <1>1, <1>2, <1>4, <1>5 DEF DirInv, DirTypeOK
<1>7. SlotsOf(got') \subseteq SlotsOf(got)
    BY <1>4 DEF SlotsOf
<1>8. PassOK'
    <2>1. InOrder(got')
        BY <1>4 DEF DirInv, PassOK, InOrder
    <2>2. fpos' = got'[Len(got')].off
        BY <1>1, <1>4
    <2>3. \A j \in DOMAIN got' : got'[j].off # 0
        BY <1>4 DEF DirInv, PassOK
    <2>. QED  BY <1>2, <1>4, <1>7, <2>1, <2>2, <2>3 DEF DirInv, PassOK
<1>9. got # <<>> /\ fpos # 0
    <2>1. got # <<>>
        BY <1>3
    <2>2. Len(got) \in DOMAIN got
        BY <1>3
    <2>. QED  BY <2>1, <2>2 DEF DirInv, PassOK
<1>10. ~offsets' => WholeOK'
    <2>. SUFFICES ASSUME ~offsets PROVE WholeOK'
        BY <1>2
    <2>1. /\ dh.filled /\ Whole(dh.recs) /\ Len(got) <= Len(dh.recs)
          /\ \A j \in DOMAIN got : got[j] = dh.recs[j]
        BY <1>9 DEF DirInv, WholeOK
    <2>2. Whole(dh.recs)'
        BY <1>2, <2>1 DEF Whole, InOrder, SlotsOf
    <2>3. Len(dh.recs) \in Nat
        BY DEF DirInv, DirTypeOK, DirHandle
    <2>4. Len(got') <= Len(dh'.recs)
        BY <1>2, <1>3, <1>4, <2>1, <2>3
    <2>5. \A j \in DOMAIN got' : got'[j] = dh'.recs[j]
        BY <1>2, <1>4, <2>1
    <2>. QED  BY <1>1, <1>2, <1>5, <2>1, <2>2, <2>4, <2>5 DEF WholeOK
<1>11. offsets' => PagesOK'
    <2>. SUFFICES ASSUME offsets PROVE PagesOK'
        BY <1>2
    <2>1. PagesOK
        BY DEF DirInv
    <2>2. \A j \in DOMAIN got' : got'[j].off = got'[j].slot
        BY <1>4, <2>1 DEF PagesOK
    <2>3. ASSUME NEW s \in pass.always, s <= fpos' PROVE s \in SlotsOf(got')
        <3>1. fpos' = got[i].slot /\ fpos = got[Len(got)].slot /\ Len(got) \in DOMAIN got
            BY <1>1, <1>3, <1>9, <2>1 DEF PagesOK, DirInv, PassOK
        <3>2. \A j \in DOMAIN got : got[j].slot \in Nat
            <4>1. \A j \in DOMAIN got : got[j] \in DirRec
                BY <1>3
            <4>. QED  BY <4>1, DirAssumption DEF DirRec
        <3>3. got[i].slot <= got[Len(got)].slot
            <4>1. InOrder(got)
                BY DEF DirInv, PassOK
            <4>2. i = Len(got) \/ i < Len(got)
                BY <1>3
            <4>. QED  BY <1>3, <3>1, <3>2, <4>1, <4>2 DEF InOrder
        <3>4. s \in Nat
            BY DirAssumption DEF DirInv, DirTypeOK
        <3>5. s <= fpos
            BY <1>3, <2>3, <3>1, <3>2, <3>3, <3>4
        <3>6. PICK j \in DOMAIN got : got[j].slot = s
            BY <2>1, <3>5 DEF PagesOK, SlotsOf
        <3>7. ~(i < j)
            <4>1. i < j => got[i].slot < got[j].slot
                BY <1>3 DEF DirInv, PassOK, InOrder
            <4>2. got[i].slot \in Nat /\ got[j].slot \in Nat /\ s <= got[i].slot
                BY <1>3, <2>3, <3>1, <3>2
            <4>. QED  BY <4>1, <4>2, <3>6
        <3>8. j \in 1..i
            BY <1>3, <3>7
        <3>. QED  BY <1>4, <3>6, <3>8 DEF SlotsOf
    <2>4. dh'.filled => dh'.recs = <<>> /\ (fpos' = 0 \/ ended' \/ reSeeked')
        BY <1>2, <1>9, <2>1 DEF PagesOK
    <2>. QED  BY <1>2, <2>2, <2>3, <2>4 DEF PagesOK
<1>. QED  BY <1>6, <1>8, <1>10, <1>11 DEF DirInv

LEMMA RecordsJoined ==
    ASSUME NEW a \in Seq(DirRec), NEW b \in Seq(DirRec)
    PROVE  /\ a \o b \in Seq(DirRec) /\ Len(a \o b) = Len(a) + Len(b)
           /\ \A i \in 1..Len(a) : (a \o b)[i] = a[i]
           /\ \A i \in 1..Len(b) : (a \o b)[Len(a) + i] = b[i]
<1>1. a \o b \in Seq(DirRec) /\ Len(a \o b) = Len(a) + Len(b)
    OBVIOUS
<1>2. ASSUME NEW i \in 1..Len(a) PROVE (a \o b)[i] = a[i]
    OBVIOUS
<1>3. ASSUME NEW i \in 1..Len(b) PROVE (a \o b)[Len(a) + i] = b[i]
    OBVIOUS
<1>. QED  BY <1>1, <1>2, <1>3

\* What the kernel takes of an answer comes after what it had.
LEMMA ParseIs ==
    ASSUME got \in Seq(DirRec), NEW recs, recs \in Seq(DirRec), NEW n, n \in 0..Len(recs),
           parse_dirfile(recs, n)
    PROVE  /\ got' \in Seq(DirRec) /\ Len(got') = Len(got) + n
           /\ Len(got) \in Nat /\ DOMAIN got = 1..Len(got) /\ DOMAIN got' = 1..(Len(got) + n)
           /\ \A i \in 1..Len(got) : got'[i] = got[i]
           /\ \A i \in 1..n : got'[Len(got) + i] = recs[i] /\ i \in DOMAIN recs
           /\ fpos' = (IF n = 0 THEN fpos ELSE got'[Len(got) + n].off)
           /\ ended' = (recs = <<>>)
<1>. DEFINE tail == [i \in 1..n |-> [slot |-> recs[i].slot, off |-> recs[i].off]]
<1>1. n \in Nat /\ Len(got) \in Nat /\ DOMAIN got = 1..Len(got) /\ \A i \in 1..n : i \in DOMAIN recs
    OBVIOUS
<1>2. \A i \in 1..n : tail[i] = recs[i]
    <2>1. \A i \in 1..n : recs[i] \in DirRec
        BY <1>1
    <2>2. \A r \in DirRec : r = [slot |-> r.slot, off |-> r.off]
        BY DEF DirRec
    <2>. QED  BY <2>1, <2>2
<1>3. tail \in Seq(DirRec) /\ Len(tail) = n
    <2>1. tail \in [1..n -> DirRec]
        BY <1>1, <1>2
    <2>. HIDE DEF tail
    <2>. QED  BY <1>1, <2>1
<1>4. got' = got \o tail
    BY DEF parse_dirfile
<1>. HIDE DEF tail
<1>5. /\ got' \in Seq(DirRec) /\ Len(got') = Len(got) + n
      /\ \A i \in 1..Len(got) : got'[i] = got[i]
      /\ \A i \in 1..n : got'[Len(got) + i] = tail[i]
    BY <1>3, <1>4, RecordsJoined
<1>6. DOMAIN got' = 1..(Len(got) + n)
    BY <1>5
<1>7. fpos' = (IF n = 0 THEN fpos ELSE got'[Len(got) + n].off)
    <2>1. n # 0 => n \in 1..n
        BY <1>1
    <2>2. fpos' = (IF n = 0 THEN fpos ELSE recs[n].off)
        BY DEF parse_dirfile
    <2>. QED  BY <1>2, <1>5, <2>1, <2>2
<1>8. ended' = (recs = <<>>)
    BY DEF parse_dirfile
<1>. QED  BY <1>1, <1>2, <1>5, <1>6, <1>7, <1>8

\* The answer continues the pass.
LEMMA PassGoesOn ==
    ASSUME DirInv, NEW recs, recs \in Seq(DirRec), NEW n, n \in 0..Len(recs),
           parse_dirfile(recs, n), UNCHANGED <<names, pass>>,
           InOrder(recs), SlotsOf(recs) \subseteq pass.ever,
           \A i \in DOMAIN recs : recs[i].off # 0,
           \A j \in DOMAIN got : \A i \in DOMAIN recs : got[j].slot < recs[i].slot
    PROVE  PassOK'
<1>. DEFINE k == Len(got)
<1>0. got \in Seq(DirRec) /\ PassOK
    BY DEF DirInv, DirTypeOK
<1>1. /\ got' \in Seq(DirRec) /\ Len(got') = k + n
      /\ k \in Nat /\ DOMAIN got = 1..k /\ DOMAIN got' = 1..(k + n)
      /\ \A i \in 1..k : got'[i] = got[i]
      /\ \A i \in 1..n : got'[k + i] = recs[i] /\ i \in DOMAIN recs
      /\ fpos' = (IF n = 0 THEN fpos ELSE got'[k + n].off)
    BY <1>0, ParseIs
<1>. HIDE DEF k
<1>2. n \in Nat
    OBVIOUS
<1>3. ASSUME NEW i \in DOMAIN got'
      PROVE  (i \in 1..k /\ got'[i] = got[i]) \/ (i - k \in DOMAIN recs /\ got'[i] = recs[i - k] /\ i > k)
    <2>1. CASE i <= k
        BY <1>1, <2>1
    <2>2. CASE i > k
        <3>1. i - k \in 1..n /\ k + (i - k) = i
            BY <1>1, <1>2, <2>2
        <3>. QED  BY <1>1, <2>2, <3>1
    <2>. QED  BY <1>1, <2>1, <2>2
<1>4. InOrder(got')
    <2>. SUFFICES ASSUME NEW i \in DOMAIN got', NEW j \in DOMAIN got', i < j
                  PROVE  got'[i].slot < got'[j].slot
        BY DEF InOrder
    <2>1. i \in Int /\ j \in Int
        BY <1>1
    <2>2. CASE j \in 1..k
        <3>1. i \in 1..k
            BY <1>1, <2>1, <2>2
        <3>. QED  BY <1>0, <1>1, <2>2, <3>1 DEF PassOK, InOrder
    <2>3. CASE j \notin 1..k /\ i \in 1..k
        BY <1>1, <1>3, <2>3
    <2>4. CASE j \notin 1..k /\ i \notin 1..k
        <3>1. i - k \in DOMAIN recs /\ j - k \in DOMAIN recs /\ i - k < j - k
            BY <1>1, <1>3, <2>1, <2>4
        <3>. QED  BY <1>3, <2>4, <3>1 DEF InOrder
    <2>. QED  BY <2>2, <2>3, <2>4
<1>5. SlotsOf(got') \subseteq pass'.ever
    <2>. SUFFICES ASSUME NEW i \in DOMAIN got' PROVE got'[i].slot \in pass.ever
        BY DEF SlotsOf
    <2>1. \A j \in 1..k : got[j].slot \in pass.ever
        BY <1>0, <1>1 DEF PassOK, SlotsOf
    <2>2. \A j \in DOMAIN recs : recs[j].slot \in pass.ever
        BY DEF SlotsOf
    <2>. QED  BY <1>3, <2>1, <2>2
<1>6. \A i \in DOMAIN got' : got'[i].off # 0
    BY <1>0, <1>1, <1>3 DEF PassOK
<1>7. fpos' = IF got' = <<>> THEN 0 ELSE got'[Len(got')].off
    <2>1. CASE n = 0
        <3>1. Len(got') = k /\ DOMAIN got' = 1..k /\ fpos' = fpos
            BY <1>1, <2>1
        <3>2. got' = got
            <4>1. \A i \in 1..k : got'[i] = got[i]
                BY <1>1
            <4>. QED  BY <1>0, <1>1, <3>1, <4>1
        <3>. QED  BY <1>0, <3>1, <3>2 DEF PassOK, k
    <2>2. CASE n # 0
        <3>1. got' # <<>>
            BY <1>1, <1>2, <2>2
        <3>. QED  BY <1>1, <2>2, <3>1
    <2>. QED  BY <2>1, <2>2
<1>. QED  BY <1>0, <1>4, <1>5, <1>6, <1>7 DEF PassOK

\* The handle that READDIR works with.
Filled(h, off) == IF h.filled THEN h ELSE fill_dir(h, off)

LEMMA FilledIs ==
    ASSUME DirInv
    PROVE  LET g == Filled(Begun(dh, fpos), fpos)
           IN  /\ g \in DirHandle
               /\ ~offsets => g.filled /\ Whole(g.recs) /\ Len(got) <= Len(g.recs)
                              /\ \A i \in DOMAIN got : got[i] = g.recs[i]
               /\ offsets => \/ /\ g = dh /\ fpos # 0 /\ dh.filled /\ g.recs = <<>>
                             \/ /\ g.recs = FillPage(fpos) /\ g.filled = (g.recs = <<>>)
<1>. DEFINE h == Begun(dh, fpos)
            g == Filled(h, fpos)
<1>0. /\ dh \in DirHandle /\ fpos \in Nat /\ names \subseteq Slots /\ PassOK /\ offsets \in BOOLEAN
      /\ ~offsets => WholeOK
      /\ offsets => PagesOK
      /\ got \in Seq(DirRec)
    BY DEF DirInv, DirTypeOK
<1>1. CASE h.filled
    <2>1. fpos # 0 /\ h = dh /\ g = dh /\ dh.filled
        BY <1>1 DEF Begun, Filled
    <2>2. ~offsets => /\ Whole(dh.recs) /\ Len(got) <= Len(dh.recs)
                      /\ \A i \in DOMAIN got : got[i] = dh.recs[i]
        BY <1>0, <2>1 DEF WholeOK
    <2>3. offsets => dh.recs = <<>>
        BY <1>0, <2>1 DEF PagesOK
    <2>. HIDE DEF g, h
    <2>. QED  BY <1>0, <2>1, <2>2, <2>3 DEF g, h
<1>2. CASE ~h.filled
    <2>1. h \in DirHandle
        BY <1>0 DEF Begun, DirHandle
    <2>2. g = fill_dir(h, fpos)
        BY <1>2 DEF Filled
    <2>. HIDE DEF g
    <2>3. CASE ~offsets
        <3>1. fpos = 0 /\ got = <<>>
            <4>1. fpos = 0
                BY <1>0, <1>2, <2>3 DEF WholeOK, Begun
            <4>2. got # <<>> => Len(got) \in DOMAIN got
                BY <1>0
            <4>. QED  BY <1>0, <4>1, <4>2 DEF PassOK
        <3>2. g = [h EXCEPT !.recs = FillWhole, !.filled = TRUE]
            BY <2>2, <2>3 DEF fill_dir
        <3>3. /\ FillWhole \in Seq(DirRec) /\ InOrder(FillWhole)
              /\ SlotsOf(FillWhole) = names
              /\ \A i \in DOMAIN FillWhole : FillWhole[i].off = Ends(Slotted(FillWhole))[i]
            BY <1>0, FillWholeIs
        <3>. HIDE DEF h
        <3>4. g.filled /\ g.recs = FillWhole /\ g \in DirHandle
            BY <2>1, <3>2, <3>3 DEF DirHandle
        <3>5. Whole(g.recs)
            BY <1>0, <3>3, <3>4 DEF Whole, PassOK
        <3>6. Len(got) = 0 /\ DOMAIN got = {} /\ Len(g.recs) \in Nat
            BY <3>1, <3>3, <3>4
        <3>7. Len(got) <= Len(g.recs)
            BY <3>6
        <3>. QED  BY <2>3, <3>4, <3>5, <3>6, <3>7 DEF g, h
    <2>4. CASE offsets
        <3>1. g = [h EXCEPT !.recs = FillPage(fpos), !.filled = (FillPage(fpos) = <<>>)]
            BY <2>2, <2>4 DEF fill_dir
        <3>2. FillPage(fpos) \in Seq(DirRec)
            BY <1>0, FillPageIs
        <3>. HIDE DEF h
        <3>3. g.recs = FillPage(fpos) /\ g.filled = (FillPage(fpos) = <<>>) /\ g \in DirHandle
            BY <2>1, <3>1, <3>2 DEF DirHandle
        <3>. QED  BY <2>4, <3>3 DEF g, h
    <2>. QED  BY <1>0, <2>3, <2>4
<1>. QED  BY <1>1, <1>2

\* What comes of READDIR: the handle, and records from which some are taken.
LEMMA ReaddirIs ==
    ASSUME fuse_readdir
    PROVE  \E recs : \E n :
               /\ dh' = Filled(Begun(dh, fpos), fpos)
               /\ recs = ReplyRecs(Filled(Begun(dh, fpos), fpos), fpos)
               /\ n \in 0..Len(recs) /\ (n = 0 => recs = <<>>)
               /\ parse_dirfile(recs, n)
               /\ UNCHANGED <<names, offsets, pass, reSeeked>>
<1>. DEFINE g == Filled(Begun(dh, fpos), fpos)
            recs == ReplyRecs(g, fpos)
<1>1. /\ dh' = g
      /\ \E n \in 0..Len(recs) : (n = 0 => recs = <<>>) /\ parse_dirfile(recs, n)
      /\ UNCHANGED <<names, offsets, pass, reSeeked>>
    BY DEF fuse_readdir, Filled
<1>. HIDE DEF g, recs
<1>2. PICK n \in 0..Len(recs) : (n = 0 => recs = <<>>) /\ parse_dirfile(recs, n)
    BY <1>1
<1>3. /\ dh' = g /\ recs = ReplyRecs(g, fpos)
      /\ n \in 0..Len(recs) /\ (n = 0 => recs = <<>>)
      /\ parse_dirfile(recs, n)
      /\ UNCHANGED <<names, offsets, pass, reSeeked>>
    BY <1>1, <1>2 DEF recs
<1>. QED  BY <1>3 DEF g

\* A READDIR of a handle that holds the whole listing.
LEMMA ReaddirWhole ==
    ASSUME DirInv, fuse_readdir, ~offsets
    PROVE  DirInv'
<1>. DEFINE g == Filled(Begun(dh, fpos), fpos)
            R == g.recs
            k == Len(got)
<1>1. PICK recs, n :
          /\ dh' = g
          /\ recs = ReplyRecs(g, fpos)
          /\ n \in 0..Len(recs) /\ (n = 0 => recs = <<>>)
          /\ parse_dirfile(recs, n)
          /\ UNCHANGED <<names, offsets, pass, reSeeked>>
    BY ReaddirIs
<1>2. /\ g \in DirHandle /\ g.filled /\ Whole(g.recs) /\ Len(got) <= Len(g.recs)
      /\ \A i \in DOMAIN got : got[i] = g.recs[i]
    BY FilledIs
<1>. HIDE DEF g
<1>3. R \in Seq(DirRec) /\ Len(R) \in Nat /\ DOMAIN R = 1..Len(R)
    BY <1>2 DEF DirHandle
<1>4. /\ got \in Seq(DirRec) /\ fpos \in Nat /\ PassOK /\ k \in Nat /\ DOMAIN got = 1..k
      /\ pass \in [always : SUBSET Slots, ever : SUBSET Slots]
    BY DEF DirInv, DirTypeOK
<1>5. k \in 0..Len(R)
    BY <1>2, <1>3, <1>4
<1>6. fpos = After(R, k)
    <2>1. got = <<>> => k = 0
        OBVIOUS
    <2>2. k = 0 => got = <<>>
        BY <1>4
    <2>3. k # 0 => k \in DOMAIN got
        BY <1>4
    <2>. QED  BY <1>2, <1>4, <2>1, <2>2, <2>3 DEF PassOK, After
<1>. HIDE DEF R, k
<1>0. k \in Nat /\ Len(R) \in Nat /\ k <= Len(R)
    BY <1>3, <1>4, <1>5
<1>7. \A i \in DOMAIN R : R[i].off = Ends(Slotted(R))[i]
    BY <1>2 DEF R, Whole
<1>8. /\ k = Len(R) => ReplyRecs(g, fpos) = <<>>
      /\ k # Len(R) => \E m \in (k + 1)..Len(R) : ReplyRecs(g, fpos) = SubSeq(R, k + 1, m)
    <2>1. g.recs = R /\ g.filled /\ R \in Seq(DirRec)
        BY <1>2, <1>3 DEF R
    <2>2. Stands(g, R, k, fpos)
        BY <1>5, <1>6, <1>7, <2>1 DEF Stands
    <2>. QED  BY <2>2, WholeReply
\* The records answered are those of the listing from the position on.
<1>9. PICK m \in k..Len(R) :
          /\ recs = SubSeq(R, k + 1, m) /\ (k # Len(R) => m # k)
    <2>1. CASE k = Len(R)
        <3>1. SubSeq(R, k + 1, k) = <<>>
            BY <1>0, <1>3
        <3>2. recs = SubSeq(R, k + 1, k) /\ k \in k..Len(R)
            BY <1>0, <1>1, <1>8, <2>1, <3>1
        <3>. QED  BY <2>1, <3>2
    <2>2. CASE k # Len(R)
        <3>1. PICK m \in (k + 1)..Len(R) : recs = SubSeq(R, k + 1, m)
            BY <1>1, <1>8, <2>2
        <3>2. m \in k..Len(R) /\ m # k
            BY <1>0
        <3>. QED  BY <3>1, <3>2
    <2>. QED  BY <2>1, <2>2
<1>10. /\ recs \in Seq(DirRec) /\ Len(recs) = m - k /\ m \in Nat
       /\ \A i \in 1..(m - k) : recs[i] = R[k + i] /\ k + i \in 1..Len(R)
    <2>1. k + 1 \in 1..(Len(R) + 1) /\ m \in k..Len(R) /\ k \in Nat /\ Len(R) \in Nat
        BY <1>0
    <2>2. SubSeq(R, k + 1, m) \in Seq(DirRec) /\ Len(SubSeq(R, k + 1, m)) = m - k
        BY <1>3, <2>1
    <2>3. ASSUME NEW i \in 1..(m - k) PROVE SubSeq(R, k + 1, m)[i] = R[k + i] /\ k + i \in 1..Len(R)
        <3>1. k + i \in 1..Len(R) /\ (k + 1) + i - 1 = k + i
            BY <2>1
        <3>2. SubSeq(R, k + 1, m)[i] = R[(k + 1) + i - 1]
            BY <1>3, <2>1, <2>3
        <3>. QED  BY <3>1, <3>2
    <2>. QED  BY <1>9, <2>1, <2>2, <2>3
<1>11. DOMAIN recs = 1..(m - k)
    BY <1>10
<1>12. /\ got' \in Seq(DirRec) /\ Len(got') = k + n /\ DOMAIN got' = 1..(k + n)
       /\ \A i \in 1..k : got'[i] = got[i]
       /\ \A i \in 1..n : got'[k + i] = recs[i] /\ i \in DOMAIN recs
       /\ fpos' = (IF n = 0 THEN fpos ELSE got'[k + n].off)
       /\ ended' = (recs = <<>>)
    BY <1>1, <1>4, <1>10, ParseIs DEF k
<1>13. n \in Nat /\ n <= m - k /\ m - k <= Len(R) - k
    <2>1. n \in 0..(m - k)
        BY <1>1, <1>10
    <2>. QED  BY <1>0, <1>10, <2>1
<1>14. \A i \in DOMAIN got' : got'[i] = R[i] /\ i \in DOMAIN R
    <2>. SUFFICES ASSUME NEW i \in 1..(k + n) PROVE got'[i] = R[i] /\ i \in 1..Len(R)
        BY <1>3, <1>12
    <2>1. CASE i <= k
        BY <1>2, <1>3, <1>4, <1>5, <1>12, <2>1 DEF R
    <2>2. CASE i > k
        <3>1. i - k \in 1..n /\ k + (i - k) = i
            BY <1>4, <1>13, <2>2
        <3>2. i - k \in 1..(m - k)
            BY <1>11, <1>12, <3>1
        <3>. QED  BY <1>10, <1>12, <3>1, <3>2
    <2>. QED  BY <1>4, <2>1, <2>2
<1>15. /\ InOrder(R) /\ SlotsOf(R) \subseteq pass.ever /\ pass.always \subseteq SlotsOf(R)
    BY <1>2 DEF R, Whole
<1>16. \A i \in DOMAIN R : R[i].off \in Nat /\ R[i].off # 0 /\ R[i].slot \in Slots
    <2>. SUFFICES ASSUME NEW i \in DOMAIN R
                  PROVE  R[i].off \in Nat /\ R[i].off # 0 /\ R[i].slot \in Slots
        OBVIOUS
    <2>0. R[i] \in DirRec
        BY <1>3
    <2>. DEFINE l == Slotted(R)
    <2>1. l \in Seq(Slots) /\ Len(l) = Len(R)
        <3>1. \A j \in 1..Len(R) : R[j].slot \in Slots
            <4>1. \A j \in 1..Len(R) : R[j] \in DirRec
                BY <1>3
            <4>. QED  BY <4>1 DEF DirRec
        <3>2. l \in [1..Len(R) -> Slots]
            BY <1>3, <3>1 DEF Slotted
        <3>. HIDE DEF l
        <3>. QED  BY <1>3, <3>2
    <2>2. R[i].off = Ends(l)[i]
        BY <1>7
    <2>. HIDE DEF l
    <2>3. Ends(l)[0] = 0 /\ 0 \in 0..Len(l) /\ i \in 0..Len(l) /\ 0 < i
        BY <1>3, <2>1, EndsUnfold
    <2>4. Ends(l)[0] < Ends(l)[i]
        BY <2>1, <2>3, EndsGrow
    <2>. QED  BY <2>0, <2>2, <2>3, <2>4 DEF DirRec
<1>17. PassOK'
    <2>1. InOrder(recs)
        <3>. SUFFICES ASSUME NEW i \in 1..(m - k), NEW j \in 1..(m - k), i < j
                      PROVE  recs[i].slot < recs[j].slot
            BY <1>11 DEF InOrder
        <3>1. k + i < k + j
            BY <1>4
        <3>. QED  BY <1>3, <1>10, <1>15, <3>1 DEF InOrder
    <2>2. SlotsOf(recs) \subseteq pass.ever
        BY <1>3, <1>10, <1>11, <1>15 DEF SlotsOf
    <2>3. \A i \in DOMAIN recs : recs[i].off # 0
        BY <1>3, <1>10, <1>11, <1>16
    <2>4. ASSUME NEW j \in DOMAIN got, NEW i \in DOMAIN recs PROVE got[j].slot < recs[i].slot
        <3>1. j \in 1..k /\ got[j] = R[j] /\ j \in DOMAIN R
            BY <1>2, <1>3, <1>4, <1>5 DEF R, k
        <3>2. i \in 1..(m - k) /\ k + i \in DOMAIN R /\ recs[i] = R[k + i] /\ j < k + i
            BY <1>3, <1>4, <1>10, <1>11, <3>1
        <3>. QED  BY <1>15, <3>1, <3>2 DEF InOrder
    <2>5. /\ n \in 0..Len(recs) /\ parse_dirfile(recs, n) /\ UNCHANGED <<names, pass>>
        BY <1>1
    <2>. QED  BY <1>10, <2>1, <2>2, <2>3, <2>4, <2>5, PassGoesOn
<1>18. fpos' \in Nat
    <2>1. CASE n = 0
        BY <1>4, <1>12, <2>1
    <2>2. CASE n # 0
        <3>1. k + n \in DOMAIN got'
            BY <1>4, <1>12, <1>13, <2>2
        <3>. QED  BY <1>12, <1>14, <1>16, <2>2, <3>1
    <2>. QED  BY <2>1, <2>2
<1>19. DirTypeOK'
    <2>1. names' \subseteq Slots /\ offsets' \in BOOLEAN /\ reSeeked' \in BOOLEAN
        BY <1>1 DEF DirInv, DirTypeOK
    <2>2. ended' \in BOOLEAN /\ dh' \in DirHandle /\ pass' \in [always : SUBSET Slots, ever : SUBSET Slots]
        BY <1>1, <1>2, <1>4, <1>12
    <2>. QED  BY <1>12, <1>18, <2>1, <2>2 DEF DirTypeOK
<1>20. recs = <<>> => k = Len(R)
    <2>1. recs = <<>> => m - k = 0
        BY <1>10
    <2>2. recs = <<>> => m = k
        BY <1>0, <1>10, <2>1
    <2>. QED  BY <1>9, <2>2
<1>21. WholeOK'
    <2>1. dh'.filled /\ dh'.recs = R /\ pass' = pass
        BY <1>1, <1>2 DEF R
    <2>2. Whole(dh.recs)'
        BY <1>7, <1>15, <2>1 DEF Whole, InOrder, SlotsOf
    <2>3. Len(got') <= Len(dh'.recs)
        BY <1>3, <1>4, <1>12, <1>13, <2>1
    <2>4. \A i \in DOMAIN got' : got'[i] = dh'.recs[i]
        BY <1>14, <2>1
    <2>5. ended' => Len(got') = Len(dh'.recs) /\ n = 0
        <3>1. recs = <<>> => n = 0
            <4>1. recs = <<>> => Len(recs) = 0
                OBVIOUS
            <4>. QED  BY <1>1, <4>1
        <3>2. n = 0 => Len(got') = k
            BY <1>0, <1>12
        <3>. QED  BY <1>12, <1>20, <2>1, <3>1, <3>2
    <2>6. ASSUME fpos' = 0, ended' PROVE pass'.always = {}
        <3>1. n = 0 /\ fpos = 0 /\ k = Len(R)
            BY <1>12, <1>20, <2>5, <2>6
        <3>2. k = 0
            <4>1. k # 0 => k \in DOMAIN R
                BY <1>3, <1>4, <3>1
            <4>. QED  BY <1>6, <1>16, <3>1, <4>1 DEF After
        <3>3. DOMAIN R = {}
            BY <1>3, <3>1, <3>2
        <3>. QED  BY <1>15, <2>1, <3>3 DEF SlotsOf
    <2>. QED  BY <2>1, <2>2, <2>3, <2>4, <2>5, <2>6 DEF WholeOK
<1>22. ~offsets'
    BY <1>1
<1>. QED  BY <1>17, <1>19, <1>21, <1>22 DEF DirInv

\* A READDIR of a handle that is filled page by page.
LEMMA ReaddirPages ==
    ASSUME DirInv, fuse_readdir, offsets
    PROVE  DirInv'
<1>. DEFINE g == Filled(Begun(dh, fpos), fpos)
            P == FillPage(fpos)
            k == Len(got)
<1>1. PICK recs, n :
          /\ dh' = g
          /\ recs = ReplyRecs(g, fpos)
          /\ n \in 0..Len(recs) /\ (n = 0 => recs = <<>>)
          /\ parse_dirfile(recs, n)
          /\ UNCHANGED <<names, offsets, pass, reSeeked>>
    BY ReaddirIs
<1>2. /\ g \in DirHandle
      /\ \/ g = dh /\ fpos # 0 /\ dh.filled /\ g.recs = <<>>
         \/ g.recs = P /\ g.filled = (g.recs = <<>>)
    BY FilledIs
<1>3. /\ got \in Seq(DirRec) /\ fpos \in Nat /\ PassOK /\ PagesOK /\ k \in Nat /\ DOMAIN got = 1..k
      /\ pass \in [always : SUBSET Slots, ever : SUBSET Slots] /\ names \subseteq Slots
      /\ pass.always \subseteq names /\ names \subseteq pass.ever
      /\ ended \in BOOLEAN /\ reSeeked \in BOOLEAN
    BY DEF DirInv, DirTypeOK, PassOK
<1>. HIDE DEF g
<1>4. /\ P \in Seq(DirRec) /\ InOrder(P)
      /\ \A i \in DOMAIN P : P[i].off = P[i].slot /\ P[i].slot \in names /\ P[i].slot > fpos
      /\ P = <<>> => \A s \in names : s <= fpos
      /\ \A i \in DOMAIN P : \A s \in names :
             fpos < s /\ s <= P[i].slot => \E j \in DOMAIN P : j <= i /\ P[j].slot = s
    BY <1>3, FillPageIs
<1>. HIDE DEF P
\* The answer is what the handle holds: a page, or the end again.
<1>5. recs = g.recs
    <2>1. CASE g.filled
        <3>0. g.recs = <<>>
            BY <1>2, <2>1, Zenon
        <3>1. g.recs = <<>> /\ DOMAIN g.recs = {}
            BY <3>0
        <3>2. ReplyRecs(g, fpos) = <<>>
            BY <2>1, <3>1 DEF ReplyRecs
        <3>. QED  BY <1>1, <3>1, <3>2
    <2>2. CASE ~g.filled
        BY <1>1, <2>2 DEF ReplyRecs
    <2>. QED  BY <2>1, <2>2
<1>6. recs \in Seq(DirRec) /\ (recs = P \/ recs = <<>>)
    <2>1. g.recs \in Seq(DirRec)
        BY <1>2 DEF DirHandle
    <2>2. g.recs = P \/ g.recs = <<>>
        BY <1>2, Zenon
    <2>. QED  BY <1>5, <2>1, <2>2
<1>7. /\ got' \in Seq(DirRec) /\ Len(got') = k + n /\ DOMAIN got' = 1..(k + n)
      /\ \A i \in 1..k : got'[i] = got[i]
      /\ \A i \in 1..n : got'[k + i] = recs[i] /\ i \in DOMAIN recs
      /\ fpos' = (IF n = 0 THEN fpos ELSE got'[k + n].off)
      /\ ended' = (recs = <<>>)
    BY <1>1, <1>3, <1>6, ParseIs
<1>. HIDE DEF k
<1>8. n \in Nat
    BY <1>1, <1>6
<1>9. n # 0 => recs = P
    <2>1. recs = <<>> => Len(recs) = 0
        OBVIOUS
    <2>. QED  BY <1>1, <1>6, <2>1
<1>10. \A i \in DOMAIN recs : recs[i] = P[i] /\ i \in DOMAIN P
    BY <1>6
<1>11. \A j \in DOMAIN got : got[j].off = got[j].slot /\ got[j].slot \in Nat /\ got[j].slot <= fpos
    <2>. SUFFICES ASSUME NEW j \in DOMAIN got
                  PROVE  got[j].off = got[j].slot /\ got[j].slot \in Nat /\ got[j].slot <= fpos
        OBVIOUS
    <2>1. k \in DOMAIN got /\ got # <<>> /\ Len(got) = k /\ j <= k
        BY <1>3 DEF k
    <2>2. fpos = got[k].slot /\ got[j].off = got[j].slot
        BY <1>3, <2>1 DEF PassOK, PagesOK
    <2>3. got[j] \in DirRec /\ got[k] \in DirRec
        BY <1>3, <2>1
    <2>4. got[j].slot \in Nat /\ got[k].slot \in Nat
        BY <2>3, DirAssumption DEF DirRec
    <2>5. j < k => got[j].slot < got[k].slot
        BY <1>3, <2>1 DEF PassOK, InOrder
    <2>. QED  BY <1>3, <2>1, <2>2, <2>4, <2>5
<1>12. \A s \in Slots : s \in Nat /\ s > 0
    BY DirAssumption
<1>13. PassOK'
    <2>1. InOrder(recs)
        BY <1>4, <1>6 DEF InOrder
    <2>2. SlotsOf(recs) \subseteq pass.ever
        BY <1>3, <1>4, <1>10 DEF SlotsOf
    <2>3. \A i \in DOMAIN recs : recs[i].off # 0
        BY <1>3, <1>4, <1>10, <1>12
    <2>4. \A j \in DOMAIN got : \A i \in DOMAIN recs : got[j].slot < recs[i].slot
        BY <1>3, <1>4, <1>10, <1>11, <1>12
    <2>5. n \in 0..Len(recs) /\ parse_dirfile(recs, n) /\ UNCHANGED <<names, pass>>
        BY <1>1
    <2>. QED  BY <1>6, <2>1, <2>2, <2>3, <2>4, <2>5, PassGoesOn
<1>14. n # 0 => /\ n \in 1..n /\ fpos' = P[n].slot /\ n \in DOMAIN P /\ P[n].slot \in Nat
                /\ P[n].slot \in Slots /\ fpos < P[n].slot
    <2>. SUFFICES ASSUME n # 0
                  PROVE  /\ n \in 1..n /\ fpos' = P[n].slot /\ n \in DOMAIN P /\ P[n].slot \in Nat
                         /\ P[n].slot \in Slots /\ fpos < P[n].slot
        OBVIOUS
    <2>1. n \in 1..n
        BY <1>8
    <2>2. n \in DOMAIN P /\ recs[n] = P[n] /\ got'[k + n] = P[n]
        BY <1>7, <1>10, <2>1
    <2>3. P[n].off = P[n].slot /\ P[n].slot \in names /\ P[n].slot > fpos
        BY <1>4, <2>2
    <2>. QED  BY <1>3, <1>7, <1>12, <2>1, <2>2, <2>3
<1>15. DirTypeOK'
    <2>1. names' \subseteq Slots /\ offsets' \in BOOLEAN /\ reSeeked' \in BOOLEAN
        BY <1>1 DEF DirInv, DirTypeOK
    <2>2. ended' \in BOOLEAN /\ dh' \in DirHandle /\ pass' \in [always : SUBSET Slots, ever : SUBSET Slots]
        BY <1>1, <1>2, <1>3, <1>7
    <2>3. fpos' \in Nat
        BY <1>3, <1>7, <1>14
    <2>. QED  BY <1>7, <2>1, <2>2, <2>3 DEF DirTypeOK
<1>16. PagesOK'
    <2>1. ASSUME NEW i \in DOMAIN got' PROVE got'[i].off = got'[i].slot
        <3>1. CASE i <= k
            BY <1>3, <1>7, <1>11, <3>1
        <3>2. CASE i > k
            <4>1. i - k \in 1..n /\ k + (i - k) = i
                BY <1>3, <1>7, <1>8, <3>2
            <4>2. got'[i] = P[i - k] /\ i - k \in DOMAIN P
                BY <1>7, <1>10, <4>1
            <4>. QED  BY <1>4, <4>2
        <3>. QED  BY <1>3, <1>7, <3>1, <3>2
    <2>2. SlotsOf(got) \subseteq SlotsOf(got')
        <3>1. \A i \in 1..k : i \in DOMAIN got' /\ got'[i] = got[i]
            BY <1>3, <1>7, <1>8
        <3>. QED  BY <1>3, <3>1 DEF SlotsOf
    <2>3. ASSUME NEW s \in pass'.always, s <= fpos' PROVE s \in SlotsOf(got')
        <3>0. s \in pass.always /\ s \in names /\ s \in Nat
            BY <1>1, <1>3, <1>12
        <3>1. CASE s <= fpos
            BY <1>3, <2>2, <3>0, <3>1 DEF PagesOK
        <3>2. CASE ~(s <= fpos)
            <4>1. n # 0
                BY <1>7, <2>3, <3>2
            <4>2. fpos < s /\ s <= P[n].slot /\ n \in DOMAIN P
                BY <1>3, <1>14, <2>3, <3>0, <3>2, <4>1
            <4>3. PICK j \in DOMAIN P : j <= n /\ P[j].slot = s
                BY <1>4, <3>0, <4>2
            <4>4. j \in 1..n
                <5>1. DOMAIN P = 1..Len(P) /\ Len(P) \in Nat
                    BY <1>4
                <5>. QED  BY <1>8, <4>3, <5>1
            <4>5. got'[k + j] = P[j] /\ k + j \in DOMAIN got'
                BY <1>3, <1>7, <1>8, <1>10, <4>4
            <4>. QED  BY <4>3, <4>5 DEF SlotsOf
        <3>. QED  BY <3>1, <3>2
    <2>4. ASSUME dh'.filled PROVE dh'.recs = <<>> /\ ended'
        BY <1>1, <1>2, <1>5, <1>7, <2>4
    <2>5. ASSUME ended', ~reSeeked', NEW s \in pass'.always PROVE s <= fpos'
        <3>1. recs = <<>> /\ n = 0 /\ fpos' = fpos /\ s \in pass.always /\ s \in names /\ ~reSeeked
            <4>1. recs = <<>>
                BY <1>7, <2>5
            <4>2. Len(recs) = 0
                BY <4>1
            <4>. QED  BY <1>1, <1>3, <1>7, <2>5, <4>1, <4>2
        <3>2. CASE g.recs = P
            BY <1>4, <1>5, <3>1, <3>2
        <3>3. CASE g = dh /\ fpos # 0 /\ dh.filled
            BY <1>3, <3>1, <3>3 DEF PagesOK
        <3>. QED  BY <1>2, <3>2, <3>3
    <2>. QED  BY <2>1, <2>3, <2>4, <2>5 DEF PagesOK
<1>17. offsets'
    BY <1>1
<1>. QED  BY <1>13, <1>15, <1>16, <1>17 DEF DirInv

LEMMA DirInvStep == DirInv /\ DirNext => DirInv'
<1>. SUFFICES ASSUME DirInv, DirNext PROVE DirInv'
    OBVIOUS
<1>1. CASE fuse_dir_open \/ fuse_lib_releasedir \/ Rewind
    BY <1>1, OpenReleaseRewind
<1>2. CASE fuse_readdir
    BY <1>2, ReaddirWhole, ReaddirPages DEF DirInv, DirTypeOK
<1>3. CASE fuse_readdir_fails
    BY <1>3, FailsStep
<1>4. CASE SeekBack
    BY <1>4, SeekBackStep
<1>5. CASE \E s \in Slots : Change(s)
    BY <1>5, ChangeStep
<1>. QED  BY <1>1, <1>2, <1>3, <1>4, <1>5 DEF DirNext

LEMMA DirInvariant == Spec => []DirInv
<1>1. Init => DirInv
    BY DirInvInit DEF Init
<1>2. ASSUME DirInv, UNCHANGED dirVars PROVE DirInv'
    BY <1>2 DEF dirVars, DirInv, DirTypeOK, PassOK, WholeOK, PagesOK, Whole, InOrder, SlotsOf
<1>3. DirInv /\ [Next]_vars => DirInv'
    <2>. SUFFICES ASSUME DirInv, [Next]_vars PROVE DirInv'
        OBVIOUS
    <2>1. DirNext \/ UNCHANGED dirVars
        BY DEF Next, vars
    <2>. QED  BY <2>1, <1>2, DirInvStep
<1>. QED  BY <1>1, <1>3, PTL DEF Spec

\* What is in order is returned once: the positions and the places of the
\* records that were returned are as many.
LEMMA ListingHolds == DirInv => ListingComplete
<1>. SUFFICES ASSUME DirInv PROVE ListingComplete
    OBVIOUS
<1>. DEFINE k == Len(got)
            f == [i \in 1..k |-> got[i].slot]
<1>1. /\ got \in Seq(DirRec) /\ PassOK /\ k \in Nat /\ DOMAIN got = 1..k /\ fpos \in Nat
      /\ pass \in [always : SUBSET Slots, ever : SUBSET Slots]
    BY DEF DirInv, DirTypeOK
<1>2. SlotsOf(got) = {got[i].slot : i \in DOMAIN got}
    BY DEF SlotsOf
<1>3. \A i \in 1..k : got[i].slot \in Nat
    <2>1. \A i \in 1..k : got[i] \in DirRec
        BY <1>1
    <2>. QED  BY <2>1, DirAssumption DEF DirRec
<1>. HIDE DEF k
<1>4. f \in Injection(1..k, SlotsOf(got)) /\ f \in Surjection(1..k, SlotsOf(got))
    <2>1. f \in [1..k -> SlotsOf(got)]
        BY <1>1 DEF SlotsOf
    <2>2. \A i \in 1..k : \A j \in 1..k : i < j => f[i] < f[j]
        BY <1>1 DEF PassOK, InOrder
    <2>3. \A i \in 1..k : f[i] \in Nat
        BY <1>3
    <2>4. \A s \in SlotsOf(got) : \E i \in 1..k : f[i] = s
        BY <1>1 DEF SlotsOf
    <2>. HIDE DEF f
    <2>5. ASSUME NEW i \in 1..k, NEW j \in 1..k, f[i] = f[j] PROVE i = j
        <3>1. ~(i < j) /\ ~(j < i)
            BY <2>2, <2>3, <2>5
        <3>. QED  BY <1>1, <3>1
    <2>. QED  BY <2>1, <2>4, <2>5 DEF Injection, IsInjective, Surjection
<1>. HIDE DEF f
<1>5. Cardinality(SlotsOf(got)) = k
    <2>1. f \in Bijection(1..k, SlotsOf(got))
        BY <1>4 DEF Bijection
    <2>2. ExistsBijection(1..k, SlotsOf(got))
        BY <2>1 DEF ExistsBijection
    <2>. QED  BY <1>1, <2>2, FS_CountingElements
<1>6. ASSUME ended, ~(offsets /\ reSeeked) PROVE pass.always \subseteq SlotsOf(got)
    <2>1. CASE offsets
        <3>1. PagesOK
            BY <2>1 DEF DirInv
        <3>. QED  BY <1>6, <2>1, <3>1 DEF PagesOK
    <2>2. CASE ~offsets
        <3>1. WholeOK
            BY <2>2 DEF DirInv
        <3>2. CASE fpos = 0
            BY <1>6, <3>1, <3>2 DEF WholeOK
        <3>3. CASE fpos # 0
            <4>1. /\ Whole(dh.recs) /\ Len(dh.recs) = k /\ \A i \in DOMAIN got : got[i] = dh.recs[i]
                BY <1>6, <3>1, <3>3 DEF WholeOK, k
            <4>2. DOMAIN dh.recs = 1..k
                <5>1. dh.recs \in Seq(DirRec)
                    BY DEF DirInv, DirTypeOK, DirHandle
                <5>. QED  BY <4>1, <5>1
            <4>3. SlotsOf(dh.recs) = SlotsOf(got)
                BY <1>1, <4>1, <4>2 DEF SlotsOf
            <4>. QED  BY <4>1, <4>3 DEF Whole
        <3>. QED  BY <3>2, <3>3
    <2>. QED  BY <2>1, <2>2
<1>7. SlotsOf(got) \subseteq pass.ever
    BY <1>1 DEF PassOK
<1>. QED  BY <1>2, <1>5, <1>6, <1>7 DEF ListingComplete, k

(***************************************************************************)
(* A pass over a directory returns no name twice and none that was not     *)
(* there, and at its end every name that was there throughout, whichever   *)
(* way the file system fills the handle: for any places, lengths of the    *)
(* records, size of a page, changes and failures.                          *)
(***************************************************************************)
THEOREM ListingStaysComplete == Spec => []ListingComplete
<1>. QED  BY DirInvariant, ListingHolds, PTL
=============================================================================
