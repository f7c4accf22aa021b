----------------------------- MODULE FuseLocks -----------------------------
(***************************************************************************)
(* POSIX locks on one file: the calls of the kernel (kernel/file.c), the   *)
(* table of granted locks that lib/fuse.c keeps with a node (locks_insert, *)
(* locks_conflict) and the unlocking at close, which is part of FLUSH.     *)
(*                                                                         *)
(* SETLK is two steps: the file system grants the lock, and later, under   *)
(* f->lock, the table records it.  Threads of one process share an owner,  *)
(* so their two steps interleave.  A waiting SETLKW is a call that the     *)
(* file system has not granted yet; a refused call changes nothing.        *)
(*                                                                         *)
(* The file system has the lock method (without it INIT makes the kernel   *)
(* keep the locks itself) and may lack flush.  Unlocking never fails in it.*)
(***************************************************************************)
EXTENDS Integers, Sequences, FiniteSets

CONSTANTS
    Lockers,      \* the threads that lock
    OFFSET_MAX,   \* the last byte of a file
    MaxSetlk,     \* bound: locks and unlocks that are asked for
    MaxLockFaults \* bound: allocations of locks_insert that fail

ASSUME LocksAssumption == OFFSET_MAX \in Nat /\ MaxSetlk \in Nat
                          /\ MaxLockFaults \in Nat

VARIABLES
    ownerOf,    \* the owner of each thread: its files_struct
    held,       \* external: the locks that the file system has granted
    locks,      \* node->locks
    lkcall,     \* what each thread is doing
    hasFlush,   \* the file system has a flush method
    no_flush,   \* the kernel's latch
    closed,     \* owners that closed the file and have not locked since
    raced,      \* owners whose calls the table recorded out of order, or not
    setlks,     \* locks and unlocks so far
    lockFaults  \* failed allocations so far

lockVars == <<ownerOf, held, locks, lkcall, hasFlush, no_flush, closed, raced,
              setlks, lockFaults>>

Owners == Lockers
Bytes == 0..OFFSET_MAX
Types == {"F_RDLCK", "F_WRLCK", "F_UNLCK"}
Ranges == {r \in Bytes \X Bytes : r[1] =< r[2]}
IdleCall == [at |-> "idle"]
Pending(o) == {t \in Lockers : ownerOf[t] = o /\ lkcall[t].at # "idle"}

(***************************************************************************)
(* The conversions on the way of a lock: a length of zero means up to the  *)
(* end of the file.                                                        *)
(***************************************************************************)
convert_fuse_file_lock(l) ==
    [type |-> l.type, start |-> l.start,
     len |-> IF l.end = OFFSET_MAX THEN 0 ELSE l.end - l.start + 1]

\* Mutant: the end is the byte after the last one.
flock_to_lock_Past(fl, owner) ==
    [owner |-> owner, type |-> fl.type, start |-> fl.start,
     end |-> IF fl.len = 0 THEN OFFSET_MAX ELSE fl.start + fl.len]

flock_to_lock(fl, owner) ==
    [owner |-> owner, type |-> fl.type, start |-> fl.start,
     end |-> IF fl.len = 0 THEN OFFSET_MAX ELSE fl.start + fl.len - 1]

lock_to_flock(l) ==
    [type |-> l.type, start |-> l.start,
     len |-> IF l.end = OFFSET_MAX THEN 0 ELSE l.end - l.start + 1]

WholeUnlock == [type |-> "F_UNLCK", start |-> 0, len |-> 0]

(***************************************************************************)
(* The file system (external).                                             *)
(***************************************************************************)
Clash(a, b) == a # "F_UNLCK" /\ b # "F_UNLCK" /\ "F_WRLCK" \in {a, b}

Grants(l) == \A o \in Owners \ {l.owner}, b \in l.start..l.end :
                ~Clash(l.type, held[o][b])

fs_lock(l) == [held EXCEPT ![l.owner] =
                  [b \in Bytes |-> IF b \in l.start..l.end THEN l.type ELSE @[b]]]

(***************************************************************************)
(* The table.                                                              *)
(***************************************************************************)
\* The first lock of the list that stands against another's, if there is one.
locks_conflict(lock) ==
    LET against == {i \in DOMAIN locks :
                       /\ locks[i].owner # lock.owner
                       /\ lock.start =< locks[i].end /\ locks[i].start =< lock.end
                       /\ "F_WRLCK" \in {locks[i].type, lock.type}}
    IN  {locks[i] : i \in {j \in against : \A k \in against : j =< k}}

\* One turn of the loop of locks_insert.  out is the list up to here; done
\* is set by the break and the goto out, after which the rest stays as it is.
Turn(acc, l) ==
    LET lock == acc.lock
        new == IF lock.type = "F_UNLCK" THEN <<>> ELSE <<lock>>
        cut == [l EXCEPT !.end = lock.start - 1]
        rest == [l EXCEPT !.start = lock.end + 1]
        merged == [lock EXCEPT !.start = IF l.start < @ THEN l.start ELSE @,
                               !.end = IF @ < l.end THEN l.end ELSE @]
        skip(kept) == [acc EXCEPT !.out = @ \o <<kept>>]
        break(kept) == [acc EXCEPT !.out = @ \o kept, !.done = TRUE]
    IN  IF acc.done \/ l.owner # lock.owner THEN skip(l)
        ELSE IF l.type = lock.type
        THEN IF l.end < lock.start - 1 THEN skip(l)
             ELSE IF lock.end < l.start - 1 THEN break(new \o <<l>>)
             ELSE IF l.start =< lock.start /\ lock.end =< l.end THEN break(<<l>>)
             ELSE [acc EXCEPT !.lock = merged]
        ELSE IF l.end < lock.start THEN skip(l)
             ELSE IF lock.end < l.start THEN break(new \o <<l>>)
             ELSE IF lock.start =< l.start /\ l.end =< lock.end THEN acc
             ELSE IF l.end =< lock.end THEN skip(cut)
             ELSE IF lock.start =< l.start THEN break(new \o <<rest>>)
             ELSE break(<<cut>> \o new \o <<rest>>)

\* The turns of the loop, one for each lock of the list.
Turns(list, lock) ==
    LET acc[i \in 0..Len(list)] ==
            IF i = 0 THEN [out |-> <<>>, lock |-> lock, done |-> FALSE]
            ELSE Turn(acc[i - 1], list[i])
    IN  acc[Len(list)]

locks_insert(lock) ==
    LET acc == Turns(locks, lock)
    IN  IF acc.done \/ lock.type = "F_UNLCK" THEN acc.out
        ELSE acc.out \o <<acc.lock>>

(***************************************************************************)
(* SETLK and SETLKW.                                                       *)
(***************************************************************************)
Sent(t, type, r) ==
    flock_to_lock(convert_fuse_file_lock([type |-> type, start |-> r[1],
                                          end |-> r[2]]), ownerOf[t])

\* fuse_setlk to fuse_lock_common: the file system grants the lock.
fuse_setlk(t, type, r) ==
    LET l == [owner |-> ownerOf[t], type |-> type, start |-> r[1], end |-> r[2]]
    IN  /\ lkcall[t].at = "idle" /\ Grants(l)
        /\ setlks < MaxSetlk /\ setlks' = setlks + 1
        /\ held' = fs_lock(l)
        /\ lkcall' = [lkcall EXCEPT ![t] = [at |-> "insert", lock |-> Sent(t, type, r),
                                            after |-> Pending(ownerOf[t])]]
        /\ closed' = closed \ {ownerOf[t]}
        /\ UNCHANGED <<ownerOf, locks, hasFlush, no_flush, raced, lockFaults>>

\* Calls of the same owner that the file system served before this one.
Overtakes(t) == lkcall[t].after \cap Pending(ownerOf[t]) # {}

Returned(t) ==
    lkcall' = [u \in Lockers |->
                  IF u = t THEN IdleCall
                  ELSE IF lkcall[u].at \in {"insert", "flush"}
                       THEN [lkcall[u] EXCEPT !.after = @ \ {t}] ELSE lkcall[u]]

\* The rest of fuse_lib_setlk: nothing looks at the result of locks_insert.
fuse_lib_setlk(t) ==
    /\ lkcall[t].at = "insert"
    /\ LET l == lkcall[t].lock
       IN  \/ /\ locks' = locks_insert(l)
              /\ raced' = IF Overtakes(t) THEN raced \cup {ownerOf[t]} ELSE raced
              /\ UNCHANGED lockFaults
           \/ /\ ~(l.type = "F_UNLCK" /\ l.start = 0 /\ l.end = OFFSET_MAX)
              /\ lockFaults < MaxLockFaults
              /\ lockFaults' = lockFaults + 1
              /\ raced' = raced \cup {ownerOf[t]}
              /\ UNCHANGED locks
    /\ Returned(t)
    /\ UNCHANGED <<ownerOf, held, hasFlush, no_flush, closed, setlks>>

(***************************************************************************)
(* GETLK changes nothing: it answers the first conflict of the table, and  *)
(* asks the file system when there is none.                                *)
(***************************************************************************)
fuse_lib_getlk(t, type, r) ==
    {flock_to_lock(lock_to_flock(l), l.owner) : l \in locks_conflict(Sent(t, type, r))}

(***************************************************************************)
(* Close.                                                                  *)
(***************************************************************************)
\* Mutant: without a flush method FLUSH is told to be unknown.
FlushError_Enosys(flush) == flush

\* The error that fuse_flush_common returns.
FlushError(flush) == IF flush = "ENOSYS" THEN "ok" ELSE flush

fuse_flush(t) ==
    LET o == ownerOf[t]
    IN  /\ lkcall[t].at = "idle"
        /\ closed' = IF Pending(o) = {} THEN closed \cup {o} ELSE closed
        /\ IF no_flush
           THEN UNCHANGED <<held, lkcall>>
           ELSE /\ held' = fs_lock(flock_to_lock(WholeUnlock, o))
                /\ lkcall' = [lkcall EXCEPT ![t] =
                      [at |-> "flush", after |-> Pending(o),
                       lock |-> flock_to_lock(WholeUnlock, o),
                       err |-> FlushError(IF hasFlush THEN "ok" ELSE "ENOSYS")]]
        /\ UNCHANGED <<ownerOf, locks, hasFlush, no_flush, raced, setlks,
                       lockFaults>>

\* The table, the reply, and the latch of the kernel.
fuse_flush_common(t) ==
    LET o == ownerOf[t]
    IN  /\ lkcall[t].at = "flush"
        /\ locks' = locks_insert(lkcall[t].lock)
        /\ no_flush' = (no_flush \/ lkcall[t].err = "ENOSYS")
        /\ raced' = IF Overtakes(t) THEN raced \cup {o}
                    ELSE IF Pending(o) = {t} /\ o \in closed THEN raced \ {o}
                    ELSE raced
        /\ Returned(t)
        /\ UNCHANGED <<ownerOf, held, hasFlush, closed, setlks, lockFaults>>

LocksInit ==
    /\ ownerOf \in [Lockers -> Owners]
    /\ held = [o \in Owners |-> [b \in Bytes |-> "F_UNLCK"]]
    /\ locks = <<>>
    /\ lkcall = [t \in Lockers |-> IdleCall]
    /\ hasFlush \in BOOLEAN
    /\ no_flush = FALSE /\ closed = {} /\ raced = {}
    /\ setlks = 0 /\ lockFaults = 0

LocksNext ==
    \E t \in Lockers :
        \/ \E type \in Types, r \in Ranges : fuse_setlk(t, type, r)
        \/ fuse_lib_setlk(t)
        \/ fuse_flush(t)
        \/ fuse_flush_common(t)

(***************************************************************************)
(* Properties.                                                             *)
(***************************************************************************)
Of(o) == {i \in DOMAIN locks : locks[i].owner = o}

\* The bytes of the table's locks of an owner.
Recorded(o) ==
    [b \in Bytes |->
        LET on == {i \in Of(o) : b \in locks[i].start..locks[i].end}
        IN  IF on = {} THEN "F_UNLCK" ELSE locks[CHOOSE i \in on : TRUE].type]

Settled(o) == Pending(o) = {} /\ o \notin raced

(***************************************************************************)
(* LocksTrue: whatever is locked and unlocked, the locks of an owner in    *)
(* the table are proper ranges in order that do not overlap, and two of a  *)
(* type that touch are one.  When no call of the owner is under way the    *)
(* table says what the file system granted, unless two calls of its        *)
(* threads were recorded out of order, or one was not recorded.  After a   *)
(* close the owner has no lock, there and here.                            *)
(***************************************************************************)
LocksTrue ==
    \A o \in Owners :
        /\ \A i \in Of(o) : locks[i].start =< locks[i].end
        /\ \A i, j \in Of(o) : i < j =>
               LET gap == IF locks[i].type = locks[j].type THEN 1 ELSE 0
               IN  locks[i].end + gap < locks[j].start
        /\ Settled(o) => Recorded(o) = held[o]
        /\ o \in closed /\ Pending(o) = {} =>
               Of(o) = {} /\ held[o] = [b \in Bytes |-> "F_UNLCK"]

(***************************************************************************)
(* GetlkTrue: a lock that GETLK names is one that its owner holds and that *)
(* stands against the question, unless that owner has a call under way or  *)
(* the table is behind for it (fuse.h: "The results may not be accurate in *)
(* case of race conditions").                                              *)
(***************************************************************************)
GetlkTrue ==
    \A t \in Lockers, type \in Types \ {"F_UNLCK"}, r \in Ranges :
        \A a \in fuse_lib_getlk(t, type, r) :
            /\ a.owner # ownerOf[t] /\ a.end \in Bytes
            /\ Settled(a.owner) =>
                  /\ \A b \in a.start..a.end : held[a.owner][b] = a.type
                  /\ \E b \in r[1]..r[2] : Clash(type, held[a.owner][b])
====
