----------------------------- MODULE MountProofs -----------------------------
(***************************************************************************)
(* Proofs about the start of the daemon: the checks of the mount script    *)
(* (CatalogMount), the references to a connection, and that mounts, their  *)
(* daemons and /etc/mtab agree (FuseMount).                                *)
(***************************************************************************)
EXTENDS CatalogMount, FuseMount, FiniteSetTheorems, WellFoundedInduction, TLAPS

(* A nonempty set of numbers has a least element.                          *)
LEMMA LeastNat ==
    ASSUME NEW T, T \subseteq Nat, T # {}
    PROVE  \E x \in T : \A y \in T : ~(y < x)
<1>. DEFINE R == OpToRel(<, Nat)
<1>1. IsWellFoundedOn(R, Nat)
    BY NatLessThanWellFounded
<1>2. \A x, y \in Nat : y < x => <<y, x>> \in R
    BY Zenon DEF OpToRel
<1>. HIDE DEF R
<1>3. PICK x \in T : \A y \in T : ~(<<y, x>> \in R)
    BY <1>1, WFMin
<1>. QED  BY <1>2, <1>3
-----------------------------------------------------------------------------
(***************************************************************************)
(* The size of a file                                                      *)
(***************************************************************************)
(* s adds up the first n numbers of l, and there is such a function.       *)
SumsTo(s, l, n) ==
    s = [i \in 0..n |-> IF i = 0 THEN 0 ELSE s[i - 1] + l[i]]

\* By the least counterexample: every list has its partial sums.
LEMMA SumExists ==
    ASSUME NEW l \in Seq(Nat)
    PROVE  \A n \in 0..Len(l) : \E s \in [0..n -> Nat] : SumsTo(s, l, n)
<1>. DEFINE Has(n) == \E s \in [0..n -> Nat] : SumsTo(s, l, n)
            Bad == {n \in 0..Len(l) : ~Has(n)}
<1>1. SUFFICES ASSUME Bad # {} PROVE FALSE
    OBVIOUS
<1>2. Bad \subseteq Nat
    OBVIOUS
<1>. HIDE DEF Bad
<1>3. PICK n \in Bad : \A m \in Bad : ~(m < n)
    BY <1>1, <1>2, LeastNat
<1>. USE DEF Bad
<1>. HIDE DEF Has
<1>4. n \in 0..Len(l) /\ ~Has(n)
    OBVIOUS
<1>5. CASE n = 0
    <2>. DEFINE s == [i \in 0..0 |-> 0]
    <2>1. s \in [0..0 -> Nat] /\ SumsTo(s, l, 0)
        BY DEF SumsTo
    <2>. QED  BY <2>1, <1>4, <1>5 DEF Has
<1>6. CASE n # 0
    <2>1. n - 1 \in 0..Len(l) /\ n - 1 < n
        BY <1>4, <1>6
    <2>2. Has(n - 1)
        BY <2>1, <1>3
    <2>3. PICK s \in [0..(n - 1) -> Nat] : SumsTo(s, l, n - 1)
        BY <2>2 DEF Has
    <2>. DEFINE t == [i \in 0..n |-> IF i = n THEN s[n - 1] + l[n] ELSE s[i]]
    <2>4. l[n] \in Nat /\ s[n - 1] \in Nat
        BY <1>4, <1>6
    <2>5. t \in [0..n -> Nat]
        BY <1>4, <2>4
    <2>6. ASSUME NEW i \in 0..n
          PROVE  t[i] = IF i = 0 THEN 0 ELSE t[i - 1] + l[i]
        <3>1. CASE i = n
            BY <3>1, <1>4, <1>6
        <3>2. CASE i # n
            <4>1. i \in 0..(n - 1) /\ t[i] = s[i] /\ (i # 0 => t[i - 1] = s[i - 1])
                BY <3>2, <1>4
            <4>2. s[i] = IF i = 0 THEN 0 ELSE s[i - 1] + l[i]
                BY <2>3, <4>1 DEF SumsTo
            <4>. QED  BY <4>1, <4>2
        <3>. QED  BY <3>1, <3>2
    <2>7. SumsTo(t, l, n)
        BY <2>6 DEF SumsTo
    <2>. QED  BY <2>5, <2>7, <1>4 DEF Has
<1>. QED  BY <1>5, <1>6

(* Functions that add up the same numbers agree.                           *)
LEMMA SumUnique ==
    ASSUME NEW l \in Seq(Nat), NEW n \in 0..Len(l), NEW s, NEW t,
           SumsTo(s, l, n), SumsTo(t, l, n)
    PROVE  \A i \in 0..n : s[i] = t[i]
<1>. DEFINE Bad == {i \in 0..n : s[i] # t[i]}
<1>1. SUFFICES ASSUME Bad # {} PROVE FALSE
    OBVIOUS
<1>2. Bad \subseteq Nat
    OBVIOUS
<1>. HIDE DEF Bad
<1>3. PICK i \in Bad : \A y \in Bad : ~(y < i)
    BY <1>1, <1>2, LeastNat
<1>. USE DEF Bad
<1>4. i \in 0..n /\ s[i] # t[i]
    OBVIOUS
<1>5. CASE i = 0
    BY <1>4, <1>5 DEF SumsTo
<1>6. CASE i # 0
    <2>1. i - 1 \in 0..n /\ i - 1 < i
        BY <1>4, <1>6
    <2>2. s[i - 1] = t[i - 1]
        BY <2>1, <1>3
    <2>. QED  BY <2>2, <1>4, <1>6 DEF SumsTo
<1>. QED  BY <1>5, <1>6

(* ls gives a number, and for lines of one width the product that the      *)
(* script expects.                                                         *)
LEMMA SizeOfFile ==
    ASSUME NEW f \in File, f.present
    PROVE  /\ Size(f) \in Nat
           /\ \A w \in Nat : (\A i \in 1..Len(f.lens) : f.lens[i] = w)
                                => Size(f) = Len(f.lens) * w
<1>. DEFINE l == f.lens
            sum == CHOOSE s : SumsTo(s, l, Len(l))
<1>1. l \in Seq(Nat) /\ Len(l) \in Nat
    BY DEF File
<1>2. Size(f) = sum[Len(l)]
    BY DEF Size, SumsTo
<1>. HIDE DEF l
<1>3. PICK s \in [0..Len(l) -> Nat] : SumsTo(s, l, Len(l))
    BY <1>1, SumExists
<1>4. SumsTo(sum, l, Len(l))
    BY <1>3
<1>. HIDE DEF sum
<1>5. sum[Len(l)] = s[Len(l)]
    BY <1>1, <1>3, <1>4, SumUnique
<1>6. ASSUME NEW w \in Nat, \A i \in 1..Len(l) : l[i] = w
      PROVE  sum[Len(l)] = Len(l) * w
    <2>. DEFINE g == [i \in 0..Len(l) |-> i * w]
    <2>1. SumsTo(g, l, Len(l))
        BY <1>1, <1>6 DEF SumsTo
    <2>2. sum[Len(l)] = g[Len(l)]
        BY <1>1, <1>4, <2>1, SumUnique
    <2>. QED  BY <2>2, <1>1
<1>. QED  BY <1>1, <1>2, <1>3, <1>5, <1>6 DEF l
-----------------------------------------------------------------------------
(***************************************************************************)
(* The mount script                                                        *)
(***************************************************************************)
(* What the script has found out by the time it reaches each of its steps, *)
(* as long as nobody changes the file.                                     *)
ScriptKnows ==
    /\ pc \notin {"fuse", "bytecount", "refused"} =>
           Cardinality(bytecount(file)) = 1
    /\ pc \in {"file_size", "size_check", "main", "mounted"} =>
           catalog_len = wc(file)
    /\ pc \in {"size_check", "main", "mounted"} => file_size = Size(file)
    /\ pc \in {"main", "mounted"} => ~Differs(file_size, expected_file_size)

ScriptInv ==
    /\ TypeOK
    /\ pc = "mounted" => entry_size >= 13 /\ catalog_len > 0
    /\ ~changed => ScriptKnows

\* What the assumption on the constants says of the script's inputs.
LEMMA FileType == Files \subseteq File /\ MinLens \subseteq Nat \cup {-1}
BY MountAssumption DEF Unset

\* wc -l gives a number, or nothing that is one.
LEMMA WcType ==
    ASSUME NEW f \in File
    PROVE  wc(f) \in Nat \cup {-1}
BY DEF wc, File, Unset

\* The invariant holds when the script starts.
LEMMA ScriptInitially == Init => ScriptInv
<1>. SUFFICES ASSUME Init PROVE ScriptInv
    OBVIOUS
<1>1. TypeOK
    BY DEF Init, TypeOK, Ended
<1>2. pc = "fuse"
    BY DEF Init
<1>. QED  BY <1>1, <1>2 DEF ScriptInv, ScriptKnows

\* Every step of the script and of the daemon's start keeps it.
LEMMA ScriptStep == ScriptInv /\ [Next]_vars => ScriptInv'
<1>. SUFFICES ASSUME ScriptInv, [Next]_vars PROVE ScriptInv'
    OBVIOUS
<1>. USE DEF Goto, Ended, Unset
<1>1. CASE CheckFuse
    BY <1>1 DEF CheckFuse, ScriptInv, TypeOK, ScriptKnows
<1>2. CASE CheckLines
    BY <1>2 DEF CheckLines, ScriptInv, TypeOK, ScriptKnows
<1>3. CASE SetEntrySize
    <2>1. entry_size' \in Nat
        BY <1>3, FileType DEF SetEntrySize, exprMinlen, ScriptInv, TypeOK
    <2>. QED  BY <2>1, <1>3 DEF SetEntrySize, ScriptInv, TypeOK, ScriptKnows
<1>4. CASE SetCatalogLen
    <2>1. catalog_len' \in Nat \cup {-1}
        BY <1>4, FileType, WcType DEF SetCatalogLen, ScriptInv, TypeOK
    <2>2. wc(file)' = wc(file)
        BY <1>4 DEF SetCatalogLen, wc
    <2>. QED  BY <2>1, <2>2, <1>4 DEF SetCatalogLen, ScriptInv, TypeOK, ScriptKnows
<1>5. CASE SetFileSize
    <2>1. file \in File
        BY FileType DEF ScriptInv, TypeOK
    <2>2. Size(file) \in Nat \cup {-1}
        <3>1. CASE file.present
            BY <3>1, <2>1, SizeOfFile
        <3>2. CASE ~file.present
            BY <3>2 DEF Size
        <3>. QED  BY <3>1, <3>2
    <2>. QED  BY <2>2, <1>5 DEF SetFileSize, ScriptInv, TypeOK, ScriptKnows
<1>6. CASE CheckSize
    BY <1>6 DEF CheckSize, ScriptInv, TypeOK, ScriptKnows, expected_file_size, Differs
<1>7. CASE Main
    BY <1>7 DEF Main, ScriptInv, TypeOK, ScriptKnows, expected_file_size, Differs
<1>8. CASE ChangeFile
    BY <1>8 DEF ChangeFile, ScriptInv, TypeOK
<1>9. CASE UNCHANGED vars
    BY <1>9 DEF vars, ScriptInv, TypeOK, ScriptKnows, expected_file_size, Differs
<1>. QED
    BY <1>1, <1>2, <1>3, <1>4, <1>5, <1>6, <1>7, <1>8, <1>9
    DEF Next, Script, Stopped

(* What the script knows in the end is enough: one width, a known number   *)
(* of lines and a size that is their product.                              *)
LEMMA ScriptSuffices == ScriptInv => MountFitsFile
<1>. SUFFICES ASSUME ScriptInv, pc = "mounted", ~changed, file.ends
              PROVE  /\ ProperFile(file)
                     /\ file.lens[1] = entry_size
                     /\ Len(file.lens) = catalog_len
    BY DEF MountFitsFile
<1>. DEFINE l == file.lens
<1>1. /\ file \in File /\ l \in Seq(Nat \ {0}) /\ Len(l) \in Nat
      /\ entry_size \in Nat /\ entry_size >= 13 /\ catalog_len > 0
    BY FileType DEF ScriptInv, TypeOK, File
<1>2. ScriptKnows
    BY DEF ScriptInv
<1>3. file.present /\ file.writable /\ Cardinality(Range(l)) = 1
    BY <1>2, FS_EmptySet DEF ScriptKnows, bytecount
<1>4. catalog_len = Len(l)
    BY <1>1, <1>2, <1>3 DEF ScriptKnows, wc
<1>5. Range(l) = {l[i] : i \in 1..Len(l)}
    BY <1>1 DEF Range
<1>6. IsFiniteSet(Range(l))
    <2>1. l \in Surjection(1..Len(l), Range(l))
        BY <1>1, <1>5 DEF Surjection
    <2>. QED  BY <2>1, <1>1, FS_Interval, FS_Surjection
<1>7. PICK w : Range(l) = {w}
    BY <1>3, <1>6, FS_Singleton
<1>8. 1 \in 1..Len(l) /\ w \in Nat /\ \A i \in 1..Len(l) : l[i] = w
    <2>1. \A i \in 1..Len(l) : l[i] \in Range(l) /\ l[i] \in Nat
        BY <1>1, <1>5
    <2>2. 1 \in 1..Len(l)
        BY <1>1, <1>4
    <2>. HIDE DEF l
    <2>. QED  BY <1>7, <2>1, <2>2
<1>9. Size(file) = Len(l) * w
    BY <1>1, <1>3, <1>8, SizeOfFile
<1>10. Len(l) * w = Len(l) * entry_size
    BY <1>1, <1>2, <1>4, <1>8, <1>9
    DEF ScriptKnows, Differs, expected_file_size, Unset
<1>11. w = entry_size
    BY <1>1, <1>4, <1>8, <1>10
<1>. QED  BY <1>1, <1>3, <1>4, <1>7, <1>8, <1>11 DEF ProperFile

(* The numbers of the mount script keep their types for every set of files *)
(* and every minlen (catalogfsmount).                                      *)
THEOREM ScriptTypeCorrect == Spec => []TypeOK
<1>1. ScriptInv => TypeOK
    BY DEF ScriptInv
<1>. QED  BY <1>1, ScriptInitially, ScriptStep, PTL DEF Spec

(* Whatever the catalog file is and whatever minlen the environment gives, *)
(* a file that was left alone while catalogfsmount looked at it is mounted *)
(* only with its true line length and number of lines.                     *)
THEOREM MountedFits == Spec => []MountFitsFile
BY ScriptInitially, ScriptStep, ScriptSuffices, PTL DEF Spec
-----------------------------------------------------------------------------
(***************************************************************************)
(* The references to a connection                                          *)
(***************************************************************************)
Holders == {"mounter", "socket", "lib"}
ConnRec == [fd : SUBSET Holders, file : BOOLEAN, sb : BOOLEAN, count : Int,
            connected : BOOLEAN, init : BOOLEAN, private : BOOLEAN]
LibPcs == {"start", "mounting", "fork", "receive", "setup", "running",
           "unmount", "waiting", "failed", "ended", "dead"}
MounterPcs == {"count", "perm", "empty", "mount", "mtab", "undo", "send", "ended"}

ConnType ==
    /\ conn \in [Conns -> ConnRec]
    /\ ctl \in [sb : BOOLEAN, file : Conns \cup {None}, held : {0, 1}]
    /\ lib \in [Daemons -> [pc : LibPcs, try : {1, 2}]]
    /\ mounts \in Seq(Conns)
    /\ mounter \in [Daemons -> [pc : MounterPcs, cwd : Conns \cup {None}]]

(* A connection that no mount(2) has made yet, and nobody can have open.   *)
Fresh(c) == /\ ~conn[c].sb /\ ~conn[c].file /\ ~conn[c].private
            /\ ctl.file # c

(* The device is new until mount(2): that of this try, and all the more    *)
(* that of the next one.                                                   *)
FreshBefore ==
    \A d \in Daemons :
        /\ lib[d].pc \in {"start", "fork"} =>
               mounter[d].pc = "ended" /\ Fresh(<<d, lib[d].try>>)
        /\ mounter[d].pc \in {"count", "perm", "empty", "mount"} =>
               Fresh(<<d, lib[d].try>>)
        /\ lib[d].try = 1 => Fresh(<<d, 2>>)

Refs(c) == (IF conn[c].sb THEN 1 ELSE 0) + (IF conn[c].file THEN 1 ELSE 0)
           + (IF ctl.file = c THEN ctl.held ELSE 0)

RefsTrue ==
    /\ ctl.held = 1 => ctl.file # None
    /\ \A c \in Conns : /\ conn[c].count = Refs(c)
                        /\ conn[c].private => conn[c].sb /\ ctl.sb

ConnInv == ConnType /\ RefsTrue /\ FreshBefore

\* A connection is of one daemon and one try.
LEMMA ConnsArePairs ==
    /\ \A d \in Daemons, i \in {1, 2} : <<d, i>> \in Conns
    /\ \A d, e \in Daemons, i, j \in {1, 2} :
           <<d, i>> = <<e, j>> => d = e /\ i = j
    /\ None \notin Conns
BY DEF Conns, None

\* At the start there is no connection.
LEMMA ConnInitially == MountInit => ConnInv
<1>. SUFFICES ASSUME MountInit PROVE ConnInv
    OBVIOUS
<1>1. ConnType
    <2>1. NoConn \in ConnRec
        BY DEF NoConn, ConnRec
    <2>2. mounter \in [Daemons -> [pc : MounterPcs, cwd : Conns \cup {None}]]
        BY DEF MountInit, NoMounter, MounterPcs
    <2>3. lib \in [Daemons -> [pc : LibPcs, try : {1, 2}]]
        BY DEF MountInit, LibPcs
    <2>4. mounts \in Seq(Conns)
        BY DEF MountInit
    <2>5. ctl \in [sb : BOOLEAN, file : Conns \cup {None}, held : {0, 1}]
        BY DEF MountInit
    <2>. QED  BY <2>1, <2>2, <2>3, <2>4, <2>5 DEF MountInit, ConnType
<1>2. \A c \in Conns : conn[c].count = Refs(c) /\ Fresh(c)
    BY ConnsArePairs DEF MountInit, NoConn, Refs, Fresh
<1>3. FreshBefore
    BY <1>1, <1>2, ConnsArePairs DEF FreshBefore, MountInit, NoMounter, ConnType
<1>. QED  BY <1>1, <1>2, <1>3 DEF ConnInv, RefsTrue, MountInit, Fresh, Refs

(* What may become of a connection's record without anyone losing count:   *)
(* the references it gives up are given back.                              *)
Gives(r, s) ==
    /\ s \in ConnRec
    /\ s.sb => r.sb
    /\ s.file => r.file
    /\ s.private => r.private /\ s.sb
    /\ r.count - s.count = (IF r.sb /\ ~s.sb THEN 1 ELSE 0)
                           + (IF r.file /\ ~s.file THEN 1 ELSE 0)

\* The last close of the device gives its reference back once.
LEMMA ReleaseGives ==
    ASSUME NEW r \in ConnRec, NEW fd \in SUBSET Holders, r.private => r.sb
    PROVE  Gives(r, fuse_dev_release([r EXCEPT !.fd = fd]))
<1>. DEFINE q == [r EXCEPT !.fd = fd]
            s == [q EXCEPT !.file = FALSE, !.connected = FALSE]
            t == [s EXCEPT !.count = @ - 1]
<1>1. /\ q \in ConnRec
      /\ q.sb = r.sb /\ q.file = r.file /\ q.private = r.private
      /\ q.count = r.count
    BY DEF ConnRec
<1>. HIDE DEF q
<1>2. /\ s \in ConnRec
      /\ s.sb = q.sb /\ s.file = FALSE /\ s.private = q.private
      /\ s.count = q.count
    BY <1>1 DEF ConnRec
<1>. HIDE DEF s
<1>3. /\ t \in ConnRec
      /\ t.sb = s.sb /\ t.file = s.file /\ t.private = s.private
      /\ t.count = s.count - 1
    BY <1>2 DEF ConnRec
<1>. HIDE DEF t
<1>4. r.count \in Int
    BY DEF ConnRec
<1>5. CASE q.fd = {} /\ q.file
    <2>1. fuse_dev_release(q) = t
        BY <1>5 DEF fuse_dev_release, fuse_conn_put, s, t
    <2>2. Gives(r, t)
        BY <1>1, <1>2, <1>3, <1>4, <1>5 DEF Gives
    <2>. QED  BY <2>1, <2>2 DEF q
<1>6. CASE ~(q.fd = {} /\ q.file)
    <2>1. fuse_dev_release(q) = q
        BY <1>6 DEF fuse_dev_release
    <2>2. Gives(r, q)
        BY <1>1, <1>4 DEF Gives
    <2>. QED  BY <2>1, <2>2 DEF q
<1>. QED  BY <1>5, <1>6

FreshKept == \A c \in Conns : Fresh(c) => Fresh(c)'

\* Who gives up a reference of one connection keeps the count true.
LEMMA GivesKeeps ==
    ASSUME ConnInv, NEW c \in Conns, NEW r, Gives(conn[c], r),
           conn' = [conn EXCEPT ![c] = r], ctl' = ctl
    PROVE  /\ conn' \in [Conns -> ConnRec]
           /\ RefsTrue'
           /\ FreshKept
<1>1. conn \in [Conns -> ConnRec] /\ r \in ConnRec
    BY DEF ConnInv, ConnType, Gives
<1>2. conn' \in [Conns -> ConnRec]
    BY <1>1
<1>3. ASSUME NEW e \in Conns
      PROVE  conn'[e] = IF e = c THEN r ELSE conn[e]
    BY <1>1
<1>4. /\ conn[c].count \in Int /\ r.count \in Int /\ ctl.held \in {0, 1}
      /\ conn[c].sb \in BOOLEAN /\ conn[c].file \in BOOLEAN
      /\ r.sb \in BOOLEAN /\ r.file \in BOOLEAN
    BY <1>1 DEF ConnRec, ConnInv, ConnType
<1>5. ASSUME NEW e \in Conns
      PROVE  /\ conn'[e].count = Refs(e)'
             /\ conn'[e].private => conn'[e].sb /\ ctl'.sb
    <2>1. conn[e].count = Refs(e) /\ (conn[e].private => conn[e].sb /\ ctl.sb)
        BY DEF ConnInv, RefsTrue
    <2>2. CASE e # c
        BY <1>3, <2>1, <2>2 DEF Refs
    <2>3. CASE e = c
        <3>1. conn'[e] = r
            BY <1>3, <2>3
        <3>2. r.private => r.sb /\ ctl'.sb
            BY <2>1, <2>3 DEF Gives
        <3>3. /\ conn[c].count = (IF conn[c].sb THEN 1 ELSE 0)
                                + (IF conn[c].file THEN 1 ELSE 0)
                                + (IF ctl.file = c THEN ctl.held ELSE 0)
              /\ conn[c].count - r.count = (IF conn[c].sb /\ ~r.sb THEN 1 ELSE 0)
                                           + (IF conn[c].file /\ ~r.file THEN 1 ELSE 0)
              /\ r.sb => conn[c].sb
              /\ r.file => conn[c].file
            BY <2>1, <2>3 DEF Refs, Gives
        <3>4. r.count = (IF r.sb THEN 1 ELSE 0) + (IF r.file THEN 1 ELSE 0)
                        + (IF ctl.file = c THEN ctl.held ELSE 0)
            <4>. DEFINE h == IF ctl.file = c THEN ctl.held ELSE 0
            <4>1. h \in Int
                BY <1>4
            <4>. HIDE DEF h
            <4>2. conn[c].count = (IF conn[c].sb THEN 1 ELSE 0)
                                  + (IF conn[c].file THEN 1 ELSE 0) + h
                BY <3>3 DEF h
            <4>3. r.count = (IF r.sb THEN 1 ELSE 0) + (IF r.file THEN 1 ELSE 0) + h
                BY <1>4, <3>3, <4>1, <4>2
            <4>. QED  BY <4>3 DEF h
        <3>. QED  BY <3>1, <3>2, <3>4, <2>3 DEF Refs
    <2>. QED  BY <2>2, <2>3
<1>6. FreshKept
    BY <1>3 DEF FreshKept, Fresh, Gives
<1>. QED  BY <1>2, <1>5, <1>6 DEF ConnInv, RefsTrue

\* So does who touches no connection.
LEMMA SameKeeps ==
    ASSUME ConnInv, UNCHANGED <<conn, ctl>>
    PROVE  /\ conn' \in [Conns -> ConnRec]
           /\ RefsTrue'
           /\ FreshKept
BY DEF ConnInv, ConnType, RefsTrue, Refs, FreshKept, Fresh

(* Only daemon d moves, and it and its mounter come to a place before      *)
(* mount(2) from such a place, or for the second try.                      *)
BeforeMount == {"count", "perm", "empty", "mount"}
Moves(d) ==
    /\ lib' \in [Daemons -> [pc : LibPcs, try : {1, 2}]]
    /\ mounter' \in [Daemons -> [pc : MounterPcs, cwd : Conns \cup {None}]]
    /\ \A e \in Daemons \ {d} : lib'[e] = lib[e] /\ mounter'[e] = mounter[e]
    /\ lib'[d].try # lib[d].try => lib[d].try = 1 /\ lib'[d].try = 2
    /\ lib'[d].pc \in {"start", "fork"} =>
           /\ mounter'[d].pc = "ended"
           /\ lib[d].pc \in {"start", "fork"} \/ lib'[d].try # lib[d].try
    /\ mounter'[d].pc \in BeforeMount =>
           lib[d].pc \in {"start", "fork"} \/ mounter[d].pc \in BeforeMount

\* A daemon that goes on leaves the connections of tries to come fresh.
LEMMA MovesKeep ==
    ASSUME ConnInv, NEW d \in Daemons, Moves(d), FreshKept
    PROVE  FreshBefore'
<1>. SUFFICES ASSUME NEW e \in Daemons
              PROVE  /\ lib'[e].pc \in {"start", "fork"} =>
                            /\ mounter'[e].pc = "ended"
                            /\ Fresh(<<e, lib[e].try>>)'
                     /\ mounter'[e].pc \in BeforeMount => Fresh(<<e, lib[e].try>>)'
                     /\ lib'[e].try = 1 => Fresh(<<e, 2>>)'
    BY DEF FreshBefore, BeforeMount, Fresh
<1>1. /\ lib[e].try \in {1, 2} /\ lib'[e].try \in {1, 2}
      /\ <<e, 2>> \in Conns /\ <<e, lib[e].try>> \in Conns
      /\ <<e, lib'[e].try>> \in Conns
    BY ConnsArePairs DEF ConnInv, ConnType, Moves
<1>2. /\ lib[e].pc \in {"start", "fork"} =>
             mounter[e].pc = "ended" /\ Fresh(<<e, lib[e].try>>)
      /\ mounter[e].pc \in BeforeMount => Fresh(<<e, lib[e].try>>)
      /\ lib[e].try = 1 => Fresh(<<e, 2>>)
    BY DEF ConnInv, FreshBefore, BeforeMount
<1>3. CASE e # d
    BY <1>1, <1>2, <1>3 DEF Moves, FreshKept
<1>4. CASE e = d
    BY <1>1, <1>2, <1>4 DEF Moves, FreshKept
<1>. QED  BY <1>3, <1>4

\* So does a step in which no daemon goes on.
LEMMA StayKeeps ==
    ASSUME ConnInv, UNCHANGED <<lib, mounter>>, FreshKept
    PROVE  FreshBefore'
<1>. SUFFICES ASSUME NEW e \in Daemons
              PROVE  /\ lib[e].pc \in {"start", "fork"} =>
                            /\ mounter[e].pc = "ended"
                            /\ Fresh(<<e, lib[e].try>>)'
                     /\ mounter[e].pc \in BeforeMount => Fresh(<<e, lib[e].try>>)'
                     /\ lib[e].try = 1 => Fresh(<<e, 2>>)'
    BY DEF FreshBefore, BeforeMount, Fresh
<1>1. <<e, 2>> \in Conns /\ <<e, lib[e].try>> \in Conns
    BY ConnsArePairs DEF ConnInv, ConnType
<1>. QED  BY <1>1 DEF ConnInv, FreshBefore, FreshKept, BeforeMount, Fresh

\* The connection a daemon is at.
LEMMA ConnOf ==
    ASSUME ConnInv, NEW d \in Daemons
    PROVE  Conn(d) \in Conns /\ conn[Conn(d)] \in ConnRec
           /\ (conn[Conn(d)].private => conn[Conn(d)].sb)
<1>1. Conn(d) \in Conns
    BY ConnsArePairs DEF ConnInv, ConnType, Conn
<1>. QED  BY <1>1 DEF ConnInv, ConnType, RefsTrue

(* Closing the device, handing it on, and the answer to INIT.              *)
LEMMA CloseKeeps ==
    ASSUME ConnInv, NEW d \in Daemons, NEW who, Close(Conn(d), who), ctl' = ctl
    PROVE  conn' \in [Conns -> ConnRec] /\ RefsTrue' /\ FreshKept
<1>. DEFINE r == conn[Conn(d)]
            fd == r.fd \ who
<1>1. r \in ConnRec /\ (r.private => r.sb) /\ Conn(d) \in Conns
    BY ConnOf
<1>2. fd \in SUBSET Holders
    BY <1>1 DEF ConnRec
<1>3. Gives(r, fuse_dev_release([r EXCEPT !.fd = fd]))
    BY <1>1, <1>2, ReleaseGives
<1>4. conn' = [conn EXCEPT ![Conn(d)] = fuse_dev_release([r EXCEPT !.fd = fd])]
    BY DEF Close
<1>. QED  BY <1>1, <1>3, <1>4, GivesKeeps

\* Passing the descriptor on changes no reference.
LEMMA HandKeeps ==
    ASSUME ConnInv, NEW d \in Daemons, NEW fd \in SUBSET Holders,
           conn' = [conn EXCEPT ![Conn(d)].fd = fd], ctl' = ctl
    PROVE  conn' \in [Conns -> ConnRec] /\ RefsTrue' /\ FreshKept
<1>. DEFINE r == conn[Conn(d)]
            q == [r EXCEPT !.fd = fd]
<1>1. r \in ConnRec /\ (r.private => r.sb) /\ Conn(d) \in Conns
    BY ConnOf
<1>2. conn' = [conn EXCEPT ![Conn(d)] = q]
    OBVIOUS
<1>. HIDE DEF r
<1>3. /\ q \in ConnRec
      /\ q.sb = r.sb /\ q.file = r.file /\ q.private = r.private
      /\ q.count = r.count /\ r.count \in Int
    BY <1>1 DEF ConnRec
<1>. HIDE DEF q
<1>4. Gives(r, q)
    BY <1>1, <1>3 DEF Gives
<1>. QED  BY <1>1, <1>2, <1>4, GivesKeeps DEF r

\* The same through the socket.
LEMMA PassKeeps ==
    ASSUME ConnInv, NEW d \in Daemons, NEW from, NEW to \in Holders,
           Pass(Conn(d), from, to), ctl' = ctl
    PROVE  conn' \in [Conns -> ConnRec] /\ RefsTrue' /\ FreshKept
<1>. DEFINE fd == (conn[Conn(d)].fd \ {from}) \cup {to}
<1>1. fd \in SUBSET Holders
    BY ConnOf DEF ConnRec
<1>2. conn' = [conn EXCEPT ![Conn(d)].fd = fd]
    BY DEF Pass
<1>. QED  BY <1>1, <1>2, HandKeeps

\* The answer to INIT changes no reference.
LEMMA AnswerKeeps ==
    ASSUME ConnInv, NEW d \in Daemons,
           conn' = [conn EXCEPT ![Conn(d)].init = conn[Conn(d)].connected],
           ctl' = ctl
    PROVE  conn' \in [Conns -> ConnRec] /\ RefsTrue' /\ FreshKept
<1>. DEFINE r == conn[Conn(d)]
            q == [r EXCEPT !.init = r.connected]
<1>1. r \in ConnRec /\ (r.private => r.sb) /\ Conn(d) \in Conns
    BY ConnOf
<1>2. conn' = [conn EXCEPT ![Conn(d)] = q]
    OBVIOUS
<1>. HIDE DEF r
<1>3. /\ q \in ConnRec
      /\ q.sb = r.sb /\ q.file = r.file /\ q.private = r.private
      /\ q.count = r.count /\ r.count \in Int
    BY <1>1 DEF ConnRec
<1>. HIDE DEF q
<1>4. Gives(r, q)
    BY <1>1, <1>3 DEF Gives
<1>. QED  BY <1>1, <1>2, <1>4, GivesKeeps DEF r

(* mount(2) makes two references where there was none.                     *)
LEMMA FillKeeps ==
    ASSUME ConnInv, NEW d \in Daemons, mounter[d].pc = "mount",
           NEW fd \in SUBSET Holders, ctl' = ctl, lib' = lib,
           MounterAt(d, "mtab"),
           conn' = [conn EXCEPT ![Conn(d)] = fuse_fill_super([@ EXCEPT !.fd = fd])]
    PROVE  conn' \in [Conns -> ConnRec] /\ RefsTrue' /\ FreshBefore'
<1>. DEFINE c == Conn(d)
            q == [conn[c] EXCEPT !.fd = fd]
            r == fuse_fill_super(q)
<1>1. /\ c \in Conns /\ conn[c] \in ConnRec /\ Fresh(c) /\ c = <<d, lib[d].try>>
      /\ conn \in [Conns -> ConnRec] /\ ctl.sb \in BOOLEAN
    BY ConnOf DEF ConnInv, FreshBefore, Conn, ConnType
<1>2. conn' = [conn EXCEPT ![c] = r]
    OBVIOUS
<1>. HIDE DEF c
<1>3. q \in ConnRec
    BY <1>1 DEF ConnRec
<1>. HIDE DEF q
<1>4. /\ r \in ConnRec
      /\ r.sb /\ r.file /\ r.count = 2 /\ (r.private => ctl.sb)
    <2>. DEFINE b == ctl.sb
    <2>1. b \in BOOLEAN
        BY <1>1
    <2>2. r = [q EXCEPT !.file = TRUE, !.sb = TRUE, !.count = 2,
                        !.connected = TRUE, !.private = b]
        BY DEF r, fuse_fill_super
    <2>. HIDE DEF b
    <2>3. r \in ConnRec
        <3>. DEFINE p == [q EXCEPT !.file = TRUE, !.sb = TRUE,
                                   !.connected = TRUE, !.private = b]
        <3>1. p \in ConnRec
            BY <1>3, <2>1 DEF ConnRec
        <3>2. r = [p EXCEPT !.count = 2]
            BY <1>3, <2>1, <2>2 DEF ConnRec
        <3>. HIDE DEF p
        <3>. QED  BY <3>1, <3>2 DEF ConnRec
    <2>4. r.sb /\ r.file /\ r.count = 2 /\ (r.private => b)
        BY <1>3, <2>1, <2>2 DEF ConnRec
    <2>. QED  BY <2>3, <2>4 DEF b
<1>. HIDE DEF r
<1>5. conn' \in [Conns -> ConnRec]
    BY <1>1, <1>2, <1>4
<1>6. ASSUME NEW e \in Conns
      PROVE  conn'[e] = IF e = c THEN r ELSE conn[e]
    BY <1>1, <1>2
<1>7. RefsTrue'
    <2>1. ASSUME NEW e \in Conns
          PROVE  /\ conn'[e].count = Refs(e)'
                 /\ conn'[e].private => conn'[e].sb /\ ctl'.sb
        <3>1. conn[e].count = Refs(e) /\ (conn[e].private => conn[e].sb /\ ctl.sb)
            BY DEF ConnInv, RefsTrue
        <3>2. CASE e # c
            BY <1>6, <3>1, <3>2 DEF Refs
        <3>3. CASE e = c
            BY <1>1, <1>4, <1>6, <3>3 DEF Refs, Fresh
        <3>. QED  BY <3>2, <3>3
    <2>. QED  BY <2>1 DEF ConnInv, RefsTrue
<1>8. FreshBefore'
    <2>. SUFFICES ASSUME NEW e \in Daemons
                  PROVE  /\ lib[e].pc \in {"start", "fork"} =>
                                /\ mounter'[e].pc = "ended"
                                /\ Fresh(<<e, lib[e].try>>)'
                         /\ mounter'[e].pc \in BeforeMount =>
                                Fresh(<<e, lib[e].try>>)'
                         /\ lib[e].try = 1 => Fresh(<<e, 2>>)'
        BY DEF FreshBefore, BeforeMount, Fresh
    <2>1. /\ <<e, 2>> \in Conns /\ <<e, lib[e].try>> \in Conns
          /\ lib[e].try \in {1, 2} /\ lib[d].try \in {1, 2}
        BY ConnsArePairs DEF ConnInv, ConnType
    <2>2. /\ lib[e].pc \in {"start", "fork"} =>
                 mounter[e].pc = "ended" /\ Fresh(<<e, lib[e].try>>)
          /\ mounter[e].pc \in BeforeMount => Fresh(<<e, lib[e].try>>)
          /\ lib[e].try = 1 => Fresh(<<e, 2>>)
        BY DEF ConnInv, FreshBefore, BeforeMount
    <2>3. \A x \in Conns : x # c /\ Fresh(x) => Fresh(x)'
        BY <1>6 DEF Fresh
    <2>4. /\ mounter'[d].pc = "mtab"
          /\ e # d => mounter'[e] = mounter[e]
        BY DEF MounterAt, ConnInv, ConnType
    <2>5. <<e, lib[e].try>> = c => e = d
        BY <1>1, <2>1, ConnsArePairs
    <2>6. lib[e].try = 1 => <<e, 2>> # c
        BY <1>1, <2>1, ConnsArePairs
    <2>7. CASE e = d
        BY <2>1, <2>2, <2>3, <2>4, <2>6, <2>7 DEF BeforeMount
    <2>8. CASE e # d
        BY <2>1, <2>2, <2>3, <2>4, <2>5, <2>6, <2>8
    <2>. QED  BY <2>7, <2>8
<1>. QED  BY <1>5, <1>7, <1>8

(* The rest of the state in the steps of the daemons and their mounters.   *)
LEMMA TopType ==
    ASSUME ConnInv
    PROVE  Top \in Conns \cup {None}
           /\ (mounts # <<>> => Front(mounts) \in Seq(Conns))
<1>1. mounts \in Seq(Conns)
    BY DEF ConnInv, ConnType
<1>2. CASE mounts = <<>>
    BY <1>2 DEF Top, LastOf
<1>3. CASE mounts # <<>>
    BY <1>1, <1>3 DEF Top, LastOf, Last, Front
<1>. QED  BY <1>2, <1>3

\* A step of the daemon alone.
LEMMA LibMoves ==
    ASSUME ConnInv, NEW d \in Daemons, NEW to \in LibPcs \ {"start", "fork"},
           LibAt(d, to), mounter' = mounter
    PROVE  Moves(d)
BY DEF ConnInv, ConnType, LibAt, Moves

\* A step of its fusermount alone.
LEMMA MounterMoves ==
    ASSUME ConnInv, NEW d \in Daemons, NEW to \in MounterPcs, MounterAt(d, to),
           lib' = lib, to \in BeforeMount => mounter[d].pc \in BeforeMount,
           lib[d].pc \notin {"start", "fork"} \/ to = "ended"
    PROVE  Moves(d)
<1>1. mounter' \in [Daemons -> [pc : MounterPcs, cwd : Conns \cup {None}]]
    BY DEF ConnInv, ConnType, MounterAt, NoMounter, MounterPcs
<1>2. /\ \A e \in Daemons \ {d} : mounter'[e] = mounter[e]
      /\ mounter'[d].pc = to
    BY DEF ConnInv, ConnType, MounterAt, NoMounter
<1>. QED  BY <1>1, <1>2 DEF ConnInv, ConnType, Moves, FreshBefore

\* A step that ends both.
LEMMA BothMove ==
    ASSUME ConnInv, NEW d \in Daemons, NEW to \in LibPcs \ {"start", "fork"},
           LibAt(d, to), MounterAt(d, "ended")
    PROVE  Moves(d)
<1>1. mounter' \in [Daemons -> [pc : MounterPcs, cwd : Conns \cup {None}]]
    BY DEF ConnInv, ConnType, MounterAt, NoMounter, MounterPcs
<1>2. /\ \A e \in Daemons \ {d} : mounter'[e] = mounter[e]
      /\ mounter'[d].pc = "ended"
    BY DEF ConnInv, ConnType, MounterAt, NoMounter
<1>3. /\ lib' \in [Daemons -> [pc : LibPcs, try : {1, 2}]]
      /\ \A e \in Daemons \ {d} : lib'[e] = lib[e]
      /\ lib'[d].pc = to /\ lib'[d].try = lib[d].try
    BY DEF ConnInv, ConnType, LibAt
<1>. QED  BY <1>1, <1>2, <1>3 DEF Moves, BeforeMount

\* The second try, with fusermount gone.
LEMMA NextTryMoves ==
    ASSUME ConnInv, NEW d \in Daemons, NextTry(d), mounter' = mounter,
           mounter[d].pc = "ended"
    PROVE  Moves(d)
<1>1. /\ lib' \in [Daemons -> [pc : LibPcs, try : {1, 2}]]
      /\ \A e \in Daemons \ {d} : lib'[e] = lib[e]
    BY DEF ConnInv, ConnType, NextTry, LibPcs
<1>2. CASE lib[d].try = 1
    <2>1. lib'[d] = [pc |-> "fork", try |-> 2]
        BY <1>2 DEF ConnInv, ConnType, NextTry
    <2>. QED  BY <1>1, <1>2, <2>1 DEF ConnInv, ConnType, Moves, BeforeMount
<1>3. CASE lib[d].try # 1
    <2>1. lib'[d].pc = "failed" /\ lib'[d].try = lib[d].try
        BY <1>3 DEF ConnInv, ConnType, NextTry
    <2>. QED  BY <1>1, <2>1 DEF ConnInv, ConnType, Moves, BeforeMount
<1>. QED  BY <1>2, <1>3

\* A mount that fails closes the device.
LEMMA FailsKeeps ==
    ASSUME ConnInv, NEW d \in Daemons, MountFails(d), ctl' = ctl
    PROVE  Moves(d) /\ conn' \in [Conns -> ConnRec] /\ RefsTrue' /\ FreshKept
<1>1. conn' \in [Conns -> ConnRec] /\ RefsTrue' /\ FreshKept
    BY CloseKeeps DEF MountFails
<1>2. CASE IsRoot(d)
    <2>1. LibAt(d, "failed") /\ MounterAt(d, "ended")
        BY <1>2 DEF MountFails
    <2>. QED  BY <1>1, <2>1, BothMove DEF LibPcs
<1>3. CASE ~IsRoot(d)
    <2>1. lib' = lib /\ MounterAt(d, "ended")
        BY <1>3 DEF MountFails
    <2>. QED  BY <1>1, <2>1, MounterMoves DEF MounterPcs, BeforeMount
<1>. QED  BY <1>2, <1>3

(* What a step has to show.                                                *)
LEMMA ConnInvFrom ==
    ASSUME ConnInv, NEW d \in Daemons, Moves(d), FreshKept, RefsTrue',
           conn' \in [Conns -> ConnRec], mounts' \in Seq(Conns), ctl' = ctl
    PROVE  ConnInv'
<1>1. FreshBefore'
    BY MovesKeep
<1>. QED  BY <1>1 DEF ConnInv, ConnType, Moves

\* The daemon's steps keep the invariant.
LEMMA LibSteps ==
    ASSUME ConnInv, NEW d \in Daemons, LibStep(d) \/ fuse_main_common(d)
    PROVE  ConnInv' /\ Moves(d)
<1>. USE DEF LibPcs
<1>0. mounts \in Seq(Conns)
    BY DEF ConnInv, ConnType
<1>1. CASE fuse_mount_sys(d)
    <2>1. /\ UNCHANGED <<conn, ctl, mounts>> /\ lib[d].pc = "start"
          /\ \/ LibAt(d, "failed") /\ mounter' = mounter
             \/ LibAt(d, "mounting") /\ mounter' = [mounter EXCEPT ![d].pc = "mount"]
             \/ LibAt(d, "fork") /\ mounter' = mounter
        BY <1>1 DEF fuse_mount_sys
    <2>2. mounter[d].pc = "ended"
        BY <2>1 DEF ConnInv, FreshBefore
    <2>3. CASE LibAt(d, "failed") /\ mounter' = mounter
        BY <2>3, LibMoves, <2>1, <1>0, SameKeeps, ConnInvFrom
    <2>4. CASE LibAt(d, "mounting") /\ mounter' = [mounter EXCEPT ![d].pc = "mount"]
        <3>a. /\ lib' \in [Daemons -> [pc : LibPcs, try : {1, 2}]]
              /\ \A e \in Daemons \ {d} : lib'[e] = lib[e]
              /\ lib'[d].pc = "mounting" /\ lib'[d].try = lib[d].try
            BY <2>4 DEF ConnInv, ConnType, LibAt
        <3>b. /\ mounter' \in [Daemons -> [pc : MounterPcs, cwd : Conns \cup {None}]]
              /\ \A e \in Daemons \ {d} : mounter'[e] = mounter[e]
            BY <2>4 DEF ConnInv, ConnType, MounterPcs
        <3>1. Moves(d)
            BY <2>1, <3>a, <3>b DEF Moves
        <3>. QED  BY <3>1, <2>1, <1>0, SameKeeps, ConnInvFrom
    <2>5. CASE LibAt(d, "fork") /\ mounter' = mounter
        <3>1. Moves(d)
            BY <2>1, <2>2, <2>5 DEF ConnInv, ConnType, LibAt, Moves, BeforeMount
        <3>. QED  BY <3>1, <2>1, <1>0, SameKeeps, ConnInvFrom
    <2>. QED  BY <2>1, <2>3, <2>4, <2>5
<1>2. CASE fuse_mount_fusermount(d)
    <2>1. /\ UNCHANGED <<conn, ctl, mounts>> /\ lib[d].pc = "fork"
          /\ \/ /\ LibAt(d, "receive")
                /\ mounter' = [mounter EXCEPT ![d] = [pc |-> "count", cwd |-> None]]
             \/ NextTry(d) /\ mounter' = mounter
        BY <1>2 DEF fuse_mount_fusermount
    <2>2. mounter[d].pc = "ended"
        BY <2>1 DEF ConnInv, FreshBefore
    <2>3. CASE /\ LibAt(d, "receive")
               /\ mounter' = [mounter EXCEPT ![d] = [pc |-> "count", cwd |-> None]]
        <3>1. Moves(d)
            BY <2>1, <2>3 DEF ConnInv, ConnType, LibAt, Moves, MounterPcs, BeforeMount
        <3>. QED  BY <3>1, <2>1, <1>0, SameKeeps, ConnInvFrom
    <2>4. CASE NextTry(d) /\ mounter' = mounter
        BY <2>1, <2>2, <2>4, NextTryMoves, <1>0, SameKeeps, ConnInvFrom
    <2>. QED  BY <2>1, <2>3, <2>4
<1>3. CASE receive_fd(d)
    <2>1. /\ UNCHANGED <<ctl, mounts, mounter>> /\ mounter[d].pc = "ended"
          /\ \/ Pass(Conn(d), "socket", "lib") /\ LibAt(d, "setup")
             \/ NextTry(d) /\ conn' = conn
        BY <1>3 DEF receive_fd
    <2>2. CASE Pass(Conn(d), "socket", "lib") /\ LibAt(d, "setup")
        BY <2>1, <2>2, <1>0, PassKeeps, LibMoves, ConnInvFrom DEF Holders
    <2>3. CASE NextTry(d) /\ conn' = conn
        BY <2>1, <2>3, <1>0, NextTryMoves, SameKeeps, ConnInvFrom
    <2>. QED  BY <2>1, <2>2, <2>3
<1>4. CASE fuse_setup_common(d)
    <2>1. /\ UNCHANGED <<ctl, mounts, mounter>>
          /\ \/ /\ LibAt(d, "running")
                /\ conn' = [conn EXCEPT ![Conn(d)].init = conn[Conn(d)].connected]
             \/ LibAt(d, "unmount") /\ conn' = conn
        BY <1>4 DEF fuse_setup_common
    <2>2. CASE /\ LibAt(d, "running")
               /\ conn' = [conn EXCEPT ![Conn(d)].init = conn[Conn(d)].connected]
        BY <2>1, <2>2, <1>0, AnswerKeeps, LibMoves, ConnInvFrom
    <2>3. CASE LibAt(d, "unmount") /\ conn' = conn
        BY <2>1, <2>3, <1>0, LibMoves, SameKeeps, ConnInvFrom
    <2>. QED  BY <2>1, <2>2, <2>3
<1>5. CASE fuse_kern_unmount(d)
    <2>1. /\ UNCHANGED <<ctl, mounts, mounter>> /\ Close(Conn(d), {"lib"})
          /\ LibAt(d, "ended") \/ LibAt(d, "waiting")
        BY <1>5 DEF fuse_kern_unmount, ClosesDevice
    <2>. QED  BY <2>1, <1>0, CloseKeeps, LibMoves, ConnInvFrom
<1>6. CASE fuse_destroy(d) \/ fuse_main_common(d)
    <2>1. /\ UNCHANGED <<ctl, mounts, mounter, conn>>
          /\ LibAt(d, "ended") \/ LibAt(d, "unmount")
        BY <1>6 DEF fuse_destroy, fuse_main_common
    <2>. QED  BY <2>1, <1>0, SameKeeps, LibMoves, ConnInvFrom
<1>. QED  BY <1>1, <1>2, <1>3, <1>4, <1>5, <1>6 DEF LibStep

\* The mounter's steps and the kills keep it.
LEMMA MounterSteps ==
    ASSUME ConnInv, NEW d \in Daemons,
           MounterStep(d) \/ KillDaemon(d) \/ KillMounter(d)
    PROVE  ConnInv' /\ Moves(d)
<1>. USE DEF MounterPcs, BeforeMount
<1>0. mounts \in Seq(Conns)
    BY DEF ConnInv, ConnType
<1>a. lib[d].pc \in {"start", "fork"} => mounter[d].pc = "ended"
    BY DEF ConnInv, FreshBefore
<1>1. CASE mount_fuse(d)
    <2>1. /\ UNCHANGED <<ctl, mounts, lib>> /\ mounter[d].pc = "count"
          /\ \/ MounterAt(d, "ended") /\ conn' = conn
             \/ /\ MounterAt(d, "perm")
                /\ conn' = [conn EXCEPT ![Conn(d)].fd = @ \cup {"mounter"}]
        BY <1>1 DEF mount_fuse
    <2>2. CASE MounterAt(d, "ended") /\ conn' = conn
        BY <2>1, <2>2, <1>0, SameKeeps, MounterMoves, ConnInvFrom
    <2>3. CASE /\ MounterAt(d, "perm")
               /\ conn' = [conn EXCEPT ![Conn(d)].fd = @ \cup {"mounter"}]
        <3>. DEFINE fd == conn[Conn(d)].fd \cup {"mounter"}
        <3>1. fd \in SUBSET Holders
            BY ConnOf DEF ConnRec, Holders
        <3>2. conn' = [conn EXCEPT ![Conn(d)].fd = fd]
            BY <2>3
        <3>. HIDE DEF fd
        <3>3. conn' \in [Conns -> ConnRec] /\ RefsTrue' /\ FreshKept
            BY <2>1, <3>1, <3>2, HandKeeps
        <3>4. Moves(d)
            BY <2>1, <2>3, <1>a, MounterMoves
        <3>. QED  BY <2>1, <3>3, <3>4, <1>0, ConnInvFrom
    <2>. QED  BY <2>1, <2>2, <2>3
<1>2. CASE check_perm(d)
    <2>1. /\ UNCHANGED <<ctl, mounts>> /\ mounter[d].pc = "perm"
          /\ \/ MountFails(d)
             \/ /\ mounter' = [mounter EXCEPT ![d] = [pc |-> "empty", cwd |-> Top]]
                /\ UNCHANGED <<conn, lib>>
        BY <1>2 DEF check_perm
    <2>2. CASE MountFails(d)
        BY <2>1, <2>2, <1>0, FailsKeeps, ConnInvFrom
    <2>3. CASE /\ mounter' = [mounter EXCEPT ![d] = [pc |-> "empty", cwd |-> Top]]
               /\ UNCHANGED <<conn, lib>>
        <3>1. Moves(d)
            BY <2>1, <2>3, <1>a, TopType DEF ConnInv, ConnType, Moves
        <3>. QED  BY <3>1, <2>1, <2>3, <1>0, SameKeeps, ConnInvFrom
    <2>. QED  BY <2>1, <2>2, <2>3
<1>3. CASE fuse_mnt_check_empty(d)
    <2>1. /\ UNCHANGED <<ctl, mounts>> /\ mounter[d].pc = "empty"
          /\ \/ MountFails(d)
             \/ MounterAt(d, "mount") /\ UNCHANGED <<conn, lib>>
        BY <1>3 DEF fuse_mnt_check_empty
    <2>2. CASE MountFails(d)
        BY <2>1, <2>2, <1>0, FailsKeeps, ConnInvFrom
    <2>3. CASE MounterAt(d, "mount") /\ UNCHANGED <<conn, lib>>
        BY <2>1, <2>3, <1>0, <1>a, SameKeeps, MounterMoves, ConnInvFrom
    <2>. QED  BY <2>1, <2>2, <2>3
<1>4. CASE do_mount(d)
    <2>. DEFINE fd == conn[Conn(d)].fd \cup {"mounter"}
    <2>1. /\ ctl' = ctl /\ mounter[d].pc = "mount"
          /\ \/ /\ mounts' = Append(mounts, Conn(d)) /\ lib' = lib
                /\ MounterAt(d, "mtab")
                /\ conn' = [conn EXCEPT ![Conn(d)] = fuse_fill_super([@ EXCEPT !.fd = fd])]
             \/ MountFails(d) /\ mounts' = mounts
        BY <1>4 DEF do_mount
    <2>2. CASE MountFails(d) /\ mounts' = mounts
        BY <2>1, <2>2, <1>0, FailsKeeps, ConnInvFrom
    <2>3. CASE /\ mounts' = Append(mounts, Conn(d)) /\ lib' = lib
               /\ MounterAt(d, "mtab")
               /\ conn' = [conn EXCEPT ![Conn(d)] = fuse_fill_super([@ EXCEPT !.fd = fd])]
        <3>1. fd \in SUBSET Holders
            BY ConnOf DEF ConnRec, Holders
        <3>. HIDE DEF fd
        <3>2. conn' \in [Conns -> ConnRec] /\ RefsTrue' /\ FreshBefore'
            BY <2>1, <2>3, <3>1, FillKeeps
        <3>3. mounts' \in Seq(Conns)
            BY <1>0, <2>3, ConnOf
        <3>4. mounter' \in [Daemons -> [pc : MounterPcs, cwd : Conns \cup {None}]]
            BY <2>3 DEF ConnInv, ConnType, MounterAt
        <3>5. Moves(d)
            BY <2>1, <2>3, <1>a, MounterMoves
        <3>. QED  BY <2>1, <2>3, <3>2, <3>3, <3>4, <3>5 DEF ConnInv, ConnType
    <2>. QED  BY <2>1, <2>2, <2>3
<1>5. CASE fuse_mnt_add_mount(d)
    <2>1. /\ UNCHANGED <<ctl, mounts>> /\ mounter[d].pc = "mtab"
          /\ \/ /\ Pass(Conn(d), "mounter", "lib")
                /\ MounterAt(d, "ended") /\ LibAt(d, "setup")
             \/ MounterAt(d, "send") /\ UNCHANGED <<conn, lib>>
             \/ MounterAt(d, "undo") /\ UNCHANGED <<conn, lib>>
        BY <1>5 DEF fuse_mnt_add_mount, Mounted
    <2>2. CASE /\ Pass(Conn(d), "mounter", "lib")
               /\ MounterAt(d, "ended") /\ LibAt(d, "setup")
        BY <2>1, <2>2, <1>0, PassKeeps, BothMove, ConnInvFrom DEF Holders, LibPcs
    <2>3. CASE /\ MounterAt(d, "send") \/ MounterAt(d, "undo")
               /\ UNCHANGED <<conn, lib>>
        BY <2>1, <2>3, <1>0, <1>a, SameKeeps, MounterMoves, ConnInvFrom
    <2>. QED  BY <2>1, <2>2, <2>3
<1>6. CASE UndoMount(d)
    <2>1. /\ ctl' = ctl /\ MountFails(d)
          /\ mounts' = mounts \/ (mounts # <<>> /\ mounts' = Front(mounts))
        BY <1>6 DEF UndoMount, LazyUmount
    <2>2. mounts' \in Seq(Conns)
        BY <2>1, <1>0, TopType
    <2>. QED  BY <2>1, <2>2, FailsKeeps, ConnInvFrom
<1>7. CASE send_fd(d)
    <2>1. /\ UNCHANGED <<ctl, mounts, lib>> /\ MounterAt(d, "ended")
          /\ Pass(Conn(d), "mounter", "socket") \/ Close(Conn(d), {"mounter"})
        BY <1>7 DEF send_fd
    <2>2. Moves(d)
        BY <2>1, MounterMoves
    <2>3. conn' \in [Conns -> ConnRec] /\ RefsTrue' /\ FreshKept
        BY <2>1, PassKeeps, CloseKeeps DEF Holders
    <2>. QED  BY <2>1, <2>2, <2>3, <1>0, ConnInvFrom
<1>8. CASE KillDaemon(d)
    <2>1. /\ UNCHANGED <<ctl, mounts>> /\ LibAt(d, "dead")
          /\ MounterAt(d, "ended") \/ mounter' = mounter
        BY <1>8 DEF KillDaemon
    <2>2. Moves(d)
        BY <2>1, BothMove, LibMoves DEF LibPcs
    <2>3. PICK who : Close(Conn(d), who)
        BY <1>8 DEF KillDaemon
    <2>4. conn' \in [Conns -> ConnRec] /\ RefsTrue' /\ FreshKept
        BY <2>1, <2>3, CloseKeeps
    <2>. QED  BY <2>1, <2>2, <2>4, <1>0, ConnInvFrom
<1>9. CASE KillMounter(d)
    <2>1. /\ UNCHANGED <<ctl, mounts, lib>> /\ MounterAt(d, "ended")
          /\ Close(Conn(d), {"mounter"})
        BY <1>9 DEF KillMounter
    <2>2. Moves(d)
        BY <2>1, MounterMoves
    <2>. QED  BY <2>1, <2>2, <1>0, CloseKeeps, ConnInvFrom
<1>. QED
    BY <1>1, <1>2, <1>3, <1>4, <1>5, <1>6, <1>7, <1>8, <1>9 DEF MounterStep

\* Those of who unmounts keep it.
LEMMA UnSteps ==
    ASSUME ConnInv, NEW p, UnStep(p) \/ KillUn(p) \/ Command(p)
    PROVE  ConnInv'
<1>1. /\ UNCHANGED <<conn, lib, mounter, ctl>>
      /\ \/ mounts' = mounts
         \/ Top # None /\ mounts' = Front(mounts)
    BY DEF UnStep, KillUn, Command, unmount_fuse, fuse_mnt_umount, Given, Unlist
<1>2. mounts' \in Seq(Conns)
    <2>1. Top # None => mounts # <<>>
        BY DEF Top, LastOf
    <2>. QED  BY <1>1, <2>1, TopType DEF ConnInv, ConnType
<1>3. FreshBefore'
    BY <1>1, SameKeeps, StayKeeps
<1>. QED  BY <1>1, <1>2, <1>3, SameKeeps DEF ConnInv, ConnType

(* The super block goes and takes the connection out of the control file   *)
(* system.                                                                 *)
LEMMA PutKeeps ==
    ASSUME ConnInv, NEW c \in Conns, fuse_put_super(c)
    PROVE  ConnInv'
<1>. DEFINE r == conn[c]
            listed == r.private /\ ~ctl.sb
            q == [r EXCEPT !.sb = FALSE, !.connected = FALSE, !.private = listed]
            s == [q EXCEPT !.count = @ - 1]
<1>1. /\ r.sb /\ UNCHANGED <<lib, mounter, mounts, ctl>>
      /\ conn' = [conn EXCEPT ![c] = s]
    BY DEF fuse_put_super, fuse_conn_put
<1>2. r \in ConnRec /\ ~listed
    BY DEF ConnInv, ConnType, RefsTrue
<1>3. q = [r EXCEPT !.sb = FALSE, !.connected = FALSE, !.private = FALSE]
    BY <1>2
<1>. HIDE DEF r, q
<1>4. /\ q \in ConnRec /\ r.count \in Int
      /\ ~q.sb /\ q.file = r.file /\ ~q.private /\ q.count = r.count
    BY <1>2, <1>3 DEF ConnRec
<1>5. /\ s \in ConnRec
      /\ ~s.sb /\ s.file = q.file /\ ~s.private /\ s.count = q.count - 1
    BY <1>4 DEF ConnRec
<1>. HIDE DEF s
<1>6. Gives(r, s)
    BY <1>1, <1>4, <1>5 DEF Gives
<1>7. conn' \in [Conns -> ConnRec] /\ RefsTrue' /\ FreshKept
    BY <1>1, <1>6, GivesKeeps DEF r
<1>8. FreshBefore'
    BY <1>1, <1>7, StayKeeps
<1>. QED  BY <1>1, <1>7, <1>8 DEF ConnInv, ConnType

\* Those of the control file system keep it: what an abort takes it gives
\* back.
LEMMA CtlSteps ==
    ASSUME ConnInv,
           \/ fuse_ctl_fill_super \/ fuse_ctl_kill_sb
           \/ \E c \in Conns : OpenAbort(c) \/ CtlStepOf(c)
    PROVE  ConnInv'
<1>0. /\ conn \in [Conns -> ConnRec] /\ RefsTrue
      /\ ctl \in [sb : BOOLEAN, file : Conns \cup {None}, held : {0, 1}]
      /\ UNCHANGED <<lib, mounter, mounts>>
    BY DEF ConnInv, ConnType, fuse_ctl_fill_super, fuse_ctl_kill_sb, OpenAbort,
           CtlStepOf, fuse_ctl_file_conn_get, fuse_conn_abort_write, ByHand
<1>. SUFFICES /\ conn' \in [Conns -> ConnRec] /\ RefsTrue' /\ FreshKept
              /\ ctl' \in [sb : BOOLEAN, file : Conns \cup {None}, held : {0, 1}]
    BY <1>0, StayKeeps DEF ConnInv, ConnType
<1>a. \A e \in Conns : /\ conn[e] \in ConnRec /\ conn[e].count \in Int
                       /\ conn[e].sb \in BOOLEAN
                       /\ conn[e].count = Refs(e)
                       /\ conn[e].private => conn[e].sb /\ ctl.sb
    BY <1>0 DEF RefsTrue, ConnRec
<1>1. CASE fuse_ctl_fill_super \/ fuse_ctl_kill_sb
    <2>1. /\ ctl' \in [sb : BOOLEAN, file : Conns \cup {None}, held : {0, 1}]
          /\ ctl'.file = ctl.file /\ ctl'.held = ctl.held
          /\ fuse_ctl_fill_super => ctl'.sb
        BY <1>0, <1>1 DEF fuse_ctl_fill_super, fuse_ctl_kill_sb
    <2>2. PICK listed \in [Conns -> BOOLEAN] :
              /\ conn' = [e \in Conns |-> [conn[e] EXCEPT !.private = listed[e]]]
              /\ \A e \in Conns : listed[e] => conn[e].sb /\ fuse_ctl_fill_super
        <3>1. CASE fuse_ctl_fill_super
            <4>. DEFINE l == [e \in Conns |-> conn[e].sb]
            <4>1. l \in [Conns -> BOOLEAN]
                BY <1>a
            <4>2. conn' = [e \in Conns |-> [conn[e] EXCEPT !.private = l[e]]]
                BY <3>1 DEF fuse_ctl_fill_super
            <4>. QED  BY <3>1, <4>1, <4>2
        <3>2. CASE fuse_ctl_kill_sb
            <4>. DEFINE l == [e \in Conns |-> FALSE]
            <4>1. l \in [Conns -> BOOLEAN]
                OBVIOUS
            <4>2. conn' = [e \in Conns |-> [conn[e] EXCEPT !.private = l[e]]]
                BY <3>2 DEF fuse_ctl_kill_sb
            <4>. QED  BY <4>1, <4>2
        <3>. QED  BY <1>1, <3>1, <3>2
    <2>3. ASSUME NEW e \in Conns
          PROVE  /\ conn'[e] \in ConnRec
                 /\ conn'[e].sb = conn[e].sb /\ conn'[e].file = conn[e].file
                 /\ conn'[e].count = conn[e].count
                 /\ conn'[e].private => conn[e].sb /\ fuse_ctl_fill_super
        <3>. DEFINE b == listed[e]
        <3>1. conn'[e] = [conn[e] EXCEPT !.private = b] /\ b \in BOOLEAN
              /\ (b => conn[e].sb /\ fuse_ctl_fill_super)
            BY <2>2
        <3>. HIDE DEF b
        <3>. QED  BY <3>1, <1>a DEF ConnRec
    <2>4. conn' \in [Conns -> ConnRec]
        BY <2>2, <2>3
    <2>5. RefsTrue'
        BY <1>0, <1>a, <2>1, <2>3 DEF RefsTrue, Refs
    <2>6. FreshKept
        BY <2>1, <2>3 DEF FreshKept, Fresh
    <2>. QED  BY <2>1, <2>4, <2>5, <2>6
<1>2. ASSUME NEW c \in Conns, OpenAbort(c)
      PROVE  /\ conn' \in [Conns -> ConnRec] /\ RefsTrue' /\ FreshKept
             /\ ctl' \in [sb : BOOLEAN, file : Conns \cup {None}, held : {0, 1}]
    <2>1. /\ conn' = conn /\ ctl' = [ctl EXCEPT !.file = c]
          /\ conn[c].private /\ ctl.file = None
        BY <1>2 DEF OpenAbort
    <2>2. /\ ctl' \in [sb : BOOLEAN, file : Conns \cup {None}, held : {0, 1}]
          /\ ctl'.file = c /\ ctl'.held = 0 /\ ctl.held = 0 /\ ctl'.sb = ctl.sb
        BY <1>0, <2>1 DEF RefsTrue
    <2>3. FreshKept
        BY <2>1, <2>2 DEF FreshKept, Fresh
    <2>4. c # None
        BY ConnsArePairs
    <2>. QED  BY <1>0, <1>a, <2>1, <2>2, <2>3, <2>4, ConnsArePairs DEF RefsTrue, Refs
<1>3. ASSUME NEW c \in Conns, fuse_ctl_file_conn_get(c)
      PROVE  /\ conn' \in [Conns -> ConnRec] /\ RefsTrue' /\ FreshKept
             /\ ctl' \in [sb : BOOLEAN, file : Conns \cup {None}, held : {0, 1}]
    <2>1. ctl.file = c /\ ctl.held = 0 /\ c # None
        BY <1>3, ConnsArePairs DEF fuse_ctl_file_conn_get
    <2>2. CASE conn[c].private
        <3>. DEFINE q == [conn[c] EXCEPT !.count = @ + 1]
        <3>1. /\ ctl' = [ctl EXCEPT !.held = 1]
              /\ conn' = [conn EXCEPT ![c] = q]
            BY <1>3, <2>2 DEF fuse_ctl_file_conn_get
        <3>2. /\ q \in ConnRec /\ q.sb = conn[c].sb /\ q.file = conn[c].file
              /\ q.private = conn[c].private /\ q.count = conn[c].count + 1
            BY <1>a DEF ConnRec
        <3>. HIDE DEF q
        <3>3. /\ ctl' \in [sb : BOOLEAN, file : Conns \cup {None}, held : {0, 1}]
              /\ ctl'.file = c /\ ctl'.held = 1 /\ ctl'.sb = ctl.sb
            BY <1>0, <2>1, <3>1
        <3>4. conn' \in [Conns -> ConnRec]
            BY <1>0, <3>1, <3>2
        <3>5. \A e \in Conns : conn'[e] = IF e = c THEN q ELSE conn[e]
            BY <1>0, <3>1
        <3>6. RefsTrue'
            BY <1>0, <1>a, <2>1, <3>2, <3>3, <3>5 DEF RefsTrue, Refs
        <3>7. FreshKept
            BY <2>1, <3>2, <3>3, <3>5 DEF FreshKept, Fresh
        <3>. QED  BY <3>3, <3>4, <3>6, <3>7
    <2>3. CASE ~conn[c].private
        <3>1. conn' = conn /\ ctl' = [ctl EXCEPT !.file = None]
            BY <1>3, <2>3 DEF fuse_ctl_file_conn_get
        <3>2. /\ ctl' \in [sb : BOOLEAN, file : Conns \cup {None}, held : {0, 1}]
              /\ ctl'.file = None /\ ctl'.held = 0 /\ ctl'.sb = ctl.sb
            BY <1>0, <2>1, <3>1
        <3>3. RefsTrue'
            BY <1>0, <1>a, <2>1, <3>1, <3>2, ConnsArePairs DEF RefsTrue, Refs
        <3>4. FreshKept
            BY <3>1, <3>2, ConnsArePairs DEF FreshKept, Fresh
        <3>. QED  BY <1>0, <3>1, <3>2, <3>3, <3>4
    <2>. QED  BY <2>2, <2>3
<1>4. ASSUME NEW c \in Conns, fuse_conn_abort_write(c)
      PROVE  /\ conn' \in [Conns -> ConnRec] /\ RefsTrue' /\ FreshKept
             /\ ctl' \in [sb : BOOLEAN, file : Conns \cup {None}, held : {0, 1}]
    <2>. DEFINE p == [conn[c] EXCEPT !.connected = FALSE]
                q == [p EXCEPT !.count = @ - 1]
    <2>1. /\ ctl.file = c /\ ctl.held = 1
          /\ ctl' = [ctl EXCEPT !.file = None, !.held = 0]
          /\ conn' = [conn EXCEPT ![c] = q]
        BY <1>4 DEF fuse_conn_abort_write, fuse_conn_put
    <2>2. /\ p \in ConnRec /\ p.sb = conn[c].sb /\ p.file = conn[c].file
          /\ p.private = conn[c].private /\ p.count = conn[c].count
        BY <1>a DEF ConnRec
    <2>. HIDE DEF p
    <2>3. /\ q \in ConnRec /\ q.sb = conn[c].sb /\ q.file = conn[c].file
          /\ q.private = conn[c].private /\ q.count = conn[c].count - 1
        BY <2>2 DEF ConnRec
    <2>. HIDE DEF q
    <2>4. /\ ctl' \in [sb : BOOLEAN, file : Conns \cup {None}, held : {0, 1}]
          /\ ctl'.file = None /\ ctl'.held = 0 /\ ctl'.sb = ctl.sb
        BY <1>0, <2>1
    <2>5. conn' \in [Conns -> ConnRec]
        BY <1>0, <2>1, <2>3
    <2>6. \A e \in Conns : conn'[e] = IF e = c THEN q ELSE conn[e]
        BY <1>0, <2>1
    <2>7. RefsTrue'
        BY <1>0, <1>a, <2>1, <2>3, <2>4, <2>6, ConnsArePairs DEF RefsTrue, Refs
    <2>8. FreshKept
        BY <2>1, <2>3, <2>4, <2>6, ConnsArePairs DEF FreshKept, Fresh
    <2>. QED  BY <2>4, <2>5, <2>7, <2>8
<1>. QED  BY <1>1, <1>2, <1>3, <1>4 DEF CtlStepOf

\* Every step of MountNext keeps it.
LEMMA ConnStep == ConnInv /\ [MountNext]_mountVars => ConnInv'
<1>. SUFFICES ASSUME ConnInv, [MountNext]_mountVars PROVE ConnInv'
    OBVIOUS
<1>1. ASSUME NEW d \in Daemons, LibStep(d) \/ MounterStep(d) \/ fuse_main_common(d)
      PROVE  ConnInv'
    BY <1>1, LibSteps, MounterSteps
<1>2. ASSUME NEW d \in Daemons, KillDaemon(d) \/ KillMounter(d) PROVE ConnInv'
    BY <1>2, MounterSteps
<1>3. ASSUME NEW p, UnStep(p) \/ KillUn(p) \/ Command(p) PROVE ConnInv'
    BY <1>3, UnSteps
<1>4. ASSUME NEW c \in Conns, fuse_put_super(c) \/ OpenAbort(c) \/ CtlStepOf(c)
      PROVE  ConnInv'
    BY <1>4, PutKeeps, CtlSteps
<1>5. CASE fuse_ctl_fill_super \/ fuse_ctl_kill_sb
    BY <1>5, CtlSteps
<1>6. CASE UNCHANGED mountVars
    BY <1>6, SameKeeps, StayKeeps DEF mountVars, ConnInv, ConnType
<1>. QED  BY <1>1, <1>2, <1>3, <1>4, <1>5, <1>6 DEF MountNext

(* For any number of daemons and commands, users and settings: fc->count   *)
(* is the number of those who use a connection, and the control file       *)
(* system never leads to one that is gone (inode.c, control.c).            *)
THEOREM ConnsStayCounted == MountSpec => []ConnsCounted
<1>1. ConnInv => ConnsCounted
    <2>. SUFFICES ASSUME ConnInv, NEW c \in Conns
                  PROVE  /\ conn[c].count = Refs(c)
                         /\ conn[c].private => conn[c].count > 0
        BY DEF ConnsCounted, Refs
    <2>1. conn[c].count = Refs(c) /\ (conn[c].private => conn[c].sb)
          /\ ctl.held \in {0, 1}
        BY DEF ConnInv, ConnType, RefsTrue
    <2>. QED  BY <2>1 DEF Refs
<1>. QED  BY <1>1, ConnInitially, ConnStep, PTL DEF MountSpec
-----------------------------------------------------------------------------
(***************************************************************************)
(* Mounts, daemons and /etc/mtab                                           *)
(***************************************************************************)
Among(list) == {list[i] : i \in DOMAIN list}
Mt == Among(mounts)
Tb == Among(mtab)

\* Of one daemon, the connection of its first try comes before the second.
Ranked(list) == \A i \in DOMAIN list : \A j \in DOMAIN list :
                   i < j /\ list[i][1] = list[j][1] => list[i][2] < list[j][2]

\* Somebody has unmounted c and is to take it out of /etc/mtab.
Pending(c) == \E p \in Processes : un[p].target = c /\ un[p].pc \in {"put", "unlist"}

\* Not mounted yet: the connection of a try to come, or under way.
Unborn(c) ==
    \/ c[2] > lib[c[1]].try
    \/ /\ c = Conn(c[1])
       /\ lib[c[1]].pc \in {"start", "fork"} \/ mounter[c[1]].pc \in BeforeMount
UnbornAbsent ==
    \A c \in Conns : Unborn(c) => /\ c \notin Mt /\ c \notin Tb
                                  /\ \A p \in Processes : un[p].target # c

\* Where a daemon is while somebody mounts for it, and before it unmounts.
InStep(d) ==
    /\ mounter[d].pc # "ended" =>
          IF IsRoot(d) THEN lib[d].pc = "mounting"
          ELSE lib[d].pc = "receive" \/ (lib[d].pc = "dead" /\ Conn(d) \in hist.excused)
    /\ mounter[d].pc \in {"count", "send"} \/ lib[d].pc \in {"fork", "receive"} => ~IsRoot(d)
    /\ mounter[d].pc \in {"mtab", "undo"} => Conn(d) \notin Tb
    /\ un[d].lazy
    /\ un[d].pc # "idle" => lib[d].pc \in {"waiting", "ended", "dead"}

\* A connection that is to stay mounted is in somebody's hands.
Alive(c) ==
    LET d == c[1]
    IN  /\ conn[c].connected
        /\ \/ mounter[d].pc \in {"mtab", "undo", "send"} /\ "mounter" \in conn[c].fd
           \/ lib[d].pc = "receive" /\ "socket" \in conn[c].fd
           \/ lib[d].pc \in {"setup", "running", "unmount"} /\ "lib" \in conn[c].fd
Leaving(c) == lib[c[1]].pc = "waiting" /\ un[c[1]].pc \in {"check", "umount"}

Sound(c) ==
    /\ c \in Mt => c = Conn(c[1]) /\ (Alive(c) \/ Leaving(c))
    /\ ~env.link => /\ c \in Tb /\ c \notin Mt => Pending(c)
                    /\ c \in Mt /\ c \notin Tb => mounter[c[1]].pc \in {"mtab", "undo"}
                    /\ c = Conn(c[1]) /\ mounter[c[1]].pc = "mtab" => c \in Mt \/ Pending(c)

TargetsGone ==
    \A p \in Processes : un[p].target # None =>
        un[p].target \in Conns /\ un[p].target \notin Mt

UnRec == [pc : {"idle", "check", "umount", "put", "unlist", "ended"},
          lazy : BOOLEAN, target : Conns \cup {None}]

HistOK == hist = [events |-> hist.events, excused |-> hist.excused]

AgreeInv ==
    /\ ConnInv /\ HistOK
    /\ mtab \in Seq(Conns) /\ un \in [Processes -> UnRec]
    /\ Ranked(mounts) /\ Ranked(mtab)
    /\ UnbornAbsent /\ TargetsGone
    /\ \A d \in Daemons : InStep(d)
    /\ \A c \in Conns : /\ conn[c].connected => conn[c].sb
                        /\ c \notin hist.excused => Sound(c)

LEMMA ConnParts ==
    /\ \A c \in Conns : c = <<c[1], c[2]>> /\ c[1] \in Daemons /\ c[2] \in {1, 2}
    /\ None \notin Conns
BY DEF Conns, None

\* A list without its last element, and with one more.
LEMMA OneLess ==
    ASSUME NEW list \in Seq(Conns), Ranked(list), list # <<>>
    PROVE  /\ Front(list) \in Seq(Conns) /\ Ranked(Front(list))
           /\ Last(list) \in Among(list) /\ Last(list) \in Conns
           /\ Among(Front(list)) = Among(list) \ {Last(list)}
           /\ \A c \in Among(list) : c # Last(list) /\ c[1] = Last(list)[1] =>
                                        c[2] < Last(list)[2]
<1>. DEFINE n == Len(list)
            f == Front(list)
            last == Last(list)
<1>1. n \in Nat /\ n # 0 /\ DOMAIN list = 1..n /\ n \in 1..n
    OBVIOUS
<1>2. f = SubSeq(list, 1, n - 1) /\ last = list[n]
    BY DEF Front, Last
<1>3. /\ f \in Seq(Conns) /\ DOMAIN f = 1..(n - 1)
      /\ \A i \in 1..(n - 1) : f[i] = list[i] /\ i \in 1..n
    <2>1. f \in Seq(Conns) /\ Len(f) = n - 1 /\ \A i \in 1..(n - 1) : f[i] = list[i]
        BY <1>1, <1>2
    <2>. HIDE DEF f, n
    <2>. QED  BY <1>1, <2>1
<1>. HIDE DEF f, n, last
<1>4. \A i \in 1..n : \A j \in 1..n : i < j /\ list[i][1] = list[j][1] => list[i][2] < list[j][2]
    BY <1>1 DEF Ranked
<1>5. Ranked(f)
    BY <1>3, <1>4 DEF Ranked
<1>6. \A i \in 1..n : list[i] \in Conns /\ list[i][2] \in {1, 2}
    <2>1. \A i \in 1..n : list[i] \in Conns
        BY <1>1
    <2>. QED  BY <2>1, ConnParts
<1>7. \A i \in 1..(n - 1) : list[i] # last
    <2>. SUFFICES ASSUME NEW i \in 1..(n - 1), list[i] = last PROVE FALSE
        OBVIOUS
    <2>1. i \in 1..n /\ i < n /\ list[i] = list[n]
        BY <1>1, <1>2
    <2>2. list[i][2] < list[n][2] /\ list[i][2] \in {1, 2}
        BY <1>1, <1>4, <1>6, <2>1
    <2>. QED  BY <2>1, <2>2
<1>8. Among(f) = Among(list) \ {last}
    <2>1. \A i \in 1..n : i = n \/ i \in 1..(n - 1)
        BY <1>1
    <2>. QED  BY <1>1, <1>2, <1>3, <1>7, <2>1 DEF Among
<1>9. last \in Among(list) /\ last \in Conns
    BY <1>1, <1>2, <1>6 DEF Among
<1>10. \A c \in Among(list) : c # last /\ c[1] = last[1] => c[2] < last[2]
    <2>. SUFFICES ASSUME NEW i \in 1..n, list[i] # last, list[i][1] = last[1]
                  PROVE  list[i][2] < last[2]
        BY <1>1 DEF Among
    <2>1. i < n
        BY <1>1, <1>2
    <2>. QED  BY <1>1, <1>2, <1>4, <2>1
<1>. QED  BY <1>3, <1>5, <1>8, <1>9, <1>10 DEF f, last

LEMMA OneMore ==
    ASSUME NEW list \in Seq(Conns), Ranked(list), NEW c \in Conns,
           \A x \in Among(list) : x[1] = c[1] => x[2] < c[2]
    PROVE  /\ Append(list, c) \in Seq(Conns) /\ Ranked(Append(list, c))
           /\ Among(Append(list, c)) = Among(list) \cup {c}
<1>. DEFINE n == Len(list)
            a == Append(list, c)
<1>1. /\ n \in Nat /\ DOMAIN list = 1..n
      /\ a \in Seq(Conns) /\ Len(a) = n + 1 /\ a[n + 1] = c
      /\ \A i \in 1..n : a[i] = list[i]
    OBVIOUS
<1>. HIDE DEF a, n
<1>2. DOMAIN a = 1..(n + 1) /\ \A i \in 1..(n + 1) : i \in 1..n \/ i = n + 1
    BY <1>1
<1>3. Among(a) = Among(list) \cup {c}
    <2>1. \A i \in 1..n : i \in 1..(n + 1)
        BY <1>1
    <2>2. n + 1 \in 1..(n + 1)
        BY <1>1
    <2>. QED  BY <1>1, <1>2, <2>1, <2>2 DEF Among
<1>4. Ranked(a)
    <2>. SUFFICES ASSUME NEW i \in 1..(n + 1), NEW j \in 1..(n + 1), i < j, a[i][1] = a[j][1]
                  PROVE  a[i][2] < a[j][2]
        BY <1>2 DEF Ranked
    <2>1. i \in 1..n /\ a[i] = list[i] /\ list[i] \in Among(list)
        BY <1>1, <1>2 DEF Among
    <2>2. CASE j = n + 1
        BY <1>1, <2>1, <2>2
    <2>3. CASE j \in 1..n
        BY <1>1, <2>1, <2>3 DEF Ranked
    <2>. QED  BY <1>2, <2>2, <2>3
<1>. QED  BY <1>1, <1>3, <1>4 DEF a

\* The parts of the connection that a daemon is at.
LEMMA ConnIs ==
    ASSUME ConnInv, NEW d \in Daemons
    PROVE  /\ Conn(d) = <<d, lib[d].try>> /\ Conn(d)[1] = d /\ Conn(d)[2] = lib[d].try
           /\ Conn(d) \in Conns /\ lib[d].try \in {1, 2}
    BY ConnsArePairs DEF ConnInv, ConnType, Conn

\* What becomes of a connection that somebody closes.
LEMMA CloseLeaves ==
    ASSUME ConnInv, NEW c \in Conns, NEW who, Close(c, who)
    PROVE  /\ \A x \in Conns \ {c} : conn'[x] = conn[x]
           /\ conn'[c].sb = conn[c].sb /\ conn'[c].fd = conn[c].fd \ who
           /\ conn'[c].fd # {} => conn'[c].connected = conn[c].connected
           /\ conn'[c].connected => conn[c].connected
<1>. DEFINE r == conn[c]
            q == [r EXCEPT !.fd = r.fd \ who]
            s == fuse_dev_release(q)
<1>1. r \in ConnRec /\ conn \in [Conns -> ConnRec]
    BY DEF ConnInv, ConnType
<1>2. conn' = [conn EXCEPT ![c] = s]
    BY DEF Close
<1>3. q.sb = r.sb /\ q.fd = r.fd \ who /\ q.connected = r.connected /\ q.file = r.file
    BY <1>1 DEF ConnRec
<1>4. q \in [fd : SUBSET Holders, file : BOOLEAN, sb : BOOLEAN, count : Int,
             connected : BOOLEAN, init : BOOLEAN, private : BOOLEAN]
    BY <1>1 DEF ConnRec
<1>. HIDE DEF q, r
<1>5. s.sb = q.sb /\ s.fd = q.fd /\ (q.fd # {} => s = q) /\ (s.connected => q.connected)
    BY <1>4 DEF fuse_dev_release, fuse_conn_put
<1>. HIDE DEF s
<1>6. conn'[c] = s /\ \A x \in Conns \ {c} : conn'[x] = conn[x]
    BY <1>1, <1>2
<1>. QED  BY <1>3, <1>5, <1>6 DEF r

LEMMA PassLeaves ==
    ASSUME ConnInv, NEW c \in Conns, NEW from, NEW to, Pass(c, from, to)
    PROVE  /\ \A x \in Conns \ {c} : conn'[x] = conn[x]
           /\ conn'[c].sb = conn[c].sb /\ conn'[c].fd = (conn[c].fd \ {from}) \cup {to}
           /\ conn'[c].connected = conn[c].connected
<1>1. conn[c] \in ConnRec /\ conn \in [Conns -> ConnRec]
    BY DEF ConnInv, ConnType
<1>. QED  BY <1>1 DEF Pass, ConnRec

LEMMA HistIs ==
    ASSUME HistOK, NEW cs,
           \/ hist' = hist \/ hist' = Noted
           \/ hist' = Excused(hist, cs) \/ hist' = Excused(Noted, cs)
    PROVE  /\ HistOK' /\ hist.excused \subseteq hist'.excused
           /\ \/ hist' = hist \/ hist' = Noted
              \/ hist'.excused = hist.excused \cup cs
           /\ (hist' = hist \/ hist' = Noted) => hist'.excused = hist.excused
           /\ (hist' = Excused(hist, cs) \/ hist' = Excused(Noted, cs)) =>
                  cs \subseteq hist'.excused
<1>. DEFINE e == hist.events
            x == hist.excused
            n == e + 1
<1>1. hist = [events |-> e, excused |-> x]
    BY DEF HistOK
<1>. HIDE DEF e, x
<1>2. Noted = [events |-> n, excused |-> x]
    BY <1>1 DEF Noted, e
<1>. HIDE DEF n
<1>3. /\ Excused(hist, cs) = [events |-> e, excused |-> x \cup cs]
      /\ Excused(Noted, cs) = [events |-> n, excused |-> x \cup cs]
    BY <1>1, <1>2 DEF Excused
<1>4. hist.excused = x
    BY <1>1
<1>5. PICK f, y : hist' = [events |-> f, excused |-> y] /\ x \subseteq y /\ (y = x \/ y = x \cup cs)
                  /\ (hist' = hist \/ hist' = Noted => y = x)
                  /\ (hist' = Excused(hist, cs) \/ hist' = Excused(Noted, cs) => cs \subseteq y)
                  /\ (hist' = hist \/ hist' = Noted \/ y = x \cup cs)
    <2>1. CASE hist' = hist \/ hist' = Noted
        <3>1. hist'.excused = x
            BY <1>1, <1>2, <2>1
        <3>2. \E f : hist' = [events |-> f, excused |-> x]
            BY <1>1, <1>2, <2>1
        <3>3. hist' = Excused(hist, cs) \/ hist' = Excused(Noted, cs) => x \cup cs = x
            <4>1. Excused(hist, cs).excused = x \cup cs /\ Excused(Noted, cs).excused = x \cup cs
                BY <1>3
            <4>. QED  BY <3>1, <4>1
        <3>. QED  BY <2>1, <3>2, <3>3
    <2>2. CASE /\ hist' = Excused(hist, cs) \/ hist' = Excused(Noted, cs)
               /\ ~(hist' = hist \/ hist' = Noted)
        BY <1>3, <2>2
    <2>. QED  BY <2>1, <2>2
<1>6. hist'.excused = y
    BY <1>5
<1>. QED  BY <1>4, <1>5, <1>6 DEF HistOK

(* What a step of daemon d or of its mounter has to show when it changes   *)
(* neither the mounts nor /etc/mtab: of the others nothing changes.        *)
UnStays(d) ==
    /\ un' \in [Processes -> UnRec]
    /\ \A p \in Processes :
          /\ un'[p].target = un[p].target /\ un'[p].lazy = un[p].lazy
          /\ un'[p] = un[p] \/ (p = d /\ un[p].pc = "idle")

HistGrows == HistOK' /\ hist.excused \subseteq hist'.excused

Aside(d) ==
    /\ UNCHANGED <<env, mounts, mtab>> /\ HistGrows
    /\ \A x \in Conns \ {Conn(d)} : conn'[x] = conn[x]
    /\ conn'[Conn(d)].connected => conn'[Conn(d)].sb

\* That the connection stays in somebody's hands.
HandedOn(d, c) ==
    c \in Mt /\ c \notin hist'.excused =>
        /\ lib'[d].try = lib[d].try
        /\ Alive(c)' \/ Leaving(c)'
        /\ c \notin Tb /\ ~env.link => mounter'[d].pc \in {"mtab", "undo"}

LEMMA UnbornStays ==
    ASSUME ConnInv, NEW d \in Daemons, Moves(d), NEW x \in Conns, Unborn(x)'
    PROVE  Unborn(x)
<1>. DEFINE e == x[1]
<1>1. e \in Daemons /\ x[2] \in {1, 2} /\ x = <<e, x[2]>>
    BY ConnParts
<1>. HIDE DEF e
<1>2. /\ Conn(e) = <<e, lib[e].try>> /\ lib[e].try \in {1, 2} /\ lib'[e].try \in {1, 2}
      /\ Conn(e)' = <<e, lib'[e].try>>
    BY <1>1, ConnIs DEF Moves, Conn
<1>3. \/ x[2] > lib'[e].try
      \/ /\ x[2] = lib'[e].try
         /\ lib'[e].pc \in {"start", "fork"} \/ mounter'[e].pc \in BeforeMount
    BY <1>1, <1>2 DEF Unborn, e
<1>4. SUFFICES \/ x[2] > lib[e].try
               \/ /\ x[2] = lib[e].try
                  /\ lib[e].pc \in {"start", "fork"} \/ mounter[e].pc \in BeforeMount
    BY <1>1, <1>2 DEF Unborn, e
<1>5. CASE e # d
    BY <1>1, <1>3, <1>5 DEF Moves
<1>6. CASE e = d /\ lib'[d].try # lib[d].try
    BY <1>1, <1>2, <1>3, <1>6 DEF Moves
<1>7. CASE e = d /\ lib'[d].try = lib[d].try
    BY <1>2, <1>3, <1>7 DEF Moves
<1>. QED  BY <1>5, <1>6, <1>7

\* The same for steps that change them for its own connection, or unmount
\* what is another's and is named.
Beside(d) ==
    /\ env' = env /\ mtab' \in Seq(Conns) /\ Ranked(mounts)' /\ Ranked(mtab)' /\ HistGrows
    /\ \A x \in Conns \ {Conn(d)} :
          /\ conn'[x] = conn[x]
          /\ x \in Mt' => x \in Mt
          /\ x \in Mt /\ x \notin Mt' => x \in hist'.excused
          /\ x \in Tb' <=> x \in Tb
    /\ conn'[Conn(d)].connected => conn'[Conn(d)].sb

OwnKept(c) ==
    /\ c \notin hist'.excused => Sound(c)'
    /\ Unborn(c)' => c \notin Mt' /\ c \notin Tb'
    /\ c \in Mt' => c \in Mt \/ Unborn(c)

LEMMA StepKeeps ==
    ASSUME AgreeInv, ConnInv', NEW d \in Daemons, Moves(d), UnStays(d), Beside(d),
           InStep(d)', mounter'[d].pc = "mtab" => lib'[d].try = lib[d].try,
           NEW c, c = Conn(d), OwnKept(c)
    PROVE  AgreeInv'
<1>1. env' = env
    BY DEF Beside
<1>2. mtab' \in Seq(Conns) /\ un' \in [Processes -> UnRec] /\ Ranked(mounts)' /\ Ranked(mtab)'
    BY DEF Beside, UnStays
<1>3. ConnInv /\ un \in [Processes -> UnRec] /\ UnbornAbsent /\ TargetsGone
    BY DEF AgreeInv
<1>4. UnbornAbsent'
    <2>. SUFFICES ASSUME NEW x \in Conns, Unborn(x)'
                  PROVE  /\ x \notin Mt' /\ x \notin Tb'
                         /\ \A p \in Processes : un'[p].target # x
        BY DEF UnbornAbsent
    <2>1. Unborn(x)
        BY <1>3, UnbornStays
    <2>2. x \notin Mt /\ x \notin Tb /\ \A p \in Processes : un'[p].target # x
        BY <1>3, <2>1 DEF UnbornAbsent, UnStays
    <2>3. x \notin Mt' /\ x \notin Tb'
        BY <2>2 DEF Beside, OwnKept
    <2>. QED  BY <2>2, <2>3
<1>5. TargetsGone'
    <2>. SUFFICES ASSUME NEW p \in Processes, un'[p].target # None
                  PROVE  un'[p].target \in Conns /\ un'[p].target \notin Mt'
        BY DEF TargetsGone
    <2>1. PICK x : x = un[p].target
        OBVIOUS
    <2>2. un'[p].target = x /\ x \in Conns /\ x \notin Mt
        BY <1>3, <2>1 DEF TargetsGone, UnStays
    <2>3. x \notin Mt'
        BY <1>3, <2>1, <2>2 DEF Beside, OwnKept, UnbornAbsent
    <2>. QED  BY <2>2, <2>3
<1>6. c = <<d, lib[d].try>> /\ c[1] = d /\ c \in Conns
    BY <1>3, ConnIs
<1>7. ASSUME NEW e \in Daemons PROVE InStep(e)'
    <2>1. CASE e = d
        BY <2>1
    <2>2. CASE e # d
        <3>1. lib'[e] = lib[e] /\ mounter'[e] = mounter[e] /\ un'[e] = un[e] /\ Conn(e)' = Conn(e)
            BY <2>2 DEF Moves, UnStays, Processes, Conn
        <3>2. PICK x : x = Conn(e)
            OBVIOUS
        <3>3. x \in Conns /\ x # c
            BY <1>3, <1>6, <2>2, <3>2, ConnIs
        <3>4. InStep(e) /\ (x \in Tb' <=> x \in Tb) /\ (x \in hist.excused => x \in hist'.excused)
            BY <3>3 DEF AgreeInv, Beside, HistGrows
        <3>. QED  BY <1>1, <3>1, <3>2, <3>4 DEF InStep, IsRoot, User
    <2>. QED  BY <2>1, <2>2
<1>8. \A x \in Conns : Pending(x) => Pending(x)'
    BY DEF Pending, UnStays
<1>9. ASSUME NEW x \in Conns, x \notin hist'.excused PROVE Sound(x)'
    <2>. DEFINE e == x[1]
    <2>1. e \in Daemons /\ x[2] \in {1, 2} /\ x = <<e, x[2]>>
        BY ConnParts
    <2>2. Sound(x)
        BY <1>9 DEF AgreeInv, Beside, HistGrows
    <2>3. x # c => (x \in Mt' <=> x \in Mt) /\ (x \in Tb' <=> x \in Tb) /\ conn'[x] = conn[x]
        BY <1>9 DEF Beside
    <2>. HIDE DEF e
    <2>4. CASE e # d
        <3>0. x # c
            BY <1>6, <2>1, <2>4
        <3>1. /\ lib'[e] = lib[e] /\ mounter'[e] = mounter[e] /\ un'[e] = un[e]
              /\ Conn(e)' = Conn(e) /\ conn'[x] = conn[x]
            BY <2>1, <2>3, <2>4, <3>0 DEF Moves, UnStays, Processes, Conn
        <3>2. (x \in Mt => x = Conn(e) /\ (Alive(x) \/ Leaving(x)))'
            BY <2>2, <2>3, <3>0, <3>1 DEF Sound, Alive, Leaving, e
        <3>. QED  BY <1>1, <1>8, <2>2, <2>3, <3>0, <3>1, <3>2 DEF Sound, e
    <2>5. CASE e = d /\ x # c
        <3>1. x \notin Mt
            BY <2>2, <2>5 DEF Sound, e
        <3>2. ~env.link /\ x \in Tb => Pending(x)
            BY <2>2, <3>1 DEF Sound
        <3>3. x = Conn(d)' => mounter'[d].pc # "mtab"
            BY <1>6, <2>1, <2>5 DEF Conn
        <3>. QED  BY <1>1, <1>8, <2>3, <2>5, <3>1, <3>2, <3>3 DEF Sound, e
    <2>6. CASE x = c
        BY <1>9, <2>6 DEF OwnKept
    <2>. QED  BY <1>6, <2>4, <2>5, <2>6
<1>10. ASSUME NEW x \in Conns, conn'[x].connected PROVE conn'[x].sb
    BY <1>10 DEF AgreeInv, Beside
<1>11. HistOK'
    BY DEF Beside, HistGrows
<1>. QED  BY <1>2, <1>4, <1>5, <1>7, <1>9, <1>10, <1>11 DEF AgreeInv

LEMMA DaemonKeeps ==
    ASSUME AgreeInv, ConnInv', NEW d \in Daemons, Moves(d), UnStays(d), Aside(d),
           InStep(d)',
           mounter'[d].pc = "mtab" => mounter[d].pc = "mtab" /\ lib'[d].try = lib[d].try,
           NEW c, c = Conn(d), HandedOn(d, c)
    PROVE  AgreeInv'
<1>1. Mt' = Mt /\ Tb' = Tb /\ env' = env
    BY DEF Aside, Mt, Tb, Among
<1>2. Ranked(mounts)' /\ Ranked(mtab)' /\ mtab' \in Seq(Conns)
    BY DEF AgreeInv, Aside, Ranked
<1>3. Beside(d)
    BY <1>1, <1>2 DEF Aside, Beside
<1>4. ConnInv /\ UnbornAbsent
    BY DEF AgreeInv
<1>5. c = <<d, lib[d].try>> /\ c[1] = d /\ c \in Conns
    BY <1>4, ConnIs
<1>6. Unborn(c)' => c \notin Mt /\ c \notin Tb
    BY <1>4, <1>5, UnbornStays DEF UnbornAbsent
<1>7. ASSUME c \notin hist'.excused PROVE Sound(c)'
    <2>0. Sound(c)
        BY <1>5, <1>7 DEF AgreeInv, Aside, HistGrows
    <2>1. c \in Mt => c = Conn(d)' /\ (Alive(c)' \/ Leaving(c)')
        BY <1>5, <1>7 DEF HandedOn, Conn
    <2>2. ~env.link => /\ c \in Tb /\ c \notin Mt => Pending(c)
                       /\ c \in Mt /\ c \notin Tb => mounter'[d].pc \in {"mtab", "undo"}
                       /\ mounter'[d].pc = "mtab" => c \in Mt \/ Pending(c)
        BY <1>5, <1>7, <2>0 DEF Sound, HandedOn
    <2>3. Pending(c) => Pending(c)'
        BY DEF Pending, UnStays
    <2>. QED  BY <1>1, <1>5, <2>1, <2>2, <2>3 DEF Sound
<1>8. OwnKept(c)
    BY <1>1, <1>6, <1>7 DEF OwnKept
<1>. QED  BY <1>3, <1>8, StepKeeps

LEMMA LibAtIs ==
    ASSUME ConnInv, NEW d \in Daemons, NEW to, LibAt(d, to)
    PROVE  lib'[d].pc = to /\ lib'[d].try = lib[d].try
    BY DEF ConnInv, ConnType, LibAt

LEMMA MounterAtIs ==
    ASSUME ConnInv, NEW d \in Daemons, NEW to, MounterAt(d, to)
    PROVE  mounter'[d].pc = to
    BY DEF ConnInv, ConnType, MounterAt, NoMounter

LEMMA NextTryIs ==
    ASSUME ConnInv, NEW d \in Daemons, NextTry(d)
    PROVE  lib'[d].pc \in {"fork", "failed"}
    BY DEF ConnInv, ConnType, NextTry

\* Nothing, or an event, is noted.
LEMMA HistGoesOn ==
    ASSUME AgreeInv, hist' = hist \/ hist' = Noted
    PROVE  HistGrows /\ hist'.excused = hist.excused
    BY HistIs DEF AgreeInv, HistGrows

\* Connections are named, too.
LEMMA HistNames ==
    ASSUME AgreeInv, NEW cs, hist' = Excused(hist, cs) \/ hist' = Excused(Noted, cs)
    PROVE  HistGrows /\ hist'.excused = hist.excused \cup cs
<1>1. HistOK' /\ hist.excused \subseteq hist'.excused /\ cs \subseteq hist'.excused
    BY HistIs DEF AgreeInv
<1>2. hist'.excused = hist.excused \/ hist'.excused = hist.excused \cup cs
    BY HistIs DEF AgreeInv
<1>. QED  BY <1>1, <1>2 DEF HistGrows

\* Nobody's step of unmounting.
LEMMA UnSame ==
    ASSUME AgreeInv, NEW d \in Daemons, un' = un
    PROVE  UnStays(d)
    BY DEF AgreeInv, UnStays

LEMMA ConnSame ==
    ASSUME AgreeInv, NEW d \in Daemons, UNCHANGED <<env, mounts, mtab, conn>>,
           HistGrows
    PROVE  Aside(d)
    BY ConnIs DEF AgreeInv, Aside

LEMMA CloseAside ==
    ASSUME AgreeInv, NEW d \in Daemons, UNCHANGED <<env, mounts, mtab>>,
           HistGrows, NEW who, Close(Conn(d), who)
    PROVE  Aside(d)
<1>1. ConnInv /\ Conn(d) \in Conns
    BY ConnIs DEF AgreeInv
<1>. QED  BY <1>1, CloseLeaves DEF AgreeInv, Aside

LEMMA PassAside ==
    ASSUME AgreeInv, NEW d \in Daemons, UNCHANGED <<env, mounts, mtab>>,
           HistGrows, NEW from, NEW to, Pass(Conn(d), from, to)
    PROVE  Aside(d)
<1>1. ConnInv /\ Conn(d) \in Conns
    BY ConnIs DEF AgreeInv
<1>. QED  BY <1>1, PassLeaves DEF AgreeInv, Aside

\* What holds of daemon d and its connection.
LEMMA DaemonAt ==
    ASSUME AgreeInv, NEW d \in Daemons
    PROVE  /\ ConnInv /\ InStep(d) /\ Conn(d) \in Conns /\ Conn(d)[1] = d
           /\ Conn(d) \notin hist.excused => Sound(Conn(d))
           /\ Unborn(Conn(d)) => Conn(d) \notin Mt /\ Conn(d) \notin Tb
           /\ lib[d].pc \in {"start", "fork"} => Unborn(Conn(d)) /\ mounter[d].pc = "ended"
           /\ mounter[d].pc \in BeforeMount => Unborn(Conn(d))
<1>1. ConnInv /\ InStep(d)
    BY DEF AgreeInv
<1>2. Conn(d) \in Conns /\ Conn(d)[1] = d
    BY <1>1, ConnIs
<1>3. /\ lib[d].pc \in {"start", "fork"} => mounter[d].pc = "ended"
      /\ lib[d].pc \in {"start", "fork"} => Unborn(Conn(d))
      /\ mounter[d].pc \in BeforeMount => Unborn(Conn(d))
    BY <1>1, <1>2 DEF ConnInv, FreshBefore, Unborn
<1>4. /\ Conn(d) \notin hist.excused => Sound(Conn(d))
      /\ Unborn(Conn(d)) => Conn(d) \notin Mt /\ Conn(d) \notin Tb
    BY <1>2 DEF AgreeInv, UnbornAbsent
<1>. QED  BY <1>1, <1>2, <1>3, <1>4

\* A step of a daemon that has no mount to keep.
LEMMA UnmountedKeeps ==
    ASSUME AgreeInv, ConnInv', NEW d \in Daemons, Moves(d), UnStays(d), Aside(d), InStep(d)',
           mounter'[d].pc = "mtab" => mounter[d].pc = "mtab" /\ lib'[d].try = lib[d].try,
           Conn(d) \notin Mt \/ Conn(d) \in hist'.excused
    PROVE  AgreeInv'
<1>1. PICK c : c = Conn(d)
    OBVIOUS
<1>2. HandedOn(d, c)
    BY <1>1 DEF HandedOn
<1>. QED  BY <1>1, <1>2, DaemonKeeps

LEMMA StartKeeps ==
    ASSUME AgreeInv, ConnInv', NEW d \in Daemons, Moves(d),
           fuse_mount_sys(d) \/ fuse_mount_fusermount(d)
    PROVE  AgreeInv'
<1>1. /\ UNCHANGED <<env, mounts, mtab, conn, un>> /\ (hist' = hist \/ hist' = Noted)
      /\ lib[d].pc \in {"start", "fork"}
    BY DEF fuse_mount_sys, fuse_mount_fusermount
<1>2. UnStays(d) /\ Aside(d)
    BY <1>1, UnSame, ConnSame, HistGoesOn
<1>3. Conn(d) \notin Mt /\ mounter[d].pc = "ended" /\ InStep(d) /\ ConnInv
    BY <1>1, DaemonAt
<1>4. un'[d] = un[d] /\ un[d].pc = "idle" /\ un[d].lazy
    BY <1>1, <1>3 DEF InStep
<1>5. IsRoot(d)' = IsRoot(d)
    BY <1>1 DEF IsRoot, User
<1>6. InStep(d)' /\ mounter'[d].pc # "mtab"
    <2>1. CASE fuse_mount_sys(d)
        <3>1. CASE LibAt(d, "failed") /\ UNCHANGED mounter
            BY <1>3, <1>4, <3>1, LibAtIs DEF InStep
        <3>2. CASE LibAt(d, "fork") /\ UNCHANGED mounter /\ ~IsRoot(d)
            BY <1>3, <1>4, <1>5, <3>2, LibAtIs DEF InStep
        <3>3. CASE /\ LibAt(d, "mounting") /\ IsRoot(d)
                   /\ mounter' = [mounter EXCEPT ![d].pc = "mount"]
            <4>1. mounter'[d].pc = "mount"
                BY <1>3, <3>3 DEF ConnInv, ConnType
            <4>. QED  BY <1>3, <1>4, <1>5, <3>3, <4>1, LibAtIs DEF InStep
        <3>. QED  BY <2>1, <3>1, <3>2, <3>3 DEF fuse_mount_sys
    <2>2. CASE fuse_mount_fusermount(d)
        <3>0. ~IsRoot(d)
            BY <1>3, <2>2 DEF fuse_mount_fusermount, InStep
        <3>1. CASE /\ LibAt(d, "receive")
                   /\ mounter' = [mounter EXCEPT ![d] = [pc |-> "count", cwd |-> None]]
            <4>1. mounter'[d].pc = "count"
                BY <1>3, <3>1 DEF ConnInv, ConnType
            <4>. QED  BY <1>3, <1>4, <1>5, <3>0, <3>1, <4>1, LibAtIs DEF InStep
        <3>2. CASE NextTry(d) /\ UNCHANGED mounter
            BY <1>3, <1>4, <1>5, <3>0, <3>2, NextTryIs DEF InStep
        <3>. QED  BY <2>2, <3>1, <3>2 DEF fuse_mount_fusermount
    <2>. QED  BY <2>1, <2>2
<1>. QED  BY <1>2, <1>3, <1>6, UnmountedKeeps

LEMMA ReceiveKeeps ==
    ASSUME AgreeInv, ConnInv', NEW d \in Daemons, Moves(d), receive_fd(d)
    PROVE  AgreeInv'
<1>0. PICK c : c = Conn(d)
    OBVIOUS
<1>1. /\ UNCHANGED <<env, mounts, mtab, un, mounter, hist>>
      /\ lib[d].pc = "receive" /\ mounter[d].pc = "ended"
    BY DEF receive_fd
<1>2. UnStays(d)
    BY <1>1, UnSame
<1>3. /\ ConnInv /\ InStep(d) /\ c \in Conns /\ c[1] = d
      /\ c \notin hist.excused => Sound(c)
    BY <1>0, DaemonAt
<1>4. un'[d] = un[d] /\ un[d].pc = "idle" /\ un[d].lazy /\ ~IsRoot(d) /\ ~IsRoot(d)'
    BY <1>1, <1>3 DEF InStep, IsRoot, User
\* Before the descriptor has come, only the socket keeps the connection up.
<1>5. c \in Mt /\ c \notin hist.excused =>
          "socket" \in conn[c].fd /\ conn[c].connected /\ (~env.link => c \in Tb)
    BY <1>1, <1>3 DEF Sound, Alive, Leaving
<1>6. CASE "socket" \in conn[c].fd
    <2>1. Pass(c, "socket", "lib") /\ LibAt(d, "setup")
        BY <1>0, <1>6 DEF receive_fd
    <2>2. /\ "lib" \in conn'[c].fd /\ conn'[c].connected = conn[c].connected
          /\ lib'[d].pc = "setup" /\ lib'[d].try = lib[d].try
        BY <1>3, <2>1, PassLeaves, LibAtIs
    <2>3. Aside(d)
        BY <1>0, <1>1, <2>1, PassAside, HistGoesOn
    <2>4. InStep(d)'
        BY <1>1, <1>4, <2>2 DEF InStep
    <2>5. HandedOn(d, c)
        BY <1>1, <1>3, <1>5, <2>2 DEF HandedOn, Alive
    <2>. QED  BY <1>0, <1>1, <1>2, <2>3, <2>4, <2>5, DaemonKeeps
<1>7. CASE "socket" \notin conn[c].fd
    <2>1. NextTry(d) /\ conn' = conn
        BY <1>0, <1>7 DEF receive_fd
    <2>2. lib'[d].pc \in {"fork", "failed"}
        BY <1>3, <2>1, NextTryIs
    <2>3. InStep(d)'
        BY <1>1, <1>4, <2>2 DEF InStep
    <2>4. Aside(d)
        BY <1>1, <2>1, ConnSame, HistGoesOn
    <2>. QED  BY <1>0, <1>1, <1>2, <1>5, <1>7, <2>3, <2>4, UnmountedKeeps
<1>. QED  BY <1>6, <1>7

\* A daemon that nobody mounts for, with its mount.
LEMMA MountOfOwn ==
    ASSUME AgreeInv, NEW d \in Daemons, mounter[d].pc = "ended",
           NEW c, c = Conn(d), c \in Mt, c \notin hist.excused
    PROVE  /\ ~env.link => c \in Tb
           /\ lib[d].pc \in {"setup", "running", "unmount"} =>
                 conn[c].connected /\ "lib" \in conn[c].fd
           /\ Alive(c) \/ Leaving(c)
    BY DaemonAt DEF Sound, Alive, Leaving

\* The daemon goes on, by itself and with its connection as it was.
LEMMA GoesOn ==
    ASSUME AgreeInv, NEW d \in Daemons, NEW to, LibAt(d, to), UNCHANGED <<env, mounter, un>>,
           lib[d].pc \in {"setup", "running", "unmount", "waiting"},
           lib[d].pc = "waiting" => to = "ended",
           to \in {"running", "unmount", "ended"}
    PROVE  /\ mounter[d].pc = "ended" /\ mounter'[d].pc = "ended" /\ InStep(d)'
           /\ lib'[d].pc = to /\ lib'[d].try = lib[d].try
<1>1. ConnInv /\ InStep(d)
    BY DaemonAt
<1>2. lib'[d].pc = to /\ lib'[d].try = lib[d].try
    BY <1>1, LibAtIs
<1>3. mounter[d].pc = "ended" /\ mounter'[d].pc = "ended"
    BY <1>1 DEF InStep
<1>4. un'[d].lazy /\ (un'[d].pc # "idle" => to = "ended")
    BY <1>1 DEF InStep
<1>. QED  BY <1>2, <1>3, <1>4 DEF InStep

LEMMA SetupKeeps ==
    ASSUME AgreeInv, ConnInv', NEW d \in Daemons, Moves(d),
           fuse_setup_common(d) \/ fuse_main_common(d)
    PROVE  AgreeInv'
<1>0. PICK c : c = Conn(d)
    OBVIOUS
<1>1. /\ UNCHANGED <<env, mounts, mtab, un, mounter>> /\ (hist' = hist \/ hist' = Noted)
      /\ lib[d].pc \in {"setup", "running"}
      /\ LibAt(d, "running") \/ LibAt(d, "unmount")
      /\ \/ conn' = conn
         \/ conn' = [conn EXCEPT ![c].init = conn[c].connected]
    BY <1>0 DEF fuse_setup_common, fuse_main_common
<1>2. UnStays(d) /\ HistGrows /\ ConnInv /\ c \in Conns
    BY <1>0, <1>1, UnSame, HistGoesOn, DaemonAt
<1>3. /\ mounter[d].pc = "ended" /\ mounter'[d].pc = "ended" /\ InStep(d)'
      /\ lib'[d].pc \in {"running", "unmount"} /\ lib'[d].try = lib[d].try
    BY <1>1, GoesOn
<1>4. /\ \A x \in Conns \ {c} : conn'[x] = conn[x]
      /\ conn'[c].sb = conn[c].sb /\ conn'[c].connected = conn[c].connected
      /\ conn'[c].fd = conn[c].fd
    BY <1>1, <1>2 DEF ConnInv, ConnType, ConnRec
<1>5. Aside(d)
    BY <1>0, <1>1, <1>2, <1>4 DEF Aside, AgreeInv
<1>6. HandedOn(d, c)
    <2>. SUFFICES ASSUME c \in Mt, c \notin hist'.excused
                  PROVE  Alive(c)' /\ (~env.link => c \in Tb)
        BY <1>3 DEF HandedOn
    <2>1. conn[c].connected /\ "lib" \in conn[c].fd /\ (~env.link => c \in Tb)
        BY <1>0, <1>1, <1>2, <1>3, MountOfOwn DEF HistGrows
    <2>2. c[1] = d
        BY <1>0, DaemonAt
    <2>. QED  BY <1>3, <1>4, <2>1, <2>2 DEF Alive
<1>. QED  BY <1>0, <1>2, <1>3, <1>5, <1>6, DaemonKeeps

LEMMA DestroyKeeps ==
    ASSUME AgreeInv, ConnInv', NEW d \in Daemons, Moves(d), fuse_destroy(d)
    PROVE  AgreeInv'
<1>1. /\ UNCHANGED <<env, mounts, mtab, un, mounter, conn, hist>>
      /\ lib[d].pc = "waiting" /\ un[d].pc = "ended" /\ LibAt(d, "ended")
    BY DEF fuse_destroy
<1>2. UnStays(d) /\ Aside(d)
    BY <1>1, UnSame, HistGoesOn, ConnSame
<1>3. mounter[d].pc = "ended" /\ mounter'[d].pc = "ended" /\ InStep(d)'
    BY <1>1, GoesOn
<1>4. Conn(d) \notin Mt \/ Conn(d) \in hist'.excused
    <2>. PICK c : c = Conn(d)
        OBVIOUS
    <2>1. c[1] = d
        BY DaemonAt
    <2>2. c \in Mt /\ c \notin hist.excused => Alive(c) \/ Leaving(c)
        BY <1>3, MountOfOwn
    <2>. QED  BY <1>1, <1>3, <2>1, <2>2 DEF Alive, Leaving
<1>. QED  BY <1>2, <1>3, <1>4, UnmountedKeeps

LEMMA LeaveKeeps ==
    ASSUME AgreeInv, ConnInv', NEW d \in Daemons, Moves(d), fuse_kern_unmount(d)
    PROVE  AgreeInv'
<1>0. PICK c : c = Conn(d)
    OBVIOUS
<1>1. /\ UNCHANGED <<env, mounts, mtab, mounter>> /\ lib[d].pc = "unmount"
      /\ Close(c, {"lib"})
    BY <1>0 DEF fuse_kern_unmount, ClosesDevice
<1>2. ConnInv /\ InStep(d) /\ c \in Conns /\ c[1] = d
    BY <1>0, DaemonAt
<1>3. mounter[d].pc = "ended" /\ mounter'[d].pc = "ended" /\ un[d].pc = "idle" /\ un[d].lazy
    BY <1>1, <1>2 DEF InStep
<1>4. CASE LibAt(d, "ended") /\ un' = un /\ HistGrows /\ (c \notin Mt \/ c \in hist'.excused)
    <2>1. InStep(d)'
        BY <1>1, <1>4, GoesOn
    <2>. QED  BY <1>0, <1>1, <1>3, <1>4, <2>1, UnSame, CloseAside, UnmountedKeeps
<1>5. CASE ~conn[c].connected /\ LibAt(d, "ended") /\ UNCHANGED <<un, hist>>
    <2>1. HistGrows /\ (c \notin Mt \/ c \in hist'.excused)
        BY <1>0, <1>1, <1>3, <1>5, HistGoesOn, MountOfOwn
    <2>. QED  BY <1>4, <1>5, <2>1
<1>6. CASE hist' = Excused(Noted, {c}) /\ LibAt(d, "ended") /\ un' = un
    <2>1. HistGrows /\ c \in hist'.excused
        BY <1>6, HistNames
    <2>. QED  BY <1>4, <1>6, <2>1
<1>7. CASE /\ LibAt(d, "waiting") /\ UNCHANGED hist
           /\ un' = [un EXCEPT ![d].pc = IF IsRoot(d) THEN "umount" ELSE "check"]
    <2>1. PICK to \in {"umount", "check"} : un' = [un EXCEPT ![d].pc = to]
        BY <1>7
    <2>2. un \in [Processes -> UnRec] /\ d \in Processes
        BY DEF AgreeInv, Processes
    <2>3. un'[d].pc = to /\ un'[d].lazy = un[d].lazy /\ un'[d].target = un[d].target
        BY <2>1, <2>2 DEF UnRec
    <2>4. un' \in [Processes -> UnRec] /\ \A p \in Processes \ {d} : un'[p] = un[p]
        BY <2>1, <2>2 DEF UnRec
    <2>5. UnStays(d)
        BY <1>3, <2>3, <2>4 DEF UnStays
    <2>6. Aside(d)
        BY <1>0, <1>1, <1>7, CloseAside, HistGoesOn
    <2>7. lib'[d].pc = "waiting" /\ lib'[d].try = lib[d].try
        BY <1>2, <1>7, LibAtIs
    <2>8. InStep(d)'
        BY <1>3, <2>3, <2>7 DEF InStep
    <2>9. HandedOn(d, c)
        <3>. SUFFICES ASSUME c \in Mt, c \notin hist'.excused
                      PROVE  Leaving(c)' /\ (~env.link => c \in Tb)
            BY <2>7 DEF HandedOn
        <3>1. ~env.link => c \in Tb
            BY <1>0, <1>3, <1>7, MountOfOwn
        <3>. QED  BY <1>2, <2>3, <2>7, <3>1 DEF Leaving
    <2>. QED  BY <1>0, <1>3, <2>5, <2>6, <2>8, <2>9, DaemonKeeps
<1>. QED  BY <1>0, <1>5, <1>6, <1>7 DEF fuse_kern_unmount

\* Before mount(2) and before the entry in mtab, with the connection's owner.
LEMMA MounterIn ==
    ASSUME AgreeInv, NEW d \in Daemons, mounter[d].pc # "ended"
    PROVE  /\ lib[d].pc \in {"mounting", "receive", "dead"}
           /\ IsRoot(d) => lib[d].pc = "mounting" /\ un[d].pc = "idle"
           /\ ~IsRoot(d) => \/ lib[d].pc = "receive"
                            \/ lib[d].pc = "dead" /\ Conn(d) \in hist.excused
           /\ un[d].lazy
    BY DaemonAt DEF InStep

\* A mounter goes on and its daemon waits.
LEMMA MounterGoes ==
    ASSUME AgreeInv, NEW d \in Daemons, mounter[d].pc # "ended",
           UNCHANGED <<env, lib, un>>, HistGrows,
           mounter'[d].pc \in {"count", "send"} => ~IsRoot(d),
           mounter'[d].pc = "ended" => ~IsRoot(d),
           mounter'[d].pc \in {"mtab", "undo"} => Conn(d) \notin Tb'
    PROVE  InStep(d)'
<1>1. InStep(d)
    BY DaemonAt
<1>2. Conn(d)' = Conn(d) /\ IsRoot(d)' = IsRoot(d)
    BY DEF Conn, IsRoot, User
<1>3. Conn(d) \in hist.excused => Conn(d) \in hist'.excused
    BY DEF HistGrows
<1>. QED  BY <1>1, <1>2, <1>3 DEF InStep

\* The device is closed and the mounter is gone.
LEMMA MountFailsIn ==
    ASSUME AgreeInv, NEW d \in Daemons, mounter[d].pc # "ended", MountFails(d),
           UNCHANGED <<env, un>>, HistGrows
    PROVE  InStep(d)' /\ mounter'[d].pc = "ended"
<1>1. ConnInv /\ InStep(d)
    BY DaemonAt
<1>2. mounter'[d].pc = "ended"
    BY <1>1, MounterAtIs DEF MountFails
<1>3. CASE IsRoot(d)
    <2>1. lib'[d].pc = "failed" /\ un'[d].pc = "idle" /\ un'[d].lazy
        BY <1>1, <1>3, LibAtIs, MounterIn DEF MountFails
    <2>. QED  BY <1>2, <2>1 DEF InStep
<1>4. CASE ~IsRoot(d)
    <2>1. lib' = lib
        BY <1>4 DEF MountFails
    <2>. QED  BY <1>2, <1>4, <2>1, MounterGoes
<1>. QED  BY <1>2, <1>3, <1>4

\* Without a mount, or with one that is named.
LEMMA FailsAgree ==
    ASSUME AgreeInv, ConnInv', NEW d \in Daemons, Moves(d), mounter[d].pc # "ended",
           MountFails(d), UNCHANGED <<env, mounts, mtab, un>>, HistGrows,
           Conn(d) \notin Mt \/ Conn(d) \in hist'.excused
    PROVE  AgreeInv'
<1>1. InStep(d)' /\ mounter'[d].pc = "ended"
    BY MountFailsIn
<1>2. UnStays(d) /\ Aside(d)
    BY UnSame, CloseAside DEF MountFails
<1>. QED  BY <1>1, <1>2, UnmountedKeeps

LEMMA LookKeeps ==
    ASSUME AgreeInv, ConnInv', NEW d \in Daemons, Moves(d),
           mount_fuse(d) \/ check_perm(d) \/ fuse_mnt_check_empty(d)
    PROVE  AgreeInv'
<1>1. /\ UNCHANGED <<env, mounts, mtab, un>> /\ (hist' = hist \/ hist' = Noted)
      /\ mounter[d].pc \in {"count", "perm", "empty"}
    BY DEF mount_fuse, check_perm, fuse_mnt_check_empty
<1>2. UnStays(d) /\ HistGrows /\ ConnInv /\ Conn(d) \in Conns /\ Conn(d) \notin Mt
    BY <1>1, UnSame, HistGoesOn, DaemonAt DEF BeforeMount
<1>3. CASE MountFails(d)
    BY <1>1, <1>2, <1>3, FailsAgree
<1>4. CASE lib' = lib /\ mounter'[d].pc \in {"perm", "empty", "mount"} /\ conn' = conn
    BY <1>1, <1>2, <1>4, ConnSame, MounterGoes, UnmountedKeeps
<1>5. CASE check_perm(d) \/ fuse_mnt_check_empty(d)
    <2>1. \/ MountFails(d)
          \/ /\ UNCHANGED <<conn, lib>>
             /\ \/ mounter' = [mounter EXCEPT ![d] = [pc |-> "empty", cwd |-> Top]]
                \/ MounterAt(d, "mount")
        BY <1>5 DEF check_perm, fuse_mnt_check_empty
    <2>2. mounter' = [mounter EXCEPT ![d] = [pc |-> "empty", cwd |-> Top]] =>
              mounter'[d].pc = "empty"
        BY <1>2 DEF ConnInv, ConnType
    <2>. QED  BY <1>2, <1>3, <1>4, <2>1, <2>2, MounterAtIs
<1>6. CASE mount_fuse(d)
    <2>1. lib' = lib
        BY <1>6 DEF mount_fuse
    <2>2. CASE MounterAt(d, "ended") /\ conn' = conn
        \* Only fusermount counts.
        <3>1. mounter[d].pc = "count"
            BY <1>6 DEF mount_fuse
        <3>2. mounter'[d].pc = "ended"
            BY <1>2, <2>2, MounterAtIs
        <3>3. ~IsRoot(d)
            BY <3>1, DaemonAt DEF InStep
        <3>. QED  BY <1>1, <1>2, <2>1, <2>2, <3>2, <3>3, ConnSame, MounterGoes, UnmountedKeeps
    <2>3. CASE /\ MounterAt(d, "perm")
               /\ conn' = [conn EXCEPT ![Conn(d)].fd = @ \cup {"mounter"}]
        <3>1. mounter'[d].pc = "perm"
            BY <1>2, <2>3, MounterAtIs
        <3>2. /\ \A x \in Conns \ {Conn(d)} : conn'[x] = conn[x]
              /\ conn'[Conn(d)].connected = conn[Conn(d)].connected
              /\ conn'[Conn(d)].sb = conn[Conn(d)].sb
            BY <1>2, <2>3 DEF ConnInv, ConnType, ConnRec
        <3>3. Aside(d)
            BY <1>1, <1>2, <3>2 DEF Aside, AgreeInv
        <3>. QED  BY <1>1, <1>2, <2>1, <3>1, <3>3, MounterGoes, UnmountedKeeps
    <2>. QED  BY <1>6, <2>2, <2>3 DEF mount_fuse
<1>. QED  BY <1>5, <1>6

\* Below the connection of a try come those of the tries before.
LEMMA TriesBefore ==
    ASSUME AgreeInv, NEW d \in Daemons, NEW x \in Conns, x[1] = d, x # Conn(d),
           x \in Mt \/ x \in Tb
    PROVE  x[2] < Conn(d)[2]
<1>1. /\ ConnInv /\ UnbornAbsent /\ x = <<x[1], x[2]>> /\ x[2] \in {1, 2}
      /\ Conn(d) = <<d, lib[d].try>> /\ lib[d].try \in {1, 2} /\ Conn(d)[2] = lib[d].try
    BY ConnIs, ConnParts DEF AgreeInv
<1>2. x[2] # lib[d].try
    BY <1>1
<1>3. ~(x[2] > lib[d].try)
    BY <1>1 DEF UnbornAbsent, Unborn
<1>. QED  BY <1>1, <1>2, <1>3

LEMMA MountedKeeps ==
    ASSUME AgreeInv, ConnInv', NEW d \in Daemons, Moves(d), mounter[d].pc = "mount",
           mounts' = Append(mounts, Conn(d)), MounterAt(d, "mtab"),
           UNCHANGED <<env, mtab, un, lib, hist>>,
           NEW fd, "mounter" \in fd, fd \in SUBSET Holders,
           conn' = [conn EXCEPT ![Conn(d)] = fuse_fill_super([@ EXCEPT !.fd = fd])]
    PROVE  AgreeInv'
<1>0. PICK c : c = Conn(d)
    OBVIOUS
<1>1. /\ ConnInv /\ InStep(d) /\ c \in Conns /\ c[1] = d
      /\ Unborn(c) /\ c \notin Mt /\ c \notin Tb
    BY <1>0, DaemonAt DEF BeforeMount
<1>2. UnStays(d) /\ HistGrows /\ mounter'[d].pc = "mtab"
    BY <1>1, UnSame, HistGoesOn, MounterAtIs
<1>3. /\ mounts' \in Seq(Conns) /\ Ranked(mounts') /\ Mt' = Mt \cup {c}
    <2>1. mounts \in Seq(Conns) /\ Ranked(mounts)
        BY <1>1 DEF AgreeInv, ConnInv, ConnType
    <2>2. \A x \in Among(mounts) : x \in Conns
        BY <2>1 DEF Among
    <2>3. \A x \in Among(mounts) : x[1] = c[1] => x[2] < c[2]
        BY <1>0, <1>1, <2>2, TriesBefore DEF Mt
    <2>. QED  BY <1>0, <1>1, <2>1, <2>3, OneMore DEF Mt
<1>4. /\ \A x \in Conns \ {c} : conn'[x] = conn[x]
      /\ conn'[c].sb /\ conn'[c].connected /\ "mounter" \in conn'[c].fd
    <2>. DEFINE q == [conn[c] EXCEPT !.fd = fd]
    <2>1. q \in ConnRec /\ q.fd = fd
        <3>1. conn[c] \in ConnRec
            BY <1>1 DEF ConnInv, ConnType
        <3>. QED  BY <3>1 DEF ConnRec
    <2>2. conn' = [conn EXCEPT ![c] = fuse_fill_super(q)] /\ conn \in [Conns -> ConnRec]
        BY <1>0, <1>1 DEF ConnInv, ConnType
    <2>. HIDE DEF q
    <2>3. /\ fuse_fill_super(q).sb /\ fuse_fill_super(q).connected
          /\ fuse_fill_super(q).fd = q.fd
        BY <2>1 DEF fuse_fill_super, ConnRec
    <2>. QED  BY <1>1, <2>1, <2>2, <2>3
<1>5. InStep(d)'
    <2>1. Tb' = Tb
        BY DEF Tb, Among
    <2>. QED  BY <1>0, <1>1, <1>2, <2>1, MounterGoes
<1>6. Beside(d)
    <2>1. Tb' = Tb /\ Ranked(mtab)' /\ mtab' \in Seq(Conns)
        BY DEF AgreeInv, Tb, Among, Ranked
    <2>. QED  BY <1>0, <1>2, <1>3, <1>4, <2>1 DEF Beside, Ranked
<1>7. c = Conn(d)'
    BY <1>0 DEF Conn
<1>8. ~Unborn(c)'
    <2>1. lib'[d].pc \notin {"start", "fork"} /\ mounter'[d].pc \notin BeforeMount
        BY <1>2, MounterIn DEF BeforeMount
    <2>2. ~(c[2] > lib'[d].try)
        BY <1>0, <1>1, ConnIs
    <2>. QED  BY <1>1, <2>1, <2>2 DEF Unborn
<1>9. Sound(c)'
    <2>1. Alive(c)'
        BY <1>1, <1>2, <1>4 DEF Alive
    <2>. QED  BY <1>1, <1>2, <1>3, <1>7, <2>1 DEF Sound
<1>10. OwnKept(c)
    BY <1>1, <1>8, <1>9 DEF OwnKept
<1>. QED  BY <1>0, <1>2, <1>5, <1>6, <1>10, StepKeeps

LEMMA MountKeeps ==
    ASSUME AgreeInv, ConnInv', NEW d \in Daemons, Moves(d), do_mount(d)
    PROVE  AgreeInv'
<1>1. /\ UNCHANGED <<env, mtab, un>> /\ mounter[d].pc = "mount"
    BY DEF do_mount
<1>2. /\ ConnInv /\ Conn(d) \in Conns /\ Conn(d) \notin Mt
    BY <1>1, DaemonAt DEF BeforeMount
<1>3. CASE MountFails(d) /\ mounts' = mounts /\ (hist' = hist \/ hist' = Noted)
    <2>1. HistGrows
        BY <1>3, HistGoesOn
    <2>. QED  BY <1>1, <1>2, <1>3, <2>1, FailsAgree
<1>4. CASE /\ mounts' = Append(mounts, Conn(d)) /\ MounterAt(d, "mtab")
           /\ UNCHANGED <<lib, hist>>
           /\ LET fd == conn[Conn(d)].fd \cup {"mounter"}
              IN  conn' = [conn EXCEPT ![Conn(d)] = fuse_fill_super([@ EXCEPT !.fd = fd])]
    <2>1. PICK fd : /\ fd = conn[Conn(d)].fd \cup {"mounter"}
                    /\ conn' = [conn EXCEPT ![Conn(d)] = fuse_fill_super([@ EXCEPT !.fd = fd])]
        BY <1>4
    <2>2. fd \in SUBSET Holders /\ "mounter" \in fd
        BY <1>2, <2>1 DEF ConnInv, ConnType, ConnRec, Holders
    <2>. QED  BY <1>1, <1>4, <2>1, <2>2, MountedKeeps
<1>. QED  BY <1>3, <1>4 DEF do_mount

\* The mount is entered in mtab, or it is to be undone.
LEMMA OwnWhileMtab ==
    ASSUME AgreeInv, NEW d \in Daemons, mounter[d].pc \in {"mtab", "undo", "send"},
           NEW c, c = Conn(d), c \notin hist.excused, c \in Mt
    PROVE  /\ conn[c].connected /\ lib[d].pc # "waiting"
           /\ "mounter" \in conn[c].fd \/ (lib[d].pc = "receive" /\ "socket" \in conn[c].fd)
           /\ IsRoot(d) => "mounter" \in conn[c].fd
<1>1. Sound(c) /\ c[1] = d
    BY DaemonAt
<1>2. lib[d].pc \in {"mounting", "receive", "dead"} /\ (IsRoot(d) => lib[d].pc = "mounting")
    BY MounterIn
<1>3. Alive(c)
    BY <1>1, <1>2 DEF Sound, Leaving
<1>. QED  BY <1>1, <1>2, <1>3 DEF Alive

LEMMA ToUndoKeeps ==
    ASSUME AgreeInv, ConnInv', NEW d \in Daemons, Moves(d), mounter[d].pc = "mtab",
           MounterAt(d, "undo"), hist' = Noted,
           UNCHANGED <<env, mounts, mtab, un, lib, conn>>
    PROVE  AgreeInv'
<1>0. PICK c : c = Conn(d)
    OBVIOUS
<1>1. /\ ConnInv /\ InStep(d) /\ c \in Conns /\ c[1] = d
      /\ c \notin hist.excused => Sound(c)
    BY <1>0, DaemonAt
<1>2. UnStays(d) /\ HistGrows /\ mounter'[d].pc = "undo" /\ Aside(d)
    BY <1>1, UnSame, HistGoesOn, MounterAtIs, ConnSame
<1>3. InStep(d)'
    <2>1. Tb' = Tb /\ c \notin Tb
        BY <1>0, <1>1 DEF Tb, Among, InStep
    <2>. QED  BY <1>0, <1>2, <2>1, MounterGoes
<1>4. HandedOn(d, c)
    <2>. SUFFICES ASSUME c \in Mt, c \notin hist'.excused PROVE Alive(c)'
        BY <1>2 DEF HandedOn
    <2>1. c \notin hist.excused
        BY <1>2 DEF HistGrows
    <2>2. /\ conn[c].connected
          /\ "mounter" \in conn[c].fd \/ (lib[d].pc = "receive" /\ "socket" \in conn[c].fd)
        BY <1>0, <2>1, OwnWhileMtab
    <2>. QED  BY <1>1, <1>2, <2>2 DEF Alive
<1>. QED  BY <1>0, <1>2, <1>3, <1>4, DaemonKeeps

LEMMA SendKeeps ==
    ASSUME AgreeInv, ConnInv', NEW d \in Daemons, Moves(d), send_fd(d)
    PROVE  AgreeInv'
<1>0. PICK c : c = Conn(d)
    OBVIOUS
<1>1. /\ UNCHANGED <<env, mounts, mtab, un, lib, hist>> /\ mounter[d].pc = "send"
      /\ MounterAt(d, "ended")
    BY DEF send_fd
<1>2. /\ ConnInv /\ InStep(d) /\ c \in Conns /\ c[1] = d
      /\ c \notin hist.excused => Sound(c)
    BY <1>0, DaemonAt
<1>3. UnStays(d) /\ HistGrows /\ mounter'[d].pc = "ended" /\ ~IsRoot(d)
    BY <1>1, <1>2, UnSame, HistGoesOn, MounterAtIs DEF InStep
<1>4. InStep(d)'
    BY <1>1, <1>3, MounterGoes
<1>5. CASE lib[d].pc = "receive"
    <2>1. Pass(c, "mounter", "socket")
        BY <1>0, <1>5 DEF send_fd
    <2>2. Aside(d) /\ "socket" \in conn'[c].fd /\ conn'[c].connected = conn[c].connected
        BY <1>0, <1>1, <1>2, <1>3, <2>1, PassAside, PassLeaves
    <2>3. HandedOn(d, c)
        <3>. SUFFICES ASSUME c \in Mt, c \notin hist'.excused
                      PROVE  Alive(c)' /\ (~env.link => c \in Tb)
            BY <1>1 DEF HandedOn
        <3>1. conn[c].connected
            BY <1>0, <1>1, OwnWhileMtab
        <3>2. ~env.link => c \in Tb
            BY <1>1, <1>2 DEF Sound
        <3>. QED  BY <1>1, <1>2, <1>5, <2>2, <3>1, <3>2 DEF Alive
    <2>. QED  BY <1>0, <1>3, <1>4, <2>2, <2>3, DaemonKeeps
<1>6. CASE lib[d].pc # "receive"
    <2>1. Close(c, {"mounter"}) /\ c \in hist'.excused
        BY <1>0, <1>1, <1>3, <1>6, MounterIn DEF send_fd
    <2>. QED  BY <1>0, <1>1, <1>3, <1>4, <2>1, CloseAside, UnmountedKeeps
<1>. QED  BY <1>5, <1>6

LEMMA KillKeeps ==
    ASSUME AgreeInv, ConnInv', NEW d \in Daemons, Moves(d), KillDaemon(d) \/ KillMounter(d)
    PROVE  AgreeInv'
<1>1. /\ UNCHANGED <<env, mounts, mtab, un>> /\ hist' = Excused(Noted, {Conn(d)})
      /\ \E who : Close(Conn(d), who)
    BY DEF KillDaemon, KillMounter, Killed
<1>2. UnStays(d) /\ HistGrows /\ Conn(d) \in hist'.excused /\ ConnInv /\ InStep(d)
    BY <1>1, UnSame, HistNames, DaemonAt
<1>3. Aside(d)
    BY <1>1, <1>2, CloseAside
<1>4. CASE KillMounter(d)
    <2>1. mounter'[d].pc = "ended" /\ lib' = lib /\ ~IsRoot(d) /\ mounter[d].pc # "ended"
        BY <1>2, <1>4, MounterAtIs DEF KillMounter
    <2>2. InStep(d)'
        BY <1>1, <1>2, <2>1, MounterGoes
    <2>. QED  BY <1>2, <1>3, <2>1, <2>2, UnmountedKeeps
<1>5. CASE KillDaemon(d)
    <2>1. lib'[d].pc = "dead" /\ lib'[d].try = lib[d].try /\ Conn(d)' = Conn(d)
        BY <1>2, <1>5, LibAtIs DEF KillDaemon, Conn
    <2>2. \/ IsRoot(d) /\ mounter'[d].pc = "ended"
          \/ ~IsRoot(d) /\ mounter' = mounter
        BY <1>2, <1>5, MounterAtIs DEF KillDaemon
    <2>3. IsRoot(d)' = IsRoot(d) /\ Tb' = Tb
        BY <1>1 DEF IsRoot, User, Tb, Among
    <2>4. InStep(d)'
        BY <1>1, <1>2, <2>1, <2>2, <2>3 DEF InStep
    <2>5. mounter'[d].pc = "mtab" => mounter[d].pc = "mtab"
        BY <2>2
    <2>. QED  BY <1>2, <1>3, <2>1, <2>4, <2>5, UnmountedKeeps
<1>. QED  BY <1>4, <1>5

LEMMA EnteredKeeps ==
    ASSUME AgreeInv, ConnInv', NEW d \in Daemons, Moves(d), mounter[d].pc = "mtab",
           mtab' = (IF env.link THEN mtab ELSE Append(mtab, Conn(d))),
           Mounted(d), UNCHANGED <<env, mounts, un, hist>>
    PROVE  AgreeInv'
<1>0. PICK c : c = Conn(d)
    OBVIOUS
<1>1. /\ ConnInv /\ InStep(d) /\ c \in Conns /\ c[1] = d
      /\ c \notin hist.excused => Sound(c)
    BY <1>0, DaemonAt
<1>2. UnStays(d) /\ HistGrows
    BY <1>1, UnSame, HistGoesOn
<1>3. c \notin Tb /\ mtab \in Seq(Conns) /\ Ranked(mtab) /\ Ranked(mounts)'
    BY <1>0, <1>1 DEF InStep, AgreeInv, Ranked
<1>4. /\ mtab' \in Seq(Conns) /\ Ranked(mtab)'
      /\ env.link => Tb' = Tb
      /\ ~env.link => Tb' = Tb \cup {c}
    <2>1. CASE env.link
        BY <1>3, <2>1 DEF Tb, Among, Ranked
    <2>2. CASE ~env.link
        <3>1. mtab' = Append(mtab, c)
            BY <1>0, <2>2
        <3>2. \A x \in Among(mtab) : x \in Conns
            BY <1>3 DEF Among
        <3>3. \A x \in Among(mtab) : x[1] = c[1] => x[2] < c[2]
            BY <1>0, <1>1, <1>3, <3>2, TriesBefore DEF Tb
        <3>4. mtab' \in Seq(Conns) /\ Ranked(mtab') /\ Among(mtab') = Among(mtab) \cup {c}
            BY <1>1, <1>3, <3>1, <3>3, OneMore
        <3>. QED  BY <2>2, <3>4 DEF Tb, Ranked
    <2>. QED  BY <2>1, <2>2
<1>5. Mt' = Mt /\ IsRoot(d)' = IsRoot(d)
    BY DEF Mt, Among, IsRoot, User
<1>6. \/ IsRoot(d) /\ Pass(c, "mounter", "lib") /\ MounterAt(d, "ended") /\ LibAt(d, "setup")
      \/ ~IsRoot(d) /\ MounterAt(d, "send") /\ UNCHANGED <<conn, lib>>
    BY <1>0 DEF Mounted
<1>7. /\ \A x \in Conns \ {c} : conn'[x] = conn[x]
      /\ conn'[c].connected = conn[c].connected /\ conn'[c].sb = conn[c].sb
      /\ IsRoot(d) => "lib" \in conn'[c].fd
    BY <1>1, <1>6, PassLeaves
<1>8. /\ lib'[d].try = lib[d].try /\ Conn(d)' = c
      /\ IsRoot(d) => lib'[d].pc = "setup" /\ mounter'[d].pc = "ended"
      /\ ~IsRoot(d) => lib'[d] = lib[d] /\ mounter'[d].pc = "send"
    BY <1>0, <1>1, <1>6, LibAtIs, MounterAtIs DEF Conn
<1>9. InStep(d)'
    <2>1. CASE IsRoot(d)
        BY <1>1, <1>5, <1>8, <2>1, MounterIn DEF InStep
    <2>2. CASE ~IsRoot(d)
        BY <1>2, <1>6, <1>8, <2>2, MounterGoes
    <2>. QED  BY <2>1, <2>2
<1>10. Beside(d)
    <2>1. conn'[c].connected => conn'[c].sb
        BY <1>1, <1>7 DEF AgreeInv
    <2>. QED  BY <1>0, <1>2, <1>3, <1>4, <1>5, <1>7, <2>1 DEF Beside
<1>11. ~Unborn(c)'
    <2>1. lib'[d].pc \notin {"start", "fork"} /\ mounter'[d].pc \notin BeforeMount
        BY <1>8, MounterIn DEF BeforeMount
    <2>2. ~(c[2] > lib'[d].try)
        BY <1>0, <1>1, <1>8, ConnIs
    <2>. QED  BY <1>1, <2>1, <2>2 DEF Unborn
<1>12. ASSUME c \notin hist'.excused PROVE Sound(c)'
    <2>0. Sound(c)
        BY <1>1, <1>12
    <2>1. c \in Mt => Alive(c)'
        <3>. SUFFICES ASSUME c \in Mt PROVE Alive(c)'
            OBVIOUS
        <3>1. /\ conn[c].connected
              /\ "mounter" \in conn[c].fd \/ (lib[d].pc = "receive" /\ "socket" \in conn[c].fd)
            BY <1>0, <1>12, OwnWhileMtab
        <3>. QED  BY <1>1, <1>6, <1>7, <1>8, <3>1 DEF Alive
    <2>2. ~env.link /\ c \notin Mt => Pending(c)
        BY <1>0, <1>1, <2>0 DEF Sound
    <2>3. Pending(c) => Pending(c)'
        BY DEF Pending, UnStays
    <2>4. mounter'[d].pc # "mtab"
        BY <1>8
    <2>. QED  BY <1>1, <1>4, <1>5, <1>8, <2>1, <2>2, <2>3, <2>4 DEF Sound
<1>13. OwnKept(c)
    BY <1>5, <1>11, <1>12 DEF OwnKept
<1>. QED  BY <1>0, <1>2, <1>8, <1>9, <1>10, <1>13, StepKeeps

LEMMA AddKeeps ==
    ASSUME AgreeInv, ConnInv', NEW d \in Daemons, Moves(d), fuse_mnt_add_mount(d)
    PROVE  AgreeInv'
<1>1. UNCHANGED <<env, mounts, un>> /\ mounter[d].pc = "mtab"
    BY DEF fuse_mnt_add_mount
<1>2. CASE /\ mtab' = (IF env.link THEN mtab ELSE Append(mtab, Conn(d)))
           /\ Mounted(d) /\ UNCHANGED hist
    BY <1>1, <1>2, EnteredKeeps
<1>3. CASE hist' = Noted /\ MounterAt(d, "undo") /\ UNCHANGED <<mtab, conn, lib>>
    BY <1>1, <1>3, ToUndoKeeps
<1>. QED  BY <1>2, <1>3 DEF fuse_mnt_add_mount

\* umount2(2) takes off the topmost mount.
LEMMA TopIs ==
    ASSUME AgreeInv
    PROVE  /\ Top = None <=> mounts = <<>>
           /\ mounts = <<>> => Mt = {}
           /\ mounts # <<>> =>
                 /\ Top \in Conns /\ Top \in Mt
                 /\ Among(Front(mounts)) = Mt \ {Top} /\ Ranked(Front(mounts))
                 /\ \A x \in Mt : x # Top /\ x[1] = Top[1] => x[2] < Top[2]
<1>1. mounts \in Seq(Conns) /\ Ranked(mounts) /\ None \notin Conns
    BY ConnParts DEF AgreeInv, ConnInv, ConnType
<1>2. CASE mounts = <<>>
    <2>1. DOMAIN mounts = {}
        BY <1>2
    <2>. QED  BY <1>2, <2>1 DEF Top, LastOf, Mt, Among
<1>3. CASE mounts # <<>>
    BY <1>1, <1>3, OneLess DEF Top, LastOf, Mt
<1>. QED  BY <1>2, <1>3

LEMMA UndoKeeps ==
    ASSUME AgreeInv, ConnInv', NEW d \in Daemons, Moves(d), UndoMount(d)
    PROVE  AgreeInv'
<1>0. PICK c : c = Conn(d)
    OBVIOUS
<1>1. /\ UNCHANGED <<env, mtab, un>> /\ mounter[d].pc = "undo"
      /\ LazyUmount(d) /\ MountFails(d)
    BY DEF UndoMount
<1>2. /\ ConnInv /\ InStep(d) /\ c \in Conns /\ c[1] = d /\ c \notin Tb
      /\ c \notin hist.excused => Sound(c)
    BY <1>0, <1>1, DaemonAt DEF InStep
<1>3. CASE mounts = <<>>
    <2>1. mounts' = mounts /\ hist' = hist /\ c \notin Mt
        BY <1>1, <1>3, TopIs DEF LazyUmount
    <2>. QED  BY <1>0, <1>1, <2>1, FailsAgree, HistGoesOn
<1>4. CASE mounts # <<>>
    <2>1. /\ mounts' = Front(mounts)
          /\ hist' = (IF Top = c THEN hist ELSE Excused(hist, {Top, c}))
        BY <1>0, <1>1, <1>4 DEF LazyUmount
    <2>2. /\ HistGrows
          /\ c \notin hist'.excused => Top = c
          /\ Top = c \/ Top \in hist'.excused
        <3>1. CASE Top = c
            BY <2>1, <3>1, HistGoesOn
        <3>2. CASE Top # c
            BY <2>1, <3>2, HistNames
        <3>. QED  BY <3>1, <3>2
    <2>3. Mt' = Mt \ {Top} /\ Ranked(mounts)' /\ Tb' = Tb
        BY <1>1, <1>4, <2>1, TopIs DEF Mt, Tb, Among, Ranked
    <2>4. InStep(d)' /\ mounter'[d].pc = "ended"
        BY <1>1, <2>2, MountFailsIn
    <2>5. /\ \A x \in Conns \ {c} : conn'[x] = conn[x]
          /\ conn'[c].connected => conn'[c].sb
        BY <1>0, <1>1, <1>2, CloseLeaves DEF MountFails, AgreeInv
    <2>6. Beside(d)
        <3>1. Ranked(mtab)' /\ mtab' \in Seq(Conns)
            BY <1>1 DEF AgreeInv, Ranked
        <3>. QED  BY <1>0, <1>1, <2>2, <2>3, <2>5, <3>1 DEF Beside
    <2>7. OwnKept(c)
        <3>1. c \notin hist'.excused => Sound(c)'
            <4>. SUFFICES ASSUME c \notin hist'.excused PROVE Sound(c)'
                OBVIOUS
            <4>1. c \notin Mt' /\ c \notin Tb'
                BY <1>2, <2>2, <2>3
            <4>. QED  BY <1>2, <2>4, <4>1 DEF Sound
        <3>2. Unborn(c)' => c \notin Mt' /\ c \notin Tb'
            <4>1. c \notin Tb'
                BY <1>2, <2>3
            <4>2. Unborn(c)' => c \notin Mt
                BY <1>0, <1>2, UnbornStays DEF AgreeInv, UnbornAbsent
            <4>. QED  BY <2>3, <4>1, <4>2
        <3>. QED  BY <2>3, <3>1, <3>2 DEF OwnKept
    <2>8. UnStays(d)
        BY <1>1, UnSame
    <2>. QED  BY <1>0, <2>4, <2>6, <2>7, <2>8, StepKeeps
<1>. QED  BY <1>3, <1>4

(* What a step of somebody who unmounts has to show: nothing is mounted or *)
(* entered, and what is no longer so, or no longer in hand, is accounted.  *)
UnBeside(p) ==
    /\ UNCHANGED <<env, lib, mounter, conn>> /\ HistGrows
    /\ mtab' \in Seq(Conns) /\ Ranked(mounts)' /\ Ranked(mtab)'
    /\ un' \in [Processes -> UnRec]
    /\ \A q \in Processes \ {p} : un'[q] = un[q]
    /\ p \in Daemons => un[p].pc # "idle" /\ un'[p].lazy
    /\ \/ un'[p].target \in {un[p].target, None}
       \/ un'[p].target \in Mt /\ un'[p].target \notin Mt'
    /\ Mt' \subseteq Mt /\ Tb' \subseteq Tb

UnAccounted ==
    \A x \in Conns : x \notin hist'.excused =>
        /\ x \in Mt' /\ Leaving(x) => Leaving(x)'
        /\ ~env.link => /\ x \in Mt /\ x \notin Mt' => Pending(x)'
                        /\ x \in Tb /\ x \notin Tb' => x \notin Mt'
                        /\ Pending(x) => \/ Pending(x)'
                                         \/ x \in Tb /\ x \notin Tb'

LEMMA UnbornSame ==
    ASSUME UNCHANGED <<lib, mounter>>, NEW x \in Conns
    PROVE  Unborn(x)' <=> Unborn(x)
    BY DEF Unborn, Conn

LEMMA UnKeeps ==
    ASSUME AgreeInv, ConnInv', NEW p \in Processes, UnBeside(p), UnAccounted
    PROVE  AgreeInv'
<1>1. /\ UNCHANGED <<env, lib, mounter, conn>>
      /\ hist.excused \subseteq hist'.excused /\ HistOK'
      /\ mtab' \in Seq(Conns) /\ Ranked(mounts)' /\ Ranked(mtab)'
      /\ un' \in [Processes -> UnRec]
      /\ Mt' \subseteq Mt /\ Tb' \subseteq Tb
    BY DEF UnBeside, HistGrows
<1>2. UnbornAbsent /\ TargetsGone
    BY DEF AgreeInv
<1>3. UnbornAbsent'
    <2>. SUFFICES ASSUME NEW x \in Conns, Unborn(x), NEW q \in Processes
                  PROVE  x \notin Mt' /\ x \notin Tb' /\ un'[q].target # x
        BY <1>1, UnbornSame DEF UnbornAbsent
    <2>1. x \notin Mt /\ x \notin Tb /\ un[q].target # x /\ un[p].target # x
        BY <1>2 DEF UnbornAbsent
    <2>2. un'[q].target # x
        <3>1. CASE q = p
            BY <2>1, <3>1, ConnParts DEF UnBeside
        <3>2. CASE q # p
            BY <2>1, <3>2 DEF UnBeside
        <3>. QED  BY <3>1, <3>2
    <2>. QED  BY <1>1, <2>1, <2>2
<1>4. TargetsGone'
    <2>. SUFFICES ASSUME NEW q \in Processes, un'[q].target # None
                  PROVE  un'[q].target \in Conns /\ un'[q].target \notin Mt'
        BY DEF TargetsGone
    <2>1. CASE un'[q].target = un[q].target
        BY <1>1, <1>2, <2>1 DEF TargetsGone
    <2>2. CASE un'[q].target # un[q].target
        <3>1. un'[q].target \in Mt /\ un'[q].target \notin Mt'
            BY <2>2 DEF UnBeside
        <3>2. \A x \in Mt : x \in Conns
            BY DEF AgreeInv, ConnInv, ConnType, Mt, Among
        <3>. QED  BY <3>1, <3>2
    <2>. QED  BY <2>1, <2>2
<1>5. ASSUME NEW d \in Daemons PROVE InStep(d)'
    <2>1. InStep(d) /\ Conn(d)' = Conn(d) /\ IsRoot(d)' = IsRoot(d)
        BY <1>1 DEF AgreeInv, Conn, IsRoot, User
    <2>2. un'[d].lazy /\ (un'[d].pc # "idle" => un[d].pc # "idle")
        BY <2>1 DEF UnBeside, Processes, InStep
    <2>. QED  BY <1>1, <2>1, <2>2 DEF InStep
<1>6. ASSUME NEW x \in Conns, x \notin hist'.excused PROVE Sound(x)'
    <2>. DEFINE e == x[1]
    <2>1. Sound(x) /\ e \in Daemons
        BY <1>1, <1>6, ConnParts DEF AgreeInv
    <2>. HIDE DEF e
    <2>2. x = Conn(e) /\ mounter[e].pc = "mtab" => x \notin Tb
        BY <2>1 DEF AgreeInv, InStep
    <2>3. /\ x \in Mt' /\ Leaving(x) => Leaving(x)'
          /\ ~env.link => /\ x \in Mt /\ x \notin Mt' => Pending(x)'
                          /\ x \in Tb /\ x \notin Tb' => x \notin Mt'
                          /\ Pending(x) => \/ Pending(x)'
                                           \/ x \in Tb /\ x \notin Tb'
        BY <1>6 DEF UnAccounted
    <2>4. Conn(e)' = Conn(e) /\ (Alive(x)' <=> Alive(x))
        BY <1>1 DEF Conn, Alive
    <2>5. (x \in Mt => x = Conn(e) /\ (Alive(x) \/ Leaving(x)))'
        BY <1>1, <2>1, <2>3, <2>4 DEF Sound, e
    <2>6. ~env.link => /\ x \in Tb' /\ x \notin Mt' => Pending(x)'
                       /\ x \in Mt' /\ x \notin Tb' => mounter[e].pc \in {"mtab", "undo"}
                       /\ x = Conn(e) /\ mounter[e].pc = "mtab" => x \in Mt' \/ Pending(x)'
        BY <1>1, <2>1, <2>2, <2>3 DEF Sound, e
    <2>. QED  BY <1>1, <2>4, <2>5, <2>6 DEF Sound, e
<1>7. \A x \in Conns : conn'[x].connected => conn'[x].sb
    BY <1>1 DEF AgreeInv
<1>. QED  BY <1>1, <1>3, <1>4, <1>5, <1>6, <1>7 DEF AgreeInv

\* Where somebody who unmounts comes to.
LEMMA UnAtIs ==
    ASSUME AgreeInv, NEW p \in Processes, NEW to \in {"umount", "unlist", "ended"}, UnAt(p, to)
    PROVE  /\ un' \in [Processes -> UnRec] /\ un'[p].pc = to
           /\ \A q \in Processes \ {p} : un'[q] = un[q]
           /\ to = "ended" => un'[p].target = None /\ un'[p].lazy
           /\ to # "ended" => un'[p].target = un[p].target /\ un'[p].lazy = un[p].lazy
<1>1. un \in [Processes -> UnRec]
    BY DEF AgreeInv
<1>2. CASE to = "ended"
    <2>1. PICK r : r = [NoUn EXCEPT !.pc = "ended"]
        OBVIOUS
    <2>2. r \in UnRec /\ r.pc = "ended" /\ r.target = None /\ r.lazy
        BY <2>1 DEF NoUn, UnRec
    <2>3. un' = [un EXCEPT ![p] = r]
        BY <1>2, <2>1 DEF UnAt
    <2>. QED  BY <1>1, <1>2, <2>2, <2>3
<1>3. CASE to # "ended"
    <2>1. un' = [un EXCEPT ![p].pc = to]
        BY <1>3 DEF UnAt
    <2>. QED  BY <1>1, <1>3, <2>1 DEF UnRec
<1>. QED  BY <1>2, <1>3

\* Without a mount or an entry less.
LEMMA UnAlone ==
    ASSUME AgreeInv, ConnInv', NEW p \in Processes, NEW to \in {"umount", "unlist", "ended"},
           UnAt(p, to), HistGrows, un[p].pc # "idle",
           to = "umount" => un[p].pc = "check",
           UNCHANGED <<env, mounts, mtab, conn, lib, mounter>>,
           p \in Daemons /\ to \in {"unlist", "ended"} =>
               Conn(p) \notin Mt \/ Conn(p) \in hist'.excused \/ ~Leaving(Conn(p)),
           ~env.link /\ to = "ended" /\ un[p].pc \in {"put", "unlist"} =>
               un[p].target = None \/ un[p].target \in hist'.excused
    PROVE  AgreeInv'
<1>1. /\ un' \in [Processes -> UnRec] /\ un'[p].pc = to
      /\ \A q \in Processes \ {p} : un'[q] = un[q]
      /\ to = "ended" => un'[p].target = None /\ un'[p].lazy
      /\ to # "ended" => un'[p].target = un[p].target /\ un'[p].lazy = un[p].lazy
    BY UnAtIs
<1>2. Mt' = Mt /\ Tb' = Tb /\ Ranked(mounts)' /\ Ranked(mtab)' /\ mtab' \in Seq(Conns)
    BY DEF Mt, Tb, Among, AgreeInv, Ranked
<1>3. UnBeside(p)
    <2>1. p \in Daemons => un[p].lazy
        BY DaemonAt DEF InStep
    <2>. QED  BY <1>1, <1>2, <2>1 DEF UnBeside
<1>4. UnAccounted
    <2>. SUFFICES ASSUME NEW x \in Conns, x \notin hist'.excused
                  PROVE  /\ x \in Mt /\ Leaving(x) => Leaving(x)'
                         /\ ~env.link /\ Pending(x) => Pending(x)'
        BY <1>2 DEF UnAccounted
    <2>1. ASSUME x \in Mt, Leaving(x) PROVE Leaving(x)'
        <3>. DEFINE e == x[1]
        <3>1. e \in Daemons /\ e \in Processes
            BY ConnParts DEF Processes
        <3>2. x = Conn(e)
            BY <2>1 DEF AgreeInv, Sound, HistGrows
        <3>3. CASE e = p /\ to \in {"unlist", "ended"}
            BY <2>1, <3>1, <3>2, <3>3
        <3>4. CASE e = p /\ to = "umount"
            BY <1>1, <2>1, <3>4 DEF Leaving
        <3>5. CASE e # p
            BY <1>1, <2>1, <3>1, <3>5 DEF Leaving
        <3>. QED  BY <3>3, <3>4, <3>5
    <2>2. ASSUME ~env.link, Pending(x) PROVE Pending(x)'
        <3>1. PICK q \in Processes : un[q].target = x /\ un[q].pc \in {"put", "unlist"}
            BY <2>2 DEF Pending
        <3>2. CASE q # p
            BY <1>1, <3>1, <3>2 DEF Pending
        <3>3. CASE q = p
            <4>1. to # "ended"
                BY <2>2, <3>1, <3>3, ConnParts
            <4>2. to # "umount"
                BY <3>1, <3>3, <4>1
            <4>. QED  BY <1>1, <3>1, <3>3, <4>1, <4>2 DEF Pending
        <3>. QED  BY <3>2, <3>3
    <2>. QED  BY <2>1, <2>2
<1>. QED  BY <1>3, <1>4, UnKeeps

\* The mount that a daemon leaves behind to be unmounted is entered.
LEMMA LeavingListed ==
    ASSUME AgreeInv, NEW d \in Daemons, NEW c, c = Conn(d), Leaving(c), c \in Mt,
           c \notin hist.excused
    PROVE  \E i \in DOMAIN Entries : Entries[i] = c
<1>1. Sound(c) /\ c[1] = d /\ InStep(d)
    BY DaemonAt
<1>2. lib[d].pc = "waiting"
    BY <1>1 DEF Leaving
<1>3. mounter[d].pc = "ended"
    BY <1>1, <1>2 DEF InStep
<1>4. ~env.link => c \in Tb
    BY <1>1, <1>3 DEF Sound
<1>. QED  BY <1>4 DEF Entries, Mt, Tb, Among

\* What a daemon loses when its unmount fails is named.
LEMMA OwnOfIs ==
    ASSUME NEW p \in Daemons
    PROVE  Conn(p) \in OwnOf(p)
    BY DEF OwnOf

LEMMA CheckKeeps ==
    ASSUME AgreeInv, ConnInv', NEW p \in Processes, unmount_fuse(p)
    PROVE  AgreeInv'
<1>1. UNCHANGED <<env, mounts, mtab, conn, lib, mounter>> /\ un[p].pc = "check"
    BY DEF unmount_fuse
<1>2. CASE MayUnmount(p) /\ UnAt(p, "umount") /\ hist' = hist
    BY <1>1, <1>2, HistGoesOn, UnAlone
<1>3. CASE ~MayUnmount(p) /\ UnAt(p, "ended") /\ hist' = hist
    <2>1. p \in Daemons =>
              Conn(p) \notin Mt \/ Conn(p) \in hist'.excused \/ ~Leaving(Conn(p))
        <3>. SUFFICES ASSUME p \in Daemons, NEW c, c = Conn(p), c \in Mt,
                             c \notin hist.excused, Leaving(c)
                      PROVE  FALSE
            BY <1>3
        <3>1. PICK i \in DOMAIN Entries : Entries[i] = c
            BY LeavingListed
        <3>2. c[1] = p
            BY DaemonAt
        <3>. QED  BY <1>3, <3>1, <3>2 DEF MayUnmount
    <2>. QED  BY <1>1, <1>3, <2>1, HistGoesOn, UnAlone
<1>4. CASE hist' = Excused(Noted, OwnOf(p)) /\ UnAt(p, "ended")
    <2>1. HistGrows /\ hist'.excused = hist.excused \cup OwnOf(p)
        BY <1>4, HistNames
    <2>2. p \in Daemons => Conn(p) \in hist'.excused
        BY <2>1, OwnOfIs
    <2>. QED  BY <1>1, <1>4, <2>1, <2>2, UnAlone
<1>. QED  BY <1>2, <1>3, <1>4 DEF unmount_fuse

LEMMA GivenKeeps ==
    ASSUME AgreeInv, ConnInv', NEW p \in Processes, Given(p)
    PROVE  AgreeInv'
<1>1. /\ UNCHANGED <<env, mounts, mtab, conn, lib, mounter, hist>> /\ un[p].pc = "put"
      /\ UnAt(p, AfterUmount)
    BY DEF Given
<1>2. PICK to \in {"unlist", "ended"} : to = AfterUmount /\ (~env.link => to = "unlist")
    BY DEF AfterUmount
<1>3. p \in Daemons => ~Leaving(Conn(p))
    BY <1>1, DaemonAt DEF Leaving
<1>. QED  BY <1>1, <1>2, <1>3, HistGoesOn, UnAlone

LEMMA KillUnKeeps ==
    ASSUME AgreeInv, ConnInv', NEW p \in Processes, KillUn(p)
    PROVE  AgreeInv'
<1>1. /\ UNCHANGED <<env, mounts, mtab, conn, lib, mounter>> /\ un[p].pc # "idle"
      /\ hist' = Excused(Noted, OwnOf(p) \cup ({un[p].target} \ {None})) /\ UnAt(p, "ended")
    BY DEF KillUn, Killed
<1>2. /\ HistGrows
      /\ hist'.excused = hist.excused \cup (OwnOf(p) \cup ({un[p].target} \ {None}))
    BY <1>1, HistNames
<1>3. p \in Daemons => Conn(p) \in hist'.excused
    BY <1>2, OwnOfIs
<1>4. un[p].target = None \/ un[p].target \in hist'.excused
    BY <1>2
<1>. QED  BY <1>1, <1>2, <1>3, <1>4, UnAlone

\* What is taken off is the unmounter's, or named.
LEMMA PopKeeps ==
    ASSUME AgreeInv, ConnInv', NEW p \in Processes, un[p].pc = "umount", mounts # <<>>,
           UNCHANGED <<env, mtab, conn, lib, mounter>>, mounts' = Front(mounts),
           NEW busy \in BOOLEAN, busy => un[p].lazy,
           un' = [un EXCEPT ![p] =
                     IF busy /\ env.link THEN [NoUn EXCEPT !.pc = "ended"]
                     ELSE [@ EXCEPT !.target = Top, !.pc = IF busy THEN "unlist" ELSE "put"]],
           hist' = IF Own(p, Top) THEN hist ELSE Excused(hist, {Top} \cup OwnOf(p))
    PROVE  AgreeInv'
<1>0. PICK t : t = Top
    OBVIOUS
<1>1. /\ t \in Conns /\ t \in Mt /\ Mt' = Mt \ {t} /\ Ranked(mounts)'
      /\ \A x \in Mt : x # t /\ x[1] = t[1] => x[2] < t[2]
    BY <1>0, TopIs DEF Mt, Among, Ranked
<1>2. /\ un' \in [Processes -> UnRec] /\ \A q \in Processes \ {p} : un'[q] = un[q]
      /\ un'[p].target \in {None, t} /\ (un[p].lazy => un'[p].lazy)
      /\ ~env.link => un'[p].target = t /\ un'[p].pc \in {"put", "unlist"}
    <2>1. un \in [Processes -> UnRec]
        BY DEF AgreeInv
    <2>2. CASE busy /\ env.link
        <3>1. PICK r : r = [NoUn EXCEPT !.pc = "ended"]
            OBVIOUS
        <3>2. r \in UnRec /\ r.target = None /\ r.lazy
            BY <3>1 DEF NoUn, UnRec
        <3>3. un' = [un EXCEPT ![p] = r]
            BY <2>2, <3>1
        <3>. QED  BY <2>1, <2>2, <3>2, <3>3
    <2>3. CASE ~(busy /\ env.link)
        <3>1. PICK to \in {"put", "unlist"} : to = IF busy THEN "unlist" ELSE "put"
            OBVIOUS
        <3>2. PICK r : r = [un[p] EXCEPT !.target = t, !.pc = to]
            OBVIOUS
        <3>3. r \in UnRec /\ r.target = t /\ r.pc = to /\ r.lazy = un[p].lazy
            BY <1>1, <2>1, <3>1, <3>2 DEF UnRec
        <3>4. un' = [un EXCEPT ![p] = r]
            BY <1>0, <2>3, <3>1, <3>2
        <3>. QED  BY <2>1, <3>1, <3>3, <3>4
    <2>. QED  BY <2>2, <2>3
<1>3. /\ HistGrows
      /\ \/ Own(p, t) /\ hist' = hist
         \/ hist'.excused = hist.excused \cup ({t} \cup OwnOf(p))
    <2>1. CASE Own(p, t)
        BY <1>0, <2>1, HistGoesOn
    <2>2. CASE ~Own(p, t)
        BY <1>0, <2>2, HistNames
    <2>. QED  BY <2>1, <2>2
<1>4. Tb' = Tb /\ Ranked(mtab)' /\ mtab' \in Seq(Conns)
    BY DEF Tb, Among, AgreeInv, Ranked
<1>5. UnBeside(p)
    <2>1. p \in Daemons => un[p].lazy
        BY DaemonAt DEF InStep
    <2>. QED  BY <1>1, <1>2, <1>3, <1>4, <2>1 DEF UnBeside
<1>6. UnAccounted
    <2>. SUFFICES ASSUME NEW x \in Conns, x \notin hist'.excused
                  PROVE  /\ x \in Mt' /\ Leaving(x) => Leaving(x)'
                         /\ ~env.link => /\ x \in Mt /\ x \notin Mt' => Pending(x)'
                                         /\ Pending(x) => Pending(x)'
        BY <1>4 DEF UnAccounted
    <2>1. ASSUME x \in Mt', Leaving(x) PROVE Leaving(x)'
        <3>. DEFINE e == x[1]
        <3>1. e \in Daemons /\ e \in Processes
            BY ConnParts DEF Processes
        <3>2. x = Conn(e) /\ x \in Mt /\ x # t
            BY <1>1, <1>3, <2>1 DEF AgreeInv, Sound, HistGrows
        <3>3. e # p
            <4>. SUFFICES ASSUME e = p PROVE FALSE
                OBVIOUS
            <4>1. x \notin OwnOf(p) => FALSE
                BY <3>1, <3>2, OwnOfIs
            <4>2. Own(p, t)
                BY <1>3, <4>1
            <4>3. t[1] = p
                BY <3>1, <4>2 DEF Own
            <4>4. t[2] < x[2]
                BY <1>1, <3>1, <3>2, <4>3, TriesBefore
            <4>5. x[2] < t[2]
                BY <1>1, <3>2, <4>3
            <4>6. t[2] \in {1, 2} /\ x[2] \in {1, 2}
                BY <1>1, ConnParts
            <4>. QED  BY <4>4, <4>5, <4>6
        <3>. QED  BY <1>2, <2>1, <3>1, <3>3 DEF Leaving
    <2>2. ASSUME ~env.link, x \in Mt, x \notin Mt' PROVE Pending(x)'
        BY <1>1, <1>2, <2>2 DEF Pending
    <2>3. ASSUME Pending(x) PROVE Pending(x)'
        <3>1. PICK q \in Processes : un[q].target = x /\ un[q].pc \in {"put", "unlist"}
            BY <2>3 DEF Pending
        <3>2. q # p
            BY <3>1
        <3>. QED  BY <1>2, <3>1, <3>2 DEF Pending
    <2>. QED  BY <2>1, <2>2, <2>3
<1>. QED  BY <1>5, <1>6, UnKeeps

LEMMA UmountKeeps ==
    ASSUME AgreeInv, ConnInv', NEW p \in Processes, fuse_mnt_umount(p)
    PROVE  AgreeInv'
<1>1. UNCHANGED <<env, mtab, conn, lib, mounter>> /\ un[p].pc = "umount"
    BY DEF fuse_mnt_umount
<1>2. CASE Top = None /\ UnAt(p, AfterUmount) /\ UNCHANGED <<mounts, hist>>
    <2>1. PICK to \in {"unlist", "ended"} : to = AfterUmount
        BY DEF AfterUmount
    <2>2. Conn(p) \notin Mt
        BY <1>2, TopIs
    <2>. QED  BY <1>1, <1>2, <2>1, <2>2, HistGoesOn, UnAlone
<1>3. CASE ~un[p].lazy /\ UnAt(p, "ended") /\ UNCHANGED <<mounts, hist>>
    <2>1. p \notin Daemons
        BY <1>3, DaemonAt DEF InStep
    <2>. QED  BY <1>1, <1>3, <2>1, HistGoesOn, UnAlone
<1>4. CASE hist' = Excused(Noted, OwnOf(p)) /\ UnAt(p, "ended") /\ mounts' = mounts
    <2>1. HistGrows /\ hist'.excused = hist.excused \cup OwnOf(p)
        BY <1>4, HistNames
    <2>2. p \in Daemons => Conn(p) \in hist'.excused
        BY <2>1, OwnOfIs
    <2>. QED  BY <1>1, <1>4, <2>1, <2>2, UnAlone
<1>5. ASSUME NEW busy \in BOOLEAN, Top # None, busy => un[p].lazy,
             mounts' = Front(mounts),
             un' = [un EXCEPT ![p] =
                     IF busy /\ env.link THEN [NoUn EXCEPT !.pc = "ended"]
                     ELSE [@ EXCEPT !.target = Top, !.pc = IF busy THEN "unlist" ELSE "put"]],
             hist' = IF Own(p, Top) THEN hist ELSE Excused(hist, {Top} \cup OwnOf(p))
      PROVE  AgreeInv'
    <2>1. mounts # <<>>
        BY <1>5, TopIs
    <2>. QED  BY <1>1, <1>5, <2>1, PopKeeps
<1>. QED  BY <1>2, <1>3, <1>4, <1>5 DEF fuse_mnt_umount

LEMMA UnlistKeeps ==
    ASSUME AgreeInv, ConnInv', NEW p \in Processes, Unlist(p)
    PROVE  AgreeInv'
<1>0. PICK t : t = un[p].target
    OBVIOUS
<1>1. /\ UNCHANGED <<env, mounts, conn, lib, mounter>> /\ un[p].pc = "unlist"
      /\ UnAt(p, "ended")
      /\ mtab' = IF mtab = <<>> THEN mtab ELSE Front(mtab)
      /\ hist' = IF LastOf(mtab) = t THEN hist ELSE Excused(hist, {LastOf(mtab), t} \ {None})
    BY <1>0 DEF Unlist
<1>2. /\ un' \in [Processes -> UnRec] /\ un'[p].pc = "ended"
      /\ \A q \in Processes \ {p} : un'[q] = un[q]
      /\ un'[p].target = None /\ un'[p].lazy
    BY <1>1, UnAtIs
<1>3. PICK l : l = LastOf(mtab)
    OBVIOUS
<1>4. mtab \in Seq(Conns) /\ Ranked(mtab)
    BY DEF AgreeInv
<1>5. /\ mtab' \in Seq(Conns) /\ Ranked(mtab)' /\ Tb' = Tb \ {l}
      /\ l # None => l \in Tb
    <2>1. CASE mtab = <<>>
        <3>1. mtab' = mtab /\ l = None /\ DOMAIN mtab = {}
            BY <1>1, <1>3, <2>1 DEF LastOf
        <3>. QED  BY <1>4, <3>1 DEF Tb, Among, Ranked
    <2>2. CASE mtab # <<>>
        <3>1. mtab' = Front(mtab) /\ l = Last(mtab)
            BY <1>1, <1>3, <2>2 DEF LastOf
        <3>2. /\ Front(mtab) \in Seq(Conns) /\ Ranked(Front(mtab))
              /\ Last(mtab) \in Among(mtab)
              /\ Among(Front(mtab)) = Among(mtab) \ {Last(mtab)}
            BY <1>4, <2>2, OneLess
        <3>. QED  BY <3>1, <3>2 DEF Tb, Among, Ranked
    <2>. QED  BY <2>1, <2>2
<1>6. /\ HistGrows
      /\ \/ l = t /\ hist' = hist
         \/ hist'.excused = hist.excused \cup ({l, t} \ {None})
    <2>1. CASE l = t
        BY <1>1, <1>3, <2>1, HistGoesOn
    <2>2. CASE l # t
        <3>1. hist' = Excused(hist, {l, t} \ {None})
            BY <1>1, <1>3, <2>2
        <3>. QED  BY <3>1, HistNames
    <2>. QED  BY <2>1, <2>2
<1>7. Mt' = Mt /\ Ranked(mounts)'
    BY <1>1 DEF Mt, Among, AgreeInv, Ranked
<1>8. UnBeside(p)
    BY <1>1, <1>2, <1>5, <1>6, <1>7 DEF UnBeside
<1>9. t # None => t \notin Mt
    BY <1>0 DEF AgreeInv, TargetsGone
<1>10. UnAccounted
    <2>. SUFFICES ASSUME NEW x \in Conns, x \notin hist'.excused
                  PROVE  /\ x \in Mt /\ Leaving(x) => Leaving(x)'
                         /\ x \in Tb /\ x \notin Tb' => x \notin Mt
                         /\ Pending(x) => \/ Pending(x)'
                                          \/ x \in Tb /\ x \notin Tb'
        BY <1>7 DEF UnAccounted
    <2>1. x # None
        BY ConnParts
    <2>2. ASSUME x \in Mt, Leaving(x) PROVE Leaving(x)'
        <3>. DEFINE e == x[1]
        <3>1. e \in Processes
            BY ConnParts DEF Processes
        <3>2. e # p
            BY <1>1, <2>2 DEF Leaving
        <3>. QED  BY <1>1, <1>2, <2>2, <3>1, <3>2 DEF Leaving
    <2>3. ASSUME x \in Tb, x \notin Tb' PROVE x \notin Mt
        BY <1>5, <1>6, <1>9, <2>1, <2>3
    <2>4. ASSUME Pending(x), ~Pending(x)' PROVE x \in Tb /\ x \notin Tb'
        <3>1. PICK q \in Processes : un[q].target = x /\ un[q].pc \in {"put", "unlist"}
            BY <2>4 DEF Pending
        <3>2. q = p
            BY <1>2, <2>4, <3>1 DEF Pending
        <3>3. x = t
            BY <1>0, <3>1, <3>2
        <3>4. l = t
            BY <1>6, <2>1, <3>3
        <3>. QED  BY <1>5, <2>1, <3>3, <3>4
    <2>. QED  BY <2>2, <2>3, <2>4
<1>. QED  BY <1>8, <1>10, UnKeeps

LEMMA CommandKeeps ==
    ASSUME AgreeInv, ConnInv', NEW p \in Commands, Command(p)
    PROVE  AgreeInv'
<1>1. /\ UNCHANGED <<env, mounts, mtab, conn, lib, mounter>> /\ un[p].pc = "idle"
      /\ hist' = Noted /\ p \in Processes /\ p \notin Daemons
    BY MountingAssumption DEF Command, Processes
<1>2. PICK lazy \in BOOLEAN, to \in {"umount", "check"} :
          un' = [un EXCEPT ![p] = [pc |-> to, lazy |-> lazy, target |-> None]]
    BY DEF Command
<1>3. un \in [Processes -> UnRec]
    BY DEF AgreeInv
<1>4. /\ un' \in [Processes -> UnRec] /\ un'[p].target = None
      /\ \A q \in Processes \ {p} : un'[q] = un[q]
    BY <1>1, <1>2, <1>3 DEF UnRec
<1>5. Mt' = Mt /\ Tb' = Tb /\ Ranked(mounts)' /\ Ranked(mtab)' /\ mtab' \in Seq(Conns)
    BY <1>1 DEF Mt, Tb, Among, AgreeInv, Ranked
<1>6. UnBeside(p)
    BY <1>1, <1>4, <1>5, HistGoesOn DEF UnBeside
<1>7. UnAccounted
    <2>. SUFFICES ASSUME NEW x \in Conns
                  PROVE  (Leaving(x) => Leaving(x)') /\ (Pending(x) => Pending(x)')
        BY <1>5 DEF UnAccounted
    <2>1. x[1] # p /\ x[1] \in Processes
        BY <1>1, ConnParts DEF Processes
    <2>2. Leaving(x) => Leaving(x)'
        BY <1>1, <1>4, <2>1 DEF Leaving
    <2>3. Pending(x) => Pending(x)'
        BY <1>1, <1>4 DEF Pending
    <2>. QED  BY <2>2, <2>3
<1>. QED  BY <1>1, <1>6, <1>7, UnKeeps

\* Steps of the kernel and of the control file system change connections.
LEMMA ConnsOnlyKeep ==
    ASSUME AgreeInv, ConnInv', UNCHANGED <<env, mounts, mtab, lib, mounter, un>>, HistGrows,
           \A x \in Conns :
               /\ conn'[x].connected => conn'[x].sb
               /\ x \in Mt /\ x \notin hist'.excused =>
                      conn'[x].connected = conn[x].connected /\ conn'[x].fd = conn[x].fd
    PROVE  AgreeInv'
<1>1. Mt' = Mt /\ Tb' = Tb /\ Ranked(mounts)' /\ Ranked(mtab)' /\ mtab' \in Seq(Conns)
    BY DEF Mt, Tb, Among, AgreeInv, Ranked
<1>2. HistOK' /\ hist.excused \subseteq hist'.excused
    BY DEF HistGrows
<1>3. UnbornAbsent' /\ TargetsGone'
    BY <1>1, UnbornSame DEF AgreeInv, UnbornAbsent, TargetsGone
<1>4. ASSUME NEW d \in Daemons PROVE InStep(d)'
    <2>1. InStep(d) /\ Conn(d)' = Conn(d) /\ IsRoot(d)' = IsRoot(d)
        BY DEF AgreeInv, Conn, IsRoot, User
    <2>. QED  BY <1>1, <1>2, <2>1 DEF InStep
<1>5. ASSUME NEW x \in Conns, x \notin hist'.excused PROVE Sound(x)'
    <2>. DEFINE e == x[1]
    <2>1. Sound(x)
        BY <1>2, <1>5 DEF AgreeInv
    <2>2. (Pending(x)' <=> Pending(x)) /\ Conn(e)' = Conn(e)
        BY DEF Pending, Conn
    <2>3. x \in Mt => (Alive(x) => Alive(x)') /\ (Leaving(x) => Leaving(x)')
        BY <1>5 DEF Alive, Leaving
    <2>. QED  BY <1>1, <2>1, <2>2, <2>3 DEF Sound
<1>6. un' \in [Processes -> UnRec]
    BY DEF AgreeInv
<1>. QED  BY <1>1, <1>2, <1>3, <1>4, <1>5, <1>6 DEF AgreeInv

\* Who is among the members of a list.
LEMMA ContainsIs ==
    ASSUME NEW list \in Seq(Conns), NEW c
    PROVE  Contains(list, c) <=> c \in Among(list)
<1>1. DOMAIN list = 1..Len(list)
    OBVIOUS
<1>. QED  BY <1>1 DEF Contains, Among

LEMMA SuperKeeps ==
    ASSUME AgreeInv, ConnInv', NEW c \in Conns, fuse_put_super(c)
    PROVE  AgreeInv'
<1>1. /\ UNCHANGED <<env, mounts, mtab, lib, mounter, un, hist>> /\ ~Contains(mounts, c)
      /\ \E listed \in BOOLEAN : conn' = [conn EXCEPT ![c] = fuse_conn_put([@ EXCEPT !.sb = FALSE,
                                  !.connected = FALSE, !.private = listed])]
    BY DEF fuse_put_super
<1>2. c \notin Mt
    <2>1. mounts \in Seq(Conns)
        BY DEF AgreeInv, ConnInv, ConnType
    <2>. QED  BY <1>1, <2>1, ContainsIs DEF Mt
<1>3. PICK listed \in BOOLEAN : conn' = [conn EXCEPT ![c] = fuse_conn_put([@ EXCEPT !.sb = FALSE,
                                  !.connected = FALSE, !.private = listed])]
    BY <1>1
<1>4. conn \in [Conns -> ConnRec]
    BY DEF AgreeInv, ConnInv, ConnType
<1>5. ~conn'[c].connected /\ \A x \in Conns \ {c} : conn'[x] = conn[x]
    <2>. DEFINE q == [conn[c] EXCEPT !.sb = FALSE, !.connected = FALSE, !.private = listed]
    <2>1. conn' = [conn EXCEPT ![c] = fuse_conn_put(q)]
        BY <1>3
    <2>2. q \in ConnRec /\ ~q.connected
        BY <1>4 DEF ConnRec
    <2>. HIDE DEF q
    <2>3. ~fuse_conn_put(q).connected
        BY <2>2 DEF fuse_conn_put, ConnRec
    <2>. QED  BY <1>4, <2>1, <2>3
<1>. QED  BY <1>1, <1>2, <1>5, HistGoesOn, ConnsOnlyKeep DEF AgreeInv

LEMMA ControlKeeps ==
    ASSUME AgreeInv, ConnInv',
           \/ fuse_ctl_fill_super \/ fuse_ctl_kill_sb
           \/ \E c \in Conns : OpenAbort(c) \/ CtlStepOf(c)
    PROVE  AgreeInv'
<1>1. UNCHANGED <<env, mounts, mtab, lib, mounter, un>>
    BY DEF fuse_ctl_fill_super, fuse_ctl_kill_sb, ByHand, OpenAbort, CtlStepOf,
           fuse_ctl_file_conn_get, fuse_conn_abort_write
<1>2. conn \in [Conns -> ConnRec] /\ \A x \in Conns : conn[x] \in ConnRec
    BY DEF AgreeInv, ConnInv, ConnType
<1>3. \A x \in Conns : conn[x].connected => conn[x].sb
    BY DEF AgreeInv
<1>4. CASE /\ \A x \in Conns : /\ conn'[x].connected = conn[x].connected
                               /\ conn'[x].sb = conn[x].sb /\ conn'[x].fd = conn[x].fd
           /\ hist' = hist \/ hist' = Noted
    BY <1>1, <1>3, <1>4, HistGoesOn, ConnsOnlyKeep
<1>5. CASE fuse_ctl_fill_super
    <2>1. conn' = [x \in Conns |-> [conn[x] EXCEPT !.private = conn[x].sb]] /\ hist' = Noted
        BY <1>5 DEF fuse_ctl_fill_super, ByHand
    <2>2. \A x \in Conns : /\ conn'[x].connected = conn[x].connected
                           /\ conn'[x].sb = conn[x].sb /\ conn'[x].fd = conn[x].fd
        BY <1>2, <2>1 DEF ConnRec
    <2>. QED  BY <1>4, <2>1, <2>2
<1>6. CASE fuse_ctl_kill_sb
    <2>1. conn' = [x \in Conns |-> [conn[x] EXCEPT !.private = FALSE]] /\ hist' = Noted
        BY <1>6 DEF fuse_ctl_kill_sb, ByHand
    <2>2. \A x \in Conns : /\ conn'[x].connected = conn[x].connected
                           /\ conn'[x].sb = conn[x].sb /\ conn'[x].fd = conn[x].fd
        BY <1>2, <2>1 DEF ConnRec
    <2>. QED  BY <1>4, <2>1, <2>2
<1>7. ASSUME NEW c \in Conns, OpenAbort(c) PROVE AgreeInv'
    BY <1>4, <1>7 DEF OpenAbort, ByHand
<1>8. ASSUME NEW c \in Conns, fuse_ctl_file_conn_get(c) PROVE AgreeInv'
    <2>1. hist' = hist /\ (conn' = conn \/ conn' = [conn EXCEPT ![c].count = @ + 1])
        BY <1>8 DEF fuse_ctl_file_conn_get
    <2>2. \A x \in Conns : /\ conn'[x].connected = conn[x].connected
                           /\ conn'[x].sb = conn[x].sb /\ conn'[x].fd = conn[x].fd
        BY <1>2, <2>1 DEF ConnRec
    <2>. QED  BY <1>4, <2>1, <2>2
<1>9. ASSUME NEW c \in Conns, fuse_conn_abort_write(c) PROVE AgreeInv'
    <2>1. /\ conn' = [conn EXCEPT ![c] = fuse_conn_put([@ EXCEPT !.connected = FALSE])]
          /\ hist' = Excused(hist, {c})
        BY <1>9 DEF fuse_conn_abort_write
    <2>2. HistGrows /\ c \in hist'.excused
        BY <2>1, HistNames
    <2>3. ~conn'[c].connected /\ \A x \in Conns \ {c} : conn'[x] = conn[x]
        <3>. DEFINE q == [conn[c] EXCEPT !.connected = FALSE]
        <3>1. conn' = [conn EXCEPT ![c] = fuse_conn_put(q)]
            BY <2>1
        <3>2. q \in ConnRec /\ ~q.connected
            BY <1>2 DEF ConnRec
        <3>. HIDE DEF q
        <3>3. ~fuse_conn_put(q).connected
            BY <3>2 DEF fuse_conn_put, ConnRec
        <3>. QED  BY <1>2, <3>1, <3>3
    <2>. QED  BY <1>1, <1>3, <2>2, <2>3, ConnsOnlyKeep
<1>. QED  BY <1>5, <1>6, <1>7, <1>8, <1>9 DEF CtlStepOf

LEMMA AgreeInitially == MountInit => AgreeInv
<1>. SUFFICES ASSUME MountInit PROVE AgreeInv
    OBVIOUS
<1>1. ConnInv /\ HistOK /\ hist.excused = {}
    BY ConnInitially DEF MountInit, HistOK
<1>2. mounts = <<>> /\ mtab = <<>> /\ Mt = {} /\ Tb = {}
    <2>1. mounts = <<>> /\ mtab = <<>>
        BY DEF MountInit
    <2>2. Among(<<>>) = {}
        <3>1. DOMAIN <<>> = {}
            OBVIOUS
        <3>. QED  BY <3>1 DEF Among
    <2>. QED  BY <2>1, <2>2 DEF Mt, Tb
<1>3. mtab \in Seq(Conns) /\ Ranked(mounts) /\ Ranked(mtab)
    <2>1. DOMAIN <<>> = {}
        OBVIOUS
    <2>. QED  BY <1>2, <2>1 DEF Ranked
<1>4. un \in [Processes -> UnRec]
      /\ \A p \in Processes : un[p].target = None /\ un[p].pc = "idle" /\ un[p].lazy
    BY DEF MountInit, NoUn, UnRec
<1>5. UnbornAbsent /\ TargetsGone
    BY <1>2, <1>4, ConnParts DEF UnbornAbsent, TargetsGone
<1>6. \A d \in Daemons : mounter[d].pc = "ended" /\ lib[d].pc \in {"start", "ended"}
    BY DEF MountInit, NoMounter
<1>7. \A d \in Daemons : InStep(d)
    BY <1>4, <1>6 DEF InStep, Processes
<1>8. \A c \in Conns : Sound(c) /\ ~conn[c].connected
    <2>1. \A c \in Conns : ~conn[c].connected
        BY DEF MountInit, NoConn
    <2>. QED  BY <1>2, <1>6, <2>1, ConnParts DEF Sound
<1>. QED  BY <1>1, <1>3, <1>4, <1>5, <1>7, <1>8 DEF AgreeInv

LEMMA AgreeStep == AgreeInv /\ [MountNext]_mountVars => AgreeInv'
<1>. SUFFICES ASSUME AgreeInv, [MountNext]_mountVars PROVE AgreeInv'
    OBVIOUS
<1>0. ConnInv /\ ConnInv'
    BY ConnStep DEF AgreeInv
<1>1. ASSUME NEW d \in Daemons, LibStep(d) \/ fuse_main_common(d) PROVE AgreeInv'
    <2>1. Moves(d)
        BY <1>0, <1>1, LibSteps
    <2>. QED  BY <1>0, <1>1, <2>1, StartKeeps, ReceiveKeeps, SetupKeeps, LeaveKeeps,
                 DestroyKeeps DEF LibStep
<1>2. ASSUME NEW d \in Daemons, MounterStep(d) \/ KillDaemon(d) \/ KillMounter(d)
      PROVE  AgreeInv'
    <2>1. Moves(d)
        BY <1>0, <1>2, MounterSteps
    <2>. QED  BY <1>0, <1>2, <2>1, LookKeeps, MountKeeps, AddKeeps, UndoKeeps, SendKeeps,
                 KillKeeps DEF MounterStep
<1>3. ASSUME NEW p \in Processes, UnStep(p) \/ KillUn(p) PROVE AgreeInv'
    BY <1>0, <1>3, CheckKeeps, UmountKeeps, GivenKeeps, UnlistKeeps, KillUnKeeps DEF UnStep
<1>4. ASSUME NEW p \in Commands, Command(p) PROVE AgreeInv'
    BY <1>0, <1>4, CommandKeeps
<1>5. ASSUME NEW c \in Conns, fuse_put_super(c) \/ OpenAbort(c) \/ CtlStepOf(c)
      PROVE  AgreeInv'
    BY <1>0, <1>5, SuperKeeps, ControlKeeps
<1>6. CASE fuse_ctl_fill_super \/ fuse_ctl_kill_sb
    BY <1>0, <1>6, ControlKeeps
<1>7. CASE UNCHANGED mountVars
    BY <1>0, <1>7, HistGoesOn, ConnsOnlyKeep DEF mountVars, AgreeInv
<1>. QED  BY <1>1, <1>2, <1>3, <1>4, <1>5, <1>6, <1>7 DEF MountNext

LEMMA AgreeShows == AgreeInv => MountsAgree
<1>. SUFFICES ASSUME AgreeInv, Quiet, NEW c \in Conns, c \notin hist.excused
              PROVE  /\ Contains(mounts, c) => Served(c)
                     /\ Served(c) => conn[c].sb
                     /\ ~env.link => (Contains(mtab, c) <=> Contains(mounts, c))
    BY DEF MountsAgree
<1>1. Sound(c) /\ (conn[c].connected => conn[c].sb) /\ c[1] \in Daemons
    BY ConnParts DEF AgreeInv
<1>2. (Contains(mounts, c) <=> c \in Mt) /\ (Contains(mtab, c) <=> c \in Tb)
    BY ContainsIs DEF AgreeInv, ConnInv, ConnType, Mt, Tb
<1>3. ~Leaving(c) /\ ~Pending(c) /\ mounter[c[1]].pc = "ended"
    BY <1>1 DEF Quiet, Leaving, Pending, Processes
<1>4. c \in Mt => Served(c)
    BY <1>1, <1>3 DEF Sound, Alive, Served, Quiet
<1>5. ~env.link => (c \in Tb <=> c \in Mt)
    BY <1>1, <1>3 DEF Sound
<1>. QED  BY <1>1, <1>2, <1>4, <1>5 DEF Served

(* For any number of daemons and commands, users and settings: when no     *)
(* mount and no unmount is under way, what is mounted is served, who is    *)
(* connected has a super block, and /etc/mtab lists what is mounted, but   *)
(* for connections that were aborted, killed or taken for another's        *)
(* (helper.c, mount.c, fusermount.c, control.c).                           *)
THEOREM MountsStayAgreed == MountSpec => []MountsAgree
BY AgreeInitially, AgreeStep, AgreeShows, PTL DEF MountSpec
=============================================================================
