------------------------------ MODULE CatalogFS ------------------------------
(***************************************************************************)
(* The FUSE daemon of catalogfs.c.  libfuse runs it multithreaded: each    *)
(* thread serves one request at a time, by opening, seeking, reading and   *)
(* closing the catalog file once per line it wants to see, with no lock    *)
(* and no cache.  The file belongs to the user, who may replace it at any  *)
(* moment; entry_size and catalog_len are fixed when the daemon starts.    *)
(*                                                                         *)
(* A step of a thread is one getEntry_from_catalog together with the       *)
(* computation up to the next one.  A replacement of the file between the  *)
(* open and the read of one call is a replacement before the open (the     *)
(* file was rewritten in place) or after the read (it was renamed over).   *)
(***************************************************************************)
EXTENDS CatalogView, BinSearch

CONSTANTS
    Threads,        \* the worker threads of libfuse
    Paths,          \* the paths the kernel asks for
    Catalogs,       \* what the catalog file may hold
    entry_size,     \* CATALOGFS_ENTRY_SIZE, fixed when mounted
    INT_MAX,        \* the largest value of a C int
    MaxFds,         \* descriptors the process may keep open
    Garbage,        \* what a buffer that was not filled with a line parses to
    Junk,           \* what an uninitialised link_dest holds
    ReadMayFail,    \* TRUE if read() may return -1
    FillerMayFail   \* TRUE if libfuse may run out of memory for a listing

ASSUME DaemonAssumption ==
    /\ Paths \subseteq Path
    /\ Catalogs \subseteq CatalogFile
    /\ entry_size \in Nat \ {0}
    /\ INT_MAX \in Nat
    /\ MaxFds \in Nat
    /\ Garbage \subseteq Entry /\ Garbage # {}
    /\ Junk \subseteq Path /\ Junk # {}
    /\ ReadMayFail \in BOOLEAN
    /\ FillerMayFail \in BOOLEAN

VARIABLES
    catalog_file,   \* the contents of the file named by CATALOGFS_CATALOG
    daemon,         \* "running", or "exited" after exit(-1)
    fds,            \* descriptors getEntry_from_catalog left open
    th              \* the request each thread is serving

vars == <<catalog_file, daemon, fds, th>>

(* The operations that answer without looking at the catalog.              *)
FixedReply(op) == IF op \in ModifyingOps THEN "EROFS"
                  ELSE IF op \in ContentOps THEN "EPERM"
                  ELSE "OK"

(* What a thread keeps on its stack between two reads of the file.  seen   *)
(* is no variable of the program: it collects the contents the file had    *)
(* while the request was being served.                                     *)
Frame == [pc : {"idle", "search", "attr", "link", "contents", "list_attr",
                "list_path", "reply"},
          op : {"none"} \cup CatalogOps,
          path : Path, search : Search, low : Int, high : Int, i : Int,
          got : BOOLEAN, st : Stat, out : Seq(Dirent), full : BOOLEAN,
          ans : Answer, seen : SUBSET Catalogs]

Idle == [pc |-> "idle", op |-> "none", path |-> <<>>, search |-> NoSearch,
         low |-> 0, high |-> 0, i |-> 0, got |-> FALSE, st |-> ZeroStat,
         out |-> <<>>, full |-> FALSE, ans |-> Error("OK"), seen |-> {}]

TypeOK ==
    /\ catalog_file \in Catalogs
    /\ daemon \in {"running", "exited"}
    /\ fds \in 0..MaxFds
    /\ th \in [Threads -> Frame]
-----------------------------------------------------------------------------
(* Reading one line.                                                       *)

(* int offset=(entry_size)*location: the product is truncated to an int.   *)
Offset(location) ==
    ((entry_size * location + INT_MAX + 1) % (2 * (INT_MAX + 1)))
        - (INT_MAX + 1)

(* What read() and sscanf() make of the bytes at an offset: a line when    *)
(* the file's lines have entry_size bytes and the offset is one of theirs. *)
(* Past the end the buffer keeps what was on the stack, and a misaligned   *)
(* read is cut out of two lines.                                           *)
EntriesAt(offset) ==
    LET k == offset \div entry_size
    IN  IF /\ catalog_file.width = entry_size
           /\ offset % entry_size = 0
           /\ k < Len(catalog_file.lines)
        THEN {ParseEntry(catalog_file.lines[k + 1], junk) : junk \in Junk}
        ELSE Garbage

CanOpenOneMore == catalog_file.present /\ fds <= MaxFds   \* faulty
CanOpen == catalog_file.present /\ fds < MaxFds

(* The outcomes of getEntry_from_catalog once the file is open.            *)
getEntry_from_catalog(location) ==
    LET offset == Offset(location)
    IN  {[ok |-> TRUE, entry |-> e] :
            e \in IF offset < 0 THEN {} ELSE EntriesAt(offset)}
        \cup {[ok |-> FALSE, entry |-> NoEntry] :
            x \in IF offset < 0 \/ ReadMayFail THEN {1} ELSE {}}

(* The location a frame waits for.                                         *)
Location(f) == IF f.pc = "search" THEN Target(f.search) ELSE f.i

Probing == {"search", "attr", "link", "contents", "list_attr", "list_path"}

(* Thread t opens the file, and has read its line with outcome r.  The     *)
(* failing returns of getEntry_from_catalog come before its close(fd).     *)
Opens(t, pc) == daemon = "running" /\ th[t].pc = pc /\ CanOpen

Read(r) ==
    /\ fds' = IF r.ok THEN fds ELSE fds + 1
    /\ UNCHANGED <<catalog_file, daemon>>

(* open() failed: exit(-1), whatever the other threads are doing.          *)
OpenFails(t) ==
    /\ daemon = "running"
    /\ th[t].pc \in Probing
    /\ ~CanOpen
    /\ daemon' = "exited"
    /\ UNCHANGED <<catalog_file, fds, th>>
-----------------------------------------------------------------------------
(* The computation between two reads.                                      *)

Reply(f, ans) == [f EXCEPT !.pc = "reply", !.ans = ans]
Fail(f, ret)  == Reply(f, Error(ret))

(* The listing loop of catalog_readdir.  libfuse turns a listing for which *)
(* filler failed into ENOMEM.                                              *)
ListNext(f) ==
    IF f.i <= f.high THEN [f EXCEPT !.pc = "list_attr"]
    ELSE IF f.full THEN Fail(f, "ENOMEM")
    ELSE Reply(f, [Error("OK") EXCEPT !.list = f.out])

(* The do-while of get_directory_contents, after i++.                      *)
ContentsNext(f) ==
    IF f.i >= catalog_len
    THEN ListNext([f EXCEPT !.high = f.i - 1, !.i = f.low + 1])
    ELSE [f EXCEPT !.pc = "contents"]

(* What the callers of binSearch do with its result.                       *)
AfterSearch(f) ==
    LET location == f.search.result
    IN  IF f.search.phase # "done" THEN f
        ELSE IF location < 0 THEN Fail(f, "ENOENT")
        ELSE CASE f.op = "getattr"  -> [f EXCEPT !.pc = "attr", !.i = location]
               [] f.op = "readlink" -> [f EXCEPT !.pc = "link", !.i = location]
               [] f.op = "readdir"  -> ContentsNext([f EXCEPT !.low = location,
                                                              !.i = location + 1])

StartSearch(op, path, searchPath) ==
    [Idle EXCEPT !.pc = "search", !.op = op, !.path = path,
                 !.search = binSearch(searchPath), !.seen = {catalog_file}]
-----------------------------------------------------------------------------
(* The operations.                                                         *)

Submit(t, f) ==
    /\ daemon = "running"
    /\ th[t].pc = "idle"
    /\ th' = [th EXCEPT ![t] = f]
    /\ UNCHANGED <<catalog_file, daemon, fds>>

catalog_getattr(t, path) ==
    Submit(t, AfterSearch(StartSearch("getattr", path, path)))

catalog_readlink(t, path) ==
    Submit(t, AfterSearch(StartSearch("readlink", path, path)))

(* "." and ".." are filled in first; the result of filler is not looked at *)
(* but libfuse remembers the failure.                                      *)
catalog_readdir(t, path) ==
    \E full \in IF FillerMayFail THEN BOOLEAN ELSE {FALSE} :
        Submit(t, AfterSearch(
            [StartSearch("readdir", path, DirPath(path))
                EXCEPT !.out = Dots, !.full = full]))

FixedOp(t, op) == Submit(t, Fail(Idle, FixedReply(op)))

(* One iteration of one of the four loops of binSearch.                    *)
SearchProbe(t) ==
    /\ Opens(t, "search")
    /\ \E r \in getEntry_from_catalog(Location(th[t])) :
        /\ Read(r)
        /\ LET s == th[t].search
               u == IF r.ok THEN SearchStep(s, r.entry) ELSE Finish(s, -1)
           IN  th' = [th EXCEPT ![t] =
                        AfterSearch([th[t] EXCEPT !.search = u])]

(* getattr_by_location at the location that was found.                     *)
GetattrProbe(t) ==
    /\ Opens(t, "attr")
    /\ \E r \in getEntry_from_catalog(Location(th[t])) :
        /\ Read(r)
        /\ th' = [th EXCEPT ![t] =
                    IF r.ok
                    THEN Reply(@, [Error("OK") EXCEPT !.st = r.entry.st])
                    ELSE Fail(@, "ENOENT")]

ReadlinkProbe(t) ==
    /\ Opens(t, "link")
    /\ \E r \in getEntry_from_catalog(Location(th[t])) :
        /\ Read(r)
        /\ th' = [th EXCEPT ![t] =
                    IF r.ok
                    THEN Reply(@, [Error("OK") EXCEPT !.link = r.entry.link])
                    ELSE Fail(@, "ENOENT")]

(* One iteration of get_directory_contents: the directory ends at the      *)
(* first line of another depth or without the directory's path as prefix.  *)
WithinDepth(f, entry) ==    \* faulty: the prefix is not compared
    entry.depth = findDepth(f.search.path)
Within(f, entry) ==
    /\ entry.depth = findDepth(f.search.path)
    /\ IsPrefix(f.search.path, entry.path)

ContentsProbe(t) ==
    /\ Opens(t, "contents")
    /\ \E r \in getEntry_from_catalog(Location(th[t])) :
        /\ Read(r)
        /\ LET f == th[t]
           IN  th' = [th EXCEPT ![t] =
                    IF ~r.ok THEN Fail(f, "ENOENT")
                    ELSE IF Within(f, r.entry)
                         THEN ContentsNext([f EXCEPT !.i = f.i + 1])
                         ELSE ListNext([f EXCEPT !.high = f.i - 1,
                                                 !.i = f.low + 1])]

(* The listing reads every line twice: once for its attributes ...         *)
ListAttrProbe(t) ==
    /\ Opens(t, "list_attr")
    /\ \E r \in getEntry_from_catalog(Location(th[t])) :
        /\ Read(r)
        /\ LET f == [th[t] EXCEPT !.pc = "list_path", !.got = r.ok,
                                  !.st = r.entry.st]
           IN  th' = [th EXCEPT ![t] = f]

(* ... and once for its name.  An entry with a failed read is left out;    *)
(* the first entry that filler refuses ends the listing.                   *)
KeptIfNamed(f, r) == r.ok   \* faulty: the first read is not checked
Kept(f, r) == f.got /\ r.ok

ListPathProbe(t) ==
    /\ Opens(t, "list_path")
    /\ \E r \in getEntry_from_catalog(Location(th[t])),
          refused \in IF FillerMayFail THEN BOOLEAN ELSE {FALSE} :
        /\ Read(r)
        /\ LET f == th[t]
               d == [name |-> basename(r.entry.path), st |-> f.st]
           IN  th' = [th EXCEPT ![t] = ListNext(
                    IF ~Kept(f, r) THEN [f EXCEPT !.i = f.i + 1]
                    ELSE IF refused THEN [f EXCEPT !.i = f.high + 1,
                                                   !.full = TRUE]
                    ELSE [f EXCEPT !.i = f.i + 1, !.out = Append(f.out, d)])]

(* libfuse has sent the answer; the thread waits for the next request.     *)
Return(t) ==
    /\ daemon = "running"
    /\ th[t].pc = "reply"
    /\ th' = [th EXCEPT ![t] = Idle]
    /\ UNCHANGED <<catalog_file, daemon, fds>>

(* The user changes the catalog file.                                      *)
ReplaceCatalog(c) ==
    /\ c # catalog_file
    /\ catalog_file' = c
    /\ th' = [t \in Threads |->
                IF th[t].pc \in Probing
                THEN [th[t] EXCEPT !.seen = @ \cup {c}] ELSE th[t]]
    /\ UNCHANGED <<daemon, fds>>
-----------------------------------------------------------------------------
(* CATALOGFS_ENTRY_SIZE and CATALOGFS_CATALOG_LEN were taken from the      *)
(* catalog that is mounted.                                                *)
Fits(c) == c.present /\ c.width = entry_size /\ Len(c.lines) = catalog_len

Init ==
    /\ catalog_file \in {c \in Catalogs : Fits(c)}
    /\ daemon = "running"
    /\ fds = 0
    /\ th = [t \in Threads |-> Idle]

Request(t) ==
    \/ \E path \in Paths : \/ catalog_getattr(t, path)
                           \/ catalog_readlink(t, path)
                           \/ catalog_readdir(t, path)
    \/ \E op \in FixedOps : FixedOp(t, op)

(* What the scheduler owes a thread that is serving a request.             *)
Serve(t) ==
    \/ SearchProbe(t) \/ GetattrProbe(t) \/ ReadlinkProbe(t)
    \/ ContentsProbe(t) \/ ListAttrProbe(t) \/ ListPathProbe(t)
    \/ OpenFails(t) \/ Return(t)

Daemon == \E t \in Threads : Request(t) \/ Serve(t)

Next == Daemon \/ \E c \in Catalogs : ReplaceCatalog(c)

(* The catalog is left alone, or is replaced at any moment.  A thread that *)
(* is serving a request is not suspended for ever; no request is owed.     *)
StaticSpec == Init /\ [][Daemon]_vars /\ \A t \in Threads : WF_vars(Serve(t))
Spec       == Init /\ [][Next]_vars   /\ \A t \in Threads : WF_vars(Serve(t))
-----------------------------------------------------------------------------
(* The catalog a request was served from is proper for this daemon.        *)
Proper(c) == Fits(c) /\ Ordered(c) /\ DepthsRight(c)

Answered(t) == th[t].pc = "reply" /\ th[t].op \in CatalogOps

(* A request during which the catalog was proper and was not replaced is   *)
(* answered as the catalog says: what getattr, readlink and readdir return *)
(* after the four loops of binSearch and the re-reads that follow is right,*)
(* and ENOENT is only answered for a path the catalog does not have.       *)
AnswersCorrect ==
    \A t \in Threads : Answered(t) =>
        \A c \in Catalogs : th[t].seen = {c} /\ Proper(c) =>
            \/ th[t].ans \in RightAnswers(c, th[t].op, th[t].path)
            \/ th[t].ans = Error("ENOMEM") /\ th[t].full

(* Whatever the file holds (misaligned, cut short, replaced half way), no  *)
(* thread ever asks getEntry_from_catalog for a location outside the       *)
(* catalog: "presumption: location is valid".                              *)
ProbesInRange ==
    \A t \in Threads :
        /\ SearchInRange(th[t].search)
        /\ th[t].pc \in Probing => Location(th[t]) \in 0..(catalog_len - 1)

(* Even if reads fail, memory runs out or the catalog is not in order, an  *)
(* answer that is not an error never shows another file's attributes or    *)
(* link, and a listing shows children of the directory only, each at most  *)
(* once and in the catalog's order, with their own attributes.             *)
AnswersTruthful ==
    \A t \in Threads : Answered(t) /\ th[t].ans.ret = "OK" =>
        \A c \in Catalogs : th[t].seen = {c} /\ c.width = entry_size =>
            LET ans == th[t].ans
            IN  CASE th[t].op = "getattr" ->
                        \E e \in Named(c, th[t].path) : ans.st = e.st
                  [] th[t].op = "readlink" ->
                        \E e \in Named(c, th[t].path) : ans.link = e.link
                  [] th[t].op = "readdir" ->
                        /\ Named(c, DirPath(th[t].path)) # {}
                        /\ LET Shown(d) == d \in Range(ans.list)
                           IN  ans.list = SelectSeq(Listing(c, th[t].path),
                                                    Shown)

(* Every iteration of a search loop brings the search nearer to its end,   *)
(* whatever line the file produced.                                        *)
SearchAdvances ==
    [][\A t \in Threads :
        th[t].pc = "search" /\ th'[t].search # th[t].search =>
            ProbesLeft(th'[t].search) < ProbesLeft(th[t].search)]_vars

(* A request is answered, or the daemon has exited: no loop of a handler   *)
(* runs for ever, even while the catalog keeps being replaced.             *)
EveryRequestEnds ==
    \A t \in Threads :
        th[t].pc \in Probing ~> th[t].pc = "reply" \/ daemon = "exited"
-----------------------------------------------------------------------------
(* The daemon implements the service of CatalogService: a call is pending  *)
(* while its thread is between two reads, done when the answer is there,   *)
(* and steady while its only contents of the file were usable ones.        *)
Steady(f) == \E c \in Catalogs : f.seen = {c} /\ Proper(c)

CallOf(f) ==
    [state  |-> IF f.pc = "idle" THEN "idle"
                ELSE IF f.pc = "reply" THEN "done" ELSE "pending",
     op     |-> f.op,
     path   |-> f.path,
     steady |-> Steady(f),
     ans    |-> f.ans]

Service == INSTANCE CatalogService WITH
    Usable  <- Proper,
    catalog <- catalog_file,
    up      <- daemon = "running",
    calls   <- [t \in Threads |-> CallOf(th[t])]

(* Every behaviour of the daemon is one of the service, whatever happens   *)
(* to the catalog file while requests are being served.                    *)
ImplementsService == Service!Spec
=============================================================================
