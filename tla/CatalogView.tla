----------------------------- MODULE CatalogView -----------------------------
(***************************************************************************)
(* What a catalog says.  The entries of a catalog file, the answers a      *)
(* client of the file system gets, and the answer a catalog implies for    *)
(* each request, defined from the lines alone and without any search.      *)
(***************************************************************************)
EXTENDS CatalogEntry

ZeroStat == [type |-> "NONE", attr |-> 0]    \* memset(st_data,0,...)
Stat     == [type : FileType \cup {"NONE"}, attr : Attrs \cup {0}]
Entry    == [depth : Int, path : Path, st : Stat, link : Path]
NoEntry  == [depth |-> 0, path |-> <<>>, st |-> ZeroStat, link |-> <<>>]

(* width is the length every line has, or 0 when they differ.              *)
CatalogFile == [present : BOOLEAN, width : Nat, lines : Seq(Line)]

Replies == {"OK", "ENOENT", "ENOMEM", "EROFS", "EPERM"}
Dirent  == [name : Path, st : Stat]
Answer  == [ret : Replies, st : Stat, list : Seq(Dirent), link : Path]

Error(ret) == [ret |-> ret, st |-> ZeroStat, list |-> <<>>, link |-> <<>>]

(* The requests that are answered from the catalog, and the others.        *)
CatalogOps   == {"getattr", "readdir", "readlink"}
ModifyingOps == {"mknod", "mkdir", "unlink", "rmdir", "symlink", "link",
                 "rename", "chmod", "chown", "truncate", "utimens",
                 "setxattr", "removexattr", "write"}
ContentOps   == {"open", "read"}
GrantedOps   == {"release", "releasedir", "fsync", "fsyncdir", "getxattr",
                 "listxattr", "access", "opendir", "statfs"}
FixedOps     == ModifyingOps \cup ContentOps \cup GrantedOps

Dots == << [name |-> <<Dot>>, st |-> ZeroStat],
           [name |-> <<Dot, Dot>>, st |-> ZeroStat] >>
-----------------------------------------------------------------------------
Entries(c) == [k \in DOMAIN c.lines |-> ParseEntry(c.lines[k], <<>>)]

(* A line belongs into directory dir if its path is dir/name.              *)
IsChild(dir, path) ==
    /\ IsStrictPrefix(DirPath(dir), path)
    /\ \A i \in (Len(DirPath(dir)) + 1)..Len(path) : path[i] # Slash

Children(c, dir) ==
    LET es == Entries(c)
        upto[k \in 0..Len(es)] ==      \* the children among the first k lines
            IF k = 0 THEN <<>>
            ELSE IF IsChild(dir, es[k].path) THEN Append(upto[k - 1], es[k])
            ELSE upto[k - 1]
    IN  upto[Len(es)]

AsDirent(e) == [name |-> basename(e.path), st |-> e.st]
Listing(c, dir) ==
    LET es == Children(c, dir)
    IN  Dots \o [k \in DOMAIN es |-> AsDirent(es[k])]

(* Every line called path.                                                 *)
Named(c, path) ==
    {Entries(c)[k] : k \in {k \in DOMAIN c.lines : Entries(c)[k].path = path}}

(* The answers that are right for a request: the attributes or the link    *)
(* of a line with that path, the lines of a directory in their order, and  *)
(* ENOENT exactly if the catalog has no such line.                         *)
RightAnswers(c, op, path) ==
    LET found == Named(c, IF op = "readdir" THEN DirPath(path) ELSE path)
    IN  IF found = {} THEN {Error("ENOENT")}
        ELSE CASE op = "getattr"  ->
                    {[Error("OK") EXCEPT !.st = e.st] : e \in found}
               [] op = "readlink" ->
                    {[Error("OK") EXCEPT !.link = e.link] : e \in found}
               [] op = "readdir"  ->
                    {[Error("OK") EXCEPT !.list = Listing(c, path)]}

(* The order the search relies on: by depth, and by strcmp within a depth. *)
Ordered(c) ==
    \A i, j \in DOMAIN c.lines : i < j =>
        LET d == Entries(c)[i]   e == Entries(c)[j]
        IN  \/ d.depth < e.depth
            \/ d.depth = e.depth /\ StrLess(d.path, e.path)

DepthsRight(c) ==
    \A k \in DOMAIN c.lines :
        Entries(c)[k].depth = findDepth(Entries(c)[k].path)
=============================================================================
