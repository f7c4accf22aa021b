--------------------------- MODULE GenerateCatalog ---------------------------
(***************************************************************************)
(* generate_catalog.c: a breadth-first walk of a directory tree that       *)
(* prints one line per entry and one header line per directory, straight   *)
(* into the catalog file; then a second pass that pads every line to one   *)
(* length in a temporary file, which is renamed over the catalog.          *)
(*                                                                         *)
(* Paths are relative to the input directory, which is <<>>: that is what  *)
(* the program prints (file_path + input_dir_len).  The walk takes one     *)
(* lstat or scandir at a time, and the tree belongs to other processes.    *)
(***************************************************************************)
EXTENDS CatalogEntry

CONSTANTS
    Trees,          \* what the directory tree may look like
    OldCatalogs,    \* what the catalog file may hold before
    GarbageNodes,   \* what an uninitialised struct stat may say
    DTypeKnown,     \* the file system fills in d_type
    MayFail,        \* fopen, scandir, malloc and rename may fail
    MaxEdits        \* how often the tree changes during the walk

Node == [type : FileType, attr : Attrs, dest : Path]

(* A tree gives the node of every path below the input directory; the      *)
(* parent of every path is a directory.                                    *)
Parent(p) == SubSeq(p, 1, Max({0} \cup {i \in DOMAIN p : p[i] = Slash}) - 1)
IsTree(f) ==
    /\ IsFiniteSet(DOMAIN f)
    /\ <<>> \in DOMAIN f /\ f[<<>>].type = "DIR"
    /\ \A p \in DOMAIN f : /\ p \in Path
                           /\ f[p] \in Node
                           /\ p # <<>> => /\ findDepth(p) > 0
                                          /\ p[Len(p)] # Slash
                                          /\ Parent(p) \in DOMAIN f
                                          /\ f[Parent(p)].type = "DIR"

ASSUME GeneratorAssumption ==
    /\ \A f \in Trees : IsTree(f)
    /\ OldCatalogs \subseteq [present : BOOLEAN, lines : Seq(Line)]
    /\ GarbageNodes \subseteq Node /\ GarbageNodes # {}
    /\ DTypeKnown \in BOOLEAN /\ MayFail \in BOOLEAN
    /\ MaxEdits \in Nat

VARIABLES
    fs,             \* the directory tree
    edits,          \* how often it has changed since the program started
    pc,             \* where the program is
    queue,          \* the breadth-first queue of directories
    current_dir,    \* the directory being listed
    namelist,       \* what is left of the result of scandir
    catalog,        \* the file under the catalog's name
    temp            \* the file under the catalog's name with .temp

vars == <<fs, edits, pc, queue, current_dir, namelist, catalog, temp>>

Dirent  == [name : Path, isdir : BOOLEAN]
NoFile  == [present |-> FALSE, lines |-> <<>>]
Empty   == [present |-> TRUE,  lines |-> <<>>]
File    == [present : BOOLEAN, lines : Seq(Line)]
Walking == {"next", "scan", "entries"}

TypeOK ==
    /\ fs \in Trees
    /\ edits \in 0..MaxEdits
    /\ pc \in {"start", "rename", "done", "failed", "crashed"} \cup Walking
    /\ queue \in Seq(Path)
    /\ current_dir \in Path
    /\ namelist \in Seq(Dirent)
    /\ pc \in Walking => (pc = "entries" <=> namelist # <<>>)
    /\ catalog \in File
    /\ temp \in File
-----------------------------------------------------------------------------
Outcomes == IF MayFail THEN BOOLEAN ELSE {TRUE}

Join(dir, name) == Append(dir, Slash) \o name

(* lstat of a path that has gone leaves the struct stat uninitialised; it  *)
(* is printed all the same.  The trailing slash of a header means the      *)
(* directory itself.                                                       *)
Lstat(dir) == IF dir \in DOMAIN fs THEN {fs[dir]} ELSE GarbageNodes

print_to_catalog(path, node) ==
    catalog' = [catalog EXCEPT !.lines =
                    Append(@, print_entry_to_catalog(path, node))]

(* insert_queue fails for want of memory, with a message at most.         *)
insert_at_head(path, ok) == IF ok THEN <<path>> \o queue ELSE queue  \* faulty
insert_queue(path, ok) == IF ok THEN Append(queue, path) ELSE queue

(* main up to catalog_listing: the catalog is emptied, the input directory *)
(* queued.  A catalog that cannot be opened ends the program; a temporary  *)
(* file that cannot be opened and a queue that has no memory are not       *)
(* noticed.                                                                *)
Start ==
    /\ pc = "start"
    /\ \E opened, tempOpened, queued \in Outcomes :
        /\ pc' = IF opened THEN "next" ELSE "failed"
        /\ catalog' = IF opened THEN Empty ELSE catalog
        /\ temp' = IF tempOpened THEN Empty ELSE NoFile
        /\ queue' = IF opened THEN insert_queue(<<>>, queued) ELSE queue
    /\ UNCHANGED <<fs, edits, current_dir, namelist>>

(* Take a directory from the queue and print its header.                   *)
Header ==
    /\ pc = "next"
    /\ queue # <<>>
    /\ current_dir' = Head(queue)
    /\ queue' = Tail(queue)
    /\ \E node \in Lstat(Head(queue)) :
            print_to_catalog(Append(Head(queue), Slash), node)
    /\ pc' = "scan"
    /\ UNCHANGED <<fs, edits, namelist, temp>>

(* The names in the directory, in the order of alphasort.                  *)
Names(dir) ==
    {SubSeq(p, Len(dir) + 2, Len(p)) :
        p \in {q \in DOMAIN fs \ {<<>>} : Parent(q) = dir}}

alphasort(S) ==
    CHOOSE s \in [1..Cardinality(S) -> S] :
        \A i, j \in DOMAIN s : i < j => StrLess(s[i], s[j])

scandir_unsorted(dir) ==    \* faulty: alphasort left out
    LET AsEntry(n) == [name  |-> n,
                       isdir |-> DTypeKnown /\ fs[Join(dir, n)].type = "DIR"]
        names == Reverse(alphasort(Names(dir)))
    IN  [k \in DOMAIN names |-> AsEntry(names[k])]
scandir(dir) ==
    LET AsEntry(n) == [name  |-> n,
                       isdir |-> DTypeKnown /\ fs[Join(dir, n)].type = "DIR"]
        names == alphasort(Names(dir))
    IN  [k \in DOMAIN names |-> AsEntry(names[k])]

(* The for loop over the names goes on, or the next directory is taken.    *)
Loop(names) == IF names = <<>> THEN "next" ELSE "entries"

CanScan == current_dir \in DOMAIN fs /\ fs[current_dir].type = "DIR"

ScanDirAgain ==     \* faulty: a failing scandir is tried again
    /\ pc = "scan"
    /\ \E ok \in Outcomes :
        IF ok /\ CanScan
        THEN /\ namelist' = scandir(current_dir)
             /\ pc' = Loop(namelist')
        ELSE UNCHANGED <<namelist, pc>>
    /\ UNCHANGED <<fs, edits, queue, current_dir, catalog, temp>>
ScanDir ==
    /\ pc = "scan"
    /\ \E ok \in Outcomes :
        namelist' = IF ok /\ CanScan THEN scandir(current_dir) ELSE <<>>
    /\ pc' = Loop(namelist')
    /\ UNCHANGED <<fs, edits, queue, current_dir, catalog, temp>>

(* Print one name of the directory; queue it if scandir said it is one.    *)
ListEntry ==
    /\ pc = "entries"
    /\ LET path == Join(current_dir, Head(namelist).name)
       IN  /\ \E node \in Lstat(path) : print_to_catalog(path, node)
           /\ \E ok \in Outcomes :
                queue' = IF Head(namelist).isdir THEN insert_queue(path, ok)
                         ELSE queue
    /\ namelist' = Tail(namelist)
    /\ pc' = Loop(namelist')
    /\ UNCHANGED <<fs, edits, current_dir, temp>>

(* The second pass.  Without a temporary file it dereferences NULL.        *)
PadLines ==
    /\ pc = "next"
    /\ queue = <<>>
    /\ IF temp.present
       THEN /\ temp' = [temp EXCEPT !.lines = pad_each_line(catalog.lines)]
            /\ pc' = "rename"
       ELSE /\ pc' = "crashed"
            /\ UNCHANGED temp
    /\ UNCHANGED <<fs, edits, queue, current_dir, namelist, catalog>>

Rename ==
    /\ pc = "rename"
    /\ \E ok \in Outcomes :
        IF ok THEN catalog' = temp /\ temp' = NoFile /\ pc' = "done"
        ELSE pc' = "failed" /\ UNCHANGED <<catalog, temp>>
    /\ UNCHANGED <<fs, edits, queue, current_dir, namelist>>

(* The program is killed.                                                  *)
Crash ==
    /\ MayFail
    /\ pc \in Walking \cup {"rename"}
    /\ pc' = "crashed"
    /\ UNCHANGED <<fs, edits, queue, current_dir, namelist, catalog, temp>>

(* Another process changes the tree.                                       *)
EditTree ==
    /\ edits < MaxEdits
    /\ pc \in Walking
    /\ fs' \in Trees \ {fs}
    /\ edits' = edits + 1
    /\ UNCHANGED <<pc, queue, current_dir, namelist, catalog, temp>>

Stopped ==
    /\ pc \in {"done", "failed", "crashed"}
    /\ UNCHANGED vars
-----------------------------------------------------------------------------
Init ==
    /\ fs \in Trees
    /\ edits = 0
    /\ pc = "start"
    /\ queue = <<>>
    /\ current_dir = <<>>
    /\ namelist = <<>>
    /\ catalog \in OldCatalogs
    /\ temp = NoFile

Generator == Start \/ Header \/ ScanDir \/ ListEntry \/ PadLines \/ Rename

Next == Generator \/ Crash \/ EditTree \/ Stopped

Spec == Init /\ [][Next]_vars /\ WF_vars(Generator)
-----------------------------------------------------------------------------
(* The catalog's lines as catalogfs.c reads them, once it is this walk's.  *)
Printed  == pc \in Walking \cup {"rename", "done", "crashed"}
LinePath(k) == ParseEntry(catalog.lines[k], <<>>).path
IsHeader(k) == LinePath(k)[Len(LinePath(k))] = Slash

(* The depth column never falls from one line to the next: find_index may  *)
(* bisect by depth, whatever happened to the tree during the walk, and     *)
(* even on what a killed generator left behind.                            *)
DepthNeverFalls ==
    Printed => \A j, k \in DOMAIN catalog.lines :
        j < k => catalog.lines[j].depth <= catalog.lines[k].depth

(* Every entry follows the header of its own directory with no other       *)
(* header in between, and in strcmp order: get_directory_contents may stop *)
(* at the first line that is not in the directory.  No path is printed     *)
(* twice, although the tree changes between scandir and the later visit.   *)
ListingsContiguous ==
    Printed => \A k \in DOMAIN catalog.lines :
        /\ \A j \in 1..(k - 1) : LinePath(j) # LinePath(k)
        /\ ~IsHeader(k) =>
            \E h \in 1..(k - 1) :
                /\ LinePath(h) = Append(Parent(LinePath(k)), Slash)
                /\ \A j \in (h + 1)..(k - 1) :
                        ~IsHeader(j) /\ StrLess(LinePath(j), LinePath(k))

(* What the daemon's loops rely on holds of the lines that are in the file *)
(* at any moment of the walk, also if it is killed there (DepthNeverFalls, *)
(* ListingsContiguous).                                                    *)
LayoutKept == DepthNeverFalls /\ ListingsContiguous

(* The catalog of a tree that nobody changed, when nothing failed, parses  *)
(* back to exactly the tree: each node with its attributes and its link,   *)
(* each directory with a header, lines all of one length.  A type that has *)
(* no letter comes back as a regular file.                                 *)
AsListed(p, node) ==
    [depth |-> findDepth(p), path |-> p,
     st    |-> [type |-> IF node.type = "DOOR" THEN "REG" ELSE node.type,
                attr |-> node.attr],
     link  |-> IF node.type = "LNK" THEN node.dest ELSE <<>>]

CatalogComplete ==
    pc = "done" /\ edits = 0 /\ ~MayFail =>
        LET dirs == {p \in DOMAIN fs : fs[p].type = "DIR"}
        IN  /\ {ParseEntry(catalog.lines[k], <<>>) : k \in DOMAIN catalog.lines}
                = {AsListed(p, fs[p]) : p \in DOMAIN fs \ {<<>>}}
                    \cup {AsListed(Append(p, Slash), fs[p]) : p \in dirs}
            /\ \A j, k \in DOMAIN catalog.lines :
                    LineLen(catalog.lines[j]) = LineLen(catalog.lines[k])

(* A directory d and a sibling whose name is d followed by a byte below    *)
(* '/': the sibling's contents sort before those of d, but d is walked     *)
(* before its sibling.                                                     *)
LowSibling(d, p) ==
    /\ fs[d].type = "DIR" /\ fs[p].type = "DIR"
    /\ Parent(p) = Parent(d)
    /\ IsStrictPrefix(d, p) /\ p[Len(d) + 1] < Slash

(* Where no two directories are such siblings, the lines of each depth are *)
(* in the strcmp order that the last loop of binSearch needs.              *)
OrderedUnlessLowSibling ==
    Printed /\ edits = 0 =>
        \/ \E d, p \in DOMAIN fs \ {<<>>} : LowSibling(d, p)
        \/ \A j, k \in DOMAIN catalog.lines :
                j < k /\ catalog.lines[j].depth = catalog.lines[k].depth =>
                    StrLess(LinePath(j), LinePath(k))

(* Names and links without the bytes that separate the fields of a line:   *)
(* the format has no way to write down another (see the README).           *)
PlainPath(p) == p \in Path /\ \A i \in DOMAIN p : p[i] # Sep /\ p[i] # LinkSep
PlainNames == \A t \in Trees : \A p \in DOMAIN t : PlainPath(p)
PlainLinks ==
    \A t \in Trees : \A p \in DOMAIN t :
        t[p].type = "LNK" => \A i \in DOMAIN t[p].dest : t[p].dest[i] # Sep

(* The walk comes to an end even while the tree is being changed.          *)
Terminates == <>(pc \in {"done", "failed", "crashed"})
=============================================================================
