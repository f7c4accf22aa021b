------------------------------ MODULE FuseNode ------------------------------
(***************************************************************************)
(* The node table of libfuse (other_fs/fuse-2.7.3/lib/fuse.c): the names   *)
(* and the parents of the inodes that the kernel knows of, from which the  *)
(* path of every request is made.                                          *)
(*                                                                         *)
(* The table is the record f: f.nodes is the id table (its domain is the   *)
(* nodes that exist, the name table is the nodes that have a name),        *)
(* f.hidectr the counter of hidden names, and f.abort that an assertion,   *)
(* or the abort() of get_node or unhash_name, was reached; f.lost is       *)
(* history: a rename found no memory for a name, or took a name from a     *)
(* node for a file that has no node.  An operator takes a table and gives  *)
(* the next one; each is a section under f->lock.                          *)
(***************************************************************************)
EXTENDS Integers, FiniteSets, Sequences

CONSTANTS
    Names,       \* the names that the tasks use
    HiddenNames, \* bound: the .fuse_hidden names, in the order of hidectr
    MaxNode      \* bound: nodes in the table at a time

FUSE_ROOT_ID == 1
NodeIds == 1..MaxNode
NULL == "NULL"
AllNames == Names \cup {HiddenNames[i] : i \in DOMAIN HiddenNames}

\* NULL, the absence of a name, is no name.
ASSUME NodeAssumption ==
    /\ MaxNode \in Nat \ {0, 1}
    /\ HiddenNames \in Seq(STRING)
    /\ NULL \notin AllNames

\* obj is history: the file that the name stood for when the node was made.
NewNode(obj) == [parent |-> 0, name |-> NULL, nlookup |-> 0, refctr |-> 1,
                 open_count |-> 0, is_hidden |-> FALSE, obj |-> obj]

\* fuse_new_common: the root has a name that no lookup finds.
NewTable(rootobj) ==
    [nodes |-> [i \in {FUSE_ROOT_ID} |->
                    [NewNode(rootobj) EXCEPT !.nlookup = 1]],
     hidectr |-> 0, abort |-> FALSE, lost |-> FALSE]

Abort(f) == [f EXCEPT !.abort = TRUE]

get_node_nocheck(f, id) == id \in DOMAIN f.nodes

\* A node that is not there ends the daemon.
get_node(f, id, next) == IF get_node_nocheck(f, id) THEN next ELSE Abort(f)

delete_node(f, id) ==
    IF f.nodes[id].name # NULL THEN Abort(f)
    ELSE [f EXCEPT !.nodes = [i \in DOMAIN f.nodes \ {id} |-> f.nodes[i]]]

unref_node(f, id) ==
    IF f.nodes[id].refctr = 0 THEN Abort(f)
    ELSE LET less == [f EXCEPT !.nodes[id].refctr = @ - 1]
         IN  IF less.nodes[id].refctr = 0 THEN delete_node(less, id) ELSE less

unhash_name(f, id) ==
    IF f.nodes[id].name = NULL THEN f
    ELSE unref_node([f EXCEPT !.nodes[id].name = NULL,
                              !.nodes[id].parent = 0],
                    f.nodes[id].parent)

\* strdup may fail: then hash_name gives -1 and the node has no name.
hash_name(f, id, parent, name) ==
    get_node(f, parent,
             [f EXCEPT !.nodes[parent].refctr = @ + 1,
                       !.nodes[id].parent = parent,
                       !.nodes[id].name = name])

\* An id that no node has.  The counter of the code wraps after 2^32 ids; here
\* an id is used again as soon as it can be, the worst case of a wrap.
FreeIds(f) == NodeIds \ DOMAIN f.nodes

next_id(f) == CHOOSE i \in FreeIds(f) : \A j \in FreeIds(f) : i =< j

\* The node with this parent and this name, 0 when there is none.
lookup_node(f, parent, name) ==
    LET found == {i \in DOMAIN f.nodes : /\ f.nodes[i].parent = parent
                                         /\ f.nodes[i].name = name}
    IN  IF found = {} THEN 0 ELSE CHOOSE i \in found : TRUE

\* The tables and ids that find_node may give; id 0 when memory is short.
find_node(f, parent, name, obj) ==
    LET i == lookup_node(f, parent, name)
        id == next_id(f)
        new == [f EXCEPT !.nodes = [j \in DOMAIN f.nodes \cup {id} |->
                                        IF j = id THEN NewNode(obj)
                                        ELSE f.nodes[j]]]
    IN  IF i # 0 THEN {[f |-> [f EXCEPT !.nodes[i].nlookup = @ + 1], ino |-> i]}
        ELSE {[f |-> [hash_name(new, id, parent, name)
                         EXCEPT !.nodes[id].nlookup = 1], ino |-> id],
              [f |-> f, ino |-> 0]}

\* The names from the root to the node: it has no path when one of them was
\* unhashed.
get_path(f, id) ==
    LET up[k \in 0..MaxNode] ==
            IF k = 0 THEN [id |-> id, path |-> <<>>, ok |-> TRUE]
            ELSE LET u == up[k - 1]
                 IN  IF u.id = FUSE_ROOT_ID \/ ~u.ok THEN u
                     ELSE IF f.nodes[u.id].name = NULL
                          THEN [u EXCEPT !.ok = FALSE]
                     ELSE [id |-> f.nodes[u.id].parent, ok |-> TRUE,
                           path |-> <<f.nodes[u.id].name>> \o u.path]
    IN  up[MaxNode]

get_path_name(f, id, name) ==
    LET p == get_path(f, id) IN [p EXCEPT !.path = Append(@, name)]

forget_node(f, id, nlookup) ==
    IF id = FUSE_ROOT_ID THEN f
    ELSE IF ~get_node_nocheck(f, id) \/ f.nodes[id].nlookup < nlookup
         THEN Abort(f)
    ELSE LET less == [f EXCEPT !.nodes[id].nlookup = @ - nlookup]
         IN  IF less.nodes[id].nlookup = 0
             THEN unref_node(unhash_name(less, id), id) ELSE less

\* Mutant: the name of a removed file stays in the table.
remove_node_Stays(f, dir, name) == f

remove_node(f, dir, name) ==
    LET i == lookup_node(f, dir, name)
    IN  IF i = 0 THEN f ELSE unhash_name(f, i)

\* Mutant: the node that had the new name keeps it.
rename_node_Twice(f, olddir, oldname, newdir, newname, hide) ==
    LET node == lookup_node(f, olddir, oldname)
        named == hash_name(unhash_name(f, node), node, newdir, newname)
    IN  IF node = 0 THEN {[f |-> f, err |-> "ok"]}
        ELSE {[f |-> named, err |-> "ok"]}

\* The outcomes of rename_node, with and without the memory for the name.
rename_node(f, olddir, oldname, newdir, newname, hide) ==
    LET node == lookup_node(f, olddir, oldname)
        newnode == lookup_node(f, newdir, newname)
        cleared == IF newnode = 0 THEN f ELSE unhash_name(f, newnode)
        bare == unhash_name(cleared, node)
        named == hash_name(bare, node, newdir, newname)
    IN  IF node = 0 THEN {[f |-> [f EXCEPT !.lost = @ \/ newnode # 0], err |-> "ok"]}
        ELSE IF newnode # 0 /\ hide THEN {[f |-> f, err |-> "error"]}
        ELSE {[f |-> [bare EXCEPT !.lost = TRUE], err |-> "ENOMEM"],
              [f |-> IF hide THEN [named EXCEPT !.nodes[node].is_hidden = TRUE]
                     ELSE named, err |-> "ok"]}

\* Mutant: a file in use is taken for an unused one.
is_open_Never(f, dir, name) == FALSE

is_open(f, dir, name) ==
    LET i == lookup_node(f, dir, name)
    IN  i # 0 /\ f.nodes[i].open_count > 0

(***************************************************************************)
(* What makes a table sound.                                               *)
(***************************************************************************)
Children(f, id) == {i \in DOMAIN f.nodes : /\ f.nodes[i].name # NULL
                                           /\ f.nodes[i].parent = id}

\* refctr counts the node's own lookups as one and each named child as one:
\* a directory stays while the kernel knows of something in it.
RefctrSound(f) ==
    \A i \in DOMAIN f.nodes :
        f.nodes[i].refctr =
            (IF f.nodes[i].nlookup > 0 THEN 1 ELSE 0)
            + Cardinality(Children(f, i))

\* Every named node has its parent in the table, and no two have both the
\* parent and the name in common.
NamesSound(f) ==
    \A i \in DOMAIN f.nodes : f.nodes[i].name # NULL =>
        /\ f.nodes[i].parent \in DOMAIN f.nodes
        /\ \A j \in DOMAIN f.nodes :
              (/\ f.nodes[j].name = f.nodes[i].name
               /\ f.nodes[j].parent = f.nodes[i].parent) => i = j
====
