----------------------------- MODULE MCCatalogFS -----------------------------
(***************************************************************************)
(* Small catalogs for the daemon.  A catalog is made from a tree, that is  *)
(* a set of paths and the set of those that are directories; its lines are *)
(* the header of the root, a line for every path and a header for every    *)
(* directory, in the order the search relies on.                           *)
(***************************************************************************)
EXTENDS CatalogFS

a == 97
b == 98

MCAttrs     == 1..6
MCAttrWidth == [x \in MCAttrs |-> 1 + x]
Width       == 18

Parent(p)  == SubSeq(p, 1, Max({i \in DOMAIN p : p[i] = Slash}) - 1)
Universe   == { <<Slash, a>>, <<Slash, b>>, <<Slash, a, b>>,
                <<Slash, a, Slash, a>>, <<Slash, a, Slash, b>>,
                <<Slash, b, Slash, a>>, <<Slash, a, Slash, a, Slash, b>> }

(* A node that is no directory is a link if it is called b.                *)
NodeType(p, dirs) == IF p \in dirs \/ p[Len(p)] = Slash THEN "DIR"
                     ELSE IF p[Len(p)] = b THEN "LNK" ELSE "REG"

Widen(l)   == [l EXCEPT !.text = @ \o [k \in 1..(Width - LineLen(l)) |-> Sep]]
LineOf(p, k, dirs) ==
    Widen(print_entry_to_catalog(p,
        [type |-> NodeType(p, dirs), attr |-> k, dest |-> Tail(p)]))

FileOf(paths, dirs) ==
    [present |-> TRUE, width |-> Width,
     lines |-> [k \in DOMAIN paths |-> LineOf(paths[k], k, dirs)]]

Before(p, q) == \/ findDepth(p) < findDepth(q)
                \/ findDepth(p) = findDepth(q) /\ StrLess(p, q)

TreeCatalog(tree, dirs) ==
    FileOf(SetToSortSeq({Root} \cup tree \cup {DirPath(p) : p \in dirs}, Before),
           dirs)

(* Every tree over the universe whose catalog has n lines.                 *)
ProperCatalogs(n) ==
    {TreeCatalog(x[1], x[2]) :
        x \in {y \in (SUBSET Universe) \X (SUBSET Universe) :
                /\ Cardinality(y[1]) + Cardinality(y[2]) + 1 = n
                /\ y[2] \subseteq y[1]
                /\ \A p \in y[1] : Parent(p) \in y[2] \cup {<<>>}}}

AnyCatalogs == ProperCatalogs(catalog_len)
MCAnyCatalogs == AnyCatalogs
MCPaths  == Universe \cup {Root, <<Slash, b, Slash, b>>}
MCJunk   == {<<>>}

(* Two proper catalogs of one size that differ in every line but the root, *)
(* what a generator has printed of one of them so far, and none.           *)
Tree1 == TreeCatalog({<<Slash, a>>, <<Slash, a, Slash, b>>}, {<<Slash, a>>})
Tree2 == TreeCatalog({<<Slash, b>>, <<Slash, a, b>>, <<Slash, a>>}, {})
PartlyPrinted == [Tree1 EXCEPT !.lines = SubSeq(@, 1, 2)]
NoCatalog     == [present |-> FALSE, width |-> 0, lines |-> <<>>]

ChangingCatalogs == {Tree1, Tree2, PartlyPrinted, NoCatalog}
MCChangingCatalogs == ChangingCatalogs
MCFewPaths == {Root, <<Slash, a>>, <<Slash, a, Slash, b>>}

(* Catalogs that are read without change: one in order and one that is not,*)
(* as it comes from siblings a and a.b of which a is a directory.          *)
SiblingPrefix == FileOf(<< Root, <<Slash, a>>, <<Slash, a, Dot, b>>,
                           <<Slash, a, Slash>>, <<Slash, a, Slash, b>> >>,
                        {<<Slash, a>>})
FailingCatalogs == {SiblingPrefix,
                    TreeCatalog({<<Slash, a>>, <<Slash, a, Slash, a>>,
                                 <<Slash, a, Slash, b>>}, {<<Slash, a>>})}
MCFailingCatalogs == FailingCatalogs

(* A buffer that was not filled holds no number and no path, or still the  *)
(* line that was read before.                                              *)
UnreadEntries == {NoEntry, Entries(Tree1)[4]}
MCGarbage == UnreadEntries
=============================================================================
