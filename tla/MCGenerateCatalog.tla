-------------------------- MODULE MCGenerateCatalog --------------------------
(***************************************************************************)
(* Small trees for the generator, and the daemon's search run over the     *)
(* catalog that comes out.                                                 *)
(***************************************************************************)
EXTENDS GenerateCatalog, BinSearch

a == 97
b == 98

MCAttrs     == {1, 2, 3}
MCAttrWidth == (1 :> 2 @@ 2 :> 3 @@ 3 :> 5)
MCGarbageNodes == {[type |-> "LNK", attr |-> 3, dest |-> <<b>>],
                   [type |-> "DIR", attr |-> 3, dest |-> <<>>]}

DirNode == [type |-> "DIR", attr |-> 1, dest |-> <<>>]

(* Every tree with the given paths or some of them in which the last node  *)
(* of a path may be anything of nodes.                                     *)
TreesOver(universe, nodes) ==
    {f \in UNION {[{<<>>} \cup s -> nodes] : s \in SUBSET universe} : IsTree(f)}

Leaves == { [type |-> "REG",  attr |-> 2, dest |-> <<>>],
            [type |-> "LNK",  attr |-> 3, dest |-> <<a, Slash, b>>],
            [type |-> "DOOR", attr |-> 1, dest |-> <<>>] }

(* a, a.b and b in the root, and what may be below a and in a.b.           *)
SiblingPaths == { <<Slash, a>>, <<Slash, a, Dot, b>>, <<Slash, b>>,
                  <<Slash, a, Slash, a>>, <<Slash, a, Dot, b, Slash, b>>,
                  <<Slash, a, Slash, a, Slash, b>> }
QuietTrees == TreesOver(SiblingPaths, {DirNode} \cup Leaves)
MCQuietTrees == QuietTrees

EditedPaths == { <<Slash, a>>, <<Slash, b>>, <<Slash, b, Slash, a>> }
EditedTrees == TreesOver(EditedPaths, {DirNode, [DirNode EXCEPT !.type = "REG"]})
MCEditedTrees == EditedTrees

(* The trees are of the kind that GeneratorProofs speaks of.               *)
ASSUME PlainTrees == PlainNames /\ PlainLinks

MCOldCatalogs == {NoFile,
    [present |-> TRUE,
     lines |-> <<print_entry_to_catalog(<<Slash, b, Slash>>, DirNode),
                 print_entry_to_catalog(Root, DirNode)>>]}

(* The search of catalogfs.c run to its end on the finished catalog.       *)
RECURSIVE RunSearch(_)
RunSearch(s) ==
    IF s.phase = "done" THEN s.result
    ELSE RunSearch(SearchStep(s, ParseEntry(catalog.lines[Target(s) + 1], <<>>)))

(* "return's location of the 'searchPath' input" (catalogfs.c:569): in the *)
(* finished catalog, mounted with its length, binSearch finds every line.  *)
EveryPathFound ==
    pc = "done" /\ Len(catalog.lines) = catalog_len =>
        \A k \in DOMAIN catalog.lines : RunSearch(binSearch(LinePath(k))) = k - 1

(* binSearch finds every line of a catalog without low siblings.           *)
FoundUnlessLowSibling ==
    (\E d, p \in DOMAIN fs \ {<<>>} : LowSibling(d, p)) \/ EveryPathFound
=============================================================================
