---------------------------- MODULE CatalogEntry ----------------------------
(***************************************************************************)
(* One line of a catalog, as generate_catalog.c prints and pads it and as  *)
(* catalogfs.c parses it.  The nine numeric columns (permission bits,      *)
(* links, owner, group, size, three times) are printed and scanned with    *)
(* matching conversions; together they are one attribute value.  The type  *)
(* letter, the depth column and the text between the \1 separators are     *)
(* kept, because the search, the padding and the link split depend on them.*)
(***************************************************************************)
EXTENDS CatalogPath

CONSTANTS
    Attrs,      \* values of the numeric columns
    AttrWidth   \* how many bytes of a line an attribute value takes

ASSUME AttrAssumption == AttrWidth \in [Attrs -> Nat]

Sep     == 1    \* '\1' ends the path and pads the line
LinkSep == 2    \* '\2' separates a link's path from its destination

(* st_mode's type bits, and the letter each is printed as.  Any other bit  *)
(* pattern (DOOR) is printed, and so read back, as a regular file.         *)
TypeLetter == [DIR |-> "d", LNK |-> "l", REG |-> "f", BLK |-> "b",
               CHR |-> "c", FIFO |-> "p", SOCK |-> "s", DOOR |-> "f"]
FileType == DOMAIN TypeLetter
LetterType == [d |-> "DIR", l |-> "LNK", f |-> "REG", b |-> "BLK",
               c |-> "CHR", p |-> "FIFO", s |-> "SOCK"]
Letter == DOMAIN LetterType

Line == [c : Letter, attr : Attrs, depth : Int, text : Seq(Byte)]

(* The line for a node at path, which is relative to the input directory.  *)
print_without_link(path, node) ==   \* faulty: no link destination
    [c |-> TypeLetter[node.type], attr |-> node.attr,
     depth |-> findDepth(path), text |-> Append(path, Sep)]
print_entry_to_catalog(path, node) ==
    LET c    == TypeLetter[node.type]
        name == IF c = "l" THEN path \o <<LinkSep>> \o node.dest ELSE path
    IN  [c |-> c, attr |-> node.attr, depth |-> findDepth(path),
         text |-> Append(name, Sep)]

(* The part of text before the first sep.                                  *)
UpTo(text, sep) ==
    LET hits == {i \in DOMAIN text : text[i] = sep}
    IN  IF hits = {} THEN text ELSE SubSeq(text, 1, Min(hits) - 1)

(* What the sscanf, the type switch and the link split make of a line.     *)
(* junk stands for link_dest, which stays uninitialised when a link's line *)
(* has no '\2'.                                                            *)
ParseEntry(line, junk) ==
    LET raw    == UpTo(line.text, Sep)
        isLink == line.c = "l"
        path   == IF isLink THEN UpTo(raw, LinkSep) ELSE raw
    IN  [depth |-> line.depth,
         path  |-> path,
         st    |-> [type |-> LetterType[line.c], attr |-> line.attr],
         link  |-> IF ~isLink THEN <<>>
                   ELSE IF path = raw THEN junk
                   ELSE SubSeq(raw, Len(path) + 2, Len(raw))]

(* The length of a printed line, its newline included.                     *)
Digits(n) == IF n < 0 THEN 2 ELSE IF n = 0 THEN 1
             ELSE Cardinality({k \in 0..n : 10^k <= n})
LineLen(line) == AttrWidth[line.attr] + Digits(line.depth) + Len(line.text)

(* Every line filled up with '\1' to the length of the longest one.        *)
pad_each_line(lines) ==
    LET max_len == Max({LineLen(lines[i]) : i \in DOMAIN lines} \cup {0})
        Pad(l)  == [k \in 1..(max_len - LineLen(l)) |-> Sep]
    IN  [i \in DOMAIN lines |->
            [lines[i] EXCEPT !.text = @ \o Pad(lines[i])]]
=============================================================================
