---------------------------- MODULE CatalogPath ----------------------------
(***************************************************************************)
(* Path strings as the catalog programs see them.  A path is a C string:   *)
(* a sequence of byte codes without the terminating NUL.  The bytes are    *)
(* kept because the order in which catalogfs.c searches is the byte order  *)
(* of strcmp, in which '/' (47) is a byte like any other: '.' and '-' are  *)
(* below it, letters and digits above.                                     *)
(***************************************************************************)
EXTENDS Integers, Sequences, FiniteSets, SequencesExt

Byte == 1..255
Path == Seq(Byte)

Slash == 47
Dot   == 46

Root == <<Slash>>

(* s is smaller than t: at the first position where they differ s has      *)
(* ended, or has the smaller byte.                                         *)
StrLess(s, t) ==
    \E k \in 0..Len(s) :
        /\ k < Len(t)
        /\ \A j \in 1..k : s[j] = t[j]
        /\ k = Len(s) \/ s[k + 1] < t[k + 1]

(* The sign of strcmp, which is all the callers look at.                   *)
strcmp(s, t) == IF s = t THEN 0 ELSE IF StrLess(s, t) THEN -1 ELSE 1

(* The number of slashes of an absolute path, -1 for any other string.     *)
findDepth(path) ==
    IF path = <<>> \/ path[1] # Slash
    THEN -1
    ELSE Cardinality({i \in DOMAIN path : path[i] = Slash})

(* GNU basename: what follows the last slash.                              *)
basename(path) ==
    LET slashes == {i \in DOMAIN path : path[i] = Slash}
    IN  IF slashes = {} THEN path
        ELSE SubSeq(path, 1 + Max(slashes), Len(path))

(* The path under which a directory's own line is found in the catalog:    *)
(* catalog_readdir appends a slash to every path but "/".                  *)
DirPath(path) == IF path = Root THEN path ELSE Append(path, Slash)
=============================================================================
