---------------------------- MODULE CatalogMount ----------------------------
(***************************************************************************)
(* catalogfsmount, the script that checks a catalog and starts the daemon, *)
(* with bytecount, which it calls, and the checks of the daemon's main.    *)
(* The script looks at the file three times (the line lengths, the number  *)
(* of lines, the size) and the file belongs to the user.  The numbers it   *)
(* exports are the entry_size and catalog_len the daemon keeps for good.   *)
(***************************************************************************)
EXTENDS Integers, Sequences, FiniteSets, SequencesExt

CONSTANTS
    Files,      \* what the catalog file may be
    MinLens     \* what the environment may give for the variable minlen

Unset == -1     \* a shell variable without a value, a command without output

(* lens are the lengths of the lines as getline gives them, a newline      *)
(* included; ends says whether the last line has one.                      *)
File == [present : BOOLEAN, writable : BOOLEAN, lens : Seq(Nat \ {0}),
         ends : BOOLEAN]

ASSUME MountAssumption ==
    /\ Files \subseteq File
    /\ MinLens \subseteq Nat \cup {Unset}

VARIABLES
    file,           \* the catalog file
    changed,        \* it was changed since the script started
    fuse,           \* the fuse module is loaded, or root can load it
    minlen,         \* never assigned by the script
    pc, entry_size, catalog_len, file_size

vars == <<file, changed, fuse, minlen, pc, entry_size, catalog_len, file_size>>

Ended == {"mounted", "refused"}

TypeOK ==
    /\ file \in Files
    /\ changed \in BOOLEAN /\ fuse \in BOOLEAN
    /\ minlen \in MinLens
    /\ pc \in {"fuse", "bytecount", "entry_size", "catalog_len", "file_size",
               "size_check", "main"} \cup Ended
    /\ entry_size \in Nat
    /\ catalog_len \in Nat \cup {Unset}
    /\ file_size \in Nat \cup {Unset}
-----------------------------------------------------------------------------
(* The different numbers bytecount prints.  It opens the file for writing  *)
(* too, and prints none if it cannot.                                      *)
bytecount(f) == IF f.present /\ f.writable THEN Range(f.lens) ELSE {}

(* wc -l counts newlines.                                                  *)
wc(f) == IF ~f.present THEN Unset
         ELSE IF f.lens = <<>> \/ f.ends THEN Len(f.lens)
         ELSE Len(f.lens) - 1

(* ls -l gives the number of bytes, those of the lines together.           *)
Size(f) ==
    LET sum[i \in 0..Len(f.lens)] == IF i = 0 THEN 0 ELSE sum[i - 1] + f.lens[i]
    IN  IF f.present THEN sum[Len(f.lens)] ELSE Unset

(* expr without a number for minlen sees "+ 1", which is the string 1.     *)
exprMinlenAsIs == minlen    \* faulty: the newline is not counted
exprMinlen == IF minlen = Unset THEN 1 ELSE minlen + 1

(* [ $file_size != $expected_file_size ]: without an operand test reports  *)
(* an error, which counts as false; without both it sees the one string != *)
(* and is true.                                                            *)
DiffersOnlyAbove(size, expected) ==     \* faulty: -gt in place of !=
    size # Unset /\ expected # Unset /\ size > expected
Differs(size, expected) ==
    \/ size = Unset /\ expected = Unset
    \/ size # Unset /\ expected # Unset /\ size # expected

expected_file_size ==
    IF catalog_len = Unset THEN Unset ELSE catalog_len * entry_size
-----------------------------------------------------------------------------
Goto(from, to) ==
    /\ pc = from
    /\ pc' = to
    /\ UNCHANGED <<file, changed, fuse, minlen>>

CheckFuse ==
    /\ Goto("fuse", IF fuse THEN "bytecount" ELSE "refused")
    /\ UNCHANGED <<entry_size, catalog_len, file_size>>

CheckLines ==
    /\ Goto("bytecount", IF Cardinality(bytecount(file)) = 1 THEN "entry_size"
                         ELSE "refused")
    /\ UNCHANGED <<entry_size, catalog_len, file_size>>

SetEntrySize ==
    /\ Goto("entry_size", "catalog_len")
    /\ entry_size' = exprMinlen
    /\ UNCHANGED <<catalog_len, file_size>>

SetCatalogLen ==
    /\ Goto("catalog_len", "file_size")
    /\ catalog_len' = wc(file)
    /\ UNCHANGED <<entry_size, file_size>>

SetFileSize ==
    /\ Goto("file_size", "size_check")
    /\ file_size' = Size(file)
    /\ UNCHANGED <<entry_size, catalog_len>>

CheckSize ==
    /\ Goto("size_check", IF Differs(file_size, expected_file_size)
                          THEN "refused" ELSE "main")
    /\ UNCHANGED <<entry_size, catalog_len, file_size>>

(* main of catalogfs.c, which reads the numbers with atoi and atol and has *)
(* no look at the file.                                                    *)
Main ==
    /\ Goto("main", IF entry_size < 13 \/ catalog_len <= 0 THEN "refused"
                    ELSE "mounted")
    /\ UNCHANGED <<entry_size, catalog_len, file_size>>

ChangeFile ==
    /\ pc \notin Ended
    /\ file' \in Files \ {file}
    /\ changed' = TRUE
    /\ UNCHANGED <<fuse, minlen, pc, entry_size, catalog_len, file_size>>

Stopped == pc \in Ended /\ UNCHANGED vars
-----------------------------------------------------------------------------
Init ==
    /\ file \in Files
    /\ changed = FALSE
    /\ fuse \in BOOLEAN
    /\ minlen \in MinLens
    /\ pc = "fuse"
    /\ entry_size = 0 /\ catalog_len = 0 /\ file_size = 0

Script == \/ CheckFuse \/ CheckLines \/ SetEntrySize \/ SetCatalogLen
          \/ SetFileSize \/ CheckSize \/ Main

Next == Script \/ ChangeFile \/ Stopped

Spec == Init /\ [][Next]_vars /\ WF_vars(Script)
-----------------------------------------------------------------------------
(* A catalog as generate_catalog leaves it: lines of one length, which is  *)
(* one that main accepts.                                                  *)
ProperFile(f) ==
    /\ f.present /\ f.writable /\ f.ends /\ f.lens # <<>>
    /\ Range(f.lens) = {f.lens[1]}
    /\ f.lens[1] >= 13

(* The three looks at the file together are enough: what is mounted, if it *)
(* was left alone, has catalog_len lines of entry_size bytes each, as      *)
(* getEntry_from_catalog takes for granted.                                *)
MountFitsFile ==
    pc = "mounted" /\ ~changed /\ file.ends =>
        /\ ProperFile(file)
        /\ file.lens[1] = entry_size
        /\ Len(file.lens) = catalog_len

(* With minlen in the environment, no catalog of that width is turned away *)
(* unless it was changed or there is no fuse.                              *)
MountsGivenMinlen ==
    pc = "fuse" /\ fuse /\ ProperFile(file) /\ minlen = file.lens[1] - 1
        ~> pc = "mounted" \/ changed
=============================================================================
