------------------------------ MODULE FuseDir ------------------------------
(***************************************************************************)
(* Listing a directory: the READDIR of the kernel (fuse_readdir and        *)
(* parse_dirfile of kernel/dir.c) against the handle that lib/fuse.c keeps *)
(* for an open directory (fuse_lib_opendir, fuse_lib_readdir, fill_dir).   *)
(*                                                                         *)
(* A file system fills a listing in one of two ways.  With offset zero the *)
(* handle holds the whole listing, and READDIR answers a range of bytes of *)
(* it; with offsets of its own it is asked again for each READDIR and      *)
(* fills one buffer.  Calls on a handle come one at a time (the kernel     *)
(* holds i_mutex, the handler dh->lock), but the directory changes between *)
(* them.                                                                   *)
(*                                                                         *)
(* Records have a length in units, a page holds PageSize of them.          *)
(***************************************************************************)
EXTENDS Integers, Sequences, FiniteSets, SequencesExt

CONSTANTS
    Slots,       \* the places of the directory: numbers from 1 up
    Length,      \* the length of the record of the name in each place
    PageSize,    \* the units that one READDIR asks for
    MaxChanges,  \* bound: changes of the directory
    MaxDirFaults \* bound: READDIRs that fail

ASSUME DirAssumption ==
    /\ Slots \subseteq Nat \ {0} /\ IsFiniteSet(Slots)
    /\ PageSize \in Nat \ {0}
    /\ \A s \in Slots : Length[s] \in 1..PageSize

VARIABLES
    names,     \* the places that hold a name now
    offsets,   \* the file system passes offsets of its own to the filler
    dh,        \* the handle: its records and whether they are the listing
    fpos,      \* the position of the open directory in the kernel
    got,       \* what the pass has returned: places and positions after them
    pass,      \* since the pass began: names always there, names ever there
    ended,     \* the last READDIR was empty
    reSeeked,  \* the user went back after the end of the listing
    changes,   \* changes of the directory so far
    dirFaults  \* failed READDIRs so far

dirVars == <<names, offsets, dh, fpos, got, pass, ended, reSeeked, changes,
             dirFaults>>

(***************************************************************************)
(* Records: the place of a name, and the position after it.                *)
(***************************************************************************)
\* Where the records of a list of places end, one after the other.
Ends(list) ==
    LET end[i \in 0..Len(list)] ==
            IF i = 0 THEN 0 ELSE end[i - 1] + Length[list[i]]
    IN  end

\* The names, in the order of their places, that the file system lists.
Listed(off) ==
    LET rest == {s \in names : s > off}
    IN  CHOOSE l \in [1..Cardinality(rest) -> rest] :
            \A i, j \in DOMAIN l : i < j => l[i] < l[j]

\* The whole listing; the position after a record is its end in the contents.
FillWhole ==
    LET l == Listed(0)
    IN  [i \in 1..Len(l) |-> [slot |-> l[i], off |-> Ends(l)[i]]]

\* As many records as one buffer holds, with the offsets of the file system.
FillPage(off) ==
    LET l == Listed(off)
        fits == {n \in 0..Len(l) : Ends(l)[n] =< PageSize}
        most == CHOOSE n \in fits : \A m \in fits : m =< n
    IN  [i \in 1..most |-> [slot |-> l[i], off |-> l[i]]]

\* Mutant: a filler that is called with an offset leaves filled set.
fill_dir_Filled(h, off) ==
    [h EXCEPT !.recs = IF offsets THEN FillPage(off) ELSE FillWhole, !.filled = TRUE]

(***************************************************************************)
(* fill_dir under readdir_fill: the handle after the file system's readdir *)
(* came back without error.  A filler called with an offset clears filled. *)
(***************************************************************************)
fill_dir(h, off) ==
    LET recs == IF offsets THEN FillPage(off) ELSE FillWhole
    IN  [h EXCEPT !.recs = recs, !.filled = ~offsets \/ recs = <<>>]

\* A failure, of the file system or of extend_contents, drops the listing.
readdir_fails(h) == [h EXCEPT !.recs = <<>>, !.filled = FALSE]

\* The handle when fuse_lib_readdir starts: going to the start refreshes it.
Begun(h, off) == IF off = 0 THEN [h EXCEPT !.filled = FALSE] ELSE h

(***************************************************************************)
(* What READDIR answers: of a whole listing the bytes from off, of which   *)
(* the kernel uses the records that are complete; else the buffer.         *)
(***************************************************************************)
ReplyRecs(h, off) ==
    IF h.filled
    THEN LET end == Ends([i \in DOMAIN h.recs |-> h.recs[i].slot])
             sent == {i \in DOMAIN h.recs : off =< end[i - 1] /\ end[i] =< off + PageSize}
         IN  IF sent = {} THEN <<>> ELSE SubSeq(h.recs, Min(sent), Max(sent))
    ELSE h.recs

fuse_lib_opendir == [open |-> TRUE, filled |-> FALSE, recs |-> <<>>]
NoHandle == [open |-> FALSE, filled |-> FALSE, recs |-> <<>>]

\* parse_dirfile: n records fit the user's buffer; the position follows.
parse_dirfile(recs, n) ==
    /\ got' = got \o [i \in 1..n |-> [slot |-> recs[i].slot, off |-> recs[i].off]]
    /\ fpos' = IF n = 0 THEN fpos ELSE recs[n].off
    /\ ended' = (recs = <<>>)

(***************************************************************************)
(* The steps.                                                              *)
(***************************************************************************)
Restart ==
    /\ fpos' = 0 /\ got' = <<>> /\ ended' = FALSE /\ reSeeked' = FALSE
    /\ pass' = [always |-> names, ever |-> names]

fuse_dir_open ==
    /\ ~dh.open
    /\ dh' = fuse_lib_opendir
    /\ Restart
    /\ UNCHANGED <<names, offsets, changes, dirFaults>>

fuse_lib_releasedir ==
    /\ dh.open
    /\ dh' = NoHandle
    /\ Restart
    /\ UNCHANGED <<names, offsets, changes, dirFaults>>

fuse_readdir ==
    /\ dh.open
    /\ LET h == Begun(dh, fpos)
           g == IF h.filled THEN h ELSE fill_dir(h, fpos)
           recs == ReplyRecs(g, fpos)
       IN  /\ dh' = g
           /\ \E n \in 0..Len(recs) : /\ n = 0 => recs = <<>>
                                      /\ parse_dirfile(recs, n)
    /\ UNCHANGED <<names, offsets, pass, reSeeked, changes, dirFaults>>

fuse_readdir_fails ==
    /\ dh.open /\ dirFaults < MaxDirFaults
    /\ LET h == Begun(dh, fpos)
       IN  /\ ~h.filled
           /\ dh' = readdir_fails(h)
    /\ dirFaults' = dirFaults + 1
    /\ ended' = FALSE
    /\ UNCHANGED <<names, offsets, fpos, got, pass, reSeeked, changes>>

Rewind ==
    /\ dh.open /\ Restart
    /\ UNCHANGED <<names, offsets, dh, changes, dirFaults>>

\* seekdir to a position that telldir gave in this pass.
SeekBack ==
    /\ dh.open
    /\ \E i \in 1..Len(got) : /\ fpos' = got[i].off
                              /\ got' = SubSeq(got, 1, i)
    /\ reSeeked' = (reSeeked \/ ended)
    /\ ended' = FALSE
    /\ UNCHANGED <<names, offsets, dh, pass, changes, dirFaults>>

\* Others add a name to the directory or remove one.
Change(s) ==
    /\ changes < MaxChanges
    /\ changes' = changes + 1
    /\ names' = IF s \in names THEN names \ {s} ELSE names \cup {s}
    /\ pass' = [always |-> pass.always \cap names', ever |-> pass.ever \cup names']
    /\ UNCHANGED <<offsets, dh, fpos, got, ended, reSeeked, dirFaults>>

DirInit ==
    /\ names \in SUBSET Slots
    /\ offsets \in BOOLEAN
    /\ dh = NoHandle /\ fpos = 0 /\ got = <<>>
    /\ pass = [always |-> names, ever |-> names]
    /\ ended = FALSE /\ reSeeked = FALSE /\ changes = 0 /\ dirFaults = 0

DirNext ==
    \/ fuse_dir_open \/ fuse_lib_releasedir
    \/ fuse_readdir \/ fuse_readdir_fails
    \/ Rewind \/ SeekBack
    \/ \E s \in Slots : Change(s)

(***************************************************************************)
(* ListingComplete: a pass over a directory, with buffers of any size,     *)
(* failed READDIRs and seeks in between, returns no name twice and none    *)
(* that was not there during the pass, and at its end it has returned      *)
(* every name that was there throughout.  Excepted is a seek back after    *)
(* the end of a listing with offsets of the file system: the handle is     *)
(* then filled with nothing, and answers the end again.                    *)
(***************************************************************************)
ListingComplete ==
    LET slots == {got[i].slot : i \in DOMAIN got}
    IN  /\ Cardinality(slots) = Len(got)
        /\ slots \subseteq pass.ever
        /\ ended /\ ~(offsets /\ reSeeked) => pass.always \subseteq slots
====
