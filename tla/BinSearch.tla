------------------------------ MODULE BinSearch ------------------------------
(***************************************************************************)
(* The four-loop search of catalogfs.c: find_index looks for any line with *)
(* the depth of the searched path, find_lowest_index and find_highest_index*)
(* widen that line to the run of equal depth, and the last loop bisects    *)
(* the run by strcmp.  The search reads the file once per iteration, so it *)
(* is a state machine whose step is one probe: the operators below take    *)
(* the search from the answer of one probe to the location of the next.    *)
(***************************************************************************)
EXTENDS CatalogPath

CONSTANT catalog_len    \* CATALOGFS_CATALOG_LEN, fixed when mounted

ASSUME CatalogLenAssumption == catalog_len \in Nat \ {0}

(* phase is the loop that waits for the line at Target; idx is the local   *)
(* ..._index_with_same_depth of the two widening loops.                    *)
Search == [phase : {"index", "lowest", "highest", "bisect", "done"},
           path : Path, low : Int, high : Int, mid : Int, idx : Int,
           result : Int]

NoSearch == [phase |-> "done", path |-> <<>>, low |-> 0, high |-> 0,
             mid |-> 0, idx |-> 0, result |-> -1]

calculateMid(low, high) == low + (high - low) \div 2

(* The location the search reads next.                                     *)
Target(s) == IF s.phase \in {"index", "bisect"} THEN s.mid ELSE s.idx

(* return result; -1 is "not in the catalog", and also every failed read.  *)
Finish(s, result) == [s EXCEPT !.phase = "done", !.result = result]

(* The head of a bisecting loop: while(low<=high){ mid=calculateMid() ...  *)
HalveOpen(s, phase) ==      \* faulty: while(low<high)
    IF s.low < s.high
    THEN [s EXCEPT !.phase = phase, !.mid = calculateMid(s.low, s.high)]
    ELSE Finish(s, -1)
Halve(s, phase) ==
    IF s.low <= s.high
    THEN [s EXCEPT !.phase = phase, !.mid = calculateMid(s.low, s.high)]
    ELSE Finish(s, -1)

binSearch(searchPath) ==
    LET s == [NoSearch EXCEPT !.path = searchPath, !.low = 0,
                              !.high = catalog_len - 1]
    IN  IF findDepth(searchPath) <= 0 THEN Finish(s, -1) ELSE Halve(s, "index")

(* find_highest_index, from the line above idx onwards.                    *)
RaiseHighPastEnd(s) ==      \* faulty: high+1 is still read
    IF s.idx > s.high
    THEN Halve([s EXCEPT !.high = s.idx - 1], "bisect")
    ELSE [s EXCEPT !.phase = "highest", !.idx = s.idx + 1]
RaiseHighFromStart(s) ==    \* faulty: find_lowest_index's result is dropped
    IF s.idx + 1 > s.high
    THEN Halve([s EXCEPT !.low = 0, !.high = s.idx], "bisect")
    ELSE [s EXCEPT !.phase = "highest", !.idx = s.idx + 1]
RaiseHigh(s) ==
    IF s.idx + 1 > s.high
    THEN Halve([s EXCEPT !.high = s.idx], "bisect")
    ELSE [s EXCEPT !.phase = "highest", !.idx = s.idx + 1]

(* find_lowest_index, from the line below idx onwards.  When it is done    *)
(* find_highest_index starts again at mid.                                 *)
LowerLow(s) ==
    IF s.idx - 1 < s.low
    THEN RaiseHigh([s EXCEPT !.low = s.idx, !.idx = s.mid])
    ELSE [s EXCEPT !.phase = "lowest", !.idx = s.idx - 1]

find_index(s, entry) ==
    LET d == findDepth(s.path)
    IN  IF entry.depth = d THEN LowerLow([s EXCEPT !.idx = s.mid])
        ELSE IF entry.depth < d
             THEN Halve([s EXCEPT !.low = s.mid + 1], "index")
             ELSE Halve([s EXCEPT !.high = s.mid - 1], "index")

find_lowest_index(s, entry) ==
    IF entry.depth = findDepth(s.path) THEN LowerLow(s)
    ELSE RaiseHigh([s EXCEPT !.low = s.idx + 1, !.idx = s.mid])

find_highest_index(s, entry) ==
    IF entry.depth = findDepth(s.path) THEN RaiseHigh(s)
    ELSE Halve([s EXCEPT !.high = s.idx - 1], "bisect")

bisect_keeping_mid(s, entry) ==     \* faulty: low=mid
    LET comp_result == strcmp(entry.path, s.path)
    IN  IF comp_result = 0 THEN Finish(s, s.mid)
        ELSE IF comp_result < 0
             THEN Halve([s EXCEPT !.low = s.mid], "bisect")
             ELSE Halve([s EXCEPT !.high = s.mid - 1], "bisect")
bisect(s, entry) ==
    LET comp_result == strcmp(entry.path, s.path)
    IN  IF comp_result = 0 THEN Finish(s, s.mid)
        ELSE IF comp_result < 0
             THEN Halve([s EXCEPT !.low = s.mid + 1], "bisect")
             ELSE Halve([s EXCEPT !.high = s.mid - 1], "bisect")

(* One probe's answer given to the loop that asked for it.                 *)
SearchStep(s, entry) ==
    CASE s.phase = "index"   -> find_index(s, entry)
      [] s.phase = "lowest"  -> find_lowest_index(s, entry)
      [] s.phase = "highest" -> find_highest_index(s, entry)
      [] s.phase = "bisect"  -> bisect(s, entry)
-----------------------------------------------------------------------------
(* Every probe of the search, whatever the lines say, is a line of the     *)
(* catalog: the index arithmetic of the four loops stays in the window and *)
(* the window inside 0..catalog_len-1.                                     *)
SearchInRange(s) ==
    /\ s.phase # "done" => 0 <= s.low /\ s.high < catalog_len
    /\ s.phase \in {"index", "bisect"} => s.low <= s.mid /\ s.mid <= s.high
    /\ s.phase = "lowest" =>
            s.low <= s.idx /\ s.idx < s.mid /\ s.mid <= s.high
    /\ s.phase = "highest" =>
            s.low <= s.mid /\ s.mid < s.idx /\ s.idx <= s.high
    /\ s.phase = "done" => s.result \in -1..(catalog_len - 1)

(* The probes that are still to come at most; it falls with every probe.   *)
ProbesLeft(s) ==
    LET window == s.high - s.low + 1
    IN  IF s.phase = "index" THEN 3 * window
        ELSE IF s.phase = "lowest" THEN (s.idx - s.low + 1) + 2 * window
        ELSE IF s.phase = "highest" THEN (s.high - s.idx + 1) + window
        ELSE IF s.phase = "bisect" THEN window
        ELSE 0
=============================================================================
