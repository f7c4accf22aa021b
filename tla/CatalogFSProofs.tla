--------------------------- MODULE CatalogFSProofs ---------------------------
(***************************************************************************)
(* Theorems about the daemon and its search, for any number of threads,    *)
(* any catalog contents and any moment of replacement.                     *)
(***************************************************************************)
EXTENDS CatalogFS, CatalogPathProofs, FiniteSetTheorems, TLAPS

(***************************************************************************)
(* The search of catalogfs.c stays inside the catalog and comes to an end, *)
(* for every catalog length and whatever lines the probes return.          *)
(***************************************************************************)
(* The middle of a window is in the window.                                *)
LEMMA MidInWindow ==
    ASSUME NEW low \in Int, NEW high \in Int, low <= high
    PROVE  /\ calculateMid(low, high) \in Int
           /\ low <= calculateMid(low, high)
           /\ calculateMid(low, high) <= high
BY DEF calculateMid

(* The depth of a path is a number.                                        *)
LEMMA DepthType ==
    ASSUME NEW path \in Path
    PROVE  findDepth(path) \in Int
<1>1. {i \in DOMAIN path : path[i] = Slash} \subseteq 1..Len(path)
    BY DEF Path
<1>2. Len(path) \in Nat
    BY DEF Path
<1>3. IsFiniteSet({i \in DOMAIN path : path[i] = Slash})
    BY <1>1, <1>2, FS_Interval, FS_Subset
<1>. QED  BY <1>3, FS_CardinalityType DEF findDepth

(* The measure of a search is a number.                                    *)
LEMMA ProbesLeftType ==
    ASSUME NEW s \in Search
    PROVE  ProbesLeft(s) \in Int
<1>. s.low \in Int /\ s.high \in Int /\ s.idx \in Int
    BY DEF Search
<1>. QED  BY DEF ProbesLeft

(* A search that is still on has a probe to come.                          *)
LEMMA ProbesLeftPositive ==
    ASSUME NEW s \in Search, SearchInRange(s), s.phase # "done"
    PROVE  ProbesLeft(s) \in Int /\ ProbesLeft(s) > 0
<1>. s.low \in Int /\ s.high \in Int /\ s.idx \in Int /\ s.mid \in Int
    BY DEF Search
<1>. QED  BY DEF ProbesLeft, SearchInRange, Search

(* What a step must leave behind, when at most n probes may be left.       *)
Lands(s, n) == s \in Search /\ SearchInRange(s) /\ ProbesLeft(s) <= n

(* A search that returns lands.                                            *)
LEMMA FinishLands ==
    ASSUME NEW s \in Search, NEW r \in -1..(catalog_len - 1), NEW n \in Nat
    PROVE  Lands(Finish(s, r), n)
<1>. r \in Int
    BY CatalogLenAssumption
<1>1. Finish(s, r) \in Search
    BY DEF Finish, Search
<1>2. Finish(s, r).phase = "done" /\ Finish(s, r).result = r
    BY DEF Finish, Search
<1>3. SearchInRange(Finish(s, r))
    BY <1>2 DEF SearchInRange
<1>4. ProbesLeft(Finish(s, r)) = 0
    BY <1>2 DEF ProbesLeft
<1>. QED  BY <1>1, <1>3, <1>4 DEF Lands

(* The two bisecting loops start on a window inside the catalog.           *)
LEMMA HalveLands ==
    ASSUME NEW s \in Search, 0 <= s.low, s.high < catalog_len,
           NEW phase \in {"index", "bisect"}, NEW n \in Nat,
           phase = "index" => 3 * (s.high - s.low + 1) <= n,
           phase = "bisect" => s.high - s.low + 1 <= n
    PROVE  Lands(Halve(s, phase), n)
<1>1. CASE s.low <= s.high
    <2>1. /\ calculateMid(s.low, s.high) \in Int
          /\ s.low <= calculateMid(s.low, s.high)
          /\ calculateMid(s.low, s.high) <= s.high
        BY <1>1, MidInWindow DEF Search
    <2>. DEFINE u == [s EXCEPT !.phase = phase,
                               !.mid = calculateMid(s.low, s.high)]
    <2>2. Halve(s, phase) = u
        BY <1>1 DEF Halve
    <2>3. /\ u \in Search /\ u.phase = phase
          /\ u.low = s.low /\ u.high = s.high
          /\ u.mid = calculateMid(s.low, s.high)
        BY <2>1 DEF Search
    <2>. HIDE DEF u
    <2>4. SearchInRange(u)
        BY <2>1, <2>3 DEF SearchInRange
    <2>5. ProbesLeft(u) <= n
        BY <2>3 DEF ProbesLeft
    <2>. QED  BY <2>2, <2>3, <2>4, <2>5 DEF Lands
<1>2. CASE ~(s.low <= s.high)
    BY <1>2, FinishLands, CatalogLenAssumption DEF Halve
<1>. QED  BY <1>1, <1>2

(* find_highest_index stays below the end of the window.                   *)
LEMMA RaiseHighLands ==
    ASSUME NEW s \in Search, 0 <= s.low, s.high < catalog_len,
           s.low <= s.mid, s.mid <= s.idx, s.idx <= s.high,
           NEW n \in Nat, (s.high - s.idx) + (s.high - s.low + 1) <= n
    PROVE  Lands(RaiseHigh(s), n)
<1>. s.low \in Int /\ s.high \in Int /\ s.mid \in Int /\ s.idx \in Int
    BY DEF Search
<1>1. CASE s.idx + 1 > s.high
    <2>. DEFINE u == [s EXCEPT !.high = s.idx]
    <2>1. u \in Search /\ u.low = s.low /\ u.high = s.idx
        BY DEF Search
    <2>2. RaiseHigh(s) = Halve(u, "bisect")
        BY <1>1 DEF RaiseHigh
    <2>. HIDE DEF u
    <2>3. 0 <= u.low /\ u.high < catalog_len /\ u.high - u.low + 1 <= n
        BY <1>1, <2>1, CatalogLenAssumption
    <2>. QED  BY <2>1, <2>2, <2>3, HalveLands
<1>2. CASE ~(s.idx + 1 > s.high)
    <2>. DEFINE k == s.idx + 1
                u == [s EXCEPT !.phase = "highest", !.idx = k]
    <2>. k \in Int
        OBVIOUS
    <2>2. RaiseHigh(s) = u
        BY <1>2 DEF RaiseHigh
    <2>. HIDE DEF k
    <2>1. /\ u \in Search /\ u.phase = "highest" /\ u.idx = k
          /\ u.low = s.low /\ u.high = s.high /\ u.mid = s.mid
        BY DEF Search
    <2>. HIDE DEF u
    <2>. USE DEF k
    <2>3. SearchInRange(u)
        BY <1>2, <2>1 DEF SearchInRange
    <2>4. ProbesLeft(u) <= n
        BY <2>1 DEF ProbesLeft
    <2>. QED  BY <2>1, <2>2, <2>3, <2>4 DEF Lands
<1>. QED  BY <1>1, <1>2

(* find_lowest_index stays above the start of the window.                  *)
LEMMA LowerLowLands ==
    ASSUME NEW s \in Search, 0 <= s.low, s.high < catalog_len,
           s.low <= s.idx, s.idx <= s.mid, s.mid <= s.high,
           NEW n \in Nat, (s.idx - s.low) + 2 * (s.high - s.low + 1) <= n
    PROVE  Lands(LowerLow(s), n)
<1>. s.low \in Int /\ s.high \in Int /\ s.mid \in Int /\ s.idx \in Int
    BY DEF Search
<1>1. CASE s.idx - 1 < s.low
    <2>. DEFINE u == [s EXCEPT !.low = s.idx, !.idx = s.mid]
    <2>1. /\ u \in Search /\ u.low = s.idx /\ u.high = s.high
          /\ u.mid = s.mid /\ u.idx = s.mid
        BY DEF Search
    <2>2. LowerLow(s) = RaiseHigh(u)
        BY <1>1 DEF LowerLow
    <2>. HIDE DEF u
    <2>3. /\ 0 <= u.low /\ u.high < catalog_len
          /\ u.low <= u.mid /\ u.mid <= u.idx /\ u.idx <= u.high
          /\ (u.high - u.idx) + (u.high - u.low + 1) <= n
        BY <1>1, <2>1, CatalogLenAssumption
    <2>. QED  BY <2>1, <2>2, <2>3, RaiseHighLands
<1>2. CASE ~(s.idx - 1 < s.low)
    <2>. DEFINE k == s.idx - 1
                u == [s EXCEPT !.phase = "lowest", !.idx = k]
    <2>. k \in Int
        OBVIOUS
    <2>2. LowerLow(s) = u
        BY <1>2 DEF LowerLow
    <2>. HIDE DEF k
    <2>1. /\ u \in Search /\ u.phase = "lowest" /\ u.idx = k
          /\ u.low = s.low /\ u.high = s.high /\ u.mid = s.mid
        BY DEF Search
    <2>. HIDE DEF u
    <2>. USE DEF k
    <2>3. SearchInRange(u)
        BY <1>2, <2>1 DEF SearchInRange
    <2>4. ProbesLeft(u) <= n
        BY <2>1 DEF ProbesLeft
    <2>. QED  BY <2>1, <2>2, <2>3, <2>4 DEF Lands
<1>. QED  BY <1>1, <1>2

-----------------------------------------------------------------------------
(* The search of any path starts inside the catalog.                       *)
THEOREM BinSearchStarts ==
    ASSUME NEW path \in Path
    PROVE  binSearch(path) \in Search /\ SearchInRange(binSearch(path))
<1>. DEFINE first == 0
            last == catalog_len - 1
            s == [NoSearch EXCEPT !.path = path, !.low = first, !.high = last]
            n == 3 * catalog_len
<1>. first \in Int /\ last \in Int
    BY CatalogLenAssumption
<1>1. n \in Nat
    BY CatalogLenAssumption
<1>2. <<>> \in Path
    BY DEF Path
<1>3. NoSearch \in Search
    BY <1>2 DEF NoSearch, Search
<1>5. binSearch(path) = IF findDepth(path) <= 0 THEN Finish(s, -1)
                        ELSE Halve(s, "index")
    BY DEF binSearch
<1>. HIDE DEF first, last
<1>4. s \in Search /\ s.low = first /\ s.high = last
    BY <1>3 DEF Search
<1>. HIDE DEF s
<1>. USE DEF first, last
<1>6. Lands(Finish(s, -1), n)
    BY <1>1, <1>4, FinishLands, CatalogLenAssumption
<1>7. Lands(Halve(s, "index"), n)
    BY <1>1, <1>4, HalveLands, CatalogLenAssumption
<1>. QED  BY <1>5, <1>6, <1>7 DEF Lands

(* Whatever line a probe returns, the next probe of the search is again    *)
(* inside the catalog, and fewer probes are left than before.              *)
THEOREM SearchStepLands ==
    ASSUME NEW s \in Search, SearchInRange(s), s.phase # "done",
           NEW entry, entry.depth \in Int
    PROVE  /\ SearchStep(s, entry) \in Search
           /\ SearchInRange(SearchStep(s, entry))
           /\ ProbesLeft(SearchStep(s, entry)) < ProbesLeft(s)
<1>. /\ s.low \in Int /\ s.high \in Int /\ s.mid \in Int /\ s.idx \in Int
     /\ s.path \in Path
    BY DEF Search
<1>. DEFINE n == ProbesLeft(s) - 1
            d == findDepth(s.path)
<1>. d \in Int
    BY DepthType
<1>1. n \in Nat
    BY DEF ProbesLeft, SearchInRange, Search
<1>2. 0 <= s.low /\ s.high < catalog_len
    BY DEF SearchInRange
<1>3. SUFFICES Lands(SearchStep(s, entry), n)
    BY <1>1, ProbesLeftType DEF Lands
<1>4. CASE s.phase = "index"
    <2>1. s.low <= s.mid /\ s.mid <= s.high /\ n = 3 * (s.high - s.low + 1) - 1
        BY <1>4 DEF SearchInRange, ProbesLeft
    <2>2. SearchStep(s, entry) = find_index(s, entry)
        BY <1>4 DEF SearchStep
    <2>. HIDE DEF n
    <2>3. CASE entry.depth = d
        <3>. DEFINE u == [s EXCEPT !.idx = s.mid]
        <3>1. /\ u \in Search /\ u.low = s.low /\ u.high = s.high
              /\ u.mid = s.mid /\ u.idx = s.mid
            BY DEF Search
        <3>2. find_index(s, entry) = LowerLow(u)
            BY <2>3 DEF find_index
        <3>. HIDE DEF u
        <3>3. (u.idx - u.low) + 2 * (u.high - u.low + 1) <= n
            BY <2>1, <3>1
        <3>. QED  BY <1>1, <1>2, <2>1, <2>2, <3>1, <3>2, <3>3, LowerLowLands
    <2>4. CASE entry.depth < d
        <3>. DEFINE m == s.mid + 1
                    u == [s EXCEPT !.low = m]
        <3>. m \in Int
            OBVIOUS
        <3>2. find_index(s, entry) = Halve(u, "index")
            BY <2>4 DEF find_index
        <3>. HIDE DEF m
        <3>1. u \in Search /\ u.low = m /\ u.high = s.high
            BY DEF Search
        <3>. HIDE DEF u
        <3>3. 0 <= u.low /\ 3 * (u.high - u.low + 1) <= n
            BY <1>2, <2>1, <3>1 DEF m
        <3>. QED  BY <1>1, <1>2, <2>2, <3>1, <3>2, <3>3, HalveLands
    <2>5. CASE entry.depth > d
        <3>. DEFINE m == s.mid - 1
                    u == [s EXCEPT !.high = m]
        <3>. m \in Int
            OBVIOUS
        <3>2. find_index(s, entry) = Halve(u, "index")
            BY <2>5 DEF find_index
        <3>. HIDE DEF m
        <3>1. u \in Search /\ u.low = s.low /\ u.high = m
            BY DEF Search
        <3>. HIDE DEF u
        <3>3. u.high < catalog_len /\ 3 * (u.high - u.low + 1) <= n
            BY <1>2, <2>1, <3>1, CatalogLenAssumption DEF m
        <3>. QED  BY <1>1, <1>2, <2>2, <3>1, <3>2, <3>3, HalveLands
    <2>. QED  BY <2>3, <2>4, <2>5
<1>5. CASE s.phase = "lowest"
    <2>1. /\ s.low <= s.idx /\ s.idx < s.mid /\ s.mid <= s.high
          /\ n = (s.idx - s.low + 1) + 2 * (s.high - s.low + 1) - 1
        BY <1>5 DEF SearchInRange, ProbesLeft
    <2>2. SearchStep(s, entry) = find_lowest_index(s, entry)
        BY <1>5 DEF SearchStep
    <2>. HIDE DEF n
    <2>3. CASE entry.depth = d
        <3>1. find_lowest_index(s, entry) = LowerLow(s)
            BY <2>3 DEF find_lowest_index
        <3>2. (s.idx - s.low) + 2 * (s.high - s.low + 1) <= n
            BY <2>1
        <3>. QED  BY <1>1, <1>2, <2>1, <2>2, <3>1, <3>2, LowerLowLands
    <2>4. CASE entry.depth # d
        <3>. DEFINE m == s.idx + 1
                    u == [s EXCEPT !.low = m, !.idx = s.mid]
        <3>. m \in Int
            OBVIOUS
        <3>2. find_lowest_index(s, entry) = RaiseHigh(u)
            BY <2>4 DEF find_lowest_index
        <3>. HIDE DEF m
        <3>1. /\ u \in Search /\ u.low = m /\ u.high = s.high
              /\ u.mid = s.mid /\ u.idx = s.mid
            BY DEF Search
        <3>. HIDE DEF u
        <3>3. /\ 0 <= u.low /\ u.low <= u.mid /\ u.mid <= u.idx /\ u.idx <= u.high
              /\ (u.high - u.idx) + (u.high - u.low + 1) <= n
            BY <1>2, <2>1, <3>1 DEF m
        <3>. QED  BY <1>1, <1>2, <2>2, <3>1, <3>2, <3>3, RaiseHighLands
    <2>. QED  BY <2>3, <2>4
<1>6. CASE s.phase = "highest"
    <2>1. /\ s.low <= s.mid /\ s.mid < s.idx /\ s.idx <= s.high
          /\ n = (s.high - s.idx + 1) + (s.high - s.low + 1) - 1
        BY <1>6 DEF SearchInRange, ProbesLeft
    <2>2. SearchStep(s, entry) = find_highest_index(s, entry)
        BY <1>6 DEF SearchStep
    <2>. HIDE DEF n
    <2>3. CASE entry.depth = d
        <3>1. find_highest_index(s, entry) = RaiseHigh(s)
            BY <2>3 DEF find_highest_index
        <3>2. (s.high - s.idx) + (s.high - s.low + 1) <= n
            BY <2>1
        <3>. QED  BY <1>1, <1>2, <2>1, <2>2, <3>1, <3>2, RaiseHighLands
    <2>4. CASE entry.depth # d
        <3>. DEFINE m == s.idx - 1
                    u == [s EXCEPT !.high = m]
        <3>. m \in Int
            OBVIOUS
        <3>2. find_highest_index(s, entry) = Halve(u, "bisect")
            BY <2>4 DEF find_highest_index
        <3>. HIDE DEF m
        <3>1. u \in Search /\ u.low = s.low /\ u.high = m
            BY DEF Search
        <3>. HIDE DEF u
        <3>3. u.high < catalog_len /\ u.high - u.low + 1 <= n
            BY <1>2, <2>1, <3>1, CatalogLenAssumption DEF m
        <3>. QED  BY <1>1, <1>2, <2>2, <3>1, <3>2, <3>3, HalveLands
    <2>. QED  BY <2>3, <2>4
<1>7. CASE s.phase = "bisect"
    <2>1. s.low <= s.mid /\ s.mid <= s.high /\ n = s.high - s.low
        BY <1>7 DEF SearchInRange, ProbesLeft
    <2>2. SearchStep(s, entry) = bisect(s, entry)
        BY <1>7 DEF SearchStep
    <2>. HIDE DEF n
    <2>3. CASE strcmp(entry.path, s.path) = 0
        <3>1. bisect(s, entry) = Finish(s, s.mid)
            BY <2>3 DEF bisect
        <3>2. s.mid \in -1..(catalog_len - 1)
            BY <1>2, <2>1, CatalogLenAssumption
        <3>. QED  BY <1>1, <2>2, <3>1, <3>2, FinishLands
    <2>4. CASE strcmp(entry.path, s.path) = -1
        <3>. DEFINE m == s.mid + 1
                    u == [s EXCEPT !.low = m]
        <3>. m \in Int
            OBVIOUS
        <3>2. bisect(s, entry) = Halve(u, "bisect")
            BY <2>4 DEF bisect
        <3>. HIDE DEF m
        <3>1. u \in Search /\ u.low = m /\ u.high = s.high
            BY DEF Search
        <3>. HIDE DEF u
        <3>3. 0 <= u.low /\ u.high - u.low + 1 <= n
            BY <1>2, <2>1, <3>1 DEF m
        <3>. QED  BY <1>1, <1>2, <2>2, <3>1, <3>2, <3>3, HalveLands
    <2>5. CASE strcmp(entry.path, s.path) = 1
        <3>. DEFINE m == s.mid - 1
                    u == [s EXCEPT !.high = m]
        <3>. m \in Int
            OBVIOUS
        <3>2. bisect(s, entry) = Halve(u, "bisect")
            BY <2>5 DEF bisect
        <3>. HIDE DEF m
        <3>1. u \in Search /\ u.low = s.low /\ u.high = m
            BY DEF Search
        <3>. HIDE DEF u
        <3>3. u.high < catalog_len /\ u.high - u.low + 1 <= n
            BY <1>2, <2>1, <3>1, CatalogLenAssumption DEF m
        <3>. QED  BY <1>1, <1>2, <2>2, <3>1, <3>2, <3>3, HalveLands
    <2>. QED  BY <2>3, <2>4, <2>5 DEF strcmp
<1>. QED  BY <1>4, <1>5, <1>6, <1>7 DEF Search

(***************************************************************************)
(* The daemon                                                              *)
(***************************************************************************)
(* The empty string and the empty listing have their types.                *)
LEMMA EmptyTypes == <<>> \in Path /\ <<>> \in Seq(Dirent)
BY DEF Path

(* A cleared struct stat is one.                                           *)
LEMMA ZeroStatType == ZeroStat \in Stat
BY DEF ZeroStat, Stat

(* The two entries every listing starts with are directory entries.        *)
LEMMA DotsType == Dots \in Seq(Dirent)
<1>. DEFINE one == [name |-> <<Dot>>, st |-> ZeroStat]
            two == [name |-> <<Dot, Dot>>, st |-> ZeroStat]
<1>1. <<Dot>> \in Path /\ <<Dot, Dot>> \in Path
    BY DEF Dot, Path, Byte
<1>2. one \in Dirent /\ two \in Dirent
    BY <1>1, ZeroStatType DEF Dirent
<1>3. Dots = <<one, two>>
    BY DEF Dots
<1>. HIDE DEF one, two
<1>. QED  BY <1>2, <1>3

(* The entry of a failed read is one.                                      *)
LEMMA NoEntryType == NoEntry \in Entry
BY EmptyTypes, ZeroStatType DEF NoEntry, Entry

(* An error number alone is an answer.                                     *)
LEMMA ErrorType ==
    ASSUME NEW ret \in Replies
    PROVE  Error(ret) \in Answer
BY EmptyTypes, ZeroStatType DEF Error, Answer

(* The search of a thread without a request is in range.                   *)
LEMMA NoSearchType == NoSearch \in Search /\ SearchInRange(NoSearch)
<1>1. NoSearch \in Search
    BY EmptyTypes DEF NoSearch, Search
<1>2. NoSearch.phase = "done" /\ NoSearch.result = -1
    BY DEF NoSearch
<1>. QED  BY <1>1, <1>2, CatalogLenAssumption DEF SearchInRange

(* The frame of a thread without a request has its type.                   *)
LEMMA IdleType == Idle \in Frame
BY EmptyTypes, ZeroStatType, ErrorType, NoSearchType DEF Idle, Frame, Replies

(* What getEntry_from_catalog makes of a line is an entry.                 *)
LEMMA ParseEntryType ==
    ASSUME NEW line \in Line, NEW junk \in Path
    PROVE  ParseEntry(line, junk) \in Entry
<1>. DEFINE raw  == UpTo(line.text, Sep)
            path == IF line.c = "l" THEN UpTo(raw, LinkSep) ELSE raw
            st   == [type |-> LetterType[line.c], attr |-> line.attr]
            rest == SubSeq(raw, Len(path) + 2, Len(raw))
            link == IF line.c # "l" THEN <<>> ELSE IF path = raw THEN junk ELSE rest
<1>1. line.text \in Path /\ line.depth \in Int /\ line.c \in Letter /\ line.attr \in Attrs
    BY DEF Line, Path
<1>2. raw \in Path
    BY <1>1, UpToType
<1>. HIDE DEF raw
<1>3. path \in Path
    BY <1>2, UpToType
<1>4. st \in Stat
    <2>1. LetterType[line.c] \in FileType
        BY <1>1 DEF LetterType, Letter, FileType, TypeLetter
    <2>. QED  BY <1>1, <2>1 DEF Stat
<1>5. rest \in Path
    <2>. DEFINE m == Len(path) + 2
    <2>1. Len(path) \in Nat /\ Len(raw) \in Nat
        BY <1>2, <1>3, PathBytes
    <2>2. m \in Int /\ 0 < m
        BY <2>1
    <2>. HIDE DEF m, path
    <2>3. \A i \in m..Len(raw) : raw[i] \in Byte
        BY <1>2, <2>1, <2>2 DEF Path
    <2>4. SubSeq(raw, m, Len(raw)) \in Path
        BY <1>2, <2>1, <2>2, <2>3, SubSeqProperties DEF Path
    <2>. QED  BY <2>4 DEF m
<1>6. link \in Path
    BY <1>5, EmptyTypes
<1>7. ParseEntry(line, junk) = [depth |-> line.depth, path |-> path, st |-> st, link |-> link]
    BY DEF ParseEntry, raw
<1>. HIDE DEF path, st, link
<1>. QED  BY <1>1, <1>3, <1>4, <1>6, <1>7 DEF Entry

(* The line a byte offset falls into has a number.                         *)
LEMMA DivNat ==
    ASSUME NEW n \in Nat, NEW d \in Nat \ {0}
    PROVE  n \div d \in Nat
OBVIOUS

(* The truncated offset is a number.                                       *)
LEMMA OffsetType ==
    ASSUME NEW location \in Int
    PROVE  Offset(location) \in Int
<1>. DEFINE a == entry_size * location + INT_MAX + 1
            b == 2 * (INT_MAX + 1)
<1>1. a \in Int /\ b \in Int /\ b > 0 /\ INT_MAX \in Int
    BY DaemonAssumption
<1>. HIDE DEF a, b
<1>2. a % b \in Int
    BY <1>1
<1>3. (a % b) - (INT_MAX + 1) \in Int
    BY <1>1, <1>2
<1>. QED  BY <1>3 DEF Offset, a, b

(* Whatever the file holds, a read gives an entry or fails.                *)
LEMMA ReadType ==
    ASSUME TypeOK, NEW location \in Int, NEW r \in getEntry_from_catalog(location)
    PROVE  r.ok \in BOOLEAN /\ r.entry \in Entry
<1>. DEFINE offset == Offset(location)
<1>1. offset \in Int
    BY OffsetType
<1>2. ASSUME 0 <= offset, NEW e \in EntriesAt(offset)
      PROVE  e \in Entry
    <2>. DEFINE k == offset \div entry_size
    <2>1. k \in Nat
        BY <1>1, <1>2, DivNat, DaemonAssumption
    <2>. HIDE DEF offset
    <2>2. CASE e \in Garbage
        BY <2>2, DaemonAssumption
    <2>3. CASE /\ k < Len(catalog_file.lines)
               /\ e \in {ParseEntry(catalog_file.lines[k + 1], junk) : junk \in Junk}
        <3>. HIDE DEF k
        <3>1. catalog_file.lines \in Seq(Line)
            BY DaemonAssumption DEF TypeOK, CatalogFile
        <3>2. catalog_file.lines[k + 1] \in Line
            BY <2>1, <2>3, <3>1
        <3>. QED  BY <2>3, <3>2, ParseEntryType, DaemonAssumption
    <2>. QED  BY <1>2, <2>2, <2>3 DEF EntriesAt
<1>3. \/ r = [ok |-> FALSE, entry |-> NoEntry]
      \/ 0 <= offset /\ \E e \in EntriesAt(offset) : r = [ok |-> TRUE, entry |-> e]
    BY <1>1 DEF getEntry_from_catalog
<1>. HIDE DEF offset
<1>4. CASE r = [ok |-> FALSE, entry |-> NoEntry]
    <2>1. r.ok = FALSE /\ r.entry = NoEntry
        BY <1>4
    <2>. QED  BY <2>1, NoEntryType
<1>5. ASSUME 0 <= offset, NEW e \in EntriesAt(offset), r = [ok |-> TRUE, entry |-> e]
      PROVE  r.ok \in BOOLEAN /\ r.entry \in Entry
    <2>1. r.ok = TRUE /\ r.entry = e
        BY <1>5
    <2>. QED  BY <1>2, <1>5, <2>1
<1>. QED  BY <1>3, <1>4, <1>5
-----------------------------------------------------------------------------
(* What is known of the stack of a thread between two reads: a search that *)
(* is still on has a next probe, and the directory scan and the listing    *)
(* stay within the window that they took over from the search.             *)
FrameOK(f) ==
    /\ f \in Frame
    /\ SearchInRange(f.search)
    /\ f.pc = "search" => f.search.phase # "done" /\ f.op \in CatalogOps
    /\ f.pc \in {"attr", "link"} => 0 <= f.i /\ f.i < catalog_len
    /\ f.pc = "contents" => 0 <= f.low /\ f.low < f.i /\ f.i < catalog_len
    /\ f.pc \in {"list_attr", "list_path"} =>
            0 <= f.low /\ f.low < f.i /\ f.i <= f.high /\ f.high < catalog_len

IInv == TypeOK /\ \A t \in Threads : FrameOK(th[t])

(* An answered request has no probe to come.                               *)
LEMMA ReplyOK ==
    ASSUME NEW f \in Frame, SearchInRange(f.search), NEW ans \in Answer
    PROVE  FrameOK(Reply(f, ans)) /\ Reply(f, ans).search = f.search
<1>. DEFINE u == Reply(f, ans)
<1>1. u \in Frame /\ u.pc = "reply" /\ u.search = f.search
    BY DEF Reply, Frame
<1>. HIDE DEF u
<1>2. FrameOK(u)
    BY <1>1 DEF FrameOK
<1>. QED  BY <1>1, <1>2 DEF u

(* A request answered with an error has no probe to come.                  *)
LEMMA FailOK ==
    ASSUME NEW f \in Frame, SearchInRange(f.search), NEW ret \in Replies
    PROVE  FrameOK(Fail(f, ret)) /\ Fail(f, ret).search = f.search
BY ReplyOK, ErrorType DEF Fail

(* The listing loop stays between low and high.                            *)
LEMMA ListNextOK ==
    ASSUME NEW f \in Frame, SearchInRange(f.search),
           0 <= f.low, f.low < f.i, f.high < catalog_len
    PROVE  FrameOK(ListNext(f)) /\ ListNext(f).search = f.search
<1>1. CASE f.i <= f.high
    <2>. DEFINE u == [f EXCEPT !.pc = "list_attr"]
    <2>1. /\ u \in Frame /\ u.pc = "list_attr" /\ u.search = f.search
          /\ u.low = f.low /\ u.i = f.i /\ u.high = f.high
        BY DEF Frame
    <2>2. ListNext(f) = u
        BY <1>1 DEF ListNext
    <2>. HIDE DEF u
    <2>3. FrameOK(u)
        BY <1>1, <2>1 DEF FrameOK
    <2>. QED  BY <2>1, <2>2, <2>3
<1>2. CASE ~(f.i <= f.high) /\ f.full
    BY <1>2, FailOK DEF ListNext, Replies
<1>3. CASE ~(f.i <= f.high) /\ ~f.full
    <2>. DEFINE ans == [Error("OK") EXCEPT !.list = f.out]
    <2>1. f.out \in Seq(Dirent)
        BY DEF Frame
    <2>2. ans \in Answer
        BY <2>1, ErrorType DEF Answer, Replies
    <2>. HIDE DEF ans
    <2>3. ListNext(f) = Reply(f, ans)
        BY <1>3 DEF ListNext, ans
    <2>. QED  BY <2>2, <2>3, ReplyOK
<1>. QED  BY <1>1, <1>2, <1>3

(* The scan of a directory stays below catalog_len.                        *)
LEMMA ContentsNextOK ==
    ASSUME NEW f \in Frame, SearchInRange(f.search),
           0 <= f.low, f.low < f.i, f.i <= catalog_len
    PROVE  FrameOK(ContentsNext(f)) /\ ContentsNext(f).search = f.search
<1>. f.low \in Int /\ f.i \in Int
    BY DEF Frame
<1>1. CASE f.i >= catalog_len
    <2>. DEFINE last == f.i - 1
                first == f.low + 1
                u == [f EXCEPT !.high = last, !.i = first]
    <2>1. last \in Int /\ first \in Int /\ last < catalog_len /\ f.low < first
        BY CatalogLenAssumption
    <2>2. ContentsNext(f) = ListNext(u)
        BY <1>1 DEF ContentsNext
    <2>. HIDE DEF last, first
    <2>3. /\ u \in Frame /\ u.search = f.search
          /\ u.low = f.low /\ u.i = first /\ u.high = last
        BY <2>1 DEF Frame
    <2>. HIDE DEF u
    <2>. QED  BY <2>1, <2>2, <2>3, ListNextOK
<1>2. CASE ~(f.i >= catalog_len)
    <2>. DEFINE u == [f EXCEPT !.pc = "contents"]
    <2>1. /\ u \in Frame /\ u.pc = "contents" /\ u.search = f.search
          /\ u.low = f.low /\ u.i = f.i
        BY DEF Frame
    <2>2. ContentsNext(f) = u
        BY <1>2 DEF ContentsNext
    <2>. HIDE DEF u
    <2>3. FrameOK(u)
        BY <1>2, <2>1, CatalogLenAssumption DEF FrameOK
    <2>. QED  BY <2>1, <2>2, <2>3
<1>. QED  BY <1>1, <1>2

(* The callers of binSearch go on inside the catalog.                      *)
LEMMA AfterSearchOK ==
    ASSUME NEW f \in Frame, SearchInRange(f.search),
           f.pc = "search", f.op \in CatalogOps
    PROVE  FrameOK(AfterSearch(f)) /\ AfterSearch(f).search = f.search
<1>. DEFINE location == f.search.result
<1>1. f.search \in Search /\ location \in Int
    BY DEF Frame, Search
<1>2. CASE f.search.phase # "done"
    BY <1>2 DEF AfterSearch, FrameOK
<1>3. CASE f.search.phase = "done" /\ location < 0
    BY <1>3, FailOK DEF AfterSearch, Replies
<1>4. CASE f.search.phase = "done" /\ ~(location < 0)
    <2>1. 0 <= location /\ location < catalog_len
        BY <1>1, <1>4, CatalogLenAssumption DEF SearchInRange
    <2>2. CASE f.op = "getattr"
        <3>. DEFINE u == [f EXCEPT !.pc = "attr", !.i = location]
        <3>1. AfterSearch(f) = u
            BY <1>4, <2>2 DEF AfterSearch
        <3>. HIDE DEF location
        <3>2. u \in Frame /\ u.pc = "attr" /\ u.search = f.search /\ u.i = location
            BY <1>1 DEF Frame
        <3>. HIDE DEF u
        <3>3. FrameOK(u)
            BY <2>1, <3>2 DEF FrameOK
        <3>. QED  BY <3>1, <3>2, <3>3
    <2>3. CASE f.op = "readlink"
        <3>. DEFINE u == [f EXCEPT !.pc = "link", !.i = location]
        <3>1. AfterSearch(f) = u
            BY <1>4, <2>3 DEF AfterSearch
        <3>. HIDE DEF location
        <3>2. u \in Frame /\ u.pc = "link" /\ u.search = f.search /\ u.i = location
            BY <1>1 DEF Frame
        <3>. HIDE DEF u
        <3>3. FrameOK(u)
            BY <2>1, <3>2 DEF FrameOK
        <3>. QED  BY <3>1, <3>2, <3>3
    <2>4. CASE f.op = "readdir"
        <3>. DEFINE first == location + 1
                    u == [f EXCEPT !.low = location, !.i = first]
        <3>1. AfterSearch(f) = ContentsNext(u)
            BY <1>4, <2>4 DEF AfterSearch
        <3>2. first \in Int /\ location < first /\ first <= catalog_len
            BY <1>1, <2>1, CatalogLenAssumption
        <3>. HIDE DEF location, first
        <3>3. u \in Frame /\ u.search = f.search /\ u.low = location /\ u.i = first
            BY <1>1, <3>2 DEF Frame
        <3>. HIDE DEF u
        <3>. QED  BY <2>1, <3>1, <3>2, <3>3, ContentsNextOK
    <2>. QED  BY <2>2, <2>3, <2>4 DEF CatalogOps
<1>. QED  BY <1>2, <1>3, <1>4

(* A request starts as a search of its path.                               *)
LEMMA StartSearchType ==
    ASSUME TypeOK, NEW op \in CatalogOps, NEW path \in Path, NEW searchPath \in Path
    PROVE  LET f == StartSearch(op, path, searchPath)
           IN  /\ f \in Frame /\ f.pc = "search" /\ f.op = op
               /\ f.search = binSearch(searchPath)
<1>1. binSearch(searchPath) \in Search
    BY BinSearchStarts
<1>2. {catalog_file} \in SUBSET Catalogs
    BY DEF TypeOK
<1>. QED  BY <1>1, <1>2, IdleType DEF StartSearch, Frame

(* A directory path with its slash is a path.                              *)
LEMMA DirPathType ==
    ASSUME NEW path \in Path
    PROVE  DirPath(path) \in Path
<1>1. Slash \in Byte
    BY DEF Slash, Byte
<1>. QED  BY <1>1 DEF DirPath, Path

(* A new request.                                                          *)
LEMMA RequestOK ==
    ASSUME IInv, NEW t \in Threads, NEW f, FrameOK(f), Submit(t, f)
    PROVE  IInv'
<1>1. th' = [th EXCEPT ![t] = f] /\ UNCHANGED <<catalog_file, daemon, fds>>
    BY DEF Submit
<1>2. TypeOK'
    BY <1>1 DEF IInv, TypeOK, FrameOK
<1>3. ASSUME NEW x \in Threads
      PROVE  FrameOK(th'[x])
    BY <1>1 DEF IInv, TypeOK
<1>. QED  BY <1>2, <1>3 DEF IInv

(* The location of a frame is a number.                                    *)
LEMMA LocationType ==
    ASSUME NEW f \in Frame
    PROVE  Location(f) \in Int
<1>1. f.i \in Int /\ f.search \in Search
    BY DEF Frame
<1>2. f.search.mid \in Int /\ f.search.idx \in Int
    BY <1>1 DEF Search
<1>. QED  BY <1>1, <1>2 DEF Location, Target

(* A read by thread t that leaves a good frame behind.                     *)
LEMMA ProbeOK ==
    ASSUME IInv, NEW t \in Threads, NEW pc, Opens(t, pc), NEW r, Read(r),
           NEW f, FrameOK(f), th' = [th EXCEPT ![t] = f]
    PROVE  IInv'
<1>1. UNCHANGED <<catalog_file, daemon>>
    BY DEF Read
<1>2. fds \in 0..MaxFds /\ MaxFds \in Nat
    BY DaemonAssumption DEF IInv, TypeOK
<1>3. fds < MaxFds
    BY DEF Opens, CanOpen
<1>4. fds' = fds \/ fds' = fds + 1
    BY DEF Read
<1>5. fds' \in 0..MaxFds
    BY <1>2, <1>3, <1>4
<1>6. TypeOK'
    BY <1>1, <1>5 DEF IInv, TypeOK, FrameOK
<1>7. ASSUME NEW x \in Threads
      PROVE  FrameOK(th'[x])
    BY DEF IInv, TypeOK
<1>. QED  BY <1>6, <1>7 DEF IInv

(* An iteration of a search loop keeps IInv and brings the search nearer   *)
(* to its end.                                                             *)
LEMMA SearchProbeOK ==
    ASSUME IInv, NEW t \in Threads, SearchProbe(t)
    PROVE  /\ IInv'
           /\ ProbesLeft(th'[t].search) < ProbesLeft(th[t].search)
<1>. DEFINE f == th[t]
            s == f.search
<1>1. f \in Frame /\ FrameOK(f) /\ TypeOK
    BY DEF IInv, TypeOK
<1>0. Opens(t, "search")
    BY DEF SearchProbe
<1>2. PICK r \in getEntry_from_catalog(Location(f)) :
        /\ Read(r)
        /\ th' = [th EXCEPT ![t] = AfterSearch([f EXCEPT !.search =
                    IF r.ok THEN SearchStep(s, r.entry) ELSE Finish(s, -1)])]
    BY DEF SearchProbe
<1>3. r.ok \in BOOLEAN /\ r.entry \in Entry
    BY <1>1, ReadType, LocationType
<1>4. f.pc = "search"
    BY <1>0 DEF Opens
<1>5. /\ s \in Search /\ SearchInRange(s) /\ s.phase # "done"
      /\ f.op \in CatalogOps
    BY <1>1, <1>4 DEF FrameOK, Frame
<1>. DEFINE next == IF r.ok THEN SearchStep(s, r.entry) ELSE Finish(s, -1)
            u == [f EXCEPT !.search = next]
<1>6. /\ next \in Search /\ SearchInRange(next)
      /\ ProbesLeft(next) < ProbesLeft(s)
    <2>1. CASE r.ok
        <3>1. r.entry.depth \in Int
            BY <1>3 DEF Entry
        <3>. QED  BY <1>5, <2>1, <3>1, SearchStepLands
    <2>2. CASE ~r.ok
        <3>1. ProbesLeft(s) \in Int /\ ProbesLeft(s) > 0
            BY <1>5, ProbesLeftPositive
        <3>2. Lands(Finish(s, -1), 0)
            BY <1>5, FinishLands, CatalogLenAssumption
        <3>3. ProbesLeft(Finish(s, -1)) \in Int
            BY <3>2, ProbesLeftType DEF Lands
        <3>. QED  BY <2>2, <3>1, <3>2, <3>3 DEF Lands
    <2>. QED  BY <2>1, <2>2
<1>7. th' = [th EXCEPT ![t] = AfterSearch(u)]
    BY <1>2
<1>. HIDE DEF next
<1>8. /\ u \in Frame /\ u.search = next /\ u.pc = "search"
      /\ u.op \in CatalogOps
    BY <1>1, <1>4, <1>5, <1>6 DEF Frame
<1>. HIDE DEF u
<1>9. FrameOK(AfterSearch(u)) /\ AfterSearch(u).search = next
    BY <1>6, <1>8, AfterSearchOK
<1>10. IInv'
    BY <1>0, <1>2, <1>7, <1>9, ProbeOK
<1>11. th'[t] = AfterSearch(u)
    BY <1>1, <1>7 DEF TypeOK
<1>. QED  BY <1>6, <1>9, <1>10, <1>11

(* The re-read of getattr keeps IInv.                                      *)
LEMMA GetattrProbeOK ==
    ASSUME IInv, NEW t \in Threads, GetattrProbe(t)
    PROVE  IInv'
<1>. DEFINE f == th[t]
<1>1. f \in Frame /\ SearchInRange(f.search) /\ TypeOK
    BY DEF IInv, TypeOK, FrameOK
<1>0. Opens(t, "attr")
    BY DEF GetattrProbe
<1>2. PICK r \in getEntry_from_catalog(Location(f)) :
        /\ Read(r)
        /\ th' = [th EXCEPT ![t] =
                    IF r.ok THEN Reply(f, [Error("OK") EXCEPT !.st = r.entry.st])
                    ELSE Fail(f, "ENOENT")]
    BY DEF GetattrProbe
<1>3. r.ok \in BOOLEAN /\ r.entry \in Entry
    BY <1>1, ReadType, LocationType
<1>. DEFINE ans == [Error("OK") EXCEPT !.st = r.entry.st]
            u == IF r.ok THEN Reply(f, ans) ELSE Fail(f, "ENOENT")
<1>4. ans \in Answer
    BY <1>3, ErrorType DEF Answer, Replies, Entry
<1>5. FrameOK(u)
    BY <1>1, <1>4, ReplyOK, FailOK DEF Replies
<1>. QED  BY <1>0, <1>2, <1>5, ProbeOK

(* The re-read of readlink keeps IInv.                                     *)
LEMMA ReadlinkProbeOK ==
    ASSUME IInv, NEW t \in Threads, ReadlinkProbe(t)
    PROVE  IInv'
<1>. DEFINE f == th[t]
<1>1. f \in Frame /\ SearchInRange(f.search) /\ TypeOK
    BY DEF IInv, TypeOK, FrameOK
<1>0. Opens(t, "link")
    BY DEF ReadlinkProbe
<1>2. PICK r \in getEntry_from_catalog(Location(f)) :
        /\ Read(r)
        /\ th' = [th EXCEPT ![t] =
                    IF r.ok THEN Reply(f, [Error("OK") EXCEPT !.link = r.entry.link])
                    ELSE Fail(f, "ENOENT")]
    BY DEF ReadlinkProbe
<1>3. r.ok \in BOOLEAN /\ r.entry \in Entry
    BY <1>1, ReadType, LocationType
<1>. DEFINE ans == [Error("OK") EXCEPT !.link = r.entry.link]
            u == IF r.ok THEN Reply(f, ans) ELSE Fail(f, "ENOENT")
<1>4. ans \in Answer
    BY <1>3, ErrorType DEF Answer, Replies, Entry
<1>5. FrameOK(u)
    BY <1>1, <1>4, ReplyOK, FailOK DEF Replies
<1>. QED  BY <1>0, <1>2, <1>5, ProbeOK

(* An iteration of get_directory_contents keeps IInv.                      *)
LEMMA ContentsProbeOK ==
    ASSUME IInv, NEW t \in Threads, ContentsProbe(t)
    PROVE  IInv'
<1>. DEFINE f == th[t]
<1>1. f \in Frame /\ FrameOK(f) /\ TypeOK
    BY DEF IInv, TypeOK
<1>. DEFINE k == f.i + 1
            last == f.i - 1
            first == f.low + 1
            u == [f EXCEPT !.i = k]
            v == [f EXCEPT !.high = last, !.i = first]
<1>0. Opens(t, "contents")
    BY DEF ContentsProbe
<1>2. PICK r \in getEntry_from_catalog(Location(f)) :
        /\ Read(r)
        /\ th' = [th EXCEPT ![t] =
                    IF ~r.ok THEN Fail(f, "ENOENT")
                    ELSE IF Within(f, r.entry) THEN ContentsNext(u)
                    ELSE ListNext(v)]
    BY DEF ContentsProbe
<1>3. f.pc = "contents"
    BY <1>0 DEF Opens
<1>4. /\ f.low \in Int /\ f.i \in Int /\ SearchInRange(f.search)
      /\ 0 <= f.low /\ f.low < f.i /\ f.i < catalog_len
    BY <1>1, <1>3 DEF FrameOK, Frame
<1>5. /\ k \in Int /\ last \in Int /\ first \in Int
      /\ f.low < k /\ k <= catalog_len
      /\ f.low < first /\ last < catalog_len
    BY <1>4, CatalogLenAssumption
<1>. HIDE DEF k, last, first
<1>6. u \in Frame /\ u.search = f.search /\ u.low = f.low /\ u.i = k
    BY <1>1, <1>5 DEF Frame
<1>7. /\ v \in Frame /\ v.search = f.search
      /\ v.low = f.low /\ v.i = first /\ v.high = last
    BY <1>1, <1>5 DEF Frame
<1>. HIDE DEF u, v
<1>8. FrameOK(ContentsNext(u))
    BY <1>4, <1>5, <1>6, ContentsNextOK
<1>9. FrameOK(ListNext(v))
    BY <1>4, <1>5, <1>7, ListNextOK
<1>10. FrameOK(Fail(f, "ENOENT"))
    BY <1>1, <1>4, FailOK DEF Replies
<1>. QED  BY <1>0, <1>2, <1>8, <1>9, <1>10, ProbeOK

(* The first read of a listed line keeps IInv.                             *)
LEMMA ListAttrProbeOK ==
    ASSUME IInv, NEW t \in Threads, ListAttrProbe(t)
    PROVE  IInv'
<1>. DEFINE f == th[t]
<1>1. f \in Frame /\ FrameOK(f) /\ TypeOK
    BY DEF IInv, TypeOK
<1>0. Opens(t, "list_attr")
    BY DEF ListAttrProbe
<1>2. PICK r \in getEntry_from_catalog(Location(f)) :
        /\ Read(r)
        /\ th' = [th EXCEPT ![t] =
                [f EXCEPT !.pc = "list_path", !.got = r.ok, !.st = r.entry.st]]
    BY DEF ListAttrProbe
<1>3. r.ok \in BOOLEAN /\ r.entry \in Entry
    BY <1>1, ReadType, LocationType
<1>. DEFINE st == r.entry.st
            ok == r.ok
            u == [f EXCEPT !.pc = "list_path", !.got = ok, !.st = st]
<1>4. st \in Stat /\ ok \in BOOLEAN
    BY <1>3 DEF Entry
<1>. HIDE DEF st, ok
<1>5. /\ u \in Frame /\ u.pc = "list_path" /\ u.search = f.search
      /\ u.low = f.low /\ u.i = f.i /\ u.high = f.high
    BY <1>1, <1>4 DEF Frame
<1>6. f.pc = "list_attr"
    BY <1>0 DEF Opens
<1>7. th' = [th EXCEPT ![t] = u]
    BY <1>2 DEF st, ok
<1>. HIDE DEF u
<1>8. FrameOK(u)
    BY <1>1, <1>5, <1>6 DEF FrameOK
<1>. QED  BY <1>0, <1>2, <1>7, <1>8, ProbeOK

(* The second read of a listed line keeps IInv.                            *)
LEMMA ListPathProbeOK ==
    ASSUME IInv, NEW t \in Threads, ListPathProbe(t)
    PROVE  IInv'
<1>. DEFINE f == th[t]
<1>1. f \in Frame /\ FrameOK(f) /\ TypeOK
    BY DEF IInv, TypeOK
<1>. DEFINE D(r) == [name |-> basename(r.entry.path), st |-> f.st]
            k == f.i + 1
            past == f.high + 1
            skip == [f EXCEPT !.i = k]
            stop == [f EXCEPT !.i = past, !.full = TRUE]
            Add(out) == [f EXCEPT !.i = k, !.out = out]
<1>0. Opens(t, "list_path")
    BY DEF ListPathProbe
<1>2. PICK r \in getEntry_from_catalog(Location(f)), refused \in BOOLEAN :
        /\ Read(r)
        /\ th' = [th EXCEPT ![t] = ListNext(
                    IF ~Kept(f, r) THEN skip
                    ELSE IF refused THEN stop
                    ELSE Add(Append(f.out, D(r))))]
    BY DEF ListPathProbe
<1>3. r.ok \in BOOLEAN /\ r.entry \in Entry
    BY <1>1, ReadType, LocationType
<1>. DEFINE out == Append(f.out, D(r))
<1>4. out \in Seq(Dirent)
    <2>1. basename(r.entry.path) \in Path
        BY <1>3, BasenameType DEF Entry
    <2>2. f.st \in Stat /\ f.out \in Seq(Dirent)
        BY <1>1 DEF Frame
    <2>3. D(r) \in Dirent
        BY <2>1, <2>2 DEF Dirent
    <2>. HIDE DEF D
    <2>. QED  BY <2>2, <2>3
<1>5. f.pc = "list_path"
    BY <1>0 DEF Opens
<1>6. /\ f.low \in Int /\ f.i \in Int /\ f.high \in Int /\ SearchInRange(f.search)
      /\ 0 <= f.low /\ f.low < f.i /\ f.i <= f.high /\ f.high < catalog_len
    BY <1>1, <1>5 DEF FrameOK, Frame
<1>7. k \in Int /\ past \in Int /\ f.low < k /\ f.low < past
    BY <1>6
<1>. HIDE DEF k, past, out
<1>8. /\ skip \in Frame /\ skip.search = f.search
      /\ skip.low = f.low /\ skip.i = k /\ skip.high = f.high
    BY <1>1, <1>7 DEF Frame
<1>9. /\ stop \in Frame /\ stop.search = f.search
      /\ stop.low = f.low /\ stop.i = past /\ stop.high = f.high
    BY <1>1, <1>7 DEF Frame
<1>10. /\ Add(out) \in Frame /\ Add(out).search = f.search
       /\ Add(out).low = f.low /\ Add(out).i = k /\ Add(out).high = f.high
    BY <1>1, <1>4, <1>7 DEF Frame
<1>11. th' = [th EXCEPT ![t] = ListNext(
                IF ~Kept(f, r) THEN skip ELSE IF refused THEN stop ELSE Add(out))]
    BY <1>2 DEF out
<1>. HIDE DEF skip, stop, Add
<1>12. FrameOK(ListNext(skip)) /\ FrameOK(ListNext(stop)) /\ FrameOK(ListNext(Add(out)))
    BY <1>6, <1>7, <1>8, <1>9, <1>10, ListNextOK
<1>. QED  BY <1>0, <1>2, <1>11, <1>12, ProbeOK

(* A new getattr, readlink or readdir keeps IInv.                          *)
LEMMA CatalogRequestOK ==
    ASSUME IInv, NEW t \in Threads, NEW path \in Paths,
           \/ catalog_getattr(t, path)
           \/ catalog_readlink(t, path)
           \/ catalog_readdir(t, path)
    PROVE  IInv'
<1>1. path \in Path /\ DirPath(path) \in Path /\ TypeOK
    BY DaemonAssumption, DirPathType DEF IInv
<1>2. ASSUME NEW op \in {"getattr", "readlink"}
      PROVE  FrameOK(AfterSearch(StartSearch(op, path, path)))
    <2>. DEFINE f == StartSearch(op, path, path)
    <2>1. f \in Frame /\ f.pc = "search" /\ f.op \in CatalogOps
        BY <1>1, StartSearchType DEF CatalogOps
    <2>2. f.search = binSearch(path)
        BY <1>1, StartSearchType DEF CatalogOps
    <2>3. SearchInRange(f.search)
        BY <1>1, <2>2, BinSearchStarts
    <2>. HIDE DEF f
    <2>4. FrameOK(AfterSearch(f))
        BY <2>1, <2>3, AfterSearchOK
    <2>. QED  BY <2>4 DEF f
<1>3. CASE catalog_getattr(t, path)
    BY <1>2, <1>3, RequestOK DEF catalog_getattr
<1>4. CASE catalog_readlink(t, path)
    BY <1>2, <1>4, RequestOK DEF catalog_readlink
<1>5. CASE catalog_readdir(t, path)
    <2>. DEFINE f == StartSearch("readdir", path, DirPath(path))
                U(full) == [f EXCEPT !.out = Dots, !.full = full]
    <2>1. PICK full \in BOOLEAN : Submit(t, AfterSearch(U(full)))
        BY <1>5 DEF catalog_readdir
    <2>2. f \in Frame /\ f.pc = "search" /\ f.op \in CatalogOps
        BY <1>1, StartSearchType DEF CatalogOps
    <2>3. f.search = binSearch(DirPath(path))
        BY <1>1, StartSearchType DEF CatalogOps
    <2>4. SearchInRange(f.search)
        BY <1>1, <2>3, BinSearchStarts
    <2>5. Dots \in Seq(Dirent)
        BY DotsType
    <2>. HIDE DEF f
    <2>6. /\ U(full) \in Frame /\ U(full).pc = "search"
          /\ U(full).op \in CatalogOps /\ U(full).search = f.search
        BY <2>2, <2>5 DEF Frame
    <2>. HIDE DEF U
    <2>7. FrameOK(AfterSearch(U(full)))
        BY <2>4, <2>6, AfterSearchOK
    <2>. QED  BY <2>1, <2>7, RequestOK
<1>. QED  BY <1>3, <1>4, <1>5

(* An operation with a fixed reply keeps IInv.                             *)
LEMMA FixedOpOK ==
    ASSUME IInv, NEW t \in Threads, NEW op \in FixedOps, FixedOp(t, op)
    PROVE  IInv'
<1>1. FixedReply(op) \in Replies
    BY DEF FixedReply, Replies
<1>2. Idle.search = NoSearch
    BY DEF Idle
<1>3. FrameOK(Fail(Idle, FixedReply(op)))
    BY <1>1, <1>2, IdleType, NoSearchType, FailOK
<1>. QED  BY <1>3, RequestOK DEF FixedOp

(* A thread without a request is in order.                                 *)
LEMMA IdleOK == FrameOK(Idle)
<1>1. Idle.search = NoSearch /\ Idle.pc = "idle"
    BY DEF Idle
<1>. QED  BY <1>1, IdleType, NoSearchType DEF FrameOK

(* Sending an answer keeps IInv.                                           *)
LEMMA ReturnOK ==
    ASSUME IInv, NEW t \in Threads, Return(t)
    PROVE  IInv'
<1>1. th' = [th EXCEPT ![t] = Idle] /\ UNCHANGED <<catalog_file, daemon, fds>>
    BY DEF Return
<1>2. TypeOK'
    BY <1>1, IdleType DEF IInv, TypeOK
<1>3. ASSUME NEW x \in Threads
      PROVE  FrameOK(th'[x])
    BY <1>1, IdleOK DEF IInv, TypeOK
<1>. QED  BY <1>2, <1>3 DEF IInv

(* exit(-1) keeps IInv.                                                    *)
LEMMA OpenFailsOK ==
    ASSUME IInv, NEW t \in Threads, OpenFails(t)
    PROVE  IInv'
<1>1. daemon' = "exited" /\ UNCHANGED <<catalog_file, fds, th>>
    BY DEF OpenFails
<1>2. TypeOK'
    BY <1>1 DEF IInv, TypeOK
<1>3. ASSUME NEW x \in Threads
      PROVE  FrameOK(th'[x])
    BY <1>1 DEF IInv
<1>. QED  BY <1>2, <1>3 DEF IInv

(* A new catalog file keeps IInv and disturbs no search.                   *)
LEMMA ReplaceCatalogOK ==
    ASSUME IInv, NEW c \in Catalogs, ReplaceCatalog(c)
    PROVE  /\ IInv'
           /\ \A t \in Threads : th'[t].search = th[t].search
<1>1. /\ catalog_file' = c /\ UNCHANGED <<daemon, fds>>
      /\ th' = [t \in Threads |-> IF th[t].pc \in Probing
                THEN [th[t] EXCEPT !.seen = @ \cup {c}] ELSE th[t]]
    BY DEF ReplaceCatalog
<1>2. ASSUME NEW x \in Threads
      PROVE  FrameOK(th'[x]) /\ th'[x] \in Frame /\ th'[x].search = th[x].search
    <2>. DEFINE f == th[x]
                seen == f.seen \cup {c}
                u == [f EXCEPT !.seen = seen]
    <2>1. f \in Frame /\ FrameOK(f)
        BY DEF IInv, TypeOK
    <2>2. seen \in SUBSET Catalogs
        BY <2>1 DEF Frame
    <2>3. th'[x] = u \/ th'[x] = f
        BY <1>1
    <2>. HIDE DEF seen, f
    <2>4. /\ u \in Frame /\ u.pc = f.pc /\ u.op = f.op /\ u.search = f.search
          /\ u.low = f.low /\ u.high = f.high /\ u.i = f.i
        BY <2>1, <2>2 DEF Frame
    <2>. HIDE DEF u
    <2>5. FrameOK(u)
        BY <2>1, <2>4 DEF FrameOK
    <2>. QED  BY <2>1, <2>3, <2>4, <2>5 DEF f
<1>3. th' \in [Threads -> Frame]
    BY <1>1, <1>2
<1>4. TypeOK'
    BY <1>1, <1>3 DEF IInv, TypeOK
<1>. QED  BY <1>2, <1>4 DEF IInv
-----------------------------------------------------------------------------
(* IInv holds when the daemon starts.                                      *)
LEMMA InitOK ==
    ASSUME Init
    PROVE  IInv
<1>1. TypeOK
    BY IdleType, DaemonAssumption DEF Init, TypeOK
<1>2. ASSUME NEW t \in Threads
      PROVE  FrameOK(th[t])
    BY IdleOK DEF Init
<1>. QED  BY <1>1, <1>2 DEF IInv

(* Every step keeps IInv.                                                  *)
LEMMA NextOK ==
    ASSUME IInv, [Next]_vars
    PROVE  IInv'
<1>1. CASE UNCHANGED vars
    BY <1>1 DEF IInv, TypeOK, vars
<1>2. ASSUME NEW t \in Threads, Request(t)
      PROVE  IInv'
    BY <1>2, CatalogRequestOK, FixedOpOK DEF Request
<1>3. ASSUME NEW t \in Threads, Serve(t)
      PROVE  IInv'
    BY <1>3, SearchProbeOK, GetattrProbeOK, ReadlinkProbeOK, ContentsProbeOK,
       ListAttrProbeOK, ListPathProbeOK, OpenFailsOK, ReturnOK DEF Serve
<1>4. ASSUME NEW c \in Catalogs, ReplaceCatalog(c)
      PROVE  IInv'
    BY <1>4, ReplaceCatalogOK
<1>. QED  BY <1>1, <1>2, <1>3, <1>4 DEF Next, Daemon

(* IInv keeps every probe inside the catalog.                              *)
LEMMA IInvProbes ==
    ASSUME IInv
    PROVE  ProbesInRange
<1>. SUFFICES ASSUME NEW t \in Threads
              PROVE  /\ SearchInRange(th[t].search)
                     /\ th[t].pc \in Probing => Location(th[t]) \in 0..(catalog_len - 1)
    BY DEF ProbesInRange
<1>. DEFINE f == th[t]
            s == f.search
<1>1. FrameOK(f) /\ f \in Frame /\ SearchInRange(s)
    BY DEF IInv, FrameOK
<1>. HIDE DEF f
<1>2. Location(f) \in Int
    BY <1>1, LocationType
<1>3. CASE f.pc = "search"
    <2>1. s \in Search /\ s.phase # "done" /\ Location(f) = Target(s)
        BY <1>1, <1>3 DEF FrameOK, Frame, Location
    <2>2. s.low \in Int /\ s.mid \in Int /\ s.idx \in Int /\ s.high \in Int
        BY <2>1 DEF Search
    <2>3. 0 <= Target(s) /\ Target(s) < catalog_len
        BY <1>1, <2>1, <2>2, CatalogLenAssumption DEF SearchInRange, Target, Search
    <2>. QED  BY <1>1, <1>2, <2>1, <2>3, CatalogLenAssumption DEF f
<1>4. CASE f.pc \in Probing \ {"search"}
    <2>1. Location(f) = f.i /\ f.i \in Int /\ f.low \in Int /\ f.high \in Int
        BY <1>1, <1>4 DEF Location, Frame
    <2>2. 0 <= f.i /\ f.i < catalog_len
        BY <1>1, <1>4, <2>1, CatalogLenAssumption DEF FrameOK, Probing
    <2>. QED  BY <1>1, <2>1, <2>2, CatalogLenAssumption DEF f
<1>. QED  BY <1>1, <1>3, <1>4 DEF f

(* The daemon's state keeps its type; in particular the descriptors that   *)
(* getEntry_from_catalog leaks never exceed what the process may open.     *)
THEOREM TypeCorrect == Spec => []TypeOK
<1>1. Init => IInv
    BY InitOK
<1>2. IInv /\ [Next]_vars => IInv'
    BY NextOK
<1>3. IInv => TypeOK
    BY DEF IInv
<1>. QED  BY <1>1, <1>2, <1>3, PTL DEF Spec

(* No thread asks getEntry_from_catalog for a location outside the catalog *)
(* it was mounted with, whatever the file holds and however it is replaced *)
(* between two reads.                                                      *)
THEOREM ProbesStayInCatalog == Spec => []ProbesInRange
<1>1. Init => IInv
    BY InitOK
<1>2. IInv /\ [Next]_vars => IInv'
    BY NextOK
<1>3. IInv => ProbesInRange
    BY IInvProbes
<1>. QED  BY <1>1, <1>2, <1>3, PTL DEF Spec

(* A step of thread x other than a search probe starts from a frame that   *)
(* is not searching, or leaves all frames alone.                           *)
LEMMA OtherSteps ==
    ASSUME IInv, NEW x \in Threads, Request(x) \/ Serve(x), ~SearchProbe(x),
           NEW t \in Threads, th[t].pc = "search"
    PROVE  th'[t] = th[t]
<1>1. CASE OpenFails(x)
    BY <1>1 DEF OpenFails
<1>2. CASE ~OpenFails(x)
    <2>1. /\ th[x].pc # "search"
          /\ \E f : th' = [th EXCEPT ![x] = f]
        BY <1>2 DEF Request, Serve, catalog_getattr, catalog_readlink,
            catalog_readdir, FixedOp, Submit, GetattrProbe, ReadlinkProbe,
            ContentsProbe, ListAttrProbe, ListPathProbe, Return, Opens
    <2>. QED  BY <2>1 DEF IInv, TypeOK
<1>. QED  BY <1>1, <1>2

(* Every iteration of a loop of binSearch leaves fewer probes than before, *)
(* whatever line the file produced: the loops of a search end even while   *)
(* the catalog is being replaced.                                          *)
THEOREM SearchesAdvance == Spec => SearchAdvances
<1>. DEFINE Adv(t) == th[t].pc = "search" /\ th'[t].search # th[t].search =>
                        ProbesLeft(th'[t].search) < ProbesLeft(th[t].search)
<1>1. Init => IInv
    BY InitOK
<1>2. IInv /\ [Next]_vars => IInv'
    BY NextOK
<1>3. IInv /\ [Next]_vars => [\A t \in Threads : Adv(t)]_vars
    <2>. SUFFICES ASSUME IInv, Next, NEW t \in Threads, th[t].pc = "search",
                         th'[t].search # th[t].search
                  PROVE  ProbesLeft(th'[t].search) < ProbesLeft(th[t].search)
        OBVIOUS
    <2>1. ASSUME NEW c \in Catalogs, ReplaceCatalog(c)
          PROVE  FALSE
        BY <2>1, ReplaceCatalogOK
    <2>2. ASSUME NEW x \in Threads, Request(x) \/ Serve(x)
          PROVE  ProbesLeft(th'[t].search) < ProbesLeft(th[t].search)
        <3>1. SearchProbe(x)
            BY <2>2, OtherSteps
        <3>2. x = t
            BY <3>1 DEF SearchProbe, IInv, TypeOK
        <3>. QED  BY <3>1, <3>2, SearchProbeOK
    <2>. QED  BY <2>1, <2>2 DEF Next, Daemon
<1>. QED  BY <1>1, <1>2, <1>3, PTL DEF Spec, SearchAdvances

(***************************************************************************)
(* What the daemon answers, for every catalog, every number of threads and *)
(* every moment at which the file is replaced: a request that was served   *)
(* from one proper catalog is answered as that catalog says, and so the    *)
(* daemon implements the service of CatalogService.                        *)
(***************************************************************************)

(***************************************************************************)
(* Prefixes, depths and strcmp's order                                     *)
(***************************************************************************)
(* A prefix agrees byte by byte.                                           *)
LEMMA PrefixBytes ==
    ASSUME NEW s \in Path, NEW t \in Path
    PROVE  IsPrefix(s, t) <=> /\ Len(s) <= Len(t)
                              /\ \A i \in 1..Len(s) : s[i] = t[i]
<1>. DEFINE n == Len(s)
            u == SubSeq(t, 1, n)
<1>1. n \in Nat /\ Len(t) \in Nat /\ s \in Seq(Byte) /\ t \in Seq(Byte)
    BY DEF Path
<1>2. SubSeq(s, 1, n) = s
    <2>1. \A i \in 1..n : s[i] \in Byte
        BY <1>1
    <2>2. /\ SubSeq(s, 1, n) \in Seq(Byte) /\ Len(SubSeq(s, 1, n)) = n
          /\ \A i \in 1..n : SubSeq(s, 1, n)[i] = s[i]
        BY <1>1, <2>1, SubSeqProperties
    <2>. QED  BY <1>1, <2>2, SeqEqual
<1>3. ASSUME n <= Len(t)
      PROVE  u \in Seq(Byte) /\ Len(u) = n /\ \A i \in 1..n : u[i] = t[i]
    <2>1. \A i \in 1..n : t[i] \in Byte
        BY <1>1, <1>3
    <2>. QED  BY <1>1, <1>3, <2>1, SubSeqProperties
<1>4. IsPrefix(s, t) <=> n <= Len(t) /\ s = u
    BY <1>2 DEF IsPrefix
<1>. HIDE DEF u
<1>5. ASSUME n <= Len(t)
      PROVE  s = u <=> \A i \in 1..n : s[i] = t[i]
    BY <1>1, <1>3, <1>5, SeqEqual
<1>. QED  BY <1>4, <1>5

(* A proper prefix is smaller ...                                          *)
LEMMA PrefixLess ==
    ASSUME NEW s \in Path, NEW t \in Path, IsStrictPrefix(s, t)
    PROVE  StrLess(s, t) /\ Len(s) < Len(t)
<1>1. s # t /\ Len(s) <= Len(t) /\ \A i \in 1..Len(s) : s[i] = t[i]
    BY PrefixBytes DEF IsStrictPrefix
<1>2. Len(s) \in Nat /\ Len(t) \in Nat
    BY PathBytes
<1>3. Len(s) # Len(t)
    BY <1>1, SeqEqual DEF Path
<1>4. Len(s) < Len(t) /\ Len(s) \in 0..Len(s)
    BY <1>1, <1>2, <1>3
<1>. QED  BY <1>1, <1>4 DEF StrLess

(* ... and what lies between a string and its extension extends it too.    *)
LEMMA PrefixBetween ==
    ASSUME NEW p \in Path, NEW q \in Path, NEW u \in Path,
           IsPrefix(p, u), StrLess(p, q), StrLess(q, u)
    PROVE  IsPrefix(p, q)
<1>. /\ Len(p) \in Nat /\ Len(q) \in Nat /\ Len(u) \in Nat
     /\ \A i \in 1..Len(p) : p[i] \in Int
     /\ \A i \in 1..Len(q) : q[i] \in Int
     /\ \A i \in 1..Len(u) : u[i] \in Int
    BY PathBytes
<1>1. Len(p) <= Len(u) /\ \A i \in 1..Len(p) : p[i] = u[i]
    BY PrefixBytes
<1>2. PICK k \in 0..Len(p) : /\ k < Len(q)
                             /\ \A j \in 1..k : p[j] = q[j]
                             /\ k = Len(p) \/ p[k + 1] < q[k + 1]
    BY DEF StrLess
<1>3. PICK m \in 0..Len(q) : /\ m < Len(u)
                             /\ \A j \in 1..m : q[j] = u[j]
                             /\ m = Len(q) \/ q[m + 1] < u[m + 1]
    BY DEF StrLess
<1>4. k = Len(p)
    <2>. SUFFICES ASSUME k # Len(p) PROVE FALSE
        OBVIOUS
    <2>1. k + 1 \in 1..Len(p) /\ p[k + 1] < q[k + 1] /\ p[k + 1] = u[k + 1]
        BY <1>1, <1>2
    <2>2. k + 1 \in 1..Len(q) /\ k + 1 \in 1..Len(u)
        BY <1>1, <1>2, <2>1
    <2>3. CASE k < m
        <3>1. q[k + 1] = u[k + 1]
            BY <1>3, <2>3
        <3>. QED  BY <2>1, <2>2, <3>1
    <2>4. CASE k = m
        <3>1. q[k + 1] < u[k + 1]
            BY <1>2, <1>3, <2>4
        <3>. QED  BY <2>1, <2>2, <3>1
    <2>5. CASE m < k
        <3>1. m + 1 \in 1..k /\ m + 1 \in 1..Len(p) /\ m + 1 \in 1..Len(q)
            BY <1>2, <1>3, <2>5
        <3>2. q[m + 1] < u[m + 1] /\ p[m + 1] = q[m + 1] /\ p[m + 1] = u[m + 1]
            BY <1>1, <1>2, <1>3, <2>5, <3>1
        <3>. QED  BY <3>1, <3>2
    <2>. QED  BY <2>3, <2>4, <2>5
<1>. QED  BY <1>2, <1>4, PrefixBytes

Slashes(path) == {i \in DOMAIN path : path[i] = Slash}
Absolute(path) == path # <<>> /\ path[1] = Slash

(* An absolute path has a positive depth.                                  *)
LEMMA AbsoluteDepth ==
    ASSUME NEW p \in Path, Absolute(p)
    PROVE  /\ IsFiniteSet(Slashes(p)) /\ findDepth(p) = Cardinality(Slashes(p))
           /\ findDepth(p) \in Nat /\ findDepth(p) > 0
<1>1. Len(p) \in Nat /\ DOMAIN p = 1..Len(p) /\ 1 \in Slashes(p)
    <2>1. Len(p) # 0
        BY DEF Absolute, Path
    <2>. QED  BY <2>1 DEF Absolute, Path, Slashes
<1>2. IsFiniteSet(Slashes(p))
    <2>1. Slashes(p) \subseteq 1..Len(p)
        BY <1>1 DEF Slashes
    <2>2. IsFiniteSet(1..Len(p))
        BY <1>1, FS_Interval
    <2>. QED  BY <2>1, <2>2, FS_Subset
<1>3. findDepth(p) = Cardinality(Slashes(p))
    BY DEF findDepth, Absolute, Slashes
<1>4. Cardinality(Slashes(p)) \in Nat /\ Cardinality(Slashes(p)) # 0
    BY <1>1, <1>2, FS_CardinalityType, FS_EmptySet
<1>. QED  BY <1>2, <1>3, <1>4

(* A path and its extension have one depth if no slash was added.          *)
LEMMA SameDepth ==
    ASSUME NEW p \in Path, NEW q \in Path, Absolute(p), IsPrefix(p, q)
    PROVE  /\ Absolute(q)
           /\ findDepth(q) = findDepth(p) <=>
                \A i \in (Len(p) + 1)..Len(q) : q[i] # Slash
<1>1. /\ Len(p) \in Nat /\ DOMAIN p = 1..Len(p)
      /\ Len(q) \in Nat /\ DOMAIN q = 1..Len(q)
    BY PathBytes
<1>2. Len(p) <= Len(q) /\ \A i \in 1..Len(p) : p[i] = q[i]
    BY PrefixBytes
<1>3. Len(p) # 0
    BY DEF Absolute, Path
<1>4. Absolute(q)
    <2>1. q # <<>>
        BY <1>1, <1>2, <1>3
    <2>. QED  BY <1>1, <1>2, <1>3, <2>1 DEF Absolute
<1>5. /\ findDepth(p) = Cardinality(Slashes(p)) /\ IsFiniteSet(Slashes(p))
      /\ findDepth(q) = Cardinality(Slashes(q)) /\ IsFiniteSet(Slashes(q))
    BY <1>4, AbsoluteDepth
<1>6. Slashes(p) \subseteq Slashes(q)
    BY <1>1, <1>2 DEF Slashes
<1>7. Slashes(q) = Slashes(p) <=> \A i \in (Len(p) + 1)..Len(q) : q[i] # Slash
    <2>1. ASSUME Slashes(q) = Slashes(p), NEW i \in (Len(p) + 1)..Len(q)
          PROVE  q[i] # Slash
        <3>1. i \in DOMAIN q /\ i \notin DOMAIN p
            BY <1>1
        <3>. QED  BY <2>1, <3>1 DEF Slashes
    <2>2. ASSUME \A i \in (Len(p) + 1)..Len(q) : q[i] # Slash, NEW i \in Slashes(q)
          PROVE  i \in Slashes(p)
        <3>1. i \in 1..Len(q) /\ q[i] = Slash
            BY <1>1 DEF Slashes
        <3>2. i \in 1..Len(p)
            BY <1>1, <2>2, <3>1
        <3>. QED  BY <1>1, <1>2, <3>1, <3>2 DEF Slashes
    <2>. QED  BY <1>6, <2>1, <2>2
<1>8. Cardinality(Slashes(q)) = Cardinality(Slashes(p)) <=> Slashes(q) = Slashes(p)
    BY <1>5, <1>6, FS_Subset
<1>. QED  BY <1>4, <1>5, <1>7, <1>8
-----------------------------------------------------------------------------
(***************************************************************************)
(* The lines of a proper catalog                                           *)
(***************************************************************************)
(* The line at a location, which counts from 0.                            *)
At(c, k) == Entries(c)[k + 1]
Locations == 0..(catalog_len - 1)

(* Every location of a proper catalog has a line with the depth of its     *)
(* path.                                                                   *)
LEMMA AtType ==
    ASSUME NEW c \in Catalogs, Proper(c), NEW k \in Locations
    PROVE  /\ At(c, k) \in Entry /\ k + 1 \in DOMAIN c.lines
           /\ At(c, k).path \in Path /\ At(c, k).depth \in Int
           /\ At(c, k).depth = findDepth(At(c, k).path)
<1>1. c.lines \in Seq(Line) /\ Len(c.lines) = catalog_len
    BY DaemonAssumption DEF Proper, Fits, CatalogFile
<1>2. k + 1 \in 1..catalog_len /\ DOMAIN c.lines = 1..catalog_len
    BY <1>1, CatalogLenAssumption DEF Locations
<1>3. c.lines[k + 1] \in Line
    BY <1>1, <1>2
<1>4. At(c, k) = ParseEntry(c.lines[k + 1], <<>>)
    BY <1>2 DEF At, Entries
<1>5. At(c, k) \in Entry
    BY <1>3, <1>4, ParseEntryType, EmptyTypes
<1>6. At(c, k).depth = findDepth(At(c, k).path)
    BY <1>2 DEF At, Proper, DepthsRight
<1>. QED  BY <1>2, <1>5, <1>6 DEF Entry

(* The lines are ordered by depth, and by strcmp within a depth.           *)
LEMMA AtOrdered ==
    ASSUME NEW c \in Catalogs, Proper(c),
           NEW i \in Locations, NEW j \in Locations, i < j
    PROVE  /\ At(c, i).depth <= At(c, j).depth
           /\ At(c, i).depth = At(c, j).depth => StrLess(At(c, i).path, At(c, j).path)
<1>1. /\ i + 1 \in DOMAIN c.lines /\ j + 1 \in DOMAIN c.lines
      /\ At(c, i).depth \in Int /\ At(c, j).depth \in Int
    BY AtType
<1>2. i + 1 < j + 1
    BY DEF Locations
<1>3. \/ At(c, i).depth < At(c, j).depth
      \/ At(c, i).depth = At(c, j).depth /\ StrLess(At(c, i).path, At(c, j).path)
    BY <1>1, <1>2 DEF Proper, Ordered, At
<1>. QED  BY <1>1, <1>3

(* Every line called path is between low and high.                         *)
InWindow(c, path, low, high) ==
    \A k \in Locations : At(c, k).path = path => low <= k /\ k <= high

(* The lines from low to high have the depth of path.                      *)
Run(c, path, low, high) ==
    \A k \in Locations : low <= k /\ k <= high => At(c, k).depth = findDepth(path)

(* A line of smaller depth has nothing of the path's depth before it ...   *)
LEMMA NothingBelow ==
    ASSUME NEW c \in Catalogs, Proper(c), NEW path \in Path, NEW m \in Locations,
           NEW low \in Int, NEW high \in Int, InWindow(c, path, low, high),
           \/ At(c, m).depth < findDepth(path)
           \/ At(c, m).depth = findDepth(path) /\ StrLess(At(c, m).path, path)
    PROVE  InWindow(c, path, m + 1, high)
<1>. SUFFICES ASSUME NEW k \in Locations, At(c, k).path = path
              PROVE  m + 1 <= k /\ k <= high
    BY DEF InWindow
<1>1. k <= high /\ k \in Int /\ m \in Int
    BY DEF InWindow, Locations
<1>2. At(c, k).depth = findDepth(path) /\ At(c, k).depth \in Int
    BY AtType
<1>3. At(c, m).depth \in Int /\ At(c, m).path \in Path
    BY AtType
<1>4. CASE k = m
    <2>1. ~StrLess(path, path)
        BY StrLessIrreflexive
    <2>. QED  BY <1>2, <1>4, <2>1
<1>5. CASE k < m
    <2>1. /\ At(c, k).depth <= At(c, m).depth
          /\ At(c, k).depth = At(c, m).depth => StrLess(path, At(c, m).path)
        BY <1>5, AtOrdered
    <2>2. StrLess(path, At(c, m).path) /\ StrLess(At(c, m).path, path)
        BY <1>2, <1>3, <2>1
    <2>3. StrLess(path, path)
        BY <1>3, <2>2, StrLessTransitive
    <2>. QED  BY <2>3, StrLessIrreflexive
<1>. QED  BY <1>1, <1>4, <1>5

(* ... and one of greater depth nothing after it; within the depth strcmp  *)
(* says the same.                                                          *)
LEMMA NothingAbove ==
    ASSUME NEW c \in Catalogs, Proper(c), NEW path \in Path, NEW m \in Locations,
           NEW low \in Int, NEW high \in Int, InWindow(c, path, low, high),
           \/ At(c, m).depth > findDepth(path)
           \/ At(c, m).depth = findDepth(path) /\ StrLess(path, At(c, m).path)
    PROVE  InWindow(c, path, low, m - 1)
<1>. SUFFICES ASSUME NEW k \in Locations, At(c, k).path = path
              PROVE  low <= k /\ k <= m - 1
    BY DEF InWindow
<1>1. low <= k /\ k \in Int /\ m \in Int
    BY DEF InWindow, Locations
<1>2. At(c, k).depth = findDepth(path) /\ At(c, k).depth \in Int
    BY AtType
<1>3. At(c, m).depth \in Int /\ At(c, m).path \in Path
    BY AtType
<1>4. CASE k = m
    <2>1. ~StrLess(path, path)
        BY StrLessIrreflexive
    <2>. QED  BY <1>2, <1>4, <2>1
<1>5. CASE m < k
    <2>1. /\ At(c, m).depth <= At(c, k).depth
          /\ At(c, m).depth = At(c, k).depth => StrLess(At(c, m).path, path)
        BY <1>5, AtOrdered
    <2>2. StrLess(path, At(c, m).path) /\ StrLess(At(c, m).path, path)
        BY <1>2, <1>3, <2>1
    <2>3. StrLess(path, path)
        BY <1>3, <2>2, StrLessTransitive
    <2>. QED  BY <2>3, StrLessIrreflexive
<1>. QED  BY <1>1, <1>4, <1>5
-----------------------------------------------------------------------------
(***************************************************************************)
(* The search                                                              *)
(***************************************************************************)
(* What a search of a proper catalog has found out: the wanted line, if    *)
(* there is one, is in the window, and the lines that the widening loops   *)
(* have passed have the wanted depth.                                      *)
SearchKnows(c, s) ==
    /\ s.phase # "done" => InWindow(c, s.path, s.low, s.high)
    /\ s.phase = "lowest" => Run(c, s.path, s.idx + 1, s.mid)
    /\ s.phase = "highest" => Run(c, s.path, s.low, s.idx - 1)
    /\ s.phase = "bisect" => Run(c, s.path, s.low, s.high)
    /\ s.phase = "done" /\ s.result < 0 =>
            \A k \in Locations : At(c, k).path # s.path
    /\ s.phase = "done" /\ s.result >= 0 => At(c, s.result).path = s.path

(* What a step of the search leaves behind.                                *)
Goes(c, s, u) == SearchKnows(c, u) /\ u.path = s.path

(* An empty window has no wanted line.                                     *)
LEMMA HalveGoes ==
    ASSUME NEW c \in Catalogs, NEW s \in Search, NEW phase \in {"index", "bisect"},
           InWindow(c, s.path, s.low, s.high),
           phase = "bisect" => Run(c, s.path, s.low, s.high)
    PROVE  Goes(c, s, Halve(s, phase))
<1>. s.low \in Int /\ s.high \in Int
    BY DEF Search
<1>1. CASE s.low <= s.high
    <2>. DEFINE m == calculateMid(s.low, s.high)
                u == [s EXCEPT !.phase = phase, !.mid = m]
    <2>1. Halve(s, phase) = u
        BY <1>1 DEF Halve
    <2>. HIDE DEF m
    <2>2. u.phase = phase /\ u.path = s.path /\ u.low = s.low /\ u.high = s.high
        BY DEF Search
    <2>. HIDE DEF u
    <2>. QED  BY <2>1, <2>2 DEF Goes, SearchKnows
<1>2. CASE ~(s.low <= s.high)
    <2>. DEFINE u == Finish(s, -1)
    <2>1. Halve(s, phase) = u
        BY <1>2 DEF Halve
    <2>2. u.phase = "done" /\ u.path = s.path /\ u.result = -1
        BY DEF Finish, Search
    <2>. HIDE DEF u
    <2>3. \A k \in Locations : At(c, k).path # s.path
        BY <1>2 DEF InWindow, Locations
    <2>. QED  BY <2>1, <2>2, <2>3 DEF Goes, SearchKnows
<1>. QED  BY <1>1, <1>2

(* find_highest_index goes on from a line of the wanted depth.             *)
LEMMA RaiseHighGoes ==
    ASSUME NEW c \in Catalogs, NEW s \in Search,
           InWindow(c, s.path, s.low, s.high), Run(c, s.path, s.low, s.idx),
           s.idx <= s.high
    PROVE  Goes(c, s, RaiseHigh(s))
<1>. s.low \in Int /\ s.high \in Int /\ s.idx \in Int
    BY DEF Search
<1>1. CASE s.idx + 1 > s.high
    <2>. DEFINE u == [s EXCEPT !.high = s.idx]
    <2>1. u \in Search /\ u.low = s.low /\ u.high = s.idx /\ u.path = s.path
        BY DEF Search
    <2>2. RaiseHigh(s) = Halve(u, "bisect")
        BY <1>1 DEF RaiseHigh
    <2>. HIDE DEF u
    <2>3. s.high = s.idx
        BY <1>1
    <2>4. Goes(c, u, Halve(u, "bisect"))
        BY <2>1, <2>3, HalveGoes
    <2>. QED  BY <2>1, <2>2, <2>4 DEF Goes
<1>2. CASE ~(s.idx + 1 > s.high)
    <2>. DEFINE k == s.idx + 1
                u == [s EXCEPT !.phase = "highest", !.idx = k]
    <2>1. k \in Int /\ k - 1 = s.idx
        OBVIOUS
    <2>2. RaiseHigh(s) = u
        BY <1>2 DEF RaiseHigh
    <2>. HIDE DEF k
    <2>3. /\ u.phase = "highest" /\ u.idx = k /\ u.path = s.path
          /\ u.low = s.low /\ u.high = s.high
        BY DEF Search
    <2>. HIDE DEF u
    <2>. QED  BY <2>1, <2>2, <2>3 DEF Goes, SearchKnows
<1>. QED  BY <1>1, <1>2

(* find_lowest_index goes on from a line of the wanted depth.              *)
LEMMA LowerLowGoes ==
    ASSUME NEW c \in Catalogs, NEW s \in Search,
           InWindow(c, s.path, s.low, s.high), Run(c, s.path, s.idx, s.mid),
           s.low <= s.idx, s.mid <= s.high
    PROVE  Goes(c, s, LowerLow(s))
<1>. s.low \in Int /\ s.high \in Int /\ s.idx \in Int /\ s.mid \in Int
    BY DEF Search
<1>1. CASE s.idx - 1 < s.low
    <2>. DEFINE u == [s EXCEPT !.low = s.idx, !.idx = s.mid]
    <2>1. /\ u \in Search /\ u.low = s.idx /\ u.high = s.high
          /\ u.idx = s.mid /\ u.path = s.path
        BY DEF Search
    <2>2. LowerLow(s) = RaiseHigh(u)
        BY <1>1 DEF LowerLow
    <2>. HIDE DEF u
    <2>3. s.low = s.idx
        BY <1>1
    <2>4. Goes(c, u, RaiseHigh(u))
        BY <2>1, <2>3, RaiseHighGoes
    <2>. QED  BY <2>1, <2>2, <2>4 DEF Goes
<1>2. CASE ~(s.idx - 1 < s.low)
    <2>. DEFINE k == s.idx - 1
                u == [s EXCEPT !.phase = "lowest", !.idx = k]
    <2>1. k \in Int /\ k + 1 = s.idx
        OBVIOUS
    <2>2. LowerLow(s) = u
        BY <1>2 DEF LowerLow
    <2>. HIDE DEF k
    <2>3. /\ u.phase = "lowest" /\ u.idx = k /\ u.path = s.path /\ u.mid = s.mid
          /\ u.low = s.low /\ u.high = s.high
        BY DEF Search
    <2>. HIDE DEF u
    <2>. QED  BY <2>1, <2>2, <2>3 DEF Goes, SearchKnows
<1>. QED  BY <1>1, <1>2

(* An answered probe takes the search on, and it keeps what it knows: this *)
(* is where the order of the catalog is needed.                            *)
LEMMA SearchStepGoes ==
    ASSUME NEW c \in Catalogs, Proper(c), NEW s \in Search, SearchInRange(s),
           s.phase # "done", SearchKnows(c, s)
    PROVE  Goes(c, s, SearchStep(s, At(c, Target(s))))
<1>. DEFINE e == At(c, Target(s))
            d == findDepth(s.path)
<1>1. /\ s.low \in Int /\ s.high \in Int /\ s.mid \in Int /\ s.idx \in Int
      /\ s.path \in Path /\ s.phase \in {"index", "lowest", "highest", "bisect", "done"}
    BY DEF Search
<1>2. 0 <= s.low /\ s.high < catalog_len /\ InWindow(c, s.path, s.low, s.high)
    BY DEF SearchInRange, SearchKnows
<1>3. Target(s) \in Locations
    BY <1>1, <1>2, CatalogLenAssumption DEF SearchInRange, Target, Locations
<1>4. e.depth \in Int /\ e.path \in Path /\ d \in Int
    BY <1>1, <1>3, AtType, DepthType
<1>5. CASE s.phase = "index"
    <2>1. Target(s) = s.mid /\ s.low <= s.mid /\ s.mid <= s.high
        BY <1>5 DEF Target, SearchInRange
    <2>2. SearchStep(s, e) = find_index(s, e)
        BY <1>5 DEF SearchStep
    <2>. HIDE DEF e
    <2>3. CASE e.depth = d
        <3>. DEFINE u == [s EXCEPT !.idx = s.mid]
        <3>1. /\ u \in Search /\ u.low = s.low /\ u.high = s.high
              /\ u.mid = s.mid /\ u.idx = s.mid /\ u.path = s.path
            BY DEF Search
        <3>2. find_index(s, e) = LowerLow(u)
            BY <2>3 DEF find_index
        <3>. HIDE DEF u
        <3>3. Run(c, s.path, s.mid, s.mid)
            BY <1>1, <2>1, <2>3 DEF Run, Locations, e
        <3>4. Goes(c, u, LowerLow(u))
            BY <1>1, <1>2, <2>1, <3>1, <3>3, LowerLowGoes
        <3>. QED  BY <2>2, <3>1, <3>2, <3>4 DEF Goes, e
    <2>4. CASE e.depth < d
        <3>. DEFINE m == s.mid + 1
                    u == [s EXCEPT !.low = m]
        <3>1. m \in Int
            BY <1>1
        <3>2. find_index(s, e) = Halve(u, "index")
            BY <1>4, <2>4 DEF find_index
        <3>3. InWindow(c, s.path, m, s.high)
            BY <1>1, <1>2, <1>3, <2>1, <2>4, NothingBelow DEF e
        <3>. HIDE DEF m
        <3>4. u \in Search /\ u.low = m /\ u.high = s.high /\ u.path = s.path
            BY <3>1 DEF Search
        <3>. HIDE DEF u
        <3>5. Goes(c, u, Halve(u, "index"))
            BY <3>3, <3>4, HalveGoes
        <3>. QED  BY <2>2, <3>2, <3>4, <3>5 DEF Goes, e
    <2>5. CASE e.depth > d
        <3>. DEFINE m == s.mid - 1
                    u == [s EXCEPT !.high = m]
        <3>1. m \in Int
            BY <1>1
        <3>2. find_index(s, e) = Halve(u, "index")
            BY <1>4, <2>5 DEF find_index
        <3>3. InWindow(c, s.path, s.low, m)
            BY <1>1, <1>2, <1>3, <2>1, <2>5, NothingAbove DEF e
        <3>. HIDE DEF m
        <3>4. u \in Search /\ u.low = s.low /\ u.high = m /\ u.path = s.path
            BY <3>1 DEF Search
        <3>. HIDE DEF u
        <3>5. Goes(c, u, Halve(u, "index"))
            BY <3>3, <3>4, HalveGoes
        <3>. QED  BY <2>2, <3>2, <3>4, <3>5 DEF Goes, e
    <2>. QED  BY <1>4, <2>3, <2>4, <2>5
<1>6. CASE s.phase = "lowest"
    <2>1. /\ Target(s) = s.idx /\ s.low <= s.idx /\ s.idx < s.mid /\ s.mid <= s.high
          /\ Run(c, s.path, s.idx + 1, s.mid)
        BY <1>6 DEF Target, SearchInRange, SearchKnows
    <2>2. SearchStep(s, e) = find_lowest_index(s, e)
        BY <1>6 DEF SearchStep
    <2>. HIDE DEF e
    <2>3. CASE e.depth = d
        <3>1. find_lowest_index(s, e) = LowerLow(s)
            BY <2>3 DEF find_lowest_index
        <3>2. Run(c, s.path, s.idx, s.mid)
            BY <1>1, <2>1, <2>3 DEF Run, Locations, e
        <3>. QED  BY <1>2, <2>1, <2>2, <3>1, <3>2, LowerLowGoes DEF e
    <2>4. CASE e.depth # d
        <3>. DEFINE m == s.idx + 1
                    u == [s EXCEPT !.low = m, !.idx = s.mid]
        <3>1. m \in Int /\ Run(c, s.path, m, s.mid)
            BY <1>1, <2>1
        <3>2. find_lowest_index(s, e) = RaiseHigh(u)
            BY <2>4 DEF find_lowest_index
        <3>3. At(c, s.mid).depth = d /\ s.idx \in Locations /\ s.mid \in Locations
            BY <1>1, <1>2, <2>1, CatalogLenAssumption DEF Run, Locations
        <3>4. e.depth < d
            BY <1>4, <2>1, <2>4, <3>3, AtOrdered DEF e
        <3>5. InWindow(c, s.path, m, s.high)
            BY <1>1, <1>2, <1>3, <2>1, <3>4, NothingBelow DEF e
        <3>. HIDE DEF m
        <3>6. /\ u \in Search /\ u.low = m /\ u.high = s.high
              /\ u.idx = s.mid /\ u.path = s.path
            BY <3>1 DEF Search
        <3>. HIDE DEF u
        <3>7. Goes(c, u, RaiseHigh(u))
            BY <2>1, <3>1, <3>5, <3>6, RaiseHighGoes
        <3>. QED  BY <2>2, <3>2, <3>6, <3>7 DEF Goes, e
    <2>. QED  BY <2>3, <2>4
<1>7. CASE s.phase = "highest"
    <2>1. /\ Target(s) = s.idx /\ s.low <= s.mid /\ s.mid < s.idx /\ s.idx <= s.high
          /\ Run(c, s.path, s.low, s.idx - 1)
        BY <1>7 DEF Target, SearchInRange, SearchKnows
    <2>2. SearchStep(s, e) = find_highest_index(s, e)
        BY <1>7 DEF SearchStep
    <2>. HIDE DEF e
    <2>3. CASE e.depth = d
        <3>1. find_highest_index(s, e) = RaiseHigh(s)
            BY <2>3 DEF find_highest_index
        <3>2. Run(c, s.path, s.low, s.idx)
            BY <1>1, <2>1, <2>3 DEF Run, Locations, e
        <3>. QED  BY <1>2, <2>1, <2>2, <3>1, <3>2, RaiseHighGoes DEF e
    <2>4. CASE e.depth # d
        <3>. DEFINE m == s.idx - 1
                    u == [s EXCEPT !.high = m]
        <3>1. m \in Int /\ Run(c, s.path, s.low, m)
            BY <1>1, <2>1
        <3>2. find_highest_index(s, e) = Halve(u, "bisect")
            BY <2>4 DEF find_highest_index
        <3>3. At(c, s.mid).depth = d /\ s.idx \in Locations /\ s.mid \in Locations
            BY <1>1, <1>2, <2>1, CatalogLenAssumption DEF Run, Locations
        <3>4. e.depth > d
            BY <1>4, <2>1, <2>4, <3>3, AtOrdered DEF e
        <3>5. InWindow(c, s.path, s.low, m)
            BY <1>1, <1>2, <1>3, <2>1, <3>4, NothingAbove DEF e
        <3>. HIDE DEF m
        <3>6. u \in Search /\ u.low = s.low /\ u.high = m /\ u.path = s.path
            BY <3>1 DEF Search
        <3>. HIDE DEF u
        <3>7. Goes(c, u, Halve(u, "bisect"))
            BY <3>1, <3>5, <3>6, HalveGoes
        <3>. QED  BY <2>2, <3>2, <3>6, <3>7 DEF Goes, e
    <2>. QED  BY <2>3, <2>4
<1>8. CASE s.phase = "bisect"
    <2>1. /\ Target(s) = s.mid /\ s.low <= s.mid /\ s.mid <= s.high
          /\ Run(c, s.path, s.low, s.high)
        BY <1>8 DEF Target, SearchInRange, SearchKnows
    <2>2. SearchStep(s, e) = bisect(s, e)
        BY <1>8 DEF SearchStep
    <2>3. e.depth = d
        BY <1>1, <1>3, <2>1 DEF Run
    <2>. HIDE DEF e
    <2>4. CASE e.path = s.path
        <3>. DEFINE u == Finish(s, s.mid)
        <3>1. bisect(s, e) = u
            BY <2>4 DEF bisect, strcmp
        <3>2. u.phase = "done" /\ u.path = s.path /\ u.result = s.mid
            BY DEF Finish, Search
        <3>. HIDE DEF u
        <3>3. s.mid >= 0 /\ At(c, s.mid).path = s.path
            BY <1>1, <1>2, <2>1, <2>4 DEF e
        <3>. QED  BY <1>1, <2>2, <3>1, <3>2, <3>3 DEF Goes, SearchKnows, e
    <2>5. CASE e.path # s.path /\ StrLess(e.path, s.path)
        <3>. DEFINE m == s.mid + 1
                    u == [s EXCEPT !.low = m]
        <3>1. m \in Int /\ Run(c, s.path, m, s.high)
            BY <1>1, <2>1 DEF Run, Locations
        <3>2. bisect(s, e) = Halve(u, "bisect")
            BY <2>5 DEF bisect, strcmp
        <3>3. InWindow(c, s.path, m, s.high)
            BY <1>1, <1>2, <1>3, <2>1, <2>3, <2>5, NothingBelow DEF e
        <3>. HIDE DEF m
        <3>4. u \in Search /\ u.low = m /\ u.high = s.high /\ u.path = s.path
            BY <3>1 DEF Search
        <3>. HIDE DEF u
        <3>5. Goes(c, u, Halve(u, "bisect"))
            BY <3>1, <3>3, <3>4, HalveGoes
        <3>. QED  BY <2>2, <3>2, <3>4, <3>5 DEF Goes, e
    <2>6. CASE e.path # s.path /\ ~StrLess(e.path, s.path)
        <3>. DEFINE m == s.mid - 1
                    u == [s EXCEPT !.high = m]
        <3>1. m \in Int /\ Run(c, s.path, s.low, m)
            BY <1>1, <2>1 DEF Run, Locations
        <3>2. bisect(s, e) = Halve(u, "bisect")
            BY <2>6 DEF bisect, strcmp
        <3>3. StrLess(s.path, e.path)
            BY <1>1, <1>4, <2>6, StrLessTotal
        <3>4. InWindow(c, s.path, s.low, m)
            BY <1>1, <1>2, <1>3, <2>1, <2>3, <3>3, NothingAbove DEF e
        <3>. HIDE DEF m
        <3>5. u \in Search /\ u.low = s.low /\ u.high = m /\ u.path = s.path
            BY <3>1 DEF Search
        <3>. HIDE DEF u
        <3>6. Goes(c, u, Halve(u, "bisect"))
            BY <3>1, <3>4, <3>5, HalveGoes
        <3>. QED  BY <2>2, <3>2, <3>5, <3>6 DEF Goes, e
    <2>. QED  BY <2>4, <2>5, <2>6
<1>. QED  BY <1>1, <1>5, <1>6, <1>7, <1>8

(* No step of the search forgets the path.                                 *)
LEMMA StepKeepsPath ==
    ASSUME NEW s \in Search, SearchInRange(s), s.phase # "done", NEW e,
           e.path \in Path, e.depth \in Int
    PROVE  SearchStep(s, e).path = s.path
BY DEF Search, SearchStep, find_index, find_lowest_index, find_highest_index,
       bisect, LowerLow, RaiseHigh, Halve, Finish

(* The search of an absolute path starts with the whole catalog as its     *)
(* window.                                                                 *)
LEMMA BinSearchGoes ==
    ASSUME NEW path \in Path, Absolute(path)
    PROVE  /\ binSearch(path).phase = "index" /\ binSearch(path).path = path
           /\ \A c \in Catalogs : SearchKnows(c, binSearch(path))
<1>. DEFINE last == catalog_len - 1
            s == [NoSearch EXCEPT !.path = path, !.low = 0, !.high = last]
            m == calculateMid(0, last)
            u == [s EXCEPT !.phase = "index", !.mid = m]
<1>1. last \in Int /\ 0 <= last
    BY CatalogLenAssumption
<1>2. findDepth(path) > 0 /\ findDepth(path) \in Nat
    BY AbsoluteDepth
<1>3. binSearch(path) = Halve(s, "index")
    BY <1>2 DEF binSearch
<1>4. Locations = 0..last
    BY DEF Locations
<1>. HIDE DEF last
<1>5. s.low = 0 /\ s.high = last /\ s.path = path
    BY DEF NoSearch
<1>6. Halve(s, "index") = u
    BY <1>1, <1>5 DEF Halve
<1>. HIDE DEF m
<1>7. u.phase = "index" /\ u.path = path /\ u.low = 0 /\ u.high = last
    BY DEF NoSearch
<1>. HIDE DEF u, s
<1>8. ASSUME NEW c \in Catalogs
      PROVE  SearchKnows(c, u)
    BY <1>1, <1>4, <1>7 DEF SearchKnows, InWindow
<1>. QED  BY <1>3, <1>6, <1>7, <1>8
-----------------------------------------------------------------------------
(***************************************************************************)
(* The listing of a directory                                              *)
(***************************************************************************)
(* The line at k passes the test of get_directory_contents.                *)
InDir(c, P, k) == At(c, k).depth = findDepth(P) /\ IsPrefix(P, At(c, k).path)

(* The scan of directory P, whose own line is at low, ended with high.     *)
ScanEnded(c, P, low, high) ==
    /\ low \in Locations /\ high \in Locations /\ low <= high
    /\ At(c, low).path = P
    /\ \A k \in (low + 1)..high : InDir(c, P, k)
    /\ high + 1 \in Locations => ~InDir(c, P, high + 1)

(* A directory's path with its slash is absolute if the path is.           *)
LEMMA DirPathAbsolute ==
    ASSUME NEW path \in Path, Absolute(path)
    PROVE  DirPath(path) \in Path /\ Absolute(DirPath(path))
<1>1. Slash \in Byte
    BY DEF Slash, Byte
<1>2. Len(path) # 0 /\ Len(path) \in Nat
    BY DEF Absolute, Path
<1>3. CASE path = Root
    BY <1>3 DEF DirPath
<1>4. CASE path # Root
    <2>. DEFINE q == Append(path, Slash)
    <2>1. DirPath(path) = q
        BY <1>4 DEF DirPath
    <2>2. q \in Path /\ Len(q) = Len(path) + 1 /\ q[1] = path[1]
        BY <1>1, <1>2 DEF Path
    <2>. HIDE DEF q
    <2>3. q # <<>>
        BY <1>2, <2>2
    <2>. QED  BY <2>1, <2>2, <2>3 DEF Absolute
<1>. QED  BY <1>3, <1>4

(* Exactly the lines that the scan passed are the children.                *)
LEMMA ScannedAreChildren ==
    ASSUME NEW c \in Catalogs, Proper(c), NEW dir \in Path, Absolute(dir),
           NEW low \in Int, NEW high \in Int, ScanEnded(c, DirPath(dir), low, high),
           NEW k \in Locations
    PROVE  IsChild(dir, At(c, k).path) <=> k \in (low + 1)..high
<1>. DEFINE P == DirPath(dir)
            q == At(c, k).path
<1>1. P \in Path /\ Absolute(P) /\ q \in Path
    BY DirPathAbsolute, AtType
<1>2. /\ low \in Locations /\ high \in Locations /\ At(c, low).path = P
      /\ k \in Int /\ catalog_len \in Int
    BY CatalogLenAssumption DEF ScanEnded, Locations
<1>3. At(c, low).depth = findDepth(P) /\ At(c, k).depth = findDepth(q)
    BY <1>2, AtType
<1>4. findDepth(P) \in Int /\ findDepth(q) \in Int
    BY <1>1, DepthType
<1>5. IsChild(dir, q) <=> /\ IsStrictPrefix(P, q)
                          /\ \A i \in (Len(P) + 1)..Len(q) : q[i] # Slash
    BY DEF IsChild
<1>6. ASSUME k \in (low + 1)..high
      PROVE  IsChild(dir, q)
    <2>1. findDepth(q) = findDepth(P) /\ IsPrefix(P, q)
        BY <1>3, <1>6 DEF ScanEnded, InDir
    <2>2. StrLess(P, q)
        BY <1>2, <1>3, <1>6, <2>1, AtOrdered
    <2>3. P # q
        BY <1>1, <2>2, StrLessIrreflexive
    <2>. QED  BY <1>1, <1>5, <2>1, <2>3, SameDepth DEF IsStrictPrefix
<1>7. ASSUME IsChild(dir, q)
      PROVE  k \in (low + 1)..high
    <2>1. IsPrefix(P, q) /\ P # q /\ StrLess(P, q)
        BY <1>1, <1>5, <1>7, PrefixLess DEF IsStrictPrefix
    <2>2. findDepth(q) = findDepth(P)
        BY <1>1, <1>5, <1>7, <2>1, SameDepth
    <2>3. low < k
        <3>1. CASE k = low
            BY <1>2, <2>1, <3>1
        <3>2. CASE k < low
            <4>1. StrLess(q, P)
                BY <1>2, <1>3, <2>2, <3>2, AtOrdered
            <4>2. StrLess(P, P)
                BY <1>1, <2>1, <4>1, StrLessTransitive
            <4>. QED  BY <1>1, <4>2, StrLessIrreflexive
        <3>. QED  BY <1>2, <3>1, <3>2 DEF Locations
    <2>4. k <= high
        <3>. SUFFICES ASSUME high < k PROVE FALSE
            BY <1>2 DEF Locations
        <3>. DEFINE h == high + 1
                    r == At(c, h).path
        <3>1. h \in Locations /\ low < h /\ h <= k
            BY <1>2 DEF ScanEnded, Locations
        <3>2. ~InDir(c, P, h)
            BY <3>1 DEF ScanEnded
        <3>. HIDE DEF h
        <3>3. CASE h = k
            BY <1>3, <2>1, <2>2, <3>2, <3>3 DEF InDir
        <3>4. CASE h # k
            <4>1. h < k
                BY <1>2, <3>1, <3>4 DEF Locations
            <4>2. /\ findDepth(P) <= At(c, h).depth /\ At(c, h).depth <= findDepth(P)
                  /\ At(c, h).depth \in Int /\ r \in Path
                BY <1>2, <1>3, <2>2, <3>1, <4>1, AtOrdered, AtType
            <4>3. At(c, h).depth = findDepth(P)
                BY <1>4, <4>2
            <4>4. StrLess(P, r) /\ StrLess(r, q)
                BY <1>2, <1>3, <2>2, <3>1, <4>1, <4>3, AtOrdered
            <4>5. IsPrefix(P, r)
                BY <1>1, <2>1, <4>2, <4>4, PrefixBetween
            <4>. QED  BY <3>2, <4>3, <4>5 DEF InDir
        <3>. QED  BY <3>3, <3>4
    <2>. QED  BY <1>2, <2>3, <2>4
<1>. QED  BY <1>6, <1>7

(* f gathers the children among the first k lines, for every k up to n.    *)
Gathers(f, es, dir, n) ==
    f = [k \in 0..n |-> IF k = 0 THEN <<>>
                        ELSE IF IsChild(dir, es[k].path) THEN Append(f[k - 1], es[k])
                        ELSE f[k - 1]]

(* Two functions that gather the children agree.                           *)
LEMMA GathersUnique ==
    ASSUME NEW es, NEW dir, NEW n \in Nat, NEW f, NEW g,
           Gathers(f, es, dir, n), Gathers(g, es, dir, n)
    PROVE  f[n] = g[n]
<1>. DEFINE Bad == {k \in 0..n : f[k] # g[k]}
            p == Min(Bad)
<1>1. SUFFICES ASSUME Bad # {} PROVE FALSE
    OBVIOUS
<1>2. Bad \subseteq Nat
    OBVIOUS
<1>. HIDE DEF Bad
<1>3. p \in Bad /\ \A y \in Bad : p <= y
    BY <1>1, <1>2, MinOfNats
<1>. HIDE DEF p
<1>. USE DEF Bad
<1>4. p \in 0..n /\ f[p] # g[p]
    BY <1>3
<1>5. CASE p = 0
    BY <1>4, <1>5 DEF Gathers
<1>6. CASE p # 0
    <2>1. p - 1 \in 0..n /\ p - 1 < p
        BY <1>4, <1>6
    <2>2. f[p - 1] = g[p - 1]
        BY <1>3, <2>1
    <2>. QED  BY <2>2, <1>4, <1>6 DEF Gathers
<1>. QED  BY <1>5, <1>6

(* The children of dir are the lines first+1 to last.                      *)
ChildrenBetween(c, dir, first, last) ==
    \A k \in 1..Len(Entries(c)) :
        IsChild(dir, Entries(c)[k].path) <=> k \in (first + 1)..last

(* Gathering them then gives this segment of the lines.                    *)
LEMMA ChildrenAreSegment ==
    ASSUME NEW c, NEW dir, NEW n \in Nat, Len(Entries(c)) = n,
           NEW first \in 0..n, NEW last \in 0..n, first <= last,
           ChildrenBetween(c, dir, first, last)
    PROVE  Children(c, dir) = [j \in 1..(last - first) |-> Entries(c)[first + j]]
<1>. DEFINE es == Entries(c)
<1>0. \A k \in 1..n : IsChild(dir, es[k].path) <=> k \in (first + 1)..last
    BY DEF ChildrenBetween
<1>a. Children(c, dir) = (CHOOSE h : Gathers(h, es, dir, n))[n]
    BY DEF Children, Gathers
<1>. HIDE DEF es
<1>. DEFINE Seg(m) == [j \in 1..m |-> es[first + j]]
            Upto(k) == IF k <= first THEN 0 ELSE IF k <= last THEN k - first
                       ELSE last - first
            g == [k \in 0..n |-> Seg(Upto(k))]
            f == CHOOSE h : Gathers(h, es, dir, n)
<1>1. Seg(0) = <<>>
    OBVIOUS
<1>2. ASSUME NEW m \in Nat
      PROVE  Append(Seg(m), es[first + (m + 1)]) = Seg(m + 1)
    OBVIOUS
<1>. HIDE DEF Seg
<1>3. ASSUME NEW k \in 0..n
      PROVE  g[k] = IF k = 0 THEN <<>>
                    ELSE IF IsChild(dir, es[k].path) THEN Append(g[k - 1], es[k])
                    ELSE g[k - 1]
    <2>1. CASE k = 0
        BY <1>1, <2>1
    <2>2. CASE k \in (first + 1)..last
        <3>. DEFINE m == (k - 1) - first
        <3>1. m \in Nat /\ Upto(k - 1) = m /\ Upto(k) = m + 1 /\ first + (m + 1) = k
            BY <2>2
        <3>2. k - 1 \in 0..n /\ k \in 1..n
            BY <2>2
        <3>. HIDE DEF m, Upto
        <3>3. g[k] = Seg(m + 1) /\ g[k - 1] = Seg(m)
            BY <3>1, <3>2
        <3>4. Append(Seg(m), es[k]) = Seg(m + 1)
            BY <1>2, <3>1
        <3>5. IsChild(dir, es[k].path) /\ k # 0
            BY <1>0, <2>2, <3>2
        <3>. QED  BY <3>3, <3>4, <3>5
    <2>3. CASE k # 0 /\ k \notin (first + 1)..last
        <3>1. k - 1 \in 0..n /\ k \in 1..n /\ Upto(k - 1) = Upto(k)
            BY <2>3
        <3>. HIDE DEF Upto
        <3>2. ~IsChild(dir, es[k].path)
            BY <1>0, <2>3, <3>1
        <3>3. g[k] = g[k - 1]
            BY <3>1
        <3>. QED  BY <2>3, <3>2, <3>3
    <2>. QED  BY <2>1, <2>2, <2>3
<1>4. Gathers(g, es, dir, n)
    BY <1>3 DEF Gathers
<1>5. Gathers(f, es, dir, n)
    BY <1>4
<1>6. Children(c, dir) = f[n]
    BY <1>a
<1>7. Upto(n) = last - first
    OBVIOUS
<1>. HIDE DEF f, Upto
<1>8. f[n] = g[n]
    BY <1>4, <1>5, GathersUnique
<1>. QED  BY <1>6, <1>7, <1>8 DEF Seg, es

(* What a listing holds when m lines after low have been taken up.         *)
Shown(c, low, m) ==
    [j \in 1..(m + 2) |-> IF j <= 2 THEN Dots[j] ELSE AsDirent(At(c, low + (j - 2)))]

(* It begins with "." and "..", and filler adds one line at a time.        *)
LEMMA ShownGrows ==
    ASSUME NEW c, NEW low \in Int, NEW m \in Nat
    PROVE  /\ Shown(c, low, 0) = Dots
           /\ Append(Shown(c, low, m), AsDirent(At(c, low + (m + 1))))
                = Shown(c, low, m + 1)
<1>1. Len(Dots) = 2 /\ DOMAIN Dots = 1..2 /\ Dots \in Seq(Dirent)
    <2>1. Len(Dots) = 2 /\ Dots \in Seq(Dirent)
        BY DotsType DEF Dots
    <2>. QED  BY <2>1
<1>2. Shown(c, low, 0) = Dots
    BY <1>1 DEF Shown
<1>. DEFINE D(j) == AsDirent(At(c, low + (j - 2)))
            s == [j \in 1..(m + 2) |-> IF j <= 2 THEN Dots[j] ELSE D(j)]
            t == [j \in 1..(m + 3) |-> IF j <= 2 THEN Dots[j] ELSE D(j)]
<1>3. D(m + 3) = AsDirent(At(c, low + (m + 1)))
    <2>1. low + ((m + 3) - 2) = low + (m + 1)
        OBVIOUS
    <2>. QED  BY <2>1
<1>. HIDE DEF D
<1>4. Append(s, D(m + 3)) = t
    OBVIOUS
<1>5. Shown(c, low, m) = s /\ Shown(c, low, m + 1) = t
    BY DEF Shown, D
<1>. QED  BY <1>2, <1>3, <1>4, <1>5

(* After a scan that ended, all of its lines make up the listing that the  *)
(* catalog implies.                                                        *)
LEMMA ListingIsShown ==
    ASSUME NEW c \in Catalogs, Proper(c), NEW dir \in Path, Absolute(dir),
           NEW low \in Int, NEW high \in Int, ScanEnded(c, DirPath(dir), low, high)
    PROVE  Listing(c, dir) = Shown(c, low, high - low)
<1>. DEFINE es == Entries(c)
            n == catalog_len
            first == low + 1
            last == high + 1
            m == high - low
            ch == Children(c, dir)
            D(j) == AsDirent(At(c, low + j))
            ds == [j \in 1..m |-> D(j)]
<1>1. /\ n \in Nat /\ Len(es) = n /\ low \in 0..(n - 1) /\ high \in 0..(n - 1)
      /\ low <= high
    <2>1. c.lines \in Seq(Line) /\ Len(c.lines) = n
        BY DaemonAssumption DEF Proper, Fits, CatalogFile
    <2>2. DOMAIN c.lines = 1..n /\ n \in Nat
        BY <2>1, CatalogLenAssumption
    <2>3. Len(es) = n
        BY <2>2 DEF Entries
    <2>. QED  BY <2>2, <2>3 DEF ScanEnded, Locations
<1>2. ASSUME NEW k \in 1..n
      PROVE  IsChild(dir, es[k].path) <=> k \in (first + 1)..last
    <2>1. k - 1 \in Locations /\ (k - 1) + 1 = k
        BY <1>1 DEF Locations
    <2>2. At(c, k - 1) = es[k]
        BY <2>1 DEF At
    <2>3. IsChild(dir, At(c, k - 1).path) <=> k - 1 \in (low + 1)..high
        BY <2>1, ScannedAreChildren
    <2>. QED  BY <1>1, <2>2, <2>3
<1>. HIDE DEF es
<1>3. ch = [j \in 1..(last - first) |-> es[first + j]]
    <2>1. first \in 0..n /\ last \in 0..n /\ first <= last
        BY <1>1
    <2>2. ChildrenBetween(c, dir, first, last)
        BY <1>1, <1>2 DEF ChildrenBetween, es
    <2>3. n \in Nat /\ Len(Entries(c)) = n
        BY <1>1 DEF es
    <2>. HIDE DEF first, last, n
    <2>4. Children(c, dir) = [j \in 1..(last - first) |-> Entries(c)[first + j]]
        BY <2>1, <2>2, <2>3, ChildrenAreSegment
    <2>. QED  BY <2>4 DEF es
<1>4. m \in Nat /\ last - first = m
    BY <1>1
<1>5. \A j \in 1..m : first + j = (low + j) + 1
    BY <1>1
<1>6. DOMAIN ch = 1..m /\ \A j \in 1..m : ch[j] = At(c, low + j)
    BY <1>3, <1>4, <1>5 DEF At, es
<1>. HIDE DEF ch, m, D
<1>7. Listing(c, dir) = Dots \o ds
    <2>1. [k \in DOMAIN ch |-> AsDirent(ch[k])] = ds
        BY <1>6 DEF D
    <2>. QED  BY <2>1 DEF Listing, ch
<1>8. Len(Dots) = 2 /\ DOMAIN Dots = 1..2
    BY DEF Dots
<1>9. Dots \o ds = [j \in 1..(m + 2) |-> IF j <= 2 THEN Dots[j] ELSE D(j - 2)]
    <2>1. ASSUME NEW j \in 1..m
          PROVE  D(j) \in Dirent
        <3>1. low + j \in Locations
            BY <1>1 DEF Locations, m
        <3>2. At(c, low + j) \in Entry
            BY <3>1, AtType
        <3>3. basename(At(c, low + j).path) \in Path /\ At(c, low + j).st \in Stat
            BY <3>2, BasenameType DEF Entry
        <3>. QED  BY <3>3 DEF D, AsDirent, Dirent
    <2>2. ds \in Seq(Dirent) /\ Len(ds) = m /\ Dots \in Seq(Dirent)
        BY <1>4, <2>1, DotsType
    <2>. HIDE DEF D
    <2>. DEFINE w == [j \in 1..(m + 2) |-> IF j <= 2 THEN Dots[j] ELSE D(j - 2)]
    <2>. HIDE DEF ds
    <2>3. ASSUME NEW j \in 1..(m + 2)
          PROVE  w[j] \in Dirent
        <3>1. CASE j <= 2
            <4>1. w[j] = Dots[j] /\ j \in 1..2
                BY <1>4, <3>1
            <4>2. \A i \in 1..2 : Dots[i] \in Dirent
                BY ONLY <1>8, <2>2, ElementOfSeq
            <4>. QED  BY <4>1, <4>2
        <3>2. CASE ~(j <= 2)
            <4>1. w[j] = D(j - 2) /\ j - 2 \in 1..m
                BY <1>4, <3>2
            <4>. QED  BY <2>1, <4>1
        <3>. QED  BY <3>1, <3>2
    <2>4. w \in Seq(Dirent) /\ Len(w) = m + 2
        BY <1>4, <2>3
    <2>a. /\ Dots \o ds \in Seq(Dirent)
          /\ Len(Dots \o ds) = Len(Dots) + Len(ds)
          /\ \A i \in 1..(Len(Dots) + Len(ds)) :
                (Dots \o ds)[i] = IF i <= Len(Dots) THEN Dots[i] ELSE ds[i - Len(Dots)]
        BY ONLY <2>2, ConcatProperties
    <2>5. ASSUME NEW j \in 1..(m + 2)
          PROVE  (Dots \o ds)[j] = w[j]
        <3>0. (Dots \o ds)[j] = IF j <= 2 THEN Dots[j] ELSE ds[j - 2]
            BY <1>4, <1>8, <2>2, <2>a
        <3>1. CASE j <= 2
            BY <1>4, <3>0, <3>1
        <3>2. CASE ~(j <= 2)
            <4>1. j - 2 \in 1..m
                BY <1>4, <3>2
            <4>2. (Dots \o ds)[j] = ds[j - 2]
                BY <3>0, <3>2
            <4>3. w[j] = D(j - 2) /\ ds[j - 2] = D(j - 2)
                BY <3>2, <4>1 DEF ds
            <4>. QED  BY <4>2, <4>3
        <3>. QED  BY <3>1, <3>2
    <2>6. Dots \o ds \in Seq(Dirent) /\ Len(Dots \o ds) = m + 2
        BY <1>4, <1>8, <2>2, <2>a
    <2>. HIDE DEF w
    <2>7. Dots \o ds = w
        BY <2>4, <2>5, <2>6, SeqEqual
    <2>. QED  BY <2>7 DEF w
<1>10. Shown(c, low, m) = [j \in 1..(m + 2) |-> IF j <= 2 THEN Dots[j] ELSE D(j - 2)]
    BY DEF Shown, D
<1>. QED  BY <1>7, <1>9, <1>10 DEF m
-----------------------------------------------------------------------------
(***************************************************************************)
(* Reading a line                                                          *)
(***************************************************************************)
(* What the answers need besides a proper catalog: read() does not fail,   *)
(* the byte offset of the last line fits into an int, libfuse hands over   *)
(* absolute paths only, and the line of a link has its '\2'.               *)
LinksSplit ==
    \A c \in Catalogs : Proper(c) =>
        \A k \in DOMAIN c.lines : c.lines[k].c = "l" =>
            \E i \in DOMAIN UpTo(c.lines[k].text, Sep) :
                UpTo(c.lines[k].text, Sep)[i] = LinkSep

Reliable ==
    /\ ~ReadMayFail
    /\ entry_size * (catalog_len - 1) <= INT_MAX
    /\ \A path \in Paths : Absolute(path)
    /\ LinksSplit

(* Truncation leaves a small offset alone, and it is the start of a line.  *)
LEMMA SmallOffset ==
    ASSUME Reliable, NEW k \in Locations
    PROVE  /\ Offset(k) >= 0 /\ Offset(k) \in Int
           /\ Offset(k) \div entry_size = k /\ Offset(k) % entry_size = 0
<1>. DEFINE n == entry_size * k
            M == INT_MAX + 1
<1>1. /\ k \in Nat /\ entry_size \in Nat /\ entry_size > 0 /\ catalog_len \in Nat
      /\ k <= catalog_len - 1 /\ INT_MAX \in Nat
    BY DaemonAssumption, CatalogLenAssumption DEF Locations
<1>2. n \in Nat /\ n <= entry_size * (catalog_len - 1)
    BY <1>1
<1>3. n <= INT_MAX
    BY <1>1, <1>2 DEF Reliable
<1>4. n \div entry_size = k /\ n % entry_size = 0
    BY <1>1
<1>. HIDE DEF n
<1>5. M \in Nat /\ n + M \in Nat /\ n + M < 2 * M
    BY <1>1, <1>2, <1>3
<1>6. Offset(k) = ((n + M) % (2 * M)) - M
    BY <1>1, <1>2 DEF Offset, n
<1>. HIDE DEF M
<1>7. (n + M) % (2 * M) = n + M
    BY <1>5
<1>8. Offset(k) = n
    BY <1>2, <1>5, <1>6, <1>7
<1>. QED  BY <1>2, <1>4, <1>8

(* A read inside the catalog does not fail, and from a proper catalog it   *)
(* gives the line of the location.                                         *)
LEMMA ReadsLine ==
    ASSUME Reliable, TypeOK, NEW k \in Locations, NEW r \in getEntry_from_catalog(k)
    PROVE  /\ r.ok = TRUE
           /\ Proper(catalog_file) => r.entry = At(catalog_file, k)
<1>. DEFINE offset == Offset(k)
<1>1. /\ offset >= 0 /\ offset \in Int
      /\ offset \div entry_size = k /\ offset % entry_size = 0
    BY SmallOffset
<1>2. PICK e \in EntriesAt(offset) : r = [ok |-> TRUE, entry |-> e]
    BY <1>1 DEF getEntry_from_catalog, Reliable
<1>3. r.ok = TRUE /\ r.entry = e
    BY <1>2
<1>4. ASSUME Proper(catalog_file)
      PROVE  e = At(catalog_file, k)
    <2>. DEFINE c == catalog_file
                line == c.lines[k + 1]
    <2>1. c \in Catalogs /\ c.width = entry_size /\ Len(c.lines) = catalog_len
        BY <1>4 DEF TypeOK, Proper, Fits
    <2>2. k < Len(c.lines)
        BY <2>1, CatalogLenAssumption DEF Locations
    <2>3. PICK junk \in Junk : e = ParseEntry(line, junk)
        BY <1>1, <1>2, <2>1, <2>2 DEF EntriesAt
    <2>4. k + 1 \in DOMAIN c.lines
        BY <1>4, <2>1, AtType
    <2>5. At(c, k) = ParseEntry(line, <<>>)
        BY <2>4 DEF At, Entries
    <2>6. line.c = "l" => UpTo(UpTo(line.text, Sep), LinkSep) # UpTo(line.text, Sep)
        <3>. SUFFICES ASSUME line.c = "l"
                      PROVE  UpTo(UpTo(line.text, Sep), LinkSep) # UpTo(line.text, Sep)
            OBVIOUS
        <3>. DEFINE raw == UpTo(line.text, Sep)
        <3>1. line \in Line
            BY <2>1, <2>4, DaemonAssumption DEF CatalogFile
        <3>2. raw \in Path
            BY <3>1, UpToType DEF Line, Path
        <3>3. \E i \in DOMAIN raw : raw[i] = LinkSep
            BY <1>4, <2>1, <2>4 DEF Reliable, LinksSplit
        <3>. HIDE DEF raw
        <3>4. Len(UpTo(raw, LinkSep)) < Len(raw)
            BY <3>2, <3>3, UpToCuts
        <3>. QED  BY <3>2, <3>4, PathBytes DEF raw
    <2>. QED  BY <2>3, <2>5, <2>6 DEF ParseEntry
<1>. QED  BY <1>3, <1>4
-----------------------------------------------------------------------------
(***************************************************************************)
(* The answers that are right                                              *)
(***************************************************************************)
(* The lines called path are the ones at a location with that path.        *)
LEMMA NamedIs ==
    ASSUME NEW c \in Catalogs, Proper(c), NEW path
    PROVE  /\ \A k \in Locations : At(c, k).path = path => At(c, k) \in Named(c, path)
           /\ (\A k \in Locations : At(c, k).path # path) => Named(c, path) = {}
<1>. DEFINE es == Entries(c)
<1>1. DOMAIN c.lines = 1..catalog_len /\ catalog_len \in Nat
    <2>1. c.lines \in Seq(Line) /\ Len(c.lines) = catalog_len
        BY DaemonAssumption DEF Proper, Fits, CatalogFile
    <2>. QED  BY <2>1, CatalogLenAssumption
<1>2. Named(c, path) = {es[k] : k \in {k \in 1..catalog_len : es[k].path = path}}
    BY <1>1 DEF Named
<1>3. \A k \in Locations : At(c, k) = es[k + 1] /\ k + 1 \in 1..catalog_len
    BY <1>1 DEF At, Locations
<1>4. \A k \in 1..catalog_len : k - 1 \in Locations /\ es[k] = At(c, k - 1)
    BY <1>1 DEF At, Locations
<1>. HIDE DEF es
<1>. QED  BY <1>2, <1>3, <1>4

(* ENOENT is right for a path without a line, ...                          *)
LEMMA RightNone ==
    ASSUME NEW c \in Catalogs, Proper(c), NEW op \in CatalogOps, NEW path, NEW P,
           P = (IF op = "readdir" THEN DirPath(path) ELSE path),
           \A k \in Locations : At(c, k).path # P
    PROVE  Error("ENOENT") \in RightAnswers(c, op, path)
<1>1. Named(c, P) = {}
    BY NamedIs
<1>. QED  BY <1>1 DEF RightAnswers

(* ... and the attributes, the link or the listing for one with a line.    *)
LEMMA RightFound ==
    ASSUME NEW c \in Catalogs, Proper(c), NEW path, NEW k \in Locations
    PROVE  /\ At(c, k).path = path =>
                /\ [Error("OK") EXCEPT !.st = At(c, k).st]
                        \in RightAnswers(c, "getattr", path)
                /\ [Error("OK") EXCEPT !.link = At(c, k).link]
                        \in RightAnswers(c, "readlink", path)
           /\ At(c, k).path = DirPath(path) =>
                [Error("OK") EXCEPT !.list = Listing(c, path)]
                        \in RightAnswers(c, "readdir", path)
<1>. DEFINE e == At(c, k)
<1>. HIDE DEF e
<1>1. ASSUME At(c, k).path = path
      PROVE  /\ [Error("OK") EXCEPT !.st = At(c, k).st]
                        \in RightAnswers(c, "getattr", path)
             /\ [Error("OK") EXCEPT !.link = At(c, k).link]
                        \in RightAnswers(c, "readlink", path)
    <2>1. e \in Named(c, path) /\ Named(c, path) # {}
        BY <1>1, NamedIs DEF e
    <2>2. RightAnswers(c, "getattr", path)
            = {[Error("OK") EXCEPT !.st = x.st] : x \in Named(c, path)}
        BY <2>1 DEF RightAnswers
    <2>3. RightAnswers(c, "readlink", path)
            = {[Error("OK") EXCEPT !.link = x.link] : x \in Named(c, path)}
        BY <2>1 DEF RightAnswers
    <2>. QED  BY <2>1, <2>2, <2>3 DEF e
<1>2. ASSUME At(c, k).path = DirPath(path)
      PROVE  [Error("OK") EXCEPT !.list = Listing(c, path)]
                        \in RightAnswers(c, "readdir", path)
    <2>1. Named(c, DirPath(path)) # {}
        BY <1>2, NamedIs
    <2>2. RightAnswers(c, "readdir", path) = {[Error("OK") EXCEPT !.list = Listing(c, path)]}
        BY <2>1 DEF RightAnswers
    <2>. QED  BY <2>2
<1>. QED  BY <1>1, <1>2
-----------------------------------------------------------------------------
(***************************************************************************)
(* What a thread knows of the catalog it is reading                        *)
(***************************************************************************)
Right(c, f) == \/ f.ans \in RightAnswers(c, f.op, f.path)
               \/ f.ans = Error("ENOMEM") /\ f.full

(* The frame of a request that is served from the proper catalog c.        *)
FrameKnows(c, f) ==
    /\ f.pc = "search" => SearchKnows(c, f.search)
    /\ f.pc \in {"attr", "link"} => At(c, f.i).path = f.path
    /\ f.pc = "contents" =>
            /\ At(c, f.low).path = DirPath(f.path)
            /\ \A k \in (f.low + 1)..(f.i - 1) : InDir(c, DirPath(f.path), k)
            /\ f.out = Dots
    /\ f.pc \in {"list_attr", "list_path"} =>
            /\ ScanEnded(c, DirPath(f.path), f.low, f.high)
            /\ ~f.full => f.out = Shown(c, f.low, f.i - (f.low + 1))
    /\ f.pc = "list_path" => f.got /\ f.st = At(c, f.i).st
    /\ f.pc = "reply" => Right(c, f)

(* The path that a request looks for.                                      *)
Sought(f) == IF f.op = "readdir" THEN DirPath(f.path) ELSE f.path

(* What every frame shows, whatever catalog it was served from.            *)
FrameFits(f) ==
    /\ f.pc = "idle" => f = Idle
    /\ f.pc \in Probing =>
            /\ f.op \in CatalogOps /\ f.path \in Paths /\ f.ans = Error("OK")
            /\ f.search.path = Sought(f)
    /\ f.pc = "search" /\ f.op = "readdir" => f.out = Dots
    /\ f.pc = "attr" => f.op = "getattr"
    /\ f.pc = "link" => f.op = "readlink"
    /\ f.pc \in {"contents", "list_attr", "list_path"} => f.op = "readdir"
    /\ f.full => f.op = "readdir"
    /\ f.op \notin CatalogOps => f.seen = {}

(* u is f at a later moment of the same request.                           *)
Later(f, u) ==
    /\ u.op = f.op /\ u.path = f.path /\ u.seen = f.seen /\ u.search.path = f.search.path
    /\ u.pc \in Probing \cup {"reply"}
    /\ u.pc # "reply" => u.ans = f.ans

(* A request is answered.                                                  *)
LEMMA ReplyGives ==
    ASSUME NEW f \in Frame, NEW ans, FrameFits(f), f.pc \in Probing
    PROVE  LET u == Reply(f, ans)
           IN  /\ Later(f, u) /\ FrameFits(u) /\ u.pc = "reply" /\ u.ans = ans
               /\ u.full = f.full
               /\ \A c \in Catalogs :
                    \/ ans \in RightAnswers(c, f.op, f.path)
                    \/ ans = Error("ENOMEM") /\ f.full
                    => FrameKnows(c, u)
<1>. DEFINE u == Reply(f, ans)
<1>1. /\ u.pc = "reply" /\ u.ans = ans /\ u.op = f.op /\ u.path = f.path
      /\ u.seen = f.seen /\ u.search = f.search /\ u.full = f.full
    BY DEF Reply, Frame
<1>. HIDE DEF u
<1>2. Later(f, u)
    BY <1>1 DEF Later
<1>3. FrameFits(u)
    BY <1>1 DEF FrameFits, Probing
<1>4. ASSUME NEW c \in Catalogs, \/ ans \in RightAnswers(c, f.op, f.path)
                                 \/ ans = Error("ENOMEM") /\ f.full
      PROVE  FrameKnows(c, u)
    BY <1>1, <1>4 DEF FrameKnows, Right
<1>. QED  BY <1>1, <1>2, <1>3, <1>4 DEF u

(* A thread that goes on listing.                                          *)
LEMMA ListNextGives ==
    ASSUME NEW f \in Frame, FrameFits(f), f.pc \in Probing, f.op = "readdir", f.low < f.i
    PROVE  LET u == ListNext(f)
           IN  /\ Later(f, u) /\ FrameFits(u)
               /\ \A c \in Catalogs :
                    /\ Proper(c) /\ Absolute(f.path) /\ f.path \in Path
                    /\ ScanEnded(c, DirPath(f.path), f.low, f.high)
                    /\ ~f.full => /\ f.i <= f.high + 1
                                  /\ f.out = Shown(c, f.low, f.i - (f.low + 1))
                    => FrameKnows(c, u)
<1>. DEFINE Pre(c) == /\ Proper(c) /\ Absolute(f.path) /\ f.path \in Path
                      /\ ScanEnded(c, DirPath(f.path), f.low, f.high)
                      /\ ~f.full => /\ f.i <= f.high + 1
                                    /\ f.out = Shown(c, f.low, f.i - (f.low + 1))
<1>0. f.low \in Int /\ f.high \in Int /\ f.i \in Int /\ f.full \in BOOLEAN
    BY DEF Frame
<1>1. CASE f.i <= f.high
    <2>. DEFINE u == [f EXCEPT !.pc = "list_attr"]
    <2>1. /\ u.pc = "list_attr" /\ u.ans = f.ans /\ u.op = f.op /\ u.path = f.path
          /\ u.seen = f.seen /\ u.search = f.search /\ u.full = f.full
          /\ u.low = f.low /\ u.high = f.high /\ u.i = f.i /\ u.out = f.out
        BY DEF Frame
    <2>2. ListNext(f) = u
        BY <1>1 DEF ListNext
    <2>. HIDE DEF u
    <2>3. Later(f, u)
        BY <2>1 DEF Later, Probing
    <2>4. FrameFits(u)
        BY <2>1 DEF FrameFits, Probing, Sought
    <2>5. ASSUME NEW c \in Catalogs, Pre(c)
          PROVE  FrameKnows(c, u)
        BY <2>1, <2>5 DEF FrameKnows
    <2>. QED  BY <2>2, <2>3, <2>4, <2>5
<1>2. CASE ~(f.i <= f.high) /\ f.full
    <2>. DEFINE u == Reply(f, Error("ENOMEM"))
    <2>1. ListNext(f) = u
        BY <1>2 DEF ListNext, Fail
    <2>2. Later(f, u) /\ FrameFits(u) /\ \A c \in Catalogs : FrameKnows(c, u)
        BY <1>2, ReplyGives
    <2>. HIDE DEF u
    <2>. QED  BY <2>1, <2>2
<1>3. CASE ~(f.i <= f.high) /\ ~f.full
    <2>. DEFINE ans == [Error("OK") EXCEPT !.list = f.out]
                u == Reply(f, ans)
    <2>1. ListNext(f) = u
        BY <1>3 DEF ListNext
    <2>2. ASSUME NEW c \in Catalogs, Pre(c)
          PROVE  ans \in RightAnswers(c, f.op, f.path)
        <3>1. f.i - (f.low + 1) = f.high - f.low
            BY <1>0, <1>3, <2>2
        <3>2. f.out = Listing(c, f.path)
            BY <1>0, <1>3, <2>2, <3>1, ListingIsShown
        <3>3. f.low \in Locations /\ At(c, f.low).path = DirPath(f.path)
            BY <2>2 DEF ScanEnded
        <3>. QED  BY <2>2, <3>2, <3>3, RightFound
    <2>. HIDE DEF ans
    <2>3. /\ Later(f, u) /\ FrameFits(u)
          /\ \A c \in Catalogs : ans \in RightAnswers(c, f.op, f.path) => FrameKnows(c, u)
        BY ReplyGives
    <2>. HIDE DEF u
    <2>. QED  BY <2>1, <2>2, <2>3
<1>. QED  BY <1>1, <1>2, <1>3

(* A thread that goes on scanning a directory.                             *)
LEMMA ContentsNextGives ==
    ASSUME NEW f \in Frame, FrameFits(f), f.pc \in Probing, f.op = "readdir",
           0 <= f.low, f.low < f.i, f.i <= catalog_len
    PROVE  LET u == ContentsNext(f)
           IN  /\ Later(f, u) /\ FrameFits(u)
               /\ \A c \in Catalogs :
                    /\ Proper(c) /\ Absolute(f.path) /\ f.path \in Path
                    /\ At(c, f.low).path = DirPath(f.path)
                    /\ \A k \in (f.low + 1)..(f.i - 1) : InDir(c, DirPath(f.path), k)
                    /\ f.out = Dots
                    => FrameKnows(c, u)
<1>. DEFINE Pre(c) == /\ Proper(c) /\ Absolute(f.path) /\ f.path \in Path
                      /\ At(c, f.low).path = DirPath(f.path)
                      /\ \A k \in (f.low + 1)..(f.i - 1) : InDir(c, DirPath(f.path), k)
                      /\ f.out = Dots
<1>0. f.low \in Int /\ f.high \in Int /\ f.i \in Int /\ catalog_len \in Nat
    BY CatalogLenAssumption DEF Frame
<1>1. CASE f.i >= catalog_len
    <2>. DEFINE last == f.i - 1
                first == f.low + 1
                v == [f EXCEPT !.high = last, !.i = first]
                u == ListNext(v)
    <2>0. last \in Int /\ first \in Int /\ f.low < first /\ first - (f.low + 1) = 0
        BY <1>0
    <2>1. ContentsNext(f) = u
        BY <1>1 DEF ContentsNext
    <2>2. f.i = catalog_len /\ first <= last + 1 /\ last \in Locations
          /\ f.low \in Locations /\ f.low <= last /\ last + 1 \notin Locations
        BY <1>0, <1>1 DEF Locations
    <2>a. \A c : Pre(c) => \A k \in first..last : InDir(c, DirPath(f.path), k)
        OBVIOUS
    <2>. HIDE DEF last, first
    <2>3. /\ v \in Frame /\ v.pc = f.pc /\ v.ans = f.ans /\ v.op = f.op /\ v.path = f.path
          /\ v.seen = f.seen /\ v.search = f.search /\ v.full = f.full
          /\ v.low = f.low /\ v.high = last /\ v.i = first /\ v.out = f.out
        BY <2>0 DEF Frame
    <2>. HIDE DEF v
    <2>4. FrameFits(v)
        BY <2>3 DEF FrameFits, Probing, Sought
    <2>5. /\ Later(v, u) /\ FrameFits(u)
          /\ \A c \in Catalogs :
                /\ Proper(c) /\ Absolute(v.path) /\ v.path \in Path
                /\ ScanEnded(c, DirPath(v.path), v.low, v.high)
                /\ ~v.full => /\ v.i <= v.high + 1
                              /\ v.out = Shown(c, v.low, v.i - (v.low + 1))
                => FrameKnows(c, u)
        BY <2>0, <2>3, <2>4, ListNextGives
    <2>6. ASSUME NEW c \in Catalogs, Pre(c)
          PROVE  FrameKnows(c, u)
        <3>1. ScanEnded(c, DirPath(f.path), f.low, last)
            <4>1. \A k \in (f.low + 1)..last : InDir(c, DirPath(f.path), k)
                BY <2>a, <2>6 DEF first
            <4>. QED  BY <2>2, <2>6, <4>1 DEF ScanEnded
        <3>2. f.out = Shown(c, f.low, 0)
            BY <1>0, <2>6, ShownGrows
        <3>. QED  BY <2>0, <2>2, <2>3, <2>5, <2>6, <3>1, <3>2
    <2>. HIDE DEF u
    <2>7. Later(f, u)
        BY <2>3, <2>5 DEF Later
    <2>. QED  BY <2>1, <2>5, <2>6, <2>7
<1>2. CASE ~(f.i >= catalog_len)
    <2>. DEFINE u == [f EXCEPT !.pc = "contents"]
    <2>1. /\ u.pc = "contents" /\ u.ans = f.ans /\ u.op = f.op /\ u.path = f.path
          /\ u.seen = f.seen /\ u.search = f.search /\ u.full = f.full
          /\ u.low = f.low /\ u.i = f.i /\ u.out = f.out
        BY DEF Frame
    <2>2. ContentsNext(f) = u
        BY <1>2 DEF ContentsNext
    <2>. HIDE DEF u
    <2>3. Later(f, u)
        BY <2>1 DEF Later, Probing
    <2>4. FrameFits(u)
        BY <2>1 DEF FrameFits, Probing, Sought
    <2>5. ASSUME NEW c \in Catalogs, Pre(c)
          PROVE  FrameKnows(c, u)
        BY <2>1, <2>5 DEF FrameKnows
    <2>. QED  BY <2>2, <2>3, <2>4, <2>5
<1>. QED  BY <1>1, <1>2

(* A thread whose search has moved on.                                     *)
LEMMA AfterSearchGives ==
    ASSUME NEW f \in Frame, FrameFits(f), f.pc = "search", SearchInRange(f.search)
    PROVE  LET u == AfterSearch(f)
           IN  /\ Later(f, u) /\ FrameFits(u)
               /\ \A c \in Catalogs :
                    Proper(c) /\ Absolute(f.path) /\ f.path \in Path
                        /\ SearchKnows(c, f.search)
                    => FrameKnows(c, u)
<1>. DEFINE location == f.search.result
            Pre(c) == Proper(c) /\ Absolute(f.path) /\ f.path \in Path
                        /\ SearchKnows(c, f.search)
<1>1. f.search \in Search /\ location \in Int /\ f.search.path = Sought(f)
      /\ f.op \in CatalogOps /\ f.pc \in Probing
    BY DEF Frame, Search, FrameFits, Probing
<1>2. CASE f.search.phase # "done"
    <2>1. AfterSearch(f) = f
        BY <1>2 DEF AfterSearch
    <2>2. Later(f, f)
        BY DEF Later, Probing
    <2>3. ASSUME NEW c \in Catalogs, Pre(c)
          PROVE  FrameKnows(c, f)
        BY <2>3 DEF FrameKnows
    <2>. QED  BY <2>1, <2>2, <2>3
<1>3. CASE f.search.phase = "done" /\ location < 0
    <2>. DEFINE u == Reply(f, Error("ENOENT"))
    <2>1. AfterSearch(f) = u
        BY <1>3 DEF AfterSearch, Fail
    <2>2. ASSUME NEW c \in Catalogs, Pre(c)
          PROVE  Error("ENOENT") \in RightAnswers(c, f.op, f.path)
        <3>1. \A k \in Locations : At(c, k).path # Sought(f)
            BY <1>1, <1>3, <2>2 DEF SearchKnows
        <3>. QED  BY <1>1, <2>2, <3>1, RightNone DEF Sought
    <2>3. /\ Later(f, u) /\ FrameFits(u)
          /\ \A c \in Catalogs : Error("ENOENT") \in RightAnswers(c, f.op, f.path)
                => FrameKnows(c, u)
        BY <1>1, ReplyGives
    <2>. HIDE DEF u
    <2>. QED  BY <2>1, <2>2, <2>3
<1>4. CASE f.search.phase = "done" /\ ~(location < 0)
    <2>1. location \in Locations /\ location < catalog_len /\ 0 <= location
        BY <1>1, <1>4, CatalogLenAssumption DEF SearchInRange, Locations
    <2>2. ASSUME NEW c \in Catalogs, Pre(c)
          PROVE  At(c, location).path = Sought(f)
        BY <1>1, <1>4, <2>2 DEF SearchKnows
    <2>3. CASE f.op \in {"getattr", "readlink"}
        <3>. DEFINE pc == IF f.op = "getattr" THEN "attr" ELSE "link"
                    u == [f EXCEPT !.pc = pc, !.i = location]
        <3>1. AfterSearch(f) = u
            BY <1>4, <2>3 DEF AfterSearch
        <3>0. pc \in {"attr", "link"} /\ (pc = "attr" => f.op = "getattr")
              /\ (pc = "link" => f.op = "readlink")
            BY <2>3
        <3>. HIDE DEF location, pc
        <3>2. /\ u.pc = pc /\ u.ans = f.ans /\ u.op = f.op /\ u.path = f.path
              /\ u.seen = f.seen /\ u.search = f.search /\ u.full = f.full
              /\ u.i = location
            BY DEF Frame
        <3>. HIDE DEF u
        <3>3. Later(f, u)
            BY <3>0, <3>2 DEF Later, Probing
        <3>4. FrameFits(u)
            BY <1>1, <3>0, <3>2 DEF FrameFits, Sought
        <3>5. ASSUME NEW c \in Catalogs, Pre(c)
              PROVE  FrameKnows(c, u)
            BY <2>2, <2>3, <3>0, <3>2, <3>5 DEF FrameKnows, Sought
        <3>. QED  BY <3>1, <3>3, <3>4, <3>5
    <2>4. CASE f.op = "readdir"
        <3>. DEFINE first == location + 1
                    v == [f EXCEPT !.low = location, !.i = first]
                    u == ContentsNext(v)
        <3>1. AfterSearch(f) = u
            BY <1>4, <2>4 DEF AfterSearch
        <3>2. first \in Int /\ location < first /\ first <= catalog_len
              /\ (location + 1)..(first - 1) = {}
            BY <1>1, <2>1, CatalogLenAssumption
        <3>. HIDE DEF location, first
        <3>3. /\ v \in Frame /\ v.pc = f.pc /\ v.ans = f.ans /\ v.op = f.op
              /\ v.path = f.path /\ v.seen = f.seen /\ v.search = f.search
              /\ v.full = f.full /\ v.low = location /\ v.i = first /\ v.out = f.out
            BY <1>1, <3>2 DEF Frame
        <3>. HIDE DEF v
        <3>4. FrameFits(v)
            BY <3>3 DEF FrameFits, Probing, Sought
        <3>5. /\ Later(v, u) /\ FrameFits(u)
              /\ \A c \in Catalogs :
                    /\ Proper(c) /\ Absolute(v.path) /\ v.path \in Path
                    /\ At(c, v.low).path = DirPath(v.path)
                    /\ \A k \in (v.low + 1)..(v.i - 1) : InDir(c, DirPath(v.path), k)
                    /\ v.out = Dots
                    => FrameKnows(c, u)
            BY <1>1, <2>1, <2>4, <3>2, <3>3, <3>4, ContentsNextGives
        <3>6. ASSUME NEW c \in Catalogs, Pre(c)
              PROVE  FrameKnows(c, u)
            <4>1. At(c, v.low).path = DirPath(v.path)
                BY <2>2, <2>4, <3>3, <3>6 DEF Sought
            <4>2. v.out = Dots
                BY <2>4, <3>3 DEF FrameFits
            <4>. QED  BY <3>2, <3>3, <3>5, <3>6, <4>1, <4>2
        <3>. HIDE DEF u
        <3>7. Later(f, u)
            BY <3>3, <3>5 DEF Later
        <3>. QED  BY <3>1, <3>5, <3>6, <3>7
    <2>. QED  BY <1>1, <2>3, <2>4 DEF CatalogOps
<1>. QED  BY <1>2, <1>3, <1>4
-----------------------------------------------------------------------------
(***************************************************************************)
(* The inductive invariant of the answers                                  *)
(***************************************************************************)
Served(f) ==
    /\ FrameFits(f)
    /\ \A c \in Catalogs : f.seen = {c} /\ Proper(c) => FrameKnows(c, f)

AInv ==
    /\ IInv
    /\ fds = 0
    /\ \A t \in Threads :
        /\ Served(th[t])
        /\ th[t].pc \in Probing => catalog_file \in th[t].seen

(* A step of thread t within its request.                                  *)
Advances(t) ==
    /\ daemon = "running" /\ th[t].pc \in Probing
    /\ UNCHANGED <<catalog_file, daemon, fds>>
    /\ \E u : th' = [th EXCEPT ![t] = u] /\ Later(th[t], u) /\ Served(u)

(* A probe gives the line it was for, if the catalog is proper and was not *)
(* replaced since the request came in.                                     *)
LEMMA ProbeGives ==
    ASSUME Reliable, AInv, NEW t \in Threads, NEW pc \in Probing, Opens(t, pc),
           NEW r \in getEntry_from_catalog(Location(th[t])), Read(r)
    PROVE  /\ r.ok /\ r.entry \in Entry
           /\ daemon = "running" /\ th[t].pc = pc
           /\ UNCHANGED <<catalog_file, daemon, fds>>
           /\ Location(th[t]) \in Locations
           /\ th[t] \in Frame /\ FrameOK(th[t]) /\ FrameFits(th[t])
           /\ th[t].path \in Path /\ Absolute(th[t].path)
           /\ \A c \in Catalogs : th[t].seen = {c} /\ Proper(c) =>
                /\ r.entry = At(c, Location(th[t]))
                /\ FrameKnows(c, th[t])
<1>. DEFINE f == th[t]
<1>1. daemon = "running" /\ f.pc = pc
    BY DEF Opens
<1>2. TypeOK /\ IInv /\ f \in Frame /\ FrameOK(f) /\ Served(f) /\ catalog_file \in f.seen
    BY <1>1 DEF AInv, IInv, TypeOK
<1>3. Location(f) \in Locations
    BY <1>1, <1>2, IInvProbes DEF ProbesInRange, Locations
<1>4. /\ r.ok = TRUE
      /\ Proper(catalog_file) => r.entry = At(catalog_file, Location(f))
    BY <1>2, <1>3, ReadsLine
<1>5. r.entry \in Entry
    BY <1>2, ReadType, LocationType
<1>6. UNCHANGED <<catalog_file, daemon, fds>>
    BY <1>4 DEF Read
<1>7. FrameFits(f)
    BY <1>2 DEF Served
<1>8. f.path \in Paths
    BY <1>1, <1>7 DEF FrameFits
<1>9. f.path \in Path /\ Absolute(f.path)
    BY <1>8, DaemonAssumption DEF Reliable
<1>10. ASSUME NEW c \in Catalogs, f.seen = {c}, Proper(c)
       PROVE  r.entry = At(c, Location(f)) /\ FrameKnows(c, f)
    <2>1. catalog_file = c
        BY <1>2, <1>10
    <2>. QED  BY <1>2, <1>4, <1>10, <2>1 DEF Served
<1>. HIDE DEF f
<1>11. r.ok
    BY <1>4
<1>. QED  BY <1>1, <1>2, <1>3, <1>5, <1>6, <1>7, <1>9, <1>10, <1>11 DEF f

(* An iteration of a search loop.                                          *)
LEMMA SearchProbeAdvances ==
    ASSUME Reliable, AInv, NEW t \in Threads, SearchProbe(t)
    PROVE  Advances(t)
<1>. DEFINE f == th[t]
            s == f.search
<1>0. Opens(t, "search") /\ "search" \in Probing
    BY DEF SearchProbe, Probing
<1>1. PICK r \in getEntry_from_catalog(Location(f)) :
        /\ Read(r)
        /\ th' = [th EXCEPT ![t] = AfterSearch([f EXCEPT !.search =
                    IF r.ok THEN SearchStep(s, r.entry) ELSE Finish(s, -1)])]
    BY DEF SearchProbe
<1>2. /\ r.ok /\ r.entry \in Entry /\ daemon = "running" /\ f.pc = "search"
      /\ UNCHANGED <<catalog_file, daemon, fds>>
      /\ f \in Frame /\ FrameOK(f) /\ FrameFits(f) /\ f.path \in Path /\ Absolute(f.path)
      /\ \A c \in Catalogs : f.seen = {c} /\ Proper(c) =>
            r.entry = At(c, Location(f)) /\ FrameKnows(c, f)
    BY <1>0, <1>1, ProbeGives
<1>. DEFINE step == SearchStep(s, r.entry)
            v == [f EXCEPT !.search = step]
            u == AfterSearch(v)
<1>3. th' = [th EXCEPT ![t] = u]
    BY <1>1, <1>2
<1>4. s \in Search /\ SearchInRange(s) /\ s.phase # "done" /\ Location(f) = Target(s)
    BY <1>2 DEF FrameOK, Frame, Location
<1>5. step \in Search /\ SearchInRange(step)
    <2>1. r.entry.path \in Path /\ r.entry.depth \in Int
        BY <1>2 DEF Entry
    <2>. QED  BY <1>4, <2>1, SearchStepLands DEF Lands
<1>6. step.path = s.path
    <2>1. r.entry.path \in Path /\ r.entry.depth \in Int
        BY <1>2 DEF Entry
    <2>. QED  BY <1>4, <2>1, StepKeepsPath
<1>. HIDE DEF step
<1>7. /\ v \in Frame /\ v.pc = f.pc /\ v.ans = f.ans /\ v.op = f.op
      /\ v.path = f.path /\ v.seen = f.seen /\ v.search = step
      /\ v.full = f.full /\ v.out = f.out
    BY <1>2, <1>5 DEF Frame
<1>. HIDE DEF v
<1>8. FrameFits(v)
    BY <1>2, <1>6, <1>7 DEF FrameFits, Probing, Sought
<1>9. /\ Later(v, u) /\ FrameFits(u)
      /\ \A c \in Catalogs :
            Proper(c) /\ Absolute(v.path) /\ v.path \in Path /\ SearchKnows(c, v.search)
            => FrameKnows(c, u)
    BY <1>2, <1>5, <1>7, <1>8, AfterSearchGives
<1>10. ASSUME NEW c \in Catalogs, f.seen = {c}, Proper(c)
       PROVE  FrameKnows(c, u)
    <2>1. r.entry = At(c, Target(s)) /\ SearchKnows(c, s)
        BY <1>2, <1>4, <1>10 DEF FrameKnows
    <2>2. SearchKnows(c, step)
        BY <1>4, <1>10, <2>1, SearchStepGoes DEF Goes, step
    <2>. QED  BY <1>2, <1>7, <1>9, <1>10, <2>2
<1>. HIDE DEF u
<1>11. Later(f, u) /\ Served(u)
    BY <1>6, <1>7, <1>9, <1>10 DEF Later, Served
<1>. QED  BY <1>0, <1>2, <1>3, <1>11 DEF Advances

(* getattr_by_location and the readlink of a line that was found.          *)
LEMMA AnswerProbeAdvances ==
    ASSUME Reliable, AInv, NEW t \in Threads, GetattrProbe(t) \/ ReadlinkProbe(t)
    PROVE  Advances(t)
<1>. DEFINE f == th[t]
<1>1. CASE GetattrProbe(t)
    <2>0. Opens(t, "attr") /\ "attr" \in Probing
        BY <1>1 DEF GetattrProbe, Probing
    <2>1. PICK r \in getEntry_from_catalog(Location(f)) :
            /\ Read(r)
            /\ th' = [th EXCEPT ![t] =
                        IF r.ok THEN Reply(f, [Error("OK") EXCEPT !.st = r.entry.st])
                        ELSE Fail(f, "ENOENT")]
        BY <1>1 DEF GetattrProbe
    <2>2. /\ r.ok /\ daemon = "running" /\ f.pc = "attr"
          /\ UNCHANGED <<catalog_file, daemon, fds>>
          /\ Location(f) \in Locations /\ f \in Frame /\ FrameFits(f)
          /\ \A c \in Catalogs : f.seen = {c} /\ Proper(c) =>
                r.entry = At(c, Location(f)) /\ FrameKnows(c, f)
        BY <2>0, <2>1, ProbeGives
    <2>. DEFINE ans == [Error("OK") EXCEPT !.st = r.entry.st]
                u == Reply(f, ans)
    <2>3. th' = [th EXCEPT ![t] = u]
        BY <2>1, <2>2
    <2>4. ASSUME NEW c \in Catalogs, f.seen = {c}, Proper(c)
          PROVE  ans \in RightAnswers(c, f.op, f.path)
        <3>1. Location(f) = f.i /\ f.op = "getattr"
            BY <2>2 DEF Location, FrameFits
        <3>2. r.entry = At(c, f.i) /\ At(c, f.i).path = f.path /\ f.i \in Locations
            BY <2>2, <2>4, <3>1 DEF FrameKnows
        <3>. QED  BY <2>4, <3>1, <3>2, RightFound
    <2>. HIDE DEF ans
    <2>5. /\ Later(f, u) /\ FrameFits(u) /\ u.seen = f.seen
          /\ \A c \in Catalogs : ans \in RightAnswers(c, f.op, f.path) => FrameKnows(c, u)
        BY <2>0, <2>2, ReplyGives DEF Later
    <2>. HIDE DEF u
    <2>6. Served(u)
        BY <2>4, <2>5 DEF Served
    <2>. QED  BY <2>0, <2>2, <2>3, <2>5, <2>6 DEF Advances
<1>2. CASE ReadlinkProbe(t)
    <2>0. Opens(t, "link") /\ "link" \in Probing
        BY <1>2 DEF ReadlinkProbe, Probing
    <2>1. PICK r \in getEntry_from_catalog(Location(f)) :
            /\ Read(r)
            /\ th' = [th EXCEPT ![t] =
                        IF r.ok THEN Reply(f, [Error("OK") EXCEPT !.link = r.entry.link])
                        ELSE Fail(f, "ENOENT")]
        BY <1>2 DEF ReadlinkProbe
    <2>2. /\ r.ok /\ daemon = "running" /\ f.pc = "link"
          /\ UNCHANGED <<catalog_file, daemon, fds>>
          /\ Location(f) \in Locations /\ f \in Frame /\ FrameFits(f)
          /\ \A c \in Catalogs : f.seen = {c} /\ Proper(c) =>
                r.entry = At(c, Location(f)) /\ FrameKnows(c, f)
        BY <2>0, <2>1, ProbeGives
    <2>. DEFINE ans == [Error("OK") EXCEPT !.link = r.entry.link]
                u == Reply(f, ans)
    <2>3. th' = [th EXCEPT ![t] = u]
        BY <2>1, <2>2
    <2>4. ASSUME NEW c \in Catalogs, f.seen = {c}, Proper(c)
          PROVE  ans \in RightAnswers(c, f.op, f.path)
        <3>1. Location(f) = f.i /\ f.op = "readlink"
            BY <2>2 DEF Location, FrameFits
        <3>2. r.entry = At(c, f.i) /\ At(c, f.i).path = f.path /\ f.i \in Locations
            BY <2>2, <2>4, <3>1 DEF FrameKnows
        <3>. QED  BY <2>4, <3>1, <3>2, RightFound
    <2>. HIDE DEF ans
    <2>5. /\ Later(f, u) /\ FrameFits(u) /\ u.seen = f.seen
          /\ \A c \in Catalogs : ans \in RightAnswers(c, f.op, f.path) => FrameKnows(c, u)
        BY <2>0, <2>2, ReplyGives DEF Later
    <2>. HIDE DEF u
    <2>6. Served(u)
        BY <2>4, <2>5 DEF Served
    <2>. QED  BY <2>0, <2>2, <2>3, <2>5, <2>6 DEF Advances
<1>. QED  BY <1>1, <1>2

(* An iteration of get_directory_contents.                                 *)
LEMMA ContentsProbeAdvances ==
    ASSUME Reliable, AInv, NEW t \in Threads, ContentsProbe(t)
    PROVE  Advances(t)
<1>. DEFINE f == th[t]
            P == DirPath(f.path)
            k == f.i + 1
            last == f.i - 1
            first == f.low + 1
            v == [f EXCEPT !.i = k]
            w == [f EXCEPT !.high = last, !.i = first]
<1>0. Opens(t, "contents") /\ "contents" \in Probing
    BY DEF ContentsProbe, Probing
<1>1. PICK r \in getEntry_from_catalog(Location(f)) :
        /\ Read(r)
        /\ th' = [th EXCEPT ![t] =
                    IF ~r.ok THEN Fail(f, "ENOENT")
                    ELSE IF Within(f, r.entry) THEN ContentsNext(v) ELSE ListNext(w)]
    BY DEF ContentsProbe
<1>2. /\ r.ok /\ daemon = "running" /\ f.pc = "contents"
      /\ UNCHANGED <<catalog_file, daemon, fds>>
      /\ f \in Frame /\ FrameOK(f) /\ FrameFits(f) /\ f.path \in Path /\ Absolute(f.path)
      /\ Location(f) \in Locations
      /\ \A c \in Catalogs : f.seen = {c} /\ Proper(c) =>
            r.entry = At(c, Location(f)) /\ FrameKnows(c, f)
    BY <1>0, <1>1, ProbeGives
<1>3. /\ f.op = "readdir" /\ f.search.path = P /\ Location(f) = f.i
    BY <1>0, <1>2 DEF FrameFits, Sought, Location
<1>4. /\ f.low \in Int /\ f.i \in Int /\ catalog_len \in Int
      /\ 0 <= f.low /\ f.low < f.i /\ f.i < catalog_len
    BY <1>2, CatalogLenAssumption DEF FrameOK, Frame
<1>5. /\ k \in Int /\ last \in Int /\ first \in Int /\ f.low < k /\ k <= catalog_len
      /\ f.low < first /\ first - (f.low + 1) = 0 /\ k - 1 = f.i /\ last + 1 = f.i
      /\ f.low <= last /\ first <= last + 1
    BY <1>4
<1>6. ASSUME NEW c \in Catalogs, f.seen = {c}, Proper(c)
      PROVE  /\ Within(f, r.entry) <=> InDir(c, P, f.i)
             /\ At(c, f.low).path = P /\ f.out = Dots
             /\ \A x \in (f.low + 1)..(f.i - 1) : InDir(c, P, x)
    BY <1>2, <1>3, <1>6 DEF FrameKnows, Within, InDir
<1>. HIDE DEF k, last, first
<1>7. /\ v \in Frame /\ v.pc = f.pc /\ v.ans = f.ans /\ v.op = f.op
      /\ v.path = f.path /\ v.seen = f.seen /\ v.search = f.search
      /\ v.full = f.full /\ v.low = f.low /\ v.i = k /\ v.out = f.out
    BY <1>2, <1>5 DEF Frame
<1>8. /\ w \in Frame /\ w.pc = f.pc /\ w.ans = f.ans /\ w.op = f.op
      /\ w.path = f.path /\ w.seen = f.seen /\ w.search = f.search
      /\ w.full = f.full /\ w.low = f.low /\ w.i = first /\ w.high = last
      /\ w.out = f.out
    BY <1>2, <1>5 DEF Frame
<1>. HIDE DEF v, w
<1>9. FrameFits(v) /\ FrameFits(w)
    BY <1>2, <1>7, <1>8 DEF FrameFits, Probing, Sought
<1>10. CASE Within(f, r.entry)
    <2>. DEFINE u == ContentsNext(v)
    <2>1. th' = [th EXCEPT ![t] = u]
        BY <1>1, <1>2, <1>10
    <2>2. /\ Later(v, u) /\ FrameFits(u)
          /\ \A c \in Catalogs :
                /\ Proper(c) /\ Absolute(v.path) /\ v.path \in Path
                /\ At(c, v.low).path = DirPath(v.path)
                /\ \A x \in (v.low + 1)..(v.i - 1) : InDir(c, DirPath(v.path), x)
                /\ v.out = Dots
                => FrameKnows(c, u)
        BY <1>0, <1>2, <1>3, <1>4, <1>5, <1>7, <1>9, ContentsNextGives
    <2>3. ASSUME NEW c \in Catalogs, f.seen = {c}, Proper(c)
          PROVE  FrameKnows(c, u)
        <3>1. \A x \in (f.low + 1)..f.i : InDir(c, P, x)
            <4>1. \A x \in (f.low + 1)..f.i : x = f.i \/ x \in (f.low + 1)..(f.i - 1)
                BY <1>4
            <4>. QED  BY <1>6, <1>10, <2>3, <4>1
        <3>2. \A x \in (v.low + 1)..(v.i - 1) : InDir(c, DirPath(v.path), x)
            BY <1>5, <1>7, <3>1
        <3>. QED  BY <1>2, <1>6, <1>7, <2>2, <2>3, <3>2
    <2>. HIDE DEF u
    <2>4. Later(f, u) /\ Served(u)
        BY <1>7, <2>2, <2>3 DEF Later, Served
    <2>. QED  BY <1>0, <1>2, <2>1, <2>4 DEF Advances
<1>11. CASE ~Within(f, r.entry)
    <2>. DEFINE u == ListNext(w)
    <2>1. th' = [th EXCEPT ![t] = u]
        BY <1>1, <1>2, <1>11
    <2>2. /\ Later(w, u) /\ FrameFits(u)
          /\ \A c \in Catalogs :
                /\ Proper(c) /\ Absolute(w.path) /\ w.path \in Path
                /\ ScanEnded(c, DirPath(w.path), w.low, w.high)
                /\ ~w.full => /\ w.i <= w.high + 1
                              /\ w.out = Shown(c, w.low, w.i - (w.low + 1))
                => FrameKnows(c, u)
        BY <1>0, <1>2, <1>3, <1>5, <1>8, <1>9, ListNextGives
    <2>3. ASSUME NEW c \in Catalogs, f.seen = {c}, Proper(c)
          PROVE  FrameKnows(c, u)
        <3>1. ScanEnded(c, P, f.low, last)
            <4>1. f.low \in Locations /\ last \in Locations
                BY <1>4, <1>5 DEF Locations, last
            <4>2. \A x \in (f.low + 1)..last : InDir(c, P, x)
                BY <1>6, <2>3 DEF last
            <4>. QED  BY <1>5, <1>6, <1>11, <2>3, <4>1, <4>2 DEF ScanEnded
        <3>2. f.out = Shown(c, f.low, 0)
            BY <1>4, <1>6, <2>3, ShownGrows
        <3>. QED  BY <1>2, <1>5, <1>8, <2>2, <2>3, <3>1, <3>2
    <2>. HIDE DEF u
    <2>4. Later(f, u) /\ Served(u)
        BY <1>8, <2>2, <2>3 DEF Later, Served
    <2>. QED  BY <1>0, <1>2, <2>1, <2>4 DEF Advances
<1>. QED  BY <1>10, <1>11

(* The first read of a listed line.                                        *)
LEMMA ListAttrProbeAdvances ==
    ASSUME Reliable, AInv, NEW t \in Threads, ListAttrProbe(t)
    PROVE  Advances(t)
<1>. DEFINE f == th[t]
<1>0. Opens(t, "list_attr") /\ "list_attr" \in Probing
    BY DEF ListAttrProbe, Probing
<1>1. PICK r \in getEntry_from_catalog(Location(f)) :
        /\ Read(r)
        /\ th' = [th EXCEPT ![t] =
                [f EXCEPT !.pc = "list_path", !.got = r.ok, !.st = r.entry.st]]
    BY DEF ListAttrProbe
<1>2. /\ r.ok /\ daemon = "running" /\ f.pc = "list_attr"
      /\ UNCHANGED <<catalog_file, daemon, fds>>
      /\ f \in Frame /\ FrameFits(f)
      /\ \A c \in Catalogs : f.seen = {c} /\ Proper(c) =>
            r.entry = At(c, Location(f)) /\ FrameKnows(c, f)
    BY <1>0, <1>1, ProbeGives
<1>. DEFINE st == r.entry.st
            ok == r.ok
            u == [f EXCEPT !.pc = "list_path", !.got = ok, !.st = st]
<1>3. th' = [th EXCEPT ![t] = u] /\ ok
    BY <1>1, <1>2
<1>4. Location(f) = f.i
    BY <1>2 DEF Location
<1>5. \A c \in Catalogs : f.seen = {c} /\ Proper(c) => st = At(c, f.i).st
    BY <1>2, <1>4
<1>. HIDE DEF st, ok
<1>6. /\ u.pc = "list_path" /\ u.ans = f.ans /\ u.op = f.op
      /\ u.path = f.path /\ u.seen = f.seen /\ u.search = f.search
      /\ u.full = f.full /\ u.low = f.low /\ u.i = f.i /\ u.high = f.high
      /\ u.out = f.out /\ u.got = ok /\ u.st = st
    BY <1>2 DEF Frame
<1>. HIDE DEF u
<1>7. Later(f, u)
    BY <1>6 DEF Later, Probing
<1>8. FrameFits(u)
    BY <1>2, <1>6 DEF FrameFits, Probing, Sought
<1>9. ASSUME NEW c \in Catalogs, f.seen = {c}, Proper(c)
      PROVE  FrameKnows(c, u)
    <2>1. FrameKnows(c, f)
        BY <1>2, <1>9
    <2>. QED  BY <1>2, <1>3, <1>5, <1>6, <1>9, <2>1 DEF FrameKnows
<1>10. Served(u)
    BY <1>6, <1>8, <1>9 DEF Served
<1>. QED  BY <1>0, <1>2, <1>3, <1>7, <1>10 DEF Advances

(* The second read of a listed line.                                       *)
LEMMA ListPathProbeAdvances ==
    ASSUME Reliable, AInv, NEW t \in Threads, ListPathProbe(t)
    PROVE  Advances(t)
<1>. DEFINE f == th[t]
            P == DirPath(f.path)
            k == f.i + 1
            past == f.high + 1
            stop == [f EXCEPT !.i = past, !.full = TRUE]
            D(r) == [name |-> basename(r.entry.path), st |-> f.st]
            Add(out) == [f EXCEPT !.i = k, !.out = out]
<1>0. Opens(t, "list_path") /\ "list_path" \in Probing
    BY DEF ListPathProbe, Probing
<1>1. PICK r \in getEntry_from_catalog(Location(f)), refused \in BOOLEAN :
        /\ Read(r)
        /\ th' = [th EXCEPT ![t] = ListNext(
                    IF ~Kept(f, r) THEN [f EXCEPT !.i = k]
                    ELSE IF refused THEN stop
                    ELSE Add(Append(f.out, D(r))))]
    BY DEF ListPathProbe
<1>2. /\ r.ok /\ r.entry \in Entry /\ daemon = "running" /\ f.pc = "list_path"
      /\ UNCHANGED <<catalog_file, daemon, fds>>
      /\ f \in Frame /\ FrameOK(f) /\ FrameFits(f) /\ f.path \in Path /\ Absolute(f.path)
      /\ \A c \in Catalogs : f.seen = {c} /\ Proper(c) =>
            r.entry = At(c, Location(f)) /\ FrameKnows(c, f)
    BY <1>0, <1>1, ProbeGives
<1>3. f.op = "readdir" /\ Location(f) = f.i
    BY <1>2 DEF FrameFits, Location
<1>4. /\ f.low \in Int /\ f.i \in Int /\ f.high \in Int /\ f.got \in BOOLEAN
      /\ 0 <= f.low /\ f.low < f.i /\ f.i <= f.high
    BY <1>2 DEF FrameOK, Frame
<1>. DEFINE out == Append(f.out, D(r))
            skip == [f EXCEPT !.i = k]
            v == IF ~Kept(f, r) THEN skip ELSE IF refused THEN stop ELSE Add(out)
            m == f.i - (f.low + 1)
<1>5. /\ k \in Int /\ past \in Int /\ f.low < k /\ f.low < past /\ k <= f.high + 1
      /\ m \in Nat /\ k - (f.low + 1) = m + 1 /\ f.low + (m + 1) = f.i
    BY <1>4
<1>6. out \in Seq(Dirent)
    <2>1. basename(r.entry.path) \in Path
        BY <1>2, BasenameType DEF Entry
    <2>2. f.st \in Stat /\ f.out \in Seq(Dirent)
        BY <1>2 DEF Frame
    <2>3. D(r) \in Dirent
        BY <2>1, <2>2 DEF Dirent
    <2>. HIDE DEF D
    <2>. QED  BY <2>2, <2>3
<1>7. ASSUME NEW c \in Catalogs, f.seen = {c}, Proper(c)
      PROVE  /\ f.got /\ ScanEnded(c, P, f.low, f.high)
             /\ ~f.full => out = Shown(c, f.low, m + 1)
    <2>1. FrameKnows(c, f) /\ r.entry = At(c, f.i)
        BY <1>2, <1>3, <1>7
    <2>2. /\ f.got /\ f.st = At(c, f.i).st /\ ScanEnded(c, P, f.low, f.high)
          /\ ~f.full => f.out = Shown(c, f.low, m)
        BY <1>2, <2>1 DEF FrameKnows
    <2>3. D(r) = AsDirent(At(c, f.low + (m + 1)))
        BY <1>5, <2>1, <2>2 DEF AsDirent
    <2>4. Append(Shown(c, f.low, m), AsDirent(At(c, f.low + (m + 1)))) = Shown(c, f.low, m + 1)
        BY <1>4, <1>5, ShownGrows
    <2>. QED  BY <2>2, <2>3, <2>4
<1>. HIDE DEF k, past, out, m
<1>8. th' = [th EXCEPT ![t] = ListNext(v)]
    BY <1>1 DEF out
<1>9. /\ v \in Frame /\ v.pc = f.pc /\ v.ans = f.ans /\ v.op = f.op
      /\ v.path = f.path /\ v.seen = f.seen /\ v.search = f.search
      /\ v.low = f.low /\ v.high = f.high /\ f.low < v.i
      /\ v.full = f.full \/ v.full
      /\ f.got /\ ~v.full => ~f.full /\ v.out = out /\ v.i = k
    <2>1. ~Kept(f, r) => ~f.got
        BY <1>2, <1>4 DEF Kept
    <2>2. CASE ~Kept(f, r)
        <3>1. v = skip
            BY <2>2
        <3>2. /\ skip \in Frame /\ skip.pc = f.pc /\ skip.ans = f.ans /\ skip.op = f.op
              /\ skip.path = f.path /\ skip.seen = f.seen /\ skip.search = f.search
              /\ skip.low = f.low /\ skip.high = f.high /\ skip.i = k
              /\ skip.full = f.full
            BY <1>2, <1>5 DEF Frame
        <3>. HIDE DEF skip, v
        <3>. QED  BY <1>5, <2>1, <2>2, <3>1, <3>2
    <2>3. CASE Kept(f, r) /\ refused
        <3>1. v = stop
            BY <2>3
        <3>2. /\ stop \in Frame /\ stop.pc = f.pc /\ stop.ans = f.ans /\ stop.op = f.op
              /\ stop.path = f.path /\ stop.seen = f.seen /\ stop.search = f.search
              /\ stop.low = f.low /\ stop.high = f.high /\ stop.i = past
              /\ stop.full
            BY <1>2, <1>5 DEF Frame
        <3>. HIDE DEF stop, v
        <3>. QED  BY <1>5, <3>1, <3>2
    <2>4. CASE Kept(f, r) /\ ~refused
        <3>. DEFINE add == Add(out)
        <3>1. v = add
            BY <2>4
        <3>2. /\ add \in Frame /\ add.pc = f.pc /\ add.ans = f.ans /\ add.op = f.op
              /\ add.path = f.path /\ add.seen = f.seen /\ add.search = f.search
              /\ add.low = f.low /\ add.high = f.high /\ add.i = k
              /\ add.full = f.full /\ add.out = out
            BY <1>2, <1>5, <1>6 DEF Frame
        <3>. HIDE DEF add, v
        <3>. QED  BY <1>5, <3>1, <3>2
    <2>. QED  BY <2>2, <2>3, <2>4
<1>. HIDE DEF v
<1>10. FrameFits(v)
    BY <1>2, <1>3, <1>9 DEF FrameFits, Probing, Sought
<1>. DEFINE u == ListNext(v)
<1>11. /\ Later(v, u) /\ FrameFits(u)
       /\ \A c \in Catalogs :
            /\ Proper(c) /\ Absolute(v.path) /\ v.path \in Path
            /\ ScanEnded(c, DirPath(v.path), v.low, v.high)
            /\ ~v.full => /\ v.i <= v.high + 1
                          /\ v.out = Shown(c, v.low, v.i - (v.low + 1))
            => FrameKnows(c, u)
    BY <1>0, <1>2, <1>3, <1>9, <1>10, ListNextGives
<1>12. ASSUME NEW c \in Catalogs, f.seen = {c}, Proper(c)
       PROVE  FrameKnows(c, u)
    <2>1. /\ f.got /\ ScanEnded(c, DirPath(v.path), v.low, v.high)
          /\ ~f.full => out = Shown(c, f.low, m + 1)
        BY <1>7, <1>9, <1>12
    <2>2. ~v.full => /\ v.i <= v.high + 1
                     /\ v.out = Shown(c, v.low, v.i - (v.low + 1))
        BY <1>5, <1>9, <2>1
    <2>. QED  BY <1>2, <1>9, <1>11, <1>12, <2>1, <2>2
<1>. HIDE DEF u
<1>13. Later(f, u) /\ Served(u)
    BY <1>9, <1>11, <1>12 DEF Later, Served
<1>. QED  BY <1>0, <1>2, <1>8, <1>13 DEF Advances, u
-----------------------------------------------------------------------------
(***************************************************************************)
(* Every step keeps the invariant                                          *)
(***************************************************************************)
(* A step with which thread t takes up a request.                          *)
Starts(t) ==
    /\ daemon = "running" /\ th[t].pc = "idle"
    /\ UNCHANGED <<catalog_file, daemon, fds>>
    /\ \E u : /\ th' = [th EXCEPT ![t] = u] /\ Served(u)
              /\ u.pc = "search" /\ u.op \in CatalogOps /\ u.path \in Paths
              /\ u.ans = Error("OK") /\ u.seen = {catalog_file}

(* A new getattr, readlink or readdir starts with a search of the whole    *)
(* catalog.                                                                *)
LEMMA RequestStarts ==
    ASSUME Reliable, AInv, NEW t \in Threads, NEW path \in Paths,
           \/ catalog_getattr(t, path)
           \/ catalog_readlink(t, path)
           \/ catalog_readdir(t, path)
    PROVE  Starts(t)
<1>1. path \in Path /\ Absolute(path) /\ TypeOK
    BY DaemonAssumption DEF Reliable, AInv, IInv
<1>2. ASSUME NEW op \in CatalogOps, NEW P, NEW f \in Frame, NEW u \in Frame, NEW out, NEW full,
             P = (IF op = "readdir" THEN DirPath(path) ELSE path),
             f = StartSearch(op, path, P),
             u = f \/ (op = "readdir" /\ u = [f EXCEPT !.out = Dots, !.full = full]),
             op = "readdir" => u.out = Dots
      PROVE  Submit(t, AfterSearch(u)) => Starts(t)
    <2>1. P \in Path /\ Absolute(P)
        BY <1>1, <1>2, DirPathAbsolute
    <2>2. /\ binSearch(P).phase = "index" /\ binSearch(P).path = P
          /\ \A c \in Catalogs : SearchKnows(c, binSearch(P))
        BY <2>1, BinSearchGoes
    <2>. DEFINE b == binSearch(P)
    <2>. HIDE DEF b
    <2>3. /\ f.pc = "search" /\ f.op = op /\ f.path = path /\ f.search = b
          /\ f.seen = {catalog_file} /\ f.ans = Error("OK") /\ f.full = FALSE
        BY <1>2 DEF StartSearch, Idle, b
    <2>4. /\ u.pc = "search" /\ u.op = op /\ u.path = path /\ u.search = b
          /\ u.seen = {catalog_file} /\ u.ans = Error("OK")
          /\ u.full => op = "readdir"
        BY <1>2, <2>3 DEF Frame
    <2>5. AfterSearch(u) = u
        BY <2>2, <2>4 DEF AfterSearch, b
    <2>6. FrameFits(u)
        BY <1>1, <1>2, <2>2, <2>4 DEF FrameFits, Sought, b
    <2>7. \A c \in Catalogs : FrameKnows(c, u)
        BY <2>2, <2>4 DEF FrameKnows, b
    <2>8. Served(u)
        BY <2>6, <2>7 DEF Served
    <2>9. u.path \in Paths /\ u.op \in CatalogOps
        BY <2>4
    <2>. QED  BY <2>4, <2>5, <2>8, <2>9 DEF Submit, Starts
<1>3. ASSUME NEW op \in {"getattr", "readlink"}
      PROVE  Submit(t, AfterSearch(StartSearch(op, path, path))) => Starts(t)
    <2>1. StartSearch(op, path, path) \in Frame /\ op \in CatalogOps
        BY <1>1, StartSearchType DEF CatalogOps
    <2>. QED  BY <1>2, <2>1
<1>4. CASE catalog_getattr(t, path)
    BY <1>3, <1>4 DEF catalog_getattr
<1>5. CASE catalog_readlink(t, path)
    BY <1>3, <1>5 DEF catalog_readlink
<1>6. CASE catalog_readdir(t, path)
    <2>. DEFINE f == StartSearch("readdir", path, DirPath(path))
                U(full) == [f EXCEPT !.out = Dots, !.full = full]
    <2>1. PICK full \in BOOLEAN : Submit(t, AfterSearch(U(full)))
        BY <1>6 DEF catalog_readdir
    <2>2. f \in Frame /\ "readdir" \in CatalogOps
        BY <1>1, StartSearchType, DirPathType DEF CatalogOps
    <2>3. f = StartSearch("readdir", path, DirPath(path))
        OBVIOUS
    <2>4. Dots \in Seq(Dirent)
        BY DotsType
    <2>. HIDE DEF f
    <2>5. U(full) \in Frame /\ U(full).out = Dots
        BY <2>2, <2>4 DEF Frame
    <2>6. U(full) = [f EXCEPT !.out = Dots, !.full = full]
        OBVIOUS
    <2>. HIDE DEF U
    <2>. QED  BY <1>2, <2>1, <2>2, <2>3, <2>5, <2>6
<1>. QED  BY <1>4, <1>5, <1>6

(* The steps by which a thread goes on.                                    *)
LEMMA ServeAdvances ==
    ASSUME Reliable, AInv, NEW t \in Threads, Serve(t), ~OpenFails(t), ~Return(t)
    PROVE  Advances(t)
BY SearchProbeAdvances, AnswerProbeAdvances, ContentsProbeAdvances,
   ListAttrProbeAdvances, ListPathProbeAdvances DEF Serve

(* A thread without a request knows nothing of the catalog.                *)
LEMMA IdleServed == Served(Idle) /\ Idle.pc = "idle" /\ Idle.seen = {} /\ Idle.op = "none"
<1>1. Idle.pc = "idle" /\ Idle.seen = {} /\ Idle.full = FALSE /\ Idle.op = "none"
    BY DEF Idle
<1>2. FrameFits(Idle)
    BY <1>1 DEF FrameFits, Probing
<1>. QED  BY <1>1, <1>2 DEF Served

(* A fixed reply is no answer from the catalog.                            *)
LEMMA FixedServed ==
    ASSUME NEW ret
    PROVE  LET u == Fail(Idle, ret)
           IN  /\ Served(u) /\ u.pc = "reply" /\ u.op = "none" /\ u.path = <<>>
               /\ u.seen = {} /\ u.ans = Error(ret)
<1>. DEFINE u == Fail(Idle, ret)
<1>1. /\ u.pc = "reply" /\ u.op = "none" /\ u.path = <<>> /\ u.seen = {}
      /\ u.ans = Error(ret) /\ u.full = FALSE
    BY DEF Fail, Reply, Idle
<1>. HIDE DEF u
<1>2. FrameFits(u)
    BY <1>1 DEF FrameFits, Probing
<1>3. Served(u)
    BY <1>1, <1>2 DEF Served
<1>. QED  BY <1>1, <1>3 DEF u

(* AInv after a step that changed the frame of one thread.                 *)
LEMMA OneFrame ==
    ASSUME AInv, IInv', NEW t \in Threads, NEW u, th' = [th EXCEPT ![t] = u], Served(u),
           u.pc \in Probing => catalog_file \in u.seen,
           UNCHANGED <<catalog_file, fds>>
    PROVE  AInv'
<1>1. th \in [Threads -> Frame]
    BY DEF AInv, IInv, TypeOK
<1>2. ASSUME NEW x \in Threads
      PROVE  Served(th'[x]) /\ (th'[x].pc \in Probing => catalog_file \in th'[x].seen)
    <2>1. CASE x = t
        BY <1>1, <2>1
    <2>2. CASE x # t
        <3>1. th'[x] = th[x]
            BY <1>1, <2>2
        <3>. QED  BY <3>1 DEF AInv
    <2>. QED  BY <2>1, <2>2
<1>. QED  BY <1>2 DEF AInv, Served, FrameFits, FrameKnows

(* A replaced catalog is one more that a running request has seen.         *)
LEMMA ReplaceServes ==
    ASSUME AInv, NEW c \in Catalogs, ReplaceCatalog(c), NEW t \in Threads
    PROVE  /\ Served(th'[t])
           /\ th'[t].pc \in Probing => c \in th'[t].seen
           /\ th[t].pc \notin Probing => th'[t] = th[t]
           /\ th[t].pc \in Probing =>
                /\ th'[t].pc \in Probing /\ th'[t].op = th[t].op
                /\ th'[t].path = th[t].path /\ th'[t].ans = th[t].ans
                /\ \A d : th'[t].seen # {d}
<1>. DEFINE f == th[t]
            seen == f.seen \cup {c}
            u == [f EXCEPT !.seen = seen]
<1>1. f \in Frame /\ Served(f)
    BY DEF AInv, IInv, TypeOK
<1>2. th'[t] = IF f.pc \in Probing THEN u ELSE f
    BY DEF ReplaceCatalog
<1>3. f.pc \in Probing => catalog_file \in f.seen
    BY DEF AInv
<1>4. c # catalog_file
    BY DEF ReplaceCatalog
<1>5. ASSUME f.pc \in Probing, NEW d
      PROVE  seen # {d}
    BY <1>3, <1>4, <1>5
<1>6. c \in seen
    OBVIOUS
<1>. HIDE DEF seen
<1>7. /\ u.pc = f.pc /\ u.op = f.op /\ u.path = f.path /\ u.ans = f.ans
      /\ u.search = f.search /\ u.full = f.full /\ u.out = f.out /\ u.seen = seen
    BY <1>1 DEF Frame
<1>. HIDE DEF u, f
<1>8. CASE f.pc \in Probing
    <2>1. th'[t] = u
        BY <1>2, <1>8
    <2>2. FrameFits(u)
        BY <1>1, <1>7, <1>8 DEF Served, FrameFits, Sought, Probing
    <2>3. Served(u)
        BY <1>5, <1>7, <1>8, <2>2 DEF Served
    <2>. QED  BY <1>5, <1>6, <1>7, <1>8, <2>1, <2>3 DEF f
<1>9. CASE f.pc \notin Probing
    <2>1. th'[t] = f
        BY <1>2, <1>9
    <2>. QED  BY <1>1, <1>9, <2>1 DEF f
<1>. QED  BY <1>8, <1>9

(* AInv holds at the start ...                                             *)
LEMMA AInvInit ==
    ASSUME Init
    PROVE  AInv
<1>1. IInv
    BY InitOK
<1>2. ASSUME NEW t \in Threads
      PROVE  Served(th[t]) /\ th[t].pc \notin Probing
    BY IdleServed DEF Init, Probing
<1>. QED  BY <1>1, <1>2 DEF AInv, Init

(* ... and every step keeps it.                                            *)
LEMMA AInvNext ==
    ASSUME Reliable, AInv, [Next]_vars
    PROVE  AInv'
<1>1. IInv'
    BY NextOK DEF AInv
<1>2. CASE UNCHANGED vars
    <2>1. th' = th /\ fds' = fds /\ catalog_file' = catalog_file
        BY <1>2 DEF vars
    <2>. QED  BY <1>1, <2>1 DEF AInv
<1>3. ASSUME NEW t \in Threads, NEW path \in Paths,
             \/ catalog_getattr(t, path)
             \/ catalog_readlink(t, path)
             \/ catalog_readdir(t, path)
      PROVE  AInv'
    <2>1. Starts(t)
        BY <1>3, RequestStarts
    <2>2. PICK u : /\ th' = [th EXCEPT ![t] = u] /\ Served(u) /\ u.seen = {catalog_file}
        BY <2>1 DEF Starts
    <2>3. UNCHANGED <<catalog_file, fds>>
        BY <2>1 DEF Starts
    <2>. QED  BY <1>1, <2>2, <2>3, OneFrame
<1>4. ASSUME NEW t \in Threads, NEW op \in FixedOps, FixedOp(t, op)
      PROVE  AInv'
    <2>. DEFINE u == Fail(Idle, FixedReply(op))
    <2>1. th' = [th EXCEPT ![t] = u] /\ UNCHANGED <<catalog_file, fds>>
        BY <1>4 DEF FixedOp, Submit
    <2>2. Served(u) /\ u.pc \notin Probing
        BY FixedServed DEF Probing
    <2>. HIDE DEF u
    <2>. QED  BY <1>1, <2>1, <2>2, OneFrame
<1>5. ASSUME NEW t \in Threads, Serve(t), ~OpenFails(t), ~Return(t)
      PROVE  AInv'
    <2>1. Advances(t)
        BY <1>5, ServeAdvances
    <2>2. PICK u : th' = [th EXCEPT ![t] = u] /\ Later(th[t], u) /\ Served(u)
        BY <2>1 DEF Advances
    <2>3. catalog_file \in u.seen /\ UNCHANGED <<catalog_file, fds>>
        BY <2>1, <2>2 DEF Advances, Later, AInv
    <2>. QED  BY <1>1, <2>2, <2>3, OneFrame
<1>6. ASSUME NEW t \in Threads, OpenFails(t)
      PROVE  AInv'
    <2>1. UNCHANGED <<catalog_file, fds, th>>
        BY <1>6 DEF OpenFails
    <2>. QED  BY <1>1, <2>1 DEF AInv
<1>7. ASSUME NEW t \in Threads, Return(t)
      PROVE  AInv'
    <2>1. th' = [th EXCEPT ![t] = Idle] /\ UNCHANGED <<catalog_file, fds>>
        BY <1>7 DEF Return
    <2>2. Served(Idle) /\ Idle.pc \notin Probing
        BY IdleServed DEF Probing
    <2>. QED  BY <1>1, <2>1, <2>2, OneFrame
<1>8. ASSUME NEW c \in Catalogs, ReplaceCatalog(c)
      PROVE  AInv'
    <2>1. catalog_file' = c /\ fds' = fds
        BY <1>8 DEF ReplaceCatalog
    <2>2. \A t \in Threads : /\ Served(th'[t])
                             /\ th'[t].pc \in Probing => c \in th'[t].seen
        BY <1>8, ReplaceServes
    <2>. QED  BY <1>1, <2>1, <2>2 DEF AInv
<1>. QED  BY <1>2, <1>3, <1>4, <1>5, <1>6, <1>7, <1>8 DEF Next, Daemon, Request, Serve

(* An answer that AInv describes is right.                                 *)
LEMMA AInvAnswers ==
    ASSUME AInv
    PROVE  AnswersCorrect
BY DEF AInv, AnswersCorrect, Answered, Served, FrameKnows, Right

(* A request that was served from one proper catalog gets the attributes,  *)
(* the link or the whole listing that the catalog has for its path, and    *)
(* ENOENT only if the catalog has no such path: for every catalog, however *)
(* long, whatever the other threads do and whenever the file is replaced.  *)
(* It takes reads that succeed, a last offset that fits into an int,       *)
(* absolute paths and link lines that have their '\2'.                     *)
THEOREM AnswersAreCorrect ==
    ASSUME Reliable
    PROVE  Spec => []AnswersCorrect
<1>1. Init => AInv
    BY AInvInit
<1>2. AInv /\ [Next]_vars => AInv'
    BY AInvNext
<1>3. AInv => AnswersCorrect
    BY AInvAnswers
<1>. QED  BY <1>1, <1>2, <1>3, PTL DEF Spec
-----------------------------------------------------------------------------
(***************************************************************************)
(* The daemon implements the service                                       *)
(***************************************************************************)
(* The service reads a catalog as the daemon's properties do.              *)
LEMMA SameStrings ==
    ASSUME NEW ret, NEW path
    PROVE  /\ Service!Error(ret) = Error(ret)
           /\ Service!DirPath(path) = DirPath(path)
           /\ Service!basename(path) = basename(path)
BY DEF Service!Error, Error, Service!ZeroStat, ZeroStat, Service!DirPath, DirPath,
       Service!Root, Root, Service!Slash, Slash, Service!basename, basename,
       Service!Max, Max

(* It parses the same lines, ...                                           *)
LEMMA SameEntries ==
    ASSUME NEW c
    PROVE  Service!Entries(c) = Entries(c)
BY DEF Service!Entries, Entries, Service!ParseEntry, ParseEntry, Service!UpTo, UpTo,
       Service!Sep, Sep, Service!LinkSep, LinkSep, Service!LetterType, LetterType,
       Service!Min, Min

(* ... lists the same children, ...                                        *)
LEMMA SameListing ==
    ASSUME NEW c, NEW dir
    PROVE  Service!Listing(c, dir) = Listing(c, dir)
<1>1. \A p : Service!IsChild(dir, p) = IsChild(dir, p)
    BY SameStrings DEF Service!IsChild, IsChild, Service!IsStrictPrefix, IsStrictPrefix,
        Service!IsPrefix, IsPrefix, Service!Slash, Slash
<1>2. Service!Entries(c) = Entries(c)
    BY SameEntries
<1>3. Service!Children(c, dir) = Children(c, dir)
    BY <1>1, <1>2 DEF Service!Children, Children
<1>4. \A e : Service!AsDirent(e) = AsDirent(e)
    BY SameStrings DEF Service!AsDirent, AsDirent
<1>5. Service!Dots = Dots
    BY DEF Service!Dots, Dots, Service!ZeroStat, ZeroStat, Service!Dot, Dot
<1>. QED  BY <1>3, <1>4, <1>5 DEF Service!Listing, Listing

(* ... holds the same answers right, ...                                   *)
LEMMA SameAnswers ==
    ASSUME NEW c, NEW op \in CatalogOps, NEW path
    PROVE  Service!RightAnswers(c, op, path) = RightAnswers(c, op, path)
<1>1. \A p : Service!Named(c, p) = Named(c, p)
    BY SameEntries DEF Service!Named, Named
<1>2. Service!DirPath(path) = DirPath(path) /\ \A r : Service!Error(r) = Error(r)
    BY SameStrings
<1>3. Service!Listing(c, path) = Listing(c, path)
    BY SameListing
<1>4. CASE op = "getattr"
    BY <1>1, <1>2, <1>4 DEF Service!RightAnswers, RightAnswers
<1>5. CASE op = "readlink"
    BY <1>1, <1>2, <1>5 DEF Service!RightAnswers, RightAnswers
<1>6. CASE op = "readdir"
    BY <1>1, <1>2, <1>3, <1>6 DEF Service!RightAnswers, RightAnswers
<1>. QED  BY <1>4, <1>5, <1>6 DEF CatalogOps

(* ... and knows the same answers and requests.                            *)
LEMMA SameTypes ==
    /\ Service!Answer = Answer /\ Service!CatalogOps = CatalogOps
    /\ Service!FixedOps = FixedOps
BY DEF Service!Answer, Answer, Service!Replies, Replies, Service!Stat, Stat,
       Service!Dirent, Dirent, Service!Path, Path, Service!Byte, Byte,
       Service!FileType, FileType, Service!TypeLetter, TypeLetter,
       Service!CatalogOps, CatalogOps, Service!FixedOps, FixedOps,
       Service!ModifyingOps, ModifyingOps, Service!ContentOps, ContentOps,
       Service!GrantedOps, GrantedOps

(* The calls that a client sees.                                           *)
Calls == [t \in Threads |-> CallOf(th[t])]

(* A thread without a request is a client without a call.                  *)
LEMMA IdleCall == CallOf(Idle) = Service!NoCall
<1>1. /\ Idle.pc = "idle" /\ Idle.op = "none" /\ Idle.path = <<>>
      /\ Idle.seen = {} /\ Idle.ans = Error("OK")
    BY DEF Idle
<1>2. Steady(Idle) = FALSE
    BY <1>1 DEF Steady
<1>. QED  BY <1>1, <1>2, SameStrings DEF CallOf, Service!NoCall

(* One thread's step changes its own call only.                            *)
LEMMA OneCall ==
    ASSUME AInv, NEW t \in Threads, NEW u, th' = [th EXCEPT ![t] = u]
    PROVE  /\ Calls' = [Calls EXCEPT ![t] = CallOf(u)]
           /\ Calls'[t] = CallOf(u) /\ Calls[t] = CallOf(th[t])
<1>. DEFINE K(x) == CallOf(th[x])
            L(x) == CallOf(th'[x])
            v == CallOf(u)
<1>1. th \in [Threads -> Frame]
    BY DEF AInv, IInv, TypeOK
<1>2. \A x \in Threads : th'[x] = IF x = t THEN u ELSE th[x]
    BY <1>1
<1>3. Calls' = [x \in Threads |-> L(x)]
    BY DEF Calls, CallOf, Steady
<1>4. Calls = [x \in Threads |-> K(x)]
    BY DEF Calls
<1>5. \A x \in Threads : L(x) = IF x = t THEN v ELSE K(x)
    BY <1>2
<1>. HIDE DEF K, L, v
<1>6. Calls' = [Calls EXCEPT ![t] = v] /\ Calls'[t] = v /\ Calls[t] = K(t)
    BY <1>3, <1>4, <1>5
<1>. QED  BY <1>6 DEF K, v

(* The fields of a call, one at a time.                                    *)
LEMMA CallFields ==
    ASSUME NEW r, NEW state, NEW op, NEW path, NEW steady, NEW a, NEW x,
           r = [state |-> state, op |-> op, path |-> path, steady |-> steady, ans |-> a]
    PROVE  /\ [r EXCEPT !.state = x]
                = [state |-> x, op |-> op, path |-> path, steady |-> steady, ans |-> a]
           /\ [r EXCEPT !.steady = x]
                = [state |-> state, op |-> op, path |-> path, steady |-> x, ans |-> a]
           /\ [r EXCEPT !.ans = x]
                = [state |-> state, op |-> op, path |-> path, steady |-> steady, ans |-> x]
<1>. DEFINE S == {state, steady, a, x}
<1>1. r \in [state : S, op : {op}, path : {path}, steady : S, ans : S]
    OBVIOUS
<1>. QED  BY <1>1

(* A call that is done without having been pending.                        *)
LEMMA NoCallDone ==
    ASSUME NEW b
    PROVE  [Service!NoCall EXCEPT !.state = "done", !.ans = b]
         = [state |-> "done", op |-> "none", path |-> <<>>, steady |-> FALSE, ans |-> b]
<1>. DEFINE a == Service!Error("OK")
            no == FALSE
            R == [state : {"idle", "done"}, op : {"none"}, path : {<<>>},
                  steady : {no}, ans : {a, b}]
<1>1. Service!NoCall = [state |-> "idle", op |-> "none", path |-> <<>>,
                        steady |-> no, ans |-> a]
    BY DEF Service!NoCall
<1>. HIDE DEF a, no
<1>2. PICK r \in R : r = [state |-> "idle", op |-> "none", path |-> <<>>,
                          steady |-> no, ans |-> a]
    OBVIOUS
<1>3. [r EXCEPT !.state = "done"]
        = [state |-> "done", op |-> "none", path |-> <<>>, steady |-> no, ans |-> a]
    BY <1>2
<1>4. PICK q \in R : q = [state |-> "done", op |-> "none", path |-> <<>>,
                          steady |-> no, ans |-> a]
    OBVIOUS
<1>5. [q EXCEPT !.ans = b]
        = [state |-> "done", op |-> "none", path |-> <<>>, steady |-> no, ans |-> b]
    BY <1>4
<1>6. [r EXCEPT !.state = "done", !.ans = b] = [q EXCEPT !.ans = b]
    <2>1. q = [r EXCEPT !.state = "done"]
        BY <1>3, <1>4
    <2>. QED  BY <2>1
<1>. QED  BY <1>1, <1>2, <1>5, <1>6 DEF no

(* A step within a request is invisible, or it is the answer.              *)
LEMMA AdvanceResponds ==
    ASSUME AInv, AInv', NEW t \in Threads, Advances(t)
    PROVE  Service!Respond(t) \/ UNCHANGED Service!svars
<1>. DEFINE f == th[t]
<1>1. PICK u : th' = [th EXCEPT ![t] = u] /\ Later(f, u) /\ Served(u)
    BY DEF Advances
<1>2. /\ daemon = "running" /\ f.pc \in Probing /\ UNCHANGED <<catalog_file, daemon>>
    BY DEF Advances
<1>3. /\ Calls' = [Calls EXCEPT ![t] = CallOf(u)]
      /\ Calls'[t] = CallOf(u) /\ Calls[t] = CallOf(f)
    BY <1>1, OneCall
<1>4. u.op = f.op /\ u.path = f.path /\ u.seen = f.seen
    BY <1>1 DEF Later
<1>5. Steady(u) = Steady(f)
    BY <1>4 DEF Steady
<1>6. CallOf(f) = [state |-> "pending", op |-> f.op, path |-> f.path,
                   steady |-> Steady(f), ans |-> f.ans]
    BY <1>2 DEF CallOf, Probing
<1>7. CASE u.pc = "reply"
    <2>1. CallOf(u) = [state |-> "done", op |-> f.op, path |-> f.path,
                       steady |-> Steady(f), ans |-> u.ans]
        BY <1>4, <1>5, <1>7 DEF CallOf
    <2>2. u.ans \in Answer
        <3>1. th'[t] = u /\ th' \in [Threads -> Frame]
            BY <1>1 DEF AInv, IInv, TypeOK
        <3>. QED  BY <3>1 DEF Frame
    <2>3. f.op \in CatalogOps
        BY <1>2 DEF AInv, Served, FrameFits
    <2>4. Service!Allowed(CallOf(f), u.ans)
        <3>. SUFFICES ASSUME Steady(f)
                      PROVE  \/ u.ans \in RightAnswers(catalog_file, f.op, f.path)
                             \/ u.ans = Error("ENOMEM") /\ f.op = "readdir"
            BY <1>6, <2>3, SameAnswers, SameStrings DEF Service!Allowed
        <3>1. PICK c \in Catalogs : f.seen = {c} /\ Proper(c)
            BY DEF Steady
        <3>2. catalog_file = c
            BY <1>2, <3>1 DEF AInv
        <3>3. FrameKnows(c, u) /\ FrameFits(u)
            BY <1>1, <1>4, <3>1 DEF Served
        <3>. QED  BY <1>4, <1>7, <3>2, <3>3 DEF FrameKnows, FrameFits, Right
    <2>5. Calls[t].state = "pending" /\ Calls'[t].ans = u.ans
        BY <1>3, <1>6, <2>1
    <2>6. Calls' = [Calls EXCEPT ![t].state = "done", ![t].ans = Calls'[t].ans]
        <3>1. CallOf(u) = [CallOf(f) EXCEPT !.state = "done", !.ans = u.ans]
            <4>1. PICK r, q, steady : /\ r = CallOf(f) /\ steady = Steady(f)
                                      /\ q = [r EXCEPT !.state = "done"]
                OBVIOUS
            <4>2. r = [state |-> "pending", op |-> f.op, path |-> f.path,
                       steady |-> steady, ans |-> f.ans]
                BY <1>6, <4>1
            <4>a. [r EXCEPT !.state = "done"]
                    = [state |-> "done", op |-> f.op, path |-> f.path,
                       steady |-> steady, ans |-> f.ans]
                BY <4>2, CallFields
            <4>3. q = [state |-> "done", op |-> f.op, path |-> f.path,
                       steady |-> steady, ans |-> f.ans]
                BY <4>1, <4>a
            <4>4. [q EXCEPT !.ans = u.ans]
                    = [state |-> "done", op |-> f.op, path |-> f.path,
                       steady |-> steady, ans |-> u.ans]
                BY <4>3, CallFields
            <4>5. [r EXCEPT !.state = "done", !.ans = u.ans] = [q EXCEPT !.ans = u.ans]
                BY <4>1
            <4>6. CallOf(u) = [q EXCEPT !.ans = u.ans]
                BY <2>1, <4>1, <4>4
            <4>. QED  BY <4>1, <4>5, <4>6
        <3>2. t \in DOMAIN Calls
            BY DEF Calls
        <3>. QED  BY <1>3, <2>5, <3>1, <3>2
    <2>7. Service!Allowed(Calls[t], Calls'[t].ans) /\ Calls'[t].ans \in Service!Answer
        BY <1>3, <2>2, <2>4, <2>5, SameTypes
    <2>. QED  BY <1>2, <2>5, <2>6, <2>7 DEF Service!Respond, Calls
<1>8. CASE u.pc # "reply"
    <2>1. u.pc \in Probing /\ u.ans = f.ans
        BY <1>1, <1>8 DEF Later
    <2>2. CallOf(u) = CallOf(f)
        BY <1>4, <1>5, <1>6, <2>1 DEF CallOf, Probing
    <2>3. Calls' = Calls
        BY <1>3, <2>2 DEF Calls
    <2>. QED  BY <1>2, <2>3 DEF Service!svars, Calls
<1>. QED  BY <1>7, <1>8

(* A request that is taken up is a new call, steady if the catalog of that *)
(* moment is proper.                                                       *)
LEMMA StartInvokes ==
    ASSUME AInv, NEW t \in Threads, Starts(t)
    PROVE  \E op \in CatalogOps, path \in Paths : Service!Invoke(t, op, path)
<1>1. PICK u : /\ th' = [th EXCEPT ![t] = u]
               /\ u.pc = "search" /\ u.op \in CatalogOps /\ u.path \in Paths
               /\ u.ans = Error("OK") /\ u.seen = {catalog_file}
    BY DEF Starts
<1>2. daemon = "running" /\ th[t].pc = "idle" /\ UNCHANGED <<catalog_file, daemon>>
    BY DEF Starts
<1>3. th[t] = Idle /\ catalog_file \in Catalogs
    BY <1>2 DEF AInv, Served, FrameFits, IInv, TypeOK
<1>4. /\ Calls' = [Calls EXCEPT ![t] = CallOf(u)] /\ Calls[t] = Service!NoCall
    BY <1>1, <1>3, OneCall, IdleCall
<1>5. Steady(u) = Proper(catalog_file)
    <2>1. \A c : u.seen = {c} <=> c = catalog_file
        BY <1>1
    <2>2. Steady(u) \in BOOLEAN /\ Proper(catalog_file) \in BOOLEAN
        BY DEF Steady, Proper, Fits, Ordered, DepthsRight
    <2>3. Steady(u) <=> Proper(catalog_file)
        BY <1>3, <2>1 DEF Steady
    <2>. QED  BY <2>2, <2>3
<1>6. CallOf(u) = [state |-> "pending", op |-> u.op, path |-> u.path,
                   steady |-> Proper(catalog_file), ans |-> Service!Error("OK")]
    BY <1>1, <1>5, SameStrings DEF CallOf
<1>7. Service!Invoke(t, u.op, u.path)
    BY <1>2, <1>4, <1>6 DEF Service!Invoke, Calls
<1>. QED  BY <1>1, <1>7

(* A request with a fixed reply is a call that is done at once.            *)
LEMMA FixedDisposes ==
    ASSUME AInv, NEW t \in Threads, NEW op \in FixedOps, FixedOp(t, op)
    PROVE  Service!Dispose(t, op)
<1>. DEFINE ret == FixedReply(op)
            u == Fail(Idle, ret)
<1>1. /\ daemon = "running" /\ th[t].pc = "idle" /\ th' = [th EXCEPT ![t] = u]
      /\ UNCHANGED <<catalog_file, daemon>>
    BY DEF FixedOp, Submit
<1>2. th[t] = Idle
    BY <1>1 DEF AInv, Served, FrameFits
<1>3. ret = IF op \in Service!ModifyingOps THEN "EROFS"
            ELSE IF op \in Service!ContentOps THEN "EPERM" ELSE "OK"
    BY DEF FixedReply, Service!ModifyingOps, ModifyingOps, Service!ContentOps, ContentOps
<1>. HIDE DEF ret
<1>4. /\ u.pc = "reply" /\ u.op = "none" /\ u.path = <<>> /\ u.seen = {}
      /\ u.ans = Error(ret)
    BY FixedServed
<1>. HIDE DEF u
<1>5. /\ Calls' = [Calls EXCEPT ![t] = CallOf(u)] /\ Calls[t] = Service!NoCall
      /\ Calls'[t] = CallOf(u)
    BY <1>1, <1>2, OneCall, IdleCall
<1>6. Steady(u) = FALSE
    BY <1>4 DEF Steady
<1>7. CallOf(u) = [state |-> "done", op |-> "none", path |-> <<>>,
                   steady |-> FALSE, ans |-> u.ans]
    BY <1>4, <1>6 DEF CallOf
<1>8. u.ans.ret = ret
    BY <1>4 DEF Error
<1>9. CallOf(u).ans = u.ans
    BY <1>7
<1>10. CallOf(u) = [Service!NoCall EXCEPT !.state = "done", !.ans = u.ans]
    BY <1>7, NoCallDone
<1>. QED  BY <1>1, <1>3, <1>5, <1>8, <1>9, <1>10 DEF Service!Dispose, Calls

(* The answer is collected.                                                *)
LEMMA ReturnCollects ==
    ASSUME AInv, NEW t \in Threads, Return(t)
    PROVE  Service!Collect(t)
<1>1. /\ daemon = "running" /\ th[t].pc = "reply" /\ th' = [th EXCEPT ![t] = Idle]
      /\ UNCHANGED <<catalog_file, daemon>>
    BY DEF Return
<1>2. /\ Calls' = [Calls EXCEPT ![t] = Service!NoCall] /\ Calls[t] = CallOf(th[t])
    BY <1>1, OneCall, IdleCall
<1>3. CallOf(th[t]).state = "done"
    BY <1>1 DEF CallOf
<1>. QED  BY <1>1, <1>2, <1>3 DEF Service!Collect, Calls

(* Without a leaked descriptor, open() fails only if the file is gone.     *)
LEMMA OpenFailsStops ==
    ASSUME AInv, MaxFds > 0, NEW t \in Threads, OpenFails(t)
    PROVE  Service!Stop(t)
<1>1. /\ daemon = "running" /\ th[t].pc \in Probing /\ ~CanOpen /\ daemon' = "exited"
      /\ UNCHANGED <<catalog_file, th>>
    BY DEF OpenFails
<1>2. ~catalog_file.present
    BY <1>1 DEF CanOpen, AInv
<1>3. Calls' = Calls /\ Calls[t].state = "pending"
    BY <1>1 DEF Calls, CallOf, Steady, Probing
<1>. QED  BY <1>1, <1>2, <1>3 DEF Service!Stop, Calls

(* A replaced catalog leaves no call steady that is still pending.         *)
LEMMA ReplaceChanges ==
    ASSUME AInv, NEW c \in Catalogs, ReplaceCatalog(c)
    PROVE  Service!Change(c)
<1>. DEFINE New(t) == IF Calls[t].state = "pending"
                      THEN [Calls[t] EXCEPT !.steady = FALSE] ELSE Calls[t]
<1>1. ASSUME NEW t \in Threads
      PROVE  CallOf(th'[t]) = New(t)
    <2>. DEFINE f == th[t]
                u == th'[t]
    <2>1. /\ f.pc \notin Probing => u = f
          /\ f.pc \in Probing => /\ u.pc \in Probing /\ u.op = f.op
                                 /\ u.path = f.path /\ u.ans = f.ans
                                 /\ \A d : u.seen # {d}
        BY ReplaceServes
    <2>2. Calls[t] = CallOf(f)
        BY DEF Calls
    <2>3. f.pc \in {"idle", "reply"} \cup Probing
        BY DEF AInv, IInv, TypeOK, Frame, Probing
    <2>. HIDE DEF f, u
    <2>4. CASE f.pc \in Probing
        <3>1. Steady(u) = FALSE
            BY <2>1, <2>4 DEF Steady
        <3>2. CallOf(u) = [state |-> "pending", op |-> f.op, path |-> f.path,
                           steady |-> FALSE, ans |-> f.ans]
            BY <2>1, <2>4, <3>1 DEF CallOf, Probing
        <3>3. CallOf(f) = [state |-> "pending", op |-> f.op, path |-> f.path,
                           steady |-> Steady(f), ans |-> f.ans]
            BY <2>4 DEF CallOf, Probing
        <3>4. CallOf(u) = [CallOf(f) EXCEPT !.steady = FALSE]
            <4>1. PICK r, steady, no : r = CallOf(f) /\ steady = Steady(f) /\ no = FALSE
                OBVIOUS
            <4>2. r = [state |-> "pending", op |-> f.op, path |-> f.path,
                               steady |-> steady, ans |-> f.ans]
                BY <3>3, <4>1
            <4>3. CallOf(u) = [state |-> "pending", op |-> f.op, path |-> f.path,
                               steady |-> no, ans |-> f.ans]
                BY <3>2, <4>1
            <4>4. [r EXCEPT !.steady = no]
                    = [state |-> "pending", op |-> f.op, path |-> f.path,
                       steady |-> no, ans |-> f.ans]
                BY <4>2, CallFields
            <4>5. CallOf(u) = [r EXCEPT !.steady = no]
                BY <4>3, <4>4
            <4>. QED  BY <4>1, <4>5
        <3>5. CallOf(f).state = "pending"
            BY <3>3
        <3>. QED  BY <2>2, <3>4, <3>5 DEF u
    <2>5. CASE f.pc \notin Probing
        <3>1. CallOf(f).state # "pending"
            BY <2>3, <2>5 DEF CallOf
        <3>. QED  BY <2>1, <2>2, <2>5, <3>1 DEF u
    <2>. QED  BY <2>4, <2>5
<1>2. Calls' = [t \in Threads |-> CallOf(th'[t])]
    BY DEF Calls, CallOf, Steady
<1>. HIDE DEF New
<1>3. Calls' = [t \in Threads |-> New(t)]
    BY <1>1, <1>2
<1>4. catalog_file' = c /\ daemon' = daemon
    BY DEF ReplaceCatalog
<1>. QED  BY <1>3, <1>4 DEF Service!Change, Calls, New

(* The daemon starts as the service does.                                  *)
LEMMA InitServes ==
    ASSUME Init
    PROVE  Service!Init
<1>1. catalog_file \in Catalogs /\ daemon = "running" /\ th = [t \in Threads |-> Idle]
    BY DEF Init
<1>2. \A t \in Threads : CallOf(th[t]) = Service!NoCall
    BY <1>1, IdleCall
<1>3. Calls = [t \in Threads |-> Service!NoCall]
    BY <1>2 DEF Calls
<1>. QED  BY <1>1, <1>3 DEF Service!Init, Calls

(* Every step of the daemon is one of the service, or none.                *)
LEMMA NextServes ==
    ASSUME Reliable, MaxFds > 0, AInv, AInv', [Next]_vars
    PROVE  [Service!Next]_Service!svars
<1>1. CASE UNCHANGED vars
    <2>1. UNCHANGED <<catalog_file, daemon>> /\ Calls' = Calls
        BY <1>1 DEF vars, Calls, CallOf, Steady
    <2>. QED  BY <2>1 DEF Service!svars, Calls
<1>2. ASSUME NEW t \in Threads, NEW path \in Paths,
             \/ catalog_getattr(t, path)
             \/ catalog_readlink(t, path)
             \/ catalog_readdir(t, path)
      PROVE  Service!Next
    <2>1. \E op \in CatalogOps, p \in Paths : Service!Invoke(t, op, p)
        BY <1>2, RequestStarts, StartInvokes
    <2>. QED  BY <2>1, SameTypes DEF Service!Next
<1>3. ASSUME NEW t \in Threads, NEW op \in FixedOps, FixedOp(t, op)
      PROVE  Service!Next
    BY <1>3, FixedDisposes, SameTypes DEF Service!Next
<1>4. ASSUME NEW t \in Threads, Serve(t), ~OpenFails(t), ~Return(t)
      PROVE  Service!Next \/ UNCHANGED Service!svars
    BY <1>4, ServeAdvances, AdvanceResponds DEF Service!Next
<1>5. ASSUME NEW t \in Threads, OpenFails(t)
      PROVE  Service!Next
    BY <1>5, OpenFailsStops DEF Service!Next
<1>6. ASSUME NEW t \in Threads, Return(t)
      PROVE  Service!Next
    BY <1>6, ReturnCollects DEF Service!Next
<1>7. ASSUME NEW c \in Catalogs, ReplaceCatalog(c)
      PROVE  Service!Next
    BY <1>7, ReplaceChanges DEF Service!Next
<1>. QED  BY <1>1, <1>2, <1>3, <1>4, <1>5, <1>6, <1>7 DEF Next, Daemon, Request, Serve

(* The daemon implements the service, for any number of threads, any       *)
(* catalogs and any moment of replacement: a request that found a usable   *)
(* catalog and saw it stay is answered once and rightly, the others with   *)
(* some answer, nothing is changed by a request, and the daemon exits only *)
(* because the file is gone.  At least one descriptor can be had.          *)
THEOREM DaemonImplementsService ==
    ASSUME Reliable, MaxFds > 0
    PROVE  Spec => ImplementsService
<1>1. Init => AInv
    BY AInvInit
<1>2. AInv /\ [Next]_vars => AInv'
    BY AInvNext
<1>3. Init => Service!Init
    BY InitServes
<1>4. AInv /\ AInv' /\ [Next]_vars => [Service!Next]_Service!svars
    BY NextServes
<1>. QED  BY <1>1, <1>2, <1>3, <1>4, PTL DEF Spec, ImplementsService, Service!Spec
=============================================================================
