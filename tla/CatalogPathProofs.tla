-------------------------- MODULE CatalogPathProofs --------------------------
(***************************************************************************)
(* Facts about path strings that the proofs about the search and the       *)
(* daemon rest on: strcmp orders all strings, and the helpers on strings   *)
(* return strings.                                                         *)
(***************************************************************************)
EXTENDS CatalogEntry, WellFoundedInduction, SequenceTheorems, TLAPS

(* A set of numbers has a least element, the one Min picks.                *)
LEMMA MinOfNats ==
    ASSUME NEW T, T \subseteq Nat, T # {}
    PROVE  /\ Min(T) \in T
           /\ \A y \in T : Min(T) <= y
<1>. DEFINE R == OpToRel(<, Nat)
<1>1. IsWellFoundedOn(R, Nat)
    BY NatLessThanWellFounded
<1>2. \A x, y \in Nat : y < x => <<y, x>> \in R
    BY Zenon DEF OpToRel
<1>. HIDE DEF R
<1>3. PICK x \in T : \A y \in T : ~ (<<y, x>> \in R)
    BY <1>1, WFMin
<1>4. ASSUME NEW y \in T PROVE x <= y
    <2>1. x \in Nat /\ y \in Nat
        OBVIOUS
    <2>2. ~ (y < x)
        BY <1>2, <1>3, <2>1
    <2>. QED  BY <2>1, <2>2
<1>. QED  BY <1>4 DEF Min

(* A set of positions of a string has a greatest element, the one Max picks. *)
LEMMA MaxOfIndices ==
    ASSUME NEW n \in Nat, NEW T, T \subseteq 1..n, T # {}
    PROVE  /\ Max(T) \in T
           /\ \A y \in T : Max(T) >= y
<1>. DEFINE U == {n - x : x \in T}
<1>0. \A x \in T : x \in Int /\ n - x \in Nat
    OBVIOUS
<1>1. U \subseteq Nat /\ U # {}
    BY <1>0
<1>2. PICK x \in T : n - x = Min(U)
    BY <1>1, MinOfNats
<1>3. \A y \in T : n - x <= n - y
    BY <1>1, <1>2, MinOfNats
<1>4. \A y \in T : x >= y
    BY <1>0, <1>3
<1>. QED  BY <1>4 DEF Max

(* The bytes of a string are numbers.                                      *)
LEMMA PathBytes ==
    ASSUME NEW s \in Path
    PROVE  /\ Len(s) \in Nat /\ DOMAIN s = 1..Len(s)
           /\ \A i \in 1..Len(s) : s[i] \in Int
<1>1. \A i \in 1..Len(s) : s[i] \in Byte
    BY DEF Path
<1>2. \A b \in Byte : b \in Int
    BY DEF Byte
<1>. QED  BY <1>1, <1>2 DEF Path

(* strcmp's order is irreflexive ...                                       *)
LEMMA StrLessIrreflexive ==
    ASSUME NEW s \in Path
    PROVE  ~ StrLess(s, s)
<1>. SUFFICES ASSUME NEW k \in 0..Len(s), k < Len(s),
                     k = Len(s) \/ s[k + 1] < s[k + 1]
              PROVE  FALSE
    BY DEF StrLess
<1>1. k \in Int /\ Len(s) \in Nat /\ s[k + 1] \in Int
    BY PathBytes
<1>. QED  BY <1>1

(* ... transitive ...                                                      *)
LEMMA StrLessTransitive ==
    ASSUME NEW s \in Path, NEW t \in Path, NEW u \in Path,
           StrLess(s, t), StrLess(t, u)
    PROVE  StrLess(s, u)
<1>. /\ Len(s) \in Nat /\ Len(t) \in Nat /\ Len(u) \in Nat
     /\ \A i \in 1..Len(s) : s[i] \in Int
     /\ \A i \in 1..Len(t) : t[i] \in Int
     /\ \A i \in 1..Len(u) : u[i] \in Int
    BY PathBytes
<1>1. PICK k \in 0..Len(s) : /\ k < Len(t)
                             /\ \A j \in 1..k : s[j] = t[j]
                             /\ k = Len(s) \/ s[k + 1] < t[k + 1]
    BY DEF StrLess
<1>2. PICK m \in 0..Len(t) : /\ m < Len(u)
                             /\ \A j \in 1..m : t[j] = u[j]
                             /\ m = Len(t) \/ t[m + 1] < u[m + 1]
    BY DEF StrLess
<1>. DEFINE n == IF k <= m THEN k ELSE m
<1>3. n \in 0..Len(s) /\ n < Len(u) /\ \A j \in 1..n : s[j] = u[j]
    BY <1>1, <1>2
<1>4. n = Len(s) \/ s[n + 1] < u[n + 1]
    <2>1. CASE k < m
        <3>1. t[k + 1] = u[k + 1]
            BY <1>1, <1>2, <2>1
        <3>. QED  BY <1>1, <2>1, <3>1
    <2>2. CASE k = m
        <3>1. m # Len(t)
            BY <1>1, <2>2
        <3>2. t[m + 1] < u[m + 1]
            BY <1>2, <3>1
        <3>3. CASE k = Len(s)
            BY <2>2, <3>3
        <3>4. CASE k # Len(s)
            <4>1. s[k + 1] \in Int /\ t[k + 1] \in Int /\ u[k + 1] \in Int
                BY <1>1, <1>2, <2>2, <3>4
            <4>. QED  BY <1>1, <2>2, <3>2, <3>4, <4>1
        <3>. QED  BY <3>3, <3>4
    <2>3. CASE k > m
        <3>1. m # Len(t) /\ s[m + 1] = t[m + 1]
            BY <1>1, <1>2, <2>3
        <3>. QED  BY <1>1, <1>2, <2>3, <3>1
    <2>. QED  BY <1>1, <1>2, <2>1, <2>2, <2>3
<1>. QED  BY <1>3, <1>4 DEF StrLess

(* ... and total: two different strings differ at a first position.        *)
LEMMA StrLessTotal ==
    ASSUME NEW s \in Path, NEW t \in Path, s # t
    PROVE  StrLess(s, t) \/ StrLess(t, s)
<1>. /\ Len(s) \in Nat /\ Len(t) \in Nat
     /\ DOMAIN s = 1..Len(s) /\ DOMAIN t = 1..Len(t)
     /\ \A i \in 1..Len(s) : s[i] \in Int
     /\ \A i \in 1..Len(t) : t[i] \in Int
    BY PathBytes
<1>. DEFINE D == {i \in Nat \ {0} : \/ i > Len(s) \/ i > Len(t) \/ s[i] # t[i]}
            p == Min(D)
<1>1. Len(s) + 1 \in D
    OBVIOUS
<1>2. p \in D /\ \A y \in D : p <= y
    BY <1>1, MinOfNats
<1>. HIDE DEF p
<1>3. PICK k \in Nat : /\ k + 1 = p /\ k <= Len(s) /\ k <= Len(t)
                       /\ \A j \in 1..k : s[j] = t[j]
    <2>. DEFINE q == p - 1
    <2>1. Len(t) + 1 \in D
        OBVIOUS
    <2>2. p <= Len(s) + 1 /\ p <= Len(t) + 1 /\ p \in Nat /\ p > 0
        BY <1>1, <1>2, <2>1
    <2>3. ASSUME NEW j \in 1..q PROVE s[j] = t[j]
        <3>1. j \notin D
            BY <1>2, <2>2
        <3>. QED  BY <2>2, <3>1
    <2>4. q \in Nat /\ q + 1 = p /\ q <= Len(s) /\ q <= Len(t)
        BY <2>2
    <2>. QED  BY <2>3, <2>4
<1>4. ~ (k = Len(s) /\ k = Len(t))
    <2>. SUFFICES ASSUME k = Len(s), k = Len(t) PROVE FALSE
        OBVIOUS
    <2>1. s = t
        BY <1>3, SeqEqual DEF Path
    <2>. QED  BY <2>1
<1>. HIDE DEF D
<1>a. Len(s) \in Nat /\ Len(t) \in Nat /\ k <= Len(s) /\ k <= Len(t)
    BY <1>3
<1>5. CASE k = Len(s)
    <2>1. k \in 0..Len(s) /\ k < Len(t)
        BY ONLY <1>a, <1>4, <1>5, k \in Nat
    <2>2. StrLess(s, t)
        BY <1>3, <1>5, <2>1 DEF StrLess
    <2>. QED  BY <2>2
<1>6. CASE k = Len(t)
    <2>1. k \in 0..Len(t) /\ k < Len(s)
        BY ONLY <1>a, <1>4, <1>6, k \in Nat
    <2>2. \A j \in 1..k : t[j] = s[j]
        BY <1>3
    <2>3. StrLess(t, s)
        BY <1>6, <2>1, <2>2 DEF StrLess
    <2>. QED  BY <2>3
<1>7. CASE k < Len(s) /\ k < Len(t)
    <2>1. k \in 0..Len(s) /\ k \in 0..Len(t)
        BY <1>3, <1>7
    <2>2. k + 1 \in Nat /\ k + 1 <= Len(s) /\ k + 1 <= Len(t)
        BY <1>3, <1>7
    <2>3. s[k + 1] # t[k + 1]
        BY <1>2, <1>3, <2>2 DEF D
    <2>4. s[k + 1] \in Int /\ t[k + 1] \in Int
        BY <2>2
    <2>5. CASE s[k + 1] < t[k + 1]
        <3>1. StrLess(s, t)
            BY <1>3, <1>7, <2>1, <2>5 DEF StrLess
        <3>. QED  BY <3>1
    <2>6. CASE t[k + 1] < s[k + 1]
        <3>1. \A j \in 1..k : t[j] = s[j]
            BY <1>3
        <3>2. StrLess(t, s)
            BY <1>7, <2>1, <2>6, <3>1 DEF StrLess
        <3>. QED  BY <3>2
    <2>. QED  BY <2>3, <2>4, <2>5, <2>6
<1>8. k = Len(s) \/ k = Len(t) \/ (k < Len(s) /\ k < Len(t))
    BY ONLY <1>a, k \in Nat
<1>. QED  BY <1>5, <1>6, <1>7, <1>8
-----------------------------------------------------------------------------
(* Cutting a string at a separator leaves a string.                        *)
LEMMA UpToType ==
    ASSUME NEW text \in Path, NEW sep
    PROVE  UpTo(text, sep) \in Path /\ Len(UpTo(text, sep)) <= Len(text)
<1>. DEFINE hits == {i \in DOMAIN text : text[i] = sep}
<1>. Len(text) \in Nat /\ DOMAIN text = 1..Len(text)
    BY DEF Path
<1>1. CASE hits = {}
    BY <1>1 DEF UpTo
<1>2. CASE hits # {}
    <2>0. hits \subseteq 1..Len(text) /\ hits \subseteq Nat
        OBVIOUS
    <2>1. Min(hits) \in 1..Len(text)
        BY <1>2, <2>0, MinOfNats
    <2>. DEFINE m == Min(hits) - 1
    <2>2. m \in Int /\ 0 <= m /\ m <= Len(text)
        BY <2>1
    <2>3. UpTo(text, sep) = SubSeq(text, 1, m)
        BY <1>2 DEF UpTo
    <2>. HIDE DEF m
    <2>4. \A i \in 1..m : text[i] \in Byte
        BY <2>2 DEF Path
    <2>. QED  BY <2>2, <2>3, <2>4, SubSeqProperties DEF Path
<1>. QED  BY <1>1, <1>2

(* Cutting a string that has the separator makes it shorter.               *)
LEMMA UpToCuts ==
    ASSUME NEW text \in Path, NEW sep, \E i \in DOMAIN text : text[i] = sep
    PROVE  Len(UpTo(text, sep)) < Len(text)
<1>. DEFINE hits == {i \in DOMAIN text : text[i] = sep}
<1>. Len(text) \in Nat /\ DOMAIN text = 1..Len(text)
    BY DEF Path
<1>1. hits # {} /\ hits \subseteq 1..Len(text) /\ hits \subseteq Nat
    OBVIOUS
<1>2. Min(hits) \in 1..Len(text)
    BY <1>1, MinOfNats
<1>. DEFINE m == Min(hits) - 1
<1>3. m \in Int /\ 0 <= m /\ m < Len(text)
    BY <1>2
<1>4. UpTo(text, sep) = SubSeq(text, 1, m)
    BY <1>1 DEF UpTo
<1>. HIDE DEF m
<1>5. \A i \in 1..m : text[i] \in Byte
    BY <1>3 DEF Path
<1>6. Len(SubSeq(text, 1, m)) = m
    BY <1>3, <1>5, SubSeqProperties DEF Path
<1>. QED  BY <1>3, <1>4, <1>6

(* The last component of a path is a string.                               *)
LEMMA BasenameType ==
    ASSUME NEW path \in Path
    PROVE  basename(path) \in Path
<1>. DEFINE slashes == {i \in DOMAIN path : path[i] = Slash}
<1>. Len(path) \in Nat /\ DOMAIN path = 1..Len(path)
    BY DEF Path
<1>1. CASE slashes = {}
    BY <1>1 DEF basename
<1>2. CASE slashes # {}
    <2>1. Max(slashes) \in 1..Len(path)
        BY <1>2, MaxOfIndices
    <2>. DEFINE m == 1 + Max(slashes)
    <2>2. m \in Int /\ 0 < m
        BY <2>1
    <2>3. basename(path) = SubSeq(path, m, Len(path))
        BY <1>2 DEF basename
    <2>. HIDE DEF m
    <2>4. \A i \in m..Len(path) : path[i] \in Byte
        BY <2>2 DEF Path
    <2>. QED  BY <2>2, <2>3, <2>4, SubSeqProperties DEF Path
<1>. QED  BY <1>1, <1>2
=============================================================================
