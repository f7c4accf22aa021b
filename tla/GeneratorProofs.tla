--------------------------- MODULE GeneratorProofs ---------------------------
(***************************************************************************)
(* Theorems about generate_catalog, for any directory trees, any number of *)
(* changes of the tree during the walk and any failures: the catalog has   *)
(* the layout that the searches of the daemon rely on.                     *)
(***************************************************************************)
EXTENDS GenerateCatalog, CatalogPathProofs, FiniteSetTheorems

(***************************************************************************)
(* Paths                                                                   *)
(***************************************************************************)
Slashes(p) == Cardinality({i \in DOMAIN p : p[i] = Slash})
HeaderOf(d) == Append(d, Slash)
IsHead(p) == p[Len(p)] = Slash

\* The path of a directory, and a name in one.
PlainDir(d) == PlainPath(d) /\ (d # <<>> => d[1] = Slash)
PlainName(n) == PlainPath(n) /\ n # <<>> /\ \A i \in DOMAIN n : n[i] # Slash

\* What a walk prints: d/ or d/name.
LEMMA SlashesType ==
    ASSUME NEW p \in Path
    PROVE  /\ Slashes(p) \in Nat
           /\ IsFiniteSet({i \in DOMAIN p : p[i] = Slash})
<1>1. {i \in DOMAIN p : p[i] = Slash} \subseteq 1..Len(p) /\ Len(p) \in Nat
    BY DEF Path
<1>2. IsFiniteSet({i \in DOMAIN p : p[i] = Slash})
    BY <1>1, FS_Interval, FS_Subset
<1>. QED  BY <1>2, FS_CardinalityType DEF Slashes

\* d/ has one slash more than d, and is printed with that depth.
LEMMA HeaderPath ==
    ASSUME NEW d, PlainDir(d)
    PROVE  LET p == HeaderOf(d)
           IN  /\ PlainPath(p) /\ p # <<>> /\ p[1] = Slash /\ IsHead(p)
               /\ findDepth(p) = Slashes(d) + 1
               /\ Parent(p) = d
<1>. DEFINE p == HeaderOf(d)
            S == {i \in DOMAIN d : d[i] = Slash}
            T == {i \in DOMAIN p : p[i] = Slash}
<1>1. d \in Path /\ d \in Seq(Byte) /\ Slash \in Byte /\ Len(d) \in Nat /\ DOMAIN d = 1..Len(d)
    BY DEF PlainDir, PlainPath, Path, Byte, Slash
<1>2. /\ p \in Path /\ Len(p) = Len(d) + 1 /\ DOMAIN p = 1..(Len(d) + 1)
      /\ p[Len(d) + 1] = Slash /\ \A i \in 1..Len(d) : p[i] = d[i]
    BY <1>1 DEF HeaderOf, Path
<1>3. PlainPath(p)
    BY <1>1, <1>2 DEF PlainDir, PlainPath, Sep, LinkSep, Slash
<1>4. p # <<>> /\ p[1] = Slash /\ IsHead(p)
    <2>1. CASE d = <<>>
        BY <1>1, <1>2, <2>1 DEF IsHead
    <2>2. CASE d # <<>>
        BY <1>1, <1>2, <2>2 DEF IsHead, PlainDir
    <2>. QED  BY <2>1, <2>2
<1>5. T = S \cup {Len(d) + 1} /\ Len(d) + 1 \notin S
    BY <1>1, <1>2
<1>6. findDepth(p) = Slashes(d) + 1
    <2>1. Cardinality(T) = Cardinality(S) + 1
        BY <1>1, <1>5, SlashesType, FS_AddElement
    <2>. QED  BY <1>4, <2>1 DEF findDepth, Slashes
<1>7. Parent(p) = d
    <2>. DEFINE U == {0} \cup {i \in DOMAIN p : p[i] = Slash}
    <2>1. Max(U) = Len(d) + 1
        <3>1. /\ Len(d) + 1 \in U
              /\ \A y \in U : Len(d) + 1 >= y
            BY <1>1, <1>2
        <3>2. Max(U) \in U /\ \A y \in U : Max(U) >= y
            BY <3>1 DEF Max
        <3>. QED  BY <1>1, <1>2, <3>1, <3>2
    <2>2. Max(U) - 1 = Len(d) /\ Parent(p) = SubSeq(p, 1, Max(U) - 1)
        BY <1>1, <2>1 DEF Parent
    <2>3. /\ SubSeq(p, 1, Len(d)) = [i \in 1..Len(d) |-> p[i]]
          /\ d = [i \in 1..Len(d) |-> d[i]]
        BY <1>1, <1>2 DEF Path
    <2>. QED  BY <1>2, <2>2, <2>3
<1>. QED  BY <1>3, <1>4, <1>6, <1>7

\* d/name as a sequence of bytes.
LEMMA JoinBytes ==
    ASSUME NEW d \in Path, NEW n \in Path
    PROVE  LET p == Join(d, n)
           IN  /\ p \in Path /\ Len(p) = Len(d) + 1 + Len(n)
               /\ Len(d) \in Nat /\ Len(n) \in Nat /\ Len(p) \in Nat
               /\ DOMAIN p = 1..(Len(d) + 1 + Len(n))
               /\ DOMAIN d = 1..Len(d) /\ DOMAIN n = 1..Len(n)
               /\ \A i \in 1..Len(d) : p[i] = d[i]
               /\ p[Len(d) + 1] = Slash
               /\ \A i \in 1..Len(n) : p[Len(d) + 1 + i] = n[i]
<1>. DEFINE h == Append(d, Slash)
<1>1. d \in Seq(Byte) /\ n \in Seq(Byte) /\ Slash \in Byte
    BY DEF Path, Byte, Slash
<1>2. /\ h \in Seq(Byte) /\ Len(h) = Len(d) + 1 /\ h[Len(d) + 1] = Slash
      /\ \A i \in 1..Len(d) : h[i] = d[i]
      /\ Len(d) \in Nat /\ Len(n) \in Nat
    BY <1>1
<1>. HIDE DEF h
<1>3. DEFINE p == h \o n
<1>4. /\ p \in Seq(Byte) /\ Len(p) = Len(h) + Len(n)
      /\ \A i \in 1..Len(h) : p[i] = h[i]
      /\ \A i \in 1..Len(n) : p[Len(h) + i] = n[i]
    BY <1>1, <1>2
<1>5. Join(d, n) = p
    BY DEF Join, h
<1>. HIDE DEF p
<1>. QED  BY <1>1, <1>2, <1>4, <1>5 DEF Path

\* d/name has one slash more than d, and is printed with that depth.
LEMMA JoinPath ==
    ASSUME NEW d, PlainDir(d), NEW n, PlainName(n)
    PROVE  LET p == Join(d, n)
           IN  /\ PlainDir(p) /\ p # <<>> /\ p[1] = Slash /\ ~IsHead(p)
               /\ findDepth(p) = Slashes(d) + 1
               /\ Slashes(p) = Slashes(d) + 1
               /\ Parent(p) = d
<1>. DEFINE p == Join(d, n)
            S == {i \in DOMAIN d : d[i] = Slash}
            T == {i \in DOMAIN p : p[i] = Slash}
<1>1. /\ d \in Path /\ n \in Path
      /\ p \in Path /\ Len(p) = Len(d) + 1 + Len(n)
      /\ Len(d) \in Nat /\ Len(n) \in Nat /\ Len(n) > 0
      /\ DOMAIN p = 1..(Len(d) + 1 + Len(n))
      /\ DOMAIN d = 1..Len(d) /\ DOMAIN n = 1..Len(n)
      /\ \A i \in 1..Len(d) : p[i] = d[i]
      /\ p[Len(d) + 1] = Slash
      /\ \A i \in 1..Len(n) : p[Len(d) + 1 + i] = n[i]
    <2>1. d \in Path /\ n \in Path /\ n # <<>>
        BY DEF PlainDir, PlainName, PlainPath
    <2>2. Len(n) > 0
        BY <2>1 DEF Path
    <2>. QED  BY <2>1, <2>2, JoinBytes
<1>2. \A i \in DOMAIN p : i > Len(d) + 1 => /\ i - (Len(d) + 1) \in DOMAIN n
                                            /\ p[i] = n[i - (Len(d) + 1)]
    <2>. SUFFICES ASSUME NEW i \in DOMAIN p, i > Len(d) + 1
                  PROVE  /\ i - (Len(d) + 1) \in DOMAIN n
                         /\ p[i] = n[i - (Len(d) + 1)]
        OBVIOUS
    <2>. DEFINE j == i - (Len(d) + 1)
    <2>1. j \in 1..Len(n) /\ i = Len(d) + 1 + j
        BY <1>1
    <2>. HIDE DEF j
    <2>2. p[i] = n[j] /\ j \in DOMAIN n
        BY <1>1, <2>1
    <2>. QED  BY <2>2 DEF j
<1>3. PlainPath(p)
    <2>. SUFFICES ASSUME NEW i \in DOMAIN p PROVE p[i] # Sep /\ p[i] # LinkSep
        BY <1>1 DEF PlainPath
    <2>1. CASE i <= Len(d)
        BY <1>1, <2>1 DEF PlainDir, PlainPath
    <2>2. CASE i = Len(d) + 1
        BY <1>1, <2>2 DEF Sep, LinkSep, Slash
    <2>3. CASE i > Len(d) + 1
        BY <1>1, <1>2, <2>3 DEF PlainName, PlainPath
    <2>. QED  BY <1>1, <2>1, <2>2, <2>3
<1>4. p # <<>> /\ p[1] = Slash
    <2>1. CASE d = <<>>
        BY <1>1, <2>1
    <2>2. CASE d # <<>>
        BY <1>1, <2>2 DEF PlainDir
    <2>. QED  BY <2>1, <2>2
<1>5. ~IsHead(p)
    BY <1>1 DEF IsHead, PlainName
<1>6. T = S \cup {Len(d) + 1} /\ Len(d) + 1 \notin S
    <2>1. \A i \in T : i \in S \cup {Len(d) + 1}
        <3>. SUFFICES ASSUME NEW i \in T PROVE i \in S \cup {Len(d) + 1}
            OBVIOUS
        <3>1. ~ (i > Len(d) + 1)
            BY <1>2 DEF PlainName
        <3>. QED  BY <1>1, <3>1
    <2>2. \A i \in S \cup {Len(d) + 1} : i \in T
        BY <1>1
    <2>. QED  BY <1>1, <2>1, <2>2
<1>7. Cardinality(T) = Cardinality(S) + 1
    <2>1. IsFiniteSet(S)
        BY <1>1, SlashesType
    <2>. HIDE DEF S, T
    <2>. QED  BY <1>6, <2>1, FS_AddElement
<1>8. findDepth(p) = Slashes(d) + 1 /\ Slashes(p) = Slashes(d) + 1
    BY <1>4, <1>7 DEF findDepth, Slashes
<1>9. Parent(p) = d
    <2>. DEFINE U == {0} \cup {i \in DOMAIN p : p[i] = Slash}
    <2>1. Max(U) = Len(d) + 1
        <3>1. /\ Len(d) + 1 \in U
              /\ \A y \in U : Len(d) + 1 >= y
            BY <1>1, <1>6
        <3>2. Max(U) \in U /\ \A y \in U : Max(U) >= y
            BY <3>1 DEF Max
        <3>. QED  BY <1>1, <3>1, <3>2
    <2>2. Max(U) - 1 = Len(d) /\ Parent(p) = SubSeq(p, 1, Max(U) - 1)
        BY <1>1, <2>1 DEF Parent
    <2>3. /\ SubSeq(p, 1, Len(d)) = [i \in 1..Len(d) |-> p[i]]
          /\ d = [i \in 1..Len(d) |-> d[i]]
        BY <1>1 DEF Path
    <2>. QED  BY <1>1, <2>2, <2>3
<1>. QED  BY <1>3, <1>4, <1>5, <1>8, <1>9 DEF PlainDir

\* Names in one directory are in the order of their paths.
LEMMA JoinOrder ==
    ASSUME NEW d \in Path, NEW a \in Path, NEW b \in Path, StrLess(a, b)
    PROVE  StrLess(Join(d, a), Join(d, b))
<1>. DEFINE p == Join(d, a)
            q == Join(d, b)
<1>1. PICK k \in 0..Len(a) : /\ k < Len(b)
                             /\ \A j \in 1..k : a[j] = b[j]
                             /\ k = Len(a) \/ a[k + 1] < b[k + 1]
    BY DEF StrLess
<1>2. /\ Len(p) = Len(d) + 1 + Len(a) /\ Len(q) = Len(d) + 1 + Len(b)
      /\ Len(d) \in Nat /\ Len(a) \in Nat /\ Len(b) \in Nat
      /\ \A i \in 1..Len(d) : p[i] = d[i] /\ q[i] = d[i]
      /\ p[Len(d) + 1] = Slash /\ q[Len(d) + 1] = Slash
      /\ \A i \in 1..Len(a) : p[Len(d) + 1 + i] = a[i]
      /\ \A i \in 1..Len(b) : q[Len(d) + 1 + i] = b[i]
    BY JoinBytes
<1>. HIDE DEF p, q
<1>3. \A j \in 1..(Len(d) + 1 + k) : p[j] = q[j]
    <2>. SUFFICES ASSUME NEW j \in 1..(Len(d) + 1 + k) PROVE p[j] = q[j]
        OBVIOUS
    <2>1. CASE j <= Len(d)
        BY <1>2, <2>1
    <2>3. CASE j = Len(d) + 1
        BY <1>2, <2>3
    <2>2. CASE j > Len(d) + 1
        <3>. DEFINE i == j - (Len(d) + 1)
        <3>1. i \in 1..k /\ j = Len(d) + 1 + i /\ i \in 1..Len(a) /\ i \in 1..Len(b)
            BY <1>1, <1>2, <2>2
        <3>. HIDE DEF i
        <3>. QED  BY <1>1, <1>2, <3>1
    <2>. QED  BY <1>2, <2>1, <2>2, <2>3
<1>4. CASE k = Len(a)
    <2>. DEFINE m == Len(d) + 1 + k
    <2>1. m \in 0..Len(p) /\ m < Len(q) /\ m = Len(p)
        BY <1>1, <1>2, <1>4
    <2>. HIDE DEF m
    <2>2. \A j \in 1..m : p[j] = q[j]
        BY <1>3 DEF m
    <2>. QED  BY <2>1, <2>2 DEF StrLess, p, q
<1>5. CASE k # Len(a)
    <2>1. k + 1 \in 1..Len(a) /\ k + 1 \in 1..Len(b) /\ a[k + 1] < b[k + 1]
        BY <1>1, <1>2, <1>5
    <2>2. p[Len(d) + 1 + (k + 1)] < q[Len(d) + 1 + (k + 1)]
        BY <1>2, <2>1
    <2>. DEFINE m == Len(d) + 1 + k
    <2>3. m \in 0..Len(p) /\ m < Len(q) /\ m + 1 = Len(d) + 1 + (k + 1)
        BY <1>2, <2>1
    <2>. HIDE DEF m
    <2>4. \A j \in 1..m : p[j] = q[j]
        BY <1>3 DEF m
    <2>. QED  BY <2>2, <2>3, <2>4 DEF StrLess, p, q
<1>. QED  BY <1>4, <1>5

(***************************************************************************)
(* Lines                                                                   *)
(***************************************************************************)
\* A sequence with one element more.
LEMMA AppendElements ==
    ASSUME NEW S, NEW s \in Seq(S), NEW e \in S
    PROVE  /\ Append(s, e) \in Seq(S) /\ Len(Append(s, e)) = Len(s) + 1
           /\ Len(s) \in Nat /\ DOMAIN s = 1..Len(s)
           /\ DOMAIN Append(s, e) = 1..(Len(s) + 1)
           /\ \A i \in 1..Len(s) : Append(s, e)[i] = s[i]
           /\ Append(s, e)[Len(s) + 1] = e
OBVIOUS

\* Two sequences with an element after each.
LEMMA TwoFields ==
    ASSUME NEW S, NEW s \in Seq(S), NEW x \in S, NEW t \in Seq(S), NEW y \in S
    PROVE  LET u == Append(s \o <<x>> \o t, y)
           IN  /\ u \in Seq(S) /\ Len(u) = Len(s) + Len(t) + 2
               /\ Len(s) \in Nat /\ Len(t) \in Nat
               /\ DOMAIN u = 1..(Len(s) + Len(t) + 2)
               /\ \A i \in 1..Len(s) : u[i] = s[i]
               /\ u[Len(s) + 1] = x
               /\ \A i \in 1..Len(t) : u[Len(s) + 1 + i] = t[i]
               /\ u[Len(s) + Len(t) + 2] = y
<1>. DEFINE q == s \o <<x>>
            r == q \o t
            u == Append(r, y)
<1>1. /\ q \in Seq(S) /\ Len(q) = Len(s) + 1 /\ q[Len(s) + 1] = x
      /\ \A i \in 1..Len(s) : q[i] = s[i]
      /\ Len(s) \in Nat /\ Len(t) \in Nat
    OBVIOUS
<1>. HIDE DEF q
<1>2. /\ r \in Seq(S) /\ Len(r) = Len(q) + Len(t)
      /\ \A i \in 1..Len(q) : r[i] = q[i]
      /\ \A i \in 1..Len(t) : r[Len(q) + i] = t[i]
    BY <1>1
<1>. HIDE DEF r
<1>3. /\ u \in Seq(S) /\ Len(u) = Len(r) + 1
      /\ DOMAIN u = 1..(Len(r) + 1)
      /\ \A i \in 1..Len(r) : u[i] = r[i]
      /\ u[Len(r) + 1] = y
    BY <1>2, AppendElements
<1>. HIDE DEF u
<1>4. \A i \in 1..Len(s) : i \in 1..Len(q) /\ i \in 1..Len(r)
    BY <1>1, <1>2
<1>5. \A i \in 1..Len(t) : Len(q) + i \in 1..Len(r)
    BY <1>1, <1>2
<1>6. /\ \A i \in 1..Len(s) : u[i] = s[i]
      /\ u[Len(s) + 1] = x
    <2>1. Len(s) + 1 \in 1..Len(q) /\ Len(s) + 1 \in 1..Len(r)
        BY <1>1, <1>2
    <2>. QED  BY <1>1, <1>2, <1>3, <1>4, <2>1
<1>7. \A i \in 1..Len(t) : u[Len(s) + 1 + i] = t[i]
    BY <1>1, <1>2, <1>3, <1>5
<1>8. Len(u) = Len(s) + Len(t) + 2 /\ u[Len(s) + Len(t) + 2] = y
    BY <1>1, <1>2, <1>3
<1>. QED  BY <1>1, <1>3, <1>6, <1>7, <1>8, <1>2 DEF u, r, q

\* What UpTo finds is the part before the first separator, ...
LEMMA UpToFirst ==
    ASSUME NEW text \in Path, NEW sep, \E i \in DOMAIN text : text[i] = sep
    PROVE  LET r == UpTo(text, sep)
           IN  /\ r \in Path /\ Len(r) \in Nat /\ Len(r) < Len(text)
               /\ \A i \in 1..Len(r) : r[i] = text[i] /\ text[i] # sep
               /\ text[Len(r) + 1] = sep
<1>. DEFINE hits == {i \in DOMAIN text : text[i] = sep}
            m == Min(hits)
<1>1. text \in Seq(Byte) /\ Len(text) \in Nat /\ DOMAIN text = 1..Len(text)
    BY DEF Path
<1>2. hits # {} /\ hits \subseteq Nat
    BY <1>1
<1>3. m \in hits /\ \A y \in hits : m <= y
    BY <1>2, MinOfNats
<1>4. m \in 1..Len(text) /\ text[m] = sep
    BY <1>1, <1>3
<1>5. UpTo(text, sep) = SubSeq(text, 1, m - 1)
    BY <1>2 DEF UpTo
<1>6. \A i \in 1..(m - 1) : text[i] # sep
    <2>. SUFFICES ASSUME NEW i \in 1..(m - 1), text[i] = sep PROVE FALSE
        OBVIOUS
    <2>1. i \in hits /\ i < m /\ i \in Int /\ m \in Int
        BY <1>1, <1>4
    <2>. HIDE DEF m, hits
    <2>. QED  BY <1>3, <2>1
<1>. HIDE DEF m, hits
<1>7. DEFINE r == SubSeq(text, 1, m - 1)
<1>8. /\ r \in Seq(Byte) /\ Len(r) = m - 1
      /\ \A i \in 1..(m - 1) : r[i] = text[i]
    BY <1>1, <1>4
<1>. HIDE DEF r
<1>. QED  BY <1>1, <1>4, <1>5, <1>6, <1>8 DEF r, Path

\* ... and nothing else is.
LEMMA UpToOnly ==
    ASSUME NEW text \in Path, NEW sep, NEW q \in Path, Len(q) < Len(text),
           \A i \in 1..Len(q) : text[i] = q[i] /\ q[i] # sep,
           text[Len(q) + 1] = sep
    PROVE  UpTo(text, sep) = q
<1>1. /\ Len(text) \in Nat /\ DOMAIN text = 1..Len(text) /\ Len(q) \in Nat
      /\ Len(q) + 1 \in DOMAIN text
    BY DEF Path
<1>. DEFINE r == UpTo(text, sep)
<1>2. /\ r \in Path /\ Len(r) \in Nat /\ Len(r) < Len(text)
      /\ \A i \in 1..Len(r) : r[i] = text[i] /\ text[i] # sep
      /\ text[Len(r) + 1] = sep
    BY <1>1, UpToFirst
<1>. HIDE DEF r
<1>3. ~ (Len(r) < Len(q))
    <2>. SUFFICES ASSUME Len(r) < Len(q) PROVE FALSE
        OBVIOUS
    <2>1. Len(r) + 1 \in 1..Len(q)
        BY <1>1, <1>2
    <2>. QED  BY <1>2, <2>1
<1>4. ~ (Len(q) < Len(r))
    <2>. SUFFICES ASSUME Len(q) < Len(r) PROVE FALSE
        OBVIOUS
    <2>1. Len(q) + 1 \in 1..Len(r)
        BY <1>1, <1>2
    <2>. QED  BY <1>2, <2>1
<1>5. Len(r) = Len(q) /\ \A i \in 1..Len(q) : r[i] = q[i]
    BY <1>1, <1>2, <1>3, <1>4
<1>6. r = q
    BY <1>2, <1>5 DEF Path
<1>. QED  BY <1>6 DEF r

\* The path in a line, as the daemon reads it.
PathOf(line) == ParseEntry(line, <<>>).path

\* A line with a path before the separators.
LEMMA PathOfLine ==
    ASSUME NEW line \in Line, NEW p, PlainPath(p), Len(p) < Len(line.text),
           \A i \in 1..Len(p) : line.text[i] = p[i],
           IF line.c = "l"
           THEN /\ line.text[Len(p) + 1] = LinkSep
                /\ \E i \in DOMAIN line.text : line.text[i] = Sep
           ELSE line.text[Len(p) + 1] = Sep
    PROVE  PathOf(line) = p
<1>. DEFINE text == line.text
            raw == UpTo(text, Sep)
<1>1. /\ text \in Path /\ p \in Path /\ Len(p) \in Nat /\ Len(text) \in Nat
      /\ DOMAIN text = 1..Len(text) /\ DOMAIN p = 1..Len(p)
      /\ \A i \in 1..Len(p) : p[i] # Sep /\ p[i] # LinkSep
    BY DEF Line, PlainPath, Path
<1>2. PathOf(line) = IF line.c = "l" THEN UpTo(raw, LinkSep) ELSE raw
    BY DEF PathOf, ParseEntry
<1>3. CASE line.c # "l"
    <2>1. raw = p
        BY <1>1, <1>3, UpToOnly
    <2>. QED  BY <1>2, <1>3, <2>1
<1>4. CASE line.c = "l"
    <2>1. /\ raw \in Path /\ Len(raw) \in Nat /\ Len(raw) < Len(text)
          /\ \A i \in 1..Len(raw) : raw[i] = text[i] /\ text[i] # Sep
          /\ text[Len(raw) + 1] = Sep
        BY <1>1, <1>4, UpToFirst
    <2>. HIDE DEF raw, text
    <2>2. Len(p) < Len(raw)
        <3>. SUFFICES ASSUME ~ (Len(p) < Len(raw)) PROVE FALSE
            OBVIOUS
        <3>1. Len(raw) + 1 \in 1..Len(p) \/ Len(raw) = Len(p)
            BY <1>1, <2>1
        <3>. QED  BY <1>1, <1>4, <2>1, <3>1 DEF Sep, LinkSep, text
    <2>3. raw[Len(p) + 1] = LinkSep /\ \A i \in 1..Len(p) : raw[i] = p[i]
        BY <1>1, <1>4, <2>1, <2>2 DEF text
    <2>4. UpTo(raw, LinkSep) = p
        BY <1>1, <2>1, <2>2, <2>3, UpToOnly
    <2>. QED  BY <1>2, <1>4, <2>4
<1>. QED  BY <1>3, <1>4

\* A printed line gives its path back, and its depth column is the path's.
LEMMA PrintedLine ==
    ASSUME NEW p, PlainPath(p), NEW node \in Node
    PROVE  LET l == print_entry_to_catalog(p, node)
           IN  /\ l \in Line
               /\ l.depth = findDepth(p)
               /\ PathOf(l) = p
               /\ \E i \in DOMAIN l.text : l.text[i] = Sep
<1>. DEFINE l == print_entry_to_catalog(p, node)
            text == l.text
<1>1. /\ p \in Seq(Byte) /\ node.dest \in Seq(Byte) /\ node.type \in FileType
      /\ node.attr \in Attrs /\ Sep \in Byte /\ LinkSep \in Byte
    BY DEF PlainPath, Path, Node, Sep, LinkSep, Byte
<1>2. /\ l.c = TypeLetter[node.type] /\ l.attr = node.attr /\ l.depth = findDepth(p)
      /\ text = Append(IF l.c = "l" THEN p \o <<LinkSep>> \o node.dest ELSE p, Sep)
      /\ l = [c |-> l.c, attr |-> l.attr, depth |-> l.depth, text |-> text]
    BY DEF print_entry_to_catalog
<1>3. l.c \in Letter
    BY <1>1, <1>2 DEF TypeLetter, FileType, Letter, LetterType
<1>4. findDepth(p) \in Int
    <2>1. IsFiniteSet({i \in DOMAIN p : p[i] = Slash})
        BY SlashesType DEF PlainPath
    <2>. QED  BY <2>1, FS_CardinalityType DEF findDepth
<1>5. /\ text \in Seq(Byte) /\ Len(p) < Len(text)
      /\ \A i \in 1..Len(p) : text[i] = p[i]
      /\ IF l.c = "l" THEN text[Len(p) + 1] = LinkSep ELSE text[Len(p) + 1] = Sep
      /\ Len(text) \in DOMAIN text /\ text[Len(text)] = Sep
    <2>. DEFINE c == l.c
    <2>0. text = Append(IF c = "l" THEN p \o <<LinkSep>> \o node.dest ELSE p, Sep)
        BY <1>2
    <2>. HIDE DEF l, text, c
    <2>1. CASE c # "l"
        <3>1. text = Append(p, Sep)
            BY <2>0, <2>1
        <3>. QED  BY <1>1, <2>1, <3>1, AppendElements DEF c
    <2>2. CASE c = "l"
        <3>. DEFINE t == node.dest
        <3>1. t \in Seq(Byte) /\ text = Append(p \o <<LinkSep>> \o t, Sep)
            BY <1>1, <2>0, <2>2
        <3>. HIDE DEF t
        <3>2. /\ text \in Seq(Byte) /\ Len(text) = Len(p) + Len(t) + 2
              /\ Len(p) \in Nat /\ Len(t) \in Nat
              /\ DOMAIN text = 1..(Len(p) + Len(t) + 2)
              /\ \A i \in 1..Len(p) : text[i] = p[i]
              /\ text[Len(p) + 1] = LinkSep
              /\ text[Len(p) + Len(t) + 2] = Sep
            BY <1>1, <3>1, TwoFields
        <3>. QED  BY <2>2, <3>2 DEF c
    <2>. QED  BY <2>1, <2>2
<1>6. l \in Line
    BY <1>1, <1>2, <1>3, <1>4, <1>5 DEF Line
<1>7. \E i \in DOMAIN text : text[i] = Sep
    BY <1>5
<1>8. PathOf(l) = p
    <2>. HIDE DEF l
    <2>. QED  BY <1>5, <1>6, <1>7, PathOfLine
<1>. QED  BY <1>2, <1>6, <1>7, <1>8

\* A list of numbers has a greatest one.
LEMMA MaxOfList ==
    ASSUME NEW n \in Nat, NEW g, \A i \in 1..n : g[i] \in Int
    PROVE  LET T == {g[i] : i \in 1..n} \cup {0}
           IN  /\ Max(T) \in T
               /\ \A y \in T : Max(T) >= y
<1>. DEFINE T(k) == {g[i] : i \in 1..k} \cup {0}
            Has(k) == \E x \in T(k) : \A y \in T(k) : x >= y
            Bad == {k \in 0..n : ~Has(k)}
<1>1. Bad = {}
    <2>. SUFFICES ASSUME Bad # {} PROVE FALSE
        OBVIOUS
    <2>1. Bad \subseteq Nat
        OBVIOUS
    <2>. DEFINE m == Min(Bad)
    <2>2. m \in Bad /\ \A y \in Bad : m <= y
        BY <2>1, MinOfNats
    <2>. HIDE DEF m
    <2>3. m \in 0..n /\ ~Has(m)
        BY <2>2
    <2>4. CASE m = 0
        <3>1. T(0) = {0}
            OBVIOUS
        <3>. QED  BY <2>3, <2>4, <3>1
    <2>5. CASE m # 0
        <3>1. m - 1 \in 0..n /\ m - 1 \notin Bad /\ m \in 1..n
            <4>1. m \in 1..n /\ m - 1 \in 0..n /\ ~ (m <= m - 1)
                BY <2>3, <2>5
            <4>2. m - 1 \notin Bad
                <5>. HIDE DEF Bad
                <5>. QED  BY <2>2, <4>1
            <4>. QED  BY <4>1, <4>2
        <3>2. PICK x \in T(m - 1) : \A y \in T(m - 1) : x >= y
            BY <3>1
        <3>3. T(m) = T(m - 1) \cup {g[m]}
            <4>1. \A i \in 1..m : i \in 1..(m - 1) \/ i = m
                BY <3>1
            <4>2. \A i \in 1..(m - 1) : i \in 1..m
                BY <3>1
            <4>3. m \in 1..m
                BY <3>1
            <4>. QED  BY <4>1, <4>2, <4>3
        <3>4. g[m] \in Int /\ x \in Int /\ \A y \in T(m - 1) : y \in Int
            BY <3>1, <3>2
        <3>. DEFINE z == IF g[m] >= x THEN g[m] ELSE x
        <3>. HIDE DEF T
        <3>5. z \in T(m) /\ \A y \in T(m) : z >= y
            BY <3>2, <3>3, <3>4
        <3>. QED  BY <2>3, <3>5
    <2>. QED  BY <2>4, <2>5
<1>2. n \in 0..n
    OBVIOUS
<1>3. Has(n)
    <2>1. n \notin Bad
        <3>. HIDE DEF Bad
        <3>. QED  BY <1>1
    <2>. HIDE DEF Has
    <2>. QED  BY <1>2, <2>1
<1>. QED  BY <1>3 DEF Max

\* A number has some digits.
LEMMA DigitsType ==
    ASSUME NEW n \in Int
    PROVE  Digits(n) \in Nat
<1>. DEFINE D == 0..n
            S == {k \in D : 10^k <= n}
<1>1. IsFiniteSet(D)
    BY FS_Interval
<1>2. S = {k \in 0..n : 10^k <= n}
    OBVIOUS
<1>3. Digits(n) = IF n < 0 THEN 2 ELSE IF n = 0 THEN 1 ELSE Cardinality(S)
    BY <1>2 DEF Digits
<1>. HIDE DEF D
<1>4. IsFiniteSet(S)
    BY <1>1, FS_Subset
<1>. HIDE DEF S
<1>5. Cardinality(S) \in Nat
    BY <1>4, FS_CardinalityType
<1>. QED  BY <1>3, <1>5

\* Lines have a length.
LEMMA LineLenType ==
    ASSUME NEW line \in Line
    PROVE  LineLen(line) \in Nat
<1>1. AttrWidth[line.attr] \in Nat /\ Len(line.text) \in Nat /\ line.depth \in Int
    BY AttrAssumption DEF Line
<1>2. Digits(line.depth) \in Nat
    BY <1>1, DigitsType
<1>. QED  BY <1>1, <1>2 DEF LineLen

\* What PadLines makes of a file: as many lines, and each as it was but for
\* what follows its text.
LEMMA PaddedLines ==
    ASSUME NEW ls \in Seq(Line),
           \A k \in DOMAIN ls : \E i \in DOMAIN ls[k].text : ls[k].text[i] = Sep
    PROVE  LET ms == pad_each_line(ls)
           IN  /\ ms \in Seq(Line) /\ DOMAIN ms = DOMAIN ls
               /\ \A k \in DOMAIN ls :
                    /\ ms[k].depth = ls[k].depth
                    /\ ParseEntry(ms[k], <<>>) = ParseEntry(ls[k], <<>>)
                    /\ \E i \in DOMAIN ms[k].text : ms[k].text[i] = Sep
               /\ \A j, k \in DOMAIN ls : LineLen(ms[j]) = LineLen(ms[k])
<1>1. Len(ls) \in Nat /\ DOMAIN ls = 1..Len(ls) /\ \A k \in DOMAIN ls : ls[k] \in Line
    OBVIOUS
<1>. DEFINE g == [i \in DOMAIN ls |-> LineLen(ls[i])]
            T == {LineLen(ls[i]) : i \in DOMAIN ls} \cup {0}
            max_len == Max(T)
            Pad(l) == [k \in 1..(max_len - LineLen(l)) |-> Sep]
            ms == pad_each_line(ls)
<1>2. max_len \in T /\ \A y \in T : max_len >= y
    <2>1. T = {g[i] : i \in 1..Len(ls)} \cup {0}
        BY <1>1
    <2>2. \A i \in 1..Len(ls) : g[i] \in Int
        BY <1>1, LineLenType
    <2>. HIDE DEF g, T
    <2>. QED  BY <1>1, <2>1, <2>2, MaxOfList
<1>3. max_len \in Int /\ \A k \in DOMAIN ls : LineLen(ls[k]) \in Nat /\ LineLen(ls[k]) <= max_len
    BY <1>1, <1>2, LineLenType
<1>4. ms = [i \in DOMAIN ls |-> [ls[i] EXCEPT !.text = @ \o Pad(ls[i])]]
    BY DEF pad_each_line
<1>. HIDE DEF T, max_len
<1>5. ASSUME NEW k \in DOMAIN ls
      PROVE  /\ ms[k] \in Line /\ ms[k].depth = ls[k].depth
             /\ ParseEntry(ms[k], <<>>) = ParseEntry(ls[k], <<>>)
             /\ \E i \in DOMAIN ms[k].text : ms[k].text[i] = Sep
             /\ LineLen(ms[k]) = max_len
    <2>. DEFINE l == ls[k]
                m == ms[k]
                n == max_len - LineLen(l)
                pad == [j \in 1..n |-> Sep]
                t == l.text
                text == t \o pad
    <2>1. l \in Line /\ t \in Seq(Byte) /\ n \in Nat /\ LineLen(l) \in Nat
        BY <1>1, <1>3 DEF Line
    <2>2. m = [l EXCEPT !.text = text]
        BY <1>4
    <2>9. \E i \in DOMAIN t : t[i] = Sep
        OBVIOUS
    <2>10. t = l.text
        OBVIOUS
    <2>. HIDE DEF l, n, ms, t
    <2>3. pad \in Seq(Byte) /\ Len(pad) = n
        BY <2>1 DEF Sep, Byte
    <2>. HIDE DEF pad
    <2>4. /\ text \in Seq(Byte) /\ Len(text) = Len(t) + n /\ Len(t) \in Nat
          /\ \A i \in 1..Len(t) : text[i] = t[i]
        BY <2>1, <2>3
    <2>. HIDE DEF text
    <2>5. /\ m \in Line /\ m.c = l.c /\ m.attr = l.attr /\ m.depth = l.depth
          /\ m.text = text
        BY <2>1, <2>2, <2>4 DEF Line
    <2>. HIDE DEF m
    <2>6. UpTo(text, Sep) = UpTo(t, Sep)
        <3>. DEFINE q == UpTo(t, Sep)
        <3>2. /\ q \in Path /\ Len(q) \in Nat /\ Len(q) < Len(t)
              /\ \A i \in 1..Len(q) : q[i] = t[i] /\ t[i] # Sep
              /\ t[Len(q) + 1] = Sep
            BY <2>1, <2>9, UpToFirst DEF Path
        <3>. HIDE DEF q
        <3>3. /\ Len(q) < Len(text) /\ text[Len(q) + 1] = Sep
              /\ \A i \in 1..Len(q) : text[i] = q[i] /\ q[i] # Sep
            <4>1. Len(q) + 1 \in 1..Len(t) /\ \A i \in 1..Len(q) : i \in 1..Len(t)
                BY <2>4, <3>2
            <4>2. Len(q) < Len(text)
                BY <2>1, <2>4, <3>2
            <4>. QED  BY <2>4, <3>2, <4>1, <4>2
        <3>4. UpTo(text, Sep) = q
            BY <2>4, <3>2, <3>3, UpToOnly DEF Path
        <3>. QED  BY <3>4 DEF q
    <2>7. ParseEntry(m, <<>>) = ParseEntry(l, <<>>)
        BY <2>5, <2>6, <2>10 DEF ParseEntry
    <2>8. LineLen(m) = max_len
        <3>. DEFINE w == AttrWidth[l.attr] + Digits(l.depth)
        <3>1. LineLen(m) = w + Len(text) /\ LineLen(l) = w + Len(t)
            BY <2>5, <2>10 DEF LineLen
        <3>2. w \in Nat
            <4>1. AttrWidth[l.attr] \in Nat /\ l.depth \in Int
                BY <2>1, AttrAssumption DEF Line
            <4>2. Digits(l.depth) \in Nat
                BY <4>1, DigitsType
            <4>. QED  BY <4>1, <4>2
        <3>3. n = max_len - LineLen(l)
            BY DEF n
        <3>. HIDE DEF w
        <3>. QED  BY <1>3, <2>1, <2>4, <3>1, <3>2, <3>3
    <2>11. \E i \in DOMAIN m.text : m.text[i] = Sep
        <3>1. PICK i \in DOMAIN t : t[i] = Sep
            BY <2>9
        <3>2. i \in DOMAIN text /\ text[i] = Sep
            BY <2>1, <2>4, <3>1
        <3>. QED  BY <2>5, <3>2
    <2>. QED  BY <2>5, <2>7, <2>8, <2>11 DEF l, m
<1>6. DOMAIN ms = DOMAIN ls /\ ms \in Seq(Line)
    <2>1. DOMAIN ms = DOMAIN ls
        BY <1>4
    <2>2. ms = [i \in 1..Len(ls) |-> ms[i]]
        BY <1>1, <1>4
    <2>. HIDE DEF ms
    <2>3. ms \in [1..Len(ls) -> Line]
        BY <1>1, <1>5, <2>2
    <2>. QED  BY <1>1, <2>1, <2>3
<1>. QED  BY <1>5, <1>6

(***************************************************************************)
(* A directory's names                                                     *)
(***************************************************************************)
\* Every path with a slash in front and none at its end is the name of
\* something in its parent.
LEMMA ParentSplit ==
    ASSUME NEW p \in Path, p # <<>>, p[1] = Slash, p[Len(p)] # Slash
    PROVE  LET d == Parent(p)
               n == SubSeq(p, Len(d) + 2, Len(p))
           IN  /\ d \in Path /\ n \in Path /\ n # <<>>
               /\ \A i \in DOMAIN n : n[i] # Slash
               /\ p = Join(d, n)
               /\ Len(d) < Len(p)
               /\ \A i \in DOMAIN d : d[i] = p[i]
               /\ \A i \in DOMAIN n : \E j \in DOMAIN p : n[i] = p[j]
<1>. DEFINE U == {i \in DOMAIN p : p[i] = Slash}
            m == Max(U)
            d == Parent(p)
            n == SubSeq(p, Len(d) + 2, Len(p))
<1>1. p \in Seq(Byte) /\ Len(p) \in Nat /\ Len(p) > 0 /\ DOMAIN p = 1..Len(p)
    BY DEF Path
<1>2. U \subseteq 1..Len(p) /\ 1 \in U
    BY <1>1
<1>3. m \in U /\ \A y \in U : m >= y
    BY <1>1, <1>2, MaxOfIndices
<1>4. m \in 1..Len(p) /\ p[m] = Slash /\ m # Len(p)
    BY <1>1, <1>3
<1>5. \A i \in (m + 1)..Len(p) : p[i] # Slash
    <2>. SUFFICES ASSUME NEW i \in (m + 1)..Len(p), p[i] = Slash PROVE FALSE
        OBVIOUS
    <2>1. i \in U /\ m < i /\ i \in Int /\ m \in Int
        BY <1>1, <1>4
    <2>. HIDE DEF m, U
    <2>. QED  BY <1>3, <2>1
<1>6. Max({0} \cup U) = m
    <2>. DEFINE V == {0} \cup U
    <2>1. V \subseteq Int /\ m \in V /\ \A y \in V : m >= y
        <3>1. m \in Nat /\ U \subseteq Int
            BY <1>1, <1>2, <1>4
        <3>. HIDE DEF m, U
        <3>. QED  BY <1>3, <3>1
    <2>. HIDE DEF V, m
    <2>2. Max(V) \in V /\ \A y \in V : Max(V) >= y
        BY <2>1 DEF Max
    <2>3. Max(V) >= m /\ m >= Max(V) /\ Max(V) \in Int /\ m \in Int
        BY <2>1, <2>2
    <2>4. Max(V) = m
        BY <2>3
    <2>. QED  BY <2>4 DEF V
<1>7. d = SubSeq(p, 1, m - 1)
    BY <1>6 DEF Parent
<1>. DEFINE L == Len(p)
<1>15. L = Len(p) /\ L \in Nat /\ m \in Nat /\ 0 < m /\ m < L
    BY <1>1, <1>4
<1>. HIDE DEF m, U, d, L
<1>16. m \in 1..L /\ m - 1 \in 0..L /\ m + 1 \in 2..L /\ m - 1 < L /\ L - m \in Nat
    BY <1>15
<1>8. /\ d \in Seq(Byte) /\ Len(d) = m - 1 /\ DOMAIN d = 1..(m - 1)
      /\ \A i \in 1..(m - 1) : d[i] = p[i]
    <2>. DEFINE e == m - 1
    <2>1. e \in 0..L /\ d = SubSeq(p, 1, e)
        BY <1>7, <1>16
    <2>. HIDE DEF e
    <2>2. d \in Seq(Byte) /\ Len(d) = e /\ \A i \in 1..e : d[i] = p[i]
        BY <1>1, <1>15, <2>1
    <2>3. DOMAIN d = 1..e
        BY <2>2
    <2>. QED  BY <2>2, <2>3 DEF e
<1>9. n = SubSeq(p, m + 1, L)
    <2>1. Len(d) + 2 = m + 1
        BY <1>8, <1>15
    <2>. QED  BY <1>15, <2>1
<1>. HIDE DEF n
<1>10. /\ n \in Seq(Byte) /\ Len(n) = L - m /\ DOMAIN n = 1..(L - m)
       /\ \A i \in 1..(L - m) : n[i] = p[m + i]
    <2>. DEFINE e == m + 1
                l == L
    <2>1. e \in 2..l /\ l \in Nat /\ l = L /\ n = SubSeq(p, e, l) /\ l - e + 1 = l - m
        BY <1>9, <1>15, <1>16
    <2>. HIDE DEF e, l
    <2>2. n = [i \in 1..(l - e + 1) |-> p[e + i - 1]]
        BY <2>1
    <2>3. ASSUME NEW i \in 1..(l - e + 1) PROVE p[e + i - 1] \in Byte
        <3>1. e + i - 1 \in 1..l
            BY <2>1
        <3>. QED  BY <1>1, <1>15, <2>1, <3>1
    <2>4. n \in Seq(Byte) /\ Len(n) = l - e + 1 /\ DOMAIN n = 1..(l - e + 1)
        <3>1. l - e + 1 \in Nat
            BY <2>1
        <3>. QED  BY <2>2, <2>3, <3>1
    <2>5. ASSUME NEW i \in 1..(l - m) PROVE n[i] = p[m + i]
        <3>1. e + i - 1 = m + i /\ i \in 1..(l - e + 1)
            BY <1>4, <2>1 DEF e
        <3>. QED  BY <2>2, <3>1
    <2>. QED  BY <2>1, <2>4, <2>5 DEF l
<1>11. n # <<>>
    BY <1>10, <1>15
<1>12. \A i \in DOMAIN n : n[i] = p[m + i] /\ m + i \in (m + 1)..L /\ m + i \in DOMAIN p
    <2>1. \A i \in 1..(L - m) : m + i \in (m + 1)..L /\ m + i \in 1..L
        BY <1>15
    <2>. QED  BY <1>1, <1>10, <1>15, <2>1
<1>13. p = Join(d, n)
    <2>. DEFINE q == Join(d, n)
    <2>1. /\ q \in Path /\ Len(q) = Len(d) + 1 + Len(n)
          /\ DOMAIN q = 1..(Len(d) + 1 + Len(n))
          /\ \A i \in 1..Len(d) : q[i] = d[i]
          /\ q[Len(d) + 1] = Slash
          /\ \A i \in 1..Len(n) : q[Len(d) + 1 + i] = n[i]
        BY <1>8, <1>10, JoinBytes DEF Path
    <2>. HIDE DEF q
    <2>5. Len(d) + 1 = m /\ Len(d) + 1 + Len(n) = L
        BY <1>8, <1>10, <1>15
    <2>2. Len(d) + 1 = m /\ Len(q) = L /\ DOMAIN q = 1..L
        BY <2>1, <2>5
    <2>3. ASSUME NEW i \in 1..L PROVE q[i] = p[i]
        <3>1. CASE i < m
            BY <1>4, <1>8, <2>1, <3>1
        <3>2. CASE i = m
            BY <1>4, <2>1, <2>2, <3>2
        <3>3. CASE i > m
            <4>. DEFINE j == i - m
            <4>1. j \in 1..(L - m) /\ i = m + j
                <5>1. i \in Int /\ m \in Int /\ L \in Int /\ i <= L /\ m < i
                    BY <1>15, <3>3
                <5>. QED  BY <5>1
            <4>. HIDE DEF j
            <4>2. q[m + j] = n[j]
                BY <1>10, <2>1, <2>2, <4>1
            <4>. QED  BY <1>10, <4>1, <4>2
        <3>. QED  BY <1>15, <3>1, <3>2, <3>3
    <2>4. q = p
        BY <1>1, <1>15, <2>1, <2>2, <2>3 DEF Path
    <2>. QED  BY <2>4 DEF q
<1>14. Len(d) < L /\ \A i \in DOMAIN d : d[i] = p[i]
    <2>1. m - 1 < L
        BY <1>16
    <2>. QED  BY <1>8, <2>1
<1>. QED  BY <1>5, <1>8, <1>10, <1>11, <1>12, <1>13, <1>14, <1>15 DEF n, d, Path

\* What the paths of a tree look like.
LEMMA TreePaths ==
    ASSUME NEW f, IsTree(f), \A q \in DOMAIN f : PlainPath(q)
    PROVE  /\ \A p \in DOMAIN f : PlainDir(p)
           /\ \A p \in DOMAIN f \ {<<>>} :
                LET d == Parent(p)
                    n == SubSeq(p, Len(d) + 2, Len(p))
                IN  /\ PlainDir(d) /\ PlainName(n) /\ p = Join(d, n)
                    /\ d \in DOMAIN f /\ f[d].type = "DIR"
<1>1. ASSUME NEW p \in DOMAIN f \ {<<>>}
      PROVE  p \in Path /\ p[1] = Slash /\ p[Len(p)] # Slash /\ PlainPath(p)
             /\ Parent(p) \in DOMAIN f /\ f[Parent(p)].type = "DIR"
    <2>1. findDepth(p) > 0 /\ p \in Path
        BY DEF IsTree
    <2>2. p[1] = Slash
        BY <2>1 DEF findDepth
    <2>. QED  BY <2>1, <2>2 DEF IsTree
<1>2. ASSUME NEW p \in DOMAIN f PROVE PlainDir(p)
    BY <1>1 DEF PlainDir
<1>3. ASSUME NEW p \in DOMAIN f \ {<<>>}
      PROVE  LET d == Parent(p)
                 n == SubSeq(p, Len(d) + 2, Len(p))
             IN  /\ PlainDir(d) /\ PlainName(n) /\ p = Join(d, n)
                 /\ d \in DOMAIN f /\ f[d].type = "DIR"
    <2>. DEFINE d == Parent(p)
                n == SubSeq(p, Len(d) + 2, Len(p))
    <2>1. /\ d \in Path /\ n \in Path /\ n # <<>>
          /\ \A i \in DOMAIN n : n[i] # Slash
          /\ p = Join(d, n)
          /\ \A i \in DOMAIN n : \E j \in DOMAIN p : n[i] = p[j]
        BY <1>1, ParentSplit
    <2>2. PlainName(n)
        BY <1>1, <2>1 DEF PlainName, PlainPath
    <2>. QED  BY <1>1, <1>2, <2>1, <2>2
<1>. QED  BY <1>2, <1>3

\* A finite set of strings can be put in order: the number of them that are
\* not, if there were one, could be made smaller by taking one out.
Ordered(s) == \A i, j \in DOMAIN s : i < j => StrLess(s[i], s[j])
Onto(s, S) == \A x \in S : \E i \in DOMAIN s : s[i] = x

\* One more string goes to its place.
LEMMA InsertInOrder ==
    ASSUME NEW n \in Nat, NEW T, T \subseteq Path, NEW x \in Path, x \notin T,
           NEW s \in [1..n -> T], Ordered(s), Onto(s, T)
    PROVE  \E t \in [1..(n + 1) -> T \cup {x}] : Ordered(t) /\ Onto(t, T \cup {x})
<1>. DEFINE K == {i \in 1..n : StrLess(s[i], x)}
<1>1. PICK k \in 0..n : \A i \in 1..n : i <= k <=> StrLess(s[i], x)
    <2>1. CASE K = {}
        <3>1. 0 \in 0..n /\ \A i \in 1..n : ~ (i <= 0) /\ ~ StrLess(s[i], x)
            BY <2>1
        <3>. QED  BY <3>1
    <2>2. CASE K # {}
        <3>1. Max(K) \in K /\ \A y \in K : Max(K) >= y
            BY <2>2, MaxOfIndices
        <3>. DEFINE m == Max(K)
        <3>2. m \in 1..n /\ StrLess(s[m], x)
            BY <3>1
        <3>. HIDE DEF m
        <3>3. ASSUME NEW i \in 1..n, i <= m PROVE StrLess(s[i], x)
            <4>1. CASE i = m
                BY <3>2, <4>1
            <4>2. CASE i # m
                <5>1. StrLess(s[i], s[m])
                    BY <3>2, <3>3, <4>2 DEF Ordered
                <5>2. s[i] \in Path /\ s[m] \in Path
                    BY <3>2
                <5>. QED  BY <3>2, <5>1, <5>2, StrLessTransitive
            <4>. QED  BY <4>1, <4>2
        <3>4. ASSUME NEW i \in 1..n, StrLess(s[i], x) PROVE i <= m
            <4>1. i \in K
                BY <3>4
            <4>. HIDE DEF K
            <4>. QED  BY <3>1, <3>2, <4>1 DEF m
        <3>5. m \in 0..n /\ \A i \in 1..n : i <= m <=> StrLess(s[i], x)
            BY <3>2, <3>3, <3>4
        <3>. QED  BY <3>5
    <2>. QED  BY <2>1, <2>2
<1>2. ASSUME NEW i \in 1..n, ~ (i <= k) PROVE StrLess(x, s[i])
    <2>1. s[i] \in Path /\ s[i] # x /\ ~ StrLess(s[i], x)
        BY <1>1, <1>2
    <2>. QED  BY <2>1, StrLessTotal
<1>. DEFINE t == [i \in 1..(n + 1) |-> IF i <= k THEN s[i]
                                       ELSE IF i = k + 1 THEN x ELSE s[i - 1]]
<1>3. t \in [1..(n + 1) -> T \cup {x}]
    <2>. SUFFICES ASSUME NEW i \in 1..(n + 1) PROVE t[i] \in T \cup {x}
        OBVIOUS
    <2>1. CASE i <= k
        BY <2>1
    <2>2. CASE i = k + 1
        BY <2>2
    <2>3. CASE i > k + 1
        <3>1. i - 1 \in 1..n
            BY <2>3
        <3>. QED  BY <2>3, <3>1
    <2>. QED  BY <2>1, <2>2, <2>3
<1>4. /\ \A i \in 1..(n + 1) : i <= k => t[i] = s[i] /\ i \in 1..n
      /\ t[k + 1] = x
      /\ \A i \in 1..(n + 1) : i > k + 1 => t[i] = s[i - 1] /\ i - 1 \in 1..n /\ ~ (i - 1 <= k)
      /\ DOMAIN t = 1..(n + 1) /\ DOMAIN s = 1..n
      /\ \A i \in 1..n : i <= k => i \in 1..(n + 1)
      /\ \A i \in 1..n : ~ (i <= k) => i + 1 \in 1..(n + 1) /\ i + 1 > k + 1 /\ (i + 1) - 1 = i
      /\ k + 1 \in 1..(n + 1)
    OBVIOUS
<1>. HIDE DEF t
<1>5. Ordered(t)
    <2>. SUFFICES ASSUME NEW i \in 1..(n + 1), NEW j \in 1..(n + 1), i < j
                  PROVE  StrLess(t[i], t[j])
        BY <1>4 DEF Ordered
    <2>1. CASE j <= k
        <3>1. i <= k
            BY <2>1
        <3>. QED  BY <1>4, <2>1, <3>1 DEF Ordered
    <2>2. CASE j = k + 1
        <3>1. i <= k
            BY <2>2
        <3>. QED  BY <1>1, <1>4, <2>2, <3>1
    <2>3. CASE j > k + 1 /\ i <= k
        <3>1. i < j - 1
            BY <2>3
        <3>. QED  BY <1>4, <2>3, <3>1 DEF Ordered
    <2>4. CASE j > k + 1 /\ i = k + 1
        BY <1>2, <1>4, <2>4
    <2>5. CASE j > k + 1 /\ i > k + 1
        <3>1. i - 1 < j - 1
            OBVIOUS
        <3>. QED  BY <1>4, <2>5, <3>1 DEF Ordered
    <2>. QED  BY <2>1, <2>2, <2>3, <2>4, <2>5
<1>6. Onto(t, T \cup {x})
    <2>1. \E i \in DOMAIN t : t[i] = x
        BY <1>4
    <2>2. ASSUME NEW y \in T PROVE \E i \in DOMAIN t : t[i] = y
        <3>1. PICK j \in 1..n : s[j] = y
            BY <1>4 DEF Onto
        <3>2. CASE j <= k
            BY <1>4, <3>1, <3>2
        <3>3. CASE ~ (j <= k)
            <4>1. j + 1 \in 1..(n + 1) /\ t[j + 1] = s[(j + 1) - 1] /\ (j + 1) - 1 = j
                BY <1>4, <3>3
            <4>2. t[j + 1] = y
                BY <3>1, <4>1
            <4>. QED  BY <1>4, <4>1, <4>2
        <3>. QED  BY <3>2, <3>3
    <2>. QED  BY <2>1, <2>2 DEF Onto
<1>. QED  BY <1>3, <1>5, <1>6

LEMMA CanBeOrdered ==
    ASSUME NEW n \in Nat, NEW S \in SUBSET Path, IsFiniteSet(S), Cardinality(S) = n
    PROVE  \E s \in [1..n -> S] : Ordered(s) /\ Onto(s, S)
<1>. DEFINE Can(k, R) == \E s \in [1..k -> R] : Ordered(s) /\ Onto(s, R)
            Bad == {k \in Nat : \E R \in SUBSET Path :
                        IsFiniteSet(R) /\ Cardinality(R) = k /\ ~ Can(k, R)}
<1>1. Bad = {}
    <2>. SUFFICES ASSUME Bad # {} PROVE FALSE
        OBVIOUS
    <2>. DEFINE m == Min(Bad)
    <2>1. m \in Bad /\ \A y \in Bad : m <= y
        <3>1. Bad \subseteq Nat
            OBVIOUS
        <3>. QED  BY <3>1, MinOfNats
    <2>. HIDE DEF m
    <2>2. PICK R \in SUBSET Path : IsFiniteSet(R) /\ Cardinality(R) = m /\ ~ Can(m, R)
        BY <2>1
    <2>3. m \in Nat
        BY <2>1
    <2>4. CASE R = {}
        <3>1. m = 0
            BY <2>2, <2>4, FS_EmptySet
        <3>. DEFINE s == [i \in 1..0 |-> {}]
        <3>2. s \in [1..0 -> {}] /\ Ordered(s) /\ Onto(s, {})
            BY DEF Ordered, Onto
        <3>. QED  BY <2>2, <2>4, <3>1, <3>2
    <2>5. CASE R # {}
        <3>1. PICK x : x \in R
            BY <2>5
        <3>. DEFINE T == R \ {x}
        <3>2. IsFiniteSet(T) /\ Cardinality(T) = m - 1 /\ T \in SUBSET Path /\ x \in Path
            BY <2>2, <3>1, FS_RemoveElement
        <3>3. m - 1 \in Nat
            BY <3>2, FS_CardinalityType
        <3>4. R = T \cup {x} /\ x \notin T
            BY <3>1
        <3>. HIDE DEF T
        <3>5. m - 1 \notin Bad
            <4>1. ~ (m <= m - 1)
                BY <2>3
            <4>. HIDE DEF Bad
            <4>. QED  BY <2>1, <4>1
        <3>6. Can(m - 1, T)
            <4>. HIDE DEF Can
            <4>. QED  BY <3>2, <3>3, <3>5
        <3>7. PICK s \in [1..(m - 1) -> T] : Ordered(s) /\ Onto(s, T)
            BY <3>6
        <3>8. \E t \in [1..((m - 1) + 1) -> T \cup {x}] : Ordered(t) /\ Onto(t, T \cup {x})
            BY <3>2, <3>3, <3>4, <3>7, InsertInOrder
        <3>9. (m - 1) + 1 = m
            BY <2>3
        <3>. QED  BY <2>2, <3>4, <3>8, <3>9
    <2>. QED  BY <2>4, <2>5
<1>2. n \notin Bad
    <2>. HIDE DEF Bad
    <2>. QED  BY <1>1
<1>3. Can(n, S)
    <2>. HIDE DEF Can
    <2>. QED  BY <1>2
<1>. QED  BY <1>3

\* alphasort gives every name once, in the order of strcmp.
LEMMA Alphasorted ==
    ASSUME NEW S \in SUBSET Path, IsFiniteSet(S)
    PROVE  LET s == alphasort(S)
           IN  /\ s \in Seq(S) /\ Len(s) = Cardinality(S) /\ Len(s) \in Nat
               /\ DOMAIN s = 1..Len(s)
               /\ Ordered(s) /\ Onto(s, S)
<1>. DEFINE n == Cardinality(S)
            s == alphasort(S)
<1>1. n \in Nat
    BY FS_CardinalityType
<1>2. \E t \in [1..n -> S] : Ordered(t)
    BY <1>1, CanBeOrdered
<1>3. s \in [1..n -> S] /\ Ordered(s)
    BY <1>2 DEF alphasort, Ordered
<1>. HIDE DEF s, n
<1>4. \A i, j \in 1..n : s[i] = s[j] => i = j
    <2>. SUFFICES ASSUME NEW i \in 1..n, NEW j \in 1..n, s[i] = s[j], i < j PROVE FALSE
        BY <1>1
    <2>1. StrLess(s[i], s[j]) /\ s[i] \in Path
        BY <1>3 DEF Ordered
    <2>. QED  BY <2>1, StrLessIrreflexive
<1>5. Onto(s, S)
    <2>1. s \in Injection(1..n, S)
        BY <1>3, <1>4 DEF Injection, IsInjective
    <2>2. Cardinality(1..n) = n
        BY <1>1, FS_Interval
    <2>3. s \in Surjection(1..n, S)
        BY <2>1, <2>2, FS_Injection DEF n
    <2>. QED  BY <1>3, <2>3 DEF Onto, Surjection
<1>. QED  BY <1>1, <1>3, <1>5 DEF s, n

\* What scandir hands to the loop.
LEMMA ScandirNames ==
    ASSUME fs \in Trees, PlainNames, NEW d, d \in DOMAIN fs
    PROVE  LET nl == scandir(d)
           IN  /\ nl \in Seq(Dirent)
               /\ \A k \in DOMAIN nl :
                    /\ PlainName(nl[k].name)
                    /\ Join(d, nl[k].name) \in DOMAIN fs
                    /\ nl[k].isdir =
                        (DTypeKnown /\ fs[Join(d, nl[k].name)].type = "DIR")
               /\ \A i, j \in DOMAIN nl : i < j => StrLess(nl[i].name, nl[j].name)
               /\ \A p \in DOMAIN fs \ {<<>>} : Parent(p) = d =>
                    \E k \in DOMAIN nl : p = Join(d, nl[k].name)
<1>1. /\ IsTree(fs) /\ IsFiniteSet(DOMAIN fs)
      /\ \A p \in DOMAIN fs : PlainPath(p) /\ PlainDir(p)
      /\ \A p \in DOMAIN fs \ {<<>>} :
            LET dd == Parent(p)
                n  == SubSeq(p, Len(dd) + 2, Len(p))
            IN  PlainName(n) /\ p = Join(dd, n)
    <2>1. IsTree(fs) /\ \A q \in DOMAIN fs : PlainPath(q)
        BY GeneratorAssumption DEF PlainNames
    <2>. QED  BY <2>1, TreePaths DEF IsTree
<1>. DEFINE Q == {q \in DOMAIN fs \ {<<>>} : Parent(q) = d}
            g == [p \in Q |-> SubSeq(p, Len(d) + 2, Len(p))]
            S == Names(d)
            s == alphasort(S)
            nl == scandir(d)
<1>2. \A p \in Q : PlainName(g[p]) /\ p = Join(d, g[p])
    BY <1>1
<1>3. S = {g[p] : p \in Q}
    BY DEF Names
<1>4. IsFiniteSet(Q)
    <2>1. Q \in SUBSET (DOMAIN fs)
        OBVIOUS
    <2>. HIDE DEF Q
    <2>. QED  BY <1>1, <2>1, FS_Subset
<1>5. IsFiniteSet(S)
    <2>1. g \in Surjection(Q, S)
        <3>. HIDE DEF Q, S
        <3>. QED  BY <1>3 DEF Surjection
    <2>. HIDE DEF Q, S, g
    <2>. QED  BY <1>4, <2>1, FS_Surjection
<1>6. \A n \in S : PlainName(n) /\ Join(d, n) \in Q
    <2>1. ASSUME NEW n \in S PROVE PlainName(n) /\ Join(d, n) \in Q
        <3>1. PICK p \in Q : n = g[p]
            BY <1>3
        <3>. HIDE DEF g, Q
        <3>. QED  BY <1>2, <3>1
    <2>. QED  BY <2>1
<1>7. S \in SUBSET Path
    BY <1>6 DEF PlainName, PlainPath
<1>8. /\ s \in Seq(S) /\ Len(s) \in Nat /\ DOMAIN s = 1..Len(s)
      /\ Ordered(s) /\ Onto(s, S)
    <2>. HIDE DEF S
    <2>. QED  BY <1>5, <1>7, Alphasorted
<1>9. nl = [k \in DOMAIN s |->
                [name |-> s[k],
                 isdir |-> DTypeKnown /\ fs[Join(d, s[k])].type = "DIR"]]
    BY DEF scandir
<1>10. \A k \in DOMAIN s : s[k] \in S
    BY <1>8
<1>11. \A p \in Q : g[p] \in S
    BY <1>3
<1>12. \A p \in Q : p \in DOMAIN fs
    OBVIOUS
<1>13. \A p \in DOMAIN fs \ {<<>>} : Parent(p) = d => p \in Q
    OBVIOUS
<1>. HIDE DEF s, nl, S, Q, g
<1>14. /\ DOMAIN nl = 1..Len(s)
       /\ \A k \in 1..Len(s) :
            /\ nl[k].name = s[k]
            /\ nl[k].isdir = (DTypeKnown /\ fs[Join(d, s[k])].type = "DIR")
            /\ nl[k] \in Dirent
    <2>1. DOMAIN nl = 1..Len(s)
        BY <1>8, <1>9
    <2>2. ASSUME NEW k \in 1..Len(s)
          PROVE  /\ nl[k].name = s[k]
                 /\ nl[k].isdir = (DTypeKnown /\ fs[Join(d, s[k])].type = "DIR")
                 /\ nl[k] \in Dirent
        <3>. DEFINE b == DTypeKnown /\ fs[Join(d, s[k])].type = "DIR"
        <3>1. nl[k] = [name |-> s[k], isdir |-> b]
            BY <1>8, <1>9
        <3>2. s[k] \in Path
            BY <1>7, <1>8, <1>10
        <3>3. b \in BOOLEAN
            OBVIOUS
        <3>. HIDE DEF b
        <3>4. nl[k].name = s[k] /\ nl[k].isdir = b /\ nl[k] \in Dirent
            BY <3>1, <3>2, <3>3 DEF Dirent
        <3>. QED  BY <3>4 DEF b
    <2>. QED  BY <2>1, <2>2
<1>15. nl \in Seq(Dirent)
    <2>1. nl = [k \in 1..Len(s) |-> nl[k]]
        BY <1>9, <1>14
    <2>. QED  BY <1>8, <1>14, <2>1
<1>16. ASSUME NEW k \in DOMAIN nl
       PROVE  /\ PlainName(nl[k].name)
              /\ Join(d, nl[k].name) \in DOMAIN fs
              /\ nl[k].isdir = (DTypeKnown /\ fs[Join(d, nl[k].name)].type = "DIR")
    <2>1. k \in 1..Len(s) /\ nl[k].name = s[k] /\ s[k] \in S
        BY <1>8, <1>10, <1>14
    <2>. QED  BY <1>6, <1>12, <1>14, <2>1
<1>17. ASSUME NEW i \in DOMAIN nl, NEW j \in DOMAIN nl, i < j
       PROVE  StrLess(nl[i].name, nl[j].name)
    BY <1>8, <1>14, <1>17 DEF Ordered
<1>18. ASSUME NEW p \in DOMAIN fs \ {<<>>}, Parent(p) = d
       PROVE  \E k \in DOMAIN nl : p = Join(d, nl[k].name)
    <2>1. p \in Q
        BY <1>13, <1>18
    <2>2. PICK k \in DOMAIN s : s[k] = g[p]
        BY <1>8, <1>11, <2>1 DEF Onto
    <2>. QED  BY <1>2, <1>8, <1>14, <2>1, <2>2
<1>. QED  BY <1>15, <1>16, <1>17, <1>18 DEF nl

(***************************************************************************)
(* The layout, over the list of the paths that were printed                *)
(***************************************************************************)
\* A path the walk prints.
Printable(p) ==
    /\ PlainPath(p) /\ p # <<>> /\ p[1] = Slash
    /\ PlainDir(Parent(p))
    /\ findDepth(p) = Slashes(Parent(p)) + 1
    /\ IF IsHead(p) THEN p = HeaderOf(Parent(p))
       ELSE PlainDir(p) /\ Slashes(p) = findDepth(p)

\* The header's directory is listed itself, unless it is the first; an entry
\* follows the header of its directory, in order.
Layout(P) ==
    /\ \A k \in DOMAIN P : Printable(P[k])
    /\ \A j, k \in DOMAIN P :
            j < k => P[j] # P[k] /\ findDepth(P[j]) <= findDepth(P[k])
    /\ \A k \in DOMAIN P : IsHead(P[k]) =>
            Parent(P[k]) = <<>> \/ \E j \in DOMAIN P : P[j] = Parent(P[k])
    /\ \A k \in DOMAIN P : ~ IsHead(P[k]) =>
            \E h \in 1..(k - 1) :
                /\ P[h] = HeaderOf(Parent(P[k]))
                /\ \A j \in (h + 1)..(k - 1) :
                        ~ IsHead(P[j]) /\ StrLess(P[j], P[k])

\* What is queued was printed, and its header was not; the queue spans two
\* depths at most.
Ahead(P, c, q) ==
    /\ PlainDir(c)
    /\ \A k \in DOMAIN P : findDepth(P[k]) <= Slashes(c) + 1
    /\ \A i \in DOMAIN q :
            /\ PlainDir(q[i])
            /\ q[i] = <<>> \/ \E k \in DOMAIN P : P[k] = q[i]
            /\ \A k \in DOMAIN P : P[k] # HeaderOf(q[i])
            /\ Slashes(c) <= Slashes(q[i]) /\ Slashes(q[i]) <= Slashes(c) + 1
    /\ \A i, j \in DOMAIN q :
            i < j => q[i] # q[j] /\ Slashes(q[i]) <= Slashes(q[j])

\* The last header is that of the directory being listed, and what is still
\* to be listed is above what was.
UnderHeader(P, c, names) ==
    /\ \E h \in DOMAIN P :
            /\ P[h] = HeaderOf(c)
            /\ \A j \in (h + 1)..Len(P) :
                /\ ~ IsHead(P[j])
                /\ \A i \in DOMAIN names : StrLess(P[j], Join(c, names[i].name))
    /\ \A i \in DOMAIN names : PlainName(names[i].name)
    /\ \A i, j \in DOMAIN names : i < j => StrLess(names[i].name, names[j].name)

\* d/ and d/name are what the walk prints, and below d.
LEMMA HeaderPrintable ==
    ASSUME NEW d, PlainDir(d)
    PROVE  Printable(HeaderOf(d)) /\ IsHead(HeaderOf(d)) /\ Parent(HeaderOf(d)) = d
BY HeaderPath DEF Printable

LEMMA JoinPrintable ==
    ASSUME NEW d, PlainDir(d), NEW n, PlainName(n)
    PROVE  /\ Printable(Join(d, n)) /\ ~ IsHead(Join(d, n)) /\ Parent(Join(d, n)) = d
           /\ PlainDir(Join(d, n)) /\ Slashes(Join(d, n)) = Slashes(d) + 1
           /\ Join(d, n) # <<>>
BY JoinPath DEF Printable, PlainDir

LEMMA SlashesNat ==
    ASSUME NEW d, PlainDir(d)
    PROVE  Slashes(d) \in Nat
BY SlashesType DEF PlainDir, PlainPath

\* Once a header is printed, the entries of its directory come after it.
LEMMA AfterHeader ==
    ASSUME NEW P \in Seq(Path), Layout(P), NEW h \in DOMAIN P, NEW k \in DOMAIN P,
           NEW c, P[h] = HeaderOf(c), Parent(P[k]) = c, k # h
    PROVE  h < k
<1>1. DOMAIN P = 1..Len(P) /\ Len(P) \in Nat
    OBVIOUS
<1>2. h \in Int /\ k \in Int
    BY <1>1
<1>3. CASE IsHead(P[k])
    <2>1. P[k] = P[h]
        BY <1>3 DEF Layout, Printable
    <2>2. ~ (k < h) /\ ~ (h < k)
        BY <2>1 DEF Layout
    <2>. QED  BY <1>2, <2>2
<1>4. CASE ~ IsHead(P[k])
    <2>1. PICK g \in 1..(k - 1) : P[g] = HeaderOf(c)
        BY <1>4 DEF Layout
    <2>2. g \in DOMAIN P /\ g < k /\ g \in Int
        BY <1>1, <1>2
    <2>3. ~ (g < h) /\ ~ (h < g)
        BY <2>1, <2>2 DEF Layout
    <2>. QED  BY <1>2, <2>2, <2>3
<1>. QED  BY <1>3, <1>4

\* One path more: what is new about it, and what stays.
LEMMA AppendPath ==
    ASSUME NEW P \in Seq(Path), NEW p \in Path, Layout(P), Printable(p),
           \A k \in DOMAIN P : P[k] # p /\ findDepth(P[k]) <= findDepth(p),
           IF IsHead(p)
           THEN Parent(p) = <<>> \/ \E j \in DOMAIN P : P[j] = Parent(p)
           ELSE \E h \in DOMAIN P :
                    /\ P[h] = HeaderOf(Parent(p))
                    /\ \A j \in (h + 1)..Len(P) : ~ IsHead(P[j]) /\ StrLess(P[j], p)
    PROVE  Layout(Append(P, p))
<1>. DEFINE Q == Append(P, p)
            n == Len(P)
<1>1. /\ n \in Nat /\ DOMAIN P = 1..n /\ DOMAIN Q = 1..(n + 1)
      /\ \A k \in 1..n : Q[k] = P[k]
      /\ Q[n + 1] = p
    BY AppendElements
<1>2. \A k \in DOMAIN Q : k \in 1..n \/ k = n + 1
    BY <1>1
<1>3. \A k \in 1..n : k \in DOMAIN Q
    BY <1>1
<1>4. \A k \in DOMAIN P : k \in DOMAIN Q /\ Q[k] = P[k]
    BY <1>1, <1>3
<1>. HIDE DEF Q, n
<1>5. ASSUME NEW k \in DOMAIN Q PROVE Printable(Q[k])
    BY <1>1, <1>2 DEF Layout
<1>6. ASSUME NEW j \in DOMAIN Q, NEW k \in DOMAIN Q, j < k
      PROVE  Q[j] # Q[k] /\ findDepth(Q[j]) <= findDepth(Q[k])
    <2>1. CASE k = n + 1
        <3>1. j \in 1..n
            BY <1>1, <1>2, <1>6, <2>1
        <3>. QED  BY <1>1, <2>1, <3>1
    <2>2. CASE k \in 1..n
        <3>1. j \in 1..n
            BY <1>1, <1>2, <1>6, <2>2
        <3>. QED  BY <1>1, <1>6, <2>2, <3>1 DEF Layout
    <2>. QED  BY <1>2, <2>1, <2>2
<1>7. ASSUME NEW k \in DOMAIN Q, IsHead(Q[k])
      PROVE  Parent(Q[k]) = <<>> \/ \E j \in DOMAIN Q : Q[j] = Parent(Q[k])
    <2>1. Parent(Q[k]) = <<>> \/ \E j \in DOMAIN P : P[j] = Parent(Q[k])
        BY <1>1, <1>2, <1>7 DEF Layout
    <2>. QED  BY <1>4, <2>1
<1>8. ASSUME NEW k \in DOMAIN Q, ~ IsHead(Q[k])
      PROVE  \E h \in 1..(k - 1) :
                /\ Q[h] = HeaderOf(Parent(Q[k]))
                /\ \A j \in (h + 1)..(k - 1) : ~ IsHead(Q[j]) /\ StrLess(Q[j], Q[k])
    <2>1. CASE k = n + 1
        <3>1. PICK h \in DOMAIN P :
                    /\ P[h] = HeaderOf(Parent(p))
                    /\ \A j \in (h + 1)..Len(P) : ~ IsHead(P[j]) /\ StrLess(P[j], p)
            BY <1>1, <1>8, <2>1
        <3>2. /\ h \in 1..(k - 1) /\ h \in 1..n
              /\ \A j \in (h + 1)..(k - 1) : j \in (h + 1)..n /\ j \in 1..n
            BY <1>1, <2>1
        <3>. QED  BY <1>1, <2>1, <3>1, <3>2 DEF n
    <2>2. CASE k \in 1..n
        <3>1. PICK h \in 1..(k - 1) :
                /\ P[h] = HeaderOf(Parent(P[k]))
                /\ \A j \in (h + 1)..(k - 1) : ~ IsHead(P[j]) /\ StrLess(P[j], P[k])
            BY <1>1, <1>8, <2>2 DEF Layout
        <3>2. h \in 1..n /\ \A j \in (h + 1)..(k - 1) : j \in 1..n
            BY <1>1, <2>2
        <3>. QED  BY <1>1, <2>2, <3>1, <3>2
    <2>. QED  BY <1>2, <2>1, <2>2
<1>. QED  BY <1>5, <1>6, <1>7, <1>8 DEF Layout, Q

\* The header of the next directory.
LEMMA AppendHeader ==
    ASSUME NEW P \in Seq(Path), NEW c, NEW q \in Seq(Path), q # <<>>,
           Layout(P), Ahead(P, c, q)
    PROVE  LET d == Head(q)
               Q == Append(P, HeaderOf(d))
           IN  Layout(Q) /\ Ahead(Q, d, Tail(q))
<1>. DEFINE d == Head(q)
            p == HeaderOf(d)
            Q == Append(P, p)
            r == Tail(q)
<1>1. /\ Len(q) \in Nat /\ Len(q) > 0 /\ DOMAIN q = 1..Len(q) /\ d = q[1]
      /\ r \in Seq(Path) /\ Len(r) = Len(q) - 1 /\ DOMAIN r = 1..(Len(q) - 1)
      /\ \A i \in 1..(Len(q) - 1) : r[i] = q[i + 1]
    OBVIOUS
<1>2. 1 \in DOMAIN q /\ \A i \in DOMAIN r : i + 1 \in DOMAIN q /\ 1 < i + 1 /\ r[i] = q[i + 1]
    BY <1>1
<1>. HIDE DEF d, r
<1>3. PlainDir(d) /\ PlainDir(c) /\ Slashes(d) \in Nat /\ Slashes(c) \in Nat
      /\ Slashes(c) <= Slashes(d) /\ Slashes(d) <= Slashes(c) + 1
    BY <1>1, <1>2, SlashesNat DEF Ahead
<1>4. Printable(p) /\ IsHead(p) /\ Parent(p) = d /\ p \in Path /\ findDepth(p) = Slashes(d) + 1
    BY <1>3, HeaderPrintable DEF Printable, PlainPath
<1>5. \A k \in DOMAIN P : findDepth(P[k]) <= findDepth(p)
    <2>. SUFFICES ASSUME NEW k \in DOMAIN P PROVE findDepth(P[k]) <= findDepth(p)
        OBVIOUS
    <2>1. findDepth(P[k]) <= Slashes(c) + 1
        BY DEF Ahead
    <2>2. findDepth(P[k]) \in Int
        <3>1. PlainDir(Parent(P[k])) /\ findDepth(P[k]) = Slashes(Parent(P[k])) + 1
            BY DEF Layout, Printable
        <3>. QED  BY <3>1, SlashesNat
    <2>. QED  BY <1>3, <1>4, <2>1, <2>2
<1>6. \A k \in DOMAIN P : P[k] # p
    BY <1>1, <1>2 DEF Ahead
<1>7. Parent(p) = <<>> \/ \E j \in DOMAIN P : P[j] = Parent(p)
    BY <1>1, <1>2, <1>4 DEF Ahead
<1>. HIDE DEF p
<1>8. Layout(Q)
    BY <1>4, <1>5, <1>6, <1>7, AppendPath
<1>9. /\ \A k \in DOMAIN Q : (k \in DOMAIN P /\ Q[k] = P[k]) \/ Q[k] = p
      /\ \A k \in DOMAIN P : k \in DOMAIN Q /\ Q[k] = P[k]
    BY <1>4, AppendElements
<1>. HIDE DEF Q
<1>10. \A k \in DOMAIN Q : findDepth(Q[k]) <= Slashes(d) + 1
    BY <1>3, <1>4, <1>5, <1>9
<1>11. ASSUME NEW i \in DOMAIN r
       PROVE  /\ PlainDir(r[i])
              /\ r[i] = <<>> \/ \E k \in DOMAIN Q : Q[k] = r[i]
              /\ \A k \in DOMAIN Q : Q[k] # HeaderOf(r[i])
              /\ Slashes(d) <= Slashes(r[i]) /\ Slashes(r[i]) <= Slashes(d) + 1
    <2>. DEFINE j == i + 1
    <2>1. j \in DOMAIN q /\ 1 < j /\ r[i] = q[j]
        BY <1>2
    <2>. HIDE DEF j
    <2>2. /\ PlainDir(q[j])
          /\ q[j] = <<>> \/ \E k \in DOMAIN P : P[k] = q[j]
          /\ \A k \in DOMAIN P : P[k] # HeaderOf(q[j])
          /\ Slashes(c) <= Slashes(q[j]) /\ Slashes(q[j]) <= Slashes(c) + 1
          /\ q[1] # q[j] /\ Slashes(q[1]) <= Slashes(q[j])
        BY <1>2, <2>1 DEF Ahead
    <2>3. p # HeaderOf(q[j])
        <3>1. Parent(p) = d /\ Parent(HeaderOf(q[j])) = q[j]
            BY <1>4, <2>2, HeaderPrintable
        <3>. QED  BY <1>1, <2>2, <3>1
    <2>4. Slashes(q[j]) \in Nat
        BY <2>2, SlashesNat
    <2>5. Slashes(d) <= Slashes(q[j]) /\ Slashes(q[j]) <= Slashes(d) + 1
        BY <1>1, <1>3, <2>2, <2>4
    <2>. QED  BY <1>9, <2>1, <2>2, <2>3, <2>5
<1>12. ASSUME NEW i \in DOMAIN r, NEW j \in DOMAIN r, i < j
       PROVE  r[i] # r[j] /\ Slashes(r[i]) <= Slashes(r[j])
    <2>1. i + 1 < j + 1
        BY <1>1, <1>12
    <2>. QED  BY <1>2, <2>1 DEF Ahead
<1>13. Ahead(Q, d, r)
    BY <1>3, <1>10, <1>11, <1>12 DEF Ahead
<1>. QED  BY <1>8, <1>13 DEF Q, p, d, r

\* The next entry of the directory being listed.
LEMMA AppendEntry ==
    ASSUME NEW P \in Seq(Path), NEW c, NEW q \in Seq(Path),
           NEW names \in Seq(Dirent), names # <<>>,
           Layout(P), Ahead(P, c, q), UnderHeader(P, c, names)
    PROVE  LET p == Join(c, Head(names).name)
               Q == Append(P, p)
           IN  /\ p \in Path /\ PlainDir(p)
               /\ \A k \in DOMAIN P : P[k] # p
               /\ Layout(Q)
               /\ Ahead(Q, c, q) /\ Ahead(Q, c, Append(q, p))
               /\ UnderHeader(Q, c, Tail(names))
<1>. DEFINE nm == Head(names).name
            p == Join(c, nm)
            Q == Append(P, p)
            r == Tail(names)
            n == Len(P)
<1>1. /\ Len(names) \in Nat /\ Len(names) > 0 /\ DOMAIN names = 1..Len(names)
      /\ nm = names[1].name
      /\ r \in Seq(Dirent) /\ DOMAIN r = 1..(Len(names) - 1)
      /\ \A i \in 1..(Len(names) - 1) : r[i] = names[i + 1]
    OBVIOUS
<1>2. /\ 1 \in DOMAIN names
      /\ \A i \in DOMAIN r : i + 1 \in DOMAIN names /\ 1 < i + 1 /\ r[i] = names[i + 1]
      /\ \A i \in DOMAIN r : i \in Int
    BY <1>1
<1>. HIDE DEF nm, r
<1>3. PlainDir(c) /\ PlainName(nm) /\ Slashes(c) \in Nat
    BY <1>1, <1>2, SlashesNat DEF Ahead, UnderHeader
<1>4. /\ Printable(p) /\ ~ IsHead(p) /\ Parent(p) = c /\ PlainDir(p) /\ p \in Path
      /\ Slashes(p) = Slashes(c) + 1 /\ p # <<>> /\ findDepth(p) = Slashes(c) + 1
    BY <1>3, JoinPrintable DEF Printable, PlainDir, PlainPath
<1>. HIDE DEF p
<1>5. PICK h \in DOMAIN P :
            /\ P[h] = HeaderOf(c)
            /\ \A j \in (h + 1)..Len(P) :
                /\ ~ IsHead(P[j])
                /\ \A i \in DOMAIN names : StrLess(P[j], Join(c, names[i].name))
    BY DEF UnderHeader
<1>6. \A j \in (h + 1)..Len(P) : ~ IsHead(P[j]) /\ StrLess(P[j], p)
    BY <1>1, <1>2, <1>5 DEF p
<1>7. /\ n \in Nat /\ DOMAIN P = 1..n /\ DOMAIN Q = 1..(n + 1) /\ Len(Q) = n + 1
      /\ \A k \in 1..n : Q[k] = P[k]
      /\ Q[n + 1] = p /\ Q \in Seq(Path)
    BY <1>4, AppendElements
<1>8. ASSUME NEW k \in DOMAIN P PROVE P[k] # p
    <2>. SUFFICES ASSUME P[k] = p PROVE FALSE
        OBVIOUS
    <2>1. k # h
        BY <1>4, <1>5, <1>3, HeaderPrintable
    <2>2. h < k
        BY <1>4, <1>5, <2>1, AfterHeader
    <2>3. k \in (h + 1)..Len(P)
        BY <1>7, <2>2
    <2>4. StrLess(p, p)
        BY <1>6, <2>3
    <2>. QED  BY <1>4, <2>4, StrLessIrreflexive
<1>9. \A k \in DOMAIN P : findDepth(P[k]) <= findDepth(p)
    BY <1>4 DEF Ahead
<1>10. Layout(Q)
    <2>1. \E g \in DOMAIN P :
            /\ P[g] = HeaderOf(Parent(p))
            /\ \A j \in (g + 1)..Len(P) : ~ IsHead(P[j]) /\ StrLess(P[j], p)
        BY <1>4, <1>5, <1>6
    <2>2. \A k \in DOMAIN P : P[k] # p /\ findDepth(P[k]) <= findDepth(p)
        BY <1>8, <1>9
    <2>. QED  BY <1>4, <2>1, <2>2, AppendPath
<1>11. /\ \A k \in DOMAIN Q : (k \in DOMAIN P /\ Q[k] = P[k]) \/ Q[k] = p
       /\ \A k \in DOMAIN P : k \in DOMAIN Q /\ Q[k] = P[k]
       /\ \E k \in DOMAIN Q : Q[k] = p
    BY <1>7
<1>12. \A k \in DOMAIN Q : findDepth(Q[k]) <= Slashes(c) + 1
    <2>1. \A k \in DOMAIN P : findDepth(P[k]) <= Slashes(c) + 1
        BY DEF Ahead
    <2>. QED  BY <1>3, <1>4, <1>11, <2>1
<1>13. ASSUME NEW i \in DOMAIN q
       PROVE  /\ PlainDir(q[i])
              /\ q[i] = <<>> \/ \E k \in DOMAIN Q : Q[k] = q[i]
              /\ \A k \in DOMAIN Q : Q[k] # HeaderOf(q[i])
              /\ Slashes(c) <= Slashes(q[i]) /\ Slashes(q[i]) <= Slashes(c) + 1
    <2>1. /\ PlainDir(q[i])
          /\ q[i] = <<>> \/ \E k \in DOMAIN P : P[k] = q[i]
          /\ \A k \in DOMAIN P : P[k] # HeaderOf(q[i])
          /\ Slashes(c) <= Slashes(q[i]) /\ Slashes(q[i]) <= Slashes(c) + 1
        BY DEF Ahead
    <2>2. p # HeaderOf(q[i])
        BY <1>4, <2>1, HeaderPrintable
    <2>. QED  BY <1>11, <2>1, <2>2
<1>14. Ahead(Q, c, q)
    BY <1>3, <1>12, <1>13 DEF Ahead
<1>15. Ahead(Q, c, Append(q, p))
    <2>. DEFINE u == Append(q, p)
                m == Len(q)
    <2>1. /\ m \in Nat /\ DOMAIN q = 1..m /\ DOMAIN u = 1..(m + 1)
          /\ \A k \in 1..m : u[k] = q[k]
          /\ u[m + 1] = p
        BY <1>4, AppendElements
    <2>2. \A k \in DOMAIN u : k \in 1..m \/ k = m + 1
        BY <2>1
    <2>. HIDE DEF u, m
    <2>3. \A k \in DOMAIN Q : Q[k] # HeaderOf(p)
        <3>. SUFFICES ASSUME NEW k \in DOMAIN Q, Q[k] = HeaderOf(p) PROVE FALSE
            OBVIOUS
        <3>1. IsHead(Q[k]) /\ Parent(Q[k]) = p
            BY <1>4, HeaderPrintable
        <3>2. k \in DOMAIN P /\ Q[k] = P[k]
            BY <1>4, <1>11, <3>1
        <3>3. \E j \in DOMAIN P : P[j] = p
            BY <1>4, <3>1, <3>2 DEF Layout
        <3>. QED  BY <1>8, <3>3
    <2>4. ASSUME NEW i \in DOMAIN u
          PROVE  /\ PlainDir(u[i])
                 /\ u[i] = <<>> \/ \E k \in DOMAIN Q : Q[k] = u[i]
                 /\ \A k \in DOMAIN Q : Q[k] # HeaderOf(u[i])
                 /\ Slashes(c) <= Slashes(u[i]) /\ Slashes(u[i]) <= Slashes(c) + 1
        <3>1. CASE i = m + 1
            <4>1. u[i] = p
                BY <2>1, <3>1
            <4>2. Slashes(c) <= Slashes(p) /\ Slashes(p) <= Slashes(c) + 1
                BY <1>3, <1>4
            <4>. QED  BY <1>4, <1>11, <2>3, <4>1, <4>2
        <3>2. CASE i \in 1..m
            BY <1>13, <2>1, <3>2
        <3>. QED  BY <2>2, <3>1, <3>2
    <2>5. ASSUME NEW i \in DOMAIN u, NEW j \in DOMAIN u, i < j
          PROVE  u[i] # u[j] /\ Slashes(u[i]) <= Slashes(u[j])
        <3>1. CASE j = m + 1
            <4>1. i \in 1..m /\ i \in DOMAIN q
                BY <2>1, <2>2, <2>5, <3>1
            <4>2. /\ q[i] = <<>> \/ \E k \in DOMAIN P : P[k] = q[i]
                  /\ Slashes(q[i]) <= Slashes(c) + 1
                BY <4>1 DEF Ahead
            <4>. QED  BY <1>4, <1>8, <2>1, <3>1, <4>1, <4>2
        <3>2. CASE j \in 1..m
            <4>1. i \in 1..m
                BY <2>1, <2>2, <2>5, <3>2
            <4>. QED  BY <2>1, <2>5, <3>2, <4>1 DEF Ahead
        <3>. QED  BY <2>2, <3>1, <3>2
    <2>6. Ahead(Q, c, u)
        BY <1>3, <1>12, <2>4, <2>5 DEF Ahead
    <2>. QED  BY <2>6 DEF u
<1>16. UnderHeader(Q, c, r)
    <2>1. /\ h \in DOMAIN Q /\ Q[h] = HeaderOf(c)
          /\ \A j \in (h + 1)..Len(Q) : j = n + 1 \/ (j \in (h + 1)..n /\ j \in 1..n)
        <3>1. h \in 1..n
            BY <1>5, <1>7
        <3>. HIDE DEF Q, n
        <3>. QED  BY <1>5, <1>7, <3>1
    <2>5. n = Len(P)
        OBVIOUS
    <2>. HIDE DEF Q, n
    <2>2. ASSUME NEW j \in (h + 1)..Len(Q)
          PROVE  /\ ~ IsHead(Q[j])
                 /\ \A i \in DOMAIN r : StrLess(Q[j], Join(c, r[i].name))
        <3>1. CASE j \in (h + 1)..n /\ j \in 1..n
            BY <1>2, <1>5, <1>7, <2>5, <3>1
        <3>2. CASE j = n + 1
            <4>1. Q[j] = p
                BY <1>7, <3>2
            <4>2. ASSUME NEW i \in DOMAIN r PROVE StrLess(p, Join(c, r[i].name))
                <5>1. /\ r[i] = names[i + 1] /\ PlainName(names[i + 1].name)
                      /\ StrLess(nm, names[i + 1].name)
                    BY <1>1, <1>2 DEF UnderHeader
                <5>. QED  BY <1>3, <5>1, JoinOrder DEF p, PlainName, PlainDir, PlainPath
            <4>. QED  BY <1>4, <4>1, <4>2
        <3>. QED  BY <2>1, <3>1, <3>2
    <2>3. \A i \in DOMAIN r : PlainName(r[i].name)
        BY <1>2 DEF UnderHeader
    <2>4. ASSUME NEW i \in DOMAIN r, NEW j \in DOMAIN r, i < j
          PROVE  StrLess(r[i].name, r[j].name)
        <3>1. i + 1 < j + 1
            BY <1>2, <2>4
        <3>. QED  BY <1>2, <3>1 DEF UnderHeader
    <2>. QED  BY <2>1, <2>2, <2>3, <2>4 DEF UnderHeader
<1>. QED  BY <1>4, <1>8, <1>10, <1>14, <1>15, <1>16 DEF Q, p, nm, r

(***************************************************************************)
(* The walk                                                                *)
(***************************************************************************)
Paths == [k \in DOMAIN catalog.lines |-> PathOf(catalog.lines[k])]

\* Each line gives its path's depth, and its path ends somewhere.
LinesRead ==
    \A k \in DOMAIN catalog.lines :
        /\ catalog.lines[k].depth = findDepth(PathOf(catalog.lines[k]))
        /\ \E i \in DOMAIN catalog.lines[k].text : catalog.lines[k].text[i] = Sep

GInv ==
    /\ TypeOK
    /\ pc = "start" => queue = <<>> /\ current_dir = <<>> /\ namelist = <<>>
    /\ Printed => LinesRead /\ Layout(Paths)
    /\ pc \in Walking => Ahead(Paths, current_dir, queue)
    /\ pc = "scan" => Paths # <<>> /\ Paths[Len(Paths)] = HeaderOf(current_dir)
    /\ pc = "entries" => UnderHeader(Paths, current_dir, namelist)
    /\ pc = "rename" =>
        temp = [present |-> TRUE, lines |-> pad_each_line(catalog.lines)]

LEMMA PathOfType ==
    ASSUME NEW line \in Line
    PROVE  PathOf(line) \in Path
<1>. DEFINE text == line.text
            raw == UpTo(text, Sep)
<1>1. text \in Path
    BY DEF Line, Path
<1>2. raw \in Path
    <2>. HIDE DEF text
    <2>. QED  BY <1>1, UpToType
<1>3. UpTo(raw, LinkSep) \in Path
    <2>. HIDE DEF raw
    <2>. QED  BY <1>2, UpToType
<1>4. PathOf(line) = IF line.c = "l" THEN UpTo(raw, LinkSep) ELSE raw
    BY DEF PathOf, ParseEntry
<1>. QED  BY <1>2, <1>3, <1>4

LEMMA PathsType ==
    ASSUME catalog \in File
    PROVE  /\ Paths \in Seq(Path) /\ DOMAIN Paths = DOMAIN catalog.lines
           /\ catalog.lines \in Seq(Line) /\ Len(Paths) = Len(catalog.lines)
           /\ \A k \in DOMAIN Paths : Paths[k] = PathOf(catalog.lines[k])
<1>. DEFINE ls == catalog.lines
            n == Len(ls)
<1>1. ls \in Seq(Line)
    BY DEF File
<1>. HIDE DEF ls
<1>2. n \in Nat /\ DOMAIN ls = 1..n /\ \A k \in 1..n : ls[k] \in Line
    BY <1>1
<1>3. Paths = [k \in 1..n |-> PathOf(ls[k])]
    BY <1>2 DEF Paths, ls
<1>4. \A k \in 1..n : PathOf(ls[k]) \in Path
    BY <1>2, PathOfType
<1>. HIDE DEF n
<1>5. Paths \in Seq(Path) /\ DOMAIN Paths = 1..n /\ Len(Paths) = n
    BY <1>2, <1>3, <1>4
<1>6. \A k \in 1..n : Paths[k] = PathOf(ls[k])
    BY <1>3
<1>. QED  BY <1>1, <1>2, <1>5, <1>6 DEF ls, n

\* A line is printed.
LEMMA PrintedTo ==
    ASSUME catalog \in File, LinesRead, NEW p, PlainPath(p), NEW node \in Node,
           print_to_catalog(p, node)
    PROVE  /\ catalog' \in File /\ Paths' = Append(Paths, p) /\ LinesRead'
           /\ catalog'.lines = Append(catalog.lines, print_entry_to_catalog(p, node))
<1>. DEFINE ls == catalog.lines
            l == print_entry_to_catalog(p, node)
            ms == Append(ls, l)
            n == Len(ls)
<1>1. /\ l \in Line /\ l.depth = findDepth(p) /\ PathOf(l) = p
      /\ \E i \in DOMAIN l.text : l.text[i] = Sep
    BY PrintedLine
<1>2. ls \in Seq(Line)
    BY DEF File
<1>3. catalog' \in File /\ catalog'.lines = ms
    <2>. HIDE DEF l
    <2>1. catalog' = [catalog EXCEPT !.lines = ms]
        BY DEF print_to_catalog, l
    <2>2. ms \in Seq(Line)
        BY <1>1, <1>2
    <2>. HIDE DEF ms
    <2>. QED  BY <2>1, <2>2 DEF File
<1>. HIDE DEF l, ls
<1>4. /\ n \in Nat /\ DOMAIN ls = 1..n /\ DOMAIN ms = 1..(n + 1)
      /\ \A k \in 1..n : ms[k] = ls[k]
      /\ ms[n + 1] = l
    BY <1>1, <1>2, AppendElements
<1>. HIDE DEF ms, n
<1>5. \A k \in DOMAIN ms : (k \in 1..n /\ k # n + 1 /\ ms[k] = ls[k]) \/ (k = n + 1 /\ ms[k] = l)
    BY <1>4
<1>6. LinesRead'
    BY <1>1, <1>3, <1>4, <1>5 DEF LinesRead, ls
<1>7. Paths' = Append(Paths, p)
    <2>1. Paths' = [k \in DOMAIN ms |-> PathOf(ms[k])]
        BY <1>3 DEF Paths
    <2>2. Paths \in Seq(Path) /\ Len(Paths) = n /\ \A k \in 1..n : Paths[k] = PathOf(ls[k])
        BY <1>4, PathsType DEF ls, n
    <2>3. p \in Path
        BY DEF PlainPath
    <2>. DEFINE P == Paths
                R == Append(P, p)
    <2>. HIDE DEF P
    <2>4. P \in Seq(Path) /\ Len(P) = n /\ \A k \in 1..n : P[k] = PathOf(ls[k])
        BY <2>2 DEF P
    <2>5. /\ R \in Seq(Path) /\ DOMAIN R = 1..(n + 1)
          /\ \A k \in 1..n : R[k] = P[k]
          /\ R[n + 1] = p
        BY <2>3, <2>4, AppendElements
    <2>. HIDE DEF R
    <2>6. \A k \in 1..(n + 1) : R[k] = PathOf(ms[k]) /\ PathOf(ms[k]) \in Path
        BY <1>1, <1>4, <1>5, <2>4, <2>5
    <2>. DEFINE U == [k \in 1..(n + 1) |-> PathOf(ms[k])]
    <2>7. U \in Seq(Path) /\ DOMAIN U = 1..(n + 1) /\ \A k \in 1..(n + 1) : U[k] = R[k]
        BY <1>4, <2>6
    <2>. HIDE DEF U
    <2>9. U = R
        <3>. DEFINE m == n + 1
        <3>1. m \in Nat
            BY <1>4
        <3>2. /\ U \in Seq(Path) /\ DOMAIN U = 1..m
              /\ R \in Seq(Path) /\ DOMAIN R = 1..m
              /\ \A k \in 1..m : U[k] = R[k]
            BY <2>5, <2>7
        <3>. HIDE DEF m
        <3>3. Len(U) = m /\ Len(R) = m
            BY <3>1, <3>2
        <3>. QED  BY <3>2, <3>3
    <2>8. R = [k \in 1..(n + 1) |-> PathOf(ms[k])]
        BY <2>9 DEF U
    <2>. QED  BY <1>4, <2>1, <2>8 DEF R, P
<1>. QED  BY <1>3, <1>6, <1>7 DEF ms, l, ls

\* The lines stay.
LEMMA SameLines ==
    ASSUME catalog' = catalog
    PROVE  Paths' = Paths /\ LinesRead' = LinesRead
BY DEF Paths, LinesRead

\* What lstat may say about a path is a node.
LEMMA LstatNode ==
    ASSUME fs \in Trees, NEW p
    PROVE  Lstat(p) \subseteq Node
BY GeneratorAssumption DEF Lstat, IsTree

\* The invariant holds at first, ...
LEMMA GInvInit ==
    ASSUME Init PROVE GInv
<1>1. TypeOK
    <2>1. catalog \in File
        BY GeneratorAssumption DEF Init, File
    <2>2. edits \in 0..MaxEdits
        BY GeneratorAssumption DEF Init
    <2>. QED  BY <2>1, <2>2 DEF Init, TypeOK, Path, File, NoFile, Walking
<1>. QED  BY <1>1 DEF Init, GInv, Printed, Walking

\* ... the start of the walk, ...
LEMMA GInvStart ==
    ASSUME GInv, PlainNames, Start PROVE GInv'
<1>1. TypeOK /\ queue = <<>> /\ current_dir = <<>> /\ namelist = <<>> /\ pc = "start"
    BY DEF GInv, Start
<1>2. /\ UNCHANGED <<fs, edits, current_dir, namelist>>
      /\ temp' \in {Empty, NoFile}
      /\ \/ pc' = "next" /\ catalog' = Empty /\ queue' \in {<<>>, << <<>> >>}
         \/ pc' = "failed" /\ catalog' = catalog /\ queue' = queue
    <2>1. PICK opened, tempOpened, queued \in Outcomes :
            /\ pc' = IF opened THEN "next" ELSE "failed"
            /\ catalog' = IF opened THEN Empty ELSE catalog
            /\ temp' = IF tempOpened THEN Empty ELSE NoFile
            /\ queue' = IF opened THEN insert_queue(<<>>, queued) ELSE queue
        BY DEF Start
    <2>2. insert_queue(<<>>, queued) \in {<<>>, << <<>> >>}
        BY <1>1 DEF insert_queue
    <2>. QED  BY <1>1, <2>1, <2>2 DEF Start
<1>3. Empty \in File /\ NoFile \in File /\ <<>> \in Path
    BY DEF Empty, NoFile, File, Path
<1>4. TypeOK'
    <2>1. catalog' \in File /\ temp' \in File
        BY <1>1, <1>2, <1>3 DEF TypeOK
    <2>2. queue' \in Seq(Path)
        <3>1. queue \in Seq(Path)
            BY <1>1 DEF TypeOK
        <3>2. <<>> \in Seq(Path) /\ << <<>> >> \in Seq(Path)
            BY <1>3
        <3>. QED  BY <1>2, <3>1, <3>2
    <2>3. /\ pc' \in {"start", "rename", "done", "failed", "crashed"} \cup Walking
          /\ pc' # "entries"
        BY <1>2 DEF Walking
    <2>. QED  BY <1>1, <1>2, <2>1, <2>2, <2>3 DEF TypeOK
<1>5. CASE pc' = "failed"
    BY <1>4, <1>5 DEF GInv, Printed, Walking
<1>6. CASE pc' = "next"
    <2>1. catalog'.lines = <<>> /\ current_dir' = <<>> /\ namelist' = <<>>
        BY <1>1, <1>2, <1>6 DEF Empty
    <2>2. Paths' = <<>>
        BY <2>1 DEF Paths
    <2>3. LinesRead' /\ Layout(Paths')
        BY <2>1, <2>2 DEF LinesRead, Layout
    <2>4. PlainDir(<<>>) /\ Slashes(<<>>) = 0
        BY FS_EmptySet DEF PlainDir, PlainPath, Path, Slashes
    <2>5. Ahead(Paths', current_dir', queue')
        <3>1. CASE queue' = <<>>
            BY <2>1, <2>2, <2>4, <3>1 DEF Ahead
        <3>2. CASE queue' = << <<>> >>
            <4>1. DOMAIN queue' = {1} /\ queue'[1] = <<>>
                BY <3>2
            <4>2. \A i, j \in DOMAIN queue' : ~ (i < j)
                BY <4>1
            <4>3. Slashes(<<>>) <= Slashes(<<>>) /\ Slashes(<<>>) <= Slashes(<<>>) + 1
                BY <2>4
            <4>. HIDE DEF Ahead
            <4>. QED  BY <2>1, <2>2, <2>4, <4>1, <4>2, <4>3 DEF Ahead
        <3>. QED  BY <1>2, <1>6, <3>1, <3>2
    <2>. QED  BY <1>4, <1>6, <2>3, <2>5 DEF GInv, Printed, Walking
<1>. QED  BY <1>2, <1>5, <1>6

\* ... a header, ...
LEMMA HeaderStep ==
    ASSUME GInv, PlainNames, Header
    PROVE  LET d == Head(queue)
           IN  /\ TypeOK /\ pc = "next" /\ queue # <<>> /\ LinesRead /\ Layout(Paths)
               /\ Ahead(Paths, current_dir, queue)
               /\ queue \in Seq(Path) /\ d \in Path /\ Tail(queue) \in Seq(Path)
               /\ d = queue[1] /\ 1 \in DOMAIN queue
               /\ Paths \in Seq(Path) /\ PlainDir(d) /\ HeaderOf(d) \in Path
               /\ catalog' \in File /\ Paths' = Append(Paths, HeaderOf(d)) /\ LinesRead'
               /\ \E node \in Lstat(d) :
                    /\ node \in Node
                    /\ catalog'.lines =
                        Append(catalog.lines, print_entry_to_catalog(HeaderOf(d), node))
               /\ current_dir' = d /\ queue' = Tail(queue) /\ pc' = "scan"
               /\ UNCHANGED <<fs, edits, namelist, temp>>
<1>1. /\ TypeOK /\ pc = "next" /\ queue # <<>> /\ LinesRead /\ Layout(Paths)
      /\ Ahead(Paths, current_dir, queue)
    BY DEF GInv, Header, Printed, Walking
<1>. DEFINE d == Head(queue)
<1>2. PICK node \in Lstat(d) : print_to_catalog(HeaderOf(d), node)
    BY DEF Header, HeaderOf
<1>3. /\ queue \in Seq(Path) /\ d \in Path /\ Tail(queue) \in Seq(Path)
      /\ d = queue[1] /\ 1 \in DOMAIN queue
    BY <1>1 DEF TypeOK
<1>4. Paths \in Seq(Path)
    BY <1>1, PathsType DEF TypeOK
<1>5. PlainDir(d)
    BY <1>1, <1>3 DEF Ahead
<1>6. HeaderOf(d) \in Path
    BY <1>5, HeaderPath DEF PlainPath
<1>7. node \in Node
    BY <1>1, LstatNode DEF TypeOK
<1>8. /\ catalog' \in File /\ Paths' = Append(Paths, HeaderOf(d)) /\ LinesRead'
      /\ catalog'.lines =
            Append(catalog.lines, print_entry_to_catalog(HeaderOf(d), node))
    BY <1>1, <1>2, <1>5, <1>7, HeaderPath, PrintedTo DEF TypeOK
<1>9. /\ current_dir' = d /\ queue' = Tail(queue) /\ pc' = "scan"
      /\ UNCHANGED <<fs, edits, namelist, temp>>
    BY DEF Header
<1>. QED  BY <1>1, <1>3, <1>4, <1>5, <1>6, <1>7, <1>8, <1>9

LEMMA GInvHeader ==
    ASSUME GInv, PlainNames, Header PROVE GInv'
<1>. DEFINE d == Head(queue)
<1>1. /\ TypeOK /\ queue # <<>> /\ Layout(Paths) /\ Ahead(Paths, current_dir, queue)
      /\ queue \in Seq(Path) /\ d \in Path /\ Tail(queue) \in Seq(Path)
      /\ Paths \in Seq(Path) /\ PlainDir(d) /\ HeaderOf(d) \in Path
      /\ catalog' \in File /\ Paths' = Append(Paths, HeaderOf(d)) /\ LinesRead'
      /\ current_dir' = d /\ queue' = Tail(queue) /\ pc' = "scan"
      /\ UNCHANGED <<fs, edits, namelist, temp>> /\ pc = "next"
    BY HeaderStep
<1>2. Layout(Append(Paths, HeaderOf(d))) /\ Ahead(Append(Paths, HeaderOf(d)), d, Tail(queue))
    BY <1>1, AppendHeader
<1>3. TypeOK'
    BY <1>1 DEF TypeOK, Walking
<1>4. Paths' # <<>> /\ Paths'[Len(Paths')] = HeaderOf(current_dir')
    BY <1>1
<1>. QED  BY <1>1, <1>2, <1>3, <1>4 DEF GInv, Printed, Walking

\* ... the names of a directory, ...
LEMMA GInvScanDir ==
    ASSUME GInv, PlainNames, ScanDir PROVE GInv'
<1>1. /\ TypeOK /\ pc = "scan" /\ LinesRead /\ Layout(Paths)
      /\ Ahead(Paths, current_dir, queue)
      /\ Paths # <<>> /\ Paths[Len(Paths)] = HeaderOf(current_dir)
    BY DEF GInv, ScanDir, Printed, Walking
<1>2. /\ UNCHANGED <<fs, edits, queue, current_dir, catalog, temp>>
      /\ pc' = Loop(namelist')
      /\ namelist' = <<>> \/ (CanScan /\ namelist' = scandir(current_dir))
    BY DEF ScanDir
<1>3. /\ namelist' \in Seq(Dirent)
      /\ \A i \in DOMAIN namelist' : PlainName(namelist'[i].name)
      /\ \A i, j \in DOMAIN namelist' :
            i < j => StrLess(namelist'[i].name, namelist'[j].name)
    <2>1. CASE namelist' = <<>>
        BY <2>1
    <2>2. CASE CanScan /\ namelist' = scandir(current_dir)
        BY <1>1, <2>2, ScandirNames DEF TypeOK, CanScan
    <2>. QED  BY <1>2, <2>1, <2>2
<1>4. /\ pc' \in {"next", "entries"}
      /\ pc' = "entries" <=> namelist' # <<>>
    BY <1>2 DEF Loop
<1>5. TypeOK'
    BY <1>1, <1>2, <1>3, <1>4 DEF TypeOK, Walking
<1>6. Paths' = Paths /\ LinesRead'
    BY <1>1, <1>2, SameLines
<1>7. UnderHeader(Paths', current_dir', namelist')
    <2>. DEFINE h == Len(Paths)
    <2>1. h \in DOMAIN Paths /\ \A j \in (h + 1)..Len(Paths) : FALSE
        <3>1. Paths \in Seq(Path)
            BY <1>1, PathsType DEF TypeOK
        <3>. QED  BY <1>1, <3>1
    <2>. QED  BY <1>1, <1>2, <1>3, <1>6, <2>1 DEF UnderHeader
<1>8. Layout(Paths') /\ Ahead(Paths', current_dir', queue')
    BY <1>1, <1>2, <1>6
<1>9. pc' \in Walking /\ pc' # "scan" /\ pc' # "start" /\ pc' # "rename"
    BY <1>4 DEF Walking
<1>. QED  BY <1>5, <1>6, <1>7, <1>8, <1>9 DEF GInv

\* ... an entry, ...
LEMMA EntryStep ==
    ASSUME GInv, PlainNames, ListEntry
    PROVE  LET p == Join(current_dir, Head(namelist).name)
           IN  /\ TypeOK /\ pc = "entries" /\ namelist # <<>> /\ LinesRead /\ Layout(Paths)
               /\ Ahead(Paths, current_dir, queue)
               /\ UnderHeader(Paths, current_dir, namelist)
               /\ queue \in Seq(Path) /\ namelist \in Seq(Dirent) /\ Paths \in Seq(Path)
               /\ p \in Path /\ PlainDir(p)
               /\ catalog' \in File /\ Paths' = Append(Paths, p) /\ LinesRead'
               /\ \E node \in Lstat(p) :
                    /\ node \in Node
                    /\ catalog'.lines =
                        Append(catalog.lines, print_entry_to_catalog(p, node))
               /\ \E ok \in Outcomes :
                    queue' = IF Head(namelist).isdir /\ ok THEN Append(queue, p) ELSE queue
               /\ namelist' = Tail(namelist) /\ pc' = Loop(namelist')
               /\ UNCHANGED <<fs, edits, current_dir, temp>>
<1>1. /\ TypeOK /\ pc = "entries" /\ namelist # <<>> /\ LinesRead /\ Layout(Paths)
      /\ Ahead(Paths, current_dir, queue)
      /\ UnderHeader(Paths, current_dir, namelist)
    BY DEF GInv, ListEntry, Printed, Walking, TypeOK
<1>. DEFINE p == Join(current_dir, Head(namelist).name)
<1>2. PICK node \in Lstat(p) : print_to_catalog(p, node)
    BY DEF ListEntry
<1>3. \E ok \in Outcomes :
        queue' = IF Head(namelist).isdir /\ ok THEN Append(queue, p) ELSE queue
    <2>1. PICK ok \in Outcomes :
            queue' = IF Head(namelist).isdir THEN insert_queue(p, ok) ELSE queue
        BY DEF ListEntry
    <2>. QED  BY <2>1 DEF insert_queue
<1>4. /\ namelist' = Tail(namelist) /\ pc' = Loop(namelist')
      /\ UNCHANGED <<fs, edits, current_dir, temp>>
    BY DEF ListEntry
<1>5. queue \in Seq(Path) /\ namelist \in Seq(Dirent) /\ Paths \in Seq(Path) /\ fs \in Trees
    BY <1>1, PathsType DEF TypeOK
<1>6. p \in Path /\ PlainDir(p)
    BY <1>1, <1>5, AppendEntry
<1>7. node \in Node /\ catalog \in File /\ PlainPath(p)
    BY <1>1, <1>2, <1>5, <1>6, LstatNode DEF TypeOK, PlainDir
<1>. HIDE DEF p
<1>8. /\ catalog' \in File /\ Paths' = Append(Paths, p) /\ LinesRead'
      /\ catalog'.lines = Append(catalog.lines, print_entry_to_catalog(p, node))
    BY <1>1, <1>2, <1>7, PrintedTo
<1>. QED  BY <1>1, <1>3, <1>4, <1>5, <1>6, <1>7, <1>8 DEF p

LEMMA GInvListEntry ==
    ASSUME GInv, PlainNames, ListEntry PROVE GInv'
<1>. DEFINE p == Join(current_dir, Head(namelist).name)
            Q == Append(Paths, p)
<1>1. /\ TypeOK /\ pc = "entries" /\ namelist # <<>> /\ Layout(Paths)
      /\ Ahead(Paths, current_dir, queue)
      /\ UnderHeader(Paths, current_dir, namelist)
      /\ queue \in Seq(Path) /\ namelist \in Seq(Dirent) /\ Paths \in Seq(Path)
      /\ catalog' \in File /\ Paths' = Q /\ LinesRead'
    BY EntryStep
<1>2. queue' = queue \/ queue' = Append(queue, p)
    BY EntryStep
<1>3. /\ namelist' = Tail(namelist) /\ pc' = Loop(namelist')
      /\ UNCHANGED <<fs, edits, current_dir, temp>>
    BY EntryStep
<1>4. /\ p \in Path /\ Layout(Q)
      /\ Ahead(Q, current_dir, queue) /\ Ahead(Q, current_dir, Append(queue, p))
      /\ UnderHeader(Q, current_dir, Tail(namelist))
    BY <1>1, AppendEntry
<1>. HIDE DEF p, Q
<1>5. queue' \in Seq(Path) /\ namelist' \in Seq(Dirent) /\ Ahead(Q, current_dir', queue')
    <2>1. namelist' \in Seq(Dirent)
        BY <1>1, <1>3
    <2>2. CASE queue' = queue
        BY <1>1, <1>3, <1>4, <2>1, <2>2
    <2>3. CASE queue' = Append(queue, p)
        <3>1. Append(queue, p) \in Seq(Path)
            BY <1>1, <1>4
        <3>. QED  BY <1>3, <1>4, <2>1, <2>3, <3>1
    <2>. QED  BY <1>2, <2>2, <2>3
<1>6. /\ pc' \in {"next", "entries"}
      /\ pc' = "entries" <=> namelist' # <<>>
    BY <1>3 DEF Loop
<1>7. TypeOK'
    BY <1>1, <1>3, <1>5, <1>6 DEF TypeOK, Walking
<1>. QED  BY <1>1, <1>3, <1>4, <1>5, <1>6, <1>7 DEF GInv, Printed, Walking

\* ... the second pass ...
LEMMA GInvPadLines ==
    ASSUME GInv, PlainNames, PadLines PROVE GInv'
<1>1. /\ TypeOK /\ pc = "next" /\ LinesRead /\ Layout(Paths)
    BY DEF GInv, PadLines, Printed, Walking
<1>2. /\ UNCHANGED <<fs, edits, queue, current_dir, namelist, catalog>>
      /\ \/ /\ temp.present /\ pc' = "rename"
            /\ temp' = [temp EXCEPT !.lines = pad_each_line(catalog.lines)]
         \/ pc' = "crashed" /\ temp' = temp
    BY DEF PadLines
<1>3. Paths' = Paths /\ LinesRead'
    BY <1>1, <1>2, SameLines
<1>4. catalog.lines \in Seq(Line) /\ temp \in File
    BY <1>1 DEF TypeOK, File
<1>. DEFINE ms == pad_each_line(catalog.lines)
<1>5. ms \in Seq(Line)
    BY <1>1, <1>4, PaddedLines DEF LinesRead
<1>. HIDE DEF ms
<1>6. CASE pc' = "crashed"
    <2>1. TypeOK'
        BY <1>1, <1>2, <1>6 DEF TypeOK, Walking
    <2>. QED  BY <1>1, <1>3, <1>6, <2>1 DEF GInv, Printed, Walking
<1>7. CASE pc' = "rename"
    <2>1. temp' = [present |-> TRUE, lines |-> ms] /\ temp' \in File
        BY <1>2, <1>4, <1>5, <1>7 DEF File, ms
    <2>2. TypeOK'
        BY <1>1, <1>2, <1>7, <2>1 DEF TypeOK, Walking
    <2>3. catalog' = catalog
        BY <1>2
    <2>. QED  BY <1>1, <1>3, <1>7, <2>1, <2>2, <2>3 DEF GInv, Printed, Walking, ms
<1>. QED  BY <1>2, <1>6, <1>7

\* ... and the file it leaves, whose lines give the same paths, ...
LEMMA RenamedLines ==
    ASSUME GInv, Rename, pc' = "done"
    PROVE  LET ls == catalog.lines
               ms == pad_each_line(catalog.lines)
           IN  /\ catalog'.lines = ms /\ catalog' \in File /\ temp' \in File
               /\ ms \in Seq(Line) /\ DOMAIN ms = DOMAIN ls
               /\ \A k \in DOMAIN ls :
                    /\ ms[k].depth = ls[k].depth
                    /\ ParseEntry(ms[k], <<>>) = ParseEntry(ls[k], <<>>)
                    /\ \E i \in DOMAIN ms[k].text : ms[k].text[i] = Sep
               /\ \A j, k \in DOMAIN ls : LineLen(ms[j]) = LineLen(ms[k])
<1>1. /\ TypeOK /\ pc = "rename" /\ LinesRead
      /\ temp = [present |-> TRUE, lines |-> pad_each_line(catalog.lines)]
    BY DEF GInv, Rename, Printed
<1>2. catalog' = temp /\ temp' = NoFile
    BY DEF Rename
<1>. DEFINE ls == catalog.lines
            ms == pad_each_line(catalog.lines)
<1>3. catalog'.lines = ms /\ catalog' \in File /\ temp' \in File
    <2>. HIDE DEF ms
    <2>1. catalog' = temp /\ temp' = NoFile /\ temp = [present |-> TRUE, lines |-> ms]
        BY <1>1, <1>2 DEF ms
    <2>2. temp \in File /\ NoFile \in File
        BY <1>1 DEF TypeOK, NoFile, File
    <2>. QED  BY <2>1, <2>2
<1>4. ls \in Seq(Line) /\ \A k \in DOMAIN ls : \E i \in DOMAIN ls[k].text : ls[k].text[i] = Sep
    BY <1>1 DEF TypeOK, File, LinesRead
<1>. HIDE DEF ls
<1>. QED  BY <1>3, <1>4, PaddedLines DEF ls

LEMMA RenamePaths ==
    ASSUME GInv, Rename, pc' = "done" PROVE Paths' = Paths
<1>. DEFINE ls == catalog.lines
            ms == pad_each_line(catalog.lines)
<1>1. /\ catalog'.lines = ms /\ DOMAIN ms = DOMAIN ls
      /\ \A k \in DOMAIN ls : PathOf(ms[k]) = PathOf(ls[k])
    BY RenamedLines DEF PathOf
<1>. HIDE DEF ms
<1>. QED  BY <1>1 DEF Paths

LEMMA GInvRename ==
    ASSUME GInv, PlainNames, Rename PROVE GInv'
<1>1. /\ TypeOK /\ pc = "rename" /\ LinesRead /\ Layout(Paths)
      /\ pc' \in {"done", "failed"}
      /\ UNCHANGED <<fs, edits, queue, current_dir, namelist>>
    BY DEF GInv, Rename, Printed
<1>2. CASE pc' = "failed"
    <2>1. UNCHANGED <<catalog, temp>>
        BY <1>2 DEF Rename
    <2>2. TypeOK'
        BY <1>1, <1>2, <2>1 DEF TypeOK, Walking
    <2>. QED  BY <1>2, <2>2 DEF GInv, Printed, Walking
<1>3. CASE pc' = "done"
    <2>. DEFINE ls == catalog.lines
                ms == pad_each_line(catalog.lines)
    <2>1. /\ catalog'.lines = ms /\ catalog' \in File /\ temp' \in File
          /\ DOMAIN ms = DOMAIN ls
          /\ \A k \in DOMAIN ls :
                /\ ms[k].depth = ls[k].depth
                /\ PathOf(ms[k]) = PathOf(ls[k])
                /\ \E i \in DOMAIN ms[k].text : ms[k].text[i] = Sep
        BY <1>3, RenamedLines DEF PathOf
    <2>. HIDE DEF ms
    <2>2. Paths' = Paths
        BY <1>3, RenamePaths
    <2>3. LinesRead'
        BY <1>1, <2>1 DEF LinesRead
    <2>4. TypeOK'
        BY <1>1, <1>3, <2>1 DEF TypeOK, Walking
    <2>. QED  BY <1>1, <1>3, <2>2, <2>3, <2>4 DEF GInv, Printed, Walking
<1>. QED  BY <1>1, <1>2, <1>3

\* ... and what leaves the file alone.
LEMMA GInvOthers ==
    ASSUME GInv, Crash \/ EditTree \/ Stopped \/ UNCHANGED vars PROVE GInv'
<1>1. /\ catalog' = catalog /\ temp' = temp /\ queue' = queue
      /\ current_dir' = current_dir /\ namelist' = namelist
    BY DEF Crash, EditTree, Stopped, vars
<1>2. Paths' = Paths /\ LinesRead' = LinesRead
    BY <1>1, SameLines
<1>3. CASE Crash
    <2>1. pc' = "crashed" /\ pc \in Walking \cup {"rename"} /\ UNCHANGED <<fs, edits>>
        BY <1>3 DEF Crash
    <2>2. TypeOK'
        BY <1>1, <2>1 DEF GInv, TypeOK, Walking
    <2>3. Printed
        BY <2>1 DEF Printed
    <2>. QED  BY <1>1, <1>2, <2>1, <2>2, <2>3 DEF GInv, Walking
<1>4. CASE EditTree
    <2>1. pc' = pc /\ fs' \in Trees /\ edits' = edits + 1 /\ edits < MaxEdits
        BY <1>4 DEF EditTree
    <2>2. TypeOK'
        BY <1>1, <2>1, GeneratorAssumption DEF GInv, TypeOK, Walking
    <2>. QED  BY <1>1, <1>2, <2>1, <2>2 DEF GInv, Printed
<1>5. CASE Stopped \/ UNCHANGED vars
    <2>1. UNCHANGED vars
        BY <1>5 DEF Stopped
    <2>2. TypeOK'
        BY <2>1 DEF GInv, TypeOK, vars
    <2>. QED  BY <1>1, <1>2, <2>1, <2>2 DEF GInv, Printed, vars
<1>. QED  BY <1>3, <1>4, <1>5

LEMMA GInvNext ==
    ASSUME GInv, PlainNames, [Next]_vars PROVE GInv'
<1>1. CASE Generator
    BY <1>1, GInvStart, GInvHeader, GInvScanDir, GInvListEntry, GInvPadLines, GInvRename
       DEF Generator
<1>2. CASE Crash \/ EditTree \/ Stopped \/ UNCHANGED vars
    BY <1>2, GInvOthers
<1>. QED  BY <1>1, <1>2 DEF Next

(***************************************************************************)
(* The variables keep their types, and the walk, the changed trees and the *)
(* failures keep GInv.                                                     *)
(***************************************************************************)
THEOREM GeneratorTypeCorrect ==
    ASSUME PlainNames PROVE Spec => []TypeOK
<1>1. Init => GInv
    BY GInvInit
<1>2. GInv /\ [Next]_vars => GInv'
    BY GInvNext
<1>3. GInv => TypeOK
    BY DEF GInv
<1>. QED  BY <1>1, <1>2, <1>3, PTL DEF Spec

(***************************************************************************)
(* generate_catalog's lines are in the order that find_index and           *)
(* get_directory_contents need, for any trees, however the tree changes    *)
(* during the walk, whatever fails and wherever the program is killed.     *)
(***************************************************************************)
THEOREM LayoutAlwaysKept ==
    ASSUME PlainNames PROVE Spec => []LayoutKept
<1>1. Init => GInv
    BY GInvInit
<1>2. GInv /\ [Next]_vars => GInv'
    BY GInvNext
<1>3. ASSUME GInv PROVE LayoutKept
    <2>. SUFFICES ASSUME Printed PROVE DepthNeverFalls /\ ListingsContiguous
        BY DEF LayoutKept, DepthNeverFalls, ListingsContiguous
    <2>1. LinesRead /\ Layout(Paths) /\ catalog \in File
        BY <1>3 DEF GInv, TypeOK
    <2>2. /\ DOMAIN Paths = DOMAIN catalog.lines /\ Paths \in Seq(Path)
          /\ \A k \in DOMAIN catalog.lines : LinePath(k) = Paths[k]
                                             /\ catalog.lines[k].depth = findDepth(Paths[k])
        BY <2>1, PathsType DEF LinesRead, LinePath, PathOf
    <2>. DEFINE P == Paths
    <2>3. DepthNeverFalls
        BY <2>1, <2>2 DEF DepthNeverFalls, Layout
    <2>4. \A k \in DOMAIN P : IsHeader(k) <=> IsHead(P[k])
        BY <2>2 DEF IsHeader, IsHead
    <2>. HIDE DEF P
    <2>5. DOMAIN P = 1..Len(P) /\ Len(P) \in Nat
        BY <2>2 DEF P
    <2>6. ASSUME NEW k \in DOMAIN P
          PROVE  /\ \A j \in 1..(k - 1) : P[j] # P[k]
                 /\ ~ IsHead(P[k]) =>
                        \E h \in 1..(k - 1) :
                            /\ P[h] = HeaderOf(Parent(P[k]))
                            /\ \A j \in (h + 1)..(k - 1) : ~ IsHead(P[j]) /\ StrLess(P[j], P[k])
        <3>1. \A j \in 1..(k - 1) : j \in DOMAIN P /\ j < k
            BY <2>5
        <3>. QED  BY <2>1, <3>1 DEF Layout, P
    <2>7. ListingsContiguous
        <3>1. \A k \in DOMAIN P : \A j \in 1..(k - 1) : j \in DOMAIN P
            BY <2>5
        <3>2. \A k \in DOMAIN P : LinePath(k) = P[k]
            BY <2>2 DEF P
        <3>3. \A k \in DOMAIN P : \A h \in 1..(k - 1) : \A j \in (h + 1)..(k - 1) : j \in DOMAIN P
            BY <2>5
        <3>4. DOMAIN catalog.lines = DOMAIN P
            BY <2>2 DEF P
        <3>5. ASSUME NEW k \in DOMAIN P
              PROVE  /\ \A j \in 1..(k - 1) : LinePath(j) # LinePath(k)
                     /\ ~IsHeader(k) =>
                        \E h \in 1..(k - 1) :
                            /\ LinePath(h) = HeaderOf(Parent(LinePath(k)))
                            /\ \A j \in (h + 1)..(k - 1) :
                                ~IsHeader(j) /\ StrLess(LinePath(j), LinePath(k))
            <4>1. LinePath(k) = P[k] /\ \A j \in 1..(k - 1) : LinePath(j) = P[j]
                BY <3>1, <3>2
            <4>2. \A j \in 1..(k - 1) : LinePath(j) # LinePath(k)
                BY <2>6, <4>1
            <4>3. ASSUME ~IsHeader(k)
                  PROVE  \E h \in 1..(k - 1) :
                            /\ LinePath(h) = HeaderOf(Parent(LinePath(k)))
                            /\ \A j \in (h + 1)..(k - 1) :
                                ~IsHeader(j) /\ StrLess(LinePath(j), LinePath(k))
                <5>1. PICK h \in 1..(k - 1) :
                            /\ P[h] = HeaderOf(Parent(P[k]))
                            /\ \A j \in (h + 1)..(k - 1) : ~ IsHead(P[j]) /\ StrLess(P[j], P[k])
                    BY <2>4, <2>6, <4>3 DEF P
                <5>2. \A j \in (h + 1)..(k - 1) : j \in DOMAIN P /\ j \in 1..(k - 1)
                    BY <2>5
                <5>3. \A j \in DOMAIN P : IsHeader(j) <=> IsHead(P[j])
                    BY <2>4 DEF P
                <5>. QED  BY <4>1, <5>1, <5>2, <5>3
            <4>. QED  BY <4>2, <4>3
        <3>. QED  BY <3>4, <3>5 DEF ListingsContiguous, HeaderOf
    <2>. QED  BY <2>3, <2>7
<1>. QED  BY <1>1, <1>2, <1>3, PTL DEF Spec

(***************************************************************************)
(* The order of the lines of one depth                                     *)
(***************************************************************************)
Under(p, d) ==
    /\ Len(d) < Len(p) /\ p[Len(d) + 1] = Slash
    /\ \A i \in 1..Len(d) : p[i] = d[i]

\* What is printed starts with its directory and a slash.
LEMMA PrintedUnder ==
    ASSUME NEW p, Printable(p)
    PROVE  Under(p, Parent(p)) /\ p \in Path /\ Parent(p) \in Path
<1>. DEFINE d == Parent(p)
<1>1. p \in Path /\ d \in Path /\ p # <<>> /\ p[1] = Slash
    BY DEF Printable, PlainPath, PlainDir
<1>. HIDE DEF d
<1>2. CASE IsHead(p)
    <2>1. p = Append(d, Slash)
        BY <1>2 DEF Printable, HeaderOf, d
    <2>2. d \in Seq(Byte) /\ Slash \in Byte
        BY <1>1 DEF Path, Byte, Slash
    <2>3. /\ Len(p) = Len(d) + 1 /\ Len(d) \in Nat /\ p[Len(d) + 1] = Slash
          /\ \A i \in 1..Len(d) : p[i] = d[i]
        BY <2>1, <2>2, AppendElements
    <2>. QED  BY <1>1, <2>3 DEF Under, d
<1>3. CASE ~ IsHead(p)
    <2>. DEFINE n == SubSeq(p, Len(d) + 2, Len(p))
    <2>1. n \in Path /\ p = Join(d, n) /\ Len(d) < Len(p)
        BY <1>1, <1>3, ParentSplit DEF IsHead, d
    <2>. HIDE DEF n
    <2>2. p[Len(d) + 1] = Slash /\ \A i \in 1..Len(d) : p[i] = d[i]
        BY <1>1, <2>1, JoinBytes
    <2>. QED  BY <1>1, <2>1, <2>2 DEF Under, d
<1>. QED  BY <1>2, <1>3

\* A directory that is the beginning of another one as deep is a sibling.
LEMMA SamePrefix ==
    ASSUME NEW d \in Path, NEW e \in Path, Len(d) < Len(e),
           \A i \in 1..Len(d) : d[i] = e[i], Slashes(d) = Slashes(e)
    PROVE  Parent(d) = Parent(e) /\ e[Len(d) + 1] # Slash
<1>. DEFINE S == {i \in DOMAIN d : d[i] = Slash}
            T == {i \in DOMAIN e : e[i] = Slash}
            n == Len(d)
<1>1. /\ DOMAIN d = 1..n /\ n \in Nat /\ DOMAIN e = 1..Len(e) /\ Len(e) \in Nat
      /\ d \in Seq(Byte) /\ e \in Seq(Byte)
    BY DEF Path
<1>2. S \subseteq T
    BY <1>1
<1>3. S = T
    <2>1. IsFiniteSet(T) /\ Cardinality(S) = Cardinality(T)
        BY SlashesType DEF Slashes
    <2>. HIDE DEF S, T
    <2>. QED  BY <1>2, <2>1, FS_Subset
<1>4. e[n + 1] # Slash
    <2>. SUFFICES ASSUME e[n + 1] = Slash PROVE FALSE
        OBVIOUS
    <2>1. n + 1 \in T /\ n + 1 \notin S
        BY <1>1
    <2>. QED  BY <1>3, <2>1
<1>5. Parent(d) = Parent(e)
    <2>. DEFINE V == {0} \cup S
                m == Max(V) - 1
    <2>1. Parent(d) = SubSeq(d, 1, m) /\ Parent(e) = SubSeq(e, 1, m)
        BY <1>3 DEF Parent
    <2>2. Max(V) \in Int /\ Max(V) <= n
        <3>1. CASE S = {}
            <4>1. V = {0}
                BY <3>1
            <4>. HIDE DEF V
            <4>2. Max(V) = 0
                BY <4>1 DEF Max
            <4>. QED  BY <1>1, <4>2
        <3>2. CASE S # {}
            <4>1. Max(S) \in S /\ \A y \in S : Max(S) >= y
                BY <1>1, <3>2, MaxOfIndices
            <4>2. S \subseteq 1..n
                BY <1>1
            <4>. HIDE DEF S
            <4>3. /\ Max(S) \in V /\ \A y \in V : Max(S) >= y
                  /\ \A y \in V : y \in Int /\ y <= n
                <5>1. Max(S) \in 1..n /\ n \in Nat
                    BY <1>1, <4>1, <4>2
                <5>. DEFINE x == Max(S)
                <5>. HIDE DEF n, x
                <5>2. x \in V /\ \A y \in S : x >= y
                    BY <4>1 DEF x
                <5>3. x >= 0 /\ 0 <= n /\ 0 \in Int
                    BY <5>1 DEF x
                <5>4. \A y \in V : y = 0 \/ y \in S
                    OBVIOUS
                <5>5. \A y \in S : y \in Int /\ y <= n
                    BY <4>2, <5>1
                <5>. QED  BY <5>2, <5>3, <5>4, <5>5 DEF x
            <4>. HIDE DEF V
            <4>4. Max(V) \in V
                BY <4>3 DEF Max
            <4>. QED  BY <4>3, <4>4
        <3>. QED  BY <3>1, <3>2
    <2>4. m \in Int /\ m <= n
        <3>. HIDE DEF V
        <3>. QED  BY <1>1, <2>2
    <2>. HIDE DEF m
    <2>3. /\ SubSeq(d, 1, m) = [i \in 1..m |-> d[i]]
          /\ SubSeq(e, 1, m) = [i \in 1..m |-> e[i]]
        BY <1>1, <2>4
    <2>5. \A i \in 1..m : d[i] = e[i]
        BY <1>1, <2>4
    <2>. QED  BY <2>1, <2>3, <2>5
<1>. QED  BY <1>4, <1>5

Dirs(f) == {p \in DOMAIN f : f[p].type = "DIR"}
NoLowSibling(f) ==
    \A d, e \in DOMAIN f \ {<<>>} :
        ~ /\ f[d].type = "DIR" /\ f[e].type = "DIR"
          /\ Parent(e) = Parent(d)
          /\ IsStrictPrefix(d, e) /\ e[Len(d) + 1] < Slash

\* Where there are no low siblings, what is in directories of one depth is in
\* the directories' order.
LEMMA SiblingOrder ==
    ASSUME NEW f, \A p \in DOMAIN f : PlainDir(p), NoLowSibling(f),
           NEW d \in Dirs(f), NEW e \in Dirs(f), StrLess(d, e),
           Slashes(d) = Slashes(e),
           NEW p \in Path, Under(p, d), NEW q \in Path, Under(q, e)
    PROVE  StrLess(p, q)
<1>1. /\ PlainDir(d) /\ PlainDir(e) /\ d \in DOMAIN f /\ e \in DOMAIN f
      /\ f[d].type = "DIR" /\ f[e].type = "DIR"
    BY DEF Dirs
<1>2. /\ d \in Path /\ e \in Path
      /\ Len(d) \in Nat /\ Len(e) \in Nat /\ Len(p) \in Nat /\ Len(q) \in Nat
      /\ \A i \in 1..Len(e) : e[i] \in Int
    BY <1>1, PathBytes DEF PlainDir, PlainPath
<1>3. PICK k \in 0..Len(d) : /\ k < Len(e)
                             /\ \A j \in 1..k : d[j] = e[j]
                             /\ k = Len(d) \/ d[k + 1] < e[k + 1]
    BY DEF StrLess
<1>4. k \in 0..Len(p) /\ k < Len(q) /\ \A j \in 1..k : p[j] = q[j]
    <2>1. k \in 0..Len(p) /\ k < Len(q)
        BY <1>2, <1>3 DEF Under
    <2>2. \A j \in 1..k : j \in 1..Len(d) /\ j \in 1..Len(e)
        BY <1>2, <1>3
    <2>. QED  BY <1>3, <2>1, <2>2 DEF Under
<1>5. p[k + 1] < q[k + 1]
    <2>1. CASE k # Len(d)
        <3>1. k + 1 \in 1..Len(d) /\ k + 1 \in 1..Len(e)
            BY <1>2, <1>3, <2>1
        <3>. QED  BY <1>3, <2>1, <3>1 DEF Under
    <2>2. CASE k = Len(d)
        <3>1. k + 1 \in 1..Len(e)
            BY <1>2, <1>3, <2>2
        <3>2. p[k + 1] = Slash /\ q[k + 1] = e[k + 1] /\ e[k + 1] \in Int
            BY <1>2, <2>2, <3>1 DEF Under
        <3>3. Len(d) < Len(e) /\ \A i \in 1..Len(d) : d[i] = e[i]
            BY <1>3, <2>2
        <3>4. Parent(d) = Parent(e) /\ e[Len(d) + 1] # Slash
            BY <1>2, <3>3, SamePrefix
        <3>5. d # <<>> /\ e # <<>>
            <4>1. e # <<>> /\ e[1] = Slash
                BY <1>1, <1>2, <3>3 DEF PlainDir
            <4>2. d # <<>>
                <5>. SUFFICES ASSUME d = <<>> PROVE FALSE
                    OBVIOUS
                <5>1. Len(d) + 1 = 1
                    OBVIOUS
                <5>. QED  BY <3>4, <4>1, <5>1
            <4>. QED  BY <4>1, <4>2
        <3>6. IsStrictPrefix(d, e)
            <4>. DEFINE n == Len(d)
            <4>1. /\ d \in Seq(Byte) /\ e \in Seq(Byte) /\ n \in 0..Len(d) /\ n \in 0..Len(e)
                  /\ n = Len(d)
                BY <1>2, <3>3 DEF Path
            <4>. HIDE DEF n
            <4>2. SubSeq(d, 1, n) = [i \in 1..n |-> d[i]] /\ SubSeq(e, 1, n) = [i \in 1..n |-> e[i]]
                BY <4>1
            <4>3. SubSeq(d, 1, Len(d)) = SubSeq(e, 1, Len(d))
                BY <3>3, <4>1, <4>2
            <4>. QED  BY <1>2, <3>3, <4>3 DEF IsStrictPrefix, IsPrefix
        <3>7. ~ (e[Len(d) + 1] < Slash)
            BY <1>1, <3>4, <3>5, <3>6 DEF NoLowSibling
        <3>. QED  BY <2>2, <3>2, <3>4, <3>7 DEF Slash
    <2>. QED  BY <2>1, <2>2
<1>. QED  BY <1>4, <1>5 DEF StrLess

\* A directory's header is before its entries.
LEMMA HeaderFirst ==
    ASSUME NEW d \in Path, NEW n \in Path, n # <<>>
    PROVE  StrLess(HeaderOf(d), Join(d, n))
<1>. DEFINE h == HeaderOf(d)
            p == Join(d, n)
            k == Len(h)
<1>1. d \in Seq(Byte) /\ Slash \in Byte /\ Len(n) \in Nat /\ Len(n) > 0
    BY DEF Path, Byte, Slash
<1>2. /\ Len(h) = Len(d) + 1 /\ Len(d) \in Nat /\ h[Len(d) + 1] = Slash
      /\ \A i \in 1..Len(d) : h[i] = d[i]
    BY <1>1, AppendElements DEF HeaderOf
<1>3. /\ Len(p) = Len(d) + 1 + Len(n) /\ p[Len(d) + 1] = Slash
      /\ \A i \in 1..Len(d) : p[i] = d[i]
    BY JoinBytes
<1>. HIDE DEF h, p
<1>4. k \in 0..Len(h) /\ k < Len(p) /\ k = Len(h)
    BY <1>1, <1>2, <1>3
<1>5. \A j \in 1..k : h[j] = p[j]
    <2>1. \A j \in 1..k : j \in 1..Len(d) \/ j = Len(d) + 1
        BY <1>2
    <2>. QED  BY <1>2, <1>3, <2>1
<1>. QED  BY <1>4, <1>5 DEF StrLess, h, p

\* Lines of one depth are in order; so are the directories that they are in,
\* the one being listed and those in the queue.
SameDepthOrdered(P) ==
    \A j, k \in DOMAIN P :
        j < k /\ findDepth(P[j]) = findDepth(P[k]) => StrLess(P[j], P[k])
InOrder(P, c, q) ==
    /\ \A k \in DOMAIN P : Slashes(Parent(P[k])) = Slashes(c) =>
            Parent(P[k]) = c \/ StrLess(Parent(P[k]), c)
    /\ \A k \in DOMAIN P, i \in DOMAIN q :
            Slashes(Parent(P[k])) = Slashes(q[i]) => StrLess(Parent(P[k]), q[i])
    /\ \A i, j \in DOMAIN q :
            i < j /\ Slashes(q[i]) = Slashes(q[j]) => StrLess(q[i], q[j])

\* One path more at the end.
LEMMA AppendOrdered ==
    ASSUME NEW P \in Seq(Path), NEW p \in Path, SameDepthOrdered(P),
           \A k \in DOMAIN P : findDepth(P[k]) = findDepth(p) => StrLess(P[k], p)
    PROVE  SameDepthOrdered(Append(P, p))
<1>. DEFINE Q == Append(P, p)
            n == Len(P)
<1>1. /\ n \in Nat /\ DOMAIN P = 1..n /\ DOMAIN Q = 1..(n + 1)
      /\ \A k \in 1..n : Q[k] = P[k]
      /\ Q[n + 1] = p
    BY AppendElements
<1>. HIDE DEF Q, n
<1>2. ASSUME NEW j \in DOMAIN Q, NEW k \in DOMAIN Q, j < k,
             findDepth(Q[j]) = findDepth(Q[k])
      PROVE  StrLess(Q[j], Q[k])
    <2>1. j \in 1..n /\ (k \in 1..n \/ k = n + 1)
        BY <1>1, <1>2
    <2>. QED  BY <1>1, <1>2, <2>1 DEF SameDepthOrdered
<1>. QED  BY <1>2 DEF SameDepthOrdered, Q

\* The next header keeps the order.
LEMMA HeaderInOrder ==
    ASSUME NEW f, \A p \in DOMAIN f : PlainDir(p), NoLowSibling(f),
           NEW P \in Seq(Path), NEW c, NEW q \in Seq(Path), q # <<>>,
           Layout(P), Ahead(P, c, q), SameDepthOrdered(P), InOrder(P, c, q),
           \A k \in DOMAIN P : Parent(P[k]) \in Dirs(f),
           \A i \in DOMAIN q : q[i] \in Dirs(f)
    PROVE  LET d == Head(q)
               Q == Append(P, HeaderOf(d))
           IN  SameDepthOrdered(Q) /\ InOrder(Q, d, Tail(q))
<1>. DEFINE d == Head(q)
            p == HeaderOf(d)
            Q == Append(P, p)
            r == Tail(q)
<1>1. /\ Len(q) \in Nat /\ Len(q) > 0 /\ DOMAIN q = 1..Len(q) /\ d = q[1]
      /\ r \in Seq(Path) /\ Len(r) = Len(q) - 1 /\ DOMAIN r = 1..(Len(q) - 1)
      /\ \A i \in 1..(Len(q) - 1) : r[i] = q[i + 1]
    OBVIOUS
<1>2. /\ 1 \in DOMAIN q
      /\ \A i \in DOMAIN r : i + 1 \in DOMAIN q /\ 1 < i + 1 /\ r[i] = q[i + 1]
      /\ \A i \in DOMAIN r : i \in Int
    BY <1>1
<1>. HIDE DEF d, r
<1>3. PlainDir(d) /\ Slashes(d) \in Nat /\ d \in Dirs(f)
    BY <1>1, <1>2, SlashesNat DEF Ahead
<1>4. Printable(p) /\ Parent(p) = d /\ p \in Path /\ findDepth(p) = Slashes(d) + 1
    BY <1>3, HeaderPrintable DEF Printable, PlainPath
<1>. HIDE DEF p
<1>5. ASSUME NEW k \in DOMAIN P, findDepth(P[k]) = findDepth(p) PROVE StrLess(P[k], p)
    <2>. DEFINE e == Parent(P[k])
    <2>1. Printable(P[k]) /\ PlainDir(e) /\ findDepth(P[k]) = Slashes(e) + 1
        BY DEF Layout, Printable
    <2>2. Slashes(e) \in Nat
        BY <2>1, SlashesNat
    <2>3. Slashes(e) = Slashes(d)
        BY <1>3, <1>4, <1>5, <2>1, <2>2
    <2>4. StrLess(e, d)
        BY <1>1, <1>2, <2>3 DEF InOrder
    <2>5. Under(P[k], e) /\ P[k] \in Path /\ Under(p, d)
        BY <1>4, <2>1, PrintedUnder
    <2>6. e \in Dirs(f)
        OBVIOUS
    <2>. HIDE DEF e
    <2>. QED  BY <1>3, <1>4, <2>3, <2>4, <2>5, <2>6, SiblingOrder
<1>6. SameDepthOrdered(Q)
    BY <1>4, <1>5, AppendOrdered
<1>7. \A k \in DOMAIN Q : (k \in DOMAIN P /\ Q[k] = P[k]) \/ Q[k] = p
    BY <1>4, AppendElements
<1>. HIDE DEF Q
<1>8. ASSUME NEW k \in DOMAIN Q, Slashes(Parent(Q[k])) = Slashes(d)
      PROVE  Parent(Q[k]) = d \/ StrLess(Parent(Q[k]), d)
    BY <1>1, <1>2, <1>4, <1>7, <1>8 DEF InOrder
<1>9. ASSUME NEW k \in DOMAIN Q, NEW i \in DOMAIN r,
             Slashes(Parent(Q[k])) = Slashes(r[i])
      PROVE  StrLess(Parent(Q[k]), r[i])
    <2>. DEFINE j == i + 1
    <2>1. j \in DOMAIN q /\ 1 < j /\ r[i] = q[j]
        BY <1>2
    <2>. HIDE DEF j
    <2>2. CASE k \in DOMAIN P /\ Q[k] = P[k]
        BY <1>9, <2>1, <2>2 DEF InOrder
    <2>3. CASE Q[k] = p
        BY <1>1, <1>2, <1>4, <1>9, <2>1, <2>3 DEF InOrder
    <2>. QED  BY <1>7, <2>2, <2>3
<1>10. ASSUME NEW i \in DOMAIN r, NEW j \in DOMAIN r, i < j, Slashes(r[i]) = Slashes(r[j])
       PROVE  StrLess(r[i], r[j])
    <2>1. i + 1 < j + 1
        BY <1>2, <1>10
    <2>. QED  BY <1>2, <1>10, <2>1 DEF InOrder
<1>11. InOrder(Q, d, r)
    BY <1>8, <1>9, <1>10 DEF InOrder
<1>. QED  BY <1>6, <1>11 DEF Q, p, d, r

\* So does the next entry.
LEMMA EntryInOrder ==
    ASSUME NEW f, \A p \in DOMAIN f : PlainDir(p), NoLowSibling(f),
           NEW P \in Seq(Path), NEW c, NEW q \in Seq(Path),
           NEW names \in Seq(Dirent), names # <<>>,
           Layout(P), Ahead(P, c, q), UnderHeader(P, c, names),
           SameDepthOrdered(P), InOrder(P, c, q),
           \A k \in DOMAIN P : Parent(P[k]) \in Dirs(f), c \in Dirs(f)
    PROVE  LET p == Join(c, Head(names).name)
               Q == Append(P, p)
           IN  SameDepthOrdered(Q) /\ InOrder(Q, c, q) /\ InOrder(Q, c, Append(q, p))
<1>. DEFINE nm == Head(names).name
            p == Join(c, nm)
            Q == Append(P, p)
<1>1. nm = names[1].name /\ 1 \in DOMAIN names
    OBVIOUS
<1>. HIDE DEF nm
<1>2. PlainDir(c) /\ PlainName(nm) /\ Slashes(c) \in Nat /\ c \in Path /\ nm \in Path /\ nm # <<>>
    BY <1>1, SlashesNat DEF Ahead, UnderHeader, PlainDir, PlainName, PlainPath
<1>3. /\ Printable(p) /\ ~ IsHead(p) /\ Parent(p) = c /\ PlainDir(p) /\ p \in Path
      /\ Slashes(p) = Slashes(c) + 1 /\ p # <<>> /\ findDepth(p) = Slashes(c) + 1
    BY <1>2, JoinPrintable DEF Printable, PlainDir, PlainPath
<1>4. PICK h \in DOMAIN P :
            /\ P[h] = HeaderOf(c)
            /\ \A j \in (h + 1)..Len(P) :
                /\ ~ IsHead(P[j])
                /\ \A i \in DOMAIN names : StrLess(P[j], Join(c, names[i].name))
    BY DEF UnderHeader
<1>5. StrLess(HeaderOf(c), p)
    BY <1>2, HeaderFirst
<1>6. \A j \in (h + 1)..Len(P) : StrLess(P[j], p)
    BY <1>1, <1>4
<1>. HIDE DEF p
<1>7. ASSUME NEW k \in DOMAIN P, findDepth(P[k]) = findDepth(p) PROVE StrLess(P[k], p)
    <2>. DEFINE e == Parent(P[k])
    <2>1. Printable(P[k]) /\ PlainDir(e) /\ findDepth(P[k]) = Slashes(e) + 1
        BY DEF Layout, Printable
    <2>2. Slashes(e) \in Nat
        BY <2>1, SlashesNat
    <2>3. Slashes(e) = Slashes(c)
        BY <1>2, <1>3, <1>7, <2>1, <2>2
    <2>4. e = c \/ StrLess(e, c)
        BY <2>3 DEF InOrder
    <2>5. CASE e = c
        <3>1. CASE k = h
            BY <1>4, <1>5, <3>1
        <3>2. CASE k # h
            <4>1. h < k
                BY <1>4, <2>5, <3>2, AfterHeader
            <4>2. k \in (h + 1)..Len(P)
                <5>1. DOMAIN P = 1..Len(P) /\ Len(P) \in Nat
                    OBVIOUS
                <5>. QED  BY <1>4, <4>1, <5>1
            <4>. QED  BY <1>6, <4>2
        <3>. QED  BY <3>1, <3>2
    <2>6. CASE StrLess(e, c)
        <3>1. Under(P[k], e) /\ P[k] \in Path /\ Under(p, c)
            BY <1>3, <2>1, PrintedUnder
        <3>2. e \in Dirs(f)
            OBVIOUS
        <3>. HIDE DEF e
        <3>. QED  BY <1>2, <1>3, <2>3, <2>6, <3>1, <3>2, SiblingOrder
    <2>. QED  BY <2>4, <2>5, <2>6
<1>8. SameDepthOrdered(Q)
    BY <1>3, <1>7, AppendOrdered
<1>9. \A k \in DOMAIN Q : (k \in DOMAIN P /\ Q[k] = P[k]) \/ Q[k] = p
    BY <1>3, AppendElements
<1>. HIDE DEF Q
<1>10. ASSUME NEW k \in DOMAIN Q, Slashes(Parent(Q[k])) = Slashes(c)
       PROVE  Parent(Q[k]) = c \/ StrLess(Parent(Q[k]), c)
    BY <1>3, <1>9, <1>10 DEF InOrder
<1>11. ASSUME NEW k \in DOMAIN Q, NEW i \in DOMAIN q,
             Slashes(Parent(Q[k])) = Slashes(q[i])
      PROVE  StrLess(Parent(Q[k]), q[i])
    <2>1. Parent(P[h]) = c
        BY <1>2, <1>4, HeaderPrintable
    <2>2. CASE k \in DOMAIN P /\ Q[k] = P[k]
        BY <1>11, <2>2 DEF InOrder
    <2>3. CASE Q[k] = p
        BY <1>3, <1>11, <2>1, <2>3 DEF InOrder
    <2>. QED  BY <1>9, <2>2, <2>3
<1>12. InOrder(Q, c, q)
    BY <1>10, <1>11 DEF InOrder
<1>13. InOrder(Q, c, Append(q, p))
    <2>. DEFINE u == Append(q, p)
                m == Len(q)
    <2>1. /\ m \in Nat /\ DOMAIN q = 1..m /\ DOMAIN u = 1..(m + 1)
          /\ \A k \in 1..m : u[k] = q[k]
          /\ u[m + 1] = p
        BY <1>3, AppendElements
    <2>2. \A k \in DOMAIN u : k \in 1..m \/ k = m + 1
        BY <2>1
    <2>. HIDE DEF u, m
    <2>3. \A k \in DOMAIN Q : Slashes(Parent(Q[k])) # Slashes(p)
        <3>. SUFFICES ASSUME NEW k \in DOMAIN Q, Slashes(Parent(Q[k])) = Slashes(p)
                      PROVE  FALSE
            OBVIOUS
        <3>1. CASE Q[k] = p
            BY <1>2, <1>3, <3>1
        <3>2. CASE k \in DOMAIN P /\ Q[k] = P[k]
            <4>1. findDepth(P[k]) <= Slashes(c) + 1 /\ findDepth(P[k]) = Slashes(Parent(P[k])) + 1
                BY <3>2 DEF Ahead, Layout, Printable
            <4>. QED  BY <1>2, <1>3, <3>2, <4>1
        <3>. QED  BY <1>9, <3>1, <3>2
    <2>4. ASSUME NEW k \in DOMAIN Q, NEW i \in DOMAIN u,
                 Slashes(Parent(Q[k])) = Slashes(u[i])
          PROVE  StrLess(Parent(Q[k]), u[i])
        BY <1>11, <2>1, <2>2, <2>3, <2>4
    <2>5. ASSUME NEW i \in DOMAIN u, NEW j \in DOMAIN u, i < j, Slashes(u[i]) = Slashes(u[j])
          PROVE  StrLess(u[i], u[j])
        <3>1. i \in 1..m
            BY <2>1, <2>2, <2>5
        <3>2. CASE j \in 1..m
            BY <2>1, <2>5, <3>1, <3>2 DEF InOrder
        <3>3. CASE j = m + 1
            <4>1. u[i] = q[i] /\ i \in DOMAIN q /\ u[j] = p /\ Slashes(q[i]) = Slashes(p)
                BY <2>1, <2>5, <3>1, <3>3
            <4>2. q[i] # <<>>
                <5>. SUFFICES ASSUME q[i] = <<>> PROVE FALSE
                    OBVIOUS
                <5>1. Slashes(<<>>) = 0
                    BY FS_EmptySet DEF Slashes
                <5>. QED  BY <1>2, <1>3, <4>1, <5>1
            <4>3. PICK k \in DOMAIN P : P[k] = q[i]
                BY <4>1, <4>2 DEF Ahead
            <4>4. PlainDir(q[i]) /\ Printable(q[i])
                BY <4>1, <4>3 DEF Ahead, Layout
            <4>5. findDepth(q[i]) = Slashes(q[i])
                BY <4>4 DEF findDepth, Slashes, Printable
            <4>6. StrLess(P[k], p)
                BY <1>3, <1>7, <4>1, <4>3, <4>5
            <4>. QED  BY <4>1, <4>3, <4>6
        <3>. QED  BY <2>2, <3>2, <3>3
    <2>6. InOrder(Q, c, u)
        BY <1>10, <2>4, <2>5 DEF InOrder
    <2>. QED  BY <2>6 DEF u
<1>. QED  BY <1>8, <1>12, <1>13 DEF Q, p, nm

(***************************************************************************)
(* A tree that does not change                                             *)
(***************************************************************************)
\* What is printed, queued or to be listed is in the tree.
TreeInv ==
    edits = 0 =>
        /\ pc \in Walking => /\ current_dir \in Dirs(fs)
                             /\ \A i \in DOMAIN queue : queue[i] \in Dirs(fs)
        /\ Printed => \A k \in DOMAIN Paths :
                        /\ Parent(Paths[k]) \in Dirs(fs)
                        /\ ~ IsHead(Paths[k]) => Paths[k] \in DOMAIN fs
        /\ pc = "entries" => \A i \in DOMAIN namelist :
                /\ Join(current_dir, namelist[i].name) \in DOMAIN fs
                /\ namelist[i].isdir =
                    (DTypeKnown /\ fs[Join(current_dir, namelist[i].name)].type = "DIR")

OrderInv ==
    edits = 0 /\ NoLowSibling(fs) =>
        /\ Printed => SameDepthOrdered(Paths)
        /\ pc \in Walking => InOrder(Paths, current_dir, queue)

LEMMA TreeDirs ==
    ASSUME fs \in Trees, PlainNames
    PROVE  <<>> \in Dirs(fs) /\ \A p \in DOMAIN fs : PlainDir(p)
<1>1. IsTree(fs) /\ \A q \in DOMAIN fs : PlainPath(q)
    BY GeneratorAssumption DEF PlainNames
<1>. QED  BY <1>1, TreePaths DEF Dirs, IsTree

LEMMA OrderInit ==
    ASSUME Init PROVE TreeInv /\ OrderInv
BY DEF Init, TreeInv, OrderInv, Printed, Walking

LEMMA OrderStart ==
    ASSUME GInv, PlainNames, Start PROVE TreeInv' /\ OrderInv'
<1>1. fs \in Trees /\ current_dir = <<>> /\ queue = <<>> /\ UNCHANGED <<fs, edits, current_dir>>
    BY DEF GInv, Start, TypeOK
<1>2. CASE pc' = "failed"
    BY <1>2 DEF TreeInv, OrderInv, Printed, Walking
<1>3. CASE pc' = "next"
    <2>1. catalog' = Empty /\ queue' \in {<<>>, << <<>> >>}
        BY <1>1, <1>3 DEF Start, insert_queue
    <2>2. Paths' = <<>>
        BY <2>1 DEF Paths, Empty
    <2>3. \A i \in DOMAIN queue' : queue'[i] = <<>> /\ i = 1
        <3>1. CASE queue' = <<>>
            BY <3>1
        <3>2. CASE queue' = << <<>> >>
            BY <3>2
        <3>. QED  BY <2>1, <3>1, <3>2
    <2>4. TreeInv'
        BY <1>1, <1>3, <2>2, <2>3, TreeDirs DEF TreeInv
    <2>5. SameDepthOrdered(<<>>) /\ \A i, j \in DOMAIN queue' : ~ (i < j)
        BY <2>3 DEF SameDepthOrdered
    <2>6. InOrder(Paths', current_dir', queue')
        BY <2>2, <2>5 DEF InOrder
    <2>. QED  BY <2>2, <2>4, <2>5, <2>6 DEF OrderInv
<1>4. pc' = "failed" \/ pc' = "next"
    BY DEF Start
<1>. QED  BY <1>2, <1>3, <1>4

LEMMA OrderHeader ==
    ASSUME GInv, PlainNames, TreeInv, OrderInv, Header PROVE TreeInv' /\ OrderInv'
<1>. DEFINE d == Head(queue)
            q == queue
            P == Paths
            Q == Append(P, HeaderOf(d))
            r == Tail(queue)
<1>1. /\ TypeOK /\ pc = "next" /\ q # <<>> /\ Layout(P) /\ Ahead(P, current_dir, q)
      /\ q \in Seq(Path) /\ d = q[1] /\ 1 \in DOMAIN q
      /\ P \in Seq(Path) /\ PlainDir(d) /\ HeaderOf(d) \in Path
      /\ Paths' = Q /\ current_dir' = d /\ queue' = r /\ pc' = "scan"
      /\ UNCHANGED <<fs, edits, namelist, temp>>
    BY HeaderStep
<1>2. \A i \in DOMAIN r : i + 1 \in DOMAIN q /\ r[i] = q[i + 1]
    BY <1>1
<1>3. \A k \in DOMAIN Q : (k \in DOMAIN P /\ Q[k] = P[k]) \/ Q[k] = HeaderOf(d)
    BY <1>1, AppendElements
<1>4. IsHead(HeaderOf(d)) /\ Parent(HeaderOf(d)) = d
    BY <1>1, HeaderPrintable
<1>. HIDE DEF d, P, Q, r, q
<1>5. ASSUME edits = 0
      PROVE  /\ \A i \in DOMAIN q : q[i] \in Dirs(fs)
             /\ \A k \in DOMAIN P : /\ Parent(P[k]) \in Dirs(fs)
                                    /\ ~ IsHead(P[k]) => P[k] \in DOMAIN fs
    BY <1>1, <1>5 DEF TreeInv, Printed, Walking, q, P
<1>6. TreeInv'
    <2>. SUFFICES ASSUME edits = 0
                  PROVE  /\ d \in Dirs(fs)
                         /\ \A i \in DOMAIN r : r[i] \in Dirs(fs)
                         /\ \A k \in DOMAIN Q : /\ Parent(Q[k]) \in Dirs(fs)
                                                /\ ~ IsHead(Q[k]) => Q[k] \in DOMAIN fs
        BY <1>1 DEF TreeInv
    <2>1. d \in Dirs(fs)
        BY <1>1, <1>5
    <2>. QED  BY <1>2, <1>3, <1>4, <1>5, <2>1
<1>7. OrderInv'
    <2>. SUFFICES ASSUME edits = 0, NoLowSibling(fs)
                  PROVE  SameDepthOrdered(Q) /\ InOrder(Q, d, r)
        BY <1>1 DEF OrderInv
    <2>1. SameDepthOrdered(P) /\ InOrder(P, current_dir, q)
        BY <1>1 DEF OrderInv, Printed, Walking, q, P
    <2>2. \A p \in DOMAIN fs : PlainDir(p)
        BY <1>1, TreeDirs DEF TypeOK
    <2>3. SameDepthOrdered(Append(P, HeaderOf(Head(q)))) /\ InOrder(Append(P, HeaderOf(Head(q))), Head(q), Tail(q))
        BY <1>1, <1>5, <2>1, <2>2, HeaderInOrder
    <2>. QED  BY <2>3 DEF Q, d, r, q
<1>. QED  BY <1>6, <1>7

LEMMA OrderScanDir ==
    ASSUME GInv, PlainNames, TreeInv, OrderInv, ScanDir PROVE TreeInv' /\ OrderInv'
<1>1. /\ fs \in Trees /\ pc = "scan"
      /\ UNCHANGED <<fs, edits, queue, current_dir, catalog, temp>>
      /\ pc' = Loop(namelist')
      /\ namelist' = <<>> \/ (CanScan /\ namelist' = scandir(current_dir))
    BY DEF ScanDir, GInv, TypeOK
<1>2. Paths' = Paths
    BY <1>1, SameLines
<1>3. pc' \in Walking
    BY <1>1 DEF Loop, Walking
<1>4. \A i \in DOMAIN namelist' :
        /\ Join(current_dir, namelist'[i].name) \in DOMAIN fs
        /\ namelist'[i].isdir =
            (DTypeKnown /\ fs[Join(current_dir, namelist'[i].name)].type = "DIR")
    <2>1. CASE namelist' = <<>>
        BY <2>1
    <2>2. CASE CanScan /\ namelist' = scandir(current_dir)
        BY <1>1, <2>2, ScandirNames DEF CanScan
    <2>. QED  BY <1>1, <2>1, <2>2
<1>5. pc \in Walking /\ Printed
    BY <1>1 DEF Walking, Printed
<1>. QED  BY <1>1, <1>2, <1>3, <1>4, <1>5 DEF TreeInv, OrderInv

LEMMA OrderListEntry ==
    ASSUME GInv, PlainNames, TreeInv, OrderInv, ListEntry PROVE TreeInv' /\ OrderInv'
<1>. DEFINE nm == Head(namelist).name
            c == current_dir
            p == Join(c, nm)
            q == queue
            P == Paths
            Q == Append(P, p)
            names == namelist
            r == Tail(names)
<1>1. /\ TypeOK /\ pc = "entries" /\ names # <<>> /\ Layout(P) /\ Ahead(P, c, q)
      /\ UnderHeader(P, c, names)
      /\ q \in Seq(Path) /\ names \in Seq(Dirent) /\ P \in Seq(Path)
      /\ p \in Path /\ PlainDir(p)
      /\ Paths' = Q /\ namelist' = r /\ pc' = Loop(namelist')
      /\ UNCHANGED <<fs, edits, current_dir, temp>>
    BY EntryStep
<1>2. PICK ok \in Outcomes : queue' = IF Head(names).isdir /\ ok THEN Append(q, p) ELSE q
    BY EntryStep
<1>3. /\ Head(names) = names[1] /\ 1 \in DOMAIN names /\ nm = names[1].name
      /\ \A i \in DOMAIN r : i + 1 \in DOMAIN names /\ r[i] = names[i + 1]
    BY <1>1
<1>4. \A k \in DOMAIN Q : (k \in DOMAIN P /\ Q[k] = P[k]) \/ Q[k] = p
    BY <1>1, AppendElements
<1>5. /\ \A i \in DOMAIN Append(q, p) : (i \in DOMAIN q /\ Append(q, p)[i] = q[i])
                                        \/ Append(q, p)[i] = p
    BY <1>1, AppendElements
<1>6. ~ IsHead(p) /\ Parent(p) = c
    <2>1. PlainDir(c) /\ PlainName(nm)
        BY <1>1, <1>3 DEF Ahead, UnderHeader
    <2>. QED  BY <2>1, JoinPrintable
<1>. HIDE DEF c, nm, p, P, Q, r, q, names
<1>7. ASSUME edits = 0
      PROVE  /\ c \in Dirs(fs)
             /\ \A i \in DOMAIN q : q[i] \in Dirs(fs)
             /\ \A k \in DOMAIN P : /\ Parent(P[k]) \in Dirs(fs)
                                    /\ ~ IsHead(P[k]) => P[k] \in DOMAIN fs
             /\ \A i \in DOMAIN names :
                    /\ Join(c, names[i].name) \in DOMAIN fs
                    /\ names[i].isdir =
                        (DTypeKnown /\ fs[Join(c, names[i].name)].type = "DIR")
    BY <1>1, <1>7 DEF TreeInv, Printed, Walking, q, P, c, names
<1>8. pc' \in Walking
    BY <1>1 DEF Loop, Walking
<1>9. TreeInv'
    <2>. SUFFICES ASSUME edits = 0
                  PROVE  /\ c \in Dirs(fs)
                         /\ \A i \in DOMAIN queue' : queue'[i] \in Dirs(fs)
                         /\ \A k \in DOMAIN Q : /\ Parent(Q[k]) \in Dirs(fs)
                                                /\ ~ IsHead(Q[k]) => Q[k] \in DOMAIN fs
                         /\ \A i \in DOMAIN r :
                                /\ Join(c, r[i].name) \in DOMAIN fs
                                /\ r[i].isdir =
                                    (DTypeKnown /\ fs[Join(c, r[i].name)].type = "DIR")
        BY <1>1 DEF TreeInv, c
    <2>1. p \in DOMAIN fs /\ (Head(names).isdir => p \in Dirs(fs))
        BY <1>3, <1>7 DEF p, Dirs
    <2>2. \A i \in DOMAIN queue' : queue'[i] \in Dirs(fs)
        BY <1>2, <1>5, <1>7, <2>1
    <2>3. \A i \in DOMAIN r :
                /\ Join(c, r[i].name) \in DOMAIN fs
                /\ r[i].isdir = (DTypeKnown /\ fs[Join(c, r[i].name)].type = "DIR")
        BY <1>3, <1>7
    <2>. QED  BY <1>4, <1>6, <1>7, <2>1, <2>2, <2>3
<1>10. OrderInv'
    <2>. SUFFICES ASSUME edits = 0, NoLowSibling(fs)
                  PROVE  SameDepthOrdered(Q) /\ InOrder(Q, c, queue')
        BY <1>1 DEF OrderInv, c
    <2>1. SameDepthOrdered(P) /\ InOrder(P, c, q)
        BY <1>1 DEF OrderInv, Printed, Walking, q, P, c
    <2>2. \A x \in DOMAIN fs : PlainDir(x)
        BY <1>1, TreeDirs DEF TypeOK
    <2>3. SameDepthOrdered(Q) /\ InOrder(Q, c, q) /\ InOrder(Q, c, Append(q, p))
        <3>. HIDE DEF Layout, Ahead, UnderHeader, SameDepthOrdered, InOrder
        <3>1. LET p0 == Join(c, Head(names).name)
                  Q0 == Append(P, p0)
              IN  SameDepthOrdered(Q0) /\ InOrder(Q0, c, q) /\ InOrder(Q0, c, Append(q, p0))
            BY <1>1, <1>7, <2>1, <2>2, EntryInOrder
        <3>2. p = Join(c, Head(names).name)
            BY DEF p, nm, names
        <3>. QED  BY <3>1, <3>2 DEF Q
    <2>. QED  BY <1>2, <2>3
<1>. QED  BY <1>9, <1>10

LEMMA OrderOthers ==
    ASSUME GInv, PlainNames, TreeInv, OrderInv,
           PadLines \/ Rename \/ Crash \/ EditTree \/ Stopped \/ UNCHANGED vars
    PROVE  TreeInv' /\ OrderInv'
<1>1. CASE EditTree
    <2>1. edits' = edits + 1 /\ edits \in Nat
        BY <1>1, GeneratorAssumption DEF EditTree, GInv, TypeOK
    <2>2. edits' # 0
        BY <2>1
    <2>. QED  BY <2>2 DEF TreeInv, OrderInv
<1>2. CASE Rename
    <2>1. UNCHANGED <<fs, edits, queue, current_dir, namelist>> /\ pc' \in {"done", "failed"}
          /\ pc = "rename"
        BY <1>2 DEF Rename
    <2>2. CASE pc' = "failed"
        BY <2>2 DEF TreeInv, OrderInv, Printed, Walking
    <2>3. CASE pc' = "done"
        <3>1. Paths' = Paths
            BY <1>2, <2>3, RenamePaths
        <3>. QED  BY <2>1, <2>3, <3>1 DEF TreeInv, OrderInv, Printed, Walking
    <2>. QED  BY <2>1, <2>2, <2>3
<1>3. CASE PadLines \/ Crash \/ Stopped \/ UNCHANGED vars
    <2>1. /\ UNCHANGED <<fs, edits, queue, current_dir, namelist, catalog>>
          /\ \/ pc' = pc
             \/ pc' \in {"rename", "crashed"} /\ pc \in Walking \cup {"rename"}
        BY <1>3 DEF PadLines, Crash, Stopped, vars, Walking
    <2>2. Paths' = Paths
        BY <2>1, SameLines
    <2>3. CASE pc' = pc
        BY <2>1, <2>2, <2>3 DEF TreeInv, OrderInv, Printed
    <2>4. CASE pc' \in {"rename", "crashed"} /\ pc \in Walking \cup {"rename"}
        <3>1. Printed
            BY <2>4 DEF Printed
        <3>. QED  BY <2>1, <2>2, <2>4, <3>1 DEF TreeInv, OrderInv, Walking
    <2>. QED  BY <2>1, <2>3, <2>4
<1>. QED  BY <1>1, <1>2, <1>3

LEMMA OrderNext ==
    ASSUME GInv, PlainNames, TreeInv, OrderInv, [Next]_vars PROVE TreeInv' /\ OrderInv'
<1>1. CASE Start \/ Header \/ ScanDir \/ ListEntry
    BY <1>1, OrderStart, OrderHeader, OrderScanDir, OrderListEntry
<1>2. CASE PadLines \/ Rename \/ Crash \/ EditTree \/ Stopped \/ UNCHANGED vars
    BY <1>2, OrderOthers
<1>. QED  BY <1>1, <1>2 DEF Next, Generator

(***************************************************************************)
(* Of a tree that did not change during the walk, and that has no two      *)
(* directories one of which is named as the other with a byte below '/'    *)
(* after it, the lines of each depth are in the order of strcmp, which is  *)
(* what the last loop of binSearch needs.                                  *)
(***************************************************************************)
THEOREM OrderedWithoutLowSiblings ==
    ASSUME PlainNames PROVE Spec => []OrderedUnlessLowSibling
<1>. DEFINE I == GInv /\ TreeInv /\ OrderInv
<1>1. Init => I
    BY GInvInit, OrderInit
<1>2. I /\ [Next]_vars => I'
    BY GInvNext, OrderNext
<1>3. ASSUME I PROVE OrderedUnlessLowSibling
    <2>. SUFFICES ASSUME Printed, edits = 0,
                         ~ \E d, p \in DOMAIN fs \ {<<>>} : LowSibling(d, p)
                  PROVE  \A j, k \in DOMAIN catalog.lines :
                            j < k /\ catalog.lines[j].depth = catalog.lines[k].depth =>
                                StrLess(LinePath(j), LinePath(k))
        BY DEF OrderedUnlessLowSibling
    <2>1. NoLowSibling(fs)
        BY DEF NoLowSibling, LowSibling
    <2>2. SameDepthOrdered(Paths) /\ LinesRead /\ catalog \in File
        BY <1>3, <2>1 DEF OrderInv, GInv, TypeOK
    <2>3. /\ DOMAIN Paths = DOMAIN catalog.lines
          /\ \A k \in DOMAIN catalog.lines : LinePath(k) = Paths[k]
                                             /\ catalog.lines[k].depth = findDepth(Paths[k])
        BY <2>2, PathsType DEF LinesRead, LinePath, PathOf
    <2>. QED  BY <2>2, <2>3 DEF SameDepthOrdered
<1>. QED  BY <1>1, <1>2, <1>3, PTL DEF Spec

(***************************************************************************)
(* The whole tree                                                          *)
(***************************************************************************)
\* What the daemon makes of a line is what was printed.
LEMMA ParsedLine ==
    ASSUME NEW p, PlainPath(p), NEW node \in Node,
           node.type = "LNK" => \A i \in DOMAIN node.dest : node.dest[i] # Sep
    PROVE  ParseEntry(print_entry_to_catalog(p, node), <<>>) = AsListed(p, node)
<1>. DEFINE l == print_entry_to_catalog(p, node)
            text == l.text
            t == node.dest
            raw == UpTo(text, Sep)
            c == l.c
<1>1. /\ p \in Seq(Byte) /\ t \in Seq(Byte) /\ node.type \in FileType
      /\ Sep \in Byte /\ LinkSep \in Byte /\ Len(p) \in Nat /\ DOMAIN p = 1..Len(p)
      /\ Len(t) \in Nat /\ DOMAIN t = 1..Len(t)
      /\ \A i \in DOMAIN p : p[i] # Sep /\ p[i] # LinkSep
    BY DEF PlainPath, Path, Node, Sep, LinkSep, Byte
<1>2. /\ c = TypeLetter[node.type] /\ l.attr = node.attr /\ l.depth = findDepth(p)
      /\ text = Append(IF c = "l" THEN p \o <<LinkSep>> \o t ELSE p, Sep)
    BY DEF print_entry_to_catalog
<1>3. /\ c = "l" <=> node.type = "LNK"
      /\ LetterType[c] = IF node.type = "DOOR" THEN "REG" ELSE node.type
    BY <1>1, <1>2 DEF TypeLetter, FileType, LetterType
<1>. HIDE DEF t
<1>4. CASE c # "l"
    <2>1. text = Append(p, Sep)
        BY <1>2, <1>4
    <2>. HIDE DEF text
    <2>2. /\ text \in Path /\ Len(p) < Len(text) /\ text[Len(p) + 1] = Sep /\ p \in Path
          /\ \A i \in 1..Len(p) : text[i] = p[i] /\ p[i] # Sep
        BY <1>1, <2>1, AppendElements DEF Path
    <2>3. raw = p
        BY <2>2, UpToOnly
    <2>. HIDE DEF raw
    <2>4. /\ ParseEntry(l, <<>>) = [depth |-> l.depth, path |-> p,
                                    st |-> [type |-> LetterType[c], attr |-> l.attr],
                                    link |-> <<>>]
        BY <1>4, <2>3 DEF ParseEntry, raw, text
    <2>. QED  BY <1>2, <1>3, <1>4, <2>4 DEF AsListed
<1>5. CASE c = "l"
    <2>. DEFINE q == p \o <<LinkSep>> \o t
    <2>1. text = Append(q, Sep)
        BY <1>2, <1>5
    <2>2. /\ text \in Seq(Byte) /\ Len(text) = Len(p) + Len(t) + 2
          /\ \A i \in 1..Len(p) : text[i] = p[i]
          /\ text[Len(p) + 1] = LinkSep
          /\ \A i \in 1..Len(t) : text[Len(p) + 1 + i] = t[i]
          /\ text[Len(p) + Len(t) + 2] = Sep
        BY <1>1, <2>1, TwoFields
    <2>3. q \in Seq(Byte)
        BY <1>1
    <2>. HIDE DEF q, text
    <2>4. /\ Len(text) = Len(q) + 1 /\ Len(q) \in Nat
          /\ \A i \in 1..Len(q) : text[i] = q[i]
          /\ text[Len(q) + 1] = Sep
        BY <1>1, <2>1, <2>3, AppendElements
    <2>5. Len(q) = Len(p) + Len(t) + 1
        BY <1>1, <2>2, <2>4
    <2>6. /\ \A i \in 1..Len(p) : q[i] = p[i]
          /\ q[Len(p) + 1] = LinkSep
          /\ \A i \in 1..Len(t) : q[Len(p) + 1 + i] = t[i]
        <3>1. /\ \A i \in 1..Len(p) : i \in 1..Len(q)
              /\ Len(p) + 1 \in 1..Len(q)
              /\ \A i \in 1..Len(t) : Len(p) + 1 + i \in 1..Len(q)
            BY <1>1, <2>5
        <3>. QED  BY <2>2, <2>4, <3>1
    <2>7. \A i \in 1..Len(q) : q[i] # Sep
        <3>. SUFFICES ASSUME NEW i \in 1..Len(q) PROVE q[i] # Sep
            OBVIOUS
        <3>1. CASE i <= Len(p)
            BY <1>1, <2>6, <3>1
        <3>2. CASE i = Len(p) + 1
            BY <2>6, <3>2 DEF Sep, LinkSep
        <3>3. CASE i > Len(p) + 1
            <4>. DEFINE j == i - (Len(p) + 1)
            <4>1. j \in 1..Len(t) /\ i = Len(p) + 1 + j
                BY <1>1, <2>5, <3>3
            <4>. HIDE DEF j
            <4>2. q[i] = t[j] /\ t[j] # Sep
                BY <1>1, <1>3, <1>5, <2>6, <4>1 DEF t
            <4>. QED  BY <4>2
        <3>. QED  BY <1>1, <2>5, <3>1, <3>2, <3>3
    <2>8. raw = q
        <3>1. text \in Path /\ q \in Path /\ Len(q) < Len(text)
            BY <2>2, <2>3, <2>4 DEF Path
        <3>. QED  BY <2>4, <2>7, <3>1, UpToOnly
    <2>9. UpTo(q, LinkSep) = p
        <3>1. p \in Path /\ q \in Path /\ Len(p) < Len(q)
            BY <1>1, <2>3, <2>5 DEF Path
        <3>2. \A i \in 1..Len(p) : q[i] = p[i] /\ p[i] # LinkSep
            BY <1>1, <2>6
        <3>. QED  BY <2>6, <3>1, <3>2, UpToOnly
    <2>10. p # q
        BY <1>1, <2>5
    <2>11. SubSeq(q, Len(p) + 2, Len(q)) = t
        <3>. DEFINE m == Len(p) + 2
                    n == Len(q)
        <3>1. m \in Nat /\ n \in Nat /\ 1 <= m /\ n - m + 1 = Len(t)
            BY <1>1, <2>5
        <3>2. m + 0 = Len(p) + 2 /\ n = Len(q)
            BY <1>1
        <3>. HIDE DEF m, n
        <3>3. SubSeq(q, m, n) = [i \in 1..(n - m + 1) |-> q[m + i - 1]]
            BY <2>3, <3>1
        <3>4. \A i \in 1..Len(t) : m + i - 1 = Len(p) + 1 + i
            BY <1>1, <3>1, <3>2
        <3>5. SubSeq(q, m, n) = [i \in 1..Len(t) |-> t[i]]
            BY <2>6, <3>1, <3>3, <3>4
        <3>6. t = [i \in 1..Len(t) |-> t[i]]
            BY <1>1
        <3>. QED  BY <3>5, <3>6 DEF m, n
    <2>. HIDE DEF raw
    <2>12. ParseEntry(l, <<>>) = [depth |-> l.depth, path |-> p,
                                  st |-> [type |-> LetterType[c], attr |-> l.attr],
                                  link |-> t]
        BY <1>5, <2>8, <2>9, <2>10, <2>11 DEF ParseEntry, raw, text
    <2>. QED  BY <1>2, <1>3, <1>5, <2>12 DEF AsListed, t
<1>. QED  BY <1>4, <1>5

\* The node that a printed path is about.
NodeOf(p) == IF IsHead(p) THEN Parent(p) ELSE p
Has(P, p) == \E k \in DOMAIN P : P[k] = p
InDir(d) == {p \in DOMAIN fs \ {<<>>} : Parent(p) = d}

\* Every directory that was printed is queued or was taken from the queue;
\* all that is in a directory that was taken is printed or still to be listed.
CompleteInv ==
    edits = 0 =>
        /\ Printed => \A k \in DOMAIN Paths :
                ParseEntry(catalog.lines[k], <<>>)
                    = AsListed(Paths[k], fs[NodeOf(Paths[k])])
        /\ pc \in Walking =>
            /\ temp.present
            /\ \A d \in Dirs(fs) : d = <<>> \/ Has(Paths, d) =>
                    Has(queue, d) \/ Has(Paths, HeaderOf(d))
            /\ \A d \in Dirs(fs) : Has(Paths, HeaderOf(d)) =>
                    \/ pc \in {"scan", "entries"} /\ d = current_dir
                    \/ \A p \in InDir(d) : Has(Paths, p)
        /\ pc = "entries" => \A p \in InDir(current_dir) :
                \/ Has(Paths, p)
                \/ \E i \in DOMAIN namelist : p = Join(current_dir, namelist[i].name)
        /\ pc \in {"rename", "done"} =>
            /\ \A p \in DOMAIN fs \ {<<>>} : Has(Paths, p)
            /\ \A d \in Dirs(fs) : Has(Paths, HeaderOf(d))
        /\ pc = "done" => \A j, k \in DOMAIN catalog.lines :
                LineLen(catalog.lines[j]) = LineLen(catalog.lines[k])

\* A line more, of a node that is in the tree.
LEMMA AppendParsed ==
    ASSUME fs \in Trees, PlainNames, PlainLinks, catalog \in File,
           NEW p, Printable(p), NodeOf(p) \in DOMAIN fs,
           \A k \in DOMAIN Paths :
                ParseEntry(catalog.lines[k], <<>>)
                    = AsListed(Paths[k], fs[NodeOf(Paths[k])]),
           Paths' = Append(Paths, p), UNCHANGED fs,
           catalog'.lines =
                Append(catalog.lines, print_entry_to_catalog(p, fs[NodeOf(p)]))
    PROVE  \A k \in DOMAIN Paths' :
                ParseEntry(catalog'.lines[k], <<>>)
                    = AsListed(Paths'[k], fs'[NodeOf(Paths'[k])])
<1>. DEFINE node == fs[NodeOf(p)]
            l == print_entry_to_catalog(p, node)
            ls == catalog.lines
            ms == Append(ls, l)
            P == Paths
            Q == Append(P, p)
            n == Len(P)
<1>1. PlainPath(p) /\ p \in Path
    BY DEF Printable, PlainPath
<1>2. node \in Node /\ (node.type = "LNK" => \A i \in DOMAIN node.dest : node.dest[i] # Sep)
    BY GeneratorAssumption DEF IsTree, PlainLinks
<1>3. P \in Seq(Path) /\ DOMAIN P = DOMAIN ls /\ ls \in Seq(Line) /\ Len(P) = Len(ls)
    BY PathsType
<1>4. l \in Line
    BY <1>1, <1>2, PrintedLine
<1>5. ParseEntry(l, <<>>) = AsListed(p, node)
    BY <1>1, <1>2, ParsedLine
<1>6. catalog'.lines = ms /\ Paths' = Q /\ fs' = fs
    OBVIOUS
<1>7. \A k \in DOMAIN P : ParseEntry(ls[k], <<>>) = AsListed(P[k], fs[NodeOf(P[k])])
    OBVIOUS
<1>. HIDE DEF P, ls, l
<1>8. /\ n \in Nat /\ DOMAIN P = 1..n /\ DOMAIN Q = 1..(n + 1)
      /\ \A k \in 1..n : Q[k] = P[k]
      /\ Q[n + 1] = p
    BY <1>1, <1>3, AppendElements
<1>9. (\A k \in 1..n : ms[k] = ls[k]) /\ ms[n + 1] = l
    BY <1>3, <1>4, AppendElements
<1>. HIDE DEF Q, ms, n, node
<1>10. ASSUME NEW k \in DOMAIN Q
       PROVE  ParseEntry(ms[k], <<>>) = AsListed(Q[k], fs[NodeOf(Q[k])])
    <2>1. CASE k = n + 1
        BY <1>5, <1>8, <1>9, <2>1 DEF node
    <2>2. CASE k \in 1..n
        BY <1>7, <1>8, <1>9, <2>2
    <2>. QED  BY <1>8, <2>1, <2>2
<1>. QED  BY <1>6, <1>10

\* What is printed stays printed.
LEMMA HasAppend ==
    ASSUME NEW P \in Seq(Path), NEW p \in Path
    PROVE  \A q : Has(Append(P, p), q) <=> Has(P, q) \/ q = p
<1>1. /\ Len(P) \in Nat /\ DOMAIN P = 1..Len(P)
      /\ DOMAIN Append(P, p) = 1..(Len(P) + 1)
      /\ \A i \in 1..Len(P) : Append(P, p)[i] = P[i]
      /\ Append(P, p)[Len(P) + 1] = p
    BY AppendElements
<1>. DEFINE n == Len(P)
            Q == Append(P, p)
<1>2. n \in Nat
    BY <1>1
<1>. HIDE DEF n, Q
<1>3. /\ DOMAIN P = 1..n /\ DOMAIN Q = 1..(n + 1)
      /\ \A i \in 1..n : Q[i] = P[i]
      /\ Q[n + 1] = p
    BY <1>1 DEF n, Q
<1>4. \A k \in 1..(n + 1) : k \in 1..n \/ k = n + 1
    BY <1>2
<1>5. n + 1 \in 1..(n + 1) /\ \A k \in 1..n : k \in 1..(n + 1)
    BY <1>2
<1>. QED  BY <1>3, <1>4, <1>5 DEF Has, Q

LEMMA CompleteStart ==
    ASSUME GInv, PlainNames, ~ MayFail, Start PROVE CompleteInv'
<1>1. fs \in Trees /\ current_dir = <<>> /\ queue = <<>> /\ UNCHANGED <<fs, edits, current_dir>>
    BY DEF GInv, Start, TypeOK
<1>2. pc' = "next" /\ catalog' = Empty /\ temp' = Empty /\ queue' = << <<>> >>
    BY <1>1 DEF Start, insert_queue, Outcomes
<1>3. Paths' = <<>> /\ temp'.present
    BY <1>2 DEF Paths, Empty
<1>4. Has(queue', <<>>)
    BY <1>2 DEF Has
<1>5. \A p : ~ Has(<<>>, p)
    BY DEF Has
<1>. QED  BY <1>2, <1>3, <1>4, <1>5 DEF CompleteInv, Walking

LEMMA CompleteHeader ==
    ASSUME GInv, PlainNames, PlainLinks, TreeInv, CompleteInv, Header
    PROVE  CompleteInv'
<1>. DEFINE d == Head(queue)
            q == queue
            P == Paths
            Q == Append(P, HeaderOf(d))
            r == Tail(queue)
<1>1. /\ TypeOK /\ pc = "next" /\ q # <<>> /\ Layout(P) /\ Ahead(P, current_dir, q)
      /\ q \in Seq(Path) /\ d = q[1] /\ 1 \in DOMAIN q /\ d \in Path
      /\ P \in Seq(Path) /\ PlainDir(d) /\ HeaderOf(d) \in Path
      /\ Paths' = Q /\ current_dir' = d /\ queue' = r /\ pc' = "scan"
      /\ UNCHANGED <<fs, edits, namelist, temp>>
    BY HeaderStep
<1>2. PICK node \in Lstat(d) :
        catalog'.lines = Append(catalog.lines, print_entry_to_catalog(HeaderOf(d), node))
    BY HeaderStep
<1>3. Printable(HeaderOf(d)) /\ IsHead(HeaderOf(d)) /\ Parent(HeaderOf(d)) = d
    BY <1>1, HeaderPrintable
<1>4. \A x : Has(Q, x) <=> Has(P, x) \/ x = HeaderOf(d)
    BY <1>1, HasAppend
<1>5. \A x : Has(q, x) => x = d \/ Has(r, x)
    <2>. SUFFICES ASSUME NEW i \in DOMAIN q, q[i] # d PROVE Has(r, q[i])
        BY DEF Has
    <2>1. /\ Len(q) \in Nat /\ DOMAIN q = 1..Len(q)
          /\ DOMAIN r = 1..(Len(q) - 1)
          /\ \A j \in 1..(Len(q) - 1) : r[j] = q[j + 1]
        BY <1>1
    <2>. HIDE DEF r, q, d
    <2>. DEFINE j == i - 1
    <2>2. j \in 1..(Len(q) - 1) /\ j + 1 = i
        BY <1>1, <2>1
    <2>. HIDE DEF j
    <2>. QED  BY <2>1, <2>2 DEF Has
<1>. HIDE DEF P, Q, q, r, d
<1>. SUFFICES ASSUME edits = 0 PROVE CompleteInv'
    BY <1>1 DEF CompleteInv
<1>6. d \in Dirs(fs) /\ d \in DOMAIN fs
    BY <1>1 DEF TreeInv, Walking, Dirs, q
<1>7. /\ temp.present
      /\ \A x \in Dirs(fs) : x = <<>> \/ Has(P, x) => Has(q, x) \/ Has(P, HeaderOf(x))
      /\ \A x \in Dirs(fs) : Has(P, HeaderOf(x)) => \A p \in InDir(x) : Has(P, p)
    BY <1>1 DEF CompleteInv, Walking, P, q
<1>8. \A k \in DOMAIN Paths' :
        ParseEntry(catalog'.lines[k], <<>>) = AsListed(Paths'[k], fs'[NodeOf(Paths'[k])])
    <2>1. NodeOf(HeaderOf(d)) = d /\ node = fs[d]
        BY <1>2, <1>3, <1>6 DEF NodeOf, Lstat
    <2>2. \A k \in DOMAIN Paths :
            ParseEntry(catalog.lines[k], <<>>) = AsListed(Paths[k], fs[NodeOf(Paths[k])])
        BY <1>1 DEF CompleteInv, Printed, Walking
    <2>3. fs \in Trees /\ catalog \in File
        BY <1>1 DEF TypeOK
    <2>4. Paths' = Append(Paths, HeaderOf(d)) /\ fs' = fs
        BY <1>1 DEF Q, P
    <2>. QED  BY <1>2, <1>3, <1>6, <2>1, <2>2, <2>3, <2>4, AppendParsed
<1>9. \A x : InDir(x)' = InDir(x)
    BY <1>1 DEF InDir
<1>10. \A x \in Dirs(fs) : x = <<>> \/ Has(Q, x) => Has(r, x) \/ Has(Q, HeaderOf(x))
    <2>. SUFFICES ASSUME NEW x \in Dirs(fs), x = <<>> \/ Has(Q, x)
                  PROVE  Has(r, x) \/ Has(Q, HeaderOf(x))
        OBVIOUS
    <2>1. x # HeaderOf(d) \/ x = <<>>
        <3>1. x = <<>> \/ ~ IsHead(x)
            <4>1. fs \in Trees
                BY <1>1 DEF TypeOK
            <4>. QED  BY <4>1, GeneratorAssumption DEF IsTree, Dirs, IsHead
        <3>. QED  BY <1>3, <3>1
    <2>. QED  BY <1>4, <1>5, <1>7, <2>1
<1>11. \A x \in Dirs(fs) : Has(Q, HeaderOf(x)) => x = d \/ \A p \in InDir(x) : Has(Q, p)
    <2>. SUFFICES ASSUME NEW x \in Dirs(fs), Has(Q, HeaderOf(x)), x # d
                  PROVE  \A p \in InDir(x) : Has(Q, p)
        OBVIOUS
    <2>1. PlainDir(x)
        BY <1>1, TreeDirs DEF TypeOK, Dirs
    <2>2. HeaderOf(x) # HeaderOf(d)
        BY <1>3, <2>1, HeaderPrintable
    <2>. QED  BY <1>4, <1>7, <2>2
<1>. QED  BY <1>1, <1>7, <1>8, <1>9, <1>10, <1>11 DEF CompleteInv, Walking

LEMMA CompleteScanDir ==
    ASSUME GInv, PlainNames, TreeInv, CompleteInv, ~ MayFail, ScanDir
    PROVE  CompleteInv'
<1>1. /\ fs \in Trees /\ pc = "scan" /\ UNCHANGED <<fs, edits, queue, current_dir, catalog, temp>>
      /\ pc' = Loop(namelist')
      /\ CanScan => namelist' = scandir(current_dir)
    BY DEF ScanDir, GInv, TypeOK, Outcomes
<1>. SUFFICES ASSUME edits = 0 PROVE CompleteInv'
    BY <1>1 DEF CompleteInv
<1>2. Paths' = Paths
    BY <1>1, SameLines
<1>3. current_dir \in DOMAIN fs /\ fs[current_dir].type = "DIR"
    BY <1>1 DEF TreeInv, Walking, Dirs
<1>4. \A p \in InDir(current_dir) : \E i \in DOMAIN namelist' : p = Join(current_dir, namelist'[i].name)
    BY <1>1, <1>3, ScandirNames DEF CanScan, InDir
<1>5. \A d : InDir(d)' = InDir(d)
    BY <1>1 DEF InDir
<1>6. pc \in Walking /\ Printed
    BY <1>1 DEF Walking, Printed
<1>7. CASE namelist' = <<>>
    <2>1. pc' = "next"
        BY <1>1, <1>7 DEF Loop
    <2>2. \A p \in InDir(current_dir) : FALSE
        BY <1>4, <1>7
    <2>. QED  BY <1>1, <1>2, <1>5, <1>6, <2>1, <2>2 DEF CompleteInv, Walking
<1>8. CASE namelist' # <<>>
    <2>1. pc' = "entries"
        BY <1>1, <1>8 DEF Loop
    <2>. QED  BY <1>1, <1>2, <1>4, <1>5, <1>6, <2>1 DEF CompleteInv, Walking
<1>. QED  BY <1>7, <1>8

LEMMA CompleteListEntry ==
    ASSUME GInv, PlainNames, PlainLinks, DTypeKnown, ~ MayFail, TreeInv, CompleteInv,
           ListEntry
    PROVE  CompleteInv'
<1>. DEFINE nm == Head(namelist).name
            c == current_dir
            p == Join(c, nm)
            q == queue
            P == Paths
            Q == Append(P, p)
            names == namelist
            r == Tail(names)
<1>1. /\ TypeOK /\ pc = "entries" /\ names # <<>> /\ Layout(P) /\ Ahead(P, c, q)
      /\ UnderHeader(P, c, names)
      /\ q \in Seq(Path) /\ names \in Seq(Dirent) /\ P \in Seq(Path)
      /\ p \in Path /\ PlainDir(p)
      /\ Paths' = Q /\ namelist' = r /\ pc' = Loop(namelist')
      /\ UNCHANGED <<fs, edits, current_dir, temp>>
    BY EntryStep
<1>2. queue' = IF Head(names).isdir THEN Append(q, p) ELSE q
    BY EntryStep DEF Outcomes
<1>3. PICK node \in Lstat(p) :
        catalog'.lines = Append(catalog.lines, print_entry_to_catalog(p, node))
    BY EntryStep
<1>4. /\ Head(names) = names[1] /\ 1 \in DOMAIN names /\ nm = names[1].name
    BY <1>1
<1>5. \A i \in DOMAIN names : i = 1 \/ (i - 1 \in DOMAIN r /\ r[i - 1] = names[i])
    <2>1. /\ Len(names) \in Nat /\ DOMAIN names = 1..Len(names)
          /\ DOMAIN r = 1..(Len(names) - 1)
          /\ \A j \in 1..(Len(names) - 1) : r[j] = names[j + 1]
        BY <1>1
    <2>. HIDE DEF r, names
    <2>2. \A i \in 2..Len(names) : i - 1 \in 1..(Len(names) - 1) /\ (i - 1) + 1 = i
        BY <2>1
    <2>. QED  BY <2>1, <2>2
<1>6. /\ \A x : Has(Q, x) <=> Has(P, x) \/ x = p
      /\ \A x : Has(Append(q, p), x) <=> Has(q, x) \/ x = p
    BY <1>1, HasAppend
<1>7. /\ ~ IsHead(p) /\ Printable(p)
    <2>1. PlainDir(c) /\ PlainName(nm)
        BY <1>1, <1>4 DEF Ahead, UnderHeader
    <2>. QED  BY <2>1, JoinPrintable
<1>. HIDE DEF c, nm, p, P, Q, r, q, names
<1>. SUFFICES ASSUME edits = 0 PROVE CompleteInv'
    BY <1>1 DEF CompleteInv
<1>8. p \in DOMAIN fs /\ Head(names).isdir = (fs[p].type = "DIR")
    BY <1>1, <1>4 DEF TreeInv, c, names, p, nm
<1>9. /\ temp.present
      /\ \A x \in Dirs(fs) : x = <<>> \/ Has(P, x) => Has(q, x) \/ Has(P, HeaderOf(x))
      /\ \A x \in Dirs(fs) : Has(P, HeaderOf(x)) => x = c \/ \A y \in InDir(x) : Has(P, y)
      /\ \A y \in InDir(c) : Has(P, y) \/ \E i \in DOMAIN names : y = Join(c, names[i].name)
    BY <1>1 DEF CompleteInv, Walking, P, q, c, names
<1>10. \A k \in DOMAIN Paths' :
        ParseEntry(catalog'.lines[k], <<>>) = AsListed(Paths'[k], fs'[NodeOf(Paths'[k])])
    <2>1. NodeOf(p) = p /\ node = fs[p]
        BY <1>3, <1>7, <1>8 DEF NodeOf, Lstat
    <2>2. \A k \in DOMAIN Paths :
            ParseEntry(catalog.lines[k], <<>>) = AsListed(Paths[k], fs[NodeOf(Paths[k])])
        BY <1>1 DEF CompleteInv, Printed, Walking
    <2>3. fs \in Trees /\ catalog \in File
        BY <1>1 DEF TypeOK
    <2>4. Paths' = Append(Paths, p) /\ fs' = fs
        BY <1>1 DEF Q, P
    <2>. QED  BY <1>3, <1>7, <1>8, <2>1, <2>2, <2>3, <2>4, AppendParsed
<1>11. \A x : InDir(x)' = InDir(x)
    BY <1>1 DEF InDir
<1>12. \A x \in Dirs(fs) : x = <<>> \/ Has(Q, x) => Has(queue', x) \/ Has(Q, HeaderOf(x))
    <2>1. p \in Dirs(fs) => Has(queue', p)
        BY <1>2, <1>6, <1>8 DEF Dirs
    <2>2. \A x : Has(q, x) => Has(queue', x)
        BY <1>2, <1>6
    <2>. QED  BY <1>6, <1>9, <2>1, <2>2
<1>13. \A x \in Dirs(fs) : Has(Q, HeaderOf(x)) => x = c \/ \A y \in InDir(x) : Has(Q, y)
    <2>. SUFFICES ASSUME NEW x \in Dirs(fs), Has(Q, HeaderOf(x)), x # c
                  PROVE  \A y \in InDir(x) : Has(Q, y)
        OBVIOUS
    <2>1. PlainDir(x)
        BY <1>1, TreeDirs DEF TypeOK, Dirs
    <2>2. HeaderOf(x) # p
        BY <1>7, <2>1, HeaderPrintable
    <2>. QED  BY <1>6, <1>9, <2>2
<1>14. \A y \in InDir(c) : Has(Q, y) \/ \E i \in DOMAIN r : y = Join(c, r[i].name)
    <2>. SUFFICES ASSUME NEW y \in InDir(c), ~ Has(Q, y)
                  PROVE  \E i \in DOMAIN r : y = Join(c, r[i].name)
        OBVIOUS
    <2>1. PICK i \in DOMAIN names : y = Join(c, names[i].name)
        BY <1>6, <1>9
    <2>2. i # 1
        BY <1>4, <1>6, <2>1 DEF p
    <2>. QED  BY <1>5, <2>1, <2>2
<1>15. CASE r = <<>>
    <2>1. pc' = "next"
        BY <1>1, <1>15 DEF Loop
    <2>2. \A y \in InDir(c) : Has(Q, y)
        BY <1>14, <1>15
    <2>3. \A x \in Dirs(fs) : Has(Q, HeaderOf(x)) => \A y \in InDir(x) : Has(Q, y)
        BY <1>13, <2>2
    <2>. QED  BY <1>1, <1>9, <1>10, <1>11, <1>12, <2>1, <2>3 DEF CompleteInv, Walking
<1>16. CASE r # <<>>
    <2>1. pc' = "entries" /\ current_dir' = c
        BY <1>1, <1>16 DEF Loop, c
    <2>. QED  BY <1>1, <1>9, <1>10, <1>11, <1>12, <1>13, <1>14, <2>1 DEF CompleteInv, Walking
<1>. QED  BY <1>15, <1>16

\* With nothing left in the queue everything is printed: the shortest path
\* that is not would be in a directory that was taken.
LEMMA AllPrinted ==
    ASSUME fs \in Trees, PlainNames, NEW P,
           \A d \in Dirs(fs) : d = <<>> \/ Has(P, d) => Has(P, HeaderOf(d)),
           \A d \in Dirs(fs) : Has(P, HeaderOf(d)) => \A p \in InDir(d) : Has(P, p)
    PROVE  /\ \A p \in DOMAIN fs \ {<<>>} : Has(P, p)
           /\ \A d \in Dirs(fs) : Has(P, HeaderOf(d))
<1>. DEFINE Missing == {p \in DOMAIN fs \ {<<>>} : ~ Has(P, p)}
            lens == {Len(p) : p \in Missing}
<1>1. IsTree(fs) /\ \A q \in DOMAIN fs : PlainPath(q)
    BY GeneratorAssumption DEF PlainNames
<1>2. \A p \in DOMAIN fs \ {<<>>} : /\ p \in Path /\ Len(p) \in Nat /\ p[1] = Slash
                                    /\ p[Len(p)] # Slash /\ Parent(p) \in Dirs(fs)
    <2>. SUFFICES ASSUME NEW p \in DOMAIN fs \ {<<>>}
                  PROVE  /\ p \in Path /\ Len(p) \in Nat /\ p[1] = Slash
                         /\ p[Len(p)] # Slash /\ Parent(p) \in Dirs(fs)
        OBVIOUS
    <2>1. p \in Path /\ findDepth(p) > 0 /\ p[Len(p)] # Slash /\ Parent(p) \in Dirs(fs)
        BY <1>1 DEF IsTree, Dirs
    <2>2. p[1] = Slash
        BY <2>1 DEF findDepth
    <2>. QED  BY <2>1, <2>2, PathBytes
<1>3. Missing = {}
    <2>. SUFFICES ASSUME Missing # {} PROVE FALSE
        OBVIOUS
    <2>1. lens # {} /\ lens \subseteq Nat
        BY <1>2
    <2>2. Min(lens) \in lens /\ \A y \in lens : Min(lens) <= y
        BY <2>1, MinOfNats
    <2>3. PICK p \in Missing : Len(p) = Min(lens)
        BY <2>2
    <2>4. \A y \in Missing : Len(p) <= Len(y)
        BY <2>2, <2>3
    <2>5. p \in DOMAIN fs \ {<<>>} /\ ~ Has(P, p)
        OBVIOUS
    <2>. DEFINE d == Parent(p)
    <2>6. d \in Dirs(fs) /\ d \in DOMAIN fs
        BY <1>2, <2>5 DEF Dirs
    <2>7. Len(d) < Len(p) /\ Len(p) \in Nat /\ d \in Path
        BY <1>2, <2>5, ParentSplit
    <2>8. Len(d) \in Nat
        BY <2>7, PathBytes
    <2>9. d = <<>> \/ Has(P, d)
        <3>. SUFFICES ASSUME d # <<>>, ~ Has(P, d) PROVE FALSE
            OBVIOUS
        <3>1. d \in Missing
            BY <2>6
        <3>. HIDE DEF d, Missing
        <3>. QED  BY <2>4, <2>7, <2>8, <3>1
    <2>10. p \in InDir(d)
        BY <2>5 DEF InDir
    <2>. QED  BY <2>5, <2>6, <2>9, <2>10
<1>4. \A p \in DOMAIN fs \ {<<>>} : Has(P, p)
    BY <1>3
<1>5. \A d \in Dirs(fs) : Has(P, HeaderOf(d))
    BY <1>4 DEF Dirs
<1>. QED  BY <1>4, <1>5

LEMMA CompletePadLines ==
    ASSUME GInv, PlainNames, CompleteInv, PadLines
    PROVE  CompleteInv'
<1>1. /\ fs \in Trees /\ pc = "next" /\ queue = <<>>
      /\ UNCHANGED <<fs, edits, queue, current_dir, namelist, catalog>>
      /\ \/ temp.present /\ pc' = "rename"
         \/ ~ temp.present /\ pc' = "crashed"
    BY DEF PadLines, GInv, TypeOK
<1>. SUFFICES ASSUME edits = 0 PROVE CompleteInv'
    BY <1>1 DEF CompleteInv
<1>2. Paths' = Paths
    BY <1>1, SameLines
<1>3. /\ temp.present
      /\ \A k \in DOMAIN Paths :
            ParseEntry(catalog.lines[k], <<>>) = AsListed(Paths[k], fs[NodeOf(Paths[k])])
      /\ \A x \in Dirs(fs) : x = <<>> \/ Has(Paths, x) =>
            Has(queue, x) \/ Has(Paths, HeaderOf(x))
      /\ \A x \in Dirs(fs) : Has(Paths, HeaderOf(x)) => \A y \in InDir(x) : Has(Paths, y)
    BY <1>1 DEF CompleteInv, Walking, Printed
<1>4. \A x : ~ Has(queue, x)
    BY <1>1 DEF Has
<1>5. /\ \A p \in DOMAIN fs \ {<<>>} : Has(Paths, p)
      /\ \A d \in Dirs(fs) : Has(Paths, HeaderOf(d))
    BY <1>1, <1>3, <1>4, AllPrinted
<1>. QED  BY <1>1, <1>2, <1>3, <1>5 DEF CompleteInv, Walking

LEMMA CompleteRename ==
    ASSUME GInv, PlainNames, CompleteInv, ~ MayFail, Rename
    PROVE  CompleteInv'
<1>1. pc = "rename" /\ pc' = "done" /\ UNCHANGED <<fs, edits>> /\ catalog \in File
    BY DEF Rename, Outcomes, GInv, TypeOK
<1>. SUFFICES ASSUME edits = 0 PROVE CompleteInv'
    BY <1>1 DEF CompleteInv
<1>2. Paths' = Paths /\ DOMAIN Paths = DOMAIN catalog.lines
    BY <1>1, RenamePaths, PathsType
<1>. DEFINE ls == catalog.lines
            ms == pad_each_line(catalog.lines)
<1>3. /\ catalog'.lines = ms /\ DOMAIN ms = DOMAIN ls
      /\ \A k \in DOMAIN ls : ParseEntry(ms[k], <<>>) = ParseEntry(ls[k], <<>>)
      /\ \A j, k \in DOMAIN ls : LineLen(ms[j]) = LineLen(ms[k])
    BY <1>1, RenamedLines
<1>. HIDE DEF ms
<1>4. /\ \A k \in DOMAIN Paths :
            ParseEntry(ls[k], <<>>) = AsListed(Paths[k], fs[NodeOf(Paths[k])])
      /\ \A p \in DOMAIN fs \ {<<>>} : Has(Paths, p)
      /\ \A d \in Dirs(fs) : Has(Paths, HeaderOf(d))
    BY <1>1 DEF CompleteInv, Printed
<1>. QED  BY <1>1, <1>2, <1>3, <1>4 DEF CompleteInv, Walking

LEMMA CompleteOthers ==
    ASSUME GInv, CompleteInv, ~ MayFail, Crash \/ EditTree \/ Stopped \/ UNCHANGED vars
    PROVE  CompleteInv'
<1>1. CASE EditTree
    <2>1. edits' = edits + 1 /\ edits \in Nat
        BY <1>1, GeneratorAssumption DEF EditTree, GInv, TypeOK
    <2>2. edits' # 0
        BY <2>1
    <2>. QED  BY <2>2 DEF CompleteInv
<1>2. CASE Stopped \/ UNCHANGED vars
    <2>1. UNCHANGED vars
        BY <1>2 DEF Stopped
    <2>2. Paths' = Paths
        BY <2>1, SameLines DEF vars
    <2>3. /\ fs' = fs /\ edits' = edits /\ pc' = pc /\ queue' = queue /\ catalog' = catalog
          /\ current_dir' = current_dir /\ namelist' = namelist /\ temp' = temp
        BY <2>1 DEF vars
    <2>. QED  BY <2>2, <2>3 DEF CompleteInv, Printed, InDir
<1>3. ~ Crash
    BY DEF Crash
<1>. QED  BY <1>1, <1>2, <1>3

LEMMA CompleteNext ==
    ASSUME GInv, PlainNames, PlainLinks, DTypeKnown, ~ MayFail, TreeInv, CompleteInv,
           [Next]_vars
    PROVE  CompleteInv'
<1>1. CASE Generator
    BY <1>1, CompleteStart, CompleteHeader, CompleteScanDir, CompleteListEntry,
       CompletePadLines, CompleteRename DEF Generator
<1>2. CASE Crash \/ EditTree \/ Stopped \/ UNCHANGED vars
    BY <1>2, CompleteOthers
<1>. QED  BY <1>1, <1>2 DEF Next

\* What is in the file at the end, line by line.
LEMMA WholeTree ==
    ASSUME GInv, PlainNames, TreeInv, CompleteInv, pc = "done", edits = 0
    PROVE  /\ {ParseEntry(catalog.lines[k], <<>>) : k \in DOMAIN catalog.lines}
                = {AsListed(p, fs[p]) : p \in DOMAIN fs \ {<<>>}}
                    \cup {AsListed(Append(p, Slash), fs[p]) : p \in Dirs(fs)}
           /\ \A j, k \in DOMAIN catalog.lines :
                    LineLen(catalog.lines[j]) = LineLen(catalog.lines[k])
<1>1. /\ Layout(Paths) /\ catalog \in File /\ fs \in Trees
      /\ \A k \in DOMAIN Paths :
            /\ ParseEntry(catalog.lines[k], <<>>) = AsListed(Paths[k], fs[NodeOf(Paths[k])])
            /\ Parent(Paths[k]) \in Dirs(fs)
            /\ ~ IsHead(Paths[k]) => Paths[k] \in DOMAIN fs
      /\ \A p \in DOMAIN fs \ {<<>>} : Has(Paths, p)
      /\ \A d \in Dirs(fs) : Has(Paths, HeaderOf(d))
      /\ \A j, k \in DOMAIN catalog.lines :
                    LineLen(catalog.lines[j]) = LineLen(catalog.lines[k])
    BY DEF GInv, TypeOK, TreeInv, CompleteInv, Printed
<1>2. DOMAIN Paths = DOMAIN catalog.lines
    BY <1>1, PathsType
<1>. DEFINE A == {AsListed(p, fs[p]) : p \in DOMAIN fs \ {<<>>}}
            B == {AsListed(HeaderOf(p), fs[p]) : p \in Dirs(fs)}
            L == {ParseEntry(catalog.lines[k], <<>>) : k \in DOMAIN catalog.lines}
<1>3. ASSUME NEW k \in DOMAIN Paths PROVE ParseEntry(catalog.lines[k], <<>>) \in A \cup B
    <2>1. Printable(Paths[k])
        BY <1>1 DEF Layout
    <2>2. CASE IsHead(Paths[k])
        <3>1. NodeOf(Paths[k]) = Parent(Paths[k]) /\ Paths[k] = HeaderOf(Parent(Paths[k]))
            BY <2>1, <2>2 DEF NodeOf, Printable
        <3>. QED  BY <1>1, <3>1
    <2>3. CASE ~ IsHead(Paths[k])
        <3>1. NodeOf(Paths[k]) = Paths[k] /\ Paths[k] \in DOMAIN fs \ {<<>>}
            BY <1>1, <2>1, <2>3 DEF NodeOf, Printable
        <3>. QED  BY <1>1, <3>1
    <2>. QED  BY <2>2, <2>3
<1>4. ASSUME NEW p \in DOMAIN fs \ {<<>>} PROVE AsListed(p, fs[p]) \in L
    <2>1. PICK k \in DOMAIN Paths : Paths[k] = p
        BY <1>1 DEF Has
    <2>2. ~ IsHead(p)
        BY <1>1, GeneratorAssumption DEF IsTree, IsHead
    <2>. QED  BY <1>1, <1>2, <2>1, <2>2 DEF NodeOf
<1>5. ASSUME NEW p \in Dirs(fs) PROVE AsListed(HeaderOf(p), fs[p]) \in L
    <2>1. PICK k \in DOMAIN Paths : Paths[k] = HeaderOf(p)
        BY <1>1 DEF Has
    <2>2. IsHead(HeaderOf(p)) /\ Parent(HeaderOf(p)) = p
        BY <1>1, TreeDirs, HeaderPrintable DEF Dirs
    <2>. QED  BY <1>1, <1>2, <2>1, <2>2 DEF NodeOf
<1>6. L = A \cup B
    <2>1. L \subseteq A \cup B
        <3>. HIDE DEF A, B
        <3>. QED  BY <1>2, <1>3
    <2>2. A \cup B \subseteq L
        <3>. HIDE DEF L
        <3>. QED  BY <1>4, <1>5
    <2>. QED  BY <2>1, <2>2
<1>. QED  BY <1>1, <1>6 DEF HeaderOf

(***************************************************************************)
(* The catalog of a tree that nobody changed, when nothing failed, where   *)
(* the file system tells which entries are directories: the daemon reads   *)
(* back exactly the tree, of any size and shape, and the lines are all of  *)
(* one length, so that they can be found by seeking.                       *)
(***************************************************************************)
THEOREM CatalogIsComplete ==
    ASSUME PlainNames, PlainLinks, DTypeKnown PROVE Spec => []CatalogComplete
<1>1. CASE MayFail
    <2>1. Init => CatalogComplete
        BY <1>1 DEF CatalogComplete
    <2>2. CatalogComplete /\ [Next]_vars => CatalogComplete'
        BY <1>1 DEF CatalogComplete
    <2>. QED  BY <2>1, <2>2, PTL DEF Spec
<1>2. CASE ~ MayFail
    <2>. DEFINE I == GInv /\ TreeInv /\ OrderInv /\ CompleteInv
    <2>1. Init => I
        <3>1. Init => CompleteInv
            BY DEF Init, CompleteInv, Printed, Walking
        <3>. QED  BY <3>1, GInvInit, OrderInit
    <2>2. I /\ [Next]_vars => I'
        BY <1>2, GInvNext, OrderNext, CompleteNext
    <2>3. I => CatalogComplete
        BY WholeTree DEF CatalogComplete, Dirs
    <2>. QED  BY <2>1, <2>2, <2>3, PTL DEF Spec
<1>. QED  BY <1>1, <1>2
=============================================================================
