--------------------------- MODULE FuseTreeProofs ---------------------------
(***************************************************************************)
(* The node table of libfuse and what the kernel knows of it, for every    *)
(* set of tasks, names and nodes: the table is sound, and no lookup and no *)
(* open is lost or given back twice.                                       *)
(***************************************************************************)
EXTENDS FuseTree, FiniteSetTheorems, WellFoundedInduction, SequenceTheorems, TLAPS

(***************************************************************************)
(* Numbers, and functions that are computed step by step                   *)
(***************************************************************************)
(* A set of numbers that is not empty has a least one.                     *)
LEMMA LeastNumber ==
    ASSUME NEW S, S \subseteq Nat, S # {}
    PROVE  \E m \in S : \A j \in S : m =< j
<1>. DEFINE R == OpToRel(<, Nat)
<1>1. IsWellFoundedOn(R, Nat)
    BY NatLessThanWellFounded
<1>2. \A x, y \in Nat : <<x, y>> \in R <=> x < y
    BY Zenon DEF OpToRel
<1>. HIDE DEF R
<1>3. PICK m \in S : \A j \in S : ~(<<j, m>> \in R)
    BY <1>1, WFMin
<1>4. \A j \in S : ~(j < m)
    BY <1>2, <1>3
<1>. QED  BY <1>4

(* A set that has 0, and with a number the next, has the numbers up to n.  *)
LEMMA UpTo ==
    ASSUME NEW n \in Nat, NEW P, 0 \in P,
           \A i \in 0..n : i # n /\ i \in P => i + 1 \in P
    PROVE  0..n \subseteq P
<1>. DEFINE S == (0..n) \ P
<1>. SUFFICES ASSUME S # {}  PROVE FALSE
    OBVIOUS
<1>1. S \subseteq Nat
    OBVIOUS
<1>2. PICK m \in S : \A j \in S : m =< j
    BY <1>1, LeastNumber
<1>3. m # 0 /\ m - 1 \in 0..n /\ m - 1 \notin S /\ m - 1 # n
    BY <1>2
<1>. QED  BY <1>3

(* g has the values of n steps of h that begin at x.                       *)
Computes(g, x, n, h) == g[0] = x /\ \A i \in 1..n : g[i] = h[i][g[i - 1]]

(* A value that is computed step by step is computed to the end.           *)
LEMMA StepByStep ==
    ASSUME NEW X, NEW x \in X, NEW n \in Nat, NEW h \in [1..n -> [X -> X]]
    PROVE  \E g \in [0..n -> X] : Computes(g, x, n, h)
<1>. DEFINE Has(m) == \E g \in [0..m -> X] :
                          /\ g[0] = x
                          /\ \A i \in 1..m : g[i] = h[i][g[i - 1]]
            P == {m \in 0..n : Has(m)}
<1>1. Has(0)
    <2>. DEFINE w == [i \in 0..0 |-> x]
    <2>1. w \in [0..0 -> X] /\ w[0] = x /\ \A i \in 1..0 : w[i] = h[i][w[i - 1]]
        OBVIOUS
    <2>. QED  BY <2>1
<1>2. ASSUME NEW m \in 0..n, m # n, Has(m)  PROVE  Has(m + 1)
    <2>1. PICK g \in [0..m -> X] : /\ g[0] = x
                                   /\ \A i \in 1..m : g[i] = h[i][g[i - 1]]
        BY <1>2
    <2>. DEFINE w == [i \in 0..(m + 1) |-> IF i = m + 1 THEN h[m + 1][g[m]] ELSE g[i]]
    <2>2. h[m + 1][g[m]] \in X
        BY <1>2, <2>1
    <2>3. w \in [0..(m + 1) -> X]
        BY <1>2, <2>1, <2>2
    <2>4. w[0] = x /\ \A i \in 1..(m + 1) : w[i] = h[i][w[i - 1]]
        BY <1>2, <2>1
    <2>. QED  BY <2>3, <2>4
<1>. HIDE DEF Has
<1>3. 0 \in P /\ \A m \in 0..n : m # n /\ m \in P => m + 1 \in P
    BY <1>1, <1>2
<1>. HIDE DEF P
<1>5. 0..n \subseteq P
    BY <1>3, UpTo
<1>4. Has(n)
    BY <1>5 DEF P
<1>. QED  BY <1>4 DEF Has, Computes

(***************************************************************************)
(* Paths                                                                   *)
(***************************************************************************)
(* The object at a path is one of the disk's, or 0.                        *)
LEMMA AtType ==
    ASSUME NEW d, d.ent \in [Objs -> [AllNames -> Objs \cup {0}]],
           NEW path \in Seq(AllNames), TreeAssumption
    PROVE  At(d, path) \in Objs \cup {0}
<1>. DEFINE n == Len(path)
            X == Objs \cup {0}
            h == [i \in 1..n |-> [x \in X |-> IF x = 0 THEN 0 ELSE d.ent[x][path[i]]]]
            walk[i \in 0..Len(path)] ==
                IF i = 0 THEN RootObj
                ELSE IF walk[i - 1] = 0 THEN 0 ELSE d.ent[walk[i - 1]][path[i]]
<1>1. n \in Nat /\ RootObj \in X /\ \A i \in 1..n : path[i] \in AllNames
    BY DEF RootObj, Objs, TreeAssumption
<1>2. h \in [1..n -> [X -> X]]
    BY <1>1
<1>3. \A i \in 1..n, x \in X : h[i][x] = IF x = 0 THEN 0 ELSE d.ent[x][path[i]]
    OBVIOUS
<1>. HIDE DEF h, X, n
<1>. DEFINE r == RootObj
<1>12. n \in Nat /\ r \in X
    BY <1>1
<1>. HIDE DEF r
<1>13. \E g \in [0..n -> X] : Computes(g, r, n, h)
    BY <1>2, <1>12, StepByStep, Zenon
<1>4. PICK g \in [0..n -> X] : g[0] = RootObj /\ \A i \in 1..n : g[i] = h[i][g[i - 1]]
    BY <1>13, Zenon DEF r, Computes
<1>. USE DEF n
<1>5. \A i \in 1..n : g[i] = IF g[i - 1] = 0 THEN 0 ELSE d.ent[g[i - 1]][path[i]]
    BY <1>1, <1>3, <1>4
<1>6. g = [i \in 0..Len(path) |-> IF i = 0 THEN RootObj
                     ELSE IF g[i - 1] = 0 THEN 0 ELSE d.ent[g[i - 1]][path[i]]]
    BY <1>1, <1>4, <1>5
<1>7. walk = [i \in 0..Len(path) |-> IF i = 0 THEN RootObj
                     ELSE IF walk[i - 1] = 0 THEN 0 ELSE d.ent[walk[i - 1]][path[i]]]
    BY <1>6, Zenon
<1>8. At(d, path) = walk[Len(path)]
    BY DEF At
<1>. HIDE DEF walk
<1>. DEFINE P == {i \in 0..n : walk[i] \in X}
<1>9. 0 \in P
    BY <1>1, <1>7
<1>10. ASSUME NEW i \in 0..n, i # n, i \in P  PROVE  i + 1 \in P
    <2>1. i + 1 \in 1..n /\ (i + 1) - 1 = i /\ walk[i] \in X
        BY <1>1, <1>10
    <2>2. walk[i + 1] = IF walk[i] = 0 THEN 0 ELSE d.ent[walk[i]][path[i + 1]]
        BY <1>7, <2>1
    <2>3. walk[i + 1] \in X
        BY <1>1, <2>1, <2>2 DEF X
    <2>. QED  BY <2>1, <2>3
<1>. HIDE DEF P
<1>11. 0..n \subseteq P
    BY <1>1, <1>9, <1>10, UpTo
<1>. QED  BY <1>1, <1>8, <1>11 DEF P, X

\* What makes the way from a node to the root one through the table.
Linked(g) == \A i \in DOMAIN g.nodes :
                 g.nodes[i].name # NULL => /\ g.nodes[i].name \in AllNames
                                           /\ g.nodes[i].parent \in DOMAIN g.nodes

\* Where the way is, the names behind it, and that none was missing.
Ways(g) == [id : DOMAIN g.nodes, path : Seq(AllNames), ok : BOOLEAN]

\* One node nearer to the root.
Nearer(g, u) == IF u.id = FUSE_ROOT_ID \/ ~u.ok THEN u
                ELSE IF g.nodes[u.id].name = NULL THEN [u EXCEPT !.ok = FALSE]
                ELSE [id |-> g.nodes[u.id].parent, ok |-> TRUE,
                      path |-> <<g.nodes[u.id].name>> \o u.path]

LEMMA NearerType ==
    ASSUME NEW g, Linked(g), NEW u \in Ways(g)
    PROVE  Nearer(g, u) \in Ways(g)
<1>1. u.id \in DOMAIN g.nodes /\ u.path \in Seq(AllNames) /\ u.ok \in BOOLEAN
    BY DEF Ways
<1>. DEFINE n == g.nodes[u.id].name
            p == <<n>> \o u.path
<1>2. CASE u.id = FUSE_ROOT_ID \/ ~u.ok
    BY <1>2 DEF Nearer
<1>3. CASE ~(u.id = FUSE_ROOT_ID \/ ~u.ok) /\ n = NULL
    BY <1>1, <1>3 DEF Nearer, Ways
<1>4. CASE ~(u.id = FUSE_ROOT_ID \/ ~u.ok) /\ n # NULL
    <2>1. n \in AllNames /\ g.nodes[u.id].parent \in DOMAIN g.nodes
        BY <1>1, <1>4 DEF Linked
    <2>2. <<n>> \in Seq(AllNames)
        BY <2>1
    <2>. HIDE DEF n
    <2>3. p \in Seq(AllNames)
        BY <1>1, <2>2, ConcatProperties
    <2>4. Nearer(g, u) = [id |-> g.nodes[u.id].parent, ok |-> TRUE, path |-> p]
        BY <1>4 DEF Nearer, n
    <2>. HIDE DEF p
    <2>. QED  BY <2>1, <2>3, <2>4 DEF Ways
<1>. QED  BY <1>2, <1>3, <1>4

(* A path is a sequence of names.                                          *)
LEMMA PathType ==
    ASSUME NEW g, Linked(g), NEW id \in DOMAIN g.nodes, NodeAssumption
    PROVE  get_path(g, id) \in Ways(g)
<1>. DEFINE n == MaxNode
            X == Ways(g)
            x == [id |-> id, path |-> <<>>, ok |-> TRUE]
            h == [i \in 1..n |-> [u \in X |-> Nearer(g, u)]]
            up[m \in 0..MaxNode] ==
                IF m = 0 THEN [id |-> id, path |-> <<>>, ok |-> TRUE]
                ELSE LET u == up[m - 1]
                     IN  IF u.id = FUSE_ROOT_ID \/ ~u.ok THEN u
                         ELSE IF g.nodes[u.id].name = NULL
                              THEN [u EXCEPT !.ok = FALSE]
                         ELSE [id |-> g.nodes[u.id].parent, ok |-> TRUE,
                               path |-> <<g.nodes[u.id].name>> \o u.path]
<1>0. n \in Nat
    BY DEF NodeAssumption
<1>1. x \in X
    BY DEF Ways
<1>2. h \in [1..n -> [X -> X]]
    BY NearerType
<1>3. \A i \in 1..n, u \in X : h[i][u] = Nearer(g, u)
    OBVIOUS
<1>. HIDE DEF h, X, n, x, up
<1>4. PICK w \in [0..n -> X] : Computes(w, x, n, h)
    BY <1>0, <1>1, <1>2, StepByStep, Zenon
<1>5. w[0] = x /\ \A i \in 1..n : w[i] = Nearer(g, w[i - 1])
    <2>1. \A i \in 1..n : i - 1 \in 0..n
        BY <1>0
    <2>. QED  BY <1>3, <1>4, <2>1 DEF Computes
<1>6. w = [m \in 0..n |-> IF m = 0 THEN x ELSE Nearer(g, w[m - 1])]
    <2>1. \A m \in 0..n : m # 0 => m \in 1..n
        BY <1>0
    <2>. QED  BY <1>0, <1>5, <2>1
<1>7. up = [m \in 0..n |-> IF m = 0 THEN x ELSE Nearer(g, up[m - 1])]
    BY <1>6, Zenon DEF up, n, x, Nearer
<1>8. get_path(g, id) = up[n]
    BY Zenon DEF get_path, up, n
<1>. DEFINE P == {m \in 0..n : up[m] \in X}
<1>9. 0 \in P
    BY <1>0, <1>1, <1>7
<1>10. ASSUME NEW m \in 0..n, m # n, m \in P  PROVE  m + 1 \in P
    <2>1. m + 1 \in 0..n /\ (m + 1) - 1 = m /\ up[m] \in X /\ m + 1 # 0
        BY <1>0, <1>10
    <2>2. up[m + 1] = Nearer(g, up[m])
        BY <1>7, <2>1
    <2>3. up[m + 1] \in X
        BY <2>1, <2>2, NearerType DEF X
    <2>. QED  BY <2>1, <2>3
<1>. HIDE DEF P
<1>11. 0..n \subseteq P
    BY <1>0, <1>9, <1>10, UpTo
<1>. QED  BY <1>0, <1>8, <1>11 DEF P, X

LEMMA PathNameType ==
    ASSUME NEW g, Linked(g), NEW id \in DOMAIN g.nodes, NEW n \in AllNames,
           NodeAssumption
    PROVE  /\ get_path_name(g, id, n).path \in Seq(AllNames)
           /\ get_path_name(g, id, n).ok \in BOOLEAN
<1>. DEFINE p == get_path(g, id)
<1>1. p \in Ways(g)
    BY PathType
<1>2. get_path_name(g, id, n) = [p EXCEPT !.path = Append(@, n)]
    BY DEF get_path_name
<1>. HIDE DEF p
<1>3. p.path \in Seq(AllNames) /\ p.ok \in BOOLEAN
    BY <1>1 DEF Ways
<1>. DEFINE q == Append(p.path, n)
<1>4. q \in Seq(AllNames)
    BY <1>3, AppendProperties
<1>5. get_path_name(g, id, n) = [p EXCEPT !.path = q]
    BY <1>2
<1>. HIDE DEF q
<1>. QED  BY <1>1, <1>3, <1>4, <1>5 DEF Ways

(***************************************************************************)
(* Sums                                                                    *)
(***************************************************************************)
\* w adds up the numbers of s.
Adds(w, s) == w[0] = 0 /\ \A i \in 1..Len(s) : w[i] = w[i - 1] + s[i]

LEMMA SumAdds ==
    ASSUME NEW s \in Seq(Nat)
    PROVE  \E w \in [0..Len(s) -> Nat] : Adds(w, s) /\ Sum(s) = w[Len(s)]
<1>. DEFINE n == Len(s)
            h == [i \in 1..n |-> [u \in Nat |-> u + s[i]]]
            sum[i \in 0..Len(s)] == IF i = 0 THEN 0 ELSE sum[i - 1] + s[i]
<1>0. n \in Nat /\ \A i \in 1..n : s[i] \in Nat
    OBVIOUS
<1>1. h \in [1..n -> [Nat -> Nat]]
    BY <1>0
<1>2. \A i \in 1..n, u \in Nat : h[i][u] = u + s[i]
    OBVIOUS
<1>. HIDE DEF h, sum, n
<1>3. 0 \in Nat
    OBVIOUS
<1>4. PICK w \in [0..n -> Nat] : Computes(w, 0, n, h)
    BY <1>0, <1>1, <1>3, StepByStep, Zenon
<1>5. w[0] = 0 /\ \A i \in 1..n : w[i] = w[i - 1] + s[i]
    <2>1. \A i \in 1..n : i - 1 \in 0..n
        BY <1>0
    <2>. QED  BY <1>2, <1>4, <2>1 DEF Computes
<1>6. w = [i \in 0..n |-> IF i = 0 THEN 0 ELSE w[i - 1] + s[i]]
    <2>1. \A m \in 0..n : m # 0 => m \in 1..n
        BY <1>0
    <2>. QED  BY <1>0, <1>5, <2>1
<1>7. sum = [i \in 0..n |-> IF i = 0 THEN 0 ELSE sum[i - 1] + s[i]]
    BY <1>6, Zenon DEF sum, n
<1>8. Sum(s) = sum[n]
    BY Zenon DEF Sum, sum, n
<1>. DEFINE P == {i \in 0..n : sum[i] \in Nat}
<1>9. 0 \in P
    BY <1>0, <1>7
<1>10. ASSUME NEW i \in 0..n, i # n, i \in P  PROVE  i + 1 \in P
    <2>1. i + 1 \in 1..n /\ i + 1 \in 0..n /\ (i + 1) - 1 = i /\ i + 1 # 0
        BY <1>0, <1>10
    <2>2. sum[i + 1] = sum[i] + s[i + 1]
        BY <1>7, <2>1
    <2>. QED  BY <1>0, <1>10, <2>1, <2>2
<1>. HIDE DEF P
<1>11. 0..n \subseteq P
    BY <1>0, <1>9, <1>10, UpTo
<1>12. sum \in [0..n -> Nat]
    BY <1>7, <1>11 DEF P
<1>13. Adds(sum, s)
    BY <1>0, <1>7 DEF Adds, n
<1>. QED  BY <1>8, <1>12, <1>13 DEF n

(* Two functions that add up the same numbers have the same sum.           *)
LEMMA AddsUnique ==
    ASSUME NEW s \in Seq(Nat), NEW v, Adds(v, s)
    PROVE  Sum(s) = v[Len(s)]
<1>1. PICK w \in [0..Len(s) -> Nat] : Adds(w, s) /\ Sum(s) = w[Len(s)]
    BY SumAdds
<1>. DEFINE n == Len(s)
            P == {i \in 0..n : v[i] = w[i]}
<1>2. n \in Nat
    OBVIOUS
<1>3. 0 \in P
    BY <1>1, <1>2 DEF Adds
<1>4. \A i \in 0..n : i # n /\ i \in P => i + 1 \in P
    <2>. SUFFICES ASSUME NEW i \in 0..n, i # n, v[i] = w[i]  PROVE v[i + 1] = w[i + 1]
        BY <1>2
    <2>1. i + 1 \in 1..n /\ (i + 1) - 1 = i
        BY <1>2
    <2>. QED  BY <1>1, <2>1 DEF Adds
<1>. HIDE DEF P
<1>5. 0..n \subseteq P
    BY <1>2, <1>3, <1>4, UpTo
<1>. QED  BY <1>1, <1>2, <1>5 DEF P

LEMMA SumType ==
    ASSUME NEW s \in Seq(Nat)
    PROVE  Sum(s) \in Nat
<1>1. Len(s) \in 0..Len(s)
    OBVIOUS
<1>. QED  BY <1>1, SumAdds

LEMMA SumEmpty == Sum(<<>>) = 0
<1>1. <<>> \in Seq(Nat) /\ Len(<<>>) = 0
    OBVIOUS
<1>. QED  BY <1>1, SumAdds DEF Adds

LEMMA SumAppend ==
    ASSUME NEW s \in Seq(Nat), NEW n \in Nat
    PROVE  Sum(Append(s, n)) = Sum(s) + n
<1>. DEFINE t == Append(s, n)
            m == Len(s)
<1>1. /\ t \in Seq(Nat) /\ m \in Nat /\ Len(t) = m + 1
      /\ \A i \in 1..m : t[i] = s[i]
      /\ t[m + 1] = n
    OBVIOUS
<1>. HIDE DEF t
<1>2. PICK w \in [0..Len(t) -> Nat] : Adds(w, t) /\ Sum(t) = w[Len(t)]
    BY <1>1, SumAdds
<1>3. Adds(w, s)
    BY <1>1, <1>2 DEF Adds
<1>4. Sum(s) = w[m]
    BY <1>3, AddsUnique
<1>5. m + 1 \in 1..Len(t) /\ (m + 1) - 1 = m
    BY <1>1
<1>6. w[m + 1] = w[m] + n
    BY <1>1, <1>2, <1>5 DEF Adds
<1>7. Sum(t) = w[m + 1]
    BY <1>1, <1>2
<1>. QED  BY <1>4, <1>6, <1>7 DEF t

LEMMA SumTail ==
    ASSUME NEW s \in Seq(Nat), s # <<>>
    PROVE  Sum(s) = Head(s) + Sum(Tail(s))
<1>. DEFINE t == Tail(s)
            m == Len(t)
<1>1. /\ t \in Seq(Nat) /\ m \in Nat /\ Len(s) = m + 1 /\ Head(s) = s[1]
      /\ \A i \in 1..m : t[i] = s[i + 1]
    BY HeadTailProperties
<1>2. \A i \in 1..(m + 1) : s[i] \in Nat
    BY <1>1
<1>. HIDE DEF t
<1>3. PICK w \in [0..Len(s) -> Nat] : Adds(w, s) /\ Sum(s) = w[Len(s)]
    BY SumAdds
<1>. DEFINE v == [i \in 0..m |-> w[i + 1] - s[1]]
<1>4. w[1] = s[1] /\ \A i \in 1..m : w[i + 1] = w[i] + s[i + 1]
    <2>1. 1 \in 1..Len(s) /\ 1 - 1 = 0
        BY <1>1
    <2>2. w[1] = 0 + s[1]
        BY <1>3, <2>1 DEF Adds
    <2>3. \A i \in 1..m : i + 1 \in 1..Len(s) /\ (i + 1) - 1 = i
        BY <1>1
    <2>4. \A i \in 1..m : w[i + 1] = w[(i + 1) - 1] + s[i + 1]
        BY <1>3, <2>3 DEF Adds
    <2>. QED  BY <1>2, <2>2, <2>3, <2>4
<1>5. \A i \in 0..m : w[i + 1] \in Nat
    <2>1. \A i \in 0..m : i + 1 \in 0..Len(s)
        BY <1>1
    <2>. QED  BY <1>3, <2>1
<1>6. Adds(v, t)
    <2>1. v[0] = 0
        BY <1>1, <1>2, <1>4
    <2>2. ASSUME NEW i \in 1..m  PROVE  v[i] = v[i - 1] + t[i]
        <3>1. i \in 0..m /\ i - 1 \in 0..m /\ (i - 1) + 1 = i /\ 1 \in 1..(m + 1)
            BY <1>1
        <3>2. v[i] = w[i + 1] - s[1] /\ v[i - 1] = w[i] - s[1]
            BY <3>1
        <3>3. w[i + 1] = w[i] + s[i + 1] /\ t[i] = s[i + 1] /\ t[i] \in Nat
            BY <1>1, <1>4
        <3>4. w[i] \in Nat /\ s[1] \in Nat
            BY <1>2, <1>5, <3>1
        <3>. HIDE DEF v
        <3>. QED  BY <3>2, <3>3, <3>4
    <2>. QED  BY <2>1, <2>2 DEF Adds
<1>7. Sum(t) = w[m + 1] - s[1]
    BY <1>1, <1>6, AddsUnique
<1>8. Sum(s) = w[m + 1] /\ w[m + 1] \in Nat /\ s[1] \in Nat
    BY <1>1, <1>2, <1>3
<1>. QED  BY <1>1, <1>7, <1>8 DEF t

(***************************************************************************)
(* Counting                                                                *)
(***************************************************************************)
(* Two sets that differ in x at most.                                      *)
LEMMA CountStep ==
    ASSUME NEW U, IsFiniteSet(U), NEW x \in U, NEW S, NEW T,
           S \subseteq U, T \subseteq U, \A u \in U \ {x} : u \in S <=> u \in T
    PROVE  /\ Cardinality(S) \in Nat /\ Cardinality(T) \in Nat
           /\ x \in S => Cardinality(S) > 0
           /\ x \in T => Cardinality(T) > 0
           /\ (x \in S <=> x \in T) => Cardinality(T) = Cardinality(S)
           /\ x \in S /\ x \notin T => Cardinality(T) = Cardinality(S) - 1
           /\ x \notin S /\ x \in T => Cardinality(T) = Cardinality(S) + 1
<1>1. IsFiniteSet(S) /\ IsFiniteSet(T)
    BY FS_Subset
<1>2. Cardinality(S) \in Nat /\ Cardinality(T) \in Nat
    BY <1>1, FS_CardinalityType
<1>3. (x \in S <=> x \in T) => S = T
    OBVIOUS
<1>4. x \in S /\ x \notin T => T = S \ {x}
    OBVIOUS
<1>5. x \notin S /\ x \in T => T = S \cup {x}
    OBVIOUS
<1>6. x \in S => Cardinality(S \ {x}) = Cardinality(S) - 1 /\ Cardinality(S) # 0
    BY <1>1, FS_RemoveElement, FS_EmptySet
<1>7. x \in T => Cardinality(T) # 0
    BY <1>1, FS_EmptySet
<1>8. x \notin S => Cardinality(S \cup {x}) = Cardinality(S) + 1
    BY <1>1, FS_AddElement
<1>9. (x \in S => Cardinality(S) > 0) /\ (x \in T => Cardinality(T) > 0)
    BY <1>2, <1>6, <1>7
<1>10. CASE x \in S /\ x \in T
    BY <1>2, <1>3, <1>9, <1>10
<1>11. CASE x \in S /\ x \notin T
    BY <1>2, <1>4, <1>6, <1>9, <1>11
<1>12. CASE x \notin S /\ x \in T
    BY <1>2, <1>5, <1>8, <1>9, <1>12
<1>13. CASE x \notin S /\ x \notin T
    BY <1>2, <1>3, <1>9, <1>13
<1>. QED  BY <1>10, <1>11, <1>12, <1>13

(***************************************************************************)
(* The node table, with the references that are still owed: w[i] is the    *)
(* number of those that refctr of i counts and nothing holds any more.     *)
(***************************************************************************)
NodeRec == [parent : 0..MaxNode, name : AllNames \cup {NULL}, nlookup : Nat,
            refctr : Nat, open_count : Nat, is_hidden : BOOLEAN, obj : Objs]

TableType(g) ==
    /\ g = [nodes |-> g.nodes, hidectr |-> g.hidectr, abort |-> g.abort, lost |-> g.lost]
    /\ g.abort \in BOOLEAN
    /\ DOMAIN g.nodes \subseteq NodeIds
    /\ g.nodes \in [DOMAIN g.nodes -> NodeRec]

One(n) == IF n > 0 THEN 1 ELSE 0
Counts(n) == One(n.nlookup)

RefsOwed(g, w) ==
    \A i \in DOMAIN g.nodes :
        g.nodes[i].refctr = Counts(g.nodes[i]) + Cardinality(Children(g, i)) + w[i]

\* A node with a name is one that the kernel has counted, but for x.
NamedCounted(g, x) ==
    \A i \in DOMAIN g.nodes :
        g.nodes[i].name # NULL /\ i # x => g.nodes[i].nlookup > 0

Debts == [NodeIds -> Nat]
NoDebt == [i \in NodeIds |-> 0]

Good(g, w, x) == /\ TableType(g) /\ w \in Debts
                 /\ RefsOwed(g, w) /\ NamesSound(g) /\ NamedCounted(g, x)

(* One node is changed.                                                    *)
LEMMA SetNode ==
    ASSUME NEW g, TableType(g), NEW i \in DOMAIN g.nodes, NEW r \in NodeRec,
           NEW h, h = [g EXCEPT !.nodes[i] = r]
    PROVE  /\ TableType(h) /\ DOMAIN h.nodes = DOMAIN g.nodes
           /\ h.abort = g.abort /\ h.hidectr = g.hidectr /\ h.lost = g.lost
           /\ h.nodes[i] = r
           /\ \A j \in DOMAIN g.nodes : j # i => h.nodes[j] = g.nodes[j]
BY DEF TableType

(* The same for one field.                                                 *)
LEMMA SetField ==
    ASSUME NEW n \in NodeRec, NEW v
    PROVE  /\ v \in Nat => [n EXCEPT !.nlookup = v] \in NodeRec
           /\ v \in Nat => [n EXCEPT !.refctr = v] \in NodeRec
           /\ v \in Nat => [n EXCEPT !.open_count = v] \in NodeRec
           /\ v \in BOOLEAN => [n EXCEPT !.is_hidden = v] \in NodeRec
BY DEF NodeRec

(* The nodes of a table, one by one.                                       *)
LEMMA NodeFacts ==
    ASSUME NEW g, TableType(g), NEW i \in DOMAIN g.nodes
    PROVE  /\ i \in NodeIds /\ g.nodes[i] \in NodeRec
           /\ g.nodes[i].nlookup \in Nat /\ g.nodes[i].refctr \in Nat
           /\ g.nodes[i].open_count \in Nat /\ g.nodes[i].obj \in Objs
           /\ g.nodes[i].parent \in 0..MaxNode
           /\ g.nodes[i].name \in AllNames \cup {NULL}
BY DEF TableType, NodeRec

LEMMA ChildrenFinite ==
    ASSUME NEW g, TableType(g), NEW i, NodeAssumption
    PROVE  /\ IsFiniteSet(Children(g, i)) /\ Cardinality(Children(g, i)) \in Nat
           /\ Children(g, i) \subseteq NodeIds
           /\ Cardinality(Children(g, i)) = 0 <=> Children(g, i) = {}
<1>1. IsFiniteSet(NodeIds)
    BY FS_Interval DEF NodeIds, NodeAssumption
<1>2. Children(g, i) \subseteq NodeIds
    BY DEF Children, TableType
<1>3. IsFiniteSet(Children(g, i))
    BY <1>1, <1>2, FS_Subset
<1>. QED  BY <1>2, <1>3, FS_CardinalityType, FS_EmptySet

\* What a node is, apart from its references.
Alike(m, n) == /\ m.name = n.name /\ m.parent = n.parent /\ m.nlookup = n.nlookup
               /\ m.open_count = n.open_count /\ m.obj = n.obj

(* unref_node pays a reference that is owed: the node goes with its last.  *)
LEMMA UnrefPays ==
    ASSUME NEW g, NEW w, NEW x, Good(g, w, x), NodeAssumption,
           NEW i \in DOMAIN g.nodes, w[i] > 0, i # x \/ g.nodes[i].name = NULL,
           NEW h, h = unref_node(g, i)
    PROVE  /\ Good(h, [w EXCEPT ![i] = @ - 1], x)
           /\ h.abort = g.abort
           /\ DOMAIN h.nodes = DOMAIN g.nodes
                  \/ (/\ DOMAIN h.nodes = DOMAIN g.nodes \ {i} /\ w[i] = 1
                      /\ g.nodes[i].nlookup = 0 /\ Children(g, i) = {}
                      /\ g.nodes[i].name = NULL)
           /\ \A j \in DOMAIN h.nodes : Alike(g.nodes[j], h.nodes[j])
<1>. DEFINE n == g.nodes[i]
            v == [w EXCEPT ![i] = @ - 1]
            m == [n EXCEPT !.refctr = @ - 1]
            less == [g EXCEPT !.nodes[i] = m]
<1>1. /\ TableType(g) /\ w \in Debts /\ RefsOwed(g, w) /\ NamesSound(g)
      /\ NamedCounted(g, x)
    BY DEF Good
<1>2. i \in NodeIds /\ n \in NodeRec /\ w[i] \in Nat /\ n.refctr \in Nat /\ n.nlookup \in Nat
    BY <1>1, NodeFacts DEF Debts
<1>3. v \in Debts /\ v[i] = w[i] - 1 /\ \A j \in NodeIds : j # i => v[j] = w[j]
    BY <1>1, <1>2 DEF Debts
<1>4. n.refctr = Counts(n) + Cardinality(Children(g, i)) + w[i]
    BY <1>1 DEF RefsOwed
<1>5. Counts(n) \in {0, 1} /\ (Counts(n) = 0 => n.nlookup = 0)
    BY <1>2 DEF Counts, One
<1>6. Cardinality(Children(g, i)) \in Nat /\ (Cardinality(Children(g, i)) = 0 => Children(g, i) = {})
    BY <1>1, ChildrenFinite
<1>7. n.refctr # 0 /\ n.refctr - 1 \in Nat
    BY <1>2, <1>4, <1>5, <1>6
<1>8. /\ m \in NodeRec /\ m.refctr = n.refctr - 1 /\ Alike(n, m)
      /\ m.name = n.name /\ m.parent = n.parent /\ m.nlookup = n.nlookup
    BY <1>2, <1>7 DEF NodeRec, Alike
<1>. HIDE DEF m, v
<1>9. /\ TableType(less) /\ DOMAIN less.nodes = DOMAIN g.nodes
      /\ less.abort = g.abort /\ less.nodes[i] = m
      /\ \A j \in DOMAIN g.nodes : j # i => less.nodes[j] = g.nodes[j]
    BY <1>1, <1>8, SetNode
<1>10. h = IF m.refctr = 0 THEN delete_node(less, i) ELSE less
    BY <1>1, <1>7, <1>8, <1>9 DEF unref_node, m
<1>. HIDE DEF less
<1>11. \A j \in DOMAIN g.nodes : /\ Alike(g.nodes[j], less.nodes[j])
                                 /\ less.nodes[j].name = g.nodes[j].name
                                 /\ less.nodes[j].parent = g.nodes[j].parent
                                 /\ less.nodes[j].nlookup = g.nodes[j].nlookup
    BY <1>8, <1>9 DEF Alike
<1>12. \A j : Children(less, j) = Children(g, j)
    BY <1>9, <1>11 DEF Children
<1>13. RefsOwed(less, v)
    <2>. SUFFICES ASSUME NEW j \in DOMAIN g.nodes
                  PROVE  less.nodes[j].refctr = Counts(less.nodes[j])
                             + Cardinality(Children(less, j)) + v[j]
        BY <1>9 DEF RefsOwed
    <2>1. CASE j = i
        <3>1. Counts(m) = Counts(n)
            BY <1>8 DEF Counts, One
        <3>. QED  BY <2>1, <3>1, <1>2, <1>3, <1>4, <1>5, <1>6, <1>8, <1>9, <1>12
    <2>2. CASE j # i
        <3>1. j \in NodeIds
            BY <1>1, NodeFacts
        <3>. QED  BY <2>2, <3>1, <1>1, <1>3, <1>9, <1>12 DEF RefsOwed
    <2>. QED  BY <2>1, <2>2
<1>14. NamesSound(less) /\ NamedCounted(less, x)
    BY <1>1, <1>9, <1>11 DEF NamesSound, NamedCounted
<1>15. CASE m.refctr # 0
    BY <1>3, <1>9, <1>10, <1>11, <1>13, <1>14, <1>15 DEF Good, v
<1>16. CASE m.refctr = 0
    <2>1. w[i] = 1 /\ n.nlookup = 0 /\ Children(g, i) = {}
        BY <1>2, <1>4, <1>5, <1>6, <1>8, <1>16
    <2>2. n.name = NULL
        BY <1>1, <2>1 DEF NamedCounted
    <2>. DEFINE D == DOMAIN g.nodes \ {i}
    <2>3. h = [less EXCEPT !.nodes = [j \in D |-> less.nodes[j]]]
        BY <1>8, <1>9, <1>10, <1>16, <2>2 DEF delete_node
    <2>4. /\ TableType(h) /\ h.abort = g.abort /\ DOMAIN h.nodes = D
          /\ \A j \in D : h.nodes[j] = less.nodes[j]
        BY <1>9, <2>3 DEF TableType
    <2>5. \A j : Children(h, j) = Children(g, j)
        BY <1>11, <2>2, <2>4 DEF Children
    <2>6. RefsOwed(h, v)
        <3>1. \A j \in D : h.nodes[j].refctr = Counts(h.nodes[j])
                             + Cardinality(Children(h, j)) + v[j]
            BY <1>9, <1>12, <1>13, <2>4, <2>5 DEF RefsOwed
        <3>. QED  BY <2>4, <3>1 DEF RefsOwed
    <2>7. NamedCounted(h, x)
        BY <1>9, <1>14, <2>4 DEF NamedCounted
    <2>8. NamesSound(h)
        <3>. SUFFICES ASSUME NEW j \in D, h.nodes[j].name # NULL
                      PROVE  /\ h.nodes[j].parent \in D
                             /\ \A y \in D : (/\ h.nodes[y].name = h.nodes[j].name
                                              /\ h.nodes[y].parent = h.nodes[j].parent) => j = y
            BY <2>4 DEF NamesSound
        <3>1. g.nodes[j].parent # i
            BY <1>11, <2>1, <2>4 DEF Children
        <3>. QED  BY <3>1, <1>9, <1>11, <1>14, <2>4 DEF NamesSound
    <2>. QED  BY <1>3, <1>11, <2>1, <2>2, <2>4, <2>6, <2>7, <2>8 DEF Good, v
<1>. QED  BY <1>15, <1>16

(* The same, with its premise and its conclusion named.                    *)
Owing(g, w, x, i) == w[i] > 0 /\ (i # x \/ g.nodes[i].name = NULL)
Paid(g, w, x, i, h) ==
    /\ Good(h, [w EXCEPT ![i] = @ - 1], x)
    /\ h.abort = g.abort
    /\ DOMAIN h.nodes = DOMAIN g.nodes
           \/ (/\ DOMAIN h.nodes = DOMAIN g.nodes \ {i} /\ w[i] = 1
               /\ g.nodes[i].nlookup = 0 /\ Children(g, i) = {}
               /\ g.nodes[i].name = NULL)
    /\ \A j \in DOMAIN h.nodes : Alike(g.nodes[j], h.nodes[j])

LEMMA UnrefPaid ==
    ASSUME NEW g, NEW w, NEW x, Good(g, w, x), NodeAssumption,
           NEW i \in DOMAIN g.nodes, Owing(g, w, x, i), NEW h, h = unref_node(g, i)
    PROVE  Paid(g, w, x, i, h)
BY UnrefPays DEF Owing, Paid

\* h is g without some names, and without nodes that had children and are not
\* counted.
Kept(g, h) ==
    /\ h.abort = g.abort /\ DOMAIN h.nodes \subseteq DOMAIN g.nodes
    /\ \A j \in DOMAIN h.nodes : /\ h.nodes[j].nlookup = g.nodes[j].nlookup
                                 /\ h.nodes[j].open_count = g.nodes[j].open_count
                                 /\ h.nodes[j].obj = g.nodes[j].obj
                                 /\ h.nodes[j].name # NULL =>
                                       /\ h.nodes[j].name = g.nodes[j].name
                                       /\ h.nodes[j].parent = g.nodes[j].parent
    /\ \A j \in DOMAIN g.nodes \ DOMAIN h.nodes :
           g.nodes[j].nlookup = 0 /\ Children(g, j) # {}

LEMMA KeptTransitive ==
    ASSUME NEW g, NEW h, NEW e, Kept(g, h), Kept(h, e)
    PROVE  Kept(g, e)
<1>1. \A j : Children(h, j) \subseteq Children(g, j)
    BY DEF Kept, Children
<1>2. \A j \in DOMAIN g.nodes \ DOMAIN e.nodes :
           g.nodes[j].nlookup = 0 /\ Children(g, j) # {}
    BY <1>1 DEF Kept
<1>3. \A j \in DOMAIN e.nodes : /\ e.nodes[j].nlookup = g.nodes[j].nlookup
                                /\ e.nodes[j].open_count = g.nodes[j].open_count
                                /\ e.nodes[j].obj = g.nodes[j].obj
                                /\ e.nodes[j].name # NULL =>
                                       /\ e.nodes[j].name = g.nodes[j].name
                                       /\ e.nodes[j].parent = g.nodes[j].parent
    BY DEF Kept
<1>. QED  BY <1>2, <1>3 DEF Kept

(* unhash_name takes the name away, and the reference of the parent.       *)
LEMMA UnhashKeeps ==
    ASSUME NEW g, NEW w, NEW x, Good(g, w, x), NodeAssumption,
           NEW i \in DOMAIN g.nodes, x \in {0, i},
           NEW h, h = unhash_name(g, i)
    PROVE  /\ Good(h, w, 0) /\ Kept(g, h)
           /\ i \in DOMAIN h.nodes => h.nodes[i].name = NULL
           /\ w[i] > 0 \/ g.nodes[i].nlookup > 0 => i \in DOMAIN h.nodes
           /\ \A j \in DOMAIN h.nodes : j # i => /\ h.nodes[j].name = g.nodes[j].name
                                                 /\ h.nodes[j].parent = g.nodes[j].parent
<1>. DEFINE n == g.nodes[i]
            p == n.parent
            m == [n EXCEPT !.name = NULL, !.parent = 0]
            bare == [g EXCEPT !.nodes[i] = m]
            v == [w EXCEPT ![p] = @ + 1]
<1>1. /\ TableType(g) /\ w \in Debts /\ RefsOwed(g, w) /\ NamesSound(g)
      /\ NamedCounted(g, x)
    BY DEF Good
<1>2. i \in NodeIds /\ n \in NodeRec /\ n.nlookup \in Nat /\ i # 0 /\ w[i] \in Nat
    BY <1>1, NodeFacts DEF NodeIds, Debts, NodeAssumption
<1>3. CASE n.name = NULL
    <2>1. h = g
        BY <1>3 DEF unhash_name
    <2>2. NamedCounted(g, 0)
        BY <1>1, <1>3 DEF NamedCounted
    <2>3. Kept(g, g)
        BY DEF Kept
    <2>. QED  BY <1>1, <1>3, <2>1, <2>2, <2>3 DEF Good
<1>4. CASE n.name # NULL
    <2>1. p \in DOMAIN g.nodes
        BY <1>1, <1>4 DEF NamesSound
    <2>2. p \in NodeIds /\ w[p] \in Nat
        BY <1>1, <2>1, NodeFacts DEF Debts
    <2>3. v \in Debts /\ v[p] = w[p] + 1 /\ \A j \in NodeIds : j # p => v[j] = w[j]
        BY <1>1, <2>2 DEF Debts
    <2>4. /\ m \in NodeRec /\ m.name = NULL /\ m.refctr = n.refctr /\ m.nlookup = n.nlookup
          /\ m.open_count = n.open_count /\ m.obj = n.obj
        <3>1. 0 \in 0..MaxNode /\ NULL \in AllNames \cup {NULL}
            BY DEF NodeAssumption
        <3>. HIDE DEF n
        <3>2. n \in NodeRec /\ m = [n EXCEPT !.name = NULL, !.parent = 0]
            BY <1>2
        <3>. HIDE DEF m
        <3>. QED  BY <3>1, <3>2 DEF NodeRec
    <2>5. h = unref_node(bare, p)
        <3>1. bare = [g EXCEPT !.nodes[i].name = NULL, !.nodes[i].parent = 0]
            BY <1>1 DEF TableType
        <3>. QED  BY <3>1, <1>4 DEF unhash_name
    <2>. HIDE DEF m, v
    <2>6. /\ TableType(bare) /\ DOMAIN bare.nodes = DOMAIN g.nodes
          /\ bare.abort = g.abort /\ bare.nodes[i] = m
          /\ \A j \in DOMAIN g.nodes : j # i => bare.nodes[j] = g.nodes[j]
        BY <1>1, <2>4, SetNode
    <2>. HIDE DEF bare
    <2>7. \A j : j # p => Children(bare, j) = Children(g, j)
        BY <2>4, <2>6 DEF Children
    <2>8. Children(bare, p) = Children(g, p) \ {i} /\ i \in Children(g, p)
        BY <1>4, <2>4, <2>6 DEF Children
    <2>9. Cardinality(Children(bare, p)) = Cardinality(Children(g, p)) - 1
        <3>1. IsFiniteSet(Children(g, p))
            BY <1>1, ChildrenFinite
        <3>2. Cardinality(Children(g, p) \ {i}) = Cardinality(Children(g, p)) - 1
            BY <2>8, <3>1, FS_RemoveElement
        <3>. QED  BY <2>8, <3>2
    <2>10. RefsOwed(bare, v)
        <3>. SUFFICES ASSUME NEW j \in DOMAIN g.nodes
                      PROVE  bare.nodes[j].refctr = Counts(bare.nodes[j])
                                 + Cardinality(Children(bare, j)) + v[j]
            BY <2>6 DEF RefsOwed
        <3>1. /\ bare.nodes[j].refctr = g.nodes[j].refctr
              /\ Counts(bare.nodes[j]) = Counts(g.nodes[j])
            BY <2>4, <2>6 DEF Counts, One
        <3>2. g.nodes[j].refctr = Counts(g.nodes[j]) + Cardinality(Children(g, j)) + w[j]
            BY <1>1 DEF RefsOwed
        <3>3. j \in NodeIds /\ Cardinality(Children(g, j)) \in Nat /\ Counts(g.nodes[j]) \in Nat
            BY <1>1, NodeFacts, ChildrenFinite DEF Counts, One
        <3>4. CASE j = p
            BY <3>1, <3>2, <3>3, <3>4, <2>2, <2>3, <2>9
        <3>5. CASE j # p
            BY <3>1, <3>2, <3>3, <3>5, <2>3, <2>7
        <3>. QED  BY <3>4, <3>5
    <2>11. NamesSound(bare)
        BY <1>1, <2>4, <2>6 DEF NamesSound
    <2>12. NamedCounted(bare, 0)
        BY <1>1, <2>4, <2>6 DEF NamedCounted
    <2>13. Good(bare, v, 0)
        BY <2>3, <2>6, <2>10, <2>11, <2>12 DEF Good
    <2>14. p # 0 /\ v[p] > 0
        BY <2>2, <2>3 DEF NodeIds, NodeAssumption
    <2>. DEFINE u == [v EXCEPT ![p] = @ - 1]
    <2>15. /\ Good(h, u, 0) /\ h.abort = bare.abort
           /\ DOMAIN h.nodes = DOMAIN bare.nodes
                  \/ (/\ DOMAIN h.nodes = DOMAIN bare.nodes \ {p} /\ v[p] = 1
                      /\ bare.nodes[p].nlookup = 0 /\ Children(bare, p) = {}
                      /\ bare.nodes[p].name = NULL)
           /\ \A j \in DOMAIN h.nodes : Alike(bare.nodes[j], h.nodes[j])
        BY <2>1, <2>5, <2>6, <2>13, <2>14, UnrefPays
    <2>16. u = w
        <3>1. u \in [NodeIds -> Int] /\ u[p] = v[p] - 1 /\ \A j \in NodeIds : j # p => u[j] = v[j]
            BY <2>2, <2>3 DEF Debts
        <3>2. \A j \in NodeIds : u[j] = w[j]
            BY <2>2, <2>3, <3>1
        <3>. HIDE DEF u
        <3>. QED  BY <1>1, <3>1, <3>2 DEF Debts
    <2>. HIDE DEF u
    <2>17. DOMAIN h.nodes \subseteq DOMAIN g.nodes
           /\ \A j \in DOMAIN g.nodes \ DOMAIN h.nodes : j = p
        BY <2>6, <2>15
    <2>18. bare.nodes[p].nlookup = g.nodes[p].nlookup
        BY <2>1, <2>4, <2>6
    <2>19. \A j \in DOMAIN h.nodes : Alike(bare.nodes[j], h.nodes[j])
        BY <2>15
    <2>20. Kept(g, h)
        <3>1. \A j \in DOMAIN g.nodes \ DOMAIN h.nodes :
                  g.nodes[j].nlookup = 0 /\ Children(g, j) # {}
            BY <2>6, <2>8, <2>15, <2>17, <2>18
        <3>2. ASSUME NEW j \in DOMAIN h.nodes
              PROVE  /\ h.nodes[j].nlookup = g.nodes[j].nlookup
                     /\ h.nodes[j].open_count = g.nodes[j].open_count
                     /\ h.nodes[j].obj = g.nodes[j].obj
                     /\ h.nodes[j].name # NULL =>
                                       /\ h.nodes[j].name = g.nodes[j].name
                                       /\ h.nodes[j].parent = g.nodes[j].parent
            BY <2>4, <2>6, <2>17, <2>19 DEF Alike
        <3>. QED  BY <2>6, <2>15, <2>17, <3>1, <3>2 DEF Kept
    <2>21. i \in DOMAIN h.nodes => h.nodes[i].name = NULL
        BY <2>4, <2>6, <2>19 DEF Alike
    <2>22. w[i] > 0 \/ n.nlookup > 0 => i \in DOMAIN h.nodes
        <3>1. CASE i = p
            BY <3>1, <1>2, <2>3, <2>6, <2>15, <2>18
        <3>2. CASE i # p
            BY <3>2, <2>17
        <3>. QED  BY <3>1, <3>2
    <2>23. \A j \in DOMAIN h.nodes : j # i => /\ h.nodes[j].name = g.nodes[j].name
                                              /\ h.nodes[j].parent = g.nodes[j].parent
        BY <2>6, <2>17, <2>19 DEF Alike
    <2>. QED  BY <2>15, <2>16, <2>20, <2>21, <2>22, <2>23
<1>. QED  BY <1>3, <1>4

(* lookup_node finds the node with this parent and name, or there is none. *)
LEMMA LookupNode ==
    ASSUME NEW g, TableType(g), NEW p, NEW n, NEW i, i = lookup_node(g, p, n)
    PROVE  \/ i \in DOMAIN g.nodes /\ g.nodes[i].parent = p /\ g.nodes[i].name = n /\ i # 0
           \/ i = 0 /\ \A j \in DOMAIN g.nodes :
                           ~(g.nodes[j].parent = p /\ g.nodes[j].name = n)
<1>. DEFINE found == {j \in DOMAIN g.nodes : /\ g.nodes[j].parent = p
                                             /\ g.nodes[j].name = n}
<1>1. i = IF found = {} THEN 0 ELSE CHOOSE j \in found : TRUE
    BY DEF lookup_node
<1>2. CASE found = {}
    BY <1>1, <1>2
<1>3. CASE found # {}
    <2>1. i \in found
        BY <1>1, <1>3
    <2>2. i \in NodeIds
        BY <2>1 DEF TableType
    <2>. QED  BY <2>1, <2>2 DEF NodeIds
<1>. QED  BY <1>2, <1>3

\* h is g with another name for i, and perhaps other counts of references.
Renamed(g, h, i, p, n) ==
    /\ h.abort = g.abort /\ DOMAIN h.nodes = DOMAIN g.nodes
    /\ \A j \in DOMAIN g.nodes : /\ h.nodes[j].nlookup = g.nodes[j].nlookup
                                 /\ h.nodes[j].open_count = g.nodes[j].open_count
                                 /\ h.nodes[j].obj = g.nodes[j].obj
                                 /\ j # i => /\ h.nodes[j].name = g.nodes[j].name
                                             /\ h.nodes[j].parent = g.nodes[j].parent
    /\ h.nodes[i].name = n /\ h.nodes[i].parent = p

(* hash_name gives a node without a name one that is free.                 *)
LEMMA HashKeeps ==
    ASSUME NEW g, NEW w, NEW x, Good(g, w, x), NodeAssumption,
           NEW i \in DOMAIN g.nodes, x \in {0, i}, g.nodes[i].name = NULL,
           NEW p \in NodeIds, NEW n \in AllNames, n # NULL,
           lookup_node(g, p, n) = 0,
           NEW h, h = hash_name(g, i, p, n)
    PROVE  /\ p \notin DOMAIN g.nodes => h.abort = TRUE
           /\ p \in DOMAIN g.nodes => Good(h, w, i) /\ Renamed(g, h, i, p, n)
<1>1. /\ TableType(g) /\ w \in Debts /\ RefsOwed(g, w) /\ NamesSound(g)
      /\ NamedCounted(g, x)
    BY DEF Good
<1>2. ASSUME p \notin DOMAIN g.nodes  PROVE h.abort = TRUE
    BY <1>1, <1>2 DEF hash_name, get_node, get_node_nocheck, Abort, TableType
<1>3. ASSUME p \in DOMAIN g.nodes  PROVE Good(h, w, i) /\ Renamed(g, h, i, p, n)
    <2>. DEFINE q == g.nodes[p]
                r == [q EXCEPT !.refctr = @ + 1]
                a == [g EXCEPT !.nodes[p] = r]
                m == a.nodes[i]
                s == [m EXCEPT !.parent = p, !.name = n]
    <2>1. q \in NodeRec /\ q.refctr \in Nat
        BY <1>1, <1>3, NodeFacts
    <2>2. /\ r \in NodeRec /\ r.refctr = q.refctr + 1 /\ r.name = q.name
          /\ r.parent = q.parent /\ r.nlookup = q.nlookup
          /\ r.open_count = q.open_count /\ r.obj = q.obj
        BY <2>1 DEF NodeRec
    <2>. HIDE DEF r, q
    <2>4. /\ TableType(a) /\ DOMAIN a.nodes = DOMAIN g.nodes
          /\ a.abort = g.abort /\ a.nodes[p] = r
          /\ \A j \in DOMAIN g.nodes : j # p => a.nodes[j] = g.nodes[j]
        BY <1>1, <1>3, <2>2, SetNode
    <2>3. h = [a EXCEPT !.nodes[i] = s]
        <3>1. h = [g EXCEPT !.nodes[p].refctr = @ + 1, !.nodes[i].parent = p,
                            !.nodes[i].name = n]
            BY <1>3 DEF hash_name, get_node, get_node_nocheck
        <3>2. a = [g EXCEPT !.nodes[p].refctr = @ + 1]
            BY <1>1, <1>3 DEF TableType, r, q
        <3>. HIDE DEF a
        <3>3. h = [a EXCEPT !.nodes[i].parent = p, !.nodes[i].name = n]
            BY <3>1, <3>2
        <3>. QED  BY <2>4, <3>3 DEF TableType
    <2>. HIDE DEF a
    <2>5. m \in NodeRec
        BY <2>4, NodeFacts
    <2>6. p \in 0..MaxNode
        BY DEF NodeIds, NodeAssumption
    <2>. HIDE DEF m
    <2>7. /\ s \in NodeRec /\ s.refctr = m.refctr /\ s.name = n
          /\ s.parent = p /\ s.nlookup = m.nlookup
          /\ s.open_count = m.open_count /\ s.obj = m.obj
        BY <2>5, <2>6 DEF NodeRec
    <2>. HIDE DEF s
    <2>8. /\ TableType(h) /\ DOMAIN h.nodes = DOMAIN g.nodes
          /\ h.abort = g.abort /\ h.nodes[i] = s
          /\ \A j \in DOMAIN g.nodes : j # i => h.nodes[j] = a.nodes[j]
        BY <2>3, <2>4, <2>7, SetNode
    <2>9. Renamed(g, h, i, p, n)
        <3>1. ASSUME NEW j \in DOMAIN g.nodes
              PROVE  /\ h.nodes[j].nlookup = g.nodes[j].nlookup
                     /\ h.nodes[j].open_count = g.nodes[j].open_count
                     /\ h.nodes[j].obj = g.nodes[j].obj
                     /\ j # i => /\ h.nodes[j].name = g.nodes[j].name
                                 /\ h.nodes[j].parent = g.nodes[j].parent
            BY <2>2, <2>4, <2>7, <2>8 DEF q, m
        <3>. QED  BY <2>7, <2>8, <3>1 DEF Renamed
    <2>10. \A j \in DOMAIN g.nodes : j # p => h.nodes[j].refctr = g.nodes[j].refctr
        BY <2>2, <2>4, <2>7, <2>8 DEF q, m
    <2>11. h.nodes[p].refctr = g.nodes[p].refctr + 1
        BY <1>3, <2>2, <2>4, <2>7, <2>8 DEF q, m
    <2>12. \A j : j # p => Children(h, j) = Children(g, j)
        BY <2>9 DEF Children, Renamed
    <2>13. Children(h, p) = Children(g, p) \cup {i} /\ i \notin Children(g, p)
        BY <2>9 DEF Children, Renamed
    <2>14. Cardinality(Children(h, p)) = Cardinality(Children(g, p)) + 1
        <3>1. IsFiniteSet(Children(g, p))
            BY <1>1, ChildrenFinite
        <3>2. Cardinality(Children(g, p) \cup {i}) = Cardinality(Children(g, p)) + 1
            BY <2>13, <3>1, FS_AddElement
        <3>. QED  BY <2>13, <3>2
    <2>15. RefsOwed(h, w)
        <3>. SUFFICES ASSUME NEW j \in DOMAIN g.nodes
                      PROVE  h.nodes[j].refctr = Counts(h.nodes[j])
                                 + Cardinality(Children(h, j)) + w[j]
            BY <2>8 DEF RefsOwed
        <3>1. Counts(h.nodes[j]) = Counts(g.nodes[j])
            BY <2>9 DEF Counts, One, Renamed
        <3>2. g.nodes[j].refctr = Counts(g.nodes[j]) + Cardinality(Children(g, j)) + w[j]
            BY <1>1 DEF RefsOwed
        <3>3. Cardinality(Children(g, j)) \in Nat /\ Counts(g.nodes[j]) \in Nat /\ w[j] \in Nat
            BY <1>1, NodeFacts, ChildrenFinite DEF Counts, One, Debts
        <3>4. CASE j = p
            BY <3>1, <3>2, <3>3, <3>4, <2>11, <2>14
        <3>5. CASE j # p
            BY <3>1, <3>2, <3>3, <3>5, <2>10, <2>12
        <3>. QED  BY <3>4, <3>5
    <2>16. NamesSound(h)
        <3>1. \A j \in DOMAIN g.nodes : ~(g.nodes[j].parent = p /\ g.nodes[j].name = n)
            <4>1. PICK c : c = lookup_node(g, p, n)
                OBVIOUS
            <4>. QED  BY <1>1, <4>1, LookupNode
        <3>2. ASSUME NEW j \in DOMAIN h.nodes, h.nodes[j].name # NULL
              PROVE  h.nodes[j].parent \in DOMAIN h.nodes
            BY <1>1, <1>3, <2>9, <3>2 DEF NamesSound, Renamed
        <3>3. ASSUME NEW j \in DOMAIN h.nodes, h.nodes[j].name # NULL,
                     NEW y \in DOMAIN h.nodes, h.nodes[y].name = h.nodes[j].name,
                     h.nodes[y].parent = h.nodes[j].parent, j # y
              PROVE  FALSE
            <4>1. CASE j # i /\ y # i
                BY <1>1, <2>9, <3>3, <4>1 DEF NamesSound, Renamed
            <4>2. CASE j = i \/ y = i
                BY <2>9, <3>1, <3>3, <4>2 DEF Renamed
            <4>. QED  BY <4>1, <4>2
        <3>. QED  BY <3>2, <3>3 DEF NamesSound
    <2>17. NamedCounted(h, i)
        <3>1. \A j \in DOMAIN g.nodes : j # i => j # x
            BY <1>1, NodeFacts DEF NodeIds, NodeAssumption
        <3>. QED  BY <1>1, <2>9, <3>1 DEF NamedCounted, Renamed
    <2>. QED  BY <1>1, <2>8, <2>9, <2>15, <2>16, <2>17 DEF Good
<1>. QED  BY <1>2, <1>3

\* h is g with another lookup count of i.
Recounted(g, h, i, n) ==
    /\ h.abort = g.abort /\ DOMAIN h.nodes = DOMAIN g.nodes
    /\ \A j \in DOMAIN g.nodes : /\ h.nodes[j].name = g.nodes[j].name
                                 /\ h.nodes[j].parent = g.nodes[j].parent
                                 /\ h.nodes[j].open_count = g.nodes[j].open_count
                                 /\ h.nodes[j].obj = g.nodes[j].obj
                                 /\ j # i => h.nodes[j].nlookup = g.nodes[j].nlookup
    /\ h.nodes[i].nlookup = n

LEMMA Swapped ==
    ASSUME NEW a \in Nat, NEW b \in Nat, NEW c \in Nat, NEW d \in Nat, NEW e \in Nat,
           NEW z, z = c + e + d, a + b = c + d
    PROVE  z = a + e + b
OBVIOUS

(* A lookup count is changed: the reference that stands for all of them is *)
(* taken, or is owed.                                                      *)
LEMMA RecountKeeps ==
    ASSUME NEW g, NEW w, NEW x, Good(g, w, x), NEW i \in DOMAIN g.nodes, x \in {0, i},
           NEW n \in Nat, NEW h, h = [g EXCEPT !.nodes[i].nlookup = n],
           NEW v \in Debts, \A j \in NodeIds : j # i => v[j] = w[j],
           One(n) + v[i] = Counts(g.nodes[i]) + w[i],
           NEW y \in {0, i}, n > 0 \/ g.nodes[i].name = NULL \/ y = i,
           NodeAssumption
    PROVE  Good(h, v, y) /\ Recounted(g, h, i, n)
<1>1. /\ TableType(g) /\ w \in Debts /\ RefsOwed(g, w) /\ NamesSound(g)
      /\ NamedCounted(g, x)
    BY DEF Good
<1>. DEFINE q == g.nodes[i]
            r == [q EXCEPT !.nlookup = n]
<1>2. q \in NodeRec
    BY <1>1, NodeFacts
<1>3. h = [g EXCEPT !.nodes[i] = r]
    BY <1>1 DEF TableType
<1>. HIDE DEF q
<1>4. /\ r \in NodeRec /\ r.refctr = q.refctr /\ r.name = q.name
      /\ r.parent = q.parent /\ r.nlookup = n
      /\ r.open_count = q.open_count /\ r.obj = q.obj
    BY <1>2 DEF NodeRec
<1>. HIDE DEF r
<1>5. /\ TableType(h) /\ DOMAIN h.nodes = DOMAIN g.nodes
      /\ h.abort = g.abort /\ h.nodes[i] = r
      /\ \A j \in DOMAIN g.nodes : j # i => h.nodes[j] = g.nodes[j]
    <2>. DEFINE e == [g EXCEPT !.nodes[i] = r]
    <2>1. /\ TableType(e) /\ DOMAIN e.nodes = DOMAIN g.nodes
          /\ e.abort = g.abort /\ e.nodes[i] = r
          /\ \A j \in DOMAIN g.nodes : j # i => e.nodes[j] = g.nodes[j]
        BY <1>1, <1>4, SetNode
    <2>. HIDE DEF e
    <2>2. h = e
        BY <1>3 DEF e
    <2>. QED  BY <2>1, <2>2
<1>6. Recounted(g, h, i, n)
    BY <1>4, <1>5 DEF Recounted, q
<1>7. \A j : Children(h, j) = Children(g, j)
    BY <1>6 DEF Recounted, Children
<1>8. RefsOwed(h, v)
    <2>. SUFFICES ASSUME NEW j \in DOMAIN g.nodes
                  PROVE  h.nodes[j].refctr = Counts(h.nodes[j])
                             + Cardinality(Children(h, j)) + v[j]
        BY <1>5 DEF RefsOwed
    <2>1. g.nodes[j].refctr = Counts(g.nodes[j]) + Cardinality(Children(g, j)) + w[j]
        BY <1>1 DEF RefsOwed
    <2>2. /\ Cardinality(Children(g, j)) \in Nat /\ Counts(g.nodes[j]) \in Nat
          /\ w[j] \in Nat /\ v[j] \in Nat /\ j \in NodeIds
        BY <1>1, NodeFacts, ChildrenFinite DEF Counts, One, Debts
    <2>3. CASE j # i
        BY <2>1, <2>2, <2>3, <1>5, <1>7
    <2>4. CASE j = i
        <3>1. Counts(h.nodes[i]) = One(n)
            BY <1>4, <1>5 DEF Counts, One
        <3>2. h.nodes[i].refctr = g.nodes[i].refctr
            BY <1>4, <1>5 DEF q
        <3>3. Counts(h.nodes[i]) + v[i] = Counts(g.nodes[i]) + w[i]
            BY <3>1
        <3>4. Counts(h.nodes[i]) \in Nat
            BY <3>1 DEF One
        <3>5. PICK a, b, c, d, e, z : /\ a = Counts(h.nodes[i]) /\ b = v[i] /\ d = w[i]
                                       /\ c = Counts(g.nodes[i]) /\ z = g.nodes[i].refctr
                                       /\ e = Cardinality(Children(g, i))
            OBVIOUS
        <3>6. /\ a \in Nat /\ b \in Nat /\ c \in Nat /\ d \in Nat /\ e \in Nat
              /\ z = c + e + d /\ a + b = c + d
            BY <2>1, <2>2, <2>4, <3>3, <3>4, <3>5
        <3>7. z = a + e + b
            BY <3>6, Swapped, SMT
        <3>8. h.nodes[i].refctr = Counts(h.nodes[i]) + Cardinality(Children(g, i)) + v[i]
            BY <3>2, <3>5, <3>7
        <3>. QED  BY <2>4, <3>8, <1>7
    <2>. QED  BY <2>3, <2>4
<1>9. NamesSound(h)
    BY <1>1, <1>6 DEF NamesSound, Recounted
<1>10. NamedCounted(h, y)
    <2>1. \A j \in DOMAIN g.nodes : j # i => j # x /\ j # y
        BY <1>1, NodeFacts DEF NodeIds, NodeAssumption
    <2>. QED  BY <1>1, <1>6, <2>1 DEF NamedCounted, Recounted
<1>. QED  BY <1>5, <1>6, <1>8, <1>9, <1>10 DEF Good

\* A table with nothing owed.
Sound(g) == Good(g, NoDebt, 0)

LEMMA NoDebtType == NoDebt \in Debts /\ \A i \in NodeIds : NoDebt[i] = 0
BY DEF NoDebt, Debts

LEMMA SoundMeans ==
    ASSUME NEW g, Sound(g), NodeAssumption
    PROVE  RefctrSound(g) /\ NamesSound(g)
<1>1. TableType(g) /\ RefsOwed(g, NoDebt) /\ NamesSound(g)
    BY DEF Sound, Good
<1>2. ASSUME NEW i \in DOMAIN g.nodes
      PROVE  g.nodes[i].refctr = (IF g.nodes[i].nlookup > 0 THEN 1 ELSE 0)
                                 + Cardinality(Children(g, i))
    <2>1. g.nodes[i].refctr = Counts(g.nodes[i]) + Cardinality(Children(g, i)) + NoDebt[i]
        BY <1>1 DEF RefsOwed
    <2>2. NoDebt[i] = 0 /\ Cardinality(Children(g, i)) \in Nat
        BY <1>1, NodeFacts, NoDebtType, ChildrenFinite
    <2>3. Counts(g.nodes[i]) \in Nat
        BY DEF Counts, One
    <2>4. g.nodes[i].refctr = Counts(g.nodes[i]) + Cardinality(Children(g, i))
        BY <2>1, <2>2, <2>3
    <2>. QED  BY <2>4 DEF Counts, One
<1>. QED  BY <1>1, <1>2 DEF RefctrSound

\* The lookups that are counted for an id.
Lookups(g, i) == IF i \in DOMAIN g.nodes THEN g.nodes[i].nlookup ELSE 0

(* next_id is an id that no node has.                                      *)
LEMMA NextIdFree ==
    ASSUME NEW g, FreeIds(g) # {}
    PROVE  next_id(g) \in FreeIds(g)
<1>1. FreeIds(g) \subseteq Nat
    BY DEF FreeIds, NodeIds
<1>2. \E i \in FreeIds(g) : \A j \in FreeIds(g) : i =< j
    BY <1>1, LeastNumber
<1>. QED  BY <1>2, Zenon DEF next_id

\* The table with one more node, that has no name yet.
WithNew(g, id, obj) ==
    [g EXCEPT !.nodes = [j \in DOMAIN g.nodes \cup {id} |->
                             IF j = id THEN NewNode(obj) ELSE g.nodes[j]]]

\* The new node has its reference before it is counted.
NewDebt(id) == [NoDebt EXCEPT ![id] = 1]

LEMMA NewKeeps ==
    ASSUME NEW g, Sound(g), NEW id \in FreeIds(g), NEW obj \in Objs, NodeAssumption,
           NEW h, h = WithNew(g, id, obj)
    PROVE  /\ Good(h, NewDebt(id), 0) /\ h.abort = g.abort
           /\ DOMAIN h.nodes = DOMAIN g.nodes \cup {id}
           /\ h.nodes[id] = NewNode(obj) /\ \A j \in DOMAIN g.nodes : h.nodes[j] = g.nodes[j]
<1>1. /\ TableType(g) /\ RefsOwed(g, NoDebt) /\ NamesSound(g) /\ NamedCounted(g, 0)
    BY DEF Sound, Good
<1>2. id \in NodeIds /\ id \notin DOMAIN g.nodes
    BY DEF FreeIds
<1>. DEFINE n == NewNode(obj)
            v == NewDebt(id)
<1>3. /\ n \in NodeRec /\ n.name = NULL /\ n.nlookup = 0 /\ n.refctr = 1
      /\ n.open_count = 0 /\ n.obj = obj /\ n.parent = 0
    BY DEF NodeRec, NewNode, NodeAssumption
<1>. HIDE DEF n
<1>4. /\ TableType(h) /\ h.abort = g.abort /\ DOMAIN h.nodes = DOMAIN g.nodes \cup {id}
      /\ h.nodes[id] = n /\ \A j \in DOMAIN g.nodes : h.nodes[j] = g.nodes[j]
    BY <1>1, <1>2, <1>3 DEF TableType, WithNew, n
<1>5. v \in Debts /\ v[id] = 1 /\ \A j \in NodeIds : j # id => v[j] = 0
    BY <1>2, NoDebtType DEF NewDebt, Debts
<1>. HIDE DEF v
<1>6. \A j : Children(h, j) = Children(g, j)
    BY <1>2, <1>3, <1>4 DEF Children
<1>7. Children(g, id) = {}
    BY <1>1, <1>2 DEF NamesSound, Children
<1>8. RefsOwed(h, v)
    <2>. SUFFICES ASSUME NEW j \in DOMAIN h.nodes
                  PROVE  h.nodes[j].refctr = Counts(h.nodes[j])
                             + Cardinality(Children(h, j)) + v[j]
        BY DEF RefsOwed
    <2>1. CASE j = id
        <3>1. Counts(n) = 0 /\ Cardinality(Children(h, id)) = 0
            <4>1. Counts(n) = 0
                BY <1>3 DEF Counts, One
            <4>2. Children(h, id) = {} /\ Cardinality({}) = 0
                BY <1>6, <1>7, FS_EmptySet
            <4>. QED  BY <4>1, <4>2
        <3>. QED  BY <2>1, <3>1, <1>3, <1>4, <1>5
    <2>2. CASE j # id
        <3>1. j \in DOMAIN g.nodes /\ j \in NodeIds
            BY <2>2, <1>1, <1>4, NodeFacts
        <3>2. v[j] = NoDebt[j]
            BY <2>2, <3>1, <1>5, NoDebtType
        <3>. QED  BY <3>1, <3>2, <1>1, <1>4, <1>6 DEF RefsOwed
    <2>. QED  BY <2>1, <2>2
<1>9. NamesSound(h) /\ NamedCounted(h, 0)
    BY <1>1, <1>3, <1>4 DEF NamesSound, NamedCounted
<1>. QED  BY <1>4, <1>5, <1>8, <1>9 DEF Good, v, n

\* What find_node does to a table when it finds or makes a node under p.
Found(g, h, ino, p) ==
    /\ h.abort = g.abort /\ DOMAIN h.nodes = DOMAIN g.nodes \cup {ino} /\ ino \in NodeIds
    /\ \A i \in NodeIds : Lookups(h, i) = IF i = ino THEN Lookups(g, i) + 1 ELSE Lookups(g, i)
    /\ \A i \in DOMAIN g.nodes : /\ h.nodes[i].open_count = g.nodes[i].open_count
                                 /\ h.nodes[i].obj = g.nodes[i].obj
                                 /\ h.nodes[i].parent = g.nodes[i].parent
                                 /\ h.nodes[i].name = g.nodes[i].name
    /\ ino \notin DOMAIN g.nodes => /\ h.nodes[ino].open_count = 0
                                    /\ h.nodes[ino].parent = p

(* find_node counts one more lookup of one node, whether it was there or   *)
(* is made.                                                                *)
LEMMA FindSound ==
    ASSUME NEW g, Sound(g), NodeAssumption, NEW p \in DOMAIN g.nodes,
           NEW n \in AllNames, n # NULL, NEW obj \in Objs, FreeIds(g) # {},
           NEW r \in find_node(g, p, n, obj)
    PROVE  /\ Sound(r.f)
           /\ r.ino = 0 => r.f = g
           /\ r.ino # 0 => Found(g, r.f, r.ino, p)
<1>1. TableType(g) /\ NoDebt \in Debts
    BY NoDebtType DEF Sound, Good
<1>2. PICK i : i = lookup_node(g, p, n)
    OBVIOUS
<1>3. PICK id : id = next_id(g)
    OBVIOUS
<1>4. id \in FreeIds(g) /\ id \in NodeIds /\ id \notin DOMAIN g.nodes /\ id # 0
    BY <1>3, NextIdFree DEF FreeIds, NodeIds
<1>5. p \in NodeIds
    BY <1>1, NodeFacts
<1>6. CASE i # 0
    <2>. DEFINE h == [g EXCEPT !.nodes[i].nlookup = @ + 1]
                m == g.nodes[i].nlookup + 1
    <2>1. r = [f |-> h, ino |-> i]
        BY <1>2, <1>6 DEF find_node
    <2>2. i \in DOMAIN g.nodes
        BY <1>1, <1>2, <1>6, LookupNode
    <2>3. m \in Nat /\ m > 0 /\ i \in NodeIds /\ g.nodes[i].nlookup \in Nat
        BY <1>1, <2>2, NodeFacts
    <2>4. g.nodes[i].name = n
        BY <1>1, <1>2, <1>6, LookupNode
    <2>5. g.nodes[i].nlookup > 0
        BY <1>4, <1>6, <2>2, <2>4 DEF Sound, Good, NamedCounted
    <2>6. One(m) + NoDebt[i] = Counts(g.nodes[i]) + NoDebt[i]
        BY <2>3, <2>5 DEF Counts, One
    <2>7. h = [g EXCEPT !.nodes[i].nlookup = m]
        OBVIOUS
    <2>. HIDE DEF h, m
    <2>8. Good(h, NoDebt, 0) /\ Recounted(g, h, i, m)
        BY <1>1, <2>2, <2>3, <2>6, <2>7, RecountKeeps DEF Sound
    <2>9. Found(g, h, i, p)
        <3>1. DOMAIN h.nodes = DOMAIN g.nodes /\ h.abort = g.abort
            BY <2>8 DEF Recounted
        <3>2. ASSUME NEW j \in NodeIds
              PROVE  Lookups(h, j) = IF j = i THEN Lookups(g, j) + 1 ELSE Lookups(g, j)
            BY <2>2, <2>8 DEF Recounted, Lookups, m
        <3>. QED  BY <2>2, <2>3, <2>8, <3>1, <3>2 DEF Found, Recounted
    <2>10. r.f = h /\ r.ino = i
        BY <2>1
    <2>. QED  BY <1>6, <2>8, <2>9, <2>10 DEF Sound
<1>7. CASE i = 0
    <2>. DEFINE e == WithNew(g, id, obj)
                a == hash_name(e, id, p, n)
                h == [a EXCEPT !.nodes[id].nlookup = 1]
    <2>1. r \in {[f |-> h, ino |-> id], [f |-> g, ino |-> 0]}
        BY <1>2, <1>3, <1>7 DEF find_node, WithNew
    <2>. HIDE DEF e
    <2>2. /\ Good(e, NewDebt(id), 0) /\ e.abort = g.abort
          /\ DOMAIN e.nodes = DOMAIN g.nodes \cup {id}
          /\ e.nodes[id] = NewNode(obj) /\ \A j \in DOMAIN g.nodes : e.nodes[j] = g.nodes[j]
        BY <1>4, NewKeeps DEF e
    <2>3. /\ e.nodes[id].name = NULL /\ e.nodes[id].nlookup = 0 /\ e.nodes[id].open_count = 0
        BY <2>2 DEF NewNode
    <2>4. lookup_node(e, p, n) = 0
        <3>1. PICK c : c = lookup_node(e, p, n)
            OBVIOUS
        <3>2. TableType(e)
            BY <2>2 DEF Good
        <3>3. \A j \in DOMAIN g.nodes : ~(g.nodes[j].parent = p /\ g.nodes[j].name = n)
            BY <1>1, <1>2, <1>7, LookupNode
        <3>. QED  BY <3>1, <3>2, <3>3, <2>2, <2>3, LookupNode
    <2>. HIDE DEF a
    <2>5. Good(a, NewDebt(id), id) /\ Renamed(e, a, id, p, n)
        BY <1>5, <2>2, <2>3, <2>4, HashKeeps DEF a
    <2>6. id \in DOMAIN a.nodes /\ Counts(a.nodes[id]) = 0
        BY <2>2, <2>3, <2>5 DEF Renamed, Counts, One
    <2>7. NewDebt(id)[id] = 1 /\ \A j \in NodeIds : j # id => NoDebt[j] = NewDebt(id)[j]
        BY <1>4, NoDebtType DEF NewDebt, Debts
    <2>. DEFINE one == 1
    <2>8. One(one) + NoDebt[id] = Counts(a.nodes[id]) + NewDebt(id)[id]
        BY <1>4, <2>6, <2>7, NoDebtType DEF One
    <2>9. h = [a EXCEPT !.nodes[id].nlookup = one] /\ one \in Nat /\ one > 0
        OBVIOUS
    <2>. HIDE DEF h, one
    <2>14. 0 \in {0, id} /\ id \in {0, id}
        OBVIOUS
    <2>15. Good(h, NoDebt, 0) /\ Recounted(a, h, id, one)
        BY <1>1, <2>5, <2>6, <2>7, <2>8, <2>9, <2>14, RecountKeeps, SMTT(60)
    <2>10. Good(h, NoDebt, 0) /\ Recounted(a, h, id, 1)
        BY <2>15 DEF one
    <2>11. Found(g, h, id, p)
        <3>1. DOMAIN h.nodes = DOMAIN g.nodes \cup {id} /\ h.abort = g.abort
            BY <2>2, <2>5, <2>10 DEF Recounted, Renamed
        <3>2. ASSUME NEW j \in DOMAIN g.nodes
              PROVE  /\ h.nodes[j].nlookup = g.nodes[j].nlookup
                     /\ h.nodes[j].open_count = g.nodes[j].open_count
                     /\ h.nodes[j].obj = g.nodes[j].obj
                     /\ h.nodes[j].parent = g.nodes[j].parent
                     /\ h.nodes[j].name = g.nodes[j].name
            BY <1>4, <2>2, <2>5, <2>10 DEF Recounted, Renamed
        <3>3. h.nodes[id].nlookup = 1 /\ h.nodes[id].open_count = 0 /\ h.nodes[id].parent = p
            BY <2>2, <2>3, <2>5, <2>10 DEF Recounted, Renamed
        <3>4. ASSUME NEW j \in NodeIds
              PROVE  Lookups(h, j) = IF j = id THEN Lookups(g, j) + 1 ELSE Lookups(g, j)
            BY <1>4, <3>1, <3>2, <3>3 DEF Lookups
        <3>. QED  BY <1>4, <3>1, <3>2, <3>3, <3>4 DEF Found
    <2>12. CASE r = [f |-> h, ino |-> id]
        <3>1. r.f = h /\ r.ino = id
            BY <2>12
        <3>. QED  BY <1>4, <2>10, <2>11, <3>1 DEF Sound
    <2>13. CASE r = [f |-> g, ino |-> 0]
        BY <2>13
    <2>. QED  BY <2>1, <2>12, <2>13
<1>. QED  BY <1>6, <1>7

(* What is kept keeps its lookups, and what goes has none.                 *)
LEMMA KeptLookups ==
    ASSUME NEW g, NEW h, Kept(g, h)
    PROVE  \A i \in NodeIds : Lookups(h, i) = Lookups(g, i)
BY DEF Kept, Lookups

(* A change of a node that is no matter of its references and its name.    *)
LEMMA OtherKeeps ==
    ASSUME NEW g, NEW w, NEW x, Good(g, w, x), NEW i \in DOMAIN g.nodes,
           NEW r \in NodeRec, r.refctr = g.nodes[i].refctr, r.nlookup = g.nodes[i].nlookup,
           r.name = g.nodes[i].name, r.parent = g.nodes[i].parent,
           NEW h, h = [g EXCEPT !.nodes[i] = r]
    PROVE  Good(h, w, x)
<1>1. /\ TableType(g) /\ w \in Debts /\ RefsOwed(g, w) /\ NamesSound(g)
      /\ NamedCounted(g, x)
    BY DEF Good
<1>2. /\ TableType(h) /\ DOMAIN h.nodes = DOMAIN g.nodes /\ h.nodes[i] = r
      /\ \A j \in DOMAIN g.nodes : j # i => h.nodes[j] = g.nodes[j]
    BY <1>1, SetNode
<1>3. \A j \in DOMAIN g.nodes : /\ h.nodes[j].name = g.nodes[j].name
                                /\ h.nodes[j].parent = g.nodes[j].parent
                                /\ h.nodes[j].nlookup = g.nodes[j].nlookup
                                /\ h.nodes[j].refctr = g.nodes[j].refctr
    BY <1>2
<1>4. \A j : Children(h, j) = Children(g, j)
    BY <1>2, <1>3 DEF Children
<1>5. RefsOwed(h, w)
    BY <1>1, <1>2, <1>3, <1>4 DEF RefsOwed, Counts, One
<1>6. NamesSound(h) /\ NamedCounted(h, x)
    BY <1>1, <1>2, <1>3 DEF NamesSound, NamedCounted
<1>. QED  BY <1>1, <1>2, <1>5, <1>6 DEF Good

\* What forget_node does to a table when it takes n lookups of i back.
Forgotten(g, h, i, n) ==
    /\ h.abort = g.abort /\ DOMAIN h.nodes \subseteq DOMAIN g.nodes
    /\ \A j \in NodeIds : Lookups(h, j) = IF j = i THEN Lookups(g, j) - n ELSE Lookups(g, j)
    /\ \A j \in DOMAIN h.nodes : /\ h.nodes[j].open_count = g.nodes[j].open_count
                                 /\ h.nodes[j].obj = g.nodes[j].obj
                                 /\ h.nodes[j].name # NULL =>
                                       /\ h.nodes[j].name = g.nodes[j].name
                                       /\ h.nodes[j].parent = g.nodes[j].parent
    /\ \A j \in DOMAIN g.nodes \ DOMAIN h.nodes :
           j # i => g.nodes[j].nlookup = 0 /\ Children(g, j) # {}

(* forget_node takes back lookups that were counted.                       *)
LEMMA ForgetSound ==
    ASSUME NEW g, Sound(g), NodeAssumption, NEW i \in DOMAIN g.nodes, i # FUSE_ROOT_ID,
           NEW n \in Nat, n > 0, g.nodes[i].nlookup >= n,
           NEW h, h = forget_node(g, i, n)
    PROVE  Sound(h) /\ Forgotten(g, h, i, n)
<1>1. TableType(g) /\ NoDebt \in Debts
    BY NoDebtType DEF Sound, Good
<1>2. i \in NodeIds /\ g.nodes[i].nlookup \in Nat /\ i # 0
    BY <1>1, NodeFacts DEF NodeIds
<1>. DEFINE m == g.nodes[i].nlookup - n
            less == [g EXCEPT !.nodes[i].nlookup = m]
            v == IF m = 0 THEN NewDebt(i) ELSE NoDebt
            y == IF m = 0 THEN i ELSE 0
<1>3. m \in Nat
    BY <1>2
<1>4. v \in Debts /\ \A j \in NodeIds : j # i => v[j] = NoDebt[j]
    BY <1>2, NoDebtType DEF NewDebt, Debts
<1>5. One(m) + v[i] = Counts(g.nodes[i]) + NoDebt[i]
    BY <1>2, NoDebtType DEF NewDebt, Counts, One, Debts
<1>6. y \in {0, i} /\ (m > 0 \/ y = i)
    BY <1>3
<1>7. h = IF less.nodes[i].nlookup = 0 THEN unref_node(unhash_name(less, i), i) ELSE less
    <2>1. i \in DOMAIN g.nodes /\ ~(g.nodes[i].nlookup < n)
        BY <1>2
    <2>. QED  BY <2>1 DEF forget_node, get_node_nocheck
<1>. HIDE DEF v, y, less
<1>8. less = [g EXCEPT !.nodes[i].nlookup = m]
    BY DEF less
<1>. HIDE DEF m
<1>9. Good(less, v, y) /\ Recounted(g, less, i, m)
    <2>1. 0 \in {0, i} /\ (m > 0 \/ g.nodes[i].name = NULL \/ y = i) /\ y \in {0, i}
        BY <1>6
    <2>2. Good(g, NoDebt, 0)
        BY DEF Sound
    <2>3. i \in DOMAIN g.nodes /\ m \in Nat /\ v \in Debts
        BY <1>3, <1>4
    <2>4. \A j \in NodeIds : j # i => v[j] = NoDebt[j]
        BY <1>4
    <2>. QED  BY <2>3, <2>4, <1>5, <1>8, <2>1, <2>2, RecountKeeps, SMTT(60)
<1>10. i \in DOMAIN less.nodes /\ less.nodes[i].nlookup = m
    BY <1>9 DEF Recounted
<1>11. \A j \in NodeIds : Lookups(less, j) = IF j = i THEN Lookups(g, j) - n ELSE Lookups(g, j)
    BY <1>9, <1>10 DEF Recounted, Lookups, m
<1>12. CASE m # 0
    <2>1. h = less
        BY <1>7, <1>10, <1>12
    <2>2. v = NoDebt /\ y = 0
        BY <1>12 DEF v, y
    <2>3. Forgotten(g, less, i, n)
        BY <1>9, <1>11 DEF Forgotten, Recounted
    <2>. QED  BY <1>9, <2>1, <2>2, <2>3 DEF Sound
<1>13. CASE m = 0
    <2>1. v = NewDebt(i) /\ y = i
        BY <1>13 DEF v, y
    <2>2. v[i] = 1
        BY <1>2, <2>1, NoDebtType DEF NewDebt, Debts
    <2>3. PICK e : e = unhash_name(less, i)
        OBVIOUS
    <2>4. /\ Good(e, v, 0) /\ Kept(less, e)
          /\ i \in DOMAIN e.nodes => e.nodes[i].name = NULL
          /\ i \in DOMAIN e.nodes
        BY <1>9, <1>10, <2>1, <2>2, <2>3, UnhashKeeps
    <2>5. h = unref_node(e, i)
        BY <1>7, <1>10, <1>13, <2>3
    <2>6. /\ Good(h, [v EXCEPT ![i] = @ - 1], 0)
          /\ h.abort = e.abort
          /\ DOMAIN h.nodes = DOMAIN e.nodes
                  \/ (/\ DOMAIN h.nodes = DOMAIN e.nodes \ {i} /\ v[i] = 1
                      /\ e.nodes[i].nlookup = 0 /\ Children(e, i) = {}
                      /\ e.nodes[i].name = NULL)
          /\ \A j \in DOMAIN h.nodes : Alike(e.nodes[j], h.nodes[j])
        <3>1. Owing(e, v, 0, i) /\ i \in DOMAIN e.nodes /\ Good(e, v, 0)
            BY <1>2, <2>2, <2>4 DEF Owing
        <3>2. Paid(e, v, 0, i, h)
            BY <2>5, <3>1, UnrefPaid
        <3>. QED  BY <3>2 DEF Paid
    <2>7. [v EXCEPT ![i] = @ - 1] = NoDebt
        BY <1>2, <2>1, NoDebtType DEF NewDebt, NoDebt, Debts
    <2>8. \A j : Children(less, j) = Children(g, j)
        BY <1>9 DEF Recounted, Children
    <2>9. DOMAIN h.nodes \subseteq DOMAIN g.nodes /\ h.abort = g.abort
        BY <1>9, <2>4, <2>6 DEF Kept, Recounted
    <2>10. ASSUME NEW j \in DOMAIN h.nodes
           PROVE  /\ h.nodes[j].open_count = g.nodes[j].open_count
                  /\ h.nodes[j].obj = g.nodes[j].obj
                  /\ h.nodes[j].name # NULL =>
                                       /\ h.nodes[j].name = g.nodes[j].name
                                       /\ h.nodes[j].parent = g.nodes[j].parent
        BY <1>9, <2>4, <2>6 DEF Kept, Recounted, Alike
    <2>11. ASSUME NEW j \in DOMAIN g.nodes \ DOMAIN h.nodes, j # i
           PROVE  g.nodes[j].nlookup = 0 /\ Children(g, j) # {}
        BY <1>9, <2>4, <2>6, <2>8, <2>11 DEF Kept, Recounted
    <2>12. ASSUME NEW j \in NodeIds
           PROVE  Lookups(h, j) = Lookups(less, j)
        <3>1. Lookups(e, j) = Lookups(less, j)
            BY <2>4, KeptLookups
        <3>2. Lookups(h, j) = Lookups(e, j)
            BY <2>6 DEF Lookups, Alike
        <3>. QED  BY <3>1, <3>2
    <2>. QED  BY <1>11, <2>6, <2>7, <2>9, <2>10, <2>11, <2>12 DEF Sound, Forgotten
<1>. QED  BY <1>12, <1>13

(* remove_node keeps the table sound.                                      *)
LEMMA RemoveSound ==
    ASSUME NEW g, Sound(g), NodeAssumption, NEW p, NEW n,
           NEW h, h = remove_node(g, p, n)
    PROVE  Sound(h) /\ Kept(g, h)
<1>1. TableType(g) /\ Good(g, NoDebt, 0)
    BY DEF Sound, Good
<1>2. PICK i : i = lookup_node(g, p, n)
    OBVIOUS
<1>3. CASE i = 0
    <2>1. h = g
        BY <1>2, <1>3 DEF remove_node
    <2>2. Kept(g, g)
        BY DEF Kept
    <2>. QED  BY <2>1, <2>2
<1>4. CASE i # 0
    <2>1. i \in DOMAIN g.nodes
        BY <1>1, <1>2, <1>4, LookupNode
    <2>2. h = unhash_name(g, i)
        BY <1>2, <1>4 DEF remove_node
    <2>. QED  BY <1>1, <2>1, <2>2, UnhashKeeps DEF Sound
<1>. QED  BY <1>3, <1>4

\* What rename_node does to a table when a node moves to p.
Moved(g, h, p) ==
    /\ h.abort = g.abort /\ DOMAIN h.nodes \subseteq DOMAIN g.nodes
    /\ \A j \in DOMAIN h.nodes : /\ h.nodes[j].nlookup = g.nodes[j].nlookup
                                 /\ h.nodes[j].open_count = g.nodes[j].open_count
                                 /\ h.nodes[j].obj = g.nodes[j].obj
                                 /\ h.nodes[j].name # NULL =>
                                       \/ /\ h.nodes[j].name = g.nodes[j].name
                                          /\ h.nodes[j].parent = g.nodes[j].parent
                                       \/ h.nodes[j].parent = p
    /\ \A j \in DOMAIN g.nodes \ DOMAIN h.nodes :
           g.nodes[j].nlookup = 0 /\ Children(g, j) # {}

LEMMA KeptIsMoved ==
    ASSUME NEW g, NEW h, NEW p, Kept(g, h)
    PROVE  Moved(g, h, p)
BY DEF Kept, Moved

LEMMA MovedLookups ==
    ASSUME NEW g, NEW h, NEW p, Moved(g, h, p)
    PROVE  \A i \in NodeIds : Lookups(h, i) = Lookups(g, i)
BY DEF Moved, Lookups

LEMMA SetLost ==
    ASSUME NEW g, TableType(g), NEW b, NEW h, h = [g EXCEPT !.lost = b]
    PROVE  TableType(h) /\ h.nodes = g.nodes /\ h.abort = g.abort
BY DEF TableType

(* What a rename lost is no part of the soundness of a table.              *)
LEMMA LostIsSound ==
    ASSUME NEW g, NEW a, Sound(a), Kept(g, a), NEW b,
           NEW h, h = [a EXCEPT !.lost = b]
    PROVE  Sound(h) /\ Kept(g, h)
<1>1. Good(a, NoDebt, 0) /\ TableType(a)
    BY DEF Sound, Good
<1>2. h.nodes = a.nodes /\ h.abort = a.abort /\ TableType(h)
    BY <1>1, SetLost
<1>3. \A j : Children(h, j) = Children(a, j)
    BY <1>2 DEF Children
<1>4. Good(h, NoDebt, 0)
    BY <1>1, <1>2, <1>3 DEF Good, RefsOwed, NamesSound, NamedCounted
<1>5. Kept(g, h)
    BY <1>2 DEF Kept
<1>. QED  BY <1>4, <1>5 DEF Sound

LEMMA SetHidectr ==
    ASSUME NEW g, TableType(g), NEW n, NEW h, h = [g EXCEPT !.hidectr = n]
    PROVE  TableType(h) /\ h.nodes = g.nodes /\ h.abort = g.abort
BY DEF TableType

(* The name of a node is taken away, and that of the node it replaces:     *)
(* then the new name is free.                                              *)
LEMMA NewNameFree ==
    ASSUME NEW g, Sound(g), NodeAssumption, NEW p, NEW n, n # NULL,
           NEW node \in DOMAIN g.nodes, g.nodes[node].name # NULL,
           NEW newnode, newnode = lookup_node(g, p, n),
           NEW cleared, cleared = IF newnode = 0 THEN g ELSE unhash_name(g, newnode),
           NEW bare, bare = unhash_name(cleared, node)
    PROVE  /\ Sound(bare) /\ Kept(g, bare)
           /\ node \in DOMAIN bare.nodes /\ bare.nodes[node].name = NULL
           /\ bare.nodes[node].nlookup > 0
           /\ lookup_node(bare, p, n) = 0
<1>1. TableType(g) /\ Good(g, NoDebt, 0) /\ NamedCounted(g, 0) /\ NamesSound(g)
    BY DEF Sound, Good
<1>2. node \in NodeIds /\ node # 0
    BY <1>1, NodeFacts DEF NodeIds
<1>3. g.nodes[node].nlookup > 0
    BY <1>1, <1>2 DEF NamedCounted
<1>4. newnode # 0 => newnode \in DOMAIN g.nodes
    BY <1>1, LookupNode
<1>5. /\ Good(cleared, NoDebt, 0) /\ Kept(g, cleared)
      /\ newnode # 0 /\ newnode \in DOMAIN cleared.nodes => cleared.nodes[newnode].name = NULL
    <2>1. CASE newnode = 0
        <3>1. cleared = g
            BY <2>1
        <3>2. Kept(g, g)
            BY DEF Kept
        <3>. QED  BY <1>1, <2>1, <3>1, <3>2
    <2>2. CASE newnode # 0
        <3>1. cleared = unhash_name(g, newnode)
            BY <2>2
        <3>. QED  BY <1>1, <1>4, <2>2, <3>1, UnhashKeeps
    <2>. QED  BY <2>1, <2>2
<1>6. node \in DOMAIN cleared.nodes /\ cleared.nodes[node].nlookup > 0
    BY <1>3, <1>5 DEF Kept
<1>7. /\ Good(bare, NoDebt, 0) /\ Kept(cleared, bare)
      /\ node \in DOMAIN bare.nodes => bare.nodes[node].name = NULL
      /\ NoDebt[node] > 0 \/ cleared.nodes[node].nlookup > 0 => node \in DOMAIN bare.nodes
    BY <1>5, <1>6, UnhashKeeps
<1>8. Kept(g, bare)
    BY <1>5, <1>7, KeptTransitive
<1>9. node \in DOMAIN bare.nodes /\ bare.nodes[node].nlookup > 0
    BY <1>6, <1>7 DEF Kept
<1>10. lookup_node(bare, p, n) = 0
    <2>1. PICK i : i = lookup_node(bare, p, n)
        OBVIOUS
    <2>2. TableType(bare)
        BY <1>7 DEF Good
    <2>. SUFFICES ASSUME i # 0  PROVE FALSE
        BY <2>1
    <2>3. i \in DOMAIN bare.nodes /\ bare.nodes[i].parent = p /\ bare.nodes[i].name = n
        BY <2>1, <2>2, LookupNode
    <2>4. i \in DOMAIN g.nodes /\ g.nodes[i].parent = p /\ g.nodes[i].name = n
        BY <1>8, <2>3 DEF Kept
    <2>5. i = newnode /\ newnode # 0
        <3>1. newnode # 0 /\ g.nodes[newnode].parent = p /\ g.nodes[newnode].name = n
            BY <1>1, <2>4, LookupNode
        <3>. QED  BY <1>1, <1>4, <2>4, <3>1 DEF NamesSound
    <2>6. i \in DOMAIN cleared.nodes /\ cleared.nodes[i].name # NULL
        BY <1>7, <2>3 DEF Kept
    <2>. QED  BY <1>5, <2>5, <2>6
<1>. QED  BY <1>7, <1>8, <1>9, <1>10 DEF Sound

(* rename_node keeps the table sound, whether there is memory or not; it   *)
(* ends the daemon only when the new directory is gone.                    *)
LEMMA RenameSound ==
    ASSUME NEW g, Sound(g), NodeAssumption, NEW od, NEW on, on # NULL,
           NEW nd \in NodeIds, NEW nn \in AllNames, nn # NULL, NEW hide,
           NEW e \in rename_node(g, od, on, nd, nn, hide)
    PROVE  \/ e.f.abort = TRUE /\ Lookups(g, nd) = 0
           \/ Sound(e.f) /\ Moved(g, e.f, nd)
<1>1. TableType(g) /\ Good(g, NoDebt, 0)
    BY DEF Sound, Good
<1>2. PICK node, newnode : /\ node = lookup_node(g, od, on)
                           /\ newnode = lookup_node(g, nd, nn)
    OBVIOUS
<1>3. PICK cleared : cleared = IF newnode = 0 THEN g ELSE unhash_name(g, newnode)
    OBVIOUS
<1>4. PICK bare : bare = unhash_name(cleared, node)
    OBVIOUS
<1>5. PICK named : named = hash_name(bare, node, nd, nn)
    OBVIOUS
<1>6. Kept(g, g)
    BY DEF Kept
<1>. DEFINE known == [g EXCEPT !.lost = g.lost \/ newnode # 0]
            lost == [bare EXCEPT !.lost = TRUE]
            hidden == [named EXCEPT !.nodes[node].is_hidden = TRUE]
<1>7. \/ e.f = known
      \/ e.f = g
      \/ node # 0 /\ (e.f = lost \/ e.f = named \/ e.f = hidden)
    <2>1. rename_node(g, od, on, nd, nn, hide) =
              IF node = 0 THEN {[f |-> known, err |-> "ok"]}
              ELSE IF newnode # 0 /\ hide THEN {[f |-> g, err |-> "error"]}
              ELSE {[f |-> lost, err |-> "ENOMEM"],
                    [f |-> IF hide THEN hidden ELSE named, err |-> "ok"]}
        BY <1>2, <1>3, <1>4, <1>5, Zenon DEF rename_node
    <2>. HIDE DEF known, lost, hidden
    <2>. QED  BY <2>1
<1>8. CASE e.f = g
    BY <1>6, <1>8, KeptIsMoved
<1>9. CASE e.f = known
    <2>1. PICK b : b = (g.lost \/ newnode # 0)
        OBVIOUS
    <2>2. known = [g EXCEPT !.lost = b]
        BY <2>1, Zenon
    <2>. HIDE DEF known
    <2>3. Sound(known) /\ Kept(g, known)
        BY <1>6, <2>2, LostIsSound
    <2>. QED  BY <1>9, <2>3, KeptIsMoved
<1>10. CASE node # 0
    <2>1. node \in DOMAIN g.nodes /\ g.nodes[node].name # NULL
        BY <1>1, <1>2, <1>10, LookupNode
    <2>2. /\ Sound(bare) /\ Kept(g, bare)
          /\ node \in DOMAIN bare.nodes /\ bare.nodes[node].name = NULL
          /\ bare.nodes[node].nlookup > 0
          /\ lookup_node(bare, nd, nn) = 0
        BY <1>2, <1>3, <1>4, <2>1, NewNameFree
    <2>3. Good(bare, NoDebt, 0) /\ TableType(bare)
        BY <2>2 DEF Sound, Good
    <2>4. CASE e.f = lost
        <3>1. Sound(lost) /\ Kept(g, lost)
            BY <2>2, LostIsSound
        <3>. QED  BY <2>4, <3>1, KeptIsMoved
    <2>5. CASE nd \notin DOMAIN bare.nodes
        <3>1. named.abort = TRUE
            BY <1>5, <2>2, <2>3, <2>5, HashKeeps
        <3>2. TableType(named) \/ named = Abort(bare)
            BY <1>5, <2>5 DEF hash_name, get_node, get_node_nocheck
        <3>3. hidden.abort = TRUE
            BY <3>1
        <3>4. Lookups(g, nd) = 0
            BY <2>2, <2>5 DEF Kept, Lookups
        <3>. QED  BY <1>7, <1>8, <1>9, <2>4, <3>1, <3>3, <3>4
    <2>6. CASE nd \in DOMAIN bare.nodes
        <3>1. Good(named, NoDebt, node) /\ Renamed(bare, named, node, nd, nn)
            BY <1>5, <2>2, <2>3, <2>6, HashKeeps
        <3>2. named.nodes[node].nlookup > 0 /\ node \in DOMAIN named.nodes
            BY <2>2, <3>1 DEF Renamed
        <3>3. Good(named, NoDebt, 0)
            BY <3>1, <3>2 DEF Good, NamedCounted
        <3>4. Moved(g, named, nd)
            BY <2>2, <3>1 DEF Kept, Renamed, Moved
        <3>5. CASE e.f = named
            BY <3>3, <3>4, <3>5 DEF Sound
        <3>6. CASE e.f = hidden
            <4>. DEFINE m == named.nodes[node]
                        r == [m EXCEPT !.is_hidden = TRUE]
            <4>1. TableType(named)
                BY <3>3 DEF Good
            <4>2. m \in NodeRec
                BY <3>2, <4>1, NodeFacts
            <4>3. hidden = [named EXCEPT !.nodes[node] = r]
                BY <3>2, <4>1 DEF TableType
            <4>. HIDE DEF m, hidden
            <4>4. /\ r \in NodeRec /\ r.refctr = m.refctr /\ r.nlookup = m.nlookup
                  /\ r.name = m.name /\ r.parent = m.parent
                  /\ r.open_count = m.open_count /\ r.obj = m.obj
                BY <4>2 DEF NodeRec
            <4>. HIDE DEF r
            <4>5. Good(hidden, NoDebt, 0)
                BY <3>2, <3>3, <4>3, <4>4, OtherKeeps DEF m
            <4>6. /\ hidden.abort = named.abort /\ DOMAIN hidden.nodes = DOMAIN named.nodes
                  /\ hidden.nodes[node] = r
                  /\ \A j \in DOMAIN named.nodes : j # node => hidden.nodes[j] = named.nodes[j]
                BY <3>2, <4>1, <4>3, <4>4, SetNode
            <4>7. \A j \in DOMAIN named.nodes : Alike(hidden.nodes[j], named.nodes[j])
                BY <4>4, <4>6 DEF Alike, m
            <4>8. Moved(g, hidden, nd)
                BY <3>4, <4>6, <4>7 DEF Moved, Alike
            <4>. QED  BY <3>6, <4>5, <4>8 DEF Sound
        <3>. QED  BY <1>7, <1>8, <1>9, <2>4, <3>5, <3>6
    <2>. QED  BY <2>5, <2>6
<1>. QED  BY <1>7, <1>8, <1>9, <1>10

(***************************************************************************)
(* The disk                                                                *)
(***************************************************************************)
DiskType(d) ==
    /\ d = [kind |-> d.kind, ent |-> d.ent]
    /\ d.kind \in [Objs -> {"file", "dir"}]
    /\ d.ent \in [Objs -> [AllNames -> Objs \cup {0}]]

\* Directory or file, as the disk has what the node was made for.
Kind(d, g, i) == d.kind[g.nodes[i].obj]

(* One value of a table of tables is changed.                              *)
LEMMA SetEntry ==
    ASSUME NEW A, NEW B, NEW X, NEW m \in [A -> [B -> X]], NEW p, NEW n, NEW o \in X,
           NEW e, e = [m EXCEPT ![p][n] = o]
    PROVE  e \in [A -> [B -> X]]
<1>1. CASE p \in A
    <2>1. m[p] \in [B -> X]
        BY <1>1
    <2>2. PICK r : r = [m[p] EXCEPT ![n] = o]
        OBVIOUS
    <2>3. r \in [B -> X]
        BY <2>1, <2>2
    <2>4. e = [m EXCEPT ![p] = r]
        BY <2>2
    <2>. QED  BY <2>3, <2>4
<1>2. CASE p \notin A
    <2>1. e = m
        BY <1>2
    <2>. QED  BY <2>1
<1>. QED  BY <1>1, <1>2

(* What is made gets the number of no file that a node stands for.         *)
LEMMA MakeKeeps ==
    ASSUME DiskType(disk), TableType(f), NEW path, NEW c \in {"file", "dir"},
           FreeObjs # {}, NEW e, e = fs_make(disk, path, c), TreeAssumption
    PROVE  /\ DiskType(e)
           /\ \A i \in DOMAIN f.nodes : Kind(e, f, i) = Kind(disk, f, i)
<1>1. PICK o : o = CHOOSE x \in FreeObjs : \A y \in FreeObjs : x =< y
    OBVIOUS
<1>2. FreeObjs \subseteq Nat
    BY DEF FreeObjs, Objs
<1>3. \E x \in FreeObjs : \A y \in FreeObjs : x =< y
    BY <1>2, LeastNumber
<1>4. o \in FreeObjs
    BY <1>1, <1>3, Zenon
<1>5. o \in Objs /\ \A i \in DOMAIN f.nodes : f.nodes[i].obj # o
    BY <1>4 DEF FreeObjs
<1>6. PICK p, n : p = Dir(disk, path) /\ n = Last(path)
    OBVIOUS
<1>7. e = [disk EXCEPT !.ent[p][n] = o, !.kind[o] = c]
    BY <1>1, <1>6, Zenon DEF fs_make
<1>8. DiskType(e) /\ \A x \in Objs : x # o => e.kind[x] = disk.kind[x]
    <2>. DEFINE m == [disk.ent EXCEPT ![p][n] = o]
                a == [disk.kind EXCEPT ![o] = c]
    <2>1. e = [kind |-> a, ent |-> m]
        BY <1>7 DEF DiskType
    <2>2. m \in [Objs -> [AllNames -> Objs \cup {0}]]
        BY <1>5, SetEntry DEF DiskType
    <2>3. a \in [Objs -> {"file", "dir"}] /\ \A x \in Objs : x # o => a[x] = disk.kind[x]
        BY <1>5 DEF DiskType
    <2>. HIDE DEF m, a
    <2>. QED  BY <2>1, <2>2, <2>3 DEF DiskType
<1>9. \A i \in DOMAIN f.nodes : f.nodes[i].obj \in Objs
    BY NodeFacts
<1>. QED  BY <1>5, <1>8, <1>9 DEF Kind

LEMMA LinkKeeps ==
    ASSUME NEW d, DiskType(d), NEW path, NEW o \in Objs \cup {0},
           NEW e, e = fs_link(d, path, o)
    PROVE  DiskType(e) /\ e.kind = d.kind
<1>1. PICK p, n : p = Dir(d, path) /\ n = Last(path)
    OBVIOUS
<1>2. e = [d EXCEPT !.ent[p][n] = o]
    BY <1>1 DEF fs_link
<1>. DEFINE m == [d.ent EXCEPT ![p][n] = o]
<1>3. e = [kind |-> d.kind, ent |-> m]
    BY <1>2 DEF DiskType
<1>4. m \in [Objs -> [AllNames -> Objs \cup {0}]]
    BY SetEntry DEF DiskType
<1>. HIDE DEF m
<1>. QED  BY <1>3, <1>4 DEF DiskType

LEMMA UnlinkKeeps ==
    ASSUME NEW d, DiskType(d), NEW path, NEW e, e = fs_remove(d, path)
    PROVE  DiskType(e) /\ e.kind = d.kind
<1>1. PICK p, n : p = Dir(d, path) /\ n = Last(path)
    OBVIOUS
<1>2. e = [d EXCEPT !.ent[p][n] = 0] /\ 0 \in Objs \cup {0}
    BY <1>1 DEF fs_remove
<1>. DEFINE m == [d.ent EXCEPT ![p][n] = 0]
<1>3. e = [kind |-> d.kind, ent |-> m]
    BY <1>2 DEF DiskType
<1>4. m \in [Objs -> [AllNames -> Objs \cup {0}]]
    BY <1>2, SetEntry DEF DiskType
<1>. HIDE DEF m
<1>. QED  BY <1>3, <1>4 DEF DiskType

LEMMA RenameKeeps ==
    ASSUME NEW d, DiskType(d), NEW old \in Seq(AllNames), NEW new, TreeAssumption,
           NEW e, e = fs_rename(d, old, new)
    PROVE  DiskType(e) /\ e.kind = d.kind
<1>1. PICK o, c : o = At(d, old) /\ c = fs_remove(d, old)
    OBVIOUS
<1>2. o \in Objs \cup {0}
    BY <1>1, AtType DEF DiskType
<1>3. DiskType(c) /\ c.kind = d.kind
    BY <1>1, UnlinkKeeps
<1>4. e = fs_link(c, new, o)
    BY <1>1 DEF fs_rename
<1>. QED  BY <1>2, <1>3, <1>4, LinkKeeps

(***************************************************************************)
(* What the handlers do to the table and the disk together                 *)
(***************************************************************************)
\* The opens that are counted for an id.
Opens(g, i) == IF i \in DOMAIN g.nodes THEN g.nodes[i].open_count ELSE 0

ParentsAreDirs(d, g) ==
    \A i \in DOMAIN g.nodes : g.nodes[i].name # NULL => Kind(d, g, g.nodes[i].parent) = "dir"

\* A directory that the kernel does not count is not open.
DirsShut(d, g) ==
    \A i \in NodeIds : /\ i \in DOMAIN g.nodes /\ Lookups(g, i) = 0 /\ Kind(d, g, i) = "dir"
                       => Opens(g, i) = 0

Tree(d, g) == DiskType(d) /\ Sound(g) /\ ParentsAreDirs(d, g) /\ DirsShut(d, g)

Same(i, j) == IF i = j THEN 1 ELSE 0

\* From d and g to e and h: node i is looked up once more and node o is
\* opened once more (0 for none), and what stays is what it was.
Effect(d, g, e, h, i, o) ==
    /\ Tree(e, h) /\ h.abort = g.abort
    /\ \A j \in NodeIds : Lookups(h, j) = Lookups(g, j) + Same(i, j)
    /\ \A j \in NodeIds : Opens(h, j) = Opens(g, j) + Same(o, j)
    /\ \A j \in DOMAIN g.nodes : j \in DOMAIN h.nodes => Kind(e, h, j) = Kind(d, g, j)

LEMMA TreeFacts ==
    ASSUME NEW d, NEW g, Tree(d, g)
    PROVE  /\ TableType(g) /\ Good(g, NoDebt, 0) /\ NamesSound(g)
           /\ \A i \in NodeIds : Lookups(g, i) \in Nat /\ Opens(g, i) \in Nat
           /\ \A i \in DOMAIN g.nodes : /\ i \in NodeIds /\ g.nodes[i].obj \in Objs
                                        /\ Lookups(g, i) = g.nodes[i].nlookup
                                        /\ Opens(g, i) = g.nodes[i].open_count
                                        /\ Kind(d, g, i) \in {"file", "dir"}
<1>1. TableType(g) /\ Good(g, NoDebt, 0) /\ NamesSound(g)
    BY DEF Tree, Sound, Good
<1>2. \A i \in DOMAIN g.nodes : /\ i \in NodeIds /\ g.nodes[i].obj \in Objs
                                /\ g.nodes[i].nlookup \in Nat /\ g.nodes[i].open_count \in Nat
    BY <1>1, NodeFacts
<1>3. \A i \in DOMAIN g.nodes : Kind(d, g, i) \in {"file", "dir"}
    BY <1>2 DEF Kind, Tree, DiskType
<1>. QED  BY <1>1, <1>2, <1>3 DEF Lookups, Opens

LEMMA TreeLinked ==
    ASSUME NEW d, NEW g, Tree(d, g)
    PROVE  Linked(g)
<1>1. TableType(g) /\ NamesSound(g)
    BY TreeFacts
<1>2. \A i \in DOMAIN g.nodes : g.nodes[i].name \in AllNames \cup {NULL}
    BY <1>1, NodeFacts
<1>. QED  BY <1>1, <1>2 DEF Linked, NamesSound

(* Nothing is done, or the disk alone changes.                             *)
LEMMA DiskEffect ==
    ASSUME NEW d, NEW g, Tree(d, g), NEW e, DiskType(e),
           \A i \in DOMAIN g.nodes : Kind(e, g, i) = Kind(d, g, i)
    PROVE  Effect(d, g, e, g, 0, 0)
<1>1. Tree(e, g)
    <2>1. \A i \in DOMAIN g.nodes : g.nodes[i].name # NULL => g.nodes[i].parent \in DOMAIN g.nodes
        BY TreeFacts DEF NamesSound
    <2>2. ParentsAreDirs(e, g)
        BY <2>1 DEF Tree, ParentsAreDirs
    <2>. QED  BY <2>2 DEF Tree, DirsShut
<1>2. \A j \in NodeIds : Same(0, j) = 0
    BY DEF Same, NodeIds
<1>3. \A j \in NodeIds : Lookups(g, j) \in Nat /\ Opens(g, j) \in Nat
    BY TreeFacts
<1>. QED  BY <1>1, <1>2, <1>3 DEF Effect

LEMMA SameKinds ==
    ASSUME NEW d, NEW g, NEW e, e.kind = d.kind
    PROVE  \A i \in DOMAIN g.nodes : Kind(e, g, i) = Kind(d, g, i)
BY DEF Kind

(* One effect after another that looks nothing up.                         *)
LEMMA EffectsJoin ==
    ASSUME NEW d, NEW g, Tree(d, g), NEW e, NEW h, Effect(d, g, e, h, 0, 0),
           NEW c, NEW q, NEW i, NEW o, Effect(e, h, c, q, i, o),
           DOMAIN q.nodes \cap DOMAIN g.nodes \subseteq DOMAIN h.nodes
    PROVE  Effect(d, g, c, q, i, o)
<1>1. \A j \in NodeIds : Same(0, j) = 0
    BY DEF Same, NodeIds
<1>2. \A j \in NodeIds : Lookups(g, j) \in Nat /\ Opens(g, j) \in Nat
    BY TreeFacts
<1>3. \A j \in NodeIds : Lookups(h, j) = Lookups(g, j) /\ Opens(h, j) = Opens(g, j)
    BY <1>1, <1>2 DEF Effect
<1>. QED  BY <1>3 DEF Effect

(* What takes names away or moves a node under p looks up and opens        *)
(* nothing.                                                                *)
LEMMA MovedEffect ==
    ASSUME NEW d, NEW g, Tree(d, g), NEW e, DiskType(e), e.kind = d.kind, NEW h, Sound(h),
           NEW p, Moved(g, h, p), p \in DOMAIN g.nodes => Kind(d, g, p) = "dir"
    PROVE  Effect(d, g, e, h, 0, 0) /\ DOMAIN h.nodes \subseteq DOMAIN g.nodes
<1>1. \A j \in NodeIds : Lookups(h, j) = Lookups(g, j)
    BY MovedLookups
<1>2. /\ NamesSound(h) /\ NamesSound(g) /\ TableType(g)
      /\ DOMAIN h.nodes \subseteq DOMAIN g.nodes /\ DOMAIN g.nodes \subseteq NodeIds
    BY TreeFacts DEF Sound, Good, Moved, TableType
<1>3. \A j \in DOMAIN h.nodes : Kind(e, h, j) = Kind(d, g, j)
    BY DEF Moved, Kind
<1>4. ASSUME NEW j \in NodeIds  PROVE Opens(h, j) = Opens(g, j)
    <2>1. CASE j \in DOMAIN h.nodes
        BY <2>1, <1>2 DEF Moved, Opens
    <2>2. CASE j \in DOMAIN g.nodes /\ j \notin DOMAIN h.nodes
        <3>1. Lookups(g, j) = 0 /\ Children(g, j) # {}
            BY <2>2 DEF Moved, Lookups
        <3>2. PICK c \in DOMAIN g.nodes : g.nodes[c].name # NULL /\ g.nodes[c].parent = j
            BY <3>1 DEF Children
        <3>3. Kind(d, g, j) = "dir"
            BY <3>2 DEF Tree, ParentsAreDirs
        <3>. QED  BY <2>2, <3>1, <3>3 DEF Tree, DirsShut, Opens
    <2>3. CASE j \notin DOMAIN g.nodes
        BY <1>2, <2>3 DEF Opens
    <2>. QED  BY <2>1, <2>2, <2>3
<1>5. ParentsAreDirs(e, h)
    <2>. SUFFICES ASSUME NEW j \in DOMAIN h.nodes, h.nodes[j].name # NULL
                  PROVE  Kind(e, h, h.nodes[j].parent) = "dir"
        BY DEF ParentsAreDirs
    <2>1. PICK c : c = h.nodes[j].parent
        OBVIOUS
    <2>2. c \in DOMAIN h.nodes /\ j \in DOMAIN g.nodes
        BY <1>2, <2>1 DEF NamesSound
    <2>3. c = p \/ (g.nodes[j].name # NULL /\ c = g.nodes[j].parent)
        BY <2>1 DEF Moved
    <2>4. Kind(d, g, c) = "dir"
        BY <1>2, <2>2, <2>3 DEF Tree, ParentsAreDirs
    <2>. QED  BY <1>3, <2>1, <2>2, <2>4
<1>6. DirsShut(e, h)
    BY <1>1, <1>2, <1>3, <1>4 DEF Tree, DirsShut
<1>7. \A j \in NodeIds : Same(0, j) = 0 /\ Lookups(g, j) \in Nat /\ Opens(g, j) \in Nat
    BY TreeFacts DEF Same, NodeIds
<1>8. Tree(e, h)
    BY <1>5, <1>6 DEF Tree
<1>9. h.abort = g.abort
    BY DEF Moved
<1>. QED  BY <1>1, <1>2, <1>3, <1>4, <1>7, <1>8, <1>9 DEF Effect

(* find_node looks up one node more, that it finds or makes under p.       *)
LEMMA FoundEffect ==
    ASSUME NEW d, NEW g, Tree(d, g), NEW h, Sound(h), NEW p \in DOMAIN g.nodes,
           Kind(d, g, p) = "dir", NEW i, Found(g, h, i, p)
    PROVE  Effect(d, g, d, h, i, 0)
<1>1. /\ NamesSound(h) /\ NamesSound(g) /\ TableType(g) /\ TableType(h)
      /\ DOMAIN h.nodes = DOMAIN g.nodes \cup {i} /\ i \in NodeIds
    BY TreeFacts DEF Sound, Good, Found
<1>2. \A j \in NodeIds : /\ Lookups(g, j) \in Nat /\ Opens(g, j) \in Nat
                         /\ Same(0, j) = 0
    BY TreeFacts DEF Same, NodeIds
<1>3. \A j \in NodeIds : Lookups(h, j) = Lookups(g, j) + Same(i, j)
    BY <1>2 DEF Found, Same
<1>4. \A j \in NodeIds : Opens(h, j) = Opens(g, j)
    BY <1>1 DEF Found, Opens
<1>5. \A j \in DOMAIN g.nodes : Kind(d, h, j) = Kind(d, g, j)
    BY DEF Found, Kind
<1>6. ParentsAreDirs(d, h)
    <2>. SUFFICES ASSUME NEW j \in DOMAIN h.nodes, h.nodes[j].name # NULL
                  PROVE  Kind(d, h, h.nodes[j].parent) = "dir"
        BY DEF ParentsAreDirs
    <2>1. CASE j \in DOMAIN g.nodes
        <3>1. g.nodes[j].name # NULL /\ h.nodes[j].parent = g.nodes[j].parent
            BY <2>1 DEF Found
        <3>2. g.nodes[j].parent \in DOMAIN g.nodes /\ Kind(d, g, g.nodes[j].parent) = "dir"
            BY <1>1, <2>1, <3>1 DEF NamesSound, Tree, ParentsAreDirs
        <3>. QED  BY <1>5, <3>1, <3>2
    <2>2. CASE j \notin DOMAIN g.nodes
        <3>1. h.nodes[j].parent = p
            BY <1>1, <2>2 DEF Found
        <3>. QED  BY <1>5, <3>1
    <2>. QED  BY <2>1, <2>2
<1>7. DirsShut(d, h)
    <2>. SUFFICES ASSUME NEW j \in NodeIds, j \in DOMAIN h.nodes, Lookups(h, j) = 0,
                         Kind(d, h, j) = "dir"
                  PROVE  Opens(h, j) = 0
        BY DEF DirsShut
    <2>1. j # i /\ Lookups(g, j) = 0
        BY <1>2, <1>3 DEF Same
    <2>2. j \in DOMAIN g.nodes
        BY <1>1, <2>1
    <2>. QED  BY <1>4, <1>5, <2>1, <2>2 DEF Tree, DirsShut
<1>8. Tree(d, h) /\ h.abort = g.abort
    BY <1>6, <1>7 DEF Tree, Found
<1>9. \A j \in NodeIds : Opens(h, j) = Opens(g, j) + Same(0, j)
    BY <1>2, <1>4
<1>. QED  BY <1>3, <1>5, <1>8, <1>9 DEF Effect

(* A node that the kernel counts, or that is no directory, is opened.      *)
LEMMA OpenedEffect ==
    ASSUME NEW d, NEW g, Tree(d, g), NEW i \in DOMAIN g.nodes,
           Lookups(g, i) > 0 \/ Kind(d, g, i) # "dir",
           NEW h, h = [g EXCEPT !.nodes[i].open_count = @ + 1]
    PROVE  /\ Effect(d, g, d, h, 0, i) /\ DOMAIN h.nodes = DOMAIN g.nodes
           /\ \A j \in DOMAIN g.nodes : /\ h.nodes[j].name = g.nodes[j].name
                                        /\ h.nodes[j].parent = g.nodes[j].parent
<1>. DEFINE n == g.nodes[i]
            r == [n EXCEPT !.open_count = @ + 1]
<1>1. /\ TableType(g) /\ Good(g, NoDebt, 0) /\ NamesSound(g) /\ i \in NodeIds
      /\ DOMAIN g.nodes \subseteq NodeIds
    BY TreeFacts
<1>2. n \in NodeRec /\ n.open_count \in Nat
    BY <1>1, NodeFacts
<1>3. h = [g EXCEPT !.nodes[i] = r]
    BY <1>1 DEF TableType
<1>. HIDE DEF n
<1>4. /\ r \in NodeRec /\ r.refctr = n.refctr /\ r.nlookup = n.nlookup /\ r.name = n.name
      /\ r.parent = n.parent /\ r.open_count = n.open_count + 1 /\ r.obj = n.obj
    BY <1>2 DEF NodeRec
<1>. HIDE DEF r
<1>5. Good(h, NoDebt, 0)
    BY <1>1, <1>3, <1>4, OtherKeeps DEF n
<1>6. /\ h.abort = g.abort /\ DOMAIN h.nodes = DOMAIN g.nodes /\ h.nodes[i] = r
      /\ \A j \in DOMAIN g.nodes : j # i => h.nodes[j] = g.nodes[j]
    <2>. DEFINE e == [g EXCEPT !.nodes[i] = r]
    <2>1. /\ TableType(e) /\ DOMAIN e.nodes = DOMAIN g.nodes
          /\ e.abort = g.abort /\ e.nodes[i] = r
          /\ \A j \in DOMAIN g.nodes : j # i => e.nodes[j] = g.nodes[j]
        BY <1>1, <1>4, SetNode
    <2>. HIDE DEF e
    <2>2. h = e
        BY <1>3 DEF e
    <2>. QED  BY <2>1, <2>2
<1>7. \A j \in DOMAIN g.nodes : /\ h.nodes[j].name = g.nodes[j].name
                                /\ h.nodes[j].parent = g.nodes[j].parent
                                /\ h.nodes[j].nlookup = g.nodes[j].nlookup
                                /\ h.nodes[j].obj = g.nodes[j].obj
    BY <1>4, <1>6 DEF n
<1>8. \A j \in NodeIds : /\ Same(0, j) = 0 /\ Lookups(g, j) \in Nat /\ Opens(g, j) \in Nat
    BY TreeFacts DEF Same, NodeIds
<1>9. \A j \in NodeIds : Lookups(h, j) = Lookups(g, j)
    BY <1>6, <1>7 DEF Lookups
<1>10. \A j \in NodeIds : Opens(h, j) = Opens(g, j) + Same(i, j)
    <2>. SUFFICES ASSUME NEW j \in NodeIds  PROVE Opens(h, j) = Opens(g, j) + Same(i, j)
        OBVIOUS
    <2>1. CASE j = i
        BY <2>1, <1>2, <1>4, <1>6 DEF Opens, Same, n
    <2>2. CASE j # i
        <3>1. Same(i, j) = 0 /\ Opens(g, j) \in Nat
            BY <2>2, <1>8 DEF Same
        <3>2. Opens(h, j) = Opens(g, j)
            BY <2>2, <1>6 DEF Opens
        <3>. QED  BY <3>1, <3>2
    <2>. QED  BY <2>1, <2>2
<1>11. \A j \in DOMAIN g.nodes : Kind(d, h, j) = Kind(d, g, j)
    BY <1>7 DEF Kind
<1>12. ParentsAreDirs(d, h)
    BY <1>1, <1>6, <1>7, <1>11 DEF Tree, ParentsAreDirs, NamesSound
<1>13. DirsShut(d, h)
    <2>. SUFFICES ASSUME NEW j \in NodeIds, j \in DOMAIN h.nodes, Lookups(h, j) = 0,
                         Kind(d, h, j) = "dir"
                  PROVE  Opens(h, j) = 0
        BY DEF DirsShut
    <2>1. j \in DOMAIN g.nodes /\ Lookups(g, j) = 0 /\ Kind(d, g, j) = "dir"
        BY <1>6, <1>9, <1>11
    <2>2. j # i
        BY <2>1
    <2>3. Opens(h, j) = Opens(g, j)
        BY <2>2, <1>6 DEF Opens
    <2>. QED  BY <2>1, <2>3 DEF Tree, DirsShut
<1>14. Tree(d, h)
    BY <1>5, <1>12, <1>13 DEF Tree, Sound
<1>15. \A j \in NodeIds : Lookups(h, j) = Lookups(g, j) + Same(0, j)
    BY <1>8, <1>9
<1>. QED  BY <1>6, <1>7, <1>10, <1>11, <1>14, <1>15 DEF Effect

(***************************************************************************)
(* What each handler does                                                  *)
(***************************************************************************)
Looking == {"lookup", "revalidate", "mknod", "mkdir", "create", "link"}
Moving == {"unlink", "rmdir", "rename"}

\* A directory in which a task may look for, make or remove something.
Place(d, g, p) == p \in DOMAIN g.nodes /\ Kind(d, g, p) = "dir" /\ Lookups(g, p) > 0

\* An outcome that looks up o.ino, or does nothing to the table.
LookedUp(d, g, o) ==
    /\ Effect(d, g, o.disk, o.f, o.ino, 0)
    /\ o.err \in {"ok", "error", "ENOMEM"} /\ o.ino \in {0} \cup DOMAIN o.f.nodes
    /\ o.ino # 0 <=> o.err = "ok"
    /\ o = Outcome(o.f, o.disk, o.err, o.ino)

\* An outcome that removes or moves something.
Quiet(d, g, o) ==
    /\ Effect(d, g, o.disk, o.f, 0, 0) /\ DOMAIN o.f.nodes \subseteq DOMAIN g.nodes
    /\ o.err \in {"ok", "error", "ENOMEM"} /\ o.ino = 0

LEMMA PlaceKeeps ==
    ASSUME NEW d, NEW g, Tree(d, g), NEW p, Place(d, g, p), NEW e, NEW h, NEW i, NEW o,
           Effect(d, g, e, h, i, o)
    PROVE  Place(e, h, p)
<1>1. p \in NodeIds /\ Lookups(g, p) \in Nat
    BY TreeFacts DEF Place
<1>2. Lookups(h, p) > 0
    BY <1>1 DEF Effect, Place, Same
<1>3. p \in DOMAIN h.nodes
    BY <1>2 DEF Lookups
<1>. QED  BY <1>2, <1>3 DEF Effect, Place

LEMMA ErrorQuiet ==
    ASSUME NEW d, NEW g, Tree(d, g), NEW o \in Error(g, d)
    PROVE  Quiet(d, g, o) /\ LookedUp(d, g, o)
<1>1. /\ o.f = g /\ o.disk = d /\ o.err = "error" /\ o.ino = 0
      /\ o = Outcome(o.f, o.disk, o.err, o.ino)
    BY DEF Error, Outcome
<1>2. Effect(d, g, d, g, 0, 0)
    BY DiskEffect DEF Tree
<1>. QED  BY <1>1, <1>2 DEF Quiet, LookedUp

LEMMA PathLooksUp ==
    ASSUME NEW d, NEW g, Tree(d, g), NodeAssumption, TreeAssumption, NEW p,
           Place(d, g, p), NEW n \in AllNames, FreeIds(g) # {},
           NEW path \in Seq(AllNames), NEW o \in lookup_path(g, d, p, n, path)
    PROVE  LookedUp(d, g, o)
<1>1. CASE At(d, path) = 0
    <2>1. o \in Error(g, d)
        BY <1>1 DEF lookup_path
    <2>. QED  BY <2>1, ErrorQuiet
<1>2. CASE At(d, path) # 0
    <2>1. PICK r \in find_node(g, p, n, At(d, path)) :
              o = Outcome(r.f, d, IF r.ino = 0 THEN "ENOMEM" ELSE "ok", r.ino)
        BY <1>2 DEF lookup_path
    <2>2. At(d, path) \in Objs
        BY <1>2, AtType DEF Tree, DiskType
    <2>3. n # NULL
        BY DEF NodeAssumption
    <2>4. /\ Sound(r.f)
          /\ r.ino = 0 => r.f = g
          /\ r.ino # 0 => Found(g, r.f, r.ino, p)
        BY <2>1, <2>2, <2>3, FindSound DEF Tree, Place
    <2>5. /\ o.f = r.f /\ o.disk = d /\ o.ino = r.ino
          /\ o.err = IF r.ino = 0 THEN "ENOMEM" ELSE "ok"
          /\ o = Outcome(o.f, o.disk, o.err, o.ino)
        BY <2>1 DEF Outcome
    <2>6. CASE r.ino = 0
        <3>1. Effect(d, g, d, g, 0, 0)
            BY DiskEffect DEF Tree
        <3>. QED  BY <2>4, <2>5, <2>6, <3>1 DEF LookedUp
    <2>7. CASE r.ino # 0
        <3>1. Effect(d, g, d, r.f, r.ino, 0)
            BY <2>4, <2>7, FoundEffect DEF Place
        <3>2. r.ino \in DOMAIN r.f.nodes
            BY <2>4, <2>7 DEF Found
        <3>. QED  BY <2>5, <2>7, <3>1, <3>2 DEF LookedUp
    <2>. QED  BY <2>6, <2>7
<1>. QED  BY <1>1, <1>2

LEMMA LookupDoes ==
    ASSUME Tree(disk, f), NodeAssumption, TreeAssumption, NEW r, Place(disk, f, r.at),
           r.name \in AllNames, FreeIds(f) # {}, NEW o \in fuse_lib_lookup(r)
    PROVE  LookedUp(disk, f, o)
<1>1. PICK p : p = get_path_name(f, r.at, r.name)
    OBVIOUS
<1>2. p.path \in Seq(AllNames)
    BY <1>1, TreeLinked, PathNameType DEF Place
<1>3. o \in Error(f, disk) \/ o \in lookup_path(f, disk, r.at, r.name, p.path)
    BY <1>1 DEF fuse_lib_lookup
<1>. QED  BY <1>2, <1>3, ErrorQuiet, PathLooksUp

(* What the disk was changed to first does not matter to the lookup.       *)
LEMMA ThenLooksUp ==
    ASSUME NEW d, NEW g, Tree(d, g), NodeAssumption, TreeAssumption, NEW p,
           Place(d, g, p), NEW n \in AllNames, FreeIds(g) # {},
           NEW path \in Seq(AllNames), NEW e, DiskType(e),
           \A i \in DOMAIN g.nodes : Kind(e, g, i) = Kind(d, g, i),
           NEW o \in lookup_path(g, e, p, n, path)
    PROVE  LookedUp(d, g, o)
<1>1. Effect(d, g, e, g, 0, 0)
    BY DiskEffect
<1>2. Place(e, g, p) /\ Tree(e, g)
    <2>1. Tree(e, g)
        BY <1>1 DEF Effect
    <2>. QED  BY <1>1, <2>1, PlaceKeeps
<1>3. LookedUp(e, g, o)
    BY <1>2, PathLooksUp
<1>4. Effect(d, g, o.disk, o.f, o.ino, 0)
    BY <1>1, <1>3, EffectsJoin DEF LookedUp
<1>. QED  BY <1>3, <1>4 DEF LookedUp

LEMMA MknodDoes ==
    ASSUME Tree(disk, f), NodeAssumption, TreeAssumption, NEW r, Place(disk, f, r.at),
           r.name \in AllNames, FreeIds(f) # {}, FreeObjs # {}, NEW c \in {"file", "dir"},
           NEW o \in fuse_lib_mknod(r, c)
    PROVE  LookedUp(disk, f, o)
<1>1. PICK p : p = get_path_name(f, r.at, r.name)
    OBVIOUS
<1>2. p.path \in Seq(AllNames)
    BY <1>1, TreeLinked, PathNameType DEF Place
<1>3. PICK e : e = fs_make(disk, p.path, c)
    OBVIOUS
<1>4. o \in Error(f, disk) \/ o \in lookup_path(f, e, r.at, r.name, p.path)
    BY <1>1, <1>3 DEF fuse_lib_mknod
<1>5. DiskType(e) /\ \A i \in DOMAIN f.nodes : Kind(e, f, i) = Kind(disk, f, i)
    BY <1>3, MakeKeeps, TreeFacts DEF Tree
<1>. QED  BY <1>2, <1>4, <1>5, ErrorQuiet, ThenLooksUp

LEMMA LinkDoes ==
    ASSUME Tree(disk, f), NodeAssumption, TreeAssumption, NEW r, Place(disk, f, r.at),
           r.name \in AllNames, FreeIds(f) # {}, r.ino \in DOMAIN f.nodes,
           NEW o \in fuse_lib_link(r)
    PROVE  LookedUp(disk, f, o)
<1>1. PICK p, q : p = get_path_name(f, r.at, r.name) /\ q = get_path(f, r.ino)
    OBVIOUS
<1>2. p.path \in Seq(AllNames) /\ q.path \in Seq(AllNames)
    BY <1>1, TreeLinked, PathNameType, PathType DEF Place, Ways
<1>3. PICK e : e = fs_link(disk, p.path, At(disk, q.path))
    OBVIOUS
<1>4. o \in Error(f, disk) \/ o \in lookup_path(f, e, r.at, r.name, p.path)
    BY <1>1, <1>3 DEF fuse_lib_link
<1>5. At(disk, q.path) \in Objs \cup {0}
    BY <1>2, AtType DEF Tree, DiskType
<1>6. DiskType(e) /\ \A i \in DOMAIN f.nodes : Kind(e, f, i) = Kind(disk, f, i)
    BY <1>3, <1>5, LinkKeeps, SameKinds DEF Tree
<1>. QED  BY <1>2, <1>4, <1>6, ErrorQuiet, ThenLooksUp

(* A rename_node that reaches its directory, in a table with the nodes of  *)
(* this one, and its errors.                                               *)
LEMMA RenameDoes ==
    ASSUME NEW d, NEW g, Tree(d, g), NodeAssumption, NEW a, TableType(a),
           a.nodes = g.nodes, a.abort = g.abort,
           NEW od, NEW on \in AllNames, NEW nd, Place(d, g, nd), NEW nn \in AllNames,
           NEW hide, NEW e \in rename_node(a, od, on, nd, nn, hide), NEW c, DiskType(c),
           c.kind = d.kind
    PROVE  /\ Effect(d, g, c, e.f, 0, 0) /\ DOMAIN e.f.nodes \subseteq DOMAIN g.nodes
           /\ e.err \in {"ok", "error", "ENOMEM"}
<1>1. on # NULL /\ nn # NULL /\ nd \in NodeIds
    BY TreeFacts DEF NodeAssumption, Place
<1>2. \A j : Children(a, j) = Children(g, j)
    BY DEF Children
<1>3. Sound(a)
    <2>1. Good(g, NoDebt, 0)
        BY TreeFacts
    <2>. QED  BY <1>2, <2>1 DEF Sound, Good, RefsOwed, NamesSound, NamedCounted
<1>4. Lookups(a, nd) # 0
    BY DEF Lookups, Place
<1>5. Sound(e.f) /\ Moved(a, e.f, nd)
    BY <1>1, <1>3, <1>4, RenameSound
<1>6. Moved(g, e.f, nd)
    BY <1>2, <1>5 DEF Moved
<1>7. e.err \in {"ok", "error", "ENOMEM"}
    BY DEF rename_node
<1>. QED  BY <1>5, <1>6, <1>7, MovedEffect DEF Place

LEMMA HiddenName ==
    ASSUME NEW g, NEW d, NEW dir, NEW i, i = hidden_name(g, d, dir), i # 0, NodeAssumption
    PROVE  HiddenNames[i] \in AllNames
<1>. DEFINE free == {j \in DOMAIN HiddenNames :
                        /\ j > g.hidectr
                        /\ lookup_node(g, dir, HiddenNames[j]) = 0
                        /\ At(d, get_path_name(g, dir, HiddenNames[j]).path) = 0}
<1>1. i = IF free = {} THEN 0 ELSE CHOOSE j \in free : \A m \in free : j =< m
    BY DEF hidden_name
<1>2. free \subseteq DOMAIN HiddenNames /\ free \subseteq Nat
    BY DEF NodeAssumption
<1>. HIDE DEF free
<1>3. \E j \in free : \A m \in free : j =< m
    BY <1>1, <1>2, LeastNumber
<1>4. i \in free
    BY <1>1, <1>3
<1>. QED  BY <1>2, <1>4 DEF AllNames

LEMMA HideDoes ==
    ASSUME NEW d, NEW g, Tree(d, g), NodeAssumption, TreeAssumption, NEW path \in Seq(AllNames),
           NEW p, Place(d, g, p), NEW n \in AllNames, NEW o \in hide_node(g, d, path, p, n)
    PROVE  Quiet(d, g, o)
<1>1. PICK i : i = hidden_name(g, d, p)
    OBVIOUS
<1>2. PICK new, newpath : new = HiddenNames[i] /\ newpath = get_path_name(g, p, new).path
    OBVIOUS
<1>3. PICK a : a = [g EXCEPT !.hidectr = i]
    OBVIOUS
<1>4. PICK c : c = fs_rename(d, path, newpath)
    OBVIOUS
<1>5. \/ o \in Error(g, d)
      \/ i # 0 /\ \E e \in rename_node(a, p, n, p, new, TRUE) : o = Outcome(e.f, c, e.err, 0)
    BY <1>1, <1>2, <1>3, <1>4 DEF hide_node
<1>6. CASE o \in Error(g, d)
    BY <1>6, ErrorQuiet DEF Quiet
<1>7. ASSUME i # 0, NEW e \in rename_node(a, p, n, p, new, TRUE), o = Outcome(e.f, c, e.err, 0)
      PROVE  Quiet(d, g, o)
    <2>1. new \in AllNames
        BY <1>1, <1>2, <1>7, HiddenName
    <2>2. TableType(a) /\ a.nodes = g.nodes /\ a.abort = g.abort
        BY <1>3, TreeFacts, SetHidectr
    <2>3. DiskType(c) /\ c.kind = d.kind
        BY <1>4, RenameKeeps DEF Tree
    <2>4. /\ Effect(d, g, c, e.f, 0, 0) /\ DOMAIN e.f.nodes \subseteq DOMAIN g.nodes
          /\ e.err \in {"ok", "error", "ENOMEM"}
        BY <1>7, <2>1, <2>2, <2>3, RenameDoes
    <2>. QED  BY <1>7, <2>4 DEF Quiet, Outcome
<1>. QED  BY <1>5, <1>6, <1>7

LEMMA RemoveDoes ==
    ASSUME NEW d, NEW g, Tree(d, g), NodeAssumption, NEW path,
           NEW p, Place(d, g, p), NEW n,
           NEW o, o = Outcome(remove_node(g, p, n), fs_remove(d, path), "ok", 0)
    PROVE  Quiet(d, g, o)
<1>1. PICK h, e : h = remove_node(g, p, n) /\ e = fs_remove(d, path)
    OBVIOUS
<1>2. Sound(h) /\ Moved(g, h, p)
    BY <1>1, RemoveSound, KeptIsMoved DEF Tree
<1>3. DiskType(e) /\ e.kind = d.kind
    BY <1>1, UnlinkKeeps DEF Tree
<1>4. Effect(d, g, e, h, 0, 0) /\ DOMAIN h.nodes \subseteq DOMAIN g.nodes
    BY <1>2, <1>3, MovedEffect DEF Place
<1>. QED  BY <1>1, <1>4 DEF Quiet, Outcome

LEMMA UnlinkDoes ==
    ASSUME Tree(disk, f), NodeAssumption, TreeAssumption, NEW r, Place(disk, f, r.at),
           r.name \in AllNames, NEW o \in fuse_lib_unlink(r)
    PROVE  Quiet(disk, f, o)
<1>1. PICK p : p = get_path_name(f, r.at, r.name)
    OBVIOUS
<1>2. p.path \in Seq(AllNames)
    BY <1>1, TreeLinked, PathNameType DEF Place
<1>3. \/ o \in Error(f, disk)
      \/ o \in hide_node(f, disk, p.path, r.at, r.name)
      \/ o = Outcome(remove_node(f, r.at, r.name), fs_remove(disk, p.path), "ok", 0)
    BY <1>1 DEF fuse_lib_unlink
<1>. QED  BY <1>2, <1>3, ErrorQuiet, HideDoes, RemoveDoes

LEMMA RmdirDoes ==
    ASSUME Tree(disk, f), NodeAssumption, NEW r, Place(disk, f, r.at),
           NEW o \in fuse_lib_rmdir(r)
    PROVE  Quiet(disk, f, o)
<1>1. PICK p : p = get_path_name(f, r.at, r.name)
    OBVIOUS
<1>2. \/ o \in Error(f, disk)
      \/ o = Outcome(remove_node(f, r.at, r.name), fs_remove(disk, p.path), "ok", 0)
    BY <1>1 DEF fuse_lib_rmdir
<1>. QED  BY <1>2, ErrorQuiet, RemoveDoes

\* The second half of a rename, from what the hiding left.
Onward(r, old, new, o) ==
    IF o.err # "ok" THEN {o}
    ELSE Error(o.f, o.disk) \cup
         (IF CanRename(o.disk, old, new)
          THEN {Outcome(n.f, fs_rename(o.disk, old, new), n.err, 0) :
                   n \in rename_node(o.f, r.at, r.name, r.to, r.newname, FALSE)}
          ELSE {})

LEMMA RenameOnward ==
    ASSUME NEW d, NEW g, Tree(d, g), NodeAssumption, TreeAssumption, NEW r,
           Place(d, g, r.to), r.name \in AllNames, r.newname \in AllNames,
           NEW old \in Seq(AllNames), NEW new, NEW x, Quiet(d, g, x),
           NEW o \in Onward(r, old, new, x)
    PROVE  Quiet(d, g, o)
<1>1. /\ Effect(d, g, x.disk, x.f, 0, 0) /\ DOMAIN x.f.nodes \subseteq DOMAIN g.nodes
      /\ Tree(x.disk, x.f)
    BY DEF Quiet, Effect
<1>2. Place(x.disk, x.f, r.to)
    BY <1>1, PlaceKeeps
<1>3. PICK c : c = fs_rename(x.disk, old, new)
    OBVIOUS
<1>4. DiskType(c) /\ c.kind = x.disk.kind
    BY <1>1, <1>3, RenameKeeps DEF Tree
<1>5. \/ o = x
      \/ o \in Error(x.f, x.disk)
      \/ \E n \in rename_node(x.f, r.at, r.name, r.to, r.newname, FALSE) :
            o = Outcome(n.f, c, n.err, 0)
    BY <1>3 DEF Onward
<1>6. CASE o = x
    BY <1>6
<1>7. CASE o \in Error(x.f, x.disk)
    <2>1. Quiet(x.disk, x.f, o)
        BY <1>1, <1>7, ErrorQuiet
    <2>2. Effect(d, g, o.disk, o.f, 0, 0)
        BY <1>1, <2>1, EffectsJoin DEF Quiet
    <2>. QED  BY <1>1, <2>1, <2>2 DEF Quiet
<1>8. ASSUME NEW n \in rename_node(x.f, r.at, r.name, r.to, r.newname, FALSE),
             o = Outcome(n.f, c, n.err, 0)
      PROVE  Quiet(d, g, o)
    <2>1. TableType(x.f)
        BY <1>1, TreeFacts
    <2>2. /\ Effect(x.disk, x.f, c, n.f, 0, 0) /\ DOMAIN n.f.nodes \subseteq DOMAIN x.f.nodes
          /\ n.err \in {"ok", "error", "ENOMEM"}
        BY <1>1, <1>2, <1>4, <1>8, <2>1, RenameDoes
    <2>3. Effect(d, g, c, n.f, 0, 0)
        BY <1>1, <2>2, EffectsJoin
    <2>. QED  BY <1>1, <1>8, <2>2, <2>3 DEF Quiet, Outcome
<1>. QED  BY <1>5, <1>6, <1>7, <1>8

LEMMA RenameHandled ==
    ASSUME Tree(disk, f), NodeAssumption, TreeAssumption, NEW r, Place(disk, f, r.at),
           Place(disk, f, r.to), r.name \in AllNames, r.newname \in AllNames,
           NEW o \in fuse_lib_rename(r)
    PROVE  Quiet(disk, f, o)
<1>. DEFINE old == get_path_name(f, r.at, r.name)
            new == get_path_name(f, r.to, r.newname)
            first == IF is_open(f, r.to, r.newname)
                     THEN hide_node(f, disk, new.path, r.to, r.newname)
                     ELSE {Outcome(f, disk, "ok", 0)}
<1>2. old.path \in Seq(AllNames) /\ new.path \in Seq(AllNames)
    BY TreeLinked, PathNameType DEF Place
<1>3. fuse_lib_rename(r) = IF ~old.ok \/ ~new.ok THEN Error(f, disk)
                           ELSE UNION {Onward(r, old.path, new.path, x) : x \in first}
    BY Zenon DEF fuse_lib_rename, Onward
<1>4. o \in Error(f, disk) \/ \E x \in first : o \in Onward(r, old.path, new.path, x)
    <2>. HIDE DEF old, new, first
    <2>. QED  BY <1>3
<1>5. ASSUME NEW x \in first  PROVE Quiet(disk, f, x)
    <2>1. CASE x = Outcome(f, disk, "ok", 0)
        <3>1. Effect(disk, f, disk, f, 0, 0)
            BY DiskEffect DEF Tree
        <3>. QED  BY <2>1, <3>1 DEF Quiet, Outcome
    <2>2. CASE x \in hide_node(f, disk, new.path, r.to, r.newname)
        BY <1>2, <2>2, HideDoes
    <2>. QED  BY <2>1, <2>2
<1>. HIDE DEF old, new, first
<1>. QED  BY <1>2, <1>4, <1>5, ErrorQuiet, RenameOnward

(* An effect, and then one node is opened.                                 *)
LEMMA OpenJoins ==
    ASSUME NEW d, NEW g, Tree(d, g), NEW e, NEW h, NEW i, Effect(d, g, e, h, i, 0),
           NEW q, NEW o, Effect(e, h, e, q, 0, o), DOMAIN q.nodes = DOMAIN h.nodes
    PROVE  Effect(d, g, e, q, i, o)
<1>1. \A j \in NodeIds : Same(0, j) = 0 /\ Same(i, j) \in Nat /\ Same(o, j) \in Nat
    BY DEF Same, NodeIds
<1>2. \A j \in NodeIds : Lookups(g, j) \in Nat /\ Opens(g, j) \in Nat
    BY TreeFacts
<1>3. \A j \in NodeIds : Lookups(h, j) = Lookups(g, j) + Same(i, j) /\ Opens(h, j) = Opens(g, j)
    BY <1>1, <1>2 DEF Effect
<1>4. \A j \in NodeIds : Lookups(q, j) = Lookups(h, j) /\ Opens(q, j) = Opens(h, j) + Same(o, j)
    <2>1. \A j \in NodeIds : Lookups(h, j) \in Nat
        BY <1>1, <1>2, <1>3
    <2>. QED  BY <1>1, <2>1 DEF Effect
<1>5. \A j \in NodeIds : /\ Lookups(q, j) = Lookups(g, j) + Same(i, j)
                         /\ Opens(q, j) = Opens(g, j) + Same(o, j)
    BY <1>3, <1>4
<1>. QED  BY <1>5 DEF Effect

\* An outcome that looks up and opens o.ino.
MadeOpen(d, g, o) ==
    /\ Effect(d, g, o.disk, o.f, o.ino, o.ino)
    /\ o.err \in {"ok", "error", "ENOMEM"} /\ o.ino \in {0} \cup DOMAIN o.f.nodes
    /\ o.ino # 0 <=> o.err = "ok"

LEMMA OpenedIs ==
    ASSUME NEW o, o = Outcome(o.f, o.disk, o.err, o.ino), o.ino \in DOMAIN o.f.nodes,
           NEW x, x = Opened(o)
    PROVE  /\ x.f = [o.f EXCEPT !.nodes[o.ino].open_count = @ + 1]
           /\ x.disk = o.disk /\ x.err = o.err /\ x.ino = o.ino
<1>1. PICK q : q = [o.f EXCEPT !.nodes[o.ino].open_count = @ + 1]
    OBVIOUS
<1>2. get_node(o.f, o.ino, q) = q
    BY DEF get_node, get_node_nocheck
<1>3. x = [o EXCEPT !.f = q]
    BY <1>1, <1>2 DEF Opened
<1>. QED  BY <1>1, <1>3 DEF Outcome

LEMMA CreateDoes ==
    ASSUME Tree(disk, f), NodeAssumption, TreeAssumption, NEW r, Place(disk, f, r.at),
           r.name \in AllNames, FreeIds(f) # {}, FreeObjs # {}, NEW o \in fuse_lib_create(r)
    PROVE  MadeOpen(disk, f, o)
<1>1. PICK x \in fuse_lib_mknod(r, "file") : o = IF x.err = "ok" THEN Opened(x) ELSE x
    BY DEF fuse_lib_create
<1>2. LookedUp(disk, f, x)
    BY MknodDoes
<1>3. CASE x.err # "ok"
    BY <1>1, <1>2, <1>3 DEF LookedUp, MadeOpen
<1>4. CASE x.err = "ok"
    <2>1. x.ino # 0 /\ x.ino \in DOMAIN x.f.nodes /\ Tree(x.disk, x.f)
        BY <1>2, <1>4 DEF LookedUp, Effect
    <2>2. /\ o.f = [x.f EXCEPT !.nodes[x.ino].open_count = @ + 1]
          /\ o.disk = x.disk /\ o.err = x.err /\ o.ino = x.ino
        BY <1>1, <1>2, <1>4, <2>1, OpenedIs DEF LookedUp
    <2>3. Lookups(x.f, x.ino) > 0
        <3>1. x.ino \in NodeIds /\ Lookups(f, x.ino) \in Nat
            BY <2>1, TreeFacts
        <3>. QED  BY <3>1, <1>2 DEF LookedUp, Effect, Same
    <2>4. /\ Effect(x.disk, x.f, x.disk, o.f, 0, x.ino)
          /\ DOMAIN o.f.nodes = DOMAIN x.f.nodes
        BY <2>1, <2>2, <2>3, OpenedEffect
    <2>5. Effect(disk, f, x.disk, o.f, x.ino, x.ino)
        BY <1>2, <2>4, OpenJoins DEF LookedUp
    <2>. QED  BY <1>2, <2>1, <2>2, <2>4, <2>5 DEF LookedUp, MadeOpen
<1>. QED  BY <1>3, <1>4

LEMMA OpenDoes ==
    ASSUME Tree(disk, f), NodeAssumption, NEW r, r.ino \in DOMAIN f.nodes,
           Lookups(f, r.ino) > 0, NEW o \in fuse_lib_open(r)
    PROVE  /\ Effect(disk, f, o.disk, o.f, 0, o.ino)
           /\ o.err \in {"ok", "error", "ENOMEM"} /\ o.ino \in {0, r.ino}
           /\ o.ino # 0 <=> o.err = "ok"
           /\ r.ino \in DOMAIN o.f.nodes
<1>1. o \in Error(f, disk) \/ o = Opened(Outcome(f, disk, "ok", r.ino))
    BY DEF fuse_lib_open
<1>2. CASE o \in Error(f, disk)
    <2>1. Quiet(disk, f, o) /\ o.f = f /\ o.err = "error"
        BY <1>2, ErrorQuiet DEF Error, Outcome
    <2>. QED  BY <2>1 DEF Quiet
<1>3. CASE o = Opened(Outcome(f, disk, "ok", r.ino))
    <2>1. PICK x : x = Outcome(f, disk, "ok", r.ino)
        OBVIOUS
    <2>2. /\ x.f = f /\ x.disk = disk /\ x.err = "ok" /\ x.ino = r.ino
          /\ x = Outcome(x.f, x.disk, x.err, x.ino)
        BY <2>1 DEF Outcome
    <2>3. /\ o.f = [f EXCEPT !.nodes[r.ino].open_count = @ + 1]
          /\ o.disk = disk /\ o.err = "ok" /\ o.ino = r.ino
        BY <1>3, <2>1, <2>2, OpenedIs
    <2>4. Effect(disk, f, disk, o.f, 0, r.ino) /\ DOMAIN o.f.nodes = DOMAIN f.nodes
        BY <2>3, OpenedEffect
    <2>5. r.ino # 0
        BY TreeFacts DEF NodeIds
    <2>. QED  BY <2>3, <2>4, <2>5
<1>. QED  BY <1>1, <1>2, <1>3

(***************************************************************************)
(* The kernel's side                                                       *)
(***************************************************************************)
DentRec == [dir : NodeIds, name : Names, id : NodeIds, valid : BOOLEAN]

KernelType(c) ==
    /\ c = [dent |-> c.dent, nlookup |-> c.nlookup, mode |-> c.mode]
    /\ c.dent \in SUBSET DentRec
    /\ c.nlookup \in [NodeIds -> Nat]
    /\ c.mode \in [NodeIds -> {"file", "dir", "none"}]

TaskRec == [pc : {"idle", "sent", "done"}, op : Looking \cup Moving \cup {"open", "none"},
            at : NodeIds, name : Names \cup {NULL}, to : 0..MaxNode,
            newname : Names \cup {NULL}, ino : 0..MaxNode, file : 0..MaxNode,
            err : {"none", "ok", "error", "EINTR"}, got : 0..MaxNode,
            mode : {"none", "file", "dir"}]

RelShape(q) ==
    /\ q = [pc |-> q.pc, ino |-> q.ino, kernel |-> q.kernel, forget |-> q.forget,
            ok |-> q.ok, path |-> q.path]
    /\ q.pc \in {"none", "sent", "cancel", "unlink"} /\ q.ino \in 0..MaxNode
    /\ q.kernel \in BOOLEAN /\ q.forget \in BOOLEAN

ForgetsType(w) == w \in [NodeIds -> Seq(Nat \ {0})]

\* A node that the kernel has an inode for, and one that a task r or the
\* release q of a task keeps the inode of.
Known(c, i) == i = FUSE_ROOT_ID \/ c.nlookup[i] > 0
HeldBy(r, q, i) == i \in {r.at, r.to, r.ino, r.file} \/ (q.kernel /\ q.ino = i)

\* What a task is about.
TaskOK(d, g, r, q) ==
    /\ r.pc = "idle" => /\ r.op = "none" /\ r.name = NULL /\ r.to = 0
                        /\ r.newname = NULL /\ r.ino = 0
    /\ r.pc # "idle" => r.op # "none"
    /\ r.pc # "done" => r.got = 0
    /\ Kind(d, g, r.at) = "dir" /\ (r.to # 0 => Kind(d, g, r.to) = "dir")
    /\ r.op \in Looking \cup Moving => r.name \in Names
    /\ r.op \in {"revalidate", "link", "open"} \cup Moving => r.ino # 0
    /\ r.op = "rename" => r.newname \in Names /\ r.to # 0
    /\ r.op = "open" => Kind(d, g, r.ino) # "dir"
    /\ r.op \in {"open", "create"} =>
          r.file = 0 /\ (r.pc = "sent" \/ r.err = "ok" => q.pc = "none")
    /\ r.pc = "done" => (r.got # 0 <=> r.err = "ok" /\ r.op \notin Moving)
    /\ r.op = "open" /\ r.got # 0 => r.got = r.ino
    /\ r.op \in Looking /\ r.got # 0 => r.mode = Kind(d, g, r.got)

\* And the release that it left.
RelOK(d, g, q) ==
    /\ q.pc = "none" => q = NoRel
    /\ q.pc # "none" => q.ino # 0
    /\ q.pc = "sent" => q.kernel \/ q.forget
    /\ q.pc = "cancel" /\ ~q.forget => Kind(d, g, q.ino) # "dir"

\* The tasks that will tell the kernel of a lookup, or give one back; that
\* have a file open, will hear of an open, or will have it released.
Looked(tk, i) == {t \in Tasks : tk[t].pc = "done" /\ tk[t].op # "open" /\ tk[t].got = i}
Backs(rl, i) == {t \in Tasks : rl[t].forget /\ rl[t].ino = i}
Files(tk, i) == {t \in Tasks : tk[t].file = i}
Openers(tk, i) == {t \in Tasks : /\ tk[t].pc = "done" /\ tk[t].got = i
                                 /\ tk[t].op \in {"open", "create"}}
Closers(rl, i) == {t \in Tasks : rl[t].pc \in {"sent", "cancel"} /\ rl[t].ino = i}

LooksOut(tk, rl, i) == Cardinality(Looked(tk, i)) + Cardinality(Backs(rl, i))
OpensOut(tk, rl, i) == Cardinality(Files(tk, i)) + Cardinality(Openers(tk, i))
                       + Cardinality(Closers(rl, i))

\* The same for one task.
LookOf(r, i) == IF r.pc = "done" /\ r.op # "open" /\ r.got = i THEN 1 ELSE 0
BackOf(q, i) == IF q.forget /\ q.ino = i THEN 1 ELSE 0
FileOf(r, i) == IF r.file = i THEN 1 ELSE 0
OpenOf(r, i) == IF r.pc = "done" /\ r.got = i /\ r.op \in {"open", "create"} THEN 1 ELSE 0
CloseOf(q, i) == IF q.pc \in {"sent", "cancel"} /\ q.ino = i THEN 1 ELSE 0

LookNum(r, q, i) == LookOf(r, i) + BackOf(q, i)
OpenNum(r, q, i) == FileOf(r, i) + OpenOf(r, i) + CloseOf(q, i)

(* The tasks are many but what one of them does changes its share only.    *)
LEMMA OutTypes ==
    ASSUME NEW tk, NEW rl, NEW i, TreeAssumption
    PROVE  LooksOut(tk, rl, i) \in Nat /\ OpensOut(tk, rl, i) \in Nat
<1>1. IsFiniteSet(Tasks)
    BY DEF TreeAssumption
<1>2. /\ IsFiniteSet(Looked(tk, i)) /\ IsFiniteSet(Backs(rl, i)) /\ IsFiniteSet(Files(tk, i))
      /\ IsFiniteSet(Openers(tk, i)) /\ IsFiniteSet(Closers(rl, i))
    <2>1. /\ Looked(tk, i) \subseteq Tasks /\ Backs(rl, i) \subseteq Tasks
          /\ Files(tk, i) \subseteq Tasks /\ Openers(tk, i) \subseteq Tasks
          /\ Closers(rl, i) \subseteq Tasks
        BY DEF Looked, Backs, Files, Openers, Closers
    <2>. QED  BY <1>1, <2>1, FS_Subset
<1>3. /\ Cardinality(Looked(tk, i)) \in Nat /\ Cardinality(Backs(rl, i)) \in Nat
      /\ Cardinality(Files(tk, i)) \in Nat /\ Cardinality(Openers(tk, i)) \in Nat
      /\ Cardinality(Closers(rl, i)) \in Nat
    BY <1>2, FS_CardinalityType
<1>. QED  BY <1>3 DEF LooksOut, OpensOut

(* The share of a task in a set of tasks.                                  *)
LEMMA ShareStep ==
    ASSUME NEW t \in Tasks, TreeAssumption, NEW S, NEW T, S \subseteq Tasks, T \subseteq Tasks,
           \A u \in Tasks \ {t} : u \in S <=> u \in T,
           NEW m, m = IF t \in S THEN 1 ELSE 0, NEW n, n = IF t \in T THEN 1 ELSE 0
    PROVE  /\ Cardinality(S) \in Nat /\ Cardinality(T) \in Nat
           /\ Cardinality(T) + m = Cardinality(S) + n /\ Cardinality(S) >= m
           /\ m \in {0, 1} /\ n \in {0, 1}
<1>1. IsFiniteSet(Tasks)
    BY DEF TreeAssumption
<1>2. /\ Cardinality(S) \in Nat /\ Cardinality(T) \in Nat
      /\ t \in S => Cardinality(S) > 0
      /\ (t \in S <=> t \in T) => Cardinality(T) = Cardinality(S)
      /\ t \in S /\ t \notin T => Cardinality(T) = Cardinality(S) - 1
      /\ t \notin S /\ t \in T => Cardinality(T) = Cardinality(S) + 1
    BY <1>1, CountStep
<1>. QED  BY <1>2

LEMMA TwoShares ==
    ASSUME NEW a \in Nat, NEW b \in Nat, NEW m \in {0, 1}, NEW n \in {0, 1}, b + m = a + n, a >= m,
           NEW c \in Nat, NEW d \in Nat, NEW o \in {0, 1}, NEW p \in {0, 1}, d + o = c + p, c >= o
    PROVE  /\ (b + d) + (m + o) = (a + c) + (n + p) /\ a + c >= m + o
           /\ m + o \in Nat /\ n + p \in Nat
OBVIOUS

LEMMA ThreeShares ==
    ASSUME NEW a \in Nat, NEW b \in Nat, NEW m \in {0, 1}, NEW n \in {0, 1}, b + m = a + n, a >= m,
           NEW c \in Nat, NEW d \in Nat, NEW o \in {0, 1}, NEW p \in {0, 1}, d + o = c + p, c >= o,
           NEW e \in Nat, NEW g \in Nat, NEW q \in {0, 1}, NEW s \in {0, 1}, g + q = e + s, e >= q
    PROVE  /\ (b + d + g) + (m + o + q) = (a + c + e) + (n + p + s) /\ a + c + e >= m + o + q
           /\ m + o + q \in Nat /\ n + p + s \in Nat
OBVIOUS

\* What one of them adds to a sum m of that of all, before and after.
Share(m, m2, n, n2) == m2 + n = m + n2 /\ m >= n /\ n \in Nat /\ n2 \in Nat

LEMMA LooksStep ==
    ASSUME NEW t \in Tasks, TreeAssumption, NEW tk, NEW rl, NEW tk2, NEW rl2, NEW i,
           \A u \in Tasks \ {t} : tk2[u] = tk[u] /\ rl2[u] = rl[u]
    PROVE  Share(LooksOut(tk, rl, i), LooksOut(tk2, rl2, i),
                 LookNum(tk[t], rl[t], i), LookNum(tk2[t], rl2[t], i))
<1>1. PICK a, b : a = Cardinality(Looked(tk, i)) /\ b = Cardinality(Looked(tk2, i))
    OBVIOUS
<1>2. PICK m, n : m = LookOf(tk[t], i) /\ n = LookOf(tk2[t], i)
    OBVIOUS
<1>3. /\ a \in Nat /\ b \in Nat /\ b + m = a + n /\ a >= m /\ m \in {0, 1} /\ n \in {0, 1}
    <2>1. /\ Looked(tk, i) \subseteq Tasks /\ Looked(tk2, i) \subseteq Tasks
          /\ \A u \in Tasks \ {t} : u \in Looked(tk, i) <=> u \in Looked(tk2, i)
          /\ m = IF t \in Looked(tk, i) THEN 1 ELSE 0
          /\ n = IF t \in Looked(tk2, i) THEN 1 ELSE 0
        BY <1>2 DEF Looked, LookOf
    <2>. QED  BY <1>1, <2>1, ShareStep
<1>4. PICK c, d : c = Cardinality(Backs(rl, i)) /\ d = Cardinality(Backs(rl2, i))
    OBVIOUS
<1>5. PICK o, p : o = BackOf(rl[t], i) /\ p = BackOf(rl2[t], i)
    OBVIOUS
<1>6. /\ c \in Nat /\ d \in Nat /\ d + o = c + p /\ c >= o /\ o \in {0, 1} /\ p \in {0, 1}
    <2>1. /\ Backs(rl, i) \subseteq Tasks /\ Backs(rl2, i) \subseteq Tasks
          /\ \A u \in Tasks \ {t} : u \in Backs(rl, i) <=> u \in Backs(rl2, i)
          /\ o = IF t \in Backs(rl, i) THEN 1 ELSE 0
          /\ p = IF t \in Backs(rl2, i) THEN 1 ELSE 0
        BY <1>5 DEF Backs, BackOf
    <2>. QED  BY <1>4, <2>1, ShareStep
<1>7. /\ LooksOut(tk, rl, i) = a + c /\ LooksOut(tk2, rl2, i) = b + d
      /\ LookNum(tk[t], rl[t], i) = m + o /\ LookNum(tk2[t], rl2[t], i) = n + p
    BY <1>1, <1>2, <1>4, <1>5, Zenon DEF LooksOut, LookNum
<1>8. /\ (b + d) + (m + o) = (a + c) + (n + p) /\ a + c >= m + o
      /\ m + o \in Nat /\ n + p \in Nat
    BY <1>3, <1>6, TwoShares
<1>. QED  BY <1>7, <1>8 DEF Share

LEMMA OpensStep ==
    ASSUME NEW t \in Tasks, TreeAssumption, NEW tk, NEW rl, NEW tk2, NEW rl2, NEW i,
           \A u \in Tasks \ {t} : tk2[u] = tk[u] /\ rl2[u] = rl[u]
    PROVE  Share(OpensOut(tk, rl, i), OpensOut(tk2, rl2, i),
                 OpenNum(tk[t], rl[t], i), OpenNum(tk2[t], rl2[t], i))
<1>1. PICK e, g : e = Cardinality(Files(tk, i)) /\ g = Cardinality(Files(tk2, i))
    OBVIOUS
<1>2. PICK q, s : q = FileOf(tk[t], i) /\ s = FileOf(tk2[t], i)
    OBVIOUS
<1>3. /\ e \in Nat /\ g \in Nat /\ g + q = e + s /\ e >= q /\ q \in {0, 1} /\ s \in {0, 1}
    <2>1. /\ Files(tk, i) \subseteq Tasks /\ Files(tk2, i) \subseteq Tasks
          /\ \A u \in Tasks \ {t} : u \in Files(tk, i) <=> u \in Files(tk2, i)
          /\ q = IF t \in Files(tk, i) THEN 1 ELSE 0
          /\ s = IF t \in Files(tk2, i) THEN 1 ELSE 0
        BY <1>2 DEF Files, FileOf
    <2>. QED  BY <1>1, <2>1, ShareStep
<1>4. PICK h, j : h = Cardinality(Openers(tk, i)) /\ j = Cardinality(Openers(tk2, i))
    OBVIOUS
<1>5. PICK v, w : v = OpenOf(tk[t], i) /\ w = OpenOf(tk2[t], i)
    OBVIOUS
<1>6. /\ h \in Nat /\ j \in Nat /\ j + v = h + w /\ h >= v /\ v \in {0, 1} /\ w \in {0, 1}
    <2>1. /\ Openers(tk, i) \subseteq Tasks /\ Openers(tk2, i) \subseteq Tasks
          /\ \A u \in Tasks \ {t} : u \in Openers(tk, i) <=> u \in Openers(tk2, i)
          /\ v = IF t \in Openers(tk, i) THEN 1 ELSE 0
          /\ w = IF t \in Openers(tk2, i) THEN 1 ELSE 0
        BY <1>5 DEF Openers, OpenOf
    <2>. QED  BY <1>4, <2>1, ShareStep
<1>7. PICK l, x : l = Cardinality(Closers(rl, i)) /\ x = Cardinality(Closers(rl2, i))
    OBVIOUS
<1>8. PICK y, z : y = CloseOf(rl[t], i) /\ z = CloseOf(rl2[t], i)
    OBVIOUS
<1>9. /\ l \in Nat /\ x \in Nat /\ x + y = l + z /\ l >= y /\ y \in {0, 1} /\ z \in {0, 1}
    <2>1. /\ Closers(rl, i) \subseteq Tasks /\ Closers(rl2, i) \subseteq Tasks
          /\ \A u \in Tasks \ {t} : u \in Closers(rl, i) <=> u \in Closers(rl2, i)
          /\ y = IF t \in Closers(rl, i) THEN 1 ELSE 0
          /\ z = IF t \in Closers(rl2, i) THEN 1 ELSE 0
        BY <1>8 DEF Closers, CloseOf
    <2>. QED  BY <1>7, <2>1, ShareStep
<1>10. /\ OpensOut(tk, rl, i) = e + h + l /\ OpensOut(tk2, rl2, i) = g + j + x
       /\ OpenNum(tk[t], rl[t], i) = q + v + y /\ OpenNum(tk2[t], rl2[t], i) = s + w + z
    BY <1>1, <1>2, <1>4, <1>5, <1>7, <1>8, Zenon DEF OpensOut, OpenNum
<1>11. /\ (g + j + x) + (q + v + y) = (e + h + l) + (s + w + z) /\ e + h + l >= q + v + y
       /\ q + v + y \in Nat /\ s + w + z \in Nat
    BY <1>3, <1>6, <1>9, ThreeShares
<1>. QED  BY <1>10, <1>11 DEF Share

(***************************************************************************)
(* The inductive invariant, of a daemon that goes on: disk d, table g,     *)
(* kernel c, tasks tk, releases rl and forgets w.                          *)
(***************************************************************************)
TypesOK(d, g, c, tk, rl, w) ==
    /\ DiskType(d) /\ Sound(g) /\ KernelType(c) /\ ForgetsType(w)
    /\ tk \in [Tasks -> TaskRec]
    /\ rl = [t \in Tasks |-> rl[t]] /\ \A t \in Tasks : RelShape(rl[t])

KernelHolds(c, tk, rl) ==
    /\ \A x \in c.dent : Known(c, x.id) /\ Known(c, x.dir)
    /\ \A t \in Tasks, i \in NodeIds : HeldBy(tk[t], rl[t], i) => Known(c, i)

ModesTrue(d, g, c) ==
    \A i \in NodeIds : Known(c, i) => i \in DOMAIN g.nodes /\ c.mode[i] = Kind(d, g, i)

RootKept(d, g) == Lookups(g, FUSE_ROOT_ID) > 0 /\ Kind(d, g, FUSE_ROOT_ID) = "dir"

Balanced(g, c, tk, rl, w) ==
    \A i \in NodeIds : i # FUSE_ROOT_ID =>
        Lookups(g, i) = c.nlookup[i] + Sum(w[i]) + LooksOut(tk, rl, i)

OpenBalanced(g, tk, rl) == \A i \in NodeIds : Opens(g, i) = OpensOut(tk, rl, i)

Live(d, g, c, tk, rl, w) ==
    /\ TypesOK(d, g, c, tk, rl, w)
    /\ ParentsAreDirs(d, g) /\ RootKept(d, g)
    /\ KernelHolds(c, tk, rl) /\ ModesTrue(d, g, c)
    /\ Balanced(g, c, tk, rl, w) /\ OpenBalanced(g, tk, rl)
    /\ \A t \in Tasks : TaskOK(d, g, tk[t], rl[t]) /\ RelOK(d, g, rl[t])

LEMMA LiveNumbers ==
    ASSUME NEW d, NEW g, NEW c, NEW tk, NEW rl, NEW w, TypesOK(d, g, c, tk, rl, w),
           TreeAssumption, NEW i \in NodeIds
    PROVE  /\ Lookups(g, i) \in Nat /\ Opens(g, i) \in Nat /\ c.nlookup[i] \in Nat
           /\ w[i] \in Seq(Nat \ {0}) /\ w[i] \in Seq(Nat) /\ Sum(w[i]) \in Nat
           /\ LooksOut(tk, rl, i) \in Nat /\ OpensOut(tk, rl, i) \in Nat
<1>1. TableType(g)
    BY DEF TypesOK, Sound, Good
<1>2. Lookups(g, i) \in Nat /\ Opens(g, i) \in Nat
    BY <1>1, NodeFacts DEF Lookups, Opens
<1>3. c.nlookup[i] \in Nat /\ w[i] \in Seq(Nat \ {0})
    BY DEF TypesOK, KernelType, ForgetsType
<1>4. w[i] \in Seq(Nat)
    BY <1>3
<1>. QED  BY <1>2, <1>3, <1>4, SumType, OutTypes

(* What somebody is told of, holds or gives back is in the table.          *)
LEMMA InTable ==
    ASSUME NEW d, NEW g, NEW c, NEW tk, NEW rl, NEW w, TypesOK(d, g, c, tk, rl, w),
           RootKept(d, g), Balanced(g, c, tk, rl, w), OpenBalanced(g, tk, rl),
           TreeAssumption, NEW i \in NodeIds
    PROVE  /\ Known(c, i) => i \in DOMAIN g.nodes /\ Lookups(g, i) > 0
           /\ \A t \in Tasks : LookNum(tk[t], rl[t], i) > 0 =>
                                   i \in DOMAIN g.nodes /\ Lookups(g, i) > 0
           /\ \A t \in Tasks : OpenNum(tk[t], rl[t], i) > 0 =>
                                   i \in DOMAIN g.nodes /\ Opens(g, i) > 0
<1>1. /\ Lookups(g, i) \in Nat /\ Opens(g, i) \in Nat /\ c.nlookup[i] \in Nat
      /\ Sum(w[i]) \in Nat /\ LooksOut(tk, rl, i) \in Nat /\ OpensOut(tk, rl, i) \in Nat
    BY LiveNumbers
<1>2. (Lookups(g, i) > 0 => i \in DOMAIN g.nodes) /\ (Opens(g, i) > 0 => i \in DOMAIN g.nodes)
    BY DEF Lookups, Opens
<1>3. ASSUME NEW t \in Tasks
      PROVE  /\ LooksOut(tk, rl, i) >= LookNum(tk[t], rl[t], i)
             /\ OpensOut(tk, rl, i) >= OpenNum(tk[t], rl[t], i)
             /\ LookNum(tk[t], rl[t], i) \in Nat /\ OpenNum(tk[t], rl[t], i) \in Nat
    <2>1. \A u \in Tasks \ {t} : tk[u] = tk[u] /\ rl[u] = rl[u]
        OBVIOUS
    <2>2. /\ Share(LooksOut(tk, rl, i), LooksOut(tk, rl, i),
                   LookNum(tk[t], rl[t], i), LookNum(tk[t], rl[t], i))
          /\ Share(OpensOut(tk, rl, i), OpensOut(tk, rl, i),
                   OpenNum(tk[t], rl[t], i), OpenNum(tk[t], rl[t], i))
        BY <2>1, LooksStep, OpensStep
    <2>. QED  BY <2>2 DEF Share
<1>4. Opens(g, i) = OpensOut(tk, rl, i)
    BY DEF OpenBalanced
<1>5. CASE i = FUSE_ROOT_ID
    BY <1>1, <1>2, <1>3, <1>4, <1>5 DEF RootKept
<1>6. CASE i # FUSE_ROOT_ID
    <2>1. Lookups(g, i) = c.nlookup[i] + Sum(w[i]) + LooksOut(tk, rl, i)
        BY <1>6 DEF Balanced
    <2>. QED  BY <1>1, <1>2, <1>3, <1>4, <1>6, <2>1 DEF Known
<1>. QED  BY <1>5, <1>6

\* The nodes that stay are what they were.
KindsKept(d, g, e, h) ==
    \A i \in DOMAIN g.nodes : i \in DOMAIN h.nodes => Kind(e, h, i) = Kind(d, g, i)

\* The nodes that a task and its release speak of.
SpeaksOf(r, q, i) == /\ i \in NodeIds
                     /\ \/ HeldBy(r, q, i) \/ LookNum(r, q, i) > 0
                        \/ q.pc = "cancel" /\ q.ino = i

(* A task and its release stay what they are when their nodes do.          *)
LEMMA TaskKindsKept ==
    ASSUME NEW d, NEW g, NEW e, NEW h, KindsKept(d, g, e, h), NEW r \in TaskRec, NEW q,
           RelShape(q), TaskOK(d, g, r, q), RelOK(d, g, q),
           \A i \in NodeIds : SpeaksOf(r, q, i) => i \in DOMAIN g.nodes /\ i \in DOMAIN h.nodes
    PROVE  TaskOK(e, h, r, q) /\ RelOK(e, h, q)
<1>1. \A i \in NodeIds : SpeaksOf(r, q, i) => Kind(e, h, i) = Kind(d, g, i)
    BY DEF KindsKept
<1>2. /\ r.at \in NodeIds /\ (r.to # 0 => r.to \in NodeIds) /\ (r.ino # 0 => r.ino \in NodeIds)
      /\ (r.got # 0 => r.got \in NodeIds) /\ (q.ino # 0 => q.ino \in NodeIds)
    BY DEF TaskRec, RelShape, NodeIds
<1>3. Kind(e, h, r.at) = Kind(d, g, r.at)
    BY <1>1, <1>2 DEF SpeaksOf, HeldBy
<1>4. r.to # 0 => Kind(e, h, r.to) = Kind(d, g, r.to)
    BY <1>1, <1>2 DEF SpeaksOf, HeldBy
<1>5. r.ino # 0 => Kind(e, h, r.ino) = Kind(d, g, r.ino)
    BY <1>1, <1>2 DEF SpeaksOf, HeldBy
<1>6. r.op \in Looking /\ r.got # 0 => Kind(e, h, r.got) = Kind(d, g, r.got)
    <2>. SUFFICES ASSUME r.op \in Looking, r.got # 0  PROVE Kind(e, h, r.got) = Kind(d, g, r.got)
        OBVIOUS
    <2>1. r.pc = "done" /\ r.op # "open"
        <3>1. r.pc = "done"
            BY DEF TaskOK
        <3>. QED  BY <3>1 DEF Looking
    <2>2. LookNum(r, q, r.got) > 0
        <3>1. LookOf(r, r.got) = 1 /\ BackOf(q, r.got) \in {0, 1}
            BY <2>1 DEF LookOf, BackOf
        <3>. QED  BY <3>1 DEF LookNum
    <2>. QED  BY <1>1, <1>2, <2>2 DEF SpeaksOf
<1>7. q.pc = "cancel" /\ q.ino # 0 => Kind(e, h, q.ino) = Kind(d, g, q.ino)
    BY <1>1, <1>2 DEF SpeaksOf
<1>8. TaskOK(e, h, r, q)
    BY <1>3, <1>4, <1>5, <1>6 DEF TaskOK
<1>9. RelOK(e, h, q)
    BY <1>7 DEF RelOK
<1>. QED  BY <1>8, <1>9

(* The nodes that a task speaks of are in the table.                       *)
LEMMA SpokenInTable ==
    ASSUME NEW d, NEW g, NEW c, NEW tk, NEW rl, NEW w, TypesOK(d, g, c, tk, rl, w),
           RootKept(d, g), Balanced(g, c, tk, rl, w), OpenBalanced(g, tk, rl),
           TreeAssumption, KernelHolds(c, tk, rl), NEW t \in Tasks, NEW i \in NodeIds,
           SpeaksOf(tk[t], rl[t], i)
    PROVE  i \in DOMAIN g.nodes /\ (Lookups(g, i) > 0 \/ Opens(g, i) > 0)
<1>1. CASE HeldBy(tk[t], rl[t], i)
    BY <1>1, InTable DEF KernelHolds
<1>2. CASE LookNum(tk[t], rl[t], i) > 0
    BY <1>2, InTable
<1>3. CASE rl[t].pc = "cancel" /\ rl[t].ino = i
    <2>1. CloseOf(rl[t], i) = 1 /\ FileOf(tk[t], i) \in {0, 1} /\ OpenOf(tk[t], i) \in {0, 1}
        BY <1>3 DEF CloseOf, FileOf, OpenOf
    <2>2. OpenNum(tk[t], rl[t], i) > 0
        BY <2>1 DEF OpenNum
    <2>. QED  BY <2>2, InTable
<1>. QED  BY <1>1, <1>2, <1>3 DEF SpeaksOf

\* The lookups that a step counts, and the opens, are those that its task
\* and its release, r and q before it and r2 and q2 after it, are to answer
\* for, or that the kernel counts or gives back.
LooksMove(g, c, w, r, q, h, c2, w2, r2, q2) ==
    \A i \in NodeIds : i # FUSE_ROOT_ID =>
        Lookups(h, i) + c.nlookup[i] + Sum(w[i]) + LookNum(r, q, i)
            = Lookups(g, i) + c2.nlookup[i] + Sum(w2[i]) + LookNum(r2, q2, i)

OpensMove(g, r, q, h, r2, q2) ==
    \A i \in NodeIds : Opens(h, i) + OpenNum(r, q, i) = Opens(g, i) + OpenNum(r2, q2, i)

\* The inodes that the kernel has it keeps, and their types; it takes those of
\* others from the disk.
InodesKept(c, c2) == \A i \in NodeIds : Known(c, i) => Known(c2, i)
ModesMove(c, c2, e, h) ==
    \A i \in NodeIds : Known(c2, i) =>
        \/ Known(c, i) /\ c2.mode[i] = c.mode[i]
        \/ c2.mode[i] = Kind(e, h, i)

\* The tasks but t, and their releases, do nothing.
OthersStay(t, tk, rl, tk2, rl2) ==
    \A u \in Tasks \ {t} : tk2[u] = tk[u] /\ rl2[u] = rl[u]

DentsKnown(c) == \A x \in c.dent : Known(c, x.id) /\ Known(c, x.dir)
HeldKnown(c, r, q) == \A i \in NodeIds : HeldBy(r, q, i) => Known(c, i)

(* A step changes the disk, the table, the kernel, the forgets and some    *)
(* tasks: the others stay what they are.                                   *)
LEMMA WholeStep ==
    ASSUME NEW d, NEW g, NEW c, NEW tk, NEW rl, NEW w, Live(d, g, c, tk, rl, w), TreeAssumption,
           NEW e, NEW h, NEW c2, NEW tk2, NEW rl2, NEW w2, TypesOK(e, h, c2, tk2, rl2, w2),
           ParentsAreDirs(e, h), KindsKept(d, g, e, h), Lookups(h, FUSE_ROOT_ID) > 0,
           Balanced(h, c2, tk2, rl2, w2), OpenBalanced(h, tk2, rl2), KernelHolds(c2, tk2, rl2),
           ModesMove(c, c2, e, h),
           \A u \in Tasks : \/ tk2[u] = tk[u] /\ rl2[u] = rl[u]
                            \/ TaskOK(e, h, tk2[u], rl2[u]) /\ RelOK(e, h, rl2[u])
    PROVE  Live(e, h, c2, tk2, rl2, w2)
<1>1. /\ TypesOK(d, g, c, tk, rl, w) /\ RootKept(d, g) /\ KernelHolds(c, tk, rl)
      /\ ModesTrue(d, g, c) /\ Balanced(g, c, tk, rl, w) /\ OpenBalanced(g, tk, rl)
      /\ \A u \in Tasks : TaskOK(d, g, tk[u], rl[u]) /\ RelOK(d, g, rl[u])
    BY DEF Live
<1>2. RootKept(e, h)
    <2>1. FUSE_ROOT_ID \in DOMAIN g.nodes /\ FUSE_ROOT_ID \in DOMAIN h.nodes
        BY <1>1 DEF RootKept, Lookups
    <2>. QED  BY <1>1, <2>1 DEF RootKept, KindsKept
<1>3. ModesTrue(e, h, c2)
    <2>. SUFFICES ASSUME NEW i \in NodeIds, Known(c2, i)
                  PROVE  i \in DOMAIN h.nodes /\ c2.mode[i] = Kind(e, h, i)
        BY DEF ModesTrue
    <2>1. i \in DOMAIN h.nodes
        BY <1>2, InTable
    <2>2. CASE c2.mode[i] = Kind(e, h, i)
        BY <2>1, <2>2
    <2>3. CASE Known(c, i) /\ c2.mode[i] = c.mode[i]
        BY <1>1, <2>1, <2>3 DEF ModesTrue, KindsKept
    <2>. QED  BY <2>2, <2>3 DEF ModesMove
<1>4. ASSUME NEW u \in Tasks
      PROVE  TaskOK(e, h, tk2[u], rl2[u]) /\ RelOK(e, h, rl2[u])
    <2>1. CASE TaskOK(e, h, tk2[u], rl2[u]) /\ RelOK(e, h, rl2[u])
        BY <2>1
    <2>2. CASE tk2[u] = tk[u] /\ rl2[u] = rl[u]
        <3>1. tk2[u] = tk[u] /\ rl2[u] = rl[u]
            BY <2>2
        <3>2. tk[u] \in TaskRec /\ RelShape(rl[u]) /\ TaskOK(d, g, tk[u], rl[u]) /\ RelOK(d, g, rl[u])
            BY <1>1 DEF TypesOK
        <3>3. ASSUME NEW i \in NodeIds, SpeaksOf(tk[u], rl[u], i)
              PROVE  i \in DOMAIN g.nodes /\ i \in DOMAIN h.nodes
            <4>1. i \in DOMAIN g.nodes
                BY <1>1, <3>3, SpokenInTable
            <4>2. SpeaksOf(tk2[u], rl2[u], i)
                BY <3>1, <3>3
            <4>3. i \in DOMAIN h.nodes
                BY <1>2, <4>2, SpokenInTable
            <4>. QED  BY <4>1, <4>3
        <3>4. TaskOK(e, h, tk[u], rl[u]) /\ RelOK(e, h, rl[u])
            BY <3>2, <3>3, TaskKindsKept
        <3>. QED  BY <3>1, <3>4
    <2>. QED  BY <2>1, <2>2
<1>. QED  BY <1>2, <1>3, <1>4 DEF Live

(* A step in which one task moves, and its release, and what they change.  *)
LEMMA TaskStep ==
    ASSUME NEW d, NEW g, NEW c, NEW tk, NEW rl, NEW w, Live(d, g, c, tk, rl, w), TreeAssumption,
           NEW e, NEW h, NEW c2, NEW tk2, NEW rl2, NEW w2, TypesOK(e, h, c2, tk2, rl2, w2),
           NEW t \in Tasks, OthersStay(t, tk, rl, tk2, rl2),
           ParentsAreDirs(e, h), KindsKept(d, g, e, h), Lookups(h, FUSE_ROOT_ID) > 0,
           LooksMove(g, c, w, tk[t], rl[t], h, c2, w2, tk2[t], rl2[t]),
           OpensMove(g, tk[t], rl[t], h, tk2[t], rl2[t]),
           InodesKept(c, c2), ModesMove(c, c2, e, h), DentsKnown(c2), HeldKnown(c2, tk2[t], rl2[t]),
           TaskOK(e, h, tk2[t], rl2[t]), RelOK(e, h, rl2[t])
    PROVE  Live(e, h, c2, tk2, rl2, w2)
<1>1. /\ TypesOK(d, g, c, tk, rl, w) /\ KernelHolds(c, tk, rl)
      /\ Balanced(g, c, tk, rl, w) /\ OpenBalanced(g, tk, rl)
      /\ \A u \in Tasks \ {t} : tk2[u] = tk[u] /\ rl2[u] = rl[u]
    BY DEF Live, OthersStay
<1>2. Balanced(h, c2, tk2, rl2, w2)
    <2>. SUFFICES ASSUME NEW i \in NodeIds, i # FUSE_ROOT_ID
                  PROVE  Lookups(h, i) = c2.nlookup[i] + Sum(w2[i]) + LooksOut(tk2, rl2, i)
        BY DEF Balanced
    <2>1. PICK l, n, s, o : /\ l = Lookups(g, i) /\ n = c.nlookup[i] /\ s = Sum(w[i])
                            /\ o = LooksOut(tk, rl, i)
        OBVIOUS
    <2>2. PICK l2, n2, s2, o2 : /\ l2 = Lookups(h, i) /\ n2 = c2.nlookup[i] /\ s2 = Sum(w2[i])
                                /\ o2 = LooksOut(tk2, rl2, i)
        OBVIOUS
    <2>3. PICK m, m2 : m = LookNum(tk[t], rl[t], i) /\ m2 = LookNum(tk2[t], rl2[t], i)
        OBVIOUS
    <2>4. l \in Nat /\ n \in Nat /\ s \in Nat /\ o \in Nat
        BY <1>1, <2>1, LiveNumbers
    <2>5. l2 \in Nat /\ n2 \in Nat /\ s2 \in Nat /\ o2 \in Nat
        BY <2>2, LiveNumbers
    <2>6. o2 + m = o + m2 /\ m \in Nat /\ m2 \in Nat
        <3>1. Share(o, o2, m, m2)
            BY <1>1, <2>1, <2>2, <2>3, LooksStep
        <3>. QED  BY <3>1 DEF Share
    <2>7. l = n + s + o
        BY <1>1, <2>1 DEF Balanced
    <2>8. l2 + n + s + m = l + n2 + s2 + m2
        BY <2>1, <2>2, <2>3 DEF LooksMove
    <2>9. l2 = n2 + s2 + o2
        BY ONLY <2>4, <2>5, <2>6, <2>7, <2>8
    <2>. QED  BY <2>2, <2>9
<1>3. OpenBalanced(h, tk2, rl2)
    <2>. SUFFICES ASSUME NEW i \in NodeIds  PROVE Opens(h, i) = OpensOut(tk2, rl2, i)
        BY DEF OpenBalanced
    <2>1. PICK l, o, l2, o2 : /\ l = Opens(g, i) /\ o = OpensOut(tk, rl, i)
                              /\ l2 = Opens(h, i) /\ o2 = OpensOut(tk2, rl2, i)
        OBVIOUS
    <2>2. PICK m, m2 : m = OpenNum(tk[t], rl[t], i) /\ m2 = OpenNum(tk2[t], rl2[t], i)
        OBVIOUS
    <2>3. l \in Nat /\ o \in Nat /\ l2 \in Nat /\ o2 \in Nat
        BY <1>1, <2>1, LiveNumbers
    <2>4. o2 + m = o + m2 /\ m \in Nat /\ m2 \in Nat
        <3>1. Share(o, o2, m, m2)
            BY <1>1, <2>1, <2>2, OpensStep
        <3>. QED  BY <3>1 DEF Share
    <2>5. l = o
        BY <1>1, <2>1 DEF OpenBalanced
    <2>6. l2 + m = l + m2
        BY <2>1, <2>2 DEF OpensMove
    <2>. QED  BY <2>1, <2>3, <2>4, <2>5, <2>6
<1>4. KernelHolds(c2, tk2, rl2)
    <2>1. ASSUME NEW u \in Tasks, NEW i \in NodeIds, HeldBy(tk2[u], rl2[u], i)
          PROVE  Known(c2, i)
        <3>1. CASE u = t
            BY <2>1, <3>1 DEF HeldKnown
        <3>2. CASE u # t
            <4>1. tk2[u] = tk[u] /\ rl2[u] = rl[u]
                BY <1>1, <3>2
            <4>. QED  BY <1>1, <2>1, <4>1 DEF KernelHolds, InodesKept
        <3>. QED  BY <3>1, <3>2
    <2>. QED  BY <2>1 DEF KernelHolds, DentsKnown
<1>5. \A u \in Tasks : \/ tk2[u] = tk[u] /\ rl2[u] = rl[u]
                       \/ TaskOK(e, h, tk2[u], rl2[u]) /\ RelOK(e, h, rl2[u])
    <2>. SUFFICES ASSUME NEW u \in Tasks
                  PROVE  \/ tk2[u] = tk[u] /\ rl2[u] = rl[u]
                         \/ TaskOK(e, h, tk2[u], rl2[u]) /\ RelOK(e, h, rl2[u])
        OBVIOUS
    <2>1. CASE u = t
        BY <2>1, Zenon
    <2>2. CASE u # t
        <3>1. tk2[u] = tk[u] /\ rl2[u] = rl[u]
            BY <1>1, <2>2
        <3>. QED  BY <3>1
    <2>. QED  BY <2>1, <2>2
<1>. QED  BY <1>2, <1>3, <1>4, <1>5, WholeStep

(* A node with no inode in the kernel, that no one is told of and no one   *)
(* gives back: if it is open, an open that was refused is yet to be taken  *)
(* back.                                                                   *)
LEMMA Unheld ==
    ASSUME NEW d, NEW g, NEW c, NEW tk, NEW rl, NEW w, Live(d, g, c, tk, rl, w), TreeAssumption,
           NEW i \in NodeIds, ~Known(c, i), \A t \in Tasks : ~(LookNum(tk[t], rl[t], i) > 0),
           Opens(g, i) # 0
    PROVE  \E t \in Tasks : rl[t].pc = "cancel" /\ ~rl[t].forget /\ rl[t].ino = i
<1>1. /\ TypesOK(d, g, c, tk, rl, w) /\ KernelHolds(c, tk, rl) /\ OpenBalanced(g, tk, rl)
      /\ \A u \in Tasks : TaskOK(d, g, tk[u], rl[u]) /\ RelOK(d, g, rl[u])
    BY DEF Live
<1>2. Files(tk, i) = {}
    BY <1>1 DEF Files, KernelHolds, HeldBy
<1>3. \A t \in Tasks : LookOf(tk[t], i) = 0 /\ BackOf(rl[t], i) = 0
    BY DEF LookNum, LookOf, BackOf
<1>4. Openers(tk, i) = {}
    <2>. SUFFICES ASSUME NEW t \in Openers(tk, i)  PROVE FALSE
        OBVIOUS
    <2>1. t \in Tasks /\ tk[t].pc = "done" /\ tk[t].got = i /\ tk[t].op \in {"open", "create"}
        BY DEF Openers
    <2>2. tk[t].op = "open"
        BY <1>3, <2>1 DEF LookOf
    <2>3. tk[t].ino = i
        BY <1>1, <2>1, <2>2 DEF TaskOK, NodeIds
    <2>. QED  BY <1>1, <2>1, <2>3 DEF KernelHolds, HeldBy
<1>5. Closers(rl, i) # {}
    <2>. SUFFICES ASSUME Closers(rl, i) = {}  PROVE FALSE
        OBVIOUS
    <2>1. OpensOut(tk, rl, i) = 0
        BY <1>2, <1>4, FS_EmptySet DEF OpensOut
    <2>. QED  BY <1>1, <2>1 DEF OpenBalanced
<1>6. PICK t \in Tasks : rl[t].pc \in {"sent", "cancel"} /\ rl[t].ino = i
    BY <1>5 DEF Closers
<1>7. ~rl[t].forget
    BY <1>3, <1>6 DEF BackOf
<1>8. rl[t].pc # "sent"
    BY <1>1, <1>6, <1>7 DEF RelOK, KernelHolds, HeldBy
<1>. QED  BY <1>6, <1>7, <1>8

(* The table of a live daemon is fit for the handlers.                     *)
LEMMA LiveTree ==
    ASSUME NEW d, NEW g, NEW c, NEW tk, NEW rl, NEW w, Live(d, g, c, tk, rl, w), TreeAssumption
    PROVE  Tree(d, g)
<1>1. /\ TypesOK(d, g, c, tk, rl, w) /\ RootKept(d, g) /\ KernelHolds(c, tk, rl)
      /\ Balanced(g, c, tk, rl, w) /\ OpenBalanced(g, tk, rl) /\ ParentsAreDirs(d, g)
      /\ \A u \in Tasks : TaskOK(d, g, tk[u], rl[u]) /\ RelOK(d, g, rl[u])
    BY DEF Live
<1>2. ASSUME NEW i \in NodeIds, i \in DOMAIN g.nodes, Lookups(g, i) = 0, Kind(d, g, i) = "dir"
      PROVE  Opens(g, i) = 0
    <2>1. ~Known(c, i) /\ \A t \in Tasks : ~(LookNum(tk[t], rl[t], i) > 0)
        BY <1>1, <1>2, InTable
    <2>. SUFFICES ASSUME Opens(g, i) # 0  PROVE FALSE
        OBVIOUS
    <2>2. PICK t \in Tasks : rl[t].pc = "cancel" /\ ~rl[t].forget /\ rl[t].ino = i
        BY <2>1, Unheld
    <2>. QED  BY <1>1, <1>2, <2>2 DEF RelOK
<1>. QED  BY <1>1, <1>2 DEF Tree, DirsShut, TypesOK

(***************************************************************************)
(* The steps of the kernel                                                 *)
(***************************************************************************)
Alive == Live(disk, f, k, task, rel, forgets) /\ ~f.abort

\* An open that was refused after the node was opened is yet to be taken back.
Cancelled == \E t \in Tasks : rel[t].pc = "cancel" /\ ~rel[t].forget

LEMMA AliveFacts ==
    ASSUME Alive
    PROVE  /\ TypesOK(disk, f, k, task, rel, forgets)
           /\ ParentsAreDirs(disk, f) /\ RootKept(disk, f)
           /\ KernelHolds(k, task, rel) /\ ModesTrue(disk, f, k)
           /\ Balanced(f, k, task, rel, forgets) /\ OpenBalanced(f, task, rel)
           /\ KernelType(k) /\ DiskType(disk) /\ Sound(f) /\ ForgetsType(forgets)
           /\ \A t \in Tasks : /\ TaskOK(disk, f, task[t], rel[t]) /\ RelOK(disk, f, rel[t])
                               /\ task[t] \in TaskRec /\ RelShape(rel[t])
BY DEF Alive, Live, TypesOK

(* One task moves, and the table does not.                                 *)
LEMMA KernelStep ==
    ASSUME Alive, TreeAssumption, UNCHANGED <<disk, f>>, NEW t \in Tasks,
           NEW r \in TaskRec, task' = [task EXCEPT ![t] = r],
           NEW q, RelShape(q), rel' = [rel EXCEPT ![t] = q],
           KernelType(k'), ForgetsType(forgets'),
           LooksMove(f, k, forgets, task[t], rel[t], f, k', forgets', r, q),
           OpensMove(f, task[t], rel[t], f, r, q),
           InodesKept(k, k'), ModesMove(k, k', disk, f), DentsKnown(k'), HeldKnown(k', r, q),
           TaskOK(disk, f, r, q), RelOK(disk, f, q)
    PROVE  Alive'
<1>1. /\ TypesOK(disk, f, k, task, rel, forgets) /\ ParentsAreDirs(disk, f)
      /\ RootKept(disk, f) /\ Live(disk, f, k, task, rel, forgets)
    BY AliveFacts DEF Alive
<1>2. /\ task \in [Tasks -> TaskRec] /\ rel = [u \in Tasks |-> rel[u]]
      /\ \A u \in Tasks : RelShape(rel[u])
    BY <1>1 DEF TypesOK
<1>3. OthersStay(t, task, rel, task', rel')
    BY <1>2 DEF OthersStay
<1>4. task'[t] = r /\ rel'[t] = q
    BY <1>2
<1>5. /\ task' \in [Tasks -> TaskRec] /\ rel' = [u \in Tasks |-> rel'[u]]
      /\ \A u \in Tasks : RelShape(rel'[u])
    BY <1>2
<1>6. TypesOK(disk, f, k', task', rel', forgets')
    BY <1>1, <1>5 DEF TypesOK
<1>7. KindsKept(disk, f, disk, f)
    BY DEF KindsKept
<1>8. /\ LooksMove(f, k, forgets, task[t], rel[t], f, k', forgets', task'[t], rel'[t])
      /\ OpensMove(f, task[t], rel[t], f, task'[t], rel'[t])
      /\ HeldKnown(k', task'[t], rel'[t])
    BY <1>4
<1>9. Lookups(f, FUSE_ROOT_ID) > 0
    BY <1>1 DEF RootKept
<1>10. TaskOK(disk, f, task'[t], rel'[t]) /\ RelOK(disk, f, rel'[t])
    BY <1>4
<1>11. Live(disk, f, k', task', rel', forgets')
    BY <1>1, <1>3, <1>6, <1>7, <1>8, <1>9, <1>10, TaskStep
<1>. QED  BY <1>11 DEF Alive

(* A task sends a request, or moves: it holds what it names.               *)
LEMMA RequestStep ==
    ASSUME Alive, TreeAssumption, Kernel, NEW t \in Tasks, task[t].pc = "idle",
           NEW r \in TaskRec, task' = [task EXCEPT ![t] = r], r.pc # "done",
           r.file = task[t].file, HeldKnown(k, r, rel[t]), TaskOK(disk, f, r, rel[t])
    PROVE  Alive'
<1>1. /\ KernelType(k) /\ ForgetsType(forgets) /\ KernelHolds(k, task, rel)
      /\ ModesTrue(disk, f, k) /\ RelShape(rel[t]) /\ RelOK(disk, f, rel[t])
      /\ rel = [u \in Tasks |-> rel[u]] /\ TypesOK(disk, f, k, task, rel, forgets)
    BY AliveFacts DEF TypesOK
<1>2. UNCHANGED <<disk, f>> /\ k' = k /\ forgets' = forgets /\ rel' = rel
    BY DEF Kernel
<1>3. PICK q : q = rel[t]
    OBVIOUS
<1>4. rel' = [rel EXCEPT ![t] = q]
    BY <1>1, <1>2, <1>3
<1>5. KernelType(k') /\ ForgetsType(forgets')
    BY <1>1, <1>2
<1>6. LooksMove(f, k, forgets, task[t], rel[t], f, k', forgets', r, q)
    <2>1. \A i \in NodeIds : LookNum(task[t], rel[t], i) = LookNum(r, q, i)
        BY <1>3 DEF LookNum, LookOf
    <2>. QED  BY <1>2, <2>1 DEF LooksMove
<1>7. OpensMove(f, task[t], rel[t], f, r, q)
    <2>1. \A i \in NodeIds : OpenNum(task[t], rel[t], i) = OpenNum(r, q, i)
        BY <1>3 DEF OpenNum, OpenOf, FileOf
    <2>. QED  BY <2>1 DEF OpensMove
<1>8. InodesKept(k, k') /\ ModesMove(k, k', disk, f) /\ DentsKnown(k') /\ HeldKnown(k', r, q)
    <2>1. InodesKept(k, k) /\ ModesMove(k, k, disk, f) /\ DentsKnown(k) /\ HeldKnown(k, r, q)
        BY <1>1, <1>3 DEF InodesKept, ModesMove, ModesTrue, DentsKnown, KernelHolds
    <2>. QED  BY <1>2, <2>1
<1>9. RelShape(q) /\ TaskOK(disk, f, r, q) /\ RelOK(disk, f, q)
    BY <1>1, <1>3
<1>. QED  BY <1>2, <1>4, <1>5, <1>6, <1>7, <1>8, <1>9, KernelStep

\* What a task asks for, as a record with all of its fields.
Asking(r, op, n, to, m, i) ==
    [pc |-> "sent", op |-> op, at |-> r.at, name |-> n, to |-> to, newname |-> m, ino |-> i,
     file |-> r.file, err |-> r.err, got |-> r.got, mode |-> r.mode]

AskOf(t, op, n, i) == [Ask(t, op, n) EXCEPT !.ino = i]
AskTo(t, op, n, to, m, i) == [Ask(t, op, n) EXCEPT !.to = to, !.newname = m, !.ino = i]

LEMMA AskForms ==
    ASSUME NEW t \in Tasks, task[t] \in TaskRec, TaskOK(disk, f, task[t], rel[t]),
           task[t].pc = "idle", NEW op, NEW n, NEW to, NEW m, NEW i
    PROVE  /\ Ask(t, op, n) = Asking(task[t], op, n, 0, NULL, 0)
           /\ AskOf(t, op, n, i) = Asking(task[t], op, n, 0, NULL, i)
           /\ AskTo(t, op, n, to, m, i) = Asking(task[t], op, n, to, m, i)
<1>1. PICK r : r = task[t]
    OBVIOUS
<1>2. r \in TaskRec /\ r.to = 0 /\ r.newname = NULL /\ r.ino = 0
    BY <1>1 DEF TaskOK
<1>3. Ask(t, op, n) = [r EXCEPT !.pc = "sent", !.op = op, !.name = n]
    BY <1>1 DEF Ask
<1>4. Ask(t, op, n) = Asking(r, op, n, 0, NULL, 0)
    BY <1>2, <1>3 DEF TaskRec, Asking
<1>7. PICK a : a = Ask(t, op, n)
    OBVIOUS
<1>5. [a EXCEPT !.ino = i] = Asking(r, op, n, 0, NULL, i)
    BY <1>4, <1>7 DEF Asking
<1>6. [a EXCEPT !.to = to, !.newname = m, !.ino = i] = Asking(r, op, n, to, m, i)
    <2>1. PICK b : b = [a EXCEPT !.to = to]
        OBVIOUS
    <2>2. b = Asking(r, op, n, to, NULL, 0)
        BY <1>4, <1>7, <2>1 DEF Asking
    <2>3. PICK c : c = [b EXCEPT !.newname = m]
        OBVIOUS
    <2>4. c = Asking(r, op, n, to, m, 0)
        BY <2>2, <2>3 DEF Asking
    <2>5. [c EXCEPT !.ino = i] = Asking(r, op, n, to, m, i)
        BY <2>4 DEF Asking
    <2>. QED  BY <2>1, <2>3, <2>5
<1>. QED  BY <1>1, <1>4, <1>5, <1>6, <1>7 DEF AskOf, AskTo

\* What a task may ask for.
MayAsk(r, q, op, n, to, m, i) ==
    /\ op \in Looking \cup Moving \cup {"open"} /\ n \in Names \cup {NULL}
    /\ op # "open" => n \in Names
    /\ to \in 0..MaxNode /\ m \in Names \cup {NULL} /\ i \in 0..MaxNode
    /\ to # 0 => Known(k, to) /\ Kind(disk, f, to) = "dir"
    /\ i # 0 => Known(k, i)
    /\ op \in {"revalidate", "link", "open"} \cup Moving => i # 0
    /\ op = "rename" => m \in Names /\ to # 0
    /\ op = "open" => Kind(disk, f, i) # "dir"
    /\ op \in {"open", "create"} => r.file = 0 /\ q.pc = "none"

LEMMA AskStep ==
    ASSUME Alive, TreeAssumption, Kernel, NEW t \in Tasks, task[t].pc = "idle",
           NEW op, NEW n, NEW to, NEW m, NEW i, MayAsk(task[t], rel[t], op, n, to, m, i),
           NEW r, r = Asking(task[t], op, n, to, m, i), task' = [task EXCEPT ![t] = r]
    PROVE  Alive'
<1>1. /\ task[t] \in TaskRec /\ TaskOK(disk, f, task[t], rel[t]) /\ KernelHolds(k, task, rel)
    BY AliveFacts
<1>2. PICK u : u = task[t]
    OBVIOUS
<1>3. /\ r.pc = "sent" /\ r.op = op /\ r.at = u.at /\ r.name = n /\ r.to = to /\ r.newname = m
      /\ r.ino = i /\ r.file = u.file /\ r.err = u.err /\ r.got = u.got /\ r.mode = u.mode
    BY <1>2 DEF Asking
<1>4. r \in TaskRec
    BY <1>1, <1>2 DEF TaskRec, MayAsk, Asking
<1>5. HeldKnown(k, r, rel[t])
    <2>1. \A j \in NodeIds : HeldBy(r, rel[t], j) => HeldBy(u, rel[t], j) \/ Known(k, j)
        BY <1>2, <1>3 DEF HeldBy, MayAsk, NodeIds
    <2>. QED  BY <1>1, <1>2, <2>1 DEF HeldKnown, KernelHolds
<1>6. TaskOK(disk, f, r, rel[t])
    <2>1. r.got = 0 /\ Kind(disk, f, r.at) = "dir"
        BY <1>1, <1>2, <1>3 DEF TaskOK
    <2>. QED  BY <1>2, <1>3, <2>1 DEF TaskOK, MayAsk, Looking, Moving
<1>. QED  BY <1>2, <1>3, <1>4, <1>5, <1>6, RequestStep

(* What a dentry names, the kernel has an inode for.                       *)
LEMMA DentFacts ==
    ASSUME Alive, TreeAssumption, NEW x \in k.dent
    PROVE  /\ x.id \in NodeIds /\ x.dir \in NodeIds /\ x.name \in Names /\ x.valid \in BOOLEAN
           /\ x.id # 0 /\ x.id \in 0..MaxNode /\ Known(k, x.id) /\ Known(k, x.dir)
           /\ x.id \in DOMAIN f.nodes /\ k.mode[x.id] = Kind(disk, f, x.id)
<1>1. KernelType(k) /\ KernelHolds(k, task, rel) /\ ModesTrue(disk, f, k)
    BY AliveFacts
<1>2. x \in DentRec
    BY <1>1 DEF KernelType
<1>3. x.id \in NodeIds /\ x.dir \in NodeIds /\ x.name \in Names /\ x.valid \in BOOLEAN
    BY <1>2 DEF DentRec
<1>4. Known(k, x.id) /\ Known(k, x.dir)
    BY <1>1 DEF KernelHolds
<1>5. x.id \in DOMAIN f.nodes /\ k.mode[x.id] = Kind(disk, f, x.id)
    BY <1>1, <1>3, <1>4 DEF ModesTrue
<1>. QED  BY <1>3, <1>4, <1>5 DEF NodeIds, TreeAssumption

LEMMA TaskFacts ==
    ASSUME Alive, TreeAssumption, NEW t \in Tasks
    PROVE  /\ task[t] \in TaskRec /\ TaskOK(disk, f, task[t], rel[t])
           /\ task[t].at \in NodeIds /\ Known(k, task[t].at)
           /\ Kind(disk, f, task[t].at) = "dir"
<1>1. /\ task[t] \in TaskRec /\ TaskOK(disk, f, task[t], rel[t]) /\ KernelHolds(k, task, rel)
    BY AliveFacts
<1>2. task[t].at \in NodeIds
    BY <1>1 DEF TaskRec
<1>. QED  BY <1>1, <1>2 DEF TaskOK, KernelHolds, HeldBy

LEMMA RequestOf ==
    ASSUME Alive, TreeAssumption, NodeAssumption, NEW t \in Tasks, NEW r, NEW op, NEW n, NEW to, NEW m, NEW i,
           Request(t, r), MayAsk(task[t], rel[t], op, n, to, m, i),
           r = Asking(task[t], op, n, to, m, i)
    PROVE  Alive'
BY AskStep DEF Request

(* LOOKUP, MKNOD, MKDIR and CREATE name something that is not there yet.   *)
LEMMA NewNameStep ==
    ASSUME Alive, TreeAssumption, NodeAssumption, NEW t \in Tasks, NEW op, NEW n \in Names,
           op \in {"lookup", "mknod", "mkdir", "create"},
           op = "create" => task[t].file = 0 /\ rel[t].pc = "none",
           Request(t, Ask(t, op, n))
    PROVE  Alive'
<1>1. Ask(t, op, n) = Asking(task[t], op, n, 0, NULL, 0)
    BY TaskFacts, AskForms DEF Request
<1>2. MayAsk(task[t], rel[t], op, n, 0, NULL, 0)
    BY DEF MayAsk, Looking, Moving, NodeAssumption
<1>. QED  BY <1>1, <1>2, RequestOf

(* The others name an entry of the kernel.                                 *)
LEMMA EntryStep ==
    ASSUME Alive, TreeAssumption, NodeAssumption, NEW t \in Tasks, NEW op, NEW n \in Names \cup {NULL},
           NEW x \in k.dent, op \in {"revalidate", "link", "unlink", "rmdir", "open"},
           op # "open" => n \in Names,
           op = "open" => task[t].file = 0 /\ rel[t].pc = "none" /\ ~IsDir(x.id),
           Request(t, AskOf(t, op, n, x.id))
    PROVE  Alive'
<1>1. PICK i : i = x.id
    OBVIOUS
<1>2. AskOf(t, op, n, i) = Asking(task[t], op, n, 0, NULL, i)
    BY TaskFacts, AskForms DEF Request
<1>3. /\ i # 0 /\ i \in 0..MaxNode /\ Known(k, i)
      /\ op = "open" => Kind(disk, f, i) # "dir"
    BY <1>1, DentFacts DEF IsDir
<1>4. MayAsk(task[t], rel[t], op, n, 0, NULL, i)
    BY <1>3 DEF MayAsk, Looking, Moving, NodeAssumption
<1>. QED  BY <1>1, <1>2, <1>4, RequestOf

LEMMA RenameStep ==
    ASSUME Alive, TreeAssumption, NodeAssumption, NEW t \in Tasks, NEW n \in Names, NEW to \in NodeIds,
           NEW m \in Names, fuse_rename(t, n, to, m)
    PROVE  Alive'
<1>1. PICK x \in k.dent :
          Request(t, AskTo(t, "rename", n, to, m, x.id))
    BY DEF fuse_rename, Dentry, AskTo
<1>2. PICK i : i = x.id
    OBVIOUS
<1>3. AskTo(t, "rename", n, to, m, i) = Asking(task[t], "rename", n, to, m, i)
    BY <1>1, TaskFacts, AskForms DEF Request
<1>4. i # 0 /\ i \in 0..MaxNode /\ Known(k, i)
    BY <1>2, DentFacts
<1>5. to \in {FUSE_ROOT_ID, task[t].at}
    BY DEF fuse_rename
<1>6. Known(k, to) /\ Kind(disk, f, to) = "dir"
    BY <1>5, TaskFacts, AliveFacts DEF RootKept, Known
<1>7. MayAsk(task[t], rel[t], "rename", n, to, m, i)
    BY <1>4, <1>6 DEF MayAsk, Looking, Moving, NodeIds, NodeAssumption
<1>. QED  BY <1>1, <1>2, <1>3, <1>7, RequestOf

(* A task walks to another directory.                                      *)
LEMMA WalkStep ==
    ASSUME Alive, TreeAssumption, NodeAssumption, Kernel, NEW t \in Tasks, task[t].pc = "idle",
           NEW i \in NodeIds, Known(k, i), Kind(disk, f, i) = "dir",
           task' = [task EXCEPT ![t].at = i]
    PROVE  Alive'
<1>1. PICK r, u : u = task[t] /\ r = [u EXCEPT !.at = i]
    OBVIOUS
<1>2. u \in TaskRec /\ TaskOK(disk, f, u, rel[t]) /\ KernelHolds(k, task, rel)
    BY <1>1, AliveFacts
<1>3. /\ r.pc = u.pc /\ r.op = u.op /\ r.at = i /\ r.name = u.name /\ r.to = u.to
      /\ r.newname = u.newname /\ r.ino = u.ino /\ r.file = u.file /\ r.err = u.err
      /\ r.got = u.got /\ r.mode = u.mode /\ r \in TaskRec
    BY <1>1, <1>2 DEF TaskRec
<1>4. HeldKnown(k, r, rel[t])
    BY <1>1, <1>2, <1>3 DEF HeldKnown, HeldBy, KernelHolds
<1>5. TaskOK(disk, f, r, rel[t])
    BY <1>1, <1>2, <1>3 DEF TaskOK, Looking, Moving
<1>6. task' = [task EXCEPT ![t] = r]
    BY <1>1
<1>. QED  BY <1>1, <1>3, <1>4, <1>5, <1>6, RequestStep

LEMMA StartRequest ==
    ASSUME Alive, TreeAssumption, NodeAssumption, NEW t \in Tasks, Start(t), ~fuse_release_common(t)
    PROVE  Alive'
<1>1. ASSUME NEW n \in Names, fuse_lookup(t, n)  PROVE Alive'
    BY <1>1, NewNameStep DEF fuse_lookup
<1>2. ASSUME NEW n \in Names, fuse_dentry_revalidate(t, n)  PROVE Alive'
    <2>1. PICK x \in k.dent : Request(t, AskOf(t, "revalidate", n, x.id))
        BY <1>2 DEF fuse_dentry_revalidate, Dentry, AskOf
    <2>. QED  BY <2>1, EntryStep
<1>3. ASSUME NEW n \in Names, fuse_link(t, n)  PROVE Alive'
    <2>1. PICK x \in k.dent, m \in Names : Request(t, AskOf(t, "link", m, x.id))
        BY <1>3 DEF fuse_link, Dentry, AskOf
    <2>. QED  BY <2>1, EntryStep
<1>4. ASSUME NEW n \in Names, fuse_open(t, n)  PROVE Alive'
    <2>1. PICK x \in k.dent : /\ ~IsDir(x.id) /\ task[t].file = 0 /\ rel[t].pc = "none"
                              /\ Request(t, AskOf(t, "open", NULL, x.id))
        BY <1>4 DEF fuse_open, Dentry, AskOf
    <2>2. NULL \in Names \cup {NULL}
        OBVIOUS
    <2>. QED  BY <2>1, <2>2, EntryStep
<1>5. ASSUME NEW n \in Names, Walk(t, n)  PROVE Alive'
    <2>1. PICK x \in k.dent : IsDir(x.id) /\ task' = [task EXCEPT ![t].at = x.id]
        BY <1>5 DEF Walk, Dentry
    <2>2. x.id \in NodeIds /\ Known(k, x.id) /\ Kind(disk, f, x.id) = "dir"
        BY <2>1, DentFacts DEF IsDir
    <2>. QED  BY <1>5, <2>1, <2>2, WalkStep DEF Walk
<1>6. ASSUME NEW n \in Names, NEW op \in Ops, create_new_entry(t, op, n)  PROVE Alive'
    BY <1>6, NewNameStep DEF create_new_entry
<1>7. ASSUME NEW n \in Names, NEW op \in {"unlink", "rmdir"}, fuse_unlink(t, op, n)
      PROVE  Alive'
    <2>1. PICK x \in k.dent : Request(t, AskOf(t, op, n, x.id))
        BY <1>7 DEF fuse_unlink, Dentry, AskOf
    <2>. QED  BY <2>1, EntryStep
<1>8. ASSUME NEW n \in Names, NEW to \in NodeIds, NEW m \in Names, fuse_rename(t, n, to, m)
      PROVE  Alive'
    BY <1>8, RenameStep
<1>9. ASSUME Leave(t)  PROVE Alive'
    <2>1. /\ FUSE_ROOT_ID \in NodeIds /\ Known(k, FUSE_ROOT_ID)
          /\ Kind(disk, f, FUSE_ROOT_ID) = "dir"
        BY AliveFacts, TaskFacts DEF RootKept, Known, NodeIds, FUSE_ROOT_ID, NodeAssumption
    <2>. QED  BY <1>9, <2>1, WalkStep DEF Leave
<1>. QED  BY <1>1, <1>2, <1>3, <1>4, <1>5, <1>6, <1>7, <1>8, <1>9 DEF Start

(***************************************************************************)
(* What the kernel does with its dentries and its inodes                   *)
(***************************************************************************)
\* The kernel c2 that comes after c has what it may have.
KernelGoesOn(c, c2) ==
    KernelType(c2) /\ InodesKept(c, c2) /\ ModesMove(c, c2, disk, f) /\ DentsKnown(c2)

GoodDents(c, D) == D \subseteq DentRec /\ \A x \in D : Known(c, x.id) /\ Known(c, x.dir)

LEMMA OldDents ==
    ASSUME Alive
    PROVE  GoodDents(k, k.dent)
BY AliveFacts DEF KernelType, KernelHolds, GoodDents

LEMMA DentsChange ==
    ASSUME Alive, NEW D, GoodDents(k, D), NEW c, c = [k EXCEPT !.dent = D]
    PROVE  KernelGoesOn(k, c) /\ c.nlookup = k.nlookup
<1>1. KernelType(k) /\ ModesTrue(disk, f, k)
    BY AliveFacts
<1>2. /\ c.dent = D /\ c.nlookup = k.nlookup /\ c.mode = k.mode
      /\ c = [dent |-> c.dent, nlookup |-> c.nlookup, mode |-> c.mode]
    BY <1>1 DEF KernelType
<1>3. \A i \in NodeIds : Known(c, i) <=> Known(k, i)
    BY <1>2 DEF Known
<1>4. \A x \in D : x.id \in NodeIds /\ x.dir \in NodeIds
    BY DEF GoodDents, DentRec
<1>5. KernelType(c)
    BY <1>1, <1>2 DEF KernelType, GoodDents
<1>6. InodesKept(k, c) /\ ModesMove(k, c, disk, f) /\ DentsKnown(c)
    BY <1>2, <1>3, <1>4 DEF InodesKept, ModesMove, DentsKnown, GoodDents
<1>. QED  BY <1>2, <1>5, <1>6 DEF KernelGoesOn

LEMMA KernelStays ==
    ASSUME Alive, k' = k
    PROVE  KernelGoesOn(k, k')
<1>1. k = [k EXCEPT !.dent = k.dent]
    BY AliveFacts DEF KernelType
<1>2. KernelGoesOn(k, k)
    BY <1>1, OldDents, DentsChange
<1>. QED  BY <1>2

\* Dentries that are known once the kernel counts node i.
DentsWith(i, D) ==
    /\ D \subseteq DentRec
    /\ \A x \in D : (x.id = i \/ Known(k, x.id)) /\ (x.dir = i \/ Known(k, x.dir))

\* The types of the inodes, but for i, are those that they were.
ModeTold(c, i) ==
    /\ \A j \in NodeIds : j # i => c.mode[j] = k.mode[j]
    /\ c.mode[i] = Kind(disk, f, i) \/ (Known(k, i) /\ c.mode[i] = k.mode[i])

(* One lookup more is counted, of a node whose type the kernel now has.    *)
LEMMA CountedGoesOn ==
    ASSUME Alive, NEW i \in NodeIds, NEW D, DentsWith(i, D), NEW c, KernelType(c),
           c.dent = D, c.nlookup = [k.nlookup EXCEPT ![i] = @ + 1], ModeTold(c, i)
    PROVE  KernelGoesOn(k, c)
<1>1. KernelType(k)
    BY AliveFacts
<1>2. \A j \in NodeIds : /\ k.nlookup[j] \in Nat
                         /\ c.nlookup[j] = IF j = i THEN k.nlookup[j] + 1 ELSE k.nlookup[j]
    BY <1>1 DEF KernelType
<1>3. Known(c, i) /\ \A j \in NodeIds : j # i => (Known(c, j) <=> Known(k, j))
    BY <1>2 DEF Known
<1>4. \A x \in D : x.id \in NodeIds /\ x.dir \in NodeIds
    BY DEF DentsWith, DentRec
<1>5. InodesKept(k, c) /\ ModesMove(k, c, disk, f)
    BY <1>3 DEF InodesKept, ModesMove, ModeTold
<1>6. DentsKnown(c)
    BY <1>3, <1>4 DEF DentsKnown, DentsWith
<1>. QED  BY <1>5, <1>6 DEF KernelGoesOn

LEMMA CountedKernel ==
    ASSUME Alive, NEW i \in NodeIds, NEW D, DentsWith(i, D), NEW mode \in {"file", "dir"},
           mode = Kind(disk, f, i), Counted(i, mode, D)
    PROVE  /\ KernelGoesOn(k, k') /\ k'.nlookup = [k.nlookup EXCEPT ![i] = @ + 1]
           /\ Known(k', i)
<1>1. KernelType(k)
    BY AliveFacts
<1>2. k' = [dent |-> D, nlookup |-> [k.nlookup EXCEPT ![i] = @ + 1],
            mode |-> [k.mode EXCEPT ![i] = mode]]
    BY <1>1 DEF Counted, KernelType
<1>3. PICK c : c = k'
    OBVIOUS
<1>4. /\ c.dent = D /\ c.nlookup = [k.nlookup EXCEPT ![i] = @ + 1]
      /\ c.mode = [k.mode EXCEPT ![i] = mode]
      /\ c = [dent |-> c.dent, nlookup |-> c.nlookup, mode |-> c.mode]
    BY <1>2, <1>3
<1>5. KernelType(c)
    BY <1>1, <1>4 DEF KernelType, DentsWith
<1>6. ModeTold(c, i)
    BY <1>1, <1>4 DEF KernelType, ModeTold
<1>7. KernelGoesOn(k, c)
    BY <1>4, <1>5, <1>6, CountedGoesOn
<1>8. Known(c, i)
    BY <1>1, <1>4 DEF Known, KernelType
<1>. QED  BY <1>3, <1>4, <1>7, <1>8

LEMMA RevalidatedKernel ==
    ASSUME Alive, NEW i \in NodeIds, NEW D, DentsWith(i, D), Known(k, i),
           k' = [k EXCEPT !.nlookup[i] = @ + 1, !.dent = D]
    PROVE  KernelGoesOn(k, k') /\ k'.nlookup = [k.nlookup EXCEPT ![i] = @ + 1]
<1>1. KernelType(k)
    BY AliveFacts
<1>2. k' = [dent |-> D, nlookup |-> [k.nlookup EXCEPT ![i] = @ + 1], mode |-> k.mode]
    BY <1>1 DEF KernelType
<1>3. PICK c : c = k'
    OBVIOUS
<1>4. /\ c.dent = D /\ c.nlookup = [k.nlookup EXCEPT ![i] = @ + 1] /\ c.mode = k.mode
      /\ c = [dent |-> c.dent, nlookup |-> c.nlookup, mode |-> c.mode]
    BY <1>2, <1>3
<1>5. KernelType(c)
    BY <1>1, <1>4 DEF KernelType, DentsWith
<1>6. ModeTold(c, i)
    BY <1>4 DEF ModeTold
<1>7. KernelGoesOn(k, c)
    BY <1>4, <1>5, <1>6, CountedGoesOn
<1>. QED  BY <1>3, <1>4, <1>7

(***************************************************************************)
(* What a task does when its request is answered                           *)
(***************************************************************************)
\* The task is idle again, with the file x open.
BackFile(r, x) == [pc |-> "idle", op |-> "none", at |-> r.at, name |-> NULL,
                   to |-> 0, newname |-> NULL, ino |-> 0, file |-> x,
                   err |-> "none", got |-> 0, mode |-> "none"]

LEMMA BackForms ==
    ASSUME NEW t, NEW x
    PROVE  /\ BackTo(t) = BackFile(task[t], task[t].file)
           /\ [BackTo(t) EXCEPT !.file = x] = BackFile(task[t], x)
<1>1. BackTo(t) = BackFile(task[t], task[t].file)
    <2>1. PICK s : s = [Idle EXCEPT !.at = task[t].at]
        OBVIOUS
    <2>2. s = [pc |-> "idle", op |-> "none", at |-> task[t].at, name |-> NULL,
               to |-> 0, newname |-> NULL, ino |-> 0, file |-> 0,
               err |-> "none", got |-> 0, mode |-> "none"]
        BY <2>1 DEF Idle
    <2>3. [s EXCEPT !.file = task[t].file] = BackFile(task[t], task[t].file)
        BY <2>2 DEF BackFile
    <2>. QED  BY <2>1, <2>3 DEF BackTo
<1>2. PICK b : b = BackTo(t)
    OBVIOUS
<1>3. [b EXCEPT !.file = x] = BackFile(task[t], x)
    BY <1>1, <1>2 DEF BackFile
<1>. QED  BY <1>1, <1>2, <1>3

\* The new shares of a task that is idle again, and of its release q.
IdleLooks(q, i) == BackOf(q, i)
IdleOpens(x, q, i) == Same(x, i) + CloseOf(q, i)

LEMMA BackNums ==
    ASSUME NEW r, NEW x, NEW q, NEW b, b = BackFile(r, x), NEW i
    PROVE  LookNum(b, q, i) = IdleLooks(q, i) /\ OpenNum(b, q, i) = IdleOpens(x, q, i)
<1>1. /\ b.pc = "idle" /\ b.file = x
    BY DEF BackFile
<1>2. LookOf(b, i) = 0 /\ OpenOf(b, i) = 0 /\ FileOf(b, i) = Same(x, i)
    BY <1>1 DEF LookOf, OpenOf, FileOf, Same
<1>3. /\ BackOf(q, i) \in {0, 1} /\ CloseOf(q, i) \in {0, 1} /\ Same(x, i) \in {0, 1}
    BY DEF BackOf, CloseOf, Same
<1>. QED  BY <1>2, <1>3 DEF LookNum, OpenNum, IdleLooks, IdleOpens

\* A file that a task may have open.
FileKnown(c, x) == x \in 0..MaxNode /\ (x # 0 => Known(c, x))

(* The task of an answered request is idle again.                          *)
LEMMA DoneStep ==
    ASSUME Alive, TreeAssumption, NodeAssumption, UNCHANGED <<disk, f>>, NEW t \in Tasks,
           NEW x, FileKnown(k', x), task' = [task EXCEPT ![t] = BackFile(task[t], x)],
           NEW q, RelShape(q), rel' = [rel EXCEPT ![t] = q], RelOK(disk, f, q),
           q.kernel => Known(k', q.ino),
           KernelGoesOn(k, k'), ForgetsType(forgets'),
           LooksMove(f, k, forgets, task[t], rel[t], f, k', forgets', BackFile(task[t], x), q),
           OpensMove(f, task[t], rel[t], f, BackFile(task[t], x), q)
    PROVE  Alive'
<1>1. PICK b : b = BackFile(task[t], x)
    OBVIOUS
<1>2. /\ b.pc = "idle" /\ b.op = "none" /\ b.at = task[t].at /\ b.name = NULL /\ b.to = 0
      /\ b.newname = NULL /\ b.ino = 0 /\ b.file = x /\ b.err = "none" /\ b.got = 0
      /\ b.mode = "none"
    BY <1>1 DEF BackFile
<1>3. /\ task[t].at \in NodeIds /\ Known(k, task[t].at) /\ Kind(disk, f, task[t].at) = "dir"
    BY TaskFacts
<1>4. b \in TaskRec
    BY <1>1, <1>3 DEF TaskRec, BackFile, FileKnown, NodeIds, NodeAssumption
<1>5. TaskOK(disk, f, b, q)
    BY <1>2, <1>3 DEF TaskOK, Looking, Moving
<1>6. KernelType(k') /\ InodesKept(k, k') /\ ModesMove(k, k', disk, f) /\ DentsKnown(k')
    BY DEF KernelGoesOn
<1>7. HeldKnown(k', b, q)
    BY <1>2, <1>3, <1>6 DEF HeldKnown, HeldBy, FileKnown, InodesKept, NodeIds
<1>. QED  BY <1>1, <1>4, <1>5, <1>6, <1>7, KernelStep

(* Where the lookup of the answer goes: there was none, it is given back,  *)
(* the kernel counts it, or the release will give it back.                 *)
LEMMA LooksQuiet ==
    ASSUME NEW g, NEW c, NEW w, NEW r, NEW q, NEW c2, NEW b, NEW x, b = BackFile(r, x),
           r.got = 0 \/ r.op = "open", c2.nlookup = c.nlookup
    PROVE  LooksMove(g, c, w, r, q, g, c2, w, b, q)
<1>1. \A i \in NodeIds : LookNum(r, q, i) = LookNum(b, q, i)
    <2>. SUFFICES ASSUME NEW i \in NodeIds  PROVE LookNum(r, q, i) = LookNum(b, q, i)
        OBVIOUS
    <2>1. LookOf(r, i) = 0 /\ BackOf(q, i) \in {0, 1}
        BY DEF LookOf, BackOf, NodeIds
    <2>2. LookNum(r, q, i) = IdleLooks(q, i)
        BY <2>1 DEF LookNum, IdleLooks
    <2>. QED  BY <2>2, BackNums
<1>. QED  BY <1>1 DEF LooksMove

LEMMA Passed ==
    ASSUME NEW l \in Nat, NEW n \in Nat, NEW s \in Nat, NEW a \in Nat, NEW o \in Nat
    PROVE  l + n + s + (a + o) = l + n + (s + a) + o
OBVIOUS

LEMMA LooksForgot ==
    ASSUME NEW g, NEW c, NEW w, ForgetsType(w), NEW r, NEW q, NEW c2, c2.nlookup = c.nlookup,
           c.nlookup \in [NodeIds -> Nat], TableType(g), NEW b, NEW x, b = BackFile(r, x),
           r.pc = "done", r.op # "open", r.got \in NodeIds,
           NEW w2, w2 = [w EXCEPT ![r.got] = Append(@, 1)]
    PROVE  LooksMove(g, c, w, r, q, g, c2, w2, b, q) /\ ForgetsType(w2)
<1>1. ForgetsType(w2) /\ \A i \in NodeIds : w[i] \in Seq(Nat)
    BY DEF ForgetsType
<1>2. ASSUME NEW i \in NodeIds
      PROVE  Lookups(g, i) + c.nlookup[i] + Sum(w[i]) + LookNum(r, q, i)
                 = Lookups(g, i) + c2.nlookup[i] + Sum(w2[i]) + LookNum(b, q, i)
    <2>1. Sum(w[i]) \in Nat /\ Sum(w2[i]) = Sum(w[i]) + Same(r.got, i)
        <3>1. w[i] \in Seq(Nat) /\ Sum(w[i]) \in Nat
            BY <1>1, SumType
        <3>2. CASE i = r.got
            <4>1. w2[i] = Append(w[i], 1)
                BY <3>2 DEF ForgetsType
            <4>2. Sum(w2[i]) = Sum(w[i]) + 1
                BY <3>1, <4>1, SumAppend
            <4>. QED  BY <3>1, <3>2, <4>2 DEF Same
        <3>3. CASE i # r.got
            BY <3>1, <3>3 DEF Same, ForgetsType
        <3>. QED  BY <3>2, <3>3
    <2>2. LookNum(b, q, i) = BackOf(q, i) /\ LookNum(r, q, i) = Same(r.got, i) + BackOf(q, i)
        BY BackNums DEF LookNum, LookOf, Same, IdleLooks
    <2>3. BackOf(q, i) \in {0, 1} /\ Same(r.got, i) \in {0, 1}
        BY DEF BackOf, Same
    <2>4. Lookups(g, i) \in Nat /\ c.nlookup[i] \in Nat /\ c2.nlookup[i] = c.nlookup[i]
        BY NodeFacts DEF Lookups
    <2>5. PICK l, n, s, a, o : /\ l = Lookups(g, i) /\ n = c.nlookup[i] /\ s = Sum(w[i])
                               /\ a = Same(r.got, i) /\ o = BackOf(q, i)
        OBVIOUS
    <2>6. l \in Nat /\ n \in Nat /\ s \in Nat /\ a \in Nat /\ o \in Nat
        BY <2>1, <2>3, <2>4, <2>5
    <2>7. l + n + s + (a + o) = l + n + (s + a) + o
        BY <2>6, Passed
    <2>. QED  BY <2>1, <2>2, <2>4, <2>5, <2>7
<1>. QED  BY <1>1, <1>2 DEF LooksMove

LEMMA LooksCounted ==
    ASSUME NEW g, NEW c, NEW w, ForgetsType(w), NEW r, NEW q, NEW c2,
           c.nlookup \in [NodeIds -> Nat], TableType(g), NEW b, NEW x, b = BackFile(r, x),
           r.pc = "done", r.op # "open", r.got \in NodeIds,
           c2.nlookup = [c.nlookup EXCEPT ![r.got] = @ + 1],
           NEW q2, q2.forget = q.forget, q2.ino = q.ino \/ ~q.forget
    PROVE  LooksMove(g, c, w, r, q, g, c2, w, b, q2)
<1>1. ASSUME NEW i \in NodeIds
      PROVE  Lookups(g, i) + c.nlookup[i] + Sum(w[i]) + LookNum(r, q, i)
                 = Lookups(g, i) + c2.nlookup[i] + Sum(w[i]) + LookNum(b, q2, i)
    <2>1. w[i] \in Seq(Nat)
        BY DEF ForgetsType
    <2>2. Sum(w[i]) \in Nat /\ c2.nlookup[i] = c.nlookup[i] + Same(r.got, i)
        BY <2>1, SumType DEF Same
    <2>3. BackOf(q2, i) = BackOf(q, i)
        BY DEF BackOf
    <2>4. LookNum(b, q2, i) = BackOf(q, i) /\ LookNum(r, q, i) = Same(r.got, i) + BackOf(q, i)
        BY <2>3, BackNums DEF LookNum, LookOf, Same, IdleLooks
    <2>5. BackOf(q, i) \in {0, 1} /\ Same(r.got, i) \in {0, 1}
        BY DEF BackOf, Same
    <2>6. Lookups(g, i) \in Nat /\ c.nlookup[i] \in Nat
        BY NodeFacts DEF Lookups
    <2>. QED  BY <2>2, <2>4, <2>5, <2>6
<1>. QED  BY <1>1 DEF LooksMove

LEMMA LooksLeft ==
    ASSUME NEW g, NEW c, NEW w, NEW r, NEW q, NEW c2, c2.nlookup = c.nlookup,
           NEW b, NEW x, b = BackFile(r, x), r.pc = "done", r.op # "open",
           ~q.forget, NEW q2, q2.forget, q2.ino = r.got
    PROVE  LooksMove(g, c, w, r, q, g, c2, w, b, q2)
<1>1. ASSUME NEW i \in NodeIds  PROVE LookNum(r, q, i) = LookNum(b, q2, i)
    <2>1. LookOf(r, i) = Same(r.got, i) /\ BackOf(q, i) = 0 /\ BackOf(q2, i) = Same(r.got, i)
        BY DEF LookOf, BackOf, Same
    <2>2. LookNum(b, q2, i) = Same(r.got, i) /\ Same(r.got, i) \in {0, 1}
        BY <2>1, BackNums DEF IdleLooks, Same
    <2>. QED  BY <2>1, <2>2 DEF LookNum
<1>. QED  BY <1>1 DEF LooksMove

(* Where the open of the answer goes: there was none, the file is open, or *)
(* it is to be released.                                                   *)
LEMMA OpensQuiet ==
    ASSUME NEW g, NEW r, NEW q, NEW b, b = BackFile(r, r.file),
           r.got = 0 \/ r.op \notin {"open", "create"}
    PROVE  OpensMove(g, r, q, g, b, q)
<1>1. ASSUME NEW i \in NodeIds  PROVE OpenNum(r, q, i) = OpenNum(b, q, i)
    <2>1. OpenOf(r, i) = 0 /\ FileOf(r, i) = Same(r.file, i)
        BY DEF OpenOf, FileOf, Same, NodeIds
    <2>2. CloseOf(q, i) \in {0, 1} /\ Same(r.file, i) \in {0, 1}
        BY DEF CloseOf, Same
    <2>3. OpenNum(r, q, i) = IdleOpens(r.file, q, i)
        BY <2>1, <2>2 DEF OpenNum, IdleOpens
    <2>. QED  BY <2>3, BackNums
<1>. QED  BY <1>1 DEF OpensMove

LEMMA OpensFile ==
    ASSUME NEW g, NEW r, NEW q, NEW b, b = BackFile(r, r.got), r.file = 0,
           r.pc = "done", r.op \in {"open", "create"}
    PROVE  OpensMove(g, r, q, g, b, q)
<1>1. ASSUME NEW i \in NodeIds  PROVE OpenNum(r, q, i) = OpenNum(b, q, i)
    <2>1. OpenOf(r, i) = Same(r.got, i) /\ FileOf(r, i) = 0
        BY DEF OpenOf, FileOf, Same, NodeIds
    <2>2. CloseOf(q, i) \in {0, 1} /\ Same(r.got, i) \in {0, 1}
        BY DEF CloseOf, Same
    <2>3. OpenNum(r, q, i) = IdleOpens(r.got, q, i)
        BY <2>1, <2>2 DEF OpenNum, IdleOpens
    <2>. QED  BY <2>3, BackNums
<1>. QED  BY <1>1 DEF OpensMove

LEMMA OpensLeft ==
    ASSUME NEW g, NEW r, NEW q, NEW b, b = BackFile(r, 0), r.file = 0, r.pc = "done",
           r.op \in {"open", "create"}, q.pc = "none", NEW q2, q2.pc = "sent", q2.ino = r.got
    PROVE  OpensMove(g, r, q, g, b, q2)
<1>1. ASSUME NEW i \in NodeIds  PROVE OpenNum(r, q, i) = OpenNum(b, q2, i)
    <2>1. /\ OpenOf(r, i) = Same(r.got, i) /\ FileOf(r, i) = 0 /\ CloseOf(q, i) = 0
          /\ CloseOf(q2, i) = Same(r.got, i) /\ Same(0, i) = 0 /\ Same(r.got, i) \in {0, 1}
        BY DEF OpenOf, FileOf, CloseOf, Same, NodeIds
    <2>2. IdleOpens(0, q2, i) = Same(r.got, i) /\ OpenNum(r, q, i) = Same(r.got, i)
        BY <2>1 DEF OpenNum, IdleOpens
    <2>. QED  BY <2>2, BackNums
<1>. QED  BY <1>1 DEF OpensMove

(* fuse_invalidate_entry drops entries, and keeps no new ones.             *)
LEMMA InvalidatedGood ==
    ASSUME NEW D, GoodDents(k, D), NEW S, GoodDents(k, S), NEW t
    PROVE  GoodDents(k, Invalidated(D, t, S))
<1>1. CASE S = {}
    BY <1>1 DEF Invalidated
<1>2. CASE S # {}
    <2>1. PICK d : d = CHOOSE x \in S : TRUE
        OBVIOUS
    <2>2. d \in S
        BY <1>2, <2>1
    <2>3. Invalidated(D, t, S) = fuse_invalidate_entry(D, t, d)
        BY <1>2, <2>1 DEF Invalidated
    <2>4. PICK e : e = [d EXCEPT !.valid = FALSE]
        OBVIOUS
    <2>5. e \in DentRec /\ e.id = d.id /\ e.dir = d.dir
        BY <2>2, <2>4 DEF GoodDents, DentRec
    <2>6. fuse_invalidate_entry(D, t, d) \subseteq D \cup {e}
        BY <2>4 DEF fuse_invalidate_entry
    <2>. QED  BY <2>2, <2>3, <2>5, <2>6 DEF GoodDents
<1>. QED  BY <1>1, <1>2

LEMMA DentsOf ==
    ASSUME Alive, NEW S, S \subseteq k.dent
    PROVE  GoodDents(k, S)
BY OldDents DEF GoodDents

\* The entry of an answered request is one that the kernel may have.
LEMMA EntryWith ==
    ASSUME Alive, NEW p \in NodeIds, Known(k, p), NEW n \in Names, NEW i \in NodeIds,
           NEW D, GoodDents(k, D)
    PROVE  DentsWith(i, D) /\ DentsWith(i, D \cup {Entry(p, n, i)})
<1>1. PICK e : e = Entry(p, n, i)
    OBVIOUS
<1>2. e \in DentRec /\ e.id = i /\ e.dir = p
    BY <1>1 DEF Entry, DentRec
<1>3. DentsWith(i, D \cup {e})
    BY <1>2 DEF DentsWith, GoodDents
<1>. QED  BY <1>1, <1>3 DEF DentsWith, GoodDents

(* What the answer tells of.                                               *)
LEMMA AnswerFacts ==
    ASSUME Alive, TreeAssumption, NodeAssumption, NEW t \in Tasks, task[t].pc = "done"
    PROVE  /\ task[t].got # 0 <=> task[t].err = "ok" /\ task[t].op \notin Moving
           /\ FileKnown(k, task[t].file) /\ RelShape(rel[t]) /\ RelOK(disk, f, rel[t])
           /\ rel[t].kernel => rel[t].ino \in NodeIds /\ Known(k, rel[t].ino)
           /\ task[t].op \in Looking => task[t].name \in Names
           /\ task[t].op \in Looking /\ task[t].got # 0 =>
                 /\ task[t].got \in NodeIds /\ task[t].mode \in {"file", "dir"}
                 /\ task[t].mode = Kind(disk, f, task[t].got)
           /\ task[t].op \in {"open", "create"} =>
                 /\ task[t].file = 0
                 /\ task[t].err = "ok" => rel[t].pc = "none" /\ rel[t] = NoRel
           /\ task[t].op = "open" => task[t].ino \in NodeIds /\ Known(k, task[t].ino)
           /\ task[t].op = "open" /\ task[t].got # 0 => task[t].got = task[t].ino
<1>1. PICK r, q : r = task[t] /\ q = rel[t]
    OBVIOUS
<1>2. /\ r \in TaskRec /\ RelShape(q) /\ TaskOK(disk, f, r, q) /\ RelOK(disk, f, q)
      /\ \A i \in NodeIds : HeldBy(r, q, i) => Known(k, i)
    BY <1>1, AliveFacts DEF KernelHolds
<1>3. /\ r.file \in 0..MaxNode /\ r.got \in 0..MaxNode /\ r.ino \in 0..MaxNode
      /\ r.file # 0 => r.file \in NodeIds
      /\ r.got # 0 => r.got \in NodeIds
      /\ r.ino # 0 => r.ino \in NodeIds
    BY <1>2 DEF TaskRec, NodeIds, NodeAssumption
<1>4. FileKnown(k, r.file)
    BY <1>2, <1>3 DEF FileKnown, HeldBy
<1>5. q.kernel => q.ino \in NodeIds /\ Known(k, q.ino)
    <2>1. q.kernel => q.ino \in NodeIds
        BY <1>2 DEF RelOK, RelShape, NoRel, NodeIds, NodeAssumption
    <2>. QED  BY <1>2, <2>1 DEF HeldBy
<1>6. r.op \in Looking /\ r.got # 0 => r.mode \in {"file", "dir"} /\ r.mode = Kind(disk, f, r.got)
    <2>. SUFFICES ASSUME r.op \in Looking, r.got # 0
                  PROVE  r.mode \in {"file", "dir"} /\ r.mode = Kind(disk, f, r.got)
        OBVIOUS
    <2>1. r.mode = Kind(disk, f, r.got)
        BY <1>2 DEF TaskOK
    <2>2. LookNum(r, q, r.got) > 0
        <3>1. LookOf(r, r.got) = 1 /\ BackOf(q, r.got) \in {0, 1}
            BY <1>1 DEF LookOf, BackOf, Looking
        <3>. QED  BY <3>1 DEF LookNum
    <2>3. r.got \in DOMAIN f.nodes
        BY <1>1, <1>3, <2>2, AliveFacts, InTable
    <2>4. Tree(disk, f)
        BY LiveTree DEF Alive
    <2>. QED  BY <2>1, <2>3, <2>4, TreeFacts
<1>7. r.op = "open" => r.ino \in NodeIds /\ Known(k, r.ino)
    BY <1>2, <1>3 DEF TaskOK, HeldBy
<1>8. r.op \in {"open", "create"} => /\ r.file = 0
                                     /\ r.err = "ok" => q.pc = "none" /\ q = NoRel
    BY <1>2 DEF TaskOK, RelOK
<1>9. /\ r.got # 0 <=> r.err = "ok" /\ r.op \notin Moving
      /\ r.op \in Looking => r.name \in Names
      /\ r.op = "open" /\ r.got # 0 => r.got = r.ino
    BY <1>1, <1>2 DEF TaskOK
<1>. QED  BY <1>1, <1>2, <1>3, <1>4, <1>5, <1>6, <1>7, <1>8, <1>9

(* The release stays as it is.                                             *)
LEMMA DoneStays ==
    ASSUME Alive, TreeAssumption, NodeAssumption, UNCHANGED <<disk, f>>, NEW t \in Tasks,
           task[t].pc = "done", rel' = rel, KernelGoesOn(k, k'), ForgetsType(forgets'),
           NEW x, FileKnown(k', x), task' = [task EXCEPT ![t] = BackFile(task[t], x)],
           LooksMove(f, k, forgets, task[t], rel[t], f, k', forgets',
                     BackFile(task[t], x), rel[t]),
           OpensMove(f, task[t], rel[t], f, BackFile(task[t], x), rel[t])
    PROVE  Alive'
<1>1. PICK q : q = rel[t]
    OBVIOUS
<1>2. /\ RelShape(q) /\ RelOK(disk, f, q)
      /\ q.kernel => q.ino \in NodeIds /\ Known(k, q.ino)
    BY <1>1, AnswerFacts
<1>3. rel' = [rel EXCEPT ![t] = q]
    BY <1>1, AliveFacts DEF TypesOK
<1>4. q.kernel => Known(k', q.ino)
    BY <1>2 DEF KernelGoesOn, InodesKept
<1>. QED  BY <1>1, <1>2, <1>3, <1>4, DoneStep

LEMMA FileStays ==
    ASSUME Alive, TreeAssumption, NodeAssumption, NEW t \in Tasks, task[t].pc = "done",
           KernelGoesOn(k, k')
    PROVE  FileKnown(k', task[t].file)
<1>1. FileKnown(k, task[t].file)
    BY AnswerFacts
<1>. QED  BY <1>1 DEF FileKnown, KernelGoesOn, InodesKept, NodeIds, NodeAssumption

(* Nothing was looked up, or not for the kernel: some entries change.      *)
LEMMA DoneQuiet ==
    ASSUME Alive, TreeAssumption, NodeAssumption, UNCHANGED <<disk, f>>, NEW t \in Tasks,
           task[t].pc = "done", task[t].got = 0, Finish(t, BackTo(t)),
           rel' = rel, forgets' = forgets, NEW D, GoodDents(k, D), SetDent(D)
    PROVE  Alive'
<1>1. KernelGoesOn(k, k') /\ k'.nlookup = k.nlookup
    <2>1. PICK c : c = [k EXCEPT !.dent = D]
        OBVIOUS
    <2>2. KernelGoesOn(k, c) /\ c.nlookup = k.nlookup
        BY <2>1, DentsChange
    <2>. QED  BY <2>1, <2>2 DEF SetDent
<1>2. PICK b : b = BackFile(task[t], task[t].file)
    OBVIOUS
<1>3. LooksMove(f, k, forgets, task[t], rel[t], f, k', forgets', b, rel[t])
    BY <1>1, <1>2, LooksQuiet
<1>4. OpensMove(f, task[t], rel[t], f, b, rel[t])
    BY <1>2, OpensQuiet
<1>5. ForgetsType(forgets')
    BY AliveFacts
<1>6. task' = [task EXCEPT ![t] = b]
    BY <1>2, BackForms DEF Finish
<1>. QED  BY <1>1, <1>2, <1>3, <1>4, <1>5, <1>6, FileStays, DoneStays

(* The lookup is given back.                                               *)
LEMMA DoneForgot ==
    ASSUME Alive, TreeAssumption, NodeAssumption, UNCHANGED <<disk, f>>, NEW t \in Tasks,
           task[t].pc = "done", task[t].got # 0, task[t].op \in Looking \ {"create"},
           Finish(t, BackTo(t)), rel' = rel, Forget(task[t].got),
           NEW D, GoodDents(k, D), SetDent(D)
    PROVE  Alive'
<1>1. KernelGoesOn(k, k') /\ k'.nlookup = k.nlookup
    <2>1. PICK c : c = [k EXCEPT !.dent = D]
        OBVIOUS
    <2>2. KernelGoesOn(k, c) /\ c.nlookup = k.nlookup
        BY <2>1, DentsChange
    <2>. QED  BY <2>1, <2>2 DEF SetDent
<1>2. PICK b : b = BackFile(task[t], task[t].file)
    OBVIOUS
<1>3. /\ ForgetsType(forgets) /\ TableType(f) /\ k.nlookup \in [NodeIds -> Nat]
      /\ task[t].got \in NodeIds /\ task[t].op # "open"
      /\ task[t].op \notin {"open", "create"}
    BY AliveFacts, AnswerFacts DEF KernelType, Sound, Good, Looking
<1>4. PICK w : w = [forgets EXCEPT ![task[t].got] = Append(@, 1)]
    OBVIOUS
<1>5. forgets' = w
    BY <1>4 DEF Forget
<1>6. LooksMove(f, k, forgets, task[t], rel[t], f, k', w, b, rel[t]) /\ ForgetsType(w)
    BY <1>1, <1>2, <1>3, <1>4, LooksForgot
<1>7. OpensMove(f, task[t], rel[t], f, b, rel[t])
    BY <1>2, <1>3, OpensQuiet
<1>8. task' = [task EXCEPT ![t] = b]
    BY <1>2, BackForms DEF Finish
<1>. QED  BY <1>1, <1>2, <1>5, <1>6, <1>7, <1>8, FileStays, DoneStays

(* The kernel counts the lookup.                                           *)
LEMMA DoneCounted ==
    ASSUME Alive, TreeAssumption, NodeAssumption, UNCHANGED <<disk, f>>, NEW t \in Tasks,
           task[t].pc = "done", task[t].got # 0, task[t].op \in Looking \ {"create"},
           Finish(t, BackTo(t)), rel' = rel, forgets' = forgets,
           KernelGoesOn(k, k'), k'.nlookup = [k.nlookup EXCEPT ![task[t].got] = @ + 1]
    PROVE  Alive'
<1>2. PICK b : b = BackFile(task[t], task[t].file)
    OBVIOUS
<1>3. /\ ForgetsType(forgets) /\ TableType(f) /\ k.nlookup \in [NodeIds -> Nat]
      /\ task[t].got \in NodeIds /\ task[t].op # "open"
      /\ task[t].op \notin {"open", "create"}
    BY AliveFacts, AnswerFacts DEF KernelType, Sound, Good, Looking
<1>4. LooksMove(f, k, forgets, task[t], rel[t], f, k', forgets, b, rel[t])
    BY <1>2, <1>3, LooksCounted
<1>5. OpensMove(f, task[t], rel[t], f, b, rel[t])
    BY <1>2, <1>3, OpensQuiet
<1>6. task' = [task EXCEPT ![t] = b]
    BY <1>2, BackForms DEF Finish
<1>. QED  BY <1>2, <1>3, <1>4, <1>5, <1>6, FileStays, DoneStays

LEMMA DentsStay ==
    ASSUME Alive, k' = k
    PROVE  GoodDents(k, k.dent) /\ SetDent(k.dent)
<1>1. k = [k EXCEPT !.dent = k.dent]
    BY AliveFacts DEF KernelType
<1>. QED  BY <1>1, OldDents DEF SetDent

(* fuse_iget, for the answer of a lookup.                                  *)
LEMMA DoneIget ==
    ASSUME Alive, TreeAssumption, NodeAssumption, UNCHANGED <<disk, f>>, NEW t \in Tasks,
           task[t].pc = "done", task[t].got # 0, task[t].op \in Looking \ {"create"},
           Finish(t, BackTo(t)), NEW D, DentsWith(task[t].got, D),
           fuse_iget(task[t].got, task[t].mode, D)
    PROVE  Alive'
<1>1. PICK i, mode : i = task[t].got /\ mode = task[t].mode
    OBVIOUS
<1>2. i \in NodeIds /\ mode \in {"file", "dir"} /\ mode = Kind(disk, f, i)
    BY <1>1, AnswerFacts
<1>3. Counted(i, mode, D) /\ DentsWith(i, D) /\ rel' = rel /\ forgets' = forgets
    BY <1>1 DEF fuse_iget
<1>4. KernelGoesOn(k, k') /\ k'.nlookup = [k.nlookup EXCEPT ![i] = @ + 1]
    BY <1>2, <1>3, CountedKernel
<1>. QED  BY <1>1, <1>3, <1>4, DoneCounted

LEMMA LookupDoneStep ==
    ASSUME Alive, TreeAssumption, NodeAssumption, UNCHANGED <<disk, f>>, NEW t \in Tasks,
           task[t].pc = "done", LookupDone(t)
    PROVE  Alive'
<1>1. PICK r, al, new, moved :
          /\ r = task[t] /\ al = Aliases(k.dent, r.got) /\ new = Entry(r.at, r.name, r.got)
          /\ moved = Invalidated(k.dent, t, al)
    OBVIOUS
<1>2. /\ r.op = "lookup" /\ Finish(t, BackTo(t))
      /\ \/ r.err # "ok" /\ UNCHANGED <<k, rel, forgets, faults>>
         \/ r.err = "ok" /\ NoInode(r.got)
         \/ /\ r.err = "ok"
            /\ fuse_iget(r.got, r.mode,
                     IF r.mode # "dir" THEN k.dent \cup {new}
                              ELSE IF Aliases(moved, r.got) # {} THEN moved
                              ELSE moved \cup {new})
    BY <1>1 DEF LookupDone
<1>3. r.op \in Looking \ {"create"} /\ (r.got # 0 <=> r.err = "ok")
    BY <1>1, <1>2, AnswerFacts DEF Looking, Moving
<1>4. CASE r.err # "ok" /\ UNCHANGED <<k, rel, forgets, faults>>
    BY <1>1, <1>2, <1>3, <1>4, DentsStay, DoneQuiet
<1>5. CASE r.err = "ok" /\ NoInode(r.got)
    <2>1. Forget(r.got) /\ k' = k /\ rel' = rel
        BY <1>5 DEF NoInode
    <2>. QED  BY <1>1, <1>2, <1>3, <1>5, <2>1, DentsStay, DoneForgot
<1>6. ASSUME NEW D, r.err = "ok", fuse_iget(r.got, r.mode, D),
             D \in {k.dent \cup {new}, moved, moved \cup {new}}
      PROVE  Alive'
    <2>1. /\ r.at \in NodeIds /\ Known(k, r.at) /\ r.name \in Names /\ r.got \in NodeIds
        BY <1>1, <1>3, <1>6, TaskFacts, AnswerFacts
    <2>2. GoodDents(k, k.dent) /\ GoodDents(k, moved)
        <3>1. al \subseteq k.dent
            BY <1>1 DEF Aliases
        <3>2. GoodDents(k, k.dent) /\ GoodDents(k, al)
            BY <3>1, OldDents, DentsOf
        <3>. QED  BY <1>1, <3>2, InvalidatedGood
    <2>3. /\ DentsWith(r.got, k.dent \cup {new}) /\ DentsWith(r.got, moved)
          /\ DentsWith(r.got, moved \cup {new})
        BY <1>1, <2>1, <2>2, EntryWith
    <2>4. DentsWith(r.got, D)
        BY <1>6, <2>3
    <2>. QED  BY <1>1, <1>2, <1>3, <1>6, <2>4, DoneIget
<1>. QED  BY <1>2, <1>4, <1>5, <1>6

LEMMA CreateDoneStep ==
    ASSUME Alive, TreeAssumption, NodeAssumption, UNCHANGED <<disk, f>>, NEW t \in Tasks,
           task[t].pc = "done", CreateDone(t)
    PROVE  Alive'
<1>1. PICK r, al, new :
          r = task[t] /\ al = Aliases(k.dent, r.got) /\ new = Entry(r.at, r.name, r.got)
    OBVIOUS
<1>2. /\ r.op \in {"mknod", "mkdir", "link"} /\ Finish(t, BackTo(t))
      /\ \/ r.err # "ok" /\ UNCHANGED <<k, rel, forgets, faults>>
         \/ r.err = "ok" /\ NoInode(r.got)
         \/ r.err = "ok" /\ fuse_iget(r.got, r.mode, IF r.mode = "dir" /\ al # {}
                                                     THEN k.dent ELSE k.dent \cup {new})
    BY <1>1 DEF CreateDone
<1>3. r.op \in Looking \ {"create"} /\ (r.got # 0 <=> r.err = "ok")
    BY <1>1, <1>2, AnswerFacts DEF Looking, Moving
<1>4. CASE r.err # "ok" /\ UNCHANGED <<k, rel, forgets, faults>>
    BY <1>1, <1>2, <1>3, <1>4, DentsStay, DoneQuiet
<1>5. CASE r.err = "ok" /\ NoInode(r.got)
    <2>1. Forget(r.got) /\ k' = k /\ rel' = rel
        BY <1>5 DEF NoInode
    <2>. QED  BY <1>1, <1>2, <1>3, <1>5, <2>1, DentsStay, DoneForgot
<1>6. ASSUME NEW D, r.err = "ok", fuse_iget(r.got, r.mode, D),
             D \in {k.dent, k.dent \cup {new}}
      PROVE  Alive'
    <2>1. /\ r.at \in NodeIds /\ Known(k, r.at) /\ r.name \in Names /\ r.got \in NodeIds
        BY <1>1, <1>3, <1>6, TaskFacts, AnswerFacts
    <2>2. DentsWith(r.got, k.dent) /\ DentsWith(r.got, k.dent \cup {new})
        BY <1>1, <2>1, OldDents, EntryWith
    <2>3. DentsWith(r.got, D)
        BY <1>6, <2>2
    <2>. QED  BY <1>1, <1>2, <1>3, <1>6, <2>3, DoneIget
<1>. QED  BY <1>2, <1>4, <1>5, <1>6

LEMMA UnlinkDoneStep ==
    ASSUME Alive, TreeAssumption, NodeAssumption, UNCHANGED <<disk, f>>, NEW t \in Tasks,
           task[t].pc = "done", UnlinkDone(t)
    PROVE  Alive'
<1>1. PICK r, d : r = task[t] /\ d = Dentry(r.at, r.name)
    OBVIOUS
<1>2. PICK D : D = IF r.err = "ok" THEN k.dent \ d
                   ELSE IF r.err = "EINTR" THEN Invalidated(k.dent, t, d) ELSE k.dent
    OBVIOUS
<1>3. /\ r.op \in {"unlink", "rmdir"} /\ Finish(t, BackTo(t)) /\ SetDent(D)
      /\ UNCHANGED <<rel, forgets, faults>>
    BY <1>1, <1>2 DEF UnlinkDone
<1>4. r.got = 0
    BY <1>1, <1>3, AnswerFacts DEF Moving
<1>5. GoodDents(k, D)
    <2>1. d \subseteq k.dent /\ k.dent \ d \subseteq k.dent
        BY <1>1 DEF Dentry
    <2>2. GoodDents(k, k.dent) /\ GoodDents(k, d) /\ GoodDents(k, k.dent \ d)
        BY <2>1, OldDents, DentsOf
    <2>3. GoodDents(k, Invalidated(k.dent, t, d))
        BY <2>2, InvalidatedGood
    <2>. QED  BY <1>2, <2>2, <2>3
<1>. QED  BY <1>1, <1>3, <1>4, <1>5, DoneQuiet

LEMMA RenameDoneStep ==
    ASSUME Alive, TreeAssumption, NodeAssumption, UNCHANGED <<disk, f>>, NEW t \in Tasks,
           task[t].pc = "done", RenameDone(t)
    PROVE  Alive'
<1>1. PICK r, old, new : r = task[t] /\ old = Dentry(r.at, r.name) /\ new = Dentry(r.to, r.newname)
    OBVIOUS
<1>2. PICK moved : moved = {[d EXCEPT !.dir = r.to, !.name = r.newname] : d \in old}
    OBVIOUS
<1>3. PICK D : D = IF r.err = "ok" THEN (k.dent \ (old \cup new)) \cup moved
                   ELSE IF r.err = "EINTR" THEN Invalidated(Invalidated(k.dent, t, old), t, new)
                   ELSE k.dent
    OBVIOUS
<1>4. /\ r.op = "rename" /\ Finish(t, BackTo(t)) /\ SetDent(D)
      /\ UNCHANGED <<rel, forgets, faults>>
    BY <1>1, <1>2, <1>3 DEF RenameDone
<1>5. r.got = 0
    BY <1>1, <1>4, AnswerFacts DEF Moving
<1>6. r.to \in NodeIds /\ Known(k, r.to) /\ r.newname \in Names
    <2>1. r \in TaskRec /\ TaskOK(disk, f, r, rel[t]) /\ KernelHolds(k, task, rel)
        BY <1>1, AliveFacts
    <2>2. r.to \in NodeIds /\ r.newname \in Names
        BY <1>4, <2>1 DEF TaskOK, TaskRec, NodeIds, NodeAssumption
    <2>. QED  BY <1>1, <2>1, <2>2 DEF KernelHolds, HeldBy
<1>7. /\ GoodDents(k, k.dent) /\ GoodDents(k, old) /\ GoodDents(k, new)
      /\ GoodDents(k, k.dent \ (old \cup new))
    <2>1. /\ old \subseteq k.dent /\ new \subseteq k.dent
          /\ k.dent \ (old \cup new) \subseteq k.dent
        BY <1>1 DEF Dentry
    <2>. QED  BY <2>1, OldDents, DentsOf
<1>8. GoodDents(k, Invalidated(Invalidated(k.dent, t, old), t, new))
    BY <1>7, InvalidatedGood
<1>9. GoodDents(k, moved)
    <2>1. ASSUME NEW d \in old, NEW e, e = [d EXCEPT !.dir = r.to, !.name = r.newname]
          PROVE  e \in DentRec /\ Known(k, e.id) /\ Known(k, e.dir)
        <3>1. d \in DentRec /\ Known(k, d.id)
            BY <1>7, <2>1 DEF GoodDents
        <3>2. e \in DentRec /\ e.id = d.id /\ e.dir = r.to
            BY <1>6, <2>1, <3>1 DEF DentRec
        <3>. QED  BY <1>6, <3>1, <3>2
    <2>. QED  BY <1>2, <2>1 DEF GoodDents
<1>10. GoodDents(k, D)
    <2>1. GoodDents(k, (k.dent \ (old \cup new)) \cup moved)
        BY <1>7, <1>9 DEF GoodDents
    <2>. QED  BY <1>3, <1>7, <1>8, <2>1
<1>. QED  BY <1>1, <1>4, <1>5, <1>10, DoneQuiet

LEMMA RevalidateDoneStep ==
    ASSUME Alive, TreeAssumption, NodeAssumption, UNCHANGED <<disk, f>>, NEW t \in Tasks,
           task[t].pc = "done", RevalidateDone(t)
    PROVE  Alive'
<1>1. PICK r, mine, fresh :
          /\ r = task[t] /\ mine = {d \in Dentry(r.at, r.name) : d.id = r.ino}
          /\ fresh = {[d EXCEPT !.valid = TRUE] : d \in Aliases(k.dent, r.ino)}
    OBVIOUS
<1>2. PICK D : D = (k.dent \ Aliases(k.dent, r.ino)) \cup fresh
    OBVIOUS
<1>3. /\ r.op = "revalidate" /\ Finish(t, BackTo(t)) /\ UNCHANGED <<rel, faults>>
      /\ \/ /\ r.err = "ok" /\ r.got = r.ino
            /\ k' = [k EXCEPT !.nlookup[r.ino] = @ + 1, !.dent = D]
            /\ UNCHANGED forgets
         \/ /\ r.err = "ok" /\ r.got # r.ino /\ Forget(r.got)
            /\ SetDent(Invalidated(k.dent, t, mine))
         \/ /\ r.err # "ok" /\ UNCHANGED forgets
            /\ SetDent(Invalidated(k.dent, t, mine))
    BY <1>1, <1>2 DEF RevalidateDone
<1>4. r.op \in Looking \ {"create"} /\ (r.got # 0 <=> r.err = "ok")
    BY <1>1, <1>3, AnswerFacts DEF Looking, Moving
<1>5. GoodDents(k, k.dent) /\ GoodDents(k, Invalidated(k.dent, t, mine))
    <2>1. mine \subseteq k.dent
        BY <1>1 DEF Dentry
    <2>. QED  BY <2>1, OldDents, DentsOf, InvalidatedGood
<1>6. CASE r.err # "ok" /\ UNCHANGED forgets /\ SetDent(Invalidated(k.dent, t, mine))
    BY <1>1, <1>3, <1>4, <1>5, <1>6, DoneQuiet
<1>7. CASE r.err = "ok" /\ Forget(r.got) /\ SetDent(Invalidated(k.dent, t, mine))
    BY <1>1, <1>3, <1>4, <1>5, <1>7, DoneForgot
<1>8. CASE /\ r.err = "ok" /\ r.got = r.ino /\ UNCHANGED forgets
           /\ k' = [k EXCEPT !.nlookup[r.ino] = @ + 1, !.dent = D]
    <2>1. PICK i : i = r.ino
        OBVIOUS
    <2>2. i \in NodeIds /\ Known(k, i)
        <3>1. i \in NodeIds
            BY <1>1, <1>4, <1>8, <2>1, AnswerFacts
        <3>. QED  BY <1>1, <2>1, <3>1, AliveFacts DEF KernelHolds, HeldBy
    <2>3. ASSUME NEW d \in Aliases(k.dent, i), NEW e, e = [d EXCEPT !.valid = TRUE]
          PROVE  e \in DentRec /\ Known(k, e.id) /\ Known(k, e.dir)
        <3>1. d \in DentRec /\ Known(k, d.id) /\ Known(k, d.dir)
            BY <1>5 DEF GoodDents, Aliases
        <3>2. e \in DentRec /\ e.id = d.id /\ e.dir = d.dir
            BY <2>3, <3>1 DEF DentRec
        <3>. QED  BY <3>1, <3>2
    <2>4. GoodDents(k, D)
        BY <1>1, <1>2, <1>5, <2>1, <2>3 DEF GoodDents
    <2>5. DentsWith(i, D)
        BY <2>4 DEF GoodDents, DentsWith
    <2>6. k' = [k EXCEPT !.nlookup[i] = @ + 1, !.dent = D]
        BY <1>8, <2>1
    <2>7. KernelGoesOn(k, k') /\ k'.nlookup = [k.nlookup EXCEPT ![i] = @ + 1]
        BY <2>2, <2>5, <2>6, RevalidatedKernel
    <2>. QED  BY <1>1, <1>3, <1>4, <1>8, <2>1, <2>7, DoneCounted
<1>. QED  BY <1>3, <1>6, <1>7, <1>8

(* The release of an open that did not become a file.                      *)
Forgetting(i) == [pc |-> "sent", ino |-> i, kernel |-> FALSE, forget |-> TRUE,
                  ok |-> FALSE, path |-> <<>>]
Holding(i) == [pc |-> "sent", ino |-> i, kernel |-> TRUE, forget |-> FALSE,
               ok |-> FALSE, path |-> <<>>]

Neither(i) == [pc |-> "sent", ino |-> i, kernel |-> FALSE, forget |-> FALSE,
               ok |-> FALSE, path |-> <<>>]

LEMMA NeitherForms ==
    ASSUME NEW i, NEW b, b = Neither(i),
           NEW c, c = [b EXCEPT !.forget = TRUE], NEW d, d = [b EXCEPT !.kernel = TRUE]
    PROVE  c = Forgetting(i) /\ d = Holding(i)
BY DEF Neither, Forgetting, Holding

LEMMA BackRelForms ==
    ASSUME NEW i, NEW b, b = [NoRel EXCEPT !.pc = "sent", !.ino = i],
           NEW c, c = [b EXCEPT !.forget = TRUE], NEW d, d = [b EXCEPT !.kernel = TRUE]
    PROVE  c = Forgetting(i) /\ d = Holding(i)
<1>1. b = Neither(i)
    BY DEF NoRel, Neither
<1>. QED  BY <1>1, NeitherForms

LEMMA ForgettingIs ==
    ASSUME NEW i \in NodeIds, NodeAssumption, NEW q, q = Forgetting(i)
    PROVE  /\ RelShape(q) /\ RelOK(disk, f, q) /\ q.pc = "sent" /\ q.ino = i
           /\ ~q.kernel /\ q.forget
<1>1. /\ q.pc = "sent" /\ q.ino = i /\ q.kernel \in BOOLEAN /\ q.forget \in BOOLEAN
      /\ ~q.kernel /\ q.forget
      /\ q = [pc |-> q.pc, ino |-> q.ino, kernel |-> q.kernel, forget |-> q.forget,
              ok |-> q.ok, path |-> q.path]
    BY DEF Forgetting
<1>2. RelShape(q)
    BY <1>1 DEF RelShape, NodeIds, NodeAssumption
<1>3. RelOK(disk, f, q)
    BY <1>1 DEF RelOK, NodeIds, NodeAssumption
<1>. QED  BY <1>1, <1>2, <1>3

LEMMA HoldingIs ==
    ASSUME NEW i \in NodeIds, NodeAssumption, NEW q, q = Holding(i)
    PROVE  /\ RelShape(q) /\ RelOK(disk, f, q) /\ q.pc = "sent" /\ q.ino = i
           /\ q.kernel /\ q.forget = FALSE
<1>1. /\ q.pc = "sent" /\ q.ino = i /\ q.kernel \in BOOLEAN /\ q.forget \in BOOLEAN
      /\ q.kernel /\ q.forget = FALSE
      /\ q = [pc |-> q.pc, ino |-> q.ino, kernel |-> q.kernel, forget |-> q.forget,
              ok |-> q.ok, path |-> q.path]
    BY DEF Holding
<1>2. RelShape(q)
    BY <1>1 DEF RelShape, NodeIds, NodeAssumption
<1>3. RelOK(disk, f, q)
    BY <1>1 DEF RelOK, NodeIds, NodeAssumption
<1>. QED  BY <1>1, <1>2, <1>3

(* The answer of a CREATE or an OPEN: the file is open.                    *)
LEMMA DoneOpened ==
    ASSUME Alive, TreeAssumption, NodeAssumption, UNCHANGED <<disk, f>>, NEW t \in Tasks,
           task[t].pc = "done", task[t].op \in {"open", "create"},
           rel' = rel, forgets' = forgets, KernelGoesOn(k, k'),
           NEW i, i = task[t].got, i \in NodeIds, Known(k', i),
           task' = [task EXCEPT ![t] = BackFile(task[t], i)],
           task[t].op = "open" => k'.nlookup = k.nlookup,
           task[t].op = "create" => k'.nlookup = [k.nlookup EXCEPT ![i] = @ + 1]
    PROVE  Alive'
<1>1. PICK b : b = BackFile(task[t], i)
    OBVIOUS
<1>2. /\ ForgetsType(forgets) /\ TableType(f) /\ k.nlookup \in [NodeIds -> Nat]
      /\ task[t].file = 0
    BY AliveFacts, AnswerFacts DEF KernelType, Sound, Good
<1>3. LooksMove(f, k, forgets, task[t], rel[t], f, k', forgets, b, rel[t])
    <2>1. CASE task[t].op = "open"
        BY <1>1, <2>1, LooksQuiet
    <2>2. CASE task[t].op = "create"
        BY <1>1, <1>2, <2>2, LooksCounted
    <2>. QED  BY <2>1, <2>2
<1>4. OpensMove(f, task[t], rel[t], f, b, rel[t])
    BY <1>1, <1>2, OpensFile
<1>5. FileKnown(k', i)
    BY DEF FileKnown, NodeIds, NodeAssumption
<1>. QED  BY <1>1, <1>2, <1>3, <1>4, <1>5, DoneStays

(* The answer of a CREATE, whose open is taken back.                       *)
LEMMA DoneTakenBack ==
    ASSUME Alive, TreeAssumption, NodeAssumption, UNCHANGED <<disk, f>>, NEW t \in Tasks,
           task[t].pc = "done", task[t].op = "create", forgets' = forgets,
           KernelGoesOn(k, k'), NEW i, i = task[t].got, i \in NodeIds, rel[t] = NoRel,
           task' = [task EXCEPT ![t] = BackFile(task[t], 0)],
           NEW q, rel' = [rel EXCEPT ![t] = q],
           \/ q = Forgetting(i) /\ k'.nlookup = k.nlookup
           \/ /\ q = Holding(i) /\ Known(k', i)
              /\ k'.nlookup = [k.nlookup EXCEPT ![i] = @ + 1]
    PROVE  Alive'
<1>1. PICK b : b = BackFile(task[t], 0)
    OBVIOUS
<1>2. /\ ForgetsType(forgets) /\ TableType(f) /\ k.nlookup \in [NodeIds -> Nat]
      /\ task[t].file = 0
    BY AliveFacts, AnswerFacts DEF KernelType, Sound, Good
<1>3. /\ RelShape(q) /\ RelOK(disk, f, q) /\ q.pc = "sent" /\ q.ino = i
      /\ q.kernel => Known(k', q.ino)
    <2>1. CASE q = Forgetting(i)
        BY <2>1, ForgettingIs
    <2>2. CASE q = Holding(i) /\ Known(k', i)
        BY <2>2, HoldingIs
    <2>. QED  BY <2>1, <2>2
<1>4. rel[t].pc = "none" /\ rel[t].forget = FALSE /\ ~rel[t].forget
    BY DEF NoRel
<1>5. LooksMove(f, k, forgets, task[t], rel[t], f, k', forgets, b, q)
    <2>1. CASE q = Forgetting(i) /\ k'.nlookup = k.nlookup
        <3>1. q.forget /\ q.ino = i
            BY <2>1, ForgettingIs
        <3>. QED  BY <1>1, <1>4, <2>1, <3>1, LooksLeft
    <2>2. CASE q = Holding(i) /\ k'.nlookup = [k.nlookup EXCEPT ![i] = @ + 1]
        <3>1. q.forget = rel[t].forget
            BY <1>4, <2>2, HoldingIs
        <3>. QED  BY <1>1, <1>2, <1>4, <2>2, <3>1, LooksCounted
    <2>. QED  BY <2>1, <2>2
<1>6. OpensMove(f, task[t], rel[t], f, b, q)
    BY <1>1, <1>2, <1>3, <1>4, OpensLeft
<1>7. FileKnown(k', 0)
    BY DEF FileKnown, NodeAssumption
<1>. QED  BY <1>1, <1>2, <1>3, <1>5, <1>6, <1>7, DoneStep

LEMMA CreateOpenStep ==
    ASSUME Alive, TreeAssumption, NodeAssumption, UNCHANGED <<disk, f>>, NEW t \in Tasks,
           task[t].pc = "done", fuse_create_open(t)
    PROVE  Alive'
<1>1. PICK r, i, new, back :
          /\ r = task[t] /\ i = task[t].got /\ new = Entry(r.at, r.name, i)
          /\ back = [NoRel EXCEPT !.pc = "sent", !.ino = i]
    OBVIOUS
<1>2. PICK D, hold, give : /\ D = k.dent \cup {new}
                           /\ hold = [back EXCEPT !.kernel = TRUE]
                           /\ give = [back EXCEPT !.forget = TRUE]
    OBVIOUS
<1>3. /\ r.op = "create"
      /\ \/ r.err # "ok" /\ UNCHANGED <<k, rel, forgets, faults>> /\ Finish(t, BackTo(t))
         \/ /\ r.err = "ok" /\ Finish(t, [BackTo(t) EXCEPT !.file = i])
            /\ fuse_iget(i, r.mode, D)
         \/ /\ r.err = "ok" /\ Finish(t, BackTo(t)) /\ UNCHANGED <<k, forgets>>
            /\ rel' = [rel EXCEPT ![t] = give]
         \/ /\ r.err = "ok" /\ Finish(t, BackTo(t)) /\ UNCHANGED forgets
            /\ Counted(i, r.mode, D)
            /\ rel' = [rel EXCEPT ![t] = hold]
    BY <1>1, <1>2 DEF fuse_create_open
<1>4. r.op \in Looking /\ (r.got # 0 <=> r.err = "ok") /\ r.file = 0
    BY <1>1, <1>3, AnswerFacts DEF Looking, Moving
<1>5. CASE r.err # "ok" /\ UNCHANGED <<k, rel, forgets, faults>> /\ Finish(t, BackTo(t))
    BY <1>1, <1>3, <1>4, <1>5, DentsStay, DoneQuiet
<1>6. ASSUME r.err = "ok"
      PROVE  /\ i \in NodeIds /\ r.mode \in {"file", "dir"} /\ r.mode = Kind(disk, f, i)
             /\ DentsWith(i, D) /\ rel[t] = NoRel
    <2>1. /\ i \in NodeIds /\ r.mode \in {"file", "dir"} /\ r.mode = Kind(disk, f, i)
          /\ rel[t] = NoRel /\ r.name \in Names
        BY <1>1, <1>3, <1>4, <1>6, AnswerFacts
    <2>2. r.at \in NodeIds /\ Known(k, r.at)
        BY <1>1, TaskFacts
    <2>. QED  BY <1>1, <1>2, <2>1, <2>2, OldDents, EntryWith
<1>7. give = Forgetting(i) /\ hold = Holding(i)
    <2>1. back = Neither(i)
        BY <1>1 DEF NoRel, Neither
    <2>. QED  BY <1>2, <2>1 DEF Neither, Forgetting, Holding
<1>8. /\ BackTo(t) = BackFile(task[t], 0)
      /\ [BackTo(t) EXCEPT !.file = i] = BackFile(task[t], i)
    BY <1>1, <1>4, BackForms
<1>9. CASE /\ r.err = "ok" /\ Finish(t, [BackTo(t) EXCEPT !.file = i])
           /\ fuse_iget(i, r.mode, D)
    <2>1. Counted(i, r.mode, D) /\ rel' = rel /\ forgets' = forgets
        BY <1>9 DEF fuse_iget
    <2>2. /\ KernelGoesOn(k, k') /\ k'.nlookup = [k.nlookup EXCEPT ![i] = @ + 1]
          /\ Known(k', i)
        BY <1>6, <1>9, <2>1, CountedKernel
    <2>3. task' = [task EXCEPT ![t] = BackFile(task[t], i)]
        BY <1>8, <1>9 DEF Finish
    <2>. QED  BY <1>1, <1>3, <1>6, <1>9, <2>1, <2>2, <2>3, DoneOpened
<1>10. CASE /\ r.err = "ok" /\ Finish(t, BackTo(t)) /\ UNCHANGED <<k, forgets>>
            /\ rel' = [rel EXCEPT ![t] = give]
    <2>1. KernelGoesOn(k, k') /\ k'.nlookup = k.nlookup
        BY <1>10, KernelStays
    <2>2. task' = [task EXCEPT ![t] = BackFile(task[t], 0)]
        BY <1>8, <1>10 DEF Finish
    <2>. QED  BY <1>1, <1>3, <1>6, <1>7, <1>10, <2>1, <2>2, DoneTakenBack
<1>11. CASE /\ r.err = "ok" /\ Finish(t, BackTo(t)) /\ UNCHANGED forgets
            /\ Counted(i, r.mode, D)
            /\ rel' = [rel EXCEPT ![t] = hold]
    <2>1. /\ KernelGoesOn(k, k') /\ k'.nlookup = [k.nlookup EXCEPT ![i] = @ + 1]
          /\ Known(k', i)
        BY <1>6, <1>11, CountedKernel
    <2>2. task' = [task EXCEPT ![t] = BackFile(task[t], 0)]
        BY <1>8, <1>11 DEF Finish
    <2>. QED  BY <1>1, <1>3, <1>6, <1>7, <1>11, <2>1, <2>2, DoneTakenBack
<1>. QED  BY <1>3, <1>5, <1>9, <1>10, <1>11

LEMMA OpenDoneStep ==
    ASSUME Alive, TreeAssumption, NodeAssumption, UNCHANGED <<disk, f>>, NEW t \in Tasks,
           task[t].pc = "done", OpenDone(t)
    PROVE  Alive'
<1>1. PICK r : r = task[t]
    OBVIOUS
<1>2. /\ r.op = "open" /\ UNCHANGED <<k, rel, forgets, faults>>
      /\ Finish(t, IF r.err = "ok" THEN [BackTo(t) EXCEPT !.file = r.ino] ELSE BackTo(t))
    BY <1>1 DEF OpenDone
<1>3. (r.got # 0 <=> r.err = "ok") /\ (r.got # 0 => r.got = r.ino)
    BY <1>1, <1>2, AnswerFacts DEF Moving
<1>4. CASE r.err # "ok"
    BY <1>1, <1>2, <1>3, <1>4, DentsStay, DoneQuiet
<1>5. CASE r.err = "ok"
    <2>1. PICK i : i = r.ino
        OBVIOUS
    <2>2. i = task[t].got /\ i \in NodeIds /\ Known(k, i)
        BY <1>1, <1>2, <1>3, <1>5, <2>1, AnswerFacts
    <2>3. KernelGoesOn(k, k') /\ k'.nlookup = k.nlookup /\ Known(k', i)
        BY <1>2, <2>2, KernelStays
    <2>4. task' = [task EXCEPT ![t] = BackFile(task[t], i)]
        BY <1>1, <1>2, <1>5, <2>1, BackForms DEF Finish
    <2>. QED  BY <1>1, <1>2, <2>2, <2>3, <2>4, DoneOpened
<1>. QED  BY <1>4, <1>5

LEMMA DoneActionStep ==
    ASSUME Alive, TreeAssumption, NodeAssumption, NEW t \in Tasks, Done(t)
    PROVE  Alive'
BY LookupDoneStep, RevalidateDoneStep, CreateDoneStep, OpenDoneStep, CreateOpenStep,
   UnlinkDoneStep, RenameDoneStep DEF Done

(* RELEASE is sent: the task's file becomes a release that holds it.       *)
LEMMA ReleaseCommonStep ==
    ASSUME Alive, TreeAssumption, NodeAssumption, NEW t \in Tasks, fuse_release_common(t)
    PROVE  Alive'
<1>1. PICK u, i : u = task[t] /\ i = task[t].file
    OBVIOUS
<1>2. PICK r, q : /\ r = [u EXCEPT !.file = 0]
                  /\ q = [NoRel EXCEPT !.pc = "sent", !.kernel = TRUE, !.ino = i]
    OBVIOUS
<1>3. /\ u.pc = "idle" /\ i # 0 /\ rel[t].pc = "none"
      /\ rel' = [rel EXCEPT ![t] = q] /\ task' = [task EXCEPT ![t] = r]
      /\ UNCHANGED <<disk, f, k, forgets, faults>>
    BY <1>1, <1>2 DEF fuse_release_common
<1>4. /\ u \in TaskRec /\ TaskOK(disk, f, u, rel[t]) /\ rel[t] = NoRel
      /\ KernelType(k) /\ ForgetsType(forgets)
      /\ \A j \in NodeIds : HeldBy(u, rel[t], j) => Known(k, j)
    BY <1>1, <1>3, AliveFacts DEF KernelHolds, RelOK
<1>5. /\ r.pc = u.pc /\ r.op = u.op /\ r.at = u.at /\ r.name = u.name /\ r.to = u.to
      /\ r.newname = u.newname /\ r.ino = u.ino /\ r.file = 0 /\ r.err = u.err
      /\ r.got = u.got /\ r.mode = u.mode /\ r \in TaskRec
    BY <1>2, <1>4 DEF TaskRec, NodeAssumption
<1>6. i \in NodeIds /\ Known(k, i)
    BY <1>1, <1>3, <1>4 DEF TaskRec, NodeIds, NodeAssumption, HeldBy
<1>7. q = Holding(i)
    BY <1>2 DEF NoRel, Holding
<1>8. /\ RelShape(q) /\ RelOK(disk, f, q) /\ q.pc = "sent" /\ q.ino = i
      /\ q.kernel /\ q.forget = FALSE
    BY <1>6, <1>7, HoldingIs
<1>9. LooksMove(f, k, forgets, task[t], rel[t], f, k', forgets', r, q)
    <2>1. \A j \in NodeIds : LookNum(u, rel[t], j) = LookNum(r, q, j)
        BY <1>3, <1>4, <1>5, <1>8 DEF LookNum, LookOf, BackOf, NoRel
    <2>. QED  BY <1>1, <1>3, <2>1 DEF LooksMove
<1>10. OpensMove(f, task[t], rel[t], f, r, q)
    <2>1. \A j \in NodeIds : OpenNum(u, rel[t], j) = OpenNum(r, q, j)
        BY <1>1, <1>3, <1>4, <1>5, <1>8 DEF OpenNum, FileOf, OpenOf, CloseOf, NodeIds
    <2>. QED  BY <1>1, <2>1 DEF OpensMove
<1>11. KernelGoesOn(k, k')
    BY <1>3, KernelStays
<1>12. HeldKnown(k', r, q)
    BY <1>3, <1>4, <1>5, <1>6, <1>8 DEF HeldKnown, HeldBy, NodeIds
<1>13. TaskOK(disk, f, r, q)
    BY <1>3, <1>4, <1>5 DEF TaskOK, Looking, Moving
<1>14. ForgetsType(forgets') /\ UNCHANGED <<disk, f>>
    BY <1>3, <1>4
<1>15. KernelType(k') /\ InodesKept(k, k') /\ ModesMove(k, k', disk, f) /\ DentsKnown(k')
    BY <1>11 DEF KernelGoesOn
<1>. QED  BY <1>3, <1>5, <1>8, <1>9, <1>10, <1>12, <1>13, <1>14, <1>15, KernelStep

(***************************************************************************)
(* The steps of the daemon                                                 *)
(***************************************************************************)
\* What an outcome of request r looks up, and opens.
LookedFor(r, o) == IF r.op \in Looking THEN o.ino ELSE 0
OpenedFor(r, o) == IF r.op \in {"open", "create"} THEN o.ino ELSE 0

\* What every handler does.
Handled(r, o) ==
    /\ Effect(disk, f, o.disk, o.f, LookedFor(r, o), OpenedFor(r, o))
    /\ o.err \in {"ok", "error", "ENOMEM"} /\ o.ino \in {0} \cup DOMAIN o.f.nodes
    /\ o.ino # 0 <=> o.err = "ok" /\ r.op \notin Moving
    /\ r.op = "open" /\ o.ino # 0 => o.ino = r.ino

\* What the guards of Handle have made sure of.
Ready(r) ==
    /\ r.op \in {"mknod", "mkdir", "create"} => FreeObjs # {}
    /\ r.op \in {"unlink", "rmdir", "rename", "open"} \/ FreeIds(f) # {}

LEMMA LookedUpHandled ==
    ASSUME NEW r, r.op \in Looking \ {"create"}, NEW o, LookedUp(disk, f, o)
    PROVE  Handled(r, o)
<1>1. /\ Effect(disk, f, o.disk, o.f, o.ino, 0)
      /\ o.err \in {"ok", "error", "ENOMEM"} /\ o.ino \in {0} \cup DOMAIN o.f.nodes
      /\ o.ino # 0 <=> o.err = "ok"
    BY DEF LookedUp
<1>2. LookedFor(r, o) = o.ino /\ OpenedFor(r, o) = 0 /\ r.op \notin Moving /\ r.op # "open"
    BY DEF LookedFor, OpenedFor, Looking, Moving
<1>. QED  BY <1>1, <1>2 DEF Handled

LEMMA QuietHandled ==
    ASSUME NEW r, r.op \in Moving, NEW o, Quiet(disk, f, o)
    PROVE  Handled(r, o)
<1>1. /\ Effect(disk, f, o.disk, o.f, 0, 0) /\ o.err \in {"ok", "error", "ENOMEM"}
      /\ o.ino = 0
    BY DEF Quiet
<1>2. LookedFor(r, o) = 0 /\ OpenedFor(r, o) = 0 /\ r.op # "open"
    BY <1>1 DEF LookedFor, OpenedFor, Looking, Moving
<1>. QED  BY <1>1, <1>2 DEF Handled

LEMMA HandlersDo ==
    ASSUME Alive, TreeAssumption, NodeAssumption, NEW t \in Tasks, NEW r, r = task[t],
           r.pc = "sent", Ready(r), NEW o \in Outcomes(r)
    PROVE  Handled(r, o)
<1>1. /\ r \in TaskRec /\ TaskOK(disk, f, r, rel[t]) /\ KernelHolds(k, task, rel)
      /\ r.at \in NodeIds /\ Known(k, r.at) /\ Kind(disk, f, r.at) = "dir"
    BY TaskFacts, AliveFacts
<1>2. Tree(disk, f)
    BY LiveTree DEF Alive
<1>3. \A i \in NodeIds : Known(k, i) => i \in DOMAIN f.nodes /\ Lookups(f, i) > 0
    BY AliveFacts, InTable
<1>4. Place(disk, f, r.at)
    BY <1>1, <1>3 DEF Place
<1>5. r.name \in Names => r.name \in AllNames
    BY DEF AllNames
<1>6. r.ino # 0 => r.ino \in DOMAIN f.nodes /\ Lookups(f, r.ino) > 0
    BY <1>1, <1>3 DEF KernelHolds, HeldBy, TaskRec, NodeIds, NodeAssumption
<1>7. r.op \in Looking \cup Moving => r.name \in AllNames
    BY <1>1, <1>5 DEF TaskOK
<1>8. CASE r.op \in {"lookup", "revalidate"}
    <2>1. o \in fuse_lib_lookup(r)
        BY <1>8 DEF Outcomes
    <2>. QED  BY <1>2, <1>4, <1>7, <1>8, <2>1, LookupDoes, LookedUpHandled DEF Ready, Looking
<1>9. CASE r.op = "mknod"
    <2>1. o \in fuse_lib_mknod(r, "file")
        BY <1>9 DEF Outcomes
    <2>. QED  BY <1>2, <1>4, <1>7, <1>9, <2>1, MknodDoes, LookedUpHandled DEF Ready, Looking
<1>10. CASE r.op = "mkdir"
    <2>1. o \in fuse_lib_mknod(r, "dir")
        BY <1>10 DEF Outcomes
    <2>. QED  BY <1>2, <1>4, <1>7, <1>10, <2>1, MknodDoes, LookedUpHandled DEF Ready, Looking
<1>11. CASE r.op = "create"
    <2>1. o \in fuse_lib_create(r)
        BY <1>11 DEF Outcomes
    <2>2. MadeOpen(disk, f, o)
        BY <1>2, <1>4, <1>7, <1>11, <2>1, CreateDoes DEF Ready, Looking
    <2>3. LookedFor(r, o) = o.ino /\ OpenedFor(r, o) = o.ino /\ r.op \notin Moving
        BY <1>11 DEF LookedFor, OpenedFor, Looking, Moving
    <2>. QED  BY <1>11, <2>2, <2>3 DEF Handled, MadeOpen
<1>12. CASE r.op = "link"
    <2>1. o \in fuse_lib_link(r)
        BY <1>12 DEF Outcomes
    <2>2. r.ino # 0
        BY <1>1, <1>12 DEF TaskOK
    <2>. QED  BY <1>2, <1>4, <1>6, <1>7, <1>12, <2>1, <2>2, LinkDoes, LookedUpHandled
              DEF Ready, Looking
<1>13. CASE r.op = "unlink"
    <2>1. o \in fuse_lib_unlink(r)
        BY <1>13 DEF Outcomes
    <2>. QED  BY <1>2, <1>4, <1>7, <1>13, <2>1, UnlinkDoes, QuietHandled DEF Moving
<1>14. CASE r.op = "rmdir"
    <2>1. o \in fuse_lib_rmdir(r)
        BY <1>14 DEF Outcomes
    <2>. QED  BY <1>2, <1>4, <1>7, <1>14, <2>1, RmdirDoes, QuietHandled DEF Moving
<1>15. CASE r.op = "rename"
    <2>1. o \in fuse_lib_rename(r)
        BY <1>15 DEF Outcomes
    <2>2. r.to # 0 /\ r.newname \in AllNames /\ Kind(disk, f, r.to) = "dir"
        BY <1>1, <1>15 DEF TaskOK, AllNames
    <2>3. r.to \in NodeIds /\ Known(k, r.to)
        BY <1>1, <2>2 DEF KernelHolds, HeldBy, TaskRec, NodeIds, NodeAssumption
    <2>4. Place(disk, f, r.to)
        BY <1>3, <2>2, <2>3 DEF Place
    <2>. QED  BY <1>2, <1>4, <1>7, <1>15, <2>1, <2>2, <2>4, RenameHandled, QuietHandled DEF Moving
<1>16. CASE r.op = "open"
    <2>1. o \in fuse_lib_open(r)
        BY <1>16 DEF Outcomes
    <2>2. r.ino # 0
        BY <1>1, <1>16 DEF TaskOK
    <2>3. /\ Effect(disk, f, o.disk, o.f, 0, o.ino)
          /\ o.err \in {"ok", "error", "ENOMEM"} /\ o.ino \in {0, r.ino}
          /\ o.ino # 0 <=> o.err = "ok"
          /\ r.ino \in DOMAIN o.f.nodes
        BY <1>2, <1>6, <2>1, <2>2, OpenDoes
    <2>4. LookedFor(r, o) = 0 /\ OpenedFor(r, o) = o.ino /\ r.op \notin Moving
        BY <1>16 DEF LookedFor, OpenedFor, Looking, Moving
    <2>. QED  BY <1>16, <2>3, <2>4 DEF Handled
<1>17. r.op \in Looking \cup Moving \cup {"open"}
    BY <1>1 DEF TaskRec, TaskOK
<1>. QED  BY <1>8, <1>9, <1>10, <1>11, <1>12, <1>13, <1>14, <1>15, <1>16, <1>17
          DEF Looking, Moving

(* What a task speaks of stays what it is, whatever a handler does.        *)
LEMMA EffectKeeps ==
    ASSUME Alive, TreeAssumption, NEW t \in Tasks, NEW e, NEW h, NEW i, NEW o,
           Effect(disk, f, e, h, i, o)
    PROVE  /\ TaskOK(e, h, task[t], rel[t]) /\ RelOK(e, h, rel[t]) /\ KindsKept(disk, f, e, h)
           /\ ParentsAreDirs(e, h) /\ Lookups(h, FUSE_ROOT_ID) > 0
           /\ TableType(h) /\ DiskType(e) /\ Sound(h)
<1>1. /\ TypesOK(disk, f, k, task, rel, forgets) /\ RootKept(disk, f) /\ KernelHolds(k, task, rel)
      /\ Balanced(f, k, task, rel, forgets) /\ OpenBalanced(f, task, rel)
      /\ task[t] \in TaskRec /\ RelShape(rel[t])
      /\ TaskOK(disk, f, task[t], rel[t]) /\ RelOK(disk, f, rel[t])
    BY AliveFacts
<1>2. KindsKept(disk, f, e, h) /\ Tree(e, h)
    BY DEF Effect, KindsKept
<1>3. Tree(disk, f)
    BY LiveTree DEF Alive
<1>4. ASSUME NEW j \in NodeIds, Lookups(f, j) > 0 \/ Opens(f, j) > 0
      PROVE  j \in DOMAIN h.nodes /\ (Lookups(f, j) > 0 => Lookups(h, j) > 0)
    <2>1. Lookups(f, j) \in Nat /\ Opens(f, j) \in Nat /\ Same(i, j) \in Nat /\ Same(o, j) \in Nat
        BY <1>3, TreeFacts DEF Same
    <2>2. Lookups(h, j) = Lookups(f, j) + Same(i, j) /\ Opens(h, j) = Opens(f, j) + Same(o, j)
        BY DEF Effect
    <2>3. (Lookups(f, j) > 0 => Lookups(h, j) > 0) /\ (Opens(f, j) > 0 => Opens(h, j) > 0)
        BY <2>1, <2>2
    <2>. QED  BY <1>4, <2>3 DEF Lookups, Opens
<1>5. ASSUME NEW j \in NodeIds, SpeaksOf(task[t], rel[t], j)
      PROVE  j \in DOMAIN f.nodes /\ j \in DOMAIN h.nodes
    <2>1. j \in DOMAIN f.nodes /\ (Lookups(f, j) > 0 \/ Opens(f, j) > 0)
        BY <1>1, <1>5, SpokenInTable
    <2>. QED  BY <1>4, <2>1
<1>6. TaskOK(e, h, task[t], rel[t]) /\ RelOK(e, h, rel[t])
    BY <1>1, <1>2, <1>5, TaskKindsKept
<1>7. Lookups(h, FUSE_ROOT_ID) > 0
    <2>1. FUSE_ROOT_ID \in NodeIds /\ Lookups(f, FUSE_ROOT_ID) > 0
        BY <1>1, <1>3, TreeFacts DEF RootKept, Lookups
    <2>. QED  BY <1>4, <2>1
<1>. QED  BY <1>2, <1>6, <1>7, TreeFacts DEF Tree

(* A request is handled, and its task told.                                *)
LEMMA AnswerStep ==
    ASSUME Alive, TreeAssumption, NEW t \in Tasks, k' = k, NEW i, NEW o,
           Effect(disk, f, disk', f', i, o), ForgetsType(forgets'),
           NEW r \in TaskRec, task' = [task EXCEPT ![t] = r],
           NEW q, RelShape(q), rel' = [rel EXCEPT ![t] = q], HeldKnown(k, r, q),
           LooksMove(f, k, forgets, task[t], rel[t], f', k, forgets', r, q),
           OpensMove(f, task[t], rel[t], f', r, q),
           TaskOK(disk', f', r, q), RelOK(disk', f', q)
    PROVE  Alive'
<1>1. /\ TypesOK(disk, f, k, task, rel, forgets) /\ Live(disk, f, k, task, rel, forgets)
      /\ KernelType(k) /\ KernelHolds(k, task, rel) /\ ModesTrue(disk, f, k) /\ ~f.abort
    BY AliveFacts DEF Alive
<1>2. PICK e, h : e = disk' /\ h = f'
    OBVIOUS
<1>3. /\ KindsKept(disk, f, e, h) /\ ParentsAreDirs(e, h) /\ Lookups(h, FUSE_ROOT_ID) > 0
      /\ DiskType(e) /\ Sound(h)
    BY <1>2, EffectKeeps
<1>4. /\ task \in [Tasks -> TaskRec] /\ rel = [u \in Tasks |-> rel[u]]
      /\ \A u \in Tasks : RelShape(rel[u])
    BY <1>1 DEF TypesOK
<1>5. OthersStay(t, task, rel, task', rel')
    BY <1>4 DEF OthersStay
<1>6. task'[t] = r /\ rel'[t] = q
    BY <1>4
<1>7. /\ task' \in [Tasks -> TaskRec] /\ rel' = [u \in Tasks |-> rel'[u]]
      /\ \A u \in Tasks : RelShape(rel'[u])
    BY <1>4
<1>8. TypesOK(e, h, k, task', rel', forgets')
    BY <1>1, <1>3, <1>7 DEF TypesOK
<1>9. InodesKept(k, k) /\ ModesMove(k, k, e, h) /\ DentsKnown(k)
    BY <1>1 DEF InodesKept, ModesMove, DentsKnown, KernelHolds
<1>10. /\ LooksMove(f, k, forgets, task[t], rel[t], h, k, forgets', task'[t], rel'[t])
       /\ OpensMove(f, task[t], rel[t], h, task'[t], rel'[t])
       /\ HeldKnown(k, task'[t], rel'[t])
       /\ TaskOK(e, h, task'[t], rel'[t]) /\ RelOK(e, h, rel'[t])
    BY <1>2, <1>6
<1>11. Live(e, h, k, task', rel', forgets')
    BY <1>1, <1>3, <1>5, <1>8, <1>9, <1>10, TaskStep
<1>12. h.abort = f.abort
    BY <1>2 DEF Effect
<1>. QED  BY <1>1, <1>2, <1>11, <1>12 DEF Alive

\* The task of request r is told e, of node i of type m.
Told(r, e, i, m) ==
    [pc |-> "done", op |-> r.op, at |-> r.at, name |-> r.name, to |-> r.to,
     newname |-> r.newname, ino |-> r.ino, file |-> r.file, err |-> e, got |-> i, mode |-> m]

LEMMA ReplyForms ==
    ASSUME Alive, TreeAssumption, NEW t \in Tasks, NEW err, NEW i, NEW m, Reply(t, err, i, m),
           NEW e, e = IF err = "ok" \/ (err = "EINTR" /\ task[t].op \in {"unlink", "rmdir", "rename"})
                      THEN err ELSE "error"
    PROVE  task' = [task EXCEPT ![t] = Told(task[t], e, i, m)]
<1>1. task[t] \in TaskRec /\ task \in [Tasks -> TaskRec]
    BY AliveFacts DEF TypesOK
<1>2. task' = [task EXCEPT ![t].pc = "done", ![t].got = i, ![t].mode = m, ![t].err = e]
    BY DEF Reply
<1>3. PICK u : u = task[t]
    OBVIOUS
<1>4. PICK r : r = [u EXCEPT !.pc = "done", !.got = i, !.mode = m, !.err = e]
    OBVIOUS
<1>5. task' = [task EXCEPT ![t] = r]
    BY <1>1, <1>2, <1>3, <1>4
<1>6. r = Told(u, e, i, m)
    <2>1. u = [pc |-> u.pc, op |-> u.op, at |-> u.at, name |-> u.name, to |-> u.to,
               newname |-> u.newname, ino |-> u.ino, file |-> u.file, err |-> u.err,
               got |-> u.got, mode |-> u.mode]
        BY <1>1, <1>3 DEF TaskRec
    <2>. QED  BY <1>4, <2>1 DEF Told
<1>. QED  BY <1>3, <1>5, <1>6

\* What the task of request u may be told: that it failed, or the node that
\* was looked up or opened.
MayTell(d, g, u, e, i, m) ==
    /\ e \in {"ok", "error", "EINTR"} /\ i \in 0..MaxNode /\ m \in {"none", "file", "dir"}
    /\ i # 0 <=> e = "ok" /\ u.op \notin Moving
    /\ u.op = "open" /\ i # 0 => i = u.ino
    /\ u.op \in Looking /\ i # 0 => m = Kind(d, g, i)

\* The release of a task stays, or a new one of an open that failed.
MayLeave(e, q, q2) == q2 = q \/ (e # "ok" /\ ~q2.kernel)

LEMMA ToldIs ==
    ASSUME NEW d, NEW g, NEW u \in TaskRec, NEW q, TaskOK(d, g, u, q), u.pc = "sent",
           NEW e, NEW i, NEW m, MayTell(d, g, u, e, i, m), NEW q2, MayLeave(e, q, q2),
           NEW r, r = Told(u, e, i, m)
    PROVE  /\ r \in TaskRec /\ TaskOK(d, g, r, q2)
           /\ \A j \in NodeIds : HeldBy(r, q2, j) => HeldBy(u, q, j)
<1>1. /\ r.pc = "done" /\ r.op = u.op /\ r.at = u.at /\ r.name = u.name /\ r.to = u.to
      /\ r.newname = u.newname /\ r.ino = u.ino /\ r.file = u.file /\ r.err = e
      /\ r.got = i /\ r.mode = m
    BY DEF Told
<1>2. r \in TaskRec
    BY DEF Told, TaskRec, MayTell
<1>3. \A j \in NodeIds : HeldBy(r, q2, j) => HeldBy(u, q, j)
    BY <1>1 DEF HeldBy, MayLeave
<1>4. u.op # "none"
    BY DEF TaskOK
<1>5. u.op \in {"open", "create"} /\ e = "ok" => q2.pc = "none"
    BY DEF TaskOK, MayLeave
<1>6. TaskOK(d, g, r, q2)
    BY <1>1, <1>4, <1>5 DEF TaskOK, MayTell
<1>. QED  BY <1>2, <1>3, <1>6

\* The lookup and the open that a task is told of.
ToldLook(u, i) == IF u.op = "open" THEN 0 ELSE i
ToldOpen(u, i) == IF u.op \in {"open", "create"} THEN i ELSE 0

LEMMA ToldNums ==
    ASSUME NEW u, u.pc = "sent", NEW e, NEW i, NEW m, NEW r, r = Told(u, e, i, m),
           NEW j \in NodeIds
    PROVE  /\ LookOf(u, j) = 0 /\ OpenOf(u, j) = 0 /\ FileOf(r, j) = FileOf(u, j)
           /\ LookOf(r, j) = Same(ToldLook(u, i), j) /\ OpenOf(r, j) = Same(ToldOpen(u, i), j)
           /\ FileOf(u, j) \in {0, 1}
<1>1. r.pc = "done" /\ r.op = u.op /\ r.file = u.file /\ r.got = i
    BY DEF Told
<1>2. j # 0
    BY DEF NodeIds
<1>3. LookOf(u, j) = 0 /\ OpenOf(u, j) = 0
    BY DEF LookOf, OpenOf
<1>4. FileOf(r, j) = FileOf(u, j) /\ FileOf(u, j) \in {0, 1}
    BY <1>1 DEF FileOf
<1>5. LookOf(r, j) = Same(ToldLook(u, i), j)
    BY <1>1, <1>2 DEF LookOf, Same, ToldLook
<1>6. OpenOf(r, j) = Same(ToldOpen(u, i), j)
    BY <1>1, <1>2 DEF OpenOf, Same, ToldOpen
<1>. QED  BY <1>3, <1>4, <1>5, <1>6

\* Where a lookup of i goes, and an open: to the task, which is told of n, to
\* its release or to a forget.
LooksTold(u, q, w, i, n, q2, w2) ==
    \A j \in NodeIds : Same(i, j) + Sum(w[j]) + BackOf(q, j)
                           = Sum(w2[j]) + Same(ToldLook(u, n), j) + BackOf(q2, j)
OpensTold(u, q, o, n, q2) ==
    \A j \in NodeIds : Same(o, j) + CloseOf(q, j) = Same(ToldOpen(u, n), j) + CloseOf(q2, j)

LEMMA MovedLooks ==
    ASSUME NEW l \in Nat, NEW n \in Nat, NEW s \in Nat, NEW s2 \in Nat, NEW b \in Nat,
           NEW b2 \in Nat, NEW x \in Nat, NEW y \in Nat, NEW l2, l2 = l + x,
           x + s + b = s2 + y + b2
    PROVE  l2 + n + s + (0 + b) = l + n + s2 + (y + b2)
OBVIOUS

LEMMA MovedOpens ==
    ASSUME NEW l \in Nat, NEW a \in Nat, NEW b \in Nat, NEW b2 \in Nat, NEW x \in Nat,
           NEW y \in Nat, NEW l2, l2 = l + x, x + b = y + b2
    PROVE  l2 + (a + 0 + b) = l + (a + y + b2)
OBVIOUS

(* A request is handled, and its task is told of it.                       *)
LEMMA TellStep ==
    ASSUME Alive, TreeAssumption, NEW t \in Tasks, k' = k, NEW i, NEW o,
           Effect(disk, f, disk', f', i, o), ForgetsType(forgets'),
           NEW u, u = task[t], u.pc = "sent", NEW e, NEW n, NEW m,
           MayTell(disk', f', u, e, n, m), task' = [task EXCEPT ![t] = Told(u, e, n, m)],
           NEW q, q = rel[t], NEW q2, RelShape(q2), rel' = [rel EXCEPT ![t] = q2],
           RelOK(disk', f', q2), MayLeave(e, q, q2),
           LooksTold(u, q, forgets, i, n, q2, forgets'), OpensTold(u, q, o, n, q2)
    PROVE  Alive'
<1>1. PICK r : r = Told(u, e, n, m)
    OBVIOUS
<1>2. TaskOK(disk', f', u, q)
    <2>1. PICK d, g : d = disk' /\ g = f'
        OBVIOUS
    <2>. QED  BY <2>1, EffectKeeps
<1>3. u \in TaskRec /\ KernelHolds(k, task, rel)
    BY AliveFacts
<1>4. /\ r \in TaskRec /\ TaskOK(disk', f', r, q2)
      /\ \A j \in NodeIds : HeldBy(r, q2, j) => HeldBy(u, q, j)
    BY <1>1, <1>2, <1>3, ToldIs
<1>5. HeldKnown(k, r, q2)
    BY <1>3, <1>4 DEF HeldKnown, KernelHolds
<1>6. ASSUME NEW j \in NodeIds
      PROVE  /\ Lookups(f', j) + k.nlookup[j] + Sum(forgets[j]) + LookNum(u, q, j)
                    = Lookups(f, j) + k.nlookup[j] + Sum(forgets'[j]) + LookNum(r, q2, j)
             /\ Opens(f', j) + OpenNum(u, q, j) = Opens(f, j) + OpenNum(r, q2, j)
    <2>1. /\ LookOf(u, j) = 0 /\ OpenOf(u, j) = 0 /\ FileOf(r, j) = FileOf(u, j)
          /\ LookOf(r, j) = Same(ToldLook(u, n), j) /\ OpenOf(r, j) = Same(ToldOpen(u, n), j)
          /\ FileOf(u, j) \in Nat
        BY <1>1, ToldNums
    <2>2. /\ Same(i, j) \in Nat /\ Same(o, j) \in Nat /\ Same(ToldLook(u, n), j) \in Nat
          /\ Same(ToldOpen(u, n), j) \in Nat
          /\ BackOf(q, j) \in Nat /\ BackOf(q2, j) \in Nat /\ CloseOf(q, j) \in Nat
          /\ CloseOf(q2, j) \in Nat
        BY DEF Same, BackOf, CloseOf
    <2>3. /\ Lookups(f, j) \in Nat /\ Opens(f, j) \in Nat /\ k.nlookup[j] \in Nat
          /\ Sum(forgets[j]) \in Nat
        BY AliveFacts, LiveNumbers
    <2>4. Sum(forgets'[j]) \in Nat
        <3>1. forgets'[j] \in Seq(Nat)
            BY DEF ForgetsType
        <3>. QED  BY <3>1, SumType
    <2>5. Lookups(f', j) = Lookups(f, j) + Same(i, j) /\ Opens(f', j) = Opens(f, j) + Same(o, j)
        BY DEF Effect
    <2>6. /\ LookNum(u, q, j) = 0 + BackOf(q, j)
          /\ LookNum(r, q2, j) = Same(ToldLook(u, n), j) + BackOf(q2, j)
          /\ OpenNum(u, q, j) = FileOf(u, j) + 0 + CloseOf(q, j)
          /\ OpenNum(r, q2, j) = FileOf(u, j) + Same(ToldOpen(u, n), j) + CloseOf(q2, j)
        BY <2>1 DEF LookNum, OpenNum
    <2>7. Lookups(f', j) + k.nlookup[j] + Sum(forgets[j]) + LookNum(u, q, j)
              = Lookups(f, j) + k.nlookup[j] + Sum(forgets'[j]) + LookNum(r, q2, j)
        <3>1. PICK l, c, s, s2, b, b2, x, y :
                  /\ l = Lookups(f, j) /\ c = k.nlookup[j] /\ s = Sum(forgets[j])
                  /\ s2 = Sum(forgets'[j]) /\ b = BackOf(q, j) /\ b2 = BackOf(q2, j)
                  /\ x = Same(i, j) /\ y = Same(ToldLook(u, n), j)
            OBVIOUS
        <3>2. x + s + b = s2 + y + b2
            BY <3>1 DEF LooksTold
        <3>3. PICK l2 : l2 = Lookups(f', j)
            OBVIOUS
        <3>4. /\ l \in Nat /\ c \in Nat /\ s \in Nat /\ s2 \in Nat /\ b \in Nat /\ b2 \in Nat
              /\ x \in Nat /\ y \in Nat
            BY <2>2, <2>3, <2>4, <3>1
        <3>5. l2 = l + x
            BY <2>5, <3>1, <3>3
        <3>6. l2 + c + s + (0 + b) = l + c + s2 + (y + b2)
            BY <3>2, <3>4, <3>5, MovedLooks
        <3>. QED  BY <2>6, <3>1, <3>3, <3>6
    <2>8. Opens(f', j) + OpenNum(u, q, j) = Opens(f, j) + OpenNum(r, q2, j)
        <3>1. PICK l, a, b, b2, x, y :
                  /\ l = Opens(f, j) /\ a = FileOf(u, j) /\ b = CloseOf(q, j)
                  /\ b2 = CloseOf(q2, j) /\ x = Same(o, j) /\ y = Same(ToldOpen(u, n), j)
            OBVIOUS
        <3>2. x + b = y + b2
            BY <3>1 DEF OpensTold
        <3>3. PICK l2 : l2 = Opens(f', j)
            OBVIOUS
        <3>4. l2 + (a + 0 + b) = l + (a + y + b2)
            BY <2>1, <2>2, <2>3, <2>5, <3>1, <3>2, <3>3, MovedOpens
        <3>. QED  BY <2>6, <3>1, <3>3, <3>4
    <2>. QED  BY <2>7, <2>8
<1>7. LooksMove(f, k, forgets, u, q, f', k, forgets', r, q2) /\ OpensMove(f, u, q, f', r, q2)
    BY <1>6 DEF LooksMove, OpensMove
<1>. QED  BY <1>1, <1>4, <1>5, <1>7, AnswerStep

\* The forgets w2 are w and one more of i.
ForgetsAre(w, i, w2) ==
    /\ ForgetsType(w2)
    /\ \A j \in NodeIds : Sum(w[j]) \in Nat /\ Sum(w2[j]) = Sum(w[j]) + Same(i, j)

(* One more forget of i.                                                   *)
LEMMA ForgetAdds ==
    ASSUME NEW w, ForgetsType(w), NEW i \in NodeIds, NEW w2, w2 = [w EXCEPT ![i] = Append(@, 1)]
    PROVE  ForgetsAre(w, i, w2)
<1>1. ForgetsType(w2) /\ \A j \in NodeIds : w[j] \in Seq(Nat)
    BY DEF ForgetsType
<1>2. ASSUME NEW j \in NodeIds
      PROVE  Sum(w[j]) \in Nat /\ Sum(w2[j]) = Sum(w[j]) + Same(i, j)
    <2>1. w[j] \in Seq(Nat) /\ Sum(w[j]) \in Nat
        BY <1>1, SumType
    <2>2. CASE j = i
        <3>1. w2[j] = Append(w[j], 1)
            BY <2>2 DEF ForgetsType
        <3>2. Sum(w2[j]) = Sum(w[j]) + 1
            BY <2>1, <3>1, SumAppend
        <3>. QED  BY <2>1, <2>2, <3>2 DEF Same
    <2>3. CASE j # i
        BY <2>1, <2>3 DEF Same, ForgetsType
    <2>. QED  BY <2>2, <2>3
<1>. QED  BY <1>1, <1>2 DEF ForgetsAre

(* A request that was not read is taken back.                              *)
LEMMA KillStep ==
    ASSUME Alive, TreeAssumption, NodeAssumption, NEW t \in Tasks, Kill(t)
    PROVE  Alive'
<1>1. PICK u, q, e : /\ u = task[t] /\ q = rel[t]
                     /\ e = IF "EINTR" = "ok" \/ ("EINTR" = "EINTR" /\ task[t].op \in Moving)
                            THEN "EINTR" ELSE "error"
    OBVIOUS
<1>2. /\ u.pc = "sent" /\ Reply(t, "EINTR", 0, "none")
      /\ UNCHANGED <<disk, f, k, rel, forgets>>
    BY <1>1 DEF Kill
<1>3. task' = [task EXCEPT ![t] = Told(u, e, 0, "none")]
    BY <1>1, <1>2, ReplyForms DEF Moving
<1>4. e \in {"EINTR", "error"}
    BY <1>1
<1>5. RelShape(q) /\ RelOK(disk', f', q) /\ rel' = [rel EXCEPT ![t] = q] /\ ForgetsType(forgets')
    BY <1>1, <1>2, AliveFacts DEF TypesOK
<1>6. Effect(disk, f, disk', f', 0, 0)
    <2>1. Tree(disk, f)
        BY LiveTree DEF Alive
    <2>2. Effect(disk, f, disk, f, 0, 0)
        BY <2>1, DiskEffect DEF Tree
    <2>. QED  BY <1>2, <2>2
<1>7. MayTell(disk', f', u, e, 0, "none") /\ MayLeave(e, q, q)
    BY <1>4 DEF MayTell, MayLeave, NodeAssumption
<1>8. ToldLook(u, 0) = 0 /\ ToldOpen(u, 0) = 0
    BY DEF ToldLook, ToldOpen
<1>9. LooksTold(u, q, forgets, 0, 0, q, forgets') /\ OpensTold(u, q, 0, 0, q)
    <2>1. \A j \in NodeIds : Same(0, j) \in Nat /\ BackOf(q, j) \in Nat /\ CloseOf(q, j) \in Nat
        BY DEF Same, BackOf, CloseOf
    <2>2. \A j \in NodeIds : Sum(forgets[j]) \in Nat
        BY AliveFacts, LiveNumbers
    <2>. QED  BY <1>2, <1>8, <2>1, <2>2 DEF LooksTold, OpensTold
<1>. QED  BY <1>1, <1>2, <1>3, <1>5, <1>6, <1>7, <1>9, TellStep

(* The reply of a handler reaches its task.                                *)
LEMMA ReplyStep ==
    ASSUME Alive, TreeAssumption, NodeAssumption, NEW t \in Tasks, NEW u, u = task[t],
           u.pc = "sent", k' = k, NEW o, Handled(u, o), f' = o.f, disk' = o.disk,
           NEW m, m = IF o.ino = 0 THEN "none" ELSE Kind(o.disk, o.f, o.ino),
           Reply(t, o.err, o.ino, m), UNCHANGED <<rel, forgets>>
    PROVE  Alive'
<1>1. PICK q, e, i : /\ q = rel[t] /\ i = o.ino
                     /\ e = IF o.err = "ok" \/ (o.err = "EINTR" /\ task[t].op \in Moving)
                            THEN o.err ELSE "error"
    OBVIOUS
<1>2. task' = [task EXCEPT ![t] = Told(u, e, i, m)]
    BY <1>1, ReplyForms DEF Moving
<1>3. /\ Effect(disk, f, disk', f', LookedFor(u, o), OpenedFor(u, o))
      /\ o.err \in {"ok", "error", "ENOMEM"} /\ i \in {0} \cup DOMAIN f'.nodes
      /\ i # 0 <=> o.err = "ok" /\ u.op \notin Moving
      /\ u.op = "open" /\ i # 0 => i = u.ino
    BY <1>1 DEF Handled
<1>4. e \in {"ok", "error"} /\ (e = "ok" <=> o.err = "ok")
    BY <1>1, <1>3
<1>5. PICK d, g : d = disk' /\ g = f'
    OBVIOUS
<1>6. Tree(d, g)
    BY <1>3, <1>5 DEF Effect
<1>7. i \in 0..MaxNode /\ m \in {"none", "file", "dir"} /\ (i # 0 => m = Kind(d, g, i))
    <2>1. \A j \in DOMAIN g.nodes : j \in NodeIds /\ Kind(d, g, j) \in {"file", "dir"}
        BY <1>6, TreeFacts
    <2>. QED  BY <1>1, <1>3, <1>5, <2>1 DEF NodeIds, NodeAssumption
<1>8. MayTell(disk', f', u, e, i, m) /\ MayLeave(e, q, q)
    BY <1>3, <1>4, <1>5, <1>7 DEF MayTell, MayLeave
<1>9. u.op \in Looking \cup Moving \cup {"open"}
    BY TaskFacts DEF TaskRec, TaskOK
<1>10. LookedFor(u, o) = ToldLook(u, i) /\ OpenedFor(u, o) = ToldOpen(u, i)
    BY <1>1, <1>3, <1>9 DEF LookedFor, OpenedFor, ToldLook, ToldOpen, Looking
<1>11. /\ LooksTold(u, q, forgets, LookedFor(u, o), i, q, forgets')
       /\ OpensTold(u, q, OpenedFor(u, o), i, q)
    <2>1. PICK a, b : a = LookedFor(u, o) /\ b = OpenedFor(u, o)
        OBVIOUS
    <2>2. \A j \in NodeIds : /\ Same(a, j) \in Nat /\ Same(b, j) \in Nat
                             /\ BackOf(q, j) \in Nat /\ CloseOf(q, j) \in Nat
        BY DEF Same, BackOf, CloseOf
    <2>3. \A j \in NodeIds : Sum(forgets[j]) \in Nat
        BY AliveFacts, LiveNumbers
    <2>4. \A j \in NodeIds : Same(a, j) + Sum(forgets[j]) + BackOf(q, j)
                                 = Sum(forgets[j]) + Same(a, j) + BackOf(q, j)
        BY <2>2, <2>3
    <2>. QED  BY <1>10, <2>1, <2>4 DEF LooksTold, OpensTold
<1>12. /\ RelShape(q) /\ RelOK(disk', f', q) /\ rel' = [rel EXCEPT ![t] = q]
       /\ ForgetsType(forgets')
    <2>1. RelOK(d, g, q)
        BY <1>1, <1>3, <1>5, EffectKeeps
    <2>. QED  BY <1>1, <1>5, <2>1, AliveFacts DEF TypesOK
<1>. QED  BY <1>1, <1>2, <1>3, <1>8, <1>11, <1>12, TellStep

(* The reply is refused: the task was killed, and a lookup is given back.  *)
LEMMA RefusedStep ==
    ASSUME Alive, TreeAssumption, NodeAssumption, NEW t \in Tasks, NEW u, u = task[t],
           u.pc = "sent", k' = k, NEW o, Handled(u, o), f' = o.f, disk' = o.disk,
           Reply(t, "EINTR", 0, "none"), ~Cancel(o, u.op), rel' = rel,
           IF o.ino # 0 THEN Forget(o.ino) ELSE UNCHANGED forgets
    PROVE  Alive'
<1>1. PICK q, e, i : /\ q = rel[t] /\ i = o.ino
                     /\ e = IF "EINTR" = "ok" \/ ("EINTR" = "EINTR" /\ task[t].op \in Moving)
                            THEN "EINTR" ELSE "error"
    OBVIOUS
<1>2. task' = [task EXCEPT ![t] = Told(u, e, 0, "none")]
    BY <1>1, ReplyForms DEF Moving
<1>3. /\ Effect(disk, f, disk', f', LookedFor(u, o), OpenedFor(u, o))
      /\ i \in {0} \cup DOMAIN f'.nodes /\ (i # 0 <=> o.err = "ok" /\ u.op \notin Moving)
    BY <1>1 DEF Handled
<1>4. u.op \in Looking \cup Moving \cup {"open"}
    BY TaskFacts DEF TaskRec, TaskOK
<1>5. LookedFor(u, o) = i /\ OpenedFor(u, o) = 0
    BY <1>1, <1>3, <1>4 DEF LookedFor, OpenedFor, Cancel, Looking, Moving
<1>6. PICK d, g : d = disk' /\ g = f'
    OBVIOUS
<1>7. i # 0 => i \in NodeIds
    <2>1. Tree(d, g)
        BY <1>3, <1>6 DEF Effect
    <2>2. DOMAIN g.nodes \subseteq NodeIds
        BY <2>1, TreeFacts DEF TableType
    <2>. QED  BY <1>3, <1>6, <2>2
<1>8. /\ ForgetsType(forgets')
      /\ \A j \in NodeIds : Sum(forgets[j]) \in Nat /\ Sum(forgets'[j]) = Sum(forgets[j]) + Same(i, j)
    <2>1. ForgetsType(forgets) /\ \A j \in NodeIds : Sum(forgets[j]) \in Nat
        BY AliveFacts, LiveNumbers
    <2>2. CASE i = 0
        <3>1. \A j \in NodeIds : Same(i, j) = 0
            BY <2>2 DEF Same, NodeIds
        <3>. QED  BY <1>1, <2>1, <2>2, <3>1
    <2>3. CASE i # 0
        <3>1. PICK w2 : w2 = [forgets EXCEPT ![i] = Append(@, 1)]
            OBVIOUS
        <3>2. forgets' = w2 /\ i \in NodeIds
            BY <1>1, <1>7, <2>3, <3>1 DEF Forget
        <3>3. ForgetsAre(forgets, i, w2)
            BY <2>1, <3>1, <3>2, ForgetAdds
        <3>. QED  BY <3>2, <3>3 DEF ForgetsAre
    <2>. QED  BY <2>2, <2>3
<1>9. LooksTold(u, q, forgets, i, 0, q, forgets') /\ OpensTold(u, q, 0, 0, q)
    <2>1. \A j \in NodeIds : /\ Same(i, j) \in Nat /\ Same(0, j) = 0
                             /\ BackOf(q, j) \in Nat /\ CloseOf(q, j) \in Nat
        BY DEF Same, BackOf, CloseOf, NodeIds
    <2>2. ToldLook(u, 0) = 0 /\ ToldOpen(u, 0) = 0
        BY DEF ToldLook, ToldOpen
    <2>3. ASSUME NEW j \in NodeIds
          PROVE  Same(i, j) + Sum(forgets[j]) + BackOf(q, j)
                     = Sum(forgets'[j]) + Same(0, j) + BackOf(q, j)
        BY <1>8, <2>1
    <2>. QED  BY <2>2, <2>3 DEF LooksTold, OpensTold
<1>10. /\ RelShape(q) /\ RelOK(disk', f', q) /\ rel' = [rel EXCEPT ![t] = q]
    <2>1. RelOK(d, g, q)
        BY <1>1, <1>3, <1>6, EffectKeeps
    <2>. QED  BY <1>1, <1>6, <2>1, AliveFacts DEF TypesOK
<1>11. e \in {"EINTR", "error"}
    BY <1>1
<1>12. MayTell(disk', f', u, e, 0, "none") /\ MayLeave(e, q, q)
    BY <1>11 DEF MayTell, MayLeave, NodeAssumption
<1>13. Effect(disk, f, disk', f', i, 0)
    BY <1>3, <1>5
<1>. QED  BY <1>1, <1>2, <1>8, <1>9, <1>10, <1>12, <1>13, TellStep

\* The release of an open that was refused.
Cancelling(i, b, x, p) == [pc |-> "cancel", ino |-> i, kernel |-> FALSE, forget |-> b,
                           ok |-> x, path |-> p]

LEMMA CancelForms ==
    ASSUME NEW i, NEW b, NEW x, NEW p,
           NEW q, q = [NoRel EXCEPT !.pc = "cancel", !.ino = i, !.forget = b, !.ok = x, !.path = p]
    PROVE  q = Cancelling(i, b, x, p)
BY DEF NoRel, Cancelling

LEMMA CancellingIs ==
    ASSUME NEW i, NEW b \in BOOLEAN, NEW x, NEW p, NEW q, q = Cancelling(i, b, x, p)
    PROVE  /\ q.pc = "cancel" /\ q.ino = i /\ ~q.kernel /\ (q.forget <=> b)
           /\ q.kernel \in BOOLEAN /\ q.forget \in BOOLEAN
           /\ q = [pc |-> q.pc, ino |-> q.ino, kernel |-> q.kernel, forget |-> q.forget,
                   ok |-> q.ok, path |-> q.path]
BY DEF Cancelling

\* The release that takes back the open of outcome o.
CancelLeft(u, o, q) ==
    /\ q.pc = "cancel" /\ q.ino = o.ino /\ ~q.kernel /\ (q.forget <=> u.op = "create")
    /\ q.kernel \in BOOLEAN /\ q.forget \in BOOLEAN
    /\ q = [pc |-> q.pc, ino |-> q.ino, kernel |-> q.kernel, forget |-> q.forget,
            ok |-> q.ok, path |-> q.path]

(* The reply of an open is refused: a release will take the open back.     *)
LEMMA CancelStep ==
    ASSUME Alive, TreeAssumption, NodeAssumption, NEW t \in Tasks, NEW u, u = task[t],
           u.pc = "sent", k' = k, NEW o, Handled(u, o), f' = o.f, disk' = o.disk,
           Reply(t, "EINTR", 0, "none"), Cancel(o, u.op), forgets' = forgets,
           NEW q2, CancelLeft(u, o, q2), rel' = [rel EXCEPT ![t] = q2]
    PROVE  Alive'
<1>1. PICK q, e, i : /\ q = rel[t] /\ i = o.ino
                     /\ e = IF "EINTR" = "ok" \/ ("EINTR" = "EINTR" /\ task[t].op \in Moving)
                            THEN "EINTR" ELSE "error"
    OBVIOUS
<1>2. task' = [task EXCEPT ![t] = Told(u, e, 0, "none")]
    BY <1>1, ReplyForms DEF Moving
<1>3. /\ Effect(disk, f, disk', f', LookedFor(u, o), OpenedFor(u, o))
      /\ i \in {0} \cup DOMAIN f'.nodes /\ (i # 0 <=> o.err = "ok" /\ u.op \notin Moving)
      /\ u.op = "open" /\ i # 0 => i = u.ino
    BY <1>1 DEF Handled
<1>4. u.op \in {"open", "create"} /\ i # 0
    BY <1>3 DEF Cancel, Moving
<1>5. PICK d, g : d = disk' /\ g = f'
    OBVIOUS
<1>6. i \in NodeIds /\ i \in 0..MaxNode
    <2>1. Tree(d, g)
        BY <1>3, <1>5 DEF Effect
    <2>2. DOMAIN g.nodes \subseteq NodeIds
        BY <2>1, TreeFacts DEF TableType
    <2>. QED  BY <1>3, <1>4, <1>5, <2>2 DEF NodeIds, NodeAssumption
<1>7. q = NoRel /\ TaskOK(d, g, u, q)
    <2>1. TaskOK(disk, f, u, q) /\ RelOK(disk, f, q)
        BY <1>1, AliveFacts
    <2>2. q = NoRel
        BY <1>4, <2>1 DEF TaskOK, RelOK
    <2>. QED  BY <1>1, <1>3, <1>5, <2>2, EffectKeeps
<1>8. /\ q2.pc = "cancel" /\ q2.ino = i /\ ~q2.kernel /\ (q2.forget <=> u.op = "create")
      /\ q2.kernel \in BOOLEAN /\ q2.forget \in BOOLEAN
      /\ q2 = [pc |-> q2.pc, ino |-> q2.ino, kernel |-> q2.kernel, forget |-> q2.forget,
               ok |-> q2.ok, path |-> q2.path]
    BY <1>1 DEF CancelLeft
<1>9. RelShape(q2)
    BY <1>6, <1>8 DEF RelShape
<1>10. RelOK(disk', f', q2)
    <2>1. u.op = "open" => Kind(d, g, i) # "dir"
        BY <1>3, <1>4, <1>7 DEF TaskOK
    <2>2. RelOK(d, g, q2)
        BY <1>4, <1>8, <2>1 DEF RelOK
    <2>. QED  BY <1>5, <2>2
<1>11. q.pc = "none" /\ ~q.forget
    BY <1>7 DEF NoRel
<1>12. LooksTold(u, q, forgets, LookedFor(u, o), 0, q2, forgets')
    <2>1. \A j \in NodeIds : Sum(forgets[j]) \in Nat
        BY AliveFacts, LiveNumbers
    <2>2. ASSUME NEW j \in NodeIds
          PROVE  Same(LookedFor(u, o), j) + Sum(forgets[j]) + BackOf(q, j)
                     = Sum(forgets'[j]) + Same(ToldLook(u, 0), j) + BackOf(q2, j)
        <3>1. BackOf(q, j) = 0 /\ Same(ToldLook(u, 0), j) = 0
            BY <1>11 DEF BackOf, Same, ToldLook, NodeIds
        <3>2. /\ Same(LookedFor(u, o), j) = BackOf(q2, j) /\ BackOf(q2, j) \in {0, 1}
            BY <1>1, <1>4, <1>8 DEF BackOf, Same, LookedFor, Looking, NodeIds
        <3>. QED  BY <2>1, <3>1, <3>2
    <2>. QED  BY <2>2 DEF LooksTold
<1>13. OpensTold(u, q, OpenedFor(u, o), 0, q2)
    <2>1. ASSUME NEW j \in NodeIds
          PROVE  Same(OpenedFor(u, o), j) + CloseOf(q, j)
                     = Same(ToldOpen(u, 0), j) + CloseOf(q2, j)
        <3>1. CloseOf(q, j) = 0 /\ Same(ToldOpen(u, 0), j) = 0
            BY <1>11 DEF CloseOf, Same, ToldOpen, NodeIds
        <3>2. /\ Same(OpenedFor(u, o), j) = CloseOf(q2, j) /\ CloseOf(q2, j) \in {0, 1}
            BY <1>1, <1>4, <1>8 DEF CloseOf, Same, OpenedFor
        <3>. QED  BY <3>1, <3>2
    <2>. QED  BY <2>1 DEF OpensTold
<1>14. e \in {"EINTR", "error"}
    BY <1>1
<1>15. MayTell(disk', f', u, e, 0, "none") /\ MayLeave(e, q, q2)
    BY <1>8, <1>14 DEF MayTell, MayLeave, NodeAssumption
<1>16. ForgetsType(forgets')
    BY AliveFacts
<1>. QED  BY <1>1, <1>2, <1>3, <1>9, <1>10, <1>12, <1>13, <1>15, <1>16, TellStep

LEMMA AnswerActionStep ==
    ASSUME Alive, TreeAssumption, NodeAssumption, NEW t \in Tasks, task[t].pc = "sent",
           k' = k, NEW o, Handled(task[t], o), f' = o.f, disk' = o.disk, Answer(t, o)
    PROVE  Alive'
<1>1. PICK u, m, x, p, b, i :
          /\ u = task[t] /\ i = o.ino
          /\ x = get_path(o.f, o.ino).ok /\ p = get_path(o.f, o.ino).path
          /\ m = IF o.ino = 0 THEN "none" ELSE Kind(o.disk, o.f, o.ino)
          /\ b = (u.op = "create")
    OBVIOUS
<1>2. PICK q2 : q2 = [NoRel EXCEPT !.pc = "cancel", !.ino = i, !.forget = b,
                                   !.ok = x, !.path = p]
    OBVIOUS
<1>3. \/ Reply(t, o.err, o.ino, m) /\ UNCHANGED <<rel, forgets>>
      \/ /\ Reply(t, "EINTR", 0, "none")
         /\ IF Cancel(o, u.op)
            THEN rel' = [rel EXCEPT ![t] = q2] /\ UNCHANGED forgets
            ELSE /\ IF o.ino # 0 THEN Forget(o.ino) ELSE UNCHANGED forgets
                 /\ UNCHANGED rel
    BY <1>1, <1>2 DEF Answer, Kind
<1>4. CASE Reply(t, o.err, o.ino, m) /\ UNCHANGED <<rel, forgets>>
    BY <1>1, <1>4, ReplyStep
<1>5. CASE /\ Reply(t, "EINTR", 0, "none") /\ ~Cancel(o, u.op) /\ UNCHANGED rel
           /\ IF o.ino # 0 THEN Forget(o.ino) ELSE UNCHANGED forgets
    BY <1>1, <1>5, RefusedStep
<1>6. CASE /\ Reply(t, "EINTR", 0, "none") /\ Cancel(o, u.op)
           /\ rel' = [rel EXCEPT ![t] = q2] /\ UNCHANGED forgets
    <2>1. q2 = Cancelling(i, b, x, p)
        BY <1>2, CancelForms
    <2>2. b \in BOOLEAN /\ (b <=> u.op = "create")
        BY <1>1, Zenon
    <2>3. /\ q2.pc = "cancel" /\ q2.ino = i /\ ~q2.kernel /\ (q2.forget <=> b)
          /\ q2.kernel \in BOOLEAN /\ q2.forget \in BOOLEAN
          /\ q2 = [pc |-> q2.pc, ino |-> q2.ino, kernel |-> q2.kernel, forget |-> q2.forget,
                   ok |-> q2.ok, path |-> q2.path]
        BY <2>1, <2>2, CancellingIs
    <2>4. CancelLeft(u, o, q2)
        BY <1>1, <2>2, <2>3, Zenon DEF CancelLeft
    <2>. QED  BY <1>1, <1>6, <2>4, CancelStep
<1>. QED  BY <1>3, <1>4, <1>5, <1>6

LEMMA HandleStep ==
    ASSUME Alive, TreeAssumption, NodeAssumption, NEW t \in Tasks, Handle(t)
    PROVE  Alive'
<1>1. PICK r : r = task[t]
    OBVIOUS
<1>2. /\ r.pc = "sent" /\ Ready(r)
      /\ IF \E i \in Needs(r) : ~get_node_nocheck(f, i)
         THEN f' = Abort(f)
         ELSE \E o \in Outcomes(r) : f' = o.f /\ disk' = o.disk /\ Answer(t, o) /\ UNCHANGED k
    BY <1>1 DEF Handle, Ready
<1>3. r \in TaskRec /\ TaskOK(disk, f, r, rel[t])
    BY <1>1, TaskFacts
<1>4. \A i \in Needs(r) : get_node_nocheck(f, i)
    <2>. SUFFICES ASSUME NEW i \in Needs(r)  PROVE i \in DOMAIN f.nodes
        BY DEF get_node_nocheck
    <2>1. i \in {r.at, r.to, r.ino} /\ i # 0
        BY <1>3 DEF Needs, TaskOK, TaskRec, NodeIds
    <2>2. i \in NodeIds /\ HeldBy(r, rel[t], i)
        BY <1>3, <2>1 DEF TaskRec, NodeIds, HeldBy, NodeAssumption
    <2>3. Known(k, i)
        BY <1>1, <2>2, AliveFacts DEF KernelHolds
    <2>. QED  BY <2>2, <2>3, AliveFacts, InTable
<1>5. PICK o \in Outcomes(r) : f' = o.f /\ disk' = o.disk /\ Answer(t, o) /\ UNCHANGED k
    BY <1>2, <1>4
<1>6. Handled(r, o)
    BY <1>1, <1>2, HandlersDo
<1>. QED  BY <1>1, <1>2, <1>5, <1>6, AnswerActionStep

(***************************************************************************)
(* The steps of the kernel's caches                                        *)
(***************************************************************************)
(* No task moves.                                                          *)
LEMMA CacheStep ==
    ASSUME Alive, TreeAssumption, UNCHANGED <<disk, f, task, rel>>,
           KernelType(k'), ForgetsType(forgets'), KernelHolds(k', task, rel),
           Balanced(f, k', task, rel, forgets'), ModesMove(k, k', disk, f)
    PROVE  Alive'
<1>1. /\ TypesOK(disk, f, k, task, rel, forgets) /\ Live(disk, f, k, task, rel, forgets)
      /\ ParentsAreDirs(disk, f) /\ RootKept(disk, f) /\ OpenBalanced(f, task, rel)
    BY AliveFacts DEF Alive
<1>2. TypesOK(disk, f, k', task, rel, forgets')
    BY <1>1 DEF TypesOK
<1>3. KindsKept(disk, f, disk, f) /\ Lookups(f, FUSE_ROOT_ID) > 0
    BY <1>1 DEF KindsKept, RootKept
<1>4. Live(disk, f, k', task, rel, forgets')
    BY <1>1, <1>2, <1>3, WholeStep
<1>. QED  BY <1>4 DEF Alive

(* Entries expire and go.                                                  *)
LEMMA DentsStep ==
    ASSUME Alive, TreeAssumption, UNCHANGED <<disk, f, task, rel, forgets>>,
           NEW D, GoodDents(k, D), SetDent(D)
    PROVE  Alive'
<1>1. PICK c : c = [k EXCEPT !.dent = D]
    OBVIOUS
<1>2. KernelGoesOn(k, c) /\ c.nlookup = k.nlookup /\ k' = c
    BY <1>1, DentsChange DEF SetDent
<1>3. KernelType(c) /\ ModesMove(k, c, disk, f) /\ InodesKept(k, c) /\ DentsKnown(c)
    BY <1>2 DEF KernelGoesOn
<1>4. KernelHolds(c, task, rel)
    BY <1>3, AliveFacts DEF KernelHolds, InodesKept, DentsKnown
<1>5. Balanced(f, c, task, rel, forgets)
    BY <1>2, AliveFacts DEF Balanced
<1>6. ForgetsType(forgets')
    BY AliveFacts
<1>. QED  BY <1>2, <1>3, <1>4, <1>5, <1>6, CacheStep

LEMMA ExpireStep ==
    ASSUME Alive, TreeAssumption, NEW d \in k.dent, Expire(d)
    PROVE  Alive'
<1>1. PICK e : e = [d EXCEPT !.valid = FALSE]
    OBVIOUS
<1>2. PICK D : D = (k.dent \ {d}) \cup {e}
    OBVIOUS
<1>3. UNCHANGED <<disk, f, task, rel, forgets>> /\ SetDent(D)
    BY <1>1, <1>2 DEF Expire
<1>4. GoodDents(k, k.dent)
    BY OldDents
<1>5. d \in DentRec /\ Known(k, d.id) /\ Known(k, d.dir)
    BY <1>4 DEF GoodDents
<1>6. e \in DentRec /\ e.id = d.id /\ e.dir = d.dir
    BY <1>1, <1>5 DEF DentRec
<1>7. GoodDents(k, D)
    BY <1>2, <1>4, <1>5, <1>6 DEF GoodDents
<1>. QED  BY <1>3, <1>7, DentsStep

LEMMA PruneStep ==
    ASSUME Alive, TreeAssumption, NEW d \in k.dent, Prune(d)
    PROVE  Alive'
<1>1. PICK D : D = k.dent \ {d}
    OBVIOUS
<1>2. UNCHANGED <<disk, f, task, rel, forgets>> /\ SetDent(D)
    BY <1>1 DEF Prune
<1>3. GoodDents(k, D)
    BY <1>1, OldDents DEF GoodDents
<1>. QED  BY <1>2, <1>3, DentsStep

(* An inode that nobody uses is forgotten.                                 *)
LEMMA ClearStep ==
    ASSUME Alive, TreeAssumption, NEW i \in NodeIds, fuse_clear_inode(i)
    PROVE  Alive'
<1>1. /\ i # FUSE_ROOT_ID /\ k.nlookup[i] > 0 /\ ~Held(i)
      /\ \A d \in k.dent : d.id # i /\ d.dir # i
      /\ forgets' = [forgets EXCEPT ![i] = Append(@, k.nlookup[i])]
      /\ k' = [k EXCEPT !.nlookup[i] = 0, !.mode[i] = "none"]
      /\ UNCHANGED <<disk, f, task, rel>>
    BY DEF fuse_clear_inode
<1>2. PICK c, w : /\ c = [k EXCEPT !.nlookup[i] = 0, !.mode[i] = "none"]
                  /\ w = [forgets EXCEPT ![i] = Append(@, k.nlookup[i])]
    OBVIOUS
<1>3. /\ KernelType(k) /\ ForgetsType(forgets) /\ KernelHolds(k, task, rel)
      /\ Balanced(f, k, task, rel, forgets)
    BY AliveFacts
<1>4. /\ c = [dent |-> k.dent, nlookup |-> [k.nlookup EXCEPT ![i] = 0],
              mode |-> [k.mode EXCEPT ![i] = "none"]]
    BY <1>2, <1>3 DEF KernelType
<1>5. c.dent = k.dent /\ c.nlookup = [k.nlookup EXCEPT ![i] = 0]
      /\ c.mode = [k.mode EXCEPT ![i] = "none"]
      /\ c = [dent |-> c.dent, nlookup |-> c.nlookup, mode |-> c.mode]
    BY <1>4
<1>6. KernelType(c)
    BY <1>3, <1>5 DEF KernelType
<1>7. /\ c.nlookup[i] = 0
      /\ \A j \in NodeIds : j # i => c.nlookup[j] = k.nlookup[j] /\ c.mode[j] = k.mode[j]
    BY <1>3, <1>5 DEF KernelType
<1>8. k.nlookup[i] \in Nat \ {0} /\ forgets[i] \in Seq(Nat \ {0}) /\ forgets[i] \in Seq(Nat)
    BY <1>1, <1>3 DEF KernelType, ForgetsType
<1>9. ForgetsType(w)
    BY <1>2, <1>3, <1>8 DEF ForgetsType
<1>10. KernelHolds(c, task, rel)
    <2>1. \A x \in c.dent : Known(c, x.id) /\ Known(c, x.dir)
        <3>1. ASSUME NEW x \in k.dent
              PROVE  Known(c, x.id) /\ Known(c, x.dir)
            <4>1. x.id \in NodeIds /\ x.dir \in NodeIds
                BY <1>3 DEF KernelType, DentRec
            <4>. QED  BY <1>1, <1>3, <1>7, <4>1 DEF KernelHolds, Known
        <3>. QED  BY <1>5, <3>1
    <2>2. ASSUME NEW t \in Tasks, NEW j \in NodeIds, HeldBy(task[t], rel[t], j)
          PROVE  Known(c, j)
        <3>1. j # i
            BY <1>1, <2>2 DEF Held, Holds, HeldBy
        <3>. QED  BY <1>3, <1>7, <2>2, <3>1 DEF KernelHolds, Known
    <2>. QED  BY <2>1, <2>2 DEF KernelHolds
<1>11. ModesMove(k, c, disk, f)
    BY <1>1, <1>7 DEF ModesMove, Known
<1>12. Balanced(f, c, task, rel, w)
    <2>1. ASSUME NEW j \in NodeIds, j # FUSE_ROOT_ID
          PROVE  Lookups(f, j) = c.nlookup[j] + Sum(w[j]) + LooksOut(task, rel, j)
        <3>1. Lookups(f, j) = k.nlookup[j] + Sum(forgets[j]) + LooksOut(task, rel, j)
            BY <1>3, <2>1 DEF Balanced
        <3>2. k.nlookup[j] \in Nat /\ Sum(forgets[j]) \in Nat /\ LooksOut(task, rel, j) \in Nat
            BY AliveFacts, LiveNumbers
        <3>3. CASE j # i
            BY <1>2, <1>3, <1>7, <3>1, <3>3 DEF ForgetsType
        <3>4. CASE j = i
            <4>1. PICK n : n = k.nlookup[i]
                OBVIOUS
            <4>2. w[i] = Append(forgets[i], n)
                BY <1>2, <1>3, <4>1 DEF ForgetsType
            <4>3. Sum(w[i]) = Sum(forgets[i]) + n
                BY <1>8, <4>1, <4>2, SumAppend
            <4>. QED  BY <1>7, <3>1, <3>2, <3>4, <4>1, <4>3
        <3>. QED  BY <3>3, <3>4
    <2>. QED  BY <2>1 DEF Balanced
<1>13. k' = c /\ forgets' = w
    BY <1>1, <1>2
<1>. QED  BY <1>1, <1>6, <1>9, <1>10, <1>11, <1>12, <1>13, CacheStep

(***************************************************************************)
(* Forgets and releases                                                    *)
(***************************************************************************)
LEMMA TakenOut ==
    ASSUME NEW l \in Nat, NEW a \in Nat, NEW n \in Nat, NEW s \in Nat, NEW o \in Nat,
           l = a + (n + s) + o
    PROVE  l - n = a + s + o
OBVIOUS

(* A forget of a node is taken from its counts; when that is the end of an *)
(* open node, an open that was refused is yet to be taken back.            *)
LEMMA ForgetBalance ==
    ASSUME Alive, TreeAssumption, NodeAssumption, NEW i \in NodeIds, i # FUSE_ROOT_ID,
           forgets[i] # <<>>, NEW n, n = Head(forgets[i]), NEW g, g = forget_node(f, i, n)
    PROVE  /\ n \in Nat /\ n > 0 /\ i \in DOMAIN f.nodes /\ f.nodes[i].nlookup >= n
           /\ Sound(g) /\ Forgotten(f, g, i, n)
           /\ Sum(Tail(forgets[i])) \in Nat
           /\ Lookups(g, i) = k.nlookup[i] + Sum(Tail(forgets[i])) + LooksOut(task, rel, i)
           /\ i \notin DOMAIN g.nodes /\ Opens(f, i) # 0 => Cancelled
<1>1. /\ Live(disk, f, k, task, rel, forgets) /\ TypesOK(disk, f, k, task, rel, forgets)
      /\ Balanced(f, k, task, rel, forgets)
      /\ ForgetsType(forgets) /\ Sound(f)
    BY AliveFacts DEF Alive
<1>2. /\ Lookups(f, i) \in Nat /\ k.nlookup[i] \in Nat /\ LooksOut(task, rel, i) \in Nat
    BY <1>1, LiveNumbers
<1>3. n \in Nat \ {0} /\ Tail(forgets[i]) \in Seq(Nat) /\ forgets[i] \in Seq(Nat)
    BY <1>1 DEF ForgetsType
<1>4. Sum(Tail(forgets[i])) \in Nat /\ Sum(forgets[i]) = n + Sum(Tail(forgets[i]))
    BY <1>3, SumType, SumTail
<1>5. PICK l, a, s, o : /\ l = Lookups(f, i) /\ a = k.nlookup[i]
                        /\ s = Sum(Tail(forgets[i])) /\ o = LooksOut(task, rel, i)
    OBVIOUS
<1>6. l \in Nat /\ a \in Nat /\ s \in Nat /\ o \in Nat /\ n \in Nat /\ n > 0
    BY <1>2, <1>3, <1>4, <1>5
<1>7. l = a + (n + s) + o
    BY <1>1, <1>4, <1>5 DEF Balanced
<1>8. l >= n /\ l - n = a + s + o /\ (l - n = 0 => a = 0 /\ o = 0)
    <2>1. l >= n
        BY <1>6, <1>7
    <2>2. l - n = a + s + o
        BY <1>6, <1>7, TakenOut
    <2>3. l - n = 0 => a = 0 /\ o = 0
        BY <1>6, <2>2
    <2>. QED  BY <2>1, <2>2, <2>3
<1>9. i \in DOMAIN f.nodes /\ f.nodes[i].nlookup = l
    BY <1>5, <1>6, <1>8 DEF Lookups
<1>10. Sound(g) /\ Forgotten(f, g, i, n)
    BY <1>1, <1>6, <1>8, <1>9, ForgetSound
<1>11. Lookups(g, i) = l - n
    BY <1>5, <1>10 DEF Forgotten
<1>12. ASSUME i \notin DOMAIN g.nodes, Opens(f, i) # 0
       PROVE  Cancelled
    <2>1. l - n = 0
        BY <1>11, <1>12 DEF Lookups
    <2>2. k.nlookup[i] = 0 /\ LooksOut(task, rel, i) = 0
        BY <1>5, <1>8, <2>1
    <2>3. ~Known(k, i)
        BY <2>2 DEF Known
    <2>4. ASSUME NEW t \in Tasks  PROVE ~(LookNum(task[t], rel[t], i) > 0)
        <3>1. \A u \in Tasks \ {t} : task[u] = task[u] /\ rel[u] = rel[u]
            OBVIOUS
        <3>2. Share(LooksOut(task, rel, i), LooksOut(task, rel, i),
                    LookNum(task[t], rel[t], i), LookNum(task[t], rel[t], i))
            BY <3>1, LooksStep
        <3>. QED  BY <2>2, <3>2 DEF Share
    <2>5. \E t \in Tasks : rel[t].pc = "cancel" /\ ~rel[t].forget /\ rel[t].ino = i
        BY <1>1, <1>12, <2>3, <2>4, Unheld
    <2>. QED  BY <2>5 DEF Cancelled
<1>. QED  BY <1>4, <1>5, <1>6, <1>8, <1>9, <1>10, <1>11, <1>12

(* The tree stays a tree when a node is forgotten, and what is open stays. *)
LEMMA ForgottenTree ==
    ASSUME Alive, TreeAssumption, NEW i \in NodeIds, i # FUSE_ROOT_ID, NEW n, NEW g,
           Sound(g), Forgotten(f, g, i, n), i \in DOMAIN g.nodes \/ Opens(f, i) = 0
    PROVE  /\ ParentsAreDirs(disk, g) /\ KindsKept(disk, f, disk, g)
           /\ Lookups(g, FUSE_ROOT_ID) > 0 /\ g.abort = f.abort
           /\ \A j \in NodeIds : Opens(g, j) = Opens(f, j)
<1>1. Tree(disk, f) /\ RootKept(disk, f)
    BY AliveFacts, LiveTree DEF Alive
<1>2. \A j \in DOMAIN f.nodes : f.nodes[j].name # NULL => f.nodes[j].parent \in DOMAIN f.nodes
    BY <1>1, TreeFacts DEF NamesSound
<1>3. \A j \in DOMAIN g.nodes : g.nodes[j].name # NULL => g.nodes[j].parent \in DOMAIN g.nodes
    BY DEF NamesSound, Sound, Good
<1>4. DOMAIN g.nodes \subseteq DOMAIN f.nodes
    BY DEF Forgotten
<1>5. KindsKept(disk, f, disk, g)
    BY DEF KindsKept, Kind, Forgotten
<1>6. ParentsAreDirs(disk, g)
    <2>. SUFFICES ASSUME NEW j \in DOMAIN g.nodes, g.nodes[j].name # NULL
                  PROVE  Kind(disk, g, g.nodes[j].parent) = "dir"
        BY DEF ParentsAreDirs
    <2>1. PICK p : p = g.nodes[j].parent
        OBVIOUS
    <2>2. f.nodes[j].name # NULL /\ f.nodes[j].parent = p /\ j \in DOMAIN f.nodes
        BY <1>4, <2>1 DEF Forgotten
    <2>3. p \in DOMAIN g.nodes /\ p \in DOMAIN f.nodes
        BY <1>3, <1>4, <2>1
    <2>4. Kind(disk, f, p) = "dir"
        BY <1>1, <2>2 DEF Tree, ParentsAreDirs
    <2>. QED  BY <1>5, <2>1, <2>3, <2>4 DEF KindsKept
<1>7. Lookups(g, FUSE_ROOT_ID) > 0
    <2>1. FUSE_ROOT_ID \in NodeIds
        BY <1>1, TreeFacts DEF RootKept, Lookups
    <2>2. Lookups(g, FUSE_ROOT_ID) = Lookups(f, FUSE_ROOT_ID)
        BY <2>1 DEF Forgotten
    <2>. QED  BY <1>1, <2>2 DEF RootKept
<1>8. ASSUME NEW j \in NodeIds
      PROVE  Opens(g, j) = Opens(f, j)
    <2>1. CASE j \in DOMAIN g.nodes
        BY <1>4, <2>1 DEF Opens, Forgotten
    <2>2. CASE j \notin DOMAIN f.nodes
        BY <1>4, <2>2 DEF Opens
    <2>3. CASE j \in DOMAIN f.nodes \ DOMAIN g.nodes /\ j # i
        <3>1. f.nodes[j].nlookup = 0 /\ Children(f, j) # {}
            BY <2>3 DEF Forgotten
        <3>2. Kind(disk, f, j) = "dir"
            BY <1>1, <3>1 DEF Children, Tree, ParentsAreDirs
        <3>3. Opens(f, j) = 0
            BY <1>1, <2>3, <3>1, <3>2 DEF Tree, DirsShut, Lookups
        <3>. QED  BY <2>3, <3>3 DEF Opens
    <2>4. CASE j = i /\ i \notin DOMAIN g.nodes
        BY <2>4 DEF Opens
    <2>. QED  BY <2>1, <2>2, <2>3, <2>4
<1>. QED  BY <1>5, <1>6, <1>7, <1>8 DEF Forgotten

LEMMA ForgetStep ==
    ASSUME Alive, TreeAssumption, NodeAssumption, NEW i \in NodeIds, fuse_lib_forget(i)
    PROVE  Alive' \/ (f'.abort /\ Cancelled)
<1>1. PICK n, g, w : /\ n = Head(forgets[i]) /\ g = forget_node(f, i, n)
                     /\ w = [forgets EXCEPT ![i] = Tail(@)]
    OBVIOUS
<1>2. /\ forgets[i] # <<>> /\ forgets' = w
      /\ f' = IF get_node_nocheck(f, i) /\ f.nodes[i].open_count > 0
                 /\ ~get_node_nocheck(g, i) THEN Abort(g) ELSE g
      /\ UNCHANGED <<disk, k, task, rel>>
    BY <1>1 DEF fuse_lib_forget
<1>3. /\ Live(disk, f, k, task, rel, forgets) /\ TypesOK(disk, f, k, task, rel, forgets)
      /\ KernelType(k) /\ ForgetsType(forgets) /\ KernelHolds(k, task, rel)
      /\ Balanced(f, k, task, rel, forgets) /\ OpenBalanced(f, task, rel) /\ ~f.abort
    BY AliveFacts DEF Alive
<1>4. ForgetsType(w) /\ w[i] = Tail(forgets[i]) /\ \A j \in NodeIds : j # i => w[j] = forgets[j]
    BY <1>1, <1>2, <1>3 DEF ForgetsType
<1>5. ModesMove(k, k, disk, f)
    BY DEF ModesMove
<1>6. CASE i = FUSE_ROOT_ID
    <2>1. g = f
        BY <1>1, <1>6 DEF forget_node
    <2>2. f' = f
        BY <1>2, <2>1
    <2>3. Balanced(f, k, task, rel, w)
        BY <1>3, <1>4, <1>6 DEF Balanced
    <2>4. /\ KernelType(k') /\ ForgetsType(forgets') /\ KernelHolds(k', task, rel)
          /\ Balanced(f, k', task, rel, forgets') /\ ModesMove(k, k', disk, f)
          /\ UNCHANGED <<disk, f, task, rel>>
        BY <1>2, <1>3, <1>4, <1>5, <2>2, <2>3
    <2>. QED  BY <2>4, CacheStep
<1>7. CASE i # FUSE_ROOT_ID
    <2>1. /\ i \in DOMAIN f.nodes /\ Sound(g) /\ Forgotten(f, g, i, n)
          /\ Lookups(g, i) = k.nlookup[i] + Sum(Tail(forgets[i])) + LooksOut(task, rel, i)
          /\ i \notin DOMAIN g.nodes /\ Opens(f, i) # 0 => Cancelled
        BY <1>1, <1>2, <1>7, ForgetBalance
    <2>2. f.nodes[i].open_count \in Nat /\ Opens(f, i) = f.nodes[i].open_count
        <3>1. Tree(disk, f)
            BY <1>3, LiveTree
        <3>. QED  BY <2>1, <3>1, TreeFacts
    <2>3. CASE i \notin DOMAIN g.nodes /\ Opens(f, i) # 0
        <3>1. f' = Abort(g)
            BY <1>2, <2>1, <2>2, <2>3 DEF get_node_nocheck
        <3>2. TableType(g)
            BY <2>1 DEF Sound, Good
        <3>3. f'.abort
            BY <3>1, <3>2 DEF Abort, TableType
        <3>. QED  BY <2>1, <2>3, <3>3
    <2>4. CASE i \in DOMAIN g.nodes \/ Opens(f, i) = 0
        <3>1. f' = g
            BY <1>2, <2>2, <2>4 DEF get_node_nocheck
        <3>2. /\ ParentsAreDirs(disk, g) /\ KindsKept(disk, f, disk, g)
              /\ Lookups(g, FUSE_ROOT_ID) > 0 /\ g.abort = f.abort
              /\ \A j \in NodeIds : Opens(g, j) = Opens(f, j)
            BY <1>7, <2>1, <2>4, ForgottenTree
        <3>3. TypesOK(disk, g, k, task, rel, w)
            BY <1>3, <1>4, <2>1 DEF TypesOK
        <3>4. Balanced(g, k, task, rel, w)
            <4>1. ASSUME NEW j \in NodeIds, j # FUSE_ROOT_ID
                  PROVE  Lookups(g, j) = k.nlookup[j] + Sum(w[j]) + LooksOut(task, rel, j)
                <5>1. CASE j = i
                    BY <1>4, <2>1, <5>1
                <5>2. CASE j # i
                    BY <1>3, <1>4, <2>1, <4>1, <5>2 DEF Balanced, Forgotten
                <5>. QED  BY <5>1, <5>2
            <4>. QED  BY <4>1 DEF Balanced
        <3>5. OpenBalanced(g, task, rel)
            BY <1>3, <3>2 DEF OpenBalanced
        <3>6. ModesMove(k, k, disk, g)
            BY DEF ModesMove
        <3>7. Live(disk, g, k, task, rel, w)
            BY <1>3, <3>2, <3>3, <3>4, <3>5, <3>6, WholeStep
        <3>. QED  BY <1>2, <1>3, <3>1, <3>2, <3>7 DEF Alive
    <2>. QED  BY <2>3, <2>4
<1>. QED  BY <1>6, <1>7

\* The disk e and the table h have what the disk and the table had.
SameTree(e, h) ==
    /\ DiskType(e) /\ Sound(h) /\ ParentsAreDirs(e, h) /\ KindsKept(disk, f, e, h)
    /\ h.abort = f.abort /\ DOMAIN h.nodes = DOMAIN f.nodes
    /\ \A j \in NodeIds : Lookups(h, j) = Lookups(f, j)

\* A release q ends, or goes on to unlink a hidden file; it takes its open
\* back, and at its end its lookup.
LeavesWith(q, q2) ==
    /\ RelShape(q2)
    /\ \/ q2 = NoRel
       \/ /\ q2.pc = "unlink" /\ q2.ino = q.ino
          /\ (q2.kernel <=> q.kernel) /\ (q2.forget <=> q.forget)
ClosedBy(h, q) == \A j \in NodeIds : Opens(h, j) + CloseOf(q, j) = Opens(f, j)
GivesBack(w, q, w2, q2) ==
    \A j \in NodeIds : Sum(w2[j]) + BackOf(q2, j) = Sum(w[j]) + BackOf(q, j)

LEMMA GivenLooks ==
    ASSUME NEW l \in Nat, NEW n \in Nat, NEW s \in Nat, NEW s2 \in Nat, NEW m \in Nat,
           NEW b \in Nat, NEW b2 \in Nat, s2 + b2 = s + b
    PROVE  l + n + s + (m + b) = l + n + s2 + (m + b2)
OBVIOUS

LEMMA ClosedOpens ==
    ASSUME NEW l \in Nat, NEW l2 \in Nat, NEW a \in Nat, NEW m \in Nat, NEW b \in Nat, l2 + b = l
    PROVE  l2 + (a + m + b) = l + (a + m + 0)
OBVIOUS

LEMMA LeavesFacts ==
    ASSUME NEW q, RelShape(q), q.pc # "none", NEW d, NEW g, RelOK(d, g, q), NEW q2, LeavesWith(q, q2)
    PROVE  /\ q2.pc \in {"none", "unlink"} /\ RelOK(d, g, q2)
           /\ q2.kernel => q.kernel /\ q2.ino = q.ino
           /\ \A j : CloseOf(q2, j) = 0
<1>1. CASE q2 = NoRel
    <2>1. q2.pc = "none" /\ ~q2.kernel
        BY <1>1 DEF NoRel
    <2>. QED  BY <1>1, <2>1 DEF RelOK, CloseOf
<1>2. CASE /\ q2.pc = "unlink" /\ q2.ino = q.ino
           /\ (q2.kernel <=> q.kernel) /\ (q2.forget <=> q.forget)
    BY <1>2 DEF RelOK, CloseOf
<1>. QED  BY <1>1, <1>2 DEF LeavesWith

LEMMA ReleaseStep ==
    ASSUME Alive, TreeAssumption, NEW t \in Tasks, NEW q, q = rel[t], q.pc # "none",
           k' = k, task' = task, SameTree(disk', f'), NEW q2, LeavesWith(q, q2),
           rel' = [rel EXCEPT ![t] = q2], ForgetsType(forgets'),
           GivesBack(forgets, q, forgets', q2), ClosedBy(f', q)
    PROVE  Alive'
<1>1. /\ TypesOK(disk, f, k, task, rel, forgets) /\ Live(disk, f, k, task, rel, forgets)
      /\ KernelType(k) /\ KernelHolds(k, task, rel) /\ ~f.abort /\ RootKept(disk, f)
      /\ Balanced(f, k, task, rel, forgets) /\ OpenBalanced(f, task, rel)
    BY AliveFacts DEF Alive
<1>2. PICK e, h, r : e = disk' /\ h = f' /\ r = task[t]
    OBVIOUS
<1>3. /\ DiskType(e) /\ Sound(h) /\ ParentsAreDirs(e, h) /\ KindsKept(disk, f, e, h)
      /\ h.abort = f.abort /\ DOMAIN h.nodes = DOMAIN f.nodes
      /\ \A j \in NodeIds : Lookups(h, j) = Lookups(f, j)
    BY <1>2 DEF SameTree
<1>4. /\ r \in TaskRec /\ RelShape(q) /\ TaskOK(disk, f, r, q) /\ RelOK(disk, f, q)
    BY <1>2, AliveFacts
<1>5. TaskOK(e, h, r, q) /\ RelOK(e, h, q)
    <2>1. \A i \in NodeIds : SpeaksOf(r, q, i) => i \in DOMAIN f.nodes /\ i \in DOMAIN h.nodes
        BY <1>1, <1>2, <1>3, SpokenInTable
    <2>. QED  BY <1>3, <1>4, <2>1, TaskKindsKept
<1>6. /\ q2.pc \in {"none", "unlink"} /\ RelOK(e, h, q2)
      /\ q2.kernel => q.kernel /\ q2.ino = q.ino
      /\ \A j : CloseOf(q2, j) = 0
    BY <1>4, <1>5, LeavesFacts
<1>7. TaskOK(e, h, r, q2)
    BY <1>5 DEF TaskOK
<1>8. HeldKnown(k, r, q2)
    <2>1. \A i \in NodeIds : HeldBy(r, q2, i) => HeldBy(r, q, i)
        BY <1>6 DEF HeldBy
    <2>. QED  BY <1>1, <1>2, <2>1 DEF HeldKnown, KernelHolds
<1>9. /\ task \in [Tasks -> TaskRec] /\ rel = [u \in Tasks |-> rel[u]]
      /\ \A u \in Tasks : RelShape(rel[u])
    BY <1>1 DEF TypesOK
<1>10. OthersStay(t, task, rel, task, rel') /\ rel'[t] = q2
    BY <1>9 DEF OthersStay
<1>11. rel' = [u \in Tasks |-> rel'[u]] /\ \A u \in Tasks : RelShape(rel'[u])
    BY <1>9 DEF LeavesWith
<1>12. TypesOK(e, h, k, task, rel', forgets')
    BY <1>1, <1>3, <1>9, <1>11 DEF TypesOK
<1>13. ASSUME NEW j \in NodeIds
       PROVE  /\ Lookups(h, j) + k.nlookup[j] + Sum(forgets[j]) + LookNum(r, q, j)
                     = Lookups(f, j) + k.nlookup[j] + Sum(forgets'[j]) + LookNum(r, q2, j)
              /\ Opens(h, j) + OpenNum(r, q, j) = Opens(f, j) + OpenNum(r, q2, j)
    <2>1. PICK l, n, s, s2, m, b, b2 :
              /\ l = Lookups(f, j) /\ n = k.nlookup[j] /\ s = Sum(forgets[j])
              /\ s2 = Sum(forgets'[j]) /\ m = LookOf(r, j) /\ b = BackOf(q, j)
              /\ b2 = BackOf(q2, j)
        OBVIOUS
    <2>2. PICK o, o2, a, p, c : /\ o = Opens(f, j) /\ o2 = Opens(h, j) /\ a = FileOf(r, j)
                                /\ p = OpenOf(r, j) /\ c = CloseOf(q, j)
        OBVIOUS
    <2>3. m \in Nat /\ b \in Nat /\ b2 \in Nat /\ a \in Nat /\ p \in Nat /\ c \in Nat
        BY <2>1, <2>2 DEF LookOf, BackOf, FileOf, OpenOf, CloseOf
    <2>4. l \in Nat /\ o \in Nat /\ n \in Nat /\ s \in Nat
        BY <1>1, <2>1, <2>2, LiveNumbers
    <2>5. s2 \in Nat
        <3>1. forgets'[j] \in Seq(Nat)
            BY DEF ForgetsType
        <3>. QED  BY <2>1, <3>1, SumType
    <2>6. o2 \in Nat
        <3>1. TableType(h)
            BY <1>3 DEF Sound, Good
        <3>. QED  BY <2>2, <3>1, NodeFacts DEF Opens
    <2>7. s2 + b2 = s + b
        BY <2>1 DEF GivesBack
    <2>8. o2 + c = o
        BY <1>2, <2>2 DEF ClosedBy
    <2>9. l + n + s + (m + b) = l + n + s2 + (m + b2)
        BY <2>3, <2>4, <2>5, <2>7, GivenLooks
    <2>10. o2 + (a + p + c) = o + (a + p + 0)
        BY <2>3, <2>4, <2>6, <2>8, ClosedOpens
    <2>11. LookNum(r, q, j) = m + b /\ LookNum(r, q2, j) = m + b2
        BY <2>1 DEF LookNum
    <2>12. OpenNum(r, q, j) = a + p + c /\ OpenNum(r, q2, j) = a + p + 0
        BY <1>6, <2>2 DEF OpenNum
    <2>13. Lookups(h, j) = l
        BY <1>3, <2>1
    <2>14. Lookups(h, j) + k.nlookup[j] + Sum(forgets[j]) + LookNum(r, q, j)
               = Lookups(f, j) + k.nlookup[j] + Sum(forgets'[j]) + LookNum(r, q2, j)
        BY <2>1, <2>9, <2>11, <2>13
    <2>15. Opens(h, j) + OpenNum(r, q, j) = Opens(f, j) + OpenNum(r, q2, j)
        BY <2>2, <2>10, <2>12
    <2>. QED  BY <2>14, <2>15
<1>14. /\ LooksMove(f, k, forgets, task[t], rel[t], h, k, forgets', task[t], rel'[t])
       /\ OpensMove(f, task[t], rel[t], h, task[t], rel'[t])
    BY <1>2, <1>10, <1>13 DEF LooksMove, OpensMove
<1>15. InodesKept(k, k) /\ ModesMove(k, k, e, h) /\ DentsKnown(k)
    BY <1>1 DEF InodesKept, ModesMove, DentsKnown, KernelHolds
<1>16. Lookups(h, FUSE_ROOT_ID) > 0
    <2>1. Tree(disk, f)
        BY <1>1, LiveTree
    <2>2. FUSE_ROOT_ID \in NodeIds
        BY <1>1, <2>1, TreeFacts DEF RootKept, Lookups
    <2>. QED  BY <1>1, <1>3, <2>2 DEF RootKept
<1>17. HeldKnown(k, task[t], rel'[t]) /\ TaskOK(e, h, task[t], rel'[t]) /\ RelOK(e, h, rel'[t])
    BY <1>2, <1>6, <1>7, <1>8, <1>10
<1>18. Live(e, h, k, task, rel', forgets')
    BY <1>1, <1>3, <1>10, <1>12, <1>14, <1>15, <1>16, <1>17, TaskStep
<1>. QED  BY <1>1, <1>2, <1>3, <1>18 DEF Alive

\* The table h is g, with one open of i less.
OneLess(d, g, i, h) ==
    /\ Sound(h) /\ ParentsAreDirs(d, h) /\ KindsKept(d, g, d, h)
    /\ h.abort = g.abort /\ DOMAIN h.nodes = DOMAIN g.nodes
    /\ \A j \in NodeIds : Lookups(h, j) = Lookups(g, j)
    /\ \A j \in NodeIds : Opens(h, j) + Same(i, j) = Opens(g, j)

(* One open of a node is taken back.                                       *)
LEMMA ClosedNode ==
    ASSUME NEW d, NEW g, Tree(d, g), NEW i \in DOMAIN g.nodes, NEW m \in Nat,
           m + 1 = g.nodes[i].open_count, NEW b \in BOOLEAN,
           NEW h, h = [g EXCEPT !.nodes[i].open_count = m, !.nodes[i].is_hidden = b]
    PROVE  OneLess(d, g, i, h)
<1>1. /\ TableType(g) /\ Good(g, NoDebt, 0) /\ NamesSound(g) /\ i \in NodeIds
      /\ DOMAIN g.nodes \subseteq NodeIds
    BY TreeFacts
<1>2. PICK n : n = g.nodes[i]
    OBVIOUS
<1>3. n \in NodeRec /\ n.open_count = m + 1
    BY <1>1, <1>2, NodeFacts
<1>4. PICK s : s = [n EXCEPT !.open_count = m]
    OBVIOUS
<1>5. PICK r : r = [s EXCEPT !.is_hidden = b]
    OBVIOUS
<1>6. /\ s \in NodeRec /\ s.refctr = n.refctr /\ s.nlookup = n.nlookup /\ s.name = n.name
      /\ s.parent = n.parent /\ s.open_count = m /\ s.obj = n.obj
    BY <1>3, <1>4 DEF NodeRec
<1>7. /\ r \in NodeRec /\ r.refctr = n.refctr /\ r.nlookup = n.nlookup /\ r.name = n.name
      /\ r.parent = n.parent /\ r.open_count = m /\ r.obj = n.obj
    <2>1. r \in NodeRec
        BY <1>5, <1>6, SetField
    <2>. QED  BY <1>5, <1>6, <2>1 DEF NodeRec
<1>16. PICK c : c = [g EXCEPT !.nodes[i] = r]
    OBVIOUS
<1>8. h = c
    <2>1. PICK e : e = [g EXCEPT !.nodes[i] = s]
        OBVIOUS
    <2>2. e = [g EXCEPT !.nodes[i].open_count = m]
        BY <1>1, <1>2, <1>4, <2>1 DEF TableType
    <2>3. /\ TableType(e) /\ DOMAIN e.nodes = DOMAIN g.nodes /\ e.nodes[i] = s
        BY <1>1, <1>6, <2>1, SetNode
    <2>4. h = [e EXCEPT !.nodes[i].is_hidden = b]
        BY <2>2
    <2>5. h = [e EXCEPT !.nodes[i] = r]
        BY <1>5, <2>3, <2>4 DEF TableType
    <2>6. [e EXCEPT !.nodes[i] = r] = [g EXCEPT !.nodes[i] = r]
        BY <1>1, <2>1 DEF TableType
    <2>. QED  BY <1>16, <2>5, <2>6
<1>9. Good(h, NoDebt, 0)
    <2>1. Good(c, NoDebt, 0)
        BY <1>1, <1>2, <1>7, <1>16, OtherKeeps
    <2>. QED  BY <1>8, <2>1
<1>10. /\ h.abort = g.abort /\ DOMAIN h.nodes = DOMAIN g.nodes /\ h.nodes[i] = r
       /\ \A j \in DOMAIN g.nodes : j # i => h.nodes[j] = g.nodes[j]
    <2>1. /\ c.abort = g.abort /\ DOMAIN c.nodes = DOMAIN g.nodes /\ c.nodes[i] = r
          /\ \A j \in DOMAIN g.nodes : j # i => c.nodes[j] = g.nodes[j]
        BY <1>1, <1>7, <1>16, SetNode
    <2>. QED  BY <1>8, <2>1
<1>11. \A j \in DOMAIN g.nodes : /\ h.nodes[j].name = g.nodes[j].name
                                 /\ h.nodes[j].parent = g.nodes[j].parent
                                 /\ h.nodes[j].nlookup = g.nodes[j].nlookup
                                 /\ h.nodes[j].obj = g.nodes[j].obj
    BY <1>2, <1>7, <1>10
<1>12. \A j \in NodeIds : Lookups(h, j) = Lookups(g, j)
    BY <1>10, <1>11 DEF Lookups
<1>13. ASSUME NEW j \in NodeIds  PROVE Opens(h, j) + Same(i, j) = Opens(g, j)
    <2>1. Opens(g, j) \in Nat
        BY TreeFacts
    <2>2. CASE j = i
        <3>1. Opens(h, j) = m /\ Opens(g, j) = m + 1 /\ Same(i, j) = 1
            BY <1>2, <1>3, <1>7, <1>10, <2>2 DEF Opens, Same
        <3>. QED  BY <3>1
    <2>3. CASE j # i
        <3>1. Opens(h, j) = Opens(g, j) /\ Same(i, j) = 0
            BY <1>10, <2>3 DEF Opens, Same
        <3>. QED  BY <2>1, <3>1
    <2>. QED  BY <2>2, <2>3
<1>14. KindsKept(d, g, d, h)
    BY <1>11 DEF KindsKept, Kind
<1>15. ParentsAreDirs(d, h)
    <2>1. \A j \in DOMAIN g.nodes : g.nodes[j].name # NULL => g.nodes[j].parent \in DOMAIN g.nodes
        BY <1>1 DEF NamesSound
    <2>. QED  BY <1>10, <1>11, <2>1 DEF Tree, ParentsAreDirs, Kind
<1>. QED  BY <1>9, <1>10, <1>12, <1>13, <1>14, <1>15 DEF Sound, OneLess

(* The end of a release.                                                   *)
LEMMA ReleasedFacts ==
    ASSUME Alive, TreeAssumption, NodeAssumption, NEW t \in Tasks, NEW q, q = rel[t],
           q.pc # "none", Released(t)
    PROVE  /\ rel' = [rel EXCEPT ![t] = NoRel] /\ LeavesWith(q, NoRel)
           /\ ForgetsType(forgets') /\ GivesBack(forgets, q, forgets', NoRel)
<1>1. /\ rel' = [rel EXCEPT ![t] = NoRel]
      /\ IF q.forget THEN Forget(q.ino) ELSE forgets' = forgets
    BY DEF Released
<1>2. LeavesWith(q, NoRel)
    BY DEF LeavesWith, RelShape, NoRel, NodeAssumption
<1>3. RelShape(q) /\ RelOK(disk, f, q) /\ ForgetsType(forgets)
    BY AliveFacts
<1>4. PICK i : i = q.ino
    OBVIOUS
<1>5. i \in NodeIds
    BY <1>3, <1>4 DEF RelShape, RelOK, NodeIds
<1>6. \A j \in NodeIds : BackOf(NoRel, j) = 0
    BY DEF BackOf, NoRel
<1>7. \A j \in NodeIds : Sum(forgets[j]) \in Nat
    BY AliveFacts, LiveNumbers
<1>8. CASE q.forget
    <2>1. PICK w2 : w2 = [forgets EXCEPT ![i] = Append(@, 1)]
        OBVIOUS
    <2>2. forgets' = w2
        BY <1>1, <1>4, <1>8, <2>1 DEF Forget
    <2>3. ForgetsAre(forgets, i, w2)
        BY <1>3, <1>5, <2>1, ForgetAdds
    <2>4. \A j \in NodeIds : BackOf(q, j) = Same(i, j)
        BY <1>4, <1>8 DEF BackOf, Same
    <2>5. \A j \in NodeIds : Sum(w2[j]) + 0 = Sum(forgets[j]) + Same(i, j)
        BY <1>7, <2>3 DEF ForgetsAre, Same
    <2>. QED  BY <1>1, <1>2, <1>6, <2>2, <2>3, <2>4, <2>5 DEF GivesBack, ForgetsAre
<1>9. CASE ~q.forget
    <2>1. \A j \in NodeIds : BackOf(q, j) = 0
        BY <1>9 DEF BackOf
    <2>. QED  BY <1>1, <1>2, <1>3, <1>6, <1>7, <1>9, <2>1 DEF GivesBack
<1>. QED  BY <1>8, <1>9

LEMMA UnlinkHiddenStep ==
    ASSUME Alive, TreeAssumption, NodeAssumption, NEW t \in Tasks, UnlinkHidden(t)
    PROVE  Alive'
<1>1. PICK q : q = rel[t]
    OBVIOUS
<1>2. /\ q.pc = "unlink" /\ Released(t) /\ UNCHANGED <<f, k, task>>
      /\ disk' = IF At(disk, q.path) # 0 THEN fs_remove(disk, q.path) ELSE disk
    BY <1>1 DEF UnlinkHidden
<1>3. Tree(disk, f)
    BY LiveTree DEF Alive
<1>4. PICK e : e = disk'
    OBVIOUS
<1>5. DiskType(e) /\ e.kind = disk.kind
    <2>1. CASE e = disk
        BY <1>3, <2>1 DEF Tree
    <2>2. CASE e = fs_remove(disk, q.path)
        BY <1>3, <2>2, UnlinkKeeps DEF Tree
    <2>. QED  BY <1>2, <1>4, <2>1, <2>2
<1>6. SameTree(e, f)
    <2>1. \A j \in DOMAIN f.nodes : Kind(e, f, j) = Kind(disk, f, j)
        BY <1>5 DEF Kind
    <2>2. Effect(disk, f, e, f, 0, 0)
        BY <1>3, <1>5, <2>1, DiskEffect
    <2>. QED  BY <2>1, <2>2 DEF SameTree, Effect, Tree, KindsKept
<1>7. ClosedBy(f, q)
    <2>1. \A j \in NodeIds : Opens(f, j) \in Nat /\ CloseOf(q, j) = 0
        BY <1>2, <1>3, TreeFacts DEF CloseOf
    <2>. QED  BY <2>1 DEF ClosedBy
<1>8. /\ rel' = [rel EXCEPT ![t] = NoRel] /\ LeavesWith(q, NoRel)
      /\ ForgetsType(forgets') /\ GivesBack(forgets, q, forgets', NoRel)
    BY <1>1, <1>2, ReleasedFacts
<1>9. SameTree(disk', f') /\ ClosedBy(f', q) /\ k' = k /\ task' = task /\ q.pc # "none"
    BY <1>2, <1>4, <1>6, <1>7
<1>. QED  BY <1>1, <1>8, <1>9, ReleaseStep

LEMMA DoReleaseStep ==
    ASSUME Alive, TreeAssumption, NodeAssumption, NEW t \in Tasks, fuse_do_release(t)
    PROVE  Alive'
<1>1. PICK q, i, path, b, m :
          /\ q = rel[t] /\ i = rel[t].ino
          /\ path = IF rel[t].pc = "cancel" THEN rel[t].path ELSE get_path(f, rel[t].ino).path
          /\ b = (f.nodes[i].is_hidden /\ ~(f.nodes[i].is_hidden /\ f.nodes[i].open_count = 1))
          /\ m = f.nodes[i].open_count - 1
    OBVIOUS
<1>2. PICK q2 : q2 = [q EXCEPT !.pc = "unlink", !.path = path]
    OBVIOUS
<1>3. /\ q.pc \in {"sent", "cancel"} /\ UNCHANGED <<disk, k, task>>
      /\ IF ~get_node_nocheck(f, i) \/ f.nodes[i].open_count = 0
         THEN f' = Abort(f)
         ELSE /\ f' = [f EXCEPT !.nodes[i].open_count = @ - 1,
                                !.nodes[i].is_hidden =
                                    @ /\ ~(f.nodes[i].is_hidden /\ f.nodes[i].open_count = 1)]
              /\ \/ /\ rel' = [rel EXCEPT ![t].pc = "unlink", ![t].path = path]
                    /\ UNCHANGED forgets
                 \/ Released(t)
    BY <1>1 DEF fuse_do_release
<1>4. Tree(disk, f)
    BY LiveTree DEF Alive
<1>5. /\ TypesOK(disk, f, k, task, rel, forgets) /\ RelShape(q) /\ RelOK(disk, f, q)
      /\ rel = [u \in Tasks |-> rel[u]] /\ ForgetsType(forgets)
    BY <1>1, AliveFacts DEF TypesOK
<1>6. i \in NodeIds
    BY <1>1, <1>3, <1>5 DEF RelShape, RelOK, NodeIds
<1>7. i \in DOMAIN f.nodes /\ Opens(f, i) > 0
    <2>1. OpenNum(task[t], rel[t], i) > 0
        <3>1. CloseOf(q, i) = 1 /\ FileOf(task[t], i) \in {0, 1} /\ OpenOf(task[t], i) \in {0, 1}
            BY <1>1, <1>3 DEF CloseOf, FileOf, OpenOf
        <3>. QED  BY <1>1, <3>1 DEF OpenNum
    <2>. QED  BY <1>6, <2>1, AliveFacts, InTable
<1>8. m \in Nat /\ m + 1 = f.nodes[i].open_count
    <2>1. f.nodes[i].open_count \in Nat /\ f.nodes[i].open_count > 0
        BY <1>4, <1>7, TreeFacts
    <2>. QED  BY <1>1, <2>1
<1>9. b \in BOOLEAN
    BY <1>1, Zenon
<1>10. PICK h : h = [f EXCEPT !.nodes[i].open_count = m, !.nodes[i].is_hidden = b]
    OBVIOUS
<1>11. f' = h
    <2>1. f' = [f EXCEPT !.nodes[i].open_count = @ - 1,
                         !.nodes[i].is_hidden =
                             @ /\ ~(f.nodes[i].is_hidden /\ f.nodes[i].open_count = 1)]
        BY <1>3, <1>7, <1>8 DEF get_node_nocheck
    <2>. QED  BY <1>1, <1>10, <2>1
<1>12. /\ Sound(h) /\ ParentsAreDirs(disk, h) /\ KindsKept(disk, f, disk, h)
       /\ h.abort = f.abort /\ DOMAIN h.nodes = DOMAIN f.nodes
       /\ \A j \in NodeIds : Lookups(h, j) = Lookups(f, j)
       /\ \A j \in NodeIds : Opens(h, j) + Same(i, j) = Opens(f, j)
    <2>1. OneLess(disk, f, i, h)
        BY <1>4, <1>7, <1>8, <1>9, <1>10, ClosedNode
    <2>. QED  BY <2>1 DEF OneLess
<1>13. SameTree(disk', f')
    BY <1>3, <1>4, <1>11, <1>12 DEF SameTree, Tree
<1>14. ClosedBy(f', q)
    <2>1. \A j \in NodeIds : CloseOf(q, j) = Same(i, j)
        BY <1>1, <1>3 DEF CloseOf, Same
    <2>. QED  BY <1>11, <1>12, <2>1 DEF ClosedBy
<1>15. q.pc # "none" /\ k' = k /\ task' = task
    BY <1>3
<1>16. CASE Released(t)
    <2>1. /\ rel' = [rel EXCEPT ![t] = NoRel] /\ LeavesWith(q, NoRel)
          /\ ForgetsType(forgets') /\ GivesBack(forgets, q, forgets', NoRel)
        BY <1>1, <1>15, <1>16, ReleasedFacts
    <2>. QED  BY <1>1, <1>13, <1>14, <1>15, <2>1, ReleaseStep
<1>17. CASE rel' = [rel EXCEPT ![t].pc = "unlink", ![t].path = path] /\ UNCHANGED forgets
    <2>1. rel' = [rel EXCEPT ![t] = q2]
        BY <1>1, <1>2, <1>5, <1>17
    <2>2. /\ q2.pc = "unlink" /\ q2.ino = q.ino /\ q2.kernel = q.kernel /\ q2.forget = q.forget
          /\ q2 = [pc |-> q2.pc, ino |-> q2.ino, kernel |-> q2.kernel, forget |-> q2.forget,
                   ok |-> q2.ok, path |-> q2.path]
        BY <1>2, <1>5 DEF RelShape
    <2>3. LeavesWith(q, q2)
        BY <1>5, <2>2 DEF LeavesWith, RelShape
    <2>4. GivesBack(forgets, q, forgets', q2)
        BY <1>17, <2>2 DEF GivesBack, BackOf
    <2>5. ForgetsType(forgets')
        BY <1>5, <1>17
    <2>. QED  BY <1>1, <1>13, <1>14, <1>15, <2>1, <2>3, <2>4, <2>5, ReleaseStep
<1>. QED  BY <1>3, <1>7, <1>8, <1>16, <1>17 DEF get_node_nocheck

(***************************************************************************)
(* The specification                                                       *)
(***************************************************************************)
LEMMA NewTableSound ==
    ASSUME TreeAssumption, NodeAssumption, NEW g, g = NewTable(RootObj)
    PROVE  /\ Sound(g) /\ g.abort = FALSE
           /\ DOMAIN g.nodes = {FUSE_ROOT_ID}
           /\ g.nodes[FUSE_ROOT_ID].name = NULL /\ g.nodes[FUSE_ROOT_ID].nlookup = 1
           /\ g.nodes[FUSE_ROOT_ID].open_count = 0 /\ g.nodes[FUSE_ROOT_ID].obj = RootObj
<1>1. PICK n : n = [NewNode(RootObj) EXCEPT !.nlookup = 1]
    OBVIOUS
<1>2. n = [parent |-> 0, name |-> NULL, nlookup |-> 1, refctr |-> 1,
           open_count |-> 0, is_hidden |-> FALSE, obj |-> RootObj]
    BY <1>1 DEF NewNode
<1>3. /\ g = [nodes |-> g.nodes, hidectr |-> g.hidectr, abort |-> g.abort, lost |-> g.lost]
      /\ g.abort = FALSE /\ g.nodes = [i \in {FUSE_ROOT_ID} |-> n]
    BY <1>1 DEF NewTable
<1>4. DOMAIN g.nodes = {FUSE_ROOT_ID} /\ g.nodes[FUSE_ROOT_ID] = n
    BY <1>3
<1>5. FUSE_ROOT_ID \in NodeIds /\ RootObj \in Objs /\ FUSE_ROOT_ID # 0
    BY DEF NodeIds, NodeAssumption, FUSE_ROOT_ID, RootObj, Objs, TreeAssumption
<1>6. n \in NodeRec
    BY <1>2, <1>5 DEF NodeRec, NodeAssumption
<1>7. TableType(g)
    BY <1>3, <1>4, <1>5, <1>6 DEF TableType
<1>8. \A i : Children(g, i) = {}
    BY <1>2, <1>4 DEF Children
<1>9. RefsOwed(g, NoDebt)
    <2>1. Cardinality(Children(g, FUSE_ROOT_ID)) = 0
        BY <1>8, FS_EmptySet
    <2>2. Counts(n) = 1 /\ NoDebt[FUSE_ROOT_ID] = 0 /\ n.refctr = 1
        BY <1>2, <1>5, NoDebtType DEF Counts, One
    <2>. QED  BY <1>4, <2>1, <2>2 DEF RefsOwed
<1>10. NamesSound(g) /\ NamedCounted(g, 0)
    BY <1>2, <1>4 DEF NamesSound, NamedCounted
<1>11. Sound(g)
    BY <1>7, <1>9, <1>10, NoDebtType DEF Sound, Good
<1>. QED  BY <1>2, <1>3, <1>4, <1>11

LEMMA IdleFacts ==
    ASSUME TreeAssumption, NodeAssumption, NEW d, NEW g, Kind(d, g, FUSE_ROOT_ID) = "dir"
    PROVE  /\ Idle \in TaskRec /\ RelShape(NoRel) /\ TaskOK(d, g, Idle, NoRel) /\ RelOK(d, g, NoRel)
           /\ \A i \in NodeIds : /\ HeldBy(Idle, NoRel, i) => i = FUSE_ROOT_ID
                                 /\ i # FUSE_ROOT_ID => ~(i \in {Idle.got, Idle.file})
           /\ Idle.pc = "idle" /\ Idle.file = 0 /\ NoRel.pc = "none" /\ ~NoRel.forget
<1>1. PICK u : u = Idle
    OBVIOUS
<1>2. /\ u.pc = "idle" /\ u.op = "none" /\ u.at = FUSE_ROOT_ID /\ u.name = NULL /\ u.to = 0
      /\ u.newname = NULL /\ u.ino = 0 /\ u.file = 0 /\ u.err = "none" /\ u.got = 0
      /\ u.mode = "none"
    BY <1>1 DEF Idle
<1>3. FUSE_ROOT_ID \in NodeIds /\ 0 \in 0..MaxNode
    BY DEF NodeIds, NodeAssumption, FUSE_ROOT_ID
<1>4. Idle \in TaskRec
    BY <1>3 DEF Idle, TaskRec
<1>5. RelShape(NoRel) /\ NoRel.pc = "none" /\ ~NoRel.forget /\ ~NoRel.kernel
    BY <1>3 DEF NoRel, RelShape
<1>6. TaskOK(d, g, u, NoRel) /\ RelOK(d, g, NoRel)
    BY <1>2, <1>5 DEF TaskOK, RelOK, Looking, Moving
<1>7. \A i \in NodeIds : /\ HeldBy(u, NoRel, i) => i = FUSE_ROOT_ID
                         /\ ~(i \in {u.got, u.file})
    BY <1>2, <1>5 DEF HeldBy, NodeIds
<1>. QED  BY <1>1, <1>2, <1>4, <1>5, <1>6, <1>7

LEMMA InitAlive ==
    ASSUME TreeAssumption, NodeAssumption, Init
    PROVE  Alive
<1>1. PICK kinds, ents : /\ kinds = [o \in Objs |-> IF o = RootObj THEN "dir" ELSE "file"]
                         /\ ents = [o \in Objs |-> [n \in AllNames |-> 0]]
    OBVIOUS
<1>2. /\ disk = [kind |-> kinds, ent |-> ents] /\ f = NewTable(RootObj)
      /\ k = [dent |-> {}, nlookup |-> [i \in NodeIds |-> 0],
              mode |-> [i \in NodeIds |-> IF i = FUSE_ROOT_ID THEN "dir" ELSE "none"]]
      /\ task = [t \in Tasks |-> Idle] /\ rel = [t \in Tasks |-> NoRel]
      /\ forgets = [i \in NodeIds |-> <<>>]
    BY <1>1 DEF Init
<1>3. RootObj \in Objs /\ FUSE_ROOT_ID \in NodeIds
    BY DEF NodeIds, NodeAssumption, FUSE_ROOT_ID, RootObj, Objs, TreeAssumption
<1>4. /\ Sound(f) /\ f.abort = FALSE /\ DOMAIN f.nodes = {FUSE_ROOT_ID}
      /\ f.nodes[FUSE_ROOT_ID].name = NULL /\ f.nodes[FUSE_ROOT_ID].nlookup = 1
      /\ f.nodes[FUSE_ROOT_ID].open_count = 0 /\ f.nodes[FUSE_ROOT_ID].obj = RootObj
    BY <1>2, NewTableSound
<1>5. disk.kind = kinds /\ disk.ent = ents /\ disk = [kind |-> disk.kind, ent |-> disk.ent]
    BY <1>2
<1>6. DiskType(disk) /\ Kind(disk, f, FUSE_ROOT_ID) = "dir"
    BY <1>1, <1>3, <1>4, <1>5 DEF DiskType, Kind
<1>7. /\ k.dent = {} /\ k.nlookup = [i \in NodeIds |-> 0]
      /\ k.mode = [i \in NodeIds |-> IF i = FUSE_ROOT_ID THEN "dir" ELSE "none"]
      /\ k = [dent |-> k.dent, nlookup |-> k.nlookup, mode |-> k.mode]
    BY <1>2
<1>8. KernelType(k)
    BY <1>7 DEF KernelType
<1>9. ForgetsType(forgets)
    BY <1>2 DEF ForgetsType
<1>10. /\ Idle \in TaskRec /\ RelShape(NoRel) /\ TaskOK(disk, f, Idle, NoRel)
       /\ RelOK(disk, f, NoRel)
       /\ \A i \in NodeIds : HeldBy(Idle, NoRel, i) => i = FUSE_ROOT_ID
       /\ Idle.pc = "idle" /\ Idle.file = 0 /\ NoRel.pc = "none" /\ ~NoRel.forget
    BY <1>6, IdleFacts
<1>11. \A t \in Tasks : task[t] = Idle /\ rel[t] = NoRel
    BY <1>2
<1>12. TypesOK(disk, f, k, task, rel, forgets)
    BY <1>2, <1>4, <1>6, <1>8, <1>9, <1>10, <1>11 DEF TypesOK
<1>13. \A i \in NodeIds : Known(k, i) => i = FUSE_ROOT_ID
    BY <1>7 DEF Known
<1>14. KernelHolds(k, task, rel) /\ ModesTrue(disk, f, k)
    BY <1>4, <1>6, <1>7, <1>10, <1>11, <1>13 DEF KernelHolds, ModesTrue, Known
<1>15. ParentsAreDirs(disk, f) /\ RootKept(disk, f)
    BY <1>4, <1>6 DEF ParentsAreDirs, RootKept, Lookups
<1>16. ASSUME NEW i \in NodeIds
       PROVE  LooksOut(task, rel, i) = 0 /\ OpensOut(task, rel, i) = 0
    <2>1. i # 0
        BY DEF NodeIds
    <2>2. /\ Looked(task, i) = {} /\ Backs(rel, i) = {} /\ Files(task, i) = {}
          /\ Openers(task, i) = {} /\ Closers(rel, i) = {}
        BY <1>10, <1>11, <2>1 DEF Looked, Backs, Files, Openers, Closers
    <2>. QED  BY <2>2, FS_EmptySet DEF LooksOut, OpensOut
<1>17. Balanced(f, k, task, rel, forgets)
    <2>1. ASSUME NEW i \in NodeIds, i # FUSE_ROOT_ID
          PROVE  Lookups(f, i) = k.nlookup[i] + Sum(forgets[i]) + LooksOut(task, rel, i)
        <3>1. Lookups(f, i) = 0 /\ k.nlookup[i] = 0 /\ forgets[i] = <<>>
            BY <1>2, <1>4, <1>7, <2>1 DEF Lookups
        <3>2. Sum(forgets[i]) = 0
            BY <3>1, SumEmpty
        <3>. QED  BY <1>16, <3>1, <3>2
    <2>. QED  BY <2>1 DEF Balanced
<1>18. OpenBalanced(f, task, rel)
    BY <1>4, <1>16 DEF OpenBalanced, Opens
<1>19. \A t \in Tasks : TaskOK(disk, f, task[t], rel[t]) /\ RelOK(disk, f, rel[t])
    BY <1>10, <1>11
<1>. QED  BY <1>4, <1>12, <1>14, <1>15, <1>17, <1>18, <1>19 DEF Alive, Live

LEMMA NextStep ==
    ASSUME Alive, TreeAssumption, NodeAssumption, [Next]_vars
    PROVE  Alive' \/ (f'.abort /\ Cancelled)
<1>1. CASE UNCHANGED vars
    BY <1>1 DEF Alive, vars
<1>2. ASSUME NEW t \in Tasks, Start(t)  PROVE Alive'
    BY <1>2, StartRequest, ReleaseCommonStep
<1>3. ASSUME NEW t \in Tasks, Handle(t)  PROVE Alive'
    BY <1>3, HandleStep
<1>4. ASSUME NEW t \in Tasks, Kill(t) \/ Done(t)  PROVE Alive'
    BY <1>4, KillStep, DoneActionStep
<1>5. ASSUME NEW t \in Tasks, fuse_do_release(t) \/ UnlinkHidden(t)  PROVE Alive'
    BY <1>5, DoReleaseStep, UnlinkHiddenStep
<1>6. ASSUME NEW i \in NodeIds, fuse_lib_forget(i) \/ fuse_clear_inode(i)
      PROVE  Alive' \/ (f'.abort /\ Cancelled)
    BY <1>6, ForgetStep, ClearStep
<1>7. ASSUME NEW d \in k.dent, Expire(d) \/ Prune(d)  PROVE Alive'
    BY <1>7, ExpireStep, PruneStep
<1>. QED  BY <1>1, <1>2, <1>3, <1>4, <1>5, <1>6, <1>7 DEF Next

(* After an abort nothing happens in libfuse.                              *)
LEMMA AbortStays ==
    ASSUME f.abort, [Next]_vars
    PROVE  f'.abort
<1>1. CASE UNCHANGED vars
    BY <1>1 DEF vars
<1>2. ASSUME NEW t \in Tasks, Start(t)  PROVE f' = f
    <2>1. ASSUME NEW r, Request(t, r)  PROVE f' = f
        BY <2>1 DEF Request, Kernel
    <2>2. CASE Leave(t) \/ fuse_release_common(t) \/ \E n \in Names : Walk(t, n)
        BY <2>2 DEF Leave, Walk, fuse_release_common, Kernel
    <2>. QED  BY <1>2, <2>1, <2>2
              DEF Start, fuse_lookup, fuse_dentry_revalidate, create_new_entry, fuse_link,
                  fuse_unlink, fuse_rename, fuse_open
<1>3. ASSUME NEW t \in Tasks, Kill(t) \/ Done(t)  PROVE f' = f
    BY <1>3 DEF Kill, Done
<1>4. ASSUME NEW t \in Tasks, Handle(t)  PROVE FALSE
    BY <1>4 DEF Handle
<1>5. ASSUME NEW t \in Tasks, fuse_do_release(t) \/ UnlinkHidden(t)  PROVE FALSE
    BY <1>5 DEF fuse_do_release, UnlinkHidden
<1>6. ASSUME NEW i \in NodeIds, fuse_lib_forget(i)  PROVE FALSE
    BY <1>6 DEF fuse_lib_forget
<1>7. ASSUME NEW i \in NodeIds, fuse_clear_inode(i)  PROVE f' = f
    BY <1>7 DEF fuse_clear_inode
<1>8. ASSUME NEW d \in k.dent, Expire(d) \/ Prune(d)  PROVE f' = f
    BY <1>8 DEF Expire, Prune
<1>. QED  BY <1>1, <1>2, <1>3, <1>4, <1>5, <1>6, <1>7, <1>8 DEF Next

(***************************************************************************)
(* The invariant: libfuse has aborted, or everything is in order.          *)
(***************************************************************************)
TreeInv == f.abort \/ Alive

LEMMA TreeInvNext ==
    ASSUME TreeInv, TreeAssumption, NodeAssumption, [Next]_vars
    PROVE  TreeInv'
BY NextStep, AbortStays DEF TreeInv

\* The invariant holds in every state of the system.
THEOREM InvariantOfTheTree == Spec => []TreeInv
<1>1. Init => TreeInv
    BY InitAlive, TreeAssumption, NodeAssumption DEF TreeInv
<1>2. TreeInv /\ [Next]_vars => TreeInv'
    BY TreeInvNext, TreeAssumption, NodeAssumption
<1>. QED  BY <1>1, <1>2, PTL DEF Spec

(* A node that the table does not have is not open, one that it has is as  *)
(* open as Opens says; the sets are those of the balances.                 *)
LEMMA AliveBalances ==
    ASSUME TreeInv, ~f.abort, TreeAssumption
    PROVE  LookupsBalanced /\ OpensBalanced
<1>1. /\ TypesOK(disk, f, k, task, rel, forgets) /\ Sound(f)
      /\ Balanced(f, k, task, rel, forgets) /\ OpenBalanced(f, task, rel)
    BY AliveFacts DEF TreeInv
<1>2. ASSUME NEW i \in NodeIds, i # FUSE_ROOT_ID
      PROVE  (IF NodeHas(i) THEN f.nodes[i].nlookup ELSE 0) =
                 k.nlookup[i] + Sum(forgets[i])
                 + Cardinality({t \in Tasks : /\ task[t].pc = "done"
                                              /\ task[t].op # "open"
                                              /\ task[t].got = i})
                 + Cardinality({t \in Tasks : rel[t].forget /\ rel[t].ino = i})
    <2>1. PICK a, b : a = Cardinality(Looked(task, i)) /\ b = Cardinality(Backs(rel, i))
        OBVIOUS
    <2>2. a \in Nat /\ b \in Nat
        <3>1. Looked(task, i) \subseteq Tasks /\ Backs(rel, i) \subseteq Tasks
            BY DEF Looked, Backs
        <3>2. IsFiniteSet(Looked(task, i)) /\ IsFiniteSet(Backs(rel, i))
            BY <3>1, FS_Subset DEF TreeAssumption
        <3>. QED  BY <2>1, <3>2, FS_CardinalityType
    <2>3. PICK n, m, s : n = Lookups(f, i) /\ m = k.nlookup[i] /\ s = Sum(forgets[i])
        OBVIOUS
    <2>4. m \in Nat /\ s \in Nat
        BY <1>1, <2>3, LiveNumbers
    <2>5. n = m + s + (a + b)
        BY <1>1, <1>2, <2>1, <2>3 DEF Balanced, LooksOut
    <2>6. n = m + s + a + b
        BY <2>2, <2>4, <2>5
    <2>. QED  BY <2>1, <2>3, <2>6 DEF Lookups, NodeHas, Looked, Backs
<1>3. ASSUME NEW i \in DOMAIN f.nodes
      PROVE  f.nodes[i].open_count =
                 Cardinality({t \in Tasks : task[t].file = i})
                 + Cardinality({t \in Tasks : /\ task[t].pc = "done" /\ task[t].got = i
                                              /\ task[t].op \in {"open", "create"}})
                 + Cardinality({t \in Tasks : /\ rel[t].pc \in {"sent", "cancel"}
                                              /\ rel[t].ino = i})
    <2>1. i \in NodeIds
        BY <1>1 DEF Sound, Good, TableType
    <2>2. Opens(f, i) = f.nodes[i].open_count
        BY DEF Opens
    <2>. QED  BY <1>1, <2>1, <2>2 DEF OpenBalanced, OpensOut, Files, Openers, Closers
<1>4. LookupsBalanced
    BY <1>2, Zenon DEF LookupsBalanced
<1>5. OpensBalanced
    BY <1>3, Zenon DEF OpensBalanced
<1>. QED  BY <1>4, <1>5

\* Every node's references are its children and one for its lookups, and its
\* name leads to it from its parent: what find_node, remove_node, rename_node,
\* forget_node and unref_node leave behind, whatever runs between them.
THEOREM TableStaysSound == Spec => []TableSound
<1>1. TreeInv => TableSound
    BY AliveFacts, SoundMeans, NodeAssumption DEF TreeInv, TableSound
<1>. QED  BY <1>1, InvariantOfTheTree, PTL

\* No lookup that libfuse has counted is lost or given back twice: not by a
\* killed call (the ENOENT of reply_entry), not by an inode that the kernel
\* could not make (fuse_send_forget), not by a cancelled CREATE.
THEOREM LookupsStayBalanced == Spec => []LookupsBalanced
<1>1. TreeInv => LookupsBalanced
    BY AliveBalances, TreeAssumption DEF LookupsBalanced
<1>. QED  BY <1>1, InvariantOfTheTree, PTL

\* open_count is the number of opens that are yet to be released: no open and
\* no release is lost, so a hidden file goes with its last release.
THEOREM OpensStayBalanced == Spec => []OpensBalanced
<1>1. TreeInv => OpensBalanced
    BY AliveBalances, TreeAssumption DEF OpensBalanced
<1>. QED  BY <1>1, InvariantOfTheTree, PTL

\* get_node finds every node that a request, a forget or a release names, and
\* no node goes while it is open: the daemon aborts only over an open that was
\* refused after the node was opened, and is yet to be taken back.
THEOREM AbortsOnlyByCancel == Spec => OnlyCancelAborts
<1>1. TreeInv /\ [Next]_vars =>
          [f'.abort /\ ~f.abort => \E t \in Tasks : /\ rel[t].pc = "cancel"
                                                     /\ ~rel[t].forget]_vars
    BY NextStep, TreeAssumption, NodeAssumption DEF TreeInv, Alive, Cancelled
<1>. QED  BY <1>1, InvariantOfTheTree, PTL DEF Spec, OnlyCancelAborts
============================================================================
